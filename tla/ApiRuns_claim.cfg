\* A refused registration rolls back the claim of a record that replaced its own.
SPECIFICATION ApiSpec
CONSTANTS
 Calls = {"h1", "h2"}
 RunIds = {"run1"}
 Plans = {"p1", "bad"}
 Buildable = {"p1"}
 MaxCreated = 2
INVARIANT RegisteringIsClaimed
CHECK_DEADLOCK FALSE
