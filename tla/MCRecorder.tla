------------------------------ MODULE MCRecorder ------------------------------
(* Values for the constants of Recorder: a source that beats, skips a sequence *)
(* and reuses one, and inline content whose sealing may fail.                  *)
EXTENDS Recorder

Emits(n, b, p, t) ==
  [source |-> "c1", seq |-> n, run |-> "r1", beat |-> b, payload |-> p,
   label |-> IF b THEN "collector_fact" ELSE "worker_claim", at |-> t]

EvOf == [b0 |-> Emits(0, TRUE, "metadata_only", 0),
         x1 |-> Emits(1, FALSE, "inline", 0),
         y1 |-> Emits(1, FALSE, "object_ref", 0),
         b2 |-> Emits(2, TRUE, "metadata_only", 2)]
EventIds == DOMAIN EvOf
Deliveries == {<<"b0">>, <<"x1">>, <<"b2">>, <<"b0", "b0", "y1">>, <<"x1", "b2">>, <<"b2", "x1">>,
               <<"x1", "b2", "y1">>}
=============================================================================
