------------------------------ MODULE Supervision ------------------------------
(***************************************************************************)
(* Supervision of one run (supervisor/): the record of its events grows,   *)
(* and a proposal is considered by the detector and, if anything is        *)
(* suspicious there, reviewed by a panel under a deadline.  What a session *)
(* review would report is a function of the record.                        *)
(*                                                                         *)
(* The panel runs in a goroutine of its own: its members answer one after  *)
(* the other, fail, panic, or never answer, and it may outlive the caller, *)
(* who waits for its result or for the deadline, whichever the select      *)
(* takes.                                                                  *)
(***************************************************************************)
EXTENDS SessionReview

CONSTANTS
  Records,      \* the records that may come about; every prefix of one is one
  Panels,       \* the panels in use: sequences of members
  Consults,     \* proposals that are considered, each once
  FailureModes  \* the profiles' OnFailure modes

Verdicts == {"ALLOW", "WATCH", "DENY", "ABSTAIN"}
\* What a member may come back with: a verdict, a word outside the contract, no
\* verdict at all, or an error.
Answers == Verdicts \cup {"off contract", "", "error"}

\* profile stands for the model, the family and the prompt.
MemberShapes ==
  [id : STRING, profile : STRING, reference : BOOLEAN,
   view : {"all", "independent", "worker_claims", "proposal_only"}]

\* NewPanel refuses anything else; all reference members have the same identity.
Heterogeneous(panel) ==
  /\ Len(panel) >= 2
  /\ \A i, j \in DOMAIN panel : i # j =>
       /\ panel[i].id # panel[j].id
       /\ panel[i].profile # panel[j].profile \/ panel[i].view # panel[j].view
       /\ ~(panel[i].reference /\ panel[j].reference)

ASSUME SupervisionAssumption ==
  /\ Panels \subseteq Seq(MemberShapes) /\ \A panel \in Panels : Heterogeneous(panel)
  /\ FailureModes \subseteq {"hold", "deny", "abstain"}
  /\ \A r \in Records : \A i, j \in DOMAIN r : r[i] \in Observations /\ (i # j => r[i] # r[j])

VARIABLES
  record,    \* the run's events in ingest order
  consult    \* [Consults -> one call of Consider and the goroutine it started]

supervisionVars == <<record, consult>>

\* pc: the caller.  panelist: the goroutine, "running" or what it sent, "none"
\* before it started and "panicked" when it recovered.  answers: what the
\* members came back with, before they became ballots.
NotConsidered ==
  [pc |-> "idle", panel |-> <<>>, mode |-> "hold", events |-> <<>>, suspicions |-> {},
   panelist |-> "none", answers |-> <<>>, expired |-> FALSE, outcome |-> "none", cites |-> {}]

SupervisionInit ==
  /\ record = <<>>
  /\ consult = [k \in Consults |-> NotConsidered]

-----------------------------------------------------------------------------
(* The panel                                                                 *)

\* A member's view narrows the window; the suspicions always travel whole.
View(events, view) ==
  CASE view = "all"           -> events
    [] view = "independent"   -> SelectSeq(events, LAMBDA e : Obs[e].independent)
    [] view = "worker_claims" -> SelectSeq(events, LAMBDA e : ~Obs[e].independent)
    [] view = "proposal_only" -> <<>>

\* The deterministic reviewer.
ReferenceVerdict(events, suspicions) ==
  CASE \E s \in suspicions : s.severity = "high"              -> "DENY"
    [] suspicions # {} /\ \A s \in suspicions : s.severity = "low" -> "WATCH"
    [] suspicions = {} /\ \E i \in DOMAIN events : Obs[events[i]].independent -> "ALLOW"
    [] OTHER                                                  -> "ABSTAIN"

MayAnswer(member, c) ==
  IF member.reference THEN {ReferenceVerdict(View(c.events, member.view), c.suspicions)}
  ELSE Answers

\* Mutation: a member's failure is not counted as an abstention.
BallotOfSilence(answer) == IF answer = "" THEN "ABSTAIN" ELSE answer

\* firstPass: a member that fails, or says nothing, abstains.
Ballot(answer) == IF answer \in {"", "error"} THEN "ABSTAIN" ELSE answer

\* A word outside the contract ranks as low as an allow.
Rank(verdict) ==
  CASE verdict = "DENY" -> 3 [] verdict = "WATCH" -> 2 [] verdict = "ABSTAIN" -> 1 [] OTHER -> 0

\* adjudicate: allow, unless some ballot is stricter.
Adjudicated(answers) ==
  LET ballots == {Ballot(answers[i]) : i \in DOMAIN answers}
      strictest == Max({Rank(b) : b \in ballots})
  IN IF strictest = 0 THEN "ALLOW" ELSE CHOOSE v \in Verdicts : Rank(v) = strictest

\* What a decision may cite; with nothing to cite there is no decision.
Citable(c) == {c.events[i] : i \in DOMAIN c.events} \cup RefsOf(c.suspicions)

-----------------------------------------------------------------------------
(* Consider, the deadline reviewer and the goroutine                         *)

Observe(e) ==
  /\ Append(record, e) \in Records
  /\ record' = Append(record, e)
  /\ UNCHANGED consult

\* Nothing suspicious: the gate alone decides.
NotRouted(k) ==
  /\ consult[k].pc = "idle" /\ Detect(record, WindowSize) = {}
  /\ consult' = [consult EXCEPT ![k].pc = "returned", ![k].outcome = "not_routed"]
  /\ UNCHANGED record

Consider(k, panel, mode) ==
  /\ consult[k].pc = "idle" /\ Detect(record, WindowSize) # {}
  /\ consult' = [consult EXCEPT ![k] =
       [@ EXCEPT !.pc = "waiting", !.panel = panel, !.mode = mode, !.events = record,
                 !.suspicions = Detect(record, WindowSize), !.panelist = "running"]]
  /\ UNCHANGED record

\* The next member answers; after the last one the panel adjudicates and the
\* goroutine sends.
MemberAnswers(k, answer) ==
  LET c == consult[k]
      answers == Append(c.answers, answer)
  IN
  /\ c.panelist = "running"
  /\ answer \in MayAnswer(c.panel[Len(answers)], c)
  /\ consult' = [consult EXCEPT
       ![k].answers = answers,
       ![k].panelist = IF Len(answers) < Len(c.panel) THEN "running"
                       ELSE IF Citable(c) = {} THEN "held" ELSE Adjudicated(answers)]
  /\ UNCHANGED record

MemberPanics(k) ==
  /\ consult[k].panelist = "running"
  /\ ~consult[k].panel[Len(consult[k].answers) + 1].reference
  /\ consult' = [consult EXCEPT ![k].panelist = "panicked"]
  /\ UNCHANGED record

DeadlinePasses(k) ==
  /\ consult[k].pc = "waiting" /\ ~consult[k].expired
  /\ consult' = [consult EXCEPT ![k].expired = TRUE]
  /\ UNCHANGED record

\* The profile's answer when there is no usable decision; never an allow.
Fallback(c) ==
  IF c.mode = "hold" \/ Citable(c) = {} THEN "held"
  ELSE IF c.mode = "deny" THEN "DENY" ELSE "ABSTAIN"

ReturnWith(k, outcome) ==
  consult' = [consult EXCEPT ![k].pc = "returned", ![k].outcome = outcome,
                             ![k].cites = IF outcome \in Verdicts THEN Citable(consult[k]) ELSE {}]

\* The select: whichever of the two is ready, or either when both are.
Sent(k) == consult[k].panelist \notin {"none", "running"}
TakeResult(k) ==
  /\ consult[k].pc = "waiting" /\ Sent(k)
  /\ ReturnWith(k, IF consult[k].panelist \in Verdicts THEN consult[k].panelist
                   ELSE Fallback(consult[k]))
  /\ UNCHANGED record

\* Mutation: the caller waits for the panel before it looks at the deadline.
TakeDeadlineAfterPanel(k) ==
  /\ consult[k].pc = "waiting" /\ consult[k].expired /\ Sent(k)
  /\ ReturnWith(k, Fallback(consult[k]))
  /\ UNCHANGED record

TakeDeadline(k) ==
  /\ consult[k].pc = "waiting" /\ consult[k].expired
  /\ ReturnWith(k, Fallback(consult[k]))
  /\ UNCHANGED record

-----------------------------------------------------------------------------
SupervisionNext ==
  \/ \E e \in Observations : Observe(e)
  \/ \E k \in Consults :
       \/ NotRouted(k)
       \/ \E panel \in Panels, mode \in FailureModes : Consider(k, panel, mode)
       \/ \E answer \in Answers : MemberAnswers(k, answer)
       \/ MemberPanics(k)
       \/ DeadlinePasses(k) \/ TakeResult(k) \/ TakeDeadline(k)

\* The timer fires and the caller's select is scheduled; members owe nothing.
CallerFairness ==
  \A k \in Consults :
    /\ WF_supervisionVars(DeadlinePasses(k))
    /\ WF_supervisionVars(TakeResult(k) \/ TakeDeadline(k))

SupervisionSpec == SupervisionInit /\ [][SupervisionNext]_supervisionVars /\ CallerFairness

-----------------------------------------------------------------------------
(* Properties                                                                *)

SupervisionTypeOK ==
  /\ record \in Seq(Observations)
  /\ \A k \in Consults :
       /\ consult[k].pc \in {"idle", "waiting", "returned"}
       /\ consult[k].answers \in Seq(Answers)
       /\ consult[k].outcome \in Verdicts \cup {"none", "not_routed", "held"}
       /\ consult[k].cites \subseteq Observations

\* An allow comes only from a panel all of whose members answered, none of them
\* with a failure, a silence or a stricter verdict, and no reference member among
\* them, which never allows what was routed; nor does a deadline, a panic or a
\* fallback allow (panel.go:95-97, 204-206, reviewer.go:185-192).  A word that is
\* no verdict of the contract counts like an allow (panel.go:287-291), and a panel
\* that answers with nothing else allows: see OnlyAllowsAllow.
AllowIsUnanimous ==
  \A k \in Consults : consult[k].outcome = "ALLOW" =>
    /\ Len(consult[k].answers) = Len(consult[k].panel)
    /\ \A i \in DOMAIN consult[k].answers :
         consult[k].answers[i] \in {"ALLOW", "off contract"} /\ ~consult[k].panel[i].reference
    /\ consult[k].cites # {}

\* panel_test.go:244: "All allow is the only path to allow."
OnlyAllowsAllow ==
  \A k \in Consults : consult[k].outcome = "ALLOW" =>
    \A i \in DOMAIN consult[k].answers : consult[k].answers[i] = "ALLOW"

\* A session is called reviewed only when its record leaves nothing open: every
\* proposed effect was decided, every allowed one has its receipt, every tool
\* request its answer, the worker's tool traffic a heartbeat, and every event lies
\* in exactly one segment without open questions (session.go:4-9).  An event that
\* names no effect is about none (session.go:310, 329, 340).
ReviewedIsComplete ==
  LET At(i, kind) == IsKind(record[i], kind)
      Effect(i) == Obs[record[i]].effect
      Has(kind, x) == \E j \in DOMAIN record : At(j, kind) /\ Effect(j) = x
      segments == Report(record).segments
  IN
  Report(record).outcome = "reviewed" =>
    \A i \in DOMAIN record :
      /\ At(i, "proposed_action") /\ Effect(i) # NoEffect => Has("broker_decision", Effect(i))
      /\ At(i, "broker_decision") /\ Effect(i) # NoEffect /\ Obs[record[i]].content = "allow"
           => Has("external_receipt", Effect(i))
      /\ At(i, "tool_request") =>
           /\ \E j \in DOMAIN record : At(j, "tool_response") /\ record[i] \in Obs[record[j]].answers
           /\ Obs[record[i]].worker => \E j \in DOMAIN record : At(j, "collector_heartbeat")
      /\ \E n \in DOMAIN segments :
           /\ segments[n].open = {}
           /\ {m \in DOMAIN segments : i \in segments[m].first..segments[m].last} = {n}

\* Every proposal that is routed gets an answer, even when a member never returns:
\* the deadline bounds the wait (reviewer.go:185-192).
ConsultationEnds == \A k \in Consults : consult[k].pc = "waiting" ~> consult[k].pc = "returned"
=============================================================================
