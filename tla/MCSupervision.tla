----------------------------- MODULE MCSupervision -----------------------------
(* Values for the constants of Supervision: effects decided, receipted or not, *)
(* a denied retry, a proposal and a decision that name no effect, tool traffic *)
(* with and without a heartbeat, a correction, and a record longer than the    *)
(* review budget.                                                              *)
EXTENDS Supervision

Told(kind, effect, content, worker, answers, seq) ==
  [kind |-> kind, source |-> "w1", seq |-> seq, content |-> content, effect |-> effect,
   worker |-> worker, independent |-> ~worker, corrects |-> {}, answers |-> answers,
   admits |-> {}]

ObsOf ==
  [ask     |-> Told("proposed_action", "x", "other", TRUE, {}, 1),
   allow   |-> Told("broker_decision", "x", "allow", FALSE, {}, 1),
   receipt |-> Told("external_receipt", "x", "other", FALSE, {}, 2),
   deny    |-> Told("broker_decision", "y", "deny", FALSE, {}, 1),
   retry   |-> Told("proposed_action", "y", "other", TRUE, {}, 2),
   tool    |-> Told("tool_request", "", "other", TRUE, {}, 3),
   reply   |-> [Told("tool_response", "", "other", TRUE, {"tool"}, 4)
                  EXCEPT !.admits = {"delayed"}],
   blank   |-> Told("proposed_action", "", "other", TRUE, {}, 4),
   waved   |-> Told("broker_decision", "", "allow", FALSE, {}, 2),
   pulse   |-> Told("collector_heartbeat", "", "other", FALSE, {}, 5),
   retract |-> [Told("tool_response", "", "other", TRUE, {}, 5) EXCEPT !.corrects = {"reply"}]]
ObservationIds == DOMAIN ObsOf

Transcripts == {<<"ask", "allow", "receipt", "pulse", "tool">>, <<"receipt", "allow", "ask">>,
                <<"deny", "retry">>, <<"tool", "reply", "pulse", "retract">>, <<"ask", "deny">>,
                <<"pulse", "blank", "waved">>}
RecordsOf == UNION {{SubSeq(t, 1, n) : n \in 0..Len(t)} : t \in Transcripts}

Member(id, view, reference) ==
  [id |-> id, profile |-> id, reference |-> reference, view |-> view]
PanelsOf == {<<Member("m1", "all", FALSE), Member("m2", "proposal_only", FALSE)>>,
             <<Member("m1", "worker_claims", FALSE), Member("ref", "independent", TRUE)>>}
=============================================================================
