---------------------------- MODULE SchemaService ----------------------------
(***************************************************************************)
(* What Ros2DecodeFactory.decoder_for promises its callers: a call returns *)
(* what the schema it was asked about deserves, whoever else is calling,   *)
(* whatever was asked before.                                              *)
(***************************************************************************)
CONSTANTS Callers, Requests, Deserved(_)

VARIABLES
  asked,     \* the last request of each caller
  answer     \* what came of it, "pending" until it is known

serviceVars == <<asked, answer>>

Init ==
  /\ asked \in [Callers -> Requests]
  /\ answer = [c \in Callers |-> "idle"]

Ask(c, r) ==
  /\ answer[c] # "pending"
  /\ asked' = [asked EXCEPT ![c] = r]
  /\ answer' = [answer EXCEPT ![c] = "pending"]

Reply(c) ==
  /\ answer[c] = "pending"
  /\ answer' = [answer EXCEPT ![c] = Deserved(asked[c])]
  /\ UNCHANGED asked

Next == \E c \in Callers : Reply(c) \/ \E r \in Requests : Ask(c, r)

Spec == Init /\ [][Next]_serviceVars

=============================================================================
