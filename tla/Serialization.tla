---------------------------- MODULE Serialization ----------------------------
(***************************************************************************)
(* What a call of ProtoMessageSerializer promises, in one step: an input   *)
(* that stands for something is answered with just that, an input that is  *)
(* beyond what protobuf allows is refused, and any other is answered in    *)
(* some way or refused.  Every call ends.                                  *)
(***************************************************************************)
CONSTANTS
  Given,            \* the inputs of the call
  Promised,         \* those that must be answered
  Forbidden,        \* those that must be refused
  AnswerTo          \* what an input that must be answered stands for

VARIABLES
  given,
  state,            \* "running", "returned" or "failed"
  answer            \* what was returned

Init == given \in Given /\ state = "running"

Answer ==
  /\ state = "running"
  /\ state' = "returned"
  /\ given \notin Forbidden
  /\ given \in Promised => answer' = AnswerTo[given]
  /\ UNCHANGED given

Refuse ==
  /\ state = "running"
  /\ state' = "failed"
  /\ given \notin Promised
  /\ UNCHANGED <<given, answer>>

Next == Answer \/ Refuse

Ends == <>(state # "running")

Spec == Init /\ [][Next]_<<given, state, answer>> /\ Ends
=============================================================================
