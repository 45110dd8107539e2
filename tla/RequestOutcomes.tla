--------------------------- MODULE RequestOutcomes ---------------------------
(***************************************************************************)
(* What the caller of ProtoMessageHttpClient::perform may conclude from    *)
(* how the call ends.                                                      *)
(***************************************************************************)
CONSTANT Calls

VARIABLE state    \* of each call

Init == state = [c \in Calls |-> "pending"]

Becomes(c, from, to) ==
  /\ state[c] \in from
  /\ state' = [state EXCEPT ![c] = to]

(***************************************************************************)
(* The connection was never made.                                          *)
(***************************************************************************)
Refuse(c) == Becomes(c, {"pending"}, "refused")

Handle(c) == Becomes(c, {"pending"}, "handled")

Return(c) == Becomes(c, {"handled"}, "returned")

(***************************************************************************)
(* The connection was lost, before or after the request was handled.       *)
(***************************************************************************)
Fail(c) == Becomes(c, {"pending", "handled"}, "failed")

Next == \E c \in Calls : Refuse(c) \/ Handle(c) \/ Return(c) \/ Fail(c)

Spec == Init /\ [][Next]_state
=============================================================================
