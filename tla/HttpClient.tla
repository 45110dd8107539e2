----------------------------- MODULE HttpClient -----------------------------
(***************************************************************************)
(* ProtoMessageHttpClient::perform: resolve, connect, write the request,   *)
(* read the response, shut the connection down.  Every call is synchronous *)
(* and has a connection of its own; calls of several clients overlap.      *)
(***************************************************************************)
EXTENDS Connections

CONSTANT
  FromUrl    \* the calls of clients constructed with a URL: their host is
             \* empty and their port was never initialised

ASSUME ClientAssumption == FromUrl \subseteq Calls

VARIABLES
  call,      \* the step of perform each call is at
  outcome    \* how it ended: a result or the exception thrown

client == <<call, outcome>>

CallSteps == {"idle", "resolved", "connected", "sent", "received", "done"}
Outcomes  == {"none", "returned", "ConnectionException", "system_error"}

ClientTypeOK ==
  /\ call \in [Calls -> CallSteps]
  /\ outcome \in [Calls -> Outcomes]

ClientInit ==
  /\ call = [c \in Calls |-> "idle"]
  /\ outcome = [c \in Calls |-> "none"]

Proceed(c, step) ==
  /\ call' = [call EXCEPT ![c] = step]
  /\ UNCHANGED outcome

Finish(c, how) ==
  /\ call' = [call EXCEPT ![c] = "done"]
  /\ outcome' = [outcome EXCEPT ![c] = how]

-----------------------------------------------------------------------------
(***************************************************************************)
(* With an uninitialised port the service name may not be one.             *)
(***************************************************************************)
Resolve(c) ==
  /\ call[c] = "idle"
  /\ \/ Proceed(c, "resolved")
     \/ c \in FromUrl /\ Finish(c, "ConnectionException")
  /\ UNCHANGED network

Connect(c) ==
  /\ call[c] = "resolved"
  /\ acceptor = "listening"
  /\ link' = [link EXCEPT ![c] = "open"]
  /\ backlog' = Append(backlog, c)
  /\ Proceed(c, "connected")
  /\ UNCHANGED <<acceptor, request, response, faults>>

ConnectFails(c) ==
  /\ call[c] = "resolved"
  /\ acceptor # "listening" \/ c \in FromUrl
  /\ Finish(c, "ConnectionException")
  /\ UNCHANGED network

(***************************************************************************)
(* http::write throws on a connection that was reset.                      *)
(***************************************************************************)
WriteRequest(c) ==
  /\ call[c] = "connected"
  /\ \/ /\ link[c] = "open"
        /\ request' = request \cup {c}
        /\ Proceed(c, "sent")
     \/ /\ link[c] = "reset"
        /\ Finish(c, "system_error")
        /\ UNCHANGED request
  /\ UNCHANGED <<acceptor, backlog, link, response, faults>>

(***************************************************************************)
(* http::read blocks until there is a response; whether one that arrived   *)
(* before a reset is still readable depends on the platform.               *)
(***************************************************************************)
ReadResponse(c) ==
  /\ call[c] = "sent"
  /\ \/ response[c] # "none" /\ Proceed(c, "received")
     \/ link[c] = "reset" /\ Finish(c, "system_error")
  /\ UNCHANGED network

\* As if the socket outlived the call.
ShutdownForgotten(c) ==
  /\ call[c] = "received"
  /\ Finish(c, "returned")
  /\ UNCHANGED network

(***************************************************************************)
(* The response's body is the result, whatever its status.  An error of    *)
(* shutdown other than not_connected throws the result away.               *)
(***************************************************************************)
Shutdown(c) ==
  /\ call[c] = "received"
  /\ \/ Finish(c, "returned")
     \/ link[c] = "reset" /\ Finish(c, "system_error")
  /\ link' = [link EXCEPT ![c] = IF @ = "open" THEN "eof" ELSE @]
  /\ UNCHANGED <<acceptor, backlog, request, response, faults>>

(***************************************************************************)
(* What perform does by itself, once called.                               *)
(***************************************************************************)
Perform(c) ==
  \/ Connect(c)
  \/ ConnectFails(c)
  \/ WriteRequest(c)
  \/ ReadResponse(c)
  \/ Shutdown(c)
=============================================================================
