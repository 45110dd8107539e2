---------------------------- MODULE HttpExchange ----------------------------
(***************************************************************************)
(* Clients and server together: any number of calls of perform, from       *)
(* threads or processes of their own, while the owner starts, stops and    *)
(* destroys the server.                                                    *)
(***************************************************************************)
EXTENDS HttpClient, HttpServer

vars == <<network, client, server>>

Init == NetworkInit /\ ClientInit /\ ServerInit

Next ==
  \/ (ThreadStep \/ OwnerStep \/ SpuriousWakeup) /\ UNCHANGED client
  \/ (Start \/ Stop \/ Destroy) /\ UNCHANGED client
  \/ \E c \in Calls : (Resolve(c) \/ Perform(c)) /\ UNCHANGED server
  \/ \E c \in Calls : Break(c) /\ UNCHANGED <<client, server>>
  \/ AcceptFails /\ UNCHANGED client

(***************************************************************************)
(* The operating system schedules both threads and every client, and the   *)
(* destructor that calls stop goes on to destroy the members.  Whether and *)
(* when perform, start and stop are called is up to the callers.           *)
(***************************************************************************)
Fairness ==
  /\ WF_vars(ThreadStep /\ UNCHANGED client)
  /\ WF_vars(OwnerStep /\ UNCHANGED client)
  /\ WF_vars(Destroy /\ UNCHANGED client)
  /\ \A c \in Calls : WF_vars(Perform(c) /\ UNCHANGED server)

Spec == Init /\ [][Next]_vars /\ Fairness

-----------------------------------------------------------------------------
TypeOK == NetworkTypeOK /\ ClientTypeOK /\ ServerTypeOK

(***************************************************************************)
(* When start() has returned and stop() was not called, the server listens *)
(* on its port: the tests ask for listeningPort() and connect right away.  *)
(***************************************************************************)
ListensWhileRunning == owner = "running" => acceptor = "listening"

(***************************************************************************)
(* As long as no connection breaks, the server thread never runs out of    *)
(* work before it is stopped: every path through handle_accept but the     *)
(* error paths accepts again.                                              *)
(***************************************************************************)
StaysResponsive ==
  thread \in {"polling", "ended"} /\ faults = 0 /\ ~ done =>
    waiting \/ ready # << >>

(***************************************************************************)
(* The process is only terminated if start was called out of turn: a       *)
(* second time, or after a stop of the same object, for done stays set, so *)
(* that stop() does not join the new thread.  A second start without a     *)
(* stop between never returns, for it finds the thread joinable.           *)
(***************************************************************************)
OnlyOutOfTurnTerminates ==
  /\ owner = "terminated" => starts > 1 \/ late
  /\ starts > 1 /\ ~ late => owner = "terminated"

(***************************************************************************)
(* The server thread, which works on the object it was started by, never   *)
(* outlives it: it has ended, or the process is terminated, which only a   *)
(* start out of turn can cause.                                            *)
(***************************************************************************)
ThreadEndsFirst ==
  /\ owner = "destroyed" => thread \in {"none", "gaveUp", "ended"}
  /\ OnlyOutOfTurnTerminates

(***************************************************************************)
(* The owner is never blocked for ever.  start() returns, unless no port   *)
(* could be bound: no wake-up of its wait is lost.  stop() returns         *)
(* whatever the server thread is doing when it is called, even inside the  *)
(* blocking read of a connection.                                          *)
(***************************************************************************)
OwnerReturns ==
  /\ owner = "locking" ~> owner = "running" \/ thread = "gaveUp"
  /\ owner \in {"closing", "stopping", "joining"} ~>
       owner \in {"stopped", "destroyed"}

(***************************************************************************)
(* Every call of perform ends, by its response or by an exception, however *)
(* it overlaps with other calls and with the start and stop of the server. *)
(* Not so once a broken connection has left the server deaf, or a stopped  *)
(* server has been started again, which listens while its io_context never *)
(* runs.  A deaf server keeps its clients waiting no longer than until it  *)
(* is stopped and destroyed: then every call ends, whether its connection  *)
(* was being served, had been accepted, or was still in the backlog.       *)
(***************************************************************************)
CallsEnd ==
  \A c \in Calls :
    /\ call[c] = "resolved" ~> call[c] = "done" \/ faults > 0 \/ late
    /\ done /\ call[c] # "idle" ~> call[c] = "done" \/ late

-----------------------------------------------------------------------------
CallState(c) ==
  CASE outcome[c] = "ConnectionException"        -> "refused"
    [] outcome[c] = "system_error"               -> "failed"
    [] handled[c] > 1                            -> "repeated"
    [] outcome[c] = "returned"                   -> "returned"
    [] handled[c] = 1                            -> "handled"
    [] OTHER                                     -> "pending"

Requests == INSTANCE RequestOutcomes WITH
              state <- [c \in Calls |-> CallState(c)]

(***************************************************************************)
(* A call that returns had its request handled, exactly once; one that     *)
(* throws ConnectionException can be repeated, for nothing was handled;    *)
(* one that throws system_error may have been handled or not.              *)
(***************************************************************************)
HandlesOnce == Requests!Spec
=============================================================================
