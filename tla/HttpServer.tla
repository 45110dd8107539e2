----------------------------- MODULE HttpServer -----------------------------
(***************************************************************************)
(* HttpServer (test/src/httpserver.cpp): the thread that owns the object   *)
(* calls start and stop, and the server thread runs the io_context, which  *)
(* accepts and serves one connection at a time.  The threads meet at the   *)
(* condition variable of start, at the atomic flags, and in stop, which    *)
(* closes the acceptor and joins the thread.                               *)
(***************************************************************************)
EXTENDS Connections

CONSTANTS
  Gets,           \* the calls that ask by GET, the others by POST
  KeepAlive,      \* the calls whose requests are HTTP/1.1
  Handlers,       \* the methods the server was constructed with a handler for
  BindAttempts,   \* ports make_and_bind_acceptor tries
  MaxStarts,      \* bound on the calls of start
  NoCall

ASSUME ServerAssumption ==
  /\ Gets \subseteq Calls
  /\ KeepAlive \subseteq Calls
  /\ Handlers \subseteq {"get", "post"}
  /\ BindAttempts \in Nat \ {0}
  /\ MaxStarts \in Nat
  /\ NoCall \notin Calls

VARIABLES
  owner,      \* where the owner is in start or stop
  starts,     \* how often it called start
  late,       \* whether it did so after stop
  joinable,   \* whether serverThread is
  started,
  done,
  thread,     \* where the server thread is
  attempts,   \* ports it has failed to bind
  socket,     \* the connection it is serving
  waiting,    \* an async_accept waits for a connection
  ready,      \* completed accepts, NoCall for a failed one, not yet handled
  stopped,    \* the io_context is
  handled     \* how often handle_request ran for each call

flags      == <<starts, late, joinable, started, done>>
ownerVars  == <<owner, flags>>
threadVars == <<thread, attempts, socket, handled>>
context    == <<waiting, ready, stopped>>
server     == <<ownerVars, threadVars, context>>

OwnerSteps ==
  {"created", "locking", "checking", "unsatisfied", "blocked", "running",
   "closing", "stopping", "joining", "stopped", "destroyed", "terminated"}
ThreadSteps ==
  {"none", "binding", "gaveUp", "arming", "starting", "notifying", "polling",
   "reading", "handling", "closing", "ended"}

ServerTypeOK ==
  /\ owner \in OwnerSteps
  /\ starts \in 0 .. MaxStarts
  /\ late \in BOOLEAN
  /\ joinable \in BOOLEAN /\ started \in BOOLEAN /\ done \in BOOLEAN
  /\ thread \in ThreadSteps
  /\ attempts \in 0 .. BindAttempts
  /\ socket \in Calls \cup {NoCall}
  /\ waiting \in BOOLEAN
  /\ ready \in Seq(Calls \cup {NoCall})
  /\ stopped \in BOOLEAN
  /\ handled \in [Calls -> Nat]

ServerInit ==
  /\ owner = "created"
  /\ starts = 0
  /\ late = FALSE
  /\ joinable = FALSE /\ started = FALSE /\ done = FALSE
  /\ thread = "none"
  /\ attempts = 0
  /\ socket = NoCall
  /\ waiting = FALSE
  /\ ready = << >>
  /\ stopped = FALSE
  /\ handled = [c \in Calls |-> 0]

-----------------------------------------------------------------------------
(***************************************************************************)
(* The owner in start(), which looks at nothing before it assigns the new  *)
(* thread.  Assigning to a thread that is still joinable, as on a running  *)
(* server, calls std::terminate, and so does destroying it.  The new       *)
(* thread exists just before, but ends with the process.                   *)
(***************************************************************************)
Terminate ==
  /\ owner' = "terminated"
  /\ acceptor' = "closed"
  /\ backlog' = << >>
  /\ ResetLinks({c \in Calls : link[c] = "open"})
  /\ UNCHANGED <<response, faults, joinable, done, threadVars, context>>

Start ==
  /\ owner \in {"created", "running", "stopped"}
  /\ starts < MaxStarts
  /\ starts' = starts + 1
  /\ late' = (late \/ done)
  /\ started' = FALSE
  /\ \/ /\ ~ joinable
        /\ owner' = "locking"
        /\ joinable' = TRUE
        /\ thread' = "binding"
        /\ attempts' = 0
        /\ UNCHANGED <<network, done, socket, handled, context>>
     \/ joinable /\ Terminate

(***************************************************************************)
(* starting_mutex is held while the predicate is evaluated, until wait     *)
(* blocks and releases it in one step.                                     *)
(***************************************************************************)
MutexHeld == owner \in {"checking", "unsatisfied"}

LockMutex ==
  /\ owner = "locking"
  /\ owner' = "checking"
  /\ UNCHANGED <<network, flags, threadVars, context>>

CheckStarted ==
  /\ owner = "checking"
  /\ owner' = IF started THEN "running" ELSE "unsatisfied"
  /\ UNCHANGED <<network, flags, threadVars, context>>

Block ==
  /\ owner = "unsatisfied"
  /\ owner' = "blocked"
  /\ UNCHANGED <<network, flags, threadVars, context>>

SpuriousWakeup ==
  /\ owner = "blocked"
  /\ owner' = "locking"
  /\ UNCHANGED <<network, flags, threadVars, context>>

-----------------------------------------------------------------------------
\* As if the loop made one attempt too many.
BindFailsOnceMore ==
  /\ thread = "binding"
  /\ attempts <= BindAttempts
  /\ attempts' = attempts + 1
  /\ UNCHANGED <<network, ownerVars, thread, socket, handled, context>>

(***************************************************************************)
(* The server thread, from start() to ioc->run().                          *)
(***************************************************************************)
BindFails ==
  /\ thread = "binding"
  /\ attempts < BindAttempts
  /\ attempts' = attempts + 1
  /\ UNCHANGED <<network, ownerVars, thread, socket, handled, context>>

Bind ==
  /\ thread = "binding"
  /\ attempts < BindAttempts
  /\ acceptor' = "listening"
  /\ thread' = "arming"
  /\ UNCHANGED <<backlog, link, request, response, faults, ownerVars, attempts,
                 socket, handled, context>>

\* As if the thread went on without an acceptor.
GoOn ==
  /\ thread = "binding"
  /\ attempts = BindAttempts
  /\ thread' = "starting"
  /\ UNCHANGED <<network, ownerVars, attempts, socket, handled, context>>

GiveUp ==
  /\ thread = "binding"
  /\ attempts = BindAttempts
  /\ thread' = "gaveUp"
  /\ UNCHANGED <<network, ownerVars, attempts, socket, handled, context>>

(***************************************************************************)
(* start_accept: async_accept completes at once if a connection is waiting *)
(* or if the acceptor has been closed.  stop closes the acceptor without   *)
(* synchronisation while the server thread may be in this call; either     *)
(* comes first, or the accept fails, which is the outcome of a closed one. *)
(***************************************************************************)
StartAccept ==
  \/ /\ acceptor = "closed"
     /\ ready' = Append(ready, NoCall)
     /\ UNCHANGED <<waiting, backlog>>
  \/ /\ acceptor = "listening"
     /\ backlog # << >>
     /\ ready' = Append(ready, Head(backlog))
     /\ backlog' = Tail(backlog)
     /\ UNCHANGED waiting
  \/ /\ acceptor = "listening"
     /\ backlog = << >>
     /\ waiting' = TRUE
     /\ UNCHANGED <<ready, backlog>>

FirstAccept ==
  /\ thread = "arming"
  /\ StartAccept
  /\ thread' = "starting"
  /\ UNCHANGED <<acceptor, link, request, response, faults, ownerVars, attempts,
                 socket, handled, stopped>>

SetStarted ==
  /\ thread = "starting"
  /\ started' = TRUE
  /\ thread' = "notifying"
  /\ UNCHANGED <<network, owner, starts, late, joinable, done, attempts,
                 socket, handled, context>>

\* As if notify_one was called without the lock.
NotifyUnlocked ==
  /\ thread = "notifying"
  /\ owner' = IF owner = "blocked" THEN "locking" ELSE owner
  /\ thread' = "polling"
  /\ UNCHANGED <<network, flags, attempts, socket, handled, context>>

Notify ==
  /\ thread = "notifying"
  /\ ~ MutexHeld
  /\ owner' = IF owner = "blocked" THEN "locking" ELSE owner
  /\ thread' = "polling"
  /\ UNCHANGED <<network, flags, attempts, socket, handled, context>>

-----------------------------------------------------------------------------
(***************************************************************************)
(* ioc->run() handles one completed accept after the other, until it is    *)
(* stopped or has nothing to wait for.  A start after a stop finds it so:  *)
(* nothing calls restart().                                                *)
(***************************************************************************)
RunReturns ==
  /\ thread = "polling"
  /\ stopped \/ (~ waiting /\ ready = << >>)
  /\ stopped' = TRUE
  /\ thread' = "ended"
  /\ UNCHANGED <<network, ownerVars, attempts, socket, handled, waiting, ready>>

AcceptCompletes ==
  /\ thread = "polling"
  /\ ~ stopped
  /\ waiting
  /\ backlog # << >>
  /\ waiting' = FALSE
  /\ ready' = Append(ready, Head(backlog))
  /\ backlog' = Tail(backlog)
  /\ UNCHANGED <<acceptor, link, request, response, faults, ownerVars,
                 threadVars, stopped>>

(***************************************************************************)
(* accept itself fails, for want of file descriptors, say.                 *)
(***************************************************************************)
AcceptFails ==
  /\ faults < MaxFaults
  /\ waiting
  /\ waiting' = FALSE
  /\ ready' = Append(ready, NoCall)
  /\ faults' = faults + 1
  /\ UNCHANGED <<acceptor, backlog, link, request, response, ownerVars,
                 threadVars, stopped>>

(***************************************************************************)
(* handle_accept.  After an error it returns without accepting again,      *)
(* whether the server is going away or not.                                *)
(***************************************************************************)
HandleAccept ==
  /\ thread = "polling"
  /\ ~ stopped
  /\ ready # << >>
  /\ ready' = Tail(ready)
  /\ socket' = Head(ready)
  /\ thread' = IF Head(ready) = NoCall THEN "polling" ELSE "reading"
  /\ UNCHANGED <<network, ownerVars, attempts, handled, waiting, stopped>>

\* As if the request object was reused for the next read.
RereadRequest ==
  /\ thread = "reading"
  /\ socket \in request
  /\ thread' = "handling"
  /\ UNCHANGED <<network, ownerVars, attempts, socket, handled, context>>

ReadRequest ==
  /\ thread = "reading"
  /\ socket \in request
  /\ request' = request \ {socket}
  /\ thread' = "handling"
  /\ UNCHANGED <<acceptor, backlog, link, response, faults, ownerVars, attempts,
                 socket, handled, context>>

\* As if the end of the stream was an error like the others.
EndOfStreamReturns ==
  /\ thread = "reading"
  /\ socket \notin request
  /\ link[socket] = "eof"
  /\ thread' = "polling"
  /\ socket' = NoCall
  /\ UNCHANGED <<network, ownerVars, attempts, handled, context>>

EndOfStream ==
  /\ thread = "reading"
  /\ socket \notin request
  /\ link[socket] = "eof"
  /\ thread' = "closing"
  /\ UNCHANGED <<network, ownerVars, attempts, socket, handled, context>>

ReadFails ==
  /\ thread = "reading"
  /\ link[socket] = "reset"
  /\ thread' = "polling"
  /\ socket' = NoCall
  /\ UNCHANGED <<network, ownerVars, attempts, handled, context>>

(***************************************************************************)
(* handle_request: the handler's answer, or an error if there is none for  *)
(* the method or it throws; then the response is written, and the          *)
(* connection closed if the request was not keep-alive.                    *)
(***************************************************************************)
MethodOf(c) == IF c \in Gets THEN "get" ELSE "post"

Answers(method) ==
  CASE method \notin {"get", "post"} -> {"bad_request"}
    [] method \in Handlers           -> {"ok", "server_error"}
    [] OTHER                         -> {"server_error"}

HandleRequest ==
  /\ thread = "handling"
  /\ handled' = [handled EXCEPT ![socket] = @ + 1]
  /\ \/ /\ link[socket] # "reset"
        /\ \E status \in Answers(MethodOf(socket)) :
             response' = [response EXCEPT ![socket] = status]
        /\ thread' = IF socket \in KeepAlive THEN "reading" ELSE "closing"
        /\ UNCHANGED socket
     \/ /\ link[socket] = "reset"
        /\ thread' = "polling"
        /\ socket' = NoCall
        /\ UNCHANGED response
  /\ UNCHANGED <<acceptor, backlog, link, request, faults, ownerVars, attempts,
                 context>>

CloseConnection ==
  /\ thread = "closing"
  /\ link' = [link EXCEPT ![socket] = IF @ = "reset" THEN @ ELSE "closed"]
  /\ socket' = NoCall
  /\ StartAccept
  /\ thread' = "polling"
  /\ UNCHANGED <<acceptor, request, response, faults, ownerVars, attempts,
                 handled, stopped>>

-----------------------------------------------------------------------------
\* As if stop only joined the thread.
StopOnlyJoins ==
  /\ owner \in {"created", "running"}
  /\ owner' = IF done THEN "stopped" ELSE "joining"
  /\ done' = TRUE
  /\ UNCHANGED <<network, starts, late, joinable, started, threadVars, context>>

(***************************************************************************)
(* The owner in stop(): a second call returns at once.                     *)
(***************************************************************************)
Stop ==
  /\ owner \in {"created", "running"}
  /\ owner' = IF done THEN "stopped" ELSE "closing"
  /\ done' = TRUE
  /\ UNCHANGED <<network, starts, late, joinable, started, threadVars, context>>

CloseAcceptor ==
  /\ owner = "closing"
  /\ owner' = "stopping"
  /\ acceptor' = IF acceptor = "listening" THEN "closed" ELSE acceptor
  /\ backlog' = << >>
  /\ ResetLinks(ToSet(backlog))
  /\ waiting' = FALSE
  /\ ready' = IF waiting THEN Append(ready, NoCall) ELSE ready
  /\ UNCHANGED <<response, faults, flags, threadVars, stopped>>

StopContext ==
  /\ owner = "stopping"
  /\ owner' = "joining"
  /\ stopped' = TRUE
  /\ UNCHANGED <<network, flags, threadVars, waiting, ready>>

\* As if the thread was not joined.
JoinForgotten ==
  /\ owner = "joining"
  /\ owner' = "stopped"
  /\ UNCHANGED <<network, flags, threadVars, context>>

\* As if the thread was detached.
Detach ==
  /\ owner = "joining"
  /\ joinable' = FALSE
  /\ owner' = "stopped"
  /\ UNCHANGED <<network, starts, late, started, done, threadVars, context>>

Join ==
  /\ owner = "joining"
  /\ joinable => thread \in {"ended", "gaveUp"}
  /\ joinable' = FALSE
  /\ owner' = "stopped"
  /\ UNCHANGED <<network, starts, late, started, done, threadVars, context>>

\* As if the io_context and the acceptor were never freed.
DestroyLeaks ==
  /\ owner = "stopped"
  /\ \/ /\ ~ joinable
        /\ owner' = "destroyed"
        /\ UNCHANGED <<network, joinable, done, threadVars, context>>
     \/ joinable /\ Terminate
  /\ UNCHANGED <<starts, late, started>>

(***************************************************************************)
(* The rest of the destructor, after its call of stop: the io_context is   *)
(* destroyed with the sockets its unhandled accepts hold.                  *)
(***************************************************************************)
Destroy ==
  /\ owner = "stopped"
  /\ \/ /\ ~ joinable
        /\ owner' = "destroyed"
        /\ acceptor' = "closed"
        /\ ResetLinks(ToSet(ready) \cup ToSet(backlog))
        /\ ready' = << >>
        /\ backlog' = << >>
        /\ UNCHANGED <<response, faults, joinable, done, threadVars,
                       waiting, stopped>>
     \/ joinable /\ Terminate
  /\ UNCHANGED <<starts, late, started>>

-----------------------------------------------------------------------------
(***************************************************************************)
(* What the server thread does, and what the owner does once it has called *)
(* start or stop.  std::terminate ends both.                               *)
(***************************************************************************)
ThreadStep ==
  /\ owner # "terminated"
  /\ \/ BindFails \/ Bind \/ GiveUp
     \/ FirstAccept \/ SetStarted \/ Notify
     \/ RunReturns \/ AcceptCompletes \/ HandleAccept
     \/ ReadRequest \/ EndOfStream \/ ReadFails
     \/ HandleRequest \/ CloseConnection

OwnerStep ==
  \/ LockMutex \/ CheckStarted \/ Block
  \/ CloseAcceptor \/ StopContext \/ Join
=============================================================================
