------------------------ MODULE HttpExchangeTheorems ------------------------
(***************************************************************************)
(* Proofs about the HTTP client and server for any number of calls, of     *)
(* failures and of calls of start.  The four parts of the inductive        *)
(* invariant are about the owner's calls, about the acceptor, about the    *)
(* server's work and about the calls of perform.                           *)
(***************************************************************************)
EXTENDS HttpExchange, SequenceTheorems, TLAPS

Starting == {"locking", "checking", "unsatisfied", "blocked", "running"}
Stopping == {"closing", "stopping", "joining"}
NotRunning == {"none", "gaveUp", "ended"}
NotBound == {"none", "binding", "gaveUp"}
Served == {"notifying", "polling", "reading", "handling", "closing", "ended"}

(***************************************************************************)
(* done is set from the first stop on, and a thread that is not joinable   *)
(* has ended.  Before a late start at most one call of start has gone on.  *)
(***************************************************************************)
Lifecycle ==
  /\ owner = "created" => ~ joinable /\ ~ done /\ starts = 0
  /\ owner \in Starting /\ done => late
  /\ owner \in Starting => joinable /\ starts > 0
  /\ owner \in Stopping => done
  /\ owner = "stopped" => done /\ (joinable => late)
  /\ owner = "terminated" => starts > 1 \/ late
  /\ starts > 1 /\ ~ late => owner = "terminated"
  /\ owner = "destroyed" => ~ joinable
  /\ ~ joinable => thread \in NotRunning

(***************************************************************************)
(* A thread that has got past binding has an acceptor, until stop.         *)
(***************************************************************************)
Listening ==
  /\ owner = "running" => started
  /\ owner \in Starting /\ started => thread \in Served
  /\ owner \in Starting /\ thread \notin NotBound => acceptor = "listening"

(***************************************************************************)
(* Without failures and before stop no accept fails, and the io_context    *)
(* has work; until std::terminate no connection is reset.                  *)
(***************************************************************************)
Undisturbed == ~ done /\ faults = 0

Working ==
  /\ thread \in {"reading", "handling", "closing"} => socket \in Calls
  /\ Undisturbed /\ owner # "terminated" =>
       /\ acceptor # "closed"
       /\ \A c \in Calls : link[c] # "reset"
  /\ Undisturbed =>
       /\ ready \in Seq(Calls)
       /\ thread \in {"starting", "notifying", "polling", "ended"} =>
            waiting \/ ready # << >>

Handling(c) == thread = "handling" /\ socket = c

(***************************************************************************)
(* A request is sent, waits in the socket, is handled and answered once.   *)
(***************************************************************************)
Once(c) ==
  /\ handled[c] \in {0, 1}
  /\ call[c] \in {"idle", "resolved", "connected"} =>
       c \notin request /\ ~ Handling(c) /\ handled[c] = 0
  /\ c \in request => ~ Handling(c) /\ handled[c] = 0
  /\ Handling(c) => handled[c] = 0
  /\ response[c] # "none" => handled[c] = 1
  /\ call[c] = "received" => handled[c] = 1
  /\ call[c] # "done" => outcome[c] = "none"
  /\ outcome[c] = "returned" => handled[c] = 1
  /\ outcome[c] = "ConnectionException" =>
       c \notin request /\ ~ Handling(c) /\ handled[c] = 0

EachOnce == \A c \in Calls : Once(c)

HInv == TypeOK /\ Lifecycle /\ Listening /\ Working /\ EachOnce

-----------------------------------------------------------------------------
LEMMA SeqFacts ==
  ASSUME NEW S
  PROVE  /\ << >> \in Seq(S)
         /\ \A s \in Seq(S), x \in S : Append(s, x) \in Seq(S)
         /\ \A s \in Seq(S) : s # << >> => Head(s) \in S /\ Tail(s) \in Seq(S)
BY EmptySeq, AppendProperties, HeadTailProperties

(***************************************************************************)
(* A connection the server takes from the backlog belongs to a call.       *)
(***************************************************************************)
LEMMA StartAcceptType ==
  ASSUME TypeOK, StartAccept
  PROVE  /\ backlog' \in Seq(Calls)
         /\ ready' \in Seq(Calls \cup {NoCall})
         /\ waiting' \in BOOLEAN
<1> USE DEF TypeOK, NetworkTypeOK, ServerTypeOK
<1>1. backlog # << >> => Head(backlog) \in Calls /\ Tail(backlog) \in Seq(Calls)
  BY SeqFacts
<1>2. \A x \in Calls \cup {NoCall} : Append(ready, x) \in Seq(Calls \cup {NoCall})
  BY SeqFacts
<1> QED BY <1>1, <1>2 DEF StartAccept

LEMMA ResetLinksType ==
  ASSUME TypeOK, NEW cs, ResetLinks(cs)
  PROVE  link' \in [Calls -> Links] /\ request' \in SUBSET Calls
BY DEF TypeOK, NetworkTypeOK, ResetLinks, Links

LEMMA InitHInv == Init => HInv
<1> SUFFICES ASSUME Init PROVE HInv
  OBVIOUS
<1> USE DEF Init, NetworkInit, ClientInit, ServerInit
<1>1. TypeOK
  <2>1. << >> \in Seq(Calls) /\ << >> \in Seq(Calls \cup {NoCall})
    BY SeqFacts
  <2>2. NetworkTypeOK
    BY <2>1, NetworkAssumption DEF NetworkTypeOK, Links, Statuses
  <2>3. ClientTypeOK
    BY DEF ClientTypeOK, CallSteps, Outcomes
  <2>4. ServerTypeOK
    <3>1. 0 \in 0 .. MaxStarts /\ 0 \in 0 .. BindAttempts
      BY ServerAssumption
    <3> QED BY <2>1, <3>1 DEF ServerTypeOK, OwnerSteps, ThreadSteps
  <2> QED BY <2>2, <2>3, <2>4 DEF TypeOK
<1>2. Lifecycle /\ Listening /\ Working
  BY DEF Lifecycle, Listening, Working, Starting, Stopping, NotRunning
<1>3. EachOnce
  BY DEF EachOnce, Once, Handling
<1> QED BY <1>1, <1>2, <1>3 DEF HInv

(***************************************************************************)
(* Type correctness, action by action.                                     *)
(***************************************************************************)
LEMMA TypeNext == TypeOK /\ [Next]_vars => TypeOK'
<1> SUFFICES ASSUME TypeOK, [Next]_vars PROVE TypeOK'
  OBVIOUS
<1> USE NetworkAssumption, ServerAssumption
    DEF TypeOK, NetworkTypeOK, ClientTypeOK, ServerTypeOK, network, client,
        server, ownerVars, flags, threadVars, context
<1> DEFINE Accepts == Seq(Calls \cup {NoCall})
<1>0. /\ << >> \in Seq(Calls) /\ << >> \in Accepts
      /\ \A x \in Calls : Append(backlog, x) \in Seq(Calls)
      /\ \A x \in Calls \cup {NoCall} : Append(ready, x) \in Accepts
      /\ backlog # << >> => Head(backlog) \in Calls /\ Tail(backlog) \in Seq(Calls)
      /\ ready # << >> => Head(ready) \in Calls \cup {NoCall} /\ Tail(ready) \in Accepts
  BY SeqFacts
<1>1. CASE UNCHANGED vars
  BY <1>1 DEF vars
<1>2. CASE BindFails /\ UNCHANGED client
  BY <1>2 DEF BindFails
<1>3. CASE Bind /\ UNCHANGED client
  BY <1>3 DEF Bind, ThreadSteps
<1>4. CASE GiveUp /\ UNCHANGED client
  BY <1>4 DEF GiveUp, ThreadSteps
<1>5. CASE FirstAccept /\ UNCHANGED client
  BY <1>5, StartAcceptType DEF FirstAccept, ThreadSteps
<1>6. CASE SetStarted /\ UNCHANGED client
  BY <1>6 DEF SetStarted, ThreadSteps
<1>7. CASE Notify /\ UNCHANGED client
  BY <1>7 DEF Notify, ThreadSteps, OwnerSteps
<1>8. CASE RunReturns /\ UNCHANGED client
  BY <1>8 DEF RunReturns, ThreadSteps
<1>9. CASE AcceptCompletes /\ UNCHANGED client
  BY <1>0, <1>9 DEF AcceptCompletes
<1>10. CASE HandleAccept /\ UNCHANGED client
  BY <1>0, <1>10 DEF HandleAccept, ThreadSteps
<1>11. CASE ReadRequest /\ UNCHANGED client
  BY <1>11 DEF ReadRequest, ThreadSteps
<1>12. CASE EndOfStream /\ UNCHANGED client
  BY <1>12 DEF EndOfStream, ThreadSteps
<1>13. CASE ReadFails /\ UNCHANGED client
  BY <1>13 DEF ReadFails, ThreadSteps
<1>14. CASE HandleRequest /\ UNCHANGED client
  <2>1. Answers(MethodOf(socket)) \subseteq Statuses
    BY DEF Answers, Statuses
  <2>2. handled' = [handled EXCEPT ![socket] = handled[socket] + 1]
    BY <1>14 DEF HandleRequest
  <2>3. handled' \in [Calls -> Nat]
    <3>1. CASE socket \in Calls
      BY <2>2, <3>1
    <3>2. CASE socket \notin Calls
      BY <2>2, <3>2
    <3> QED BY <3>1, <3>2
  <2> QED BY <1>14, <2>1, <2>3 DEF HandleRequest, ThreadSteps
<1>15. CASE CloseConnection /\ UNCHANGED client
  BY <1>15, StartAcceptType DEF CloseConnection, ThreadSteps, Links
<1>16. CASE (LockMutex \/ CheckStarted \/ Block \/ SpuriousWakeup) /\ UNCHANGED client
  BY <1>16 DEF LockMutex, CheckStarted, Block, SpuriousWakeup, OwnerSteps
<1>17. CASE CloseAcceptor /\ UNCHANGED client
  BY <1>0, <1>17, ResetLinksType DEF CloseAcceptor, OwnerSteps
<1>18. CASE StopContext /\ UNCHANGED client
  BY <1>18 DEF StopContext, OwnerSteps
<1>19. CASE Join /\ UNCHANGED client
  BY <1>19 DEF Join, OwnerSteps
<1>20. CASE Start /\ UNCHANGED client
  <2>1. starts' \in 0 .. MaxStarts /\ late' \in BOOLEAN
    BY <1>20 DEF Start
  <2>2. CASE Terminate
    BY <1>0, <1>20, <2>1, <2>2, ResetLinksType DEF Start, Terminate, OwnerSteps
  <2>3. CASE ~ Terminate
    <3>1. /\ owner' = "locking" /\ joinable' = TRUE /\ started' = FALSE
          /\ thread' = "binding" /\ attempts' = 0
          /\ UNCHANGED <<network, done, socket, handled, context>>
      BY <1>20, <2>3 DEF Start
    <3>2. 0 \in 0 .. BindAttempts
      OBVIOUS
    <3> QED BY <1>20, <2>1, <3>1, <3>2 DEF OwnerSteps, ThreadSteps
  <2> QED BY <2>2, <2>3
<1>21. CASE Stop /\ UNCHANGED client
  BY <1>21 DEF Stop, OwnerSteps
<1>22. CASE Destroy /\ UNCHANGED client
  <2>1. CASE Terminate
    BY <1>0, <1>22, <2>1, ResetLinksType DEF Destroy, Terminate, OwnerSteps
  <2>2. CASE ~ Terminate
    BY <1>0, <1>22, <2>2, ResetLinksType DEF Destroy, OwnerSteps
  <2> QED BY <2>1, <2>2
<1>23. CASE AcceptFails /\ UNCHANGED client
  <2>1. faults' \in 0 .. MaxFaults /\ ready' \in Accepts
    BY <1>0, <1>23 DEF AcceptFails
  <2> QED BY <1>23, <2>1 DEF AcceptFails
<1>24. ASSUME NEW c \in Calls, Break(c), UNCHANGED <<client, server>>
       PROVE  TypeOK'
  BY <1>24, ResetLinksType DEF Break
<1>25. ASSUME NEW c \in Calls, Resolve(c) \/ Perform(c), UNCHANGED server
       PROVE  TypeOK'
  <2> USE DEF Proceed, Finish, CallSteps, Outcomes
  <2>1. CASE Resolve(c)
    BY <1>25, <2>1 DEF Resolve
  <2>2. CASE Connect(c)
    BY <1>0, <1>25, <2>2 DEF Connect, Links
  <2>3. CASE ConnectFails(c)
    BY <1>25, <2>3 DEF ConnectFails
  <2>4. CASE WriteRequest(c)
    BY <1>25, <2>4 DEF WriteRequest
  <2>5. CASE ReadResponse(c)
    BY <1>25, <2>5 DEF ReadResponse
  <2>6. CASE Shutdown(c)
    BY <1>25, <2>6 DEF Shutdown, Links
  <2> QED BY <1>25, <2>1, <2>2, <2>3, <2>4, <2>5, <2>6 DEF Perform
<1> QED
  BY <1>1, <1>2, <1>3, <1>4, <1>5, <1>6, <1>7, <1>8, <1>9, <1>10, <1>11,
     <1>12, <1>13, <1>14, <1>15, <1>16, <1>17, <1>18, <1>19, <1>20, <1>21,
     <1>22, <1>23, <1>24, <1>25 DEF Next, ThreadStep, OwnerStep

(***************************************************************************)
(* Only start, stop and the end of the thread change what Lifecycle is     *)
(* about; Terminate is reached by a start of a server whose thread was not *)
(* joined, or by the end of one that was started late.                     *)
(***************************************************************************)
LEMMA LifecycleNext == TypeOK /\ Lifecycle /\ [Next]_vars => Lifecycle'
<1> SUFFICES ASSUME TypeOK, Lifecycle, [Next]_vars PROVE Lifecycle'
  OBVIOUS
<1> USE DEF Lifecycle, Starting, Stopping, NotRunning, ownerVars, flags,
            threadVars
<1>0. starts \in Nat
  BY ServerAssumption DEF TypeOK, ServerTypeOK
<1>1. CASE UNCHANGED <<owner, starts, joinable, done, late, thread>>
  BY <1>1
<1>2. CASE ThreadStep
  <2>1. UNCHANGED <<starts, joinable, done, late>>
    BY <1>2 DEF ThreadStep, BindFails, Bind, GiveUp, FirstAccept, SetStarted,
                Notify, RunReturns, AcceptCompletes, HandleAccept, ReadRequest,
                EndOfStream, ReadFails, HandleRequest, CloseConnection
  <2>2. thread \notin NotRunning
    BY <1>2 DEF ThreadStep, BindFails, Bind, GiveUp, FirstAccept, SetStarted,
                Notify, RunReturns, AcceptCompletes, HandleAccept, ReadRequest,
                EndOfStream, ReadFails, HandleRequest, CloseConnection
  <2>3. owner' = owner \/ (owner = "blocked" /\ owner' = "locking")
    BY <1>2 DEF ThreadStep, BindFails, Bind, GiveUp, FirstAccept, SetStarted,
                Notify, RunReturns, AcceptCompletes, HandleAccept, ReadRequest,
                EndOfStream, ReadFails, HandleRequest, CloseConnection
  <2> QED BY <2>1, <2>2, <2>3
<1>3. CASE LockMutex \/ CheckStarted \/ Block \/ SpuriousWakeup
  BY <1>3 DEF LockMutex, CheckStarted, Block, SpuriousWakeup
<1>4. CASE CloseAcceptor \/ StopContext
  BY <1>4 DEF CloseAcceptor, StopContext
<1>5. CASE Join
  BY <1>5 DEF Join
<1>6. CASE Start
  <2>1. CASE owner' = "locking"
    <3>1. /\ ~ joinable /\ joinable' /\ done' = done /\ late' = (late \/ done)
          /\ starts' = starts + 1 /\ owner \in {"created", "running", "stopped"}
          /\ thread' = "binding"
      BY <1>6, <2>1 DEF Start, Terminate
    <3>2. \/ owner = "created" /\ starts' = 1
          \/ owner = "stopped" /\ late'
      <4>1. owner # "running"
        BY <3>1
      <4>2. owner = "created" => starts' = 1
        BY <1>0, <3>1
      <4>3. owner = "stopped" => late'
        BY <3>1
      <4> QED BY <3>1, <4>1, <4>2, <4>3
    <3> QED BY <1>0, <2>1, <3>1, <3>2
  <2>2. CASE owner' # "locking"
    <3>1. joinable /\ owner \in {"running", "stopped"}
      BY <1>6, <2>2 DEF Start
    <3>2. /\ owner' = "terminated" /\ joinable' = joinable /\ late' = (late \/ done)
          /\ starts' = starts + 1
      BY <1>6, <2>2 DEF Start, Terminate
    <3>3. \/ owner = "running" /\ starts > 0
          \/ owner = "stopped" /\ late'
      BY <3>1, <3>2
    <3>4. starts > 0 => starts' > 1
      BY <1>0, <3>2
    <3> QED BY <3>1, <3>2, <3>3, <3>4
  <2> QED BY <2>1, <2>2
<1>7. CASE Stop
  BY <1>7 DEF Stop
<1>8. CASE Destroy
  <2>1. owner = "stopped" /\ UNCHANGED <<starts, joinable, done, late, thread>>
    BY <1>8 DEF Destroy, Terminate
  <2>2. \/ ~ joinable /\ owner' = "destroyed"
        \/ joinable /\ owner' = "terminated"
    BY <1>8 DEF Destroy, Terminate
  <2> QED BY <2>1, <2>2
<1>9. ASSUME \/ AcceptFails
             \/ \E c \in Calls : Break(c) /\ UNCHANGED server
             \/ UNCHANGED server
      PROVE  UNCHANGED <<owner, starts, joinable, done, late, thread>>
  BY <1>9 DEF AcceptFails, server
<1> QED
  BY <1>1, <1>2, <1>3, <1>4, <1>5, <1>6, <1>7, <1>8, <1>9
  DEF Next, OwnerStep, vars

(***************************************************************************)
(* The acceptor closes only in stop and after it, and a new start resets   *)
(* started and the thread together.                                        *)
(***************************************************************************)
LEMMA ListeningNext ==
  TypeOK /\ Lifecycle /\ Listening /\ [Next]_vars => Listening'
<1> SUFFICES ASSUME TypeOK, Lifecycle, Listening, [Next]_vars
             PROVE  Listening'
  OBVIOUS
<1> USE DEF Lifecycle, Listening, Starting, NotBound, Served, network,
            ownerVars, flags, threadVars
<1>1. CASE UNCHANGED <<owner, started, thread, acceptor>>
  BY <1>1
<1>2. CASE Bind \/ BindFails \/ GiveUp
  BY <1>2 DEF Bind, BindFails, GiveUp
<1>3. CASE FirstAccept \/ SetStarted \/ Notify
  BY <1>3 DEF FirstAccept, SetStarted, Notify
<1>4. CASE RunReturns \/ AcceptCompletes \/ HandleAccept \/ ReadRequest
  BY <1>4 DEF RunReturns, AcceptCompletes, HandleAccept, ReadRequest
<1>5. CASE EndOfStream \/ ReadFails \/ HandleRequest \/ CloseConnection
  BY <1>5 DEF EndOfStream, ReadFails, HandleRequest, CloseConnection
<1>6. CASE LockMutex \/ CheckStarted \/ Block \/ SpuriousWakeup
  BY <1>6 DEF LockMutex, CheckStarted, Block, SpuriousWakeup
<1>7. CASE CloseAcceptor \/ StopContext \/ Join \/ Stop
  BY <1>7 DEF CloseAcceptor, StopContext, Join, Stop
<1>8. CASE Start \/ Destroy
  BY <1>8 DEF Start, Destroy, Terminate
<1>9. ASSUME \/ AcceptFails
             \/ \E c \in Calls : Break(c) /\ UNCHANGED server
             \/ \E c \in Calls : (Resolve(c) \/ Perform(c)) /\ UNCHANGED server
             \/ UNCHANGED vars
      PROVE  UNCHANGED <<owner, started, thread, acceptor>>
  BY <1>9 DEF AcceptFails, Break, Resolve, Perform, Connect, ConnectFails,
              WriteRequest, ReadResponse, Shutdown, server, vars
<1> QED
  BY <1>1, <1>2, <1>3, <1>4, <1>5, <1>6, <1>7, <1>8, <1>9
  DEF Next, ThreadStep, OwnerStep

(***************************************************************************)
(* Every accept that is handled before stop is followed by another one, at *)
(* the end of its connection.                                              *)
(***************************************************************************)
LEMMA WorkingNext ==
  TypeOK /\ Lifecycle /\ Working /\ [Next]_vars => Working'
<1> SUFFICES ASSUME TypeOK, Lifecycle, Working, [Next]_vars PROVE Working'
  OBVIOUS
<1> USE DEF Working, Undisturbed, network, client, ownerVars, flags, threadVars,
            context
<1>1. faults \in Nat /\ ready \in Seq(Calls \cup {NoCall}) /\ NoCall \notin Calls
  BY NetworkAssumption, ServerAssumption DEF TypeOK, NetworkTypeOK, ServerTypeOK
<1>2. /\ \A x \in Calls : Append(ready, x) # << >>
      /\ ready \in Seq(Calls) => \A x \in Calls : Append(ready, x) \in Seq(Calls)
      /\ backlog # << >> => Head(backlog) \in Calls
      /\ ready \in Seq(Calls) /\ ready # << >> =>
           Head(ready) \in Calls /\ Tail(ready) \in Seq(Calls)
      /\ ready # << >> => Head(ready) \in Calls \cup {NoCall}
  <2>1. \A x \in Calls : Append(ready, x) # << >>
    BY <1>1, AppendProperties
  <2> QED BY <1>1, <2>1, SeqFacts DEF TypeOK, NetworkTypeOK
<1>3. ASSUME StartAccept, Undisturbed, owner # "terminated"
      PROVE  (waiting' \/ ready' # << >>) /\ ready' \in Seq(Calls)
  BY <1>2, <1>3 DEF StartAccept
<1>4. ASSUME UNCHANGED <<network, done, thread, socket, waiting, ready>>,
             owner = "terminated" => owner' = "terminated"
      PROVE  Working'
  BY <1>4
<1>5. CASE BindFails \/ Bind \/ GiveUp
  BY <1>5 DEF BindFails, Bind, GiveUp
<1>6. CASE owner # "terminated" /\ FirstAccept
  BY <1>3, <1>6 DEF FirstAccept
<1>7. CASE SetStarted \/ Notify
  BY <1>7 DEF SetStarted, Notify
<1>8. CASE RunReturns
  BY <1>8 DEF RunReturns
<1>9. CASE AcceptCompletes
  BY <1>2, <1>9 DEF AcceptCompletes
<1>10. CASE HandleAccept
  BY <1>1, <1>2, <1>10 DEF HandleAccept
<1>11. CASE ReadRequest \/ EndOfStream
  BY <1>11 DEF ReadRequest, EndOfStream
<1>12. CASE owner # "terminated" /\ ReadFails
  BY <1>12 DEF ReadFails
<1>13. CASE owner # "terminated" /\ HandleRequest
  BY <1>13 DEF HandleRequest
<1>14. CASE owner # "terminated" /\ CloseConnection
  <2>1. /\ StartAccept /\ thread' = "polling" /\ done' = done
        /\ faults' = faults /\ acceptor' = acceptor
        /\ link' = [link EXCEPT ![socket] = IF @ = "reset" THEN @ ELSE "closed"]
          /\ owner # "terminated"
    BY <1>14 DEF CloseConnection
  <2>2. ASSUME NEW c \in Calls, link[c] # "reset" PROVE link'[c] # "reset"
    BY <2>1, <2>2 DEF TypeOK, NetworkTypeOK
  <2> QED BY <1>3, <2>1, <2>2
<1>15. ASSUME owner \in Stopping \cup {"stopped"}, done' = done,
              UNCHANGED <<thread, socket>>
       PROVE  Working'
  BY <1>15 DEF Lifecycle
<1>16. CASE CloseAcceptor \/ StopContext \/ Join
  BY <1>15, <1>16 DEF CloseAcceptor, StopContext, Join, Stopping
<1>17. CASE Start
  BY <1>15, <1>17 DEF Start, Terminate, Lifecycle
<1>18. CASE Stop
  BY <1>18 DEF Stop
<1>19. CASE Destroy
  BY <1>15, <1>19 DEF Destroy, Terminate
<1>20. ASSUME faults' = faults + 1, UNCHANGED <<thread, socket>>
       PROVE  Working'
  BY <1>1, <1>20
<1>21. CASE AcceptFails
  BY <1>20, <1>21 DEF AcceptFails
<1>22. ASSUME NEW c \in Calls, Break(c), UNCHANGED server
       PROVE  Working'
  BY <1>20, <1>22 DEF Break, server
<1>23. ASSUME NEW c \in Calls, Resolve(c) \/ Perform(c), UNCHANGED server
       PROVE  Working'
  <2>1. /\ acceptor' = acceptor /\ faults' = faults
        /\ \A d \in Calls : link[d] # "reset" => link'[d] # "reset"
    BY <1>23 DEF TypeOK, NetworkTypeOK, Resolve, Perform, Connect, ConnectFails,
                 WriteRequest, ReadResponse, Shutdown
  <2> QED BY <1>23, <2>1 DEF server
<1>24. CASE LockMutex \/ CheckStarted \/ Block \/ SpuriousWakeup
  BY <1>4, <1>24 DEF LockMutex, CheckStarted, Block, SpuriousWakeup
<1> QED
  BY <1>4, <1>5, <1>6, <1>7, <1>8, <1>9, <1>10, <1>11, <1>12, <1>13, <1>14,
     <1>16, <1>17, <1>18, <1>19, <1>21, <1>22, <1>23, <1>24
  DEF Next, ThreadStep, OwnerStep, vars, server

(***************************************************************************)
(* A request moves from the client to the socket, from there to the        *)
(* server's handler, and is gone; a response exists only then.             *)
(***************************************************************************)
LEMMA OnceNext == TypeOK /\ Working /\ EachOnce /\ [Next]_vars => EachOnce'
<1> SUFFICES ASSUME TypeOK, Working, EachOnce, [Next]_vars, NEW c \in Calls
             PROVE  Once(c)'
  BY DEF EachOnce
<1>1. Once(c)
  BY DEF EachOnce
<1> USE DEF Once, Handling, ownerVars, threadVars, context
<1>2. CASE UNCHANGED <<call, outcome, request, response, handled, thread, socket>>
  BY <1>1, <1>2
<1>3. ASSUME request' \subseteq request, thread' # "handling",
             UNCHANGED <<call, outcome, response, handled>>
      PROVE  Once(c)'
  BY <1>1, <1>3
<1>4. CASE ThreadStep /\ UNCHANGED client
  <2>1. CASE ReadRequest
    BY <1>1, <1>4, <2>1 DEF ReadRequest, client
  <2>2. CASE HandleRequest
    <3>1. /\ thread = "handling" /\ thread' # "handling" /\ socket \in Calls
          /\ handled' = [handled EXCEPT ![socket] = @ + 1]
          /\ UNCHANGED <<request, call, outcome>>
          /\ \A d \in Calls : d # socket => response'[d] = response[d]
      BY <1>4, <2>2 DEF HandleRequest, client, Working, TypeOK, NetworkTypeOK
    <3>2. handled \in [Calls -> Nat]
      BY DEF TypeOK, ServerTypeOK
    <3>3. CASE c = socket
      BY <1>1, <3>1, <3>2, <3>3
    <3>4. CASE c # socket
      BY <1>1, <3>1, <3>2, <3>4
    <3> QED BY <3>3, <3>4
  <2>3. CASE ~ ReadRequest /\ ~ HandleRequest
    <3> USE DEF network, client
    <3>1. CASE BindFails \/ Bind \/ GiveUp \/ FirstAccept \/ SetStarted \/ Notify
      BY <1>3, <1>4, <3>1
      DEF BindFails, Bind, GiveUp, FirstAccept, SetStarted, Notify
    <3>2. CASE RunReturns \/ AcceptCompletes \/ HandleAccept
      BY <1>3, <1>4, <3>2 DEF RunReturns, AcceptCompletes, HandleAccept
    <3>3. CASE EndOfStream \/ ReadFails \/ CloseConnection
      BY <1>3, <1>4, <3>3 DEF EndOfStream, ReadFails, CloseConnection
    <3> QED BY <1>4, <2>3, <3>1, <3>2, <3>3 DEF ThreadStep
  <2> QED BY <2>1, <2>2, <2>3
<1>5. ASSUME request' \subseteq request,
             UNCHANGED <<call, outcome, response, handled, thread, socket>>
      PROVE  Once(c)'
  BY <1>1, <1>5
<1>6. CASE (OwnerStep \/ SpuriousWakeup \/ Stop \/ AcceptFails) /\ UNCHANGED client
  BY <1>5, <1>6
  DEF OwnerStep, LockMutex, CheckStarted, Block, SpuriousWakeup, CloseAcceptor,
      StopContext, Join, Stop, AcceptFails, ResetLinks, network, client
<1>7. CASE (Start \/ Destroy) /\ UNCHANGED client
  BY <1>3, <1>5, <1>7 DEF Start, Destroy, Terminate, ResetLinks, network, client
<1>8. ASSUME NEW d \in Calls, Break(d), UNCHANGED <<client, server>>
      PROVE  Once(c)'
  BY <1>5, <1>8 DEF Break, ResetLinks, client, server
<1>9. ASSUME NEW d \in Calls, Resolve(d) \/ Perform(d), UNCHANGED server
      PROVE  Once(c)'
  <2>1. UNCHANGED <<response, handled, thread, socket>>
    BY <1>9 DEF Resolve, Perform, Connect, ConnectFails, WriteRequest,
                ReadResponse, Shutdown, server, network
  <2>2. call \in [Calls -> CallSteps] /\ outcome \in [Calls -> Outcomes]
    BY DEF TypeOK, ClientTypeOK
  <2>3. Once(d)
    BY <1>9 DEF EachOnce
  <2>4. CASE c # d
    BY <1>1, <1>9, <2>1, <2>2, <2>4
    DEF Resolve, Perform, Connect, ConnectFails, WriteRequest, ReadResponse,
        Shutdown, network, Proceed, Finish
  <2>5. CASE c = d
    <3> USE <1>9, <2>1, <2>2, <2>3, <2>5 DEF Proceed, Finish
    <3>1. CASE Resolve(d)
      BY <3>1 DEF Resolve, network
    <3>2. CASE Connect(d)
      BY <3>2 DEF Connect
    <3>3. CASE ConnectFails(d)
      BY <3>3 DEF ConnectFails, network
    <3>4. CASE WriteRequest(d)
      BY <3>4 DEF WriteRequest
    <3>5. CASE ReadResponse(d)
      BY <3>5 DEF ReadResponse, network
    <3>6. CASE Shutdown(d)
      BY <3>6 DEF Shutdown
    <3> QED BY <3>1, <3>2, <3>3, <3>4, <3>5, <3>6 DEF Perform
  <2> QED BY <2>4, <2>5
<1> QED
  BY <1>2, <1>4, <1>6, <1>7, <1>8, <1>9 DEF Next, vars, network, client,
     server

LEMMA HInvNext == HInv /\ [Next]_vars => HInv'
BY TypeNext, LifecycleNext, ListeningNext, WorkingNext, OnceNext DEF HInv

LEMMA HInvHolds == Spec => []HInv
BY InitHInv, HInvNext, PTL DEF Spec

-----------------------------------------------------------------------------
(***************************************************************************)
(* Type correctness of client and server, for any number of calls,         *)
(* failures and starts.                                                    *)
(***************************************************************************)
THEOREM ExchangeTypes == Spec => []TypeOK
<1>1. HInv => TypeOK
  BY DEF HInv
<1> QED BY <1>1, HInvHolds, PTL

(***************************************************************************)
(* Whenever start() has returned and stop() was not called since, the      *)
(* server listens, after a restart too.                                    *)
(***************************************************************************)
THEOREM RunningListens == Spec => []ListensWhileRunning
<1>1. HInv => ListensWhileRunning
  BY DEF HInv, Listening, Starting, NotBound, Served, ListensWhileRunning
<1> QED BY <1>1, HInvHolds, PTL

(***************************************************************************)
(* The server thread does not run out of work while nothing breaks.        *)
(***************************************************************************)
THEOREM ServerStaysResponsive == Spec => []StaysResponsive
<1>1. HInv => StaysResponsive
  BY DEF HInv, Working, Undisturbed, StaysResponsive
<1> QED BY <1>1, HInvHolds, PTL

(***************************************************************************)
(* std::terminate needs a start out of turn: a second one, or one after a  *)
(* stop of the same object; and a second one without a stop leads there.   *)
(***************************************************************************)
THEOREM TerminatesOnlyOutOfTurn == Spec => []OnlyOutOfTurnTerminates
<1>1. HInv => OnlyOutOfTurnTerminates
  BY DEF HInv, Lifecycle, OnlyOutOfTurnTerminates
<1> QED BY <1>1, HInvHolds, PTL

(***************************************************************************)
(* No server is destroyed before its thread has ended, and only a start    *)
(* out of turn ends the process instead.                                   *)
(***************************************************************************)
THEOREM ThreadNeverOutlives == Spec => []ThreadEndsFirst
<1>1. HInv => ThreadEndsFirst
  BY DEF HInv, Lifecycle, NotRunning, ThreadEndsFirst, OnlyOutOfTurnTerminates
<1> QED BY <1>1, HInvHolds, PTL

-----------------------------------------------------------------------------
States == [c \in Calls |-> CallState(c)]

Ways ==
  {<<"pending", "refused">>, <<"pending", "handled">>, <<"handled", "returned">>,
   <<"pending", "failed">>, <<"handled", "failed">>}

(***************************************************************************)
(* A step that changes the state of one call in one of these ways is a     *)
(* step of RequestOutcomes.                                                *)
(***************************************************************************)
LEMMA OneCallBecomes ==
  ASSUME NEW d \in Calls,
         \A c \in Calls \ {d} : CallState(c)' = CallState(c),
         \/ CallState(d)' = CallState(d)
         \/ <<CallState(d), CallState(d)'>> \in Ways
  PROVE  [Requests!Next]_States
<1>1. CASE CallState(d)' = CallState(d)
  BY <1>1 DEF States
<1>2. CASE <<CallState(d), CallState(d)'>> \in Ways
  <2>1. States' = [States EXCEPT ![d] = CallState(d)']
    BY DEF States
  <2>2. States[d] = CallState(d)
    BY DEF States
  <2>3. \/ Requests!Refuse(d) \/ Requests!Handle(d)
        \/ Requests!Return(d) \/ Requests!Fail(d)
    BY <1>2, <2>1, <2>2
    DEF Ways, States, Requests!Refuse, Requests!Handle, Requests!Return,
        Requests!Fail, Requests!Becomes
  <2> QED BY <2>3 DEF Requests!Next
<1> QED BY <1>1, <1>2

LEMMA StepsRefine == HInv /\ HInv' /\ [Next]_vars => [Requests!Next]_States
<1> SUFFICES ASSUME HInv, HInv', [Next]_vars PROVE [Requests!Next]_States
  OBVIOUS
<1>1. /\ handled \in [Calls -> Nat] /\ outcome \in [Calls -> Outcomes]
      /\ call \in [Calls -> CallSteps]
      /\ \A c \in Calls : Once(c) /\ Once(c)'
  BY DEF HInv, TypeOK, ServerTypeOK, ClientTypeOK, EachOnce
<1>2. CASE UNCHANGED <<outcome, handled>>
  BY <1>2 DEF States, CallState
<1>3. ASSUME NEW d \in Calls, d = socket, HandleRequest, UNCHANGED client
      PROVE  [Requests!Next]_States
  <2>1. /\ Handling(d)
        /\ handled' = [handled EXCEPT ![d] = @ + 1]
        /\ outcome' = outcome
    BY <1>3 DEF HandleRequest, Handling, client
  <2>2. \A c \in Calls \ {d} : CallState(c)' = CallState(c)
    BY <1>1, <2>1 DEF CallState
  <2>3. handled[d] = 0 /\ handled'[d] = 1
    BY <1>1, <2>1 DEF Once
  <2>4. outcome[d] \in {"none", "system_error"}
    BY <1>1, <2>1, <2>3 DEF Once, Outcomes
  <2>5. \/ CallState(d)' = CallState(d)
        \/ <<CallState(d), CallState(d)'>> \in Ways
    <3>1. CASE outcome[d] = "none"
      <4>1. CallState(d) = "pending"
        BY <2>3, <3>1 DEF CallState
      <4>2. CallState(d)' = "handled"
        BY <2>1, <2>3, <3>1 DEF CallState
      <4> QED BY <4>1, <4>2 DEF Ways
    <3>2. CASE outcome[d] = "system_error"
      BY <2>1, <3>2 DEF CallState
    <3> QED BY <2>4, <3>1, <3>2
  <2> QED BY <2>2, <2>5, OneCallBecomes
<1>4. ASSUME NEW d \in Calls, Resolve(d) \/ Perform(d), UNCHANGED server
      PROVE  [Requests!Next]_States
  <2>1. handled' = handled
    BY <1>4 DEF server, threadVars
  <2>2. \A c \in Calls \ {d} : outcome'[c] = outcome[c]
    BY <1>1, <1>4
    DEF Resolve, Perform, Connect, ConnectFails, WriteRequest, ReadResponse,
        Shutdown, Proceed, Finish
  <2>3. \A c \in Calls \ {d} : CallState(c)' = CallState(c)
    BY <2>1, <2>2 DEF CallState
  <2>4. outcome'[d] # outcome[d] => call[d] # "done"
    BY <1>1, <1>4
    DEF Resolve, Perform, Connect, ConnectFails, WriteRequest, ReadResponse,
        Shutdown, Proceed, Finish
  <2>5. outcome'[d] \in Outcomes
    BY <1>1 DEF HInv, TypeOK, ClientTypeOK
  <2>6. \/ CallState(d)' = CallState(d)
        \/ <<CallState(d), CallState(d)'>> \in Ways
    <3>1. CASE outcome'[d] = outcome[d]
      BY <2>1, <3>1 DEF CallState
    <3>2. CASE outcome'[d] # outcome[d]
      <4>1. outcome[d] = "none" /\ handled[d] \in {0, 1}
        BY <1>1, <2>4, <3>2 DEF Once
      <4>2. /\ outcome'[d] = "returned" => handled'[d] = 1
            /\ outcome'[d] = "ConnectionException" => handled'[d] = 0
        BY <1>1 DEF Once
      <4> QED BY <2>1, <2>5, <3>2, <4>1, <4>2 DEF CallState, Ways, Outcomes
    <3> QED BY <3>1, <3>2
  <2> QED BY <2>3, <2>6, OneCallBecomes
<1>5. CASE ThreadStep /\ UNCHANGED client
  <2>1. CASE HandleRequest
    <3>1. socket \in Calls
      BY <2>1 DEF HandleRequest, HInv, Working
    <3> QED BY <1>3, <1>5, <2>1, <3>1
  <2>2. CASE ~ HandleRequest
    <3>1. UNCHANGED <<outcome, handled>>
      BY <1>5, <2>2
      DEF ThreadStep, BindFails, Bind, GiveUp, FirstAccept, SetStarted, Notify,
          RunReturns, AcceptCompletes, HandleAccept, ReadRequest, EndOfStream,
          ReadFails, CloseConnection, ownerVars, threadVars, client
    <3> QED BY <1>2, <3>1
  <2> QED BY <2>1, <2>2
<1>6. CASE (OwnerStep \/ SpuriousWakeup \/ Stop \/ AcceptFails \/ Start \/ Destroy)
             /\ UNCHANGED client
  BY <1>2, <1>6
  DEF OwnerStep, LockMutex, CheckStarted, Block, SpuriousWakeup, CloseAcceptor,
      StopContext, Join, Stop, AcceptFails, Start, Destroy, Terminate,
      threadVars, client
<1>7. CASE UNCHANGED <<client, server>>
  BY <1>2, <1>7 DEF client, server, threadVars
<1> QED BY <1>4, <1>5, <1>6, <1>7 DEF Next, vars

(***************************************************************************)
(* Client and server implement RequestOutcomes: a call that returned had   *)
(* its request handled exactly once, one that was refused not at all.      *)
(***************************************************************************)
THEOREM ExchangeHandlesOnce == Spec => HandlesOnce
<1>1. Init => Requests!Init
  BY DEF Init, ClientInit, ServerInit, Requests!Init, CallState
<1>2. Requests!Spec <=> Requests!Init /\ [][Requests!Next]_States
  BY DEF Requests!Spec, States
<1> QED BY <1>1, <1>2, StepsRefine, HInvHolds, PTL DEF Spec, HandlesOnce
=============================================================================
