----------------------------- MODULE Connections -----------------------------
(***************************************************************************)
(* What ProtoMessageHttpClient and HttpServer share: the listening socket  *)
(* and one TCP connection for each call of perform.  Sockets belong to the *)
(* operating system and to boost::asio, outside the repository; this is    *)
(* how the two classes rely on them.                                       *)
(***************************************************************************)
EXTENDS Naturals, Sequences, SequencesExt

CONSTANTS
  Calls,       \* the calls of ProtoMessageHttpClient::perform
  MaxFaults    \* bound on the failures of connections and of accept

ASSUME NetworkAssumption == MaxFaults \in Nat

VARIABLES
  acceptor,    \* the listening socket: "none", "listening" or "closed"
  backlog,     \* connections the kernel made and the server did not accept
  link,        \* the connection of each call
  request,     \* the calls whose request waits in the server's socket
  response,    \* the status of the response sent to each call
  faults

network == <<acceptor, backlog, link, request, response, faults>>

(***************************************************************************)
(* An open connection ends when the client shuts it down, when the server  *)
(* closes it, or when it is reset.                                         *)
(***************************************************************************)
Links    == {"none", "open", "eof", "closed", "reset"}
Statuses == {"none", "ok", "bad_request", "server_error"}

NetworkTypeOK ==
  /\ acceptor \in {"none", "listening", "closed"}
  /\ backlog \in Seq(Calls)
  /\ link \in [Calls -> Links]
  /\ request \in SUBSET Calls
  /\ response \in [Calls -> Statuses]
  /\ faults \in 0 .. MaxFaults

NetworkInit ==
  /\ acceptor = "none"
  /\ backlog = << >>
  /\ link = [c \in Calls |-> "none"]
  /\ request = {}
  /\ response = [c \in Calls |-> "none"]
  /\ faults = 0

(***************************************************************************)
(* The kernel resets connections nobody will serve; requests not yet read  *)
(* are lost with them.                                                     *)
(***************************************************************************)
ResetLinks(cs) ==
  /\ link' = [c \in Calls |-> IF c \in cs /\ link[c] # "closed" THEN "reset"
                                                                ELSE link[c]]
  /\ request' = request \ cs

(***************************************************************************)
(* A connection breaks, or what arrives on it is not a request that        *)
(* http::read accepts (a body over the parser's limit, say).               *)
(***************************************************************************)
Break(c) ==
  /\ faults < MaxFaults
  /\ link[c] \in {"open", "eof"}
  /\ ResetLinks({c})
  /\ faults' = faults + 1
  /\ UNCHANGED <<acceptor, backlog, response>>
=============================================================================
