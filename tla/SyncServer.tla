----------------------------- MODULE SyncServer -----------------------------
(***************************************************************************)
(* The TCP server: class SyncServer with its acceptor thread, one thread   *)
(* per connection and the main thread that turns it off, and the clients   *)
(* that use class SQLid_API.                                               *)
(*                                                                         *)
(* A request is its length and then its text, sent and read one after the  *)
(* other.  What a request does to the databases is left to the other       *)
(* modules; what it does to the connection is kept: ATTACH and LEAVE       *)
(* choose how the next request is understood, DISCONNECT ends the thread.  *)
(***************************************************************************)
EXTENDS Integers, FiniteSets

CONSTANTS Clients,      \* the clients; the id of a connection is its client
          MaxRequests,  \* bound: the requests of all the clients
          StopAt,       \* bound: the requests unsent when shutdownAll begins
          FdLimit       \* the sockets the process may have open

ASSUME SyncServerAssumption ==
    /\ IsFiniteSet(Clients)
    /\ MaxRequests \in Nat
    /\ StopAt \in Nat
    /\ FdLimit \in Nat

\* "text" is any text but the empty one, LEAVE and DISCONNECT.
Requests == {"text", "leave", "disconnect", "empty"}
Answers  == {"none", "attached", "result", "left", "bye", "stray"}

VARIABLES listening,  \* acceptor_ is open
          backlog,    \* the connections that wait for accept
          accepted,   \* the connection the acceptor thread has in hand
          clients,    \* the keys of clients
          threads,    \* the keys of threads
          open,       \* the connections whose socket the server has open
          readers,    \* who holds add_mtx shared
          locked,     \* shutdownAll holds add_mtx exclusively
          stop,       \* the client threads that are asked to stop
          stopAccept, \* the acceptor thread is asked to stop
          pcMain,     \* where the main thread is
          pcAccept,   \* where the acceptor thread is
          pc,         \* where the thread of each connection is
          num,        \* its num: 0, or 1 for any other length
          joined,     \* its client.joinedToDataBase
          peer,       \* where each client is
          request,    \* the client's last request
          wire,       \* what of it has not been read yet
          answer,     \* the answer the client has not read yet
          told,       \* whether the client was told that it is attached
          left,       \* the requests the clients may still send
          crashed     \* the process died

netVars    == <<listening, backlog, open>>
lockVars   == <<readers, locked>>
tableVars  == <<clients, threads>>
stopVars   == <<stop, stopAccept>>
workVars   == <<pc, num, joined>>
clientVars == <<peer, request, wire, answer, told, left>>
mainVars   == <<pcMain, pcAccept, accepted>>
vars == <<netVars, lockVars, tableVars, stopVars, workVars, clientVars,
          mainVars, crashed>>

Nobody == "nobody"

TypeOK ==
    /\ listening \in BOOLEAN
    /\ backlog \subseteq Clients
    /\ accepted \in Clients \cup {Nobody}
    /\ clients \subseteq Clients
    /\ threads \subseteq Clients
    /\ open \subseteq Clients
    /\ readers \subseteq Clients
    /\ locked \in BOOLEAN
    /\ stop \subseteq Clients
    /\ stopAccept \in BOOLEAN
    /\ pcMain \in {"serving", "closeAll", "clear", "join", "destroy", "off"}
    /\ pcAccept \in {"check", "accept", "stopped?", "add", "end"}
    /\ pc \in [Clients -> {"none", "lock", "get", "loop", "number", "text",
                           "run", "failed", "discard", "end"}]
    /\ num \in [Clients -> {0, 1}]
    /\ joined \in [Clients -> BOOLEAN]
    /\ peer \in [Clients -> {"off", "ready", "sending", "waiting", "gone",
                             "reset"}]
    /\ request \in [Clients -> Requests]
    /\ wire \in [Clients -> SUBSET {"number", "text"}]
    /\ answer \in [Clients -> Answers]
    /\ told \in [Clients -> BOOLEAN]
    /\ left \in Nat
    /\ crashed \in BOOLEAN

Init ==
    /\ listening = TRUE /\ backlog = {} /\ open = {}
    /\ readers = {} /\ locked = FALSE
    /\ clients = {} /\ threads = {}
    /\ stop = {} /\ stopAccept = FALSE
    /\ pcMain = "serving" /\ pcAccept = "check" /\ accepted = Nobody
    /\ pc = [c \in Clients |-> "none"]
    /\ num = [c \in Clients |-> 0]
    /\ joined = [c \in Clients |-> FALSE]
    /\ peer = [c \in Clients |-> "off"]
    /\ request = [c \in Clients |-> "empty"]
    /\ wire = [c \in Clients |-> {}]
    /\ answer = [c \in Clients |-> "none"]
    /\ told = [c \in Clients |-> FALSE]
    /\ left = MaxRequests
    /\ crashed = FALSE

-----------------------------------------------------------------------------
(***************************************************************************)
(* The clients: SQLid_API::connect, request (its sendNumber, sendText and  *)
(* readJson) and the destructor.  A client may also die at any moment.     *)
(***************************************************************************)
Connect(c) ==
    /\ peer[c] = "off" /\ listening
    /\ peer' = [peer EXCEPT ![c] = "ready"]
    /\ backlog' = backlog \cup {c}
    /\ UNCHANGED <<listening, open, lockVars, tableVars, stopVars, workVars,
                   request, wire, answer, told, left, mainVars>>

SendNumber(c, r) ==
    /\ peer[c] = "ready" /\ answer[c] = "none" /\ left > 0
    /\ left' = left - 1
    /\ request' = [request EXCEPT ![c] = r]
    /\ wire' = [wire EXCEPT ![c] = @ \cup {"number"}]
    /\ peer' = [peer EXCEPT ![c] = "sending"]
    /\ UNCHANGED <<netVars, lockVars, tableVars, stopVars, workVars, answer,
                   told, mainVars>>

SendText(c) ==
    /\ peer[c] = "sending"
    /\ wire' = [wire EXCEPT ![c] = IF request[c] = "empty" THEN @
                                   ELSE @ \cup {"text"}]
    /\ peer' = [peer EXCEPT ![c] = "waiting"]
    /\ UNCHANGED <<netVars, lockVars, tableVars, stopVars, workVars, request,
                   answer, told, left, mainVars>>

\* A client that was disconnected, or that cannot make sense of what it
\* reads, goes.
ReadAnswer(c) ==
    /\ peer[c] = "waiting" /\ answer[c] # "none"
    /\ answer' = [answer EXCEPT ![c] = "none"]
    /\ told' = [told EXCEPT ![c] = CASE answer[c] = "attached" -> TRUE
                                 [] answer[c] = "left" -> FALSE
                                 [] OTHER -> @]
    /\ peer' = [peer EXCEPT ![c] = IF answer[c] \in {"bye", "stray"}
                                   THEN "gone" ELSE "ready"]
    /\ UNCHANGED <<netVars, lockVars, tableVars, stopVars, workVars, request,
                   wire, left, mainVars>>

\* ~SQLid_API says DISCONNECT and does not wait for the answer.
Leave(c) ==
    /\ peer[c] = "ready"
    /\ request' = [request EXCEPT ![c] = "disconnect"]
    /\ wire' = [wire EXCEPT ![c] = {"number", "text"}]
    /\ peer' = [peer EXCEPT ![c] = "gone"]
    /\ UNCHANGED <<netVars, lockVars, tableVars, stopVars, workVars, answer,
                   told, left, mainVars>>

Die(c) ==
    /\ peer[c] \in {"ready", "sending", "waiting"}
    /\ peer' = [peer EXCEPT ![c] = "gone"]
    /\ answer' = [answer EXCEPT ![c] = "none"]
    /\ UNCHANGED <<netVars, lockVars, tableVars, stopVars, workVars, request,
                   wire, told, left, mainVars>>

ClientStep(c) ==
    \/ Connect(c) \/ (\E r \in Requests : SendNumber(c, r)) \/ SendText(c)
    \/ ReadAnswer(c) \/ Leave(c) \/ Die(c)

-----------------------------------------------------------------------------
(***************************************************************************)
(* The acceptor thread: accept_loop and addNewClient.                      *)
(***************************************************************************)
CheckStopAccept ==
    /\ pcAccept = "check"
    /\ pcAccept' = IF stopAccept THEN "end" ELSE "accept"
    /\ UNCHANGED <<netVars, lockVars, tableVars, stopVars, workVars,
                   clientVars, pcMain, accepted>>

Accept ==
    /\ pcAccept = "accept" /\ listening /\ Cardinality(open) < FdLimit
    /\ \E c \in backlog :
          /\ backlog' = backlog \ {c}
          /\ open' = open \cup {c}
          /\ accepted' = c
    /\ pcAccept' = "stopped?"
    /\ UNCHANGED <<listening, lockVars, tableVars, stopVars, workVars,
                   clientVars, pcMain>>

\* Faulty variant of AcceptFails: the loop goes on with no connection.
AcceptFails_GoesOn ==
    /\ pcAccept = "accept"
    /\ ~listening \/ (backlog # {} /\ Cardinality(open) >= FdLimit)
    /\ pcAccept' = "add"
    /\ UNCHANGED <<netVars, lockVars, tableVars, stopVars, workVars,
                   clientVars, pcMain, accepted>>

\* Any error ends the loop, and with it the thread.
AcceptFails ==
    /\ pcAccept = "accept"
    /\ ~listening \/ (backlog # {} /\ Cardinality(open) >= FdLimit)
    /\ pcAccept' = "end"
    /\ UNCHANGED <<netVars, lockVars, tableVars, stopVars, workVars,
                   clientVars, pcMain, accepted>>

\* The connection that is not kept is destroyed, which closes it.
CheckStopAccepted ==
    /\ pcAccept = "stopped?"
    /\ pcAccept' = IF stopAccept THEN "check" ELSE "add"
    /\ open' = IF stopAccept THEN open \ {accepted} ELSE open
    /\ accepted' = IF stopAccept THEN Nobody ELSE accepted
    /\ UNCHANGED <<listening, backlog, lockVars, tableVars, stopVars,
                   workVars, clientVars, pcMain>>

AddNewClient ==
    /\ pcAccept = "add" /\ ~locked /\ readers = {}
    /\ clients' = clients \cup {accepted}
    /\ threads' = threads \cup {accepted}
    /\ pc' = [pc EXCEPT ![accepted] = "lock"]
    /\ accepted' = Nobody
    /\ pcAccept' = "check"
    /\ UNCHANGED <<netVars, lockVars, stopVars, num, joined, clientVars,
                   pcMain>>

AcceptorStep ==
    CheckStopAccept \/ Accept \/ AcceptFails \/ CheckStopAccepted \/ AddNewClient

-----------------------------------------------------------------------------
(***************************************************************************)
(* The thread of one connection: processQueries.                           *)
(***************************************************************************)
LockShared(c) ==
    /\ pc[c] = "lock" /\ ~locked
    /\ readers' = readers \cup {c}
    /\ pc' = [pc EXCEPT ![c] = "get"]
    /\ UNCHANGED <<netVars, locked, tableVars, stopVars, num, joined,
                   clientVars, mainVars>>

\* Faulty variant of GetClient: the lock lives as long as the function.
GetClient_KeepsLock(c) ==
    /\ pc[c] = "get"
    /\ pc' = [pc EXCEPT ![c] = "loop"]
    /\ UNCHANGED <<netVars, lockVars, tableVars, stopVars, num, joined,
                   clientVars, mainVars>>

GetClient(c) ==
    /\ pc[c] = "get"
    /\ readers' = readers \ {c}
    /\ pc' = [pc EXCEPT ![c] = "loop"]
    /\ UNCHANGED <<netVars, locked, tableVars, stopVars, num, joined,
                   clientVars, mainVars>>

CheckStop(c) ==
    /\ pc[c] \in {"loop", "failed"}
    /\ pc' = [pc EXCEPT ![c] = IF c \in stop THEN "end"
                               ELSE IF @ = "loop" THEN "number" ELSE "discard"]
    /\ UNCHANGED <<netVars, lockVars, tableVars, stopVars, num, joined,
                   clientVars, mainVars>>

\* Nothing more can be read: the client is gone, or shutdownAll has closed
\* the socket.
Eof(c) == c \notin open \/ peer[c] \in {"gone", "reset"}

\* An error of readNumber is not looked at: num keeps its last value.  What is
\* looked at after it is an old error, which only LEAVE leaves behind.
ReadNumber(c) ==
    /\ pc[c] \in {"number", "discard"}
    /\ \/ /\ c \in open /\ "number" \in wire[c]
          /\ wire' = [wire EXCEPT ![c] = @ \ {"number"}]
          /\ num' = [num EXCEPT ![c] = IF request[c] = "empty" THEN 0 ELSE 1]
       \/ /\ Eof(c) /\ (c \in open => "number" \notin wire[c])
          /\ UNCHANGED <<wire, num>>
    /\ pc' = [pc EXCEPT ![c] = IF @ = "number" THEN "text" ELSE "end"]
    /\ UNCHANGED <<netVars, lockVars, tableVars, stopVars, joined, peer,
                   request, answer, told, left, mainVars>>

\* Reading no bytes succeeds, on a closed socket too.
ReadText(c) ==
    /\ pc[c] = "text"
    /\ \/ num[c] = 0 /\ pc' = [pc EXCEPT ![c] = "run"] /\ UNCHANGED wire
       \/ /\ num[c] # 0 /\ c \in open /\ "text" \in wire[c]
          /\ wire' = [wire EXCEPT ![c] = @ \ {"text"}]
          /\ pc' = [pc EXCEPT ![c] = "run"]
       \/ /\ num[c] # 0 /\ Eof(c) /\ (c \in open => "text" \notin wire[c])
          /\ pc' = [pc EXCEPT ![c] = "end"]
          /\ UNCHANGED wire
    /\ UNCHANGED <<netVars, lockVars, tableVars, stopVars, num, joined, peer,
                   request, answer, told, left, mainVars>>

(***************************************************************************)
(* send_json.  What is sent to a client that is gone is lost, and makes    *)
(* every later send fail.                                                  *)
(***************************************************************************)
Send(c, a) ==
    /\ c \in open /\ peer[c] # "reset"
    /\ IF peer[c] = "gone"
       THEN peer' = [peer EXCEPT ![c] = "reset"] /\ UNCHANGED answer
       ELSE answer' = [answer EXCEPT ![c] = a] /\ UNCHANGED peer

SendFails(c) == Eof(c) /\ UNCHANGED <<answer, peer>>

\* The request the thread has read.
Text(c) == IF num[c] = 0 THEN "empty" ELSE request[c]

Disconnect(c) ==
    /\ pc[c] = "run" /\ Text(c) = "disconnect"
    /\ Send(c, "bye") \/ SendFails(c)
    /\ pc' = [pc EXCEPT ![c] = "end"]
    /\ UNCHANGED <<netVars, lockVars, tableVars, stopVars, num, joined,
                   request, wire, told, left, mainVars>>

\* Faulty variant of Detach: joinedToDataBase is not cleared.
Detach_StaysJoined(c) ==
    /\ pc[c] = "run" /\ Text(c) = "leave"
    /\ \/ Send(c, "left") /\ pc' = [pc EXCEPT ![c] = "loop"]
       \/ SendFails(c) /\ pc' = [pc EXCEPT ![c] = "failed"]
    /\ UNCHANGED <<netVars, lockVars, tableVars, stopVars, num, joined,
                   request, wire, told, left, mainVars>>

\* LEAVE, in whatever mode.  The loop goes on when the answer cannot be sent,
\* with that error still set.
Detach(c) ==
    /\ pc[c] = "run" /\ Text(c) = "leave"
    /\ joined' = [joined EXCEPT ![c] = FALSE]
    /\ \/ Send(c, "left") /\ pc' = [pc EXCEPT ![c] = "loop"]
       \/ SendFails(c) /\ pc' = [pc EXCEPT ![c] = "failed"]
    /\ UNCHANGED <<netVars, lockVars, tableVars, stopVars, num, request, wire,
                   told, left, mainVars>>

\* Faulty variant of Execute: the error of send_json is not looked at.
Execute_IgnoresError(c) ==
    /\ pc[c] = "run" /\ Text(c) \notin {"disconnect", "leave"}
    /\ \E ok \in {~joined[c] /\ Text(c) = "text", FALSE} :
          /\ joined' = [joined EXCEPT ![c] = @ \/ ok]
          /\ Send(c, IF ok THEN "attached" ELSE "result") \/ SendFails(c)
    /\ pc' = [pc EXCEPT ![c] = "loop"]
    /\ UNCHANGED <<netVars, lockVars, tableVars, stopVars, num, request, wire,
                   told, left, mainVars>>

(***************************************************************************)
(* Everything else is a query for the database the client is attached to,  *)
(* or a command.  ATTACH is a command, and fails for an unknown database.  *)
(***************************************************************************)
Execute(c) ==
    /\ pc[c] = "run" /\ Text(c) \notin {"disconnect", "leave"}
    /\ \E ok \in {~joined[c] /\ Text(c) = "text", FALSE} :
          /\ joined' = [joined EXCEPT ![c] = @ \/ ok]
          /\ \/ /\ Send(c, IF ok THEN "attached" ELSE "result")
                /\ pc' = [pc EXCEPT ![c] = "loop"]
             \/ SendFails(c) /\ pc' = [pc EXCEPT ![c] = "end"]
    /\ UNCHANGED <<netVars, lockVars, tableVars, stopVars, num, request, wire,
                   told, left, mainVars>>

WorkerStep(c) ==
    \/ LockShared(c) \/ GetClient(c) \/ CheckStop(c) \/ ReadNumber(c)
    \/ ReadText(c) \/ Disconnect(c) \/ Detach(c) \/ Execute(c)

\* The thread uses its connection after clients.clear() has destroyed it.
UseFreed(c) ==
    /\ pc[c] \in {"number", "text", "run", "discard"} /\ c \notin clients
    /\ crashed' = TRUE
    /\ UNCHANGED <<netVars, lockVars, tableVars, stopVars, workVars,
                   clientVars, mainVars>>

-----------------------------------------------------------------------------
(***************************************************************************)
(* The main thread: shutdownAll under the exclusive lock, and then the     *)
(* destructor of the server.                                               *)
(***************************************************************************)
ShutdownAll ==
    /\ pcMain = "serving" /\ ~locked /\ readers = {} /\ left >= StopAt
    /\ locked' = TRUE
    /\ stopAccept' = TRUE
    /\ listening' = FALSE
    /\ backlog' = {}
    /\ pcMain' = "closeAll"
    /\ UNCHANGED <<open, readers, tableVars, stop, workVars, clientVars,
                   pcAccept, accepted>>

\* Faulty variant of CloseAll: the sockets stay open.
CloseAll_LeavesOpen ==
    /\ pcMain = "closeAll"
    /\ answer' = [c \in Clients |->
                     IF c \in clients /\ answer[c] = "none" /\ ~Eof(c)
                     THEN "stray" ELSE answer[c]]
    /\ stop' = stop \cup threads
    /\ pcMain' = "clear"
    /\ UNCHANGED <<netVars, lockVars, tableVars, stopAccept, workVars, peer,
                   request, wire, told, left, pcAccept, accepted>>

\* DISCONNECT is sent without its length, so no client understands it.
CloseAll ==
    /\ pcMain = "closeAll"
    /\ answer' = [c \in Clients |->
                     IF c \in clients /\ answer[c] = "none" /\ ~Eof(c)
                     THEN "stray" ELSE answer[c]]
    /\ stop' = stop \cup threads
    /\ open' = open \ clients
    /\ pcMain' = "clear"
    /\ UNCHANGED <<listening, backlog, lockVars, tableVars, stopAccept,
                   workVars, peer, request, wire, told, left, pcAccept,
                   accepted>>

ClearClients ==
    /\ pcMain = "clear"
    /\ clients' = {}
    /\ pcMain' = "join"
    /\ UNCHANGED <<netVars, lockVars, threads, stopVars, workVars, clientVars,
                   pcAccept, accepted>>

\* threads.clear() joins the threads, and the lock is released after it.
JoinThreads ==
    /\ pcMain = "join" /\ \A c \in threads : pc[c] = "end"
    /\ threads' = {}
    /\ locked' = FALSE
    /\ pcMain' = "destroy"
    /\ UNCHANGED <<netVars, readers, clients, stopVars, workVars, clientVars,
                   pcAccept, accepted>>

\* ~SyncServer joins the acceptor thread, then stops and joins the rest.
StopLate ==
    /\ pcMain = "destroy" /\ pcAccept = "end" /\ ~(threads \subseteq stop)
    /\ stop' = stop \cup threads
    /\ UNCHANGED <<netVars, lockVars, tableVars, stopAccept, workVars,
                   clientVars, mainVars>>

Destroy ==
    /\ pcMain = "destroy" /\ pcAccept = "end" /\ threads \subseteq stop
    /\ \A c \in threads : pc[c] = "end"
    /\ threads' = {} /\ clients' = {} /\ open' = {}
    /\ pcMain' = "off"
    /\ UNCHANGED <<listening, backlog, lockVars, stopVars, workVars,
                   clientVars, pcAccept, accepted>>

MainStep == CloseAll \/ ClearClients \/ JoinThreads \/ StopLate \/ Destroy

-----------------------------------------------------------------------------
ServerStep ==
    \/ AcceptorStep \/ ShutdownAll \/ MainStep
    \/ \E c \in Clients : ClientStep(c) \/ WorkerStep(c)

Next ==
    /\ ~crashed
    /\ \/ ServerStep /\ UNCHANGED crashed
       \/ \E c \in Clients : UseFreed(c)

Spec == Init /\ [][Next]_vars

(***************************************************************************)
(* The threads of the server run whenever they can.  Nothing makes a       *)
(* client send, read or go, or the operator turn the server off.           *)
(***************************************************************************)
Runs(A) == ~crashed /\ A /\ UNCHANGED crashed

FairSpec ==
    /\ Spec
    /\ WF_vars(Runs(AcceptorStep))
    /\ WF_vars(Runs(MainStep))
    /\ \A c \in Clients : WF_vars(Runs(WorkerStep(c)))

-----------------------------------------------------------------------------
Stopping == pcMain # "serving"

(***************************************************************************)
(* A request is understood as the client means it: when it is run, the     *)
(* thread is attached to a database exactly if the answers that the client *)
(* has read say so (SyncServer.h 155-184, CommandsExecutor.h 28-37).       *)
(***************************************************************************)
ModeIsAsTold ==
    \A c \in Clients :
        pc[c] = "run" /\ peer[c] = "waiting" => (joined[c] <=> told[c])

(***************************************************************************)
(* Every request of a client that waits is answered, whatever the other    *)
(* clients do: silent, slow or dead ones hold nobody up, neither those     *)
(* that are served nor those that are about to be accepted, until the      *)
(* server is turned off (SyncServer.h 49-67, 113-189).                     *)
(***************************************************************************)
RequestsAnswered ==
    \A c \in Clients :
        peer[c] = "waiting" ~>
            (answer[c] # "none" \/ peer[c] # "waiting" \/ Stopping)

(***************************************************************************)
(* The thread of a client that is gone ends, wherever in a request the     *)
(* client went, although an error of readNumber is not looked at           *)
(* (SyncServer.h 139-187).                                                 *)
(***************************************************************************)
SessionsEnd ==
    \A c \in Clients :
        (pc[c] # "none" /\ peer[c] \in {"gone", "reset"}) ~>
            (pc[c] = "end" \/ Stopping)

(***************************************************************************)
(* A shutdown that meets no client thread before its first lock and no     *)
(* connection on its way into the tables ends: closing the sockets and the *)
(* stop requests reach every other thread, the acceptor's included         *)
(* (SyncServer.h 73-111).                                                  *)
(***************************************************************************)
QuietShutdownEnds ==
    (pcMain = "closeAll" /\ pcAccept # "add" /\ \A c \in Clients : pc[c] # "lock")
        ~> (pcMain = "off" \/ crashed)

(***************************************************************************)
(* "ENTER 0 TO TURN OFF" (SQLid.cpp 67): once shutdownAll has begun, the   *)
(* server ends.                                                            *)
(***************************************************************************)
ShutdownEnds == Stopping ~> (pcMain = "off" \/ crashed)
=============================================================================
