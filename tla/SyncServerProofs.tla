-------------------------- MODULE SyncServerProofs --------------------------
(***************************************************************************)
(* Proofs about SyncServer, for any number of clients and requests: the    *)
(* types, and that client and thread agree on how a request is understood. *)
(***************************************************************************)
EXTENDS SyncServer, TLAPS

\* A connection that the acceptor thread has in hand has no thread yet.
HandInv ==
    pcAccept \in {"stopped?", "add"} =>
        /\ accepted \in Clients
        /\ pc[accepted] = "none"
        /\ peer[accepted] # "off"
        /\ accepted \in open \ backlog

TypeInv == TypeOK /\ HandInv

\* The values of pc and peer, for the proofs.
Places == {"none", "lock", "get", "loop", "number", "text", "run", "failed",
           "discard", "end"}
Peers  == {"off", "ready", "sending", "waiting", "gone", "reset"}

\* What leads to a thread: the backlog, the acceptor's hand, the tables.
AdmitInv ==
    /\ \A c \in backlog : pc[c] = "none" /\ peer[c] # "off"
    /\ \A c \in Clients : peer[c] = "off" => pc[c] = "none" /\ wire[c] = {}
    /\ clients \subseteq threads
    /\ \A c \in threads : pc[c] # "none"
    /\ \A c \in Clients : pc[c] \notin {"none", "end"} => c \in threads

\* No connection gets into the tables while shutdownAll is under way.
LockInv ==
    /\ pcMain \in {"closeAll", "clear", "join"} => locked
    /\ pcMain = "join" => clients = {}

\* A thread whose socket is closed was asked to stop.
StopInv ==
    \A c \in Clients :
        c \notin open /\ pc[c] \notin {"none", "end"} => c \in stop

AcceptInv == TypeInv /\ AdmitInv /\ StopInv /\ LockInv

LEMMA AcceptInit == Init => AcceptInv
  <1> SUFFICES ASSUME Init PROVE AcceptInv
    OBVIOUS
  <1>1. /\ listening \in BOOLEAN /\ locked \in BOOLEAN /\ stopAccept \in BOOLEAN
        /\ crashed \in BOOLEAN /\ joined \in [Clients -> BOOLEAN]
        /\ told \in [Clients -> BOOLEAN]
    BY Zenon DEF Init
  <1>2. HandInv /\ AdmitInv /\ StopInv /\ LockInv
    BY DEF Init, HandInv, AdmitInv, StopInv, LockInv
  <1>3. TypeOK
    BY <1>1, SyncServerAssumption DEF Init, TypeOK, Requests, Answers
  <1> QED BY <1>2, <1>3 DEF AcceptInv, TypeInv

\* An entry of a function is replaced by one of the same kind.
LEMMA EntryIn ==
  ASSUME NEW X, NEW f \in [Clients -> X], NEW c \in Clients, NEW g,
         g = f \/ \E x \in X : g = [f EXCEPT ![c] = x]
  PROVE  g \in [Clients -> X]
  OBVIOUS

\* The steps of a client leave the server's variables alone.
LEMMA ClientKeeps ==
  ASSUME TypeOK, NEW c \in Clients, ClientStep(c)
  PROVE  /\ UNCHANGED <<listening, open, lockVars, tableVars, stopVars,
                        workVars, mainVars>>
         /\ backlog' \in {backlog, backlog \cup {c}}
         /\ \A d \in Clients \ {c} : /\ peer'[d] = peer[d] /\ wire'[d] = wire[d]
                                     /\ request'[d] = request[d]
                                     /\ answer'[d] = answer[d]
                                     /\ told'[d] = told[d]
         /\ peer'[c] # "off"
         /\ backlog' # backlog => peer[c] = "off"
  <1> USE DEF TypeOK, netVars, lockVars, tableVars, stopVars, workVars, mainVars
  <1>1. CASE Connect(c)
    BY <1>1 DEF Connect
  <1>2. ASSUME NEW r \in Requests, SendNumber(c, r)
        PROVE  /\ UNCHANGED <<listening, open, lockVars, tableVars, stopVars,
                              workVars, mainVars>>
               /\ backlog' = backlog
               /\ \A d \in Clients \ {c} :
                     /\ peer'[d] = peer[d] /\ wire'[d] = wire[d]
                     /\ request'[d] = request[d] /\ answer'[d] = answer[d]
                     /\ told'[d] = told[d]
               /\ peer'[c] # "off"
    BY <1>2 DEF SendNumber
  <1>3. CASE SendText(c)
    BY <1>3 DEF SendText
  <1>4. CASE ReadAnswer(c)
    BY <1>4 DEF ReadAnswer
  <1>5. CASE Leave(c)
    BY <1>5 DEF Leave
  <1>6. CASE Die(c)
    BY <1>6 DEF Die
  <1> QED BY <1>1, <1>2, <1>3, <1>4, <1>5, <1>6 DEF ClientStep

\* So does a thread with all but its own session and the lock.
LEMMA WorkerKeeps ==
  ASSUME TypeOK, NEW c \in Clients, WorkerStep(c)
  PROVE  /\ UNCHANGED <<netVars, tableVars, stopVars, mainVars, locked,
                        request, told, left>>
         /\ \A d \in Clients \ {c} : /\ pc'[d] = pc[d] /\ num'[d] = num[d]
                                     /\ joined'[d] = joined[d]
                                     /\ peer'[d] = peer[d] /\ wire'[d] = wire[d]
                                     /\ answer'[d] = answer[d]
         /\ pc[c] \notin {"none", "end"} /\ pc'[c] # "none"
         /\ peer[c] # "off" => peer'[c] # "off"
  BY SMTT(30)
  DEF WorkerStep, LockShared, GetClient, CheckStop, ReadNumber, ReadText, Send,
     SendFails, Disconnect, Detach, Execute, TypeOK, netVars, lockVars,
     tableVars, stopVars, clientVars, mainVars

LEMMA TypeStep == AcceptInv /\ [Next]_vars => TypeInv'
  <1> SUFFICES ASSUME AcceptInv, [Next]_vars PROVE TypeInv'
    OBVIOUS
  <1>0. TypeOK /\ HandInv /\ AdmitInv
    BY DEF AcceptInv, TypeInv
  <1> USE DEF TypeInv, TypeOK
  <1>1. ASSUME NEW c \in Clients, ClientStep(c), UNCHANGED crashed
        PROVE  TypeInv'
    <2>1. peer' \in [Clients -> Peers]
      <3>1. \E p \in Peers : peer' = [peer EXCEPT ![c] = p]
        BY <1>1, ZenonT(40) DEF ClientStep, Connect, SendNumber, SendText,
             ReadAnswer, Leave, Die, Peers
      <3> QED BY <1>0, <3>1 DEF Peers
    <2>2. wire' \in [Clients -> SUBSET {"number", "text"}]
      <3>1. wire[c] \subseteq {"number", "text"}
        BY <1>0
      <3>2. wire' = wire \/ \E w \in SUBSET {"number", "text"} :
                              wire' = [wire EXCEPT ![c] = w]
        BY <1>1, <3>1, ZenonT(40)
        DEF ClientStep, Connect, SendNumber, SendText,
             ReadAnswer, Leave, Die
      <3> QED BY <1>0, <3>2, EntryIn, Zenon
    <2>3. answer' \in [Clients -> Answers]
      BY <1>0, <1>1 DEF ClientStep, Connect, SendNumber, SendText, ReadAnswer,
           Leave, Die, Answers
    <2>4. request' \in [Clients -> Requests] /\ left' \in Nat
      <3>1. \/ request' = request /\ left' = left
            \/ \E r \in Requests : /\ request' = [request EXCEPT ![c] = r]
                                   /\ left' = left \/ (left > 0 /\ left' = left - 1)
        BY <1>1, ZenonT(40) DEF ClientStep, Connect, SendNumber, SendText,
             ReadAnswer, Leave, Die, Requests
      <3> QED BY <1>0, <3>1
    <2>5. told' \in [Clients -> BOOLEAN]
      BY <1>0, <1>1, ZenonT(40) DEF ClientStep, Connect, SendNumber, SendText,
           ReadAnswer, Leave, Die
    <2>6. HandInv'
      BY <1>0, <1>1, ClientKeeps DEF HandInv, workVars, mainVars
    <2>7. backlog' \subseteq Clients
      BY <1>0, <1>1, ClientKeeps
    <2> QED
      BY <1>0, <1>1, <2>1, <2>2, <2>3, <2>4, <2>5, <2>6, <2>7, ClientKeeps
      DEF Peers, lockVars, tableVars, stopVars, workVars, mainVars
  <1>2. ASSUME NEW c \in Clients, WorkerStep(c), UNCHANGED crashed
        PROVE  TypeInv'
    <2>1. pc' \in [Clients -> Places] /\ readers' \subseteq Clients
      BY <1>0, <1>2, ZenonT(60)
      DEF WorkerStep, LockShared, GetClient, CheckStop,
           ReadNumber, ReadText, Disconnect, Detach, Execute, Places, lockVars
    <2>2. /\ wire' \in [Clients -> SUBSET {"number", "text"}]
          /\ num' \in [Clients -> {0, 1}]
      <3>1. wire[c] \subseteq {"number", "text"}
        BY <1>0
      <3>2. wire' = wire \/ \E w \in SUBSET {"number", "text"} :
                              wire' = [wire EXCEPT ![c] = w]
        BY <1>2, <3>1, ZenonT(60) DEF WorkerStep, LockShared, GetClient,
             CheckStop, ReadNumber, ReadText, Disconnect, Detach, Execute,
             clientVars
      <3>3. num' = num \/ \E n \in {0, 1} : num' = [num EXCEPT ![c] = n]
        BY <1>2, ZenonT(60) DEF WorkerStep, LockShared, GetClient,
             CheckStop, ReadNumber, ReadText, Disconnect, Detach, Execute
      <3>4. wire' \in [Clients -> SUBSET {"number", "text"}]
        BY <1>0, <3>2, EntryIn, Zenon
      <3> QED BY <1>0, <3>3, <3>4
    <2>3. joined' \in [Clients -> BOOLEAN]
      BY <1>0, <1>2, ZenonT(60)
      DEF WorkerStep, LockShared, GetClient, CheckStop,
           ReadNumber, ReadText, Disconnect, Detach, Execute
    <2>4. answer' \in [Clients -> Answers] /\ peer' \in [Clients -> Peers]
      BY <1>0, <1>2 DEF WorkerStep, LockShared, GetClient, CheckStop,
           ReadNumber, ReadText, Disconnect, Detach, Execute, Send, SendFails,
           Answers, Peers, clientVars
    <2>5. HandInv'
      BY <1>0, <1>2, WorkerKeeps DEF HandInv, netVars, mainVars
    <2> QED
      BY <1>0, <1>2, <2>1, <2>2, <2>3, <2>4, <2>5, WorkerKeeps
      DEF Peers, Places, netVars, tableVars, stopVars, mainVars
  <1>3. ASSUME CheckStopAccept \/ Accept \/ AcceptFails, UNCHANGED crashed
        PROVE  TypeInv'
    <2>1. HandInv'
      BY <1>0, <1>3 DEF CheckStopAccept, Accept, AcceptFails, HandInv, netVars,
           workVars, clientVars, AdmitInv
    <2> QED
      BY <1>0, <1>3, <2>1 DEF CheckStopAccept, Accept, AcceptFails, HandInv,
         netVars, lockVars, tableVars, stopVars, workVars, clientVars
  <1>4. ASSUME CheckStopAccepted, UNCHANGED crashed PROVE TypeInv'
    BY <1>0, <1>4
    DEF CheckStopAccepted, HandInv, lockVars, tableVars, stopVars,
       workVars, clientVars
  <1>5. ASSUME AddNewClient, UNCHANGED crashed PROVE TypeInv'
    BY <1>0, <1>5 DEF AddNewClient, HandInv, netVars, lockVars, stopVars,
       clientVars
  <1>6. ASSUME ShutdownAll, UNCHANGED crashed PROVE TypeInv'
    BY <1>0, <1>6 DEF ShutdownAll, HandInv, tableVars, workVars, clientVars
  <1>7. ASSUME CloseAll, UNCHANGED crashed PROVE TypeInv'
    <2>1. answer' \in [Clients -> Answers]
      BY <1>0, <1>7 DEF CloseAll, Answers
    <2> QED
      BY <1>0, <1>7, <2>1
      DEF CloseAll, HandInv, AdmitInv, lockVars, tableVars, workVars
  <1>8. ASSUME ClearClients \/ JoinThreads \/ StopLate \/ Destroy,
               UNCHANGED crashed
        PROVE  TypeInv'
    <2>1. UNCHANGED <<listening, backlog, accepted, readers, stopAccept, pcAccept,
                      pc, num, joined, peer, request, wire, answer, told, left>>
      BY <1>8 DEF ClearClients, JoinThreads, StopLate, Destroy, netVars, lockVars,
         tableVars, stopVars, workVars, clientVars, mainVars
    <2>2. /\ clients' \in {clients, {}} /\ threads' \in {threads, {}}
          /\ open' = open \/ (open' = {} /\ pcAccept = "end")
          /\ stop' \in {stop, stop \cup threads}
          /\ locked' \in {locked, FALSE}
          /\ pcMain' \in {"join", "destroy", "off"}
      BY <1>8 DEF ClearClients, JoinThreads, StopLate, Destroy, netVars, lockVars,
         tableVars, stopVars, mainVars
    <2>3. HandInv'
      BY <1>0, <2>1, <2>2 DEF HandInv
    <2>4. /\ clients' \subseteq Clients /\ threads' \subseteq Clients
          /\ open' \subseteq Clients /\ stop' \subseteq Clients
          /\ locked' \in BOOLEAN
      BY <1>0, <2>2
    <2>5. UNCHANGED crashed
      BY <1>8
    <2> QED BY <1>0, <2>1, <2>2, <2>3, <2>4, <2>5
  <1>9. ASSUME NEW c \in Clients, UseFreed(c) PROVE TypeInv'
    BY <1>0, <1>9
    DEF UseFreed, HandInv, netVars, lockVars, tableVars, stopVars,
       workVars, clientVars, mainVars
  <1>10. CASE UNCHANGED vars
    BY <1>0, <1>10 DEF vars, HandInv, netVars, lockVars, tableVars, stopVars,
       workVars, clientVars, mainVars
  <1> QED
    BY <1>1, <1>2, <1>3, <1>4, <1>5, <1>6, <1>7, <1>8, <1>9, <1>10
    DEF Next, ServerStep, AcceptorStep, MainStep

LEMMA LockStep == AcceptInv /\ [Next]_vars => LockInv'
  <1> SUFFICES ASSUME AcceptInv, [Next]_vars PROVE LockInv'
    OBVIOUS
  <1>0. TypeOK /\ LockInv
    BY DEF AcceptInv, TypeInv
  <1> USE DEF LockInv
  <1>1. ASSUME NEW c \in Clients, ClientStep(c) \/ WorkerStep(c) PROVE LockInv'
    <2>1. UNCHANGED <<pcMain, locked, clients>>
      BY <1>0, <1>1, ClientKeeps, WorkerKeeps DEF mainVars, lockVars, tableVars
    <2> QED BY <1>0, <2>1
  <1>2. CASE AcceptorStep
    BY <1>0, <1>2, ZenonT(40) DEF AcceptorStep, CheckStopAccept, Accept,
       AcceptFails, CheckStopAccepted, AddNewClient, lockVars, tableVars
  <1>3. CASE ShutdownAll \/ MainStep
    BY <1>0, <1>3
    DEF ShutdownAll, MainStep, CloseAll, ClearClients, JoinThreads,
       StopLate, Destroy, lockVars, tableVars, mainVars
  <1>4. CASE UNCHANGED <<lockVars, tableVars, mainVars>>
    BY <1>0, <1>4 DEF lockVars, tableVars, mainVars
  <1>5. ASSUME NEW c \in Clients, UseFreed(c)
        PROVE  UNCHANGED <<lockVars, tableVars, mainVars>>
    BY <1>5 DEF UseFreed
  <1>6. CASE UNCHANGED vars
    BY <1>0, <1>6 DEF vars, lockVars, tableVars, mainVars
  <1> QED
    BY <1>1, <1>2, <1>3, <1>4, <1>5, <1>6 DEF Next, ServerStep

LEMMA AcceptStep == AcceptInv /\ [Next]_vars => AcceptInv'
  <1> SUFFICES ASSUME AcceptInv, [Next]_vars PROVE AdmitInv' /\ StopInv'
    BY TypeStep, LockStep DEF AcceptInv
  <1>0. TypeOK /\ HandInv /\ AdmitInv /\ StopInv /\ LockInv
    BY DEF AcceptInv, TypeInv
  <1> USE DEF AdmitInv, StopInv
  <1>1. ASSUME NEW c \in Clients, ClientStep(c) PROVE AdmitInv' /\ StopInv'
    <2>1. StopInv'
      BY <1>0, <1>1, ClientKeeps DEF workVars, stopVars
    <2>2. \A d \in backlog' : pc'[d] = "none" /\ peer'[d] # "off"
      BY <1>0, <1>1, ClientKeeps DEF workVars, TypeOK
    <2>3. \A d \in Clients : peer'[d] = "off" => pc'[d] = "none" /\ wire'[d] = {}
      BY <1>0, <1>1, ClientKeeps DEF workVars
    <2> QED
      BY <1>0, <1>1, <2>1, <2>2, <2>3, ClientKeeps DEF workVars, tableVars
  <1>2. ASSUME NEW c \in Clients, WorkerStep(c) PROVE AdmitInv' /\ StopInv'
    <2>1. /\ UNCHANGED <<backlog, open, clients, threads, stop>>
          /\ \A d \in Clients \ {c} : /\ pc'[d] = pc[d] /\ peer'[d] = peer[d]
                                      /\ wire'[d] = wire[d]
          /\ pc[c] \notin {"none", "end"} /\ pc'[c] # "none"
          /\ peer[c] # "off" => peer'[c] # "off"
      BY <1>0, <1>2, WorkerKeeps DEF netVars, tableVars, stopVars
    <2> QED BY <1>0, <2>1 DEF TypeOK
  <1>3. ASSUME CheckStopAccept \/ Accept \/ AcceptFails \/ CheckStopAccepted
        PROVE  AdmitInv' /\ StopInv'
    <2>1. /\ UNCHANGED <<clients, threads, stop, pc, peer, wire>>
          /\ backlog' \subseteq backlog
          /\ \A c \in Clients : c \in open /\ c \notin open' => pc[c] = "none"
      BY <1>0, <1>3
      DEF CheckStopAccept, Accept, AcceptFails, CheckStopAccepted,
           HandInv, netVars, tableVars, stopVars, workVars, clientVars
    <2> QED BY <1>0, <2>1
  <1>4. ASSUME AddNewClient PROVE AdmitInv' /\ StopInv'
    <2>1. /\ UNCHANGED <<backlog, open, stop, peer, wire>>
          /\ accepted \in Clients /\ accepted \in open \ backlog
          /\ peer[accepted] # "off"
          /\ pc' = [pc EXCEPT ![accepted] = "lock"]
          /\ clients' = clients \cup {accepted}
          /\ threads' = threads \cup {accepted}
      BY <1>0, <1>4 DEF AddNewClient, HandInv, netVars, stopVars, clientVars
    <2> QED BY <1>0, <2>1 DEF TypeOK
  <1>5. ASSUME ShutdownAll PROVE AdmitInv' /\ StopInv'
    BY <1>0, <1>5 DEF ShutdownAll, tableVars, workVars, clientVars
  <1>6. ASSUME CloseAll PROVE AdmitInv' /\ StopInv'
    BY <1>0, <1>6 DEF CloseAll, tableVars, workVars
  <1>7. ASSUME ClearClients \/ JoinThreads \/ StopLate \/ Destroy
        PROVE  AdmitInv' /\ StopInv'
    <2>1. /\ UNCHANGED <<backlog, pc, peer, wire>>
          /\ clients' \subseteq threads' /\ threads' \subseteq threads
          /\ \A c \in threads \ threads' : pc[c] = "end"
          /\ stop \subseteq stop'
          /\ \/ open' = open
             \/ \A c \in threads : pc[c] = "end"
      BY <1>0, <1>7, ZenonT(60)
      DEF ClearClients, JoinThreads, StopLate, Destroy,
           LockInv, netVars, tableVars, stopVars, workVars, clientVars
    <2> QED BY <1>0, <2>1
  <1>8. ASSUME NEW c \in Clients, UseFreed(c) PROVE AdmitInv' /\ StopInv'
    BY <1>0, <1>8
    DEF UseFreed, netVars, tableVars, stopVars, workVars, clientVars
  <1>9. CASE UNCHANGED vars
    BY <1>0, <1>9 DEF vars, netVars, tableVars, stopVars, workVars, clientVars
  <1> QED
    BY <1>1, <1>2, <1>3, <1>4, <1>5, <1>6, <1>7, <1>8, <1>9
    DEF Next, ServerStep, AcceptorStep, MainStep

(***************************************************************************)
(* Every variable of the server and of its clients keeps its type; the     *)
(* acceptor thread adds a connection only when it has one.                 *)
(***************************************************************************)
THEOREM ServerTypeCorrect == Spec => []TypeOK
  <1>1. AcceptInv => TypeOK
    BY DEF AcceptInv, TypeInv
  <1> QED
    BY AcceptInit, AcceptStep, <1>1, PTL DEF Spec
-----------------------------------------------------------------------------
Live(c) == peer[c] \in {"ready", "sending", "waiting"}

\* The session was closed by the server and runs no further request.
Over(c) == c \notin open /\ pc[c] \in {"loop", "failed", "discard", "end"}

(***************************************************************************)
(* One request at a time is between a client and its thread, and an answer *)
(* that the client has not read is the only way the two may differ about   *)
(* the mode while the session goes on.                                     *)
(***************************************************************************)
Session(c) ==
    /\ pc[c] = "none" => ~joined[c] /\ ~told[c] /\ answer[c] = "none"
    /\ answer[c] = "stray" => c \notin open
    /\ Live(c) =>
          /\ "number" \in wire[c] =>
                peer[c] # "ready" /\ answer[c] \in {"none", "stray"}
          /\ pc[c] \in {"text", "run"} /\ c \in open =>
                /\ peer[c] # "ready" /\ answer[c] = "none"
                /\ "number" \notin wire[c]
          /\ pc[c] = "run" /\ num[c] = 1 => answer[c] \in {"none", "stray"}
          /\ answer[c] = "attached" => joined[c] /\ num[c] = 1
          /\ answer[c] = "left" => ~joined[c] /\ num[c] = 1
          /\ answer[c] \notin {"attached", "left"} /\ ~Over(c) =>
                (joined[c] <=> told[c])

SessionInv == \A c \in Clients : Session(c)

LEMMA SessionInit == Init => SessionInv
  BY DEF Init, SessionInv, Session, Live

\* A step that leaves a session alone keeps its invariant.
LEMMA SessionKept ==
  ASSUME NEW c \in Clients, Session(c),
         pc'[c] = pc[c], num'[c] = num[c], joined'[c] = joined[c],
         peer'[c] = peer[c], wire'[c] = wire[c], answer'[c] = answer[c],
         told'[c] = told[c],
         c \in open' <=> c \in open
  PROVE  Session(c)'
  BY DEF Session, Live, Over

LEMMA ClientSession ==
  ASSUME AcceptInv, NEW c \in Clients, Session(c), ClientStep(c)
  PROVE  Session(c)'
  <1>0. TypeOK /\ AdmitInv
    BY DEF AcceptInv, TypeInv
  <1> USE DEF Session, Live, Over, TypeOK
  <1>1. CASE Connect(c)
    BY <1>0, <1>1 DEF Connect, AdmitInv, workVars
  <1>2. ASSUME NEW r \in Requests, SendNumber(c, r) PROVE Session(c)'
    BY <1>0, <1>2 DEF SendNumber, netVars, workVars
  <1>3. CASE SendText(c)
    <2>1. "number" \in wire'[c] <=> "number" \in wire[c]
      BY <1>0, <1>3 DEF SendText
    <2> QED BY <1>0, <1>3, <2>1 DEF SendText, netVars, workVars
  <1>4. CASE ReadAnswer(c)
    BY <1>0, <1>4 DEF ReadAnswer, netVars, workVars
  <1>5. CASE Leave(c) \/ Die(c)
    BY <1>0, <1>5 DEF Leave, Die, netVars, workVars
  <1> QED
    BY <1>1, <1>2, <1>3, <1>4, <1>5 DEF ClientStep

LEMMA WorkerSession ==
  ASSUME AcceptInv, NEW c \in Clients, Session(c), WorkerStep(c)
  PROVE  Session(c)'
  <1>0. TypeOK /\ AdmitInv /\ StopInv
    BY DEF AcceptInv, TypeInv
  <1> USE DEF Session, Live, Over, TypeOK
  <1>1. CASE LockShared(c) \/ GetClient(c)
    BY <1>0, <1>1 DEF LockShared, GetClient, netVars, clientVars
  <1>2. CASE CheckStop(c)
    BY <1>0, <1>2 DEF CheckStop, StopInv, netVars, clientVars
  <1>3. CASE ReadNumber(c)
    BY <1>0, <1>3 DEF ReadNumber, Eof, netVars
  <1>4. CASE ReadText(c)
    BY <1>0, <1>4 DEF ReadText, Eof, netVars
  <1>5. CASE Disconnect(c)
    BY <1>0, <1>5 DEF Disconnect, Send, SendFails, Eof, netVars
  <1>6. CASE Detach(c)
    BY <1>0, <1>6 DEF Detach, Send, SendFails, Eof, Text, netVars
  <1>7. CASE Execute(c)
    <2>1. /\ pc[c] = "run" /\ UNCHANGED <<open, num, wire, told>>
      BY <1>7 DEF Execute, netVars
    <2>2. PICK ok \in {~joined[c] /\ Text(c) = "text", FALSE} :
            /\ joined' = [joined EXCEPT ![c] = @ \/ ok]
            /\ \/ /\ Send(c, IF ok THEN "attached" ELSE "result")
                  /\ pc' = [pc EXCEPT ![c] = "loop"]
               \/ SendFails(c) /\ pc' = [pc EXCEPT ![c] = "end"]
      BY <1>7, Zenon DEF Execute
    <2>3. ok \in BOOLEAN /\ (ok => ~joined[c] /\ num[c] = 1)
      BY <1>0, <2>2 DEF Text
    <2>4. joined'[c] = (joined[c] \/ ok)
      BY <1>0, <2>2, Zenon
    <2>5. CASE SendFails(c) /\ pc' = [pc EXCEPT ![c] = "end"]
      <3>1. /\ UNCHANGED <<answer, peer>> /\ pc'[c] = "end"
            /\ c \notin open \/ peer[c] \in {"gone", "reset"}
        BY <1>0, <2>5 DEF SendFails, Eof
      <3> QED BY <1>0, <2>1, <2>3, <2>4, <3>1
    <2>6. CASE /\ Send(c, IF ok THEN "attached" ELSE "result")
               /\ pc' = [pc EXCEPT ![c] = "loop"]
      <3>1. /\ pc'[c] = "loop" /\ c \in open
            /\ \/ peer'[c] = "reset" /\ UNCHANGED answer
               \/ /\ peer' = peer
                  /\ ok => answer'[c] = "attached"
                  /\ ~ok => answer'[c] = "result"
        BY <1>0, <2>3, <2>6 DEF Send
      <3> QED BY <1>0, <2>1, <2>3, <2>4, <3>1
    <2> QED BY <2>2, <2>5, <2>6
  <1> QED
    BY <1>1, <1>2, <1>3, <1>4, <1>5, <1>6, <1>7 DEF WorkerStep

LEMMA SessionStep == AcceptInv /\ SessionInv /\ [Next]_vars => SessionInv'
  <1> SUFFICES ASSUME AcceptInv, SessionInv, [Next]_vars, NEW d \in Clients
               PROVE  Session(d)'
    BY DEF SessionInv
  <1>0. TypeOK /\ HandInv /\ AdmitInv /\ StopInv /\ Session(d)
    BY DEF AcceptInv, TypeInv, SessionInv
  <1>1. ASSUME NEW c \in Clients, ClientStep(c) PROVE Session(d)'
    <2>1. CASE c = d
      BY <1>0, <1>1, <2>1, ClientSession
    <2>2. CASE c # d
      BY <1>0, <1>1, <2>2, ClientKeeps, SessionKept DEF workVars
    <2> QED BY <2>1, <2>2
  <1>2. ASSUME NEW c \in Clients, WorkerStep(c) PROVE Session(d)'
    <2>1. CASE c = d
      BY <1>0, <1>2, <2>1, WorkerSession
    <2>2. CASE c # d
      BY <1>0, <1>2, <2>2, WorkerKeeps, SessionKept DEF netVars
    <2> QED BY <2>1, <2>2
  <1>3. ASSUME AcceptorStep PROVE Session(d)'
    <2>1. /\ UNCHANGED <<num, joined, clientVars>>
          /\ pc[d] # "none" => pc'[d] = pc[d] /\ (d \in open' <=> d \in open)
          /\ pc[d] = "none" => pc'[d] \in {"none", "lock"}
      BY <1>0, <1>3 DEF AcceptorStep, CheckStopAccept, Accept, AcceptFails,
           CheckStopAccepted, AddNewClient, HandInv, AdmitInv, TypeOK, netVars,
           workVars
    <2>2. CASE pc[d] # "none"
      BY <1>0, <2>1, <2>2, SessionKept DEF clientVars
    <2>3. CASE pc[d] = "none"
      BY <1>0, <2>1, <2>3 DEF Session, Live, Over, clientVars
    <2> QED BY <2>2, <2>3
  <1>4. ASSUME CloseAll PROVE Session(d)'
    <2>1. /\ UNCHANGED <<pc, num, joined, peer, wire, told>>
          /\ \/ answer'[d] = answer[d]
             \/ answer'[d] = "stray" /\ answer[d] = "none" /\ d \notin open'
                /\ pc[d] # "none"
          /\ d \in open' => d \in open
          /\ d \in open /\ d \notin open' =>
                /\ pc[d] # "none"
                /\ Live(d) => answer'[d] # "none"
      BY <1>0, <1>4 DEF CloseAll, Eof, Live, AdmitInv, TypeOK, workVars
    <2> QED BY <1>0, <2>1 DEF Session, Live, Over
  <1>5. ASSUME ShutdownAll \/ ClearClients \/ JoinThreads \/ StopLate
        PROVE  Session(d)'
    <2>1. UNCHANGED <<open, pc, num, joined, clientVars>>
      BY <1>5, ZenonT(40) DEF ShutdownAll, ClearClients, JoinThreads, StopLate,
           netVars, workVars
    <2> QED BY <1>0, <2>1, SessionKept DEF clientVars
  <1>6. ASSUME Destroy PROVE Session(d)'
    <2>1. /\ UNCHANGED <<pc, num, joined, clientVars>> /\ open' = {}
          /\ pc[d] \in {"none", "end"}
      BY <1>0, <1>6 DEF Destroy, AdmitInv, workVars
    <2> QED BY <1>0, <2>1 DEF Session, Live, Over, clientVars
  <1>7. ASSUME NEW c \in Clients, UseFreed(c) PROVE Session(d)'
    <2>1. UNCHANGED <<open, pc, num, joined, clientVars>>
      BY <1>7 DEF UseFreed, netVars, workVars
    <2> QED BY <1>0, <2>1, SessionKept DEF clientVars
  <1>8. CASE UNCHANGED vars
    <2>1. UNCHANGED <<open, pc, num, joined, clientVars>>
      BY <1>8 DEF vars, netVars, workVars
    <2> QED BY <1>0, <2>1, SessionKept DEF clientVars
  <1> QED
    BY <1>1, <1>2, <1>3, <1>4, <1>5, <1>6, <1>7, <1>8
    DEF Next, ServerStep, MainStep

(***************************************************************************)
(* A request is run in the mode that the client was told of, for any       *)
(* number of clients and requests, whatever fails on the way and also      *)
(* while the server is turned off.                                         *)
(***************************************************************************)
THEOREM ModeAgrees == Spec => []ModeIsAsTold
  <1>1. Init => AcceptInv /\ SessionInv
    BY AcceptInit, SessionInit
  <1>2. AcceptInv /\ SessionInv /\ [Next]_vars => (AcceptInv /\ SessionInv)'
    BY AcceptStep, SessionStep
  <1>3. AcceptInv /\ SessionInv => ModeIsAsTold
    BY DEF AcceptInv, TypeInv, TypeOK, SessionInv, Session, Live, Over,
       ModeIsAsTold
  <1> QED
    BY <1>1, <1>2, <1>3, PTL DEF Spec
=============================================================================
