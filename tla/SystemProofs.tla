---------------------------- MODULE SystemProofs ----------------------------
(***************************************************************************)
(* Proofs about System, for any number of clients, databases, tables and   *)
(* backups, any number of restarts, and with or without faults.            *)
(***************************************************************************)
EXTENDS System, FiniteSetTheorems, TLAPS

\* The places of a command that holds bases_mtx exclusively, of a restore,
\* and of a createTable that has a reference, and has made the directory.
Exclusive == {"wipe", "copyIn", "construct", "remove"}
Restoring == {"wipe", "copyIn", "construct"}
Held      == {"check", "info", "openTable"}
Making    == {"info", "openTable"}

\* A thread has the arguments of its command; an idle one has none.
Args(c) ==
    /\ At(c, "idle") => thread[c] = Idle
    /\ ~At(c, "idle") /\ ~At(c, "use") => thread[c].name \in Names
    /\ thread[c].pc \in {"copyOut", "wipe", "copyIn"} =>
          thread[c].backup \in Backups
    /\ thread[c].pc \in Held => thread[c].table \in Tables
    /\ At(c, "register") => /\ thread[c].ref # Null
                            /\ thread[c].ref.name = thread[c].name
                            /\ \A t \in Tables : thread[c].ref.open[t] <= 1

ArgInv == \A c \in Clients : Args(c)

\* bases_mtx is held by those whose place says so.
LockInv ==
    /\ \A c \in Clients : At(c, "copyOut") <=> c \in sharers
    /\ \A c \in Clients : thread[c].pc \in Exclusive <=> excl = c
    /\ excl # Nobody => sharers = {}

\* The directories of a copy are there, and a backup has one writer.
DirInv ==
    /\ \A c \in Clients : At(c, "copyOut") =>
          /\ disk[thread[c].name] # Null
          /\ backups[thread[c].backup] # Null
    /\ \A c, d \in Clients :
          /\ At(c, "copyOut") /\ At(d, "copyOut")
          /\ thread[c].backup = thread[d].backup
          => c = d
    /\ \A c \in Clients : thread[c].pc \in {"copyIn", "construct"} =>
          disk[thread[c].name] # Null

\* An object is at one place at most, and at none before it is registered.
GenInv ==
    /\ \A i \in DOMAIN bases : bases[i] # Null => bases[i].gen <= made
    /\ \A i, j \in DOMAIN bases :
          /\ bases[i] # Null /\ bases[j] # Null
          /\ bases[i].gen = bases[j].gen
          => i = j
    /\ \A c \in Clients : thread[c].ref # Null => thread[c].ref.gen <= made
    /\ \A c \in Clients : At(c, "register") =>
          /\ ~Alive(thread[c].ref)
          /\ \A d \in Clients \ {c} : thread[d].ref # Null =>
                thread[d].ref.gen # thread[c].ref.gen

\* An id belongs to one name; a live reference is to what the name leads to;
\* what is being restored or removed has no database.
NameInv ==
    /\ \A m, n \in DOMAIN nameBase : nameBase[m] = nameBase[n] => m = n
    /\ \A c \in Clients :
          thread[c].pc \in Restoring /\ thread[c].name \in DOMAIN nameBase =>
              bases[nameBase[thread[c].name]] = Null
    /\ \A c \in Clients : At(c, "remove") =>
          thread[c].name \notin DOMAIN nameBase
    /\ \A c \in Clients : thread[c].pc \in Held /\ Alive(thread[c].ref) =>
          /\ thread[c].name \in DOMAIN nameBase
          /\ nameBase[thread[c].name] \in Places(thread[c].ref)
    /\ \A c \in Clients : session[c].joined => session[c].id \in DOMAIN bases

\* One client at most makes a table of a live database, and it is not open.
Maker(c) == thread[c].pc \in Making /\ Alive(thread[c].ref)

MakeInv ==
    /\ \A c \in Clients : Maker(c) =>
          LET n == thread[c].name
              t == thread[c].table
          IN /\ disk[n] # Null
             /\ disk[n][t] = IF At(c, "info") THEN "bad" ELSE "good"
             /\ bases[nameBase[n]].open[t] = 0
    /\ \A c, d \in Clients :
          /\ Maker(c) /\ Maker(d)
          /\ thread[c].name = thread[d].name
          /\ thread[c].table = thread[d].table
          => c = d

\* Inductive.
SystemInv == /\ TypeOK /\ ArgInv /\ LockInv /\ DirInv
             /\ GenInv /\ NameInv /\ MakeInv

-----------------------------------------------------------------------------
\* o is put at place i, an old one or the next, and the others stay.
Placed(i, o) ==
    /\ DOMAIN bases' = DOMAIN bases \cup {i}
    /\ bases'[i] = o
    /\ \A j \in DOMAIN bases \ {i} : bases'[j] = bases[j]

LEMMA NewIdIsNew ==
  ASSUME TypeOK PROVE NewId \notin DOMAIN bases /\ NewId \in Nat
  BY DEF TypeOK, NewId

LEMMA SeqExcept ==
  ASSUME NEW S, NEW s \in Seq(S), NEW i \in DOMAIN s, NEW o \in S
  PROVE  /\ [s EXCEPT ![i] = o] \in Seq(S)
         /\ DOMAIN [s EXCEPT ![i] = o] = DOMAIN s
         /\ [s EXCEPT ![i] = o][i] = o
         /\ \A j \in DOMAIN s \ {i} : [s EXCEPT ![i] = o][j] = s[j]
  OBVIOUS

LEMMA SeqAppend ==
  ASSUME NEW S, NEW s \in Seq(S), NEW o \in S
  PROVE  /\ Append(s, o) \in Seq(S)
         /\ DOMAIN Append(s, o) = DOMAIN s \cup {Len(s) + 1}
         /\ Append(s, o)[Len(s) + 1] = o
         /\ \A j \in DOMAIN s : Append(s, o)[j] = s[j]
         /\ Len(s) + 1 \notin DOMAIN s
  OBVIOUS

LEMMA PutPlaces ==
  ASSUME TypeOK, NEW i \in DOMAIN bases \cup {NewId},
         NEW o \in Objects \cup {Null}, bases' = Put(i, o)
  PROVE  Placed(i, o) /\ bases' \in Seq(Objects \cup {Null})
  <1>1. bases \in Seq(Objects \cup {Null})
    BY DEF TypeOK
  <1>2. CASE i \in DOMAIN bases
    <2>1. bases' = [bases EXCEPT ![i] = o]
      BY <1>2 DEF Put
    <2>2. DOMAIN bases = DOMAIN bases \cup {i}
      BY <1>2
    <2> QED BY ONLY <1>1, <1>2, <2>1, <2>2, SeqExcept,
        o \in Objects \cup {Null},
                    Zenon DEF Placed
  <1>3. CASE i = Len(bases) + 1
    <2>1. i \notin DOMAIN bases
      BY <1>1, <1>3, SeqAppend
    <2>2. bases' = Append(bases, o)
      BY <2>1 DEF Put
    <2>3. /\ Append(bases, o) \in Seq(Objects \cup {Null})
          /\ DOMAIN Append(bases, o) = DOMAIN bases \cup {Len(bases) + 1}
          /\ Append(bases, o)[Len(bases) + 1] = o
          /\ \A j \in DOMAIN bases : Append(bases, o)[j] = bases[j]
      <3> DEFINE S == Objects \cup {Null}
      <3>1. bases \in Seq(S) /\ o \in S
        BY <1>1
      <3> HIDE DEF S
      <3>2. /\ Append(bases, o) \in Seq(S)
            /\ DOMAIN Append(bases, o) = DOMAIN bases \cup {Len(bases) + 1}
            /\ Append(bases, o)[Len(bases) + 1] = o
            /\ \A j \in DOMAIN bases : Append(bases, o)[j] = bases[j]
        BY <3>1, SMT
      <3> QED BY <3>2 DEF S
    <2> QED BY <1>3, <2>2, <2>3, Zenon DEF Placed
  <1> QED BY <1>2, <1>3 DEF NewId

\* Reset, and the object that a name leads to.
LEMMA ResetPlaces ==
  ASSUME TypeOK, NEW n \in DOMAIN nameBase, Reset(n)
  PROVE  /\ nameBase[n] \in DOMAIN bases
         /\ Placed(nameBase[n], Null) /\ bases' \in Seq(Objects \cup {Null})
  <1>1. nameBase[n] \in DOMAIN bases
    BY DEF TypeOK
  <1>2. bases' = Put(nameBase[n], Null)
    BY <1>1 DEF Reset, Put
  <1> QED BY <1>1, <1>2, PutPlaces

LEMMA ObjectType ==
  ASSUME made \in Nat, NEW n \in Names, NEW d \in Contents
  PROVE  /\ Object(n, d) \in Objects
         /\ Object(n, d).name = n /\ Object(n, d).gen = made + 1
         /\ \A t \in Tables : /\ Object(n, d).open[t] <= 1
                              /\ Object(n, d).open[t] > 0 <=> d[t] = "good"
  BY DEF Object, Objects, Contents

LEMMA LoadableType ==
  ASSUME TypeOK, NEW n \in Names, Loadable(n)
  PROVE  disk[n] \in Contents /\ disk[n] # Null
  BY DEF TypeOK, Loadable

\* A step of a client leaves the threads and the sessions of the others.
LEMMA Keeps ==
  ASSUME TypeOK, NEW c \in Clients, Begin(c) \/ Step(c), NEW d \in Clients \ {c}
  PROVE  thread'[d] = thread[d] /\ session'[d] = session[d]
  <1>0. DOMAIN thread = Clients /\ DOMAIN session = Clients
    BY DEF TypeOK
  <1>1. CASE Begin(c)
    <2>1. session' = session \/ \E x : session' = [session EXCEPT ![c] = x]
      BY <1>1, ZenonT(30)
      DEF Begin, CreateDataBase, Drop, Attach, BackUp, RestoreDatabase,
          CreateTable, Leave, Query, Command, Ask, Refuse
    <2>2. thread' = thread \/ \E x : thread' = [thread EXCEPT ![c] = x]
      BY <1>1, ZenonT(30)
      DEF Begin, CreateDataBase, Drop, Attach, BackUp, RestoreDatabase,
          CreateTable, Leave, Query, Command, Ask, Refuse
    <2> QED BY <1>0, <2>1, <2>2
  <1>2. CASE Step(c)
    <2>1. session' = session
      BY <1>2, ZenonT(30)
      DEF Step, OpenDataBase, Register, CopyOut, BackedUp, RemoveStep, Dropped,
          Wiped, CopyIn, RestoreFails, Construct, MakeTable, WriteInfo,
          OpenTable, Use, UseDestroyed, Terminate, Done, Goto, Copied
    <2>2. thread' = thread \/ \E x : thread' = [thread EXCEPT ![c] = x]
      BY <1>2, ZenonT(30)
      DEF Step, OpenDataBase, Register, CopyOut, BackedUp, RemoveStep, Dropped,
          Wiped, CopyIn, RestoreFails, Construct, MakeTable, WriteInfo,
          OpenTable, Use, UseDestroyed, Terminate, Done, Goto, Copied
    <2> QED BY <1>0, <2>1, <2>2
  <1> QED BY <1>1, <1>2

-----------------------------------------------------------------------------
(***************************************************************************)
(* What each action does, in the terms of the invariants.                  *)
(***************************************************************************)
Quiet == UNCHANGED <<diskVars, memVars, lockVars, thread, session>>

\* A client that goes on with the command it has.
SameArgs(c) ==
    /\ thread'[c].name = thread[c].name /\ thread'[c].table = thread[c].table
    /\ thread'[c].backup = thread[c].backup /\ thread'[c].ref = thread[c].ref

LEMMA CreateDoes ==
  ASSUME TypeOK, NEW c \in Clients, NEW n \in Names, CreateDataBase(c, n), ~Quiet
  PROVE  /\ At(c, "idle") /\ At(c, "open")'
         /\ thread'[c].name = n /\ thread'[c].ref = thread[c].ref
         /\ disk[n] = Null /\ disk' = [disk EXCEPT ![n] = NoTables]
         /\ UNCHANGED <<backups, memVars, lockVars, session>>
  BY DEF TypeOK, ThreadStates, CreateDataBase, Command, Ask, Refuse, At, Quiet

LEMMA OpenDoes ==
  ASSUME TypeOK, NEW c \in Clients, OpenDataBase(c), ~Quiet
  PROVE  /\ At(c, "open") /\ At(c, "register")'
         /\ Loadable(thread[c].name)
         /\ thread'[c].name = thread[c].name
         /\ thread'[c].ref = Object(thread[c].name, disk[thread[c].name])
         /\ made' = made + 1
         /\ UNCHANGED <<diskVars, bases, nameBase, suspect, lockVars, session>>
  BY DEF TypeOK, ThreadStates, OpenDataBase, Terminate, At, Quiet

LEMMA RegisterDoes ==
  ASSUME TypeOK, ArgInv, NEW c \in Clients, Register(c)
  PROVE  /\ At(c, "register") /\ thread'[c] = Idle
         /\ excl = Nobody /\ sharers = {}
         /\ Placed(NewId, thread[c].ref) /\ bases' \in Seq(Objects \cup {Null})
         /\ nameBase' = Named(thread[c].name, NewId)
         /\ UNCHANGED <<diskVars, made, suspect, lockVars, session>>
  <1>1. thread[c].ref \in Objects \cup {Null} /\ c \in DOMAIN thread
    BY DEF TypeOK, ThreadStates
  <1>2. PICK o \in Objects \cup {Null} : o = thread[c].ref
    BY <1>1
  <1>3. PICK i : i = NewId
    OBVIOUS
  <1>4. bases' = Put(i, o)
    BY <1>2, <1>3 DEF Register
  <1>5. Placed(i, o) /\ bases' \in Seq(Objects \cup {Null})
    BY <1>3, <1>4, PutPlaces
  <1>6. Placed(NewId, thread[c].ref)
    BY <1>2, <1>3, <1>5
  <1> QED BY <1>1, <1>5, <1>6 DEF Register, ExclFree, Done, At, runVars

LEMMA BackUpDoes ==
  ASSUME TypeOK, NEW c \in Clients, NEW n \in Names, NEW b \in Backups,
         BackUp(c, n, b), ~Quiet
  PROVE  /\ At(c, "idle") /\ At(c, "copyOut")' /\ excl = Nobody
         /\ thread'[c].name = n /\ thread'[c].backup = b
         /\ thread'[c].ref = thread[c].ref
         /\ n \in DOMAIN nameBase /\ disk[n] # Null /\ backups[b] = Null
         /\ \E x \in Contents : backups' = [backups EXCEPT ![b] = x]
         /\ sharers' = sharers \cup {c}
         /\ UNCHANGED <<disk, memVars, excl, session>>
  <1>1. Itself \in Contents /\ NoTables \in Contents
    BY DEF Itself, NoTables, Contents, Stages
  <1>2. PICK x \in Contents : x = IF n = BackupDir THEN Itself ELSE NoTables
    BY <1>1
  <1>3. PICK todo : todo = IF n = BackupDir THEN {} ELSE Tables
    OBVIOUS
  <1>4. /\ At(c, "idle") /\ excl = Nobody
        /\ n \in DOMAIN nameBase /\ disk[n] # Null /\ backups[b] = Null
        /\ backups' = [backups EXCEPT ![b] = x]
        /\ sharers' = sharers \cup {c}
        /\ thread' = [thread EXCEPT ![c].pc = "copyOut", ![c].name = n,
                                    ![c].backup = b, ![c].todo = todo]
        /\ UNCHANGED <<disk, memVars, excl, session>>
    BY <1>2, <1>3, ZenonT(30)
    DEF BackUp, Command, Ask, Refuse, Quiet, SharedFree, Taken
  <1>5. /\ At(c, "copyOut")' /\ thread'[c].name = n /\ thread'[c].backup = b
        /\ thread'[c].ref = thread[c].ref
    <2>1. thread \in [Clients -> ThreadStates]
      BY DEF TypeOK
    <2>2. thread' = [thread EXCEPT ![c].pc = "copyOut", ![c].name = n,
                                  ![c].backup = b, ![c].todo = todo]
      BY <1>4
    <2> QED BY ONLY <2>1, <2>2, c \in Clients DEF ThreadStates, At
  <1> QED BY <1>4, <1>5, Zenon

LEMMA CopyOutDoes ==
  ASSUME TypeOK, NEW c \in Clients, CopyOut(c)
  PROVE  /\ At(c, "copyOut") /\ At(c, "copyOut")' /\ SameArgs(c)
         /\ \E t \in thread[c].todo :
               backups' = [backups EXCEPT ![thread[c].backup] =
                              CopyStep(disk[thread[c].name], @, t)]
         /\ UNCHANGED <<disk, memVars, lockVars, session>>
  <1>1. PICK x : thread' = [thread EXCEPT ![c].todo = x]
    BY Zenon DEF CopyOut, Copied
  <1>2. At(c, "copyOut") /\ At(c, "copyOut")' /\ SameArgs(c)
    BY <1>1 DEF TypeOK, ThreadStates, At, CopyOut, SameArgs
  <1> QED BY <1>2, Zenon DEF CopyOut

LEMMA BackedUpDoes ==
  ASSUME TypeOK, NEW c \in Clients, BackedUp(c), ~Quiet
  PROVE  /\ At(c, "copyOut") /\ thread'[c] = Idle
         /\ \/ UNCHANGED backups
            \/ backups' = [backups EXCEPT ![thread[c].backup] = Null]
         /\ sharers' = sharers \ {c}
         /\ UNCHANGED <<disk, memVars, excl, session>>
  BY DEF TypeOK, BackedUp, Terminate, Done, At, Quiet

\* Neither Drop nor RestoreDatabase leaves a live database to the name.
LEMMA DropDoes ==
  ASSUME TypeOK, NEW c \in Clients, NEW n \in Names, Drop(c, n), ~Quiet
  PROVE  /\ At(c, "idle") /\ At(c, "remove")'
         /\ excl = Nobody /\ sharers = {} /\ excl' = c
         /\ thread'[c].name = n /\ thread'[c].ref = thread[c].ref
         /\ n \in DOMAIN nameBase /\ Placed(nameBase[n], Null)
         /\ bases' \in Seq(Objects \cup {Null})
         /\ DOMAIN nameBase' = DOMAIN nameBase \ {n}
         /\ \A m \in DOMAIN nameBase \ {n} : nameBase'[m] = nameBase[m]
         /\ UNCHANGED <<diskVars, made, suspect, sharers, session>>
  <1>1. n \in DOMAIN nameBase /\ Reset(n)
    BY DEF Drop, Refuse, Quiet, Command
  <1>2. Placed(nameBase[n], Null) /\ bases' \in Seq(Objects \cup {Null})
    BY <1>1, ResetPlaces
  <1>3. thread' = [thread EXCEPT ![c].pc = "remove", ![c].name = n]
    BY DEF Drop, Refuse, Quiet, Command
  <1>4. At(c, "remove")' /\ thread'[c].name = n /\ thread'[c].ref = thread[c].ref
    BY <1>3 DEF TypeOK, ThreadStates, At
  <1>5. /\ DOMAIN nameBase' = DOMAIN nameBase \ {n}
        /\ \A m \in DOMAIN nameBase \ {n} : nameBase'[m] = nameBase[m]
    BY DEF Drop, EraseName, Refuse, Quiet, Command
  <1> QED
    BY <1>1, <1>2, <1>4, <1>5
    DEF Drop, Refuse, Quiet, Command, Ask, At, ExclFree

LEMMA RestoreDoes ==
  ASSUME TypeOK, NEW c \in Clients, NEW n \in Names, NEW b \in Backups,
         RestoreDatabase(c, b, n), ~Quiet
  PROVE  /\ At(c, "idle") /\ At(c, "wipe")'
         /\ excl = Nobody /\ sharers = {} /\ excl' = c
         /\ thread'[c].name = n /\ thread'[c].backup = b
         /\ thread'[c].ref = thread[c].ref
         /\ backups[b] # Null
         /\ IF n \in DOMAIN nameBase THEN Placed(nameBase[n], Null)
                                     ELSE UNCHANGED bases
         /\ bases' \in Seq(Objects \cup {Null})
         /\ UNCHANGED <<diskVars, nameBase, made, suspect, sharers, session>>
  <1>1. IF n \in DOMAIN nameBase THEN Reset(n) ELSE UNCHANGED bases
    BY DEF RestoreDatabase, Refuse, Quiet, Command
  <1>2. /\ IF n \in DOMAIN nameBase THEN Placed(nameBase[n], Null)
                                    ELSE UNCHANGED bases
        /\ bases' \in Seq(Objects \cup {Null})
    <2>1. CASE n \in DOMAIN nameBase
      BY <1>1, <2>1, ResetPlaces
    <2>2. CASE n \notin DOMAIN nameBase
      BY <1>1, <2>2 DEF TypeOK
    <2> QED BY <2>1, <2>2
  <1>3. thread' = [thread EXCEPT ![c].pc = "wipe", ![c].name = n, ![c].backup = b]
    BY DEF RestoreDatabase, Refuse, Quiet, Command
  <1>4. /\ At(c, "wipe")' /\ thread'[c].name = n /\ thread'[c].backup = b
        /\ thread'[c].ref = thread[c].ref
    BY <1>3 DEF TypeOK, ThreadStates, At
  <1> QED
    BY <1>1, <1>2, <1>4
    DEF RestoreDatabase, Refuse, Quiet, Command, Ask, At, ExclFree

LEMMA RemoveStepDoes ==
  ASSUME TypeOK, ArgInv, NEW c \in Clients, RemoveStep(c)
  PROVE  /\ thread[c].pc \in {"remove", "wipe"} /\ thread[c].name \in Names
         /\ \/ UNCHANGED disk
            \/ \E x \in Contents : disk' = [disk EXCEPT ![thread[c].name] = x]
         /\ backups' \in [Backups -> Contents \cup {Null}]
         /\ UNCHANGED backups \/ thread[c].name = BackupDir
         /\ UNCHANGED <<memVars, lockVars, thread, session>>
  <1>0. \A d \in Contents, t \in Tables, s \in {"bad", "absent"} :
           [d EXCEPT ![t] = s] \in Contents
    BY DEF Contents, Stages
  <1>1. thread[c].name \in Names /\ thread[c].pc \in {"remove", "wipe"}
    BY DEF RemoveStep, ArgInv, Args, At
  <1>2. PICK n \in Names : n = thread[c].name
    BY <1>1
  <1>3. UNCHANGED <<memVars, lockVars, thread, session>>
    BY DEF RemoveStep
  <1>4. CASE \E t \in Tables, s \in {"bad", "absent"} :
                /\ disk[n] # Null /\ disk[n][t] \notin {"absent", s}
                /\ disk' = [disk EXCEPT ![n][t] = s] /\ UNCHANGED backups
    <2>1. PICK t \in Tables, s \in {"bad", "absent"} :
             /\ disk[n] # Null /\ UNCHANGED backups
             /\ disk' = [disk EXCEPT ![n] = [disk[n] EXCEPT ![t] = s]]
      BY <1>4
    <2>2. disk[n] \in Contents /\ backups' \in [Backups -> Contents \cup {Null}]
      BY <2>1 DEF TypeOK
    <2> QED BY <1>0, <1>1, <1>2, <1>3, <2>1, <2>2
  <1>5. CASE /\ n = BackupDir /\ UNCHANGED disk
             /\ \E b \in Backups :
                   \/ backups' = [backups EXCEPT ![b] = Null]
                   \/ \E t \in Tables, s \in {"bad", "absent"} :
                         /\ backups[b] # Null
                         /\ backups' = [backups EXCEPT ![b][t] = s]
    <2>1. PICK b \in Backups :
             \/ backups' = [backups EXCEPT ![b] = Null]
             \/ \E t \in Tables, s \in {"bad", "absent"} :
                   /\ backups[b] # Null
                   /\ backups' = [backups EXCEPT ![b] = [backups[b] EXCEPT ![t] = s]]
      BY <1>5
    <2>2. backups \in [Backups -> Contents \cup {Null}]
      BY DEF TypeOK
    <2>3. \E x \in Contents \cup {Null} : backups' = [backups EXCEPT ![b] = x]
      BY <1>0, <2>1, <2>2
    <2>4. backups' \in [Backups -> Contents \cup {Null}]
      BY <2>2, <2>3
    <2> QED BY <1>1, <1>2, <1>3, <1>5, <2>4
  <1> QED BY <1>2, <1>4, <1>5, Zenon DEF RemoveStep

LEMMA DroppedDoes ==
  ASSUME TypeOK, NEW c \in Clients, Dropped(c)
  PROVE  /\ At(c, "remove") /\ thread'[c] = Idle
         /\ disk' = disk \/ disk' = [disk EXCEPT ![thread[c].name] = Null]
         /\ excl' = Nobody
         /\ UNCHANGED <<backups, memVars, sharers, session>>
  BY DEF TypeOK, Dropped, Done, At, runVars

LEMMA WipedDoes ==
  ASSUME TypeOK, NEW c \in Clients, Wiped(c)
  PROVE  /\ At(c, "wipe") /\ At(c, "copyIn")' /\ SameArgs(c)
         /\ disk' = [disk EXCEPT ![thread[c].name] = NoTables]
         /\ UNCHANGED <<backups, memVars, lockVars, session>>
  BY DEF TypeOK, ThreadStates, Wiped, At, SameArgs, runVars

LEMMA CopyStepType ==
  ASSUME NEW from \in Contents, NEW to \in Contents, NEW t \in Tables
  PROVE  CopyStep(from, to, t) \in Contents
  BY DEF CopyStep, Contents, Stages

LEMMA CopyInDoes ==
  ASSUME TypeOK, ArgInv, DirInv, NEW c \in Clients, CopyIn(c)
  PROVE  /\ At(c, "copyIn") /\ thread'[c].pc \in {"copyIn", "construct"}
         /\ SameArgs(c) /\ thread[c].name \in Names
         /\ \/ disk' = disk
            \/ \E x \in Contents : disk' = [disk EXCEPT ![thread[c].name] = x]
         /\ UNCHANGED <<backups, memVars, lockVars, session>>
  <1>1. /\ At(c, "copyIn") /\ backups[thread[c].backup] # Null
        /\ UNCHANGED <<backups, memVars, lockVars, session>>
    BY DEF CopyIn
  <1>2. /\ thread[c].name \in Names /\ thread[c].backup \in Backups
        /\ disk[thread[c].name] # Null /\ backups[thread[c].backup] # Null
    BY <1>1 DEF ArgInv, Args, DirInv, At
  <1>3. disk[thread[c].name] \in Contents /\ backups[thread[c].backup] \in Contents
    BY <1>2 DEF TypeOK
  <1>4. \/ \E x : thread' = [thread EXCEPT ![c].todo = x]
        \/ thread' = [thread EXCEPT ![c].pc = "construct"]
    BY Zenon DEF CopyIn, Copied, Goto
  <1>5. thread'[c].pc \in {"copyIn", "construct"} /\ SameArgs(c)
    BY <1>1, <1>4 DEF TypeOK, ThreadStates, At, SameArgs
  <1>6. \/ disk' = disk
        \/ \E x \in Contents : disk' = [disk EXCEPT ![thread[c].name] = x]
    <2>1. CASE \E t \in thread[c].todo :
                 disk' = [disk EXCEPT ![thread[c].name] =
                             CopyStep(backups[thread[c].backup], @, t)]
      <3>1. PICK t \in thread[c].todo :
                 disk' = [disk EXCEPT ![thread[c].name] =
                             CopyStep(backups[thread[c].backup],
                                      disk[thread[c].name], t)]
        BY <2>1
      <3>2. t \in Tables
        BY DEF TypeOK, ThreadStates
      <3> QED BY <1>3, <3>1, <3>2, CopyStepType
    <2> QED BY <2>1, Zenon DEF CopyIn
  <1> QED BY <1>1, <1>2, <1>5, <1>6

LEMMA RestoreFailsDoes ==
  ASSUME TypeOK, NEW c \in Clients, RestoreFails(c), ~Quiet
  PROVE  /\ thread[c].pc \in {"wipe", "copyIn"} /\ thread'[c] = Idle
         /\ disk' = [disk EXCEPT ![thread[c].name] = Null]
         /\ suspect' = suspect \cup {thread[c].name}
         /\ excl' = Nobody
         /\ backups' \in [Backups -> Contents \cup {Null}]
         /\ UNCHANGED backups \/ thread[c].name = BackupDir
         /\ UNCHANGED <<bases, nameBase, made, sharers, session>>
  <1>1. PICK n : n = thread[c].name
    OBVIOUS
  <1>2. /\ thread[c].pc \in {"wipe", "copyIn"} /\ Done(c)
        /\ disk' = [disk EXCEPT ![n] = Null]
        /\ backups' = IF n = BackupDir THEN [b \in Backups |-> Null] ELSE backups
        /\ suspect' = suspect \cup {n} /\ excl' = Nobody
        /\ UNCHANGED <<bases, nameBase, made, sharers, session>>
    BY <1>1, ZenonT(30) DEF RestoreFails, Terminate, At, Quiet
  <1>3. thread'[c] = Idle
    BY <1>2 DEF TypeOK, Done
  <1>4. backups' \in [Backups -> Contents \cup {Null}]
    BY <1>2 DEF TypeOK
  <1> QED BY <1>1, <1>2, <1>3, <1>4

\* The id that Construct gives: the old one, or the next.
IdOf(n) == IF n \in DOMAIN nameBase THEN nameBase[n] ELSE NewId

LEMMA ConstructDoes ==
  ASSUME TypeOK, ArgInv, NEW c \in Clients, Construct(c), ~Quiet
  PROVE  LET n == thread[c].name IN
         /\ At(c, "construct") /\ thread'[c] = Idle
         /\ n \in Names /\ Loadable(n) /\ disk[n] \in Contents
         /\ IdOf(n) \in DOMAIN bases \cup {NewId}
         /\ Placed(IdOf(n), Object(n, disk[n]))
         /\ bases' \in Seq(Objects \cup {Null})
         /\ nameBase' = Named(n, IdOf(n))
         /\ made' = made + 1
         /\ suspect' \in {suspect \cup {n}, suspect \ {n}}
         /\ BeingMade(n) => suspect' = suspect \cup {n}
         /\ excl' = Nobody
         /\ UNCHANGED <<diskVars, sharers, session>>
  <1>1. /\ At(c, "construct") /\ Loadable(thread[c].name)
        /\ bases' = Put(IdOf(thread[c].name),
                        Object(thread[c].name, disk[thread[c].name]))
        /\ nameBase' = Named(thread[c].name, IdOf(thread[c].name))
        /\ made' = made + 1 /\ excl' = Nobody /\ thread'[c] = Idle
        /\ suspect' = IF BeingMade(thread[c].name)
                      THEN suspect \cup {thread[c].name}
                      ELSE suspect \ {thread[c].name}
        /\ UNCHANGED <<diskVars, sharers, session>>
    <2>1. c \in DOMAIN thread
      BY DEF TypeOK
    <2> QED BY <2>1, ZenonT(40) DEF Construct, Terminate, Done, Quiet, IdOf
  <1>2. thread[c].name \in Names
    BY <1>1 DEF ArgInv, Args, At
  <1>3. PICK n \in Names : n = thread[c].name
    BY <1>2
  <1>4. disk[n] \in Contents
    BY <1>1, <1>3, LoadableType
  <1>5. made \in Nat
    BY DEF TypeOK
  <1>6. Object(n, disk[n]) \in Objects
    BY <1>4, <1>5, ObjectType
  <1>7. PICK o \in Objects : o = Object(n, disk[n])
    BY <1>6
  <1>8. IdOf(n) \in DOMAIN bases \cup {NewId}
    BY DEF IdOf, TypeOK
  <1>9. PICK i \in DOMAIN bases \cup {NewId} : i = IdOf(n)
    BY <1>8
  <1>10. Placed(i, o) /\ bases' \in Seq(Objects \cup {Null})
    BY <1>1, <1>3, <1>7, <1>9, PutPlaces
  <1>11. Placed(IdOf(n), Object(n, disk[n]))
    BY <1>7, <1>9, <1>10
  <1> QED BY <1>1, <1>2, <1>3, <1>4, <1>8, <1>10, <1>11

\* A live reference of a createTable is to what the name leads to.
LEMMA HeldPlace ==
  ASSUME TypeOK, GenInv, NameInv, NEW c \in Clients,
         thread[c].pc \in Held, Alive(thread[c].ref)
  PROVE  /\ thread[c].name \in DOMAIN nameBase
         /\ nameBase[thread[c].name] \in DOMAIN bases
         /\ Place(thread[c].ref) = nameBase[thread[c].name]
         /\ bases[nameBase[thread[c].name]] \in Objects
         /\ bases[nameBase[thread[c].name]] # Null
         /\ thread[c].ref # Null
         /\ bases[nameBase[thread[c].name]].gen = thread[c].ref.gen
  <1> DEFINE k == nameBase[thread[c].name]
             o == thread[c].ref
  <1>1. thread[c].name \in DOMAIN nameBase /\ k \in Places(o)
    BY DEF NameInv
  <1>2. k \in DOMAIN bases /\ o # Null /\ bases[k] # Null /\ bases[k].gen = o.gen
    BY <1>1 DEF Places
  <1>3. bases[k] \in Objects
    BY <1>2 DEF TypeOK
  <1>4. \A i \in Places(o) : i = k
    BY <1>2 DEF Places, GenInv
  <1>5. Place(o) = k
    <2>1. Place(o) \in Places(o)
      BY <1>1, Zenon DEF Place
    <2> QED BY <1>4, <2>1
  <1> QED BY <1>1, <1>2, <1>3, <1>5

LEMMA CreateTableDoes ==
  ASSUME TypeOK, NEW c \in Clients, NEW n \in Names, NEW t \in Tables,
         CreateTable(c, n, t), ~Quiet
  PROVE  /\ At(c, "idle") /\ At(c, "check")' /\ n \in DOMAIN nameBase
         /\ nameBase[n] \in DOMAIN bases
         /\ thread'[c].name = n /\ thread'[c].table = t
         /\ thread'[c].ref = bases[nameBase[n]]
         /\ UNCHANGED <<diskVars, memVars, lockVars, session>>
  BY DEF TypeOK, ThreadStates, CreateTable, Command, Ask, At, Quiet

LEMMA MakeTableDoes ==
  ASSUME TypeOK, ArgInv, GenInv, NameInv, NEW c \in Clients, MakeTable(c), ~Quiet
  PROVE  LET n == thread[c].name
             t == thread[c].table
         IN /\ At(c, "check") /\ n \in Names /\ t \in Tables
            /\ Alive(thread[c].ref) /\ disk[n] \in Contents /\ disk[n] # Null
            /\ \/ thread'[c] = Idle /\ UNCHANGED disk
               \/ /\ At(c, "info")' /\ SameArgs(c)
                  /\ ~(bases[nameBase[n]].open[t] > 0) /\ disk[n][t] = "absent"
                  /\ disk' = [disk EXCEPT ![n] = [@ EXCEPT ![t] = "bad"]]
            /\ UNCHANGED <<backups, memVars, lockVars, session>>
  <1>1. At(c, "check") /\ Alive(thread[c].ref)
    BY DEF MakeTable
  <1>2. /\ thread[c].name \in Names /\ thread[c].table \in Tables
        /\ Place(thread[c].ref) = nameBase[thread[c].name]
    BY <1>1, HeldPlace DEF ArgInv, Args, At, Held
  <1>3. PICK n, t : n = thread[c].name /\ t = thread[c].table
    OBVIOUS
  <1>4. /\ disk[n] # Null /\ UNCHANGED <<backups, memVars, lockVars, session>>
        /\ \/ Done(c) /\ UNCHANGED disk
           \/ /\ ~(bases[nameBase[n]].open[t] > 0 \/ DirectoryThere(n, t))
              /\ disk' = [disk EXCEPT ![n][t] = IF @ = "absent" THEN "bad" ELSE @]
              /\ Goto(c, "info")
    BY <1>2, <1>3, ZenonT(40) DEF MakeTable, Terminate, Quiet
  <1>5. disk[n] \in Contents
    BY <1>2, <1>3, <1>4 DEF TypeOK
  <1>6. Done(c) => thread'[c] = Idle
    BY DEF Done, TypeOK
  <1>7. Goto(c, "info") => At(c, "info")' /\ SameArgs(c)
    BY DEF Goto, TypeOK, ThreadStates, At, SameArgs
  <1>8. ~DirectoryThere(n, t) => disk[n][t] = "absent"
    BY DEF DirectoryThere
  <1>9. /\ disk[n][t] = "absent"
        /\ disk' = [disk EXCEPT ![n][t] = IF @ = "absent" THEN "bad" ELSE @]
        => disk' = [disk EXCEPT ![n] = [@ EXCEPT ![t] = "bad"]]
    BY <1>2, <1>3 DEF TypeOK
  <1> QED BY <1>1, <1>2, <1>3, <1>4, <1>5, <1>6, <1>7, <1>8, <1>9

LEMMA WriteInfoDoes ==
  ASSUME TypeOK, ArgInv, MakeInv, NEW c \in Clients, WriteInfo(c)
  PROVE  LET n == thread[c].name
             t == thread[c].table
         IN /\ At(c, "info") /\ Maker(c) /\ At(c, "openTable")' /\ SameArgs(c)
            /\ n \in Names /\ t \in Tables /\ disk[n] \in Contents
            /\ disk' = [disk EXCEPT ![n] = [@ EXCEPT ![t] = "good"]]
            /\ UNCHANGED <<backups, memVars, lockVars, session>>
  <1>1. At(c, "info") /\ Maker(c)
    BY DEF WriteInfo, Maker, At, Making
  <1>2. thread[c].name \in Names /\ thread[c].table \in Tables
    BY <1>1 DEF ArgInv, Args, At, Held
  <1>3. disk[thread[c].name] \in Contents
    BY <1>1, <1>2 DEF MakeInv, TypeOK
  <1>4. At(c, "openTable")' /\ SameArgs(c)
    BY DEF WriteInfo, Goto, TypeOK, ThreadStates, At, SameArgs
  <1>5. /\ disk' = [disk EXCEPT ![thread[c].name] =
                        [@ EXCEPT ![thread[c].table] = "good"]]
        /\ UNCHANGED <<backups, memVars, lockVars, session>>
    BY DEF WriteInfo
  <1> QED BY <1>1, <1>2, <1>3, <1>4, <1>5

\* The object with table t opened once more.
Opened(o, t) == [o EXCEPT !.open = [o.open EXCEPT ![t] = o.open[t] + 1]]

LEMMA OpenedType ==
  ASSUME NEW o \in Objects, NEW t \in Tables
  PROVE  /\ Opened(o, t) \in Objects
         /\ Opened(o, t).name = o.name /\ Opened(o, t).gen = o.gen
         /\ Opened(o, t).open[t] = o.open[t] + 1
         /\ \A u \in Tables \ {t} : Opened(o, t).open[u] = o.open[u]
  <1>1. o.open \in [Tables -> Nat] /\ o.open[t] \in Nat
    BY DEF Objects
  <1>2. PICK f : f = [o.open EXCEPT ![t] = o.open[t] + 1]
    OBVIOUS
  <1>3. /\ f \in [Tables -> Nat] /\ f[t] = o.open[t] + 1
        /\ \A u \in Tables \ {t} : f[u] = o.open[u]
    BY <1>1, <1>2
  <1>4. Opened(o, t) = [o EXCEPT !.open = f]
    BY <1>2 DEF Opened
  <1>5. /\ Opened(o, t).open = f /\ Opened(o, t).name = o.name
        /\ Opened(o, t).gen = o.gen /\ Opened(o, t) \in Objects
    BY <1>3, <1>4 DEF Objects
  <1> QED BY <1>3, <1>5

LEMMA OpenTableDoes ==
  ASSUME TypeOK, ArgInv, GenInv, NameInv, NEW c \in Clients, OpenTable(c)
  PROVE  LET k == nameBase[thread[c].name]
             t == thread[c].table
         IN /\ At(c, "openTable") /\ Maker(c) /\ thread'[c] = Idle
            /\ t \in Tables /\ thread[c].name \in DOMAIN nameBase
            /\ k \in DOMAIN bases /\ bases[k] \in Objects
            /\ Placed(k, Opened(bases[k], t))
            /\ bases' \in Seq(Objects \cup {Null})
            /\ UNCHANGED <<diskVars, nameBase, made, suspect, lockVars, session>>
  <1>1. At(c, "openTable") /\ Maker(c)
    BY DEF OpenTable, Maker, At, Making
  <1>2. thread[c].table \in Tables
    BY <1>1 DEF ArgInv, Args, At, Held
  <1>3. /\ Place(thread[c].ref) = nameBase[thread[c].name]
        /\ nameBase[thread[c].name] \in DOMAIN bases
        /\ thread[c].name \in DOMAIN nameBase
        /\ bases[nameBase[thread[c].name]] \in Objects
    BY <1>1, HeldPlace DEF Maker, Making, Held
  <1>4. PICK k \in DOMAIN bases, t \in Tables :
          k = nameBase[thread[c].name] /\ t = thread[c].table
    BY <1>2, <1>3
  <1>5. PICK o \in Objects : o = bases[k]
    BY <1>3, <1>4
  <1>6. bases' = [bases EXCEPT ![k] = Opened(o, t)]
    BY <1>3, <1>4, <1>5 DEF OpenTable, Opened
  <1>7. Opened(o, t) \in Objects \cup {Null}
    BY OpenedType
  <1>8. bases' = Put(k, Opened(o, t))
    BY <1>6 DEF Put
  <1>9. Placed(k, Opened(o, t)) /\ bases' \in Seq(Objects \cup {Null})
    BY <1>7, <1>8, PutPlaces
  <1>10. thread'[c] = Idle
    BY DEF OpenTable, Done, TypeOK
  <1> QED
    BY <1>1, <1>2, <1>3, <1>4, <1>5, <1>9, <1>10 DEF OpenTable, runVars

LEMMA AttachDoes ==
  ASSUME TypeOK, NEW c \in Clients, NEW n \in Names, Attach(c, n), ~Quiet
  PROVE  /\ n \in DOMAIN nameBase
         /\ session'[c] = [joined |-> TRUE, name |-> n, id |-> nameBase[n]]
         /\ UNCHANGED <<diskVars, memVars, lockVars, thread>>
  BY DEF TypeOK, Attach, Ask, Quiet

LEMMA LeaveDoes ==
  ASSUME TypeOK, NEW c \in Clients, Leave(c)
  PROVE  /\ session'[c].joined = FALSE
         /\ UNCHANGED <<diskVars, memVars, lockVars, thread>>
  BY DEF TypeOK, Leave, Ask

LEMMA QueryDoes ==
  ASSUME TypeOK, NameInv, NEW c \in Clients, Query(c)
  PROVE  /\ At(c, "idle") /\ At(c, "use")'
         /\ thread'[c].ref = bases[session[c].id]
         /\ session[c].id \in DOMAIN bases
         /\ UNCHANGED <<diskVars, memVars, lockVars, session>>
  BY DEF TypeOK, ThreadStates, NameInv, Query, Ask, At

LEMMA UseDoes ==
  ASSUME TypeOK, NEW c \in Clients, Use(c)
  PROVE  /\ At(c, "use") /\ thread'[c] = Idle
         /\ UNCHANGED <<diskVars, memVars, lockVars, session>>
  BY DEF TypeOK, Use, Done, At

\* An injective listing of a finite set lists all of it.
LEMMA ListingCovers ==
  ASSUME NEW S, IsFiniteSet(S), NEW s \in Listings(S)
  PROVE  /\ DOMAIN s = 1 .. Cardinality(S) /\ Cardinality(S) \in Nat
         /\ \A i \in DOMAIN s : s[i] \in S
         /\ \A n \in S : \E i \in DOMAIN s : s[i] = n
         /\ \A i, j \in DOMAIN s : s[i] = s[j] => i = j
  <1> DEFINE k == Cardinality(S)
  <1>1. k \in Nat /\ Cardinality(1 .. k) = k /\ IsFiniteSet(1 .. k)
    BY FS_CardinalityType, FS_Interval
  <1>2. s \in [1 .. k -> S] /\ \A i, j \in DOMAIN s : s[i] = s[j] => i = j
    BY DEF Listings
  <1>3. s \in Injection(1 .. k, S)
    BY <1>2 DEF Injection, IsInjective
  <1>4. s \in Surjection(1 .. k, S)
    BY <1>1, <1>3, FS_Injection
  <1> QED BY <1>1, <1>2, <1>4 DEF Surjection

LEMMA RestartDoes ==
  ASSUME TypeOK, Restart
  PROVE  /\ disk' \in [Names -> Contents \cup {Null}]
         /\ UNCHANGED backups /\ suspect' = {}
         /\ excl' = Nobody /\ sharers' = {}
         /\ thread' = [c \in Clients |-> Idle]
         /\ session' = [c \in Clients |-> NoSession]
         /\ bases' \in Seq(Objects) /\ made' \in Nat
         /\ DOMAIN nameBase' \subseteq Names
         /\ \A i \in DOMAIN bases' :
               /\ bases'[i] \in Objects /\ i \in Nat
               /\ bases'[i].gen = made + i /\ made + i <= made'
               /\ \A t \in Tables : bases'[i].open[t] <= 1
         /\ \A n \in DOMAIN nameBase' :
               /\ nameBase'[n] \in DOMAIN bases'
               /\ bases'[nameBase'[n]].name = n
         /\ \A n \in DOMAIN nameBase' :
               /\ disk'[n] \in Contents
               /\ \A t \in Tables :
                     /\ disk'[n][t] # "bad"
                     /\ bases'[nameBase'[n]].open[t] > 0 <=> disk'[n][t] = "good"
  <1> DEFINE made0  == IF \A n \in Names : disk[n] = Null THEN {Default} ELSE {}
             loaded == {n \in Names : Loadable(n)} \cup made0
             in(n)  == IF disk[n] = Null /\ n \in made0 \cup {BackupDir}
                       THEN NoTables ELSE disk[n]
  <1>0. made0 \subseteq Names
    BY SystemAssumption
  <1>1. IsFiniteSet(loaded)
    <2>1. IsFiniteSet(Names)
      BY SystemAssumption
    <2>2. loaded \subseteq Names
      BY <1>0
    <2> HIDE DEF loaded
    <2> QED BY <2>1, <2>2, FS_Subset
  <1>2. PICK s \in Listings(loaded) :
          /\ bases' = [i \in DOMAIN s |->
                          [Object(s[i], in(s[i])) EXCEPT !.gen = made + i]]
          /\ nameBase' = [n \in loaded |-> CHOOSE i \in DOMAIN s : s[i] = n]
          /\ made' = made + Cardinality(loaded)
    BY DEF Restart, LoadFoldersAndOpenBases
  <1>3. /\ DOMAIN s = 1 .. Cardinality(loaded) /\ Cardinality(loaded) \in Nat
        /\ \A i \in DOMAIN s : s[i] \in loaded
        /\ \A n \in loaded : \E i \in DOMAIN s : s[i] = n
    <2> HIDE DEF loaded
    <2> QED BY <1>1, <1>2, ListingCovers
  <1>4. made \in Nat
    BY DEF TypeOK
  <1>5. \A n \in loaded : /\ n \in Names /\ in(n) \in Contents
                          /\ \A t \in Tables : in(n)[t] # "bad"
    <2>1. NoTables \in Contents /\ \A t \in Tables : NoTables[t] # "bad"
      BY DEF NoTables, Contents, Stages
    <2>2. \A n \in made0 : in(n) = NoTables
      BY SystemAssumption
    <2>3. ASSUME NEW n \in Names, Loadable(n)
          PROVE  in(n) \in Contents /\ \A t \in Tables : in(n)[t] # "bad"
      <3>1. disk[n] \in Contents /\ disk[n] # Null
        BY <2>3, LoadableType
      <3>2. in(n) = disk[n]
        BY <3>1
      <3>3. \A t \in Tables : disk[n][t] # "bad"
        BY <2>3 DEF Loadable
      <3> QED BY <3>1, <3>2, <3>3
    <2> QED BY <1>0, <2>1, <2>2, <2>3
  <1>12. /\ disk' = [n \in Names |-> in(n)]
        /\ disk' \in [Names -> Contents \cup {Null}]
    <2>1. NoTables \in Contents
      BY DEF NoTables, Contents, Stages
    <2>2. \A n \in Names : in(n) \in Contents \cup {Null}
      BY <2>1 DEF TypeOK
    <2>3. disk' = [n \in Names |-> in(n)]
      BY DEF Restart, LoadFoldersAndOpenBases
    <2> QED BY <2>2, <2>3
  <1> HIDE DEF loaded, in
  <1>6. ASSUME NEW i \in DOMAIN s
        PROVE  /\ bases'[i] \in Objects /\ i \in Nat
               /\ bases'[i].gen = made + i /\ made + i <= made'
               /\ bases'[i].name = s[i]
               /\ \A t \in Tables : /\ bases'[i].open[t] <= 1
                                    /\ bases'[i].open[t] > 0
                                          <=> in(s[i])[t] = "good"
    <2>1. PICK o : o = Object(s[i], in(s[i]))
      OBVIOUS
    <2>2. /\ o \in Objects /\ o.name = s[i]
          /\ \A t \in Tables : /\ o.open[t] <= 1
                               /\ o.open[t] > 0 <=> in(s[i])[t] = "good"
      <3>1. s[i] \in Names /\ in(s[i]) \in Contents
        BY <1>3, <1>5
      <3>2. PICK n \in Names, d \in Contents :
              n = s[i] /\ d = in(s[i])
        BY <3>1
      <3> QED BY <1>4, <2>1, <3>2, ObjectType
    <2>3. bases'[i] = [o EXCEPT !.gen = made + i]
      BY <1>2, <2>1
    <2>4. i \in Nat /\ made + i <= made' /\ made + i \in Nat
      BY <1>2, <1>3, <1>4
    <2> QED BY <2>2, <2>3, <2>4 DEF Objects
  <1>7. bases' \in Seq(Objects) /\ DOMAIN bases' = DOMAIN s
    <2>1. DOMAIN bases' = 1 .. Cardinality(loaded)
      BY <1>2, <1>3
    <2>2. bases' \in [1 .. Cardinality(loaded) -> Objects]
      BY <1>2, <1>3, <1>6
    <2> QED BY <1>3, <2>1, <2>2
  <1>8. ASSUME NEW n \in loaded
        PROVE  nameBase'[n] \in DOMAIN s /\ s[nameBase'[n]] = n
    BY <1>2, <1>3
  <1>9. DOMAIN nameBase' = loaded
    BY <1>2
  <1>10. made' \in Nat
    BY <1>2, <1>3, <1>4
  <1>11. /\ UNCHANGED backups /\ suspect' = {}
         /\ excl' = Nobody /\ sharers' = {}
         /\ thread' = [c \in Clients |-> Idle]
         /\ session' = [c \in Clients |-> NoSession]
    BY DEF Restart
  <1>13. \A n \in loaded : disk'[n] = in(n)
    BY <1>5, <1>12
  <1> QED BY <1>5, <1>6, <1>7, <1>8, <1>9, <1>10, <1>11, <1>12, <1>13

-----------------------------------------------------------------------------
LEMMA ArgStep == SystemInv /\ [Next]_vars => ArgInv'
  <1> SUFFICES ASSUME SystemInv, [Next]_vars PROVE ArgInv'
    OBVIOUS
  <1> USE DEF SystemInv
  <1>1. CASE Quiet
    BY <1>1 DEF Quiet, ArgInv, Args, At
  <1>2. ASSUME ~Quiet, NEW c \in Clients, Begin(c) \/ Step(c) PROVE ArgInv'
    <2>1. \A d \in Clients \ {c} : Args(d)'
      BY <1>2, Keeps DEF ArgInv, Args, At
    <2> SUFFICES Args(c)'
      BY <2>1 DEF ArgInv
    <2> USE <1>2 DEF Args, At, Held
    <2>2. thread'[c] = Idle => Args(c)'
      BY DEF Idle
    <2>3. ASSUME NEW n \in Names, CreateDataBase(c, n) PROVE Args(c)'
      BY <2>3, CreateDoes
    <2>4. ASSUME NEW n \in Names, Drop(c, n) PROVE Args(c)'
      BY <2>4, DropDoes
    <2>5. ASSUME NEW n \in Names, Attach(c, n) PROVE Args(c)'
      BY <2>5, AttachDoes DEF ArgInv
    <2>6. ASSUME NEW n \in Names, NEW b \in Backups, BackUp(c, n, b)
          PROVE  Args(c)'
      BY <2>6, BackUpDoes
    <2>7. ASSUME NEW n \in Names, NEW b \in Backups, RestoreDatabase(c, b, n)
          PROVE  Args(c)'
      BY <2>7, RestoreDoes
    <2>8. ASSUME NEW n \in Names, NEW t \in Tables, CreateTable(c, n, t)
          PROVE  Args(c)'
      BY <2>8, CreateTableDoes
    <2>9. CASE Leave(c)
      BY <2>9, LeaveDoes DEF ArgInv
    <2>10. CASE Query(c)
      BY <2>10, QueryDoes
    <2>11. CASE OpenDataBase(c)
      <3>1. thread[c].name \in Names /\ Loadable(thread[c].name)
        BY <2>11, OpenDoes DEF ArgInv
      <3>2. PICK n \in Names : n = thread[c].name
        BY <3>1
      <3>3. disk[n] \in Contents /\ made \in Nat
        BY <3>1, <3>2, LoadableType DEF TypeOK
      <3>4. /\ Object(n, disk[n]) \in Objects /\ Object(n, disk[n]).name = n
            /\ \A t \in Tables : Object(n, disk[n]).open[t] <= 1
        BY <3>3, ObjectType
      <3>5. At(c, "register")' /\ thread'[c].name = n /\ thread'[c].ref = Object(n, disk[n])
        BY <2>11, <3>2, OpenDoes
      <3> QED BY <3>4, <3>5, SystemAssumption
    <2>12. CASE Register(c)
      BY <2>2, <2>12, RegisterDoes
    <2>13. CASE CopyOut(c)
      BY <2>13, CopyOutDoes DEF ArgInv, SameArgs
    <2>14. CASE BackedUp(c)
      BY <2>2, <2>14, BackedUpDoes
    <2>15. CASE RemoveStep(c)
      BY <2>15, RemoveStepDoes DEF ArgInv
    <2>16. CASE Dropped(c)
      BY <2>2, <2>16, DroppedDoes
    <2>17. CASE Wiped(c)
      BY <2>17, WipedDoes DEF ArgInv, SameArgs
    <2>18. CASE CopyIn(c)
      BY <2>18, CopyInDoes DEF ArgInv, SameArgs
    <2>19. CASE RestoreFails(c)
      BY <2>2, <2>19, RestoreFailsDoes
    <2>20. CASE Construct(c)
      BY <2>2, <2>20, ConstructDoes
    <2>21. CASE MakeTable(c)
      BY <2>2, <2>21, MakeTableDoes DEF ArgInv, SameArgs
    <2>22. CASE WriteInfo(c)
      BY <2>22, WriteInfoDoes DEF ArgInv, SameArgs
    <2>23. CASE OpenTable(c)
      BY <2>2, <2>23, OpenTableDoes
    <2>24. CASE Use(c)
      BY <2>2, <2>24, UseDoes
    <2>25. CASE UseDestroyed(c)
      BY <2>25 DEF UseDestroyed, Terminate, Quiet
    <2> QED
      BY <2>3, <2>4, <2>5, <2>6, <2>7, <2>8, <2>9, <2>10, <2>11, <2>12, <2>13,
         <2>14, <2>15, <2>16, <2>17, <2>18, <2>19, <2>20, <2>21, <2>22, <2>23,
         <2>24, <2>25, Zenon DEF Begin, Step
  <1>3. CASE Restart
    BY <1>3, RestartDoes DEF ArgInv, Args, At, Idle, Held
  <1>4. CASE UNCHANGED vars
    BY <1>1, <1>4 DEF vars, Quiet
  <1> QED BY <1>1, <1>2, <1>3, <1>4 DEF Next

LEMMA LockStep == SystemInv /\ [Next]_vars => LockInv'
  <1> SUFFICES ASSUME SystemInv, [Next]_vars PROVE LockInv'
    OBVIOUS
  <1> USE DEF SystemInv
  <1>1. CASE Quiet
    BY <1>1 DEF Quiet, lockVars, LockInv, At
  <1>2. ASSUME ~Quiet, NEW c \in Clients, Begin(c) \/ Step(c) PROVE LockInv'
    <2>1. \A d \in Clients \ {c} : thread'[d] = thread[d]
      BY <1>2, Keeps
    <2>2. c # Nobody
      BY SystemAssumption
    <2> USE <1>2, <2>1, <2>2 DEF LockInv, At, Exclusive, lockVars
    <2>3. ASSUME UNCHANGED lockVars,
                 thread'[c].pc = "copyOut" <=> thread[c].pc = "copyOut",
                 thread'[c].pc \in Exclusive <=> thread[c].pc \in Exclusive
          PROVE  LockInv'
      BY <2>3
    <2>4. ASSUME UNCHANGED lockVars,
                 ~(thread[c].pc = "copyOut"), ~(thread[c].pc \in Exclusive),
                 thread'[c] = Idle
          PROVE  LockInv'
      BY <2>4 DEF Idle
    <2>5. ASSUME excl = Nobody, sharers = {}, excl' = c, UNCHANGED sharers,
                  thread[c].pc = "idle", thread'[c].pc \in Exclusive
           PROVE  LockInv'
      <3>1. \A d \in Clients : (thread'[d].pc = "copyOut" <=> d \in sharers')
        BY <2>5
      <3>2. \A d \in Clients \ {c} : thread[d].pc \notin Exclusive
        BY <2>5, SystemAssumption
      <3>3. \A d \in Clients : (thread'[d].pc \in Exclusive <=> excl' = d)
        BY <2>5, <3>2
      <3> QED BY <2>5, <3>1, <3>3
    <2>6. ASSUME excl' = Nobody, UNCHANGED sharers,
                  thread[c].pc \in Exclusive, thread'[c] = Idle
           PROVE  LockInv'
      <3>1. \A d \in Clients : (thread'[d].pc = "copyOut" <=> d \in sharers')
        BY <2>6 DEF Idle
      <3>2. excl = c
        BY <2>6
      <3>3. \A d \in Clients : (thread'[d].pc \in Exclusive <=> excl' = d)
        BY <2>6, <3>2, SystemAssumption DEF Idle
      <3> QED BY <2>6, <3>1, <3>3
    <2>7. ASSUME NEW n \in Names, CreateDataBase(c, n) PROVE LockInv'
      BY <2>7, <2>3, CreateDoes
    <2>8. ASSUME NEW n \in Names, Drop(c, n) PROVE LockInv'
      BY <2>8, <2>5, DropDoes
    <2>9. ASSUME NEW n \in Names, Attach(c, n) PROVE LockInv'
      BY <2>9, <2>3, AttachDoes
    <2>10. ASSUME NEW n \in Names, NEW b \in Backups, BackUp(c, n, b)
           PROVE  LockInv'
      BY <2>10, BackUpDoes
    <2>11. ASSUME NEW n \in Names, NEW b \in Backups, RestoreDatabase(c, b, n)
          PROVE  LockInv'
      BY <2>11, <2>5, RestoreDoes
    <2>12. ASSUME NEW n \in Names, NEW t \in Tables, CreateTable(c, n, t)
          PROVE  LockInv'
      BY <2>12, <2>3, CreateTableDoes
    <2>13. CASE Leave(c)
      BY <2>13, <2>3, LeaveDoes
    <2>14. CASE Query(c)
      BY <2>14, <2>3, QueryDoes
    <2>15. CASE OpenDataBase(c)
      BY <2>15, <2>3, OpenDoes
    <2>16. CASE Register(c)
      BY <2>16, <2>4, RegisterDoes
    <2>17. CASE CopyOut(c)
      BY <2>17, <2>3, CopyOutDoes
    <2>18. CASE BackedUp(c)
      BY <2>18, BackedUpDoes DEF Idle
    <2>19. CASE RemoveStep(c)
      BY <2>19, <2>3, RemoveStepDoes
    <2>20. CASE Dropped(c)
      BY <2>20, <2>6, DroppedDoes
    <2>21. CASE Wiped(c)
      BY <2>21, <2>3, WipedDoes
    <2>22. CASE CopyIn(c)
      BY <2>22, <2>3, CopyInDoes
    <2>23. CASE RestoreFails(c)
      BY <2>23, <2>6, RestoreFailsDoes
    <2>24. CASE Construct(c)
      BY <2>24, <2>6, ConstructDoes
    <2>25. CASE MakeTable(c)
      BY <2>25, <2>3, <2>4, MakeTableDoes
    <2>26. CASE WriteInfo(c)
      BY <2>26, <2>3, WriteInfoDoes
    <2>27. CASE OpenTable(c)
      BY <2>27, <2>4, OpenTableDoes
    <2>28. CASE Use(c)
      BY <2>28, <2>4, UseDoes
    <2>29. CASE UseDestroyed(c)
      BY <2>29 DEF UseDestroyed, Terminate, Quiet
    <2> QED
      BY <2>7, <2>8, <2>9, <2>10, <2>11, <2>12, <2>13, <2>14, <2>15, <2>16,
         <2>17,
         <2>18, <2>19, <2>20, <2>21, <2>22, <2>23, <2>24, <2>25, <2>26, <2>27,
         <2>28, <2>29, Zenon DEF Begin, Step
  <1>3. CASE Restart
    BY <1>3, RestartDoes, SystemAssumption DEF LockInv, At, Idle, Exclusive
  <1>4. CASE UNCHANGED vars
    BY <1>1, <1>4 DEF vars, Quiet
  <1> QED BY <1>1, <1>2, <1>3, <1>4 DEF Next

\* A thread with some fields changed.
LEMMA ThreadRecord ==
  ASSUME NEW th \in ThreadStates, NEW l \in Locations,
         NEW o \in Objects \cup {Null}
  PROVE  /\ [th EXCEPT !.pc = l, !.todo = Tables] \in ThreadStates
         /\ [th EXCEPT !.pc = l, !.ref = o] \in ThreadStates
         /\ [th EXCEPT !.ref = o, !.pc = l] \in ThreadStates
         /\ \A n \in Names, t \in Tables :
               [th EXCEPT !.pc = l, !.name = n, !.table = t, !.ref = o]
                  \in ThreadStates
  <1> DEFINE R == Objects \cup {Null}
             N == Names \cup {Null}
             T == Tables \cup {Null}
             B == Backups \cup {Null}
             S == SUBSET Tables
  <1>1. /\ o \in R /\ Names \subseteq N /\ Tables \subseteq T /\ Tables \in S
        /\ ThreadStates = [pc : Locations, name : N, table : T, backup : B,
                            ref : R, todo : S]
    BY DEF ThreadStates
  <1> HIDE DEF R, N, T, B, S
  <1> QED BY <1>1

LEMMA ThreadType ==
  ASSUME TypeOK, ArgInv, NameInv, NEW c \in Clients, Begin(c) \/ Step(c)
  PROVE  thread' \in [Clients -> ThreadStates]
  <1>0. thread \in [Clients -> ThreadStates]
    BY DEF TypeOK
  <1>1. Idle \in ThreadStates
    BY DEF Idle, ThreadStates, Locations
  <1>2. ASSUME NEW n \in Names, CreateDataBase(c, n)
        PROVE  thread' \in [Clients -> ThreadStates]
    BY <1>2, <1>0
    DEF CreateDataBase, Command, Ask, Refuse, ThreadStates, Locations
  <1>3. ASSUME NEW n \in Names, Drop(c, n)
        PROVE  thread' \in [Clients -> ThreadStates]
    BY <1>3, <1>0 DEF Drop, Command, Refuse, ThreadStates, Locations
  <1>4. ASSUME NEW n \in Names, Attach(c, n)
        PROVE  thread' \in [Clients -> ThreadStates]
    BY <1>4, <1>0 DEF Attach
  <1>5. ASSUME NEW n \in Names, NEW b \in Backups, BackUp(c, n, b)
        PROVE  thread' \in [Clients -> ThreadStates]
    BY <1>5, <1>0 DEF BackUp, Refuse, ThreadStates, Locations
  <1>6. ASSUME NEW n \in Names, NEW b \in Backups, RestoreDatabase(c, b, n)
        PROVE  thread' \in [Clients -> ThreadStates]
    BY <1>6, <1>0 DEF RestoreDatabase, Refuse, ThreadStates, Locations
  <1>7. ASSUME NEW n \in Names, NEW t \in Tables, CreateTable(c, n, t)
        PROVE  thread' \in [Clients -> ThreadStates]
    <2>1. CASE n \notin DOMAIN nameBase
      BY <1>7, <1>0, <2>1 DEF CreateTable
    <2>2. CASE n \in DOMAIN nameBase
      <3>1. PICK o \in Objects \cup {Null} : o = bases[nameBase[n]]
        BY <2>2 DEF TypeOK
      <3>2. thread' = [thread EXCEPT ![c].pc = "check", ![c].name = n,
                                     ![c].table = t, ![c].ref = o]
        BY <1>7, <2>2, <3>1 DEF CreateTable
      <3> QED BY <1>0, <3>2, ThreadRecord DEF Locations
    <2> QED BY <2>1, <2>2
  <1>8. CASE Leave(c)
    BY <1>8, <1>0 DEF Leave
  <1>9. CASE Query(c)
    <2>1. session[c].id \in DOMAIN bases
      BY <1>9, QueryDoes
    <2>2. PICK o \in Objects \cup {Null} : o = bases[session[c].id]
      BY <2>1 DEF TypeOK
    <2>3. thread' = [thread EXCEPT ![c].pc = "use", ![c].ref = o]
      BY <1>9, <2>2 DEF Query
    <2> QED BY <1>0, <2>3, ThreadRecord DEF Locations
  <1>10. CASE OpenDataBase(c)
    <2>1. CASE Quiet
      BY <1>0, <2>1 DEF Quiet
    <2>2. CASE ~Quiet
      <3>1. thread[c].name \in Names /\ Loadable(thread[c].name)
        BY <1>10, <2>2, OpenDoes DEF ArgInv, Args, At
      <3>2. PICK n \in Names : n = thread[c].name
        BY <3>1
      <3>3. disk[n] \in Contents /\ made \in Nat
        BY <3>1, <3>2, LoadableType DEF TypeOK
      <3>4. PICK o \in Objects : o = Object(n, disk[n])
        BY <3>3, ObjectType
      <3>5. thread' = [thread EXCEPT ![c].ref = o, ![c].pc = "register"]
        BY <1>10, <2>2, <3>2, <3>4 DEF OpenDataBase, Terminate, Quiet
      <3> QED BY <1>0, <3>5, ThreadRecord DEF Locations
    <2> QED BY <2>1, <2>2
  <1>11. CASE Register(c)
    BY <1>11, <1>0, <1>1 DEF Register, Done
  <1>12. CASE CopyOut(c)
    <2>1. PICK x \in SUBSET Tables : thread' = [thread EXCEPT ![c].todo = x]
      <3>1. thread[c].todo \in SUBSET Tables
        BY <1>0 DEF ThreadStates
      <3> QED BY <1>12, <3>1 DEF CopyOut, Copied
    <2> QED BY <1>0, <2>1 DEF ThreadStates
  <1>13. CASE BackedUp(c)
    BY <1>13, <1>0, <1>1 DEF BackedUp, Terminate, Done
  <1>14. CASE RemoveStep(c)
    BY <1>14, <1>0 DEF RemoveStep
  <1>15. CASE Dropped(c)
    BY <1>15, <1>0, <1>1 DEF Dropped, Done
  <1>16. CASE Wiped(c)
    <2>1. Null \in Objects \cup {Null} /\ "copyIn" \in Locations
      BY DEF Locations
    <2> QED BY <1>16, <1>0, <2>1, ThreadRecord DEF Wiped
  <1>17. CASE CopyIn(c)
    <2>1. \/ \E x \in SUBSET Tables : thread' = [thread EXCEPT ![c].todo = x]
          \/ thread' = [thread EXCEPT ![c].pc = "construct"]
      <3>1. thread[c].todo \in SUBSET Tables
        BY <1>0 DEF ThreadStates
      <3> QED BY <1>17, <3>1 DEF CopyIn, Copied, Goto
    <2> QED BY <1>0, <2>1 DEF ThreadStates, Locations
  <1>18. CASE RestoreFails(c)
    BY <1>18, <1>0, <1>1 DEF RestoreFails, Terminate, Done
  <1>19. CASE Construct(c)
    BY <1>19, <1>0, <1>1 DEF Construct, Terminate, Done
  <1>20. CASE MakeTable(c)
    <2>1. \/ thread' = thread \/ Done(c)
          \/ thread' = [thread EXCEPT ![c].pc = "info"]
      BY <1>20, Zenon DEF MakeTable, Terminate, Goto
    <2>2. Done(c) => thread' \in [Clients -> ThreadStates]
      BY <1>0, <1>1 DEF Done
    <2> QED BY <1>0, <2>1, <2>2 DEF ThreadStates, Locations
  <1>21. CASE WriteInfo(c)
    BY <1>21, <1>0 DEF WriteInfo, Goto, ThreadStates, Locations
  <1>22. CASE OpenTable(c)
    BY <1>22, <1>0, <1>1 DEF OpenTable, Done
  <1>23. CASE Use(c)
    BY <1>23, <1>0, <1>1 DEF Use, Done
  <1>24. CASE UseDestroyed(c)
    BY <1>24, <1>0 DEF UseDestroyed, Terminate
  <1> QED
    BY <1>2, <1>3, <1>4, <1>5, <1>6, <1>7, <1>8, <1>9, <1>10, <1>11, <1>12,
       <1>13, <1>14, <1>15, <1>16, <1>17, <1>18, <1>19, <1>20, <1>21, <1>22,
       <1>23, <1>24, Zenon
    DEF Begin, Step

LEMMA SessionType ==
  ASSUME TypeOK, NameInv, NEW c \in Clients, Begin(c) \/ Step(c)
  PROVE  session' \in [Clients -> [joined : BOOLEAN, id : Nat,
                                   name : Names \cup {Null}]]
  <1> DEFINE R == [joined : BOOLEAN, id : Nat, name : Names \cup {Null}]
  <1>0. session \in [Clients -> R]
    BY DEF TypeOK
  <1>1. CASE UNCHANGED session
    BY <1>0, <1>1
  <1>2. ASSUME NEW n \in Names, Attach(c, n), ~UNCHANGED session
        PROVE  session' \in [Clients -> R]
    <2>1. n \in DOMAIN nameBase /\ nameBase[n] \in Nat
      BY <1>2 DEF Attach, TypeOK
    <2>2. PICK k \in Nat : k = nameBase[n]
      BY <2>1
    <2>3. [joined |-> TRUE, name |-> n, id |-> k] \in R
      BY Zenon
    <2>4. session' = [session EXCEPT ![c] = [joined |-> TRUE, name |-> n, id |-> k]]
      BY <1>2, <2>2 DEF Attach
    <2> HIDE DEF R
    <2> QED BY <1>0, <2>3, <2>4
  <1>3. CASE Leave(c)
    <2>1. session' = [session EXCEPT ![c] = [session[c] EXCEPT !.joined = FALSE]]
      BY <1>3 DEF Leave
    <2>2. [session[c] EXCEPT !.joined = FALSE] \in R
      BY <1>0
    <2>3. session' \in [Clients -> R]
      <3> HIDE DEF R
      <3> QED BY <1>0, <2>1, <2>2
    <2> QED BY <2>3
  <1>4. \/ UNCHANGED session \/ Leave(c) \/ \E n \in Names : Attach(c, n)
    BY ZenonT(30)
    DEF Begin, CreateDataBase, Drop, BackUp, RestoreDatabase, CreateTable,
        Query, Command, Step, OpenDataBase, Register, CopyOut, BackedUp,
        RemoveStep, Dropped, Wiped, CopyIn, RestoreFails, Construct,
        MakeTable, WriteInfo, OpenTable, Use, UseDestroyed, Terminate
  <1> QED BY <1>1, <1>2, <1>3, <1>4

LEMMA RunType ==
  ASSUME TypeOK, Next
  PROVE  left' \in Nat /\ starts' \in Nat /\ crashed' \in BOOLEAN
  <1>0. left \in Nat /\ starts \in Nat /\ crashed \in BOOLEAN
    BY DEF TypeOK
  <1>1. ASSUME NEW c \in Clients, Begin(c)
        PROVE  /\ left > 0 /\ left' = left - 1 /\ UNCHANGED starts
               /\ crashed' = crashed \/ crashed' = TRUE
    <2>1. left > 0 /\ left' = left - 1 /\ UNCHANGED starts
      BY <1>1, ZenonT(40)
      DEF Begin, CreateDataBase, Drop, Attach, BackUp, RestoreDatabase,
          CreateTable, Leave, Query, Command, Ask, Refuse
    <2>2. crashed' = crashed \/ crashed' = TRUE
      BY <1>1, ZenonT(40)
      DEF Begin, CreateDataBase, Drop, Attach, BackUp, RestoreDatabase,
          CreateTable, Leave, Query, Command, Ask, Refuse
    <2> QED BY <2>1, <2>2
  <1>2. ASSUME NEW c \in Clients, Step(c)
        PROVE  /\ UNCHANGED <<left, starts>>
               /\ crashed' = crashed \/ crashed' = TRUE
    <2>1. UNCHANGED <<left, starts>>
      BY <1>2, ZenonT(40)
      DEF Step, OpenDataBase, Register, CopyOut, BackedUp, RemoveStep, Dropped,
          Wiped, CopyIn, RestoreFails, Construct, MakeTable, WriteInfo,
          OpenTable, Use, UseDestroyed, Terminate, runVars
    <2>2. crashed' = crashed \/ crashed' = TRUE
      BY <1>2, ZenonT(40)
      DEF Step, OpenDataBase, Register, CopyOut, BackedUp, RemoveStep, Dropped,
          Wiped, CopyIn, RestoreFails, Construct, MakeTable, WriteInfo,
          OpenTable, Use, UseDestroyed, Terminate, runVars
    <2> QED BY <2>1, <2>2
  <1>3. CASE Restart
    <2>1. left' = left /\ starts' = starts + 1 /\ crashed' = FALSE
      BY <1>3 DEF Restart
    <2>2. crashed' \in BOOLEAN
      BY <2>1, Zenon
    <2>3. left' \in Nat /\ starts' \in Nat
      BY <1>0, <2>1
    <2> QED BY <2>2, <2>3
  <1>4. ASSUME NEW c \in Clients, Begin(c) \/ Step(c)
        PROVE  left' \in Nat /\ starts' \in Nat /\ crashed' \in BOOLEAN
    <2>1. /\ (left > 0 /\ left' = left - 1) \/ left' = left
          /\ starts' = starts
      BY <1>1, <1>2, <1>4, Zenon
    <2>2. left' \in Nat /\ starts' \in Nat
      BY <1>0, <2>1
    <2>3. crashed' = crashed \/ crashed' = TRUE
      BY <1>1, <1>2, <1>4, Zenon
    <2>4. crashed' \in BOOLEAN
      BY <1>0, <2>3, Zenon
    <2> QED BY <2>2, <2>4
  <1> QED BY <1>3, <1>4 DEF Next

DiskType ==
    /\ disk \in [Names -> Contents \cup {Null}]
    /\ backups \in [Backups -> Contents \cup {Null}]

LEMMA DiskStep ==
  ASSUME SystemInv, ~Quiet, NEW c \in Clients, Begin(c) \/ Step(c)
  PROVE  DiskType'
  <1>0. DiskType /\ TypeOK /\ ArgInv /\ DirInv /\ NameInv /\ GenInv /\ MakeInv
    BY DEF SystemInv, TypeOK, DiskType
  <1>1. NoTables \in Contents
    BY DEF NoTables, Contents, Stages
  <1>2. UNCHANGED diskVars => DiskType'
    BY <1>0 DEF DiskType, diskVars
  <1>3. ASSUME NEW n, NEW x \in Contents \cup {Null}, n \in Names,
               disk' = [disk EXCEPT ![n] = x], UNCHANGED backups
        PROVE  DiskType'
    BY <1>0, <1>3 DEF DiskType
  <1>4. ASSUME NEW b, NEW x \in Contents \cup {Null},
               backups' = [backups EXCEPT ![b] = x], UNCHANGED disk
        PROVE  DiskType'
    BY <1>0, <1>4 DEF DiskType
  <1>5. ASSUME NEW n \in Names, CreateDataBase(c, n) PROVE DiskType'
    BY <1>5, <1>0, <1>1, <1>3, CreateDoes
  <1>6. ASSUME NEW n \in Names, Drop(c, n) PROVE DiskType'
    BY <1>6, <1>0, <1>2, DropDoes
  <1>7. ASSUME NEW n \in Names, Attach(c, n) PROVE DiskType'
    BY <1>7, <1>0, <1>2, AttachDoes
  <1>8. ASSUME NEW n \in Names, NEW b \in Backups, BackUp(c, n, b)
        PROVE  DiskType'
    BY <1>8, <1>0, <1>1, <1>4, BackUpDoes
  <1>9. ASSUME NEW n \in Names, NEW b \in Backups, RestoreDatabase(c, b, n)
        PROVE  DiskType'
    BY <1>9, <1>0, <1>2, RestoreDoes
  <1>10. ASSUME NEW n \in Names, NEW t \in Tables, CreateTable(c, n, t)
         PROVE  DiskType'
    BY <1>10, <1>0, <1>2, CreateTableDoes
  <1>11. CASE Leave(c)
    BY <1>11, <1>0, <1>2, LeaveDoes
  <1>12. CASE Query(c)
    BY <1>12, <1>0, <1>2, QueryDoes
  <1>13. CASE OpenDataBase(c)
    BY <1>13, <1>0, <1>2, OpenDoes
  <1>14. CASE Register(c)
    BY <1>14, <1>0, <1>2, RegisterDoes
  <1>15. CASE CopyOut(c)
    <2>1. /\ At(c, "copyOut") /\ UNCHANGED disk
          /\ \E t \in thread[c].todo :
                backups' = [backups EXCEPT ![thread[c].backup] =
                               CopyStep(disk[thread[c].name],
                                        backups[thread[c].backup], t)]
      BY <1>15, <1>0, CopyOutDoes
    <2>2. PICK n, b : n = thread[c].name /\ b = thread[c].backup
      OBVIOUS
    <2>3. PICK t \in thread[c].todo :
            backups' = [backups EXCEPT ![b] = CopyStep(disk[n], backups[b], t)]
      BY <2>1, <2>2
    <2>4. /\ n \in Names /\ b \in Backups /\ t \in Tables
          /\ disk[n] # Null /\ backups[b] # Null
      BY <1>0, <2>1, <2>2 DEF ArgInv, Args, At, DirInv, TypeOK, ThreadStates
    <2>5. disk[n] \in Contents /\ backups[b] \in Contents
      BY <1>0, <2>4 DEF DiskType
    <2> QED BY <1>4, <2>1, <2>3, <2>4, <2>5, CopyStepType
  <1>16. CASE BackedUp(c)
    BY <1>16, <1>0, <1>2, <1>4, BackedUpDoes DEF diskVars
  <1>17. CASE RemoveStep(c)
    <2>1. /\ backups' \in [Backups -> Contents \cup {Null}]
          /\ \/ UNCHANGED disk
             \/ \E n \in Names, x \in Contents : disk' = [disk EXCEPT ![n] = x]
      BY <1>17, <1>0, RemoveStepDoes
    <2> QED BY <1>0, <2>1 DEF DiskType
  <1>18. CASE Dropped(c)
    <2>1. thread[c].name \in Names
      BY <1>18, <1>0, DroppedDoes DEF ArgInv, Args, At
    <2> QED BY <1>18, <1>0, <1>2, <1>3, <2>1, DroppedDoes DEF diskVars
  <1>19. CASE Wiped(c)
    <2>1. thread[c].name \in Names
      BY <1>19, <1>0, WipedDoes DEF ArgInv, Args, At
    <2> QED BY <1>19, <1>0, <1>1, <1>3, <2>1, WipedDoes
  <1>20. CASE CopyIn(c)
    <2>1. \/ UNCHANGED diskVars
          \/ \E n \in Names, x \in Contents :
                disk' = [disk EXCEPT ![n] = x] /\ UNCHANGED backups
      BY <1>20, <1>0, CopyInDoes DEF diskVars
    <2> QED BY <1>2, <1>3, <2>1
  <1>21. CASE RestoreFails(c)
    <2>1. thread[c].name \in Names
      BY <1>21, <1>0, RestoreFailsDoes DEF ArgInv, Args, At
    <2>2. /\ backups' \in [Backups -> Contents \cup {Null}]
          /\ \E n \in Names : disk' = [disk EXCEPT ![n] = Null]
      BY <1>21, <1>0, <2>1, RestoreFailsDoes
    <2> QED BY <1>0, <2>2 DEF DiskType
  <1>22. CASE Construct(c)
    BY <1>22, <1>0, <1>2, ConstructDoes
  <1>23. CASE MakeTable(c)
    <2>1. PICK n, t : n = thread[c].name /\ t = thread[c].table
      OBVIOUS
    <2>2. /\ n \in Names /\ t \in Tables /\ disk[n] \in Contents /\ UNCHANGED backups
          /\ disk' = disk \/ disk' = [disk EXCEPT ![n] = [disk[n] EXCEPT ![t] = "bad"]]
      BY <1>23, <1>0, <2>1, MakeTableDoes
    <2>3. [disk[n] EXCEPT ![t] = "bad"] \in Contents
      BY <2>2 DEF Contents, Stages
    <2> QED BY <1>2, <1>3, <2>2, <2>3 DEF diskVars
  <1>24. CASE WriteInfo(c)
    <2>1. PICK n, t : n = thread[c].name /\ t = thread[c].table
      OBVIOUS
    <2>2. /\ n \in Names /\ t \in Tables /\ disk[n] \in Contents /\ UNCHANGED backups
          /\ disk' = [disk EXCEPT ![n] = [disk[n] EXCEPT ![t] = "good"]]
      BY <1>24, <1>0, <2>1, WriteInfoDoes
    <2>3. [disk[n] EXCEPT ![t] = "good"] \in Contents
      BY <2>2 DEF Contents, Stages
    <2> QED BY <1>3, <2>2, <2>3
  <1>25. CASE OpenTable(c)
    BY <1>25, <1>0, <1>2, OpenTableDoes
  <1>26. CASE Use(c)
    BY <1>26, <1>0, <1>2, UseDoes
  <1>27. CASE UseDestroyed(c)
    BY <1>27 DEF UseDestroyed, Terminate, Quiet
  <1> QED
    BY <1>5, <1>6, <1>7, <1>8, <1>9, <1>10, <1>11, <1>12, <1>13, <1>14, <1>15,
       <1>16, <1>17, <1>18, <1>19, <1>20, <1>21, <1>22, <1>23, <1>24, <1>25,
       <1>26, <1>27, Zenon
    DEF Begin, Step

MemType ==
    /\ bases \in Seq(Objects \cup {Null})
    /\ DOMAIN nameBase \subseteq Names
    /\ \A n \in DOMAIN nameBase : nameBase[n] \in DOMAIN bases
    /\ made \in Nat /\ suspect \subseteq Names
    /\ excl \in Clients \cup {Nobody} /\ sharers \subseteq Clients

LEMMA MemStep ==
  ASSUME SystemInv, ~Quiet, NEW c \in Clients, Begin(c) \/ Step(c)
  PROVE  MemType'
  <1>0. MemType /\ TypeOK /\ ArgInv /\ DirInv /\ NameInv /\ GenInv /\ MakeInv
    BY DEF SystemInv, TypeOK, MemType
  <1>1. UNCHANGED <<memVars, lockVars>> => MemType'
    BY <1>0 DEF MemType, memVars, lockVars
  <1>2. ASSUME NEW n \in Names, NEW i \in DOMAIN bases \cup {NewId}, NEW o,
               Placed(i, o), nameBase' = Named(n, i)
        PROVE  /\ DOMAIN nameBase' \subseteq Names
               /\ \A m \in DOMAIN nameBase' : nameBase'[m] \in DOMAIN bases'
    <2>1. /\ DOMAIN nameBase' = DOMAIN nameBase \cup {n}
          /\ \A m \in DOMAIN nameBase : nameBase'[m] = nameBase[m]
          /\ n \notin DOMAIN nameBase => nameBase'[n] = i
      BY <1>2 DEF Named
    <2>2. DOMAIN bases' = DOMAIN bases \cup {i}
      BY <1>2 DEF Placed
    <2> QED BY <1>0, <2>1, <2>2 DEF MemType
  <1>3. ASSUME NEW n \in Names, CreateDataBase(c, n) PROVE MemType'
    BY <1>3, <1>0, <1>1, CreateDoes
  <1>4. ASSUME NEW n \in Names, Drop(c, n) PROVE MemType'
    <2>1. /\ DOMAIN nameBase' = DOMAIN nameBase \ {n}
          /\ \A m \in DOMAIN nameBase \ {n} : nameBase'[m] = nameBase[m]
          /\ DOMAIN bases' = DOMAIN bases \cup {nameBase[n]}
      BY <1>4, <1>0, DropDoes DEF Placed
    <2>2. /\ DOMAIN nameBase' \subseteq Names
          /\ \A m \in DOMAIN nameBase' : nameBase'[m] \in DOMAIN bases'
      BY <1>0, <2>1 DEF MemType
    <2> QED BY <1>4, <1>0, <2>2, DropDoes DEF MemType
  <1>5. ASSUME NEW n \in Names, Attach(c, n) PROVE MemType'
    BY <1>5, <1>0, <1>1, AttachDoes
  <1>6. ASSUME NEW n \in Names, NEW b \in Backups, BackUp(c, n, b)
        PROVE  MemType'
    BY <1>6, <1>0, BackUpDoes DEF MemType, memVars
  <1>7. ASSUME NEW n \in Names, NEW b \in Backups, RestoreDatabase(c, b, n)
        PROVE  MemType'
    BY <1>7, <1>0, RestoreDoes DEF MemType, Placed
  <1>8. ASSUME NEW n \in Names, NEW t \in Tables, CreateTable(c, n, t)
        PROVE  MemType'
    BY <1>8, <1>0, <1>1, CreateTableDoes
  <1>9. CASE Leave(c)
    BY <1>9, <1>0, <1>1, LeaveDoes
  <1>10. CASE Query(c)
    BY <1>10, <1>0, <1>1, QueryDoes
  <1>11. CASE OpenDataBase(c)
    BY <1>11, <1>0, OpenDoes DEF MemType, lockVars
  <1>12. CASE Register(c)
    <2>1. PICK n, i, o : n = thread[c].name /\ i = NewId /\ o = thread[c].ref
      OBVIOUS
    <2>2. n \in Names
      BY <1>12, <1>0, <2>1, RegisterDoes DEF ArgInv, Args, At
    <2>3. Placed(i, o) /\ nameBase' = Named(n, i)
      BY <1>12, <1>0, <2>1, RegisterDoes
    <2>4. /\ DOMAIN nameBase' \subseteq Names
          /\ \A m \in DOMAIN nameBase' : nameBase'[m] \in DOMAIN bases'
      BY <1>2, <2>1, <2>2, <2>3
    <2> QED BY <1>12, <1>0, <2>4, RegisterDoes DEF MemType, lockVars
  <1>13. CASE CopyOut(c)
    BY <1>13, <1>0, <1>1, CopyOutDoes
  <1>14. CASE BackedUp(c)
    BY <1>14, <1>0, BackedUpDoes DEF MemType, memVars
  <1>15. CASE RemoveStep(c)
    BY <1>15, <1>0, <1>1, RemoveStepDoes
  <1>16. CASE Dropped(c)
    BY <1>16, <1>0, DroppedDoes DEF MemType, memVars
  <1>17. CASE Wiped(c)
    BY <1>17, <1>0, <1>1, WipedDoes
  <1>18. CASE CopyIn(c)
    BY <1>18, <1>0, <1>1, CopyInDoes
  <1>19. CASE RestoreFails(c)
    <2>1. thread[c].name \in Names
      BY <1>19, <1>0, RestoreFailsDoes DEF ArgInv, Args, At
    <2> QED BY <1>19, <1>0, <2>1, RestoreFailsDoes DEF MemType
  <1>20. CASE Construct(c)
    <2>1. PICK n, i, o : /\ n = thread[c].name /\ i = IdOf(n)
                         /\ o = Object(n, disk[n])
      OBVIOUS
    <2>2. /\ n \in Names /\ i \in DOMAIN bases \cup {NewId}
          /\ Placed(i, o) /\ nameBase' = Named(n, i)
          /\ bases' \in Seq(Objects \cup {Null}) /\ made' = made + 1
          /\ suspect' \in {suspect \cup {n}, suspect \ {n}}
          /\ excl' = Nobody /\ UNCHANGED sharers
      BY <1>20, <1>0, <2>1, ConstructDoes
    <2>3. /\ DOMAIN nameBase' \subseteq Names
          /\ \A m \in DOMAIN nameBase' : nameBase'[m] \in DOMAIN bases'
      BY <1>2, <2>2
    <2>4. suspect' \subseteq Names /\ made' \in Nat
      BY <1>0, <2>2 DEF MemType
    <2> QED BY <1>0, <2>2, <2>3, <2>4 DEF MemType
  <1>21. CASE MakeTable(c)
    BY <1>21, <1>0, <1>1, MakeTableDoes
  <1>22. CASE WriteInfo(c)
    BY <1>22, <1>0, <1>1, WriteInfoDoes
  <1>23. CASE OpenTable(c)
    <2>1. PICK k, o : /\ k = nameBase[thread[c].name]
                      /\ o = Opened(bases[k], thread[c].table)
      OBVIOUS
    <2>2. /\ k \in DOMAIN bases /\ Placed(k, o)
          /\ bases' \in Seq(Objects \cup {Null})
          /\ UNCHANGED <<nameBase, made, suspect, lockVars>>
      BY <1>23, <1>0, <2>1, OpenTableDoes
    <2> QED BY <1>0, <2>2 DEF MemType, Placed, lockVars
  <1>24. CASE Use(c)
    BY <1>24, <1>0, <1>1, UseDoes
  <1>25. CASE UseDestroyed(c)
    BY <1>25 DEF UseDestroyed, Terminate, Quiet
  <1> QED
    BY <1>3, <1>4, <1>5, <1>6, <1>7, <1>8, <1>9, <1>10, <1>11, <1>12, <1>13,
       <1>14, <1>15, <1>16, <1>17, <1>18, <1>19, <1>20, <1>21, <1>22, <1>23,
       <1>24, <1>25, Zenon
    DEF Begin, Step

LEMMA TypeStep == SystemInv /\ [Next]_vars => TypeOK'
  <1> SUFFICES ASSUME SystemInv, [Next]_vars PROVE TypeOK'
    OBVIOUS
  <1>0. TypeOK /\ ArgInv /\ NameInv
    BY DEF SystemInv
  <1>1. CASE UNCHANGED vars
    BY <1>0, <1>1 DEF vars, diskVars, memVars, lockVars, runVars, TypeOK
  <1>2. ASSUME NEW c \in Clients, Begin(c) \/ Step(c), Next PROVE TypeOK'
    <2>1. thread' \in [Clients -> ThreadStates]
      BY <1>0, <1>2, ThreadType
    <2>2. session' \in [Clients -> [joined : BOOLEAN, id : Nat,
                                    name : Names \cup {Null}]]
      BY <1>0, <1>2, SessionType
    <2>3. left' \in Nat /\ starts' \in Nat /\ crashed' \in BOOLEAN
      BY <1>0, <1>2, RunType
    <2>4. DiskType' /\ MemType'
      <3>1. CASE Quiet
        BY <1>0, <3>1
        DEF Quiet, diskVars, memVars, lockVars, TypeOK, DiskType, MemType
      <3>2. CASE ~Quiet
        BY <1>2, <3>2, DiskStep, MemStep
      <3> QED BY <3>1, <3>2
    <2> QED BY <2>1, <2>2, <2>3, <2>4, Zenon DEF DiskType, MemType, TypeOK
  <1>3. CASE Restart
    <2>1. left' \in Nat /\ starts' \in Nat /\ crashed' \in BOOLEAN
      BY <1>0, <1>3, RunType DEF Next
    <2>2. DiskType' /\ MemType'
      <3>1. bases' \in Seq(Objects \cup {Null})
        BY <1>0, <1>3, RestartDoes
      <3> QED
        BY <1>0, <1>3, <3>1, RestartDoes
        DEF TypeOK, DiskType, MemType, diskVars
    <2>3. thread' \in [Clients -> ThreadStates]
      <3>1. Idle \in ThreadStates
        BY DEF Idle, ThreadStates, Locations
      <3> QED BY <1>0, <1>3, <3>1, RestartDoes
    <2>4. session' \in [Clients -> [joined : BOOLEAN, id : Nat,
                                    name : Names \cup {Null}]]
      <3>1. NoSession \in [joined : BOOLEAN, id : Nat, name : Names \cup {Null}]
        BY DEF NoSession
      <3> QED BY <1>0, <1>3, <3>1, RestartDoes
    <2> QED BY <2>1, <2>2, <2>3, <2>4, Zenon DEF DiskType, MemType, TypeOK
  <1> QED BY <1>1, <1>2, <1>3 DEF Next

LEMMA DirStep == SystemInv /\ [Next]_vars => DirInv'
  <1> SUFFICES ASSUME SystemInv, [Next]_vars PROVE DirInv'
    OBVIOUS
  <1>0. /\ TypeOK /\ ArgInv /\ LockInv /\ DirInv /\ GenInv /\ NameInv
        /\ MakeInv
    BY DEF SystemInv
  <1>1. CASE Quiet
    BY <1>0, <1>1
    DEF Quiet, diskVars, DirInv, At
  <1>2. ASSUME ~Quiet, NEW c \in Clients, Begin(c) \/ Step(c) PROVE DirInv'
    <2>1. \A d \in Clients \ {c} : thread'[d] = thread[d]
      BY <1>0, <1>2, Keeps
    <2> USE <1>2, <2>1 DEF DirInv, At
    <2>2. ASSUME UNCHANGED diskVars,
                 \/ thread'[c].pc \notin {"copyOut", "wipe", "copyIn", "construct"}
                 \/ thread' = thread
          PROVE  DirInv'
      BY <1>0, <2>2 DEF diskVars
    <2>3. thread[c].pc \in Exclusive =>
              \A d \in Clients \ {c} :
                 thread[d].pc \notin {"copyOut", "wipe", "copyIn", "construct"}
      BY <1>0, SystemAssumption DEF LockInv, Exclusive
    <2>4. NoTables # Null
      BY SystemAssumption DEF NoTables, Contents, Stages
    <2>5. DOMAIN disk = Names /\ DOMAIN backups = Backups
      BY <1>0 DEF TypeOK
    <2>6. ~At(c, "idle") /\ ~At(c, "use") => thread[c].name \in Names
      BY <1>0 DEF ArgInv, Args
    <2>7. ASSUME NEW n \in Names, CreateDataBase(c, n) PROVE DirInv'
      <3>1. \A m \in Names : disk[m] # Null => disk'[m] # Null
        BY <2>7, <1>0, <2>4, <2>5, CreateDoes
      <3>2. \A d \in Clients \ {c} : ~At(d, "idle") /\ ~At(d, "use") => thread[d].name \in Names
        BY <1>0 DEF ArgInv, Args
      <3> QED BY <2>7, <1>0, <3>1, <3>2, CreateDoes
    <2>8. ASSUME NEW n \in Names, Drop(c, n) PROVE DirInv'
      BY <2>8, <1>0, <2>2, DropDoes DEF diskVars
    <2>9. ASSUME NEW n \in Names, Attach(c, n) PROVE DirInv'
      BY <2>9, <1>0, <2>2, AttachDoes DEF diskVars
    <2>10. ASSUME NEW n \in Names, NEW b \in Backups, BackUp(c, n, b)
           PROVE  DirInv'
      <3>1. /\ backups[b] = Null /\ backups'[b] # Null /\ disk[n] # Null /\ UNCHANGED disk
            /\ \A x \in Backups : backups[x] # Null => backups'[x] = backups[x]
        <4>1. PICK x \in Contents : backups' = [backups EXCEPT ![b] = x]
          BY <2>10, <1>0, BackUpDoes
        <4>2. x # Null
          BY SystemAssumption
        <4> QED BY <2>10, <1>0, <2>5, <4>1, <4>2, BackUpDoes
      <3>2. At(c, "copyOut")' /\ thread'[c].name = n /\ thread'[c].backup = b
        BY <2>10, <1>0, BackUpDoes
      <3>3. \A d \in Clients : thread[d].pc \in {"copyOut", "wipe", "copyIn"} =>
               thread[d].backup \in Backups
        BY <1>0 DEF ArgInv, Args
      <3> QED BY <1>0, <3>1, <3>2, <3>3
    <2>11. ASSUME NEW n \in Names, NEW b \in Backups, RestoreDatabase(c, b, n)
           PROVE  DirInv'
      <3>1. At(c, "wipe")' /\ UNCHANGED diskVars
        BY <2>11, <1>0, RestoreDoes
      <3> QED BY <1>0, <3>1 DEF diskVars
    <2>12. ASSUME NEW n \in Names, NEW t \in Tables, CreateTable(c, n, t)
           PROVE  DirInv'
      BY <2>12, <1>0, <2>2, CreateTableDoes DEF diskVars
    <2>13. CASE Leave(c)
      BY <2>13, <1>0, <2>2, LeaveDoes DEF diskVars
    <2>14. CASE Query(c)
      BY <2>14, <1>0, <2>2, QueryDoes DEF diskVars
    <2>15. CASE OpenDataBase(c)
      BY <2>15, <1>0, <2>2, OpenDoes DEF diskVars
    <2>16. CASE Register(c)
      BY <2>16, <1>0, <2>2, RegisterDoes DEF diskVars, Idle
    <2>17. CASE CopyOut(c)
      <3>1. PICK b : b = thread[c].backup
        OBVIOUS
      <3>2. PICK t \in thread[c].todo :
              backups' = [backups EXCEPT ![b] =
                             CopyStep(disk[thread[c].name], backups[b], t)]
        BY <2>17, <1>0, <3>1, CopyOutDoes
      <3>3. /\ At(c, "copyOut") /\ At(c, "copyOut")' /\ SameArgs(c) /\ UNCHANGED disk
            /\ \A x \in Backups \ {b} : backups'[x] = backups[x]
        BY <2>17, <1>0, <2>5, <3>2, CopyOutDoes
      <3>4. /\ b \in Backups /\ thread[c].name \in Names /\ t \in Tables
            /\ disk[thread[c].name] \in Contents /\ backups[b] \in Contents
        BY <1>0, <3>1, <3>3 DEF ArgInv, Args, TypeOK, ThreadStates
      <3>5. PICK x, y \in Contents : x = disk[thread[c].name] /\ y = backups[b]
        BY <3>4
      <3>6. CopyStep(x, y, t) \in Contents
        BY <3>4, CopyStepType
      <3>7. backups'[b] # Null
        BY <2>5, <3>2, <3>4, <3>5, <3>6, SystemAssumption
      <3>8. \A d \in Clients : thread[d].pc \in {"copyOut", "wipe", "copyIn"} =>
               thread[d].backup \in Backups
        BY <1>0 DEF ArgInv, Args
      <3> QED BY <1>0, <3>1, <3>3, <3>7, <3>8 DEF SameArgs
    <2>18. CASE BackedUp(c)
      <3>1. /\ At(c, "copyOut") /\ thread'[c] = Idle /\ UNCHANGED disk
            /\ \A x \in Backups \ {thread[c].backup} : backups'[x] = backups[x]
        BY <2>18, <1>0, <2>5, BackedUpDoes
      <3>2. \A d \in Clients : thread[d].pc \notin Exclusive
        BY <1>0, <3>1, SystemAssumption DEF LockInv
      <3>3. \A d \in Clients : thread[d].pc \in {"copyOut", "wipe", "copyIn"} =>
               thread[d].backup \in Backups
        BY <1>0 DEF ArgInv, Args
      <3> QED BY <1>0, <3>1, <3>2, <3>3 DEF Idle, Exclusive
    <2>19. CASE RemoveStep(c)
      <3>1. thread[c].pc \in {"remove", "wipe"} /\ UNCHANGED thread
        BY <2>19, <1>0, RemoveStepDoes
      <3> QED BY <1>0, <2>3, <3>1 DEF Exclusive
    <2>20. CASE Dropped(c)
      <3>1. /\ At(c, "remove") /\ thread'[c] = Idle /\ UNCHANGED backups
        BY <2>20, <1>0, DroppedDoes
      <3> QED BY <1>0, <2>3, <3>1 DEF Exclusive, Idle
    <2>21. CASE Wiped(c)
      <3>1. /\ At(c, "wipe") /\ At(c, "copyIn")' /\ SameArgs(c) /\ UNCHANGED backups
            /\ disk' = [disk EXCEPT ![thread[c].name] = NoTables]
        BY <2>21, <1>0, WipedDoes
      <3> QED BY <1>0, <2>3, <2>4, <2>5, <2>6, <3>1 DEF Exclusive, SameArgs
    <2>22. CASE CopyIn(c)
      <3>1. /\ At(c, "copyIn") /\ thread'[c].pc \in {"copyIn", "construct"}
            /\ SameArgs(c) /\ thread[c].name \in Names /\ UNCHANGED backups
            /\ \/ disk' = disk
               \/ \E x \in Contents : disk' = [disk EXCEPT ![thread[c].name] = x]
        BY <2>22, <1>0, CopyInDoes
      <3>2. disk'[thread[c].name] # Null
        BY <1>0, <2>5, <3>1, SystemAssumption
      <3> QED BY <1>0, <2>3, <3>1, <3>2 DEF Exclusive, SameArgs
    <2>23. CASE RestoreFails(c)
      <3>1. thread[c].pc \in {"wipe", "copyIn"} /\ thread'[c] = Idle
        BY <2>23, <1>0, RestoreFailsDoes
      <3> QED BY <1>0, <2>3, <3>1 DEF Exclusive, Idle
    <2>24. CASE Construct(c)
      BY <2>24, <1>0, <2>2, ConstructDoes DEF diskVars, Idle
    <2>25. CASE MakeTable(c)
      <3>1. PICK n, t : n = thread[c].name /\ t = thread[c].table
        OBVIOUS
      <3>2. /\ thread'[c] = Idle \/ At(c, "info")'
            /\ UNCHANGED backups
            /\ n \in Names /\ t \in Tables /\ disk[n] \in Contents
            /\ disk' = disk \/ disk' = [disk EXCEPT ![n] = [disk[n] EXCEPT ![t] = "bad"]]
        BY <2>25, <1>0, <3>1, MakeTableDoes
      <3>3. [disk[n] EXCEPT ![t] = "bad"] # Null
        BY <3>2, SystemAssumption DEF Contents, Stages
      <3>4. \A m \in Names : disk[m] # Null => disk'[m] # Null
        BY <2>5, <3>2, <3>3
      <3>5. \A d \in Clients : ~At(d, "idle") /\ ~At(d, "use") => thread[d].name \in Names
        BY <1>0 DEF ArgInv, Args
      <3> QED BY <1>0, <3>2, <3>4, <3>5 DEF Idle
    <2>26. CASE WriteInfo(c)
      <3>1. PICK n, t : n = thread[c].name /\ t = thread[c].table
        OBVIOUS
      <3>2. /\ At(c, "openTable")' /\ UNCHANGED backups
            /\ n \in Names /\ t \in Tables /\ disk[n] \in Contents
            /\ disk' = [disk EXCEPT ![n] = [disk[n] EXCEPT ![t] = "good"]]
        BY <2>26, <1>0, <3>1, WriteInfoDoes
      <3>3. [disk[n] EXCEPT ![t] = "good"] # Null
        BY <3>2, SystemAssumption DEF Contents, Stages
      <3>4. \A m \in Names : disk[m] # Null => disk'[m] # Null
        BY <2>5, <3>2, <3>3
      <3>5. \A d \in Clients : ~At(d, "idle") /\ ~At(d, "use") => thread[d].name \in Names
        BY <1>0 DEF ArgInv, Args
      <3> QED BY <1>0, <3>2, <3>4, <3>5
    <2>27. CASE OpenTable(c)
      BY <2>27, <1>0, <2>2, OpenTableDoes DEF diskVars, Idle
    <2>28. CASE Use(c)
      BY <2>28, <1>0, <2>2, UseDoes DEF diskVars, Idle
    <2>29. CASE UseDestroyed(c)
      BY <2>29 DEF UseDestroyed, Terminate, Quiet
    <2> QED
      BY <2>7, <2>8, <2>9, <2>10, <2>11, <2>12, <2>13, <2>14, <2>15, <2>16,
         <2>17, <2>18, <2>19, <2>20, <2>21, <2>22, <2>23, <2>24, <2>25, <2>26,
         <2>27, <2>28, <2>29, Zenon
      DEF Begin, Step
  <1>3. CASE Restart
    BY <1>0, <1>3, RestartDoes DEF DirInv, At, Idle
  <1>4. CASE UNCHANGED vars
    BY <1>1, <1>4 DEF vars, Quiet
  <1> QED BY <1>1, <1>2, <1>3, <1>4 DEF Next

LEMMA GenStep == SystemInv /\ [Next]_vars => GenInv'
  <1> SUFFICES ASSUME SystemInv, [Next]_vars PROVE GenInv'
    OBVIOUS
  <1>0. /\ TypeOK /\ ArgInv /\ LockInv /\ DirInv /\ GenInv /\ NameInv
        /\ MakeInv
    BY DEF SystemInv
  <1>1. CASE Quiet
    BY <1>0, <1>1
    DEF Quiet, memVars, GenInv, At, Alive, Places
  <1>2. ASSUME ~Quiet, NEW c \in Clients, Begin(c) \/ Step(c) PROVE GenInv'
    <2>1. \A d \in Clients \ {c} : thread'[d] = thread[d]
      BY <1>0, <1>2, Keeps
    <2>2. made \in Nat
      BY <1>0 DEF TypeOK
    <2> USE <1>2, <2>1 DEF GenInv, At, Alive, Places
    <2>3. UNCHANGED <<bases, made, thread>> => GenInv'
      BY <1>0
    <2>4. \A d \in Clients : thread[d].pc = "register" => thread[d].ref # Null
      BY <1>0 DEF ArgInv, Args
    <2>5. ASSUME UNCHANGED <<bases, made>>, thread'[c].pc # "register",
                 thread[c].pc # "register",
                 thread'[c].ref \in {thread[c].ref, Null}
          PROVE  GenInv'
      BY <1>0, <2>5
    <2>6. ASSUME UNCHANGED <<bases, made>>, thread'[c].pc # "register",
                 NEW i \in DOMAIN bases, thread'[c].ref = bases[i]
          PROVE  GenInv'
      <3>1. \A d \in Clients \ {c} :
               thread[d].pc = "register" /\ bases[i] # Null =>
                   bases[i].gen # thread[d].ref.gen
        BY <1>0, <2>4
      <3> QED BY <1>0, <2>6, <3>1
    <2>7. ASSUME UNCHANGED made, thread'[c].pc # "register",
                 thread[c].pc # "register",
                 thread'[c].ref \in {thread[c].ref, Null},
                 NEW k \in DOMAIN bases, NEW o, Placed(k, o),
                 bases[k] # Null /\ o.gen = bases[k].gen
          PROVE  GenInv'
      BY <1>0, <2>7 DEF Placed
    <2>8. ASSUME UNCHANGED made, thread'[c].pc # "register",
                 thread[c].pc # "register", thread'[c].ref = thread[c].ref,
                 NEW k \in DOMAIN bases, Placed(k, Null)
          PROVE  GenInv'
      BY <1>0, <2>8 DEF Placed
    <2>9. ASSUME NEW n \in Names, CreateDataBase(c, n) PROVE GenInv'
      BY <2>9, <1>0, <2>5, CreateDoes DEF memVars
    <2>10. ASSUME NEW n \in Names, Drop(c, n) PROVE GenInv'
      <3>1. PICK k : k = nameBase[n]
        OBVIOUS
      <3>2. /\ k \in DOMAIN bases /\ Placed(k, Null) /\ UNCHANGED made
            /\ thread[c].pc = "idle" /\ thread'[c].pc = "remove"
            /\ thread'[c].ref = thread[c].ref
        BY <2>10, <1>0, <3>1, DropDoes DEF TypeOK
      <3> QED BY <2>8, <3>2
    <2>11. ASSUME NEW n \in Names, Attach(c, n) PROVE GenInv'
      BY <2>11, <1>0, <2>3, AttachDoes DEF memVars
    <2>12. ASSUME NEW n \in Names, NEW b \in Backups, BackUp(c, n, b)
           PROVE  GenInv'
      BY <2>12, <1>0, <2>5, BackUpDoes DEF memVars
    <2>13. ASSUME NEW n \in Names, NEW b \in Backups, RestoreDatabase(c, b, n)
           PROVE  GenInv'
      <3>1. PICK k : k = nameBase[n]
        OBVIOUS
      <3>2. /\ IF n \in DOMAIN nameBase THEN k \in DOMAIN bases /\ Placed(k, Null)
                                        ELSE UNCHANGED bases
            /\ thread[c].pc = "idle" /\ thread'[c].pc = "wipe" /\ UNCHANGED made
            /\ thread'[c].ref = thread[c].ref
        BY <2>13, <1>0, <3>1, RestoreDoes DEF TypeOK
      <3> QED BY <2>5, <2>8, <3>2
    <2>14. ASSUME NEW n \in Names, NEW t \in Tables, CreateTable(c, n, t)
           PROVE  GenInv'
      BY <2>14, <1>0, <2>6, CreateTableDoes DEF memVars
    <2>15. CASE Leave(c)
      BY <2>15, <1>0, <2>3, LeaveDoes DEF memVars
    <2>16. CASE Query(c)
      BY <2>16, <1>0, <2>6, QueryDoes DEF memVars
    <2>17. CASE OpenDataBase(c)
      <3>1. PICK n, o : n = thread[c].name /\ o = Object(n, disk[n])
        OBVIOUS
      <3>2. /\ thread'[c].pc = "register" /\ thread'[c].ref = o
            /\ made' = made + 1 /\ UNCHANGED bases
            /\ thread[c].pc = "open" /\ Loadable(n)
        BY <2>17, <1>0, <3>1, OpenDoes
      <3>3. n \in Names
        BY <1>0, <3>1, <3>2 DEF ArgInv, Args
      <3>4. disk[n] \in Contents
        BY <1>0, <3>2, <3>3, LoadableType
      <3>5. o.gen = made + 1 /\ o \in Objects
        BY <2>2, <3>1, <3>3, <3>4, ObjectType
      <3>6. /\ \A i \in DOMAIN bases : bases[i] # Null => bases[i].gen \in Nat
            /\ \A d \in Clients : thread[d].ref # Null => thread[d].ref.gen \in Nat
        BY <1>0 DEF TypeOK, ThreadStates, Objects
      <3>7. /\ \A i \in DOMAIN bases : bases[i] # Null =>
                  bases[i].gen # o.gen /\ bases[i].gen <= made'
            /\ \A d \in Clients : thread[d].ref # Null =>
                  thread[d].ref.gen # o.gen /\ thread[d].ref.gen <= made'
            /\ o.gen <= made'
        BY <1>0, <2>2, <3>2, <3>5, <3>6
      <3>8. /\ ~Alive(thread[c].ref)'
            /\ \A d \in Clients \ {c} : thread'[d].ref # Null =>
                  thread'[d].ref.gen # thread'[c].ref.gen
        BY <3>2, <3>7
      <3>9. ASSUME NEW d \in Clients \ {c}, At(d, "register")'
            PROVE  /\ ~Alive(thread[d].ref)'
                   /\ \A e \in Clients \ {d} : thread'[e].ref # Null =>
                         thread'[e].ref.gen # thread'[d].ref.gen
        BY <1>0, <2>4, <3>2, <3>7, <3>9
      <3>10. /\ \A i \in DOMAIN bases' : bases'[i] # Null => bases'[i].gen <= made'
             /\ \A d \in Clients : thread'[d].ref # Null => thread'[d].ref.gen <= made'
        BY <3>2, <3>7
      <3> QED BY <1>0, <3>2, <3>8, <3>9, <3>10
    <2>18. CASE Register(c)
      <3>1. PICK k, o : k = NewId /\ o = thread[c].ref
        OBVIOUS
      <3>2. /\ thread[c].pc = "register" /\ thread'[c] = Idle /\ Placed(k, o)
            /\ UNCHANGED made /\ k \notin DOMAIN bases
        BY <2>18, <1>0, <3>1, RegisterDoes, NewIdIsNew
      <3>3. o # Null
        BY <1>0, <3>1, <3>2 DEF ArgInv, Args
      <3>4. /\ o.gen <= made
            /\ \A i \in DOMAIN bases : bases[i] # Null => bases[i].gen # o.gen
            /\ \A d \in Clients \ {c} : thread[d].ref # Null => thread[d].ref.gen # o.gen
        BY <1>0, <3>1, <3>2, <3>3
      <3>5. thread'[c].pc # "register" /\ thread'[c].ref = Null
        BY <3>2 DEF Idle
      <3> QED BY <1>0, <3>2, <3>3, <3>4, <3>5 DEF Placed
    <2>19. CASE CopyOut(c)
      BY <2>19, <1>0, <2>5, CopyOutDoes DEF memVars, SameArgs
    <2>20. CASE BackedUp(c)
      BY <2>20, <1>0, <2>5, BackedUpDoes DEF memVars, Idle
    <2>21. CASE RemoveStep(c)
      BY <2>21, <1>0, <2>3, RemoveStepDoes DEF memVars
    <2>22. CASE Dropped(c)
      BY <2>22, <1>0, <2>5, DroppedDoes DEF memVars, Idle
    <2>23. CASE Wiped(c)
      BY <2>23, <1>0, <2>5, WipedDoes DEF memVars, SameArgs
    <2>24. CASE CopyIn(c)
      BY <2>24, <1>0, <2>5, CopyInDoes DEF memVars, SameArgs
    <2>25. CASE RestoreFails(c)
      BY <2>25, <1>0, <2>5, RestoreFailsDoes DEF memVars, Idle
    <2>26. CASE Construct(c)
      <3>1. PICK n, k, o : /\ n = thread[c].name /\ k = IdOf(n)
                           /\ o = Object(n, disk[n])
        OBVIOUS
      <3>2. /\ thread[c].pc = "construct" /\ thread'[c] = Idle /\ Placed(k, o)
            /\ made' = made + 1 /\ n \in Names /\ disk[n] \in Contents
        BY <2>26, <1>0, <3>1, ConstructDoes
      <3>3. o.gen = made + 1 /\ o \in Objects
        BY <2>2, <3>1, <3>2, ObjectType
      <3>4. /\ \A i \in DOMAIN bases : bases[i] # Null => bases[i].gen \in Nat
            /\ \A d \in Clients : thread[d].ref # Null => thread[d].ref.gen \in Nat
        BY <1>0 DEF TypeOK, ThreadStates, Objects
      <3>5. /\ \A i \in DOMAIN bases : bases[i] # Null =>
                  bases[i].gen # o.gen /\ bases[i].gen <= made'
            /\ \A d \in Clients : thread[d].ref # Null =>
                  thread[d].ref.gen # o.gen /\ thread[d].ref.gen <= made'
            /\ o.gen <= made'
        BY <1>0, <2>2, <3>2, <3>3, <3>4
      <3>6. thread'[c].pc # "register" /\ thread'[c].ref = Null
        BY <3>2 DEF Idle
      <3> QED BY <1>0, <3>2, <3>5, <3>6 DEF Placed
    <2>27. CASE MakeTable(c)
      <3>1. /\ thread[c].pc = "check" /\ UNCHANGED <<bases, made>>
            /\ thread'[c] = Idle \/ (At(c, "info")' /\ SameArgs(c))
        BY <2>27, <1>0, MakeTableDoes DEF memVars
      <3>2. thread'[c] = Idle => thread'[c].pc # "register" /\ thread'[c].ref = Null
        BY DEF Idle
      <3> QED BY <2>5, <3>1, <3>2 DEF SameArgs
    <2>28. CASE WriteInfo(c)
      BY <2>28, <1>0, <2>5, WriteInfoDoes DEF memVars, SameArgs
    <2>29. CASE OpenTable(c)
      <3>1. PICK k, t, o : /\ k = nameBase[thread[c].name] /\ t = thread[c].table
                           /\ o = Opened(bases[k], t)
        OBVIOUS
      <3>2. /\ thread[c].pc = "openTable" /\ thread'[c] = Idle /\ Placed(k, o)
            /\ UNCHANGED made /\ k \in DOMAIN bases /\ bases[k] \in Objects
            /\ t \in Tables
        BY <2>29, <1>0, <3>1, OpenTableDoes
      <3>3. o.gen = bases[k].gen /\ bases[k] # Null
        BY <3>1, <3>2, OpenedType, SystemAssumption
      <3>4. thread'[c].pc # "register" /\ thread'[c].ref = Null
        BY <3>2 DEF Idle
      <3> QED BY <2>7, <3>2, <3>3, <3>4
    <2>30. CASE Use(c)
      BY <2>30, <1>0, <2>5, UseDoes DEF memVars, Idle
    <2>31. CASE UseDestroyed(c)
      BY <2>31 DEF UseDestroyed, Terminate, Quiet
    <2> QED
      BY <2>9, <2>10, <2>11, <2>12, <2>13, <2>14, <2>15, <2>16, <2>17, <2>18,
         <2>19, <2>20, <2>21, <2>22, <2>23, <2>24, <2>25, <2>26, <2>27, <2>28,
         <2>29, <2>30, <2>31, Zenon
      DEF Begin, Step
  <1>3. CASE Restart
    <2>1. made \in Nat
      BY <1>0 DEF TypeOK
    <2>2. /\ \A i \in DOMAIN bases' : /\ i \in Nat /\ bases'[i].gen = made + i
                                     /\ made + i <= made'
          /\ thread' = [c \in Clients |-> Idle]
      BY <1>0, <1>3, RestartDoes
    <2>3. \A i, j \in DOMAIN bases' : bases'[i].gen = bases'[j].gen => i = j
      BY <2>1, <2>2
    <2> QED BY <2>2, <2>3 DEF GenInv, At, Idle
  <1>4. CASE UNCHANGED vars
    BY <1>1, <1>4 DEF vars, Quiet
  <1> QED BY <1>1, <1>2, <1>3, <1>4 DEF Next

LEMMA NameStep == SystemInv /\ [Next]_vars => NameInv'
  <1> SUFFICES ASSUME SystemInv, [Next]_vars PROVE NameInv'
    OBVIOUS
  <1>0. /\ TypeOK /\ ArgInv /\ LockInv /\ DirInv /\ GenInv /\ NameInv
        /\ MakeInv
    BY DEF SystemInv
  <1>1. CASE Quiet
    BY <1>0, <1>1
    DEF Quiet, memVars, NameInv, At, Alive, Places, Held
  <1>2. ASSUME ~Quiet, NEW c \in Clients, Begin(c) \/ Step(c) PROVE NameInv'
    <2>1. \A d \in Clients \ {c} : /\ thread'[d] = thread[d]
                                   /\ session'[d] = session[d]
      BY <1>0, <1>2, Keeps
    <2> USE <1>2, <2>1 DEF NameInv, At, Alive, Places, Restoring, Held
    <2>2. ASSUME UNCHANGED <<bases, nameBase, session>>,
                 thread'[c].pc \notin Restoring \cup Held \cup {"remove"}
          PROVE  NameInv'
      BY <1>0, <2>2
    <2>3. ASSUME UNCHANGED <<bases, nameBase, session>>, SameArgs(c),
                 \/ thread[c].pc \in Restoring /\ thread'[c].pc \in Restoring
                 \/ thread[c].pc \in Held /\ thread'[c].pc \in Held
          PROVE  NameInv'
      BY <1>0, <2>3 DEF SameArgs
    <2>4. thread'[c] = Idle => thread'[c].pc \notin Restoring \cup Held \cup {"remove"}
      BY DEF Idle
    <2>5. excl = Nobody => \A d \in Clients : thread[d].pc \notin Restoring \cup {"remove"}
      BY <1>0, SystemAssumption DEF LockInv, Exclusive
    <2>6. thread[c].pc \in Exclusive =>
             \A d \in Clients \ {c} : thread[d].pc \notin Restoring \cup {"remove"}
      BY <1>0 DEF LockInv, Exclusive
    <2>7. ASSUME NEW n \in Names, CreateDataBase(c, n) PROVE NameInv'
      BY <2>7, <1>0, <2>2, CreateDoes DEF memVars
    <2>8. ASSUME NEW n \in Names, Drop(c, n) PROVE NameInv'
      <3>1. PICK k : k = nameBase[n]
        OBVIOUS
      <3>2. /\ excl = Nobody /\ At(c, "remove")' /\ thread'[c].name = n
            /\ n \in DOMAIN nameBase /\ Placed(k, Null) /\ k \in DOMAIN bases
            /\ DOMAIN nameBase' = DOMAIN nameBase \ {n}
            /\ \A m \in DOMAIN nameBase \ {n} : nameBase'[m] = nameBase[m]
            /\ UNCHANGED session
        BY <2>8, <1>0, <3>1, DropDoes DEF TypeOK
      <3>3. DOMAIN bases' = DOMAIN bases
        BY <3>2 DEF Placed
      <3>4. ASSUME NEW d \in Clients \ {c}, thread[d].pc \in Held, Alive(thread[d].ref)'
            PROVE  /\ thread[d].name \in DOMAIN nameBase'
                   /\ nameBase'[thread[d].name] \in Places(thread[d].ref)'
        <4>1. Alive(thread[d].ref)
          BY <3>2, <3>3, <3>4 DEF Placed
        <4>2. PICK p \in DOMAIN nameBase, i \in DOMAIN bases :
                /\ p = thread[d].name /\ i = nameBase[p]
                /\ bases[i] # Null /\ bases[i].gen = thread[d].ref.gen
          BY <1>0, <3>4, <4>1
        <4>3. i # k
          BY <1>0, <3>2, <3>3, <3>4, <4>2 DEF Placed, GenInv
        <4>4. p # n
          BY <3>1, <4>2, <4>3
        <4> QED BY <3>2, <3>3, <3>4, <4>2, <4>3, <4>4 DEF Placed
      <3> QED BY <1>0, <2>5, <3>2, <3>3, <3>4
    <2>9. ASSUME NEW n \in Names, Attach(c, n) PROVE NameInv'
      <3>1. session'[c].id \in DOMAIN bases /\ UNCHANGED <<bases, nameBase, thread>>
        <4>1. /\ session'[c] = [joined |-> TRUE, name |-> n, id |-> nameBase[n]]
              /\ n \in DOMAIN nameBase /\ UNCHANGED <<bases, nameBase, thread>>
          BY <2>9, <1>0, AttachDoes DEF memVars
        <4>2. session'[c].id = nameBase[n]
          BY <4>1
        <4>3. nameBase[n] \in DOMAIN bases
          BY <1>0, <4>1 DEF TypeOK
        <4> QED BY <4>1, <4>2, <4>3
      <3> QED BY <1>0, <3>1
    <2>10. ASSUME NEW n \in Names, NEW b \in Backups, BackUp(c, n, b)
           PROVE  NameInv'
      BY <2>10, <1>0, <2>2, BackUpDoes DEF memVars
    <2>11. ASSUME NEW n \in Names, NEW b \in Backups, RestoreDatabase(c, b, n)
           PROVE  NameInv'
      <3>1. PICK k : k = nameBase[n]
        OBVIOUS
      <3>2. /\ excl = Nobody /\ At(c, "wipe")' /\ thread'[c].name = n
            /\ IF n \in DOMAIN nameBase THEN k \in DOMAIN bases /\ Placed(k, Null)
                                        ELSE UNCHANGED bases
            /\ UNCHANGED <<nameBase, session>>
        BY <2>11, <1>0, <3>1, RestoreDoes DEF TypeOK
      <3>3. DOMAIN bases' = DOMAIN bases
        BY <3>2 DEF Placed
      <3>4. ASSUME NEW d \in Clients \ {c}, thread[d].pc \in Held, Alive(thread[d].ref)'
            PROVE  /\ thread[d].name \in DOMAIN nameBase'
                   /\ nameBase'[thread[d].name] \in Places(thread[d].ref)'
        <4>1. Alive(thread[d].ref)
          BY <3>2, <3>3, <3>4 DEF Placed
        <4>2. PICK p \in DOMAIN nameBase, i \in DOMAIN bases :
                /\ p = thread[d].name /\ i = nameBase[p]
                /\ bases[i] # Null /\ bases[i].gen = thread[d].ref.gen
          BY <1>0, <3>4, <4>1
        <4>3. n \in DOMAIN nameBase => i # k
          BY <1>0, <3>2, <3>3, <3>4, <4>2 DEF Placed, GenInv
        <4> QED BY <3>2, <3>3, <3>4, <4>2, <4>3 DEF Placed
      <3>5. n \in DOMAIN nameBase => bases'[k] = Null
        BY <3>2 DEF Placed
      <3> QED BY <1>0, <2>5, <3>1, <3>2, <3>3, <3>4, <3>5
    <2>12. ASSUME NEW n \in Names, NEW t \in Tables, CreateTable(c, n, t)
           PROVE  NameInv'
      <3>1. /\ thread'[c].pc = "check" /\ thread'[c].name = n
            /\ n \in DOMAIN nameBase /\ nameBase[n] \in DOMAIN bases
            /\ thread'[c].ref = bases[nameBase[n]]
            /\ UNCHANGED <<bases, nameBase, session>>
        BY <2>12, <1>0, CreateTableDoes DEF memVars
      <3> QED BY <1>0, <3>1
    <2>13. CASE Leave(c)
      <3>1. ~session'[c].joined /\ UNCHANGED <<bases, nameBase, thread>>
        BY <2>13, <1>0, LeaveDoes, Zenon DEF memVars
      <3> QED BY <1>0, <3>1
    <2>14. CASE Query(c)
      BY <2>14, <1>0, <2>2, QueryDoes DEF memVars
    <2>15. CASE OpenDataBase(c)
      BY <2>15, <1>0, <2>2, OpenDoes DEF memVars
    <2>16. CASE Register(c)
      <3>1. PICK n, k, o : n = thread[c].name /\ k = NewId /\ o = thread[c].ref
        OBVIOUS
      <3>2. /\ excl = Nobody /\ thread'[c] = Idle /\ thread[c].pc = "register"
            /\ Placed(k, o) /\ k \notin DOMAIN bases
            /\ nameBase' = Named(n, k) /\ UNCHANGED session
        BY <2>16, <1>0, <3>1, RegisterDoes, NewIdIsNew
      <3>3. /\ DOMAIN nameBase' = DOMAIN nameBase \cup {n}
            /\ \A m \in DOMAIN nameBase : nameBase'[m] = nameBase[m]
            /\ n \notin DOMAIN nameBase => nameBase'[n] = k
        BY <3>2 DEF Named
      <3>4. \A m \in DOMAIN nameBase : nameBase[m] \in DOMAIN bases
        BY <1>0 DEF TypeOK
      <3>5. \A m, p \in DOMAIN nameBase' : nameBase'[m] = nameBase'[p] => m = p
        BY <1>0, <3>2, <3>3, <3>4
      <3>6. ASSUME NEW d \in Clients \ {c}, thread[d].pc \in Held, Alive(thread[d].ref)'
            PROVE  /\ thread[d].name \in DOMAIN nameBase'
                   /\ nameBase'[thread[d].name] \in Places(thread[d].ref)'
        <4>1. thread[d].ref # Null /\ thread[d].ref.gen # o.gen
          BY <1>0, <3>1, <3>2, <3>6 DEF GenInv
        <4>2. Alive(thread[d].ref)
          BY <3>2, <3>6, <4>1 DEF Placed
        <4>3. PICK p \in DOMAIN nameBase, i \in DOMAIN bases :
                /\ p = thread[d].name /\ i = nameBase[p]
                /\ bases[i] # Null /\ bases[i].gen = thread[d].ref.gen
          BY <1>0, <3>6, <4>2
        <4> QED BY <3>2, <3>3, <4>1, <4>3 DEF Placed
      <3>7. \A d \in Clients : session'[d].joined => session'[d].id \in DOMAIN bases'
        BY <1>0, <3>2 DEF Placed
      <3> QED BY <2>4, <2>5, <3>2, <3>5, <3>6, <3>7
    <2>17. CASE CopyOut(c)
      BY <2>17, <1>0, <2>2, CopyOutDoes DEF memVars
    <2>18. CASE BackedUp(c)
      BY <2>18, <1>0, <2>2, <2>4, BackedUpDoes DEF memVars
    <2>19. CASE RemoveStep(c)
      BY <2>19, <1>0, RemoveStepDoes DEF memVars
    <2>20. CASE Dropped(c)
      BY <2>20, <1>0, <2>2, <2>4, DroppedDoes DEF memVars
    <2>21. CASE Wiped(c)
      BY <2>21, <1>0, <2>3, WipedDoes DEF memVars
    <2>22. CASE CopyIn(c)
      BY <2>22, <1>0, <2>3, CopyInDoes DEF memVars
    <2>23. CASE RestoreFails(c)
      BY <2>23, <1>0, <2>2, <2>4, RestoreFailsDoes DEF memVars
    <2>24. CASE Construct(c)
      <3>1. PICK n, k, o : /\ n = thread[c].name /\ k = IdOf(n)
                           /\ o = Object(n, disk[n])
        OBVIOUS
      <3>2. /\ thread[c].pc = "construct" /\ thread'[c] = Idle /\ Placed(k, o)
            /\ nameBase' = Named(n, k) /\ UNCHANGED session
            /\ n \in Names /\ disk[n] \in Contents
        BY <2>24, <1>0, <3>1, ConstructDoes
      <3>3. /\ DOMAIN nameBase' = DOMAIN nameBase \cup {n}
            /\ \A m \in DOMAIN nameBase : nameBase'[m] = nameBase[m]
            /\ n \notin DOMAIN nameBase => nameBase'[n] = k
        BY <3>2 DEF Named
      <3>4. \A m \in DOMAIN nameBase : nameBase[m] \in DOMAIN bases
        BY <1>0 DEF TypeOK
      <3>5. /\ n \notin DOMAIN nameBase => k \notin DOMAIN bases
            /\ n \in DOMAIN nameBase => k = nameBase[n]
        BY <1>0, <3>1, NewIdIsNew DEF IdOf
      <3>6. \A m, p \in DOMAIN nameBase' : nameBase'[m] = nameBase'[p] => m = p
        BY <1>0, <3>3, <3>4, <3>5
      <3>7. k \in DOMAIN bases => bases[k] = Null
        BY <1>0, <3>1, <3>2, <3>5
      <3>8. ASSUME NEW d \in Clients \ {c}, thread[d].pc \in Held, Alive(thread[d].ref)'
            PROVE  /\ thread[d].name \in DOMAIN nameBase'
                   /\ nameBase'[thread[d].name] \in Places(thread[d].ref)'
        <4>1. made \in Nat
          BY <1>0 DEF TypeOK
        <4>2. o.gen = made + 1
          BY <3>1, <3>2, <4>1, ObjectType
        <4>3. thread[d].ref # Null /\ thread[d].ref.gen # o.gen
          <5>1. thread[d].ref # Null
            BY <3>8
          <5>2. thread[d].ref.gen \in Nat /\ thread[d].ref.gen <= made
            BY <1>0, <5>1 DEF GenInv, TypeOK, ThreadStates, Objects
          <5> QED BY <4>1, <4>2, <5>1, <5>2
        <4>4. Alive(thread[d].ref)
          BY <3>2, <3>8, <4>3 DEF Placed
        <4>5. PICK p \in DOMAIN nameBase, i \in DOMAIN bases :
                /\ p = thread[d].name /\ i = nameBase[p]
                /\ bases[i] # Null /\ bases[i].gen = thread[d].ref.gen
          BY <1>0, <3>8, <4>4
        <4> QED BY <3>2, <3>3, <3>7, <4>3, <4>5 DEF Placed
      <3>9. \A d \in Clients : session'[d].joined => session'[d].id \in DOMAIN bases'
        BY <1>0, <3>2 DEF Placed
      <3>10. thread[c].pc \in Exclusive
        BY <3>2 DEF Exclusive
      <3> QED BY <2>4, <2>6, <3>2, <3>6, <3>8, <3>9, <3>10
    <2>25. CASE MakeTable(c)
      <3>1. /\ thread[c].pc = "check" /\ UNCHANGED <<bases, nameBase, session>>
            /\ thread'[c] = Idle \/ (At(c, "info")' /\ SameArgs(c))
        BY <2>25, <1>0, MakeTableDoes DEF memVars
      <3> QED BY <2>2, <2>3, <2>4, <3>1
    <2>26. CASE WriteInfo(c)
      BY <2>26, <1>0, <2>3, WriteInfoDoes DEF memVars
    <2>27. CASE OpenTable(c)
      <3>1. PICK k, t, o : /\ k = nameBase[thread[c].name] /\ t = thread[c].table
                           /\ o = Opened(bases[k], t)
        OBVIOUS
      <3>2. /\ thread[c].pc = "openTable" /\ thread'[c] = Idle /\ Placed(k, o)
            /\ UNCHANGED <<nameBase, session>> /\ k \in DOMAIN bases
            /\ bases[k] \in Objects /\ t \in Tables
        BY <2>27, <1>0, <3>1, OpenTableDoes
      <3>3. /\ o.gen = bases[k].gen /\ bases[k] # Null /\ o # Null
            /\ DOMAIN bases' = DOMAIN bases
        <4>1. o.gen = bases[k].gen /\ o \in Objects
          BY <3>1, <3>2, OpenedType
        <4>2. DOMAIN bases' = DOMAIN bases
          BY <3>2 DEF Placed
        <4> QED BY <3>2, <4>1, <4>2, SystemAssumption
      <3>4. \A i \in DOMAIN bases : /\ bases'[i] = Null <=> bases[i] = Null
                                    /\ bases[i] # Null => bases'[i].gen = bases[i].gen
        BY <3>2, <3>3 DEF Placed
      <3>5. \A m \in DOMAIN nameBase : nameBase[m] \in DOMAIN bases
        BY <1>0 DEF TypeOK
      <3> QED BY <1>0, <2>4, <3>2, <3>3, <3>4, <3>5
    <2>28. CASE Use(c)
      BY <2>28, <1>0, <2>2, <2>4, UseDoes DEF memVars
    <2>29. CASE UseDestroyed(c)
      BY <2>29 DEF UseDestroyed, Terminate, Quiet
    <2> QED
      BY <2>7, <2>8, <2>9, <2>10, <2>11, <2>12, <2>13, <2>14, <2>15, <2>16,
         <2>17, <2>18, <2>19, <2>20, <2>21, <2>22, <2>23, <2>24, <2>25, <2>26,
         <2>27, <2>28, <2>29, Zenon
      DEF Begin, Step
  <1>3. CASE Restart
    <2>1. /\ \A n \in DOMAIN nameBase' : bases'[nameBase'[n]].name = n
          /\ thread' = [c \in Clients |-> Idle]
          /\ session' = [c \in Clients |-> NoSession]
      BY <1>0, <1>3, RestartDoes
    <2>2. \A m, n \in DOMAIN nameBase' : nameBase'[m] = nameBase'[n] => m = n
      BY <2>1
    <2> QED BY <2>1, <2>2 DEF NameInv, At, Idle, NoSession, Restoring, Held
  <1>4. CASE UNCHANGED vars
    BY <1>1, <1>4 DEF vars, Quiet
  <1> QED BY <1>1, <1>2, <1>3, <1>4 DEF Next

LEMMA MakeStep == SystemInv /\ [Next]_vars => MakeInv'
  <1> SUFFICES ASSUME SystemInv, [Next]_vars PROVE MakeInv'
    OBVIOUS
  <1>0. /\ TypeOK /\ ArgInv /\ LockInv /\ DirInv /\ GenInv /\ NameInv
        /\ MakeInv
    BY DEF SystemInv
  <1>1. CASE Quiet
    BY <1>0, <1>1
    DEF Quiet, memVars, diskVars, MakeInv, Maker, At, Alive, Places
  <1>2. ASSUME ~Quiet, NEW c \in Clients, Begin(c) \/ Step(c) PROVE MakeInv'
    <2>1. /\ \A d \in Clients \ {c} : thread'[d] = thread[d]
          /\ NameInv'
      BY <1>0, <1>2, Keeps, NameStep DEF Next
    <2>2. \A d \in Clients : Maker(d) =>
             /\ thread[d].name \in DOMAIN nameBase /\ thread[d].name \in Names
             /\ nameBase[thread[d].name] \in Places(thread[d].ref)
             /\ nameBase[thread[d].name] \in DOMAIN bases
             /\ bases[nameBase[thread[d].name]] # Null
             /\ thread[d].table \in Tables
      BY <1>0 DEF NameInv, Places, Maker, Making, Held, ArgInv, Args, At
    <2>3. thread[c].pc \in Exclusive => \A d \in Clients \ {c} : Maker(d) =>
             thread[d].name # thread[c].name
      BY <1>0, <2>2 DEF NameInv, Exclusive, Restoring, At
    <2> USE <1>2
    <2>4. thread'[c] = Idle => thread'[c].pc \notin Making
      BY DEF Idle, Making
    <2>5. ASSUME UNCHANGED <<bases, nameBase>>, thread'[c].pc \notin Making,
                 \A d \in Clients \ {c} : Maker(d) =>
                     disk'[thread[d].name] = disk[thread[d].name]
          PROVE  MakeInv'
      <3>1. ~Maker(c)'
        BY <2>5 DEF Maker
      <3>2. \A d \in Clients \ {c} : Maker(d)' <=> Maker(d)
        BY <2>1, <2>5 DEF Maker, Alive, Places
      <3> QED BY <1>0, <2>1, <2>5, <3>1, <3>2 DEF MakeInv, At
    <2>6. ASSUME NEW k, NEW o, Placed(k, o), UNCHANGED disk,
                 thread'[c].pc \notin Making,
                 o = Null \/ \A d \in Clients \ {c} :
                    thread[d].pc \in Held /\ thread[d].ref # Null => thread[d].ref.gen # o.gen,
                 \A m \in DOMAIN nameBase' :
                    m \in DOMAIN nameBase => nameBase'[m] = nameBase[m]
          PROVE  MakeInv'
      <3>1. ~Maker(c)'
        BY <2>6 DEF Maker
      <3>2. ASSUME NEW d \in Clients \ {c}, Maker(d)'
            PROVE  /\ Maker(d)
                   /\ nameBase'[thread[d].name] = nameBase[thread[d].name]
                   /\ bases'[nameBase[thread[d].name]]
                         = bases[nameBase[thread[d].name]]
        <4>1. PICK j \in DOMAIN bases' :
                /\ bases'[j] # Null /\ bases'[j].gen = thread[d].ref.gen
                /\ thread[d].ref # Null /\ thread[d].pc \in Making
          BY <2>1, <3>2 DEF Maker, Alive, Places
        <4>2. \A i \in DOMAIN bases' :
                 bases'[i] # Null /\ bases'[i].gen = thread[d].ref.gen =>
                    i # k /\ i \in DOMAIN bases /\ bases'[i] = bases[i]
          BY <2>6, <4>1 DEF Placed, Held, Making
        <4>3. Maker(d)
          BY <4>1, <4>2 DEF Maker, Alive, Places
        <4>4. /\ thread[d].name \in DOMAIN nameBase'
              /\ nameBase'[thread[d].name] \in Places(thread[d].ref)'
          BY <2>1, <3>2 DEF NameInv, Maker, Making, Held
        <4>5. nameBase'[thread[d].name] = nameBase[thread[d].name]
          BY <2>2, <2>6, <4>3, <4>4
        <4> QED BY <2>1, <4>2, <4>3, <4>4, <4>5 DEF Places
      <3> QED BY <1>0, <2>1, <2>6, <3>1, <3>2 DEF MakeInv, At
    <2>7. ASSUME NEW n \in Names, CreateDataBase(c, n) PROVE MakeInv'
      <3>1. /\ disk[n] = Null /\ disk' = [disk EXCEPT ![n] = NoTables]
            /\ UNCHANGED <<bases, nameBase>> /\ At(c, "open")'
        BY <2>7, <1>0, CreateDoes DEF memVars
      <3>2. \A d \in Clients : Maker(d) => thread[d].name # n
        BY <1>0, <3>1 DEF MakeInv
      <3>3. \A d \in Clients : Maker(d) =>
               disk'[thread[d].name] = disk[thread[d].name]
        BY <1>0, <2>2, <3>1, <3>2 DEF TypeOK
      <3> QED BY <2>5, <3>1, <3>3 DEF At, Making
    <2>8. ASSUME NEW n \in Names, Drop(c, n) PROVE MakeInv'
      <3>1. PICK k : k = nameBase[n]
        OBVIOUS
      <3>2. /\ At(c, "remove")' /\ Placed(k, Null) /\ UNCHANGED disk
            /\ DOMAIN nameBase' = DOMAIN nameBase \ {n}
            /\ \A m \in DOMAIN nameBase \ {n} : nameBase'[m] = nameBase[m]
        BY <2>8, <1>0, <3>1, DropDoes DEF diskVars
      <3> QED BY <2>6, <3>2 DEF At, Making
    <2>9. ASSUME NEW n \in Names, Attach(c, n) PROVE MakeInv'
      <3>1. UNCHANGED <<disk, bases, nameBase, thread>>
        BY <2>9, <1>0, AttachDoes DEF memVars, diskVars
      <3> QED BY <1>0, <3>1 DEF MakeInv, Maker, At, Alive, Places
    <2>10. ASSUME NEW n \in Names, NEW b \in Backups, BackUp(c, n, b)
           PROVE  MakeInv'
      BY <2>10, <1>0, <2>5, BackUpDoes DEF memVars, Making, At
    <2>11. ASSUME NEW n \in Names, NEW b \in Backups, RestoreDatabase(c, b, n)
           PROVE  MakeInv'
      <3>1. PICK k : k = nameBase[n]
        OBVIOUS
      <3>2. /\ thread'[c].pc \notin Making /\ UNCHANGED <<disk, nameBase>>
            /\ Placed(k, Null) \/ UNCHANGED bases
        BY <2>11, <1>0, <3>1, RestoreDoes DEF diskVars, At, Making
      <3> QED BY <2>5, <2>6, <3>2
    <2>12. ASSUME NEW n \in Names, NEW t \in Tables, CreateTable(c, n, t)
           PROVE  MakeInv'
      BY <2>12, <1>0, <2>5, CreateTableDoes DEF memVars, diskVars, Making, At
    <2>13. CASE Leave(c)
      <3>1. UNCHANGED <<disk, bases, nameBase, thread>>
        BY <2>13, <1>0, LeaveDoes DEF memVars, diskVars
      <3> QED BY <1>0, <3>1 DEF MakeInv, Maker, At, Alive, Places
    <2>14. CASE Query(c)
      BY <2>14, <1>0, <2>5, QueryDoes DEF memVars, diskVars, Making, At
    <2>15. CASE OpenDataBase(c)
      BY <2>15, <1>0, <2>5, OpenDoes DEF diskVars, Making, At
    <2>16. CASE Register(c)
      <3>1. PICK k, o : k = NewId /\ o = thread[c].ref
        OBVIOUS
      <3>2. /\ thread[c].pc = "register" /\ thread'[c].pc \notin Making
            /\ Placed(k, o) /\ UNCHANGED disk
            /\ nameBase' = Named(thread[c].name, k)
        BY <2>16, <1>0, <2>4, <3>1, RegisterDoes DEF diskVars, At
      <3>3. \A m \in DOMAIN nameBase : nameBase'[m] = nameBase[m]
        BY <3>2 DEF Named
      <3>4. \A d \in Clients \ {c} : thread[d].ref # Null => thread[d].ref.gen # o.gen
        BY <1>0, <3>1, <3>2 DEF GenInv, At
      <3> QED BY <2>6, <3>2, <3>3, <3>4
    <2>17. CASE CopyOut(c)
      BY <2>17, <1>0, <2>5, CopyOutDoes DEF memVars, Making, At
    <2>18. CASE BackedUp(c)
      BY <2>18, <1>0, <2>4, <2>5, BackedUpDoes DEF memVars, diskVars
    <2>19. CASE RemoveStep(c)
      <3>1. /\ thread[c].pc \in Exclusive /\ thread'[c].pc \notin Making
            /\ UNCHANGED <<bases, nameBase>>
        BY <2>19, <1>0, <2>4, RemoveStepDoes DEF memVars, Exclusive, At, Making
      <3>2. \/ disk' = disk
            \/ \E x : disk' = [disk EXCEPT ![thread[c].name] = x]
        BY <2>19, <1>0, RemoveStepDoes
      <3>3. \A d \in Clients \ {c} : Maker(d) =>
               disk'[thread[d].name] = disk[thread[d].name]
        BY <1>0, <2>2, <2>3, <3>1, <3>2 DEF TypeOK
      <3> QED BY <2>5, <3>1, <3>3
    <2>20. CASE Dropped(c)
      <3>1. /\ thread[c].pc \in Exclusive /\ thread'[c].pc \notin Making
            /\ UNCHANGED <<bases, nameBase>>
        BY <2>20, <1>0, <2>4, DroppedDoes DEF memVars, Exclusive, At, Making
      <3>2. \/ disk' = disk
            \/ \E x : disk' = [disk EXCEPT ![thread[c].name] = x]
        BY <2>20, <1>0, DroppedDoes
      <3>3. \A d \in Clients \ {c} : Maker(d) =>
               disk'[thread[d].name] = disk[thread[d].name]
        BY <1>0, <2>2, <2>3, <3>1, <3>2 DEF TypeOK
      <3> QED BY <2>5, <3>1, <3>3
    <2>21. CASE Wiped(c)
      <3>1. /\ thread[c].pc \in Exclusive /\ thread'[c].pc \notin Making
            /\ UNCHANGED <<bases, nameBase>>
        BY <2>21, <1>0, <2>4, WipedDoes DEF memVars, Exclusive, At, Making
      <3>2. \/ disk' = disk
            \/ \E x : disk' = [disk EXCEPT ![thread[c].name] = x]
        BY <2>21, <1>0, WipedDoes
      <3>3. \A d \in Clients \ {c} : Maker(d) =>
               disk'[thread[d].name] = disk[thread[d].name]
        BY <1>0, <2>2, <2>3, <3>1, <3>2 DEF TypeOK
      <3> QED BY <2>5, <3>1, <3>3
    <2>22. CASE CopyIn(c)
      <3>1. /\ thread[c].pc \in Exclusive /\ thread'[c].pc \notin Making
            /\ UNCHANGED <<bases, nameBase>>
        BY <2>22, <1>0, <2>4, CopyInDoes DEF memVars, Exclusive, At, Making
      <3>2. \/ disk' = disk
            \/ \E x : disk' = [disk EXCEPT ![thread[c].name] = x]
        BY <2>22, <1>0, CopyInDoes
      <3>3. \A d \in Clients \ {c} : Maker(d) =>
               disk'[thread[d].name] = disk[thread[d].name]
        BY <1>0, <2>2, <2>3, <3>1, <3>2 DEF TypeOK
      <3> QED BY <2>5, <3>1, <3>3
    <2>23. CASE RestoreFails(c)
      <3>1. /\ thread[c].pc \in Exclusive /\ thread'[c].pc \notin Making
            /\ UNCHANGED <<bases, nameBase>>
        BY <2>23, <1>0, <2>4, RestoreFailsDoes
        DEF memVars, Exclusive, At, Making
      <3>2. \/ disk' = disk
            \/ \E x : disk' = [disk EXCEPT ![thread[c].name] = x]
        BY <2>23, <1>0, RestoreFailsDoes
      <3>3. \A d \in Clients \ {c} : Maker(d) =>
               disk'[thread[d].name] = disk[thread[d].name]
        BY <1>0, <2>2, <2>3, <3>1, <3>2 DEF TypeOK
      <3> QED BY <2>5, <3>1, <3>3
    <2>24. CASE Construct(c)
      <3>1. PICK n, k, o : /\ n = thread[c].name /\ k = IdOf(n)
                           /\ o = Object(n, disk[n])
        OBVIOUS
      <3>2. /\ thread'[c].pc \notin Making /\ Placed(k, o) /\ UNCHANGED disk
            /\ nameBase' = Named(n, k) /\ n \in Names /\ disk[n] \in Contents
        BY <2>24, <1>0, <2>4, <3>1, ConstructDoes DEF diskVars
      <3>3. \A m \in DOMAIN nameBase : nameBase'[m] = nameBase[m]
        BY <3>2 DEF Named
      <3>4. made \in Nat
        BY <1>0 DEF TypeOK
      <3>5. o.gen = made + 1
        BY <3>1, <3>2, <3>4, ObjectType
      <3>6. \A d \in Clients : thread[d].ref # Null =>
               thread[d].ref.gen \in Nat /\ thread[d].ref.gen <= made
        BY <1>0 DEF GenInv, TypeOK, ThreadStates, Objects
      <3>7. \A d \in Clients : thread[d].ref # Null => thread[d].ref.gen # o.gen
        BY <3>4, <3>5, <3>6
      <3> QED BY <2>6, <3>2, <3>3, <3>7
    <2>25. CASE MakeTable(c)
      <3>1. PICK n, t : n = thread[c].name /\ t = thread[c].table
        OBVIOUS
      <3>2. /\ At(c, "check") /\ n \in Names /\ t \in Tables /\ Alive(thread[c].ref)
            /\ disk[n] \in Contents /\ disk[n] # Null /\ UNCHANGED <<bases, nameBase>>
            /\ \/ thread'[c] = Idle /\ UNCHANGED disk
               \/ /\ At(c, "info")' /\ SameArgs(c)
                  /\ ~(bases[nameBase[n]].open[t] > 0) /\ disk[n][t] = "absent"
                  /\ disk' = [disk EXCEPT ![n] = [disk[n] EXCEPT ![t] = "bad"]]
        BY <2>25, <1>0, <3>1, MakeTableDoes DEF memVars
      <3>3. CASE thread'[c] = Idle /\ UNCHANGED disk
        BY <2>4, <2>5, <3>2, <3>3
      <3>4. CASE /\ At(c, "info")' /\ SameArgs(c)
                 /\ ~(bases[nameBase[n]].open[t] > 0) /\ disk[n][t] = "absent"
                 /\ disk' = [disk EXCEPT ![n] = [disk[n] EXCEPT ![t] = "bad"]]
        <4>1. \A d \in Clients \ {c} : Maker(d)' <=> Maker(d)
          BY <2>1, <3>2 DEF Maker, Alive, Places
        <4>2. ~Maker(c)
          BY <3>2 DEF Maker, At, Making
        <4>3. bases[nameBase[n]].open[t] = 0
          <5>1. bases[nameBase[n]] \in Objects
            BY <1>0, <3>1, <3>2, HeldPlace DEF At, Held
          <5>2. bases[nameBase[n]].open[t] \in Nat
            BY <3>2, <5>1 DEF Objects
          <5> QED BY <3>4, <5>2
        <4>4. /\ disk'[n] = [disk[n] EXCEPT ![t] = "bad"] /\ disk'[n] # Null
              /\ disk'[n][t] = "bad"
              /\ \A u \in Tables \ {t} : disk'[n][u] = disk[n][u]
              /\ \A m \in Names \ {n} : disk'[m] = disk[m]
          <5>1. disk'[n] = [disk[n] EXCEPT ![t] = "bad"]
            BY <1>0, <3>2, <3>4 DEF TypeOK
          <5>2. [disk[n] EXCEPT ![t] = "bad"] \in Contents
            BY <3>2 DEF Contents, Stages
          <5>3. \A m \in Names \ {n} : disk'[m] = disk[m]
            BY <1>0, <3>2, <3>4 DEF TypeOK
          <5>4. /\ disk'[n][t] = "bad"
                /\ \A u \in Tables \ {t} : disk'[n][u] = disk[n][u]
            BY <3>2, <5>1 DEF Contents
          <5> QED BY <5>1, <5>2, <5>3, <5>4, SystemAssumption
        <4>5. \A d \in Clients \ {c} : Maker(d) =>
                 ~(thread[d].name = n /\ thread[d].table = t)
          BY <1>0, <3>4 DEF MakeInv
        <4>6. ASSUME NEW d \in Clients \ {c}, Maker(d)
              PROVE  /\ disk'[thread[d].name] # Null
                     /\ disk'[thread[d].name][thread[d].table]
                           = disk[thread[d].name][thread[d].table]
          BY <1>0, <2>2, <4>4, <4>5, <4>6 DEF MakeInv
        <4>7. thread'[c].name = n /\ thread'[c].table = t
          BY <3>1, <3>4 DEF SameArgs
        <4>8. \A d, e \in Clients :
                 /\ Maker(d)' /\ Maker(e)' /\ thread'[d].name = thread'[e].name
                 /\ thread'[d].table = thread'[e].table
                 => d = e
          BY <1>0, <2>1, <4>1, <4>5, <4>7 DEF MakeInv
        <4>9. ASSUME NEW d \in Clients, Maker(d)'
              PROVE  /\ disk'[thread'[d].name] # Null
                     /\ disk'[thread'[d].name][thread'[d].table]
                           = IF At(d, "info")' THEN "bad" ELSE "good"
                     /\ bases'[nameBase'[thread'[d].name]].open[thread'[d].table] = 0
          <5>1. CASE d = c
            BY <3>2, <3>4, <4>3, <4>4, <4>7, <5>1
          <5>2. CASE d # c
            BY <1>0, <2>1, <3>2, <4>1, <4>6, <4>9, <5>2 DEF MakeInv, At
          <5> QED BY <5>1, <5>2
        <4> QED BY <4>8, <4>9 DEF MakeInv
      <3> QED BY <3>2, <3>3, <3>4
    <2>26. CASE WriteInfo(c)
      <3>1. PICK n, t : n = thread[c].name /\ t = thread[c].table
        OBVIOUS
      <3>2. /\ Maker(c) /\ At(c, "openTable")' /\ SameArgs(c) /\ UNCHANGED <<bases, nameBase>>
            /\ n \in Names /\ t \in Tables /\ disk[n] \in Contents
            /\ disk' = [disk EXCEPT ![n] = [disk[n] EXCEPT ![t] = "good"]]
        BY <2>26, <1>0, <3>1, WriteInfoDoes DEF memVars
      <3>3. \A d \in Clients \ {c} : Maker(d)' <=> Maker(d)
        BY <2>1, <3>2 DEF Maker, Alive, Places
      <3>4. /\ disk'[n] # Null /\ disk'[n][t] = "good"
            /\ \A u \in Tables \ {t} : disk'[n][u] = disk[n][u]
            /\ \A m \in Names \ {n} : disk'[m] = disk[m]
        <4>1. disk'[n] = [disk[n] EXCEPT ![t] = "good"]
          BY <1>0, <3>2 DEF TypeOK
        <4>2. [disk[n] EXCEPT ![t] = "good"] \in Contents
          BY <3>2 DEF Contents, Stages
        <4>3. \A m \in Names \ {n} : disk'[m] = disk[m]
          BY <1>0, <3>2 DEF TypeOK
        <4>4. /\ disk'[n][t] = "good"
              /\ \A u \in Tables \ {t} : disk'[n][u] = disk[n][u]
          BY <3>2, <4>1 DEF Contents
        <4> QED BY <4>1, <4>2, <4>3, <4>4, SystemAssumption
      <3>5. \A d \in Clients \ {c} : Maker(d) =>
               ~(thread[d].name = n /\ thread[d].table = t)
        BY <1>0, <3>1, <3>2 DEF MakeInv
      <3>6. ASSUME NEW d \in Clients \ {c}, Maker(d)
            PROVE  /\ disk'[thread[d].name] # Null
                   /\ disk'[thread[d].name][thread[d].table]
                         = disk[thread[d].name][thread[d].table]
        BY <1>0, <2>2, <3>4, <3>5, <3>6 DEF MakeInv
      <3>7. thread'[c].name = n /\ thread'[c].table = t
        BY <3>1, <3>2 DEF SameArgs
      <3>8. \A d, e \in Clients :
               /\ Maker(d)' /\ Maker(e)' /\ thread'[d].name = thread'[e].name
               /\ thread'[d].table = thread'[e].table
               => d = e
        BY <1>0, <2>1, <3>3, <3>5, <3>7 DEF MakeInv
      <3>9. ASSUME NEW d \in Clients, Maker(d)'
            PROVE  /\ disk'[thread'[d].name] # Null
                   /\ disk'[thread'[d].name][thread'[d].table]
                         = IF At(d, "info")' THEN "bad" ELSE "good"
                   /\ bases'[nameBase'[thread'[d].name]].open[thread'[d].table] = 0
        <4>1. CASE d = c
          <5>1. bases[nameBase[n]].open[t] = 0
            BY <1>0, <3>1, <3>2 DEF MakeInv
          <5>2. ~At(c, "info")'
            BY <3>2 DEF At
          <5> QED BY <3>2, <3>4, <3>7, <4>1, <5>1, <5>2
        <4>2. CASE d # c
          BY <1>0, <2>1, <3>2, <3>3, <3>6, <3>9, <4>2 DEF MakeInv, At
        <4> QED BY <4>1, <4>2
      <3> QED BY <3>8, <3>9 DEF MakeInv
    <2>27. CASE OpenTable(c)
      <3>1. PICK n, k, t, o : /\ n = thread[c].name /\ k = nameBase[n]
                              /\ t = thread[c].table /\ o = Opened(bases[k], t)
        OBVIOUS
      <3>2. /\ Maker(c) /\ thread'[c].pc \notin Making /\ Placed(k, o)
            /\ UNCHANGED <<disk, nameBase>> /\ n \in DOMAIN nameBase
            /\ k \in DOMAIN bases /\ bases[k] \in Objects /\ t \in Tables
        BY <2>27, <1>0, <2>4, <3>1, OpenTableDoes DEF diskVars
      <3>3. /\ o \in Objects /\ o.gen = bases[k].gen /\ bases[k] # Null
            /\ \A u \in Tables \ {t} : o.open[u] = bases[k].open[u]
        BY <3>1, <3>2, OpenedType, SystemAssumption
      <3>4. \A d \in Clients \ {c} : Maker(d)' => Maker(d)
        BY <2>1, <3>2, <3>3 DEF Maker, Alive, Places, Placed
      <3>5. ~Maker(c)'
        BY <3>2 DEF Maker
      <3>6. ASSUME NEW d \in Clients \ {c}, Maker(d)
            PROVE  bases'[nameBase[thread[d].name]].open[thread[d].table]
                     = bases[nameBase[thread[d].name]].open[thread[d].table]
        <4>1. CASE thread[d].name = n
          <5>1. thread[d].table # t
            BY <1>0, <3>1, <3>2, <3>6, <4>1 DEF MakeInv
          <5> QED BY <2>2, <3>1, <3>2, <3>3, <3>6, <4>1, <5>1 DEF Placed
        <4>2. CASE thread[d].name # n
          <5>1. nameBase[thread[d].name] # k
            BY <1>0, <2>2, <3>1, <3>2, <3>6, <4>2 DEF NameInv
          <5> QED BY <2>2, <3>2, <3>6, <5>1 DEF Placed
        <4> QED BY <4>1, <4>2
      <3> QED BY <1>0, <2>1, <3>2, <3>4, <3>5, <3>6 DEF MakeInv, At
    <2>28. CASE Use(c)
      BY <2>28, <1>0, <2>4, <2>5, UseDoes DEF memVars, diskVars
    <2>29. CASE UseDestroyed(c)
      BY <2>29 DEF UseDestroyed, Terminate, Quiet
    <2> QED
      BY <2>7, <2>8, <2>9, <2>10, <2>11, <2>12, <2>13, <2>14, <2>15, <2>16,
         <2>17, <2>18, <2>19, <2>20, <2>21, <2>22, <2>23, <2>24, <2>25, <2>26,
         <2>27, <2>28, <2>29, Zenon
      DEF Begin, Step
  <1>3. CASE Restart
    <2>1. thread' = [c \in Clients |-> Idle]
      BY <1>0, <1>3, RestartDoes
    <2> QED BY <2>1 DEF MakeInv, Maker, Idle, Making
  <1>4. CASE UNCHANGED vars
    BY <1>1, <1>4 DEF vars, Quiet
  <1> QED BY <1>1, <1>2, <1>3, <1>4 DEF Next

LEMMA SystemInit == Init => SystemInv
  <1> SUFFICES ASSUME Init PROVE SystemInv
    OBVIOUS
  <1> DEFINE o == [name |-> Default, gen |-> 1, open |-> [t \in Tables |-> 0]]
  <1>1. o \in Objects /\ o.gen = 1
    BY SystemAssumption DEF Objects
  <1>2. bases = <<o>> /\ made = 1
    BY DEF Init, FirstStart
  <1> HIDE DEF o
  <1>3. /\ bases \in Seq(Objects \cup {Null}) /\ DOMAIN bases = {1}
        /\ bases[1] = o
    BY <1>1, <1>2
  <1>4. /\ \A c \in Clients : thread[c] = Idle /\ ~session[c].joined
        /\ DOMAIN nameBase = {Default} /\ nameBase[Default] = 1
        /\ sharers = {} /\ excl = Nobody
    BY DEF Init, FirstStart, NoSession
  <1>5. ArgInv /\ DirInv /\ MakeInv
    <2>1. \A c \in Clients : thread[c].pc = "idle"
      BY <1>4 DEF Idle
    <2> QED
      BY <1>4, <2>1 DEF ArgInv, Args, DirInv, MakeInv, Maker, Making, Held, At
  <1>6. LockInv /\ NameInv
    BY <1>4, SystemAssumption
    DEF LockInv, NameInv, Exclusive, Restoring, Held, At, Idle
  <1>7. GenInv
    BY <1>1, <1>2, <1>3, <1>4 DEF GenInv, At, Idle
  <1>8. DiskType
    <2>1. NoTables \in Contents
      BY DEF NoTables, Contents, Stages
    <2> QED BY <2>1 DEF Init, FirstStart, DiskType
  <1>9. MemType
    BY <1>2, <1>3, <1>4, SystemAssumption DEF Init, MemType
  <1>10. thread \in [Clients -> ThreadStates]
    <2>1. Idle \in ThreadStates
      BY DEF Idle, ThreadStates, Locations
    <2> QED BY <2>1 DEF Init
  <1>11. session \in [Clients -> [joined : BOOLEAN, id : Nat,
                                 name : Names \cup {Null}]]
    <2>1. NoSession \in [joined : BOOLEAN, id : Nat, name : Names \cup {Null}]
      BY DEF NoSession
    <2> QED BY <2>1 DEF Init
  <1>12. left \in Nat /\ starts \in Nat
    BY SystemAssumption DEF Init
  <1>13. crashed \in BOOLEAN
    BY Zenon DEF Init
  <1>14. TypeOK
    BY <1>8, <1>9, <1>10, <1>11, <1>12, <1>13, Zenon
    DEF DiskType, MemType, TypeOK
  <1> QED BY <1>5, <1>6, <1>7, <1>14 DEF SystemInv

LEMMA SystemStep == SystemInv /\ [Next]_vars => SystemInv'
  BY TypeStep, ArgStep, LockStep, DirStep, GenStep, NameStep, MakeStep
  DEF SystemInv

LEMMA SystemAlways == Spec => []SystemInv
  BY SystemInit, SystemStep, PTL DEF Spec

(***************************************************************************)
(* Every variable of the server has its type: no command reads a directory *)
(* that is gone, and none uses an id beyond bases.                         *)
(***************************************************************************)
THEOREM SystemTypeCorrect == Spec => []TypeOK
  <1>1. SystemInv => TypeOK
    BY DEF SystemInv
  <1> QED BY <1>1, SystemAlways, PTL

-----------------------------------------------------------------------------
(***************************************************************************)
(* Only a drop of the directory of the backups, or a restore that names it *)
(* as its database, changes a complete backup, whatever clients do at the  *)
(* same time: else the only writer of a backup is the one that made its    *)
(* directory (system.h 124-168, 170-262).                                  *)
(***************************************************************************)
THEOREM BackupsStay == Spec => BackupsKept
  <1>1. ASSUME SystemInv, [Next]_vars, NEW b \in Backups, Complete(b),
               ~BackupsGoing
        PROVE  backups'[b] = backups[b]
    <2>0. /\ TypeOK /\ ArgInv /\ LockInv /\ DirInv /\ GenInv /\ NameInv /\ MakeInv
          /\ b \in DOMAIN backups
      BY <1>1 DEF SystemInv, TypeOK
    <2>1. CASE UNCHANGED backups
      BY <2>1
    <2>2. ASSUME ~UNCHANGED backups, NEW c \in Clients, Begin(c) \/ Step(c)
          PROVE  backups'[b] = backups[b]
      <3>1. ~Quiet
        BY <2>2 DEF Quiet, diskVars
      <3>2. ASSUME NEW n \in Names, NEW a \in Backups, BackUp(c, n, a)
            PROVE  backups'[b] = backups[b]
        BY <1>1, <2>0, <3>1, <3>2, BackUpDoes DEF Complete
      <3>3. CASE CopyOut(c)
        BY <1>1, <2>0, <3>3, CopyOutDoes DEF Complete
      <3>4. CASE BackedUp(c)
        BY <1>1, <2>0, <3>1, <3>4, BackedUpDoes DEF Complete
      <3>5. CASE RemoveStep(c)
        BY <1>1, <2>0, <2>2, <3>5, RemoveStepDoes DEF BackupsGoing, At
      <3>6. CASE RestoreFails(c)
        BY <1>1, <2>0, <2>2, <3>1, <3>6, RestoreFailsDoes DEF BackupsGoing
      <3>7. \/ CopyOut(c) \/ BackedUp(c) \/ RemoveStep(c) \/ RestoreFails(c)
            \/ \E n \in Names, a \in Backups : BackUp(c, n, a)
        BY <2>2, ZenonT(60)
        DEF Begin, CreateDataBase, Drop, Attach, RestoreDatabase, CreateTable,
            Leave, Query, Refuse, Step, OpenDataBase, Register,
            Dropped, Wiped, CopyIn, Construct, MakeTable,
            WriteInfo, OpenTable, Use, UseDestroyed, Terminate, diskVars
      <3> QED BY <3>2, <3>3, <3>4, <3>5, <3>6, <3>7
    <2>3. Restart => UNCHANGED backups
      BY DEF Restart
    <2>4. UNCHANGED vars => UNCHANGED backups
      BY DEF vars, diskVars
    <2> QED BY <1>1, <2>1, <2>2, <2>3, <2>4 DEF Next
  <1>2. SystemInv /\ [Next]_vars =>
            [\A b \in Backups :
                Complete(b) /\ ~BackupsGoing => backups'[b] = backups[b]]_vars
    BY <1>1
  <1> QED BY <1>2, SystemAlways, PTL DEF Spec, BackupsKept

-----------------------------------------------------------------------------
LEMMA NamesStep ==
  SystemInv /\ NamesLeadSomewhere /\ [Next]_vars => NamesLeadSomewhere'
  <1> SUFFICES ASSUME SystemInv, NamesLeadSomewhere, [Next]_vars
               PROVE  NamesLeadSomewhere'
    OBVIOUS
  <1>0. /\ TypeOK /\ ArgInv /\ LockInv /\ DirInv /\ GenInv /\ NameInv
        /\ MakeInv
    BY DEF SystemInv
  <1>1. CASE Quiet
    BY <1>0, <1>1
    DEF Quiet, memVars, lockVars, NamesLeadSomewhere, Found
  <1>2. ASSUME ~Quiet, NEW c \in Clients, Begin(c) \/ Step(c)
        PROVE  NamesLeadSomewhere'
    <2>1. \A d \in Clients \ {c} : thread'[d] = thread[d]
      BY <1>0, <1>2, Keeps
    <2>2. /\ thread[c].pc \in Exclusive <=> excl = c
          /\ c # Nobody
          /\ \A m \in DOMAIN nameBase : nameBase[m] \in DOMAIN bases
      BY <1>0, SystemAssumption DEF LockInv, TypeOK
    <2> USE <1>2 DEF NamesLeadSomewhere, Found
    <2>3. ASSUME UNCHANGED <<bases, nameBase, suspect, excl>>,
                 \/ thread[c].pc \notin Exclusive
                 \/ thread'[c].name = thread[c].name
          PROVE  NamesLeadSomewhere'
      BY <2>1, <2>2, <2>3
    <2>4. ASSUME NEW n \in Names, CreateDataBase(c, n)
          PROVE  NamesLeadSomewhere'
      BY <2>4, <1>0, <2>3, CreateDoes DEF memVars, lockVars, At, Exclusive
    <2>5. ASSUME NEW n \in Names, Drop(c, n) PROVE NamesLeadSomewhere'
      <3>1. PICK k : k = nameBase[n]
        OBVIOUS
      <3>2. /\ excl = Nobody /\ Placed(k, Null) /\ UNCHANGED suspect
            /\ n \in DOMAIN nameBase /\ DOMAIN nameBase' = DOMAIN nameBase \ {n}
            /\ \A m \in DOMAIN nameBase \ {n} : nameBase'[m] = nameBase[m]
        BY <2>5, <1>0, <3>1, DropDoes
      <3>3. \A m \in DOMAIN nameBase \ {n} : nameBase[m] # k
        BY <1>0, <3>1, <3>2 DEF NameInv
      <3> QED BY <2>2, <3>2, <3>3, SystemAssumption DEF Placed
    <2>6. ASSUME NEW n \in Names, Attach(c, n) PROVE NamesLeadSomewhere'
      BY <2>6, <1>0, <2>3, AttachDoes DEF memVars, lockVars
    <2>7. ASSUME NEW n \in Names, NEW b \in Backups, BackUp(c, n, b)
          PROVE  NamesLeadSomewhere'
      BY <2>7, <1>0, <2>3, BackUpDoes DEF memVars, lockVars, At, Exclusive
    <2>8. ASSUME NEW n \in Names, NEW b \in Backups, RestoreDatabase(c, b, n)
          PROVE  NamesLeadSomewhere'
      <3>1. PICK k : k = nameBase[n]
        OBVIOUS
      <3>2. /\ excl = Nobody /\ excl' = c /\ thread'[c].name = n
            /\ IF n \in DOMAIN nameBase THEN Placed(k, Null) ELSE UNCHANGED bases
            /\ UNCHANGED <<nameBase, suspect>>
        BY <2>8, <1>0, <3>1, RestoreDoes
      <3>3. \A m \in DOMAIN nameBase \ {n} : n \in DOMAIN nameBase => nameBase[m] # k
        BY <1>0, <3>1 DEF NameInv
      <3> QED BY <2>2, <3>2, <3>3, SystemAssumption DEF Placed
    <2>9. ASSUME NEW n \in Names, NEW t \in Tables, CreateTable(c, n, t)
          PROVE  NamesLeadSomewhere'
      BY <2>9, <1>0, <2>3, CreateTableDoes DEF memVars, lockVars, At, Exclusive
    <2>10. CASE Leave(c)
      BY <2>10, <1>0, <2>3, LeaveDoes DEF memVars, lockVars
    <2>11. CASE Query(c)
      BY <2>11, <1>0, <2>3, QueryDoes DEF memVars, lockVars, At, Exclusive
    <2>12. CASE OpenDataBase(c)
      BY <2>12, <1>0, <2>3, OpenDoes DEF lockVars, At, Exclusive
    <2>13. CASE Register(c)
      <3>1. PICK n, k, o : n = thread[c].name /\ k = NewId /\ o = thread[c].ref
        OBVIOUS
      <3>2. /\ excl = Nobody /\ thread[c].pc = "register" /\ Placed(k, o)
            /\ nameBase' = Named(n, k) /\ UNCHANGED suspect /\ k \notin DOMAIN bases
        BY <2>13, <1>0, <3>1, RegisterDoes, NewIdIsNew DEF At
      <3>3. /\ DOMAIN nameBase' = DOMAIN nameBase \cup {n}
            /\ \A m \in DOMAIN nameBase : nameBase'[m] = nameBase[m]
            /\ n \notin DOMAIN nameBase => nameBase'[n] = k
        BY <3>2 DEF Named
      <3>4. o # Null
        BY <1>0, <3>1, <3>2 DEF ArgInv, Args, At
      <3> QED BY <2>2, <3>2, <3>3, <3>4, SystemAssumption DEF Placed
    <2>14. CASE CopyOut(c)
      BY <2>14, <1>0, <2>3, CopyOutDoes DEF memVars, lockVars, At, Exclusive
    <2>15. CASE BackedUp(c)
      BY <2>15, <1>0, <2>3, BackedUpDoes DEF memVars, lockVars, At, Exclusive
    <2>16. CASE RemoveStep(c)
      BY <2>16, <1>0, <2>3, RemoveStepDoes DEF memVars, lockVars
    <2>17. CASE Dropped(c)
      <3>1. /\ thread[c].pc = "remove" /\ UNCHANGED <<bases, nameBase, suspect>>
        BY <2>17, <1>0, DroppedDoes DEF memVars, At
      <3>2. thread[c].name \notin DOMAIN nameBase /\ excl = c
        BY <1>0, <2>2, <3>1 DEF NameInv, At, Exclusive
      <3> QED BY <3>1, <3>2
    <2>18. CASE Wiped(c)
      BY <2>18, <1>0, <2>3, WipedDoes DEF memVars, lockVars, SameArgs
    <2>19. CASE CopyIn(c)
      BY <2>19, <1>0, <2>3, CopyInDoes DEF memVars, lockVars, SameArgs
    <2>20. CASE RestoreFails(c)
      <3>1. /\ thread[c].pc \in Exclusive /\ UNCHANGED <<bases, nameBase>>
            /\ suspect' = suspect \cup {thread[c].name}
        BY <2>20, <1>0, RestoreFailsDoes DEF Exclusive
      <3> QED BY <2>2, <3>1
    <2>21. CASE Construct(c)
      <3>1. PICK n, k, o : /\ n = thread[c].name /\ k = IdOf(n)
                           /\ o = Object(n, disk[n])
        OBVIOUS
      <3>2. /\ thread[c].pc \in Exclusive /\ Placed(k, o) /\ nameBase' = Named(n, k)
            /\ suspect' \in {suspect \cup {n}, suspect \ {n}}
            /\ n \in Names /\ disk[n] \in Contents
        BY <2>21, <1>0, <3>1, ConstructDoes DEF Exclusive, At
      <3>3. /\ DOMAIN nameBase' = DOMAIN nameBase \cup {n}
            /\ \A m \in DOMAIN nameBase : nameBase'[m] = nameBase[m]
            /\ n \notin DOMAIN nameBase => nameBase'[n] = k
            /\ n \in DOMAIN nameBase => k = nameBase[n]
        BY <3>1, <3>2 DEF Named, IdOf
      <3>4. made \in Nat
        BY <1>0 DEF TypeOK
      <3>5. o # Null
        BY <3>1, <3>2, <3>4, ObjectType, SystemAssumption
      <3>6. n \notin DOMAIN nameBase => k \notin DOMAIN bases
        BY <1>0, <3>1, NewIdIsNew DEF IdOf
      <3>7. \A m \in DOMAIN nameBase \ {n} : nameBase[m] # k
        BY <1>0, <2>2, <3>1, <3>3, <3>6 DEF NameInv
      <3> QED BY <2>2, <3>1, <3>2, <3>3, <3>5, <3>7 DEF Placed
    <2>22. CASE MakeTable(c)
      BY <2>22, <1>0, <2>3, MakeTableDoes DEF memVars, lockVars, At, Exclusive
    <2>23. CASE WriteInfo(c)
      BY <2>23, <1>0, <2>3, WriteInfoDoes DEF memVars, lockVars, At, Exclusive
    <2>24. CASE OpenTable(c)
      <3>1. PICK k, t, o : /\ k = nameBase[thread[c].name] /\ t = thread[c].table
                           /\ o = Opened(bases[k], t)
        OBVIOUS
      <3>2. /\ thread[c].pc = "openTable" /\ Placed(k, o) /\ k \in DOMAIN bases
            /\ UNCHANGED <<nameBase, suspect, excl>>
            /\ bases[k] \in Objects /\ t \in Tables
        BY <2>24, <1>0, <3>1, OpenTableDoes DEF At, lockVars
      <3>3. o # Null
        BY <3>1, <3>2, OpenedType, SystemAssumption
      <3>4. excl # c
        BY <2>2, <3>2 DEF Exclusive
      <3> QED BY <2>1, <2>2, <3>2, <3>3, <3>4 DEF Placed
    <2>25. CASE Use(c)
      BY <2>25, <1>0, <2>3, UseDoes DEF memVars, lockVars, At, Exclusive
    <2>26. CASE UseDestroyed(c)
      BY <2>26 DEF UseDestroyed, Terminate, Quiet
    <2> QED
      BY <2>4, <2>5, <2>6, <2>7, <2>8, <2>9, <2>10, <2>11, <2>12, <2>13, <2>14,
         <2>15, <2>16, <2>17, <2>18, <2>19, <2>20, <2>21, <2>22, <2>23, <2>24,
         <2>25, <2>26, Zenon
      DEF Begin, Step
  <1>3. CASE Restart
    BY <1>0, <1>3, RestartDoes, SystemAssumption DEF NamesLeadSomewhere, Found
  <1>4. CASE UNCHANGED vars
    BY <1>1, <1>4 DEF vars, Quiet
  <1> QED BY <1>1, <1>2, <1>3, <1>4 DEF Next

(***************************************************************************)
(* A name that is registered has a database behind it, except while a      *)
(* restore of it is under way and after one failed or met a creation.      *)
(***************************************************************************)
THEOREM NamesAreFound == Spec => []NamesLeadSomewhere
  <1>1. Init => NamesLeadSomewhere
    <2> SUFFICES ASSUME Init PROVE NamesLeadSomewhere
      OBVIOUS
    <2> DEFINE o == [name |-> Default, gen |-> 1, open |-> [t \in Tables |-> 0]]
    <2>1. o # Null
      BY SystemAssumption DEF Objects
    <2>2. bases = <<o>> /\ nameBase = [n \in {Default} |-> 1]
      BY DEF Init, FirstStart
    <2> HIDE DEF o
    <2> QED BY <2>1, <2>2 DEF NamesLeadSomewhere, Found
  <1> QED BY <1>1, SystemAlways, NamesStep, PTL DEF Spec

-----------------------------------------------------------------------------
LEMMA OnceStep ==
  SystemInv /\ TablesOpenedOnce /\ [Next]_vars => TablesOpenedOnce'
  <1> SUFFICES ASSUME SystemInv, TablesOpenedOnce, [Next]_vars
               PROVE  TablesOpenedOnce'
    OBVIOUS
  <1>0. /\ TypeOK /\ ArgInv /\ LockInv /\ DirInv /\ GenInv /\ NameInv
        /\ MakeInv
    BY DEF SystemInv
  <1>1. CASE Quiet
    BY <1>0, <1>1
    DEF Quiet, memVars, TablesOpenedOnce, Found
  <1>2. ASSUME ~Quiet, NEW c \in Clients, Begin(c) \/ Step(c)
        PROVE  TablesOpenedOnce'
    <2> USE <1>2 DEF TablesOpenedOnce, Found
    <2>1. UNCHANGED bases => TablesOpenedOnce'
      OBVIOUS
    <2>2. ASSUME NEW k, NEW o, Placed(k, o),
                 o = Null \/ \A t \in Tables : o.open[t] <= 1
          PROVE  TablesOpenedOnce'
      BY <2>2 DEF Placed
    <2>3. ASSUME NEW n \in Names, CreateDataBase(c, n) PROVE TablesOpenedOnce'
      BY <2>3, <1>0, <2>1, CreateDoes DEF memVars
    <2>4. ASSUME NEW n \in Names, Drop(c, n) PROVE TablesOpenedOnce'
      <3>1. PICK k : k = nameBase[n]
        OBVIOUS
      <3> QED BY <2>4, <1>0, <2>2, <3>1, DropDoes
    <2>5. ASSUME NEW n \in Names, Attach(c, n) PROVE TablesOpenedOnce'
      BY <2>5, <1>0, <2>1, AttachDoes DEF memVars
    <2>6. ASSUME NEW n \in Names, NEW b \in Backups, BackUp(c, n, b)
          PROVE  TablesOpenedOnce'
      BY <2>6, <1>0, <2>1, BackUpDoes DEF memVars
    <2>7. ASSUME NEW n \in Names, NEW b \in Backups, RestoreDatabase(c, b, n)
          PROVE  TablesOpenedOnce'
      <3>1. PICK k : k = nameBase[n]
        OBVIOUS
      <3> QED BY <2>7, <1>0, <2>1, <2>2, <3>1, RestoreDoes
    <2>8. ASSUME NEW n \in Names, NEW t \in Tables, CreateTable(c, n, t)
          PROVE  TablesOpenedOnce'
      BY <2>8, <1>0, <2>1, CreateTableDoes DEF memVars
    <2>9. CASE Leave(c)
      BY <2>9, <1>0, <2>1, LeaveDoes DEF memVars
    <2>10. CASE Query(c)
      BY <2>10, <1>0, <2>1, QueryDoes DEF memVars
    <2>11. CASE OpenDataBase(c)
      BY <2>11, <1>0, <2>1, OpenDoes
    <2>12. CASE Register(c)
      <3>1. PICK k, o : k = NewId /\ o = thread[c].ref
        OBVIOUS
      <3>2. Placed(k, o) /\ thread[c].pc = "register"
        BY <2>12, <1>0, <3>1, RegisterDoes DEF At
      <3>3. \A t \in Tables : o.open[t] <= 1
        BY <1>0, <3>1, <3>2 DEF ArgInv, Args, At
      <3> QED BY <2>2, <3>2, <3>3
    <2>13. CASE CopyOut(c)
      BY <2>13, <1>0, <2>1, CopyOutDoes DEF memVars
    <2>14. CASE BackedUp(c)
      BY <2>14, <1>0, <2>1, BackedUpDoes DEF memVars
    <2>15. CASE RemoveStep(c)
      BY <2>15, <1>0, <2>1, RemoveStepDoes DEF memVars
    <2>16. CASE Dropped(c)
      BY <2>16, <1>0, <2>1, DroppedDoes DEF memVars
    <2>17. CASE Wiped(c)
      BY <2>17, <1>0, <2>1, WipedDoes DEF memVars
    <2>18. CASE CopyIn(c)
      BY <2>18, <1>0, <2>1, CopyInDoes DEF memVars
    <2>19. CASE RestoreFails(c)
      BY <2>19, <1>0, <2>1, RestoreFailsDoes
    <2>20. CASE Construct(c)
      <3>1. PICK n, k, o : /\ n = thread[c].name /\ k = IdOf(n)
                           /\ o = Object(n, disk[n])
        OBVIOUS
      <3>2. Placed(k, o) /\ n \in Names /\ disk[n] \in Contents /\ made \in Nat
        BY <2>20, <1>0, <3>1, ConstructDoes DEF TypeOK
      <3>3. \A t \in Tables : o.open[t] <= 1
        BY <3>1, <3>2, ObjectType
      <3> QED BY <2>2, <3>2, <3>3
    <2>21. CASE MakeTable(c)
      BY <2>21, <1>0, <2>1, MakeTableDoes DEF memVars
    <2>22. CASE WriteInfo(c)
      BY <2>22, <1>0, <2>1, WriteInfoDoes DEF memVars
    <2>23. CASE OpenTable(c)
      <3>1. PICK k, t, o : /\ k = nameBase[thread[c].name] /\ t = thread[c].table
                           /\ o = Opened(bases[k], t)
        OBVIOUS
      <3>2. /\ Maker(c) /\ Placed(k, o) /\ k \in DOMAIN bases
            /\ bases[k] \in Objects /\ t \in Tables
        BY <2>23, <1>0, <3>1, OpenTableDoes
      <3>3. bases[k].open[t] = 0
        BY <1>0, <3>1, <3>2 DEF MakeInv
      <3>4. o.open[t] <= 1
        BY <3>1, <3>2, <3>3, OpenedType
      <3>5. \A u \in Tables \ {t} : o.open[u] = bases[k].open[u]
        BY <3>1, <3>2, OpenedType
      <3>6. bases[k] # Null
        BY <3>2, SystemAssumption
      <3>7. \A u \in Tables : o.open[u] <= 1
        BY <3>2, <3>4, <3>5, <3>6
      <3> QED BY <2>2, <3>2, <3>7
    <2>24. CASE Use(c)
      BY <2>24, <1>0, <2>1, UseDoes DEF memVars
    <2>25. CASE UseDestroyed(c)
      BY <2>25 DEF UseDestroyed, Terminate, Quiet
    <2> QED
      BY <2>3, <2>4, <2>5, <2>6, <2>7, <2>8, <2>9, <2>10, <2>11, <2>12, <2>13,
         <2>14, <2>15, <2>16, <2>17, <2>18, <2>19, <2>20, <2>21, <2>22, <2>23,
         <2>24, <2>25, Zenon
      DEF Begin, Step
  <1>3. CASE Restart
    BY <1>0, <1>3, RestartDoes DEF TablesOpenedOnce, Found
  <1>4. CASE UNCHANGED vars
    BY <1>1, <1>4 DEF vars, Quiet
  <1> QED BY <1>1, <1>2, <1>3, <1>4 DEF Next

(***************************************************************************)
(* A table is opened once: of the clients that create it at the same time, *)
(* one makes its directory and the others are refused, and the one that    *)
(* made it is alone until it has opened it.                                *)
(***************************************************************************)
THEOREM OpenedOnce == Spec => []TablesOpenedOnce
  <1>1. Init => TablesOpenedOnce
    <2> SUFFICES ASSUME Init PROVE TablesOpenedOnce
      OBVIOUS
    <2>1. PICK f : f = [t \in Tables |-> 0]
      OBVIOUS
    <2>2. bases = <<[name |-> Default, gen |-> 1, open |-> f]>>
      BY <2>1 DEF Init, FirstStart
    <2>3. DOMAIN bases = {1} /\ bases[1].open = f
      BY <2>2
    <2>4. \A t \in Tables : f[t] <= 1
      BY <2>1
    <2> QED BY <2>3, <2>4 DEF TablesOpenedOnce
  <1> QED BY <1>1, SystemAlways, OnceStep, PTL DEF Spec

-----------------------------------------------------------------------------
\* The name of a session is the only one that its id may belong to.
IdInv ==
    /\ IdsNeverMove
    /\ \A c \in Clients : session[c].joined =>
          \A n \in DOMAIN nameBase : nameBase[n] = session[c].id =>
              session[c].name = n

LEMMA IdStep == SystemInv /\ IdInv /\ [Next]_vars => IdInv'
  <1> SUFFICES ASSUME SystemInv, IdInv, [Next]_vars PROVE IdInv'
    OBVIOUS
  <1>0. /\ TypeOK /\ ArgInv /\ LockInv /\ DirInv /\ GenInv /\ NameInv
        /\ MakeInv
    BY DEF SystemInv
  <1>1. CASE Quiet
    BY <1>0, <1>1
    DEF Quiet, memVars, IdInv, IdsNeverMove, Found
  <1>2. ASSUME ~Quiet, NEW c \in Clients, Begin(c) \/ Step(c) PROVE IdInv'
    <2>1. \A d \in Clients \ {c} : session'[d] = session[d]
      BY <1>0, <1>2, Keeps
    <2>2. \A m \in DOMAIN nameBase : nameBase[m] \in DOMAIN bases
      BY <1>0 DEF TypeOK
    <2> USE <1>2 DEF IdInv, IdsNeverMove, Found
    <2>3. UNCHANGED <<bases, nameBase, session>> => IdInv'
      OBVIOUS
    <2>4. ASSUME NEW k, Placed(k, Null), UNCHANGED session,
                 k \in DOMAIN bases, DOMAIN nameBase' \subseteq DOMAIN nameBase,
                 \A m \in DOMAIN nameBase' : nameBase'[m] = nameBase[m]
          PROVE  IdInv'
      BY <2>4 DEF Placed
    <2>5. ASSUME NEW n \in Names, CreateDataBase(c, n) PROVE IdInv'
      BY <2>5, <1>0, <2>3, CreateDoes DEF memVars
    <2>6. ASSUME NEW n \in Names, Drop(c, n) PROVE IdInv'
      <3>1. PICK k : k = nameBase[n]
        OBVIOUS
      <3>2. /\ k \in DOMAIN bases /\ Placed(k, Null) /\ UNCHANGED session
            /\ DOMAIN nameBase' = DOMAIN nameBase \ {n}
            /\ \A m \in DOMAIN nameBase \ {n} : nameBase'[m] = nameBase[m]
        BY <2>6, <1>0, <2>2, <3>1, DropDoes
      <3> QED BY <2>4, <3>2
    <2>7. ASSUME NEW n \in Names, Attach(c, n) PROVE IdInv'
      <3>1. /\ session'[c] = [joined |-> TRUE, name |-> n, id |-> nameBase[n]]
            /\ n \in DOMAIN nameBase /\ UNCHANGED <<bases, nameBase>>
        BY <2>7, <1>0, AttachDoes DEF memVars
      <3>2. session'[c].name = n /\ session'[c].id = nameBase[n]
        BY <3>1
      <3>3. \A m \in DOMAIN nameBase : nameBase[m] = nameBase[n] => m = n
        BY <1>0, <3>1 DEF NameInv
      <3> QED BY <2>1, <3>1, <3>2, <3>3
    <2>8. ASSUME NEW n \in Names, NEW b \in Backups, BackUp(c, n, b)
          PROVE  IdInv'
      BY <2>8, <1>0, <2>3, BackUpDoes DEF memVars
    <2>9. ASSUME NEW n \in Names, NEW b \in Backups, RestoreDatabase(c, b, n)
          PROVE  IdInv'
      <3>1. PICK k : k = nameBase[n]
        OBVIOUS
      <3>2. /\ IF n \in DOMAIN nameBase THEN k \in DOMAIN bases /\ Placed(k, Null)
                                        ELSE UNCHANGED bases
            /\ UNCHANGED <<nameBase, session>>
        BY <2>9, <1>0, <2>2, <3>1, RestoreDoes
      <3> QED BY <2>3, <2>4, <3>2
    <2>10. ASSUME NEW n \in Names, NEW t \in Tables, CreateTable(c, n, t)
           PROVE  IdInv'
      BY <2>10, <1>0, <2>3, CreateTableDoes DEF memVars
    <2>11. CASE Leave(c)
      <3>1. ~session'[c].joined /\ UNCHANGED <<bases, nameBase>>
        BY <2>11, <1>0, LeaveDoes, Zenon DEF memVars
      <3> QED BY <2>1, <3>1
    <2>12. CASE Query(c)
      BY <2>12, <1>0, <2>3, QueryDoes DEF memVars
    <2>13. CASE OpenDataBase(c)
      BY <2>13, <1>0, <2>3, OpenDoes
    <2>14. CASE Register(c)
      <3>1. PICK n, k, o : n = thread[c].name /\ k = NewId /\ o = thread[c].ref
        OBVIOUS
      <3>2. /\ thread[c].pc = "register" /\ Placed(k, o) /\ UNCHANGED session
            /\ nameBase' = Named(n, k) /\ k \notin DOMAIN bases
        BY <2>14, <1>0, <3>1, RegisterDoes, NewIdIsNew DEF At
      <3>3. /\ DOMAIN nameBase' = DOMAIN nameBase \cup {n}
            /\ \A m \in DOMAIN nameBase : nameBase'[m] = nameBase[m]
            /\ n \notin DOMAIN nameBase => nameBase'[n] = k
        BY <3>2 DEF Named
      <3>4. o.name = n
        BY <1>0, <3>1, <3>2 DEF ArgInv, Args, At
      <3>5. \A d \in Clients : session[d].joined => session[d].id \in DOMAIN bases
        BY <1>0 DEF NameInv
      <3>6. \A m \in DOMAIN nameBase' : bases'[nameBase'[m]] # Null =>
               bases'[nameBase'[m]].name = m
        BY <2>2, <3>2, <3>3, <3>4 DEF Placed
      <3>7. \A d \in Clients : session'[d].joined /\ bases'[session'[d].id] # Null =>
               bases'[session'[d].id].name = session'[d].name
        BY <3>2, <3>5 DEF Placed
      <3>8. \A d \in Clients : session'[d].joined =>
               \A m \in DOMAIN nameBase' : nameBase'[m] = session'[d].id =>
                   session'[d].name = m
        BY <2>2, <3>2, <3>3, <3>5
      <3> QED BY <3>6, <3>7, <3>8
    <2>15. CASE CopyOut(c)
      BY <2>15, <1>0, <2>3, CopyOutDoes DEF memVars
    <2>16. CASE BackedUp(c)
      BY <2>16, <1>0, <2>3, BackedUpDoes DEF memVars
    <2>17. CASE RemoveStep(c)
      BY <2>17, <1>0, <2>3, RemoveStepDoes DEF memVars
    <2>18. CASE Dropped(c)
      BY <2>18, <1>0, <2>3, DroppedDoes DEF memVars
    <2>19. CASE Wiped(c)
      BY <2>19, <1>0, <2>3, WipedDoes DEF memVars
    <2>20. CASE CopyIn(c)
      BY <2>20, <1>0, <2>3, CopyInDoes DEF memVars
    <2>21. CASE RestoreFails(c)
      BY <2>21, <1>0, <2>3, RestoreFailsDoes
    <2>22. CASE Construct(c)
      <3>1. PICK n, k, o : /\ n = thread[c].name /\ k = IdOf(n)
                           /\ o = Object(n, disk[n])
        OBVIOUS
      <3>2. /\ Placed(k, o) /\ nameBase' = Named(n, k) /\ UNCHANGED session
            /\ n \in Names /\ disk[n] \in Contents /\ made \in Nat
        BY <2>22, <1>0, <3>1, ConstructDoes DEF TypeOK
      <3>3. /\ DOMAIN nameBase' = DOMAIN nameBase \cup {n}
            /\ \A m \in DOMAIN nameBase : nameBase'[m] = nameBase[m]
            /\ n \notin DOMAIN nameBase => nameBase'[n] = k
            /\ n \in DOMAIN nameBase => k = nameBase[n]
        BY <3>1, <3>2 DEF Named, IdOf
      <3>4. o.name = n
        BY <3>1, <3>2, ObjectType
      <3>5. n \notin DOMAIN nameBase => k \notin DOMAIN bases
        BY <1>0, <3>1, NewIdIsNew DEF IdOf
      <3>6. \A d \in Clients : session[d].joined => session[d].id \in DOMAIN bases
        BY <1>0 DEF NameInv
      <3>7. \A m \in DOMAIN nameBase : nameBase[m] = k => m = n
        BY <1>0, <2>2, <3>3, <3>5 DEF NameInv
      <3>8. \A m \in DOMAIN nameBase' : bases'[nameBase'[m]] # Null =>
               bases'[nameBase'[m]].name = m
        BY <2>2, <3>2, <3>3, <3>4, <3>7 DEF Placed
      <3>9. \A d \in Clients : session'[d].joined /\ bases'[session'[d].id] # Null =>
               bases'[session'[d].id].name = session'[d].name
        BY <3>2, <3>3, <3>4, <3>5, <3>6 DEF Placed
      <3>10. \A d \in Clients : session'[d].joined =>
                \A m \in DOMAIN nameBase' : nameBase'[m] = session'[d].id =>
                    session'[d].name = m
        BY <2>2, <3>2, <3>3, <3>5, <3>6
      <3> QED BY <3>8, <3>9, <3>10
    <2>23. CASE MakeTable(c)
      BY <2>23, <1>0, <2>3, MakeTableDoes DEF memVars
    <2>24. CASE WriteInfo(c)
      BY <2>24, <1>0, <2>3, WriteInfoDoes DEF memVars
    <2>25. CASE OpenTable(c)
      <3>1. PICK k, t, o : /\ k = nameBase[thread[c].name] /\ t = thread[c].table
                           /\ o = Opened(bases[k], t)
        OBVIOUS
      <3>2. /\ Placed(k, o) /\ k \in DOMAIN bases /\ bases[k] \in Objects
            /\ t \in Tables /\ UNCHANGED <<nameBase, session>>
        BY <2>25, <1>0, <3>1, OpenTableDoes
      <3>3. o.name = bases[k].name /\ bases[k] # Null
        BY <3>1, <3>2, OpenedType, SystemAssumption
      <3> QED BY <2>2, <3>2, <3>3 DEF Placed
    <2>26. CASE Use(c)
      BY <2>26, <1>0, <2>3, UseDoes DEF memVars
    <2>27. CASE UseDestroyed(c)
      BY <2>27 DEF UseDestroyed, Terminate, Quiet
    <2> QED
      BY <2>5, <2>6, <2>7, <2>8, <2>9, <2>10, <2>11, <2>12, <2>13, <2>14,
         <2>15, <2>16, <2>17, <2>18, <2>19, <2>20, <2>21, <2>22, <2>23, <2>24,
         <2>25, <2>26, <2>27, Zenon
      DEF Begin, Step
  <1>3. CASE Restart
    <2>1. \A c \in Clients : ~session'[c].joined
      BY <1>0, <1>3, RestartDoes DEF NoSession
    <2> QED BY <1>0, <1>3, <2>1, RestartDoes DEF IdInv, IdsNeverMove, Found
  <1>4. CASE UNCHANGED vars
    BY <1>1, <1>4 DEF vars, Quiet
  <1> QED BY <1>1, <1>2, <1>3, <1>4 DEF Next

(***************************************************************************)
(* An attached client works on the database it named or on none, whatever  *)
(* is dropped, restored and created meanwhile: an id is never given to     *)
(* another name.                                                           *)
(***************************************************************************)
THEOREM IdsStay == Spec => []IdsNeverMove
  <1>1. Init => IdInv
    <2> SUFFICES ASSUME Init PROVE IdInv
      OBVIOUS
    <2> DEFINE o == [name |-> Default, gen |-> 1, open |-> [t \in Tables |-> 0]]
    <2>1. o.name = Default
      OBVIOUS
    <2>2. bases = <<o>> /\ nameBase = [n \in {Default} |-> 1]
      BY DEF Init, FirstStart
    <2>3. \A c \in Clients : ~session[c].joined
      BY DEF Init, NoSession
    <2> HIDE DEF o
    <2> QED BY <2>1, <2>2, <2>3 DEF IdInv, IdsNeverMove, Found
  <1>2. IdInv => IdsNeverMove
    BY DEF IdInv
  <1> QED BY <1>1, <1>2, SystemAlways, IdStep, PTL DEF Spec

-----------------------------------------------------------------------------
\* DiskAgrees, of one name and of all.
Agrees(n) ==
    Found(nameBase[n]) =>
        /\ disk[n] # Null
        /\ \A t \in Tables :
              IF bases[nameBase[n]].open[t] > 0 THEN disk[n][t] = "good"
              ELSE disk[n][t] # "absent" => Creating(n, t) # {}

Agreed == \A n \in DOMAIN nameBase \ suspect : Agrees(n)

LEMMA AgreedIs == DiskAgrees <=> (~crashed => Agreed)
  BY DEF DiskAgrees, Agreed, Agrees

\* A database that is being created is not registered, its directory holds
\* what was read of it, and no other client creates or removes it, unless
\* a restore gets in between.
Busy(n) == \E c \in Clients : thread[c].pc \in Restoring /\ thread[c].name = n

Pending(c) ==
    LET n == thread[c].name IN
    /\ n \notin DOMAIN nameBase
    /\ disk[n] # Null
    /\ \A d \in Clients \ {c} : thread[d].name = n =>
          thread[d].pc \notin {"open", "register", "remove"}
    /\ At(c, "register") =>
          \A t \in Tables :
             disk[n][t] = IF thread[c].ref.open[t] > 0 THEN "good" ELSE "absent"

Settled(c) ==
    /\ /\ thread[c].pc \in {"open", "register"}
       /\ thread[c].name \notin suspect /\ ~Busy(thread[c].name)
       => Pending(c)
    /\ At(c, "remove") /\ thread[c].name \notin suspect =>
          disk[thread[c].name] # Null

PendingInv == \A c \in Clients : Settled(c)

\* What holds of a name goes on holding while nothing of it is touched.
LEMMA AgreesStays ==
  ASSUME SystemInv, NEW c \in Clients, Begin(c) \/ Step(c),
         thread[c].pc \notin Making, NEW m \in DOMAIN nameBase, Agrees(m),
         nameBase'[m] = nameBase[m], nameBase[m] \in DOMAIN bases',
         bases'[nameBase[m]] = bases[nameBase[m]], disk'[m] = disk[m]
  PROVE  Agrees(m)'
  <1>1. \A d \in Clients \ {c} : thread'[d] = thread[d]
    BY Keeps DEF SystemInv
  <1>2. nameBase[m] \in DOMAIN bases
    BY DEF SystemInv, TypeOK
  <1>3. ASSUME NEW t \in Tables, NEW d \in Creating(m, t)
        PROVE  d \in Creating(m, t)'
    <2>1. /\ d \in Clients /\ Alive(thread[d].ref) /\ thread[d].pc \in Making
          /\ thread[d].name = m /\ thread[d].table = t
      BY <1>3 DEF Creating, At, Making
    <2>2. d # c /\ thread'[d] = thread[d]
      BY <1>1, <2>1
    <2>3. m \in DOMAIN nameBase /\ nameBase[m] \in Places(thread[d].ref)
      BY <2>1 DEF SystemInv, NameInv, Held, Making
    <2>4. Alive(thread[d].ref)'
      BY <2>2, <2>3 DEF Places, Alive
    <2> QED BY <2>1, <2>2, <2>4 DEF Creating, At, Making
  <1> QED BY <1>2, <1>3 DEF Agrees, Found

LEMMA AgreedStep ==
  ASSUME SystemInv, Agreed, PendingInv,
         NEW c \in Clients, Begin(c) \/ Step(c), ~Quiet
  PROVE  Agreed'
  <1>0. /\ TypeOK /\ ArgInv /\ LockInv /\ DirInv /\ GenInv /\ NameInv
        /\ MakeInv
    BY DEF SystemInv
  <1>1. /\ \A d \in Clients \ {c} : thread'[d] = thread[d]
        /\ \A m \in DOMAIN nameBase : nameBase[m] \in DOMAIN bases
        /\ DOMAIN disk = Names
        /\ DOMAIN nameBase \subseteq Names
    BY <1>0, Keeps DEF TypeOK
  <1>2. ASSUME UNCHANGED <<disk, bases, nameBase>>, suspect \subseteq suspect',
               thread[c].pc \notin Making
        PROVE  Agreed'
    BY <1>1, <1>2, AgreesStays DEF Agreed
  <1>3. ASSUME UNCHANGED <<bases, nameBase>>, suspect \subseteq suspect',
               thread[c].pc \in Exclusive,
               \/ disk' = disk
               \/ \E x : disk' = [disk EXCEPT ![thread[c].name] = x]
        PROVE  Agreed'
    <2>1. thread[c].pc \notin Making
      BY <1>3 DEF Exclusive, Making
    <2>2. thread[c].name \in DOMAIN nameBase => ~Found(nameBase[thread[c].name])
      BY <1>0, <1>3 DEF NameInv, Found, At, Exclusive, Restoring
    <2>3. ASSUME NEW m \in DOMAIN nameBase' \ suspect'
          PROVE  Agrees(m)'
      <3>1. CASE m = thread[c].name
        BY <1>3, <2>2, <3>1 DEF Agrees, Found
      <3>2. CASE m # thread[c].name
        <4>1. disk'[m] = disk[m] /\ m \in DOMAIN nameBase /\ Agrees(m)
          BY <1>1, <1>3, <2>3, <3>2 DEF Agreed
        <4> QED BY <1>1, <1>3, <2>1, <4>1, AgreesStays
      <3> QED BY <3>1, <3>2
    <2> QED BY <2>3 DEF Agreed
  <1>4. ASSUME NEW n \in Names, CreateDataBase(c, n) PROVE Agreed'
    <2>1. /\ thread[c].pc = "idle" /\ disk[n] = Null
          /\ disk' = [disk EXCEPT ![n] = NoTables]
          /\ UNCHANGED <<bases, nameBase, suspect>>
      BY <1>4, <1>0, CreateDoes DEF memVars, At
    <2>2. ASSUME NEW m \in DOMAIN nameBase' \ suspect'
          PROVE  Agrees(m)'
      <3>1. m \in DOMAIN nameBase /\ Agrees(m)
        BY <2>1, <2>2 DEF Agreed
      <3>2. CASE m = n
        BY <2>1, <3>1, <3>2 DEF Agrees, Found
      <3>3. CASE m # n
        <4>1. disk'[m] = disk[m] /\ thread[c].pc \notin Making
          BY <1>1, <2>1, <2>2, <3>3 DEF Making
        <4> QED BY <1>1, <2>1, <3>1, <4>1, AgreesStays
      <3> QED BY <3>2, <3>3
    <2> QED BY <2>2 DEF Agreed
  <1>5. ASSUME NEW n \in Names, Drop(c, n) PROVE Agreed'
    <2>1. PICK k : k = nameBase[n]
      OBVIOUS
    <2>2. /\ thread[c].pc = "idle" /\ Placed(k, Null) /\ UNCHANGED <<disk, suspect>>
          /\ n \in DOMAIN nameBase /\ DOMAIN nameBase' = DOMAIN nameBase \ {n}
          /\ \A m \in DOMAIN nameBase \ {n} : nameBase'[m] = nameBase[m]
      BY <1>5, <1>0, <2>1, DropDoes DEF diskVars, At
    <2>3. ASSUME NEW m \in DOMAIN nameBase' \ suspect'
          PROVE  Agrees(m)'
      <3>1. /\ m \in DOMAIN nameBase /\ Agrees(m) /\ nameBase'[m] = nameBase[m]
            /\ nameBase[m] # k
        BY <1>0, <2>1, <2>2, <2>3 DEF Agreed, NameInv
      <3>2. /\ bases'[nameBase[m]] = bases[nameBase[m]]
            /\ nameBase[m] \in DOMAIN bases' /\ thread[c].pc \notin Making
        BY <1>1, <2>2, <3>1 DEF Placed, Making
      <3> QED BY <2>2, <3>1, <3>2, AgreesStays
    <2> QED BY <2>3 DEF Agreed
  <1>6. ASSUME NEW n \in Names, Attach(c, n) PROVE Agreed'
    <2>1. thread[c].pc = "idle"
      BY <1>6 DEF Attach, Ask, At
    <2> QED BY <1>6, <1>0, <1>2, <2>1, AttachDoes DEF diskVars, memVars, Making
  <1>7. ASSUME NEW n \in Names, NEW b \in Backups, BackUp(c, n, b)
        PROVE  Agreed'
    BY <1>7, <1>0, <1>2, BackUpDoes DEF memVars, At, Making
  <1>8. ASSUME NEW n \in Names, NEW b \in Backups, RestoreDatabase(c, b, n)
        PROVE  Agreed'
    <2>1. PICK k : k = nameBase[n]
      OBVIOUS
    <2>2. /\ thread[c].pc = "idle" /\ UNCHANGED <<disk, nameBase, suspect>>
          /\ IF n \in DOMAIN nameBase THEN Placed(k, Null) ELSE UNCHANGED bases
      BY <1>8, <1>0, <2>1, RestoreDoes DEF diskVars, At
    <2>3. thread[c].pc \notin Making
      BY <2>2 DEF Making
    <2>4. ASSUME n \in DOMAIN nameBase,
                 NEW m \in DOMAIN nameBase' \ suspect'
          PROVE  Agrees(m)'
      <3>1. m \in DOMAIN nameBase /\ Agrees(m)
        BY <2>2, <2>4 DEF Agreed
      <3>2. CASE m = n
        BY <2>1, <2>2, <2>4, <3>2 DEF Agrees, Found, Placed
      <3>3. CASE m # n
        <4>1. nameBase[m] # k
          BY <1>0, <2>1, <2>4, <3>1, <3>3 DEF NameInv
        <4>2. /\ bases'[nameBase[m]] = bases[nameBase[m]]
              /\ nameBase[m] \in DOMAIN bases'
          BY <1>1, <2>2, <2>4, <3>1, <4>1 DEF Placed
        <4> QED BY <2>2, <2>3, <3>1, <4>2, AgreesStays
      <3> QED BY <3>2, <3>3
    <2> QED BY <1>2, <2>2, <2>3, <2>4 DEF Agreed
  <1>9. ASSUME NEW n \in Names, NEW t \in Tables, CreateTable(c, n, t)
        PROVE  Agreed'
    BY <1>9, <1>0, <1>2, CreateTableDoes DEF diskVars, memVars, At, Making
  <1>10. CASE Leave(c)
    <2>1. thread[c].pc = "idle"
      BY <1>10 DEF Leave, Ask, At
    <2> QED BY <1>10, <1>0, <1>2, <2>1, LeaveDoes DEF diskVars, memVars, Making
  <1>11. CASE Query(c)
    BY <1>11, <1>0, <1>2, QueryDoes DEF diskVars, memVars, At, Making
  <1>12. CASE OpenDataBase(c)
    BY <1>12, <1>0, <1>2, OpenDoes DEF diskVars, At, Making
  <1>13. CASE Register(c)
    <2>1. PICK n, k, o : n = thread[c].name /\ k = NewId /\ o = thread[c].ref
      OBVIOUS
    <2>2. /\ thread[c].pc = "register" /\ excl = Nobody /\ Placed(k, o)
          /\ nameBase' = Named(n, k) /\ UNCHANGED <<disk, suspect>>
          /\ k \notin DOMAIN bases
      BY <1>13, <1>0, <2>1, RegisterDoes, NewIdIsNew DEF diskVars, At
    <2>3. /\ DOMAIN nameBase' = DOMAIN nameBase \cup {n}
          /\ \A m \in DOMAIN nameBase : nameBase'[m] = nameBase[m]
          /\ n \notin DOMAIN nameBase => nameBase'[n] = k
      BY <2>2 DEF Named
    <2>4. ~Busy(n) /\ thread[c].pc \notin Making
      BY <1>0, <2>2, SystemAssumption
      DEF Busy, LockInv, Restoring, Exclusive, Making
    <2>5. ASSUME NEW m \in DOMAIN nameBase' \ suspect'
          PROVE  Agrees(m)'
      <3>1. CASE m \in DOMAIN nameBase
        <4>1. /\ Agrees(m) /\ nameBase'[m] = nameBase[m]
              /\ bases'[nameBase[m]] = bases[nameBase[m]]
              /\ nameBase[m] \in DOMAIN bases'
          BY <1>1, <2>2, <2>3, <2>5, <3>1 DEF Agreed, Placed
        <4> QED BY <2>2, <2>4, <3>1, <4>1, AgreesStays
      <3>2. CASE m \notin DOMAIN nameBase
        <4>1. m = n /\ nameBase'[m] = k
          BY <2>3, <2>5, <3>2
        <4>2. Pending(c)
          BY <2>1, <2>2, <2>4, <2>5, <4>1 DEF PendingInv, Settled
        <4>3. /\ disk[n] # Null
              /\ \A t \in Tables : disk[n][t] = IF o.open[t] > 0 THEN "good" ELSE "absent"
          BY <2>1, <2>2, <4>2 DEF Pending, At
        <4>4. bases'[nameBase'[m]] = o
          BY <2>2, <4>1 DEF Placed
        <4> QED BY <2>2, <4>1, <4>3, <4>4 DEF Agrees
      <3> QED BY <3>1, <3>2
    <2> QED BY <2>5 DEF Agreed
  <1>14. CASE CopyOut(c)
    BY <1>14, <1>0, <1>2, CopyOutDoes DEF memVars, At, Making
  <1>15. CASE BackedUp(c)
    BY <1>15, <1>0, <1>2, BackedUpDoes DEF memVars, At, Making
  <1>16. CASE RemoveStep(c)
    BY <1>16, <1>0, <1>3, RemoveStepDoes DEF memVars, At, Exclusive
  <1>17. CASE Dropped(c)
    BY <1>17, <1>0, <1>3, DroppedDoes DEF memVars, At, Exclusive
  <1>18. CASE Wiped(c)
    BY <1>18, <1>0, <1>3, WipedDoes DEF memVars, At, Exclusive
  <1>19. CASE CopyIn(c)
    BY <1>19, <1>0, <1>3, CopyInDoes DEF memVars, At, Exclusive
  <1>20. CASE RestoreFails(c)
    BY <1>20, <1>0, <1>3, RestoreFailsDoes DEF Exclusive
  <1>21. CASE Construct(c)
    <2>1. PICK n, k, o : /\ n = thread[c].name /\ k = IdOf(n)
                         /\ o = Object(n, disk[n])
      OBVIOUS
    <2>2. /\ thread[c].pc = "construct" /\ Placed(k, o) /\ nameBase' = Named(n, k)
          /\ suspect' \in {suspect \cup {n}, suspect \ {n}}
          /\ n \in Names /\ Loadable(n) /\ disk[n] \in Contents /\ UNCHANGED disk
      BY <1>21, <1>0, <2>1, ConstructDoes DEF At, diskVars
    <2>3. /\ DOMAIN nameBase' = DOMAIN nameBase \cup {n}
          /\ \A m \in DOMAIN nameBase : nameBase'[m] = nameBase[m]
          /\ n \notin DOMAIN nameBase => nameBase'[n] = k
          /\ n \in DOMAIN nameBase => k = nameBase[n]
          /\ n \notin DOMAIN nameBase => k \notin DOMAIN bases
      BY <1>0, <2>1, <2>2, NewIdIsNew DEF Named, IdOf
    <2>4. \A t \in Tables : /\ o.open[t] > 0 <=> disk[n][t] = "good"
                            /\ disk[n][t] \in {"good", "absent"}
      <3>1. made \in Nat
        BY <1>0 DEF TypeOK
      <3>2. \A t \in Tables : o.open[t] > 0 <=> disk[n][t] = "good"
        BY <2>1, <2>2, <3>1, ObjectType
      <3>3. \A t \in Tables : disk[n][t] \in {"good", "absent"}
        BY <2>2 DEF Loadable, Contents, Stages
      <3> QED BY <3>2, <3>3
    <2>5. ASSUME NEW m \in DOMAIN nameBase' \ suspect'
          PROVE  Agrees(m)'
      <3>1. CASE m = n
        <4>1. bases'[nameBase'[m]] = o /\ disk[n] # Null
          BY <2>2, <2>3, <3>1 DEF Placed, Loadable
        <4> QED BY <2>2, <2>4, <3>1, <4>1 DEF Agrees
      <3>2. CASE m # n
        <4>1. m \in DOMAIN nameBase /\ Agrees(m) /\ nameBase'[m] = nameBase[m]
          BY <2>2, <2>3, <2>5, <3>2 DEF Agreed
        <4>2. nameBase[m] # k
          BY <1>0, <1>1, <2>3, <3>2, <4>1 DEF NameInv
        <4>3. /\ bases'[nameBase[m]] = bases[nameBase[m]]
              /\ nameBase[m] \in DOMAIN bases' /\ thread[c].pc \notin Making
          BY <1>1, <2>2, <4>1, <4>2 DEF Placed, Making
        <4> QED BY <2>2, <4>1, <4>3, AgreesStays
      <3> QED BY <3>1, <3>2
    <2> QED BY <2>5 DEF Agreed
  <1>22. CASE MakeTable(c)
    <2>1. PICK n, t : n = thread[c].name /\ t = thread[c].table
      OBVIOUS
    <2>2. /\ thread[c].pc = "check" /\ n \in Names /\ t \in Tables
          /\ Alive(thread[c].ref) /\ disk[n] \in Contents /\ disk[n] # Null
          /\ UNCHANGED <<bases, nameBase, suspect>>
          /\ \/ UNCHANGED disk
             \/ /\ At(c, "info")' /\ SameArgs(c)
                /\ ~(bases[nameBase[n]].open[t] > 0) /\ disk[n][t] = "absent"
                /\ disk' = [disk EXCEPT ![n] = [disk[n] EXCEPT ![t] = "bad"]]
      BY <1>22, <1>0, <2>1, MakeTableDoes DEF memVars, At
    <2>3. thread[c].pc \notin Making
      BY <2>2 DEF Making
    <2>4. CASE UNCHANGED disk
      BY <1>2, <2>2, <2>3, <2>4
    <2>5. CASE /\ At(c, "info")' /\ SameArgs(c)
               /\ ~(bases[nameBase[n]].open[t] > 0) /\ disk[n][t] = "absent"
               /\ disk' = [disk EXCEPT ![n] = [disk[n] EXCEPT ![t] = "bad"]]
      <3>1. c \in Creating(n, t)'
        BY <2>1, <2>2, <2>5 DEF Creating, SameArgs, At, Alive, Places
      <3>2. /\ disk'[n] = [disk[n] EXCEPT ![t] = "bad"]
            /\ \A m \in Names \ {n} : disk'[m] = disk[m]
        BY <1>1, <2>2, <2>5
      <3>3. /\ disk'[n][t] = "bad" /\ disk'[n] # Null
            /\ \A u \in Tables \ {t} : disk'[n][u] = disk[n][u]
        <4>1. [disk[n] EXCEPT ![t] = "bad"] \in Contents
          BY <2>2 DEF Contents, Stages
        <4>2. /\ [disk[n] EXCEPT ![t] = "bad"][t] = "bad"
              /\ \A u \in Tables \ {t} : [disk[n] EXCEPT ![t] = "bad"][u] = disk[n][u]
          BY <2>2 DEF Contents
        <4> QED BY <3>2, <4>1, <4>2, SystemAssumption
      <3>4. \A u \in Tables, d \in Clients : d \in Creating(n, u) => d \in Creating(n, u)'
        BY <1>1, <2>2, <2>3 DEF Creating, At, Alive, Places, Making
      <3>5. ASSUME NEW m \in DOMAIN nameBase' \ suspect'
            PROVE  Agrees(m)'
        <4>1. m \in DOMAIN nameBase /\ Agrees(m) /\ m \in Names
          BY <1>1, <2>2, <3>5 DEF Agreed
        <4>2. CASE m # n
          BY <1>1, <2>2, <2>3, <3>2, <4>1, <4>2, AgreesStays
        <4>3. CASE m = n
          <5>1. ASSUME NEW u \in Tables, Found(nameBase[n])
                PROVE  IF bases[nameBase[n]].open[u] > 0 THEN disk'[n][u] = "good"
                       ELSE disk'[n][u] # "absent" => Creating(n, u)' # {}
            <6>1. CASE u = t
              BY <2>5, <3>1, <3>3, <6>1
            <6>2. CASE u # t
              <7>1. Creating(n, u) # {} => Creating(n, u)' # {}
                <8>1. Creating(n, u) \subseteq Clients
                  BY DEF Creating
                <8> QED BY <3>4, <8>1
              <7> QED BY <3>3, <4>1, <4>3, <5>1, <6>2, <7>1 DEF Agrees
            <6> QED BY <6>1, <6>2
          <5> QED BY <2>2, <3>3, <4>3, <5>1 DEF Agrees, Found
        <4> QED BY <4>2, <4>3
      <3> QED BY <3>5 DEF Agreed
    <2> QED BY <2>2, <2>4, <2>5
  <1>23. CASE WriteInfo(c)
    <2>1. PICK n, t : n = thread[c].name /\ t = thread[c].table
      OBVIOUS
    <2>2. /\ Maker(c) /\ At(c, "openTable")' /\ SameArgs(c)
          /\ n \in Names /\ t \in Tables /\ disk[n] \in Contents
          /\ UNCHANGED <<bases, nameBase, suspect>>
          /\ disk' = [disk EXCEPT ![n] = [disk[n] EXCEPT ![t] = "good"]]
      BY <1>23, <1>0, <2>1, WriteInfoDoes DEF memVars
    <2>3. c \in Creating(n, t)'
      BY <2>1, <2>2 DEF Creating, SameArgs, At, Alive, Places, Maker
    <2>4. /\ disk'[n] = [disk[n] EXCEPT ![t] = "good"]
          /\ \A m \in Names \ {n} : disk'[m] = disk[m]
      BY <1>1, <2>2
    <2>5. /\ disk'[n][t] = "good" /\ disk'[n] # Null
          /\ \A u \in Tables \ {t} : disk'[n][u] = disk[n][u]
      <3>1. [disk[n] EXCEPT ![t] = "good"] \in Contents
        BY <2>2 DEF Contents, Stages
      <3>2. /\ [disk[n] EXCEPT ![t] = "good"][t] = "good"
            /\ \A u \in Tables \ {t} : [disk[n] EXCEPT ![t] = "good"][u] = disk[n][u]
        BY <2>2 DEF Contents
      <3> QED BY <2>4, <3>1, <3>2, SystemAssumption
    <2>6. \A m, u, d : d \in Creating(m, u) => d \in Creating(m, u)'
      BY <1>1, <2>2 DEF Creating, At, Alive, Places, SameArgs
    <2>7. ASSUME NEW m \in DOMAIN nameBase' \ suspect',
                 NEW u \in Tables, Found(nameBase[m])
          PROVE  /\ disk'[m] # Null
                 /\ IF bases[nameBase[m]].open[u] > 0 THEN disk'[m][u] = "good"
                    ELSE disk'[m][u] # "absent" => Creating(m, u)' # {}
      <3>1. m \in DOMAIN nameBase /\ Agrees(m) /\ m \in Names
        BY <1>1, <2>2, <2>7 DEF Agreed
      <3>2. Creating(m, u) # {} => Creating(m, u)' # {}
        BY <2>6
      <3>3. CASE m = n /\ u = t
        BY <2>3, <2>5, <3>3
      <3>4. CASE m = n /\ u # t
        BY <2>5, <2>7, <3>1, <3>2, <3>4 DEF Agrees
      <3>5. CASE m # n
        BY <2>4, <2>7, <3>1, <3>2, <3>5 DEF Agrees
      <3> QED BY <3>3, <3>4, <3>5
    <2>8. ASSUME NEW m \in DOMAIN nameBase' \ suspect',
                 Found(nameBase[m])
          PROVE  disk'[m] # Null
      BY <1>1, <2>2, <2>4, <2>5, <2>8 DEF Agreed, Agrees
    <2> QED BY <2>2, <2>7, <2>8 DEF Agreed, Agrees, Found
  <1>24. CASE OpenTable(c)
    <2>1. PICK n, k, t, o : /\ n = thread[c].name /\ k = nameBase[n]
                            /\ t = thread[c].table /\ o = Opened(bases[k], t)
      OBVIOUS
    <2>2. /\ Maker(c) /\ At(c, "openTable") /\ Placed(k, o)
          /\ n \in DOMAIN nameBase /\ k \in DOMAIN bases /\ bases[k] \in Objects
          /\ t \in Tables /\ UNCHANGED <<disk, nameBase, suspect>>
      BY <1>24, <1>0, <2>1, OpenTableDoes DEF diskVars
    <2>3. /\ o # Null /\ bases[k] # Null /\ o.gen = bases[k].gen
          /\ \A u \in Tables \ {t} : o.open[u] = bases[k].open[u]
      <3>1. /\ o \in Objects /\ o.gen = bases[k].gen
            /\ \A u \in Tables \ {t} : o.open[u] = bases[k].open[u]
        BY <2>1, <2>2, OpenedType
      <3> QED BY <2>2, <3>1, SystemAssumption
    <2>4. /\ disk[n] # Null /\ disk[n][t] = "good"
          /\ o.open[t] > 0
      <3>1. /\ disk[n] # Null /\ disk[n][t] = "good" /\ bases[k].open[t] = 0
        BY <1>0, <2>1, <2>2 DEF MakeInv, At
      <3>2. o.open[t] = bases[k].open[t] + 1
        BY <2>1, <2>2, OpenedType
      <3> QED BY <3>1, <3>2
    <2>5. \A p : Alive(p) => Alive(p)'
      BY <2>2, <2>3 DEF Alive, Places, Placed
    <2>6. ASSUME NEW m, NEW u, ~(m = n /\ u = t), NEW d \in Creating(m, u)
          PROVE  d \in Creating(m, u)'
      <3>1. d \in Clients \ {c}
        BY <2>1, <2>6 DEF Creating
      <3>2. thread'[d] = thread[d]
        BY <1>1, <3>1
      <3>3. PICK p : p = thread[d].ref
        OBVIOUS
      <3>4. Alive(p)'
        BY <2>5, <2>6, <3>3 DEF Creating
      <3>5. Alive(thread[d].ref)'
        BY <3>2, <3>3, <3>4 DEF Alive, Places
      <3> QED BY <2>6, <3>1, <3>2, <3>5 DEF Creating, At
    <2>7. ASSUME NEW m \in DOMAIN nameBase' \ suspect',
                 Found(nameBase[m])
          PROVE  Agrees(m)'
      <3>1. m \in DOMAIN nameBase /\ Agrees(m)
        BY <2>2, <2>7 DEF Agreed
      <3>2. CASE m = n
        <4>1. nameBase'[m] = k /\ bases'[k] = o
          BY <2>1, <2>2, <3>2 DEF Placed
        <4>2. ASSUME NEW u \in Tables
              PROVE  IF o.open[u] > 0 THEN disk[n][u] = "good"
                     ELSE disk[n][u] # "absent" => Creating(n, u)' # {}
          <5>1. CASE u = t
            BY <2>4, <5>1
          <5>2. CASE u # t
            BY <2>1, <2>3, <2>6, <2>7, <3>1, <3>2, <5>2 DEF Agrees
          <5> QED BY <5>1, <5>2
        <4> QED BY <2>2, <2>4, <3>2, <4>1, <4>2 DEF Agrees
      <3>3. CASE m # n
        <4>1. nameBase[m] # k /\ bases'[nameBase[m]] = bases[nameBase[m]]
          BY <1>0, <1>1, <2>1, <2>2, <3>1, <3>3 DEF NameInv, Placed
        <4> QED BY <2>2, <2>6, <2>7, <3>1, <3>3, <4>1 DEF Agrees
      <3> QED BY <3>2, <3>3
    <2>8. ASSUME NEW m \in DOMAIN nameBase' \ suspect',
                 ~Found(nameBase[m])
          PROVE  Agrees(m)'
      <3>1. m \in DOMAIN nameBase /\ m # n
        BY <2>1, <2>2, <2>3, <2>8 DEF Found
      <3>2. nameBase[m] # k /\ bases'[nameBase[m]] = bases[nameBase[m]]
        BY <1>0, <1>1, <2>1, <2>2, <3>1 DEF NameInv, Placed
      <3> QED BY <1>1, <2>2, <2>8, <3>1, <3>2 DEF Agrees, Found
    <2> QED BY <2>7, <2>8 DEF Agreed
  <1>25. CASE Use(c)
    BY <1>25, <1>0, <1>2, UseDoes DEF diskVars, memVars, At, Making
  <1>26. CASE UseDestroyed(c)
    BY <1>26 DEF UseDestroyed, Terminate, Quiet
  <1> QED
    BY <1>4, <1>5, <1>6, <1>7, <1>8, <1>9, <1>10, <1>11, <1>12, <1>13, <1>14,
       <1>15, <1>16, <1>17, <1>18, <1>19, <1>20, <1>21, <1>22, <1>23, <1>24,
       <1>25, <1>26, Zenon
    DEF Begin, Step

\* The places of a thread whose name is not registered.
Unnamed == {"open", "register", "remove"}

LEMMA SettledStays ==
  ASSUME NEW c \in Clients, \A e \in Clients \ {c} : thread'[e] = thread[e],
         NEW d \in Clients \ {c}, Settled(d), NEW m, m = thread[d].name,
         disk'[m] = disk[m], m \in suspect => m \in suspect',
         m \in DOMAIN nameBase' => m \in DOMAIN nameBase,
         thread[c].pc \in Restoring /\ thread[c].name = m =>
            thread'[c].pc \in Restoring /\ thread'[c].name = m,
         thread'[c].pc \in Unnamed /\ thread'[c].name = m =>
            thread[c].pc \in Unnamed /\ thread[c].name = m
  PROVE  Settled(d)'
  <1>1. thread'[d] = thread[d]
    OBVIOUS
  <1>2. Busy(m) => Busy(m)'
    BY DEF Busy
  <1>3. ASSUME Pending(d) PROVE Pending(d)'
    <2>1. \A e \in Clients \ {d} : thread'[e].name = m => thread'[e].pc \notin Unnamed
      BY <1>3 DEF Pending, Unnamed
    <2> QED BY <1>1, <1>3, <2>1 DEF Pending, Unnamed, At
  <1> QED
    <2>1. ASSUME thread'[d].pc \in {"open", "register"}, m \notin suspect', ~Busy(m)'
          PROVE  Pending(d)'
      BY <1>1, <1>2, <1>3, <2>1 DEF Settled
    <2>2. Busy(thread[d].name)' <=> Busy(m)'
      BY <1>1 DEF Busy
    <2> QED BY <1>1, <2>1, <2>2 DEF Settled, At

LEMMA PendingStep ==
  ASSUME SystemInv, NamesLeadSomewhere, Agreed, PendingInv,
         NEW c \in Clients, Begin(c) \/ Step(c), ~Quiet
  PROVE  PendingInv'
  <1>0. /\ TypeOK /\ ArgInv /\ LockInv /\ DirInv /\ GenInv /\ NameInv
        /\ MakeInv
    BY DEF SystemInv
  <1>1. /\ \A d \in Clients \ {c} : thread'[d] = thread[d]
        /\ DOMAIN disk = Names
        /\ \A d \in Clients : thread[d].pc \in Unnamed => thread[d].name \in Names
    BY <1>0, Keeps DEF TypeOK, ArgInv, Args, At, Unnamed
  \* A step that has to do with one name, n, leaves the others settled.
  <1>2. ASSUME NEW n \in Names,
               \A m \in Names \ {n} : disk'[m] = disk[m],
               suspect \subseteq suspect' \cup {n},
               DOMAIN nameBase' \subseteq DOMAIN nameBase \cup {n},
               thread[c].pc \in Restoring => thread[c].name = n,
               thread'[c].pc \in Unnamed => thread'[c].name = n,
               \A d \in Clients \ {c} :
                  /\ thread[d].pc \in Unnamed /\ thread[d].name = n
                  /\ n \notin suspect'
                  /\ thread[d].pc \in {"open", "register"} => ~Busy(n)'
                  => FALSE,
               Settled(c)'
        PROVE  PendingInv'
    <2>1. ASSUME NEW d \in Clients \ {c}, thread[d].pc \in Unnamed,
                 thread[d].name # n
          PROVE  Settled(d)'
      <3>1. PICK m \in Names : m = thread[d].name
        BY <1>1, <2>1
      <3>2. Settled(d)
        BY DEF PendingInv
      <3> QED BY <1>1, <1>2, <2>1, <3>1, <3>2, SettledStays
    <2>2. ASSUME NEW d \in Clients \ {c}, thread[d].pc \in Unnamed,
                 thread[d].name = n
          PROVE  Settled(d)'
      <3>1. thread'[d] = thread[d]
        BY <1>1
      <3>2. Busy(thread[d].name)' <=> Busy(n)'
        BY <2>2, <3>1 DEF Busy
      <3> QED BY <1>2, <2>2, <3>1, <3>2 DEF Settled, At
    <2>3. ASSUME NEW d \in Clients \ {c}, thread[d].pc \notin Unnamed
          PROVE  Settled(d)'
      BY <1>1, <2>3 DEF Settled, At, Unnamed
    <2> QED BY <1>2, <2>1, <2>2, <2>3 DEF PendingInv
  <1>3. ASSUME thread'[c].pc \notin Unnamed PROVE Settled(c)'
    BY <1>3 DEF Settled, At, Unnamed
  \* A step that has to do with no name.
  <1>4. ASSUME UNCHANGED <<disk, nameBase, suspect>>,
               thread[c].pc \notin Restoring, thread'[c].pc \notin Unnamed
        PROVE  PendingInv'
    <2>1. ASSUME NEW d \in Clients \ {c} PROVE Settled(d)'
      <3>1. PICK m : m = thread[d].name
        OBVIOUS
      <3>2. Settled(d)
        BY DEF PendingInv
      <3> QED BY <1>1, <1>4, <3>1, <3>2, SettledStays
    <2> QED BY <1>3, <1>4, <2>1 DEF PendingInv
  \* The lock has one holder.
  <1>5. ASSUME excl = Nobody
        PROVE  \A d \in Clients : thread[d].pc \notin Exclusive
    BY <1>0, <1>5, SystemAssumption DEF LockInv
  <1>6. ASSUME thread[c].pc \in Exclusive
        PROVE  \A d \in Clients \ {c} : thread[d].pc \notin Exclusive
    BY <1>0, <1>6 DEF LockInv
  <1>7. \A n : Busy(n) => \E d \in Clients : thread[d].pc \in Exclusive
    BY DEF Busy, Restoring, Exclusive
  \* What a name leads to, while nobody restores it.
  <1>8. ASSUME NEW n \in DOMAIN nameBase, n \in Names, n \notin suspect, ~Busy(n)
        PROVE  disk[n] # Null
    <2>1. ASSUME NEW d \in Clients, excl = d, thread[d].name = n PROVE FALSE
      <3>1. thread[d].pc \in Exclusive
        BY <1>0, <2>1 DEF LockInv
      <3>2. ~At(d, "remove")
        BY <1>0, <1>8, <2>1 DEF NameInv
      <3> QED BY <1>8, <2>1, <3>1, <3>2 DEF Busy, Exclusive, Restoring, At
    <2>2. Found(nameBase[n])
      BY <1>8, <2>1 DEF NamesLeadSomewhere
    <2> QED BY <1>8, <2>2 DEF Agreed, Agrees
  \* Nobody creates a database that is there, is named, or is being removed.
  <1>9. ASSUME NEW d \in Clients \ {c}, NEW n, thread[d].name = n, n \notin suspect,
               thread[d].pc \in {"open", "register"}, ~Busy(n)
        PROVE  /\ n \notin DOMAIN nameBase /\ disk[n] # Null
               /\ ~(thread[c].pc \in Unnamed /\ thread[c].name = n)
    <2>1. Pending(d)
      BY <1>9 DEF PendingInv, Settled
    <2> QED BY <1>9, <2>1 DEF Pending, Unnamed
  <1>10. ASSUME NEW n \in Names, CreateDataBase(c, n) PROVE PendingInv'
    <2>1. /\ thread[c].pc = "idle" /\ thread'[c].pc = "open"
          /\ thread'[c].name = n /\ disk[n] = Null
          /\ disk' = [disk EXCEPT ![n] = NoTables]
          /\ UNCHANGED <<nameBase, suspect>>
      BY <1>10, <1>0, CreateDoes DEF memVars, At
    <2>2. Busy(n) => Busy(n)'
      BY <1>1, <2>1 DEF Busy, Restoring
    <2>3. ASSUME n \notin suspect, NEW d \in Clients \ {c}, thread[d].pc \in Unnamed,
                 thread[d].name = n, thread[d].pc \in {"open", "register"} => ~Busy(n)
          PROVE  FALSE
      BY <1>9, <2>1, <2>3 DEF PendingInv, Settled, At, Unnamed
    <2>4. ASSUME n \notin suspect', ~Busy(n)' PROVE Pending(c)'
      <3>1. n \notin suspect /\ ~Busy(n) /\ n \notin DOMAIN nameBase
        BY <1>8, <2>1, <2>2, <2>4
      <3>2. \A d \in Clients \ {c} : thread'[d].name = n => thread'[d].pc \notin Unnamed
        BY <1>1, <2>3, <3>1
      <3>3. disk'[n] = NoTables /\ NoTables # Null
        BY <1>1, <2>1, SystemAssumption DEF NoTables, Contents, Stages
      <3> QED BY <2>1, <3>1, <3>2, <3>3 DEF Pending, Unnamed, At
    <2>5. Settled(c)'
      <3>1. Busy(thread[c].name)' <=> Busy(n)'
        BY <2>1 DEF Busy
      <3> QED BY <2>1, <2>4, <3>1 DEF Settled, At
    <2> QED BY <1>1, <1>2, <2>1, <2>2, <2>3, <2>5 DEF Restoring, Unnamed
  <1>11. ASSUME NEW n \in Names, Drop(c, n) PROVE PendingInv'
    <2>1. /\ thread[c].pc = "idle" /\ thread'[c].pc = "remove"
          /\ thread'[c].name = n /\ excl = Nobody /\ UNCHANGED <<disk, suspect>>
          /\ n \in DOMAIN nameBase /\ DOMAIN nameBase' = DOMAIN nameBase \ {n}
      BY <1>11, <1>0, DropDoes DEF diskVars, At
    <2>2. ~Busy(n)
      BY <1>5, <1>7, <2>1
    <2>3. ASSUME n \notin suspect, NEW d \in Clients \ {c}, thread[d].pc \in Unnamed,
                 thread[d].name = n
          PROVE  FALSE
      BY <1>5, <1>9, <2>1, <2>2, <2>3 DEF Unnamed, Exclusive
    <2>4. Settled(c)'
      BY <1>8, <2>1, <2>2 DEF Settled, At
    <2> QED BY <1>1, <1>2, <2>1, <2>3, <2>4 DEF Restoring
  <1>12. ASSUME NEW n \in Names, Attach(c, n) PROVE PendingInv'
    <2>1. thread[c].pc = "idle"
      BY <1>12 DEF Attach, Ask, At
    <2> QED
      BY <1>12, <1>0, <1>4, <2>1, AttachDoes
      DEF diskVars, memVars, Restoring, Unnamed
  <1>13. ASSUME NEW n \in Names, NEW b \in Backups, BackUp(c, n, b)
         PROVE  PendingInv'
    BY <1>13, <1>0, <1>4, BackUpDoes DEF memVars, At, Restoring, Unnamed, Idle
  <1>14. ASSUME NEW n \in Names, NEW b \in Backups, RestoreDatabase(c, b, n)
         PROVE  PendingInv'
    <2>1. /\ thread[c].pc = "idle" /\ thread'[c].pc = "wipe"
          /\ thread'[c].name = n /\ excl = Nobody
          /\ UNCHANGED <<disk, nameBase, suspect>>
      BY <1>14, <1>0, RestoreDoes DEF diskVars, At
    <2>2. Busy(n)'
      BY <2>1 DEF Busy, Restoring
    <2>3. Settled(c)'
      BY <1>3, <2>1 DEF Unnamed
    <2> QED BY <1>2, <1>5, <2>1, <2>2, <2>3 DEF Restoring, Unnamed, Exclusive
  <1>15. ASSUME NEW n \in Names, NEW t \in Tables, CreateTable(c, n, t)
         PROVE  PendingInv'
    BY <1>15, <1>0, <1>4, CreateTableDoes
    DEF diskVars, memVars, At, Restoring, Unnamed, Idle
  <1>16. CASE Leave(c)
    <2>1. thread[c].pc = "idle"
      BY <1>16 DEF Leave, Ask, At
    <2> QED
      BY <1>16, <1>0, <1>4, <2>1, LeaveDoes
      DEF diskVars, memVars, Restoring, Unnamed
  <1>17. CASE Query(c)
    BY <1>17, <1>0, <1>4, QueryDoes
    DEF diskVars, memVars, At, Restoring, Unnamed, Idle
  <1>18. CASE OpenDataBase(c)
    <2>1. PICK n \in Names : n = thread[c].name
      BY <1>18, <1>1 DEF OpenDataBase, At, Unnamed
    <2>2. PICK o : o = Object(n, disk[n])
      OBVIOUS
    <2>3. /\ thread[c].pc = "open" /\ thread'[c].pc = "register"
          /\ thread'[c].name = n /\ thread'[c].ref = o /\ Loadable(n)
          /\ UNCHANGED <<disk, nameBase, suspect>>
      BY <1>18, <1>0, <2>1, <2>2, OpenDoes DEF diskVars, At
    <2>4. Busy(n) => Busy(n)'
      BY <1>1, <2>3 DEF Busy, Restoring
    <2>5. \A t \in Tables : disk[n][t] = IF o.open[t] > 0 THEN "good" ELSE "absent"
      <3>1. disk[n] \in Contents /\ made \in Nat
        BY <1>0, <2>3, LoadableType DEF TypeOK
      <3>2. \A t \in Tables : o.open[t] > 0 <=> disk[n][t] = "good"
        BY <2>2, <3>1, ObjectType
      <3>3. \A t \in Tables : disk[n][t] \in {"good", "absent"}
        BY <2>3, <3>1 DEF Loadable, Contents, Stages
      <3> QED BY <3>2, <3>3
    <2>6. ASSUME n \notin suspect, ~Busy(n) PROVE Pending(c) /\ Pending(c)'
      <3>1. Pending(c)
        BY <2>1, <2>3, <2>6 DEF PendingInv, Settled
      <3>2. \A d \in Clients \ {c} : thread'[d].name = n => thread'[d].pc \notin Unnamed
        BY <1>1, <2>1, <3>1 DEF Pending, Unnamed
      <3> QED BY <2>1, <2>3, <2>5, <3>1, <3>2 DEF Pending, Unnamed
    <2>7. Settled(c)'
      <3>1. Busy(thread[c].name)' <=> Busy(n)'
        BY <2>3 DEF Busy
      <3> QED BY <2>3, <2>4, <2>6, <3>1 DEF Settled, At
    <2>8. ASSUME NEW d \in Clients \ {c} PROVE Settled(d)'
      <3>1. PICK m : m = thread[d].name
        OBVIOUS
      <3>2. Settled(d)
        BY DEF PendingInv
      <3> QED BY <1>1, <2>1, <2>3, <3>1, <3>2, SettledStays
        DEF Unnamed, Restoring
    <2> QED BY <2>7, <2>8 DEF PendingInv
  <1>19. CASE Register(c)
    <2>1. PICK n \in Names : n = thread[c].name
      BY <1>19, <1>1 DEF Register, At, Unnamed
    <2>2. /\ thread[c].pc = "register" /\ thread'[c] = Idle /\ excl = Nobody
          /\ nameBase' = Named(n, NewId) /\ UNCHANGED <<disk, suspect>>
      BY <1>19, <1>0, <2>1, RegisterDoes DEF diskVars, At
    <2>3. DOMAIN nameBase' = DOMAIN nameBase \cup {n}
      BY <2>2 DEF Named
    <2>4. ~Busy(n)
      BY <1>5, <1>7, <2>2
    <2>5. ASSUME n \notin suspect, NEW d \in Clients \ {c}, thread[d].pc \in Unnamed,
                 thread[d].name = n
          PROVE  FALSE
      BY <1>5, <1>9, <2>1, <2>2, <2>4, <2>5 DEF Unnamed, Exclusive
    <2>6. Settled(c)' /\ thread'[c].pc \notin Unnamed
      BY <1>3, <2>2 DEF Unnamed, Idle
    <2> QED BY <1>2, <2>1, <2>2, <2>3, <2>5, <2>6 DEF Restoring
  <1>20. CASE CopyOut(c)
    BY <1>20, <1>0, <1>4, CopyOutDoes DEF memVars, At, Restoring, Unnamed, Idle
  <1>21. CASE BackedUp(c)
    BY <1>21, <1>0, <1>4, BackedUpDoes
    DEF memVars, At, Restoring, Unnamed, Idle
  <1>22. CASE RemoveStep(c)
    <2>1. PICK n \in Names : n = thread[c].name
      BY <1>22, <1>0, RemoveStepDoes
    <2>0. CASE UNCHANGED disk
      BY <1>22, <1>0, <2>0, RemoveStepDoes
      DEF memVars, PendingInv, Settled, Pending, Busy, At
    <2> SUFFICES ASSUME ~UNCHANGED disk PROVE PendingInv'
      BY <2>0
    <2>2. PICK x \in Contents : disk' = [disk EXCEPT ![n] = x]
      BY <1>22, <1>0, <2>1, RemoveStepDoes
    <2>3. /\ thread[c].pc \in {"remove", "wipe"}
          /\ UNCHANGED <<thread, nameBase, suspect>>
      BY <1>22, <1>0, RemoveStepDoes DEF memVars
    <2>4. \A d \in Clients \ {c} : thread[d].pc \notin Exclusive
      BY <1>6, <2>3 DEF Exclusive
    <2>5. Busy(n)' <=> Busy(n)
      BY <2>3 DEF Busy
    <2>6. ASSUME n \notin suspect, NEW d \in Clients \ {c}, thread[d].pc \in Unnamed,
                 thread[d].name = n, thread[d].pc \in {"open", "register"} => ~Busy(n)
          PROVE  FALSE
      <3>1. thread[d].pc \in {"open", "register"} /\ ~Busy(n)
        BY <2>4, <2>6 DEF Unnamed, Exclusive
      <3>2. thread[c].pc \in Unnamed
        BY <2>1, <2>3, <3>1 DEF Busy, Restoring, Unnamed
      <3> QED BY <1>9, <2>1, <2>6, <3>1, <3>2
    <2>7. Settled(c)'
      <3>1. disk'[n] # Null
        BY <1>1, <2>2, SystemAssumption
      <3> QED BY <2>1, <2>3, <3>1 DEF Settled, At
    <2> QED BY <1>1, <1>2, <2>1, <2>2, <2>3, <2>5, <2>6, <2>7
  <1>23. CASE Dropped(c)
    <2>1. PICK n \in Names : n = thread[c].name
      BY <1>23, <1>1 DEF Dropped, At, Unnamed
    <2>2. /\ thread[c].pc = "remove" /\ thread'[c] = Idle
          /\ UNCHANGED <<nameBase, suspect>>
          /\ disk' = disk \/ disk' = [disk EXCEPT ![n] = Null]
      BY <1>23, <1>0, <2>1, DroppedDoes DEF memVars, At
    <2>3. \A d \in Clients \ {c} : thread[d].pc \notin Exclusive
      BY <1>6, <2>2 DEF Exclusive
    <2>4. ~Busy(n)
      BY <2>2, <2>3 DEF Busy, Restoring, Exclusive
    <2>5. ASSUME n \notin suspect, NEW d \in Clients \ {c}, thread[d].pc \in Unnamed,
                 thread[d].name = n
          PROVE  FALSE
      BY <1>9, <2>1, <2>2, <2>3, <2>4, <2>5 DEF Unnamed, Exclusive
    <2>6. Settled(c)' /\ thread'[c].pc \notin Unnamed
      BY <1>3, <2>2 DEF Unnamed, Idle
    <2> QED BY <1>1, <1>2, <2>1, <2>2, <2>5, <2>6 DEF Restoring
  <1>24. CASE Wiped(c)
    <2>1. PICK n \in Names : n = thread[c].name
      BY <1>24, <1>0 DEF Wiped, ArgInv, Args, At
    <2>2. /\ thread[c].pc \in Restoring /\ thread'[c].pc \in Restoring
          /\ thread'[c].name = n /\ UNCHANGED <<nameBase, suspect>>
          /\ \A m \in Names \ {n} : disk'[m] = disk[m]
      BY <1>24, <1>0, <1>1, <2>1, WipedDoes
      DEF memVars, At, SameArgs, Restoring
    <2>3. Busy(n)' /\ thread'[c].pc \notin Unnamed
      BY <2>2 DEF Busy, Restoring, Unnamed
    <2>4. \A d \in Clients \ {c} : thread[d].pc # "remove"
      BY <1>6, <2>2 DEF Exclusive, Restoring
    <2> QED BY <1>2, <1>3, <2>1, <2>2, <2>3, <2>4 DEF Unnamed
  <1>25. CASE CopyIn(c)
    <2>1. PICK n \in Names : n = thread[c].name
      BY <1>25, <1>0 DEF CopyIn, ArgInv, Args, At
    <2>2. /\ thread[c].pc \in Restoring /\ thread'[c].pc \in Restoring
          /\ thread'[c].name = n /\ UNCHANGED <<nameBase, suspect>>
          /\ \A m \in Names \ {n} : disk'[m] = disk[m]
      BY <1>25, <1>0, <1>1, <2>1, CopyInDoes
      DEF memVars, At, SameArgs, Restoring
    <2>3. Busy(n)' /\ thread'[c].pc \notin Unnamed
      BY <2>2 DEF Busy, Restoring, Unnamed
    <2>4. \A d \in Clients \ {c} : thread[d].pc # "remove"
      BY <1>6, <2>2 DEF Exclusive, Restoring
    <2> QED BY <1>2, <1>3, <2>1, <2>2, <2>3, <2>4 DEF Unnamed
  <1>26. CASE RestoreFails(c)
    <2>1. PICK n \in Names : n = thread[c].name
      BY <1>26, <1>0 DEF RestoreFails, ArgInv, Args, At
    <2>2. /\ thread'[c] = Idle /\ suspect' = suspect \cup {n} /\ UNCHANGED nameBase
          /\ disk' = [disk EXCEPT ![n] = Null]
      BY <1>26, <1>0, <2>1, RestoreFailsDoes
    <2>3. thread'[c].pc \notin Unnamed
      BY <2>2 DEF Unnamed, Idle
    <2> QED BY <1>1, <1>2, <1>3, <2>1, <2>2, <2>3
  <1>27. CASE Construct(c)
    <2>1. PICK n \in Names : n = thread[c].name
      BY <1>27, <1>0, ConstructDoes
    <2>2. /\ thread[c].pc = "construct" /\ thread'[c] = Idle
          /\ nameBase' = Named(n, IdOf(n)) /\ UNCHANGED disk
          /\ suspect' \in {suspect \cup {n}, suspect \ {n}}
          /\ BeingMade(n) => suspect' = suspect \cup {n}
      BY <1>27, <1>0, <2>1, ConstructDoes DEF diskVars, At
    <2>3. DOMAIN nameBase' = DOMAIN nameBase \cup {n}
      BY <2>2 DEF Named
    <2>4. thread'[c].pc \notin Unnamed
      BY <2>2 DEF Unnamed, Idle
    <2>5. \A d \in Clients \ {c} : thread[d].pc # "remove"
      BY <1>6, <2>2 DEF Exclusive
    <2>6. ASSUME n \notin suspect', NEW d \in Clients \ {c}, thread[d].pc \in Unnamed,
                 thread[d].name = n
          PROVE  FALSE
      BY <2>2, <2>5, <2>6 DEF BeingMade, At, Unnamed
    <2> QED BY <1>2, <1>3, <2>1, <2>2, <2>3, <2>4, <2>6
  <1>28. CASE MakeTable(c)
    <2>1. PICK n \in Names : n = thread[c].name
      BY <1>28, <1>0, MakeTableDoes
    <2>2. /\ thread[c].pc \in Held /\ Alive(thread[c].ref)
          /\ thread'[c].pc \notin Unnamed /\ UNCHANGED <<nameBase, suspect>>
          /\ \A m \in Names \ {n} : disk'[m] = disk[m]
      <3>1. PICK t : t = thread[c].table
        OBVIOUS
      <3>2. /\ thread[c].pc = "check" /\ Alive(thread[c].ref)
            /\ UNCHANGED <<nameBase, suspect>>
            /\ \/ thread'[c] = Idle /\ UNCHANGED disk
               \/ /\ thread'[c].pc = "info"
                  /\ disk' = [disk EXCEPT ![n] = [disk[n] EXCEPT ![t] = "bad"]]
        BY <1>28, <1>0, <2>1, <3>1, MakeTableDoes DEF memVars, At
      <3> QED BY <1>1, <3>2 DEF Held, Unnamed, Idle
    <2>3. n \in DOMAIN nameBase
      BY <1>0, <2>1, <2>2 DEF NameInv
    <2>4. Busy(n) => Busy(n)'
      BY <1>1, <2>2 DEF Busy, Restoring, Held
    <2>5. ASSUME n \notin suspect, NEW d \in Clients \ {c}, thread[d].pc \in Unnamed,
                 thread[d].name = n, thread[d].pc \in {"open", "register"} => ~Busy(n)
          PROVE  FALSE
      BY <1>0, <1>9, <2>3, <2>5 DEF NameInv, At, Unnamed
    <2> QED BY <1>2, <1>3, <2>1, <2>2, <2>4, <2>5 DEF Restoring, Held
  <1>29. CASE WriteInfo(c)
    <2>1. PICK n \in Names : n = thread[c].name
      BY <1>29, <1>0, WriteInfoDoes
    <2>2. /\ thread[c].pc \in Held /\ Alive(thread[c].ref)
          /\ thread'[c].pc \notin Unnamed /\ UNCHANGED <<nameBase, suspect>>
          /\ \A m \in Names \ {n} : disk'[m] = disk[m]
      BY <1>29, <1>0, <1>1, <2>1, WriteInfoDoes
      DEF memVars, At, Held, Maker, Unnamed
    <2>3. n \in DOMAIN nameBase
      BY <1>0, <2>1, <2>2 DEF NameInv
    <2>4. Busy(n) => Busy(n)'
      BY <1>1, <2>2 DEF Busy, Restoring, Held
    <2>5. ASSUME n \notin suspect, NEW d \in Clients \ {c}, thread[d].pc \in Unnamed,
                 thread[d].name = n, thread[d].pc \in {"open", "register"} => ~Busy(n)
          PROVE  FALSE
      BY <1>0, <1>9, <2>3, <2>5 DEF NameInv, At, Unnamed
    <2> QED BY <1>2, <1>3, <2>1, <2>2, <2>4, <2>5 DEF Restoring, Held
  <1>30. CASE OpenTable(c)
    BY <1>30, <1>0, <1>4, OpenTableDoes
    DEF diskVars, memVars, At, Restoring, Unnamed, Idle
  <1>31. CASE Use(c)
    BY <1>31, <1>0, <1>4, UseDoes
    DEF diskVars, memVars, At, Restoring, Unnamed, Idle
  <1>32. CASE UseDestroyed(c)
    BY <1>32 DEF UseDestroyed, Terminate, Quiet
  <1> QED
    BY <1>10, <1>11, <1>12, <1>13, <1>14, <1>15, <1>16, <1>17, <1>18, <1>19,
       <1>20, <1>21, <1>22, <1>23, <1>24, <1>25, <1>26, <1>27, <1>28, <1>29,
       <1>30, <1>31, <1>32, Zenon
    DEF Begin, Step

AgreeInv == ~crashed => Agreed /\ PendingInv

LEMMA AgreeStep ==
  SystemInv /\ NamesLeadSomewhere /\ AgreeInv /\ [Next]_vars => AgreeInv'
  <1> SUFFICES ASSUME SystemInv, NamesLeadSomewhere, AgreeInv, [Next]_vars, ~crashed'
               PROVE  Agreed' /\ PendingInv'
    BY DEF AgreeInv
  <1>1. CASE Quiet /\ ~crashed
    <2>1. Agreed /\ PendingInv
      BY <1>1 DEF AgreeInv
    <2>2. UNCHANGED <<disk, bases, nameBase, suspect, thread>>
      BY <1>1 DEF Quiet, diskVars, memVars
    <2>3. Agreed'
      BY <2>1, <2>2 DEF Agreed, Agrees, Found, Creating, At, Alive, Places
    <2>4. PendingInv'
      BY <2>1, <2>2 DEF PendingInv, Settled, Pending, Busy, At
    <2> QED BY <2>3, <2>4
  <1>2. ASSUME ~crashed, ~Quiet, NEW c \in Clients, Begin(c) \/ Step(c)
        PROVE  Agreed' /\ PendingInv'
    <2>1. Agreed /\ PendingInv
      BY <1>2 DEF AgreeInv
    <2> QED BY <1>2, <2>1, AgreedStep, PendingStep
  <1>3. CASE Restart
    <2>1. /\ thread' = [c \in Clients |-> Idle]
          /\ \A n \in DOMAIN nameBase' :
                /\ disk'[n] \in Contents
                /\ \A t \in Tables :
                      /\ disk'[n][t] # "bad"
                      /\ bases'[nameBase'[n]].open[t] > 0
                            <=> disk'[n][t] = "good"
      BY <1>3, RestartDoes DEF SystemInv
    <2>2. ASSUME NEW n \in DOMAIN nameBase' PROVE Agrees(n)'
      <3>1. disk'[n] \in Contents /\ disk'[n] # Null
        BY <2>1, <2>2, SystemAssumption
      <3>2. \A t \in Tables : disk'[n][t] \in {"good", "absent"}
        BY <2>1, <2>2, <3>1 DEF Contents, Stages
      <3> QED BY <2>1, <2>2, <3>1, <3>2 DEF Agrees
    <2>3. Agreed'
      BY <2>2 DEF Agreed
    <2>4. PendingInv'
      BY <2>1 DEF PendingInv, Settled, At, Idle
    <2> QED BY <2>3, <2>4
  <1>4. CASE UNCHANGED vars
    BY <1>1, <1>4 DEF vars, Quiet, runVars
  <1> QED BY <1>1, <1>2, <1>3, <1>4 DEF Next

(***************************************************************************)
(* Memory and disk agree about every database that a name leads to, unless *)
(* a restore of it failed or met a creation: what createTable does in      *)
(* several steps and without the lock is found again after a crash, and    *)
(* what createDataBase read of the new directory is still so when it       *)
(* registers the database (DataBase.h 141-174, system.h 76-117, 170-262).  *)
(***************************************************************************)
THEOREM DiskAndMemoryAgree == Spec => []DiskAgrees
  <1>1. Init => AgreeInv
    <2> SUFFICES ASSUME Init PROVE Agreed /\ PendingInv
      BY DEF AgreeInv
    <2>1. PendingInv
      BY DEF Init, PendingInv, Settled, At, Idle
    <2> DEFINE o == [name |-> Default, gen |-> 1, open |-> [t \in Tables |-> 0]]
    <2>2. bases[1] = o /\ nameBase = [n \in {Default} |-> 1]
      BY DEF Init, FirstStart
    <2>3. \A t \in Tables : o.open[t] = 0
      OBVIOUS
    <2> HIDE DEF o
    <2>4. disk[Default] = NoTables /\ NoTables # Null
      BY SystemAssumption DEF Init, FirstStart, NoTables, Contents, Stages
    <2>5. Agreed
      BY <2>2, <2>3, <2>4 DEF Agreed, Agrees, NoTables
    <2> QED BY <2>1, <2>5
  <1>2. AgreeInv => DiskAgrees
    BY AgreedIs DEF AgreeInv
  <1> QED BY <1>1, <1>2, SystemAlways, NamesAreFound, AgreeStep, PTL DEF Spec
=============================================================================
