------------------------------- MODULE System -------------------------------
(***************************************************************************)
(* The databases of a server: class System with its directory tree, the    *)
(* createTable of class DataBase, and the commands and queries of the      *)
(* clients that reach them (CommandsExecutor, Operator).                   *)
(*                                                                         *)
(* A table on disk is "good" once its info file is written, which is all   *)
(* that opening it needs, and "bad" before: its directory alone, or an     *)
(* empty info file.  A database that holds a bad table cannot be opened.   *)
(* The process ends when an exception leaves a client thread, when a       *)
(* destroyed database is used (what it would do instead is undefined), or  *)
(* at any other moment, and starts again from the disk.                    *)
(*                                                                         *)
(* Ids count from 1 here and from 0 in the code.  suspect is not in the    *)
(* code: it remembers the names whose last restore failed or ran while a   *)
(* client was creating a database of that name.                            *)
(***************************************************************************)
EXTENDS Integers, Sequences, FiniteSets

CONSTANTS Clients,    \* the connected clients, a thread each
          Names,      \* the directories of databases that the clients name
          Default,    \* the database of a new server
          BackupDir,  \* the directory of the backups, which is one of them
          Tables,     \* the tables that the clients name
          Backups,    \* the backups that the clients name
          Nobody,     \* nobody holds bases_mtx exclusively
          Null,       \* no directory, a reset unique_ptr, or no argument
          Faults,     \* whether copying and removing files may fail
          MaxOps,     \* bound: the operations of all clients
          MaxStarts   \* bound: how often the server is started again

VARIABLES disk,      \* the tables in each database's directory
          backups,   \* the tables in each backup's directory
          bases,     \* bases: the databases in memory
          nameBase,  \* name_base
          made,      \* how many DataBase objects were made
          suspect,   \* the names whose last restore failed or met a creation
          excl,      \* who holds bases_mtx exclusively
          sharers,   \* who holds bases_mtx shared, for longer than a step
          thread,    \* what each client's thread is doing
          session,   \* ClientInfo, and the name it was attached by
          left,      \* the operations that may still begin
          starts,    \* how often the server was started again
          crashed    \* the process has ended

diskVars == <<disk, backups>>
memVars  == <<bases, nameBase, made, suspect>>
lockVars == <<excl, sharers>>
runVars  == <<left, starts, crashed>>
vars     == <<diskVars, memVars, lockVars, thread, session, runVars>>

Stages   == {"absent", "bad", "good"}
Contents == [Tables -> Stages]
NoTables == [t \in Tables |-> "absent"]

\* A DataBase object: how often each of its tables is open.
Objects == [name : Names, open : [Tables -> Nat], gen : Nat]

ASSUME SystemAssumption ==
    /\ IsFiniteSet(Names)
    /\ Default \in Names
    /\ BackupDir \in Names \ {Default}
    /\ Nobody \notin Clients
    /\ Null \notin Contents
    /\ Null \notin Objects
    /\ Faults \in BOOLEAN
    /\ MaxOps \in Nat
    /\ MaxStarts \in Nat

Locations == {"idle", "open", "register", "copyOut", "wipe", "copyIn",
              "construct", "remove", "check", "info", "openTable", "use"}

\* A thread: its place, the arguments of its command, its reference to a
\* database or the one it has made, and the tables it has still to copy.
ThreadStates == [pc : Locations, name : Names \cup {Null},
                 table : Tables \cup {Null}, backup : Backups \cup {Null},
                 ref : Objects \cup {Null}, todo : SUBSET Tables]

Idle == [pc |-> "idle", name |-> Null, table |-> Null, backup |-> Null,
         ref |-> Null, todo |-> {}]

TypeOK ==
    /\ disk \in [Names -> Contents \cup {Null}]
    /\ backups \in [Backups -> Contents \cup {Null}]
    /\ bases \in Seq(Objects \cup {Null})
    /\ DOMAIN nameBase \subseteq Names
    /\ \A n \in DOMAIN nameBase : nameBase[n] \in DOMAIN bases
    /\ made \in Nat /\ suspect \subseteq Names
    /\ excl \in Clients \cup {Nobody} /\ sharers \subseteq Clients
    /\ thread \in [Clients -> ThreadStates]
    /\ session \in [Clients -> [joined : BOOLEAN, id : Nat,
                                name : Names \cup {Null}]]
    /\ left \in Nat /\ starts \in Nat /\ crashed \in BOOLEAN

-----------------------------------------------------------------------------
At(c, l)   == thread[c].pc = l
Goto(c, l) == thread' = [thread EXCEPT ![c].pc = l]
Done(c)    == thread' = [thread EXCEPT ![c] = Idle]

\* An exception that Operator does not catch, or a bad access.
Terminate ==
    /\ crashed' = TRUE
    /\ UNCHANGED <<diskVars, memVars, lockVars, thread, session, left, starts>>

\* DataBase::DataBase opens every directory, and throws if it cannot: a table
\* without its info file, or a backup.
NoBackups   == \A b \in Backups : backups[b] = Null
Loadable(n) == /\ disk[n] # Null /\ \A t \in Tables : disk[n][t] # "bad"
               /\ n = BackupDir => NoBackups

Object(n, content) ==
    [name |-> n, gen |-> made + 1,
     open |-> [t \in Tables |-> IF content[t] = "good" THEN 1 ELSE 0]]

\* The place of the object of a reference, unless it was destroyed.
Places(o) == {i \in DOMAIN bases : /\ o # Null /\ bases[i] # Null
                                   /\ bases[i].gen = o.gen}
Alive(o)  == Places(o) # {}
Place(o)  == CHOOSE i \in Places(o) : TRUE

SharedFree == excl = Nobody
ExclFree   == excl = Nobody /\ sharers = {}

FirstStart ==
    /\ disk = [n \in Names |-> IF n \in {Default, BackupDir} THEN NoTables
                                                            ELSE Null]
    /\ backups = [b \in Backups |-> Null]
    /\ made = 1
    /\ bases = <<[name |-> Default, gen |-> 1,
                  open |-> [t \in Tables |-> 0]]>>
    /\ nameBase = [n \in {Default} |-> 1]

NoSession == [joined |-> FALSE, id |-> 0, name |-> Null]

Init ==
    /\ FirstStart
    /\ suspect = {}
    /\ excl = Nobody /\ sharers = {}
    /\ thread = [c \in Clients |-> Idle]
    /\ session = [c \in Clients |-> NoSession]
    /\ left = MaxOps /\ starts = 0 /\ crashed = FALSE

-----------------------------------------------------------------------------
(***************************************************************************)
(* A client's text is read: a query if the client is attached, else a      *)
(* command.  A refused command changes nothing but the budget.             *)
(***************************************************************************)
Ask(c) ==
    /\ At(c, "idle") /\ left > 0
    /\ left' = left - 1
    /\ UNCHANGED starts

Command(c) == ~session[c].joined /\ Ask(c) /\ UNCHANGED session

Refuse(c) == UNCHANGED <<diskVars, memVars, lockVars, thread, crashed>>

(***************************************************************************)
(* createDataBase: the directory and the object are made with no lock held *)
(* and registered under it.  create_directory decides who makes it.        *)
(***************************************************************************)
CreateDataBase(c, n) ==
    /\ Command(c)
    /\ \/ disk[n] # Null /\ Refuse(c)
       \/ /\ disk[n] = Null
          /\ disk' = [disk EXCEPT ![n] = NoTables]
          /\ thread' = [thread EXCEPT ![c].pc = "open", ![c].name = n]
          /\ UNCHANGED <<backups, memVars, lockVars, crashed>>

OpenDataBase(c) ==
    LET n == thread[c].name IN
    /\ At(c, "open")
    /\ \/ ~Loadable(n) /\ Terminate
       \/ /\ Loadable(n)
          /\ thread' = [thread EXCEPT ![c].ref = Object(n, disk[n]),
                                      ![c].pc = "register"]
          /\ made' = made + 1
          /\ UNCHANGED <<diskVars, bases, nameBase, suspect, lockVars, session,
                         runVars>>

\* Faulty variants of NewId: the id is taken after the push_back; the place
\* of a dropped database is taken again.
NewId_Late   == Len(bases) + 2
NewId_Reused == CHOOSE i \in 1 .. Len(bases) + 1 :
                   /\ i = Len(bases) + 1 \/ bases[i] = Null
                   /\ \A j \in 1 .. i - 1 : bases[j] # Null
NewId        == Len(bases) + 1

\* push_back, or the move into the old place.
Put(i, o) == IF i \in DOMAIN bases THEN [bases EXCEPT ![i] = o]
                                   ELSE Append(bases, o)

\* insert() keeps the id of a name that is there already.
Named(n, i) == [m \in DOMAIN nameBase \cup {n} |->
                   IF m \in DOMAIN nameBase THEN nameBase[m] ELSE i]

Register(c) ==
    /\ At(c, "register") /\ ExclFree
    /\ bases' = Put(NewId, thread[c].ref)
    /\ nameBase' = Named(thread[c].name, NewId)
    /\ Done(c)
    /\ UNCHANGED <<diskVars, made, suspect, lockVars, session, runVars>>

-----------------------------------------------------------------------------
(***************************************************************************)
(* Copying a directory: for each table its directory first, its files      *)
(* after it, as they are at that moment.                                   *)
(***************************************************************************)
CopyStep(from, to, t) ==
    IF to[t] = "absent" /\ from[t] # "absent"
    THEN [to EXCEPT ![t] = "bad"] ELSE [to EXCEPT ![t] = from[t]]

Copied(c, from, to, t) ==
    thread' = [thread EXCEPT ![c].todo = IF CopyStep(from, to, t)[t] = from[t]
                                         THEN @ \ {t} ELSE @]

\* Faulty variant of Taken: an existing backup is no obstacle.
Taken_Ignored(b) == \E c \in Clients : At(c, "copyOut") /\ thread[c].backup = b
Taken(b) == backups[b] # Null

\* A backup of the directory of the backups copies itself into itself, until
\* a path is too long; as a database it cannot be opened.
Itself == [t \in Tables |-> "bad"]

\* backUpDatabase, under the shared lock from here to the end of the copy.
\* With the directory of the backups gone, create_directory throws.
BackUp(c, n, b) ==
    /\ Command(c) /\ SharedFree
    /\ LET found == n \in DOMAIN nameBase /\ disk[n] # Null IN
       \/ ~(found /\ ~Taken(b)) /\ Refuse(c)
       \/ /\ found /\ disk[BackupDir] = Null
          /\ crashed' = TRUE
          /\ UNCHANGED <<diskVars, memVars, lockVars, thread>>
       \/ /\ found /\ ~Taken(b) /\ disk[BackupDir] # Null
          /\ backups' = [backups EXCEPT ![b] = IF n = BackupDir THEN Itself
                                                                ELSE NoTables]
          /\ sharers' = sharers \cup {c}
          /\ thread' = [thread EXCEPT ![c].pc = "copyOut", ![c].name = n,
                                      ![c].backup = b,
                                      ![c].todo = IF n = BackupDir THEN {}
                                                                   ELSE Tables]
          /\ UNCHANGED <<disk, memVars, excl, crashed>>

CopyOut(c) ==
    LET n == thread[c].name
        b == thread[c].backup
    IN /\ At(c, "copyOut")
       /\ \E t \in thread[c].todo :
             /\ backups' = [backups EXCEPT ![b] = CopyStep(disk[n], @, t)]
             /\ Copied(c, disk[n], backups[b], t)
       /\ UNCHANGED <<disk, memVars, lockVars, session, runVars>>

\* The copy is complete, or failed and is removed, or not even that.
BackedUp(c) ==
    /\ At(c, "copyOut")
    /\ \/ Faults /\ Terminate
       \/ /\ \/ /\ thread[c].todo = {} /\ thread[c].name # BackupDir
                /\ UNCHANGED backups
             \/ /\ Faults \/ thread[c].name = BackupDir
                /\ backups' = [backups EXCEPT ![thread[c].backup] = Null]
          /\ sharers' = sharers \ {c}
          /\ Done(c)
          /\ UNCHANGED <<disk, memVars, excl, session, runVars>>

-----------------------------------------------------------------------------
(***************************************************************************)
(* deleteDatabase and restoreDatabase, under the exclusive lock.  Neither  *)
(* looks whether the name is that of the directory of the backups.         *)
(***************************************************************************)
Reset(n) == bases' = [bases EXCEPT ![nameBase[n]] = Null]

\* Faulty variant of EraseName: the name stays.
EraseName_Forgotten(n) == UNCHANGED nameBase
EraseName(n) == nameBase' = [m \in DOMAIN nameBase \ {n} |-> nameBase[m]]

Drop(c, n) ==
    /\ Command(c) /\ ExclFree
    /\ \/ n \notin DOMAIN nameBase /\ Refuse(c)
       \/ /\ n \in DOMAIN nameBase
          /\ Reset(n)
          /\ EraseName(n)
          /\ excl' = c
          /\ thread' = [thread EXCEPT ![c].pc = "remove", ![c].name = n]
          /\ UNCHANGED <<diskVars, made, suspect, sharers, crashed>>

RestoreDatabase(c, b, n) ==
    /\ Command(c) /\ ExclFree
    /\ \/ backups[b] = Null /\ Refuse(c)
       \/ /\ backups[b] # Null
          /\ IF n \in DOMAIN nameBase THEN Reset(n) ELSE UNCHANGED bases
          /\ excl' = c
          /\ thread' = [thread EXCEPT ![c].pc = "wipe", ![c].name = n,
                                      ![c].backup = b]
          /\ UNCHANGED <<diskVars, nameBase, made, suspect, sharers, crashed>>

\* remove_all takes a file or a directory at a time, and the backups with the
\* directory they are in.
RemoveStep(c) ==
    LET n == thread[c].name IN
    /\ At(c, "remove") \/ At(c, "wipe")
    /\ \/ /\ \E t \in Tables, s \in {"bad", "absent"} :
                /\ disk[n] # Null /\ disk[n][t] \notin {"absent", s}
                /\ disk' = [disk EXCEPT ![n][t] = s]
          /\ UNCHANGED backups
       \/ /\ n = BackupDir
          /\ \E b \in Backups :
                \/ /\ backups[b] = NoTables
                   /\ backups' = [backups EXCEPT ![b] = Null]
                \/ \E t \in Tables, s \in {"bad", "absent"} :
                      /\ backups[b] # Null /\ backups[b][t] \notin {"absent", s}
                      /\ backups' = [backups EXCEPT ![b][t] = s]
          /\ UNCHANGED disk
    /\ UNCHANGED <<memVars, lockVars, thread, session, runVars>>

Empty(n) == disk[n] \in {Null, NoTables} /\ (n = BackupDir => NoBackups)

\* The directory is gone, or removing it failed.
Dropped(c) ==
    LET n == thread[c].name IN
    /\ At(c, "remove")
    /\ \/ Empty(n) /\ disk' = [disk EXCEPT ![n] = Null]
       \/ Faults /\ UNCHANGED disk
    /\ excl' = Nobody
    /\ Done(c)
    /\ UNCHANGED <<backups, memVars, sharers, session, runVars>>

Wiped(c) ==
    LET n == thread[c].name IN
    /\ At(c, "wipe") /\ Empty(n)
    /\ disk' = [disk EXCEPT ![n] = NoTables]
    /\ thread' = [thread EXCEPT ![c].pc = "copyIn", ![c].todo = Tables]
    /\ UNCHANGED <<backups, memVars, lockVars, session, runVars>>

CopyIn(c) ==
    LET n == thread[c].name
        b == thread[c].backup
    IN /\ At(c, "copyIn") /\ backups[b] # Null
       /\ \/ \E t \in thread[c].todo :
                /\ disk' = [disk EXCEPT ![n] = CopyStep(backups[b], @, t)]
                /\ Copied(c, backups[b], disk[n], t)
          \/ thread[c].todo = {} /\ Goto(c, "construct") /\ UNCHANGED disk
       /\ UNCHANGED <<backups, memVars, lockVars, session, runVars>>

\* A failure removes what is there, or not even that, and leaves the name
\* without a database.  A restore over the directory of the backups always
\* fails: it has removed what it was to copy.
RestoreFails(c) ==
    LET n == thread[c].name IN
    /\ At(c, "wipe") \/ At(c, "copyIn")
    /\ \/ Faults /\ Terminate
       \/ /\ \/ Faults
             \/ At(c, "copyIn") /\ backups[thread[c].backup] = Null
          /\ disk' = [disk EXCEPT ![n] = Null]
          /\ backups' = IF n = BackupDir THEN [b \in Backups |-> Null]
                                         ELSE backups
          /\ suspect' = suspect \cup {n}
          /\ excl' = Nobody
          /\ Done(c)
          /\ UNCHANGED <<bases, nameBase, made, sharers, session, runVars>>

BeingMade(n) == \E c \in Clients : /\ At(c, "open") \/ At(c, "register")
                                   /\ thread[c].name = n

Construct(c) ==
    LET n  == thread[c].name
        id == IF n \in DOMAIN nameBase THEN nameBase[n] ELSE NewId
    IN /\ At(c, "construct")
       /\ \/ ~Loadable(n) /\ Terminate
          \/ /\ Loadable(n)
             /\ bases' = Put(id, Object(n, disk[n]))
             /\ nameBase' = Named(n, id)
             /\ made' = made + 1
             /\ suspect' = IF BeingMade(n) THEN suspect \cup {n}
                                           ELSE suspect \ {n}
             /\ excl' = Nobody
             /\ Done(c)
             /\ UNCHANGED <<diskVars, sharers, session, runVars>>

-----------------------------------------------------------------------------
(***************************************************************************)
(* createTable: the database is looked up under the lock and used after    *)
(* it.  A name that is not there throws out_of_range, which nobody         *)
(* catches; a name whose database is gone gives a null reference.          *)
(***************************************************************************)
CreateTable(c, n, t) ==
    /\ Command(c) /\ SharedFree
    /\ \/ /\ n \notin DOMAIN nameBase
          /\ crashed' = TRUE /\ UNCHANGED thread
       \/ /\ n \in DOMAIN nameBase
          /\ thread' = [thread EXCEPT ![c].pc = "check", ![c].name = n,
                                      ![c].table = t,
                                      ![c].ref = bases[nameBase[n]]]
          /\ UNCHANGED crashed
    /\ UNCHANGED <<diskVars, memVars, lockVars>>

\* Faulty variant of DirectoryThere: create_directory's result is ignored.
DirectoryThere_Ignored(n, t) == FALSE
DirectoryThere(n, t) == disk[n][t] # "absent"

\* The look into tabbles_name, unlocked, and create_directory, which throws
\* if the database's directory is gone.
MakeTable(c) ==
    LET n == thread[c].name
        t == thread[c].table
        o == thread[c].ref
    IN /\ At(c, "check") /\ Alive(o)
       /\ \/ disk[n] = Null /\ Terminate
          \/ /\ disk[n] # Null
             /\ IF bases[Place(o)].open[t] > 0 \/ DirectoryThere(n, t)
                THEN Done(c) /\ UNCHANGED disk
                ELSE /\ disk' = [disk EXCEPT ![n][t] =
                                    IF @ = "absent" THEN "bad" ELSE @]
                     /\ Goto(c, "info")
             /\ UNCHANGED <<backups, memVars, lockVars, session, runVars>>

\* Faulty variant of WriteInfo: the file is closed after openTabble.
WriteInfo_Late(c) ==
    /\ At(c, "info") /\ Alive(thread[c].ref)
    /\ Goto(c, "openTable")
    /\ UNCHANGED <<diskVars, memVars, lockVars, session, runVars>>

WriteInfo(c) ==
    /\ At(c, "info") /\ Alive(thread[c].ref)
    /\ disk' = [disk EXCEPT ![thread[c].name][thread[c].table] = "good"]
    /\ Goto(c, "openTable")
    /\ UNCHANGED <<backups, memVars, lockVars, session, runVars>>

OpenTable(c) ==
    LET o == thread[c].ref IN
    /\ At(c, "openTable") /\ Alive(o)
    /\ bases' = [bases EXCEPT ![Place(o)].open[thread[c].table] = @ + 1]
    /\ Done(c)
    /\ UNCHANGED <<diskVars, nameBase, made, suspect, lockVars, session,
                   runVars>>

-----------------------------------------------------------------------------
(***************************************************************************)
(* ATTACH, LEAVE, and a query, which looks its database up by id under the *)
(* lock and uses it after it.                                              *)
(***************************************************************************)
Attach(c, n) ==
    /\ ~session[c].joined /\ Ask(c) /\ SharedFree
    /\ IF n \in DOMAIN nameBase
       THEN session' = [session EXCEPT ![c] = [joined |-> TRUE, name |-> n,
                                               id |-> nameBase[n]]]
       ELSE UNCHANGED session
    /\ UNCHANGED <<diskVars, memVars, lockVars, thread, crashed>>

Leave(c) ==
    /\ session[c].joined /\ Ask(c)
    /\ session' = [session EXCEPT ![c].joined = FALSE]
    /\ UNCHANGED <<diskVars, memVars, lockVars, thread, crashed>>

Query(c) ==
    /\ session[c].joined /\ Ask(c) /\ SharedFree
    /\ thread' = [thread EXCEPT ![c].pc = "use",
                                ![c].ref = bases[session[c].id]]
    /\ UNCHANGED <<diskVars, memVars, lockVars, session, crashed>>

\* The query is done on a live database, or refused before it reaches one.
Use(c) ==
    /\ At(c, "use")
    /\ Done(c)
    /\ UNCHANGED <<diskVars, memVars, lockVars, session, runVars>>

\* A reference is used after its database was destroyed.
UseDestroyed(c) ==
    /\ \E l \in {"check", "info", "openTable", "use"} : At(c, l)
    /\ ~Alive(thread[c].ref)
    /\ Terminate

-----------------------------------------------------------------------------
(***************************************************************************)
(* The process ends, and starts again: every directory that can be opened  *)
(* is a database, in the order in which the directory lists them, the      *)
(* directory of the backups included while there are none.  It is made     *)
(* anew where it is missing, and the default database where all is.        *)
(***************************************************************************)
Listings(S) == {s \in [1 .. Cardinality(S) -> S] :
                   \A i, j \in DOMAIN s : s[i] = s[j] => i = j}

LoadFoldersAndOpenBases ==
    LET made0  == IF \A n \in Names : disk[n] = Null THEN {Default} ELSE {}
        loaded == {n \in Names : Loadable(n)} \cup made0
        in(n)  == IF disk[n] = Null /\ n \in made0 \cup {BackupDir}
                  THEN NoTables ELSE disk[n]
    IN /\ disk' = [n \in Names |-> in(n)]
       /\ \E s \in Listings(loaded) :
          /\ bases' = [i \in DOMAIN s |->
                          [Object(s[i], in(s[i])) EXCEPT !.gen = made + i]]
          /\ nameBase' = [n \in loaded |-> CHOOSE i \in DOMAIN s : s[i] = n]
          /\ made' = made + Cardinality(loaded)

Restart ==
    /\ starts < MaxStarts
    /\ starts' = starts + 1
    /\ LoadFoldersAndOpenBases
    /\ suspect' = {}
    /\ excl' = Nobody /\ sharers' = {}
    /\ thread' = [c \in Clients |-> Idle]
    /\ session' = [c \in Clients |-> NoSession]
    /\ crashed' = FALSE
    /\ UNCHANGED <<backups, left>>

-----------------------------------------------------------------------------
\* What CommandsParser makes of a text.  SHOW, HELP and texts that are no
\* command change nothing and have no action.
Begin(c) ==
    \/ \E n \in Names : CreateDataBase(c, n) \/ Drop(c, n) \/ Attach(c, n)
    \/ \E n \in Names, b \in Backups :
          BackUp(c, n, b) \/ RestoreDatabase(c, b, n)
    \/ \E n \in Names, t \in Tables : CreateTable(c, n, t)
    \/ Leave(c) \/ Query(c)

Step(c) ==
    \/ OpenDataBase(c) \/ Register(c) \/ CopyOut(c) \/ BackedUp(c)
    \/ RemoveStep(c) \/ Dropped(c) \/ Wiped(c) \/ CopyIn(c) \/ RestoreFails(c)
    \/ Construct(c) \/ MakeTable(c) \/ WriteInfo(c) \/ OpenTable(c)
    \/ Use(c) \/ UseDestroyed(c)

Next ==
    \/ ~crashed /\ \E c \in Clients : Begin(c) \/ Step(c)
    \/ Restart

Spec == Init /\ [][Next]_vars

-----------------------------------------------------------------------------
Found(i) == i \in DOMAIN bases /\ bases[i] # Null

(***************************************************************************)
(* A name and an id lead to the database of that name or to none, never to *)
(* another one: ids survive drops, restores and new databases, so a client *)
(* that stays attached meanwhile works on the database it named            *)
(* (system.h 76-117, 170-262, CommandsExecutor.h 28-37, Operator.h 31).    *)
(***************************************************************************)
IdsNeverMove ==
    /\ \A n \in DOMAIN nameBase :
          Found(nameBase[n]) => bases[nameBase[n]].name = n
    /\ \A c \in Clients : LET s == session[c] IN
          s.joined /\ Found(s.id) => bases[s.id].name = s.name

(***************************************************************************)
(* A table is opened once: two clients that create the same table do not   *)
(* both succeed, although the look into tabbles_name holds no lock         *)
(* (DataBase.h 100-102, 141-174).                                          *)
(***************************************************************************)
TablesOpenedOnce ==
    \A i \in DOMAIN bases : Found(i) =>
        \A t \in Tables : bases[i].open[t] <= 1

Creating(n, t) == {c \in Clients : /\ At(c, "info") \/ At(c, "openTable")
                                   /\ Alive(thread[c].ref)
                                   /\ thread[c].name = n
                                   /\ thread[c].table = t}

(***************************************************************************)
(* Memory and disk agree about every database that a name leads to, unless *)
(* a restore of it failed or met a creation: its open tables are complete  *)
(* on disk, so a restart finds them, and whatever else is in its directory *)
(* is being created by a client (DataBase.h 141-174, system.h 88-117,      *)
(* 170-262).                                                               *)
(***************************************************************************)
DiskAgrees ==
    ~crashed => \A n \in DOMAIN nameBase \ suspect :
        Found(nameBase[n]) =>
            /\ disk[n] # Null
            /\ \A t \in Tables :
                  IF bases[nameBase[n]].open[t] > 0 THEN disk[n][t] = "good"
                  ELSE disk[n][t] # "absent" => Creating(n, t) # {}

(***************************************************************************)
(* A name is registered with a database behind it, except while a restore  *)
(* replaces it and after one failed or met a creation of that name:        *)
(* commands that find the name find the database (system.h 76-87,          *)
(* 170-262).                                                               *)
(***************************************************************************)
NamesLeadSomewhere ==
    \A n \in DOMAIN nameBase :
        \/ Found(nameBase[n])
        \/ n \in suspect
        \/ \E c \in Clients : excl = c /\ thread[c].name = n

Complete(b) ==
    /\ backups[b] # Null
    /\ \A c \in Clients : ~(At(c, "copyOut") /\ thread[c].backup = b)

\* A client drops the directory of the backups, or restores over it.
BackupsGoing == \E c \in Clients :
    /\ thread[c].pc \in {"remove", "wipe", "copyIn"}
    /\ thread[c].name = BackupDir

(***************************************************************************)
(* Only a drop of the directory of the backups, or a restore that names it *)
(* as its database, changes a complete backup: no later backup of the same *)
(* name does, no other restore or drop, no failure, crash or restart.      *)
(* Those two do remove every backup, because neither looks at the name it  *)
(* is given (system.h 124-168, 170-262).                                   *)
(***************************************************************************)
BackupsKept ==
    [][\A b \in Backups :
          Complete(b) /\ ~BackupsGoing => backups'[b] = backups[b]]_vars
=============================================================================
