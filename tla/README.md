# SQLid: a TLA+ verification project

SQLid is a file-based database server in C++: every table is one memory-mapped
file of fixed-length lines, the *id* of a row is its line number, and a thread
per TCP connection works on the tables. This project models the parts of it that
are shared between threads or survive a crash, checks them with TLC on small
instances and proves the main safety results with TLAPS for instances of any
size. Paths below are relative to the repository.

## 1. Inventory

| Component | State | Operations | Hard behaviour | What makes it correct |
|---|---|---|---|---|
| `files/MemoryMap.h`, `files/MemoryMapLinux.h`: striped memory map | the mapping, `fileSize`, 128 stripe locks, flag `expanding` | read, write, activate, deactivate a line; `expand` | readers and writers racing an expansion; a size read without a lock; failing system calls | accesses are atomic and mapped; an expansion keeps what is stored; everybody gets on |
| `files/Tabble.h`: table | stack of free lines, `freeId`, `activePlaces`; flags and columns in the file | `allocateId`, `insert`, `update`, `erase`, `analyzeHoles` on opening | load and `fetch_add` of `freeId` by several clients; crash between any two stores | a scan reaches every row; ids lie in the file; a line is a row, free, or in one thread's hands |
| `data_base/Executor.h`: query execution | none of its own | the scans of SELECT, DELETE and UPDATE, LIMIT, ORDER BY | bounds of scans; values read while others write | the rows returned or changed are those of the WHERE clause |
| `files/Optimizer.h`, `parser/Conditions.h` | none | splits conditions into index bounds and column conditions | off-by-one at bounds, conditions dropped | keeps the meaning of WHERE |
| `parser/RequestParser.h`, `parser/Query.h` | none | clauses of a query | clause order, directions of ORDER BY | as documented in `documentary.md` |
| `files/InfoLoader.h` | column names, types, offsets | load | a truncated file | offsets partition a line |
| `data_base/DataBase.h`: database | tables and their names | `createTable`, `optimizing` | the name is checked without the lock; crash half-way | a name has one table; a half-made table hurts nobody else |
| `system/system.h`: system | databases, their names, directories | create, drop, backup, restore, load | a database dropped while in use; restore that fails half-way; crash | a name leads to a live database; a failed restore loses nothing |
| `data_base/CommandsExecutor.h`, `parser/Commands*.h` | `baseId`, `joinedToDataBase` of the client | dispatch | the attached database changes under the client | commands reach the database they name |
| `clients/SyncServer.h`, `Base.h`, `Client.h`, `Operator.h`: server | tables of clients and threads, `add_mtx`, stop requests | accept, serve, LEAVE, DISCONNECT, `shutdownAll` | shutdown racing accept and start of threads; clients that stall or die | every request answered; threads of dead clients end; the server can be turned off |
| `include/SQLid_API.h`: client library | one socket | connect, request, destructor | dies anywhere | - |
| `files/MemoryMapWindows.h`, `result/`, `parser/Help.h`, `SQLid.cpp` | - | I/O, formatting, the Windows mapping | - | - |

Interaction: a client thread (`SyncServer::processQueries`) calls `Operator`,
which parses the text, finds the database (`System`), optimizes the query against
the table (`DataBase`, `Optimizer`) and executes it (`Executor`), which calls the
table (`Tabble`), which calls its file (`MemoryMap`). All clients share the
databases, tables and files; there are no transactions.

The hazards are listed, each at its line, in `PROJECT.json`.

## 2. Plan

The modules and what they build on:

| Module | Models | Uses |
|---|---|---|
| `Storage` | the promise of a file: an array of atomic lines that grows | - |
| `MemoryMap` | striped memory map | implements `Storage` |
| `Table` | the promise of a table to one client: rows that come, change and go whole | - |
| `Tabble` | table, over a file at the level of `Storage` | implements `Table` for one client |
| `RowFormat` | layout of a line, reads and writes of its columns | - |
| `Query` | parser, optimizer and executor of statements, over the bytes of `RowFormat` | `RowFormat` |
| `System` | databases on disk and in memory, commands | - |
| `SyncServer` | connections, threads, shutdown | - |
| `MemoryMapProofs` | theorems about `MemoryMap` | `MemoryMap` |
| `TabbleProofs` | theorems about `Tabble`: any clients; one client and `Table`; `activePlaces` | `Tabble` |
| `RowFormatProofs` | theorems about `RowFormat` | `RowFormat` |
| `SyncServerProofs` | theorems about `SyncServer` | `SyncServer` |
| `SystemProofs` | theorems about `System` | `System` |
| `QueryProofs`, `QueryChangeProofs`, `QueryScanProofs` | theorems about `Query`: types; what a statement changes and shows; which rows a scan takes | `Query`, `RowFormatProofs`; each extends the one before |

`MC*` modules give the instances for TLC.

## 3. Modules

### Storage and MemoryMap

`Storage` is the promise: an array of lines, read and written atomically, which
only grows. `MemoryMap` is the code: `pc[t]` walks a thread through
`writeNumber`/`writeText`/`activate`/`deactivate` (kinds `write` and `set`),
`readNumber`/`isActive` (`read`), `readText` and its caller's copy of the
`string_view` (`view`) and the size check of `allocateId` (`reserve`).

* `excl` and `shared` are the stripe locks; `held` counts the locks of `expand`.
* `mapped`, `gen`, `fileSize` and `diskSize` are the mapping, its identity, the
  published size and the length of the file, all in lines.
* A value is two words, `word1` and `word2`, copied in two steps: a `memcpy` is
  not atomic, and a missing lock shows as a torn value.
* `expand` is one action per line that matters: compare-exchange, spin, each
  stripe, `munmap`, `ftruncate`, `mmap` with the assignment of `fileSize`, the
  store to `expanding`, the destructors of the locks. `ExpandThrows` is a failed
  `ftruncate` or `mmap`: stripes are released, the mapping and the flag are not
  restored.
* `fileSize` is read without a lock, which is a data race on a `size_t`; on the
  supported 64-bit builds such a read returns the old or the new value, and the
  model reads one of the two, by interleaving.
* `Requestable` is the assumption on callers: they ask for a line of the file, or
  one that the next doubling provides. `Tabble` is where this is examined.

`Abstract == INSTANCE Storage WITH ...` maps a line to its second word (a write
takes effect when it is complete) and `size` to `fileSize`.

### Tabble

One action per storage call or atomic operation of `insert`, `erase`, `update`
and `allocateId`, and `Reopen`, the end of the process at any moment followed by
`analyzeHoles` on what the shared mapping had stored. The process can end inside
any operation: a kill, an uncaught exception (a text longer than the rest of its
line in UPDATE throws `runtime_error` out of the client thread) and an orderly
end that leaves a client thread behind all look like this to the file.
The storage is used at the level of `Storage`; of `expand` the model keeps the
flag, the exclusion while all stripes are held and the unlocked read of the size.
`activePlaces` is a `size_t` and wraps at `SizeMax`.

`Table` is what one client may rely on: rows appear, change and go whole, under an
id no other row has, and the end of the process harms at most the row it
interrupts. `AsTable == INSTANCE Table WITH ...` maps a line to its row (`RowSeen`):
a row counts as inserted with its last column and as updated with its first, so
that a row is seen whole although its columns are written one by one.

### RowFormat and Query

`RowFormat` is a line as bytes: the length `createTable` gives it, the offsets
`InfoLoader` computes, and what `readText`, `readNumber`, `writeText`, `writeNumber`
and `parse_value` do to it. It has no state.

`Query` follows a statement of each client from its words to its answer. A
statement is a verb, column names, values and clauses, each clause with its
conditions or keys; how words are spelt is left out.

* `WhereOf`, `LimitOf`, `OrderOf` and `Misplaced` are the parser: a clause is
  recognised by its place, and what stands elsewhere is ignored, taken for a
  condition or refused.
* `Conditions`, `ColumnsOf`, `KeyAt`, `Target` and `Bytes` are the optimizer.
  Conditions on the id become bounds at the front, the last one first; the AND or
  OR beside them stays where it was; other comparisons of the id vanish.
* `Refused` is every exception on the way to the executor. Most are caught and
  answered; `Uncaught` says when the first one is that of `std::stoul` or
  `std::stoi` about a word in the WHERE, which nobody catches and which ends the
  process. A value that is no number is one of several bytes where a number is due.
* The executor is one action per locked access: `Bound` and `Count` load `freeId`
  and `activePlaces`, `ScanLine` reads a flag, `Test` evaluates one condition (from
  left to right, without precedence), `ReadColumn` and `WriteColumn` are one column,
  `EndScan` sorts. `Deactivate`, `PushInStack`, `Uncount` are `erase`; `PopFreeId` to
  `CountInserted` are `insert`, for each row of a multi-row INSERT.
* `Crash` is the end of the process: a line beyond the file (`findLine` is null),
  the exceptions of `stoul`, `stoi`, `reserve` and `writeText` that nobody catches,
  and a bound evaluated as a condition, which calls through an element beyond
  `functions[]`: `Met` lets that call return anything, too.
* The reference semantics after `Spec` reads the words the client wrote, not what
  the optimizer made of them: `Wanted` says which rows a statement is about,
  `WellPosed` which statements have a defined behaviour: clauses in the documented
  order, conditions with an AND or OR between each two, ids within the file, texts
  that fit. Of two bounds of a kind the first one written counts (`First`), which is
  what putting the last one in front and reading the backmost comes to.
* Columns and values of a statement may be missing, as the parser allows: a SELECT
  or UPDATE of no columns reports the ids of its rows and an INSERT of no values
  inserts nothing.
* `OnlyWantedRows` and `EveryWantedRow` are the two halves of an answer: it has no
  row that the WHERE does not ask for, and leaves one out only behind the LIMIT or
  for a row that came meanwhile. `ChangesAsTold` speaks of every line of the file,
  `RecordsShowRows` of the values of a SELECT and their order.
* Where the code contradicts the documentation, the reference semantics does not
  follow the code: the property excepts the case by name. `id <= y` includes `y`
  (`InBounds`), and `EveryWantedRow` says that no answer lacks a row (`Lacking`) but
  the one at that bound (`AtBound`), where the code stops. An UPDATE gives its
  columns their values, and `ChangesAsTold` leaves open what becomes of a text that
  is replaced by a shorter one (`Shorter`), of which the code keeps the end.
  `RecordsShowRows` says that the records are sorted by the named columns, one of
  ASC and DESC rising and the other falling (`Ordered`, `InFront`), and not which is
  which: in the code it is ASC that falls. Section 4 lists these disagreements.
* `touched` and `snap` are not in the code: the lines others changed while a
  statement ran, and the file when it began. There are no transactions, so the
  properties promise a statement something only for rows nobody else touches.

The file of `Query` does not grow and the table has one thread that changes it and
one that reads; growth and competing inserts are in `Tabble`.

### SyncServer

The acceptor thread, the thread of each connection, the main thread in
`shutdownAll` and in the implicit destructor, and the clients. A request is its
length and its text, sent and read separately, so that a client can die between
them. `readNumber`'s error is discarded by the code, and an empty text is read
without touching the socket: a client that connects and goes is therefore served
an empty command, which the model does too. The error that is looked at after
`readNumber` is the previous one, which only a LEAVE whose answer could not be sent
leaves set: the thread then reads one more length (`failed`, `discard`) and ends.
Closing a socket makes the blocked call of another thread return with an error,
which is the best the platforms
offer (on Linux such a call may stay blocked); the results about shutdown are
under this favourable reading. Left out: what requests do to databases, and
exceptions that `Operator` does not catch, which end the process (`Query` and
`System` have them). The 8 bytes of
a length arrive together.

### System

The databases: `disk` and `backups` are the directory tree, `bases` and
`nameBase` the members of class `System`, `excl` and `sharers` its `bases_mtx`,
`thread` the place and the arguments of each client's thread, `session` the part
of `ClientInfo` that ATTACH sets. A table on disk is absent, bad or good: good
once its info file is complete, which is all that opening it needs; a database
with a bad table cannot be opened.

* `createDataBase` makes the directory and the object without the lock and
  registers it under the lock (`CreateDataBase`, `OpenDataBase`, `Register`);
  `createTable` looks the database up under the lock and goes on without it
  (`CreateTable`, `MakeTable`, `WriteInfo`, `OpenTable`); a query does the same
  (`Query`, `Use`).
* `BackupDir`, the directory of the backups, is one of the names, because it lies
  among the databases and no command looks at that: a client can back it up, drop
  it, restore over it, and attach to it once a restart has loaded it, which happens
  while it holds no backups (`NoBackups`, `Loadable`). Removing it removes the
  backups in it (`RemoveStep`), a backup of it copies itself into itself until that
  fails (`Itself`), and a restore over it has removed what it was to copy
  (`RestoreFails`). `BackupsKept` says that complete backups stay in every step but
  those of a drop of that directory or a restore over it (`BackupsGoing`), which do
  remove all of them.
* Backup holds the lock shared, drop and restore exclusively, over steps that copy
  or remove one table's directory or files at a time.
* `Faults` lets copying and removing fail: the code's `catch` is the second half
  of `BackedUp`, `Dropped` and `RestoreFails`; its `remove_all` may throw again,
  which nobody catches (`Terminate`).
* `Terminate` is also an exception that `Operator` does not catch (an unknown
  database in CREATE TABLE, a bad table met by a restore) and, in `UseDestroyed`,
  the use of a database after a drop or restore destroyed it. The latter is
  undefined behaviour; the model does not follow it past that point.
* `Restart` ends the process anywhere and loads what the disk holds, in any order.
* `suspect` is not in the code. It holds the names whose last restore failed or
  ran while a client was creating that name; the code leaves those in a state that
  `DiskAgrees` and `NamesLeadSomewhere` do not describe (see section 4).

## 4. Runs

| Run | Instance | Question | Result |
|---|---|---|---|
| `mm_safety` | 3 threads, 2 stripes, lines 0-2, file of 2 lines, one operation each | are locked accesses mapped, and does the file implement `Storage`? | holds |
| `mm_faults` | same, one value, failing `ftruncate`/`mmap` | does the file stay as long as the published size, is the mapping rebuilt by one thread alone, and does every operation end? | holds; operations end under weak fairness unless a failed expansion broke the table (`Broken`) |
| `mm_view` | as `mm_safety` | is a text still mapped when the caller copies it? | violated: `readText` returns a view and releases the stripe |
| `tab_concurrent` | 2 clients inserting and updating, one of them deleting, file of 2 lines, 3 operations each, 1 crash | does a scan reach every row, does every touched line exist, and is `activePlaces`, which ends scans early, at least the number of rows when nothing is under way? | holds |
| `tab_single` | 1 client, 2 columns, 2 values, 5 operations, 2 crashes | is every line below `freeId` a row, free once, or in hand, is `freeId` within the file, and does the table implement `Table`? | holds |
| `tab_ids_insert` | 2 inserting clients | does `insert` take a line that no row has? | violated: both load `freeId` before either adds |
| `srv_serve` | 2 clients, 3 requests in all, no shutdown | are requests answered, in the mode the client was told, and do the threads of dead clients end? | holds |
| `srv_stop` | 2 clients, 1 request, shutdown at any time | does a shutdown end when it meets no starting thread and no half-registered connection? | holds |
| `srv_shutdown` | 1 client | does every shutdown end ("ENTER 0 TO TURN OFF")? | violated: `threads.clear()` joins, under `add_mtx`, a thread that waits for `add_mtx` |
| `sys_disk` | 3 clients, 3 names, one of them that of the directory of the backups, 1 table, 1 backup, 5 operations, failing file operations, 1 restart | do ids and names lead to the right database, do memory and disk agree, is a table opened once, do complete backups stay as they are while nobody removes the directory they are in? | holds |
| `qry_answers` | every table of 3 lines over 2 rows, an erased one and new lines; columns `name STRING[2]` and `age BOOL`; a client with 9 reading statements, one with 10 changing ones, one statement each | are the rows selected, deleted and updated those of the WHERE, are changes and records what the statement says, and does no well-posed statement end the process? | holds |
| `qry_counter` | 3 lines, a client that inserts and one that deletes by id and selects, 3 statements each | does a well-posed statement never end the process? | violated: `activePlaces` wraps below zero between the flag of a row and its count, and `reserve(SIZE_MAX)` throws |

Deadlock is not checked: the workload is bounded, so every behaviour ends in a
state where nobody has anything left to do. Waiting for ever is what the liveness
properties exclude.

Other limits of the code that the same modules show when their instances are
changed, and that the passing runs exclude by their constants:

* two clients that delete the same row both push its line on the stack and both
  subtract from `activePlaces` (`tab_concurrent` has one deleting client,
  `tab_single` one client);
* with two inserting clients `freeId` can exceed the file, and a full scan then
  asks for a line that is not there (`tab_single` has one client);
* with more clients than `FewThreads` allows, a thread that waited for somebody
  else's expansion goes on with a line beyond the file. The bound is tight: three
  inserting clients and a file of three lines suffice. The code starts with 100
  lines and does not limit its clients;
* a crash between the flag and the columns of `insert` leaves a row nobody stored
  (`Table!End` allows that for one row);
* a failed `ftruncate` or `mmap` leaves `expanding` set and no mapping: every later
  `expand` of that table spins for ever and every access to it ends the process,
  although the comment in the loop says that somebody is expanding;
* a restore that fails leaves its name registered without a database, and a later
  CREATE DATABASE of that name does not change that; a restore that overlaps the
  creation of its name leaves, once the name is dropped, an object without a
  directory (`suspect` marks both);
* a drop of the directory of the backups, or a restore that names it as its
  database, removes every backup: neither looks at the name (`system.h:187`, 225).
  After that BACKUP ends the process, because `create_directory` throws outside of
  the `try`. `BackupsKept` without `BackupsGoing` shows a trace of a BACKUP and a
  RESTORE in a second;
* CREATE TABLE for an unknown database, a query on a dropped one and the restore
  of a backup taken while a table was being created end the process;
* connections of finished sessions stay open until the server ends, and an
  `accept` that fails for want of a descriptor ends the acceptor thread
  (`FdLimit` is large enough in the runs).

What statements do, as `Query` shows it; the properties state it where a meaning is
left to state and exclude it where there is none:

* `id <= y` leaves out `y`, which `documentary.md:31` has in the range
  (`EveryWantedRow` without `AtBound` shows it); a bound restricts the rows even
  after an OR;
* an id beyond the file, in `id == x` or as the upper bound, ends the process; the
  documented `id == 100` (`documentary.md:39`) does so on a new table;
* a word that is no number, compared with the id or with a column of numbers, ends
  the process (`Uncaught`);
* `SELECT ... WHERE id == x` does not look at the flag and shows erased rows;
* bounds in DELETE and UPDATE are evaluated as conditions, which is undefined;
* other comparisons of the id are dropped: `DELETE ... WHERE id > 5` deletes all rows;
* `LIMIT` before `WHERE`, or no `WHERE`, makes a DELETE apply to all rows;
* the texts of an UPDATE are not resized: a shorter one keeps the end of the old
  one (`documentary.md:49` says `SET col1 = val1`; `ChangesAsTold` without `Shorter`
  shows it), a longer one runs into the next column, one longer than the rest of the
  line ends the process;
* ASC puts the greater value first, and DESC the smaller one (`documentary.md:62`:
  "DESC and ASC supported as usual"; `RecordsShowRows` with "DESC" for `falling` shows
  it); in `SELECT a * ... ORDER BY` the sort key is off by the columns before the star
  (`StarFirst`);
* a row inserted during a scan may take the place of another one in `active_count`,
  which the scan then leaves out.

### Bounds

* Three threads are needed to have one expanding, one waiting and one accessing;
  two stripes, to have one taken and one not; a file of two lines and line number
  2, so that some accesses need an expansion and some do not.
* A table of two lines and two clients is the smallest file that `FewThreads`
  allows for two clients (2 * 2 = 2 + 2), so `TouchedLinesExist` is checked where
  it has no slack; six inserts go through two expansions.
* `SizeMax` is 100: far above what the runs count, so only wrapping below zero
  reaches it.
* `Cols = 2` where the order of column writes and crashes matters, else 1.
* Two clients of the server are one that disturbs and one that is disturbed; with
  three requests in all a client can attach, leave and ask again. `StopAt` says
  from how many unsent requests on the shutdown may begin; 4 of 3 means never.

* Three clients of `System` allow a creation, a restore and a user of the same
  name at once; five operations are a backup, a creation, a restore, a drop and a
  use, the shortest way to an object without a directory. Two databases are one
  that is disturbed and one that may take its place; the third name is that of the
  directory of the backups. One table suffices,
  because tables of a database meet only through `Loadable`. Six operations
  multiply the states by six.

* Three lines of `Query` allow a row before, at and after the one a statement is
  at, in every arrangement with erased and new lines. The statements use each
  comparison, AND and OR in both orders, both bounds, "*" and columns in another
  order than the table's, both directions of two keys, LIMIT below the matches,
  texts shorter than, as long as and longer than their column, and one of each
  kind that ends the process or is refused. The upper bounds of ids are 1, inside the
  file, 3, its end, and 4, beyond it; an UPDATE sets a text shorter than the old one. One statement of each client at once
  suffices where the history of the table does not matter, because `Init` has rows,
  erased rows and new lines in every arrangement; the count of `activePlaces`
  depends on it, and `qry_counter` has three statements of each.

### Fairness

`MemoryMap` and `SyncServer` assume weak fairness for the steps of each server
thread: the operating system runs a thread that can run. Nothing is assumed of
who wins a contended `shared_mutex`, of clients (they may stall or die), or of
the operator. That this suffices relies on the bounded workload: with an endless
stream of readers a writer could starve, unless the implementation of
`std::shared_mutex` prevents it.

## 5. Proofs

All proofs are for any set of threads or clients, any number of lines, stripes,
columns, databases, tables and backups, and any length of behaviour.

`MemoryMapProofs` (constants as in `MemoryMapAssumption`):

* `TypeCorrect`: `Spec => []TypeOK`. `HeldInv`, that a thread still collecting
  stripes has not counted them all, is needed for `excl[held[t]]` to make sense.
* `RemapExclusive`: `Spec => []RemapIsExclusive`. The inductive invariant is
  `LockInv`: a stripe is not both exclusive and shared (`StripeInv`), an access
  holds the stripe of its line (`AccessInv`), and an expanding thread holds the
  stripes it has counted, all of them past the loop (`ExpandInv`). It holds with
  failing system calls too, where several threads can be in `expand` in turn.
* `AccessIsMapped`: with `Faults = {}`, `Spec => []LockedAccessIsMapped`. To
  `LockInv` it adds `MappedInv` (no mapping only between `munmap` and `mmap`) and
  `LineInv` (what a thread knows of its line at each point: it exists, or the
  expansion under way provides it). The assumption is necessary: after a failed
  call the mapping is gone for good.
* `SizeIsBacked`: `Spec => []FileSizeBacked`, by `BackedInv`.
* `ImplementsStorage`: `Spec => StorageSpec`. `HalvesInv` (a torn line has a
  writer in the middle of it) and `CopyInv` (the first half is the one copied)
  make the second half of a write or read a step of `Storage`; `mmap` is its
  `Grow`; everything else stutters.

`TabbleProofs` (constants as in `TabbleAssumption`):

* `TypeCorrect`: `Spec => []TypeOK`, with `ColInv`; the sequence of holes that
  `analyzeHoles` builds is the part that needs work.
* `ScanComplete`: `Spec => []ScanReachesEveryRow`, for any number of clients and
  crashes. `IdInv` relates the line of each thread to `freeId`.
* `LinesExist`: `FewThreads` implies `Spec => []TouchedLinesExist`. `BoundInv`
  says how far `freeId` can run ahead of the size, by counting the threads that
  will still add to it (`Committed`); `WindowInv` says that when the flag is
  cleared, the doubled file has room for every thread that can still claim a line
  (`MayClaim`), which is why a waiting thread need not look at the size again.

`TabbleProofs`, one client (`OneClient`, as in `tab_single`; two clients violate all
four, by the race on `freeId` that `tab_ids_insert` shows or by deleting one row
twice):

* `ScanInFile`: `Spec => []ScanStaysInFile`, a corollary of `BoundInv`: one thread
  that is committed to a line has none to run ahead of.
* `NoLineLost`: `Spec => []LinesAccountedFor`. `AccountInv` adds what an operation
  under way knows of its line: an allocation still has `freeId` itself, a line about
  to be cleared is in use, one in hand is neither in use nor on the stack. That
  `analyzeHoles` pushes each hole once is `HolesStacked`.
* `OneClientFreshLine`: `Spec => []InsertTakesFreeLine`.
* `TableImplements`: `Spec => TableSpec`. `RowInv` says which columns of a row an
  operation has written; with it the last column of an insert is the step
  `Insert` of `Table`, the first of an update its `Update`, clearing the flag its
  `Erase`, the end of the process its `End`, and all else stutters.

`TabbleProofs`, the counter (any number of inserting and updating clients that
`FewThreads` allows, one that deletes, `OneDeleter`): `CounterCoversAllRows`,
`Spec => [](FarFromLimit => CounterCoversRows)`. The counter wraps below zero in the
middle of operations, so the invariant speaks of its signed reading (`Signed`):
`CounterInv` bounds it from below by the rows, up to those that threads have still
to count, and from above by the lines handed out, which is what makes the signed
reading unique. `FarFromLimit`, that the file has fewer than `SizeMax / 16` lines,
holds of any file that fits on a disk. That a deleting thread clears a line in use
(`OpInv`) needs the one deleter.

`RowFormatProofs` (any columns, empty ones included: `ColumnsAssumption`). The
offsets are a recursive function and the length of the line a sum over a set; both
are brought to their recursions (`OffsetIs`, `LineLengthIs`) by looking at a least
counterexample, which `Least` provides:

* `ColumnsPartitionLine`: the offsets that `loadFile` computes when a table is opened
  fit the line length that `createTable` stored: the columns are disjoint, lie
  between the flag and the end of the line, and leave no byte out.
* `StoreKeepsOthers`: a write of at most the size of its column changes neither the
  flag nor what any other column reads as. The bound is needed: UPDATE does not
  resize texts, and a longer one runs into the next column.
* `TextReadBack`: a text without a null character that INSERT resized is read back,
  cut at the size of its column, whatever the line held before.
* `NumberReadBack`: a number that its column has room for is read back as it was
  written. The weights of the bytes are a recursive function (`Weight`), and the
  sum of the bytes is compared with the number one byte after the other.
* `LessIsStrictTotalOrder`: the comparison by which WHERE and ORDER BY go is a strict
  total order of the values of a column, which `stable_sort` requires of it.

`QueryProofs`, `QueryChangeProofs` and `QueryScanProofs` (any columns, lines, clients
and statements, `QueryAssumption`): invariants one upon the other, each for all that
run at once. The first module has `TypeInv`, the second `ChangeInv` and `ShowInv`,
the third the rest.

| Invariant | Says | Needed for |
|---|---|---|
| `TypeInv` | `Poised`: what a thread has in its hands at each location: the kind of its statement, a line of the file, a column it names, records of different ids, all of lines before the one a scan is at | `TypeCorrect`; every access below |
| `ChangeInv` | `Faithful`: every line nobody else touched is as the statement found it or as it has made it so far (`Changed`); `Paced`: at which value of which row an INSERT is; `Neat`: flags are 0 or 1, and no text has anything behind its null character, which is why a shorter text ends where the old one did | `StatementsChangeAsTold` |
| `ShowInv` | the records read so far, and the half of the one under way, are what `snap` held | `SelectShowsRows` |
| `SiftInv` | `Bounded`: the conditions left are those of the WHERE without its bounds (`Remain`), and the lines from here to `max_line` are within them; `Judged`: `current_result` is the `Verdict` on the conditions looked at; `Passed`, `Sound`: so are the rows taken; `Covered`: no wanted row behind the scan is missing | `ScansTakeWantedRows` |
| `LedgerInv(w)` | `Ledger`: `activePlaces` is not below the number of rows and, with the height of the stack, not above twice the lines in use, up to what `w` has half done; `InUse`, `Grip`, `Seen`: where rows, free lines and the line of `w` are | `ReachInv`, `reserve` |
| `ReachInv` | `Far`: every wanted row is before `max_line`; `Enough`: `active_count` is the LIMIT or not below the rows that stay; `Complete`: what the answer leaves out | `ScansMissNoRow` |
| `PlacedInv` | a well-posed statement by id is at a line of the file | `WellPosedNeverCrash` |

* `TypeCorrect`: `Spec => []TypeOK`.
* `StatementsChangeAsTold`: `Spec => []ChangesAsTold`, with any number of clients,
  texts of an UPDATE that are shorter than the old ones excepted, of which the code
  keeps the end. `Overlay` is what a write makes of the old text: all of it is covered
  by a text that is not shorter. The proof takes `StoreKeepsOthers` and the partition
  of the line from `RowFormatProofs`.
* `SelectShowsRows`: `Spec => []RecordsShowRows`, which leaves open which of ASC and
  DESC is which. `SortedIs` shows that `Sorted` is a
  permutation in the order of `Before`, from `LessIsStrictTotalOrder`.
* `ScansTakeWantedRows`: `Spec => []OnlyWantedRows`, with any number of clients. That
  evaluating conditions from left to right is the meaning of the WHERE is
  `Verdict`; that the parser's and the optimizer's reading is the written one is
  `WrittenIs`, `ConditionsAre` and `ScanBounds`.
* `ScansMissNoRow`: `OneWriter` implies `Spec => []EveryWantedRow`: no row is missing
  but the one at the bound of `id <= y`, which the code leaves out. The proof
  compares the WHERE with what the scan looks for (`Sought`, `SoughtIs`): the rows
  wanted, without that one (`Within`).
* `WellPosedNeverCrash`: `OneWriter` implies `Spec => []WellPosedSurvive`.

`OneWriter` says that one client alone sends INSERT and DELETE, while all others
read and update as they like; `qry_answers` is such an instance. Without it both are
false: two clients that delete the same row subtract it twice, an insert and a
delete of the same line let the counter wrap (`qry_counter`), and two inserts that
load the same `freeId` carry it beyond the file. The bound of twice the lines in
use, not once, is the code's: a new line is counted by `allocateId` and again by
`insert`.

`SyncServerProofs`:

* `ServerTypeCorrect`: `Spec => []TypeOK`, with `HandInv`: the acceptor's connection
  is a client's that has no thread yet.
* `ModeAgrees`: `Spec => []ModeIsAsTold`. `Session(c)` describes a conversation: at
  most one request or answer is under way, and while none is and nobody has gone,
  the thread and the client agree about the mode. It needs `AcceptInv`: a connection
  is in the backlog, in the acceptor's hand or in the tables, a closed one was asked
  to stop, and none is added while `shutdownAll` holds the lock.

`SystemProofs` (constants as in `SystemAssumption`: finitely many names, which a
directory has, and `Null` distinct from objects and contents). The `...Does` lemmas
say once what each action changes. `SystemInv` is inductive:

| Part | Says | Needed for |
|---|---|---|
| `ArgInv` | a thread has the arguments of its command | every index |
| `LockInv` | the places of a command and the holders of `bases_mtx` agree | no second restore or drop, no copy beside one |
| `DirInv` | the directories of a copy are there; a backup has one writer | `BackupsKept` |
| `GenInv` | an object is at one place at most, and at none before it is registered | a reference is to one database or to none |
| `NameInv` | an id has one name; a live reference is to what its name leads to; what is being restored or removed has no database | `createTable` after its lookup |
| `MakeInv` | one client at most makes a table of a live database, its directory is there and it is not open | `TablesOpenedOnce` |

From it follow `SystemTypeCorrect` (`TypeOK`), `BackupsStay` (`BackupsKept`, an action
property, for every step but those that remove the directory of the backups), `NamesAreFound` (`NamesLeadSomewhere`, inductive together with
`SystemInv`), `OpenedOnce` (`TablesOpenedOnce`, by `MakeInv`: `create_directory` decides
which of two clients goes on, and a restore makes a new object) and `IdsStay`
(`IdsNeverMove`; `IdInv` adds that a dropped place is never given to another name,
which an attached client relies on). `DiskAndMemoryAgree` (`DiskAgrees`) also needs
to know that a database between `create_directory` and its registration is safe
although no lock is held: `PendingInv` says that its name is not registered, that
its directory holds what was read of it, and that nobody else creates or removes
it, unless a restore gets in between, which is what `suspect` records. TLC checks
`PendingInv` on the instance of `sys_disk`, too.

Only model-checked:

* the liveness properties (`AllOperationsEnd`, `RequestsAnswered`, `SessionsEnd`,
  `QuietShutdownEnds`), which are beyond the prover;
* the four disagreements of section 4, which are counterexamples.

Every other invariant and action property of a passing run, and both refinements,
have a theorem above; some of them with a hypothesis on the number of clients
(`FewThreads`, `OneClient`, `OneDeleter`, `OneWriter`), which the instances of the
runs satisfy and without which they are false.

## 6. Not modelled

* Negative numbers and floating point, and numbers with other characters behind
  them, which `std::stoi` and `std::stoul` cut; the undocumented operators AND and OR
  of BOOL columns; columns of no bytes (VOID, `STRING[0]`).
* The words of a statement before its clauses: without FROM, INTO, SET or `=` the
  parser throws before anything happens.
* The growth of the file during a statement (in `Tabble`) and the views of texts
  that outlive their mapping (in `MemoryMap`) are not in `Query`.
* Names of databases that are paths ("backup/b1", "."), which the code allows too,
  and a table of a database in the directory of the backups with the name of a
  backup: `Tables` and `Backups` are names apart. Of a backup of the directory of the
  backups the model only says that it fails and cannot be opened.
* `MemoryMapWindows.h`: the Windows twin of `MemoryMapLinux.h`; the project models
  the Linux build.
* Console, logging, help text, JSON of results: they keep no state.
