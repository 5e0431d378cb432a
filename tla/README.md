# Formal models of cs238-os

The repository holds the projects of an operating systems course, each in a
directory of its own: an expression compiler (`p1`), user-level threads (`p2`),
a word set in persistent memory (`p3` and, changed, `p23`), a key-value
database over a log (`p4`) and monitors of the machine (`p5`, `main.c`,
`save.c`). They are separate programs that share no code but copies of helpers.

This directory holds TLA+ models of them, the TLC runs that check the models,
and TLAPS proofs about the models. Line numbers refer to the files under
`src/`. `PROJECT.json` maps every definition to the lines it stands for.

Contents: [Inventory](#inventory) - [Modules](#modules) - [Runs](#runs) -
[Fairness](#fairness) - [Proofs](#proofs) - [Findings](#findings) -
[Not modelled](#not-modelled) - [Plan](#plan)

## Inventory

### p4: the database

`kvdb -> kvraw -> logfs -> device`, and `kvdb -> index`. One thread calls
`kvdb_*`; `logfs_open` starts a second thread, the consumer.

| part | state | operations | what is hard | what makes it correct |
|---|---|---|---|---|
| `logfs.c` | write cache (a ring: buffer, size, head, tail), read cache (a window of the device), `next_write_offset`, `done`, mutex, condition `space_avail` | `logfs_append`, `logfs_read`, `logfs_close`; the consumer moves whole blocks to the device | two threads; a read path without the mutex; a flush from the reader's side of a block the consumer writes again; failures of the device with the mutex locked; wrap-around; an append with too little room; what is pending at close | no byte is lost or reordered, reads return what was appended, nobody waits forever, the device is only appended to |
| `device.c` | a file or block device | `device_read`, `device_write`, `device_size`, `device_block` | block by block, may fail in the middle; asserts that a transfer is aligned and inside | - |
| `kvraw.c` | end of the log | `kvraw_lookup`, `kvraw_append`: records (previous offset, key, value) | partial keys and values; the value is copied before the key is compared | a record reads back as written |
| `index.c` | hash table `maps`, `size`, `capacity` | `index_update`, `index_lookup`; `grow` rebuilds it | probing with wrap-around, growth before an update, a pointer into the table that the caller keeps, allocation failures | entries are never hidden, lost or doubled |
| `kvdb.c` | the counters `size` and `waste` | `kvdb_insert`, `_update`, `_replace`, `_remove`, `_lookup` | chains of colliding keys, a read of the key's head that decides whether the whole key is read, tombstones, failed and refused calls that leave index entries behind | a map; the counters are exact |
| `main.c` | the script of a test, `val_len` | the tests: calls of `kvdb_*` with the answers they must have, between `kvdb_open` and `kvdb_close` | failures half way through `kvdb_open`; closing after a failed read | the tests pass; open ends with a database or with NULL |

### p2: threads

`scheduler.c` keeps a ring of threads, `head`, `current`, `num_threads`,
`terminate_counter`, and in each thread a status and a `jmp_buf`.
`scheduler_create` links a thread, `scheduler_execute` runs them all,
`scheduler_yield` gives the processor to the next one; a thread also ends by
returning into `scheduler_execute`'s frame. A running thread may create others.
Hard: the order of yields and
returns decides which `jmp_buf` is entered, and whether it was ever filled; a
global counter outlives an execution; a thread created by a running one is
linked as if `main` had created it. Correct: every thread gets its turns in
order, `scheduler_execute` returns when all have ended and not before.

### p3 and p23: the word set

`main -> shell` (line editor with history), `main -> avl -> scm`.

* `scm.c`: a file mapped at a fixed address from which `scm_malloc`,
  `scm_strdup` allocate and nothing is freed; how much is used is written to
  the file at close. State: the file, the mapping, `utilized`, `size`. Hard: a
  crash before close, the last bytes of the region, in `p23` pointer arithmetic
  in units of eight bytes. Correct: allocations do not overlap each other or
  the bookkeeping, also after reopening.
* `avl.c`: a balanced tree of words with counts in that region. `avl_insert`,
  `avl_exists`, `avl_traverse`. Hard: rotations after recursion, allocation
  failures in the middle. Correct: a sorted, balanced bag of words.
* `shell.c`: `read_line` edits in place the slot behind the last of up to `H`
  history lines. Operations: the keys, enter, recall; the commands of `main.c`
  trim their argument in that slot. State: the slots, `state.n`, the saved
  terminal settings right behind the slots, cursor and length kept by hand.
  Hard: the last byte of a slot, the slot behind the last. Correct: the edits
  and the recalled lines are those of a line editor, quit ends the shell, and
  the terminal is as before.
* `term.c`, `system.c`: escape codes, time, memory: no state of the program.

### p1: the compiler

`main -> parser -> lexer`, then C code is written from the tree, compiled by
`jitc.c` (`fork`, `exec` of the compiler, `dlopen`). Hard: precedence and
associativity, errors in the middle of a parse, the child's failures, and
fixed file names: what a killed run left, or its child still writes, meets the
next run. a table of messages read behind its end, literals that lose digits on their way through
`out.c`. Correct: the tree is the one of the grammar in `parser.c`'s comments;
the value printed is that of the argument; a run leaves no files behind.

### p5, main.c, save.c: monitors

Loops that read `/proc`, compute shares from differences of unsigned counters
and print until SIGINT sets a flag. State: the flag, the counters of the round
before in static variables, the open files. Hard: differences at zero and when
a counter goes back or round; the `-ansi` of p5's Makefile makes the handler
one-shot, so a second SIGINT kills (the other two programs have no Makefile and are
taken to be compiled the same way); `save.c` opens a file every round and never
closes it. Correct: the share printed is that of the interval, the program
measures as long as it runs, SIGINT ends it.

## Modules

```
 KvMap  <== Kvdb  ...(offset read back exactly)...  AppendLog  <== Logfs
                \
                 (the map of) IndexMap  <== Index                   Scheduler

 KvdbTests  --extends-->  Kvdb                LineEditor  <== Shell

 WordBag  <== Avl  --extends-->  Scm          Jit  --extends-->  Parser     Monitor
```

`A <== B`: B implements A, stated with `INSTANCE A WITH ...` in B. Kvdb takes
the answers of the index and the log as AppendLog and IndexMap promise them.

### Logfs, AppendLog (`p4/logfs.c`, `p4/device.c`)

One variable per field the code branches on, and a control state for each of the two
threads. An action is what a thread does between two points at which the other
may see or change something:

| action | code |
|---|---|
| `CallAppend`, `CallRead`, `CallClose` | the entry of a call, with any length, zero too (kvraw reads no bytes of tombstones and for NULL buffers), and for reads any offset inside the log |
| `AppendLock`, `ReadLock` | `pthread_mutex_lock`, and taking the mutex again when `pthread_cond_wait` returns |
| `AppendWait`, `ReadWait`, `SpuriousWakeup` | `pthread_cond_wait` in its loop, which may return without a signal |
| `AppendCopy` | `circular_buffer_write`: one or two copies, head and size |
| `ReadHit`, `ReadMiss` | the test of the window and the copy from it, without the mutex |
| `ReadFlush` | the flush of the partial block, which moves `read_cache->head` |
| `ReadLoad` | `device_read` of the window and the copy |
| `CloseSet`, `CloseJoin` | `done = 1` under the mutex; the join |
| `ConsumerTest`, `-Lock`, `-Skip` | the loop, `done` being read without the mutex |
| `ConsumerWrite`, `-Advance` | `circular_buffer_read`: write a block; move tail, size and offset, signal |
| `ConsumerFlush` | the write after `done`, without the mutex |

The content of a byte is its log offset, so "the byte at o is right" is `= o`,
and a stale, lost or displaced byte is a wrong number; `Junk` stands for memory
never written. `Abort` is a failed assert of `device.c`, which stops the
process. `Faults` makes any device call fail; a read that fails leaves any
number of whole blocks loaded, a write any number of bytes written (`WritesPart`). The history `failed` says
which kind of call has failed so far: the properties hold until then. `Hung` is
the state after a failure in which the client waits for a mutex nobody releases. AppendLog is the promise of `logfs.h` to its
one caller: appends, reads back at any offset, answers every call.

Offsets kept as numbers without 64-bit overflow: a log of 2^64 bytes is out of
reach of the device sizes the code accepts.

### Kvdb, KvMap (`p4/kvdb.c`, `p4/kvraw.c`)

`records` is the log; an offset is a record's number, 0 the dummy record of
`kvraw_open`. `index` is the map of IndexMap. A call goes through `index`
(`IndexMiss`, `IndexHit`, `IndexFails`), walks the chain with one action per
read (`ChainRead`, `ChainReread`, `ChainEnd`, `ChainFails`, `ChainAborts`)
and ends in `Lookup`, `Remove`, `Write` or `Refuse`. A read of the log that
fails ends the call (`ReadFailed`) with `pc = "broken"`: the mutex of the log
stays locked and its window is not what it says, so no later call has an
outcome the code defines, and the caller is followed no further than to its close. `Fill` is what
`kvraw_lookup` leaves in the caller's buffer, which the walk fills from
records that turn out to be other keys', too. Keys are atoms with a length and
a head: `chain_lookup` first reads as many bytes as a pointer has, and only if
these and the length agree the whole key. A hash is what the
configuration assigns to the key, so collisions, which a 64-bit hash makes
unreachable for tests, are the normal case here. KvMap is the map of `kvdb.h`
with one request at a time.

KvdbTests adds the caller: `main.c`'s tests, each a sequence of steps (a call with the
answer it must have, a comparison of the counters, the reset of `val_len`, which a call
overwrites), or, as the test `"any"`, a program that makes any calls. `Open`
acquires the parts of `Stack` in the order of `kvdb_open`; a failure
(`OpenFails`) of the database, kvraw or the index is reported, one of the log or
below it crashes. `CloseHangs` is `kvdb_close` after a failed read, which
asks for the mutex its own thread has locked.

Observed while modelling: `kvdb.c:65` reads a key of 9 to 256 bytes twice,
though the buffer of the first read would hold it whole. Nothing is wrong
with the answers.

### Index, IndexMap (`p4/index.c`)

`index` and `index_` are the table in use and the one `grow` builds; entries
move one per step, `i` being the loop variable. `update` finds the slot as the
first in probe order that is free or has the hash; probe `n` of hash `k` is
`((k + n) % Width) % capacity`, with `Width` for 2^64. Between `Update` and
`Store`/`Leave` the caller (`mutate` of `kvdb.c`) holds a pointer to a slot.
`index_lookup` probes the same way and adds nothing. The load `0.70` is the exact
fraction: the nearest doubles compare as the fraction does. An allocation
may fail (`GrowFails`), `Exit` is `EXIT("software")`.

### Scheduler (`p2/scheduler.c`)

A thread is a number with what is left of its yields; the number stands for its
struct and for its function. `ring` is the circular list, `ctx[t]` whose
`scheduler_yield` the context in struct `t` returns from, `self` the thread whose
function has the processor. `Create` links, from `main` or from a running
thread; `Execute` starts; `Yield`, `ReturnNext`, `ReturnLast` give the turn to
`thread_candidate`, which is the code's loop over the ring from the current
thread, or find none. When a running thread creates another, `scheduler_create`
makes the new struct `current`: it takes its creator's place, so that `self`
and `current` part, the new function never runs, and what the ring had behind the
creator is cut off from it (`creators` remembers who did this). Following a NULL
pointer and jumping into a context that no `setjmp` has filled, or whose call has
returned, are undefined; the model ends in `"stopped"`, from which nothing else happens.
`ReturnsIffSurvivable` says for every workload, from none or one thread up, whether the
execution returns or ends there: wherever it says `"stopped"` the code breaks the promise of
`scheduler.h`, see [Findings](#findings).

### Scm, Avl, WordBag (`p3/scm.c`, `p23/scm.c`, `avl.c`)

Scm is the file: `region` holds its blocks by address, `stored` the counter in
the file, `utilized` the one in the handle. `layout` says which of the two
programs runs: where the blocks begin, how far a counted byte moves the pointer,
where the counter is. Storing to bytes (`Allocated`, `scm_close`) removes the
blocks that were there, and over the counter makes it `Junk`, so overlaps are
the outcome of the arithmetic. The mapping is shared: what is stored is in the
file even if the process is killed, while `utilized` is lost.

Avl is a process with one handle. `update` is recursive in C; here the walk
down pushes a frame per level (`Descend`), the end of the walk counts
(`CountAgain`) or allocates in two steps (`NewNode`, `NewName`, either may find
no room: `NoRoom`), and every return is a step that links, rotates and sets
the depth (`Relink`), up to `avl_insert`'s store of the root (`Inserted`).
`Crash` kills the process between any two steps (not between the single stores
of a step). `Fault` is a store behind the end of the file (`Overruns` says when: there
is room by the limit of `scm_malloc`, but the file ends before), `Astray` a pointer to what
is no node any more, or an endless recursion; both end the process. After a
crash with a counter that does not cover the tree, the model goes on with the
damaged tree, as the program does; `clean` remembers that this happened.

WordBag is a bag with one call at a time, and the room that is left. An insert of a word that
is there must count it (`AddAgain`); a new one takes the bytes of a node and of the word
(`Needs`), must be added if they are left (`AddNew`), and is dropped, with part of the room
lost to a node without a word, only if they are not (`Drop`). Calls see
no more than the code gives them: `avl_insert` returns 0 for a word that found no room unless the tree
is empty (`update` returns NULL to its own caller only), and closing a p3 file
filled to its end may spoil it, for the counter is written over the last block.

### Shell, LineEditor (`p3/shell.c`, `p23/shell.c`, `p23/main.c`)

`memory` is the array of bytes from the first history slot to the end of what
would be slot `H`: the slots, the `struct termios` that `configure` filled, and
bytes behind it that the model takes to be nobody's (slot `H` is 160 bytes,
the settings are fewer). Every `strlen`, `memmove` and `strncpy` of
`read_line` is done on it, so a write past a slot lands where it does in the
program. One action per key; `Enter` is all of the rest of `read_line`,
the command (`shell_fnc`), and the start of the next line or `restore`. The face
of a command is one character; `Others` are printable characters that no command starts with. LineEditor has a sequence for the line and a
sequence of lines instead; it may end in `"lost"` when a blank is the N-th
character, or with the H-th line.

### Parser, Jit (`p1`)

Parser is the recursive descent as a machine: `stack` has a frame per C call
in progress, `ret` what the last one returned. An action is the code of a
function between two calls; the two list levels of the grammar (`expr_additive`,
`expr_multiplicative`) are the same code with other operators and are one
action each with the level as parameter. `MKD` may fail (`NoNode`). `Meaning`
is the reference: the term of a sequence of tokens by the grammar of the
comments, found by splitting it at the last operator of the lowest level; its parameter says
what number stands at the place of a literal, for the parser the token's own (`Place`), so that
equal terms have equal values. `Misindexed` is the point at which `expr_additive_` has no right
operand and takes the operator of its message from behind `TBL`: the run may die there
(`Overread`), or find a short string and return NULL (`Abandon`).

Jit is `main`, run up to three times in one directory with the files `out.c`
and `out.so`. `generate` is the generated code as statements. `%f` writes a literal with six
decimals (`Written`): one that has no more keeps its value (`"num"`), one that has more becomes
another number (`"fine"`), one below their reach becomes 0 (`"tiny"`), and `inf` and `nan` become
words that do not compile (`"inf"`). The division of a term is the one of the statement, 0.0 where
the right operand is zero. Arithmetic itself, and the six decimals in which `main` prints the
result, are left to the terms: two equal terms print the same. `Forked` to `Compiled` is `jitc_compile`, beside
which the child takes its own steps: `Exec`, `ReadSource`, `Linked`. `Kill` ends a run,
not its child. `NotLoaded` and `NoSymbol` are the two ends by a signal: `jitc_close(NULL)`
and a call of the address -1. Writing `out.c` counts as one step at `fclose`; `main` does not look
whether it succeeded, and `Generated` may leave the file cut off (`Cut`) or empty (`Truncated`), which gcc
compiles. Writing `out.so` is one step of the linker.

### Monitor (`p5/main.c`, `main.c`, `save.c`)

`program` says which of the three runs. `place` is where `main`'s loop is: `OpenStat` or
`End`, `ReadStat` (the first line of `/proc/stat` and `cpu_util`), `MemoryReads` and
its failures, two more probes, `Sleep`. `sum_` and `idle_` are the static
counters of `cpu_util`, residues of what the kernel counts; `before` and
`interval` remember the counters themselves. `util` is the quotient as its two numbers,
0/0 of two equal readings included, which prints as NaN: the share of an
empty interval. `Interrupt` is SIGINT at any point, `open` the number of open
files. What is read from the other files is abstracted to whether there was
anything. `Install`, `MonitorMain` and the like keep their names apart from Jit's, for
one module has the proofs of both.

### MC modules

`MCLogfs`, `MCIndex`, `MCScheduler` and `MCMonitor` only extend their module; `MCKvdb`
extends KvdbTests and defines the keys, hashes, values and buffers, `MCAvl` the lengths of the words, `MCJit` the arguments, `MCShell` the command.
Each `.cfg` gives the constants.
Definitions marked `Slip:` are not part of any specification: each is a
plausible error in one definition, and shows, put in its place, which property
finds it (`mutants` in `PROJECT.json`).

## Runs

| run | instance | question |
|---|---|---|
| `logfs_safety` | blocks of 2 bytes, ring of 2 blocks, window of 4, device of 5; appends of 0, 1, 3, reads of 0, 1, 2, log of 8; device reads and writes fail, as a whole or in the middle | Are bytes, reads, cursors and mutex right whatever the interleaving, what survives a failing device, and where do the asserts bite? |
| `logfs_liveness` | device of 6; appends of 0 and 1, reads of 0 and 2, log of 6, fair | Does every call return, and is it all an append-only log? |
| `kvdb_map` | 4 keys, 3 in one chain, 2 of those alike in length and head; the tests of `main.c`, and any program with up to 4 records; reads, allocations, device and thread fail; NULL buffers with a length; fair | Is it a map that answers every call, do failed calls change nothing, which calls trip an assert, and do the tests pass? |
| `index_map` | 6 hashes, width 16, tables of 0, 1, 3 and 6 slots | Is the table a map through growth, collisions and wraps? |
| `sched_rounds` | up to 5 threads of 0..3 yields, created by main or by running threads, one execution; fair | Whose turn is it, and from which workloads, none and a single thread included, does the execution return? |
| `word_set` | six words in one session in a large file; three sessions and a crash in files that fit two or three words, both layouts | Is it a balanced search tree and a bag, and what do a full file and a killed process do to it? |
| `line_editor` | 3 slots of 4 bytes, settings of 2 bytes, the command `q` | Is it a line editor, and what happens at the end of a slot and of the slots? |
| `compile_runs` | every argument of up to 4 lexemes of 9 kinds and 7 longer ones with blanks, tiny and long literals, two more runs with short ones; every call fails, writing `out.c` included; two runs are killed; fair | Is the tree that of the grammar, what is printed the value of the argument as its literals are written, is the directory clean, and does every run end? |
| `monitor_rounds` | unsigned of 2 bits, counters up to 5, 3 files; every file may fail to open or read; fair | Is the share that of the interval, who stops measuring, and does SIGINT end the program? |
| `logfs_overrun`, `sched_reuse`, `kvdb_open` | violations | see [Findings](#findings) |

**What the properties say.** Logfs: `NoByteLost` (every appended byte is on the
device or in its slot of the ring, until an append overruns it), `FlushedStays`
(what `read_cache->head` announces is on the device, though the consumer
writes a flushed block a second time), `CacheCoherent` (the lock-free path
serves only what was appended), `ReadsExact`, `NoLostWakeup`,
`CloseFlushes` (one block more than was written is on the device after close,
and no more: what is pending behind it is lost, which `kvdb` does not notice
because no later open reads it), `AbortsNearEnd`, `ImplementsLog`
(which includes that every call is answered). Kvdb: `ChainsComplete`, `WalkFindsNewest`, `CountersExact`,
`AbortsOnlyNullRemove`, `BehavesAsMap`, `EveryCallReturns`, and `TestsPass` (a test
fails only after a call that ran out of memory or could not read). Index: `ProbesReach`
(no free slot before an entry on its way), `FitsUnlessWrapped` (the `EXIT`
needs a hash less than `capacity` below 2^64), `ImplementsMap`. Scheduler:
`ReturnsAfterAll`, `RoundRobin`, `ContextsKept` (a sleeping thread can be
resumed where it yielded, unless it created another), and
`ReturnsIffSurvivable`: from the call on, the execution of a workload that is `Survivable` returns
with all threads terminated, and that of any other one ends at a wild pointer or jump. Shell: `ImplementsEditor`;
`TerminalRestored` and `QuitReturns`, which hold until the history is full: in the next
slot the line lies on the settings and is emptied before it is run. Jit: `ParsesGrammar` (accepted
are the sentences of the grammar, with their terms, each node is in the
tree once, and no sentence of it comes to the misindexed message), `PrintsOwn` (the value of the run's own
argument, its literals rounded as `%f` rounds them) and `CleansUp` with the two cases in which another run
interferes, and, for `CleansUp`, the one in which the run dies in the call of an `out.c` that stayed
empty; `EveryRunEnds`. Avl:
`TreeOrdered`, `CountsExact` (between calls, also in the next session),
`ImplementsBag`, and for what goes wrong `CommittedStay` (a block below the
counter in the file is never overwritten, whatever was damaged above it) and
`CallsSurvive` (with a whole tree no call kills p3, and one of p23 does only where what it is about to
allocate lies behind the file, for a byte counted moves the pointer by eight and the limit counts
bytes; no walk or rotation of either does). `ImplementsBag` includes that no insert is lost while there
is room for it. Monitor:
`ShareExact` (the printed quotient is that of the interval since the last
reading, exactly when no counter went back or once round), `OnlySaveStarves`
(`save.c` uses up its own files and never measures again, the others always do),
`EndsByInterrupt`.

**Why the bounds are enough.** Logfs: a ring of two blocks wraps, fills, and
holds a partial block next to a full one; an append of 3 spans the end of the
ring and overruns it; a log of 8 bytes is two times round the ring of 4;
the window of 4 blocks is larger than one read needs, as in the code. The
device of 5 blocks is reached by the read-ahead, and by appends while the window is
behind. Kvdb: four records make a
chain in which a key is inserted, removed and inserted again around a
collision. Buffers hold nothing, part of a value or all of it. The tests store
values of different lengths one after the other, so that a length that was
not reset shows; the two objects of `read_write` collide and agree in head
and length; three rewrites pass over a longer and a shorter value. Index: with
`Extra = 1` the capacities are 1, 3, 6, so that each of the first entries is
followed by a growth, a table can be full, and the hashes 14 and 15 wrap at
the width of 16, in the middle of a probe. Scheduler: five threads give every
order of returns around a thread in the middle; more threads add nothing that
the ring does not have already. A thread may create several, and a thread in front of,
behind or between others may be the creator. Avl: six nodes are the fewest for a rotation that
moves a subtree and for rotations below the root. The three sessions are the
fewest that show damage: commit, change and be killed, meet the change again.
The p3 file of 150 bytes holds three nodes but the third word only in part of
the orders, with the last block on the counter; the p23 file of 950 bytes faults at the
third word. The words have two lengths, so that blocks of a killed session
and of the next one overlap in part. Shell: with three slots two lines can be
recalled over each other before the promise ends, and the third slot touches the
settings; four bytes hold a line with a blank inside and a full line. The
command takes no argument, so a line with one is a bad command; commands with an
argument differ in one test (`Accepts`). `Others` is empty here, for a third character makes more states than a
run can visit; the theorems admit any. Jit: four
lexemes give every pair of operators a place and every kind of error; the
longer arguments group three operands of both levels, in parentheses too; one has a tiny divisor and a
literal that is rounded. A first
run leaves files or a child, a second meets them or leaves its own, a third
meets both. Monitor: with a width of 4 and counters up to 5 a sum goes round, more than
once, and back; with 3 files `save.c` runs out after two rounds.

`CHECK_DEADLOCK FALSE` is set where the program may really stop:
when a test has its verdict or an assert failed (`kvdb_*`), after `EXIT`
(`index_map`), after the last execution (`sched_*`), after the last session
(`word_set`) or run (`compile_runs`), and when the shell (`line_editor`) or the
monitor (`monitor_rounds`) has ended. In the runs of Logfs
deadlock is checked: the only states without a step of a thread are those of the
closed log, of a failed assert and `Hung`, which `Ended` lets stutter.

## Fairness

* Logfs: weak fairness of each thread's own steps, for the operating
  system runs both threads; strong fairness of taking the mutex, because the
  consumer polls: it releases and takes the mutex over and over, so the lock
  is free again and again but never stays free. A mutex that lets one thread in
  forever would break `ImplementsLog`'s answers; the pthread mutexes of the
  platforms do not promise more than scheduling does, so this is an assumption
  about them. No fairness for the client's calls or for spurious wake-ups.
* KvdbTests: weak fairness of `kvdb_open`, of the test and of a call in progress: it is
  sequential code. The program `"any"` may stop calling.
* Scheduler: weak fairness of the running thread: its function computes
  finitely between two calls of the scheduler.
* Jit: weak fairness of `main` and of each child: processes of the operating
  system, gcc and the linker end. None for kills and for further runs.
* Monitor: weak fairness of `main`, a loop without waiting but for a sleep. Strong
  fairness of reading `/proc/meminfo`: the system does not refuse it forever while
  the process has files to spare. None for SIGINT.
* Index, Avl, Shell, and all runs of safety properties: none.

## Proofs

All theorems hold for every value of the constants that the named assumptions
admit; there is no bound on lengths, threads, keys or steps in them other
than those the specifications name. `tlapm` checks every leaf.

| module | theorem | establishes |
|---|---|---|
| LogfsProofs | `TypeCorrect`, `MutexCorrect`, `WakeupCorrect`, `CursorsCorrect`, `AppendOnlyCorrect`, `AbortsCorrect`, `NoByteLostCorrect`, `FlushedCorrect`, `CoherentCorrect`, `ReadsCorrectUntilOverrun`, `CloseCorrect`, `RefinesLog` | the properties `TypeOK`, `MutexDiscipline`, `NoLostWakeup`, `CursorsAgree`, `DeviceAppendOnly`, `AbortsNearEnd`, `NoByteLost`, `FlushedStays`, `CacheCoherent`, `ReadsExact`, `CloseFlushes`; Logfs implements AppendLog's `Init` and `Next` until an overrun or a failed device call |
| KvdbProofs | `TypeCorrect`, `ChainsCorrect`, `WalkCorrect`, `AbortsCorrect`, `CountersCorrect`, `RefinesMap`, `TestsCorrect` | `TypeOK`, `ChainsComplete`, `WalkFindsNewest`, `AbortsOnlyNullRemove`, `CountersExact`, `BehavesAsMap`: Kvdb implements KvMap; `TestsPass` of KvdbTests |
| IndexProofs | `TypeCorrect`, `ProbesCorrect`, `LoadCorrect`, `ExitOnlyWrapped`, `RefinesMap` | `TypeOK`, `ProbesReach`, `LoadBounded`, `FitsUnlessWrapped`, `ImplementsMap`: Index implements IndexMap |
| SchedulerProofs | `TypeCorrect`, `CounterCorrect`, `ContextsCorrect`, `ReturnsCorrect`, `RoundRobinCorrect` | `TypeOK`, `CounterExact`, `ContextsKept`, `ReturnsAfterAll` for programs with one execution (`MaxBatches = 1`), and `RoundRobin` for programs with at most two |
| AvlProofs | `TypeCorrect`, `CommittedCorrect`, `TreeCorrect`, `CallsSurviveAlways`, `CountsCorrect`, `BagImplemented` | `TypeOK`, `CommittedStay`, `TreeOrdered`, `CallsSurvive`, `CountsExact`, `ImplementsBag`: Avl implements WordBag |
| ShellProofs | `TypeCorrect`, `RestoredCorrect`, `QuitCorrect`, `EditorImplemented` | `TypeOK`, `TerminalRestored`, `QuitReturns`, `ImplementsEditor`: Shell implements LineEditor |
| ProgramProofs (p1) | `JitInvariant`, `JitTypeOK`, `JitParsesGrammar`, `JitPrintsOwn`, `JitCleansUp` | the inductive invariant, `TypeOK`, `ParsesGrammar`, `PrintsOwn`, `CleansUp`, for arguments of any length, any number of runs and kills |
| ProgramProofs (p5) | `MonitorTypeCorrect`, `ShareCorrect`, `StatOpensAlways` | `MonitorTypeOK`, `ShareExact`, and `StatOpens`: no monitor holds so many files that it cannot open `/proc/stat` |
| ModArith | lemmas | what `%` does on a ring: uniqueness, addition, distance; the least of some naturals |

`MutexDiscipline` (each thread holds the mutex exactly in its critical section),
`CursorsAgree` (cursors, pending size and device offset describe one log
position), `DeviceAppendOnly`, `LoadBounded`, `CounterExact` and `StatOpens` are stated for
the proofs and for the reader; no run repeats them.

**Logfs.** From `GeometryAssumption` (sizes are positive) and
`LengthAssumption` (no call is longer than the cache it goes through, which
the code needs and does not test). The inductive invariant is built in layers,
each using those below: types with what each control state knows of its
request; mutex and phases (who may be where while the other is in its critical
section, except after a failure, where the mutex stays locked); wake-ups;
cursors (`next_write_offset + size = appended`, tail and head their remainders);
then the data: the ring holds the pending bytes in their slots until an
overrun; the device holds everything below `next_write_offset`, and, since a
flush copies a block that is partly new, everything below
`read_cache->head` as well; a block in the state `advance` is on the device already
and still in the ring. The window's content and the answers follow. `FlushedStays` is not
inductive without the ring part: the consumer writes the flushed block again,
and it is right only because the ring still holds the same bytes in the same
slots (`ModArith`'s `RingAhead` and `ModApart`). The theorems about data hold until a
device call of the kind they rest on has failed (`failed`), with such failures
possible at any step. `CloseFlushes` needs where the consumer was when `done` was
set: it finishes its block and writes exactly one more, whatever is pending. `RefinesLog`
maps a call in progress to AppendLog's request: an append takes effect when its bytes
are in the ring, a read when it answers (`ReadsExact` gives the bytes, also
where the request is of none), and locks, waits, flushes and all of the
consumer stutter.

**Kvdb.** From assumptions on the hash function (any), on lengths, and that
short keys alike in length and head are the same key. `IInv` is `TypeOK`,
`ChainsComplete` and what the walk knows: every record of the key newer than
the walk's offset has been looked at and is not the key's. On top of it:
every key with a record has a newest one, the counters, and the buffer (what a
call will report has been filled from the newest record). A failed read leaves all of
it as it was. These theorems are about `Spec` of Kvdb, a database open and with any
caller. The refinement maps
`records` to the value of each key's newest record; all steps of a walk
stutter, and a call takes effect when it returns.

`TestsCorrect` is about `TestSpec`, the tests from `kvdb_open` on. `TestsAssumption` says what
they rest on: their values are no longer than the buffer, and the objects of a `read_write` have
different keys (`mk_object` writes `i` into each; the bytes around it come from `rand`). A
step `Passes` from one state of the map, the counters and `val_len` to another; a script
`Runs` if its steps do in turn. Scripts that run one after the other run together
(`RunsConcat`, `RunsFlatten`), so `basic_logic`, and `heavy_rewrite` and `read_write` for any
number of values and objects and any order of the lookups, run from the empty map
(`ScriptsRun`). The inductive invariant: what is left of the script runs from the state of the
database, and a call under way is the script's next step. An answer is then the one
the step expects (`AnswersRight`), or the call has failed.

**Index.** From `HashAssumption` (hashes are below the width), `Extra > 0` and
that offsets are naturals. A hash reaches at most one slot (`SlotReached`), so a
filled free slot takes the way of no other hash (`FilledReachable`);
the inductive invariant adds that the new table has exactly the entries before
`i` (`CopyInv`), and that the caller's pointer is to the slot of its hash
(`HeldInv`). For the `EXIT`: a table with `size < capacity` has a free slot,
and probes that do not wrap at the width go round the table (`ProbesCover`), so some
probe finds it, and one of them is the first.

**Scheduler.** For any number of threads, whoever creates them. `IInv` is `TypeOK`, the shape of the
list (`ListInv`: the counts agree with the statuses and with `num_threads`)
and what holds during the first execution (`FirstInv`). `ContextsKept` holds in any
number of executions: a context is filled by its own thread unless this one is a
creator. `RoundRobin` rests on `RoundInv`: the waiting threads are on the ring, which goes
from `head` to the last thread created and back; those up to the current one have had as
many turns as it, those behind it one less. `after` has a closed form on such a ring
(`AfterIs`), so a candidate is the first that waits behind the current one (`FirstInRound`), and
its turn keeps the order (`RoundTurn`). `FirstReturnsAll` starts the second execution
with a ring of its own. In a third, `RoundRobin` is not true: the second
has ended early, by the counter that is not reset, and what main creates then
may cut threads off the ring.

**Avl.** For files of any size of at least 60 bytes, any words and any number of sessions
and crashes. `FileInv`: the counter in the file is at most the handle's, or every
block lies below the handle's (p3 does not write the counter when it
truncates), or the counter cannot be read; and while it can be read no block
shares bytes with it, so that `scm_close` erases nothing committed. With it an
allocation writes above all committed blocks (`AllocatedKeeps`). The stores of
the tree go to links and depths of blocks that stay where they are
(`RebalanceRelinks`), whatever shape a damaged tree has. For `TypeOK`, what a frame of `update`
stores goes to nodes whose links lead to nodes (`Knit`): a double rotation
stores at most two links below its root and reads one further, which is what
`MayRebalance` asks for, so a depth is always that of nodes (`RebalanceKnit`); and the
block of `struct state` is there as long as the walk goes on (`WalkInv`).

The other theorems are about files whose tree no killed session has left half changed
(`clean`), and rest on `SetInv`. A tree is the set of its nodes: `IsTree(r, p, S)` says that
there is a function from S that gives each node the nodes of its subtree, so that order,
depth and balance are facts about one node and the sets of its two sides (`Apex`), and no
proof needs an induction over the tree. While `update` walks, the tree is taken
apart along `stack`: a `Zipper` has for each frame the nodes that are left below it, the side
the walk took, and that the word belongs between them. On the way back `Growth` says what came
up, by the depth the place had before: the same depth, or one more with the new word on the
deeper side, which is what `Rebalance` needs to pick its rotation (`FrameTurned`, with left and
right as a parameter); `NULL` comes up only where `NULL` was, so a failed allocation changes nothing. Reads walk a tree
that has the word if any has (`Seeking`). Of the heap `SetInv` keeps that
all blocks lie below the counter this session has, or the next one will find, that
counted nodes have their word, and no two the same (`HeapInv`).
`TreeCorrect` follows because what `Below` reaches stays within the set of the tree.
For `CallsSurvive`, a frame is a node that is not below it, so no walk has more frames than
there are blocks (`WayShort`), and all that a frame rotates is there (`SurviveStep`). For
`CountsExact`, `Below` grows by a node with each link until it has the
whole tree, and there are no more nodes than words (`BelowAll`); the sum of the counts is the
number of pairs of a node and a number below its count (`SumIs`), to which an insertion adds
one. `ImplementsBag` maps steps of the walk and rotations to stutters, the count of a word to `AddAgain` or
`AddNew`, no room to `Drop`, and every end of a process to WordBag's `Crash`. The room of the bag is
what the limit of `scm_malloc` leaves, with a node that waits for its word not counted yet.

**Shell.** For any number of slots, their size, settings shorter than a slot (which
`struct termios` is) and any commands of which `q` takes no argument. That `n` is the
length of the string in the slot needs a NUL that no key takes away, also when a line has
run over its slot: `EndOf` says where (at the start of the next slot; in the last slot,
behind the settings; after that, at the end of what one more line uses), `Fenced` that
it is there, `LineFits` that the line ends before it. `StoreKeeps` and `Edited` then serve
all keys that move characters. `SettingsSafe` says how long the saved bytes are whole: in the
last slot until a line has filled it, which a recalled line may do, too. A return with a
slot left comes from a line in an earlier slot, and what it stores ends
before the settings (`EnterSaves`); and a line that is `q` is still `q` when it is run, because the
slot emptied before is another (`QuitIsRun`). `ImplementsEditor` needs one more invariant,
`Closed`: while nothing has spilled, every line of the history ends in its slot (`LineFits` says so
of the line edited). Then what a key stores leaves the earlier lines alone (`LinesStay`), and
Delete, Backspace, ^K, blanks and characters are all one string stored at one place of the
line (`StoredText`, `EditIs`), a recalled line is copied whole (`CopyIs`), and Enter leaves the line
without its outer blanks and those before the argument (`EnteredText`, `CommandText`). The
step that spills is the editor's `Lose`; after it nothing is claimed.

**Parser, Jit.** For any number of runs and kills and arguments of any length. `Meaning` gives a
range of tokens the term of the grammar by recursion on the range; that its equations, those of
`TermOf`, `reflect`, `evaluate` and `Tokenized`, have a solution is shown by a least
counterexample: the largest size up to which one exists (`MeansUpTo`, `ReflectsUpTo`,
`TokenizesUpTo`), and that any solution is the one wanted (`TermsAgree`, `EvaluateAgree`).
A phrase that has a meaning is well formed token by token (`Well`: its parentheses
close, what stands side by side may), so tokens that are not well formed have none (`IllFormed`), and
phrases compose: a literal, a sign, parentheses, two operands of a level, grouped to the left
(`PhraseBinary`). All of this is for any numbers that stand for the literals (the parameter
`worth`): the parser's tree is compared with the term over its own places, what is printed with
the term over what `%f` wrote. `ParserInv` then says of the machine, as long as no function has failed:

* types, and that all calls but the last wait (`Shape`);
* `Forest`: every node is held exactly once, by what was returned, by a call or as an
  operand of another node; it has a term `T` once it has its operands, and a rank `R`
  above theirs, so that the nodes hang together without a cycle;
* `Grammar`: a call that works started at a token from which what it has read is a phrase of its
  level, and what it holds has the term of that phrase. Its caller waits for one of the
  level that it needs.

Once a function has failed, the tokens are not well formed or memory is out (`FailRefused`:
an operand is missing, something other than an operator follows one, a parenthesis
is not closed or was never open). After the last return the calls hold nothing, so the forest
is one tree (`ParsedWhole`); hence `ParsesGrammar`, and `reflect` lists every node after its operands
and `evaluate` computes its term (`EvaluateIs`). `JitInv` adds where programs are:
`Source`, that `out.c` and, when it is linked, what the run's child has read are the program of
this run's tree; `Alone`, that while no child of a killed run is about, an `out.so` met before
the run's own child has succeeded was there when it began, and that afterwards `out.so`,
what is loaded and what is printed are of this run's program, unless an `execv` has failed
(`unexecuted`), which `main` takes for success: then the old one is loaded. Where `out.c` was not
written whole, what was built from it has no function, or nothing was. `CleansUp` needs the
same two; `Misindexed` is a failed operand (`InvMisindexed`), so its argument is refused as all others are
that have one.

**Monitor.** For any width, any number of files, any counters. `sum_` and `idle_` are the
residues of what was read last (`before`), so an unsigned difference is the residue of
the interval, which is the interval exactly when it fits (`ModArith`). For
`StatOpens`: one file besides `/proc/stat` is needed for `save.c` to lose it, so
it stops opening the second one while there is still room for the first.

**Only model-checked.** Liveness (`EveryCallReturns`, `ReturnsIffSurvivable`,
`EveryRunEnds`, `OnlySaveStarves`, `EndsByInterrupt`, that every call of `ImplementsLog`
is answered) is out of the prover's reach. All other properties the runs check are theorems,
`RoundRobin` and `ReturnsAfterAll` under the bounds named above.

## Findings

The first three are runs that violate what a header of the repository says; the property of the
other two holds, and says exactly where the code does what it should not.

* `logfs_overrun`: `logfs_append` waits only while the ring is completely full
  (`logfs.c:78`), then copies its bytes whatever the room. Pending bytes are
  overwritten; a later read returns others.
* `sched_reuse`: `terminate_counter` is not reset, so a second
  `scheduler_execute` returns while threads wait.
* `kvdb_open`: when the device cannot be opened or there is no memory for the log,
  `logfs_open` or `logfs_close` goes through NULL (`logfs.c:201`), where
  `logfs.h:23` says that open returns NULL on error and `:33` that close takes NULL.
* `ReturnsIffSurvivable` (`sched_rounds`): `scheduler.h:37` allows "a sequence of 0 or more
  scheduler_create() calls" and `:39` says that `scheduler_execute` "returns after all user threads
  (previously created) have terminated". It does so only for the workloads of `Survivable`: at least two threads,
  none created by a running one, every one but the last created yields before it returns, and whoever is left last
  does not yield again. With no thread `schedule` follows a NULL head (`scheduler.c:136`). A single
  thread is current from its creation on and never its own candidate, so NULL is followed before it
  ever runs, and the same happens when the thread left last yields. A thread that returns before the
  next one has been started makes `scheduler_execute` jump into a context that no `setjmp` filled
  (`scheduler.c:170`).
* `ParsesGrammar` (`compile_runs`): for a missing right operand of `+` or `-`, as in `1+`, the message takes its operator
  from `TBL[dag->op - PARSER_DAG_MUL]` (`parser.c:237`), which is `TBL[2]` or `TBL[3]` of a table of two
  (`:214`; the same line serves `*` and `/`, where it is right, at `:181`): undefined behaviour where an
  error message was meant. No argument that parses comes to this line.

The passing runs show some more exactly: `AbortsOnlyNullRemove` that of all
calls only `kvdb_remove` with NULL and a length gets past its own assert
(`kvdb.c:247`, `!!` for `!`) into one of `kvraw.c`; `AbortsNearEnd` that
the read-ahead trips an assert of `device.c` two blocks before the end of the
device; `CloseFlushes` what close loses; `CallsSurvive` that p23 leaves
its file long before it is full (`p23/scm.c:190`); WordBag's `Return` that a
word without room is reported as inserted (`avl.c:111`, `:198`);
`TerminalRestored` and `QuitReturns` that after `H` lines the shell writes its
line over the saved terminal settings and cannot be quit (`p23/shell.c:190`);
`ImplementsEditor` that one blank too many ends the promise of a line editor (`:158`);
`PrintsOwn` that after a failed `execv` the result of an earlier, killed run
may be printed (`jitc.c:44`; `jitc.h:21` promises 0 on success only), and that literals lose what six
decimals do not hold (`main.c:24`): `0.0000001*10000000` prints 0, and so does `1/0.0000001`, whose divisor has
become zero; `CleansUp` that a run whose `out.c` could not be written leaves `out.so` behind
(`main.c:109`, `:131`);
`NotLoaded` and `NoSymbol` that a failed `jitc_open` or `jitc_lookup` kills the
program (`jitc.c:93`, though `jitc.h:42` lets `jitc` be NULL; `jitc.c:107`
returns -1 where `jitc.h:52` says 0). In Logfs, after which `ReadsExact` promises nothing more and
`Hung` may be the end: a failed device call leaves the mutex
locked (`logfs.c:115`, `:291`), and after a failed `device_read` `head` has moved
while the window keeps its old bytes, which later hits return with success.

## Not modelled

* The failures of the constructors other than those of `kvdb_open`, and other destructors
  called with NULL: no state of theirs survives a failure.
* `avl_traverse`, `load` of `main.c` (it inserts word by word) and the getters, which read only, and `system.c` and `term.c`,
  wrappers without a state.
* The layout of a record in bytes, and kvraw's three reads of a record as reads
  of Logfs: Kvdb takes a record as a unit.
* The hash function: a constant, any function.
* `longjmp` into an unfilled context and NULL dereferences: no behaviour to
  model; `"stopped"`.
* Printing, tracing, time, terminal codes, `/proc` formats, the Makefiles:
  no property is about them.
* `p2/main.c`: a driver whose threads are one workload of Scheduler.

## Plan

In this order; every module with its properties, slips and, where marked (T),
theorems.

1. Logfs, AppendLog (T) - done.
2. Kvdb, KvMap, KvdbTests (T) - done, all safety properties proved.
3. Scheduler (T) - done.
4. Index, IndexMap (T) - done.
5. Scm, Avl, WordBag (T) - done, all properties proved. Left: `avl_traverse`, `load`.
6. Shell, LineEditor (T) - done, all properties proved. Left: commands with arguments, and
   characters that are no command, in a larger run.
7. Parser, Jit (T) - done, all safety properties proved.
8. Kvraw over Logfs: a record as the reads and appends `kvraw.c` makes, so
   that Kvdb's "a record is a unit" becomes a theorem or a run.
9. Monitor (T) - done.
