------------------------------ MODULE KvdbTests ------------------------------
(***************************************************************************)
(* p4/main.c: the tests of the database, each a sequence of calls whose    *)
(* answers it compares, with kvdb_open before and kvdb_close after it.     *)
(* main runs one test after the other, each on a new log and index, so     *)
(* that a behaviour is one test or, as "any", a program that makes any     *)
(* calls.  A verdict other than "PASS" prints FAIL; it is named after the  *)
(* TRACE that main.c leaves.                                               *)
(***************************************************************************)
EXTENDS Kvdb

Seqs == INSTANCE SequencesExt

CONSTANTS
  KEY, VAL1, VAL2, VAL3,  \* the key and the values of basic_logic
  Objects,                \* the keys of mk_object, a sequence
  Object,                 \* [keys of Objects -> Vals]: the values of mk_object
  Rewrites,               \* n of heavy_rewrite: a sequence of values
  Room,                   \* sizeof (val): a length that holds every value
  AnyRecords,             \* bound: as MaxRecords, for "any"
  AnyVals                 \* bound: the values "any" stores

\* The values the tests store.
TestVals ==
  {VAL1, VAL2, VAL3} \cup {Rewrites[i] : i \in 1 .. Len(Rewrites)}
    \cup {Object[Objects[i]] : i \in 1 .. Len(Objects)}

\* The objects of a test have keys of their own: mk_object writes i into them.
ASSUME TestsAssumption ==
  /\ KEY \in Keys /\ TestVals \subseteq Vals /\ Rewrites \in Seq(Vals)
  /\ Objects \in Seq(Keys) \ {<<>>}
  /\ \A i, j \in 1 .. Len(Objects) : Objects[i] = Objects[j] => i = j
  /\ Room \in Nat /\ \A val \in TestVals : Len(val) <= Room

VARIABLES
  opened,   \* how many of Stack kvdb_open has acquired
  test,     \* the test that runs
  script,   \* its steps to come
  val_len,  \* the length main.c passes to lookup and remove, and gets back
  verdict

driver == <<opened, test, script, val_len, verdict>>

(***************************************************************************)
(* The steps of a test: a call with the answer it must have, a comparison  *)
(* of the counters, the reset of val_len, the allocation of buffers.       *)
(***************************************************************************)
Step(op, key, val, ret) == [op |-> op, key |-> key, val |-> val, ret |-> ret]
Done(op, key, val) == Step(op, key, val, "ok")
Refuses(op, key, val) == Step(op, key, val, "refused")
Finds(key, val) == Step("lookup", key, val, "ok")
Misses(key) == Step("lookup", key, <<>>, "refused")
Counters(s, w) == [op |-> "counters", size |-> s, waste |-> w]
Reset == [op |-> "reset"]
Malloc == [op |-> "malloc"]

\* A lookup without a length, and one with a length of 0.
MissesWith(op) == [Misses(KEY) EXCEPT !.op = op]

\* One of the three groups of basic_logic that store a value.
Stores(op, val, waste_) ==
  <<Reset, Done(op, KEY, val), Finds(KEY, val), Refuses("insert", KEY, val),
    Finds(KEY, val), Counters(1, waste_)>>

basic_logic ==
  <<Counters(0, 0), MissesWith("no length"), MissesWith("no buffer"), Misses(KEY),
    Counters(0, 0), Refuses("replace", KEY, VAL1), Counters(0, 0)>>
  \o Stores("insert", VAL1, 0) \o Stores("replace", VAL2, 1)
  \o Stores("update", VAL3, 2)
  \o <<Reset, Finds(KEY, VAL3), Counters(1, 2),
       Reset, Done("remove", KEY, VAL3), Misses(KEY), Counters(0, 3)>>

heavy_rewrite ==
  Seqs!FlattenSeq([i \in 1 .. Len(Rewrites) |->
    <<Reset, Done("update", KEY, Rewrites[i]), Finds(KEY, Rewrites[i]),
      Counters(1, i - 1)>>])

\* The objects inserted and found, then looked up in the order of js.
read_write(n, js) ==
  LET key(i) == Objects[i]
      val(i) == Object[Objects[i]]
  IN <<Malloc>>
     \o Seqs!FlattenSeq([i \in 1 .. n |->
          <<Reset, Done("insert", key(i), val(i)), Finds(key(i), val(i)),
            Counters(i, 0)>>])
     \o Seqs!FlattenSeq([i \in 1 .. n |->
          <<Reset, Finds(key(js[i]), val(js[i])), Counters(n, 0)>>])

\* The small and the large read_write differ in the sizes of the objects only.
Scripts ==
  LET N == Len(Objects)
      read_writes(n) == {read_write(n, js) : js \in [1 .. n -> 1 .. n]}
  IN [basic_logic |-> {basic_logic}, heavy_rewrite |-> {heavy_rewrite},
      read_write_single |-> read_writes(1), read_write_large |-> read_writes(N),
      any |-> {<<>>}]

TestInit ==
  /\ Init
  /\ opened = 0 /\ val_len = 0 /\ verdict = "running"
  /\ test \in DOMAIN Scripts /\ script \in Scripts[test]

(***************************************************************************)
(* kvdb_open.  A failure at kvdb, kvraw or index frees what there is and   *)
(* is reported.  One below kvraw ends in logfs_open or logfs_close with    *)
(* NULL in place of the log, of its buffer or of its thread.               *)
(***************************************************************************)
Stack == <<"kvdb", "kvraw", "logfs", "device", "write_cache", "read_cache",
           "consumer", "index">>

NeededFor(part) == CASE part = "device" -> "device"
                     [] part = "consumer" -> "thread"
                     [] OTHER -> "memory"

Reports(part) == part \in {"kvdb", "kvraw", "index"}

IsOpen == opened = Len(Stack)

Open ==
  /\ verdict = "running" /\ ~IsOpen
  /\ opened' = opened + 1
  /\ UNCHANGED <<vars, test, script, val_len, verdict>>

OpenFails ==
  /\ verdict = "running" /\ ~IsOpen
  /\ LET part == Stack[opened + 1]
     IN  /\ NeededFor(part) \in Faults
         /\ verdict' = IF Reports(part) THEN "open" ELSE "crashed"
  /\ UNCHANGED <<vars, opened, test, script, val_len>>

(***************************************************************************)
(* The steps of a test that make no call.                                  *)
(***************************************************************************)
Waiting == verdict = "running" /\ IsOpen /\ pc = "idle"
At(op) == Waiting /\ script # <<>> /\ Head(script).op = op

\* Every comparison that does not hold closes the database and fails the test.
Compare(good) ==
  \/ good /\ script' = Tail(script) /\ UNCHANGED verdict
  \/ ~good /\ script' = <<>> /\ verdict' = "software"

CompareCounters ==
  /\ At("counters")
  /\ Compare(size = Head(script).size /\ waste = Head(script).waste)
  /\ UNCHANGED <<vars, opened, test, val_len>>

\* Slip: val_len keeps the length of the value found last.
ResetForgotten ==
  /\ At("reset")
  /\ script' = Tail(script)
  /\ UNCHANGED <<vars, opened, test, val_len, verdict>>

ResetLength ==
  /\ At("reset")
  /\ val_len' = Room
  /\ script' = Tail(script)
  /\ UNCHANGED <<vars, opened, test, verdict>>

AllocateBuffers ==
  /\ At("malloc")
  /\ \/ script' = Tail(script) /\ UNCHANGED verdict
     \/ "memory" \in Faults /\ verdict' = "out of memory" /\ script' = <<>>
  /\ UNCHANGED <<vars, opened, test, val_len>>

(***************************************************************************)
(* The calls.                                                              *)
(***************************************************************************)
CallOf(step) ==
  LET with(op, cap, null) ==
        [op |-> op, key |-> step.key, buffer |-> [cap |-> cap, null |-> null]]
  IN CASE step.op \in Writes -> [op |-> step.op, key |-> step.key, val |-> step.val]
       [] step.op \in {"lookup", "remove"} -> with(step.op, val_len, FALSE)
       [] step.op = "no length" -> with("lookup", NoLen, TRUE)
       [] step.op = "no buffer" -> with("lookup", val_len, TRUE)

Ask ==
  /\ Waiting /\ script # <<>>
  /\ Head(script).op \notin {"counters", "reset", "malloc"}
  /\ Call /\ req' = CallOf(Head(script))
  /\ UNCHANGED driver

AskAny ==
  /\ Waiting /\ test = "any" /\ Len(records) < AnyRecords
  /\ Call /\ (req'.op \in Writes => req'.val \in AnyVals)
  /\ UNCHANGED driver

\* The code of the return and, where there is one, the length and the value.
AsExpected(step, answer) ==
  /\ answer.ret = step.ret
  /\ answer.ret = "ok" /\ step.op \notin Writes =>
       answer.len = Len(step.val) /\ answer.val = step.val

\* The database works on the call; a test compares the answer.
Work ==
  /\ Index \/ ChainLookup \/ Decide
  /\ IF test = "any" \/ pc' # "idle" THEN UNCHANGED <<script, val_len, verdict>>
     ELSE /\ Compare(AsExpected(Head(script), reply'))
          /\ val_len' = IF reply'.ret = "ok" /\ reply'.len # NoLen THEN reply'.len
                                                                  ELSE val_len
  /\ UNCHANGED <<opened, test>>

\* After a failed read kvdb_close asks for the mutex this thread has locked.
CloseHangs ==
  /\ verdict = "running" /\ pc = "broken"
  /\ verdict' = "hung"
  /\ UNCHANGED <<vars, opened, test, script, val_len>>

Pass ==
  /\ Waiting /\ script = <<>>
  /\ verdict' = "PASS"
  /\ UNCHANGED <<vars, opened, test, script, val_len>>

Quiet == CompareCounters \/ ResetLength \/ AllocateBuffers

TestNext ==
  \/ Open \/ OpenFails \/ Quiet \/ Ask \/ AskAny \/ Work \/ CloseHangs \/ Pass

TestSpec == TestInit /\ [][TestNext]_<<vars, driver>>

\* The code runs; only a program of its own choice may stop calling.
FairTestSpec ==
  /\ TestSpec
  /\ WF_<<vars, driver>>(Open \/ OpenFails \/ Quiet \/ Ask \/ Work \/ CloseHangs)

-----------------------------------------------------------------------------
\* The tests of the repository pass: with any keys that collide and agree in
\* length and head, what they expect of every answer, length, value and counter
\* is what the database does, unless a call has failed for want of memory.
TestsPass == verdict = "software" => reply.ret = "failed"

\* kvdb_open ends with a database or with NULL: logfs.h:21 promises a handle
\* or NULL on error, and logfs.h:33 lets logfs_close have NULL.
OpenReturns == verdict # "crashed"
=============================================================================
