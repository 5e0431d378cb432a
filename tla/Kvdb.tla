-------------------------------- MODULE Kvdb --------------------------------
(***************************************************************************)
(* p4/kvdb.c over p4/kvraw.c and p4/index.c: a key-value store in an       *)
(* append-only log of records.  The index holds, per hash, the offset of   *)
(* the last record whose key has that hash; every record holds the one     *)
(* before it, so the records of a hash form a chain that a call walks from *)
(* its newest record.  A record with an empty value removes its key.       *)
(*                                                                         *)
(* Offsets are record numbers: the log is read back exactly (AppendLog),   *)
(* so only their order matters.  Record 0 is the dummy kvraw_open appends, *)
(* so that offset 0 can mean "no record".  Keys are atoms with a length    *)
(* and a head, their first eight bytes.                                    *)
(***************************************************************************)
EXTENDS Integers, Sequences, FiniteSets

CONSTANTS
  Keys, Hashes,
  Hash,        \* [Keys -> Hashes]: hash() of index.c
  KeyLen,      \* [Keys -> lengths in bytes]
  KeyHead,     \* [Keys -> first bytes]
  Bytes, Vals, \* values: non-empty sequences over Bytes
  Buffers,     \* [cap, null]: the val_len and val a caller may pass
  NoLen,       \* val_len is NULL
  Absent,      \* the index has no entry for a hash
  MaxRecords,  \* bound: no call once the log has this many records
  Faults       \* what may fail: "read" and "memory", for KvdbTests also
               \* "device" and "thread"

PtrSize == 8    \* sizeof (key_) in chain_lookup
BufSize == 256  \* sizeof (buf) in chain_lookup
Junk == 0       \* a byte of the caller's buffer before the call

ASSUME HashAssumption == Hash \in [Keys -> Hashes]

ASSUME LengthAssumption == KeyLen \in [Keys -> Nat \ {0}]

\* Keys no longer than a pointer that agree in length and head are the same.
ASSUME HeadAssumption ==
  \A k, l \in Keys :
    (KeyLen[k] = KeyLen[l] /\ KeyLen[k] <= PtrSize /\ KeyHead[k] = KeyHead[l])
      => k = l

ASSUME ValuesAssumption ==
  /\ Junk \in Bytes /\ Vals \subseteq Seq(Bytes) \ {<<>>}
  /\ Buffers \subseteq [cap : Nat \cup {NoLen}, null : BOOLEAN]
  /\ NoLen \notin Int /\ Absent \notin Int
  /\ MaxRecords \in Nat

VARIABLES
  records,      \* the log: [key, val, prev], prev a record number or 0
  index,        \* [Hashes -> record number, 0, or Absent]
  size, waste,  \* the counters of struct kvdb
  pc,           \* where the call is
  req,          \* its arguments
  off,          \* *off of chain_lookup
  off_,         \* off_ of chain_lookup: the record to read next
  val_len_,     \* val_len_ of mutate and kvdb_lookup
  buf,          \* the caller's val buffer
  reply         \* what the last call returned

vars == <<records, index, size, waste, pc, req, off, off_, val_len_, buf, reply>>
database == <<records, index, size, waste>>
walk == <<off, off_, val_len_, buf>>

Tombstone == <<>>
NoReply == [ret |-> "none"]
NoCall == [op |-> "none"]
Writes == {"insert", "update", "replace"}
Calls ==
  [op : Writes, key : Keys, val : Vals]
    \cup [op : {"lookup", "remove"}, key : Keys, buffer : Buffers]

Init ==
  /\ records = <<>> /\ index = [h \in Hashes |-> Absent]
  /\ size = 0 /\ waste = 0
  /\ pc = "idle" /\ req = NoCall /\ reply = NoReply
  /\ off = 0 /\ off_ = 0 /\ val_len_ = 0 /\ buf = <<>>

(***************************************************************************)
(* Entry of a call: its asserts, the index, and the arguments with which   *)
(* the chain is walked.  A mutation makes the index entry of its hash      *)
(* before it knows whether it will need one.                               *)
(***************************************************************************)
\* Slip: kvdb_lookup tests its arguments the way kvdb_remove does.
AcceptedAlike(call) ==
  \/ call.op \in Writes
  \/ call.op \notin Writes /\ (~call.buffer.null \/ call.buffer.cap # 0)

\* The asserts on val and val_len of kvdb_lookup and of kvdb_remove.
Accepted(call) ==
  \/ call.op \in Writes
  \/ call.op = "lookup" /\ (~call.buffer.null \/ call.buffer.cap \in {0, NoLen})
  \/ call.op = "remove" /\ (~call.buffer.null \/ call.buffer.cap # 0)

Capacity(call) ==
  IF call.op \in Writes \/ call.buffer.cap = NoLen THEN 0 ELSE call.buffer.cap

BufferOf(call) ==
  IF call.op \in Writes \/ call.buffer.cap = NoLen \/ call.buffer.null THEN <<>>
  ELSE [i \in 1 .. call.buffer.cap |-> Junk]

Answer(ret) ==
  /\ req' = NoCall /\ reply' = ret
  /\ off' = 0 /\ off_' = 0 /\ val_len_' = 0 /\ buf' = <<>>
Return(ret) == Answer(ret) /\ pc' = "idle"
Refused == Return([ret |-> "refused"]) /\ UNCHANGED database

\* Slip: an update counts its record before it has read the chain.
FailedCounted ==
  /\ Return([ret |-> "failed"])
  /\ size' = IF req.op = "update" THEN size + 1 ELSE size
  /\ UNCHANGED <<records, index, waste>>

Failed == Return([ret |-> "failed"]) /\ UNCHANGED database

\* logfs_read has failed and has left the mutex locked.  A later call would ask
\* for it again, or read a window that head has passed: the caller makes none.
ReadFailed == Answer([ret |-> "failed"]) /\ pc' = "broken" /\ UNCHANGED database

Answered == pc \in {"idle", "broken"}

Call ==
  /\ pc = "idle"
  /\ Len(records) < MaxRecords
  /\ \E call \in Calls :
       /\ Accepted(call)
       /\ req' = call
       /\ buf' = BufferOf(call)
       /\ val_len_' = Capacity(call)
  /\ pc' = "index" /\ reply' = NoReply
  /\ UNCHANGED <<database, off, off_>>

Entry == index[Hash[req.key]]

\* A new entry starts with offset 0.
EntryOffset == IF Entry = Absent THEN 0 ELSE Entry

\* kvdb_lookup: no entry, or an entry nothing was ever appended to.
IndexMiss ==
  /\ pc = "index" /\ req.op = "lookup"
  /\ Entry \in {Absent, 0}
  /\ Refused

IndexHit ==
  /\ pc = "index" /\ (req.op = "lookup" => Entry \notin {Absent, 0})
  /\ off' = EntryOffset /\ off_' = off'
  /\ index' = [index EXCEPT ![Hash[req.key]] = off']
  /\ pc' = "chain"
  /\ UNCHANGED <<records, size, waste, req, val_len_, buf, reply>>

\* index_update could not grow the table.
IndexFails ==
  /\ pc = "index" /\ req.op # "lookup" /\ "memory" \in Faults
  /\ Failed

(***************************************************************************)
(* chain_lookup.  Every record of the chain is read with its value, which  *)
(* goes to the caller's buffer whether or not the key turns out to match.  *)
(* A key longer than a pointer is read a second time to be compared whole. *)
(***************************************************************************)
\* kvraw_lookup copies as much of the value as the buffer takes.
Fill(value) == buf' = [i \in 1 .. Len(buf) |-> IF i <= Len(value) THEN value[i]
                                                               ELSE buf[i]]

\* The assert of kvraw_lookup on its caller's val buffer.
BufferGiven == Capacity(req) # 0 => ~req.buffer.null

\* Slip: the length check is forgotten, only the heads are compared.
SpeculatesHeadOnly(key) == KeyHead[key] = KeyHead[req.key]

\* The test on the first, speculative read of a record.
Speculates(key) == KeyLen[key] = KeyLen[req.key] /\ KeyHead[key] = KeyHead[req.key]

LongKey == KeyLen[req.key] > PtrSize

Found(value) == val_len_' = Len(value) /\ pc' = "decide"

\* No match: go on with the record before this one.
NextRecord == off' = off_' /\ pc' = "chain" /\ UNCHANGED val_len_

ChainRead ==
  /\ pc = "chain" /\ off_ # 0 /\ BufferGiven
  /\ LET record == records[off_]
     IN  /\ Fill(record.val)
         /\ off_' = record.prev
         /\ \/ ~Speculates(record.key) /\ NextRecord
            \/ Speculates(record.key) /\ LongKey
               /\ pc' = "reread" /\ UNCHANGED <<off, val_len_>>
            \/ Speculates(record.key) /\ ~LongKey
               /\ Found(record.val) /\ UNCHANGED off
  /\ UNCHANGED <<database, req, reply>>

ChainReread ==
  /\ pc = "reread"
  /\ LET record == records[off]
     IN  /\ off_' = record.prev
         /\ \/ record.key = req.key /\ Found(record.val) /\ UNCHANGED off
            \/ record.key # req.key /\ NextRecord
  /\ UNCHANGED <<database, req, buf, reply>>

ChainEnd ==
  /\ pc = "chain" /\ off_ = 0
  /\ pc' = "decide"
  /\ UNCHANGED <<database, req, walk, reply>>

\* A device_read failed, or there was no memory for the whole key.
ChainFails ==
  \/ "read" \in Faults /\ ReadFailed
     /\ \/ pc = "chain" /\ off_ # 0 /\ BufferGiven
        \/ pc = "reread"
  \/ pc = "reread" /\ "memory" \in Faults /\ Failed

\* The assert of kvraw_lookup fails and stops the process.
ChainAborts ==
  /\ pc = "chain" /\ off_ # 0 /\ ~BufferGiven
  /\ pc' = "aborted"
  /\ UNCHANGED <<database, req, walk, reply>>

(***************************************************************************)
(* What the call does with the record found.  kvraw_append stores it at    *)
(* the end of the log with the last record of the hash before it, and      *)
(* moves the index entry, *ref, to it.                                     *)
(***************************************************************************)
\* Slip: the record found is put before the new one, and those of other keys
\* that lie between them leave the chain.
AppendedToFound(val) ==
  /\ records' = Append(records, [key |-> req.key, val |-> val, prev |-> off])
  /\ index' = [index EXCEPT ![Hash[req.key]] = Len(records) + 1]

\* Slip: *off is moved before the record takes it.
AppendedToItself(val) ==
  /\ records' = Append(records, [key |-> req.key, val |-> val,
                                prev |-> Len(records) + 1])
  /\ index' = [index EXCEPT ![Hash[req.key]] = Len(records) + 1]

Appended(val) ==
  /\ records' = Append(records, [key |-> req.key, val |-> val, prev |-> Entry])
  /\ index' = [index EXCEPT ![Hash[req.key]] = Len(records) + 1]

\* Slip: a key whose last record removes it counts as there.
LiveUnlessNew == off # 0

\* There is a record of the key and it does not remove it.
Live == off # 0 /\ val_len_ # 0

Count ==
  /\ size' = size + (IF req.op = "remove" THEN -1 ELSE IF Live THEN 0 ELSE 1)
  /\ waste' = waste + (IF Live THEN 1 ELSE 0)

\* *val_len is the length of the value, of which the buffer has a part.
Reported ==
  IF req.buffer.cap = NoLen THEN [ret |-> "ok", len |-> NoLen, val |-> <<>>]
  ELSE [ret |-> "ok", len |-> val_len_,
        val |-> [i \in 1 .. IF val_len_ < Len(buf) THEN val_len_ ELSE Len(buf)
                   |-> buf[i]]]

Lookup ==
  /\ pc = "decide" /\ req.op = "lookup" /\ Live
  /\ Return(Reported)
  /\ UNCHANGED database

Remove ==
  /\ pc = "decide" /\ req.op = "remove" /\ Live
  /\ Appended(Tombstone) /\ Count
  /\ Return(Reported)

Write ==
  /\ pc = "decide"
  /\ \/ req.op = "insert" /\ ~Live
     \/ req.op = "update"
     \/ req.op = "replace" /\ Live
  /\ Appended(req.val) /\ Count
  /\ Return([ret |-> "ok", len |-> NoLen, val |-> <<>>])

\* The key is missing or, for an insert, already there.
Refuse ==
  /\ pc = "decide"
  /\ \/ req.op = "insert" /\ Live
     \/ req.op \in {"lookup", "remove", "replace"} /\ ~Live
  /\ Refused

Index == IndexMiss \/ IndexHit \/ IndexFails
ChainLookup == ChainRead \/ ChainReread \/ ChainEnd \/ ChainFails \/ ChainAborts
Decide == Lookup \/ Remove \/ Write \/ Refuse
Next == Call \/ Index \/ ChainLookup \/ Decide

Spec == Init /\ [][Next]_vars

-----------------------------------------------------------------------------
(***************************************************************************)
(*                               Properties                                *)
(***************************************************************************)
TypeOK ==
  /\ records \in Seq([key : Keys, val : Seq(Bytes), prev : Nat])
  /\ index \in [Hashes -> Nat \cup {Absent}]
  /\ size \in Int /\ waste \in Nat
  /\ pc \in {"idle", "broken", "index", "chain", "reread", "decide", "aborted"}
  /\ req \in Calls \cup {NoCall} /\ (req = NoCall <=> Answered)
  /\ off \in Nat /\ off_ \in Nat /\ val_len_ \in Nat /\ buf \in Seq(Bytes)

\* o is the last record of hash h below record n, or 0 when there is none.
IsLast(o, h, n) ==
  /\ o \in 0 .. n - 1
  /\ o # 0 => Hash[records[o].key] = h
  /\ \A i \in o + 1 .. n - 1 : Hash[records[i].key] # h

\* A chain holds every record of its hash, newest first, and the index enters
\* it at the newest: appending to one chain never cuts a record out of it,
\* whatever keys share the hash, and no failed call leaves a stray entry.
ChainsComplete ==
  /\ \A i \in 1 .. Len(records) :
       IsLast(records[i].prev, Hash[records[i].key], i)
  /\ \A h \in Hashes :
       IsLast(IF index[h] = Absent THEN 0 ELSE index[h], h, Len(records) + 1)

\* The walk of a call has not passed a record of its key, and when it ends the
\* record it stands on is the newest one of the key, or there is none.
NewerThan(o) == {i \in 1 .. Len(records) : i > o /\ records[i].key = req.key}

WalkFindsNewest ==
  /\ pc \in {"chain", "reread", "decide"} => NewerThan(off) = {}
  /\ pc = "decide" /\ off # 0 =>
       records[off].key = req.key /\ val_len_ = Len(records[off].val)

\* The value of a key is that of its newest record.
IsNewest(i, log, k) ==
  /\ i \in 1 .. Len(log) /\ log[i].key = k
  /\ \A j \in i + 1 .. Len(log) : log[j].key # k
ValueIn(log, k) ==
  IF \E i \in 1 .. Len(log) : IsNewest(i, log, k)
    THEN log[CHOOSE i \in 1 .. Len(log) : IsNewest(i, log, k)].val
    ELSE Tombstone
Store(k) == ValueIn(records, k)

\* kvdb_size is the number of keys that have a value, and kvdb_waste the
\* number of stored values that are not the value of their key any more.
LiveKeys == {k \in Keys : Store(k) # Tombstone}
Stored == {i \in 1 .. Len(records) : records[i].val # Tombstone}
CountersExact ==
  size = Cardinality(LiveKeys) /\ size + waste = Cardinality(Stored)

\* Of the calls the asserts of kvdb.c let in, only a kvdb_remove with NULL and
\* a length trips the one of kvraw.c (line 115: a val_len that is not zero
\* comes with a buffer): its own assert (kvdb.c:247) has one ! too many, and
\* that of kvdb_lookup keeps such a call away.
AbortsOnlyNullRemove ==
  pc = "aborted" => req.op = "remove" /\ req.buffer.null /\ Len(records) > 0

(***************************************************************************)
(* The map of KvMap: a call takes effect when it returns.  BehavesAsMap    *)
(* says that answers and effects are those of the map, after any sequence  *)
(* of calls and whatever hashes collide.                                   *)
(***************************************************************************)
Request ==
  IF Answered THEN NoCall
  ELSE IF req.op \in Writes THEN req
  ELSE [op |-> req.op, key |-> req.key, cap |-> req.buffer.cap]

Map == INSTANCE KvMap
         WITH store <- [k \in Keys |-> Store(k)], request <- Request,
              Caps <- {b.cap : b \in Buffers} \ {NoLen},
              MayFail <- (Faults # {})
BehavesAsMap == Map!SafeSpec

\* Every call returns, unless its assert stops the process: a walk ends, for the
\* offsets in the records of a chain go down, and a failure ends the call, too.
EveryCallReturns == ~Answered ~> Answered \/ pc = "aborted"
=============================================================================
