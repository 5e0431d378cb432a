----------------------------- MODULE KvdbProofs -----------------------------
(***************************************************************************)
(* Proofs about Kvdb, for every set of keys, hash function and log: types, *)
(* the chains, the walk along them, the counters, the map they make, and   *)
(* the tests of KvdbTests on it.                                           *)
(***************************************************************************)
EXTENDS KvdbTests, FiniteSetTheorems, ModArith, TLAPS

\* What the walk of a call knows at each of its steps.
WalkInv ==
  /\ pc \in {"chain", "reread", "decide"} =>
       /\ Entry # Absent
       /\ off \in 0 .. Len(records)
       /\ off # 0 => Hash[records[off].key] = Hash[req.key]
       /\ \A i \in 1 .. Len(records) : i > off => records[i].key # req.key
  /\ pc = "chain" => off_ = off
  /\ pc = "reread" => off # 0 /\ off_ = records[off].prev
  /\ pc = "decide" /\ off # 0 =>
       records[off].key = req.key /\ val_len_ = Len(records[off].val)

IInv == TypeOK /\ ChainsComplete /\ WalkInv

\* Whether a call is under way is spelled out in every proof below.
USE DEF Answered

LEMMA HashType == \A k \in Keys : Hash[k] \in Hashes
PROOF
  <1>1. Hash \in [Keys -> Hashes]
    BY HashAssumption
  <1>2. QED
    BY <1>1

LEMMA LengthType == \A k \in Keys : KeyLen[k] \in Nat
PROOF
  <1>1. KeyLen \in [Keys -> Nat \ {0}]
    BY LengthAssumption
  <1>2. QED
    BY <1>1

LEMMA EntryOfSeq ==
  ASSUME NEW S, NEW s \in Seq(S), NEW i \in 1 .. Len(s)
  PROVE  s[i] \in S
PROOF
  OBVIOUS

\* The request of a call in progress has a key, and a value if it writes one.
LEMMA CallTypes ==
  ASSUME NEW c \in Calls
  PROVE  /\ c.key \in Keys /\ Hash[c.key] \in Hashes
         /\ c # NoCall
         /\ c.op \in Writes \cup {"lookup", "remove"}
         /\ c.op \in Writes => c.val \in Seq(Bytes) /\ c.val # <<>>
         /\ c.op \notin Writes =>
              c.buffer.cap \in Nat \cup {NoLen} /\ c.buffer.null \in BOOLEAN
         /\ Capacity(c) \in Nat /\ BufferOf(c) \in Seq(Bytes)
PROOF
  <1>1. c.key \in Keys /\ Hash[c.key] \in Hashes
    <2>1. c.key \in Keys
      BY DEF Calls
    <2>2. QED
      BY <2>1, HashType
  <1>2. c.op \in Writes \cup {"lookup", "remove"}
    BY DEF Calls
  <1>3. c # NoCall
    BY <1>2 DEF NoCall, Writes
  <1>4. CASE c \in [op : Writes, key : Keys, val : Vals]
    <2>1. c.op \in Writes /\ c.val \in Seq(Bytes) /\ c.val # <<>>
      BY <1>4, ValuesAssumption
    <2>2. Capacity(c) \in Nat /\ BufferOf(c) \in Seq(Bytes)
      BY <2>1 DEF Capacity, BufferOf
    <2>3. QED
      BY <1>1, <1>2, <1>3, <2>1, <2>2
  <1>5. CASE c \in [op : {"lookup", "remove"}, key : Keys, buffer : Buffers]
    <2>1. c.op \notin Writes /\ c.buffer \in [cap : Nat \cup {NoLen}, null : BOOLEAN]
      BY <1>5, ValuesAssumption DEF Writes
    <2>2. Capacity(c) \in Nat
      BY <2>1 DEF Capacity
    <2>3. BufferOf(c) \in Seq(Bytes)
      BY <2>1, ValuesAssumption DEF BufferOf
    <2>4. QED
      BY <1>1, <1>2, <1>3, <2>1, <2>2, <2>3
  <1>6. QED
    BY <1>4, <1>5 DEF Calls

\* The buffer keeps its type as values are copied into it.
LEMMA FillType ==
  ASSUME NEW b \in Seq(Bytes), NEW v \in Seq(Bytes)
  PROVE  [i \in 1 .. Len(b) |-> IF i <= Len(v) THEN v[i] ELSE b[i]] \in Seq(Bytes)
PROOF
  OBVIOUS

LEMMA EmptyType == <<>> \in Seq(Bytes)
PROOF
  OBVIOUS

\* A record of a typed log has its type.
LEMMA RecordTypes ==
  ASSUME records \in Seq([key : Keys, val : Seq(Bytes), prev : Nat]),
         NEW i \in 1 .. Len(records)
  PROVE  /\ records[i].key \in Keys
         /\ records[i].val \in Seq(Bytes)
         /\ records[i].prev \in Nat
PROOF
  <1>1. records[i] \in [key : Keys, val : Seq(Bytes), prev : Nat]
    BY EntryOfSeq
  <1>2. QED
    BY <1>1

\* Every variable keeps its type.
LEMMA TypeInductive == TypeOK /\ ChainsComplete /\ WalkInv /\ [Next]_vars => TypeOK'
PROOF
  <1>1. SUFFICES ASSUME TypeOK, ChainsComplete, WalkInv, [Next]_vars PROVE TypeOK'
    OBVIOUS
  <1>2. CASE UNCHANGED vars
    BY <1>1, <1>2 DEF TypeOK, vars
  <1>3. CASE Call
    <2>1. PICK call \in Calls : /\ req' = call /\ buf' = BufferOf(call)
                               /\ val_len_' = Capacity(call)
      BY <1>3 DEF Call
    <2>2. req' \in Calls /\ req' # NoCall /\ buf' \in Seq(Bytes) /\ val_len_' \in Nat
      BY <2>1, CallTypes
    <2>3. QED
      BY <1>1, <1>3, <2>2 DEF TypeOK, Call, database
  <1>4. ASSUME ~Answered PROVE req \in Calls /\ Hash[req.key] \in Hashes /\ req.key \in Keys
    BY <1>1, <1>4, CallTypes DEF TypeOK
  <1>5. CASE IndexMiss \/ IndexFails \/ ChainFails \/ Refuse \/ Lookup
    <2>1. UNCHANGED database /\ (\E ret : Answer(ret)) /\ Answered'
      BY <1>5 DEF IndexMiss, IndexFails, ChainFails, Refuse, Lookup, Refused, Failed,
                  ReadFailed, Return
    <2>2. QED
      BY <1>1, <2>1, EmptyType DEF TypeOK, Return, Answer, database
  <1>6. CASE IndexHit
    <2>1. pc = "index" /\ Entry \in Nat \cup {Absent}
      BY <1>1, <1>4, <1>6 DEF TypeOK, IndexHit, Entry
    <2>2. off' \in Nat /\ off_' \in Nat
      BY <1>6, <2>1 DEF IndexHit, EntryOffset
    <2>3. index' \in [Hashes -> Nat \cup {Absent}]
      BY <1>1, <1>6, <2>2 DEF IndexHit, TypeOK
    <2>4. QED
      BY <1>1, <1>6, <2>1, <2>2, <2>3 DEF TypeOK, IndexHit
  <1>7. CASE ChainRead
    <2>1. pc = "chain" /\ off_ \in 1 .. Len(records)
      BY <1>1, <1>7 DEF ChainRead, WalkInv, TypeOK
    <2>2. records[off_].val \in Seq(Bytes) /\ records[off_].prev \in Nat
      BY <1>1, <2>1, RecordTypes DEF TypeOK
    <2>3. buf' \in Seq(Bytes)
      BY <1>1, <1>7, <2>2, FillType DEF ChainRead, Fill, TypeOK
    <2>4. off' \in Nat /\ off_' \in Nat /\ val_len_' \in Nat
      BY SMTT(30), <1>1, <1>7, <2>2 DEF ChainRead, NextRecord, Found, TypeOK
    <2>5. pc' \in {"chain", "reread", "decide"}
      BY <1>7 DEF ChainRead, NextRecord, Found
    <2>6. QED
      BY <1>1, <1>7, <2>1, <2>3, <2>4, <2>5 DEF TypeOK, ChainRead, database
  <1>8. CASE ChainReread
    <2>1. pc = "reread" /\ off \in 1 .. Len(records)
      BY <1>1, <1>8 DEF ChainReread, WalkInv, TypeOK
    <2>2. records[off].val \in Seq(Bytes) /\ records[off].prev \in Nat
      BY <1>1, <2>1, RecordTypes DEF TypeOK
    <2>3. off' \in Nat /\ off_' \in Nat /\ val_len_' \in Nat
      BY <1>1, <1>8, <2>2 DEF ChainReread, NextRecord, Found, TypeOK
    <2>4. pc' \in {"chain", "decide"}
      BY <1>8 DEF ChainReread, NextRecord, Found
    <2>5. QED
      BY <1>1, <1>8, <2>1, <2>3, <2>4 DEF TypeOK, ChainReread, database
  <1>9. CASE ChainEnd \/ ChainAborts
    BY <1>1, <1>9 DEF TypeOK, ChainEnd, ChainAborts, database, walk
  <1>10. CASE Remove \/ Write
    <2>1. pc = "decide" /\ req \in Calls /\ req.key \in Keys
      BY <1>4, <1>10 DEF Remove, Write
    <2>2. PICK v \in Seq(Bytes) : Appended(v)
      <3>1. CASE Remove
        BY <3>1, EmptyType DEF Remove, Tombstone
      <3>2. CASE Write
        BY <2>1, <3>2, CallTypes DEF Write, Writes
      <3>3. QED
        BY <1>10, <3>1, <3>2
    <2>3. Entry \in Nat
      BY <1>1, <1>4, <2>1 DEF TypeOK, Entry, WalkInv
    <2>4. records' \in Seq([key : Keys, val : Seq(Bytes), prev : Nat])
      BY <1>1, <2>1, <2>2, <2>3 DEF Appended, TypeOK
    <2>5. index' \in [Hashes -> Nat \cup {Absent}]
      <3>1. Len(records) + 1 \in Nat
        BY <1>1 DEF TypeOK
      <3>2. QED
        BY <1>1, <2>2, <3>1 DEF Appended, TypeOK
    <2>6. size' \in Int /\ waste' \in Nat
      BY <1>1, <1>10 DEF Remove, Write, Count, TypeOK
    <2>7. QED
      <3>1. \E ret : Return(ret)
        BY <1>10 DEF Remove, Write
      <3>2. QED
        BY <2>4, <2>5, <2>6, <3>1, EmptyType DEF TypeOK, Return, Answer
  <1>11. QED
    BY <1>1, <1>2, <1>3, <1>5, <1>6, <1>7, <1>8, <1>9, <1>10
       DEF Next, Index, ChainLookup, Decide

\* The log after a record is appended to it.
LEMMA AppendFacts ==
  ASSUME TypeOK, NEW v \in Seq(Bytes), req \in Calls, Entry \in Nat, Appended(v)
  PROVE  LET n == Len(records) + 1 IN
         /\ Len(records') = n
         /\ \A i \in 1 .. Len(records) : records'[i] = records[i]
         /\ records'[n].key = req.key
         /\ records'[n].val = v
         /\ records'[n].prev = Entry
PROOF
  <1> DEFINE rec == [key |-> req.key, val |-> v, prev |-> Entry]
  <1>1. records' = Append(records, rec)
    BY DEF Appended
  <1>2. records \in Seq([key : Keys, val : Seq(Bytes), prev : Nat])
    BY DEF TypeOK
  <1>3. rec.key = req.key /\ rec.val = v /\ rec.prev = Entry
    OBVIOUS
  <1> HIDE DEF rec
  <1>4. Len(records') = Len(records) + 1
    BY <1>1, <1>2
  <1>5. \A i \in 1 .. Len(records) : records'[i] = records[i]
    BY <1>1, <1>2
  <1>6. records'[Len(records) + 1] = rec
    BY <1>1, <1>2
  <1>7. QED
    BY <1>3, <1>4, <1>5, <1>6

\* The steps that append are the only ones that touch the log, and the index
\* entry of a call can be followed from its own walk.
LEMMA OtherSteps ==
  ASSUME TypeOK, WalkInv, [Next]_vars, ~Remove, ~Write, ~IndexHit
  PROVE  UNCHANGED <<records, index>>
PROOF
  BY DEF Next, Index, ChainLookup, Decide, Call, IndexMiss, IndexFails, ChainRead,
         ChainReread, ChainEnd, ChainFails, ChainAborts, Lookup, Refuse, Refused,
         Failed, ReadFailed, database, vars

LEMMA AppendSteps ==
  ASSUME TypeOK, WalkInv, Remove \/ Write
  PROVE  /\ \E v \in Seq(Bytes) : Appended(v)
         /\ req \in Calls /\ req.key \in Keys /\ Hash[req.key] \in Hashes
         /\ Entry \in Nat
         /\ \E ret : Return(ret)
PROOF
  <1>1. pc = "decide" /\ req \in Calls /\ req.key \in Keys /\ Hash[req.key] \in Hashes
    BY CallTypes DEF Remove, Write, TypeOK
  <1>2. CASE Remove
    BY <1>1, <1>2, EmptyType DEF Remove, Tombstone, Return, Answer, TypeOK, Entry, WalkInv
  <1>3. CASE Write
    <2>1. req.val \in Seq(Bytes)
      BY <1>1, <1>3, CallTypes DEF Write, Writes
    <2>2. QED
      BY <1>1, <1>3, <2>1 DEF Write, Return, Answer, TypeOK, Entry, WalkInv
  <1>4. QED
    BY <1>2, <1>3

\* Appending keeps every chain complete.
LEMMA ChainsInductive ==
  TypeOK /\ ChainsComplete /\ WalkInv /\ [Next]_vars => ChainsComplete'
PROOF
  <1>1. SUFFICES ASSUME TypeOK, ChainsComplete, WalkInv, [Next]_vars
                 PROVE  ChainsComplete'
    OBVIOUS
  <1>2. CASE UNCHANGED <<records, index>>
    BY <1>1, <1>2 DEF ChainsComplete, IsLast
  <1>3. CASE IndexHit
    <2>1. req \in Calls /\ Hash[req.key] \in Hashes
      BY <1>1, <1>3, CallTypes DEF IndexHit, TypeOK
    <2>2. records' = records /\ index' = [index EXCEPT ![Hash[req.key]] = EntryOffset]
      BY <1>3 DEF IndexHit
    <2>3. ASSUME NEW h \in Hashes
          PROVE  (IF index'[h] = Absent THEN 0 ELSE index'[h])
                   = (IF index[h] = Absent THEN 0 ELSE index[h])
      BY <1>1, <2>1, <2>2, ValuesAssumption DEF EntryOffset, Entry, TypeOK
    <2>4. QED
      BY <1>1, <2>2, <2>3 DEF ChainsComplete, IsLast
  <1>4. CASE Remove \/ Write
    <2>1. PICK v \in Seq(Bytes) : Appended(v)
      BY <1>1, <1>4, AppendSteps
    <2>2. req \in Calls /\ req.key \in Keys /\ Hash[req.key] \in Hashes /\ Entry \in Nat
      BY <1>1, <1>4, AppendSteps
    <2> DEFINE n == Len(records) + 1
               h0 == Hash[req.key]
    <2>3. /\ Len(records') = n
          /\ \A i \in 1 .. Len(records) : records'[i] = records[i]
          /\ records'[n].key = req.key
          /\ records'[n].prev = Entry
      BY <1>1, <2>1, <2>2, AppendFacts
    <2>4. index' = [index EXCEPT ![h0] = n] /\ Len(records) \in Nat
      BY <1>1, <2>1 DEF Appended, TypeOK
    <2>5. IsLast(Entry, h0, n)
      BY <1>1, <2>2, ValuesAssumption DEF ChainsComplete, Entry
    <2>6. ASSUME NEW o, NEW h, NEW k \in 1 .. n, IsLast(o, h, k)
          PROVE  IsLast(o, h, k)'
      <3>1. o \in 0 .. k - 1 /\ k - 1 <= Len(records)
        BY <2>4, <2>6 DEF IsLast
      <3>2. \A i \in 1 .. k - 1 : records'[i] = records[i]
        BY <2>3, <2>4, <3>1
      <3>3. QED
        BY <2>6, <3>1, <3>2 DEF IsLast
    <2>7. ASSUME NEW i \in 1 .. Len(records')
          PROVE  IsLast(records[i].prev, Hash[records[i].key], i)'
      <3>1. CASE i = n
        BY <2>3, <2>4, <2>5, <2>6, <3>1
      <3>2. CASE i # n
        <4>1. i \in 1 .. Len(records) /\ i \in 1 .. n
          BY <2>3, <2>4, <3>2
        <4>2. QED
          BY <1>1, <2>3, <2>6, <4>1 DEF ChainsComplete
      <3>3. QED
        BY <3>1, <3>2
    <2>8. ASSUME NEW h \in Hashes
          PROVE  IsLast(IF index[h] = Absent THEN 0 ELSE index[h], h, Len(records) + 1)'
      <3>1. CASE h = h0
        <4>1. PICK m : m = n
          OBVIOUS
        <4>2. m \in Nat \ {0} /\ index'[h] = m /\ m # Absent /\ Len(records') = m
          BY <1>1, <2>3, <2>4, <3>1, <4>1, ValuesAssumption DEF TypeOK
        <4>3. records'[m].key = req.key
          BY <2>3, <4>1
        <4>4. IsLast(m, h, m + 1)'
          BY <3>1, <4>2, <4>3 DEF IsLast
        <4>5. QED
          BY <4>2, <4>4
      <3>2. CASE h # h0
        <4>0. PICK o, m : m = n /\ o = IF index[h] = Absent THEN 0 ELSE index[h]
          OBVIOUS
        <4>1. index'[h] = index[h]
          BY <1>1, <2>4, <3>2 DEF TypeOK
        <4>2. IsLast(o, h, m) /\ m \in 1 .. n
          BY <1>1, <2>4, <4>0 DEF ChainsComplete
        <4>3. IsLast(o, h, m)'
          BY <2>6, <4>2
        <4>4. Hash[records'[m].key] # h /\ Len(records') = m /\ m \in Nat
          BY <2>3, <2>4, <3>2, <4>0
        <4>5. IsLast(o, h, m + 1)'
          BY <4>3, <4>4 DEF IsLast
        <4>6. QED
          BY <4>0, <4>1, <4>4, <4>5
      <3>3. QED
        BY <3>1, <3>2
    <2>9. QED
      BY <2>7, <2>8 DEF ChainsComplete
  <1>5. QED
    BY <1>1, <1>2, <1>3, <1>4, OtherSteps

\* The record before one whose key is not the one searched for: none of the
\* key lies between the two.
LEMMA StepBack ==
  ASSUME TypeOK, ChainsComplete, NEW k \in Keys, NEW o \in 1 .. Len(records),
         Hash[records[o].key] = Hash[k], records[o].key # k,
         \A i \in 1 .. Len(records) : i > o => records[i].key # k
  PROVE  LET p == records[o].prev IN
         /\ p \in 0 .. Len(records) /\ p < o
         /\ p # 0 => Hash[records[p].key] = Hash[k]
         /\ \A i \in 1 .. Len(records) : i > p => records[i].key # k
PROOF
  <1>1. IsLast(records[o].prev, Hash[k], o)
    BY DEF ChainsComplete
  <1>2. Len(records) \in Nat
    BY DEF TypeOK
  <1>3. PICK p : p = records[o].prev
    OBVIOUS
  <1>4. p \in 0 .. o - 1 /\ (p # 0 => Hash[records[p].key] = Hash[k])
    BY <1>1, <1>3 DEF IsLast
  <1>5. \A i \in p + 1 .. o - 1 : Hash[records[i].key] # Hash[k]
    BY <1>1, <1>3 DEF IsLast
  <1>6. ASSUME NEW i \in 1 .. Len(records), i > p PROVE records[i].key # k
    <2>1. CASE i > o
      BY <2>1
    <2>2. CASE i = o
      BY <2>2
    <2>3. CASE i < o
      BY <1>2, <1>4, <1>5, <1>6, <2>3
    <2>4. QED
      BY <1>2, <2>1, <2>2, <2>3
  <1>7. QED
    BY <1>2, <1>3, <1>4, <1>6

\* The walk passes no record of its key.
LEMMA WalkInductive ==
  TypeOK /\ ChainsComplete /\ WalkInv /\ [Next]_vars => WalkInv'
PROOF
  <1>1. SUFFICES ASSUME TypeOK, ChainsComplete, WalkInv, [Next]_vars PROVE WalkInv'
    OBVIOUS
  <1>2. CASE UNCHANGED vars
    BY <1>1, <1>2 DEF WalkInv, Entry, vars
  <1>3. CASE Call
    BY <1>3 DEF WalkInv, Call
  <1>4. CASE IndexMiss \/ IndexFails \/ ChainFails \/ Refuse \/ Lookup \/ Remove \/ Write
    <2>1. Answered'
      BY <1>4 DEF IndexMiss, IndexFails, ChainFails, Refuse, Lookup, Remove, Write,
                  Refused, Failed, ReadFailed, Return, Answer
    <2>2. QED
      BY <2>1 DEF WalkInv
  <1>5. CASE ChainAborts
    BY <1>5 DEF WalkInv, ChainAborts
  <1>6. ASSUME ~Answered
        PROVE  req \in Calls /\ Hash[req.key] \in Hashes /\ req.key \in Keys
    BY <1>1, <1>6, CallTypes DEF TypeOK
  <1>7. CASE IndexHit
    <2>1. pc = "index" /\ UNCHANGED <<records, req>> /\ pc' = "chain"
          /\ off' = EntryOffset /\ off_' = off'
      BY <1>7 DEF IndexHit
    <2>2. req.key \in Keys /\ Hash[req.key] \in Hashes
      BY <1>6, <2>1
    <2>3. IsLast(EntryOffset, Hash[req.key], Len(records) + 1) /\ Len(records) \in Nat
      BY <1>1, <2>2 DEF ChainsComplete, EntryOffset, Entry, TypeOK
    <2>4. Entry' # Absent
      <3>1. Entry' = off'
        BY <1>1, <1>7, <2>1, <2>2 DEF Entry, IndexHit, TypeOK
      <3>2. off' \in Nat
        BY <2>1, <2>3 DEF IsLast
      <3>3. QED
        BY <3>1, <3>2, ValuesAssumption
    <2>5. off' \in 0 .. Len(records) /\ (off' # 0 => Hash[records[off'].key] = Hash[req.key])
      BY <2>1, <2>3 DEF IsLast
    <2>6. ASSUME NEW i \in 1 .. Len(records), i > off' PROVE records[i].key # req.key
      <3>1. i \in EntryOffset + 1 .. (Len(records) + 1) - 1
        <4>1. EntryOffset \in 0 .. Len(records) /\ i > EntryOffset
          BY <2>1, <2>3, <2>6 DEF IsLast
        <4> HIDE DEF EntryOffset
        <4>2. QED
          BY <2>3, <4>1
      <3>2. QED
        BY <2>3, <3>1 DEF IsLast
    <2>7. QED
      BY <2>1, <2>4, <2>5, <2>6 DEF WalkInv
  <1>8. CASE ChainRead
    <2>1. /\ pc = "chain" /\ off_ = off /\ off \in 1 .. Len(records)
          /\ Hash[records[off].key] = Hash[req.key]
          /\ \A i \in 1 .. Len(records) : i > off => records[i].key # req.key
          /\ Entry # Absent
      BY <1>1, <1>8 DEF ChainRead, WalkInv, TypeOK
    <2>2. /\ UNCHANGED <<records, req>> /\ Entry' = Entry
          /\ off_' = records[off].prev
      BY <1>8, <2>1 DEF ChainRead, database, Entry
    <2>3. req.key \in Keys /\ records[off].key \in Keys
      BY <1>1, <1>6, <2>1, RecordTypes DEF TypeOK
    <2>4. CASE ~Speculates(records[off].key) /\ NextRecord
      <3>1. records[off].key # req.key
        BY <2>4 DEF Speculates
      <3>2. LET p == records[off].prev IN
            /\ p \in 0 .. Len(records) /\ p < off
            /\ p # 0 => Hash[records[p].key] = Hash[req.key]
            /\ \A i \in 1 .. Len(records) : i > p => records[i].key # req.key
        BY <1>1, <2>1, <2>3, <3>1, StepBack
      <3>3. pc' = "chain" /\ off' = records[off].prev
        BY <2>1, <2>2, <2>4 DEF NextRecord
      <3>4. QED
        BY <2>1, <2>2, <3>2, <3>3 DEF WalkInv
    <2>5. CASE pc' = "reread" /\ off' = off
      BY <2>1, <2>2, <2>5 DEF WalkInv
    <2>6. CASE Speculates(records[off].key) /\ ~LongKey /\ off' = off
               /\ Found(records[off].val)
      <3>1. records[off].key = req.key
        <4>1. KeyLen[req.key] \in Nat
          BY <2>3, LengthType
        <4>2. KeyLen[req.key] <= PtrSize
          BY <2>6, <4>1 DEF LongKey, PtrSize
        <4>3. QED
          BY <2>3, <2>6, <4>2, HeadAssumption DEF Speculates
      <3>2. pc' = "decide" /\ val_len_' = Len(records[off].val)
        BY <2>6 DEF Found
      <3>3. QED
        BY <2>1, <2>2, <2>6, <3>1, <3>2 DEF WalkInv
    <2>7. QED
      BY <1>8, <2>1, <2>4, <2>5, <2>6 DEF ChainRead
  <1>9. CASE ChainReread
    <2>1. /\ pc = "reread" /\ off \in 1 .. Len(records)
          /\ off_ = records[off].prev
          /\ Hash[records[off].key] = Hash[req.key]
          /\ \A i \in 1 .. Len(records) : i > off => records[i].key # req.key
          /\ Entry # Absent
      BY <1>1, <1>9 DEF ChainReread, WalkInv, TypeOK
    <2>2. /\ UNCHANGED <<records, req>> /\ Entry' = Entry
          /\ off_' = records[off].prev
      BY <1>9, <2>1 DEF ChainReread, database, Entry
    <2>3. req.key \in Keys /\ records[off].key \in Keys
      BY <1>1, <1>6, <2>1, RecordTypes DEF TypeOK
    <2>4. CASE records[off].key # req.key /\ NextRecord
      <3>1. LET p == records[off].prev IN
            /\ p \in 0 .. Len(records) /\ p < off
            /\ p # 0 => Hash[records[p].key] = Hash[req.key]
            /\ \A i \in 1 .. Len(records) : i > p => records[i].key # req.key
        BY <1>1, <2>1, <2>3, <2>4, StepBack
      <3>2. pc' = "chain" /\ off' = records[off].prev
        BY <2>1, <2>2, <2>4 DEF NextRecord
      <3>3. QED
        BY <2>1, <2>2, <3>1, <3>2 DEF WalkInv
    <2>5. CASE records[off].key = req.key /\ off' = off /\ Found(records[off].val)
      BY <2>1, <2>2, <2>5 DEF WalkInv, Found
    <2>6. QED
      BY <1>9, <2>4, <2>5 DEF ChainReread
  <1>10. CASE ChainEnd
    <2>1. pc = "chain" /\ off = 0 /\ pc' = "decide"
          /\ UNCHANGED <<records, index, req, off, val_len_>>
      BY <1>1, <1>10 DEF ChainEnd, WalkInv, database, walk
    <2>2. QED
      BY <1>1, <2>1 DEF WalkInv, Entry
  <1>11. QED
    BY <1>1, <1>2, <1>3, <1>4, <1>5, <1>7, <1>8, <1>9, <1>10
       DEF Next, Index, ChainLookup, Decide

LEMMA Initially == Init => IInv
PROOF
  <1>1. SUFFICES ASSUME Init PROVE IInv
    OBVIOUS
  <1>2. TypeOK
    BY <1>1 DEF Init, TypeOK, NoCall
  <1>3. ChainsComplete
    BY <1>1, ValuesAssumption DEF Init, ChainsComplete, IsLast
  <1>4. WalkInv
    BY <1>1 DEF Init, WalkInv
  <1>5. QED
    BY <1>2, <1>3, <1>4 DEF IInv

LEMMA Inductive == IInv /\ [Next]_vars => IInv'
PROOF
  BY TypeInductive, ChainsInductive, WalkInductive DEF IInv

THEOREM InvCorrect == Spec => []IInv
PROOF
  BY Initially, Inductive, PTL DEF Spec

\* Every reachable state of the database has its type.
THEOREM TypeCorrect == Spec => []TypeOK
PROOF
  <1>1. IInv => TypeOK
    BY DEF IInv
  <1>2. QED
    BY <1>1, InvCorrect, PTL

\* No sequence of calls, whatever keys collide and whatever fails, cuts a
\* record out of the chain of its hash.
THEOREM ChainsCorrect == Spec => []ChainsComplete
PROOF
  <1>1. IInv => ChainsComplete
    BY DEF IInv
  <1>2. QED
    BY <1>1, InvCorrect, PTL

\* The walk of chain_lookup ends on the newest record of its key, if any.
THEOREM WalkCorrect == Spec => []WalkFindsNewest
PROOF
  <1>1. IInv => WalkFindsNewest
    BY DEF IInv, WalkInv, WalkFindsNewest, NewerThan
  <1>2. QED
    BY <1>1, InvCorrect, PTL

-----------------------------------------------------------------------------
\* What the asserts at the entry of a call leave for that of kvraw_lookup.
AbortInv ==
  /\ ~Answered => Accepted(req)
  /\ pc = "aborted" => ~BufferGiven /\ Len(records) > 0

\* The steps that neither make a call nor end one leave its arguments alone.
LEMMA RequestSteps ==
  ASSUME [Next]_vars
  PROVE  \/ Call
         \/ Answered'
         \/ pc' \in {"chain", "reread", "decide"} /\ req' = req /\ ~Answered
         \/ ChainAborts
         \/ UNCHANGED vars
PROOF
  <1>1. ASSUME IndexMiss \/ IndexFails \/ ChainFails \/ Decide PROVE Answered'
    BY <1>1 DEF IndexMiss, IndexFails, ChainFails, Decide, Refuse, Lookup,
                Remove, Write, Refused, Failed, ReadFailed, Return, Answer
  <1>2. ASSUME IndexHit \/ ChainRead \/ ChainReread \/ ChainEnd
        PROVE  pc' \in {"chain", "reread", "decide"} /\ req' = req /\ ~Answered
    BY <1>2 DEF IndexHit, ChainRead, ChainReread, ChainEnd, NextRecord, Found
  <1>3. QED
    BY <1>1, <1>2 DEF Next, Index, ChainLookup

LEMMA AbortInductive == IInv /\ AbortInv /\ [Next]_vars => AbortInv'
PROOF
  <1>1. SUFFICES ASSUME IInv, AbortInv, [Next]_vars PROVE AbortInv'
    OBVIOUS
  <1>2. CASE Call
    BY <1>2 DEF Call, AbortInv
  <1>3. CASE Answered'
    BY <1>3 DEF AbortInv
  <1>4. CASE pc' \in {"chain", "reread", "decide"} /\ req' = req /\ ~Answered
    <2>1. Accepted(req') <=> Accepted(req)
      BY <1>4
    <2>2. QED
      BY <1>1, <1>4, <2>1 DEF AbortInv
  <1>5. CASE ChainAborts
    <2>1. /\ pc = "chain" /\ off_ # 0 /\ ~BufferGiven
          /\ req' = req /\ records' = records
      BY <1>5 DEF ChainAborts, database
    <2>2. off_ \in 0 .. Len(records) /\ Len(records) \in Nat
      BY <1>1, <2>1 DEF IInv, WalkInv, TypeOK
    <2>3. Len(records) > 0
      BY <2>1, <2>2
    <2>4. BufferGiven' <=> BufferGiven
      BY <2>1 DEF BufferGiven
    <2>5. QED
      BY <1>1, <2>1, <2>3, <2>4 DEF AbortInv
  <1>6. CASE UNCHANGED vars
    <2>1. pc' = pc /\ req' = req /\ records' = records
      BY <1>6 DEF vars
    <2>2. BufferGiven' <=> BufferGiven
      BY <2>1 DEF BufferGiven
    <2>3. QED
      BY <1>1, <2>1, <2>2 DEF AbortInv
  <1>7. QED
    BY <1>1, <1>2, <1>3, <1>4, <1>5, <1>6, RequestSteps

\* The only call that gets past the asserts of kvdb.c and into the failing one
\* of kvraw.c is kvdb_remove with NULL and a length.
THEOREM AbortsCorrect == Spec => []AbortsOnlyNullRemove
PROOF
  <1>1. Init => AbortInv
    BY DEF Init, AbortInv
  <1>2. TypeOK /\ AbortInv => AbortsOnlyNullRemove
    <2>1. SUFFICES ASSUME TypeOK, AbortInv, pc = "aborted"
                   PROVE  req.op = "remove" /\ req.buffer.null /\ Len(records) > 0
      BY DEF AbortsOnlyNullRemove
    <2>2. Accepted(req) /\ ~BufferGiven /\ Len(records) > 0
      BY <2>1 DEF AbortInv
    <2>3. Capacity(req) # 0 /\ req.buffer.null
      BY <2>2 DEF BufferGiven
    <2>4. req.op \notin Writes /\ req.buffer.cap # NoLen /\ req.buffer.cap # 0
      BY <2>3 DEF Capacity
    <2>5. QED
      BY <2>2, <2>3, <2>4 DEF Accepted
  <1>3. QED
    BY <1>1, <1>2, InvCorrect, TypeCorrect, AbortInductive, PTL DEF Spec

-----------------------------------------------------------------------------
(***************************************************************************)
(* What the chains mean: the value of every key, the two counters, and     *)
(* that every call does to the map of KvMap what it promises, for every    *)
(* set of keys, hash function, value and buffer.                           *)
(***************************************************************************)

\* A key that has a record has a newest one.
NewestInv ==
  \A i \in 1 .. Len(records) : \E j : IsNewest(j, records, records[i].key)

\* The value of a key that has a newest record, and of one that has none.
LEMMA ValueIs ==
  ASSUME NEW R, NEW log \in Seq(R), NEW i, NEW k, IsNewest(i, log, k)
  PROVE  ValueIn(log, k) = log[i].val
PROOF
  <1>1. Len(log) \in Nat /\ i \in 1 .. Len(log)
    BY DEF IsNewest
  <1>2. ASSUME NEW j \in 1 .. Len(log), IsNewest(j, log, k) PROVE j = i
    <2>1. ~(i < j)
      BY <1>1, <1>2 DEF IsNewest
    <2>2. ~(j < i)
      BY <1>1, <1>2 DEF IsNewest
    <2>3. QED
      BY <1>1, <2>1, <2>2
  <1>3. (CHOOSE j \in 1 .. Len(log) : IsNewest(j, log, k)) = i
    BY <1>1, <1>2
  <1>4. QED
    BY <1>1, <1>3 DEF ValueIn

LEMMA ValueNone ==
  ASSUME NEW log, NEW k, \A i \in 1 .. Len(log) : log[i].key # k
  PROVE  ValueIn(log, k) = Tombstone
PROOF
  BY DEF ValueIn, IsNewest

\* Appending a record gives its key its value and no other key another one.
LEMMA ValueAppended ==
  ASSUME TypeOK, TypeOK', NewestInv, NEW v \in Seq(Bytes), req \in Calls,
         Entry \in Nat, Appended(v)
  PROVE  /\ \A k \in Keys : Store(k)' = IF k = req.key THEN v ELSE Store(k)
         /\ NewestInv'
PROOF
  <1>1. PICK n : n = Len(records) + 1
    OBVIOUS
  <1>2. /\ n \in Nat \ {0} /\ Len(records) = n - 1 /\ Len(records') = n
        /\ \A i \in 1 .. n - 1 : records'[i] = records[i]
        /\ records'[n].key = req.key /\ records'[n].val = v
    <2>1. Len(records) \in Nat
      BY DEF TypeOK
    <2>2. QED
      BY <1>1, <2>1, AppendFacts
  <1>3. IsNewest(n, records', req.key)
    BY <1>2 DEF IsNewest
  <1>4. ASSUME NEW k, NEW i, k # req.key, IsNewest(i, records, k)
        PROVE  IsNewest(i, records', k) /\ records'[i] = records[i]
    BY <1>2, <1>4 DEF IsNewest
  <1>5. /\ records \in Seq([key : Keys, val : Seq(Bytes), prev : Nat])
        /\ records' \in Seq([key : Keys, val : Seq(Bytes), prev : Nat])
    BY DEF TypeOK
  <1>6. ASSUME NEW k \in Keys
        PROVE  ValueIn(records', k) = IF k = req.key THEN v ELSE ValueIn(records, k)
    <2>1. CASE k = req.key
      <3>1. ValueIn(records', k) = records'[n].val
        BY <1>3, <1>5, <2>1, ValueIs
      <3>2. QED
        BY <1>2, <2>1, <3>1
    <2>2. CASE k # req.key /\ \E i : IsNewest(i, records, k)
      <3>1. PICK i : IsNewest(i, records, k)
        BY <2>2
      <3>2. IsNewest(i, records', k) /\ records'[i] = records[i]
        BY <1>4, <2>2, <3>1
      <3>3. ValueIn(records', k) = records'[i].val
        BY <1>5, <3>2, ValueIs
      <3>4. ValueIn(records, k) = records[i].val
        BY <1>5, <3>1, ValueIs
      <3>5. QED
        BY <2>2, <3>2, <3>3, <3>4
    <2>3. CASE k # req.key /\ ~ \E i : IsNewest(i, records, k)
      <3>1. \A i \in 1 .. Len(records) : records[i].key # k
        BY <2>3 DEF NewestInv
      <3>2. \A i \in 1 .. Len(records') : records'[i].key # k
        BY <1>2, <2>3, <3>1
      <3>3. QED
        BY <2>3, <3>1, <3>2, ValueNone
    <2>4. QED
      BY <2>1, <2>2, <2>3
  <1>7. ASSUME NEW i \in 1 .. Len(records')
        PROVE  \E j : IsNewest(j, records', records'[i].key)
    <2>1. CASE records'[i].key = req.key
      BY <1>3, <2>1
    <2>2. CASE records'[i].key # req.key
      <3>1. i \in 1 .. Len(records) /\ records'[i] = records[i]
        BY <1>2, <2>2
      <3>2. PICK j : IsNewest(j, records, records[i].key)
        BY <3>1 DEF NewestInv
      <3>3. QED
        BY <1>4, <2>2, <3>1, <3>2
    <2>3. QED
      BY <2>1, <2>2
  <1>8. QED
    BY <1>6, <1>7 DEF Store, NewestInv

\* A call decides by whether its key has a value.
LEMMA LiveMeans ==
  ASSUME IInv, NewestInv, pc = "decide"
  PROVE  /\ Live <=> Store(req.key) # Tombstone
         /\ off # 0 => /\ off \in 1 .. Len(records)
                       /\ Store(req.key) = records[off].val
                       /\ val_len_ = Len(records[off].val)
PROOF
  <1>1. records \in Seq([key : Keys, val : Seq(Bytes), prev : Nat]) /\ Len(records) \in Nat
    BY DEF IInv, TypeOK
  <1>2. CASE off = 0
    <2>1. \A i \in 1 .. Len(records) : records[i].key # req.key
      BY <1>2 DEF IInv, WalkInv
    <2>2. QED
      BY <1>2, <2>1, ValueNone DEF Store, Live
  <1>3. CASE off # 0
    <2>1. off \in 1 .. Len(records) /\ val_len_ = Len(records[off].val)
      BY <1>1, <1>3 DEF IInv, WalkInv
    <2>2. IsNewest(off, records, req.key)
      BY <1>1, <1>3, <2>1 DEF IInv, WalkInv, IsNewest
    <2>3. Store(req.key) = records[off].val
      BY <1>1, <2>2, ValueIs DEF Store
    <2>4. records[off].val \in Seq(Bytes)
      BY <1>1, <2>1, RecordTypes
    <2>5. Len(records[off].val) # 0 <=> records[off].val # Tombstone
      BY <2>4 DEF Tombstone
    <2>6. QED
      BY <1>3, <2>1, <2>3, <2>5 DEF Live
  <1>4. QED
    BY <1>2, <1>3

\* The steps that append leave the size right, and they are the only ones that
\* change a value or a counter.
FullInv == IInv /\ NewestInv
CountInv == IsFiniteSet(LiveKeys) /\ IsFiniteSet(Stored) /\ CountersExact

LEMMA SameStore ==
  ASSUME records' = records
  PROVE  /\ \A k : Store(k)' = Store(k)
         /\ LiveKeys' = LiveKeys /\ Stored' = Stored
         /\ NewestInv => NewestInv'
PROOF
  BY DEF Store, LiveKeys, Stored, NewestInv

LEMMA QuietSteps ==
  ASSUME [Next]_vars, ~Remove, ~Write
  PROVE  UNCHANGED <<records, size, waste>>
PROOF
  BY DEF Next, Index, ChainLookup, Decide, Call, IndexHit, IndexMiss, IndexFails,
         ChainRead, ChainReread, ChainEnd, ChainFails, ChainAborts, Lookup, Refuse,
         Refused, Failed, ReadFailed, database, vars

LEMMA FullInductive == FullInv /\ [Next]_vars => FullInv'
PROOF
  <1>1. SUFFICES ASSUME FullInv, [Next]_vars PROVE FullInv'
    OBVIOUS
  <1>2. IInv'
    BY <1>1, Inductive DEF FullInv
  <1>3. CASE Remove \/ Write
    <2>1. TypeOK /\ WalkInv /\ TypeOK' /\ NewestInv
      BY <1>1, <1>2 DEF FullInv, IInv
    <2>2. PICK v \in Seq(Bytes) : Appended(v)
      BY <1>3, <2>1, AppendSteps
    <2>3. NewestInv'
      BY <1>3, <2>1, <2>2, AppendSteps, ValueAppended
    <2>4. QED
      BY <1>2, <2>3 DEF FullInv
  <1>4. CASE ~Remove /\ ~Write
    BY <1>1, <1>2, <1>4, QuietSteps, SameStore DEF FullInv
  <1>5. QED
    BY <1>3, <1>4

LEMMA CountInductive == FullInv /\ CountInv /\ [Next]_vars => CountInv'
PROOF
  <1>1. SUFFICES ASSUME FullInv, CountInv, [Next]_vars PROVE CountInv'
    OBVIOUS
  <1>2. CASE ~Remove /\ ~Write
    BY <1>1, <1>2, QuietSteps, SameStore DEF CountInv, CountersExact
  <1>3. CASE Remove \/ Write
    <2>1. TypeOK /\ WalkInv /\ NewestInv /\ IInv /\ TypeOK'
      BY <1>1, FullInductive DEF FullInv, IInv
    <2>2. pc = "decide" /\ req.key \in Keys /\ req \in Calls
      BY <1>3, <2>1, AppendSteps DEF Remove, Write
    <2>3. PICK n, k : n = Len(records) + 1 /\ k = req.key
      OBVIOUS
    <2>4. ASSUME NEW v \in Seq(Bytes), Appended(v)
          PROVE  /\ LiveKeys' = IF v = Tombstone THEN LiveKeys \ {k} ELSE LiveKeys \cup {k}
                 /\ Stored' = IF v = Tombstone THEN Stored ELSE Stored \cup {n}
                 /\ n \notin Stored
      <3>1. \A l \in Keys : Store(l)' = IF l = k THEN v ELSE Store(l)
        BY <1>3, <2>1, <2>3, <2>4, AppendSteps, ValueAppended
      <3>2. LiveKeys' = {l \in Keys : Store(l)' # Tombstone}
        BY DEF LiveKeys
      <3>3. LiveKeys' = IF v = Tombstone THEN LiveKeys \ {k} ELSE LiveKeys \cup {k}
        BY <2>2, <2>3, <3>1, <3>2 DEF LiveKeys
      <3>4. /\ Len(records) \in Nat /\ Len(records') = n
            /\ \A i \in 1 .. Len(records) : records'[i] = records[i]
            /\ records'[n].val = v
        <4>1. Entry \in Nat /\ Len(records) \in Nat
          BY <1>3, <2>1, AppendSteps DEF TypeOK
        <4>2. QED
          BY <2>1, <2>2, <2>3, <2>4, <4>1, AppendFacts
      <3>5. 1 .. n = (1 .. Len(records)) \cup {n} /\ n \notin 1 .. Len(records)
        BY <2>3, <3>4
      <3>6. Stored' = {i \in 1 .. n : records'[i].val # Tombstone}
        BY <3>4 DEF Stored
      <3>7. Stored' = IF v = Tombstone THEN Stored ELSE Stored \cup {n}
        BY <3>4, <3>5, <3>6 DEF Stored
      <3>8. QED
        BY <3>3, <3>5, <3>7 DEF Stored
    <2>5. Live <=> k \in LiveKeys
      BY <2>1, <2>2, <2>3, LiveMeans DEF LiveKeys
    <2>6. /\ IsFiniteSet(LiveKeys) /\ IsFiniteSet(Stored)
          /\ size = Cardinality(LiveKeys) /\ size + waste = Cardinality(Stored)
          /\ size \in Int /\ waste \in Nat
      BY <1>1, <2>1 DEF CountInv, CountersExact, TypeOK
    <2>7. CASE Remove
      <3>1. Appended(Tombstone) /\ Live /\ req.op = "remove" /\ Count
        BY <2>7 DEF Remove
      <3>2. LiveKeys' = LiveKeys \ {k} /\ Stored' = Stored /\ k \in LiveKeys
        BY <2>4, <2>5, <3>1, EmptyType DEF Tombstone
      <3>3. size' = size - 1 /\ waste' = waste + 1
        BY <2>6, <3>1 DEF Count
      <3>4. IsFiniteSet(LiveKeys') /\ Cardinality(LiveKeys') = Cardinality(LiveKeys) - 1
        BY <2>6, <3>2, FS_RemoveElement
      <3>5. QED
        BY <2>6, <3>2, <3>3, <3>4 DEF CountInv, CountersExact
    <2>8. CASE Write
      <3>1. Appended(req.val) /\ req.val \in Seq(Bytes) /\ req.val # Tombstone
            /\ req.op # "remove" /\ Count
        BY <2>2, <2>8, CallTypes DEF Write, Writes, Tombstone
      <3>2. /\ LiveKeys' = LiveKeys \cup {k}
            /\ Stored' = Stored \cup {n} /\ n \notin Stored
        BY <2>4, <3>1
      <3>3. IsFiniteSet(Stored') /\ Cardinality(Stored') = Cardinality(Stored) + 1
        BY <2>6, <3>2, FS_AddElement
      <3>4. CASE Live
        <4>1. LiveKeys' = LiveKeys /\ size' = size /\ waste' = waste + 1
          BY <2>5, <2>6, <3>1, <3>2, <3>4 DEF Count
        <4>2. size' = Cardinality(LiveKeys') /\ IsFiniteSet(LiveKeys')
          BY <2>6, <4>1
        <4>3. size' + waste' = (size + waste) + 1
          BY <2>6, <4>1
        <4>4. size' + waste' = Cardinality(Stored')
          BY <2>6, <3>3, <4>3
        <4>5. QED
          BY <3>3, <4>2, <4>4 DEF CountInv, CountersExact
      <3>5. CASE ~Live
        <4>1. size' = size + 1 /\ waste' = waste
          BY <2>6, <3>1, <3>5 DEF Count
        <4>2. IsFiniteSet(LiveKeys') /\ Cardinality(LiveKeys') = Cardinality(LiveKeys) + 1
          BY <2>5, <2>6, <3>2, <3>5, FS_AddElement
        <4>3. QED
          BY <2>6, <3>2, <3>3, <4>1, <4>2 DEF CountInv, CountersExact
      <3>6. QED
        BY <3>4, <3>5
    <2>9. QED
      BY <1>3, <2>7, <2>8
  <1>4. QED
    BY <1>2, <1>3

LEMMA FullInitially == Init => FullInv /\ CountInv
PROOF
  <1>1. SUFFICES ASSUME Init PROVE FullInv /\ CountInv
    OBVIOUS
  <1>2. records = <<>> /\ Len(records) = 0 /\ size = 0 /\ waste = 0 /\ 1 .. 0 = {}
    BY <1>1 DEF Init
  <1>3. IInv /\ NewestInv
    BY <1>1, <1>2, Initially DEF NewestInv
  <1>4. LiveKeys = {} /\ Stored = {}
    BY <1>2, ValueNone DEF LiveKeys, Stored, Store
  <1>5. QED
    BY <1>2, <1>3, <1>4, FS_EmptySet DEF FullInv, CountInv, CountersExact

THEOREM FullCorrect == Spec => [](FullInv /\ CountInv)
PROOF
  BY FullInitially, FullInductive, CountInductive, PTL DEF Spec

\* kvdb_size and kvdb_waste are exact after any sequence of calls, refused and
\* failed ones included.
THEOREM CountersCorrect == Spec => []CountersExact
PROOF
  <1>1. CountInv => CountersExact
    BY DEF CountInv
  <1>2. QED
    BY <1>1, FullCorrect, PTL

(***************************************************************************)
(* The caller's buffer: it has the size the call names, and when the walk  *)
(* stands on a record of the key, it holds as much of its value as fits.   *)
(***************************************************************************)
Filling(b, value) == \A i \in 1 .. Len(b) : i <= Len(value) => b[i] = value[i]

BufferInv ==
  ~Answered /\ req.op \notin Writes =>
    /\ req.buffer.cap # NoLen =>
         Len(buf) = IF req.buffer.null THEN 0 ELSE req.buffer.cap
    /\ pc = "reread" => BufferGiven /\ Filling(buf, records[off].val)
    /\ pc = "decide" /\ off # 0 => BufferGiven /\ Filling(buf, records[off].val)

LEMMA FillFills ==
  ASSUME buf \in Seq(Bytes), NEW value \in Seq(Bytes), Fill(value)
  PROVE  Len(buf') = Len(buf) /\ Filling(buf', value)
PROOF
  <1>1. PICK n, b : n = Len(buf) /\ b = buf'
    OBVIOUS
  <1>2. n \in Nat /\ b = [i \in 1 .. n |-> IF i <= Len(value) THEN value[i] ELSE buf[i]]
    BY <1>1 DEF Fill
  <1>3. Len(b) = n
    BY <1>2
  <1>4. Filling(b, value)
    BY <1>2, <1>3 DEF Filling
  <1>5. QED
    BY <1>1, <1>3, <1>4

LEMMA BufferOfSize ==
  ASSUME NEW c \in Calls, c.op \notin Writes, c.buffer.cap # NoLen
  PROVE  Len(BufferOf(c)) = IF c.buffer.null THEN 0 ELSE c.buffer.cap
PROOF
  <1>1. c.buffer.cap \in Nat
    BY CallTypes
  <1>2. PICK n : n = c.buffer.cap
    OBVIOUS
  <1>3. Len([i \in 1 .. n |-> Junk]) = n
    BY <1>1, <1>2
  <1>4. QED
    BY <1>2, <1>3 DEF BufferOf

LEMMA BufferInductive == FullInv /\ BufferInv /\ [Next]_vars => BufferInv'
PROOF
  <1>1. SUFFICES ASSUME FullInv, BufferInv, [Next]_vars PROVE BufferInv'
    OBVIOUS
  <1>2. CASE UNCHANGED vars
    BY <1>1, <1>2 DEF BufferInv, BufferGiven, Capacity, vars
  <1>3. CASE Call
    <2>1. PICK c \in Calls : req' = c /\ buf' = BufferOf(c)
      BY <1>3 DEF Call
    <2>2. pc' = "index"
      BY <1>3 DEF Call
    <2>3. QED
      BY <2>1, <2>2, BufferOfSize DEF BufferInv
  <1>4. CASE IndexMiss \/ IndexFails \/ ChainFails \/ Refuse \/ Lookup \/ Remove \/ Write
    <2>1. Answered'
      BY <1>4 DEF IndexMiss, IndexFails, ChainFails, Refuse, Lookup, Remove, Write,
                  Refused, Failed, ReadFailed, Return, Answer
    <2>2. QED
      BY <2>1 DEF BufferInv
  <1>5. CASE IndexHit \/ ChainAborts
    <2>1. ~Answered /\ pc' \in {"chain", "aborted"} /\ UNCHANGED <<req, buf>>
      BY <1>5 DEF IndexHit, ChainAborts, walk
    <2>2. QED
      BY <1>1, <2>1 DEF BufferInv
  <1>6. CASE ChainRead
    <2>1. pc = "chain" /\ off_ = off /\ off \in 1 .. Len(records) /\ buf \in Seq(Bytes)
      BY <1>1, <1>6 DEF ChainRead, FullInv, IInv, WalkInv, TypeOK
    <2>2. records[off].val \in Seq(Bytes)
      BY <1>1, <2>1, RecordTypes DEF FullInv, IInv, TypeOK
    <2>3. Fill(records[off].val) /\ BufferGiven /\ UNCHANGED <<records, req>>
      BY <1>6, <2>1 DEF ChainRead, database
    <2>4. Len(buf') = Len(buf) /\ Filling(buf', records[off].val)
      BY <2>1, <2>2, <2>3, FillFills
    <2>5. pc' = "chain" \/ (pc' \in {"reread", "decide"} /\ off' = off)
      BY <1>6 DEF ChainRead, NextRecord, Found
    <2>6. BufferGiven'
      BY <2>3 DEF BufferGiven, Capacity
    <2>7. QED
      BY <1>1, <2>1, <2>3, <2>4, <2>5, <2>6 DEF BufferInv
  <1>7. CASE ChainReread
    <2>1. pc = "reread" /\ UNCHANGED <<records, req, buf>>
      BY <1>7 DEF ChainReread, database
    <2>2. pc' = "chain" \/ (pc' = "decide" /\ off' = off)
      BY <1>7 DEF ChainReread, NextRecord, Found
    <2>3. QED
      BY <1>1, <2>1, <2>2 DEF BufferInv, BufferGiven, Capacity
  <1>8. CASE ChainEnd
    <2>1. pc = "chain" /\ pc' = "decide" /\ off' = 0 /\ UNCHANGED <<req, buf>>
      BY <1>1, <1>8 DEF ChainEnd, FullInv, IInv, WalkInv, walk
    <2>2. QED
      BY <1>1, <2>1 DEF BufferInv
  <1>9. QED
    BY <1>1, <1>2, <1>3, <1>4, <1>5, <1>6, <1>7, <1>8
       DEF Next, Index, ChainLookup, Decide

\* What a successful lookup or remove reports is the value of its key.
LEMMA ReportsValue ==
  ASSUME FullInv, BufferInv, pc = "decide", req \in Calls, req.op \notin Writes, Live
  PROVE  Reported = Map!Filled(Store(req.key), req.buffer.cap)
PROOF
  <1>1. CASE req.buffer.cap = NoLen
    BY <1>1 DEF Reported, Map!Filled, Map!Missing
  <1>2. CASE req.buffer.cap # NoLen
    <2>1. PICK n, v : n = Len(buf) /\ v = records[off].val
      OBVIOUS
    <2>2. /\ off \in 1 .. Len(records) /\ Store(req.key) = v /\ val_len_ = Len(v)
      BY <2>1, LiveMeans DEF FullInv, Live
    <2>3. v \in Seq(Bytes) /\ buf \in Seq(Bytes) /\ n \in Nat
      <3>1. TypeOK
        BY DEF FullInv, IInv
      <3>2. /\ records \in Seq([key : Keys, val : Seq(Bytes), prev : Nat])
            /\ buf \in Seq(Bytes)
        BY <3>1 DEF TypeOK
      <3>3. v \in Seq(Bytes)
        BY <2>1, <2>2, <3>2, RecordTypes
      <3>4. QED
        BY <2>1, <3>2, <3>3
    <2>4. BufferGiven /\ Filling(buf, v)
      BY <2>1 DEF BufferInv, Live
    <2>5. n = req.buffer.cap
      <3>1. req.buffer.cap \in Nat /\ req.buffer.null \in BOOLEAN
        BY <1>2, CallTypes
      <3>2. req.buffer.null => req.buffer.cap = 0
        BY <1>2, <2>4 DEF BufferGiven, Capacity
      <3>3. n = IF req.buffer.null THEN 0 ELSE req.buffer.cap
        BY <1>2, <2>1 DEF BufferInv
      <3>4. QED
        BY <3>1, <3>2, <3>3
    <2> DEFINE m == IF Len(v) < n THEN Len(v) ELSE n
    <2>6. [i \in 1 .. m |-> buf[i]] = [i \in 1 .. m |-> v[i]]
      <3>1. \A i \in 1 .. m : buf[i] = v[i]
        <4>1. Len(v) \in Nat /\ m \in Nat /\ m <= n /\ m <= Len(v)
          BY <2>3
        <4> HIDE DEF m
        <4>2. \A i \in 1 .. m : i \in 1 .. n /\ i <= Len(v)
          BY <2>3, <4>1
        <4>3. QED
          BY <2>1, <2>4, <4>2 DEF Filling
      <3> HIDE DEF m
      <3>2. QED
        BY <3>1
    <2>7. Reported = [ret |-> "ok", len |-> Len(v), val |-> [i \in 1 .. m |-> buf[i]]]
      BY <1>2, <2>1, <2>2 DEF Reported
    <2>8. (IF n < Len(v) THEN n ELSE Len(v)) = m
      BY <2>3
    <2>9. Map!Filled(v, n)
            = [ret |-> "ok", len |-> Len(v), val |-> [i \in 1 .. m |-> v[i]]]
      <3> HIDE DEF m
      <3>1. QED
        BY <1>2, <2>5, <2>8 DEF Map!Filled, Map!Prefix
    <2>10. QED
      BY <2>2, <2>5, <2>6, <2>7, <2>9
  <1>3. QED
    BY <1>1, <1>2

\* The refinement mapping, and the abstract value of the key of a call.
StoreMap == [k \in Keys |-> Store(k)]

\* A call in progress is a request of the map.
LEMMA RequestFacts ==
  ASSUME TypeOK, ~Answered
  PROVE  /\ req \in Calls /\ req.key \in Keys
         /\ Request # Map!NoRequest
         /\ Request.op = req.op /\ Request.key = req.key
         /\ req.op \in Writes => Request.val = req.val
         /\ req.op \notin Writes => Request.cap = req.buffer.cap
PROOF
  <1>1. req \in Calls /\ req.key \in Keys /\ req.op \in Writes \cup {"lookup", "remove"}
    BY CallTypes DEF TypeOK
  <1>2. Request.op = req.op /\ Request.key = req.key
    BY <1>1 DEF Request
  <1>3. Request # Map!NoRequest
    <2>1. Map!NoRequest.op = "none" /\ req.op # "none"
      BY <1>1 DEF Map!NoRequest, Writes
    <2>2. QED
      BY <1>2, <2>1
  <1>4. req.op \in Writes => Request.val = req.val
    BY DEF Request
  <1>5. req.op \notin Writes => Request.cap = req.buffer.cap
    BY DEF Request
  <1>6. QED
    BY <1>1, <1>2, <1>3, <1>4, <1>5

\* Returning ends the request.
LEMMA ReturnFacts ==
  ASSUME NEW ret, Answer(ret), Answered'
  PROVE  Request' = Map!NoRequest /\ reply' = ret
PROOF
  BY DEF Return, Answer, Request, NoCall, Map!NoRequest

LEMMA CallRefines ==
  ASSUME TypeOK, Call
  PROVE  Map!Request
PROOF
  <1>1. PICK c \in Calls : req' = c
    BY DEF Call
  <1>2. /\ pc = "idle" /\ pc' = "index" /\ reply' = NoReply /\ records' = records
    BY DEF Call, database
  <1>3. Request = Map!NoRequest
    BY <1>2 DEF Request, NoCall, Map!NoRequest
  <1>4. StoreMap' = StoreMap
    BY <1>2 DEF StoreMap, Store
  <1>5. Request' = IF c.op \in Writes THEN c
                   ELSE [op |-> c.op, key |-> c.key, cap |-> c.buffer.cap]
    BY <1>1, <1>2 DEF Request
  <1> DEFINE caps == ({b.cap : b \in Buffers} \ {NoLen}) \cup {NoLen}
  <1>6. Request' \in [op : {"insert", "update", "replace"}, key : Keys, val : Vals]
                      \cup [op : {"lookup", "remove"}, key : Keys, cap : caps]
    <2>1. CASE c \in [op : Writes, key : Keys, val : Vals]
      BY <1>5, <2>1 DEF Writes
    <2>2. CASE c \in [op : {"lookup", "remove"}, key : Keys, buffer : Buffers]
      <3>1. c.op \notin Writes
        BY <2>2 DEF Writes
      <3>2. c.buffer.cap \in caps
        BY <2>2
      <3> HIDE DEF caps
      <3>3. QED
        BY <1>5, <2>2, <3>1, <3>2
    <2>3. QED
      BY <2>1, <2>2 DEF Calls
  <1>7. QED
    BY <1>2, <1>3, <1>4, <1>6 DEF Map!Request, Map!NoReply, NoReply, StoreMap

LEMMA RefuseRefines ==
  ASSUME FullInv, Refuse
  PROVE  Map!Answer
PROOF
  <1>1. pc = "decide" /\ TypeOK /\ records' = records
    BY DEF Refuse, Refused, database, FullInv, IInv
  <1>2. StoreMap' = StoreMap
    BY <1>1 DEF StoreMap, Store
  <1>3. Request' = Map!NoRequest /\ reply' = [ret |-> "refused"]
    BY ReturnFacts DEF Return, Refuse, Refused
  <1>4. /\ Request # Map!NoRequest /\ Request.op = req.op
        /\ StoreMap[Request.key] = Store(req.key)
    BY <1>1, RequestFacts DEF StoreMap
  <1>5. Live <=> Store(req.key) # Tombstone
    BY <1>1, LiveMeans DEF FullInv
  <1>6. \/ Request.op = "insert" /\ StoreMap[Request.key] # Tombstone
        \/ /\ Request.op \in {"lookup", "remove", "replace"}
           /\ StoreMap[Request.key] = Tombstone
    BY <1>4, <1>5 DEF Refuse
  <1>7. Map!Refused
    BY <1>2, <1>3 DEF Map!Refused, StoreMap
  <1>8. QED
    BY <1>3, <1>4, <1>6, <1>7
       DEF Map!Answer, Map!Insert, Map!Lookup, Map!Remove, Map!Replace, Map!Value,
           Map!Missing, Tombstone, StoreMap

LEMMA FailRefines ==
  ASSUME FullInv, IndexFails \/ ChainFails
  PROVE  Map!Answer
PROOF
  <1>1. ~Answered /\ TypeOK /\ records' = records /\ Faults # {}
    BY DEF IndexFails, ChainFails, Failed, ReadFailed, database, FullInv, IInv
  <1>2. StoreMap' = StoreMap
    BY <1>1 DEF StoreMap, Store
  <1>3. Request' = Map!NoRequest /\ reply' = [ret |-> "failed"]
    BY ReturnFacts DEF Return, IndexFails, ChainFails, Failed, ReadFailed
  <1>4. Request # Map!NoRequest
    BY <1>1, RequestFacts
  <1>5. QED
    BY <1>1, <1>2, <1>3, <1>4 DEF Map!Answer, Map!Fail, StoreMap

\* A refused lookup that ended at the index: no record has its hash.
LEMMA IndexMissRefines ==
  ASSUME FullInv, IndexMiss
  PROVE  Map!Answer
PROOF
  <1>1. pc = "index" /\ TypeOK /\ records' = records /\ req.op = "lookup"
        /\ Entry \in {Absent, 0} /\ ChainsComplete
    BY DEF IndexMiss, Refused, database, FullInv, IInv
  <1>2. StoreMap' = StoreMap
    BY <1>1 DEF StoreMap, Store
  <1>3. Request' = Map!NoRequest /\ reply' = [ret |-> "refused"]
    BY ReturnFacts DEF Return, IndexMiss, Refused
  <1>4. /\ Request # Map!NoRequest /\ Request.op = "lookup" /\ req.key \in Keys
        /\ StoreMap[Request.key] = Store(req.key)
    BY <1>1, RequestFacts DEF StoreMap
  <1>5. Hash[req.key] \in Hashes
    BY <1>4, HashType
  <1>6. IsLast(0, Hash[req.key], Len(records) + 1)
    BY <1>1, <1>5 DEF ChainsComplete, Entry
  <1>7. \A i \in 1 .. Len(records) : records[i].key # req.key
    <2>1. Len(records) \in Nat
      BY <1>1 DEF TypeOK
    <2>2. QED
      BY <1>6, <2>1 DEF IsLast
  <1>8. Store(req.key) = Tombstone
    BY <1>7, ValueNone DEF Store
  <1>9. Map!Refused
    BY <1>2, <1>3 DEF Map!Refused, StoreMap
  <1>10. QED
    BY <1>3, <1>4, <1>8, <1>9
       DEF Map!Answer, Map!Lookup, Map!Value, Map!Missing, Tombstone, StoreMap

LEMMA LookupRefines ==
  ASSUME FullInv, BufferInv, Lookup
  PROVE  Map!Answer
PROOF
  <1>1. pc = "decide" /\ TypeOK /\ records' = records /\ req.op = "lookup" /\ Live
    BY DEF Lookup, database, FullInv, IInv
  <1>2. StoreMap' = StoreMap
    BY <1>1 DEF StoreMap, Store
  <1>3. Request' = Map!NoRequest /\ reply' = Reported
    BY ReturnFacts DEF Return, Lookup
  <1>4. /\ req \in Calls /\ req.op \notin Writes
        /\ Request # Map!NoRequest /\ Request.op = "lookup"
        /\ Request.cap = req.buffer.cap
        /\ StoreMap[Request.key] = Store(req.key)
    BY <1>1, RequestFacts DEF StoreMap, Writes
  <1>5. Store(req.key) # Tombstone
    BY <1>1, LiveMeans DEF FullInv
  <1>6. reply' = Map!Filled(StoreMap[Request.key], Request.cap)
    BY <1>1, <1>3, <1>4, ReportsValue
  <1>7. Map!Lookup
    BY <1>2, <1>4, <1>5, <1>6 DEF Map!Lookup, Map!Value, Map!Missing, Tombstone, StoreMap
  <1>8. QED
    BY <1>3, <1>4, <1>7 DEF Map!Answer

\* What an append does to the abstract store.
LEMMA PutRefines ==
  ASSUME FullInv, [Next]_vars, Remove \/ Write, NEW v \in Seq(Bytes), Appended(v)
  PROVE  /\ StoreMap' = [StoreMap EXCEPT ![req.key] = v]
         /\ req.key \in Keys
PROOF
  <1>1. TypeOK /\ WalkInv /\ NewestInv /\ TypeOK'
    BY FullInductive DEF FullInv, IInv
  <1>2. req \in Calls /\ req.key \in Keys /\ Entry \in Nat
    BY <1>1, AppendSteps
  <1>3. \A k \in Keys : Store(k)' = IF k = req.key THEN v ELSE Store(k)
    BY <1>1, <1>2, ValueAppended
  <1>4. StoreMap' = [k \in Keys |-> Store(k)']
    BY DEF StoreMap
  <1>5. StoreMap = [k \in Keys |-> Store(k)]
    BY DEF StoreMap
  <1>6. QED
    BY <1>2, <1>3, <1>4, <1>5

LEMMA RemoveRefines ==
  ASSUME FullInv, BufferInv, [Next]_vars, Remove
  PROVE  Map!Answer
PROOF
  <1>1. pc = "decide" /\ TypeOK /\ req.op = "remove" /\ Live /\ Appended(Tombstone)
    BY DEF Remove, FullInv, IInv
  <1>2. StoreMap' = [StoreMap EXCEPT ![req.key] = Tombstone]
    BY <1>1, PutRefines, EmptyType DEF Tombstone
  <1>3. Request' = Map!NoRequest /\ reply' = Reported
    BY ReturnFacts DEF Return, Remove
  <1>4. /\ req \in Calls /\ req.op \notin Writes
        /\ Request # Map!NoRequest /\ Request.op = "remove"
        /\ Request.cap = req.buffer.cap /\ Request.key = req.key
        /\ StoreMap[Request.key] = Store(req.key)
    BY <1>1, RequestFacts DEF StoreMap, Writes
  <1>5. Store(req.key) # Tombstone
    BY <1>1, LiveMeans DEF FullInv
  <1>6. reply' = Map!Filled(StoreMap[Request.key], Request.cap)
    BY <1>1, <1>3, <1>4, ReportsValue
  <1>7. Map!Remove
    BY <1>2, <1>4, <1>5, <1>6
       DEF Map!Remove, Map!Put, Map!Value, Map!Missing, Tombstone, StoreMap
  <1>8. QED
    BY <1>3, <1>4, <1>7 DEF Map!Answer

LEMMA WriteRefines ==
  ASSUME FullInv, [Next]_vars, Write
  PROVE  Map!Answer
PROOF
  <1>1. /\ pc = "decide" /\ TypeOK /\ Appended(req.val)
        /\ \/ req.op = "insert" /\ ~Live
           \/ req.op = "update"
           \/ req.op = "replace" /\ Live
    BY DEF Write, FullInv, IInv
  <1>2. /\ req \in Calls /\ req.op \in Writes /\ req.val \in Seq(Bytes)
        /\ Request # Map!NoRequest /\ Request.op = req.op
        /\ Request.val = req.val /\ Request.key = req.key
        /\ StoreMap[Request.key] = Store(req.key)
    BY <1>1, RequestFacts, CallTypes DEF StoreMap, Writes
  <1>3. StoreMap' = [StoreMap EXCEPT ![Request.key] = Request.val]
    BY <1>1, <1>2, PutRefines
  <1>4. /\ Request' = Map!NoRequest
        /\ reply' = [ret |-> "ok", len |-> NoLen, val |-> <<>>]
    BY ReturnFacts DEF Return, Write
  <1>5. Live <=> Store(req.key) # Tombstone
    BY <1>1, LiveMeans DEF FullInv
  <1>6. Map!Put(Request.val) /\ Map!Done
    BY <1>3, <1>4 DEF Map!Put, Map!Done, Map!Missing, StoreMap
  <1>7. \/ Request.op = "insert" /\ StoreMap[Request.key] = Tombstone
        \/ Request.op = "update"
        \/ Request.op = "replace" /\ StoreMap[Request.key] # Tombstone
    BY <1>1, <1>2, <1>5
  <1>8. QED
    BY <1>2, <1>4, <1>6, <1>7
       DEF Map!Answer, Map!Insert, Map!Update, Map!Replace, Map!Value, Map!Missing,
           Tombstone, StoreMap

\* The steps of the walk are invisible.
LEMMA WalkRefines ==
  ASSUME TypeOK, IndexHit \/ ChainRead \/ ChainReread \/ ChainEnd \/ ChainAborts
  PROVE  UNCHANGED <<StoreMap, Request, reply>>
PROOF
  <1>1. /\ ~Answered /\ ~Answered'
        /\ UNCHANGED <<records, req, reply>>
    BY DEF IndexHit, ChainRead, ChainReread, ChainEnd, ChainAborts, NextRecord, Found,
           database
  <1>2. StoreMap' = StoreMap
    BY <1>1 DEF StoreMap, Store
  <1>3. Request' = Request
    BY <1>1 DEF Request
  <1>4. QED
    BY <1>1, <1>2, <1>3

LEMMA StepRefines == FullInv /\ BufferInv /\ [Next]_vars => [Map!Next]_Map!vars
PROOF
  <1>1. SUFFICES ASSUME FullInv, BufferInv, [Next]_vars PROVE [Map!Next]_Map!vars
    OBVIOUS
  <1>2. TypeOK
    BY <1>1 DEF FullInv, IInv
  <1>3. CASE UNCHANGED vars
    BY <1>3 DEF vars, Map!vars, Store, Request
  <1>4. CASE Call
    BY <1>2, <1>4, CallRefines DEF Map!Next
  <1>5. CASE Refuse \/ IndexFails \/ ChainFails \/ IndexMiss \/ Lookup
    BY <1>1, <1>5, RefuseRefines, FailRefines, IndexMissRefines, LookupRefines DEF Map!Next
  <1>6. CASE Remove \/ Write
    BY <1>1, <1>6, RemoveRefines, WriteRefines DEF Map!Next
  <1>7. CASE IndexHit \/ ChainRead \/ ChainReread \/ ChainEnd \/ ChainAborts
    <2>1. UNCHANGED <<StoreMap, Request, reply>>
      BY <1>2, <1>7, WalkRefines
    <2>2. QED
      BY <2>1 DEF Map!vars, StoreMap
  <1>8. QED
    BY <1>1, <1>3, <1>4, <1>5, <1>6, <1>7 DEF Next, Index, ChainLookup, Decide

LEMMA InitRefines == Init => BufferInv /\ Map!Init
PROOF
  <1>1. SUFFICES ASSUME Init PROVE BufferInv /\ Map!Init
    OBVIOUS
  <1>2. BufferInv
    BY <1>1 DEF Init, BufferInv
  <1>3. \A k \in Keys : Store(k) = Tombstone
    BY <1>1, ValueNone DEF Init, Store
  <1>4. Request = Map!NoRequest /\ reply = Map!NoReply
    BY <1>1 DEF Init, Request, NoCall, NoReply, Map!NoRequest, Map!NoReply
  <1>5. QED
    BY <1>2, <1>3, <1>4 DEF Map!Init, Map!Missing, Tombstone

\* The database is a map: for every set of keys and whatever hashes collide,
\* each call answers and changes the store as KvMap says, and a call that is
\* refused or fails leaves it alone.
THEOREM RefinesMap == Spec => BehavesAsMap
PROOF
  <1>1. Init => FullInv /\ BufferInv /\ Map!Init
    BY FullInitially, InitRefines
  <1>2. FullInv /\ BufferInv /\ [Next]_vars => FullInv' /\ BufferInv'
    BY FullInductive, BufferInductive
  <1>3. QED
    BY <1>1, <1>2, StepRefines, PTL DEF Spec, BehavesAsMap, Map!SafeSpec
-----------------------------------------------------------------------------
(***************************************************************************)
(* The tests of main.c.  A step of a test passes on the map of KvMap, with *)
(* the counters and the length main.c holds next to it; every test runs    *)
(* through on that map; and the database answers as the map does, so that  *)
(* no comparison fails unless a call has failed.                           *)
(***************************************************************************)
\* The database of a test: the map, the counters, and the length main.c holds.
Db(store, s, w, len) == [store |-> store, size |-> s, waste |-> w, len |-> len]

\* The steps a test is made of.
Steps ==
  [op : Writes \cup {"lookup", "remove", "no length", "no buffer"}, key : Keys,
   val : Vals \cup {<<>>}, ret : {"ok", "refused"}]
  \cup [op : {"counters"}, size : Nat, waste : Nat] \cup [op : {"reset", "malloc"}]

\* The elements of a concatenation.
LEMMA ConcatIs ==
  ASSUME NEW S, NEW v \in Seq(S), NEW u \in Seq(S)
  PROVE  /\ v \o u \in Seq(S) /\ Len(v \o u) = Len(v) + Len(u)
         /\ \A x \in 1 .. Len(v) + Len(u) :
              (v \o u)[x] = IF x <= Len(v) THEN v[x] ELSE u[x - Len(v)]
  OBVIOUS

\* FlattenSeq concatenates its sequences one after the other.
Flattens(f, ss, m) ==
  f = [i \in 1 .. m |-> IF i = 1 THEN ss[i] ELSE f[i - 1] \o ss[i]]

\* There is such a function, and FlattenSeq is its last value.
LEMMA FlattenExists ==
  ASSUME NEW ss, NEW m \in Nat
  PROVE  \E f : Flattens(f, ss, m)
<1> DEFINE Bad == {k \in Nat : ~\E f : Flattens(f, ss, k)}
<1>1. SUFFICES ASSUME Bad # {} PROVE FALSE
  OBVIOUS
<1>2. PICK k \in Bad : \A j \in Bad : k <= j
  <2>1. Bad \subseteq Nat
    OBVIOUS
  <2> HIDE DEF Bad
  <2> QED BY <1>1, <2>1, LeastNatural
<1>3. k \in Nat /\ ~\E f : Flattens(f, ss, k)
  OBVIOUS
<1>4. CASE k = 0
  <2> DEFINE f == [i \in 1 .. 0 |-> 0]
  <2>1. Flattens(f, ss, 0)
    BY DEF Flattens
  <2> QED BY <1>3, <1>4, <2>1
<1>5. CASE k # 0
  <2>1. k - 1 \in Nat /\ k - 1 \notin Bad
    BY <1>2, <1>3, <1>5
  <2>2. PICK f : Flattens(f, ss, k - 1)
    BY <2>1
  <2> DEFINE g == [i \in 1 .. k |-> IF i = 1 THEN ss[i] ELSE f[i - 1] \o ss[i]]
  <2>3. \A i \in 1 .. k - 1 : g[i] = f[i]
    <3>1. f = [i \in 1 .. k - 1 |-> IF i = 1 THEN ss[i] ELSE f[i - 1] \o ss[i]]
      BY <2>2 DEF Flattens
    <3>2. \A i \in 1 .. k - 1 : i \in 1 .. k
      BY <1>3
    <3>3. \A i \in 1 .. k - 1 : f[i] = IF i = 1 THEN ss[i] ELSE f[i - 1] \o ss[i]
      BY ONLY <3>1
    <3> QED BY ONLY <3>2, <3>3
  <2>4. g = [i \in 1 .. k |-> IF i = 1 THEN ss[i] ELSE g[i - 1] \o ss[i]]
    <3>1. \A i \in 1 .. k : i # 1 => i - 1 \in 1 .. k - 1
      BY <1>3
    <3>2. \A i \in 1 .. k : g[i] = IF i = 1 THEN ss[i] ELSE g[i - 1] \o ss[i]
      BY <2>3, <3>1
    <3> QED BY <3>2
  <2>5. Flattens(g, ss, k)
    BY <2>4 DEF Flattens
  <2> QED BY <1>3, <2>5
<1> QED BY <1>4, <1>5

LEMMA FlattenIs ==
  ASSUME NEW ss, Len(ss) \in Nat
  PROVE  \/ Len(ss) = 0 /\ Seqs!FlattenSeq(ss) = ss
         \/ /\ Len(ss) # 0
            /\ \E f : Flattens(f, ss, Len(ss)) /\ Seqs!FlattenSeq(ss) = f[Len(ss)]
<1>1. CASE Len(ss) = 0
  BY <1>1 DEF Seqs!FlattenSeq
<1>2. CASE Len(ss) # 0
  <2>1. PICK m : m = Len(ss)
    OBVIOUS
  <2> DEFINE f == CHOOSE f : Flattens(f, ss, m)
  <2>2. Flattens(f, ss, m)
    BY <2>1, FlattenExists
  <2>3. Seqs!FlattenSeq(ss) = f[m]
    BY <1>2, <2>1 DEF Seqs!FlattenSeq, Flattens
  <2> QED BY <1>2, <2>1, <2>2, <2>3
<1> QED BY <1>1, <1>2

Present(x, k) == x.store[k] # Tombstone
Puts(x, k, v, d, w, len) ==
  Db([x.store EXCEPT ![k] = v], x.size + d, x.waste + w, len)
Holds(s, x) ==
  s.val = x.store[s.key] /\ s.val # Tombstone /\ s.val \in Vals /\ Len(s.val) <= x.len

\* The step passes in x and leaves y.
Passes(s, x, y) ==
  \/ s.op = "counters" /\ x.size = s.size /\ x.waste = s.waste /\ y = x
  \/ s.op = "reset" /\ y = Db(x.store, x.size, x.waste, Room)
  \/ s.op = "malloc" /\ y = x
  \/ /\ s.op \in Writes /\ s.ret = "ok"
     /\ s.op = "insert" => ~Present(x, s.key)
     /\ s.op = "replace" => Present(x, s.key)
     /\ y = Puts(x, s.key, s.val, IF Present(x, s.key) THEN 0 ELSE 1,
                 IF Present(x, s.key) THEN 1 ELSE 0, x.len)
  \/ /\ s.op \in {"insert", "replace"} /\ s.ret = "refused"
     /\ s.op = "insert" <=> Present(x, s.key)
     /\ y = x
  \/ /\ s.op = "lookup" /\ s.ret = "ok" /\ Holds(s, x)
     /\ y = Db(x.store, x.size, x.waste, Len(s.val))
  \/ /\ s.op = "remove" /\ s.ret = "ok" /\ Holds(s, x)
     /\ y = Puts(x, s.key, Tombstone, -1, 1, Len(s.val))
  \/ /\ s.op \in {"lookup", "no length", "no buffer"} /\ s.ret = "refused"
     /\ ~Present(x, s.key) /\ y = x

\* The steps of a script pass one after the other, and lead from x to y.
Path(s, p) == \A i \in 1 .. Len(s) : Passes(s[i], p[i], p[i + 1])
Runs(s, x, y) ==
  /\ s \in Seq(Steps)
  /\ \E p : p[1] = x /\ p[Len(s) + 1] = y /\ Path(s, p)

\* No steps, the first one, the steps of two scripts, and those of many.
LEMMA RunsNone == \A x : Runs(<<>>, x, x)
<1> TAKE x
<1> DEFINE p == [i \in {1} |-> x]
<1>1. p[1] = x /\ Len(<<>>) = 0 /\ p[0 + 1] = x
  OBVIOUS
<1>2. Path(<<>>, p)
  BY DEF Path
<1> HIDE DEF p
<1> QED BY <1>1, <1>2 DEF Runs

LEMMA RunsHead ==
  ASSUME NEW s, NEW x, NEW y, Runs(s, x, y), s # <<>>
  PROVE  /\ Head(s) \in Steps
         /\ \E z : Passes(Head(s), x, z) /\ Runs(Tail(s), z, y)
<1>1. PICK p : p[1] = x /\ p[Len(s) + 1] = y /\ Path(s, p)
  BY DEF Runs
<1>2. PICK n : n = Len(s)
  OBVIOUS
<1>3. /\ s \in Seq(Steps) /\ n \in Nat \ {0} /\ Head(s) = s[1] /\ s[1] \in Steps
      /\ Tail(s) \in Seq(Steps) /\ Len(Tail(s)) = n - 1
      /\ \A i \in 1 .. n - 1 : Tail(s)[i] = s[i + 1]
  BY <1>2 DEF Runs
<1> DEFINE q == [i \in 1 .. n |-> p[i + 1]]
<1>4. q[1] = p[2] /\ q[n] = y
  BY <1>1, <1>2, <1>3
<1>5. ASSUME NEW i \in 1 .. n - 1 PROVE Passes(Tail(s)[i], q[i], q[i + 1])
  <2>1. i \in 1 .. n /\ i + 1 \in 1 .. n /\ Tail(s)[i] = s[i + 1]
    BY <1>3
  <2>2. q[i] = p[i + 1] /\ q[i + 1] = p[i + 1 + 1]
    BY <2>1
  <2>3. Passes(s[i + 1], p[i + 1], p[i + 1 + 1])
    BY <1>1, <1>2, <2>1 DEF Path
  <2> QED BY <2>1, <2>2, <2>3
<1>6. Path(Tail(s), q)
  BY <1>3, <1>5 DEF Path
<1>7. Passes(s[1], p[1], p[1 + 1])
  BY <1>1, <1>2, <1>3 DEF Path
<1> HIDE DEF q
<1>8. Runs(Tail(s), p[2], y)
  <2>1. Len(Tail(s)) + 1 = n
    BY <1>3
  <2> QED BY <1>3, <1>4, <1>6, <2>1 DEF Runs
<1> QED BY <1>1, <1>3, <1>7, <1>8

LEMMA RunsConcat ==
  ASSUME NEW s, NEW t, NEW x, NEW y, NEW z, Runs(s, x, y), Runs(t, y, z)
  PROVE  Runs(s \o t, x, z)
<1>1. PICK p : p[1] = x /\ p[Len(s) + 1] = y /\ Path(s, p)
  BY DEF Runs
<1>2. PICK q : q[1] = y /\ q[Len(t) + 1] = z /\ Path(t, q)
  BY DEF Runs
<1>3. PICK m, n : m = Len(s) /\ n = Len(t)
  OBVIOUS
<1>4. s \in Seq(Steps) /\ t \in Seq(Steps)
  BY DEF Runs
<1>5. m \in Nat /\ n \in Nat
  BY <1>3, <1>4
<1>6. /\ s \o t \in Seq(Steps) /\ Len(s \o t) = m + n
      /\ \A i \in 1 .. m + n : (s \o t)[i] = IF i <= m THEN s[i] ELSE t[i - m]
  BY <1>3, <1>4, ConcatIs
<1> DEFINE r == [i \in 1 .. m + n + 1 |-> IF i <= m THEN p[i] ELSE q[i - m]]
<1>7. \A i \in 1 .. m + 1 : r[i] = p[i]
  BY <1>1, <1>2, <1>3, <1>5
<1>8. \A i \in m + 1 .. m + n + 1 : r[i] = q[i - m]
  BY <1>1, <1>2, <1>3, <1>5
<1>9. r[1] = x /\ r[m + n + 1] = z
  <2>1. 1 \in 1 .. m + 1 /\ m + n + 1 \in m + 1 .. m + n + 1 /\ m + n + 1 - m = n + 1
    BY <1>5
  <2> HIDE DEF r
  <2> QED BY <1>1, <1>2, <1>3, <1>7, <1>8, <2>1
<1> HIDE DEF r
<1>10. ASSUME NEW i \in 1 .. m + n PROVE Passes((s \o t)[i], r[i], r[i + 1])
  <2>1. CASE i <= m
    <3>1. i \in 1 .. m /\ i \in 1 .. m + 1 /\ i + 1 \in 1 .. m + 1
      BY <1>5, <2>1
    <3>2. Passes(s[i], p[i], p[i + 1])
      BY <1>1, <1>3, <3>1 DEF Path
    <3> QED BY <1>6, <1>7, <2>1, <3>1, <3>2
  <2>2. CASE ~(i <= m)
    <3>1. PICK j : j = i - m
      OBVIOUS
    <3>2. j \in 1 .. n /\ i \in m + 1 .. m + n + 1 /\ i + 1 \in m + 1 .. m + n + 1
          /\ i + 1 - m = j + 1
      BY <1>5, <2>2, <3>1
    <3>3. Passes(t[j], q[j], q[j + 1])
      BY <1>2, <1>3, <3>2 DEF Path
    <3>4. r[i] = q[j] /\ r[i + 1] = q[j + 1]
      <4>1. PICK u : u = i + 1
        OBVIOUS
      <4>2. u \in m + 1 .. m + n + 1 /\ u - m = j + 1
        BY <1>5, <2>2, <3>1, <4>1
      <4> QED BY <1>8, <3>1, <3>2, <4>1, <4>2
    <3>5. (s \o t)[i] = t[j]
      BY <1>6, <2>2, <3>1
    <3> QED BY <3>3, <3>4, <3>5
  <2> QED BY <2>1, <2>2
<1>11. Path(s \o t, r)
  BY <1>6, <1>10 DEF Path
<1> QED BY <1>6, <1>9, <1>11 DEF Runs

LEMMA RunsFlatten ==
  ASSUME NEW n \in Nat, NEW ss \in Seq(Seq(Steps)), Len(ss) = n, NEW q,
         \A i \in 1 .. n : Runs(ss[i], q[i - 1], q[i])
  PROVE  Runs(Seqs!FlattenSeq(ss), q[0], q[n])
<1>1. CASE n = 0
  <2>1. ss = <<>> /\ Seqs!FlattenSeq(ss) = <<>>
    BY <1>1, FlattenIs
  <2> QED BY <1>1, <2>1, RunsNone
<1>2. CASE n # 0
  <2>1. PICK f : Flattens(f, ss, n) /\ Seqs!FlattenSeq(ss) = f[n]
    BY <1>2, FlattenIs
  <2>2. \A i \in 1 .. n : f[i] = IF i = 1 THEN ss[i] ELSE f[i - 1] \o ss[i]
    <3>1. f = [i \in 1 .. n |-> IF i = 1 THEN ss[i] ELSE f[i - 1] \o ss[i]]
      BY <2>1 DEF Flattens
    <3> QED BY ONLY <3>1
  <2> DEFINE Bad == {i \in 1 .. n : ~Runs(f[i], q[0], q[i])}
  <2>3. Bad = {}
    <3>1. SUFFICES ASSUME Bad # {} PROVE FALSE
      OBVIOUS
    <3>2. PICK k \in Bad : \A j \in Bad : k <= j
      <4>1. Bad \subseteq Nat
        OBVIOUS
      <4> HIDE DEF Bad
      <4> QED BY <3>1, <4>1, LeastNatural
    <3>3. k \in 1 .. n /\ ~Runs(f[k], q[0], q[k])
      OBVIOUS
    <3>4. Runs(ss[k], q[k - 1], q[k])
      BY <3>3
    <3>5. CASE k = 1
      <4>1. f[k] = ss[k] /\ k - 1 = 0
        BY <2>2, <3>3, <3>5
      <4> QED BY <3>3, <3>4, <4>1
    <3>6. CASE k # 1
      <4>1. PICK j : j = k - 1
        OBVIOUS
      <4>2. j \in 1 .. n /\ j < k
        BY <3>3, <3>6, <4>1
      <4>3. Runs(f[j], q[0], q[j])
        BY <3>2, <3>3, <4>2
      <4>4. f[k] = f[j] \o ss[k]
        BY <2>2, <3>3, <3>6, <4>1
      <4>5. Runs(f[j] \o ss[k], q[0], q[k])
        BY <3>4, <4>1, <4>3, RunsConcat
      <4> QED BY <3>3, <4>4, <4>5
    <3> QED BY <3>5, <3>6
  <2>4. n \in 1 .. n
    BY <1>2
  <2> QED BY <2>1, <2>3, <2>4
<1> QED BY <1>1, <1>2

\* Scripts that are written out.
LEMMA RunsOne ==
  ASSUME NEW a1 \in Steps,
         NEW x0, NEW x1,
         Passes(a1, x0, x1)
  PROVE  Runs(<<a1>>, x0, x1)
<1> DEFINE s == <<a1>>
           p == <<x0, x1>>
<1>1. /\ s \in Seq(Steps) /\ Len(s) = 1
      /\ s[1] = a1
  OBVIOUS
<1>2. p[1] = x0 /\ p[2] = x1
  OBVIOUS
<1> HIDE DEF s, p
<1>3. ASSUME NEW i \in 1 .. 1 PROVE Passes(s[i], p[i], p[i + 1])
  <2>1. i = 1
    OBVIOUS
  <2> QED BY <1>1, <1>2, <2>1
<1>4. Path(s, p)
  BY <1>1, <1>3 DEF Path
<1>5. Runs(s, x0, x1)
  BY <1>1, <1>2, <1>4 DEF Runs
<1> QED BY <1>5 DEF s

LEMMA RunsThree ==
  ASSUME NEW a1 \in Steps,
         NEW a2 \in Steps,
         NEW a3 \in Steps,
         NEW x0, NEW x1, NEW x2, NEW x3,
         Passes(a1, x0, x1),
         Passes(a2, x1, x2),
         Passes(a3, x2, x3)
  PROVE  Runs(<<a1, a2, a3>>, x0, x3)
<1> DEFINE s == <<a1, a2, a3>>
           p == <<x0, x1, x2, x3>>
<1>1. /\ s \in Seq(Steps) /\ Len(s) = 3
      /\ s[1] = a1 /\ s[2] = a2 /\ s[3] = a3
  OBVIOUS
<1>2. p[1] = x0 /\ p[2] = x1 /\ p[3] = x2 /\ p[4] = x3
  OBVIOUS
<1> HIDE DEF s, p
<1>3. ASSUME NEW i \in 1 .. 3 PROVE Passes(s[i], p[i], p[i + 1])
  <2>1. i = 1 \/ i = 2 \/ i = 3
    OBVIOUS
  <2> QED BY <1>1, <1>2, <2>1
<1>4. Path(s, p)
  BY <1>1, <1>3 DEF Path
<1>5. Runs(s, x0, x3)
  BY <1>1, <1>2, <1>4 DEF Runs
<1> QED BY <1>5 DEF s

LEMMA RunsFour ==
  ASSUME NEW a1 \in Steps,
         NEW a2 \in Steps,
         NEW a3 \in Steps,
         NEW a4 \in Steps,
         NEW x0, NEW x1, NEW x2, NEW x3, NEW x4,
         Passes(a1, x0, x1),
         Passes(a2, x1, x2),
         Passes(a3, x2, x3),
         Passes(a4, x3, x4)
  PROVE  Runs(<<a1, a2, a3, a4>>, x0, x4)
<1> DEFINE s == <<a1, a2, a3, a4>>
           p == <<x0, x1, x2, x3, x4>>
<1>1. /\ s \in Seq(Steps) /\ Len(s) = 4
      /\ s[1] = a1 /\ s[2] = a2 /\ s[3] = a3 /\ s[4] = a4
  OBVIOUS
<1>2. p[1] = x0 /\ p[2] = x1 /\ p[3] = x2 /\ p[4] = x3 /\ p[5] = x4
  OBVIOUS
<1> HIDE DEF s, p
<1>3. ASSUME NEW i \in 1 .. 4 PROVE Passes(s[i], p[i], p[i + 1])
  <2>1. i = 1 \/ i = 2 \/ i = 3 \/ i = 4
    OBVIOUS
  <2> QED BY <1>1, <1>2, <2>1
<1>4. Path(s, p)
  BY <1>1, <1>3 DEF Path
<1>5. Runs(s, x0, x4)
  BY <1>1, <1>2, <1>4 DEF Runs
<1> QED BY <1>5 DEF s

LEMMA RunsSix ==
  ASSUME NEW a1 \in Steps,
         NEW a2 \in Steps,
         NEW a3 \in Steps,
         NEW a4 \in Steps,
         NEW a5 \in Steps,
         NEW a6 \in Steps,
         NEW x0, NEW x1, NEW x2, NEW x3, NEW x4, NEW x5, NEW x6,
         Passes(a1, x0, x1),
         Passes(a2, x1, x2),
         Passes(a3, x2, x3),
         Passes(a4, x3, x4),
         Passes(a5, x4, x5),
         Passes(a6, x5, x6)
  PROVE  Runs(<<a1, a2, a3, a4, a5, a6>>, x0, x6)
<1> DEFINE s == <<a1, a2, a3, a4, a5, a6>>
           p == <<x0, x1, x2, x3, x4, x5, x6>>
<1>1. /\ s \in Seq(Steps) /\ Len(s) = 6
      /\ s[1] = a1 /\ s[2] = a2 /\ s[3] = a3 /\ s[4] = a4 /\ s[5] = a5 /\ s[6] = a6
  OBVIOUS
<1>2. p[1] = x0 /\ p[2] = x1 /\ p[3] = x2 /\ p[4] = x3 /\ p[5] = x4 /\ p[6] = x5 /\ p[7] = x6
  OBVIOUS
<1> HIDE DEF s, p
<1>3. ASSUME NEW i \in 1 .. 6 PROVE Passes(s[i], p[i], p[i + 1])
  <2>1. i = 1 \/ i = 2 \/ i = 3 \/ i = 4 \/ i = 5 \/ i = 6
    OBVIOUS
  <2> QED BY <1>1, <1>2, <2>1
<1>4. Path(s, p)
  BY <1>1, <1>3 DEF Path
<1>5. Runs(s, x0, x6)
  BY <1>1, <1>2, <1>4 DEF Runs
<1> QED BY <1>5 DEF s

LEMMA RunsSeven ==
  ASSUME NEW a1 \in Steps,
         NEW a2 \in Steps,
         NEW a3 \in Steps,
         NEW a4 \in Steps,
         NEW a5 \in Steps,
         NEW a6 \in Steps,
         NEW a7 \in Steps,
         NEW x0, NEW x1, NEW x2, NEW x3, NEW x4, NEW x5, NEW x6, NEW x7,
         Passes(a1, x0, x1),
         Passes(a2, x1, x2),
         Passes(a3, x2, x3),
         Passes(a4, x3, x4),
         Passes(a5, x4, x5),
         Passes(a6, x5, x6),
         Passes(a7, x6, x7)
  PROVE  Runs(<<a1, a2, a3, a4, a5, a6, a7>>, x0, x7)
<1> DEFINE s == <<a1, a2, a3, a4, a5, a6, a7>>
           p == <<x0, x1, x2, x3, x4, x5, x6, x7>>
<1>1. /\ s \in Seq(Steps) /\ Len(s) = 7
      /\ s[1] = a1 /\ s[2] = a2 /\ s[3] = a3 /\ s[4] = a4 /\ s[5] = a5 /\ s[6] = a6 /\ s[7] = a7
  OBVIOUS
<1>2. p[1] = x0 /\ p[2] = x1 /\ p[3] = x2 /\ p[4] = x3
      /\ p[5] = x4 /\ p[6] = x5 /\ p[7] = x6 /\ p[8] = x7
  OBVIOUS
<1> HIDE DEF s, p
<1>3. ASSUME NEW i \in 1 .. 7 PROVE Passes(s[i], p[i], p[i + 1])
  <2>1. i = 1 \/ i = 2 \/ i = 3 \/ i = 4 \/ i = 5 \/ i = 6 \/ i = 7
    OBVIOUS
  <2> QED BY <1>1, <1>2, <2>1
<1>4. Path(s, p)
  BY <1>1, <1>3 DEF Path
<1>5. Runs(s, x0, x7)
  BY <1>1, <1>2, <1>4 DEF Runs
<1> QED BY <1>5 DEF s


-----------------------------------------------------------------------------
(***************************************************************************)
(* Every test passes on the map.                                           *)
(***************************************************************************)
NoKeys == [k \in Keys |-> Tombstone]

\* The values and the steps of the tests.
LEMMA ValFacts ==
  ASSUME NEW v \in TestVals
  PROVE  v \in Vals /\ v \in Seq(Bytes) /\ v # Tombstone /\ Len(v) \in Nat /\ Len(v) <= Room
  BY TestsAssumption, ValuesAssumption DEF Tombstone

LEMMA CallSteps ==
  ASSUME NEW k \in Keys, NEW v \in Vals
  PROVE  /\ \A op \in Writes \cup {"remove"} : Done(op, k, v) \in Steps
         /\ \A op \in {"insert", "replace"} : Refuses(op, k, v) \in Steps
         /\ Finds(k, v) \in Steps /\ Misses(k) \in Steps
  BY DEF Steps, Step, Done, Refuses, Finds, Misses, Writes

LEMMA OtherKinds ==
  /\ \A s, w \in Nat : Counters(s, w) \in Steps
  /\ Reset \in Steps /\ Malloc \in Steps
  /\ \A op \in {"no length", "no buffer"} : MissesWith(op) \in Steps
  BY TestsAssumption DEF Steps, Counters, Reset, Malloc, MissesWith, Misses, Step

\* How the steps pass.
LEMMA QuietPass ==
  ASSUME NEW st, NEW n, NEW w, NEW len
  PROVE  /\ Passes(Counters(n, w), Db(st, n, w, len), Db(st, n, w, len))
         /\ Passes(Reset, Db(st, n, w, len), Db(st, n, w, Room))
         /\ Passes(Malloc, Db(st, n, w, len), Db(st, n, w, len))
  BY DEF Passes, Counters, Reset, Malloc, Db

LEMMA FindsPass ==
  ASSUME NEW st, NEW n, NEW w, NEW len, NEW k, NEW v, st[k] = v, v \in Vals,
         v # Tombstone, Len(v) <= len
  PROVE  Passes(Finds(k, v), Db(st, n, w, len), Db(st, n, w, Len(v)))
  BY DEF Passes, Finds, Step, Db, Holds

LEMMA MissesPass ==
  ASSUME NEW x, NEW k, ~Present(x, k)
  PROVE  Passes(Misses(k), x, x)
  BY DEF Passes, Misses, Step

LEMMA RefusesPass ==
  ASSUME NEW x, NEW k, NEW v, NEW op \in {"insert", "replace"},
         op = "insert" <=> Present(x, k)
  PROVE  Passes(Refuses(op, k, v), x, x)
  BY DEF Passes, Refuses, Step

LEMMA DonePass ==
  ASSUME NEW st, NEW n, NEW w, NEW len, NEW k, NEW v, NEW op \in Writes,
         op = "insert" => st[k] = Tombstone,
         op = "replace" => st[k] # Tombstone
  PROVE  Passes(Done(op, k, v), Db(st, n, w, len),
                Db([st EXCEPT ![k] = v], n + (IF st[k] # Tombstone THEN 0 ELSE 1),
                    w + (IF st[k] # Tombstone THEN 1 ELSE 0), len))
  BY DEF Passes, Done, Step, Db, Puts, Present

LEMMA RemovePass ==
  ASSUME NEW st, NEW n, NEW w, NEW len, NEW k, NEW v, st[k] = v, v \in Vals,
         v # Tombstone, Len(v) <= len
  PROVE  Passes(Done("remove", k, v), Db(st, n, w, len),
                Db([st EXCEPT ![k] = Tombstone], n - 1, w + 1, Len(v)))
  BY DEF Passes, Done, Step, Db, Puts, Holds

\* A group of basic_logic that stores a value, and the whole of basic_logic.
LEMMA StoresRuns ==
  ASSUME NEW st, DOMAIN st = Keys, NEW len, NEW n \in Nat, NEW w \in Nat, NEW w2 \in Nat,
         NEW v \in TestVals, NEW op \in Writes,
         \/ op = "insert" /\ st[KEY] = Tombstone /\ n = 0 /\ w2 = w
         \/ op \in {"replace", "update"} /\ st[KEY] # Tombstone /\ n = 1 /\ w2 = w + 1
  PROVE  Runs(Stores(op, v, w2), Db(st, n, w, len),
              Db([st EXCEPT ![KEY] = v], 1, w2, Len(v)))
<1>1. KEY \in Keys /\ v \in Vals /\ v # Tombstone /\ Len(v) \in Nat /\ Len(v) <= Room
  BY ValFacts, TestsAssumption
<1> DEFINE t == [st EXCEPT ![KEY] = v]
<1>2. t[KEY] = v
  BY <1>1
<1> HIDE DEF t
<1>3. Passes(Done(op, KEY, v), Db(st, n, w, Room), Db(t, 1, w2, Room))
  <2>1. /\ op = "insert" => st[KEY] = Tombstone
        /\ op = "replace" => st[KEY] # Tombstone
    OBVIOUS
  <2>2. /\ n + (IF st[KEY] # Tombstone THEN 0 ELSE 1) = 1
        /\ w + (IF st[KEY] # Tombstone THEN 1 ELSE 0) = w2
    OBVIOUS
  <2>3. Passes(Done(op, KEY, v), Db(st, n, w, Room),
               Db(t, n + (IF st[KEY] # Tombstone THEN 0 ELSE 1),
                   w + (IF st[KEY] # Tombstone THEN 1 ELSE 0), Room))
    BY ONLY <2>1, DonePass, op \in Writes DEF t
  <2> QED BY ONLY <2>2, <2>3
<1>4. /\ Passes(Finds(KEY, v), Db(t, 1, w2, Room), Db(t, 1, w2, Len(v)))
      /\ Passes(Finds(KEY, v), Db(t, 1, w2, Len(v)), Db(t, 1, w2, Len(v)))
  BY <1>1, <1>2, FindsPass
<1>5. Passes(Refuses("insert", KEY, v), Db(t, 1, w2, Len(v)), Db(t, 1, w2, Len(v)))
  BY <1>1, <1>2, RefusesPass DEF Present, Db
<1>6. /\ Reset \in Steps /\ Done(op, KEY, v) \in Steps /\ Finds(KEY, v) \in Steps
      /\ Refuses("insert", KEY, v) \in Steps /\ Counters(1, w2) \in Steps
  BY <1>1, CallSteps, OtherKinds
<1>7. Runs(Stores(op, v, w2), Db(st, n, w, len), Db(t, 1, w2, Len(v)))
  BY <1>3, <1>4, <1>5, <1>6, QuietPass, RunsSix DEF Stores
<1> QED BY <1>7 DEF t

LEMMA BasicRuns == \E y : Runs(basic_logic, Db(NoKeys, 0, 0, 0), y)
<1>1. KEY \in Keys /\ VAL1 \in TestVals /\ VAL2 \in TestVals /\ VAL3 \in TestVals
  BY TestsAssumption DEF TestVals
<1>2. /\ VAL1 \in Vals /\ VAL1 # Tombstone /\ VAL2 \in Vals /\ VAL2 # Tombstone
      /\ VAL3 \in Vals /\ VAL3 # Tombstone
      /\ Len(VAL3) \in Nat /\ Len(VAL3) <= Room
  BY <1>1, ValFacts
<1> DEFINE x == Db(NoKeys, 0, 0, 0)
           s1 == [NoKeys EXCEPT ![KEY] = VAL1]
           s2 == [s1 EXCEPT ![KEY] = VAL2]
           s3 == [s2 EXCEPT ![KEY] = VAL3]
           s4 == [s3 EXCEPT ![KEY] = Tombstone]
<1>3. /\ NoKeys[KEY] = Tombstone /\ s1[KEY] = VAL1 /\ s2[KEY] = VAL2 /\ s3[KEY] = VAL3
      /\ s4[KEY] = Tombstone
      /\ DOMAIN NoKeys = Keys /\ DOMAIN s1 = Keys /\ DOMAIN s2 = Keys
  BY <1>1 DEF NoKeys
<1> HIDE DEF s1, s2, s3, s4
<1>4. Runs(<<Counters(0, 0), MissesWith("no length"), MissesWith("no buffer"), Misses(KEY),
             Counters(0, 0), Refuses("replace", KEY, VAL1), Counters(0, 0)>>, x, x)
  <2>1. ~Present(x, KEY)
    BY <1>3 DEF Present, Db
  <2>2. \A op \in {"no length", "no buffer"} : Passes(MissesWith(op), x, x)
    BY <2>1 DEF Passes, MissesWith, Misses, Step
  <2>3. Passes(Misses(KEY), x, x) /\ Passes(Refuses("replace", KEY, VAL1), x, x)
    BY <2>1, MissesPass, RefusesPass
  <2>4. Passes(Counters(0, 0), x, x)
    BY QuietPass
  <2>5. /\ Counters(0, 0) \in Steps /\ MissesWith("no length") \in Steps
        /\ MissesWith("no buffer") \in Steps /\ Misses(KEY) \in Steps
        /\ Refuses("replace", KEY, VAL1) \in Steps
    BY <1>1, <1>2, CallSteps, OtherKinds
  <2> HIDE DEF x
  <2> QED BY <2>2, <2>3, <2>4, <2>5, RunsSeven
<1>5. Runs(Stores("insert", VAL1, 0), x, Db(s1, 1, 0, Len(VAL1)))
  <2>1. /\ "insert" \in Writes /\ VAL1 \in TestVals /\ 0 \in Nat
        /\ NoKeys[KEY] = Tombstone /\ DOMAIN NoKeys = Keys
    BY <1>1, <1>3 DEF Writes
  <2>2. Runs(Stores("insert", VAL1, 0), Db(NoKeys, 0, 0, 0),
             Db([NoKeys EXCEPT ![KEY] = VAL1], 1, 0, Len(VAL1)))
    BY <2>1, StoresRuns
  <2> QED BY <2>2 DEF s1
<1>6. Runs(Stores("replace", VAL2, 1), Db(s1, 1, 0, Len(VAL1)), Db(s2, 1, 1, Len(VAL2)))
  <2>1. /\ "replace" \in Writes /\ "replace" \in {"replace", "update"}
        /\ VAL2 \in TestVals /\ 0 \in Nat /\ 1 \in Nat /\ 1 = 0 + 1
        /\ s1[KEY] # Tombstone /\ DOMAIN s1 = Keys
    BY <1>1, <1>2, <1>3 DEF Writes
  <2>2. Runs(Stores("replace", VAL2, 1), Db(s1, 1, 0, Len(VAL1)),
             Db([s1 EXCEPT ![KEY] = VAL2], 1, 1, Len(VAL2)))
    BY ONLY <2>1, StoresRuns
  <2> QED BY <2>2 DEF s2
<1>7. Runs(Stores("update", VAL3, 2), Db(s2, 1, 1, Len(VAL2)), Db(s3, 1, 2, Len(VAL3)))
  <2>1. /\ "update" \in Writes /\ "update" \in {"replace", "update"}
        /\ VAL3 \in TestVals /\ 1 \in Nat /\ 2 \in Nat /\ 2 = 1 + 1
        /\ s2[KEY] # Tombstone /\ DOMAIN s2 = Keys
    BY <1>1, <1>2, <1>3 DEF Writes
  <2>2. Runs(Stores("update", VAL3, 2), Db(s2, 1, 1, Len(VAL2)),
             Db([s2 EXCEPT ![KEY] = VAL3], 1, 2, Len(VAL3)))
    BY ONLY <2>1, StoresRuns
  <2> QED BY <2>2 DEF s3
<1> DEFINE n == Len(VAL3)
<1>8. Runs(<<Reset, Finds(KEY, VAL3), Counters(1, 2),
             Reset, Done("remove", KEY, VAL3), Misses(KEY), Counters(0, 3)>>,
           Db(s3, 1, 2, n), Db(s4, 0, 3, n))
  <2>1. Passes(Finds(KEY, VAL3), Db(s3, 1, 2, Room), Db(s3, 1, 2, n))
    BY <1>2, <1>3, FindsPass
  <2>2. Passes(Done("remove", KEY, VAL3), Db(s3, 1, 2, Room), Db(s4, 0, 3, n))
    <3>1. Passes(Done("remove", KEY, VAL3), Db(s3, 1, 2, Room), Db(s4, 1 - 1, 2 + 1, n))
      BY <1>2, <1>3, RemovePass DEF s4
    <3> QED BY <3>1
  <2>3. Passes(Misses(KEY), Db(s4, 0, 3, n), Db(s4, 0, 3, n))
    BY <1>3, MissesPass DEF Present, Db
  <2>4. /\ Reset \in Steps /\ Finds(KEY, VAL3) \in Steps /\ Counters(1, 2) \in Steps
        /\ Done("remove", KEY, VAL3) \in Steps /\ Misses(KEY) \in Steps
        /\ Counters(0, 3) \in Steps
    BY <1>1, <1>2, CallSteps, OtherKinds
  <2> HIDE DEF n
  <2> QED BY <2>1, <2>2, <2>3, <2>4, QuietPass, RunsSeven
<1> QED BY <1>4, <1>5, <1>6, <1>7, <1>8, RunsConcat DEF basic_logic

\* A loop of main.c: one script for each i, from state to state.
LEMMA RunsAll ==
  ASSUME NEW n \in Nat, NEW ss, ss = [i \in 1 .. n |-> ss[i]], NEW q,
         \A i \in 1 .. n : Runs(ss[i], q[i - 1], q[i])
  PROVE  Runs(Seqs!FlattenSeq(ss), q[0], q[n])
<1>1. \A i \in 1 .. n : ss[i] \in Seq(Steps)
  BY DEF Runs
<1>2. ss \in Seq(Seq(Steps)) /\ Len(ss) = n
  BY ONLY <1>1, n \in Nat, ss = [i \in 1 .. n |-> ss[i]]
<1> QED BY <1>2, RunsFlatten

\* Every rewrite but the first makes a value waste.
LEMMA RewriteRuns == \E y : Runs(heavy_rewrite, Db(NoKeys, 0, 0, 0), y)
<1> DEFINE n == Len(Rewrites)
           R(i) == Rewrites[i]
           st(i) == [NoKeys EXCEPT ![KEY] = R(i)]
           steps(i) == <<Reset, Done("update", KEY, R(i)), Finds(KEY, R(i)),
                         Counters(1, i - 1)>>
           ss == [i \in 1 .. n |-> steps(i)]
           q == [i \in 0 .. n |-> IF i = 0 THEN Db(NoKeys, 0, 0, 0)
                                  ELSE Db(st(i), 1, i - 1, Len(R(i)))]
<1>1. n \in Nat /\ KEY \in Keys /\ NoKeys[KEY] = Tombstone /\ DOMAIN NoKeys = Keys
  BY TestsAssumption DEF NoKeys
<1>2. ASSUME NEW i \in 1 .. n
      PROVE  /\ R(i) \in TestVals /\ R(i) \in Vals /\ R(i) # Tombstone
             /\ Len(R(i)) \in Nat /\ Len(R(i)) <= Room
  <2>1. R(i) \in TestVals
    BY DEF TestVals
  <2> QED BY <2>1, ValFacts
<1>3. ASSUME NEW i \in 1 .. n
      PROVE  Passes(Done("update", KEY, R(i)),
                    Db(q[i - 1].store, q[i - 1].size, q[i - 1].waste, Room),
                    Db(st(i), 1, i - 1, Room))
             /\ q[i - 1] = Db(q[i - 1].store, q[i - 1].size, q[i - 1].waste, q[i - 1].len)
  <2>1. CASE i = 1
    <3>1. q[i - 1] = Db(NoKeys, 0, 0, 0)
      BY <1>1, <2>1
    <3>2. Passes(Done("update", KEY, R(i)), Db(NoKeys, 0, 0, Room),
                 Db([NoKeys EXCEPT ![KEY] = R(i)], 0 + 1, 0 + 0, Room))
      <4>1. \A v : Passes(Done("update", KEY, v), Db(NoKeys, 0, 0, Room),
                     Db([NoKeys EXCEPT ![KEY] = v], 0 + 1, 0 + 0, Room))
        BY <1>1, DonePass DEF Writes
      <4> QED BY <4>1
    <3>3. 0 + 1 = 1 /\ 0 + 0 = i - 1
      BY <2>1
    <3> QED BY ONLY <3>1, <3>2, <3>3 DEF Db
  <2>2. CASE i # 1
    <3>1. PICK j : j = i - 1
      OBVIOUS
    <3>2. j \in 1 .. n /\ j \in 0 .. n /\ j # 0 /\ j - 1 \in Int /\ j - 1 + 1 = i - 1
      BY <1>1, <2>2, <3>1
    <3>3. q[j] = Db(st(j), 1, j - 1, Len(R(j)))
      BY <3>2
    <3>4. st(j)[KEY] = R(j) /\ R(j) # Tombstone
          /\ [st(j) EXCEPT ![KEY] = R(i)] = st(i)
      BY <1>1, <1>2, <3>2 DEF NoKeys
    <3> HIDE DEF st
    <3>5. Passes(Done("update", KEY, R(i)), Db(st(j), 1, j - 1, Room),
                 Db([st(j) EXCEPT ![KEY] = R(i)], 1 + 0, j - 1 + 1, Room))
      <4>1. \A v, s, w : s[KEY] # Tombstone =>
              Passes(Done("update", KEY, v), Db(s, 1, w, Room),
                     Db([s EXCEPT ![KEY] = v], 1 + 0, w + 1, Room))
        BY DonePass DEF Writes
      <4>2. st(j)[KEY] # Tombstone
        BY <3>4
      <4> HIDE DEF R, q
      <4> QED BY ONLY <4>1, <4>2
    <3> QED BY ONLY <3>1, <3>2, <3>3, <3>4, <3>5 DEF Db
  <2> QED BY <2>1, <2>2
<1>4. ASSUME NEW i \in 1 .. n PROVE Runs(ss[i], q[i - 1], q[i])
  <2>1. PICK a, b, c, d : a = q[i - 1].store /\ b = q[i - 1].size /\ c = q[i - 1].waste
                          /\ d = q[i - 1].len
    OBVIOUS
  <2>2. q[i - 1] = Db(a, b, c, d) /\ q[i] = Db(st(i), 1, i - 1, Len(R(i)))
        /\ ss[i] = steps(i)
    <3>1. i \in 0 .. n /\ i # 0
      BY <1>1
    <3>2. q[i] = Db(st(i), 1, i - 1, Len(R(i))) /\ ss[i] = steps(i)
      BY <3>1
    <3> HIDE DEF q, ss, st, R
    <3> QED BY <1>3, <2>1, <3>2
  <2>3. Passes(Done("update", KEY, R(i)), Db(a, b, c, Room), Db(st(i), 1, i - 1, Room))
    BY <1>3, <2>1
  <2>4. st(i)[KEY] = R(i)
    BY <1>1
  <2>5. Passes(Finds(KEY, R(i)), Db(st(i), 1, i - 1, Room), Db(st(i), 1, i - 1, Len(R(i))))
    BY <1>2, <2>4, FindsPass
  <2>6. /\ Reset \in Steps /\ Done("update", KEY, R(i)) \in Steps
        /\ Finds(KEY, R(i)) \in Steps /\ Counters(1, i - 1) \in Steps
    <3>1. i - 1 \in Nat /\ "update" \in Writes
      BY <1>1 DEF Writes
    <3> QED BY <1>1, <1>2, <3>1, CallSteps, OtherKinds
  <2> HIDE DEF R, st, q, ss
  <2>7. Runs(steps(i), Db(a, b, c, d), Db(st(i), 1, i - 1, Len(R(i))))
    BY <2>3, <2>5, <2>6, QuietPass, RunsFour
  <2> QED BY <2>2, <2>7
<1>5. ss = [i \in 1 .. n |-> ss[i]]
  OBVIOUS
<1>6. q[0] = Db(NoKeys, 0, 0, 0)
  BY <1>1
<1>7. heavy_rewrite = Seqs!FlattenSeq(ss)
  BY DEF heavy_rewrite
<1> HIDE DEF ss, q, n
<1> QED BY <1>1, <1>4, <1>5, <1>6, <1>7, RunsAll

\* The first i objects.
Inserted(i) ==
  [k \in Keys |-> IF \E j \in 1 .. i : Objects[j] = k THEN Object[k] ELSE Tombstone]

\* Each object adds a key of its own.
LEMMA ObjectFacts ==
  ASSUME NEW i \in 1 .. Len(Objects)
  PROVE  /\ Objects[i] \in Keys
         /\ Object[Objects[i]] \in TestVals /\ Object[Objects[i]] \in Vals
         /\ Object[Objects[i]] # Tombstone
         /\ Len(Object[Objects[i]]) \in Nat /\ Len(Object[Objects[i]]) <= Room
<1>1. Objects[i] \in Keys
  BY TestsAssumption
<1>2. Object[Objects[i]] \in TestVals
  BY DEF TestVals
<1> QED BY <1>1, <1>2, ValFacts

LEMMA InsertedFacts ==
  /\ Inserted(0) = NoKeys
  /\ \A i \in 1 .. Len(Objects) :
       /\ Inserted(i - 1)[Objects[i]] = Tombstone
       /\ [Inserted(i - 1) EXCEPT ![Objects[i]] = Object[Objects[i]]] = Inserted(i)
  /\ \A n \in 1 .. Len(Objects), i \in 1 .. Len(Objects) :
       i <= n => Inserted(n)[Objects[i]] = Object[Objects[i]]
<1>1. Inserted(0) = NoKeys
  <2>1. 1 .. 0 = {}
    OBVIOUS
  <2> QED BY <2>1 DEF Inserted, NoKeys
<1>2. ASSUME NEW i \in 1 .. Len(Objects)
      PROVE  /\ Inserted(i - 1)[Objects[i]] = Tombstone
             /\ [Inserted(i - 1) EXCEPT ![Objects[i]] = Object[Objects[i]]] = Inserted(i)
  <2>1. Objects[i] \in Keys /\ Len(Objects) \in Nat
    BY ObjectFacts, TestsAssumption
  <2>2. \A j \in 1 .. i - 1 : Objects[j] # Objects[i]
    <3>1. \A j \in 1 .. i - 1 : j \in 1 .. Len(Objects) /\ j # i
      BY <2>1
    <3> QED BY <3>1, TestsAssumption
  <2>3. Inserted(i - 1)[Objects[i]] = Tombstone
    BY <2>1, <2>2 DEF Inserted
  <2>4. \A k : (\E j \in 1 .. i : Objects[j] = k)
                 <=> (\E j \in 1 .. i - 1 : Objects[j] = k) \/ k = Objects[i]
    <3>1. i \in 1 .. i /\ \A j \in 1 .. i : j = i \/ j \in 1 .. i - 1
      BY <2>1
    <3>2. \A j \in 1 .. i - 1 : j \in 1 .. i
      BY <2>1
    <3> QED BY <3>1, <3>2
  <2>5. \A k \in Keys : [Inserted(i - 1) EXCEPT ![Objects[i]] = Object[Objects[i]]][k]
                          = Inserted(i)[k]
    BY <2>1, <2>4 DEF Inserted
  <2> QED BY <2>1, <2>3, <2>5 DEF Inserted
<1>3. ASSUME NEW n \in 1 .. Len(Objects), NEW i \in 1 .. Len(Objects), i <= n
      PROVE  Inserted(n)[Objects[i]] = Object[Objects[i]]
  <2>1. Objects[i] \in Keys /\ i \in 1 .. n
    BY <1>3, ObjectFacts, TestsAssumption
  <2> QED BY <2>1 DEF Inserted
<1> QED BY <1>1, <1>2, <1>3

\* The two loops of read_write, and all of it.
LEMMA InsertRuns ==
  ASSUME NEW i \in 1 .. Len(Objects), NEW len
  PROVE  LET k == Objects[i]
             v == Object[k]
         IN Runs(<<Reset, Done("insert", k, v), Finds(k, v), Counters(i, 0)>>,
                 Db(Inserted(i - 1), i - 1, 0, len), Db(Inserted(i), i, 0, Len(v)))
<1> DEFINE k == Objects[i]  v == Object[k]
<1>1. /\ k \in Keys /\ v \in Vals /\ v # Tombstone /\ Len(v) \in Nat /\ Len(v) <= Room
      /\ i - 1 \in Nat /\ i \in Nat /\ i - 1 + 1 = i
  <2>1. Len(Objects) \in Nat
    BY TestsAssumption
  <2> QED BY <2>1, ObjectFacts
<1>2. /\ Inserted(i - 1)[k] = Tombstone /\ [Inserted(i - 1) EXCEPT ![k] = v] = Inserted(i)
      /\ Inserted(i)[k] = v
  <2>1. i <= i
    BY <1>1
  <2> QED BY <2>1, InsertedFacts
<1> HIDE DEF k, v
<1>3. Passes(Done("insert", k, v), Db(Inserted(i - 1), i - 1, 0, Room),
             Db(Inserted(i), i, 0, Room))
  <2>1. \A s, j : s[k] = Tombstone =>
          Passes(Done("insert", k, v), Db(s, j, 0, Room),
                 Db([s EXCEPT ![k] = v], j + 1, 0 + 0, Room))
    BY DonePass DEF Writes
  <2>2. Passes(Done("insert", k, v), Db(Inserted(i - 1), i - 1, 0, Room),
               Db([Inserted(i - 1) EXCEPT ![k] = v], i - 1 + 1, 0 + 0, Room))
    BY ONLY <1>2, <2>1
  <2>3. 0 + 0 = 0
    OBVIOUS
  <2> QED BY ONLY <1>1, <1>2, <2>2, <2>3
<1>4. Passes(Finds(k, v), Db(Inserted(i), i, 0, Room), Db(Inserted(i), i, 0, Len(v)))
  BY <1>1, <1>2, FindsPass
<1>5. /\ Reset \in Steps /\ Done("insert", k, v) \in Steps /\ Finds(k, v) \in Steps
      /\ Counters(i, 0) \in Steps
  <2>1. "insert" \in Writes
    BY DEF Writes
  <2> QED BY <1>1, <2>1, CallSteps, OtherKinds
<1>6. Runs(<<Reset, Done("insert", k, v), Finds(k, v), Counters(i, 0)>>,
           Db(Inserted(i - 1), i - 1, 0, len), Db(Inserted(i), i, 0, Len(v)))
  BY <1>3, <1>4, <1>5, QuietPass, RunsFour
<1> QED BY <1>6 DEF k, v

LEMMA FindRuns ==
  ASSUME NEW n \in 1 .. Len(Objects), NEW i \in 1 .. n, NEW len
  PROVE  LET k == Objects[i]
             v == Object[k]
         IN Runs(<<Reset, Finds(k, v), Counters(n, 0)>>,
                 Db(Inserted(n), n, 0, len), Db(Inserted(n), n, 0, Len(v)))
<1> DEFINE k == Objects[i]  v == Object[k]
<1>1. i \in 1 .. Len(Objects) /\ n \in Nat /\ i <= n
  BY TestsAssumption
<1>2. /\ k \in Keys /\ v \in Vals /\ v # Tombstone /\ Len(v) \in Nat /\ Len(v) <= Room
  BY <1>1, ObjectFacts
<1>3. Inserted(n)[k] = v
  BY <1>1, InsertedFacts
<1> HIDE DEF k, v
<1>4. Passes(Finds(k, v), Db(Inserted(n), n, 0, Room), Db(Inserted(n), n, 0, Len(v)))
  BY <1>2, <1>3, FindsPass
<1>5. Reset \in Steps /\ Finds(k, v) \in Steps /\ Counters(n, 0) \in Steps
  BY <1>1, <1>2, CallSteps, OtherKinds
<1>6. Runs(<<Reset, Finds(k, v), Counters(n, 0)>>,
           Db(Inserted(n), n, 0, len), Db(Inserted(n), n, 0, Len(v)))
  BY <1>4, <1>5, QuietPass, RunsThree
<1> QED BY <1>6 DEF k, v

LEMMA ObjectRuns ==
  ASSUME NEW n \in 1 .. Len(Objects), NEW js \in [1 .. n -> 1 .. n]
  PROVE  \E y : Runs(read_write(n, js), Db(NoKeys, 0, 0, 0), y)
<1> DEFINE key(i) == Objects[i]
           val(i) == Object[Objects[i]]
           insert(i) == <<Reset, Done("insert", key(i), val(i)), Finds(key(i), val(i)),
                          Counters(i, 0)>>
           find(i) == <<Reset, Finds(key(js[i]), val(js[i])), Counters(n, 0)>>
           ss == [i \in 1 .. n |-> insert(i)]
           tt == [i \in 1 .. n |-> find(i)]
           len(i) == IF i = 0 THEN 0 ELSE Len(val(i))
           last(i) == IF i = 0 THEN len(n) ELSE Len(val(js[i]))
           p == [i \in 0 .. n |-> Db(Inserted(i), i, 0, len(i))]
           q == [i \in 0 .. n |-> Db(Inserted(n), n, 0, last(i))]
<1>1. n \in Nat /\ \A i \in 1 .. n : i \in 1 .. Len(Objects)
  BY TestsAssumption
<1>2. ASSUME NEW i \in 1 .. n PROVE Runs(ss[i], p[i - 1], p[i])
  <2>1. i \in 0 .. n /\ i - 1 \in 0 .. n /\ i # 0
    BY <1>1
  <2>2. /\ ss[i] = insert(i) /\ p[i] = Db(Inserted(i), i, 0, Len(val(i)))
        /\ p[i - 1] = Db(Inserted(i - 1), i - 1, 0, len(i - 1))
    BY <2>1
  <2>3. Runs(insert(i), Db(Inserted(i - 1), i - 1, 0, len(i - 1)),
             Db(Inserted(i), i, 0, Len(val(i))))
    <3> HIDE DEF len
    <3> QED BY <1>1, InsertRuns
  <2> HIDE DEF ss, p, insert, len, val
  <2> QED BY <2>2, <2>3
<1>3. ASSUME NEW i \in 1 .. n PROVE Runs(tt[i], q[i - 1], q[i])
  <2>1. i \in 0 .. n /\ i - 1 \in 0 .. n /\ i # 0 /\ js[i] \in 1 .. n
    BY <1>1
  <2>2. /\ tt[i] = find(i) /\ q[i] = Db(Inserted(n), n, 0, Len(val(js[i])))
        /\ q[i - 1] = Db(Inserted(n), n, 0, last(i - 1))
    BY <2>1
  <2>3. Runs(find(i), Db(Inserted(n), n, 0, last(i - 1)),
             Db(Inserted(n), n, 0, Len(val(js[i]))))
    <3> HIDE DEF last
    <3> QED BY <2>1, FindRuns
  <2> HIDE DEF tt, q, find, last, val
  <2> QED BY <2>2, <2>3
<1>4. ss = [i \in 1 .. n |-> ss[i]] /\ tt = [i \in 1 .. n |-> tt[i]]
  OBVIOUS
<1>5. p[0] = Db(NoKeys, 0, 0, 0) /\ p[n] = q[0]
  <2>1. 0 \in 0 .. n /\ n \in 0 .. n
    BY <1>1
  <2> QED BY <2>1, InsertedFacts
<1>6. Runs(<<Malloc>>, Db(NoKeys, 0, 0, 0), Db(NoKeys, 0, 0, 0))
  BY QuietPass, OtherKinds, RunsOne
<1>7. read_write(n, js) = <<Malloc>> \o Seqs!FlattenSeq(ss) \o Seqs!FlattenSeq(tt)
  BY DEF read_write
<1> HIDE DEF ss, tt, p, q
<1>8. Runs(Seqs!FlattenSeq(ss), p[0], p[n]) /\ Runs(Seqs!FlattenSeq(tt), q[0], q[n])
  BY <1>1, <1>2, <1>3, <1>4, RunsAll
<1>9. Runs(<<Malloc>> \o Seqs!FlattenSeq(ss), Db(NoKeys, 0, 0, 0), q[0])
  BY <1>5, <1>6, <1>8, RunsConcat
<1>10. Runs(<<Malloc>> \o Seqs!FlattenSeq(ss) \o Seqs!FlattenSeq(tt), Db(NoKeys, 0, 0, 0), q[n])
  BY <1>8, <1>9, RunsConcat
<1> QED BY <1>7, <1>10

\* Every test passes on the map, whatever the order its objects are looked up in.
LEMMA ScriptsRun ==
  ASSUME test \in DOMAIN Scripts, script \in Scripts[test]
  PROVE  /\ \E y : Runs(script, Db(NoKeys, 0, 0, 0), y)
         /\ test = "any" => script = <<>>
<1>1. test \in {"basic_logic", "heavy_rewrite", "read_write_single", "read_write_large", "any"}
  BY DEF Scripts
<1>2. Len(Objects) \in Nat /\ 1 \in 1 .. Len(Objects) /\ Len(Objects) \in 1 .. Len(Objects)
  BY TestsAssumption
<1>3. CASE test = "basic_logic"
  BY <1>3, BasicRuns DEF Scripts
<1>4. CASE test = "heavy_rewrite"
  BY <1>4, RewriteRuns DEF Scripts
<1>5. CASE test \in {"read_write_single", "read_write_large"}
  <2>1. PICK n \in 1 .. Len(Objects) : \E js \in [1 .. n -> 1 .. n] : script = read_write(n, js)
    <3>1. CASE test = "read_write_single"
      <4>1. Scripts[test] = {read_write(1, js) : js \in [1 .. 1 -> 1 .. 1]}
        BY <3>1 DEF Scripts
      <4> QED BY <1>2, <4>1
    <3>2. CASE test = "read_write_large"
      <4> DEFINE m == Len(Objects)
      <4>1. Scripts[test] = {read_write(m, js) : js \in [1 .. m -> 1 .. m]}
        BY <3>2 DEF Scripts
      <4> HIDE DEF m
      <4>2. \E js \in [1 .. m -> 1 .. m] : script = read_write(m, js)
        BY <4>1
      <4> QED BY <1>2, <4>2 DEF m
    <3> QED BY <1>5, <3>1, <3>2
  <2> QED BY <1>5, <2>1, ObjectRuns
<1>6. CASE test = "any"
  BY <1>6, RunsNone DEF Scripts
<1> QED BY <1>1, <1>3, <1>4, <1>5, <1>6


-----------------------------------------------------------------------------
(***************************************************************************)
(* The tests on the database.  What is left of a script runs through on    *)
(* the map as it stands, a call that is under way is the first of its      *)
(* steps, and a comparison can only fail after a call that has failed.     *)
(***************************************************************************)
Now == Db(StoreMap, size, waste, val_len)

Makes(step) == step.op \notin {"counters", "reset", "malloc"}

TestInv ==
  /\ verdict = "running" => \E y : Runs(script, Now, y)
  /\ test = "any" => script = <<>>
  /\ pc \in {"index", "chain", "reread", "decide"} /\ test # "any" =>
       script # <<>> /\ Makes(Head(script)) /\ req = CallOf(Head(script))
  /\ ~Answered => verdict = "running" /\ IsOpen
  /\ verdict = "software" => reply.ret = "failed"
  /\ val_len \in Nat

\* The call a step makes.
LEMMA CallOfIs ==
  ASSUME NEW s \in Steps, Makes(s)
  PROVE  /\ s.op \in Writes \cup {"lookup", "remove", "no length", "no buffer"}
         /\ CallOf(s).key = s.key
         /\ s.op \in Writes => CallOf(s).op = s.op /\ CallOf(s).val = s.val
         /\ s.op \in {"lookup", "remove"} =>
              CallOf(s).op = s.op /\ CallOf(s).buffer.cap = val_len
         /\ s.op \in {"no length", "no buffer"} => CallOf(s).op = "lookup"
         /\ s.ret \in {"ok", "refused"}
<1>1. s \in [op : Writes \cup {"lookup", "remove", "no length", "no buffer"}, key : Keys,
             val : Vals \cup {<<>>}, ret : {"ok", "refused"}]
  BY DEF Steps, Makes
<1> QED BY <1>1 DEF CallOf, Writes

\* The length main.c gets back is one.
LEMMA LengthPasses ==
  ASSUME val_len \in Nat, NEW s \in Steps, Makes(s), NEW z, Passes(s, Now, z)
  PROVE  z.len \in Nat
<1>1. Now.len = val_len
  BY DEF Now, Db
<1>2. \/ z = Now
      \/ \E a, b, c : z = Db(a, b, c, Now.len)
      \/ Holds(s, Now) /\ \E a, b, c : z = Db(a, b, c, Len(s.val))
  BY DEF Passes, Makes, Puts
<1>3. Holds(s, Now) => Len(s.val) \in Nat
  BY ValuesAssumption DEF Holds
<1> QED BY <1>1, <1>2, <1>3 DEF Db

\* What an answer must be for the step that asked.
Right(step, y) ==
  /\ AsExpected(step, reply')
  /\ y = Db(StoreMap', size', waste',
             IF reply'.ret = "ok" /\ reply'.len # NoLen THEN reply'.len ELSE val_len)

\* Each answer, from what the call has found.
LEMMA RefusedRight ==
  ASSUME NEW s \in Steps, Makes(s), NEW y, Passes(s, Now, y), UNCHANGED database,
         req = CallOf(s), req.key \in Keys, reply' = [ret |-> "refused"],
         \/ req.op = "insert" /\ Store(req.key) # Tombstone
         \/ req.op \in {"lookup", "remove", "replace"} /\ Store(req.key) = Tombstone
  PROVE  Right(s, y)
<1>1. /\ s.op \in Writes \cup {"lookup", "remove", "no length", "no buffer"}
      /\ req.key = s.key
      /\ s.op \in Writes => req.op = s.op
      /\ s.op \in {"lookup", "remove"} => req.op = s.op
      /\ s.op \in {"no length", "no buffer"} => req.op = "lookup"
  BY CallOfIs
<1>2. Now.store[s.key] = Store(req.key)
  BY <1>1 DEF Now, Db, StoreMap
<1>3. StoreMap' = StoreMap /\ size' = size /\ waste' = waste
  BY DEF database, StoreMap, Store
<1>4. s.ret = "refused" /\ y = Now
  BY <1>1, <1>2 DEF Passes, Present, Holds, Writes, Makes
<1> QED BY <1>3, <1>4 DEF Right, AsExpected, Now

LEMMA ReportedRight ==
  ASSUME FullInv, BufferInv, pc = "decide", val_len \in Nat, req \in Calls, Live,
         NEW s \in Steps, Makes(s), NEW y, Passes(s, Now, y), req = CallOf(s),
         req.op \in {"lookup", "remove"}
  PROVE  /\ s.op = req.op /\ s.ret = "ok" /\ s.key = req.key /\ s.key \in Keys
         /\ Reported = [ret |-> "ok", len |-> Len(s.val), val |-> s.val]
         /\ Len(s.val) # NoLen
<1>1. /\ s.op \in Writes \cup {"lookup", "remove", "no length", "no buffer"}
      /\ req.key = s.key
      /\ s.op \in Writes => req.op = s.op
      /\ s.op \in {"lookup", "remove"} => req.op = s.op /\ req.buffer.cap = val_len
      /\ s.op \in {"no length", "no buffer"} => req.op = "lookup"
  BY CallOfIs
<1>2. req.key \in Keys /\ req.op \notin Writes
  BY CallTypes DEF Writes
<1>3. Now.store[s.key] = Store(req.key) /\ Now.len = val_len
  BY <1>1, <1>2 DEF Now, Db, StoreMap
<1>4. Store(req.key) # Tombstone
  BY LiveMeans DEF FullInv
<1>5. s.op \in {"lookup", "remove"} /\ s.ret = "ok" /\ Holds(s, Now)
  BY <1>1, <1>2, <1>3, <1>4 DEF Passes, Present, Writes, Makes
<1>6. /\ s.val = Store(req.key) /\ s.val \in Seq(Bytes) /\ Len(s.val) \in Nat
      /\ Len(s.val) <= val_len /\ val_len # NoLen /\ Len(s.val) # NoLen
  BY <1>3, <1>5, ValuesAssumption DEF Holds
<1>7. Reported = Map!Filled(s.val, val_len)
  BY <1>1, <1>2, <1>5, <1>6, ReportsValue
<1>8. ~(val_len < Len(s.val))
  BY <1>6
<1>9. Map!Prefix(s.val, Len(s.val)) = s.val
  BY <1>6 DEF Map!Prefix
<1>10. Reported = [ret |-> "ok", len |-> Len(s.val), val |-> s.val]
  BY <1>6, <1>7, <1>8, <1>9 DEF Map!Filled
<1> QED BY <1>1, <1>2, <1>5, <1>6, <1>10

LEMMA LookupRight ==
  ASSUME FullInv, BufferInv, Lookup, val_len \in Nat,
         NEW s \in Steps, Makes(s), NEW y, Passes(s, Now, y), req = CallOf(s)
  PROVE  Right(s, y)
<1>1. /\ pc = "decide" /\ req.op = "lookup" /\ Live /\ reply' = Reported /\ TypeOK
      /\ UNCHANGED database
  BY DEF Lookup, Return, Answer, FullInv, IInv
<1>2. req \in Calls
  BY <1>1, RequestFacts
<1>3. /\ s.op = "lookup" /\ s.ret = "ok"
      /\ Reported = [ret |-> "ok", len |-> Len(s.val), val |-> s.val]
      /\ Len(s.val) # NoLen
  BY <1>1, <1>2, ReportedRight
<1>4. StoreMap' = StoreMap /\ size' = size /\ waste' = waste
  BY <1>1 DEF database, StoreMap, Store
<1>5. y = Db(StoreMap, size, waste, Len(s.val))
  BY <1>3 DEF Passes, Now, Db, Writes
<1> QED BY <1>1, <1>3, <1>4, <1>5 DEF Right, AsExpected

LEMMA RemoveRight ==
  ASSUME FullInv, BufferInv, [Next]_vars, Remove, val_len \in Nat,
         NEW s \in Steps, Makes(s), NEW y, Passes(s, Now, y), req = CallOf(s)
  PROVE  Right(s, y)
<1>1. /\ pc = "decide" /\ req.op = "remove" /\ Live /\ reply' = Reported /\ TypeOK
      /\ Appended(Tombstone)
  BY DEF Remove, Return, Answer, FullInv, IInv
<1>2. req \in Calls
  BY <1>1, RequestFacts
<1>3. /\ s.op = "remove" /\ s.ret = "ok" /\ s.key = req.key
      /\ Reported = [ret |-> "ok", len |-> Len(s.val), val |-> s.val]
      /\ Len(s.val) # NoLen
  BY <1>1, <1>2, ReportedRight
<1>4. StoreMap' = [StoreMap EXCEPT ![s.key] = Tombstone]
  BY <1>1, <1>3, PutRefines, EmptyType DEF Tombstone
<1>5. size' = size + -1 /\ waste' = waste + 1
  BY <1>1 DEF Remove, Count
<1>6. y = Db([StoreMap EXCEPT ![s.key] = Tombstone], size + -1, waste + 1, Len(s.val))
  BY <1>3 DEF Passes, Now, Db, Puts, Writes
<1> QED BY <1>1, <1>3, <1>4, <1>5, <1>6 DEF Right, AsExpected

LEMMA WriteRight ==
  ASSUME FullInv, [Next]_vars, Write,
         NEW s \in Steps, Makes(s), NEW y, Passes(s, Now, y), req = CallOf(s)
  PROVE  Right(s, y)
<1>1. /\ pc = "decide" /\ TypeOK /\ Appended(req.val) /\ Count
      /\ reply' = [ret |-> "ok", len |-> NoLen, val |-> <<>>]
      /\ \/ req.op = "insert" /\ ~Live
         \/ req.op = "update"
         \/ req.op = "replace" /\ Live
  BY DEF Write, Return, Answer, FullInv, IInv
<1>2. req \in Calls /\ req.key \in Keys /\ req.val \in Seq(Bytes) /\ req.op \in Writes
  BY <1>1, RequestFacts, CallTypes DEF Writes
<1>3. /\ s.op \in Writes \cup {"lookup", "remove", "no length", "no buffer"}
      /\ req.key = s.key
      /\ s.op \in Writes => req.op = s.op /\ req.val = s.val
      /\ s.op \in {"lookup", "remove"} => req.op = s.op
      /\ s.op \in {"no length", "no buffer"} => req.op = "lookup"
  BY CallOfIs
<1>4. s.op \in Writes /\ req.op = s.op /\ req.val = s.val /\ req.key = s.key
  BY <1>2, <1>3 DEF Writes
<1>5. Live <=> Present(Now, s.key)
  <2>1. Now.store[s.key] = Store(req.key)
    BY <1>2, <1>4 DEF Now, Db, StoreMap
  <2> QED BY <1>1, <2>1, LiveMeans DEF FullInv, Present
<1>6. s.ret = "ok"
      /\ y = Puts(Now, s.key, s.val, IF Present(Now, s.key) THEN 0 ELSE 1,
                  IF Present(Now, s.key) THEN 1 ELSE 0, Now.len)
  BY <1>1, <1>4, <1>5 DEF Passes, Writes
<1>7. StoreMap' = [StoreMap EXCEPT ![s.key] = s.val]
  BY <1>1, <1>2, <1>4, PutRefines
<1>8. /\ size' = size + (IF Live THEN 0 ELSE 1)
      /\ waste' = waste + (IF Live THEN 1 ELSE 0)
  BY <1>1 DEF Count
<1>9. y = Db(StoreMap', size', waste', val_len)
  <2> HIDE DEF Present
  <2> QED BY <1>5, <1>6, <1>7, <1>8 DEF Puts, Now, Db
<1> QED BY <1>1, <1>4, <1>6, <1>9 DEF Right, AsExpected

\* A call that returns has failed, or its answer is the one the step expects.
LEMMA AnswersRight ==
  ASSUME FullInv, BufferInv, [Next]_vars, Index \/ ChainLookup \/ Decide, pc' = "idle",
         val_len \in Nat, NEW s \in Steps, Makes(s), NEW y, Passes(s, Now, y),
         req = CallOf(s)
  PROVE  reply' = [ret |-> "failed"] \/ Right(s, y)
<1>1. TypeOK /\ ChainsComplete /\ NewestInv /\ IInv
  BY DEF FullInv, IInv
<1>2. CASE IndexMiss
  <2>1. /\ pc = "index" /\ req.op = "lookup" /\ UNCHANGED database
        /\ Entry \in {Absent, 0} /\ reply' = [ret |-> "refused"]
    BY <1>2 DEF IndexMiss, Refused, Return, Answer
  <2>2. req \in Calls /\ req.key \in Keys /\ Hash[req.key] \in Hashes
    BY <1>1, <2>1, RequestFacts, HashType
  <2>3. IsLast(0, Hash[req.key], Len(records) + 1)
    BY <1>1, <2>1, <2>2 DEF ChainsComplete, Entry
  <2>4. Len(records) \in Nat
    BY <1>1 DEF TypeOK
  <2>5. \A i \in 1 .. Len(records) : records[i].key # req.key
    BY <2>3, <2>4 DEF IsLast
  <2>6. Store(req.key) = Tombstone
    BY <2>5, ValueNone DEF Store
  <2> QED BY <2>1, <2>2, <2>6, RefusedRight
<1>3. CASE IndexFails \/ ChainFails
  BY <1>3 DEF IndexFails, ChainFails, Failed, ReadFailed, Return, Answer
<1>4. CASE Refuse
  <2>1. /\ pc = "decide" /\ UNCHANGED database /\ reply' = [ret |-> "refused"]
        /\ \/ req.op = "insert" /\ Live
           \/ req.op \in {"lookup", "remove", "replace"} /\ ~Live
    BY <1>4 DEF Refuse, Refused, Return, Answer
  <2>2. req.key \in Keys
    BY <1>1, <2>1, RequestFacts
  <2>3. Live <=> Store(req.key) # Tombstone
    BY <1>1, <2>1, LiveMeans
  <2> QED BY <2>1, <2>2, <2>3, RefusedRight
<1>5. CASE Lookup
  BY <1>5, LookupRight
<1>6. CASE Remove
  BY <1>6, RemoveRight
<1>7. CASE Write
  BY <1>7, WriteRight
<1>8. CASE IndexHit \/ ChainRead \/ ChainReread \/ ChainEnd \/ ChainAborts
  BY <1>8 DEF IndexHit, ChainRead, ChainReread, ChainEnd, ChainAborts, NextRecord, Found
<1> QED BY <1>2, <1>3, <1>4, <1>5, <1>6, <1>7, <1>8 DEF Index, ChainLookup, Decide

AllInv == FullInv /\ BufferInv /\ TestInv

\* A step of the program is a step of the database or leaves it alone.
LEMMA ProgramSteps == [TestNext]_<<vars, driver>> => [Next]_vars
PROOF
  BY DEF TestNext, Open, OpenFails, Quiet, CompareCounters, ResetLength, AllocateBuffers,
         Ask, AskAny, Work, CloseHangs, Pass, Next, vars, driver

\* What the database stays with.
LEMMA SameNow ==
  ASSUME UNCHANGED database, UNCHANGED val_len
  PROVE  Now' = Now
  BY DEF Now, Db, StoreMap, Store, database

\* Every test begins with a script that runs through.
LEMMA TestInitially == TestInit => AllInv
PROOF
  <1>1. SUFFICES ASSUME TestInit PROVE AllInv
    OBVIOUS
  <1>2. Init /\ val_len = 0 /\ test \in DOMAIN Scripts /\ script \in Scripts[test]
        /\ verdict = "running"
    BY <1>1 DEF TestInit
  <1>3. pc = "idle" /\ size = 0 /\ waste = 0 /\ records = <<>>
    BY <1>2 DEF Init
  <1>4. StoreMap = NoKeys
    <2>1. \A k \in Keys : Store(k) = Tombstone
      BY <1>3, ValueNone DEF Store
    <2> QED BY <2>1 DEF StoreMap, NoKeys
  <1>5. Now = Db(NoKeys, 0, 0, 0)
    BY <1>2, <1>3, <1>4 DEF Now
  <1>6. TestInv
    BY <1>2, <1>3, <1>5, ScriptsRun DEF TestInv
  <1>7. QED
    BY <1>2, <1>6, FullInitially, InitRefines DEF AllInv

\* A step of a test without a call passes.
LEMMA QuietInductive ==
  ASSUME FullInv, TestInv, CompareCounters \/ ResetLength \/ AllocateBuffers
  PROVE  TestInv'
<1>1. /\ verdict = "running" /\ pc = "idle" /\ pc' = "idle" /\ script # <<>>
      /\ UNCHANGED <<vars, test>> /\ UNCHANGED database /\ reply' = reply
  BY DEF CompareCounters, ResetLength, AllocateBuffers, At, Waiting, vars, database
<1>2. test # "any" /\ test' = test /\ val_len \in Nat
  BY <1>1 DEF TestInv
<1>3. PICK y, z : /\ Head(script) \in Steps /\ Passes(Head(script), Now, z)
                  /\ Runs(Tail(script), z, y)
  BY <1>1, RunsHead DEF TestInv
<1> DEFINE s == Head(script)
<1>4. StoreMap' = StoreMap /\ size' = size /\ waste' = waste
  BY <1>1 DEF database, StoreMap, Store
<1>5. CASE CompareCounters
  <2>1. s.op = "counters" /\ val_len' = val_len
    BY <1>5 DEF CompareCounters, At
  <2>2. size = s.size /\ waste = s.waste /\ z = Now
    BY <1>3, <2>1 DEF Passes, Now, Db, Writes
  <2>3. script' = Tail(script) /\ verdict' = verdict
    BY <1>5, <2>2 DEF CompareCounters, Compare
  <2>4. Now' = Now
    BY <1>1, <2>1, SameNow
  <2> QED BY <1>1, <1>2, <1>3, <2>1, <2>2, <2>3, <2>4 DEF TestInv
<1>6. CASE ResetLength
  <2>1. s.op = "reset" /\ val_len' = Room /\ script' = Tail(script) /\ verdict' = verdict
    BY <1>6 DEF ResetLength, At
  <2>2. z = Db(StoreMap, size, waste, Room)
    BY <1>3, <2>1 DEF Passes, Now, Db, Writes
  <2>3. Now' = z
    BY <1>4, <2>1, <2>2 DEF Now
  <2>4. Room \in Nat
    BY TestsAssumption
  <2> QED BY <1>1, <1>2, <1>3, <2>1, <2>3, <2>4 DEF TestInv
<1>7. CASE AllocateBuffers
  <2>1. s.op = "malloc" /\ val_len' = val_len
    BY <1>7 DEF AllocateBuffers, At
  <2>2. z = Now /\ Now' = Now
    BY <1>1, <1>3, <2>1, SameNow DEF Passes, Writes
  <2>3. \/ script' = Tail(script) /\ verdict' = verdict
        \/ verdict' = "out of memory"
    BY <1>7 DEF AllocateBuffers
  <2> QED BY <1>1, <1>2, <1>3, <2>1, <2>2, <2>3 DEF TestInv
<1> QED BY <1>5, <1>6, <1>7

\* The call of a step, and any call of a program of its own choice.
LEMMA AskInductive ==
  ASSUME TestInv, Ask \/ AskAny
  PROVE  TestInv'
<1>1. /\ verdict = "running" /\ UNCHANGED driver /\ UNCHANGED database
      /\ pc' = "index" /\ IsOpen /\ IsOpen'
  BY DEF Ask, AskAny, Waiting, Call, IsOpen, driver
<1>2. Now' = Now
  BY <1>1, SameNow DEF driver
<1>3. test # "any" => script # <<>> /\ Makes(Head(script)) /\ req' = CallOf(Head(script))
  BY DEF Ask, AskAny, Makes
<1>4. CallOf(Head(script))' = CallOf(Head(script))
  BY <1>1 DEF driver, CallOf
<1> QED BY <1>1, <1>2, <1>3, <1>4 DEF TestInv, driver

\* A step of the database: the walk goes on, or a call returns and is compared.
LEMMA WorkInductive ==
  ASSUME FullInv, BufferInv, TestInv, [Next]_vars, Work
  PROVE  TestInv'
<1>1. /\ Index \/ ChainLookup \/ Decide
      /\ opened' = opened /\ test' = test
      /\ pc \in {"index", "chain", "reread", "decide"}
  BY DEF Work, Index, IndexMiss, IndexHit, IndexFails, ChainLookup, ChainRead, ChainReread,
         ChainEnd, ChainFails, ChainAborts, Decide, Lookup, Remove, Write, Refuse
<1>2. verdict = "running" /\ val_len \in Nat /\ IsOpen'
  BY <1>1 DEF TestInv, IsOpen
<1>3. CASE test = "any"
  <2>1. UNCHANGED <<script, val_len, verdict>> /\ script = <<>>
    BY <1>3 DEF Work, TestInv
  <2> QED BY <1>1, <1>2, <1>3, <2>1, RunsNone DEF TestInv
<1>4. CASE test # "any" /\ pc' # "idle"
  <2>1. UNCHANGED <<script, val_len, verdict>>
    BY <1>4 DEF Work
  <2>2. ~Remove /\ ~Write
    BY <1>4 DEF Remove, Write, Return
  <2>3. UNCHANGED <<records, size, waste>>
    BY <2>2, QuietSteps
  <2>4. Now' = Now
    BY <2>1, <2>3 DEF Now, Db, StoreMap, Store
  <2>5. pc' \in {"index", "chain", "reread", "decide"} => req' = req
    BY <1>1, <1>4 DEF Index, IndexMiss, IndexHit, IndexFails, ChainLookup, ChainRead,
         ChainReread, ChainEnd, ChainFails, ChainAborts, Decide, Lookup, Remove, Write, Refuse,
         ReadFailed, Refused, Failed, Return, walk
  <2>6. CallOf(Head(script))' = CallOf(Head(script))
    BY <2>1 DEF CallOf
  <2> QED BY <1>1, <1>2, <1>4, <2>1, <2>4, <2>5, <2>6 DEF TestInv
<1>5. CASE test # "any" /\ pc' = "idle"
  <2>1. script # <<>> /\ Makes(Head(script)) /\ req = CallOf(Head(script))
    BY <1>1, <1>5 DEF TestInv
  <2>2. PICK y, z : /\ Head(script) \in Steps /\ Passes(Head(script), Now, z)
                    /\ Runs(Tail(script), z, y)
    BY <1>2, <2>1, RunsHead DEF TestInv
  <2>3. reply' = [ret |-> "failed"] \/ Right(Head(script), z)
    BY <1>1, <1>2, <1>5, <2>1, <2>2, AnswersRight
  <2>4. /\ Compare(AsExpected(Head(script), reply'))
        /\ val_len' = IF reply'.ret = "ok" /\ reply'.len # NoLen THEN reply'.len
                                                                ELSE val_len
    BY <1>5 DEF Work
  <2>5. CASE Right(Head(script), z)
    <3>1. script' = Tail(script) /\ verdict' = verdict
      BY <2>4, <2>5 DEF Compare, Right
    <3>2. z = Now'
      BY <2>4, <2>5 DEF Right, Now
    <3>3. val_len' \in Nat
      <4>1. val_len' = z.len
        BY <2>4, <2>5 DEF Right, Db
      <4> QED BY <1>2, <2>1, <2>2, <4>1, LengthPasses
    <3> QED BY <1>1, <1>2, <1>5, <2>2, <3>1, <3>2, <3>3 DEF TestInv
  <2>6. CASE reply' = [ret |-> "failed"]
    <3>1. Head(script).ret \in {"ok", "refused"}
      BY <2>1, <2>2, CallOfIs
    <3>2. ~AsExpected(Head(script), reply')
      BY <2>6, <3>1 DEF AsExpected
    <3>3. script' = <<>> /\ verdict' = "software" /\ val_len' = val_len
      BY <2>4, <2>6, <3>2 DEF Compare
    <3> QED BY <1>1, <1>2, <1>5, <2>6, <3>3 DEF TestInv
  <2> QED BY <2>3, <2>5, <2>6
<1> QED BY <1>3, <1>4, <1>5

\* Opening, closing and the end of a test.
LEMMA RestInductive ==
  ASSUME TestInv, Open \/ OpenFails \/ CloseHangs \/ Pass \/ UNCHANGED <<vars, driver>>,
         FullInv
  PROVE  TestInv'
<1>1. UNCHANGED <<vars, test, script, val_len>> /\ UNCHANGED database
  BY DEF Open, OpenFails, CloseHangs, Pass, vars, driver, database
<1>2. verdict' = verdict \/ (verdict' \in {"open", "crashed", "hung", "PASS"} /\ Answered)
  BY DEF Open, OpenFails, CloseHangs, Pass, driver, Waiting, TestInv
<1>3. Now' = Now
  BY <1>1, SameNow
<1>4. CallOf(Head(script))' = CallOf(Head(script))
  BY <1>1 DEF CallOf
<1>5. ~Answered => IsOpen'
  BY DEF Open, OpenFails, CloseHangs, Pass, vars, driver, IsOpen, TestInv, Waiting
<1> QED BY <1>1, <1>2, <1>3, <1>4, <1>5 DEF TestInv, vars

LEMMA TestInductive == AllInv /\ [TestNext]_<<vars, driver>> => AllInv'
PROOF
  <1>1. SUFFICES ASSUME AllInv, [TestNext]_<<vars, driver>> PROVE AllInv'
    OBVIOUS
  <1>2. FullInv /\ BufferInv /\ TestInv /\ [Next]_vars
    BY <1>1, ProgramSteps DEF AllInv
  <1>3. FullInv' /\ BufferInv'
    BY <1>2, FullInductive, BufferInductive
  <1>4. TestInv'
    BY <1>1, <1>2, QuietInductive, AskInductive, WorkInductive, RestInductive
       DEF TestNext, Quiet
  <1>5. QED
    BY <1>3, <1>4 DEF AllInv

\* The tests pass: whatever keys collide, a test that does not print PASS has had
\* a call fail under it.  Each comparison of an answer, of a length, of a value and
\* of the two counters holds, for every number of rewrites and of objects.
THEOREM TestsCorrect == TestSpec => []TestsPass
PROOF
  <1>1. AllInv => TestsPass
    BY DEF AllInv, TestInv, TestsPass
  <1>2. QED
    BY <1>1, TestInitially, TestInductive, PTL DEF TestSpec
=============================================================================
