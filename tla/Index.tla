------------------------------- MODULE Index -------------------------------
(***************************************************************************)
(* p4/index.c: an open-addressed hash table from hashes to log offsets.    *)
(* Slots are probed one after the other from the hash on, entries are      *)
(* never removed, and a table that is too full is rebuilt in a larger one  *)
(* before an update.  kvdb.c keeps the pointer index_update returns until  *)
(* it has appended to the log, and then stores the new offset through it.  *)
(***************************************************************************)
EXTENDS Naturals, FiniteSets

CONSTANTS
  HashValues,  \* what hash() returns for the keys in use
  Width,       \* 2^64: sums of uint64_t are taken modulo Width
  Extra,       \* 97: what grow adds to the capacity
  Offsets,     \* log offsets the caller stores
  Absent,      \* what index_lookup returns for NULL
  MayFail      \* whether malloc may fail

ASSUME HashAssumption == HashValues \subseteq 0 .. Width - 1 /\ Width \in Nat /\ Width > 1

ASSUME ExtraAssumption == Extra \in Nat \ {0}

ASSUME OffsetAssumption ==
  Offsets \subseteq Nat /\ Absent \notin Nat /\ MayFail \in BOOLEAN

VARIABLES
  index,   \* struct index: size, capacity, maps
  index_,  \* the table grow builds
  i,       \* its loop variable
  pc,      \* where index_update is; "held" while the caller has the pointer
  key,     \* the hash index_update was called with
  ref,     \* the slot it returned
  reply    \* what the last call let the caller read

vars == <<index, index_, i, pc, key, ref, reply>>

Free == [key |-> 0, off |-> 0]
NoKey == 0
Failed == [ok |-> FALSE]
Answer(off) == [ok |-> TRUE, off |-> off]

\* 0 marks a free slot: index_update and index_lookup rename that hash.
Renamed(h) == IF h = 0 THEN 1 ELSE h

Hashes == {Renamed(h) : h \in HashValues}

\* Slip: there is one slot less than capacity says.
createShort(capacity) ==
  [size |-> 0, capacity |-> capacity + 1, maps |-> [j \in 0 .. capacity - 1 |-> Free]]

create(capacity) ==
  [size |-> 0, capacity |-> capacity, maps |-> [j \in 0 .. capacity - 1 |-> Free]]

Init ==
  /\ index = create(0) /\ index_ = create(0) /\ i = 0
  /\ pc = "idle" /\ key = NoKey /\ ref = 0 /\ reply = Failed

(***************************************************************************)
(* update: the slots of a hash in the order it probes them, the first that *)
(* is free or has the hash, and the table with the hash in it.             *)
(***************************************************************************)
At(t, k, n) == ((k + n) % Width) % t.capacity

\* Slip: only a free slot ends the search.
ReachesFree(t, k, n) ==
  /\ n \in 0 .. t.capacity - 1
  /\ t.maps[At(t, k, n)].key = 0
  /\ \A m \in 0 .. n - 1 : t.maps[At(t, k, m)].key # 0

Reaches(t, k, n) ==
  /\ n \in 0 .. t.capacity - 1
  /\ t.maps[At(t, k, n)].key \in {0, k}
  /\ \A m \in 0 .. n - 1 : t.maps[At(t, k, m)].key \notin {0, k}

Fits(t, k) == \E n \in 0 .. t.capacity - 1 : Reaches(t, k, n)

slot(t, k) == At(t, k, CHOOSE n \in 0 .. t.capacity - 1 : Reaches(t, k, n))

update(t, k) ==
  IF t.maps[slot(t, k)].key = k THEN t
  ELSE [t EXCEPT !.maps[slot(t, k)] = [key |-> k, off |-> 0], !.size = @ + 1]

\* The same with an offset stored through the returned pointer.
Put(t, k, off) == [update(t, k) EXCEPT !.maps[slot(t, k)].off = off]

Call ==
  /\ pc = "idle"
  /\ \E h \in HashValues : key' = Renamed(h)
  /\ pc' = "grow"
  /\ UNCHANGED <<index, index_, i, ref, reply>>

\* Slip: only the first update makes a table.
LoadedOnce(t) == t.capacity = 0

\* The load is above 0.70; a table without slots counts as full.
Loaded(t) == t.capacity = 0 \/ 10 * t.size > 7 * t.capacity

GrowSkip ==
  /\ pc = "grow" /\ ~Loaded(index)
  /\ pc' = "update"
  /\ UNCHANGED <<index, index_, i, key, ref, reply>>

GrowCreate ==
  /\ pc = "grow" /\ Loaded(index)
  /\ index_' = create(((index.capacity + Extra) * 3) \div 2)
  /\ i' = 0
  /\ pc' = "rehash"
  /\ UNCHANGED <<index, key, ref, reply>>

GrowFails ==
  /\ pc = "grow" /\ Loaded(index) /\ MayFail
  /\ pc' = "idle" /\ key' = NoKey /\ reply' = Failed
  /\ UNCHANGED <<index, index_, i, ref>>

\* Slip: an entry moves without its offset.
RehashedBare == index_' = update(index_, index.maps[i].key)

Rehashed == index_' = Put(index_, index.maps[i].key, index.maps[i].off)

Rehash ==
  /\ pc = "rehash" /\ i < index.capacity
  /\ \/ index.maps[i].key = 0 /\ UNCHANGED index_
     \/ index.maps[i].key # 0 /\ Fits(index_, index.maps[i].key) /\ Rehashed
  /\ i' = i + 1
  /\ UNCHANGED <<index, pc, key, ref, reply>>

\* destroy, and the new table takes the place of the old one.
RehashEnd ==
  /\ pc = "rehash" /\ i = index.capacity
  /\ index' = index_ /\ index_' = create(0) /\ i' = 0
  /\ pc' = "update"
  /\ UNCHANGED <<key, ref, reply>>

Update ==
  /\ pc = "update" /\ Fits(index, key)
  /\ index' = update(index, key)
  /\ ref' = slot(index, key)
  /\ reply' = Answer(index'.maps[ref'].off)
  /\ pc' = "held"
  /\ UNCHANGED <<index_, i, key>>

\* EXIT("software"): every slot that was probed is taken by another hash.
Exit ==
  /\ \/ pc = "update" /\ ~Fits(index, key)
     \/ /\ pc = "rehash" /\ i < index.capacity /\ index.maps[i].key # 0
        /\ ~Fits(index_, index.maps[i].key)
  /\ pc' = "exited"
  /\ UNCHANGED <<index, index_, i, key, ref, reply>>

(***************************************************************************)
(* The caller, mutate of kvdb.c, with the pointer: it stores the offset of *)
(* the record it appended, or it returns without one.                      *)
(***************************************************************************)
Store ==
  /\ pc = "held"
  /\ \E off \in Offsets : index' = [index EXCEPT !.maps[ref].off = off]
  /\ pc' = "idle" /\ key' = NoKey
  /\ UNCHANGED <<index_, i, ref, reply>>

Leave ==
  /\ pc = "held"
  /\ pc' = "idle" /\ key' = NoKey
  /\ UNCHANGED <<index, index_, i, ref, reply>>

\* index_lookup stops at the first free slot.
Lookup ==
  /\ pc = "idle"
  /\ \E h \in HashValues :
       LET k == Renamed(h)
       IN  reply' = Answer(IF /\ Fits(index, k)
                              /\ index.maps[slot(index, k)].key = k
                             THEN index.maps[slot(index, k)].off ELSE Absent)
  /\ UNCHANGED <<index, index_, i, pc, key, ref>>

Next ==
  \/ Call \/ GrowSkip \/ GrowCreate \/ GrowFails \/ Rehash \/ RehashEnd
  \/ Update \/ Exit \/ Store \/ Leave \/ Lookup

Spec == Init /\ [][Next]_vars

-----------------------------------------------------------------------------
(***************************************************************************)
(*                               Properties                                *)
(***************************************************************************)
Slots(t) == 0 .. t.capacity - 1

IsTable(t) ==
  /\ DOMAIN t = {"size", "capacity", "maps"}
  /\ t.size \in Nat /\ t.capacity \in Nat
  /\ t.maps \in [Slots(t) -> [key : Hashes \cup {0}, off : Nat]]

\* Both tables have the shape of struct index, and the pointer the caller
\* holds points to a slot.
TypeOK ==
  /\ IsTable(index) /\ IsTable(index_)
  /\ i \in 0 .. index.capacity
  /\ pc \in {"idle", "grow", "rehash", "update", "held", "exited"}
  /\ key \in Hashes \cup {NoKey} /\ (pc = "idle" <=> key = NoKey)
  /\ pc = "held" => ref \in Slots(index)
  /\ ref \in Nat

\* The probes of every stored hash lead to its slot, past no free one: no
\* insertion and no growth ever hides an entry from index_lookup, which stops
\* at the first free slot, and no hash is stored twice.
Reachable(t) ==
  \A j \in Slots(t) : t.maps[j].key # 0 =>
    \E n \in Slots(t) : Reaches(t, t.maps[j].key, n) /\ At(t, t.maps[j].key, n) = j

ProbesReach == Reachable(index) /\ Reachable(index_)

\* size counts the entries, and growth keeps it at one entry above the load.
LoadBounded ==
  /\ index.size = Cardinality({j \in Slots(index) : index.maps[j].key # 0})
  /\ index.size = 0 \/ 10 * (index.size - 1) <= 7 * index.capacity

\* update finds a slot and does not reach its EXIT (index.c:95), unless the
\* probes of the hash wrap around at 2^64: from there on they do not go round
\* the table any more.
FitsUnlessWrapped ==
  /\ pc = "update" => Fits(index, key) \/ key + index.capacity > Width
  /\ pc = "rehash" =>
       \A j \in i .. index.capacity - 1 :
         \/ index.maps[j].key = 0
         \/ Fits(index_, index.maps[j].key)
         \/ index.maps[j].key + index_.capacity > Width

(***************************************************************************)
(* The map of IndexMap: the entries are those of the table in use, also    *)
(* while a larger one is being built.                                      *)
(***************************************************************************)
Entry(t, k) ==
  IF \E j \in Slots(t) : t.maps[j].key = k
    THEN t.maps[CHOOSE j \in Slots(t) : t.maps[j].key = k].off
    ELSE Absent

Map == INSTANCE IndexMap
         WITH entries <- [k \in Hashes |-> Entry(index, k)],
              held <- IF pc = "held" THEN key ELSE NoKey
ImplementsMap == Map!Spec
=============================================================================
