---------------------------- MODULE IndexProofs ----------------------------
(***************************************************************************)
(* Proofs about Index for every set of hashes, growth and word width: the  *)
(* tables keep their shape, every stored hash stays where its probes find  *)
(* it, and index_update and index_lookup are those of a map.               *)
(***************************************************************************)
EXTENDS Index, ModArith, FiniteSetTheorems, TLAPS

-----------------------------------------------------------------------------
(***************************************************************************)
(*                           Probes and slots                              *)
(***************************************************************************)
LEMMA HashesAre == Hashes \subseteq Nat \ {0} /\ Width \in Nat \ {0}
<1>1. HashValues \subseteq Nat /\ Width \in Nat \ {0}
  BY HashAssumption
<1> QED BY <1>1 DEF Hashes, Renamed

LEMMA AtSlot ==
  ASSUME NEW t, t.capacity \in Nat \ {0}, NEW k \in Nat, NEW n \in Nat
  PROVE  At(t, k, n) \in Slots(t)
<1>1. (k + n) % Width \in Nat
  BY HashesAre, ModDef
<1>2. ASSUME NEW y \in Nat PROVE y % t.capacity \in 0 .. t.capacity - 1
  <2>1. y \in Int
    OBVIOUS
  <2> QED BY <2>1, ModDef
<1> QED BY <1>1, <1>2 DEF At, Slots

\* A hash reaches one slot at most, the one update chooses.
LEMMA SlotReached ==
  ASSUME NEW t, NEW k, NEW n, t.capacity \in Nat, Reaches(t, k, n)
  PROVE  /\ Fits(t, k)
         /\ slot(t, k) = At(t, k, n)
<1>1. n \in 0 .. t.capacity - 1
  BY DEF Reaches
<1>2. ASSUME NEW m \in 0 .. t.capacity - 1, Reaches(t, k, m) PROVE m = n
  <2>1. ~(m < n)
    BY <1>1, <1>2 DEF Reaches
  <2>2. ~(n < m)
    BY <1>1, <1>2 DEF Reaches
  <2> QED BY <1>1, <2>1, <2>2
<1>3. (CHOOSE m \in 0 .. t.capacity - 1 : Reaches(t, k, m)) = n
  BY <1>1, <1>2
<1> QED BY <1>1, <1>3 DEF Fits, slot

\* The slot update chooses is free or has the hash.
LEMMA SlotIs ==
  ASSUME NEW t, NEW k \in Hashes, IsTable(t), Fits(t, k)
  PROVE  /\ slot(t, k) \in Slots(t)
         /\ t.maps[slot(t, k)].key \in {0, k}
<1>1. PICK n \in 0 .. t.capacity - 1 : Reaches(t, k, n)
  BY DEF Fits
<1>2. t.capacity \in Nat /\ t.capacity \in Nat \ {0}
  BY <1>1 DEF IsTable
<1>3. slot(t, k) = At(t, k, n)
  BY <1>1, <1>2, SlotReached
<1>4. At(t, k, n) \in Slots(t)
  BY <1>1, <1>2, HashesAre, AtSlot
<1> QED BY <1>1, <1>3, <1>4 DEF Reaches

\* A stored hash is in the slot its probes lead to, and in no other.
LEMMA StoredAt ==
  ASSUME NEW t, IsTable(t), Reachable(t), NEW j \in Slots(t), t.maps[j].key # 0
  PROVE  /\ Fits(t, t.maps[j].key)
         /\ slot(t, t.maps[j].key) = j
<1>1. PICK n \in Slots(t) : /\ Reaches(t, t.maps[j].key, n)
                            /\ At(t, t.maps[j].key, n) = j
  BY DEF Reachable
<1> QED BY <1>1, SlotReached DEF IsTable

LEMMA StoredOnce ==
  ASSUME NEW t, IsTable(t), Reachable(t), NEW i1 \in Slots(t), NEW i2 \in Slots(t),
         t.maps[i1].key = t.maps[i2].key, t.maps[i1].key # 0
  PROVE  i1 = i2
BY StoredAt

\* What lookup and the abstract map read in a table.
LEMMA EntryAt ==
  ASSUME NEW t, IsTable(t), Reachable(t), NEW j \in Slots(t), t.maps[j].key # 0
  PROVE  Entry(t, t.maps[j].key) = t.maps[j].off
<1>1. \A m \in Slots(t) : t.maps[m].key = t.maps[j].key => m = j
  BY StoredOnce
<1>2. (CHOOSE m \in Slots(t) : t.maps[m].key = t.maps[j].key) = j
  BY <1>1
<1> QED BY <1>2 DEF Entry

LEMMA EntryOfSlot ==
  ASSUME NEW t, IsTable(t), Reachable(t), NEW k \in Hashes
  PROVE  Entry(t, k) = IF Fits(t, k) /\ t.maps[slot(t, k)].key = k
                         THEN t.maps[slot(t, k)].off ELSE Absent
<1>1. k # 0
  BY HashesAre
<1>2. CASE Fits(t, k) /\ t.maps[slot(t, k)].key = k
  BY <1>1, <1>2, SlotIs, EntryAt
<1>3. CASE ~(Fits(t, k) /\ t.maps[slot(t, k)].key = k)
  <2>1. \A m \in Slots(t) : t.maps[m].key # k
    BY <1>1, <1>3, StoredAt
  <2> QED BY <1>3, <2>1 DEF Entry
<1> QED BY <1>2, <1>3

-----------------------------------------------------------------------------
(***************************************************************************)
(*                   One entry is made or changed                          *)
(***************************************************************************)
Filled(u, t, k, o) ==
  /\ IsTable(u)
  /\ u.capacity = t.capacity
  /\ u.maps = [t.maps EXCEPT ![slot(t, k)] = [key |-> k, off |-> o]]

LEMMA FilledSlots ==
  ASSUME NEW t, NEW u, NEW k \in Hashes, NEW o, IsTable(t), Fits(t, k), Filled(u, t, k, o)
  PROVE  /\ Slots(u) = Slots(t)
         /\ u.maps[slot(t, k)] = [key |-> k, off |-> o]
         /\ \A j \in Slots(t) : j # slot(t, k) => u.maps[j] = t.maps[j]
         /\ \A h, n : At(u, h, n) = At(t, h, n)
BY SlotIs DEF Filled, IsTable, Slots, At

LEMMA FilledReachable ==
  ASSUME NEW t, NEW u, NEW k \in Hashes, NEW o, IsTable(t), Fits(t, k), Filled(u, t, k, o),
         Reachable(t)
  PROVE  /\ Reachable(u)
         /\ Fits(u, k) /\ slot(u, k) = slot(t, k)
<1> DEFINE s == slot(t, k)
<1>1. /\ Slots(u) = Slots(t) /\ u.capacity = t.capacity /\ u.capacity \in Nat
      /\ u.maps[s] = [key |-> k, off |-> o]
      /\ \A j \in Slots(t) : j # s => u.maps[j] = t.maps[j]
      /\ \A h, n : At(u, h, n) = At(t, h, n)
  BY FilledSlots DEF Filled, IsTable
<1>2. s \in Slots(t) /\ t.maps[s].key \in {0, k} /\ k # 0 /\ k \in Nat
  BY SlotIs, HashesAre
<1>3. ASSUME NEW h \in Nat, NEW n \in Slots(t) PROVE At(t, h, n) \in Slots(t)
  <2>1. t.capacity \in Nat \ {0} /\ n \in Nat
    BY DEF IsTable, Slots
  <2> QED BY <2>1, AtSlot
<1>4. PICK n \in Slots(t) : Reaches(t, k, n) /\ At(t, k, n) = s
  BY SlotReached DEF Fits, Slots, IsTable
<1>5. Reaches(u, k, n) /\ At(u, k, n) = s
  <2>1. ASSUME NEW m \in 0 .. n - 1 PROVE At(t, k, m) \in Slots(t)
    <3>1. m \in Slots(t)
      BY <1>4 DEF Slots, IsTable
    <3> QED BY <1>2, <1>3, <3>1
  <2>2. \A m \in 0 .. n - 1 : t.maps[At(t, k, m)].key \notin {0, k}
    BY <1>4 DEF Reaches
  <2>3. \A m \in 0 .. n - 1 : u.maps[At(t, k, m)].key \notin {0, k}
    BY <1>1, <1>2, <2>1, <2>2
  <2> QED BY <1>1, <1>4, <2>3 DEF Reaches, Slots
<1>6. Fits(u, k) /\ slot(u, k) = s
  BY <1>1, <1>5, SlotReached
<1>7. ASSUME NEW j \in Slots(u), u.maps[j].key # 0
      PROVE  \E m \in Slots(u) : Reaches(u, u.maps[j].key, m) /\ At(u, u.maps[j].key, m) = j
  <2>1. CASE j = s
    BY <1>1, <1>4, <1>5, <2>1
  <2>2. CASE j # s
    <3> DEFINE h == t.maps[j].key
    <3>1. u.maps[j].key = h /\ h # 0 /\ h \in Hashes /\ h \in Nat
      BY <1>1, <1>7, <2>2, HashesAre DEF IsTable
    <3>2. PICK m \in Slots(t) : Reaches(t, h, m) /\ At(t, h, m) = j
      BY <1>1, <1>7, <3>1 DEF Reachable
    <3> HIDE DEF h
    <3>3. ASSUME NEW l \in 0 .. m - 1 PROVE At(t, h, l) \in Slots(t)
      <4>1. l \in Slots(t)
        BY <3>2 DEF Slots, IsTable
      <4> QED BY <1>3, <3>1, <4>1
    <3>4. \A l \in 0 .. m - 1 : t.maps[At(t, h, l)].key \notin {0, h}
      BY <3>2 DEF Reaches
    <3>5. h # k
      BY <1>1, <1>7, <2>2, <3>1, StoredAt DEF h
    <3>6. \A l \in 0 .. m - 1 : u.maps[At(t, h, l)].key \notin {0, h}
      BY <1>1, <1>2, <3>3, <3>4, <3>5
    <3>7. Reaches(u, h, m) /\ At(u, h, m) = j
      BY <1>1, <2>2, <3>1, <3>2, <3>6 DEF Reaches, Slots
    <3> QED BY <1>1, <3>1, <3>2, <3>7
  <2> QED BY <2>1, <2>2
<1> QED BY <1>6, <1>7 DEF Reachable

LEMMA FilledEntries ==
  ASSUME NEW t, NEW u, NEW k \in Hashes, NEW o, IsTable(t), Fits(t, k), Filled(u, t, k, o),
         Reachable(t)
  PROVE  \A h \in Hashes : Entry(u, h) = IF h = k THEN o ELSE Entry(t, h)
<1> DEFINE s == slot(t, k)
<1>1. /\ Slots(u) = Slots(t)
      /\ u.maps[s] = [key |-> k, off |-> o]
      /\ \A j \in Slots(t) : j # s => u.maps[j] = t.maps[j]
  BY FilledSlots
<1>2. s \in Slots(t) /\ t.maps[s].key \in {0, k}
  BY SlotIs
<1>3. IsTable(u) /\ Reachable(u)
  BY FilledReachable DEF Filled
<1>4. Entry(u, k) = o
  BY <1>1, <1>2, <1>3, EntryAt, HashesAre
<1>5. ASSUME NEW h \in Hashes, h # k PROVE Entry(u, h) = Entry(t, h)
  <2>1. \A j \in Slots(t) : u.maps[j].key = h <=> t.maps[j].key = h
    BY <1>1, <1>2, <1>5, HashesAre
  <2>2. CASE \E j \in Slots(t) : t.maps[j].key = h
    <3>1. PICK j \in Slots(t) : t.maps[j].key = h
      BY <2>2
    <3>2. h # 0 /\ j # s /\ u.maps[j] = t.maps[j]
      BY <1>1, <1>2, <1>5, <3>1, HashesAre
    <3> QED BY <1>1, <1>3, <3>1, <3>2, EntryAt
  <2>3. CASE ~ \E j \in Slots(t) : t.maps[j].key = h
    BY <1>1, <2>1, <2>3 DEF Entry
  <2> QED BY <2>2, <2>3
<1> QED BY <1>4, <1>5

-----------------------------------------------------------------------------
(***************************************************************************)
(*            create, update and the store through the pointer             *)
(***************************************************************************)
LEMMA CreatedIs ==
  ASSUME NEW c \in Nat
  PROVE  /\ IsTable(create(c)) /\ Reachable(create(c))
         /\ \A j \in Slots(create(c)) : create(c).maps[j].key = 0
BY DEF create, IsTable, Reachable, Slots, Free

\* The offset of the entry update returns: that of the hash, or 0.
Kept(t, k) == IF t.maps[slot(t, k)].key = k THEN t.maps[slot(t, k)].off ELSE 0

LEMMA UpdateFilled ==
  ASSUME NEW t, NEW k \in Hashes, IsTable(t), Fits(t, k)
  PROVE  /\ Filled(update(t, k), t, k, Kept(t, k))
         /\ Kept(t, k) \in Nat
<1> DEFINE s == slot(t, k)
<1>1. s \in Slots(t) /\ t.maps[s] \in [key : Hashes \cup {0}, off : Nat]
  BY SlotIs DEF IsTable
<1>2. CASE t.maps[s].key = k
  <2>1. t.maps[s] = [key |-> k, off |-> t.maps[s].off]
    BY <1>1, <1>2
  <2>2. t.maps = [t.maps EXCEPT ![s] = [key |-> k, off |-> t.maps[s].off]]
    BY <1>1, <2>1 DEF IsTable
  <2> QED BY <1>1, <1>2, <2>2 DEF update, Kept, Filled
<1>3. CASE t.maps[s].key # k
  <2>1. update(t, k) = [t EXCEPT !.maps[s] = [key |-> k, off |-> 0], !.size = @ + 1]
    BY <1>3 DEF update
  <2>2. [key |-> k, off |-> 0] \in [key : Hashes \cup {0}, off : Nat]
    OBVIOUS
  <2> HIDE DEF s
  <2>3. /\ IsTable(update(t, k)) /\ update(t, k).capacity = t.capacity
        /\ update(t, k).maps = [t.maps EXCEPT ![s] = [key |-> k, off |-> 0]]
    BY <1>1, <2>1, <2>2 DEF IsTable, Slots
  <2> QED BY <1>3, <2>3 DEF Kept, Filled, s
<1> QED BY <1>2, <1>3

\* Storing through a pointer to the slot of k.
LEMMA StoreFilled ==
  ASSUME NEW t, NEW k \in Hashes, NEW off \in Nat, IsTable(t), Fits(t, k),
         t.maps[slot(t, k)].key = k
  PROVE  Filled([t EXCEPT !.maps[slot(t, k)].off = off], t, k, off)
<1> DEFINE s == slot(t, k)
           u == [t EXCEPT !.maps[s].off = off]
<1>1. s \in Slots(t) /\ t.maps[s] \in [key : Hashes \cup {0}, off : Nat]
  BY SlotIs DEF IsTable
<1>2. t.maps[s].key = k
  OBVIOUS
<1> HIDE DEF s
<1>3. [t.maps[s] EXCEPT !.off = off] = [key |-> k, off |-> off]
  BY <1>1, <1>2
<1>4. u = [t EXCEPT !.maps[s] = [key |-> k, off |-> off]]
  BY <1>3
<1> HIDE DEF u
<1>5. /\ IsTable(u) /\ u.capacity = t.capacity
      /\ u.maps = [t.maps EXCEPT ![s] = [key |-> k, off |-> off]]
  BY <1>1, <1>4 DEF IsTable, Slots
<1> QED BY <1>5 DEF Filled, s, u

LEMMA PutFilled ==
  ASSUME NEW t, NEW k \in Hashes, NEW off \in Nat, IsTable(t), Fits(t, k), Reachable(t)
  PROVE  Filled(Put(t, k, off), t, k, off)
<1> DEFINE u == update(t, k)
           v == Put(t, k, off)
<1>1. Filled(u, t, k, Kept(t, k))
  BY UpdateFilled
<1>2. /\ IsTable(u) /\ Fits(u, k) /\ slot(u, k) = slot(t, k)
      /\ u.capacity = t.capacity
  BY <1>1, FilledReachable DEF Filled
<1>3. /\ u.maps = [t.maps EXCEPT ![slot(t, k)] = [key |-> k, off |-> Kept(t, k)]]
      /\ u.maps[slot(t, k)].key = k
  <2>1. u.maps[slot(t, k)] = [key |-> k, off |-> Kept(t, k)]
    BY <1>1, FilledSlots
  <2> QED BY <1>1, <2>1 DEF Filled
<1>4. v = [u EXCEPT !.maps[slot(u, k)].off = off]
  BY <1>2 DEF Put
<1> HIDE DEF u, v
<1>5. Filled(v, u, k, off)
  BY <1>2, <1>3, <1>4, StoreFilled
<1>6. v.maps = [t.maps EXCEPT ![slot(t, k)] = [key |-> k, off |-> off]]
  BY <1>2, <1>3, <1>5 DEF Filled
<1> QED BY <1>2, <1>5, <1>6 DEF Filled, v

-----------------------------------------------------------------------------
(***************************************************************************)
(*                       The inductive invariant                           *)
(***************************************************************************)
\* While grow moves entries: those before i are in the new table, no others.
CopyInv ==
  pc = "rehash" =>
    /\ \A j \in 0 .. i - 1 : index.maps[j].key # 0 =>
         \E s \in Slots(index_) : index_.maps[s] = index.maps[j]
    /\ \A s \in Slots(index_) : index_.maps[s].key # 0 =>
         \E j \in 0 .. i - 1 : index.maps[j] = index_.maps[s]

\* The pointer the caller holds is to the slot of its hash: nothing grows or
\* moves the table before it is used.
HeldInv == pc = "held" => index.maps[ref].key = key

IInv == TypeOK /\ ProbesReach /\ CopyInv /\ HeldInv

LEMMA IInvInitially == Init => IInv
<1> SUFFICES ASSUME Init PROVE IInv
  OBVIOUS
<1>1. index = create(0) /\ index_ = create(0)
  BY DEF Init
<1>2. IsTable(index) /\ IsTable(index_) /\ ProbesReach
  BY <1>1, CreatedIs DEF ProbesReach
<1> QED BY <1>2, HashesAre DEF Init, IInv, TypeOK, CopyInv, HeldInv, NoKey, IsTable

\* growth: the table that is built, and the entry i put in it.
LEMMA CreateStep == IInv /\ GrowCreate => IInv'
<1> SUFFICES ASSUME IInv, GrowCreate PROVE IInv'
  OBVIOUS
<1>1. PICK c \in Nat : index_' = create(c)
  <2>1. index.capacity \in Nat /\ Extra \in Nat
    BY ExtraAssumption DEF IInv, TypeOK, IsTable
  <2>2. PICK x \in Nat : x = (index.capacity + Extra) * 3
    BY <2>1
  <2>3. x \div 2 \in Nat
    BY <2>2
  <2> QED BY <2>2, <2>3 DEF GrowCreate
<1>2. /\ IsTable(index_') /\ Reachable(index_')
      /\ \A j \in Slots(index_') : index_'.maps[j].key = 0
  BY <1>1, CreatedIs
<1>3. TypeOK'
  BY <1>2 DEF IInv, TypeOK, GrowCreate, IsTable
<1>4. ProbesReach'
  BY <1>2 DEF IInv, ProbesReach, GrowCreate
<1>5. CopyInv' /\ HeldInv'
  BY <1>2 DEF GrowCreate, CopyInv, HeldInv, Slots
<1> QED BY <1>3, <1>4, <1>5 DEF IInv

LEMMA RehashStep == IInv /\ Rehash => IInv'
<1> SUFFICES ASSUME IInv, Rehash PROVE IInv'
  OBVIOUS
<1>1. /\ IsTable(index) /\ Reachable(index) /\ IsTable(index_) /\ Reachable(index_)
      /\ i \in Nat /\ i \in Slots(index) /\ i' = i + 1 /\ index.capacity \in Nat
      /\ UNCHANGED <<index, pc, key, ref>> /\ pc = "rehash"
  BY DEF IInv, TypeOK, ProbesReach, Rehash, IsTable, Slots
<1>2. i' \in 0 .. index.capacity
  BY <1>1 DEF Rehash
<1>3. /\ \A j \in 0 .. i - 1 : index.maps[j].key # 0 =>
           \E s \in Slots(index_) : index_.maps[s] = index.maps[j]
      /\ \A s \in Slots(index_) : index_.maps[s].key # 0 =>
           \E j \in 0 .. i - 1 : index.maps[j] = index_.maps[s]
  BY <1>1 DEF IInv, CopyInv
<1>4. ASSUME IsTable(index_'), Reachable(index_'), CopyInv' PROVE IInv'
  BY <1>1, <1>2, <1>4 DEF IInv, TypeOK, ProbesReach, HeldInv
<1>5. CASE index.maps[i].key = 0 /\ UNCHANGED index_
  <2>1. CopyInv'
    <3>1. \A j \in 0 .. i' - 1 : j \in 0 .. i - 1 \/ j = i
      BY <1>1
    <3>2. 0 .. i - 1 \subseteq 0 .. i' - 1
      BY <1>1
    <3> QED BY <1>1, <1>3, <1>5, <3>1, <3>2 DEF CopyInv, Slots
  <2> QED BY <1>1, <1>4, <1>5, <2>1
<1>6. CASE index.maps[i].key # 0 /\ Fits(index_, index.maps[i].key) /\ Rehashed
  <2> DEFINE e == index.maps[i]
             s == slot(index_, e.key)
  <2>1. e.key \in Hashes /\ e.off \in Nat /\ e = [key |-> e.key, off |-> e.off]
    BY <1>1, <1>6 DEF IsTable
  <2>2. Filled(index_', index_, e.key, e.off)
    BY <1>1, <1>6, <2>1, PutFilled DEF Rehashed
  <2>3. /\ IsTable(index_') /\ Reachable(index_') /\ Slots(index_') = Slots(index_)
        /\ index_'.maps[s] = e
        /\ \A j \in Slots(index_) : j # s => index_'.maps[j] = index_.maps[j]
    <3>1. IsTable(index_')
      BY <2>2 DEF Filled
    <3>2. Fits(index_, e.key)
      BY <1>6
    <3> HIDE DEF e
    <3> QED BY <1>1, <2>1, <2>2, <3>1, <3>2, FilledReachable, FilledSlots
  <2>4. s \in Slots(index_) /\ index_.maps[s].key \in {0, e.key}
    BY <1>1, <1>6, <2>1, SlotIs
  <2>5. index_.maps[s].key = 0
    <3>1. SUFFICES ASSUME index_.maps[s].key # 0 PROVE FALSE
      OBVIOUS
    <3>2. PICK j \in 0 .. i - 1 : index.maps[j] = index_.maps[s]
      BY <1>3, <2>4, <3>1
    <3>3. j \in Slots(index) /\ j # i
      BY <1>1 DEF Slots
    <3> QED BY <1>1, <1>6, <2>4, <3>1, <3>2, <3>3, StoredOnce
  <2> HIDE DEF e, s
  <2>6. ASSUME NEW j \in 0 .. i' - 1, index.maps[j].key # 0
        PROVE  \E m \in Slots(index_') : index_'.maps[m] = index.maps[j]
    <3>1. CASE j = i
      BY <2>3, <2>4, <3>1 DEF e
    <3>2. CASE j # i
      <4>1. j \in 0 .. i - 1
        BY <1>1, <3>2
      <4>2. PICK m \in Slots(index_) : index_.maps[m] = index.maps[j]
        BY <1>3, <2>6, <4>1
      <4> QED BY <2>3, <2>5, <2>6, <4>2
    <3> QED BY <3>1, <3>2
  <2>7. ASSUME NEW m \in Slots(index_'), index_'.maps[m].key # 0
        PROVE  \E j \in 0 .. i' - 1 : index.maps[j] = index_'.maps[m]
    <3>1. CASE m = s
      <4>1. i \in 0 .. i' - 1
        BY <1>1
      <4> QED BY <2>3, <3>1, <4>1 DEF e
    <3>2. CASE m # s
      <4>1. PICK j \in 0 .. i - 1 : index.maps[j] = index_.maps[m]
        BY <1>3, <2>3, <2>7, <3>2
      <4>2. j \in 0 .. i' - 1
        BY <1>1
      <4> QED BY <2>3, <3>2, <4>1, <4>2
    <3> QED BY <3>1, <3>2
  <2>8. CopyInv'
    BY <1>1, <2>6, <2>7 DEF CopyInv
  <2> QED BY <1>4, <2>3, <2>8
<1> QED BY <1>5, <1>6 DEF Rehash

LEMMA UpdateStep ==
  ASSUME IInv, Update
  PROVE  /\ IInv'
         /\ key \in Hashes /\ Filled(index', index, key, Kept(index, key))
         /\ reply' = Answer(Kept(index, key))
<1>1. /\ IsTable(index) /\ Reachable(index) /\ IsTable(index_) /\ Reachable(index_)
      /\ key \in Hashes /\ Fits(index, key)
  BY DEF IInv, TypeOK, ProbesReach, Update, NoKey
<1>2. Filled(index', index, key, Kept(index, key))
  BY <1>1, UpdateFilled DEF Update
<1>3. /\ IsTable(index') /\ Reachable(index') /\ Slots(index') = Slots(index)
      /\ index'.capacity = index.capacity
      /\ index'.maps[slot(index, key)] = [key |-> key, off |-> Kept(index, key)]
  <2>1. IsTable(index') /\ index'.capacity = index.capacity
    BY <1>2 DEF Filled
  <2>2. Reachable(index')
    BY <1>1, <1>2, FilledReachable
  <2>3. /\ Slots(index') = Slots(index)
        /\ index'.maps[slot(index, key)] = [key |-> key, off |-> Kept(index, key)]
    BY <1>1, <1>2, FilledSlots
  <2> QED BY <1>1, <2>1, <2>2, <2>3
<1>4. ref' = slot(index, key) /\ ref' \in Slots(index)
  BY <1>1, SlotIs DEF Update
<1>5. ref' \in Nat
  BY <1>4 DEF Slots
<1>6. TypeOK'
  BY <1>1, <1>3, <1>4, <1>5, HashesAre DEF IInv, TypeOK, Update, NoKey
<1>7. ProbesReach'
  BY <1>1, <1>3 DEF ProbesReach, Update
<1>8. CopyInv' /\ HeldInv'
  BY <1>3, <1>4 DEF CopyInv, HeldInv, Update
<1>9. reply' = Answer(Kept(index, key))
  BY <1>3, <1>4 DEF Update
<1> QED BY <1>1, <1>2, <1>6, <1>7, <1>8, <1>9 DEF IInv

LEMMA StoreStep ==
  ASSUME IInv, Store
  PROVE  /\ IInv'
         /\ key \in Hashes
         /\ \E off \in Offsets : Filled(index', index, key, off)
<1>1. PICK off \in Offsets : index' = [index EXCEPT !.maps[ref].off = off]
  BY DEF Store
<1>2. /\ IsTable(index) /\ Reachable(index) /\ IsTable(index_) /\ Reachable(index_)
      /\ key \in Hashes /\ ref \in Slots(index) /\ index.maps[ref].key = key
      /\ off \in Nat /\ key # 0
  BY OffsetAssumption, HashesAre DEF IInv, TypeOK, ProbesReach, HeldInv, Store, NoKey
<1>3. Fits(index, key) /\ slot(index, key) = ref
  BY <1>2, StoredAt
<1>4. Filled(index', index, key, off)
  BY <1>1, <1>2, <1>3, StoreFilled
<1>5. IsTable(index') /\ Reachable(index') /\ index'.capacity = index.capacity
  BY <1>2, <1>3, <1>4, FilledReachable DEF Filled
<1>6. TypeOK' /\ ProbesReach' /\ CopyInv' /\ HeldInv'
  BY <1>2, <1>5 DEF IInv, TypeOK, ProbesReach, CopyInv, HeldInv, Store, NoKey
<1> QED BY <1>2, <1>4, <1>6 DEF IInv

LEMMA EndStep == IInv /\ RehashEnd => IInv'
<1> SUFFICES ASSUME IInv, RehashEnd PROVE IInv'
  OBVIOUS
<1>1. /\ index' = index_ /\ index_' = create(0) /\ i' = 0 /\ pc' = "update"
      /\ UNCHANGED <<key, ref>>
  BY DEF RehashEnd
<1>2. /\ IsTable(index_) /\ Reachable(index_)
      /\ IsTable(index_') /\ Reachable(index_')
  BY <1>1, CreatedIs DEF IInv, TypeOK, ProbesReach
<1>3. TypeOK'
  BY <1>1, <1>2 DEF IInv, TypeOK, IsTable, RehashEnd
<1> QED BY <1>1, <1>2, <1>3 DEF IInv, ProbesReach, CopyInv, HeldInv

LEMMA IInvInductive == IInv /\ [Next]_vars => IInv'
<1> SUFFICES ASSUME IInv, [Next]_vars PROVE IInv'
  OBVIOUS
<1>1. CASE Call
  <2>1. key' \in Hashes
    BY <1>1 DEF Call, Hashes
  <2> QED BY <1>1, <2>1, HashesAre DEF IInv, TypeOK, ProbesReach, CopyInv, HeldInv, Call, NoKey
<1>2. CASE GrowSkip \/ GrowFails \/ Exit
  BY <1>2 DEF IInv, TypeOK, ProbesReach, CopyInv, HeldInv, GrowSkip, GrowFails, Exit, NoKey
<1>3. CASE Leave \/ Lookup
  BY <1>3 DEF IInv, TypeOK, ProbesReach, CopyInv, HeldInv, Leave, Lookup, NoKey
<1>4. CASE UNCHANGED vars
  BY <1>4 DEF IInv, TypeOK, ProbesReach, CopyInv, HeldInv, vars
<1> QED BY <1>1, <1>2, <1>3, <1>4, CreateStep, RehashStep, EndStep, UpdateStep, StoreStep
        DEF Next

LEMMA IInvHolds == Spec => []IInv
BY IInvInitially, IInvInductive, PTL DEF Spec

\* Both tables have the shape of struct index in every reachable state, and
\* the pointer the caller holds points to a slot of the table in use.
THEOREM TypeCorrect == Spec => []TypeOK
<1>1. IInv => TypeOK
  BY DEF IInv
<1> QED BY <1>1, IInvHolds, PTL

\* Whatever hashes are stored and however often the table grows, no entry is
\* ever hidden from index_lookup and no hash has two entries.
THEOREM ProbesCorrect == Spec => []ProbesReach
<1>1. IInv => ProbesReach
  BY DEF IInv
<1> QED BY <1>1, IInvHolds, PTL

-----------------------------------------------------------------------------
(***************************************************************************)
(*                     Index implements IndexMap                           *)
(***************************************************************************)
\* A table with one entry made or changed, as the map sees it.
LEMMA FilledMap ==
  ASSUME IInv, NEW k \in Hashes, NEW o, Fits(index, k), Filled(index', index, k, o)
  PROVE  [h \in Hashes |-> Entry(index, h)]'
           = [[h \in Hashes |-> Entry(index, h)] EXCEPT ![k] = o]
<1>1. \A h \in Hashes : Entry(index', h) = IF h = k THEN o ELSE Entry(index, h)
  BY FilledEntries DEF IInv, TypeOK, ProbesReach
<1>2. \A h \in Hashes : Entry(index, h)' = Entry(index', h)
  BY DEF Entry, Slots
<1> QED BY <1>1, <1>2

LEMMA GrownMap ==
  ASSUME IInv, RehashEnd
  PROVE  \A h \in Hashes : Entry(index, h)' = Entry(index, h)
<1>1. /\ IsTable(index) /\ Reachable(index) /\ IsTable(index_) /\ Reachable(index_)
      /\ index' = index_ /\ i = index.capacity
      /\ \A j \in 0 .. i - 1 : index.maps[j].key # 0 =>
           \E s \in Slots(index_) : index_.maps[s] = index.maps[j]
      /\ \A s \in Slots(index_) : index_.maps[s].key # 0 =>
           \E j \in 0 .. i - 1 : index.maps[j] = index_.maps[s]
  BY DEF IInv, TypeOK, ProbesReach, CopyInv, RehashEnd
<1>2. 0 .. i - 1 = Slots(index)
  BY <1>1 DEF Slots
<1>3. ASSUME NEW h \in Hashes PROVE Entry(index_, h) = Entry(index, h)
  <2>1. h # 0
    BY HashesAre
  <2>2. CASE \E j \in Slots(index) : index.maps[j].key = h
    <3>1. PICK j \in Slots(index) : index.maps[j].key = h
      BY <2>2
    <3>2. PICK s \in Slots(index_) : index_.maps[s] = index.maps[j]
      BY <1>1, <1>2, <2>1, <3>1
    <3> QED BY <1>1, <2>1, <3>1, <3>2, EntryAt
  <2>3. CASE ~ \E j \in Slots(index) : index.maps[j].key = h
    <3>1. ASSUME NEW s \in Slots(index_), index_.maps[s].key = h PROVE FALSE
      <4>1. PICK j \in 0 .. i - 1 : index.maps[j] = index_.maps[s]
        BY <1>1, <2>1, <3>1
      <4> QED BY <1>2, <2>3, <3>1, <4>1
    <3> QED BY <2>3, <3>1 DEF Entry
  <2> QED BY <2>2, <2>3
<1>4. \A h \in Hashes : Entry(index, h)' = Entry(index', h)
  BY DEF Entry, Slots
<1> QED BY <1>1, <1>3, <1>4

\* The offset update keeps is the one the map keeps.
LEMMA KeptIs ==
  ASSUME IInv, NEW k \in Hashes, Fits(index, k)
  PROVE  Kept(index, k) = IF Entry(index, k) = Absent THEN 0 ELSE Entry(index, k)
<1>1. Entry(index, k) = IF index.maps[slot(index, k)].key = k
                          THEN index.maps[slot(index, k)].off ELSE Absent
  BY EntryOfSlot DEF IInv, TypeOK, ProbesReach
<1>2. index.maps[slot(index, k)].off \in Nat
  BY SlotIs DEF IInv, TypeOK, IsTable
<1> QED BY <1>1, <1>2, OffsetAssumption DEF Kept

LEMMA StepRefines == IInv /\ [Next]_vars => [Map!Next]_Map!vars
<1> SUFFICES ASSUME IInv, [Next]_vars PROVE [Map!Next]_Map!vars
  OBVIOUS
<1> DEFINE E == [h \in Hashes |-> Entry(index, h)]
           H == IF pc = "held" THEN key ELSE NoKey
<1>1. ASSUME UNCHANGED index PROVE E' = E
  BY <1>1 DEF Entry, Slots
<1>2. ASSUME E' = E, UNCHANGED <<pc, key, reply>> \/ (pc # "held" /\ pc' # "held"),
             UNCHANGED reply
      PROVE  UNCHANGED Map!vars
  BY <1>2 DEF Map!vars
<1>3. pc # "held" => H = Map!NoHash
  BY DEF Map!NoHash, NoKey
<1>4. pc' # "held" => H' = Map!NoHash
  BY DEF Map!NoHash, NoKey
<1>5. pc = "held" => H # Map!NoHash /\ H \in Hashes /\ H = key
  BY DEF IInv, TypeOK, Map!NoHash, NoKey
<1>6. CASE Call \/ GrowSkip \/ GrowCreate \/ Rehash \/ Exit \/ UNCHANGED vars
  <2>1. E' = E
    BY <1>1, <1>6 DEF Call, GrowSkip, GrowCreate, Rehash, Exit, vars
  <2>2. UNCHANGED reply /\ (UNCHANGED <<pc, key, reply>> \/ (pc # "held" /\ pc' # "held"))
    BY <1>6 DEF Call, GrowSkip, GrowCreate, Rehash, Exit, vars
  <2> QED BY <1>2, <2>1, <2>2
<1>7. CASE GrowFails
  <2>1. E' = E
    BY <1>1, <1>7 DEF GrowFails
  <2> QED BY <1>3, <1>4, <1>7, <2>1 DEF GrowFails, Map!Next, Map!Fail, Failed, Map!Failed
<1>8. CASE RehashEnd
  <2>1. E' = E
    BY <1>8, GrownMap
  <2> QED BY <1>2, <1>8, <2>1 DEF RehashEnd
<1>9. CASE Update
  <2>1. /\ key \in Hashes /\ Fits(index, key) /\ pc = "update" /\ pc' = "held" /\ key' = key
        /\ reply' = Answer(Kept(index, key)) /\ Filled(index', index, key, Kept(index, key))
    BY <1>9, UpdateStep DEF Update
  <2>2. E' = [E EXCEPT ![key] = Kept(index, key)]
    BY <2>1, FilledMap
  <2>3. Kept(index, key) = IF E[key] = Absent THEN 0 ELSE E[key]
    BY <2>1, KeptIs
  <2>4. H = Map!NoHash /\ H' = key
    BY <1>3, <2>1
  <2>5. Map!Update(key)
    BY <2>1, <2>2, <2>3, <2>4 DEF Map!Update, Map!Offset, Answer, Map!Answer
  <2> QED BY <2>1, <2>5 DEF Map!Next
<1>10. CASE Store
  <2>1. PICK off \in Offsets : key \in Hashes /\ Filled(index', index, key, off)
    BY <1>10, StoreStep
  <2>2. pc = "held" /\ pc' = "idle" /\ UNCHANGED reply
    BY <1>10 DEF Store
  <2>3. Fits(index, key)
    BY <2>1, <2>2, StoredAt, HashesAre DEF IInv, TypeOK, ProbesReach, HeldInv
  <2>4. E' = [E EXCEPT ![key] = off]
    BY <2>1, <2>3, FilledMap
  <2>5. Map!Store(off)
    BY <1>4, <1>5, <2>2, <2>4 DEF Map!Store
  <2> QED BY <2>1, <2>5 DEF Map!Next
<1>11. CASE Leave
  <2>1. E' = E
    BY <1>1, <1>11 DEF Leave
  <2> QED BY <1>4, <1>5, <1>11, <2>1 DEF Leave, Map!Next, Map!Leave
<1>12. CASE Lookup
  <2>1. PICK h \in HashValues :
          reply' = Answer(IF /\ Fits(index, Renamed(h))
                             /\ index.maps[slot(index, Renamed(h))].key = Renamed(h)
                            THEN index.maps[slot(index, Renamed(h))].off ELSE Absent)
    BY <1>12 DEF Lookup
  <2>2. Renamed(h) \in Hashes
    BY DEF Hashes
  <2>3. reply' = Answer(E[Renamed(h)])
    BY <2>1, <2>2, EntryOfSlot DEF IInv, TypeOK, ProbesReach
  <2>4. E' = E /\ H = Map!NoHash /\ H' = H
    BY <1>1, <1>3, <1>4, <1>12 DEF Lookup
  <2>5. Map!Lookup(Renamed(h))
    BY <2>2, <2>3, <2>4 DEF Map!Lookup, Answer, Map!Answer
  <2> QED BY <2>2, <2>5 DEF Map!Next
<1> QED BY <1>6, <1>7, <1>8, <1>9, <1>10, <1>11, <1>12 DEF Next

LEMMA InitRefines == Init => Map!Init
<1> SUFFICES ASSUME Init PROVE Map!Init
  OBVIOUS
<1>1. \A h \in Hashes : Entry(index, h) = Absent
  BY CreatedIs, HashesAre DEF Init, Entry
<1> QED BY <1>1 DEF Init, Map!Init, Map!NoHash, NoKey, Map!Failed, Failed

\* The hash table is a map from hashes to offsets, whatever collides and
\* whenever it grows: probing and growth never show.
THEOREM RefinesMap == Spec => ImplementsMap
BY IInvHolds, InitRefines, StepRefines, PTL DEF Spec, ImplementsMap, Map!Spec

-----------------------------------------------------------------------------
(***************************************************************************)
(*                    The load, and update's EXIT                          *)
(***************************************************************************)
Used(t) == {j \in Slots(t) : t.maps[j].key # 0}
Counted(t) == t.size = Cardinality(Used(t))

LEMMA UsedFinite ==
  ASSUME NEW t, IsTable(t)
  PROVE  /\ IsFiniteSet(Used(t)) /\ Cardinality(Used(t)) \in Nat
         /\ Cardinality(Used(t)) <= t.capacity
         /\ Cardinality(Used(t)) = t.capacity => Used(t) = Slots(t)
<1>1. /\ IsFiniteSet(Slots(t))
      /\ Cardinality(Slots(t)) = t.capacity
  <2>1. t.capacity \in Nat /\ 0 \in Int /\ t.capacity - 1 \in Int
    BY DEF IsTable
  <2>2. IsFiniteSet(0 .. t.capacity - 1)
        /\ Cardinality(0 .. t.capacity - 1)
             = IF 0 > t.capacity - 1 THEN 0 ELSE t.capacity - 1 - 0 + 1
    BY <2>1, FS_Interval
  <2> QED BY <2>1, <2>2 DEF Slots
<1>2. Used(t) \in SUBSET Slots(t)
  BY DEF Used
<1>3. /\ IsFiniteSet(Used(t)) /\ Cardinality(Used(t)) <= Cardinality(Slots(t))
      /\ Cardinality(Slots(t)) = Cardinality(Used(t)) => Slots(t) = Used(t)
  BY <1>1, <1>2, FS_Subset
<1>4. Cardinality(Used(t)) \in Nat
  BY <1>3, FS_CardinalityType
<1> QED BY <1>1, <1>3, <1>4

\* update counts a new entry, and storing an offset in one counts nothing.
LEMMA UpdateCounts ==
  ASSUME NEW t, NEW k \in Hashes, IsTable(t), Fits(t, k), Counted(t)
  PROVE  /\ Counted(update(t, k))
         /\ update(t, k).size \in {t.size, t.size + 1}
<1> DEFINE s == slot(t, k)
           u == update(t, k)
<1>1. s \in Slots(t) /\ t.maps[s].key \in {0, k} /\ k # 0
  BY SlotIs, HashesAre
<1>2. CASE t.maps[s].key = k
  BY <1>2 DEF update
<1>3. CASE t.maps[s].key # k
  <2>1. /\ Slots(u) = Slots(t)
        /\ u.maps[s].key = k
        /\ \A j \in Slots(t) : j # s => u.maps[j] = t.maps[j]
    <3>1. Filled(u, t, k, Kept(t, k))
      BY UpdateFilled
    <3>2. /\ Slots(u) = Slots(t)
          /\ u.maps[s] = [key |-> k, off |-> Kept(t, k)]
          /\ \A j \in Slots(t) : j # s => u.maps[j] = t.maps[j]
      BY <3>1, FilledSlots
    <3> HIDE DEF u, s
    <3> QED BY <3>2
  <2>2. u.size = t.size + 1
    <3>1. u = [t EXCEPT !.maps[s] = [key |-> k, off |-> 0], !.size = @ + 1]
      BY <1>3 DEF update
    <3> HIDE DEF u, s
    <3> QED BY <3>1 DEF IsTable
  <2> HIDE DEF u, s
  <2>3. Used(u) = Used(t) \cup {s} /\ s \notin Used(t)
    BY <1>1, <1>3, <2>1 DEF Used
  <2>4. Cardinality(Used(u)) = Cardinality(Used(t)) + 1
    BY <2>3, UsedFinite, FS_AddElement
  <2> QED BY <2>2, <2>4 DEF Counted, u
<1> QED BY <1>2, <1>3

LEMMA StoreCounts ==
  ASSUME NEW t, NEW s \in Slots(t), NEW off, IsTable(t), Counted(t)
  PROVE  /\ Counted([t EXCEPT !.maps[s].off = off])
         /\ [t EXCEPT !.maps[s].off = off].size = t.size
<1> DEFINE u == [t EXCEPT !.maps[s].off = off]
<1>1. t.maps[s] \in [key : Hashes \cup {0}, off : Nat]
  BY DEF IsTable
<1>2. /\ u.capacity = t.capacity /\ u.size = t.size
      /\ u.maps = [t.maps EXCEPT ![s].off = off]
  BY DEF IsTable
<1>3. \A j \in Slots(t) : u.maps[j].key = t.maps[j].key
  BY <1>1, <1>2 DEF IsTable
<1> HIDE DEF u
<1>4. Used(u) = Used(t)
  BY <1>2, <1>3 DEF Used, Slots
<1> QED BY <1>2, <1>4 DEF Counted, u

LEMMA PutCounts ==
  ASSUME NEW t, NEW k \in Hashes, NEW off, IsTable(t), Fits(t, k), Counted(t)
  PROVE  /\ Counted(Put(t, k, off))
         /\ Put(t, k, off).size \in {t.size, t.size + 1}
<1> DEFINE u == update(t, k)
<1>1. Filled(u, t, k, Kept(t, k))
  BY UpdateFilled
<1>2. IsTable(u) /\ slot(t, k) \in Slots(u)
  <2>1. IsTable(u)
    BY <1>1 DEF Filled
  <2>2. Slots(u) = Slots(t)
    BY <1>1, FilledSlots
  <2> QED BY <2>1, <2>2, SlotIs
<1>3. Counted(u) /\ u.size \in {t.size, t.size + 1}
  BY UpdateCounts
<1>4. Put(t, k, off) = [u EXCEPT !.maps[slot(t, k)].off = off]
  BY DEF Put
<1> HIDE DEF u
<1> QED BY <1>2, <1>3, <1>4, StoreCounts

\* Probes that do not wrap at Width go round the whole table.
LEMMA ProbesCover ==
  ASSUME NEW t, t.capacity \in Nat \ {0}, NEW k \in Nat, k + t.capacity <= Width,
         NEW j \in Slots(t)
  PROVE  \E n \in Slots(t) : At(t, k, n) = j
<1>1. PICK c \in Nat \ {0} : c = t.capacity
  OBVIOUS
<1>2. j \in 0 .. c - 1 /\ Width \in Nat \ {0} /\ j - k \in Int
  BY <1>1, HashesAre DEF Slots
<1>3. PICK n \in 0 .. c - 1 : n = (j - k) % c
  BY <1>2, ModDef
<1>4. (k + n) % Width = k + n
  <2>1. k + n \in 0 .. Width - 1
    BY <1>1, <1>2, <1>3
  <2> QED BY <1>2, <2>1, ModSmall
<1>5. (n + k) % c = j
  <2>1. (((j - k) % c) + k) % c = ((j - k) + k) % c
    <3>1. PICK x \in Int : x = j - k
      BY <1>2
    <3>2. k \in Int
      OBVIOUS
    <3>3. ((x % c) + k) % c = (x + k) % c
      BY <3>2, ModAdd
    <3> QED BY <3>1, <3>3
  <2>2. (j - k) + k = j
    BY <1>2
  <2>3. j % c = j
    BY <1>2, ModSmall
  <2> QED BY <1>3, <2>1, <2>2, <2>3
<1>6. k + n = n + k
  BY <1>3
<1> QED BY <1>1, <1>3, <1>4, <1>5, <1>6 DEF At, Slots

\* A table with a free slot has room for a hash whose probes do not wrap.
LEMMA RoomFits ==
  ASSUME NEW t, IsTable(t), Counted(t), t.size < t.capacity,
         NEW k \in Nat, k + t.capacity <= Width
  PROVE  Fits(t, k)
<1>1. t.capacity \in Nat \ {0}
  BY DEF IsTable
<1>2. PICK j \in Slots(t) : t.maps[j].key = 0
  <2>1. Used(t) # Slots(t)
    <3>1. SUFFICES ASSUME Used(t) = Slots(t) PROVE FALSE
      OBVIOUS
    <3>2. PICK b \in Int : b = t.capacity - 1
      BY <1>1
    <3>3. Cardinality(0 .. t.capacity - 1) = t.capacity
      <4>1. Cardinality(0 .. b) = IF 0 > b THEN 0 ELSE b - 0 + 1
        BY FS_Interval
      <4> QED BY <1>1, <3>2, <4>1
    <3>4. Cardinality(Used(t)) = t.capacity
      BY <3>1, <3>3 DEF Slots
    <3> QED BY <1>1, <3>4 DEF Counted
  <2> QED BY <2>1 DEF Used
<1> DEFINE S == {n \in Slots(t) : t.maps[At(t, k, n)].key \in {0, k}}
<1>3. S # {}
  BY <1>1, <1>2, ProbesCover
<1>4. S \subseteq Nat
  BY <1>1 DEF Slots
<1>5. PICK n \in S : \A m \in S : n <= m
  BY <1>3, <1>4, LeastNatural
<1>6. \A m \in 0 .. n - 1 : m \in Slots(t) /\ m < n
  BY <1>1, <1>5 DEF Slots
<1>7. n \in 0 .. t.capacity - 1 /\ Reaches(t, k, n)
  BY <1>5, <1>6 DEF Reaches, Slots
<1> QED BY <1>7 DEF Fits

\* A new table is so large that the load is low when all entries are in it.
LEMMA Growth ==
  ASSUME NEW c \in Nat
  PROVE  /\ ((c + Extra) * 3) \div 2 \in Nat
         /\ c < ((c + Extra) * 3) \div 2
         /\ 10 * c <= 7 * (((c + Extra) * 3) \div 2)
<1>1. PICK x \in Nat : x = (c + Extra) * 3
  BY ExtraAssumption
<1>2. x >= 3 * c + 3
  BY <1>1, ExtraAssumption
<1>3. PICK d \in Int : d = x \div 2
  OBVIOUS
<1>4. x = 2 * d + (x % 2) /\ x % 2 \in 0 .. 1
  BY <1>3, ModDef
<1> QED BY <1>1, <1>2, <1>3, <1>4

LoadInv ==
  /\ Counted(index) /\ Counted(index_)
  /\ index.size = 0 \/ 10 * (index.size - 1) <= 7 * index.capacity
  /\ pc = "update" => index.capacity > 0 /\ 10 * index.size <= 7 * index.capacity
  /\ pc = "rehash" => /\ index_.capacity = ((index.capacity + Extra) * 3) \div 2
                      /\ index_.size <= i

LEMMA CreatedCounts ==
  ASSUME NEW c \in Nat
  PROVE  Counted(create(c)) /\ create(c).size = 0 /\ create(c).capacity = c
<1>1. Used(create(c)) = {}
  BY CreatedIs DEF Used
<1> QED BY <1>1, FS_EmptySet DEF Counted, create

LEMMA LoadInitially == Init => LoadInv
BY CreatedCounts DEF Init, LoadInv

LEMMA LoadStep == IInv /\ LoadInv /\ [Next]_vars => LoadInv'
<1> SUFFICES ASSUME IInv, LoadInv, [Next]_vars PROVE LoadInv'
  OBVIOUS
<1>1. /\ IsTable(index) /\ IsTable(index_) /\ Reachable(index) /\ Reachable(index_)
      /\ index.size \in Nat /\ index.capacity \in Nat /\ index_.size \in Nat
      /\ i \in 0 .. index.capacity /\ Extra \in Nat
  BY ExtraAssumption DEF IInv, TypeOK, ProbesReach, IsTable
<1>2. ASSUME UNCHANGED <<index, index_>> PROVE Counted(index)' /\ Counted(index_)'
  BY <1>2 DEF LoadInv, Counted, Used, Slots
<1>3. CASE Call \/ GrowFails \/ Exit \/ Leave \/ Lookup \/ UNCHANGED vars
  <2>1. UNCHANGED <<index, index_, i>> /\ (UNCHANGED pc \/ pc' \notin {"update", "rehash"})
    BY <1>3 DEF Call, GrowFails, Exit, Leave, Lookup, vars
  <2> QED BY <1>2, <2>1 DEF LoadInv
<1>4. CASE GrowSkip
  <2>1. UNCHANGED <<index, index_, i>> /\ pc' = "update" /\ ~Loaded(index)
    BY <1>4 DEF GrowSkip
  <2>2. index.capacity > 0 /\ 10 * index.size <= 7 * index.capacity
    BY <1>1, <2>1 DEF Loaded
  <2> QED BY <1>2, <2>1, <2>2 DEF LoadInv
<1>5. CASE GrowCreate
  <2>1. PICK c \in Nat : c = ((index.capacity + Extra) * 3) \div 2
    BY <1>1, Growth
  <2>2. /\ index_' = create(c) /\ i' = 0 /\ pc' = "rehash" /\ UNCHANGED index
    BY <1>5, <2>1 DEF GrowCreate
  <2>3. Counted(create(c)) /\ create(c).size = 0 /\ create(c).capacity = c
    BY CreatedCounts
  <2>4. Counted(index)' /\ Counted(index_)'
    BY <2>2, <2>3 DEF LoadInv, Counted, Used, Slots
  <2> QED BY <2>1, <2>2, <2>3, <2>4 DEF LoadInv
<1>6. CASE Rehash
  <2>1. /\ UNCHANGED <<index, pc>> /\ i' = i + 1 /\ pc = "rehash" /\ i \in Slots(index)
    BY <1>1, <1>6 DEF Rehash, Slots
  <2>2. Counted(index_') /\ index_'.size \in {index_.size, index_.size + 1}
        /\ index_'.capacity = index_.capacity
    <3>1. CASE UNCHANGED index_
      BY <3>1 DEF LoadInv
    <3>2. CASE index.maps[i].key # 0 /\ Fits(index_, index.maps[i].key) /\ Rehashed
      <4>1. PICK k \in Hashes, off \in Nat : k = index.maps[i].key /\ off = index.maps[i].off
        BY <1>1, <2>1, <3>2 DEF IsTable
      <4>2. Fits(index_, k) /\ index_' = Put(index_, k, off)
        BY <3>2, <4>1 DEF Rehashed
      <4>3. Filled(Put(index_, k, off), index_, k, off)
        BY <1>1, <4>2, PutFilled
      <4>4. Put(index_, k, off).capacity = index_.capacity
        BY <4>3 DEF Filled
      <4>5. Counted(index_)
        BY DEF LoadInv
      <4>6. Counted(Put(index_, k, off))
            /\ Put(index_, k, off).size \in {index_.size, index_.size + 1}
        BY <1>1, <4>2, <4>5, PutCounts
      <4> QED BY <4>2, <4>4, <4>6
    <3> QED BY <1>6, <3>1, <3>2 DEF Rehash
  <2>3. Counted(index)' /\ Counted(index_)'
    BY <2>1, <2>2 DEF LoadInv, Counted, Used, Slots
  <2>4. index_'.size <= i'
    BY <1>1, <2>1, <2>2 DEF LoadInv
  <2> QED BY <2>1, <2>2, <2>3, <2>4 DEF LoadInv
<1>7. CASE RehashEnd
  <2>1. /\ index' = index_ /\ index_' = create(0) /\ pc' = "update" /\ pc = "rehash"
        /\ i = index.capacity
    BY <1>7 DEF RehashEnd
  <2>2. Counted(index)' /\ Counted(index_)'
    BY <2>1, CreatedCounts DEF LoadInv, Counted, Used, Slots
  <2>3. PICK c \in Nat : c = ((index.capacity + Extra) * 3) \div 2
                        /\ index.capacity < c /\ 10 * index.capacity <= 7 * c
    BY <1>1, Growth
  <2>4. index_.capacity = c /\ index_.size <= index.capacity
    BY <2>1, <2>3 DEF LoadInv
  <2>5. index'.capacity > 0 /\ 10 * index'.size <= 7 * index'.capacity
    BY <1>1, <2>1, <2>3, <2>4
  <2>6. index'.size = 0 \/ 10 * (index'.size - 1) <= 7 * index'.capacity
    BY <1>1, <2>1, <2>3, <2>4
  <2> QED BY <2>1, <2>2, <2>5, <2>6 DEF LoadInv
<1>8. CASE Update
  <2>1. /\ key \in Hashes /\ Fits(index, key) /\ index' = update(index, key)
        /\ pc = "update" /\ pc' = "held" /\ UNCHANGED index_
    BY <1>8 DEF Update, IInv, TypeOK, NoKey
  <2>2. Counted(index)
    BY DEF LoadInv
  <2>3. Counted(update(index, key)) /\ update(index, key).size \in {index.size, index.size + 1}
    BY <1>1, <2>1, <2>2, UpdateCounts
  <2>4. update(index, key).capacity = index.capacity
    BY <1>1, <2>1, UpdateFilled DEF Filled
  <2>5. Counted(index)' /\ Counted(index_)'
    BY <2>1, <2>3 DEF LoadInv, Counted, Used, Slots
  <2>6. index'.size = 0 \/ 10 * (index'.size - 1) <= 7 * index'.capacity
    BY <1>1, <2>1, <2>3, <2>4 DEF LoadInv
  <2> QED BY <2>1, <2>5, <2>6 DEF LoadInv
<1>9. CASE Store
  <2>1. PICK off \in Offsets : index' = [index EXCEPT !.maps[ref].off = off]
    BY <1>9 DEF Store
  <2>2. ref \in Slots(index) /\ pc' = "idle" /\ UNCHANGED index_ /\ Counted(index)
    BY <1>9 DEF Store, IInv, TypeOK, LoadInv
  <2>3. Counted(index') /\ index'.size = index.size
    BY <1>1, <2>1, <2>2, StoreCounts
  <2>4. index'.capacity = index.capacity
    BY <1>1, <2>1 DEF IsTable
  <2>5. Counted(index)' /\ Counted(index_)'
    BY <2>2, <2>3 DEF LoadInv, Counted, Used, Slots
  <2> QED BY <2>2, <2>3, <2>4, <2>5 DEF LoadInv
<1> QED BY <1>3, <1>4, <1>5, <1>6, <1>7, <1>8, <1>9 DEF Next

LEMMA LoadHolds == Spec => [](IInv /\ LoadInv)
BY IInvInitially, IInvInductive, LoadInitially, LoadStep, PTL DEF Spec

\* size counts the entries, and the table never holds more than one entry
\* above the load.
THEOREM LoadCorrect == Spec => []LoadBounded
<1>1. LoadInv => LoadBounded
  BY DEF LoadInv, LoadBounded, Counted, Used
<1> QED BY <1>1, LoadHolds, PTL

\* update reaches its EXIT only with a hash less than capacity below 2^64.
THEOREM ExitOnlyWrapped == Spec => []FitsUnlessWrapped
<1>1. ASSUME IInv, LoadInv PROVE FitsUnlessWrapped
  <2>1. /\ IsTable(index) /\ IsTable(index_) /\ Counted(index) /\ Counted(index_)
        /\ index.size \in Nat /\ index.capacity \in Nat /\ index_.size \in Nat
        /\ i \in 0 .. index.capacity /\ Width \in Nat
    BY <1>1, HashesAre DEF IInv, TypeOK, LoadInv, IsTable
  <2>2. ASSUME pc = "update" PROVE Fits(index, key) \/ key + index.capacity > Width
    <3>1. key \in Nat /\ index.size < index.capacity
      BY <1>1, <2>1, <2>2, HashesAre DEF IInv, TypeOK, LoadInv, NoKey
    <3> QED BY <2>1, <3>1, RoomFits
  <2>3. ASSUME pc = "rehash", NEW j \in i .. index.capacity - 1, index.maps[j].key # 0
        PROVE  \/ Fits(index_, index.maps[j].key)
               \/ index.maps[j].key + index_.capacity > Width
    <3>1. j \in Slots(index)
      BY <2>1 DEF Slots
    <3>2. index.maps[j].key \in Nat
      BY <2>1, <2>3, <3>1, HashesAre DEF IsTable
    <3>3. PICK c \in Nat : c = ((index.capacity + Extra) * 3) \div 2 /\ index.capacity < c
      BY <2>1, Growth
    <3>4. index_.capacity = c /\ index_.size <= i
      BY <1>1, <2>3, <3>3 DEF LoadInv
    <3>5. index_.size < index_.capacity
      BY <2>1, <3>3, <3>4
    <3> QED BY <2>1, <3>2, <3>3, <3>4, <3>5, RoomFits
  <2> QED BY <2>2, <2>3 DEF FitsUnlessWrapped
<1> QED BY <1>1, LoadHolds, PTL
=============================================================================
