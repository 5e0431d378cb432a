------------------------------ MODULE IndexMap ------------------------------
(***************************************************************************)
(* What kvdb.c needs of p4/index.h: a map from the hashes of keys to       *)
(* offsets.  index_update makes an entry with offset 0 if there is none    *)
(* and hands it out; the caller may store an offset in it before its next  *)
(* call.  index_lookup reads an entry.                                     *)
(***************************************************************************)
EXTENDS Naturals

CONSTANTS
  Hashes,   \* the hashes of keys, none of them 0
  Offsets,  \* what the caller stores
  Absent,   \* in place of an offset: there is no entry
  MayFail   \* whether index_update may run out of memory

VARIABLES entries, held, reply

vars == <<entries, held, reply>>

NoHash == 0
Failed == [ok |-> FALSE]
Answer(off) == [ok |-> TRUE, off |-> off]

Init == entries = [h \in Hashes |-> Absent] /\ held = NoHash /\ reply = Failed

Offset(h) == IF entries[h] = Absent THEN 0 ELSE entries[h]

Update(h) ==
  /\ held = NoHash /\ held' = h
  /\ entries' = [entries EXCEPT ![h] = Offset(h)]
  /\ reply' = Answer(Offset(h))

Fail == MayFail /\ held = NoHash /\ reply' = Failed /\ UNCHANGED <<entries, held>>

Store(off) ==
  /\ held # NoHash /\ held' = NoHash
  /\ entries' = [entries EXCEPT ![held] = off]
  /\ UNCHANGED reply

Leave == held # NoHash /\ held' = NoHash /\ UNCHANGED <<entries, reply>>

Lookup(h) ==
  /\ held = NoHash
  /\ reply' = Answer(entries[h])
  /\ UNCHANGED <<entries, held>>

Next ==
  \/ \E h \in Hashes : Update(h) \/ Lookup(h)
  \/ Fail
  \/ \E off \in Offsets : Store(off)
  \/ Leave

Spec == Init /\ [][Next]_vars
=============================================================================
