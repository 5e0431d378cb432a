------------------------------- MODULE KvMap -------------------------------
(***************************************************************************)
(* What p4/kvdb.h promises: a map from keys to non-empty values.  A call   *)
(* is a request followed by its answer, with the return code of the        *)
(* comments "-1|0|+1": done, refused because the key is missing or already *)
(* there, failed.  A refused or failed call changes nothing.               *)
(***************************************************************************)
EXTENDS Naturals, Sequences

CONSTANTS
  Keys,
  Vals,     \* the values: non-empty sequences of bytes
  Caps,     \* sizes of the caller's buffer
  NoLen,    \* in place of a size: the caller passes no val_len
  MayFail   \* whether the layers below may report an error

VARIABLES store, request, reply

vars == <<store, request, reply>>

Missing == <<>>
NoRequest == [op |-> "none"]
NoReply == [ret |-> "none"]

\* The first n elements of a sequence.
Prefix(s, n) == [i \in 1 .. n |-> s[i]]

\* A lookup or a remove that succeeds reports the length of the value and as
\* much of it as fits the caller's buffer.
Filled(value, cap) ==
  IF cap = NoLen THEN [ret |-> "ok", len |-> NoLen, val |-> Missing]
  ELSE [ret |-> "ok", len |-> Len(value),
        val |-> Prefix(value, IF cap < Len(value) THEN cap ELSE Len(value))]

Done == reply' = [ret |-> "ok", len |-> NoLen, val |-> Missing]
Refused == reply' = [ret |-> "refused"] /\ UNCHANGED store

Init == store = [k \in Keys |-> Missing] /\ request = NoRequest /\ reply = NoReply

Request ==
  /\ request = NoRequest
  /\ request' \in
       [op : {"insert", "update", "replace"}, key : Keys, val : Vals]
         \cup [op : {"lookup", "remove"}, key : Keys, cap : Caps \cup {NoLen}]
  /\ reply' = NoReply
  /\ UNCHANGED store

Value == store[request.key]
Put(v) == store' = [store EXCEPT ![request.key] = v]

Insert == IF Value = Missing THEN Put(request.val) /\ Done ELSE Refused
Update == Put(request.val) /\ Done
Replace == IF Value # Missing THEN Put(request.val) /\ Done ELSE Refused
Lookup == IF Value # Missing
            THEN reply' = Filled(Value, request.cap) /\ UNCHANGED store
            ELSE Refused
Remove == IF Value # Missing
            THEN Put(Missing) /\ reply' = Filled(Value, request.cap)
            ELSE Refused
Fail == MayFail /\ reply' = [ret |-> "failed"] /\ UNCHANGED store

Answer ==
  /\ request # NoRequest
  /\ request' = NoRequest
  /\ \/ request.op = "insert" /\ Insert
     \/ request.op = "update" /\ Update
     \/ request.op = "replace" /\ Replace
     \/ request.op = "lookup" /\ Lookup
     \/ request.op = "remove" /\ Remove
     \/ Fail

Next == Request \/ Answer

SafeSpec == Init /\ [][Next]_vars
=============================================================================
