----------------------------- MODULE AppendLog -----------------------------
(***************************************************************************)
(* What p4/logfs.h promises its one caller: an append-only log of bytes    *)
(* that can be read back at any offset.  Each call is a request followed   *)
(* by its answer.  The byte at log offset o is represented by o itself, so *)
(* the answer to a read of [off, off+len) is exactly off, ..., off+len-1   *)
(* and any other answer contains a lost, stale or misplaced byte.          *)
(***************************************************************************)
EXTENDS Naturals

VARIABLES length,   \* number of bytes appended so far
          request,  \* the call in progress, or NoRequest
          reply     \* bytes returned by the last call (empty if none)

vars == <<length, request, reply>>

Nothing == [i \in {} |-> 0]
NoRequest == [op |-> "none", off |-> 0, len |-> 0]
Closed == [op |-> "closed", off |-> 0, len |-> 0]
Bytes(off, len) == [i \in 0 .. len - 1 |-> off + i]

Init == length = 0 /\ request = NoRequest /\ reply = Nothing

Request ==
  /\ request = NoRequest
  /\ \/ request' \in [op : {"append"}, off : {0}, len : Nat]
     \/ /\ request' \in [op : {"read"}, off : Nat, len : Nat]
        /\ request'.off + request'.len <= length
     \/ request' = [op |-> "close", off |-> 0, len |-> 0]
  /\ reply' = Nothing
  /\ UNCHANGED length

\* An append of no bytes is answered at once.
AppendNothing ==
  /\ request = NoRequest
  /\ reply' = Nothing
  /\ UNCHANGED <<length, request>>

Append ==
  /\ request.op = "append"
  /\ length' = length + request.len
  /\ request' = NoRequest
  /\ UNCHANGED reply

Read ==
  /\ request.op = "read"
  /\ reply' = Bytes(request.off, request.len)
  /\ request' = NoRequest
  /\ UNCHANGED length

Close ==
  /\ request.op = "close"
  /\ request' = Closed
  /\ UNCHANGED <<length, reply>>

Answer == Append \/ Read \/ Close
Next == Request \/ AppendNothing \/ Answer

\* Every call returns: once requested, it is answered.
Spec == Init /\ [][Next]_vars /\ WF_vars(Answer)
=============================================================================
