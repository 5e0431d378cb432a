------------------------------ MODULE WordBag ------------------------------
(***************************************************************************)
(* What the word set promises: a bag of words in a file.  avl_insert adds  *)
(* a word and returns 0; avl_exists returns how often it was added.  Each  *)
(* word takes room once, when it comes first, and is added whenever it is  *)
(* there already or still fits; else it is not added, and only in an empty *)
(* bag does avl_insert say so.  A session that ends with a close leaves    *)
(* bag and room as they are, one that is killed may lose all of it, or     *)
(* leave a file of which nothing is known until it is truncated.           *)
(***************************************************************************)
EXTENDS Integers

CONSTANTS
  Words,
  Needs     \* the bytes a word takes when it is new

VARIABLES
  bag,      \* how often each word was added, or Unknown
  free,     \* the bytes left for new words
  size,     \* those that an empty file has, which never changes
  up,       \* a session is open
  call,     \* the call in progress: op and word
  settled,  \* it has taken its effect
  answer    \* of the last call

vars == <<bag, free, size, up, call, settled, answer>>

Unknown == <<>>
NoCall == [op |-> "none"]
Empty == [w \in Words |-> 0]

Init ==
  /\ bag = Empty /\ size \in Int /\ free = size
  /\ up = FALSE /\ call = NoCall /\ settled = FALSE /\ answer = 0

Open(truncate) ==
  /\ ~up /\ up' = TRUE
  /\ \/ truncate /\ bag' = Empty /\ free' = size
     \/ ~truncate /\ UNCHANGED <<bag, free>>
     \/ ~truncate /\ bag = Unknown /\ bag' \in {Unknown, Empty} /\ free' \in Int
  /\ UNCHANGED <<size, call, settled, answer>>

\* Closing a file filled to its end may spoil it.
Close ==
  /\ up /\ up' = FALSE /\ call = NoCall
  /\ \/ UNCHANGED <<bag, free>>
     \/ bag' = Unknown /\ free' \in Int
  /\ UNCHANGED <<size, call, settled, answer>>

Crash ==
  /\ up /\ up' = FALSE
  /\ bag' \in {bag, Empty, Unknown} /\ free' \in Int
  /\ call' = NoCall /\ settled' = FALSE
  /\ UNCHANGED <<size, answer>>

Ask(op, w) ==
  /\ up /\ call = NoCall
  /\ call' = [op |-> op, word |-> w] /\ answer' = 0
  /\ UNCHANGED <<bag, free, size, up, settled>>

Pending(op) == call # NoCall /\ call.op = op /\ ~settled

Settles == Pending("insert") /\ settled' = TRUE /\ UNCHANGED <<size, up, call, answer>>

\* A word that is there is counted again, and takes nothing.
AddAgain ==
  /\ Settles /\ bag # Unknown /\ bag[call.word] > 0
  /\ bag' = [bag EXCEPT ![call.word] = @ + 1]
  /\ UNCHANGED free

Fits == Needs[call.word] <= free

AddNew ==
  /\ Settles /\ bag # Unknown /\ bag[call.word] = 0 /\ Fits
  /\ bag' = [bag EXCEPT ![call.word] = 1]
  /\ free' = free - Needs[call.word]

\* Some of the room that was too little may be lost with the word.
Drop ==
  /\ Settles /\ bag # Unknown /\ bag[call.word] = 0 /\ ~Fits
  /\ free' <= free
  /\ UNCHANGED bag

AddUnknown == Settles /\ bag = Unknown /\ UNCHANGED bag /\ free' <= free

Return ==
  /\ settled /\ settled' = FALSE /\ call' = NoCall
  /\ answer' \in IF bag = Unknown THEN {0, -1} ELSE IF bag = Empty THEN {-1} ELSE {0}
  /\ UNCHANGED <<bag, free, size, up>>

Count ==
  /\ Pending("exists") /\ call' = NoCall
  /\ IF bag = Unknown THEN answer' \in Nat ELSE answer' = bag[call.word]
  /\ UNCHANGED <<bag, free, size, up, settled>>

Next ==
  \/ \E truncate \in BOOLEAN : Open(truncate)
  \/ Close \/ Crash
  \/ \E op \in {"insert", "exists"}, w \in Words : Ask(op, w)
  \/ AddAgain \/ AddNew \/ Drop \/ AddUnknown \/ Return \/ Count

Spec == Init /\ [][Next]_vars
=============================================================================
