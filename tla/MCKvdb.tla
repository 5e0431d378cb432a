------------------------------- MODULE MCKvdb -------------------------------
(***************************************************************************)
(* Kvdb with three keys of one hash and one of another.  "long1" and       *)
(* "long2" agree in length and head and differ behind it, "short" agrees   *)
(* with them in head only, and "other" has a chain of its own.             *)
(***************************************************************************)
EXTENDS KvdbTests

CONSTANTS short, long1, long2, other, none, absent

MCKeys == {short, long1, long2, other}
MCHashes == {1, 2}
MCHash == [k \in MCKeys |-> IF k = other THEN 2 ELSE 1]
MCKeyLen == [k \in MCKeys |-> IF k \in {short, other} THEN 8 ELSE 9]
MCKeyHead == [k \in MCKeys |-> IF k = other THEN 2 ELSE 1]
MCBytes == 0 .. 2
MCVals == {<<1>>, <<2>>, <<2, 1>>}
MCAnyVals == {<<1>>, <<2, 1>>}

\* NULL without a length, with length 0 and with another, and buffers that hold
\* part of a value or all of it.
MCBuffers == {[cap |-> none, null |-> TRUE], [cap |-> 0, null |-> TRUE],
              [cap |-> 1, null |-> TRUE], [cap |-> 0, null |-> FALSE],
              [cap |-> 1, null |-> FALSE], [cap |-> 2, null |-> FALSE]}

\* basic_logic has a value for each way to store one, two of the same length.
MCVal1 == <<1>>
MCVal2 == <<2, 1>>
MCVal3 == <<2>>
MCRewrites == <<<<1>>, <<2, 1>>, <<2>>>>
MCObjects == <<long1, long2>>
MCObject == [k \in {long1, long2} |-> IF k = long1 THEN <<2, 1>> ELSE <<1>>]
=============================================================================
