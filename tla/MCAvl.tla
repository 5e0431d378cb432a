------------------------------- MODULE MCAvl -------------------------------
(* The word set: one session that six words fit, and three sessions on files *)
(* that one or two words fill (p23), or three (p3).                        *)
EXTENDS Avl
MCMaxItems == [size \in Sizes23 \cup Sizes3 |->
                 IF size > 2000 THEN <<6>> ELSE <<3, 3, 4>>]
MCLetters == [w \in Words |-> IF w = 2 THEN 5 ELSE 3]
=============================================================================
