----------------------------- MODULE AvlProofs -----------------------------
(***************************************************************************)
(* About the word set, for any words, files, sessions and crashes:         *)
(*   - types, and no step but a truncation overwrites a block that lies    *)
(*     below the counter in the file (CommittedCorrect);                   *)
(*   - the tree, as long as no session has ended with a change that its    *)
(*     counter does not cover: what the file and a call in progress hold   *)
(*     is at every step a search tree taken apart at one place             *)
(*     (SetInvariance).  From this follow that it is ordered and balanced  *)
(*     between calls (TreeCorrect), that no call kills the process but by  *)
(*     a store behind the file (CallsSurviveAlways), that the word set is  *)
(*     a bag (BagImplemented), and that its totals are those of the tree   *)
(*     (CountsCorrect).                                                    *)
(***************************************************************************)
EXTENDS Avl, ModArith, SequenceTheorems, FiniteSetTheorems, TLAPS

\* The fields that the proof reads exist; no store below adds or drops one.
Shaped(b) ==
  /\ {"bytes", "kind"} \subseteq DOMAIN b
  /\ b.bytes \in Nat \ {0}
  /\ b.kind \in {"state", "node", "word"}
  /\ b.kind = "node" => {"item", "count"} \subseteq DOMAIN b /\ b.count \in Nat
  /\ b.kind = "word" => "word" \in DOMAIN b

Blocked(r) == \A p \in DOMAIN r : Shaped(r[p])

\* The blocks of s are those of r, but for links, depths and totals.
SameBlock(old, new) ==
  /\ Shaped(new)
  /\ new.bytes = old.bytes /\ new.kind = old.kind
  /\ old.kind = "node" => new.item = old.item /\ new.count = old.count
  /\ old.kind = "word" => new.word = old.word

Relinked(r, s) ==
  DOMAIN s = DOMAIN r /\ \A p \in DOMAIN r : SameBlock(r[p], s[p])

LEMMA RelinkedTwice ==
  ASSUME NEW r, NEW s, NEW t, Relinked(r, s), Relinked(s, t)
  PROVE  Relinked(r, t)
BY DEF Relinked, SameBlock, Shaped

LEMMA RelinkedBlocked ==
  ASSUME NEW r, NEW s, Relinked(r, s)
  PROVE  Blocked(s)
BY DEF Relinked, Blocked, SameBlock

\* A store to one of these fields of one block.
LEMMA StoreLeft ==
  ASSUME NEW r, Blocked(r), NEW p, NEW v
  PROVE  Relinked(r, [r EXCEPT ![p].left = v])
BY DEF Blocked, Relinked, SameBlock, Shaped

LEMMA StoreRight ==
  ASSUME NEW r, Blocked(r), NEW p, NEW v
  PROVE  Relinked(r, [r EXCEPT ![p].right = v])
BY DEF Blocked, Relinked, SameBlock, Shaped

LEMMA StoreDepth ==
  ASSUME NEW r, Blocked(r), NEW p, NEW v
  PROVE  Relinked(r, [r EXCEPT ![p].depth = v])
BY DEF Blocked, Relinked, SameBlock, Shaped

LEMMA StoreRoot ==
  ASSUME NEW r, Blocked(r), NEW p, NEW v
  PROVE  Relinked(r, [r EXCEPT ![p].root = v])
BY DEF Blocked, Relinked, SameBlock, Shaped

LEMMA DeepenRelinks ==
  ASSUME NEW r, Blocked(r), NEW p
  PROVE  Relinked(r, Deepen(r, p))
BY StoreDepth DEF Deepen

LEMMA LinkRelinks ==
  ASSUME NEW r, Blocked(r), NEW p, NEW side, NEW q
  PROVE  Relinked(r, Link(r, p, side, q))
BY StoreLeft, StoreRight DEF Link

\* Rotations store to links and depths only.
LEMMA RightRelinks ==
  ASSUME NEW r, Blocked(r), NEW p
  PROVE  Relinked(r, rotate_right(r, p).region)
<1> DEFINE root == r[p].left
           below == [r EXCEPT ![p].left = r[root].right]
           linked == [r EXCEPT ![p].left = r[root].right, ![root].right = p]
           deep == Deepen(linked, p)
<1>1. Relinked(r, below) BY StoreLeft
<1>2. Relinked(below, [below EXCEPT ![root].right = p])
  BY <1>1, RelinkedBlocked, StoreRight
<1>3. linked = [below EXCEPT ![root].right = p]
  OBVIOUS
<1>4. Relinked(r, linked)
  BY <1>1, <1>2, <1>3, RelinkedTwice
<1>5. Relinked(linked, deep)
  BY <1>4, RelinkedBlocked, DeepenRelinks
<1>6. Relinked(r, deep)
  BY <1>4, <1>5, RelinkedTwice
<1>7. Relinked(deep, Deepen(deep, root))
  BY <1>6, RelinkedBlocked, DeepenRelinks
<1>8. rotate_right(r, p).region = Deepen(deep, root)
  BY DEF rotate_right
<1> QED BY <1>6, <1>7, <1>8, RelinkedTwice

LEMMA LeftRelinks ==
  ASSUME NEW r, Blocked(r), NEW p
  PROVE  Relinked(r, rotate_left(r, p).region)
<1> DEFINE root == r[p].right
           below == [r EXCEPT ![p].right = r[root].left]
           linked == [r EXCEPT ![p].right = r[root].left, ![root].left = p]
           deep == Deepen(linked, p)
<1>1. Relinked(r, below) BY StoreRight
<1>2. Relinked(below, [below EXCEPT ![root].left = p])
  BY <1>1, RelinkedBlocked, StoreLeft
<1>3. linked = [below EXCEPT ![root].left = p]
  OBVIOUS
<1>4. Relinked(r, linked)
  BY <1>1, <1>2, <1>3, RelinkedTwice
<1>5. Relinked(linked, deep)
  BY <1>4, RelinkedBlocked, DeepenRelinks
<1>6. Relinked(r, deep)
  BY <1>4, <1>5, RelinkedTwice
<1>7. Relinked(deep, Deepen(deep, root))
  BY <1>6, RelinkedBlocked, DeepenRelinks
<1>8. rotate_left(r, p).region = Deepen(deep, root)
  BY DEF rotate_left
<1> QED BY <1>6, <1>7, <1>8, RelinkedTwice

LEMMA RebalanceRelinks ==
  ASSUME NEW r, Blocked(r), NEW p, NEW side, NEW w
  PROVE  Relinked(r, Rebalance(r, p, side, w).region)
<1>1. Relinked(r, r)
  BY DEF Relinked, SameBlock, Blocked
<1>2. Relinked(r, rotate_right(r, p).region) /\ Relinked(r, rotate_left(r, p).region)
  BY RightRelinks, LeftRelinks
<1>3. Relinked(r, rotate_left_right(r, p).region)
  <2> DEFINE below == rotate_left(r, r[p].left)
             linked == [below.region EXCEPT ![p].left = below.root]
  <2>1. Relinked(r, below.region) BY LeftRelinks
  <2>2. Relinked(below.region, linked)
    <3> HIDE DEF below
    <3> QED BY <2>1, RelinkedBlocked, StoreLeft
  <2>3. Relinked(r, linked) BY <2>1, <2>2, RelinkedTwice
  <2>4. Relinked(linked, rotate_right(linked, p).region)
    BY <2>3, RelinkedBlocked, RightRelinks
  <2>5. rotate_left_right(r, p) = rotate_right(linked, p)
    BY DEF rotate_left_right
  <2> QED BY <2>3, <2>4, <2>5, RelinkedTwice
<1>4. Relinked(r, rotate_right_left(r, p).region)
  <2> DEFINE below == rotate_right(r, r[p].right)
             linked == [below.region EXCEPT ![p].right = below.root]
  <2>1. Relinked(r, below.region) BY RightRelinks
  <2>2. Relinked(below.region, linked)
    <3> HIDE DEF below
    <3> QED BY <2>1, RelinkedBlocked, StoreRight
  <2>3. Relinked(r, linked) BY <2>1, <2>2, RelinkedTwice
  <2>4. Relinked(linked, rotate_left(linked, p).region)
    BY <2>3, RelinkedBlocked, LeftRelinks
  <2>5. rotate_right_left(r, p) = rotate_left(linked, p)
    BY DEF rotate_right_left
  <2> QED BY <2>3, <2>4, <2>5, RelinkedTwice
<1> QED BY <1>1, <1>2, <1>3, <1>4 DEF Rebalance

-----------------------------------------------------------------------------
(* The counter in the file lies at or below the handle's, or everything     *)
(* that is in the file is below the handle's (after a truncation that did   *)
(* not write the counter); and no block shares bytes with the counter that  *)
(* is going to be written, as long as the counter can be read.              *)

Below_(u) == \A p \in DOMAIN region : p + region[p].bytes <= Pointer(u)

FileInv ==
  /\ layout \in Layouts
  /\ stored \in Nat \cup {Junk} /\ utilized \in Nat \cup {Closed}
  /\ DOMAIN region \subseteq Int /\ Blocked(region)
  /\ utilized = Closed \/ stored = Junk \/ stored <= utilized \/ Below_(utilized)
  /\ stored # Junk => \A p \in DOMAIN region : ~OnCounter(p, region[p].bytes)

\* During a call the file is open; a node that waits for its word is as it
\* was allocated.
NameInv ==
  /\ pc # "idle" => utilized # Closed /\ call.word \in Words
  /\ pc = "name" => ret \in DOMAIN region /\ region[ret] = Node

Inv == FileInv /\ NameInv

LEMMA LayoutFacts ==
  ASSUME layout \in Layouts
  PROVE  /\ layout.base \in Nat /\ layout.stride \in {1, 8}
         /\ layout.counter \in Int /\ layout.counterBytes \in Nat
         /\ ~OnCounter(Pointer(0), StateBytes)
<1>1. ASSUME NEW n \in Sizes23, layout = P23(n)
      PROVE  /\ layout.base \in Nat /\ layout.stride \in {1, 8}
             /\ layout.counter \in Int /\ layout.counterBytes \in Nat
             /\ ~OnCounter(Pointer(0), StateBytes)
      <2>1. /\ layout.base = 28 /\ layout.stride = 8 /\ layout.counter = 8
        /\ layout.counterBytes = 20
    BY <1>1 DEF P23
  <2>2. Pointer(0) = 28 BY <2>1 DEF Pointer
  <2>3. ~OnCounter(28, StateBytes) BY <2>1 DEF OnCounter, Apart, StateBytes
  <2> QED BY <2>1, <2>2, <2>3
<1>2. ASSUME NEW n \in Sizes3, layout = P3(n)
      PROVE  /\ layout.base \in Nat /\ layout.stride \in {1, 8}
             /\ layout.counter \in Int /\ layout.counterBytes \in Nat
             /\ ~OnCounter(Pointer(0), StateBytes)
      <2>1. /\ layout.base = 0 /\ layout.stride = 1 /\ layout.counter = n - 8
        /\ layout.counterBytes = 8
    BY <1>2 DEF P3
  <2>2. n \in Nat /\ n >= 60 BY <1>2, ScmAssumption, AvlAssumption
  <2>3. Pointer(0) = 0 BY <2>1 DEF Pointer
  <2>4. ~OnCounter(0, StateBytes) BY <2>1, <2>2 DEF OnCounter, Apart, StateBytes
  <2> QED BY <2>1, <2>2, <2>3, <2>4
<1> QED BY <1>1, <1>2 DEF Layouts

LEMMA PointerGrows ==
  ASSUME layout \in Layouts, NEW u \in Nat, NEW n \in Nat, NEW v \in Nat, u + n <= v
  PROVE  Pointer(u) \in Nat /\ Pointer(u) + n <= Pointer(v)
<1>1. layout.base \in Nat /\ (layout.stride = 1 \/ layout.stride = 8)
  BY LayoutFacts
<1>2. CASE layout.stride = 1 BY <1>1, <1>2 DEF Pointer
<1>3. CASE layout.stride = 8 BY <1>1, <1>3 DEF Pointer
<1> QED BY <1>1, <1>2, <1>3

\* A block that is there before a store of n bytes at the handle's counter,
\* and below the counter in the file, is out of the way of the store.
LEMMA AllocatedKeeps ==
  ASSUME FileInv, utilized # Closed, stored # Junk, NEW b, b.bytes \in Nat,
         NEW p \in DOMAIN region, p + region[p].bytes <= Pointer(stored)
  PROVE  p \in DOMAIN Allocated(b) /\ Allocated(b)[p] = region[p]
<1>1. p \in Int /\ region[p].bytes \in Nat \ {0}
  BY DEF FileInv, Blocked, Shaped
<1>2. utilized \in Nat /\ stored \in Nat
  BY DEF FileInv
<1>3. Pointer(utilized) \in Nat /\ Pointer(stored) \in Nat
  BY <1>2, PointerGrows DEF FileInv
<1>4. p + region[p].bytes <= Pointer(utilized)
  <2>1. CASE stored <= utilized
    <3>1. Pointer(stored) <= Pointer(utilized)
      BY <1>2, <2>1, PointerGrows, stored + 0 <= utilized DEF FileInv
    <3> QED BY <1>1, <1>3, <3>1
  <2>2. CASE Below_(utilized)
    BY <2>2 DEF Below_
  <2> QED BY <2>1, <2>2 DEF FileInv
<1>5. p # Pointer(utilized)
  BY <1>1, <1>3, <1>4
<1>6. p \in Untouched(Pointer(utilized), b.bytes)
  BY <1>4 DEF Untouched, Apart
<1> QED BY <1>5, <1>6 DEF Allocated

\* The same blocks, as far as addresses and sizes go.
SameSizes(r, s) ==
  DOMAIN s = DOMAIN r /\ \A p \in DOMAIN r : Shaped(s[p]) /\ s[p].bytes = r[p].bytes

\* An allocation keeps FileInv, whatever is stored to blocks besides.
LEMMA MallocStep ==
  ASSUME FileInv, utilized # Closed, NEW b, Shaped(b), scm_malloc(b.bytes),
         SameSizes(Allocated(b), region'), UNCHANGED layout
  PROVE  FileInv'
<1> DEFINE q == Pointer(utilized)
<1>1. utilized \in Nat /\ utilized' = utilized + b.bytes /\ b.bytes \in Nat \ {0}
  BY DEF FileInv, scm_malloc, Shaped
<1>2. q \in Nat /\ q + b.bytes <= Pointer(utilized')
  BY <1>1, PointerGrows DEF FileInv
<1>3. DOMAIN region' \subseteq DOMAIN region \cup {q}
  BY DEF Allocated, Untouched, SameSizes
<1>4. /\ region'[q].bytes = b.bytes
      /\ \A p \in DOMAIN region' : p # q => p \in DOMAIN region /\ region'[p].bytes = region[p].bytes
  BY DEF Allocated, Untouched, SameSizes
<1>5. Blocked(region')
  BY DEF Blocked, SameSizes
<1>6. stored' \in Nat \cup {Junk} /\ (stored' # Junk => stored' = stored /\ ~OnCounter(q, b.bytes))
  BY DEF scm_malloc, FileInv
<1>7. (stored # Junk => \A p \in DOMAIN region : ~OnCounter(p, region[p].bytes))'
  BY <1>3, <1>4, <1>6 DEF FileInv, OnCounter
<1>8. utilized' = Closed \/ stored' = Junk \/ stored' <= utilized' \/ (Below_(utilized))'
  <2>1. CASE stored # Junk /\ stored <= utilized
    BY <1>1, <1>6, <2>1 DEF FileInv
  <2>2. CASE Below_(utilized)
    <3> SUFFICES ASSUME NEW p \in DOMAIN region'
                 PROVE  p + region'[p].bytes <= Pointer(utilized')
      BY DEF Below_, Pointer
    <3>1. CASE p = q BY <1>2, <1>4, <3>1
    <3>2. CASE p # q
      <4>1. p \in Int /\ region'[p].bytes \in Nat /\ p + region'[p].bytes <= q
        BY <1>3, <1>4, <2>2, <3>2 DEF Below_, FileInv, Blocked, Shaped
      <4>2. Pointer(utilized') \in Nat
        BY <1>1, PointerGrows DEF FileInv
      <4> QED BY <1>1, <1>2, <4>1, <4>2
    <3> QED BY <3>1, <3>2
  <2>3. CASE stored = Junk BY <2>3 DEF scm_malloc
  <2> QED BY <2>1, <2>2, <2>3, <1>1 DEF FileInv, Closed
<1>9. utilized' \in Nat /\ layout' \in Layouts
  BY <1>1 DEF FileInv
<1>10. DOMAIN region' \subseteq Int
  BY <1>2, <1>3 DEF FileInv
<1> QED BY <1>5, <1>6, <1>7, <1>8, <1>9, <1>10 DEF FileInv

\* Steps that neither allocate nor free keep it.
LEMMA StoreStep ==
  ASSUME FileInv, SameSizes(region, region'), UNCHANGED <<layout, stored, utilized>>
  PROVE  FileInv'
<1>1. Blocked(region') /\ DOMAIN region' = DOMAIN region
  BY DEF SameSizes, Blocked
<1>2. \A p \in DOMAIN region : region'[p].bytes = region[p].bytes
  BY DEF SameSizes
<1>3. Below_(utilized) => (Below_(utilized))'
  BY <1>1, <1>2 DEF Below_, Pointer
<1> QED BY <1>1, <1>2, <1>3 DEF FileInv, OnCounter

LEMMA CloseStep ==
  ASSUME FileInv, utilized # Closed, scm_close
  PROVE  FileInv'
<1> DEFINE left == Untouched(layout.counter, layout.counterBytes)
<1>1. region' = Restrict(region, left) /\ left \subseteq DOMAIN region
  BY DEF scm_close, Untouched
<1>2. DOMAIN region' = left /\ \A p \in left : region'[p] = region[p]
  BY <1>1 DEF Restrict
<1>3. Blocked(region') /\ DOMAIN region' \subseteq Int
  BY <1>1, <1>2 DEF FileInv, Blocked
<1>4. (\A p \in DOMAIN region : ~OnCounter(p, region[p].bytes))'
  <2> SUFFICES ASSUME NEW p \in left
               PROVE  Apart(p, region[p].bytes, layout.counter, layout.counterBytes)
    BY <1>2 DEF OnCounter, scm_close
  <2>1. p \in DOMAIN region /\ p \in Int /\ region[p].bytes \in Nat
    BY <1>1 DEF FileInv, Blocked, Shaped
  <2>2. layout.counter \in Int /\ layout.counterBytes \in Nat
    BY LayoutFacts DEF FileInv
  <2> QED BY <2>1, <2>2 DEF Untouched, Apart
<1>5. stored' \in Nat /\ utilized' = Closed /\ layout' \in Layouts
  BY DEF scm_close, FileInv
<1> QED BY <1>3, <1>4, <1>5 DEF FileInv

LEMMA OpenStep ==
  ASSUME FileInv, NEW truncate \in BOOLEAN, avl_open(truncate)
  PROVE  FileInv'
<1>1. layout' = layout /\ stored' \in {0, stored}
  BY DEF avl_open, OpenFile
<1>2. PICK u \in Counters(truncate) :
        IF u = 0
          THEN utilized' = StateBytes /\ region' = [p \in {state} |-> State]
          ELSE utilized' = u /\ region' = region
  BY DEF avl_open
<1>3. u \in Nat /\ (u = 0 \/ stored = Junk \/ u = stored)
  BY ScmAssumption DEF Counters, FileInv, Junk
<1>4. CASE u = 0
  <2>1. DOMAIN region' = {state} /\ region'[state] = State /\ utilized' = StateBytes
    BY <1>2, <1>4
  <2>2. state \in Nat /\ state + StateBytes <= Pointer(StateBytes)
    BY PointerGrows DEF state, FileInv, StateBytes
  <2>3. Blocked(region')
    BY <2>1 DEF Blocked, Shaped, State, StateBytes
  <2>4. (Below_(utilized))'
    BY <1>1, <2>1, <2>2 DEF Below_, Pointer, State
  <2>5. (\A p \in DOMAIN region : ~OnCounter(p, region[p].bytes))'
    BY <1>1, <2>1, LayoutFacts DEF OnCounter, State, state, FileInv
  <2> QED BY <1>1, <2>1, <2>2, <2>3, <2>4, <2>5 DEF FileInv, StateBytes
<1>5. CASE u # 0
  <2>1. utilized' = u /\ region' = region
    BY <1>2, <1>5
  <2>2. ~truncate /\ stored' = stored
    BY <1>5 DEF Counters, avl_open, OpenFile
  <2> QED BY <1>1, <1>3, <1>5, <2>1, <2>2 DEF FileInv, OnCounter, Closed, Junk
<1> QED BY <1>4, <1>5

\* The blocks that are written to new memory.
LEMMA NewBlocks ==
  /\ Shaped(State) /\ Shaped(Node) /\ Node.bytes = NodeBytes
  /\ \A w \in Words : Shaped(Word(w)) /\ Word(w).bytes = Letters[w]
BY AvlAssumption DEF Shaped, State, Node, Word, StateBytes, NodeBytes

LEMMA RelinkedSizes ==
  ASSUME NEW r, NEW s, Relinked(r, s)
  PROVE  SameSizes(r, s)
BY DEF Relinked, SameSizes, SameBlock

\* The store of a named node: all sizes and, but for that node, all words are
\* those after the allocation of the word.
LEMMA NameStores ==
  ASSUME FileInv, NameInv, NewName
  PROVE  LET named == Allocated(Word(call.word))
         IN /\ SameSizes(named, region')
            /\ \A p \in DOMAIN named : p # ret => SameBlock(named[p], region'[p])
            /\ named[ret] = Node /\ ret \in DOMAIN named
            /\ region'[ret].kind = "node" /\ region'[ret].count = 1
<1> DEFINE named == Allocated(Word(call.word))
<1>1. Shaped(Word(call.word)) /\ Word(call.word).kind = "word"
  BY NewBlocks DEF NameInv, NewName, Word
<1>2. Blocked(named)
  BY <1>1 DEF Allocated, Untouched, Blocked, FileInv
<1>3. /\ ret \in DOMAIN named /\ named[ret] = Node
      /\ state \in DOMAIN named /\ named[state].kind = "state" /\ state # ret
  BY <1>1 DEF NameInv, NewName, HasKind, Allocated, Untouched, Node
<1> HIDE DEF named
<1>4. /\ DOMAIN region' = DOMAIN named
      /\ \A p \in DOMAIN named : p \notin {ret, state} => region'[p] = named[p]
      /\ region'[ret] = [named[ret] EXCEPT !.item = Pointer(utilized), !.count = 1]
      /\ region'[state] = [named[state] EXCEPT !.items = @ + 1, !.unique = @ + 1]
  BY <1>3 DEF NewName, named
<1>5. Shaped(region'[ret]) /\ region'[ret].bytes = named[ret].bytes
      /\ region'[ret].kind = "node" /\ region'[ret].count = 1
  BY <1>3, <1>4 DEF Shaped, Node, NodeBytes
<1>6. Shaped(named[state])
  BY <1>2, <1>3 DEF Blocked
<1>7. SameBlock(named[state], region'[state])
  BY <1>3, <1>4, <1>6 DEF Shaped, SameBlock
<1>8. ASSUME NEW p \in DOMAIN named, p # ret PROVE SameBlock(named[p], region'[p])
  BY <1>2, <1>4, <1>7, <1>8 DEF SameBlock, Blocked
<1>9. SameSizes(named, region')
  BY <1>4, <1>5, <1>8 DEF SameSizes, SameBlock
<1> QED BY <1>3, <1>5, <1>8, <1>9 DEF named

\* Counting a word again: the same, but for the count of one node.
LEMMA CountStores ==
  ASSUME FileInv, CountAgain
  PROVE  \A p \in DOMAIN region :
           /\ p \in DOMAIN region' /\ Shaped(region'[p])
           /\ region'[p].bytes = region[p].bytes /\ SameWords(region[p], region'[p])
<1> DEFINE more == [region EXCEPT ![cur].count = @ + 1, ![state].items = @ + 1]
<1>1. cur \in DOMAIN region /\ region[cur].kind = "node"
  BY DEF CountAgain, AtWord, Legible, HasKind
<1>2. DOMAIN more = DOMAIN region
  OBVIOUS
<1>3. ASSUME NEW p \in DOMAIN region
      PROVE  /\ Shaped(more[p]) /\ more[p].bytes = region[p].bytes
             /\ SameWords(region[p], more[p])
  <2>1. Shaped(region[p])
    BY DEF FileInv, Blocked
  <2>2. CASE p \notin {cur, state}
    <3>1. more[p] = region[p] BY <2>2
    <3> QED BY <2>1, <3>1 DEF SameWords, Shaped
  <2>3. CASE p = cur
    <3>1. \/ more[p] = [region[p] EXCEPT !.count = @ + 1]
          \/ more[p] = [[region[p] EXCEPT !.count = @ + 1] EXCEPT !.items = @ + 1]
      BY <2>3
    <3> QED BY <1>1, <2>1, <2>3, <3>1 DEF SameWords, Shaped
  <2>4. CASE p = state /\ p # cur
    <3>1. more[p] = [region[p] EXCEPT !.items = @ + 1]
      BY <2>4
    <3> QED BY <2>1, <3>1 DEF SameWords, Shaped
  <2> QED BY <2>2, <2>3, <2>4
<1>4. Blocked(more)
  BY <1>2, <1>3 DEF Blocked
<1>5. Relinked(more, region')
  <2>1. region' = Deepen(more, cur) BY DEF CountAgain
  <2> HIDE DEF more
  <2> QED BY <1>4, <2>1, DeepenRelinks
<1> HIDE DEF more
<1> QED BY <1>2, <1>3, <1>5 DEF Relinked, SameBlock, SameWords

LEMMA RelinkStores ==
  ASSUME FileInv, Relink \/ Inserted
  PROVE  Relinked(region, region')
<1>1. Blocked(region)
  BY DEF FileInv
<1>2. Relinked(region, region)
  BY <1>1 DEF Relinked, SameBlock, Blocked
<1>3. CASE Relink
  <2> DEFINE turned == Rebalance(Linked, Frame.node, Frame.side, call.word)
  <2>1. Relinked(region, Linked)
    BY <1>1, LinkRelinks DEF Linked
  <2>2. Relinked(Linked, turned.region)
    BY <2>1, RelinkedBlocked, RebalanceRelinks
  <2>3. region' = Deepen(turned.region, turned.root)
    BY <1>3 DEF Relink
  <2> HIDE DEF turned
  <2>4. Relinked(region, turned.region)
    BY <2>1, <2>2, RelinkedTwice
  <2>5. Relinked(turned.region, region')
    BY <2>3, <2>4, RelinkedBlocked, DeepenRelinks
  <2> QED BY <2>4, <2>5, RelinkedTwice
<1>4. CASE Inserted
  <2>1. region' = region \/ region' = [region EXCEPT ![state].root = ret]
    BY <1>4 DEF Inserted
  <2>2. Relinked(region, [region EXCEPT ![state].root = ret])
    BY <1>1, StoreRoot
  <2> QED BY <1>2, <2>1, <2>2
<1> QED BY <1>3, <1>4

\* FileInv from step to step, one kind of step after the other.
LEMMA FileStep ==
  ASSUME Inv, [Next]_vars
  PROVE  FileInv'
<1> USE DEF Inv
<1>1. ASSUME NEW truncate \in BOOLEAN, avl_open(truncate) PROVE FileInv'
  BY <1>1, OpenStep
<1>2. CASE avl_close
  BY <1>2, CloseStep DEF avl_close
<1>3. ASSUME UNCHANGED scmVars PROVE FileInv'
  <2>1. UNCHANGED <<layout, stored, region, utilized>>
    BY <1>3 DEF scmVars
  <2> QED BY <2>1 DEF FileInv, Below_, Pointer, OnCounter, Blocked
<1>4. ASSUME NEW op \in {"insert", "exists"}, NEW w \in Words, Call(op, w)
      PROVE  FileInv'
  BY <1>3, <1>4 DEF Call
<1>5. CASE Descend \/ Found \/ Missed
  BY <1>3, <1>5 DEF Descend, Found, Missed
<1>6. CASE CountAgain
  <2>1. SameSizes(region, region')
    <3>1. DOMAIN region' = DOMAIN region
      BY <1>6 DEF CountAgain, Deepen
    <3> QED BY <1>6, <3>1, CountStores DEF SameSizes
  <2> QED BY <1>6, <2>1, StoreStep DEF CountAgain, BackWith
<1>7. CASE NewNode
  <2>1. SameSizes(Allocated(Node), region')
    BY <1>7, NewBlocks DEF NewNode, SameSizes, Allocated, Untouched, FileInv, Blocked
  <2>2. utilized # Closed
    BY <1>7 DEF NewNode, NameInv
  <2> QED BY <1>7, <2>1, <2>2, NewBlocks, MallocStep DEF NewNode
<1>8. CASE NewName
  <2>1. utilized # Closed /\ call.word \in Words
    BY <1>8 DEF NewName, NameInv
  <2>2. SameSizes(Allocated(Word(call.word)), region')
    BY <1>8, NameStores
  <2> QED BY <1>8, <2>1, <2>2, NewBlocks, MallocStep DEF NewName, BackWith
<1>9. CASE NoRoom
  <2>1. UNCHANGED <<layout, stored, region, utilized>>
    BY <1>9 DEF NoRoom, BackWith
  <2> QED BY <2>1 DEF FileInv, Below_, Pointer, OnCounter, Blocked
<1>10. CASE Relink \/ Inserted
  <2>1. SameSizes(region, region')
    BY <1>10, RelinkStores, RelinkedSizes
  <2> QED BY <1>10, <2>1, StoreStep DEF Relink, Inserted
<1>11. CASE Crash \/ Fault \/ Astray
  <2>1. utilized' = Closed /\ UNCHANGED <<layout, stored, region>>
    BY <1>11 DEF Crash, Fault, Astray, Ends, Killed
  <2> QED BY <2>1 DEF FileInv, OnCounter, Blocked
<1> QED BY <1>1, <1>2, <1>3, <1>4, <1>5, <1>6, <1>7, <1>8, <1>9, <1>10, <1>11
        DEF Next, vars

LEMMA NameStep ==
  ASSUME Inv, [Next]_vars
  PROVE  NameInv'
<1> USE DEF Inv, NameInv
<1>1. CASE \/ \E truncate \in BOOLEAN : avl_open(truncate)
           \/ avl_close \/ Found \/ Missed \/ Inserted \/ Crash \/ Fault \/ Astray
  <2>1. pc' = "idle"
    BY <1>1 DEF avl_open, avl_close, Found, Missed, Inserted, Returns, MayOpen, Crash, Fault, Astray, Ends
  <2> QED BY <2>1
<1>2. ASSUME NEW op \in {"insert", "exists"}, NEW w \in Words, Call(op, w)
      PROVE  NameInv'
  BY <1>2 DEF Call, scmVars
<1>3. CASE Descend
  BY <1>3 DEF Descend, scmVars
<1>4. CASE CountAgain \/ NoRoom
  BY <1>4 DEF CountAgain, AtWord, NoRoom, BackWith
<1>5. CASE NewNode
  <2>1. utilized' = utilized + NodeBytes /\ utilized \in Nat
    BY <1>5 DEF NewNode, scm_malloc, FileInv
  <2>2. Pointer(utilized) \in DOMAIN region' /\ region'[Pointer(utilized)] = Node
    BY <1>5 DEF NewNode, Allocated
  <2> QED BY <1>5, <2>1, <2>2 DEF NewNode, Closed, NodeBytes
<1>6. CASE NewName
  <2>1. utilized' = utilized + Letters[call.word] /\ utilized \in Nat
    BY <1>6 DEF NewName, scm_malloc, FileInv
  <2>2. Letters[call.word] \in Nat
    BY <1>6, AvlAssumption DEF NewName
  <2> QED BY <1>6, <2>1, <2>2 DEF NewName, BackWith, Closed
<1>7. CASE Relink
  BY <1>7 DEF Relink
<1>8. CASE UNCHANGED vars
  BY <1>8 DEF vars, scmVars, avlVars
<1> QED BY <1>1, <1>2, <1>3, <1>4, <1>5, <1>6, <1>7, <1>8 DEF Next

LEMMA Invariance == Spec => []Inv
<1>1. Init => Inv
  <2> SUFFICES ASSUME Init PROVE Inv
    OBVIOUS
  <2>1. DOMAIN region = {}
    BY DEF Init, ScmInit
  <2> QED BY <2>1 DEF Init, ScmInit, Inv, FileInv, NameInv, Blocked, Closed
<1>2. Inv /\ [Next]_vars => Inv'
  BY FileStep, NameStep DEF Inv
<1> QED BY <1>1, <1>2, PTL DEF Spec

-----------------------------------------------------------------------------
\* What CommittedStay says of one block, in one step.
Stays(p) == p \in DOMAIN region' /\ SameWords(region[p], region'[p])

LEMMA SameStays ==
  ASSUME FileInv, NEW p \in DOMAIN region, p \in DOMAIN region', region'[p] = region[p]
  PROVE  Stays(p)
BY DEF FileInv, Blocked, Shaped, Stays, SameWords

LEMMA CommittedStep ==
  ASSUME Inv, [Next]_vars, stored # Junk, ~(utilized = Closed /\ utilized' = StateBytes),
         NEW p \in DOMAIN region, p + region[p].bytes <= Pointer(stored)
  PROVE  Stays(p)
<1> USE DEF Inv
<1>1. ASSUME UNCHANGED region PROVE Stays(p)
  BY <1>1, SameStays
<1>2. ASSUME NEW truncate \in BOOLEAN, avl_open(truncate) PROVE Stays(p)
  BY <1>1, <1>2 DEF avl_open, MayOpen
<1>3. CASE avl_close
  <2>1. Apart(p, region[p].bytes, layout.counter, layout.counterBytes)
    BY DEF FileInv, OnCounter
  <2>2. p \in DOMAIN region' /\ region'[p] = region[p]
    BY <1>3, <2>1 DEF avl_close, scm_close, Untouched, Restrict
  <2> QED BY <2>2, SameStays
<1>4. ASSUME NEW op \in {"insert", "exists"}, NEW w \in Words, Call(op, w)
      PROVE  Stays(p)
  BY <1>1, <1>4 DEF Call, scmVars
<1>5. CASE Descend \/ Found \/ Missed \/ NoRoom
  BY <1>1, <1>5 DEF Descend, Found, Missed, NoRoom, scmVars
<1>6. CASE CountAgain
  BY <1>6, CountStores DEF Stays
<1>7. CASE NewNode
  <2>1. utilized # Closed /\ Node.bytes \in Nat
    BY <1>7, NewBlocks DEF NewNode, NameInv, NodeBytes
  <2>2. p \in DOMAIN region' /\ region'[p] = region[p]
    BY <1>7, <2>1, AllocatedKeeps DEF NewNode
  <2> QED BY <2>2, SameStays
<1>8. CASE NewName
  <2> DEFINE named == Allocated(Word(call.word))
  <2>1. utilized # Closed /\ Word(call.word).bytes \in Nat
    BY <1>8, NewBlocks DEF NewName, NameInv, Shaped
  <2>2. p \in DOMAIN named /\ named[p] = region[p]
    BY <2>1, AllocatedKeeps
  <2>3. /\ DOMAIN region' = DOMAIN named
        /\ p # ret => SameBlock(named[p], region'[p])
        /\ region'[ret].kind = "node" /\ region'[ret].count = 1
    BY <1>8, <2>2, NameStores DEF SameSizes
  <2> HIDE DEF named
  <2>4. CASE p # ret
    BY <2>2, <2>3, <2>4 DEF Stays, SameWords, SameBlock, FileInv, Blocked, Shaped
  <2>5. CASE p = ret
    <3>1. region[p] = Node
      BY <1>8, <2>5 DEF NewName, NameInv
    <3> QED BY <2>2, <2>3, <2>5, <3>1 DEF Stays, SameWords, Node
  <2> QED BY <2>4, <2>5
<1>9. CASE Relink \/ Inserted
  BY <1>9, RelinkStores DEF Stays, Relinked, SameBlock, SameWords, FileInv, Blocked, Shaped
<1>10. CASE Crash \/ Fault \/ Astray
  BY <1>1, <1>10 DEF Crash, Fault, Astray, Ends, Killed
<1>11. CASE UNCHANGED vars
  BY <1>1, <1>11 DEF vars, scmVars
<1> QED BY <1>2, <1>3, <1>4, <1>5, <1>6, <1>7, <1>8, <1>9, <1>10, <1>11 DEF Next

\* What lies below the counter in the file is overwritten by no call, close or
\* crash of any number of sessions, in both layouts, until a truncation.
THEOREM CommittedCorrect == Spec => CommittedStay
<1>1. Inv /\ [Next]_vars =>
        [stored # Junk /\ ~(utilized = Closed /\ utilized' = StateBytes) =>
           \A p \in DOMAIN region :
             p + region[p].bytes <= Pointer(stored) =>
               p \in DOMAIN region' /\ SameWords(region[p], region'[p])]_vars
  BY CommittedStep DEF Stays
<1> QED BY <1>1, Invariance, PTL DEF Spec, CommittedStay

-----------------------------------------------------------------------------
(* Every block has its type, whatever a damaged tree looks like.  What a    *)
(* frame of update stores goes to nodes F, and all links stored there lead  *)
(* to nodes G.                                                              *)

NodeBlocks == [bytes : {NodeBytes}, kind : {"node"}, depth : Nat, count : Nat,
               item : Int, left : Int, right : Int]

Typed(r) == DOMAIN r \subseteq Nat /\ \A p \in DOMAIN r : r[p] \in Blocks

Knit(r, F, G) ==
  /\ Typed(r)
  /\ F \subseteq G /\ G \subseteq DOMAIN r
  /\ \A q \in G : r[q] \in NodeBlocks
  /\ \A f \in F : r[f].left \in G \cup {NULL} /\ r[f].right \in G \cup {NULL}

LEMMA NodesTyped ==
  ASSUME NEW r, Typed(r), NEW p, HasKind(r, p, "node")
  PROVE  r[p] \in NodeBlocks
BY DEF Typed, HasKind, Blocks, NodeBlocks

\* One block replaced by another one of its kind.
LEMMA StoreTyped ==
  ASSUME NEW r, Typed(r), NEW p, NEW b, b \in Blocks
  PROVE  Typed([r EXCEPT ![p] = b])
BY DEF Typed

LEMMA StoreKnit ==
  ASSUME NEW r, NEW F, NEW G, Knit(r, F, G), NEW f \in F, NEW b \in NodeBlocks,
         b.left \in G \cup {NULL}, b.right \in G \cup {NULL}
  PROVE  Knit([r EXCEPT ![f] = b], F, G)
<1>1. b \in Blocks
  BY DEF NodeBlocks, Blocks
<1>2. Typed([r EXCEPT ![f] = b])
  BY <1>1, StoreTyped DEF Knit
<1> QED BY <1>2 DEF Knit

LEMMA KnitLeft ==
  ASSUME NEW r, NEW F, NEW G, Knit(r, F, G), NEW f \in F, NEW v \in G \cup {NULL}
  PROVE  Knit([r EXCEPT ![f].left = v], F, G)
<1> DEFINE b == [r[f] EXCEPT !.left = v]
<1>1. r[f] \in NodeBlocks /\ r[f].right \in G \cup {NULL} /\ v \in Int
  BY DEF Knit, Typed, NULL
<1>2. b \in NodeBlocks /\ b.left = v /\ b.right = r[f].right
  BY <1>1 DEF NodeBlocks
<1>3. [r EXCEPT ![f].left = v] = [r EXCEPT ![f] = b]
  OBVIOUS
<1> HIDE DEF b
<1> QED BY <1>1, <1>2, <1>3, StoreKnit

LEMMA KnitRight ==
  ASSUME NEW r, NEW F, NEW G, Knit(r, F, G), NEW f \in F, NEW v \in G \cup {NULL}
  PROVE  Knit([r EXCEPT ![f].right = v], F, G)
<1> DEFINE b == [r[f] EXCEPT !.right = v]
<1>1. r[f] \in NodeBlocks /\ r[f].left \in G \cup {NULL} /\ v \in Int
  BY DEF Knit, Typed, NULL
<1>2. b \in NodeBlocks /\ b.right = v /\ b.left = r[f].left
  BY <1>1 DEF NodeBlocks
<1>3. [r EXCEPT ![f].right = v] = [r EXCEPT ![f] = b]
  OBVIOUS
<1> HIDE DEF b
<1> QED BY <1>1, <1>2, <1>3, StoreKnit

LEMMA KnitDeepen ==
  ASSUME NEW r, NEW F, NEW G, Knit(r, F, G), NEW f \in F
  PROVE  Knit(Deepen(r, f), F, G)
<1> DEFINE d == depth(r, r[f].left, r[f].right)
           b == [r[f] EXCEPT !.depth = d]
<1>1. r[f] \in NodeBlocks /\ r[f].left \in G \cup {NULL} /\ r[f].right \in G \cup {NULL}
  BY DEF Knit
<1>2. ASSUME NEW q \in G \cup {NULL} PROVE delta(r, q) \in Nat \cup {-1}
  BY <1>2 DEF Knit, NodeBlocks, delta
<1>3. d \in Nat
  <2>1. delta(r, r[f].left) \in Nat \cup {-1} /\ delta(r, r[f].right) \in Nat \cup {-1}
    BY <1>1, <1>2
  <2> QED BY <2>1 DEF depth
<1> HIDE DEF d
<1>4. b \in NodeBlocks /\ b.left = r[f].left /\ b.right = r[f].right
  BY <1>1, <1>3 DEF NodeBlocks
<1>5. Deepen(r, f) = [r EXCEPT ![f] = b]
  BY DEF Deepen, d
<1> HIDE DEF b
<1>6. b.left \in G \cup {NULL} /\ b.right \in G \cup {NULL}
  BY <1>1, <1>4
<1>7. Knit([r EXCEPT ![f] = b], F, G)
  BY <1>4, <1>6, StoreKnit
<1> QED BY <1>5, <1>7

LEMMA RightKnit ==
  ASSUME NEW r, NEW F, NEW G, Knit(r, F, G), NEW p \in F, r[p].left \in F
  PROVE  Knit(rotate_right(r, p).region, F, G) /\ rotate_right(r, p).root = r[p].left
<1> DEFINE root == r[p].left
           below == [r EXCEPT ![p].left = r[root].right]
           linked == [r EXCEPT ![p].left = r[root].right, ![root].right = p]
           deep == Deepen(linked, p)
<1>1. r[root].right \in G \cup {NULL} /\ p \in G
  BY DEF Knit
<1>2. Knit(below, F, G)
  BY <1>1, KnitLeft
<1>3. linked = [below EXCEPT ![root].right = p]
  OBVIOUS
<1>4. rotate_right(r, p) = [region |-> Deepen(deep, root), root |-> root]
  BY DEF rotate_right
<1> HIDE DEF below
<1>5. Knit(linked, F, G)
  BY <1>1, <1>2, <1>3, KnitRight
<1> HIDE DEF linked
<1>6. Knit(deep, F, G)
  BY <1>5, KnitDeepen
<1> HIDE DEF deep
<1>7. Knit(Deepen(deep, root), F, G)
  BY <1>6, KnitDeepen
<1> QED BY <1>4, <1>7

LEMMA LeftKnit ==
  ASSUME NEW r, NEW F, NEW G, Knit(r, F, G), NEW p \in F, r[p].right \in F
  PROVE  Knit(rotate_left(r, p).region, F, G) /\ rotate_left(r, p).root = r[p].right
<1> DEFINE root == r[p].right
           below == [r EXCEPT ![p].right = r[root].left]
           linked == [r EXCEPT ![p].right = r[root].left, ![root].left = p]
           deep == Deepen(linked, p)
<1>1. r[root].left \in G \cup {NULL} /\ p \in G
  BY DEF Knit
<1>2. Knit(below, F, G)
  BY <1>1, KnitRight
<1>3. linked = [below EXCEPT ![root].left = p]
  OBVIOUS
<1>4. rotate_left(r, p) = [region |-> Deepen(deep, root), root |-> root]
  BY DEF rotate_left
<1> HIDE DEF below
<1>5. Knit(linked, F, G)
  BY <1>1, <1>2, <1>3, KnitLeft
<1> HIDE DEF linked
<1>6. Knit(deep, F, G)
  BY <1>5, KnitDeepen
<1> HIDE DEF deep
<1>7. Knit(Deepen(deep, root), F, G)
  BY <1>6, KnitDeepen
<1> QED BY <1>4, <1>7

LEMMA LeftRightKnit ==
  ASSUME NEW r, NEW F, NEW G, Knit(r, F, G), NEW p \in F, r[p].left \in F,
         r[r[p].left].right \in F
  PROVE  /\ Knit(rotate_left_right(r, p).region, F, G)
         /\ rotate_left_right(r, p).root = r[r[p].left].right
<1> DEFINE below == rotate_left(r, r[p].left)
           linked == [below.region EXCEPT ![p].left = below.root]
<1>1. Knit(below.region, F, G) /\ below.root = r[r[p].left].right
  BY LeftKnit
<1>2. rotate_left_right(r, p) = rotate_right(linked, p)
  BY DEF rotate_left_right
<1> HIDE DEF below
<1>3. below.root \in G \cup {NULL} /\ p \in DOMAIN below.region
  BY <1>1 DEF Knit
<1>4. Knit(linked, F, G)
  BY <1>1, <1>3, KnitLeft
<1>5. linked[p].left = below.root
  <2>1. below.region[p] \in NodeBlocks
    BY <1>1 DEF Knit
  <2> QED BY <1>3, <2>1 DEF NodeBlocks
<1> HIDE DEF linked
<1>6. /\ Knit(rotate_right(linked, p).region, F, G)
      /\ rotate_right(linked, p).root = below.root
  BY <1>1, <1>4, <1>5, RightKnit
<1> QED BY <1>1, <1>2, <1>6

LEMMA RightLeftKnit ==
  ASSUME NEW r, NEW F, NEW G, Knit(r, F, G), NEW p \in F, r[p].right \in F,
         r[r[p].right].left \in F
  PROVE  /\ Knit(rotate_right_left(r, p).region, F, G)
         /\ rotate_right_left(r, p).root = r[r[p].right].left
<1> DEFINE below == rotate_right(r, r[p].right)
           linked == [below.region EXCEPT ![p].right = below.root]
<1>1. Knit(below.region, F, G) /\ below.root = r[r[p].right].left
  BY RightKnit
<1>2. rotate_right_left(r, p) = rotate_left(linked, p)
  BY DEF rotate_right_left
<1> HIDE DEF below
<1>3. below.root \in G \cup {NULL} /\ p \in DOMAIN below.region
  BY <1>1 DEF Knit
<1>4. Knit(linked, F, G)
  BY <1>1, <1>3, KnitRight
<1>5. linked[p].right = below.root
  <2>1. below.region[p] \in NodeBlocks
    BY <1>1 DEF Knit
  <2> QED BY <1>3, <2>1 DEF NodeBlocks
<1> HIDE DEF linked
<1>6. /\ Knit(rotate_left(linked, p).region, F, G)
      /\ rotate_left(linked, p).root = below.root
  BY <1>1, <1>4, <1>5, LeftKnit
<1> QED BY <1>1, <1>2, <1>6

\* A frame that may rebalance stores among the nodes of its family.
LEMMA RebalanceKnit ==
  ASSUME NEW r, Typed(r), NEW p, NEW side \in {"left", "right"}, NEW w \in Words,
         MayRebalance(r, p, side, w)
  PROVE  \E F, G : /\ Knit(Rebalance(r, p, side, w).region, F, G)
                   /\ Rebalance(r, p, side, w).root \in F
<1> DEFINE one == Kids(r, p)
           two == KidsOf(r, one)
           F == {p} \cup one \cup two
           G == Family(r, p)
<1>1. G = F \cup KidsOf(r, two)
  BY DEF Family
<1>2. \A q \in G : HasKind(r, q, "node") /\ r[q] \in NodeBlocks
  BY NodesTyped DEF MayRebalance, Legible
<1>3. \A q \in F : Kids(r, q) \subseteq G
  BY <1>1 DEF KidsOf
<1>4. \A q \in G : Kids(r, q) = {r[q].left, r[q].right} \ {NULL}
  BY <1>2 DEF Kids
<1>5. \A q \in {p} : \A s \in Kids(r, q) : s \in F /\ Kids(r, s) \subseteq F
  BY DEF KidsOf
<1>6. p \in F /\ F \subseteq G
  BY <1>1
<1>7. Knit(r, F, G)
  <2> HIDE DEF F, G
  <2>1. G \subseteq DOMAIN r
    BY <1>2 DEF HasKind
  <2>2. \A f \in F : r[f].left \in G \cup {NULL} /\ r[f].right \in G \cup {NULL}
    BY <1>3, <1>4, <1>6
  <2> QED BY <1>2, <1>6, <2>1, <2>2 DEF Knit
<1> HIDE DEF F, G
<1>8. \A s \in {r[p].left, r[p].right} \ {NULL} :
        s \in F /\ \A t \in {r[s].left, r[s].right} \ {NULL} : t \in F
  BY <1>4, <1>5, <1>6
<1>9. \A q \in F : WordAt(r, q) \in Int /\ w \in Int
  BY <1>6, AvlAssumption DEF MayRebalance, Legible, HasKind, WordAt, Typed, Blocks, G
<1>10. CASE ~Unbalanced(r, p)
  BY <1>6, <1>7, <1>10 DEF Rebalance
<1>11. CASE Unbalanced(r, p) /\ side = "left"
  <2>1. r[p].left # NULL /\ (w >= WordAt(r, r[p].left) => r[r[p].left].right # NULL)
    BY <1>11 DEF MayRebalance
  <2>2. r[p].left \in F /\ WordAt(r, r[p].left) \in Int /\ w \in Int
    BY <1>8, <1>9, <2>1
  <2>3. CASE w < WordAt(r, r[p].left)
    BY <1>6, <1>7, <1>11, <2>2, <2>3, RightKnit DEF Rebalance
  <2>4. CASE ~(w < WordAt(r, r[p].left))
    <3>1. r[r[p].left].right \in F
      BY <1>8, <2>1, <2>2, <2>4
    <3> QED BY <1>6, <1>7, <1>11, <2>2, <2>4, <3>1, LeftRightKnit DEF Rebalance
  <2> QED BY <2>3, <2>4
<1>12. CASE Unbalanced(r, p) /\ side = "right"
  <2>1. r[p].right # NULL /\ (w <= WordAt(r, r[p].right) => r[r[p].right].left # NULL)
    BY <1>12 DEF MayRebalance
  <2>2. r[p].right \in F /\ WordAt(r, r[p].right) \in Int /\ w \in Int
    BY <1>8, <1>9, <2>1
  <2>3. CASE w > WordAt(r, r[p].right)
    BY <1>6, <1>7, <1>12, <2>2, <2>3, LeftKnit DEF Rebalance
  <2>4. CASE ~(w > WordAt(r, r[p].right))
    <3>1. r[r[p].right].left \in F
      BY <1>8, <2>1, <2>2, <2>4
    <3> QED BY <1>6, <1>7, <1>12, <2>2, <2>4, <3>1, RightLeftKnit DEF Rebalance
  <2> QED BY <2>3, <2>4
<1> QED BY <1>10, <1>11, <1>12

\* The block that a word is found from is there during the walk.
WalkInv == pc = "walk" => HasKind(region, state, "state")

TypeInv == Inv /\ TypeOK /\ WalkInv

LEMMA NewTyped ==
  /\ State \in Blocks /\ Node \in Blocks
  /\ \A w \in Words : Word(w) \in Blocks
BY AvlAssumption DEF State, Node, Word, Blocks, StateBytes, NodeBytes, NULL

LEMMA AllocatedTyped ==
  ASSUME TypeInv, utilized # Closed, NEW b \in Blocks
  PROVE  Typed(Allocated(b)) /\ Pointer(utilized) \in Nat
<1>1. utilized \in Nat /\ layout \in Layouts
  BY DEF TypeInv, TypeOK
<1>2. Pointer(utilized) \in Nat
  BY <1>1, PointerGrows, utilized + 0 <= utilized
<1> QED BY <1>2 DEF Allocated, Untouched, Typed, TypeInv, TypeOK

\* What one frame of update stores and returns.
LEMMA FrameTyped ==
  ASSUME TypeInv, Relink
  PROVE  Typed(region') /\ ret' \in Int
<1> DEFINE p == Frame.node
           turned == Rebalance(Linked, p, Frame.side, call.word)
<1>1. Frame \in [node : Int, side : {"left", "right"}]
  <2> DEFINE S == [node : Int, side : {"left", "right"}]
  <2>1. stack \in Seq(S) /\ stack # <<>>
    BY DEF TypeInv, TypeOK, Relink
  <2> HIDE DEF S
  <2>2. Len(stack) \in Nat /\ Len(stack) # 0
    BY <2>1
  <2>3. stack[Len(stack)] \in S
    BY <2>1, <2>2
  <2> QED BY <2>3 DEF Frame, S
<1>2. p \in DOMAIN region /\ region[p] \in NodeBlocks /\ Typed(region)
  <2>1. Typed(region)
    BY DEF TypeInv, TypeOK, Typed
  <2>2. HasKind(region, p, "node")
    BY DEF Relink, MayRelink
  <2> QED BY <2>1, <2>2, NodesTyped DEF HasKind
<1>3. Typed(Linked)
  <2>1. ret \in Int
    BY DEF TypeInv, TypeOK
  <2>2. [region[p] EXCEPT !.left = ret] \in Blocks /\ [region[p] EXCEPT !.right = ret] \in Blocks
    BY <1>2, <2>1 DEF NodeBlocks, Blocks
  <2>3. /\ [region EXCEPT ![p].left = ret] = [region EXCEPT ![p] = [region[p] EXCEPT !.left = ret]]
        /\ [region EXCEPT ![p].right = ret] = [region EXCEPT ![p] = [region[p] EXCEPT !.right = ret]]
    OBVIOUS
  <2>4. Typed([region EXCEPT ![p].left = ret]) /\ Typed([region EXCEPT ![p].right = ret])
    BY <1>2, <2>2, <2>3, StoreTyped
  <2> QED BY <2>4 DEF Linked, Link
<1>4. MayRebalance(Linked, p, Frame.side, call.word)
  BY DEF Relink, MayRelink
<1>5. call.word \in Words
  BY DEF TypeInv, Inv, NameInv, Relink
<1>6. region' = Deepen(turned.region, turned.root) /\ ret' = turned.root
  BY DEF Relink
<1>7. PICK F, G : Knit(turned.region, F, G) /\ turned.root \in F
  <2> HIDE DEF p
  <2> QED BY <1>1, <1>3, <1>4, <1>5, RebalanceKnit
<1> HIDE DEF turned
<1>8. Knit(region', F, G)
  BY <1>6, <1>7, KnitDeepen
<1> QED BY <1>6, <1>7, <1>8 DEF Knit, Typed

LEMMA RegionStep ==
  ASSUME TypeInv, [Next]_vars
  PROVE  Typed(region')
<1>1. Typed(region)
  BY DEF TypeInv, TypeOK, Typed
<1>2. CASE UNCHANGED region
  BY <1>1, <1>2
<1>3. ASSUME NEW truncate \in BOOLEAN, avl_open(truncate) PROVE Typed(region')
  <2>1. UNCHANGED region \/ region' = [p \in {state} |-> State]
    BY <1>3 DEF avl_open
  <2>2. state \in Nat
    BY PointerGrows, 0 + 0 <= 0 DEF state, TypeInv, TypeOK
  <2> QED BY <1>2, <2>1, <2>2, NewTyped DEF Typed
<1>4. CASE avl_close
  BY <1>1, <1>4 DEF avl_close, scm_close, Restrict, Untouched, Typed
<1>5. CASE CountAgain
  <2> DEFINE more == [region EXCEPT ![cur].count = @ + 1, ![state].items = @ + 1]
             F == {cur}
             G == {cur} \cup Kids(region, cur)
  <2>1. HasKind(region, cur, "node") /\ HasKind(region, state, "state")
    BY <1>5 DEF CountAgain, AtWord, Legible, TypeInv, WalkInv
  <2>2. cur # state /\ cur \in DOMAIN region /\ state \in DOMAIN region
    BY <2>1 DEF HasKind
  <2>3. region[cur] \in NodeBlocks /\ region[state] \in Blocks /\ region[state].kind = "state"
    BY <1>1, <2>1, NodesTyped DEF HasKind, Typed
  <2>4. /\ [region[cur] EXCEPT !.count = @ + 1] \in NodeBlocks
        /\ [region[state] EXCEPT !.items = @ + 1] \in Blocks
    BY <2>3 DEF NodeBlocks, Blocks
  <2>5. /\ DOMAIN more = DOMAIN region
        /\ more[cur] = [region[cur] EXCEPT !.count = @ + 1]
        /\ more[state] = [region[state] EXCEPT !.items = @ + 1]
        /\ \A p \in DOMAIN region : p \notin {cur, state} => more[p] = region[p]
    BY <2>2
  <2>6. \A q \in Kids(region, cur) : HasKind(region, q, "node") /\ q # state
    BY <1>5, <2>1 DEF CountAgain, MayDeepen, HasKind
  <2>7. \A q \in Kids(region, cur) : region[q] \in NodeBlocks /\ q \in DOMAIN region
    BY <1>1, <2>6, NodesTyped DEF HasKind
  <2>8. region[cur].left \in G \cup {NULL} /\ region[cur].right \in G \cup {NULL}
    BY <2>1 DEF Kids
  <2> HIDE DEF more, G
  <2>9. more[cur].left = region[cur].left /\ more[cur].right = region[cur].right
    BY <2>3, <2>5 DEF NodeBlocks
  <2>10. NodeBlocks \subseteq Blocks
    BY DEF NodeBlocks, Blocks
  <2>11. Typed(more)
    BY <1>1, <2>4, <2>5, <2>10 DEF Typed
  <2>12. G \subseteq DOMAIN more /\ \A q \in G : more[q] \in NodeBlocks
    BY <2>2, <2>4, <2>5, <2>6, <2>7 DEF G
  <2>13. Knit(more, F, G)
    BY <2>8, <2>9, <2>11, <2>12 DEF Knit, G
  <2>14. region' = Deepen(more, cur)
    BY <1>5 DEF CountAgain, more
  <2>15. Knit(region', F, G)
    BY <2>13, <2>14, KnitDeepen
  <2> QED BY <2>15 DEF Knit
<1>6. CASE NewNode
  <2>1. utilized # Closed
    BY <1>6 DEF NewNode, TypeInv, Inv, NameInv
  <2> QED BY <1>6, <2>1, NewTyped, AllocatedTyped DEF NewNode
<1>7. CASE NewName
  <2> DEFINE named == Allocated(Word(call.word))
  <2>1. utilized # Closed /\ call.word \in Words
    BY <1>7 DEF NewName, TypeInv, Inv, NameInv
  <2>2. Typed(named) /\ Pointer(utilized) \in Nat
    BY <2>1, NewTyped, AllocatedTyped
  <2>3. HasKind(named, ret, "node") /\ HasKind(named, state, "state")
    BY <1>7 DEF NewName
  <2>4. region' = [named EXCEPT ![ret].item = Pointer(utilized), ![ret].count = 1,
                                ![state].items = @ + 1, ![state].unique = @ + 1]
    BY <1>7 DEF NewName
  <2> HIDE DEF named
  <2>5. ret # state /\ ret \in DOMAIN named /\ state \in DOMAIN named
    BY <2>3 DEF HasKind
  <2>6. named[ret] \in NodeBlocks /\ named[state] \in Blocks /\ named[state].kind = "state"
    BY <2>2, <2>3, NodesTyped DEF HasKind, Typed
  <2>7. /\ [named[ret] EXCEPT !.item = Pointer(utilized), !.count = 1] \in Blocks
        /\ [named[state] EXCEPT !.items = @ + 1, !.unique = @ + 1] \in Blocks
    <3> DEFINE S == [bytes : {StateBytes}, kind : {"state"}, items : Nat, unique : Nat,
                     root : Int]
               a == named[ret]
               b == named[state]
    <3>1. a \in NodeBlocks /\ b \in S
      BY <2>6 DEF Blocks
    <3> HIDE DEF a, b
    <3>2. [a EXCEPT !.item = Pointer(utilized)] \in NodeBlocks
      BY <2>2, <3>1 DEF NodeBlocks
    <3>3. [[a EXCEPT !.item = Pointer(utilized)] EXCEPT !.count = 1] \in NodeBlocks
      BY <3>2 DEF NodeBlocks
    <3>4. [b EXCEPT !.items = @ + 1] \in S
      BY <3>1
    <3>5. [[b EXCEPT !.items = @ + 1] EXCEPT !.unique = @ + 1] \in S
      <4> DEFINE c == [b EXCEPT !.items = @ + 1]
      <4>1. c \in S /\ c.unique \in Nat
        BY <3>4
      <4> HIDE DEF c
      <4>2. [c EXCEPT !.unique = @ + 1] \in S
        BY <4>1
      <4> QED BY <4>2 DEF c
    <3> USE DEF a, b
    <3>6. /\ [a EXCEPT !.item = Pointer(utilized), !.count = 1]
               = [[a EXCEPT !.item = Pointer(utilized)] EXCEPT !.count = 1]
          /\ [b EXCEPT !.items = @ + 1, !.unique = @ + 1]
               = [[b EXCEPT !.items = @ + 1] EXCEPT !.unique = @ + 1]
      OBVIOUS
    <3> QED BY <3>3, <3>5, <3>6 DEF NodeBlocks, Blocks
  <2>8. /\ DOMAIN region' = DOMAIN named
        /\ region'[ret] = [named[ret] EXCEPT !.item = Pointer(utilized), !.count = 1]
        /\ region'[state] = [named[state] EXCEPT !.items = @ + 1, !.unique = @ + 1]
        /\ \A p \in DOMAIN named : p \notin {ret, state} => region'[p] = named[p]
    BY <2>4, <2>5
  <2> QED BY <2>2, <2>7, <2>8 DEF Typed
<1>8. CASE Relink
  BY <1>8, FrameTyped
<1>9. CASE Inserted
  <2>1. CASE region' = region
    BY <1>2, <2>1
  <2>2. CASE region' # region
    <3>1. HasKind(region, state, "state") /\ region' = [region EXCEPT ![state].root = ret]
      BY <1>9, <2>2 DEF Inserted
    <3>2. [region[state] EXCEPT !.root = ret] \in Blocks
      BY <1>1, <3>1 DEF HasKind, Typed, Blocks, TypeInv, TypeOK
    <3>3. region' = [region EXCEPT ![state] = [region[state] EXCEPT !.root = ret]]
      BY <3>1
    <3> QED BY <1>1, <3>2, <3>3, StoreTyped
  <2> QED BY <2>1, <2>2
<1> QED BY <1>2, <1>3, <1>4, <1>5, <1>6, <1>7, <1>8, <1>9
        DEF Next, vars, scmVars, Call, Descend, Found, Missed, NoRoom, Crash, Fault, Astray,
            Ends, Killed

LEMMA WalkStep ==
  ASSUME TypeInv, [Next]_vars
  PROVE  WalkInv'
<1>1. ASSUME NEW op \in {"insert", "exists"}, NEW w \in Words, Call(op, w)
      PROVE  WalkInv'
  BY <1>1 DEF Call, scmVars, WalkInv, HasKind, state, Pointer
<1>2. CASE Descend \/ UNCHANGED vars
  BY <1>2 DEF TypeInv, WalkInv, Descend, vars, avlVars, scmVars, HasKind, state, Pointer
<1>3. CASE pc' # "walk"
  BY <1>3 DEF WalkInv
<1>4. ASSUME NEW truncate \in BOOLEAN, avl_open(truncate) PROVE pc' = "idle"
  BY <1>4 DEF avl_open, MayOpen, TypeInv, Inv, NameInv
<1>5. avl_close \/ Found \/ Missed \/ Inserted \/ Crash \/ Fault \/ Astray => pc' = "idle"
  BY DEF avl_close, Found, Missed, Inserted, Returns, Crash, Fault, Astray, Ends
<1>6. CountAgain \/ NewNode \/ NewName \/ NoRoom \/ Relink => pc' \in {"name", "back"}
  BY DEF CountAgain, NewNode, NewName, NoRoom, BackWith, Relink
<1> QED BY <1>1, <1>2, <1>3, <1>4, <1>5, <1>6 DEF Next

LEMMA HandleStep ==
  ASSUME TypeInv, [Next]_vars, Inv'
  PROVE  TypeOK'
<1> DEFINE Frames == [node : Int, side : {"left", "right"}]
<1>1. DOMAIN region' \subseteq Nat /\ \A p \in DOMAIN region' : region'[p] \in Blocks
  BY RegionStep DEF Typed
<1>2. layout' \in Layouts /\ stored' \in Nat \cup {Junk} /\ utilized' \in Nat \cup {Closed}
  BY DEF Inv, FileInv
<1>3. /\ pc \in {"idle", "walk", "name", "back"}
      /\ call \in [op : {"insert", "exists"}, word : Words] \cup {NoCall}
      /\ cur \in Int /\ ret \in Int /\ stack \in Seq(Frames)
      /\ answer \in Int /\ opens \in Nat /\ crashes \in Nat
  BY DEF TypeInv, TypeOK
<1>4. marked \in BOOLEAN /\ clean \in BOOLEAN
  BY DEF TypeInv, TypeOK
<1>5. NULL \in Int /\ <<>> \in Seq(Frames)
  BY DEF NULL
<1>6. Typed(region)
  BY DEF TypeInv, TypeOK, Typed
<1> DEFINE Rest == /\ pc' \in {"idle", "walk", "name", "back"}
                   /\ call' \in [op : {"insert", "exists"}, word : Words] \cup {NoCall}
                   /\ cur' \in Int /\ ret' \in Int /\ stack' \in Seq(Frames)
                   /\ answer' \in Int /\ opens' \in Nat /\ crashes' \in Nat
           Flags == marked' \in BOOLEAN /\ clean' \in BOOLEAN
<1>7. ASSUME NEW p \in DOMAIN region PROVE
        /\ region[p].kind = "node" => /\ region[p].left \in Int /\ region[p].right \in Int
                                      /\ region[p].count \in Int
        /\ region[p].kind = "state" => region[p].root \in Int
  BY <1>6 DEF Typed, Blocks
<1>8. CASE \E truncate \in BOOLEAN : avl_open(truncate)
  <2>1. PICK truncate \in BOOLEAN : avl_open(truncate)
    BY <1>8
  <2>2. /\ pc' = pc /\ call' = call /\ cur' = cur /\ stack' = stack /\ ret' = ret
        /\ answer' = answer /\ crashes' = crashes /\ opens' = opens + 1
    BY <2>1 DEF avl_open
  <2>3. Rest
    BY <1>3, <2>2
  <2>4. /\ marked' = marked \/ marked' = TRUE
        /\ clean' = clean \/ clean' = TRUE
    BY <2>1 DEF avl_open, OpenFile
  <2>5. Flags
    BY <1>4, <2>4
  <2> QED BY <1>1, <1>2, <2>3, <2>5 DEF TypeOK
<1>9. CASE avl_close
  <2>1. Rest
    BY <1>3, <1>9 DEF avl_close
  <2>2. marked' = marked /\ clean' \in BOOLEAN
    BY <1>9 DEF avl_close, scm_close
  <2> QED BY <1>1, <1>2, <1>4, <2>1, <2>2 DEF TypeOK
<1>10. CASE \E op \in {"insert", "exists"}, w \in Words : Call(op, w)
  <2>1. PICK op \in {"insert", "exists"}, w \in Words : Call(op, w)
    BY <1>10
  <2>2. region[state].root \in Int
    BY <1>7, <2>1 DEF Call, HasKind
  <2>3. Rest
    BY <1>3, <2>1, <2>2 DEF Call
  <2>4. marked' = marked /\ clean' = clean
    BY <2>1 DEF Call, scmVars
  <2> QED BY <1>1, <1>2, <1>4, <2>3, <2>4 DEF TypeOK
<1>11. CASE Descend
  <2>1. cur' \in Int
    BY <1>7, <1>11 DEF Descend, Legible, HasKind
  <2>2. stack' \in Seq(Frames)
    <3>1. [node |-> cur, side |-> Side] \in Frames
      BY <1>3 DEF Side
    <3>2. stack' \in {stack, Append(stack, [node |-> cur, side |-> Side])}
      BY <1>11 DEF Descend
    <3> HIDE DEF Frames
    <3> QED BY <1>3, <3>1, <3>2
  <2>3. Rest
    BY <1>3, <1>11, <2>1, <2>2 DEF Descend
  <2>4. marked' = marked /\ clean' = clean
    BY <1>11 DEF Descend, scmVars
  <2> QED BY <1>1, <1>2, <1>4, <2>3, <2>4 DEF TypeOK
<1>12. CASE Found \/ Missed \/ Inserted
  <2>1. Found => region[cur].count \in Int
    BY <1>7 DEF Found, Legible, HasKind
  <2>2. PICK a \in Int : Returns(a)
    BY <1>12, <2>1 DEF Found, Missed, Inserted
  <2>3. Rest
    BY <1>3, <1>5, <2>2 DEF Returns
  <2>4. marked' = marked /\ clean' = clean
    BY <1>12, <2>2 DEF Found, Missed, Inserted, Returns, scmVars
  <2> QED BY <1>1, <1>2, <1>4, <2>3, <2>4 DEF TypeOK
<1>13. CASE CountAgain \/ NewName \/ NoRoom
  <2>1. PICK q \in Int : BackWith(q)
    BY <1>3, <1>5, <1>13 DEF CountAgain, NewName, NoRoom
  <2>2. Rest
    BY <1>3, <2>1 DEF BackWith
  <2>3. marked' = marked /\ clean' = clean
    BY <2>1 DEF BackWith
  <2> QED BY <1>1, <1>2, <1>4, <2>2, <2>3 DEF TypeOK
<1>14. CASE NewNode
  <2>1. Pointer(utilized) \in Int
    <3>1. utilized # Closed
      BY <1>14 DEF NewNode, TypeInv, Inv, NameInv
    <3> QED BY <3>1, NewTyped, AllocatedTyped
  <2>2. Rest
    BY <1>3, <1>14, <2>1 DEF NewNode
  <2>3. marked' = marked /\ clean' = clean
    BY <1>14 DEF NewNode
  <2> QED BY <1>1, <1>2, <1>4, <2>2, <2>3 DEF TypeOK
<1>15. CASE Relink
  <2>1. ret' \in Int
    BY <1>15, FrameTyped
  <2>2. stack' \in Seq(Frames)
    <3>1. stack' = SubSeq(stack, 1, Len(stack) - 1) /\ stack # <<>>
      BY <1>15 DEF Relink
    <3> HIDE DEF Frames
    <3>2. Len(stack) \in Nat /\ Len(stack) # 0
      BY <1>3, <3>1
    <3> QED BY <1>3, <3>1, <3>2
  <2>3. Rest
    BY <1>3, <1>15, <2>1, <2>2 DEF Relink
  <2>4. marked' = marked /\ clean' = clean
    BY <1>15 DEF Relink
  <2> QED BY <1>1, <1>2, <1>4, <2>3, <2>4 DEF TypeOK
<1>16. CASE Crash \/ Fault \/ Astray
  <2>1. Ends /\ crashes' \in {crashes, crashes + 1}
    BY <1>16 DEF Crash, Fault, Astray
  <2>2. Rest
    BY <1>3, <1>5, <2>1 DEF Ends
  <2>3. marked' = marked /\ clean' \in BOOLEAN
    BY <2>1 DEF Ends, Killed
  <2> QED BY <1>1, <1>2, <1>4, <2>2, <2>3 DEF TypeOK
<1>17. CASE UNCHANGED vars
  <2>1. Rest /\ marked' = marked /\ clean' = clean
    BY <1>3, <1>17 DEF vars, avlVars, scmVars
  <2> QED BY <1>1, <1>2, <1>4, <2>1 DEF TypeOK
<1> QED BY <1>8, <1>9, <1>10, <1>11, <1>12, <1>13, <1>14, <1>15, <1>16, <1>17 DEF Next

\* Every reachable state of the word set has its type, for any words, files,
\* sessions, crashes and unreadable counters: a tree that is damaged still has
\* nodes whose depths are naturals, and no store turns one kind of block into
\* another.
THEOREM TypeCorrect == Spec => []TypeOK
<1>1. Init => TypeOK /\ WalkInv
  <2> SUFFICES ASSUME Init PROVE TypeOK /\ WalkInv
    OBVIOUS
  <2>1. region = <<>> /\ DOMAIN region = {}
    BY DEF Init, ScmInit
  <2>2. marked \in BOOLEAN /\ clean \in BOOLEAN
    BY DEF Init, ScmInit
  <2> QED BY <2>1, <2>2 DEF Init, ScmInit, TypeOK, WalkInv, Closed, NULL
<1>2. Inv /\ Inv' /\ TypeOK /\ WalkInv /\ [Next]_vars => (TypeOK /\ WalkInv)'
  BY HandleStep, WalkStep DEF TypeInv
<1> QED BY <1>1, <1>2, Invariance, PTL DEF Spec

-----------------------------------------------------------------------------
(* Search trees.  S is the set of nodes of the tree at p; B gives the nodes  *)
(* of each of its subtrees.  Left and right differ in nothing but the order, *)
(* so that a side is a parameter where it can be.                            *)

Sides == {"left", "right"}
Other(s) == IF s = "left" THEN "right" ELSE "left"
Kid(r, p, s) == IF s = "left" THEN r[p].left ELSE r[p].right
Before(s, a, b) == IF s = "left" THEN a < b ELSE b < a

Solid(r, p) ==
  /\ p \in Nat /\ p \in DOMAIN r /\ r[p] \in NodeBlocks
  /\ Legible(r, p) /\ WordAt(r, p) \in Int

\* A node of depth h over subtrees of depths a and b.
Level(h, a, b) == h = (IF a > b THEN a + 1 ELSE b + 1) /\ a - b \in -1 .. 1

\* The node p with the words of A on its side s and those of C on the other.
Apex(r, p, s, A, C) ==
  /\ Solid(r, p)
  /\ \A u \in A : Before(s, WordAt(r, u), WordAt(r, p))
  /\ \A u \in C : Before(s, WordAt(r, p), WordAt(r, u))
  /\ Level(r[p].depth, delta(r, Kid(r, p, s)), delta(r, Kid(r, p, Other(s))))

SubOf(B, q) == IF q = NULL THEN {} ELSE B[q]

Whole(r, S, B, q) ==
  /\ r[q].left \in S \cup {NULL} /\ r[q].right \in S \cup {NULL}
  /\ B[q] = {q} \cup SubOf(B, r[q].left) \cup SubOf(B, r[q].right)
  /\ \A u \in B[q] : B[u] \subseteq B[q]
  /\ Apex(r, q, "left", SubOf(B, r[q].left), SubOf(B, r[q].right))

TreeBy(r, p, S, B) ==
  /\ B \in [S -> SUBSET S]
  /\ p = NULL => S = {}
  /\ p # NULL => p \in S /\ B[p] = S
  /\ \A q \in S : Whole(r, S, B, q)

IsTree(r, p, S) == \E B : TreeBy(r, p, S, B)

LEMMA SolidNull ==
  ASSUME NEW r, NEW p, Solid(r, p)
  PROVE  /\ p # NULL /\ r[p].depth \in Nat /\ delta(r, p) = r[p].depth
         /\ r[p].left \in Int /\ r[p].right \in Int
BY DEF Solid, NULL, NodeBlocks, delta

LEMMA EmptyTree ==
  ASSUME NEW r
  PROVE  IsTree(r, NULL, {})
<1>1. TreeBy(r, NULL, {}, [q \in {} |-> {}])
  BY DEF TreeBy
<1> QED BY <1>1 DEF IsTree

LEMMA NullTree ==
  ASSUME NEW r, NEW S, NEW p, IsTree(r, p, S)
  PROVE  /\ (p = NULL) <=> (S = {})
         /\ p # NULL => p \in S /\ Solid(r, p)
         /\ \A q \in S : Solid(r, q)
         /\ delta(r, p) \in Int /\ delta(r, p) >= -1 /\ (delta(r, p) = -1 <=> p = NULL)
<1>1. PICK B : TreeBy(r, p, S, B)
  BY DEF IsTree
<1>2. \A q \in S : Solid(r, q)
  BY <1>1 DEF TreeBy, Whole, Apex
<1>3. p # NULL => p \in S
  BY <1>1 DEF TreeBy
<1>4. CASE p = NULL
  BY <1>1, <1>2, <1>4 DEF TreeBy, delta, NULL
<1>5. CASE p # NULL
  <2>1. r[p].depth \in Nat /\ delta(r, p) = r[p].depth
    BY <1>2, <1>3, <1>5, SolidNull
  <2> QED BY <1>2, <1>3, <1>5, <2>1
<1> QED BY <1>4, <1>5

\* The two sides of a node change places.
LEMMA ApexTurns ==
  ASSUME NEW r, NEW p, NEW s \in Sides, NEW A, NEW C, Apex(r, p, s, A, C),
         delta(r, Kid(r, p, "left")) \in Int, delta(r, Kid(r, p, "right")) \in Int
  PROVE  Apex(r, p, Other(s), C, A)
<1>1. CASE s = "left"
  <2>1. Other(s) = "right" /\ Other(Other(s)) = "left"
    BY <1>1 DEF Other
  <2>2. Level(r[p].depth, delta(r, Kid(r, p, "right")), delta(r, Kid(r, p, "left")))
    BY <1>1, <2>1 DEF Apex, Level
  <2> QED BY <1>1, <2>1, <2>2 DEF Apex, Before
<1>2. CASE s = "right"
  <2>1. Other(s) = "left" /\ Other(Other(s)) = "right"
    BY <1>2 DEF Other
  <2>2. Level(r[p].depth, delta(r, Kid(r, p, "left")), delta(r, Kid(r, p, "right")))
    BY <1>2, <2>1 DEF Apex, Level
  <2> QED BY <1>2, <2>1, <2>2 DEF Apex, Before
<1> QED BY <1>1, <1>2 DEF Sides

\* A subtree of a tree is a tree.
LEMMA SubTree ==
  ASSUME NEW r, NEW S, NEW p, NEW B, TreeBy(r, p, S, B), NEW q \in S \cup {NULL}
  PROVE  IsTree(r, q, SubOf(B, q)) /\ SubOf(B, q) \subseteq S
<1>1. CASE q = NULL
  BY <1>1, EmptyTree DEF SubOf
<1>2. CASE q # NULL
  <2> DEFINE T == B[q]
             C == [u \in T |-> B[u]]
  <2>1. q \in S /\ T \subseteq S /\ SubOf(B, q) = T /\ q \in T
    BY <1>2 DEF TreeBy, Whole, SubOf
  <2>2. \A u \in T : B[u] \subseteq T
    BY <2>1 DEF TreeBy, Whole
  <2>3. \A u \in S : u \in B[u]
    BY DEF TreeBy, Whole
  <2>4. ASSUME NEW u \in T
        PROVE  Whole(r, T, C, u)
    <3>1. u \in S /\ Whole(r, S, B, u) /\ C[u] = B[u]
      BY <2>1 DEF TreeBy
    <3>2. ASSUME NEW v \in {r[u].left, r[u].right}
          PROVE  v \in T \cup {NULL} /\ SubOf(C, v) = SubOf(B, v)
      <4>1. CASE v = NULL BY <4>1 DEF SubOf
      <4>2. CASE v # NULL
        <5>1. v \in S /\ SubOf(B, v) = B[v] /\ B[v] \subseteq B[u]
          BY <3>1, <4>2 DEF Whole, SubOf
        <5>2. v \in T
          BY <2>2, <2>3, <5>1
        <5> QED BY <4>2, <5>2 DEF SubOf
      <4> QED BY <4>1, <4>2
    <3>3. \A v \in B[u] : C[v] \subseteq C[u]
      BY <2>2, <3>1 DEF Whole
    <3> QED BY <3>1, <3>2, <3>3 DEF Whole
  <2>5. C \in [T -> SUBSET T]
    BY <2>2
  <2>6. TreeBy(r, q, T, C)
    BY <1>2, <2>1, <2>4, <2>5 DEF TreeBy
  <2> QED BY <2>1, <2>6 DEF IsTree
<1> QED BY <1>1, <1>2

\* A tree is its root and the trees on its two sides.
LEMMA TreeParts ==
  ASSUME NEW r, NEW S, NEW p, IsTree(r, p, S), p # NULL, NEW s \in Sides
  PROVE  \E A, C : /\ S = {p} \cup A \cup C
                   /\ IsTree(r, Kid(r, p, s), A)
                   /\ IsTree(r, Kid(r, p, Other(s)), C)
                   /\ Apex(r, p, s, A, C)
<1>1. PICK B : TreeBy(r, p, S, B)
  BY DEF IsTree
<1> DEFINE A == SubOf(B, r[p].left)
           C == SubOf(B, r[p].right)
<1>2. p \in S /\ B[p] = S /\ Whole(r, S, B, p)
  BY <1>1 DEF TreeBy
<1>3. IsTree(r, r[p].left, A) /\ IsTree(r, r[p].right, C)
  <2>1. r[p].left \in S \cup {NULL} /\ r[p].right \in S \cup {NULL}
    BY <1>2 DEF Whole
  <2> QED BY <1>1, <2>1, SubTree
<1>4. S = {p} \cup A \cup C /\ Apex(r, p, "left", A, C)
  BY <1>2 DEF Whole
<1> HIDE DEF A, C
<1>5. Kid(r, p, "left") = r[p].left /\ Kid(r, p, "right") = r[p].right
  BY DEF Kid
<1>6. CASE s = "left"
  <2>1. Other(s) = "right" BY <1>6 DEF Other
  <2> QED BY <1>3, <1>4, <1>5, <1>6, <2>1
<1>7. CASE s = "right"
  <2>1. Other(s) = "left" /\ Other("left") = "right" BY <1>7 DEF Other
  <2>2. delta(r, Kid(r, p, "left")) \in Int /\ delta(r, Kid(r, p, "right")) \in Int
    BY <1>3, <1>5, NullTree
  <2>3. Apex(r, p, "right", C, A)
    BY <1>4, <2>1, <2>2, ApexTurns DEF Sides
  <2>4. S = {p} \cup C \cup A
    BY <1>4
  <2> QED BY <1>3, <1>5, <1>7, <2>1, <2>3, <2>4
<1> QED BY <1>6, <1>7 DEF Sides

\* And two trees with a node between them are a tree.
LEMMA TreeJoins ==
  ASSUME NEW r, NEW p, NEW s \in Sides, NEW A, NEW C,
         IsTree(r, Kid(r, p, s), A), IsTree(r, Kid(r, p, Other(s)), C),
         Apex(r, p, s, A, C)
  PROVE  IsTree(r, p, {p} \cup A \cup C)
<1>1. ASSUME NEW L, NEW R, IsTree(r, r[p].left, L), IsTree(r, r[p].right, R),
             Apex(r, p, "left", L, R)
      PROVE  IsTree(r, p, {p} \cup L \cup R)
  <2>1. PICK Bl : TreeBy(r, r[p].left, L, Bl)
    BY <1>1 DEF IsTree
  <2>2. PICK Br : TreeBy(r, r[p].right, R, Br)
    BY <1>1 DEF IsTree
  <2> DEFINE S == {p} \cup L \cup R
             B == [q \in S |-> IF q = p THEN S ELSE IF q \in L THEN Bl[q] ELSE Br[q]]
  <2>3. Solid(r, p) /\ p # NULL
    BY <1>1, SolidNull DEF Apex
  <2>4. p \notin L /\ p \notin R /\ L \cap R = {}
    <3>1. \A u \in L \cup R \cup {p} : WordAt(r, u) \in Int
      BY <1>1, <2>3, NullTree DEF Solid
    <3>2. \A u \in L : WordAt(r, u) < WordAt(r, p)
      BY <1>1 DEF Apex, Before
    <3>3. \A u \in R : WordAt(r, p) < WordAt(r, u)
      BY <1>1 DEF Apex, Before
    <3> QED BY <3>1, <3>2, <3>3
  <2>5. NULL \notin L /\ NULL \notin R
    BY <1>1, NullTree, SolidNull
  <2>6. /\ B \in [S -> SUBSET S] /\ B[p] = S
        /\ \A q \in L : B[q] = Bl[q] /\ Bl[q] \subseteq L
        /\ \A q \in R : B[q] = Br[q] /\ Br[q] \subseteq R
    BY <2>1, <2>2, <2>4 DEF TreeBy
  <2>7. SubOf(B, r[p].left) = L /\ SubOf(B, r[p].right) = R
    BY <2>1, <2>2, <2>6 DEF TreeBy, SubOf
  <2>8. r[p].left \in L \cup {NULL} /\ r[p].right \in R \cup {NULL}
    BY <2>1, <2>2 DEF TreeBy
  <2> HIDE DEF B
  <2>9. Whole(r, S, B, p)
    <3>1. \A u \in B[p] : B[u] \subseteq B[p]
      BY <2>6
    <3> QED BY <1>1, <2>6, <2>7, <2>8, <3>1 DEF Whole
  <2>10. ASSUME NEW q \in L PROVE Whole(r, S, B, q)
    <3>1. Whole(r, L, Bl, q)
      BY <2>1 DEF TreeBy
    <3>2. /\ SubOf(B, r[q].left) = SubOf(Bl, r[q].left)
          /\ SubOf(B, r[q].right) = SubOf(Bl, r[q].right)
      BY <2>6, <3>1 DEF Whole, SubOf
    <3>3. B[q] = Bl[q] /\ \A u \in B[q] : B[u] = Bl[u]
      BY <2>6
    <3> QED BY <3>1, <3>2, <3>3 DEF Whole
  <2>11. ASSUME NEW q \in R PROVE Whole(r, S, B, q)
    <3>1. Whole(r, R, Br, q)
      BY <2>2 DEF TreeBy
    <3>2. /\ SubOf(B, r[q].left) = SubOf(Br, r[q].left)
          /\ SubOf(B, r[q].right) = SubOf(Br, r[q].right)
      BY <2>6, <3>1 DEF Whole, SubOf
    <3>3. B[q] = Br[q] /\ \A u \in B[q] : B[u] = Br[u]
      BY <2>6
    <3> QED BY <3>1, <3>2, <3>3 DEF Whole
  <2>12. TreeBy(r, p, S, B)
    BY <2>3, <2>6, <2>9, <2>10, <2>11 DEF TreeBy
  <2> QED BY <2>12 DEF IsTree
<1>2. Kid(r, p, "left") = r[p].left /\ Kid(r, p, "right") = r[p].right
  BY DEF Kid
<1>3. CASE s = "left"
  <2>1. Other(s) = "right" BY <1>3 DEF Other
  <2> QED BY <1>1, <1>2, <1>3, <2>1
<1>4. CASE s = "right"
  <2>1. Other(s) = "left" BY <1>4 DEF Other
  <2>2. delta(r, Kid(r, p, "left")) \in Int /\ delta(r, Kid(r, p, "right")) \in Int
    BY <1>4, <2>1, NullTree
  <2>3. Apex(r, p, "left", C, A)
    BY <1>4, <2>1, <2>2, ApexTurns
  <2>4. IsTree(r, p, {p} \cup C \cup A)
    BY <1>1, <1>2, <1>4, <2>1, <2>3
  <2>5. {p} \cup C \cup A = {p} \cup A \cup C
    OBVIOUS
  <2> QED BY <2>4, <2>5
<1> QED BY <1>3, <1>4 DEF Sides

\* s has the node u of r, with the same links, depth and word.
SameNode(r, s, u) ==
  /\ Solid(s, u) /\ WordAt(s, u) = WordAt(r, u)
  /\ s[u].left = r[u].left /\ s[u].right = r[u].right /\ s[u].depth = r[u].depth

\* A tree all of whose nodes stay is a tree.
LEMMA TreeStays ==
  ASSUME NEW r, NEW s, NEW p, NEW S, IsTree(r, p, S), \A u \in S : SameNode(r, s, u)
  PROVE  IsTree(s, p, S) /\ delta(s, p) = delta(r, p)
<1>1. PICK B : TreeBy(r, p, S, B)
  BY DEF IsTree
<1>2. \A u \in S \cup {NULL} : delta(s, u) = delta(r, u)
  BY DEF SameNode, delta
<1>3. ASSUME NEW q \in S PROVE Whole(s, S, B, q)
  <2>1. Whole(r, S, B, q) /\ SameNode(r, s, q) /\ B \in [S -> SUBSET S]
    BY <1>1 DEF TreeBy
  <2>2. /\ s[q].left = r[q].left /\ s[q].right = r[q].right
        /\ r[q].left \in S \cup {NULL} /\ r[q].right \in S \cup {NULL}
    BY <2>1 DEF SameNode, Whole
  <2>3. SubOf(B, r[q].left) \subseteq S /\ SubOf(B, r[q].right) \subseteq S
    BY <2>1, <2>2 DEF SubOf
  <2>4. \A u \in S : WordAt(s, u) = WordAt(r, u)
    BY DEF SameNode
  <2>5. Apex(s, q, "left", SubOf(B, r[q].left), SubOf(B, r[q].right))
    BY <1>2, <2>1, <2>2, <2>3, <2>4 DEF Whole, Apex, SameNode, Kid, Other
  <2> QED BY <2>1, <2>2, <2>5 DEF Whole
<1>4. TreeBy(s, p, S, B)
  BY <1>1, <1>3 DEF TreeBy
<1>5. p \in S \cup {NULL}
  BY <1>1 DEF TreeBy
<1> QED BY <1>2, <1>4, <1>5 DEF IsTree

-----------------------------------------------------------------------------
(* What a frame of update does to the tree below it.                         *)

\* t is r but for links and depths of the nodes F.
Restored(r, t, F) ==
  Typed(t) /\ Relinked(r, t) /\ \A u \in DOMAIN r \ F : t[u] = r[u]

LEMMA TypedBlocked ==
  ASSUME NEW r, Typed(r)
  PROVE  Blocked(r)
BY DEF Typed, Blocked, Blocks, Shaped, StateBytes, NodeBytes

LEMMA RestoredTwice ==
  ASSUME NEW r, NEW s, NEW t, NEW F, NEW G, Restored(r, s, F), Restored(s, t, G)
  PROVE  Restored(r, t, F \cup G)
<1>1. Relinked(r, t)
  BY RelinkedTwice DEF Restored
<1>2. DOMAIN s = DOMAIN r
  BY DEF Restored, Relinked
<1> QED BY <1>1, <1>2 DEF Restored

LEMMA RestoredMore ==
  ASSUME NEW r, NEW t, NEW F, NEW G, Restored(r, t, F), F \subseteq G
  PROVE  Restored(r, t, G)
BY DEF Restored

LEMMA RestoredNodes ==
  ASSUME NEW r, NEW t, NEW F, Restored(r, t, F), NEW u, Solid(r, u)
  PROVE  /\ Solid(t, u) /\ WordAt(t, u) = WordAt(r, u)
         /\ u \notin F => SameNode(r, t, u)
<1>1. SameBlock(r[u], t[u]) /\ SameBlock(r[r[u].item], t[r[u].item])
  BY DEF Restored, Relinked, Solid, Legible, HasKind
<1>2. t[u].item = r[u].item /\ t[u].kind = "node" /\ u \in DOMAIN t
  BY <1>1 DEF SameBlock, Solid, Legible, HasKind, Restored, Relinked
<1>3. Legible(t, u) /\ WordAt(t, u) = WordAt(r, u)
  BY <1>1, <1>2 DEF SameBlock, Solid, Legible, HasKind, WordAt, Restored, Relinked
<1>4. t[u] \in NodeBlocks
  BY <1>2, NodesTyped DEF Restored, HasKind
<1> QED BY <1>2, <1>3, <1>4 DEF Solid, SameNode, Restored

LEMMA RestoredTree ==
  ASSUME NEW r, NEW t, NEW F, Restored(r, t, F), NEW p, NEW S, IsTree(r, p, S),
         S \cap F = {}
  PROVE  IsTree(t, p, S) /\ delta(t, p) = delta(r, p)
<1>1. \A u \in S : SameNode(r, t, u)
  BY NullTree, RestoredNodes
<1> QED BY <1>1, TreeStays

\* One node replaced by one with the same word and count.
LEMMA NodeRestored ==
  ASSUME NEW r, Typed(r), NEW p \in DOMAIN r, r[p] \in NodeBlocks, NEW b \in NodeBlocks,
         b.item = r[p].item, b.count = r[p].count
  PROVE  Restored(r, [r EXCEPT ![p] = b], {p})
<1> DEFINE t == [r EXCEPT ![p] = b]
<1>1. b \in Blocks
  BY DEF NodeBlocks, Blocks
<1>2. Typed(t)
  BY <1>1, StoreTyped
<1>3. Blocked(t) /\ Blocked(r)
  BY <1>2, TypedBlocked
<1>4. b.bytes = r[p].bytes /\ b.kind = r[p].kind /\ r[p].kind = "node"
  BY DEF NodeBlocks
<1>5. Relinked(r, t)
  BY <1>3, <1>4 DEF Relinked, SameBlock, Blocked
<1> QED BY <1>2, <1>5 DEF Restored

LEMMA LinkFields ==
  ASSUME NEW r, Typed(r), NEW p \in DOMAIN r, r[p] \in NodeBlocks, NEW s \in Sides,
         NEW v \in Int
  PROVE  LET t == Link(r, p, s, v)
         IN /\ Restored(r, t, {p}) /\ t[p] \in NodeBlocks
            /\ Kid(t, p, s) = v /\ Kid(t, p, Other(s)) = Kid(r, p, Other(s))
            /\ t[p].depth = r[p].depth
<1>1. CASE s = "left"
  <2> DEFINE b == [r[p] EXCEPT !.left = v]
  <2>1. Link(r, p, s, v) = [r EXCEPT ![p] = b]
    BY <1>1 DEF Link
  <2>2. /\ b \in NodeBlocks /\ b.item = r[p].item /\ b.count = r[p].count
        /\ b.left = v /\ b.right = r[p].right /\ b.depth = r[p].depth
    BY DEF NodeBlocks
  <2> HIDE DEF b
  <2>3. [r EXCEPT ![p] = b][p] = b
    OBVIOUS
  <2> QED BY <1>1, <2>1, <2>2, <2>3, NodeRestored DEF Kid, Other
<1>2. CASE s = "right"
  <2> DEFINE b == [r[p] EXCEPT !.right = v]
  <2>1. Link(r, p, s, v) = [r EXCEPT ![p] = b]
    BY <1>2 DEF Link
  <2>2. /\ b \in NodeBlocks /\ b.item = r[p].item /\ b.count = r[p].count
        /\ b.right = v /\ b.left = r[p].left /\ b.depth = r[p].depth
    BY DEF NodeBlocks
  <2> HIDE DEF b
  <2>3. [r EXCEPT ![p] = b][p] = b
    OBVIOUS
  <2> QED BY <1>2, <2>1, <2>2, <2>3, NodeRestored DEF Kid, Other
<1> QED BY <1>1, <1>2 DEF Sides

\* The depth that p should have.
Height(r, p) == depth(r, r[p].left, r[p].right)

LEMMA DeepenFields ==
  ASSUME NEW r, Typed(r), NEW p \in DOMAIN r, r[p] \in NodeBlocks,
         delta(r, r[p].left) \in Nat \cup {-1}, delta(r, r[p].right) \in Nat \cup {-1}
  PROVE  LET t == Deepen(r, p)
         IN /\ Restored(r, t, {p}) /\ t[p] \in NodeBlocks
            /\ \A s \in Sides : Kid(t, p, s) = Kid(r, p, s)
            /\ t[p].left = r[p].left /\ t[p].right = r[p].right
            /\ t[p].depth = Height(r, p)
            /\ r[p].left # p /\ r[p].right # p => Height(t, p) = Height(r, p)
<1> DEFINE d == Height(r, p)
           b == [r[p] EXCEPT !.depth = d]
<1>1. d \in Nat
  BY DEF Height, depth
<1>2. Deepen(r, p) = [r EXCEPT ![p] = b]
  BY DEF Deepen, Height
<1> HIDE DEF d
<1>3. /\ b \in NodeBlocks /\ b.item = r[p].item /\ b.count = r[p].count
      /\ b.left = r[p].left /\ b.right = r[p].right /\ b.depth = d
  BY <1>1 DEF NodeBlocks
<1> HIDE DEF b
<1>4. [r EXCEPT ![p] = b][p] = b /\ \A u : u # p => [r EXCEPT ![p] = b][u] = r[u]
  OBVIOUS
<1>5. Restored(r, [r EXCEPT ![p] = b], {p})
  BY <1>3, NodeRestored
<1> QED BY <1>2, <1>3, <1>4, <1>5 DEF Kid, d, Height, depth, delta

Rotate(r, p, s) == IF s = "left" THEN rotate_right(r, p) ELSE rotate_left(r, p)

LEMMA RotateIs ==
  ASSUME NEW r, NEW p, NEW s \in Sides
  PROVE  LET q == Kid(r, p, s)
             linked == Link(Link(r, p, s, Kid(r, q, Other(s))), q, Other(s), p)
         IN Rotate(r, p, s) = [region |-> Deepen(Deepen(linked, p), q), root |-> q]
BY DEF Rotate, Kid, Link, Other, rotate_right, rotate_left, Sides

\* The kid q of p on side s takes the place of p.
Lifted(r, t, p, q, s) ==
  /\ Restored(r, t, {p, q})
  /\ Kid(t, p, s) = Kid(r, q, Other(s)) /\ Kid(t, p, Other(s)) = Kid(r, p, Other(s))
  /\ Kid(t, q, s) = Kid(r, q, s) /\ Kid(t, q, Other(s)) = p
  /\ t[p].depth = Height(t, p) /\ t[q].depth = Height(t, q)

\* v is a node or NULL.
Sized(r, v) == (v = NULL) \/ (v \in DOMAIN r /\ r[v] \in NodeBlocks)

LEMMA SizedDelta ==
  ASSUME NEW r, Typed(r), NEW v, Sized(r, v)
  PROVE  v \in Int /\ delta(r, v) \in Nat \cup {-1}
BY DEF Sized, delta, Typed, NodeBlocks, NULL

LEMMA KidsSized ==
  ASSUME NEW r, NEW p, NEW s \in Sides
  PROVE  /\ {Kid(r, p, s), Kid(r, p, Other(s))} = {r[p].left, r[p].right}
         /\ Other(s) \in Sides /\ Other(Other(s)) = s /\ Other(s) # s
BY DEF Kid, Other, Sides

\* The node that is lifted, and the three subtrees, lie apart.
LEMMA RotateLifts ==
  ASSUME NEW r, Typed(r), NEW s \in Sides, NEW p, NEW q, q = Kid(r, p, s), p # q,
         p \in DOMAIN r, q \in DOMAIN r, r[p] \in NodeBlocks, r[q] \in NodeBlocks,
         NEW a, NEW b, NEW c,
         a = Kid(r, q, s), b = Kid(r, q, Other(s)), c = Kid(r, p, Other(s)),
         {a, b, c} \cap {p, q} = {}, Sized(r, a), Sized(r, b), Sized(r, c)
  PROVE  /\ Lifted(r, Rotate(r, p, s).region, p, q, s)
         /\ Rotate(r, p, s).root = q
<1> DEFINE one == Link(r, p, s, b)
           two == Link(one, q, Other(s), p)
           three == Deepen(two, p)
           four == Deepen(three, q)
<1>0. /\ p \in Nat /\ q \in Nat /\ p \in Int /\ b \in Int /\ Other(s) \in Sides
      /\ Other(Other(s)) = s
  BY KidsSized, SizedDelta DEF Typed
<1>1. Rotate(r, p, s) = [region |-> four, root |-> q]
  BY RotateIs
<1>2. /\ Restored(r, one, {p}) /\ one[p] \in NodeBlocks
      /\ Kid(one, p, s) = b /\ Kid(one, p, Other(s)) = c
  BY <1>0, LinkFields
<1>3. Typed(one) /\ one[q] = r[q] /\ DOMAIN one = DOMAIN r
      /\ \A v \in {a, b, c} : delta(one, v) \in Nat \cup {-1}
  <2>1. \A v \in {a, b, c} : v \in DOMAIN r => one[v] = r[v]
    BY <1>2 DEF Restored
  <2>3. \A v \in {a, b, c} : delta(one, v) = delta(r, v)
    BY <2>1 DEF delta, Sized
  <2> QED BY <1>2, <2>3, SizedDelta DEF Restored, Relinked
<1> HIDE DEF one
<1>4. /\ Restored(one, two, {q}) /\ two[q] \in NodeBlocks
      /\ Kid(two, q, Other(s)) = p /\ Kid(two, q, s) = a
  <2>1. Kid(one, q, s) = a
    BY <1>3 DEF Kid
  <2> QED BY <1>0, <1>3, <2>1, LinkFields
<1>5. /\ Typed(two) /\ DOMAIN two = DOMAIN r /\ two[p] = one[p]
      /\ Kid(two, p, s) = b /\ Kid(two, p, Other(s)) = c
      /\ \A v \in {a, b, c} : delta(two, v) \in Nat \cup {-1}
  <2>1. \A v \in {a, b, c} : v \in DOMAIN r => two[v] = one[v]
    BY <1>3, <1>4 DEF Restored
  <2>3. \A v \in {a, b, c} : delta(two, v) = delta(one, v)
    BY <2>1 DEF delta, Sized
  <2>4. two[p] = one[p]
    BY <1>3, <1>4 DEF Restored
  <2> QED BY <1>2, <1>3, <1>4, <2>3, <2>4 DEF Restored, Relinked, Kid
<1> HIDE DEF two
<1>6. /\ Restored(two, three, {p}) /\ three[p] \in NodeBlocks
      /\ Kid(three, p, s) = b /\ Kid(three, p, Other(s)) = c
      /\ three[p].depth = Height(three, p)
  <2>1. {two[p].left, two[p].right} = {b, c}
    BY <1>5, KidsSized
  <2>2. /\ delta(two, two[p].left) \in Nat \cup {-1} /\ delta(two, two[p].right) \in Nat \cup {-1}
        /\ two[p].left # p /\ two[p].right # p
    BY <1>5, <2>1
  <2>3. two[p] \in NodeBlocks
    BY <1>2, <1>5
  <2>4. p \in DOMAIN two /\ Typed(two)
    BY <1>5
  <2>5. /\ Restored(two, Deepen(two, p), {p}) /\ Deepen(two, p)[p] \in NodeBlocks
        /\ \A u \in Sides : Kid(Deepen(two, p), p, u) = Kid(two, p, u)
        /\ Deepen(two, p)[p].depth = Height(two, p)
        /\ Height(Deepen(two, p), p) = Height(two, p)
    BY ONLY <2>2, <2>3, <2>4, DeepenFields
  <2>6. /\ Kid(Deepen(two, p), p, s) = b /\ Kid(Deepen(two, p), p, Other(s)) = c
    BY <1>0, <1>5, <2>5
  <2> QED BY <2>5, <2>6
<1>7. /\ Typed(three) /\ DOMAIN three = DOMAIN r /\ three[q] = two[q]
      /\ Kid(three, q, Other(s)) = p /\ Kid(three, q, s) = a
      /\ \A v \in {a, b, c, p} : delta(three, v) \in Nat \cup {-1}
  <2>1. \A v \in {a, b, c} : v \in DOMAIN r => three[v] = two[v]
    BY <1>5, <1>6 DEF Restored
  <2>3. \A v \in {a, b, c} : delta(three, v) = delta(two, v)
    BY <2>1 DEF delta, Sized
  <2>4. three[q] = two[q]
    BY <1>5, <1>6 DEF Restored
  <2>5. delta(three, p) \in Nat \cup {-1}
    BY <1>6 DEF delta, NodeBlocks
  <2> QED BY <1>4, <1>5, <1>6, <2>3, <2>4, <2>5 DEF Restored, Relinked, Kid
<1> HIDE DEF three
<1>8. /\ Restored(three, four, {q})
      /\ Kid(four, q, s) = a /\ Kid(four, q, Other(s)) = p
      /\ four[q].depth = Height(four, q)
  <2>1. {three[q].left, three[q].right} = {a, p}
    BY <1>7, KidsSized
  <2>2. /\ delta(three, three[q].left) \in Nat \cup {-1} /\ delta(three, three[q].right) \in Nat \cup {-1}
        /\ three[q].left # q /\ three[q].right # q
    BY <1>7, <2>1
  <2>3. three[q] \in NodeBlocks
    BY <1>4, <1>7
  <2> QED BY <1>0, <1>7, <2>2, <2>3, DeepenFields
<1>9. four[p] = three[p]
  BY <1>7, <1>8 DEF Restored
<1>10. four[p].depth = Height(four, p) /\ Kid(four, p, s) = b /\ Kid(four, p, Other(s)) = c
  <2>1. {three[p].left, three[p].right} = {b, c}
    BY <1>6, KidsSized
  <2>2. \A v \in {b, c} : v \in DOMAIN r => four[v] = three[v]
    BY <1>7, <1>8 DEF Restored
  <2>3. \A v \in {b, c} : v \notin DOMAIN r /\ v # NULL => four[v] = three[v]
    <3>1. four = Deepen(three, q) OBVIOUS
    <3> QED BY <3>1 DEF Deepen
  <2>4. \A v \in {b, c} : delta(four, v) = delta(three, v)
    BY <2>2 DEF delta, Sized
  <2>5. Height(four, p) = Height(three, p)
    BY <1>9, <2>1, <2>4 DEF Height, depth
  <2> QED BY <1>6, <1>9, <2>5 DEF Kid
<1> HIDE DEF four
<1>11. Restored(r, four, {p, q})
  <2>1. Restored(r, two, {p} \cup {q})
    BY <1>2, <1>4, RestoredTwice
  <2>2. Restored(r, three, ({p} \cup {q}) \cup {p})
    BY <1>6, <2>1, RestoredTwice
  <2>3. Restored(r, four, (({p} \cup {q}) \cup {p}) \cup {q})
    BY <1>8, <2>2, RestoredTwice
  <2>4. (({p} \cup {q}) \cup {p}) \cup {q} = {p, q}
    OBVIOUS
  <2> QED BY <2>3, <2>4
<1> QED BY <1>1, <1>8, <1>10, <1>11 DEF Lifted

\* The node p lies between the words of A, on its side s, and those of C.
Splits(r, p, s, A, C) ==
  /\ Solid(r, p)
  /\ \A u \in A : Before(s, WordAt(r, u), WordAt(r, p))
  /\ \A u \in C : Before(s, WordAt(r, p), WordAt(r, u))

LEMMA SplitsApart ==
  ASSUME NEW r, NEW p, NEW s \in Sides, NEW A, NEW C, Splits(r, p, s, A, C),
         \A u \in A \cup C : Solid(r, u)
  PROVE  p \notin A /\ p \notin C /\ A \cap C = {}
<1>1. WordAt(r, p) \in Int /\ \A u \in A \cup C : WordAt(r, u) \in Int
  BY DEF Splits, Solid
<1>2. /\ \A u \in A : s = "left" => WordAt(r, u) < WordAt(r, p)
      /\ \A u \in A : s = "right" => WordAt(r, p) < WordAt(r, u)
      /\ \A u \in C : s = "left" => WordAt(r, p) < WordAt(r, u)
      /\ \A u \in C : s = "right" => WordAt(r, u) < WordAt(r, p)
  BY DEF Splits, Before
<1> QED BY <1>1, <1>2 DEF Sides

LEMMA SplitsStays ==
  ASSUME NEW r, NEW t, NEW F, Restored(r, t, F), NEW p, NEW s, NEW A, NEW C,
         Splits(r, p, s, A, C), \A u \in A \cup C : Solid(r, u)
  PROVE  Splits(t, p, s, A, C)
<1>1. WordAt(t, p) = WordAt(r, p) /\ Solid(t, p)
  BY RestoredNodes DEF Splits
<1>2. \A u \in A \cup C : WordAt(t, u) = WordAt(r, u)
  BY RestoredNodes
<1> QED BY <1>1, <1>2 DEF Splits

LEMMA TreeKids ==
  ASSUME NEW r, NEW p, NEW S, IsTree(r, p, S), NEW u \in S
  PROVE  /\ r[u].left \in S \cup {NULL} /\ r[u].right \in S \cup {NULL}
         /\ Sized(r, r[u].left) /\ Sized(r, r[u].right)
         /\ Kids(r, u) \subseteq S
<1>1. r[u].left \in S \cup {NULL} /\ r[u].right \in S \cup {NULL}
  BY DEF IsTree, TreeBy, Whole
<1>2. \A v \in S : Solid(r, v)
  BY NullTree
<1>3. \A v \in S : v \in DOMAIN r /\ r[v] \in NodeBlocks
  BY <1>2 DEF Solid
<1>4. Sized(r, r[u].left) /\ Sized(r, r[u].right)
  BY <1>1, <1>3 DEF Sized
<1>5. Kids(r, u) \subseteq S
  BY <1>1 DEF Kids
<1> QED BY <1>1, <1>4, <1>5

LEMMA TreeRoot ==
  ASSUME NEW r, NEW p, NEW S, IsTree(r, p, S)
  PROVE  Sized(r, p)
<1>1. p # NULL => Solid(r, p)
  BY NullTree
<1> QED BY <1>1 DEF Sized, Solid

\* Two trees with a node between them, whose depth is that of its place.
LEMMA Joined ==
  ASSUME NEW t, NEW p, NEW s \in Sides, NEW A, NEW C, NEW a, NEW c,
         a = Kid(t, p, s), c = Kid(t, p, Other(s)), IsTree(t, a, A), IsTree(t, c, C),
         Splits(t, p, s, A, C), t[p].depth = Height(t, p),
         delta(t, a) - delta(t, c) \in -1 .. 1
  PROVE  /\ IsTree(t, p, {p} \cup A \cup C)
         /\ delta(t, p) = IF delta(t, a) > delta(t, c) THEN delta(t, a) + 1
                                                       ELSE delta(t, c) + 1
<1>1. delta(t, a) \in Int /\ delta(t, c) \in Int
  BY NullTree
<1>2. Height(t, p) = IF delta(t, a) > delta(t, c) THEN delta(t, a) + 1
                                                  ELSE delta(t, c) + 1
  <2>1. CASE s = "left"
    BY <2>1 DEF Height, depth, Kid, Other
  <2>2. CASE s = "right"
    BY <1>1, <2>2 DEF Height, depth, Kid, Other
  <2> QED BY <2>1, <2>2 DEF Sides
<1>3. Apex(t, p, s, A, C)
  BY <1>2 DEF Apex, Splits, Level
<1>4. IsTree(t, p, {p} \cup A \cup C)
  BY <1>3, TreeJoins
<1>5. delta(t, p) = Height(t, p)
  BY SolidNull DEF Splits
<1> QED BY <1>2, <1>4, <1>5

\* A rotation of the tree S that is h deep after it.
Raised(r, turned, S, h) ==
  /\ turned.root \in S /\ Restored(r, turned.region, S)
  /\ IsTree(turned.region, turned.root, S)
  /\ delta(turned.region, turned.root) = h

\* The word went to the outer side of the kid q: one rotation lifts it.
LEMMA OuterTree ==
  ASSUME NEW r, Typed(r), NEW s \in Sides, NEW p, NEW q, q = Kid(r, p, s), q # NULL,
         NEW A, NEW E, NEW c, c = Kid(r, p, Other(s)), IsTree(r, q, A), IsTree(r, c, E),
         Splits(r, p, s, A, E), delta(r, Kid(r, q, s)) = delta(r, c) + 1,
         delta(r, Kid(r, q, Other(s))) = delta(r, c)
  PROVE  Raised(r, Rotate(r, p, s), {p} \cup A \cup E, delta(r, c) + 2)
<1> DEFINE t == Rotate(r, p, s).region
           a == Kid(r, q, s)
           b == Kid(r, q, Other(s))
           d == delta(r, c) + 1
<1>0. /\ Other(s) \in Sides /\ d \in Int
      /\ delta(r, c) = d - 1 /\ delta(r, a) = d /\ delta(r, b) = d - 1
      /\ d + 1 = delta(r, c) + 2
  BY KidsSized, NullTree
<1> HIDE DEF d
<1>1. PICK A1, A2 : /\ A = {q} \cup A1 \cup A2
                    /\ IsTree(r, a, A1) /\ IsTree(r, b, A2)
                    /\ Apex(r, q, s, A1, A2)
  BY TreeParts
<1>2. Splits(r, q, s, A1, A2)
  BY <1>1 DEF Apex, Splits
<1>3. /\ \A u \in A : Solid(r, u)
      /\ \A u \in E : Solid(r, u)
  BY NullTree
<1>4. p \notin A /\ p \notin E /\ A \cap E = {}
  BY <1>3, SplitsApart
<1>5. q \notin A1 /\ q \notin A2 /\ A1 \cap A2 = {}
  BY <1>1, <1>2, <1>3, SplitsApart
<1>6. /\ a \in A1 \cup {NULL} /\ b \in A2 \cup {NULL} /\ c \in E \cup {NULL}
      /\ Sized(r, a) /\ Sized(r, b) /\ Sized(r, c)
  BY <1>1, NullTree, TreeRoot
<1>7. /\ Solid(r, p) /\ Solid(r, q) /\ p # NULL
  BY <1>1, <1>3, SolidNull DEF Splits
<1>8. {a, b, c} \cap {p, q} = {}
  BY <1>1, <1>4, <1>5, <1>6, <1>7
<1>9. Lifted(r, t, p, q, s) /\ Rotate(r, p, s).root = q
  <2>1. /\ p \in DOMAIN r /\ q \in DOMAIN r /\ r[p] \in NodeBlocks /\ r[q] \in NodeBlocks
        /\ p # q
    BY <1>1, <1>4, <1>7 DEF Solid
  <2> HIDE DEF a, b, t
  <2> QED BY <1>6, <1>8, <2>1, RotateLifts DEF a, b, t
<1>10. /\ Restored(r, t, {p, q}) /\ Kid(t, p, s) = b /\ Kid(t, p, Other(s)) = c
       /\ Kid(t, q, s) = a /\ Kid(t, q, Other(s)) = p
       /\ t[p].depth = Height(t, p) /\ t[q].depth = Height(t, q)
  BY <1>9 DEF Lifted
<1> HIDE DEF t, a, b
<1>11. /\ IsTree(t, a, A1) /\ delta(t, a) = d
       /\ IsTree(t, b, A2) /\ delta(t, b) = d - 1
       /\ IsTree(t, c, E) /\ delta(t, c) = d - 1
  <2>1. A1 \cap {p, q} = {} /\ A2 \cap {p, q} = {} /\ E \cap {p, q} = {}
    BY <1>1, <1>4, <1>5
  <2> QED BY <1>0, <1>1, <1>10, <2>1, RestoredTree
<1>12. Splits(r, p, s, A2, E) /\ Splits(r, q, s, A1, {p} \cup A2 \cup E)
  <2>1. Splits(r, p, s, A2, E)
    BY <1>1 DEF Splits
  <2>2. Before(s, WordAt(r, q), WordAt(r, p))
    BY <1>1 DEF Splits
  <2>3. \A u \in E : Before(s, WordAt(r, q), WordAt(r, u))
    <3>1. ASSUME NEW u \in E PROVE Before(s, WordAt(r, q), WordAt(r, u))
      <4>1. WordAt(r, q) \in Int /\ WordAt(r, p) \in Int /\ WordAt(r, u) \in Int
        BY <1>3, <1>7 DEF Solid
      <4>2. Before(s, WordAt(r, p), WordAt(r, u))
        BY DEF Splits
      <4> QED BY <2>2, <4>1, <4>2 DEF Before
    <3> QED BY <3>1
  <2> QED BY <1>2, <2>1, <2>2, <2>3 DEF Splits
<1>13. Splits(t, p, s, A2, E) /\ Splits(t, q, s, A1, {p} \cup A2 \cup E)
  BY <1>1, <1>3, <1>7, <1>10, <1>12, SplitsStays
<1>14. IsTree(t, p, {p} \cup A2 \cup E) /\ delta(t, p) = d
  <2>1. delta(t, b) - delta(t, c) \in -1 .. 1
    BY <1>0, <1>11
  <2>2. /\ IsTree(t, p, {p} \cup A2 \cup E)
        /\ delta(t, p) = IF delta(t, b) > delta(t, c) THEN delta(t, b) + 1
                                                      ELSE delta(t, c) + 1
    BY <1>10, <1>11, <1>13, <2>1, Joined
  <2> QED BY <1>0, <1>11, <2>2
<1>15. IsTree(t, q, {q} \cup A1 \cup ({p} \cup A2 \cup E)) /\ delta(t, q) = d + 1
  <2>1. delta(t, a) - delta(t, p) \in -1 .. 1
    BY <1>0, <1>11, <1>14
  <2>2. /\ IsTree(t, q, {q} \cup A1 \cup ({p} \cup A2 \cup E))
        /\ delta(t, q) = IF delta(t, a) > delta(t, p) THEN delta(t, a) + 1
                                                      ELSE delta(t, p) + 1
    BY <1>10, <1>11, <1>13, <1>14, <2>1, Joined
  <2> QED BY <1>0, <1>11, <1>14, <2>2
<1>16. {q} \cup A1 \cup ({p} \cup A2 \cup E) = {p} \cup A \cup E
  BY <1>1
<1>17. Restored(r, t, {p} \cup A \cup E)
  BY <1>1, <1>10, RestoredMore
<1> QED BY <1>0, <1>1, <1>9, <1>15, <1>16, <1>17 DEF Raised, t

\* It went to the inner side: two rotations lift the grandchild k.
LEMMA InnerTree ==
  ASSUME NEW r, Typed(r), NEW s \in Sides, NEW p, NEW q, q = Kid(r, p, s), q # NULL,
         NEW A, NEW E, NEW c, c = Kid(r, p, Other(s)), IsTree(r, q, A), IsTree(r, c, E),
         Splits(r, p, s, A, E), delta(r, Kid(r, q, s)) = delta(r, c),
         NEW k, k = Kid(r, q, Other(s)), delta(r, k) = delta(r, c) + 1
  PROVE  LET below == Rotate(r, q, Other(s))
             linked == Link(below.region, p, s, below.root)
         IN Raised(r, Rotate(linked, p, s), {p} \cup A \cup E, delta(r, c) + 2)
<1> DEFINE below == Rotate(r, q, Other(s))
           one == below.region
           linked == Link(below.region, p, s, below.root)
           t == Rotate(linked, p, s).region
           a == Kid(r, q, s)
           e == Kid(r, k, s)
           f == Kid(r, k, Other(s))
           d == delta(r, c) + 1
<1>0. Other(s) \in Sides /\ Other(Other(s)) = s
  BY KidsSized
<1>a. d \in Nat /\ delta(r, c) = d - 1 /\ delta(r, a) = d - 1 /\ delta(r, k) = d
      /\ d + 1 = delta(r, c) + 2
  BY NullTree
<1> HIDE DEF d
<1>1. PICK A1, A2 : /\ A = {q} \cup A1 \cup A2
                    /\ IsTree(r, a, A1) /\ IsTree(r, k, A2)
                    /\ Apex(r, q, s, A1, A2)
  BY TreeParts
<1>2. k # NULL
  BY <1>a DEF delta
<1>3. PICK C1, C2 : /\ A2 = {k} \cup C1 \cup C2
                    /\ IsTree(r, e, C1) /\ IsTree(r, f, C2)
                    /\ Apex(r, k, s, C1, C2)
  BY <1>1, <1>2, TreeParts
<1>4. Splits(r, q, s, A1, A2) /\ Splits(r, k, s, C1, C2)
  BY <1>1, <1>3 DEF Apex, Splits
<1>5. /\ \A u \in A : Solid(r, u)
      /\ \A u \in E : Solid(r, u)
  BY NullTree
<1>6. p \notin A /\ p \notin E /\ A \cap E = {}
  BY <1>5, SplitsApart
<1>7. q \notin A1 /\ q \notin A2 /\ A1 \cap A2 = {}
  BY <1>1, <1>4, <1>5, SplitsApart
<1>8. k \notin C1 /\ k \notin C2 /\ C1 \cap C2 = {}
  BY <1>1, <1>3, <1>4, <1>5, SplitsApart
<1>9. /\ a \in A1 \cup {NULL} /\ e \in C1 \cup {NULL} /\ f \in C2 \cup {NULL}
      /\ c \in E \cup {NULL}
      /\ Sized(r, a) /\ Sized(r, e) /\ Sized(r, f) /\ Sized(r, c)
  BY <1>1, <1>3, NullTree, TreeRoot
<1>10. Solid(r, p) /\ Solid(r, q) /\ Solid(r, k) /\ p # NULL /\ q # NULL
  BY <1>1, <1>3, <1>5, SolidNull DEF Splits
<1>11. /\ p \in DOMAIN r /\ q \in DOMAIN r /\ k \in DOMAIN r
       /\ r[p] \in NodeBlocks /\ r[q] \in NodeBlocks /\ r[k] \in NodeBlocks
       /\ p # q /\ p # k /\ q # k /\ p \in Nat /\ q \in Nat /\ k \in Nat
  BY <1>1, <1>3, <1>6, <1>7, <1>10 DEF Solid
<1>12. {a, e, f} \cap {q, k} = {} /\ {a, e, f, c} \cap {p, q, k} = {}
  BY <1>1, <1>2, <1>3, <1>6, <1>7, <1>8, <1>9, <1>10
<1>13. /\ delta(r, e) \in {d - 1, d - 2} /\ delta(r, f) \in {d - 1, d - 2}
       /\ delta(r, e) \in Int /\ delta(r, f) \in Int
  <2>1. delta(r, k) = r[k].depth /\ delta(r, k) = d
    BY <1>a, <1>10, SolidNull
  <2>2. Level(d, delta(r, e), delta(r, f))
    BY <1>3, <2>1 DEF Apex
  <2>3. delta(r, e) \in Int /\ delta(r, f) \in Int
    BY <1>3, NullTree
  <2> QED BY <1>a, <2>2, <2>3 DEF Level
\* The first rotation, at q.
<1>14. Lifted(r, one, q, k, Other(s)) /\ below.root = k
  <2> HIDE DEF a, e, f
  <2>1. a = Kid(r, q, Other(Other(s))) /\ e = Kid(r, k, Other(Other(s)))
    BY <1>0 DEF a, e
  <2>2. f = Kid(r, k, Other(s))
    BY DEF f
  <2>3. {f, e, a} \cap {q, k} = {}
    BY <1>12
  <2> QED BY <1>0, <1>9, <1>11, <2>1, <2>2, <2>3, RotateLifts
<1> HIDE DEF below
<1>15. /\ Restored(r, one, {q, k}) /\ Kid(one, q, Other(s)) = e /\ Kid(one, q, s) = a
       /\ Kid(one, k, Other(s)) = f /\ Kid(one, k, s) = q
       /\ one[q].depth = Height(one, q)
  BY <1>0, <1>14 DEF Lifted
<1>16. Typed(one) /\ one[p] = r[p] /\ DOMAIN one = DOMAIN r
  BY <1>11, <1>15 DEF Restored, Relinked
<1> HIDE DEF one
\* The link from p to k.
<1>17. /\ Restored(one, linked, {p}) /\ linked[p] \in NodeBlocks
       /\ Kid(linked, p, s) = k /\ Kid(linked, p, Other(s)) = c
  <2>1. linked = Link(one, p, s, k)
    BY <1>14 DEF one
  <2>2. k \in Int /\ p \in DOMAIN one /\ one[p] \in NodeBlocks
    BY <1>11, <1>16
  <2>3. Kid(one, p, Other(s)) = c
    BY <1>16 DEF Kid
  <2> HIDE DEF linked
  <2> QED BY <1>16, <2>1, <2>2, <2>3, LinkFields
<1> HIDE DEF linked
<1>18. /\ Restored(r, linked, {p, q, k})
       /\ linked[q] = one[q] /\ linked[k] = one[k]
  <2>1. Restored(r, linked, {q, k} \cup {p})
    BY <1>15, <1>17, RestoredTwice
  <2>2. {q, k} \cup {p} = {p, q, k}
    OBVIOUS
  <2> QED BY <1>11, <1>16, <1>17, <2>1, <2>2 DEF Restored
<1>19. /\ Typed(linked) /\ DOMAIN linked = DOMAIN r
       /\ Kid(linked, k, s) = q /\ Kid(linked, k, Other(s)) = f
       /\ Kid(linked, q, s) = a /\ Kid(linked, q, Other(s)) = e
  <2>1. Typed(linked) /\ DOMAIN linked = DOMAIN r
    BY <1>18 DEF Restored, Relinked
  <2>2. /\ Kid(linked, k, s) = Kid(one, k, s) /\ Kid(linked, k, Other(s)) = Kid(one, k, Other(s))
        /\ Kid(linked, q, s) = Kid(one, q, s) /\ Kid(linked, q, Other(s)) = Kid(one, q, Other(s))
    BY <1>18 DEF Kid
  <2> QED BY <1>15, <2>1, <2>2
<1>20. /\ \A u \in {p, q, k} : Solid(linked, u)
       /\ Sized(linked, q) /\ Sized(linked, f) /\ Sized(linked, c)
  <2>1. \A u \in {p, q, k} : Solid(linked, u)
    BY <1>10, <1>18, RestoredNodes
  <2>2. Sized(linked, f) /\ Sized(linked, c)
    BY <1>9, <1>12, <1>18, <1>19 DEF Sized, Restored
  <2> QED BY <2>1, <2>2 DEF Sized, Solid
\* The second rotation, at p.
<1>21. Lifted(linked, t, p, k, s) /\ Rotate(linked, p, s).root = k
  <2>1. {q, f, c} \cap {p, k} = {}
    BY <1>11, <1>12
  <2>2. /\ p \in DOMAIN linked /\ k \in DOMAIN linked
        /\ linked[p] \in NodeBlocks /\ linked[k] \in NodeBlocks /\ p # k
    BY <1>11, <1>20 DEF Solid
  <2> HIDE DEF f
  <2> QED BY <1>17, <1>19, <1>20, <2>1, <2>2, RotateLifts
<1> HIDE DEF t
<1>22. /\ Restored(linked, t, {p, k}) /\ Kid(t, p, s) = f /\ Kid(t, p, Other(s)) = c
       /\ Kid(t, k, s) = q /\ Kid(t, k, Other(s)) = p
       /\ t[p].depth = Height(t, p) /\ t[k].depth = Height(t, k)
  BY <1>17, <1>19, <1>21 DEF Lifted
<1>23. Restored(r, t, {p, q, k}) /\ t[q] = one[q]
  <2>1. Restored(r, t, {p, q, k} \cup {p, k})
    BY <1>18, <1>22, RestoredTwice
  <2>2. {p, q, k} \cup {p, k} = {p, q, k}
    OBVIOUS
  <2> QED BY <1>11, <1>18, <1>19, <1>22, <2>1, <2>2 DEF Restored
<1> HIDE DEF a, e, f
\* The four subtrees stay.
<1>24. /\ IsTree(t, a, A1) /\ delta(t, a) = d - 1
       /\ IsTree(t, e, C1) /\ delta(t, e) = delta(r, e)
       /\ IsTree(t, f, C2) /\ delta(t, f) = delta(r, f)
       /\ IsTree(t, c, E) /\ delta(t, c) = d - 1
  <2>1. A1 \cap {p, q, k} = {} /\ C1 \cap {p, q, k} = {}
    BY <1>1, <1>3, <1>6, <1>7, <1>8
  <2>2. C2 \cap {p, q, k} = {} /\ E \cap {p, q, k} = {}
    BY <1>1, <1>3, <1>6, <1>7, <1>8
  <2> QED BY <1>1, <1>3, <1>23, <2>1, <2>2, <1>a, RestoredTree
<1>25. t[q].depth = Height(t, q) /\ Kid(t, q, s) = a /\ Kid(t, q, Other(s)) = e
  <2>1. Kid(t, q, s) = a /\ Kid(t, q, Other(s)) = e
    BY <1>15, <1>23 DEF Kid
  <2>2. {one[q].left, one[q].right} = {a, e}
    BY <1>0, <1>15, KidsSized
  <2>3. IsTree(one, a, A1) /\ delta(one, a) = delta(r, a)
        /\ IsTree(one, e, C1) /\ delta(one, e) = delta(r, e)
    <3>1. A1 \cap {q, k} = {} /\ C1 \cap {q, k} = {}
      BY <1>1, <1>3, <1>7, <1>8
    <3> QED BY <1>1, <1>3, <1>15, <3>1, RestoredTree
  <2>4. \A v \in {a, e} : delta(t, v) = delta(one, v)
    BY <1>a, <1>24, <2>3
  <2>5. Height(t, q) = Height(one, q)
    BY <1>23, <2>2, <2>4 DEF Height, depth
  <2> QED BY <1>15, <1>23, <2>1, <2>5
\* The order of the three nodes and the four subtrees.
<1>26. /\ Splits(r, q, s, A1, C1) /\ Splits(r, p, s, C2, E)
       /\ Splits(r, k, s, {q} \cup A1 \cup C1, {p} \cup C2 \cup E)
  <2> DEFINE W(u) == WordAt(r, u)
  <2>1. \A u \in {p, q, k} \cup A1 \cup C1 \cup C2 \cup E : W(u) \in Int
    BY <1>1, <1>3, <1>5, <1>10 DEF Solid
  <2>2. Before(s, W(q), W(k)) /\ Before(s, W(k), W(p))
    BY <1>1, <1>3, <1>4 DEF Splits
  <2>3. ASSUME NEW u \in A1 PROVE Before(s, W(u), W(k))
    <3>1. Before(s, W(u), W(q))
      BY <1>4 DEF Splits
    <3> QED BY <2>1, <2>2, <3>1 DEF Before
  <2>4. ASSUME NEW u \in E PROVE Before(s, W(k), W(u))
    <3>1. Before(s, W(p), W(u))
      BY DEF Splits
    <3> QED BY <2>1, <2>2, <3>1 DEF Before
  <2>5. Splits(r, q, s, A1, C1) /\ Splits(r, p, s, C2, E)
    BY <1>1, <1>3, <1>4 DEF Splits
  <2> QED BY <1>4, <2>2, <2>3, <2>4, <2>5 DEF Splits
<1>27. /\ Splits(t, q, s, A1, C1) /\ Splits(t, p, s, C2, E)
       /\ Splits(t, k, s, {q} \cup A1 \cup C1, {p} \cup C2 \cup E)
  <2>1. \A u \in {p, q, k} \cup A1 \cup C1 \cup C2 \cup E : Solid(r, u)
    BY <1>1, <1>3, <1>5, <1>10
  <2> QED BY <1>23, <1>26, <2>1, SplitsStays
<1>28. IsTree(t, q, {q} \cup A1 \cup C1) /\ delta(t, q) = d
  <2>1. delta(t, a) - delta(t, e) \in -1 .. 1
    BY <1>a, <1>13, <1>24
  <2>2. /\ IsTree(t, q, {q} \cup A1 \cup C1)
        /\ delta(t, q) = IF delta(t, a) > delta(t, e) THEN delta(t, a) + 1
                                                      ELSE delta(t, e) + 1
    BY <1>24, <1>25, <1>27, <2>1, Joined
  <2> QED BY <1>a, <1>13, <1>24, <2>2
<1>29. IsTree(t, p, {p} \cup C2 \cup E) /\ delta(t, p) = d
  <2>1. delta(t, f) - delta(t, c) \in -1 .. 1
    BY <1>a, <1>13, <1>24
  <2>2. /\ IsTree(t, p, {p} \cup C2 \cup E)
        /\ delta(t, p) = IF delta(t, f) > delta(t, c) THEN delta(t, f) + 1
                                                      ELSE delta(t, c) + 1
    BY <1>22, <1>24, <1>27, <2>1, Joined
  <2> QED BY <1>a, <1>13, <1>24, <2>2
<1>30. /\ IsTree(t, k, {k} \cup ({q} \cup A1 \cup C1) \cup ({p} \cup C2 \cup E))
       /\ delta(t, k) = d + 1
  <2> DEFINE L == {q} \cup A1 \cup C1
             R == {p} \cup C2 \cup E
  <2>1. delta(t, q) - delta(t, p) \in -1 .. 1
    BY <1>a, <1>28, <1>29
  <2>2. IsTree(t, q, L) /\ IsTree(t, p, R) /\ Splits(t, k, s, L, R)
    BY <1>27, <1>28, <1>29
  <2> HIDE DEF L, R
  <2>3. /\ IsTree(t, k, {k} \cup L \cup R)
        /\ delta(t, k) = IF delta(t, q) > delta(t, p) THEN delta(t, q) + 1
                                                      ELSE delta(t, p) + 1
    BY <1>22, <2>1, <2>2, Joined
  <2> QED BY <1>a, <1>28, <1>29, <2>3 DEF L, R
<1>31. {k} \cup ({q} \cup A1 \cup C1) \cup ({p} \cup C2 \cup E) = {p} \cup A \cup E
  BY <1>1, <1>3
<1>32. Restored(r, t, {p} \cup A \cup E)
  BY <1>1, <1>3, <1>23, RestoredMore
<1> QED BY <1>1, <1>3, <1>21, <1>30, <1>31, <1>32, <1>a DEF Raised, below, linked, t

\* The subtree at q, of depth d before w was inserted, is no deeper now, or one
\* deeper on the side that w went to.
Growth(r, q, d, w) ==
  \/ delta(r, q) = d
  \/ /\ delta(r, q) = d + 1
     /\ \/ d = -1
        \/ \E s \in Sides : /\ Before(s, w, WordAt(r, q))
                            /\ delta(r, Kid(r, q, s)) = d
                            /\ delta(r, Kid(r, q, Other(s))) = d - 1

LEMMA RebalanceSides ==
  ASSUME NEW r, NEW p, NEW s \in Sides, NEW w
  PROVE  Rebalance(r, p, s, w) =
           IF ~Unbalanced(r, p) THEN [region |-> r, root |-> p]
           ELSE IF Before(s, w, WordAt(r, Kid(r, p, s))) THEN Rotate(r, p, s)
           ELSE LET below == Rotate(r, Kid(r, p, s), Other(s))
                IN Rotate(Link(below.region, p, s, below.root), p, s)
<1>1. CASE s = "left"
  BY <1>1 DEF Rebalance, Before, Kid, Rotate, Other, Link, rotate_left_right
<1>2. CASE s = "right"
  <2>1. \A a, b : a > b <=> b < a
    BY DEF Sides
  <2> QED BY <1>2, <2>1 DEF Rebalance, Before, Kid, Rotate, Other, Link, rotate_right_left
<1> QED BY <1>1, <1>2 DEF Sides

LEMMA UnbalancedSides ==
  ASSUME NEW r, NEW p, NEW s \in Sides,
         delta(r, Kid(r, p, s)) \in Int, delta(r, Kid(r, p, Other(s))) \in Int
  PROVE  Unbalanced(r, p) <=>
           delta(r, Kid(r, p, s)) - delta(r, Kid(r, p, Other(s))) \notin -1 .. 1
<1>1. CASE s = "left"
  BY <1>1 DEF Unbalanced, balance, Kid, Other
<1>2. CASE s = "right"
  BY <1>2 DEF Unbalanced, balance, Kid, Other
<1> QED BY <1>1, <1>2 DEF Sides

\* A node whose depth is right already.
LEMMA DeepenIdle ==
  ASSUME NEW r, Typed(r), NEW p, NEW S, IsTree(r, p, S), p # NULL
  PROVE  /\ IsTree(Deepen(r, p), p, S) /\ delta(Deepen(r, p), p) = delta(r, p)
         /\ Restored(r, Deepen(r, p), {p})
<1> DEFINE t == Deepen(r, p)
<1>1. p \in S /\ Solid(r, p)
  BY NullTree
<1>2. /\ Sized(r, r[p].left) /\ Sized(r, r[p].right)
  BY <1>1, TreeKids
<1>3. /\ Restored(r, t, {p}) /\ t[p].depth = Height(r, p)
      /\ t[p].left = r[p].left /\ t[p].right = r[p].right
  BY <1>1, <1>2, SizedDelta, DeepenFields DEF Solid
<1> HIDE DEF t
<1>4. Height(r, p) = r[p].depth
  <2>1. PICK A, C : Apex(r, p, "left", A, C)
    BY TreeParts DEF Sides
  <2> QED BY <2>1 DEF Apex, Level, Kid, Other, Height, depth
<1>5. \A u \in S : SameNode(r, t, u)
  <2>1. \A u \in S : Solid(r, u)
    BY NullTree
  <2>2. SameNode(r, t, p)
    BY <1>1, <1>3, <1>4, RestoredNodes DEF SameNode
  <2> QED BY <1>3, <2>1, <2>2, RestoredNodes
<1> QED BY <1>3, <1>5, TreeStays DEF t

\* What a frame may rebalance when the tree below it is whole.
LEMMA TreeMay ==
  ASSUME NEW r, NEW s \in Sides, NEW p, NEW q, q = Kid(r, p, s), NEW c,
         c = Kid(r, p, Other(s)), NEW A, NEW E, IsTree(r, q, A), IsTree(r, c, E),
         Splits(r, p, s, A, E), NEW w \in Int,
         Unbalanced(r, p) => /\ q # NULL
                             /\ ~Before(s, w, WordAt(r, q)) => Kid(r, q, Other(s)) # NULL
  PROVE  MayRebalance(r, p, s, w)
<1> DEFINE S == A \cup E
<1>1. \A u \in S : Solid(r, u)
  BY NullTree
<1>2. \A u \in S : Kids(r, u) \subseteq S
  <2>1. \A u \in A : Kids(r, u) \subseteq A
    BY TreeKids
  <2>2. \A u \in E : Kids(r, u) \subseteq E
    BY TreeKids
  <2> QED BY <2>1, <2>2
<1>3. Kids(r, p) \subseteq S
  <2>1. q \in A \cup {NULL} /\ c \in E \cup {NULL}
    BY NullTree
  <2>2. {r[p].left, r[p].right} = {q, c}
    BY KidsSized
  <2> QED BY <2>1, <2>2 DEF Kids
<1>4. Family(r, p) \subseteq {p} \cup S
  BY <1>2, <1>3 DEF Family, KidsOf
<1>5. \A u \in Family(r, p) : Legible(r, u)
  BY <1>1, <1>4 DEF Splits, Solid
<1>6. ASSUME Unbalanced(r, p)
      PROVE  LET child == IF s = "left" THEN r[p].left ELSE r[p].right
             IN /\ child # NULL
                /\ s = "left" /\ w >= WordAt(r, child) => r[child].right # NULL
                /\ s = "right" /\ w <= WordAt(r, child) => r[child].left # NULL
  <2>1. q # NULL /\ (~Before(s, w, WordAt(r, q)) => Kid(r, q, Other(s)) # NULL)
    BY <1>6
  <2>2. WordAt(r, q) \in Int
    BY <2>1, NullTree DEF Solid
  <2>3. q = IF s = "left" THEN r[p].left ELSE r[p].right
    BY DEF Kid
  <2>4. s = "left" /\ w >= WordAt(r, q) => r[q].right # NULL
    BY <2>1, <2>2 DEF Before, Kid, Other
  <2>5. s = "right" /\ w <= WordAt(r, q) => r[q].left # NULL
    BY <2>1, <2>2 DEF Before, Kid, Other
  <2> QED BY <2>1, <2>3, <2>4, <2>5
<1> QED BY <1>5, <1>6 DEF MayRebalance

\* A frame of update: the tree below p is whole, w went to its side s, and p is
\* still as deep as it was.  What the frame returns is whole, and grew by one at
\* most.
LEMMA RebalanceTree ==
  ASSUME NEW r, Typed(r), NEW s \in Sides, NEW p, NEW q, q = Kid(r, p, s), NEW c,
         c = Kid(r, p, Other(s)), NEW A, NEW E, IsTree(r, q, A), IsTree(r, c, E),
         Splits(r, p, s, A, E), NEW w \in Int, Before(s, w, WordAt(r, p)),
         NEW d \in Int, d >= -1, NEW h, Level(h, d, delta(r, c)), Growth(r, q, d, w)
  PROVE  /\ MayRebalance(r, p, s, w)
         /\ LET turned == Rebalance(r, p, s, w)
                t == Deepen(turned.region, turned.root)
            IN /\ IsTree(t, turned.root, {p} \cup A \cup E)
               /\ Growth(t, turned.root, h, w)
               /\ Restored(r, t, {p} \cup A \cup E)
<1> DEFINE turned == Rebalance(r, p, s, w)
           t == Deepen(turned.region, turned.root)
           S == {p} \cup A \cup E
           Result == /\ IsTree(t, turned.root, S)
                     /\ Growth(t, turned.root, h, w)
                     /\ Restored(r, t, S)
<1>1. /\ delta(r, q) \in Int /\ delta(r, c) \in Int /\ delta(r, c) >= -1
      /\ delta(r, q) >= -1 /\ (delta(r, q) = -1 <=> q = NULL)
  BY NullTree
<1>2. Unbalanced(r, p) <=> delta(r, q) - delta(r, c) \notin -1 .. 1
  BY <1>1, UnbalancedSides
<1>3. /\ \A u \in A : Solid(r, u)
      /\ \A u \in E : Solid(r, u)
      /\ Solid(r, p)
  BY NullTree DEF Splits
<1>4. p \notin A /\ p \notin E /\ A \cap E = {}
  BY <1>3, SplitsApart
<1>5. h = (IF d > delta(r, c) THEN d + 1 ELSE delta(r, c) + 1) /\ d - delta(r, c) \in -1 .. 1
  BY DEF Level
<1>6. CASE ~Unbalanced(r, p)
  <2>1. MayRebalance(r, p, s, w)
    BY <1>6, TreeMay
  <2>2. turned = [region |-> r, root |-> p] /\ t = Deepen(r, p)
    BY <1>6, RebalanceSides
  <2>3. /\ Sized(r, q) /\ Sized(r, c)
        /\ {r[p].left, r[p].right} = {q, c}
    BY TreeRoot, KidsSized
  <2> HIDE DEF t, turned
  <2>4. /\ Restored(r, t, {p}) /\ t[p].depth = Height(r, p)
        /\ Kid(t, p, s) = q /\ Kid(t, p, Other(s)) = c
        /\ (r[p].left # p /\ r[p].right # p => Height(t, p) = Height(r, p))
    <3>1. Sized(r, r[p].left) /\ Sized(r, r[p].right)
      BY <2>3
    <3> QED BY <1>3, <2>2, <3>1, SizedDelta, DeepenFields, KidsSized DEF Solid
  <2>5. t[p].depth = Height(t, p)
    <3>1. q # p /\ c # p
      BY <1>3, <1>4, NullTree, SolidNull
    <3> QED BY <2>3, <2>4, <3>1
  <2>6. /\ IsTree(t, q, A) /\ delta(t, q) = delta(r, q)
        /\ IsTree(t, c, E) /\ delta(t, c) = delta(r, c)
    <3>1. A \cap {p} = {} /\ E \cap {p} = {}
      BY <1>4
    <3> QED BY <2>4, <3>1, RestoredTree
  <2>7. Splits(t, p, s, A, E)
    BY <1>3, <2>4, SplitsStays
  <2>8. delta(t, q) - delta(t, c) \in -1 .. 1
    BY <1>2, <1>6, <2>6
  <2>9. /\ IsTree(t, p, S)
        /\ delta(t, p) = IF delta(t, q) > delta(t, c) THEN delta(t, q) + 1
                                                      ELSE delta(t, c) + 1
    BY <2>4, <2>5, <2>6, <2>7, <2>8, Joined
  <2>10. WordAt(t, p) = WordAt(r, p)
    BY <1>3, <2>4, RestoredNodes
  <2>11. Growth(t, p, h, w)
    <3>1. CASE delta(r, q) = d
      BY <1>5, <2>6, <2>9, <3>1 DEF Growth
    <3>2. CASE delta(r, q) = d + 1 /\ delta(r, c) = d + 1
      BY <1>5, <2>6, <2>9, <3>2 DEF Growth
    <3>3. CASE delta(r, q) = d + 1 /\ delta(r, c) = d
      <4>1. delta(t, p) = h + 1 /\ delta(t, q) = h /\ delta(t, c) = h - 1
        BY <1>5, <2>6, <2>9, <3>3
      <4>2. Before(s, w, WordAt(t, p))
        BY <2>10
      <4> QED BY <2>4, <4>1, <4>2 DEF Growth
    <3>4. delta(r, q) = d \/ delta(r, q) = d + 1
      BY DEF Growth
    <3>5. delta(r, q) = d + 1 => delta(r, c) \in {d, d + 1}
      BY <1>1, <1>2, <1>5, <1>6
    <3> QED BY <3>1, <3>2, <3>3, <3>4, <3>5
  <2>12. Restored(r, t, S)
    BY <2>4, RestoredMore
  <2> QED BY <2>1, <2>2, <2>9, <2>11, <2>12 DEF turned, t
<1>7. CASE Unbalanced(r, p)
  <2>1. delta(r, q) = d + 1 /\ delta(r, c) = d - 1 /\ d \in Nat /\ q # NULL
    <3>1. delta(r, q) = d \/ delta(r, q) = d + 1
      BY DEF Growth
    <3> QED BY <1>1, <1>2, <1>5, <1>7, <3>1
  <2>2. PICK o \in Sides : /\ Before(o, w, WordAt(r, q))
                           /\ delta(r, Kid(r, q, o)) = d
                           /\ delta(r, Kid(r, q, Other(o))) = d - 1
    BY <2>1 DEF Growth
  <2>3. h = d + 1
    BY <1>5, <2>1
  <2>4. WordAt(r, q) \in Int
    BY <1>3, <2>1, NullTree DEF Solid
  \* Whatever is turned, the depth of the place is what it was.
  <2>5. ASSUME Raised(r, turned, S, d + 1)
        PROVE  Result
    <3> HIDE DEF turned
    <3>1. turned.root # NULL
      BY <2>1, <2>5 DEF delta, Raised
    <3>2. Typed(turned.region)
      BY <2>5 DEF Restored, Raised
    <3>3. /\ IsTree(t, turned.root, S) /\ delta(t, turned.root) = d + 1
          /\ Restored(turned.region, t, {turned.root})
      BY <2>5, <3>1, <3>2, DeepenIdle DEF Raised
    <3>4. Restored(r, t, S \cup {turned.root})
      BY <2>5, <3>3, RestoredTwice DEF Raised
    <3>5. Restored(r, t, S)
      BY <2>5, <3>4, RestoredMore DEF Raised
    <3> QED BY <2>3, <2>5, <3>3, <3>5 DEF Growth
  <2>6. CASE o = s
    <3>1. Before(s, w, WordAt(r, q))
      BY <2>2, <2>6
    <3>2. MayRebalance(r, p, s, w)
      BY <2>1, <3>1, TreeMay
    <3>3. turned = Rotate(r, p, s)
      BY <1>7, <3>1, RebalanceSides
    <3>4. /\ delta(r, Kid(r, q, s)) = delta(r, c) + 1
          /\ delta(r, Kid(r, q, Other(s))) = delta(r, c) /\ d + 1 = delta(r, c) + 2
      BY <2>1, <2>2, <2>6
    <3> HIDE DEF turned
    <3>5. Raised(r, turned, S, delta(r, c) + 2)
      BY <2>1, <3>3, <3>4, OuterTree
    <3> QED BY <2>5, <3>2, <3>4, <3>5 DEF turned
  <2>7. CASE o # s
    <3> DEFINE below == Rotate(r, q, Other(s))
               linked == Link(below.region, p, s, below.root)
               k == Kid(r, q, Other(s))
    <3>1. o = Other(s) /\ Other(o) = s
      BY <2>7 DEF Sides, Other
    <3>2. ~Before(s, w, WordAt(r, q))
      BY <2>2, <2>4, <2>7 DEF Sides, Before
    <3>3. /\ delta(r, k) = delta(r, c) + 1 /\ delta(r, Kid(r, q, s)) = delta(r, c)
          /\ d + 1 = delta(r, c) + 2 /\ k # NULL
      BY <2>1, <2>2, <3>1 DEF delta
    <3>4. MayRebalance(r, p, s, w)
      BY <2>1, <3>3, TreeMay
    <3>5. turned = Rotate(linked, p, s)
      BY <1>7, <3>2, RebalanceSides
    <3> HIDE DEF turned
    <3>6. Raised(r, turned, S, delta(r, c) + 2)
      BY <2>1, <3>3, <3>5, InnerTree
    <3> QED BY <2>5, <3>3, <3>4, <3>6 DEF turned
  <2> QED BY <2>6, <2>7
<1> QED BY <1>6, <1>7

-----------------------------------------------------------------------------
(* The way down as a zipper: Z[m] are the nodes below frame m, Z[m + 1] those *)
(* on the side that the walk took there, and the rest of Z[m] is the node of  *)
(* the frame and a whole tree on its other side.                              *)

FrameSet == [node : Int, side : Sides]

\* A frame f of an update of w.  The tree that it hangs above, of nodes Zn, is
\* out for change; its depth was dn.
Holds(r, w, f, Z, Zn, dn) ==
  LET p == f.node
      s == f.side
  IN /\ s \in Sides /\ Before(s, w, WordAt(r, p))
     /\ \E E : /\ Z = {p} \cup Zn \cup E
               /\ IsTree(r, Kid(r, p, Other(s)), E)
               /\ Splits(r, p, s, Zn, E)
               /\ Level(r[p].depth, dn, delta(r, Kid(r, p, Other(s))))

Zipper(r, way, w, Z, d) ==
  /\ \A u \in Z[1] : Solid(r, u)
  /\ \A m, n \in 1 .. Len(way) + 1 : m <= n => Z[n] \subseteq Z[m]
  /\ \A m \in 1 .. Len(way) :
       Holds(r, w, way[m], Z[m], Z[m + 1],
             IF m = Len(way) THEN d ELSE r[way[m + 1].node].depth)

\* The nodes of S keep their words, and all but those of F all else.
Kept(r, t, S, F) ==
  \A u \in S : /\ Solid(t, u) /\ WordAt(t, u) = WordAt(r, u)
               /\ u \notin F => SameNode(r, t, u)

LEMMA HoldsParts ==
  ASSUME NEW r, NEW w, NEW f, NEW Z, NEW Zn, NEW dn, Holds(r, w, f, Z, Zn, dn),
         \A u \in Z : Solid(r, u)
  PROVE  /\ f.node \in Z /\ f.node \notin Zn /\ Zn \subseteq Z
         /\ \E E : /\ Z = {f.node} \cup Zn \cup E
                   /\ E \cap Zn = {} /\ f.node \notin E
                   /\ IsTree(r, Kid(r, f.node, Other(f.side)), E)
                   /\ Splits(r, f.node, f.side, Zn, E)
                   /\ Level(r[f.node].depth, dn, delta(r, Kid(r, f.node, Other(f.side))))
<1>1. PICK E : /\ Z = {f.node} \cup Zn \cup E
               /\ IsTree(r, Kid(r, f.node, Other(f.side)), E)
               /\ Splits(r, f.node, f.side, Zn, E)
               /\ Level(r[f.node].depth, dn, delta(r, Kid(r, f.node, Other(f.side))))
  BY DEF Holds
<1>2. f.node \notin Zn /\ f.node \notin E /\ Zn \cap E = {}
  <2>1. f.side \in Sides /\ \A u \in Zn \cup E : Solid(r, u)
    BY <1>1 DEF Holds
  <2> QED BY <1>1, <2>1, SplitsApart
<1>3. E \cap Zn = {}
  BY <1>2
<1> QED BY <1>1, <1>2, <1>3

\* A frame stays when changes stay below it.
LEMMA HoldsStays ==
  ASSUME NEW r, NEW t, NEW w, NEW f, NEW Z, NEW Zn, NEW dn, Holds(r, w, f, Z, Zn, dn),
         \A u \in Z : Solid(r, u), NEW F, Kept(r, t, Z, F), F \subseteq Zn
  PROVE  Holds(t, w, f, Z, Zn, dn)
<1> DEFINE p == f.node
           s == f.side
           c == Kid(r, p, Other(s))
<1>1. /\ p \in Z /\ p \notin Zn /\ Zn \subseteq Z
      /\ \E E : /\ Z = {p} \cup Zn \cup E /\ E \cap Zn = {} /\ p \notin E
                /\ IsTree(r, c, E) /\ Splits(r, p, s, Zn, E)
                /\ Level(r[p].depth, dn, delta(r, c))
  BY HoldsParts
<1>2. PICK E : /\ Z = {p} \cup Zn \cup E /\ E \cap Zn = {} /\ p \notin E
               /\ IsTree(r, c, E) /\ Splits(r, p, s, Zn, E)
               /\ Level(r[p].depth, dn, delta(r, c))
  BY <1>1
<1>3. SameNode(r, t, p)
  BY <1>1 DEF Kept
<1>4. Kid(t, p, Other(s)) = c /\ t[p].depth = r[p].depth
  BY <1>3 DEF SameNode, Kid
<1> HIDE DEF c, p, s
<1>5. IsTree(t, c, E) /\ delta(t, c) = delta(r, c)
  <2>1. \A u \in E : SameNode(r, t, u)
    BY <1>2 DEF Kept
  <2> QED BY <1>2, <2>1, TreeStays
<1>6. Splits(t, p, s, Zn, E)
  <2>1. \A u \in {p} \cup Zn \cup E : WordAt(t, u) = WordAt(r, u)
    BY <1>2 DEF Kept
  <2> QED BY <1>2, <1>3, <2>1 DEF Splits, SameNode
<1>7. s \in Sides /\ Before(s, w, WordAt(t, p))
  BY <1>3 DEF Holds, SameNode, p, s
<1>8. /\ IsTree(t, Kid(t, p, Other(s)), E)
      /\ Level(t[p].depth, dn, delta(t, Kid(t, p, Other(s))))
  BY <1>2, <1>4, <1>5
<1> QED BY <1>2, <1>6, <1>7, <1>8 DEF Holds, p, s

LEMMA ZipperStays ==
  ASSUME NEW r, NEW t, NEW way \in Seq(FrameSet), NEW w, NEW Z, NEW d,
         Zipper(r, way, w, Z, d), Kept(r, t, Z[1], {})
  PROVE  Zipper(t, way, w, Z, d)
<1> DEFINE k == Len(way)
<1>1. k \in Nat
  OBVIOUS
<1>2. \A u \in Z[1] : Solid(t, u)
  BY DEF Kept
<1>3. ASSUME NEW m \in 1 .. k
      PROVE  Holds(t, w, way[m], Z[m], Z[m + 1],
                   IF m = k THEN d ELSE t[way[m + 1].node].depth)
  <2> DEFINE dn == IF m = k THEN d ELSE r[way[m + 1].node].depth
  <2>1. /\ Holds(r, w, way[m], Z[m], Z[m + 1], dn)
        /\ Z[m] \subseteq Z[1] /\ \A u \in Z[m] : Solid(r, u)
    <3>1. 1 \in 1 .. k + 1 /\ m \in 1 .. k + 1 /\ 1 <= m
      BY <1>1
    <3> QED BY <3>1 DEF Zipper
  <2>2. Kept(r, t, Z[m], {}) /\ {} \subseteq Z[m + 1]
    BY <2>1 DEF Kept
  <2>3. Holds(t, w, way[m], Z[m], Z[m + 1], dn)
    <3> HIDE DEF dn
    <3> QED BY <2>1, <2>2, HoldsStays
  <2>4. m # k => t[way[m + 1].node].depth = r[way[m + 1].node].depth
    <3>1. CASE m # k
      <4>1. m + 1 \in 1 .. k /\ m + 1 \in 1 .. k + 1 /\ 1 \in 1 .. k + 1 /\ 1 <= m + 1
        BY <1>1, <3>1
      <4>2. way[m + 1].node \in Z[m + 1] /\ Z[m + 1] \subseteq Z[1]
        BY <4>1 DEF Zipper, Holds
      <4> QED BY <4>2 DEF Kept, SameNode
    <3> QED BY <3>1
  <2> QED BY <2>3, <2>4
<1> QED BY <1>2, <1>3 DEF Zipper

\* One frame of update, on a whole tree.
FrameTurned(r, V, f, w, Z, h) ==
  /\ MayRebalance(V, f.node, f.side, w)
  /\ LET turned == Rebalance(V, f.node, f.side, w)
         t == Deepen(turned.region, turned.root)
     IN /\ IsTree(t, turned.root, Z) /\ Growth(t, turned.root, h, w)
        /\ Restored(r, t, Z)

LEMMA FrameTurns ==
  ASSUME NEW r, Typed(r), NEW w \in Int, NEW f, NEW Z, NEW Zn, NEW d \in Int, d >= -1,
         Holds(r, w, f, Z, Zn, d), \A u \in Z : Solid(r, u),
         NEW q \in Int, IsTree(r, q, Zn), Growth(r, q, d, w)
  PROVE  FrameTurned(r, Link(r, f.node, f.side, q), f, w, Z, r[f.node].depth)
<1> DEFINE p == f.node
           s == f.side
           V == Link(r, p, s, q)
           c == Kid(r, p, Other(s))
<1>1. /\ p \in Z /\ p \notin Zn
      /\ \E E : /\ Z = {p} \cup Zn \cup E /\ E \cap Zn = {} /\ p \notin E
                /\ IsTree(r, c, E) /\ Splits(r, p, s, Zn, E)
                /\ Level(r[p].depth, d, delta(r, c))
  BY HoldsParts
<1>2. PICK E : /\ Z = {p} \cup Zn \cup E /\ E \cap Zn = {} /\ p \notin E
               /\ IsTree(r, c, E) /\ Splits(r, p, s, Zn, E)
               /\ Level(r[p].depth, d, delta(r, c))
  BY <1>1
<1>3. s \in Sides /\ Before(s, w, WordAt(r, p)) /\ Solid(r, p)
  BY <1>1 DEF Holds
<1>4. /\ Restored(r, V, {p}) /\ Kid(V, p, s) = q /\ Kid(V, p, Other(s)) = c
  BY <1>3, LinkFields DEF Solid
<1> HIDE DEF V, c
<1>5. /\ IsTree(V, q, Zn) /\ delta(V, q) = delta(r, q)
      /\ IsTree(V, c, E) /\ delta(V, c) = delta(r, c)
  <2>1. Zn \cap {p} = {} /\ E \cap {p} = {}
    BY <1>1, <1>2
  <2> QED BY <1>2, <1>4, <2>1, RestoredTree
<1>6. Splits(V, p, s, Zn, E) /\ WordAt(V, p) = WordAt(r, p)
  BY <1>2, <1>3, <1>4, SplitsStays, RestoredNodes
<1>7. Growth(V, q, d, w)
  <2>1. CASE d = -1 \/ delta(r, q) = d
    BY <1>5, <2>1 DEF Growth
  <2>2. CASE d # -1 /\ delta(r, q) # d
    <3>1. PICK o \in Sides : /\ Before(o, w, WordAt(r, q)) /\ delta(r, Kid(r, q, o)) = d
                             /\ delta(r, Kid(r, q, Other(o))) = d - 1
      BY <2>2 DEF Growth
    <3>2. q # NULL
      BY <2>2 DEF Growth, delta
    <3>3. q \in Zn /\ Solid(r, q)
      BY <3>2, NullTree
    <3>4. SameNode(r, V, q)
      BY <1>1, <1>4, <3>3, RestoredNodes
    <3>5. \A v \in {r[q].left, r[q].right} : delta(V, v) = delta(r, v)
      <4>1. \A u \in Zn : V[u] = r[u]
        <5>1. \A u \in Zn : Solid(r, u)
          BY <1>2
        <5> QED BY <1>1, <1>4, <5>1 DEF Restored, Solid
      <4>2. r[q].left \in Zn \cup {NULL} /\ r[q].right \in Zn \cup {NULL}
        BY <3>3, TreeKids
      <4> QED BY <4>1, <4>2 DEF delta
    <3>6. \A x \in Sides : Kid(V, q, x) = Kid(r, q, x) /\ Kid(r, q, x) \in {r[q].left, r[q].right}
      BY <3>4 DEF SameNode, Kid
    <3>7. WordAt(V, q) = WordAt(r, q) /\ Other(o) \in Sides
      BY <3>4, KidsSized DEF SameNode
    <3>8. Before(o, w, WordAt(V, q)) /\ delta(V, Kid(V, q, o)) = d
          /\ delta(V, Kid(V, q, Other(o))) = d - 1
      BY <3>1, <3>5, <3>6, <3>7
    <3>9. delta(V, q) = d + 1
      BY <1>5, <2>2 DEF Growth
    <3> QED BY <3>8, <3>9 DEF Growth
  <2> QED BY <2>1, <2>2
<1>8. Level(r[p].depth, d, delta(V, c)) /\ Typed(V)
  BY <1>2, <1>4, <1>5 DEF Restored
<1>9. /\ MayRebalance(V, p, s, w)
      /\ LET turned == Rebalance(V, p, s, w)
             t == Deepen(turned.region, turned.root)
         IN /\ IsTree(t, turned.root, {p} \cup Zn \cup E)
            /\ Growth(t, turned.root, r[p].depth, w)
            /\ Restored(V, t, {p} \cup Zn \cup E)
  <2> HIDE DEF p, s
  <2>1. Before(s, w, WordAt(V, p))
    BY <1>3, <1>6
  <2> QED BY <1>3, <1>4, <1>5, <1>6, <1>7, <1>8, <2>1, RebalanceTree
<1> HIDE DEF p, s
<1> DEFINE turned == Rebalance(V, p, s, w)
           t == Deepen(turned.region, turned.root)
<1>10. IsTree(t, turned.root, Z) /\ Growth(t, turned.root, r[p].depth, w) /\ Restored(V, t, Z)
  BY <1>2, <1>9
<1> HIDE DEF turned, t
<1>11. Restored(r, t, {p} \cup Z)
  BY <1>4, <1>10, RestoredTwice
<1>12. Restored(r, t, Z)
  BY <1>1, <1>11, RestoredMore
<1> QED BY <1>9, <1>10, <1>12 DEF FrameTurned, V, p, s, turned, t

LEMMA RestoredKept ==
  ASSUME NEW r, NEW t, NEW F, Restored(r, t, F), NEW S, \A u \in S : Solid(r, u)
  PROVE  Kept(r, t, S, F)
BY RestoredNodes DEF Kept

LEMMA PopFacts ==
  ASSUME NEW S, NEW q \in Seq(S), q # <<>>
  PROVE  LET up == SubSeq(q, 1, Len(q) - 1)
         IN /\ up \in Seq(S) /\ Len(up) = Len(q) - 1
            /\ \A m \in 1 .. Len(q) - 1 : up[m] = q[m]
<1> DEFINE k == Len(q)
           up == SubSeq(q, 1, k - 1)
<1>1. k \in Nat /\ k >= 1 /\ \A m \in 1 .. k : q[m] \in S
  OBVIOUS
<1>2. 1 \in Int /\ k - 1 \in Int /\ \A m \in 1 .. k - 1 : q[m] \in S
  BY <1>1
<1> HIDE DEF k
<1>3. /\ up \in Seq(S)
      /\ Len(up) = IF 1 <= k - 1 THEN (k - 1) - 1 + 1 ELSE 0
      /\ \A m \in 1 .. (k - 1) - 1 + 1 : up[m] = q[1 + m - 1]
  <2> DEFINE n == k - 1
  <2>1. n \in Int /\ \A m \in 1 .. n : q[m] \in S
    BY <1>2
  <2> HIDE DEF n
  <2>2. /\ SubSeq(q, 1, n) \in Seq(S)
        /\ Len(SubSeq(q, 1, n)) = IF 1 <= n THEN n - 1 + 1 ELSE 0
        /\ \A m \in 1 .. n - 1 + 1 : SubSeq(q, 1, n)[m] = q[1 + m - 1]
    BY <2>1, SubSeqProperties
  <2> QED BY <2>2 DEF n
<1> HIDE DEF up
<1>4. \A m \in 1 .. k - 1 : m \in 1 .. (k - 1) - 1 + 1 /\ 1 + m - 1 = m
  BY <1>1
<1>5. Len(up) = k - 1
  BY <1>1, <1>3
<1> QED BY <1>3, <1>4, <1>5 DEF k, up

\* The last frame of the way, under which q hangs now.
Popped(r, way, w, Z, q) ==
  LET k == Len(way)
      f == way[k]
      h == r[f.node].depth
      V == Link(r, f.node, f.side, q)
      turned == Rebalance(V, f.node, f.side, w)
      t == Deepen(turned.region, turned.root)
  IN /\ FrameTurned(r, V, f, w, Z[k], h)
     /\ Zipper(t, SubSeq(way, 1, k - 1), w, Z, h)
     /\ h \in Nat

\* After it the frames above are as they were.
LEMMA ZipperPops ==
  ASSUME NEW r, Typed(r), NEW way \in Seq(FrameSet), way # <<>>,
         NEW w \in Int, NEW Z, NEW d \in Int, d >= -1, Zipper(r, way, w, Z, d),
         NEW q \in Int, IsTree(r, q, Z[Len(way) + 1]), Growth(r, q, d, w)
  PROVE  Popped(r, way, w, Z, q)
<1> DEFINE k == Len(way)
           f == way[k]
           h == r[f.node].depth
           V == Link(r, f.node, f.side, q)
           turned == Rebalance(V, f.node, f.side, w)
           t == Deepen(turned.region, turned.root)
           up == SubSeq(way, 1, k - 1)
<1>1. k \in Nat /\ k >= 1 /\ k \in 1 .. k /\ k \in 1 .. k + 1 /\ k + 1 \in 1 .. k + 1
  OBVIOUS
<1>2. /\ Len(up) = k - 1
      /\ \A m \in 1 .. k - 1 : up[m] = way[m]
  BY <1>1, PopFacts
<1>3. \A m \in 1 .. k + 1 : Z[m] \subseteq Z[1] /\ \A u \in Z[m] : Solid(r, u)
  <2>1. \A m \in 1 .. k + 1 : 1 \in 1 .. k + 1 /\ 1 <= m
    BY <1>1
  <2> QED BY <2>1 DEF Zipper
<1>4. Holds(r, w, f, Z[k], Z[k + 1], d)
  BY <1>1 DEF Zipper
<1>5. FrameTurned(r, V, f, w, Z[k], h)
  BY <1>1, <1>3, <1>4, FrameTurns
<1>6. f.node \in Z[k] /\ h \in Nat
  BY <1>1, <1>3, <1>4, HoldsParts, SolidNull
<1> HIDE DEF h, V, f
<1>7. Restored(r, t, Z[k])
  BY <1>5 DEF FrameTurned
<1> HIDE DEF turned, t, up
<1>8. ASSUME NEW m \in 1 .. k - 1
      PROVE  Holds(t, w, up[m], Z[m], Z[m + 1],
                   IF m = k - 1 THEN h ELSE t[up[m + 1].node].depth)
  <2> DEFINE dn == r[way[m + 1].node].depth
  <2>1. m \in 1 .. k /\ m # k /\ m + 1 <= k /\ m \in 1 .. k + 1 /\ m + 1 \in 1 .. k + 1
        /\ m + 1 \in 1 .. k
    BY <1>1
  <2>2. Holds(r, w, way[m], Z[m], Z[m + 1], dn)
    BY <2>1 DEF Zipper
  <2>3. Z[k] \subseteq Z[m + 1]
    BY <1>1, <2>1 DEF Zipper
  <2>4. Kept(r, t, Z[m], Z[k])
    BY <1>3, <1>7, <2>1, RestoredKept
  <2>5. Holds(t, w, way[m], Z[m], Z[m + 1], dn)
    <3> HIDE DEF dn
    <3> QED BY <1>3, <2>1, <2>2, <2>3, <2>4, HoldsStays
  <2>6. CASE m = k - 1
    <3>1. m + 1 = k
      BY <2>1, <2>6
    <3>2. dn = h
      BY <3>1 DEF h, f
    <3> QED BY <1>2, <2>5, <2>6, <3>2
  <2>7. CASE m # k - 1
    <3>1. m + 1 \in 1 .. k - 1 /\ m + 2 \in 1 .. k + 1 /\ m + 2 <= k /\ m + 1 # k
          /\ m + 1 + 1 = m + 2
      BY <1>1, <2>7
    <3> DEFINE n == m + 1
    <3>2. Holds(r, w, way[m + 1], Z[m + 1], Z[m + 2], r[way[m + 2].node].depth)
      <4>1. n \in 1 .. k /\ n # k /\ n + 1 = m + 2
        BY <2>1, <3>1
      <4> HIDE DEF n
      <4>2. Holds(r, w, way[n], Z[n], Z[n + 1], r[way[n + 1].node].depth)
        BY <4>1 DEF Zipper
      <4> QED BY <4>1, <4>2 DEF n
    <3>3. way[m + 1].node \in Z[m + 1] /\ way[m + 1].node \notin Z[m + 2]
      <4>1. \A u \in Z[n] : Solid(r, u)
        BY <1>3, <2>1
      <4>2. Holds(r, w, way[n], Z[n], Z[m + 2], r[way[m + 2].node].depth)
        BY <3>2
      <4> HIDE DEF n
      <4>3. way[n].node \in Z[n] /\ way[n].node \notin Z[m + 2]
        BY <4>1, <4>2, HoldsParts
      <4> QED BY <4>3 DEF n
    <3>4. Z[k] \subseteq Z[m + 2]
      BY <1>1, <3>1 DEF Zipper
    <3>5. SameNode(r, t, way[m + 1].node)
      BY <1>3, <1>7, <2>1, <3>3, <3>4, RestoredNodes
    <3>6. t[up[m + 1].node].depth = dn
      BY <1>2, <3>1, <3>5 DEF SameNode
    <3> QED BY <1>2, <2>5, <2>7, <3>6
  <2> QED BY <2>6, <2>7
<1>9. Zipper(t, up, w, Z, h)
  <2>1. \A u \in Z[1] : Solid(t, u)
    <3>1. 1 \in 1 .. k + 1
      BY <1>1
    <3> QED BY <1>3, <1>7, <3>1, RestoredNodes
  <2>2. \A m, n \in 1 .. k - 1 + 1 : m \in 1 .. k + 1 /\ n \in 1 .. k + 1
    BY <1>1
  <2>3. \A m, n \in 1 .. k - 1 + 1 : m <= n => Z[n] \subseteq Z[m]
    BY <2>2 DEF Zipper
  <2> QED BY <1>2, <1>8, <2>1, <2>3 DEF Zipper
<1> QED BY <1>5, <1>6, <1>9 DEF h, V, f, turned, t, up, Popped

\* The way of the nodes Z, and one more frame on it.
Pushed(r, way, w, Z, q, s) ==
  \E Y : /\ Zipper(r, Append(way, [node |-> q, side |-> s]), w, Y, delta(r, Kid(r, q, s)))
         /\ Y[1] = Z[1]
         /\ IsTree(r, Kid(r, q, s), Y[Len(way) + 2])
         /\ \A u \in Z[Len(way) + 1] : WordAt(r, u) = w => u \in Y[Len(way) + 2]

\* The walk goes on to the side s of q.
LEMMA ZipperPushes ==
  ASSUME NEW r, NEW way \in Seq(FrameSet), NEW w \in Int, NEW Z,
         NEW q \in Int, q # NULL, Zipper(r, way, w, Z, delta(r, q)),
         IsTree(r, q, Z[Len(way) + 1]), NEW s \in Sides, Before(s, w, WordAt(r, q))
  PROVE  Pushed(r, way, w, Z, q, s)
<1> DEFINE k == Len(way)
           f == [node |-> q, side |-> s]
           more == Append(way, f)
<1>1. PICK A, E : /\ Z[k + 1] = {q} \cup A \cup E
                  /\ IsTree(r, Kid(r, q, s), A)
                  /\ IsTree(r, Kid(r, q, Other(s)), E)
                  /\ Apex(r, q, s, A, E)
  BY TreeParts
<1> DEFINE Y == [m \in 1 .. k + 2 |-> IF m = k + 2 THEN A ELSE Z[m]]
<1>2. /\ k \in Nat /\ Len(more) = k + 1
      /\ \A m \in 1 .. k : more[m] = way[m]
      /\ more[k + 1] = f
  <2>1. way \in Seq(FrameSet) /\ f \in FrameSet
    BY DEF FrameSet
  <2> HIDE DEF f
  <2> QED BY <2>1, AppendProperties
<1>3. f.node = q /\ f.side = s
  OBVIOUS
<1> HIDE DEF more, f
<1>4. \A m \in 1 .. k + 1 : Y[m] = Z[m] /\ Z[k + 1] \subseteq Z[m]
  <2>1. \A m \in 1 .. k + 1 : m \in 1 .. k + 2 /\ m # k + 2 /\ m <= k + 1 /\ k + 1 \in 1 .. k + 1
    BY <1>2
  <2> QED BY <2>1 DEF Zipper
<1>5. Y[k + 2] = A /\ A \subseteq Z[k + 1]
  BY <1>1, <1>2
<1> HIDE DEF Y
<1>6. \A m, n \in 1 .. k + 2 : m <= n => Y[n] \subseteq Y[m]
  <2>1. \A m, n \in 1 .. k + 1 : m <= n => Y[n] \subseteq Y[m]
    BY <1>4 DEF Zipper
  <2>2. \A m \in 1 .. k + 2 : Y[k + 2] \subseteq Y[m]
    <3>1. ASSUME NEW m \in 1 .. k + 2 PROVE Y[k + 2] \subseteq Y[m]
      <4>1. CASE m = k + 2 BY <4>1
      <4>2. CASE m # k + 2
        <5>1. m \in 1 .. k + 1
          BY <1>2, <4>2
        <5> QED BY <1>4, <1>5, <5>1
      <4> QED BY <4>1, <4>2
    <3> QED BY <3>1
  <2>3. \A m, n \in 1 .. k + 2 : m <= n => n = k + 2 \/ (m \in 1 .. k + 1 /\ n \in 1 .. k + 1)
    BY <1>2
  <2> QED BY <2>1, <2>2, <2>3
<1>7. /\ \A u \in Y[1] : Solid(r, u)
      /\ Y[1] = Z[1]
  <2>1. 1 \in 1 .. k + 1
    BY <1>2
  <2> QED BY <1>4, <2>1 DEF Zipper
<1>8. q \in Z[k + 1] /\ delta(r, q) = r[q].depth /\ Solid(r, q)
  BY NullTree, SolidNull
<1>9. ASSUME NEW m \in 1 .. k + 1
      PROVE  Holds(r, w, more[m], Y[m], Y[m + 1],
                   IF m = k + 1 THEN delta(r, Kid(r, q, s)) ELSE r[more[m + 1].node].depth)
  <2>1. CASE m = k + 1
    <3>1. Splits(r, q, s, A, E) /\ Level(r[q].depth, delta(r, Kid(r, q, s)), delta(r, Kid(r, q, Other(s))))
      BY <1>1 DEF Apex, Splits
    <3>2. Holds(r, w, f, Z[k + 1], A, delta(r, Kid(r, q, s)))
      BY <1>1, <1>3, <3>1 DEF Holds
    <3>3. m + 1 = k + 2
      BY <1>2, <2>1
    <3> QED BY <1>2, <1>4, <1>5, <2>1, <3>2, <3>3
  <2>2. CASE m # k + 1
    <3>1. m \in 1 .. k /\ m + 1 \in 1 .. k + 1
      BY <1>2, <2>2
    <3>2. Holds(r, w, way[m], Z[m], Z[m + 1], IF m = k THEN delta(r, q) ELSE r[way[m + 1].node].depth)
      BY <3>1 DEF Zipper
    <3>3. (IF m = k THEN delta(r, q) ELSE r[way[m + 1].node].depth) = r[more[m + 1].node].depth
      <4>1. CASE m = k
        BY <1>2, <1>3, <1>8, <4>1
      <4>2. CASE m # k
        <5>1. m + 1 \in 1 .. k
          BY <1>2, <3>1, <4>2
        <5> QED BY <1>2, <4>2, <5>1
      <4> QED BY <4>1, <4>2
    <3>4. Holds(r, w, way[m], Z[m], Z[m + 1], r[more[m + 1].node].depth)
      BY <3>2, <3>3
    <3> QED BY <1>2, <1>4, <2>2, <3>1, <3>4
  <2> QED BY <2>1, <2>2
<1>10. Zipper(r, more, w, Y, delta(r, Kid(r, q, s)))
  <2>1. Len(more) = k + 1 /\ k + 1 + 1 = k + 2
    BY <1>2
  <2> QED BY <1>6, <1>7, <1>9, <2>1 DEF Zipper
<1>11. ASSUME NEW u \in Z[k + 1], WordAt(r, u) = w PROVE u \in Y[k + 2]
  <2>1. u # q
    BY <1>8, <1>11 DEF Before, Solid
  <2>2. CASE u \in E
    <3>1. Before(s, WordAt(r, q), WordAt(r, u))
      BY <1>1, <2>2 DEF Apex
    <3> QED BY <1>8, <1>11, <3>1 DEF Before, Solid
  <2> QED BY <1>1, <1>5, <2>1, <2>2
<1> QED BY <1>1, <1>5, <1>7, <1>10, <1>11 DEF more, f, Pushed

LEMMA LeafTree ==
  ASSUME NEW r, NEW n, Solid(r, n), r[n].left = NULL, r[n].right = NULL, r[n].depth = 0
  PROVE  IsTree(r, n, {n}) /\ delta(r, n) = 0
<1>1. /\ Kid(r, n, "left") = NULL /\ Kid(r, n, "right") = NULL
      /\ Other("left") = "right" /\ "left" \in Sides
  BY DEF Kid, Other, Sides
<1>2. Apex(r, n, "left", {}, {})
  BY <1>1 DEF Apex, Level, delta
<1>3. IsTree(r, n, {n} \cup {} \cup {})
  BY <1>1, <1>2, EmptyTree, TreeJoins
<1>4. {n} \cup {} \cup {} = {n}
  OBVIOUS
<1> QED BY <1>3, <1>4, SolidNull

Grown(r, way, w, Z, n) ==
  \E Y : /\ Zipper(r, way, w, Y, -1) /\ Y[1] = Z[1] \cup {n}
         /\ IsTree(r, n, Y[Len(way) + 1]) /\ Growth(r, n, -1, w)

\* The new node n with the word w hangs at the end of the way.
LEMMA ZipperGrows ==
  ASSUME NEW r, NEW way \in Seq(FrameSet), NEW w \in Int, NEW Z,
         Zipper(r, way, w, Z, -1), Z[Len(way) + 1] = {},
         NEW n, Solid(r, n), WordAt(r, n) = w,
         r[n].left = NULL, r[n].right = NULL, r[n].depth = 0
  PROVE  Grown(r, way, w, Z, n)
<1> DEFINE k == Len(way)
           Y == [m \in 1 .. k + 1 |-> Z[m] \cup {n}]
<1>1. k \in Nat
  OBVIOUS
<1>2. \A m \in 1 .. k + 1 : Y[m] = Z[m] \cup {n}
  OBVIOUS
<1> HIDE DEF Y
<1>3. \A m \in 1 .. k : m \in 1 .. k + 1 /\ m + 1 \in 1 .. k + 1
  BY <1>1
<1>4. ASSUME NEW m \in 1 .. k, NEW dn, Holds(r, w, way[m], Z[m], Z[m + 1], dn)
      PROVE  Holds(r, w, way[m], Y[m], Y[m + 1], dn)
  <2> DEFINE p == way[m].node
             s == way[m].side
  <2>1. PICK E : /\ Z[m] = {p} \cup Z[m + 1] \cup E
                 /\ IsTree(r, Kid(r, p, Other(s)), E)
                 /\ Splits(r, p, s, Z[m + 1], E)
                 /\ Level(r[p].depth, dn, delta(r, Kid(r, p, Other(s))))
    BY <1>4 DEF Holds
  <2>2. s \in Sides /\ Before(s, w, WordAt(r, p))
    BY <1>4 DEF Holds
  <2>3. Splits(r, p, s, Y[m + 1], E)
    BY <1>2, <1>3, <2>1, <2>2 DEF Splits
  <2>4. Y[m] = {p} \cup Y[m + 1] \cup E
    <3>1. Y[m] = Z[m] \cup {n} /\ Y[m + 1] = Z[m + 1] \cup {n}
      BY <1>2, <1>3
    <3> HIDE DEF p
    <3> QED BY <2>1, <3>1
  <2> QED BY <2>1, <2>2, <2>3, <2>4 DEF Holds
<1>5. Zipper(r, way, w, Y, -1)
  <2>1. \A u \in Y[1] : Solid(r, u)
    <3>1. 1 \in 1 .. k + 1
      BY <1>1
    <3> QED BY <1>2, <3>1 DEF Zipper
  <2>2. \A m, l \in 1 .. k + 1 : m <= l => Y[l] \subseteq Y[m]
    <3>1. \A m, l \in 1 .. k + 1 : m <= l => Z[l] \subseteq Z[m]
      BY DEF Zipper
    <3> QED BY <1>2, <3>1
  <2>3. \A m \in 1 .. k : Holds(r, w, way[m], Y[m], Y[m + 1],
                                IF m = k THEN -1 ELSE r[way[m + 1].node].depth)
    BY <1>4 DEF Zipper
  <2> QED BY <2>1, <2>2, <2>3 DEF Zipper
<1>6. Y[1] = Z[1] \cup {n} /\ Y[k + 1] = {n}
  BY <1>1, <1>2
<1>7. IsTree(r, n, {n}) /\ delta(r, n) = 0
  BY LeafTree
<1>8. Growth(r, n, -1, w)
  BY <1>7 DEF Growth
<1>9. IsTree(r, n, Y[k + 1])
  BY <1>6, <1>7
<1> QED BY <1>5, <1>6, <1>8, <1>9 DEF Grown

-----------------------------------------------------------------------------
(* The invariant of the word set.  Nothing of it is claimed of a file whose   *)
(* tree a killed session may have left half changed (clean is FALSE), nor of  *)
(* one that the next session starts over.                                     *)

Live == clean /\ (utilized # Closed \/ stored # 0)

CountedIn(r) == {p \in DOMAIN r : Legible(r, p) /\ r[p].count > 0}
Named(r) == \A p \in DOMAIN r : r[p].kind = "node" /\ r[p].count > 0 => Legible(r, p)
Distinct(r) == \A p, q \in CountedIn(r) : WordAt(r, p) = WordAt(r, q) => p = q

\* All blocks lie below the counter, the one that a session has or the one that
\* the next session will find; counted nodes have words of their own.
Beneath(r, a) == \A p \in DOMAIN r : p + r[p].bytes <= a
Top == Pointer(IF utilized # Closed THEN utilized ELSE stored)

HeapInv ==
  /\ clean /\ utilized = Closed => stored # Junk
  /\ Live => /\ HasKind(region, state, "state")
             /\ Beneath(region, Top)
             /\ Named(region) /\ Distinct(region)

CallInv ==
  /\ (pc = "idle") <=> (call = NoCall)
  /\ pc \in {"name", "back"} => call.op = "insert"
  /\ pc = "idle" => stack = <<>>
  /\ pc = "walk" /\ call.op = "exists" => stack = <<>>

\* The counted nodes of r are those of the tree at q, of depth d when w came,
\* and of the frames of way above it.
Opened(r, way, w, q, Z, d) ==
  /\ Zipper(r, way, w, Z, d) /\ Z[1] = CountedIn(r)
  /\ IsTree(r, q, Z[Len(way) + 1])

Resting(r) == IsTree(r, r[state].root, CountedIn(r))
Seeking(r, w, q) ==
  \E S : /\ IsTree(r, q, S) /\ S \subseteq CountedIn(r)
         /\ \A u \in CountedIn(r) : WordAt(r, u) = w => u \in S
Walking(r, way, w, q) ==
  \E Z : /\ Opened(r, way, w, q, Z, delta(r, q))
         /\ \A u \in CountedIn(r) : WordAt(r, u) = w => u \in Z[Len(way) + 1]
Naming(r, way, w) ==
  /\ \E Z : Opened(r, way, w, NULL, Z, -1)
  /\ \A u \in CountedIn(r) : WordAt(r, u) # w
Backing(r, way, w, q) ==
  \E Z : \E d \in Int : d >= -1 /\ Opened(r, way, w, q, Z, d) /\ Growth(r, q, d, w)

Looks == pc = "walk" /\ call.op = "exists"
Updates == pc = "walk" /\ call.op = "insert"

TreeInv ==
  Live =>
    /\ region[state].root \in CountedIn(region) \cup {NULL}
    /\ pc = "idle" \/ Looks => Resting(region)
    /\ Looks => Seeking(region, call.word, cur)
    /\ Updates => Walking(region, stack, call.word, cur)
    /\ pc = "name" => Naming(region, stack, call.word)
    /\ pc = "back" => Backing(region, stack, call.word, ret)

SetInv == CallInv /\ HeapInv /\ TreeInv

LEMMA CountedSolid ==
  ASSUME NEW r, Typed(r), NEW u \in CountedIn(r)
  PROVE  Solid(r, u) /\ WordAt(r, u) \in Words
<1>1. HasKind(r, u, "node") /\ HasKind(r, r[u].item, "word")
  BY DEF CountedIn, Legible
<1>2. r[u] \in NodeBlocks
  BY <1>1, NodesTyped
<1>3. WordAt(r, u) \in Words
  BY <1>1 DEF Typed, HasKind, Blocks, WordAt
<1>4. WordAt(r, u) \in Int
  BY <1>3, AvlAssumption
<1> QED BY <1>1, <1>2, <1>3, <1>4 DEF Solid, CountedIn, Typed

LEMMA RestoredCounted ==
  ASSUME NEW r, Typed(r), NEW t, NEW F, Restored(r, t, F)
  PROVE  /\ CountedIn(t) = CountedIn(r)
         /\ Named(r) => Named(t)
         /\ Distinct(r) => Distinct(t)
         /\ \A u \in CountedIn(r) : t[u].count = r[u].count
<1>1. /\ DOMAIN t = DOMAIN r
      /\ \A p \in DOMAIN r : /\ t[p].kind = r[p].kind
                             /\ r[p].kind = "node" => t[p].item = r[p].item /\ t[p].count = r[p].count
                             /\ r[p].kind = "word" => t[p].word = r[p].word
  BY DEF Restored, Relinked, SameBlock
<1>2. \A p \in DOMAIN r : r[p].kind = "node" => (Legible(t, p) <=> Legible(r, p))
  BY <1>1 DEF Legible, HasKind
<1>3. CountedIn(t) = CountedIn(r)
  BY <1>1, <1>2 DEF CountedIn, Legible, HasKind
<1>4. \A p \in CountedIn(r) : WordAt(t, p) = WordAt(r, p)
  BY <1>1 DEF CountedIn, Legible, HasKind, WordAt
<1> QED BY <1>1, <1>2, <1>3, <1>4 DEF Named, Distinct, CountedIn, Legible, HasKind

\* t is r with one more block.
Extends(r, t, q, b) ==
  /\ DOMAIN t = DOMAIN r \cup {q} /\ q \notin DOMAIN r /\ t[q] = b
  /\ \A p \in DOMAIN r : t[p] = r[p]

LEMMA ExtendsSame ==
  ASSUME NEW r, Typed(r), NEW t, Typed(t), NEW q, NEW b, Extends(r, t, q, b),
         b.kind = "node" => b.count = 0, Named(r)
  PROVE  /\ CountedIn(t) = CountedIn(r) /\ Named(t) /\ (Distinct(r) => Distinct(t))
         /\ Kept(r, t, CountedIn(r), {})
<1>1. \A p \in CountedIn(r) : /\ Legible(t, p) /\ WordAt(t, p) = WordAt(r, p) /\ t[p] = r[p]
                              /\ p \in CountedIn(t)
  BY DEF CountedIn, Legible, HasKind, WordAt, Extends
<1>2. \A p \in DOMAIN t : t[p].kind = "node" /\ t[p].count > 0 => p \in CountedIn(r)
  BY DEF Extends, Named, CountedIn
<1>3. CountedIn(t) = CountedIn(r)
  BY <1>1, <1>2 DEF CountedIn, Legible, HasKind
<1>4. Kept(r, t, CountedIn(r), {})
  BY <1>1, CountedSolid DEF Kept, SameNode
<1> QED BY <1>1, <1>2, <1>3, <1>4 DEF Named, Distinct

\* In a session nothing in the file is lost by an allocation.
LEMMA AllocatedExtends ==
  ASSUME TypeInv, HeapInv, clean, utilized # Closed, NEW b \in Blocks
  PROVE  /\ Extends(region, Allocated(b), Pointer(utilized), b)
         /\ Typed(Allocated(b)) /\ Typed(region)
         /\ Pointer(utilized) \in Nat /\ Pointer(utilized) # NULL
<1> DEFINE q == Pointer(utilized)
<1>1. Typed(Allocated(b)) /\ q \in Nat
  BY AllocatedTyped
<1>2. Typed(region)
  BY DEF TypeInv, TypeOK, Typed
<1>3. \A p \in DOMAIN region : /\ p \in Nat /\ region[p].bytes \in Nat \ {0}
                               /\ p + region[p].bytes <= q
  BY DEF TypeInv, Inv, FileInv, Blocked, Shaped, HeapInv, Live, Beneath, Top, TypeOK
<1> HIDE DEF q
<1>4. \A p \in DOMAIN region : p # q /\ p \in Untouched(q, b.bytes)
  BY <1>1, <1>3 DEF Untouched, Apart
<1>5. Untouched(q, b.bytes) = DOMAIN region
  BY <1>4 DEF Untouched
<1>6. Extends(region, Allocated(b), q, b)
  BY <1>4, <1>5 DEF Extends, Allocated, q
<1> QED BY <1>1, <1>2, <1>6 DEF q, NULL

\* And the counter lies behind it.
LEMMA AllocatedBelow ==
  ASSUME TypeInv, HeapInv, clean, utilized # Closed, NEW b \in Blocks,
         scm_malloc(b.bytes), UNCHANGED layout, DOMAIN region' = DOMAIN Allocated(b),
         \A p \in DOMAIN region' : region'[p].bytes = Allocated(b)[p].bytes
  PROVE  Beneath(region', Top')
<1> DEFINE q == Pointer(utilized)
<1>1. Extends(region, Allocated(b), q, b) /\ q \in Nat
  BY AllocatedExtends
<1>2. b.bytes \in Nat /\ utilized \in Nat /\ utilized' = utilized + b.bytes
  BY DEF Blocks, StateBytes, NodeBytes, TypeInv, TypeOK, scm_malloc
<1>3. q + b.bytes <= Pointer(utilized') /\ Pointer(utilized') \in Nat
  <2>1. utilized' \in Nat /\ 0 \in Nat /\ layout \in Layouts /\ layout' = layout
    BY <1>2 DEF TypeInv, TypeOK
  <2>2. utilized' + 0 <= utilized' /\ utilized + b.bytes <= utilized'
    BY <1>2, <2>1
  <2>3. Pointer(utilized') \in Nat
    BY ONLY <2>1, <2>2, PointerGrows
  <2>4. Pointer(utilized) + b.bytes <= Pointer(utilized')
    BY ONLY <1>2, <2>1, <2>2, PointerGrows
  <2> QED BY <2>3, <2>4
<1>4. \A p \in DOMAIN region : p \in Nat /\ region[p].bytes \in Nat /\ p + region[p].bytes <= q
  BY DEF TypeInv, Inv, FileInv, Blocked, Shaped, HeapInv, Live, Beneath, Top, TypeOK
<1> HIDE DEF q
<1>5. \A p \in DOMAIN region' : p + region'[p].bytes <= Pointer(utilized')
  <2>1. ASSUME NEW p \in DOMAIN region' PROVE p + region'[p].bytes <= Pointer(utilized')
    <3>1. CASE p = q
      BY <1>1, <1>3, <3>1 DEF Extends
    <3>2. CASE p # q
      <4>1. p \in DOMAIN region /\ region'[p].bytes = region[p].bytes
        BY <1>1, <3>2 DEF Extends
      <4> QED BY <1>1, <1>2, <1>3, <1>4, <4>1
    <3> QED BY <3>1, <3>2
  <2> QED BY <2>1
<1>6. Top' = Pointer(utilized')
  BY <1>2 DEF Top, Pointer, Closed
<1> QED BY <1>5, <1>6 DEF Beneath

-----------------------------------------------------------------------------
(* Every step keeps the invariant.                                          *)

LEMMA StateStays ==
  ASSUME UNCHANGED layout
  PROVE  /\ state' = state /\ \A u : Pointer(u)' = Pointer(u)
BY DEF state, Pointer

\* The word of a call can be compared.
LEMMA CallWord ==
  ASSUME TypeInv, pc # "idle"
  PROVE  call.word \in Words /\ call.word \in Int /\ utilized # Closed
BY AvlAssumption DEF TypeInv, Inv, NameInv

\* In a call nothing happens to the file.
LEMMA HeapSame ==
  ASSUME HeapInv, UNCHANGED <<layout, clean, utilized, stored, region>>
  PROVE  HeapInv' /\ (Live' <=> Live)
<1>1. /\ layout' = layout /\ clean' = clean /\ utilized' = utilized
      /\ stored' = stored /\ region' = region
  OBVIOUS
<1>2. state' = state
  BY <1>1, StateStays
<1>3. Top' = Top
  BY <1>1 DEF Top, Pointer
<1> QED BY <1>1, <1>2, <1>3 DEF HeapInv, Live

LEMMA InitSet ==
  ASSUME Init
  PROVE  SetInv
<1>1. /\ pc = "idle" /\ call = NoCall /\ stack = <<>> /\ utilized = Closed /\ stored = 0
  BY DEF Init, ScmInit
<1> QED BY <1>1 DEF SetInv, CallInv, HeapInv, TreeInv, Live, Junk

LEMMA IdleSet ==
  ASSUME TypeInv, SetInv, UNCHANGED <<layout, region>>, pc' = "idle", call' = NoCall,
         stack' = <<>>, HeapInv', Live' => Live /\ Resting(region)
  PROVE  SetInv'
<1>1. state' = state /\ region' = region
  BY StateStays
<1>2. CallInv'
  BY DEF CallInv
<1>3. TreeInv'
  BY <1>1 DEF TreeInv, SetInv, Looks, Updates, Resting
<1> QED BY <1>2, <1>3 DEF SetInv

LEMMA OpenSet ==
  ASSUME TypeInv, SetInv, NEW truncate \in BOOLEAN, avl_open(truncate)
  PROVE  SetInv'
<1>1. /\ utilized = Closed /\ UNCHANGED <<layout, pc, call, cur, stack, ret>>
  BY DEF avl_open, MayOpen
<1>2. pc = "idle" /\ call = NoCall /\ stack = <<>>
  BY <1>1 DEF TypeInv, Inv, NameInv, SetInv, CallInv
<1>3. state' = state
  BY <1>1, StateStays
<1>4. PICK u \in Counters(truncate) :
        IF u = 0 THEN /\ utilized' = StateBytes
                      /\ region' = [p \in {state} |-> State]
                      /\ clean' = TRUE
                 ELSE utilized' = u /\ UNCHANGED <<region, clean>>
  BY DEF avl_open
<1>5. CallInv'
  BY <1>1, <1>2 DEF CallInv
<1>6. CASE u = 0
  <2>1. utilized' = 24 /\ region' = [p \in {state} |-> State]
    BY <1>4, <1>6 DEF StateBytes
  <2>2. /\ DOMAIN region' = {state} /\ region'[state] = State
    BY <2>1
  <2>3. HasKind(region', state', "state") /\ CountedIn(region') = {} /\ Named(region')
    BY <2>2, <1>3 DEF HasKind, State, CountedIn, Named, Legible
  <2>4. state + 24 <= Pointer(24)
    BY PointerGrows, 0 + 24 <= 24 DEF state, TypeInv, TypeOK
  <2>5. Top' = Pointer(24)
    BY <1>1, <2>1 DEF Top, Pointer, Closed
  <2>6. Beneath(region', Top')
    BY <2>2, <2>4, <2>5 DEF Beneath, State, StateBytes
  <2>7. utilized' # Closed
    BY <2>1 DEF Closed
  <2>8. HeapInv'
    BY <2>3, <2>6, <2>7 DEF HeapInv, Distinct
  <2>9. Resting(region)' /\ region'[state'].root = NULL
    BY <1>3, <2>2, <2>3, EmptyTree DEF Resting, State
  <2>10. TreeInv'
    BY <1>1, <1>2, <2>9 DEF TreeInv, Looks, Updates
  <2> QED BY <1>5, <2>8, <2>10 DEF SetInv
<1>7. CASE u # 0
  <2>1. utilized' = u /\ region' = region /\ clean' = clean
    BY <1>4, <1>7
  <2>2. ASSUME clean
        PROVE  /\ u = stored /\ stored' = stored /\ stored \in Nat /\ Live
    <3>1. stored # Junk /\ ~truncate
      BY <1>1, <1>7, <2>2 DEF SetInv, HeapInv, Counters
    <3>2. u = stored
      BY <3>1 DEF Counters
    <3>3. stored' = stored
      BY <3>1 DEF avl_open, OpenFile
    <3> QED BY <1>7, <2>2, <3>1, <3>2, <3>3 DEF Live, TypeInv, TypeOK
  <2>4. ASSUME clean' PROVE Top' = Top /\ utilized' # Closed
    <3>1. clean /\ utilized' = stored /\ stored \in Nat
      BY <2>1, <2>2, <2>4
    <3> QED BY <1>1, <3>1 DEF Closed, Top, Pointer
  <2>5. HeapInv'
    BY <1>3, <2>1, <2>2, <2>4 DEF SetInv, HeapInv, Live
  <2>6. Live' => Live /\ Resting(region)
    BY <1>2, <2>1, <2>2 DEF SetInv, TreeInv, Live
  <2> QED BY <1>1, <1>2, <2>1, <2>5, <2>6, IdleSet
<1> QED BY <1>6, <1>7

LEMMA CloseSet ==
  ASSUME TypeInv, SetInv, avl_close
  PROVE  SetInv'
<1>1. /\ pc = "idle" /\ utilized # Closed /\ utilized' = Closed /\ stored' = utilized
      /\ clean' => clean /\ region' = region
      /\ UNCHANGED <<layout, pc, call, stack>>
  BY DEF avl_close, scm_close
<1>2. state' = state /\ stored' \in Nat
  BY <1>1, StateStays DEF TypeInv, TypeOK
<1>3. call = NoCall /\ stack = <<>>
  BY <1>1 DEF SetInv, CallInv
<1>4. CASE ~clean'
  BY <1>1, <1>2, <1>3, <1>4 DEF SetInv, CallInv, HeapInv, TreeInv, Live
<1>5. CASE clean'
  <2>1. Live /\ region' = region
    BY <1>1, <1>5 DEF Live
  <2>2. Top' = Top
    BY <1>1, <2>1 DEF Top, Pointer
  <2>3. HeapInv'
    BY <1>1, <1>2, <2>1, <2>2 DEF SetInv, HeapInv, Junk
  <2>4. Resting(region)
    BY <1>1, <2>1 DEF SetInv, TreeInv
  <2> QED BY <1>1, <1>3, <2>1, <2>3, <2>4, IdleSet
<1> QED BY <1>4, <1>5

LEMMA EndSet ==
  ASSUME TypeInv, SetInv, Ends, utilized # Closed
  PROVE  SetInv'
<1>1. /\ pc' = "idle" /\ utilized' = Closed /\ call' = NoCall /\ stack' = <<>>
      /\ UNCHANGED <<layout, stored, region>>
      /\ clean' => clean /\ stored # Junk /\ (stored = 0 \/ (pc = "idle" /\ utilized <= stored))
  BY DEF Ends, Killed
<1>2. state' = state
  BY <1>1, StateStays
<1>3. ASSUME Live'
      PROVE  /\ Live /\ pc = "idle" /\ utilized <= stored /\ stored \in Nat /\ utilized \in Nat
             /\ Resting(region) /\ Beneath(region, Pointer(stored))
  <2>1. Live /\ pc = "idle" /\ utilized <= stored
    BY <1>1, <1>3 DEF Live
  <2>2. stored \in Nat /\ utilized \in Nat /\ layout \in Layouts
    BY <1>1, <1>3 DEF TypeInv, TypeOK, Live
  <2>3. Pointer(utilized) \in Nat /\ Pointer(utilized) <= Pointer(stored) /\ Pointer(stored) \in Nat
    <3>1. utilized + 0 <= stored /\ stored + 0 <= stored /\ 0 \in Nat
      BY <2>1, <2>2
    <3>2. Pointer(utilized) \in Nat /\ Pointer(utilized) + 0 <= Pointer(stored)
      BY ONLY <2>2, <3>1, PointerGrows
    <3>3. Pointer(stored) \in Nat
      BY ONLY <2>2, <3>1, PointerGrows
    <3> QED BY <3>2, <3>3
  <2>4. Beneath(region, Pointer(utilized))
    BY <2>1, <2>2 DEF SetInv, HeapInv, Top
  <2>5. \A p \in DOMAIN region : p \in Nat /\ region[p].bytes \in Nat
    BY DEF TypeInv, TypeOK, Inv, FileInv, Blocked, Shaped
  <2>6. Beneath(region, Pointer(stored))
    BY <2>3, <2>4, <2>5 DEF Beneath
  <2> QED BY <2>1, <2>2, <2>6 DEF SetInv, TreeInv
<1>4. Top' = Pointer(stored)
  BY <1>1 DEF Top, Pointer
<1>5. clean' => stored' # Junk
  BY <1>1
<1>6. HeapInv'
  BY <1>1, <1>2, <1>3, <1>4, <1>5 DEF SetInv, HeapInv
<1> QED BY <1>1, <1>3, <1>6, IdleSet

LEMMA CallSet ==
  ASSUME TypeInv, SetInv, NEW op \in {"insert", "exists"}, NEW w \in Words, Call(op, w)
  PROVE  SetInv'
<1>1. /\ pc = "idle" /\ pc' = "walk" /\ call' = [op |-> op, word |-> w] /\ cur' = region[state].root
      /\ UNCHANGED <<layout, clean, utilized, stored, region, stack>>
  BY DEF Call, scmVars
<1>2. HeapInv' /\ (Live' <=> Live) /\ state' = state
  BY <1>1, HeapSame, StateStays DEF SetInv
<1>3. stack = <<>>
  BY <1>1 DEF SetInv, CallInv
<1>4. CallInv'
  BY <1>1, <1>3 DEF CallInv, NoCall
<1>5. ASSUME Live
      PROVE  /\ Resting(region) /\ Seeking(region, w, cur') /\ Walking(region, <<>>, w, cur')
             /\ region[state].root \in CountedIn(region) \cup {NULL}
  <2>1. Resting(region) /\ region[state].root \in CountedIn(region) \cup {NULL}
    BY <1>1, <1>5 DEF SetInv, TreeInv
  <2>2. IsTree(region, cur', CountedIn(region))
    BY <1>1, <2>1 DEF Resting
  <2>3. Seeking(region, w, cur')
    BY <2>2 DEF Seeking
  <2>4. \A u \in CountedIn(region) : Solid(region, u)
    BY <2>2, NullTree
  <2> DEFINE Z == [m \in {1} |-> CountedIn(region)]
  <2>5. Z[1] = CountedIn(region) /\ Len(<<>>) = 0
    OBVIOUS
  <2> HIDE DEF Z
  <2>6. Zipper(region, <<>>, w, Z, delta(region, cur'))
    BY <2>4, <2>5 DEF Zipper
  <2>7. Opened(region, <<>>, w, cur', Z, delta(region, cur'))
    BY <2>2, <2>5, <2>6 DEF Opened
  <2>8. Walking(region, <<>>, w, cur')
    BY <2>5, <2>7 DEF Walking
  <2> QED BY <2>1, <2>3, <2>8
<1>6. call'.op = op /\ call'.word = w
  BY <1>1
<1>7. TreeInv'
  BY <1>1, <1>2, <1>3, <1>5, <1>6 DEF TreeInv, Looks, Updates, Resting
<1> QED BY <1>2, <1>4, <1>7 DEF SetInv

LEMMA AnswerSet ==
  ASSUME TypeInv, SetInv, Found \/ Missed
  PROVE  SetInv'
<1>1. /\ pc = "walk" /\ call.op = "exists" /\ pc' = "idle" /\ call' = NoCall /\ stack' = <<>>
      /\ UNCHANGED <<layout, clean, utilized, stored, region>>
  BY DEF Found, Missed, Returns, scmVars
<1>2. HeapInv' /\ (Live' <=> Live)
  BY <1>1, HeapSame DEF SetInv
<1>3. Live => Resting(region)
  BY <1>1 DEF SetInv, TreeInv, Looks
<1> QED BY <1>1, <1>2, <1>3, IdleSet

LEMMA NoRoomSet ==
  ASSUME TypeInv, SetInv, NoRoom
  PROVE  SetInv'
<1>1. /\ pc' = "back" /\ ret' = NULL
      /\ \/ pc = "walk" /\ call.op = "insert" /\ cur = NULL
         \/ pc = "name"
      /\ UNCHANGED <<layout, clean, utilized, stored, region, stack, call>>
  BY DEF NoRoom, BackWith
<1>2. HeapInv' /\ (Live' <=> Live) /\ state' = state
  BY <1>1, HeapSame, StateStays DEF SetInv
<1>3. CallInv'
  BY <1>1 DEF SetInv, CallInv
<1>4. ASSUME Live
      PROVE  Backing(region, stack, call.word, NULL)
  <2>1. PICK Z : Opened(region, stack, call.word, NULL, Z, -1)
    BY <1>1, <1>4 DEF SetInv, TreeInv, Updates, Walking, Naming, delta
  <2>2. Growth(region, NULL, -1, call.word)
    BY DEF Growth, delta
  <2> QED BY <2>1, <2>2 DEF Backing
<1>5. TreeInv'
  BY <1>1, <1>2, <1>4 DEF SetInv, TreeInv, Looks, Updates
<1> QED BY <1>2, <1>3, <1>5 DEF SetInv

LEMMA DescendSet ==
  ASSUME TypeInv, SetInv, Descend
  PROVE  SetInv'
<1> DEFINE w == call.word
           s == Side
<1>1. /\ pc = "walk" /\ pc' = "walk" /\ call' = call
      /\ Legible(region, cur) /\ w # WordAt(region, cur)
      /\ cur' = Kid(region, cur, s)
      /\ stack' = IF call.op = "insert" THEN Append(stack, [node |-> cur, side |-> s]) ELSE stack
      /\ UNCHANGED <<layout, clean, utilized, stored, region>>
  BY DEF Descend, scmVars, Side, Kid
<1>2. HeapInv' /\ (Live' <=> Live) /\ state' = state
  BY <1>1, HeapSame, StateStays DEF SetInv
<1>3. CallInv'
  BY <1>1 DEF SetInv, CallInv
<1>4. Typed(region) /\ cur \in Nat /\ cur # NULL
  <2>1. Typed(region)
    BY DEF TypeInv, TypeOK, Typed
  <2>2. cur \in DOMAIN region
    BY <1>1 DEF Legible, HasKind
  <2> QED BY <2>1, <2>2 DEF Typed, NULL
<1>5. w \in Int /\ WordAt(region, cur) \in Int
  <2>1. WordAt(region, cur) \in Words
    BY <1>1, <1>4 DEF Legible, HasKind, Typed, Blocks, WordAt
  <2> QED BY <1>1, <2>1, CallWord, AvlAssumption
<1>6. s \in Sides /\ Before(s, w, WordAt(region, cur))
  BY <1>1, <1>5 DEF Side, Smaller, Sides, Before
<1>7. call \in [op : {"insert", "exists"}, word : Words] \cup {NoCall} /\ call # NoCall
  BY <1>1 DEF TypeInv, TypeOK, SetInv, CallInv
<1>8. ASSUME Live, call.op = "exists"
      PROVE  Resting(region) /\ Seeking(region, w, cur')
  <2>1. Resting(region) /\ Seeking(region, w, cur)
    BY <1>1, <1>8 DEF SetInv, TreeInv, Looks
  <2>2. PICK S : /\ IsTree(region, cur, S) /\ S \subseteq CountedIn(region)
                 /\ \A u \in CountedIn(region) : WordAt(region, u) = w => u \in S
    BY <2>1 DEF Seeking
  <2> HIDE DEF w, s
  <2>3. PICK A, C : /\ S = {cur} \cup A \cup C
                    /\ IsTree(region, Kid(region, cur, s), A)
                    /\ Apex(region, cur, s, A, C)
    BY <1>4, <1>6, <2>2, TreeParts
  <2>4. \A u \in C : WordAt(region, u) # w
    <3>1. ASSUME NEW u \in C, WordAt(region, u) = w PROVE FALSE
      <4>1. Before(s, WordAt(region, cur), w)
        BY <2>3, <3>1 DEF Apex
      <4> QED BY <1>5, <1>6, <4>1 DEF Before
    <3> QED BY <3>1
  <2>5. \A u \in CountedIn(region) : WordAt(region, u) = w => u \in A
    BY <1>1, <2>2, <2>3, <2>4 DEF w
  <2>6. Seeking(region, w, cur')
    BY <1>1, <2>2, <2>3, <2>5 DEF Seeking
  <2> QED BY <2>1, <2>6
<1>9. ASSUME Live, call.op = "insert"
      PROVE  Walking(region, stack', w, cur')
  <2>1. Walking(region, stack, w, cur)
    BY <1>1, <1>9 DEF SetInv, TreeInv, Updates
  <2>2. PICK Z : /\ Opened(region, stack, w, cur, Z, delta(region, cur))
                 /\ \A u \in CountedIn(region) : WordAt(region, u) = w => u \in Z[Len(stack) + 1]
    BY <2>1 DEF Walking
  <2> HIDE DEF w, s
  <2> DEFINE f == [node |-> cur, side |-> s]
             q == Kid(region, cur, s)
  <2>3. stack \in Seq(FrameSet) /\ f \in FrameSet /\ cur \in Int
    BY <1>4, <1>6 DEF TypeInv, TypeOK, Sides, FrameSet
  <2> HIDE DEF f
  <2>4. Len(Append(stack, f)) + 1 = Len(stack) + 2
    BY <2>3
  <2>5. Zipper(region, stack, w, Z, delta(region, cur)) /\ IsTree(region, cur, Z[Len(stack) + 1])
    BY <2>2 DEF Opened
  <2>10. PICK Y : /\ Zipper(region, Append(stack, f), w, Y, delta(region, q))
                  /\ Y[1] = Z[1]
                  /\ IsTree(region, q, Y[Len(stack) + 2])
                  /\ \A u \in Z[Len(stack) + 1] : WordAt(region, u) = w => u \in Y[Len(stack) + 2]
    <3>1. Pushed(region, stack, w, Z, cur, s)
      BY <1>4, <1>5, <1>6, <2>3, <2>5, ZipperPushes
    <3> QED BY <3>1 DEF Pushed, f
  <2> HIDE DEF q
  <2>6. Opened(region, Append(stack, f), w, q, Y, delta(region, q))
    BY <2>2, <2>4, <2>10 DEF Opened, f, q
  <2>7. \A u \in CountedIn(region) : WordAt(region, u) = w => u \in Y[Len(stack) + 2]
    BY <2>2, <2>10
  <2>8. Walking(region, Append(stack, f), w, q)
    BY <2>4, <2>6, <2>7 DEF Walking
  <2> QED BY <1>1, <1>9, <2>8 DEF f, q
<1>10. TreeInv'
  <2>1. Live' => region'[state'].root \in CountedIn(region') \cup {NULL}
    BY <1>1, <1>2 DEF SetInv, TreeInv
  <2> QED BY <1>1, <1>2, <1>8, <1>9, <2>1 DEF TreeInv, Looks, Updates, Resting
<1> QED BY <1>2, <1>3, <1>10 DEF SetInv

\* The blocks of r and t say the same of the tree, and count the same nodes.
Alike(r, t) ==
  /\ DOMAIN t = DOMAIN r
  /\ \A p \in DOMAIN r :
       /\ t[p].kind = r[p].kind /\ t[p].bytes = r[p].bytes
       /\ r[p].kind = "node" =>
            /\ t[p].item = r[p].item /\ t[p].left = r[p].left /\ t[p].right = r[p].right
            /\ t[p].depth = r[p].depth /\ ((t[p].count > 0) <=> (r[p].count > 0))
       /\ r[p].kind = "word" => t[p].word = r[p].word

LEMMA AlikeSame ==
  ASSUME NEW r, Typed(r), NEW t, Typed(t), Alike(r, t)
  PROVE  /\ CountedIn(t) = CountedIn(r)
         /\ Named(r) => Named(t)
         /\ Distinct(r) => Distinct(t)
         /\ Kept(r, t, CountedIn(r), {})
<1>1. \A p \in DOMAIN r : r[p].kind = "node" => (Legible(t, p) <=> Legible(r, p))
  BY DEF Legible, HasKind, Alike
<1>2. CountedIn(t) = CountedIn(r)
  BY <1>1 DEF CountedIn, Legible, HasKind, Alike
<1>3. \A p \in CountedIn(r) : WordAt(t, p) = WordAt(r, p)
  BY DEF CountedIn, Legible, HasKind, WordAt, Alike
<1>4. \A p \in CountedIn(r) : p \in CountedIn(t) /\ p \in DOMAIN r /\ r[p].kind = "node"
  BY <1>2 DEF CountedIn, Legible, HasKind
<1>5. Kept(r, t, CountedIn(r), {})
  <2>1. \A p \in CountedIn(r) : Solid(t, p)
    BY <1>4, CountedSolid
  <2> QED BY <1>3, <1>4, <2>1 DEF Kept, SameNode, Alike
<1>6. Named(r) => Named(t)
  BY <1>1 DEF Named, Alike
<1>7. Distinct(r) => Distinct(t)
  BY <1>2, <1>3 DEF Distinct
<1> QED BY <1>2, <1>5, <1>6, <1>7

LEMMA KeptTree ==
  ASSUME NEW r, NEW t, NEW S, Kept(r, t, S, {}), NEW p, NEW A, IsTree(r, p, A), A \subseteq S
  PROVE  IsTree(t, p, A) /\ delta(t, p) = delta(r, p)
<1>1. \A u \in A : SameNode(r, t, u)
  BY DEF Kept
<1> QED BY <1>1, TreeStays

LEMMA HeapStores ==
  ASSUME HeapInv, UNCHANGED <<layout, clean, utilized, stored>>,
         DOMAIN region' = DOMAIN region,
         \A p \in DOMAIN region : /\ region'[p].kind = region[p].kind
                                  /\ region'[p].bytes = region[p].bytes,
         Live => Named(region') /\ Distinct(region')
  PROVE  HeapInv' /\ (Live' <=> Live)
<1>1. /\ layout' = layout /\ clean' = clean /\ utilized' = utilized
      /\ stored' = stored
  OBVIOUS
<1>2. state' = state
  BY <1>1, StateStays
<1>3. Top' = Top
  BY <1>1 DEF Top, Pointer
<1>4. Live' <=> Live
  BY <1>1 DEF Live
<1>5. HasKind(region, state, "state") => HasKind(region', state', "state")
  BY <1>2 DEF HasKind
<1>6. Beneath(region, Top) => Beneath(region', Top')
  BY <1>3 DEF Beneath
<1> QED BY <1>1, <1>4, <1>5, <1>6 DEF HeapInv

LEMMA StepTyped ==
  ASSUME TypeInv, Next
  PROVE  Typed(region) /\ Typed(region')
<1>1. Typed(region')
  BY RegionStep
<1> QED BY <1>1 DEF TypeInv, TypeOK, Typed

\* The frames of a way whose nodes are Z[1].
LEMMA StackWay ==
  ASSUME TypeInv
  PROVE  stack \in Seq(FrameSet) /\ Len(stack) \in Nat
BY DEF TypeInv, TypeOK, FrameSet, Sides

\* Nothing on a way changes when all counted nodes stay.
LEMMA OpenedStays ==
  ASSUME NEW r, NEW t, NEW way \in Seq(FrameSet), NEW w, NEW q, NEW Z, NEW d,
         Opened(r, way, w, q, Z, d), Kept(r, t, CountedIn(r), {}), CountedIn(t) = CountedIn(r)
  PROVE  Opened(t, way, w, q, Z, d) /\ delta(t, q) = delta(r, q)
<1>1. Zipper(t, way, w, Z, d)
  BY ZipperStays DEF Opened
<1>2. Z[Len(way) + 1] \subseteq Z[1]
  <2>1. 1 \in 1 .. Len(way) + 1 /\ Len(way) + 1 \in 1 .. Len(way) + 1 /\ 1 <= Len(way) + 1
    OBVIOUS
  <2> QED BY <2>1 DEF Opened, Zipper
<1>3. IsTree(t, q, Z[Len(way) + 1]) /\ delta(t, q) = delta(r, q)
  BY <1>2, KeptTree DEF Opened
<1> QED BY <1>1, <1>3 DEF Opened

LEMMA NewNodeSet ==
  ASSUME TypeInv, SetInv, NewNode
  PROVE  SetInv'
<1>1. /\ pc = "walk" /\ call.op = "insert" /\ cur = NULL /\ pc' = "name"
      /\ region' = Allocated(Node) /\ scm_malloc(NodeBytes)
      /\ UNCHANGED <<layout, clean, call, cur, stack>>
  BY DEF NewNode
<1>2. utilized # Closed /\ Node \in Blocks /\ Node.bytes = NodeBytes
  BY <1>1, CallWord, NewTyped DEF Node
<1>3. CallInv'
  BY <1>1 DEF SetInv, CallInv
<1>4. state' = state /\ utilized' \in Nat /\ utilized' # Closed
  <2>1. utilized' \in Nat
    BY <1>1, <1>2 DEF scm_malloc, NodeBytes, TypeInv, TypeOK
  <2> QED BY <1>1, <2>1, StateStays DEF Closed
<1>5. CASE ~clean
  BY <1>1, <1>3, <1>4, <1>5 DEF SetInv, HeapInv, TreeInv, Live
<1>6. CASE clean
  <2> DEFINE q == Pointer(utilized)
  <2>1. Live /\ Extends(region, region', q, Node) /\ Typed(region) /\ Typed(region')
    BY <1>1, <1>2, <1>6, AllocatedExtends DEF SetInv, Live
  <2>2. Beneath(region', Top')
    BY <1>1, <1>2, <1>6, AllocatedBelow DEF SetInv
  <2>3. /\ HasKind(region, state, "state") /\ Named(region) /\ Distinct(region)
        /\ region[state].root \in CountedIn(region) \cup {NULL}
        /\ Walking(region, stack, call.word, cur)
    BY <1>1, <2>1 DEF SetInv, HeapInv, TreeInv, Updates
  <2>4. /\ CountedIn(region') = CountedIn(region) /\ Named(region') /\ Distinct(region')
        /\ Kept(region, region', CountedIn(region), {})
    <3>1. Node.kind = "node" => Node.count = 0
      BY DEF Node
    <3> QED BY <2>1, <2>3, <3>1, ExtendsSame
  <2>5. HasKind(region', state', "state") /\ region'[state'] = region[state]
    BY <1>4, <2>1, <2>3 DEF HasKind, Extends
  <2>6. HeapInv'
    BY <1>4, <2>2, <2>4, <2>5 DEF HeapInv
  <2>7. PICK Z : /\ Opened(region, stack, call.word, NULL, Z, -1)
                 /\ \A u \in CountedIn(region) : WordAt(region, u) = call.word => u \in Z[Len(stack) + 1]
    BY <1>1, <2>3 DEF Walking, delta
  <2>8. Opened(region', stack, call.word, NULL, Z, -1)
    BY <2>4, <2>7, OpenedStays, StackWay
  <2>9. \A u \in CountedIn(region') : WordAt(region', u) # call.word
    <3>1. Z[Len(stack) + 1] = {}
      BY <2>7, NullTree DEF Opened
    <3> QED BY <2>4, <2>7, <3>1 DEF Kept
  <2>10. Naming(region', stack, call.word)
    BY <2>8, <2>9 DEF Naming
  <2>11. TreeInv'
    BY <1>1, <2>3, <2>4, <2>5, <2>10 DEF TreeInv, Looks, Updates
  <2> QED BY <1>3, <2>6, <2>11 DEF SetInv
<1> QED BY <1>5, <1>6 DEF TypeInv, TypeOK

LEMMA InsertedSet ==
  ASSUME TypeInv, SetInv, Inserted
  PROVE  SetInv'
<1>1. /\ pc = "back" /\ stack = <<>> /\ pc' = "idle" /\ call' = NoCall /\ stack' = <<>>
      /\ UNCHANGED <<layout, clean, utilized, stored>>
      /\ ret = NULL => region' = region
      /\ ret # NULL => /\ HasKind(region, state, "state")
                       /\ region' = [region EXCEPT ![state].root = ret]
  BY DEF Inserted, Returns
<1>2. Typed(region) /\ Typed(region')
  BY StepTyped DEF Next
<1>3. Live => \E Z, d : Opened(region, <<>>, call.word, ret, Z, d)
  BY <1>1 DEF SetInv, TreeInv, Backing
<1>4. Live => IsTree(region, ret, CountedIn(region))
  <2>1. Len(<<>>) + 1 = 1
    OBVIOUS
  <2> QED BY <1>3, <2>1 DEF Opened
<1>5. CallInv'
  BY <1>1 DEF CallInv
<1>6. CASE ret = NULL
  <2>1. HeapInv' /\ (Live' <=> Live)
    BY <1>1, <1>6, HeapSame DEF SetInv
  <2>2. Live => Resting(region)
    <3>1. ASSUME Live PROVE Resting(region)
      <4>1. CountedIn(region) = {}
        BY <1>4, <1>6, <3>1, NullTree
      <4>2. region[state].root = NULL
        BY <3>1, <4>1 DEF SetInv, TreeInv
      <4> QED BY <4>1, <4>2, EmptyTree DEF Resting
    <3> QED BY <3>1
  <2> QED BY <1>1, <1>6, <2>1, <2>2, IdleSet
<1>7. CASE ret # NULL
  <2>1. region' = [region EXCEPT ![state].root = ret] /\ state \in DOMAIN region
        /\ region[state].kind = "state"
    BY <1>1, <1>7 DEF HasKind
  <2>2. Relinked(region, region')
    BY RelinkStores DEF TypeInv, Inv
  <2>3. Alike(region, region')
    <3>1. \A p \in DOMAIN region : p # state => region'[p] = region[p]
      BY <2>1
    <3>2. region'[state].kind = "state" /\ region'[state].bytes = region[state].bytes
      BY <2>1, <2>2 DEF Relinked, SameBlock
    <3> QED BY <2>1, <2>2, <3>1, <3>2 DEF Relinked, SameBlock, Alike
  <2>4. /\ CountedIn(region') = CountedIn(region) /\ (Named(region) => Named(region'))
        /\ (Distinct(region) => Distinct(region')) /\ Kept(region, region', CountedIn(region), {})
    BY <1>2, <2>3, AlikeSame
  <2>5. HeapInv' /\ (Live' <=> Live)
    <3>1. Live => Named(region') /\ Distinct(region')
      BY <2>4 DEF SetInv, HeapInv
    <3> QED BY <1>1, <2>3, <3>1, HeapStores DEF SetInv, Alike
  <2>6. state' = state
    BY <1>1, StateStays
  <2>7. region'[state].root = ret
    <3>1. region[state] \in Blocks
      BY <1>2, <2>1 DEF Typed
    <3>2. region[state] = [region[state] EXCEPT !.root = @] /\ "root" \in DOMAIN region[state]
      BY <2>1, <3>1 DEF Blocks
    <3> QED BY <2>1, <3>2
  <2>8. ASSUME Live
        PROVE  Resting(region)' /\ ret \in CountedIn(region') \cup {NULL}
    <3>1. IsTree(region', ret, CountedIn(region))
      BY <1>4, <2>4, <2>8, KeptTree
    <3>2. IsTree(region', region'[state'].root, CountedIn(region'))
      BY <2>4, <2>6, <2>7, <3>1
    <3> QED BY <1>4, <2>4, <2>8, <3>2, NullTree DEF Resting
  <2>9. TreeInv'
    BY <1>1, <2>5, <2>6, <2>7, <2>8 DEF TreeInv, Looks, Updates
  <2> QED BY <1>5, <2>5, <2>9 DEF SetInv
<1> QED BY <1>6, <1>7

LEMMA RelinkSet ==
  ASSUME TypeInv, SetInv, Relink
  PROVE  SetInv' /\ (Live => region'[state] = region[state])
<1> DEFINE w == call.word
           k == Len(stack)
<1>1. /\ pc = "back" /\ pc' = "back" /\ call' = call /\ stack # <<>>
      /\ stack' = SubSeq(stack, 1, k - 1)
      /\ UNCHANGED <<layout, clean, utilized, stored>>
  BY DEF Relink
<1>2. Typed(region) /\ Typed(region')
  BY StepTyped DEF Next
<1>3. w \in Int /\ ret \in Int /\ stack \in Seq(FrameSet) /\ k \in Nat
  BY <1>1, CallWord, StackWay DEF TypeInv, TypeOK
<1>4. CallInv'
  BY <1>1 DEF SetInv, CallInv
<1>5. Relinked(region, region')
  BY RelinkStores DEF TypeInv, Inv
<1>6. state' = state
  BY <1>1, StateStays
<1>7. ASSUME Live
      PROVE  \E F : /\ Restored(region, region', F) /\ state \notin F
                    /\ Backing(region', stack', w, ret')
  <2>a. Backing(region, stack, w, ret)
    BY <1>1, <1>7 DEF SetInv, TreeInv
  <2>b. PICK Z : \E d \in Int : d >= -1 /\ Opened(region, stack, w, ret, Z, d) /\ Growth(region, ret, d, w)
    BY <2>a DEF Backing
  <2>1. PICK d \in Int : d >= -1 /\ Opened(region, stack, w, ret, Z, d) /\ Growth(region, ret, d, w)
    BY <2>b
  <2>2. Popped(region, stack, w, Z, ret)
    BY <1>1, <1>2, <1>3, <2>1, ZipperPops DEF Opened
  <2> DEFINE f == stack[k]
             h == region[f.node].depth
             turned == Rebalance(Linked, f.node, f.side, w)
  <2>3. region' = Deepen(turned.region, turned.root) /\ ret' = turned.root
    BY DEF Relink, Frame
  <2>4. /\ IsTree(region', ret', Z[k]) /\ Growth(region', ret', h, w)
        /\ Restored(region, region', Z[k]) /\ Zipper(region', stack', w, Z, h) /\ h \in Nat
    <3>1. Linked = Link(region, f.node, f.side, ret)
      BY DEF Linked, Frame
    <3> QED BY <1>1, <2>2, <2>3, <3>1 DEF Popped, FrameTurned
  <2> HIDE DEF f, h, turned, w, k
  <2>5. Len(stack') = k - 1 /\ k - 1 + 1 = k
    BY <1>1, <1>3, PopFacts DEF k
  <2>6. CountedIn(region') = CountedIn(region)
    BY <1>2, <2>4, RestoredCounted
  <2>7. Opened(region', stack', w, ret', Z, h)
    BY <2>1, <2>4, <2>5, <2>6 DEF Opened
  <2>8. h \in Int /\ h >= -1
    BY <2>4
  <2>9. Backing(region', stack', w, ret')
    BY <2>4, <2>7, <2>8 DEF Backing
  <2>10. state \notin Z[k]
    <3>1. HasKind(region, state, "state")
      BY <1>7 DEF SetInv, HeapInv
    <3>2. \A u \in Z[k] : HasKind(region', u, "node")
      BY <2>4, NullTree DEF Solid, Legible
    <3> QED BY <1>5, <3>1, <3>2 DEF HasKind, Relinked, SameBlock
  <2> QED BY <2>4, <2>9, <2>10
<1>8. Live => /\ CountedIn(region') = CountedIn(region) /\ Named(region') /\ Distinct(region')
              /\ region'[state] = region[state]
  <2>1. ASSUME Live
        PROVE  /\ CountedIn(region') = CountedIn(region) /\ Named(region') /\ Distinct(region')
               /\ region'[state] = region[state]
    <3>1. PICK F : Restored(region, region', F) /\ state \notin F
      BY <1>7, <2>1
    <3>2. HasKind(region, state, "state") /\ Named(region) /\ Distinct(region)
      BY <2>1 DEF SetInv, HeapInv
    <3> QED BY <1>2, <3>1, <3>2, RestoredCounted DEF Restored, HasKind
  <2> QED BY <2>1
<1>9. HeapInv' /\ (Live' <=> Live)
  BY <1>1, <1>5, <1>8, HeapStores DEF SetInv, Relinked, SameBlock
<1>10. TreeInv'
  <2>1. Live => Backing(region', stack', w, ret')
    BY <1>7
  <2>2. Live => region'[state].root \in CountedIn(region') \cup {NULL}
    BY <1>8 DEF SetInv, TreeInv
  <2> QED BY <1>1, <1>6, <1>9, <2>1, <2>2 DEF TreeInv, Looks, Updates
<1> QED BY <1>4, <1>8, <1>9, <1>10 DEF SetInv

\* A node that is as deep as it should be is deepened to what it is.
LEMMA DeepenKept ==
  ASSUME NEW r, Typed(r), NEW p, p # NULL, NEW S, IsTree(r, p, S), NEW C, \A u \in C : Solid(r, u)
  PROVE  /\ Kept(r, Deepen(r, p), C, {}) /\ Restored(r, Deepen(r, p), {p})
         /\ IsTree(Deepen(r, p), p, S) /\ delta(Deepen(r, p), p) = delta(r, p)
<1> DEFINE t == Deepen(r, p)
<1>1. IsTree(t, p, S) /\ delta(t, p) = delta(r, p) /\ Restored(r, t, {p})
  BY DeepenIdle
<1>2. Solid(r, p) /\ Solid(t, p)
  BY <1>1, NullTree
<1>3. t[p].left = r[p].left /\ t[p].right = r[p].right
  BY <1>2 DEF Deepen, Solid, NodeBlocks
<1>4. t[p].depth = r[p].depth
  BY <1>1 DEF delta
<1> HIDE DEF t
<1>5. SameNode(r, t, p)
  BY <1>1, <1>2, <1>3, <1>4, RestoredNodes DEF SameNode
<1>6. \A u \in C : SameNode(r, t, u)
  BY <1>1, <1>5, RestoredNodes
<1>7. Kept(r, t, C, {})
  BY <1>6 DEF Kept, SameNode
<1> QED BY <1>1, <1>7 DEF t

LEMMA KeptTwice ==
  ASSUME NEW r, NEW s, NEW t, NEW S, Kept(r, s, S, {}), Kept(s, t, S, {})
  PROVE  Kept(r, t, S, {})
BY DEF Kept, SameNode

\* Counting a word that the tree has.
LEMMA CountStep ==
  ASSUME TypeInv, SetInv, CountAgain, Live
  PROVE  /\ CountedIn(region') = CountedIn(region) /\ Named(region') /\ Distinct(region')
         /\ Kept(region, region', CountedIn(region), {})
         /\ DOMAIN region' = DOMAIN region
         /\ \A p \in DOMAIN region : /\ region'[p].kind = region[p].kind
                                     /\ region'[p].bytes = region[p].bytes
         /\ region'[state].root = region[state].root
         /\ region'[state].items = region[state].items + 1
         /\ region'[state].unique = region[state].unique
         /\ cur \in CountedIn(region) /\ region'[cur].count = region[cur].count + 1
         /\ \A u \in CountedIn(region) : u # cur => region'[u].count = region[u].count
<1> DEFINE one == [region EXCEPT ![cur].count = @ + 1]
           more == [one EXCEPT ![state].items = @ + 1]
<1>1. /\ Legible(region, cur) /\ region' = Deepen(more, cur)
      /\ Walking(region, stack, call.word, cur)
      /\ HasKind(region, state, "state") /\ Named(region) /\ Distinct(region)
  BY DEF CountAgain, AtWord, SetInv, HeapInv, TreeInv, Updates
<1>2. Typed(region) /\ Typed(region')
  BY StepTyped DEF Next
<1>3. PICK Z : Opened(region, stack, call.word, cur, Z, delta(region, cur))
  BY <1>1 DEF Walking
<1> DEFINE S == Z[Len(stack) + 1]
<1>4. IsTree(region, cur, S) /\ S \subseteq CountedIn(region) /\ Z[1] = CountedIn(region)
  <2>1. 1 \in 1 .. Len(stack) + 1 /\ Len(stack) + 1 \in 1 .. Len(stack) + 1 /\ 1 <= Len(stack) + 1
    BY StackWay
  <2> QED BY <1>3, <2>1 DEF Opened, Zipper
<1> HIDE DEF S
<1>5. /\ cur \in DOMAIN region /\ region[cur] \in NodeBlocks /\ region[cur].count > 0
      /\ cur # NULL /\ cur \in CountedIn(region)
  <2>1. cur \in DOMAIN region /\ region[cur].kind = "node"
    BY <1>1 DEF Legible, HasKind
  <2>2. cur # NULL
    BY <1>2, <2>1 DEF Typed, NULL
  <2>3. cur \in CountedIn(region)
    BY <1>4, <2>2, NullTree
  <2> QED BY <1>2, <2>1, <2>2, <2>3, NodesTyped DEF CountedIn, HasKind
<1>6. state \in DOMAIN region /\ region[state].kind = "state" /\ state # cur
  BY <1>1 DEF HasKind, Legible
<1>7. /\ Typed(one) /\ Alike(region, one)
      /\ one[state] = region[state] /\ DOMAIN one = DOMAIN region
      /\ one[cur].count = region[cur].count + 1
      /\ \A p \in DOMAIN region : p # cur => one[p] = region[p]
  <2> DEFINE b == [region[cur] EXCEPT !.count = @ + 1]
  <2>1. /\ b \in Blocks /\ b \in NodeBlocks /\ b.kind = "node" /\ b.bytes = region[cur].bytes
        /\ b.item = region[cur].item /\ b.left = region[cur].left /\ b.right = region[cur].right
        /\ b.depth = region[cur].depth /\ b.count > 0 /\ b.count = region[cur].count + 1
    BY <1>5 DEF NodeBlocks, Blocks
  <2>2. one = [region EXCEPT ![cur] = b]
    BY <1>5
  <2> HIDE DEF b, one
  <2>3. Typed(one)
    BY <1>2, <2>1, <2>2, StoreTyped
  <2>4. one[cur] = b /\ DOMAIN one = DOMAIN region /\ \A p \in DOMAIN region : p # cur => one[p] = region[p]
    BY <1>5, <2>2
  <2>5. Alike(region, one)
    BY <1>5, <2>1, <2>4 DEF Alike, NodeBlocks
  <2> QED BY <1>6, <2>1, <2>3, <2>4, <2>5
<1> HIDE DEF one
<1>8. /\ Typed(more) /\ Alike(one, more) /\ more[state].root = one[state].root
      /\ more[state].items = one[state].items + 1 /\ more[state].unique = one[state].unique
      /\ DOMAIN more = DOMAIN region
      /\ \A p \in DOMAIN region : p # state => more[p] = one[p]
  <2> DEFINE b == [one[state] EXCEPT !.items = @ + 1]
  <2>1. one[state] \in [bytes : {StateBytes}, kind : {"state"}, items : Nat, unique : Nat, root : Int]
    BY <1>6, <1>7 DEF Typed, Blocks
  <2>2. /\ b \in Blocks /\ b.root = one[state].root /\ b.kind = "state" /\ b.bytes = one[state].bytes
        /\ b.items = one[state].items + 1 /\ b.unique = one[state].unique
    BY <2>1 DEF Blocks
  <2>3. more = [one EXCEPT ![state] = b] /\ state \in DOMAIN one
    BY <1>6, <1>7
  <2> HIDE DEF b, more
  <2>4. Typed(more)
    BY <1>7, <2>2, <2>3, StoreTyped
  <2>5. more[state] = b /\ DOMAIN more = DOMAIN one /\ \A p \in DOMAIN one : p # state => more[p] = one[p]
    BY <2>3
  <2>6. Alike(one, more)
    BY <1>6, <1>7, <2>2, <2>5 DEF Alike
  <2> QED BY <1>7, <2>2, <2>4, <2>5, <2>6
<1>9. region' = Deepen(more, cur)
  BY <1>1 DEF one
<1> HIDE DEF more
<1>10. /\ CountedIn(more) = CountedIn(region) /\ Named(more) /\ Distinct(more)
       /\ Kept(region, more, CountedIn(region), {})
  <2>1. /\ CountedIn(one) = CountedIn(region) /\ Named(one) /\ Distinct(one)
        /\ Kept(region, one, CountedIn(region), {})
    BY <1>1, <1>2, <1>7, AlikeSame
  <2>2. /\ CountedIn(more) = CountedIn(one) /\ Named(more) /\ Distinct(more)
        /\ Kept(one, more, CountedIn(one), {})
    BY <1>7, <1>8, <2>1, AlikeSame
  <2> QED BY <2>1, <2>2, KeptTwice
<1>11. IsTree(more, cur, S)
  BY <1>4, <1>10, KeptTree
<1>12. \A u \in CountedIn(region) : Solid(more, u)
  BY <1>10 DEF Kept
<1>13. Kept(more, region', CountedIn(region), {}) /\ Restored(more, region', {cur})
  BY <1>5, <1>8, <1>9, <1>11, <1>12, DeepenKept
<1>14. CountedIn(region') = CountedIn(more) /\ Named(region') /\ Distinct(region')
  BY <1>8, <1>10, <1>13, RestoredCounted
<1>15. region'[state] = more[state]
  BY <1>6, <1>8, <1>13 DEF Restored
<1>16. \A p \in DOMAIN region : /\ region'[p].kind = region[p].kind
                                /\ region'[p].bytes = region[p].bytes
  BY <1>7, <1>8, <1>13 DEF Restored, Relinked, SameBlock, Alike
<1>17. \A u \in CountedIn(region) : region'[u].count = more[u].count /\ more[u] = one[u]
  <2>1. \A u \in CountedIn(region) : region'[u].count = more[u].count
    BY <1>8, <1>10, <1>13, RestoredCounted
  <2>2. \A u \in CountedIn(region) : u # state /\ u \in DOMAIN region
    BY <1>6 DEF CountedIn, Legible, HasKind
  <2> QED BY <1>8, <2>1, <2>2
<1>18. /\ region'[cur].count = region[cur].count + 1
       /\ \A u \in CountedIn(region) : u # cur => region'[u].count = region[u].count
  <2>1. \A u \in CountedIn(region) : u \in DOMAIN region
    BY DEF CountedIn
  <2> QED BY <1>5, <1>7, <1>17, <2>1
<1>19. Kept(region, region', CountedIn(region), {})
  BY <1>10, <1>13, KeptTwice
<1>20. DOMAIN region' = DOMAIN region
  BY <1>8, <1>13 DEF Restored, Relinked
<1> QED BY <1>5, <1>7, <1>8, <1>10, <1>14, <1>15, <1>16, <1>18, <1>19, <1>20

LEMMA CountAgainSet ==
  ASSUME TypeInv, SetInv, CountAgain
  PROVE  SetInv'
<1>1. /\ pc = "walk" /\ call.op = "insert" /\ pc' = "back" /\ ret' = cur
      /\ UNCHANGED <<layout, clean, utilized, stored, call, stack>>
  BY DEF CountAgain, AtWord, BackWith
<1>2. CallInv'
  BY <1>1 DEF SetInv, CallInv
<1>3. state' = state
  BY <1>1, StateStays
<1>4. CASE ~Live
  <2>1. ~Live'
    BY <1>1, <1>4 DEF Live
  <2>2. HeapInv'
    BY <1>1, <1>4, <2>1 DEF SetInv, HeapInv, Live
  <2> QED BY <1>2, <2>1, <2>2 DEF SetInv, TreeInv
<1>5. CASE Live
  <2>1. /\ CountedIn(region') = CountedIn(region) /\ Named(region') /\ Distinct(region')
        /\ Kept(region, region', CountedIn(region), {})
        /\ DOMAIN region' = DOMAIN region
        /\ \A p \in DOMAIN region : /\ region'[p].kind = region[p].kind
                                    /\ region'[p].bytes = region[p].bytes
        /\ region'[state].root = region[state].root
    BY <1>5, CountStep
  <2>2. HeapInv' /\ (Live' <=> Live)
    BY <1>1, <2>1, HeapStores DEF SetInv
  <2>3. PICK Z : Opened(region, stack, call.word, cur, Z, delta(region, cur))
    BY <1>1, <1>5 DEF SetInv, TreeInv, Updates, Walking
  <2>4. Opened(region', stack, call.word, cur, Z, delta(region, cur)) /\ delta(region', cur) = delta(region, cur)
    BY <2>1, <2>3, OpenedStays, StackWay
  <2>5. delta(region, cur) \in Int /\ delta(region, cur) >= -1
    BY <2>3, NullTree DEF Opened
  <2>6. Growth(region', cur, delta(region, cur), call.word)
    BY <2>4 DEF Growth
  <2>7. Backing(region', stack, call.word, cur)
    BY <2>4, <2>5, <2>6 DEF Backing
  <2>8. TreeInv'
    <3>1. region'[state].root \in CountedIn(region') \cup {NULL}
      BY <1>5, <2>1 DEF SetInv, TreeInv
    <3> QED BY <1>1, <1>3, <2>7, <3>1 DEF TreeInv, Looks, Updates
  <2> QED BY <1>2, <2>2, <2>8 DEF SetInv
<1> QED BY <1>4, <1>5

\* A new word: what the walk has come to is the end of a way.
LEMMA NamedStep ==
  ASSUME TypeInv, SetInv, NewName, Live
  PROVE  /\ CountedIn(region') = CountedIn(region) \cup {ret} /\ ret \notin CountedIn(region)
         /\ Named(region') /\ Distinct(region')
         /\ Kept(region, region', CountedIn(region), {})
         /\ Solid(region', ret) /\ WordAt(region', ret) = call.word
         /\ region'[ret].left = NULL /\ region'[ret].right = NULL /\ region'[ret].depth = 0
         /\ HasKind(region', state, "state") /\ region'[state].root = region[state].root
         /\ Beneath(region', Top')
         /\ region'[state].items = region[state].items + 1
         /\ region'[state].unique = region[state].unique + 1
         /\ region'[ret].count = 1
         /\ \A u \in CountedIn(region) : region'[u].count = region[u].count
<1> DEFINE w == call.word
           b == Word(w)
           q == Pointer(utilized)
           named == Allocated(b)
<1>1. /\ pc = "name" /\ scm_malloc(Letters[w]) /\ UNCHANGED layout
      /\ HasKind(named, ret, "node") /\ HasKind(named, state, "state")
      /\ region' = [named EXCEPT ![ret].item = q, ![ret].count = 1,
                                 ![state].items = @ + 1, ![state].unique = @ + 1]
  BY DEF NewName, BackWith
<1>2. w \in Words /\ utilized # Closed /\ clean /\ b \in Blocks
      /\ ret \in DOMAIN region /\ region[ret] = Node
  BY <1>1, CallWord, NewTyped DEF Live, TypeInv, Inv, NameInv
<1>3. /\ HasKind(region, state, "state") /\ Named(region) /\ Distinct(region)
      /\ Naming(region, stack, w)
  BY <1>1 DEF SetInv, HeapInv, TreeInv
<1>4. /\ Extends(region, named, q, b) /\ Typed(named) /\ Typed(region) /\ q \in Nat /\ q # NULL
  BY <1>2, AllocatedExtends DEF SetInv
<1>5. b.bytes = Letters[w] /\ b.kind = "word" /\ b.word = w
  BY DEF Word
<1>6. /\ CountedIn(named) = CountedIn(region) /\ Named(named) /\ Distinct(named)
      /\ Kept(region, named, CountedIn(region), {})
  <2> HIDE DEF named, q, b, w
  <2> QED BY <1>3, <1>4, <1>5, ExtendsSame
<1>7. /\ SameSizes(named, region')
      /\ \A p \in DOMAIN named : p # ret => SameBlock(named[p], region'[p])
  BY NameStores DEF TypeInv, Inv
<1>8. Typed(region')
  BY StepTyped DEF Next
<1>9. Beneath(region', Top')
  BY <1>1, <1>2, <1>5, <1>7, AllocatedBelow DEF SetInv, SameSizes
<1>10. /\ ret \in DOMAIN named /\ named[ret] = Node /\ ret # q
       /\ state \in DOMAIN named /\ state # ret /\ named[state] = region[state]
       /\ named[state].kind = "state"
  <2> HIDE DEF named, q, b, w
  <2> QED BY <1>1, <1>2, <1>3, <1>4 DEF HasKind, Extends, Node
<1>11. named[q] = b /\ q \in DOMAIN named /\ q # state
  <2> HIDE DEF named, q, b, w
  <2> QED BY <1>4, <1>5, <1>10 DEF Extends
<1> HIDE DEF named, q, b
<1>12. /\ DOMAIN region' = DOMAIN named
       /\ \A p \in DOMAIN named : p \notin {ret, state} => region'[p] = named[p]
       /\ region'[ret] = [named[ret] EXCEPT !.item = q, !.count = 1]
       /\ region'[state] = [named[state] EXCEPT !.items = @ + 1, !.unique = @ + 1]
  BY <1>1, <1>10
<1>13. /\ region'[ret].kind = "node" /\ region'[ret].item = q /\ region'[ret].count = 1
       /\ region'[ret].left = NULL /\ region'[ret].right = NULL /\ region'[ret].depth = 0
  BY <1>10, <1>12 DEF Node
<1>14. /\ region'[state].kind = "state" /\ region'[state].root = region[state].root
       /\ region'[state].items = region[state].items + 1
       /\ region'[state].unique = region[state].unique + 1
  <2>1. named[state] \in [bytes : {StateBytes}, kind : {"state"}, items : Nat, unique : Nat, root : Int]
    BY <1>4, <1>10 DEF Typed, Blocks
  <2> QED BY <1>10, <1>12, <2>1
<1>15. region'[q] = b
  BY <1>10, <1>11, <1>12
<1>16. HasKind(region', ret, "node") /\ Legible(region', ret) /\ WordAt(region', ret) = w
  BY <1>5, <1>10, <1>11, <1>12, <1>13, <1>15 DEF HasKind, Legible, WordAt
<1>17. Solid(region', ret)
  <2>1. region'[ret] \in NodeBlocks
    BY <1>8, <1>16, NodesTyped
  <2>2. ret \in Nat
    BY <1>4, <1>10 DEF Typed
  <2>3. w \in Int
    BY <1>2, AvlAssumption
  <2> QED BY <1>16, <2>1, <2>2, <2>3 DEF Solid, HasKind
<1>18. ret \notin CountedIn(region)
  BY <1>2 DEF CountedIn, Node
<1>19. \A p \in DOMAIN named : p # ret /\ named[p].kind # "state" => region'[p] = named[p]
  BY <1>10, <1>12
<1>20. \A p \in DOMAIN named : p # ret /\ named[p].kind = "node" =>
         /\ (Legible(region', p) <=> Legible(named, p))
         /\ region'[p] = named[p]
         /\ Legible(named, p) => WordAt(region', p) = WordAt(named, p)
  <2>1. ASSUME NEW p \in DOMAIN named, p # ret, named[p].kind = "node"
        PROVE  /\ (Legible(region', p) <=> Legible(named, p))
               /\ region'[p] = named[p]
               /\ Legible(named, p) => WordAt(region', p) = WordAt(named, p)
    <3>1. region'[p] = named[p]
      BY <1>19, <2>1
    <3>2. \A u : HasKind(region', u, "word") <=> HasKind(named, u, "word")
      <4>1. \A u \in DOMAIN named : u # ret => region'[u].kind = named[u].kind
        BY <1>7 DEF SameBlock
      <4>2. region'[ret].kind = "node" /\ named[ret].kind = "node"
        BY <1>10, <1>13 DEF Node
      <4> QED BY <1>12, <4>1, <4>2 DEF HasKind
    <3>3. \A u : HasKind(named, u, "word") => region'[u] = named[u]
      BY <1>10, <1>19 DEF HasKind, Node
    <3> QED BY <1>12, <2>1, <3>1, <3>2, <3>3 DEF Legible, HasKind, WordAt
  <2> QED BY <2>1
<1>21. CountedIn(region') = CountedIn(region) \cup {ret}
  <2>1. \A p : p # ret => (p \in CountedIn(region') <=> p \in CountedIn(named))
    <3>1. ASSUME NEW p, p # ret PROVE p \in CountedIn(region') <=> p \in CountedIn(named)
      <4>1. CASE p \in DOMAIN named /\ named[p].kind = "node"
        BY <1>12, <1>20, <3>1, <4>1 DEF CountedIn
      <4>2. CASE p \in DOMAIN named /\ named[p].kind # "node"
        <5>1. region'[p].kind = named[p].kind
          BY <1>7, <3>1, <4>2 DEF SameBlock
        <5> QED BY <4>2, <5>1 DEF CountedIn, Legible, HasKind
      <4>3. CASE p \notin DOMAIN named
        BY <1>12, <4>3 DEF CountedIn
      <4> QED BY <4>1, <4>2, <4>3
    <3> QED BY <3>1
  <2>2. ret \in CountedIn(region')
    <3>1. ret \in DOMAIN region' /\ region'[ret].count > 0
      BY <1>10, <1>12, <1>13
    <3> QED BY <1>16, <3>1 DEF CountedIn
  <2> QED BY <1>6, <2>1, <2>2
<1>22. Named(region')
  <2>1. ASSUME NEW p \in DOMAIN region', region'[p].kind = "node", region'[p].count > 0
        PROVE  Legible(region', p)
    <3>1. CASE p = ret
      BY <1>16, <3>1
    <3>2. CASE p # ret
      <4>1. named[p].kind = "node" /\ p \in DOMAIN named
        BY <1>7, <1>12, <2>1, <3>2 DEF SameBlock
      <4> QED BY <1>6, <1>20, <2>1, <3>2, <4>1 DEF Named
    <3> QED BY <3>1, <3>2
  <2> QED BY <2>1 DEF Named
<1>23. \A p \in CountedIn(region) : /\ p # ret /\ WordAt(region', p) = WordAt(named, p)
                                    /\ region'[p] = named[p]
  <2>1. ASSUME NEW p \in CountedIn(region)
        PROVE  p # ret /\ WordAt(region', p) = WordAt(named, p) /\ region'[p] = named[p]
    <3>1. p # ret
      BY <1>18, <2>1
    <3>2. p \in DOMAIN named /\ Legible(named, p) /\ named[p].kind = "node"
      BY <1>6, <2>1 DEF CountedIn, Legible, HasKind
    <3> QED BY <1>20, <3>1, <3>2
  <2> QED BY <2>1
<1>24. Kept(region, region', CountedIn(region), {})
  <2>1. \A p \in CountedIn(region) : Solid(region', p)
    BY <1>8, <1>21, CountedSolid
  <2> QED BY <1>6, <1>23, <2>1 DEF Kept, SameNode
<1>25. \A p \in CountedIn(region) : WordAt(region', p) # w
  BY <1>3, <1>24 DEF Naming, Kept
<1>26. Distinct(region')
  <2>1. ASSUME NEW p \in CountedIn(region'), NEW u \in CountedIn(region'),
               WordAt(region', p) = WordAt(region', u)
        PROVE  p = u
    <3>1. CASE p = ret
      BY <1>16, <1>21, <1>25, <2>1, <3>1
    <3>2. CASE u = ret
      BY <1>16, <1>21, <1>25, <2>1, <3>2
    <3>3. CASE p # ret /\ u # ret
      BY <1>6, <1>21, <1>23, <2>1, <3>3 DEF Distinct
    <3> QED BY <3>1, <3>2, <3>3
  <2> QED BY <2>1 DEF Distinct
<1>27. \A u \in CountedIn(region) : region'[u].count = region[u].count
  <2>1. \A u \in CountedIn(region) : u \in DOMAIN region
    BY DEF CountedIn
  <2> QED BY <1>4, <1>23, <2>1 DEF Extends
<1> QED BY <1>9, <1>10, <1>12, <1>13, <1>14, <1>16, <1>17, <1>18, <1>21, <1>22, <1>24, <1>26, <1>27 DEF HasKind

LEMMA NewNameSet ==
  ASSUME TypeInv, SetInv, NewName
  PROVE  SetInv'
<1> DEFINE w == call.word
<1>1. /\ pc = "name" /\ pc' = "back" /\ ret' = ret
      /\ scm_malloc(Letters[w])
      /\ UNCHANGED <<layout, clean, call, stack>>
  BY DEF NewName, BackWith
<1>2. CallInv'
  BY <1>1 DEF SetInv, CallInv
<1>3. state' = state
  BY <1>1, StateStays
<1>4. w \in Words /\ w \in Int /\ utilized # Closed
  BY <1>1, CallWord
<1>5. utilized' \in Nat /\ utilized' # Closed
  BY <1>1, <1>4, AvlAssumption DEF scm_malloc, TypeInv, TypeOK, Closed
<1>6. CASE ~clean
  BY <1>1, <1>2, <1>5, <1>6 DEF SetInv, HeapInv, TreeInv, Live
<1>7. CASE clean
  <2>1. Live
    BY <1>4, <1>7 DEF Live
  <2>2. /\ CountedIn(region') = CountedIn(region) \cup {ret} /\ ret \notin CountedIn(region)
        /\ Named(region') /\ Distinct(region')
        /\ Kept(region, region', CountedIn(region), {})
        /\ Solid(region', ret) /\ WordAt(region', ret) = w
        /\ region'[ret].left = NULL /\ region'[ret].right = NULL /\ region'[ret].depth = 0
        /\ HasKind(region', state, "state") /\ region'[state].root = region[state].root
        /\ Beneath(region', Top')
    BY <2>1, NamedStep
  <2>3. HeapInv'
    BY <1>3, <1>5, <2>2 DEF HeapInv
  <2>4. PICK Z : Opened(region, stack, w, NULL, Z, -1)
    BY <1>1, <2>1 DEF SetInv, TreeInv, Naming
  <2>5. Zipper(region', stack, w, Z, -1) /\ Z[1] = CountedIn(region) /\ Z[Len(stack) + 1] = {}
    <3>1. Zipper(region', stack, w, Z, -1)
      BY <2>2, <2>4, StackWay, ZipperStays DEF Opened
    <3> QED BY <2>4, <3>1, NullTree DEF Opened
  <2> HIDE DEF w
  <2>6. Grown(region', stack, w, Z, ret)
    BY <1>4, <2>2, <2>5, StackWay, ZipperGrows
  <2>7. PICK Y : /\ Zipper(region', stack, w, Y, -1) /\ Y[1] = Z[1] \cup {ret}
                 /\ IsTree(region', ret, Y[Len(stack) + 1]) /\ Growth(region', ret, -1, w)
    BY <2>6 DEF Grown
  <2>8. Opened(region', stack, w, ret, Y, -1)
    BY <2>2, <2>5, <2>7 DEF Opened
  <2>9. Backing(region', stack, w, ret)
    <3>1. -1 \in Int /\ -1 >= -1
      OBVIOUS
    <3> QED BY <2>7, <2>8, <3>1 DEF Backing
  <2>10. TreeInv'
    <3>1. region'[state].root \in CountedIn(region') \cup {NULL}
      BY <2>1, <2>2 DEF SetInv, TreeInv
    <3> QED BY <1>1, <1>3, <2>9, <3>1 DEF TreeInv, Looks, Updates, w
  <2> QED BY <1>2, <2>3, <2>10 DEF SetInv
<1> QED BY <1>6, <1>7 DEF TypeInv, TypeOK

LEMMA SetStep ==
  ASSUME TypeInv, SetInv, [Next]_vars
  PROVE  SetInv'
<1>1. CASE UNCHANGED vars
  <2>1. /\ UNCHANGED <<layout, clean, utilized, stored, region>>
        /\ UNCHANGED <<pc, call, cur, stack, ret>>
    BY <1>1 DEF vars, scmVars, avlVars
  <2>2. HeapInv' /\ (Live' <=> Live)
    BY <2>1, HeapSame DEF SetInv
  <2>3. state' = state
    BY <2>1, StateStays
  <2>4. TreeInv' /\ CallInv'
    BY <2>1, <2>2, <2>3 DEF SetInv, TreeInv, CallInv, Looks, Updates, Resting
  <2> QED BY <2>2, <2>4 DEF SetInv
<1>2. ASSUME NEW truncate \in BOOLEAN, avl_open(truncate) PROVE SetInv'
  BY <1>2, OpenSet
<1>3. ASSUME NEW op \in {"insert", "exists"}, NEW w \in Words, Call(op, w) PROVE SetInv'
  BY <1>3, CallSet
<1>4. CASE Crash
  BY <1>4, EndSet DEF Crash
<1>5. CASE Fault
  BY <1>5, EndSet, CallWord DEF Fault, Overruns
<1>6. CASE Astray
  BY <1>6, EndSet DEF Astray
<1> QED BY <1>1, <1>2, <1>3, <1>4, <1>5, <1>6, CloseSet, DescendSet, AnswerSet, CountAgainSet,
           NewNodeSet, NewNameSet, NoRoomSet, RelinkSet, InsertedSet DEF Next

LEMMA SetInvariance == Spec => [](TypeInv /\ SetInv)
<1>1. Init => TypeOK /\ WalkInv
  <2> SUFFICES ASSUME Init PROVE TypeOK /\ WalkInv
    OBVIOUS
  <2>1. region = <<>> /\ DOMAIN region = {}
    BY DEF Init, ScmInit
  <2>2. marked \in BOOLEAN /\ clean \in BOOLEAN
    BY DEF Init, ScmInit
  <2> QED BY <2>1, <2>2 DEF Init, ScmInit, TypeOK, WalkInv, Closed, NULL
<1>2. Inv /\ Inv' /\ TypeOK /\ WalkInv /\ [Next]_vars => (TypeOK /\ WalkInv)'
  BY HandleStep, WalkStep DEF TypeInv
<1>3. Init => SetInv
  BY InitSet
<1>4. Inv /\ TypeOK /\ WalkInv /\ SetInv /\ [Next]_vars => SetInv'
  BY SetStep DEF TypeInv
<1> QED BY <1>1, <1>2, <1>3, <1>4, Invariance, PTL DEF Spec, TypeInv

-----------------------------------------------------------------------------
(* What can be reached from a node.                                         *)

\* f[n] is what can be reached from p over at most n links of r.
Reaches(r, p, f) ==
  f = [n \in Nat |-> IF n = 0 THEN {p} \ {NULL}
                     ELSE LET less == f[n - 1] IN less \cup KidsOf(r, less)]

\* The nodes at the ends of the ways of n links, some of which may be idle.
Ways(r, p, n) == {c \in [0 .. n -> Int] :
  /\ c[0] = p /\ p # NULL
  /\ \A i \in 1 .. n : c[i] = c[i - 1] \/ c[i] \in Kids(r, c[i - 1])}
Ends_(r, p, n) == {u \in Int : \E c \in Ways(r, p, n) : c[n] = u}

LEMMA EndsGrow ==
  ASSUME NEW r, Typed(r), NEW p \in Int, NEW n \in Nat, n # 0
  PROVE  Ends_(r, p, n) = Ends_(r, p, n - 1) \cup KidsOf(r, Ends_(r, p, n - 1))
<1> DEFINE A == Ends_(r, p, n - 1)
<1>1. n - 1 \in Nat /\ n \in 0 .. n /\ n \in 1 .. n /\ n - 1 \in 0 .. n - 1 /\ n - 1 # n
  OBVIOUS
<1>2. \A u : Kids(r, u) \subseteq Int
  BY NodesTyped DEF Kids, NodeBlocks
<1>3. ASSUME NEW c \in Ways(r, p, n)
      PROVE  c[n] \in A \cup KidsOf(r, A)
  <2> DEFINE b == [i \in 0 .. n - 1 |-> c[i]]
  <2>1. b \in Ways(r, p, n - 1)
    <3>1. /\ b \in [0 .. n - 1 -> Int]
          /\ b[0] = c[0]
      BY <1>1 DEF Ways
    <3>2. \A i \in 1 .. n - 1 : i \in 0 .. n - 1 /\ i - 1 \in 0 .. n - 1 /\ i \in 1 .. n
      BY <1>1
    <3>3. \A i \in 1 .. n - 1 : b[i] = c[i] /\ b[i - 1] = c[i - 1]
      BY <3>2
    <3> HIDE DEF b
    <3> QED BY <3>1, <3>2, <3>3 DEF Ways
  <2>2. b[n - 1] = c[n - 1] /\ c[n - 1] \in Int
    BY <1>1 DEF Ways
  <2>3. c[n - 1] \in A
    BY <2>1, <2>2 DEF Ends_
  <2>4. c[n] = c[n - 1] \/ c[n] \in Kids(r, c[n - 1])
    BY <1>1 DEF Ways
  <2> QED BY <2>3, <2>4 DEF KidsOf
<1>4. ASSUME NEW u \in A, NEW v, v = u \/ v \in Kids(r, u)
      PROVE  v \in Ends_(r, p, n)
  <2>1. PICK b \in Ways(r, p, n - 1) : b[n - 1] = u
    BY DEF Ends_
  <2>2. v \in Int
    BY <1>2, <1>4 DEF Ends_
  <2> DEFINE c == [i \in 0 .. n |-> IF i = n THEN v ELSE b[i]]
  <2>3. c \in [0 .. n -> Int]
    <3>1. \A i \in 0 .. n : i # n => i \in 0 .. n - 1
      BY <1>1
    <3> QED BY <2>2, <3>1 DEF Ways
  <2>4. c[0] = p /\ p # NULL
    BY <1>1 DEF Ways
  <2>5. ASSUME NEW i \in 1 .. n PROVE c[i] = c[i - 1] \/ c[i] \in Kids(r, c[i - 1])
    <3>1. i - 1 \in 0 .. n /\ i \in 0 .. n /\ i - 1 # n
      BY <1>1
    <3>2. c[i - 1] = b[i - 1]
      BY <3>1
    <3>3. CASE i = n
      BY <1>4, <2>1, <3>1, <3>2, <3>3
    <3>4. CASE i # n
      <4>1. i \in 1 .. n - 1 /\ c[i] = b[i]
        BY <1>1, <3>1, <3>4
      <4> HIDE DEF c
      <4> QED BY <3>2, <4>1 DEF Ways
    <3> QED BY <3>3, <3>4
  <2>6. c[n] = v
    BY <1>1
  <2> HIDE DEF c
  <2>7. c \in Ways(r, p, n)
    BY <2>3, <2>4, <2>5 DEF Ways
  <2> QED BY <2>2, <2>6, <2>7 DEF Ends_
<1>5. Ends_(r, p, n) \subseteq A \cup KidsOf(r, A)
  BY <1>3 DEF Ends_
<1>6. A \cup KidsOf(r, A) \subseteq Ends_(r, p, n)
  BY <1>4 DEF KidsOf
<1> QED BY <1>5, <1>6

LEMMA ReachExists ==
  ASSUME NEW r, Typed(r), NEW p \in Int
  PROVE  \E f : Reaches(r, p, f)
<1> DEFINE f == [n \in Nat |-> Ends_(r, p, n)]
<1>1. Ends_(r, p, 0) = {p} \ {NULL}
  <2>1. \A u \in Ends_(r, p, 0) : u = p /\ p # NULL
    BY DEF Ends_, Ways
  <2>2. ASSUME p # NULL PROVE p \in Ends_(r, p, 0)
    <3> DEFINE c == [i \in 0 .. 0 |-> p]
    <3>1. c \in Ways(r, p, 0) /\ c[0] = p
      BY <2>2 DEF Ways
    <3> QED BY <3>1 DEF Ends_
  <2> QED BY <2>1, <2>2
<1>2. ASSUME NEW n \in Nat
      PROVE  f[n] = IF n = 0 THEN {p} \ {NULL}
                    ELSE LET less == f[n - 1] IN less \cup KidsOf(r, less)
  <2>1. CASE n = 0
    BY <1>1, <2>1
  <2>2. CASE n # 0
    <3>1. n - 1 \in Nat
      BY <2>2
    <3>2. f[n] = Ends_(r, p, n) /\ f[n - 1] = Ends_(r, p, n - 1)
      BY <3>1
    <3> HIDE DEF f
    <3> QED BY <2>2, <3>2, EndsGrow
  <2> QED BY <2>1, <2>2
<1>3. f = [n \in Nat |-> f[n]]
  OBVIOUS
<1> HIDE DEF f
<1>4. f = [n \in Nat |-> IF n = 0 THEN {p} \ {NULL}
                         ELSE LET less == f[n - 1] IN less \cup KidsOf(r, less)]
  BY <1>2, <1>3
<1> QED BY <1>4 DEF Reaches

LEMMA BelowReach ==
  ASSUME Typed(region), NEW p \in Int
  PROVE  \E f : Reaches(region, p, f) /\ Below(p) = f[Cardinality(Words)]
<1> DEFINE f == CHOOSE f : Reaches(region, p, f)
<1>1. Reaches(region, p, f)
  BY ReachExists
<1>2. Below(p) = f[Cardinality(Words)]
  BY DEF Below, Reaches
<1> QED BY <1>1, <1>2

LEMMA ReachSteps ==
  ASSUME NEW r, NEW p, NEW f, Reaches(r, p, f)
  PROVE  /\ f[0] = {p} \ {NULL}
         /\ \A n \in Nat : f[n + 1] = f[n] \cup KidsOf(r, f[n])
<1>1. \A n \in Nat : f[n] = IF n = 0 THEN {p} \ {NULL}
                            ELSE LET less == f[n - 1] IN less \cup KidsOf(r, less)
  BY DEF Reaches
<1>2. ASSUME NEW n \in Nat PROVE f[n + 1] = f[n] \cup KidsOf(r, f[n])
  <2> DEFINE m == n + 1
  <2>1. m \in Nat /\ m # 0 /\ m - 1 = n
    OBVIOUS
  <2> HIDE DEF m
  <2>2. f[m] = f[n] \cup KidsOf(r, f[n])
    BY <1>1, <2>1
  <2> QED BY <2>2 DEF m
<1> QED BY <1>1, <1>2

\* A set with p in it that no link leaves has in it what can be reached from p.
LEMMA ReachStays ==
  ASSUME NEW r, NEW p, NEW f, Reaches(r, p, f), NEW S, p \in S \cup {NULL},
         \A u \in S : Kids(r, u) \subseteq S
  PROVE  \A n \in Nat : f[n] \subseteq S
<1> DEFINE Bad == {n \in Nat : ~(f[n] \subseteq S)}
<1> SUFFICES ASSUME Bad # {} PROVE FALSE
  OBVIOUS
<1>1. PICK n \in Bad : \A m \in Bad : n <= m
  BY LeastNatural
<1>2. f[0] \subseteq S
  BY ReachSteps
<1>3. n # 0 /\ n \in Nat
  BY <1>1, <1>2
<1>4. n - 1 \in Nat /\ n - 1 + 1 = n /\ n - 1 \notin Bad
  BY <1>1, <1>3
<1>5. f[n - 1] \subseteq S
  BY <1>4
<1>6. f[n - 1 + 1] = f[n - 1] \cup KidsOf(r, f[n - 1])
  BY <1>4, ReachSteps
<1>7. f[n] \subseteq S
  BY <1>4, <1>5, <1>6 DEF KidsOf
<1> QED BY <1>1, <1>7

LEMMA BelowTree ==
  ASSUME Typed(region), NEW p \in Int, NEW S, IsTree(region, p, S)
  PROVE  Below(p) \subseteq S
<1>1. PICK f : Reaches(region, p, f) /\ Below(p) = f[Cardinality(Words)]
  BY BelowReach
<1>2. Cardinality(Words) \in Nat
  BY AvlAssumption, FS_CardinalityType
<1>3. p \in S \cup {NULL}
  BY NullTree
<1>4. \A u \in S : Kids(region, u) \subseteq S
  BY TreeKids
<1>5. f[Cardinality(Words)] \subseteq S
  BY <1>1, <1>2, <1>3, <1>4, ReachStays
<1> QED BY <1>1, <1>5

LEMMA TreeIsOrdered ==
  ASSUME TypeOK, SetInv
  PROVE  TreeOrdered
<1> SUFFICES ASSUME Standing, NEW p \in Below(region[state].root)
             PROVE  /\ Legible(region, p)
                    /\ \A q \in Below(region[p].left) : WordAt(region, q) < WordAt(region, p)
                    /\ \A q \in Below(region[p].right) : WordAt(region, q) > WordAt(region, p)
                    /\ region[p].depth = depth(region, region[p].left, region[p].right)
                    /\ ~Unbalanced(region, p)
  BY DEF TreeOrdered
<1> DEFINE top == region[state].root
           S == CountedIn(region)
<1>1. Typed(region)
  BY DEF TypeOK, Typed
<1>2. IsTree(region, top, S)
  BY DEF Standing, SetInv, TreeInv, Live, Resting
<1>3. top \in Int
  <2>1. HasKind(region, state, "state")
    BY DEF Standing
  <2> QED BY <1>1, <2>1 DEF Typed, HasKind, Blocks
<1> HIDE DEF top, S
<1>4. p \in S
  BY <1>1, <1>2, <1>3, BelowTree DEF top
<1>5. PICK B : TreeBy(region, top, S, B)
  BY <1>2 DEF IsTree
<1>6. IsTree(region, p, SubOf(B, p)) /\ p # NULL
  <2>1. Solid(region, p)
    BY <1>2, <1>4, NullTree
  <2> QED BY <1>4, <1>5, <2>1, SubTree, SolidNull
<1>7. PICK A, C : /\ IsTree(region, Kid(region, p, "left"), A)
                  /\ IsTree(region, Kid(region, p, Other("left")), C)
                  /\ Apex(region, p, "left", A, C)
  <2>1. "left" \in Sides
    BY DEF Sides
  <2> QED BY <1>6, <2>1, TreeParts
<1>8. Kid(region, p, "left") = region[p].left /\ Kid(region, p, Other("left")) = region[p].right
  BY DEF Kid, Other
<1>9. region[p].left \in Int /\ region[p].right \in Int /\ Solid(region, p)
  BY <1>7, SolidNull DEF Apex
<1>10. Below(region[p].left) \subseteq A /\ Below(region[p].right) \subseteq C
  BY <1>1, <1>7, <1>8, <1>9, BelowTree
<1>11. \A q \in C : WordAt(region, q) > WordAt(region, p)
  <2>1. \A q \in C : WordAt(region, q) \in Int
    BY <1>7, NullTree DEF Solid
  <2>2. \A q \in C : WordAt(region, p) < WordAt(region, q)
    BY <1>7 DEF Apex, Before
  <2> QED BY <1>9, <2>1, <2>2 DEF Solid
<1>12. \A q \in A : WordAt(region, q) < WordAt(region, p)
  BY <1>7 DEF Apex, Before
<1>13. Level(region[p].depth, delta(region, region[p].left), delta(region, region[p].right))
  BY <1>7, <1>8 DEF Apex
<1>14. Legible(region, p)
  BY <1>9 DEF Solid
<1>15. region[p].depth = depth(region, region[p].left, region[p].right) /\ ~Unbalanced(region, p)
  BY <1>13 DEF Level, depth, Unbalanced, balance
<1> QED BY <1>10, <1>11, <1>12, <1>14, <1>15

\* Between two calls, and between two sessions, the nodes are a search tree whose
\* depths are right and whose subtrees are balanced.
THEOREM TreeCorrect == Spec => []TreeOrdered
<1>1. TypeInv /\ SetInv => TreeOrdered
  BY TreeIsOrdered DEF TypeInv
<1> QED BY <1>1, SetInvariance, PTL

-----------------------------------------------------------------------------
(* No call leads astray.                                                    *)

FiniteInv == IsFiniteSet(DOMAIN region)

LEMMA OneMore ==
  ASSUME NEW S, IsFiniteSet(S), NEW x, NEW T, T \subseteq S \cup {x}
  PROVE  IsFiniteSet(T)
<1>1. IsFiniteSet(S \cup {x})
  BY FS_AddElement
<1> QED BY <1>1, FS_Subset

LEMMA FiniteStep ==
  ASSUME TypeInv, FiniteInv, [Next]_vars
  PROVE  FiniteInv'
<1>1. \A x : IsFiniteSet({x})
  BY FS_Singleton
<1>2. CASE DOMAIN region' \subseteq DOMAIN region
  BY <1>2, FS_Subset DEF FiniteInv
<1>3. ASSUME NEW b, DOMAIN region' = DOMAIN Allocated(b) PROVE FiniteInv'
  <2>1. DOMAIN region' \subseteq DOMAIN region \cup {Pointer(utilized)}
    BY <1>3 DEF Allocated, Untouched
  <2> QED BY <2>1, OneMore DEF FiniteInv
<1>4. ASSUME NEW truncate \in BOOLEAN, avl_open(truncate) PROVE FiniteInv'
  <2>1. UNCHANGED region \/ region' = [p \in {state} |-> State]
    BY <1>4 DEF avl_open
  <2>2. region' = [p \in {state} |-> State] => DOMAIN region' = {state}
    OBVIOUS
  <2> QED BY <1>1, <1>2, <2>1, <2>2 DEF FiniteInv
<1>5. CASE avl_close
  <2>1. DOMAIN region' \subseteq DOMAIN region
    BY <1>5 DEF avl_close, scm_close, Restrict, Untouched
  <2> QED BY <1>2, <2>1
<1>6. CASE CountAgain
  <2>1. DOMAIN region' = DOMAIN region
    BY <1>6 DEF CountAgain, Deepen
  <2> QED BY <1>2, <2>1
<1>7. CASE NewNode
  BY <1>3, <1>7 DEF NewNode
<1>8. CASE NewName
  <2>1. DOMAIN region' = DOMAIN Allocated(Word(call.word))
    BY <1>8 DEF NewName
  <2> QED BY <1>3, <2>1
<1>9. CASE Relink \/ Inserted
  <2>1. DOMAIN region' = DOMAIN region
    BY <1>9, RelinkStores DEF TypeInv, Inv, Relinked
  <2> QED BY <1>2, <2>1
<1> QED BY <1>2, <1>4, <1>5, <1>6, <1>7, <1>8, <1>9
        DEF Next, vars, scmVars, Call, Descend, Found, Missed, NoRoom, Crash, Fault, Astray,
            Ends, Killed

\* The frames of a way are as many different nodes.
LEMMA WayShort ==
  ASSUME Typed(region), FiniteInv, NEW way \in Seq(FrameSet), NEW w, NEW Z, NEW d,
         Zipper(region, way, w, Z, d)
  PROVE  Len(way) <= Cardinality(DOMAIN region)
<1> DEFINE k == Len(way)
           f == [m \in 1 .. k |-> way[m].node]
<1>1. k \in Nat
  OBVIOUS
<1>2. \A m \in 1 .. k + 1 : Z[m] \subseteq Z[1] /\ \A u \in Z[m] : Solid(region, u)
  <2>1. \A m \in 1 .. k + 1 : 1 \in 1 .. k + 1 /\ 1 <= m
    BY <1>1
  <2> QED BY <2>1 DEF Zipper
<1>3. ASSUME NEW m \in 1 .. k
      PROVE  way[m].node \in Z[m] /\ way[m].node \notin Z[m + 1]
  <2>1. m \in 1 .. k + 1
    BY <1>1
  <2>2. \A u \in Z[m] : Solid(region, u)
    BY <1>2, <2>1
  <2>3. Holds(region, w, way[m], Z[m], Z[m + 1],
              IF m = k THEN d ELSE region[way[m + 1].node].depth)
    BY DEF Zipper
  <2> QED BY <2>2, <2>3, HoldsParts
<1>4. f \in [1 .. k -> DOMAIN region]
  <2>1. ASSUME NEW m \in 1 .. k PROVE way[m].node \in DOMAIN region
    <3>1. m \in 1 .. k + 1
      BY <1>1
    <3> QED BY <1>2, <1>3, <3>1 DEF Solid
  <2> QED BY <2>1
<1>5. ASSUME NEW m \in 1 .. k, NEW n \in 1 .. k, m < n PROVE f[m] # f[n]
  <2>1. m + 1 \in 1 .. k + 1 /\ n \in 1 .. k + 1 /\ m + 1 <= n
    BY <1>1, <1>5
  <2>2. Z[n] \subseteq Z[m + 1]
    BY <2>1 DEF Zipper
  <2> QED BY <1>3, <2>2
<1>6. \A m, n \in 1 .. k : m # n => f[m] # f[n]
  <2>1. \A m, n \in 1 .. k : m # n => m < n \/ n < m
    BY <1>1
  <2> HIDE DEF f
  <2> QED BY <1>5, <2>1
<1>7. IsFiniteSet(1 .. k) /\ Cardinality(1 .. k) = k
  <2> HIDE DEF f, k
  <2>1. 1 \in Int /\ k \in Int
    BY <1>1
  <2>2. IsFiniteSet(1 .. k) /\ Cardinality(1 .. k) = IF 1 > k THEN 0 ELSE k - 1 + 1
    BY ONLY <2>1, FS_Interval
  <2> QED BY <1>1, <2>2
<1> HIDE DEF f, k
<1>8. ~(Cardinality(DOMAIN region) < Cardinality(1 .. k))
  BY <1>4, <1>6, <1>7, FS_PigeonHole DEF FiniteInv
<1>9. Cardinality(DOMAIN region) \in Nat
  BY FS_CardinalityType DEF FiniteInv
<1> QED BY <1>1, <1>7, <1>8, <1>9 DEF k

LEMMA NeverAstray ==
  ASSUME TypeInv, SetInv, FiniteInv, clean, pc # "idle"
  PROVE  ~Astray
<1>1. Live /\ utilized # Closed /\ Typed(region) /\ call.word \in Words
  BY CallWord DEF Live, TypeInv, TypeOK, Typed
<1>2. HasKind(region, state, "state")
  BY <1>1 DEF SetInv, HeapInv
<1>3. stack \in Seq(FrameSet) /\ Len(stack) \in Nat
  BY StackWay
<1>4. Cardinality(DOMAIN region) \in Nat
  BY FS_CardinalityType DEF FiniteInv
<1>5. Updates => \E Z : Opened(region, stack, call.word, cur, Z, delta(region, cur))
  BY <1>1 DEF SetInv, TreeInv, Walking
<1>6. pc = "walk" => Looks \/ Updates
  BY DEF Looks, Updates, TypeInv, TypeOK, SetInv, CallInv
<1>7. pc = "walk" => \E S : IsTree(region, cur, S)
  BY <1>1, <1>5, <1>6 DEF SetInv, TreeInv, Seeking, Opened
<1>8. ~(pc = "walk" /\ cur # NULL /\ ~Legible(region, cur))
  BY <1>7, NullTree DEF Solid
<1>9. AtWord => MayDeepen
  <2>1. ASSUME AtWord, NEW q \in Kids(region, cur) PROVE HasKind(region, q, "node")
    <3>1. PICK S : IsTree(region, cur, S)
      BY <1>7, <2>1 DEF AtWord
    <3>2. cur # NULL
      BY <1>1, <2>1 DEF AtWord, Legible, HasKind, Typed, NULL
    <3>3. cur \in S
      BY <3>1, <3>2, NullTree
    <3>4. q \in S
      BY <3>1, <3>3, TreeKids
    <3> QED BY <3>1, <3>4, NullTree DEF Solid, Legible
  <2> QED BY <2>1 DEF MayDeepen
<1>10. pc = "walk" => Len(stack) <= Cardinality(DOMAIN region)
  <2>1. CASE Looks
    <3>1. stack = <<>>
      BY <2>1 DEF Looks, SetInv, CallInv
    <3> QED BY <1>4, <3>1
  <2>2. CASE Updates
    BY <1>1, <1>3, <1>5, <2>2, WayShort DEF Opened
  <2> QED BY <1>6, <2>1, <2>2
<1>11. pc = "name" => HasKind(Allocated(Word(call.word)), ret, "node")
  <2>1. ASSUME pc = "name" PROVE HasKind(Allocated(Word(call.word)), ret, "node")
    <3>1. ret \in DOMAIN region /\ region[ret] = Node
      BY <2>1 DEF TypeInv, Inv, NameInv
    <3>2. Extends(region, Allocated(Word(call.word)), Pointer(utilized), Word(call.word))
      BY <1>1, NewTyped, AllocatedExtends DEF SetInv
    <3> QED BY <3>1, <3>2 DEF Extends, HasKind, Node
  <2> QED BY <2>1
<1>12. pc = "back" /\ stack # <<>> => MayRelink
  <2>1. ASSUME pc = "back", stack # <<>> PROVE MayRelink
    <3>1. Backing(region, stack, call.word, ret)
      BY <1>1, <2>1 DEF SetInv, TreeInv
    <3>2. PICK Z : \E d \in Int : d >= -1 /\ Opened(region, stack, call.word, ret, Z, d)
                                  /\ Growth(region, ret, d, call.word)
      BY <3>1 DEF Backing
    <3>3. PICK d \in Int : d >= -1 /\ Opened(region, stack, call.word, ret, Z, d)
                           /\ Growth(region, ret, d, call.word)
      BY <3>2
    <3>4. call.word \in Int /\ ret \in Int
      BY CallWord DEF TypeInv, TypeOK
    <3>5. Popped(region, stack, call.word, Z, ret)
      BY <1>1, <1>3, <2>1, <3>3, <3>4, ZipperPops DEF Opened
    <3>6. MayRebalance(Linked, Frame.node, Frame.side, call.word)
      BY <3>5 DEF Popped, FrameTurned, Linked, Frame
    <3>7. HasKind(region, Frame.node, "node")
      <4> DEFINE k == Len(stack)
      <4>1. k \in 1 .. k /\ 1 \in 1 .. k + 1 /\ k \in 1 .. k + 1 /\ 1 <= k
        BY <1>3, <2>1
      <4>2. Holds(region, call.word, stack[k], Z[k], Z[k + 1], d)
        BY <3>3, <4>1 DEF Opened, Zipper
      <4>3. \A u \in Z[k] : Solid(region, u)
        BY <3>3, <4>1 DEF Opened, Zipper
      <4>4. stack[k].node \in Z[k]
        BY <4>2, <4>3, HoldsParts
      <4> QED BY <4>3, <4>4 DEF Frame, Solid, Legible
    <3> QED BY <3>6, <3>7 DEF MayRelink
  <2> QED BY <2>1
<1>13. ~(pc = "walk" /\ Len(stack) > Cardinality(DOMAIN region))
  BY <1>3, <1>4, <1>10
<1> QED BY <1>2, <1>8, <1>9, <1>11, <1>12, <1>13 DEF Astray

\* In p3 scm_malloc finds room where all bytes are in the file.
LEMMA RoomInside ==
  ASSUME TypeInv, utilized # Closed, NEW n \in Nat, Room(n), ~Inside(n)
  PROVE  layout.stride > 1
<1>1. layout \in Layouts /\ utilized \in Nat
  BY DEF TypeInv, TypeOK
<1>2. ASSUME NEW m \in Sizes23, layout = P23(m) PROVE layout.stride > 1
  <2>1. layout.stride = 8
    BY <1>2 DEF P23
  <2> QED BY <2>1
<1>3. ASSUME NEW m \in Sizes3, layout = P3(m) PROVE FALSE
  <2>1. layout.base = 0 /\ layout.stride = 1
    BY <1>3 DEF P3
  <2>2. Pointer(utilized) = utilized
    BY <1>1, <2>1 DEF Pointer
  <2> QED BY <2>2 DEF Room, Inside
<1> QED BY <1>1, <1>2, <1>3 DEF Layouts

LEMMA SurviveStep ==
  ASSUME TypeInv, SetInv, FiniteInv, [Next]_vars,
         pc # "idle", clean, utilized' = Closed, crashes' = crashes
  PROVE  layout.stride > 1 /\ Overruns
<1>1. utilized # Closed /\ call.word \in Words
  BY CallWord
<1>2. ~Astray
  BY NeverAstray
<1>3. CASE Fault
  <2>1. NodeBytes \in Nat /\ Letters[call.word] \in Nat
    BY <1>1, AvlAssumption DEF NodeBytes
  <2> QED BY <1>1, <1>3, <2>1, RoomInside DEF Fault, Overruns
<1>4. ~Crash
  BY DEF Crash, TypeInv, TypeOK
<1>5. ~(\E truncate \in BOOLEAN : avl_open(truncate)) /\ ~avl_close
  BY <1>1 DEF avl_open, MayOpen, avl_close
<1>6. ASSUME NEW n \in Nat, scm_malloc(n) PROVE FALSE
  <2>1. utilized' \in Nat
    BY <1>1, <1>6 DEF scm_malloc, TypeInv, TypeOK
  <2> QED BY <2>1 DEF Closed
<1>7. ~NewNode /\ ~NewName
  <2>1. NodeBytes \in Nat /\ Letters[call.word] \in Nat
    BY <1>1, AvlAssumption DEF NodeBytes
  <2> QED BY <1>6, <2>1 DEF NewNode, NewName
<1>8. ~(UNCHANGED vars)
  BY <1>1 DEF vars, scmVars
<1> QED BY <1>1, <1>2, <1>3, <1>4, <1>5, <1>7, <1>8
        DEF Next, scmVars, Call, Descend, Found, Missed, CountAgain, NoRoom, Relink, Inserted

LEMMA FiniteInvariance == Spec => [](TypeInv /\ SetInv /\ FiniteInv)
<1>1. Init => FiniteInv
  <2> SUFFICES ASSUME Init PROVE FiniteInv
    OBVIOUS
  <2>1. region = <<>> /\ DOMAIN region = {}
    BY DEF Init, ScmInit
  <2> QED BY <2>1, FS_EmptySet DEF FiniteInv
<1>2. TypeInv /\ FiniteInv /\ [Next]_vars => FiniteInv'
  BY FiniteStep
<1> QED BY <1>1, <1>2, SetInvariance, PTL DEF Spec

\* In a file whose tree is whole no call kills the process in p3, however full
\* the file is, and in p23 only a store behind the end of the file does: no call
\* follows a pointer to what is no node, and no walk is longer than the tree.
THEOREM CallsSurviveAlways == Spec => CallsSurvive
<1>1. TypeInv /\ SetInv /\ FiniteInv /\ [Next]_vars =>
        [(pc # "idle" /\ clean /\ utilized' = Closed /\ crashes' = crashes)
           => layout.stride > 1 /\ Overruns]_vars
  BY SurviveStep
<1> QED BY <1>1, FiniteInvariance, PTL DEF Spec, CallsSurvive

-----------------------------------------------------------------------------
(* The word set is the bag of WordBag.                                      *)

HeldIn(r, w) ==
  LET nodes == {p \in CountedIn(r) : WordAt(r, p) = w}
  IN IF nodes = {} THEN 0 ELSE r[CHOOSE p \in nodes : TRUE].count

Bagged(r) == [w \in Words |-> HeldIn(r, w)]
Zero == [w \in Words |-> 0]
BagNow == IF ~clean THEN <<>>
          ELSE IF utilized = Closed /\ stored = 0 THEN Zero
          ELSE Bagged(region)
Needed == [w \in Words |-> NodeBytes + Letters[w]]
Full == layout.capacity - StateBytes

LEMMA HeldIs ==
  ASSUME NEW r, Distinct(r)
  PROVE  /\ \A p \in CountedIn(r) : HeldIn(r, WordAt(r, p)) = r[p].count
         /\ \A w : (\A p \in CountedIn(r) : WordAt(r, p) # w) => HeldIn(r, w) = 0
<1>1. ASSUME NEW p \in CountedIn(r) PROVE HeldIn(r, WordAt(r, p)) = r[p].count
  <2> DEFINE nodes == {q \in CountedIn(r) : WordAt(r, q) = WordAt(r, p)}
  <2>1. p \in nodes
    OBVIOUS
  <2>2. \A q \in nodes : q = p
    BY DEF Distinct
  <2>3. (CHOOSE q \in nodes : TRUE) \in nodes /\ nodes # {}
    BY <2>1
  <2> HIDE DEF nodes
  <2>4. (CHOOSE q \in nodes : TRUE) = p
    BY <2>2, <2>3
  <2> QED BY <2>3, <2>4 DEF HeldIn, nodes
<1>2. ASSUME NEW w, \A p \in CountedIn(r) : WordAt(r, p) # w PROVE HeldIn(r, w) = 0
  <2>1. {p \in CountedIn(r) : WordAt(r, p) = w} = {}
    BY <1>2
  <2> QED BY <2>1 DEF HeldIn
<1> QED BY <1>1, <1>2

\* The same nodes with the same words and counts are the same bag.
LEMMA BagStays ==
  ASSUME NEW r, NEW t, Distinct(r), Distinct(t), CountedIn(t) = CountedIn(r),
         \A u \in CountedIn(r) : WordAt(t, u) = WordAt(r, u) /\ t[u].count = r[u].count
  PROVE  Bagged(t) = Bagged(r)
<1>1. ASSUME NEW w \in Words PROVE HeldIn(t, w) = HeldIn(r, w)
  <2>1. CASE \E p \in CountedIn(r) : WordAt(r, p) = w
    <3>1. PICK p \in CountedIn(r) : WordAt(r, p) = w
      BY <2>1
    <3>2. HeldIn(r, WordAt(r, p)) = r[p].count
      BY HeldIs
    <3>3. HeldIn(t, WordAt(t, p)) = t[p].count
      BY HeldIs
    <3> QED BY <3>1, <3>2, <3>3
  <2>2. CASE \A p \in CountedIn(r) : WordAt(r, p) # w
    BY <2>2, HeldIs
  <2> QED BY <2>1, <2>2
<1> QED BY <1>1 DEF Bagged

\* One more of the word w.
LEMMA BagGrows ==
  ASSUME NEW r, NEW t, Distinct(r), Distinct(t), NEW n, NEW w \in Words,
         CountedIn(t) = CountedIn(r) \cup {n}, WordAt(t, n) = w,
         \A u \in CountedIn(r) : WordAt(t, u) = WordAt(r, u) /\ (u # n => t[u].count = r[u].count),
         t[n].count = HeldIn(r, w) + 1
  PROVE  Bagged(t) = [Bagged(r) EXCEPT ![w] = @ + 1]
<1>1. HeldIn(t, w) = HeldIn(r, w) + 1
  <2>1. HeldIn(t, WordAt(t, n)) = t[n].count
    BY HeldIs
  <2> QED BY <2>1
<1>2. ASSUME NEW v \in Words, v # w PROVE HeldIn(t, v) = HeldIn(r, v)
  <2>1. CASE \E p \in CountedIn(r) : WordAt(r, p) = v
    <3>1. PICK p \in CountedIn(r) : WordAt(r, p) = v
      BY <2>1
    <3>2. HeldIn(r, WordAt(r, p)) = r[p].count
      BY HeldIs
    <3>3. HeldIn(t, WordAt(t, p)) = t[p].count
      BY HeldIs
    <3> QED BY <1>2, <3>1, <3>2, <3>3
  <2>2. CASE \A p \in CountedIn(r) : WordAt(r, p) # v
    <3>1. \A p \in CountedIn(t) : WordAt(t, p) # v
      BY <1>2, <2>2
    <3> QED BY <2>2, <3>1, HeldIs
  <2> QED BY <2>1, <2>2
<1> QED BY <1>1, <1>2 DEF Bagged

\* The bag is empty when no node is counted, and only then.
LEMMA BagEmpty ==
  ASSUME NEW r, Typed(r), Distinct(r)
  PROVE  Bagged(r) = Zero <=> CountedIn(r) = {}
<1>1. ASSUME CountedIn(r) = {} PROVE Bagged(r) = Zero
  <2>1. \A w \in Words : HeldIn(r, w) = 0
    BY <1>1, HeldIs
  <2> QED BY <2>1 DEF Bagged, Zero
<1>2. ASSUME NEW p \in CountedIn(r) PROVE Bagged(r) # Zero
  <2>1. HeldIn(r, WordAt(r, p)) = r[p].count /\ WordAt(r, p) \in Words
    BY HeldIs, CountedSolid
  <2>2. r[p].count # 0
    BY DEF CountedIn, Legible, HasKind, Typed, Blocks
  <2> QED BY <2>1, <2>2 DEF Bagged, Zero
<1> QED BY <1>1, <1>2

LEMMA Capacity == ASSUME TypeInv PROVE layout.capacity \in Nat
<1>1. layout \in Layouts
  BY DEF TypeInv, TypeOK
<1> QED BY <1>1, ScmAssumption DEF Layouts, P23, P3

LEMMA LeftTyped == ASSUME TypeInv PROVE BytesLeft \in Int
<1>1. layout.capacity \in Nat
  BY Capacity
<1>2. utilized \in Nat \cup {Closed} /\ stored \in Nat \cup {Junk}
  BY DEF TypeInv, TypeOK
<1> QED BY <1>1, <1>2 DEF BytesLeft, NodeBytes, StateBytes, Closed, Junk

LEMMA LeftNext == ASSUME TypeInv' PROVE BytesLeft' \in Int
<1>1. layout' \in Layouts
  BY DEF TypeInv, TypeOK
<1>2. layout.capacity' \in Nat
  BY <1>1, ScmAssumption DEF Layouts, P23, P3
<1>3. utilized' \in Nat \cup {Closed} /\ stored' \in Nat \cup {Junk}
  BY DEF TypeInv, TypeOK
<1> QED BY <1>2, <1>3 DEF BytesLeft, NodeBytes, StateBytes, Closed, Junk

LEMMA OpenBag ==
  ASSUME TypeInv, TypeInv', SetInv, NEW truncate \in BOOLEAN, avl_open(truncate)
  PROVE  /\ utilized = Closed /\ utilized' # Closed
         /\ \/ truncate /\ BagNow' = Zero /\ BytesLeft' = Full
            \/ ~truncate /\ BagNow' = BagNow /\ BytesLeft' = BytesLeft
            \/ /\ ~truncate /\ BagNow = <<>> /\ BagNow' \in {<<>>, Zero}
               /\ BytesLeft' \in Int
<1>1. /\ utilized = Closed /\ UNCHANGED <<layout, pc>>
  BY DEF avl_open, MayOpen
<1>2. PICK u \in Counters(truncate) :
        IF u = 0 THEN /\ utilized' = StateBytes
                      /\ region' = [p \in {state} |-> State]
                      /\ clean' = TRUE
                 ELSE utilized' = u /\ UNCHANGED <<region, clean>>
  BY DEF avl_open
<1>3. u \in Nat
  BY ScmAssumption DEF Counters, TypeInv, TypeOK
<1>4. utilized' # Closed
  BY <1>2, <1>3 DEF StateBytes, Closed
<1>5. clean => stored # Junk
  BY <1>1 DEF SetInv, HeapInv
<1>8. pc # "name" /\ pc' # "name"
  BY <1>1, CallWord
<1>9. BytesLeft' \in Int
  BY LeftNext
<1>6. CASE u = 0
  <2>1. region' = [p \in {state} |-> State] /\ clean'
    BY <1>2, <1>6
  <2>2. CountedIn(region') = {}
    BY <2>1 DEF CountedIn, Legible, HasKind, State
  <2>3. Bagged(region') = Zero
    <3>1. \A w \in Words : HeldIn(region', w) = 0
      BY <2>2, HeldIs DEF Distinct
    <3> QED BY <3>1 DEF Bagged, Zero
  <2>4. BagNow' = Zero
    BY <1>4, <2>1, <2>3 DEF BagNow
  <2>5. ~truncate /\ clean => stored = 0
    BY <1>5, <1>6 DEF Counters
  <2>6. ~truncate /\ clean => BagNow = Zero
    BY <1>1, <2>5 DEF BagNow
  <2>7. BytesLeft' = Full
    <3>1. utilized' = StateBytes /\ layout' = layout
      BY <1>1, <1>2, <1>6
    <3>2. BytesLeft' = layout.capacity - StateBytes + 0
      BY <1>4, <1>8, <3>1 DEF BytesLeft
    <3>3. layout.capacity \in Nat
      BY Capacity
    <3> QED BY <3>2, <3>3 DEF Full, StateBytes
  <2>8. ~truncate /\ clean => BytesLeft = Full
    BY <1>1, <2>5 DEF BytesLeft, Full
  <2>9. ~clean => BagNow = <<>>
    BY DEF BagNow
  <2> QED BY <1>1, <1>4, <1>9, <2>4, <2>6, <2>7, <2>8, <2>9
<1>7. CASE u # 0
  <2>1. region' = region /\ clean' = clean /\ ~truncate
    BY <1>2, <1>7 DEF Counters
  <2>2. clean => stored # 0
    BY <1>5, <1>7, <2>1 DEF Counters
  <2>3. BagNow' = BagNow
    BY <1>1, <1>4, <2>1, <2>2 DEF BagNow
  <2>4. clean => BytesLeft' = BytesLeft
    <3>1. SUFFICES ASSUME clean PROVE BytesLeft' = BytesLeft
      OBVIOUS
    <3>2. u = stored
      BY <1>5, <2>1, <3>1 DEF Counters
    <3>3. utilized' = stored /\ stored # 0 /\ layout' = layout
      BY <1>1, <1>2, <1>7, <2>2, <3>1, <3>2
    <3>4. BytesLeft' = layout.capacity - stored + 0
      BY <1>4, <1>8, <3>3 DEF BytesLeft
    <3>5. BytesLeft = layout.capacity - stored
      BY <1>1, <3>3 DEF BytesLeft
    <3>6. layout.capacity \in Nat /\ stored \in Nat
      BY <1>3, <3>2, Capacity
    <3> QED BY <3>4, <3>5, <3>6
  <2>5. ~clean => BagNow = <<>>
    BY DEF BagNow
  <2> QED BY <1>1, <1>4, <1>9, <2>1, <2>3, <2>4, <2>5
<1> QED BY <1>6, <1>7

LEMMA CloseBag ==
  ASSUME TypeInv, TypeInv', SetInv, avl_close
  PROVE  /\ utilized # Closed /\ utilized' = Closed /\ call = NoCall
         /\ pc = "idle" /\ pc' = "idle"
         /\ \/ BagNow' = BagNow /\ BytesLeft' = BytesLeft
            \/ BagNow' = <<>> /\ BytesLeft' \in Int
<1>1. /\ pc = "idle" /\ utilized # Closed /\ utilized' = Closed /\ stored' = utilized
      /\ clean' => clean /\ region' = region
      /\ UNCHANGED <<layout, pc, call>>
  BY DEF avl_close, scm_close
<1>2. call = NoCall
  BY <1>1 DEF SetInv, CallInv
<1>3. ASSUME clean' PROVE BagNow' = BagNow /\ BytesLeft' = BytesLeft
  <2>1. Live /\ region' = region
    BY <1>1, <1>3 DEF Live
  <2>2. utilized # 0
    <3>1. HasKind(region, state, "state") /\ Beneath(region, Pointer(utilized))
      BY <1>1, <2>1 DEF SetInv, HeapInv, Top
    <3>2. state \in Nat /\ region[state].bytes \in Nat \ {0}
      BY <3>1 DEF TypeInv, TypeOK, Inv, FileInv, Blocked, Shaped, HasKind
    <3>3. Pointer(utilized) # state
      <4>1. Pointer(utilized) \in Nat
        BY <1>1, PointerGrows, utilized + 0 <= utilized DEF TypeInv, TypeOK
      <4> QED BY <3>1, <3>2, <4>1 DEF Beneath, HasKind
    <3> QED BY <3>3 DEF state
  <2>3. BytesLeft' = BytesLeft
    <3>1. BytesLeft' = layout.capacity - utilized
      BY <1>1, <2>2 DEF BytesLeft
    <3>2. BytesLeft = layout.capacity - utilized + 0
      BY <1>1 DEF BytesLeft
    <3>3. layout.capacity \in Nat /\ utilized \in Nat
      BY <1>1, Capacity DEF TypeInv, TypeOK
    <3> QED BY <3>1, <3>2, <3>3
  <2> QED BY <1>1, <1>3, <2>1, <2>2, <2>3 DEF BagNow
<1>4. ~clean' => BagNow' = <<>>
  BY DEF BagNow
<1>5. BytesLeft' \in Int
  BY LeftNext
<1> QED BY <1>1, <1>2, <1>3, <1>4, <1>5

LEMMA EndBag ==
  ASSUME TypeInv, SetInv, Ends, utilized # Closed
  PROVE  /\ utilized' = Closed /\ pc' = "idle" /\ call' = NoCall /\ UNCHANGED answer
         /\ BagNow' \in {BagNow, Zero, <<>>}
<1>1. /\ pc' = "idle" /\ utilized' = Closed /\ call' = NoCall
      /\ UNCHANGED <<stored, region, answer>> /\ (clean' => clean)
  BY DEF Ends, Killed
<1>2. CASE ~clean'
  BY <1>1, <1>2 DEF BagNow
<1>3. CASE clean' /\ stored = 0
  BY <1>1, <1>3 DEF BagNow
<1>4. CASE clean' /\ stored # 0
  BY <1>1, <1>4 DEF BagNow
<1> QED BY <1>1, <1>2, <1>3, <1>4

\* Between two stores of a call nothing is handed out.
LEMMA SameLeft ==
  ASSUME utilized # Closed, UNCHANGED <<layout, utilized>>, pc = "name" <=> pc' = "name"
  PROVE  BytesLeft' = BytesLeft
BY DEF BytesLeft

\* The bytes of a new node count as left until its word has come.
LEMMA NodeLeft ==
  ASSUME TypeInv, NewNode, utilized # Closed, utilized' # Closed
  PROVE  BytesLeft' = BytesLeft
<1>1. pc = "walk" /\ pc' = "name" /\ layout' = layout /\ utilized' = utilized + NodeBytes
  BY DEF NewNode, scm_malloc
<1>2. /\ BytesLeft = layout.capacity - utilized + 0
      /\ BytesLeft' = layout.capacity - (utilized + NodeBytes) + NodeBytes
  BY <1>1 DEF BytesLeft
<1>3. layout.capacity \in Nat /\ utilized \in Nat /\ NodeBytes \in Nat
  BY Capacity DEF TypeInv, TypeOK, NodeBytes
<1> QED BY <1>2, <1>3

\* A new word takes what it needs, and that was left.
LEMMA NameLeft ==
  ASSUME TypeInv, NewName, utilized # Closed, utilized' # Closed, call.word \in Words
  PROVE  Needed[call.word] <= BytesLeft /\ BytesLeft' = BytesLeft - Needed[call.word]
<1> DEFINE n == Letters[call.word]
           c == layout.capacity
<1>1. /\ pc = "name" /\ pc' = "back" /\ layout' = layout
      /\ utilized' = utilized + n /\ utilized + n <= c
  BY DEF NewName, scm_malloc, Room, BackWith
<1>2. /\ BytesLeft = c - utilized + NodeBytes
      /\ BytesLeft' = c - (utilized + n) + 0
      /\ Needed[call.word] = NodeBytes + n
  BY <1>1 DEF BytesLeft, Needed
<1>3. c \in Nat /\ utilized \in Nat /\ NodeBytes \in Nat /\ n \in Nat
  BY Capacity, AvlAssumption DEF TypeInv, TypeOK, NodeBytes
<1> HIDE DEF n, c
<1> QED BY <1>1, <1>2, <1>3

\* scm_malloc fails when what is left is too little for the node and the word.
LEMMA NoRoomLeft ==
  ASSUME TypeInv, NoRoom, utilized # Closed, call.word \in Words
  PROVE  /\ ~(Needed[call.word] <= BytesLeft) /\ BytesLeft' <= BytesLeft
<1> DEFINE n == Letters[call.word]
           c == layout.capacity
<1>1. /\ pc' = "back" /\ layout' = layout /\ utilized' = utilized
      /\ \/ pc = "walk" /\ ~(utilized + NodeBytes <= c)
         \/ pc = "name" /\ ~(utilized + n <= c)
  BY DEF NoRoom, Room, BackWith
<1>2. /\ BytesLeft = c - utilized + IF pc = "name" THEN NodeBytes ELSE 0
      /\ BytesLeft' = c - utilized + 0
      /\ Needed[call.word] = NodeBytes + n
  BY <1>1 DEF BytesLeft, Needed
<1>3. c \in Nat /\ utilized \in Nat /\ NodeBytes \in Nat /\ n \in Nat
  BY Capacity, AvlAssumption DEF TypeInv, TypeOK, NodeBytes
<1> HIDE DEF n, c
<1>4. CASE pc = "walk"
  <2>1. BytesLeft = c - utilized + 0
    BY <1>2, <1>4
  <2>2. ~(utilized + NodeBytes <= c)
    BY <1>1, <1>4
  <2> QED BY <1>2, <1>3, <2>1, <2>2
<1>5. CASE pc = "name"
  <2>1. BytesLeft = c - utilized + NodeBytes
    BY <1>2, <1>5
  <2>2. ~(utilized + n <= c)
    BY <1>1, <1>5
  <2> QED BY <1>2, <1>3, <2>1, <2>2
<1> QED BY <1>1, <1>4, <1>5

\* A step in a call that changes no counts.
LEMMA SameBag ==
  ASSUME TypeInv, SetInv, SetInv', utilized # Closed, utilized' # Closed, UNCHANGED clean,
         clean => /\ CountedIn(region') = CountedIn(region)
                  /\ \A u \in CountedIn(region) : /\ WordAt(region', u) = WordAt(region, u)
                                                  /\ region'[u].count = region[u].count
  PROVE  BagNow' = BagNow
<1>1. clean => Distinct(region) /\ Distinct(region')
  BY DEF SetInv, HeapInv, Live
<1>2. clean => Bagged(region') = Bagged(region)
  BY <1>1, BagStays
<1> QED BY <1>2 DEF BagNow

LEMMA CountAgainBag ==
  ASSUME TypeInv, SetInv, SetInv', CountAgain, clean
  PROVE  /\ BagNow[call.word] > 0
         /\ BagNow' = [BagNow EXCEPT ![call.word] = @ + 1]
<1>1. /\ pc = "walk" /\ call.op = "insert" /\ call.word = WordAt(region, cur)
      /\ UNCHANGED <<clean, utilized>>
  BY DEF CountAgain, AtWord, BackWith
<1>2. utilized # Closed /\ call.word \in Words
  BY <1>1, CallWord
<1>3. Live
  BY <1>2 DEF Live
<1>4. Distinct(region) /\ Distinct(region')
  BY <1>1, <1>2 DEF SetInv, HeapInv, Live
<1>5. /\ CountedIn(region') = CountedIn(region)
      /\ Kept(region, region', CountedIn(region), {})
      /\ cur \in CountedIn(region) /\ region'[cur].count = region[cur].count + 1
      /\ \A u \in CountedIn(region) : u # cur => region'[u].count = region[u].count
  BY <1>3, CountStep
<1>6. CountedIn(region') = CountedIn(region) \cup {cur}
  BY <1>5
<1>7. HeldIn(region, call.word) = region[cur].count
  BY <1>1, <1>4, <1>5, HeldIs
<1>8. Bagged(region') = [Bagged(region) EXCEPT ![call.word] = @ + 1]
  <2>1. \A u \in CountedIn(region) : WordAt(region', u) = WordAt(region, u)
    BY <1>5 DEF Kept
  <2> QED BY <1>1, <1>2, <1>4, <1>5, <1>6, <1>7, <2>1, BagGrows
<1>9. region[cur].count > 0
  BY <1>5 DEF CountedIn
<1> QED BY <1>1, <1>2, <1>7, <1>8, <1>9 DEF BagNow, Bagged

LEMMA NewNameBag ==
  ASSUME TypeInv, SetInv, SetInv', NewName, clean
  PROVE  /\ BagNow[call.word] = 0
         /\ BagNow' = [BagNow EXCEPT ![call.word] = 1]
<1>1. /\ pc = "name" /\ UNCHANGED clean /\ utilized' = utilized + Letters[call.word]
  BY DEF NewName, BackWith, scm_malloc
<1>2. utilized # Closed /\ call.word \in Words
  BY <1>1, CallWord
<1>3. Live /\ utilized' # Closed
  <2>1. Letters[call.word] \in Nat
    BY <1>2, AvlAssumption
  <2>2. utilized \in Nat
    BY <1>2 DEF TypeInv, TypeOK
  <2> QED BY <1>1, <1>2, <2>1, <2>2 DEF Live, Closed
<1>4. Distinct(region) /\ Distinct(region') /\ \A u \in CountedIn(region) : WordAt(region, u) # call.word
  BY <1>1, <1>3 DEF SetInv, HeapInv, TreeInv, Naming, Live
<1>5. /\ CountedIn(region') = CountedIn(region) \cup {ret} /\ ret \notin CountedIn(region)
      /\ Kept(region, region', CountedIn(region), {}) /\ WordAt(region', ret) = call.word
      /\ region'[ret].count = 1
      /\ \A u \in CountedIn(region) : region'[u].count = region[u].count
  BY <1>3, NamedStep
<1>6. HeldIn(region, call.word) = 0
  BY <1>4, HeldIs
<1>7. Bagged(region') = [Bagged(region) EXCEPT ![call.word] = @ + 1]
  <2>1. \A u \in CountedIn(region) : WordAt(region', u) = WordAt(region, u)
    BY <1>5 DEF Kept
  <2> QED BY <1>2, <1>4, <1>5, <1>6, <2>1, BagGrows
<1>8. Bagged(region)[call.word] = 0
  BY <1>2, <1>6 DEF Bagged
<1>9. BagNow = Bagged(region) /\ BagNow' = Bagged(region')
  BY <1>1, <1>2, <1>3 DEF BagNow
<1>10. BagNow[call.word] = 0
  BY <1>8, <1>9
<1>11. [Bagged(region) EXCEPT ![call.word] = @ + 1] = [Bagged(region) EXCEPT ![call.word] = 1]
  <2>1. Bagged(region)[call.word] + 1 = 1
    BY <1>8
  <2> QED BY <2>1, Zenon
<1> QED BY <1>7, <1>9, <1>10, <1>11

\* Steps within a call that change no count.
QuietStep == Descend \/ NewNode \/ Relink

LEMMA QuietBag ==
  ASSUME TypeInv, SetInv, SetInv', QuietStep
  PROVE  /\ BagNow' = BagNow /\ UNCHANGED <<call, answer>>
         /\ utilized # Closed /\ utilized' # Closed /\ ((pc' = "back") <=> (pc = "back"))
         /\ BytesLeft' = BytesLeft
<1>1. utilized # Closed /\ pc # "idle"
  BY CallWord DEF QuietStep, Descend, NewNode, Relink
<1>2. utilized' # Closed
  <2>1. CASE Descend \/ Relink
    BY <1>1, <2>1 DEF Descend, Relink, scmVars
  <2>2. CASE NewNode
    BY <1>1, <2>2 DEF NewNode, scm_malloc, NodeBytes, TypeInv, TypeOK, Closed
  <2> QED BY <2>1, <2>2 DEF QuietStep
<1>3. UNCHANGED <<clean, call, answer>> /\ ((pc' = "back") <=> (pc = "back"))
  BY DEF QuietStep, Descend, NewNode, Relink
<1>4. clean => Live /\ Live'
  BY <1>1, <1>2, <1>3 DEF Live
<1>5. clean => /\ CountedIn(region') = CountedIn(region)
               /\ \A u \in CountedIn(region) : /\ WordAt(region', u) = WordAt(region, u)
                                               /\ region'[u].count = region[u].count
  <2> SUFFICES ASSUME clean
               PROVE  /\ CountedIn(region') = CountedIn(region)
                      /\ \A u \in CountedIn(region) : /\ WordAt(region', u) = WordAt(region, u)
                                                      /\ region'[u].count = region[u].count
    OBVIOUS
  <2>1. CASE Descend
    BY <2>1 DEF Descend, scmVars
  <2>2. CASE NewNode
    <3>1. /\ region' = Allocated(Node) /\ Node \in Blocks /\ (Node.kind = "node" => Node.count = 0)
      BY <2>2, NewTyped DEF NewNode, Node
    <3>2. /\ Extends(region, region', Pointer(utilized), Node) /\ Typed(region) /\ Typed(region')
      BY <1>1, <3>1, AllocatedExtends DEF SetInv
    <3>3. Named(region)
      BY <1>4 DEF SetInv, HeapInv
    <3>4. CountedIn(region') = CountedIn(region) /\ Kept(region, region', CountedIn(region), {})
      BY <3>1, <3>2, <3>3, ExtendsSame
    <3>5. \A u \in CountedIn(region) : region'[u] = region[u]
      BY <3>2 DEF Extends, CountedIn
    <3> QED BY <3>4, <3>5 DEF Kept
  <2>3. CASE Relink
    <3>1. Typed(region) /\ Relinked(region, region')
      BY <2>3, RelinkStores DEF TypeInv, TypeOK, Typed, Inv
    <3>2. Restored(region, region', DOMAIN region)
      BY <2>3, <3>1, StepTyped DEF Restored, Next
    <3>3. CountedIn(region') = CountedIn(region) /\ \A u \in CountedIn(region) : region'[u].count = region[u].count
      BY <3>1, <3>2, RestoredCounted
    <3>4. \A u \in CountedIn(region) : WordAt(region', u) = WordAt(region, u)
      BY <3>1, <3>2, CountedSolid, RestoredNodes
    <3> QED BY <3>3, <3>4
  <2> QED BY <2>1, <2>2, <2>3 DEF QuietStep
<1>6. BagNow' = BagNow
  BY <1>1, <1>2, <1>3, <1>5, SameBag
<1>7. BytesLeft' = BytesLeft
  <2>1. CASE Descend \/ Relink
    <3>1. UNCHANGED <<layout, utilized, pc>>
      BY <2>1 DEF Descend, Relink, scmVars
    <3> QED BY <1>1, <3>1, SameLeft
  <2>2. CASE NewNode
    BY <1>1, <1>2, <2>2, NodeLeft
  <2> QED BY <2>1, <2>2 DEF QuietStep
<1> QED BY <1>1, <1>2, <1>3, <1>6, <1>7

LEMMA AnswerBag ==
  ASSUME TypeInv, SetInv, Found \/ Missed
  PROVE  /\ BagNow' = BagNow /\ call' = NoCall /\ pc = "walk" /\ pc' = "idle"
         /\ utilized # Closed /\ utilized' = utilized /\ call.op = "exists" /\ call # NoCall
         /\ clean => BagNow[call.word] = answer'
         /\ ~clean => BagNow = <<>> /\ answer' \in Nat
         /\ BytesLeft' = BytesLeft
<1>1. /\ pc = "walk" /\ pc' = "idle" /\ call.op = "exists" /\ call' = NoCall
      /\ UNCHANGED <<layout, clean, utilized, stored, region>>
  BY DEF Found, Missed, Returns, scmVars
<1>2. utilized # Closed /\ call.word \in Words
  BY <1>1, CallWord
<1>3. BagNow' = BagNow
  BY <1>1 DEF BagNow
<1>4. call # NoCall
  BY <1>1 DEF SetInv, CallInv
<1>5. answer' \in Nat
  <2>1. CASE Found
    <3>1. HasKind(region, cur, "node") /\ answer' = region[cur].count
      BY <2>1 DEF Found, Returns, Legible
    <3> QED BY <3>1 DEF HasKind, TypeInv, TypeOK, Blocks
  <2>2. CASE Missed
    BY <2>2 DEF Missed, Returns
  <2> QED BY <2>1, <2>2
<1>6. ASSUME clean PROVE HeldIn(region, call.word) = answer'
  <2>1. Live
    BY <1>2, <1>6 DEF Live
  <2>2. Distinct(region) /\ Seeking(region, call.word, cur)
    BY <1>1, <2>1 DEF SetInv, HeapInv, TreeInv, Looks
  <2>3. PICK S : /\ IsTree(region, cur, S) /\ S \subseteq CountedIn(region)
                 /\ \A u \in CountedIn(region) : WordAt(region, u) = call.word => u \in S
    BY <2>2 DEF Seeking
  <2>4. CASE Found
    <3>1. Legible(region, cur) /\ call.word = WordAt(region, cur) /\ answer' = region[cur].count
      BY <2>4 DEF Found, Returns
    <3>2. cur # NULL
      BY <3>1 DEF Legible, HasKind, TypeInv, TypeOK, NULL
    <3>3. cur \in CountedIn(region)
      BY <2>3, <3>2, NullTree
    <3> QED BY <2>2, <3>1, <3>3, HeldIs
  <2>5. CASE Missed
    <3>1. cur = NULL /\ answer' = 0
      BY <2>5 DEF Missed, Returns
    <3>2. S = {}
      BY <2>3, <3>1, NullTree
    <3>3. \A u \in CountedIn(region) : WordAt(region, u) # call.word
      BY <2>3, <3>2
    <3> QED BY <2>2, <3>1, <3>3, HeldIs
  <2> QED BY <2>4, <2>5
<1>7. clean => BagNow[call.word] = answer'
  BY <1>2, <1>6 DEF BagNow, Bagged
<1>8. ~clean => BagNow = <<>>
  BY DEF BagNow
<1>9. BytesLeft' = BytesLeft
  BY <1>1, <1>2, SameLeft
<1> QED BY <1>1, <1>2, <1>3, <1>4, <1>5, <1>7, <1>8, <1>9

LEMMA InsertedBag ==
  ASSUME TypeInv, SetInv, SetInv', Inserted
  PROVE  /\ BagNow' = BagNow /\ call' = NoCall /\ pc = "back" /\ pc' = "idle"
         /\ utilized # Closed /\ utilized' = utilized
         /\ answer' \in {0, -1}
         /\ clean => answer' = IF BagNow = Zero THEN -1 ELSE 0
         /\ ~clean => BagNow = <<>>
         /\ BytesLeft' = BytesLeft
<1>1. /\ pc = "back" /\ stack = <<>> /\ pc' = "idle" /\ call' = NoCall
      /\ UNCHANGED <<layout, clean, utilized, stored>>
      /\ answer' = IF ret = NULL THEN -1 ELSE 0
      /\ ret = NULL => region' = region
      /\ ret # NULL => region' = [region EXCEPT ![state].root = ret]
  BY DEF Inserted, Returns
<1>2. utilized # Closed
  BY <1>1, CallWord
<1>3. Typed(region) /\ Relinked(region, region')
  BY RelinkStores DEF TypeInv, TypeOK, Typed, Inv
<1>4. Restored(region, region', DOMAIN region)
  BY <1>3, StepTyped DEF Restored, Next
<1>5. CountedIn(region') = CountedIn(region) /\ \A u \in CountedIn(region) : region'[u].count = region[u].count
  BY <1>3, <1>4, RestoredCounted
<1>6. \A u \in CountedIn(region) : WordAt(region', u) = WordAt(region, u)
  BY <1>3, <1>4, CountedSolid, RestoredNodes
<1>7. BagNow' = BagNow
  BY <1>1, <1>2, <1>5, <1>6, SameBag
<1>8. ASSUME clean PROVE answer' = IF BagNow = Zero THEN -1 ELSE 0
  <2>1. Live /\ BagNow = Bagged(region)
    BY <1>2, <1>8 DEF Live, BagNow
  <2>2. Distinct(region) /\ Backing(region, stack, call.word, ret)
    BY <1>1, <2>1 DEF SetInv, HeapInv, TreeInv
  <2>3. Len(<<>>) + 1 = 1
    OBVIOUS
  <2>4. IsTree(region, ret, CountedIn(region))
    BY <1>1, <2>2, <2>3 DEF Backing, Opened
  <2>5. ret = NULL <=> CountedIn(region) = {}
    BY <2>4, NullTree
  <2>6. Bagged(region) = Zero <=> CountedIn(region) = {}
    BY <1>3, <2>2, BagEmpty
  <2> QED BY <1>1, <2>1, <2>5, <2>6
<1>9. ~clean => BagNow = <<>>
  BY DEF BagNow
<1>10. BytesLeft' = BytesLeft
  BY <1>1, <1>2, SameLeft
<1> QED BY <1>1, <1>2, <1>7, <1>8, <1>9, <1>10

\* The word for which there is no room is not in the tree.
LEMMA NoRoomBag ==
  ASSUME TypeInv, SetInv, NoRoom
  PROVE  /\ BagNow' = BagNow /\ UNCHANGED <<call, answer>> /\ pc # "back" /\ pc' = "back"
         /\ call # NoCall /\ call.op = "insert" /\ utilized # Closed /\ utilized' = utilized
         /\ call.word \in Words
         /\ clean => BagNow[call.word] = 0
         /\ ~clean => BagNow = <<>>
         /\ ~(Needed[call.word] <= BytesLeft) /\ BytesLeft' <= BytesLeft
<1>1. /\ pc \in {"walk", "name"} /\ pc' = "back" /\ (pc = "walk" => call.op = "insert")
      /\ UNCHANGED <<clean, utilized, stored, region, call, answer>>
  BY DEF NoRoom, BackWith
<1>2. call.op = "insert" /\ call # NoCall
  BY <1>1 DEF SetInv, CallInv
<1>3. BagNow' = BagNow
  BY <1>1 DEF BagNow
<1>4. utilized # Closed /\ call.word \in Words
  BY <1>1, CallWord
<1>5. ASSUME clean PROVE BagNow[call.word] = 0
  <2>1. Live
    BY <1>4, <1>5 DEF Live
  <2>2. Distinct(region) /\ \A u \in CountedIn(region) : WordAt(region, u) # call.word
    <3>1. CASE pc = "name"
      BY <2>1, <3>1 DEF SetInv, HeapInv, TreeInv, Naming
    <3>2. CASE pc = "walk"
      <4>1. cur = NULL
        BY <3>2 DEF NoRoom
      <4>2. Distinct(region) /\ Walking(region, stack, call.word, cur)
        BY <1>2, <2>1, <3>2 DEF SetInv, HeapInv, TreeInv, Updates
      <4>3. PICK Z : /\ Opened(region, stack, call.word, cur, Z, delta(region, cur))
                     /\ \A u \in CountedIn(region) :
                          WordAt(region, u) = call.word => u \in Z[Len(stack) + 1]
        BY <4>2 DEF Walking
      <4>4. Z[Len(stack) + 1] = {}
        BY <4>1, <4>3, NullTree DEF Opened
      <4> QED BY <4>2, <4>3, <4>4
    <3> QED BY <1>1, <3>1, <3>2
  <2>3. HeldIn(region, call.word) = 0
    BY <2>2, HeldIs
  <2> QED BY <1>4, <1>5, <2>3 DEF BagNow, Bagged
<1>6. ~clean => BagNow = <<>>
  BY DEF BagNow
<1>7. ~(Needed[call.word] <= BytesLeft) /\ BytesLeft' <= BytesLeft
  BY <1>4, NoRoomLeft
<1> QED BY <1>1, <1>2, <1>3, <1>4, <1>5, <1>6, <1>7

LEMMA AgainBag ==
  ASSUME TypeInv, SetInv, SetInv', CountAgain
  PROVE  /\ call # NoCall /\ call.op = "insert" /\ pc # "back" /\ pc' = "back"
         /\ utilized # Closed /\ utilized' # Closed /\ UNCHANGED <<call, answer>>
         /\ call.word \in Words
         /\ clean => BagNow[call.word] > 0 /\ BagNow' = [BagNow EXCEPT ![call.word] = @ + 1]
         /\ ~clean => BagNow = <<>> /\ BagNow' = <<>>
         /\ BytesLeft' = BytesLeft
<1>1. /\ pc = "walk" /\ pc' = "back" /\ call.op = "insert"
      /\ UNCHANGED <<layout, clean, call, answer, utilized>>
  BY DEF CountAgain, AtWord, BackWith
<1>2. call # NoCall
  BY <1>1 DEF SetInv, CallInv
<1>3. utilized # Closed /\ call.word \in Words
  BY <1>1, CallWord
<1>4. clean => BagNow[call.word] > 0 /\ BagNow' = [BagNow EXCEPT ![call.word] = @ + 1]
  BY CountAgainBag
<1>5. ~clean => BagNow = <<>> /\ BagNow' = <<>>
  BY <1>1 DEF BagNow
<1>6. BytesLeft' = BytesLeft
  BY <1>1, <1>3, SameLeft
<1> QED BY <1>1, <1>2, <1>3, <1>4, <1>5, <1>6

LEMMA NamedBag ==
  ASSUME TypeInv, SetInv, SetInv', NewName
  PROVE  /\ call # NoCall /\ call.op = "insert" /\ pc # "back" /\ pc' = "back"
         /\ utilized # Closed /\ utilized' # Closed /\ UNCHANGED <<call, answer>>
         /\ call.word \in Words
         /\ clean => BagNow[call.word] = 0 /\ BagNow' = [BagNow EXCEPT ![call.word] = 1]
         /\ ~clean => BagNow = <<>> /\ BagNow' = <<>>
         /\ Needed[call.word] <= BytesLeft /\ BytesLeft' = BytesLeft - Needed[call.word]
<1>1. /\ pc = "name" /\ pc' = "back" /\ utilized' = utilized + Letters[call.word]
      /\ UNCHANGED <<clean, call, answer>>
  BY DEF NewName, BackWith, scm_malloc
<1>2. call.op = "insert" /\ call # NoCall
  BY <1>1 DEF SetInv, CallInv
<1>3. utilized # Closed /\ call.word \in Words
  BY <1>1, CallWord
<1>4. utilized' # Closed
  <2>1. Letters[call.word] \in Nat /\ utilized \in Nat
    BY <1>3, AvlAssumption DEF TypeInv, TypeOK
  <2> QED BY <1>1, <2>1 DEF Closed
<1>5. clean => BagNow[call.word] = 0 /\ BagNow' = [BagNow EXCEPT ![call.word] = 1]
  BY NewNameBag
<1>6. ~clean => BagNow = <<>> /\ BagNow' = <<>>
  BY <1>1 DEF BagNow
<1>7. Needed[call.word] <= BytesLeft /\ BytesLeft' = BytesLeft - Needed[call.word]
  BY <1>3, <1>4, NameLeft
<1> QED BY <1>1, <1>2, <1>3, <1>4, <1>5, <1>6, <1>7

LEMMA CallBag ==
  ASSUME TypeInv, SetInv, NEW op \in {"insert", "exists"}, NEW w \in Words, Call(op, w)
  PROVE  /\ BagNow' = BagNow /\ utilized # Closed /\ utilized' = utilized
         /\ call = NoCall /\ call' = [op |-> op, word |-> w] /\ answer' = 0
         /\ pc # "back" /\ pc' # "back" /\ BytesLeft' = BytesLeft
<1>1. /\ pc = "idle" /\ pc' = "walk" /\ call' = [op |-> op, word |-> w] /\ answer' = 0
      /\ utilized # Closed /\ UNCHANGED <<layout, clean, utilized, stored, region>>
  BY DEF Call, scmVars
<1>2. call = NoCall
  BY <1>1 DEF SetInv, CallInv
<1>3. BagNow' = BagNow
  BY <1>1 DEF BagNow
<1>4. BytesLeft' = BytesLeft
  BY <1>1, SameLeft
<1> QED BY <1>1, <1>2, <1>3, <1>4

\* What the refinement mapping gives to the variables of WordBag.
LEMMA Mapped ==
  /\ BagNow = IF ~clean THEN <<>>
              ELSE IF utilized = Closed /\ stored = 0 THEN [w \in Words |-> 0]
              ELSE [w \in Words |-> Held(w)]
  /\ BagNow' = (IF ~clean THEN <<>>
                ELSE IF utilized = Closed /\ stored = 0 THEN [w \in Words |-> 0]
                ELSE [w \in Words |-> Held(w)])'
  /\ Needed = [w \in Words |-> NodeBytes + Letters[w]]
  /\ Full = layout.capacity - StateBytes /\ Full' = (layout.capacity - StateBytes)'
<1>1. /\ Counted = CountedIn(region) /\ Counted' = CountedIn(region')
  BY DEF Counted, CountedIn
<1>2. \A w : Held(w) = HeldIn(region, w)
  BY <1>1 DEF Held, HeldIn
<1>3. \A w : Held(w)' = HeldIn(region', w)
  BY <1>1 DEF Held, HeldIn
<1> QED BY <1>2, <1>3 DEF BagNow, Bagged, Zero, Needed, Full

LEMMA KnownBag ==
  ASSUME clean, NEW w \in Words
  PROVE  BagNow # <<>>
<1>1. DOMAIN BagNow = Words
  BY DEF BagNow, Bagged, Zero
<1>2. DOMAIN <<>> = {}
  OBVIOUS
<1> QED BY <1>1, <1>2

\* The file keeps its size.
LEMMA FullStays == ASSUME [Next]_vars PROVE Full' = Full
<1>1. layout' = layout
  BY DEF Next, vars, scmVars, avl_open, avl_close, Call, Descend, Found, Missed, CountAgain,
         NewNode, NewName, NoRoom, Relink, Inserted, Crash, Fault, Astray, BackWith,
         scm_close, Ends, Killed
<1> QED BY <1>1 DEF Full

\* Every step of the tree is one of the bag.
LEMMA BagStep ==
  ASSUME TypeInv, TypeInv', SetInv, SetInv', [Next]_vars
  PROVE  [Bag!Next]_Bag!vars
<1>0. Full' = Full
  BY FullStays
<1>1. CASE UNCHANGED vars
  <2>1. UNCHANGED <<layout, clean, utilized, stored, region, call, pc, answer>>
    BY <1>1 DEF vars, scmVars, avlVars
  <2>2. UNCHANGED <<BagNow, BytesLeft, utilized, pc, call, answer>>
    BY <2>1 DEF BagNow, BytesLeft
  <2> QED BY <1>0, <2>2, Mapped DEF Bag!vars
<1>2. ASSUME NEW truncate \in BOOLEAN, avl_open(truncate) PROVE Bag!Open(truncate)
  <2>1. UNCHANGED <<call, answer, pc>>
    BY <1>2 DEF avl_open
  <2>2. /\ utilized = Closed /\ utilized' # Closed
        /\ \/ truncate /\ BagNow' = Zero /\ BytesLeft' = Full
           \/ ~truncate /\ BagNow' = BagNow /\ BytesLeft' = BytesLeft
           \/ /\ ~truncate /\ BagNow = <<>> /\ BagNow' \in {<<>>, Zero}
              /\ BytesLeft' \in Int
    BY ONLY <1>2, OpenBag, TypeInv, TypeInv', SetInv
  <2> QED BY ONLY <1>0, <2>1, <2>2, Mapped DEF Bag!Open, Bag!Empty, Bag!Unknown, Zero
<1>3. CASE avl_close
  <2>1. UNCHANGED answer
    BY <1>3 DEF avl_close
  <2>2. /\ utilized # Closed /\ utilized' = Closed /\ call = NoCall
        /\ pc = "idle" /\ pc' = "idle"
        /\ \/ BagNow' = BagNow /\ BytesLeft' = BytesLeft
           \/ BagNow' = <<>> /\ BytesLeft' \in Int
    BY ONLY <1>3, CloseBag, TypeInv, TypeInv', SetInv
  <2>3. UNCHANGED call
    BY <1>3 DEF avl_close
  <2>4. Bag!Close
    BY ONLY <1>0, <2>1, <2>2, <2>3, Mapped DEF Bag!Close, Bag!Unknown, Bag!NoCall, NoCall
  <2> QED BY <2>4 DEF Bag!Next
<1>4. ASSUME NEW op \in {"insert", "exists"}, NEW w \in Words, Call(op, w) PROVE Bag!Ask(op, w)
  <2>1. /\ BagNow' = BagNow /\ utilized # Closed /\ utilized' = utilized
        /\ call = NoCall /\ call' = [op |-> op, word |-> w] /\ answer' = 0
        /\ pc # "back" /\ pc' # "back" /\ BytesLeft' = BytesLeft
    BY ONLY <1>4, CallBag, TypeInv, SetInv
  <2> QED BY ONLY <1>0, <2>1, Mapped DEF Bag!Ask, Bag!NoCall, NoCall
<1>5. CASE Found \/ Missed
  <2>1. /\ BagNow' = BagNow /\ call' = NoCall /\ pc = "walk" /\ pc' = "idle"
        /\ utilized # Closed /\ utilized' = utilized /\ call.op = "exists" /\ call # NoCall
        /\ clean => BagNow[call.word] = answer'
        /\ ~clean => BagNow = <<>> /\ answer' \in Nat
        /\ BytesLeft' = BytesLeft
    BY ONLY <1>5, AnswerBag, TypeInv, SetInv
  <2>2. clean => BagNow # <<>>
    BY <2>1, CallWord, KnownBag
  <2>3. Bag!Count
    BY ONLY <1>0, <2>1, <2>2, Mapped
       DEF Bag!Count, Bag!Pending, Bag!Unknown, Bag!NoCall, NoCall
  <2> QED BY <2>3 DEF Bag!Next
<1>6. CASE CountAgain
  <2>1. /\ call # NoCall /\ call.op = "insert" /\ pc # "back" /\ pc' = "back"
        /\ utilized # Closed /\ utilized' # Closed /\ UNCHANGED <<call, answer>>
        /\ call.word \in Words
        /\ clean => BagNow[call.word] > 0 /\ BagNow' = [BagNow EXCEPT ![call.word] = @ + 1]
        /\ ~clean => BagNow = <<>> /\ BagNow' = <<>>
        /\ BytesLeft' = BytesLeft
    BY ONLY <1>6, AgainBag, TypeInv, SetInv, SetInv'
  <2>2. clean => BagNow # <<>>
    BY <2>1, KnownBag
  <2>3. Bag!Settles
    BY ONLY <1>0, <2>1, Mapped DEF Bag!Settles, Bag!Pending, Bag!NoCall, NoCall
  <2>4. CASE clean
    <3>1. Bag!AddAgain
      BY ONLY <2>1, <2>2, <2>3, <2>4, Mapped DEF Bag!AddAgain, Bag!Unknown
    <3> QED BY <3>1 DEF Bag!Next
  <2>5. CASE ~clean
    <3>1. BytesLeft' <= BytesLeft
      BY <2>1, LeftTyped
    <3>2. Bag!AddUnknown
      BY ONLY <2>1, <2>3, <2>5, <3>1, Mapped DEF Bag!AddUnknown, Bag!Unknown
    <3> QED BY <3>2 DEF Bag!Next
  <2> QED BY <2>4, <2>5
<1>7. CASE NewName
  <2>1. /\ call # NoCall /\ call.op = "insert" /\ pc # "back" /\ pc' = "back"
        /\ utilized # Closed /\ utilized' # Closed /\ UNCHANGED <<call, answer>>
        /\ call.word \in Words
        /\ clean => BagNow[call.word] = 0 /\ BagNow' = [BagNow EXCEPT ![call.word] = 1]
        /\ ~clean => BagNow = <<>> /\ BagNow' = <<>>
        /\ Needed[call.word] <= BytesLeft /\ BytesLeft' = BytesLeft - Needed[call.word]
    BY ONLY <1>7, NamedBag, TypeInv, SetInv, SetInv'
  <2>2. clean => BagNow # <<>>
    BY <2>1, KnownBag
  <2>3. Bag!Settles
    BY ONLY <1>0, <2>1, Mapped DEF Bag!Settles, Bag!Pending, Bag!NoCall, NoCall
  <2>4. CASE clean
    <3>1. Bag!AddNew
      BY ONLY <2>1, <2>2, <2>3, <2>4, Mapped DEF Bag!AddNew, Bag!Fits, Bag!Unknown
    <3> QED BY <3>1 DEF Bag!Next
  <2>5. CASE ~clean
    <3>1. Needed[call.word] \in Nat
      <4>1. Letters[call.word] \in Nat /\ Needed[call.word] = NodeBytes + Letters[call.word]
        BY <2>1, AvlAssumption DEF Needed
      <4> QED BY <4>1 DEF NodeBytes
    <3>2. BytesLeft' <= BytesLeft
      BY <2>1, <3>1, LeftTyped
    <3>3. Bag!AddUnknown
      BY ONLY <2>1, <2>3, <2>5, <3>2, Mapped DEF Bag!AddUnknown, Bag!Unknown
    <3> QED BY <3>3 DEF Bag!Next
  <2> QED BY <2>4, <2>5
<1>8. CASE NoRoom
  <2>1. /\ BagNow' = BagNow /\ UNCHANGED <<call, answer>> /\ pc # "back" /\ pc' = "back"
        /\ call # NoCall /\ call.op = "insert" /\ utilized # Closed /\ utilized' = utilized
        /\ call.word \in Words
        /\ clean => BagNow[call.word] = 0
        /\ ~clean => BagNow = <<>>
        /\ ~(Needed[call.word] <= BytesLeft) /\ BytesLeft' <= BytesLeft
    BY ONLY <1>8, NoRoomBag, TypeInv, SetInv
  <2>2. clean => BagNow # <<>>
    BY <2>1, KnownBag
  <2>3. Bag!Settles
    BY ONLY <1>0, <2>1, Mapped DEF Bag!Settles, Bag!Pending, Bag!NoCall, NoCall
  <2>4. CASE clean
    <3>1. Bag!Drop
      BY ONLY <2>1, <2>2, <2>3, <2>4, Mapped DEF Bag!Drop, Bag!Fits, Bag!Unknown
    <3> QED BY <3>1 DEF Bag!Next
  <2>5. CASE ~clean
    <3>1. Bag!AddUnknown
      BY ONLY <2>1, <2>3, <2>5, Mapped DEF Bag!AddUnknown, Bag!Unknown
    <3> QED BY <3>1 DEF Bag!Next
  <2> QED BY <2>4, <2>5
<1>9. CASE Inserted
  <2>1. /\ BagNow' = BagNow /\ call' = NoCall /\ pc = "back" /\ pc' = "idle"
        /\ utilized # Closed /\ utilized' = utilized
        /\ answer' \in {0, -1}
        /\ clean => answer' = IF BagNow = Zero THEN -1 ELSE 0
        /\ ~clean => BagNow = <<>>
        /\ BytesLeft' = BytesLeft
    BY ONLY <1>9, InsertedBag, TypeInv, SetInv, SetInv'
  <2>2. clean => BagNow # <<>>
    BY <2>1, CallWord, KnownBag
  <2>3. Bag!Return
    BY ONLY <1>0, <2>1, <2>2, Mapped
       DEF Bag!Return, Bag!Unknown, Bag!Empty, Bag!NoCall, NoCall, Zero
  <2> QED BY <2>3 DEF Bag!Next
<1>10. CASE QuietStep
  <2>1. /\ BagNow' = BagNow /\ UNCHANGED <<call, answer>>
        /\ utilized # Closed /\ utilized' # Closed /\ ((pc' = "back") <=> (pc = "back"))
        /\ BytesLeft' = BytesLeft
    BY ONLY <1>10, QuietBag, TypeInv, SetInv, SetInv'
  <2> QED BY ONLY <1>0, <2>1, Mapped DEF Bag!vars
<1>11. CASE Crash \/ Fault \/ Astray
  <2>1. Ends /\ utilized # Closed
    BY <1>11, CallWord DEF Crash, Fault, Astray, Overruns
  <2>2. /\ utilized' = Closed /\ pc' = "idle" /\ call' = NoCall /\ UNCHANGED answer
        /\ BagNow' \in {BagNow, Zero, <<>>}
    BY ONLY <2>1, EndBag, TypeInv, SetInv
  <2>3. BytesLeft' \in Int
    BY LeftNext
  <2>4. Bag!Crash
    BY ONLY <1>0, <2>1, <2>2, <2>3, Mapped
       DEF Bag!Crash, Bag!Unknown, Bag!Empty, Bag!NoCall, NoCall, Zero
  <2> QED BY <2>4 DEF Bag!Next
<1>12. (\E truncate \in BOOLEAN : avl_open(truncate)) => Bag!Next
  BY <1>2 DEF Bag!Next
<1>13. (\E op \in {"insert", "exists"}, w \in Words : Call(op, w)) => Bag!Next
  BY <1>4 DEF Bag!Next
<1> QED BY <1>1, <1>3, <1>5, <1>6, <1>7, <1>8, <1>9, <1>10, <1>11, <1>12, <1>13
        DEF Next, QuietStep

LEMMA BagInit == Init => Bag!Init
<1> SUFFICES ASSUME Init PROVE Bag!Init
  OBVIOUS
<1>1. /\ clean /\ utilized = Closed /\ stored = 0 /\ call = NoCall /\ answer = 0
      /\ pc = "idle" /\ layout \in Layouts
  BY DEF Init, ScmInit
<1>2. BagNow = Zero
  BY <1>1 DEF BagNow
<1>3. layout.capacity \in Nat
  BY <1>1, ScmAssumption DEF Layouts, P23, P3
<1>4. BytesLeft = Full /\ Full \in Int
  BY <1>1, <1>3 DEF BytesLeft, Full, StateBytes
<1> QED BY <1>1, <1>2, <1>4, Mapped DEF Bag!Init, Bag!Empty, Bag!NoCall, NoCall, Zero

(* Whatever happens to the process, the word set is the bag of WordBag:     *)
(* avl_exists answers how often a word was inserted; an insert counts its   *)
(* word once more, unless the word is new and what is left of the file has  *)
(* not the bytes of a node and the word; avl_insert reports that only when  *)
(* nothing was inserted at all; and only the end of a session takes         *)
(* inserted words away.                                                     *)
THEOREM BagImplemented == Spec => ImplementsBag
<1>1. TypeInv /\ (TypeInv)' /\ SetInv /\ (SetInv)' /\ [Next]_vars => [Bag!Next]_Bag!vars
  BY BagStep
<1> QED BY <1>1, BagInit, SetInvariance, PTL DEF Spec, ImplementsBag, Bag!Spec

-----------------------------------------------------------------------------
(* The totals agree with the tree.                                          *)

\* A set of nodes of a tree that has the root in it and no link leaves is the
\* whole tree.
LEMMA TreeReached ==
  ASSUME NEW r, Typed(r), NEW p, NEW S, IsTree(r, p, S), p # NULL,
         NEW T, T \subseteq S, p \in T, \A u \in T : Kids(r, u) \subseteq T
  PROVE  T = S
<1> SUFFICES ASSUME NEW u \in S PROVE u \in T
  OBVIOUS
<1>1. PICK B : TreeBy(r, p, S, B)
  BY DEF IsTree
<1>2. \A q \in S : Solid(r, q) /\ q # NULL /\ r[q].depth \in Nat /\ delta(r, q) = r[q].depth
  BY NullTree, SolidNull
<1> DEFINE Over == {q \in T : u \in B[q]}
           H == {r[q].depth : q \in Over}
<1>3. p \in Over
  BY <1>1 DEF TreeBy
<1>4. H \subseteq Nat /\ r[p].depth \in H
  BY <1>2, <1>3
<1> HIDE DEF Over
<1>5. PICK h \in H : \A x \in H : h <= x
  <2> HIDE DEF H
  <2> QED BY <1>4, LeastNatural
<1>6. PICK q \in Over : h = r[q].depth
  BY <1>5
<1>7. q \in T /\ q \in S /\ u \in B[q]
  BY <1>6 DEF Over
<1>8. /\ B[q] = {q} \cup SubOf(B, r[q].left) \cup SubOf(B, r[q].right)
      /\ r[q].left \in S \cup {NULL} /\ r[q].right \in S \cup {NULL}
      /\ Level(r[q].depth, delta(r, r[q].left), delta(r, r[q].right))
  BY <1>1, <1>7 DEF TreeBy, Whole, Apex, Kid, Other
<1>9. HasKind(r, q, "node")
  BY <1>2, <1>7 DEF Solid, Legible
<1>10. ASSUME NEW v \in {r[q].left, r[q].right}, u \in SubOf(B, v) PROVE FALSE
  <2>1. v # NULL /\ u \in B[v] /\ v \in S
    BY <1>8, <1>10 DEF SubOf
  <2>2. v \in T
    BY <1>7, <1>9, <2>1 DEF Kids
  <2>3. r[v].depth \in H
    BY <2>1, <2>2 DEF Over
  <2>4. delta(r, r[q].left) \in Int /\ delta(r, r[q].right) \in Int
    BY <1>2, <1>8 DEF delta
  <2>5. r[v].depth < r[q].depth
    <3>1. delta(r, v) = r[v].depth /\ r[v].depth \in Nat /\ r[q].depth \in Nat
      BY <1>2, <1>7, <2>1
    <3> QED BY <1>8, <2>4, <3>1 DEF Level
  <2>6. h <= r[v].depth /\ h = r[q].depth
    BY ONLY <1>5, <1>6, <2>3
  <2>7. r[v].depth \in Nat /\ r[q].depth \in Nat
    BY <1>2, <1>7, <2>1
  <2> QED BY ONLY <2>5, <2>6, <2>7
<1> QED BY <1>7, <1>8, <1>10

LEMMA CountedFinite ==
  ASSUME FiniteInv
  PROVE  IsFiniteSet(CountedIn(region))
BY FS_Subset DEF FiniteInv, CountedIn

\* Counted nodes are no more than there are words.
LEMMA CountedFew ==
  ASSUME Typed(region), FiniteInv, Distinct(region)
  PROVE  Cardinality(CountedIn(region)) <= Cardinality(Words)
<1> DEFINE S == CountedIn(region)
           f == [u \in S |-> WordAt(region, u)]
<1>1. \A u \in S : WordAt(region, u) \in Words
  BY CountedSolid
<1>2. f \in [S -> Words]
  BY <1>1
<1>3. \A u, v \in S : f[u] = f[v] => u = v
  BY DEF Distinct
<1> HIDE DEF f
<1>4. f \in Injection(S, Words)
  BY <1>2, <1>3 DEF Injection, IsInjective
<1> QED BY <1>4, AvlAssumption, FS_Injection

\* Over as many links as there are words everything in the tree is reached.
LEMMA BelowAll ==
  ASSUME Typed(region), FiniteInv, Distinct(region), NEW p \in Int,
         IsTree(region, p, CountedIn(region))
  PROVE  Below(p) = CountedIn(region)
<1> DEFINE S == CountedIn(region)
           N == Cardinality(Words)
<1>1. PICK f : Reaches(region, p, f) /\ Below(p) = f[N]
  BY BelowReach
<1>2. N \in Nat /\ IsFiniteSet(S) /\ Cardinality(S) \in Nat /\ Cardinality(S) <= N
  BY AvlAssumption, FS_CardinalityType, CountedFinite, CountedFew
<1>3. p \in S \cup {NULL} /\ (p = NULL <=> S = {})
  BY NullTree
<1>4. \A u \in S : Kids(region, u) \subseteq S
  BY TreeKids
<1>5. \A n \in Nat : f[n] \subseteq S
  BY <1>1, <1>3, <1>4, ReachStays
<1>6. CASE p = NULL
  BY <1>1, <1>2, <1>3, <1>5, <1>6
<1>7. CASE p # NULL
  <2>1. \A n \in Nat : IsFiniteSet(f[n]) /\ Cardinality(f[n]) \in Nat
    BY <1>2, <1>5, FS_Subset, FS_CardinalityType
  <2> DEFINE Slow == {n \in Nat : ~(f[n] = S \/ Cardinality(f[n]) > n)}
  <2>2. Slow = {}
    <3> SUFFICES ASSUME Slow # {} PROVE FALSE
      OBVIOUS
    <3>1. PICK n \in Slow : \A m \in Slow : n <= m
      BY LeastNatural
    <3>2. n # 0 /\ n \in Nat
      <4>1. f[0] = {p}
        BY <1>1, <1>7, ReachSteps
      <4>2. Cardinality(f[0]) = 1
        BY <4>1, FS_Singleton
      <4> QED BY <3>1, <4>2
    <3>3. PICK m \in Nat : m + 1 = n
      <4>1. n - 1 \in Nat /\ n - 1 + 1 = n
        BY <3>2
      <4> QED BY <4>1
    <3>4. m \notin Slow
      BY <3>1, <3>3
    <3>5. f[n] = f[m] \cup KidsOf(region, f[m])
      <4>1. f[m + 1] = f[m] \cup KidsOf(region, f[m])
        BY <1>1, ReachSteps
      <4> QED BY <3>3, <4>1
    <3>6. f[m] # S
      BY <1>5, <3>1, <3>2, <3>5
    <3>7. Cardinality(f[m]) > m
      BY <3>4, <3>6
    <3>8. p \in f[m]
      <4> DEFINE Out == {i \in Nat : p \notin f[i]}
      <4> SUFFICES ASSUME Out # {} PROVE FALSE
        OBVIOUS
      <4>1. PICK i \in Out : \A j \in Out : i <= j
        BY LeastNatural
      <4>2. p \in f[0]
        BY <1>1, <1>7, ReachSteps
      <4>3. i # 0 /\ i \in Nat
        BY <4>1, <4>2
      <4>4. PICK j \in Nat : j + 1 = i
        <5>1. i - 1 \in Nat /\ i - 1 + 1 = i
          BY <4>3
        <5> QED BY <5>1
      <4>5. p \in f[j]
        BY <4>1, <4>4
      <4>6. f[j + 1] = f[j] \cup KidsOf(region, f[j])
        BY <1>1, ReachSteps
      <4> QED BY <4>1, <4>4, <4>5, <4>6
    <3>9. f[n] # f[m]
      <4> SUFFICES ASSUME f[n] = f[m] PROVE FALSE
        OBVIOUS
      <4>1. \A u \in f[m] : Kids(region, u) \subseteq f[m]
        BY <3>5 DEF KidsOf
      <4>2. f[m] = S
        BY <1>5, <1>7, <3>8, <4>1, TreeReached
      <4> QED BY <3>6, <4>2
    <3>10. Cardinality(f[m]) <= Cardinality(f[n]) /\ Cardinality(f[m]) # Cardinality(f[n])
      BY <2>1, <3>2, <3>5, <3>9, FS_Subset
    <3>11. Cardinality(f[n]) > n
      BY <2>1, <3>2, <3>3, <3>7, <3>10
    <3> QED BY <3>1, <3>11
  <2>3. f[N] = S \/ Cardinality(f[N]) > N
    BY <1>2, <2>2
  <2>4. Cardinality(f[N]) <= Cardinality(S)
    BY <1>2, <1>5, FS_Subset
  <2>5. Cardinality(f[N]) \in Nat
    BY <1>2, <2>1
  <2>6. f[N] = S
    BY <1>2, <2>3, <2>4, <2>5
  <2> QED BY <1>1, <2>6
<1> QED BY <1>6, <1>7

\* One pair for each time that a word of the nodes S was inserted.
Tally(r, S) == {x \in S \X Nat : x[2] < r[x[1]].count}

\* g adds up the counts of the subsets of S.
Adds(r, S, g) ==
  g = [s \in SUBSET S |-> IF s = {} THEN 0
                          ELSE LET x == CHOOSE x \in s : TRUE IN r[x].count + g[s \ {x}]]

LEMMA TallyOne ==
  ASSUME NEW r, NEW q, r[q].count \in Nat
  PROVE  IsFiniteSet(Tally(r, {q})) /\ Cardinality(Tally(r, {q})) = r[q].count
<1> DEFINE n == r[q].count
           I == 0 .. n - 1
           f == [i \in I |-> <<q, i>>]
<1>1. IsFiniteSet(I) /\ Cardinality(I) = n
  <2>1. n - 1 \in Int /\ 0 \in Int /\ n \in Nat
    OBVIOUS
  <2>2. IsFiniteSet(0 .. n - 1) /\ Cardinality(0 .. n - 1) = IF 0 > n - 1 THEN 0 ELSE n - 1 - 0 + 1
    BY ONLY <2>1, FS_Interval
  <2> QED BY <2>1, <2>2
<1>2. f \in Bijection(I, Tally(r, {q}))
  <2>1. \A i \in I : <<q, i>> \in Tally(r, {q})
    BY DEF Tally
  <2>2. \A x \in Tally(r, {q}) : x[2] \in I /\ x = <<q, x[2]>>
    BY DEF Tally
  <2> QED BY <2>1, <2>2 DEF Bijection, Injection, Surjection, IsInjective
<1>3. ExistsBijection(I, Tally(r, {q}))
  BY <1>2 DEF ExistsBijection
<1> QED BY <1>1, <1>3, FS_Bijection

LEMMA TallyMore ==
  ASSUME NEW r, NEW S, NEW q \in S, r[q].count \in Nat, NEW R, R = S \ {q},
         IsFiniteSet(Tally(r, R)), Cardinality(Tally(r, R)) \in Nat
  PROVE  /\ IsFiniteSet(Tally(r, S))
         /\ Cardinality(Tally(r, S)) = r[q].count + Cardinality(Tally(r, R))
<1> DEFINE A == Tally(r, {q})
           C == Tally(r, R)
<1>1. Tally(r, S) = A \cup C
  BY DEF Tally
<1>2. A \cap C = {}
  BY DEF Tally
<1>3. IsFiniteSet(A) /\ Cardinality(A) = r[q].count
  BY TallyOne
<1> HIDE DEF A, C
<1>4. /\ IsFiniteSet(A \cup C)
      /\ Cardinality(A \cup C) = Cardinality(A) + Cardinality(C) - Cardinality(A \cap C)
  BY <1>3, FS_Union DEF C
<1>5. Cardinality(A \cap C) = 0
  BY <1>2, FS_EmptySet
<1>6. Cardinality(C) \in Nat /\ Cardinality(A) \in Nat
  BY <1>3 DEF C
<1> QED BY <1>1, <1>3, <1>4, <1>5, <1>6 DEF C

LEMMA TallyFinite ==
  ASSUME NEW r, NEW S, IsFiniteSet(S), \A p \in S : r[p].count \in Nat
  PROVE  \A s \in SUBSET S : IsFiniteSet(Tally(r, s)) /\ Cardinality(Tally(r, s)) \in Nat
<1> DEFINE Bad == {s \in SUBSET S : ~(IsFiniteSet(Tally(r, s)) /\ Cardinality(Tally(r, s)) \in Nat)}
           H == {Cardinality(s) : s \in Bad}
<1> SUFFICES ASSUME Bad # {} PROVE FALSE
  OBVIOUS
<1>1. \A s \in SUBSET S : IsFiniteSet(s) /\ Cardinality(s) \in Nat
  BY FS_Subset, FS_CardinalityType
<1>2. H \subseteq Nat /\ H # {}
  BY <1>1
<1>3. PICK h \in H : \A x \in H : h <= x
  <2> HIDE DEF H
  <2> QED BY <1>2, LeastNatural
<1>4. PICK s \in Bad : h = Cardinality(s)
  BY <1>3
<1>5. s # {}
  <2>1. Tally(r, {}) = {}
    BY DEF Tally
  <2> QED BY <1>4, <2>1, FS_EmptySet
<1>6. PICK q \in s : TRUE
  BY <1>5
<1>7. s \ {q} \notin Bad
  <2>1. Cardinality(s \ {q}) = Cardinality(s) - 1 /\ Cardinality(s) \in Nat
    BY <1>1, <1>4, <1>6, FS_RemoveElement
  <2>2. Cardinality(s \ {q}) \notin H
    BY ONLY <1>3, <1>4, <2>1
  <2> QED BY <2>2
<1> DEFINE R == s \ {q}
<1>8. IsFiniteSet(Tally(r, R)) /\ Cardinality(Tally(r, R)) \in Nat /\ R = s \ {q}
  BY <1>7
<1> HIDE DEF R
<1>9. /\ IsFiniteSet(Tally(r, s))
      /\ Cardinality(Tally(r, s)) = r[q].count + Cardinality(Tally(r, R))
  <2>1. r[q].count \in Nat
    BY <1>6
  <2> QED BY ONLY <1>6, <1>8, <2>1, TallyMore
<1>10. r[q].count \in Nat
  BY <1>6
<1> QED BY <1>4, <1>8, <1>9, <1>10

LEMMA AddsExists ==
  ASSUME NEW r, NEW S, IsFiniteSet(S), \A p \in S : r[p].count \in Nat
  PROVE  \E g : Adds(r, S, g)
<1> DEFINE g == [s \in SUBSET S |-> Cardinality(Tally(r, s))]
<1>1. ASSUME NEW s \in SUBSET S
      PROVE  g[s] = IF s = {} THEN 0
                    ELSE LET x == CHOOSE x \in s : TRUE IN r[x].count + g[s \ {x}]
  <2>1. CASE s = {}
    <3>1. Tally(r, {}) = {}
      BY DEF Tally
    <3> QED BY <2>1, <3>1, FS_EmptySet
  <2>2. CASE s # {}
    <3> DEFINE x == CHOOSE x \in s : TRUE
           R == s \ {x}
    <3>1. x \in s
      BY <2>2
    <3> HIDE DEF x
    <3>2. R \in SUBSET S /\ r[x].count \in Nat /\ R = s \ {x}
      BY <3>1
    <3> HIDE DEF R
    <3>3. IsFiniteSet(Tally(r, R)) /\ Cardinality(Tally(r, R)) \in Nat
      BY <3>2, TallyFinite
    <3>4. Cardinality(Tally(r, s)) = r[x].count + Cardinality(Tally(r, R))
      BY ONLY <3>1, <3>2, <3>3, TallyMore
    <3>5. g[s] = Cardinality(Tally(r, s)) /\ g[s \ {x}] = Cardinality(Tally(r, R))
      BY <3>2
    <3> HIDE DEF g
    <3>6. g[s] = r[x].count + g[s \ {x}]
      BY <3>4, <3>5
    <3> QED BY <2>2, <3>6 DEF x
  <2> QED BY <2>1, <2>2
<1>2. g = [s \in SUBSET S |-> g[s]]
  OBVIOUS
<1> HIDE DEF g
<1>3. Adds(r, S, g)
  BY <1>1, <1>2 DEF Adds
<1> QED BY <1>3

\* What adds up the counts finds as many as there are pairs.
LEMMA AddsTally ==
  ASSUME NEW r, NEW S, IsFiniteSet(S), \A p \in S : r[p].count \in Nat,
         NEW g, Adds(r, S, g)
  PROVE  g[S] = Cardinality(Tally(r, S))
<1> DEFINE Bad == {s \in SUBSET S : g[s] # Cardinality(Tally(r, s))}
           H == {Cardinality(s) : s \in Bad}
<1> SUFFICES ASSUME Bad # {} PROVE FALSE
  OBVIOUS
<1>1. \A s \in SUBSET S : IsFiniteSet(s) /\ Cardinality(s) \in Nat
  BY FS_Subset, FS_CardinalityType
<1>2. H \subseteq Nat /\ H # {}
  BY <1>1
<1>3. PICK h \in H : \A x \in H : h <= x
  <2> HIDE DEF H
  <2> QED BY <1>2, LeastNatural
<1>4. PICK s \in Bad : h = Cardinality(s)
  BY <1>3
<1>5. g[s] = IF s = {} THEN 0
             ELSE LET x == CHOOSE x \in s : TRUE IN r[x].count + g[s \ {x}]
  BY <1>4 DEF Adds
<1>6. s # {}
  <2>1. Tally(r, {}) = {}
    BY DEF Tally
  <2> QED BY <1>4, <1>5, <2>1, FS_EmptySet
<1> DEFINE q == CHOOSE x \in s : TRUE
<1>7. q \in s /\ g[s] = r[q].count + g[s \ {q}]
  BY <1>5, <1>6
<1> HIDE DEF q
<1> DEFINE R == s \ {q}
<1>8. R \notin Bad
  <2>1. Cardinality(R) = Cardinality(s) - 1 /\ Cardinality(s) \in Nat
    BY <1>1, <1>4, <1>7, FS_RemoveElement
  <2> HIDE DEF R
  <2>2. Cardinality(R) \notin H
    <3> SUFFICES ASSUME Cardinality(R) \in H PROVE FALSE
      OBVIOUS
    <3>1. h <= Cardinality(R)
      BY ONLY <1>3, Cardinality(R) \in H
    <3> QED BY ONLY <1>4, <2>1, <3>1
  <2> QED BY <2>2
<1>9. R \in SUBSET S /\ r[q].count \in Nat /\ R = s \ {q}
  BY <1>7
<1>10. g[R] = Cardinality(Tally(r, R)) /\ g[s] = r[q].count + g[R]
  BY <1>7, <1>8, <1>9
<1> HIDE DEF R
<1>11. IsFiniteSet(Tally(r, R)) /\ Cardinality(Tally(r, R)) \in Nat
  BY <1>9, TallyFinite
<1>12. Cardinality(Tally(r, s)) = r[q].count + Cardinality(Tally(r, R))
  BY ONLY <1>7, <1>9, <1>11, TallyMore
<1> QED BY <1>4, <1>10, <1>12

LEMMA SumIs ==
  ASSUME NEW r, NEW S, IsFiniteSet(S), \A p \in S : r[p].count \in Nat
  PROVE  MapThenSumSet(LAMBDA p : r[p].count, S) = Cardinality(Tally(r, S))
<1> DEFINE g == CHOOSE g : Adds(r, S, g)
<1>1. Adds(r, S, g)
  BY AddsExists
<1>2. MapThenSumSet(LAMBDA p : r[p].count, S) = g[S]
  BY DEF MapThenSumSet, MapThenFoldSet, Adds
<1> HIDE DEF g
<1> QED BY <1>1, <1>2, AddsTally

LEMMA TallySame ==
  ASSUME NEW r, NEW t, NEW S, \A u \in S : t[u].count = r[u].count
  PROVE  Tally(t, S) = Tally(r, S)
<1>1. \A x \in S \X Nat : x[1] \in S
  OBVIOUS
<1> QED BY <1>1 DEF Tally

LEMMA TallyUp ==
  ASSUME NEW r, NEW t, NEW S, IsFiniteSet(S), \A p \in S : r[p].count \in Nat,
         NEW n, NEW k \in Nat, n \in S => r[n].count = k, n \notin S => k = 0,
         t[n].count = k + 1, \A u \in S : u # n => t[u].count = r[u].count
  PROVE  Cardinality(Tally(t, S \cup {n})) = Cardinality(Tally(r, S)) + 1
<1>1. IsFiniteSet(Tally(r, S))
  BY TallyFinite
<1>2. <<n, k>> \notin Tally(r, S)
  BY DEF Tally
<1>3. Tally(t, S \cup {n}) = Tally(r, S) \cup {<<n, k>>}
  <2>1. ASSUME NEW u \in S \cup {n}, NEW i \in Nat
        PROVE  <<u, i>> \in Tally(t, S \cup {n}) <=> <<u, i>> \in Tally(r, S) \/ <<u, i>> = <<n, k>>
    <3>1. <<u, i>> \in Tally(t, S \cup {n}) <=> i < t[u].count
      BY DEF Tally
    <3>2. <<u, i>> \in Tally(r, S) <=> u \in S /\ i < r[u].count
      BY DEF Tally
    <3>3. CASE u = n
      BY <3>1, <3>2, <3>3
    <3>4. CASE u # n
      BY <3>1, <3>2, <3>4
    <3> QED BY <3>3, <3>4
  <2>2. /\ Tally(t, S \cup {n}) \subseteq (S \cup {n}) \X Nat
        /\ Tally(r, S) \cup {<<n, k>>} \subseteq (S \cup {n}) \X Nat
    BY DEF Tally
  <2>3. \A x \in (S \cup {n}) \X Nat : x = <<x[1], x[2]>> /\ x[1] \in S \cup {n} /\ x[2] \in Nat
    OBVIOUS
  <2>4. \A x \in (S \cup {n}) \X Nat : x \in Tally(t, S \cup {n}) <=> x \in Tally(r, S) \cup {<<n, k>>}
    <3> SUFFICES ASSUME NEW x \in (S \cup {n}) \X Nat
                 PROVE  x \in Tally(t, S \cup {n}) <=> x \in Tally(r, S) \/ x = <<n, k>>
      OBVIOUS
    <3>1. PICK u \in S \cup {n}, i \in Nat : x = <<u, i>>
      BY <2>3
    <3> QED BY <2>1, <3>1
  <2> QED BY <2>2, <2>4
<1> QED BY <1>1, <1>2, <1>3, FS_AddElement

TotalsInv ==
  Live => /\ region[state].unique = Cardinality(CountedIn(region))
          /\ region[state].items = Cardinality(Tally(region, CountedIn(region)))

LEMMA CountsTyped ==
  ASSUME Typed(region)
  PROVE  \A u \in CountedIn(region) : region[u].count \in Nat
BY NodesTyped DEF CountedIn, Legible, NodeBlocks

LEMMA TotalsStay ==
  ASSUME TotalsInv, Live' => Live, state' = state,
         Live => /\ CountedIn(region') = CountedIn(region)
                 /\ \A u \in CountedIn(region) : region'[u].count = region[u].count
                 /\ region'[state].items = region[state].items
                 /\ region'[state].unique = region[state].unique
  PROVE  TotalsInv'
<1>1. Live => Tally(region', CountedIn(region)) = Tally(region, CountedIn(region))
  BY TallySame
<1> QED BY <1>1 DEF TotalsInv

LEMMA TotalsStep ==
  ASSUME TypeInv, SetInv, FiniteInv, TotalsInv, [Next]_vars
  PROVE  TotalsInv'
<1>1. Typed(region)
  BY DEF TypeInv, TypeOK, Typed
<1>2. ASSUME UNCHANGED <<layout, clean, utilized, stored, region>> PROVE TotalsInv'
  <2>1. state' = state /\ (Live' => Live)
    BY <1>2, StateStays DEF Live
  <2> QED BY <1>2, <2>1, TotalsStay
<1>3. ASSUME NEW truncate \in BOOLEAN, avl_open(truncate) PROVE TotalsInv'
  <2>1. /\ utilized = Closed /\ UNCHANGED layout
    BY <1>3 DEF avl_open, MayOpen
  <2>2. state' = state
    BY <2>1, StateStays
  <2>3. PICK u \in Counters(truncate) :
          IF u = 0 THEN /\ utilized' = StateBytes
                        /\ region' = [p \in {state} |-> State]
                        /\ clean' = TRUE
                   ELSE utilized' = u /\ UNCHANGED <<region, clean>>
    BY <1>3 DEF avl_open
  <2>4. CASE u = 0
    <3>1. DOMAIN region' = {state} /\ region'[state] = State
      BY <2>3, <2>4
    <3>2. CountedIn(region') = {}
      BY <3>1 DEF CountedIn, Legible, HasKind, State
    <3>3. Tally(region', {}) = {}
      BY DEF Tally
    <3> QED BY <2>2, <3>1, <3>2, <3>3, FS_EmptySet DEF TotalsInv, State
  <2>5. CASE u # 0
    <3>1. UNCHANGED <<region, clean>> /\ ~truncate
      BY <2>3, <2>5 DEF Counters
    <3>2. clean => stored # Junk
      BY <2>1 DEF SetInv, HeapInv
    <3>3. clean => stored # 0
      BY <2>5, <3>1, <3>2 DEF Counters
    <3>4. Live' => Live
      BY <3>1, <3>3 DEF Live
    <3> QED BY <2>2, <3>1, <3>4, TotalsStay
  <2> QED BY <2>4, <2>5
<1>4. CASE avl_close
  <2>1. utilized # Closed /\ UNCHANGED layout /\ (clean' => clean /\ region' = region)
    BY <1>4 DEF avl_close, scm_close
  <2>2. state' = state /\ (Live' => Live)
    BY <2>1, StateStays DEF Live
  <2>3. CASE Live'
    BY <2>1, <2>2, <2>3, TotalsStay DEF Live
  <2>4. CASE ~Live'
    BY <2>4 DEF TotalsInv
  <2> QED BY <2>3, <2>4
<1>5. ASSUME NEW op \in {"insert", "exists"}, NEW w \in Words, Call(op, w) PROVE TotalsInv'
  BY <1>2, <1>5 DEF Call, scmVars
<1>6. CASE Descend \/ Found \/ Missed \/ NoRoom
  BY <1>2, <1>6 DEF Descend, Found, Missed, NoRoom, BackWith, Returns, scmVars
<1>7. CASE CountAgain
  <2>1. UNCHANGED <<layout, clean, utilized, stored>>
    BY <1>7 DEF CountAgain, BackWith
  <2>2. state' = state /\ (Live' => Live)
    BY <2>1, StateStays DEF Live
  <2>3. ASSUME Live
        PROVE  /\ region'[state].unique = Cardinality(CountedIn(region'))
               /\ region'[state].items = Cardinality(Tally(region', CountedIn(region')))
    <3> DEFINE S == CountedIn(region)
               n == region[cur].count
    <3>1. /\ CountedIn(region') = S
          /\ region'[state].items = region[state].items + 1
          /\ region'[state].unique = region[state].unique
          /\ cur \in S /\ region'[cur].count = n + 1
          /\ \A u \in S : u # cur => region'[u].count = region[u].count
      BY <1>7, <2>3, CountStep
    <3>2. IsFiniteSet(S) /\ n \in Nat /\ \A u \in S : region[u].count \in Nat
      BY <1>1, <3>1, CountedFinite, CountsTyped
    <3>3. S \cup {cur} = S
      BY <3>1
    <3>4. Cardinality(Tally(region', S \cup {cur})) = Cardinality(Tally(region, S)) + 1
      <4> HIDE DEF S
      <4> QED BY <3>1, <3>2, TallyUp
    <3> QED BY <2>3, <3>1, <3>3, <3>4 DEF TotalsInv
  <2> QED BY <2>2, <2>3 DEF TotalsInv
<1>8. CASE NewName
  <2>1. UNCHANGED <<layout, clean>> /\ pc = "name"
    BY <1>8 DEF NewName, BackWith
  <2>2. state' = state /\ (Live' => Live)
    BY <2>1, StateStays, CallWord DEF Live
  <2>3. ASSUME Live
        PROVE  /\ region'[state].unique = Cardinality(CountedIn(region'))
               /\ region'[state].items = Cardinality(Tally(region', CountedIn(region')))
    <3> DEFINE S == CountedIn(region)
    <3>1. /\ CountedIn(region') = S \cup {ret} /\ ret \notin S
          /\ region'[state].items = region[state].items + 1
          /\ region'[state].unique = region[state].unique + 1
          /\ region'[ret].count = 0 + 1
          /\ \A u \in S : region'[u].count = region[u].count
      BY <1>8, <2>3, NamedStep
    <3>2. IsFiniteSet(S) /\ 0 \in Nat /\ \A u \in S : region[u].count \in Nat
      BY <1>1, CountedFinite, CountsTyped
    <3> HIDE DEF S
    <3>3. Cardinality(Tally(region', S \cup {ret})) = Cardinality(Tally(region, S)) + 1
      BY <3>1, <3>2, TallyUp
    <3>4. Cardinality(S \cup {ret}) = Cardinality(S) + 1
      BY <3>1, <3>2, FS_AddElement
    <3> QED BY <2>3, <3>1, <3>3, <3>4 DEF TotalsInv, S
  <2> QED BY <2>2, <2>3 DEF TotalsInv
<1>9. CASE NewNode
  <2>1. /\ pc = "walk" /\ region' = Allocated(Node) /\ UNCHANGED <<layout, clean>>
    BY <1>9 DEF NewNode
  <2>2. utilized # Closed /\ state' = state /\ (Live' => Live)
    BY <2>1, StateStays, CallWord DEF Live
  <2>3. ASSUME Live
        PROVE  /\ CountedIn(region') = CountedIn(region)
               /\ \A u \in CountedIn(region) : region'[u].count = region[u].count
               /\ region'[state].items = region[state].items
               /\ region'[state].unique = region[state].unique
    <3>1. Node \in Blocks /\ (Node.kind = "node" => Node.count = 0)
      BY NewTyped DEF Node
    <3>2. /\ Extends(region, region', Pointer(utilized), Node) /\ Typed(region')
          /\ Named(region) /\ HasKind(region, state, "state")
      BY <2>1, <2>2, <2>3, <3>1, AllocatedExtends DEF SetInv, HeapInv, Live
    <3>3. CountedIn(region') = CountedIn(region)
      BY <1>1, <3>1, <3>2, ExtendsSame
    <3>4. \A u \in DOMAIN region : region'[u] = region[u]
      BY <3>2 DEF Extends
    <3> QED BY <3>2, <3>3, <3>4 DEF HasKind, CountedIn
  <2> QED BY <2>2, <2>3, TotalsStay
<1>10. CASE Relink \/ Inserted
  <2>1. UNCHANGED <<layout, clean, utilized, stored>>
    BY <1>10 DEF Relink, Inserted, Returns
  <2>2. state' = state /\ (Live' => Live)
    BY <2>1, StateStays DEF Live
  <2>3. Restored(region, region', DOMAIN region)
    BY <1>1, <1>10, StepTyped, RelinkStores DEF Restored, Next, TypeInv, Inv
  <2>4. /\ CountedIn(region') = CountedIn(region)
        /\ \A u \in CountedIn(region) : region'[u].count = region[u].count
    BY <1>1, <2>3, RestoredCounted
  <2>5. ASSUME Live
        PROVE  /\ region'[state].items = region[state].items
               /\ region'[state].unique = region[state].unique
    <3>1. CASE Relink
      BY <2>5, <3>1, RelinkSet
    <3>2. CASE Inserted
      <4>1. HasKind(region, state, "state")
        BY <2>5 DEF SetInv, HeapInv
      <4>2. region[state] \in [bytes : {StateBytes}, kind : {"state"}, items : Nat, unique : Nat, root : Int]
        BY <1>1, <4>1 DEF Typed, HasKind, Blocks
      <4>3. region' = region \/ region' = [region EXCEPT ![state].root = ret]
        BY <3>2 DEF Inserted
      <4> QED BY <4>1, <4>2, <4>3 DEF HasKind
    <3> QED BY <1>10, <3>1, <3>2
  <2> QED BY <2>2, <2>4, <2>5, TotalsStay
<1>11. CASE Crash \/ Fault \/ Astray
  <2>1. Ends /\ utilized # Closed
    BY <1>11, CallWord DEF Crash, Fault, Astray, Overruns
  <2>2. UNCHANGED <<layout, stored, region>> /\ (clean' => clean)
    BY <2>1 DEF Ends, Killed
  <2>3. state' = state /\ (Live' => Live)
    BY <2>1, <2>2, StateStays DEF Live
  <2> QED BY <2>2, <2>3, TotalsStay
<1>12. CASE UNCHANGED vars
  BY <1>2, <1>12 DEF vars, scmVars, avlVars
<1> QED BY <1>3, <1>4, <1>5, <1>6, <1>7, <1>8, <1>9, <1>10, <1>11, <1>12 DEF Next

LEMMA CountsAgree ==
  ASSUME TypeInv, SetInv, FiniteInv, TotalsInv
  PROVE  CountsExact
<1> SUFFICES ASSUME Standing
             PROVE  /\ Below(region[state].root) = Counted
                    /\ region[state].unique = Cardinality(Counted)
                    /\ region[state].items = MapThenSumSet(LAMBDA p : region[p].count, Counted)
  BY DEF CountsExact
<1>1. Typed(region) /\ Counted = CountedIn(region)
  BY DEF TypeInv, TypeOK, Typed, Counted, CountedIn
<1>2. Live /\ Distinct(region) /\ Resting(region) /\ HasKind(region, state, "state")
  BY DEF Standing, Live, SetInv, HeapInv, TreeInv
<1>3. region[state].root \in Int
  BY <1>1, <1>2 DEF Typed, HasKind, Blocks
<1>4. IsTree(region, region[state].root, CountedIn(region))
  BY <1>2 DEF Resting
<1>5. Below(region[state].root) = CountedIn(region)
  BY <1>1, <1>2, <1>3, <1>4, BelowAll
<1>6. IsFiniteSet(CountedIn(region)) /\ \A u \in CountedIn(region) : region[u].count \in Nat
  BY <1>1, CountedFinite, CountsTyped
<1>7. MapThenSumSet(LAMBDA p : region[p].count, CountedIn(region))
        = Cardinality(Tally(region, CountedIn(region)))
  BY <1>6, SumIs
<1> QED BY <1>1, <1>2, <1>5, <1>7 DEF TotalsInv

\* Between calls and between sessions the counted nodes are those of the tree, and
\* the totals kept in struct state, items and unique, are what the tree adds up to:
\* no rotation and no failed allocation loses a node or a count.
THEOREM CountsCorrect == Spec => []CountsExact
<1>1. Init => TotalsInv
  BY DEF Init, ScmInit, TotalsInv, Live
<1>2. TypeInv /\ SetInv /\ FiniteInv /\ TotalsInv /\ [Next]_vars => TotalsInv'
  BY TotalsStep
<1>3. TypeInv /\ SetInv /\ FiniteInv /\ TotalsInv => CountsExact
  BY CountsAgree
<1> QED BY <1>1, <1>2, <1>3, FiniteInvariance, PTL DEF Spec
=============================================================================
