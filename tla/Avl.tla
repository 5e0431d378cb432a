-------------------------------- MODULE Avl --------------------------------
(***************************************************************************)
(* avl.c of p3 and p23 (the two files are the same): a balanced tree of    *)
(* counted words in a region of Scm, and the process that uses it.  The    *)
(* recursive update is a walk down that keeps the way in `stack', an       *)
(* allocation at its end, and one step per frame on the way back.  Each of *)
(* these steps is a group of stores that reach the file even if the        *)
(* process is killed right after it.                                       *)
(***************************************************************************)
EXTENDS Scm, Sequences, FiniteSetsExt

CONSTANTS
  Words,       \* numbered in the order of strcmp
  Letters,     \* strlen + 1 of each word
  MaxItems,    \* per size of the file and session: inserts only into a bag
               \* with fewer items
  MaxCrashes

ASSUME AvlAssumption ==
  /\ Words \subseteq Int /\ IsFiniteSet(Words)
  /\ Letters \in [Words -> Nat \ {0}]
  /\ MaxItems \in [Sizes23 \cup Sizes3 -> Seq(Nat)] /\ MaxCrashes \in Nat
  /\ \A n \in Sizes23 \cup Sizes3 : n >= 60   \* room for struct state

VARIABLES
  pc,        \* idle, walk (down), name (node allocated, its word not), back
  call,      \* the call in progress: op and word
  cur,       \* the node the walk has come to
  stack,     \* frames of update: the node and the side the walk took
  ret,       \* what the inner update returns to the frame above
  answer,    \* of the last call: 0 or -1 of avl_insert, count of avl_exists
  clean,     \* history: no session ended with uncommitted changes to a tree
             \* that the next session would take over
  opens, crashes  \* history, bounded

avlVars == <<pc, call, cur, stack, ret, answer, clean, opens, crashes>>
vars == <<scmVars, avlVars>>

NULL == -1
NoCall == [op |-> "none"]
StateBytes == 24
NodeBytes == 40

State == [bytes |-> StateBytes, kind |-> "state", items |-> 0, unique |-> 0,
          root |-> NULL]
Node == [bytes |-> NodeBytes, kind |-> "node", depth |-> 0, count |-> 0,
         item |-> NULL, left |-> NULL, right |-> NULL]
Word(w) == [bytes |-> Letters[w], kind |-> "word", word |-> w]

-----------------------------------------------------------------------------
(* The tree in a region r.                                                 *)

state == Pointer(0)
HasKind(r, p, k) == p \in DOMAIN r /\ r[p].kind = k
Legible(r, p) == HasKind(r, p, "node") /\ HasKind(r, r[p].item, "word")
WordAt(r, p) == r[r[p].item].word

delta(r, p) == IF p = NULL THEN -1 ELSE r[p].depth
balance(r, p) == delta(r, r[p].left) - delta(r, r[p].right)

\* Slip: a node is no deeper than its children.
DepthOfChildren(r, a, b) == IF delta(r, a) > delta(r, b) THEN delta(r, a) ELSE delta(r, b)
depth(r, a, b) == IF delta(r, a) > delta(r, b) THEN delta(r, a) + 1 ELSE delta(r, b) + 1

Deepen(r, p) == [r EXCEPT ![p].depth = depth(r, r[p].left, r[p].right)]

\* Both return the region after the rotation, and the new root.
rotate_right(r, p) ==
  LET root == r[p].left
      linked == [r EXCEPT ![p].left = r[root].right, ![root].right = p]
  IN [region |-> Deepen(Deepen(linked, p), root), root |-> root]

rotate_left(r, p) ==
  LET root == r[p].right
      linked == [r EXCEPT ![p].right = r[root].left, ![root].left = p]
  IN [region |-> Deepen(Deepen(linked, p), root), root |-> root]

rotate_left_right(r, p) ==
  LET below == rotate_left(r, r[p].left)
  IN rotate_right([below.region EXCEPT ![p].left = below.root], p)

rotate_right_left(r, p) ==
  LET below == rotate_right(r, r[p].right)
  IN rotate_left([below.region EXCEPT ![p].right = below.root], p)

Unbalanced(r, p) == balance(r, p) \notin -1 .. 1

\* Slip: a word on the inner side is rotated like one on the outer side.
RebalanceOutside(r, p, side, w) ==
  IF ~Unbalanced(r, p) THEN [region |-> r, root |-> p]
  ELSE IF side = "left" THEN rotate_right(r, p) ELSE rotate_left(r, p)

\* What update does to its root p after the update below it.
Rebalance(r, p, side, w) ==
  IF ~Unbalanced(r, p) THEN [region |-> r, root |-> p]
  ELSE IF side = "left"
    THEN IF w < WordAt(r, r[p].left) THEN rotate_right(r, p)
                                     ELSE rotate_left_right(r, p)
    ELSE IF w > WordAt(r, r[p].right) THEN rotate_left(r, p)
                                      ELSE rotate_right_left(r, p)

Link(r, p, side, q) ==
  IF side = "left" THEN [r EXCEPT ![p].left = q] ELSE [r EXCEPT ![p].right = q]

\* After damage a pointer may lead to bytes that are no node any more.  The
\* stores of Rebalance stay among nodes if p and what is at most three links
\* below it are nodes, and if what it rotates is there.
Kids(r, p) == IF HasKind(r, p, "node") THEN {r[p].left, r[p].right} \ {NULL} ELSE {}
KidsOf(r, S) == UNION {Kids(r, p) : p \in S}
Family(r, p) ==
  LET one == Kids(r, p)
      two == KidsOf(r, one)
  IN {p} \cup one \cup two \cup KidsOf(r, two)
MayRebalance(r, p, side, w) ==
  /\ \A q \in Family(r, p) : Legible(r, q)
  /\ Unbalanced(r, p) =>
       LET child == IF side = "left" THEN r[p].left ELSE r[p].right
       IN /\ child # NULL
          /\ side = "left" /\ w >= WordAt(r, child) => r[child].right # NULL
          /\ side = "right" /\ w <= WordAt(r, child) => r[child].left # NULL

-----------------------------------------------------------------------------
Init ==
  /\ ScmInit
  /\ pc = "idle" /\ call = NoCall /\ cur = NULL /\ stack = <<>> /\ ret = NULL
  /\ answer = 0 /\ clean = TRUE /\ opens = 0 /\ crashes = 0

\* A counter of 0 makes avl_open start over with an empty tree: nothing that
\* is still in the file can be reached any more.
avl_open(truncate) ==
  /\ opens < Len(MaxItems[layout.capacity]) /\ opens' = opens + 1
  /\ MayOpen(truncate)
  /\ OpenFile(truncate)
  /\ \E u \in Counters(truncate) :
       IF u = 0
         THEN /\ utilized' = StateBytes
              /\ region' = [p \in {state} |-> State]
              /\ clean' = TRUE
         ELSE /\ utilized' = u
              /\ UNCHANGED <<region, clean>>
  /\ UNCHANGED <<layout, pc, call, cur, stack, ret, answer, crashes>>

\* Closing writes the counter over the last block if that reaches so far.
avl_close ==
  /\ utilized # Closed /\ pc = "idle"
  /\ scm_close
  /\ clean' = (clean /\ region' = region)
  /\ UNCHANGED <<pc, call, cur, stack, ret, answer, opens, crashes>>

Call(op, w) ==
  /\ utilized # Closed /\ pc = "idle"
  /\ HasKind(region, state, "state")
  /\ op = "insert" => region[state].items < MaxItems[layout.capacity][opens]
  /\ pc' = "walk"
  /\ call' = [op |-> op, word |-> w]
  /\ cur' = region[state].root
  /\ answer' = 0
  /\ UNCHANGED <<scmVars, stack, ret, clean, opens, crashes>>

\* The call returns a, and the handle is idle again.
Returns(a) ==
  /\ pc' = "idle" /\ call' = NoCall /\ cur' = NULL /\ stack' = <<>> /\ ret' = NULL
  /\ answer' = a
  /\ UNCHANGED <<clean, opens, crashes>>

Smaller == call.word < WordAt(region, cur)
Side == IF Smaller THEN "left" ELSE "right"

\* The walk goes down.  update recurses, avl_exists loops.
Descend ==
  /\ pc = "walk" /\ Legible(region, cur) /\ call.word # WordAt(region, cur)
  /\ Len(stack) <= Cardinality(DOMAIN region)
  /\ cur' = IF Smaller THEN region[cur].left ELSE region[cur].right
  /\ stack' = IF call.op = "insert" THEN Append(stack, [node |-> cur, side |-> Side])
                                    ELSE stack
  /\ UNCHANGED <<scmVars, pc, call, ret, answer, clean, opens, crashes>>

Found ==
  /\ pc = "walk" /\ call.op = "exists" /\ Legible(region, cur)
  /\ call.word = WordAt(region, cur)
  /\ Returns(region[cur].count)
  /\ UNCHANGED scmVars

Missed ==
  /\ pc = "walk" /\ call.op = "exists" /\ cur = NULL
  /\ Returns(0)
  /\ UNCHANGED scmVars

\* The inner update returns q.
BackWith(q) ==
  /\ pc' = "back" /\ ret' = q
  /\ UNCHANGED <<layout, marked, call, cur, stack, answer, clean, opens, crashes>>

AtWord ==
  /\ pc = "walk" /\ call.op = "insert" /\ Legible(region, cur)
  /\ call.word = WordAt(region, cur)
MayDeepen == \A q \in Kids(region, cur) : HasKind(region, q, "node")

\* Slip: neither of the two counters is raised.
CountForgotten ==
  /\ AtWord /\ MayDeepen
  /\ region' = Deepen(region, cur)
  /\ BackWith(cur)
  /\ UNCHANGED <<stored, utilized>>

CountAgain ==
  /\ AtWord /\ MayDeepen
  /\ region' = Deepen([region EXCEPT ![cur].count = @ + 1, ![state].items = @ + 1], cur)
  /\ BackWith(cur)
  /\ UNCHANGED <<stored, utilized>>

NewNode ==
  /\ pc = "walk" /\ call.op = "insert" /\ cur = NULL
  /\ scm_malloc(NodeBytes)
  /\ region' = Allocated(Node)
  /\ pc' = "name" /\ ret' = Pointer(utilized)
  /\ UNCHANGED <<layout, marked, call, cur, stack, answer, clean, opens, crashes>>

NewName ==
  LET named == Allocated(Word(call.word))
  IN /\ pc = "name"
     /\ scm_malloc(Letters[call.word])
     /\ HasKind(named, ret, "node") /\ HasKind(named, state, "state")
     /\ region' = [named EXCEPT ![ret].item = Pointer(utilized), ![ret].count = 1,
                                ![state].items = @ + 1, ![state].unique = @ + 1]
     /\ BackWith(ret)

\* scm_malloc or scm_strdup returns NULL; a node without a word stays behind.
NoRoom ==
  /\ \/ pc = "walk" /\ call.op = "insert" /\ cur = NULL /\ ~Room(NodeBytes)
     \/ pc = "name" /\ ~Room(Letters[call.word])
  /\ BackWith(NULL)
  /\ UNCHANGED <<region, stored, utilized>>

Frame == stack[Len(stack)]
Linked == Link(region, Frame.node, Frame.side, ret)
MayRelink == IF HasKind(region, Frame.node, "node")
               THEN MayRebalance(Linked, Frame.node, Frame.side, call.word)
               ELSE FALSE

\* One frame of update: what the inner update returned becomes the child,
\* even if it is NULL, and the frame returns its own root.
Relink ==
  /\ pc = "back" /\ stack # <<>> /\ MayRelink
  /\ LET turned == Rebalance(Linked, Frame.node, Frame.side, call.word)
     IN region' = Deepen(turned.region, turned.root) /\ ret' = turned.root
  /\ stack' = SubSeq(stack, 1, Len(stack) - 1)
  /\ UNCHANGED <<layout, marked, stored, utilized, pc, call, cur, answer, clean,
                 opens, crashes>>

\* Slip: the root is stored only when the tree was empty.
InsertedOnce ==
  /\ pc = "back" /\ stack = <<>>
  /\ IF ret = NULL
       THEN Returns(-1) /\ UNCHANGED region
       ELSE /\ HasKind(region, state, "state") /\ Returns(0)
            /\ region' = [region EXCEPT ![state].root = IF @ = NULL THEN ret ELSE @]
  /\ UNCHANGED <<layout, marked, stored, utilized>>

\* avl_insert fails only if the outermost update returns NULL.
Inserted ==
  /\ pc = "back" /\ stack = <<>>
  /\ IF ret = NULL
       THEN Returns(-1) /\ UNCHANGED region
       ELSE /\ HasKind(region, state, "state") /\ Returns(0)
            /\ region' = [region EXCEPT ![state].root = ret]
  /\ UNCHANGED <<layout, marked, stored, utilized>>

\* The next open takes a changed tree over with a counter that does not cover
\* it, unless it starts over or the counter covers all blocks.
Ends ==
  /\ Killed
  /\ clean' = (clean /\ stored # Junk /\ (stored = 0 \/ (pc = "idle" /\ utilized <= stored)))
  /\ pc' = "idle" /\ call' = NoCall /\ cur' = NULL /\ stack' = <<>> /\ ret' = NULL
  /\ UNCHANGED <<answer, opens>>

Crash == utilized # Closed /\ crashes < MaxCrashes /\ crashes' = crashes + 1 /\ Ends

\* scm_malloc finds room for what is stored next, but not in the file.
Overruns ==
  \/ /\ pc = "walk" /\ call.op = "insert" /\ cur = NULL
     /\ Room(NodeBytes) /\ ~Inside(NodeBytes)
  \/ /\ pc = "name"
     /\ Room(Letters[call.word]) /\ ~Inside(Letters[call.word])

\* The process stores to an address behind the file.
Fault == Overruns /\ Ends /\ UNCHANGED crashes

\* The process follows a pointer to what is no node (any more), or its stack
\* overflows in a tree with a cycle.
Astray ==
  /\ utilized # Closed
  /\ \/ ~HasKind(region, state, "state")
     \/ pc = "walk" /\ cur # NULL /\ ~Legible(region, cur)
     \/ AtWord /\ ~MayDeepen
     \/ pc = "walk" /\ Len(stack) > Cardinality(DOMAIN region)
     \/ pc = "name" /\ ~HasKind(Allocated(Word(call.word)), ret, "node")
     \/ pc = "back" /\ stack # <<>> /\ ~MayRelink
  /\ Ends
  /\ UNCHANGED crashes

Next ==
  \/ \E truncate \in BOOLEAN : avl_open(truncate)
  \/ avl_close
  \/ \E op \in {"insert", "exists"}, w \in Words : Call(op, w)
  \/ Descend \/ Found \/ Missed
  \/ CountAgain \/ NewNode \/ NewName \/ NoRoom \/ Relink \/ Inserted
  \/ Crash \/ Fault \/ Astray

Spec == Init /\ [][Next]_vars
-----------------------------------------------------------------------------
(* Properties.                                                             *)

Addresses == {NULL} \cup DOMAIN region
Blocks ==
  [bytes : {StateBytes}, kind : {"state"}, items : Nat, unique : Nat, root : Int]
    \cup [bytes : {NodeBytes}, kind : {"node"}, depth : Nat, count : Nat,
          item : Int, left : Int, right : Int]
    \cup [bytes : Nat \ {0}, kind : {"word"}, word : Words]

\* Every variable has its type; a block in the file is one of the three kinds.
TypeOK ==
  /\ layout \in Layouts /\ marked \in BOOLEAN
  /\ stored \in Nat \cup {Junk}
  /\ DOMAIN region \subseteq Nat /\ \A p \in DOMAIN region : region[p] \in Blocks
  /\ utilized \in Nat \cup {Closed}
  /\ pc \in {"idle", "walk", "name", "back"}
  /\ call \in [op : {"insert", "exists"}, word : Words] \cup {NoCall}
  /\ cur \in Int /\ ret \in Int
  /\ stack \in Seq([node : Int, side : {"left", "right"}])
  /\ answer \in Int /\ clean \in BOOLEAN /\ opens \in Nat /\ crashes \in Nat

\* What can be reached from p.
Below(p) ==
  LET below[n \in Nat] == IF n = 0 THEN {p} \ {NULL}
                          ELSE LET less == below[n - 1] IN less \cup KidsOf(region, less)
  IN below[Cardinality(Words)]

\* There is a tree in the file that the next call, or the next session, uses.
Standing == /\ clean /\ pc = "idle" /\ HasKind(region, state, "state")
            /\ utilized = Closed => stored # 0

Counted == {p \in DOMAIN region : Legible(region, p) /\ region[p].count > 0}

\* Between two calls, and between two sessions, the nodes are a search tree:
\* smaller words to the left, greater ones to the right, each depth that of
\* the node's subtree and the depths of two siblings at most one apart.  Holds
\* through all rotations, failed allocations and reopenings at the next counter.
TreeOrdered ==
  Standing =>
    \A p \in Below(region[state].root) :
      /\ Legible(region, p)
      /\ \A q \in Below(region[p].left) : WordAt(region, q) < WordAt(region, p)
      /\ \A q \in Below(region[p].right) : WordAt(region, q) > WordAt(region, p)
      /\ region[p].depth = depth(region, region[p].left, region[p].right)
      /\ ~Unbalanced(region, p)

\* No counted node is lost by a rotation or a failed allocation, and items and
\* unique, kept apart from the tree, agree with it: items is the sum of the
\* counts, unique the number of nodes.
CountsExact ==
  Standing =>
    /\ Below(region[state].root) = Counted
    /\ region[state].unique = Cardinality(Counted)
    /\ region[state].items = MapThenSumSet(LAMBDA p : region[p].count, Counted)

\* What a block says about words does not change, and counts only grow.
SameWords(old, new) ==
  /\ new.kind = old.kind
  /\ old.kind = "node" => new.count >= old.count
  /\ old.kind = "node" /\ old.item # NULL => new.item = old.item
  /\ old.kind = "word" => new.word = old.word

\* A block below the counter in the file is never overwritten, by calls, closes
\* or crashes, until the file is truncated: only what was handed out since the
\* last close is at risk.  (scm_malloc after scm_open with an old counter.)
CommittedStay ==
  [][stored # Junk /\ ~(utilized = Closed /\ utilized' = StateBytes) =>
       \A p \in DOMAIN region :
         p + region[p].bytes <= Pointer(stored) =>
           p \in DOMAIN region' /\ SameWords(region[p], region'[p])]_vars

\* In a file whose tree is whole no call kills the process in p3, however
\* full the file is.  In p23 one does only when the node or the word it is about
\* to store lies behind the end of the file though scm_malloc found room for it:
\* no walk and no rotation, of either, meets a wild pointer or goes on for ever.
CallsSurvive ==
  [][(pc # "idle" /\ clean /\ utilized' = Closed /\ crashes' = crashes)
       => layout.stride > 1 /\ Overruns]_vars

Held(w) ==
  LET nodes == {p \in Counted : WordAt(region, p) = w}
  IN IF nodes = {} THEN 0 ELSE region[CHOOSE p \in nodes : TRUE].count

\* What is left for new words: behind what has been handed out, a node that is
\* still without its word not counted, or behind the counter in the file.
BytesLeft ==
  IF utilized # Closed
    THEN layout.capacity - utilized + IF pc = "name" THEN NodeBytes ELSE 0
    ELSE layout.capacity - IF stored = 0 THEN StateBytes ELSE stored

Bag == INSTANCE WordBag WITH
  Needs <- [w \in Words |-> NodeBytes + Letters[w]],
  bag <- IF ~clean THEN <<>>
         ELSE IF utilized = Closed /\ stored = 0 THEN [w \in Words |-> 0]
         ELSE [w \in Words |-> Held(w)],
  free <- BytesLeft,
  size <- layout.capacity - StateBytes,
  up <- utilized # Closed,
  settled <- pc = "back"

\* The word set is the bag of WordBag, across sessions: answers are those of
\* the bag; an insert raises the count of its word by one unless the word is new
\* and the file has not the bytes for a node and the word; and nothing but a
\* crash, a truncation or the end of the file takes a word away.
ImplementsBag == Bag!Spec
=============================================================================
