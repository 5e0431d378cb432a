-------------------------------- MODULE Scm --------------------------------
(***************************************************************************)
(* scm.c of p23 and of p3: a file, mapped into memory, from which blocks   *)
(* are handed out one behind the other and never given back.  The file     *)
(* outlives the process: what is stored in the mapping is in the file at   *)
(* once, but how much has been handed out is a field of the handle, and    *)
(* only scm_close writes it to the file.                                   *)
(*                                                                         *)
(* The two programs differ in the layout of the file.  p23 puts a marker   *)
(* and the counter, as text, in front of the blocks and adds the counter   *)
(* to a pointer to size_t, which moves it eight bytes for each byte        *)
(* counted.  p3 puts the blocks first and keeps the counter in the last    *)
(* eight bytes, which the limit of scm_malloc does not leave out.          *)
(*                                                                         *)
(* The file is a whole number of pages, so a store behind it is a fault.   *)
(***************************************************************************)
EXTENDS Integers, Functions

CONSTANTS
  Sizes23, Sizes3,  \* sizes of the files of p23 and of p3
  JunkCounters      \* what a program may read as the counter from bytes that
                    \* a block has overwritten

ASSUME ScmAssumption ==
  Sizes23 \subseteq Nat /\ Sizes3 \subseteq Nat /\ JunkCounters \subseteq Nat

VARIABLES
  layout,    \* which program this is, and the size of its file
  marked,    \* p23: the file begins with the marker
  stored,    \* the counter in the file
  region,    \* the blocks in the file, by address from the start of the file
  utilized   \* scm->utilized, or Closed

scmVars == <<layout, marked, stored, region, utilized>>

Closed == -1
Junk == -1

P23(size) == [base |-> 28, stride |-> 8, counter |-> 8, counterBytes |-> 20,
              marker |-> TRUE, capacity |-> size]
P3(size) == [base |-> 0, stride |-> 1, counter |-> size - 8, counterBytes |-> 8,
             marker |-> FALSE, capacity |-> size]
Layouts == {P23(n) : n \in Sizes23} \cup {P3(n) : n \in Sizes3}

\* The address of the block that the counter u leads to.
Pointer(u) == layout.base + layout.stride * u

\* The bytes p .. p+n-1 and q .. q+m-1 have none in common.
Apart(p, n, q, m) == p + n <= q \/ q + m <= p

\* Storing to n bytes at p: the blocks there are no longer what they were.
Untouched(p, n) == {q \in DOMAIN region : Apart(q, region[q].bytes, p, n)}
OnCounter(p, n) == ~Apart(p, n, layout.counter, layout.counterBytes)

ScmInit ==
  /\ layout \in Layouts
  /\ marked = FALSE
  /\ stored = 0
  /\ region = <<>>
  /\ utilized = Closed

\* scm_open of p23 refuses a file without the marker.
MayOpen(truncate) == utilized = Closed /\ (layout.marker => marked \/ truncate)

\* Slip: the last digit of the counter is cut off.
CountersCut(truncate) ==
  IF truncate THEN {0} ELSE IF stored = Junk THEN JunkCounters ELSE {stored \div 10}

\* The counter the handle starts with.
Counters(truncate) ==
  IF truncate THEN {0} ELSE IF stored = Junk THEN JunkCounters ELSE {stored}

\* p23 writes marker and counter when it truncates, p3 writes nothing.
OpenFile(truncate) ==
  IF layout.marker /\ truncate
    THEN marked' = TRUE /\ stored' = 0
    ELSE UNCHANGED <<marked, stored>>

\* Slip: the limit is looked at before n is added.
RoomBefore(n) == n > 0 /\ utilized <= layout.capacity

\* scm_malloc(n) finds room, and all n bytes at the pointer are in the file.
Room(n) == utilized + n <= layout.capacity
Inside(n) == Pointer(utilized) + n <= layout.capacity

\* The blocks after b has been allocated and written.
Allocated(b) ==
  [q \in Untouched(Pointer(utilized), b.bytes) \cup {Pointer(utilized)} |->
     IF q = Pointer(utilized) THEN b ELSE region[q]]

scm_malloc(n) ==
  /\ Room(n)
  /\ Inside(n)
  /\ utilized' = utilized + n
  /\ stored' = IF OnCounter(Pointer(utilized), n) THEN Junk ELSE stored

scm_close ==
  /\ stored' = utilized
  /\ region' = Restrict(region, Untouched(layout.counter, layout.counterBytes))
  /\ utilized' = Closed
  /\ UNCHANGED <<layout, marked>>

\* The process ends without scm_close.
Killed == utilized' = Closed /\ UNCHANGED <<layout, marked, stored, region>>
=============================================================================
