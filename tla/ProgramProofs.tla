--------------------------- MODULE ProgramProofs ---------------------------
(***************************************************************************)
(* Theorems about the programs p1 and p5.  Of p1, for arguments of any     *)
(* length and any number of runs and kills: what the parser returns is     *)
(* what the grammar says, a run prints the value of its own argument and   *)
(* leaves no file of its own.  Of p5, for every width of an unsigned and   *)
(* every bound on counters and files: which share is printed, and that no  *)
(* monitor comes to be unable to open /proc/stat.                          *)
(***************************************************************************)
EXTENDS Jit, Monitor, ModArith, FiniteSetTheorems, SequenceTheorems

-----------------------------------------------------------------------------
(* p1: the sets of the grammar, and the depth of parentheses.              *)

Starters == Literals \cup {"+", "-", "("}
Enders == Literals \cup {")"}
Signs == {"+", "-", "*", "/"}

\* The levels, operators and lexemes, element by element.
LEMMA Sets ==
  /\ Levels = {"sum", "product"}
  /\ Operators["sum"] = {"+", "-"} /\ Operators["product"] = {"*", "/"}
  /\ Operand["sum"] = "product" /\ Operand["product"] = "unary"
  /\ Starters = {"num", "fine", "tiny", "inf", "+", "-", "("}
  /\ Enders = {"num", "fine", "tiny", "inf", ")"}
  /\ Literals = {"num", "fine", "tiny", "inf"}
  BY DEF Levels, Operators, Operand, Starters, Enders, Literals

\* How often x occurs in s from a up to before k.
Count(s, x, a, k) == Cardinality({m \in a .. k - 1 : s[m] = x})

\* Such a count is a number.
LEMMA CountFinite ==
  ASSUME NEW s, NEW x, NEW a \in Int, NEW k \in Int
  PROVE  /\ IsFiniteSet({m \in a .. k - 1 : s[m] = x})
         /\ Count(s, x, a, k) \in Nat
<1>1. IsFiniteSet(a .. k - 1)
  <2>1. k - 1 \in Int
    OBVIOUS
  <2> QED BY <2>1, FS_Interval
<1>2. {m \in a .. k - 1 : s[m] = x} \in SUBSET (a .. k - 1)
  OBVIOUS
<1>3. IsFiniteSet({m \in a .. k - 1 : s[m] = x})
  BY <1>1, <1>2, FS_Subset
<1> QED BY <1>3, FS_CardinalityType DEF Count

\* Nothing occurs in an empty stretch.
LEMMA CountEmpty ==
  ASSUME NEW s, NEW x, NEW a \in Int, NEW k \in Int, k <= a
  PROVE  Count(s, x, a, k) = 0
<1>1. {m \in a .. k - 1 : s[m] = x} = {}
  OBVIOUS
<1> QED BY <1>1, FS_EmptySet DEF Count

\* One more token.
LEMMA CountStep ==
  ASSUME NEW s, NEW x, NEW a \in Int, NEW k \in Int, a <= k
  PROVE  Count(s, x, a, k + 1) = Count(s, x, a, k) + (IF s[k] = x THEN 1 ELSE 0)
<1> DEFINE S == {m \in a .. k - 1 : s[m] = x}
           U == {m \in a .. k + 1 - 1 : s[m] = x}
<1>1. IsFiniteSet(S) /\ Cardinality(S) \in Nat
  BY CountFinite DEF Count
<1>2. CASE s[k] = x
  <2>1. U = S \cup {k}
    BY <1>2
  <2>2. k \notin S
    OBVIOUS
  <2> HIDE DEF S, U
  <2>3. Cardinality(U) = Cardinality(S) + 1
    BY <1>1, <2>1, <2>2, FS_AddElement
  <2> QED BY <1>2, <2>3 DEF Count, S, U
<1>3. CASE s[k] # x
  <2>1. U = S
    BY <1>3
  <2>2. Cardinality(U) = Cardinality(S) + 0
    BY <1>1, <2>1
  <2> QED BY <1>3, <2>2 DEF Count
<1> QED BY <1>2, <1>3

\* Two stretches, one after the other.
LEMMA CountAdd ==
  ASSUME NEW s, NEW x, NEW a \in Int, NEW j \in Int, NEW k \in Int, a <= j, j <= k
  PROVE  Count(s, x, a, k) = Count(s, x, a, j) + Count(s, x, j, k)
<1> DEFINE S == {m \in a .. j - 1 : s[m] = x}
           T == {m \in j .. k - 1 : s[m] = x}
           U == {m \in a .. k - 1 : s[m] = x}
<1>1. IsFiniteSet(S) /\ Cardinality(S) \in Nat /\ IsFiniteSet(T) /\ Cardinality(T) \in Nat
  <2>1. IsFiniteSet(S) /\ Count(s, x, a, j) \in Nat
    BY CountFinite
  <2>2. IsFiniteSet(T) /\ Count(s, x, j, k) \in Nat
    BY CountFinite
  <2> QED BY <2>1, <2>2 DEF Count
<1>2. U = S \cup T /\ S \cap T = {}
  OBVIOUS
<1> HIDE DEF S, T, U
<1>3. Cardinality(U) = Cardinality(S) + Cardinality(T) - Cardinality({})
  BY <1>1, <1>2, FS_Union
<1>4. Cardinality(U) = Cardinality(S) + Cardinality(T)
  BY <1>1, <1>3, FS_EmptySet
<1> QED BY <1>4 DEF Count, S, T, U

\* What a token adds to the depth.
Deeper(x) == IF x = "(" THEN 1 ELSE IF x = ")" THEN -1 ELSE 0

\* The depth, told by the counts of the parentheses.
LEMMA DepthIs ==
  ASSUME NEW s, NEW a \in Int, NEW k \in Int
  PROVE  /\ Depth(s, a, k) = Count(s, "(", a, k) - Count(s, ")", a, k)
         /\ Depth(s, a, k) \in Int
<1>1. Depth(s, a, k) = Count(s, "(", a, k) - Count(s, ")", a, k)
  BY DEF Depth, Count
<1>2. Count(s, "(", a, k) \in Nat /\ Count(s, ")", a, k) \in Nat
  BY CountFinite
<1> QED BY <1>1, <1>2

\* The depth of an empty stretch.
LEMMA DepthEmpty ==
  ASSUME NEW s, NEW a \in Int
  PROVE  Depth(s, a, a) = 0
<1>1. Count(s, "(", a, a) = 0 /\ Count(s, ")", a, a) = 0
  BY CountEmpty
<1> QED BY <1>1, DepthIs

\* One more token.
LEMMA DepthStep ==
  ASSUME NEW s, NEW a \in Int, NEW k \in Int, a <= k
  PROVE  Depth(s, a, k + 1) = Depth(s, a, k) + Deeper(s[k])
<1> DEFINE p == Count(s, "(", a, k)
           q == Count(s, ")", a, k)
<1>1. p \in Nat /\ q \in Nat
  BY CountFinite
<1>2. /\ Count(s, "(", a, k + 1) = p + (IF s[k] = "(" THEN 1 ELSE 0)
      /\ Count(s, ")", a, k + 1) = q + (IF s[k] = ")" THEN 1 ELSE 0)
  BY CountStep
<1>3. Depth(s, a, k + 1) = Count(s, "(", a, k + 1) - Count(s, ")", a, k + 1)
  <2>1. k + 1 \in Int
    OBVIOUS
  <2> QED BY <2>1, DepthIs
<1>4. Depth(s, a, k) = p - q
  BY DepthIs
<1> HIDE DEF p, q
<1> QED BY <1>1, <1>2, <1>3, <1>4 DEF Deeper

\* Two stretches, one after the other.
LEMMA DepthAdd ==
  ASSUME NEW s, NEW a \in Int, NEW j \in Int, NEW k \in Int, a <= j, j <= k
  PROVE  Depth(s, a, k) = Depth(s, a, j) + Depth(s, j, k)
<1>1. /\ Count(s, "(", a, k) = Count(s, "(", a, j) + Count(s, "(", j, k)
      /\ Count(s, ")", a, k) = Count(s, ")", a, j) + Count(s, ")", j, k)
  BY CountAdd
<1>2. /\ Count(s, "(", a, j) \in Nat /\ Count(s, "(", j, k) \in Nat
      /\ Count(s, ")", a, j) \in Nat /\ Count(s, ")", j, k) \in Nat
  BY CountFinite
<1>3. /\ Depth(s, a, k) = Count(s, "(", a, k) - Count(s, ")", a, k)
      /\ Depth(s, a, j) = Count(s, "(", a, j) - Count(s, ")", a, j)
      /\ Depth(s, j, k) = Count(s, "(", j, k) - Count(s, ")", j, k)
  BY DepthIs
<1> QED BY <1>1, <1>2, <1>3

\* The depth from one token further on.
LEMMA DepthFirst ==
  ASSUME NEW s, NEW a \in Int, NEW k \in Int, a < k
  PROVE  Depth(s, a, k) = Deeper(s[a]) + Depth(s, a + 1, k)
<1>1. PICK b \in Int : b = a + 1
  OBVIOUS
<1>2. Depth(s, a, b) = Deeper(s[a])
  <2>1. Depth(s, a, a + 1) = Depth(s, a, a) + Deeper(s[a])
    BY DepthStep
  <2>2. Depth(s, a, a) = 0 /\ Deeper(s[a]) \in Int
    BY DepthEmpty DEF Deeper
  <2> QED BY <1>1, <2>1, <2>2
<1>3. Depth(s, a, k) = Depth(s, a, b) + Depth(s, b, k)
  BY <1>1, DepthAdd
<1> QED BY <1>1, <1>2, <1>3

-----------------------------------------------------------------------------
(* Meaning, range by range.                                                *)

Ranges(s) == (Levels \cup {"unary"}) \X (1 .. Len(s) + 1) \X (0 .. Len(s))
LastOf(ops) == CHOOSE m \in ops : \A other \in ops : other <= m

MeaningStep(worth, f, s, x) ==
  IF x[2] > x[3] THEN Invalid
  ELSE IF x[1] # "unary" THEN
    IF Binary(s, x[1], x[2], x[3]) = {} THEN f[<<Operand[x[1]], x[2], x[3]>>]
    ELSE Term(s[LastOf(Binary(s, x[1], x[2], x[3]))],
              <<f[<<x[1], x[2], LastOf(Binary(s, x[1], x[2], x[3])) - 1>>],
                f[<<Operand[x[1]], LastOf(Binary(s, x[1], x[2], x[3])) + 1, x[3]>>]>>)
  ELSE IF s[x[2]] = "+" THEN f[<<"unary", x[2] + 1, x[3]>>]
  ELSE IF s[x[2]] = "-" THEN Term("neg", <<f[<<"unary", x[2] + 1, x[3]>>]>>)
  ELSE IF s[x[2]] = "(" /\ s[x[3]] = ")" THEN f[<<"sum", x[2] + 1, x[3] - 1>>]
  ELSE IF s[x[2]] \in Literals /\ x[2] = x[3] THEN <<"val", worth[x[2]]>>
  ELSE Invalid

Means(worth, f, s) == f = [x \in Ranges(s) |-> MeaningStep(worth, f, s, x)]
Terms(worth, s) == CHOOSE f : Means(worth, f, s)

\* The recursive function in Meaning is Terms.
LEMMA MeaningIs ==
  ASSUME NEW worth, NEW s
  PROVE  Meaning(s, worth) = Terms(worth, s)[<<"sum", 1, Len(s)>>]
  BY DEF Meaning, Terms, Means, MeaningStep, Ranges, LastOf

\* A set of positions that is not empty has a last one.
LEMMA LastIs ==
  ASSUME NEW a \in Int, NEW b \in Int, NEW ops, ops \subseteq a .. b, ops # {}
  PROVE  LastOf(ops) \in ops /\ \A other \in ops : other <= LastOf(ops)
<1> DEFINE S == {k \in Nat : b - k \in ops}
<1>1. S \subseteq Nat
  OBVIOUS
<1>2. S # {}
  <2>1. PICK m \in ops : TRUE
    OBVIOUS
  <2>2. m \in Int /\ b - m \in Nat /\ b - (b - m) = m
    BY <2>1
  <2> QED BY <2>1, <2>2
<1>3. PICK k \in S : \A j \in S : k <= j
  <2> HIDE DEF S
  <2> QED BY <1>1, <1>2, LeastNatural
<1>4. b - k \in ops /\ k \in Nat
  OBVIOUS
<1>5. ASSUME NEW other \in ops PROVE other <= b - k
  <2>1. other \in Int /\ b - other \in Nat /\ b - (b - other) = other
    OBVIOUS
  <2>2. b - other \in S
    BY <2>1
  <2>3. k <= b - other
    BY <1>3, <2>2
  <2> QED BY <1>4, <2>1, <2>3
<1>6. \E m \in ops : \A other \in ops : other <= m
  BY <1>4, <1>5
<1> QED BY <1>6 DEF LastOf

\* It is the only one.
LEMMA LastUnique ==
  ASSUME NEW a \in Int, NEW b \in Int, NEW ops, ops \subseteq a .. b,
         NEW k \in ops, \A other \in ops : other <= k
  PROVE  LastOf(ops) = k
<1>1. LastOf(ops) \in ops /\ \A other \in ops : other <= LastOf(ops)
  BY LastIs
<1>2. LastOf(ops) <= k /\ k <= LastOf(ops)
  BY <1>1
<1>3. PICK m : m = LastOf(ops)
  OBVIOUS
<1>4. m \in Int /\ k \in Int
  <2>1. m \in ops
    BY <1>1, <1>3
  <2> QED BY <2>1
<1> QED BY <1>2, <1>3, <1>4

\* The recursion goes to shorter ranges, or down a level.
Rank(level) == IF level = "sum" THEN 2 ELSE IF level = "product" THEN 1 ELSE 0
Size(x) == IF x[2] > x[3] THEN 0 ELSE 3 * (x[3] - x[2] + 1) + Rank(x[1])

\* The parts of a range.
LEMMA RangeIs ==
  ASSUME NEW s \in Seq(Lexemes), NEW x \in Ranges(s)
  PROVE  /\ x = <<x[1], x[2], x[3]>>
         /\ x[1] \in {"sum", "product", "unary"}
         /\ x[2] \in 1 .. Len(s) + 1 /\ x[3] \in 0 .. Len(s) /\ Len(s) \in Nat
  BY Sets DEF Ranges

\* Parts that make a range, and its size.
LEMMA IsRange ==
  ASSUME NEW s \in Seq(Lexemes), NEW l \in {"sum", "product", "unary"},
         NEW a \in 1 .. Len(s) + 1, NEW b \in 0 .. Len(s)
  PROVE  /\ <<l, a, b>> \in Ranges(s)
         /\ Size(<<l, a, b>>) \in Nat
         /\ Size(<<l, a, b>>) = IF a > b THEN 0 ELSE 3 * (b - a + 1) + Rank(l)
  BY Sets DEF Ranges, Size, Rank

\* A binary operator has an operand before it.
LEMMA BinaryIn ==
  ASSUME NEW s, NEW l, NEW a \in Int, NEW b \in Int
  PROVE  Binary(s, l, a, b) \subseteq a + 1 .. b
  BY DEF Binary

\* The meaning of a range needs those of smaller ranges only.
LEMMA StepLocal ==
  ASSUME NEW worth, NEW s \in Seq(Lexemes), NEW f, NEW g, NEW x \in Ranges(s),
         \A y \in Ranges(s) : Size(y) < Size(x) => f[y] = g[y]
  PROVE  MeaningStep(worth, f, s, x) = MeaningStep(worth, g, s, x)
<1>1. PICK l, a, b : l = x[1] /\ a = x[2] /\ b = x[3]
  OBVIOUS
<1>2. /\ x = <<l, a, b>> /\ l \in {"sum", "product", "unary"}
      /\ a \in 1 .. Len(s) + 1 /\ b \in 0 .. Len(s) /\ Len(s) \in Nat
  BY <1>1, RangeIs
<1>3. CASE a > b
  BY <1>1, <1>3 DEF MeaningStep
<1>4. CASE a <= b
  <2>0. Size(x) = 3 * (b - a + 1) + Rank(l) /\ ~(a > b)
    BY <1>2, <1>4, IsRange
  <2>1. \A m \in {"sum", "product", "unary"}, c \in 1 .. Len(s) + 1, d \in 0 .. Len(s) :
          \/ a <= c /\ d <= b /\ d - c < b - a
          \/ c = a /\ d = b /\ Rank(m) < Rank(l)
          => f[<<m, c, d>>] = g[<<m, c, d>>]
    <3> TAKE m \in {"sum", "product", "unary"}, c \in 1 .. Len(s) + 1, d \in 0 .. Len(s)
    <3> HAVE \/ a <= c /\ d <= b /\ d - c < b - a
             \/ c = a /\ d = b /\ Rank(m) < Rank(l)
    <3>1. <<m, c, d>> \in Ranges(s)
          /\ Size(<<m, c, d>>) = IF c > d THEN 0 ELSE 3 * (d - c + 1) + Rank(m)
      BY IsRange
    <3>2. Rank(m) \in 0 .. 2 /\ Rank(l) \in 0 .. 2
      BY DEF Rank
    <3>3. Size(<<m, c, d>>) < Size(x)
      BY <1>2, <1>4, <2>0, <3>1, <3>2
    <3> QED BY <3>1, <3>3
  <2>2. CASE l # "unary"
    <3>1. Operand[l] \in {"sum", "product", "unary"} /\ Rank(Operand[l]) < Rank(l)
      BY <1>2, <2>2, Sets DEF Rank
    <3>2. CASE Binary(s, l, a, b) = {}
      <4>1. f[<<Operand[l], a, b>>] = g[<<Operand[l], a, b>>]
        BY <1>2, <2>1, <3>1
      <4> QED BY <1>1, <2>0, <2>2, <3>2, <4>1 DEF MeaningStep
    <3>3. CASE Binary(s, l, a, b) # {}
      <4>1. PICK k : k = LastOf(Binary(s, l, a, b))
        OBVIOUS
      <4>2. k \in a + 1 .. b
        <5>1. Binary(s, l, a, b) \subseteq a + 1 .. b /\ a + 1 \in Int /\ b \in Int
          BY <1>2, BinaryIn
        <5> QED BY <3>3, <4>1, <5>1, LastIs
      <4>3. f[<<l, a, k - 1>>] = g[<<l, a, k - 1>>]
        BY <1>2, <2>1, <4>2
      <4>4. f[<<Operand[l], k + 1, b>>] = g[<<Operand[l], k + 1, b>>]
        BY <1>2, <2>1, <3>1, <4>2
      <4> QED BY <1>1, <2>0, <2>2, <3>3, <4>1, <4>3, <4>4 DEF MeaningStep
    <3> QED BY <3>2, <3>3
  <2>3. CASE l = "unary"
    <3>1. f[<<"unary", a + 1, b>>] = g[<<"unary", a + 1, b>>]
      <4>1. a + 1 \in 1 .. Len(s) + 1 /\ a <= a + 1 /\ b <= b /\ b - (a + 1) < b - a
        BY <1>2, <1>4
      <4> QED BY <1>2, <2>1, <4>1
    <3>2. f[<<"sum", a + 1, b - 1>>] = g[<<"sum", a + 1, b - 1>>]
      <4>1. /\ a + 1 \in 1 .. Len(s) + 1 /\ b - 1 \in 0 .. Len(s)
            /\ a <= a + 1 /\ b - 1 <= b /\ (b - 1) - (a + 1) < b - a
        BY <1>2, <1>4
      <4> QED BY <2>1, <4>1
    <3> QED BY <1>1, <2>0, <2>3, <3>1, <3>2 DEF MeaningStep
  <2> QED BY <2>2, <2>3
<1> QED BY <1>2, <1>3, <1>4

\* So there is a function that solves the equations up to any size.
LEMMA MeansUpTo ==
  ASSUME NEW worth, NEW s \in Seq(Lexemes), NEW m \in Nat
  PROVE  \E f : \A x \in Ranges(s) : Size(x) < m => f[x] = MeaningStep(worth, f, s, x)
<1> DEFINE P(f, n) == \A x \in Ranges(s) : Size(x) < n => f[x] = MeaningStep(worth, f, s, x)
           Bad == {n \in Nat : ~\E f : P(f, n)}
<1>0. \A x \in Ranges(s) : Size(x) \in Nat
  <2> TAKE x \in Ranges(s)
  <2>1. /\ x = <<x[1], x[2], x[3]>> /\ x[1] \in {"sum", "product", "unary"}
        /\ x[2] \in 1 .. Len(s) + 1 /\ x[3] \in 0 .. Len(s)
    BY RangeIs
  <2>2. Size(<<x[1], x[2], x[3]>>) \in Nat
    BY <2>1, IsRange
  <2> QED BY <2>1, <2>2
<1>1. SUFFICES ASSUME Bad # {} PROVE FALSE
  OBVIOUS
<1>2. PICK n \in Bad : \A j \in Bad : n <= j
  <2>1. Bad \subseteq Nat
    OBVIOUS
  <2> HIDE DEF Bad
  <2> QED BY <1>1, <2>1, LeastNatural
<1>3. n \in Nat /\ ~\E f : P(f, n)
  OBVIOUS
<1>4. n # 0
  <2>1. P(<<>>, 0)
    BY <1>0
  <2> QED BY <1>3, <2>1
<1>5. n - 1 \in Nat /\ n - 1 \notin Bad
  BY <1>2, <1>3, <1>4
<1>6. PICK f : P(f, n - 1)
  BY <1>5
<1> DEFINE g == [x \in Ranges(s) |-> IF Size(x) < n - 1 THEN f[x] ELSE MeaningStep(worth, f, s, x)]
<1>7. \A x \in Ranges(s) : Size(x) < n - 1 => f[x] = g[x]
  OBVIOUS
<1>8. ASSUME NEW x \in Ranges(s), Size(x) < n PROVE g[x] = MeaningStep(worth, g, s, x)
  <2>1. g[x] = MeaningStep(worth, f, s, x)
    BY <1>6
  <2>2. \A y \in Ranges(s) : Size(y) < Size(x) => f[y] = g[y]
    <3>1. \A y \in Ranges(s) : Size(y) < Size(x) => Size(y) < n - 1
      BY <1>0, <1>3, <1>8
    <3> QED BY <1>7, <3>1
  <2> HIDE DEF g
  <2>3. MeaningStep(worth, f, s, x) = MeaningStep(worth, g, s, x)
    BY <2>2, StepLocal
  <2> QED BY <2>1, <2>3
<1>9. P(g, n)
  BY <1>8
<1> QED BY <1>3, <1>9

\* The recursion of Meaning is well founded: its equations have a solution.
LEMMA TermsMean ==
  ASSUME NEW worth, NEW s \in Seq(Lexemes)
  PROVE  Means(worth, Terms(worth, s), s)
<1>1. PICK m \in Nat : m = 3 * Len(s) + 3
  OBVIOUS
<1>2. \A x \in Ranges(s) : Size(x) < m
  <2> TAKE x \in Ranges(s)
  <2>1. /\ x = <<x[1], x[2], x[3]>> /\ x[1] \in {"sum", "product", "unary"}
        /\ x[2] \in 1 .. Len(s) + 1 /\ x[3] \in 0 .. Len(s) /\ Len(s) \in Nat
    BY RangeIs
  <2>2. Size(<<x[1], x[2], x[3]>>) < m
    <3>1. \A l \in {"sum", "product", "unary"}, a \in 1 .. Len(s) + 1, b \in 0 .. Len(s) :
            Size(<<l, a, b>>) = IF a > b THEN 0 ELSE 3 * (b - a + 1) + Rank(l)
      BY IsRange
    <3>2. \A l \in {"sum", "product", "unary"} : Rank(l) \in 0 .. 2
      BY DEF Rank
    <3> QED BY <1>1, <2>1, <3>1, <3>2
  <2> QED BY <2>1, <2>2
<1>3. PICK f : \A x \in Ranges(s) : Size(x) < m => f[x] = MeaningStep(worth, f, s, x)
  BY MeansUpTo
<1>4. \A x \in Ranges(s) : f[x] = MeaningStep(worth, f, s, x)
  BY <1>2, <1>3
<1> DEFINE g == [x \in Ranges(s) |-> f[x]]
<1>5. ASSUME NEW x \in Ranges(s) PROVE g[x] = MeaningStep(worth, g, s, x)
  <2>1. \A y \in Ranges(s) : Size(y) < Size(x) => f[y] = g[y]
    OBVIOUS
  <2>2. g[x] = MeaningStep(worth, f, s, x)
    BY <1>4
  <2> HIDE DEF g
  <2> QED BY <2>1, <2>2, StepLocal
<1>6. g = [x \in Ranges(s) |-> MeaningStep(worth, g, s, x)]
  BY <1>5
<1>7. Means(worth, g, s)
  BY <1>6 DEF Means
<1> QED BY <1>7 DEF Terms

\* The term of a binary operator.
LEMMA TermTwo ==
  ASSUME NEW op, NEW x, NEW y
  PROVE  /\ Term(op, <<x, y>>) = IF x = Invalid \/ y = Invalid THEN Invalid ELSE <<op, x, y>>
         /\ <<op, x, y>> # Invalid
<1>1. Range(<<x, y>>) = {x, y}
  <2>1. DOMAIN <<x, y>> = {1, 2}
    OBVIOUS
  <2>2. <<x, y>>[1] = x /\ <<x, y>>[2] = y
    OBVIOUS
  <2> QED BY <2>1, <2>2 DEF Range
<1>2. <<op>> \o <<x, y>> = <<op, x, y>>
  <2> DEFINE S == {op, x, y}
             p == <<op>>
             q == <<x, y>>
             r == <<op, x, y>>
  <2>1. /\ p \in Seq(S) /\ q \in Seq(S) /\ r \in Seq(S)
        /\ Len(p) = 1 /\ Len(q) = 2 /\ Len(r) = 3 /\ p[1] = op
        /\ q[1] = x /\ q[2] = y /\ r[1] = op /\ r[2] = x /\ r[3] = y
    OBVIOUS
  <2> HIDE DEF S, p, q, r
  <2>2. /\ p \o q \in Seq(S) /\ Len(p \o q) = 3
        /\ \A k \in 1 .. 3 : (p \o q)[k] = IF k <= 1 THEN p[k] ELSE q[k - 1]
    <3>1. /\ p \o q \in Seq(S) /\ Len(p \o q) = Len(p) + Len(q)
          /\ \A k \in 1 .. Len(p) + Len(q) :
               (p \o q)[k] = IF k <= Len(p) THEN p[k] ELSE q[k - Len(p)]
      BY <2>1, ConcatProperties
    <3>2. Len(p) + Len(q) = 3
      BY <2>1
    <3> QED BY <2>1, <3>1, <3>2
  <2>3. \A k \in 1 .. 3 : (p \o q)[k] = r[k]
    BY <2>1, <2>2
  <2>4. p \o q = r
    BY <2>1, <2>2, <2>3, SeqEqual
  <2> QED BY <2>4 DEF p, q, r
<1>3. <<op, x, y>> # Invalid
  <2>1. Len(<<op, x, y>>) = 3 /\ Len(<<"invalid">>) = 1
    OBVIOUS
  <2> QED BY <2>1 DEF Invalid
<1> QED BY <1>1, <1>2, <1>3 DEF Term

\* The term of a sign.
LEMMA TermNeg ==
  ASSUME NEW op, NEW x
  PROVE  /\ Term(op, <<x>>) = IF x = Invalid THEN Invalid ELSE <<op, x>>
         /\ <<op, x>> # Invalid
<1>1. Range(<<x>>) = {x}
  <2>1. DOMAIN <<x>> = {1}
    OBVIOUS
  <2>2. <<x>>[1] = x
    OBVIOUS
  <2> QED BY <2>1, <2>2 DEF Range
<1>2. <<op>> \o <<x>> = <<op, x>>
  <2> DEFINE S == {op, x}
             p == <<op>>
             q == <<x>>
             r == <<op, x>>
  <2>1. /\ p \in Seq(S) /\ q \in Seq(S) /\ r \in Seq(S)
        /\ Len(p) = 1 /\ Len(q) = 1 /\ Len(r) = 2 /\ p[1] = op
        /\ q[1] = x /\ r[1] = op /\ r[2] = x
    OBVIOUS
  <2> HIDE DEF S, p, q, r
  <2>2. /\ p \o q \in Seq(S) /\ Len(p \o q) = 2
        /\ \A k \in 1 .. 2 : (p \o q)[k] = IF k <= 1 THEN p[k] ELSE q[k - 1]
    BY <2>1, ConcatProperties
  <2>3. \A k \in 1 .. 2 : (p \o q)[k] = r[k]
    BY <2>1, <2>2
  <2>4. p \o q = r
    BY <2>1, <2>2, <2>3, SeqEqual
  <2> QED BY <2>4 DEF p, q, r
<1>3. <<op, x>> # Invalid
  <2>1. Len(<<op, x>>) = 2 /\ Len(<<"invalid">>) = 1
    OBVIOUS
  <2> QED BY <2>1 DEF Invalid
<1> QED BY <1>1, <1>2, <1>3 DEF Term

\* The term of a range of tokens, as a phrase of a level.
Sense(worth, s, l, a, b) == Terms(worth, s)[<<l, a, b>>]

\* The equations of Meaning, read off a range of tokens.
LEMMA SenseIs ==
  ASSUME NEW worth, NEW s \in Seq(Lexemes), NEW l \in {"sum", "product", "unary"},
         NEW a \in 1 .. Len(s) + 1, NEW b \in 0 .. Len(s)
  PROVE  Sense(worth, s, l, a, b) = MeaningStep(worth, Terms(worth, s), s, <<l, a, b>>)
<1>1. Terms(worth, s) = [x \in Ranges(s) |-> MeaningStep(worth, Terms(worth, s), s, x)]
  BY TermsMean DEF Means
<1>2. <<l, a, b>> \in Ranges(s)
  BY IsRange
<1>3. \A x \in Ranges(s) : Terms(worth, s)[x] = MeaningStep(worth, Terms(worth, s), s, x)
  BY ONLY <1>1
<1> QED BY <1>2, <1>3 DEF Sense

\* No tokens have no meaning.
LEMMA SenseEmpty ==
  ASSUME NEW worth, NEW s \in Seq(Lexemes), NEW l \in {"sum", "product", "unary"},
         NEW a \in 1 .. Len(s) + 1, NEW b \in 0 .. Len(s), a > b
  PROVE  Sense(worth, s, l, a, b) = Invalid
<1>1. Sense(worth, s, l, a, b) = MeaningStep(worth, Terms(worth, s), s, <<l, a, b>>)
  BY SenseIs
<1> QED BY <1>1 DEF MeaningStep

\* Without a binary operator of the level, the phrase is one of the next.
LEMMA SenseDown ==
  ASSUME NEW worth, NEW s \in Seq(Lexemes), NEW l \in {"sum", "product"},
         NEW a \in 1 .. Len(s) + 1, NEW b \in 0 .. Len(s), a <= b,
         Binary(s, l, a, b) = {}
  PROVE  Sense(worth, s, l, a, b) = Sense(worth, s, Operand[l], a, b)
<1>1. Sense(worth, s, l, a, b) = MeaningStep(worth, Terms(worth, s), s, <<l, a, b>>)
  BY SenseIs
<1>2. ~(a > b) /\ l # "unary"
  OBVIOUS
<1> QED BY <1>1, <1>2 DEF MeaningStep, Sense

\* With one, the last of them is the root.
LEMMA SenseBinary ==
  ASSUME NEW worth, NEW s \in Seq(Lexemes), NEW l \in {"sum", "product"},
         NEW a \in 1 .. Len(s) + 1, NEW b \in 0 .. Len(s), a <= b,
         NEW k \in Binary(s, l, a, b), \A other \in Binary(s, l, a, b) : other <= k
  PROVE  Sense(worth, s, l, a, b) = Term(s[k], <<Sense(worth, s, l, a, k - 1), Sense(worth, s, Operand[l], k + 1, b)>>)
<1>1. Sense(worth, s, l, a, b) = MeaningStep(worth, Terms(worth, s), s, <<l, a, b>>)
  BY SenseIs
<1>2. ~(a > b) /\ l # "unary" /\ Binary(s, l, a, b) # {}
  OBVIOUS
<1>3. LastOf(Binary(s, l, a, b)) = k
  <2>1. Binary(s, l, a, b) \subseteq a + 1 .. b /\ a + 1 \in Int /\ b \in Int
    BY BinaryIn
  <2> QED BY <2>1, LastUnique
<1> QED BY <1>1, <1>2, <1>3 DEF MeaningStep, Sense

\* A sign, parentheses or a literal.
LEMMA SenseUnary ==
  ASSUME NEW worth, NEW s \in Seq(Lexemes), NEW a \in 1 .. Len(s) + 1, NEW b \in 0 .. Len(s), a <= b
  PROVE  Sense(worth, s, "unary", a, b) =
           IF s[a] = "+" THEN Sense(worth, s, "unary", a + 1, b)
           ELSE IF s[a] = "-" THEN Term("neg", <<Sense(worth, s, "unary", a + 1, b)>>)
           ELSE IF s[a] = "(" /\ s[b] = ")" THEN Sense(worth, s, "sum", a + 1, b - 1)
           ELSE IF s[a] \in Literals /\ a = b THEN <<"val", worth[a]>>
           ELSE Invalid
<1>1. Sense(worth, s, "unary", a, b) = MeaningStep(worth, Terms(worth, s), s, <<"unary", a, b>>)
  BY SenseIs
<1>2. ~(a > b)
  OBVIOUS
<1> QED BY <1>1, <1>2 DEF MeaningStep, Sense

-----------------------------------------------------------------------------
(* What every phrase looks like, token by token.                           *)

Adjacent(s, k) ==
  IF s[k] \in Enders THEN s[k + 1] \in Signs \cup {")"} ELSE s[k + 1] \in Starters

Well(s, a, b) ==
  /\ a <= b /\ s[a] \in Starters /\ s[b] \in Enders
  /\ \A k \in a .. b - 1 : Adjacent(s, k)
  /\ \A k \in a .. b : Depth(s, a, k) >= 0
  /\ Depth(s, a, b + 1) = 0

\* A literal is well formed.
LEMMA WellLiteral ==
  ASSUME NEW s, NEW a \in Int, s[a] \in Literals
  PROVE  Well(s, a, a)
<1>1. Depth(s, a, a) = 0
  BY DepthEmpty
<1>2. Depth(s, a, a + 1) = 0
  <2>1. Depth(s, a, a + 1) = Depth(s, a, a) + Deeper(s[a])
    BY DepthStep
  <2>2. Deeper(s[a]) = 0
    BY DEF Deeper, Literals
  <2> QED BY <1>1, <2>1, <2>2
<1>3. \A k \in a .. a : Depth(s, a, k) >= 0
  <2>1. \A k \in a .. a : k = a
    OBVIOUS
  <2> QED BY <1>1, <2>1
<1>4. s[a] \in Starters /\ s[a] \in Enders
  BY DEF Starters, Enders
<1>5. \A k \in a .. a - 1 : Adjacent(s, k)
  OBVIOUS
<1> QED BY <1>2, <1>3, <1>4, <1>5 DEF Well

\* A sign before what is well formed.
LEMMA WellSign ==
  ASSUME NEW s, NEW a \in Int, NEW b \in Int, Well(s, a + 1, b), s[a] \in {"+", "-"}
  PROVE  Well(s, a, b)
<1>1. /\ a + 1 <= b /\ s[a + 1] \in Starters /\ s[b] \in Enders
      /\ \A k \in a + 1 .. b - 1 : Adjacent(s, k)
      /\ \A k \in a + 1 .. b : Depth(s, a + 1, k) >= 0
      /\ Depth(s, a + 1, b + 1) = 0
  BY DEF Well
<1>2. Deeper(s[a]) = 0 /\ s[a] \in Starters /\ s[a] \notin Enders
  BY DEF Deeper, Starters, Enders, Literals
<1>3. Adjacent(s, a)
  BY <1>1, <1>2 DEF Adjacent
<1>4. \A k \in a .. b - 1 : Adjacent(s, k)
  <2>1. \A k \in a .. b - 1 : k = a \/ k \in a + 1 .. b - 1
    OBVIOUS
  <2> QED BY <1>1, <1>3, <2>1
<1>5. ASSUME NEW k \in a + 1 .. b + 1 PROVE Depth(s, a, k) = Depth(s, a + 1, k)
  <2>1. k \in Int /\ a < k /\ a + 1 \in Int
    OBVIOUS
  <2>2. Depth(s, a, k) = Deeper(s[a]) + Depth(s, a + 1, k)
    BY <2>1, DepthFirst
  <2>3. Depth(s, a + 1, k) \in Int
    BY <2>1, DepthIs
  <2> QED BY <1>2, <2>2, <2>3
<1>6. \A k \in a .. b : Depth(s, a, k) >= 0
  <2> TAKE k \in a .. b
  <2>1. CASE k = a
    <3>1. Depth(s, a, a) = 0
      BY DepthEmpty
    <3> QED BY <2>1, <3>1
  <2>2. CASE k # a
    <3>1. k \in a + 1 .. b /\ k \in a + 1 .. b + 1
      BY <2>2
    <3>2. Depth(s, a, k) = Depth(s, a + 1, k)
      BY <1>5, <3>1
    <3> QED BY <1>1, <3>1, <3>2
  <2> QED BY <2>1, <2>2
<1>7. Depth(s, a, b + 1) = 0
  <2>1. b + 1 \in a + 1 .. b + 1
    BY <1>1
  <2>2. Depth(s, a, b + 1) = Depth(s, a + 1, b + 1)
    BY <1>5, <2>1
  <2> QED BY <1>1, <2>2
<1>8. a <= b
  BY <1>1
<1> QED BY <1>1, <1>2, <1>4, <1>6, <1>7, <1>8 DEF Well

\* In parentheses, everything is one deeper.
LEMMA InParentheses ==
  ASSUME NEW s, NEW a \in Int, NEW b \in Int, Well(s, a + 1, b - 1), s[a] = "("
  PROVE  /\ \A k \in a + 1 .. b : Depth(s, a, k) >= 1
         /\ Depth(s, a, b) = 1
<1>1. /\ a + 1 <= b - 1
      /\ \A k \in a + 1 .. b - 1 : Depth(s, a + 1, k) >= 0
      /\ Depth(s, a + 1, b - 1 + 1) = 0
  BY DEF Well
<1>2. Deeper(s[a]) = 1
  BY DEF Deeper
<1>3. ASSUME NEW k \in a + 1 .. b PROVE Depth(s, a, k) = 1 + Depth(s, a + 1, k)
  <2>1. k \in Int /\ a < k /\ a + 1 \in Int
    OBVIOUS
  <2> QED BY <1>2, <2>1, DepthFirst
<1>4. Depth(s, a + 1, b) = 0
  <2>1. b - 1 + 1 = b
    OBVIOUS
  <2> QED BY <1>1, <2>1
<1>5. b \in a + 1 .. b
  BY <1>1
<1>6. Depth(s, a, b) = 1
  BY <1>3, <1>4, <1>5
<1>7. ASSUME NEW k \in a + 1 .. b PROVE Depth(s, a, k) >= 1
  <2>1. CASE k = b
    BY <1>6, <2>1
  <2>2. CASE k # b
    <3>1. k \in a + 1 .. b - 1 /\ a + 1 \in Int /\ k \in Int
      BY <2>2
    <3>2. Depth(s, a + 1, k) >= 0 /\ Depth(s, a + 1, k) \in Int
      BY <1>1, <3>1, DepthIs
    <3> QED BY <1>3, <3>2
  <2> QED BY <2>1, <2>2
<1> QED BY <1>6, <1>7

\* Parentheses around what is well formed.
LEMMA WellParentheses ==
  ASSUME NEW s, NEW a \in Int, NEW b \in Int, Well(s, a + 1, b - 1),
         s[a] = "(", s[b] = ")"
  PROVE  Well(s, a, b)
<1>1. /\ a + 1 <= b - 1 /\ s[a + 1] \in Starters /\ s[b - 1] \in Enders
      /\ \A k \in a + 1 .. b - 1 - 1 : Adjacent(s, k)
  BY DEF Well
<1>2. s[a] \in Starters /\ s[a] \notin Enders /\ s[b] \in Enders /\ s[b] \in Signs \cup {")"}
  BY DEF Starters, Enders, Literals
<1>3. \A k \in a .. b - 1 : Adjacent(s, k)
  <2> TAKE k \in a .. b - 1
  <2>1. CASE k = a
    BY <1>1, <1>2, <2>1 DEF Adjacent
  <2>2. CASE k = b - 1
    <3>1. k + 1 = b
      BY <2>2
    <3> QED BY <1>1, <1>2, <2>2, <3>1 DEF Adjacent
  <2>3. CASE k # a /\ k # b - 1
    <3>1. k \in a + 1 .. b - 1 - 1
      BY <2>3
    <3> QED BY <1>1, <3>1
  <2> QED BY <2>1, <2>2, <2>3
<1>4. Depth(s, a, b) = 1 /\ \A k \in a + 1 .. b : Depth(s, a, k) >= 1
  BY InParentheses
<1>5. \A k \in a .. b : Depth(s, a, k) >= 0
  <2> TAKE k \in a .. b
  <2>1. CASE k = a
    <3>1. Depth(s, a, a) = 0
      BY DepthEmpty
    <3> QED BY <2>1, <3>1
  <2>2. CASE k # a
    <3>1. k \in a + 1 .. b
      BY <2>2
    <3>2. Depth(s, a, k) >= 1 /\ Depth(s, a, k) \in Int
      BY <1>4, <3>1, DepthIs
    <3> QED BY <3>2
  <2> QED BY <2>1, <2>2
<1>6. Depth(s, a, b + 1) = 0
  <2>1. Depth(s, a, b + 1) = Depth(s, a, b) + Deeper(s[b])
    <3>1. a <= b
      BY <1>1
    <3> QED BY <3>1, DepthStep
  <2>2. Deeper(s[b]) = -1
    BY DEF Deeper
  <2> QED BY <1>4, <2>1, <2>2
<1>7. a <= b
  BY <1>1
<1> QED BY <1>2, <1>3, <1>5, <1>6, <1>7 DEF Well

\* The depth goes through a phrase and an operator as if they were not there.
LEMMA DepthBeyond ==
  ASSUME NEW s, NEW a \in Int, NEW k \in Int, Well(s, a, k - 1), s[k] \in Signs
  PROVE  /\ Depth(s, a, k) = 0
         /\ \A m \in Int : m > k => Depth(s, a, m) = Depth(s, k + 1, m)
<1>1. a <= k - 1 /\ Depth(s, a, k - 1 + 1) = 0
  BY DEF Well
<1>2. Depth(s, a, k) = 0
  <2>1. k - 1 + 1 = k
    OBVIOUS
  <2> QED BY <1>1, <2>1
<1>3. Depth(s, a, k + 1) = 0
  <2>1. Depth(s, a, k + 1) = Depth(s, a, k) + Deeper(s[k])
    BY <1>1, DepthStep
  <2>2. Deeper(s[k]) = 0
    BY DEF Deeper, Signs
  <2> QED BY <1>2, <2>1, <2>2
<1>4. ASSUME NEW m \in Int, m > k PROVE Depth(s, a, m) = Depth(s, k + 1, m)
  <2>1. PICK j \in Int : j = k + 1
    OBVIOUS
  <2>2. Depth(s, a, m) = Depth(s, a, j) + Depth(s, j, m) /\ Depth(s, j, m) \in Int
    <3>1. a <= j /\ j <= m
      BY <1>1, <1>4, <2>1
    <3> QED BY <3>1, DepthAdd, DepthIs
  <2> QED BY <1>3, <2>1, <2>2
<1> QED BY <1>2, <1>4

\* A binary operator between two that are well formed.
LEMMA WellBinary ==
  ASSUME NEW s, NEW a \in Int, NEW b \in Int, NEW k \in Int,
         Well(s, a, k - 1), s[k] \in Signs, Well(s, k + 1, b)
  PROVE  Well(s, a, b)
<1>1. /\ a <= k - 1 /\ s[a] \in Starters /\ s[k - 1] \in Enders
      /\ \A m \in a .. k - 1 - 1 : Adjacent(s, m)
      /\ \A m \in a .. k - 1 : Depth(s, a, m) >= 0
  BY DEF Well
<1>2. /\ k + 1 <= b /\ s[k + 1] \in Starters /\ s[b] \in Enders
      /\ \A m \in k + 1 .. b - 1 : Adjacent(s, m)
      /\ \A m \in k + 1 .. b : Depth(s, k + 1, m) >= 0
      /\ Depth(s, k + 1, b + 1) = 0
  BY DEF Well
<1>3. s[k] \notin Enders /\ s[k] \in Signs \cup {")"}
  BY DEF Signs, Enders, Literals
<1>4. \A m \in a .. b - 1 : Adjacent(s, m)
  <2> TAKE m \in a .. b - 1
  <2>1. CASE m = k - 1
    <3>1. m + 1 = k
      BY <2>1
    <3> QED BY <1>1, <1>3, <2>1, <3>1 DEF Adjacent
  <2>2. CASE m = k
    BY <1>2, <1>3, <2>2 DEF Adjacent
  <2>3. CASE m < k - 1
    <3>1. m \in a .. k - 1 - 1
      BY <2>3
    <3> QED BY <1>1, <3>1
  <2>4. CASE m > k
    <3>1. m \in k + 1 .. b - 1
      BY <2>4
    <3> QED BY <1>2, <3>1
  <2> QED BY <2>1, <2>2, <2>3, <2>4
<1>5. Depth(s, a, k) = 0 /\ \A m \in Int : m > k => Depth(s, a, m) = Depth(s, k + 1, m)
  BY DepthBeyond
<1>6. \A m \in a .. b : Depth(s, a, m) >= 0
  <2> TAKE m \in a .. b
  <2>1. CASE m <= k - 1
    <3>1. m \in a .. k - 1
      BY <2>1
    <3> QED BY <1>1, <3>1
  <2>2. CASE m = k
    BY <1>5, <2>2
  <2>3. CASE m > k
    <3>1. m \in k + 1 .. b /\ m \in Int
      BY <2>3
    <3> QED BY <1>2, <1>5, <2>3, <3>1
  <2> QED BY <2>1, <2>2, <2>3
<1>7. Depth(s, a, b + 1) = 0
  <2>1. b + 1 \in Int /\ b + 1 > k
    BY <1>2
  <2> QED BY <1>2, <1>5, <2>1
<1>8. a <= b
  BY <1>1, <1>2
<1> QED BY <1>1, <1>2, <1>4, <1>6, <1>7, <1>8 DEF Well

Phrases == {"sum", "product", "unary"}

\* A range that has a meaning is well formed, token by token.
LEMMA SenseWell ==
  ASSUME NEW worth, NEW s \in Seq(Lexemes)
  PROVE  \A l \in Phrases, a \in 1 .. Len(s) + 1, b \in 0 .. Len(s) :
           Sense(worth, s, l, a, b) # Invalid => Well(s, a, b)
<1> DEFINE n == Len(s)
           P(l, a, b) == Sense(worth, s, l, a, b) # Invalid => Well(s, a, b)
           Bad == {m \in Nat : \E l \in Phrases, a \in 1 .. n + 1, b \in 0 .. n :
                                 Size(<<l, a, b>>) = m /\ ~P(l, a, b)}
<1>1. SUFFICES ASSUME Bad # {} PROVE FALSE
  <2>1. ASSUME NEW l \in Phrases, NEW a \in 1 .. n + 1, NEW b \in 0 .. n, Bad = {}
        PROVE  P(l, a, b)
    <3>1. Size(<<l, a, b>>) \in Nat
      BY IsRange DEF Phrases
    <3> QED BY <2>1, <3>1
  <2> HIDE DEF Bad
  <2> QED BY <2>1
<1>2. PICK m \in Bad : \A j \in Bad : m <= j
  <2>1. Bad \subseteq Nat
    OBVIOUS
  <2> HIDE DEF Bad
  <2> QED BY <1>1, <2>1, LeastNatural
<1>3. PICK l \in Phrases, a \in 1 .. n + 1, b \in 0 .. n :
        Size(<<l, a, b>>) = m /\ ~P(l, a, b)
  OBVIOUS
<1>4. \A q \in Phrases, c \in 1 .. n + 1, d \in 0 .. n :
        Size(<<q, c, d>>) < m => P(q, c, d)
  <2> TAKE q \in Phrases, c \in 1 .. n + 1, d \in 0 .. n
  <2> HAVE Size(<<q, c, d>>) < m
  <2>1. Size(<<q, c, d>>) \in Nat /\ m \in Nat
    BY IsRange DEF Phrases
  <2>2. Size(<<q, c, d>>) \notin Bad
    <3> HIDE DEF Bad
    <3> QED BY <1>2, <2>1
  <2> QED BY <2>1, <2>2
<1> HIDE DEF Bad
<1>5. n \in Nat
  OBVIOUS
<1> HIDE DEF n
<1>6. Sense(worth, s, l, a, b) # Invalid /\ ~Well(s, a, b)
  BY <1>3
<1>7. a <= b
  <2>1. CASE a > b
    BY <1>6, <2>1, SenseEmpty DEF Phrases, n
  <2> QED BY <1>5, <2>1
<1>8. \A q \in Phrases, c \in 1 .. n + 1, d \in 0 .. n :
        \/ a <= c /\ d <= b /\ d - c < b - a
        \/ c = a /\ d = b /\ Rank(q) < Rank(l)
        => P(q, c, d)
  <2> TAKE q \in Phrases, c \in 1 .. n + 1, d \in 0 .. n
  <2> HAVE \/ a <= c /\ d <= b /\ d - c < b - a
           \/ c = a /\ d = b /\ Rank(q) < Rank(l)
  <2>1. Size(<<q, c, d>>) = IF c > d THEN 0 ELSE 3 * (d - c + 1) + Rank(q)
    BY IsRange DEF Phrases, n
  <2>2. Size(<<l, a, b>>) = IF a > b THEN 0 ELSE 3 * (b - a + 1) + Rank(l)
    BY IsRange DEF Phrases, n
  <2>3. Rank(q) \in 0 .. 2 /\ Rank(l) \in 0 .. 2
    BY DEF Rank
  <2>4. Size(<<q, c, d>>) < m
    BY <1>3, <1>5, <1>7, <2>1, <2>2, <2>3
  <2> QED BY <1>4, <2>4
<1> HIDE DEF P
<1>9. CASE l # "unary"
  <2>1. l \in {"sum", "product"} /\ Operand[l] \in Phrases /\ Rank(Operand[l]) < Rank(l)
        /\ Operators[l] \subseteq Signs
    BY <1>9, Sets DEF Phrases, Rank, Signs
  <2>2. CASE Binary(s, l, a, b) = {}
    <3>1. Sense(worth, s, Operand[l], a, b) # Invalid
      BY <1>6, <1>7, <2>1, <2>2, SenseDown DEF n
    <3>2. P(Operand[l], a, b)
      BY <1>8, <2>1
    <3> QED BY <1>6, <3>1, <3>2 DEF P
  <2>3. CASE Binary(s, l, a, b) # {}
    <3>1. PICK k \in Binary(s, l, a, b) : \A other \in Binary(s, l, a, b) : other <= k
      <4>1. Binary(s, l, a, b) \subseteq a + 1 .. b /\ a + 1 \in Int /\ b \in Int
        BY <1>5, BinaryIn
      <4> QED BY <2>3, <4>1, LastIs
    <3>2. k \in a + 1 .. b /\ s[k] \in Operators[l]
      BY DEF Binary
    <3>3. Sense(worth, s, l, a, b) =
            Term(s[k], <<Sense(worth, s, l, a, k - 1), Sense(worth, s, Operand[l], k + 1, b)>>)
      BY <1>7, <2>1, <3>1, SenseBinary DEF n
    <3>4. Sense(worth, s, l, a, k - 1) # Invalid /\ Sense(worth, s, Operand[l], k + 1, b) # Invalid
      <4>1. PICK x, y : x = Sense(worth, s, l, a, k - 1) /\ y = Sense(worth, s, Operand[l], k + 1, b)
        OBVIOUS
      <4>2. Term(s[k], <<x, y>>) # Invalid
        BY <1>6, <3>3, <4>1
      <4>3. x # Invalid /\ y # Invalid
        <5>1. Term(s[k], <<x, y>>) =
                IF x = Invalid \/ y = Invalid THEN Invalid ELSE <<s[k], x, y>>
          BY ONLY TermTwo
        <5> QED BY ONLY <4>2, <5>1
      <4> QED BY <4>1, <4>3
    <3>5. k - 1 \in 0 .. n /\ k + 1 \in 1 .. n + 1 /\ k \in Int
      BY <1>5, <3>2
    <3>6. P(l, a, k - 1) /\ P(Operand[l], k + 1, b)
      <4>1. (k - 1) - a < b - a /\ k - 1 <= b /\ a <= a
        BY <1>5, <3>2
      <4>2. b - (k + 1) < b - a /\ a <= k + 1 /\ b <= b
        BY <1>5, <3>2
      <4>3. P(l, a, k - 1)
        BY <1>8, <3>5, <4>1
      <4>4. P(Operand[l], k + 1, b)
        BY <1>8, <2>1, <3>5, <4>2
      <4> QED BY <4>3, <4>4
    <3>7. Well(s, a, k - 1) /\ Well(s, k + 1, b)
      BY <3>4, <3>6 DEF P
    <3>8. Well(s, a, b)
      <4>1. a \in Int /\ b \in Int /\ s[k] \in Signs
        BY <1>5, <2>1, <3>2
      <4> QED BY <3>5, <3>7, <4>1, WellBinary
    <3> QED BY <1>6, <3>8
  <2> QED BY <2>2, <2>3
<1>10. CASE l = "unary"
  <2>1. Sense(worth, s, l, a, b) =
           IF s[a] = "+" THEN Sense(worth, s, "unary", a + 1, b)
           ELSE IF s[a] = "-" THEN Term("neg", <<Sense(worth, s, "unary", a + 1, b)>>)
           ELSE IF s[a] = "(" /\ s[b] = ")" THEN Sense(worth, s, "sum", a + 1, b - 1)
           ELSE IF s[a] \in Literals /\ a = b THEN <<"val", worth[a]>>
           ELSE Invalid
    BY <1>7, <1>10, SenseUnary DEF n
  <2>2. a + 1 \in 1 .. n + 1 /\ b - 1 \in 0 .. n /\ a + 1 \in Int /\ b \in Int /\ a \in Int
    BY <1>5, <1>7
  <2>3. CASE s[a] \in {"+", "-"}
    <3>1. Sense(worth, s, "unary", a + 1, b) # Invalid
      BY <1>6, <2>1, <2>3, TermNeg
    <3>2. P("unary", a + 1, b)
      <4>1. b - (a + 1) < b - a /\ a <= a + 1 /\ b <= b
        BY <1>5
      <4> QED BY <1>8, <2>2, <4>1 DEF Phrases
    <3>3. Well(s, a + 1, b)
      BY <3>1, <3>2 DEF P
    <3> QED BY <1>6, <2>2, <2>3, <3>3, WellSign
  <2>4. CASE s[a] = "(" /\ s[b] = ")"
    <3>1. Sense(worth, s, "sum", a + 1, b - 1) # Invalid
      BY <1>6, <2>1, <2>4
    <3>2. P("sum", a + 1, b - 1)
      <4>1. (b - 1) - (a + 1) < b - a /\ a <= a + 1 /\ b - 1 <= b
        BY <1>5
      <4> QED BY <1>8, <2>2, <4>1 DEF Phrases
    <3>3. Well(s, a + 1, b - 1)
      BY <3>1, <3>2 DEF P
    <3> QED BY <1>6, <2>2, <2>4, <3>3, WellParentheses
  <2>5. CASE s[a] \notin {"+", "-"} /\ ~(s[a] = "(" /\ s[b] = ")")
    <3>1. s[a] \in Literals /\ a = b
      BY <1>6, <2>1, <2>5
    <3> QED BY <1>6, <2>2, <3>1, WellLiteral
  <2> QED BY <2>3, <2>4, <2>5
<1> QED BY <1>9, <1>10

-----------------------------------------------------------------------------
(* Phrases: what the functions of the parser return.                       *)

Phrase(worth, s, l, a, b) ==
  /\ l \in Phrases /\ a \in 1 .. Len(s) /\ b \in 1 .. Len(s)
  /\ Sense(worth, s, l, a, b) # Invalid
  /\ l # "sum" => Binary(s, "sum", a, b) = {}
  /\ l = "unary" => Binary(s, "product", a, b) = {}

\* A phrase is well formed and not empty.
LEMMA PhraseWell ==
  ASSUME NEW worth, NEW s \in Seq(Lexemes), NEW l, NEW a, NEW b, Phrase(worth, s, l, a, b)
  PROVE  Well(s, a, b) /\ a <= b /\ a \in 1 .. Len(s) /\ b \in 1 .. Len(s) /\ Len(s) \in Nat
<1>1. l \in Phrases /\ a \in 1 .. Len(s) + 1 /\ b \in 0 .. Len(s) /\ Len(s) \in Nat
  BY DEF Phrase
<1>2. Well(s, a, b)
  BY <1>1, SenseWell DEF Phrase
<1> QED BY <1>1, <1>2 DEF Well, Phrase

\* A literal is a phrase.
LEMMA PhraseLiteral ==
  ASSUME NEW worth, NEW s \in Seq(Lexemes), NEW a \in 1 .. Len(s), s[a] \in Literals
  PROVE  Phrase(worth, s, "unary", a, a) /\ Sense(worth, s, "unary", a, a) = <<"val", worth[a]>>
<1>1. Sense(worth, s, "unary", a, a) = <<"val", worth[a]>>
  <2>1. a \in 1 .. Len(s) + 1 /\ a \in 0 .. Len(s) /\ a <= a
    OBVIOUS
  <2> QED BY <2>1, SenseUnary DEF Literals
<1>2. <<"val", worth[a]>> # Invalid
  BY TermNeg
<1>3. Binary(s, "sum", a, a) = {} /\ Binary(s, "product", a, a) = {}
  BY BinaryIn
<1> QED BY <1>1, <1>2, <1>3 DEF Phrase, Phrases

\* A sign and a phrase.
LEMMA PhraseSign ==
  ASSUME NEW worth, NEW s \in Seq(Lexemes), NEW a \in 1 .. Len(s), NEW b, Phrase(worth, s, "unary", a + 1, b),
         s[a] \in {"+", "-"}
  PROVE  /\ Phrase(worth, s, "unary", a, b)
         /\ Sense(worth, s, "unary", a, b) = IF s[a] = "+" THEN Sense(worth, s, "unary", a + 1, b)
                                      ELSE <<"neg", Sense(worth, s, "unary", a + 1, b)>>
<1>1. a + 1 <= b /\ b \in 1 .. Len(s) /\ Len(s) \in Nat
  BY PhraseWell
<1>2. /\ Sense(worth, s, "unary", a + 1, b) # Invalid
      /\ Binary(s, "sum", a + 1, b) = {} /\ Binary(s, "product", a + 1, b) = {}
  BY DEF Phrase
<1>3. Sense(worth, s, "unary", a, b) = IF s[a] = "+" THEN Sense(worth, s, "unary", a + 1, b)
                                ELSE Term("neg", <<Sense(worth, s, "unary", a + 1, b)>>)
  <2>1. a \in 1 .. Len(s) + 1 /\ b \in 0 .. Len(s) /\ a <= b
    BY <1>1
  <2> QED BY <2>1, SenseUnary
<1>4. Term("neg", <<Sense(worth, s, "unary", a + 1, b)>>) = <<"neg", Sense(worth, s, "unary", a + 1, b)>>
      /\ <<"neg", Sense(worth, s, "unary", a + 1, b)>> # Invalid
  BY <1>2, TermNeg
<1>5. ASSUME NEW l \in {"sum", "product"} PROVE Binary(s, l, a, b) = {}
  <2>1. SUFFICES ASSUME NEW k \in Binary(s, l, a, b) PROVE FALSE
    OBVIOUS
  <2>2. /\ k \in a + 1 .. b /\ s[k] \in Operators[l] /\ Depth(s, a, k) = 0
        /\ s[k - 1] \in Enders
    BY DEF Binary, Enders
  <2>3. k # a + 1
    <3>1. k = a + 1 => k - 1 = a
      BY <2>2
    <3>2. s[a] \notin Enders
      BY DEF Enders, Literals
    <3> QED BY <2>2, <3>1, <3>2
  <2>4. Depth(s, a, k) = Deeper(s[a]) + Depth(s, a + 1, k) /\ Depth(s, a + 1, k) \in Int
    <3>1. a \in Int /\ k \in Int /\ a < k /\ a + 1 \in Int
      BY <2>2
    <3> QED BY <3>1, DepthFirst, DepthIs
  <2>5. Depth(s, a + 1, k) = 0
    <3>1. Deeper(s[a]) = 0
      BY DEF Deeper
    <3> QED BY <2>2, <2>4, <3>1
  <2>6. k \in Binary(s, l, a + 1, b)
    <3>1. k \in a + 1 + 1 .. b
      BY <2>2, <2>3
    <3> QED BY <2>2, <2>5, <3>1 DEF Binary, Enders
  <2> QED BY <1>2, <2>6
<1> QED BY <1>1, <1>2, <1>3, <1>4, <1>5 DEF Phrase, Phrases

\* A phrase in parentheses.
LEMMA PhraseParentheses ==
  ASSUME NEW worth, NEW s \in Seq(Lexemes), NEW a \in 1 .. Len(s), NEW b \in 1 .. Len(s),
         Phrase(worth, s, "sum", a + 1, b - 1), s[a] = "(", s[b] = ")"
  PROVE  /\ Phrase(worth, s, "unary", a, b)
         /\ Sense(worth, s, "unary", a, b) = Sense(worth, s, "sum", a + 1, b - 1)
<1>1. Well(s, a + 1, b - 1) /\ a + 1 <= b - 1 /\ Len(s) \in Nat
  BY PhraseWell
<1>2. Sense(worth, s, "sum", a + 1, b - 1) # Invalid
  BY DEF Phrase
<1>3. Sense(worth, s, "unary", a, b) = Sense(worth, s, "sum", a + 1, b - 1)
  <2>1. a \in 1 .. Len(s) + 1 /\ b \in 0 .. Len(s) /\ a <= b
    BY <1>1
  <2> QED BY <2>1, SenseUnary
<1>4. \A k \in a + 1 .. b : Depth(s, a, k) >= 1
  <2>1. a \in Int /\ b \in Int
    OBVIOUS
  <2> QED BY <1>1, <2>1, InParentheses
<1>5. ASSUME NEW l \in {"sum", "product"} PROVE Binary(s, l, a, b) = {}
  <2>1. SUFFICES ASSUME NEW k \in Binary(s, l, a, b) PROVE FALSE
    OBVIOUS
  <2>2. k \in a + 1 .. b /\ Depth(s, a, k) = 0
    BY DEF Binary
  <2> QED BY <1>4, <2>2
<1> QED BY <1>2, <1>3, <1>5 DEF Phrase, Phrases

\* A phrase of a level is one of the level above.
LEMMA PhraseUp ==
  ASSUME NEW worth, NEW s \in Seq(Lexemes), NEW l \in {"sum", "product"}, NEW a, NEW b,
         Phrase(worth, s, Operand[l], a, b)
  PROVE  Phrase(worth, s, l, a, b) /\ Sense(worth, s, l, a, b) = Sense(worth, s, Operand[l], a, b)
<1>1. a <= b /\ a \in 1 .. Len(s) /\ b \in 1 .. Len(s) /\ Len(s) \in Nat
  BY PhraseWell
<1>2. Sense(worth, s, Operand[l], a, b) # Invalid
  BY DEF Phrase
<1>3. Binary(s, l, a, b) = {} /\ (l # "sum" => Binary(s, "sum", a, b) = {})
  BY Sets DEF Phrase
<1>4. Sense(worth, s, l, a, b) = Sense(worth, s, Operand[l], a, b)
  <2>1. a \in 1 .. Len(s) + 1 /\ b \in 0 .. Len(s)
    BY <1>1
  <2> QED BY <1>1, <1>3, <2>1, SenseDown
<1> QED BY <1>1, <1>2, <1>3, <1>4 DEF Phrase, Phrases

\* Two phrases and an operator of level l at k between them.
Between(worth, s, l, a, b, k) ==
  /\ s \in Seq(Lexemes) /\ l \in {"sum", "product"} /\ k \in 1 .. Len(s)
  /\ Phrase(worth, s, l, a, k - 1) /\ s[k] \in Operators[l]
  /\ Phrase(worth, s, Operand[l], k + 1, b)

\* Two phrases and an operator: operators of a level group to the left.
LEMMA PhraseBinary ==
  ASSUME NEW worth, NEW s, NEW l, NEW a, NEW b, NEW k, Between(worth, s, l, a, b, k)
  PROVE  /\ Phrase(worth, s, l, a, b)
         /\ Sense(worth, s, l, a, b) =
              <<s[k], Sense(worth, s, l, a, k - 1), Sense(worth, s, Operand[l], k + 1, b)>>
<1> SUFFICES ASSUME s \in Seq(Lexemes), l \in {"sum", "product"}, k \in 1 .. Len(s),
                    Phrase(worth, s, l, a, k - 1), s[k] \in Operators[l],
                    Phrase(worth, s, Operand[l], k + 1, b)
             PROVE  /\ Phrase(worth, s, l, a, b)
                    /\ Sense(worth, s, l, a, b) =
                         <<s[k], Sense(worth, s, l, a, k - 1),
                           Sense(worth, s, Operand[l], k + 1, b)>>
  BY DEF Between
<1>1. Well(s, a, k - 1) /\ a <= k - 1 /\ a \in 1 .. Len(s) /\ Len(s) \in Nat
  BY PhraseWell
<1>2. Well(s, k + 1, b) /\ k + 1 <= b /\ b \in 1 .. Len(s)
  BY PhraseWell
<1>3. s[k] \in Signs /\ s[k] \notin Enders
  BY Sets DEF Signs
<1>4. Depth(s, a, k) = 0 /\ \A m \in Int : m > k => Depth(s, a, m) = Depth(s, k + 1, m)
  <2>1. a \in Int /\ k \in Int
    BY <1>1
  <2> QED BY <1>1, <1>3, <2>1, DepthBeyond
<1>5. k \in Binary(s, l, a, b)
  <2>1. k \in a + 1 .. b /\ s[k - 1] \in Enders
    BY <1>1, <1>2 DEF Well
  <2> QED BY <1>4, <2>1 DEF Binary, Enders
\* An operator behind k, or one that binds less, would be one of the parts.
<1>6. ASSUME NEW q \in {"sum", "product"}, NEW m \in Binary(s, q, a, b), m > k
      PROVE  m \in Binary(s, q, k + 1, b)
  <2>1. /\ m \in a + 1 .. b /\ s[m] \in Operators[q] /\ Depth(s, a, m) = 0
        /\ s[m - 1] \in Enders
    BY DEF Binary, Enders
  <2>2. m # k + 1
    <3>1. m = k + 1 => m - 1 = k
      BY <2>1
    <3> QED BY <1>3, <2>1, <3>1
  <2>3. m \in k + 1 + 1 .. b /\ m \in Int
    BY <1>6, <2>1, <2>2
  <2>4. Depth(s, k + 1, m) = 0
    BY <1>4, <1>6, <2>1, <2>3
  <2> QED BY <2>1, <2>3, <2>4 DEF Binary, Enders
<1>7. \A other \in Binary(s, l, a, b) : other <= k
  <2> TAKE other \in Binary(s, l, a, b)
  <2>1. other \in Int
    BY <1>1, <1>2, BinaryIn
  <2>2. CASE other > k
    <3>1. other \in Binary(s, l, k + 1, b)
      BY <1>6, <2>2
    <3>2. Binary(s, l, k + 1, b) = {}
      BY Sets DEF Phrase
    <3> QED BY <3>1, <3>2
  <2> QED BY <2>1, <2>2
<1>8. Sense(worth, s, l, a, b) = Term(s[k], <<Sense(worth, s, l, a, k - 1), Sense(worth, s, Operand[l], k + 1, b)>>)
  <2>1. a \in 1 .. Len(s) + 1 /\ b \in 0 .. Len(s) /\ a <= b
    BY <1>1, <1>2
  <2> QED BY <1>5, <1>7, <2>1, SenseBinary
<1>9. Sense(worth, s, l, a, k - 1) # Invalid /\ Sense(worth, s, Operand[l], k + 1, b) # Invalid
  BY DEF Phrase
<1>10. /\ Sense(worth, s, l, a, b) = <<s[k], Sense(worth, s, l, a, k - 1), Sense(worth, s, Operand[l], k + 1, b)>>
       /\ Sense(worth, s, l, a, b) # Invalid
  <2>1. PICK x, y : x = Sense(worth, s, l, a, k - 1) /\ y = Sense(worth, s, Operand[l], k + 1, b)
    OBVIOUS
  <2>2. x # Invalid /\ y # Invalid
    BY <1>9, <2>1
  <2>3. Term(s[k], <<x, y>>) = <<s[k], x, y>> /\ <<s[k], x, y>> # Invalid
    <3>1. /\ Term(s[k], <<x, y>>) =
               IF x = Invalid \/ y = Invalid THEN Invalid ELSE <<s[k], x, y>>
          /\ <<s[k], x, y>> # Invalid
      BY ONLY TermTwo
    <3> QED BY ONLY <2>2, <3>1
  <2> QED BY <1>8, <2>1, <2>3
<1>11. ASSUME l # "sum" PROVE Binary(s, "sum", a, b) = {}
  <2>0. l = "product"
    BY <1>11
  <2>1. SUFFICES ASSUME NEW m \in Binary(s, "sum", a, b) PROVE FALSE
    OBVIOUS
  <2>2. /\ m \in a + 1 .. b /\ s[m] \in Operators["sum"] /\ Depth(s, a, m) = 0
        /\ s[m - 1] \in Enders
    BY DEF Binary, Enders
  <2>3. CASE m > k
    <3>1. m \in Binary(s, "sum", k + 1, b)
      BY <1>6, <2>3
    <3>2. Binary(s, "sum", k + 1, b) = {}
      BY <2>0, Sets DEF Phrase
    <3> QED BY <3>1, <3>2
  <2>4. CASE m = k
    BY <2>0, <2>2, <2>4, Sets
  <2>5. CASE m < k
    <3>1. m \in a + 1 .. k - 1
      BY <1>1, <2>2, <2>5
    <3>2. m \in Binary(s, "sum", a, k - 1)
      BY <2>2, <3>1 DEF Binary, Enders
    <3>3. Binary(s, "sum", a, k - 1) = {}
      BY <2>0 DEF Phrase
    <3> QED BY <3>2, <3>3
  <2> QED BY <1>1, <1>2, <2>2, <2>3, <2>4, <2>5
<1> QED BY <1>1, <1>2, <1>10, <1>11 DEF Phrase, Phrases

-----------------------------------------------------------------------------
(* Where the parser gives up, the tokens have no meaning.                  *)

\* What is not well formed has no meaning.
LEMMA IllFormed ==
  ASSUME NEW worth, NEW s \in Seq(Lexemes), ~Well(s, 1, Len(s))
  PROVE  Meaning(s, worth) = Invalid
<1>1. "sum" \in Phrases /\ 1 \in 1 .. Len(s) + 1 /\ Len(s) \in 0 .. Len(s)
  BY DEF Phrases
<1>2. Sense(worth, s, "sum", 1, Len(s)) = Invalid
  BY <1>1, SenseWell
<1> QED BY <1>2, MeaningIs DEF Sense

\* An operand is missing.
LEMMA NoOperand ==
  ASSUME NEW s \in Seq(Lexemes), NEW p \in 1 .. Len(s) + 1,
         p = 1 \/ s[p - 1] \notin Enders,
         p <= Len(s) => s[p] \notin Starters
  PROVE  ~Well(s, 1, Len(s))
<1>1. SUFFICES ASSUME Well(s, 1, Len(s)) PROVE FALSE
  OBVIOUS
<1>2. /\ 1 <= Len(s) /\ s[1] \in Starters /\ s[Len(s)] \in Enders /\ Len(s) \in Nat
      /\ \A k \in 1 .. Len(s) - 1 : Adjacent(s, k)
  BY <1>1 DEF Well
<1>3. CASE p = 1
  BY <1>2, <1>3
<1>4. CASE p # 1 /\ p = Len(s) + 1
  <2>1. p - 1 = Len(s)
    BY <1>2, <1>4
  <2> QED BY <1>2, <1>4, <2>1
<1>5. CASE p # 1 /\ p # Len(s) + 1
  <2>1. p - 1 \in 1 .. Len(s) - 1 /\ p - 1 + 1 = p /\ p <= Len(s)
    BY <1>2, <1>5
  <2>2. Adjacent(s, p - 1)
    BY <1>2, <2>1
  <2> QED BY <1>5, <2>1, <2>2 DEF Adjacent
<1> QED BY <1>3, <1>4, <1>5

\* After an operand there is something that is no operator.
LEMMA NoSign ==
  ASSUME NEW worth, NEW s \in Seq(Lexemes), NEW a, NEW p \in 1 .. Len(s),
         Phrase(worth, s, "sum", a, p - 1), s[p] \notin Signs \cup {")"}
  PROVE  ~Well(s, 1, Len(s))
<1>1. SUFFICES ASSUME Well(s, 1, Len(s)) PROVE FALSE
  OBVIOUS
<1>2. s[p - 1] \in Enders /\ p - 1 \in 1 .. Len(s) /\ Len(s) \in Nat
  <2>1. Well(s, a, p - 1) /\ p - 1 \in 1 .. Len(s) /\ Len(s) \in Nat
    BY PhraseWell
  <2> QED BY <2>1 DEF Well
<1>3. Adjacent(s, p - 1)
  <2>1. p - 1 \in 1 .. Len(s) - 1
    BY <1>2
  <2> QED BY <1>1, <2>1 DEF Well
<1>4. p - 1 + 1 = p
  BY <1>2
<1> QED BY <1>2, <1>3, <1>4 DEF Adjacent

\* A parenthesis is not closed.
LEMMA NotClosed ==
  ASSUME NEW worth, NEW s \in Seq(Lexemes), NEW a \in 1 .. Len(s), s[a] = "(",
         Phrase(worth, s, "sum", a + 1, Len(s))
  PROVE  ~Well(s, 1, Len(s))
<1>1. SUFFICES ASSUME Well(s, 1, Len(s)) PROVE FALSE
  OBVIOUS
<1>2. PICK n \in Nat : n = Len(s)
  OBVIOUS
<1>3. a + 1 <= n /\ Depth(s, a + 1, n + 1) = 0
  BY <1>2, PhraseWell DEF Well
<1>4. Depth(s, 1, a) >= 0 /\ Depth(s, 1, n + 1) = 0
  BY <1>1, <1>2 DEF Well
<1>5. Depth(s, a, n + 1) = 1
  <2>1. a \in Int /\ n + 1 \in Int /\ a < n + 1
    BY <1>2
  <2>2. Depth(s, a, n + 1) = Deeper(s[a]) + Depth(s, a + 1, n + 1)
    BY <2>1, DepthFirst
  <2>3. Deeper(s[a]) = 1
    BY DEF Deeper
  <2> QED BY <1>3, <2>2, <2>3
<1>6. Depth(s, 1, n + 1) = Depth(s, 1, a) + Depth(s, a, n + 1) /\ Depth(s, 1, a) \in Int
  <2>1. 1 \in Int /\ a \in Int /\ n + 1 \in Int /\ 1 <= a /\ a <= n + 1
    BY <1>2
  <2> QED BY <2>1, DepthAdd, DepthIs
<1> QED BY <1>4, <1>5, <1>6

\* A parenthesis is closed that was not open.
LEMMA NotOpen ==
  ASSUME NEW worth, NEW s \in Seq(Lexemes), NEW p \in 1 .. Len(s),
         Phrase(worth, s, "sum", 1, p - 1), s[p] = ")"
  PROVE  ~Well(s, 1, Len(s))
<1>1. SUFFICES ASSUME Well(s, 1, Len(s)) PROVE FALSE
  OBVIOUS
<1>2. PICK n \in Nat : n = Len(s)
  OBVIOUS
<1>3. Depth(s, 1, p) = 0
  <2>1. Well(s, 1, p - 1)
    BY PhraseWell
  <2>2. p - 1 + 1 = p
    OBVIOUS
  <2> QED BY <2>1, <2>2 DEF Well
<1>4. Depth(s, 1, p + 1) = -1
  <2>1. Depth(s, 1, p + 1) = Depth(s, 1, p) + Deeper(s[p])
    <3>1. 1 \in Int /\ p \in Int /\ 1 <= p
      OBVIOUS
    <3> QED BY <3>1, DepthStep
  <2>2. Deeper(s[p]) = -1
    BY DEF Deeper
  <2> QED BY <1>3, <2>1, <2>2
<1>5. Depth(s, 1, p + 1) >= 0
  <2>1. CASE p = n
    BY <1>1, <1>2, <2>1 DEF Well
  <2>2. CASE p # n
    <3>1. p + 1 \in 1 .. n
      BY <1>2, <2>2
    <3> QED BY <1>1, <1>2, <3>1 DEF Well
  <2> QED BY <2>1, <2>2
<1> QED BY <1>4, <1>5

\* The whole argument was a sum, and something follows.
LEMMA NotAll ==
  ASSUME NEW worth, NEW s \in Seq(Lexemes), NEW p \in 1 .. Len(s),
         Phrase(worth, s, "sum", 1, p - 1), s[p] \notin Signs
  PROVE  ~Well(s, 1, Len(s))
<1>1. CASE s[p] = ")"
  BY <1>1, NotOpen
<1>2. CASE s[p] # ")"
  BY <1>2, NoSign
<1> QED BY <1>1, <1>2

-----------------------------------------------------------------------------
(* The machine: its calls.                                                 *)

ParserFunctions == Phrases \cup {"primary"}
Frames == [fn : ParserFunctions,
           at : {"entry", "first", "loop", "operand", "rest", "plus", "minus", "close"},
           left : Nat, dag : Nat]

Working(f) == \/ f.fn \in Levels /\ f.at \in {"entry", "loop"}
              \/ f.fn \in {"unary", "primary"} /\ f.at = "entry"
Waiting(f) == \/ f.fn \in Levels /\ f.at \in {"first", "operand", "rest"}
              \/ f.fn = "unary" /\ f.at \in {"plus", "minus"}
              \/ f.fn = "primary" /\ f.at = "close"

\* All calls but the last wait; the last works until its callee has returned.
Shape ==
  /\ stack \in Seq(Frames)
  /\ \A j \in 1 .. Len(stack) - 1 : Waiting(stack[j])
  /\ stack # <<>> => IF ret = Called THEN Working(Top) ELSE Waiting(Top)
  /\ stack = <<>> => ret # Called

\* The fields of a call.
LEMMA CallIs ==
  ASSUME NEW fn \in ParserFunctions, NEW d \in Nat, NEW at \in {"entry", "loop"}
  PROVE  /\ Call(fn, at, d) \in Frames
         /\ Call(fn, at, d).fn = fn /\ Call(fn, at, d).at = at
         /\ Call(fn, at, d).left = d /\ Call(fn, at, d).dag = d
  BY DEF Call, Frames

Pushes(n, at, d, g) ==
  /\ n \in Nat \ {0} /\ n = Len(stack) /\ Len(stack') = n + 1 /\ stack' \in Seq(Frames)
  /\ \A j \in 1 .. n - 1 : stack'[j] = stack[j]
  /\ stack'[n].fn = stack[n].fn /\ stack'[n].at = at
  /\ stack'[n].left = stack[n].left /\ stack'[n].dag = d
  /\ stack'[n + 1] = g /\ ret' = Called
Replaces(n, g) ==
  /\ n \in Nat \ {0} /\ n = Len(stack) /\ Len(stack') = n /\ stack' \in Seq(Frames)
  /\ \A j \in 1 .. n - 1 : stack'[j] = stack[j]
  /\ stack'[n] = g /\ ret' = Called
Pops(n, d) ==
  /\ n \in Nat \ {0} /\ n = Len(stack) /\ Len(stack') = n - 1 /\ stack' \in Seq(Frames)
  /\ \A j \in 1 .. n - 1 : stack'[j] = stack[j]
  /\ ret' = d

\* What calls, tail calls and returns do to the stack.
LEMMA CallsIs ==
  ASSUME stack \in Seq(Frames), stack # <<>>, NEW callee \in Frames,
         NEW at \in {"first", "operand", "rest", "plus", "minus", "close"}, NEW d \in Nat,
         Calls(callee, at, d)
  PROVE  Pushes(Len(stack), at, d, callee)
<1>1. PICK n \in Nat \ {0} : n = Len(stack)
  BY EmptySeq
<1> DEFINE f == [stack[n] EXCEPT !.at = at, !.dag = d]
           m == [stack EXCEPT ![n] = f]
<1>2. stack[n] \in Frames
  BY <1>1, ElementOfSeq
<1>3. f \in Frames
  BY <1>2 DEF Frames
<1>4. [stack EXCEPT ![Len(stack)].at = at, ![Len(stack)].dag = d] = m
  BY <1>1, <1>2 DEF Frames
<1> HIDE DEF f
<1>5. m \in Seq(Frames) /\ Len(m) = n /\ \A j \in 1 .. n : m[j] = IF j = n THEN f ELSE stack[j]
  BY <1>1, <1>3, ExceptSeq
<1>6. stack' = Append(m, callee) /\ ret' = Called
  BY <1>4 DEF Calls
<1> HIDE DEF m
<1>7. /\ stack' \in Seq(Frames) /\ Len(stack') = n + 1 /\ stack'[n + 1] = callee
      /\ \A j \in 1 .. n : stack'[j] = m[j]
  BY <1>5, <1>6, AppendProperties
<1>8. stack'[n] = f /\ \A j \in 1 .. n - 1 : stack'[j] = stack[j]
  BY <1>5, <1>7
<1>9. /\ stack'[n].fn = stack[n].fn /\ stack'[n].at = at
      /\ stack'[n].left = stack[n].left /\ stack'[n].dag = d
  BY <1>2, <1>8 DEF f, Frames
<1> QED BY <1>1, <1>6, <1>7, <1>8, <1>9 DEF Pushes

\* All calls but the last.
LEMMA FrontIs ==
  ASSUME stack \in Seq(Frames), stack # <<>>
  PROVE  \E n \in Nat \ {0} :
           /\ n = Len(stack) /\ Front(stack) \in Seq(Frames) /\ Len(Front(stack)) = n - 1
           /\ \A j \in 1 .. n - 1 : Front(stack)[j] = stack[j]
<1>1. PICK n \in Nat \ {0} : n = Len(stack)
  BY EmptySeq
<1>2. Front(stack) = SubSeq(stack, 1, n - 1)
  BY <1>1 DEF Front
<1>3. \A j \in 1 .. n - 1 : stack[j] \in Frames
  <2>1. \A j \in 1 .. n - 1 : j \in 1 .. Len(stack)
    BY <1>1
  <2> QED BY <2>1, ElementOfSeq
<1>4. /\ SubSeq(stack, 1, n - 1) \in Seq(Frames)
      /\ Len(SubSeq(stack, 1, n - 1)) = IF 1 <= n - 1 THEN n - 1 - 1 + 1 ELSE 0
      /\ \A j \in 1 .. n - 1 - 1 + 1 : SubSeq(stack, 1, n - 1)[j] = stack[1 + j - 1]
  <2>1. 1 \in Int /\ n - 1 \in Int
    OBVIOUS
  <2> QED BY <1>3, <2>1, SubSeqProperties
<1>5. \A j \in 1 .. n - 1 : SubSeq(stack, 1, n - 1)[j] = stack[j]
  <2>1. \A j \in 1 .. n - 1 : j \in 1 .. n - 1 - 1 + 1 /\ 1 + j - 1 = j
    OBVIOUS
  <2> QED BY <1>4, <2>1
<1>6. Len(SubSeq(stack, 1, n - 1)) = n - 1
  BY <1>4
<1> QED BY <1>1, <1>2, <1>4, <1>5, <1>6

\* A tail call replaces the last call.
LEMMA BecomesIs ==
  ASSUME stack \in Seq(Frames), stack # <<>>, NEW call \in Frames, Becomes(call)
  PROVE  \E n \in Nat \ {0} :
           /\ n = Len(stack) /\ Len(stack') = n /\ stack' \in Seq(Frames)
           /\ \A j \in 1 .. n - 1 : stack'[j] = stack[j]
           /\ stack'[n] = call
           /\ ret' = Called
<1>1. PICK n \in Nat \ {0} :
        /\ n = Len(stack) /\ Front(stack) \in Seq(Frames) /\ Len(Front(stack)) = n - 1
        /\ \A j \in 1 .. n - 1 : Front(stack)[j] = stack[j]
  BY FrontIs
<1>2. stack' = Append(Front(stack), call) /\ ret' = Called
  BY DEF Becomes
<1>3. /\ stack' \in Seq(Frames) /\ Len(stack') = n - 1 + 1 /\ stack'[n - 1 + 1] = call
      /\ \A j \in 1 .. n - 1 : stack'[j] = Front(stack)[j]
  BY <1>1, <1>2, AppendProperties
<1>4. n - 1 + 1 = n
  OBVIOUS
<1> QED BY <1>1, <1>2, <1>3, <1>4

\* A return takes the last call away.
LEMMA ReturnsIs ==
  ASSUME stack \in Seq(Frames), stack # <<>>, NEW d, Returns(d)
  PROVE  \E n \in Nat \ {0} :
           /\ n = Len(stack) /\ Len(stack') = n - 1 /\ stack' \in Seq(Frames)
           /\ \A j \in 1 .. n - 1 : stack'[j] = stack[j]
           /\ ret' = d
<1>1. PICK n \in Nat \ {0} :
        /\ n = Len(stack) /\ Front(stack) \in Seq(Frames) /\ Len(Front(stack)) = n - 1
        /\ \A j \in 1 .. n - 1 : Front(stack)[j] = stack[j]
  BY FrontIs
<1>2. stack' = Front(stack) /\ ret' = d
  BY DEF Returns
<1> QED BY <1>1, <1>2

\* The same, as the steps below say it.
LEMMA BecomesReplace ==
  ASSUME stack \in Seq(Frames), stack # <<>>, NEW call \in Frames, Becomes(call)
  PROVE  Replaces(Len(stack), call)
  BY BecomesIs DEF Replaces

\* The same, as the steps below say it.
LEMMA ReturnsPop ==
  ASSUME stack \in Seq(Frames), stack # <<>>, NEW d, Returns(d)
  PROVE  Pops(Len(stack), d)
  BY ReturnsIs DEF Pops

-----------------------------------------------------------------------------
(* The steps of the machine, told by the call on top.                      *)

At(n, fn, at) == n = Len(stack) /\ n \in Nat \ {0} /\ stack[n].fn = fn /\ stack[n].at = at
Reads == i \in 1 .. Len(tokens) /\ i' = i + 1

EnterStep(n, l) ==
  /\ At(n, l, "entry") /\ ret = Called
  /\ Pushes(n, "first", NULL, Call(Operand[l], "entry", NULL))
  /\ UNCHANGED <<i, nodes>>
FirstStep(n, l) ==
  /\ At(n, l, "first") /\ ret # Called /\ ret # NULL
  /\ Replaces(n, Call(l, "loop", ret))
  /\ UNCHANGED <<i, nodes>>
OperatorStep(n, l) ==
  /\ At(n, l, "loop") /\ ret = Called /\ Reads /\ tokens[i] \in Operators[l]
  /\ nodes' = Append(nodes, Node(tokens[i], NULL, stack[n].left))
  /\ Pushes(n, "operand", Len(nodes) + 1, Call(Operand[l], "entry", NULL))
RestStep(n, l) ==
  /\ At(n, l, "operand") /\ ret # Called /\ ret # NULL
  /\ nodes' = [nodes EXCEPT ![stack[n].dag].right = ret]
  /\ Pushes(n, "rest", stack[n].dag, Call(l, "loop", stack[n].dag))
  /\ UNCHANGED i
AgainStep(n, l) ==
  /\ At(n, l, "rest") /\ ret # Called /\ ret # NULL
  /\ \E g \in Frames : /\ g.fn = l /\ g.at = "loop" /\ g.dag = ret
                       /\ g.left = stack[n].left /\ Replaces(n, g)
  /\ UNCHANGED <<i, nodes>>
LastStep(n, l) ==
  /\ At(n, l, "loop") /\ ret = Called /\ next \notin Operators[l]
  /\ Pops(n, stack[n].dag)
  /\ UNCHANGED <<i, nodes>>
PlusStep(n) ==
  /\ At(n, "unary", "entry") /\ ret = Called /\ Reads /\ tokens[i] = "+"
  /\ Pushes(n, "plus", NULL, Call("unary", "entry", NULL))
  /\ UNCHANGED nodes
MinusStep(n) ==
  /\ At(n, "unary", "entry") /\ ret = Called /\ Reads /\ tokens[i] = "-"
  /\ nodes' = Append(nodes, Node("neg", NULL, NULL))
  /\ Pushes(n, "minus", Len(nodes) + 1, Call("unary", "entry", NULL))
PlusReturns(n) ==
  /\ At(n, "unary", "plus") /\ ret # Called /\ ret # NULL
  /\ Pops(n, ret)
  /\ UNCHANGED <<i, nodes>>
MinusReturns(n) ==
  /\ At(n, "unary", "minus") /\ ret # Called /\ ret # NULL
  /\ nodes' = [nodes EXCEPT ![stack[n].dag].right = ret]
  /\ Pops(n, stack[n].dag)
  /\ UNCHANGED i
UnsignedStep(n) ==
  /\ At(n, "unary", "entry") /\ ret = Called /\ next \notin {"+", "-"}
  /\ Replaces(n, Call("primary", "entry", NULL))
  /\ UNCHANGED <<i, nodes>>
LiteralStep(n) ==
  /\ At(n, "primary", "entry") /\ ret = Called /\ Reads /\ tokens[i] \in Literals
  /\ nodes' = Append(nodes, Node("val", i, NULL))
  /\ Pops(n, Len(nodes) + 1)
OpenStep(n) ==
  /\ At(n, "primary", "entry") /\ ret = Called /\ Reads /\ tokens[i] = "("
  /\ Pushes(n, "close", NULL, Call("sum", "entry", NULL))
  /\ UNCHANGED nodes
CloseStep(n) ==
  /\ At(n, "primary", "close") /\ ret # Called /\ ret # NULL /\ Reads /\ tokens[i] = ")"
  /\ Pops(n, ret)
  /\ UNCHANGED nodes
\* The function fails, and says NULL.
FailStep(n) ==
  /\ Pops(n, NULL) /\ n \in Nat \ {0} /\ n = Len(stack)
  /\ UNCHANGED <<i, nodes>>
  /\ \/ ret = NULL /\ UNCHANGED noMemory
     \/ noMemory' = TRUE
     \/ At(n, "primary", "close") /\ ret # Called /\ next # ")" /\ UNCHANGED noMemory
     \/ /\ At(n, "primary", "entry") /\ ret = Called /\ next \notin Literals \cup {"("}
        /\ UNCHANGED noMemory

\* A token that matches is there.
LEMMA Matches ==
  ASSUME tokens \in Seq(Lexemes), i \in 1 .. Len(tokens) + 1,
         NEW S, match(S), SENTINEL \notin S
  PROVE  i \in 1 .. Len(tokens) /\ next = tokens[i] /\ tokens[i] \in S
  BY DEF match, next

\* Reading it moves on by one.
LEMMA Forwards ==
  ASSUME i \in 1 .. Len(tokens), Len(tokens) \in Nat, forward
  PROVE  Reads
  BY DEF forward, Reads

Framed == stack \in Seq(Frames) /\ tokens \in Seq(Lexemes) /\ i \in 1 .. Len(tokens) + 1
            /\ ret \in Nat \cup {Called}
            /\ \A j \in 1 .. Len(stack) : stack[j].dag \in Nat /\ stack[j].left \in Nat
            /\ Len(nodes) \in Nat

\* The call on top.
LEMMA TopIs ==
  ASSUME Framed, stack # <<>>, NEW fn, NEW at, Top.fn = fn, Top.at = at
  PROVE  /\ At(Len(stack), fn, at) /\ Top = stack[Len(stack)] /\ Top \in Frames
         /\ Top.dag \in Nat /\ Top.left \in Nat
<1>1. Len(stack) \in Nat \ {0}
  BY EmptySeq DEF Framed
<1>2. Len(stack) \in 1 .. Len(stack)
  BY <1>1
<1>3. Top \in Frames
  BY <1>2, ElementOfSeq DEF Top, Framed
<1> QED BY <1>1, <1>3 DEF Top, At, Frames

\* sum or product calls its operand.
LEMMA EnterIs ==
  ASSUME Framed, NEW l \in Levels, Enter(l)
  PROVE  EnterStep(Len(stack), l)
<1>1. /\ stack # <<>> /\ Top.fn = l /\ Top.at = "entry" /\ ret = Called
      /\ Calls(Call(Operand[l], "entry", NULL), "first", NULL)
      /\ UNCHANGED <<i, nodes>>
  BY DEF Enter, Begins
<1>2. Operand[l] \in ParserFunctions /\ NULL \in Nat
  BY Sets DEF ParserFunctions, Phrases, NULL
<1>3. Call(Operand[l], "entry", NULL) \in Frames
  BY <1>2, CallIs
<1>4. Pushes(Len(stack), "first", NULL, Call(Operand[l], "entry", NULL))
  BY <1>1, <1>2, <1>3, CallsIs DEF Framed
<1> QED BY <1>1, <1>4, TopIs DEF EnterStep

\* Its first operand has returned.
LEMMA FirstIs ==
  ASSUME Framed, NEW l \in Levels, First(l)
  PROVE  FirstStep(Len(stack), l)
<1>1. /\ stack # <<>> /\ Top.fn = l /\ Top.at = "first" /\ ret # Called /\ ret # NULL
      /\ Becomes(Call(l, "loop", ret))
      /\ UNCHANGED <<i, nodes>>
  BY DEF First, Resumes
<1>2. l \in ParserFunctions /\ ret \in Nat
  BY <1>1, Sets DEF ParserFunctions, Phrases, Framed
<1>3. Call(l, "loop", ret) \in Frames
  BY <1>2, CallIs
<1>4. Replaces(Len(stack), Call(l, "loop", ret))
  BY <1>1, <1>3, BecomesReplace DEF Framed
<1> QED BY <1>1, <1>4, TopIs DEF FirstStep

\* It reads an operator and makes the node.
LEMMA OperatorIs ==
  ASSUME Framed, NEW l \in Levels, Operator(l)
  PROVE  OperatorStep(Len(stack), l)
<1>1. /\ stack # <<>> /\ Top.fn = l /\ Top.at = "loop" /\ ret = Called
      /\ match(Operators[l]) /\ forward
      /\ nodes' = Append(nodes, Node(next, NULL, Top.left))
      /\ Calls(Call(Operand[l], "entry", NULL), "operand", Len(nodes) + 1)
  BY DEF Operator, Begins, Makes, New
<1>2. Operand[l] \in ParserFunctions /\ NULL \in Nat /\ Len(nodes) + 1 \in Nat
  BY Sets DEF ParserFunctions, Phrases, NULL, Framed
<1>3. Call(Operand[l], "entry", NULL) \in Frames
  BY <1>2, CallIs
<1>4. Pushes(Len(stack), "operand", Len(nodes) + 1, Call(Operand[l], "entry", NULL))
  BY <1>1, <1>2, <1>3, CallsIs DEF Framed
<1>5. i \in 1 .. Len(tokens) /\ next = tokens[i] /\ tokens[i] \in Operators[l]
  <2>1. SENTINEL \notin Operators[l]
    BY Sets DEF SENTINEL
  <2> QED BY <1>1, <2>1, Matches DEF Framed
<1>6. Reads
  <2>1. Len(tokens) \in Nat
    BY DEF Framed
  <2> QED BY <1>1, <1>5, <2>1, Forwards
<1> QED BY <1>1, <1>4, <1>5, <1>6, TopIs DEF OperatorStep

\* The operand on the right has returned, and is stored.
LEMMA RestIs ==
  ASSUME Framed, NEW l \in Levels, Rest(l)
  PROVE  RestStep(Len(stack), l)
<1>1. /\ stack # <<>> /\ Top.fn = l /\ Top.at = "operand" /\ ret # Called /\ ret # NULL
      /\ nodes' = [nodes EXCEPT ![Top.dag].right = ret]
      /\ Calls(Call(l, "loop", Top.dag), "rest", Top.dag)
      /\ UNCHANGED i
  BY DEF Rest, Resumes
<1>2. l \in ParserFunctions /\ Top.dag \in Nat
  BY <1>1, TopIs, Sets DEF ParserFunctions, Phrases
<1>3. Call(l, "loop", Top.dag) \in Frames
  BY <1>2, CallIs
<1>4. Pushes(Len(stack), "rest", Top.dag, Call(l, "loop", Top.dag))
  BY <1>1, <1>2, <1>3, CallsIs DEF Framed
<1> QED BY <1>1, <1>4, TopIs DEF RestStep

\* Then the loop goes on with the next operator.
LEMMA AgainIs ==
  ASSUME Framed, NEW l \in Levels, Again(l)
  PROVE  AgainStep(Len(stack), l)
<1>1. /\ stack # <<>> /\ Top.fn = l /\ Top.at = "rest" /\ ret # Called /\ ret # NULL
      /\ Becomes([Top EXCEPT !.at = "loop", !.dag = ret])
      /\ UNCHANGED <<i, nodes>>
  BY DEF Again, Resumes
<1>2. ret \in Nat /\ Top \in Frames
  BY <1>1, TopIs DEF Framed
<1>3. PICK g : g = [Top EXCEPT !.at = "loop", !.dag = ret]
  OBVIOUS
<1>4. g \in Frames /\ g.fn = l /\ g.at = "loop" /\ g.dag = ret /\ g.left = Top.left
  BY <1>1, <1>2, <1>3 DEF Frames
<1>5. Replaces(Len(stack), g)
  BY <1>1, <1>3, <1>4, BecomesReplace DEF Framed
<1> QED BY <1>1, <1>4, <1>5, TopIs DEF AgainStep

\* The loop ends without one.
LEMMA LastOperandIs ==
  ASSUME Framed, NEW l \in Levels, LastOperand(l)
  PROVE  LastStep(Len(stack), l)
<1>1. /\ stack # <<>> /\ Top.fn = l /\ Top.at = "loop" /\ ret = Called
      /\ next \notin Operators[l] /\ Returns(Top.dag)
      /\ UNCHANGED <<i, nodes>>
  BY DEF LastOperand, Begins, match
<1>2. Pops(Len(stack), Top.dag)
  BY <1>1, ReturnsPop DEF Framed
<1> QED BY <1>1, <1>2, TopIs DEF LastStep

\* unary reads a plus.
LEMMA PlusIs ==
  ASSUME Framed, Plus
  PROVE  PlusStep(Len(stack))
<1>1. /\ stack # <<>> /\ Top.fn = "unary" /\ Top.at = "entry" /\ ret = Called
      /\ match({"+"}) /\ forward
      /\ Calls(Call("unary", "entry", NULL), "plus", NULL)
      /\ UNCHANGED nodes
  BY DEF Plus, Begins
<1>2. "unary" \in ParserFunctions /\ NULL \in Nat
  BY DEF ParserFunctions, Phrases, NULL
<1>3. Call("unary", "entry", NULL) \in Frames
  BY <1>2, CallIs
<1>4. Pushes(Len(stack), "plus", NULL, Call("unary", "entry", NULL))
  BY <1>1, <1>2, <1>3, CallsIs DEF Framed
<1>5. i \in 1 .. Len(tokens) /\ tokens[i] \in {"+"}
  <2>1. SENTINEL \notin {"+"}
    BY DEF SENTINEL
  <2> QED BY <1>1, <2>1, Matches DEF Framed
<1>6. Reads
  <2>1. Len(tokens) \in Nat
    BY DEF Framed
  <2> QED BY <1>1, <1>5, <2>1, Forwards
<1> QED BY <1>1, <1>4, <1>5, <1>6, TopIs DEF PlusStep

\* unary reads a minus and makes the node.
LEMMA MinusIs ==
  ASSUME Framed, Minus
  PROVE  MinusStep(Len(stack))
<1>1. /\ stack # <<>> /\ Top.fn = "unary" /\ Top.at = "entry" /\ ret = Called
      /\ match({"-"}) /\ forward
      /\ nodes' = Append(nodes, Node("neg", NULL, NULL))
      /\ Calls(Call("unary", "entry", NULL), "minus", Len(nodes) + 1)
  BY DEF Minus, Begins, Makes, New
<1>2. "unary" \in ParserFunctions /\ NULL \in Nat /\ Len(nodes) + 1 \in Nat
  BY DEF ParserFunctions, Phrases, NULL, Framed
<1>3. Call("unary", "entry", NULL) \in Frames
  BY <1>2, CallIs
<1>4. Pushes(Len(stack), "minus", Len(nodes) + 1, Call("unary", "entry", NULL))
  BY <1>1, <1>2, <1>3, CallsIs DEF Framed
<1>5. i \in 1 .. Len(tokens) /\ tokens[i] \in {"-"}
  <2>1. SENTINEL \notin {"-"}
    BY DEF SENTINEL
  <2> QED BY <1>1, <2>1, Matches DEF Framed
<1>6. Reads
  <2>1. Len(tokens) \in Nat
    BY DEF Framed
  <2> QED BY <1>1, <1>5, <2>1, Forwards
<1> QED BY <1>1, <1>4, <1>5, <1>6, TopIs DEF MinusStep

\* What was signed has returned.
LEMMA SignedIs ==
  ASSUME Framed, Signed
  PROVE  PlusReturns(Len(stack)) \/ MinusReturns(Len(stack))
<1>1. stack # <<>> /\ ret # Called /\ ret # NULL /\ UNCHANGED i /\ Top.fn = "unary"
  BY DEF Signed, Resumes
<1>2. CASE Top.at = "plus" /\ Returns(ret) /\ UNCHANGED nodes
  <2>1. Pops(Len(stack), ret)
    BY <1>1, <1>2, ReturnsPop DEF Framed
  <2> QED BY <1>1, <1>2, <2>1, TopIs DEF PlusReturns
<1>3. CASE Top.at = "minus" /\ Returns(Top.dag) /\ nodes' = [nodes EXCEPT ![Top.dag].right = ret]
  <2>1. Pops(Len(stack), Top.dag)
    BY <1>1, <1>3, ReturnsPop DEF Framed
  <2> QED BY <1>1, <1>3, <2>1, TopIs DEF MinusReturns
<1> QED BY <1>2, <1>3 DEF Signed, Resumes

\* unary without a sign is primary.
LEMMA UnsignedIs ==
  ASSUME Framed, Unsigned
  PROVE  UnsignedStep(Len(stack))
<1>1. /\ stack # <<>> /\ Top.fn = "unary" /\ Top.at = "entry" /\ ret = Called
      /\ next \notin {"+", "-"} /\ Becomes(Call("primary", "entry", NULL))
      /\ UNCHANGED <<i, nodes>>
  BY DEF Unsigned, Begins, match
<1>2. "primary" \in ParserFunctions /\ NULL \in Nat
  BY DEF ParserFunctions, Phrases, NULL
<1>3. Call("primary", "entry", NULL) \in Frames
  BY <1>2, CallIs
<1>4. Replaces(Len(stack), Call("primary", "entry", NULL))
  BY <1>1, <1>3, BecomesReplace DEF Framed
<1> QED BY <1>1, <1>4, TopIs DEF UnsignedStep

\* primary makes the node of a literal.
LEMMA LiteralIs ==
  ASSUME Framed, Literal
  PROVE  LiteralStep(Len(stack))
<1>1. /\ stack # <<>> /\ Top.fn = "primary" /\ Top.at = "entry" /\ ret = Called
      /\ match(Literals) /\ forward
      /\ nodes' = Append(nodes, Node("val", i, NULL))
      /\ Returns(Len(nodes) + 1)
  BY DEF Literal, Begins, Makes, New
<1>2. Pops(Len(stack), Len(nodes) + 1)
  BY <1>1, ReturnsPop DEF Framed
<1>3. i \in 1 .. Len(tokens) /\ tokens[i] \in Literals
  <2>1. SENTINEL \notin Literals
    BY DEF SENTINEL, Literals
  <2> QED BY <1>1, <2>1, Matches DEF Framed
<1>4. Reads
  <2>1. Len(tokens) \in Nat
    BY DEF Framed
  <2> QED BY <1>1, <1>3, <2>1, Forwards
<1> QED BY <1>1, <1>2, <1>3, <1>4, TopIs DEF LiteralStep

\* primary reads a left parenthesis.
LEMMA OpenIs ==
  ASSUME Framed, Open
  PROVE  OpenStep(Len(stack))
<1>1. /\ stack # <<>> /\ Top.fn = "primary" /\ Top.at = "entry" /\ ret = Called
      /\ match({"("}) /\ forward
      /\ Calls(Call("sum", "entry", NULL), "close", NULL)
      /\ UNCHANGED nodes
  BY DEF Open, Begins
<1>2. "sum" \in ParserFunctions /\ NULL \in Nat
  BY DEF ParserFunctions, Phrases, NULL
<1>3. Call("sum", "entry", NULL) \in Frames
  BY <1>2, CallIs
<1>4. Pushes(Len(stack), "close", NULL, Call("sum", "entry", NULL))
  BY <1>1, <1>2, <1>3, CallsIs DEF Framed
<1>5. i \in 1 .. Len(tokens) /\ tokens[i] \in {"("}
  <2>1. SENTINEL \notin {"("}
    BY DEF SENTINEL
  <2> QED BY <1>1, <2>1, Matches DEF Framed
<1>6. Reads
  <2>1. Len(tokens) \in Nat
    BY DEF Framed
  <2> QED BY <1>1, <1>5, <2>1, Forwards
<1> QED BY <1>1, <1>4, <1>5, <1>6, TopIs DEF OpenStep

\* The sum in parentheses has returned: what follows closes them, or not.
LEMMA CloseIs ==
  ASSUME Framed, Close
  PROVE  CloseStep(Len(stack)) \/ FailStep(Len(stack))
<1>1. /\ stack # <<>> /\ ret # Called /\ ret # NULL
      /\ Top.fn = "primary" /\ Top.at = "close" /\ UNCHANGED <<nodes, noMemory>>
  BY DEF Close, Resumes, Keeps
<1>2. CASE match({")"})
  <2>1. forward /\ Returns(ret)
    BY <1>2 DEF Close
  <2>2. Pops(Len(stack), ret)
    BY <1>1, <2>1, ReturnsPop DEF Framed
  <2>3. i \in 1 .. Len(tokens) /\ tokens[i] \in {")"}
    <3>1. SENTINEL \notin {")"}
      BY DEF SENTINEL
    <3> QED BY <1>2, <3>1, Matches DEF Framed
  <2>4. Reads
    <3>1. Len(tokens) \in Nat
      BY DEF Framed
    <3> QED BY <2>1, <2>3, <3>1, Forwards
  <2> QED BY <1>1, <2>2, <2>3, <2>4, TopIs DEF CloseStep
<1>3. CASE ~match({")"})
  <2>1. Returns(NULL) /\ UNCHANGED i /\ next # ")"
    BY <1>3 DEF Close, match
  <2>2. Pops(Len(stack), NULL)
    BY <1>1, <2>1, ReturnsPop DEF Framed
  <2>3. At(Len(stack), "primary", "close")
    BY <1>1, TopIs
  <2> QED BY <1>1, <2>1, <2>2, <2>3 DEF FailStep, At
<1> QED BY <1>2, <1>3

\* The steps in which a function fails.
LEMMA FailIs ==
  ASSUME Framed, Abandon \/ NoPrimary \/ NoNode
  PROVE  FailStep(Len(stack))
<1>1. stack # <<>> /\ Returns(NULL) /\ UNCHANGED <<i, nodes>>
  BY DEF Abandon, NoPrimary, NoNode, Begins
<1>2. Pops(Len(stack), NULL) /\ Len(stack) \in Nat \ {0}
  BY <1>1, ReturnsPop DEF Framed, Pops
<1>3. CASE Abandon
  BY <1>1, <1>2, <1>3 DEF FailStep, Abandon, Keeps
<1>4. CASE NoPrimary
  <2>1. /\ Top.fn = "primary" /\ Top.at = "entry" /\ ret = Called
        /\ next \notin Literals \cup {"("} /\ UNCHANGED noMemory
    BY <1>4 DEF NoPrimary, Begins, match, Keeps
  <2>2. At(Len(stack), "primary", "entry")
    BY <1>1, <2>1, TopIs
  <2> QED BY <1>1, <1>2, <2>1, <2>2 DEF FailStep
<1>5. CASE NoNode
  BY <1>1, <1>2, <1>5 DEF FailStep, NoNode
<1> QED BY <1>3, <1>4, <1>5

Succeeds(n) ==
  \/ \E l \in Levels : \/ EnterStep(n, l) \/ FirstStep(n, l) \/ OperatorStep(n, l)
                       \/ RestStep(n, l) \/ AgainStep(n, l) \/ LastStep(n, l)
  \/ PlusStep(n) \/ MinusStep(n) \/ PlusReturns(n) \/ MinusReturns(n) \/ UnsignedStep(n)
  \/ LiteralStep(n) \/ OpenStep(n) \/ CloseStep(n)

\* Every step of the parser is one of the above.
LEMMA ParseIs ==
  ASSUME Framed, Parse
  PROVE  \E n \in Nat \ {0} :
           /\ n = Len(stack) /\ tokens' = tokens
           /\ (Succeeds(n) /\ noMemory' = noMemory) \/ FailStep(n)
<1>1. tokens' = tokens
  BY DEF Parse, Enter, First, Operator, Rest, Again, LastOperand, Plus, Minus, Signed,
         Unsigned, Literal, Open, Close, NoPrimary, Abandon, NoNode, Keeps
<1>2. CASE Abandon \/ NoPrimary \/ NoNode
  <2>1. FailStep(Len(stack))
    BY <1>2, FailIs
  <2> QED BY <1>1, <2>1 DEF FailStep
<1>3. CASE Close
  <2>1. CloseStep(Len(stack)) \/ FailStep(Len(stack))
    BY <1>3, CloseIs
  <2>2. Len(stack) \in Nat \ {0} /\ noMemory' = noMemory
    BY <1>3, <2>1 DEF Close, Keeps, CloseStep, FailStep, At
  <2> QED BY <1>1, <2>1, <2>2 DEF Succeeds
<1>4. CASE Plus \/ Minus \/ Signed \/ Unsigned \/ Literal \/ Open
  <2>1. \/ PlusStep(Len(stack)) \/ MinusStep(Len(stack)) \/ PlusReturns(Len(stack))
        \/ MinusReturns(Len(stack)) \/ UnsignedStep(Len(stack)) \/ LiteralStep(Len(stack))
        \/ OpenStep(Len(stack))
    BY <1>4, PlusIs, MinusIs, SignedIs, UnsignedIs, LiteralIs, OpenIs
  <2>2. noMemory' = noMemory
    BY <1>4 DEF Plus, Minus, Signed, Unsigned, Literal, Open, Keeps
  <2>3. Len(stack) \in Nat \ {0}
    BY <2>1 DEF PlusStep, MinusStep, PlusReturns, MinusReturns, UnsignedStep, LiteralStep,
                OpenStep, At
  <2> QED BY <1>1, <2>1, <2>2, <2>3 DEF Succeeds
<1>5. ASSUME NEW l \in Levels,
             \/ Enter(l) \/ First(l) \/ Operator(l) \/ Rest(l) \/ Again(l) \/ LastOperand(l)
      PROVE  Succeeds(Len(stack)) /\ noMemory' = noMemory /\ Len(stack) \in Nat \ {0}
  <2>1. \/ EnterStep(Len(stack), l) \/ FirstStep(Len(stack), l) \/ OperatorStep(Len(stack), l)
        \/ RestStep(Len(stack), l) \/ AgainStep(Len(stack), l) \/ LastStep(Len(stack), l)
    BY <1>5, EnterIs, FirstIs, OperatorIs, RestIs, AgainIs, LastOperandIs
  <2>2. noMemory' = noMemory
    BY <1>5 DEF Enter, First, Operator, Rest, Again, LastOperand, Keeps
  <2>3. Len(stack) \in Nat \ {0}
    BY <2>1 DEF EnterStep, FirstStep, OperatorStep, RestStep, AgainStep, LastStep, At
  <2> QED BY <2>1, <2>2, <2>3 DEF Succeeds
<1> QED BY <1>1, <1>2, <1>3, <1>4, <1>5 DEF Parse

Tokenizes(f, arg, m) ==
  f = [k \in 0 .. m |-> IF k = 0 THEN <<>>
                        ELSE IF arg[k] = " " THEN f[k - 1] ELSE Append(f[k - 1], arg[k])]

\* The recursion of Tokenized goes forward.
LEMMA TokenizesUpTo ==
  ASSUME NEW arg \in Seq(Lexemes), NEW m \in 0 .. Len(arg)
  PROVE  \E f : Tokenizes(f, arg, m) /\ \A k \in 0 .. m : f[k] \in Seq(Lexemes)
<1> DEFINE P(f, n) == Tokenizes(f, arg, n) /\ \A k \in 0 .. n : f[k] \in Seq(Lexemes)
           Bad == {n \in 0 .. Len(arg) : ~\E f : P(f, n)}
<1>1. SUFFICES ASSUME Bad # {} PROVE FALSE
  OBVIOUS
<1>2. PICK n \in Bad : \A j \in Bad : n <= j
  <2>1. Bad \subseteq Nat
    OBVIOUS
  <2> HIDE DEF Bad
  <2> QED BY <1>1, <2>1, LeastNatural
<1>3. n \in 0 .. Len(arg) /\ ~\E f : P(f, n)
  OBVIOUS
<1>4. n # 0
  <2> DEFINE f == [k \in 0 .. 0 |-> <<>>]
  <2>1. Tokenizes(f, arg, 0)
    <3>1. \A k \in 0 .. 0 : k = 0
      OBVIOUS
    <3>2. [k \in 0 .. 0 |-> IF k = 0 THEN <<>>
                            ELSE IF arg[k] = " " THEN f[k - 1] ELSE Append(f[k - 1], arg[k])]
            = [k \in 0 .. 0 |-> <<>>]
      BY <3>1
    <3> QED BY <3>2 DEF Tokenizes
  <2>2. \A k \in 0 .. 0 : f[k] \in Seq(Lexemes)
    OBVIOUS
  <2> HIDE DEF f
  <2>3. P(f, 0)
    BY <2>1, <2>2
  <2> QED BY <1>3, <2>3
<1>5. n - 1 \in 0 .. Len(arg) /\ n - 1 \notin Bad
  BY <1>2, <1>3, <1>4
<1>6. PICK f : P(f, n - 1)
  BY <1>5
<1>7. \A k \in 0 .. n - 1 : f[k] = IF k = 0 THEN <<>>
                                  ELSE IF arg[k] = " " THEN f[k - 1] ELSE Append(f[k - 1], arg[k])
  BY <1>6 DEF Tokenizes
<1> DEFINE g == [k \in 0 .. n |-> IF k = 0 THEN <<>>
                        ELSE IF arg[k] = " " THEN f[k - 1] ELSE Append(f[k - 1], arg[k])]
<1>8. \A k \in 0 .. n - 1 : g[k] = f[k]
  <2>1. \A k \in 0 .. n - 1 : k \in 0 .. n
    BY <1>3
  <2> QED BY <1>7, <2>1
<1>9. \A k \in 0 .. n : k # 0 => k - 1 \in 0 .. n - 1
  BY <1>3
<1>10. g = [k \in 0 .. n |-> IF k = 0 THEN <<>>
                        ELSE IF arg[k] = " " THEN g[k - 1] ELSE Append(g[k - 1], arg[k])]
  <2>1. \A k \in 0 .. n : g[k] = IF k = 0 THEN <<>>
                        ELSE IF arg[k] = " " THEN g[k - 1] ELSE Append(g[k - 1], arg[k])
    BY <1>8, <1>9
  <2> QED BY <2>1
<1>11. ASSUME NEW k \in 0 .. n PROVE g[k] \in Seq(Lexemes)
  <2>1. CASE k = 0
    BY <2>1
  <2>2. CASE k # 0
    <3>1. k - 1 \in 0 .. n - 1 /\ k \in 1 .. Len(arg)
      BY <1>3, <1>9, <2>2
    <3>2. f[k - 1] \in Seq(Lexemes) /\ arg[k] \in Lexemes
      BY <1>6, <3>1
    <3>3. Append(f[k - 1], arg[k]) \in Seq(Lexemes)
      BY <3>2, AppendProperties
    <3> QED BY <2>2, <3>2, <3>3
  <2> QED BY <2>1, <2>2
<1> HIDE DEF g
<1>12. P(g, n)
  BY <1>10, <1>11 DEF Tokenizes
<1> QED BY <1>3, <1>12

\* What the lexer makes of an argument are tokens.
LEMMA TokenizedIs ==
  ASSUME NEW arg \in Seq(Lexemes)
  PROVE  Tokenized(arg) \in Seq(Lexemes)
<1>1. PICK m \in Nat : m = Len(arg)
  OBVIOUS
<1> DEFINE f == CHOOSE f : Tokenizes(f, arg, m)
<1>2. Tokenized(arg) = f[m]
  BY <1>1 DEF Tokenized, Tokenizes
<1>3. Tokenizes(f, arg, m)
  <2>1. \E h : Tokenizes(h, arg, m)
    BY <1>1, TokenizesUpTo
  <2> QED BY <2>1
<1> HIDE DEF f
<1>4. PICK g : Tokenizes(g, arg, m) /\ \A k \in 0 .. m : g[k] \in Seq(Lexemes)
  BY <1>1, TokenizesUpTo
<1> DEFINE Bad == {k \in 0 .. m : f[k] # g[k]}
<1>5. Bad = {}
  <2>1. SUFFICES ASSUME Bad # {} PROVE FALSE
    OBVIOUS
  <2>2. PICK k \in Bad : \A j \in Bad : k <= j
    <3>1. Bad \subseteq Nat
      OBVIOUS
    <3> HIDE DEF Bad
    <3> QED BY <2>1, <3>1, LeastNatural
  <2>3. k \in 0 .. m /\ f[k] # g[k]
    OBVIOUS
  <2>4. /\ f[k] = IF k = 0 THEN <<>>
                  ELSE IF arg[k] = " " THEN f[k - 1] ELSE Append(f[k - 1], arg[k])
        /\ g[k] = IF k = 0 THEN <<>>
                  ELSE IF arg[k] = " " THEN g[k - 1] ELSE Append(g[k - 1], arg[k])
    BY <1>3, <1>4, <2>3 DEF Tokenizes
  <2>5. CASE k = 0
    BY <2>3, <2>4, <2>5
  <2>6. CASE k # 0
    <3>1. k - 1 \in 0 .. m /\ ~(k <= k - 1)
      BY <2>3, <2>6
    <3>2. k - 1 \notin Bad
      BY <2>2, <3>1
    <3>3. f[k - 1] = g[k - 1]
      BY <3>1, <3>2
    <3> QED BY ONLY <2>3, <2>4, <2>6, <3>3
  <2> QED BY <2>5, <2>6
<1>6. m \in 0 .. m
  OBVIOUS
<1> QED BY <1>2, <1>4, <1>5, <1>6

-----------------------------------------------------------------------------
(* What the variables of the parser are.                                   *)

NodeSet == [op : Kinds, val : Nat, left : Nat, right : Nat]

\* The kinds of nodes, one by one.
LEMMA KindsAre == Kinds = {"val", "neg", "+", "-", "*", "/"}
<1>1. Range(Operators) = {{"+", "-"}, {"*", "/"}}
  BY Sets DEF Range, Levels
<1>2. UNION {{"+", "-"}, {"*", "/"}} = {"+", "-", "*", "/"}
  OBVIOUS
<1> QED BY <1>1, <1>2 DEF Kinds

ParserTypeOK ==
  /\ tokens \in Seq(Lexemes) /\ i \in 1 .. Len(tokens) + 1
  /\ nodes \in Seq(NodeSet)
  /\ ret \in {Called} \cup 0 .. Len(nodes)
  /\ noMemory \in BOOLEAN
  /\ Shape
  /\ \A j \in 1 .. Len(stack) :
       /\ stack[j].dag \in 0 .. Len(nodes) /\ stack[j].left \in 0 .. Len(nodes)
       /\ stack[j].at \in {"operand", "minus"} => stack[j].dag # NULL

\* What the steps need of the types.
LEMMA TypeFrame ==
  ASSUME ParserTypeOK
  PROVE  Framed /\ Len(nodes) \in Nat /\ Len(tokens) \in Nat /\ Len(stack) \in Nat
  BY DEF ParserTypeOK, Framed, Shape

\* The parser starts with its types.
LEMMA StartTyped ==
  ASSUME NEW arg \in Seq(Lexemes), Start(arg)
  PROVE  ParserTypeOK'
<1>1. tokens' \in Seq(Lexemes)
  BY TokenizedIs DEF Start
<1>2. Call("sum", "entry", NULL) \in Frames /\ Working(Call("sum", "entry", NULL))
  <2>1. "sum" \in ParserFunctions /\ NULL \in Nat /\ "sum" \in Levels
    BY Sets DEF ParserFunctions, Phrases, NULL
  <2> QED BY <2>1, CallIs DEF Working
<1>3. PICK g : g = Call("sum", "entry", NULL)
  OBVIOUS
<1>4. g.dag = 0 /\ g.left = 0 /\ g.at = "entry" /\ g \in Frames /\ Working(g)
  BY <1>2, <1>3 DEF Call, NULL
<1>5. stack' = <<g>> /\ ret' = Called /\ i' = 1 /\ nodes' = <<>> /\ noMemory' = FALSE
  BY <1>3 DEF Start
<1>6. stack' \in Seq(Frames) /\ Len(stack') = 1 /\ stack'[1] = g /\ stack' # <<>>
  BY <1>4, <1>5
<1>7. Shape'
  <2>1. \A j \in 1 .. Len(stack') - 1 : Waiting(stack'[j])
    BY <1>6
  <2>2. Top' = g
    BY <1>6 DEF Top
  <2> QED BY <1>4, <1>5, <1>6, <2>1, <2>2 DEF Shape
<1>8. \A j \in 1 .. Len(stack') :
       /\ stack'[j].dag \in 0 .. Len(nodes') /\ stack'[j].left \in 0 .. Len(nodes')
       /\ stack'[j].at \in {"operand", "minus"} => stack'[j].dag # NULL
  <2>1. \A j \in 1 .. Len(stack') : stack'[j] = g
    BY <1>6
  <2>2. Len(nodes') = 0
    BY <1>5
  <2> QED BY <1>4, <2>1, <2>2
<1>9. nodes' \in Seq(NodeSet)
  BY <1>5
<1>10. i' \in 1 .. Len(tokens') + 1
  BY <1>1, <1>5
<1> QED BY <1>1, <1>5, <1>7, <1>8, <1>9, <1>10 DEF ParserTypeOK

\* An argument without tokens has the types too.
LEMMA BlankTyped ==
  ASSUME Blank
  PROVE  ParserTypeOK'
<1>1. /\ tokens' = <<>> /\ stack' = <<>> /\ ret' = NULL
      /\ i' = 1 /\ nodes' = <<>> /\ noMemory' = FALSE
  BY DEF Blank
<1>2. Len(<<>>) = 0
  OBVIOUS
<1>3. NULL \in 0 .. Len(nodes') /\ NULL # Called
  BY <1>1, <1>2 DEF NULL, Called
<1>4. Shape'
  <2>1. stack' \in Seq(Frames)
    BY <1>1
  <2>2. \A j \in 1 .. Len(stack') - 1 : Waiting(stack'[j])
    <3>1. \A j \in 1 .. Len(stack') - 1 : FALSE
      BY <1>1, <1>2
    <3> QED BY <3>1
  <2>3. ret' # Called
    BY <1>1, <1>3
  <2> QED BY <1>1, <2>1, <2>2, <2>3 DEF Shape
<1>5. nodes' \in Seq(NodeSet) /\ tokens' \in Seq(Lexemes) /\ i' \in 1 .. Len(tokens') + 1
  BY <1>1, <1>2
<1>6. \A j \in 1 .. Len(stack') : FALSE
  BY <1>1, <1>2
<1> QED BY <1>1, <1>3, <1>4, <1>5, <1>6 DEF ParserTypeOK

-----------------------------------------------------------------------------
\* The shape survives what a step does to the stack.

\* A call whose caller waits.
LEMMA PushShape ==
  ASSUME Shape, NEW n, NEW at, NEW d, NEW g, Pushes(n, at, d, g),
         Waiting(stack'[n]), Working(g)
  PROVE  Shape'
<1>1. /\ n \in Nat \ {0} /\ n = Len(stack) /\ Len(stack') = n + 1 /\ stack' \in Seq(Frames)
      /\ \A j \in 1 .. n - 1 : stack'[j] = stack[j]
      /\ stack'[n + 1] = g /\ ret' = Called
  BY DEF Pushes
<1>2. \A j \in 1 .. Len(stack') - 1 : Waiting(stack'[j])
  <2>1. \A j \in 1 .. Len(stack') - 1 : j = n \/ j \in 1 .. n - 1
    BY <1>1
  <2> QED BY <1>1, <2>1 DEF Shape
<1>3. stack' # <<>>
  BY <1>1
<1>4. Top' = g
  BY <1>1 DEF Top
<1> QED BY <1>1, <1>2, <1>3, <1>4 DEF Shape

\* A tail call.
LEMMA ReplaceShape ==
  ASSUME Shape, NEW n, NEW g, Replaces(n, g), Working(g)
  PROVE  Shape'
<1>1. /\ n \in Nat \ {0} /\ n = Len(stack) /\ Len(stack') = n /\ stack' \in Seq(Frames)
      /\ \A j \in 1 .. n - 1 : stack'[j] = stack[j]
      /\ stack'[n] = g /\ ret' = Called
  BY DEF Replaces
<1>2. stack' # <<>>
  BY <1>1
<1>3. Top' = g
  BY <1>1 DEF Top
<1> QED BY <1>1, <1>2, <1>3 DEF Shape

\* A return.
LEMMA PopShape ==
  ASSUME Shape, NEW n, NEW d, Pops(n, d), d # Called
  PROVE  Shape'
<1>1. /\ n \in Nat \ {0} /\ n = Len(stack) /\ Len(stack') = n - 1 /\ stack' \in Seq(Frames)
      /\ \A j \in 1 .. n - 1 : stack'[j] = stack[j]
      /\ ret' = d
  BY DEF Pops
<1>2. \A j \in 1 .. Len(stack') : Waiting(stack'[j])
  BY <1>1 DEF Shape
<1>3. stack' # <<>> => Waiting(Top')
  <2>1. stack' # <<>> => Len(stack') \in 1 .. Len(stack')
    BY <1>1, EmptySeq
  <2> QED BY <1>2, <2>1 DEF Top
<1>4. \A j \in 1 .. Len(stack') - 1 : Waiting(stack'[j])
  <2>1. \A j \in 1 .. Len(stack') - 1 : j \in 1 .. Len(stack')
    BY <1>1
  <2> QED BY <1>2, <2>1
<1> QED BY <1>1, <1>3, <1>4 DEF Shape

\* What the steps below leave of the types.
Stays ==
  /\ tokens' = tokens /\ i' \in 1 .. Len(tokens) + 1 /\ noMemory' \in BOOLEAN
  /\ nodes' \in Seq(NodeSet) /\ Len(nodes') >= Len(nodes)

\* A call keeps the types.
LEMMA PushTyped ==
  ASSUME ParserTypeOK, Stays, NEW n, NEW at, NEW d \in 0 .. Len(nodes'), NEW g,
         Pushes(n, at, d, g), Waiting(stack'[n]), Working(g),
         g.dag \in 0 .. Len(nodes'), g.left \in 0 .. Len(nodes'),
         at \in {"operand", "minus"} => d # NULL
  PROVE  ParserTypeOK'
<1>1. Shape'
  BY PushShape DEF ParserTypeOK
<1>2. /\ n \in Nat \ {0} /\ n = Len(stack) /\ Len(stack') = n + 1
      /\ \A j \in 1 .. n - 1 : stack'[j] = stack[j]
      /\ stack'[n].left = stack[n].left /\ stack'[n].dag = d /\ stack'[n].at = at
      /\ stack'[n + 1] = g /\ ret' = Called
  BY DEF Pushes
<1>3. Len(nodes) \in Nat /\ Len(nodes') \in Nat /\ Len(nodes) <= Len(nodes')
  BY DEF Stays, ParserTypeOK
<1>4. g.at \notin {"operand", "minus"}
  BY DEF Working
<1>5. ASSUME NEW j \in 1 .. Len(stack')
      PROVE  /\ stack'[j].dag \in 0 .. Len(nodes') /\ stack'[j].left \in 0 .. Len(nodes')
             /\ stack'[j].at \in {"operand", "minus"} => stack'[j].dag # NULL
  <2>1. CASE j = n + 1
    BY <1>2, <1>4, <2>1
  <2>2. CASE j = n
    <3>1. stack[n].left \in 0 .. Len(nodes)
      BY <1>2 DEF ParserTypeOK
    <3> QED BY <1>2, <1>3, <2>2, <3>1
  <2>3. CASE j \in 1 .. n - 1
    <3>1. j \in 1 .. Len(stack) /\ stack'[j] = stack[j]
      BY <1>2, <2>3
    <3>2. /\ stack[j].dag \in 0 .. Len(nodes) /\ stack[j].left \in 0 .. Len(nodes)
          /\ stack[j].at \in {"operand", "minus"} => stack[j].dag # NULL
      BY <3>1 DEF ParserTypeOK
    <3> QED BY <1>3, <3>1, <3>2
  <2> QED BY <1>2, <2>1, <2>2, <2>3
<1>6. /\ tokens' \in Seq(Lexemes) /\ i' \in 1 .. Len(tokens') + 1
      /\ nodes' \in Seq(NodeSet) /\ noMemory' \in BOOLEAN
  BY DEF Stays, ParserTypeOK
<1> QED BY <1>1, <1>2, <1>5, <1>6 DEF ParserTypeOK

\* So does a tail call.
LEMMA ReplaceTyped ==
  ASSUME ParserTypeOK, Stays, NEW n, NEW g, Replaces(n, g), Working(g),
         g.dag \in 0 .. Len(nodes'), g.left \in 0 .. Len(nodes')
  PROVE  ParserTypeOK'
<1>1. Shape'
  BY ReplaceShape DEF ParserTypeOK
<1>2. /\ n \in Nat \ {0} /\ n = Len(stack) /\ Len(stack') = n
      /\ \A j \in 1 .. n - 1 : stack'[j] = stack[j]
      /\ stack'[n] = g /\ ret' = Called
  BY DEF Replaces
<1>3. Len(nodes) \in Nat /\ Len(nodes') \in Nat /\ Len(nodes) <= Len(nodes')
  BY DEF Stays, ParserTypeOK
<1>4. g.at \notin {"operand", "minus"}
  BY DEF Working
<1>5. ASSUME NEW j \in 1 .. Len(stack')
      PROVE  /\ stack'[j].dag \in 0 .. Len(nodes') /\ stack'[j].left \in 0 .. Len(nodes')
             /\ stack'[j].at \in {"operand", "minus"} => stack'[j].dag # NULL
  <2>1. CASE j = n
    BY <1>2, <1>4, <2>1
  <2>2. CASE j \in 1 .. n - 1
    <3>1. j \in 1 .. Len(stack) /\ stack'[j] = stack[j]
      BY <1>2, <2>2
    <3>2. /\ stack[j].dag \in 0 .. Len(nodes) /\ stack[j].left \in 0 .. Len(nodes)
          /\ stack[j].at \in {"operand", "minus"} => stack[j].dag # NULL
      BY <3>1 DEF ParserTypeOK
    <3> QED BY <1>3, <3>1, <3>2
  <2> QED BY <1>2, <2>1, <2>2
<1>6. /\ tokens' \in Seq(Lexemes) /\ i' \in 1 .. Len(tokens') + 1
      /\ nodes' \in Seq(NodeSet) /\ noMemory' \in BOOLEAN
  BY DEF Stays, ParserTypeOK
<1> QED BY <1>1, <1>2, <1>5, <1>6 DEF ParserTypeOK

\* So does a return.
LEMMA PopTyped ==
  ASSUME ParserTypeOK, Stays, NEW n, NEW d \in 0 .. Len(nodes'), Pops(n, d)
  PROVE  ParserTypeOK'
<1>1. d # Called
  BY DEF Called
<1>2. Shape'
  BY <1>1, PopShape DEF ParserTypeOK
<1>3. /\ n \in Nat \ {0} /\ n = Len(stack) /\ Len(stack') = n - 1
      /\ \A j \in 1 .. n - 1 : stack'[j] = stack[j]
      /\ ret' = d
  BY DEF Pops
<1>4. Len(nodes) \in Nat /\ Len(nodes') \in Nat /\ Len(nodes) <= Len(nodes')
  BY DEF Stays, ParserTypeOK
<1>5. ASSUME NEW j \in 1 .. Len(stack')
      PROVE  /\ stack'[j].dag \in 0 .. Len(nodes') /\ stack'[j].left \in 0 .. Len(nodes')
             /\ stack'[j].at \in {"operand", "minus"} => stack'[j].dag # NULL
  <2>1. j \in 1 .. Len(stack) /\ stack'[j] = stack[j]
    BY <1>3
  <2>2. /\ stack[j].dag \in 0 .. Len(nodes) /\ stack[j].left \in 0 .. Len(nodes)
        /\ stack[j].at \in {"operand", "minus"} => stack[j].dag # NULL
    BY <2>1 DEF ParserTypeOK
  <2> QED BY <1>4, <2>1, <2>2
<1>6. /\ tokens' \in Seq(Lexemes) /\ i' \in 1 .. Len(tokens') + 1
      /\ nodes' \in Seq(NodeSet) /\ noMemory' \in BOOLEAN
  BY DEF Stays, ParserTypeOK
<1> QED BY <1>2, <1>3, <1>5, <1>6 DEF ParserTypeOK

-----------------------------------------------------------------------------
\* A node is made, or gets its right operand.

Grows(node) ==
  /\ nodes' \in Seq(NodeSet) /\ Len(nodes') = Len(nodes) + 1 /\ Len(nodes) \in Nat
  /\ nodes'[Len(nodes) + 1] = node
  /\ \A p \in 1 .. Len(nodes) : nodes'[p] = nodes[p]

\* Appending a node grows the forest.
LEMMA GrowsIs ==
  ASSUME nodes \in Seq(NodeSet), NEW op \in Kinds, NEW val \in Nat, NEW left \in Nat,
         nodes' = Append(nodes, Node(op, val, left))
  PROVE  Grows(Node(op, val, left))
<1>1. PICK node \in NodeSet : node = Node(op, val, left)
  BY DEF Node, NodeSet, NULL
<1>2. /\ nodes' \in Seq(NodeSet) /\ Len(nodes') = Len(nodes) + 1 /\ Len(nodes) \in Nat
      /\ nodes'[Len(nodes) + 1] = node
      /\ \A p \in 1 .. Len(nodes) : nodes'[p] = nodes[p]
  BY <1>1, AppendProperties
<1> QED BY <1>1, <1>2 DEF Grows

Completes(d, e) ==
  /\ nodes' \in Seq(NodeSet) /\ Len(nodes') = Len(nodes) /\ Len(nodes) \in Nat
  /\ \A p \in 1 .. Len(nodes) :
       /\ nodes'[p].op = nodes[p].op /\ nodes'[p].val = nodes[p].val
       /\ nodes'[p].left = nodes[p].left
       /\ nodes'[p].right = IF p = d THEN e ELSE nodes[p].right

\* Storing the operand on the right completes a node.
LEMMA CompletesIs ==
  ASSUME nodes \in Seq(NodeSet), NEW d \in 1 .. Len(nodes), NEW e \in Nat,
         nodes' = [nodes EXCEPT ![d].right = e]
  PROVE  Completes(d, e)
<1>1. nodes[d] \in NodeSet
  BY ElementOfSeq
<1>2. PICK node : node = [nodes[d] EXCEPT !.right = e]
  OBVIOUS
<1>3. /\ node \in NodeSet /\ node.op = nodes[d].op /\ node.val = nodes[d].val
      /\ node.left = nodes[d].left /\ node.right = e
  BY <1>1, <1>2 DEF NodeSet
<1>4. nodes' = [nodes EXCEPT ![d] = node]
  BY <1>1, <1>2 DEF NodeSet
<1>5. PICK n \in Nat : n = Len(nodes)
  OBVIOUS
<1>6. /\ nodes' \in Seq(NodeSet) /\ Len(nodes') = n
      /\ \A p \in 1 .. n : nodes'[p] = IF p = d THEN node ELSE nodes[p]
  BY <1>3, <1>4, <1>5, ExceptSeq
<1> QED BY <1>3, <1>5, <1>6 DEF Completes

\* An operator is the kind of a node with two operands.
LEMMA OperatorKind ==
  ASSUME NEW l \in Levels, NEW op \in Operators[l]
  PROVE  op \in Kinds /\ op \notin {"val", "neg"}
  BY Sets, KindsAre

\* The steps on nodes and tokens leave the rest of the types.
LEMMA StaysIs ==
  ASSUME ParserTypeOK, tokens' = tokens, noMemory' \in BOOLEAN,
         i' = i \/ Reads,
         \/ nodes' = nodes
         \/ \E node : Grows(node)
         \/ \E d, e : Completes(d, e)
  PROVE  Stays
<1>1. Len(nodes) \in Nat /\ Len(tokens) \in Nat /\ i \in 1 .. Len(tokens) + 1
      /\ nodes \in Seq(NodeSet)
  BY DEF ParserTypeOK
<1>2. i' \in 1 .. Len(tokens) + 1
  BY <1>1 DEF Reads
<1>3. nodes' \in Seq(NodeSet) /\ Len(nodes') >= Len(nodes)
  BY <1>1 DEF Grows, Completes
<1> QED BY <1>2, <1>3 DEF Stays

\* The calls that sum and product make.
LEMMA LevelCall ==
  ASSUME NEW l \in Levels, NEW d \in Nat
  PROVE  /\ Working(Call(l, "loop", d)) /\ Working(Call(Operand[l], "entry", d))
         /\ Call(l, "loop", d).dag = d /\ Call(l, "loop", d).left = d
         /\ Call(Operand[l], "entry", d).dag = d /\ Call(Operand[l], "entry", d).left = d
  BY Sets DEF Working, Call

\* A call at its entry holds nothing.
LEMMA EntryCall ==
  ASSUME NEW fn \in ParserFunctions
  PROVE  /\ Working(Call(fn, "entry", NULL))
         /\ Call(fn, "entry", NULL).dag = 0 /\ Call(fn, "entry", NULL).left = 0
  BY Sets DEF Working, Call, ParserFunctions, Phrases, NULL

\* A caller waits.
LEMMA WaitsIs ==
  ASSUME NEW n, NEW at, NEW d, NEW g, Pushes(n, at, d, g),
         \/ stack[n].fn \in Levels /\ at \in {"first", "operand", "rest"}
         \/ stack[n].fn = "unary" /\ at \in {"plus", "minus"}
         \/ stack[n].fn = "primary" /\ at = "close"
  PROVE  Waiting(stack'[n])
  BY DEF Pushes, Waiting

\* The steps of sum and product keep the types.
LEMMA LevelsTyped ==
  ASSUME ParserTypeOK, tokens' = tokens, noMemory' = noMemory, NEW n, NEW l \in Levels,
         \/ EnterStep(n, l) \/ FirstStep(n, l) \/ OperatorStep(n, l)
         \/ RestStep(n, l) \/ AgainStep(n, l) \/ LastStep(n, l)
  PROVE  ParserTypeOK'
<1>1. PICK m \in Nat : m = Len(nodes)
  BY DEF ParserTypeOK
<1>2. noMemory' \in BOOLEAN /\ nodes \in Seq(NodeSet) /\ ret \in {Called} \cup 0 .. m
  BY <1>1 DEF ParserTypeOK
<1>3. n = Len(stack) /\ n \in Nat \ {0} /\ stack[n].fn = l
  BY DEF EnterStep, FirstStep, OperatorStep, RestStep, AgainStep, LastStep, At
<1>4. /\ stack[n].dag \in 0 .. m /\ stack[n].left \in 0 .. m
      /\ stack[n].at \in {"operand", "minus"} => stack[n].dag # NULL
  BY <1>1, <1>3 DEF ParserTypeOK
<1>5. CASE EnterStep(n, l)
  <2>1. Pushes(n, "first", NULL, Call(Operand[l], "entry", NULL)) /\ nodes' = nodes /\ i' = i
    BY <1>5 DEF EnterStep
  <2>2. Stays
    BY <1>2, <2>1, StaysIs
  <2>3. Waiting(stack'[n])
    BY <1>3, <2>1, WaitsIs
  <2>4. NULL \in 0 .. Len(nodes') /\ NULL = 0
    BY <1>1, <2>1 DEF NULL
  <2>5. Working(Call(Operand[l], "entry", NULL))
        /\ Call(Operand[l], "entry", NULL).dag = 0 /\ Call(Operand[l], "entry", NULL).left = 0
    BY <2>4, LevelCall
  <2> QED BY <2>1, <2>2, <2>3, <2>4, <2>5, PushTyped
<1>6. CASE FirstStep(n, l)
  <2>1. Replaces(n, Call(l, "loop", ret)) /\ nodes' = nodes /\ i' = i /\ ret # Called
    BY <1>6 DEF FirstStep
  <2>2. Stays
    BY <1>2, <2>1, StaysIs
  <2>3. ret \in 0 .. Len(nodes') /\ ret \in Nat
    BY <1>1, <1>2, <2>1
  <2>4. /\ Working(Call(l, "loop", ret))
        /\ Call(l, "loop", ret).dag = ret /\ Call(l, "loop", ret).left = ret
    BY <2>3, LevelCall
  <2> QED BY <2>1, <2>2, <2>3, <2>4, ReplaceTyped
<1>7. CASE OperatorStep(n, l)
  <2>1. /\ Pushes(n, "operand", Len(nodes) + 1, Call(Operand[l], "entry", NULL))
        /\ nodes' = Append(nodes, Node(tokens[i], NULL, stack[n].left)) /\ Reads
        /\ tokens[i] \in Operators[l]
    BY <1>7 DEF OperatorStep
  <2>2. tokens[i] \in Kinds /\ NULL \in Nat /\ NULL = 0 /\ stack[n].left \in Nat
    BY <1>4, <2>1, OperatorKind DEF NULL
  <2>3. Grows(Node(tokens[i], NULL, stack[n].left))
    BY <1>2, <2>1, <2>2, GrowsIs
  <2>4. Stays
    BY <1>2, <2>1, <2>3, StaysIs
  <2>5. Waiting(stack'[n])
    BY <1>3, <2>1, WaitsIs
  <2>6. Len(nodes) + 1 \in 0 .. Len(nodes') /\ 0 \in 0 .. Len(nodes') /\ Len(nodes) + 1 # NULL
    BY <1>1, <2>2, <2>3 DEF Grows
  <2>7. Working(Call(Operand[l], "entry", NULL))
        /\ Call(Operand[l], "entry", NULL).dag = 0 /\ Call(Operand[l], "entry", NULL).left = 0
    BY <2>2, LevelCall
  <2> QED BY <2>1, <2>4, <2>5, <2>6, <2>7, PushTyped
<1>8. CASE RestStep(n, l)
  <2>1. /\ stack[n].at = "operand" /\ ret # Called
        /\ nodes' = [nodes EXCEPT ![stack[n].dag].right = ret]
        /\ Pushes(n, "rest", stack[n].dag, Call(l, "loop", stack[n].dag)) /\ i' = i
    BY <1>8 DEF RestStep, At
  <2>2. stack[n].dag \in 1 .. Len(nodes) /\ stack[n].dag \in Nat /\ ret \in Nat
    BY <1>1, <1>2, <1>4, <2>1 DEF NULL
  <2>3. Completes(stack[n].dag, ret)
    BY <1>2, <2>1, <2>2, CompletesIs
  <2>4. Stays
    BY <1>2, <2>1, <2>3, StaysIs
  <2>5. Waiting(stack'[n])
    BY <1>3, <2>1, WaitsIs
  <2>6. stack[n].dag \in 0 .. Len(nodes')
    BY <1>1, <1>4, <2>3 DEF Completes
  <2>7. PICK d : d = stack[n].dag
    OBVIOUS
  <2>8. /\ Working(Call(l, "loop", d))
        /\ Call(l, "loop", d).dag = d /\ Call(l, "loop", d).left = d
    BY <2>2, <2>7, LevelCall
  <2> QED BY <2>1, <2>4, <2>5, <2>6, <2>7, <2>8, PushTyped
<1>9. CASE AgainStep(n, l)
  <2>1. PICK g \in Frames : /\ g.fn = l /\ g.at = "loop" /\ g.dag = ret
                               /\ g.left = stack[n].left /\ Replaces(n, g)
    BY <1>9 DEF AgainStep
  <2>2. nodes' = nodes /\ i' = i /\ ret # Called
    BY <1>9 DEF AgainStep
  <2>3. Stays
    BY <1>2, <2>2, StaysIs
  <2>4. Working(g) /\ g.dag \in 0 .. Len(nodes') /\ g.left \in 0 .. Len(nodes')
    BY <1>1, <1>2, <1>4, <2>1, <2>2 DEF Working
  <2> QED BY <2>1, <2>3, <2>4, ReplaceTyped
<1>10. CASE LastStep(n, l)
  <2>1. Pops(n, stack[n].dag) /\ nodes' = nodes /\ i' = i
    BY <1>10 DEF LastStep
  <2>2. Stays
    BY <1>2, <2>1, StaysIs
  <2>3. stack[n].dag \in 0 .. Len(nodes')
    BY <1>1, <1>4, <2>1
  <2> QED BY <2>1, <2>2, <2>3, PopTyped
<1> QED BY <1>5, <1>6, <1>7, <1>8, <1>9, <1>10

\* The steps of unary and primary keep the types.
LEMMA OthersTyped ==
  ASSUME ParserTypeOK, tokens' = tokens, noMemory' \in BOOLEAN, NEW n,
         \/ PlusStep(n) \/ MinusStep(n) \/ PlusReturns(n) \/ MinusReturns(n)
         \/ UnsignedStep(n) \/ LiteralStep(n) \/ OpenStep(n) \/ CloseStep(n) \/ FailStep(n)
  PROVE  ParserTypeOK'
<1>1. PICK m \in Nat : m = Len(nodes)
  BY DEF ParserTypeOK
<1>2. /\ nodes \in Seq(NodeSet) /\ ret \in {Called} \cup 0 .. m /\ Len(tokens) \in Nat
      /\ 0 \in 0 .. m /\ NULL = 0 /\ NULL \in 0 .. m /\ NULL \in Nat
  BY <1>1 DEF ParserTypeOK, NULL
<1>3. n = Len(stack) /\ n \in Nat \ {0}
  BY DEF PlusStep, MinusStep, PlusReturns, MinusReturns, UnsignedStep, LiteralStep,
         OpenStep, CloseStep, FailStep, At
<1>4. /\ stack[n].dag \in 0 .. m /\ stack[n].left \in 0 .. m
      /\ stack[n].at \in {"operand", "minus"} => stack[n].dag # NULL
  BY <1>1, <1>3 DEF ParserTypeOK
<1>5. "unary" \in ParserFunctions /\ "primary" \in ParserFunctions /\ "sum" \in ParserFunctions
  BY DEF ParserFunctions, Phrases
<1>6. CASE PlusStep(n)
  <2>1. /\ Pushes(n, "plus", NULL, Call("unary", "entry", NULL)) /\ nodes' = nodes /\ Reads
        /\ stack[n].fn = "unary"
    BY <1>6 DEF PlusStep, At
  <2>2. Stays
    BY <1>2, <2>1, StaysIs
  <2>3. Waiting(stack'[n])
    BY <2>1, WaitsIs
  <2> QED BY <1>1, <1>2, <1>5, <2>1, <2>2, <2>3, EntryCall, PushTyped
<1>7. CASE OpenStep(n)
  <2>1. /\ Pushes(n, "close", NULL, Call("sum", "entry", NULL)) /\ nodes' = nodes /\ Reads
        /\ stack[n].fn = "primary"
    BY <1>7 DEF OpenStep, At
  <2>2. Stays
    BY <1>2, <2>1, StaysIs
  <2>3. Waiting(stack'[n])
    BY <2>1, WaitsIs
  <2> QED BY <1>1, <1>2, <1>5, <2>1, <2>2, <2>3, EntryCall, PushTyped
<1>8. CASE MinusStep(n)
  <2>1. /\ Pushes(n, "minus", Len(nodes) + 1, Call("unary", "entry", NULL)) /\ Reads
        /\ nodes' = Append(nodes, Node("neg", NULL, NULL)) /\ stack[n].fn = "unary"
    BY <1>8 DEF MinusStep, At
  <2>2. Grows(Node("neg", NULL, NULL))
    BY <1>2, <2>1, GrowsIs, KindsAre
  <2>3. Stays
    BY <2>1, <2>2, StaysIs
  <2>4. Waiting(stack'[n])
    BY <2>1, WaitsIs
  <2>5. Len(nodes) + 1 \in 0 .. Len(nodes') /\ 0 \in 0 .. Len(nodes') /\ Len(nodes) + 1 # NULL
    BY <1>1, <1>2, <2>2 DEF Grows
  <2> QED BY <1>5, <2>1, <2>3, <2>4, <2>5, EntryCall, PushTyped
<1>9. CASE PlusReturns(n)
  <2>1. Pops(n, ret) /\ nodes' = nodes /\ i' = i /\ ret # Called
    BY <1>9 DEF PlusReturns
  <2>2. Stays
    BY <2>1, StaysIs
  <2>3. ret \in 0 .. Len(nodes')
    BY <1>1, <1>2, <2>1
  <2> QED BY <2>1, <2>2, <2>3, PopTyped
<1>10. CASE CloseStep(n)
  <2>1. Pops(n, ret) /\ nodes' = nodes /\ Reads /\ ret # Called
    BY <1>10 DEF CloseStep
  <2>2. Stays
    BY <2>1, StaysIs
  <2>3. ret \in 0 .. Len(nodes')
    BY <1>1, <1>2, <2>1
  <2> QED BY <2>1, <2>2, <2>3, PopTyped
<1>11. CASE MinusReturns(n)
  <2>1. /\ Pops(n, stack[n].dag) /\ nodes' = [nodes EXCEPT ![stack[n].dag].right = ret]
        /\ i' = i /\ ret # Called /\ stack[n].at = "minus"
    BY <1>11 DEF MinusReturns, At
  <2>2. stack[n].dag \in 1 .. Len(nodes) /\ ret \in Nat
    BY <1>1, <1>2, <1>4, <2>1
  <2>3. Completes(stack[n].dag, ret)
    BY <1>2, <2>1, <2>2, CompletesIs
  <2>4. Stays
    BY <2>1, <2>3, StaysIs
  <2>5. stack[n].dag \in 0 .. Len(nodes')
    BY <1>1, <1>4, <2>3 DEF Completes
  <2> QED BY <2>1, <2>4, <2>5, PopTyped
<1>12. CASE UnsignedStep(n)
  <2>1. Replaces(n, Call("primary", "entry", NULL)) /\ nodes' = nodes /\ i' = i
    BY <1>12 DEF UnsignedStep
  <2>2. Stays
    BY <2>1, StaysIs
  <2> QED BY <1>1, <1>2, <1>5, <2>1, <2>2, EntryCall, ReplaceTyped
<1>13. CASE LiteralStep(n)
  <2>1. /\ Pops(n, Len(nodes) + 1) /\ Reads
        /\ nodes' = Append(nodes, Node("val", i, NULL))
    BY <1>13 DEF LiteralStep
  <2>2. i \in Nat /\ "val" \in Kinds
    BY <1>2, <2>1, KindsAre DEF Reads
  <2>3. Grows(Node("val", i, NULL))
    BY <1>2, <2>1, <2>2, GrowsIs
  <2>4. Stays
    BY <2>1, <2>3, StaysIs
  <2>5. Len(nodes) + 1 \in 0 .. Len(nodes')
    BY <1>1, <2>3 DEF Grows
  <2> QED BY <2>1, <2>4, <2>5, PopTyped
<1>14. CASE FailStep(n)
  <2>1. Pops(n, NULL) /\ nodes' = nodes /\ i' = i
    BY <1>14 DEF FailStep
  <2>2. Stays
    BY <2>1, StaysIs
  <2> QED BY <1>1, <1>2, <2>1, <2>2, PopTyped
<1> QED BY <1>6, <1>7, <1>8, <1>9, <1>10, <1>11, <1>12, <1>13, <1>14

\* Every step of the parser keeps the types.
LEMMA ParseTyped ==
  ASSUME ParserTypeOK, Parse
  PROVE  ParserTypeOK'
<1>1. Framed
  BY TypeFrame
<1>2. PICK n \in Nat \ {0} : /\ n = Len(stack) /\ tokens' = tokens
                             /\ (Succeeds(n) /\ noMemory' = noMemory) \/ FailStep(n)
  BY <1>1, ParseIs
<1>3. noMemory \in BOOLEAN
  BY DEF ParserTypeOK
<1>4. CASE FailStep(n)
  <2>1. noMemory' \in BOOLEAN
    BY <1>3, <1>4 DEF FailStep
  <2> QED BY <1>2, <1>4, <2>1, OthersTyped
<1>5. CASE Succeeds(n) /\ noMemory' = noMemory
  <2>1. noMemory' \in BOOLEAN
    BY <1>3, <1>5
  <2> QED BY <1>2, <1>5, <2>1, LevelsTyped, OthersTyped DEF Succeeds
<1> QED BY <1>2, <1>4, <1>5

-----------------------------------------------------------------------------
(* Who holds a node: what was returned (slot 0), a call (slot j), or a     *)
(* node on its left or right.                                              *)

Kept(at, d) == IF at \in {"loop", "operand", "minus"} THEN d ELSE NULL
Wait(at, d) == IF at \in {"operand", "minus"} THEN d ELSE NULL
Held(j) == IF j = 0 THEN (IF ret = Called THEN NULL ELSE ret)
           ELSE IF j \in 1 .. Len(stack) THEN Kept(stack[j].at, stack[j].dag) ELSE NULL
Awaited(j) == IF j \in 1 .. Len(stack) THEN Wait(stack[j].at, stack[j].dag) ELSE NULL
Side(k, p) == IF p \in 1 .. Len(nodes)
                THEN (IF k = "left" THEN nodes[p].left ELSE nodes[p].right) ELSE NULL

Places == {"slot", "left", "right"} \X Nat
Owned == [x \in Places |-> IF x[1] = "slot" THEN Held(x[2]) ELSE Side(x[1], x[2])]

\* Every one of m nodes has one place.
Once(C, m) ==
  /\ C \in [Places -> 0 .. m]
  /\ \A d \in 1 .. m : \E x \in Places : C[x] = d
  /\ \A x, y \in Places : C[x] = C[y] /\ C[x] # NULL => x = y

\* A place, by its parts.
LEMMA PlaceIs ==
  ASSUME NEW k \in {"slot", "left", "right"}, NEW j \in Nat
  PROVE  /\ <<k, j>> \in Places
         /\ Owned[<<k, j>>] = IF k = "slot" THEN Held(j) ELSE Side(k, j)
  BY DEF Places, Owned

\* The parts of a place.
LEMMA PlacesAre ==
  ASSUME NEW x \in Places
  PROVE  \E k \in {"slot", "left", "right"}, j \in Nat : x = <<k, j>>
  BY DEF Places

\* Two places may change what they hold.
LEMMA OnceSwap ==
  ASSUME NEW m \in Nat, NEW C, Once(C, m), NEW x \in Places, NEW y \in Places,
         NEW D, D = [z \in Places |-> IF z = x THEN C[y] ELSE IF z = y THEN C[x] ELSE C[z]]
  PROVE  Once(D, m)
<1>1. /\ C \in [Places -> 0 .. m]
      /\ \A d \in 1 .. m : \E z \in Places : C[z] = d
      /\ \A z, w \in Places : C[z] = C[w] /\ C[z] # NULL => z = w
  BY DEF Once
<1>2. \A z \in Places : D[z] = IF z = x THEN C[y] ELSE IF z = y THEN C[x] ELSE C[z]
  OBVIOUS
<1>3. D \in [Places -> 0 .. m]
  BY <1>1
<1>4. ASSUME NEW d \in 1 .. m PROVE \E z \in Places : D[z] = d
  <2>1. PICK z \in Places : C[z] = d
    BY <1>1
  <2>2. CASE z = x
    BY <1>2, <2>1, <2>2
  <2>3. CASE z = y
    BY <1>2, <2>1, <2>3
  <2>4. CASE z # x /\ z # y
    BY <1>2, <2>1, <2>4
  <2> QED BY <2>2, <2>3, <2>4
<1>5. ASSUME NEW z \in Places, NEW w \in Places, D[z] = D[w], D[z] # NULL PROVE z = w
  BY ONLY <1>1, <1>2, <1>5, x \in Places, y \in Places
<1> QED BY <1>3, <1>4, <1>5 DEF Once

\* A new node may go to a place that is empty.
LEMMA OnceAdd ==
  ASSUME NEW m \in Nat, NEW C, Once(C, m), NEW x \in Places, C[x] = NULL,
         NEW D, D = [z \in Places |-> IF z = x THEN m + 1 ELSE C[z]]
  PROVE  Once(D, m + 1)
<1>1. /\ C \in [Places -> 0 .. m]
      /\ \A d \in 1 .. m : \E z \in Places : C[z] = d
      /\ \A z, w \in Places : C[z] = C[w] /\ C[z] # NULL => z = w
  BY DEF Once
<1>2. \A z \in Places : D[z] = IF z = x THEN m + 1 ELSE C[z]
  OBVIOUS
<1>3. \A z \in Places : C[z] \in 0 .. m /\ C[z] # m + 1
  BY <1>1
<1>4. D \in [Places -> 0 .. m + 1]
  <2>1. \A z \in Places : D[z] \in 0 .. m + 1
    BY <1>2, <1>3
  <2> QED BY <2>1
<1>5. ASSUME NEW d \in 1 .. m + 1 PROVE \E z \in Places : D[z] = d
  <2>1. CASE d = m + 1
    BY <1>2, <2>1
  <2>2. CASE d # m + 1
    <3>1. d \in 1 .. m
      BY <2>2
    <3>2. PICK z \in Places : C[z] = d
      BY <1>1, <3>1
    <3>3. z # x
      BY <3>1, <3>2 DEF NULL
    <3> QED BY <1>2, <3>2, <3>3
  <2> QED BY <2>1, <2>2
<1>6. ASSUME NEW z \in Places, NEW w \in Places, D[z] = D[w], D[z] # NULL PROVE z = w
  BY ONLY <1>1, <1>2, <1>3, <1>6, x \in Places
<1> QED BY <1>4, <1>5, <1>6 DEF Once

-----------------------------------------------------------------------------
\* What the steps do to the places.

\* A call.
LEMMA PushHeld ==
  ASSUME NEW n, NEW at, NEW d, NEW g, Pushes(n, at, d, g)
  PROVE  \A j \in Nat :
           /\ Held(j)' = IF j = 0 THEN NULL ELSE IF j = n THEN Kept(at, d)
                         ELSE IF j = n + 1 THEN Kept(g.at, g.dag) ELSE Held(j)
           /\ Awaited(j)' = IF j = n THEN Wait(at, d)
                            ELSE IF j = n + 1 THEN Wait(g.at, g.dag) ELSE Awaited(j)
<1>1. /\ n \in Nat \ {0} /\ n = Len(stack) /\ Len(stack') = n + 1
      /\ \A j \in 1 .. n - 1 : stack'[j] = stack[j]
      /\ stack'[n].at = at /\ stack'[n].dag = d /\ stack'[n + 1] = g /\ ret' = Called
  BY DEF Pushes
<1>2. SUFFICES ASSUME NEW j \in Nat
               PROVE  /\ Held(j)' = IF j = 0 THEN NULL ELSE IF j = n THEN Kept(at, d)
                                    ELSE IF j = n + 1 THEN Kept(g.at, g.dag) ELSE Held(j)
                      /\ Awaited(j)' = IF j = n THEN Wait(at, d)
                                       ELSE IF j = n + 1 THEN Wait(g.at, g.dag) ELSE Awaited(j)
  OBVIOUS
<1>3. CASE j \in 1 .. n - 1
  <2>1. /\ j \in 1 .. Len(stack) /\ j \in 1 .. Len(stack') /\ stack'[j] = stack[j]
        /\ j # 0 /\ j # n /\ j # n + 1
    BY <1>1, <1>3
  <2> QED BY <2>1 DEF Held, Awaited
<1>4. CASE j = n \/ j = n + 1
  <2>1. j \in 1 .. Len(stack') /\ j # 0 /\ n + 1 # n
    BY <1>1, <1>4
  <2> QED BY <1>1, <1>4, <2>1 DEF Held, Awaited
<1>5. CASE j = 0 \/ j > n + 1
  <2>1. j \notin 1 .. Len(stack') /\ j \notin 1 .. Len(stack) /\ j # n /\ j # n + 1
    BY <1>1, <1>5
  <2> QED BY <1>1, <2>1 DEF Held, Awaited
<1>6. j \in 1 .. n - 1 \/ j = n \/ j = n + 1 \/ j = 0 \/ j > n + 1
  BY <1>1
<1> QED BY <1>3, <1>4, <1>5, <1>6

\* A tail call.
LEMMA ReplaceHeld ==
  ASSUME NEW n, NEW g, Replaces(n, g)
  PROVE  \A j \in Nat :
           /\ Held(j)' = IF j = 0 THEN NULL ELSE IF j = n THEN Kept(g.at, g.dag) ELSE Held(j)
           /\ Awaited(j)' = IF j = n THEN Wait(g.at, g.dag) ELSE Awaited(j)
<1>1. /\ n \in Nat \ {0} /\ n = Len(stack) /\ Len(stack') = n
      /\ \A j \in 1 .. n - 1 : stack'[j] = stack[j]
      /\ stack'[n] = g /\ ret' = Called
  BY DEF Replaces
<1>2. SUFFICES ASSUME NEW j \in Nat
               PROVE  /\ Held(j)' = IF j = 0 THEN NULL
                                    ELSE IF j = n THEN Kept(g.at, g.dag) ELSE Held(j)
                      /\ Awaited(j)' = IF j = n THEN Wait(g.at, g.dag) ELSE Awaited(j)
  OBVIOUS
<1>3. CASE j \in 1 .. n - 1
  <2>1. j \in 1 .. Len(stack) /\ j \in 1 .. Len(stack') /\ stack'[j] = stack[j] /\ j # 0 /\ j # n
    BY <1>1, <1>3
  <2> QED BY <2>1 DEF Held, Awaited
<1>4. CASE j = n
  BY <1>1, <1>4 DEF Held, Awaited
<1>5. CASE j = 0 \/ j > n
  <2>1. j \notin 1 .. Len(stack') /\ j \notin 1 .. Len(stack) /\ j # n
    BY <1>1, <1>5
  <2> QED BY <1>1, <2>1 DEF Held, Awaited
<1>6. j \in 1 .. n - 1 \/ j = n \/ j = 0 \/ j > n
  BY <1>1
<1> QED BY <1>3, <1>4, <1>5, <1>6

\* A return.
LEMMA PopHeld ==
  ASSUME NEW n, NEW d, Pops(n, d), d # Called
  PROVE  \A j \in Nat :
           /\ Held(j)' = IF j = 0 THEN d ELSE IF j = n THEN NULL ELSE Held(j)
           /\ Awaited(j)' = IF j = n THEN NULL ELSE Awaited(j)
<1>1. /\ n \in Nat \ {0} /\ n = Len(stack) /\ Len(stack') = n - 1
      /\ \A j \in 1 .. n - 1 : stack'[j] = stack[j]
      /\ ret' = d
  BY DEF Pops
<1>2. SUFFICES ASSUME NEW j \in Nat
               PROVE  /\ Held(j)' = IF j = 0 THEN d ELSE IF j = n THEN NULL ELSE Held(j)
                      /\ Awaited(j)' = IF j = n THEN NULL ELSE Awaited(j)
  OBVIOUS
<1>3. CASE j \in 1 .. n - 1
  <2>1. j \in 1 .. Len(stack) /\ j \in 1 .. Len(stack') /\ stack'[j] = stack[j] /\ j # 0 /\ j # n
    BY <1>1, <1>3
  <2> QED BY <2>1 DEF Held, Awaited
<1>4. CASE j = n
  <2>1. j \notin 1 .. Len(stack') /\ j # 0
    BY <1>1, <1>4
  <2> QED BY <1>4, <2>1 DEF Held, Awaited
<1>5. CASE j = 0 \/ j > n
  <2>1. j \notin 1 .. Len(stack') /\ j \notin 1 .. Len(stack) /\ j # n
    BY <1>1, <1>5
  <2> QED BY <1>1, <2>1 DEF Held, Awaited
<1>6. j \in 1 .. n - 1 \/ j = n \/ j = 0 \/ j > n
  BY <1>1
<1> QED BY <1>3, <1>4, <1>5, <1>6

\* A new node has its own sides.
LEMMA GrowSide ==
  ASSUME NEW node, Grows(node)
  PROVE  \A k, p : Side(k, p)' = IF p = Len(nodes) + 1
                                   THEN (IF k = "left" THEN node.left ELSE node.right)
                                   ELSE Side(k, p)
<1>1. /\ Len(nodes) \in Nat /\ Len(nodes') = Len(nodes) + 1
      /\ nodes'[Len(nodes) + 1] = node
      /\ \A p \in 1 .. Len(nodes) : nodes'[p] = nodes[p]
  BY DEF Grows
<1>2. \A p : p \in 1 .. Len(nodes') <=> p \in 1 .. Len(nodes) \/ p = Len(nodes) + 1
  BY <1>1
<1> QED BY <1>1, <1>2 DEF Side

\* A node that is completed has a right side.
LEMMA CompleteSide ==
  ASSUME NEW d, NEW e, Completes(d, e), d \in 1 .. Len(nodes)
  PROVE  \A k, p : Side(k, p)' = IF k # "left" /\ p = d THEN e ELSE Side(k, p)
<1>1. /\ Len(nodes') = Len(nodes)
      /\ \A p \in 1 .. Len(nodes) :
           /\ nodes'[p].left = nodes[p].left
           /\ nodes'[p].right = IF p = d THEN e ELSE nodes[p].right
  BY DEF Completes
<1> QED BY <1>1 DEF Side

-----------------------------------------------------------------------------
(* The nodes are a forest whose roots are held, with a term T for every    *)
(* node that has its operands, and with a rank R that falls to children.   *)

Incomplete(p) == nodes[p].op # "val" /\ nodes[p].right = NULL
Value(worth, T, p) == IF nodes[p].op = "val" THEN <<"val", worth[nodes[p].val]>>
               ELSE IF nodes[p].op = "neg" THEN <<"neg", T[nodes[p].right]>>
               ELSE <<nodes[p].op, T[nodes[p].left], T[nodes[p].right]>>
Shaped(p) ==
  /\ nodes[p].op \in {"val", "neg"} <=> nodes[p].left = NULL
  /\ nodes[p].op = "val" => nodes[p].right = NULL
Ranked(R, p) ==
  /\ nodes[p].left # NULL => R[nodes[p].left] < R[p]
  /\ nodes[p].right # NULL => R[nodes[p].right] < R[p]

Forest(worth, T, R) ==
  /\ Once(Owned, Len(nodes))
  /\ \A j \in 1 .. Len(stack) : stack[j].at = "loop" => stack[j].dag # NULL
  /\ \A p \in Nat : R[p] \in Nat
  /\ \A p \in 1 .. Len(nodes) :
       /\ Shaped(p) /\ Ranked(R, p)
       /\ Incomplete(p) <=> \E j \in Nat : Awaited(j) = p
       /\ ~Incomplete(p) => T[p] = Value(worth, T, p)

\* A node is held by one place only.
LEMMA OnePlace ==
  ASSUME NEW worth, NEW T, NEW R, Forest(worth, T, R), NEW x \in Places, NEW y \in Places,
         Owned[x] = Owned[y], Owned[x] # NULL
  PROVE  x = y
  BY DEF Forest, Once

\* The sides of a node are nodes or NULL.
LEMMA SidesIn ==
  ASSUME NEW worth, NEW T, NEW R, Forest(worth, T, R), NEW p \in 1 .. Len(nodes), Len(nodes) \in Nat
  PROVE  /\ nodes[p].left \in 0 .. Len(nodes) /\ nodes[p].right \in 0 .. Len(nodes)
         /\ Owned[<<"left", p>>] = nodes[p].left /\ Owned[<<"right", p>>] = nodes[p].right
         /\ <<"left", p>> \in Places /\ <<"right", p>> \in Places
<1>1. p \in Nat
  OBVIOUS
<1>2. <<"left", p>> \in Places /\ <<"right", p>> \in Places
      /\ Owned[<<"left", p>>] = Side("left", p) /\ Owned[<<"right", p>>] = Side("right", p)
  BY <1>1, PlaceIs
<1>3. Side("left", p) = nodes[p].left /\ Side("right", p) = nodes[p].right
  BY DEF Side
<1> QED BY <1>2, <1>3 DEF Forest, Once

\* A held node has no parent.
LEMMA HeldRoot ==
  ASSUME NEW worth, NEW T, NEW R, Forest(worth, T, R), Len(nodes) \in Nat, NEW j \in Nat, Held(j) # NULL,
         NEW p \in 1 .. Len(nodes)
  PROVE  nodes[p].left # Held(j) /\ nodes[p].right # Held(j)
<1>1. <<"slot", j>> \in Places /\ Owned[<<"slot", j>>] = Held(j)
  BY PlaceIs
<1>2. <<"slot", j>> # <<"left", p>> /\ <<"slot", j>> # <<"right", p>>
  OBVIOUS
<1> QED BY <1>1, <1>2, SidesIn, OnePlace

\* No two slots hold a node.
LEMMA HeldOnce ==
  ASSUME NEW worth, NEW T, NEW R, Forest(worth, T, R), Len(nodes) \in Nat, NEW j \in Nat
  PROVE  /\ Held(j) \in 0 .. Len(nodes)
         /\ \A h \in Nat : Held(h) = Held(j) /\ Held(j) # NULL => h = j
<1>1. \A h \in Nat : <<"slot", h>> \in Places /\ Owned[<<"slot", h>>] = Held(h)
  BY PlaceIs
<1>2. Held(j) \in 0 .. Len(nodes)
  <2>1. Owned \in [Places -> 0 .. Len(nodes)]
    BY DEF Forest, Once
  <2>2. <<"slot", j>> \in Places /\ Owned[<<"slot", j>>] = Held(j)
    BY <1>1
  <2> HIDE DEF Owned, Places
  <2> QED BY <2>1, <2>2
<1>3. ASSUME NEW h \in Nat, Held(h) = Held(j), Held(j) # NULL PROVE h = j
  <2>1. <<"slot", h>> = <<"slot", j>>
    BY <1>1, <1>3, OnePlace
  <2> QED BY <2>1
<1> QED BY <1>2, <1>3

\* A node that awaits its right operand is held.
LEMMA AwaitedHeld ==
  ASSUME NEW j, Awaited(j) # NULL, j \in Nat
  PROVE  Held(j) = Awaited(j) /\ j # 0 /\ j \in 1 .. Len(stack)
  BY DEF Held, Awaited, Kept, Wait

-----------------------------------------------------------------------------
\* The nodes stay as they are, and two slots change places.
LEMMA MoveForest ==
  ASSUME NEW worth, NEW T, NEW R, Forest(worth, T, R), Len(nodes) \in Nat, nodes' = nodes,
         NEW a \in Nat, NEW b \in Nat,
         \A j \in Nat : /\ Held(j)' = IF j = a THEN Held(b)
                                         ELSE IF j = b THEN Held(a) ELSE Held(j)
                        /\ Awaited(j)' = Awaited(j),
         \A j \in 1 .. Len(stack') : stack'[j].at = "loop" => stack'[j].dag # NULL
  PROVE  Forest(worth, T, R)'
<1>1. Once(Owned', Len(nodes))
  <2> DEFINE x == <<"slot", a>>
             y == <<"slot", b>>
             D == [z \in Places |-> IF z = x THEN Owned[y] ELSE IF z = y THEN Owned[x]
                                    ELSE Owned[z]]
  <2>1. x \in Places /\ y \in Places /\ Owned[x] = Held(a) /\ Owned[y] = Held(b)
    BY PlaceIs
  <2>2. Once(D, Len(nodes))
    <3>1. Once(Owned, Len(nodes))
      BY DEF Forest
    <3> HIDE DEF x, y
    <3> QED BY <2>1, <3>1, OnceSwap
  <2>3. ASSUME NEW z \in Places PROVE Owned'[z] = D[z]
    <3>1. PICK k \in {"slot", "left", "right"}, j \in Nat : z = <<k, j>>
      BY PlacesAre
    <3>2. CASE k = "slot"
      <4>1. Owned'[z] = Held(j)' /\ Owned[z] = Held(j)
        BY <3>1, <3>2 DEF Owned
      <4>2. z = x <=> j = a
        BY <3>1, <3>2
      <4>3. z = y <=> j = b
        BY <3>1, <3>2
      <4> HIDE DEF x, y
      <4> QED BY <2>1, <4>1, <4>2, <4>3
    <3>3. CASE k # "slot"
      <4>1. Owned'[z] = Side(k, j)' /\ Owned[z] = Side(k, j) /\ z # x /\ z # y
        BY <3>1, <3>3 DEF Owned
      <4>2. Side(k, j)' = Side(k, j)
        BY DEF Side
      <4> QED BY <4>1, <4>2
    <3> QED BY <3>2, <3>3
  <2>4. Owned' = D
    <3>1. Owned' = [z \in Places |-> Owned'[z]]
      BY DEF Owned
    <3> HIDE DEF D
    <3>2. D = [z \in Places |-> D[z]]
      BY DEF D
    <3> QED BY <2>3, <3>1, <3>2
  <2> QED BY <2>2, <2>4
<1>2. \A p : (\E j \in Nat : Awaited(j)' = p) <=> \E j \in Nat : Awaited(j) = p
  OBVIOUS
<1>3. \A p \in 1 .. Len(nodes') :
       /\ Shaped(p)' /\ Ranked(R, p)'
       /\ Incomplete(p)' <=> \E j \in Nat : Awaited(j)' = p
       /\ ~Incomplete(p)' => T[p] = Value(worth, T, p)'
  BY <1>2 DEF Forest, Shaped, Ranked, Incomplete, Value
<1> QED BY <1>1, <1>3 DEF Forest

-----------------------------------------------------------------------------
\* A node is made; slot x gives it its left operand and holds it.
GrowStep(worth, T, R, m, x, q, r, op, val, T2, R2) ==
  /\ Forest(worth, T, R) /\ m \in Nat /\ m = Len(nodes) /\ x \in Nat
  /\ q = m + 1 /\ r = R[Held(x)] + 1
  /\ op \in Kinds /\ Grows(Node(op, val, Held(x)))
  /\ op \in {"val", "neg"} <=> Held(x) = NULL
  /\ Awaited(x) = NULL
  /\ \A j \in Nat : Held(j)' = IF j = x THEN q ELSE Held(j)
  /\ \A j \in Nat : Awaited(j)' = IF j = x /\ op # "val" THEN q ELSE Awaited(j)
  /\ \A j \in 1 .. Len(stack') : stack'[j].at = "loop" => stack'[j].dag # NULL
  /\ \A p \in Nat : T2[p] = IF p = q THEN <<"val", worth[val]>> ELSE T[p]
  /\ \A p \in Nat : R2[p] = IF p = q THEN r ELSE R[p]

\* The forest with the new node.
LEMMA GrowForest ==
  ASSUME NEW worth, NEW T, NEW R, NEW m, NEW x, NEW q, NEW r, NEW op, NEW val, NEW T2, NEW R2,
         GrowStep(worth, T, R, m, x, q, r, op, val, T2, R2)
  PROVE  Forest(worth, T2, R2)'
<1> SUFFICES ASSUME Forest(worth, T, R), m \in Nat, m = Len(nodes), x \in Nat,
                    q = m + 1, r = R[Held(x)] + 1,
                    op \in Kinds, Grows(Node(op, val, Held(x))),
                    op \in {"val", "neg"} <=> Held(x) = NULL, Awaited(x) = NULL,
                    \A j \in Nat : Held(j)' = IF j = x THEN q ELSE Held(j),
                    \A j \in Nat : Awaited(j)' = IF j = x /\ op # "val" THEN q ELSE Awaited(j),
                    \A j \in 1 .. Len(stack') : stack'[j].at = "loop" => stack'[j].dag # NULL,
                    \A p \in Nat : T2[p] = IF p = q THEN <<"val", worth[val]>> ELSE T[p],
                    \A p \in Nat : R2[p] = IF p = q THEN r ELSE R[p]
             PROVE  Forest(worth, T2, R2)'
  BY DEF GrowStep
<1>0. PICK e : e = Held(x)
  OBVIOUS
<1>1. /\ Len(nodes') = m + 1 /\ Len(nodes) = m
      /\ nodes'[m + 1] = Node(op, val, e)
      /\ \A p \in 1 .. m : nodes'[p] = nodes[p]
      /\ e \in 0 .. m
  <2>1. e \in 0 .. m
    BY <1>0, HeldOnce
  <2> QED BY <1>0, <2>1 DEF Grows
<1>2. /\ nodes'[m + 1].op = op /\ nodes'[m + 1].val = val /\ nodes'[m + 1].left = e
      /\ nodes'[m + 1].right = NULL
  BY <1>1 DEF Node
<1>3. Once(Owned', m + 1)
  <2>1. PICK s : s = <<"slot", x>>
    OBVIOUS
  <2>2. PICK l : l = <<"left", m + 1>>
    OBVIOUS
  <2>3. s \in Places /\ l \in Places /\ s # l
    BY <2>1, <2>2 DEF Places
  <2>4. Owned[s] = e /\ Owned[l] = NULL
    <3>1. Owned[s] = Held(x)
      BY <2>1, PlaceIs
    <3>2. m + 1 \in Nat
      OBVIOUS
    <3>3. Owned[<<"left", m + 1>>] = Side("left", m + 1)
      BY <3>2, PlaceIs
    <3>4. m + 1 \notin 1 .. Len(nodes)
      OBVIOUS
    <3>5. Side("left", m + 1) = NULL
      BY <3>4 DEF Side
    <3> QED BY <1>0, <2>2, <3>1, <3>3, <3>5
  <2> DEFINE C == [z \in Places |-> IF z = s THEN Owned[l] ELSE IF z = l THEN Owned[s]
                                    ELSE Owned[z]]
             D == [z \in Places |-> IF z = s THEN m + 1 ELSE C[z]]
  <2>5. Once(C, m)
    <3>1. Once(Owned, m)
      BY DEF Forest
    <3> QED BY <2>3, <3>1, OnceSwap
  <2>6. C[s] = NULL /\ C[l] = e /\ \A z \in Places : z # s /\ z # l => C[z] = Owned[z]
    BY <2>3, <2>4
  <2> HIDE DEF C
  <2>7. Once(D, m + 1)
    BY <2>3, <2>5, <2>6, OnceAdd
  <2>8. ASSUME NEW z \in Places PROVE Owned'[z] = D[z]
    <3>1. PICK k \in {"slot", "left", "right"}, j \in Nat : z = <<k, j>>
      BY PlacesAre
    <3>2. CASE k = "slot"
      <4>1. Owned'[z] = Held(j)' /\ Owned[z] = Held(j) /\ z # l
        BY <2>2, <3>1, <3>2 DEF Owned
      <4>2. z = s <=> j = x
        BY <2>1, <3>1, <3>2
      <4> QED BY <2>6, <4>1, <4>2
    <3>3. CASE k # "slot"
      <4>1. Owned'[z] = Side(k, j)' /\ Owned[z] = Side(k, j) /\ z # s
        BY <2>1, <3>1, <3>3 DEF Owned
      <4>2. Side(k, j)' = IF j = m + 1 THEN (IF k = "left" THEN e ELSE NULL) ELSE Side(k, j)
        BY <1>0, <1>1, <1>2, GrowSide
      <4>3. CASE j = m + 1
        <5>1. Side(k, j) = NULL
          <6>1. j \notin 1 .. Len(nodes)
            BY <4>3
          <6> QED BY <6>1 DEF Side
        <5>2. CASE k = "left"
          <6>1. z = l
            BY <2>2, <3>1, <4>3, <5>2
          <6> QED BY <2>3, <2>6, <4>1, <4>2, <4>3, <5>2, <6>1
        <5>3. CASE k = "right"
          <6>1. z # l
            BY <2>2, <3>1, <5>3
          <6> QED BY <2>6, <4>1, <4>2, <4>3, <5>1, <5>3, <6>1
        <5> QED BY <3>3, <5>2, <5>3
      <4>4. CASE j # m + 1
        <5>1. z # l
          BY <2>2, <3>1, <4>4
        <5> QED BY <2>6, <4>1, <4>2, <4>4, <5>1
      <4> QED BY <4>3, <4>4
    <3> QED BY <3>2, <3>3
  <2>9. Owned' = D
    <3>1. Owned' = [z \in Places |-> Owned'[z]]
      BY DEF Owned
    <3> HIDE DEF D
    <3>2. D = [z \in Places |-> D[z]]
      BY DEF D
    <3> QED BY <2>8, <3>1, <3>2
  <2> QED BY <2>7, <2>9
<1>4. \A p \in Nat : R2[p] \in Nat
  <2>1. \A p \in Nat : R[p] \in Nat
    BY <1>1 DEF Forest
  <2>2. r \in Nat
    <3>1. R[Held(x)] \in Nat
      <4>1. e \in 0 .. m
        BY <1>1
      <4>2. e \in Nat
        BY ONLY <4>1
      <4> QED BY ONLY <1>0, <2>1, <4>2
    <3>2. r = R[Held(x)] + 1
      BY <1>0
    <3> QED BY ONLY <3>1, <3>2
  <2>3. \A p \in Nat : R2[p] = IF p = q THEN r ELSE R[p]
    BY <1>0
  <2> QED BY ONLY <2>1, <2>2, <2>3
<1>5. \A p \in 1 .. m : \A j \in Nat : Awaited(j)' = p <=> Awaited(j) = p
  <2>1. \A p \in 1 .. m : p # m + 1 /\ p # NULL
    BY DEF NULL
  <2> QED BY <2>1
<1>6. ASSUME NEW p \in 1 .. m
      PROVE  /\ Shaped(p)' /\ Ranked(R2, p)'
             /\ Incomplete(p)' <=> \E j \in Nat : Awaited(j)' = p
             /\ ~Incomplete(p)' => T2[p] = Value(worth, T2, p)'
  <2>1. nodes'[p] = nodes[p] /\ p # m + 1 /\ p \in Nat
    BY <1>1
  <2>2. nodes[p].left \in 0 .. m /\ nodes[p].right \in 0 .. m
    BY SidesIn
  <2>3. \A d \in 0 .. m : T2[d] = T[d] /\ R2[d] = R[d]
    OBVIOUS
  <2>4. /\ Shaped(p) /\ Ranked(R, p)
        /\ Incomplete(p) <=> \E j \in Nat : Awaited(j) = p
        /\ ~Incomplete(p) => T[p] = Value(worth, T, p)
    BY DEF Forest
  <2>5. Shaped(p)' /\ (Incomplete(p)' <=> Incomplete(p))
    BY <2>1, <2>4 DEF Shaped, Incomplete
  <2>6. Ranked(R2, p)'
    BY ONLY <2>1, <2>2, <2>3, <2>4, p \in 1 .. m, m \in Nat DEF Ranked
  <2>7. Value(worth, T2, p)' = Value(worth, T, p) /\ T2[p] = T[p]
    BY ONLY <2>1, <2>2, <2>3, p \in 1 .. m, m \in Nat DEF Value
  <2> QED BY <1>5, <2>4, <2>5, <2>6, <2>7
<1>7. /\ Shaped(m + 1)' /\ Ranked(R2, m + 1)'
      /\ Incomplete(m + 1)' <=> \E j \in Nat : Awaited(j)' = m + 1
      /\ ~Incomplete(m + 1)' => T2[m + 1] = Value(worth, T2, m + 1)'
  <2>1. Shaped(m + 1)'
    BY <1>0, <1>2 DEF Shaped
  <2>2. Ranked(R2, m + 1)'
    <3>1. R2[e] = R[e] /\ R2[m + 1] = R[e] + 1 /\ R[e] \in Nat
      <4>1. e \in Nat /\ e # m + 1 /\ m + 1 \in Nat
        BY <1>1
      <4>2. R[e] \in Nat
        BY <4>1 DEF Forest
      <4> QED BY <1>0, <4>1, <4>2
    <3> QED BY <1>2, <3>1 DEF Ranked
  <2>3. Incomplete(m + 1)' <=> op # "val"
    BY <1>2 DEF Incomplete
  <2>4. \A j \in Nat : Awaited(j) # m + 1
    <3>1. SUFFICES ASSUME NEW j \in Nat, Awaited(j) = m + 1 PROVE FALSE
      OBVIOUS
    <3>2. Awaited(j) # NULL
      BY <3>1 DEF NULL
    <3>3. Held(j) = m + 1
      BY <3>1, <3>2, AwaitedHeld
    <3>4. Held(j) \in 0 .. m
      BY HeldOnce
    <3> QED BY <3>3, <3>4
  <2>5. (\E j \in Nat : Awaited(j)' = m + 1) <=> op # "val"
    BY <2>4
  <2>6. op = "val" => T2[m + 1] = Value(worth, T2, m + 1)'
    <3>1. m + 1 \in Nat
      OBVIOUS
    <3> QED BY <1>2, <3>1 DEF Value
  <2> QED BY <2>1, <2>2, <2>3, <2>5, <2>6
<1>8. \A p \in 1 .. Len(nodes') : p \in 1 .. m \/ p = m + 1
  BY <1>1
<1> QED BY <1>1, <1>3, <1>4, <1>6, <1>7, <1>8 DEF Forest

\* The node d of call n, which waited, gets what was returned as its right
\* operand; slot y holds it from now on.
CompleteStep(worth, T, R, m, n, d, e, y, t, r, T2, R2) ==
  /\ Forest(worth, T, R)
  /\ m \in Nat
  /\ m = Len(nodes)
  /\ nodes \in Seq(NodeSet)
  /\ n \in Nat
  /\ n # 0
  /\ Awaited(n) = d
  /\ d # NULL
  /\ Held(0) = e
  /\ e # NULL
  /\ Completes(d, e)
  /\ y \in Nat
  /\ y = 0 \/ (Held(y) = NULL /\ y # n /\ y # 0)
  /\ \A j \in Nat : Held(j)' = IF j = y THEN d ELSE IF j = 0 \/ j = n THEN NULL ELSE Held(j)
  /\ \A j \in Nat : Awaited(j)' = IF j = n THEN NULL ELSE Awaited(j)
  /\ \A j \in 1 .. Len(stack') : stack'[j].at = "loop" => stack'[j].dag # NULL
  /\ (t = IF nodes[d].op = "neg" THEN <<"neg", T[e]>>
          ELSE <<nodes[d].op, T[nodes[d].left], T[e]>>)
  /\ r = R[d] + R[e] + 1
  /\ \A p \in Nat : T2[p] = IF p = d THEN t ELSE T[p]
  /\ \A p \in Nat : R2[p] = IF p = d THEN r ELSE R[p]

\* The forest with the completed node.
LEMMA CompleteForest ==
  ASSUME NEW worth, NEW T, NEW R, NEW m, NEW n, NEW d, NEW e, NEW y, NEW t, NEW r, NEW T2, NEW R2,
         CompleteStep(worth, T, R, m, n, d, e, y, t, r, T2, R2)
  PROVE  Forest(worth, T2, R2)'
<1> SUFFICES ASSUME Forest(worth, T, R),
                    m \in Nat,
                    m = Len(nodes),
                    nodes \in Seq(NodeSet),
                    n \in Nat,
                    n # 0,
                    Awaited(n) = d,
                    d # NULL,
                    Held(0) = e,
                    e # NULL,
                    Completes(d, e),
                    y \in Nat,
                    y = 0 \/ (Held(y) = NULL /\ y # n /\ y # 0),
                    \A j \in Nat : Held(j)' = IF j = y THEN d
                                               ELSE IF j = 0 \/ j = n THEN NULL ELSE Held(j),
                    \A j \in Nat : Awaited(j)' = IF j = n THEN NULL ELSE Awaited(j),
                    \A j \in 1 .. Len(stack') : stack'[j].at = "loop" => stack'[j].dag # NULL,
                    t = IF nodes[d].op = "neg" THEN <<"neg", T[e]>>
                        ELSE <<nodes[d].op, T[nodes[d].left], T[e]>>,
                    r = R[d] + R[e] + 1,
                    \A p \in Nat : T2[p] = IF p = d THEN t ELSE T[p],
                    \A p \in Nat : R2[p] = IF p = d THEN r ELSE R[p]
             PROVE  Forest(worth, T2, R2)'
  BY DEF CompleteStep
<1>1. Held(n) = d /\ n # 0
  BY AwaitedHeld
<1>2. d \in 1 .. m /\ e \in 1 .. m /\ d # e
  <2>1. Held(n) \in 0 .. m /\ Held(0) \in 0 .. m
    BY HeldOnce
  <2>2. d # e
    <3>1. 0 \in Nat
      OBVIOUS
    <3> QED BY <1>1, <3>1, HeldOnce
  <2> QED BY <1>1, <2>1, <2>2 DEF NULL
<1>3. /\ Len(nodes') = m
      /\ \A p \in 1 .. m :
           /\ nodes'[p].op = nodes[p].op /\ nodes'[p].val = nodes[p].val
           /\ nodes'[p].left = nodes[p].left
           /\ nodes'[p].right = IF p = d THEN e ELSE nodes[p].right
  BY DEF Completes
<1>4. Incomplete(d)
  <2>1. \E j \in Nat : Awaited(j) = d
    OBVIOUS
  <2> QED BY <1>2, <2>1 DEF Forest
<1>5. \A p \in 1 .. m : nodes[p].left # d /\ nodes[p].right # d
  BY <1>1, HeldRoot
<1>6. Once(Owned', m)
  <2>1. PICK s : s = <<"slot", 0>>
    OBVIOUS
  <2>2. PICK v : v = <<"right", d>>
    OBVIOUS
  <2>3. PICK w : w = <<"slot", n>>
    OBVIOUS
  <2>4. PICK u : u = <<"slot", y>>
    OBVIOUS
  <2>5. s \in Places /\ v \in Places /\ w \in Places /\ u \in Places
    BY <1>2, <2>1, <2>2, <2>3, <2>4 DEF Places
  <2>6. s # v /\ s # w /\ v # w /\ u # v /\ u # w /\ (u = s <=> y = 0)
    BY <2>1, <2>2, <2>3, <2>4
  <2>7. Owned[s] = e /\ Owned[v] = NULL /\ Owned[w] = d /\ (y # 0 => Owned[u] = NULL)
    <3>1. Owned[s] = Held(0) /\ Owned[w] = Held(n) /\ Owned[u] = Held(y)
      BY <2>1, <2>3, <2>4, PlaceIs
    <3>2. Owned[v] = nodes[d].right
      BY <1>2, <2>2, SidesIn
    <3> QED BY <1>1, <1>4, <3>1, <3>2 DEF Incomplete
  <2> DEFINE C == [z \in Places |-> IF z = s THEN Owned[v] ELSE IF z = v THEN Owned[s]
                                    ELSE Owned[z]]
             D == [z \in Places |-> IF z = w THEN C[u] ELSE IF z = u THEN C[w] ELSE C[z]]
  <2>8. Once(C, m)
    <3>1. Once(Owned, m)
      BY DEF Forest
    <3> QED BY <2>5, <3>1, OnceSwap
  <2>9. /\ C[s] = NULL /\ C[v] = e /\ C[w] = d /\ C[u] = NULL
        /\ \A z \in Places : z # s /\ z # v => C[z] = Owned[z]
    BY <2>5, <2>6, <2>7
  <2> HIDE DEF C
  <2>10. Once(D, m)
    BY <2>5, <2>8, OnceSwap
  <2>11. /\ D[w] = NULL /\ D[u] = d /\ D[v] = e /\ (y # 0 => D[s] = NULL)
         /\ \A z \in Places : z \notin {s, v, w, u} => D[z] = Owned[z]
    BY <2>5, <2>6, <2>9
  <2> HIDE DEF D
  <2>12. ASSUME NEW z \in Places PROVE Owned'[z] = D[z]
    <3>1. PICK k \in {"slot", "left", "right"}, j \in Nat : z = <<k, j>>
      BY PlacesAre
    <3>2. CASE k = "slot"
      <4>1. Owned'[z] = Held(j)' /\ Owned[z] = Held(j) /\ z # v
        BY <2>2, <3>1, <3>2 DEF Owned
      <4>2. (z = s <=> j = 0) /\ (z = w <=> j = n) /\ (z = u <=> j = y)
        BY <2>1, <2>3, <2>4, <3>1, <3>2
      <4>3. CASE j = y
        BY <2>11, <4>1, <4>2, <4>3
      <4>4. CASE j # y /\ (j = 0 \/ j = n)
        BY <2>6, <2>11, <4>1, <4>2, <4>4
      <4>5. CASE j # y /\ j # 0 /\ j # n
        BY <2>11, <4>1, <4>2, <4>5
      <4> QED BY <4>3, <4>4, <4>5
    <3>3. CASE k # "slot"
      <4>1. Owned'[z] = Side(k, j)' /\ Owned[z] = Side(k, j)
            /\ z # s /\ z # w /\ z # u
        BY <2>1, <2>3, <2>4, <3>1, <3>3 DEF Owned
      <4>2. Side(k, j)' = IF k # "left" /\ j = d THEN e ELSE Side(k, j)
        BY <1>2, CompleteSide
      <4>3. z = v <=> k = "right" /\ j = d
        BY <2>2, <3>1
      <4> QED BY <2>11, <3>3, <4>1, <4>2, <4>3
    <3> QED BY <3>2, <3>3
  <2>13. Owned' = D
    <3>1. Owned' = [z \in Places |-> Owned'[z]]
      BY DEF Owned
    <3>2. D = [z \in Places |-> D[z]]
      BY DEF D
    <3> QED BY <2>12, <3>1, <3>2
  <2> QED BY <2>10, <2>13
<1>7. \A p \in Nat : R[p] \in Nat /\ R2[p] \in Nat
  <2>1. \A p \in Nat : R[p] \in Nat
    BY DEF Forest
  <2>2. R[d] + R[e] + 1 \in Nat
    BY <1>2, <2>1
  <2> QED BY <2>1, <2>2
<1>8. \A p \in 1 .. m : (\E j \in Nat : Awaited(j)' = p)
                          <=> p # d /\ \E j \in Nat : Awaited(j) = p
  <2>1. \A p \in 1 .. m : p # NULL
    BY DEF NULL
  <2>2. \A j \in Nat : Awaited(j) = d => j = n
    <3>1. SUFFICES ASSUME NEW j \in Nat, Awaited(j) = d PROVE j = n
      OBVIOUS
    <3>2. Held(j) = d
      BY <3>1, AwaitedHeld
    <3> QED BY <1>1, <3>2, HeldOnce
  <2> QED BY ONLY <1>2, <2>1, <2>2, Awaited(n) = d, n \in Nat,
         \A j \in Nat : Awaited(j)' = IF j = n THEN NULL ELSE Awaited(j)
<1>9. ASSUME NEW p \in 1 .. m
      PROVE  /\ Shaped(p)' /\ Ranked(R2, p)'
             /\ Incomplete(p)' <=> \E j \in Nat : Awaited(j)' = p
             /\ ~Incomplete(p)' => T2[p] = Value(worth, T2, p)'
  <2>1. nodes[p].left \in 0 .. m /\ nodes[p].right \in 0 .. m /\ p \in Nat
        /\ nodes[p].left # d /\ nodes[p].right # d
    <3>1. nodes[p].left \in 0 .. Len(nodes) /\ nodes[p].right \in 0 .. Len(nodes)
      BY SidesIn
    <3> QED BY <1>5, <3>1
  <2>2. \A q \in Nat : q # d => T2[q] = T[q] /\ R2[q] = R[q]
    OBVIOUS
  <2>3. /\ Shaped(p) /\ Ranked(R, p)
        /\ Incomplete(p) <=> \E j \in Nat : Awaited(j) = p
        /\ ~Incomplete(p) => T[p] = Value(worth, T, p)
    BY DEF Forest
  <2>4. CASE p # d
    <3>1. /\ nodes'[p].op = nodes[p].op /\ nodes'[p].val = nodes[p].val
          /\ nodes'[p].left = nodes[p].left /\ nodes'[p].right = nodes[p].right
      BY <1>3, <2>4
    <3>2. Shaped(p)' /\ (Incomplete(p)' <=> Incomplete(p))
      BY <2>3, <3>1 DEF Shaped, Incomplete
    <3>3. nodes[p].left \in Nat /\ nodes[p].right \in Nat
      BY <2>1
    <3>4. Ranked(R2, p)'
      BY ONLY <2>1, <2>2, <2>3, <2>4, <3>1, <3>3 DEF Ranked
    <3>5. Value(worth, T2, p)' = Value(worth, T, p) /\ T2[p] = T[p]
      BY ONLY <2>1, <2>2, <2>4, <3>1, <3>3 DEF Value
    <3> QED BY <1>8, <2>3, <2>4, <3>2, <3>4, <3>5
  <2>5. CASE p = d
    <3>1. /\ nodes'[d].op = nodes[d].op /\ nodes'[d].left = nodes[d].left
          /\ nodes'[d].right = e /\ nodes[d].op # "val"
      BY <1>2, <1>3, <1>4 DEF Incomplete
    <3>2. ~Incomplete(d)'
      BY <3>1 DEF Incomplete
    <3>3. Shaped(d)'
      <4>1. Shaped(d)
        BY <2>3, <2>5
      <4> QED BY ONLY <3>1, <4>1 DEF Shaped
    <3>4. Ranked(R2, d)'
      <4>0. d \in Nat /\ e \in Nat
        BY ONLY <1>2, m \in Nat
      <4>1. R[d] \in Nat /\ R[e] \in Nat /\ d \in Nat /\ e \in Nat
        BY ONLY <4>0, <1>7
      <4>2. R2[d] = R[d] + R[e] + 1 /\ R2[e] = R[e]
        BY <1>2, <4>1
      <4>3. nodes[d].left # NULL => /\ R2[nodes[d].left] = R[nodes[d].left]
                                    /\ R[nodes[d].left] < R[d] /\ R[nodes[d].left] \in Nat
        <5>1. nodes[d].left \in Nat /\ nodes[d].left # d
          BY <2>1, <2>5
        <5> QED BY <1>7, <2>2, <2>3, <2>5, <5>1 DEF Ranked
      <4> HIDE DEF Ranked
      <4>4. R2[e] < R2[d]
        BY <4>1, <4>2
      <4>5. ASSUME nodes[d].left # NULL PROVE R2[nodes[d].left] < R2[d]
        <5>1. PICK x, v, w : x = R[nodes[d].left] /\ v = R[d] /\ w = R[e]
          OBVIOUS
        <5>2. x \in Nat /\ v \in Nat /\ w \in Nat /\ x < v
          BY <4>1, <4>3, <4>5, <5>1
        <5>3. x < v + w + 1
          BY ONLY <5>2
        <5> QED BY <4>2, <4>3, <4>5, <5>1, <5>3
      <4> QED BY <3>1, <4>4, <4>5 DEF Ranked
    <3>5. T2[d] = Value(worth, T2, d)'
      <4>1. d \in Nat /\ e \in Nat /\ nodes[d].left \in Nat /\ nodes[d].left # d
        BY <1>2, <2>1, <2>5
      <4>2. T2[e] = T[e] /\ T2[nodes[d].left] = T[nodes[d].left]
        BY <1>2, <2>2, <4>1
      <4>3. T2[d] = IF nodes[d].op = "neg" THEN <<"neg", T[e]>>
                    ELSE <<nodes[d].op, T[nodes[d].left], T[e]>>
        BY <4>1
      <4> QED BY <3>1, <4>2, <4>3 DEF Value
    <3> QED BY <1>8, <2>5, <3>2, <3>3, <3>4, <3>5
  <2> QED BY <2>4, <2>5
<1> QED BY <1>3, <1>6, <1>7, <1>9 DEF Forest

-----------------------------------------------------------------------------
(* What the calls have taken of the tokens: the callee of call j starts at *)
(* c[j].                                                                   *)

Kind(fn) == IF fn = "primary" THEN "unary" ELSE fn
Wants(fn, at) == IF at \in {"first", "operand"} THEN Operand[fn]
                 ELSE IF at = "rest" THEN fn
                 ELSE IF at \in {"plus", "minus"} THEN "unary" ELSE "sum"
Wanted(j) == IF j = 0 THEN "sum" ELSE Wants(stack[j].fn, stack[j].at)
Taken(l) == IF l = "sum" THEN Signs ELSE IF l = "product" THEN {"*", "/"} ELSE {}

\* A call that waits started at a, its callee at b.
WaitsIn(worth, f, a, b, T) ==
  /\ f.at \in {"first", "rest"} => b = a
  /\ f.at = "operand" =>
       /\ Phrase(worth, tokens, f.fn, a, b - 2)
       /\ b - 1 \in 1 .. Len(tokens) /\ tokens[b - 1] \in Operators[f.fn]
       /\ nodes[f.dag].op = tokens[b - 1]
       /\ T[nodes[f.dag].left] = Sense(worth, tokens, f.fn, a, b - 2)
  /\ f.at \in {"plus", "minus", "close"} =>
       /\ b = a + 1 /\ a \in 1 .. Len(tokens)
       /\ tokens[a] = IF f.at = "plus" THEN "+" ELSE IF f.at = "minus" THEN "-" ELSE "("
  /\ f.at = "minus" => nodes[f.dag].op = "neg"

\* The call that works started at a.
WorksAt(worth, f, a, T) ==
  /\ f.at = "entry" => /\ i = a /\ (i = 1 \/ tokens[i - 1] \notin Enders)
                       /\ f.fn = "primary" => next \notin {"+", "-"}
  /\ f.at = "loop" => /\ Phrase(worth, tokens, f.fn, a, i - 1)
                      /\ T[f.dag] = Sense(worth, tokens, f.fn, a, i - 1)
                      /\ next \notin Taken(Operand[f.fn])
                      /\ f.left = f.dag \/ next \notin Operators[f.fn]

\* d was returned for the phrase from b.
Got(worth, K, b, d, T) ==
  /\ Phrase(worth, tokens, K, b, i - 1) /\ T[d] = Sense(worth, tokens, K, b, i - 1)
  /\ next \notin Taken(K)

Grammar(worth, c, T) ==
  /\ c[0] = 1 /\ \A j \in Nat : c[j] \in Nat
  /\ \A j \in 1 .. Len(stack) : Kind(stack[j].fn) = Wanted(j - 1)
  /\ \A j \in 1 .. Len(stack) : Waiting(stack[j]) => WaitsIn(worth, stack[j], c[j - 1], c[j], T)
  /\ stack # <<>> /\ ret = Called => WorksAt(worth, stack[Len(stack)], c[Len(stack) - 1], T)
  /\ ret # Called => Got(worth, Wanted(Len(stack)), c[Len(stack)], ret, T)

\* The nodes there were keep their operators and the terms on their left.
Preserves(T, T2) ==
  \A p \in 1 .. Len(nodes) : /\ nodes'[p].op = nodes[p].op /\ nodes'[p].left = nodes[p].left
                             /\ T2[nodes[p].left] = T[nodes[p].left]

\* What a call that waits knows outlives a step that preserves its node.
LEMMA WaitsKeep ==
  ASSUME NEW worth, tokens' = tokens, NEW T, NEW T2, Preserves(T, T2), NEW f, NEW a, NEW b,
         WaitsIn(worth, f, a, b, T), f.at \in {"operand", "minus"} => f.dag \in 1 .. Len(nodes)
  PROVE  WaitsIn(worth, f, a, b, T2)'
<1>1. CASE f.at = "operand"
  <2>1. /\ nodes'[f.dag].op = nodes[f.dag].op /\ nodes'[f.dag].left = nodes[f.dag].left
        /\ T2[nodes[f.dag].left] = T[nodes[f.dag].left]
    BY <1>1 DEF Preserves
  <2> QED BY <1>1, <2>1 DEF WaitsIn
<1>2. CASE f.at = "minus"
  <2>1. nodes'[f.dag].op = nodes[f.dag].op
    BY <1>2 DEF Preserves
  <2> QED BY <1>2, <2>1 DEF WaitsIn
<1>3. CASE f.at \notin {"operand", "minus"}
  BY <1>3 DEF WaitsIn
<1> QED BY <1>1, <1>2, <1>3

\* The calls below the last are untouched.
LEMMA LowerFrames ==
  ASSUME NEW worth, ParserTypeOK, tokens' = tokens, NEW T, NEW T2, Preserves(T, T2), NEW c,
         Grammar(worth, c, T), NEW n \in Nat \ {0}, n = Len(stack),
         \A j \in 1 .. n - 1 : stack'[j] = stack[j]
  PROVE  /\ \A j \in 1 .. n - 1 : /\ Waiting(stack'[j])
                                  /\ WaitsIn(worth, stack[j], c[j - 1], c[j], T2)'
                                  /\ Kind(stack'[j].fn) = Wanted(j - 1)'
         /\ Wanted(n - 1)' = Wanted(n - 1)
<1>1. \A j \in 1 .. n - 1 : Wanted(j)' = Wanted(j)
  BY DEF Wanted
<1>2. Wanted(0)' = Wanted(0)
  BY DEF Wanted
<1>3. ASSUME NEW j \in 1 .. n - 1
      PROVE  /\ Waiting(stack'[j]) /\ WaitsIn(worth, stack[j], c[j - 1], c[j], T2)'
             /\ Kind(stack'[j].fn) = Wanted(j - 1)'
  <2>1. j \in 1 .. Len(stack) /\ j \in 1 .. Len(stack) - 1 /\ stack'[j] = stack[j]
    OBVIOUS
  <2>2. Waiting(stack[j])
    BY <2>1 DEF ParserTypeOK, Shape
  <2>3. PICK f : f = stack[j]
    OBVIOUS
  <2>4. WaitsIn(worth, f, c[j - 1], c[j], T)
    BY <2>1, <2>2, <2>3 DEF Grammar
  <2>5. f.at \in {"operand", "minus"} => f.dag \in 1 .. Len(nodes)
    BY <2>1, <2>3 DEF ParserTypeOK, NULL
  <2>6. WaitsIn(worth, f, c[j - 1], c[j], T2)'
    BY <2>4, <2>5, WaitsKeep
  <2>7. Wanted(j - 1)' = Wanted(j - 1)
    <3>1. j - 1 = 0 \/ j - 1 \in 1 .. n - 1
      OBVIOUS
    <3> QED BY <1>1, <1>2, <3>1
  <2>8. Kind(stack[j].fn) = Wanted(j - 1)
    BY <2>1 DEF Grammar
  <2>9. WaitsIn(worth, stack[j], c[j - 1], c[j], T2)'
    BY <2>1, <2>3, <2>6 DEF WaitsIn
  <2> QED BY <2>1, <2>2, <2>7, <2>8, <2>9
<1>4. n - 1 = 0 \/ n - 1 \in 1 .. n - 1
  OBVIOUS
<1> QED BY <1>1, <1>2, <1>3, <1>4

\* A call.
LEMMA PushGrammar ==
  ASSUME NEW worth, ParserTypeOK, tokens' = tokens, NEW T, NEW T2, Preserves(T, T2), NEW c,
         Grammar(worth, c, T), NEW n, NEW at, NEW d, NEW g, Pushes(n, at, d, g),
         NEW b \in Nat, NEW a, a = c[n - 1], NEW f, f = stack'[n], WaitsIn(worth, f, a, b, T2)',
         Kind(g.fn) = Wants(stack[n].fn, at), Working(g), WorksAt(worth, g, b, T2)',
         NEW c2, c2 = [j \in Nat |-> IF j = n THEN b ELSE c[j]]
  PROVE  Grammar(worth, c2, T2)'
<1>1. /\ n \in Nat \ {0} /\ n = Len(stack) /\ Len(stack') = n + 1
      /\ \A j \in 1 .. n - 1 : stack'[j] = stack[j]
      /\ stack'[n].fn = stack[n].fn /\ stack'[n].at = at
      /\ stack'[n + 1] = g /\ ret' = Called
  BY DEF Pushes
<1>2. /\ \A j \in 1 .. n - 1 : /\ WaitsIn(worth, stack[j], c[j - 1], c[j], T2)'
                               /\ Kind(stack'[j].fn) = Wanted(j - 1)'
      /\ Wanted(n - 1)' = Wanted(n - 1)
  BY <1>1, LowerFrames
<1>3. \A j \in 0 .. n - 1 : c2[j] = c[j]
  BY <1>1
<1>4. c2[0] = 1 /\ \A j \in Nat : c2[j] \in Nat
  BY <1>1, <1>3 DEF Grammar
<1>5. c2[n] = b /\ c2[n - 1] = c[n - 1]
  BY <1>1, <1>3
<1>6. Kind(stack'[n].fn) = Wanted(n - 1)'
  <2>1. Kind(stack[n].fn) = Wanted(n - 1)
    BY <1>1 DEF Grammar
  <2> QED BY <1>1, <1>2, <2>1
<1>7. Wanted(n)' = Wants(stack[n].fn, at)
  BY <1>1 DEF Wanted
<1>8. \A j \in 1 .. Len(stack') : Kind(stack'[j].fn) = Wanted(j - 1)'
  <2>1. SUFFICES ASSUME NEW j \in 1 .. n + 1 PROVE Kind(stack'[j].fn) = Wanted(j - 1)'
    BY <1>1
  <2>2. j \in 1 .. n - 1 \/ j = n \/ (j = n + 1 /\ j - 1 = n)
    BY <1>1
  <2> QED BY <1>1, <1>2, <1>6, <1>7, <2>2
<1>9. ASSUME NEW j \in 1 .. Len(stack'), Waiting(stack'[j])
      PROVE  WaitsIn(worth, stack[j], c2[j - 1], c2[j], T2)'
  <2>1. j # n + 1
    BY <1>1, <1>9 DEF Waiting, Working
  <2>2. CASE j = n
    <3>1. f = stack'[j] /\ a = c2[j - 1] /\ b = c2[j]
      BY <1>5, <2>2
    <3> QED BY <3>1 DEF WaitsIn
  <2>3. CASE j \in 1 .. n - 1
    <3>1. c2[j] = c[j] /\ c2[j - 1] = c[j - 1]
      <4>1. j \in 0 .. n - 1 /\ j - 1 \in 0 .. n - 1
        BY <1>1, <2>3
      <4> QED BY <1>3, <4>1
    <3> QED BY <1>2, <2>3, <3>1 DEF WaitsIn
  <2> QED BY <1>1, <2>1, <2>2, <2>3
<1>10. WorksAt(worth, stack[Len(stack)], c2[Len(stack) - 1], T2)'
  <2>1. Len(stack') - 1 = n /\ stack'[Len(stack')] = g
    BY <1>1
  <2> QED BY <1>5, <2>1 DEF WorksAt
<1> QED BY <1>1, <1>4, <1>8, <1>9, <1>10 DEF Grammar

\* A tail call.
LEMMA ReplaceGrammar ==
  ASSUME NEW worth, ParserTypeOK, tokens' = tokens, NEW T, NEW T2, Preserves(T, T2), NEW c,
         Grammar(worth, c, T), NEW n, NEW g, Replaces(n, g),
         Kind(g.fn) = Kind(stack[n].fn), Working(g), WorksAt(worth, g, c[n - 1], T2)'
  PROVE  Grammar(worth, c, T2)'
<1>1. /\ n \in Nat \ {0} /\ n = Len(stack) /\ Len(stack') = n
      /\ \A j \in 1 .. n - 1 : stack'[j] = stack[j]
      /\ stack'[n] = g /\ ret' = Called
  BY DEF Replaces
<1>2. /\ \A j \in 1 .. n - 1 : /\ WaitsIn(worth, stack[j], c[j - 1], c[j], T2)'
                               /\ Kind(stack'[j].fn) = Wanted(j - 1)'
      /\ Wanted(n - 1)' = Wanted(n - 1)
  BY <1>1, LowerFrames
<1>3. Kind(stack'[n].fn) = Wanted(n - 1)'
  <2>1. Kind(stack[n].fn) = Wanted(n - 1)
    BY <1>1 DEF Grammar
  <2> QED BY <1>1, <1>2, <2>1
<1>4. \A j \in 1 .. Len(stack') : j \in 1 .. n - 1 \/ j = n
  BY <1>1
<1>5. ~Waiting(stack'[n])
  BY <1>1 DEF Waiting, Working
<1>6. c[0] = 1 /\ \A j \in Nat : c[j] \in Nat
  BY DEF Grammar
<1>7. \A j \in 1 .. Len(stack') : Kind(stack'[j].fn) = Wanted(j - 1)'
  BY <1>2, <1>3, <1>4
<1>8. \A j \in 1 .. Len(stack') : Waiting(stack'[j]) => WaitsIn(worth, stack[j], c[j - 1], c[j], T2)'
  BY <1>2, <1>4, <1>5
<1>9. WorksAt(worth, stack[Len(stack)], c[Len(stack) - 1], T2)'
  <2>1. Len(stack') - 1 = n - 1 /\ stack'[Len(stack')] = g
    BY <1>1
  <2> QED BY <2>1 DEF WorksAt
<1> QED BY <1>1, <1>6, <1>7, <1>8, <1>9 DEF Grammar

\* A return.
LEMMA PopGrammar ==
  ASSUME NEW worth, ParserTypeOK, tokens' = tokens, NEW T, NEW T2, Preserves(T, T2), NEW c,
         Grammar(worth, c, T), NEW n, NEW d, Pops(n, d), d # Called,
         NEW K, K = Kind(stack[n].fn), Got(worth, K, c[n - 1], d, T2)'
  PROVE  Grammar(worth, c, T2)'
<1>1. /\ n \in Nat \ {0} /\ n = Len(stack) /\ Len(stack') = n - 1
      /\ \A j \in 1 .. n - 1 : stack'[j] = stack[j]
      /\ ret' = d
  BY DEF Pops
<1>2. /\ \A j \in 1 .. n - 1 : /\ WaitsIn(worth, stack[j], c[j - 1], c[j], T2)'
                               /\ Kind(stack'[j].fn) = Wanted(j - 1)'
      /\ Wanted(n - 1)' = Wanted(n - 1)
  BY <1>1, LowerFrames
<1>3. Wanted(n - 1)' = Kind(stack[n].fn)
  BY <1>1, <1>2 DEF Grammar
<1>4. c[0] = 1 /\ \A j \in Nat : c[j] \in Nat
  BY DEF Grammar
<1>5. Got(worth, Wanted(Len(stack)), c[Len(stack)], ret, T2)'
  <2>2. Got(worth, K, c[n - 1], d, T2)'
    OBVIOUS
  <2>3. PICK L : L = Wanted(n - 1)'
    OBVIOUS
  <2>4. L = K
    BY <1>3, <2>3
  <2>5. Wanted(Len(stack))' = K
    BY <1>1, <2>3, <2>4 DEF Wanted
  <2> QED BY <1>1, <2>2, <2>5 DEF Got
<1>6. ret' # Called
  BY <1>1
<1>7. \A j \in 1 .. Len(stack') : Kind(stack'[j].fn) = Wanted(j - 1)'
  BY <1>1, <1>2
<1>8. \A j \in 1 .. Len(stack') : Waiting(stack'[j]) => WaitsIn(worth, stack[j], c[j - 1], c[j], T2)'
  BY <1>1, <1>2
<1> QED BY <1>4, <1>5, <1>6, <1>7, <1>8 DEF Grammar

-----------------------------------------------------------------------------
\* The loops of the other calls hold a node.

\* A call.
LEMMA PushLoops ==
  ASSUME NEW worth, NEW T, NEW R, Forest(worth, T, R), NEW n, NEW at, NEW d, NEW g, Pushes(n, at, d, g),
         at # "loop", g.at = "loop" => g.dag # NULL
  PROVE  \A j \in 1 .. Len(stack') : stack'[j].at = "loop" => stack'[j].dag # NULL
<1>1. /\ n \in Nat \ {0} /\ n = Len(stack) /\ Len(stack') = n + 1
      /\ \A j \in 1 .. n - 1 : stack'[j] = stack[j]
      /\ stack'[n].at = at /\ stack'[n + 1] = g
  BY DEF Pushes
<1>2. ASSUME NEW j \in 1 .. Len(stack') PROVE stack'[j].at = "loop" => stack'[j].dag # NULL
  <2>1. j \in 1 .. n - 1 \/ j = n \/ j = n + 1
    BY <1>1
  <2>2. j \in 1 .. n - 1 => j \in 1 .. Len(stack) /\ stack'[j] = stack[j]
    BY <1>1
  <2> QED BY <1>1, <2>1, <2>2 DEF Forest
<1> QED BY <1>2

\* A tail call.
LEMMA ReplaceLoops ==
  ASSUME NEW worth, NEW T, NEW R, Forest(worth, T, R), NEW n, NEW g, Replaces(n, g),
         g.at = "loop" => g.dag # NULL
  PROVE  \A j \in 1 .. Len(stack') : stack'[j].at = "loop" => stack'[j].dag # NULL
<1>1. /\ n \in Nat \ {0} /\ n = Len(stack) /\ Len(stack') = n
      /\ \A j \in 1 .. n - 1 : stack'[j] = stack[j]
      /\ stack'[n] = g
  BY DEF Replaces
<1>2. ASSUME NEW j \in 1 .. Len(stack') PROVE stack'[j].at = "loop" => stack'[j].dag # NULL
  <2>1. j \in 1 .. n - 1 \/ j = n
    BY <1>1
  <2>2. j \in 1 .. n - 1 => j \in 1 .. Len(stack) /\ stack'[j] = stack[j]
    BY <1>1
  <2> QED BY <1>1, <2>1, <2>2 DEF Forest
<1> QED BY <1>2

\* A return.
LEMMA PopLoops ==
  ASSUME NEW worth, NEW T, NEW R, Forest(worth, T, R), NEW n, NEW d, Pops(n, d)
  PROVE  \A j \in 1 .. Len(stack') : stack'[j].at = "loop" => stack'[j].dag # NULL
<1>1. /\ n \in Nat \ {0} /\ n = Len(stack) /\ Len(stack') = n - 1
      /\ \A j \in 1 .. n - 1 : stack'[j] = stack[j]
  BY DEF Pops
<1>2. ASSUME NEW j \in 1 .. Len(stack') PROVE stack'[j].at = "loop" => stack'[j].dag # NULL
  <2>1. j \in 1 .. Len(stack) /\ stack'[j] = stack[j]
    BY <1>1
  <2> QED BY <2>1 DEF Forest
<1> QED BY <1>2

\* What the slots around the call on top hold.
LEMMA TopHeld ==
  ASSUME NEW n, NEW fn, NEW at, At(n, fn, at)
  PROVE  /\ Held(n) = Kept(at, stack[n].dag) /\ Awaited(n) = Wait(at, stack[n].dag)
         /\ Held(n + 1) = NULL /\ Awaited(n + 1) = NULL
         /\ Held(0) = IF ret = Called THEN NULL ELSE ret
         /\ n \in Nat /\ n # 0 /\ n + 1 \in Nat /\ n + 1 # n /\ n + 1 # 0
         /\ Awaited(0) = NULL
<1>1. n \in 1 .. Len(stack) /\ n + 1 \notin 1 .. Len(stack) /\ 0 \notin 1 .. Len(stack)
      /\ n # 0 /\ n + 1 # 0 /\ n \in Nat /\ n + 1 \in Nat /\ n + 1 # n /\ stack[n].at = at
  BY DEF At
<1> QED BY <1>1 DEF Held, Awaited

-----------------------------------------------------------------------------
\* The steps that make no node.

\* A call at its entry.
LEMMA QuietPush ==
  ASSUME NEW worth, NEW T, NEW R, Forest(worth, T, R), Len(nodes) \in Nat, nodes' = nodes,
         NEW n, NEW fn, At(n, fn, "entry"), ret = Called,
         NEW at \in {"first", "plus", "close"}, NEW d, NEW g, Pushes(n, at, d, g), g.at = "entry"
  PROVE  Forest(worth, T, R)'
<1>1. \A j \in Nat : Held(j)' = Held(j) /\ Awaited(j)' = Awaited(j)
  <2>1. \A j \in Nat :
           /\ Held(j)' = IF j = 0 THEN NULL ELSE IF j = n THEN Kept(at, d)
                         ELSE IF j = n + 1 THEN Kept(g.at, g.dag) ELSE Held(j)
           /\ Awaited(j)' = IF j = n THEN Wait(at, d)
                            ELSE IF j = n + 1 THEN Wait(g.at, g.dag) ELSE Awaited(j)
    BY PushHeld
  <2>2. /\ Kept(at, d) = NULL /\ Wait(at, d) = NULL /\ Kept(g.at, g.dag) = NULL
        /\ Wait(g.at, g.dag) = NULL
        /\ Kept("entry", stack[n].dag) = NULL /\ Wait("entry", stack[n].dag) = NULL
    BY DEF Kept, Wait
  <2> QED BY <2>1, <2>2, TopHeld
<1>2. \A j \in 1 .. Len(stack') : stack'[j].at = "loop" => stack'[j].dag # NULL
  BY PushLoops
<1>3. 0 \in Nat
  OBVIOUS
<1> QED BY <1>1, <1>2, <1>3, MoveForest

\* A tail call at its entry.
LEMMA QuietReplace ==
  ASSUME NEW worth, NEW T, NEW R, Forest(worth, T, R), Len(nodes) \in Nat, nodes' = nodes,
         NEW n, NEW fn, At(n, fn, "entry"), ret = Called,
         NEW g, Replaces(n, g), g.at = "entry"
  PROVE  Forest(worth, T, R)'
<1>1. \A j \in Nat : Held(j)' = Held(j) /\ Awaited(j)' = Awaited(j)
  <2>1. \A j \in Nat :
           /\ Held(j)' = IF j = 0 THEN NULL ELSE IF j = n THEN Kept(g.at, g.dag) ELSE Held(j)
           /\ Awaited(j)' = IF j = n THEN Wait(g.at, g.dag) ELSE Awaited(j)
    BY ReplaceHeld
  <2>2. /\ Kept(g.at, g.dag) = NULL /\ Wait(g.at, g.dag) = NULL
        /\ Kept("entry", stack[n].dag) = NULL /\ Wait("entry", stack[n].dag) = NULL
    BY DEF Kept, Wait
  <2> QED BY <2>1, <2>2, TopHeld
<1>2. \A j \in 1 .. Len(stack') : stack'[j].at = "loop" => stack'[j].dag # NULL
  BY ReplaceLoops
<1>3. 0 \in Nat
  OBVIOUS
<1> QED BY <1>1, <1>2, <1>3, MoveForest

\* A call takes what was returned.
LEMMA TakeForest ==
  ASSUME NEW worth, NEW T, NEW R, Forest(worth, T, R), Len(nodes) \in Nat, nodes' = nodes,
         NEW n, NEW fn, NEW at \in {"first", "rest"}, At(n, fn, at), ret # Called, ret # NULL,
         NEW g, Replaces(n, g), g.at = "loop", g.dag = ret
  PROVE  Forest(worth, T, R)'
<1>1. \A j \in Nat :
        /\ Held(j)' = IF j = 0 THEN Held(n) ELSE IF j = n THEN Held(0) ELSE Held(j)
        /\ Awaited(j)' = Awaited(j)
  <2>1. \A j \in Nat :
           /\ Held(j)' = IF j = 0 THEN NULL ELSE IF j = n THEN Kept(g.at, g.dag) ELSE Held(j)
           /\ Awaited(j)' = IF j = n THEN Wait(g.at, g.dag) ELSE Awaited(j)
    BY ReplaceHeld
  <2>2. /\ Kept(g.at, g.dag) = ret /\ Wait(g.at, g.dag) = NULL
        /\ Kept(at, stack[n].dag) = NULL /\ Wait(at, stack[n].dag) = NULL
    BY DEF Kept, Wait
  <2> QED BY <2>1, <2>2, TopHeld
<1>2. \A j \in 1 .. Len(stack') : stack'[j].at = "loop" => stack'[j].dag # NULL
  BY ReplaceLoops
<1>3. 0 \in Nat /\ n \in Nat
  BY DEF At
<1> QED BY <1>1, <1>2, <1>3, MoveForest

\* A call returns what it holds.
LEMMA GiveForest ==
  ASSUME NEW worth, NEW T, NEW R, Forest(worth, T, R), Len(nodes) \in Nat, nodes' = nodes,
         NEW n, NEW fn, At(n, fn, "loop"), ret = Called,
         Pops(n, stack[n].dag), stack[n].dag # Called
  PROVE  Forest(worth, T, R)'
<1>1. \A j \in Nat :
        /\ Held(j)' = IF j = 0 THEN Held(n) ELSE IF j = n THEN Held(0) ELSE Held(j)
        /\ Awaited(j)' = Awaited(j)
  <2>1. \A j \in Nat :
           /\ Held(j)' = IF j = 0 THEN stack[n].dag ELSE IF j = n THEN NULL ELSE Held(j)
           /\ Awaited(j)' = IF j = n THEN NULL ELSE Awaited(j)
    BY PopHeld
  <2>2. Kept("loop", stack[n].dag) = stack[n].dag /\ Wait("loop", stack[n].dag) = NULL
    BY DEF Kept, Wait
  <2> QED BY <2>1, <2>2, TopHeld
<1>2. \A j \in 1 .. Len(stack') : stack'[j].at = "loop" => stack'[j].dag # NULL
  BY PopLoops
<1>3. 0 \in Nat /\ n \in Nat
  BY DEF At
<1> QED BY <1>1, <1>2, <1>3, MoveForest

\* A call passes on what was returned to it.
LEMMA PassForest ==
  ASSUME NEW worth, NEW T, NEW R, Forest(worth, T, R), Len(nodes) \in Nat, nodes' = nodes,
         NEW n, NEW fn, NEW at \in {"plus", "close"}, At(n, fn, at), ret # Called,
         Pops(n, ret)
  PROVE  Forest(worth, T, R)'
<1>1. \A j \in Nat : Held(j)' = Held(j) /\ Awaited(j)' = Awaited(j)
  <2>1. \A j \in Nat :
           /\ Held(j)' = IF j = 0 THEN ret ELSE IF j = n THEN NULL ELSE Held(j)
           /\ Awaited(j)' = IF j = n THEN NULL ELSE Awaited(j)
    BY PopHeld
  <2>2. Kept(at, stack[n].dag) = NULL /\ Wait(at, stack[n].dag) = NULL
    BY DEF Kept, Wait
  <2> QED BY <2>1, <2>2, TopHeld
<1>2. \A j \in 1 .. Len(stack') : stack'[j].at = "loop" => stack'[j].dag # NULL
  BY PopLoops
<1>3. 0 \in Nat
  OBVIOUS
<1> QED BY <1>1, <1>2, <1>3, MoveForest

Built(worth, c, T, R) == Forest(worth, T, R) /\ Grammar(worth, c, T)

\* Both parts of Built, in the next state.
LEMMA BuiltIs ==
  ASSUME NEW worth, NEW c, NEW T, NEW R, Forest(worth, T, R)', Grammar(worth, c, T)'
  PROVE  Built(worth, c, T, R)'
  BY DEF Built

\* What the call on top knows when it works.
LEMMA TopWorks ==
  ASSUME NEW worth, NEW c, NEW T, Grammar(worth, c, T), NEW n, NEW fn, NEW at, At(n, fn, at), ret = Called
  PROVE  WorksAt(worth, stack[n], c[n - 1], T) /\ c[n - 1] \in Nat
<1>1. n \in Nat \ {0} /\ n = Len(stack)
  BY DEF At
<1>2. stack # <<>> /\ n - 1 \in Nat
  BY <1>1
<1> QED BY <1>1, <1>2 DEF Grammar

\* What it knows when its callee has returned.
LEMMA TopWaits ==
  ASSUME NEW worth, NEW c, NEW T, Grammar(worth, c, T), NEW n, NEW fn, NEW at, At(n, fn, at), ret # Called,
         Waiting(stack[n])
  PROVE  /\ WaitsIn(worth, stack[n], c[n - 1], c[n], T) /\ Got(worth, Wants(fn, at), c[n], ret, T)
         /\ c[n - 1] \in Nat /\ c[n] \in Nat
<1>1. n \in Nat \ {0} /\ n = Len(stack) /\ stack[n].fn = fn /\ stack[n].at = at
  BY DEF At
<1>2. n \in 1 .. Len(stack) /\ n - 1 \in Nat /\ n \in Nat
  BY <1>1
<1>3. Wanted(n) = Wants(fn, at)
  BY <1>1 DEF Wanted
<1> QED BY <1>1, <1>2, <1>3 DEF Grammar

\* No node changes.
LEMMA SamePreserves ==
  ASSUME NEW T, nodes' = nodes
  PROVE  Preserves(T, T)
  BY DEF Preserves

\* The fields of a call, whatever it is made of.
LEMMA CallFields ==
  ASSUME NEW fn, NEW at, NEW d
  PROVE  /\ Call(fn, at, d).fn = fn /\ Call(fn, at, d).at = at
         /\ Call(fn, at, d).left = d /\ Call(fn, at, d).dag = d
  BY DEF Call

\* sum or product calls its operand.
LEMMA EnterBuilt ==
  ASSUME NEW worth, ParserTypeOK, tokens' = tokens, NEW c, NEW T, NEW R, Built(worth, c, T, R),
         NEW n, NEW l \in Levels, EnterStep(n, l)
  PROVE  \E c2 : Built(worth, c2, T, R)'
<1>1. PICK g : g = Call(Operand[l], "entry", NULL)
  OBVIOUS
<1>2. /\ g.fn = Operand[l] /\ g.at = "entry"
  BY <1>1, CallFields
<1>3. /\ At(n, l, "entry") /\ ret = Called /\ Pushes(n, "first", NULL, g)
      /\ i' = i /\ nodes' = nodes
  BY <1>1 DEF EnterStep
<1>4. Len(nodes) \in Nat
  BY DEF ParserTypeOK
<1>5. Forest(worth, T, R)'
  BY <1>2, <1>3, <1>4, QuietPush DEF Built
<1>6. WorksAt(worth, stack[n], c[n - 1], T) /\ c[n - 1] \in Nat
  BY <1>3, TopWorks DEF Built
<1>7. PICK a \in Nat : a = c[n - 1]
  BY <1>6
<1>8. i = a /\ (i = 1 \/ tokens[i - 1] \notin Enders)
  BY <1>3, <1>6, <1>7 DEF WorksAt, At
<1>9. WorksAt(worth, g, a, T)'
  BY <1>2, <1>3, <1>8, Sets DEF WorksAt
<1>10. PICK f : f = stack'[n]
  OBVIOUS
<1>11. f.at = "first"
  BY <1>3, <1>10 DEF Pushes
<1>12. WaitsIn(worth, f, a, a, T)'
  BY <1>11 DEF WaitsIn
<1>13. Kind(g.fn) = Wants(stack[n].fn, "first") /\ Working(g)
  BY <1>2, <1>3, Sets DEF Kind, Wants, At, Working
<1>14. PICK c2 : c2 = [j \in Nat |-> IF j = n THEN a ELSE c[j]]
  OBVIOUS
<1>15. Preserves(T, T)
  BY <1>3, SamePreserves
<1>16. Grammar(worth, c, T)
  BY DEF Built
<1>17. Grammar(worth, c2, T)'
  BY <1>3, <1>7, <1>9, <1>10, <1>12, <1>13, <1>14, <1>15, <1>16, PushGrammar
<1> QED BY <1>5, <1>17, BuiltIs

\* A plus, or a left parenthesis.
LEMMA PlusBuilt ==
  ASSUME NEW worth, ParserTypeOK, tokens' = tokens, NEW c, NEW T, NEW R, Built(worth, c, T, R),
         NEW n, PlusStep(n) \/ OpenStep(n)
  PROVE  \E c2 : Built(worth, c2, T, R)'
<1>1. PICK fn \in {"unary", "sum"} : fn = IF PlusStep(n) THEN "unary" ELSE "sum"
  OBVIOUS
<1>2. PICK at \in {"plus", "close"} : at = IF PlusStep(n) THEN "plus" ELSE "close"
  OBVIOUS
<1>3. PICK own : own = IF PlusStep(n) THEN "unary" ELSE "primary"
  OBVIOUS
<1>4. PICK g : g = Call(fn, "entry", NULL)
  OBVIOUS
<1>5. g.fn = fn /\ g.at = "entry"
  BY <1>4, CallFields
<1>6. /\ At(n, own, "entry") /\ ret = Called /\ Pushes(n, at, NULL, g)
      /\ Reads /\ nodes' = nodes /\ tokens[i] = IF at = "plus" THEN "+" ELSE "("
  BY <1>1, <1>2, <1>3, <1>4 DEF PlusStep, OpenStep
<1>7. Len(nodes) \in Nat /\ Len(tokens) \in Nat
  BY DEF ParserTypeOK
<1>8. Forest(worth, T, R)'
  BY <1>5, <1>6, <1>7, QuietPush DEF Built
<1>9. WorksAt(worth, stack[n], c[n - 1], T) /\ c[n - 1] \in Nat
  BY <1>6, TopWorks DEF Built
<1>10. PICK a \in Nat : a = c[n - 1]
  BY <1>9
<1>11. i = a /\ i' = a + 1 /\ i \in 1 .. Len(tokens) /\ i' # 1 /\ i' - 1 = i
  <2>1. i = a
    BY <1>6, <1>9, <1>10 DEF WorksAt, At
  <2> QED BY <1>6, <1>7, <2>1 DEF Reads
<1>12. WorksAt(worth, g, a + 1, T)'
  <2>1. tokens[i] \notin Enders
    BY <1>6, Sets
  <2> QED BY <1>1, <1>5, <1>11, <2>1 DEF WorksAt
<1>13. PICK f : f = stack'[n]
  OBVIOUS
<1>14. f.at = at
  BY <1>6, <1>13 DEF Pushes
<1>15. WaitsIn(worth, f, a, a + 1, T)'
  <2>1. f.at # "first" /\ f.at # "rest" /\ f.at # "operand" /\ f.at # "minus"
    BY <1>14
  <2> QED BY <1>6, <1>11, <1>14, <2>1 DEF WaitsIn
<1>16. Kind(g.fn) = Wants(stack[n].fn, at) /\ Working(g)
  BY <1>1, <1>2, <1>5, Sets DEF Kind, Wants, Working
<1>17. PICK c2 : c2 = [j \in Nat |-> IF j = n THEN a + 1 ELSE c[j]]
  OBVIOUS
<1>18. Preserves(T, T) /\ a + 1 \in Nat
  BY <1>6, SamePreserves
<1>19. Grammar(worth, c, T)
  BY DEF Built
<1>20. Grammar(worth, c2, T)'
  BY <1>6, <1>10, <1>12, <1>13, <1>15, <1>16, <1>17, <1>18, <1>19, PushGrammar
<1> QED BY <1>8, <1>20, BuiltIs

\* unary without a sign.
LEMMA UnsignedBuilt ==
  ASSUME NEW worth, ParserTypeOK, tokens' = tokens, NEW c, NEW T, NEW R, Built(worth, c, T, R),
         NEW n, UnsignedStep(n)
  PROVE  \E c2 : Built(worth, c2, T, R)'
<1>1. PICK g : g = Call("primary", "entry", NULL)
  OBVIOUS
<1>2. /\ g.fn = "primary" /\ g.at = "entry"
  BY <1>1, CallFields
<1>3. /\ At(n, "unary", "entry") /\ ret = Called /\ Replaces(n, g)
      /\ i' = i /\ nodes' = nodes /\ next \notin {"+", "-"}
  BY <1>1 DEF UnsignedStep
<1>4. Len(nodes) \in Nat
  BY DEF ParserTypeOK
<1>5. Forest(worth, T, R)'
  BY <1>2, <1>3, <1>4, QuietReplace DEF Built
<1>6. WorksAt(worth, stack[n], c[n - 1], T)
  BY <1>3, TopWorks DEF Built
<1>7. i = c[n - 1] /\ (i = 1 \/ tokens[i - 1] \notin Enders)
  BY <1>3, <1>6 DEF WorksAt, At
<1>8. next' = next
  BY <1>3 DEF next
<1>9. WorksAt(worth, g, c[n - 1], T)'
  BY <1>2, <1>3, <1>7, <1>8 DEF WorksAt
<1>10. Kind(g.fn) = Kind(stack[n].fn) /\ Working(g)
  BY <1>2, <1>3 DEF Kind, At, Working
<1>11. Preserves(T, T) /\ Grammar(worth, c, T)
  BY <1>3, SamePreserves DEF Built
<1>12. Grammar(worth, c, T)'
  BY <1>3, <1>9, <1>10, <1>11, ReplaceGrammar
<1> QED BY <1>5, <1>12, BuiltIs

\* The first operand of sum or product has returned.
LEMMA FirstBuilt ==
  ASSUME NEW worth, ParserTypeOK, tokens' = tokens, NEW c, NEW T, NEW R, Built(worth, c, T, R),
         NEW n, NEW l \in Levels, FirstStep(n, l)
  PROVE  \E c2 : Built(worth, c2, T, R)'
<1>1. PICK g : g = Call(l, "loop", ret)
  OBVIOUS
<1>2. /\ g.fn = l /\ g.at = "loop" /\ g.dag = ret /\ g.left = ret
  BY <1>1, CallFields
<1>3. /\ At(n, l, "first") /\ ret # Called /\ ret # NULL /\ Replaces(n, g)
      /\ i' = i /\ nodes' = nodes
  BY <1>1 DEF FirstStep
<1>4. Len(nodes) \in Nat
  BY DEF ParserTypeOK
<1>5. Forest(worth, T, R)'
  BY <1>2, <1>3, <1>4, TakeForest DEF Built
<1>6. Waiting(stack[n]) /\ stack[n].fn = l /\ stack[n].at = "first"
  BY <1>3 DEF At, Waiting
<1>7. WaitsIn(worth, stack[n], c[n - 1], c[n], T) /\ Got(worth, Wants(l, "first"), c[n], ret, T)
  BY <1>3, <1>6, TopWaits DEF Built
<1>8. PICK a : a = c[n - 1]
  OBVIOUS
<1>9. c[n] = a /\ Got(worth, Operand[l], a, ret, T)
  BY <1>6, <1>7, <1>8 DEF WaitsIn, Wants
<1>10. PICK b : b = i - 1
  OBVIOUS
<1>11. Phrase(worth, tokens, Operand[l], a, b) /\ T[ret] = Sense(worth, tokens, Operand[l], a, b)
       /\ next \notin Taken(Operand[l])
  BY <1>9, <1>10 DEF Got
<1>12. Phrase(worth, tokens, l, a, b) /\ T[ret] = Sense(worth, tokens, l, a, b)
  <2>1. tokens \in Seq(Lexemes) /\ l \in {"sum", "product"}
    BY Sets DEF ParserTypeOK
  <2> QED BY <1>11, <2>1, PhraseUp
<1>13. next' = next
  BY <1>3 DEF next
<1>14. WorksAt(worth, g, a, T)'
  BY <1>2, <1>3, <1>10, <1>11, <1>12, <1>13 DEF WorksAt
<1>15. Kind(g.fn) = Kind(stack[n].fn) /\ Working(g)
  BY <1>2, <1>6 DEF Kind, Working
<1>16. Preserves(T, T) /\ Grammar(worth, c, T)
  BY <1>3, SamePreserves DEF Built
<1>17. Grammar(worth, c, T)'
  BY <1>3, <1>8, <1>14, <1>15, <1>16, ReplaceGrammar
<1> QED BY <1>5, <1>17, BuiltIs

\* The loop goes on with the next operator.
LEMMA AgainBuilt ==
  ASSUME NEW worth, ParserTypeOK, tokens' = tokens, NEW c, NEW T, NEW R, Built(worth, c, T, R),
         NEW n, NEW l \in Levels, AgainStep(n, l)
  PROVE  \E c2 : Built(worth, c2, T, R)'
<1>1. PICK g \in Frames : g.fn = l /\ g.at = "loop" /\ g.dag = ret /\ Replaces(n, g)
  BY DEF AgainStep
<1>2. /\ At(n, l, "rest") /\ ret # Called /\ ret # NULL
      /\ i' = i /\ nodes' = nodes
  BY DEF AgainStep
<1>3. Len(nodes) \in Nat
  BY DEF ParserTypeOK
<1>4. Forest(worth, T, R)'
  BY <1>1, <1>2, <1>3, TakeForest DEF Built
<1>5. Waiting(stack[n]) /\ stack[n].fn = l /\ stack[n].at = "rest"
  BY <1>2 DEF At, Waiting
<1>6. WaitsIn(worth, stack[n], c[n - 1], c[n], T) /\ Got(worth, Wants(l, "rest"), c[n], ret, T)
  BY <1>2, <1>5, TopWaits DEF Built
<1>7. PICK a : a = c[n - 1]
  OBVIOUS
<1>8. c[n] = a /\ Got(worth, l, a, ret, T)
  BY <1>5, <1>6, <1>7 DEF WaitsIn, Wants
<1>9. Phrase(worth, tokens, l, a, i - 1) /\ T[ret] = Sense(worth, tokens, l, a, i - 1)
       /\ next \notin Taken(l)
  BY <1>8 DEF Got
<1>10. next \notin Taken(Operand[l]) /\ next \notin Operators[l]
  BY <1>9, Sets DEF Taken, Signs
<1>11. next' = next
  BY <1>2 DEF next
<1>12. WorksAt(worth, g, a, T)'
  BY <1>1, <1>2, <1>9, <1>10, <1>11 DEF WorksAt
<1>13. Kind(g.fn) = Kind(stack[n].fn) /\ Working(g)
  BY <1>1, <1>5 DEF Kind, Working
<1>14. Preserves(T, T) /\ Grammar(worth, c, T)
  BY <1>2, SamePreserves DEF Built
<1>15. Grammar(worth, c, T)'
  BY <1>1, <1>7, <1>12, <1>13, <1>14, ReplaceGrammar
<1> QED BY <1>4, <1>15, BuiltIs

\* The loop ends, and what it holds is returned.
LEMMA LastBuilt ==
  ASSUME NEW worth, ParserTypeOK, tokens' = tokens, NEW c, NEW T, NEW R, Built(worth, c, T, R),
         NEW n, NEW l \in Levels, LastStep(n, l)
  PROVE  \E c2 : Built(worth, c2, T, R)'
<1>1. PICK d : d = stack[n].dag
  OBVIOUS
<1>2. /\ At(n, l, "loop") /\ ret = Called /\ Pops(n, d)
      /\ i' = i /\ nodes' = nodes /\ next \notin Operators[l]
  BY <1>1 DEF LastStep
<1>3. Len(nodes) \in Nat /\ d # Called
  <2>1. n \in 1 .. Len(stack)
    BY <1>2 DEF At
  <2>2. d \in 0 .. Len(nodes) /\ Len(nodes) \in Nat
    BY <1>1, <2>1 DEF ParserTypeOK
  <2> QED BY <2>2 DEF Called
<1>4. Forest(worth, T, R)'
  BY <1>1, <1>2, <1>3, GiveForest DEF Built
<1>5. WorksAt(worth, stack[n], c[n - 1], T)
  BY <1>2, TopWorks DEF Built
<1>6. stack[n].fn = l /\ stack[n].at = "loop"
  BY <1>2 DEF At
<1>7. /\ Phrase(worth, tokens, l, c[n - 1], i - 1) /\ T[d] = Sense(worth, tokens, l, c[n - 1], i - 1)
      /\ next \notin Taken(Operand[l])
  BY <1>1, <1>5, <1>6 DEF WorksAt
<1>8. next \notin Taken(l) /\ Kind(l) = l
  BY <1>2, <1>7, Sets DEF Taken, Signs, Kind
<1>9. next' = next
  BY <1>2 DEF next
<1>10. Got(worth, l, c[n - 1], d, T)'
  BY <1>2, <1>7, <1>8, <1>9 DEF Got
<1>11. Preserves(T, T) /\ Grammar(worth, c, T)
  BY <1>2, SamePreserves DEF Built
<1>12. Grammar(worth, c, T)'
  BY <1>2, <1>3, <1>6, <1>8, <1>10, <1>11, PopGrammar
<1> QED BY <1>4, <1>12, BuiltIs

\* A plus or parentheses pass on what was returned.
LEMMA PassBuilt ==
  ASSUME NEW worth, ParserTypeOK, tokens' = tokens, NEW c, NEW T, NEW R, Built(worth, c, T, R),
         NEW n, PlusReturns(n) \/ CloseStep(n)
  PROVE  \E c2 : Built(worth, c2, T, R)'
<1>1. PICK at \in {"plus", "close"} : at = IF PlusReturns(n) THEN "plus" ELSE "close"
  OBVIOUS
<1>2. PICK own : own = IF PlusReturns(n) THEN "unary" ELSE "primary"
  OBVIOUS
<1>3. /\ At(n, own, at) /\ ret # Called /\ ret # NULL /\ Pops(n, ret) /\ nodes' = nodes
      /\ IF at = "plus" THEN i' = i ELSE Reads /\ tokens[i] = ")"
  BY <1>1, <1>2 DEF PlusReturns, CloseStep
<1>4. Len(nodes) \in Nat /\ Len(tokens) \in Nat /\ tokens \in Seq(Lexemes) /\ i \in Nat
  BY DEF ParserTypeOK
<1>5. Forest(worth, T, R)'
  BY <1>3, <1>4, PassForest DEF Built
<1>6. Waiting(stack[n]) /\ stack[n].fn = own /\ stack[n].at = at
  BY <1>1, <1>2, <1>3 DEF At, Waiting
<1>7. WaitsIn(worth, stack[n], c[n - 1], c[n], T) /\ Got(worth, Wants(own, at), c[n], ret, T)
  BY <1>3, <1>6, TopWaits DEF Built
<1>8. PICK a : a = c[n - 1]
  OBVIOUS
<1>9. /\ c[n] = a + 1 /\ a \in 1 .. Len(tokens)
      /\ tokens[a] = IF at = "plus" THEN "+" ELSE "("
  BY <1>6, <1>7, <1>8 DEF WaitsIn
<1>10. PICK b : b = i' - 1
  OBVIOUS
<1>11. Phrase(worth, tokens, "unary", a, b) /\ T[ret] = Sense(worth, tokens, "unary", a, b)
  <2>1. CASE at = "plus"
    <3>1. Phrase(worth, tokens, "unary", a + 1, b) /\ T[ret] = Sense(worth, tokens, "unary", a + 1, b)
      BY <1>3, <1>7, <1>9, <1>10, <2>1 DEF Got, Wants
    <3>2. tokens[a] = "+"
      BY <1>9, <2>1
    <3>3. /\ Phrase(worth, tokens, "unary", a, b)
          /\ Sense(worth, tokens, "unary", a, b) = Sense(worth, tokens, "unary", a + 1, b)
      BY <1>4, <1>9, <3>1, <3>2, PhraseSign
    <3> QED BY <3>1, <3>3
  <2>2. CASE at = "close"
    <3>1. b = i /\ b \in 1 .. Len(tokens) /\ i - 1 = b - 1 /\ tokens[b] = ")"
      BY <1>3, <1>4, <1>10, <2>2 DEF Reads
    <3>2. Phrase(worth, tokens, "sum", a + 1, b - 1) /\ T[ret] = Sense(worth, tokens, "sum", a + 1, b - 1)
      BY <1>7, <1>9, <2>2, <3>1 DEF Got, Wants
    <3>3. tokens[a] = "("
      BY <1>9, <2>2
    <3>4. /\ Phrase(worth, tokens, "unary", a, b)
          /\ Sense(worth, tokens, "unary", a, b) = Sense(worth, tokens, "sum", a + 1, b - 1)
      BY <1>4, <1>9, <3>1, <3>2, <3>3, PhraseParentheses
    <3> QED BY <3>2, <3>4
  <2> QED BY <2>1, <2>2
<1>12. Kind(own) = "unary" /\ Taken("unary") = {}
  BY <1>2 DEF Kind, Taken
<1>13. PICK K : K = Kind(stack[n].fn)
  OBVIOUS
<1>14. K = "unary"
  BY <1>6, <1>12, <1>13
<1>15. PICK d : d = ret
  OBVIOUS
<1>16. Got(worth, K, a, d, T)'
  BY <1>10, <1>11, <1>12, <1>14, <1>15 DEF Got
<1>17. Preserves(T, T) /\ Grammar(worth, c, T)
  BY <1>3, SamePreserves DEF Built
<1>18. Grammar(worth, c, T)'
  BY <1>3, <1>8, <1>13, <1>15, <1>16, <1>17, PopGrammar
<1> QED BY <1>5, <1>18, BuiltIs

\* A new node preserves those there were.
LEMMA GrowPreserves ==
  ASSUME NEW worth, NEW T, NEW R, Forest(worth, T, R), NEW m \in Nat, m = Len(nodes), NEW node, Grows(node),
         NEW t, NEW T2, T2 = [d \in Nat |-> IF d = m + 1 THEN t ELSE T[d]]
  PROVE  Preserves(T, T2)
<1>1. ASSUME NEW p \in 1 .. Len(nodes)
      PROVE  /\ nodes'[p].op = nodes[p].op /\ nodes'[p].left = nodes[p].left
             /\ T2[nodes[p].left] = T[nodes[p].left]
  <2>1. nodes'[p] = nodes[p]
    BY DEF Grows
  <2>2. nodes[p].left \in 0 .. m
    BY SidesIn
  <2>3. PICK e : e = nodes[p].left
    OBVIOUS
  <2>4. e \in Nat /\ e # m + 1
    BY <2>2, <2>3
  <2>5. T2[e] = T[e]
    BY <2>4
  <2> QED BY <2>1, <2>3, <2>5
<1> QED BY <1>1 DEF Preserves

\* So does completing the one that awaits its operand.
LEMMA CompletePreserves ==
  ASSUME NEW worth, NEW T, NEW R, Forest(worth, T, R), NEW m \in Nat, m = Len(nodes),
         NEW j \in Nat, Held(j) # NULL, NEW d, d = Held(j), NEW e, Completes(d, e),
         NEW t, NEW T2, T2 = [p \in Nat |-> IF p = d THEN t ELSE T[p]]
  PROVE  Preserves(T, T2)
<1>1. ASSUME NEW p \in 1 .. Len(nodes)
      PROVE  /\ nodes'[p].op = nodes[p].op /\ nodes'[p].left = nodes[p].left
             /\ T2[nodes[p].left] = T[nodes[p].left]
  <2>1. nodes'[p].op = nodes[p].op /\ nodes'[p].left = nodes[p].left
    BY DEF Completes
  <2>2. nodes[p].left \in 0 .. m
    BY SidesIn
  <2>3. PICK q : q = nodes[p].left
    OBVIOUS
  <2>4. q \in Nat /\ q # d
    BY <2>2, <2>3, HeldRoot
  <2>5. T2[q] = T[q]
    BY <2>4
  <2> QED BY <2>1, <2>3, <2>5
<1> QED BY <1>1 DEF Preserves

-----------------------------------------------------------------------------
\* The steps that make a node.

\* sum or product makes the node of an operator.
LEMMA OperatorBuilt ==
  ASSUME NEW worth, ParserTypeOK, tokens' = tokens, NEW c, NEW T, NEW R, Built(worth, c, T, R),
         NEW n, NEW l \in Levels, OperatorStep(n, l)
  PROVE  \E c2, T2, R2 : Built(worth, c2, T2, R2)'
<1>1. PICK m \in Nat : m = Len(nodes)
  BY DEF ParserTypeOK
<1>2. PICK op : op = tokens[i]
  OBVIOUS
<1>3. PICK g : g = Call(Operand[l], "entry", NULL)
  OBVIOUS
<1>4. /\ g.fn = Operand[l] /\ g.at = "entry"
  BY <1>3, CallFields
<1>5. /\ At(n, l, "loop") /\ ret = Called /\ Reads /\ op \in Operators[l]
      /\ nodes' = Append(nodes, Node(op, NULL, stack[n].left))
      /\ Pushes(n, "operand", m + 1, g)
  BY <1>1, <1>2, <1>3 DEF OperatorStep
<1>6. Forest(worth, T, R) /\ Grammar(worth, c, T)
  BY DEF Built
<1>7. WorksAt(worth, stack[n], c[n - 1], T) /\ c[n - 1] \in Nat
  BY <1>5, <1>6, TopWorks
<1>8. PICK a \in Nat : a = c[n - 1]
  BY <1>7
<1>9. n \in 1 .. Len(stack) /\ stack[n].fn = l /\ stack[n].at = "loop" /\ n \in Nat
  BY <1>5 DEF At
<1>10. i \in 1 .. Len(tokens) /\ i' = i + 1 /\ next = op
  BY <1>2, <1>5 DEF Reads, next
<1>11. PICK d : d = stack[n].dag
  OBVIOUS
<1>12. /\ Phrase(worth, tokens, l, a, i - 1) /\ T[d] = Sense(worth, tokens, l, a, i - 1)
       /\ stack[n].left = d
  BY <1>5, <1>7, <1>8, <1>9, <1>10, <1>11 DEF WorksAt
<1>13. d # NULL /\ d \in 0 .. m /\ d \in Nat /\ nodes \in Seq(NodeSet)
  BY <1>1, <1>6, <1>9, <1>11 DEF Forest, ParserTypeOK
<1>14. Held(n) = d /\ Awaited(n) = NULL /\ Held(0) = NULL /\ Held(n + 1) = NULL
       /\ Awaited(n + 1) = NULL
  BY <1>5, <1>11, TopHeld DEF Kept, Wait
<1>15. op \in Kinds /\ op \notin {"val", "neg"}
  BY <1>5, OperatorKind
<1>16. Grows(Node(op, NULL, d))
  BY <1>5, <1>12, <1>13, <1>15, GrowsIs DEF NULL
<1>0. PICK val : val = NULL
  OBVIOUS
<1>q. PICK q : q = m + 1
  OBVIOUS
<1>r. PICK r : r = R[Held(n)] + 1
  OBVIOUS
<1>17. Grows(Node(op, val, Held(n)))
  BY <1>0, <1>14, <1>16
<1>18. PICK T2 : T2 = [p \in Nat |-> IF p = q THEN <<"val", worth[val]>> ELSE T[p]]
  OBVIOUS
<1>19. PICK R2 : R2 = [p \in Nat |-> IF p = q THEN r ELSE R[p]]
  OBVIOUS
<1>20. Forest(worth, T2, R2)'
  <2>1. \A j \in Nat : /\ Held(j)' = IF j = n THEN q ELSE Held(j)
                       /\ Awaited(j)' = IF j = n /\ op # "val" THEN q ELSE Awaited(j)
    <3>1. \A j \in Nat :
           /\ Held(j)' = IF j = 0 THEN NULL ELSE IF j = n THEN Kept("operand", m + 1)
                         ELSE IF j = n + 1 THEN Kept(g.at, g.dag) ELSE Held(j)
           /\ Awaited(j)' = IF j = n THEN Wait("operand", m + 1)
                            ELSE IF j = n + 1 THEN Wait(g.at, g.dag) ELSE Awaited(j)
      BY <1>5, PushHeld
    <3>2. /\ Kept("operand", m + 1) = m + 1 /\ Wait("operand", m + 1) = m + 1
          /\ Kept(g.at, g.dag) = NULL /\ Wait(g.at, g.dag) = NULL
      BY <1>4 DEF Kept, Wait
    <3>3. n # 0
      BY <1>9
    <3> QED BY ONLY <1>q, <1>14, <1>15, <3>1, <3>2, <3>3
  <2>2. \A j \in 1 .. Len(stack') : stack'[j].at = "loop" => stack'[j].dag # NULL
    BY <1>4, <1>5, <1>6, PushLoops
  <2>3. op \in {"val", "neg"} <=> Held(n) = NULL
    BY <1>13, <1>14, <1>15
  <2>4. \A p \in Nat : /\ T2[p] = IF p = q THEN <<"val", worth[val]>> ELSE T[p]
                       /\ R2[p] = IF p = q THEN r ELSE R[p]
    BY <1>18, <1>19
  <2>z. GrowStep(worth, T, R, m, n, q, r, op, val, T2, R2)
    BY ONLY <1>q, <1>r, <1>1, <1>6, <1>9, <1>14, <1>15, <1>17, <2>1, <2>2, <2>3,
            <2>4, ZenonT(60) DEF GrowStep
  <2> QED BY ONLY <2>z, GrowForest
<1>21. Preserves(T, T2)
  BY <1>1, <1>6, <1>16, <1>18, <1>q, GrowPreserves
<1>22. PICK f : f = stack'[n]
  OBVIOUS
<1>23. f.at = "operand" /\ f.fn = l /\ f.dag = m + 1
  BY <1>5, <1>9, <1>22 DEF Pushes
<1>24. nodes'[m + 1].op = op /\ nodes'[m + 1].left = d
  BY <1>1, <1>16 DEF Grows, Node
<1>25. T2[d] = T[d]
  <2>1. d # q
    BY <1>q, <1>13
  <2> QED BY <1>13, <1>18, <2>1
<1>26. PICK b \in Nat : b = i + 1
  BY <1>10
<1>27. b - 2 = i - 1 /\ b - 1 = i /\ b # 1 /\ i' = b
  BY <1>10, <1>26
<1>28. WaitsIn(worth, f, a, b, T2)'
  <2>1. Phrase(worth, tokens, l, a, b - 2) /\ T2[d] = Sense(worth, tokens, l, a, b - 2)
    BY <1>12, <1>25, <1>27
  <2>2. b - 1 \in 1 .. Len(tokens) /\ tokens[b - 1] = op
    BY <1>2, <1>10, <1>27
  <2> QED BY <1>5, <1>23, <1>24, <2>1, <2>2 DEF WaitsIn
<1>29. WorksAt(worth, g, b, T2)'
  <2>1. tokens[b - 1] \notin Enders
    BY <1>2, <1>5, <1>27, Sets
  <2>2. g.fn # "primary"
    BY <1>4, Sets
  <2> QED BY <1>4, <1>27, <2>1, <2>2 DEF WorksAt
<1>30. Kind(g.fn) = Wants(stack[n].fn, "operand") /\ Working(g)
  BY <1>4, <1>9, Sets DEF Kind, Wants, Working
<1>31. PICK c2 : c2 = [j \in Nat |-> IF j = n THEN b ELSE c[j]]
  OBVIOUS
<1>32. Grammar(worth, c2, T2)'
  BY <1>5, <1>6, <1>8, <1>21, <1>22, <1>28, <1>29, <1>30, <1>31, PushGrammar
<1> QED BY <1>20, <1>32, BuiltIs

\* unary makes the node of a minus.
LEMMA MinusBuilt ==
  ASSUME NEW worth, ParserTypeOK, tokens' = tokens, NEW c, NEW T, NEW R, Built(worth, c, T, R),
         NEW n, MinusStep(n)
  PROVE  \E c2, T2, R2 : Built(worth, c2, T2, R2)'
<1>1. PICK m \in Nat : m = Len(nodes)
  BY DEF ParserTypeOK
<1>2. PICK g : g = Call("unary", "entry", NULL)
  OBVIOUS
<1>3. /\ g.fn = "unary" /\ g.at = "entry"
  BY <1>2, CallFields
<1>4. /\ At(n, "unary", "entry") /\ ret = Called /\ Reads /\ tokens[i] = "-"
      /\ nodes' = Append(nodes, Node("neg", NULL, NULL))
      /\ Pushes(n, "minus", m + 1, g)
  BY <1>1, <1>2 DEF MinusStep
<1>5. Forest(worth, T, R) /\ Grammar(worth, c, T) /\ nodes \in Seq(NodeSet)
  BY DEF Built, ParserTypeOK
<1>6. WorksAt(worth, stack[n], c[n - 1], T) /\ c[n - 1] \in Nat
  BY <1>4, <1>5, TopWorks
<1>7. PICK a \in Nat : a = c[n - 1]
  BY <1>6
<1>8. stack[n].fn = "unary" /\ stack[n].at = "entry" /\ n \in Nat /\ n # 0
  BY <1>4 DEF At
<1>9. i \in 1 .. Len(tokens) /\ i' = i + 1 /\ i = a
  BY <1>4, <1>6, <1>7, <1>8 DEF Reads, WorksAt
<1>10. Held(n) = NULL /\ Awaited(n) = NULL /\ Held(0) = NULL /\ Held(n + 1) = NULL
       /\ Awaited(n + 1) = NULL
  BY <1>4, TopHeld DEF Kept, Wait
<1>11. Grows(Node("neg", NULL, NULL))
  BY <1>4, <1>5, GrowsIs, KindsAre DEF NULL
<1>0. PICK val : val = NULL
  OBVIOUS
<1>q. PICK q : q = m + 1
  OBVIOUS
<1>r. PICK r : r = R[Held(n)] + 1
  OBVIOUS
<1>12. Grows(Node("neg", val, Held(n)))
  BY <1>0, <1>10, <1>11
<1>13. PICK T2 : T2 = [p \in Nat |-> IF p = q THEN <<"val", worth[val]>> ELSE T[p]]
  OBVIOUS
<1>14. PICK R2 : R2 = [p \in Nat |-> IF p = q THEN r ELSE R[p]]
  OBVIOUS
<1>15. PICK op : op = "neg"
  OBVIOUS
<1>16. Forest(worth, T2, R2)'
  <2>1. \A j \in Nat : /\ Held(j)' = IF j = n THEN q ELSE Held(j)
                       /\ Awaited(j)' = IF j = n /\ op # "val" THEN q ELSE Awaited(j)
    <3>1. \A j \in Nat :
           /\ Held(j)' = IF j = 0 THEN NULL ELSE IF j = n THEN Kept("minus", m + 1)
                         ELSE IF j = n + 1 THEN Kept(g.at, g.dag) ELSE Held(j)
           /\ Awaited(j)' = IF j = n THEN Wait("minus", m + 1)
                            ELSE IF j = n + 1 THEN Wait(g.at, g.dag) ELSE Awaited(j)
      BY <1>4, PushHeld
    <3>2. /\ Kept("minus", m + 1) = m + 1 /\ Wait("minus", m + 1) = m + 1
          /\ Kept(g.at, g.dag) = NULL /\ Wait(g.at, g.dag) = NULL
      BY <1>3 DEF Kept, Wait
    <3> QED BY ONLY <1>q, <1>8, <1>10, <1>15, <3>1, <3>2
  <2>2. \A j \in 1 .. Len(stack') : stack'[j].at = "loop" => stack'[j].dag # NULL
    BY <1>3, <1>4, <1>5, PushLoops
  <2>3. op \in {"val", "neg"} <=> Held(n) = NULL
    BY <1>10, <1>15
  <2>4. op \in Kinds
    BY <1>15, KindsAre
  <2>5. Grows(Node(op, val, Held(n)))
    BY <1>12, <1>15
  <2>6. \A p \in Nat : /\ T2[p] = IF p = q THEN <<"val", worth[val]>> ELSE T[p]
                       /\ R2[p] = IF p = q THEN r ELSE R[p]
    BY <1>13, <1>14
  <2>z. GrowStep(worth, T, R, m, n, q, r, op, val, T2, R2)
    BY ONLY <1>q, <1>r, <1>1, <1>5, <1>8, <1>10, <2>1, <2>2, <2>3, <2>4, <2>5,
            <2>6, ZenonT(60) DEF GrowStep
  <2> QED BY ONLY <2>z, GrowForest
<1>17. Preserves(T, T2)
  BY <1>1, <1>5, <1>11, <1>13, <1>q, GrowPreserves
<1>18. PICK f : f = stack'[n]
  OBVIOUS
<1>19. f.at = "minus" /\ f.dag = m + 1
  BY <1>4, <1>18 DEF Pushes
<1>20. nodes'[m + 1].op = "neg"
  BY <1>1, <1>11 DEF Grows, Node
<1>21. PICK b \in Nat : b = i + 1
  BY <1>9
<1>22. b - 1 = i /\ b # 1 /\ i' = b /\ b = a + 1 /\ a \in 1 .. Len(tokens)
  BY <1>9, <1>21
<1>23. WaitsIn(worth, f, a, b, T2)'
  BY <1>4, <1>9, <1>19, <1>20, <1>22 DEF WaitsIn
<1>24. WorksAt(worth, g, b, T2)'
  <2>1. tokens[b - 1] \notin Enders
    BY <1>4, <1>22, Sets
  <2> QED BY <1>3, <1>22, <2>1 DEF WorksAt
<1>25. Kind(g.fn) = Wants(stack[n].fn, "minus") /\ Working(g)
  BY <1>3 DEF Kind, Wants, Working
<1>26. PICK c2 : c2 = [j \in Nat |-> IF j = n THEN b ELSE c[j]]
  OBVIOUS
<1>27. Grammar(worth, c2, T2)'
  BY <1>4, <1>5, <1>7, <1>17, <1>18, <1>23, <1>24, <1>25, <1>26, PushGrammar
<1> QED BY <1>16, <1>27, BuiltIs

\* primary makes the node of a literal.
LEMMA LiteralBuilt ==
  ASSUME NEW worth, ParserTypeOK, tokens' = tokens, NEW c, NEW T, NEW R, Built(worth, c, T, R),
         NEW n, LiteralStep(n)
  PROVE  \E c2, T2, R2 : Built(worth, c2, T2, R2)'
<1>1. PICK m \in Nat : m = Len(nodes)
  BY DEF ParserTypeOK
<1>2. /\ At(n, "primary", "entry") /\ ret = Called /\ Reads /\ tokens[i] \in Literals
      /\ nodes' = Append(nodes, Node("val", i, NULL)) /\ Pops(n, m + 1)
  BY <1>1 DEF LiteralStep
<1>3. Forest(worth, T, R) /\ Grammar(worth, c, T) /\ nodes \in Seq(NodeSet) /\ tokens \in Seq(Lexemes)
  BY DEF Built, ParserTypeOK
<1>4. WorksAt(worth, stack[n], c[n - 1], T)
  BY <1>2, <1>3, TopWorks
<1>5. PICK a : a = c[n - 1]
  OBVIOUS
<1>6. stack[n].fn = "primary" /\ stack[n].at = "entry" /\ n \in Nat /\ n # 0
  BY <1>2 DEF At
<1>7. i \in 1 .. Len(tokens) /\ i' = i + 1 /\ i = a /\ i \in Nat
  BY <1>2, <1>4, <1>5, <1>6 DEF Reads, WorksAt
<1>8. Held(n) = NULL /\ Awaited(n) = NULL /\ Held(0) = NULL /\ Awaited(0) = NULL
  BY <1>2, TopHeld DEF Kept, Wait
<1>9. Grows(Node("val", i, NULL))
  BY <1>2, <1>3, <1>7, GrowsIs, KindsAre DEF NULL
<1>10. PICK val : val = i
  OBVIOUS
<1>q. PICK q : q = m + 1
  OBVIOUS
<1>r. PICK r : r = R[Held(0)] + 1
  OBVIOUS
<1>11. PICK T2 : T2 = [p \in Nat |-> IF p = q THEN <<"val", worth[val]>> ELSE T[p]]
  OBVIOUS
<1>12. PICK R2 : R2 = [p \in Nat |-> IF p = q THEN r ELSE R[p]]
  OBVIOUS
<1>13. PICK op : op = "val"
  OBVIOUS
<1>14. m + 1 # Called /\ m + 1 \in Nat
  BY DEF Called
<1>15. Forest(worth, T2, R2)'
  <2>1. \A j \in Nat : /\ Held(j)' = IF j = 0 THEN q ELSE Held(j)
                       /\ Awaited(j)' = IF j = 0 /\ op # "val" THEN q ELSE Awaited(j)
    <3>1. \A j \in Nat :
           /\ Held(j)' = IF j = 0 THEN m + 1 ELSE IF j = n THEN NULL ELSE Held(j)
           /\ Awaited(j)' = IF j = n THEN NULL ELSE Awaited(j)
      BY <1>2, <1>14, PopHeld
    <3> QED BY ONLY <1>q, <1>6, <1>8, <1>13, <3>1
  <2>2. \A j \in 1 .. Len(stack') : stack'[j].at = "loop" => stack'[j].dag # NULL
    BY <1>2, <1>3, PopLoops
  <2>3. op \in {"val", "neg"} <=> Held(0) = NULL
    BY <1>8, <1>13
  <2>4. op \in Kinds /\ 0 \in Nat
    BY <1>13, KindsAre
  <2>5. Grows(Node(op, val, Held(0)))
    BY <1>8, <1>9, <1>10, <1>13
  <2>6. \A p \in Nat : /\ T2[p] = IF p = q THEN <<"val", worth[val]>> ELSE T[p]
                       /\ R2[p] = IF p = q THEN r ELSE R[p]
    BY <1>11, <1>12
  <2>z. GrowStep(worth, T, R, m, 0, q, r, op, val, T2, R2)
    BY ONLY <1>q, <1>r, <1>1, <1>3, <1>8, <2>1, <2>2, <2>3, <2>4, <2>5, <2>6,
            ZenonT(60) DEF GrowStep
  <2> QED BY ONLY <2>z, GrowForest
<1>16. Preserves(T, T2)
  BY <1>1, <1>3, <1>9, <1>11, <1>q, GrowPreserves
<1>17. PICK d : d = m + 1
  OBVIOUS
<1>18. PICK K : K = Kind(stack[n].fn)
  OBVIOUS
<1>19. K = "unary" /\ Taken(K) = {}
  BY <1>6, <1>18 DEF Kind, Taken
<1>20. Phrase(worth, tokens, "unary", a, a) /\ Sense(worth, tokens, "unary", a, a) = <<"val", worth[a]>>
  BY <1>2, <1>3, <1>7, PhraseLiteral
<1>21. i' - 1 = a
  BY <1>7
<1>22. T2[d] = <<"val", worth[a]>>
  BY <1>q, <1>7, <1>10, <1>11, <1>14, <1>17
<1>23. Got(worth, K, a, d, T2)'
  BY <1>19, <1>20, <1>21, <1>22 DEF Got
<1>24. Grammar(worth, c, T2)'
  BY <1>2, <1>3, <1>5, <1>14, <1>16, <1>17, <1>18, <1>23, PopGrammar
<1> QED BY <1>15, <1>24, BuiltIs

-----------------------------------------------------------------------------
\* The steps that complete a node.

Joined(worth, s, l, a, b, k, p, q) ==
  /\ s \in Seq(Lexemes) /\ l \in {"sum", "product"} /\ k \in 1 .. Len(s)
  /\ p = k - 1 /\ q = k + 1
  /\ Phrase(worth, s, l, a, p) /\ s[k] \in Operators[l] /\ Phrase(worth, s, Operand[l], q, b)

\* The phrase with the operator just completed.
LEMMA PhraseOperator ==
  ASSUME NEW worth, NEW s, NEW l, NEW a, NEW b, NEW k, NEW p, NEW q,
         Joined(worth, s, l, a, b, k, p, q)
  PROVE  /\ Phrase(worth, s, l, a, b)
         /\ Sense(worth, s, l, a, b) =
              <<s[k], Sense(worth, s, l, a, p), Sense(worth, s, Operand[l], q, b)>>
<1>1. Between(worth, s, l, a, b, k) /\ p = k - 1 /\ q = k + 1
  BY DEF Joined, Between
<1>2. /\ Phrase(worth, s, l, a, b)
      /\ Sense(worth, s, l, a, b) =
           <<s[k], Sense(worth, s, l, a, k - 1), Sense(worth, s, Operand[l], k + 1, b)>>
  BY ONLY <1>1, PhraseBinary
<1> QED BY <1>1, <1>2

\* sum or product stores the operand on the right.
LEMMA RestBuilt ==
  ASSUME NEW worth, ParserTypeOK, tokens' = tokens, NEW c, NEW T, NEW R, Built(worth, c, T, R),
         NEW n, NEW l \in Levels, RestStep(n, l)
  PROVE  \E c2, T2, R2 : Built(worth, c2, T2, R2)'
<1>1. PICK m \in Nat : m = Len(nodes)
  BY DEF ParserTypeOK
<1>2. PICK d : d = stack[n].dag
  OBVIOUS
<1>3. PICK e : e = ret
  OBVIOUS
<1>4. PICK g : g = Call(l, "loop", d)
  OBVIOUS
<1>5. /\ g.fn = l /\ g.at = "loop" /\ g.dag = d /\ g.left = d
  BY <1>4, CallFields
<1>6. /\ At(n, l, "operand") /\ ret # Called /\ ret # NULL /\ i' = i
      /\ nodes' = [nodes EXCEPT ![d].right = e] /\ Pushes(n, "rest", d, g)
  BY <1>2, <1>3, <1>4 DEF RestStep
<1>7. Forest(worth, T, R) /\ Grammar(worth, c, T) /\ nodes \in Seq(NodeSet) /\ tokens \in Seq(Lexemes)
  BY DEF Built, ParserTypeOK
<1>8. Waiting(stack[n]) /\ stack[n].fn = l /\ stack[n].at = "operand" /\ n \in Nat /\ n # 0
      /\ n \in 1 .. Len(stack)
  BY <1>6 DEF At, Waiting
<1>9. WaitsIn(worth, stack[n], c[n - 1], c[n], T) /\ Got(worth, Wants(l, "operand"), c[n], ret, T)
      /\ c[n - 1] \in Nat /\ c[n] \in Nat
  BY <1>6, <1>7, <1>8, TopWaits
<1>10. PICK a \in Nat : a = c[n - 1]
  BY <1>9
<1>11. PICK k \in Int : k = c[n] - 1
  BY <1>9
<1>12. c[n] - 2 = k - 1 /\ c[n] = k + 1
  BY <1>9, <1>11
<1>13. /\ Phrase(worth, tokens, l, a, k - 1) /\ k \in 1 .. Len(tokens) /\ tokens[k] \in Operators[l]
       /\ nodes[d].op = tokens[k] /\ T[nodes[d].left] = Sense(worth, tokens, l, a, k - 1)
  BY <1>2, <1>8, <1>9, <1>10, <1>11, <1>12 DEF WaitsIn
<1>14. PICK z : z = i - 1
  OBVIOUS
<1>15. /\ Phrase(worth, tokens, Operand[l], k + 1, z) /\ T[e] = Sense(worth, tokens, Operand[l], k + 1, z)
       /\ next \notin Taken(Operand[l])
  BY <1>3, <1>9, <1>12, <1>14 DEF Got, Wants
<1>16. /\ Phrase(worth, tokens, l, a, z)
       /\ Sense(worth, tokens, l, a, z) = <<nodes[d].op, T[nodes[d].left], T[e]>>
  <2>1. l \in {"sum", "product"}
    BY Sets
  <2>2. /\ Phrase(worth, tokens, l, a, z)
        /\ Sense(worth, tokens, l, a, z)
             = <<tokens[k], Sense(worth, tokens, l, a, k - 1), Sense(worth, tokens, Operand[l], k + 1, z)>>
    <3>1. PICK p : p = k - 1
      OBVIOUS
    <3>2. PICK q : q = k + 1
      OBVIOUS
    <3>3. Phrase(worth, tokens, l, a, p) /\ Phrase(worth, tokens, Operand[l], q, z)
      BY <1>13, <1>15, <3>1, <3>2
    <3>4. /\ Phrase(worth, tokens, l, a, z)
          /\ Sense(worth, tokens, l, a, z)
               = <<tokens[k], Sense(worth, tokens, l, a, p), Sense(worth, tokens, Operand[l], q, z)>>
      <4>1. Joined(worth, tokens, l, a, z, k, p, q)
        BY ONLY <1>7, <1>13, <2>1, <3>1, <3>2, <3>3 DEF Joined
      <4> QED BY ONLY <4>1, PhraseOperator
    <3> QED BY <3>1, <3>2, <3>4
  <2> QED BY <1>13, <1>15, <2>2
<1>17. d \in 1 .. m /\ d \in Nat /\ e \in 0 .. m /\ e \in Nat /\ e # NULL /\ d # NULL
  BY <1>1, <1>2, <1>3, <1>6, <1>8 DEF ParserTypeOK, NULL
<1>18. Held(n) = d /\ Awaited(n) = d /\ Held(0) = e /\ Held(n + 1) = NULL
       /\ Awaited(n + 1) = NULL /\ n + 1 \in Nat /\ n + 1 # n /\ n + 1 # 0
  BY <1>2, <1>3, <1>6, TopHeld DEF Kept, Wait
<1>19. Completes(d, e)
  BY <1>1, <1>6, <1>7, <1>17, CompletesIs
<1>20. PICK t : t = IF nodes[d].op = "neg" THEN <<"neg", T[e]>>
                    ELSE <<nodes[d].op, T[nodes[d].left], T[e]>>
  OBVIOUS
<1>21. PICK T2 : T2 = [p \in Nat |-> IF p = d THEN t ELSE T[p]]
  OBVIOUS
<1>r. PICK r : r = R[d] + R[e] + 1
  OBVIOUS
<1>22. PICK R2 : R2 = [p \in Nat |-> IF p = d THEN r ELSE R[p]]
  OBVIOUS
<1>24. \A p \in Nat : /\ T2[p] = IF p = d THEN t ELSE T[p]
                     /\ R2[p] = IF p = d THEN r ELSE R[p]
  BY <1>21, <1>22
<1>23. Forest(worth, T2, R2)'
  <2>1. PICK y \in Nat : y = n + 1
    BY <1>18
  <2>2. \A j \in Nat : /\ Held(j)' = IF j = y THEN d ELSE IF j = 0 \/ j = n THEN NULL
                                     ELSE Held(j)
                       /\ Awaited(j)' = IF j = n THEN NULL ELSE Awaited(j)
    <3>1. \A j \in Nat :
           /\ Held(j)' = IF j = 0 THEN NULL ELSE IF j = n THEN Kept("rest", d)
                         ELSE IF j = n + 1 THEN Kept(g.at, g.dag) ELSE Held(j)
           /\ Awaited(j)' = IF j = n THEN Wait("rest", d)
                            ELSE IF j = n + 1 THEN Wait(g.at, g.dag) ELSE Awaited(j)
      BY <1>6, PushHeld
    <3>2. /\ Kept("rest", d) = NULL /\ Wait("rest", d) = NULL
          /\ Kept(g.at, g.dag) = d /\ Wait(g.at, g.dag) = NULL
      BY <1>5 DEF Kept, Wait
    <3> QED BY ONLY <1>8, <1>18, <2>1, <3>1, <3>2
  <2>3. \A j \in 1 .. Len(stack') : stack'[j].at = "loop" => stack'[j].dag # NULL
    BY <1>5, <1>6, <1>7, <1>17, PushLoops
  <2>4. y = 0 \/ (Held(y) = NULL /\ y # n /\ y # 0)
    BY <1>18, <2>1
  <2>z. CompleteStep(worth, T, R, m, n, d, e, y, t, r, T2, R2)
    BY ONLY <1>r, <1>1, <1>7, <1>8, <1>17, <1>18, <1>19, <1>20, <1>24, <2>2,
            <2>3, <2>4 DEF CompleteStep
  <2> QED BY ONLY <2>z, CompleteForest
<1>25. Preserves(T, T2)
  BY <1>1, <1>7, <1>8, <1>17, <1>18, <1>19, <1>21, CompletePreserves
<1>26. T2[d] = Sense(worth, tokens, l, a, z)
  <2>1. nodes[d].op # "neg"
    BY <1>13, OperatorKind
  <2> QED BY <1>16, <1>17, <1>20, <1>21, <2>1
<1>27. PICK f : f = stack'[n]
  OBVIOUS
<1>28. f.at = "rest"
  BY <1>6, <1>27 DEF Pushes
<1>29. WaitsIn(worth, f, a, a, T2)'
  BY <1>28 DEF WaitsIn
<1>30. next' = next
  BY <1>6 DEF next
<1>31. WorksAt(worth, g, a, T2)'
  BY <1>5, <1>6, <1>14, <1>15, <1>16, <1>26, <1>30 DEF WorksAt
<1>32. Kind(g.fn) = Wants(stack[n].fn, "rest") /\ Working(g)
  BY <1>5, <1>8, Sets DEF Kind, Wants, Working
<1>33. PICK c2 : c2 = [j \in Nat |-> IF j = n THEN a ELSE c[j]]
  OBVIOUS
<1>34. Grammar(worth, c2, T2)'
  BY ONLY ParserTypeOK, tokens' = tokens, <1>6, <1>7, <1>10, <1>25, <1>27, <1>29, <1>31,
     <1>32, <1>33, PushGrammar
<1> QED BY <1>23, <1>34, BuiltIs

\* unary stores the operand of a minus.
LEMMA NegBuilt ==
  ASSUME NEW worth, ParserTypeOK, tokens' = tokens, NEW c, NEW T, NEW R, Built(worth, c, T, R),
         NEW n, MinusReturns(n)
  PROVE  \E c2, T2, R2 : Built(worth, c2, T2, R2)'
<1>1. PICK m \in Nat : m = Len(nodes)
  BY DEF ParserTypeOK
<1>2. PICK d : d = stack[n].dag
  OBVIOUS
<1>3. PICK e : e = ret
  OBVIOUS
<1>4. /\ At(n, "unary", "minus") /\ ret # Called /\ ret # NULL /\ i' = i
      /\ nodes' = [nodes EXCEPT ![d].right = e] /\ Pops(n, d)
  BY <1>2, <1>3 DEF MinusReturns
<1>5. Forest(worth, T, R) /\ Grammar(worth, c, T) /\ nodes \in Seq(NodeSet) /\ tokens \in Seq(Lexemes)
  BY DEF Built, ParserTypeOK
<1>6. Waiting(stack[n]) /\ stack[n].fn = "unary" /\ stack[n].at = "minus"
      /\ n \in Nat /\ n # 0 /\ n \in 1 .. Len(stack)
  BY <1>4 DEF At, Waiting
<1>7. WaitsIn(worth, stack[n], c[n - 1], c[n], T) /\ Got(worth, Wants("unary", "minus"), c[n], ret, T)
  BY <1>4, <1>5, <1>6, TopWaits
<1>8. PICK a : a = c[n - 1]
  OBVIOUS
<1>9. c[n] = a + 1 /\ a \in 1 .. Len(tokens) /\ tokens[a] = "-" /\ nodes[d].op = "neg"
  BY <1>2, <1>6, <1>7, <1>8 DEF WaitsIn
<1>10. PICK z : z = i - 1
  OBVIOUS
<1>11. /\ Phrase(worth, tokens, "unary", a + 1, z) /\ T[e] = Sense(worth, tokens, "unary", a + 1, z)
  BY <1>3, <1>7, <1>9, <1>10 DEF Got, Wants
<1>12. /\ Phrase(worth, tokens, "unary", a, z)
       /\ Sense(worth, tokens, "unary", a, z) = <<"neg", T[e]>>
  <2>1. /\ Phrase(worth, tokens, "unary", a, z)
        /\ Sense(worth, tokens, "unary", a, z) = IF tokens[a] = "+" THEN Sense(worth, tokens, "unary", a + 1, z)
                                          ELSE <<"neg", Sense(worth, tokens, "unary", a + 1, z)>>
    BY <1>5, <1>9, <1>11, PhraseSign
  <2> QED BY <1>9, <1>11, <2>1
<1>13. d \in 1 .. m /\ d \in Nat /\ e \in 0 .. m /\ e \in Nat /\ e # NULL /\ d # NULL
       /\ d # Called
  BY <1>1, <1>2, <1>3, <1>4, <1>6 DEF ParserTypeOK, NULL, Called
<1>14. Held(n) = d /\ Awaited(n) = d /\ Held(0) = e
  BY <1>2, <1>3, <1>4, TopHeld DEF Kept, Wait
<1>15. Completes(d, e)
  BY <1>1, <1>4, <1>5, <1>13, CompletesIs
<1>16. PICK t : t = IF nodes[d].op = "neg" THEN <<"neg", T[e]>>
                    ELSE <<nodes[d].op, T[nodes[d].left], T[e]>>
  OBVIOUS
<1>17. PICK T2 : T2 = [p \in Nat |-> IF p = d THEN t ELSE T[p]]
  OBVIOUS
<1>r. PICK r : r = R[d] + R[e] + 1
  OBVIOUS
<1>18. PICK R2 : R2 = [p \in Nat |-> IF p = d THEN r ELSE R[p]]
  OBVIOUS
<1>20. \A p \in Nat : /\ T2[p] = IF p = d THEN t ELSE T[p]
                     /\ R2[p] = IF p = d THEN r ELSE R[p]
  BY <1>17, <1>18
<1>19. Forest(worth, T2, R2)'
  <2>1. PICK y \in Nat : y = 0
    OBVIOUS
  <2>2. \A j \in Nat : /\ Held(j)' = IF j = y THEN d ELSE IF j = 0 \/ j = n THEN NULL
                                     ELSE Held(j)
                       /\ Awaited(j)' = IF j = n THEN NULL ELSE Awaited(j)
    <3>1. \A j \in Nat :
           /\ Held(j)' = IF j = 0 THEN d ELSE IF j = n THEN NULL ELSE Held(j)
           /\ Awaited(j)' = IF j = n THEN NULL ELSE Awaited(j)
      BY <1>4, <1>13, PopHeld
    <3> QED BY ONLY <2>1, <3>1
  <2>3. \A j \in 1 .. Len(stack') : stack'[j].at = "loop" => stack'[j].dag # NULL
    BY <1>4, <1>5, PopLoops
  <2>z. CompleteStep(worth, T, R, m, n, d, e, y, t, r, T2, R2)
    BY ONLY <1>r, <1>1, <1>5, <1>6, <1>13, <1>14, <1>15, <1>16, <1>20, <2>1,
            <2>2, <2>3 DEF CompleteStep
  <2> QED BY ONLY <2>z, CompleteForest
<1>21. Preserves(T, T2)
  BY <1>1, <1>5, <1>6, <1>13, <1>14, <1>15, <1>17, CompletePreserves
<1>22. T2[d] = Sense(worth, tokens, "unary", a, z)
  BY <1>9, <1>12, <1>13, <1>16, <1>17
<1>23. PICK K : K = Kind(stack[n].fn)
  OBVIOUS
<1>24. K = "unary" /\ Taken(K) = {}
  BY <1>6, <1>23 DEF Kind, Taken
<1>25. Got(worth, K, a, d, T2)'
  BY <1>4, <1>10, <1>12, <1>22, <1>24 DEF Got
<1>26. Grammar(worth, c, T2)'
  BY <1>4, <1>5, <1>8, <1>13, <1>21, <1>23, <1>25, PopGrammar
<1> QED BY <1>19, <1>26, BuiltIs

-----------------------------------------------------------------------------
(* The invariant of the parser: as long as no function has failed, what it *)
(* has built is what the grammar says of the tokens it has read; once one  *)
(* has, no sequence of calls could have parsed the argument.               *)

Refused == noMemory \/ ~Well(tokens, 1, Len(tokens))
ParserInv ==
  /\ ParserTypeOK
  /\ ret # NULL => \A worth : \E c, T, R : Built(worth, c, T, R)
  /\ ret = NULL => Refused

\* An argument without tokens is refused from the start.
LEMMA BlankInv ==
  ASSUME Blank
  PROVE  ParserInv'
<1>1. ParserTypeOK'
  BY BlankTyped
<1>2. tokens' = <<>> /\ ret' = NULL
  BY DEF Blank
<1>3. ~Well(tokens', 1, Len(tokens'))
  BY <1>2 DEF Well
<1> QED BY <1>1, <1>2, <1>3 DEF ParserInv, Refused

\* Before its first step the parser has built nothing.
LEMMA StartInv ==
  ASSUME NEW arg \in Seq(Lexemes), Start(arg)
  PROVE  ParserInv'
<1>1. ParserTypeOK'
  BY StartTyped
<1>2. /\ nodes' = <<>> /\ ret' = Called /\ i' = 1 /\ Len(stack') = 1 /\ Len(nodes') = 0
      /\ stack'[1] = Call("sum", "entry", NULL) /\ stack' # <<>>
  BY DEF Start
<1> DEFINE c == [j \in Nat |-> 1]
           Z == [p \in Nat |-> 0]
<1>3. /\ stack'[1].fn = "sum" /\ stack'[1].at = "entry" /\ stack'[1].dag = NULL
      /\ stack'[1].left = NULL
  BY <1>2, CallFields
<1>4. ASSUME NEW worth PROVE Forest(worth, Z, Z)'
  <2>1. \A j \in Nat : Held(j)' = NULL /\ Awaited(j)' = NULL
    <3>1. SUFFICES ASSUME NEW j \in Nat PROVE Held(j)' = NULL /\ Awaited(j)' = NULL
      OBVIOUS
    <3>2. j \in 1 .. Len(stack') => j = 1
      BY <1>2
    <3>3. Kept("entry", NULL) = NULL /\ Wait("entry", NULL) = NULL
      BY DEF Kept, Wait
    <3>4. (j = 0 => Held(j)' = NULL)
      BY <1>2 DEF Held
    <3>5. j # 0 => Held(j)' = NULL
      BY <1>2, <1>3, <3>2, <3>3 DEF Held
    <3>6. Awaited(j)' = NULL
      BY <1>2, <1>3, <3>2, <3>3 DEF Awaited
    <3> QED BY <3>4, <3>5, <3>6
  <2>2. \A k, p : Side(k, p)' = NULL
    BY <1>2 DEF Side
  <2>3. \A x \in Places : Owned'[x] = NULL
    BY <2>1, <2>2 DEF Owned, Places
  <2>4. Once(Owned', 0)
    <3>1. Owned' = [x \in Places |-> Owned'[x]]
      BY DEF Owned
    <3>2. NULL \in 0 .. 0
      BY DEF NULL
    <3>3. Owned' \in [Places -> 0 .. 0]
      BY <2>3, <3>1, <3>2
    <3> QED BY <2>3, <3>3 DEF Once
  <2>5. \A j \in 1 .. Len(stack') : stack'[j].at = "loop" => stack'[j].dag # NULL
    <3>1. \A j \in 1 .. Len(stack') : j = 1
      BY <1>2
    <3> QED BY <1>3, <3>1
  <2>6. \A p \in Nat : Z[p] \in Nat
    OBVIOUS
  <2> HIDE DEF Z
  <2> QED BY <1>2, <2>4, <2>5, <2>6 DEF Forest
<1>5. ASSUME NEW worth PROVE Grammar(worth, c, Z)'
  <2>1. c[0] = 1 /\ \A j \in Nat : c[j] = 1
    OBVIOUS
  <2>2. \A j \in 1 .. Len(stack') : j = 1
    BY <1>2
  <2>3. Kind(stack'[1].fn) = Wanted(0)'
    BY <1>3 DEF Kind, Wanted
  <2>4. ~Waiting(stack'[1])
    BY <1>3 DEF Waiting
  <2> HIDE DEF c, Z
  <2>5. WorksAt(worth, stack[1], 1, Z)'
    <3>1. i' = 1 /\ stack'[1].fn # "primary" /\ stack'[1].at # "loop"
      BY <1>2, <1>3
    <3> QED BY ONLY <3>1 DEF WorksAt
  <2>6. WorksAt(worth, stack[Len(stack)], c[Len(stack) - 1], Z)'
    <3>1. Len(stack') - 1 = 0
      BY <1>2
    <3>2. c[Len(stack') - 1] = 1
      BY <2>1, <3>1
    <3> QED BY ONLY <1>2, <2>5, <3>2 DEF WorksAt
  <2> QED BY <1>2, <2>1, <2>2, <2>3, <2>4, <2>6 DEF Grammar
<1>6. ASSUME NEW worth PROVE Built(worth, c, Z, Z)'
  <2> HIDE DEF c, Z
  <2> QED BY <1>4, <1>5, BuiltIs
<1> HIDE DEF c, Z
<1>7. ret' # NULL
  BY <1>2 DEF Called, NULL
<1> QED BY <1>1, <1>6, <1>7 DEF ParserInv

-----------------------------------------------------------------------------
\* A step that succeeds builds on.
LEMMA SucceedsBuilt ==
  ASSUME NEW worth, ParserTypeOK, tokens' = tokens, NEW c, NEW T, NEW R, Built(worth, c, T, R),
         NEW n, Succeeds(n)
  PROVE  \E c2, T2, R2 : Built(worth, c2, T2, R2)'
<1>1. ASSUME NEW l \in Levels,
             \/ EnterStep(n, l) \/ FirstStep(n, l) \/ OperatorStep(n, l)
             \/ RestStep(n, l) \/ AgainStep(n, l) \/ LastStep(n, l)
      PROVE  \E c2, T2, R2 : Built(worth, c2, T2, R2)'
  BY <1>1, EnterBuilt, FirstBuilt, OperatorBuilt, RestBuilt, AgainBuilt, LastBuilt
<1>2. ASSUME \/ PlusStep(n) \/ MinusStep(n) \/ PlusReturns(n) \/ MinusReturns(n)
             \/ UnsignedStep(n) \/ LiteralStep(n) \/ OpenStep(n) \/ CloseStep(n)
      PROVE  \E c2, T2, R2 : Built(worth, c2, T2, R2)'
  BY <1>2, PlusBuilt, MinusBuilt, PassBuilt, NegBuilt, UnsignedBuilt, LiteralBuilt
<1> QED BY <1>1, <1>2 DEF Succeeds

\* A step that succeeds does not return NULL.
LEMMA SucceedsReturns ==
  ASSUME NEW worth, ParserTypeOK, NEW T, NEW R, Forest(worth, T, R), NEW n, Succeeds(n)
  PROVE  ret # NULL /\ ret' # NULL
<1>1. /\ Len(nodes) + 1 # NULL /\ Called # NULL
      /\ \A j \in 1 .. Len(stack) : /\ stack[j].at \in {"operand", "minus"} => stack[j].dag # NULL
                                    /\ stack[j].at = "loop" => stack[j].dag # NULL
  <2>1. Len(nodes) \in Nat
    BY TypeFrame
  <2>2. Len(nodes) + 1 # NULL /\ Called # NULL
    BY <2>1 DEF NULL, Called
  <2> QED BY <2>2 DEF ParserTypeOK, Forest
<1>2. ASSUME NEW fn, NEW at \in {"loop", "minus"}, At(n, fn, at) PROVE stack[n].dag # NULL
  <2>1. n \in 1 .. Len(stack) /\ stack[n].at = at
    BY <1>2 DEF At
  <2> QED BY <1>1, <2>1
<1>3. ASSUME NEW l \in Levels,
             \/ EnterStep(n, l) \/ FirstStep(n, l) \/ OperatorStep(n, l)
             \/ RestStep(n, l) \/ AgainStep(n, l)
      PROVE  ret # NULL /\ ret' # NULL
  BY ONLY <1>1, <1>3
     DEF EnterStep, FirstStep, OperatorStep, RestStep, AgainStep, Pushes, Replaces
<1>4. ASSUME NEW l \in Levels, LastStep(n, l) PROVE ret # NULL /\ ret' # NULL
  <2>1. At(n, l, "loop") /\ ret = Called /\ ret' = stack[n].dag
    BY <1>4 DEF LastStep, Pops
  <2> QED BY <1>1, <1>2, <2>1
<1>5. ASSUME MinusReturns(n) PROVE ret # NULL /\ ret' # NULL
  <2>1. At(n, "unary", "minus") /\ ret # NULL /\ ret' = stack[n].dag
    BY <1>5 DEF MinusReturns, Pops
  <2> QED BY <1>2, <2>1
<1>6. ASSUME \/ PlusStep(n) \/ MinusStep(n) \/ PlusReturns(n)
             \/ UnsignedStep(n) \/ LiteralStep(n) \/ OpenStep(n) \/ CloseStep(n)
      PROVE  ret # NULL /\ ret' # NULL
  BY ONLY <1>1, <1>6
     DEF PlusStep, MinusStep, PlusReturns, UnsignedStep, LiteralStep, OpenStep, CloseStep,
         Pushes, Replaces, Pops
<1> QED BY <1>3, <1>4, <1>5, <1>6 DEF Succeeds

-----------------------------------------------------------------------------
\* A function that fails has met tokens no argument of the grammar has.
LEMMA FailRefused ==
  ASSUME ParserInv, tokens' = tokens, NEW n, FailStep(n)
  PROVE  Refused' /\ ret' = NULL
<1>0. ret' = NULL /\ n \in Nat \ {0} /\ n = Len(stack)
  BY DEF FailStep, Pops
<1>t. /\ tokens \in Seq(Lexemes) /\ i \in 1 .. Len(tokens) + 1 /\ Len(tokens) \in Nat
  BY TypeFrame DEF ParserInv, ParserTypeOK
<1>1. CASE noMemory' = TRUE
  BY <1>0, <1>1 DEF Refused
<1>2. ASSUME ret = NULL, UNCHANGED noMemory PROVE Refused'
  BY <1>2 DEF Refused, ParserInv
<1>3. ASSUME At(n, "primary", "close"), ret # Called, next # ")", ret # NULL PROVE Refused'
  <2>0. PICK worth : worth = Place
    OBVIOUS
  <2>1. PICK c, T, R : Built(worth, c, T, R)
    BY <1>3 DEF ParserInv
  <2>2. Grammar(worth, c, T)
    BY <2>1 DEF Built
  <2>3. stack[n].at = "close" /\ stack[n].fn = "primary" /\ Waiting(stack[n])
    BY <1>3 DEF At, Waiting
  <2>4. WaitsIn(worth, stack[n], c[n - 1], c[n], T) /\ Got(worth, Wants("primary", "close"), c[n], ret, T)
    BY <1>3, <2>2, <2>3, TopWaits
  <2>5. Wants("primary", "close") = "sum" /\ Taken("sum") = Signs
    BY DEF Wants, Taken
  <2>6. PICK a : a = c[n - 1]
    OBVIOUS
  <2>7. c[n] = a + 1 /\ a \in 1 .. Len(tokens) /\ tokens[a] = "("
    BY <2>3, <2>4, <2>6 DEF WaitsIn
  <2>8. Phrase(worth, tokens, "sum", a + 1, i - 1) /\ next \notin Signs
    BY <2>4, <2>5, <2>7 DEF Got
  <2>9. ~Well(tokens, 1, Len(tokens))
    <3>1. CASE i \in 1 .. Len(tokens)
      <4>1. next = tokens[i]
        BY <1>t, <3>1 DEF next
      <4>2. tokens[i] \notin Signs \cup {")"}
        BY <1>3, <2>8, <4>1
      <4>3. PICK b : b = a + 1
        OBVIOUS
      <4>4. Phrase(worth, tokens, "sum", b, i - 1)
        BY <2>8, <4>3
      <4> QED BY ONLY <1>t, <3>1, <4>2, <4>4, NoSign
    <3>2. CASE i = Len(tokens) + 1
      <4>1. i - 1 = Len(tokens)
        BY <1>t, <3>2
      <4>2. Phrase(worth, tokens, "sum", a + 1, Len(tokens))
        BY <2>8, <4>1
      <4> QED BY ONLY <1>t, <2>7, <4>2, NotClosed
    <3> QED BY <1>t, <3>1, <3>2
  <2> QED BY <2>9 DEF Refused
<1>4. ASSUME At(n, "primary", "entry"), ret = Called, next \notin Literals \cup {"("}
      PROVE  Refused'
  <2>0. PICK worth : worth = Place
    OBVIOUS
  <2>1. PICK c, T, R : Built(worth, c, T, R)
    BY <1>4 DEF ParserInv, Called, NULL
  <2>2. Grammar(worth, c, T)
    BY <2>1 DEF Built
  <2>3. WorksAt(worth, stack[n], c[n - 1], T)
    BY <1>4, <2>2, TopWorks
  <2>4. stack[n].fn = "primary" /\ stack[n].at = "entry"
    BY <1>4 DEF At
  <2>5. (i = 1 \/ tokens[i - 1] \notin Enders) /\ next \notin {"+", "-"}
    BY <2>3, <2>4 DEF WorksAt
  <2>6. next \notin Starters
    BY <1>4, <2>5 DEF Starters
  <2>7. i <= Len(tokens) => tokens[i] \notin Starters
    BY <2>6 DEF next
  <2>8. ~Well(tokens, 1, Len(tokens))
    BY ONLY <1>t, <2>5, <2>7, NoOperand
  <2> QED BY <2>8 DEF Refused
<1>5. \/ ret = NULL /\ UNCHANGED noMemory
      \/ noMemory' = TRUE
      \/ At(n, "primary", "close") /\ ret # Called /\ next # ")" /\ UNCHANGED noMemory
      \/ At(n, "primary", "entry") /\ ret = Called /\ next \notin Literals \cup {"("}
  BY DEF FailStep
<1> QED BY <1>0, <1>1, <1>2, <1>3, <1>4, <1>5

\* Every step of the parser keeps the invariant.
LEMMA ParseInv ==
  ASSUME ParserInv, Parse
  PROVE  ParserInv'
<1>1. ParserTypeOK'
  BY ParseTyped DEF ParserInv
<1>2. PICK n \in Nat \ {0} :
        /\ n = Len(stack) /\ tokens' = tokens
        /\ (Succeeds(n) /\ noMemory' = noMemory) \/ FailStep(n)
  BY ParseIs, TypeFrame DEF ParserInv
<1>3. CASE FailStep(n)
  BY <1>1, <1>2, <1>3, FailRefused DEF ParserInv
<1>4. CASE Succeeds(n)
  <2>0. ret # NULL
    <3>1. At(n, stack[n].fn, stack[n].at) => n = Len(stack)
      BY DEF At
    <3> QED BY ONLY <1>4
        DEF Succeeds, EnterStep, FirstStep, OperatorStep, RestStep, AgainStep, LastStep,
            PlusStep, MinusStep, PlusReturns, MinusReturns, UnsignedStep, LiteralStep,
            OpenStep, CloseStep, Called, NULL
  <2>1. \A worth : \E c, T, R : Built(worth, c, T, R)
    BY <2>0 DEF ParserInv
  <2>2. ret' # NULL
    <3>1. PICK worth, c, T, R : Built(worth, c, T, R)
      BY <2>1
    <3> QED BY <1>4, <3>1, SucceedsReturns DEF ParserInv, Built
  <2>3. ASSUME NEW worth PROVE \E c2, T2, R2 : Built(worth, c2, T2, R2)'
    <3>1. PICK c, T, R : Built(worth, c, T, R)
      BY <2>1
    <3> QED BY <1>2, <1>4, <3>1, SucceedsBuilt DEF ParserInv
  <2> QED BY <1>1, <2>2, <2>3 DEF ParserInv
<1> QED BY <1>2, <1>3, <1>4

-----------------------------------------------------------------------------
(* The tree of an argument that was parsed.                                *)

Branch(p, k) == IF k = "left" THEN nodes[p].left ELSE nodes[p].right
Whole(worth, m, T, R) ==
  /\ m \in Nat /\ m = Len(nodes) /\ nodes \in Seq(NodeSet)
  /\ ret \in 1 .. m /\ Tree = ret /\ T[ret] = Meaning(tokens, worth)
  /\ tokens \in Seq(Lexemes)
  /\ \A p \in 1 .. m :
       /\ T[p] = Value(worth, T, p) /\ R[p] \in Nat /\ Ranked(R, p)
       /\ nodes[p].op \in Kinds
       /\ nodes[p].left \in 0 .. m /\ nodes[p].right \in 0 .. m
       /\ nodes[p].op \in {"val", "neg"} <=> nodes[p].left = NULL
       /\ nodes[p].op = "val" <=> nodes[p].right = NULL
  /\ \A p \in 1 .. m : nodes[p].left # ret /\ nodes[p].right # ret
  /\ \A d \in 1 .. m : d # ret =>
       \E x \in {"left", "right"} \X (1 .. m) : Branch(x[2], x[1]) = d
  /\ \A x, y \in {"left", "right"} \X (1 .. m) :
       Branch(x[2], x[1]) = Branch(y[2], y[1]) /\ Branch(x[2], x[1]) # NULL => x = y

\* What the parser returns is one tree with every node in it.
LEMMA ParsedWhole ==
  ASSUME NEW worth, ParserInv, Parsed, Tree # NULL
  PROVE  \E m, T, R : Whole(worth, m, T, R)
<1>1. PICK m : m = Len(nodes)
  OBVIOUS
<1>2. /\ m \in Nat /\ nodes \in Seq(NodeSet) /\ tokens \in Seq(Lexemes) /\ Len(tokens) \in Nat
      /\ i \in 1 .. Len(tokens) + 1 /\ ret \in {Called} \cup 0 .. m
  BY <1>1, TypeFrame DEF ParserInv, ParserTypeOK
<1>3. Tree = ret /\ next = SENTINEL /\ ret # NULL /\ stack = <<>> /\ ret # Called
  BY DEF Parsed, Tree, match
<1>4. ret \in 1 .. m
  BY <1>2, <1>3 DEF NULL
<1>5. PICK c, T, R : Built(worth, c, T, R)
  BY <1>3 DEF ParserInv
<1>6. Forest(worth, T, R) /\ Grammar(worth, c, T)
  BY <1>5 DEF Built
<1>7. i = Len(tokens) + 1
  <2>1. SUFFICES ASSUME i <= Len(tokens) PROVE FALSE
    BY <1>2
  <2>2. next = tokens[i] /\ tokens[i] \in Lexemes
    BY <1>2, <2>1 DEF next
  <2>3. SENTINEL \notin Lexemes
    BY DEF SENTINEL, Lexemes, Literals
  <2> QED BY <1>3, <2>2, <2>3
<1>8. T[ret] = Meaning(tokens, worth)
  <2>1. Len(stack) = 0
    BY <1>3
  <2>2. Got(worth, "sum", 1, ret, T)
    BY <1>3, <1>6, <2>1 DEF Grammar, Wanted
  <2>3. i - 1 = Len(tokens)
    BY <1>2, <1>7
  <2> QED BY <2>2, <2>3, MeaningIs DEF Got, Sense
<1>9. \A j \in Nat : Awaited(j) = NULL /\ (j # 0 => Held(j) = NULL)
  <2>1. \A j \in Nat : j \notin 1 .. Len(stack)
    BY <1>3
  <2> QED BY <2>1 DEF Awaited, Held
<1>10. Held(0) = ret
  BY <1>3 DEF Held
<1>11. ASSUME NEW p \in 1 .. m
       PROVE  /\ T[p] = Value(worth, T, p) /\ R[p] \in Nat /\ Ranked(R, p)
              /\ nodes[p].op \in Kinds
              /\ nodes[p].left \in 0 .. m /\ nodes[p].right \in 0 .. m
              /\ nodes[p].op \in {"val", "neg"} <=> nodes[p].left = NULL
              /\ nodes[p].op = "val" <=> nodes[p].right = NULL
  <2>1. p # NULL /\ p \in Nat
    BY <1>2 DEF NULL
  <2>2. /\ Shaped(p) /\ Ranked(R, p) /\ R[p] \in Nat
        /\ Incomplete(p) <=> \E j \in Nat : Awaited(j) = p
        /\ ~Incomplete(p) => T[p] = Value(worth, T, p)
    BY <1>1, <1>6, <2>1 DEF Forest
  <2>3. ~Incomplete(p)
    BY <1>9, <2>1, <2>2
  <2>4. nodes[p].left \in 0 .. m /\ nodes[p].right \in 0 .. m
    BY <1>1, <1>2, <1>6, SidesIn
  <2>5. nodes[p].op \in Kinds
    <3>1. nodes[p] \in NodeSet
      BY <1>1, <1>2
    <3> QED BY <3>1 DEF NodeSet
  <2> QED BY <2>2, <2>3, <2>4, <2>5 DEF Shaped, Incomplete
<1>12. \A p \in 1 .. m : nodes[p].left # ret /\ nodes[p].right # ret
  <2>1. SUFFICES ASSUME NEW p \in 1 .. m PROVE nodes[p].left # ret /\ nodes[p].right # ret
    OBVIOUS
  <2>2. 0 \in Nat /\ Held(0) # NULL
    BY <1>3, <1>10
  <2> QED BY <1>1, <1>2, <1>6, <1>10, <2>2, HeldRoot
<1>13. ASSUME NEW k \in {"left", "right"}, NEW p \in 1 .. m
       PROVE  <<k, p>> \in Places /\ Owned[<<k, p>>] = Branch(p, k)
  <2>1. p \in Nat
    BY <1>2
  <2>2. <<k, p>> \in Places /\ Owned[<<k, p>>] = Side(k, p)
    BY <2>1, PlaceIs
  <2> QED BY <1>1, <2>2 DEF Side, Branch
<1>14. ASSUME NEW d \in 1 .. m, d # ret
       PROVE  \E x \in {"left", "right"} \X (1 .. m) : Branch(x[2], x[1]) = d
  <2>1. PICK y \in Places : Owned[y] = d
    BY <1>1, <1>6 DEF Forest, Once
  <2>2. PICK k \in {"slot", "left", "right"}, j \in Nat : y = <<k, j>>
    BY PlacesAre
  <2>3. d # NULL
    BY <1>2 DEF NULL
  <2>4. Owned[<<k, j>>] = d /\ (Owned[<<k, j>>] = IF k = "slot" THEN Held(j) ELSE Side(k, j))
    BY <2>1, <2>2, PlaceIs
  <2>5. k # "slot"
    <3>1. SUFFICES ASSUME k = "slot" PROVE FALSE
      OBVIOUS
    <3>2. Held(j) = d
      BY <2>4, <3>1
    <3>3. j = 0
      BY <1>9, <2>3, <3>2
    <3> QED BY <1>10, <1>14, <3>2, <3>3
  <2>6. j \in 1 .. m
    BY <1>1, <2>3, <2>4, <2>5 DEF Side
  <2>7. PICK x : x = <<k, j>>
    OBVIOUS
  <2>8. x \in {"left", "right"} \X (1 .. m) /\ x[1] = k /\ x[2] = j
    BY <2>5, <2>6, <2>7
  <2>9. Branch(j, k) = d
    BY <1>13, <2>4, <2>5, <2>6
  <2> QED BY <2>8, <2>9
<1>15. ASSUME NEW x \in {"left", "right"} \X (1 .. m), NEW y \in {"left", "right"} \X (1 .. m),
              Branch(x[2], x[1]) = Branch(y[2], y[1]), Branch(x[2], x[1]) # NULL
       PROVE  x = y
  <2>1. PICK k \in {"left", "right"}, p \in 1 .. m : x = <<k, p>> /\ x[1] = k /\ x[2] = p
    OBVIOUS
  <2>2. PICK h \in {"left", "right"}, q \in 1 .. m : y = <<h, q>> /\ y[1] = h /\ y[2] = q
    OBVIOUS
  <2>3. x \in Places /\ Owned[x] = Branch(x[2], x[1])
    BY <1>13, <2>1
  <2>4. y \in Places /\ Owned[y] = Branch(y[2], y[1])
    BY <1>13, <2>2
  <2> QED BY <1>6, <1>15, <2>3, <2>4, OnePlace
<1>16. Whole(worth, m, T, R)
  BY <1>1, <1>2, <1>3, <1>4, <1>8, <1>11, <1>12, <1>14, <1>15 DEF Whole
<1> QED BY <1>16

-----------------------------------------------------------------------------
\* A function that solves the equations of TermOf gives every node its term.
TermStep(f, d) ==
  CASE nodes[d].op = "val" -> <<"val", nodes[d].val>>
    [] nodes[d].op = "neg" -> <<"neg", f[nodes[d].right]>>
    [] OTHER -> <<nodes[d].op, f[nodes[d].left], f[nodes[d].right]>>

\* The value of a node of the parser is its token.
LEMMA PlaceOf ==
  ASSUME NEW m, NEW T, NEW R, Whole(Place, m, T, R), NEW d \in 1 .. m
  PROVE  Place[nodes[d].val] = nodes[d].val
<1>1. m = Len(nodes) /\ nodes \in Seq(NodeSet) /\ m \in Nat
  BY DEF Whole
<1>2. nodes[d] \in NodeSet
  BY <1>1
<1>3. nodes[d].val \in Nat
  BY <1>2 DEF NodeSet
<1> QED BY <1>3 DEF Place

\* There is only one such function.
LEMMA TermsAgree ==
  ASSUME NEW m, NEW T, NEW R, Whole(Place, m, T, R), NEW f,
         \A d \in 1 .. m : f[d] = TermStep(f, d)
  PROVE  \A d \in 1 .. m : f[d] = T[d]
<1> DEFINE Bad == {R[d] : d \in {e \in 1 .. m : f[e] # T[e]}}
<1>1. SUFFICES ASSUME Bad # {} PROVE FALSE
  OBVIOUS
<1>2. Bad \subseteq Nat
  <2>1. \A e \in 1 .. m : R[e] \in Nat
    BY DEF Whole
  <2> QED BY <2>1
<1>3. PICK r \in Bad : \A q \in Bad : r <= q
  <2> HIDE DEF Bad
  <2> QED BY <1>1, <1>2, LeastNatural
<1>4. PICK d \in 1 .. m : f[d] # T[d] /\ R[d] = r
  BY <1>3
<1>5. r \in Nat
  BY <1>2, <1>3
<1>6. \A e \in 1 .. m : R[e] < r => f[e] = T[e]
  <2>1. SUFFICES ASSUME NEW e \in 1 .. m, R[e] < r, f[e] # T[e] PROVE FALSE
    OBVIOUS
  <2>2. R[e] \in Bad /\ R[e] \in Nat
    BY <2>1, <1>2
  <2> HIDE DEF Bad
  <2> QED BY <1>3, <1>5, <2>1, <2>2
<1>7. /\ T[d] = Value(Place, T, d) /\ Ranked(R, d)
      /\ nodes[d].left \in 0 .. m /\ nodes[d].right \in 0 .. m
      /\ nodes[d].op \in {"val", "neg"} <=> nodes[d].left = NULL
      /\ nodes[d].op = "val" <=> nodes[d].right = NULL
  BY DEF Whole
<1>8. nodes[d].right # NULL => f[nodes[d].right] = T[nodes[d].right]
  BY <1>4, <1>6, <1>7 DEF Ranked, NULL
<1>9. nodes[d].left # NULL => f[nodes[d].left] = T[nodes[d].left]
  BY <1>4, <1>6, <1>7 DEF Ranked, NULL
<1>10. f[d] = TermStep(f, d)
  OBVIOUS
<1>11. Place[nodes[d].val] = nodes[d].val
  BY PlaceOf
<1> HIDE DEF Bad
<1> QED BY ONLY <1>4, <1>7, <1>8, <1>9, <1>10, <1>11 DEF TermStep, Value

\* The term of the tree is the meaning of the tokens.
LEMMA TermOfIs ==
  ASSUME NEW m, NEW T, NEW R, Whole(Place, m, T, R)
  PROVE  TermOf(ret) = Meaning(tokens, Place)
<1> DEFINE Solves(f) == f = [d \in 1 .. m |-> TermStep(f, d)]
           F == [d \in 1 .. m |-> T[d]]
           g == CHOOSE f : Solves(f)
<1>1. TermOf(ret) = g[ret]
  BY DEF TermOf, TermStep, Whole
<1>2. Solves(F)
  <2>1. ASSUME NEW d \in 1 .. m PROVE T[d] = TermStep(F, d)
    <3>1. /\ T[d] = Value(Place, T, d)
          /\ nodes[d].left \in 0 .. m /\ nodes[d].right \in 0 .. m
          /\ nodes[d].op \in {"val", "neg"} <=> nodes[d].left = NULL
          /\ nodes[d].op = "val" <=> nodes[d].right = NULL
      BY DEF Whole
    <3>2. nodes[d].left # NULL => F[nodes[d].left] = T[nodes[d].left]
      BY <3>1 DEF NULL
    <3>3. nodes[d].right # NULL => F[nodes[d].right] = T[nodes[d].right]
      BY <3>1 DEF NULL
    <3>4. Place[nodes[d].val] = nodes[d].val
      BY PlaceOf
    <3> HIDE DEF F
    <3> QED BY ONLY <3>1, <3>2, <3>3, <3>4 DEF TermStep, Value
  <2> QED BY <2>1
<1>3. Solves(g)
  <2> HIDE DEF Solves, F
  <2> QED BY <1>2
<1>4. \A d \in 1 .. m : g[d] = TermStep(g, d)
  <2> HIDE DEF g
  <2> QED BY <1>3
<1> HIDE DEF g
<1>5. \A d \in 1 .. m : g[d] = T[d]
  BY <1>4, TermsAgree
<1> QED BY <1>1, <1>5 DEF Whole

\* Only the root has no parent, and every other node has one.
LEMMA ParentsAre ==
  ASSUME NEW worth, NEW m, NEW T, NEW R, Whole(worth, m, T, R)
  PROVE  /\ Parents(ret) = {}
         /\ \A d \in 1 .. m : d # ret => \E p : Parents(d) = {p}
<1>1. m = Len(nodes) /\ DOMAIN nodes = 1 .. m /\ m \in Nat
  BY DEF Whole
<1>2. Parents(ret) = {}
  <2>1. \A p \in 1 .. m : nodes[p].left # ret /\ nodes[p].right # ret
    BY DEF Whole
  <2> QED BY <1>1, <2>1 DEF Parents, Children
<1>3. ASSUME NEW d \in 1 .. m, d # ret PROVE \E p : Parents(d) = {p}
  <2>0. d # NULL
    BY <1>1 DEF NULL
  <2>1. PICK x \in {"left", "right"} \X (1 .. m) : Branch(x[2], x[1]) = d
    BY <1>3 DEF Whole
  <2>2. x[2] \in 1 .. m /\ x[2] \in Parents(d)
    BY <1>1, <2>0, <2>1 DEF Parents, Children, Branch
  <2>3. ASSUME NEW p \in Parents(d) PROVE p = x[2]
    <3>1. p \in 1 .. m /\ (nodes[p].left = d \/ nodes[p].right = d)
      BY <1>1 DEF Parents, Children
    <3>2. PICK k \in {"left", "right"} : Branch(p, k) = d
      BY <3>1 DEF Branch
    <3>3. PICK y : y = <<k, p>>
      OBVIOUS
    <3>4. y \in {"left", "right"} \X (1 .. m) /\ y[1] = k /\ y[2] = p
      BY <3>1, <3>3
    <3>5. Branch(y[2], y[1]) = Branch(x[2], x[1]) /\ Branch(y[2], y[1]) # NULL
      BY <2>0, <2>1, <3>2, <3>4
    <3>6. y = x
      BY ONLY <3>4, <3>5, Whole(worth, m, T, R) DEF Whole
    <3> QED BY <3>4, <3>6
  <2> QED BY <2>2, <2>3
<1> QED BY <1>2, <1>3

\* What the parser promises of an argument, ParsesGrammar, is in its invariant.
LEMMA InvParses ==
  ASSUME ParserInv, Parsed, ~noMemory
  PROVE  IF Tree = NULL THEN Meaning(tokens, Place) = Invalid
         ELSE /\ TermOf(Tree) = Meaning(tokens, Place)
              /\ Parents(Tree) = {}
              /\ \A d \in DOMAIN nodes \ {Tree} : Cardinality(Parents(d)) = 1
<1>t. /\ tokens \in Seq(Lexemes) /\ i \in 1 .. Len(tokens) + 1 /\ Len(tokens) \in Nat
  BY TypeFrame DEF ParserInv, ParserTypeOK
<1>1. CASE Tree # NULL
  <2>1. PICK m, T, R : Whole(Place, m, T, R)
    <3>1. PICK worth : worth = Place
      OBVIOUS
    <3>2. \E m, T, R : Whole(worth, m, T, R)
      BY <1>1, ParsedWhole
    <3> QED BY <3>1, <3>2
  <2>2. Tree = ret /\ DOMAIN nodes = 1 .. m
    BY <2>1 DEF Whole
  <2>3. TermOf(ret) = Meaning(tokens, Place)
    BY <2>1, TermOfIs
  <2>4. Parents(ret) = {}
    BY <2>1, ParentsAre
  <2>5. ASSUME NEW d \in 1 .. m, d # ret PROVE Cardinality(Parents(d)) = 1
    <3>1. PICK p : Parents(d) = {p}
      BY <2>1, <2>5, ParentsAre
    <3>2. Cardinality({p}) = 1
      BY FS_Singleton
    <3> QED BY <3>1, <3>2
  <2> QED BY <1>1, <2>2, <2>3, <2>4, <2>5
<1>2. CASE ret = NULL
  <2>1. ~Well(tokens, 1, Len(tokens))
    BY <1>2 DEF ParserInv, Refused
  <2>2. Meaning(tokens, Place) = Invalid
    BY <1>t, <2>1, IllFormed
  <2> QED BY <1>2, <2>2 DEF Tree
<1>3. CASE ret # NULL /\ Tree = NULL
  <2>1. next # SENTINEL /\ stack = <<>> /\ ret # Called
    BY <1>3 DEF Tree, match, Parsed
  <2>2. i \in 1 .. Len(tokens) /\ next = tokens[i]
    BY <1>t, <2>1 DEF next
  <2>3. PICK c, T, R : Built(Place, c, T, R)
    BY <1>3 DEF ParserInv
  <2>4. Len(stack) = 0
    BY <2>1
  <2>5. Got(Place, "sum", 1, ret, T)
    BY <2>1, <2>3, <2>4 DEF Built, Grammar, Wanted
  <2>6. Phrase(Place, tokens, "sum", 1, i - 1) /\ tokens[i] \notin Signs
    BY <2>2, <2>5 DEF Got, Taken
  <2>7. ~Well(tokens, 1, Len(tokens))
    BY ONLY <1>t, <2>2, <2>6, NotAll
  <2>8. Meaning(tokens, Place) = Invalid
    BY <1>t, <2>7, IllFormed
  <2> QED BY <1>3, <2>8
<1> QED BY <1>1, <1>2, <1>3

\* The message without an operator is met with an argument that does not parse.
LEMMA InvMisindexed ==
  ASSUME ParserInv, Misindexed, ~noMemory
  PROVE  Meaning(tokens, Place) = Invalid
<1>1. tokens \in Seq(Lexemes)
  BY DEF ParserInv, ParserTypeOK
<1>2. ~Well(tokens, 1, Len(tokens))
  BY DEF ParserInv, Misindexed, Refused
<1> QED BY <1>1, <1>2, IllFormed

-----------------------------------------------------------------------------
(* The program of a tree: reflect lists a statement for every node, and    *)
(* what gcc compiles of it evaluates to the term of the tree.              *)

\* The ranks have a bound.
LEMMA Bounded ==
  ASSUME NEW m \in Nat, NEW R, \A d \in 1 .. m : R[d] \in Nat
  PROVE  \E b \in Nat : \A d \in 1 .. m : R[d] < b
<1> DEFINE P(k) == \E b \in Nat : \A d \in 1 .. k : R[d] < b
           Bad == {k \in 0 .. m : ~P(k)}
<1>1. SUFFICES ASSUME Bad # {} PROVE FALSE
  <2>1. m \in 0 .. m
    OBVIOUS
  <2>2. P(m) => \E b \in Nat : \A d \in 1 .. m : R[d] < b
    OBVIOUS
  <2> HIDE DEF P
  <2> QED BY <2>1, <2>2
<1>2. PICK k \in Bad : \A j \in Bad : k <= j
  <2>1. Bad \subseteq Nat
    OBVIOUS
  <2> HIDE DEF Bad
  <2> QED BY <1>1, <2>1, LeastNatural
<1>3. k \in 0 .. m /\ ~P(k)
  OBVIOUS
<1>4. k # 0
  <2>1. P(0)
    OBVIOUS
  <2> QED BY <1>3, <2>1
<1>5. k - 1 \in 0 .. m /\ k - 1 \notin Bad
  <2>1. Bad \subseteq Nat /\ k \in Nat
    BY <1>3
  <2>2. k - 1 \in 0 .. m
    BY <1>3, <1>4
  <2> HIDE DEF Bad
  <2> QED BY <1>2, <2>1, <2>2
<1>6. P(k - 1)
  <2> HIDE DEF P
  <2> QED BY <1>5
<1>7. PICK b \in Nat : \A d \in 1 .. k - 1 : R[d] < b
  BY <1>6
<1>8. PICK c \in Nat : b <= c /\ R[k] < c
  <2>1. R[k] \in Nat
    BY <1>3, <1>4
  <2>2. b + R[k] + 1 \in Nat /\ b <= b + R[k] + 1 /\ R[k] < b + R[k] + 1
    BY <2>1
  <2> QED BY <2>2
<1>9. \A d \in 1 .. k : R[d] < c
  <2>1. SUFFICES ASSUME NEW d \in 1 .. k PROVE R[d] < c
    OBVIOUS
  <2>2. R[d] \in Nat /\ (d = k \/ d \in 1 .. k - 1)
    BY <1>3
  <2> QED BY <1>7, <1>8, <2>2
<1> QED BY <1>3, <1>9

ReflectStep(f, d) ==
  IF d = NULL THEN <<>> ELSE f[nodes[d].left] \o f[nodes[d].right] \o <<Statement(d)>>
Reflects(f, m) == \A d \in 0 .. m : f[d] = ReflectStep(f, d)

\* The operands of a node rank below it.
LEMMA WholeSides ==
  ASSUME NEW worth, NEW m, NEW T, NEW R, Whole(worth, m, T, R), NEW d \in 1 .. m
  PROVE  /\ m \in Nat /\ d # 0 /\ R[d] \in Nat
         /\ \A e \in {nodes[d].left, nodes[d].right} :
              e \in 0 .. m /\ (e = 0 \/ (e \in 1 .. m /\ R[e] \in Nat /\ R[e] < R[d]))
<1>1. m \in Nat /\ R[d] \in Nat /\ Ranked(R, d) /\ \A e \in 1 .. m : R[e] \in Nat
  BY DEF Whole
<1>2. nodes[d].left \in 0 .. m /\ nodes[d].right \in 0 .. m
  BY DEF Whole
<1>3. \A e \in {nodes[d].left, nodes[d].right} : e # 0 => R[e] < R[d]
  BY <1>1 DEF Ranked, NULL
<1> QED BY <1>1, <1>2, <1>3

\* The recursion of reflect goes down the ranks.
LEMMA ReflectsUpTo ==
  ASSUME NEW worth, NEW m, NEW T, NEW R, Whole(worth, m, T, R), NEW b \in Nat
  PROVE  \E f : /\ f[0] = <<>>
                /\ \A d \in 1 .. m : R[d] < b => f[d] = ReflectStep(f, d)
<1> DEFINE P(f, n) == /\ f[0] = <<>>
                      /\ \A d \in 1 .. m : R[d] < n => f[d] = ReflectStep(f, d)
           Bad == {n \in Nat : ~\E f : P(f, n)}
<1>1. SUFFICES ASSUME Bad # {} PROVE FALSE
  OBVIOUS
<1>2. PICK n \in Bad : \A j \in Bad : n <= j
  <2>1. Bad \subseteq Nat
    OBVIOUS
  <2> HIDE DEF Bad
  <2> QED BY <1>1, <2>1, LeastNatural
<1>3. n \in Nat /\ ~\E f : P(f, n)
  OBVIOUS
<1>0. \A d \in 1 .. m : R[d] \in Nat
  BY WholeSides
<1>4. n # 0
  <2>1. P([d \in {0} |-> <<>>], 0)
    BY <1>0
  <2> QED BY <1>3, <2>1
<1>5. n - 1 \in Nat /\ n - 1 \notin Bad
  BY <1>2, <1>3, <1>4
<1>6. PICK f : P(f, n - 1)
  BY <1>5
<1> DEFINE g == [d \in 0 .. m |-> ReflectStep(f, d)]
<1>7. m \in Nat
  BY DEF Whole
<1>8. g[0] = <<>> /\ f[0] = <<>>
  BY <1>6, <1>7 DEF ReflectStep, NULL
<1>9. \A d \in 1 .. m : R[d] < n - 1 => g[d] = f[d]
  BY <1>6, <1>7
<1>10. ASSUME NEW d \in 1 .. m, R[d] < n PROVE g[d] = ReflectStep(g, d)
  <2>1. g[d] = ReflectStep(f, d)
    BY <1>7
  <2>2. ASSUME NEW e \in {nodes[d].left, nodes[d].right} PROVE f[e] = g[e]
    <3>1. (e = 0 \/ (e \in 1 .. m /\ R[e] \in Nat /\ R[e] < R[d])) /\ R[d] \in Nat
      BY WholeSides
    <3>2. CASE e = 0
      BY <1>8, <3>2
    <3>3. CASE e \in 1 .. m /\ R[e] \in Nat /\ R[e] < R[d]
      <4>1. R[d] \in Nat
        BY <1>0
      <4>2. R[e] < n - 1
        BY <1>3, <1>10, <3>3, <4>1
      <4> HIDE DEF g
      <4> QED BY <1>9, <3>3, <4>2
    <3> QED BY <3>1, <3>2, <3>3
  <2> HIDE DEF g
  <2>3. f[nodes[d].left] = g[nodes[d].left] /\ f[nodes[d].right] = g[nodes[d].right]
    BY <2>2
  <2> QED BY ONLY <2>1, <2>3 DEF ReflectStep
<1> HIDE DEF g
<1>11. P(g, n)
  BY <1>8, <1>10
<1> QED BY <1>3, <1>11

Listing(m) == {Statement(e) : e \in 1 .. m}

\* Whatever solves the equations of reflect lists statements, its node last.
LEMMA ReflectsList ==
  ASSUME NEW worth, NEW m, NEW T, NEW R, Whole(worth, m, T, R), NEW f, f[0] = <<>>,
         \A d \in 1 .. m : f[d] = ReflectStep(f, d)
  PROVE  \A d \in 1 .. m : /\ f[d] \in Seq(Listing(m)) /\ Len(f[d]) \in Nat \ {0}
                           /\ f[d][Len(f[d])] = Statement(d)
<1> DEFINE Good(d) == /\ f[d] \in Seq(Listing(m)) /\ Len(f[d]) \in Nat \ {0}
                      /\ f[d][Len(f[d])] = Statement(d)
           Bad == {R[d] : d \in {e \in 1 .. m : ~Good(e)}}
<1>1. SUFFICES ASSUME Bad # {} PROVE FALSE
  OBVIOUS
<1>0. \A d \in 1 .. m : R[d] \in Nat
  BY WholeSides
<1>2. Bad \subseteq Nat
  <2> HIDE DEF Good
  <2> QED BY <1>0
<1>3. PICK r \in Bad : \A q \in Bad : r <= q
  <2> HIDE DEF Bad
  <2> QED BY <1>1, <1>2, LeastNatural
<1>4. PICK d \in 1 .. m : ~Good(d) /\ R[d] = r
  <2> HIDE DEF Good
  <2> QED BY <1>3
<1>5. r \in Nat
  BY <1>0, <1>4
<1>6. \A e \in 1 .. m : R[e] < r => Good(e)
  <2> HIDE DEF Good
  <2>1. SUFFICES ASSUME NEW e \in 1 .. m, R[e] < r, ~Good(e) PROVE FALSE
    OBVIOUS
  <2>2. R[e] \in Bad /\ R[e] \in Nat
    BY <1>0, <2>1
  <2> HIDE DEF Bad
  <2> QED BY <1>3, <1>5, <2>1, <2>2
<1>7. \A e \in {nodes[d].left, nodes[d].right} : f[e] \in Seq(Listing(m))
  <2>1. SUFFICES ASSUME NEW e \in {nodes[d].left, nodes[d].right} PROVE f[e] \in Seq(Listing(m))
    OBVIOUS
  <2>2. e = 0 \/ (e \in 1 .. m /\ R[e] < R[d])
    BY WholeSides
  <2>3. CASE e = 0
    <3>1. f[e] = <<>>
      BY <2>3
    <3> QED BY ONLY <3>1
  <2>4. CASE e \in 1 .. m /\ R[e] < R[d]
    BY <1>4, <1>6, <2>4
  <2> QED BY <2>2, <2>3, <2>4
<1>8. d # NULL
  BY WholeSides DEF NULL
<1>9. f[d] = f[nodes[d].left] \o f[nodes[d].right] \o <<Statement(d)>>
  <2>1. f[d] = ReflectStep(f, d)
    OBVIOUS
  <2> QED BY ONLY <1>8, <2>1 DEF ReflectStep
<1>10. PICK x : x = f[nodes[d].left]
  OBVIOUS
<1>11. PICK y : y = f[nodes[d].right]
  OBVIOUS
<1>12. PICK z : z = Statement(d)
  OBVIOUS
<1>13. x \in Seq(Listing(m)) /\ y \in Seq(Listing(m)) /\ z \in Listing(m)
  BY <1>7, <1>10, <1>11, <1>12 DEF Listing
<1>14. f[d] = (x \o y) \o <<z>>
  BY <1>9, <1>10, <1>11, <1>12
<1> HIDE DEF Good
<1>15. PICK w \in Seq(Listing(m)) : w = x \o y
  <2>1. PICK S : S = Listing(m)
    OBVIOUS
  <2>2. x \in Seq(S) /\ y \in Seq(S)
    BY <1>13, <2>1
  <2>3. x \o y \in Seq(S)
    BY ONLY <2>2, ConcatProperties
  <2> QED BY ONLY <2>1, <2>3
<1>16. /\ f[d] \in Seq(Listing(m)) /\ Len(f[d]) = Len(w) + 1 /\ Len(w) \in Nat
       /\ f[d][Len(w) + 1] = z
  <2>1. f[d] = w \o <<z>>
    BY <1>14, <1>15
  <2> QED BY ONLY <1>13, <1>15, <2>1
<1>17. Good(d)
  BY <1>12, <1>16 DEF Good
<1> QED BY <1>4, <1>17

\* reflect lists statements of the tree, that of the root last.
LEMMA ReflectIs ==
  ASSUME NEW worth, NEW m, NEW T, NEW R, Whole(worth, m, T, R)
  PROVE  /\ reflect(ret) \in Seq(Listing(m)) /\ Len(reflect(ret)) \in Nat \ {0}
         /\ reflect(ret)[Len(reflect(ret))] = Statement(ret)
<1> DEFINE D == {NULL} \cup DOMAIN nodes
           Solves(f) == f = [d \in D |-> ReflectStep(f, d)]
           g == CHOOSE f : Solves(f)
<1>1. m \in Nat /\ D = 0 .. m /\ ret \in 1 .. m /\ \A d \in 1 .. m : R[d] \in Nat
  BY DEF Whole, NULL
<1>2. reflect(ret) = g[ret]
  BY DEF reflect, ReflectStep
<1>3. PICK b \in Nat : \A d \in 1 .. m : R[d] < b
  BY <1>1, Bounded
<1>4. PICK h : h[0] = <<>> /\ \A d \in 1 .. m : h[d] = ReflectStep(h, d)
  <2>1. PICK h : h[0] = <<>> /\ \A d \in 1 .. m : R[d] < b => h[d] = ReflectStep(h, d)
    BY ReflectsUpTo
  <2> QED BY <1>3, <2>1
<1> DEFINE F == [d \in 0 .. m |-> h[d]]
<1>5. \A d \in 0 .. m : F[d] = ReflectStep(F, d)
  <2>1. SUFFICES ASSUME NEW d \in 0 .. m PROVE F[d] = ReflectStep(F, d)
    OBVIOUS
  <2>2. F[d] = h[d] /\ \A e \in 0 .. m : F[e] = h[e]
    OBVIOUS
  <2> HIDE DEF F
  <2>3. CASE d = 0
    BY <1>4, <2>2, <2>3 DEF ReflectStep, NULL
  <2>4. CASE d # 0
    <3>1. d \in 1 .. m
      BY <1>1, <2>4
    <3>2. nodes[d].left \in 0 .. m /\ nodes[d].right \in 0 .. m
      BY <3>1 DEF Whole
    <3>3. h[d] = ReflectStep(h, d)
      BY <1>4, <3>1
    <3> QED BY ONLY <2>2, <3>2, <3>3 DEF ReflectStep
  <2> QED BY <2>3, <2>4
<1>6. Solves(F)
  BY <1>1, <1>5
<1>7. Solves(g)
  <2> HIDE DEF Solves, F
  <2> QED BY <1>6
<1>8. \A d \in 0 .. m : g[d] = ReflectStep(g, d)
  <2> HIDE DEF g
  <2> QED BY <1>1, <1>7
<1> HIDE DEF g
<1>9. g[0] = <<>> /\ \A d \in 1 .. m : g[d] = ReflectStep(g, d)
  <2>1. ReflectStep(g, 0) = <<>>
    BY DEF ReflectStep, NULL
  <2> QED BY <1>1, <1>8, <2>1
<1>10. \A d \in 1 .. m : /\ g[d] \in Seq(Listing(m)) /\ Len(g[d]) \in Nat \ {0}
                         /\ g[d][Len(g[d])] = Statement(d)
  BY ONLY <1>9, Whole(worth, m, T, R), ReflectsList
<1> QED BY <1>1, <1>2, <1>10

EvaluateStep(code, f, k) ==
  CASE code[k].op = "val" -> <<"val", code[k].text[2]>>
    [] code[k].op = "neg" -> <<"neg", f[CHOOSE j \in 1 .. k - 1 : code[j].t = code[k].right]>>
    [] OTHER -> <<code[k].op, f[CHOOSE j \in 1 .. k - 1 : code[j].t = code[k].left],
                  f[CHOOSE j \in 1 .. k - 1 : code[j].t = code[k].right]>>

RunsListing(m, T, R, prog, code) ==
  /\ Whole(Written(tokens), m, T, R) /\ Compiles(prog) /\ code = prog.code /\ code \in Seq(Listing(m))

\* What a statement of a program that compiles computes, if the statements
\* before it are right.
LEMMA EvaluateStepIs ==
  ASSUME NEW m, NEW T, NEW R, NEW prog, NEW code, RunsListing(m, T, R, prog, code),
         NEW k \in DOMAIN code, NEW f, \A j \in 1 .. k - 1 : f[j] = T[code[j].t]
  PROVE  EvaluateStep(code, f, k) = T[code[k].t]
<1>0. Whole(Written(tokens), m, T, R) /\ Compiles(prog) /\ code = prog.code /\ code \in Seq(Listing(m))
  BY DEF RunsListing
<1>1. PICK d \in 1 .. m : code[k] = Statement(d)
  <2>1. code[k] \in Listing(m)
    BY <1>0
  <2> QED BY <2>1 DEF Listing
<1>2. /\ code[k].t = d /\ code[k].op = nodes[d].op /\ code[k].left = nodes[d].left
      /\ code[k].right = nodes[d].right
      /\ code[k].text = IF nodes[d].op = "val" THEN Literally(nodes[d].val) ELSE <<>>
  BY <1>1 DEF Statement
<1>3. T[d] = Value(Written(tokens), T, d)
  BY <1>0 DEF Whole
<1>4. /\ Uses(code[k]) \subseteq {code[j].t : j \in 1 .. k - 1}
      /\ code[k].text # Word
  <2>1. k \in DOMAIN prog.code
    BY <1>0
  <2>2. /\ Uses(prog.code[k]) \subseteq {prog.code[j].t : j \in 1 .. k - 1}
        /\ prog.code[k].text # Word
    BY ONLY <2>1, <1>0 DEF Compiles
  <2> QED BY ONLY <2>2, <1>0
<1>5. ASSUME NEW t \in Uses(code[k])
      PROVE  f[CHOOSE j \in 1 .. k - 1 : code[j].t = t] = T[t]
  <2>1. \E j \in 1 .. k - 1 : code[j].t = t
    BY <1>4
  <2>2. PICK e : e = CHOOSE j \in 1 .. k - 1 : code[j].t = t
    OBVIOUS
  <2>3. e \in 1 .. k - 1 /\ code[e].t = t
    BY <2>1, <2>2
  <2> QED BY <2>2, <2>3
<1>6. CASE nodes[d].op = "val"
  <2>1. code[k].text = IF tokens[nodes[d].val] = "inf" THEN Word ELSE <<"%f", Written(tokens)[nodes[d].val]>>
    BY <1>2, <1>6 DEF Literally
  <2>2. tokens[nodes[d].val] # "inf"
    BY <1>4, <2>1
  <2>3. code[k].text[2] = Written(tokens)[nodes[d].val]
    BY <2>1, <2>2
  <2> QED BY <1>2, <1>3, <1>6, <2>3 DEF EvaluateStep, Value
<1>7. CASE nodes[d].op = "neg"
  <2>1. nodes[d].right \in Uses(code[k])
    BY <1>2, <1>7 DEF Uses
  <2>2. f[CHOOSE j \in 1 .. k - 1 : code[j].t = nodes[d].right] = T[nodes[d].right]
    BY <1>5, <2>1
  <2> QED BY <1>2, <1>3, <1>7, <2>2 DEF EvaluateStep, Value
<1>8. CASE nodes[d].op \notin {"val", "neg"}
  <2>1. nodes[d].right \in Uses(code[k]) /\ nodes[d].left \in Uses(code[k])
    BY <1>2, <1>8 DEF Uses
  <2>2. f[CHOOSE j \in 1 .. k - 1 : code[j].t = nodes[d].right] = T[nodes[d].right]
    BY <1>5, <2>1
  <2>3. f[CHOOSE j \in 1 .. k - 1 : code[j].t = nodes[d].left] = T[nodes[d].left]
    BY <1>5, <2>1
  <2> QED BY <1>2, <1>3, <1>8, <2>2, <2>3 DEF EvaluateStep, Value
<1> QED BY <1>6, <1>7, <1>8

\* Whatever solves the equations of evaluate computes the terms.
LEMMA EvaluateAgree ==
  ASSUME NEW m, NEW T, NEW R, NEW prog, NEW code, RunsListing(m, T, R, prog, code),
         NEW f, \A k \in DOMAIN code : f[k] = EvaluateStep(code, f, k)
  PROVE  \A k \in DOMAIN code : f[k] = T[code[k].t]
<1> DEFINE Bad == {k \in DOMAIN code : f[k] # T[code[k].t]}
<1>1. SUFFICES ASSUME Bad # {} PROVE FALSE
  OBVIOUS
<1>2. DOMAIN code = 1 .. Len(code) /\ Len(code) \in Nat
  BY DEF RunsListing
<1>3. PICK k \in Bad : \A j \in Bad : k <= j
  <2>1. Bad \subseteq Nat
    BY <1>2
  <2> HIDE DEF Bad
  <2> QED BY <1>1, <2>1, LeastNatural
<1>4. k \in DOMAIN code /\ f[k] # T[code[k].t] /\ k \in Nat
  BY <1>2
<1>5. \A j \in 1 .. k - 1 : f[j] = T[code[j].t]
  <2>1. SUFFICES ASSUME NEW j \in 1 .. k - 1, f[j] # T[code[j].t] PROVE FALSE
    OBVIOUS
  <2>2. j \in DOMAIN code /\ j < k /\ j \in Nat
    BY <1>2, <1>4
  <2>3. j \in Bad
    BY <2>1, <2>2
  <2> HIDE DEF Bad
  <2> QED BY <1>3, <1>4, <2>2, <2>3
<1>6. EvaluateStep(code, f, k) = T[code[k].t]
  <2> HIDE DEF Bad
  <2> QED BY <1>4, <1>5, EvaluateStepIs
<1> QED BY <1>4, <1>6

\* What gcc compiles of a tree returns the meaning of the argument.
LEMMA EvaluateIs ==
  ASSUME NEW m, NEW T, NEW R, Whole(Written(tokens), m, T, R), Compiles(generate(ret))
  PROVE  evaluate(generate(ret)) = Meaning(tokens, Written(tokens))
<1>0. PICK prog : prog = generate(ret)
  OBVIOUS
<1>1. prog.ret = ret /\ prog.code = reflect(ret)
  BY <1>0 DEF generate
<1>2. PICK code : code = prog.code
  OBVIOUS
<1>3. /\ code \in Seq(Listing(m)) /\ Len(code) \in Nat \ {0}
      /\ code[Len(code)] = Statement(ret)
  BY <1>1, <1>2, ReflectIs
<1> DEFINE Solves(f) == f = [k \in DOMAIN code |-> EvaluateStep(code, f, k)]
           g == CHOOSE f : Solves(f)
           F == [k \in DOMAIN code |-> T[code[k].t]]
           last == CHOOSE k \in DOMAIN code : code[k].t = ret
<1>4. evaluate(prog) = g[last]
  BY <1>1, <1>2 DEF evaluate, EvaluateStep
<1>5. DOMAIN code = 1 .. Len(code)
  BY <1>3
<1>6. Compiles(prog)
  BY <1>0
<1>7. Solves(F)
  <2>1. ASSUME NEW k \in DOMAIN code PROVE EvaluateStep(code, F, k) = T[code[k].t]
    <3>1. \A j \in 1 .. k - 1 : F[j] = T[code[j].t]
      BY <1>5
    <3> HIDE DEF F, Solves, g, last
    <3>2. RunsListing(m, T, R, prog, code)
      BY <1>2, <1>3, <1>6 DEF RunsListing
    <3>3. PICK h : h = F
      OBVIOUS
    <3>4. \A j \in 1 .. k - 1 : h[j] = T[code[j].t]
      BY <3>1, <3>3
    <3>5. EvaluateStep(code, h, k) = T[code[k].t]
      BY <3>2, <3>4, EvaluateStepIs
    <3> QED BY <3>3, <3>5
  <2> QED BY <2>1
<1>8. Solves(g)
  <2> HIDE DEF Solves, F
  <2> QED BY <1>7
<1>9. \A k \in DOMAIN code : g[k] = EvaluateStep(code, g, k)
  <2> HIDE DEF g
  <2> QED BY <1>8
<1> HIDE DEF g
<1>10. \A k \in DOMAIN code : g[k] = T[code[k].t]
  <2>1. RunsListing(m, T, R, prog, code)
    BY <1>2, <1>3, <1>6 DEF RunsListing
  <2> QED BY <1>9, <2>1, EvaluateAgree
<1>11. last \in DOMAIN code /\ code[last].t = ret
  <2>1. Len(code) \in DOMAIN code /\ code[Len(code)].t = ret
    BY <1>3, <1>5 DEF Statement
  <2> QED BY <2>1
<1> HIDE DEF last
<1>12. g[last] = T[ret]
  BY <1>10, <1>11
<1> QED BY <1>0, <1>4, <1>12 DEF Whole

\* The program of a tree is a program.
LEMMA GenerateTyped ==
  ASSUME NEW worth, NEW m, NEW T, NEW R, Whole(worth, m, T, R)
  PROVE  generate(ret) \in Programs
<1> DEFINE S == [t : Nat, op : Kinds, left : Nat, right : Nat, text : {<<>>, Word} \cup {"%f"} \X Nat]
<1>1. ASSUME NEW d \in 1 .. m PROVE Statement(d) \in S
  <2>1. /\ d \in Nat /\ nodes[d].op \in Kinds /\ nodes[d].left \in Nat /\ nodes[d].right \in Nat
        /\ nodes[d].val \in Nat
    <3>1. m \in Nat /\ nodes[d] \in NodeSet
      BY DEF Whole
    <3> QED BY <3>1 DEF NodeSet
  <2>2. Literally(nodes[d].val) \in {Word} \cup {"%f"} \X Nat
    <3>1. PICK n : n = Len(tokens)
      OBVIOUS
    <3>2. n \in Nat
      BY <3>1 DEF Whole
    <3>3. Written(tokens)[nodes[d].val] \in Nat
      BY <2>1, <3>1, <3>2 DEF Written
    <3> QED BY <3>3 DEF Literally
  <2> HIDE DEF Kinds
  <2> QED BY <2>1, <2>2 DEF Statement
<1>2. Listing(m) \subseteq S
  BY <1>1 DEF Listing
<1>3. reflect(ret) \in Seq(S)
  <2>1. PICK r : r = reflect(ret)
    OBVIOUS
  <2>2. r \in Seq(Listing(m))
    BY <2>1, ReflectIs
  <2> HIDE DEF S
  <2> QED BY <1>2, <2>1, <2>2
<1>4. ret \in Nat
  BY DEF Whole
<1>5. generate(ret) \in [file : {TRUE}, ret : Nat, code : Seq(S)]
  <2> HIDE DEF S
  <2> QED BY <1>3, <1>4 DEF generate
<1> QED BY <1>5 DEF Programs

-----------------------------------------------------------------------------
(* What stands still while the parser does.                                *)

\* The forest.
LEMMA SameForest ==
  ASSUME NEW worth, UNCHANGED parserVars, NEW T, NEW R
  PROVE  Forest(worth, T, R)' <=> Forest(worth, T, R)
<1>1. stack' = stack /\ nodes' = nodes /\ ret' = ret
  BY DEF parserVars
<1>2. \A j : Held(j)' = Held(j) /\ Awaited(j)' = Awaited(j)
  BY <1>1 DEF Held, Awaited
<1>3. \A k, p : Side(k, p)' = Side(k, p)
  BY <1>1 DEF Side
<1>4. Owned' = Owned
  BY <1>2, <1>3 DEF Owned
<1>5. \A p : /\ Shaped(p)' <=> Shaped(p)
             /\ Ranked(R, p)' <=> Ranked(R, p)
             /\ Incomplete(p)' <=> Incomplete(p)
             /\ Value(worth, T, p)' = Value(worth, T, p)
  BY <1>1 DEF Shaped, Ranked, Incomplete, Value
<1>6. \A p : (\E j \in Nat : Awaited(j)' = p) <=> \E j \in Nat : Awaited(j) = p
  BY <1>2
<1> QED BY <1>1, <1>4, <1>5, <1>6 DEF Forest

\* The positions.
LEMMA SameGrammar ==
  ASSUME NEW worth, UNCHANGED parserVars, NEW T, NEW c
  PROVE  Grammar(worth, c, T)' <=> Grammar(worth, c, T)
<1>1. stack' = stack /\ nodes' = nodes /\ ret' = ret /\ tokens' = tokens /\ i' = i
  BY DEF parserVars
<1>2. next' = next
  BY <1>1 DEF next
<1>3. \A j : Wanted(j)' = Wanted(j)
  BY <1>1 DEF Wanted
<1>4. \A f, a, b : WaitsIn(worth, f, a, b, T)' <=> WaitsIn(worth, f, a, b, T)
  BY <1>1 DEF WaitsIn
<1>5. \A f, a : WorksAt(worth, f, a, T)' <=> WorksAt(worth, f, a, T)
  BY <1>1, <1>2 DEF WorksAt
<1>6. \A K, b, d : Got(worth, K, b, d, T)' <=> Got(worth, K, b, d, T)
  BY <1>1, <1>2 DEF Got
<1>7. \A j \in 1 .. Len(stack) : WaitsIn(worth, stack[j], c[j - 1], c[j], T)'
                                   <=> WaitsIn(worth, stack[j], c[j - 1], c[j], T)
  BY <1>1, <1>4
<1>8. WorksAt(worth, stack[Len(stack)], c[Len(stack) - 1], T)'
        <=> WorksAt(worth, stack[Len(stack)], c[Len(stack) - 1], T)
  BY <1>1, <1>5
<1>9. Got(worth, Wanted(Len(stack)), c[Len(stack)], ret, T)'
        <=> Got(worth, Wanted(Len(stack)), c[Len(stack)], ret, T)
  BY <1>1, <1>3, <1>6
<1> QED BY <1>1, <1>3, <1>7, <1>8, <1>9 DEF Grammar

\* The invariant of the parser.
LEMMA SameInv ==
  ASSUME UNCHANGED parserVars, ParserInv
  PROVE  ParserInv'
<1>1. /\ stack' = stack /\ nodes' = nodes /\ ret' = ret /\ tokens' = tokens /\ i' = i
      /\ noMemory' = noMemory
  BY DEF parserVars
<1>2. ParserTypeOK'
  <2>1. Shape'
    BY <1>1 DEF ParserInv, ParserTypeOK, Shape, Top
  <2> QED BY <1>1, <2>1 DEF ParserInv, ParserTypeOK
<1>3. ret' = NULL => Refused'
  BY <1>1 DEF ParserInv, Refused
<1>4. ASSUME ret' # NULL, NEW worth PROVE \E c, T, R : Built(worth, c, T, R)'
  <2>1. PICK c, T, R : Forest(worth, T, R) /\ Grammar(worth, c, T)
    BY <1>1, <1>4 DEF ParserInv, Built
  <2>2. Forest(worth, T, R)' /\ Grammar(worth, c, T)'
    BY <2>1, SameForest, SameGrammar
  <2> QED BY <2>2, BuiltIs
<1> QED BY <1>2, <1>3, <1>4 DEF ParserInv

\* The program of a tree, as a function of the nodes and the tokens.
ListingOf(theNodes, theTokens, dag) ==
  LET of[d \in {NULL} \cup DOMAIN theNodes] ==
        IF d = NULL THEN <<>>
        ELSE of[theNodes[d].left] \o of[theNodes[d].right]
               \o <<[t |-> d, op |-> theNodes[d].op, left |-> theNodes[d].left,
                     right |-> theNodes[d].right,
                     text |-> IF theNodes[d].op = "val"
                                THEN IF theTokens[theNodes[d].val] = "inf" THEN Word
                                     ELSE <<"%f", Written(theTokens)[theNodes[d].val]>>
                                ELSE <<>>]>>
  IN of[dag]

\* What Generated may have written for the tree, and what gcc may have made of it:
\* the program, or nothing.
Texts == {generate(ret), Cut(generate(ret)), Truncated}
Sound(prog) == prog = Truncated \/ (prog = generate(ret) /\ Compiles(generate(ret)))

\* The program of the tree.
LEMMA SameProgram ==
  ASSUME UNCHANGED parserVars
  PROVE  /\ generate(ret)' = generate(ret) /\ Tree' = Tree /\ (Parsed' <=> Parsed)
         /\ Compiles(generate(ret))' <=> Compiles(generate(ret))
         /\ Texts' = Texts
<1>1. stack' = stack /\ nodes' = nodes /\ ret' = ret /\ tokens' = tokens /\ i' = i
  BY DEF parserVars
<1>2. reflect(ret) = ListingOf(nodes, tokens, ret)
  BY DEF reflect, ListingOf, Statement, Literally
<1>3. reflect(ret)' = ListingOf(nodes', tokens', ret')
  BY DEF reflect, ListingOf, Statement, Literally
<1>4. reflect(ret)' = reflect(ret)
  BY <1>1, <1>2, <1>3
<1>5. generate(ret)' = generate(ret)
  BY <1>1, <1>4 DEF generate
<1>6. Tree' = Tree /\ (Parsed' <=> Parsed)
  BY <1>1 DEF Tree, match, next, Parsed
<1>7. Compiles(generate(ret))' <=> Compiles(generate(ret))
  BY <1>5
<1>8. Texts' = Texts
  BY <1>5 DEF Texts, Cut
<1> QED BY <1>5, <1>6, <1>7, <1>8

-----------------------------------------------------------------------------
(* The invariant of the runs.  Source says where out.c and the child of    *)
(* the run are; Alone, where out.so and the output are as long as no other *)
(* child works in the directory.                                           *)

Phases == {"ended", "parse", "generate", "fork", "wait", "load", "call", "done"}
ChildRecords == [at : {"none", "forked", "gcc", "link", "success", "failure"}, program : Programs]
Older == so # NoFile => "so" \in found
Own == Sound(so)

Typed ==
  /\ pc \in Phases /\ run \in 0 .. Len(Inputs) /\ (pc # "ended" => run \in Runs)
  /\ cfile \in Programs /\ so \in Programs /\ loaded \in Programs
  /\ child \in [Runs -> ChildRecords]
  /\ found \subseteq {"c", "so"} /\ orphaned \in BOOLEAN /\ unexecuted \in BOOLEAN
Source ==
  /\ pc \in Phases \ {"ended", "parse"} => Parsed /\ Tree # NULL
  /\ pc \in {"fork", "wait"} => cfile \in Texts
  /\ pc \in {"load", "call", "done"} => cfile = NoFile /\ child[run].at = "success"
  /\ pc = "wait" /\ child[run].at = "link" => Sound(child[run].program)
Before == ~unexecuted /\ Older
Alone ==
  /\ \A r \in Runs : Alive(child[r]) => r = run
  /\ pc \in {"parse", "generate", "fork"} => Before /\ \A r \in Runs : ~Alive(child[r])
  /\ pc = "parse" => (cfile # NoFile => "c" \in found)
  /\ pc = "wait" /\ child[run].at # "success" => Before
  /\ pc \in {"wait", "load", "call"} /\ child[run].at = "success" =>
       IF unexecuted THEN Older ELSE Own
  /\ pc = "call" => loaded = so /\ so # NoFile
  /\ pc = "done" => printed = Meaning(tokens, Written(tokens)) \/ unexecuted

JitInv == ParserInv /\ Typed /\ Source /\ (~orphaned => Alone)

\* What a file may hold.
LEMMA ProgramsAre ==
  /\ NoFile \in Programs /\ Truncated \in Programs /\ Truncated # NoFile
  /\ \A dag : generate(dag) # NoFile
<1>1. NoFile \in Programs
  BY DEF Programs
<1>2. \A p : p.file = TRUE => p # NoFile
  BY DEF NoFile
<1>3. Truncated.file = TRUE /\ \A dag : generate(dag).file = TRUE
  BY DEF Truncated, generate
<1>4. Truncated \in Programs
  <2> DEFINE S == [t : Nat, op : Kinds, left : Nat, right : Nat, text : {<<>>, Word} \cup {"%f"} \X Nat]
  <2>1. <<>> \in Seq(S)
    OBVIOUS
  <2>2. Truncated \in [file : {TRUE}, ret : Nat, code : Seq(S)]
    <3> HIDE DEF S
    <3> QED BY <2>1 DEF Truncated, NULL
  <2> QED BY <2>2 DEF Programs
<1> QED BY <1>1, <1>2, <1>3, <1>4

\* The program of the run's own argument.
LEMMA OwnProgram ==
  ASSUME ParserInv, Parsed, Tree # NULL
  PROVE  /\ generate(ret) \in Programs /\ generate(ret).code # <<>>
         /\ Compiles(generate(ret)) => evaluate(generate(ret)) = Meaning(tokens, Written(tokens))
<1>1. PICK m, T, R : Whole(Written(tokens), m, T, R)
  <2>1. PICK worth : worth = Written(tokens)
    OBVIOUS
  <2>2. \E m, T, R : Whole(worth, m, T, R)
    BY ParsedWhole
  <2> QED BY <2>1, <2>2
<1>2. generate(ret).code = reflect(ret)
  BY DEF generate
<1>3. Len(reflect(ret)) # 0
  BY <1>1, ReflectIs
<1>4. reflect(ret) # <<>>
  BY <1>3
<1> QED BY <1>1, <1>2, <1>4, EvaluateIs, GenerateTyped

\* Any of the texts is a program, and what compiles of them is Sound.
LEMMA TextsAre ==
  ASSUME ParserInv, Parsed, Tree # NULL, NEW prog \in Texts
  PROVE  prog \in Programs /\ (Compiles(prog) => Sound(prog))
<1>1. PICK g : g = generate(ret)
  OBVIOUS
<1>2. g \in Programs /\ g.code # <<>> /\ g # NoFile
  BY <1>1, OwnProgram, ProgramsAre
<1>3. PICK S : /\ S = [t : Nat, op : Kinds, left : Nat, right : Nat,
                        text : {<<>>, Word} \cup {"%f"} \X Nat]
               /\ g \in [file : {TRUE}, ret : Nat, code : Seq(S)]
  BY <1>2 DEF Programs
<1>4. PICK c : c = [g EXCEPT !.ret = NULL]
  OBVIOUS
<1>5. c \in [file : {TRUE}, ret : Nat, code : Seq(S)] /\ c.code = g.code /\ c.ret = NULL
  BY <1>3, <1>4 DEF NULL
<1>6. c \in Programs /\ c.code # <<>> /\ c.ret = NULL
  BY <1>2, <1>3, <1>5 DEF Programs
<1>7. ~Compiles(c)
  BY ONLY <1>6 DEF Compiles
<1>8. prog = g \/ prog = c \/ prog = Truncated
  BY <1>1, <1>4 DEF Texts, Cut
<1>9. prog \in Programs
  BY <1>2, <1>6, <1>8, ProgramsAre
<1>10. Compiles(prog) => prog = Truncated \/ (prog = generate(ret) /\ Compiles(generate(ret)))
  BY ONLY <1>1, <1>7, <1>8
<1> QED BY <1>9, <1>10 DEF Sound

\* A child, by its parts.
LEMMA ChildIs ==
  ASSUME NEW at \in {"none", "forked", "gcc", "link", "success", "failure"},
         NEW prog \in Programs
  PROVE  /\ Child(at, prog) \in ChildRecords
         /\ Child(at, prog).at = at /\ Child(at, prog).program = prog
  BY DEF Child, ChildRecords

-----------------------------------------------------------------------------
\* A run that ends leaves nothing to keep but the children.
LEMMA EndsInv ==
  ASSUME JitInv, pc' = "ended", Blank, loaded' = NoFile,
         cfile' \in {cfile, NoFile}, so' \in {so, NoFile},
         UNCHANGED <<run, child, found, orphaned, unexecuted>>
  PROVE  JitInv'
<1>1. ParserInv'
  BY BlankInv
<1>2. Typed'
  BY ProgramsAre DEF JitInv, Typed, Phases
<1>3. Source'
  BY DEF Source, Phases
<1>4. ~orphaned' => Alone'
  BY DEF JitInv, Alone, Alive
<1> QED BY <1>1, <1>2, <1>3, <1>4 DEF JitInv

\* Before the first run.
LEMMA InitInv ==
  ASSUME Init
  PROVE  JitInv
<1>1. ParserTypeOK
  <2>1. /\ tokens = <<>> /\ stack = <<>> /\ ret = NULL
        /\ i = 1 /\ nodes = <<>> /\ noMemory = FALSE
    BY DEF Init
  <2>2. Len(<<>>) = 0
    OBVIOUS
  <2>3. NULL \in 0 .. Len(nodes) /\ NULL # Called
    BY <2>1, <2>2 DEF NULL, Called
  <2>4. \A j \in 1 .. Len(stack) : FALSE
    BY <2>1, <2>2
  <2>5. \A j \in 1 .. Len(stack) - 1 : FALSE
    BY <2>1, <2>2
  <2>6. Shape
    BY <2>1, <2>3, <2>5 DEF Shape
  <2>7. nodes \in Seq(NodeSet) /\ tokens \in Seq(Lexemes) /\ i \in 1 .. Len(tokens) + 1
    BY <2>1, <2>2
  <2> QED BY <2>1, <2>3, <2>4, <2>6, <2>7 DEF ParserTypeOK
<1>2. ~Well(tokens, 1, Len(tokens))
  BY DEF Init, Well
<1>3. ParserInv
  BY <1>1, <1>2 DEF Init, ParserInv, Refused
<1>4. Child("none", NoFile) \in ChildRecords
  BY ProgramsAre, ChildIs
<1>5. run \in 0 .. Len(Inputs)
  BY JitAssumption DEF Init
<1>6. Typed
  BY <1>4, <1>5, ProgramsAre DEF Init, Typed, Phases, NoChild
<1>7. Source
  BY DEF Init, Source, Phases
<1>8. \A r \in Runs : ~Alive(child[r])
  <2>1. NoChild.at = "none"
    BY DEF NoChild, Child
  <2> QED BY <2>1 DEF Init, Alive
<1>9. Alone
  BY <1>8 DEF Init, Alone
<1> QED BY <1>3, <1>6, <1>7, <1>9 DEF JitInv

-----------------------------------------------------------------------------
\* The actions that end a run.
Ending == Rejected \/ Overread \/ (Accepted /\ pc' = "ended") \/ NotForked \/ (Compiled /\ pc' = "ended")
            \/ NotLoaded \/ NoSymbol \/ Done \/ Kill

\* They keep the invariant.
LEMMA EndingInv ==
  ASSUME JitInv, Ending
  PROVE  JitInv'
<1>1. CASE Rejected
  BY <1>1, EndsInv DEF Rejected, Ends, Goes
<1>2. CASE Accepted /\ pc' = "ended"
  BY <1>2, EndsInv DEF Accepted, Ends, Goes
<1>3. CASE NotForked
  BY <1>3, EndsInv DEF NotForked, Ends, Goes
<1>4. CASE Compiled /\ pc' = "ended"
  BY <1>4, EndsInv DEF Compiled, Ends, Goes
<1>5. CASE NotLoaded
  BY <1>5, EndsInv DEF NotLoaded, Ends, Goes
<1>6. CASE NoSymbol
  BY <1>6, EndsInv DEF NoSymbol, Ends, Goes
<1>7. CASE Done
  BY <1>7, EndsInv DEF Done, Ends, Goes
<1>8. CASE Kill
  BY <1>8, EndsInv DEF Kill
<1>9. CASE Overread
  BY <1>9, EndsInv DEF Overread, Ends, Goes
<1> QED BY <1>1, <1>2, <1>3, <1>4, <1>5, <1>6, <1>7, <1>8, <1>9 DEF Ending

-----------------------------------------------------------------------------
\* The steps of main after which the run goes on, with the parser at rest.
LEMMA AcceptedInv ==
  ASSUME JitInv, Accepted, pc' # "ended"
  PROVE  JitInv'
<1>1. /\ pc = "parse" /\ Parsed /\ Tree # NULL /\ pc' = "generate" /\ cfile' = Truncated
      /\ UNCHANGED <<parserVars, loaded, printed, so, run, child, found, orphaned, unexecuted>>
  BY DEF Accepted, Ends, Goes, Same
<1>2. ParserInv'
  BY <1>1, SameInv DEF JitInv
<1>3. Parsed' /\ Tree' # NULL
  BY <1>1, SameProgram DEF NULL
<1>4. Typed'
  BY <1>1, ProgramsAre DEF JitInv, Typed, Phases
<1>5. Source'
  BY <1>1, <1>3 DEF Source
<1>6. ~orphaned' => Alone'
  BY <1>1 DEF JitInv, Alone, Alive, Before, Older
<1> QED BY <1>2, <1>4, <1>5, <1>6 DEF JitInv

\* main writes out.c.
LEMMA GeneratedInv ==
  ASSUME JitInv, Generated
  PROVE  JitInv'
<1>1. /\ pc = "generate" /\ pc' = "fork" /\ cfile' \in Texts
      /\ UNCHANGED <<parserVars, loaded, printed, so, run, child, found, orphaned, unexecuted>>
  BY DEF Generated, Goes, Same, Texts
<1>2. ParserInv'
  BY <1>1, SameInv DEF JitInv
<1>3. Parsed /\ Tree # NULL /\ ParserInv
  BY <1>1 DEF JitInv, Source, Phases
<1>4. Parsed' /\ Tree' # NULL /\ Texts' = Texts
  BY <1>1, <1>3, SameProgram DEF NULL
<1>5. Typed'
  <2>1. cfile' \in Programs
    BY <1>1, <1>3, TextsAre
  <2> QED BY <1>1, <2>1 DEF JitInv, Typed, Phases
<1>6. Source'
  BY <1>1, <1>4 DEF Source
<1>7. ~orphaned' => Alone'
  BY <1>1 DEF JitInv, Alone, Alive, Before, Older
<1> QED BY <1>2, <1>5, <1>6, <1>7 DEF JitInv

\* main forks the child.
LEMMA ForkedInv ==
  ASSUME JitInv, Forked
  PROVE  JitInv'
<1>1. /\ pc = "fork" /\ pc' = "wait"
      /\ child' = [child EXCEPT ![run] = Child("forked", NoFile)]
      /\ UNCHANGED <<parserVars, loaded, printed, cfile, so, run, found, orphaned, unexecuted>>
  BY DEF Forked, Same
<1>2. ParserInv'
  BY <1>1, SameInv DEF JitInv
<1>3. Parsed /\ Tree # NULL /\ cfile \in Texts
  BY <1>1 DEF JitInv, Source, Phases
<1>4. Parsed' /\ Tree' # NULL /\ Texts' = Texts
  BY <1>1, <1>3, SameProgram DEF NULL
<1>5. run \in Runs /\ child \in [Runs -> ChildRecords]
  BY <1>1 DEF JitInv, Typed
<1>6. /\ Child("forked", NoFile) \in ChildRecords /\ child'[run] = Child("forked", NoFile)
      /\ child'[run].at = "forked" /\ \A r \in Runs : r # run => child'[r] = child[r]
  BY <1>1, <1>5, ProgramsAre, ChildIs
<1>7. Typed'
  <2>1. child' \in [Runs -> ChildRecords]
    BY <1>1, <1>5, <1>6
  <2> QED BY <1>1, <1>5, <2>1 DEF JitInv, Typed, Phases
<1>8. Source'
  BY <1>1, <1>3, <1>4, <1>6 DEF Source
<1>9. ~orphaned' => Alone'
  BY <1>1, <1>6 DEF JitInv, Alone, Alive, Before, Older
<1> QED BY <1>2, <1>7, <1>8, <1>9 DEF JitInv

\* main has waited for the child, which succeeded.
LEMMA CompiledInv ==
  ASSUME JitInv, Compiled, pc' # "ended"
  PROVE  JitInv'
<1>1. /\ pc = "wait" /\ pc' = "load" /\ cfile' = NoFile /\ child[run].at = "success"
      /\ UNCHANGED <<parserVars, loaded, printed, so, run, child, found, orphaned, unexecuted>>
  BY DEF Compiled, Ends, Goes, Same, Success
<1>2. ParserInv'
  BY <1>1, SameInv DEF JitInv
<1>3. Parsed /\ Tree # NULL
  BY <1>1 DEF JitInv, Source, Phases
<1>4. /\ Parsed' /\ Tree' # NULL /\ generate(ret)' = generate(ret)
      /\ Compiles(generate(ret))' <=> Compiles(generate(ret))
  BY <1>1, <1>3, SameProgram DEF NULL
<1>5. Typed'
  BY <1>1, ProgramsAre DEF JitInv, Typed, Phases
<1>6. Source'
  BY <1>1, <1>4 DEF Source
<1>7. ASSUME Alone PROVE Alone'
  <2>1. IF unexecuted THEN Older ELSE Own
    BY <1>1, <1>7 DEF Alone
  <2>2. (IF unexecuted THEN Older ELSE Own)'
    BY <1>1, <1>4, <2>1 DEF Older, Own, Sound
  <2>3. \A r \in Runs : Alive(child'[r]) => r = run'
    BY <1>1, <1>7 DEF Alone
  <2> QED BY <1>1, <2>2, <2>3 DEF Alone
<1> QED BY <1>1, <1>2, <1>5, <1>6, <1>7 DEF JitInv

\* main loads out.so.
LEMMA LoadedInv ==
  ASSUME JitInv, Loaded
  PROVE  JitInv'
<1>1. /\ pc = "load" /\ pc' = "call" /\ so # NoFile /\ loaded' = so
      /\ UNCHANGED <<parserVars, printed, cfile, so, run, child, found, orphaned, unexecuted>>
  BY DEF Loaded, Goes
<1>2. ParserInv'
  BY <1>1, SameInv DEF JitInv
<1>3. Parsed /\ Tree # NULL /\ cfile = NoFile /\ child[run].at = "success"
  BY <1>1 DEF JitInv, Source, Phases
<1>4. /\ Parsed' /\ Tree' # NULL /\ generate(ret)' = generate(ret)
      /\ Compiles(generate(ret))' <=> Compiles(generate(ret))
  BY <1>1, <1>3, SameProgram DEF NULL
<1>5. Typed'
  BY <1>1 DEF JitInv, Typed, Phases
<1>6. Source'
  BY <1>1, <1>3, <1>4 DEF Source
<1>7. ASSUME Alone PROVE Alone'
  <2>1. IF unexecuted THEN Older ELSE Own
    BY <1>1, <1>3, <1>7 DEF Alone
  <2>2. (IF unexecuted THEN Older ELSE Own)'
    BY <1>1, <1>4, <2>1 DEF Older, Own, Sound
  <2>3. \A r \in Runs : Alive(child'[r]) => r = run'
    BY <1>1, <1>7 DEF Alone
  <2> QED BY <1>1, <2>2, <2>3 DEF Alone
<1> QED BY <1>1, <1>2, <1>5, <1>6, <1>7 DEF JitInv

\* main calls evaluate and prints.
LEMMA EvaluatedInv ==
  ASSUME JitInv, Evaluated
  PROVE  JitInv'
<1>1. /\ pc = "call" /\ pc' = "done" /\ printed' = evaluate(loaded)
      /\ loaded.code # <<>>
      /\ UNCHANGED <<parserVars, loaded, cfile, so, run, child, found, orphaned, unexecuted>>
  BY DEF Evaluated, Goes
<1>2. ParserInv'
  BY <1>1, SameInv DEF JitInv
<1>3. Parsed /\ Tree # NULL /\ cfile = NoFile /\ child[run].at = "success" /\ ParserInv
  BY <1>1 DEF JitInv, Source, Phases
<1>4. Parsed' /\ Tree' # NULL
  BY <1>1, <1>3, SameProgram DEF NULL
<1>5. Typed'
  BY <1>1 DEF JitInv, Typed, Phases
<1>6. Source'
  BY <1>1, <1>3, <1>4 DEF Source
<1>7. ASSUME Alone PROVE Alone'
  <2>1. (IF unexecuted THEN Older ELSE Own) /\ loaded = so
    BY <1>1, <1>3, <1>7 DEF Alone
  <2>2. ~unexecuted => printed' = Meaning(tokens, Written(tokens))
    <3>1. SUFFICES ASSUME ~unexecuted PROVE evaluate(loaded) = Meaning(tokens, Written(tokens))
      BY <1>1
    <3>2. loaded # Truncated
      BY <1>1 DEF Truncated
    <3>3. loaded = generate(ret) /\ Compiles(generate(ret))
      BY ONLY <2>1, <3>1, <3>2 DEF Own, Sound
    <3> QED BY ONLY <1>3, <3>3, OwnProgram
  <2>3. tokens' = tokens
    BY <1>1 DEF parserVars
  <2>4. \A r \in Runs : Alive(child'[r]) => r = run'
    BY <1>1, <1>7 DEF Alone
  <2>5. printed' = Meaning(tokens', Written(tokens')) \/ unexecuted'
    BY <1>1, <2>2, <2>3
  <2> QED BY <1>1, <2>4, <2>5 DEF Alone
<1> QED BY <1>1, <1>2, <1>5, <1>6, <1>7 DEF JitInv

-----------------------------------------------------------------------------
\* The files there are.
LEMMA FilesIn ==
  /\ Files \subseteq {"c", "so"}
  /\ "so" \in Files <=> so # NoFile
  /\ "c" \in Files <=> cfile # NoFile
  BY DEF Files

\* A run begins.
LEMMA BeginInv ==
  ASSUME JitInv, pc = "ended", run < Len(Inputs), NEW arg \in Inputs[run + 1], Begin(arg)
  PROVE  JitInv'
<1>1. /\ run' = run + 1 /\ found' = Files
      /\ orphaned' = (\E r \in Runs : Alive(child[r]))
      /\ unexecuted' = FALSE
      /\ UNCHANGED <<cfile, so, loaded, child>>
      /\ \/ pc' = "parse" /\ Start(arg)
         \/ pc' = "ended" /\ Blank
  BY DEF Begin
<1>2. run' \in Runs /\ run' \in 0 .. Len(Inputs) /\ run + 1 \in 1 .. Len(Inputs)
  BY <1>1, JitAssumption DEF JitInv, Typed, Runs
<1>3. arg \in Seq(Lexemes)
  <2>1. Inputs[run + 1] \in SUBSET Seq(Lexemes)
    BY <1>2, JitAssumption
  <2> QED BY <2>1
<1>4. ParserInv'
  BY <1>1, <1>3, StartInv, BlankInv
<1>5. Typed'
  <2>1. found' \subseteq {"c", "so"}
    BY <1>1, FilesIn
  <2>2. orphaned' \in BOOLEAN
    BY <1>1
  <2> QED BY <1>1, <1>2, <2>1, <2>2 DEF JitInv, Typed, Phases
<1>6. Source'
  BY <1>1 DEF Source, Phases
<1>7. ASSUME ~orphaned' PROVE Alone'
  <2>1. \A r \in Runs : ~Alive(child'[r])
    BY <1>1, <1>7
  <2>2. Before'
    BY <1>1, FilesIn DEF Before, Older
  <2>3. cfile' # NoFile => "c" \in found'
    BY <1>1, FilesIn
  <2> QED BY <1>1, <2>1, <2>2, <2>3 DEF Alone
<1> QED BY <1>4, <1>5, <1>6, <1>7 DEF JitInv

\* The run parses its argument.
LEMMA ParsingInv ==
  ASSUME JitInv, Parsing
  PROVE  JitInv'
<1>1. /\ pc = "parse" /\ Parse
      /\ UNCHANGED <<pc, run, cfile, so, loaded, printed, child, found, orphaned, unexecuted>>
  BY DEF Parsing, jitVars
<1>2. ParserInv'
  BY <1>1, ParseInv DEF JitInv
<1>3. Typed'
  BY <1>1 DEF JitInv, Typed
<1>4. Source'
  BY <1>1 DEF Source, Phases
<1>5. ~orphaned' => Alone'
  BY <1>1 DEF JitInv, Alone, Before, Older, Alive
<1> QED BY <1>2, <1>3, <1>4, <1>5 DEF JitInv

-----------------------------------------------------------------------------
\* The steps of the child of run r.
LEMMA MovesIs ==
  ASSUME JitInv, NEW r \in Runs, NEW at \in {"gcc", "link", "success", "failure"},
         NEW prog \in Programs, Moves(r, at, prog)
  PROVE  /\ child' \in [Runs -> ChildRecords]
         /\ child'[r].at = at /\ child'[r].program = prog
         /\ \A q \in Runs : q # r => child'[q] = child[q]
         /\ UNCHANGED <<parserVars, pc, run, cfile, loaded, printed, found, orphaned>>
         /\ pc # "ended" => run \in Runs
         /\ ParserInv'
<1>1. child \in [Runs -> ChildRecords]
  BY DEF JitInv, Typed
<1>2. Child(at, prog) \in ChildRecords /\ Child(at, prog).at = at
      /\ Child(at, prog).program = prog
  BY ChildIs
<1>3. child' = [child EXCEPT ![r] = Child(at, prog)]
  BY DEF Moves
<1>4. UNCHANGED <<parserVars, pc, run, cfile, loaded, printed, found, orphaned>>
  BY DEF Moves
<1>5. ParserInv'
  BY <1>4, SameInv DEF JitInv
<1> QED BY <1>1, <1>2, <1>3, <1>4, <1>5 DEF JitInv, Typed

\* A step that does not write out.so.
LEMMA QuietInv ==
  ASSUME JitInv, NEW r \in Runs, Alive(child[r]),
         NEW at \in {"gcc", "link", "success", "failure"},
         NEW prog \in Programs, Moves(r, at, prog), so' = so,
         unexecuted' = (unexecuted \/ (at = "success" /\ r = run)),
         at = "link" => prog = cfile /\ Compiles(cfile)
  PROVE  JitInv'
<1>1. /\ child' \in [Runs -> ChildRecords]
      /\ child'[r].at = at /\ child'[r].program = prog
      /\ \A q \in Runs : q # r => child'[q] = child[q]
      /\ UNCHANGED <<parserVars, pc, run, cfile, loaded, printed, found, orphaned>>
      /\ pc # "ended" => run \in Runs
      /\ ParserInv'
  BY MovesIs
<1>2. /\ generate(ret)' = generate(ret) /\ Tree' = Tree /\ (Parsed' <=> Parsed)
      /\ Compiles(generate(ret))' <=> Compiles(generate(ret))
      /\ Texts' = Texts
  BY <1>1, SameProgram
<1>3. Typed'
  BY <1>1 DEF JitInv, Typed
<1>4. child[r].at # "success"
  BY DEF Alive
<1>5. Source'
  <2>1. pc' \in {"load", "call", "done"} => child'[run'].at = "success"
    <3>1. SUFFICES ASSUME pc \in {"load", "call", "done"} PROVE child'[run].at = "success"
      BY <1>1
    <3>2. child[run].at = "success" /\ run \in Runs
      BY <1>1, <3>1 DEF JitInv, Source
    <3> QED BY <1>1, <1>4, <3>2
  <2>2. pc' = "wait" /\ child'[run'].at = "link" => Sound(child'[run].program)
    <3>1. SUFFICES ASSUME pc = "wait", child'[run].at = "link"
                   PROVE  Sound(child'[run].program)
      BY <1>1
    <3>2. run \in Runs /\ cfile \in Texts /\ ParserInv /\ Parsed /\ Tree # NULL
      BY <1>1, <3>1 DEF JitInv, Source, Phases
    <3>3. CASE r = run
      <4>1. child'[run].program = cfile /\ Compiles(cfile)
        BY <1>1, <3>1, <3>3
      <4>2. Sound(cfile)
        BY ONLY <3>2, <4>1, TextsAre
      <4> QED BY <4>1, <4>2
    <3>4. CASE r # run
      BY <1>1, <3>1, <3>2, <3>4 DEF JitInv, Source
    <3> QED BY <3>3, <3>4
  <2>3. pc' \in Phases \ {"ended", "parse"} => Parsed' /\ Tree' # NULL
    BY <1>1, <1>2 DEF JitInv, Source, NULL
  <2>4. pc' \in {"fork", "wait"} => cfile' \in Texts'
    BY <1>1, <1>2 DEF JitInv, Source
  <2>5. pc' \in {"load", "call", "done"} => cfile' = NoFile
    BY <1>1 DEF JitInv, Source
  <2>6. pc' = "wait" /\ child'[run'].at = "link" => Sound(child[run].program)'
    BY <1>1, <1>2, <2>2 DEF Sound
  <2> QED BY <2>1, <2>3, <2>4, <2>5, <2>6 DEF Source
<1>6. ASSUME Alone PROVE Alone'
  <2>1. r = run /\ pc \notin {"parse", "generate", "fork", "load", "call", "done"}
    <3>1. r = run /\ pc \notin {"parse", "generate", "fork"}
      BY <1>6 DEF Alone
    <3> QED BY <1>4, <3>1 DEF JitInv, Source
  <2>2. \A q \in Runs : Alive(child'[q]) => q = run'
    BY <1>1, <1>6, <2>1 DEF Alone
  <2>3. pc = "wait" => Before
    BY <1>4, <1>6, <2>1 DEF Alone
  <2>4. pc = "wait" /\ at # "success" => Before'
    BY <1>1, <2>3 DEF Before, Older
  <2>5. pc = "wait" /\ at = "success" => unexecuted' /\ Older'
    BY <1>1, <2>1, <2>3 DEF Before, Older
  <2> QED BY <1>1, <2>1, <2>2, <2>4, <2>5 DEF Alone
<1> QED BY <1>1, <1>3, <1>5, <1>6 DEF JitInv

\* A step that does.
LEMMA WritingInv ==
  ASSUME JitInv, NEW r \in Runs, child[r].at = "link",
         NEW at \in {"success", "failure"},
         NEW prog \in Programs, Moves(r, at, prog), unexecuted' = unexecuted,
         so' = IF at = "success" THEN child[r].program ELSE NoFile
  PROVE  JitInv'
<1>1. /\ child' \in [Runs -> ChildRecords]
      /\ child'[r].at = at /\ child'[r].program = prog
      /\ \A q \in Runs : q # r => child'[q] = child[q]
      /\ UNCHANGED <<parserVars, pc, run, cfile, loaded, printed, found, orphaned>>
      /\ pc # "ended" => run \in Runs
      /\ ParserInv'
  BY MovesIs
<1>2. /\ generate(ret)' = generate(ret) /\ Tree' = Tree /\ (Parsed' <=> Parsed)
      /\ Compiles(generate(ret))' <=> Compiles(generate(ret))
      /\ Texts' = Texts
  BY <1>1, SameProgram
<1>3. so' \in Programs
  <2>1. child[r] \in ChildRecords
    BY DEF JitInv, Typed
  <2> QED BY <2>1, ProgramsAre DEF ChildRecords
<1>4. Typed'
  BY <1>1, <1>3 DEF JitInv, Typed
<1>5. Source'
  <2>1. pc' \in {"load", "call", "done"} => child'[run'].at = "success"
    <3>1. SUFFICES ASSUME pc \in {"load", "call", "done"} PROVE child'[run].at = "success"
      BY <1>1
    <3>2. child[run].at = "success" /\ run \in Runs
      BY <1>1, <3>1 DEF JitInv, Source
    <3> QED BY <1>1, <3>2
  <2>2. pc' = "wait" /\ child'[run'].at = "link" => Sound(child'[run].program)
    <3>1. SUFFICES ASSUME pc = "wait", child'[run].at = "link"
                   PROVE  Sound(child'[run].program)
      BY <1>1
    <3>2. run \in Runs /\ run # r
      BY <1>1, <3>1
    <3> QED BY <1>1, <3>1, <3>2 DEF JitInv, Source
  <2>3. pc' \in Phases \ {"ended", "parse"} => Parsed' /\ Tree' # NULL
    BY <1>1, <1>2 DEF JitInv, Source, NULL
  <2>4. pc' \in {"fork", "wait"} => cfile' \in Texts'
    BY <1>1, <1>2 DEF JitInv, Source
  <2>5. pc' \in {"load", "call", "done"} => cfile' = NoFile
    BY <1>1 DEF JitInv, Source
  <2>6. pc' = "wait" /\ child'[run'].at = "link" => Sound(child[run].program)'
    BY <1>1, <1>2, <2>2 DEF Sound
  <2> QED BY <2>1, <2>3, <2>4, <2>5, <2>6 DEF Source
<1>6. ASSUME Alone PROVE Alone'
  <2>1. r = run /\ pc \notin {"parse", "generate", "fork", "load", "call", "done"}
    <3>1. r = run /\ pc \notin {"parse", "generate", "fork"}
      BY <1>6 DEF Alone, Alive
    <3> QED BY <3>1 DEF JitInv, Source
  <2>2. \A q \in Runs : Alive(child'[q]) => q = run'
    BY <1>1, <1>6, <2>1 DEF Alone
  <2>3. pc = "wait" => Before
    BY <1>6, <2>1 DEF Alone
  <2>4. pc = "wait" /\ at = "failure" => Before'
    BY <1>1, <2>3 DEF Before, Older
  <2>5. pc = "wait" /\ at = "success" => ~unexecuted' /\ Own'
    <3>1. SUFFICES ASSUME pc = "wait", at = "success" PROVE ~unexecuted' /\ Own'
      OBVIOUS
    <3>2. Sound(child[r].program)
      BY <2>1, <3>1 DEF JitInv, Source
    <3>3. so' = child[r].program
      BY <3>1
    <3>5. Own'
      BY <1>2, <3>2, <3>3 DEF Own, Sound
    <3>6. ~unexecuted'
      BY <2>3, <3>1 DEF Before
    <3> QED BY <3>5, <3>6
  <2> QED BY <1>1, <2>1, <2>2, <2>4, <2>5 DEF Alone
<1> QED BY <1>1, <1>4, <1>5, <1>6 DEF JitInv

\* Every step of a child keeps the invariant.
LEMMA ChildInv ==
  ASSUME JitInv, NEW r \in Runs, ChildStep(r)
  PROVE  JitInv'
<1>1. NoFile \in Programs /\ cfile \in Programs
  BY ProgramsAre DEF JitInv, Typed
<1>e. unexecuted \in BOOLEAN
  BY DEF JitInv, Typed
<1>2. CASE Exec(r)
  <2>1. /\ Moves(r, "gcc", NoFile) /\ so' = so
        /\ unexecuted' = (unexecuted \/ ("gcc" = "success" /\ r = run))
        /\ Alive(child[r])
    BY <1>e, <1>2 DEF Exec, Alive
  <2> QED BY ONLY <1>1, <2>1, JitInv, r \in Runs, QuietInv
<1>3. CASE NoExec(r)
  <2>1. /\ Moves(r, "success", NoFile) /\ so' = so /\ unexecuted' = (unexecuted \/ r = run)
        /\ Alive(child[r])
    BY <1>3 DEF NoExec, Alive
  <2> QED BY ONLY <1>1, <2>1, JitInv, r \in Runs, QuietInv
<1>4. CASE ReadSource(r)
  <2>1. Alive(child[r]) /\ so' = so /\ unexecuted' = unexecuted
    BY <1>4 DEF ReadSource, Alive
  <2>2. CASE cfile # NoFile /\ Compiles(cfile)
    <3>1. /\ Moves(r, "link", cfile)
          /\ unexecuted' = (unexecuted \/ ("link" = "success" /\ r = run))
      BY <1>e, <1>4, <2>2 DEF ReadSource
    <3> QED BY ONLY <1>1, <2>1, <2>2, <3>1, JitInv, r \in Runs, QuietInv
  <2>3. CASE ~(cfile # NoFile /\ Compiles(cfile))
    <3>1. /\ Moves(r, "failure", NoFile)
          /\ unexecuted' = (unexecuted \/ ("failure" = "success" /\ r = run))
      BY <1>e, <1>4, <2>3 DEF ReadSource
    <3> QED BY ONLY <1>1, <2>1, <3>1, JitInv, r \in Runs, QuietInv
  <2> QED BY <2>2, <2>3
<1>5. CASE Linked(r)
  <2>1. /\ Moves(r, "success", NoFile) /\ so' = child[r].program /\ unexecuted' = unexecuted
        /\ child[r].at = "link"
    BY <1>5 DEF Linked
  <2> QED BY ONLY <1>1, <2>1, JitInv, r \in Runs, WritingInv
<1>6. CASE NotLinked(r)
  <2>1. /\ Moves(r, "failure", NoFile) /\ so' = NoFile /\ unexecuted' = unexecuted
        /\ child[r].at = "link"
    BY <1>6 DEF NotLinked
  <2> QED BY ONLY <1>1, <2>1, JitInv, r \in Runs, WritingInv
<1> QED BY <1>2, <1>3, <1>4, <1>5, <1>6 DEF ChildStep

-----------------------------------------------------------------------------
\* Only a kill is counted.
LEMMA StepKills ==
  ASSUME kills \in Nat, [Next]_vars
  PROVE  kills' \in Nat /\ (kills' = kills \/ (Kill /\ kills' # kills))
<1>1. CASE Kill
  BY <1>1 DEF Kill
<1>2. ASSUME Main PROVE kills' = kills
  BY ONLY <1>2
     DEF Main, Parsing, Rejected, Overread, Accepted, Generated, Forked, NotForked, Compiled, NotLoaded,
         Loaded, NoSymbol, Evaluated, Done, Ends, Goes, jitVars
<1>3. ASSUME NEW r \in Runs, ChildStep(r) PROVE kills' = kills
  BY ONLY <1>3
     DEF ChildStep, Exec, NoExec, ReadSource, Linked, NotLinked, Moves
<1>4. ASSUME NEW arg, Begin(arg) PROVE kills' = kills
  BY ONLY <1>4 DEF Begin
<1>5. CASE UNCHANGED vars
  BY <1>5 DEF vars, jitVars
<1> QED BY <1>1, <1>2, <1>3, <1>4, <1>5 DEF Next

\* Every step of main keeps the invariant.
LEMMA MainInv ==
  ASSUME JitInv, Main
  PROVE  JitInv'
<1>1. CASE Ending
  BY <1>1, EndingInv
<1>2. CASE Parsing
  BY <1>2, ParsingInv
<1>3. CASE Accepted /\ pc' # "ended"
  BY <1>3, AcceptedInv
<1>4. CASE Generated
  BY <1>4, GeneratedInv
<1>5. CASE Forked
  BY <1>5, ForkedInv
<1>6. CASE Compiled /\ pc' # "ended"
  BY <1>6, CompiledInv
<1>7. CASE Loaded
  BY <1>7, LoadedInv
<1>8. CASE Evaluated
  BY <1>8, EvaluatedInv
<1> QED BY <1>1, <1>2, <1>3, <1>4, <1>5, <1>6, <1>7, <1>8 DEF Main, Ending

\* Every step of the program keeps it.
LEMMA NextInv ==
  ASSUME JitInv, [Next]_vars
  PROVE  JitInv'
<1>1. CASE Kill
  BY <1>1, EndingInv DEF Ending
<1>2. CASE Main
  BY <1>2, MainInv
<1>3. ASSUME NEW r \in Runs, ChildStep(r) PROVE JitInv'
  BY <1>3, ChildInv
<1>4. ASSUME pc = "ended", run < Len(Inputs), NEW arg \in Inputs[run + 1], Begin(arg)
      PROVE  JitInv'
  BY <1>4, BeginInv
<1>5. CASE UNCHANGED vars
  <2>1. UNCHANGED <<parserVars, pc, run, cfile, so, loaded, printed, child, found, orphaned,
                    unexecuted>>
    BY <1>5 DEF vars, jitVars
  <2>2. ParserInv'
    BY <2>1, SameInv DEF JitInv
  <2>3. /\ generate(ret)' = generate(ret) /\ Tree' = Tree /\ (Parsed' <=> Parsed)
        /\ Compiles(generate(ret))' <=> Compiles(generate(ret))
        /\ Texts' = Texts
    BY <2>1, SameProgram
  <2>4. Typed'
    BY <2>1 DEF JitInv, Typed
  <2>5. Source'
    <3>1. Source
      BY DEF JitInv
    <3> QED BY <2>1, <2>3, <3>1 DEF Source, Sound, NULL
  <2>6. ASSUME Alone PROVE Alone'
    <3>1. tokens' = tokens
      BY <2>1 DEF parserVars
    <3>2. (Older' <=> Older) /\ (Own' <=> Own) /\ (Before' <=> Before)
      BY <2>1, <2>3 DEF Older, Own, Sound, Before
    <3>3. \A r : Alive(child'[r]) <=> Alive(child[r])
      BY <2>1
    <3> QED BY <2>1, <2>6, <3>1, <3>2, <3>3 DEF Alone
  <2> QED BY <2>1, <2>2, <2>4, <2>5, <2>6 DEF JitInv
<1> QED BY <1>1, <1>2, <1>3, <1>4, <1>5 DEF Next

\* The invariant that the theorems below rest on: what the parser has built of
\* the argument it has read, where out.c and the child of the run are, and
\* where out.so and the output are while no child of a killed run is about.
THEOREM JitInvariant == Spec => [](JitInv /\ kills \in Nat)
<1>1. Init => JitInv /\ kills \in Nat
  <2>1. Init => kills \in Nat
    BY DEF Init
  <2> QED BY <2>1, InitInv
<1>2. (JitInv /\ kills \in Nat) /\ [Next]_vars => (JitInv /\ kills \in Nat)'
  BY NextInv, StepKills
<1> QED BY <1>1, <1>2, PTL DEF Spec

\* Every variable of the parser and of the runs keeps its type, for every
\* argument: what a function of the parser returns is NULL or a node it has
\* made, and the lexer does not move past the end of its tokens.
THEOREM JitTypeOK == Spec => []TypeOK
<1>1. JitInv => TypeOK
  <2>1. SUFFICES ASSUME JitInv PROVE TypeOK
    OBVIOUS
  <2>2. /\ tokens \in Seq(Lexemes) /\ i \in 1 .. Len(tokens) + 1
        /\ nodes \in Seq([op : Kinds, val : Nat, left : Nat, right : Nat])
        /\ ret \in {Called} \cup 0 .. Len(nodes) /\ noMemory \in BOOLEAN
    BY <2>1 DEF JitInv, ParserInv, ParserTypeOK, NodeSet
  <2>3. Typed
    BY <2>1 DEF JitInv
  <2>4. \A r \in Runs : child[r] \in ChildRecords
    BY <2>3 DEF Typed
  <2>5. \A r \in Runs : /\ child[r].program \in Programs
                        /\ child[r].at \in {"none", "forked", "gcc", "link", "success", "failure"}
    BY <2>4 DEF ChildRecords
  <2> QED BY <2>2, <2>3, <2>5 DEF TypeOK, Typed, Phases
<1> QED BY <1>1, JitInvariant, PTL

\* What parse returns for an argument of any length is the term the grammar in
\* parser.c's comments gives it, in a tree that holds every node made exactly
\* once; it returns NULL, and reads behind TBL, only where there is none, or
\* where memory is out.
THEOREM JitParsesGrammar == Spec => []ParsesGrammar
<1>1. JitInv => ParsesGrammar
  <2>1. SUFFICES ASSUME JitInv, ~noMemory
                 PROVE  /\ Misindexed => Meaning(tokens, Place) = Invalid
                        /\ Parsed =>
                             IF Tree = NULL THEN Meaning(tokens, Place) = Invalid
                             ELSE /\ TermOf(Tree) = Meaning(tokens, Place)
                                  /\ Parents(Tree) = {}
                                  /\ \A d \in DOMAIN nodes \ {Tree} : Cardinality(Parents(d)) = 1
    BY DEF ParsesGrammar
  <2>2. Misindexed => Meaning(tokens, Place) = Invalid
    BY <2>1, InvMisindexed DEF JitInv
  <2> QED BY <2>1, <2>2, InvParses DEF JitInv
<1> QED BY <1>1, JitInvariant, PTL

\* However runs, their children and kills interleave, a run prints the value of
\* its own argument, with the literals as six decimals write them, unless gcc
\* could not be executed or the child of a killed run is still at work in the
\* directory.
THEOREM JitPrintsOwn == Spec => []PrintsOwn
<1>1. JitInv => PrintsOwn
  BY DEF JitInv, Alone, PrintsOwn
<1> QED BY <1>1, JitInvariant, PTL

\* A run that ends by itself.
LEMMA EndLeaves ==
  ASSUME JitInv, Ending, ~Kill, ~orphaned
  PROVE  /\ Files' \subseteq found \cup (IF pc = "call" THEN {"so"} ELSE {})
         /\ pc # "parse" => "c" \notin Files'
<1>0. /\ Files' \subseteq {"c", "so"}
      /\ ("so" \in Files' <=> so' # NoFile) /\ ("c" \in Files' <=> cfile' # NoFile)
  BY DEF Files
<1>a. Alone /\ Source
  BY DEF JitInv
<1>1. CASE Rejected
  <2>1. pc = "parse" /\ cfile' = cfile /\ so' = so
    BY <1>1 DEF Rejected
  <2> QED BY <1>0, <1>a, <2>1 DEF Alone, Before, Older
<1>2. CASE Accepted /\ pc' = "ended"
  <2>1. pc = "parse" /\ cfile' = cfile /\ so' = so
    BY <1>2 DEF Accepted, Goes
  <2> QED BY <1>0, <1>a, <2>1 DEF Alone, Before, Older
<1>3. CASE NotForked
  <2>1. pc = "fork" /\ cfile' = NoFile /\ so' = so
    BY <1>3 DEF NotForked
  <2> QED BY <1>0, <1>a, <2>1 DEF Alone, Before, Older
<1>4. CASE Compiled /\ pc' = "ended"
  <2>1. pc = "wait" /\ cfile' = NoFile /\ so' = so /\ child[run].at # "success"
    BY <1>4 DEF Compiled, Goes, Success
  <2> QED BY <1>0, <1>a, <2>1 DEF Alone, Before, Older
<1>5. CASE NotLoaded
  <2>1. pc = "load" /\ cfile' = cfile /\ so' = NoFile
    BY <1>5 DEF NotLoaded
  <2> QED BY <1>0, <1>a, <2>1 DEF Source
<1>6. CASE NoSymbol
  <2>1. pc = "call" /\ cfile' = cfile /\ so' = so /\ loaded.code = <<>>
    BY <1>6 DEF NoSymbol
  <2>2. cfile = NoFile
    BY <1>a, <2>1 DEF Source
  <2> QED BY <1>0, <2>1, <2>2
<1>7. CASE Done
  <2>1. pc = "done" /\ cfile' = cfile /\ so' = NoFile
    BY <1>7 DEF Done
  <2> QED BY <1>0, <1>a, <2>1 DEF Source
<1>8. CASE Overread
  <2>1. pc = "parse" /\ cfile' = cfile /\ so' = so
    BY <1>8 DEF Overread
  <2> QED BY <1>0, <1>a, <2>1 DEF Alone, Before, Older
<1> QED BY <1>1, <1>2, <1>3, <1>4, <1>5, <1>6, <1>7, <1>8 DEF Ending

\* A run ends by one of those actions, or is killed.
LEMMA StepEnds ==
  ASSUME JitInv, Next, pc # "ended", pc' = "ended"
  PROVE  Ending
<1>1. CASE Kill
  BY <1>1 DEF Ending
<1>2. CASE Main
  <2>1. ~Parsing /\ ~Generated /\ ~Forked /\ ~Loaded /\ ~Evaluated
    BY DEF Parsing, Generated, Forked, Loaded, Evaluated, Goes, jitVars
  <2> QED BY <1>2, <2>1 DEF Main, Ending
<1>3. ASSUME NEW r \in Runs, ChildStep(r) PROVE FALSE
  BY <1>3 DEF ChildStep, Exec, NoExec, ReadSource, Linked, NotLinked, Moves
<1> QED BY <1>1, <1>2, <1>3 DEF Next

\* A run that ends by itself leaves no file that it did not find, but for the
\* out.so of an empty out.c, and no out.c if it got as far as to write one.
THEOREM JitCleansUp == Spec => CleansUp
<1>1. (JitInv /\ kills \in Nat) /\ [Next]_vars =>
        [pc # "ended" /\ pc' = "ended" /\ kills' = kills /\ ~orphaned =>
           /\ Files' \subseteq found \cup (IF pc = "call" THEN {"so"} ELSE {})
           /\ pc \notin {"parse"} => "c" \notin Files']_vars
  <2>1. SUFFICES ASSUME JitInv, kills \in Nat, Next, pc # "ended", pc' = "ended",
                        kills' = kills, ~orphaned
                 PROVE  /\ Files' \subseteq found \cup (IF pc = "call" THEN {"so"} ELSE {})
                        /\ pc # "parse" => "c" \notin Files'
    OBVIOUS
  <2>2. ~Kill
    BY <2>1 DEF Kill
  <2>3. Ending
    BY <2>1, StepEnds
  <2> QED BY <2>1, <2>2, <2>3, EndLeaves
<1> QED BY <1>1, JitInvariant, PTL DEF Spec, CleansUp

-----------------------------------------------------------------------------
(* p5: the monitors.                                                       *)

\* A reduced counter may be subtracted in place of the counter.
LEMMA ModSub ==
  ASSUME NEW n \in Nat \ {0}, NEW x \in Int, NEW y \in Int
  PROVE  (x - (y % n)) % n = (x - y) % n
<1> DEFINE b == y % n
           q == y \div n
           d == x - y
           a == d % n
           p == d \div n
<1>1. b \in 0 .. n - 1 /\ q \in Int /\ y = n * q + b
  BY ModDef
<1>2. d \in Int
  OBVIOUS
<1> HIDE DEF d
<1>3. a \in 0 .. n - 1 /\ p \in Int /\ d = n * p + a
  BY <1>2, ModDef
<1> HIDE DEF a, b, p, q
<1>4. x - b = n * (p + q) + a
  <2>1. x = d + y
    BY DEF d
  <2>2. x - b = (n * p + a) + n * q
    BY <1>1, <1>3, <2>1
  <2>3. n * (p + q) = n * p + n * q
    BY <1>1, <1>3
  <2> QED BY <1>1, <1>3, <2>2, <2>3
<1> DEFINE s == p + q
           z == x - b
<1>5. s \in Int /\ z \in Int /\ z = n * s + a
  BY <1>1, <1>3, <1>4
<1> HIDE DEF s, z
<1>6. z % n = a
  BY <1>3, <1>5, ModIs
<1>7. z = x - (y % n) /\ a = (x - y) % n
  BY DEF a, b, d, z
<1> QED BY <1>6, <1>7, Zenon

\* The unsigned difference is the residue of the true one.
LEMMA DifferenceIs ==
  ASSUME NEW x \in Int, NEW y \in Int
  PROVE  Difference(x % Width, y % Width) = (x - y) % Width
<1>1. Width \in Nat \ {0}
  BY MonitorAssumption
<1> DEFINE b == y % Width
<1>2. b \in Int
  BY <1>1, ModDef
<1>3. (x - b) % Width = (x - y) % Width
  BY <1>1, ModSub
<1> HIDE DEF b
<1>4. -b \in Int /\ x + (-b) = x - b
  BY <1>2
<1>5. ((x % Width) + (-b)) % Width = (x + (-b)) % Width
  BY <1>1, <1>4, ModAdd
<1>6. (x % Width) + (-b) = (x % Width) - b
  BY <1>1, <1>2, ModDef
<1>7. Difference(x % Width, b) = ((x % Width) - b) % Width
  BY DEF Difference
<1> QED BY <1>3, <1>4, <1>5, <1>6, <1>7 DEF b

\* The static variables are the residues of the counters read last, the
\* quotient that of the interval, and the files open fit the place in the loop.
Sampled ==
  /\ idle_ = before.idle % Width
  /\ sum_ = before.total % Width
  /\ util.idle = interval.idle % Width
  /\ util.total = interval.total % Width

InRound == place \in {"stat", "memory", "second", "third", "sleep"}
FilesFit ==
  /\ place \in {"start", "test"} => open < MaxFiles
  /\ InRound => open > 0

MonitorInv == MonitorTypeOK /\ Sampled /\ FilesFit

LEMMA MonitorConstants ==
  Width \in Nat \ {0} /\ MaxTicks \in Nat /\ MaxFiles \in Nat /\ MaxFiles >= 2
  BY MonitorAssumption

LEMMA MonitorInitially == MonitorInit => MonitorInv
<1> SUFFICES ASSUME MonitorInit PROVE MonitorInv
  OBVIOUS
<1>1. 0 % Width = 0 /\ 0 \in 0 .. Width - 1
  <2>1. 0 \in 0 .. Width - 1
    BY MonitorConstants
  <2> QED BY <2>1, MonitorConstants, ModSmall
<1>2. /\ util = Nothing /\ before = Nothing /\ interval = Nothing
      /\ Nothing \in Counters /\ Nothing.idle = 0 /\ Nothing.total = 0
  BY DEF MonitorInit, Nothing, Counters
<1>3. Sampled
  BY <1>1, <1>2 DEF MonitorInit, Sampled
<1>4. MonitorTypeOK
  <2>1. open \in 0 .. MaxFiles
    BY MonitorConstants DEF MonitorInit
  <2>2. sum_ \in 0 .. Width - 1 /\ idle_ \in 0 .. Width - 1
    BY <1>1 DEF MonitorInit
  <2>3. util \in Counters /\ before \in Counters /\ interval \in Counters
    BY <1>2
  <2> QED BY <2>1, <2>2, <2>3 DEF MonitorInit, MonitorTypeOK, Stopped
<1>5. FilesFit
  BY MonitorConstants DEF MonitorInit, FilesFit, InRound
<1> QED BY <1>3, <1>4, <1>5 DEF MonitorInv

\* A measurement that reads the counters.
LEMMA SampleInductive ==
  ASSUME MonitorInv, NEW idle \in Int, NEW total \in Int, cpu_util(idle, total)
  PROVE  /\ Sampled'
         /\ sum_' \in 0 .. Width - 1 /\ idle_' \in 0 .. Width - 1
         /\ util' \in Counters /\ before' \in Counters /\ interval' \in Counters
<1>1. before.idle \in Int /\ before.total \in Int
  BY DEF MonitorInv, MonitorTypeOK, Counters
<1>2. /\ util'.idle = (idle - before.idle) % Width
      /\ util'.total = (total - before.total) % Width
  BY <1>1, DifferenceIs DEF cpu_util, MonitorInv, Sampled
<1>3. /\ interval' = [idle |-> idle - before.idle, total |-> total - before.total]
      /\ before' = [idle |-> idle, total |-> total]
      /\ sum_' = total % Width /\ idle_' = idle % Width
      /\ util' = [idle |-> util'.idle, total |-> util'.total]
  BY DEF cpu_util
<1>4. ASSUME NEW n \in Int PROVE n % Width \in 0 .. Width - 1
  BY MonitorConstants, ModDef
<1>5. idle - before.idle \in Int /\ total - before.total \in Int
  BY <1>1
<1>6. util'.idle \in Int /\ util'.total \in Int
  BY <1>2, <1>4, <1>5
<1>7. util' \in Counters /\ before' \in Counters /\ interval' \in Counters
  BY <1>3, <1>5, <1>6 DEF Counters
<1> QED BY <1>2, <1>3, <1>4, <1>7 DEF Sampled

LEMMA MonitorInductive == MonitorInv /\ [MonitorNext]_monitorVars => MonitorInv'
<1> SUFFICES ASSUME MonitorInv, [MonitorNext]_monitorVars PROVE MonitorInv'
  OBVIOUS
<1>0. /\ open \in Nat /\ open <= MaxFiles
      /\ MaxFiles \in Nat /\ MaxFiles >= 2
  BY MonitorConstants DEF MonitorInv, MonitorTypeOK
<1> USE DEF MonitorInv, MonitorTypeOK, FilesFit, InRound, Stopped, Goto
<1>1. ASSUME UNCHANGED stats PROVE Sampled'
  BY <1>1 DEF Sampled, stats
<1>2. CASE Install \/ End \/ Interrupt
  BY <1>0, <1>1, <1>2 DEF Install, End, Interrupt, stats
<1>3. CASE OpenStat
  BY <1>0, <1>1, <1>3 DEF OpenStat, MayOpen, stats
<1>4. CASE Sleep
  BY <1>0, <1>1, <1>4 DEF Sleep, stats
<1>5. CASE ReadStat
  <2>1. CASE UNCHANGED stats
    BY <1>0, <1>1, <1>5, <2>1 DEF ReadStat, stats
  <2>2. CASE \E idle, busy \in 0 .. MaxTicks : cpu_util(idle, idle + busy)
    <3>1. PICK idle \in Int, total \in Int : cpu_util(idle, total)
      <4>1. PICK idle \in 0 .. MaxTicks, busy \in 0 .. MaxTicks :
              cpu_util(idle, idle + busy)
        BY <2>2
      <4>2. idle \in Int /\ idle + busy \in Int
        BY <4>1
      <4> QED BY <4>1, <4>2
    <3>2. /\ Sampled'
          /\ sum_' \in 0 .. Width - 1 /\ idle_' \in 0 .. Width - 1
          /\ util' \in Counters /\ before' \in Counters /\ interval' \in Counters
      BY <3>1, SampleInductive
    <3>3. /\ place = "stat" /\ place' \in {"memory", "sleep"}
          /\ UNCHANGED <<program, done, handler, open, memory>>
      BY <1>5 DEF ReadStat
    <3> QED BY <1>0, <3>2, <3>3
  <2> QED BY <1>5, <2>1, <2>2 DEF ReadStat
<1>6. CASE MemoryReads \/ MemoryEmpty \/ MemoryRefused
  BY <1>0, <1>1, <1>6 DEF MemoryReads, MemoryEmpty, MemoryRefused, MayOpen,
                          LeftOpen, AfterMemory, stats
<1>7. CASE Probes
  BY <1>0, <1>1, <1>7 DEF Probes, packets_util, load_util, get_tcp_connections,
                          get_udp_connections, stats
<1>8. CASE UNCHANGED monitorVars
  BY <1>0, <1>1, <1>8 DEF monitorVars, stats
<1> QED BY <1>2, <1>3, <1>4, <1>5, <1>6, <1>7, <1>8 DEF MonitorNext, MonitorMain, Measure

THEOREM MonitorInvariant == MonitorSpec => []MonitorInv
  BY MonitorInitially, MonitorInductive, PTL DEF MonitorSpec

\* Every variable of the monitors keeps its type; no more files are open than
\* a process may have.
THEOREM MonitorTypeCorrect == MonitorSpec => []MonitorTypeOK
<1>1. MonitorInv => MonitorTypeOK
  BY DEF MonitorInv
<1> QED BY <1>1, MonitorInvariant, PTL

\* A residue is the number exactly when the number is one.
LEMMA FitsIs == ASSUME NEW n \in Int PROVE n % Width = n <=> Fits(n)
<1>1. n % Width \in 0 .. Width - 1
  BY MonitorConstants, ModDef
<1> QED BY <1>1, MonitorConstants, ModSmall DEF Fits

\* The share printed is that of the interval exactly when neither idle time nor
\* all time has gone back or run past a whole turn of an unsigned.
THEOREM ShareCorrect == MonitorSpec => []ShareExact
<1>1. MonitorInv => ShareExact
  <2> SUFFICES ASSUME MonitorInv PROVE ShareExact
    OBVIOUS
  <2>1. /\ util \in Counters /\ interval \in Counters
        /\ util.idle = interval.idle % Width
        /\ util.total = interval.total % Width
    BY DEF MonitorInv, MonitorTypeOK, Sampled
  <2>2. /\ interval.idle \in Int /\ interval.total \in Int
        /\ util = interval <=> /\ util.idle = interval.idle
                               /\ util.total = interval.total
    BY <2>1 DEF Counters
  <2> QED BY <2>1, <2>2, FitsIs DEF ShareExact
<1> QED BY <1>1, MonitorInvariant, PTL

\* No monitor, not even save.c that leaves a file open every round, comes to
\* hold so many that it cannot open /proc/stat.
THEOREM StatOpensAlways == MonitorSpec => []StatOpens
<1>1. MonitorInv => StatOpens
  BY DEF MonitorInv, FilesFit, StatOpens, MayOpen
<1> QED BY <1>1, MonitorInvariant, PTL
=============================================================================
