----------------------------- MODULE ShellProofs -----------------------------
(***************************************************************************)
(* The line editor: cursor and length stay those of the string in the      *)
(* slot, the saved terminal settings stay whole while the history has a    *)
(* slot left, quit ends the shell until then, and until a line has filled  *)
(* its slot the shell is the editor of LineEditor.  First the strings in   *)
(* memory, then the places of the slots, then one lemma for all edits of a *)
(* line, and the keys one after the other; last, the editor.               *)
(***************************************************************************)
EXTENDS Shell, ModArith, SequenceTheorems, TLAPS

Cells == Chars \cup {NUL} \cup Range(Settings)
Mem == [0 .. Size - 1 -> Cells]
Letters == (Chars \cup Range(Settings)) \ {NUL}

LEMMA Constants ==
  /\ H \in Nat \ {0} /\ N \in Nat \ {0}
  /\ Len(Settings) \in Nat /\ 1 <= Len(Settings) /\ Len(Settings) < N
  /\ Settings \in Seq(Range(Settings))
  /\ Space \in Letters /\ Space \in Cells /\ NUL \in Cells
  /\ Signs \subseteq Letters /\ Letters \subseteq Cells /\ NUL \notin Letters
<1>1. /\ H \in Nat \ {0} /\ N \in Nat \ {0}
      /\ Len(Settings) \in Nat /\ 1 <= Len(Settings) /\ Len(Settings) < N
      /\ Settings \in Seq(Range(Settings)) /\ NUL \notin Signs
  BY ShellAssumption
<1>2. Space # NUL
  BY DEF Space, NUL
<1> QED BY <1>1, <1>2 DEF Letters, Cells, Chars

-----------------------------------------------------------------------------
(***************************************************************************)
(* The places of the slots.                                                *)
(***************************************************************************)
LEMMA Layout ==
  /\ Size \in Nat /\ Size = Slot(H) + N + 1
  /\ \A k \in Nat : Slot(k) \in Nat /\ Slot(k + 1) = Slot(k) + N
  /\ \A k, l \in Nat : k < l => Slot(k) + N <= Slot(l)
<1>1. N \in Nat \ {0} /\ H \in Nat
  BY Constants
<1>2. \A k \in Nat : k * N \in Nat /\ (k + 1) * N = k * N + N
  BY <1>1
<1>3. ASSUME NEW k \in Nat, NEW l \in Nat, k < l PROVE k * N + N <= l * N
  <2>1. PICK d \in Nat : l = k + 1 + d
    <3>1. l - k - 1 \in Nat /\ l = k + 1 + (l - k - 1)
      BY <1>3
    <3> QED BY <3>1
  <2>2. l * N = k * N + N + d * N
    BY <1>1, <2>1
  <2>3. d * N \in Nat /\ k * N \in Nat
    BY <1>1
  <2> QED BY <1>1, <2>2, <2>3
<1> QED BY <1>1, <1>2, <1>3 DEF Slot, Size

-----------------------------------------------------------------------------
(***************************************************************************)
(* Strings.  IsStr: there is a string of length k at p.                    *)
(***************************************************************************)
IsStr(m, p, k) ==
  /\ k \in Nat /\ p \in Nat /\ p + k < Size
  /\ m[p + k] = NUL
  /\ \A x \in p .. p + k - 1 : m[x] # NUL

LEMMA StrlenIs ==
  ASSUME NEW m, NEW p, NEW k, IsStr(m, p, k)
  PROVE  strlen(m, p) = k
<1> DEFINE S == {x \in 0 .. Size - p - 1 : m[p + x] = NUL}
<1>0. Size \in Nat
  BY Layout
<1>1. k \in S /\ \A x \in S : k <= x
  <2>1. k \in S
    BY <1>0 DEF IsStr
  <2>2. ASSUME NEW x \in S, x < k PROVE FALSE
    <3>1. p + x \in p .. p + k - 1
      BY <1>0, <2>2 DEF IsStr
    <3> QED BY <3>1, <2>2 DEF IsStr
  <2> QED BY <1>0, <2>1, <2>2 DEF IsStr
<1>2. S \subseteq Int
  OBVIOUS
<1> HIDE DEF S
<1>3. \A a \in S : (\A x \in S : a <= x) => a = k
  BY <1>1, <1>2
<1>4. Min(S) = k
  BY <1>1, <1>3 DEF Min
<1> QED BY <1>4 DEF strlen, S

LEMMA StrlenExists ==
  ASSUME NEW m, NEW p \in Nat, NEW e \in Nat, p <= e, e < Size, m[e] = NUL
  PROVE  /\ IsStr(m, p, strlen(m, p))
         /\ strlen(m, p) \in Nat /\ p + strlen(m, p) <= e
<1> DEFINE S == {x \in Nat : p + x < Size /\ m[p + x] = NUL}
<1>0. Size \in Nat
  BY Layout
<1>1. e - p \in S
  <2>1. e - p \in Nat /\ p + (e - p) = e
    OBVIOUS
  <2> QED BY <2>1
<1>2. PICK k \in S : \A x \in S : k <= x
  BY <1>1, LeastNatural
<1>3. IsStr(m, p, k)
  <2>1. ASSUME NEW x \in p .. p + k - 1, m[x] = NUL PROVE FALSE
    <3>1. x - p \in Nat /\ p + (x - p) = x /\ x < Size /\ x - p < k
      BY <1>0, <1>2
    <3>2. x - p \in S
      BY <3>1, <2>1
    <3> QED BY <1>2, <3>1, <3>2
  <2> QED BY <1>2, <2>1 DEF IsStr
<1>4. strlen(m, p) = k
  BY <1>3, StrlenIs
<1> QED BY <1>0, <1>1, <1>2, <1>3, <1>4

LEMMA StrIs ==
  ASSUME NEW m \in Mem, NEW p, NEW k, IsStr(m, p, k)
  PROVE  /\ Str(m, p) \in Seq(Letters) /\ Len(Str(m, p)) = k
         /\ \A x \in 1 .. k : Str(m, p)[x] = m[p + x - 1]
<1>1. Str(m, p) = [x \in 1 .. k |-> m[p + x - 1]]
  BY StrlenIs DEF Str, Bytes
<1>2. ASSUME NEW x \in 1 .. k PROVE m[p + x - 1] \in Letters
  <2>1. p + x - 1 \in p .. p + k - 1 /\ p + x - 1 \in 0 .. Size - 1
    BY Layout DEF IsStr
  <2>2. m[p + x - 1] \in Cells /\ m[p + x - 1] # NUL
    BY <2>1 DEF IsStr, Mem
  <2> QED BY <2>2 DEF Cells, Letters
<1>3. k \in Nat
  BY DEF IsStr
<1> QED BY <1>1, <1>2, <1>3

LEMMA StoreStrIs ==
  ASSUME NEW m \in Mem, NEW p \in Nat, NEW s \in Seq(Letters), p + Len(s) < Size
  PROVE  LET r == StoreStr(m, p, s)
         IN  /\ r \in Mem /\ IsStr(r, p, Len(s))
             /\ \A a \in 0 .. Size - 1 :
                  r[a] = IF a \in p .. p + Len(s) - 1 THEN s[a - p + 1]
                         ELSE IF a = p + Len(s) THEN NUL ELSE m[a]
<1> DEFINE r == StoreStr(m, p, s)  t == Append(s, NUL)
<1>0. Size \in Nat /\ Len(s) \in Nat /\ NUL \in Cells /\ Letters \subseteq Cells /\ NUL \notin Letters
  <2>1. Size \in Nat
    BY Layout
  <2>2. NUL \in Cells /\ Letters \subseteq Cells /\ NUL \notin Letters
    BY Constants
  <2> QED BY <2>1, <2>2
<1>1. /\ Len(t) = Len(s) + 1 /\ t[Len(s) + 1] = NUL
      /\ \A x \in 1 .. Len(s) : t[x] = s[x] /\ s[x] \in Letters
  OBVIOUS
<1>2. DOMAIN m = 0 .. Size - 1 /\ \A a \in 0 .. Size - 1 : m[a] \in Cells
  BY DEF Mem
<1>3. r = [a \in 0 .. Size - 1 |-> IF a \in p .. p + Len(t) - 1 THEN t[a - p + 1] ELSE m[a]]
  BY <1>2 DEF StoreStr, Store
<1> HIDE DEF r, t
<1>4. ASSUME NEW a \in 0 .. Size - 1
      PROVE  r[a] = IF a \in p .. p + Len(s) - 1 THEN s[a - p + 1]
                    ELSE IF a = p + Len(s) THEN NUL ELSE m[a]
  <2>1. CASE a \in p .. p + Len(s) - 1
    <3>1. a - p + 1 \in 1 .. Len(s) /\ a \in p .. p + Len(t) - 1
      BY <1>0, <1>1, <2>1
    <3> QED BY <1>1, <1>3, <2>1, <3>1
  <2>2. CASE a = p + Len(s)
    <3>1. a - p + 1 = Len(s) + 1 /\ a \in p .. p + Len(t) - 1 /\ a \notin p .. p + Len(s) - 1
      BY <1>0, <1>1, <2>2
    <3> QED BY <1>1, <1>3, <2>2, <3>1
  <2>3. CASE a \notin p .. p + Len(s)
    <3>1. a \notin p .. p + Len(t) - 1 /\ a \notin p .. p + Len(s) - 1 /\ a # p + Len(s)
      BY <1>0, <1>1, <2>3
    <3> QED BY <1>3, <3>1
  <2> QED BY <1>0, <2>1, <2>2, <2>3
<1>5. r \in Mem
  <2>1. ASSUME NEW a \in 0 .. Size - 1 PROVE r[a] \in Cells
    <3>1. CASE a \in p .. p + Len(s) - 1
      <4>1. a - p + 1 \in 1 .. Len(s)
        BY <1>0, <3>1
      <4> QED BY <1>0, <1>1, <1>4, <3>1, <4>1
    <3> QED BY <1>0, <1>2, <1>4, <3>1
  <2> QED BY <1>3, <2>1 DEF Mem
<1>6. IsStr(r, p, Len(s))
  <2>1. p + Len(s) \in 0 .. Size - 1 /\ p + Len(s) \notin p .. p + Len(s) - 1
    BY <1>0
  <2>2. r[p + Len(s)] = NUL
    BY <1>4, <2>1
  <2>3. ASSUME NEW x \in p .. p + Len(s) - 1 PROVE r[x] # NUL
    <3>1. x \in 0 .. Size - 1 /\ x - p + 1 \in 1 .. Len(s)
      BY <1>0
    <3> QED BY <1>0, <1>1, <1>4, <3>1
  <2> QED BY <1>0, <2>2, <2>3 DEF IsStr
<1> QED BY <1>4, <1>5, <1>6 DEF r

\* A NUL is the empty string.
LEMMA NulIs ==
  ASSUME NEW m \in Mem, NEW p \in 0 .. Size - 1
  PROVE  [m EXCEPT ![p] = NUL] = StoreStr(m, p, <<>>)
<1>1. Append(<<>>, NUL) = <<NUL>> /\ Len(<<NUL>>) = 1
  OBVIOUS
<1>2. DOMAIN m = 0 .. Size - 1 /\ Size \in Nat /\ p \in Int
  BY Layout DEF Mem
<1>3. StoreStr(m, p, <<>>)
        = [a \in DOMAIN m |-> IF a \in p .. p + 1 - 1 THEN <<NUL>>[a - p + 1] ELSE m[a]]
  BY <1>1 DEF StoreStr, Store
<1>4. ASSUME NEW a \in DOMAIN m
      PROVE  (IF a \in p .. p + 1 - 1 THEN <<NUL>>[a - p + 1] ELSE m[a])
               = (IF a = p THEN NUL ELSE m[a])
  <2>1. a \in p .. p + 1 - 1 <=> a = p
    BY <1>2
  <2>2. <<NUL>>[p - p + 1] = NUL
    BY <1>2
  <2> QED BY <2>1, <2>2
<1>5. StoreStr(m, p, <<>>) = [a \in DOMAIN m |-> IF a = p THEN NUL ELSE m[a]]
  BY <1>3, <1>4
<1> QED BY <1>5

LEMMA ConcatIs ==
  ASSUME NEW S, NEW v \in Seq(S), NEW u \in Seq(S)
  PROVE  /\ v \o u \in Seq(S) /\ Len(v \o u) = Len(v) + Len(u)
         /\ \A x \in 1 .. Len(v) + Len(u) : (v \o u)[x] = IF x <= Len(v) THEN v[x] ELSE u[x - Len(v)]
  OBVIOUS

\* The inner characters of a string have a first and a last one.
LEMMA Ends ==
  ASSUME NEW s \in Seq(Letters), Inner(s) # {}
  PROVE  /\ Min(Inner(s)) \in Inner(s) /\ \A x \in Inner(s) : Min(Inner(s)) <= x
         /\ Max(Inner(s)) \in Inner(s) /\ \A x \in Inner(s) : x <= Max(Inner(s))
<1> DEFINE S == Inner(s)  T == {Len(s) - x : x \in S}
<1>1. S \subseteq 1 .. Len(s) /\ Len(s) \in Nat
  BY DEF Inner
<1> HIDE DEF S
<1>2. PICK a \in S : \A x \in S : a <= x
  <2>1. S \subseteq Nat /\ S # {}
    BY <1>1 DEF S
  <2> QED BY <2>1, LeastNatural
<1>3. PICK b \in S : \A x \in S : b >= x
  <2>1. T \subseteq Nat /\ T # {}
    <3>1. S # {}
      BY DEF S
    <3> QED BY <1>1, <3>1
  <2>2. PICK d \in T : \A y \in T : d <= y
    <3> HIDE DEF T
    <3> QED BY <2>1, LeastNatural
  <2>3. PICK b \in S : d = Len(s) - b
    BY <2>2
  <2>4. ASSUME NEW x \in S PROVE b >= x
    <3>1. Len(s) - b <= Len(s) - x
      BY <2>2, <2>3
    <3> QED BY <1>1, <2>3, <3>1
  <2> QED BY <2>3, <2>4
<1>4. Min(S) \in S /\ \A x \in S : Min(S) <= x
  BY <1>2 DEF Min
<1>5. Max(S) \in S /\ \A x \in S : Max(S) >= x
  BY <1>3 DEF Max
<1> QED BY <1>1, <1>4, <1>5 DEF S

LEMMA TrimmedIs ==
  ASSUME NEW s \in Seq(Letters)
  PROVE  /\ Trimmed(s) \in Seq(Letters) /\ Len(Trimmed(s)) \in Nat
         /\ Len(Trimmed(s)) <= Len(s)
         /\ Trimmed(s) = <<>> => Inner(s) = {}
         /\ Trimmed(s) # <<>> => Trimmed(s)[Len(Trimmed(s))] # Space
<1>1. CASE Inner(s) = {}
  BY <1>1 DEF Trimmed
<1>2. CASE Inner(s) # {}
  <2> DEFINE a == Min(Inner(s))  b == Max(Inner(s))
  <2>1. a \in Inner(s) /\ b \in Inner(s) /\ a <= b
    BY <1>2, Ends
  <2>2. a \in 1 .. Len(s) /\ b \in 1 .. Len(s) /\ s[b] # Space
    BY <2>1 DEF Inner
  <2>3. Trimmed(s) = SubSeq(s, a, b)
    BY <1>2 DEF Trimmed
  <2> HIDE DEF a, b
  <2>4. /\ SubSeq(s, a, b) \in Seq(Letters) /\ Len(SubSeq(s, a, b)) = b - a + 1
        /\ SubSeq(s, a, b)[b - a + 1] = s[b]
    BY <2>1, <2>2
  <2> QED BY SMTT(30), <1>2, <2>1, <2>2, <2>3, <2>4
<1> QED BY <1>1, <1>2

-----------------------------------------------------------------------------
(***************************************************************************)
(* The invariant.  The string of the line ends at End at the latest, where *)
(* a NUL is that no edit takes away: at the start of the next slot, or     *)
(* behind the saved settings, or at the end of what a line in slot H uses. *)
(***************************************************************************)
EndOf(k) == IF k < H - 1 THEN Slot(k + 1)
            ELSE IF k = H - 1 THEN Slot(H) + Len(Settings) ELSE Slot(H) + N
End == EndOf(n_)

Fenced ==
  /\ memory[Slot(H) + N] = NUL
  /\ n_ < H => memory[Slot(H) + Len(Settings)] = NUL
  /\ \A k \in n_ + 1 .. H - 1 : memory[Slot(k)] = NUL

LineFits ==
  /\ buf + n <= End
  /\ ~spilled => n < N
  /\ n_ = H => spilled

Safe == n_ < H /\ (spilled => n_ < H - 1)
Saved(m) == Bytes(m, Slot(H), Len(Settings)) = Settings
SettingsSafe == pc = "edit" /\ Safe => Saved(memory)

AtStart == pc = "start" => tty = Settings /\ n_ = 0 /\ n = 0 /\ i = 0 /\ ~spilled

IInv ==
  /\ TypeOK /\ IsStr(memory, buf, n)
  /\ Fenced /\ LineFits /\ SettingsSafe /\ AtStart /\ TerminalRestored

LEMMA PlacesOf ==
  ASSUME NEW k \in 0 .. H
  PROVE  /\ Slot(k) \in Nat /\ Slot(H) \in Nat /\ EndOf(k) \in Nat
         /\ Size \in Nat /\ Size = Slot(H) + N + 1
         /\ Slot(k) + N <= EndOf(k) /\ EndOf(k) < Size
         /\ k < H - 1 => EndOf(k) = Slot(k) + N /\ EndOf(k) + N <= Slot(H)
         /\ k = H - 1 => Slot(k) + N = Slot(H) /\ EndOf(k) = Slot(H) + Len(Settings)
         /\ k = H => EndOf(k) = Slot(k) + N
<1>1. H \in Nat \ {0} /\ N \in Nat \ {0} /\ Len(Settings) \in Nat /\ Len(Settings) < N
  BY Constants
<1>2. Slot(H) \in Nat /\ Slot(k) \in Nat /\ Slot(k + 1) = Slot(k) + N
  <2>1. k \in Nat /\ H \in Nat
    BY <1>1
  <2> QED BY <2>1, Layout
<1>3. Size \in Nat /\ Size = Slot(H) + N + 1
  BY Layout
<1>4. k < H - 1 => Slot(k + 1) + N <= Slot(H)
  <2>1. k + 1 \in Nat /\ (k < H - 1 => k + 1 < H)
    BY <1>1
  <2> QED BY <1>1, <2>1, Layout
<1>5. k = H - 1 => k + 1 = H
  BY <1>1
<1> QED BY SMTT(30), <1>1, <1>2, <1>3, <1>4, <1>5 DEF EndOf

LEMMA Places ==
  ASSUME n_ \in 0 .. H
  PROVE  /\ buf \in Nat /\ Slot(H) \in Nat /\ End \in Nat
         /\ Size \in Nat /\ Size = Slot(H) + N + 1
         /\ buf + N <= End /\ End < Size
         /\ n_ < H - 1 => End = buf + N /\ End + N <= Slot(H)
         /\ n_ = H - 1 => buf + N = Slot(H) /\ End = Slot(H) + Len(Settings)
         /\ n_ = H => buf = Slot(H) /\ End = buf + N
  BY PlacesOf DEF End, buf

\* What a NUL at End is good for.
LEMMA EndIsNul ==
  ASSUME n_ \in 0 .. H, Fenced
  PROVE  memory[End] = NUL
<1>1. H \in Nat \ {0}
  BY Constants
<1>2. CASE n_ < H - 1
  <2>1. n_ + 1 \in n_ + 1 .. H - 1
    BY <1>1, <1>2
  <2> QED BY <1>2, <2>1 DEF Fenced, End, EndOf
<1> QED BY <1>1, <1>2 DEF Fenced, End, EndOf

LEMMA Typed ==
  ASSUME TypeOK
  PROVE  memory \in Mem /\ n_ \in 0 .. H /\ n_ \in Nat /\ j \in 0 .. n_
  BY Constants DEF TypeOK, Mem, Cells

\* The settings are where they were, if the bytes from Slot(H) on are.
LEMMA SavedStays ==
  ASSUME NEW m1, NEW m2, Saved(m1),
         \A a \in Slot(H) .. Size - 1 : m2[a] = m1[a]
  PROVE  Saved(m2)
<1>1. Slot(H) \in Nat /\ Size = Slot(H) + N + 1
  BY Layout, Constants
<1>2. ASSUME NEW x \in 1 .. Len(Settings)
      PROVE  m2[Slot(H) + x - 1] = m1[Slot(H) + x - 1]
  <2>1. Slot(H) + x - 1 \in Slot(H) .. Size - 1
    BY <1>1, Constants
  <2> QED BY <2>1
<1> QED BY <1>2 DEF Saved, Bytes

\* The NULs that bound the line stay.
LEMMA FenceStays ==
  ASSUME IInv, \A a \in End .. Size - 1 : memory'[a] = memory[a] \/ memory'[a] = NUL
  PROVE  /\ memory'[End] = NUL /\ memory'[Slot(H) + N] = NUL
         /\ n_ < H => memory'[Slot(H) + Len(Settings)] = NUL
         /\ \A k \in n_ + 1 .. H - 1 : memory'[Slot(k)] = NUL
<1>1. /\ End \in Nat /\ Slot(H) \in Nat /\ Size = Slot(H) + N + 1 /\ End < Size
      /\ n_ < H - 1 => End + N <= Slot(H)
      /\ n_ = H - 1 => End = Slot(H) + Len(Settings)
      /\ n_ = H => End = Slot(H) + N
  BY Places, Typed DEF IInv
<1>2. /\ H \in Nat \ {0} /\ N \in Nat \ {0} /\ n_ \in 0 .. H
      /\ Len(Settings) \in Nat /\ Len(Settings) < N
  BY Constants, Typed DEF IInv
<1>3. ASSUME NEW a \in End .. Size - 1, memory[a] = NUL PROVE memory'[a] = NUL
  BY <1>3
<1>4. Fenced /\ memory[End] = NUL
  BY <1>2, EndIsNul DEF IInv
<1>5. End \in End .. Size - 1 /\ Slot(H) + N \in End .. Size - 1
  BY <1>1, <1>2
<1>6. n_ < H => Slot(H) + Len(Settings) \in End .. Size - 1
  BY <1>1, <1>2
<1>7. ASSUME NEW k \in n_ + 1 .. H - 1 PROVE Slot(k) \in End .. Size - 1
  <2>1. n_ < H - 1 /\ k \in Nat /\ k < H /\ (k = n_ + 1 \/ n_ + 1 < k)
    BY <1>2
  <2>2. n_ + 1 \in Nat /\ H \in Nat /\ N \in Nat
    BY <1>2
  <2>3. Slot(k) + N <= Slot(H) /\ Slot(k) \in Nat /\ Slot(n_ + 1) \in Nat
    BY <2>1, <2>2, Layout
  <2>4. n_ + 1 < k => Slot(n_ + 1) + N <= Slot(k)
    BY <2>1, <2>2, Layout
  <2>5. k = n_ + 1 => Slot(n_ + 1) = Slot(k)
    OBVIOUS
  <2>6. End = Slot(n_ + 1)
    BY <2>1 DEF End, EndOf
  <2>7. End <= Slot(k)
    BY <2>1, <2>2, <2>3, <2>4, <2>5, <2>6
  <2>8. Size = Slot(H) + N + 1 /\ Slot(H) \in Nat /\ End \in Nat
    BY <1>1
  <2> QED BY <2>2, <2>3, <2>7, <2>8
<1> QED BY <1>3, <1>4, <1>5, <1>6, <1>7 DEF Fenced

(***************************************************************************)
(* Every edit of the line: what it changes from End on is made NUL, and it *)
(* does not come to the settings but in a line that has filled its slot.   *)
(***************************************************************************)
LEMMA Edited ==
  ASSUME IInv, pc = "edit", UNCHANGED <<pc, n_, ran, tty>>,
         memory' \in Mem, IsStr(memory', buf, n'), i' \in 0 .. n', j' \in 0 .. n_,
         spilled' \in BOOLEAN, spilled => spilled', n' >= N => spilled',
         \A a \in End .. Size - 1 : memory'[a] = memory[a] \/ memory'[a] = NUL,
         Safe' => \A a \in Slot(H) .. Size - 1 : memory'[a] = memory[a]
  PROVE  IInv'
<1>1. /\ buf \in Nat /\ Slot(H) \in Nat /\ End \in Nat /\ Size \in Nat
      /\ Size = Slot(H) + N + 1 /\ buf + N <= End /\ End < Size
      /\ n_ < H - 1 => End + N <= Slot(H)
      /\ n_ = H - 1 => End = Slot(H) + Len(Settings)
      /\ n_ = H => End = Slot(H) + N
  BY Places, Typed DEF IInv
<1>2. buf' = buf /\ End' = End /\ n_' = n_
  BY DEF buf, End
<1>3. H \in Nat \ {0} /\ N \in Nat \ {0} /\ Len(Settings) \in Nat /\ Len(Settings) < N /\ n_ \in 0 .. H
  BY Constants, Typed DEF IInv
<1>4. /\ memory'[End] = NUL /\ memory'[Slot(H) + N] = NUL
      /\ n_ < H => memory'[Slot(H) + Len(Settings)] = NUL
      /\ \A k \in n_ + 1 .. H - 1 : memory'[Slot(k)] = NUL
  BY FenceStays
<1>5. Fenced'
  BY <1>2, <1>4 DEF Fenced
<1>6. LineFits'
  <2>1. memory'[End] = NUL
    BY <1>4
  <2>2. buf + n' <= End
    <3> SUFFICES ASSUME ~(buf + n' <= End) PROVE FALSE
      OBVIOUS
    <3>1. PICK d \in Nat : d = n'
      BY DEF IsStr
    <3>2. End \in buf .. buf + d - 1
      <4>1. buf \in Nat /\ End \in Nat /\ N \in Nat /\ buf + N <= End
        BY <1>1, <1>3
      <4>2. ~(buf + d <= End)
        BY <3>1
      <4> HIDE DEF buf, End
      <4> QED BY <4>1, <4>2
    <3> QED BY <2>1, <3>1, <3>2 DEF IsStr
  <2>3. n' \in Nat /\ (n_ = H => spilled)
    BY DEF IsStr, IInv, LineFits
  <2> QED BY <1>2, <1>3, <2>2, <2>3 DEF LineFits
<1>7. SettingsSafe'
  <2>1. Safe' => Safe
    BY <1>2 DEF Safe
  <2>2. Safe => Saved(memory)
    BY DEF IInv, SettingsSafe
  <2>3. Safe' => Saved(memory')
    BY <2>1, <2>2, SavedStays
  <2> QED BY <2>3 DEF SettingsSafe, Saved
<1>8. TypeOK'
  <2>1. n' = strlen(memory', buf)
    BY StrlenIs
  <2> QED BY <1>2, <2>1 DEF TypeOK, IInv, Mem, Cells
<1>9. AtStart' /\ TerminalRestored'
  BY DEF AtStart, TerminalRestored
<1> QED BY <1>2, <1>5, <1>6, <1>7, <1>8, <1>9 DEF IInv

-----------------------------------------------------------------------------
(***************************************************************************)
(* The keys.                                                               *)
(***************************************************************************)
LEMMA AtKey ==
  ASSUME IInv
  PROVE  /\ memory \in Mem /\ N \in Nat \ {0}
         /\ buf \in Nat /\ End \in Nat /\ Size \in Nat /\ Slot(H) \in Nat
         /\ buf + N <= End /\ End < Size
         /\ n \in Nat /\ i \in 0 .. n /\ buf + n <= End
         /\ n_ \in 0 .. H /\ j \in 0 .. n_ /\ spilled \in BOOLEAN
         /\ memory[buf + n] = NUL
         /\ \A x \in buf .. buf + n - 1 : memory[x] # NUL
<1>1. /\ memory \in Mem /\ n_ \in 0 .. H /\ j \in 0 .. n_
      /\ spilled \in BOOLEAN /\ i \in 0 .. n
  BY Typed DEF IInv, TypeOK
<1>2. /\ buf \in Nat /\ End \in Nat /\ Size \in Nat /\ Slot(H) \in Nat
      /\ buf + N <= End /\ End < Size
  BY <1>1, Places
<1> QED BY <1>1, <1>2, Constants DEF IInv, LineFits, IsStr

\* Before the history is full, and the last line has filled its slot, what is
\* edited lies before the settings.
LEMMA BeforeSettings ==
  ASSUME IInv, Safe
  PROVE  buf + n < Slot(H) /\ buf + N <= Slot(H)
<1>1. /\ buf \in Nat /\ Slot(H) \in Nat /\ End \in Nat /\ n \in Nat /\ N \in Nat \ {0}
      /\ buf + N <= End /\ buf + n <= End /\ n_ \in 0 .. H
  BY AtKey
<1>2. CASE n_ < H - 1
  <2>1. End + N <= Slot(H)
    BY <1>1, <1>2, Places
  <2> QED BY <1>1, <2>1
<1>3. CASE ~(n_ < H - 1)
  <2>1. n_ = H - 1 /\ ~spilled
    BY <1>1, <1>3, Constants DEF Safe
  <2>2. buf + N = Slot(H)
    BY <1>1, <2>1, Places
  <2>3. n < N
    BY <2>1 DEF IInv, LineFits
  <2> QED BY <1>1, <2>2, <2>3
<1> QED BY <1>2, <1>3

\* A string stored where what lies before it belongs to one, too.
LEMMA StoredBehind ==
  ASSUME NEW m \in Mem, NEW q \in Nat, NEW p \in Nat, q <= p,
         NEW s \in Seq(Letters), p + Len(s) < Size,
         \A x \in q .. p - 1 : m[x] # NUL
  PROVE  LET r == StoreStr(m, p, s)
         IN  /\ r \in Mem /\ IsStr(r, q, p - q + Len(s))
             /\ r[p + Len(s)] = NUL
             /\ \A a \in 0 .. Size - 1 : a \notin p .. p + Len(s) => r[a] = m[a]
<1> DEFINE r == StoreStr(m, p, s)
<1>0. Len(s) \in Nat /\ Size \in Nat
  BY Layout
<1>1. /\ r \in Mem /\ IsStr(r, p, Len(s))
      /\ \A a \in 0 .. Size - 1 :
           r[a] = IF a \in p .. p + Len(s) - 1 THEN s[a - p + 1]
                  ELSE IF a = p + Len(s) THEN NUL ELSE m[a]
  BY StoreStrIs
<1> HIDE DEF r
<1>2. ASSUME NEW a \in 0 .. Size - 1, a \notin p .. p + Len(s) PROVE r[a] = m[a]
  <2>1. a \notin p .. p + Len(s) - 1 /\ a # p + Len(s)
    BY <1>0, <1>2
  <2> QED BY <1>1, <2>1
<1>3. r[p + Len(s)] = NUL
  BY <1>1 DEF IsStr
<1>4. IsStr(r, q, p - q + Len(s))
  <2>1. ASSUME NEW x \in q .. p + Len(s) - 1 PROVE r[x] # NUL
    <3>1. CASE x < p
      <4>1. x \in q .. p - 1 /\ x \in 0 .. Size - 1 /\ x \notin p .. p + Len(s)
        BY <1>0, <3>1
      <4> QED BY <1>2, <4>1
    <3>2. CASE ~(x < p)
      <4>1. x \in p .. p + Len(s) - 1
        BY <1>0, <3>2
      <4> QED BY <1>1, <4>1 DEF IsStr
    <3> QED BY <3>1, <3>2
  <2>2. /\ p - q + Len(s) \in Nat /\ q + (p - q + Len(s)) = p + Len(s)
    BY <1>0
  <2> QED BY <1>3, <2>1, <2>2 DEF IsStr
<1> QED BY <1>1, <1>2, <1>3, <1>4 DEF r

\* The rest of the line from its k-th character on.
LEMMA RestIs ==
  ASSUME IInv, NEW k \in 0 .. n
  PROVE  /\ Str(memory, buf + k) \in Seq(Letters)
         /\ Len(Str(memory, buf + k)) = n - k
         /\ \A x \in 1 .. n - k : Str(memory, buf + k)[x] = memory[buf + k + x - 1]
<1>1. /\ memory \in Mem /\ buf \in Nat /\ n \in Nat /\ memory[buf + n] = NUL
      /\ \A x \in buf .. buf + n - 1 : memory[x] # NUL
      /\ buf + n <= End /\ End < Size /\ End \in Nat /\ Size \in Nat
  BY AtKey
<1>2. IsStr(memory, buf + k, n - k)
  <2>1. n - k \in Nat /\ buf + k \in Nat /\ buf + k + (n - k) = buf + n /\ buf + n < Size
    BY <1>1
  <2>2. \A x \in buf + k .. buf + n - 1 : x \in buf .. buf + n - 1
    BY <1>1
  <2> QED BY <1>1, <2>1, <2>2 DEF IsStr
<1>3. \A p, l : IsStr(memory, p, l) =>
        /\ Str(memory, p) \in Seq(Letters) /\ Len(Str(memory, p)) = l
        /\ \A x \in 1 .. l : Str(memory, p)[x] = memory[p + x - 1]
  BY <1>1, StrIs
<1> QED BY ONLY <1>2, <1>3

\* Every key that stores the string s at the k-th character of the line.
LEMMA StoreKeeps ==
  ASSUME IInv, Key, NEW k \in 0 .. n, NEW s \in Seq(Letters),
         memory' = StoreStr(memory, buf + k, s),
         n' = k + Len(s), i' \in 0 .. n', j' = j,
         k + Len(s) <= n \/ k + Len(s) <= N,
         spilled' \in BOOLEAN, spilled => spilled', n' >= N => spilled'
  PROVE  IInv'
<1>1. /\ memory \in Mem /\ buf \in Nat /\ n \in Nat /\ N \in Nat
      /\ \A x \in buf .. buf + n - 1 : memory[x] # NUL
      /\ buf + n <= End /\ buf + N <= End /\ End < Size /\ End \in Nat /\ Size \in Nat
      /\ n_ \in 0 .. H /\ Slot(H) \in Nat
  BY AtKey
<1>2. Len(s) \in Nat
  OBVIOUS
<1> DEFINE e == buf + k + Len(s)
<1>3. e \in Nat /\ e <= End
  BY <1>1, <1>2
<1>4. /\ memory' \in Mem /\ IsStr(memory', buf, k + Len(s))
      /\ memory'[e] = NUL
      /\ \A a \in 0 .. Size - 1 : a \notin buf + k .. e => memory'[a] = memory[a]
  <2> DEFINE p == buf + k
  <2>1. /\ p \in Nat /\ buf <= p /\ p + Len(s) < Size /\ memory' = StoreStr(memory, p, s)
        /\ p - buf + Len(s) = k + Len(s)
    BY <1>1, <1>2, <1>3
  <2>2. \A x \in buf .. p - 1 : memory[x] # NUL
    BY <1>1
  <2> HIDE DEF p, e
  <2>3. memory \in Mem /\ buf \in Nat /\ s \in Seq(Letters)
    BY <1>1
  <2>4. \A l \in Nat : buf <= l /\ l + Len(s) < Size /\ (\A x \in buf .. l - 1 : memory[x] # NUL) =>
          LET r == StoreStr(memory, l, s)
          IN  /\ r \in Mem /\ IsStr(r, buf, l - buf + Len(s)) /\ r[l + Len(s)] = NUL
              /\ \A a \in 0 .. Size - 1 : a \notin l .. l + Len(s) => r[a] = memory[a]
    BY ONLY <2>3, StoredBehind
  <2>5. /\ memory' \in Mem /\ IsStr(memory', buf, p - buf + Len(s))
        /\ memory'[p + Len(s)] = NUL
        /\ \A a \in 0 .. Size - 1 : a \notin p .. p + Len(s) => memory'[a] = memory[a]
    BY ONLY <2>1, <2>2, <2>4
  <2> QED BY <2>1, <2>5 DEF p, e
<1>5. ASSUME NEW a \in End .. Size - 1
      PROVE  memory'[a] = memory[a] \/ memory'[a] = NUL
  <2>1. a \in 0 .. Size - 1 /\ (a = e \/ a \notin buf + k .. e)
    BY <1>1, <1>3
  <2> QED BY <1>4, <2>1
<1>6. ASSUME Safe' PROVE e < Slot(H)
  <2>1. Safe /\ n_ < H /\ (n_ = H - 1 => ~spilled')
    BY <1>6, Constants DEF Safe, Key
  <2>2. buf + n < Slot(H) /\ buf + N <= Slot(H)
    BY <2>1, BeforeSettings
  <2>3. CASE n_ = H - 1
    <3>1. k + Len(s) < N
      BY <1>1, <1>2, <2>1, <2>3
    <3> QED BY <1>1, <1>2, <2>2, <3>1
  <2>4. CASE n_ # H - 1
    <3>1. n_ < H - 1
      BY <1>1, <2>1, <2>4, Constants
    <3>2. End + N <= Slot(H) /\ N \in Nat \ {0}
      BY <1>1, <3>1, Places, Constants
    <3> QED BY <1>1, <1>3, <3>2
  <2> QED BY <2>3, <2>4
<1>7. ASSUME Safe', NEW a \in Slot(H) .. Size - 1 PROVE memory'[a] = memory[a]
  <2>1. e < Slot(H)
    BY <1>6, <1>7
  <2>2. a \in 0 .. Size - 1 /\ a \notin buf + k .. e
    BY <1>1, <1>3, <2>1
  <2> QED BY <1>4, <2>2
<1> HIDE DEF e
<1>8. j' \in 0 .. n_ /\ IsStr(memory', buf, n')
  BY <1>4, AtKey
<1> QED BY <1>4, <1>5, <1>7, <1>8, Edited DEF Key

LEMMA RightKeeps == IInv /\ Right => IInv'
<1> SUFFICES ASSUME IInv, Right PROVE IInv'
  OBVIOUS
<1>1. n \in Nat /\ i \in 0 .. n /\ j \in 0 .. n_ /\ spilled \in BOOLEAN /\ memory \in Mem
  BY AtKey
<1>2. /\ Key /\ UNCHANGED <<memory, j, n, spilled>> /\ i' \in 0 .. n
  BY <1>1 DEF Right, Cursor
<1>3. IsStr(memory', buf, n') /\ (n' >= N => spilled')
  BY <1>1, <1>2, Constants DEF IInv, LineFits
<1> QED BY <1>1, <1>2, <1>3, Edited DEF Key

LEMMA LeftKeeps == IInv /\ Left => IInv'
<1> SUFFICES ASSUME IInv, Left PROVE IInv'
  OBVIOUS
<1>1. n \in Nat /\ i \in 0 .. n /\ j \in 0 .. n_ /\ spilled \in BOOLEAN /\ memory \in Mem
  BY AtKey
<1>2. /\ Key /\ UNCHANGED <<memory, j, n, spilled>> /\ i' \in 0 .. n
  BY <1>1 DEF Left, Cursor
<1>3. IsStr(memory', buf, n') /\ (n' >= N => spilled')
  BY <1>1, <1>2, Constants DEF IInv, LineFits
<1> QED BY <1>1, <1>2, <1>3, Edited DEF Key

\* A NUL at the k-th character ends the line there.
LEMMA CutKeeps ==
  ASSUME IInv, Key, NEW k \in 0 .. n, memory' = [memory EXCEPT ![buf + k] = NUL],
         n' = k, i' = k, j' \in 0 .. n_, spilled' = spilled
  PROVE  IInv'
<1>1. /\ memory \in Mem /\ buf \in Nat /\ n \in Nat /\ N \in Nat
      /\ \A x \in buf .. buf + n - 1 : memory[x] # NUL
      /\ buf + n <= End /\ End < Size /\ End \in Nat /\ Size \in Nat
      /\ Slot(H) \in Nat /\ spilled \in BOOLEAN
  BY AtKey
<1>2. buf + k \in 0 .. Size - 1
  BY <1>1
<1>3. /\ memory' \in Mem
      /\ \A a \in 0 .. Size - 1 : memory'[a] = IF a = buf + k THEN NUL ELSE memory[a]
  BY <1>1, <1>2, Constants DEF Mem
<1>4. IsStr(memory', buf, k)
  <2>1. ASSUME NEW x \in buf .. buf + k - 1 PROVE memory'[x] # NUL
    <3>1. x \in buf .. buf + n - 1 /\ x \in 0 .. Size - 1 /\ x # buf + k
      BY <1>1
    <3> QED BY <1>1, <1>3, <3>1
  <2>2. k \in Nat /\ buf + k < Size
    BY <1>1
  <2> QED BY <1>1, <1>2, <1>3, <2>1, <2>2 DEF IsStr
<1>5. ASSUME NEW a \in End .. Size - 1 PROVE memory'[a] = memory[a] \/ memory'[a] = NUL
  <2>1. a \in 0 .. Size - 1
    BY <1>1
  <2> QED BY <1>3, <2>1
<1>6. ASSUME Safe', NEW a \in Slot(H) .. Size - 1 PROVE memory'[a] = memory[a]
  <2>1. Safe
    BY <1>6 DEF Safe, Key
  <2>2. buf + n < Slot(H)
    BY <2>1, BeforeSettings
  <2>3. a \in 0 .. Size - 1 /\ a # buf + k
    BY <1>1, <2>2
  <2> QED BY <1>3, <2>3
<1>7. n' >= N => spilled'
  BY <1>1 DEF IInv, LineFits
<1>8. i' \in 0 .. n'
  OBVIOUS
<1> QED BY <1>1, <1>3, <1>4, <1>5, <1>6, <1>7, <1>8, Edited DEF Key

LEMMA KillLineKeeps == IInv /\ KillLine => IInv'
<1> SUFFICES ASSUME IInv, KillLine PROVE IInv'
  OBVIOUS
<1>1. n \in Nat /\ i \in 0 .. n /\ j \in 0 .. n_
  BY AtKey
<1> QED BY <1>1, CutKeeps DEF KillLine

LEMMA DeleteKeeps == IInv /\ Delete => IInv'
<1> SUFFICES ASSUME IInv, Delete PROVE IInv'
  OBVIOUS
<1>1. n \in Nat /\ i \in 0 .. n - 1 /\ buf \in Nat /\ spilled \in BOOLEAN
  BY AtKey DEF Delete
<1> DEFINE s == Str(memory, buf + i + 1)
<1>2. s \in Seq(Letters) /\ Len(s) = n - i - 1
  <2>1. i + 1 \in 0 .. n /\ buf + (i + 1) = buf + i + 1 /\ n - (i + 1) = n - i - 1
    BY <1>1
  <2> QED BY <2>1, RestIs
<1>3. /\ Key /\ memory' = StoreStr(memory, buf + i, s) /\ n' = i + Len(s)
      /\ i' \in 0 .. n' /\ j' = j /\ spilled' = spilled /\ i + Len(s) <= n
  BY <1>1, <1>2 DEF Delete
<1> HIDE DEF s
<1>4. n' >= N => spilled'
  BY <1>1, <1>2, <1>3, Constants DEF IInv, LineFits
<1>5. i \in 0 .. n
  BY <1>1
<1> QED BY <1>1, <1>2, <1>3, <1>4, <1>5, StoreKeeps

LEMMA BackspaceKeeps == IInv /\ Backspace => IInv'
<1> SUFFICES ASSUME IInv, Backspace PROVE IInv'
  OBVIOUS
<1>1. n \in Nat /\ i \in 1 .. n /\ buf \in Nat /\ spilled \in BOOLEAN
  BY AtKey DEF Backspace
<1> DEFINE s == Str(memory, buf + i)  k == i - 1
<1>2. s \in Seq(Letters) /\ Len(s) = n - i
  <2>1. i \in 0 .. n
    BY <1>1
  <2> QED BY <2>1, RestIs
<1>3. /\ Key /\ memory' = StoreStr(memory, buf + k, s) /\ n' = k + Len(s)
      /\ i' \in 0 .. n' /\ j' = j /\ spilled' = spilled /\ k + Len(s) <= n
  <2>1. buf + k = buf + i - 1
    BY <1>1
  <2> QED BY <1>1, <1>2, <2>1 DEF Backspace
<1>4. k \in 0 .. n
  BY <1>1
<1> HIDE DEF s, k
<1>5. n' >= N => spilled'
  BY <1>1, <1>2, <1>3, <1>4, Constants DEF IInv, LineFits
<1> QED BY <1>1, <1>2, <1>3, <1>4, <1>5, StoreKeeps

LEMMA BlankKeeps == IInv /\ Blank => IInv'
<1> SUFFICES ASSUME IInv, Blank PROVE IInv'
  OBVIOUS
<1>1. /\ n \in Nat /\ i \in 0 .. n /\ buf \in Nat /\ spilled \in BOOLEAN
      /\ N \in Nat /\ n < N
  BY AtKey DEF Blank
<1> DEFINE t == Str(memory, buf + i)  s == <<Space>> \o t
<1>2. t \in Seq(Letters) /\ Len(t) = n - i
  BY <1>1, RestIs
<1> HIDE DEF t
<1>3. s \in Seq(Letters) /\ Len(s) = n - i + 1
  <2>1. <<Space>> \in Seq(Letters) /\ Len(<<Space>>) = 1
    BY Constants
  <2> QED BY <1>1, <1>2, <2>1
<1>4. memory' = StoreStr(memory, buf + i, s)
  BY DEF Blank, s, t
<1> HIDE DEF s
<1>5. /\ Key /\ n' = i + Len(s) /\ i' \in 0 .. n' /\ j' = j /\ i + Len(s) <= N
      /\ spilled' \in BOOLEAN /\ (spilled => spilled') /\ (n' >= N => spilled')
  <2>1. /\ Key /\ i' = i + 1 /\ n' = n + 1 /\ j' = j
        /\ spilled' = (spilled \/ n' >= N)
    BY DEF Blank
  <2>2. spilled' \in BOOLEAN /\ (spilled => spilled') /\ (n' >= N => spilled')
    BY <1>1, <2>1
  <2>3. i + Len(s) = n + 1
    BY <1>1, <1>3
  <2> QED BY <1>1, <2>1, <2>2, <2>3
<1> QED BY <1>1, <1>3, <1>4, <1>5, StoreKeeps

\* A character is stored with the rest of the line behind it.
LEMMA PrintableIs ==
  ASSUME IInv, NEW c \in Signs, Printable(c)
  PROVE  memory' = StoreStr(memory, buf + i, <<c>> \o Str(memory, buf + i))
<1>1. /\ n \in Nat /\ i \in 0 .. n /\ buf \in Nat /\ N \in Nat /\ n + 1 < N
      /\ memory \in Mem /\ buf + N <= End /\ End \in Nat /\ End < Size /\ Size \in Nat
  BY AtKey DEF Printable
<1>2. c \in Letters
  BY Constants
<1> DEFINE t == Str(memory, buf + i)  s == <<c>> \o t
           moved == IF i < n THEN Store(memory, buf + i + 1, t) ELSE memory
<1>3. /\ t \in Seq(Letters) /\ Len(t) = n - i
      /\ \A x \in 1 .. n - i : t[x] = memory[buf + i + x - 1]
  BY <1>1, RestIs
<1>4. memory' = [moved EXCEPT ![buf + i] = c, ![buf + n + 1] = NUL]
  BY DEF Printable
<1>5. /\ moved = [a \in 0 .. Size - 1 |-> moved[a]]
      /\ \A a \in 0 .. Size - 1 :
           moved[a] = IF i < n /\ a \in buf + i + 1 .. buf + n THEN memory[a - 1] ELSE memory[a]
  <2>1. memory = [a \in 0 .. Size - 1 |-> memory[a]]
    BY <1>1 DEF Mem
  <2>2. CASE i < n
    <3> HIDE DEF t
    <3>1. moved = [a \in 0 .. Size - 1 |->
                     IF a \in buf + i + 1 .. buf + i + 1 + Len(t) - 1
                     THEN t[a - (buf + i + 1) + 1] ELSE memory[a]]
      BY <2>1, <2>2 DEF Store
    <3> HIDE DEF moved
    <3>2. buf + i + 1 + Len(t) - 1 = buf + n
      BY <1>1, <1>3
    <3>3. ASSUME NEW a \in buf + i + 1 .. buf + n
          PROVE  t[a - (buf + i + 1) + 1] = memory[a - 1]
      <4>1. /\ a - (buf + i + 1) + 1 \in 1 .. n - i
            /\ buf + i + (a - (buf + i + 1) + 1) - 1 = a - 1
        BY <1>1
      <4> QED BY <1>3, <4>1
    <3> QED BY <2>2, <3>1, <3>2, <3>3
  <2>3. CASE ~(i < n)
    BY <2>1, <2>3
  <2> QED BY <2>2, <2>3
<1> HIDE DEF moved, t
<1>6. /\ memory' = [a \in 0 .. Size - 1 |-> memory'[a]]
      /\ \A a \in 0 .. Size - 1 :
           memory'[a] = IF a = buf + n + 1 THEN NUL ELSE IF a = buf + i THEN c ELSE moved[a]
  <2>1. buf + i \in 0 .. Size - 1 /\ buf + n + 1 \in 0 .. Size - 1
    BY <1>1
  <2> QED BY <1>4, <1>5, <2>1
<1>7. /\ s \in Seq(Letters) /\ Len(s) = n - i + 1 /\ s[1] = c
      /\ \A x \in 2 .. n - i + 1 : s[x] = t[x - 1]
  <2>1. <<c>> \in Seq(Letters) /\ Len(<<c>>) = 1 /\ <<c>>[1] = c
    BY <1>2
  <2>2. /\ s \in Seq(Letters) /\ Len(s) = 1 + Len(t)
        /\ \A x \in 1 .. 1 + Len(t) : s[x] = IF x <= 1 THEN <<c>>[x] ELSE t[x - 1]
    BY <1>3, <2>1
  <2> HIDE DEF s
  <2>3. s[1] = c /\ \A x \in 2 .. n - i + 1 : s[x] = t[x - 1]
    BY <1>1, <1>3, <2>1, <2>2
  <2> QED BY <1>1, <1>3, <2>2, <2>3
<1> HIDE DEF s
<1> DEFINE r == StoreStr(memory, buf + i, s)
<1>8. /\ r \in Mem
      /\ \A a \in 0 .. Size - 1 :
           r[a] = IF a \in buf + i .. buf + i + Len(s) - 1 THEN s[a - (buf + i) + 1]
                  ELSE IF a = buf + i + Len(s) THEN NUL ELSE memory[a]
  <2>1. memory \in Mem /\ buf + i \in Nat /\ s \in Seq(Letters) /\ buf + i + Len(s) < Size
    BY <1>1, <1>7
  <2>2. \A p \in Nat : p + Len(s) < Size =>
          LET q == StoreStr(memory, p, s)
          IN  /\ q \in Mem
              /\ \A a \in 0 .. Size - 1 :
                   q[a] = IF a \in p .. p + Len(s) - 1 THEN s[a - p + 1]
                          ELSE IF a = p + Len(s) THEN NUL ELSE memory[a]
    BY <2>1, StoreStrIs
  <2> QED BY <2>1, <2>2
<1> HIDE DEF r
<1>9. ASSUME NEW a \in 0 .. Size - 1 PROVE memory'[a] = r[a]
  <2>1. buf + i + Len(s) = buf + n + 1
    BY <1>1, <1>7
  <2>2. CASE a = buf + n + 1
    <3>1. a \notin buf + i .. buf + i + Len(s) - 1 /\ a = buf + i + Len(s)
      BY <1>1, <1>7, <2>1, <2>2
    <3> QED BY <1>6, <1>8, <2>2, <3>1
  <2>3. CASE a = buf + i
    <3>1. /\ a \in buf + i .. buf + i + Len(s) - 1 /\ a - (buf + i) + 1 = 1
          /\ a # buf + n + 1
      BY <1>1, <1>7, <2>3
    <3> QED BY <1>6, <1>7, <1>8, <2>3, <3>1
  <2>4. CASE a \in buf + i + 1 .. buf + n
    <3> DEFINE x == a - (buf + i) + 1
    <3>1. /\ a \in buf + i .. buf + i + Len(s) - 1 /\ x \in 2 .. n - i + 1
          /\ a # buf + n + 1 /\ a # buf + i /\ i < n
          /\ x - 1 \in 1 .. n - i /\ buf + i + (x - 1) - 1 = a - 1
      BY <1>1, <1>7, <2>4
    <3> HIDE DEF x
    <3>2. s[x] = memory[a - 1]
      BY <1>3, <1>7, <3>1
    <3>3. r[a] = s[x]
      BY <1>8, <3>1 DEF x
    <3> QED BY <1>5, <1>6, <2>4, <3>1, <3>2, <3>3
  <2>5. CASE a \notin buf + i .. buf + n + 1
    <3>1. /\ a \notin buf + i .. buf + i + Len(s) - 1 /\ a # buf + i + Len(s)
          /\ a # buf + n + 1 /\ a # buf + i /\ a \notin buf + i + 1 .. buf + n
      BY <1>1, <1>7, <2>5
    <3> QED BY <1>5, <1>6, <1>8, <3>1
  <2> QED BY <1>1, <2>2, <2>3, <2>4, <2>5
<1>10. r = [a \in 0 .. Size - 1 |-> r[a]]
  BY <1>8 DEF Mem
<1> QED BY <1>6, <1>9, <1>10 DEF r, s, t

LEMMA PrintableKeeps == ASSUME NEW c \in Signs PROVE IInv /\ Printable(c) => IInv'
<1> SUFFICES ASSUME IInv, Printable(c) PROVE IInv'
  OBVIOUS
<1>1. /\ n \in Nat /\ i \in 0 .. n /\ spilled \in BOOLEAN /\ N \in Nat /\ n + 1 < N
  BY AtKey DEF Printable
<1> DEFINE t == Str(memory, buf + i)  s == <<c>> \o t
<1>2. s \in Seq(Letters) /\ Len(s) = n - i + 1
  <2>1. t \in Seq(Letters) /\ Len(t) = n - i
    BY <1>1, RestIs
  <2>2. <<c>> \in Seq(Letters) /\ Len(<<c>>) = 1
    <3>1. c \in Letters
      BY Constants
    <3> QED BY <3>1
  <2> HIDE DEF t
  <2> QED BY <1>1, <2>1, <2>2
<1>3. memory' = StoreStr(memory, buf + i, s)
  BY PrintableIs
<1> HIDE DEF s
<1>4. /\ Key /\ n' = i + Len(s) /\ i' \in 0 .. n' /\ j' = j /\ spilled' = spilled
      /\ i + Len(s) <= N /\ ~(n' >= N)
  BY <1>1, <1>2 DEF Printable
<1> QED BY <1>1, <1>2, <1>3, <1>4, StoreKeeps

LEMMA RecallKeeps ==
  ASSUME IInv, Key, NEW k \in 0 .. n_, Recall(k)
  PROVE  IInv'
<1>1. /\ memory \in Mem /\ buf \in Nat /\ n \in Nat /\ N \in Nat \ {0}
      /\ End \in Nat /\ End < Size /\ Size \in Nat /\ Slot(H) \in Nat
      /\ buf + N <= End /\ spilled \in BOOLEAN /\ n_ \in 0 .. H
  BY AtKey
<1> DEFINE emptied == [memory EXCEPT ![buf] = NUL]
<1>2. /\ emptied \in Mem /\ emptied[buf] = NUL
      /\ \A a \in 0 .. Size - 1 : a # buf => emptied[a] = memory[a]
  <2>1. buf \in 0 .. Size - 1
    BY <1>1
  <2> QED BY <1>1, <2>1, Constants DEF Mem
<1>3. /\ j' = k /\ n' = strlen(memory', buf) /\ i' = n'
      /\ spilled' = (spilled \/ n' >= N)
      /\ memory' = IF Slot(k) = buf THEN emptied
                   ELSE strncpy(emptied, buf, Str(emptied, Slot(k)))
  BY DEF Recall
<1>4. CASE Slot(k) = buf
  <2>1. IsStr(emptied, buf, 0)
    BY <1>1, <1>2 DEF IsStr
  <2>2. memory' = emptied /\ n' = 0
    BY <1>3, <1>4, <2>1, StrlenIs
  <2>3. memory' = [memory EXCEPT ![buf + 0] = NUL] /\ 0 \in 0 .. n
    BY <1>1, <2>2
  <2>4. i' = 0 /\ j' \in 0 .. n_ /\ spilled' = spilled
    BY <1>1, <1>3, <2>2
  <2> HIDE DEF emptied
  <2> QED BY <2>2, <2>3, <2>4, CutKeeps
<1>5. CASE Slot(k) # buf
  <2> HIDE DEF emptied
  <2> DEFINE s == Str(emptied, Slot(k))
             t == [x \in 1 .. N |-> IF x <= Len(s) THEN s[x] ELSE NUL]
  <2>1. s \in Seq(Letters)
    <3>1. k \in Nat /\ n_ \in Nat /\ k < n_
      BY <1>1, <1>5 DEF buf
    <3>2. Slot(k) \in Nat /\ Slot(k) <= buf
      <4>1. Slot(k) \in Nat /\ Slot(k) + N <= buf
        BY <3>1, Layout DEF buf
      <4> QED BY <1>1, <4>1
    <3>3. IsStr(emptied, Slot(k), strlen(emptied, Slot(k)))
      BY <1>1, <1>2, <3>2, StrlenExists
    <3> QED BY <1>2, <3>3, StrIs
  <2> HIDE DEF s
  <2>2. /\ Len(t) = N
        /\ \A x \in 1 .. N : t[x] \in Cells
    <3>1. \A x \in 1 .. N : x <= Len(s) => s[x] \in Letters
      BY <1>1, <2>1
    <3> QED BY <1>1, <3>1, Constants
  <2>3. memory' = Store(emptied, buf, t)
    BY <1>3, <1>5 DEF strncpy, s
  <2> HIDE DEF t
  <2>4. DOMAIN emptied = 0 .. Size - 1 /\ \A a \in 0 .. Size - 1 : emptied[a] \in Cells
    BY <1>2 DEF Mem
  <2>5. memory' = [a \in 0 .. Size - 1 |->
                     IF a \in buf .. buf + N - 1 THEN t[a - buf + 1] ELSE emptied[a]]
    BY <2>2, <2>3, <2>4 DEF Store
  <2>6. memory' \in Mem
    <3>1. ASSUME NEW a \in buf .. buf + N - 1 PROVE a - buf + 1 \in 1 .. N
      BY <1>1
    <3> QED BY <2>2, <2>4, <2>5, <3>1 DEF Mem
  <2>7. ASSUME NEW a \in 0 .. Size - 1, a \notin buf .. buf + N - 1
        PROVE  memory'[a] = memory[a]
    <3>1. a # buf
      BY <1>1, <2>7
    <3> QED BY <1>2, <2>5, <2>7, <3>1
  <2>8. IsStr(memory', buf, n')
    <3>1. End \in 0 .. Size - 1 /\ End \notin buf .. buf + N - 1 /\ buf <= End
      BY <1>1
    <3>2. memory'[End] = NUL
      BY <1>1, <2>7, <3>1, EndIsNul DEF IInv
    <3> QED BY <1>1, <1>3, <3>1, <3>2, StrlenExists
  <2>9. ASSUME NEW a \in End .. Size - 1 PROVE memory'[a] = memory[a] \/ memory'[a] = NUL
    <3>1. a \in 0 .. Size - 1 /\ a \notin buf .. buf + N - 1
      BY <1>1
    <3> QED BY <2>7, <3>1
  <2>10. ASSUME Safe', NEW a \in Slot(H) .. Size - 1 PROVE memory'[a] = memory[a]
    <3>1. Safe
      BY <1>3, <2>10 DEF Safe, Key
    <3>2. buf + N <= Slot(H)
      BY <3>1, BeforeSettings
    <3>3. a \in 0 .. Size - 1 /\ a \notin buf .. buf + N - 1
      BY <1>1, <3>2
    <3> QED BY <2>7, <3>3
  <2>11. /\ i' \in 0 .. n' /\ j' \in 0 .. n_ /\ spilled' \in BOOLEAN
         /\ (spilled => spilled') /\ (n' >= N => spilled')
    <3>1. n' \in Nat
      BY <2>8 DEF IsStr
    <3>2. i' \in 0 .. n' /\ j' \in 0 .. n_
      BY <1>3, <3>1
    <3>3. spilled' = (spilled \/ n' >= N)
      BY <1>3
    <3>4. spilled' \in BOOLEAN /\ (spilled => spilled') /\ (n' >= N => spilled')
      BY <3>3, Zenon
    <3> QED BY <3>2, <3>4
  <2>12. pc = "edit" /\ UNCHANGED <<pc, n_, ran, tty>>
    BY DEF Key
  <2> QED BY <2>6, <2>8, <2>9, <2>10, <2>11, <2>12, Edited
<1> QED BY <1>4, <1>5

LEMMA HistoryKeeps == IInv /\ (Up \/ Down) => IInv'
<1> SUFFICES ASSUME IInv, Up \/ Down PROVE IInv'
  OBVIOUS
<1>1. n_ \in 0 .. H /\ j \in 0 .. n_ /\ H \in Nat
  BY AtKey, Constants
<1>2. CASE Up
  <2>1. j - 1 \in 0 .. n_
    BY <1>1, <1>2 DEF Up
  <2> QED BY <1>2, <2>1, RecallKeeps DEF Up
<1>3. CASE Down
  <2>1. j + 1 \in 0 .. n_
    BY <1>1, <1>3 DEF Down
  <2> QED BY <1>3, <2>1, RecallKeeps DEF Down
<1> QED BY <1>2, <1>3

LEMMA EnterNothingKeeps == IInv /\ EnterNothing => IInv'
<1> SUFFICES ASSUME IInv, EnterNothing PROVE IInv'
  OBVIOUS
<1>1. /\ n \in Nat /\ buf \in Nat /\ spilled \in BOOLEAN /\ n_ \in 0 .. H /\ H \in Nat
      /\ memory \in Mem /\ buf < Size
  <2>1. buf + N <= End /\ End < Size /\ N \in Nat /\ buf \in Nat /\ End \in Nat /\ Size \in Nat
    BY AtKey
  <2>2. buf < Size
    BY <2>1
  <2> QED BY <2>2, AtKey, Constants
<1>2. /\ pc = "edit" /\ UNCHANGED <<pc, n_, ran, tty, spilled>>
      /\ memory' = StoreStr(memory, buf, <<>>)
      /\ j' = n_ /\ n' = strlen(memory', buf) /\ i' = n'
  BY DEF EnterNothing, Empty, shell_strtrim, Edits, buf
<1>3. <<>> \in Seq(Letters) /\ Len(<<>>) = 0
  OBVIOUS
<1>4. IsStr(memory', buf, 0)
  <2>1. buf + Len(<<>>) < Size
    BY <1>1, <1>3
  <2>2. IsStr(StoreStr(memory, buf, <<>>), buf, Len(<<>>))
    BY <1>1, <1>3, <2>1, StoreStrIs
  <2> QED BY <1>2, <1>3, <2>2
<1>5. n' = 0 /\ i' = 0
  BY <1>2, <1>4, StrlenIs
<1>6. memory' = [memory EXCEPT ![buf + 0] = NUL]
  <2>1. buf \in 0 .. Size - 1 /\ buf + 0 = buf
    BY <1>1, Layout
  <2> QED BY <1>1, <1>2, <2>1, NulIs
<1>7. 0 \in 0 .. n /\ j' \in 0 .. n_
  BY <1>1, <1>2
<1>8. Key
  BY <1>2 DEF Key
<1> QED BY <1>2, <1>5, <1>6, <1>7, <1>8, CutKeeps

-----------------------------------------------------------------------------
(***************************************************************************)
(* Enter.                                                                  *)
(***************************************************************************)
LEMMA NextSlot ==
  ASSUME IInv
  PROVE  /\ Advanced \in 0 .. H /\ Slot(Advanced) \in Nat
         /\ buf <= Slot(Advanced) /\ Slot(Advanced) < Size
         /\ n_ < H => Advanced = n_ + 1 /\ Slot(Advanced) = buf + N
         /\ n_ = H => Advanced = H /\ Slot(Advanced) = buf
<1>1. n_ \in 0 .. H /\ n_ \in Nat /\ buf \in Nat /\ Size \in Nat /\ N \in Nat \ {0}
  BY AtKey
<1>2. H \in Nat \ {0} /\ Size = Slot(H) + N + 1
  BY Constants, Layout
<1>3. CASE n_ < H
  <2>1. Advanced = n_ + 1 /\ Advanced \in 0 .. H
    BY <1>1, <1>2, <1>3 DEF Advanced
  <2>2. Slot(Advanced) \in Nat /\ Slot(Advanced) = buf + N
    BY <1>1, <2>1, Layout DEF buf
  <2>3. Slot(Advanced) + N <= EndOf(Advanced) /\ EndOf(Advanced) < Size /\ EndOf(Advanced) \in Nat
    BY <2>1, PlacesOf
  <2> QED BY <1>1, <1>3, <2>1, <2>2, <2>3
<1>4. CASE ~(n_ < H)
  <2>1. n_ = H /\ Advanced = H
    BY <1>1, <1>2, <1>4 DEF Advanced
  <2>2. Slot(Advanced) = buf /\ buf < Size
    BY <1>1, <1>2, <2>1 DEF buf
  <2> QED BY <1>1, <1>2, <2>1, <2>2
<1> QED BY <1>3, <1>4

\* What read_line leaves: the line, trimmed, ends where the next slot begins at
\* the latest, and nothing else has changed but for a NUL there.
LEMMA EnteredIs ==
  ASSUME IInv
  PROVE  LET k == strlen(Entered, buf)
         IN  /\ Entered \in Mem /\ Entered[Slot(Advanced)] = NUL
             /\ \A a \in 0 .. Size - 1 :
                  a \notin buf .. buf + n /\ a # Slot(Advanced) => Entered[a] = memory[a]
             /\ \A a \in End .. Size - 1 : Entered[a] = memory[a] \/ Entered[a] = NUL
             /\ IsStr(Entered, buf, k)
             /\ k \in Nat /\ k <= n /\ buf + k <= Slot(Advanced)
<1> DEFINE t == Trimmed(Str(memory, buf))
           trimmed == StoreStr(memory, buf, t)
           q == Slot(Advanced)
<1>1. /\ memory \in Mem /\ buf \in Nat /\ n \in Nat /\ End \in Nat /\ End < Size
      /\ Size \in Nat /\ buf + n <= End
  BY AtKey
<1>2. q \in 0 .. Size - 1 /\ buf <= q
  BY <1>1, NextSlot
<1>3. t \in Seq(Letters) /\ Len(t) \in Nat /\ Len(t) <= n
  <2>1. Str(memory, buf) \in Seq(Letters) /\ Len(Str(memory, buf)) = n
    <3>1. 0 \in 0 .. n /\ buf + 0 = buf /\ n - 0 = n
      BY <1>1
    <3> QED BY <3>1, RestIs
  <2> QED BY <2>1, TrimmedIs
<1> HIDE DEF t
<1>4. /\ trimmed \in Mem /\ IsStr(trimmed, buf, Len(t))
      /\ \A a \in 0 .. Size - 1 :
           trimmed[a] = IF a \in buf .. buf + Len(t) - 1 THEN t[a - buf + 1]
                        ELSE IF a = buf + Len(t) THEN NUL ELSE memory[a]
  <2>1. buf + Len(t) < Size
    BY <1>1, <1>3
  <2> QED BY <1>1, <1>3, <2>1, StoreStrIs
<1>5. Entered = [trimmed EXCEPT ![q] = NUL]
  BY DEF Entered, shell_strtrim, t
<1> HIDE DEF trimmed, q
<1>6. /\ Entered \in Mem /\ Entered[q] = NUL
      /\ \A a \in 0 .. Size - 1 : a # q => Entered[a] = trimmed[a]
  BY <1>2, <1>4, <1>5, Constants DEF Mem
<1>7. ASSUME NEW a \in 0 .. Size - 1, a \notin buf .. buf + n, a # q
      PROVE  Entered[a] = memory[a]
  <2>1. a \notin buf .. buf + Len(t) - 1 /\ a # buf + Len(t)
    BY <1>1, <1>3, <1>7
  <2> QED BY <1>4, <1>6, <1>7, <2>1
<1>8. ASSUME NEW a \in End .. Size - 1
      PROVE  Entered[a] = memory[a] \/ Entered[a] = NUL
  <2>1. a \in 0 .. Size - 1 /\ a \notin buf .. buf + Len(t) - 1
    BY <1>1, <1>3
  <2> QED BY <1>4, <1>6, <2>1
<1>9. Entered[buf + Len(t)] = NUL
  <2>1. buf + Len(t) \in 0 .. Size - 1 /\ buf + Len(t) \notin buf .. buf + Len(t) - 1
    BY <1>1, <1>3
  <2> QED BY <1>4, <1>6, <2>1
<1>10. /\ IsStr(Entered, buf, strlen(Entered, buf)) /\ strlen(Entered, buf) \in Nat
       /\ buf + strlen(Entered, buf) <= buf + Len(t)
  <2>1. buf + Len(t) \in Nat /\ buf <= buf + Len(t) /\ buf + Len(t) < Size
    BY <1>1, <1>3
  <2> QED BY <1>1, <1>9, <2>1, StrlenExists
<1>11. buf + strlen(Entered, buf) <= q
  <2>1. q \in Nat /\ q < Size
    BY <1>1, <1>2
  <2> QED BY <1>1, <1>2, <1>6, <2>1, StrlenExists
<1>12. strlen(Entered, buf) <= n
  BY <1>1, <1>3, <1>10
<1> QED BY <1>6, <1>7, <1>8, <1>10, <1>11, <1>12 DEF q

\* The command trims its argument where it stands.
LEMMA CommandIs ==
  ASSUME IInv
  PROVE  LET m == shell_fnc(Entered, buf)
         IN  /\ m \in Mem /\ m[Slot(Advanced)] = NUL
             /\ \A a \in 0 .. Size - 1 :
                  a \notin buf .. buf + n /\ a # Slot(Advanced) => m[a] = memory[a]
             /\ \A a \in End .. Size - 1 : m[a] = memory[a] \/ m[a] = NUL
<1> DEFINE q == Slot(Advanced)  k == strlen(Entered, buf)
           m == shell_fnc(Entered, buf)
<1>1. /\ Entered \in Mem /\ Entered[q] = NUL
      /\ \A a \in 0 .. Size - 1 :
           a \notin buf .. buf + n /\ a # q => Entered[a] = memory[a]
      /\ \A a \in End .. Size - 1 : Entered[a] = memory[a] \/ Entered[a] = NUL
      /\ IsStr(Entered, buf, k) /\ k \in Nat /\ k <= n /\ buf + k <= q
  BY EnteredIs
<1>2. /\ buf \in Nat /\ n \in Nat /\ End \in Nat /\ End < Size
      /\ Size \in Nat /\ buf + n <= End /\ q \in Nat /\ q < Size
  BY AtKey, NextSlot
<1>3. CASE ~IsCommand(Str(Entered, buf))
  <2>1. m = Entered
    BY <1>3 DEF shell_fnc
  <2> QED BY <1>1, <2>1
<1>4. CASE IsCommand(Str(Entered, buf))
  <2> DEFINE u == Trimmed(Str(Entered, buf + 1))
  <2>1. k \in Nat \ {0}
    <3>1. Str(Entered, buf) # <<>> /\ Len(Str(Entered, buf)) = k /\ Str(Entered, buf) \in Seq(Letters)
      BY <1>1, <1>4, StrIs DEF IsCommand
    <3> QED BY <1>1, <3>1
  <2>2. IsStr(Entered, buf + 1, k - 1)
    <3> HIDE DEF k
    <3>1. k - 1 \in Nat /\ buf + 1 \in Nat /\ buf + 1 + (k - 1) = buf + k
      BY <1>2, <2>1
    <3>2. \A x \in buf + 1 .. buf + k - 1 : x \in buf .. buf + k - 1
      BY <1>2, <2>1
    <3> QED BY <1>1, <3>1, <3>2 DEF IsStr
  <2>3. u \in Seq(Letters) /\ Len(u) \in Nat /\ Len(u) <= k - 1
    <3>1. Str(Entered, buf + 1) \in Seq(Letters) /\ Len(Str(Entered, buf + 1)) = k - 1
      BY <1>1, <2>2, StrIs
    <3> HIDE DEF k
    <3> QED BY <3>1, TrimmedIs
  <2> HIDE DEF k
  <2>4. m = StoreStr(Entered, buf + 1, u)
    BY <1>4 DEF shell_fnc, shell_strtrim
  <2> HIDE DEF u, q, m
  <2> DEFINE e == buf + 1 + Len(u)
  <2>5. e \in Nat /\ e <= buf + k /\ e <= q /\ e < Size /\ e <= End /\ buf + 1 \in Nat
         /\ buf + 1 <= e
    BY <1>1, <1>2, <2>1, <2>3
  <2>6. /\ m \in Mem
        /\ \A a \in 0 .. Size - 1 :
             m[a] = IF a \in buf + 1 .. e - 1 THEN u[a - (buf + 1) + 1]
                    ELSE IF a = e THEN NUL ELSE Entered[a]
    <3>1. Entered \in Mem /\ u \in Seq(Letters)
      BY <1>1, <2>3
    <3>2. \A p \in Nat : p + Len(u) < Size =>
            LET r == StoreStr(Entered, p, u)
            IN  /\ r \in Mem
                /\ \A a \in 0 .. Size - 1 :
                     r[a] = IF a \in p .. p + Len(u) - 1 THEN u[a - p + 1]
                            ELSE IF a = p + Len(u) THEN NUL ELSE Entered[a]
      BY ONLY <3>1, StoreStrIs
    <3> QED BY <2>4, <2>5, <3>2
  <2> HIDE DEF e
  <2>7. m[q] = NUL
    <3>1. q \in 0 .. Size - 1 /\ q \notin buf + 1 .. e - 1
      BY <1>2, <2>5
    <3> QED BY <1>1, <2>6, <3>1
  <2>8. ASSUME NEW a \in 0 .. Size - 1, a \notin buf .. buf + n, a # q
        PROVE  m[a] = memory[a]
    <3>1. e <= buf + n /\ buf <= e
      <4>1. k \in Nat /\ k <= n /\ n \in Nat /\ buf \in Nat
        BY <1>1, <1>2
      <4> QED BY <2>5, <4>1
    <3>2. a \in Int /\ (a < buf \/ a > buf + n)
      BY <1>2, <2>8
    <3>3. a \notin buf + 1 .. e - 1 /\ a # e
      BY <1>2, <2>5, <3>1, <3>2
    <3> QED BY <1>1, <2>6, <2>8, <3>3
  <2>9. ASSUME NEW a \in End .. Size - 1 PROVE m[a] = memory[a] \/ m[a] = NUL
    <3>1. a \in 0 .. Size - 1 /\ a \notin buf + 1 .. e - 1
      BY <1>2, <2>5
    <3> QED BY <1>1, <2>6, <3>1
  <2> QED BY <2>6, <2>7, <2>8, <2>9 DEF m, q
<1> QED BY <1>3, <1>4

LEMMA EnterFacts ==
  ASSUME IInv, Enter
  PROVE  /\ pc = "edit" /\ ~Empty /\ memory' = shell_fnc(Entered, buf)
         /\ n_' = Advanced /\ j' = Advanced
         /\ n' = strlen(memory', Slot(Advanced)) /\ i' = n'
         /\ spilled' = (spilled \/ Advanced = H)
         /\ ran' = Run(Str(Entered, buf))
         /\ Quits(Str(Entered, buf)) =>
              pc' = "returned" /\ tty' = Bytes(memory', Slot(H), Len(Settings))
         /\ ~Quits(Str(Entered, buf)) => UNCHANGED <<pc, tty>>
  BY DEF Enter, Edits, Return, restore

\* The saved settings outlast a line unless it was the last slot's.
LEMMA EnterSaves ==
  ASSUME IInv, Enter, Advanced < H
  PROVE  Saved(memory')
<1>1. /\ n_ \in 0 .. H /\ buf \in Nat /\ End \in Nat /\ n \in Nat /\ N \in Nat \ {0}
      /\ buf + n <= End /\ Slot(H) \in Nat /\ Size \in Nat /\ H \in Nat
  BY AtKey, Constants
<1>2. Advanced = n_ + 1 /\ Slot(Advanced) = buf + N /\ n_ < H - 1
  <2>1. n_ < H => Advanced = n_ + 1 /\ Slot(Advanced) = buf + N
    BY NextSlot
  <2>2. n_ = H => Advanced = H
    BY NextSlot
  <2>3. n_ \in Nat /\ Advanced # H
    BY <1>1
  <2> QED BY <1>1, <2>1, <2>2, <2>3
<1>3. End + N <= Slot(H) /\ buf + N <= End
  BY <1>1, <1>2, Places
<1>4. Saved(memory)
  <2>1. Safe /\ pc = "edit"
    BY <1>1, <1>2, EnterFacts DEF Safe
  <2> QED BY <2>1 DEF IInv, SettingsSafe
<1>5. ASSUME NEW a \in Slot(H) .. Size - 1 PROVE memory'[a] = memory[a]
  <2>1. a \in 0 .. Size - 1 /\ a > End
    BY <1>1, <1>3
  <2>2. a \notin buf .. buf + n /\ a # Slot(Advanced)
    BY <1>1, <1>2, <1>3, <2>1
  <2>3. memory' = shell_fnc(Entered, buf)
    BY EnterFacts
  <2> QED BY <2>1, <2>2, <2>3, CommandIs
<1> QED BY <1>4, <1>5, SavedStays

LEMMA EnterTypes ==
  ASSUME IInv, Enter
  PROVE  /\ TypeOK' /\ IsStr(memory', buf', n') /\ n' = 0
<1>1. /\ n_ \in 0 .. H /\ spilled \in BOOLEAN /\ H \in Nat \ {0}
      /\ Advanced \in 0 .. H /\ Slot(Advanced) \in Nat /\ Slot(Advanced) < Size
  BY AtKey, NextSlot, Constants
<1>2. /\ memory' = shell_fnc(Entered, buf) /\ n_' = Advanced /\ j' = Advanced
      /\ n' = strlen(memory', Slot(Advanced)) /\ i' = n'
      /\ spilled' = (spilled \/ Advanced = H) /\ ran' = Run(Str(Entered, buf))
  BY EnterFacts
<1>3. memory' \in Mem /\ memory'[Slot(Advanced)] = NUL
  BY <1>2, CommandIs
<1>4. buf' = Slot(Advanced)
  BY <1>2 DEF buf, Slot
<1>5. IsStr(memory', Slot(Advanced), 0)
  BY <1>1, <1>3 DEF IsStr
<1>6. n' = 0 /\ i' = 0
  BY <1>2, <1>5, StrlenIs
<1>7. pc' \in {"start", "edit", "returned", "killed"}
  BY EnterFacts
<1>8. spilled' \in BOOLEAN
  BY <1>2
<1>9. ran'.arg \in Seq(Chars \cup Range(Settings))
  <2> DEFINE s == Str(Entered, buf)
  <2>1. s \in Seq(Letters)
    BY EnteredIs, StrIs
  <2>2. Letters \subseteq Chars \cup Range(Settings)
    BY DEF Letters
  <2>3. Run(s).arg = <<>> \/ (s # <<>> /\ Run(s).arg = Trimmed(Tail(s)))
    BY DEF Run, Accepts, IsCommand, Argument
  <2> HIDE DEF s
  <2>4. ASSUME s # <<>> PROVE Trimmed(Tail(s)) \in Seq(Letters)
    <3>1. Tail(s) \in Seq(Letters)
      BY <2>1, <2>4
    <3> QED BY <3>1, TrimmedIs
  <2>5. Run(s).arg \in Seq(Letters)
    <3>1. <<>> \in Seq(Letters)
      OBVIOUS
    <3> QED BY <2>3, <2>4, <3>1
  <2>6. Run(s).arg \in Seq(Chars \cup Range(Settings))
    <3> DEFINE r == Run(s).arg
    <3>1. r \in Seq(Letters)
      BY <2>5
    <3> HIDE DEF r
    <3>2. Len(r) \in Nat /\ r = [x \in 1 .. Len(r) |-> r[x]] /\ \A x \in 1 .. Len(r) : r[x] \in Letters
      BY <3>1
    <3>3. r \in Seq(Chars \cup Range(Settings))
      BY <2>2, <3>2
    <3> QED BY <3>3 DEF r
  <2> QED BY <1>2, <2>6 DEF s
<1>10. n_' \in 0 .. H /\ j' \in 0 .. n_' /\ i' \in 0 .. n'
  BY <1>1, <1>2, <1>6
<1>11. n' = strlen(memory', buf') /\ IsStr(memory', buf', n')
  BY <1>2, <1>4, <1>5, <1>6
<1> QED BY <1>3, <1>6, <1>7, <1>8, <1>9, <1>10, <1>11 DEF TypeOK, Mem, Cells

LEMMA EnterKeeps == IInv /\ Enter => IInv'
<1> SUFFICES ASSUME IInv, Enter PROVE IInv'
  OBVIOUS
<1>1. TypeOK' /\ IsStr(memory', buf', n') /\ n' = 0
  BY EnterTypes
<1>2. /\ n_ \in 0 .. H /\ H \in Nat \ {0} /\ N \in Nat \ {0} /\ Advanced \in 0 .. H
      /\ n_' = Advanced /\ spilled' = (spilled \/ Advanced = H) /\ pc = "edit"
  BY AtKey, NextSlot, Constants, EnterFacts
<1>3. Advanced >= n_
  <2>1. n_ < H => Advanced = n_ + 1
    BY NextSlot
  <2>2. n_ = H => Advanced = H
    BY NextSlot
  <2> QED BY <1>2, <2>1, <2>2
<1>4. Fenced'
  <2>1. \A a \in End .. Size - 1 : memory'[a] = memory[a] \/ memory'[a] = NUL
    BY EnterFacts, CommandIs
  <2>2. /\ memory'[Slot(H) + N] = NUL
        /\ n_ < H => memory'[Slot(H) + Len(Settings)] = NUL
        /\ \A k \in n_ + 1 .. H - 1 : memory'[Slot(k)] = NUL
    BY <2>1, FenceStays
  <2>3. n_' < H => n_ < H
    BY <1>2, <1>3
  <2>4. \A k \in n_' + 1 .. H - 1 : k \in n_ + 1 .. H - 1
    BY <1>2, <1>3
  <2>5. \A k \in n_' + 1 .. H - 1 : memory'[Slot(k)] = NUL
    BY <2>2, <2>4
  <2> QED BY <2>2, <2>3, <2>5 DEF Fenced, Slot
<1>5. LineFits'
  <2>1. buf' = Slot(Advanced) /\ End' = EndOf(Advanced)
    BY <1>2 DEF buf, End, Slot, EndOf
  <2>2. Slot(Advanced) \in Nat /\ EndOf(Advanced) \in Nat /\ Slot(Advanced) + N <= EndOf(Advanced)
    BY <1>2, PlacesOf
  <2>3. buf' + n' <= End' /\ n' < N
    BY <1>1, <1>2, <2>1, <2>2
  <2>4. n_' = H => spilled'
    BY <1>2
  <2> QED BY <2>3, <2>4 DEF LineFits
<1>6. SettingsSafe'
  <2> SUFFICES ASSUME Safe' PROVE Saved(memory)'
    BY DEF SettingsSafe
  <2>1. Advanced < H
    BY <1>2 DEF Safe
  <2>2. Saved(memory')
    BY <2>1, EnterSaves
  <2> QED BY <2>2 DEF Saved, Bytes, Slot
<1>7. AtStart'
  BY EnterFacts DEF AtStart
<1>8. TerminalRestored'
  <2> SUFFICES ASSUME pc' = "returned", n_' < H PROVE tty' = Settings
    BY DEF TerminalRestored
  <2>1. tty' = Bytes(memory', Slot(H), Len(Settings))
    BY <1>2, EnterFacts
  <2>2. Saved(memory')
    BY <1>2, EnterSaves
  <2> QED BY <2>1, <2>2 DEF Saved
<1> QED BY <1>1, <1>4, <1>5, <1>6, <1>7, <1>8 DEF IInv

-----------------------------------------------------------------------------
(***************************************************************************)
(* The start and the end of the shell, and the theorems.                   *)
(***************************************************************************)
LEMMA AllNul ==
  ASSUME n_ = 0, n = 0, i = 0, j = 0, memory \in Mem,
         \A a \in 0 .. Slot(H) - 1 : memory[a] = NUL,
         memory[Slot(H) + N] = NUL, memory[Slot(H) + Len(Settings)] = NUL
  PROVE  /\ n_ \in 0 .. H /\ j \in 0 .. n_ /\ i \in 0 .. n
         /\ n = strlen(memory, buf) /\ IsStr(memory, buf, n)
         /\ Fenced /\ buf + n <= End /\ n < N /\ n_ # H
<1>1. H \in Nat \ {0} /\ N \in Nat \ {0}
  BY Constants
<1>2. \A k \in 0 .. H - 1 : Slot(k) \in 0 .. Slot(H) - 1
  <2>1. \A k \in 0 .. H - 1 : k \in Nat /\ H \in Nat /\ k < H
    BY <1>1
  <2>2. \A k \in 0 .. H - 1 : Slot(k) \in Nat /\ Slot(H) \in Nat /\ Slot(k) + N <= Slot(H)
    BY <2>1, Layout
  <2> QED BY <1>1, <2>2
<1>3. buf \in Nat /\ memory[buf] = NUL /\ buf < Size /\ buf <= End
  <2>1. 0 \in 0 .. H - 1 /\ n_ \in 0 .. H
    BY <1>1
  <2>2. buf \in 0 .. Slot(H) - 1
    BY <1>2, <2>1 DEF buf
  <2>3. buf + N <= End /\ End < Size /\ End \in Nat /\ Size \in Nat /\ buf \in Nat
    BY <2>1, Places
  <2> QED BY <1>1, <2>2, <2>3
<1>4. IsStr(memory, buf, n)
  BY <1>3 DEF IsStr
<1>5. n = strlen(memory, buf)
  BY <1>4, StrlenIs
<1>6. \A k \in n_ + 1 .. H - 1 : k \in 0 .. H - 1
  BY <1>1
<1>7. Fenced
  BY <1>2, <1>6 DEF Fenced
<1> QED BY <1>1, <1>3, <1>4, <1>5, <1>7

LEMMA Initial == Init => IInv
<1> SUFFICES ASSUME Init PROVE IInv
  OBVIOUS
<1>1. /\ pc = "start" /\ n_ = 0 /\ j = 0 /\ i = 0 /\ n = 0 /\ spilled = FALSE
      /\ tty = Settings /\ ran.arg = <<>>
      /\ memory = [a \in 0 .. Size - 1 |-> NUL]
  BY DEF Init
<1>2. memory \in Mem /\ \A a \in 0 .. Size - 1 : memory[a] = NUL
  BY <1>1, Constants DEF Mem
<1>3. /\ Size = Slot(H) + N + 1 /\ Slot(H) \in Nat /\ N \in Nat
      /\ Len(Settings) \in Nat /\ Len(Settings) < N
  <2>1. H \in Nat
    BY Constants
  <2> QED BY <2>1, Layout, Constants
<1>4. /\ \A a \in 0 .. Slot(H) - 1 : a \in 0 .. Size - 1
      /\ Slot(H) + N \in 0 .. Size - 1 /\ Slot(H) + Len(Settings) \in 0 .. Size - 1
  BY <1>3
<1>5. /\ n_ \in 0 .. H /\ j \in 0 .. n_ /\ i \in 0 .. n
      /\ n = strlen(memory, buf) /\ IsStr(memory, buf, n)
      /\ Fenced /\ buf + n <= End /\ n < N /\ n_ # H
  BY <1>1, <1>2, <1>4, AllNul
<1>6. ran.arg \in Seq(Chars \cup Range(Settings))
  BY <1>1
<1>7. TypeOK
  BY <1>1, <1>2, <1>5, <1>6 DEF TypeOK, Mem, Cells
<1> QED BY <1>1, <1>5, <1>7 DEF IInv, LineFits, SettingsSafe, AtStart, TerminalRestored

LEMMA ConfigureKeeps == IInv /\ configure => IInv'
<1> SUFFICES ASSUME IInv, configure PROVE IInv'
  OBVIOUS
<1>1. /\ pc' = "edit" /\ memory' = Store(memory, Slot(H), Settings)
      /\ UNCHANGED <<n_, j, i, n, ran, spilled>>
      /\ n_ = 0 /\ n = 0 /\ i = 0 /\ ~spilled
  BY DEF configure, IInv, AtStart
<1>2. /\ memory \in Mem /\ j \in 0 .. n_ /\ Slot(H) \in Nat /\ N \in Nat \ {0} /\ H \in Nat \ {0}
      /\ Len(Settings) \in Nat /\ Len(Settings) < N /\ Size = Slot(H) + N + 1
      /\ Settings \in Seq(Range(Settings))
  <2>1. H \in Nat
    BY Constants
  <2> QED BY <2>1, AtKey, Layout, Constants
<1>3. /\ DOMAIN memory' = 0 .. Size - 1
      /\ \A a \in 0 .. Size - 1 :
           memory'[a] = IF a \in Slot(H) .. Slot(H) + Len(Settings) - 1
                        THEN Settings[a - Slot(H) + 1] ELSE memory[a]
  <2>1. DOMAIN memory = 0 .. Size - 1
    BY <1>2 DEF Mem
  <2> QED BY <1>1, <2>1 DEF Store
<1>4. memory' \in Mem
  <2>1. ASSUME NEW a \in 0 .. Size - 1 PROVE memory'[a] \in Cells
    <3>1. CASE a \in Slot(H) .. Slot(H) + Len(Settings) - 1
      <4>1. a - Slot(H) + 1 \in 1 .. Len(Settings)
        BY <1>2, <3>1
      <4>2. Settings[a - Slot(H) + 1] \in Range(Settings)
        BY <1>2, <4>1
      <4> QED BY <1>3, <3>1, <4>2 DEF Cells
    <3>2. CASE a \notin Slot(H) .. Slot(H) + Len(Settings) - 1
      BY <1>2, <1>3, <3>2 DEF Mem
    <3> QED BY <3>1, <3>2
  <2>2. memory' = [a \in 0 .. Size - 1 |-> memory'[a]]
    BY <1>1, <1>2, <1>3 DEF Store, Mem
  <2> QED BY <2>1, <2>2 DEF Mem
<1>5. ASSUME NEW a \in 0 .. Size - 1, a < Slot(H) \/ a >= Slot(H) + Len(Settings)
      PROVE  memory'[a] = memory[a]
  <2>1. a \notin Slot(H) .. Slot(H) + Len(Settings) - 1
    BY <1>2, <1>5
  <2> QED BY <1>3, <2>1
<1>6. Saved(memory')
  <2>1. ASSUME NEW x \in 1 .. Len(Settings)
        PROVE  memory'[Slot(H) + x - 1] = Settings[x]
    <3> DEFINE y == Slot(H) + x - 1
    <3>1. y \in 0 .. Size - 1 /\ y \in Slot(H) .. Slot(H) + Len(Settings) - 1
          /\ y - Slot(H) + 1 = x
      BY <1>2
    <3> HIDE DEF y
    <3>2. memory'[y] = Settings[x]
      BY <1>3, <3>1
    <3> QED BY <3>2 DEF y
  <2>2. Settings = [x \in 1 .. Len(Settings) |-> Settings[x]]
    BY <1>2
  <2> QED BY <2>1, <2>2 DEF Saved, Bytes
<1>7. IsStr(memory', buf, 0)
  <2>1. buf \in Nat /\ buf + N <= Slot(H) /\ memory[buf] = NUL
    <3>1. Safe
      BY <1>1, <1>2 DEF Safe
    <3>2. buf + n = buf /\ buf \in Nat
      BY <1>1, AtKey
    <3> QED BY <3>1, <3>2, BeforeSettings, AtKey
  <2>2. buf \in 0 .. Size - 1 /\ buf < Slot(H) /\ buf + 0 = buf /\ buf < Size
    BY <1>2, <2>1
  <2> QED BY <1>5, <2>1, <2>2 DEF IsStr
<1>8. Fenced'
  <2>1. Fenced
    BY DEF IInv
  <2>2. Slot(H) + N \in 0 .. Size - 1 /\ Slot(H) + N >= Slot(H) + Len(Settings)
    BY <1>2
  <2>3. Slot(H) + Len(Settings) \in 0 .. Size - 1 /\ Slot(H) + Len(Settings) >= Slot(H) + Len(Settings)
    BY <1>2
  <2>4. ASSUME NEW k \in n_ + 1 .. H - 1 PROVE memory'[Slot(k)] = NUL
    <3>1. k \in Nat /\ H \in Nat /\ k < H
      BY <1>1, <1>2
    <3>2. Slot(k) \in Nat /\ Slot(k) + N <= Slot(H)
      BY <3>1, Layout
    <3>3. Slot(k) \in 0 .. Size - 1 /\ Slot(k) < Slot(H)
      BY <1>2, <3>2
    <3> QED BY <1>5, <2>1, <3>3 DEF Fenced
  <2>5. memory'[Slot(H) + N] = NUL /\ memory'[Slot(H) + Len(Settings)] = NUL
    BY <1>1, <1>2, <1>5, <2>1, <2>2, <2>3 DEF Fenced
  <2> QED BY <1>1, <2>4, <2>5 DEF Fenced, Slot
<1>9. LineFits'
  BY <1>1 DEF IInv, LineFits, buf, End, EndOf, Slot
<1>10. TypeOK'
  <2>1. n' = strlen(memory', buf')
    <3>1. strlen(memory', buf) = 0
      BY <1>7, StrlenIs
    <3> QED BY <1>1, <3>1 DEF buf, Slot
  <2> QED BY <1>1, <1>4, <2>1 DEF IInv, TypeOK, Mem, Cells
<1>11. IsStr(memory, buf, n)'
  <2>1. buf' = buf /\ n' = 0
    BY <1>1 DEF buf, Slot
  <2> QED BY <1>7, <2>1 DEF IsStr, Size
<1>12. SettingsSafe'
  BY <1>6 DEF SettingsSafe, Saved, Bytes, Slot
<1>13. AtStart' /\ TerminalRestored'
  BY <1>1 DEF AtStart, TerminalRestored
<1> QED BY <1>8, <1>9, <1>10, <1>11, <1>12, <1>13 DEF IInv

LEMMA Inductive == IInv /\ [Next]_vars => IInv'
<1> SUFFICES ASSUME IInv, [Next]_vars PROVE IInv'
  OBVIOUS
<1>1. CASE configure
  BY <1>1, ConfigureKeeps
<1>2. CASE Right
  BY <1>2, RightKeeps
<1>3. CASE Left
  BY <1>3, LeftKeeps
<1>4. CASE Up \/ Down
  BY <1>4, HistoryKeeps
<1>5. CASE KillLine
  BY <1>5, KillLineKeeps
<1>6. CASE Delete
  BY <1>6, DeleteKeeps
<1>7. CASE Backspace
  BY <1>7, BackspaceKeeps
<1>8. CASE Blank
  BY <1>8, BlankKeeps
<1>9. CASE \E c \in Signs : Printable(c)
  BY <1>9, PrintableKeeps
<1>10. CASE EnterNothing
  BY <1>10, EnterNothingKeeps
<1>11. CASE Enter
  BY <1>11, EnterKeeps
<1>12. CASE Interrupt \/ UNCHANGED vars
  <2>1. UNCHANGED <<memory, n_, j, i, n, ran, tty, spilled>> /\ (pc' = pc \/ pc' = "killed")
    BY <1>12 DEF Interrupt, vars
  <2>2. TypeOK'
    BY <2>1 DEF IInv, TypeOK, strlen, Size, buf, Slot
  <2>3. IsStr(memory, buf, n)' /\ Fenced' /\ LineFits'
    BY <2>1 DEF IInv, IsStr, Fenced, LineFits, End, EndOf, buf, Slot, Size
  <2>4. SettingsSafe' /\ AtStart' /\ TerminalRestored'
    BY <2>1 DEF IInv, SettingsSafe, Safe, Saved, Bytes, Slot, AtStart, TerminalRestored
  <2> QED BY <2>2, <2>3, <2>4 DEF IInv
<1> QED BY <1>1, <1>2, <1>3, <1>4, <1>5, <1>6, <1>7, <1>8, <1>9, <1>10, <1>11, <1>12 DEF Next

\* A line that is q and blanks is q when it is run, while a slot comes next.
LEMMA QuitIsRun ==
  ASSUME IInv, n_ < H, Quits(Trimmed(Str(memory, buf)))
  PROVE  Str(Entered, buf) = Trimmed(Str(memory, buf))
<1> DEFINE t == Trimmed(Str(memory, buf))  q == Slot(Advanced)
           trimmed == StoreStr(memory, buf, t)
<1>1. /\ memory \in Mem /\ buf \in Nat /\ n \in Nat /\ End \in Nat /\ End < Size
      /\ Size \in Nat /\ buf + n <= End /\ q = buf + N /\ N \in Nat \ {0}
      /\ q < Size
  BY AtKey, NextSlot
<1>2. /\ t \in Seq(Letters) /\ Len(t) \in Nat /\ Len(t) <= n
      /\ t # <<>> => t[Len(t)] # Space
  <2>1. Str(memory, buf) \in Seq(Letters) /\ Len(Str(memory, buf)) = n
    <3>1. 0 \in 0 .. n /\ buf + 0 = buf /\ n - 0 = n
      BY <1>1
    <3> QED BY <3>1, RestIs
  <2> QED BY <2>1, TrimmedIs
<1>3. Entered = [trimmed EXCEPT ![q] = NUL]
  BY DEF Entered, shell_strtrim
<1> HIDE DEF t, q, trimmed
<1>4. t # <<>> /\ t[1] = "q" /\ Argument(t) = <<>>
  <2>1. Accepts(t) /\ t[1] = "q"
    BY DEF Quits, t
  <2>2. IsCommand(t) /\ (Commands[t[1]] = 1) = (Argument(t) # <<>>)
    BY <2>1 DEF Accepts
  <2>3. t # <<>> /\ t[1] \in Faces
    BY <2>2 DEF IsCommand
  <2>4. Commands["q"] = 0
    BY <2>1, <2>3, ShellAssumption
  <2>5. ~(Commands[t[1]] = 1)
    BY <2>1, <2>4
  <2> QED BY <2>1, <2>2, <2>3, <2>5
<1>5. Len(t) = 1
  <2> SUFFICES ASSUME Len(t) # 1 PROVE FALSE
    OBVIOUS
  <2>1. Len(t) > 1
    <3>1. Len(t) # 0
      BY <1>2, <1>4
    <3> QED BY <1>2, <3>1
  <2>2. /\ Tail(t) \in Seq(Letters) /\ Len(Tail(t)) = Len(t) - 1
        /\ Tail(t)[Len(t) - 1] = t[Len(t)]
    BY <1>2, <1>4, <2>1
  <2>3. Len(t) - 1 \in Inner(Tail(t))
    BY <1>2, <1>4, <2>1, <2>2 DEF Inner
  <2>4. Trimmed(Tail(t)) = <<>> => Inner(Tail(t)) = {}
    BY <2>2, TrimmedIs
  <2> QED BY <1>4, <2>3, <2>4 DEF Argument
<1>6. /\ trimmed \in Mem
      /\ \A a \in 0 .. Size - 1 :
           trimmed[a] = IF a \in buf .. buf + Len(t) - 1 THEN t[a - buf + 1]
                        ELSE IF a = buf + Len(t) THEN NUL ELSE memory[a]
  <2>1. buf + Len(t) < Size
    BY <1>1, <1>2
  <2> QED BY <1>1, <1>2, <2>1, StoreStrIs DEF trimmed
<1>7. Entered \in Mem /\ Entered[q] = NUL
      /\ \A a \in 0 .. Size - 1 : a # q => Entered[a] = trimmed[a]
  <2>1. q \in 0 .. Size - 1
    BY <1>1
  <2> QED BY <1>3, <1>6, <2>1, Constants DEF Mem
<1>8. buf \in 0 .. Size - 1 /\ buf # q /\ buf + 1 \in 0 .. Size - 1
  BY <1>1, <1>2, <1>5
<1>9. Entered[buf] = t[1]
  <2>1. buf \in buf .. buf + Len(t) - 1 /\ buf - buf + 1 = 1
    BY <1>1, <1>5
  <2> QED BY <1>6, <1>7, <1>8, <2>1
<1>10. Entered[buf + 1] = NUL
  <2>1. buf + 1 \notin buf .. buf + Len(t) - 1 /\ buf + 1 = buf + Len(t)
    BY <1>1, <1>5
  <2> QED BY <1>6, <1>7, <1>8, <2>1
<1>11. IsStr(Entered, buf, 1)
  <2>1. t[1] # NUL
    <3>1. t[1] \in Letters
      BY <1>2, <1>5
    <3> QED BY <3>1, Constants
  <2>2. \A x \in buf .. buf + 1 - 1 : x = buf
    BY <1>1
  <2>3. buf + 1 < Size
    BY <1>1, <1>8
  <2>4. \A x \in buf .. buf + 1 - 1 : Entered[x] # NUL
    BY <1>9, <2>1, <2>2
  <2> QED BY <1>1, <1>10, <2>3, <2>4 DEF IsStr
<1>12. /\ Str(Entered, buf) \in Seq(Letters) /\ Len(Str(Entered, buf)) = 1
       /\ Str(Entered, buf)[1] = t[1]
  <2>1. 1 \in 1 .. 1 /\ buf + 1 - 1 = buf
    BY <1>1
  <2> DEFINE k == 1
  <2>0. IsStr(Entered, buf, k) /\ 1 \in 1 .. k
    BY <1>11
  <2> HIDE DEF k
  <2>2. /\ Str(Entered, buf) \in Seq(Letters) /\ Len(Str(Entered, buf)) = k
        /\ \A x \in 1 .. k : Str(Entered, buf)[x] = Entered[buf + x - 1]
    BY <1>7, <2>0, StrIs
  <2>3. Str(Entered, buf)[1] = Entered[buf + 1 - 1]
    BY <2>0, <2>2
  <2>4. k = 1
    BY DEF k
  <2> QED BY <2>4, <1>9, <2>1, <2>2, <2>3
<1>13. Str(Entered, buf) = t
  <2> DEFINE u == Str(Entered, buf)
  <2>1. u \in Seq(Letters) /\ Len(u) = 1 /\ u[1] = t[1]
    BY <1>12
  <2> HIDE DEF u
  <2>2. u = t
    BY <1>2, <1>5, <2>1
  <2> QED BY <2>2 DEF u
<1> QED BY <1>13 DEF t

LEMMA AlwaysIInv == Spec => []IInv
<1> QED BY Initial, Inductive, PTL DEF Spec

\* Every line that is edited, of any length and with any history: the cursor
\* is in it, and n is the length of its string, which read_line keeps by hand.
THEOREM TypeCorrect == Spec => []TypeOK
<1>1. IInv => TypeOK
  BY DEF IInv
<1> QED BY <1>1, AlwaysIInv, PTL

\* The terminal gets its settings back when shell returns before the history
\* is full: no key changed them where they are saved, behind the last slot.
THEOREM RestoredCorrect == Spec => []TerminalRestored
<1>1. IInv => TerminalRestored
  BY DEF IInv
<1> QED BY <1>1, AlwaysIInv, PTL

\* A line that says quit ends the shell, until the history is full.
THEOREM QuitCorrect == Spec => QuitReturns
<1> DEFINE Ended == pc = "edit" /\ (\E s \in {Trimmed(Str(memory, buf))} : Quits(s))
                     /\ n_' # n_ => pc' = "returned"
<1>1. IInv /\ [Next]_vars => [Ended]_vars
  <2> SUFFICES ASSUME IInv, Next, pc = "edit", n_' # n_,
                      \E s \in {Trimmed(Str(memory, buf))} : Quits(s)
               PROVE  pc' = "returned"
    OBVIOUS
  <2>1. Enter
    BY DEF Next, configure, Right, Left, Up, Down, KillLine, Delete, Backspace, Blank,
           Printable, EnterNothing, Edits, Interrupt, Key
  <2>2. n_ < H
    <3>1. n_' = Advanced /\ n_ \in 0 .. H /\ H \in Nat
      BY <2>1, EnterFacts, AtKey, Constants
    <3>2. n_ = H => Advanced = n_
      BY NextSlot
    <3> QED BY <3>1, <3>2
  <2>3. Quits(Trimmed(Str(memory, buf)))
    OBVIOUS
  <2>4. Quits(Str(Entered, buf))
    BY <2>2, <2>3, QuitIsRun
  <2> QED BY <2>1, <2>4, EnterFacts
<1> QED BY <1>1, AlwaysIInv, PTL DEF Spec, QuitReturns

-----------------------------------------------------------------------------
(***************************************************************************)
(* The shell implements LineEditor: while nothing has spilled, the line    *)
(* and the entered lines are strings of less than N characters, each in    *)
(* its slot, and every key changes the line as the editor says.            *)
(***************************************************************************)
Text == Str(memory, buf)
Lines == [k \in 1 .. n_ |-> Str(memory, Slot(k - 1))]

\* The lines of the history end in their slots.
Closed == ~spilled => \A k \in 0 .. n_ - 1 : \E z \in 0 .. N - 1 : memory[Slot(k) + z] = NUL

EdInv == IInv /\ Closed

\* Two memories with the same string.
LEMMA SameStr ==
  ASSUME NEW m1 \in Mem, NEW m2 \in Mem, NEW p, NEW k, IsStr(m1, p, k),
         \A a \in p .. p + k : m2[a] = m1[a]
  PROVE  IsStr(m2, p, k) /\ Str(m2, p) = Str(m1, p)
<1>1. p \in Nat /\ k \in Nat
  BY DEF IsStr
<1>2. IsStr(m2, p, k)
  <2>1. p + k \in p .. p + k /\ \A x \in p .. p + k - 1 : x \in p .. p + k
    BY <1>1
  <2> QED BY <2>1 DEF IsStr
<1>3. \A x \in 1 .. k : m2[p + x - 1] = m1[p + x - 1]
  <2>1. \A x \in 1 .. k : p + x - 1 \in p .. p + k
    BY <1>1
  <2> QED BY <2>1
<1>4. strlen(m1, p) = k /\ strlen(m2, p) = k
  BY <1>2, StrlenIs
<1> QED BY <1>2, <1>3, <1>4 DEF Str, Bytes

\* A line of the history ends before the next one.
LEMMA LineIs ==
  ASSUME EdInv, ~spilled, NEW k \in 0 .. n_ - 1
  PROVE  LET z == strlen(memory, Slot(k))
         IN  /\ IsStr(memory, Slot(k), z) /\ z < N /\ Slot(k) \in Nat
             /\ Slot(k) + N <= buf
<1>1. /\ memory \in Mem /\ N \in Nat \ {0} /\ n_ \in Nat /\ k \in Nat /\ k < n_
      /\ buf \in Nat /\ Size \in Nat /\ buf < Size
  <2>1. /\ memory \in Mem /\ N \in Nat \ {0} /\ buf \in Nat /\ End \in Nat /\ Size \in Nat
        /\ buf + N <= End /\ End < Size /\ n_ \in 0 .. H
    BY AtKey DEF EdInv
  <2>2. buf < Size
    BY <2>1
  <2>3. n_ \in Nat /\ k \in Nat /\ k < n_
    BY <2>1, Constants
  <2> QED BY <2>1, <2>2, <2>3
<1>2. Slot(k) \in Nat /\ Slot(k) + N <= buf
  BY <1>1, Layout DEF buf
<1>3. PICK z \in 0 .. N - 1 : memory[Slot(k) + z] = NUL
  BY DEF EdInv, Closed
<1>4. Slot(k) + z \in Nat /\ Slot(k) <= Slot(k) + z /\ Slot(k) + z < Size
  BY <1>1, <1>2
<1>5. /\ IsStr(memory, Slot(k), strlen(memory, Slot(k)))
      /\ strlen(memory, Slot(k)) \in Nat /\ Slot(k) + strlen(memory, Slot(k)) <= Slot(k) + z
  BY <1>2, <1>3, <1>4, StrlenExists
<1> QED BY <1>1, <1>2, <1>5

LEMMA TextPrime ==
  /\ Text' = Str(memory', buf')
  /\ Lines' = [k \in 1 .. n_' |-> Str(memory', Slot(k - 1))]
<1>1. Text' = Str(memory', buf')
  BY DEF Text, Str, Bytes, strlen, Slot, Size, Min, buf
<1>2. Lines' = [k \in 1 .. n_' |-> Str(memory', Slot(k - 1))]
  BY DEF Lines, Str, Bytes, strlen, Slot, Size, Min
<1> QED BY <1>1, <1>2

LEMMA TextIs ==
  ASSUME EdInv
  PROVE  /\ Text \in Seq(Letters) /\ Len(Text) = n /\ n \in Nat /\ i \in 0 .. n
         /\ j \in 0 .. n_ /\ n_ \in 0 .. H /\ n_ \in Nat
         /\ ~spilled => Lines \in Seq(Seq(Letters)) /\ Len(Lines) = n_
         /\ ~spilled => n < N /\ n_ < H
<1>1. /\ memory \in Mem /\ N \in Nat \ {0} /\ buf \in Nat /\ n \in Nat /\ i \in 0 .. n
      /\ n_ \in 0 .. H /\ j \in 0 .. n_ /\ H \in Nat
  BY AtKey, Constants DEF EdInv
<1>2. Text \in Seq(Letters) /\ Len(Text) = n
  BY <1>1, StrIs DEF EdInv, IInv, Text
<1>3. ~spilled => n < N /\ n_ < H
  <2>1. ~spilled => n < N /\ n_ # H
    BY DEF EdInv, IInv, LineFits
  <2> QED BY <1>1, <2>1
<1>4. ASSUME ~spilled PROVE Lines \in Seq(Seq(Letters)) /\ Len(Lines) = n_
  <2>1. \A k \in 1 .. n_ : Str(memory, Slot(k - 1)) \in Seq(Letters)
    <3>1. ASSUME NEW k \in 1 .. n_ PROVE Str(memory, Slot(k - 1)) \in Seq(Letters)
      <4>1. k - 1 \in 0 .. n_ - 1
        BY <1>1
      <4>2. PICK z : IsStr(memory, Slot(k - 1), z)
        BY <1>4, <4>1, LineIs
      <4> QED BY <1>1, <4>2, StrIs
    <3> QED BY <3>1
  <2>2. n_ \in Nat
    BY <1>1
  <2> QED BY <2>1, <2>2 DEF Lines
<1> QED BY <1>1, <1>2, <1>3, <1>4

\* The rest of the line from its k-th character on.
LEMMA RestText ==
  ASSUME EdInv, NEW k \in 0 .. n
  PROVE  /\ Str(memory, buf + k) = SubSeq(Text, k + 1, n)
         /\ Str(memory, buf + k) \in Seq(Letters) /\ Len(Str(memory, buf + k)) = n - k
<1>1. n \in Nat /\ buf \in Nat /\ memory \in Mem
  BY AtKey DEF EdInv
<1>2. /\ Text \in Seq(Letters) /\ Len(Text) = n
      /\ \A x \in 1 .. n : Text[x] = memory[buf + x - 1]
  BY <1>1, StrIs DEF EdInv, IInv, Text
<1>3. /\ Str(memory, buf + k) \in Seq(Letters) /\ Len(Str(memory, buf + k)) = n - k
      /\ \A x \in 1 .. n - k : Str(memory, buf + k)[x] = memory[buf + k + x - 1]
  BY RestIs DEF EdInv
<1> DEFINE u == Str(memory, buf + k)  w == SubSeq(Text, k + 1, n)
<1>4. w \in Seq(Letters) /\ Len(w) = n - k /\ \A x \in 1 .. n - k : w[x] = Text[k + x]
  BY <1>1, <1>2
<1> HIDE DEF u, w
<1>5. \A x \in 1 .. n - k : u[x] = w[x]
  <2>1. ASSUME NEW x \in 1 .. n - k PROVE u[x] = w[x]
    <3>1. k + x \in 1 .. n /\ buf + (k + x) - 1 = buf + k + x - 1
      BY <1>1
    <3> QED BY <1>2, <1>3, <1>4, <3>1 DEF u
  <2> QED BY <2>1
<1>6. u = w
  <2>1. u \in Seq(Letters) /\ Len(u) = n - k
    BY <1>3 DEF u
  <2> QED BY <1>4, <1>5, <2>1
<1> QED BY <1>3, <1>6 DEF u, w

\* The string u stored at the k-th character of the line.
LEMMA StoredText ==
  ASSUME EdInv, NEW k \in 0 .. n, NEW u \in Seq(Letters), NEW m,
         m = StoreStr(memory, buf + k, u), k + Len(u) <= n \/ k + Len(u) <= N
  PROVE  /\ m \in Mem /\ \A a \in 0 .. buf - 1 : m[a] = memory[a]
         /\ IsStr(m, buf, k + Len(u))
         /\ Str(m, buf) = SubSeq(Text, 1, k) \o u
<1>1. /\ memory \in Mem /\ buf \in Nat /\ n \in Nat /\ N \in Nat
      /\ \A x \in buf .. buf + n - 1 : memory[x] # NUL
      /\ buf + n <= End /\ buf + N <= End /\ End < Size /\ End \in Nat /\ Size \in Nat
  BY AtKey DEF EdInv
<1>2. Len(u) \in Nat /\ buf + k \in Nat /\ buf + k + Len(u) < Size
  BY <1>1
<1>3. /\ m \in Mem /\ IsStr(m, buf, k + Len(u))
      /\ \A a \in 0 .. Size - 1 : a \notin buf + k .. buf + k + Len(u) => m[a] = memory[a]
  <2> DEFINE p == buf + k
  <2>1. /\ p \in Nat /\ buf <= p /\ p + Len(u) < Size /\ m = StoreStr(memory, p, u)
        /\ p - buf + Len(u) = k + Len(u)
    BY <1>1, <1>2
  <2>2. \A x \in buf .. p - 1 : memory[x] # NUL
    BY <1>1
  <2> HIDE DEF p
  <2>3. /\ m \in Mem /\ IsStr(m, buf, p - buf + Len(u))
        /\ \A a \in 0 .. Size - 1 : a \notin p .. p + Len(u) => m[a] = memory[a]
    BY <1>1, <2>1, <2>2, StoredBehind
  <2> QED BY <2>1, <2>3 DEF p
<1>4. \A a \in 0 .. Size - 1 :
        m[a] = IF a \in buf + k .. buf + k + Len(u) - 1 THEN u[a - (buf + k) + 1]
               ELSE IF a = buf + k + Len(u) THEN NUL ELSE memory[a]
  <2> DEFINE p == buf + k
  <2>1. p \in Nat /\ p + Len(u) < Size /\ m = StoreStr(memory, p, u)
    BY <1>1, <1>2
  <2> HIDE DEF p
  <2>2. \A a \in 0 .. Size - 1 :
          m[a] = IF a \in p .. p + Len(u) - 1 THEN u[a - p + 1]
                 ELSE IF a = p + Len(u) THEN NUL ELSE memory[a]
    BY <1>1, <2>1, StoreStrIs
  <2> QED BY <2>2 DEF p
<1>5. /\ Str(m, buf) \in Seq(Letters) /\ Len(Str(m, buf)) = k + Len(u)
      /\ \A x \in 1 .. k + Len(u) : Str(m, buf)[x] = m[buf + x - 1]
  BY <1>3, StrIs
<1>6. /\ Text \in Seq(Letters) /\ Len(Text) = n
      /\ \A x \in 1 .. n : Text[x] = memory[buf + x - 1]
  BY <1>1, StrIs DEF EdInv, IInv, Text
<1> DEFINE w == SubSeq(Text, 1, k) \o u
<1>7. /\ w \in Seq(Letters) /\ Len(w) = k + Len(u)
      /\ \A x \in 1 .. k + Len(u) : w[x] = IF x <= k THEN Text[x] ELSE u[x - k]
  <2>1. /\ SubSeq(Text, 1, k) \in Seq(Letters) /\ Len(SubSeq(Text, 1, k)) = k
        /\ \A x \in 1 .. k : SubSeq(Text, 1, k)[x] = Text[x]
    BY <1>6
  <2> DEFINE v == SubSeq(Text, 1, k)
  <2> HIDE DEF v
  <2>2. v \in Seq(Letters) /\ Len(v) = k /\ \A x \in 1 .. k : v[x] = Text[x]
    BY <2>1 DEF v
  <2>3. /\ v \o u \in Seq(Letters) /\ Len(v \o u) = k + Len(u)
        /\ \A x \in 1 .. k + Len(u) : (v \o u)[x] = IF x <= k THEN v[x] ELSE u[x - k]
    BY <2>2, ConcatIs
  <2> QED BY <1>2, <2>2, <2>3 DEF v
<1> HIDE DEF w
<1>8. ASSUME NEW x \in 1 .. k + Len(u) PROVE Str(m, buf)[x] = w[x]
  <2> DEFINE a == buf + x - 1
  <2>1. a \in 0 .. Size - 1 /\ Str(m, buf)[x] = m[a]
    BY <1>1, <1>2, <1>5
  <2>2. CASE x <= k
    <3>1. a \notin buf + k .. buf + k + Len(u) /\ x \in 1 .. n
      BY <1>1, <1>2, <2>2
    <3> QED BY <1>3, <1>6, <1>7, <2>1, <2>2, <3>1
  <2>3. CASE ~(x <= k)
    <3>1. a \in buf + k .. buf + k + Len(u) - 1 /\ a - (buf + k) + 1 = x - k
      BY <1>1, <1>2, <2>3
    <3> HIDE DEF a
    <3> QED BY <1>4, <1>7, <2>1, <2>3, <3>1
  <2> QED BY <2>2, <2>3
<1>9. Str(m, buf) = w
  <2> DEFINE v == Str(m, buf)
  <2>1. v \in Seq(Letters) /\ Len(v) = k + Len(u) /\ \A x \in 1 .. k + Len(u) : v[x] = w[x]
    BY <1>5, <1>8
  <2> HIDE DEF v
  <2>2. v = w
    BY <1>7, <2>1
  <2> QED BY <2>2 DEF v
<1>10. ASSUME NEW a \in 0 .. buf - 1 PROVE m[a] = memory[a]
  <2>1. a \in 0 .. Size - 1 /\ a \notin buf + k .. buf + k + Len(u)
    BY <1>1, <1>2
  <2> QED BY <1>3, <2>1
<1> QED BY <1>3, <1>9, <1>10 DEF w

\* What happens in the slot of the line or behind it leaves the history alone.
LEMMA LinesStay ==
  ASSUME EdInv, ~spilled, NEW m \in Mem, \A a \in 0 .. buf - 1 : m[a] = memory[a],
         NEW k \in 0 .. n_ - 1
  PROVE  /\ Str(m, Slot(k)) = Str(memory, Slot(k))
         /\ \E z \in 0 .. N - 1 : m[Slot(k) + z] = NUL
<1>1. memory \in Mem /\ buf \in Nat /\ N \in Nat
  BY AtKey DEF EdInv
<1>2. PICK z : /\ IsStr(memory, Slot(k), z) /\ z < N /\ Slot(k) \in Nat
               /\ Slot(k) + N <= buf
  BY LineIs
<1>3. z \in 0 .. N - 1
  BY <1>1, <1>2 DEF IsStr
<1>4. \A a \in Slot(k) .. Slot(k) + z : a \in 0 .. buf - 1
  BY <1>1, <1>2, <1>3
<1>5. IsStr(m, Slot(k), z) /\ Str(m, Slot(k)) = Str(memory, Slot(k))
  BY <1>1, <1>2, <1>4, SameStr
<1> QED BY <1>3, <1>5 DEF IsStr

LEMMA HistoryStays ==
  ASSUME EdInv, ~spilled, memory' \in Mem, n_' = n_,
         \A a \in 0 .. buf - 1 : memory'[a] = memory[a]
  PROVE  Lines' = Lines /\ Closed' /\ Text' = Str(memory', buf)
<1>1. ASSUME NEW k \in 0 .. n_ - 1
      PROVE  /\ Str(memory', Slot(k)) = Str(memory, Slot(k))
             /\ \E z \in 0 .. N - 1 : memory'[Slot(k) + z] = NUL
  <2> DEFINE m == memory'
  <2>1. m \in Mem /\ \A a \in 0 .. buf - 1 : m[a] = memory[a]
    OBVIOUS
  <2> HIDE DEF m
  <2>2. /\ Str(m, Slot(k)) = Str(memory, Slot(k))
        /\ \E z \in 0 .. N - 1 : m[Slot(k) + z] = NUL
    BY <2>1, LinesStay
  <2> QED BY <2>2 DEF m
<1>2. Lines' = Lines
  <2>1. n_ \in Nat /\ \A k \in 1 .. n_ : k - 1 \in 0 .. n_ - 1
    BY TextIs
  <2>2. \A k \in 1 .. n_ : Str(memory', Slot(k - 1)) = Str(memory, Slot(k - 1))
    BY <1>1, <2>1
  <2> QED BY <2>2, TextPrime DEF Lines
<1>3. Closed'
  BY <1>1 DEF Closed, Slot
<1> QED BY <1>2, <1>3, TextPrime DEF buf, Slot

\* The map of the states, as far as a step needs it.
LEMMA Mapped ==
  ASSUME ~spilled
  PROVE  /\ Editor!Before = SubSeq(Text, 1, i)
         /\ Editor!Behind = SubSeq(Text, i + 1, Len(Text))
  BY DEF Editor!Before, Editor!Behind, Text

LEMMA Changes ==
  ASSUME ~spilled, ~spilled', pc = "edit", pc' = "edit", Lines' = Lines, ran' = ran,
         NEW s, NEW c, Text' = s, Len(s) < N, i' = c
  PROVE  Editor!Change(s, c)
  BY DEF Editor!Change, Text, Lines

\* Every key that stores the string u at the k-th character of the line.
LEMMA EditIs ==
  ASSUME EdInv, ~spilled, Key, NEW k \in 0 .. n, NEW u \in Seq(Letters),
         memory' = StoreStr(memory, buf + k, u), k + Len(u) <= n \/ k + Len(u) <= N
  PROVE  /\ Closed' /\ Lines' = Lines /\ Text' = SubSeq(Text, 1, k) \o u
         /\ pc = "edit" /\ pc' = "edit" /\ ran' = ran
         /\ Len(Text') = k + Len(u) /\ strlen(memory', buf) = k + Len(u)
<1>1. n_' = n_ /\ pc = "edit" /\ pc' = "edit" /\ ran' = ran
  BY DEF Key
<1>2. /\ memory' \in Mem /\ \A a \in 0 .. buf - 1 : memory'[a] = memory[a]
      /\ IsStr(memory', buf, k + Len(u))
      /\ Str(memory', buf) = SubSeq(Text, 1, k) \o u
  BY StoredText
<1>3. Lines' = Lines /\ Closed' /\ Text' = Str(memory', buf)
  BY <1>1, <1>2, HistoryStays
<1>4. Len(Text') = k + Len(u) /\ strlen(memory', buf) = k + Len(u)
  BY <1>2, <1>3, StrIs, StrlenIs
<1> QED BY <1>1, <1>2, <1>3, <1>4

\* A key does nothing that shows once a line has spilled.
LEMMA Lost ==
  ASSUME spilled, spilled'
  PROVE  UNCHANGED Editor!vars /\ Closed'
  BY DEF Editor!vars, Closed

\* The editor's side of a key, and what the history keeps.
Edits_ == Closed' /\ (Editor!Next \/ UNCHANGED Editor!vars)

LEMMA MoveEdits == EdInv /\ (Right \/ Left) => Edits_
<1> SUFFICES ASSUME EdInv, Right \/ Left PROVE Edits_
  OBVIOUS
<1>1. /\ Key /\ UNCHANGED <<memory, j, n, spilled>>
      /\ i' = IF Right THEN IF i < n THEN i + 1 ELSE n ELSE IF i > 0 THEN i - 1 ELSE 0
  BY DEF Right, Left, Cursor
<1>2. CASE spilled
  BY <1>1, <1>2, Lost DEF Edits_
<1>3. CASE ~spilled
  <2>1. n \in Nat /\ i \in 0 .. n /\ Len(Text) = n /\ n < N
    BY <1>3, TextIs
  <2>2. memory \in Mem /\ n_' = n_ /\ pc = "edit" /\ pc' = "edit" /\ ran' = ran
    BY <1>1, AtKey DEF EdInv, Key
  <2>3. Lines' = Lines /\ Closed' /\ Text' = Text
    BY <1>1, <1>3, <2>2, HistoryStays DEF Text
  <2>4. CASE i' = i
    <3>1. UNCHANGED Editor!vars
      BY <1>1, <1>3, <2>2, <2>3, <2>4 DEF Editor!vars, Text, Lines
    <3> QED BY <2>3, <3>1 DEF Edits_
  <2>5. CASE i' # i
    <3>1. PICK d \in {-1, 1} : i' = i + d /\ i + d \in 0 .. n
      <4>1. i' \in 0 .. n /\ (i' = i + 1 \/ i' = i + (-1))
        BY <1>1, <2>1, <2>5
      <4> QED BY <4>1
    <3>2. Editor!Change(Text, i + d)
      BY <1>1, <1>3, <2>1, <2>2, <2>3, <3>1, Changes
    <3>3. Editor!Move(d)
      BY <1>1, <1>3, <2>1, <3>1, <3>2 DEF Editor!Move, Text
    <3> QED BY <2>3, <3>3 DEF Edits_, Editor!Next
  <2> QED BY <2>4, <2>5
<1> QED BY <1>2, <1>3

LEMMA DeleteEdits == EdInv /\ Delete => Edits_
<1> SUFFICES ASSUME EdInv, Delete PROVE Edits_
  OBVIOUS
<1>1. Key /\ n > i /\ j' = j /\ i' = i /\ spilled' = spilled
  BY DEF Delete
<1>2. CASE spilled
  BY <1>1, <1>2, Lost DEF Edits_
<1>3. CASE ~spilled
  <2>1. /\ n \in Nat /\ i \in 0 .. n - 1 /\ Text \in Seq(Letters) /\ Len(Text) = n /\ n < N
        /\ buf \in Nat
    BY <1>1, <1>3, TextIs, AtKey DEF EdInv
  <2> DEFINE u == Str(memory, buf + (i + 1))
  <2>2. /\ u = SubSeq(Text, i + 1 + 1, n) /\ u \in Seq(Letters) /\ Len(u) = n - (i + 1)
    <3>1. i + 1 \in 0 .. n
      BY <2>1
    <3> QED BY <3>1, RestText
  <2>3. memory' = StoreStr(memory, buf + i, u)
    <3>1. buf + i + 1 = buf + (i + 1)
      BY <2>1
    <3> QED BY <3>1 DEF Delete
  <2> HIDE DEF u
  <2>4. /\ Closed' /\ Lines' = Lines /\ Text' = SubSeq(Text, 1, i) \o u
        /\ pc = "edit" /\ pc' = "edit" /\ ran' = ran /\ Len(Text') = i + Len(u)
    <3>1. i \in 0 .. n /\ i + Len(u) <= n
      BY <2>1, <2>2
    <3> QED BY <1>1, <1>3, <2>2, <2>3, <3>1, EditIs
  <2>5. Editor!Behind # <<>> /\ u = Tail(Editor!Behind)
    <3>1. i + 1 \in 1 .. Len(Text) /\ n \in i + 1 .. Len(Text)
      BY <2>1
    <3>2. Tail(SubSeq(Text, i + 1, n)) = SubSeq(Text, i + 1 + 1, n)
      BY <2>1, <3>1, HeadTailOfSubSeq
    <3>3. SubSeq(Text, i + 1, n) # <<>>
      <4>1. Len(SubSeq(Text, i + 1, n)) = n - i
        BY <2>1
      <4> QED BY <2>1, <4>1
    <3> QED BY <1>3, <2>1, <2>2, <3>2, <3>3, Mapped
  <2>6. Editor!Change(Editor!Before \o Tail(Editor!Behind), i)
    <3>1. Editor!Before \o Tail(Editor!Behind) = Text'
      BY <1>3, <2>4, <2>5, Mapped
    <3>2. Len(Text') < N
      BY <2>1, <2>2, <2>4, Constants
    <3>3. PICK s : s = Editor!Before \o Tail(Editor!Behind)
      OBVIOUS
    <3>4. Editor!Change(s, i)
      BY <1>1, <1>3, <2>4, <3>1, <3>2, <3>3, Changes
    <3> QED BY <3>3, <3>4
  <2>7. Editor!Delete
    BY <1>1, <1>3, <2>5, <2>6 DEF Editor!Delete
  <2> QED BY <2>4, <2>7 DEF Edits_, Editor!Next
<1> QED BY <1>2, <1>3

LEMMA BackspaceEdits == EdInv /\ Backspace => Edits_
<1> SUFFICES ASSUME EdInv, Backspace PROVE Edits_
  OBVIOUS
<1>1. Key /\ 0 < i /\ j' = j /\ i' = i - 1 /\ spilled' = spilled
  BY DEF Backspace
<1>2. CASE spilled
  BY <1>1, <1>2, Lost DEF Edits_
<1>3. CASE ~spilled
  <2>1. /\ n \in Nat /\ i \in 1 .. n /\ Text \in Seq(Letters) /\ Len(Text) = n /\ n < N
        /\ buf \in Nat
    BY <1>1, <1>3, TextIs, AtKey DEF EdInv
  <2> DEFINE u == Str(memory, buf + i)
  <2>2. /\ u = SubSeq(Text, i + 1, n) /\ u \in Seq(Letters) /\ Len(u) = n - i
    BY <2>1, RestText
  <2>3. memory' = StoreStr(memory, buf + (i - 1), u)
    <3>1. buf + i - 1 = buf + (i - 1)
      BY <2>1
    <3> QED BY <3>1 DEF Backspace
  <2> HIDE DEF u
  <2>4. /\ Closed' /\ Lines' = Lines /\ Text' = SubSeq(Text, 1, i - 1) \o u
        /\ pc = "edit" /\ pc' = "edit" /\ ran' = ran /\ Len(Text') = i - 1 + Len(u)
    <3>1. i - 1 \in 0 .. n /\ i - 1 + Len(u) <= n
      BY <2>1, <2>2
    <3> QED BY <1>1, <1>3, <2>2, <2>3, <3>1, EditIs
  <2>5. Editor!Change(SubSeq(Text, 1, i - 1) \o Editor!Behind, i - 1)
    <3>1. SubSeq(Text, 1, i - 1) \o Editor!Behind = Text'
      BY <1>3, <2>1, <2>2, <2>4, Mapped
    <3>2. Len(Text') < N
      BY <2>1, <2>2, <2>4, Constants
    <3>3. PICK s : s = SubSeq(Text, 1, i - 1) \o Editor!Behind
      OBVIOUS
    <3>4. Editor!Change(s, i - 1)
      BY <1>1, <1>3, <2>4, <3>1, <3>2, <3>3, Changes
    <3> QED BY <3>3, <3>4
  <2>6. Editor!Erase
    BY <1>1, <1>3, <2>5 DEF Editor!Erase, Text
  <2> QED BY <2>4, <2>6 DEF Edits_, Editor!Next
<1> QED BY <1>2, <1>3

\* What is stored is there.
LEMMA StrStored ==
  ASSUME NEW m \in Mem, NEW p, NEW s \in Seq(Letters), IsStr(m, p, Len(s)),
         \A x \in 1 .. Len(s) : m[p + x - 1] = s[x]
  PROVE  Str(m, p) = s
<1> DEFINE u == Str(m, p)
<1>1. /\ u \in Seq(Letters) /\ Len(u) = Len(s)
      /\ \A x \in 1 .. Len(s) : u[x] = s[x]
  BY StrIs
<1> HIDE DEF u
<1>2. u = s
  BY <1>1
<1> QED BY <1>2 DEF u

LEMMA KillLineEdits == EdInv /\ KillLine => Edits_
<1> SUFFICES ASSUME EdInv, KillLine PROVE Edits_
  OBVIOUS
<1>1. Key /\ memory' = [memory EXCEPT ![buf + i] = NUL] /\ UNCHANGED <<j, i, spilled>>
  BY DEF KillLine
<1>2. CASE spilled
  BY <1>1, <1>2, Lost DEF Edits_
<1>3. CASE ~spilled
  <2>1. /\ n \in Nat /\ i \in 0 .. n /\ Text \in Seq(Letters) /\ Len(Text) = n /\ n < N
        /\ buf \in Nat /\ memory \in Mem /\ N \in Nat
    BY <1>3, TextIs, AtKey DEF EdInv
  <2>2. buf + i \in 0 .. Size - 1
    <3>1. buf + n <= End /\ End < Size /\ End \in Nat /\ Size \in Nat
      BY AtKey DEF EdInv
    <3> QED BY <2>1, <3>1
  <2> DEFINE u == <<>>
  <2>3. u \in Seq(Letters) /\ Len(u) = 0
    OBVIOUS
  <2>4. memory' = StoreStr(memory, buf + i, u)
    BY <1>1, <2>1, <2>2, NulIs
  <2> HIDE DEF u
  <2>5. /\ Closed' /\ Lines' = Lines /\ Text' = SubSeq(Text, 1, i) \o u
        /\ pc = "edit" /\ pc' = "edit" /\ ran' = ran
    <3>1. i + Len(u) <= n
      BY <2>1, <2>3
    <3> QED BY <1>1, <1>3, <2>1, <2>3, <2>4, <3>1, EditIs
  <2>6. Text' = SubSeq(Text, 1, i) /\ Len(SubSeq(Text, 1, i)) = i
    <3>1. SubSeq(Text, 1, i) \in Seq(Letters) /\ Len(SubSeq(Text, 1, i)) = i
      BY <2>1
    <3>2. SubSeq(Text, 1, i) \o u = SubSeq(Text, 1, i)
      BY <3>1, ConcatEmptySeq DEF u
    <3> QED BY <2>5, <3>1, <3>2
  <2>7. Editor!Before = Text'
    BY <1>3, <2>6, Mapped
  <2>8. PICK s : s = Editor!Before
    OBVIOUS
  <2>9. Len(s) < N
    <3>1. Len(s) = i
      BY <2>6, <2>7, <2>8
    <3> QED BY <2>1, <3>1
  <2>10. Editor!Change(s, i)
    BY <1>1, <1>3, <2>5, <2>7, <2>8, <2>9, Changes
  <2>11. Editor!Cut
    BY <1>1, <1>3, <2>8, <2>10 DEF Editor!Cut
  <2> QED BY <2>5, <2>11 DEF Edits_, Editor!Next
<1> QED BY <1>2, <1>3

LEMMA Inserted ==
  ASSUME NEW S, NEW a \in Seq(S), NEW t \in Seq(S), NEW c \in S
  PROVE  a \o (<<c>> \o t) = Append(a, c) \o t
<1> DEFINE b == <<c>>
<1>1. b \in Seq(S) /\ Append(a, c) = a \o b
  BY AppendIsConcat
<1> HIDE DEF b
<1>2. (a \o b) \o t = a \o (b \o t)
  BY <1>1, ConcatAssociative
<1> QED BY <1>1, <1>2 DEF b

\* A character more.
LEMMA TypeEdits ==
  ASSUME EdInv, ~spilled, Key, NEW c \in Letters, c \in Chars, n + 1 < N,
         memory' = StoreStr(memory, buf + i, <<c>> \o Str(memory, buf + i)),
         i' = i + 1, j' = j, ~spilled'
  PROVE  Edits_
<1>1. /\ n \in Nat /\ i \in 0 .. n /\ Text \in Seq(Letters) /\ Len(Text) = n
      /\ buf \in Nat /\ N \in Nat
  BY TextIs, AtKey DEF EdInv
<1> DEFINE t == Str(memory, buf + i)  u == <<c>> \o t  a == SubSeq(Text, 1, i)
<1>2. t \in Seq(Letters) /\ t = SubSeq(Text, i + 1, n) /\ Len(t) = n - i
  BY <1>1, RestText
<1>3. a \in Seq(Letters) /\ Len(a) = i
  BY <1>1
<1> HIDE DEF t
<1>4. <<c>> \in Seq(Letters) /\ Len(<<c>>) = 1 /\ u \in Seq(Letters) /\ Len(u) = 1 + Len(t)
  BY <1>2
<1> HIDE DEF a
<1>5. a \o u = Append(a, c) \o t
  <2>1. t \in Seq(Letters) /\ a \in Seq(Letters)
    BY <1>2, <1>3
  <2>2. \A x, y \in Seq(Letters) : x \o (<<c>> \o y) = Append(x, c) \o y
    BY Inserted
  <2> QED BY ONLY <2>1, <2>2
<1>6. memory' = StoreStr(memory, buf + i, u)
  BY DEF t
<1> HIDE DEF u
<1>7. /\ Closed' /\ Lines' = Lines /\ Text' = SubSeq(Text, 1, i) \o u
      /\ pc = "edit" /\ pc' = "edit" /\ ran' = ran /\ Len(Text') = i + Len(u)
  <2>1. i + Len(u) <= N
    BY <1>1, <1>2, <1>4
  <2> QED BY <1>1, <1>4, <1>6, <2>1, EditIs
<1>8. Append(Editor!Before, c) \o Editor!Behind = Text'
  <2>1. Editor!Before = a /\ Editor!Behind = t
    BY <1>1, <1>2, Mapped DEF a
  <2> QED BY <1>5, <1>7, <2>1 DEF a
<1>9. Len(Text') < N
  BY <1>1, <1>2, <1>4, <1>7
<1>10. PICK s : s = Append(Editor!Before, c) \o Editor!Behind
  OBVIOUS
<1>11. Editor!Change(s, i + 1)
  BY <1>7, <1>8, <1>9, <1>10, Changes
<1>12. Editor!Type(c)
  BY <1>10, <1>11 DEF Editor!Type
<1>13. c \in DOMAIN Commands \cup Others \cup {" "}
  BY DEF Chars, Signs, Faces, Space
<1> QED BY <1>7, <1>12, <1>13 DEF Edits_, Editor!Next

LEMMA PrintableEdits == ASSUME NEW c \in Signs PROVE EdInv /\ Printable(c) => Edits_
<1> SUFFICES ASSUME EdInv, Printable(c) PROVE Edits_
  OBVIOUS
<1>1. /\ Key /\ n + 1 < N /\ i' = i + 1 /\ j' = j /\ spilled' = spilled
  BY DEF Printable
<1>2. CASE spilled
  BY <1>1, <1>2, Lost DEF Edits_
<1>3. CASE ~spilled
  <2>1. c \in Letters /\ c \in Chars
    BY Constants DEF Chars
  <2>2. memory' = StoreStr(memory, buf + i, <<c>> \o Str(memory, buf + i))
    BY PrintableIs DEF EdInv
  <2> QED BY <1>1, <1>3, <2>1, <2>2, TypeEdits
<1> QED BY <1>2, <1>3

\* A blank in the last byte of the slot loses the line.
LEMMA BlankEdits == EdInv /\ Blank => Edits_
<1> SUFFICES ASSUME EdInv, Blank PROVE Edits_
  OBVIOUS
<1>1. /\ Key /\ N > n /\ i' = i + 1 /\ n' = n + 1 /\ j' = j
      /\ spilled' = (spilled \/ n' >= N)
      /\ memory' = StoreStr(memory, buf + i, <<Space>> \o Str(memory, buf + i))
  BY DEF Blank
<1>2. CASE spilled
  BY <1>1, <1>2, Lost DEF Edits_
<1>3. CASE ~spilled
  <2>1. n \in Nat /\ Len(Text) = n /\ N \in Nat
    BY TextIs, Constants
  <2>2. CASE n + 1 < N
    <3>1. ~spilled'
      <4>1. ~(n' >= N)
        BY <1>1, <2>1, <2>2
      <4> QED BY <1>1, <1>3, <4>1
    <3>2. Space \in Letters /\ Space \in Chars
      BY Constants DEF Chars
    <3> QED BY <1>1, <1>3, <2>2, <3>1, <3>2, TypeEdits
  <2>3. CASE ~(n + 1 < N)
    <3>1. n + 1 = N /\ n' >= N
      BY <1>1, <2>1, <2>3
    <3>2. spilled' /\ pc = "edit"
      BY <1>1, <3>1 DEF Key
    <3>3. Editor!Lose
      BY <1>3, <2>1, <3>1, <3>2 DEF Editor!Lose, Text
    <3>4. Closed'
      BY <3>2 DEF Closed
    <3> QED BY <3>3, <3>4 DEF Edits_, Editor!Next
  <2> QED BY <2>2, <2>3
<1> QED BY <1>2, <1>3

\* A string copied into a slot.
LEMMA CopyIs ==
  ASSUME NEW m \in Mem, NEW p \in Nat, p + N < Size, NEW s \in Seq(Letters), Len(s) < N
  PROVE  LET r == strncpy(m, p, s)
         IN  /\ r \in Mem /\ IsStr(r, p, Len(s)) /\ Str(r, p) = s
             /\ \A a \in 0 .. p - 1 : r[a] = m[a]
<1> DEFINE r == strncpy(m, p, s)
           t == [x \in 1 .. N |-> IF x <= Len(s) THEN s[x] ELSE NUL]
<1>1. N \in Nat /\ Size \in Nat /\ Len(s) \in Nat /\ NUL \notin Letters /\ NUL \in Cells
  BY Constants, Layout
<1>2. Len(t) = N /\ \A x \in 1 .. N : t[x] \in Cells
  <2>1. \A x \in 1 .. N : x <= Len(s) => s[x] \in Letters
    BY <1>1
  <2> QED BY <1>1, <2>1, Constants
<1>3. /\ \A x \in 1 .. Len(s) : t[x] = s[x]
      /\ t[Len(s) + 1] = NUL
  BY <1>1
<1>4. DOMAIN m = 0 .. Size - 1 /\ \A a \in 0 .. Size - 1 : m[a] \in Cells
  BY DEF Mem
<1>5. r = [a \in 0 .. Size - 1 |-> IF a \in p .. p + N - 1 THEN t[a - p + 1] ELSE m[a]]
  <2>1. r = Store(m, p, t)
    BY DEF strncpy
  <2> HIDE DEF t, r
  <2> QED BY <1>2, <1>4, <2>1 DEF Store
<1> HIDE DEF t
<1> HIDE DEF r
<1>6. r \in Mem
  <2>1. ASSUME NEW a \in p .. p + N - 1 PROVE a - p + 1 \in 1 .. N
    BY <1>1
  <2> QED BY <1>2, <1>4, <1>5, <2>1 DEF Mem
<1>7. \A a \in 0 .. p - 1 : r[a] = m[a]
  <2>1. \A a \in 0 .. p - 1 : a \in 0 .. Size - 1 /\ a \notin p .. p + N - 1
    BY <1>1
  <2> QED BY <1>5, <2>1
<1>8. ASSUME NEW x \in 1 .. Len(s) PROVE r[p + x - 1] = s[x] /\ s[x] \in Letters
  <2> DEFINE a == p + x - 1
  <2>1. a \in 0 .. Size - 1 /\ a \in p .. p + N - 1 /\ a - p + 1 = x
    BY <1>1
  <2> HIDE DEF a
  <2>2. r[a] = t[x]
    BY <1>5, <2>1
  <2> QED BY <1>3, <2>2 DEF a
<1>9. r[p + Len(s)] = NUL
  <2> DEFINE a == p + Len(s)
  <2>1. a \in 0 .. Size - 1 /\ a \in p .. p + N - 1 /\ a - p + 1 = Len(s) + 1
    BY <1>1
  <2> HIDE DEF a
  <2> QED BY <1>3, <1>5, <2>1 DEF a
<1>10. IsStr(r, p, Len(s))
  <2>1. ASSUME NEW y \in p .. p + Len(s) - 1 PROVE r[y] # NUL
    <3> DEFINE x == y - p + 1
    <3>1. x \in 1 .. Len(s) /\ p + x - 1 = y
      BY <1>1
    <3> HIDE DEF x
    <3> QED BY <1>1, <1>8, <3>1
  <2>2. p + Len(s) < Size
    BY <1>1
  <2> QED BY <1>1, <1>9, <2>1, <2>2 DEF IsStr
<1>11. Str(r, p) = s
  BY <1>6, <1>8, <1>10, StrStored
<1> QED BY <1>6, <1>7, <1>10, <1>11 DEF r

\* A key that empties the line.
LEMMA Emptied ==
  ASSUME EdInv, ~spilled, Key, memory' = StoreStr(memory, buf, <<>>)
  PROVE  /\ Closed' /\ Lines' = Lines /\ Text' = <<>> /\ strlen(memory', buf) = 0
         /\ pc = "edit" /\ pc' = "edit" /\ ran' = ran
<1>1. n \in Nat /\ buf \in Nat /\ Text \in Seq(Letters) /\ N \in Nat
  BY TextIs, AtKey DEF EdInv
<1> DEFINE u == <<>>
<1>2. u \in Seq(Letters) /\ Len(u) = 0 /\ SubSeq(Text, 1, 0) \o u = <<>>
  <2>1. SubSeq(Text, 1, 0) = <<>>
    BY <1>1
  <2> QED BY <2>1, ConcatEmptySeq
<1>3. memory' = StoreStr(memory, buf + 0, u)
  <2>1. buf + 0 = buf
    BY <1>1
  <2> QED BY <2>1
<1> HIDE DEF u
<1> DEFINE k == 0
<1>4. k \in 0 .. n /\ k + Len(u) <= n
  BY <1>1, <1>2
<1>5. memory' = StoreStr(memory, buf + k, u)
  BY <1>3
<1> HIDE DEF k
<1>6. /\ Closed' /\ Lines' = Lines /\ Text' = SubSeq(Text, 1, k) \o u
      /\ pc = "edit" /\ pc' = "edit" /\ ran' = ran
      /\ strlen(memory', buf) = k + Len(u)
  BY <1>2, <1>4, <1>5, EditIs
<1>7. k + Len(u) = 0
  BY <1>2 DEF k
<1> QED BY <1>2, <1>6, <1>7 DEF k

LEMMA Recalls ==
  ASSUME ~spilled, ~spilled', pc = "edit", pc' = "edit", Lines' = Lines, ran' = ran,
         NEW k, k # Len(Lines), Text' = Lines[k + 1], Len(Lines[k + 1]) < N,
         i' = Len(Lines[k + 1]), j' = k
  PROVE  Editor!Recall(k)
  BY DEF Editor!Recall, Editor!Change, Text, Lines

\* The line behind the last one entered is empty.
LEMMA RecallEdits ==
  ASSUME EdInv, ~spilled, Key, NEW k \in 0 .. n_, Recall(k)
  PROVE  Closed' /\ Editor!Recall(k)
<1>1. /\ n \in Nat /\ N \in Nat \ {0} /\ buf \in Nat /\ memory \in Mem /\ n_ \in Nat
      /\ Size \in Nat /\ buf + N < Size /\ k \in Nat
  <2>1. buf + N <= End /\ End < Size /\ End \in Nat /\ Size \in Nat /\ buf \in Nat /\ N \in Nat \ {0}
    BY AtKey DEF EdInv
  <2>2. buf + N < Size
    BY <2>1
  <2> QED BY <2>1, <2>2, TextIs, AtKey DEF EdInv
<1> DEFINE emptied == [memory EXCEPT ![buf] = NUL]
<1>2. /\ j' = k /\ n' = strlen(memory', buf) /\ i' = n'
      /\ spilled' = (spilled \/ n' >= N)
      /\ memory' = IF Slot(k) = buf THEN emptied
                   ELSE strncpy(emptied, buf, Str(emptied, Slot(k)))
  BY DEF Recall
<1>3. buf \in 0 .. Size - 1
  BY <1>1
<1>4. Len(Lines) = n_
  BY TextIs
<1>5. CASE k = n_
  <2>1. memory' = StoreStr(memory, buf, <<>>)
    <3>1. Slot(k) = buf
      BY <1>5 DEF buf
    <3> QED BY <1>1, <1>2, <1>3, <3>1, NulIs
  <2>2. /\ Closed' /\ Lines' = Lines /\ Text' = <<>> /\ strlen(memory', buf) = 0
        /\ pc = "edit" /\ pc' = "edit" /\ ran' = ran
    BY <2>1, Emptied
  <2>3. n' = 0 /\ i' = 0 /\ ~(n' >= N)
    BY <1>1, <1>2, <2>2
  <2>4. ~spilled'
    BY <1>2, <2>3
  <2>5. Editor!Change(<<>>, 0)
    <3>1. Len(<<>>) < N
      BY <1>1
    <3> QED BY <2>2, <2>3, <2>4, <3>1, Changes
  <2>6. Editor!Recall(k)
    <3>1. Len(<<>>) = 0
      OBVIOUS
    <3> QED BY <1>2, <1>4, <1>5, <2>4, <2>5, <3>1 DEF Editor!Recall, Lines
  <2> QED BY <2>2, <2>6
<1>6. CASE k # n_
  <2> DEFINE s == Lines[k + 1]
  <2>1. k \in 0 .. n_ - 1 /\ k + 1 \in 1 .. n_ /\ k + 1 - 1 = k
    BY <1>1, <1>6
  <2>2. s = Str(memory, Slot(k))
    BY <2>1 DEF Lines
  <2>3. PICK z : /\ IsStr(memory, Slot(k), z) /\ z < N /\ Slot(k) \in Nat
                 /\ Slot(k) + N <= buf
    BY <2>1, LineIs
  <2>4. /\ emptied \in Mem
        /\ \A a \in 0 .. Size - 1 : a # buf => emptied[a] = memory[a]
    BY <1>1, <1>3, Constants DEF Mem
  <2> HIDE DEF emptied, s
  <2>5. Str(emptied, Slot(k)) = s
    <3>1. z \in Nat
      BY <2>3 DEF IsStr
    <3>2. \A a \in Slot(k) .. Slot(k) + z : a \in 0 .. Size - 1 /\ a # buf
      BY <1>1, <2>3, <3>1
    <3>3. \A a \in Slot(k) .. Slot(k) + z : emptied[a] = memory[a]
      BY <2>4, <3>2
    <3> QED BY <1>1, <2>2, <2>3, <2>4, <3>3, SameStr
  <2>6. s \in Seq(Letters) /\ Len(s) = z /\ Len(s) < N
    BY <1>1, <2>2, <2>3, StrIs
  <2>7. Slot(k) # buf
    BY <1>1, <2>3
  <2>8. memory' = strncpy(emptied, buf, s)
    BY <1>2, <2>5, <2>7
  <2>9. /\ memory' \in Mem /\ IsStr(memory', buf, Len(s)) /\ Str(memory', buf) = s
        /\ \A a \in 0 .. buf - 1 : memory'[a] = emptied[a]
    BY <1>1, <2>4, <2>6, <2>8, CopyIs
  <2>10. \A a \in 0 .. buf - 1 : memory'[a] = memory[a]
    <3>1. \A a \in 0 .. buf - 1 : a \in 0 .. Size - 1 /\ a # buf
      BY <1>1
    <3> QED BY <2>4, <2>9, <3>1
  <2>11. pc = "edit" /\ pc' = "edit" /\ ran' = ran /\ n_' = n_
    BY DEF Key
  <2>12. Lines' = Lines /\ Closed' /\ Text' = s
    BY <2>9, <2>10, <2>11, HistoryStays
  <2>13. n' = Len(s) /\ i' = Len(s) /\ ~(n' >= N)
    <3>1. strlen(memory', buf) = Len(s)
      BY <2>9, StrlenIs
    <3> QED BY <1>1, <1>2, <2>6, <3>1
  <2>14. ~spilled'
    BY <1>2, <2>13
  <2>15. Editor!Recall(k)
    BY <1>2, <1>4, <1>6, <2>6, <2>11, <2>12, <2>13, <2>14, Recalls DEF s
  <2> QED BY <2>12, <2>15
<1> QED BY <1>5, <1>6

LEMMA HistoryEdits == EdInv /\ (Up \/ Down) => Edits_
<1> SUFFICES ASSUME EdInv, Up \/ Down PROVE Edits_
  OBVIOUS
<1>1. Key /\ (spilled => spilled')
  BY DEF Up, Down, Recall
<1>2. CASE spilled
  BY <1>1, <1>2, Lost DEF Edits_
<1>3. CASE ~spilled
  <2>1. n_ \in Nat /\ j \in 0 .. n_ /\ Len(Lines) = n_
    BY <1>3, TextIs
  <2>2. CASE Up
    <3>1. 0 < j /\ Recall(j - 1) /\ j - 1 \in 0 .. n_
      BY <2>1, <2>2 DEF Up
    <3>2. Closed' /\ Editor!Recall(j - 1)
      BY <1>1, <1>3, <3>1, RecallEdits
    <3>3. Editor!Up
      BY <1>3, <2>1, <3>1, <3>2 DEF Editor!Up
    <3> QED BY <3>2, <3>3 DEF Edits_, Editor!Next
  <2>3. CASE Down
    <3>1. n_ > j /\ Recall(j + 1) /\ j + 1 \in 0 .. n_
      BY <2>1, <2>3 DEF Down
    <3>2. Closed' /\ Editor!Recall(j + 1)
      BY <1>1, <1>3, <3>1, RecallEdits
    <3>3. Editor!Down
      BY <1>3, <2>1, <3>1, <3>2 DEF Editor!Down, Lines
    <3> QED BY <3>2, <3>3 DEF Edits_, Editor!Next
  <2> QED BY <2>2, <2>3
<1> QED BY <1>2, <1>3

LEMMA StripIs == \A s : Editor!Strip(s) = Trimmed(s) /\ Editor!Solid(s) = Inner(s)
<1>1. ASSUME NEW S PROVE Editor!Min(S) = Min(S) /\ Editor!Max(S) = Max(S)
  BY DEF Editor!Min, Min, Editor!Max, Max
<1>2. ASSUME NEW s PROVE Editor!Solid(s) = Inner(s)
  BY DEF Editor!Solid, Inner, Space
<1>3. ASSUME NEW s PROVE Editor!Strip(s) = Trimmed(s)
  BY <1>1, <1>2 DEF Editor!Strip, Trimmed
<1> QED BY <1>2, <1>3

LEMMA EnterNothingEdits == EdInv /\ EnterNothing => Edits_
<1> SUFFICES ASSUME EdInv, EnterNothing PROVE Edits_
  OBVIOUS
<1>1. /\ pc = "edit" /\ UNCHANGED <<pc, n_, ran, tty, spilled>> /\ Empty
      /\ memory' = StoreStr(memory, buf, <<>>)
      /\ j' = n_ /\ n' = strlen(memory', buf) /\ i' = n'
  BY DEF EnterNothing, Empty, shell_strtrim, Edits, buf
<1>2. CASE spilled
  BY <1>1, <1>2, Lost DEF Edits_
<1>3. CASE ~spilled
  <2>1. Key
    BY <1>1 DEF Key
  <2>2. /\ Closed' /\ Lines' = Lines /\ Text' = <<>> /\ strlen(memory', buf) = 0
        /\ pc = "edit" /\ pc' = "edit" /\ ran' = ran
    BY <1>1, <1>3, <2>1, Emptied
  <2>3. Editor!Solid(Text) = {}
    <3>1. Text \in Seq(Letters)
      BY TextIs
    <3>2. Trimmed(Text) = <<>>
      BY <1>1 DEF Empty, Text
    <3>3. Inner(Text) = {}
      BY <3>1, <3>2, TrimmedIs
    <3> QED BY <3>3, StripIs
  <2>4. i' = 0 /\ Len(Lines) = n_
    BY <1>1, <1>3, <2>2, TextIs
  <2>5. Editor!EnterBlank
    BY <1>1, <1>3, <2>2, <2>3, <2>4 DEF Editor!EnterBlank, Editor!Fresh, Text, Lines
  <2> QED BY <2>2, <2>5 DEF Edits_, Editor!Next
<1> QED BY <1>2, <1>3

\* What is entered is the line without the blanks around it.
LEMMA EnteredText ==
  ASSUME EdInv, ~spilled
  PROVE  LET t == Trimmed(Text)
         IN  /\ t \in Seq(Letters) /\ Len(t) \in Nat /\ Len(t) < N
             /\ Entered \in Mem /\ IsStr(Entered, buf, Len(t)) /\ Str(Entered, buf) = t
             /\ \A a \in 0 .. buf - 1 : Entered[a] = memory[a]
             /\ Entered[buf + N] = NUL /\ Slot(Advanced) = buf + N /\ Advanced = n_ + 1
             /\ buf \in Nat /\ buf + N < Size
<1> DEFINE t == Trimmed(Text)  m == StoreStr(memory, buf, t)
<1>1. /\ memory \in Mem /\ buf \in Nat /\ n \in Nat /\ n < N /\ N \in Nat /\ Size \in Nat
      /\ Slot(Advanced) = buf + N /\ Advanced = n_ + 1 /\ buf + N < Size
  <2>1. n_ < H /\ n < N
    BY TextIs
  <2>2. Slot(Advanced) = buf + N /\ Advanced = n_ + 1 /\ Slot(Advanced) < Size
    BY <2>1, NextSlot DEF EdInv
  <2> QED BY <2>1, <2>2, AtKey DEF EdInv
<1>2. t \in Seq(Letters) /\ Len(t) \in Nat /\ Len(t) <= n
  BY TextIs, TrimmedIs
<1>3. Entered = [m EXCEPT ![buf + N] = NUL]
  BY <1>1 DEF Entered, shell_strtrim, Text
<1> HIDE DEF t
<1>4. /\ m \in Mem /\ \A a \in 0 .. buf - 1 : m[a] = memory[a]
      /\ IsStr(m, buf, Len(t)) /\ Str(m, buf) = t
  <2> DEFINE k == 0
  <2>1. k \in 0 .. n /\ k + Len(t) <= n /\ k + Len(t) = Len(t)
    BY <1>1, <1>2
  <2>2. buf + k = buf
    BY <1>1
  <2>3. SubSeq(Text, 1, k) \o t = t
    <3>1. SubSeq(Text, 1, k) = <<>>
      BY TextIs
    <3> QED BY <1>2, <3>1, ConcatEmptySeq
  <2> HIDE DEF k
  <2> QED BY <1>2, <2>1, <2>2, <2>3, StoredText
<1> HIDE DEF m
<1>5. buf + N \in 0 .. Size - 1
  BY <1>1
<1>6. /\ Entered \in Mem /\ Entered[buf + N] = NUL
      /\ \A a \in 0 .. Size - 1 : a # buf + N => Entered[a] = m[a]
  BY <1>3, <1>4, <1>5, Constants DEF Mem
<1>7. ASSUME NEW a \in 0 .. buf + Len(t) PROVE Entered[a] = m[a]
  <2>1. a \in 0 .. Size - 1 /\ a # buf + N
    BY <1>1, <1>2
  <2> QED BY <1>6, <2>1
<1>8. IsStr(Entered, buf, Len(t)) /\ Str(Entered, buf) = t
  <2>1. \A a \in buf .. buf + Len(t) : a \in 0 .. buf + Len(t)
    BY <1>1, <1>2
  <2> QED BY <1>4, <1>6, <1>7, <2>1, SameStr
<1>9. \A a \in 0 .. buf - 1 : Entered[a] = memory[a]
  <2>1. \A a \in 0 .. buf - 1 : a \in 0 .. buf + Len(t)
    BY <1>1, <1>2
  <2> QED BY <1>4, <1>7, <2>1
<1> QED BY <1>1, <1>2, <1>6, <1>8, <1>9 DEF t

\* And its command trims the argument in the history.
Kept(t) == IF IsCommand(t) THEN <<t[1]>> \o Argument(t) ELSE t

LEMMA CommandText ==
  ASSUME EdInv, ~spilled
  PROVE  LET t == Trimmed(Text)  m == shell_fnc(Entered, buf)
         IN  /\ m \in Mem /\ m[buf + N] = NUL
             /\ \A a \in 0 .. buf - 1 : m[a] = memory[a]
             /\ Str(m, buf) = Kept(t) /\ Kept(t) \in Seq(Letters)
             /\ \E z \in 0 .. N - 1 : m[buf + z] = NUL
<1> DEFINE t == Trimmed(Text)  m == shell_fnc(Entered, buf)
<1>1. /\ t \in Seq(Letters) /\ Len(t) \in Nat /\ Len(t) < N
      /\ Entered \in Mem /\ IsStr(Entered, buf, Len(t)) /\ Str(Entered, buf) = t
      /\ \A a \in 0 .. buf - 1 : Entered[a] = memory[a]
      /\ Entered[buf + N] = NUL /\ Slot(Advanced) = buf + N
      /\ buf \in Nat /\ buf + N < Size
  BY EnteredText
<1>2. N \in Nat /\ Size \in Nat
  BY Constants, Layout
<1> HIDE DEF t
<1>3. CASE ~IsCommand(t)
  <2>1. m = Entered /\ Kept(t) = t
    BY <1>1, <1>3 DEF shell_fnc, Kept
  <2>2. Len(t) \in 0 .. N - 1 /\ Entered[buf + Len(t)] = NUL
    BY <1>1, <1>2 DEF IsStr
  <2> QED BY <1>1, <2>1, <2>2 DEF t
<1>4. CASE IsCommand(t)
  <2> DEFINE r == Str(Entered, buf + 1)  u == Argument(t)
  <2>1. t # <<>> /\ Len(t) > 0
    BY <1>1, <1>4 DEF IsCommand
  <2>2. r = Tail(t)
    <3>1. IsStr(Entered, buf + 1, Len(t) - 1)
      <4>1. Len(t) - 1 \in Nat /\ buf + 1 \in Nat /\ buf + 1 + (Len(t) - 1) = buf + Len(t)
        BY <1>1, <2>1
      <4>2. \A x \in buf + 1 .. buf + Len(t) - 1 : x \in buf .. buf + Len(t) - 1
        BY <1>1
      <4> QED BY <1>1, <4>1, <4>2 DEF IsStr
    <3> DEFINE w == Tail(t)
    <3>2. w \in Seq(Letters) /\ Len(w) = Len(t) - 1 /\ \A x \in 1 .. Len(t) - 1 : w[x] = t[x + 1]
      BY <1>1, <2>1
    <3>3. \A x \in 1 .. Len(t) : t[x] = Entered[buf + x - 1]
      BY <1>1, StrIs
    <3> HIDE DEF w
    <3>4. ASSUME NEW x \in 1 .. Len(w) PROVE Entered[buf + 1 + x - 1] = w[x]
      <4>1. x + 1 \in 1 .. Len(t) /\ buf + (x + 1) - 1 = buf + 1 + x - 1 /\ x \in 1 .. Len(t) - 1
        BY <1>1, <3>2
      <4> QED BY <3>2, <3>3, <4>1
    <3>5. r = w
      BY <1>1, <3>1, <3>2, <3>4, StrStored
    <3> QED BY <3>5 DEF w
  <2>3. u \in Seq(Letters) /\ Len(u) \in Nat /\ Len(u) <= Len(t) - 1
    <3>1. Tail(t) \in Seq(Letters) /\ Len(Tail(t)) = Len(t) - 1
      BY <1>1, <2>1
    <3> QED BY <3>1, TrimmedIs DEF Argument
  <2>4. m = StoreStr(Entered, buf + 1, u)
    BY <1>1, <1>4, <2>2 DEF shell_fnc, shell_strtrim, Argument
  <2> HIDE DEF r, u, m
  <2>5. /\ m \in Mem /\ IsStr(m, buf, 1 + Len(u))
        /\ \A a \in 0 .. Size - 1 : a \notin buf + 1 .. buf + 1 + Len(u) => m[a] = Entered[a]
    <3> DEFINE p == buf + 1
    <3>1. /\ p \in Nat /\ buf <= p /\ p + Len(u) < Size
          /\ p - buf + Len(u) = 1 + Len(u)
      BY <1>1, <1>2, <2>3
    <3>2. \A x \in buf .. p - 1 : x \in buf .. buf + Len(t) - 1
      BY <1>1, <2>1
    <3>3. \A x \in buf .. p - 1 : Entered[x] # NUL
      BY <1>1, <3>2 DEF IsStr
    <3>4. m = StoreStr(Entered, p, u)
      BY <2>4
    <3> HIDE DEF p
    <3>5. /\ m \in Mem /\ IsStr(m, buf, p - buf + Len(u))
          /\ \A a \in 0 .. Size - 1 : a \notin p .. p + Len(u) => m[a] = Entered[a]
      BY <1>1, <2>3, <3>1, <3>3, <3>4, StoredBehind
    <3> QED BY <3>1, <3>5 DEF p
  <2>6. \A a \in 0 .. Size - 1 : a \in buf + 1 .. buf + 1 + Len(u) - 1 => m[a] = u[a - (buf + 1) + 1]
    <3>1. buf + 1 \in Nat /\ buf + 1 + Len(u) < Size
      BY <1>1, <1>2, <2>3
    <3> QED BY <1>1, <2>3, <2>4, <3>1, StoreStrIs
  <2>7. m[buf + N] = NUL /\ \A a \in 0 .. buf - 1 : m[a] = memory[a]
    <3>1. buf + N \in 0 .. Size - 1 /\ buf + N \notin buf + 1 .. buf + 1 + Len(u)
      BY <1>1, <1>2, <2>3
    <3>2. \A a \in 0 .. buf - 1 : a \in 0 .. Size - 1 /\ a \notin buf + 1 .. buf + 1 + Len(u)
      BY <1>1, <1>2, <2>3
    <3> QED BY <1>1, <2>5, <3>1, <3>2
  <2> DEFINE w == <<t[1]>> \o u
  <2>8. /\ w \in Seq(Letters) /\ Len(w) = 1 + Len(u) /\ w[1] = t[1]
        /\ \A x \in 2 .. 1 + Len(u) : w[x] = u[x - 1]
    <3> DEFINE b == <<t[1]>>
    <3>1. t[1] \in Letters
      BY <1>1, <2>1
    <3>2. b \in Seq(Letters) /\ Len(b) = 1 /\ b[1] = t[1]
      BY <3>1
    <3> HIDE DEF b
    <3>3. /\ b \o u \in Seq(Letters) /\ Len(b \o u) = Len(b) + Len(u)
          /\ \A x \in 1 .. Len(b) + Len(u) :
               (b \o u)[x] = IF x <= Len(b) THEN b[x] ELSE u[x - Len(b)]
      BY <2>3, <3>2, ConcatIs
    <3> QED BY <2>3, <3>2, <3>3 DEF b
  <2>9. Kept(t) = w
    BY <1>4 DEF Kept, u
  <2> HIDE DEF w
  <2>10. ASSUME NEW x \in 1 .. Len(w) PROVE m[buf + x - 1] = w[x]
    <3> DEFINE a == buf + x - 1
    <3>1. a \in 0 .. Size - 1
      BY <1>1, <1>2, <2>3, <2>8
    <3>2. CASE x = 1
      <4>1. a = buf /\ a \notin buf + 1 .. buf + 1 + Len(u) /\ 1 \in 1 .. Len(t) /\ buf + 1 - 1 = buf
        BY <1>1, <2>1, <2>3, <3>2
      <4>2. t[1] = Entered[buf]
        BY <1>1, <4>1, StrIs
      <4> QED BY <2>5, <2>8, <3>1, <3>2, <4>1, <4>2
    <3>3. CASE x # 1
      <4>1. /\ x \in 2 .. 1 + Len(u) /\ a \in buf + 1 .. buf + 1 + Len(u) - 1
            /\ a - (buf + 1) + 1 = x - 1
        BY <1>1, <2>3, <2>8, <3>3
      <4> HIDE DEF a
      <4>2. m[a] = w[x]
        BY <2>6, <2>8, <3>1, <4>1
      <4> QED BY <4>2 DEF a
    <3> QED BY <3>2, <3>3
  <2>11. Str(m, buf) = w
    BY <2>5, <2>8, <2>10, StrStored
  <2>12. 1 + Len(u) \in 0 .. N - 1 /\ m[buf + (1 + Len(u))] = NUL
    BY <1>1, <1>2, <2>3, <2>5 DEF IsStr
  <2> QED BY <2>5, <2>7, <2>8, <2>9, <2>11, <2>12 DEF t, m
<1> QED BY <1>3, <1>4

\* The editor runs the same command, keeps the same line, and ends with quit.
LEMMA AskedIs ==
  ASSUME NEW t \in Seq(Letters), t # <<>>
  PROVE  /\ Editor!Asked(t) = Run(t)
         /\ (IF Editor!Known(t) THEN <<t[1]>> \o Editor!Rest(t) ELSE t) = Kept(t)
         /\ Run(t).face = "q" <=> Quits(t)
<1>1. Editor!Known(t) <=> IsCommand(t)
  BY DEF Editor!Known, IsCommand, Faces
<1>2. Editor!Rest(t) = Argument(t)
  BY StripIs DEF Editor!Rest, Argument
<1>3. Editor!Asked(t) = Run(t)
  BY <1>1, <1>2 DEF Editor!Asked, Run, Accepts
<1>4. Run(t).face = "q" <=> Quits(t)
  BY DEF Run, Quits
<1> QED BY <1>1, <1>2, <1>3, <1>4 DEF Kept

LEMMA AppendedIs ==
  ASSUME NEW S, NEW q \in Seq(S), NEW e \in S
  PROVE  Append(q, e) = [k \in 1 .. Len(q) + 1 |-> IF k <= Len(q) THEN q[k] ELSE e]
<1> DEFINE w == Append(q, e)
<1>1. /\ w \in Seq(S) /\ Len(w) = Len(q) + 1 /\ Len(q) \in Nat
      /\ \A k \in 1 .. Len(q) + 1 : w[k] = IF k <= Len(q) THEN q[k] ELSE e
  OBVIOUS
<1>2. w = [k \in 1 .. Len(q) + 1 |-> w[k]]
  <2> HIDE DEF w
  <2> QED BY <1>1
<1> HIDE DEF w
<1>3. w = [k \in 1 .. Len(q) + 1 |-> IF k <= Len(q) THEN q[k] ELSE e]
  BY <1>1, <1>2
<1> QED BY <1>3 DEF w

LEMMA Enters ==
  ASSUME ~spilled, ~spilled', pc = "edit", NEW t, Editor!Strip(Text) = t,
         Editor!Solid(Text) # {}, Len(Lines) + 1 < H,
         Lines' = Append(Lines, Kept(t)), Text' = <<>>, i' = 0, j' = Len(Lines'),
         Editor!Asked(t) = Run(t),
         (IF Editor!Known(t) THEN <<t[1]>> \o Editor!Rest(t) ELSE t) = Kept(t),
         ran' = Run(t), pc' = IF Run(t).face = "q" THEN "returned" ELSE "edit"
  PROVE  Editor!Enter
  BY DEF Editor!Enter, Editor!Fresh, Text, Lines

LEMMA EnterEdits == EdInv /\ Enter => Edits_
<1> SUFFICES ASSUME EdInv, Enter PROVE Edits_
  OBVIOUS
<1>1. /\ pc = "edit" /\ ~Empty /\ memory' = shell_fnc(Entered, buf)
      /\ n_' = Advanced /\ j' = Advanced
      /\ n' = strlen(memory', Slot(Advanced)) /\ i' = n'
      /\ spilled' = (spilled \/ Advanced = H)
      /\ ran' = Run(Str(Entered, buf))
      /\ Quits(Str(Entered, buf)) => pc' = "returned"
      /\ ~Quits(Str(Entered, buf)) => pc' = pc
  BY EnterFacts DEF EdInv
<1>2. CASE spilled
  BY <1>1, <1>2, Lost DEF Edits_
<1>3. CASE ~spilled
  <2> DEFINE t == Trimmed(Text)
  <2>1. /\ t \in Seq(Letters) /\ t # <<>> /\ Str(Entered, buf) = t
        /\ Slot(Advanced) = buf + N /\ Advanced = n_ + 1
        /\ buf \in Nat /\ buf + N < Size /\ N \in Nat
    <3>1. t # <<>>
      BY <1>1 DEF Empty, Text
    <3> HIDE DEF t
    <3> QED BY <1>3, <3>1, EnteredText, Constants DEF t
  <2>2. /\ memory' \in Mem /\ memory'[buf + N] = NUL
        /\ \A a \in 0 .. buf - 1 : memory'[a] = memory[a]
        /\ Str(memory', buf) = Kept(t) /\ Kept(t) \in Seq(Letters)
        /\ \E z \in 0 .. N - 1 : memory'[buf + z] = NUL
    BY <1>1, <1>3, CommandText
  <2>3. Editor!Solid(Text) # {} /\ Editor!Strip(Text) = t
    <3>1. Inner(Text) # {}
      BY <2>1 DEF Trimmed
    <3> QED BY <3>1, StripIs
  <2> HIDE DEF t
  <2>4. n_ \in Nat /\ n_ < H /\ Len(Lines) = n_ /\ H \in Nat
    BY <1>3, TextIs, Constants
  <2>5. CASE n_ + 1 = H
    <3>1. spilled'
      BY <1>1, <2>1, <2>5
    <3>2. Editor!Lose
      BY <1>1, <1>3, <2>3, <2>4, <2>5, <3>1 DEF Editor!Lose, Text, Lines
    <3>3. Closed'
      BY <3>1 DEF Closed
    <3> QED BY <3>2, <3>3 DEF Edits_, Editor!Next
  <2>6. CASE n_ + 1 # H
    <3>1. n_ + 1 < H /\ ~spilled'
      <4>1. Advanced # H
        BY <2>1, <2>6
      <4>2. n_ + 1 < H
        BY <2>4, <2>6
      <4> QED BY <1>1, <1>3, <4>1, <4>2
    <3>2. ASSUME NEW k \in 0 .. n_ - 1
          PROVE  /\ Str(memory', Slot(k)) = Str(memory, Slot(k))
                 /\ \E z \in 0 .. N - 1 : memory'[Slot(k) + z] = NUL
      <4> DEFINE m == memory'
      <4>1. m \in Mem /\ \A a \in 0 .. buf - 1 : m[a] = memory[a]
        BY <2>2
      <4> HIDE DEF m
      <4>2. /\ Str(m, Slot(k)) = Str(memory, Slot(k))
            /\ \E z \in 0 .. N - 1 : m[Slot(k) + z] = NUL
        BY <1>3, <4>1, LinesStay
      <4> QED BY <4>2 DEF m
    <3>3. Closed'
      <4>1. \A k \in 0 .. n_' - 1 : k \in 0 .. n_ - 1 \/ k = n_
        BY <1>1, <2>1, <2>4
      <4>2. \A k \in 0 .. n_' - 1 : \E z \in 0 .. N - 1 : memory'[Slot(k) + z] = NUL
        BY <2>2, <3>2, <4>1 DEF buf
      <4> QED BY <4>2 DEF Closed, Slot
    <3>4. Lines' = Append(Lines, Kept(t))
      <4>1. Lines' = [k \in 1 .. n_ + 1 |-> Str(memory', Slot(k - 1))]
        BY <1>1, <2>1, TextPrime
      <4>2. \A k \in 1 .. n_ : Str(memory', Slot(k - 1)) = Str(memory, Slot(k - 1))
        <5>1. \A k \in 1 .. n_ : k - 1 \in 0 .. n_ - 1
          BY <2>4
        <5> QED BY <3>2, <5>1
      <4>3. Str(memory', Slot(n_ + 1 - 1)) = Kept(t)
        <5>1. n_ + 1 - 1 = n_
          BY <2>4
        <5> QED BY <2>2, <5>1 DEF buf
      <4> DEFINE v == [k \in 1 .. n_ + 1 |-> Str(memory', Slot(k - 1))]
                 w == Append(Lines, Kept(t))
      <4>4. w = [k \in 1 .. n_ + 1 |-> IF k <= n_ THEN Lines[k] ELSE Kept(t)]
        <5> DEFINE e == Kept(t)  S == Seq(Letters)
        <5>1. Lines \in Seq(S) /\ Len(Lines) = n_ /\ e \in S
          BY <1>3, <2>2, TextIs
        <5> HIDE DEF e, S
        <5>2. Append(Lines, e) = [k \in 1 .. Len(Lines) + 1 |-> IF k <= Len(Lines) THEN Lines[k] ELSE e]
          BY <5>1, AppendedIs
        <5> QED BY <5>1, <5>2 DEF e
      <4>5. \A k \in 1 .. n_ : Lines[k] = Str(memory, Slot(k - 1))
        BY DEF Lines
      <4>6. ASSUME NEW k \in 1 .. n_ + 1
            PROVE  (IF k <= n_ THEN Lines[k] ELSE Kept(t)) = Str(memory', Slot(k - 1))
        <5>1. CASE k <= n_
          <6>1. k \in 1 .. n_
            BY <2>4, <5>1
          <6> QED BY <4>2, <4>5, <5>1, <6>1
        <5>2. CASE ~(k <= n_)
          <6>1. k - 1 = n_
            BY <2>4, <5>2
          <6>2. Str(memory', Slot(k - 1)) = Kept(t)
            BY <2>2, <6>1 DEF buf
          <6> QED BY <5>2, <6>2
        <5> QED BY <5>1, <5>2
      <4> HIDE DEF w
      <4>7. w = v
        BY <4>4, <4>6
      <4> QED BY <4>1, <4>7 DEF w
    <3>5. Text' = <<>> /\ i' = 0
      <4>1. buf + N \in Nat
        BY <2>1
      <4>2. IsStr(memory', buf + N, 0)
        BY <2>1, <2>2, <4>1 DEF IsStr
      <4>3. strlen(memory', buf + N) = 0
        BY <4>2, StrlenIs
      <4>4. buf' = buf + N
        BY <1>1, <2>1 DEF buf, Slot
      <4>5. Text' = Str(memory', buf + N)
        BY <4>4, TextPrime
      <4> QED BY <1>1, <2>1, <4>3, <4>5 DEF Str, Bytes
    <3>6. /\ Editor!Asked(t) = Run(t)
          /\ (IF Editor!Known(t) THEN <<t[1]>> \o Editor!Rest(t) ELSE t) = Kept(t)
          /\ Run(t).face = "q" <=> Quits(t)
      BY <2>1, AskedIs
    <3>7. ran' = Run(t) /\ pc' = IF Run(t).face = "q" THEN "returned" ELSE "edit"
      BY <1>1, <2>1, <3>6
    <3>8. j' = Len(Lines')
      <4>1. Len(Append(Lines, Kept(t))) = n_ + 1
        <5>1. Lines \in Seq(Seq(Letters)) /\ Len(Lines) = n_
          BY <1>3, TextIs
        <5> QED BY <2>2, <5>1
      <4> QED BY <1>1, <2>1, <3>4, <4>1
    <3>9. Editor!Enter
      BY <1>1, <1>3, <2>3, <2>4, <3>1, <3>4, <3>5, <3>6, <3>7, <3>8, Enters
    <3> QED BY <3>3, <3>9 DEF Edits_, Editor!Next
  <2> QED BY <2>5, <2>6
<1> QED BY <1>2, <1>3

LEMMA ConfigureEdits == EdInv /\ configure => Edits_
<1> SUFFICES ASSUME EdInv, configure PROVE Edits_
  OBVIOUS
<1>1. /\ pc = "start" /\ pc' = "edit" /\ memory' = Store(memory, Slot(H), Settings)
      /\ UNCHANGED <<n_, j, i, n, ran, spilled>>
      /\ n_ = 0 /\ n = 0 /\ i = 0 /\ ~spilled
  BY DEF configure, EdInv, IInv, AtStart
<1>2. IInv'
  BY ConfigureKeeps DEF EdInv
<1>3. Text = <<>> /\ Text' = <<>>
  <2>1. strlen(memory, buf) = 0 /\ strlen(memory', buf') = 0
    <3>1. IsStr(memory, buf, n)
      BY DEF EdInv, IInv
    <3>2. IsStr(memory', buf', n')
      BY <1>2 DEF IInv, IsStr, Size
    <3> QED BY <1>1, <3>1, <3>2, StrlenIs
  <2> QED BY <2>1, TextPrime DEF Text, Str, Bytes
<1>4. Lines = <<>> /\ Lines' = <<>>
  BY <1>1, TextPrime DEF Lines
<1>5. Closed'
  BY <1>1 DEF Closed
<1>6. Editor!Start
  BY <1>1, <1>3, <1>4 DEF Editor!Start, Text, Lines
<1> QED BY <1>5, <1>6 DEF Edits_, Editor!Next

\* ^C, and a step of somebody else.
LEMMA RestEdits == EdInv /\ (Interrupt \/ UNCHANGED vars) => Edits_
<1> SUFFICES ASSUME EdInv, Interrupt \/ UNCHANGED vars PROVE Edits_
  OBVIOUS
<1>1. UNCHANGED <<memory, n_, j, i, n, ran, tty, spilled>>
  BY DEF Interrupt, vars
<1>2. Text' = Text /\ Lines' = Lines
  BY <1>1, TextPrime DEF Text, Lines, buf, Slot
<1>3. Closed'
  BY <1>1 DEF EdInv, Closed, Slot
<1>4. CASE Interrupt
  <2>1. pc = "edit" /\ pc' = "killed"
    BY <1>4 DEF Interrupt
  <2>2. CASE spilled
    BY <1>1, <2>2, Lost DEF Edits_
  <2>3. CASE ~spilled
    <3>1. Editor!Stop
      BY <1>1, <1>2, <2>1, <2>3 DEF Editor!Stop, Text, Lines
    <3> QED BY <1>3, <3>1 DEF Edits_, Editor!Next
  <2> QED BY <2>2, <2>3
<1>5. CASE UNCHANGED vars
  <2>1. UNCHANGED Editor!vars
    BY <1>1, <1>2, <1>5 DEF Editor!vars, Text, Lines, vars
  <2> QED BY <1>3, <2>1 DEF Edits_
<1> QED BY <1>4, <1>5

LEMMA StepEdits == EdInv /\ [Next]_vars => EdInv' /\ [Editor!Next]_Editor!vars
<1> SUFFICES ASSUME EdInv, [Next]_vars PROVE EdInv' /\ [Editor!Next]_Editor!vars
  OBVIOUS
<1>1. IInv'
  BY Inductive DEF EdInv
<1>2. Edits_
  BY ConfigureEdits, MoveEdits, HistoryEdits, KillLineEdits, DeleteEdits, BackspaceEdits,
     BlankEdits, PrintableEdits, EnterNothingEdits, EnterEdits, RestEdits DEF Next
<1> QED BY <1>1, <1>2 DEF EdInv, Edits_

LEMMA InitEdits == Init => EdInv /\ Editor!Init
<1> SUFFICES ASSUME Init PROVE EdInv /\ Editor!Init
  OBVIOUS
<1>1. /\ pc = "start" /\ n_ = 0 /\ j = 0 /\ i = 0 /\ n = 0 /\ spilled = FALSE
      /\ ran = [face |-> "none", arg |-> <<>>]
  BY DEF Init
<1>2. IInv /\ IsStr(memory, buf, n)
  BY Initial DEF IInv
<1>3. Closed
  BY <1>1 DEF Closed
<1>4. Text = <<>>
  <2>1. strlen(memory, buf) = 0
    BY <1>1, <1>2, StrlenIs
  <2> QED BY <2>1 DEF Text, Str, Bytes
<1>5. Lines = <<>>
  BY <1>1 DEF Lines
<1> QED BY <1>1, <1>2, <1>3, <1>4, <1>5 DEF EdInv, Editor!Init, Text, Lines

\* The shell is the line editor of LineEditor, for every history and every
\* slot: its array of bytes, the copies in it and the cursor kept by hand do
\* what the editor says of lines and sequences, until a line fills its slot.
THEOREM EditorImplemented == Spec => ImplementsEditor
<1>1. Init => EdInv /\ Editor!Init
  BY InitEdits
<1>2. EdInv /\ [Next]_vars => EdInv' /\ [Editor!Next]_Editor!vars
  BY StepEdits
<1> QED BY <1>1, <1>2, PTL DEF Spec, ImplementsEditor, Editor!Spec
=============================================================================
