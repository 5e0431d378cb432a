------------------------------- MODULE Shell -------------------------------
(***************************************************************************)
(* shell.c of p3 and p23 (one file in both) with the commands of main.c:   *)
(* the line editor and its history.  The H slots of N bytes and what lies  *)
(* behind them are one array of bytes, for an edit may run over the end of *)
(* its slot: behind the last slot are the terminal settings that shell     *)
(* saved, and bytes that are nobody's.  One action per key.                *)
(***************************************************************************)
EXTENDS Integers, SequencesExt, FiniteSetsExt

CONSTANTS
  H, N,        \* slots, bytes per slot
  Settings,    \* the bytes of a struct termios
  Commands,    \* face -> 1 if the command takes an argument, 0 if none
  Others       \* characters that no face starts with

VARIABLES
  pc,       \* start, edit, returned or killed
  memory,   \* history, termios, and the rest
  n_,       \* state.n: lines in the history.  state.i is the same here
  j,        \* the history line recalled
  i, n,     \* cursor and length of the line
  ran,      \* the last command: face and argument
  tty,      \* what the terminal is set to
  spilled   \* history: a line filled its slot, or the lines all slots

vars == <<pc, memory, n_, j, i, n, ran, tty, spilled>>

NUL == "nul"
Space == " "
Faces == DOMAIN Commands
Signs == Faces \cup Others
Chars == Signs \cup {Space}
Raw == <<"raw">>

ASSUME ShellAssumption ==
  /\ H \in Nat \ {0} /\ N \in Nat \ {0}
  /\ Settings \in Seq(Range(Settings)) /\ Len(Settings) \in 1 .. N - 1
  /\ Commands \in [Faces -> {0, 1}] /\ NUL \notin Signs
  /\ "q" \in Faces => Commands["q"] = 0

Slot(k) == k * N
Size == (H + 1) * N + 1   \* a line in slot H may end behind that slot
buf == Slot(n_)

-----------------------------------------------------------------------------
(* Strings in the array.                                                   *)

strlen(m, p) == Min({k \in 0 .. Size - p - 1 : m[p + k] = NUL})
Bytes(m, p, k) == [x \in 1 .. k |-> m[p + x - 1]]
Str(m, p) == Bytes(m, p, strlen(m, p))
Store(m, p, s) ==
  [a \in DOMAIN m |-> IF a \in p .. p + Len(s) - 1 THEN s[a - p + 1] ELSE m[a]]
StoreStr(m, p, s) == Store(m, p, Append(s, NUL))

\* Copies at most N bytes and fills up to N with NUL.
strncpy(m, p, s) == Store(m, p, [x \in 1 .. N |-> IF x <= Len(s) THEN s[x] ELSE NUL])

Inner(s) == {k \in DOMAIN s : s[k] # Space}
Trimmed(s) == IF Inner(s) = {} THEN <<>> ELSE SubSeq(s, Min(Inner(s)), Max(Inner(s)))
shell_strtrim(m, p) == StoreStr(m, p, Trimmed(Str(m, p)))

-----------------------------------------------------------------------------
(* The commands of main.c.  The face of a command is a prefix of the line, *)
(* and what follows is trimmed where it stands, in the history.            *)

IsCommand(s) == IF s = <<>> THEN FALSE ELSE s[1] \in Faces
Argument(s) == Trimmed(Tail(s))
Accepts(s) == IF IsCommand(s) THEN (Commands[s[1]] = 1) = (Argument(s) # <<>>) ELSE FALSE
Run(s) == IF Accepts(s) THEN [face |-> s[1], arg |-> Argument(s)] ELSE [face |-> "bad", arg |-> <<>>]
Quits(s) == Accepts(s) /\ s[1] = "q"
shell_fnc(m, p) == IF IsCommand(Str(m, p)) THEN shell_strtrim(m, p + 1) ELSE m

-----------------------------------------------------------------------------
Init ==
  /\ pc = "start"
  /\ memory = [a \in 0 .. Size - 1 |-> NUL]
  /\ n_ = 0 /\ j = 0 /\ i = 0 /\ n = 0
  /\ ran = [face |-> "none", arg |-> <<>>]
  /\ tty = Settings /\ spilled = FALSE

configure ==
  /\ pc = "start" /\ pc' = "edit"
  /\ memory' = Store(memory, Slot(H), tty)
  /\ tty' = Raw
  /\ UNCHANGED <<n_, j, i, n, ran, spilled>>

\* What every key of read_line leaves alone.
Key == pc = "edit" /\ UNCHANGED <<pc, n_, ran, tty>>
Cursor(k) == i' = k /\ UNCHANGED <<memory, j, n, spilled>>

Right == Key /\ Cursor(IF i < n THEN i + 1 ELSE n)

\* Slip: the cursor does not stop at the start of the line.
LeftPast == Key /\ Cursor(i - 1)
Left == Key /\ Cursor(IF i > 0 THEN i - 1 ELSE 0)

\* A recalled line replaces the one that is edited, which starts out empty.
Recall(k) ==
  LET emptied == [memory EXCEPT ![buf] = NUL]
  IN /\ j' = k
     /\ memory' = IF Slot(k) = buf THEN emptied
                  ELSE strncpy(emptied, buf, Str(emptied, Slot(k)))
     /\ n' = strlen(memory', buf) /\ i' = n'
     /\ spilled' = (spilled \/ n' >= N)

Up == Key /\ 0 < j /\ Recall(j - 1)

\* Slip: the newest line is passed over on the way down.
DownTwo == Key /\ n_ > j + 1 /\ Recall(j + 2)
Down == Key /\ n_ > j /\ Recall(j + 1)

KillLine ==
  /\ Key
  /\ memory' = [memory EXCEPT ![buf + i] = NUL]
  /\ n' = i
  /\ UNCHANGED <<j, i, spilled>>

Delete ==
  /\ Key /\ n > i
  /\ memory' = StoreStr(memory, buf + i, Str(memory, buf + i + 1))
  /\ n' = n - 1
  /\ UNCHANGED <<j, i, spilled>>

Backspace ==
  /\ Key /\ 0 < i
  /\ memory' = StoreStr(memory, buf + i - 1, Str(memory, buf + i))
  /\ i' = i - 1 /\ n' = n - 1
  /\ UNCHANGED <<j, spilled>>

\* Space and tab: the bound is one byte too wide.
Blank ==
  /\ Key /\ N > n
  /\ memory' = StoreStr(memory, buf + i, <<Space>> \o Str(memory, buf + i))
  /\ i' = i + 1 /\ n' = n + 1
  /\ spilled' = (spilled \/ n' >= N)
  /\ UNCHANGED j

Printable(c) ==
  /\ Key /\ n + 1 < N
  /\ LET moved == IF i < n THEN Store(memory, buf + i + 1, Str(memory, buf + i)) ELSE memory
     IN memory' = [moved EXCEPT ![buf + i] = c, ![buf + n + 1] = NUL]
  /\ i' = i + 1 /\ n' = n + 1
  /\ UNCHANGED <<j, spilled>>

\* read_line begins: what is in slot k is edited.
Edits(m, k) == n_' = k /\ j' = k /\ n' = strlen(m, Slot(k)) /\ i' = n'

Empty == Trimmed(Str(memory, buf)) = <<>>

EnterNothing ==
  /\ pc = "edit" /\ Empty
  /\ memory' = shell_strtrim(memory, buf)
  /\ Edits(memory', n_)
  /\ UNCHANGED <<pc, ran, tty, spilled>>

\* The slot that comes next, emptied before the line is handed out: from the
\* line on that fills slot H these are one slot.
Advanced == IF H > n_ + 1 THEN n_ + 1 ELSE H

\* Slip: the line itself is emptied, not the slot that comes next.
EnteredEmpty == [shell_strtrim(memory, buf) EXCEPT ![buf] = NUL]
Entered == [shell_strtrim(memory, buf) EXCEPT ![Slot(Advanced)] = NUL]

restore(m) == tty' = Bytes(m, Slot(H), Len(Settings))

\* Slip: quitting skips restore.
ReturnRaw(m) == pc' = "returned" /\ UNCHANGED tty
Return(m) == pc' = "returned" /\ restore(m)

Enter ==
  /\ pc = "edit" /\ ~Empty
  /\ LET s == Str(Entered, buf)
     IN /\ memory' = shell_fnc(Entered, buf)
        /\ ran' = Run(s)
        /\ IF Quits(s) THEN Return(memory') ELSE UNCHANGED <<pc, tty>>
  /\ Edits(memory', Advanced)
  /\ spilled' = (spilled \/ Advanced = H)

\* The terminal still sends signals: ^C ends the process.
Interrupt ==
  /\ pc = "edit" /\ pc' = "killed"
  /\ UNCHANGED <<memory, n_, j, i, n, ran, tty, spilled>>

Next ==
  \/ configure
  \/ Right \/ Left \/ Up \/ Down
  \/ KillLine \/ Delete \/ Backspace \/ Blank \/ \E c \in Signs : Printable(c)
  \/ EnterNothing \/ Enter
  \/ Interrupt

Spec == Init /\ [][Next]_vars
-----------------------------------------------------------------------------
(* Properties.                                                             *)

\* Types; and the cursor is in the line, whose length n is that of the string
\* in its slot: read_line keeps both by hand, also when the line has run over.
TypeOK ==
  /\ pc \in {"start", "edit", "returned", "killed"}
  /\ memory \in [0 .. Size - 1 -> Chars \cup {NUL} \cup Range(Settings)]
  /\ n_ \in 0 .. H /\ j \in 0 .. n_ /\ i \in 0 .. n
  /\ n = strlen(memory, buf)
  /\ ran.arg \in Seq(Chars \cup Range(Settings)) /\ spilled \in BOOLEAN

\* shell gives the terminal back as it was (configure, restore), unless all
\* history slots were used up: until then no edit reaches the saved settings,
\* though a line that fills its slot is recalled together with the next ones.
TerminalRestored == pc = "returned" /\ n_ < H => tty = Settings

\* quit, "exit the program" (main.c:107): a line that says so ends the shell,
\* until the history is full, when the line is emptied before it is run.
QuitReturns ==
  [][pc = "edit" /\ (\E s \in {Trimmed(Str(memory, buf))} : Quits(s))
       /\ n_' # n_ => pc' = "returned"]_vars

Editor == INSTANCE LineEditor WITH
  phase <- IF spilled THEN "lost" ELSE pc,
  text <- IF spilled THEN <<>> ELSE Str(memory, buf),
  cursor <- IF spilled THEN 0 ELSE i,
  at <- IF spilled THEN 0 ELSE j,
  lines <- IF spilled THEN <<>> ELSE [k \in 1 .. n_ |-> Str(memory, Slot(k - 1))],
  command <- IF spilled THEN <<>> ELSE ran

\* The shell is the editor of LineEditor.
ImplementsEditor == Editor!Spec
=============================================================================
