----------------------------- MODULE LineEditor -----------------------------
(***************************************************************************)
(* What the shell of p3 and p23 promises its user: a line with a cursor,   *)
(* the lines entered so far, of which one can be recalled into the line,   *)
(* and the command that was run last.  A line of N characters, and the     *)
(* H-th line, end the promise.                                             *)
(***************************************************************************)
EXTENDS Integers, Sequences, FiniteSetsExt

CONSTANTS H, N, Commands, Others

VARIABLES
  phase,     \* start, edit, returned, killed or lost
  text, cursor,
  lines,     \* entered, as their commands left them
  at,        \* how many lines are older than the one recalled
  command

vars == <<phase, text, cursor, lines, at, command>>

Before == SubSeq(text, 1, cursor)
Behind == SubSeq(text, cursor + 1, Len(text))

\* Without the blanks around it.
Solid(s) == {k \in DOMAIN s : s[k] # " "}
Strip(s) == IF Solid(s) = {} THEN <<>> ELSE SubSeq(s, Min(Solid(s)), Max(Solid(s)))

Init ==
  /\ phase = "start" /\ text = <<>> /\ cursor = 0 /\ lines = <<>> /\ at = 0
  /\ command = [face |-> "none", arg |-> <<>>]

Start == phase = "start" /\ phase' = "edit" /\ UNCHANGED <<text, cursor, lines, at, command>>

\* The line becomes s with the cursor at c, if it fits.
Change(s, c) ==
  /\ phase = "edit" /\ Len(s) < N
  /\ text' = s /\ cursor' = c
  /\ UNCHANGED <<phase, lines, command>>

Move(d) == cursor + d \in 0 .. Len(text) /\ Change(text, cursor + d) /\ UNCHANGED at
Type(c) == Change(Append(Before, c) \o Behind, cursor + 1) /\ UNCHANGED at
Erase == cursor > 0 /\ Change(SubSeq(text, 1, cursor - 1) \o Behind, cursor - 1) /\ UNCHANGED at
Delete == Behind # <<>> /\ Change(Before \o Tail(Behind), cursor) /\ UNCHANGED at
Cut == Change(Before, cursor) /\ UNCHANGED at

\* The line behind the last one entered is empty.
Recall(k) ==
  LET s == IF k = Len(lines) THEN <<>> ELSE lines[k + 1]
  IN Change(s, Len(s)) /\ at' = k
Up == at > 0 /\ Recall(at - 1)
Down == at < Len(lines) /\ Recall(at + 1)

\* A line is a command if it is its face, with an argument if it takes one.
Known(s) == s[1] \in DOMAIN Commands
Rest(s) == Strip(Tail(s))
Asked(s) ==
  IF ~Known(s) THEN [face |-> "bad", arg |-> <<>>]
  ELSE IF (Commands[s[1]] = 1) # (Rest(s) # <<>>) THEN [face |-> "bad", arg |-> <<>>]
  ELSE [face |-> s[1], arg |-> Rest(s)]

Fresh == text' = <<>> /\ cursor' = 0

EnterBlank ==
  /\ phase = "edit" /\ Solid(text) = {}
  /\ Fresh /\ at' = Len(lines)
  /\ UNCHANGED <<phase, lines, command>>

\* The history keeps the line without the blanks before its argument.
Enter ==
  /\ phase = "edit" /\ Solid(text) # {} /\ Len(lines) + 1 < H
  /\ LET s == Strip(text)
     IN /\ command' = Asked(s)
        /\ lines' = Append(lines, IF Known(s) THEN <<s[1]>> \o Rest(s) ELSE s)
  /\ phase' = IF command'.face = "q" THEN "returned" ELSE "edit"
  /\ Fresh /\ at' = Len(lines')

Stop == phase = "edit" /\ phase' = "killed" /\ UNCHANGED <<text, cursor, lines, at, command>>

\* A blank is one character too many, or the line is the H-th.
Lose ==
  /\ phase = "edit"
  /\ \/ Len(text) + 1 = N
     \/ Len(lines) + 1 = H /\ Solid(text) # {}
  /\ phase' = "lost" /\ text' = <<>> /\ cursor' = 0 /\ lines' = <<>> /\ at' = 0
  /\ command' = <<>>

Next ==
  \/ Start \/ \E d \in {-1, 1} : Move(d)
  \/ \E c \in DOMAIN Commands \cup Others \cup {" "} : Type(c)
  \/ Erase \/ Delete \/ Cut \/ Up \/ Down
  \/ EnterBlank \/ Enter \/ Stop \/ Lose

Spec == Init /\ [][Next]_vars
=============================================================================
