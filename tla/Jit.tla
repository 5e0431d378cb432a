-------------------------------- MODULE Jit --------------------------------
(***************************************************************************)
(* main.c and jitc.c of p1: runs of the program one after another in one   *)
(* directory.  A run parses its argument (Parser), writes out.c, forks a   *)
(* child that becomes gcc, loads out.so and calls it.  A run may be killed *)
(* at any point; its files stay, and so does its child, which then works   *)
(* beside the later runs.                                                  *)
(***************************************************************************)
EXTENDS Parser

CONSTANTS
  Inputs,     \* per run: the arguments it may get
  MaxKills

ASSUME JitAssumption ==
  /\ Inputs \in Seq(SUBSET Seq(Lexemes))
  /\ Faults \subseteq {"memory", "fopen", "write", "fork", "exec", "link", "dlopen"}
  /\ MaxKills \in Nat

VARIABLES
  pc, run,
  cfile, so,     \* out.c and out.so: a program or NoFile
  loaded,        \* what jitc_open mapped
  printed,       \* the term printed by this run
  child,         \* per run: where its child is and what it has read
  found,         \* history: the files at the start of this run
  orphaned,      \* history: a child of an earlier run was alive in this run
  unexecuted,    \* history: execv failed in this run
  kills

jitVars == <<pc, run, cfile, so, loaded, printed, child, found, orphaned,
             unexecuted, kills>>
vars == <<parserVars, jitVars>>

NoFile == [file |-> FALSE]
Runs == 1 .. Len(Inputs)
Child(at, program) == [at |-> at, program |-> program]
NoChild == Child("none", NoFile)
Alive(c) == c.at \in {"forked", "gcc", "link"}
Files == {f \in {"c", "so"} : (IF f = "c" THEN cfile ELSE so) # NoFile}

-----------------------------------------------------------------------------
(* Programs: the statements `double t = ..', and the temporary returned.   *)
(* %f writes a literal with six decimals: one with more becomes another    *)
(* number, a tiny one 0, and inf and nan become words.  The / of a term is *)
(* what the statement computes: 0.0 where the right operand is zero.       *)

Word == <<"word">>
Written(s) == [k \in Nat |-> CASE s[k] = "tiny" -> 0
                               [] s[k] = "fine" -> Len(s) + k
                               [] OTHER -> k]
Literally(k) == IF tokens[k] = "inf" THEN Word ELSE <<"%f", Written(tokens)[k]>>
Statement(d) == LET node == nodes[d]
                IN [t |-> d, op |-> node.op, left |-> node.left, right |-> node.right,
                    text |-> IF node.op = "val" THEN Literally(node.val) ELSE <<>>]

reflect(dag) ==
  LET of[d \in {NULL} \cup DOMAIN nodes] ==
        IF d = NULL THEN <<>>
        ELSE of[nodes[d].left] \o of[nodes[d].right] \o <<Statement(d)>>
  IN of[dag]

generate(dag) == [file |-> TRUE, code |-> reflect(dag), ret |-> dag]
Truncated == [file |-> TRUE, code |-> <<>>, ret |-> NULL]
Cut(program) == [program EXCEPT !.ret = NULL]   \* ends before its closing brace

\* What gcc makes of a program: a file without a function compiles as well.
Uses(s) == CASE s.op = "val" -> {}
             [] s.op = "neg" -> {s.right}
             [] OTHER -> {s.left, s.right}
Compiles(program) ==
  /\ program.code = <<>> \/ program.ret # NULL
  /\ \A k \in DOMAIN program.code :
       LET s == program.code[k]
           before == {program.code[m].t : m \in 1 .. k - 1}
       IN s.t \notin before /\ Uses(s) \subseteq before /\ s.text # Word

evaluate(program) ==
  LET of[k \in DOMAIN program.code] ==
        LET s == program.code[k]
            value(t) == of[CHOOSE m \in 1 .. k - 1 : program.code[m].t = t]
        IN CASE s.op = "val" -> <<"val", s.text[2]>>
             [] s.op = "neg" -> <<"neg", value(s.right)>>
             [] OTHER -> <<s.op, value(s.left), value(s.right)>>
  IN of[CHOOSE m \in DOMAIN program.code : program.code[m].t = program.ret]

-----------------------------------------------------------------------------
Init ==
  /\ tokens = <<>> /\ stack = <<>> /\ ret = NULL /\ i = 1 /\ nodes = <<>>
  /\ noMemory = FALSE
  /\ pc = "ended" /\ run = 0
  /\ cfile = NoFile /\ so = NoFile /\ loaded = NoFile /\ printed = <<>>
  /\ child = [r \in Runs |-> NoChild]
  /\ found = {} /\ orphaned = FALSE /\ unexecuted = FALSE /\ kills = 0

Goes(to) == pc' = to /\ UNCHANGED <<run, child, found, orphaned, unexecuted, kills>>
Ends == /\ Goes("ended") /\ Blank
        /\ loaded' = NoFile /\ UNCHANGED printed
Same == UNCHANGED <<parserVars, loaded, printed>>

\* main up to top: an empty argument trips the assert of parser_open, there may
\* be no tokens, and lexer_open may fail.
Begin(arg) ==
  /\ run' = run + 1
  /\ found' = Files
  /\ orphaned' = (\E r \in Runs : Alive(child[r]))
  /\ unexecuted' = FALSE /\ printed' = <<>>
  /\ \/ Legal(arg) /\ Tokenized(arg) # <<>> /\ pc' = "parse" /\ Start(arg)
     \/ /\ ~Legal(arg) \/ Tokenized(arg) = <<>> \/ "memory" \in Faults
        /\ pc' = "ended" /\ Blank
  /\ UNCHANGED <<cfile, so, loaded, child, kills>>

Parsing == pc = "parse" /\ Parse /\ UNCHANGED jitVars

\* parser_open fails; its caller returns.
Rejected ==
  /\ pc = "parse" /\ Parsed /\ Tree = NULL
  /\ Ends /\ UNCHANGED <<cfile, so>>

\* What is found behind TBL is no string, or one that does not fit the buffer.
Overread ==
  /\ pc = "parse" /\ Misindexed
  /\ Ends /\ UNCHANGED <<cfile, so>>

Accepted ==
  /\ pc = "parse" /\ Parsed /\ Tree # NULL
  /\ \/ cfile' = Truncated /\ Goes("generate") /\ Same
     \/ "fopen" \in Faults /\ Ends /\ UNCHANGED cfile
  /\ UNCHANGED so

\* The text reaches out.c with fclose at the latest; main does not look whether
\* all of it, or any, could be written.
Generated ==
  /\ pc = "generate"
  /\ \/ cfile' = generate(ret)
     \/ "write" \in Faults /\ cfile' \in {Cut(generate(ret)), Truncated}
  /\ Goes("fork") /\ Same /\ UNCHANGED so

\* jitc_compile
Forked ==
  /\ pc = "fork"
  /\ pc' = "wait"
  /\ child' = [child EXCEPT ![run] = Child("forked", NoFile)]
  /\ Same /\ UNCHANGED <<run, cfile, so, found, orphaned, unexecuted, kills>>

NotForked ==
  /\ pc = "fork" /\ "fork" \in Faults
  /\ cfile' = NoFile
  /\ Ends /\ UNCHANGED so

\* Slip: the status of the child is not looked at.
AnyStatus == child[run].at \in {"success", "failure"}
Success == child[run].at = "success"

\* Slip: only a child that succeeds is waited for.
Succeeded == Success
Exited == ~Alive(child[run])

Compiled ==
  /\ pc = "wait" /\ Exited
  /\ cfile' = NoFile
  /\ IF Success THEN Goes("load") /\ Same ELSE Ends
  /\ UNCHANGED so

\* Slip: out.so is deleted only by the run that printed.
NotLoadedKeeps ==
  /\ pc = "load"
  /\ so = NoFile \/ "dlopen" \in Faults
  /\ Ends /\ UNCHANGED <<cfile, so>>

\* jitc_open fails: main deletes out.so and calls jitc_close with NULL, which
\* kills it.
NotLoaded ==
  /\ pc = "load"
  /\ so = NoFile \/ "dlopen" \in Faults
  /\ so' = NoFile
  /\ Ends /\ UNCHANGED cfile

Loaded ==
  /\ pc = "load" /\ so # NoFile
  /\ loaded' = so
  /\ Goes("call") /\ UNCHANGED <<parserVars, printed, cfile, so>>

\* jitc_lookup says -1 for a symbol it does not find; main calls it, which
\* kills it.
NoSymbol ==
  /\ pc = "call" /\ loaded.code = <<>>
  /\ Ends /\ UNCHANGED <<cfile, so>>

Evaluated ==
  /\ pc = "call" /\ loaded.code # <<>>
  /\ printed' = evaluate(loaded)
  /\ Goes("done") /\ UNCHANGED <<parserVars, loaded, cfile, so>>

Done ==
  /\ pc = "done"
  /\ so' = NoFile
  /\ Ends /\ UNCHANGED cfile

Main == Parsing \/ Rejected \/ Overread \/ Accepted \/ Generated \/ Forked \/ NotForked
          \/ Compiled \/ NotLoaded \/ Loaded \/ NoSymbol \/ Evaluated \/ Done

-----------------------------------------------------------------------------
(* The child of run r.                                                     *)

Moves(r, at, program) ==
  /\ child' = [child EXCEPT ![r] = Child(at, program)]
  /\ UNCHANGED <<parserVars, pc, run, cfile, loaded, printed, found, orphaned, kills>>

Exec(r) ==
  /\ child[r].at = "forked"
  /\ Moves(r, "gcc", NoFile)
  /\ UNCHANGED <<so, unexecuted>>

\* execv returns and the child exits with EXIT_SUCCESS.
NoExec(r) ==
  /\ child[r].at = "forked" /\ "exec" \in Faults
  /\ Moves(r, "success", NoFile)
  /\ unexecuted' = (unexecuted \/ r = run)
  /\ UNCHANGED so

ReadSource(r) ==
  /\ child[r].at = "gcc"
  /\ IF cfile # NoFile /\ Compiles(cfile)
       THEN Moves(r, "link", cfile) ELSE Moves(r, "failure", NoFile)
  /\ UNCHANGED <<so, unexecuted>>

Linked(r) ==
  /\ child[r].at = "link"
  /\ so' = child[r].program
  /\ Moves(r, "success", NoFile)
  /\ UNCHANGED unexecuted

\* The linker fails and leaves no output.
NotLinked(r) ==
  /\ child[r].at = "link" /\ "link" \in Faults
  /\ so' = NoFile
  /\ Moves(r, "failure", NoFile)
  /\ UNCHANGED unexecuted

ChildStep(r) == Exec(r) \/ NoExec(r) \/ ReadSource(r) \/ Linked(r) \/ NotLinked(r)

\* The run is killed; its child is not.
Kill ==
  /\ pc # "ended" /\ kills < MaxKills
  /\ pc' = "ended" /\ kills' = kills + 1
  /\ Blank /\ loaded' = NoFile
  /\ UNCHANGED <<run, cfile, so, printed, child, found, orphaned, unexecuted>>

Next ==
  \/ Kill \/ Main
  \/ \E r \in Runs : ChildStep(r)
  \/ pc = "ended" /\ run < Len(Inputs) /\ \E arg \in Inputs[run + 1] : Begin(arg)

Spec == Init /\ [][Next]_vars
FairSpec == Spec /\ WF_vars(Main) /\ \A r \in Runs : WF_vars(ChildStep(r))

-----------------------------------------------------------------------------
(* Properties.                                                             *)

Kinds == {"val", "neg"} \cup UNION Range(Operators)
Programs == {NoFile} \cup [file : {TRUE}, ret : Nat, code : Seq(
  [t : Nat, op : Kinds, left : Nat, right : Nat, text : {<<>>, Word} \cup {"%f"} \X Nat])]

TypeOK ==
  /\ tokens \in Seq(Lexemes) /\ i \in 1 .. Len(tokens) + 1
  /\ nodes \in Seq([op : Kinds, val : Nat, left : Nat, right : Nat])
  /\ ret \in {Called} \cup 0 .. Len(nodes)
  /\ pc \in {"ended", "parse", "generate", "fork", "wait", "load", "call", "done"}
  /\ run \in 0 .. Len(Inputs)
  /\ {cfile, so, loaded} \subseteq Programs
  /\ \A r \in Runs : /\ child[r].program \in Programs
                     /\ child[r].at \in {"none", "forked", "gcc", "link", "success", "failure"}
  /\ found \subseteq {"c", "so"} /\ {noMemory, orphaned, unexecuted} \subseteq BOOLEAN

\* The parser takes what the grammar in its comments generates, and no more,
\* and gives it the term of the grammar: precedence, grouping to the left,
\* signs.  Its tree holds every node that was made exactly once, so that
\* free_dag frees each and reflect declares each temporary once.  The message
\* that is Misindexed is met with an argument that does not parse only.
ParsesGrammar ==
  pc = "parse" /\ ~noMemory =>
    /\ Misindexed => Meaning(tokens, Place) = Invalid
    /\ Parsed =>
         IF Tree = NULL THEN Meaning(tokens, Place) = Invalid
         ELSE /\ TermOf(Tree) = Meaning(tokens, Place)
              /\ Parents(Tree) = {}
              /\ \A d \in DOMAIN nodes \ {Tree} : Cardinality(Parents(d)) = 1

\* What a run prints is the value of its own argument, with every literal
\* rounded to the six decimals of %f, whatever earlier runs left behind, unless
\* gcc was not executed (jitc.c:44 takes that for success) or the child of a
\* killed run is still at work in the directory.
PrintsOwn ==
  printed # <<>> /\ pc = "done" =>
    printed = Meaning(tokens, Written(tokens)) \/ unexecuted \/ orphaned

\* A run that ends by itself leaves no file that it did not find, whether it
\* printed, failed or died, and no out.c if it got to write one.  Only one that
\* dies in the call leaves its out.so: that of an out.c that stayed empty.
CleansUp ==
  [][pc # "ended" /\ pc' = "ended" /\ kills' = kills /\ ~orphaned =>
       /\ Files' \subseteq found \cup (IF pc = "call" THEN {"so"} ELSE {})
       /\ pc \notin {"parse"} => "c" \notin Files']_vars

\* Every run ends: the parser with every argument, by Overread in the middle,
\* too, and main with its child.
EveryRunEnds == pc # "ended" ~> pc = "ended"
=============================================================================
