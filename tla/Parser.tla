------------------------------- MODULE Parser -------------------------------
(***************************************************************************)
(* lexer.c and parser.c of p1: the recursive descent as a machine with a   *)
(* stack of calls.  An argument is a sequence of lexemes; the value of a   *)
(* literal is the number of its token, so that what holds of the trees     *)
(* holds for all values.  The id of a node is its place in `nodes'.        *)
(***************************************************************************)
EXTENDS Integers, SequencesExt

CONSTANT Faults   \* what may fail: "memory", and what Jit adds

VARIABLES
  tokens,    \* of the lexer; parser->n is Len(tokens)
  i,         \* the current token
  nodes,     \* [op, val, left, right] by id
  stack,     \* calls: the function, where it is, its left and its dag
  ret,       \* what a callee returned, NULL or an id, or Called
  noMemory   \* history: an allocation failed

parserVars == <<tokens, i, nodes, stack, ret, noMemory>>

NULL == 0
Called == -1
\* Literals: of up to six decimals, of more, too small for six, and the "inf"
\* and "nan" of strtod.
Literals == {"num", "fine", "tiny", "inf"}
Lexemes == Literals \cup {"+", "-", "*", "/", "(", ")", " ", "?"}

-----------------------------------------------------------------------------
\* The lexer drops white space and fails at what strtod does not take.
Tokenized(arg) ==
  LET of[k \in 0 .. Len(arg)] ==
        IF k = 0 THEN <<>>
        ELSE IF arg[k] = " " THEN of[k - 1] ELSE Append(of[k - 1], arg[k])
  IN of[Len(arg)]
Legal(arg) == \A k \in DOMAIN arg : arg[k] # "?"

SENTINEL == "end"
next == IF i <= Len(tokens) THEN tokens[i] ELSE SENTINEL
match(S) == next \in S
forward == i' = IF i <= Len(tokens) THEN i + 1 ELSE i

-----------------------------------------------------------------------------
(* Calls and returns.  "sum" and "product" stand for expr_additive and     *)
(* expr_multiplicative up to their tail call, and from "loop" on for the   *)
(* functions with a trailing underscore.                                   *)

Operators == [sum |-> {"+", "-"}, product |-> {"*", "/"}]
Operand == [sum |-> "product", product |-> "unary"]
Levels == DOMAIN Operators

Call(fn, at, d) == [fn |-> fn, at |-> at, left |-> d, dag |-> d]
Top == stack[Len(stack)]
Calls(callee, at, d) ==   \* Top goes on at `at', with d as its dag
  /\ stack' = Append([stack EXCEPT ![Len(stack)].at = at, ![Len(stack)].dag = d], callee)
  /\ ret' = Called
Becomes(call) == stack' = Append(Front(stack), call) /\ ret' = Called
Returns(d) == stack' = Front(stack) /\ ret' = d

Begins(fn, at) == stack # <<>> /\ Top.fn = fn /\ Top.at = at /\ ret = Called
Resumes(fn, at) == stack # <<>> /\ Top.fn = fn /\ Top.at = at /\ ret # Called
Keeps == UNCHANGED <<tokens, noMemory>>

Node(op, val, left) == [op |-> op, val |-> val, left |-> left, right |-> NULL]
Makes(node) == nodes' = Append(nodes, node)
New == Len(nodes) + 1

-----------------------------------------------------------------------------
\* A right operand of + or - is missing: the message takes its operator from
\* TBL[2] or TBL[3], and TBL has two entries.
Misindexed == stack # <<>> /\ ret = NULL /\ Top.fn = "sum" /\ Top.at = "operand"

\* A callee that returns NULL ends its caller with NULL; what the caller has
\* allocated is lost.  When the caller was Misindexed this is one outcome, where
\* a short string is found behind TBL; the other is the end of the process.
Abandon ==
  /\ stack # <<>> /\ ret = NULL
  /\ Returns(NULL)
  /\ Keeps /\ UNCHANGED <<i, nodes>>

Enter(level) ==
  /\ Begins(level, "entry")
  /\ Calls(Call(Operand[level], "entry", NULL), "first", NULL)
  /\ Keeps /\ UNCHANGED <<i, nodes>>

First(level) ==
  /\ Resumes(level, "first") /\ ret # NULL
  /\ Becomes(Call(level, "loop", ret))
  /\ Keeps /\ UNCHANGED <<i, nodes>>

\* Slip: the operator takes the rest of the list as its operand.
OperatorRight(level) ==
  /\ Begins(level, "loop") /\ match(Operators[level])
  /\ Makes(Node(next, NULL, Top.left))
  /\ forward
  /\ Calls(Call(level, "entry", NULL), "operand", New)
  /\ Keeps

Operator(level) ==
  /\ Begins(level, "loop") /\ match(Operators[level])
  /\ Makes(Node(next, NULL, Top.left))
  /\ forward
  /\ Calls(Call(Operand[level], "entry", NULL), "operand", New)
  /\ Keeps

Rest(level) ==
  /\ Resumes(level, "operand") /\ ret # NULL
  /\ nodes' = [nodes EXCEPT ![Top.dag].right = ret]
  /\ Calls(Call(level, "loop", Top.dag), "rest", Top.dag)
  /\ Keeps /\ UNCHANGED i

\* The loop goes on with its old left; the callee has taken all operators.
Again(level) ==
  /\ Resumes(level, "rest") /\ ret # NULL
  /\ Becomes([Top EXCEPT !.at = "loop", !.dag = ret])
  /\ Keeps /\ UNCHANGED <<i, nodes>>

LastOperand(level) ==
  /\ Begins(level, "loop") /\ ~match(Operators[level])
  /\ Returns(Top.dag)
  /\ Keeps /\ UNCHANGED <<i, nodes>>

Plus ==
  /\ Begins("unary", "entry") /\ match({"+"})
  /\ forward
  /\ Calls(Call("unary", "entry", NULL), "plus", NULL)
  /\ Keeps /\ UNCHANGED nodes

Minus ==
  /\ Begins("unary", "entry") /\ match({"-"})
  /\ Makes(Node("neg", NULL, NULL))
  /\ forward
  /\ Calls(Call("unary", "entry", NULL), "minus", New)
  /\ Keeps

Signed ==
  /\ ret # NULL
  /\ \/ Resumes("unary", "plus") /\ Returns(ret) /\ UNCHANGED nodes
     \/ Resumes("unary", "minus") /\ Returns(Top.dag)
        /\ nodes' = [nodes EXCEPT ![Top.dag].right = ret]
  /\ Keeps /\ UNCHANGED i

Unsigned ==
  /\ Begins("unary", "entry") /\ ~match({"+", "-"})
  /\ Becomes(Call("primary", "entry", NULL))
  /\ Keeps /\ UNCHANGED <<i, nodes>>

Literal ==
  /\ Begins("primary", "entry") /\ match(Literals)
  /\ Makes(Node("val", i, NULL))
  /\ forward
  /\ Returns(New)
  /\ Keeps

Open ==
  /\ Begins("primary", "entry") /\ match({"("})
  /\ forward
  /\ Calls(Call("sum", "entry", NULL), "close", NULL)
  /\ Keeps /\ UNCHANGED nodes

Close ==
  /\ Resumes("primary", "close") /\ ret # NULL
  /\ IF match({")"}) THEN forward /\ Returns(ret) ELSE Returns(NULL) /\ UNCHANGED i
  /\ Keeps /\ UNCHANGED nodes

NoPrimary ==
  /\ Begins("primary", "entry") /\ ~match(Literals \cup {"("})
  /\ Returns(NULL)
  /\ Keeps /\ UNCHANGED <<i, nodes>>

\* MKD finds no memory and returns from the function that uses it.
NoNode ==
  /\ "memory" \in Faults /\ noMemory' = TRUE
  /\ \/ \E level \in Levels : Begins(level, "loop") /\ match(Operators[level])
     \/ Begins("unary", "entry") /\ match({"-"})
     \/ Begins("primary", "entry") /\ match(Literals)
  /\ Returns(NULL)
  /\ UNCHANGED <<tokens, i, nodes>>

Parse ==
  \/ \E level \in Levels :
       \/ Enter(level) \/ First(level) \/ Operator(level)
       \/ Rest(level) \/ Again(level) \/ LastOperand(level)
  \/ Plus \/ Minus \/ Signed \/ Unsigned
  \/ Literal \/ Open \/ Close \/ NoPrimary
  \/ Abandon \/ NoNode

\* parser_open after the lexer: top calls expr.
Start(arg) ==
  /\ tokens' = Tokenized(arg)
  /\ stack' = <<Call("sum", "entry", NULL)>> /\ ret' = Called
  /\ i' = 1 /\ nodes' = <<>> /\ noMemory' = FALSE

\* top: what expr returned, unless there are tokens left.
Parsed == stack = <<>> /\ ret # Called
Tree == IF match({SENTINEL}) THEN ret ELSE NULL

Blank ==
  /\ tokens' = <<>> /\ stack' = <<>> /\ ret' = NULL
  /\ i' = 1 /\ nodes' = <<>> /\ noMemory' = FALSE

-----------------------------------------------------------------------------
(* What the comments of parser.c define: Meaning is the term a sequence of *)
(* tokens stands for, from the grammar and without the machine, when value *)
(* gives the number of the literal at each place.  The last operator of    *)
(* the lowest level outside all parentheses is the root.                   *)

Invalid == <<"invalid">>
Term(op, args) == IF Invalid \in Range(args) THEN Invalid ELSE <<op>> \o args

Depth(s, a, k) ==   \* parentheses open in s from a up to before k
  Cardinality({m \in a .. k - 1 : s[m] = "("}) - Cardinality({m \in a .. k - 1 : s[m] = ")"})
Binary(s, level, a, b) ==
  {k \in a + 1 .. b : /\ s[k] \in Operators[level] /\ Depth(s, a, k) = 0
                      /\ s[k - 1] \in Literals \cup {")"}}

Meaning(s, value) ==
  LET of[x \in (Levels \cup {"unary"}) \X (1 .. Len(s) + 1) \X (0 .. Len(s))] ==
        LET a == x[2]
            b == x[3]
        IN IF a > b THEN Invalid
           ELSE IF x[1] # "unary" THEN
             LET ops == Binary(s, x[1], a, b)
                 k == CHOOSE m \in ops : \A other \in ops : other <= m
             IN IF ops = {} THEN of[<<Operand[x[1]], a, b>>]
                ELSE Term(s[k], <<of[<<x[1], a, k - 1>>], of[<<Operand[x[1]], k + 1, b>>]>>)
           ELSE IF s[a] = "+" THEN of[<<"unary", a + 1, b>>]
           ELSE IF s[a] = "-" THEN Term("neg", <<of[<<"unary", a + 1, b>>]>>)
           ELSE IF s[a] = "(" /\ s[b] = ")" THEN of[<<"sum", a + 1, b - 1>>]
           ELSE IF s[a] \in Literals /\ a = b THEN <<"val", value[a]>>
           ELSE Invalid
  IN of[<<"sum", 1, Len(s)>>]

\* The value of a literal for the parser: the number of its token.
Place == [k \in Nat |-> k]

\* The term of a tree of the parser.
TermOf(dag) ==
  LET of[d \in 1 .. Len(nodes)] ==
        LET node == nodes[d]
        IN CASE node.op = "val" -> <<"val", node.val>>
             [] node.op = "neg" -> <<"neg", of[node.right]>>
             [] OTHER -> <<node.op, of[node.left], of[node.right]>>
  IN of[dag]

Children(d) == {nodes[d].left, nodes[d].right} \ {NULL}
Parents(d) == {p \in DOMAIN nodes : d \in Children(p)}
=============================================================================
