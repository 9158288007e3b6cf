---- MODULE MCDrift ----
(***************************************************************************)
(* Sessions of drift for TLC.  A test is a front end, the lines on its     *)
(* input, the text of its file and, where the test has one, the output a   *)
(* reference definition gives.  Each family of tests enumerates every      *)
(* program of one shape.                                                   *)
(***************************************************************************)
EXTENDS DriftSession

VARIABLE test

mcvars == <<test, vars>>

Lines(seq) == FoldLeft(LAMBDA acc, line : acc \o line \o "\n", "", seq)

\* A file, what it reads and what it is to write.
File(family, text, lines, want) ==
  [family |-> family, front |-> "file", path |-> "a.df", text |-> text, lines |-> lines, want |-> want]

SeqsOf(S, n) == UNION {[1..k -> S] : k \in 0..n}

(***************************************************************************)
(* Expressions: the operators from loose to tight, trees of two operators  *)
(* written with no more parentheses than this order needs, and the value   *)
(* of the tree.                                                            *)
(***************************************************************************)
Looseness == << {"||"}, {"&&"}, {"|"}, {"^"}, {"==", "!="}, {"<", "<=", ">", ">="}, {"<<", ">>"}, {"&"},
                {"+", "-"}, {"*", "/", "%"} >>
BinaryOperators == UNION Range(Looseness)
LevelOf(op) == CHOOSE n \in DOMAIN Looseness : op \in Looseness[n]

Leaf(v) == [op |-> "", v |-> v]
Node(op, l, r) == [op |-> op, l |-> l, r |-> r]

RECURSIVE TreeText(_), TreeValue(_)

\* Operators of the same level associate to the left.
TreeText(tree) ==
  LET child(c, loosest) == IF c.op # "" /\ LevelOf(c.op) < loosest THEN "(" \o TreeText(c) \o ")" ELSE TreeText(c)
  IN IF tree.op = "" THEN IntText(tree.v.n)
     ELSE child(tree.l, LevelOf(tree.op)) \o " " \o tree.op \o " " \o child(tree.r, LevelOf(tree.op) + 1)

TreeValue(tree) ==
  IF tree.op = "" THEN tree.v ELSE operator_apply(tree.op, TreeValue(tree.l), TreeValue(tree.r))

Trees ==
  LET a == Leaf(IntV(7))
      b == Leaf(IntV(3))
      c == Leaf(IntV(2))
  IN {Node(op2, Node(op1, a, b), c) : op1, op2 \in BinaryOperators}
     \cup {Node(op1, a, Node(op2, b, c)) : op1, op2 \in BinaryOperators}

ExpressionTests ==
  {File("expression", Lines(<<"say " \o TreeText(tree)>>), <<>>, <<print_value(TreeValue(tree))>>) : tree \in Trees}

(***************************************************************************)
(* Loops: the counters a loop runs through, by the ends of its range.      *)
(***************************************************************************)
Bodies == {"plain", "break", "continue"}

\* The body writes i, and leaves the loop or the pass at 1.
BodyLines(body) ==
  IF body = "plain" THEN <<" say i", "end">> ELSE <<" if i == 1:", "  " \o body, " end", " say i", "end">>

Written(body, counters) ==
  LET ones == {n \in DOMAIN counters : counters[n] = 1}
      kept == CASE body = "plain" \/ ones = {} -> counters
                [] body = "break" -> SubSeq(counters, 1, Min(ones) - 1)
                [] OTHER -> SelectSeq(counters, LAMBDA v : v # 1)
  IN [n \in DOMAIN kept |-> IntText(kept[n])]

\* From a to b in steps; nothing when the step leads away from b.
Progression(a, b, step) ==
  LET k == IF (b - a) * step >= 0 THEN AbsVal(b - a) \div AbsVal(step) ELSE -1
  IN [n \in 1..k + 1 |-> a + (n - 1) * step]

Ends == 0..3
Steps == {-2, -1, 1, 2}

StepText(step) == IF step > 0 THEN ", i+" \o IntText(step) ELSE ", i" \o IntText(step)

\* ".." with three dots includes b, "..<" leaves b out, "..>" leaves b out and only counts down.
RepeatCounters(range, a, b, step) ==
  CASE range = "..." -> Progression(a, b, step)
    [] range = "..>" /\ a <= b -> <<>>
    [] OTHER -> SelectSeq(Progression(a, b, step), LAMBDA v : v # b)

RepeatTest(range, a, b, step, given, body) ==
  File("loop", Lines(<<"repeat var i (" \o IntText(a) \o range \o IntText(b) \o
                       (IF given THEN StepText(step) ELSE "") \o "):">> \o BodyLines(body)),
       <<>>, Written(body, RepeatCounters(range, a, b, step)))

\* Counting up from above with "..>" never ends; that is left to EndlessTests.
RepeatTests ==
  {RepeatTest(range, a, b, IF a <= b THEN 1 ELSE -1, FALSE, body) :
     range \in {"...", "..<", "..>"}, a \in Ends, b \in Ends, body \in Bodies}
  \cup {RepeatTest(range, a, b, step, TRUE, body) :
          range \in {"...", "..<"}, a \in Ends, b \in Ends, step \in Steps, body \in Bodies}

\* The other loops count from a to b without b; the while loop counts before its body.
CountingTests ==
  UNION {LET from == IntText(a)
             to   == IntText(b)
             upto == Progression(a, b - 1, 1)
         IN {File("loop", Lines(<<"for var i = " \o from \o ", i < " \o to \o ", i++:">> \o BodyLines(body)),
                  <<>>, Written(body, upto)),
             File("loop", Lines(<<"each var i in " \o from \o "..." \o to \o ":">> \o BodyLines(body)),
                  <<>>, Written(body, upto)),
             File("loop", Lines(<<"var i = " \o from, "while i < " \o to \o ":", " i++">> \o BodyLines(body)),
                  <<>>, Written(body, Progression(a + 1, b, 1)))}
         : a \in Ends, b \in Ends, body \in Bodies}
(***************************************************************************)
(* Arrays: rows of one or two numbers in an array of two dimensions, one   *)
(* element set, perhaps outside, and one element read.                     *)
(***************************************************************************)
Grids == {g \in SeqsOf(SeqsOf({1, 2}, 2), 2) : Len(g) = 2 /\ \A n \in 1..2 : Len(g[n]) > 0}
Cells == (0..2) \X (0..2)

Braced(parts) == "{" \o Join(parts, ", ") \o "}"
GridText(g) == Braced([n \in DOMAIN g |-> Braced([k \in DOMAIN g[n] |-> IntText(g[n][k])])])
CellText(name, cell) == name \o "[" \o IntText(cell[1]) \o "][" \o IntText(cell[2]) \o "]"

\* Setting a cell outside makes room for it; what no row gave is null; there is nothing outside.
CellRead(g, set, cell) ==
  LET rows == IF set = <<>> THEN 2 ELSE Max({2, set[1] + 1})
      cols == Max({Len(g[1]), Len(g[2])} \cup (IF set = <<>> THEN {} ELSE {set[2] + 1}))
  IN CASE cell = set -> "9"
       [] cell[1] < Len(g) /\ cell[2] < Len(g[cell[1] + 1]) -> IntText(g[cell[1] + 1][cell[2] + 1])
       [] cell[1] < rows /\ cell[2] < cols -> "null"
       [] OTHER -> ""

\* The array itself, or a copy taken before the element was set.
ArrayTests ==
  {File("array", Lines(<<"var m[][] = " \o GridText(g), CellText("m", set) \o " = 9", "say " \o CellText("m", cell)>>),
        <<>>, <<CellRead(g, set, cell)>>) : g \in Grids, set \in Cells, cell \in Cells}
  \cup {File("array", Lines(<<"var m[][] = " \o GridText(g), "var k = m", CellText("m", set) \o " = 9",
                              "say " \o CellText("k", cell)>>),
             <<>>, <<CellRead(g, <<>>, cell)>>) : g \in Grids, set \in {<<0, 0>>, <<2, 2>>}, cell \in Cells}

(***************************************************************************)
(* Input: the fields of the lines in order; a prompt starts a new line.    *)
(***************************************************************************)
InputLines == {"1 2", "7", " ", "a \"b c\" 3"}
FieldsOf(line) == CASE line = "1 2" -> <<"1", "2">> [] line = "7" -> <<"7">> [] line = " " -> <<>>
                    [] OTHER -> <<"a", "b c", "3">>
Names == <<"x", "y", "z">>

AskText(prompts) ==
  "ask" \o FoldLeft(LAMBDA acc, n : acc \o (IF prompts[n] THEN " \"p\"" ELSE "") \o " @" \o Names[n], "", <<1, 2, 3>>)

RECURSIVE Answers(_, _, _)

\* What each item gets when `rest` is left of the current line and `lines` are behind it.
Answers(prompts, rest, lines) ==
  LET full == SelectSeq(lines, LAMBDA fields : fields # <<>>)
  IN CASE prompts = <<>> -> <<>>
       [] prompts # <<>> /\ ~Head(prompts) /\ rest # <<>> ->
            <<Head(rest)>> \o Answers(Tail(prompts), Tail(rest), lines)
       [] OTHER -> IF full = <<>> THEN <<"">> \o Answers(Tail(prompts), <<>>, <<>>)
                   ELSE <<Head(full[1])>> \o Answers(Tail(prompts), Tail(full[1]), Tail(full))

AskTests ==
  {LET fields == [n \in DOMAIN lines |-> FieldsOf(lines[n])]
       asked  == SelectSeq(prompts, LAMBDA p : p)
   IN File("ask", Lines(<<AskText(prompts), "say x", "say y", "say z">>), lines,
           [n \in DOMAIN asked |-> "p"] \o Answers(prompts, <<>>, fields))
   : prompts \in [1..3 -> BOOLEAN], lines \in SeqsOf(InputLines, 3)}

(***************************************************************************)
(* Whatever is written: words in every order, and comments.                *)
(***************************************************************************)
Words == {"say ", "x ", "1 ", "\n", " ", "if ", ": ", "end ", "var ", "= ", "[ ", "( ", ") ", "{ ", ", ", "fun ", "ask ", "... "}
Fragments == {"/*\n", "*/\n", "@exc\n", ".exc\n", "say 1\n", "// \"\n"}

TextTests(family, words, n) ==
  {File(family, FoldLeft(LAMBDA acc, w : acc \o w, "", s), <<>>, <<>>) : s \in SeqsOf(words, n)}
(***************************************************************************)
(* Sessions: the same lines typed one by one and in one file.              *)
(***************************************************************************)
PromptEntries == {<<"var x = 1">>, <<"x++">>, <<"say x; var y = x">>, <<"">>, <<"say 1 /* c", "exit", "c; say 3; */; say 2">>, <<"exit">>}
ScriptEntries == {<<"var x = 1">>, <<"x = x + 1">>, <<"say x; var y = x">>, <<"">>, <<"say \"{x}\"">>, <<"break">>}

\* The lines of a session up to the one that ends it.
Executed(entries) ==
  LET last == {n \in DOMAIN entries : entries[n] = <<"exit">>}
  IN FlattenSeq(IF last = {} THEN entries ELSE SubSeq(entries, 1, Min(last) - 1))

\* A script may start with a file, longer than ScriptMax.
ScriptFile == "var x = 7\nsay x // and so on"

SessionTests(who, path, entries) ==
  {[family |-> "session", front |-> who, path |-> path, lines |-> FlattenSeq(s), want |-> <<>>,
    text |-> (IF path = "" THEN "" ELSE Slice(ScriptFile, 1, ScriptMax) \o "\n") \o Lines(Executed(s))]
   : s \in SeqsOf(entries, 4)}

RECURSIVE ParseAll(_, _, _)

ParseAll(T, i, parsed) ==
  With(parser_parse(T, i), LAMBDA p :
    CASE Kind(T, i) = "eof" -> parsed
      [] Kind(T, i) = "newline" -> ParseAll(T, i + 1, parsed)
      [] OTHER -> ParseAll(T, p.i, Append(parsed, p.s)))

\* The whole text as one source, in an environment of its own.
InOneFile(text) ==
  LET T == lexer_scan_all(extract_executable_from_exc_blocks(text))
  IN ExecuteBody(environment_create(<<>>, Fuel, FALSE), ParseAll(T, 1, <<>>))

(***************************************************************************)
(* Functions, and programs that end early.                                 *)
(***************************************************************************)
FunctionTests ==
  {File("function", Lines(first \o <<"fun f():", " " \o body, "end">> \o calls), <<>>, <<>>) :
     first \in {<<>>, <<"var x = 1">>}, body \in {"say x", "x = 2", "var y = 3", "return 1", "break"},
     calls \in {<<>>, <<"f()">>, <<"f()", "f()">>, <<"say 1", "f()">>, <<"fun g():", " x = 4", "end", "f()">>}}

OtherTests ==
  {File("other", text, <<>>, <<>>) :
     text \in {"repeat var i (...):\n say i\nend\n", "repeat var i (3..>0, i+1):\n say i\nend\n", "f(1)\n",
               "var a = 1, b = 2, c = 3\nvar d = 4\n", "var a[][] = {{}, {1, 2}}\n", "say \"open\n"}}
  \cup {[File("other", "say 1\n", <<>>, <<>>) EXCEPT !.path = "a.txt"]}

(***************************************************************************)
(* The specification.                                                      *)
(***************************************************************************)
InitWith(tests) ==
  /\ test \in tests
  /\ \E intact \in IF test.family = "function" THEN BOOLEAN ELSE {TRUE} : StartSession(test.front, test.lines, intact)

\* The shell was given a script file and has not run it yet.
ScriptGiven == test.front = "script" /\ test.path # "" /\ tokens = <<>>

Next ==
  \/ ScriptGiven /\ gsh_script_run_file(ScriptFile) /\ UNCHANGED test
  \/ execute_file(test.path, test.text) /\ UNCHANGED test
  \/ ~ScriptGiven /\ SessionNext /\ UNCHANGED test

Tests ==
  ExpressionTests \cup RepeatTests \cup CountingTests \cup ArrayTests \cup AskTests
  \cup TextTests("words", Words, 3) \cup TextTests("comments", Fragments, 4)
  \cup SessionTests("prompt", "", PromptEntries) \cup SessionTests("script", "", ScriptEntries)
  \cup SessionTests("script", "a", ScriptEntries)
  \cup FunctionTests \cup OtherTests

Spec == InitWith(Tests) /\ [][Next]_mcvars

(***************************************************************************)
(* What is checked.                                                        *)
(***************************************************************************)
Ended == phase = "ended"
Meets(family) == Ended /\ test.family = family => env.out = test.want

\* An expression has the value of its tree, however few parentheses it is written with: the climbing of
\* evaluate_expression_tokens groups by the order of the operators, and to the left among equals.  The
\* parser's way from tokens to text and back changes nothing.
ExpressionsAgree == Meets("expression")

\* Every loop runs through the counters its header names, in this order and no others; break drops the
\* rest and continue only the pass.
LoopsAgree == Meets("loop")

\* Reading an element gives what was set there last, what the initialiser gave, or null, also after the
\* array has grown in either dimension; a copy keeps its elements.
ArraysAgree == Meets("array")

\* ask hands out the fields of the typed lines in order, each at most once, and a prompt starts a new line.
InputsInOrder == Meets("ask")

\* A session writes what the same lines write in one file, up to the first error, and binds the same
\* values: reading line by line, waiting for the end of a comment and the persistent environment are
\* not visible in the results.
SessionsAgree ==
  Ended /\ test.family = "session" =>
    With(InOneFile(test.text), LAMBDA file :
      /\ IsPrefix(file.s.out, env.out)
      /\ file.res = "ok" => file.s.out = env.out /\ file.s.vars = env.vars)

\* What is left of a source without its comments fits the buffer extract_executable_from_exc_blocks
\* allocates for it, as long as the source.
ExtractFits ==
  phase = "read" /\ front = "file" => Len(extract_executable_from_exc_blocks(test.text)) <= Len(test.text)

\* Programs write what their reference definition says (evaluate_expression_tokens, the loops of
\* execute_statement, the arrays and ask).
ProgramsAgree == ExpressionsAgree /\ LoopsAgree /\ ArraysAgree /\ InputsInOrder

\* The environment is one the printing and indexing code can walk, and a source without its comments
\* fits the buffer it is written to (array.c, array_value.c, extract_executable_from_exc_blocks).
ValuesFit == TypeOK /\ ExtractFits
====
