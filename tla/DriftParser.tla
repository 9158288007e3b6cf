---- MODULE DriftParser ----
(***************************************************************************)
(* The parser of drift: parser/core, parser/control_flow and               *)
(* parser/functions.                                                       *)
(*                                                                         *)
(* parser_parse(T, i) gives the statement s that starts at token i and the *)
(* cursor i behind it.  A statement is a record with its type in t.  Its   *)
(* expressions are texts: the parser puts the tokens back together and the *)
(* interpreter scans the text again.                                       *)
(*                                                                         *)
(* Three types stand for what is not a statement.  "garbage": the parser   *)
(* of a delegated statement failed and parser_parse returns its local      *)
(* variable, which nothing has set.  "hang": a loop that reads nothing.    *)
(* "crash": a write through the null pointer of an array that was not made.*)
(***************************************************************************)
EXTENDS DriftArrays

is_statement_terminator == {"newline", ";"}
Boundary == is_statement_terminator \cup {"eof", "none"}

Garbage == [t |-> "garbage"]
Hang    == [t |-> "hang"]
Crash   == [t |-> "crash"]
Stuck(s) == s.t \in {"hang", "crash"}

Stmt(i, s) == [i |-> i, s |-> s]

(***************************************************************************)
(* From tokens to expression text and back.                                *)
(***************************************************************************)

\* append_expression_token: the quotes a string lost in the lexer are put back.
append_expression_token(token) ==
  IF token.k = "string" /\ At(token.v, 1) \notin {"\"", "'"} THEN "\"" \o token.v \o "\"" ELSE token.v

\* The texts of tokens i to j with blanks between them, as append_expression_token gives them or as they are.
Render(T, i, j, quoted) ==
  FoldLeft(LAMBDA acc, token : (IF acc = "" THEN "" ELSE acc \o " ") \o
                               (IF quoted THEN append_expression_token(token) ELSE token.v),
           "", SubSeq(T, i, j))

RECURSIVE UntilKind(_, _, _), ClauseEnd(_, _, _, _, _)

\* The first cursor from i on at a token of one of these kinds.
UntilKind(T, i, kinds) == IF Kind(T, i) \in kinds THEN i ELSE UntilKind(T, i + 1, kinds)

\* The first cursor at the stop outside of parentheses and brackets (and braces), or at the end of the statement.
ClauseEnd(T, i, stop, braces, depth) ==
  LET k == Kind(T, i)
      pairs  == << <<"(", ")">>, <<"[", "]">>, <<"{", "}">> >>
      next   == [n \in 1..3 |-> CASE n = 3 /\ ~braces -> 0
                                  [] k = pairs[n][1] -> depth[n] + 1
                                  [] k = pairs[n][2] /\ depth[n] > 0 -> depth[n] - 1
                                  [] OTHER -> depth[n]]
  IN IF k \in Boundary \/ (k = stop /\ depth = <<0, 0, 0>>) THEN i
     ELSE ClauseEnd(T, i + 1, stop, braces, next)

\* A comma ends an expression only outside of parentheses, brackets and braces.
is_top_level_expression_boundary(T, i) == ClauseEnd(T, i, ",", TRUE, <<0, 0, 0>>)

(***************************************************************************)
(* Declarations and assignments.                                           *)
(***************************************************************************)
CompoundOperators == {"+=", "-=", "*=", "/=", "%=", "&=", "|=", "^=", "<<=", ">>="}
is_assignment_operator_token == CompoundOperators \cup {"=", "++", "--"}

variable_declaration_single_init(name, decl) ==
  [name |-> name, decl |-> decl, asg |-> FALSE, elem |-> FALSE, arr |-> FALSE,
   input |-> FALSE, prompt |-> "", target |-> "", has_expr |-> FALSE, expr |-> "", op |-> "",
   acc |-> NoAccess, v |-> StrV("")]

Single(i, s) == [ok |-> TRUE, i |-> i, s |-> s]

RECURSIVE IndexedName(_, _)

\* The cursor behind one or more [number or name], or 0.
IndexedName(T, i) ==
  CASE Kind(T, i) # "[" -> i
    [] Kind(T, i + 1) \in {"int", "name"} /\ Kind(T, i + 2) = "]" -> IndexedName(T, i + 3)
    [] OTHER -> 0

is_array_element_assignment(T, i) ==
  LET end == IndexedName(T, i + 1)
  IN end > i + 1 /\ Kind(T, end) = "=" /\ Kind(T, end + 1) # "{"

\* Only a literal may be assigned to an element.
ElementAssignment(T, i) ==
  With(parse_array_access(T, i), LAMBDA a :
  LET s == variable_declaration_single_init(T[i].v, FALSE)
  IN IF is_literal_value_token(T, a.i + 1)
     THEN Single(a.i + 2, [s EXCEPT !.asg = TRUE, !.elem = TRUE, !.acc = a.acc,
                                    !.v = parse_literal_value_token(T[a.i + 1])])
     ELSE Failed(a.i + 1))

RECURSIVE ArrayItems(_, _, _)

\* parse_array_literal_value from behind the bracket: items with or without commas; a name is an empty string.
ArrayItems(T, i, items) ==
  LET k    == Kind(T, i)
  IN With(IF k = "[" THEN ArrayItems(T, i + 1, <<>>) ELSE Value(i + 1, parse_literal_value_token(T[i])), LAMBDA item :
     LET next == IF Kind(T, item.i) = "," THEN item.i + 1 ELSE item.i
     IN CASE k = "]" -> Value(i + 1, array_value_create_dynamic_from_values(
                                        IF items = <<>> THEN "null" ELSE items[1].t, items))
          [] k \notin LiteralKinds \cup {"name", "["} -> Failed(i)
          [] ~item.ok -> item
          [] OTHER -> ArrayItems(T, next, Append(items, item.v)))

parse_array_literal_value(T, i) == ArrayItems(T, i + 1, <<>>)

\* A name followed by "[" or ".select" is an access.
StartsAccess(T, i) ==
  /\ Kind(T, i) = "name"
  /\ \/ Kind(T, i + 1) = "["
     \/ Kind(T, i + 1) = "." /\ Kind(T, i + 2) = "name" /\ T[i + 2].v = "select"

ExpressionValue(T, i, s) ==
  LET end == is_top_level_expression_boundary(T, i)
  IN Single(end, [s EXCEPT !.asg = TRUE, !.has_expr = TRUE, !.v = NullV, !.expr = Render(T, i, end - 1, TRUE)])

LiteralArray(T, i, s) ==
  With(parse_array_literal_value(T, i), LAMBDA p :
    IF p.ok THEN Single(p.i, [s EXCEPT !.asg = TRUE, !.v = p.v]) ELSE p)

\* What may follow the brackets of a declared array: "=" and one more value.
DeclaredArray(T, i, s) ==
  LET j == i + 1
  IN With(parse_array_access(T, j), LAMBDA a :
     LET r == [s EXCEPT !.asg = TRUE]
     IN CASE Kind(T, i) # "=" -> Single(i, s)
          [] Kind(T, j) \in is_statement_terminator \cup {"none", ","} -> Failed(j)
          [] StartsAccess(T, j) ->
               (IF a.ok THEN Single(a.i, [r EXCEPT !.acc = a.acc, !.arr = TRUE, !.v = StrV("")]) ELSE a)
          [] OTHER -> Single(j + 1, [r EXCEPT !.v = parse_literal_value_token(T[j])]))

\* The array that could not be made is NullV: writing to it ends the program.
BracketValue(T, i, s) ==
  With(parse_array_declaration(T, i), LAMBDA d :
    CASE Kind(T, i + 1) \notin {"int", "]", "none"} -> LiteralArray(T, i, s)
      [] ~d.ok -> d
      [] d.v = NullV -> Single(d.i, Crash)
      [] OTHER -> DeclaredArray(T, d.i, [s EXCEPT !.v = d.v]))

(***************************************************************************)
(* ask.  An item is [hp, prompt, ht, target]: the code's has_prompt and    *)
(* has_target, and the texts.                                              *)
(***************************************************************************)
Item(hp, prompt, ht, target) == [hp |-> hp, prompt |-> prompt, ht |-> ht, target |-> target]

RECURSIVE NamesIn(_, _)

NameChars == is_identifier_start \cup is_digit

\* The runs of letters, digits and underscores.
NamesIn(s, i) ==
  LET start == FindOf(s, i, NameChars)
      end   == SkipIn(s, start, NameChars)
  IN IF start > Len(s) THEN <<>> ELSE <<Slice(s, start, end - 1)>> \o NamesIn(s, end)

\* {@name, @age} in a prompt: the names, and the prompt without the braces.
extract_implicit_targets_from_prompt(s) ==
  LET open  == FindOf(s, 1, {"{"})
      close == FindOf(s, open + 1, {"}"})
  IN IF close > Len(s) THEN [prompt |-> s, names |-> <<>>]
     ELSE [prompt |-> Slice(s, 1, open - 1) \o Slice(s, close + 1, Len(s)),
           names  |-> NamesIn(Slice(s, open + 1, close - 1), 1)]

\* The first implicit target carries the prompt; an explicit one behind them is an item of its own.
ItemsOf(prompted, e, at, target) ==
  LET implicit == [n \in DOMAIN e.names |-> Item(n = 1, IF n = 1 THEN e.prompt ELSE "", TRUE, e.names[n])]
  IN IF prompted /\ e.names # <<>>
     THEN implicit \o (IF at THEN <<Item(FALSE, "", TRUE, target)>> ELSE <<>>)
     ELSE <<Item(prompted, IF prompted THEN e.prompt ELSE "", at, IF at THEN target ELSE "")>>

RECURSIVE AskItems(_, _, _)

\* Prompts and @targets up to the first other token, which is left alone.
AskItems(T, i, items) ==
  With(extract_implicit_targets_from_prompt(Unquoted(T[i].v)), LAMBDA e :
  LET prompted == Kind(T, i) = "string"
      j   == IF prompted THEN i + 1 ELSE i
      at  == Kind(T, j) = "@"
  IN With(items \o ItemsOf(prompted, e, at, T[j + 1].v), LAMBDA all :
     LET end == IF at THEN j + 2 ELSE j
     IN CASE at /\ Kind(T, j + 1) # "name" -> Failed(j + 1)
          [] ~prompted /\ ~at -> Failed(j)
          [] Kind(T, end) \in {"string", "@"} -> AskItems(T, end, all)
          [] OTHER -> [ok |-> TRUE, i |-> end, items |-> all]))

parse_ask_statement(T, i) == AskItems(T, i + 1, <<>>)

\* x = ask ...: only the first item counts.
InputValue(T, i, s) ==
  With(parse_ask_statement(T, i), LAMBDA p :
    IF p.ok THEN Single(p.i, [s EXCEPT !.asg = TRUE, !.input = TRUE, !.v = NullV,
                                       !.prompt = p.items[1].prompt, !.target = p.items[1].target])
    ELSE p)

AccessValue(T, i, s) ==
  With(parse_array_access(T, i), LAMBDA a :
    IF a.ok THEN Single(a.i, [s EXCEPT !.asg = TRUE, !.arr = TRUE, !.acc = a.acc, !.v = NullV]) ELSE a)

\* What stands behind the "=".
AssignedValue(T, i, s) ==
  CASE Kind(T, i) \in is_statement_terminator \cup {"none", ","} -> Failed(i)
    [] Kind(T, i) = "ask"  -> InputValue(T, i, s)
    [] Kind(T, i) = "["    -> LiteralArray(T, i, s)
    [] StartsAccess(T, i)  -> AccessValue(T, i, s)
    [] OTHER               -> ExpressionValue(T, i, s)

\* One item of a declaration or of an assignment.
parse_single_declaration(T, i, decl) ==
  LET s == variable_declaration_single_init(T[i].v, decl)
      k == Kind(T, i + 1)
  IN CASE Kind(T, i) # "name" -> Failed(i)
       [] k \in is_statement_terminator \cup {"none", ","} -> Single(i + 1, [s EXCEPT !.v = NullV])
       [] k \in {"++", "--"} -> Single(i + 2, [s EXCEPT !.asg = TRUE, !.op = k, !.v = NullV])
       [] k \in CompoundOperators -> ExpressionValue(T, i + 2, [s EXCEPT !.op = k])
       [] is_array_element_assignment(T, i) -> ElementAssignment(T, i)
       [] k = "[" -> BracketValue(T, i + 1, s)
       [] k = "=" -> AssignedValue(T, i + 2, s)
       [] OTHER -> Failed(i + 1)

Declaration(vars) == [t |-> "decl", vars |-> vars]

RECURSIVE Declarations(_, _, _, _)

\* Items between commas.  After an error the statement is empty and the cursor stays behind what was read.
Declarations(T, i, decl, vars) ==
  With(parse_single_declaration(T, i, decl), LAMBDA p :
  With(Append(vars, p.s), LAMBDA all :
  With(Kind(T, p.i), LAMBDA k :
    CASE ~p.ok -> Stmt(p.i, Declaration(<<>>))
      [] p.s = Crash -> Stmt(p.i, Crash)
      [] k = "," -> Declarations(T, p.i + 1, decl, all)
      [] k \in is_statement_terminator -> Stmt(p.i + 1, Declaration(all))
      [] k \in {"eof", "none"} -> Stmt(p.i, Declaration(all))
      [] OTHER -> Stmt(p.i, Declaration(<<>>)))))

ElementStatement(T, i) ==
  With(ElementAssignment(T, i), LAMBDA p :
    Stmt(p.i, Declaration(IF p.ok THEN <<p.s>> ELSE <<>>)))

(***************************************************************************)
(* say: a text, a variable, an array access or an expression.              *)
(***************************************************************************)
PrintOf(form, text, acc) == [t |-> "print", form |-> form, text |-> text, acc |-> acc]
NoPrint == PrintOf("none", "", NoAccess)

\* The terminator is part of the statement.
PastTerminator(T, i) == IF Kind(T, i) \in is_statement_terminator THEN i + 1 ELSE i

PrintExpression(T, i) ==
  LET end == UntilKind(T, i, Boundary)
  IN Stmt(PastTerminator(T, end), PrintOf("expr", Render(T, i, end - 1, TRUE), NoAccess))

\* When more tokens follow an access the expression starts behind it.
PrintAccess(T, i) ==
  With(parse_array_access(T, i), LAMBDA a :
    IF a.ok /\ Kind(T, a.i) \in is_statement_terminator \cup {"eof"}
    THEN Stmt(PastTerminator(T, a.i), PrintOf("access", "", a.acc))
    ELSE PrintExpression(T, a.i))

parse_say(T, i) ==
  LET alone == Kind(T, i + 1) \in Boundary
      past  == PastTerminator(T, i + 1)
  IN CASE Kind(T, i) = "none" -> Stmt(i, NoPrint)
       [] Kind(T, i) = "string" /\ alone -> Stmt(past, PrintOf("text", Unquoted(T[i].v), NoAccess))
       [] StartsAccess(T, i) -> PrintAccess(T, i)
       [] Kind(T, i) = "name" /\ alone -> Stmt(past, PrintOf("var", T[i].v, NoAccess))
       [] OTHER -> PrintExpression(T, i)

(***************************************************************************)
(* Blocks.  A body ends at a stop, at the end of the source or, once it is *)
(* no longer on the line of its header, at a line indented no deeper.      *)
(***************************************************************************)
RECURSIVE Body(_, _, _, _, _, _, _), parser_parse(_, _), IfChain(_, _, _), WhenCases(_, _, _, _)

Stops == {"end", "."}

\* parse_if_body, parse_repeat_body, parse_for_body and so on; stuck is the statement nothing follows.
Body(T, i, skips, stops, indentation, inline, body) ==
  With(parser_parse(T, i), LAMBDA p :
  LET k == Kind(T, i)
  IN CASE k \in {"eof", "none"} -> [i |-> i, body |-> body, stuck |-> <<>>]
       [] k \in skips -> Body(T, i + 1, skips, stops, indentation, FALSE, body)
       [] k \in stops \/ (~inline /\ T[i].ind <= indentation) -> [i |-> i, body |-> body, stuck |-> <<>>]
       [] Stuck(p.s) -> [i |-> p.i, body |-> body, stuck |-> <<p.s>>]
       [] OTHER -> Body(T, p.i, skips, stops, indentation, FALSE, Append(body, p.s)))

\* Each body gets the indentation of its own header.
parse_if_body(T, i, indentation) ==
  Body(T, i, {"newline"}, {"elif", "else"} \cup Stops, indentation, TRUE, <<>>)
parse_repeat_body(T, i) == Body(T, i, {"newline"}, Stops, -1, TRUE, <<>>)
parse_for_body(T, i, indentation) == Body(T, i, is_statement_terminator, Stops, indentation, TRUE, <<>>)
parse_function_body(T, i, indentation) == Body(T, i, {"newline"}, {"end"}, indentation, FALSE, <<>>)

\* "." or "end" behind a body belongs to the statement.
PastStop(T, i) == IF Kind(T, i) \in Stops THEN i + 1 ELSE i

\* The statement s with its body b read, or what the body got stuck on.
Closed(T, b, s) == IF b.stuck # <<>> THEN Stmt(b.i, b.stuck[1]) ELSE Stmt(PastStop(T, b.i), s)

\* The header of an if or elif: its condition, up to the colon.
read_expression_until_colon(T, i) ==
  LET end == UntilKind(T, i, Boundary \cup {":"}) IN [end |-> end, text |-> Render(T, i, end - 1, TRUE)]

\* A condition that loses the quotes of its strings: read_condition, read_expression, read_until, read_tokens.
read_condition(T, i) ==
  LET end == UntilKind(T, i, Boundary \cup {":"}) IN [end |-> end, text |-> Render(T, i, end - 1, FALSE)]

IfStatement(branches, els) == [t |-> "if", branches |-> branches, els |-> els]

\* From an if or elif on: branches, then an optional else.  An inner if takes the elif and else that follow,
\* however they are indented.
IfChain(T, i, branches) ==
  LET c   == read_expression_until_colon(T, i + 1)
  IN With(parse_if_body(T, c.end + 1, T[i].ind), LAMBDA b :
     With(Append(branches, [cond |-> c.text, body |-> b.body]), LAMBDA all :
     With(parse_if_body(T, b.i + 2, T[b.i].ind), LAMBDA e :
       CASE Kind(T, c.end) # ":" -> Stmt(c.end, Garbage)
         [] b.stuck # <<>> -> Stmt(b.i, b.stuck[1])
         [] Kind(T, b.i) = "elif" -> IfChain(T, b.i, all)
         [] Kind(T, b.i) # "else" -> Closed(T, b, IfStatement(all, <<>>))
         [] Kind(T, b.i + 1) # ":" -> Stmt(b.i + 1, Garbage)
         [] OTHER -> Closed(T, e, IfStatement(all, e.body)))))

parse_if_statement(T, i) == IfChain(T, i, <<>>)

(***************************************************************************)
(* repeat: a count, or a counter and a range.                              *)
(***************************************************************************)
RepeatHeader(i, counter, declares) ==
  [ok |-> TRUE, i |-> i, counter |-> counter, declares |-> declares, has_range |-> TRUE, infinite |-> FALSE,
   upper |-> FALSE, lower |-> FALSE, start |-> "", end |-> "", has_step |-> FALSE, step |-> ""]

read_until_tokens(T, i, stops) ==
  LET end == UntilKind(T, i, stops \cup Boundary) IN [end |-> end, text |-> Render(T, i, end - 1, TRUE)]

\* The end of a range, its optional step and the closing parenthesis.
RangeEnd(T, i, h) ==
  LET e == read_until_tokens(T, i, {",", ")"})
      p == read_until_tokens(T, e.end + 1, {")"})
  IN CASE Kind(T, e.end) = ")" -> [h EXCEPT !.end = e.text, !.i = e.end + 1]
       [] Kind(T, e.end) = "," /\ Kind(T, p.end) = ")" ->
            [h EXCEPT !.end = e.text, !.has_step = TRUE, !.step = p.text, !.i = p.end + 1]
       [] Kind(T, e.end) = "," -> Failed(p.end)
       [] OTHER -> Failed(e.end)

\* "..." is the inclusive range, "..<" and "..>" leave one bound out.
parse_repeat_range(T, i, h) ==
  LET s == read_until_tokens(T, i, {"...", "."})
      r == [h EXCEPT !.start = s.text]
  IN CASE Kind(T, i) = ")" -> [h EXCEPT !.infinite = TRUE, !.i = i + 1]
       [] Kind(T, i) = "..." ->
            (IF Kind(T, i + 1) = ")" THEN [h EXCEPT !.infinite = TRUE, !.i = i + 2] ELSE Failed(i + 1))
       [] Kind(T, s.end) = "..." -> RangeEnd(T, s.end + 1, r)
       [] Kind(T, s.end) # "." -> Failed(s.end)
       [] Kind(T, s.end + 1) # "." -> Failed(s.end + 1)
       [] Kind(T, s.end + 2) = "<" -> RangeEnd(T, s.end + 3, [r EXCEPT !.upper = TRUE])
       [] Kind(T, s.end + 2) = ">" -> RangeEnd(T, s.end + 3, [r EXCEPT !.lower = TRUE])
       [] OTHER -> Failed(s.end + 2)

\* A counter followed by a colon alone has no range; the header then wants another colon.
parse_repeat_header(T, i) ==
  LET declares == Kind(T, i) = "var"
      n == IF declares THEN i + 1 ELSE i
      h == RepeatHeader(n + 2, T[n].v, declares)
  IN CASE Kind(T, i) = "int" ->
            [RepeatHeader(i + 1, "__repeat_counter", TRUE) EXCEPT !.upper = TRUE, !.start = "0", !.end = T[i].v]
       [] Kind(T, n) # "name" -> Failed(n)
       [] Kind(T, n + 1) = "(" -> parse_repeat_range(T, n + 2, h)
       [] Kind(T, n + 1) = ":" -> [h EXCEPT !.has_range = FALSE]
       [] OTHER -> Failed(n + 1)

\* The statement was cleared at the start: a failed header is the empty print statement.
parse_repeat_statement(T, i) ==
  With(parse_repeat_header(T, i + 1), LAMBDA h :
  With(parse_repeat_body(T, h.i + 1), LAMBDA b :
    CASE ~h.ok -> Stmt(h.i, NoPrint)
      [] Kind(T, h.i) # ":" -> Stmt(h.i, NoPrint)
      [] OTHER -> Closed(T, b, [t |-> "repeat", h |-> h, body |-> b.body])))

(***************************************************************************)
(* for, while, each, unless and when.                                      *)
(***************************************************************************)

\* Braces do not count in a clause.
read_clause(T, i, stop) ==
  LET end == ClauseEnd(T, i, stop, FALSE, <<0, 0, 0>>)
  IN [end |-> end, text |-> Render(T, i, end - 1, FALSE)]

parse_for_statement(T, i) ==
  LET parens   == Kind(T, i + 1) = "("
      j        == IF parens THEN i + 2 ELSE i + 1
      declares == Kind(T, j) = "var"
      init     == read_clause(T, IF declares THEN j + 1 ELSE j, ",")
  IN With(read_clause(T, init.end + 1, ","), LAMBDA cond :
     With(read_clause(T, cond.end + 1, IF parens THEN ")" ELSE ":"), LAMBDA inc :
     With(IF parens THEN inc.end + 1 ELSE inc.end, LAMBDA colon :
     With(parse_for_body(T, colon + 1, T[i].ind), LAMBDA b :
       CASE Kind(T, init.end) # "," -> Stmt(init.end, Garbage)
         [] Kind(T, cond.end) # "," -> Stmt(cond.end, Garbage)
         [] parens /\ Kind(T, inc.end) # ")" -> Stmt(inc.end, Garbage)
         [] Kind(T, colon) # ":" -> Stmt(colon, Garbage)
         [] OTHER -> Closed(T, b, [t |-> "for", declares |-> declares, init |-> init.text, cond |-> cond.text,
                                   inc |-> inc.text, body |-> b.body])))))

\* while and unless have the same form.
Conditional(T, i, type) ==
  LET c == read_condition(T, i + 1)
  IN With(parse_for_body(T, c.end + 1, T[i].ind), LAMBDA b :
       IF c.text = "" \/ Kind(T, c.end) # ":" THEN Stmt(c.end, Garbage)
       ELSE Closed(T, b, [t |-> type, cond |-> c.text, body |-> b.body]))

parse_while_statement(T, i)  == Conditional(T, i, "while")
parse_unless_statement(T, i) == Conditional(T, i, "unless")

\* The first place of "..." in a text, or the place behind it.
RECURSIVE RangeMark(_, _)
RangeMark(s, i) == IF i > Len(s) \/ Slice(s, i, i + 2) = "..." THEN i ELSE RangeMark(s, i + 1)

parse_each_statement(T, i) ==
  LET n     == IF Kind(T, i + 1) = "var" THEN i + 2 ELSE i + 1
      src   == read_condition(T, n + 2)
  IN With(parse_for_body(T, src.end + 1, T[i].ind), LAMBDA b :
     LET mark  == RangeMark(src.text, 1)
         range == mark <= Len(src.text)
     IN CASE Kind(T, n) # "name" -> Stmt(n, Garbage)
          [] Kind(T, n + 1) # "in" -> Stmt(n + 1, Garbage)
          [] src.text = "" \/ Kind(T, src.end) # ":" -> Stmt(src.end, Garbage)
          [] OTHER -> Closed(T, b, [t |-> "each", item |-> T[n].v, range |-> range,
                                    source |-> IF range THEN Slice(src.text, 1, mark - 1) ELSE src.text,
                                    end |-> Slice(src.text, mark + 3, Len(src.text)), body |-> b.body]))

\* The cases of a when, then an optional else, which ends it.
WhenCases(T, i, indentation, s) ==
  LET k == Kind(T, i)
      c == read_condition(T, i)
  IN With(parse_for_body(T, (IF k = "else" THEN i + 1 ELSE c.end) + 1, T[i].ind), LAMBDA b :
       CASE k \in {"none", "eof"} \cup Stops -> Stmt(PastStop(T, i), s)
         [] k \in is_statement_terminator -> WhenCases(T, i + 1, indentation, s)
         [] T[i].ind <= indentation -> Stmt(i, s)
         [] k = "else" /\ Kind(T, i + 1) # ":" -> Stmt(i + 1, Garbage)
         [] k = "else" -> Closed(T, b, [s EXCEPT !.els = b.body])
         [] c.text = "" \/ Kind(T, c.end) # ":" -> Stmt(c.end, Garbage)
         [] b.stuck # <<>> -> Stmt(b.i, b.stuck[1])
         [] OTHER -> WhenCases(T, b.i, indentation, [s EXCEPT !.cases = Append(@, [value |-> c.text, body |-> b.body])]))

parse_when_statement(T, i) ==
  LET c == read_condition(T, i + 1)
  IN IF c.text = "" \/ Kind(T, c.end) # ":" THEN Stmt(c.end, Garbage)
     ELSE WhenCases(T, c.end + 1, T[i].ind, [t |-> "when", subject |-> c.text, cases |-> <<>>, els |-> <<>>])

(***************************************************************************)
(* Functions.                                                              *)
(***************************************************************************)

\* A semicolon does not end it.
collect_expression(T, i, stops) ==
  LET end == UntilKind(T, i, {"newline", "eof", "none"} \cup stops) IN [end |-> end, text |-> Render(T, i, end - 1, FALSE)]

PastNewline(T, i) == IF Kind(T, i) = "newline" THEN i + 1 ELSE i

parse_return_statement(T, i) ==
  LET e == collect_expression(T, i + 1, {})
  IN Stmt(PastNewline(T, e.end), [t |-> "return", expr |-> e.text])

RECURSIVE CallArguments(_, _, _), Parameters(_, _, _)

\* An argument ends at a comma or at the end of the line: a call whose last argument has no comma behind it
\* is never finished.
CallArguments(T, i, args) ==
  LET a == collect_expression(T, i, {","})
  IN CASE Kind(T, i) = ")" -> [ok |-> TRUE, i |-> i + 1, args |-> args]
       [] Kind(T, a.end) = "," -> CallArguments(T, a.end + 1, Append(args, a.text))
       [] OTHER -> Failed(a.end)

parse_function_call_statement(T, i) ==
  With(CallArguments(T, i + 2, <<>>), LAMBDA a :
    IF a.ok THEN Stmt(PastNewline(T, a.i), [t |-> "call", name |-> T[i].v, args |-> a.args])
    ELSE Stmt(a.i, Hang))

\* Names with or without commas, up to the closing parenthesis.
Parameters(T, i, names) ==
  CASE Kind(T, i) = ")" -> [ok |-> TRUE, i |-> i, names |-> names]
    [] Kind(T, i) # "name" -> Failed(i)
    [] OTHER -> Parameters(T, IF Kind(T, i + 1) = "," THEN i + 2 ELSE i + 1, Append(names, T[i].v))

\* The body is what is indented deeper than the line of the closing parenthesis; only "end" closes it.
parse_function_statement(T, i) ==
  LET p == Parameters(T, i + 3, <<>>)
  IN With(parse_function_body(T, p.i + 2, T[p.i].ind), LAMBDA b :
       CASE Kind(T, i + 1) # "name" -> Stmt(i + 2, Garbage)
         [] Kind(T, i + 2) # "(" -> Stmt(i + 2, Garbage)
         [] ~p.ok -> Stmt(p.i, Garbage)
         [] Kind(T, p.i + 1) # ":" -> Stmt(p.i + 1, Garbage)
         [] b.stuck # <<>> -> Stmt(b.i, b.stuck[1])
         [] OTHER -> Stmt(IF Kind(T, b.i) = "end" THEN b.i + 1 ELSE b.i,
                          [t |-> "fun", name |-> T[i + 1].v, params |-> p.names, body |-> b.body]))

(***************************************************************************)
(* One statement.                                                          *)
(***************************************************************************)
AskStatement(T, i) ==
  With(parse_ask_statement(T, i), LAMBDA p :
    Stmt(p.i, IF p.ok THEN [t |-> "input", items |-> p.items] ELSE Garbage))

\* Mutant: the token is left for the next statement.
BugReject(T, i) == Stmt(i, NoPrint)

\* A token no statement starts with: the rest of the statement is skipped.
RejectStatement(T, i) == Stmt(PastTerminator(T, UntilKind(T, i + 1, Boundary)), NoPrint)

\* The statements a keyword starts.
KeywordStatement(T, i) ==
  CASE Kind(T, i) = "say"    -> parse_say(T, i + 1)
    [] Kind(T, i) = "ask"    -> AskStatement(T, i)
    [] Kind(T, i) = "if"     -> parse_if_statement(T, i)
    [] Kind(T, i) = "repeat" -> parse_repeat_statement(T, i)
    [] Kind(T, i) = "for"    -> parse_for_statement(T, i)
    [] Kind(T, i) = "while"  -> parse_while_statement(T, i)
    [] Kind(T, i) = "each"   -> parse_each_statement(T, i)
    [] Kind(T, i) = "unless" -> parse_unless_statement(T, i)
    [] Kind(T, i) = "when"   -> parse_when_statement(T, i)
    [] Kind(T, i) = "fun"    -> parse_function_statement(T, i)
    [] Kind(T, i) = "return" -> parse_return_statement(T, i)
    [] Kind(T, i) = "var"    -> Declarations(T, i + 1, TRUE, <<>>)
    [] Kind(T, i) \in {"break", "continue"} -> Stmt(PastTerminator(T, i + 1), [t |-> Kind(T, i)])
    [] OTHER -> RejectStatement(T, i)

parser_parse(T, i) ==
  LET k == Kind(T, i + 1)
  IN CASE Kind(T, i) = "newline" -> parser_parse(T, i + 1)
       [] Kind(T, i) \in {"eof", "none"} -> Stmt(i, NoPrint)
       [] Kind(T, i) # "name" -> KeywordStatement(T, i)
       [] is_array_element_assignment(T, i) -> ElementStatement(T, i)
       [] k \in is_assignment_operator_token -> Declarations(T, i, FALSE, <<>>)
       [] k = "(" -> parse_function_call_statement(T, i)
       [] OTHER -> RejectStatement(T, i)
====
