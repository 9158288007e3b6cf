---- MODULE DriftInterpreter ----
(***************************************************************************)
(* The interpreter of drift: interpreter/core, interpreter/loop and        *)
(* interpreter/functions.                                                  *)
(*                                                                         *)
(* The state s of an execution is a record: the bindings of the            *)
(* environment (vars), whether its function table has an entry             *)
(* (registered), the function body that entry leads to (slot, see below),  *)
(* the return value (ret, <<>> or <<v>>), the lines written so far (out),  *)
(* the lines still to be typed (lines), the fields of the last line no ask *)
(* has taken yet (fields, the static buffer of input.c), the loop passes   *)
(* that are left (fuel), and whether the memory of a dead parameter keeps  *)
(* what was in it (intact).                                                *)
(*                                                                         *)
(* A statement yields its result and the state behind it.  The results     *)
(* are the code's OK, ERROR, BREAK, CONTINUE and RETURN, "undefined" where *)
(* the code reads a statement nobody set or memory that is gone, and       *)
(* "spent" when the fuel is used up.                                       *)
(***************************************************************************)
EXTENDS DriftParser

CONSTANT
  Capacity   \* DRIFT_ENVIRONMENT_CAPACITY, 128

Result(res, s) == [res |-> res, s |-> s]
Ok(s)    == Result("ok", s)
Error(s) == Result("error", s)

environment_create(lines, fuel, intact) ==
  [vars |-> <<>>, registered |-> FALSE, slot |-> <<>>, ret |-> <<>>, out |-> <<>>, lines |-> lines,
   fields |-> <<>>, fuel |-> fuel, intact |-> intact]

(***************************************************************************)
(* Bindings and functions.  An entry of the function table points to the   *)
(* parameter of the interpreter_execute that registered it, which is gone  *)
(* when that returns.  The next statement of the same list is passed in    *)
(* the same place.  A call covers the name, the parameters and their       *)
(* number there and leaves the body: whatever name it gives, the search    *)
(* finds the first entry, which leads to the body registered last.  A      *)
(* second function covers the first one.  Every other statement covers     *)
(* the body: then slot is <<>> and what the entry leads to is undefined.   *)
(***************************************************************************)
environment_exists(s, name) == name \in DOMAIN s.vars

\* Mutant: the table is not checked for room.
BugSet(s, name, v) == Ok([s EXCEPT !.vars = (name :> v) @@ @])

\* A full table refuses a new name.
environment_set(s, name, v) ==
  IF environment_exists(s, name) \/ Cardinality(DOMAIN s.vars) < Capacity
  THEN Ok([s EXCEPT !.vars = (name :> v) @@ @])
  ELSE Error(s)

EntryReadable(s) == s.intact /\ s.slot # <<>>

\* The search for the name ends at the first entry: there is never a second one.
environment_set_function(s, stmt) ==
  IF s.registered /\ ~EntryReadable(s)
  THEN Result("undefined", s)
  ELSE Ok([s EXCEPT !.registered = TRUE, !.slot = <<stmt.body>>])

(***************************************************************************)
(* Input: the fields of a line are handed out one by one.                  *)
(***************************************************************************)
RECURSIVE tokenize_input_line(_, _), FieldEnd(_, _, _), ReadFields(_)

\* The place behind the quoted field, which a backslash may continue.
FieldEnd(line, i, quote) ==
  CASE i > Len(line) -> i
    [] At(line, i) = quote -> i + 1
    [] At(line, i) = "\\" /\ i < Len(line) -> FieldEnd(line, i + 2, quote)
    [] OTHER -> FieldEnd(line, i + 1, quote)

Blanks == is_space \cup {"\n"}

tokenize_input_line(line, i) ==
  LET start  == SkipIn(line, i, Blanks)
      quoted == At(line, start) \in {"\"", "'"}
      end    == IF quoted THEN FieldEnd(line, start + 1, At(line, start)) ELSE FindOf(line, start, Blanks)
  IN IF start > Len(line) THEN <<>> ELSE <<Slice(line, start, end - 1)>> \o tokenize_input_line(line, end)

drift_parse_input_value(text) ==
  With(TextNumber(text), LAMBDA n :
  LET last == At(text, Len(text))
  IN CASE Len(text) >= 2 /\ At(text, 1) \in {"\"", "'"} /\ last = At(text, 1) -> StrV(Slice(text, 2, Len(text) - 1))
       [] text \in {"true", "TRUE"}   -> BoolV(TRUE)
       [] text \in {"false", "FALSE"} -> BoolV(FALSE)
       [] text \in {"null", "NULL"}   -> NullV
       [] text \in {"inf", "INF"}     -> InfV
       [] OTHER -> CASE NumericText(text) /\ n.d = 1 /\ last \in is_digit -> IntV(n.n)
                     [] NumericText(text) /\ (n.d # 1 \/ last = ".") -> FloatV(n.n, n.d)
                     [] OTHER -> StrV(text))

\* Empty lines are read over; at the end of the input there are no fields.
ReadFields(s) ==
  With(tokenize_input_line(Head(s.lines), 1), LAMBDA fields :
  LET rest   == [s EXCEPT !.lines = Tail(@)]
  IN CASE s.lines = <<>> -> s
       [] s.lines # <<>> /\ fields = <<>> -> ReadFields(rest)
       [] OTHER -> [rest EXCEPT !.fields = fields])

\* A prompt drops what is left of the last line.  At the end of the input the value is an empty text.
drift_prompt_and_store(s, prompt) ==
  LET kept == IF prompt = "" THEN s ELSE [s EXCEPT !.fields = <<>>]
  IN With(IF kept.fields # <<>> THEN kept
          ELSE ReadFields([kept EXCEPT !.out = IF prompt = "" THEN @ ELSE Append(@, prompt)]), LAMBDA read :
       IF read.fields = <<>> THEN [v |-> StrV(""), s |-> read]
       ELSE [v |-> drift_parse_input_value(Head(read.fields)), s |-> [read EXCEPT !.fields = Tail(@)]])

(***************************************************************************)
(* Expressions.  An evaluation yields ok, the value v, the cursor i behind *)
(* what it has read and the state s, which ++ and -- change.               *)
(***************************************************************************)
Evaluated(ok, v, i, s) == [ok |-> ok, v |-> v, i |-> i, s |-> s]

token_precedence(k) ==
  CASE k = "?"   -> 1
    [] k = "..." -> 2
    [] k = "||"  -> 3
    [] k = "&&"  -> 4
    [] k = "|"   -> 5
    [] k = "^"   -> 6
    [] k \in {"==", "!=", "is"} -> 7
    [] k \in {">", "<", ">=", "<="} -> 8
    [] k \in {"<<", ">>"} -> 9
    [] k = "&"   -> 10
    [] k \in {"+", "-"} -> 11
    [] k \in {"*", "/", "%"} -> 12
    [] k = "in"  -> 13
    [] OTHER     -> -1

\* One element of a row or one character of a text; NullV with ok = FALSE when there is none.
resolve_indexed_value(v, n) ==
  LET inside == CASE v.t = "arr" -> Len(v.dims) = 1 /\ n \in 0..Len(v.els) - 1
                  [] v.t = "str" -> n \in 0..Len(v.s) - 1
                  [] OTHER -> FALSE
  IN [ok |-> inside, v |-> CASE ~inside -> NullV
                             [] v.t = "arr" -> v.els[n + 1]
                             [] OTHER -> StrV(At(v.s, n + 1))]

resolve_identifier_or_literal(s, token) ==
  CASE token.k = "name" ->
         [ok |-> environment_exists(s, token.v), v |-> IF environment_exists(s, token.v) THEN s.vars[token.v] ELSE NullV]
    [] OTHER -> [ok |-> TRUE, v |-> parse_literal_value_token(token)]

RECURSIVE evaluate_expression_tokens(_, _, _, _), Indexed(_, _), Climb(_, _, _)

\* The brackets behind an operand: whatever the operand was, the last index decides ok.
Indexed(T, e) ==
  With(evaluate_expression_tokens(T, e.i + 1, 0, e.s), LAMBDA x :
  With(resolve_indexed_value(e.v, x.v.n), LAMBDA r :
    CASE Kind(T, e.i) # "[" -> e
      [] ~x.ok \/ x.v.t # "int" \/ Kind(T, x.i) # "]" -> Evaluated(FALSE, e.v, x.i, x.s) @@ [stop |-> TRUE]
      [] ~r.ok -> Evaluated(FALSE, e.v, x.i + 1, x.s) @@ [stop |-> TRUE]
      [] OTHER -> Indexed(T, Evaluated(TRUE, r.v, x.i + 1, x.s) @@ [stop |-> FALSE])))

\* An operand; stop: the evaluation ends here.  A name nobody has set is not ok and does not stop.
Operand(T, i, s) ==
  With(evaluate_expression_tokens(T, i + 1, 0, s), LAMBDA p :
  With(resolve_identifier_or_literal(s, T[i]), LAMBDA r :
  With(p.ok /\ Kind(T, p.i) = ")", LAMBDA closed :
    CASE Kind(T, i) = "(" -> Evaluated(closed, p.v, IF closed THEN p.i + 1 ELSE p.i, p.s) @@ [stop |-> ~closed]
      [] Kind(T, i) \in LiteralKinds \cup {"name"} -> Indexed(T, Evaluated(r.ok, r.v, i + 1, s) @@ [stop |-> FALSE])
      [] OTHER -> Evaluated(FALSE, NullV, i, s) @@ [stop |-> TRUE])))

\* x++ yields the old value; what a sign in front of x made of it is what is counted up and stored.
Postfix(T, i, e) ==
  LET step  == Kind(T, e.i)
      plain == Kind(T, i) = "name" /\ e.i = i + 1
      v     == operator_apply_increment(step, e.v)
      set   == environment_set(e.s, T[i].v, v)
  IN CASE e.stop \/ ~plain \/ step \notin {"++", "--"} -> e
       [] v = NullV \/ set.res # "ok" -> [e EXCEPT !.ok = FALSE, !.stop = TRUE]
       [] OTHER -> [e EXCEPT !.i = @ + 1, !.s = set.s]

\* Mutant: the right operand takes operators of the same level, too.
BugClimb(T, e, min) ==
  LET op == Kind(T, e.i)
      p  == token_precedence(op)
  IN With(evaluate_expression_tokens(T, e.i + 1, p, e.s), LAMBDA right :
       IF op \in {"none", ":", "~", "?"} \/ p < min THEN e
       ELSE Climb(T, [right EXCEPT !.v = operator_apply(op, e.v, right.v)], min))

\* Operators that bind at least as tight as min; each one decides ok anew.
Climb(T, e, min) ==
  LET op == Kind(T, e.i)
      p  == token_precedence(op)
  IN With(evaluate_expression_tokens(T, e.i + 1, 0, e.s), LAMBDA yes :
     With(evaluate_expression_tokens(T, yes.i + 1, p, yes.s), LAMBDA no :
     With(evaluate_expression_tokens(T, e.i + 1, p + 1, e.s), LAMBDA right :
       CASE op \in {"none", ":"} -> e
         [] op = "~" -> [e EXCEPT !.ok = FALSE]
         [] op \notin {"none", ":", "~"} /\ p < min -> e
         [] op = "?" -> (CASE ~yes.ok \/ Kind(T, yes.i) # ":" -> Evaluated(FALSE, e.v, yes.i, yes.s)
                           [] ~no.ok -> Evaluated(FALSE, e.v, no.i, no.s)
                           [] OTHER -> Climb(T, Evaluated(TRUE, operator_apply_ternary(e.v, yes.v, no.v), no.i, no.s), min))
         [] OTHER -> IF right.ok THEN Climb(T, [right EXCEPT !.v = operator_apply(op, e.v, right.v)], min)
                     ELSE [right EXCEPT !.v = e.v])))

evaluate_expression_tokens(T, i, min, s) ==
  LET sign  == Kind(T, i) \in {"+", "-", "!", "~"}
      start == IF sign THEN i + 1 ELSE i
  IN With(Operand(T, start, s), LAMBDA o :
     With(IF sign /\ ~o.stop THEN [o EXCEPT !.v = apply_unary_operator(Kind(T, i), @)] ELSE o, LAMBDA u :
     With(Postfix(T, start, u), LAMBDA e :
     With(Evaluated(e.ok, e.v, e.i, e.s), LAMBDA plain :
       IF e.stop THEN plain ELSE Climb(T, plain, min)))))

\* The whole text must be an expression.
evaluate_expression_text(s, text) ==
  With(lexer_scan_all(text), LAMBDA T :
  With(evaluate_expression_tokens(T, 1, 0, s), LAMBDA e :
    IF T = <<>> THEN Evaluated(FALSE, NullV, 1, s)
    ELSE [e EXCEPT !.ok = @ /\ Kind(T, e.i) \in {"eof", "none"}]))

(***************************************************************************)
(* Array accesses and templates.                                           *)
(***************************************************************************)

\* Numbers, or names bound to integers.
resolve_array_indices(s, acc) ==
  LET known(t) == t.k = "int" \/ (environment_exists(s, t.v) /\ s.vars[t.v].t = "int")
  IN IF \A n \in DOMAIN acc.ix : known(acc.ix[n])
     THEN [ok |-> TRUE, ix |-> [n \in DOMAIN acc.ix |-> IF acc.ix[n].k = "int" THEN parse_integer_token(acc.ix[n])
                                                        ELSE s.vars[acc.ix[n].v].n]]
     ELSE [ok |-> FALSE, ix |-> <<>>]

\* Templates and copies take the numbers as they were parsed: a name counts as 0.
LiteralIndices(acc) == [n \in DOMAIN acc.ix |-> IF acc.ix[n].k = "int" THEN parse_integer_token(acc.ix[n]) ELSE 0]

array_value_get_element(a, ix) ==
  LET at == array_value_get_flat_index(a, ix)
  IN IF at = 0 THEN [ok |-> FALSE, v |-> NullV] ELSE [ok |-> TRUE, v |-> a.els[at]]

RECURSIVE resolve_nested_array_access(_, _)

\* Row by row; an array of more dimensions takes all the indices that are left.
resolve_nested_array_access(v, ix) ==
  LET next == resolve_indexed_value(v, Head(ix))
  IN CASE ix = <<>> -> [ok |-> TRUE, v |-> v]
       [] ix # <<>> /\ v.t = "arr" /\ Len(v.dims) # 1 -> array_value_get_element(v, ix)
       [] OTHER -> IF next.ok THEN resolve_nested_array_access(next.v, Tail(ix)) ELSE next

Text(ok, text) == [ok |-> ok, text |-> text]
NoText == Text(FALSE, "")

\* The access a text between braces is, if it is one.
parse_array_template_expression(text) ==
  With(lexer_scan_all(text), LAMBDA T :
  With(parse_array_access(T, 1), LAMBDA a :
    IF T # <<>> /\ a.ok /\ Kind(T, a.i) = "eof" /\ (a.acc.whole > 0 \/ a.acc.selects \/ a.acc.ix # <<>>)
    THEN [ok |-> TRUE, acc |-> a.acc]
    ELSE [ok |-> FALSE, acc |-> NoAccess]))

\* The elements of these coordinates, if all of them exist.
Elements(a, sel) ==
  LET all == [n \in DOMAIN sel |-> array_value_get_element(a, sel[n])]
  IN [ok |-> \A n \in DOMAIN all : all[n].ok, els |-> [n \in DOMAIN all |-> all[n].v]]

SelectsRank(a, acc) == (IF acc.sel = <<>> THEN 0 ELSE Len(acc.sel[1])) = Len(a.dims)

ArrayTemplate(s, acc) ==
  LET a == s.vars[acc.name]
  IN With(Elements(a, IF acc.selects THEN acc.sel ELSE <<LiteralIndices(acc)>>), LAMBDA e :
       CASE ~environment_exists(s, acc.name) -> NoText
         [] environment_exists(s, acc.name) /\ a.t # "arr" -> NoText
         [] acc.whole > 0 -> IF acc.whole = Len(a.dims) THEN Text(TRUE, format_array_value_to_string(a)) ELSE NoText
         [] acc.selects /\ ~SelectsRank(a, acc) -> NoText
         [] OTHER -> IF e.ok THEN Text(TRUE, Join([n \in DOMAIN e.els |-> format_value_to_string(e.els[n])], " ")) ELSE NoText)

\* What stands for {text}: an array access, or the variable of exactly this name, cut to 127 characters.
Substitute(s, text) ==
  With(parse_array_template_expression(text), LAMBDA t :
    CASE t.ok -> ArrayTemplate(s, t.acc)
      [] ~environment_exists(s, text) -> NoText
      [] OTHER -> IF s.vars[text].t = "arr" THEN NoText ELSE Text(TRUE, Slice(ScalarText(s.vars[text]), 1, 127)))

RECURSIVE interpolate_template(_, _)

\* An opening brace wants its closing one, unless it is the last character.
interpolate_template(s, text) ==
  LET open  == FindOf(text, 1, {"{"})
      close == FindOf(text, open + 1, {"}"})
  IN With(Substitute(s, Slice(text, open + 1, close - 1)), LAMBDA sub :
     With(interpolate_template(s, Slice(text, close + 1, Len(text))), LAMBDA rest :
       CASE open >= Len(text) -> Text(TRUE, text)
         [] close > Len(text) -> NoText
         [] ~sub.ok -> NoText
         [] OTHER -> IF rest.ok THEN Text(TRUE, Slice(text, 1, open - 1) \o sub.text \o rest.text) ELSE NoText))

(***************************************************************************)
(* Declarations and assignments.                                           *)
(***************************************************************************)

\* A value to be stored, or the end of the statement.
Given(ok, v, s) == [ok |-> ok, v |-> v, s |-> s]
Refused(s) == Given(FALSE, NullV, s)

\* a[i] = v: the element of a copy is set and the copy is bound.
SetElement(s, single) ==
  LET a == s.vars[single.acc.name]
      x == resolve_array_indices(s, single.acc)
  IN With(array_value_set_element(a, x.ix, single.v), LAMBDA b :
       CASE ~environment_exists(s, single.acc.name) -> Error(s)
         [] a.t # "arr" \/ ~x.ok -> Error(s)
         [] OTHER -> IF b = NullV THEN Error(s) ELSE environment_set(s, single.acc.name, b))

InputGiven(s, single) ==
  With(interpolate_template(s, single.prompt), LAMBDA t :
  With(drift_prompt_and_store(s, t.text), LAMBDA r :
    IF t.ok THEN Given(TRUE, r.v, r.s) ELSE Refused(s)))

\* x++ and x--.  The compound assignments carry an expression and take the branch of expressions.
CompoundGiven(s, single) ==
  IF environment_exists(s, single.name)
  THEN Given(TRUE, operator_apply_increment(single.op, s.vars[single.name]), s)
  ELSE Refused(s)

\* Of an access only select() may be assigned: one element, or a row of several.
SelectGiven(s, acc) ==
  LET a == s.vars[acc.name]
  IN With(Elements(a, acc.sel), LAMBDA e :
       CASE ~environment_exists(s, acc.name) -> Refused(s)
         [] a.t # "arr" \/ ~acc.selects -> Refused(s)
         [] ~SelectsRank(a, acc) \/ ~e.ok -> Refused(s)
         [] OTHER -> Given(TRUE, IF Len(e.els) = 1 THEN e.els[1]
                                 ELSE array_value_create_dynamic_from_values(a.et, e.els), s))

ExpressionGiven(s, text) == With(evaluate_expression_text(s, text), LAMBDA e : Given(e.ok, e.v, e.s))

ValueGiven(s, single) ==
  CASE single.input    -> InputGiven(s, single)
    [] single.has_expr -> ExpressionGiven(s, single.expr)
    [] single.asg /\ single.op # "" -> CompoundGiven(s, single)
    [] single.asg /\ single.arr     -> SelectGiven(s, single.acc)
    [] OTHER -> Given(TRUE, single.v, s)

ExecuteSingle(s, single) ==
  With(ValueGiven(s, single), LAMBDA g :
    CASE single.elem -> SetElement(s, single)
      [] single.decl /\ environment_exists(s, single.name) -> Error(s)
      [] OTHER -> IF g.ok THEN environment_set(g.s, single.name, g.v) ELSE Error(g.s))

RECURSIVE ExecuteDeclaration(_, _), ExecuteInput(_, _)

\* Item by item: what was stored before an error stays.
ExecuteDeclaration(s, vars) ==
  With(ExecuteSingle(s, Head(vars)), LAMBDA r :
    IF r.res = "ok" /\ Len(vars) > 1 THEN ExecuteDeclaration(r.s, Tail(vars)) ELSE r)

\* The items of an ask statement.
ExecuteInput(s, items) ==
  LET item == Head(items)
  IN With(interpolate_template(s, item.prompt), LAMBDA t :
     With(drift_prompt_and_store(s, t.text), LAMBDA r :
     With(IF item.ht THEN environment_set(r.s, item.target, r.v) ELSE Ok(r.s), LAMBDA b :
       CASE items = <<>> -> Ok(s)
         [] ~t.ok -> Error(s)
         [] b.res # "ok" -> b
         [] OTHER -> ExecuteInput(b.s, Tail(items)))))

(***************************************************************************)
(* say.                                                                    *)
(***************************************************************************)
Say(s, text) == Ok([s EXCEPT !.out = Append(@, text)])

\* Elements up to the first that is missing: the line is written all the same.
print_array_selection(a, acc) ==
  LET bad == {n \in DOMAIN acc.sel : ~array_value_get_element(a, acc.sel[n]).ok}
      n   == IF bad = {} THEN Len(acc.sel) ELSE Min(bad) - 1
  IN IF SelectsRank(a, acc)
     THEN Join([k \in 1..n |-> print_value(array_value_get_element(a, acc.sel[k]).v)], " ")
     ELSE ""

\* The same for one element.
print_array_element(a, ix) ==
  LET e == array_value_get_element(a, ix) IN IF e.ok THEN print_value(e.v) ELSE ""

PrintIndexed(s, v, acc) ==
  LET x == resolve_array_indices(s, acc)
  IN With(resolve_nested_array_access(v, x.ix), LAMBDA nested :
     LET single == v.t = "str" /\ (acc.whole > 0 \/ acc.selects \/ Len(acc.ix) # 1)
     IN CASE ~x.ok \/ single -> Error(s)
          [] v.t = "str" \/ (Len(acc.ix) > 1 /\ Len(v.dims) = 1) ->
               (IF nested.ok THEN Say(s, print_value(nested.v)) ELSE Error(s))
          [] OTHER -> Say(s, print_array_element(v, x.ix)))

PrintAccessed(s, acc) ==
  LET v == s.vars[acc.name]
  IN CASE ~environment_exists(s, acc.name) -> Error(s)
       [] v.t = "str" -> PrintIndexed(s, v, acc)
       [] v.t # "arr" -> Error(s)
       [] acc.whole > 0 -> IF acc.whole = Len(v.dims) THEN Say(s, print_array_value(v)) ELSE Error(s)
       [] acc.selects -> Say(s, print_array_selection(v, acc))
       [] OTHER -> PrintIndexed(s, v, acc)

ExecutePrint(s, p) ==
  With(evaluate_expression_text(s, p.text), LAMBDA e :
  With(interpolate_template(s, p.text), LAMBDA t :
    CASE p.form = "none"   -> Error(s)
      [] p.form = "expr"   -> IF e.ok THEN Say(e.s, print_value(e.v)) ELSE Error(e.s)
      [] p.form = "access" -> PrintAccessed(s, p.acc)
      [] p.form = "var"    -> IF environment_exists(s, p.text) THEN Say(s, print_value(s.vars[p.text])) ELSE Error(s)
      [] p.form = "text"   -> IF t.ok THEN Say(s, t.text) ELSE Error(s)))

(***************************************************************************)
(* Loops.                                                                  *)
(***************************************************************************)
RECURSIVE interpreter_execute(_, _), ExecuteBody(_, _), ExecuteBranches(_, _, _), RepeatLoop(_, _, _, _, _),
          WhileLoop(_, _), ForLoop(_, _), EachLoop(_, _, _, _), WhenCase(_, _, _, _)

\* Statements up to the first whose result is not OK.
ExecuteBody(s, body) ==
  With(interpreter_execute(Head(body), s), LAMBDA r :
    CASE body = <<>> -> Ok(s)
      [] body # <<>> /\ r.res = "ok" -> ExecuteBody(r.s, Tail(body))
      [] OTHER -> r)

\* One pass of a loop is accounted for.
Burn(s) == [s EXCEPT !.fuel = @ - 1]

\* BREAK ends the loop, OK and CONTINUE start the next pass, everything else leaves the loop.
Continues(r) == r.res \in {"ok", "continue"}
LoopEnd(r) == IF r.res = "break" THEN Ok(r.s) ELSE r

strip_whitespace(text) ==
  FoldLeft(LAMBDA acc, i : IF At(text, i) \in Blanks THEN acc ELSE acc \o At(text, i), "", [i \in 1..Len(text) |-> i])

IsInteger(text) == NumericText(text) /\ At(text, Len(text)) \in is_digit /\ ~\E i \in 1..Len(text) : At(text, i) = "."

\* i++, ++i, i--, --i, i+2 and i-2; ok = FALSE for every other step.
parse_counter_step_expression(text, counter) ==
  LET n      == Len(counter)
      suffix == Slice(text, n + 1, Len(text))
      number == Slice(suffix, 2, Len(suffix))
      named  == Slice(text, 1, n) = counter
      Step(k) == [ok |-> TRUE, step |-> k]
  IN CASE named /\ suffix = "++" -> Step(1)
       [] named /\ suffix = "--" -> Step(-1)
       [] named /\ At(suffix, 1) \in {"+", "-"} /\ IsInteger(number) ->
            Step((IF At(suffix, 1) = "+" THEN 1 ELSE -1) * TextNumber(number).n)
       [] text = "++" \o counter -> Step(1)
       [] text = "--" \o counter -> Step(-1)
       [] OTHER -> [ok |-> FALSE, step |-> 0]

\* The step of a loop that starts at `start`; other steps are evaluated with the counter set to it.
RepeatStep(s, h, start) ==
  LET text  == strip_whitespace(h.step)
  IN With(parse_counter_step_expression(text, h.counter), LAMBDA short :
     LET set   == environment_set(s, h.counter, IntV(start))
     IN With(evaluate_expression_text(set.s, text), LAMBDA e :
          CASE h.step = "" -> Given(TRUE, 1, s)
            [] short.ok -> Given(TRUE, short.step, s)
            [] set.res # "ok" -> Refused(s)
            [] ~e.ok -> Refused(e.s)
            [] e.v.t # "int" -> Refused(e.s)
            [] OTHER -> IF e.v.n = start THEN Refused(e.s) ELSE Given(TRUE, e.v.n - start, e.s)))

\* A bound: its expression, or the default when it is left out.
RepeatBound(s, text, default) ==
  With(evaluate_expression_text(s, text), LAMBDA e :
    CASE text = "" -> Given(TRUE, default, s)
      [] e.ok /\ e.v.t = "int" -> Given(TRUE, e.v.n, e.s)
      [] OTHER -> Refused(e.s))

\* "..>" asks for i > end whatever the direction.
RepeatGoesOn(h, i, end, step) ==
  CASE h.infinite -> TRUE
    [] h.upper -> IF step > 0 THEN i < end ELSE i > end
    [] h.lower -> i > end
    [] OTHER   -> IF step > 0 THEN i <= end ELSE i >= end

\* The body cannot move the counter: the next pass counts on from i.
RepeatLoop(s, loop, i, end, step) ==
  LET set == environment_set(s, loop.h.counter, IntV(i))
  IN With(ExecuteBody(Burn(set.s), loop.body), LAMBDA r :
       CASE ~RepeatGoesOn(loop.h, i, end, step) -> Ok(s)
         [] s.fuel = 0 -> Result("spent", s)
         [] set.res # "ok" -> set
         [] Continues(r) -> RepeatLoop(r.s, loop, i + step, end, step)
         [] OTHER -> LoopEnd(r))

interpreter_execute_repeat(s, loop) ==
  LET h     == loop.h
  IN With(IF h.infinite THEN Given(TRUE, 0, s) ELSE RepeatBound(s, h.start, 0), LAMBDA from :
     With(IF h.infinite THEN from ELSE RepeatBound(from.s, h.end, from.v), LAMBDA to :
     With(IF h.has_step THEN RepeatStep(to.s, h, from.v)
          ELSE Given(TRUE, IF h.infinite \/ from.v < to.v \/ (from.v = to.v /\ ~h.lower) THEN 1 ELSE -1, to.s), LAMBDA step :
       CASE ~h.declares /\ ~environment_exists(s, h.counter) -> Error(s)
         [] ~h.has_range -> Error(s)
         [] ~from.ok -> Error(from.s)
         [] ~to.ok -> Error(to.s)
         [] ~step.ok -> Error(step.s)
         [] step.v = 0 /\ ~h.infinite -> Error(step.s)
         [] OTHER -> RepeatLoop(step.s, loop, from.v, to.v, step.v))))

WhileLoop(s, loop) ==
  With(evaluate_expression_text(s, loop.cond), LAMBDA c :
  With(ExecuteBody(Burn(c.s), loop.body), LAMBDA r :
    CASE ~c.ok -> Error(c.s)
      [] ~value_is_truthy(c.v) -> Ok(c.s)
      [] s.fuel = 0 -> Result("spent", s)
      [] Continues(r) -> WhileLoop(r.s, loop)
      [] OTHER -> LoopEnd(r)))

interpreter_execute_while(s, loop) == WhileLoop(s, loop)

\* The first place of a text in another one, or the place behind its end.
RECURSIVE strstr(_, _, _)
strstr(text, part, i) ==
  IF i > Len(text) \/ Slice(text, i, i + Len(part) - 1) = part THEN i ELSE strstr(text, part, i + 1)

trim_copy(text) ==
  LET start == SkipIn(text, 1, {" ", "\t"}) IN TrimRight(Slice(text, start, Len(text)))

\* name = expression, evaluated once.
execute_for_initialization(s, loop) ==
  LET equals == FindOf(loop.init, 1, {"="})
      text   == trim_copy(Slice(loop.init, equals + 1, Len(loop.init)))
  IN With(evaluate_expression_text(s, text), LAMBDA e :
     LET name   == trim_copy(Slice(loop.init, 1, equals - 1))
     IN CASE equals > Len(loop.init) \/ name = "" \/ text = "" -> Error(s)
          [] ~loop.declares /\ ~environment_exists(s, name) -> Error(s)
          [] ~e.ok -> Error(e.s)
          [] OTHER -> environment_set(e.s, name, e.v))

\* name ++, name --, name += expression or name -= expression, in this order of preference.
execute_for_increment(s, text) ==
  LET found(op) == strstr(text, op, 1) <= Len(text)
      op   == CASE found("++") -> "++" [] found("--") -> "--" [] found("+=") -> "+=" [] OTHER -> "-="
      at   == strstr(text, op, 1)
  IN With(evaluate_expression_text(s, trim_copy(Slice(text, at + 2, Len(text)))), LAMBDA e :
     LET name == trim_copy(Slice(text, 1, at - 1))
     IN CASE ~found(op) \/ ~environment_exists(s, name) -> Error(s)
          [] op \in {"++", "--"} -> environment_set(s, name, operator_apply_increment(op, s.vars[name]))
          [] ~e.ok -> Error(e.s)
          [] OTHER -> environment_set(e.s, name, operator_apply(IF op = "+=" THEN "+" ELSE "-", s.vars[name], e.v)))

\* CONTINUE runs the increment too.  Only numbers and booleans are true.
ForLoop(s, loop) ==
  With(evaluate_expression_text(s, loop.cond), LAMBDA c :
  With(ExecuteBody(Burn(c.s), loop.body), LAMBDA r :
  With(execute_for_increment(r.s, loop.inc), LAMBDA n :
    CASE ~c.ok -> Error(c.s)
      [] ~NumberTrue(c.v) -> Ok(c.s)
      [] s.fuel = 0 -> Result("spent", s)
      [] ~Continues(r) -> LoopEnd(r)
      [] n.res # "ok" -> n
      [] OTHER -> ForLoop(n.s, loop))))

interpreter_execute_for(s, loop) ==
  With(execute_for_initialization(s, loop), LAMBDA r : IF r.res = "ok" THEN ForLoop(r.s, loop) ELSE r)

\* The items are fixed before the first pass.
EachLoop(s, loop, items, n) ==
  LET set == environment_set(s, loop.item, items[n])
  IN With(ExecuteBody(Burn(set.s), loop.body), LAMBDA r :
       CASE n > Len(items) -> Ok(s)
         [] s.fuel = 0 -> Result("spent", s)
         [] set.res # "ok" -> set
         [] Continues(r) -> EachLoop(r.s, loop, items, n + 1)
         [] OTHER -> LoopEnd(r))

\* A range leaves its end out; every other source must be a row.
interpreter_execute_each(s, loop) ==
  With(evaluate_expression_text(s, loop.source), LAMBDA from :
  With(evaluate_expression_text(from.s, loop.end), LAMBDA to :
    CASE ~from.ok -> Error(from.s)
      [] ~loop.range -> (IF from.v.t = "arr" /\ Len(from.v.dims) = 1 THEN EachLoop(from.s, loop, from.v.els, 1) ELSE Error(from.s))
      [] from.v.t # "int" -> Error(from.s)
      [] ~to.ok \/ to.v.t # "int" -> Error(to.s)
      [] OTHER -> EachLoop(to.s, loop, [k \in 1..to.v.n - from.v.n |-> IntV(from.v.n + k - 1)], 1)))

(***************************************************************************)
(* if, unless and when.                                                    *)
(***************************************************************************)

\* The first branch whose condition holds; an empty condition is an error.
ExecuteBranches(s, branches, els) ==
  With(evaluate_expression_text(s, Head(branches).cond), LAMBDA c :
    CASE branches = <<>> -> ExecuteBody(s, els)
      [] Head(branches).cond = "" -> Error(s)
      [] ~c.ok -> Error(c.s)
      [] value_is_truthy(c.v) -> ExecuteBody(c.s, Head(branches).body)
      [] OTHER -> ExecuteBranches(c.s, Tail(branches), els))

\* OPERATOR_NOT takes arrays and infinity for false.
operator_not(v) == ~(NumberTrue(v) \/ (v.t = "str" /\ v.s # ""))

interpreter_execute_unless(s, stmt) ==
  With(evaluate_expression_text(s, stmt.cond), LAMBDA c :
    CASE ~c.ok -> Error(c.s)
      [] operator_not(c.v) -> ExecuteBody(c.s, stmt.body)
      [] OTHER -> Ok(c.s))

\* The first case whose value equals the subject.
WhenCase(s, subject, cases, els) ==
  With(evaluate_expression_text(s, Head(cases).value), LAMBDA c :
    CASE cases = <<>> -> ExecuteBody(s, els)
      [] ~c.ok -> Error(c.s)
      [] operator_apply("==", subject, c.v) = BoolV(TRUE) -> ExecuteBody(c.s, Head(cases).body)
      [] OTHER -> WhenCase(c.s, subject, Tail(cases), els))

interpreter_execute_when(s, stmt) ==
  With(evaluate_expression_text(s, stmt.subject), LAMBDA c :
    IF c.ok THEN WhenCase(c.s, c.v, stmt.cases, stmt.els) ELSE Error(c.s))

(***************************************************************************)
(* Functions.                                                              *)
(***************************************************************************)

interpreter_execute_function(s, stmt) == environment_set_function(s, stmt)

\* A body starts with copies of the caller's variables and with no functions.
LocalEnvironment(s) == [s EXCEPT !.registered = FALSE, !.slot = <<>>, !.ret = <<>>]

\* Mutant: what the body has bound is the caller's.
BugReturned(s, local) == [local EXCEPT !.registered = s.registered, !.slot = s.slot]

\* What a call leaves behind: the caller's environment, and what was read and written.
Returned(s, local) ==
  [s EXCEPT !.out = local.out, !.lines = local.lines, !.fields = local.fields, !.fuel = local.fuel]

\* The parser never finishes a call with arguments, so there are none to bind.  RETURN becomes OK and
\* the value is dropped; every other result goes on to the caller, BREAK too.
interpreter_execute_function_call(s, stmt) ==
  With(ExecuteBody(LocalEnvironment(s), s.slot[1]), LAMBDA r :
  With(Returned(s, r.s), LAMBDA after :
    CASE ~s.registered -> Error(s)
      [] ~EntryReadable(s) -> Result("undefined", s)
      [] r.res \in {"ok", "return"} -> Ok([after EXCEPT !.ret = <<>>])
      [] OTHER -> Result(r.res, after)))

interpreter_execute_return(s, stmt) ==
  With(evaluate_expression_text(s, stmt.expr), LAMBDA e :
    IF e.ok THEN Result("return", [e.s EXCEPT !.ret = <<e.v>>]) ELSE Error(e.s))

(***************************************************************************)
(* One statement.  No parser builds a command statement, the only one that *)
(* needs the command handler of the shell.                                 *)
(***************************************************************************)
Plain(stmt, s) ==
  CASE stmt.t = "garbage" -> Result("undefined", s)
    [] stmt.t \in {"break", "continue"} -> Result(stmt.t, s)
    [] stmt.t = "return" -> interpreter_execute_return(s, stmt)
    [] stmt.t = "input"  -> ExecuteInput(s, stmt.items)
    [] stmt.t = "print"  -> ExecutePrint(s, stmt)
    [] stmt.t = "if"     -> ExecuteBranches(s, stmt.branches, stmt.els)
    [] stmt.t = "repeat" -> interpreter_execute_repeat(s, stmt)
    [] stmt.t = "for"    -> interpreter_execute_for(s, stmt)
    [] stmt.t = "while"  -> interpreter_execute_while(s, stmt)
    [] stmt.t = "each"   -> interpreter_execute_each(s, stmt)
    [] stmt.t = "unless" -> interpreter_execute_unless(s, stmt)
    [] stmt.t = "when"   -> interpreter_execute_when(s, stmt)
    [] stmt.t = "decl"   -> IF stmt.vars = <<>> THEN Error(s) ELSE ExecuteDeclaration(s, stmt.vars)

interpreter_execute(stmt, s) ==
  CASE stmt.t = "fun"  -> interpreter_execute_function(s, stmt)
    [] stmt.t = "call" -> interpreter_execute_function_call(s, stmt)
    [] OTHER -> LET r == Plain(stmt, [s EXCEPT !.slot = <<>>]) IN [r EXCEPT !.s.slot = <<>>]

(***************************************************************************)
(* Freeing a program.                                                      *)
(***************************************************************************)
RECURSIVE HasGarbage(_)

\* A statement nothing has set, at any depth: executing it is undefined, and so is freeing it.
HasGarbage(stmts) ==
  \E n \in DOMAIN stmts :
    LET s == stmts[n]
    IN CASE s.t = "garbage" -> TRUE
         [] s.t = "if" -> HasGarbage(s.els) \/ \E k \in DOMAIN s.branches : HasGarbage(s.branches[k].body)
         [] s.t = "when" -> HasGarbage(s.els) \/ \E k \in DOMAIN s.cases : HasGarbage(s.cases[k].body)
         [] s.t \in {"repeat", "for", "while", "each", "unless", "fun"} -> HasGarbage(s.body)
         [] OTHER -> FALSE
====
