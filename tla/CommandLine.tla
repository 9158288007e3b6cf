----------------------------- MODULE CommandLine -----------------------------
(***************************************************************************)
(* How the shell (tools/shell/shell.c) takes a line apart: chains of        *)
(* commands joined by ; && || and the words "and" and "or", pipelines, and  *)
(* lines run in the background, with quotes hiding all of these.            *)
(*                                                                         *)
(* A line is a sequence of symbols: the characters that matter, the two     *)
(* words, and "t" and "f" for commands that succeed and fail.  It is made   *)
(* from a script, which says what its author means; the line is what the    *)
(* code gets.                                                               *)
(***************************************************************************)
EXTENDS Integers, Sequences, SequencesExt

CONSTANT Scripts      \* the scripts, as defined below

VARIABLES
  script,      \* the script typed
  outcome      \* what the shell did with its line

commandVars == <<script, outcome>>

-----------------------------------------------------------------------------
(* The line.                                                                 *)

Blanks == {" "}
Sequel == 1      \* ;
And == 2         \* && and "and"
Or == 3          \* || and "or"

\* Which quotes are open behind the first n symbols.
Toggle(q, c) ==
  IF c = "'" /\ ~q.double THEN [q EXCEPT !.single = ~@]
  ELSE IF c = "\"" /\ ~q.single THEN [q EXCEPT !.double = ~@]
  ELSE q
Quotes(line, n) ==
  FoldLeft(Toggle, [single |-> FALSE, double |-> FALSE], SubSeq(line, 1, n))
Unquoted(line, i) == Quotes(line, i) = [single |-> FALSE, double |-> FALSE]

IsPair(line, i, c) == line[i] = c /\ i < Len(line) /\ line[i + 1] = c
IsWord(line, i, w) ==
  /\ line[i] = w
  /\ i = 1 \/ line[i - 1] \in Blanks
  /\ i = Len(line) \/ line[i + 1] \in Blanks

\* The operator that begins at i, or 0.
OperatorAt(line, i) ==
  IF ~Unquoted(line, i) THEN 0
  ELSE IF line[i] = ";" THEN Sequel
  ELSE IF IsPair(line, i, "&") \/ IsWord(line, i, "and") THEN And
  ELSE IF IsPair(line, i, "|") \/ IsWord(line, i, "or") THEN Or
  ELSE 0

shell_has_logical_operator(line) == \E i \in DOMAIN line : OperatorAt(line, i) # 0

Trim(text) ==
  LET inked == {i \in DOMAIN text : text[i] \notin Blanks}
  IN IF inked = {} THEN <<>>
     ELSE SubSeq(text, CHOOSE i \in inked : \A j \in inked : i <= j,
                       CHOOSE i \in inked : \A j \in inked : i >= j)

\* The segments between the operators, and the operators.
Cut(line) ==
  LET Symbol(s, i) ==
        IF s.skip THEN [s EXCEPT !.skip = FALSE]
        ELSE IF OperatorAt(line, i) = 0 THEN [s EXCEPT !.current = Append(@, line[i])]
        ELSE [segments |-> Append(s.segments, Trim(s.current)), current |-> <<>>,
              operators |-> Append(s.operators, OperatorAt(line, i)),
              skip |-> line[i] \in {"&", "|"}]
      end == FoldLeft(Symbol, [segments |-> <<>>, current |-> <<>>, operators |-> <<>>, skip |-> FALSE],
                      [i \in DOMAIN line |-> i])
  IN [segments |-> Append(end.segments, Trim(end.current)), operators |-> end.operators]

-----------------------------------------------------------------------------
(* Running a chain: r has the next segment and the next operator, whether    *)
(* the group runs, its status, and what was run.                             *)

Succeeds(command) == command = <<>> \/ Head(command) = "t"

\* shell_execute_script_command of the next segment.
RunNext(cut, r) ==
  [r EXCEPT !.ran = Append(@, cut.segments[r.segment]), !.ok = Succeeds(cut.segments[r.segment]),
            !.segment = @ + 1]
SkipNext(r) == [r EXCEPT !.segment = @ + 1]

Operator(cut, r) == IF r.operation > Len(cut.operators) THEN 0 ELSE cut.operators[r.operation]

RECURSIVE RunAnds(_, _)
RunAnds(cut, r) ==
  IF Operator(cut, r) # And THEN r
  ELSE LET s == [r EXCEPT !.operation = @ + 1]
       IN RunAnds(cut, IF s.segment > Len(cut.segments) THEN s
                       ELSE IF s.runs /\ s.ok THEN RunNext(cut, s) ELSE SkipNext(s))

\* A group: the next segment and those joined to it by "and".
RunGroup(cut, r) ==
  RunAnds(cut, IF r.runs THEN RunNext(cut, r) ELSE [SkipNext(r) EXCEPT !.ok = TRUE])

\* Groups joined by "or": one that ran and succeeded keeps the next from running.
RECURSIVE RunOrs(_, _)
RunOrs(cut, r) ==
  IF r.segment > Len(cut.segments) THEN r
  ELSE LET g == RunGroup(cut, r)
           s == [g EXCEPT !.operation = @ + 1]
       IN IF Operator(cut, g) = 0 THEN g
          ELSE IF Operator(cut, g) = Or THEN RunOrs(cut, [s EXCEPT !.runs = ~(g.runs /\ g.ok)])
          ELSE s

RECURSIVE RunChain(_, _)
RunChain(cut, r) ==
  IF r.segment > Len(cut.segments) THEN r.ran
  ELSE RunChain(cut, RunOrs(cut, [r EXCEPT !.runs = TRUE]))

shell_execute_logical_line(line) ==
  RunChain(Cut(line), [segment |-> 1, operation |-> 1, runs |-> TRUE, ok |-> TRUE, ran |-> <<>>])

-----------------------------------------------------------------------------
(* Pipelines.                                                                *)

InBackground(line) == Trim(line) # <<>> /\ Last(Trim(line)) = "&"

\* The line up to the & at its end.
Foreground(line) ==
  IF ~InBackground(line) THEN line
  ELSE SubSeq(line, 1, (CHOOSE i \in DOMAIN line : /\ line[i] = "&"
                                                   /\ \A j \in (i + 1)..Len(line) : line[j] \in Blanks) - 1)

IsBar(line, i) == line[i] = "|" /\ Unquoted(line, i)

\* Mutant: the text behind the last | is lost.
BugStages(line) ==
  LET Symbol(s, i) ==
        IF IsBar(line, i) THEN [stages |-> Append(s.stages, Trim(s.current)), current |-> <<>>]
        ELSE [s EXCEPT !.current = Append(@, line[i])]
  IN FoldLeft(Symbol, [stages |-> <<>>, current |-> <<>>], [i \in DOMAIN line |-> i]).stages

Stages(line) ==
  LET Symbol(s, i) ==
        IF IsBar(line, i) THEN [stages |-> Append(s.stages, Trim(s.current)), current |-> <<>>]
        ELSE [s EXCEPT !.current = Append(@, line[i])]
      end == FoldLeft(Symbol, [stages |-> <<>>, current |-> <<>>], [i \in DOMAIN line |-> i])
  IN IF end.current = <<>> THEN end.stages ELSE Append(end.stages, Trim(end.current))

shell_parse_pipeline(line) == [stages |-> Stages(Foreground(line)), bg |-> InBackground(line)]

-----------------------------------------------------------------------------
(* shell_execute_command, for lines that are no drift statement.             *)

AsChain(line) == [as |-> "chain", ran |-> shell_execute_logical_line(line)]
AsPipeline(p) == [as |-> "pipeline", ran |-> p.stages, bg |-> p.bg]

Dispatch(line, p) ==
  IF shell_has_logical_operator(line) THEN AsChain(line)
  ELSE IF Len(p.stages) > 1 \/ (Len(p.stages) = 1 /\ p.bg) THEN AsPipeline(p)
  ELSE [as |-> "command", ran |-> <<line>>]

NotRun == [as |-> "nothing"]

-----------------------------------------------------------------------------
(* Scripts: commands and how each is joined to the next.  A joint is its     *)
(* meaning and its spelling; "bg" ends a line that runs in the background.   *)

Joints ==
  {[means |-> Sequel, text |-> <<";">>],
   [means |-> And, text |-> <<"&", "&">>], [means |-> And, text |-> <<" ", "and", " ">>],
   [means |-> Or, text |-> <<"|", "|">>], [means |-> Or, text |-> <<" ", "or", " ">>]}
PipeJoint == [means |-> "pipe", text |-> <<" ", "|">>]

\* Commands without and with symbols that mean something elsewhere.
Plain == {<<"t">>, <<"f">>}
Tricky == {<<"t", "and", " ", "or", "f">>, <<"t", " ", "'", ";", "\"", "'">>,
           <<"f", "\"", "|", "'", "\"">>}

Chains(commands, n) == [kind : {"chain"}, commands : [1..n -> commands], joints : [1..(n - 1) -> Joints]]
Pipelines(commands, n) ==
  [kind : {"pipeline", "background"}, commands : [1..n -> commands], joints : [1..(n - 1) -> {PipeJoint}]]

LineOf(s) ==
  LET n == Len(s.commands)
  IN FlattenSeq([i \in 1..n |-> s.commands[i] \o (IF i < n THEN s.joints[i].text ELSE <<>>)])
     \o (IF s.kind = "background" THEN <<" ", "&">> ELSE <<>>)

CommandInit == script \in Scripts /\ outcome = NotRun

shell_execute_command ==
  /\ outcome = NotRun
  /\ outcome' = Dispatch(LineOf(script), shell_parse_pipeline(LineOf(script)))
  /\ UNCHANGED script

-----------------------------------------------------------------------------
(* What is promised.                                                         *)

\* The group a command belongs to starts behind the last joint that is no "and".
Starts(s) == {i \in DOMAIN s.commands : i = 1 \/ s.joints[i - 1].means # And}
GroupOf(s, i) == CHOOSE g \in Starts(s) : g <= i /\ \A h \in Starts(s) : h <= i => h <= g
Members(s, g) == {i \in DOMAIN s.commands : GroupOf(s, i) = g}

\* The groups that run: the first, those behind a ;, and those behind an "or" whose
\* left side did not run or did not succeed.
GroupsRun(s) ==
  CHOOSE run \in SUBSET Starts(s) :
    \A g \in Starts(s) :
      g \in run <=> \/ g = 1 \/ s.joints[g - 1].means = Sequel
                    \/ GroupOf(s, g - 1) \notin run
                    \/ \E i \in Members(s, GroupOf(s, g - 1)) : ~Succeeds(s.commands[i])

RunsIn(s, i) ==
  /\ GroupOf(s, i) \in GroupsRun(s)
  /\ \A j \in GroupOf(s, i)..(i - 1) : Succeeds(s.commands[j])

Meant(s) ==
  CASE Len(s.commands) = 1 /\ s.kind # "background" -> [as |-> "command", ran |-> s.commands]
    [] s.kind = "chain" ->
         [as |-> "chain",
          ran |-> SelectSeq([i \in DOMAIN s.commands |-> IF RunsIn(s, i) THEN s.commands[i] ELSE <<"no">>],
                            LAMBDA c : c # <<"no">>)]
    [] OTHER -> [as |-> "pipeline", ran |-> s.commands, bg |-> s.kind = "background"]

\* Every line is run as it was meant, however its operators are spelt and whatever is
\* quoted in it: the commands of a chain that their neighbours' success allows, in
\* order, or all stages of a pipeline (shell_execute_logical_line,
\* shell_parse_pipeline, shell_execute_command).
LinesRunAsMeant == outcome # NotRun => outcome = Meant(script)
=============================================================================
