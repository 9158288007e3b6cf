---- MODULE DriftSession ----
(***************************************************************************)
(* The programs that run the drift interpreter: the prompt and the file    *)
(* runner of main.c, and the scripts of the kernel's shell (runtime.c and  *)
(* tools/shell/script.c).                                                  *)
(*                                                                         *)
(* A source is parsed completely, one statement per step, then executed,   *)
(* one statement per step, and then freed.  The prompt collects lines      *)
(* until it takes them for a complete source.  The environment is the one  *)
(* of the whole session, and ask reads from the same lines as the prompt.  *)
(***************************************************************************)
EXTENDS DriftInterpreter

CONSTANTS
  ScriptMax,  \* GSH_SCRIPT_MAX_SOURCE, 16384: a longer script is cut
  Fuel        \* the loop passes a statement may take before the model gives up on it

VARIABLES
  front,    \* "prompt", "file" or "script"
  buffer,   \* the lines the prompt has collected
  phase,    \* "read", "parse", "run", "free" or "ended"
  tokens,   \* the tokens of the source
  cursor,   \* the place of the parser
  stmts,    \* the statements parsed so far
  spans,    \* the tokens each of them was parsed from, first and last
  at,       \* the statement that is executed next
  result,   \* the result of the last statement, or of the whole source
  env       \* the environment, the input and the output

vars == <<front, buffer, phase, tokens, cursor, stmts, spans, at, result, env>>
source == <<tokens, cursor, stmts, spans, at>>

(***************************************************************************)
(* main.c: when a source is complete.                                      *)
(***************************************************************************)
trim_whitespace(text) ==
  LET start == SkipIn(text, 1, Blanks)
      end   == CHOOSE n \in 0..Len(text) : /\ n = 0 \/ At(text, n) \notin Blanks
                                           /\ \A k \in n + 1..Len(text) : At(text, k) \in Blanks
  IN Slice(text, start, end)

has_pending_block_colon(text) == LET t == trim_whitespace(text) IN t # "" /\ At(t, Len(t)) = ":"
is_incomplete_block(text) == has_pending_block_colon(text)

\* The name ends in ".df": what follows its last dot is "df".
has_df_extension(path) == Len(path) >= 3 /\ Slice(path, Len(path) - 2, Len(path)) = ".df"

(***************************************************************************)
(* A source.                                                               *)
(***************************************************************************)
Idle == IF front = "file" THEN "ended" ELSE "read"

\* The tokens T of a source; one that cannot be scanned is an error.
Scanned(T) ==
  /\ tokens' = T
  /\ cursor' = 1
  /\ stmts' = <<>>
  /\ spans' = <<>>
  /\ at' = 1
  /\ phase' = IF T = <<>> THEN Idle ELSE "parse"
  /\ result' = IF T = <<>> THEN "error" ELSE "ok"

\* The text without its comments, but with the parts of them marked for execution.
Begin(text) == Scanned(lexer_scan_all(extract_executable_from_exc_blocks(text)))

\* The front ends start with an empty environment and these lines on their input.
StartSession(who, lines, intact) ==
  /\ front = who
  /\ buffer = ""
  /\ phase = "read"
  /\ tokens = <<>> /\ cursor = 1 /\ stmts = <<>> /\ spans = <<>> /\ at = 1
  /\ result = "ok"
  /\ env = environment_create(lines, Fuel, intact)

\* The path decides whether a file is executed at all.
execute_file(path, text) ==
  /\ front = "file"
  /\ phase = "read"
  /\ IF has_df_extension(path)
     THEN Begin(text)
     ELSE phase' = "ended" /\ result' = "error" /\ UNCHANGED source
  /\ UNCHANGED <<front, buffer, env>>

\* One line at the prompt.  "exit" and "quit" are compared with all the lines collected so far.
run_repl ==
  LET text == buffer \o Head(env.lines) \o "\n"
      trimmed == trim_whitespace(text)
      open == is_block_comment_open(text) \/ is_incomplete_block(text)
  IN /\ front = "prompt"
     /\ phase = "read"
     /\ env.lines # <<>>
     /\ CASE trimmed \in {"exit", "quit"} -> /\ buffer' = ""
                                             /\ phase' = "ended"
                                             /\ UNCHANGED <<result, source>>
          [] trimmed \notin {"exit", "quit"} /\ open -> buffer' = text /\ UNCHANGED <<phase, result, source>>
          [] OTHER -> /\ buffer' = ""
                      /\ IF trimmed = "" THEN UNCHANGED <<phase, result, source>> ELSE Begin(text)
     /\ env' = [env EXCEPT !.lines = Tail(@)]
     /\ UNCHANGED front

\* One line of the shell is a source of its own; an empty one is left alone.
gsh_script_execute_line ==
  /\ front = "script"
  /\ phase = "read"
  /\ env.lines # <<>>
  /\ IF Head(env.lines) = "" THEN UNCHANGED <<phase, result, source>> ELSE Begin(Head(env.lines))
  /\ env' = [env EXCEPT !.lines = Tail(@)]
  /\ UNCHANGED <<front, buffer>>

\* A file of the shell's file system, in the environment of the lines before it.
gsh_script_run_file(text) ==
  /\ front = "script"
  /\ phase = "read"
  /\ Begin(Slice(text, 1, ScriptMax))
  /\ UNCHANGED <<front, buffer, env>>

\* At the end of the input the lines collected so far are dropped.
EndOfInput ==
  /\ front # "file"
  /\ phase = "read"
  /\ env.lines = <<>>
  /\ buffer' = ""
  /\ phase' = "ended"
  /\ UNCHANGED <<front, result, source, env>>

\* The statement p that starts at token `from`.  One the parser never gets out of, or crashes in, is
\* the end.
ParsedAs(from, p) ==
  CASE Kind(tokens, from) \in {"eof", "none"} -> /\ phase' = "run"
                                                 /\ cursor' = from
                                                 /\ UNCHANGED <<stmts, spans, result>>
    [] OTHER -> IF Stuck(p.s)
                THEN phase' = "ended" /\ result' = p.s.t /\ UNCHANGED <<cursor, stmts, spans>>
                ELSE /\ cursor' = p.i
                     /\ stmts' = Append(stmts, p.s)
                     /\ spans' = Append(spans, <<from, p.i - 1>>)
                     /\ UNCHANGED <<phase, result>>

\* One statement; newlines between statements are skipped.
ParseStatement ==
  LET from == Min({i \in cursor..Len(tokens) + 1 : Kind(tokens, i) # "newline"})
  IN /\ phase = "parse"
     /\ ParsedAs(from, parser_parse(tokens, from))
     /\ UNCHANGED <<front, buffer, tokens, at, env>>

\* main.c reports a BREAK or CONTINUE that reaches it, runtime.c passes it on.
Done(r) ==
  LET stray == front # "script" /\ r.res \in {"break", "continue"}
  IN /\ env' = r.s
     /\ result' = IF stray THEN "error" ELSE r.res
     /\ phase' = CASE r.res = "ok" -> "run"
                   [] r.res \in {"undefined", "spent"} -> "ended"
                   [] OTHER -> "free"

ExecuteStatement ==
  /\ phase = "run"
  /\ at <= Len(stmts)
  /\ Done(interpreter_execute(stmts[at], [env EXCEPT !.fuel = Fuel]))
  /\ at' = at + 1
  /\ UNCHANGED <<front, buffer, tokens, cursor, stmts, spans>>

\* The statements and the tokens are freed.  The function table still points to what they held.
ReleaseSource ==
  /\ phase = "free" \/ (phase = "run" /\ at > Len(stmts))
  /\ IF HasGarbage(stmts)
     THEN phase' = "ended" /\ result' = "undefined"
     ELSE phase' = Idle /\ UNCHANGED result
  /\ env' = [env EXCEPT !.slot = <<>>]
  /\ UNCHANGED <<front, buffer, source>>

SessionNext ==
  \/ run_repl
  \/ gsh_script_execute_line
  \/ EndOfInput
  \/ ParseStatement
  \/ ExecuteStatement
  \/ ReleaseSource

(***************************************************************************)
(* What holds in every session.                                            *)
(***************************************************************************)

\* The environment is one the printing and indexing code can walk: no more names than the table has
\* room for, and every array with as many elements as its dimensions ask for, all of its element type
\* or null (array.c and array_value.c read the elements by the dimensions alone).
TypeOK ==
  /\ phase \in {"read", "parse", "run", "free", "ended"}
  /\ Cardinality(DOMAIN env.vars) <= Capacity
  /\ \A name \in DOMAIN env.vars :
       LET v == env.vars[name]
       IN v.t = "arr" => /\ Len(v.els) = ProductOf(v.dims)
                         /\ \A n \in DOMAIN v.els : v.els[n].t \in {v.et, "null"}

\* The loop over parser_parse ends: a statement that does not end it takes at least one token, and no
\* lookahead takes the parser past the array of tokens (a header cut short may take the end mark).
ParserAdvances ==
  [][phase = "parse" /\ phase' = "parse" => cursor' > cursor /\ cursor' <= Len(tokens) + 1]_vars

\* The names a statement mentions, those in a prompt included.
Mentioned(span) ==
  UNION {{tokens[k].v} \cup (IF tokens[k].k = "string" THEN Range(NamesIn(tokens[k].v, 1)) ELSE {})
         : k \in span[1]..span[2]}

\* A statement binds only names it mentions, and what was written stays written: what a function body
\* binds is gone after the call, and so is nothing else.
ScopesKept ==
  [][phase = "run" /\ at <= Len(stmts) =>
       /\ IsPrefix(env.out, env'.out)
       /\ \A name \in DOMAIN env'.vars :
            \/ name \in DOMAIN env.vars /\ env'.vars[name] = env.vars[name]
            \/ name \in Mentioned(spans[at])]_vars
====
