---- MODULE DriftLexer ----
(***************************************************************************)
(* The lexer of the drift language: drift/lexer and drift/token.           *)
(*                                                                         *)
(* A source is a string.  lexer_scan_all turns it into a sequence of       *)
(* tokens [k, v, ind]: the kind, the text and the indentation of the line. *)
(* The kind of a keyword or of an operator is its own spelling, as in "if" *)
(* for TOKEN_IF and "+=" for TOKEN_PLUS_EQUAL; the other kinds are         *)
(* "name", "int", "float", "string", "newline" and "eof".  The NULL of a   *)
(* failed scan is the empty sequence: a scan that succeeds ends with "eof".*)
(* Running out of memory is not modelled.                                  *)
(***************************************************************************)
EXTENDS Integers, Sequences, SequencesExt

\* The value v under the name that F gives it.  TLC expands a LET name at each of its uses when it
\* prepares its statistics, which is out of reach in definitions as deep as these.
With(v, F(_)) == F(v)

\* The character at place i of a text, or no character outside of it (the '\0' of the C text).
At(s, i) == IF i \in 1..Len(s) THEN SubSeq(s, i, i) ELSE ""

\* The characters from place i to place j, or to the end.
Slice(s, i, j) == SubSeq(s, i, IF j < Len(s) THEN j ELSE Len(s))

CharsOf(s) == {At(s, i) : i \in 1..Len(s)}

is_space == {" ", "\t", "\r"}
is_digit == CharsOf("0123456789")
is_identifier_start == CharsOf("ABCDEFGHIJKLMNOPQRSTUVWXYZabcdefghijklmnopqrstuvwxyz_")
is_identifier_part == is_identifier_start \cup is_digit \cup {"-"}

RECURSIVE SkipIn(_, _, _), FindOf(_, _, _)

\* The first place from i on whose character is not in C.
SkipIn(s, i, C) == IF At(s, i) \in C THEN SkipIn(s, i + 1, C) ELSE i

\* The first place from i on whose character is in C, or the place behind the text.
FindOf(s, i, C) == IF i > Len(s) \/ At(s, i) \in C THEN i ELSE FindOf(s, i + 1, C)

\* make_token; Scan adds the indentation.
make_token(kind, value) == [k |-> kind, v |-> value, ind |-> 0]
Unknown == make_token("unknown", "")

Keywords == {"say", "ask", "var", "if", "elif", "else", "repeat", "for", "while", "unless",
             "when", "fun", "return", "break", "continue", "each", "in", "end"}

\* The words that give a token of another spelling, and the text that token keeps.
ConstantWords == [w \in {"true", "TRUE", "false", "FALSE", "NULL", "null", "INF", "inf"} |->
                     CASE w \in {"true", "TRUE"}   -> "true"
                       [] w \in {"false", "FALSE"} -> "false"
                       [] w \in {"NULL", "null"}   -> "NULL"
                       [] w \in {"INF", "inf"}     -> "INF"]

logical_keyword_token_type == [w \in {"and", "or", "not"} |->
                                  CASE w = "and" -> "&&" [] w = "or" -> "||" [] w = "not" -> "!"]

identity_keyword_token_type == [w \in {"is"} |-> "is"]

RECURSIVE IdentifierEnd(_, _)

\* A name may hold a hyphen, unless the hyphen begins "--" or "-=".
IdentifierEnd(s, i) ==
  IF /\ At(s, i) \in is_identifier_part
     /\ ~(At(s, i) = "-" /\ At(s, i + 1) \in {"-", "="})
  THEN IdentifierEnd(s, i + 1)
  ELSE i

\* Each reader gives the token at place i and the place behind it.
read_identifier(s, i) ==
  LET end == IdentifierEnd(s, i)
      w   == Slice(s, i, end - 1)
  IN [end |-> end,
      tok |-> CASE w \in Keywords -> make_token(w, w)
                [] w \in DOMAIN ConstantWords -> make_token(ConstantWords[w], ConstantWords[w])
                [] w \in DOMAIN logical_keyword_token_type -> make_token(logical_keyword_token_type[w], w)
                [] w \in DOMAIN identity_keyword_token_type -> make_token(identity_keyword_token_type[w], w)
                [] OTHER -> make_token("name", w)]

\* A point belongs to the number unless a second one follows it at once; another point later is an error.
read_number(s, i) ==
  LET whole   == SkipIn(s, i, is_digit)
      decimal == At(s, whole) = "." /\ At(s, whole + 1) # "."
  IN With(IF decimal THEN SkipIn(s, whole + 1, is_digit) ELSE whole, LAMBDA end :
       [end |-> end,
        tok |-> IF decimal /\ At(s, end) = "." THEN Unknown
                ELSE make_token(IF decimal THEN "float" ELSE "int", Slice(s, i, end - 1))])

\* The text of a single-quoted value keeps its quotes.
read_single_quoted_value(s, i) ==
  LET close == FindOf(s, i + 1, {"'", "\n"})
  IN [end |-> close + 1,
      tok |-> IF At(s, close) = "'" THEN make_token("string", Slice(s, i, close)) ELSE Unknown]

RECURSIVE Unescape(_)

\* The escape \n is the only one.
Unescape(s) ==
  LET slash == FindOf(s, 1, {"\\"})
  IN CASE slash > Len(s) -> s
       [] At(s, slash + 1) = "n" -> Slice(s, 1, slash - 1) \o "\n" \o Unescape(Slice(s, slash + 2, Len(s)))
       [] OTHER -> Slice(s, 1, slash) \o Unescape(Slice(s, slash + 1, Len(s)))

\* The text of a double-quoted string is kept without its quotes.
read_string(s, i) ==
  LET close == FindOf(s, i + 1, {"\"", "\n"})
  IN [end |-> close + 1,
      tok |-> IF At(s, close) = "\"" THEN make_token("string", Unescape(Slice(s, i + 1, close - 1))) ELSE Unknown]

\* The operators, longest first.  "<==" and ">==" are read as the shift assignments.
Operators3 == {"<<=", ">>=", "<==", ">==", "..."}
Operators2 == {"==", "++", "+=", "--", "-=", "*=", "/=", "%=", "!=", "<=", "<<", ">=", ">>",
               "&&", "&=", "||", "|=", "^="}
Marks == {"~", "?", ".", "@", "{", "}", "[", "]", "(", ")", ",", ":", ";"}
Operators1 == {"=", "+", "-", "*", "/", "%", "!", "<", ">", "&", "|", "^"} \cup Marks

read_operator(s, i) ==
  LET n == CASE Slice(s, i, i + 2) \in Operators3 -> 3
             [] Slice(s, i, i + 1) \in Operators2 -> 2
             [] OTHER -> 1
      op == Slice(s, i, i + n - 1)
      kind == CASE op = "<==" -> "<<=" [] op = ">==" -> ">>=" [] OTHER -> op
  IN [end |-> i + n, tok |-> make_token(kind, kind)]

RECURSIVE BlockEnd(_, _)

\* The place behind the "*/" that closes a block comment, or 0.
BlockEnd(s, i) ==
  LET star == FindOf(s, i, {"*"})
  IN CASE star >= Len(s) -> 0
       [] At(s, star + 1) = "/" -> star + 2
       [] OTHER -> BlockEnd(s, star + 1)

\* The place behind the comment at i; i itself when there is none, 0 when it is never closed.
lexer_skip_comments(s, i) ==
  CASE Slice(s, i, i + 1) = "//" -> FindOf(s, i + 2, {"\n"})
    [] Slice(s, i, i + 1) = "/*" -> BlockEnd(s, i + 2)
    [] OTHER -> i

read_token(s, i) ==
  LET c == At(s, i)
  IN CASE c \in Operators1 -> read_operator(s, i)
       [] c = "'"  -> read_single_quoted_value(s, i)
       [] c = "\"" -> read_string(s, i)
       [] c \in is_digit -> read_number(s, i)
       [] c \in is_identifier_start -> read_identifier(s, i)
       [] OTHER -> [end |-> i, tok |-> Unknown]

\* A scan that fails later returns NULL for the whole source.
Before(tok, rest) == IF rest = <<>> THEN <<>> ELSE <<tok>> \o rest

RECURSIVE Scan(_, _, _, _)

\* The tokens from place i on.  The blanks that start a line are counted as its indentation.
Scan(s, i, indentation, at_line_start) ==
  LET text == IF at_line_start THEN SkipIn(s, i, {" ", "\t"}) ELSE i
      j    == SkipIn(s, text, is_space)
  IN With(lexer_skip_comments(s, j), LAMBDA next :
     With(read_token(s, j), LAMBDA r :
     LET ind  == IF at_line_start THEN text - i ELSE indentation
     IN CASE j > Len(s) -> <<make_token("eof", "")>>
          [] j <= Len(s) /\ next = 0 -> <<>>
          [] j <= Len(s) /\ next > j -> Scan(s, next, ind, FALSE)
          [] j <= Len(s) /\ next = j /\ At(s, j) = "\n" ->
               Before([make_token("newline", "") EXCEPT !.ind = ind], Scan(s, j + 1, 0, TRUE))
          [] OTHER ->
               IF r.tok = Unknown THEN <<>>
               ELSE Before([r.tok EXCEPT !.ind = ind], Scan(s, r.end, ind, FALSE))))

lexer_scan_all(s) == Scan(s, 1, 0, TRUE)

----------------------------------------------------------------------------
(* Executable comments: the lines between "@exc" and ".exc" inside a block *)
(* comment are code.                                                       *)

RECURSIVE TrimRight(_)

TrimRight(s) == IF At(s, Len(s)) \in {" ", "\t"} THEN TrimRight(Slice(s, 1, Len(s) - 1)) ELSE s
trim_line(s) == TrimRight(Slice(s, SkipIn(s, 1, {" ", "\t"}), Len(s)))

RECURSIVE CodeEnd(_, _, _)

\* The place of the "//" outside quotes, or behind the line; quote is the quote that is open.
CodeEnd(s, i, quote) ==
  CASE i > Len(s) -> i
    [] i <= Len(s) /\ quote # "" /\ At(s, i) = "\\" /\ i < Len(s) -> CodeEnd(s, i + 2, quote)
    [] i <= Len(s) /\ quote = "" /\ Slice(s, i, i + 1) = "//" -> i
    [] i <= Len(s) /\ quote = "" /\ At(s, i) \in {"'", "\""} -> CodeEnd(s, i + 1, At(s, i))
    [] OTHER -> CodeEnd(s, i + 1, IF At(s, i) = quote THEN "" ELSE quote)

strip_line_comment(s) == trim_line(Slice(s, 1, CodeEnd(s, 1, "") - 1))

RECURSIVE LineEnd(_, _)

\* The end of a line of a block comment: its newline, the "*/" that closes the comment, or the end of the source.
LineEnd(s, i) ==
  IF i > Len(s) \/ At(s, i) = "\n" \/ Slice(s, i, i + 1) = "*/" THEN i ELSE LineEnd(s, i + 1)

\* A line of code starts and ends a line of the result.
AddLine(out, code) ==
  IF code = "" THEN out
  ELSE out \o (IF out # "" /\ At(out, Len(out)) # "\n" THEN "\n" ELSE "") \o code \o "\n"

RECURSIVE Extract(_, _, _, _, _)

\* i: the place in the source; block: inside a block comment; exc: between the markers.
Extract(s, i, block, exc, out) ==
  LET end  == LineEnd(s, i)
      line == trim_line(Slice(s, i, end - 1))
      on   == IF line = "@exc" THEN TRUE ELSE IF line = ".exc" THEN FALSE ELSE exc
      code == IF exc /\ line \notin {"@exc", ".exc"} THEN strip_line_comment(line) ELSE ""
  IN CASE i > Len(s) -> out
       [] i <= Len(s) /\ ~block /\ Slice(s, i, i + 1) = "/*" -> Extract(s, i + 2, TRUE, exc, out)
       [] i <= Len(s) /\ ~block /\ Slice(s, i, i + 1) # "/*" -> Extract(s, i + 1, FALSE, exc, out \o At(s, i))
       [] i <= Len(s) /\ block /\ At(s, end) = "*" ->
            Extract(s, end + 2, FALSE, exc /\ line # ".exc", out)
       [] OTHER -> Extract(s, end + 1, TRUE, on, AddLine(out, code))

extract_executable_from_exc_blocks(s) == Extract(s, 1, FALSE, FALSE, "")

----------------------------------------------------------------------------
(* The test of the prompt: is a block comment open?                        *)

RECURSIVE QuoteEnd(_, _, _), Open(_, _, _)

QuoteEnd(s, i, quote) ==
  CASE i > Len(s) -> i
    [] i <= Len(s) /\ At(s, i) = quote -> i + 1
    [] OTHER -> QuoteEnd(s, IF At(s, i) = "\\" /\ i < Len(s) THEN i + 2 ELSE i + 1, quote)

Open(s, i, block) ==
  CASE i > Len(s) -> block
    [] i <= Len(s) /\ ~block /\ At(s, i) \in {"'", "\""} -> Open(s, QuoteEnd(s, i + 1, At(s, i)), FALSE)
    [] i <= Len(s) /\ ~block /\ Slice(s, i, i + 1) = "//" -> Open(s, FindOf(s, i + 2, {"\n"}), FALSE)
    [] i <= Len(s) /\ ~block /\ Slice(s, i, i + 1) = "/*" -> Open(s, i + 2, TRUE)
    [] i <= Len(s) /\ block /\ Slice(s, i, i + 1) = "*/" -> Open(s, i + 2, FALSE)
    [] OTHER -> Open(s, i + 1, block)

\* Mutant: only the last of the collected lines is looked at.
BugOpen(s) ==
  LET ends == {i \in 1..Len(s) - 1 : At(s, i) = "\n"}
  IN Open(Slice(s, IF ends = {} THEN 1 ELSE CHOOSE i \in ends : \A j \in ends : j <= i, Len(s)), 1, FALSE)

is_block_comment_open(s) == Open(s, 1, FALSE)
====
