---- MODULE DriftArrays ----
(***************************************************************************)
(* The array grammar of drift: parser/arrays/array_parser.c and            *)
(* select_parser.c.                                                        *)
(*                                                                         *)
(* A parsing operator takes the tokens T and the cursor i and returns a    *)
(* record with ok, the cursor i it leaves behind (also when it fails: the  *)
(* code never moves back) and what it read.  An array value that cannot be *)
(* built is NullV: the code then writes through a null pointer.            *)
(***************************************************************************)
EXTENDS DriftValues

\* parser_peek; "none" behind the last token.
Kind(T, i) == IF i \in 1..Len(T) THEN T[i].k ELSE "none"

\* parser_expect.
Expect(T, i, kind) == [ok |-> Kind(T, i) = kind, i |-> IF Kind(T, i) = kind THEN i + 1 ELSE i]

parse_integer_token(token) == NumberOf(token.v, 0)

LiteralKinds == {"int", "float", "string", "true", "false", "NULL", "INF"}
is_literal_value_token(T, i) == Kind(T, i) \in LiteralKinds

Unquoted(s) == IF At(s, 1) = "'" /\ At(s, Len(s)) = "'" THEN Slice(s, 2, Len(s) - 1) ELSE s

\* Any other token gives the string value without a text.
parse_literal_value_token(token) ==
  CASE token.k = "int"    -> IntV(NumberOf(token.v, 0))
    [] token.k = "float"  -> FloatV(TextNumber(token.v).n, TextNumber(token.v).d)
    [] token.k = "string" -> StrV(Unquoted(token.v))
    [] token.k \in {"true", "false"} -> BoolV(token.k = "true")
    [] token.k = "NULL"   -> NullV
    [] token.k = "INF"    -> InfV
    [] OTHER              -> StrV("")

array_element_type_compatible(current, incoming) ==
  current = incoming \/ {current, incoming} \subseteq {"int", "float"}

\* A leading null does not decide the type.
array_update_element_type(type, incoming) ==
  CASE type = "null" /\ incoming # "null" -> [ok |-> TRUE, et |-> incoming]
    [] type = "inf" /\ incoming # "inf"   -> [ok |-> FALSE, et |-> type]
    [] OTHER -> [ok |-> array_element_type_compatible(type, incoming), et |-> type]

\* The first value of a brace decides the type anew, also inside a larger initialiser.
JoinType(values, et, v) ==
  IF values = <<>> THEN [ok |-> TRUE, et |-> v.t] ELSE array_update_element_type(et, v.t)

Failed(i) == [ok |-> FALSE, i |-> i]
Parsed(i, values, et) == [ok |-> TRUE, i |-> i, values |-> values, et |-> et]

RECURSIVE DynamicValues(_, _, _, _)

\* parse_dynamic_initializer_values, with the values read so far: literals up to the closing brace.
DynamicValues(T, i, et, values) ==
  With(parse_literal_value_token(T[i]), LAMBDA v :
  With(JoinType(values, et, v), LAMBDA j :
  LET next == Kind(T, i + 1)
  IN CASE Kind(T, i) = "}" -> Parsed(i + 1, values, et)
       [] ~is_literal_value_token(T, i) -> Failed(i)
       [] ~j.ok -> Failed(i)
       [] next = "," -> DynamicValues(T, i + 2, j.et, Append(values, v))
       [] next = "}" -> DynamicValues(T, i + 1, j.et, Append(values, v))
       [] OTHER -> Failed(i + 1)))

parse_dynamic_initializer_values(T, i, et) == DynamicValues(T, i, et, <<>>)

RECURSIVE FixedLeaf(_, _, _, _), FixedChildren(_, _, _, _, _, _, _), parse_initializer_values(_, _, _, _, _)

\* The deepest level of a fixed initialiser: literals.
FixedLeaf(T, i, et, values) ==
  With(parse_literal_value_token(T[i]), LAMBDA v :
  With(JoinType(values, et, v), LAMBDA j :
  LET next == Kind(T, i + 1)
  IN CASE Kind(T, i) = "}" -> Parsed(i + 1, values, et)
       [] ~is_literal_value_token(T, i) -> Failed(i)
       [] ~j.ok -> Failed(i)
       [] next = "," -> FixedLeaf(T, i + 2, j.et, Append(values, v))
       [] next = "}" -> Parsed(i + 2, Append(values, v), j.et)
       [] OTHER -> Failed(i + 1)))

\* A higher level: one brace per child, flattened.  Without commas it takes no more than the declared number.
FixedChildren(T, i, level, dims, et, values, children) ==
  With(parse_initializer_values(T, i, level + 1, dims, et), LAMBDA c :
  With(values \o c.values, LAMBDA all :
  With(Kind(T, c.i), LAMBDA next :
  LET most == IF level < Len(dims) THEN dims[level + 1] ELSE 0
  IN CASE Kind(T, i) = "}" -> Parsed(i + 1, values, et)
       [] Kind(T, i) # "{" -> Failed(i)
       [] ~c.ok -> c
       [] next = "," -> FixedChildren(T, c.i + 1, level, dims, c.et, all, children + 1)
       [] next = "}" -> Parsed(c.i + 1, all, c.et)
       [] next = "{" /\ level + 1 < Len(dims) /\ children + 1 < most ->
            FixedChildren(T, c.i, level, dims, c.et, all, children + 1)
       [] OTHER -> Failed(c.i))))

\* level counts from 0, as in the code; the elements of the last dimension are the literals.
parse_initializer_values(T, i, level, dims, et) ==
  CASE Kind(T, i) # "{" -> Failed(i)
    [] level + 1 = Len(dims) -> FixedLeaf(T, i + 1, et, <<>>)
    [] OTHER -> FixedChildren(T, i + 1, level, dims, et, <<>>, 0)

RECURSIVE parse_array_dimensions(_, _, _, _)

\* [] stands for the dimension 0 and makes the declaration dynamic.
parse_array_dimensions(T, i, dims, dynamic) ==
  CASE Kind(T, i) # "[" -> [ok |-> TRUE, i |-> i, dims |-> dims, dynamic |-> dynamic]
    [] Kind(T, i + 1) = "]" -> parse_array_dimensions(T, i + 2, Append(dims, 0), TRUE)
    [] Kind(T, i + 1) # "int" -> Failed(i + 1)
    [] Kind(T, i + 2) # "]" -> Failed(i + 2)
    [] OTHER -> parse_array_dimensions(T, i + 3, Append(dims, parse_integer_token(T[i + 1])), dynamic)

RECURSIVE Blocks(_, _, _, _, _, _)

\* parse_multi_dimensional_initializer: dims[1] blocks next to each other, each one read at level 1.
Blocks(T, i, n, dims, et, values) ==
  With(parse_initializer_values(T, i, 1, dims, et), LAMBDA b :
    CASE n = 0 -> Parsed(i, values, et)
      [] ~b.ok -> b
      [] OTHER -> Blocks(T, b.i, n - 1, dims, b.et, values \o b.values))

parse_multi_dimensional_initializer(T, i, dims, et) == Blocks(T, i, dims[1], dims, et, <<>>)

Shaped(i, values, et, dims) == [ok |-> TRUE, i |-> i, values |-> values, et |-> et, dims |-> dims]
Padded(values, n) == values \o Nulls(n - Len(values))

\* A declared dimension holds for every sibling but the first; an inferred one grows to the largest.
GrownShape(declared, shape, child) ==
  [n \in DOMAIN shape |-> IF declared[n] = 0 /\ child[n] > shape[n] THEN child[n] ELSE shape[n]]
ShapeAllowed(declared, child) == \A n \in DOMAIN child : declared[n] # 0 => child[n] = declared[n]

RECURSIVE LevelChildren(_, _, _, _, _, _, _), parse_dynamic_initializer_level(_, _, _, _)

\* The children of one brace: their values one by one, and the shape that holds them all.
LevelChildren(T, i, declared, et, kids, shape, first) ==
  With(parse_dynamic_initializer_level(T, i, Tail(declared), et), LAMBDA c :
  With(IF first THEN c.dims ELSE GrownShape(Tail(declared), shape, c.dims), LAMBDA grow :
  With(Kind(T, c.i), LAMBDA next :
    CASE Kind(T, i) = "}" -> [ok |-> TRUE, i |-> i, kids |-> kids, shape |-> shape, et |-> et]
      [] Kind(T, i) # "{" -> Failed(i)
      [] ~c.ok -> c
      [] ~first /\ ~ShapeAllowed(Tail(declared), c.dims) -> Failed(c.i)
      [] next = "," -> LevelChildren(T, c.i + 1, declared, c.et, Append(kids, c.values), grow, FALSE)
      [] next \in {"{", "}"} -> LevelChildren(T, c.i, declared, c.et, Append(kids, c.values), grow, FALSE)
      [] OTHER -> Failed(c.i))))

\* A short child is filled with nulls behind its last value.
PadChildren(kids, shape) == FlattenSeq([k \in DOMAIN kids |-> Padded(kids[k], ProductOf(shape))])

\* declared holds the dimensions from this level on.
parse_dynamic_initializer_level(T, i, declared, et) ==
  With(parse_dynamic_initializer_values(T, i + 1, et), LAMBDA leaf :
  With(LevelChildren(T, i + 1, declared, et, <<>>, <<>>, TRUE), LAMBDA kids :
  With(Len(kids.kids), LAMBDA n :
    CASE Kind(T, i) # "{" -> Failed(i)
      [] Len(declared) = 1 ->
           (CASE ~leaf.ok -> leaf
              [] declared[1] # 0 /\ Len(leaf.values) # declared[1] -> Failed(leaf.i)
              [] OTHER -> Shaped(leaf.i, leaf.values, leaf.et, <<Len(leaf.values)>>))
      [] ~kids.ok -> kids
      [] declared[1] # 0 /\ n # declared[1] -> Failed(kids.i + 1)
      [] n = 0 -> Shaped(kids.i + 1, <<>>, kids.et, <<0>> \o Tail(declared))
      [] OTHER -> Shaped(kids.i + 1, PadChildren(kids.kids, kids.shape), kids.et, <<n>> \o kids.shape))))

RECURSIVE DynamicBlocks(_, _, _, _, _, _, _, _, _)

\* The top-level blocks.  When a block needs a larger shape the earlier ones are spread out and filled
\* with nulls, unless they are all empty.
DynamicBlocks(T, i, wrapped, declared, et, values, n, shape, total) ==
  With(parse_dynamic_initializer_level(T, i, Tail(declared), et), LAMBDA b :
  With(IF n = 0 THEN b.dims ELSE GrownShape(Tail(declared), shape, b.dims), LAMBDA grown :
  With(ProductOf(grown), LAMBDA size :
  With(IF total # 0 /\ size > total
       THEN FlattenSeq([k \in 1..n |-> Padded(Slice(values, (k - 1) * total + 1, k * total), size)])
       ELSE values, LAMBDA moved :
  With(moved \o Padded(b.values, size), LAMBDA all :
  With(Kind(T, b.i), LAMBDA next :
    CASE wrapped /\ Kind(T, i) = "}" -> Shaped(i, values, et, <<n>> \o shape)
      [] Kind(T, i) # "{" -> Failed(i)
      [] ~b.ok -> b
      [] n > 0 /\ ~ShapeAllowed(Tail(declared), b.dims) -> Failed(b.i)
      [] next = "," -> DynamicBlocks(T, b.i + 1, wrapped, declared, b.et, all, n + 1, grown, size)
      [] next = (IF wrapped THEN "}" ELSE "{") ->
           DynamicBlocks(T, b.i, wrapped, declared, b.et, all, n + 1, grown, size)
      [] OTHER -> Shaped(b.i, all, b.et, <<n + 1>> \o grown)))))))

\* The blocks may stand in a brace of their own: when as many braces open as there are dimensions.
parse_dynamic_multi_dimensional_initializer(T, i, declared, et) ==
  LET wrapped == \A k \in 0..Len(declared) - 1 : Kind(T, i + k) = "{"
      start   == IF wrapped THEN i + 1 ELSE i
  IN With(DynamicBlocks(T, start, wrapped, declared, et, <<>>, 0, <<>>, 0), LAMBDA b :
       CASE Kind(T, i) # "{" -> Failed(i)
         [] ~b.ok -> b
         [] wrapped /\ Kind(T, b.i) # "}" -> Failed(b.i)
         [] declared[1] # 0 /\ b.dims[1] # declared[1] -> Failed(b.i + (IF wrapped THEN 1 ELSE 0))
         [] OTHER -> [b EXCEPT !.i = IF wrapped THEN @ + 1 ELSE @])

Value(i, v) == [ok |-> TRUE, i |-> i, v |-> v]

\* A dynamic array from a parsed initialiser, or NullV.
DynamicArray(p) ==
  LET a == array_value_create_from_values(p.dims, p.et, p.values)
  IN Value(p.i, IF a = NullV THEN NullV ELSE [a EXCEPT !.dyn = TRUE])

array_declaration_has_initializer(T, i) == Kind(T, i) = "="

\* "= {...}" without brackets: one dimension, inferred.
InferredDeclaration(T, i) ==
  With(parse_dynamic_initializer_values(T, i + 1, "null"), LAMBDA p :
    CASE Kind(T, i) # "{" -> Failed(i)
      [] ~p.ok -> p
      [] OTHER -> DynamicArray(Shaped(p.i, p.values, p.et, <<Len(p.values)>>)))

DynamicDeclaration(T, i, dims) ==
  With(IF Len(dims) = 1 THEN parse_dynamic_initializer_level(T, i, dims, "null")
       ELSE parse_dynamic_multi_dimensional_initializer(T, i, dims, "null"), LAMBDA p :
    IF p.ok THEN DynamicArray(p) ELSE p)

FixedDeclaration(T, i, dims) ==
  With(parse_multi_dimensional_initializer(T, i, dims, "null"), LAMBDA p :
    CASE ~p.ok -> p
      [] p.values = <<>> -> Value(p.i, array_value_create_fixed(dims, "null"))
      [] Len(p.values) # ProductOf(dims) -> Failed(p.i)
      [] OTHER -> Value(p.i, array_value_create_from_values(dims, p.et, p.values)))

parse_array_declaration(T, i) ==
  LET d     == parse_array_dimensions(T, i, <<>>, FALSE)
      fixed == array_value_create_fixed(d.dims, "null")
      given == array_declaration_has_initializer(T, d.i)
  IN CASE ~d.ok -> d
       [] given /\ d.dims = <<>> -> InferredDeclaration(T, d.i + 1)
       [] given /\ (\E n \in DOMAIN d.dims : d.dims[n] = 0) -> DynamicDeclaration(T, d.i + 1, d.dims)
       [] given -> FixedDeclaration(T, d.i + 1, d.dims)
       [] d.dims = <<>> -> Failed(d.i)
       [] OTHER -> Value(d.i, [fixed EXCEPT !.dyn = d.dynamic])

(***************************************************************************)
(* An access [name, whole, ix, sel]: the number of empty brackets, the     *)
(* indices (number or name tokens: a name is looked up by the interpreter) *)
(* and the tuples of select().  NoAccess has no name.                      *)
(***************************************************************************)
NoAccess == [name |-> "", whole |-> 0, ix |-> <<>>, selects |-> FALSE, sel |-> <<>>]
array_access_init(name) == [NoAccess EXCEPT !.name = name]

Tuples(i, sel) == [ok |-> TRUE, i |-> i, sel |-> sel]

RECURSIVE parse_integer_tuple(_, _, _), TupleGroup(_, _, _), SelectGroups(_, _, _)

\* Numbers up to the closing parenthesis, which is left alone.
parse_integer_tuple(T, i, tuple) ==
  LET all == Append(tuple, parse_integer_token(T[i]))
  IN CASE Kind(T, i) = ")" -> Tuples(i, <<tuple>>)
       [] Kind(T, i) # "int" -> Failed(i)
       [] Kind(T, i + 1) = "," -> parse_integer_tuple(T, i + 2, all)
       [] Kind(T, i + 1) = ")" -> Tuples(i + 1, <<all>>)
       [] OTHER -> Failed(i + 1)

SameWidth(sel, more) == sel # <<>> => Len(Head(more)) = Len(Head(sel))

\* The tuples of one parenthesis, from behind it; a parenthesis closed at once wants another one.
TupleGroup(T, i, sel) ==
  With(IF Kind(T, i) = "(" THEN TupleGroup(T, i + 1, <<>>) ELSE parse_integer_tuple(T, i, <<>>), LAMBDA c :
    CASE Kind(T, i) = ")" -> Expect(T, i + 1, ")") @@ [sel |-> sel]
      [] ~c.ok -> c
      [] c.sel = <<>> \/ Head(c.sel) = <<>> -> Failed(c.i)
      [] ~SameWidth(sel, c.sel) -> Failed(c.i)
      [] Kind(T, c.i) = "," -> TupleGroup(T, c.i + 1, sel \o c.sel)
      [] OTHER -> Expect(T, c.i, ")") @@ [sel |-> sel \o c.sel])

\* The groups of select(...), up to its closing parenthesis.
SelectGroups(T, i, sel) ==
  With(TupleGroup(T, i + 1, <<>>), LAMBDA g :
    CASE Kind(T, i) = ")" -> Tuples(i, sel)
      [] Kind(T, i) # "(" -> Failed(i)
      [] ~g.ok -> g
      [] sel # <<>> /\ (g.sel = <<>> \/ ~SameWidth(sel, g.sel)) -> Failed(g.i)
      [] Kind(T, g.i) = "," -> SelectGroups(T, g.i + 1, sel \o g.sel)
      [] Kind(T, g.i) = ")" -> Tuples(g.i, sel \o g.sel)
      [] OTHER -> Failed(g.i))

parse_select_access(T, i, access) ==
  With(IF Kind(T, i + 3) = "int" THEN parse_integer_tuple(T, i + 3, <<>>) ELSE SelectGroups(T, i + 3, <<>>), LAMBDA p :
    CASE Kind(T, i + 1) # "name" \/ T[i + 1].v # "select" -> Failed(i + 1)
      [] Kind(T, i + 2) # "(" -> Failed(i + 2)
      [] ~p.ok -> p
      [] Kind(T, p.i) # ")" -> Failed(p.i)
      [] OTHER -> [ok |-> TRUE, i |-> p.i + 1, acc |-> [access EXCEPT !.selects = TRUE, !.sel = p.sel]])

RECURSIVE Brackets(_, _, _)

\* The brackets behind the name of an array, then an optional .select(...).
Brackets(T, i, access) ==
  LET next == Kind(T, i + 1)
  IN CASE Kind(T, i) = "." -> parse_select_access(T, i, access)
       [] Kind(T, i) # "[" -> [ok |-> TRUE, i |-> i, acc |-> access]
       [] next = "]" -> Brackets(T, i + 2, [access EXCEPT !.whole = @ + 1])
       [] access.whole > 0 \/ next \notin {"int", "name"} -> Failed(i + 1)
       [] Kind(T, i + 2) # "]" -> Failed(i + 2)
       [] OTHER -> Brackets(T, i + 3, [access EXCEPT !.ix = Append(@, T[i + 1])])

parse_array_access(T, i) ==
  IF Kind(T, i) = "name" THEN Brackets(T, i + 1, array_access_init(T[i].v)) ELSE Failed(i)
====
