---- MODULE DriftValues ----
(***************************************************************************)
(* Values of the drift language and the operators on them:                 *)
(* interpreter/core/value.c, interpreter/operators and                     *)
(* interpreter/arrays.                                                     *)
(*                                                                         *)
(* A value is a record with its type in t.  A float is an exact fraction   *)
(* in lowest terms: the rounding of doubles is not modelled.  An array     *)
(* holds the type of its elements, its dimensions and its elements in      *)
(* row-major order; length and total_count of the code are Len(els).       *)
(* Values are copied whole wherever the code copies them; the identity     *)
(* marker that `is` compares is not modelled.                              *)
(***************************************************************************)
EXTENDS DriftLexer

IntV(n)   == [t |-> "int", n |-> n]
BoolV(b)  == [t |-> "bool", b |-> b]
StrV(s)   == [t |-> "str", s |-> s]
NullV     == [t |-> "null"]
InfV == [t |-> "inf"]
ArrV(et, dims, els, dyn) == [t |-> "arr", et |-> et, dims |-> dims, els |-> els, dyn |-> dyn]

RECURSIVE GCD(_, _)
GCD(a, b) == IF b = 0 THEN a ELSE GCD(b, a % b)

AbsVal(n) == IF n < 0 THEN -n ELSE n
Signed(n, m) == IF n < 0 THEN -m ELSE m

\* n / d as a float, d # 0.
FloatV(n, d) ==
  LET g == GCD(AbsVal(n), AbsVal(d))
  IN [t |-> "float", n |-> Signed(d, n) \div g, d |-> AbsVal(d) \div g]

\* Division and remainder of C: towards zero.
Quot(a, b) == Signed(a, Signed(b, AbsVal(a) \div AbsVal(b)))
Rem(a, b)  == a - b * Quot(a, b)

----------------------------------------------------------------------------
(* Text of values.                                                         *)

RECURSIVE DigitsOf(_), PadLeft(_, _), StripZeros(_), NumberOf(_, _)

DigitsOf(n) == IF n < 10 THEN At("0123456789", n + 1) ELSE DigitsOf(n \div 10) \o At("0123456789", (n % 10) + 1)
PadLeft(s, w) == IF Len(s) < w THEN PadLeft("0" \o s, w) ELSE s
StripZeros(s) == IF At(s, Len(s)) = "0" THEN StripZeros(Slice(s, 1, Len(s) - 1)) ELSE s

\* The number a text of digits stands for, after the number n of the digits before it.
NumberOf(s, n) == IF s = "" THEN n ELSE NumberOf(Slice(s, 2, Len(s)), 10 * n + FindOf("0123456789", 1, {At(s, 1)}) - 1)

IntText(n) == IF n < 0 THEN "-" \o DigitsOf(-n) ELSE DigitsOf(n)

\* "%g": six significant digits without trailing zeros, for values between 10^-4 and 10^6.
FloatText(n, d) ==
  LET a    == AbsVal(n)
      \* the decimals that leave six significant digits
      p    == IF n = 0 THEN 0 ELSE CHOOSE k \in 0..9 : d * 10^5 <= a * 10^k /\ a * 10^k < d * 10^6
      q    == (2 * a * 10^p + d) \div (2 * d)
      s    == PadLeft(DigitsOf(q), p + 1)
  IN With(StripZeros(Slice(s, Len(s) - p + 1, Len(s))), LAMBDA frac :
       (IF n < 0 THEN "-" ELSE "") \o Slice(s, 1, Len(s) - p) \o (IF frac = "" THEN "" ELSE "." \o frac))

ScalarText(v) ==
  CASE v.t = "int"   -> IntText(v.n)
    [] v.t = "float" -> FloatText(v.n, v.d)
    [] v.t = "str"   -> v.s
    [] v.t = "bool"  -> IF v.b THEN "true" ELSE "false"
    [] v.t = "null"  -> "null"
    [] v.t = "inf"   -> "infinity"
    [] OTHER -> ""

Join(texts, sep) ==
  IF texts = <<>> THEN "" ELSE FoldLeft(LAMBDA a, b : a \o sep \o b, Head(texts), Tail(texts))

ProductOf(dims) == FoldLeft(LAMBDA a, b : a * b, 1, dims)

RECURSIVE Rows(_, _, _, _)

\* The text of the slice of array a below dimension d that starts behind element `base`.
Rows(a, d, base, sep) ==
  IF d = Len(a.dims)
  THEN Join([i \in 1..a.dims[d] |-> ScalarText(a.els[base + i])], sep)
  ELSE LET stride == ProductOf(Slice(a.dims, d + 1, Len(a.dims)))
       IN Join([i \in 1..a.dims[d] |-> Rows(a, d + 1, base + (i - 1) * stride, sep)],
               IF d = 1 /\ Len(a.dims) > 2 THEN "\n\n" ELSE "\n")

\* What the code writes straight to the output ...
print_array_value(a) ==
  CASE a.dyn /\ Len(a.els) = 0 -> ""
    [] ~(a.dyn /\ Len(a.els) = 0) /\ Len(a.dims) = 1 -> Join([i \in DOMAIN a.els |-> ScalarText(a.els[i])], ",")
    [] OTHER -> Rows(a, 1, 0, " ")

print_value(v) == IF v.t = "arr" THEN print_array_value(v) ELSE ScalarText(v)

\* ... and what it puts into a template.
format_array_value_to_string(a) == IF a.dyn /\ Len(a.els) = 0 THEN "" ELSE Rows(a, 1, 0, ",")
format_value_to_string(v) == IF v.t = "arr" THEN format_array_value_to_string(v) ELSE ScalarText(v)

----------------------------------------------------------------------------
(* Arrays.                                                                 *)

product_dimensions(dims) == IF \E i \in DOMAIN dims : dims[i] <= 0 THEN 0 ELSE ProductOf(dims)

Nulls(n) == [i \in 1..n |-> NullV]

array_value_create_empty == ArrV("null", <<0>>, <<>>, TRUE)
array_value_create_fixed(dims, et) == ArrV(et, dims, Nulls(product_dimensions(dims)), FALSE)
array_value_create_dynamic_from_values(et, values) == ArrV(et, <<Len(values)>>, values, TRUE)

\* NullV (no array) when the number of values is not the product of the dimensions.
array_value_create_from_values(dims, et, values) ==
  IF product_dimensions(dims) # Len(values) THEN NullV ELSE ArrV(et, dims, values, FALSE)

\* The place of coordinates in row-major order, 0 when they are outside of the array.
FlatIndex(dims, ix) ==
  1 + FoldLeft(LAMBDA acc, i : acc * dims[i] + ix[i], 0, [i \in DOMAIN dims |-> i])

array_value_get_flat_index(a, ix) ==
  IF Len(ix) # Len(a.dims) \/ \E i \in DOMAIN ix : ix[i] < 0 \/ ix[i] >= a.dims[i]
  THEN 0
  ELSE FlatIndex(a.dims, ix)

\* The coordinates of place k of an array of these dimensions.
CoordinatesOf(dims, k) ==
  [i \in DOMAIN dims |-> ((k - 1) \div ProductOf(Slice(dims, i + 1, Len(dims)))) % dims[i]]

\* Every element moves to its coordinates in the larger array.
array_value_resize(a, dims) ==
  LET moved == [k \in DOMAIN a.els |-> FlatIndex(dims, CoordinatesOf(a.dims, k))]
  IN [a EXCEPT !.dims = dims,
               !.els = [p \in 1..ProductOf(dims) |->
                          IF \E k \in DOMAIN moved : moved[k] = p
                          THEN a.els[CHOOSE k \in DOMAIN moved : moved[k] = p]
                          ELSE NullV]]

\* The array after the assignment, NullV when it is refused.
array_value_set_element(a, ix, v) ==
  LET over == {i \in DOMAIN ix : ix[i] >= a.dims[i]}
      dims == [i \in DOMAIN a.dims |-> IF i \in over THEN ix[i] + 1 ELSE a.dims[i]]
      b    == IF over = {} THEN a ELSE array_value_resize(a, dims)
  IN IF \/ v.t = "arr"
        \/ Len(ix) # Len(a.dims)
        \/ \E i \in DOMAIN ix : ix[i] < 0
        \/ over # {} /\ ~a.dyn
        \/ a.et # "null" /\ v.t # "null" /\ v.t # a.et
     THEN NullV
     ELSE [b EXCEPT !.els[FlatIndex(dims, ix)] = v,
                    !.et = IF a.et = "null" THEN v.t ELSE a.et]

----------------------------------------------------------------------------
(* Operators.                                                              *)

IsNumber(v) == v.t \in {"int", "float", "bool"}

\* The fraction of a number.
NumOf(v) == CASE v.t = "int"   -> [n |-> v.n, d |-> 1]
              [] v.t = "float" -> [n |-> v.n, d |-> v.d]
              [] v.t = "bool"  -> [n |-> IF v.b THEN 1 ELSE 0, d |-> 1]

operator_apply_arithmetic(op, l, r) ==
  LET x == NumOf(l)
      y == NumOf(r)
      quot == Quot(x.n * y.d, x.d * y.n)
  IN CASE ~IsNumber(l) \/ ~IsNumber(r) -> NullV
       [] IsNumber(l) /\ IsNumber(r) /\ op \in {"/", "%"} /\ y.n = 0 -> NullV
       [] l.t = "int" /\ r.t = "int" /\ ~(op \in {"/", "%"} /\ r.n = 0) ->
            (CASE op = "+" -> IntV(l.n + r.n)
              [] op = "-" -> IntV(l.n - r.n)
              [] op = "*" -> IntV(l.n * r.n)
              [] op = "/" -> IF Rem(l.n, r.n) = 0 THEN IntV(Quot(l.n, r.n)) ELSE FloatV(l.n, r.n)
              [] op = "%" -> IntV(Rem(l.n, r.n)))
       [] OTHER ->
            CASE op = "+" -> FloatV(x.n * y.d + y.n * x.d, x.d * y.d)
              [] op = "-" -> FloatV(x.n * y.d - y.n * x.d, x.d * y.d)
              [] op = "*" -> FloatV(x.n * y.n, x.d * y.d)
              [] op = "/" -> FloatV(x.n * y.d, x.d * y.n)
              [] op = "%" -> FloatV(x.n * y.d - quot * y.n * x.d, x.d * y.d)

\* A text strtod reads to its end: a sign, digits and a point, or infinity.
\* Leading blanks, exponents, hexadecimal numbers and nan are not modelled.
NumericText(s) ==
  LET first == IF At(s, 1) \in {"-", "+"} THEN 2 ELSE 1
      point == SkipIn(s, first, is_digit)
      end   == IF At(s, point) = "." THEN SkipIn(s, point + 1, is_digit) ELSE point
  IN end > Len(s) /\ \E i \in first..Len(s) : At(s, i) \in is_digit

TextNumber(s) ==
  LET first == IF At(s, 1) \in {"-", "+"} THEN 2 ELSE 1
      point == SkipIn(s, first, is_digit)
      whole == NumberOf(Slice(s, first, point - 1), 0)
      frac  == Slice(s, point + 1, Len(s))
  IN With(whole * 10^Len(frac) + NumberOf(frac, 0), LAMBDA n :
       [n |-> IF At(s, 1) = "-" THEN -n ELSE n, d |-> 10^Len(frac)])

IsInfinite(v) == v.t = "inf" \/ (v.t = "str" /\ v.s \in {"inf", "infinity"})
HasNumber(v) == IsNumber(v) \/ IsInfinite(v) \/ (v.t = "str" /\ NumericText(v.s))

\* Infinity is 1/0: larger than every fraction.
value_to_numeric(v) == CASE IsNumber(v) -> NumOf(v)
                         [] IsInfinite(v) -> [n |-> 1, d |-> 0]
                         [] OTHER -> TextNumber(v.s)

value_to_string_buf(v) == IF v.t = "arr" THEN "[array]" ELSE ScalarText(v)

\* The order of the characters (no text of the runs holds a backquote); the end of a text comes before every one of them.
CharOrder == "\t\n\r !\"#$%&'()*+,-./0123456789:;<=>?@ABCDEFGHIJKLMNOPQRSTUVWXYZ[\\]^_abcdefghijklmnopqrstuvwxyz{|}~"
Rank(c) == IF c = "" THEN 0 ELSE FindOf(CharOrder, 1, {c})

RECURSIVE strcmp(_, _)
strcmp(a, b) ==
  CASE a = b -> 0
    [] a # b /\ At(a, 1) = At(b, 1) -> strcmp(Slice(a, 2, Len(a)), Slice(b, 2, Len(b)))
    [] OTHER -> Rank(At(a, 1)) - Rank(At(b, 1))

Compared(op, c) == CASE op = "==" -> c = 0 [] op = "!=" -> c # 0 [] op = ">" -> c > 0
                     [] op = "<" -> c < 0 [] op = ">=" -> c >= 0 [] op = "<=" -> c <= 0

operator_apply_relational(op, l, r) ==
  With(value_to_numeric(l), LAMBDA x :
  With(value_to_numeric(r), LAMBDA y :
  LET c == CASE l.t = "int" /\ r.t = "int" -> l.n - r.n
             [] l.t = "str" /\ r.t = "str" -> strcmp(l.s, r.s)
             [] {l.t, r.t} # {"int"} /\ {l.t, r.t} # {"str"} /\ HasNumber(l) /\ HasNumber(r) ->
                  IF x.d = 0 /\ y.d = 0 THEN 0 ELSE x.n * y.d - y.n * x.d
             [] OTHER -> strcmp(value_to_string_buf(l), value_to_string_buf(r))
  IN BoolV(Compared(op, c))))

NumberTrue(v) == IsNumber(v) /\ NumOf(v).n # 0

\* Only numbers and booleans are true for && and ||.
operator_apply_logical(op, l, r) ==
  BoolV(IF op = "&&" THEN NumberTrue(l) /\ NumberTrue(r) ELSE NumberTrue(l) \/ NumberTrue(r))

\* The integer a bitwise operator works on: a float with a fraction has none.
IsWhole(v) == v.t = "int" \/ (v.t = "float" /\ v.d = 1)

RECURSIVE BitAnd(_, _)

\* Two's complement without a width.
BitAnd(a, b) ==
  CASE a = 0 \/ b = 0 -> 0
    [] a # 0 /\ b # 0 /\ a = -1 -> b
    [] a # 0 /\ b # 0 /\ b = -1 -> a
    [] OTHER -> 2 * BitAnd(a \div 2, b \div 2) + (a % 2) * (b % 2)

BitOr(a, b) == -1 - BitAnd(-1 - a, -1 - b)

\* Shifts by less than 0 or by 64 and more are undefined in C; the runs shift by less than 31.
operator_apply_bitwise(op, l, r) ==
  CASE ~IsWhole(l) \/ ~IsWhole(r) -> NullV
    [] OTHER -> CASE op = "&"  -> IntV(BitAnd(l.n, r.n))
                  [] op = "|"  -> IntV(BitOr(l.n, r.n))
                  [] op = "^"  -> IntV(BitOr(l.n, r.n) - BitAnd(l.n, r.n))
                  [] op = "<<" -> IntV(l.n * 2^r.n)
                  [] op = ">>" -> IntV(l.n \div 2^r.n)

\* A boolean is kept by ++ and negated by --.
operator_apply_increment(op, v) ==
  LET by == IF op = "++" THEN 1 ELSE -1
  IN CASE v.t = "int"   -> IntV(v.n + by)
       [] v.t = "float" -> FloatV(v.n + by * v.d, v.d)
       [] v.t = "bool"  -> BoolV(IF op = "++" THEN v.b ELSE ~v.b)
       [] OTHER -> NullV

operator_apply_range(l, r) ==
  IF l.t # "int" \/ r.t # "int" THEN NullV
  ELSE array_value_create_dynamic_from_values("int",
         [i \in 1..AbsVal(r.n - l.n) + 1 |-> IntV(l.n + Signed(r.n - l.n, i - 1))])

\* The container is the left operand.
operator_apply_membership(c, m) ==
  BoolV(\/ /\ c.t = "arr"
          /\ m.t \in {"int", "str", "float"}
          /\ \E i \in DOMAIN c.els : c.els[i] = m
       \/ /\ c.t = "str" /\ m.t = "str"
          /\ \E i \in 1..Len(c.s) + 1 : Slice(c.s, i, i + Len(m.s) - 1) = m.s)

operator_apply(op, l, r) ==
  CASE op \in {"+", "-", "*", "/", "%"} -> operator_apply_arithmetic(op, l, r)
    [] op \in {"==", "!=", ">", "<", ">=", "<="} -> operator_apply_relational(op, l, r)
    [] op \in {"&&", "||"} -> operator_apply_logical(op, l, r)
    [] op \in {"&", "|", "^", "<<", ">>"} -> operator_apply_bitwise(op, l, r)
    [] op = "..." -> operator_apply_range(l, r)
    [] op = "in" -> operator_apply_membership(l, r)

\* What counts as true: for `if` and `!`, and for the condition of `?`, which takes every array for true.
value_is_truthy(v) == NumberTrue(v) \/ (v.t = "str" /\ v.s # "") \/ v.t = "inf" \/ (v.t = "arr" /\ Len(v.els) > 0)

operator_apply_ternary(c, yes, no) ==
  IF NumberTrue(c) \/ (c.t = "str" /\ c.s # "") \/ c.t \in {"arr", "inf"} THEN yes ELSE no

\* Other types than these give null.
apply_unary_operator(op, v) ==
  CASE op = "-" -> (CASE v.t = "int"   -> IntV(-v.n)
                      [] v.t = "float" -> FloatV(-v.n, v.d)
                      [] OTHER -> NullV)
    [] op = "!" -> BoolV(~value_is_truthy(v))
    [] op = "~" -> IF v.t = "int" THEN IntV(-1 - v.n) ELSE NullV
    [] OTHER -> v
====
