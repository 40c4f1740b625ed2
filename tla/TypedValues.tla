----------------------------- MODULE TypedValues -----------------------------
(* The values of FILTER, BIND, aggregates and ORDER BY (query/value.rs) and  *)
(* the operators on them (query/engine.rs).                                  *)
(*                                                                           *)
(* Integers are i64 or i128 and decimals an i128 mantissa with a scale; the  *)
(* widths are constants.  A double is a multiple of 1 / GRAIN with PRECISION *)
(* significant bits, rounded to the nearest, ties to even.  Text is the      *)
(* sequence of its code points.  An option is << >> or <<v>>.                *)
(*                                                                           *)
(* Left out: exponents and infinities in the text of a double, spaces around *)
(* a literal, and the rounding of an instant with a fraction of a second.    *)
EXTENDS Integers, Sequences, SequencesExt

CONSTANTS
  I64_MAX,     \* i64::MAX
  I128_MAX,    \* i128::MAX
  PRECISION,   \* significant bits of an f64
  GRAIN        \* the smallest positive f64 is 1 / GRAIN

None == << >>
checked(n, max) == IF n \in (-max - 1)..max THEN <<n>> ELSE None
Magnitude(n) == IF n < 0 THEN -n ELSE n
Sign(n) == IF n < 0 THEN -1 ELSE IF n = 0 THEN 0 ELSE 1
Larger(m, n) == IF m < n THEN n ELSE m
\* Division in Rust truncates.
Quotient(n, d) == IF n >= 0 THEN n \div d ELSE -((-n) \div d)

-----------------------------------------------------------------------------
(* Doubles: << >> is NaN, <<x>> is x / GRAIN.                                *)
Nearest(n, d) ==
  LET q == n \div d
      r == 2 * (n % d)
  IN  IF r > d \/ (r = d /\ q % 2 = 1) THEN q + 1 ELSE q

f64(n, d) ==
  LET size == Magnitude(n) * GRAIN
      e == CHOOSE k \in 0..30 : size < d * 2^(PRECISION + k) /\ (k = 0 \/ size >= d * 2^(PRECISION + k - 1))
  IN  <<Sign(n) * Nearest(size, d * 2^e) * 2^e>>

apply_f64(op, x, y) ==
  IF x = None \/ y = None THEN None
  ELSE CASE op = "Add" -> f64(x[1] + y[1], GRAIN)
         [] op = "Sub" -> f64(x[1] - y[1], GRAIN)
         [] op = "Mul" -> f64(x[1] * y[1], GRAIN * GRAIN)
         [] op = "Div" -> f64(Sign(y[1]) * x[1], Magnitude(y[1]))

partial_cmp(x, y) == IF x = None \/ y = None THEN None ELSE <<Sign(x[1] - y[1])>>
\* OrdF64: NaN is the last.
ord_f64(x, y) ==
  IF x # None /\ y # None THEN Sign(x[1] - y[1]) ELSE (IF x = None THEN 1 ELSE 0) - (IF y = None THEN 1 ELSE 0)

-----------------------------------------------------------------------------
(* Text.                                                                     *)
PLUS == 43
MINUS == 45
POINT == 46
ZERO == 48
COLON == 58
LETTER_T == 84
LETTER_Z == 90
IsDigit(c) == c \in ZERO..(ZERO + 9)
AllDigits(s) == \A i \in DOMAIN s : IsDigit(s[i])
digits_to_i64(s) == FoldLeft(LAMBDA n, c : 10 * n + c - ZERO, 0, s)
padded(n, w) == [i \in 1..w |-> ZERO + ((n \div 10^(w - i)) % 10)]
digits(n) == padded(n, CHOOSE w \in 1..9 : n < 10^w /\ (w = 1 \/ n >= 10^(w - 1)))
signed(negative, s) == IF negative THEN <<MINUS>> \o s ELSE s
\* Does s consist of the characters of shape, with any digit for a ZERO?
Shaped(s, shape) ==
  Len(s) = Len(shape) /\ \A i \in DOMAIN s : s[i] = shape[i] \/ (shape[i] = ZERO /\ IsDigit(s[i]))

text_cmp(s, t) ==
  LET differ == {i \in DOMAIN s \cap DOMAIN t : s[i] # t[i]}
  IN  IF differ = {} THEN Sign(Len(s) - Len(t))
      ELSE LET i == CHOOSE j \in differ : \A k \in differ : j <= k IN Sign(s[i] - t[i])

\* The characters of s from i to j that there are.
slice(s, i, j) == SubSeq(s, i, IF j < Len(s) THEN j ELSE Len(s))
Unsigned(s) == IF s # << >> /\ s[1] \in {PLUS, MINUS} THEN Tail(s) ELSE s
IsNegative(s) == s # << >> /\ s[1] = MINUS
Split(s) ==                                    \* before and after the first point
  LET points == {i \in DOMAIN s : s[i] = POINT}
      i == CHOOSE j \in points : \A k \in points : j <= k
  IN  IF points = {} THEN <<s, << >>>> ELSE <<SubSeq(s, 1, i - 1), SubSeq(s, i + 1, Len(s))>>

parse_int(s, max) ==
  LET n == digits_to_i64(Unsigned(s))
  IN  IF Unsigned(s) = << >> \/ ~AllDigits(Unsigned(s)) THEN None
      ELSE checked(IF IsNegative(s) THEN -n ELSE n, max)

parse_f64(s) ==
  LET parts == Split(Unsigned(s))
      all == parts[1] \o parts[2]
      n == digits_to_i64(all)
  IN  IF all = << >> \/ ~AllDigits(all) THEN None
      ELSE <<f64(IF IsNegative(s) THEN -n ELSE n, 10^Len(parts[2]))>>

-----------------------------------------------------------------------------
(* Decimals.                                                                 *)
Decimal(mant, scale) == [mant |-> mant, scale |-> scale]

parse_decimal(s) ==
  LET parts == Split(Unsigned(s))
      all == parts[1] \o parts[2]
      mant == checked(digits_to_i64(all), I128_MAX)
  IN  IF all = << >> \/ ~AllDigits(all) \/ mant = None THEN None
      ELSE <<Decimal(IF IsNegative(s) THEN -mant[1] ELSE mant[1], Len(parts[2]))>>

lexical_decimal(d) ==
  LET s == digits(Magnitude(d.mant))
      w == Larger(Len(s), d.scale + 1)
      p == padded(Magnitude(d.mant), w)
  IN  signed(d.mant < 0, IF d.scale = 0 THEN s
                         ELSE SubSeq(p, 1, w - d.scale) \o <<POINT>> \o SubSeq(p, w - d.scale + 1, w))

to_f64(d) == f64(f64(d.mant, 1)[1], GRAIN * 10^d.scale)
negated(d) == Decimal(IF d.mant = -I128_MAX - 1 THEN I128_MAX ELSE -d.mant, d.scale)

\* A version that forgets the digits the mantissa already has.
rescaled_anew(d, target) ==
  IF 10^target > I128_MAX THEN None ELSE checked(d.mant * 10^target, I128_MAX)

rescaled(d, target) ==
  LET factor == 10^(target - d.scale)
  IN  IF factor > I128_MAX THEN None ELSE checked(d.mant * factor, I128_MAX)

cmp_exact(d, e) ==
  LET target == Larger(d.scale, e.scale)
      m == rescaled(d, target)
      n == rescaled(e, target)
  IN  IF m = None \/ n = None THEN None ELSE <<Sign(m[1] - n[1])>>

eq(d, e) ==
  LET order == cmp_exact(d, e) IN IF order # None THEN order = <<0>> ELSE to_f64(d) = to_f64(e)

\* d + sign * e.
Aligned(d, e, sign) ==
  LET target == Larger(d.scale, e.scale)
      m == rescaled(d, target)
      n == rescaled(e, target)
      r == IF m = None \/ n = None THEN None ELSE checked(m[1] + sign * n[1], I128_MAX)
  IN  IF r = None THEN None ELSE <<Decimal(r[1], target)>>
add(d, e) == Aligned(d, e, 1)
sub(d, e) == Aligned(d, e, -1)
mul(d, e) ==
  LET r == checked(d.mant * e.mant, I128_MAX)
  IN  IF r = None THEN None ELSE <<Decimal(r[1], d.scale + e.scale)>>

-----------------------------------------------------------------------------
(* The calendar.                                                             *)
is_leap_year(y) == (y % 4 = 0 /\ y % 100 # 0) \/ y % 400 = 0

days_in_month(y, m) ==
  CASE m \in {1, 3, 5, 7, 8, 10, 12} -> 31
    [] m \in {4, 6, 9, 11} -> 30
    [] m = 2 -> IF is_leap_year(y) THEN 29 ELSE 28
    [] OTHER -> 0

days_from_civil(year, m, d) ==
  LET y == IF m <= 2 THEN year - 1 ELSE year
      era == Quotient(IF y >= 0 THEN y ELSE y - 399, 400)
      yoe == y - era * 400
      doy == (153 * (IF m > 2 THEN m - 3 ELSE m + 9) + 2) \div 5 + d - 1
      doe == yoe * 365 + yoe \div 4 - yoe \div 100 + doy
  IN  era * 146097 + doe - 719468

civil_from_days(days) ==
  LET z == days + 719468
      era == Quotient(IF z >= 0 THEN z ELSE z - 146096, 146097)
      doe == z - era * 146097
      yoe == (doe - doe \div 1460 + doe \div 36524 - doe \div 146096) \div 365
      doy == doe - (365 * yoe + yoe \div 4 - yoe \div 100)
      mp == (5 * doy + 2) \div 153
      m == IF mp < 10 THEN mp + 3 ELSE mp - 9
  IN  [y |-> yoe + era * 400 + (IF m <= 2 THEN 1 ELSE 0), m |-> m, d |-> doy - (153 * mp + 2) \div 5 + 1]

format_xsd_datetime_utc(secs) ==
  LET civil == civil_from_days(secs \div 86400)
      rem == secs % 86400
  IN  padded(civil.y, 4) \o <<MINUS>> \o padded(civil.m, 2) \o <<MINUS>> \o padded(civil.d, 2) \o
      <<LETTER_T>> \o padded(rem \div 3600, 2) \o <<COLON>> \o padded((rem % 3600) \div 60, 2) \o
      <<COLON>> \o padded(rem % 60, 2) \o <<LETTER_Z>>

\* The digits of b from i on.
digit_run(b, i) ==
  CHOOSE n \in 0..Len(b) : AllDigits(slice(b, i, i + n - 1)) /\ (i + n \notin DOMAIN b \/ ~IsDigit(b[i + n]))
two_digits(b, i) == digits_to_i64(slice(b, i, i + 1))
zone_offset(zone) ==
  IF zone = << >> THEN None
  ELSE IF zone = <<LETTER_Z>> THEN <<0>>
  ELSE <<(two_digits(zone, 2) * 3600 + two_digits(zone, 5) * 60) * (IF zone[1] = PLUS THEN 1 ELSE -1)>>
\* n digits of b are the year, f digits the fraction of a second; timed is whether
\* a time follows the date, split whether a fraction follows it.
datetime_fields(b, sign, n, timed, f, zone) ==
  [year |-> sign * digits_to_i64(slice(b, 1, n)), month |-> two_digits(b, n + 2), day |-> two_digits(b, n + 5),
   hour |-> IF timed THEN two_digits(b, n + 8) ELSE 0, minute |-> IF timed THEN two_digits(b, n + 11) ELSE 0,
   second |-> IF timed THEN two_digits(b, n + 14) ELSE 0,
   frac |-> <<digits_to_i64(slice(b, n + 17, n + 16 + f)), 10^f>>, tz_offset_secs |-> zone_offset(zone)]
in_calendar(p) ==
  /\ p.month \in 1..12 /\ p.day \in 1..days_in_month(p.year, p.month)
  /\ p.hour <= 23 /\ p.minute <= 59 /\ p.second <= 59
datetime_from(b, sign, n, timed, split, f, zone) ==
  IF /\ n >= 4
     /\ Shaped(slice(b, n + 1, n + 6), <<MINUS, ZERO, ZERO, MINUS, ZERO, ZERO>>)
     /\ timed => Shaped(slice(b, n + 8, n + 15), <<ZERO, ZERO, COLON, ZERO, ZERO, COLON, ZERO, ZERO>>)
     /\ split => f > 0
     /\ \/ zone \in {<< >>, <<LETTER_Z>>}
        \/ \E c \in {PLUS, MINUS} : Shaped(zone, <<c, ZERO, ZERO, COLON, ZERO, ZERO>>)
     /\ in_calendar(datetime_fields(b, sign, n, timed, f, zone))
  THEN <<datetime_fields(b, sign, n, timed, f, zone)>> ELSE None
datetime_after_year(b, sign, n) ==
  LET timed == n + 7 \in DOMAIN b /\ b[n + 7] = LETTER_T
      split == timed /\ n + 16 \in DOMAIN b /\ b[n + 16] = POINT
      f == IF split THEN digit_run(b, n + 17) ELSE 0
  IN  datetime_from(b, sign, n, timed, split, f,
                    slice(b, n + 7 + (IF timed THEN 9 ELSE 0) + (IF split THEN 1 + f ELSE 0), Len(b)))
\* frac is the numerator and the denominator of the fraction of a second.
parse_datetime_parts(s) ==
  LET b == IF IsNegative(s) THEN Tail(s) ELSE s
  IN  datetime_after_year(b, IF IsNegative(s) THEN -1 ELSE 1, digit_run(b, 1))

\* Seconds since 1970-01-01T00:00:00Z and the fraction of the next one.
instant_of(p) ==
  [secs |-> days_from_civil(p.year, p.month, p.day) * 86400 + p.hour * 3600 + p.minute * 60 + p.second
              - (IF p.tz_offset_secs = None THEN 0 ELSE p.tz_offset_secs[1]),
   frac |-> p.frac]
parse_xsd_datetime(s) ==
  LET parts == parse_datetime_parts(s) IN IF parts = None THEN None ELSE <<instant_of(parts[1])>>

instant_cmp(i, j) ==
  IF i.secs # j.secs THEN Sign(i.secs - j.secs) ELSE Sign(i.frac[1] * j.frac[2] - j.frac[1] * i.frac[2])

\* Of two options.
instants_cmp(i, j) == IF None \in {i, j} THEN None ELSE <<instant_cmp(i[1], j[1])>>

\* The zone that TZ prints for an offset in seconds.
format_tz(off) ==
  <<IF off < 0 THEN MINUS ELSE PLUS>> \o padded(Magnitude(off) \div 3600, 2) \o <<COLON>> \o
  padded((Magnitude(off) % 3600) \div 60, 2)

-----------------------------------------------------------------------------
(* Values: k is the variant.                                                 *)
Integer(n) == [k |-> "Int", i |-> n]
BigInt(n) == [k |-> "BigInt", i |-> n]
Dec(d) == [k |-> "Decimal", d |-> d]
Double(x) == [k |-> "Double", f |-> x]
Bool(b) == [k |-> "Bool", b |-> b]
Str(s, lang) == [k |-> "Str", value |-> s, lang |-> lang]
Typed(s, dt) == [k |-> "Typed", value |-> s, datatype |-> dt]
Named(k, s) == [k |-> k, value |-> s]                        \* k = "Iri" or "Blank"
IntTypes == {"integer", "int", "long", "short", "byte", "nonNegativeInteger", "positiveInteger",
             "unsignedInt", "unsignedLong"}
True == <<116, 114, 117, 101>>
False == <<102, 97, 108, 115, 101>>

from_typed(s, dt) ==
  LET i64 == parse_int(s, I64_MAX)
      i128 == parse_int(s, I128_MAX)
      d == parse_decimal(s)
      f == parse_f64(s)
  IN  CASE dt \in IntTypes /\ i64 # None -> Integer(i64[1])
        [] dt \in IntTypes /\ i64 = None /\ i128 # None -> BigInt(i128[1])
        [] dt = "decimal" /\ d # None -> Dec(d[1])
        [] dt = "decimal" /\ d = None /\ f # None -> Double(f[1])
        [] dt \in {"double", "float"} /\ f # None -> Double(f[1])
        [] dt = "boolean" /\ s \in {True, <<ZERO + 1>>} -> Bool(TRUE)
        [] dt = "boolean" /\ s \in {False, <<ZERO>>} -> Bool(FALSE)
        [] dt = "string" -> Str(s, None)
        [] OTHER -> Typed(s, dt)

\* A term: an IRI, a blank node, or a literal with an optional datatype or language.
from_term(t) ==
  IF t.k # "Literal" THEN Named(t.k, t.value)
  ELSE IF t.lang # None \/ t.datatype = None THEN Str(t.value, t.lang)
  ELSE from_typed(t.value, t.datatype[1])

is_numeric(v) == v.k \in {"Int", "BigInt", "Decimal", "Double"}
as_i128(v) == IF v.k \in {"Int", "BigInt"} THEN <<v.i>> ELSE None
as_decimal(v) ==
  IF v.k = "Decimal" THEN <<v.d>> ELSE IF as_i128(v) # None THEN <<Decimal(v.i, 0)>> ELSE None
\* Of a number.
as_f64(v) == IF v.k = "Double" THEN v.f ELSE IF v.k = "Decimal" THEN to_f64(v.d) ELSE f64(v.i, 1)

\* Of every value but a double.
lexical(v) ==
  CASE v.k \in {"Int", "BigInt"} -> signed(v.i < 0, digits(Magnitude(v.i)))
    [] v.k = "Decimal" -> lexical_decimal(v.d)
    [] v.k = "Bool" -> IF v.b THEN True ELSE False
    [] OTHER -> v.value

datatype_iri(v) ==
  CASE v.k \in {"Int", "BigInt"} -> <<"integer">>
    [] v.k = "Decimal" -> <<"decimal">>
    [] v.k = "Double" -> <<"double">>
    [] v.k = "Bool" -> <<"boolean">>
    [] v.k = "Str" -> IF v.lang = None THEN <<"string">> ELSE <<"langString">>
    [] v.k = "Typed" -> <<v.datatype>>
    [] v.k \in {"Iri", "Blank"} -> None

value_to_term(v) ==
  IF v.k \in {"Iri", "Blank"} THEN v
  ELSE [k |-> "Literal", value |-> lexical(v), datatype |-> IF v.k = "Str" THEN None ELSE datatype_iri(v),
        lang |-> IF v.k = "Str" THEN v.lang ELSE None]

ebv(v) ==
  CASE v.k = "Bool" -> <<v.b>>
    [] v.k \in {"Int", "BigInt"} -> <<v.i # 0>>
    [] v.k = "Decimal" -> <<v.d.mant # 0>>
    [] v.k = "Double" -> <<v.f \notin {None, <<0>>}>>
    [] v.k = "Str" -> <<v.value # << >>>>
    [] OTHER -> None

datetime_instant(v) ==
  IF v.k = "Typed" /\ v.datatype \in {"dateTime", "date"} THEN parse_xsd_datetime(v.value) ELSE None

sparql_eq(v, w) ==
  LET d == <<as_decimal(v), as_decimal(w)>>
      instants == instants_cmp(datetime_instant(v), datetime_instant(w))
  IN  IF is_numeric(v) /\ is_numeric(w)
      THEN IF None \notin {as_i128(v), as_i128(w)} THEN <<v.i = w.i>>
           ELSE IF d[1] # None /\ d[2] # None THEN <<eq(d[1][1], d[2][1])>>
           ELSE <<partial_cmp(as_f64(v), as_f64(w)) = <<0>>>>
      ELSE IF instants # None THEN <<instants = <<0>>>>
      ELSE IF v.k = w.k THEN <<v = w>> ELSE None

sparql_cmp(v, w) ==
  LET d == <<as_decimal(v), as_decimal(w)>>
      exact == IF d[1] = None \/ d[2] = None THEN None ELSE cmp_exact(d[1][1], d[2][1])
      instants == instants_cmp(datetime_instant(v), datetime_instant(w))
  IN  IF is_numeric(v) /\ is_numeric(w)
      THEN IF None \notin {as_i128(v), as_i128(w)} THEN <<Sign(v.i - w.i)>>
           ELSE IF exact # None THEN exact
           ELSE partial_cmp(as_f64(v), as_f64(w))
      ELSE IF instants # None THEN instants
      ELSE CASE v.k = w.k /\ v.k \in {"Str", "Iri"} -> <<text_cmp(v.value, w.value)>>
             [] v.k = "Bool" /\ w.k = "Bool" -> <<IF v.b = w.b THEN 0 ELSE IF w.b THEN -1 ELSE 1>>
             [] OTHER -> None

holds(op, order) ==
  CASE order = None -> None
    [] op = "Lt" /\ order # None -> <<order[1] < 0>>
    [] op = "Gt" /\ order # None -> <<order[1] > 0>>
    [] op = "Le" /\ order # None -> <<order[1] <= 0>>
    [] op = "Ge" /\ order # None -> <<order[1] >= 0>>
opposite(same) == IF same = None THEN None ELSE <<~same[1]>>
compare_values(op, v, w) ==
  CASE op = "Eq" -> sparql_eq(v, w)
    [] op = "Ne" -> opposite(sparql_eq(v, w))
    [] OTHER -> holds(op, sparql_cmp(v, w))

negate(v) ==
  CASE v.k = "Int" -> <<IF checked(-v.i, I64_MAX) # None THEN Integer(-v.i) ELSE BigInt(-v.i)>>
    [] v.k = "BigInt" -> <<IF checked(-v.i, I128_MAX) # None THEN BigInt(-v.i) ELSE Double(f64(-v.i, 1))>>
    [] v.k = "Decimal" -> <<Dec(negated(v.d))>>
    [] v.k = "Double" -> <<Double(IF v.f = None THEN None ELSE <<-v.f[1]>>)>>
    [] OTHER -> None

int_value(n) == IF checked(n, I64_MAX) # None THEN Integer(n) ELSE BigInt(n)

arith(op, v, w) ==
  LET i == CASE op = "Add" -> v.i + w.i [] op = "Sub" -> v.i - w.i [] op = "Mul" -> v.i * w.i
      x == as_decimal(v)[1]
      y == as_decimal(w)[1]
      d == CASE op = "Add" -> add(x, y) [] op = "Sub" -> sub(x, y) [] op = "Mul" -> mul(x, y)
      inexact == Double(apply_f64(op, as_f64(v), as_f64(w)))
  IN  IF ~is_numeric(v) \/ ~is_numeric(w) THEN None
      ELSE IF op = "Div" THEN (IF as_f64(w) = <<0>> THEN None ELSE <<inexact>>)
      ELSE IF None \notin {as_i128(v), as_i128(w)}
           THEN <<IF checked(i, I128_MAX) # None THEN int_value(i) ELSE inexact>>
      ELSE IF None \notin {as_decimal(v), as_decimal(w)}
           THEN (IF d # None THEN <<Dec(d[1])>> ELSE <<inexact>>)
      ELSE <<inexact>>

sum_values(vs) ==
  LET plus(acc, v) == IF is_numeric(v) /\ arith("Add", acc, v) # None THEN arith("Add", acc, v)[1] ELSE acc
  IN  FoldLeft(plus, Integer(0), vs)

\* CEIL, FLOOR and ROUND.
num1(f, v) ==
  LET x == as_f64(v)
      whole == CASE f = "FLOOR" -> x[1] \div GRAIN
                 [] f = "CEIL" -> -((-x[1]) \div GRAIN)
                 [] f = "ROUND" -> Sign(x[1]) * ((2 * Magnitude(x[1]) + GRAIN) \div (2 * GRAIN))
  IN  IF ~is_numeric(v) THEN None
      ELSE IF v.k = "Int" THEN <<v>>
      ELSE <<Double(IF x = None THEN None ELSE f64(whole, 1))>>

\* Of a bound value; unbound is the least.
order_key(v) ==
  LET key(group, num, int, text) == [group |-> group, num |-> num, int |-> int, text |-> text]
      instant == datetime_instant(v)
  IN  CASE v.k = "Blank" -> key(1, <<0>>, 0, v.value)
        [] v.k = "Iri" -> key(2, <<0>>, 0, v.value)
        [] v.k \in {"Int", "BigInt"} -> key(3, as_f64(v), v.i, << >>)
        [] v.k \in {"Decimal", "Double"} -> key(3, as_f64(v), 0, << >>)
        [] v.k = "Bool" -> key(4, <<0>>, 0, lexical(v))
        [] v.k = "Typed" /\ instant # None -> key(6, instant, 0, << >>)
        [] OTHER -> key(5, <<0>>, 0, v.value)

key_cmp(s, t) ==
  LET num == IF s.group = 6 THEN instant_cmp(s.num[1], t.num[1]) ELSE ord_f64(s.num, t.num)
  IN  IF s.group # t.group THEN Sign(s.group - t.group)
      ELSE IF num # 0 THEN num
      ELSE IF s.int # t.int THEN Sign(s.int - t.int)
      ELSE text_cmp(s.text, t.text)
=============================================================================
