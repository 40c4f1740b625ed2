----------------------------- MODULE SparqlLexer -----------------------------
(* The SPARQL tokenizer, src/src/parser/sparql/lexer.rs.  The input is a     *)
(* sequence of characters; a lexer is a position in it (0 after an error)    *)
(* and every lex_ fn an operator that returns <<token, position afterwards>>.*)
(* A token is [t |-> kind, v |-> characters], a string literal also has      *)
(* lang and datatype.  Names are ASCII; newline, dquote, quote and backslash *)
(* name one character each.                                                  *)
EXTENDS Integers, Sequences

Letters == {"a", "b", "e", "f", "n", "r", "t", "u", "x", "E", "U"}
Digits == {"0", "1", "2", "5"}
is_whitespace == {" ", "newline"}
is_name_char == Letters \cup Digits \cup {"_"}

(* char::get: "" past the end.                                               *)
char(cs, i) == IF i \in DOMAIN cs THEN cs[i] ELSE ""

(* The first position from i on whose character is not in S.                 *)
scan(cs, i, S) ==
  CHOOSE j \in i .. Len(cs) + 1 :
    char(cs, j) \notin S /\ \A k \in i .. j - 1 : cs[k] \in S

LexFail == << [t |-> "Fail", v |-> <<>>], 0 >>
single(kind, i) == << [t |-> kind, v |-> <<>>], i >>

Punctuation ==
  [c \in {"{", "}", "(", ")", "[", "]", ",", ";", "*", "+", "-", "/", "=", "^"} |->
     CASE c = "{" -> "LBrace" [] c = "}" -> "RBrace" [] c = "(" -> "LParen"
       [] c = ")" -> "RParen" [] c = "[" -> "LBracket" [] c = "]" -> "RBracket"
       [] c = "," -> "Comma" [] c = ";" -> "Semicolon" [] c = "*" -> "Star"
       [] c = "+" -> "Plus" [] c = "-" -> "Minus" [] c = "/" -> "Slash"
       [] c = "=" -> "Eq" [] OTHER -> "Caret"]

RECURSIVE skip_ws_and_comments(_, _)
skip_ws_and_comments(cs, i) ==
  LET eol == scan(cs, i, {cs[k] : k \in DOMAIN cs} \ {"newline"}) IN
  CASE char(cs, i) \in is_whitespace -> skip_ws_and_comments(cs, i + 1)
    [] char(cs, i) = "#" -> skip_ws_and_comments(cs, IF eol > Len(cs) THEN eol ELSE eol + 1)
    [] OTHER -> i

(***************************************************************************)
(* \u and \U: n hex digits.  The characters of the model have their code,  *)
(* every other code point is one character.                                *)
(***************************************************************************)
Hex == [c \in {"0", "1", "2", "5", "a", "b", "e", "f", "E"} |->
          CASE c = "0" -> 0 [] c = "1" -> 1 [] c = "2" -> 2 [] c = "5" -> 5 [] c = "a" -> 10
            [] c = "b" -> 11 [] c = "f" -> 15 [] OTHER -> 14]
from_u32(code) ==
  CASE code = 33 -> "!" [] code = 34 -> "dquote" [] code = 32 -> " " [] code = 97 -> "a" [] OTHER -> "other"
is_scalar(code) == code < 55296 \/ (57343 < code /\ code <= 1114111)

RECURSIVE hex_value(_, _, _)
hex_value(cs, i, n) == IF n = 0 THEN 0 ELSE hex_value(cs, i, n - 1) * 16 + Hex[cs[i + n - 1]]

(* <<character, position>>; position 0 is the error.                         *)
read_hex_into(cs, i, n) ==
  IF (\A k \in i .. i + n - 1 : char(cs, k) \in DOMAIN Hex) /\ is_scalar(hex_value(cs, i, n))
  THEN <<from_u32(hex_value(cs, i, n)), i + n>>
  ELSE <<"", 0>>

(***************************************************************************)
(* <: an IRIREF up to the closing >, or an operator.                       *)
(***************************************************************************)
IllegalInIri == is_whitespace \cup {"<", "dquote", "{", "}", "|", "^", "backtick", ""}

less_than(cs, start) ==
  IF char(cs, start + 1) = "=" THEN single("Le", start + 2) ELSE single("Lt", start + 1)

RECURSIVE iri_from(_, _, _, _)
iri_from(cs, start, i, iri) ==
  LET c == char(cs, i)
      u == char(cs, i + 1)
      escaped == read_hex_into(cs, i + 2, IF u = "u" THEN 4 ELSE 8)
  IN CASE c = ">" -> << [t |-> "Iri", v |-> iri], i + 1 >>
       [] c \in IllegalInIri -> less_than(cs, start)
       [] c = "backslash" /\ u \notin {"u", "U"} -> less_than(cs, start)
       [] c = "backslash" /\ u \in {"u", "U"} ->
            IF escaped[2] = 0 THEN LexFail
            ELSE iri_from(cs, start, escaped[2], Append(iri, escaped[1]))
       [] OTHER -> iri_from(cs, start, i + 1, Append(iri, c))

lex_lt_or_iri(cs, i) == iri_from(cs, i, i + 1, <<>>)

lex_var(cs, i) ==
  LET end == scan(cs, i + 1, is_name_char)
      name == SubSeq(cs, i + 1, end - 1)
  IN CASE name # <<>> -> << [t |-> "Var", v |-> name], end >>
       [] name = <<>> /\ cs[i] = "?" -> single("Question", end)
       [] OTHER -> LexFail

(***************************************************************************)
(* Names: a trailing dot belongs to the statement.                         *)
(***************************************************************************)
RECURSIVE without_dots(_)
without_dots(s) == IF s # <<>> /\ s[Len(s)] = "." THEN without_dots(SubSeq(s, 1, Len(s) - 1)) ELSE s

(* The trailing dots stay in the name.                                       *)
lex_word_or_pname_dotted(cs, i) ==
  LET head == scan(cs, i, is_name_char)
      local == SubSeq(cs, head + 1, scan(cs, head + 1, is_name_char \cup {"-", ".", "%"}) - 1)
      name == SubSeq(cs, i, head - 1)
  IN CASE char(cs, head) = ":" ->
            << [t |-> "PName", v |-> <<name>> \o local], head + 1 + Len(local) >>
       [] char(cs, head) # ":" /\ name = <<>> -> LexFail
       [] OTHER -> << [t |-> "Word", v |-> name], head >>

lex_word_or_pname(cs, i) ==
  LET head == scan(cs, i, is_name_char)
      local == without_dots(
                 SubSeq(cs, head + 1, scan(cs, head + 1, is_name_char \cup {"-", ".", "%"}) - 1))
      name == SubSeq(cs, i, head - 1)
  IN CASE char(cs, head) = ":" ->
            << [t |-> "PName", v |-> <<name>> \o local], head + 1 + Len(local) >>
       [] char(cs, head) # ":" /\ name = <<>> -> LexFail
       [] OTHER -> << [t |-> "Word", v |-> name], head >>

lex_blank(cs, i) ==
  LET end == scan(cs, i + 2, is_name_char \cup {"-", "."}) IN
  IF char(cs, i + 1) = ":" THEN << [t |-> "Blank", v |-> SubSeq(cs, i + 2, end - 1)], end >>
  ELSE lex_word_or_pname(cs, i)

(***************************************************************************)
(* Strings.                                                                *)
(***************************************************************************)
Escapes == [c \in {"t", "n", "r", "b", "f", "dquote", "quote", "backslash"} |->
              CASE c = "n" -> "newline" [] c = "r" -> "cr" [] c = "t" -> "tab"
                [] c \in {"dquote", "quote", "backslash"} -> c [] OTHER -> "control"]

read_string_escape(cs, i) ==
  LET c == char(cs, i) IN
  CASE c \in DOMAIN Escapes -> <<Escapes[c], i + 1>>
    [] c = "u" -> read_hex_into(cs, i + 1, 4)
    [] c = "U" -> read_hex_into(cs, i + 1, 8)
    [] OTHER -> <<"", 0>>

(* <<value, position after the closing quote>>                               *)
RECURSIVE string_from(_, _, _, _, _)
string_from(cs, i, quote, triple, value) ==
  LET c == char(cs, i)
      escaped == read_string_escape(cs, i + 1)
      closes == ~triple \/ (char(cs, i + 1) = quote /\ char(cs, i + 2) = quote)
  IN CASE c = "" -> <<value, 0>>
       [] c = "backslash" -> IF escaped[2] = 0 THEN <<value, 0>>
                      ELSE string_from(cs, escaped[2], quote, triple, Append(value, escaped[1]))
       [] c = quote /\ closes -> <<value, IF triple THEN i + 3 ELSE i + 1>>
       [] OTHER -> string_from(cs, i + 1, quote, triple, Append(value, c))

Str(value, lang, datatype) ==
  [t |-> "Str", v |-> value, lang |-> lang, datatype |-> datatype]

lex_string(cs, i) ==
  LET quote == cs[i]
      triple == char(cs, i + 1) = quote /\ char(cs, i + 2) = quote
      s == string_from(cs, IF triple THEN i + 3 ELSE i + 1, quote, triple, <<>>)
      end == s[2]
      tag == scan(cs, end + 1, Letters \cup Digits \cup {"-"})
      dt == IF char(cs, end + 2) = "<" THEN lex_lt_or_iri(cs, end + 2)
            ELSE lex_word_or_pname(cs, end + 2)
  IN CASE end = 0 -> LexFail
       [] end # 0 /\ char(cs, end) = "@" ->
            <<Str(s[1], <<SubSeq(cs, end + 1, tag - 1)>>, <<>>), tag>>
       [] end # 0 /\ char(cs, end) = "^" /\ char(cs, end + 1) = "^" ->
            IF dt[2] = 0 THEN LexFail ELSE <<Str(s[1], <<>>, <<dt[1]>>), dt[2]>>
       [] OTHER -> <<Str(s[1], <<>>, <<>>), end>>

(***************************************************************************)
(* Numbers.                                                                *)
(***************************************************************************)
RECURSIVE number_from(_, _, _, _)
number_from(cs, i, is_decimal, is_double) ==
  LET c == char(cs, i)
      sign == IF char(cs, i + 1) \in {"+", "-"} THEN 1 ELSE 0
  IN CASE c \in Digits -> number_from(cs, i + 1, is_decimal, is_double)
       [] c = "." /\ ~is_decimal /\ char(cs, i + 1) \in Digits ->
            number_from(cs, i + 1, TRUE, is_double)
       [] c \in {"e", "E"} -> number_from(cs, i + 1 + sign, is_decimal, TRUE)
       [] OTHER ->
            <<IF is_double THEN "Double" ELSE IF is_decimal THEN "Decimal" ELSE "Integer", i>>

lex_number(cs, i) ==
  LET n == number_from(cs, i, FALSE, FALSE)
  IN << [t |-> n[1], v |-> SubSeq(cs, i, n[2] - 1)], n[2] >>

lex_token(cs, i) ==
  LET c == cs[i]
      next == char(cs, i + 1)
  IN CASE c \in DOMAIN Punctuation -> single(Punctuation[c], i + 1)
       [] c = "!" -> IF next = "=" THEN single("Ne", i + 2) ELSE single("Not", i + 1)
       [] c = "&" -> IF next = "&" THEN single("And", i + 2) ELSE LexFail
       [] c = "|" -> IF next = "|" THEN single("Or", i + 2) ELSE single("Pipe", i + 1)
       [] c = ">" -> IF next = "=" THEN single("Ge", i + 2) ELSE single("Gt", i + 1)
       [] c = "<" -> lex_lt_or_iri(cs, i)
       [] c \in {"?", "$"} -> lex_var(cs, i)
       [] c \in {"dquote", "quote"} -> lex_string(cs, i)
       [] c = "_" -> lex_blank(cs, i)
       [] c = "." -> IF next \in Digits THEN lex_number(cs, i) ELSE single("Dot", i + 1)
       [] c \in Digits -> lex_number(cs, i)
       [] c \in Letters \cup {":"} -> lex_word_or_pname(cs, i)
       [] OTHER -> LexFail

RECURSIVE run(_, _, _)
run(cs, at, out) ==
  LET i == skip_ws_and_comments(cs, at)
      r == lex_token(cs, i)
  IN IF i > Len(cs) THEN Append(out, [t |-> "Eof", v |-> <<>>])
     ELSE IF r[2] = 0 THEN <<r[1]>>
     ELSE run(cs, r[2], Append(out, r[1]))

(* <<Fail>> stands for the error.                                            *)
tokenize(cs) == run(cs, 1, <<>>)
=============================================================================
