---------------------------- MODULE TomlScanner ----------------------------
(***************************************************************************)
(* The scanners of toml11, src/include/obsc/toml11.h, which reads the      *)
(* output of the offset helper for attach(): the combinators, and the      *)
(* syntax of TOML v1.0.0, the default version and the one in use, put      *)
(* together from them.                                                     *)
(*                                                                         *)
(* A scanner is a record.  Scan is what the code does with it: the first   *)
(* alternative that matches is taken and every repetition takes all it     *)
(* can, for good.  Ends is what the same record says as a grammar: every   *)
(* place a match may end.                                                  *)
(***************************************************************************)
EXTENDS Integers, Sequences, SequencesExt

(* A text is a sequence of bytes; a place in it, 1..Len(s) + 1.  (A string *)
(* of TLA+ has no backquote, which no scanner looks for.)                  *)
Printable ==
  " !\"#$%&'()*+,-./0123456789:;<=>?@ABCDEFGHIJKLMNOPQRSTUVWXYZ[\\]^_"
  \o " abcdefghijklmnopqrstuvwxyz{|}~"

CodeOf ==
  [c \in {SubSeq(Printable, k, k) : k \in 1..Len(Printable)} |->
     31 + CHOOSE k \in 1..Len(Printable) :
            /\ SubSeq(Printable, k, k) = c
            /\ c = " " => k = 1]

Text(string) == [k \in 1..Len(string) |-> CodeOf[SubSeq(string, k, k)]]
CharSet(string) == Range(Text(string))
Code(c) == CodeOf[c]

Tab == 9
LF == 10
CR == 13

-----------------------------------------------------------------------------
(* The combinators *)

CharacterEither(S) == [op |-> "one", of |-> S]
Character(c) == CharacterEither({c})
CharacterInRange(from, to) == CharacterEither(from..to)
Literal(text) == [op |-> "literal", of |-> text]
Sequence(gs) == [op |-> "sequence", of |-> gs]
Either(gs) == [op |-> "either", of |-> gs]
RepeatExact(n, g) == [op |-> "exact", times |-> n, of |-> g]
RepeatAtLeast(n, g) == [op |-> "atLeast", times |-> n, of |-> g]
Maybe(g) == [op |-> "maybe", of |-> g]

Char(c) == Character(Code(c))
Chars(string) == CharacterEither(CharSet(string))
Word(string) == Literal(Text(string))

NoMatch == 0

RECURSIVE Scan(_, _, _), ScanRepeated(_, _, _, _)
RECURSIVE ScanFrom(_, _, _, _), ScanFirst(_, _, _, _), ScanLast(_, _, _, _)

(* Characters, however they are given. *)
ScanCharacter(g, s, i) ==
  IF i <= Len(s) /\ s[i] \in g.of THEN i + 1 ELSE NoMatch

ScanLiteral(g, s, i) ==
  IF /\ i + Len(g.of) <= Len(s) + 1
     /\ \A k \in DOMAIN g.of : g.of[k] = s[i + k - 1]
    THEN i + Len(g.of) ELSE NoMatch

(* All parts from the k-th on, one after the other *)
ScanFrom(g, k, s, i) ==
  LET at == Scan(g.of[k], s, i)
  IN IF k > Len(g.of) THEN i
     ELSE IF at = NoMatch THEN NoMatch
     ELSE ScanFrom(g, k + 1, s, at)

ScanSequence(g, s, i) == ScanFrom(g, 1, s, i)

(* The first of the alternatives, and the last, that matches *)
ScanFirst(g, k, s, i) ==
  LET at == Scan(g.of[k], s, i)
  IN IF k > Len(g.of) THEN NoMatch
     ELSE IF at # NoMatch THEN at
     ELSE ScanFirst(g, k + 1, s, i)

ScanLast(g, k, s, i) ==
  LET at == Scan(g.of[k], s, i)
  IN IF k = 0 THEN NoMatch
     ELSE IF at # NoMatch THEN at
     ELSE ScanLast(g, k - 1, s, i)

(* Slip: an alternative tried later replaces the one that matched. *)
ScanEitherLast(g, s, i) == ScanLast(g, Len(g.of), s, i)

ScanEither(g, s, i) == ScanFirst(g, 1, s, i)

(* From the k-th time on: one that fails is an error up to the n-th. *)
ScanRepeated(g, k, s, i) ==
  LET at == Scan(g.of, s, i)
  IN IF g.op = "exact" /\ k > g.times THEN i
     ELSE IF at = NoMatch THEN (IF k > g.times THEN i ELSE NoMatch)
     ELSE ScanRepeated(g, k + 1, s, at)

ScanRepeatExact(g, s, i) == ScanRepeated(g, 1, s, i)
ScanRepeatAtLeast(g, s, i) == ScanRepeated(g, 1, s, i)

ScanMaybe(g, s, i) ==
  LET at == Scan(g.of, s, i) IN IF at = NoMatch THEN i ELSE at

(* The place after the match at i, or NoMatch. *)
Scan(g, s, i) ==
  CASE g.op = "one"      -> ScanCharacter(g, s, i)
    [] g.op = "literal"  -> ScanLiteral(g, s, i)
    [] g.op = "sequence" -> ScanSequence(g, s, i)
    [] g.op = "either"   -> ScanEither(g, s, i)
    [] g.op = "exact"    -> ScanRepeatExact(g, s, i)
    [] g.op = "atLeast"  -> ScanRepeatAtLeast(g, s, i)
    [] g.op = "maybe"    -> ScanMaybe(g, s, i)

Matches(g, s, i) == Scan(g, s, i) # NoMatch

-----------------------------------------------------------------------------
(* The same record read as a grammar *)

RECURSIVE Ends(_, _, _), Closure(_, _, _)

EndsFrom(g, s, E) == UNION {Ends(g, s, i) : i \in E}

Closure(g, s, E) ==
  LET F == E \cup EndsFrom(g, s, E) IN IF F = E THEN E ELSE Closure(g, s, F)

EndsOfTimes(g, s, i) ==
  FoldLeft(LAMBDA E, k : EndsFrom(g.of, s, E), {i}, [k \in 1..g.times |-> k])

Ends(g, s, i) ==
  CASE g.op \in {"one", "literal"} -> {Scan(g, s, i)} \ {NoMatch}
    [] g.op = "sequence" -> FoldLeft(LAMBDA E, h : EndsFrom(h, s, E), {i}, g.of)
    [] g.op = "either"   -> UNION {Ends(g.of[k], s, i) : k \in DOMAIN g.of}
    [] g.op = "exact"    -> EndsOfTimes(g, s, i)
    [] g.op = "atLeast"  -> Closure(g.of, s, EndsOfTimes(g, s, i))
    [] g.op = "maybe"    -> {i} \cup Ends(g.of, s, i)

-----------------------------------------------------------------------------
(* The syntax: UTF-8, white space, comments *)

Continuation == CharacterInRange(128, 191)

utf8_2bytes == Sequence(<<CharacterInRange(194, 223), Continuation>>)

utf8_3bytes == Sequence(<<Either(<<
    Sequence(<<Character(224), CharacterInRange(160, 191)>>),
    Sequence(<<CharacterInRange(225, 236), Continuation>>),
    Sequence(<<Character(237), CharacterInRange(128, 159)>>),
    Sequence(<<CharacterInRange(238, 239), Continuation>>)>>),
  Continuation>>)

utf8_4bytes == Sequence(<<Either(<<
    Sequence(<<Character(240), CharacterInRange(144, 191)>>),
    Sequence(<<CharacterInRange(241, 243), Continuation>>),
    Sequence(<<Character(244), CharacterInRange(128, 143)>>)>>),
  Continuation, Continuation>>)

non_ascii == Either(<<utf8_2bytes, utf8_3bytes, utf8_4bytes>>)

wschar == CharacterEither({32, Tab})
ws == RepeatAtLeast(0, wschar)
newline == Either(<<Character(LF), Literal(<<CR, LF>>)>>)

allowed_comment_char ==
  Either(<<Character(Tab), CharacterInRange(32, 126), non_ascii>>)
comment == Sequence(<<Char("#"), RepeatAtLeast(0, allowed_comment_char)>>)

-----------------------------------------------------------------------------
(* Booleans and numbers *)

boolean == Either(<<Word("true"), Word("false")>>)

digit == Chars("0123456789")
alpha == Either(<<CharacterInRange(97, 122), CharacterInRange(65, 90)>>)
hexdig == Either(<<digit, CharacterInRange(97, 102), CharacterInRange(65, 70)>>)

Underscored(d) == Either(<<d, Sequence(<<Char("_"), d>>)>>)
Sign == Maybe(Chars("+-"))

dec_int ==
  Sequence(<<Sign,
             Either(<<Sequence(<<Chars("123456789"),
                                 RepeatAtLeast(1, Underscored(digit))>>),
                      digit>>)>>)

hex_int ==
  Sequence(<<Word("0x"), hexdig, RepeatAtLeast(0, Underscored(hexdig))>>)

oct_int ==
  Sequence(<<Word("0o"), Chars("01234567"),
             RepeatAtLeast(0, Underscored(Chars("01234567")))>>)

bin_int ==
  Sequence(<<Word("0b"), Chars("01"), RepeatAtLeast(0, Underscored(Chars("01")))>>)

integer == Either(<<hex_int, oct_int, bin_int, dec_int>>)

zero_prefixable_int ==
  Sequence(<<digit, RepeatAtLeast(0, Underscored(digit))>>)

fractional_part == Sequence(<<Char("."), zero_prefixable_int>>)
exponent_part == Sequence(<<Chars("eE"), Sign, zero_prefixable_int>>)

floating ==
  Either(<<
    Sequence(<<dec_int,
               Either(<<exponent_part,
                        Sequence(<<fractional_part, Maybe(exponent_part)>>)>>)>>),
    Sequence(<<Sign, Either(<<Word("inf"), Word("nan")>>)>>)>>)

-----------------------------------------------------------------------------
(* Dates and times *)

Digits(n) == RepeatExact(n, digit)

local_date ==
  Sequence(<<Digits(4), Char("-"), Digits(2), Char("-"), Digits(2)>>)

local_time ==
  Sequence(<<Digits(2), Char(":"), Digits(2), Char(":"), Digits(2),
             Maybe(Sequence(<<Char("."), RepeatAtLeast(1, digit)>>))>>)

time_offset ==
  Either(<<Chars("Zz"),
           Sequence(<<Chars("+-"), Digits(2), Char(":"), Digits(2)>>)>>)

full_time == Sequence(<<local_time, time_offset>>)
time_delim == Chars("Tt ")
local_datetime == Sequence(<<local_date, time_delim, local_time>>)
offset_datetime == Sequence(<<local_date, time_delim, full_time>>)

-----------------------------------------------------------------------------
(* Strings *)

escaped ==
  Sequence(<<Char("\\"),
             Either(<<Chars("\"\\bfnrt"),
                      Sequence(<<Char("u"), RepeatExact(4, hexdig)>>),
                      Sequence(<<Char("U"), RepeatExact(8, hexdig)>>)>>)>>)

basic_char ==
  Either(<<Either(<<wschar, Character(33), CharacterInRange(35, 91),
                    CharacterInRange(93, 126), non_ascii>>),
           escaped>>)

basic_string ==
  Sequence(<<Char("\""), RepeatAtLeast(0, basic_char), Char("\"")>>)

escaped_newline ==
  Sequence(<<Char("\\"), ws, newline,
             RepeatAtLeast(0, Either(<<wschar, newline>>))>>)

(* A string in three quotes holds runs of one or two, and may end in one.  *)
Multiline(three, quotes, content) ==
  Sequence(<<Word(three), Maybe(newline),
             RepeatAtLeast(0, content),
             RepeatAtLeast(0, Sequence(<<quotes, RepeatAtLeast(1, content)>>)),
             Word(three), Maybe(quotes)>>)

ml_basic_string ==
  Multiline("\"\"\"", Either(<<Word("\"\""), Char("\"")>>),
            Either(<<basic_char, newline, escaped_newline>>))

literal_char ==
  Either(<<Character(Tab), CharacterInRange(32, 38), CharacterInRange(40, 126),
           non_ascii>>)

literal_string ==
  Sequence(<<Char("'"), RepeatAtLeast(0, literal_char), Char("'")>>)

ml_literal_string ==
  Multiline("'''", Either(<<Word("''"), Char("'")>>),
            Either(<<literal_char, newline>>))

string ==
  Either(<<ml_basic_string, ml_literal_string, basic_string, literal_string>>)

-----------------------------------------------------------------------------
(* Keys and table headers *)

unquoted_key == RepeatAtLeast(1, Either(<<alpha, digit, Char("-"), Char("_")>>))
quoted_key == Either(<<basic_string, literal_string>>)
simple_key == Either(<<unquoted_key, quoted_key>>)
dot_sep == Sequence(<<ws, Char("."), ws>>)

dotted_key ==
  Sequence(<<simple_key, RepeatAtLeast(1, Sequence(<<dot_sep, simple_key>>))>>)

key == Either(<<dotted_key, simple_key>>)
keyval_sep == Sequence(<<ws, Char("="), ws>>)
std_table == Sequence(<<Char("["), ws, key, ws, Char("]")>>)
array_table == Sequence(<<Word("[["), ws, key, ws, Word("]]")>>)

-----------------------------------------------------------------------------
RECURSIVE MayBeEmpty(_), Advances(_)

MayBeEmpty(g) ==
  CASE g.op = "one"      -> FALSE
    [] g.op = "literal"  -> g.of = <<>>
    [] g.op = "sequence" -> \A k \in DOMAIN g.of : MayBeEmpty(g.of[k])
    [] g.op = "either"   -> \E k \in DOMAIN g.of : MayBeEmpty(g.of[k])
    [] g.op \in {"exact", "atLeast"} -> g.times = 0 \/ MayBeEmpty(g.of)
    [] g.op = "maybe"    -> TRUE

(* No repetition in g has a body that matches the empty text. *)
Advances(g) ==
  CASE g.op \in {"one", "literal"} -> TRUE
    [] g.op \in {"sequence", "either"} -> \A k \in DOMAIN g.of : Advances(g.of[k])
    [] g.op \in {"exact", "maybe"} -> Advances(g.of)
    [] g.op = "atLeast" -> ~MayBeEmpty(g.of) /\ Advances(g.of)

(* What repeat_at_least::scan relies on: a body that matched the empty     *)
(* text would be matched for ever.                                         *)
ASSUME RepetitionsAdvance ==
  LET whole == <<comment, integer, floating, offset_datetime, string, std_table,
                 array_table, keyval_sep>>
  IN \A k \in DOMAIN whole : Advances(whole[k])

=============================================================================
