---------------------------- MODULE TomlReading ----------------------------
(***************************************************************************)
(* How toml11, src/include/obsc/toml11.h, reads keys and values: the       *)
(* parse functions on top of the scanners, for TOML v1.0.0 and without the *)
(* extensions.                                                             *)
(*                                                                         *)
(* A parse function takes a text and a place in it and ends with a value   *)
(* and the place after it, or with an error at some place.  An error,      *)
(* wherever it arises, ends in the rejection of the document: what the     *)
(* code does to go on until then is left to module TomlFile.  Comments     *)
(* and formatting, which the values carry along, are left out.             *)
(***************************************************************************)
EXTENDS TomlScanner, TomlScalars

CONSTANT Width     \* bits of an integer (64)

ASSUME WidthAssumption == Width \in 4..26

Ok(at, value) == [ok |-> TRUE, at |-> at, value |-> value]
Err(at) == [ok |-> FALSE, at |-> at]

Value(type, is) == [type |-> type, is |-> is]

(* loc.eof() and loc.current() *)
AtEnd(s, i) == i > Len(s)
Current(s, i) == IF AtEnd(s, i) THEN 0 ELSE s[i]
Looking(s, i, c) == Current(s, i) = Code(c)

Between(s, i, j) == SubSeq(s, i, j - 1)

(* What has been read goes into what comes next, unless it is an error. *)
Then(read, next(_)) == IF read.ok THEN next(read) ELSE read

(* The syntax scanned up to at, and a value made from the text it matched *)
Made(at, s, i, make(_, _)) ==
  IF at = NoMatch THEN Err(i) ELSE make(at, Between(s, i, at))

Scanned(g, s, i, make(_, _)) == Made(Scan(g, s, i), s, i, make)

-----------------------------------------------------------------------------
(* Integers *)

IntegerMax == 2^(Width - 1) - 1
IntegerMin == -(2^(Width - 1))

DigitValue(c) ==
  CASE c \in 48..57  -> c - 48
    [] c \in 65..70  -> c - 55
    [] c \in 97..102 -> c - 87

Unspaced(text) == SelectSeq(text, LAMBDA c : c # Code("_"))

(* What exceeds all that is asked of a number is not counted on. *)
Huge == 2^26

InBase(base, digits) ==
  FoldLeft(LAMBDA v, c : IF v > Huge THEN v ELSE base * v + DigitValue(c),
           0, digits)

SignOf(text) == IF text # <<>> /\ Head(text) = Code("-") THEN -1 ELSE 1
Unsigned(text) ==
  IF text # <<>> /\ Head(text) \in CharSet("+-") THEN Tail(text) ELSE text

(* What an istringstream reads fails when it does not fit. *)
read_int(text, base) ==
  LET n == SignOf(text) * InBase(base, Unsigned(text))
  IN IF n \in IntegerMin..IntegerMax THEN {n} ELSE {}

(* The last digit is taken first. *)
read_bin_int(text) ==
  LET read == FoldLeft(
        LAMBDA r, k : BinaryDigit(r, text[k] = Code("1"), k = 1, IntegerMax),
        BinaryStart, Reverse([k \in 1..Len(text) |-> k]))
  IN IF read.base = 0 THEN {} ELSE {read.val}

Read(at, i, ns) ==
  IF ns = {} THEN Err(i) ELSE Ok(at, Value("integer", CHOOSE n \in ns : TRUE))

(* The prefix, the leading zeros and the underscores go first. *)
Significant(text) ==
  LET digits == Unspaced(SubSeq(text, 3, Len(text)))
      first == SelectInSeq(digits, LAMBDA c : c # Code("0"))
  IN IF first = 0 THEN Text("0") ELSE SubSeq(digits, first, Len(digits))

parse_bin_integer(s, i) ==
  Scanned(bin_int, s, i,
          LAMBDA at, text : Read(at, i, read_bin_int(Significant(text))))

parse_oct_integer(s, i) ==
  Scanned(oct_int, s, i,
          LAMBDA at, text : Read(at, i, read_int(Significant(text), 8)))

parse_hex_integer(s, i) ==
  Scanned(hex_int, s, i,
          LAMBDA at, text : Read(at, i, read_int(Significant(text), 16)))

parse_dec_integer(s, i) ==
  Scanned(dec_int, s, i,
          LAMBDA at, text : Read(at, i, read_int(Unspaced(text), 10)))

parse_integer(s, i) ==
  LET j == IF Looking(s, i, "+") \/ Looking(s, i, "-") THEN i + 1 ELSE i
      prefix == Current(s, j + 1)
  IN IF ~Looking(s, j, "0") THEN parse_dec_integer(s, i)
     ELSE CASE prefix = Code("b") -> parse_bin_integer(s, i)
            [] prefix = Code("o") -> parse_oct_integer(s, i)
            [] prefix = Code("x") -> parse_hex_integer(s, i)
            [] prefix \in CharSet("0123456789") -> Err(i)
            [] OTHER -> parse_dec_integer(s, i)

-----------------------------------------------------------------------------
(* Booleans, and floating point numbers, whose value is their text *)

parse_boolean(s, i) ==
  Scanned(boolean, s, i,
          LAMBDA at, text : Ok(at, Value("boolean", text = Text("true"))))

(* A magnitude that no double has (1e999), which parse_float refuses, is   *)
(* assumed not to occur.                                                   *)
parse_floating(s, i) ==
  Scanned(floating, s, i,
          LAMBDA at, text : Ok(at, Value("floating", Unspaced(text))))

-----------------------------------------------------------------------------
(* Dates and times *)

Number(text, first, length) == InBase(10, SubSeq(text, first, first + length - 1))

parse_local_date(s, i) ==
  Scanned(local_date, s, i, LAMBDA at, text :
    LET year == Number(text, 1, 4)
        month == Number(text, 6, 2)
        day == Number(text, 9, 2)
    IN IF month \in 1..12 /\ day \in 1..MaxDay(month, year)
         THEN Ok(at, Value("local_date", <<year, month, day>>))
         ELSE Err(at))

(* Nine digits: milli-, micro- and nanoseconds; the rest is dropped. *)
Padded(text) ==
  [k \in 1..9 |-> IF k <= Len(text) THEN text[k] ELSE Code("0")]

parse_local_time(s, i) ==
  Scanned(local_time, s, i, LAMBDA at, text :
    LET hour == Number(text, 1, 2)
        minute == Number(text, 4, 2)
        second == Number(text, 7, 2)
        part == Padded(SubSeq(text, 10, Len(text)))
    IN IF hour < 24 /\ minute < 60 /\ second <= 60
         THEN Ok(at, Value("local_time",
                           <<hour, minute, second, Number(part, 1, 3),
                             Number(part, 4, 3), Number(part, 7, 3)>>))
         ELSE Err(at))

parse_local_datetime(s, i) ==
  Then(parse_local_date(s, i), LAMBDA date :
    IF Current(s, date.at) \notin CharSet("Tt ") THEN Err(date.at)
    ELSE Then(parse_local_time(s, date.at + 1), LAMBDA time :
           Ok(time.at, Value("local_datetime", date.value.is \o time.value.is))))

(* Slip: the sign is the hours' alone. *)
OffsetOfHours(text) ==
  IF Len(text) = 1 THEN <<0, 0>>
  ELSE <<SignOf(text) * Number(text, 2, 2), Number(text, 5, 2)>>

Offset(text) ==
  IF Len(text) = 1 THEN <<0, 0>>
  ELSE <<SignOf(text) * Number(text, 2, 2), SignOf(text) * Number(text, 5, 2)>>

parse_offset_datetime(s, i) ==
  Then(parse_local_datetime(s, i), LAMBDA local :
    Scanned(time_offset, s, local.at, LAMBDA at, text :
      IF Offset(text)[1] \in -24..24 /\ Offset(text)[2] \in -60..60
        THEN Ok(at, Value("offset_datetime", local.value.is \o Offset(text)))
        ELSE Err(at)))

-----------------------------------------------------------------------------
(* Strings *)

Escapes ==
  [c \in CharSet("\\\"bfnrt") |->
     CASE c = Code("b") -> 8 [] c = Code("f") -> 12 [] c = Code("n") -> LF
       [] c = Code("r") -> CR [] c = Code("t") -> Tab [] OTHER -> c]

HexEscape(letter, n, s, i) ==
  Scanned(Sequence(<<Char(letter), RepeatExact(n, hexdig)>>), s, i,
    LAMBDA at, text :
      LET codepoint == InBase(16, Tail(text))
      IN IF Encodable(codepoint) THEN Ok(at, parse_utf8_codepoint(codepoint))
                                 ELSE Err(at))

(* At a backslash. *)
parse_escape_sequence(s, i) ==
  LET c == Current(s, i + 1)
  IN CASE c \in DOMAIN Escapes -> Ok(i + 2, <<Escapes[c]>>)
       [] c = Code("u") -> HexEscape("u", 4, s, i + 1)
       [] c = Code("U") -> HexEscape("U", 8, s, i + 1)
       [] OTHER -> Err(i + 1)

(* A character; an escaped newline stands for nothing where the string may *)
(* span lines.                                                             *)
UnescapedCharacter(s, i, multiline) ==
  IF ~Looking(s, i, "\\") THEN Ok(i + 1, <<s[i]>>)
  ELSE IF multiline /\ Matches(escaped_newline, s, i)
    THEN Ok(Scan(escaped_newline, s, i), <<>>)
    ELSE parse_escape_sequence(s, i)

(* The bytes a text between quotes stands for *)
RECURSIVE Unescaped(_, _, _)
Unescaped(s, i, multiline) ==
  IF AtEnd(s, i) THEN Ok(i, <<>>)
  ELSE Then(UnescapedCharacter(s, i, multiline), LAMBDA part :
         Then(Unescaped(s, part.at, multiline), LAMBDA rest :
           Ok(rest.at, part.value \o rest.value)))

String(at, read) ==
  IF read.ok THEN Ok(at, Value("string", read.value)) ELSE Err(at)

Inner(text, n) == SubSeq(text, n + 1, Len(text) - n)

parse_basic_string(s, i) ==
  Scanned(basic_string, s, i, LAMBDA at, text :
    String(at, Unescaped(Inner(text, 1), 1, FALSE)))

parse_literal_string(s, i) ==
  Scanned(literal_string, s, i, LAMBDA at, text :
    Ok(at, Value("string", Inner(text, 1))))

(* The newline right after the opening quotes is not part of the string. *)
Trimmed(text) ==
  LET at == Scan(newline, text, 1)
  IN IF at = NoMatch THEN text ELSE SubSeq(text, at, Len(text))

parse_ml_basic_string(s, i) ==
  Scanned(ml_basic_string, s, i, LAMBDA at, text :
    String(at, Unescaped(Trimmed(Inner(text, 3)), 1, TRUE)))

parse_ml_literal_string(s, i) ==
  Scanned(ml_literal_string, s, i, LAMBDA at, text :
    Ok(at, Value("string", Trimmed(Inner(text, 3)))))

parse_string(s, i) ==
  CASE Matches(Word("\"\"\""), s, i) -> parse_ml_basic_string(s, i)
    [] Looking(s, i, "\"") /\ ~Matches(Word("\"\"\""), s, i) ->
         parse_basic_string(s, i)
    [] Matches(Word("'''"), s, i) -> parse_ml_literal_string(s, i)
    [] Looking(s, i, "'") /\ ~Matches(Word("'''"), s, i) ->
         parse_literal_string(s, i)
    [] OTHER -> Err(i)

-----------------------------------------------------------------------------
(* Keys *)

Quoted(s, i) == Current(s, i) \in CharSet("\"'")

parse_simple_key(s, i) ==
  IF Quoted(s, i)
    THEN Then(IF Looking(s, i, "\"") THEN parse_basic_string(s, i)
                                     ELSE parse_literal_string(s, i),
              LAMBDA quoted : Ok(quoted.at, quoted.value.is))
    ELSE Scanned(unquoted_key, s, i, LAMBDA at, text : Ok(at, text))

(* A dotted key is the sequence of its parts. *)
RECURSIVE parse_key(_, _)

(* What follows the first part, up to dot when there is one *)
KeyRest(s, first, dot) ==
  CASE dot = NoMatch -> Ok(first.at, <<first.value>>)
    [] dot # NoMatch /\ AtEnd(s, dot) -> Ok(dot, <<first.value>>)
    [] OTHER -> Then(parse_key(s, dot), LAMBDA rest :
                  Ok(rest.at, <<first.value>> \o rest.value))

parse_key(s, i) ==
  IF AtEnd(s, i) THEN Err(i)
  ELSE Then(parse_simple_key(s, i), LAMBDA first :
         KeyRest(s, first, Scan(dot_sep, s, first.at)))

-----------------------------------------------------------------------------
(* The type of a value is guessed before it is read. *)

Guess(type) == {type}
NoGuess == {}

(* What may follow a date that no time follows. *)
BadTimeFollows(s, at) ==
  \/ Current(s, at) \in CharSet("Tt0123456789")
  \/ Looking(s, at, " ") /\ Current(s, at + 1) \in CharSet("0123456789")

(* Digits, separators of dates and what makes a float must not follow. *)
ForbiddenAfterInteger(s, at) == Current(s, at) \in CharSet("_0123456789:-.eE")

(* Slip: what begins like an integer is one. *)
IntegerFirst(s, i) ==
  LET int == Scan(integer, s, i)
      float == Scan(floating, s, i)
  IN CASE int # NoMatch ->
            IF ForbiddenAfterInteger(s, int) THEN NoGuess ELSE Guess("integer")
       [] int = NoMatch /\ float # NoMatch -> Guess("floating")
       [] OTHER -> NoGuess

FloatOrInteger(s, i) ==
  LET float == Scan(floating, s, i)
      int == Scan(integer, s, i)
  IN CASE float # NoMatch ->
            IF Looking(s, float, "_") THEN NoGuess ELSE Guess("floating")
       [] float = NoMatch /\ int # NoMatch ->
            IF ForbiddenAfterInteger(s, int) THEN NoGuess ELSE Guess("integer")
       [] OTHER -> NoGuess

guess_number_type(s, i) ==
  LET datetime == Scan(local_datetime, s, i)
      date == Scan(local_date, s, i)
  IN CASE Matches(offset_datetime, s, i) -> Guess("offset_datetime")
       [] OTHER ->
     CASE datetime # NoMatch ->
            IF Current(s, datetime) \in CharSet("+-")
              THEN NoGuess ELSE Guess("local_datetime")
       [] datetime = NoMatch /\ date # NoMatch ->
            IF BadTimeFollows(s, date) THEN NoGuess ELSE Guess("local_date")
       [] OTHER ->
     IF Matches(local_time, s, i) THEN Guess("local_time")
     ELSE FloatOrInteger(s, i)

guess_value_type(s, i) ==
  LET c == Current(s, i)
  IN CASE c \in CharSet("\"'") -> Guess("string")
       [] c = Code("[") -> Guess("array")
       [] c = Code("{") -> Guess("table")
       [] c \in CharSet("tf") -> Guess("boolean")
       [] c \in CharSet("TFIN") -> NoGuess
       [] c = Code("i") ->
            IF Matches(Word("inf"), s, i) THEN Guess("floating") ELSE NoGuess
       [] c = Code("n") ->
            IF Matches(Word("nan"), s, i) THEN Guess("floating") ELSE NoGuess
       [] OTHER -> guess_number_type(s, i)

-----------------------------------------------------------------------------
(* Values that hold values *)

RECURSIVE parse_value(_, _)

(* White space, newlines and comments between the elements of an array. *)
spacer ==
  RepeatAtLeast(0, Either(<<Sequence(<<comment, newline>>), newline,
                            RepeatAtLeast(1, Character(32)),
                            RepeatAtLeast(1, Character(Tab))>>))

skip_multiline_spacer(s, i) == Scan(spacer, s, i)
skip_whitespace(s, i) == Scan(ws, s, i)

(* The place of the first of these characters from i on, or the end. *)
NextOf(S, s, i) ==
  LET places == {k \in i..Len(s) : s[k] \in S}
  IN IF places = {} THEN Len(s) + 1 ELSE Min(places)

Advanced(s, i) == IF AtEnd(s, i) THEN i ELSE i + 1

(* A comment, if there is one, with the newline or the end that must       *)
(* follow; an error goes on after the newline beyond the next character.   *)
CommentEnds(s, i, at) ==
  CASE at = NoMatch -> Ok(i, <<>>)
    [] at # NoMatch /\ AtEnd(s, at) -> Ok(at, <<>>)
    [] OTHER -> IF Matches(newline, s, at)
                  THEN Ok(Scan(newline, s, at), <<>>)
                  ELSE Err(Advanced(s, NextOf({LF}, s, at + 1)))

parse_comment_line(s, i) == CommentEnds(s, i, Scan(comment, s, skip_whitespace(s, i)))

(* From the end of an element to the next one: a comma, if there is one,   *)
(* and a comment.                                                          *)
Separated(s, i) ==
  IF Looking(s, i, ",")
    THEN [parse_comment_line(s, i + 1) EXCEPT !.at = skip_multiline_spacer(s, @)]
    ELSE parse_comment_line(s, i)

RECURSIVE ArrayRest(_, _, _)

ArrayElements(s, elem, space) ==
  Then(Separated(s, space), LAMBDA next :
    Then(ArrayRest(s, next.at, Looking(s, space, ",")), LAMBDA rest :
      Ok(rest.at, <<elem.value>> \o rest.value)))

(* The elements of an array from i on, where comma tells whether another   *)
(* one may follow.                                                         *)
ArrayRest(s, i, comma) ==
  CASE AtEnd(s, i) -> Err(i)
    [] Looking(s, i, "]") -> Ok(i + 1, <<>>)
    [] OTHER ->
         IF ~comma THEN Err(i)
         ELSE Then(parse_value(s, i), LAMBDA elem :
                ArrayElements(s, elem, skip_multiline_spacer(s, elem.at)))

parse_array(s, i) ==
  IF ~Looking(s, i, "[") THEN Err(i)
  ELSE Then(ArrayRest(s, skip_multiline_spacer(s, i + 1), TRUE), LAMBDA all :
         Ok(all.at, Value("array", all.value)))

(* The keys of a pair, up to its value *)
PairKeys(s, i) ==
  Then(parse_key(s, i), LAMBDA read :
    Scanned(keyval_sep, s, read.at, LAMBDA at, text : Ok(at, read.value)))

parse_key_value_pair(s, i) ==
  LET head == PairKeys(s, i)
  IN IF ~head.ok THEN Err(i)
     ELSE Then(parse_value(s, head.at), LAMBDA value :
            Ok(value.at, <<head.value, value.value>>))

(* Slip: a key is only compared with the whole of the others. *)
ClashesWhole(keys, pairs) == \E k \in DOMAIN pairs : pairs[k][1] = keys

(* insert_value with dotted keys into an inline table: a value is never    *)
(* replaced nor extended, and what dotted keys made is no value.           *)
Clashes(keys, pairs) ==
  \E k \in DOMAIN pairs :
    IsPrefix(pairs[k][1], keys) \/ IsPrefix(keys, pairs[k][1])

(* From one pair to the next *)
PairSeparated(s, space) ==
  skip_whitespace(s, IF Looking(s, space, ",") THEN space + 1 ELSE space)

RECURSIVE InlineRest(_, _, _, _)

InlinePairs(s, pair, space, pairs) ==
  IF Clashes(pair.value[1], pairs) THEN Err(pair.at)
  ELSE InlineRest(s, PairSeparated(s, space), Looking(s, space, ","),
                  Append(pairs, pair.value))

(* The pairs of an inline table from i on, after those in pairs. *)
InlineRest(s, i, comma, pairs) ==
  CASE AtEnd(s, i) -> Err(i)
    [] Looking(s, i, "}") -> IF comma THEN Err(i) ELSE Ok(i + 1, pairs)
    [] OTHER ->
         IF ~comma /\ pairs # <<>> THEN Err(i)
         ELSE Then(parse_key_value_pair(s, i), LAMBDA pair :
                InlinePairs(s, pair, skip_whitespace(s, pair.at), pairs))

parse_inline_table(s, i) ==
  IF ~Looking(s, i, "{") THEN Err(i)
  ELSE Then(InlineRest(s, skip_whitespace(s, i + 1), FALSE, <<>>), LAMBDA all :
         Ok(all.at, Value("table", Range(all.value))))

(* Booleans, numbers, strings, dates and times *)
parse_scalar(type, s, i) ==
  CASE type = "boolean"         -> parse_boolean(s, i)
    [] type = "integer"         -> parse_integer(s, i)
    [] type = "floating"        -> parse_floating(s, i)
    [] type = "string"          -> parse_string(s, i)
    [] type = "offset_datetime" -> parse_offset_datetime(s, i)
    [] type = "local_datetime"  -> parse_local_datetime(s, i)
    [] type = "local_date"      -> parse_local_date(s, i)
    [] type = "local_time"      -> parse_local_time(s, i)

Guessed(guess, s, i) ==
  CASE guess = NoGuess   -> Err(i)
    [] guess = {"array"} -> parse_array(s, i)
    [] guess = {"table"} -> parse_inline_table(s, i)
    [] OTHER             -> parse_scalar(CHOOSE type \in guess : TRUE, s, i)

parse_value(s, i) == Guessed(guess_value_type(s, i), s, i)

=============================================================================
