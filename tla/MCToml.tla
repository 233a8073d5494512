------------------------------- MODULE MCToml -------------------------------
(***************************************************************************)
(* Instance of GraphicsOffsets for TLC.  Texts come about by editing, one  *)
(* character at a time, seeds that hold what the reader tells apart; the   *)
(* documents among them are then read.  The properties compare the reader  *)
(* with what a TOML text is said to mean, written down once more here.     *)
(***************************************************************************)
EXTENDS GraphicsOffsets, TomlLocation

CONSTANT Topics        \* the topics of this run

VARIABLES
  topic, edits,
  tick           \* changes with every step of the reader

(* Any bytes may be a key. *)
Bytes == Seq(0..255)

mcVars == <<topic, edits, tick, vars>>

Codes(chars) == CharSet(chars) \cup {LF}

HelperOutput ==
  Text("[d3d8]") \o <<LF>> \o Text("present=1") \o <<LF>>
  \o Text("[d3d9]") \o <<LF>> \o Text("present=2") \o <<LF>>
  \o Text("present_ex=3") \o <<LF>> \o Text("present_swap=4") \o <<LF>>
  \o Text("d3d9_clsoff=0x1f") \o <<LF>> \o Text("is_d3d9ex_clsoff=1") \o <<LF>>
  \o Text("[dxgi]") \o <<LF>> \o Text("present=5") \o <<LF>>
  \o Text("present1=6") \o <<LF>> \o Text("resize=7") \o <<LF>>
  \o Text("release=0x12") \o <<LF>>

Seeds ==
  [number |-> {Text("0b1111111"), Text("-128"), Text("0x7f"), Text("1_0"),
               Text("+0.1e1"), Text("inf"), Text("true")},
   date |-> {Text("2024-02-29"), Text("1900-02-28 23:59:60"),
             Text("2000-01-31T00:00:00.5-00:30"), Text("07:32:00.25")},
   string |-> {Text("\"\\uD7FF\""), Text("\"\\n\\U0010FFFF\""),
               <<34, 237, 159, 191, 34>>, <<34, 224, 160, 128, 34>>,
               <<34, 244, 143, 191, 34>>, <<34, 34, 34, LF, 92, LF, 34, 97, 34, 34, 34>>,
               Text("''''a'''")},
   nested |-> {Text("[1,[1]]"), Text("[{a=1}]"), Text("{a.b=1,a.c=1}")},
   header |-> {Text("a=1") \o <<LF>> \o Text("b=1"),
               Text("[a.b]") \o <<LF>> \o Text("[a]"),
               Text("[[a]]") \o <<LF>> \o Text("[a.b]"),
               Text("a.a=1") \o <<LF>> \o Text("[a]"),
               Text("[a]") \o <<LF>> \o Text("a.b=1") \o <<LF>> \o Text("[a.b]")},
   broken |-> {Text("a=[[1,2") \o <<LF>> \o Text("[1"),
               Text("a={b=1") \o <<LF>> \o Text("[b]"),
               Text("[a.b]") \o <<LF>> \o Text("[a.b]") \o <<LF>> \o Text("b=1"),
               Text("# a") \o <<1, LF>> \o Text("b=1"),
               Text("# a") \o <<1, LF>> \o Text("# b")},
   offsets |-> {HelperOutput},
   layout |-> {<<Code("a"), LF, Code("a"), LF>>}]

Alphabet ==
  [number |-> CharSet("01_-x."), date |-> CharSet("39-:T "),
   string |-> {34, 92, LF, 56, 128, 160}, nested |-> Codes("[],{}.a1"),
   header |-> Codes("[]ab.="), broken |-> Codes("[]{,\"="), offsets |-> {}, layout |-> Codes("a")]

Budget ==
  [number |-> 2, date |-> 1, string |-> 1, nested |-> 2, header |-> 2,
   broken |-> 1, offsets |-> 0, layout |-> 4]

Init ==
  /\ topic \in Topics
  /\ tick = 0
  /\ text \in Seeds[topic]
  /\ edits = Budget[topic]
  /\ pc = "edit" /\ at = 1 /\ do = "go" /\ stack = <<>> /\ errors = 0
  /\ since = 0 /\ here = 0 /\ dropped = <<>> /\ newline_found = TRUE /\ keysRead = <<>>
  /\ nodes = Root /\ val = Value("table", <<>>)
  /\ kind = "none" /\ keys = <<>> /\ current = 1 /\ inserted = "ok"

Edited(t) ==
  /\ pc = "edit"
  /\ edits > 0
  /\ edits' = edits - 1
  /\ text' = t
  /\ UNCHANGED <<topic, tick, at, pc, do, stack, errors, since, here, dropped,
                 newline_found, keysRead, readVars>>

EditInsert ==
  \E k \in 1..(Len(text) + 1), c \in Alphabet[topic] : Edited(InsertAt(text, k, c))
EditDelete == Alphabet[topic] # {} /\ \E k \in DOMAIN text : Edited(RemoveAt(text, k))

(* Where there are many texts this takes two edits, as above. *)
EditReplace ==
  /\ topic \notin {"nested", "header"}
  /\ \E k \in DOMAIN text, c \in Alphabet[topic] : Edited(ReplaceAt(text, k, c))

(* Scalars are not read as documents here; the output of the helper may    *)
(* end anywhere.                                                           *)
Reading ==
  /\ pc = "edit"
  /\ topic \in {"nested", "header", "broken", "offsets"}
  /\ \E cut \in IF topic = "offsets" THEN 0..Len(text) ELSE {Len(text)} :
       parse_impl(IF topic = "nested" THEN Text("a=") \o text ELSE SubSeq(text, 1, cut))
  /\ UNCHANGED <<topic, edits, tick>>

Busy == pc \notin {"edit", "done"}

ReaderStep == parse_file /\ tick' = 1 - tick /\ UNCHANGED <<topic, edits>>

(* There is nothing to do, or no room for another call. *)
Rest == (~Busy \/ Len(stack) = MaxDepth) /\ UNCHANGED mcVars

Next == EditInsert \/ EditDelete \/ EditReplace \/ Reading \/ ReaderStep \/ Rest

Spec == Init /\ [][Next]_mcVars

(* The reader runs on.  This is WF of ReaderStep, which is enabled when    *)
(* the reader is busy: TLC finds no deadlock, and Rest takes no more than  *)
(* it says.                                                                *)
FairSpec == Spec /\ WF_tick(Busy /\ tick' = 1 - tick)

Whole(value) == value.ok /\ value.at = Len(text) + 1
About(t) == pc = "edit" /\ topic = t

-----------------------------------------------------------------------------
(* Scanners *)

Grammars ==
  [number |-> <<integer, floating, boolean>>,
   date |-> <<offset_datetime, local_datetime, local_date, local_time>>,
   string |-> <<string>>, nested |-> <<spacer>>, header |-> <<key>>,
   broken |-> <<>>, offsets |-> <<>>, layout |-> <<>>]

(* Trying the alternatives in order and repeating as often as possible, a  *)
(* scanner still takes the longest text its grammar allows: no choice made *)
(* early hides a match (either::scan and repeat_at_least::scan never go    *)
(* back).                                                                  *)
ChoiceLosesNothing ==
  pc = "edit" =>
    \A k \in DOMAIN Grammars[topic] :
      LET g == Grammars[topic][k]
          ends == Ends(g, text, 1)
      IN Scan(g, text, 1) = IF ends = {} THEN NoMatch ELSE Max(ends)

Scalars == {"boolean", "integer", "floating", "string", "offset_datetime",
            "local_datetime", "local_date", "local_time"}

(* The type guessed from the first characters is the right one: what any   *)
(* of the functions it chooses from would read as a whole value is read,   *)
(* and as that value (guess_value_type and guess_number_type).             *)
GuessLosesNothing ==
  pc = "edit" /\ topic \in {"number", "date", "string"} =>
    \A value \in {parse_scalar(type, text, 1) : type \in Scalars} :
      Whole(value) => parse_value(text, 1) = value

-----------------------------------------------------------------------------
(* Integers *)

(* Underscores stand between digits only. *)
WellSpaced(t, S) ==
  /\ t # <<>>
  /\ \A k \in DOMAIN t :
       \/ t[k] \in S
       \/ /\ t[k] = Code("_")
          /\ k - 1 \in DOMAIN t /\ t[k - 1] \in S
          /\ k + 1 \in DOMAIN t /\ t[k + 1] \in S

(* Seven digits are all that may count. *)
Significance(t, base) ==
  LET d == Unspaced(t)
      counting == {k \in DOMAIN d : d[k] # Code("0")}
  IN IF \E k \in counting : Len(d) - k > 6 THEN Huge
     ELSE MapThenSumSet(LAMBDA k : DigitValue(d[k]) * base^(Len(d) - k), counting)

Bases ==
  [b |-> <<2, CharSet("01")>>, o |-> <<8, CharSet("01234567")>>,
   x |-> <<16, CharSet("0123456789abcdefABCDEF")>>]

(* What an integer means, of any size: decimal digits with no zero in      *)
(* front, and a sign if wanted, or a prefix and digits of its base.        *)
Meanings(t) ==
  {SignOf(t) * Significance(d, 10) :
     d \in {d \in {Unsigned(t)} :
              WellSpaced(d, CharSet("0123456789")) /\ (Len(d) > 1 => d[1] # Code("0"))}}
  \cup
  {Significance(SubSeq(t, 3, Len(t)), Bases[p][1]) :
     p \in {p \in DOMAIN Bases :
              /\ IsPrefix(Text("0" \o p), t)
              /\ WellSpaced(SubSeq(t, 3, Len(t)), Bases[p][2])}}

(* Every integer that fits, and no other text, is read as an integer, and  *)
(* as the number it is: in the largest ones no digit is lost, wrapped      *)
(* around or refused (read_bin_int counts on a signed overflow behind the  *)
(* last digit).                                                            *)
IntegersAsWritten ==
  About("number") =>
    {v.value.is : v \in {v \in {parse_value(text, 1)} :
                           Whole(v) /\ v.value.type = "integer"}}
      = Meanings(text) \cap (IntegerMin..IntegerMax)

-----------------------------------------------------------------------------
(* Dates and times *)

LeapYears(years) ==
  LET Multiples(n) == {y \in years : y % n = 0}
  IN (Multiples(4) \ Multiples(100)) \cup Multiples(400)

(* Long and short months alternate, from August on the other way round. *)
DaysIn(month, year) ==
  IF month = 2 THEN 28 + Cardinality(LeapYears({year}))
  ELSE 30 + ((month + (month \div 8)) % 2)

Written(n, width) ==
  [k \in 1..width |-> Code("0") + ((n \div 10^(width - k)) % 10)]

Joined(parts, separator) ==
  FoldLeft(LAMBDA t, k : t \o Text(separator) \o parts[k], parts[1],
           [k \in 1..(Len(parts) - 1) |-> k + 1])

WrittenDate(d) ==
  Joined(<<Written(d[1], 4), Written(d[2], 2), Written(d[3], 2)>>, "-")

WrittenTime(d) ==
  Joined(<<Written(d[1], 2), Written(d[2], 2), Written(d[3], 2)>>, ":")
  \o Text(".") \o Written(d[4], 3) \o Written(d[5], 3) \o Written(d[6], 3)

Size(n) == IF n < 0 THEN -n ELSE n

WrittenOffset(d) ==
  Text(IF d[1] < 0 \/ d[2] < 0 THEN "-" ELSE "+")
  \o Written(Size(d[1]), 2) \o Text(":") \o Written(Size(d[2]), 2)

WrittenValue(value) ==
  LET d == value.is
  IN CASE value.type = "local_date" -> WrittenDate(d)
       [] value.type = "local_time" -> WrittenTime(d)
       [] value.type = "local_datetime" ->
            WrittenDate(d) \o Text("T") \o WrittenTime(SubSeq(d, 4, 9))
       [] value.type = "offset_datetime" ->
            WrittenDate(d) \o Text("T") \o WrittenTime(SubSeq(d, 4, 9))
            \o WrittenOffset(SubSeq(d, 10, 11))

(* The same text with a T, nine digits of a second and an offset that is a *)
(* number: what a text that is a time from place i on is without its       *)
(* freedoms.                                                               *)
NormalTime(t) ==
  LET rest == SubSeq(t, 9, Len(t))
      tail == NextOf(CharSet("Zz+-"), rest, 1)
      zone == SubSeq(rest, tail, Len(rest))
      west == zone \in {Text("Z"), Text("z"), Text("-00:00")}
  IN SubSeq(t, 1, 8) \o Text(".") \o Padded(SubSeq(rest, 2, tail - 1))
     \o IF west THEN Text("+00:00") ELSE zone

Normal(t) ==
  CASE t[3] = Code(":") -> NormalTime(t)
    [] t[3] # Code(":") /\ Len(t) = 10 -> t
    [] OTHER -> SubSeq(t, 1, 10) \o Text("T") \o NormalTime(SubSeq(t, 12, Len(t)))

DateShapes ==
  [local_date |-> local_date, local_time |-> local_time,
   local_datetime |-> local_datetime, offset_datetime |-> offset_datetime]

(* Two digits of the text *)
Two(t, k) == Number(t, k, 2)

RealDate(t) ==
  /\ Two(t, 6) \in 1..12
  /\ Two(t, 9) \in 1..DaysIn(Two(t, 6), Number(t, 1, 4))

RealTime(t) == Two(t, 1) <= 23 /\ Two(t, 4) <= 59 /\ Two(t, 7) <= 60

RealOffset(t) ==
  Code(":") \in Range(t) =>
    Two(t, Len(t) - 4) <= 24 /\ Two(t, Len(t) - 1) <= 60

Real(type, t) ==
  /\ type # "local_time" => RealDate(t)
  /\ type = "local_time" => RealTime(t)
  /\ type \in {"local_datetime", "offset_datetime"} => RealTime(SubSeq(t, 12, Len(t)))
  /\ type = "offset_datetime" => (t[Len(t)] \in CharSet("Zz") \/ RealOffset(t))

(* A date or time is read when and only when it is one of the calendar and *)
(* the clock, and what is read, written out, is the text: the sign of an   *)
(* offset below an hour is not lost, nor a leap day gained.                *)
DatesAsWritten ==
  About("date") =>
    LET read == {v.value : v \in {v \in {parse_value(text, 1)} :
                                    Whole(v) /\ v.value.type \in DOMAIN DateShapes}}
    IN /\ {value.type : value \in read} =
             {t \in DOMAIN DateShapes :
                Len(text) + 1 \in Ends(DateShapes[t], text, 1) /\ Real(t, text)}
       /\ \A value \in read : WrittenValue(value) = Normal(text)

-----------------------------------------------------------------------------
(* Strings *)

RECURSIVE IsUTF8(_)
IsUTF8(t) ==
  t = <<>> \/ \E n \in 1..Min({4, Len(t)}) :
                IsCharacter(SubSeq(t, 1, n)) /\ IsUTF8(SubSeq(t, n + 1, Len(t)))

(* Whatever bytes and escapes a document holds, a string read from it is   *)
(* UTF-8: neither a surrogate, nor a number beyond the last character, nor *)
(* a form longer than needed gets in (parse_utf8_codepoint and non_ascii). *)
StringsAreUTF8 ==
  About("string") =>
    \A read \in {parse_value(text, 1)} :
      read.ok => read.value.type # "string" \/ IsUTF8(read.value.is)

-----------------------------------------------------------------------------
(* Arrays and inline tables *)

RECURSIVE ValueEnds(_, _), ElementsFrom(_, _), PairsFrom(_, _)

(* The places where g may end that begins at one of these places. *)
After(g, s, E) == UNION {Ends(g, s, i) : i \in E}
AfterChar(c, s, E) == {i + 1 : i \in {i \in E : Looking(s, i, c)}}

(* From one element to the bracket: "value, space, comma, space" again and *)
(* again, where the last comma may be left out.                            *)
ElementsFrom(s, E) ==
  LET values == UNION {ValueEnds(s, i) : i \in E}
      commas == After(spacer, s, AfterChar(",", s, After(spacer, s, values)))
  IN IF values = {} THEN {}
     ELSE After(spacer, s, values) \cup commas \cup ElementsFrom(s, commas)

Compatible(pairs) ==
  \A j, k \in DOMAIN pairs : j # k => ~IsPrefix(pairs[j], pairs[k])

(* P holds the places where a pair may begin with the keys before it; what *)
(* comes out, the places behind the last one.                              *)
PairsFrom(s, P) ==
  LET heads == {<<parse_key(s, p[1]), p[2]>> : p \in P}
      named == {h \in heads : h[1].ok /\ Compatible(Append(h[2], h[1].value))}
      ends == UNION {{<<e, Append(h[2], h[1].value)>> :
                        e \in After(ws, s, UNION {ValueEnds(s, i) :
                                i \in Ends(keyval_sep, s, h[1].at)})} : h \in named}
      commas == UNION {{<<i, e[2]>> : i \in After(ws, s, AfterChar(",", s, {e[1]}))} :
                         e \in ends}
  IN IF P = {} THEN {} ELSE {e[1] : e \in ends} \cup PairsFrom(s, commas)

ValueEnds(s, i) ==
  CASE Looking(s, i, "[") ->
         LET first == Ends(spacer, s, i + 1)
         IN AfterChar("]", s, first \cup ElementsFrom(s, first))
    [] Looking(s, i, "{") ->
         LET first == Ends(ws, s, i + 1)
         IN AfterChar("}", s,
              first \cup PairsFrom(s, {<<j, <<>>>> : j \in first}))
    [] OTHER -> {v.at : v \in {v \in {parse_value(s, i)} : v.ok}}

(* Arrays and inline tables are read as the grammar has them, whichever    *)
(* way one is nested in the other: a comma may close an array and not a    *)
(* table, newlines and comments may stand in an array and not in a table,  *)
(* and no two keys of a table are in each other's way.                     *)
NestingAsWritten ==
  About("nested") =>
    (Whole(parse_value(text, 1)) <=> Len(text) + 1 \in ValueEnds(text, 1))

-----------------------------------------------------------------------------
(* Documents *)

Statement(k, path, under) == [kind |-> k, path |-> path, under |-> under]

(* The statements of a text from place i on, as long as they are well      *)
(* formed; under is the header a pair stands under.  As in the reader, and *)
(* not in TOML, a header may follow a pair on its line.                    *)
Otherwise(read, other) == IF read.ok THEN read ELSE other

AsHeader(k, read) ==
  Then(read, LAMBDA head : Ok(head.at, Statement(k, head.value, 0)))

StatementAt(s, i, under) ==
  Otherwise(AsHeader("array_table", parse_array_table_key(s, i)),
    Otherwise(AsHeader("std_table", parse_table_key(s, i)),
      Then(parse_key_value_pair(s, i), LAMBDA pair :
        Ok(pair.at, Statement("dotted_keys", pair.value[1], under)))))

AfterStatement(s, i, k) ==
  LET follows == skip_multiline_spacer(s, i)
  IN Otherwise(LineEnd(s, i),
       IF k = "dotted_keys" /\ Looking(s, follows, "[") THEN Ok(follows, <<>>)
                                                      ELSE Err(i))

RECURSIVE Statements(_, _, _, _)
Statements(s, i, under, log) ==
  LET from == skip_multiline_spacer(s, i)
  IN IF AtEnd(s, from) THEN Ok(from, log)
     ELSE Then(StatementAt(s, from, under), LAMBDA read :
            Then(AfterStatement(s, read.at, read.value.kind), LAMBDA next :
              Statements(s, next.at,
                         IF read.value.kind = "dotted_keys" THEN under ELSE Len(log) + 1,
                         Append(log, read.value))))

(* Where a statement puts its value: a path of keys, each with the number  *)
(* of the element when the key is that of an array of tables, and 0 when   *)
(* it is not.                                                              *)
Base(p) == [p EXCEPT ![Len(p)][2] = 0]

PlaceOf(log, before, new) ==
  LET Count(p) == Cardinality({j \in DOMAIN before :
                    log[j].kind = "array_table" /\ Base(before[j]) = p})
      Element(p, last) ==
        CASE new.kind = "array_table" /\ last -> Count(p) + 1
          [] new.kind = "std_table" /\ last -> 0
          [] OTHER -> Count(p)
      Step(p, k) == Append(p, <<new.path[k], Element(Append(p, <<new.path[k], 0>>),
                                                     k = Len(new.path))>>)
  IN IF new.kind = "dotted_keys"
       THEN (IF new.under = 0 THEN <<>> ELSE before[new.under])
            \o [k \in DOMAIN new.path |-> <<new.path[k], 0>>]
       ELSE FoldLeft(Step, <<>>, [k \in DOMAIN new.path |-> k])

Places(log) ==
  FoldLeft(LAMBDA before, k : Append(before, PlaceOf(log, before, log[k])), <<>>,
           [k \in DOMAIN log |-> k])

(* Two statements of which the later one, j, cannot stand: a value is in   *)
(* its way, its table has been defined, by a header or by dotted keys, or  *)
(* its dotted keys lead into a table that a header has named or implied.   *)
InTheWay(log, places, h, j) ==
  LET p == places[h]
      q == places[j]
      Depth(k) == IF log[k].under = 0 THEN 0 ELSE Len(places[log[k].under])
      first == SubSeq(q, 1, Depth(j) + 1)
  IN \/ log[h].kind = "dotted_keys" /\ IsPrefix(p, Base(q))
     \/ /\ log[j].kind = "dotted_keys"
        /\ \/ /\ log[h].kind # "dotted_keys"
              /\ Len(p) > Depth(j)
              /\ Base(SubSeq(p, 1, Depth(j) + 1)) = first
           \/ log[h].kind = "dotted_keys" /\ log[h].under = log[j].under /\ IsPrefix(q, p)
     \/ /\ log[j].kind = "std_table"
        /\ \/ log[h].kind # "dotted_keys" /\ Base(p) = q
           \/ log[h].kind = "dotted_keys" /\ IsPrefix(q, p) /\ Len(q) > Depth(h)
     \/ log[j].kind = "array_table" /\ IsPrefix(Base(q), p)

Sound(log) ==
  LET places == Places(log)
  IN \A j \in DOMAIN log : \A h \in 1..(j - 1) : ~InTheWay(log, places, h, j)

(* A document is rejected when and only when something is wrong with it:   *)
(* whatever the reader skips, takes back and reports again on its way      *)
(* through (pop_last_error, skip_value), no error is lost and none is made *)
(* up, and the order in which tables and keys are defined is the only one  *)
(* that matters.                                                           *)
RejectedForCause ==
  pc = "done" =>
    \A read \in {Statements(text, First(text), 0, <<>>)} :
      Rejected <=> ~(read.ok /\ Sound(read.value))

(* Whatever it has to skip on its way, the reader inserts as TableSpec     *)
(* says: nothing goes into a table that a header was refused for, and no   *)
(* insertion begins before the one at hand has ended.                      *)
InsertsAsSpecified == TableSpec

(* A line that begins with a bracket and has an `=`, which sends the       *)
(* reader back, or a comment to skip.                                      *)
Treacherous ==
  \/ Code("#") \in Range(text)
  \/ \E k \in DOMAIN text :
       /\ text[k] = Code("=")
       /\ \E i \in LineOf(text, k)..k : text[i] \in CharSet("[{")

(* The reader gets through any text that has no comment and no `=` behind  *)
(* a bracket on its line: whatever it has to skip, it does not come back   *)
(* to.                                                                     *)
ReadingEnds == (Busy /\ ~Treacherous) ~> (pc = "done")

(* skip_comment_block: "In case if a comment line contains an invalid      *)
(* character, we need to skip it to advance parsing."                      *)
CommentsAreSkipped == (InCall("skip_comment_block")) ~> ~InCall("skip_comment_block")

(* The output of the helper, wherever it was cut off, gives each offset   *)
(* the low bits of its own number or is refused.  Only a cut in the last   *)
(* number goes unnoticed, when its first digits are a number too           *)
(* (graphics_offsets.h:102-118).                                           *)
OffsetsAsPrinted ==
  pc = "done" /\ topic = "offsets" =>
    loadGraphicsOffsets \in
      CASE text = HelperOutput -> {<<1, 2, 3, 4, 15, 1, 5, 6, 7, 2>>}
        [] Len(text) < Len(HelperOutput) - 3 -> {<<>>}
        [] OTHER -> {<<>>} \cup {<<1, 2, 3, 4, 15, 1, 5, 6, 7, n>> : n \in {0, 1, 2}}

-----------------------------------------------------------------------------
(* Reports *)

LineNumber(k) == 1 + Cardinality({j \in 1..(k - 1) : text[j] = LF})
PlacesOf(line) == {k \in DOMAIN text : LineNumber(k) = line /\ text[k] # LF}
Column(k) == 1 + Cardinality({j \in 1..(k - 1) : LineNumber(j) = LineNumber(k)})

Underlined(shown) == (shown.blanks + 1)..(shown.blanks + shown.marks)

(* The lines of the first and of the last character are shown, in full and *)
(* under their own numbers; the underline begins at the first character,   *)
(* leaves out none, and ends with its line or at the newline.              *)
ShowsPlaces(report, i, j) ==
  /\ report[1].number = LineNumber(i)
  /\ report[1].blanks + 1 = Column(i)
  /\ report[Len(report)].number = LineNumber(j)
  /\ \A n \in DOMAIN report :
       LET shown == report[n]
           places == PlacesOf(shown.number)
       IN /\ shown.line = [k \in 1..Cardinality(places) |->
                             text[k + Min(places) - 1]]
          /\ Underlined(shown) \subseteq 1..(Len(shown.line) + 1)
          /\ \A k \in places \cap (i..j) : Column(k) \in Underlined(shown)

(* Wherever the reader has been before it comes back to the place of an    *)
(* error, the report shows that place, or the region that begins there:    *)
(* the number of the line is not lost count of, and no length wraps.  Only *)
(* a region of several lines that ended in a newline would be shown with   *)
(* the number of the next line; none the reader reports does.  Nor is it   *)
(* claimed of a text of no bytes (toml11.h:4595-4717, 5028-5088, 5338).    *)
ReportsShowTheText ==
  About("layout") /\ text # <<>> =>
    \A i, k \in 1..(Len(text) + 1) :
      LET been == advance(text, Start, k - 1)
          here_again == set_location(text, been, i)
          place == Min({i, Len(text)})
      IN /\ ShowsPlaces(Report(text, region_at(text, here_again)), place, place)
         /\ \A j \in i..Len(text) : text[j] # LF =>
              LET last == set_location(text, been, j + 1)
              IN ShowsPlaces(Report(text, region(text, here_again, last)), i, j)

=============================================================================
