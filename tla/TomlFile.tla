------------------------------ MODULE TomlFile ------------------------------
(***************************************************************************)
(* How toml11 reads a whole document: parse_impl, parse_file and           *)
(* parse_table of src/include/obsc/toml11.h on top of TomlReading and      *)
(* TomlTable, and what they do after an error: it is reported, the reader  *)
(* skips what it takes for the rest of the value and goes on, to report as *)
(* much as it can before the document is rejected.                         *)
(*                                                                         *)
(* A step is one iteration of a loop of the code.  The functions that call *)
(* each other while reading an array or an inline table, or skipping one,  *)
(* are frames of a stack.                                                  *)
(***************************************************************************)
EXTENDS TomlReading, TomlTable

CONSTANTS
  MaxErrors,    \* errors counted
  MaxDepth      \* frames a call stack has room for

ASSUME FileAssumption == MaxErrors \in Nat /\ MaxDepth \in Nat \ {0}

VARIABLES
  text,            \* the document
  at,              \* the place of the location
  pc,              \* where in parse_file
  do,              \* what comes next in the innermost call
  stack,           \* the calls, the innermost last
  errors,          \* ctx.errors().size()
  since,           \* num_errors of parse_table
  here,            \* the table parse_table fills; 0: one to be dropped
  dropped,         \* the pairs of one to be dropped
  newline_found,   \* of parse_table
  keysRead         \* keys of the pair or header at hand

fileVars == <<text, at, pc, do, stack, errors, since, here, dropped,
              newline_found, keysRead>>
readVars == <<val, tableVars>>
vars == <<fileVars, readVars>>

-----------------------------------------------------------------------------
(* Skipping what is not understood.  A string like is skipped to its       *)
(* closing quotes, or to the end of the line.                              *)
StartsWith(word, s, i) == Matches(Word(word), s, i)

RECURSIVE AfterNext(_, _, _)
AfterNext(word, s, i) ==
  CASE AtEnd(s, i) -> i
    [] StartsWith(word, s, i) -> i + Len(word)
    [] OTHER -> AfterNext(word, s, i + 1)

skip_string_like(s, i) ==
  LET three == {w \in {"\"\"\"", "'''"} : StartsWith(w, s, i)}
  IN IF three # {} THEN AfterNext(CHOOSE w \in three : TRUE, s, i + 3)
     ELSE Advanced(s, NextOf({s[i], LF}, s, i + 1))

IsHeader(s, i) == Matches(std_table, s, i) \/ Matches(array_table, s, i)

(* The newline seen last is not looked at again: a header after an empty   *)
(* line is passed over.                                                    *)
RECURSIVE skip_until_next_table(_, _)
skip_until_next_table(s, i) ==
  LET line == NextOf({LF}, s, i) + 1
      blank == skip_whitespace(s, line)
  IN CASE line > Len(s) + 1 -> Len(s) + 1
       [] line <= Len(s) + 1 /\ IsHeader(s, blank) -> line
       [] OTHER -> skip_until_next_table(s, Advanced(s, blank))

(* The beginning of the line. *)
LineOf(s, i) ==
  LET before == {k \in 1..(i - 1) : s[k] = LF}
  IN IF before = {} THEN 1 ELSE Max(before) + 1

-----------------------------------------------------------------------------
(* Calls *)

Frame(fn) ==
  [fn |-> fn, comma |-> (fn = "parse_array"), empty |-> TRUE,
   since |-> errors, mark |-> 0, keys |-> <<>>, pairs |-> <<>>]

Top == stack[Len(stack)]
InCall(fn) == stack # <<>> /\ Top.fn = fn
Idle == kind = "none"

Call(fn, place) ==
  /\ Len(stack) < MaxDepth
  /\ stack' = Append(stack, Frame(fn))
  /\ at' = place
  /\ do' = "go"

Return(outcome, place) ==
  /\ stack' = Front(stack)
  /\ at' = place
  /\ do' = outcome

(* The innermost call goes on, with these of its variables changed. *)
Continue(what, place, top) ==
  /\ stack' = [stack EXCEPT ![Len(stack)] = top]
  /\ at' = place
  /\ do' = what

report_error(n) == errors' = Min({errors + n, MaxErrors})
NoError == UNCHANGED errors

InFile == UNCHANGED <<text, pc, since, here, dropped, newline_found, keysRead,
                      readVars>>

(* Are there errors since a function was called? *)
ErrorsSince(n) == errors > n \/ errors = MaxErrors

-----------------------------------------------------------------------------
(* parse_value: containers are read by the loops below, all else at once.  *)
TakeScalar(value) ==
  /\ at' = value.at
  /\ do' = IF value.ok THEN "ok" ELSE "err"
  /\ val' = IF value.ok THEN value.value ELSE val
  /\ UNCHANGED stack

ReadGuessed(guess) ==
  CASE guess = {"array"} ->
         /\ Call("parse_array", skip_multiline_spacer(text, at + 1))
         /\ val' = Value("array", <<>>)
    [] guess = {"table"} ->
         /\ Call("parse_inline_table", skip_whitespace(text, at + 1))
         /\ val' = Value("table", <<>>)
    [] OTHER -> TakeScalar(Guessed(guess, text, at))

ReadValue ==
  /\ do = "read"
  /\ ReadGuessed(guess_value_type(text, at))
  /\ NoError
  /\ UNCHANGED <<text, pc, since, here, dropped, newline_found, keysRead>>
  /\ UNCHANGED <<nodes, kind, keys, current, inserted>>

(* The value of a container is its type. *)
ReturnValue(type, outcome, place) ==
  /\ Return(outcome, place)
  /\ val' = Value(type, <<>>)
  /\ UNCHANGED <<text, pc, since, here, dropped, newline_found, keysRead>>
  /\ UNCHANGED <<nodes, kind, keys, current, inserted>>

(* Behind the loop of parse_array: the closing bracket, if it is there. *)
LeaveArray ==
  IF Looking(text, at, "]")
    THEN ReturnValue("array", IF ErrorsSince(Top.since) THEN "err" ELSE "ok", at + 1)
    ELSE ReturnValue("array", "err", at)

ArrayStep ==
  /\ InCall("parse_array")
  /\ do = "go"
  /\ \/ /\ AtEnd(text, at) \/ Looking(text, at, "]")
        /\ LeaveArray
     \/ /\ ~AtEnd(text, at) /\ ~Looking(text, at, "]")
        /\ IF Top.comma THEN Continue("read", at, Top) /\ InFile
                        ELSE ReturnValue("array", "err", at)
  /\ NoError

(* An element, and what may come before and after a comma. *)
ArrayElement ==
  /\ InCall("parse_array")
  /\ do = "ok"
  /\ LET space == skip_multiline_spacer(text, at)
         next == Separated(text, space)
     IN /\ Continue("go", next.at, [Top EXCEPT !.comma = Looking(text, space, ",")])
        /\ report_error(IF next.ok THEN 0 ELSE 1)
  /\ InFile

ArrayElementFails ==
  /\ InCall("parse_array")
  /\ do = "err"
  /\ Continue("skip", at, [Top EXCEPT !.mark = at])
  /\ report_error(1)
  /\ InFile

(* Slip: what could not be skipped is tried again. *)
ArrayRetries ==
  /\ InCall("parse_array")
  /\ do = "skipped"
  /\ Continue("go", at, Top)
  /\ InFile
  /\ NoError

(* What cannot be skipped is no value: the bracket must be missing. *)
ArrayAfterSkip ==
  /\ InCall("parse_array")
  /\ do = "skipped"
  /\ \/ at = Top.mark /\ LeaveArray
     \/ at # Top.mark /\ Continue("go", at, Top) /\ InFile
  /\ NoError

-----------------------------------------------------------------------------
(* parse_inline_table.  The errors of one are reported by its caller: the  *)
(* last is taken back.                                                     *)
ErrorsOfTable == errors > Top.since \/ errors = MaxErrors

LeaveInlineTable(found) ==
  IF found
    THEN /\ ReturnValue("table", IF ErrorsOfTable THEN "err" ELSE "ok", at + 1)
         /\ errors' = IF ErrorsOfTable THEN errors - 1 ELSE errors
    ELSE ReturnValue("table", "err", at) /\ NoError

InlineKeys(head) ==
  IF head.ok
    THEN Continue("read", head.at, [Top EXCEPT !.empty = FALSE, !.keys = head.value])
    ELSE Continue("err", at, [Top EXCEPT !.empty = FALSE])

InlineTableStep ==
  /\ InCall("parse_inline_table")
  /\ do = "go"
  /\ \/ AtEnd(text, at) /\ LeaveInlineTable(FALSE)
     \/ Looking(text, at, "}") /\ LeaveInlineTable(~Top.comma)
     \/ /\ ~AtEnd(text, at) /\ ~Looking(text, at, "}")
        /\ IF ~Top.comma /\ ~Top.empty
             THEN LeaveInlineTable(FALSE)
             ELSE InlineKeys(PairKeys(text, at)) /\ NoError /\ InFile

(* A key that is taken: up to the next pair. *)
InlinePair ==
  /\ InCall("parse_inline_table")
  /\ do = "ok"
  /\ LET space == skip_whitespace(text, at)
         found == Looking(text, space, ",")
         past == NextOf(CharSet(",}") \cup {LF}, text, at)
     IN IF Clashes(Top.keys, Top.pairs)
          THEN /\ Continue("go", past,
                    [Top EXCEPT !.comma = IF AtEnd(text, past) THEN Top.comma
                                          ELSE Looking(text, past, ",")])
               /\ report_error(1)
          ELSE /\ Continue("go",
                    skip_whitespace(text, IF found THEN space + 1 ELSE space),
                    [Top EXCEPT !.comma = found,
                                !.pairs = Append(Top.pairs, <<Top.keys, <<>>>>)])
               /\ NoError
  /\ InFile

(* Up to the closing brace; its own error is the one it takes back. *)
InlinePairFails ==
  /\ InCall("parse_inline_table")
  /\ do = "err"
  /\ LET past == NextOf(CharSet("}") \cup {LF}, text, at)
     IN IF Looking(text, past, "}")
          THEN ReturnValue("table", "err", past + 1) /\ NoError
          ELSE ReturnValue("table", "err", past) /\ report_error(1)

-----------------------------------------------------------------------------
(* skip_value and the functions below it *)

SkipValue ==
  /\ do = "skip"
  /\ LET guess == guess_value_type(text, at)
     IN CASE guess = {"array"} -> Call("skip_array_like", at + 1)
          [] guess = {"table"} -> Call("skip_inline_table_like", at + 1)
          [] OTHER ->
               /\ at' = IF guess = {"string"} THEN skip_string_like(text, at)
                        ELSE NextOf(CharSet(",]}") \cup {LF}, text, at)
               /\ do' = "skipped"
               /\ UNCHANGED stack
  /\ NoError
  /\ InFile

(* An `=` cannot be inside an array: the reader goes back to the beginning *)
(* of its line.                                                            *)
SkipArrayStep ==
  /\ InCall("skip_array_like")
  /\ do \in {"go", "skipped", "commented"}
  /\ CASE AtEnd(text, at) \/ Looking(text, at, "]") -> Return("skipped", at)
       [] Quoted(text, at) -> Continue("go", skip_string_like(text, at), Top)
       [] Looking(text, at, "#") -> Call("skip_comment_block", at)
       [] Looking(text, at, "{") -> Call("skip_inline_table_like", at + 1)
       [] Looking(text, at, "[") ->
            IF IsHeader(text, at) THEN Return("skipped", at)
                                  ELSE Call("skip_array_like", at + 1)
       [] Looking(text, at, "=") -> Return("skipped", LineOf(text, at))
       [] OTHER -> Continue("go", Advanced(text, at), Top)
  /\ NoError
  /\ InFile

SkipInlineTableStep ==
  /\ InCall("skip_inline_table_like")
  /\ do \in {"go", "skipped", "commented"}
  /\ CASE \/ do = "commented"
          \/ AtEnd(text, at) \/ Current(text, at) = LF
          \/ Looking(text, at, "}") -> Return("skipped", at)
       [] Quoted(text, at) -> Continue("go", skip_string_like(text, at), Top)
       [] Looking(text, at, "#") -> Call("skip_comment_block", at)
       [] Looking(text, at, "{") -> Call("skip_inline_table_like", at + 1)
       [] Looking(text, at, "[") ->
            IF IsHeader(text, at) THEN Return("skipped", at)
                                  ELSE Call("skip_array_like", at + 1)
       [] OTHER -> Continue("go", Advanced(text, at), Top)
  /\ NoError
  /\ InFile

(* The loop over a comment leaves a character only when it is a newline:   *)
(* at the # it stays.                                                      *)
SkipCommentStep ==
  /\ InCall("skip_comment_block")
  /\ do = "go"
  /\ LET blank == skip_whitespace(text, at)
         line == Scan(newline, text, blank)
     IN CASE AtEnd(text, at) -> Return("commented", at)
          [] Looking(text, blank, "#") -> Continue("go", blank, Top)
          [] line # NoMatch -> Continue("go", line, Top)
          [] OTHER -> Return("commented", blank)
  /\ NoError
  /\ InFile

-----------------------------------------------------------------------------
(* parse_table, called from parse_file *)

InTable == pc = "table" /\ stack = <<>> /\ Idle
OutOfCalls == UNCHANGED <<text, stack>>

(* With an error, it is up to the caller to find the next table. *)
LeaveTable(failed, place) ==
  /\ pc' = "headers"
  /\ at' = IF failed THEN skip_until_next_table(text, place) ELSE place
  /\ UNCHANGED <<do, since, here, dropped, newline_found, keysRead, readVars>>

(* Slip: a pair may follow a pair on its line. *)
NewLineAnyway(s, i, space) == TRUE

NewLine(s, i, space) == newline_found \/ LF \in Range(Between(s, i, space))

TakeKeys(space, head) ==
  /\ at' = IF head.ok THEN head.at ELSE space
  /\ do' = IF head.ok THEN "read" ELSE "err"
  /\ keysRead' = IF head.ok THEN head.value ELSE <<>>
  /\ newline_found' = FALSE
  /\ UNCHANGED <<pc, since, here, dropped, readVars>>

TableFrom(space) ==
  CASE AtEnd(text, space) -> LeaveTable(ErrorsSince(since), space) /\ NoError
    [] Looking(text, skip_whitespace(text, space), "[") ->
         LeaveTable(ErrorsSince(since), at) /\ NoError
    [] OTHER ->
         IF NewLine(text, at, space)
           THEN TakeKeys(space, PairKeys(text, space)) /\ NoError
           ELSE LeaveTable(TRUE, space) /\ report_error(1)

TableStep ==
  /\ InTable
  /\ do = "go"
  /\ TableFrom(skip_multiline_spacer(text, at))
  /\ OutOfCalls

(* A pair goes into the table at hand, step by step; in one that is to be  *)
(* dropped it is no more than compared with the pairs before it.           *)
DroppedErrors == IF here = 0 /\ Clashes(keysRead, dropped) THEN 1 ELSE 0

PlacePair ==
  \/ /\ here # 0
     /\ pc' = "pair"
     /\ Insert("dotted_keys", here, keysRead, val)
     /\ UNCHANGED dropped
  \/ /\ here = 0
     /\ dropped' = IF Clashes(keysRead, dropped) THEN dropped
                   ELSE Append(dropped, <<keysRead, <<>>>>)
     /\ UNCHANGED <<pc, readVars>>

TablePair ==
  /\ InTable
  /\ do = "ok"
  /\ LET line == parse_comment_line(text, at)
     IN /\ at' = line.at
        /\ newline_found' = (line.ok /\ line.at # at)
        /\ report_error(DroppedErrors + IF line.ok THEN 0 ELSE 1)
  /\ do' = "go"
  /\ PlacePair
  /\ UNCHANGED <<since, here, keysRead>>
  /\ OutOfCalls

PairInserted ==
  /\ pc = "pair"
  /\ Idle
  /\ report_error(IF inserted = "ok" THEN 0 ELSE 1)
  /\ pc' = "table"
  /\ UNCHANGED <<at, do, since, here, dropped, newline_found, keysRead, readVars>>
  /\ OutOfCalls

(* skip_key_value_pair: the value after the next `=`, if that is on the    *)
(* line.                                                                   *)
TablePairFails ==
  /\ InTable
  /\ do = "err"
  /\ LET past == NextOf(CharSet("=") \cup {LF}, text, at)
     IN /\ at' = past
        /\ do' = IF Looking(text, past, "=") THEN "skip" ELSE "go"
  /\ report_error(1)
  /\ UNCHANGED <<pc, since, here, dropped, newline_found, keysRead, readVars>>
  /\ OutOfCalls

TableAfterSkip ==
  /\ InTable
  /\ do = "skipped"
  /\ do' = "go"
  /\ UNCHANGED <<at, pc, errors, since, here, dropped, newline_found, keysRead,
                 readVars>>
  /\ OutOfCalls

-----------------------------------------------------------------------------
(* parse_file *)

BeginTable(table, place) ==
  /\ pc' = "table"
  /\ here' = table
  /\ dropped' = <<>>
  /\ at' = place
  /\ newline_found' = TRUE
  /\ since' = errors'

(* A byte order mark is skipped: the document begins behind it. *)
ByteOrderMark == <<239, 187, 191>>

First(s) == IF IsPrefix(ByteOrderMark, s) THEN 4 ELSE 1

bodyVars == <<pc, since, here, dropped, newline_found>>

(* The comments at the top; without one, what stands there is read again.  *)
TopStep ==
  /\ pc = "top"
  /\ stack = <<>>
  /\ LET line == parse_comment_line(text, at)
         blank == Scan(Sequence(<<ws, newline>>), text, at)
         moved == line.at # at
     IN \/ /\ AtEnd(text, at)
           /\ NoError
           /\ BeginTable(1, at) /\ UNCHANGED <<stack, do>>
        \/ /\ ~AtEnd(text, at) /\ line.ok
           /\ NoError
           /\ IF moved
                THEN at' = line.at /\ UNCHANGED bodyVars
                ELSE BeginTable(1, IF blank = NoMatch THEN First(text) ELSE blank)
           /\ UNCHANGED <<stack, do>>
        \/ /\ ~AtEnd(text, at) /\ ~line.ok
           /\ report_error(1)
           /\ Call("skip_comment_block", line.at)
           /\ UNCHANGED bodyVars
  /\ do = "go"
  /\ UNCHANGED <<text, keysRead, readVars>>

TopAfterSkip ==
  /\ pc = "top"
  /\ stack = <<>>
  /\ do = "commented"
  /\ do' = "go"
  /\ UNCHANGED <<text, at, pc, stack, errors, since, here, dropped, newline_found,
                 keysRead, readVars>>

(* parse_array_table_key and parse_table_key: the header is scanned, then  *)
(* its keys are read.                                                      *)
HeaderKey(g, brackets, s, i) ==
  IF ~Matches(g, s, i) THEN Err(i)
  ELSE Then(parse_key(s, skip_whitespace(s, i + brackets)), LAMBDA read :
         Ok(skip_whitespace(s, read.at) + brackets, read.value))

parse_array_table_key(s, i) == HeaderKey(array_table, 2, s, i)
parse_table_key(s, i) == HeaderKey(std_table, 1, s, i)

(* A header is followed by a comment, or by a newline or the end. *)
BlankEnd(s, blank) ==
  CASE AtEnd(s, blank)        -> Ok(blank, <<>>)
    [] Matches(newline, s, blank) -> Ok(Scan(newline, s, blank), <<>>)
    [] OTHER                  -> Err(blank)

LineEnd(s, i) ==
  Then(parse_comment_line(s, i), LAMBDA line :
    IF line.at # i THEN line ELSE BlankEnd(s, skip_whitespace(s, i)))

HeaderFails(place) ==
  /\ report_error(1)
  /\ at' = skip_until_next_table(text, place)
  /\ UNCHANGED <<pc, keysRead, readVars>>

Header(k, path, end) ==
  IF ~end.ok THEN HeaderFails(end.at)
  ELSE /\ Insert(k, 1, path, val)
       /\ at' = end.at
       /\ pc' = "header"
       /\ keysRead' = path
       /\ NoError

TryTable(table) ==
  IF table.ok THEN Header("std_table", table.value, LineEnd(text, table.at))
  ELSE HeaderFails(table.at)

TryArrayTable(array) ==
  IF array.ok THEN Header("array_table", array.value, LineEnd(text, array.at))
  ELSE TryTable(parse_table_key(text, array.at))

HeaderStep ==
  /\ pc = "headers"
  /\ ~AtEnd(text, at)
  /\ TryArrayTable(parse_array_table_key(text, skip_multiline_spacer(text, at)))
  /\ UNCHANGED <<text, do, stack, since, here, dropped, newline_found>>

(* Slip: what stands below a header that was refused goes where the search *)
(* for its place had come to.                                              *)
HeaderInsertedAnyway ==
  /\ pc = "header"
  /\ Idle
  /\ report_error(IF inserted = "ok" THEN 0 ELSE 1)
  /\ BeginTable(current, at)
  /\ UNCHANGED <<text, do, stack, keysRead, readVars>>

(* A table that is refused is read all the same, to be dropped. *)
HeaderInserted ==
  /\ pc = "header"
  /\ Idle
  /\ report_error(IF inserted = "ok" THEN 0 ELSE 1)
  /\ BeginTable(IF inserted = "ok" THEN current ELSE 0, at)
  /\ UNCHANGED <<text, do, stack, keysRead, readVars>>

FileEnds ==
  /\ pc = "headers"
  /\ AtEnd(text, at)
  /\ pc' = "done"
  /\ UNCHANGED <<text, at, do, stack, errors, since, here, dropped, newline_found,
                 keysRead, readVars>>

-----------------------------------------------------------------------------
(* parse_impl: the last line is given its newline. *)
Terminated(content) ==
  IF content = <<>> \/ content[Len(content)] \in {LF, CR}
    THEN content ELSE Append(content, LF)

parse_impl(content) ==
  /\ text' = Terminated(content)
  /\ at' = First(text')
  /\ pc' = IF AtEnd(text', First(text')) THEN "done" ELSE "top"
  /\ UNCHANGED <<do, stack, errors, since, here, dropped, newline_found, keysRead>>
  /\ UNCHANGED readVars

insert_steps == insert_value /\ UNCHANGED fileVars

parse_file ==
  \/ ReadValue
  \/ ArrayStep \/ ArrayElement \/ ArrayElementFails \/ ArrayAfterSkip
  \/ InlineTableStep \/ InlinePair \/ InlinePairFails
  \/ SkipValue \/ SkipArrayStep \/ SkipInlineTableStep \/ SkipCommentStep
  \/ TableStep \/ TablePair \/ PairInserted \/ TablePairFails \/ TableAfterSkip
  \/ TopStep \/ TopAfterSkip
  \/ HeaderStep \/ HeaderInserted \/ FileEnds
  \/ insert_steps

Rejected == errors > 0

=============================================================================
