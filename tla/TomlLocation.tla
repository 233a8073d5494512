---------------------------- MODULE TomlLocation ----------------------------
(***************************************************************************)
(* Where in a text the reader is, and how an error shows it: location,     *)
(* region, source_location and format_location_impl of                     *)
(* src/include/obsc/toml11.h.  A location carries its line number along,   *)
(* adding and taking away the newlines it moves over; a column is counted  *)
(* anew each time.  All of them are std::size_t.                           *)
(*                                                                         *)
(* Of a report there is left what says where: the lines shown, with their  *)
(* numbers, and the characters underlined.                                 *)
(***************************************************************************)
EXTENDS TomlReading

(* Arithmetic on std::size_t *)
Size_t(n) == n % (2^Width)

Newlines(s, i, j) == Cardinality({k \in i..(j - 1) : s[k] = LF})

-----------------------------------------------------------------------------
(* location *)

Location(at, line) == [at |-> at, line |-> line]
Start == Location(1, 1)

advance_line_number(s, loc, n) == loc.line + Newlines(s, loc.at, loc.at + n)

(* Slip: the newline at the location itself is taken for one behind it. *)
RetraceOwnNewline(s, loc, n) ==
  LET lines == Newlines(s, loc.at - n, Min({loc.at + 1, Len(s) + 1}))
  IN IF loc.line <= lines THEN 1 ELSE loc.line - lines

retrace_line_number(s, loc, n) ==
  LET lines == Newlines(s, loc.at - n, loc.at)
  IN IF loc.line <= lines THEN 1 ELSE loc.line - lines

(* No further than the end, *)
advance(s, loc, n) ==
  LET steps == Min({n, Len(s) + 1 - loc.at})
  IN Location(loc.at + steps, advance_line_number(s, loc, steps))

(* and no further back than the start. *)
retrace(s, loc, n) ==
  IF loc.at <= n THEN Start
  ELSE Location(loc.at - n, retrace_line_number(s, loc, n))

set_location(s, loc, at) ==
  CASE at = loc.at -> loc
    [] at # loc.at /\ at = 1 -> Start
    [] loc.at < at -> Location(at, advance_line_number(s, loc, at - loc.at))
    [] OTHER -> Location(at, retrace_line_number(s, loc, loc.at - at))

column_number(s, loc) ==
  loc.at - Max({0} \cup {k \in 1..(loc.at - 1) : s[k] = LF})

-----------------------------------------------------------------------------
(* region and source_location *)

region(s, first, last) ==
  [length |-> last.at - first.at,
   first |-> first.at, first_line |-> first.line,
   first_column |-> column_number(s, first),
   last |-> last.at, last_line |-> last.line,
   last_column |-> column_number(s, last)]

(* What the constructor gives the only place of a text without any *)
Nowhere ==
  [length |-> 0, first |-> 1, first_line |-> 0, first_column |-> 0,
   last |-> 1, last_line |-> 0, last_column |-> 0]

(* One character, the last one when loc is at the end *)
region_at(s, loc) ==
  CASE s = <<>> -> Nowhere
    [] AtEnd(s, loc.at) /\ s # <<>> -> region(s, retrace(s, loc, 1), loc)
    [] OTHER ->
         [region(s, loc, loc) EXCEPT !.length = 1, !.last = @ + 1, !.last_column = @ + 1]

(* std::getline: no line after the last newline *)
LinesOf(t) ==
  LET breaks == {k \in DOMAIN t : t[k] = LF}
      ends == SetToSortSeq(IF t[Len(t)] = LF THEN breaks ELSE breaks \cup {Len(t) + 1}, <)
  IN [k \in DOMAIN ends |-> Between(t, IF k = 1 THEN 1 ELSE ends[k - 1] + 1, ends[k])]

WholeLines(s, first, last) ==
  LET before == {k \in 1..(first - 1) : s[k] = LF}
      after == {k \in last..Len(s) : s[k] = LF}
      t == Between(s, Max({0} \cup before) + 1, Min({Len(s) + 1} \cup after))
  IN IF t = <<>> THEN <<t>> ELSE LinesOf(t)

(* Slip: the newline that ends the last line is looked for behind the region. *)
as_lines_beyond(s, r) ==
  IF r.length = 0 THEN <<<<>>>> ELSE WholeLines(s, r.first, r.last)

(* The lines the region touches, in full *)
as_lines(s, r) ==
  IF r.length = 0 THEN <<<<>>>> ELSE WholeLines(s, r.first, r.last - 1)

-----------------------------------------------------------------------------
(* format_location_impl *)

(* A line, and below it so many blanks and so many `^` *)
Shown(number, line, column, marks) ==
  [number |-> number, line |-> line,
   blanks |-> Size_t(column - 1), marks |-> Size_t(marks)]

(* To the end of the line, *)
ToEnd(line, column) == Size_t(Len(line) - column + 1)

(* or one beyond it when the column is that of the newline *)
UnderlineLimit(line, column) ==
  IF Len(line) < column THEN 1 ELSE ToEnd(line, column)

(* Of more than three lines all but the first and the last become `...`. *)
format_location_impl(r, lines) ==
  LET n == Len(lines)
      only == Shown(r.first_line, lines[1], r.first_column,
                    Min({UnderlineLimit(lines[1], r.first_column), r.length}))
      first == Shown(r.first_line, lines[1], r.first_column,
                     ToEnd(lines[1], r.first_column))
      second == Shown(r.first_line + 1, lines[2], 1, Len(lines[2]))
      last == Shown(r.last_line, lines[n], 1, r.last_column)
  IN CASE n = 1 -> <<only>>
       [] n = 3 -> <<first, second, last>>
       [] OTHER -> <<first, last>>

Report(s, r) == format_location_impl(r, as_lines(s, r))

=============================================================================
