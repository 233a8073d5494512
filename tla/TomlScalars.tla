----------------------------- MODULE TomlScalars -----------------------------
(***************************************************************************)
(* The arithmetic in the parse functions of src/include/obsc/toml11.h: the *)
(* calendar, a binary integer digit by digit, and the bytes of a character *)
(* given by its number.                                                    *)
(***************************************************************************)
EXTENDS Integers, Sequences

(* Dates *)

IsLeap(year) == year % 4 = 0 /\ (year % 100 # 0 \/ year % 400 = 0)

MaxDay(month, year) ==
  CASE month = 2             -> IF IsLeap(year) THEN 29 ELSE 28
    [] month \in {4, 6, 9, 11} -> 30
    [] OTHER                 -> 31

-----------------------------------------------------------------------------
(* Binary integers of a signed type whose greatest value is max *)

(* A signed overflow wraps around in practice. *)
Wrapped(n, max) == ((n + max + 1) % (2 * max + 2)) - (max + 1)

(* Slip: base is doubled beyond the last digit too. *)
NextBaseEager(base, last, max) ==
  IF max \div 2 < base THEN 0 ELSE Wrapped(2 * base, max)

(* base becomes 0 when a digit is left that has no room. *)
NextBase(base, last, max) ==
  IF max \div 2 < base /\ ~last THEN 0 ELSE Wrapped(2 * base, max)

BinaryStart == [val |-> 0, base |-> 1]

BinaryDigit(r, one, last, max) ==
  [val  |-> IF one THEN r.val + r.base ELSE r.val,
   base |-> NextBase(r.base, last, max)]

-----------------------------------------------------------------------------
(* Characters *)

(* Slip: the upper half of the basic plane is not told from surrogates. *)
EncodableAll(codepoint) == codepoint < 1114112

Encodable(codepoint) ==
  codepoint < 1114112 /\ ~(55296 <= codepoint /\ codepoint <= 57343)

(* The bytes of a code point, the last ones holding six bits each. *)
Low6(n) == 128 + (n % 64)

parse_utf8_codepoint(codepoint) ==
  CASE codepoint < 128 -> <<codepoint>>
    [] 128 <= codepoint /\ codepoint < 2048 ->
         <<192 + codepoint \div 64, Low6(codepoint)>>
    [] 2048 <= codepoint /\ codepoint < 65536 ->
         <<224 + codepoint \div 4096, Low6(codepoint \div 64), Low6(codepoint)>>
    [] OTHER ->
         <<240 + codepoint \div 262144, Low6(codepoint \div 4096),
           Low6(codepoint \div 64), Low6(codepoint)>>

-----------------------------------------------------------------------------
(* What UTF-8 is, said from the bytes: a first one that tells how many     *)
(* there are, and six bits in each other.                                  *)

(* The bytes a character of n bytes may begin with are from..to, from of   *)
(* which is not part of its number; the least number it may then have.     *)
Leads ==
  <<[from |-> 0,   to |-> 127, least |-> 0],
    [from |-> 192, to |-> 223, least |-> 128],
    [from |-> 224, to |-> 239, least |-> 2048],
    [from |-> 240, to |-> 247, least |-> 65536]>>

Continues(byte) == 128 <= byte /\ byte < 192
Carried(byte) == byte - 128

CodePoint(t) ==
  LET first == t[1] - Leads[Len(t)].from
  IN CASE Len(t) = 1 -> first
       [] Len(t) = 2 -> 64 * first + Carried(t[2])
       [] Len(t) = 3 -> 64 * (64 * first + Carried(t[2])) + Carried(t[3])
       [] Len(t) = 4 ->
            64 * (64 * (64 * first + Carried(t[2])) + Carried(t[3])) + Carried(t[4])

IsCharacter(t) ==
  /\ Len(t) \in 1..4
  /\ Leads[Len(t)].from <= t[1] /\ t[1] <= Leads[Len(t)].to
  /\ \A k \in 2..Len(t) : Continues(t[k])
  /\ CodePoint(t) >= Leads[Len(t)].least /\ CodePoint(t) < 1114112
  /\ ~(55296 <= CodePoint(t) /\ CodePoint(t) <= 57343)

=============================================================================
