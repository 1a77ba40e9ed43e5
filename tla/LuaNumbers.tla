----------------------------- MODULE LuaNumbers -----------------------------
(***************************************************************************)
(* The number <-> text conversions between the Go client, Redis hashes and *)
(* the Lua bid script.                                                     *)
(*                                                                         *)
(* A text that holds a number is a record: "val" is the number Lua's       *)
(* tonumber reads back from it and "plain" says whether it is a plain      *)
(* decimal integer, the only form Go's strconv.ParseInt accepts.           *)
(*                                                                         *)
(* Lua 5.1's tostring prints a number with "%.14g": fourteen significant   *)
(* digits, and exponent notation from 10^14 on.  SigLimit is that bound,   *)
(* 10^14 in a Redis server and a small power of ten in the models; numbers *)
(* are below 10 * SigLimit, so at most one digit is rounded away.          *)
(***************************************************************************)
EXTENDS Integers

CONSTANT SigLimit

ASSUME SigLimitAssumption == SigLimit \in Nat /\ SigLimit > 0

NumText == [val : Int, plain : BOOLEAN]

\* Numbers that "%.14g" prints digit for digit.
Exact(n) == -SigLimit < n /\ n < SigLimit

\* n to the nearest multiple of ten, ties to the even digit (printf rounding).
RoundTen(n) ==
  LET q == n \div 10
      r == n % 10
  IN  IF r < 5 \/ (r = 5 /\ q % 2 = 0) THEN 10 * q ELSE 10 * (q + 1)

\* An integer argument written by go-redis: its exact decimal digits.
Decimal(n) == [val |-> n, plain |-> TRUE]

\* Lua tostring(n).
Tostring(n) ==
  IF Exact(n) THEN Decimal(n) ELSE [val |-> RoundTen(n), plain |-> FALSE]

\* Lua tonumber(t).
Tonumber(t) == t.val

\* Go parseInt64: the error of strconv.ParseInt is dropped and 0 is returned.
ParseInt64(t) == IF t.plain THEN t.val ELSE 0

=============================================================================
