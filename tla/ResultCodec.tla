---------------------------- MODULE ResultCodec -----------------------------
(***************************************************************************)
(* The text in which the bid script returns and caches a result, seven     *)
(* fields with "|" between them, and how the Go side reads it.             *)
(*                                                                         *)
(* A text is the sequence of the pieces between its separators: joining    *)
(* fields is concatenation, and a user id that itself holds separators     *)
(* brings several pieces.  A piece has a number text when it is a number   *)
(* (see LuaNumbers) and is a word otherwise; a word is not a number.       *)
(***************************************************************************)
EXTENDS LuaNumbers, Sequences

CONSTANT Words   \* texts without a separator

Reasons == {"accepted", "bid_too_low", "auction_ended", "auction_closed",
            "auction_not_found"}

ASSUME WordsAssumption == {"", "0", "1", "#", "id", "rest"} \cup Reasons \subseteq Words

Piece == [word : Words, num : NumText]

Word(w) == [word |-> w, num |-> [val |-> 0, plain |-> FALSE]]
Number(t) == [word |-> "#", num |-> t]

\* The id XADD gives the n-th event of the stream, and "" for none.  An id
\* such as 17-0 is no decimal integer.
EventId(n) == [word |-> IF n = 0 THEN "" ELSE "id",
               num |-> [val |-> n, plain |-> FALSE]]

\* A user id, as the words between its separators; the empty one is one word.
UserText(user) == [i \in 1 .. Len(user) |-> Word(user[i])]
NoUser == <<"">>

encode(accepted, reason, price, winner, version, event, nowMs) ==
  <<Word(accepted), Word(reason), Number(Tostring(price))>> \o UserText(winner)
    \o <<Number(Tostring(version)), EventId(event), Number(Tostring(nowMs))>>

\* strings.SplitN(text, "|", n): what follows the last cut stays one text,
\* separators included.
SplitN(text, n) ==
  IF Len(text) <= n THEN text
  ELSE SubSeq(text, 1, n - 1) \o <<Word("rest")>>

decodeCachedResult(text) ==
  LET parts == SplitN(text, 7) IN
  [accepted |-> parts[1].word = "1",
   reason |-> parts[2].word,
   price |-> ParseInt64(parts[3].num),
   winner |-> <<parts[4].word>>,
   version |-> ParseInt64(parts[5].num),
   event |-> parts[6],
   ts |-> ParseInt64(parts[7].num)]

=============================================================================
