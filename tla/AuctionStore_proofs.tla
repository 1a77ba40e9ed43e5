------------------------ MODULE AuctionStore_proofs -------------------------
(***************************************************************************)
(* Proofs about the bid store, for any callers, requests, number of calls, *)
(* retries and commands in flight.                                         *)
(***************************************************************************)
EXTENDS AuctionStore, TLAPS

-----------------------------------------------------------------------------
(* The operators of the script.                                            *)

\* A number printed by the script is a number text.
LEMMA TostringType == \A n \in Int : Tostring(n) \in NumText /\ Decimal(n) \in NumText
  BY SigLimitAssumption DEF Tostring, Decimal, NumText, Exact, RoundTen

\* Below the precision of tostring the number survives the conversion.
LEMMA TostringExact ==
  \A n \in Int : Exact(n) => Tonumber(Tostring(n)) = n
  BY DEF Tostring, Decimal, Tonumber

\* The pieces of an encoded result.
LEMMA PieceType ==
  /\ \A w \in Words : Word(w) \in Piece
  /\ \A n \in Int : Number(Tostring(n)) \in Piece /\ EventId(n) \in Piece
<1>1. {"", "#", "id"} \subseteq Words
  BY WordsAssumption
<1>2. \A n \in Int : [val |-> n, plain |-> FALSE] \in NumText
  BY DEF NumText
<1>3. ASSUME NEW w \in Words PROVE Word(w) \in Piece
  BY <1>2 DEF Word, Piece
<1>4. ASSUME NEW n \in Int
      PROVE  Number(Tostring(n)) \in Piece /\ EventId(n) \in Piece
  BY <1>1, <1>2, TostringType DEF Number, EventId, Piece
<1> QED  BY <1>3, <1>4

\* The user ids, the empty one included, are texts of at least one word.
LEMMA UserType ==
  ASSUME NEW user \in Users \cup {NoUser}
  PROVE  user \in Seq(Words) /\ user # << >>
<1>1. CASE user = NoUser
  <2>1. "" \in Words
    BY WordsAssumption
  <2>2. ASSUME NEW w \in Words PROVE <<w>> \in Seq(Words) /\ <<w>> # << >>
    OBVIOUS
  <2>3. NoUser \in Seq(Words) /\ NoUser # << >>
    BY <2>1, <2>2, Zenon DEF NoUser
  <2> QED  BY <1>1, <2>3, Zenon
<1>2. CASE user \in Users
  BY <1>2, RequestAssumption DEF Users
<1> QED  BY <1>1, <1>2

\* The elements of a concatenation.
LEMMA ConcatParts ==
  ASSUME NEW S, NEW s \in Seq(S), NEW t \in Seq(S), NEW u, u = s \o t
  PROVE  /\ u \in Seq(S) /\ Len(u) = Len(s) + Len(t)
         /\ \A i \in 1 .. Len(s) : u[i] = s[i]
         /\ \A i \in 1 .. Len(t) : u[Len(s) + i] = t[i]
<1>1. u \in Seq(S) /\ Len(u) = Len(s) + Len(t)
  OBVIOUS
<1>2. ASSUME NEW i \in 1 .. Len(s) PROVE u[i] = s[i]
  OBVIOUS
<1>3. ASSUME NEW i \in 1 .. Len(t) PROVE u[Len(s) + i] = t[i]
  OBVIOUS
<1> QED  BY <1>1, <1>2, <1>3

\* Where encode puts its seven fields.
Encodes(text, accepted, reason, price, winner, version, event, nowMs) ==
  /\ text \in Seq(Piece) /\ Len(text) = 6 + Len(winner)
  /\ text[1] = Word(accepted) /\ text[2] = Word(reason)
  /\ text[3] = Number(Tostring(price))
  /\ text[4] = Word(winner[1])
  /\ text[Len(winner) + 4] = Number(Tostring(version))
  /\ text[Len(winner) + 5] = EventId(event)
  /\ text[Len(winner) + 6] = Number(Tostring(nowMs))

\* A user id of k words moves the three fields behind it to the places k + 4,
\* k + 5 and k + 6.
LEMMA EncodePieces ==
  ASSUME NEW accepted \in {"0", "1"}, NEW reason \in Reasons, NEW price \in Int,
         NEW winner \in Seq(Words), winner # << >>, NEW version \in Nat,
         NEW event \in Nat, NEW nowMs \in Nat
  PROVE  Encodes(encode(accepted, reason, price, winner, version, event, nowMs),
                 accepted, reason, price, winner, version, event, nowMs)
<1> DEFINE front == <<Word(accepted), Word(reason), Number(Tostring(price))>>
           user == UserText(winner)
           back == <<Number(Tostring(version)), EventId(event),
                     Number(Tostring(nowMs))>>
           half == front \o user
           text == encode(accepted, reason, price, winner, version, event, nowMs)
<1>1. Len(winner) \in Nat \ {0}
  OBVIOUS
<1>2. user \in Seq(Piece) /\ Len(user) = Len(winner) /\ user[1] = Word(winner[1])
  <2>1. ASSUME NEW i \in 1 .. Len(winner) PROVE Word(winner[i]) \in Piece
    <3>1. winner[i] \in Words
      OBVIOUS
    <3> QED  BY <3>1, PieceType
  <2> QED  BY <1>1, <2>1 DEF UserText
<1>3. front \in Seq(Piece) /\ Len(front) = 3
  <2>1. Word(accepted) \in Piece /\ Word(reason) \in Piece
    BY PieceType, WordsAssumption
  <2> QED  BY <2>1, PieceType
<1>4. back \in Seq(Piece) /\ Len(back) = 3
  BY PieceType
<1>5. /\ front[1] = Word(accepted) /\ front[2] = Word(reason)
      /\ front[3] = Number(Tostring(price))
      /\ back[1] = Number(Tostring(version)) /\ back[2] = EventId(event)
      /\ back[3] = Number(Tostring(nowMs))
  OBVIOUS
<1>6. half = front \o user
  OBVIOUS
<1>7. text = half \o back
  BY DEF encode
<1> HIDE DEF front, user, back, half, text
<1>8. /\ half \in Seq(Piece) /\ Len(half) = Len(front) + Len(user)
      /\ \A i \in 1 .. Len(front) : half[i] = front[i]
      /\ \A i \in 1 .. Len(user) : half[Len(front) + i] = user[i]
  <2>1. front \in Seq(Piece) /\ user \in Seq(Piece) /\ half = front \o user
    BY <1>2, <1>3, <1>6, Zenon
  <2> QED  BY <2>1, ConcatParts
<1>9. /\ text \in Seq(Piece) /\ Len(text) = Len(half) + Len(back)
      /\ \A i \in 1 .. Len(half) : text[i] = half[i]
      /\ \A i \in 1 .. Len(back) : text[Len(half) + i] = back[i]
  <2>1. half \in Seq(Piece) /\ back \in Seq(Piece) /\ text = half \o back
    BY <1>4, <1>7, <1>8, Zenon
  <2> QED  BY <2>1, ConcatParts
<1>10. Len(half) = Len(winner) + 3 /\ half[4] = user[1]
  BY <1>1, <1>2, <1>3, <1>8
<1>11. \A i \in 1 .. 4 : text[i] = half[i]
  BY <1>1, <1>9, <1>10
<1>12. \A i \in 1 .. 3 : text[Len(winner) + 3 + i] = back[i]
  BY <1>4, <1>9, <1>10
<1>13. /\ text[1] = front[1] /\ text[2] = front[2] /\ text[3] = front[3]
       /\ text[4] = user[1] /\ Len(text) = 6 + Len(winner)
  BY <1>1, <1>3, <1>4, <1>8, <1>9, <1>10, <1>11
<1>14. /\ text[Len(winner) + 4] = back[1] /\ text[Len(winner) + 5] = back[2]
       /\ text[Len(winner) + 6] = back[3]
  BY <1>1, <1>12
<1>15. /\ text \in Seq(Piece) /\ Len(text) = 6 + Len(winner)
       /\ text[1] = Word(accepted) /\ text[2] = Word(reason)
       /\ text[3] = Number(Tostring(price)) /\ text[4] = Word(winner[1])
       /\ text[Len(winner) + 4] = Number(Tostring(version))
       /\ text[Len(winner) + 5] = EventId(event)
       /\ text[Len(winner) + 6] = Number(Tostring(nowMs))
  BY <1>2, <1>5, <1>9, <1>13, <1>14
<1> QED  BY <1>15 DEF text, Encodes

\* An encoded result is a text.
LEMMA EncodeType ==
  ASSUME NEW accepted \in {"0", "1"}, NEW reason \in Reasons, NEW price \in Int,
         NEW winner \in Users \cup {NoUser}, NEW version \in Nat,
         NEW event \in Nat, NEW nowMs \in Nat
  PROVE  encode(accepted, reason, price, winner, version, event, nowMs) \in Result
<1>1. winner \in Seq(Words) /\ winner # << >>
  BY UserType
<1>2. Encodes(encode(accepted, reason, price, winner, version, event, nowMs),
              accepted, reason, price, winner, version, event, nowMs)
  BY <1>1, EncodePieces, Zenon
<1> QED  BY <1>2, Zenon DEF Encodes, Result

\* A number that tostring prints in full is read back by parseInt64.
LEMMA NumberRead ==
  ASSUME NEW n \in Int, Exact(n)
  PROVE  ParseInt64(Number(Tostring(n)).num) = n
  BY DEF Number, Tostring, Decimal, ParseInt64

\* What decodeCachedResult makes of the fields in front of the user id.
TellsFront(told, accepted, reason, price) ==
  /\ told.accepted <=> accepted = "1"
  /\ told.reason = reason
  /\ told.price = ParseInt64(Tostring(price))

\* It reads them, whatever the user id holds.
LEMMA DecodedFront ==
  ASSUME NEW accepted \in {"0", "1"}, NEW reason \in Reasons, NEW price \in Int,
         NEW winner \in Seq(Words), winner # << >>,
         NEW version \in Nat, NEW event \in Nat, NEW nowMs \in Nat
  PROVE  TellsFront(decodeCachedResult(
                      encode(accepted, reason, price, winner, version, event, nowMs)),
                    accepted, reason, price)
<1> DEFINE text == encode(accepted, reason, price, winner, version, event, nowMs)
<1>1. /\ text \in Seq(Piece) /\ Len(text) \in Nat /\ Len(text) >= 7
      /\ text[1] = Word(accepted) /\ text[2] = Word(reason)
      /\ text[3] = Number(Tostring(price))
  <2>1. Len(winner) \in Nat \ {0}
    OBVIOUS
  <2>2. /\ text \in Seq(Piece) /\ Len(text) = 6 + Len(winner)
        /\ text[1] = Word(accepted) /\ text[2] = Word(reason)
        /\ text[3] = Number(Tostring(price))
    <3>1. Encodes(text, accepted, reason, price, winner, version, event, nowMs)
      BY EncodePieces, Zenon
    <3> HIDE DEF text
    <3> QED  BY <3>1 DEF Encodes
  <2> HIDE DEF text
  <2> QED  BY <2>1, <2>2
<1> HIDE DEF text
<1>2. \A i \in 1 .. 3 : SplitN(text, 7)[i] = text[i]
  <2>1. CASE Len(text) <= 7
    BY <2>1 DEF SplitN
  <2>2. CASE ~(Len(text) <= 7)
    <3>1. /\ SubSeq(text, 1, 6) \in Seq(Piece) /\ Len(SubSeq(text, 1, 6)) = 6
          /\ \A i \in 1 .. 6 : SubSeq(text, 1, 6)[i] = text[i]
      BY <1>1
    <3>2. Word("rest") \in Piece
      BY PieceType, WordsAssumption
    <3>3. <<Word("rest")>> \in Seq(Piece)
      BY <3>2
    <3> DEFINE parts == SubSeq(text, 1, 6) \o <<Word("rest")>>
    <3>4. \A i \in 1 .. 6 : parts[i] = text[i]
      BY <3>1, <3>3, ConcatParts
    <3>5. SplitN(text, 7) = parts
      BY <1>1, <2>2 DEF SplitN
    <3> QED  BY <3>4, <3>5
  <2> QED  BY <2>1, <2>2
<1>3. /\ decodeCachedResult(text).accepted <=> SplitN(text, 7)[1].word = "1"
      /\ decodeCachedResult(text).reason = SplitN(text, 7)[2].word
      /\ decodeCachedResult(text).price = ParseInt64(SplitN(text, 7)[3].num)
  BY DEF decodeCachedResult
<1>4. SplitN(text, 7)[1].word = accepted /\ SplitN(text, 7)[2].word = reason
  BY <1>1, <1>2 DEF Word
<1>5. ParseInt64(SplitN(text, 7)[3].num) = ParseInt64(Tostring(price))
  BY <1>1, <1>2 DEF Number
<1>6. TellsFront(decodeCachedResult(text), accepted, reason, price)
  BY <1>3, <1>4, <1>5 DEF TellsFront
<1> QED  BY <1>6 DEF text

\* Whatever the user id holds, decodeCachedResult reads the decision, its
\* reason and the price that encode wrote: they stand in front of it.
THEOREM DecisionSurvives ==
  ASSUME NEW accepted \in {"0", "1"}, NEW reason \in Reasons, NEW price \in Int,
         Exact(price), NEW winner \in Seq(Words), winner # << >>,
         NEW version \in Nat, NEW event \in Nat, NEW nowMs \in Nat
  PROVE  LET result == decodeCachedResult(
                         encode(accepted, reason, price, winner, version, event,
                                nowMs))
         IN  /\ result.accepted <=> accepted = "1"
             /\ result.reason = reason
             /\ result.price = price
<1>1. ParseInt64(Tostring(price)) = price
  BY NumberRead DEF Number
<1> DEFINE result == decodeCachedResult(
                       encode(accepted, reason, price, winner, version, event,
                              nowMs))
<1>2. TellsFront(result, accepted, reason, price)
  BY DecodedFront, Zenon
<1> HIDE DEF result
<1>3. /\ result.accepted <=> accepted = "1"
      /\ result.reason = reason
      /\ result.price = price
  BY <1>1, <1>2, Zenon DEF TellsFront
<1> QED  BY <1>3, Zenon DEF result

\* With a user id that holds no separator, and numbers that tostring prints in
\* full, every field is read back as it was written: a reply and its later
\* duplicates say the same.
THEOREM DecodesBack ==
  ASSUME NEW accepted \in {"0", "1"}, NEW reason \in Reasons, NEW w \in Words,
         NEW price \in Int, NEW version \in Nat, NEW event \in Nat,
         NEW nowMs \in Nat, Exact(price), Exact(version), Exact(nowMs)
  PROVE  decodeCachedResult(
           encode(accepted, reason, price, <<w>>, version, event, nowMs)) =
           [accepted |-> accepted = "1", reason |-> reason, price |-> price,
            winner |-> <<w>>, version |-> version, event |-> EventId(event),
            ts |-> nowMs]
<1> DEFINE text == encode(accepted, reason, price, <<w>>, version, event, nowMs)
<1>1. <<w>> \in Seq(Words) /\ <<w>> # << >> /\ Len(<<w>>) = 1 /\ <<w>>[1] = w
  OBVIOUS
<1>2. /\ Len(text) = 7
      /\ text[1] = Word(accepted) /\ text[2] = Word(reason)
      /\ text[3] = Number(Tostring(price)) /\ text[4] = Word(w)
      /\ text[5] = Number(Tostring(version)) /\ text[6] = EventId(event)
      /\ text[7] = Number(Tostring(nowMs))
  <2> DEFINE user == <<w>>
  <2>1. text = encode(accepted, reason, price, user, version, event, nowMs)
    OBVIOUS
  <2> HIDE DEF text, user
  <2>2. user \in Seq(Words) /\ user # << >> /\ Len(user) = 1 /\ user[1] = w
    BY <1>1 DEF user
  <2>3. /\ Len(text) = 6 + Len(user)
        /\ text[1] = Word(accepted) /\ text[2] = Word(reason)
        /\ text[3] = Number(Tostring(price)) /\ text[4] = Word(user[1])
        /\ text[Len(user) + 4] = Number(Tostring(version))
        /\ text[Len(user) + 5] = EventId(event)
        /\ text[Len(user) + 6] = Number(Tostring(nowMs))
    <3>1. Encodes(text, accepted, reason, price, user, version, event, nowMs)
      BY <2>1, <2>2, EncodePieces, Zenon
    <3> QED  BY <3>1 DEF Encodes
  <2> QED  BY <2>2, <2>3
<1> HIDE DEF text
<1>3. SplitN(text, 7) = text
  BY <1>2 DEF SplitN
<1>4. /\ text[1].word = accepted /\ text[2].word = reason /\ text[4].word = w
  BY <1>2 DEF Word
<1>5. /\ ParseInt64(text[3].num) = price
      /\ ParseInt64(text[5].num) = version
      /\ ParseInt64(text[7].num) = nowMs
  BY <1>2, NumberRead
<1>6. decodeCachedResult(text) =
        [accepted |-> accepted = "1", reason |-> reason, price |-> price,
         winner |-> <<w>>, version |-> version, event |-> EventId(event),
         ts |-> nowMs]
  BY <1>2, <1>3, <1>4, <1>5, Zenon DEF decodeCachedResult
<1> QED  BY <1>6 DEF text

\* What a command on its way carries.
LEMMA MessageType ==
  ASSUME NEW m \in Message
  PROVE  /\ m.caller \in Callers /\ m.call \in Nat /\ m.try \in Nat
         /\ m.now \in Nat
         /\ m.req.op = "bid" => /\ m.req \in BidRequests
                                /\ m.req.bid \in BidIds
                                /\ m.req.user \in Users
                                /\ m.req.amount \in Int
         /\ m.req.op = "create" => /\ m.req \in CreateRequests
                                   /\ m.req.opening \in Int
                                   /\ m.req.duration \in Int
  BY RequestAssumption DEF Message, Request, BidIds, Users

-----------------------------------------------------------------------------
(* The type invariant.                                                     *)

\* TypeOK is inductive with the fact that a caller under way has a request.
Typed ==
  /\ TypeOK
  /\ \A c \in Callers : calls[c].pc # "idle" => calls[c].req \in Request

Call == [pc : {"idle", "waiting", "replied"}, call : Nat, try : Nat,
         req : Request \cup {NoRequest}, now : Nat,
         reply : [kind : {"DUP", "ERR", "OK", "HSET"},
                  result : Result \cup {NoReply}] \cup {NoReply}]

\* The initial state is typed.
LEMMA TypedInit == Init => Typed
<1> SUFFICES ASSUME Init PROVE Typed
  OBVIOUS
<1>1. calls \in [Callers -> Call] /\ \A c \in Callers : calls[c].pc = "idle"
  BY DEF Init, Idle, Call
<1>2. state \in [status : {"none", "open", "closed"}, end_at : Int,
                 current_price : NumText, winner : Users \cup {NoUser},
                 version : Nat]
  BY TostringType DEF Init
<1> QED
  BY <1>1, <1>2 DEF Init, Typed, TypeOK, EmptyHash, Call

\* Answering a command keeps the callers' side typed.
LEMMA AnswerTyped ==
  ASSUME Typed, NEW m \in net, NEW kind \in {"DUP", "ERR", "OK", "HSET"},
         NEW result \in Result \cup {NoReply}, Answer(m, kind, result)
  PROVE  /\ net' \subseteq Message
         /\ calls' \in [Callers -> Call]
         /\ \A c \in Callers : calls'[c].pc # "idle" => calls'[c].req \in Request
         /\ issued' \in Nat
<1>1. m \in Message /\ m.caller \in Callers
  BY MessageType DEF Typed, TypeOK
<1>2. calls \in [Callers -> Call]
  BY DEF Typed, TypeOK, Call
<1>3. CASE ~Awaited(m)
  BY <1>2, <1>3 DEF Answer, Typed, TypeOK
<1>4. CASE Awaited(m)
  <2> DEFINE reply == [kind |-> kind, result |-> result]
             call == [calls[m.caller] EXCEPT !.pc = "replied", !.reply = reply]
  <2>1. calls' = [calls EXCEPT ![m.caller] = call]
    BY <1>1, <1>2, <1>4 DEF Answer, Call
  <2>2. calls[m.caller] \in Call
    BY <1>1, <1>2
  <2>3. call \in Call /\ call.req = calls[m.caller].req
    BY <2>2 DEF Call
  <2>4. calls[m.caller].req \in Request
    BY <1>1, <1>4 DEF Awaited, Typed
  <2> QED
    BY <1>1, <1>2, <2>1, <2>3, <2>4 DEF Answer, Typed, TypeOK
<1> QED  BY <1>3, <1>4

\* Caching a result keeps the idempotency hash typed.
LEMMA CacheTyped ==
  ASSUME Typed, NEW bid \in BidIds, NEW result \in Result, cache(bid, result)
  PROVE  /\ DOMAIN idem' \subseteq BidIds
         /\ \A b \in DOMAIN idem' : idem'[b] \in Result
         /\ idemUntil' \in Int
  BY SettingAssumption DEF cache, EmptyHash, Typed, TypeOK

\* A refusal is a result.
LEMMA RefusalType ==
  ASSUME Typed, NEW m \in net, NEW reason \in Reasons
  PROVE  Refusal(m, reason) \in Result
<1>1. m.now \in Nat
  BY MessageType DEF Typed, TypeOK
<1> QED
  BY <1>1, EncodeType DEF Refusal, Tonumber, Typed, TypeOK, NumText

\* Giving a caller a new record keeps the callers typed.
LEMMA CallsUpdate ==
  ASSUME Typed, NEW c \in Callers, NEW call \in Call,
         call.pc # "idle" => call.req \in Request,
         calls' = [calls EXCEPT ![c] = call]
  PROVE  /\ calls' \in [Callers -> Call]
         /\ \A d \in Callers : calls'[d].pc # "idle" => calls'[d].req \in Request
<1>1. calls \in [Callers -> Call]
  BY DEF Typed, TypeOK, Call
<1> QED  BY <1>1 DEF Typed

\* A call that is tried once more is a call for the same request.
LEMMA CallRepeated ==
  ASSUME NEW call \in Call
  PROVE  LET again == [call EXCEPT !.pc = "waiting", !.try = @ + 1,
                                   !.reply = NoReply]
         IN  again \in Call /\ again.req = call.req
<1> DEFINE tried == call.try + 1
           again == [call EXCEPT !.pc = "waiting", !.try = tried,
                                 !.reply = NoReply]
<1>1. tried \in Nat
  BY DEF Call
<1> HIDE DEF tried
<1>2. again \in Call /\ again.req = call.req
  BY <1>1 DEF Call
<1> QED  BY <1>2 DEF tried

\* Starting, repeating and leaving a call keeps the callers' side typed.
LEMMA CallersTyped ==
  ASSUME Typed, NEW c \in Callers,
         \/ \E r \in BidRequests : PlaceBid(c, r)
         \/ \E r \in CreateRequests : CreateAuction(c, r)
         \/ Retry(c) \/ GiveUp(c) \/ Return(c)
  PROVE  Typed'
<1>1. calls \in [Callers -> Call] /\ net \subseteq Message
  BY DEF Typed, TypeOK, Call
<1>2. ASSUME NEW r \in Request, StartCall(c, r) PROVE Typed'
  <2> DEFINE call == [pc |-> "waiting", call |-> issued + 1, try |-> 0,
                      req |-> r, now |-> clock, reply |-> NoReply]
  <2>1. call \in Call /\ calls' = [calls EXCEPT ![c] = call]
    BY <1>2 DEF StartCall, Call, Typed, TypeOK
  <2>2. net' \subseteq Message
    BY <1>1, <1>2, <2>1 DEF StartCall, Send, Message, Typed, TypeOK
  <2> QED
    BY <1>1, <1>2, <2>1, <2>2 DEF StartCall, redis, Typed, TypeOK, Call
<1>3. CASE Retry(c)
  <2> DEFINE call == [calls[c] EXCEPT !.pc = "waiting", !.try = @ + 1,
                                      !.reply = NoReply]
  <2>1. calls[c] \in Call /\ calls[c].req \in Request
    BY <1>1, <1>3 DEF Retry, Typed
  <2>2. call \in Call /\ call.req = calls[c].req
    BY <2>1, CallRepeated
  <2>3. calls' = [calls EXCEPT ![c] = call]
    BY <1>3 DEF Retry
  <2>4. net' \subseteq Message
    BY <1>1, <1>3, <2>1, <2>2 DEF Retry, Send, Message, Call
  <2>5. /\ calls' \in [Callers -> Call]
        /\ \A d \in Callers : calls'[d].pc # "idle" => calls'[d].req \in Request
    <3> HIDE DEF call
    <3> QED  BY <2>1, <2>2, <2>3, CallsUpdate
  <2> QED
    BY <1>3, <2>4, <2>5 DEF Retry, redis, Typed, TypeOK, Call
<1>4. CASE GiveUp(c) \/ Return(c)
  <2>1. Idle \in Call /\ Idle.pc = "idle"
    BY DEF Idle, Call
  <2>2. calls' = [calls EXCEPT ![c] = Idle]
    BY <1>4 DEF GiveUp, Return
  <2>3. /\ calls' \in [Callers -> Call]
        /\ \A d \in Callers : calls'[d].pc # "idle" => calls'[d].req \in Request
    BY <2>1, <2>2, CallsUpdate
  <2> QED
    BY <1>4, <2>3 DEF GiveUp, Return, redis, Typed, TypeOK, Call
<1> QED
  BY <1>2, <1>3, <1>4 DEF PlaceBid, CreateAuction, Request

\* A run of the bid script keeps every key and the callers typed.
LEMMA ScriptTyped ==
  ASSUME Typed, NEW m \in net, bidScript(m)
  PROVE  Typed'
<1>1. m \in Message /\ m.req.op = "bid"
  BY DEF bidScript, BidDuplicate, BidNotFound, BidClosed, BidEnded, BidTooLow,
     BidAccepted, StillOpen, Fresh, Typed, TypeOK
<1>2. m.req.bid \in BidIds /\ m.req.user \in Users /\ m.req.amount \in Int
      /\ m.now \in Nat
  BY <1>1, MessageType
<1>3. CASE BidDuplicate(m)
  <2>1. idem[m.req.bid] \in Result
    BY <1>3 DEF BidDuplicate, Typed, TypeOK
  <2> QED
    BY <1>3, <2>1, AnswerTyped DEF BidDuplicate, redis, Typed, TypeOK, Call
<1>4. CASE BidNotFound(m)
  <2>1. encode("0", "auction_not_found", 0, NoUser, 0, 0, m.now) \in Result
    <3>1. /\ "0" \in {"0", "1"} /\ "auction_not_found" \in Reasons
          /\ NoUser \in Users \cup {NoUser} /\ 0 \in Nat /\ 0 \in Int
      BY DEF Reasons
    <3> HIDE DEF NoUser
    <3> QED  BY <1>2, <3>1, EncodeType
  <2> QED
    BY <1>4, <2>1, AnswerTyped DEF BidNotFound, redis, Typed, TypeOK, Call
<1>5. CASE BidClosed(m)
  <2>1. Refusal(m, "auction_closed") \in Result
    BY RefusalType DEF Reasons
  <2> QED
    BY <1>2, <1>5, <2>1, AnswerTyped, CacheTyped DEF BidClosed, Typed, TypeOK, Call
<1>6. CASE BidEnded(m)
  <2>1. Refusal(m, "auction_ended") \in Result
    BY RefusalType DEF Reasons
  <2> QED
    BY <1>2, <1>6, <2>1, AnswerTyped, CacheTyped DEF BidEnded, Typed, TypeOK, Call
<1>7. CASE BidTooLow(m)
  <2>1. Refusal(m, "bid_too_low") \in Result
    BY RefusalType DEF Reasons
  <2> QED
    BY <1>2, <1>7, <2>1, AnswerTyped, CacheTyped DEF BidTooLow, Typed, TypeOK, Call
<1>8. CASE BidAccepted(m)
  <2> DEFINE version == state.version + 1
             result == encode("1", "accepted", m.req.amount, m.req.user,
                              version, Len(events) + 1, m.now)
             event == [bid |-> m.req.bid, user |-> m.req.user,
                       amount |-> Tostring(m.req.amount),
                       version |-> version, ts |-> m.now]
  <2>1. version \in Nat /\ Len(events) + 1 \in Nat
    BY DEF Typed, TypeOK
  <2>2. result \in Result
    BY <1>2, <2>1, EncodeType DEF Reasons
  <2>3. event \in AuctionEvent
    BY <1>2, <2>1, TostringType DEF AuctionEvent
  <2>4. events' \in Seq(AuctionEvent) /\ appliedAt' \in Seq(Nat)
    BY <1>8, <2>3 DEF BidAccepted, Typed, TypeOK
  <2>5. state' \in [status : {"none", "open", "closed"}, end_at : Int,
                    current_price : NumText, winner : Users \cup {NoUser},
                    version : Nat]
    BY <1>2, <1>8, <2>1, TostringType DEF BidAccepted, Typed, TypeOK
  <2>6. cache(m.req.bid, result) /\ Answer(m, "OK", result)
    BY <1>8 DEF BidAccepted
  <2>7. /\ DOMAIN idem' \subseteq BidIds
        /\ \A b \in DOMAIN idem' : idem'[b] \in Result
        /\ idemUntil' \in Int
    BY <1>2, <2>2, <2>6, CacheTyped
  <2>8. /\ net' \subseteq Message /\ calls' \in [Callers -> Call]
        /\ \A c \in Callers : calls'[c].pc # "idle" => calls'[c].req \in Request
        /\ issued' \in Nat
    BY <2>2, <2>6, AnswerTyped
  <2>9. clock' \in Nat /\ base' \in Nat
    BY <1>8 DEF BidAccepted, Typed, TypeOK
  <2> QED
    BY <2>4, <2>5, <2>7, <2>8, <2>9 DEF Typed, TypeOK, Call
<1> QED
  BY <1>3, <1>4, <1>5, <1>6, <1>7, <1>8 DEF bidScript

\* CreateAuction's HSET keeps the keys and the callers typed.
LEMMA SetAuctionTyped ==
  ASSUME Typed, NEW m \in net, SetAuction(m)
  PROVE  Typed'
<1>1. m \in Message /\ m.now \in Nat /\ m.req.opening \in Int
      /\ m.req.duration \in Int
  BY MessageType DEF SetAuction, Typed, TypeOK
<1>2. state' \in [status : {"none", "open", "closed"}, end_at : Int,
                  current_price : NumText, winner : Users \cup {NoUser},
                  version : Nat]
  BY <1>1, TostringType, SettingAssumption DEF SetAuction, EndAt
<1> QED
  BY <1>2, AnswerTyped DEF SetAuction, Typed, TypeOK, Call

\* No step breaks the type invariant.
LEMMA TypedStep == Typed /\ [Next]_vars => Typed'
<1> SUFFICES ASSUME Typed, [Next]_vars PROVE Typed'
  OBVIOUS
<1>1. CASE UNCHANGED vars
  BY <1>1 DEF vars, Typed, TypeOK
<1>2. CASE Tick
  BY <1>2 DEF Tick, EmptyHash, Typed, TypeOK
<1> QED
  BY <1>1, <1>2, CallersTyped, ScriptTyped, SetAuctionTyped DEF Next

\* Every key of the store, every command and every caller keeps its type.
THEOREM TypeCorrect == Spec => []TypeOK
<1>1. Typed => TypeOK
  BY DEF Typed
<1> QED  BY <1>1, TypedInit, TypedStep, PTL DEF Spec

-----------------------------------------------------------------------------
(* The stream and the state hash.                                          *)

\* What the steps that accept no bid and create no auction leave alone.
LEMMA QuietSteps ==
  ASSUME Typed, [Next]_vars,
         ~\E m \in net : BidAccepted(m) \/ SetAuction(m)
  PROVE  /\ UNCHANGED <<events, appliedAt, base>>
         /\ UNCHANGED <<state.current_price, state.winner, state.version>>
         /\ state' = state \/ (state.status = "open" /\ state'.status = "closed")
<1>1. CASE UNCHANGED vars \/ Tick
  BY <1>1 DEF vars, Tick
<1>2. ASSUME NEW c \in Callers,
             \/ \E r \in BidRequests : PlaceBid(c, r)
             \/ \E r \in CreateRequests : CreateAuction(c, r)
             \/ Retry(c) \/ GiveUp(c) \/ Return(c)
      PROVE  UNCHANGED <<state, events, appliedAt, base>>
  BY <1>2 DEF PlaceBid, CreateAuction, StartCall, Retry, GiveUp, Return, redis
<1>3. ASSUME NEW m \in net, BidDuplicate(m) \/ BidNotFound(m) \/ BidClosed(m)
                            \/ BidTooLow(m)
      PROVE  UNCHANGED <<state, events, appliedAt, base>>
  BY <1>3 DEF BidDuplicate, BidNotFound, BidClosed, BidTooLow, redis
<1>4. ASSUME NEW m \in net, BidEnded(m)
      PROVE  /\ UNCHANGED <<events, appliedAt, base>>
             /\ UNCHANGED <<state.current_price, state.winner, state.version>>
             /\ state.status = "open" /\ state'.status = "closed"
  BY <1>4 DEF BidEnded, Typed, TypeOK
<1> QED
  BY <1>1, <1>2, <1>3, <1>4 DEF Next, bidScript

\* What the acceptance of a bid does to the stream and the state.
LEMMA AcceptedStep ==
  ASSUME Typed, NEW m \in net, BidAccepted(m)
  PROVE  /\ state.status = "open" /\ m.now < state.end_at
         /\ m.req.op = "bid" /\ m.req.bid \notin DOMAIN idem
         /\ m.req.amount \in Int /\ m.req.bid \in BidIds /\ m.req.user \in Users
         /\ m.req \in BidRequests
         /\ m.req.amount > Tonumber(state.current_price)
         /\ state'.status = state.status
         /\ state'.current_price = Tostring(m.req.amount)
         /\ state'.winner = m.req.user
         /\ state'.version = state.version + 1
         /\ events' = Append(events, [bid |-> m.req.bid, user |-> m.req.user,
                                      amount |-> Tostring(m.req.amount),
                                      version |-> state.version + 1,
                                      ts |-> m.now])
         /\ appliedAt' = Append(appliedAt, clock)
         /\ clock' = clock /\ base' = base
<1>1. m \in Message /\ m.req.op = "bid"
  BY DEF BidAccepted, StillOpen, Fresh, Typed, TypeOK
<1>2. m.req.amount \in Int /\ m.req.bid \in BidIds /\ m.req.user \in Users
      /\ m.req \in BidRequests
  BY <1>1, MessageType
<1>3. Tonumber(state.current_price) \in Int
  BY DEF Tonumber, Typed, TypeOK, NumText
<1> QED
  BY <1>1, <1>2, <1>3 DEF BidAccepted, StillOpen, Fresh, TooLow, Typed, TypeOK

\* The initial state has an empty log.
LEMMA LogInit == Init => LogMatchesState
  BY DEF Init, LogMatchesState

\* Every step keeps the log in step with the state hash.
LEMMA LogStep == Typed /\ LogMatchesState /\ [Next]_vars => LogMatchesState'
<1> SUFFICES ASSUME Typed, LogMatchesState, [Next]_vars PROVE LogMatchesState'
  OBVIOUS
<1>0. base \in Nat /\ events \in Seq(AuctionEvent) /\ Len(events) \in Nat
      /\ state.version \in Nat
  BY DEF Typed, TypeOK
<1>1. ASSUME NEW m \in net, BidAccepted(m) PROVE LogMatchesState'
  <2> DEFINE n == Len(events)
             event == [bid |-> m.req.bid, user |-> m.req.user,
                       amount |-> Tostring(m.req.amount),
                       version |-> state.version + 1, ts |-> m.now]
  <2>1. /\ events' = Append(events, event) /\ base' = base
        /\ state'.version = state.version + 1
        /\ state'.current_price = event.amount /\ state'.winner = event.user
        /\ event.version = state.version + 1
    BY <1>1, AcceptedStep
  <2> HIDE DEF event
  <2>2. /\ Len(events') = n + 1
        /\ events'[n + 1] = event
        /\ \A i \in 1 .. n : events'[i] = events[i]
    BY <1>0, <2>1
  <2>3. \A i \in base + 1 .. n + 1 : events'[i].version = i - base
    BY <1>0, <2>1, <2>2 DEF LogMatchesState
  <2> QED
    BY <1>0, <2>1, <2>2, <2>3 DEF LogMatchesState
<1>2. ASSUME NEW m \in net, SetAuction(m) PROVE LogMatchesState'
  BY <1>0, <1>2 DEF SetAuction, LogMatchesState
<1>3. CASE ~\E m \in net : BidAccepted(m) \/ SetAuction(m)
  BY <1>3, QuietSteps DEF LogMatchesState
<1> QED  BY <1>1, <1>2, <1>3

\* The stream is a faithful log of the state hash in every behaviour.
THEOREM LogCorrect == Spec => []LogMatchesState
  BY TypedInit, TypedStep, LogInit, LogStep, PTL DEF Spec

-----------------------------------------------------------------------------
(* Idempotency.                                                            *)

\* The inductive strengthening of AppliedOnce: a bid applied less than a
\* window ago is still in the hash, and the hash outlives its window.
Remembered ==
  /\ Len(appliedAt) = Len(events)
  /\ \A i \in 1 .. Len(events) : appliedAt[i] <= clock
  /\ IdemTTL > 0 =>
       \A i \in 1 .. Len(events) :
         clock <= appliedAt[i] + IdemTTL =>
           /\ events[i].bid \in DOMAIN idem
           /\ appliedAt[i] + IdemTTL <= idemUntil

Once == Remembered /\ AppliedOnce

\* Nothing has been applied at first.
LEMMA OnceInit == Init => Once
  BY DEF Init, Once, Remembered, AppliedOnce

\* cache extends the hash and its life.
LEMMA CacheExtends ==
  ASSUME Typed, IdemTTL > 0, NEW bid, NEW result, cache(bid, result)
  PROVE  DOMAIN idem' = DOMAIN idem \cup {bid} /\ idemUntil' = clock + IdemTTL
  BY DEF cache

\* A step that appends no event and does not move the clock either leaves the
\* hash alone or caches one more result in it.
LEMMA HashSteps ==
  ASSUME Typed, [Next]_vars, ~Tick, IdemTTL > 0,
         ~\E m \in net : BidAccepted(m)
  PROVE  /\ UNCHANGED <<events, appliedAt, clock>>
         /\ DOMAIN idem \subseteq DOMAIN idem'
         /\ idemUntil' \in {idemUntil, clock + IdemTTL}
<1>1. CASE UNCHANGED vars
  BY <1>1 DEF vars
<1>2. ASSUME NEW c \in Callers,
             \/ \E r \in BidRequests : PlaceBid(c, r)
             \/ \E r \in CreateRequests : CreateAuction(c, r)
             \/ Retry(c) \/ GiveUp(c) \/ Return(c)
      PROVE  UNCHANGED <<events, appliedAt, clock, idem, idemUntil>>
  BY <1>2 DEF PlaceBid, CreateAuction, StartCall, Retry, GiveUp, Return, redis
<1>3. ASSUME NEW m \in net, BidDuplicate(m) \/ BidNotFound(m) \/ SetAuction(m)
      PROVE  UNCHANGED <<events, appliedAt, clock, idem, idemUntil>>
  BY <1>3 DEF BidDuplicate, BidNotFound, SetAuction, redis
<1>4. ASSUME NEW m \in net, BidClosed(m) \/ BidEnded(m) \/ BidTooLow(m)
      PROVE  /\ UNCHANGED <<events, appliedAt, clock>>
             /\ \E result : cache(m.req.bid, result)
  BY <1>4 DEF BidClosed, BidEnded, BidTooLow
<1> QED
  BY <1>1, <1>2, <1>3, <1>4, CacheExtends DEF Next, bidScript

\* Time does not go back, and only an accepted bid lengthens the stream.
LEMMA Monotone ==
  ASSUME Typed, [Next]_vars
  PROVE  /\ clock' \in Nat /\ clock <= clock'
         /\ (\E m \in net : BidAccepted(m)) \/ UNCHANGED <<events, appliedAt>>
<1>1. clock \in Nat
  BY DEF Typed, TypeOK
<1>2. clock' = clock \/ clock' = clock + 1
  BY DEF Next, vars, PlaceBid, CreateAuction, StartCall, Retry, GiveUp, Return,
     bidScript, BidDuplicate, BidNotFound, BidClosed, BidEnded, BidTooLow,
     BidAccepted, SetAuction, Tick
<1>3. ASSUME NEW m \in net, SetAuction(m) PROVE UNCHANGED <<events, appliedAt>>
  BY <1>3 DEF SetAuction
<1> QED  BY <1>1, <1>2, <1>3, QuietSteps

\* No step applies a bid twice within a window, or forgets one too early.
LEMMA OnceStep == Typed /\ Once /\ [Next]_vars => Once'
<1> SUFFICES ASSUME Typed, Once, [Next]_vars PROVE Once'
  OBVIOUS
<1>0. /\ clock \in Nat /\ IdemTTL \in Int /\ idemUntil \in Int
      /\ events \in Seq(AuctionEvent) /\ appliedAt \in Seq(Nat)
      /\ Len(appliedAt) = Len(events) /\ Len(events) \in Nat
      /\ \A i \in 1 .. Len(events) : appliedAt[i] \in Nat
  BY SettingAssumption DEF Typed, TypeOK, Once, Remembered
<1>1. ASSUME NEW m \in net, BidAccepted(m) PROVE Once'
  <2> DEFINE n == Len(events)
             event == [bid |-> m.req.bid, user |-> m.req.user,
                       amount |-> Tostring(m.req.amount),
                       version |-> state.version + 1, ts |-> m.now]
  <2>1. /\ events' = Append(events, event) /\ event.bid = m.req.bid
        /\ appliedAt' = Append(appliedAt, clock)
        /\ clock' = clock /\ m.req.bid \notin DOMAIN idem
    BY <1>1, AcceptedStep
  <2>2. IdemTTL > 0 => /\ DOMAIN idem' = DOMAIN idem \cup {m.req.bid}
                       /\ idemUntil' = clock + IdemTTL
    BY <1>1, CacheExtends DEF BidAccepted
  <2> HIDE DEF event
  <2>3. /\ Len(events') = n + 1 /\ Len(appliedAt') = n + 1
        /\ events'[n + 1] = event /\ appliedAt'[n + 1] = clock
        /\ \A i \in 1 .. n : /\ events'[i] = events[i]
                              /\ appliedAt'[i] = appliedAt[i]
    BY <1>0, <2>1
  <2>4. \A i \in 1 .. n : appliedAt[i] <= clock
    BY DEF Once, Remembered
  <2>5. Remembered'
    BY <1>0, <2>1, <2>2, <2>3, <2>4 DEF Once, Remembered
  <2>6. ASSUME IdemTTL > 0, NEW i \in 1 .. n, events[i].bid = m.req.bid
        PROVE  clock > appliedAt[i] + IdemTTL
    <3>1. events[i].bid \notin DOMAIN idem
      BY <2>1, <2>6
    <3>2. clock <= appliedAt[i] + IdemTTL => events[i].bid \in DOMAIN idem
      BY <2>6 DEF Once, Remembered
    <3>3. appliedAt[i] \in Nat
      BY <1>0, <2>6
    <3> QED  BY <1>0, <2>6, <3>1, <3>2, <3>3
  <2>7. AppliedOnce'
    <3> SUFFICES ASSUME IdemTTL > 0, NEW i \in 1 .. n + 1, NEW j \in 1 .. n + 1,
                        i < j, events'[i].bid = events'[j].bid
                 PROVE  appliedAt'[j] > appliedAt'[i] + IdemTTL
      BY <2>3 DEF AppliedOnce
    <3>1. CASE j = n + 1
      BY <1>0, <2>1, <2>3, <2>6, <3>1
    <3>2. CASE j # n + 1
      <4>1. i \in 1 .. n /\ j \in 1 .. n
        BY <1>0, <3>2
      <4>2. events[i].bid = events[j].bid
        BY <2>3, <4>1
      <4>3. appliedAt[j] > appliedAt[i] + IdemTTL
        BY <4>1, <4>2 DEF Once, AppliedOnce
      <4> QED  BY <2>3, <4>1, <4>3
    <3> QED  BY <3>1, <3>2
  <2> QED  BY <2>5, <2>7 DEF Once
<1>2. CASE ~\E m \in net : BidAccepted(m)
  <2>1. UNCHANGED <<events, appliedAt>> /\ clock' \in Nat /\ clock <= clock'
    BY <1>2, Monotone
  <2>2. AppliedOnce'
    BY <2>1 DEF Once, AppliedOnce
  <2>3. ASSUME IdemTTL > 0, NEW i \in 1 .. Len(events),
               clock' <= appliedAt[i] + IdemTTL
        PROVE  events[i].bid \in DOMAIN idem' /\ appliedAt[i] + IdemTTL <= idemUntil'
    <3>1. /\ events[i].bid \in DOMAIN idem
          /\ appliedAt[i] + IdemTTL <= idemUntil /\ appliedAt[i] <= clock
      BY <1>0, <2>1, <2>3 DEF Once, Remembered
    <3>2. CASE Tick
      BY <1>0, <2>1, <2>3, <3>1, <3>2 DEF Tick
    <3>3. CASE ~Tick
      BY <1>0, <1>2, <2>3, <3>1, <3>3, HashSteps
    <3> QED  BY <3>2, <3>3
  <2>4. Remembered'
    BY <1>0, <2>1, <2>3 DEF Once, Remembered
  <2> QED  BY <2>2, <2>4 DEF Once
<1> QED  BY <1>1, <1>2

\* A bid id is applied at most once per idempotency window.
THEOREM Idempotent == Spec => []AppliedOnce
<1>1. Once => AppliedOnce
  BY DEF Once
<1> QED  BY <1>1, TypedInit, TypedStep, OnceInit, OnceStep, PTL DEF Spec

-----------------------------------------------------------------------------
(* Prices and the end of an auction.                                       *)

\* After the last creation no accepted bid is above the standing price.
Rising ==
  /\ AmountsRise
  /\ \A i \in base + 1 .. Len(events) :
       Tonumber(events[i].amount) <= Tonumber(state.current_price)

\* A step keeps the amounts rising when tostring prints every amount exactly.
LEMMA RisingStep ==
  ASSUME \A r \in BidRequests : Exact(r.amount)
  PROVE  Typed /\ LogMatchesState /\ Rising /\ [Next]_vars => Rising'
<1> SUFFICES ASSUME Typed, LogMatchesState, Rising, [Next]_vars PROVE Rising'
  OBVIOUS
<1>0. /\ base \in Nat /\ events \in Seq(AuctionEvent) /\ Len(events) \in Nat
      /\ base <= Len(events)
      /\ \A i \in 1 .. Len(events) : Tonumber(events[i].amount) \in Int
      /\ Tonumber(state.current_price) \in Int
  <2>1. base \in Nat /\ events \in Seq(AuctionEvent) /\ base <= Len(events)
    BY DEF Typed, TypeOK, LogMatchesState
  <2>2. \A i \in 1 .. Len(events) : events[i] \in AuctionEvent
    BY <2>1
  <2>3. \A e \in AuctionEvent : Tonumber(e.amount) \in Int
    BY DEF AuctionEvent, NumText, Tonumber
  <2>4. Tonumber(state.current_price) \in Int
    BY DEF Typed, TypeOK, NumText, Tonumber
  <2> QED  BY <2>1, <2>2, <2>3, <2>4
<1>1. ASSUME NEW m \in net, BidAccepted(m) PROVE Rising'
  <2> DEFINE n == Len(events)
             event == [bid |-> m.req.bid, user |-> m.req.user,
                       amount |-> Tostring(m.req.amount),
                       version |-> state.version + 1, ts |-> m.now]
  <2>1. /\ events' = Append(events, event) /\ base' = base
        /\ event.amount = Tostring(m.req.amount)
        /\ state'.current_price = Tostring(m.req.amount)
        /\ m.req.amount > Tonumber(state.current_price)
        /\ m.req.amount \in Int /\ m.req \in BidRequests
    BY <1>1, AcceptedStep
  <2> HIDE DEF event
  <2>2. /\ Len(events') = n + 1 /\ events'[n + 1] = event
        /\ \A i \in 1 .. n : events'[i] = events[i]
    BY <1>0, <2>1
  <2>3. /\ Tonumber(event.amount) = m.req.amount
        /\ Tonumber(state'.current_price) = m.req.amount
    BY <2>1, TostringExact
  <2>4. \A i \in base + 1 .. n : Tonumber(events'[i].amount) < m.req.amount
    BY <1>0, <2>1, <2>2 DEF Rising
  <2>5. AmountsRise'
    <3> SUFFICES ASSUME NEW i \in base + 1 .. n + 1, NEW j \in base + 1 .. n + 1,
                        i < j
                 PROVE  Tonumber(events'[i].amount) < Tonumber(events'[j].amount)
      BY <2>1, <2>2 DEF AmountsRise
    <3>1. i \in base + 1 .. n
      BY <1>0
    <3>2. CASE j = n + 1
      BY <2>2, <2>3, <2>4, <3>1, <3>2
    <3>3. CASE j # n + 1
      <4>1. j \in base + 1 .. n /\ i \in 1 .. n /\ j \in 1 .. n
        BY <1>0, <3>1, <3>3
      <4>2. Tonumber(events[i].amount) < Tonumber(events[j].amount)
        BY <3>1, <4>1 DEF Rising, AmountsRise
      <4> QED  BY <2>2, <4>1, <4>2
    <3> QED  BY <3>2, <3>3
  <2> QED
    BY <1>0, <2>1, <2>2, <2>3, <2>4, <2>5 DEF Rising
<1>2. ASSUME NEW m \in net, SetAuction(m) PROVE Rising'
  BY <1>0, <1>2 DEF SetAuction, Rising, AmountsRise
<1>3. CASE ~\E m \in net : BidAccepted(m) \/ SetAuction(m)
  BY <1>3, QuietSteps DEF Rising, AmountsRise
<1> QED  BY <1>1, <1>2, <1>3

\* As long as every amount is below the precision of tostring, each accepted
\* bid beats all those before it.
THEOREM HigherBidsOnly ==
  ASSUME \A r \in BidRequests : Exact(r.amount)
  PROVE  Spec => []AmountsRise
<1>1. Init => Rising
  BY DEF Init, Rising, AmountsRise
<1>2. Typed /\ LogMatchesState /\ Rising /\ [Next]_vars => Rising'
  BY RisingStep
<1>3. Rising => AmountsRise
  BY DEF Rising
<1> QED
  BY <1>1, <1>2, <1>3, TypedInit, TypedStep, LogInit, LogStep, PTL DEF Spec

\* Nothing but a new creation changes an auction that has been closed.
THEOREM ClosedAuctionsStay == Spec => ClosedIsFinal
<1> DEFINE Final == state.status = "closed" =>
                      /\ events' = events
                      /\ state'.status = "closed" => state' = state
<1>1. Typed /\ [Next]_vars => [Final]_vars
  <2> SUFFICES ASSUME Typed, Next, state.status = "closed"
               PROVE  events' = events /\ (state'.status = "closed" => state' = state)
    OBVIOUS
  <2>1. ASSUME NEW m \in net PROVE ~BidAccepted(m)
    BY <2>1, AcceptedStep
  <2>2. ASSUME NEW m \in net, SetAuction(m)
        PROVE  events' = events /\ state'.status = "open"
    BY <2>2 DEF SetAuction
  <2> QED  BY <2>1, <2>2, QuietSteps
<1> QED
  BY <1>1, TypedInit, TypedStep, PTL DEF Spec, ClosedIsFinal

-----------------------------------------------------------------------------
(* The store implements the abstract auction.                              *)

\* What caching a result means for the ids the store remembers.
LEMMA CacheTakes ==
  ASSUME NEW bid, NEW result, cache(bid, result)
  PROVE  DOMAIN idem' \in {DOMAIN idem \cup {bid}, {}}
  BY DEF cache, EmptyHash

\* Every step of the store is a step of the abstract auction or a stutter.
LEMMA StoreStepIsAuctionStep ==
  ASSUME \A r \in BidRequests : Exact(r.amount)
  PROVE  Typed /\ [Next]_vars => [Promise!Next]_(Promise!vars)
<1> SUFFICES ASSUME Typed, [Next]_vars PROVE [Promise!Next]_(Promise!vars)
  OBVIOUS
<1>0. Tonumber(state.current_price) \in Int
  BY DEF Typed, TypeOK, NumText, Tonumber
<1>1. ASSUME UNCHANGED <<state, idem>> PROVE UNCHANGED Promise!vars
  BY <1>1 DEF Promise!vars
<1>2. CASE UNCHANGED vars
  BY <1>1, <1>2 DEF vars
<1>3. CASE Tick
  <2>1. CASE idem' = idem
    BY <1>1, <1>3, <2>1 DEF Tick
  <2>2. CASE idem' = EmptyHash
    BY <1>3, <2>2 DEF Tick, EmptyHash, Promise!Next, Promise!Forget
  <2> QED  BY <1>3, <2>1, <2>2 DEF Tick
<1>4. ASSUME NEW c \in Callers,
             \/ \E r \in BidRequests : PlaceBid(c, r)
             \/ \E r \in CreateRequests : CreateAuction(c, r)
             \/ Retry(c) \/ GiveUp(c) \/ Return(c)
      PROVE  UNCHANGED <<state, idem>>
  BY <1>4 DEF PlaceBid, CreateAuction, StartCall, Retry, GiveUp, Return, redis
<1>5. ASSUME NEW m \in net, BidDuplicate(m) \/ BidNotFound(m)
      PROVE  UNCHANGED <<state, idem>>
  BY <1>5 DEF BidDuplicate, BidNotFound, redis
<1>6. ASSUME NEW m \in net, BidClosed(m) \/ BidEnded(m) \/ BidTooLow(m)
      PROVE  Promise!Next
  <2>1. m.req.op = "bid" /\ m.req.bid \notin DOMAIN idem /\ state.status # "none"
        /\ \E result : cache(m.req.bid, result)
    BY <1>6 DEF BidClosed, BidEnded, BidTooLow, StillOpen, Fresh
  <2>2. m.req.bid \in BidIds
    BY <2>1, MessageType DEF Typed, TypeOK
  <2>3. Promise!Take(m.req.bid)
    BY <2>1, CacheTakes DEF Promise!Take
  <2>4. /\ state'.status \in {state.status, "closed"}
        /\ Tonumber(state'.current_price) = Tonumber(state.current_price)
        /\ state'.winner = state.winner /\ state'.version = state.version
    BY <1>6 DEF BidClosed, BidEnded, BidTooLow, Tonumber, Typed, TypeOK
  <2> QED
    BY <2>2, <2>3, <2>4 DEF Promise!Next, Promise!Refuse
<1>7. ASSUME NEW m \in net, BidAccepted(m)
      PROVE  Promise!Next
  <2>1. /\ state.status = "open" /\ m.req.bid \notin DOMAIN idem
        /\ m.req.bid \in BidIds /\ m.req.user \in Users /\ m.req.amount \in Int
        /\ m.req \in BidRequests
        /\ m.req.amount > Tonumber(state.current_price)
        /\ state'.status = state.status
        /\ state'.current_price = Tostring(m.req.amount)
        /\ state'.winner = m.req.user /\ state'.version = state.version + 1
    BY <1>7, AcceptedStep
  <2>2. \E result : cache(m.req.bid, result)
    BY <1>7 DEF BidAccepted
  <2>3. Promise!Take(m.req.bid)
    BY <2>1, <2>2, CacheTakes DEF Promise!Take
  <2>4. Tonumber(state'.current_price) = m.req.amount
    BY <2>1, TostringExact
  <2> QED
    BY <2>1, <2>3, <2>4 DEF Promise!Next, Promise!Accept
<1>8. ASSUME NEW m \in net, SetAuction(m)
      PROVE  Promise!Next
  <2>1. m.req.opening \in Int
    BY <1>8, MessageType DEF SetAuction, Typed, TypeOK
  <2>2. /\ state'.status = "open" /\ Tonumber(state'.current_price) = m.req.opening
        /\ state'.winner = NoUser /\ state'.version = 0 /\ idem' = idem
    BY <1>8 DEF SetAuction, Tonumber, Decimal
  <2> QED
    BY <2>1, <2>2 DEF Promise!Next, Promise!Open
<1> QED
  BY <1>1, <1>2, <1>3, <1>4, <1>5, <1>6, <1>7, <1>8 DEF Next, bidScript

\* The store, with its lost, late and repeated commands, implements the atomic
\* auction as long as tostring prints every amount exactly.
THEOREM StoreImplementsAuction ==
  ASSUME \A r \in BidRequests : Exact(r.amount)
  PROVE  Spec => ImplementsAuction
<1>1. Init => Promise!Init
  BY DEF Init, Promise!Init, EmptyHash, Decimal, Tonumber
<1>2. Typed /\ [Next]_vars => [Promise!Next]_(Promise!vars)
  BY StoreStepIsAuctionStep
<1> QED
  BY <1>1, <1>2, TypedInit, TypedStep, PTL
     DEF Spec, ImplementsAuction, Promise!Spec

=============================================================================
