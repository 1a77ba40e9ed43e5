----------------------- MODULE AuctionReplies_proofs ------------------------
(***************************************************************************)
(* Proofs about what the callers of the bid store are told: for any number *)
(* of callers, calls, retries and lost replies, an answer "accepted" can   *)
(* be found on the stream, and a decision is kept for its window.          *)
(***************************************************************************)
EXTENDS AuctionStore_proofs

\* The n-th event of the log is the bid that a caller is told of.
LoggedAs(log, n, bid, told) ==
  /\ EventId(n) = told.event
  /\ log[n].bid = bid
  /\ log[n].user = told.winner
  /\ log[n].version = told.version
  /\ ParseInt64(log[n].amount) = told.price

\* A result that says "accepted" is on the log.
TellsIn(log, bid, text) ==
  decodeCachedResult(text).accepted =>
    \E n \in 1 .. Len(log) : LoggedAs(log, n, bid, decodeCachedResult(text))

\* A command on its way asks for what its caller is waiting for, if the caller
\* is still in the call that sent it.
Matched ==
  /\ \A m \in net : m.call <= issued
  /\ \A c \in Callers : calls[c].pc # "idle" => calls[c].call <= issued
  /\ \A m \in net :
       calls[m.caller].pc # "idle" /\ calls[m.caller].call = m.call =>
         m.req = calls[m.caller].req /\ m.now = calls[m.caller].now

\* Clocks are read before commands are sent and run.
Stamped ==
  /\ \A m \in net : m.now <= clock
  /\ \A c \in Callers : calls[c].pc # "idle" => calls[c].now <= clock

HasReply(c) == calls[c].pc = "replied" /\ calls[c].req.op = "bid"

\* What is cached and what was read is on the log.
CachedLogged == \A b \in DOMAIN idem : TellsIn(events, b, idem[b])
ReadLogged ==
  \A c \in Callers :
    HasReply(c) => TellsIn(events, calls[c].req.bid, calls[c].reply.result)

\* The inductive invariant, as long as tostring prints every version exactly:
\* no version exceeds the length of the stream.
RepliesInv == Len(events) < SigLimit => CachedLogged /\ ReadLogged

\* A decision that was read lately is in the hash, which lives at least as long
\* as the decision's window.
KeptFor(call) ==
  (/\ call.pc = "replied" /\ call.reply.kind = "OK"
   /\ clock <= call.now + IdemTTL) =>
     /\ call.req.bid \in DOMAIN idem
     /\ idem[call.req.bid] = call.reply.result
     /\ call.now + IdemTTL <= idemUntil

KeptInv == IdemTTL > 0 => \A c \in Callers : KeptFor(calls[c])

-----------------------------------------------------------------------------
(* Replies go to the call they were asked for.                             *)

\* What an answer does to the callers.
LEMMA AnswerCalls ==
  ASSUME Typed, Matched, NEW m \in net, NEW kind, NEW result,
         Answer(m, kind, result), NEW c \in Callers
  PROVE  \/ calls'[c] = calls[c]
         \/ /\ calls'[c].pc = "replied"
            /\ calls'[c].call = calls[c].call
            /\ calls[c].pc = "waiting"
            /\ calls'[c].req = calls[c].req
            /\ calls'[c].req = m.req
            /\ calls'[c].now = calls[c].now
            /\ calls'[c].now = m.now
            /\ calls'[c].reply = [kind |-> kind, result |-> result]
<1>1. m.caller \in Callers /\ calls \in [Callers -> Call]
  BY MessageType DEF Typed, TypeOK, Call
<1>2. CASE ~Awaited(m)
  BY <1>2 DEF Answer
<1>3. CASE Awaited(m)
  <2>1. m.req = calls[m.caller].req /\ m.now = calls[m.caller].now
    BY <1>3 DEF Awaited, Matched
  <2>2. calls[m.caller] \in Call
    BY <1>1
  <2>3. calls' = [calls EXCEPT ![m.caller].pc = "replied",
                    ![m.caller].reply = [kind |-> kind, result |-> result]]
    BY <1>3 DEF Answer
  <2>4. CASE c = m.caller
    BY <1>1, <1>3, <2>1, <2>2, <2>3, <2>4 DEF Call, Awaited
  <2>5. CASE c # m.caller
    BY <1>1, <2>3, <2>5
  <2> QED  BY <2>4, <2>5
<1> QED  BY <1>2, <1>3

\* What the steps of the callers do: they take up no reply.
LEMMA CallersSteps ==
  ASSUME Typed, NEW c \in Callers,
         \/ \E r \in BidRequests : PlaceBid(c, r)
         \/ \E r \in CreateRequests : CreateAuction(c, r)
         \/ Retry(c) \/ GiveUp(c) \/ Return(c)
  PROVE  /\ calls'[c].pc # "replied"
         /\ \A d \in Callers : d # c => calls'[d] = calls[d]
         /\ UNCHANGED redis
<1>1. calls \in [Callers -> Call]
  BY DEF Typed, TypeOK, Call
<1>2. ASSUME NEW r, StartCall(c, r)
      PROVE  /\ calls'[c].pc # "replied"
             /\ \A d \in Callers : d # c => calls'[d] = calls[d]
             /\ UNCHANGED redis
  BY <1>1, <1>2 DEF StartCall
<1>3. CASE Retry(c)
  <2>1. calls[c] \in Call
    BY <1>1
  <2>2. calls'[c] = [calls[c] EXCEPT !.pc = "waiting", !.try = @ + 1,
                                     !.reply = NoReply]
    BY <1>1, <1>3 DEF Retry
  <2>3. calls'[c].pc = "waiting"
    BY <2>1, <2>2 DEF Call
  <2> QED  BY <1>1, <1>3, <2>3 DEF Retry
<1>4. CASE GiveUp(c) \/ Return(c)
  BY <1>1, <1>4 DEF GiveUp, Return, Idle
<1> QED  BY <1>2, <1>3, <1>4 DEF PlaceBid, CreateAuction

\* Call numbers are used once, so a late copy is never taken for another call.
LEMMA MatchedStep == Typed /\ Matched /\ [Next]_vars => Matched'
<1> SUFFICES ASSUME Typed, Matched, [Next]_vars PROVE Matched'
  OBVIOUS
<1>0. /\ calls \in [Callers -> Call] /\ issued \in Nat /\ net \subseteq Message
      /\ \A m \in net : m.caller \in Callers /\ m.call \in Nat
  BY MessageType DEF Typed, TypeOK, Call
<1>1. CASE UNCHANGED <<net, calls, issued>>
  BY <1>1 DEF Matched
<1>2. ASSUME NEW c \in Callers, NEW r, StartCall(c, r) PROVE Matched'
  <2> DEFINE call == [pc |-> "waiting", call |-> issued + 1, try |-> 0, req |-> r,
                      now |-> clock, reply |-> NoReply]
             sent == [caller |-> c, call |-> issued + 1, try |-> 0, req |-> r,
                      now |-> clock]
  <2>1. calls' = [calls EXCEPT ![c] = call] /\ issued' = issued + 1
        /\ net' = net \cup {sent}
    BY <1>2 DEF StartCall, Send
  <2>2. /\ calls'[c] = call /\ call.call = issued + 1 /\ call.req = r
        /\ call.now = clock
        /\ \A d \in Callers : d # c => calls'[d] = calls[d]
    BY <1>0, <2>1
  <2>3. sent.caller = c /\ sent.call = issued + 1 /\ sent.req = r /\ sent.now = clock
    OBVIOUS
  <2> HIDE DEF call, sent
  <2>4. ASSUME NEW m \in net'
        PROVE  /\ m.call <= issued'
               /\ calls'[m.caller].pc # "idle" /\ calls'[m.caller].call = m.call =>
                    m.req = calls'[m.caller].req /\ m.now = calls'[m.caller].now
    <3>1. CASE m = sent
      BY <1>0, <2>1, <2>2, <2>3, <3>1
    <3>2. CASE m \in net
      <4>1. m.call <= issued /\ m.call \in Nat /\ m.caller \in Callers
        BY <1>0, <3>2 DEF Matched
      <4>2. CASE m.caller = c
        BY <1>0, <2>1, <2>2, <4>1, <4>2
      <4>3. CASE m.caller # c
        BY <1>0, <2>1, <2>2, <3>2, <4>1, <4>3 DEF Matched
      <4> QED  BY <4>2, <4>3
    <3> QED  BY <2>1, <3>1, <3>2
  <2>5. \A d \in Callers : calls'[d].pc # "idle" => calls'[d].call <= issued'
    <3>1. \A d \in Callers : calls[d].call \in Nat
      BY <1>0 DEF Call
    <3> QED  BY <1>0, <2>1, <2>2, <3>1 DEF Matched
  <2> QED  BY <2>4, <2>5 DEF Matched
<1>3. ASSUME NEW c \in Callers, Retry(c) PROVE Matched'
  <2> DEFINE call == [calls[c] EXCEPT !.pc = "waiting", !.try = @ + 1,
                                      !.reply = NoReply]
             sent == [caller |-> c, call |-> call.call, try |-> call.try,
                      req |-> call.req, now |-> call.now]
  <2>1. calls' = [calls EXCEPT ![c] = call] /\ issued' = issued
        /\ net' = net \cup {sent} /\ calls[c].pc # "idle"
    BY <1>3 DEF Retry, Send
  <2>2. call.call = calls[c].call /\ call.req = calls[c].req /\ call.now = calls[c].now
    <3>1. calls[c] \in Call
      BY <1>0
    <3> QED  BY <3>1 DEF Call
  <2>3. /\ calls'[c] = call
        /\ \A d \in Callers : d # c => calls'[d] = calls[d]
    BY <1>0, <2>1
  <2>4. sent.caller = c /\ sent.call = calls[c].call /\ sent.req = calls[c].req
        /\ sent.now = calls[c].now
    BY <2>2
  <2> HIDE DEF call, sent
  <2>5. calls[c].call <= issued
    BY <2>1 DEF Matched
  <2> QED
    BY <1>0, <2>1, <2>2, <2>3, <2>4, <2>5 DEF Matched
<1>4. ASSUME NEW c \in Callers, GiveUp(c) \/ Return(c) PROVE Matched'
  <2>1. calls' = [calls EXCEPT ![c] = Idle] /\ UNCHANGED <<net, issued>>
    BY <1>4 DEF GiveUp, Return
  <2>2. calls'[c].pc = "idle" /\ \A d \in Callers : d # c => calls'[d] = calls[d]
    BY <1>0, <2>1 DEF Idle
  <2> QED  BY <1>0, <2>1, <2>2 DEF Matched
<1>5. ASSUME NEW m \in net, NEW kind, NEW result, Answer(m, kind, result)
      PROVE  Matched'
  <2>1. net' \subseteq net /\ issued' = issued
    BY <1>5 DEF Answer
  <2>2. \A c \in Callers :
          /\ calls'[c].call = calls[c].call /\ calls'[c].req = calls[c].req
          /\ calls'[c].now = calls[c].now
          /\ calls'[c].pc # "idle" => calls[c].pc # "idle"
    BY <1>5, AnswerCalls
  <2> QED  BY <1>0, <2>1, <2>2 DEF Matched
<1>6. ASSUME NEW m \in net, bidScript(m) \/ SetAuction(m) PROVE Matched'
  BY <1>5, <1>6 DEF bidScript, BidDuplicate, BidNotFound, BidClosed, BidEnded,
     BidTooLow, BidAccepted, SetAuction
<1> QED
  BY <1>1, <1>2, <1>3, <1>4, <1>6 DEF Next, PlaceBid, CreateAuction, Tick, vars

-----------------------------------------------------------------------------
(* What a result says.                                                     *)

\* A refusal does not say "accepted", whatever the user id it reports.
LEMMA RefusalTold ==
  ASSUME Typed, NEW m \in net, NEW reason \in Reasons
  PROVE  ~decodeCachedResult(Refusal(m, reason)).accepted
<1> DEFINE price == Tonumber(state.current_price)
           told == decodeCachedResult(Refusal(m, reason))
<1>1. m.now \in Nat /\ price \in Int /\ state.version \in Nat
      /\ state.winner \in Users \cup {NoUser}
  BY MessageType DEF Typed, TypeOK, NumText, Tonumber
<1>2. state.winner \in Seq(Words) /\ state.winner # << >>
  BY <1>1, UserType
<1>3. told = decodeCachedResult(encode("0", reason, price, state.winner,
                                       state.version, 0, m.now))
  BY DEF Refusal
<1> HIDE DEF price, told
<1>4. 0 \in Nat /\ "0" \in {"0", "1"} /\ "0" # "1"
  OBVIOUS
<1>5. TellsFront(told, "0", reason, price)
  BY <1>1, <1>2, <1>3, <1>4, DecodedFront, Zenon
<1>6. ~told.accepted
  BY <1>4, <1>5, Zenon DEF TellsFront
<1> QED  BY <1>6 DEF told

\* Nor does the answer that there is no such auction.
LEMMA NotFoundTold ==
  ASSUME Typed, NEW m \in net
  PROVE  ~decodeCachedResult(encode("0", "auction_not_found", 0, NoUser, 0, 0,
                                    m.now)).accepted
<1> DEFINE told == decodeCachedResult(encode("0", "auction_not_found", 0, NoUser,
                                             0, 0, m.now))
<1>1. NoUser \in Seq(Words) /\ NoUser # << >>
  BY UserType
<1>2. /\ m.now \in Nat /\ 0 \in Nat /\ 0 \in Int /\ "0" \in {"0", "1"} /\ "0" # "1"
      /\ "auction_not_found" \in Reasons
  BY MessageType DEF Typed, TypeOK, Reasons
<1>3. TellsFront(told, "0", "auction_not_found", 0)
  <2> HIDE DEF NoUser
  <2> QED  BY <1>1, <1>2, DecodedFront, Zenon
<1> HIDE DEF told
<1>4. ~told.accepted
  BY <1>2, <1>3, Zenon DEF TellsFront
<1> QED  BY <1>4 DEF told

\* The fields behind a user id without separators are read as they were written.
TellsBack(told, winner, version, event) ==
  /\ told.winner = winner
  /\ told.version = ParseInt64(Tostring(version))
  /\ told.event = EventId(event)

LEMMA DecodedBack ==
  ASSUME NEW accepted \in {"0", "1"}, NEW reason \in Reasons, NEW price \in Int,
         NEW winner \in Seq(Words), Len(winner) = 1,
         NEW version \in Nat, NEW event \in Nat, NEW nowMs \in Nat
  PROVE  TellsBack(decodeCachedResult(
                     encode(accepted, reason, price, winner, version, event, nowMs)),
                   winner, version, event)
<1> DEFINE text == encode(accepted, reason, price, winner, version, event, nowMs)
<1>1. winner # << >> /\ winner = <<winner[1]>>
  <2> DEFINE one == <<winner[1]>>
  <2>1. one \in Seq(Words) /\ Len(one) = 1 /\ one[1] = winner[1]
    OBVIOUS
  <2> HIDE DEF one
  <2>2. \A i \in 1 .. Len(winner) : winner[i] = one[i]
    BY <2>1
  <2>3. winner = one
    BY <2>1, <2>2
  <2>4. winner # << >>
    OBVIOUS
  <2> QED  BY <2>3, <2>4, Zenon DEF one
<1>2. Encodes(text, accepted, reason, price, winner, version, event, nowMs)
  BY <1>1, EncodePieces, Zenon
<1> HIDE DEF text
<1>3. /\ Len(text) = 7 /\ text[4] = Word(winner[1])
      /\ text[5] = Number(Tostring(version)) /\ text[6] = EventId(event)
  BY <1>2 DEF Encodes
<1>4. SplitN(text, 7) = text
  BY <1>3 DEF SplitN
<1>5. /\ text[4].word = winner[1]
      /\ ParseInt64(text[5].num) = ParseInt64(Tostring(version))
  BY <1>3 DEF Word, Number
<1>6. /\ decodeCachedResult(text).winner = <<SplitN(text, 7)[4].word>>
      /\ decodeCachedResult(text).version = ParseInt64(SplitN(text, 7)[5].num)
      /\ decodeCachedResult(text).event = SplitN(text, 7)[6]
  BY DEF decodeCachedResult
<1>7. decodeCachedResult(text).winner = winner
  BY <1>1, <1>4, <1>5, <1>6, Zenon
<1>8. TellsBack(decodeCachedResult(text), winner, version, event)
  BY <1>3, <1>4, <1>5, <1>6, <1>7, Zenon DEF TellsBack
<1> QED  BY <1>8 DEF text

\* The result that the script writes for a bid it accepts.
AcceptedText(m) ==
  encode("1", "accepted", m.req.amount, m.req.user, state.version + 1,
         Len(events) + 1, m.now)

LEMMA AcceptedTold ==
  ASSUME Typed, NEW m \in net, BidAccepted(m)
  PROVE  LET told == decodeCachedResult(AcceptedText(m))
         IN  /\ told.price = ParseInt64(Tostring(m.req.amount))
             /\ Len(m.req.user) = 1 =>
                  TellsBack(told, m.req.user, state.version + 1, Len(events) + 1)
<1>1. /\ m.req.amount \in Int /\ m.req.user \in Users
  BY AcceptedStep
<1>2. m.now \in Nat /\ state.version + 1 \in Nat /\ Len(events) + 1 \in Nat
  BY MessageType DEF Typed, TypeOK
<1>3. m.req.user \in Seq(Words) /\ m.req.user # << >>
  BY <1>1, UserType
<1>4. "1" \in {"0", "1"} /\ "accepted" \in Reasons
  BY DEF Reasons
<1> DEFINE told == decodeCachedResult(AcceptedText(m))
           version == state.version + 1
           place == Len(events) + 1
           amount == m.req.amount
           user == m.req.user
<1>5. told = decodeCachedResult(encode("1", "accepted", amount, user, version,
                                       place, m.now))
  BY DEF AcceptedText
<1>6. amount \in Int /\ user \in Seq(Words) /\ user # << >> /\ version \in Nat
      /\ place \in Nat
  BY <1>1, <1>2, <1>3
<1> HIDE DEF told, version, place, amount, user
<1>7. TellsFront(told, "1", "accepted", amount)
  BY <1>2, <1>4, <1>5, <1>6, DecodedFront, Zenon
<1>8. Len(user) = 1 => TellsBack(told, user, version, place)
  BY <1>2, <1>4, <1>5, <1>6, DecodedBack, Zenon
<1> QED
  BY <1>7, <1>8 DEF TellsFront, told, version, place, amount, user

\* Initially nothing is on its way and nobody has a reply.
LEMMA RepliesInit == Init => Matched /\ Stamped /\ RepliesInv /\ KeptInv
<1> SUFFICES ASSUME Init PROVE Matched /\ Stamped /\ RepliesInv /\ KeptInv
  OBVIOUS
<1>1. net = {} /\ \A c \in Callers : calls[c].pc = "idle"
  BY DEF Init, Idle
<1>2. Matched /\ Stamped
  BY <1>1 DEF Matched, Stamped
<1>3. RepliesInv
  BY <1>1 DEF Init, EmptyHash, RepliesInv, CachedLogged, ReadLogged, HasReply
<1>4. KeptInv
  BY <1>1 DEF KeptInv, KeptFor
<1> QED  BY <1>2, <1>3, <1>4

-----------------------------------------------------------------------------
(* An accepted bid is on the stream.                                       *)

\* What is on the log stays there.
LEMMA LogGrows ==
  ASSUME NEW log \in Seq(AuctionEvent), NEW event, NEW bid, NEW text,
         TellsIn(log, bid, text)
  PROVE  TellsIn(Append(log, event), bid, text)
<1>1. /\ Len(Append(log, event)) = Len(log) + 1 /\ Len(log) \in Nat
      /\ \A n \in 1 .. Len(log) : Append(log, event)[n] = log[n]
  OBVIOUS
<1> DEFINE told == decodeCachedResult(text)
<1> HIDE DEF told
<1>2. SUFFICES ASSUME told.accepted
               PROVE  \E n \in 1 .. Len(log) + 1 :
                        LoggedAs(Append(log, event), n, bid, told)
  BY <1>1 DEF TellsIn, told
<1>3. PICK n \in 1 .. Len(log) : LoggedAs(log, n, bid, told)
  BY <1>2 DEF TellsIn, told
<1>4. LoggedAs(Append(log, event), n, bid, told)
  BY <1>1, <1>3 DEF LoggedAs
<1> QED  BY <1>1, <1>3, <1>4

\* The result of an accepted bid is that of the event it has appended.
LEMMA AcceptedLogged ==
  ASSUME Typed, LogMatchesState, NEW m \in net, BidAccepted(m),
         Len(m.req.user) = 1, Len(events') < SigLimit
  PROVE  TellsIn(events', m.req.bid, AcceptedText(m))
<1> DEFINE told == decodeCachedResult(AcceptedText(m))
           n == Len(events)
           event == [bid |-> m.req.bid, user |-> m.req.user,
                     amount |-> Tostring(m.req.amount),
                     version |-> state.version + 1, ts |-> m.now]
<1>1. events' = Append(events, event)
  BY AcceptedStep
<1>2. /\ event.bid = m.req.bid /\ event.user = m.req.user
      /\ event.amount = Tostring(m.req.amount) /\ event.version = state.version + 1
  OBVIOUS
<1>3. /\ told.price = ParseInt64(Tostring(m.req.amount))
      /\ TellsBack(told, m.req.user, state.version + 1, Len(events) + 1)
  BY AcceptedTold
<1> HIDE DEF event, told
<1>4. /\ n \in Nat /\ Len(events') = n + 1 /\ events'[n + 1] = event
      /\ state.version \in Nat /\ state.version <= n
  BY <1>1 DEF Typed, TypeOK, LogMatchesState
<1>5. ParseInt64(Tostring(state.version + 1)) = state.version + 1
  BY <1>4, NumberRead, SigLimitAssumption DEF Number, Exact
<1>6. LoggedAs(events', n + 1, m.req.bid, told)
  BY <1>2, <1>3, <1>4, <1>5 DEF LoggedAs, TellsBack
<1> QED  BY <1>4, <1>6 DEF TellsIn, told

\* A command that is answered with a result that is on the log, and caches it
\* or leaves the hash alone, keeps what is cached and read on the log.
LEMMA CommandLogged ==
  ASSUME Typed, Matched, CachedLogged, ReadLogged, NEW m \in net, NEW kind,
         NEW result, Answer(m, kind, result),
         events' = events \/ \E event : events' = Append(events, event),
         TellsIn(events', m.req.bid, result),
         UNCHANGED idem \/ cache(m.req.bid, result)
  PROVE  CachedLogged' /\ ReadLogged'
<1>1. \A bid, text : TellsIn(events, bid, text) => TellsIn(events', bid, text)
  <2>1. events \in Seq(AuctionEvent)
    BY DEF Typed, TypeOK
  <2>2. CASE events' = events
    BY <2>2, Zenon
  <2>3. ASSUME NEW event, events' = Append(events, event), NEW bid, NEW text,
               TellsIn(events, bid, text)
        PROVE  TellsIn(events', bid, text)
    BY <2>1, <2>3, LogGrows, Zenon
  <2> QED  BY <2>2, <2>3, Zenon
<1>2. CachedLogged'
  <2> SUFFICES ASSUME NEW b \in DOMAIN idem' PROVE TellsIn(events', b, idem'[b])
    BY DEF CachedLogged
  <2>1. \/ b \in DOMAIN idem /\ idem'[b] = idem[b]
        \/ b = m.req.bid /\ idem'[b] = result
    <3>1. CASE UNCHANGED idem
      BY <3>1
    <3>2. CASE cache(m.req.bid, result)
      BY <3>2 DEF cache, EmptyHash
    <3> QED  BY <3>1, <3>2
  <2> QED  BY <1>1, <2>1 DEF CachedLogged
<1>3. ReadLogged'
  <2> SUFFICES ASSUME NEW c \in Callers, HasReply(c)'
               PROVE  TellsIn(events', calls'[c].req.bid, calls'[c].reply.result)
    BY DEF ReadLogged
  <2>1. CASE calls'[c] = calls[c]
    BY <1>1, <2>1 DEF ReadLogged, HasReply
  <2>2. CASE calls'[c].req = m.req /\ calls'[c].reply = [kind |-> kind, result |-> result]
    BY <2>2
  <2> QED  BY <2>1, <2>2, AnswerCalls
<1> QED  BY <1>2, <1>3

LEMMA RepliesStep ==
  ASSUME \A r \in BidRequests : Len(r.user) = 1
  PROVE  Typed /\ LogMatchesState /\ Matched /\ RepliesInv /\ [Next]_vars =>
           RepliesInv'
<1> SUFFICES ASSUME Typed, LogMatchesState, Matched, RepliesInv, [Next]_vars,
                    Len(events') < SigLimit
             PROVE  CachedLogged' /\ ReadLogged'
  BY DEF RepliesInv
<1>0. CachedLogged /\ ReadLogged
  <2>1. events \in Seq(AuctionEvent) /\ Len(events) \in Nat
    BY DEF Typed, TypeOK
  <2>2. \/ events' = events
        \/ \E event : events' = Append(events, event)
    BY QuietSteps, AcceptedStep DEF SetAuction
  <2>3. Len(events) <= Len(events') /\ Len(events') \in Nat
    BY <2>1, <2>2
  <2> QED  BY <2>1, <2>3, SigLimitAssumption DEF RepliesInv
<1>1. CASE UNCHANGED <<events, calls, idem>>
  BY <1>0, <1>1 DEF CachedLogged, ReadLogged, HasReply
<1>2. CASE Tick
  BY <1>0, <1>2 DEF Tick, EmptyHash, CachedLogged, ReadLogged, HasReply
<1>3. ASSUME NEW c \in Callers,
             \/ \E r \in BidRequests : PlaceBid(c, r)
             \/ \E r \in CreateRequests : CreateAuction(c, r)
             \/ Retry(c) \/ GiveUp(c) \/ Return(c)
      PROVE  CachedLogged' /\ ReadLogged'
  <2>1. /\ calls'[c].pc # "replied"
        /\ \A d \in Callers : d # c => calls'[d] = calls[d]
        /\ UNCHANGED <<events, idem>>
    BY <1>3, CallersSteps DEF redis
  <2> QED  BY <1>0, <2>1 DEF CachedLogged, ReadLogged, HasReply
<1>4. ASSUME NEW m \in net, BidDuplicate(m) PROVE CachedLogged' /\ ReadLogged'
  <2>1. /\ Answer(m, "DUP", idem[m.req.bid]) /\ UNCHANGED <<events, idem>>
        /\ TellsIn(events, m.req.bid, idem[m.req.bid])
    BY <1>0, <1>4 DEF BidDuplicate, redis, CachedLogged
  <2> QED  BY <1>0, <2>1, CommandLogged
<1>5. ASSUME NEW m \in net, BidNotFound(m) PROVE CachedLogged' /\ ReadLogged'
  <2> DEFINE result == encode("0", "auction_not_found", 0, NoUser, 0, 0, m.now)
  <2>1. Answer(m, "ERR", result) /\ UNCHANGED <<events, idem>>
    BY <1>5 DEF BidNotFound, redis
  <2>2. TellsIn(events', m.req.bid, result)
    BY NotFoundTold DEF TellsIn
  <2> HIDE DEF result
  <2> QED  BY <1>0, <2>1, <2>2, CommandLogged
<1>6. ASSUME NEW m \in net, BidClosed(m) \/ BidEnded(m) \/ BidTooLow(m)
      PROVE  CachedLogged' /\ ReadLogged'
  <2>1. PICK reason \in Reasons : /\ Answer(m, "OK", Refusal(m, reason))
                                  /\ cache(m.req.bid, Refusal(m, reason))
    BY <1>6 DEF BidClosed, BidEnded, BidTooLow, Reasons
  <2>2. UNCHANGED events
    BY <1>6 DEF BidClosed, BidEnded, BidTooLow
  <2>3. TellsIn(events', m.req.bid, Refusal(m, reason))
    BY RefusalTold DEF TellsIn
  <2> QED  BY <1>0, <2>1, <2>2, <2>3, CommandLogged
<1>7. ASSUME NEW m \in net, BidAccepted(m) PROVE CachedLogged' /\ ReadLogged'
  <2>1. /\ Answer(m, "OK", AcceptedText(m)) /\ cache(m.req.bid, AcceptedText(m))
    BY <1>7 DEF BidAccepted, AcceptedText
  <2>2. m.req \in BidRequests /\ \E event : events' = Append(events, event)
    BY <1>7, AcceptedStep
  <2>3. TellsIn(events', m.req.bid, AcceptedText(m))
    BY <1>7, <2>2, AcceptedLogged
  <2> QED  BY <1>0, <2>1, <2>2, <2>3, CommandLogged
<1>8. ASSUME NEW m \in net, SetAuction(m) PROVE CachedLogged' /\ ReadLogged'
  <2>1. /\ m.req.op = "create" /\ Answer(m, "HSET", NoReply)
        /\ UNCHANGED <<events, idem>>
    BY <1>8 DEF SetAuction
  <2>2. \A c \in Callers : HasReply(c)' => calls'[c] = calls[c]
    BY <2>1, AnswerCalls DEF HasReply
  <2> QED  BY <1>0, <2>1, <2>2 DEF CachedLogged, ReadLogged, HasReply
<1> QED
  BY <1>1, <1>2, <1>3, <1>4, <1>5, <1>6, <1>7, <1>8 DEF Next, bidScript, vars

\* A caller told "accepted", at once, after a retry or as a duplicate, finds the
\* bid on the stream, as long as user ids hold no separator and the stream has
\* fewer events than tostring can print.
THEOREM AcceptedCanBeFound ==
  ASSUME \A r \in BidRequests : Len(r.user) = 1
  PROVE  Spec => [](Len(events) < SigLimit => AcceptedIsLogged)
<1>1. Typed /\ LogMatchesState /\ Matched /\ RepliesInv /\ [Next]_vars => RepliesInv'
  BY RepliesStep
<1>2. Init => Matched /\ RepliesInv
  BY RepliesInit
<1>3. RepliesInv => (Len(events) < SigLimit => AcceptedIsLogged)
  BY DEF RepliesInv, ReadLogged, HasReply, TellsIn, LoggedAs, AcceptedIsLogged,
     ToldAccepted, Told
<1> QED
  BY <1>1, <1>2, <1>3, TypedInit, TypedStep, LogInit, LogStep, MatchedStep, PTL
     DEF Spec

-----------------------------------------------------------------------------
(* A decision is kept for its window.                                      *)

LEMMA StampedStep == Typed /\ Matched /\ Stamped /\ [Next]_vars => Stamped'
<1> SUFFICES ASSUME Typed, Matched, Stamped, [Next]_vars PROVE Stamped'
  OBVIOUS
<1>0. /\ calls \in [Callers -> Call] /\ clock \in Nat
      /\ \A m \in net : m.now \in Nat
      /\ \A c \in Callers : calls[c].now \in Nat
  BY MessageType DEF Typed, TypeOK, Call
<1>1. CASE UNCHANGED <<net, calls, clock>>
  BY <1>1 DEF Stamped
<1>2. CASE Tick
  BY <1>0, <1>2 DEF Tick, Stamped
<1>3. ASSUME NEW c \in Callers, NEW r, StartCall(c, r) PROVE Stamped'
  <2> DEFINE call == [pc |-> "waiting", call |-> issued + 1, try |-> 0, req |-> r,
                      now |-> clock, reply |-> NoReply]
             sent == [caller |-> c, call |-> issued + 1, try |-> 0, req |-> r,
                      now |-> clock]
  <2>1. calls' = [calls EXCEPT ![c] = call] /\ clock' = clock
        /\ net' = net \cup {sent}
    BY <1>3 DEF StartCall, Send
  <2>2. call.now = clock /\ sent.now = clock
    OBVIOUS
  <2> HIDE DEF call, sent
  <2> QED  BY <1>0, <2>1, <2>2 DEF Stamped
<1>4. ASSUME NEW c \in Callers, Retry(c) PROVE Stamped'
  <2> DEFINE call == [calls[c] EXCEPT !.pc = "waiting", !.try = @ + 1,
                                      !.reply = NoReply]
             sent == [caller |-> c, call |-> call.call, try |-> call.try,
                      req |-> call.req, now |-> call.now]
  <2>1. calls' = [calls EXCEPT ![c] = call] /\ clock' = clock
        /\ net' = net \cup {sent} /\ calls[c].pc # "idle"
    BY <1>4 DEF Retry, Send
  <2>2. call.now = calls[c].now
    <3>1. calls[c] \in Call
      BY <1>0
    <3> QED  BY <3>1 DEF Call
  <2>3. sent.now = calls[c].now
    BY <2>2
  <2> HIDE DEF call, sent
  <2> QED  BY <1>0, <2>1, <2>2, <2>3 DEF Stamped
<1>5. ASSUME NEW c \in Callers, GiveUp(c) \/ Return(c) PROVE Stamped'
  <2>1. calls' = [calls EXCEPT ![c] = Idle] /\ UNCHANGED <<net, clock>>
    BY <1>5 DEF GiveUp, Return
  <2>2. calls'[c].pc = "idle" /\ \A d \in Callers : d # c => calls'[d] = calls[d]
    BY <1>0, <2>1 DEF Idle
  <2> QED  BY <1>0, <2>1, <2>2 DEF Stamped
<1>6. ASSUME NEW m \in net, NEW kind, NEW result, Answer(m, kind, result),
             clock' = clock
      PROVE  Stamped'
  <2>1. net' \subseteq net
    BY <1>6 DEF Answer
  <2>2. \A c \in Callers :
          calls'[c] = calls[c] \/ (calls'[c].now = calls[c].now /\ calls[c].pc # "idle")
    BY <1>6, AnswerCalls
  <2> QED  BY <1>0, <1>6, <2>1, <2>2 DEF Stamped
<1>7. ASSUME NEW m \in net, bidScript(m) \/ SetAuction(m) PROVE Stamped'
  BY <1>6, <1>7 DEF bidScript, BidDuplicate, BidNotFound, BidClosed, BidEnded,
     BidTooLow, BidAccepted, SetAuction
<1> QED
  BY <1>1, <1>2, <1>3, <1>4, <1>5, <1>7 DEF Next, PlaceBid, CreateAuction, vars

\* A new decision is cached for a window from now, which is not before the end of
\* any window that began earlier; the other decisions are of other bids.
LEMMA DecisionKept ==
  ASSUME Typed, Matched, Stamped, KeptInv, IdemTTL > 0, NEW m \in net, Fresh(m),
         NEW result, cache(m.req.bid, result), Answer(m, "OK", result),
         clock' = clock, NEW c \in Callers
  PROVE  KeptFor(calls[c])'
<1>0. /\ clock \in Nat /\ IdemTTL \in Int /\ m.now \in Nat /\ m.now <= clock
      /\ calls[c].now \in Nat
      /\ calls[c].pc # "idle" => calls[c].now <= clock
  BY MessageType, SettingAssumption DEF Typed, TypeOK, Stamped
<1>1. /\ idemUntil' = clock + IdemTTL
      /\ idem' = [b \in DOMAIN idem \cup {m.req.bid} |->
                    IF b = m.req.bid THEN result ELSE idem[b]]
  BY DEF cache
<1>2. CASE calls'[c] = calls[c]
  <2> SUFFICES ASSUME calls[c].pc = "replied", calls[c].reply.kind = "OK",
                      clock <= calls[c].now + IdemTTL
               PROVE  /\ calls[c].req.bid \in DOMAIN idem'
                      /\ idem'[calls[c].req.bid] = calls[c].reply.result
                      /\ calls[c].now + IdemTTL <= idemUntil'
    BY <1>2 DEF KeptFor
  <2>1. /\ calls[c].req.bid \in DOMAIN idem
        /\ idem[calls[c].req.bid] = calls[c].reply.result
    BY DEF KeptInv, KeptFor
  <2>2. calls[c].req.bid # m.req.bid
    BY <2>1 DEF Fresh
  <2>3. calls[c].req.bid \in DOMAIN idem'
    BY <1>1, <2>1
  <2>4. idem'[calls[c].req.bid] = calls[c].reply.result
    BY <1>1, <2>1, <2>2
  <2>5. calls[c].now <= clock
    BY <1>0
  <2>6. calls[c].now + IdemTTL <= idemUntil'
    BY <1>0, <1>1, <2>5
  <2> QED  BY <2>3, <2>4, <2>6
<1>3. CASE /\ calls'[c].req = m.req /\ calls'[c].now = m.now
           /\ calls'[c].reply = [kind |-> "OK", result |-> result]
  BY <1>0, <1>1, <1>3 DEF KeptFor
<1> QED  BY <1>2, <1>3, AnswerCalls

LEMMA KeptStep ==
  Typed /\ Matched /\ Stamped /\ KeptInv /\ [Next]_vars => KeptInv'
<1> SUFFICES ASSUME Typed, Matched, Stamped, KeptInv, [Next]_vars, IdemTTL > 0,
                    NEW c \in Callers
             PROVE  KeptFor(calls[c])'
  BY DEF KeptInv
<1>0. KeptFor(calls[c])
  BY DEF KeptInv
<1>1. CASE calls'[c] = calls[c] /\ UNCHANGED <<clock, idem, idemUntil>>
  BY <1>0, <1>1 DEF KeptFor
<1>2. CASE calls'[c].pc # "replied"
  BY <1>2 DEF KeptFor
<1>3. CASE Tick
  <2>1. /\ clock \in Nat /\ clock' = clock + 1 /\ idemUntil' = idemUntil
        /\ calls' = calls /\ calls[c].now \in Nat /\ idemUntil \in Int
        /\ IdemTTL \in Int
        /\ clock' <= idemUntil => idem' = idem
    BY <1>3, SettingAssumption DEF Tick, Typed, TypeOK
  <2>2. SUFFICES ASSUME calls[c].pc = "replied", calls[c].reply.kind = "OK",
                        clock' <= calls[c].now + IdemTTL
                 PROVE  /\ calls[c].req.bid \in DOMAIN idem'
                        /\ idem'[calls[c].req.bid] = calls[c].reply.result
                        /\ calls[c].now + IdemTTL <= idemUntil'
    BY <2>1 DEF KeptFor
  <2>3. /\ calls[c].req.bid \in DOMAIN idem
        /\ idem[calls[c].req.bid] = calls[c].reply.result
        /\ calls[c].now + IdemTTL <= idemUntil
    BY <1>0, <2>1, <2>2 DEF KeptFor
  <2>4. idem' = idem
    BY <2>1, <2>2, <2>3
  <2> QED  BY <2>1, <2>3, <2>4
<1>4. ASSUME NEW d \in Callers,
             \/ \E r \in BidRequests : PlaceBid(d, r)
             \/ \E r \in CreateRequests : CreateAuction(d, r)
             \/ Retry(d) \/ GiveUp(d) \/ Return(d)
      PROVE  KeptFor(calls[c])'
  <2>1. UNCHANGED <<clock, idem, idemUntil>>
    BY <1>4 DEF PlaceBid, CreateAuction, StartCall, Retry, GiveUp, Return, redis
  <2> QED  BY <1>1, <1>2, <1>4, <2>1, CallersSteps
<1>5. ASSUME NEW m \in net, BidDuplicate(m) \/ BidNotFound(m) \/ SetAuction(m)
      PROVE  KeptFor(calls[c])'
  <2>1. PICK kind, result :
          kind \in {"DUP", "ERR", "HSET"} /\ Answer(m, kind, result)
    BY <1>5 DEF BidDuplicate, BidNotFound, SetAuction
  <2>2. UNCHANGED <<clock, idem, idemUntil>>
    BY <1>5 DEF BidDuplicate, BidNotFound, SetAuction, redis
  <2>3. CASE calls'[c].reply = [kind |-> kind, result |-> result]
    BY <2>1, <2>3 DEF KeptFor
  <2> QED  BY <1>1, <2>1, <2>2, <2>3, AnswerCalls
<1>6. ASSUME NEW m \in net,
             BidClosed(m) \/ BidEnded(m) \/ BidTooLow(m) \/ BidAccepted(m)
      PROVE  KeptFor(calls[c])'
  <2>1. PICK result : cache(m.req.bid, result) /\ Answer(m, "OK", result)
    BY <1>6 DEF BidClosed, BidEnded, BidTooLow, BidAccepted
  <2>2. Fresh(m) /\ clock' = clock
    BY <1>6 DEF BidClosed, BidEnded, BidTooLow, BidAccepted, StillOpen
  <2> QED  BY <2>1, <2>2, DecisionKept
<1>7. CASE UNCHANGED vars
  BY <1>1, <1>7 DEF vars
<1> QED
  BY <1>3, <1>4, <1>5, <1>6, <1>7 DEF Next, bidScript

\* A caller that asks again within the window is given the decision it was given
\* before, for any callers, retries, late commands, creations and window.
THEOREM DecisionsAreKept == Spec => []AnswerIsKept
<1>1. KeptInv => AnswerIsKept
  BY DEF KeptInv, KeptFor, AnswerIsKept
<1> QED
  BY <1>1, RepliesInit, TypedInit, TypedStep, MatchedStep, StampedStep, KeptStep,
     PTL DEF Spec

=============================================================================
