--------------------------- MODULE Server_proofs ----------------------------
(* Proofs about the server process, for any environments and any numbers of *)
(* calls, requests and sockets.                                             *)
EXTENDS Server, TLAPS

-----------------------------------------------------------------------------
(* The settings.                                                           *)

\* Load evaluates every numeric setting.
LEMMA LoadOrderCovers == \A k \in Keys : \E i \in 1 .. 12 : LoadOrder[i] = k
  BY DEF Keys, IntKeys, DurationKeys, LoadOrder

LEMMA LeastOfTwelve ==
  ASSUME NEW S \in SUBSET (1 .. 12), S # {}
  PROVE  \E i \in S : \A j \in S : i <= j
<1> DEFINE Least(n) == (\E i \in S : i <= n) => \E i \in S : \A j \in S : i <= j
<1>1. Least(0)
  OBVIOUS
<1>2. ASSUME NEW n \in Nat, Least(n) PROVE Least(n + 1)
  <2>1. CASE \E i \in S : i <= n
    BY <1>2, <2>1
  <2>2. CASE ~ \E i \in S : i <= n
    <3>1. \A j \in S : n + 1 <= j
      BY <2>2
    <3> QED  BY <3>1
  <2> QED  BY <2>1, <2>2
<1> HIDE DEF Least
<1>3. Least(1) /\ Least(2) /\ Least(3) /\ Least(4)
  BY <1>1, <1>2
<1>4. Least(5) /\ Least(6) /\ Least(7) /\ Least(8)
  BY <1>2, <1>3
<1>5. Least(9) /\ Least(10) /\ Least(11) /\ Least(12)
  BY <1>2, <1>4
<1>6. \E i \in S : i <= 12
  <2>1. PICK i : i \in S
    OBVIOUS
  <2> QED  BY <2>1
<1>7. Least(12)
  BY <1>5
<1> QED  BY <1>6, <1>7, Zenon DEF Least

\* Load returns without an error only if every setting is unset or well-formed.
LEMMA LoadChecksAll ==
  ASSUME NEW env \in [Keys -> EnvText], FirstError(env) = 0,
         NEW k \in Keys
  PROVE  env[k] = Unset \/ WellFormed(k, env[k])
<1> DEFINE bad == {i \in 1 .. Len(LoadOrder) :
                     ~getEnvNumber(LoadOrder[i], env[LoadOrder[i]]).ok}
<1>1. Len(LoadOrder) = 12
  BY DEF LoadOrder
<1>2. bad = {}
  <2>1. SUFFICES ASSUME bad # {} PROVE FALSE
    OBVIOUS
  <2>2. bad \in SUBSET (1 .. 12)
    BY <1>1
  <2> HIDE DEF bad
  <2>3. \E i \in bad : \A j \in bad : i <= j
    BY <2>1, <2>2, LeastOfTwelve
  <2>4. (CHOOSE i \in bad : \A j \in bad : i <= j) \in bad
    BY <2>3
  <2>5. FirstError(env) = CHOOSE i \in bad : \A j \in bad : i <= j
    BY <2>1 DEF FirstError, bad
  <2>6. 0 \notin bad
    BY <2>2
  <2> QED  BY <2>4, <2>5, <2>6, Zenon
<1>3. PICK i \in 1 .. 12 : LoadOrder[i] = k
  BY LoadOrderCovers
<1>4. getEnvNumber(k, env[k]).ok
  BY <1>1, <1>2, <1>3
<1> QED  BY <1>4 DEF getEnvNumber

\* An int32 has its width.
LEMMA Int32Width ==
  ASSUME NEW n \in Int
  PROVE  int32(n) \in -Int32Half .. Int32Half - 1
<1> DEFINE a == n + Int32Half
           b == 2 * Int32Half
<1>1. a \in Int /\ b \in Nat /\ b > 0 /\ Int32Half \in Nat
  BY WidthAssumption
<1>2. b = 2 * Int32Half /\ int32(n) = (a % b) - Int32Half
  BY DEF int32
<1> HIDE DEF a, b
<1>3. a % b \in 0 .. b - 1
  BY <1>1
<1> QED  BY <1>1, <1>2, <1>3

\* What Load returns for a setting is a number, also where it is no well-formed
\* one.
LEMMA LoadedNumbers ==
  ASSUME environment \in Environments, NEW k \in Keys
  PROVE  Loaded.val[k] \in Int
<1>1. environment.env \in [Keys -> EnvText]
  BY ServerAssumption
<1>2. environment.env[k].n \in Int /\ Fallback[k] \in Int
  BY <1>1 DEF EnvText, Fallback
<1>3. getEnvNumber(k, environment.env[k]).val \in Int
  BY <1>2 DEF getEnvNumber
<1> QED  BY <1>3 DEF Loaded, Load

\* The constructors replace what is not positive, whatever was configured.
LEMMA AssembledOK ==
  ASSUME environment \in Environments, NEW addrs, addrs # << >>,
         service' = Assembled(addrs)
  PROVE  ServiceOK'
<1> DEFINE threshold == Loaded.val["BREAKER_FAILURE_THRESHOLD"]
           openFor == Loaded.val["BREAKER_OPEN_FOR"]
           duration == Loaded.val["DEFAULT_AUCTION_DURATION"]
           count == Loaded.val["STREAM_READ_COUNT"]
<1>1. /\ "BREAKER_OPEN_FOR" \in Keys /\ "DEFAULT_AUCTION_DURATION" \in Keys
      /\ "STREAM_READ_COUNT" \in Keys /\ "BREAKER_FAILURE_THRESHOLD" \in Keys
  BY DEF Keys, IntKeys, DurationKeys
<1>2. /\ threshold \in Int /\ openFor \in Int /\ duration \in Int /\ count \in Int
  BY <1>1, LoadedNumbers, Zenon
<1>3. service' = [built |-> TRUE, clients |-> addrs,
                  breaker |-> newCircuitBreaker(threshold, openFor),
                  duration |-> NewService(duration),
                  count |-> NewEventDispatcher(count)]
  BY DEF Assembled
<1> HIDE DEF threshold, openFor, duration, count
<1>4. /\ NewService(duration) > 0 /\ NewEventDispatcher(count) > 0
      /\ OrDefault(openFor, 500000) > 0 /\ OrDefault(threshold, 5) \in Int
  BY <1>2 DEF NewService, NewEventDispatcher, OrDefault
<1>5. int32(OrDefault(threshold, 5)) \in -Int32Half .. Int32Half - 1
  BY <1>4, Int32Width
<1> QED  BY <1>3, <1>4, <1>5 DEF ServiceOK, newCircuitBreaker

-----------------------------------------------------------------------------
(* The process.                                                            *)

\* Results reported on errCh, and calls while main goes through its steps.
Reported(g) == IF g \in {"unbound", "failed", "done"} THEN 1 ELSE 0
Inv ==
  /\ TypeOK
  /\ errCh <= Reported(grpcServe) + Reported(httpServe)
  /\ grpcServe # "none" \/ httpServe # "none" =>
       pc \notin {"load", "router", "listen", "spawn"}
  /\ pc \in {"listen", "spawn", "notify", "select", "graceful", "drain",
             "shutdown", "waiting", "return"} => router = "open"
  /\ pc \in {"shutdown", "waiting", "return", "exit"} =>
       \A c \in Calls : call[c] # "running"
  /\ \A c \in Calls : /\ call[c] # "lost"
                      /\ call[c] = "running" => router = "open"

USE DEF Goto, mainVars, notPc, goroutines, clients, Starting, Ended, GrpcStopped,
        HttpStopped

LEMMA InvInit == Init => Inv
<1> SUFFICES ASSUME Init PROVE Inv
  OBVIOUS
<1>1. /\ environment \in Environments /\ pc = "load" /\ router = "none"
      /\ grpcServe = "none" /\ httpServe = "none" /\ errCh = 0
      /\ ~signalled /\ ~expired
      /\ signalled \in BOOLEAN /\ expired \in BOOLEAN
  BY DEF Init
<1>2. /\ call \in [Calls -> {"none"}] /\ \A c \in Calls : call[c] = "none"
      /\ request \in [Requests \cup Sockets -> {"none"}]
  BY DEF Init
<1>3. ServiceOK
  BY DEF Init, NoService, ServiceOK
<1> QED  BY <1>1, <1>2, <1>3 DEF Inv, TypeOK, Reported

LEMMA InvNext == Inv /\ [Next]_vars => Inv'
<1> SUFFICES ASSUME Inv, [Next]_vars PROVE Inv'
  OBVIOUS
<1> USE DEF Inv, TypeOK, Reported
<1>0. ServiceOK /\ (service' = service => ServiceOK')
  BY DEF ServiceOK
<1>1. CASE LoadSettings
  BY <1>0, <1>1 DEF LoadSettings
<1>2. CASE NewRedisRouter
  <2>1. service' = service => ServiceOK'
    BY <1>0, Zenon
  <2>2. ServiceOK'
    BY <1>2, <2>1, AssembledOK DEF NewRedisRouter
  <2> QED  BY <1>2, <2>2 DEF NewRedisRouter
<1>3. CASE NewServer
  BY <1>0, <1>3 DEF NewServer
<1>4. CASE Spawn
  BY <1>0, <1>4 DEF Spawn
<1>5. CASE NotifyContext
  BY <1>0, <1>5 DEF NotifyContext
<1>6. CASE Select
  BY <1>0, <1>6 DEF Select
<1>7. CASE StopAccepting
  BY <1>0, <1>7 DEF StopAccepting
<1>8. CASE Drained
  BY <1>0, <1>8 DEF Drained
<1>9. CASE CloseListener
  BY <1>0, <1>9 DEF CloseListener
<1>10. CASE ShutDown
  BY <1>0, <1>10 DEF ShutDown
<1>11. CASE Close
  BY <1>0, <1>11 DEF Close
<1>12. CASE Exit
  BY <1>0, <1>12 DEF Exit
<1>13. CASE GrpcServe
  BY <1>0, <1>13 DEF GrpcServe
<1>14. CASE GrpcFails
  BY <1>0, <1>14 DEF GrpcFails
<1>15. CASE HttpServe
  BY <1>0, <1>15 DEF HttpServe
<1>16. CASE HttpFails
  BY <1>0, <1>16 DEF HttpFails
<1>17. ASSUME NEW c \in Calls, BeginCall(c) PROVE Inv'
  BY <1>0, <1>17 DEF BeginCall
<1>18. ASSUME NEW c \in Calls, EndCall(c) PROVE Inv'
  BY <1>0, <1>18 DEF EndCall
<1>19. ASSUME NEW r \in Requests \cup Sockets, BeginRequest(r) \/ EndRequest(r)
       PROVE Inv'
  BY <1>0, <1>19 DEF BeginRequest, EndRequest
<1>20. CASE Signal
  <2>1. CASE pc \in Starting \cup {"exit"}
    BY <1>0, <1>20, <2>1 DEF Signal
  <2>2. CASE pc \notin Starting \cup {"exit"}
    BY <1>0, <1>20, <2>2 DEF Signal
  <2> QED  BY <2>1, <2>2
<1>21. CASE Timeout
  BY <1>0, <1>21 DEF Timeout
<1>22. CASE UNCHANGED vars
  BY <1>0, <1>22 DEF vars
<1> QED
  BY <1>1, <1>2, <1>3, <1>4, <1>5, <1>6, <1>7, <1>8, <1>9, <1>10, <1>11, <1>12,
     <1>13, <1>14, <1>15, <1>16, <1>17, <1>18, <1>19, <1>20, <1>21, <1>22
     DEF Next, Main

\* For any settings, calls and requests the state keeps its shape, and the
\* goroutines of the two servers find room in errCh.
THEOREM ServerTypeCorrect == Safe => []TypeOK
<1>1. Inv => TypeOK
  BY DEF Inv
<1> QED  BY <1>1, InvInit, InvNext, PTL DEF Safe

\* Every call is answered before router.Close, for any number of calls and
\* however late the drain ends.
THEOREM StoreStaysOpen == Safe => []StoreOutlivesCalls
<1>1. Inv => StoreOutlivesCalls
  BY DEF Inv, StoreOutlivesCalls
<1> QED  BY <1>1, InvInit, InvNext, PTL DEF Safe

\* What main has behind it: it goes past Load only if Load found no error.
Past ==
  /\ environment \in Environments
  /\ pc \notin {"load"} \cup Ended => Loaded.ok
  /\ grpcServe # "none" => Loaded.ok

LEMMA PastAlways == Safe => []Past
<1>1. Init => Past
  BY DEF Init, Past
<1>2. Past /\ [Next]_vars => Past'
  <2> SUFFICES ASSUME Past, [Next]_vars PROVE Past'
    OBVIOUS
  <2> DEFINE Keeps == /\ environment' = environment
                      /\ pc' \notin {"load"} \cup Ended =>
                           pc \notin {"load"} \cup Ended \/ Loaded.ok
                      /\ grpcServe' # "none" =>
                           grpcServe # "none" \/ pc \notin {"load"} \cup Ended
  <2>1. CASE Main
    <3>1. Keeps
      BY <2>1 DEF Main, LoadSettings, NewRedisRouter, NewServer, Spawn,
         NotifyContext, Select, StopAccepting, Drained, CloseListener, ShutDown,
         Close, Exit
    <3> QED  BY <3>1 DEF Past, Loaded
  <2>2. CASE GrpcServe \/ GrpcFails \/ HttpServe \/ HttpFails
    <3>1. Keeps
      BY <2>2 DEF GrpcServe, GrpcFails, HttpServe, HttpFails
    <3> QED  BY <3>1 DEF Past, Loaded
  <2>3. CASE \/ \E c \in Calls : BeginCall(c) \/ EndCall(c)
             \/ \E r \in Requests \cup Sockets : BeginRequest(r) \/ EndRequest(r)
    <3>1. Keeps
      BY <2>3 DEF BeginCall, EndCall, BeginRequest, EndRequest
    <3> QED  BY <3>1 DEF Past, Loaded
  <2>4. CASE Signal \/ Timeout
    <3>1. Keeps
      BY <2>4 DEF Signal, Timeout
    <3> QED  BY <3>1 DEF Past, Loaded
  <2>5. CASE UNCHANGED vars
    <3>1. Keeps
      BY <2>5 DEF vars
    <3> QED  BY <3>1 DEF Past, Loaded
  <2> QED  BY <2>1, <2>2, <2>3, <2>4, <2>5 DEF Next
<1> QED  BY <1>1, <1>2, PTL DEF Safe

\* No server is started with a malformed setting, for any environment.
THEOREM MalformedIsRefused == Safe => []MalformedNeverServes
<1>1. Past => MalformedNeverServes
  <2> SUFFICES ASSUME Past, grpcServe # "none", NEW k \in Keys
               PROVE  \/ environment.env[k] = Unset
                      \/ WellFormed(k, environment.env[k])
    BY DEF MalformedNeverServes
  <2>1. environment.env \in [Keys -> EnvText]
    BY ServerAssumption DEF Past
  <2>2. FirstError(environment.env) = 0
    BY DEF Past, Loaded, Load
  <2> QED  BY <2>1, <2>2, LoadChecksAll
<1> QED  BY <1>1, PastAlways, PTL

=============================================================================
