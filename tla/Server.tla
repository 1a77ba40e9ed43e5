------------------------------- MODULE Server -------------------------------
(***************************************************************************)
(* The server process, from main's first line to its exit: settings, the   *)
(* Redis router, the gRPC and the HTTP server with their goroutines, the   *)
(* error channel, signals and the shutdown.                                *)
(*                                                                         *)
(* pc is main's next step:                                                 *)
(*   "load", "router", "listen", "spawn", "notify"     starting            *)
(*   "select"                                          serving             *)
(*   "graceful", "drain"                               in GracefulStop     *)
(*   "shutdown", "waiting"                             in httpSrv.Shutdown *)
(*   "return", "exit"                                  the deferred calls  *)
(*   "exited", "failed", "killed"                      the process is gone *)
(* A call is a gRPC call, a request an HTTP request that is answered, a    *)
(* socket a request that was upgraded to a WebSocket connection.           *)
(***************************************************************************)
EXTENDS Settings

CONSTANTS
  Calls, Requests, Sockets,
  Environments   \* what the process may be started with: [env, addrs]

ASSUME ServerAssumption ==
  /\ Requests \cap Sockets = {}
  /\ \A e \in Environments : /\ e.env \in [Keys -> EnvText]
                             /\ e.addrs \in Seq([text : STRING, padded : BOOLEAN])

VARIABLES
  environment,
  pc,
  router,      \* the Redis clients: "none", "open" or "closed"
  service,     \* what the constructors made of the settings
  grpcServe,   \* goroutine of grpcSrv.Serve: "none", "start", "serve", "failed", "done"
  httpServe,   \* goroutine of httpSrv.ListenAndServe, "unbound" if it got no port
  errCh,       \* the number of results in the channel
  signalled,   \* sigCtx is done
  expired,     \* shutdownCtx is done
  call,        \* per call: "none", "running", "answered", "lost" or "refused"
  request      \* per request or socket: "none", "running" or "answered"

vars == <<environment, pc, router, service, grpcServe, httpServe, errCh,
          signalled, expired, call, request>>
goroutines == <<grpcServe, httpServe, errCh>>
clients == <<call, request>>
mainVars == <<environment, pc, router, service, signalled, expired>>

notPc == <<environment, router, service, goroutines, signalled, expired, clients>>

Loaded == Load(environment.env, environment.addrs)
Ended == {"exited", "failed", "killed"}
Starting == {"load", "router", "listen", "spawn", "notify"}
NoService == [built |-> FALSE]

Init ==
  /\ environment \in Environments
  /\ pc = "load"
  /\ router = "none"
  /\ service = NoService
  /\ grpcServe = "none"
  /\ httpServe = "none"
  /\ errCh = 0
  /\ signalled = FALSE
  /\ expired = FALSE
  /\ call = [c \in Calls |-> "none"]
  /\ request = [r \in Requests \cup Sockets |-> "none"]

-----------------------------------------------------------------------------
(* main, up to its select.                                                 *)

\* A step of main that only takes it on.
Goto(from, to) == pc = from /\ pc' = to /\ UNCHANGED notPc

LoadSettings == Goto("load", IF Loaded.ok THEN "router" ELSE "failed")

\* The store with its breaker, the service and the dispatcher.
Assembled(addrs) ==
  [built |-> TRUE,
   clients |-> addrs,
   breaker |-> newCircuitBreaker(Loaded.val["BREAKER_FAILURE_THRESHOLD"],
                                 Loaded.val["BREAKER_OPEN_FOR"]),
   duration |-> NewService(Loaded.val["DEFAULT_AUCTION_DURATION"]),
   count |-> NewEventDispatcher(Loaded.val["STREAM_READ_COUNT"])]

\* A client for every address; no connection is made here.
NewRedisRouter ==
  LET addrs == splitAddrs(Loaded.addrs) IN
  /\ pc = "router"
  /\ IF addrs = << >>
     THEN /\ pc' = "failed"
          /\ UNCHANGED <<router, service>>
     ELSE /\ pc' = "listen"
          /\ router' = "open"
          /\ service' = Assembled(addrs)
  /\ UNCHANGED <<environment, goroutines, signalled, expired, clients>>

\* NewServer, which takes the port and makes the channel of tokens: an address
\* in use is an error, a negative capacity a panic.
NewServer ==
  \/ Loaded.val["MAX_INFLIGHT_BIDS"] >= 0 /\ Goto("listen", "spawn")
  \/ Goto("listen", "failed")

Spawn ==
  /\ pc = "spawn"
  /\ pc' = "notify"
  /\ grpcServe' = "start"
  /\ httpServe' = "start"
  /\ UNCHANGED <<environment, router, service, errCh, signalled, expired,
                 clients>>

NotifyContext == Goto("notify", "select")

-----------------------------------------------------------------------------
(* The two servers.  GracefulStop and Shutdown also stop a server whose    *)
(* goroutine has not come to serving.                                      *)

GrpcStopped == pc \notin Starting \cup {"select", "graceful"}
HttpStopped == pc \notin Starting \cup {"select", "graceful", "drain", "shutdown"}

\* Serve returns an error after a stop; a Serve that was stopped while serving
\* first waits for GracefulStop to end.
GrpcServe ==
  /\ pc \notin Ended
  /\ \/ /\ grpcServe = "start"
        /\ ~GrpcStopped
        /\ grpcServe' = "serve"
        /\ UNCHANGED errCh
     \/ /\ GrpcStopped
        /\ grpcServe = "start" \/ (grpcServe = "serve" /\ pc # "drain")
        /\ grpcServe' = "done"
        /\ errCh' = errCh + 1
  /\ UNCHANGED <<mainVars, httpServe, clients>>

\* Mutant: the goroutine reports the error and serves again.
GrpcFailsRetries ==
  /\ pc \notin Ended
  /\ grpcServe = "serve"
  /\ ~GrpcStopped
  /\ grpcServe' = "start"
  /\ errCh' = errCh + 1
  /\ UNCHANGED <<mainVars, httpServe, clients>>

\* Accept fails for good.
GrpcFails ==
  /\ pc \notin Ended
  /\ grpcServe = "serve"
  /\ ~GrpcStopped
  /\ grpcServe' = "failed"
  /\ errCh' = errCh + 1
  /\ UNCHANGED <<mainVars, httpServe, clients>>

HttpServe ==
  /\ pc \notin Ended
  /\ \/ /\ httpServe = "start"
        /\ ~HttpStopped
        /\ httpServe' = "serve"
        /\ UNCHANGED errCh
     \/ /\ httpServe \in {"start", "serve"}
        /\ HttpStopped
        /\ httpServe' = "done"
        /\ errCh' = errCh + 1
  /\ UNCHANGED <<mainVars, grpcServe, clients>>

\* The port is in use, or Accept fails for good.
HttpFails ==
  /\ pc \notin Ended
  /\ httpServe \in {"start", "serve"}
  /\ ~HttpStopped
  /\ httpServe' = IF httpServe = "start" THEN "unbound" ELSE "failed"
  /\ errCh' = errCh + 1
  /\ UNCHANGED <<mainVars, grpcServe, clients>>

\* A call on a connection made while the server served; GracefulStop tells
\* clients to go away, what comes later is refused.
BeginCall(c) ==
  /\ pc \notin Ended
  /\ call[c] = "none"
  /\ grpcServe \in {"serve", "failed"}
  /\ call' = [call EXCEPT ![c] = IF GrpcStopped THEN "refused" ELSE "running"]
  /\ UNCHANGED <<mainVars, goroutines, request>>

\* The handler uses the store up to its end.
EndCall(c) ==
  /\ pc \notin Ended
  /\ call[c] = "running"
  /\ call' = [call EXCEPT ![c] = IF router = "open" THEN "answered" ELSE "lost"]
  /\ UNCHANGED <<mainVars, goroutines, request>>

\* A request on a connection made while the server served.
BeginRequest(r) ==
  /\ pc \notin Ended
  /\ request[r] = "none"
  /\ httpServe \in {"serve", "failed"}
  /\ ~HttpStopped
  /\ request' = [request EXCEPT ![r] = "running"]
  /\ UNCHANGED <<mainVars, goroutines, call>>

EndRequest(r) ==
  /\ pc \notin Ended
  /\ request[r] = "running"
  /\ request' = [request EXCEPT ![r] = "answered"]
  /\ UNCHANGED <<mainVars, goroutines, call>>

-----------------------------------------------------------------------------
(* Signals and the shutdown.                                               *)

\* SIGINT or SIGTERM: its default action ends the process outside the life of
\* sigCtx, inside it all but the first signal are swallowed.
Signal ==
  /\ pc \notin Ended
  /\ IF pc \in Starting \cup {"exit"}
     THEN pc' = "killed" /\ UNCHANGED signalled
     ELSE signalled' = TRUE /\ UNCHANGED pc
  /\ UNCHANGED <<environment, router, service, goroutines, expired, clients>>

\* Mutant: main waits for a signal only.
SelectSignal == signalled /\ Goto("select", "graceful")

\* A signal or the end of a server; shutdownCtx starts to run.
Select ==
  /\ pc = "select"
  /\ \/ signalled /\ UNCHANGED errCh
     \/ errCh > 0 /\ errCh' = errCh - 1
  /\ pc' = "graceful"
  /\ UNCHANGED <<environment, router, service, grpcServe, httpServe, signalled,
                 expired, clients>>

Timeout ==
  /\ pc \in {"graceful", "drain", "shutdown", "waiting"}
  /\ ~expired
  /\ expired' = TRUE
  /\ UNCHANGED <<environment, pc, router, service, goroutines, signalled,
                 clients>>

StopAccepting == Goto("graceful", "drain")

\* Mutant: GracefulStop ends with shutdownCtx.
DrainedOrExpired ==
  /\ expired \/ \A c \in Calls : call[c] # "running"
  /\ Goto("drain", "shutdown")

\* GracefulStop returns when no call is left, however long that takes.
Drained ==
  /\ \A c \in Calls : call[c] # "running"
  /\ Goto("drain", "shutdown")

CloseListener == Goto("shutdown", "waiting")

\* Mutant: Shutdown is given a context without a time limit.
ShutDownPatient ==
  /\ \A r \in Requests : request[r] # "running"
  /\ Goto("waiting", "return")

\* Shutdown returns when no request is left or its context is done; it does not
\* know of connections that were upgraded.
ShutDown ==
  /\ expired \/ \A r \in Requests : request[r] # "running"
  /\ Goto("waiting", "return")

\* The deferred cancel, stop and router.Close; then the process ends.
Close ==
  /\ pc = "return"
  /\ pc' = "exit"
  /\ router' = "closed"
  /\ UNCHANGED <<environment, service, goroutines, signalled, expired, clients>>

Exit == Goto("exit", "exited")

Main ==
  \/ LoadSettings \/ NewRedisRouter \/ NewServer \/ Spawn \/ NotifyContext
  \/ Select \/ StopAccepting \/ Drained \/ CloseListener \/ ShutDown \/ Close
  \/ Exit

Next ==
  \/ Main
  \/ GrpcServe \/ GrpcFails \/ HttpServe \/ HttpFails
  \/ \E c \in Calls : BeginCall(c) \/ EndCall(c)
  \/ \E r \in Requests \cup Sockets : BeginRequest(r) \/ EndRequest(r)
  \/ Signal \/ Timeout

Safe == Init /\ [][Next]_vars

\* main goes on while it can, and a timer runs out.  Nothing is assumed of calls,
\* requests and sockets: a client may stall any of them.
Fairness == WF_vars(Main) /\ WF_vars(Timeout)

Spec == Safe /\ Fairness

-----------------------------------------------------------------------------
(* Properties.                                                             *)

\* What the constructors make of any settings: only the threshold may be zero or
\* negative, when int32 wraps it.
ServiceOK ==
  service.built =>
    /\ service.clients # << >>
    /\ service.breaker.failureThreshold \in -Int32Half .. Int32Half - 1
    /\ service.breaker.openFor > 0 /\ service.duration > 0 /\ service.count > 0

\* The shape of the state.  The two results never exceed the capacity of errCh,
\* so no goroutine waits to report the end of its server.
TypeOK ==
  /\ environment \in Environments
  /\ pc \in Starting \cup Ended \cup {"select", "graceful", "drain", "shutdown",
                                     "waiting", "return", "exit"}
  /\ router \in {"none", "open", "closed"}
  /\ ServiceOK
  /\ grpcServe \in {"none", "start", "serve", "failed", "done"}
  /\ httpServe \in {"none", "start", "serve", "unbound", "failed", "done"}
  /\ errCh \in 0 .. 2
  /\ signalled \in BOOLEAN /\ expired \in BOOLEAN
  /\ call \in [Calls -> {"none", "running", "answered", "lost", "refused"}]
  /\ request \in [Requests \cup Sockets -> {"none", "running", "answered"}]

\* The Redis clients are closed after the last call that uses them: a server
\* that shuts down by itself has answered every call it took, although
\* shutdownCtx may long be done.
StoreOutlivesCalls ==
  router = "closed" => \A c \in Calls : call[c] \notin {"running", "lost"}

\* No server is started with a setting that is malformed, whichever of the
\* settings it is and whatever the ones after it are.
MalformedNeverServes ==
  grpcServe # "none" =>
    \A k \in Keys : \/ environment.env[k] = Unset
                    \/ WellFormed(k, environment.env[k])

\* No call is stalled by its client for ever.  The handlers end by themselves
\* (commands of the store have timeouts), but a call also waits for its client,
\* and neither GracefulStop nor the gRPC server has a time limit.
CallsEnd == \A c \in Calls : []<>(call[c] # "running")

\* A signal taken by sigCtx ends the process unless a gRPC call is stalled: a
\* request, a socket or a server that fails meanwhile never holds it.
SignalEndsProcess == CallsEnd => (signalled ~> pc \in Ended)

\* So does the end of one of the servers: the other one is not left alone.
FailedServerEndsProcess ==
  CallsEnd =>
    (grpcServe = "failed" \/ httpServe \in {"unbound", "failed"} ~> pc \in Ended)

=============================================================================
