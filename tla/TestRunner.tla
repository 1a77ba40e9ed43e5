----------------------------- MODULE TestRunner -----------------------------
(***************************************************************************)
(* The dashboard's test runs: the run route and the runner on the server,  *)
(* the go test process, and the pages (InspectionDesk) that start a run    *)
(* and follow its event stream.                                            *)
(*                                                                         *)
(* The server is one event loop, so what it does between two awaits is one *)
(* step.  The awaits are: the request's body, and the promise of           *)
(* spawnGoTest.  A report is its run and its status; counts, findings and  *)
(* the suite, which picks the environment of go test, are left out.        *)
(***************************************************************************)
EXTENDS Integers, Sequences, FiniteSets

CONSTANTS
  Pages,
  Checks,        \* the tests go test reports on
  MaxRequests,   \* bound: runs asked for
  MaxCrashes     \* bound: ends of the server process

ASSUME RunnerAssumption == MaxRequests \in Nat /\ MaxCrashes \in Nat

Requests == 1 .. MaxRequests

VARIABLES
  running, latest,   \* the two variables of runner.ts
  disk,              \* the report in REPORT_PATH
  rootFound,         \* findApiRoot finds apps/api from this process
  handler,           \* per request, where POST and runEngineTests are
  child,             \* per request, the go test process
  checks,            \* per request, report.checks: the status of each
  out,               \* per request, reports sent and not read by the page
  cancelled,         \* per request, the stream's controller is closed
  desk,              \* per page, its state and the request it reads from
  started,           \* history: runs started
  run,               \* history: per request, its run, or 0
  exit,              \* history: how the last go test ended
  crashes

runnerVars == <<running, latest, disk>>
requestVars == <<handler, child, checks, out, cancelled>>
historyVars == <<started, run, exit>>
vars == <<runnerVars, rootFound, requestVars, desk, historyVars, crashes>>

Report == [run : Nat, status : {"none", "running", "passed", "failed", "error"}]

NoReport == [run |-> 0, status |-> "none"]

ClosedPage == [open |-> FALSE, busy |-> FALSE, report |-> NoReport, fetch |-> 0]

Init ==
  /\ running = FALSE
  /\ latest = NoReport
  /\ disk = NoReport
  /\ rootFound \in BOOLEAN
  /\ handler = [r \in Requests |-> "none"]
  /\ child = [r \in Requests |-> "none"]
  /\ checks = [r \in Requests |-> [k \in Checks |-> "absent"]]
  /\ out = [r \in Requests |-> << >>]
  /\ cancelled = [r \in Requests |-> FALSE]
  /\ desk = [p \in Pages |-> ClosedPage]
  /\ started = 0
  /\ run = [r \in Requests |-> 0]
  /\ exit = "none"
  /\ crashes = 0

-----------------------------------------------------------------------------
(* runner.ts and the run route.                                            *)

\* remember(report, true); a write that fails is ignored.
remember(report) == latest' = report /\ disk' \in {report, disk}

\* emit: enqueue on the stream, which throws once the stream is cancelled.
\* What nobody reads, and a repetition of what is waiting, is not kept.
emit(r, report) ==
  out' = IF \/ cancelled[r]
            \/ \A p \in Pages : desk[p].fetch # r
            \/ (out[r] # << >> /\ out[r][Len(out[r])] = report)
         THEN out ELSE [out EXCEPT ![r] = Append(@, report)]

Respond(r, from, to) == handler[r] = from /\ handler' = [handler EXCEPT ![r] = to]

\* POST before it awaits the body: isRunActive() is answered with 409.
Post(r) ==
  /\ Respond(r, "sent", IF running THEN "refused" ELSE "body")
  /\ UNCHANGED <<runnerVars, rootFound, child, checks, out, cancelled, desk,
                 historyVars, crashes>>

\* Mutant: only the route looks at running.
FreeAlways == TRUE

\* The second look at running, with no await before running = true.
Free == ~running

\* Mutant: the stream is closed only when runEngineTests succeeds.
StartRefusedHangs(r) ==
  /\ ~Free
  /\ Respond(r, "body", "await")
  /\ UNCHANGED <<runnerVars, rootFound, child, checks, out, cancelled, desk,
                 historyVars, crashes>>

\* Another request came in while the body was awaited: runEngineTests throws
\* before its try, and the stream is closed with nothing on it.
StartRefused(r) ==
  /\ ~Free
  /\ Respond(r, "body", "closed")
  /\ UNCHANGED <<runnerVars, rootFound, child, checks, out, cancelled, desk,
                 historyVars, crashes>>

StartRun(r) ==
  LET report == [run |-> started + 1, status |-> "running"]
  IN  /\ Free
      /\ rootFound
      /\ Respond(r, "body", "await")
      /\ running' = TRUE
      /\ started' = started + 1
      /\ run' = [run EXCEPT ![r] = started + 1]
      /\ remember(report)
      /\ emit(r, report)
      /\ child' = [child EXCEPT ![r] = "running"]
      /\ UNCHANGED <<rootFound, checks, cancelled, desk, exit, crashes>>

\* findApiRoot throws: the report that is turned into an error is the latest
\* one, of an earlier run if there is one.
StartFails(r) ==
  LET report == [run |-> IF latest = NoReport THEN started + 1 ELSE latest.run,
                 status |-> "error"]
  IN  /\ Free
      /\ ~rootFound
      /\ Respond(r, "body", "closed")
      /\ started' = started + 1
      /\ remember(report)
      /\ emit(r, report)
      /\ UNCHANGED <<running, rootFound, child, checks, cancelled, desk, run,
                     exit, crashes>>

\* What a line of go test tells of a check; go test is external.
Results(status) ==
  CASE status = "absent" -> {"running"}
    [] status = "running" -> {"passed", "failed", "skipped"}
    [] OTHER -> {}

\* The check is added to the report, or gets its result.
applyGoLine(r, k, s) == checks' = [checks EXCEPT ![r][k] = s]

\* A line that changes the report.  Whether 200 ms have passed since the last
\* update is left open; lines that change nothing could only repeat an update.
\* On a cancelled stream the update is remembered and the emit throws.
onLine(r, k) ==
  /\ child[r] = "running"
  /\ \E s \in Results(checks[r][k]) : applyGoLine(r, k, s)
  /\ \/ UNCHANGED <<latest, out>>
     \/ /\ latest' = [run |-> run[r], status |-> "running"]
        /\ emit(r, latest')
  /\ UNCHANGED <<running, disk, rootFound, handler, child, cancelled, desk,
                 historyVars, crashes>>

With(r, status) == {k \in Checks : checks[r][k] = status}

\* Mutant: a run of skipped checks is reported as skipped.
finalStatusSkipped(r) ==
  IF With(r, "skipped") = Checks THEN "skipped"
  ELSE IF With(r, "failed") # {} THEN "failed" ELSE "passed"

\* finalizeReport of a run that has ended without an error message.
finalStatus(r) == IF With(r, "failed") # {} THEN "failed" ELSE "passed"

\* The report's status when go test closes; ok is exit code 0.
ClosedStatus(r, ok) ==
  IF ~ok /\ With(r, "absent") = Checks THEN "error" ELSE finalStatus(r)

\* Mutant: the report is remembered after it was emitted.
SettleForgets(r, status) ==
  LET report == [run |-> run[r], status |-> status]
  IN  /\ Respond(r, "await", "closed")
      /\ running' = FALSE
      /\ IF cancelled[r] THEN UNCHANGED <<latest, disk>> ELSE remember(report)
      /\ emit(r, report)

\* Mutant: running is reset after the last emit, not in a finally.
SettleStuck(r, status) ==
  LET report == [run |-> run[r], status |-> status]
  IN  /\ Respond(r, "await", "closed")
      /\ running' = cancelled[r]
      /\ remember(report)
      /\ emit(r, report)

\* Mutant: the last report is not sent.
SettleSilent(r, status) ==
  /\ Respond(r, "await", "closed")
  /\ running' = FALSE
  /\ remember([run |-> run[r], status |-> status])
  /\ UNCHANGED out

\* runEngineTests after its await.  On a cancelled stream the emit of the
\* finished report throws, the report is turned into an error and remembered
\* again, the emit of the error throws too, and the finally clause still runs.
Settle(r, status) ==
  LET report == [run |-> run[r], status |-> status]
  IN  /\ Respond(r, "await", "closed")
      /\ running' = FALSE
      /\ \/ ~cancelled[r] /\ remember(report)
         \/ /\ cancelled[r]
            /\ latest' = [report EXCEPT !.status = "error"]
            /\ disk' \in {disk, report, [report EXCEPT !.status = "error"]}
      /\ emit(r, report)

\* The process ends, its run is settled and the run's locals are gone.
ChildEnds(r, ok, status) ==
  /\ child[r] = "running"
  /\ child' = [child EXCEPT ![r] = "ended"]
  /\ exit' = IF ok THEN "ok" ELSE "bad"
  /\ Settle(r, status)
  /\ checks' = [checks EXCEPT ![r] = [k \in Checks |-> "absent"]]
  /\ cancelled' = [cancelled EXCEPT ![r] = FALSE]
  /\ UNCHANGED <<rootFound, desk, started, run, crashes>>

\* go could not be started.
ChildError(r) == With(r, "absent") = Checks /\ ChildEnds(r, FALSE, "error")

\* Exit code 0 means that every test go test reported has passed or was
\* skipped.  Another code says that a test failed, or that a package did not
\* build or ended early.
ChildCloses(r) ==
  \/ /\ With(r, "running") \cup With(r, "failed") = {}
     /\ ChildEnds(r, TRUE, ClosedStatus(r, TRUE))
  \/ ChildEnds(r, FALSE, ClosedStatus(r, FALSE))

\* The server notices that nobody reads the stream any more.
Cancel(r) ==
  /\ handler[r] = "await"
  /\ ~cancelled[r]
  /\ \A p \in Pages : desk[p].fetch # r
  /\ cancelled' = [cancelled EXCEPT ![r] = TRUE]
  /\ UNCHANGED <<runnerVars, rootFound, handler, child, checks, out, desk,
                 historyVars, crashes>>

\* The server process ends and is started again, perhaps from elsewhere.  Nothing
\* kills the go test that it has spawned: that one runs on as an orphan and
\* reports to nobody.
Crash ==
  /\ crashes < MaxCrashes
  /\ crashes' = crashes + 1
  /\ running' = FALSE
  /\ latest' = NoReport
  /\ rootFound' \in BOOLEAN
  /\ handler' = [r \in Requests |-> IF handler[r] = "none" THEN "none" ELSE "lost"]
  /\ child' = [r \in Requests |-> IF child[r] = "running" THEN "orphaned" ELSE child[r]]
  /\ checks' = [r \in Requests |-> [k \in Checks |-> "absent"]]
  /\ cancelled' = [r \in Requests |-> FALSE]
  /\ UNCHANGED <<disk, out, desk, historyVars>>

\* A go test whose server process is gone ends.
OrphanEnds(r) ==
  /\ child[r] = "orphaned"
  /\ child' = [child EXCEPT ![r] = "ended"]
  /\ UNCHANGED <<runnerVars, rootFound, handler, checks, out, cancelled, desk,
                 historyVars, crashes>>

-----------------------------------------------------------------------------
(* A page.                                                                 *)

\* The report in memory, or else the one on disk.
getLatestReport == IF latest = NoReport THEN disk ELSE latest

\* Home renders the desk with getLatestReport(), which remembers it.
LoadPage(p) ==
  /\ ~desk[p].open
  /\ latest' = getLatestReport
  /\ desk' = [desk EXCEPT ![p] =
                [open |-> TRUE, busy |-> latest'.status = "running",
                 report |-> latest', fetch |-> 0]]
  /\ UNCHANGED <<running, disk, rootFound, requestVars, historyVars, crashes>>

\* run() up to its fetch.
ClickRun(p) ==
  /\ desk[p].open
  /\ ~desk[p].busy
  /\ \E r \in Requests :
       /\ handler[r] = "none"
       /\ \A q \in 1 .. r - 1 : handler[q] # "none"
       /\ handler' = [handler EXCEPT ![r] = "sent"]
       /\ desk' = [desk EXCEPT ![p].busy = TRUE, ![p].fetch = r]
  /\ UNCHANGED <<runnerVars, rootFound, child, checks, out, cancelled,
                 historyVars, crashes>>

\* An event of the stream is shown.
Read(p) ==
  LET r == desk[p].fetch
  IN  /\ r # 0
      /\ out[r] # << >>
      /\ desk' = [desk EXCEPT ![p].report = Head(out[r])]
      /\ out' = [out EXCEPT ![r] = Tail(@)]
      /\ UNCHANGED <<runnerVars, rootFound, handler, child, checks, cancelled,
                     historyVars, crashes>>

\* What the page has not read of its stream is gone with the connection.
Drained(p) == [r \in Requests |-> IF r = desk[p].fetch THEN << >> ELSE out[r]]

\* setBusy(false), and run() returns.
Release(p) ==
  /\ desk' = [desk EXCEPT ![p].busy = FALSE, ![p].fetch = 0]
  /\ out' = Drained(p)
  /\ UNCHANGED <<runnerVars, rootFound, handler, child, checks, cancelled,
                 historyVars, crashes>>

\* The end of the stream, or the answer 409.
ReadEnd(p) ==
  LET r == desk[p].fetch
  IN  /\ r # 0
      /\ handler[r] = "refused" \/ (handler[r] = "closed" /\ out[r] = << >>)
      /\ Release(p)

\* The connection to the server breaks; what was on it is not read.
Disconnect(p) == desk[p].fetch # 0 /\ Release(p)

\* The page is closed, or reloaded (then LoadPage follows).
ClosePage(p) ==
  /\ desk[p].open
  /\ desk' = [desk EXCEPT ![p] = ClosedPage]
  /\ out' = Drained(p)
  /\ UNCHANGED <<runnerVars, rootFound, handler, child, checks, cancelled,
                 historyVars, crashes>>

-----------------------------------------------------------------------------
Start(r) == StartRefused(r) \/ StartRun(r) \/ StartFails(r)

Serve(r) ==
  \/ Post(r) \/ Start(r)
  \/ \E k \in Checks : onLine(r, k)
  \/ ChildError(r) \/ ChildCloses(r)
  \/ Cancel(r)

Use(p) ==
  \/ LoadPage(p) \/ ClickRun(p)
  \/ Read(p) \/ ReadEnd(p)
  \/ Disconnect(p) \/ ClosePage(p)

Next ==
  \/ \E r \in Requests : Serve(r)
  \/ \E p \in Pages : Use(p)
  \/ Crash
  \/ \E r \in Requests : OrphanEnds(r)

\* The event loop gets to every request, go test ends (it has a time limit of
\* its own), and a page reads what has arrived and notices a lost server.
Fairness ==
  /\ \A r \in Requests : /\ WF_vars(Post(r))
                         /\ WF_vars(Start(r))
                         /\ WF_vars(ChildCloses(r))
  /\ \A p \in Pages :
       /\ WF_vars(Read(p) \/ ReadEnd(p))
       /\ WF_vars(\E r \in Requests : /\ desk[p].fetch = r
                                      /\ handler[r] = "lost"
                                      /\ Disconnect(p))

Spec == Init /\ [][Next]_vars /\ Fairness

-----------------------------------------------------------------------------
(* Properties.                                                             *)

\* The shape of the server's and the pages' state.
TypeOK ==
  /\ running \in BOOLEAN
  /\ latest \in Report /\ disk \in Report
  /\ rootFound \in BOOLEAN
  /\ handler \in [Requests -> {"none", "sent", "refused", "body", "await",
                               "closed", "lost"}]
  /\ child \in [Requests -> {"none", "running", "orphaned", "ended"}]
  /\ checks \in [Requests -> [Checks -> {"absent", "running", "passed",
                                         "failed", "skipped"}]]
  /\ out \in [Requests -> Seq(Report)]
  /\ cancelled \in [Requests -> BOOLEAN]
  /\ desk \in [Pages -> [open : BOOLEAN, busy : BOOLEAN, report : Report,
                         fetch : Requests \cup {0}]]
  /\ started \in Nat
  /\ run \in [Requests -> Nat]
  /\ exit \in {"none", "ok", "bad"}
  /\ crashes \in Nat

\* "A run is already in progress": of two requests that both passed the
\* route's check while their bodies were awaited only one starts go test, and
\* the flag running says whether one of this server process is at work.  Beside
\* it may run those that earlier processes left behind, one for each restart.
OneRunAtATime ==
  /\ running <=> \E r \in Requests : child[r] = "running"
  /\ \A r, q \in Requests :
       (child[r] = "running" /\ child[q] = "running") => r = q
  /\ Cardinality({r \in Requests : child[r] = "orphaned"}) <= crashes

\* When no run is active no report says that one is, whichever emit has thrown:
\* otherwise every page would be rendered with its button disabled.  Only a
\* server that was restarted, and none of whose own runs has ended, shows a run
\* that is not active: one that its predecessor left on disk.
NoLeftover ==
  (~running /\ latest.status = "running") =>
    \A r \in Requests : run[r] # 0 => handler[r] = "lost"

\* A finished report is replaced only by a later run's, as long as the runner
\* finds apps/api.
FinishedStays ==
  [][(rootFound /\ latest # NoReport /\ latest.status # "running") =>
       \/ latest' \in {latest, NoReport}
       \/ latest'.run > latest.run]_vars

\* A page that reads its stream to the end shows a final status of its own run,
\* and the one that the server remembers, unless a later run has begun.
VerdictShown ==
  \A p \in Pages, r \in Requests :
    (/\ desk[p].fetch = r /\ run[r] # 0
     /\ handler[r] = "closed" /\ out[r] = << >>) =>
       /\ desk[p].report.run = run[r]
       /\ desk[p].report.status \in {"passed", "failed", "error"}
       /\ latest.run = run[r] => latest = desk[p].report

\* A run ends and another one may be started, also when the page is gone.
RunsEnd == running ~> ~running

\* A page that asked for a run gets its button back: after the run, a refusal,
\* a lost race or a lost server.
DeskReleases == \A p \in Pages : desk[p].fetch # 0 ~> desk[p].fetch = 0

\* "Every check passed": a report that says so is of a go test that succeeded.
PassedIsPassed ==
  (crashes = 0 /\ latest.status = "passed") => exit = "ok"

=============================================================================
