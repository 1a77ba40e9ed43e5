------------------------- MODULE TestRunner_proofs --------------------------
(***************************************************************************)
(* Theorems about TestRunner, for any number of pages, checks, requests    *)
(* and restarts.                                                           *)
(***************************************************************************)
EXTENDS TestRunner, FiniteSetTheorems, TLAPS

\* A request awaits spawnGoTest exactly while its go test is at work.
Awaiting ==
  \A r \in Requests : child[r] = "running" <=> handler[r] = "await"

\* What this process has run is in memory; a run has a request.
MemoryKnows ==
  /\ latest = NoReport => \A r \in Requests : run[r] # 0 => handler[r] = "lost"
  /\ \A r \in Requests : run[r] # 0 => handler[r] # "none"

RunnerInv == TypeOK /\ Awaiting /\ OneRunAtATime

LeftoverInv == NoLeftover /\ MemoryKnows

-----------------------------------------------------------------------------
\* The statuses a run can end with are statuses of a report.
LEMMA EndStatus ==
  ASSUME NEW r \in Requests, NEW ok \in BOOLEAN
  PROVE  ClosedStatus(r, ok) \in {"passed", "failed", "error"}
BY DEF ClosedStatus, finalStatus

\* What an action leaves on the streams is a sequence of reports.
LEMMA EmitTyped ==
  ASSUME TypeOK, NEW r \in Requests, NEW report \in Report, emit(r, report)
  PROVE  out' \in [Requests -> Seq(Report)]
BY DEF TypeOK, emit

LEMMA DrainedTyped ==
  ASSUME TypeOK, NEW p \in Pages
  PROVE  Drained(p) \in [Requests -> Seq(Report)]
BY DEF TypeOK, Drained

\* The end of a go test, whatever its status.
LEMMA EndsTyped ==
  ASSUME TypeOK, NEW r \in Requests, NEW ok \in BOOLEAN,
         NEW status \in {"passed", "failed", "error"}, ChildEnds(r, ok, status)
  PROVE  TypeOK'
<1> DEFINE report == [run |-> run[r], status |-> status]
<1>1. report \in Report /\ [report EXCEPT !.status = "error"] \in Report
  BY DEF TypeOK, Report
<1>2. out' \in [Requests -> Seq(Report)]
  BY <1>1, EmitTyped DEF ChildEnds, Settle
<1>3. latest' \in Report /\ disk' \in Report
  BY <1>1 DEF ChildEnds, Settle, remember, TypeOK
<1>4. /\ running' \in BOOLEAN
      /\ handler' \in [Requests -> {"none", "sent", "refused", "body", "await",
                                    "closed", "lost"}]
  BY DEF ChildEnds, Settle, Respond, TypeOK
<1> QED  BY <1>2, <1>3, <1>4 DEF ChildEnds, TypeOK

\* A step of a request keeps the types.
LEMMA ServeTyped ==
  ASSUME TypeOK, NEW r \in Requests, Serve(r)
  PROVE  TypeOK'
<1>1. CASE Post(r) \/ StartRefused(r)
  BY <1>1 DEF Post, StartRefused, Respond, TypeOK, runnerVars, historyVars
<1>2. CASE StartRun(r)
  <2> DEFINE report == [run |-> started + 1, status |-> "running"]
  <2>1. report \in Report /\ started + 1 \in Nat
    BY DEF TypeOK, Report
  <2>2. out' \in [Requests -> Seq(Report)]
    BY <1>2, <2>1, EmitTyped DEF StartRun
  <2>3. latest' \in Report /\ disk' \in Report
    BY <1>2, <2>1 DEF StartRun, remember, TypeOK
  <2> QED  BY <1>2, <2>1, <2>2, <2>3 DEF StartRun, Respond, TypeOK
<1>3. CASE StartFails(r)
  <2> DEFINE report == [run |-> IF latest = NoReport THEN started + 1 ELSE latest.run,
                        status |-> "error"]
  <2>1. report \in Report /\ started + 1 \in Nat
    BY DEF TypeOK, Report
  <2>2. out' \in [Requests -> Seq(Report)]
    BY <1>3, <2>1, EmitTyped DEF StartFails
  <2>3. latest' \in Report /\ disk' \in Report
    BY <1>3, <2>1 DEF StartFails, remember, TypeOK
  <2> QED  BY <1>3, <2>1, <2>2, <2>3 DEF StartFails, Respond, TypeOK
<1>4. ASSUME NEW k \in Checks, onLine(r, k) PROVE TypeOK'
  <2> DEFINE report == [run |-> run[r], status |-> "running"]
  <2>1. report \in Report
    BY DEF TypeOK, Report
  <2>2. latest' \in Report /\ out' \in [Requests -> Seq(Report)]
    BY <1>4, <2>1, EmitTyped DEF onLine, TypeOK
  <2>3. \A s \in Results(checks[r][k]) : s \in {"running", "passed", "failed", "skipped"}
    BY DEF Results
  <2>4. checks' \in [Requests -> [Checks -> {"absent", "running", "passed",
                                             "failed", "skipped"}]]
    BY <1>4, <2>3 DEF onLine, applyGoLine, TypeOK
  <2> QED  BY <1>4, <2>2, <2>4 DEF onLine, TypeOK, historyVars
<1>5. CASE ChildError(r)
  BY <1>5, EndsTyped DEF ChildError
<1>6. CASE ChildCloses(r)
  BY <1>6, EndsTyped, EndStatus DEF ChildCloses
<1>7. CASE Cancel(r)
  BY <1>7 DEF Cancel, TypeOK, runnerVars, historyVars
<1> QED  BY <1>1, <1>2, <1>3, <1>4, <1>5, <1>6, <1>7 DEF Serve, Start

\* A step of a page keeps the types.
LEMMA UseTyped ==
  ASSUME TypeOK, NEW p \in Pages, Use(p)
  PROVE  TypeOK'
<1>0. NoReport \in Report
  BY DEF NoReport, Report
<1>1. CASE LoadPage(p)
  <2>1. latest' \in Report
    BY <1>1 DEF LoadPage, getLatestReport, TypeOK
  <2> QED  BY <1>1, <2>1 DEF LoadPage, TypeOK, requestVars, historyVars
<1>2. CASE ClickRun(p)
  <2>1. PICK r \in Requests :
          /\ handler' = [handler EXCEPT ![r] = "sent"]
          /\ desk' = [desk EXCEPT ![p].busy = TRUE, ![p].fetch = r]
    BY <1>2 DEF ClickRun
  <2>2. desk' \in [Pages -> [open : BOOLEAN, busy : BOOLEAN, report : Report,
                             fetch : Requests \cup {0}]]
    BY <2>1 DEF TypeOK
  <2>3. handler' \in [Requests -> {"none", "sent", "refused", "body", "await",
                                   "closed", "lost"}]
    BY <2>1 DEF TypeOK
  <2> QED  BY <1>2, <2>2, <2>3 DEF ClickRun, TypeOK, runnerVars, historyVars
<1>3. CASE Read(p)
  <2> DEFINE r == desk[p].fetch
  <2>1. r \in Requests /\ out[r] \in Seq(Report) /\ out[r] # << >>
    BY <1>3 DEF Read, TypeOK
  <2>2. Head(out[r]) \in Report /\ Tail(out[r]) \in Seq(Report)
    BY <2>1
  <2> QED  BY <1>3, <2>1, <2>2 DEF Read, TypeOK, runnerVars, historyVars
<1>4. CASE Release(p)
  BY <1>4, DrainedTyped DEF Release, TypeOK, runnerVars, historyVars
<1>5. CASE ClosePage(p)
  BY <1>0, <1>5, DrainedTyped DEF ClosePage, ClosedPage, TypeOK, runnerVars, historyVars
<1> QED  BY <1>1, <1>2, <1>3, <1>4, <1>5 DEF Use, ReadEnd, Disconnect

LEMMA TypeStep == TypeOK /\ [Next]_vars => TypeOK'
<1> SUFFICES ASSUME TypeOK, [Next]_vars PROVE TypeOK'
  OBVIOUS
<1>1. CASE Crash
  <2>1. NoReport \in Report
    BY DEF NoReport, Report
  <2>2. handler' \in [Requests -> {"none", "sent", "refused", "body", "await",
                                   "closed", "lost"}]
    BY <1>1 DEF Crash
  <2>3. child' \in [Requests -> {"none", "running", "orphaned", "ended"}]
    BY <1>1 DEF Crash, TypeOK
  <2>4. /\ checks' \in [Requests -> [Checks -> {"absent", "running", "passed",
                                                "failed", "skipped"}]]
        /\ cancelled' \in [Requests -> BOOLEAN]
    BY <1>1 DEF Crash
  <2>5. crashes' \in Nat
    BY <1>1 DEF Crash, TypeOK
  <2>6. running' \in BOOLEAN /\ rootFound' \in BOOLEAN
    BY <1>1, Zenon DEF Crash
  <2> QED  BY <1>1, <2>1, <2>2, <2>3, <2>4, <2>5, <2>6 DEF Crash, TypeOK, historyVars
<1>2. CASE UNCHANGED vars
  BY <1>2 DEF vars, TypeOK, runnerVars, requestVars, historyVars
<1>3. ASSUME NEW r \in Requests, OrphanEnds(r) PROVE TypeOK'
  BY <1>3 DEF OrphanEnds, TypeOK, runnerVars, historyVars
<1> QED  BY <1>1, <1>2, <1>3, ServeTyped, UseTyped DEF Next

\* Type correctness: every step of the runner, of go test and of the pages
\* keeps the shape of the state.
THEOREM RunnerTypeCorrect == Spec => []TypeOK
<1>1. Init => TypeOK
  <2>1. NoReport \in Report
    BY DEF NoReport, Report
  <2>2. ClosedPage \in [open : BOOLEAN, busy : BOOLEAN, report : Report,
                        fetch : Requests \cup {0}]
    BY <2>1 DEF ClosedPage
  <2>3. ASSUME Init PROVE running \in BOOLEAN /\ rootFound \in BOOLEAN
    BY <2>3, Zenon DEF Init
  <2>4. ASSUME Init
        PROVE  /\ latest \in Report /\ disk \in Report
               /\ desk \in [Pages -> [open : BOOLEAN, busy : BOOLEAN,
                                       report : Report,
                                       fetch : Requests \cup {0}]]
    BY <2>1, <2>2, <2>4 DEF Init
  <2>5. ASSUME Init
        PROVE  /\ handler \in [Requests -> {"none", "sent", "refused", "body",
                                            "await", "closed", "lost"}]
               /\ child \in [Requests -> {"none", "running", "orphaned", "ended"}]
               /\ checks \in [Requests -> [Checks -> {"absent", "running", "passed",
                                                      "failed", "skipped"}]]
    BY <2>5 DEF Init
  <2>6. ASSUME Init
        PROVE  out \in [Requests -> Seq(Report)] /\ run \in [Requests -> Nat]
    BY <2>6 DEF Init
  <2>7. ASSUME Init PROVE cancelled \in [Requests -> BOOLEAN]
    BY <2>7 DEF Init
  <2>8. ASSUME Init
        PROVE  started \in Nat /\ crashes \in Nat /\ exit \in {"none", "ok", "bad"}
    BY <2>8 DEF Init
  <2> QED  BY <2>3, <2>4, <2>5, <2>6, <2>7, <2>8, Zenon DEF TypeOK
<1> QED  BY <1>1, TypeStep, PTL DEF Spec

-----------------------------------------------------------------------------
\* Steps of the pages, and those of a request that start and end nothing.
LEMMA Bystanders ==
  ASSUME \/ \E p \in Pages : Use(p)
         \/ \E r \in Requests : Cancel(r) \/ \E k \in Checks : onLine(r, k)
         \/ UNCHANGED vars
  PROVE  UNCHANGED <<running, child, crashes>>
BY DEF Use, LoadPage, ClickRun, Read, ReadEnd, Disconnect, Release, ClosePage,
   Cancel, onLine, vars, runnerVars, requestVars, historyVars

\* A request stays where it is, or is one that has just been sent.
LEMMA AwaitStep == RunnerInv /\ [Next]_vars => Awaiting'
<1> SUFFICES ASSUME RunnerInv, [Next]_vars PROVE Awaiting'
  OBVIOUS
<1> USE DEF RunnerInv, Awaiting
<1>1. ASSUME NEW r \in Requests, Post(r) \/ StartRefused(r) \/ StartFails(r)
      PROVE  Awaiting'
  BY <1>1 DEF Post, StartRefused, StartFails, Respond, TypeOK
<1>2. ASSUME NEW r \in Requests, StartRun(r) PROVE Awaiting'
  BY <1>2 DEF StartRun, Respond, TypeOK
<1>3. ASSUME NEW r \in Requests, ChildError(r) \/ ChildCloses(r) PROVE Awaiting'
  BY <1>3 DEF ChildError, ChildCloses, ChildEnds, Settle, Respond, TypeOK
<1>4. ASSUME NEW r \in Requests, Cancel(r) \/ \E k \in Checks : onLine(r, k)
      PROVE  Awaiting'
  BY <1>4 DEF Cancel, onLine
<1>5. ASSUME NEW p \in Pages, ClickRun(p) PROVE Awaiting'
  BY <1>5 DEF ClickRun, TypeOK
<1>6. ASSUME NEW p \in Pages, Use(p), ~ClickRun(p) PROVE Awaiting'
  BY <1>6 DEF Use, LoadPage, Read, ReadEnd, Disconnect, Release, ClosePage,
     requestVars
<1>7. CASE Crash
  BY <1>7 DEF Crash, TypeOK
<1>8. CASE UNCHANGED vars
  BY <1>8 DEF vars, requestVars
<1>9. ASSUME NEW r \in Requests, OrphanEnds(r) PROVE Awaiting'
  BY <1>9 DEF OrphanEnds, TypeOK
<1> QED
  BY <1>1, <1>2, <1>3, <1>4, <1>5, <1>6, <1>7, <1>8, <1>9 DEF Next, Serve, Start

Orphans == {r \in Requests : child[r] = "orphaned"}

LEMMA OrphansFinite == IsFiniteSet(Orphans) /\ Cardinality(Orphans) \in Nat
<1>1. IsFiniteSet(Requests)
  BY FS_Interval, RunnerAssumption DEF Requests
<1>2. Orphans \subseteq Requests
  BY DEF Orphans
<1> QED  BY <1>1, <1>2, FS_Subset, FS_CardinalityType

\* A restart leaves at most one go test behind, and nothing else does.
LEMMA OrphansStep ==
  ASSUME RunnerInv, [Next]_vars
  PROVE  (Cardinality(Orphans) <= crashes)'
<1> USE DEF RunnerInv
<1>0. /\ Cardinality(Orphans) \in Nat /\ IsFiniteSet(Orphans) /\ crashes \in Nat
      /\ Cardinality(Orphans) <= crashes
  BY OrphansFinite DEF OneRunAtATime, Orphans, TypeOK
<1>1. CASE Crash
  <2>1. /\ crashes' = crashes + 1
        /\ Orphans' = Orphans \cup {r \in Requests : child[r] = "running"}
    BY <1>1 DEF Crash, Orphans, TypeOK
  <2>2. CASE \A r \in Requests : child[r] # "running"
    <3>1. Orphans' = Orphans
      BY <2>1, <2>2
    <3> HIDE DEF Orphans
    <3> QED  BY <1>0, <2>1, <3>1
  <2>3. ASSUME NEW r \in Requests, child[r] = "running"
        PROVE  (Cardinality(Orphans) <= crashes)'
    <3>1. Orphans' = Orphans \cup {r} /\ r \notin Orphans
      BY <2>1, <2>3 DEF OneRunAtATime, Orphans
    <3> HIDE DEF Orphans
    <3>2. Cardinality(Orphans \cup {r}) = Cardinality(Orphans) + 1
      BY <1>0, <3>1, FS_AddElement
    <3> QED  BY <1>0, <2>1, <3>1, <3>2
  <2> QED  BY <2>2, <2>3
<1>2. ASSUME NEW r \in Requests, OrphanEnds(r)
      PROVE  (Cardinality(Orphans) <= crashes)'
  <2>1. Orphans' \subseteq Orphans /\ crashes' = crashes
    BY <1>2 DEF OrphanEnds, Orphans, TypeOK
  <2>2. Cardinality(Orphans') <= Cardinality(Orphans) /\ Cardinality(Orphans') \in Nat
    BY <1>0, <2>1, FS_Subset, FS_CardinalityType
  <2> QED  BY <1>0, <2>1, <2>2
<1>3. CASE Orphans' = Orphans /\ crashes' = crashes
  BY <1>0, <1>3
<1>4. ASSUME NEW r \in Requests, Serve(r)
      PROVE  (Cardinality(Orphans) <= crashes)'
  <2>1. /\ crashes' = crashes
        /\ \/ child' = child
           \/ /\ child[r] = "running" \/ handler[r] = "body"
              /\ \E s \in {"running", "ended"} : child' = [child EXCEPT ![r] = s]
    BY <1>4 DEF Serve, Post, Start, StartRefused, StartRun, StartFails, onLine,
       ChildError, ChildCloses, ChildEnds, Cancel, Respond
  <2>2. Orphans' \subseteq Orphans
    BY <2>1 DEF Orphans, TypeOK
  <2>3. Cardinality(Orphans') <= Cardinality(Orphans) /\ Cardinality(Orphans') \in Nat
    BY <1>0, <2>2, FS_Subset, FS_CardinalityType
  <2> QED  BY <1>0, <2>1, <2>3
<1>5. CASE UNCHANGED <<running, child, crashes>>
  BY <1>3, <1>5 DEF Orphans
<1> QED
  BY <1>1, <1>2, <1>4, <1>5, Bystanders DEF Next

\* Only a free runner starts a go test, and every end of one frees it.
LEMMA OneRunStep == RunnerInv /\ [Next]_vars => OneRunAtATime'
<1> SUFFICES ASSUME RunnerInv, [Next]_vars PROVE OneRunAtATime'
  OBVIOUS
<1> DEFINE One == /\ running <=> \E r \in Requests : child[r] = "running"
                  /\ \A r, q \in Requests :
                       (child[r] = "running" /\ child[q] = "running") => r = q
<1> One
  BY DEF RunnerInv, OneRunAtATime
<1>1. ASSUME NEW r \in Requests, Post(r) \/ StartRefused(r) \/ StartFails(r)
      PROVE  One'
  BY <1>1 DEF Post, StartRefused, StartFails, runnerVars
<1>2. ASSUME NEW r \in Requests, StartRun(r) PROVE One'
  BY <1>2 DEF StartRun, Free, RunnerInv, TypeOK
<1>3. ASSUME NEW r \in Requests, ChildError(r) \/ ChildCloses(r) PROVE One'
  BY <1>3 DEF ChildError, ChildCloses, ChildEnds, Settle, RunnerInv, TypeOK
<1>4. ASSUME Crash PROVE One'
  BY <1>4 DEF Crash, RunnerInv, TypeOK
<1>5. ASSUME UNCHANGED <<running, child, crashes>> PROVE One'
  BY <1>5
<1>6. ASSUME NEW r \in Requests, OrphanEnds(r) PROVE One'
  BY <1>6 DEF OrphanEnds, runnerVars, RunnerInv, TypeOK
<1>7. One'
  <2> HIDE DEF One
  <2> QED
    BY <1>1, <1>2, <1>3, <1>4, <1>5, <1>6, Bystanders DEF Next, Serve, Start
<1> QED  BY <1>7, OrphansStep DEF OneRunAtATime, Orphans

\* The runner's invariant holds for ever.
LEMMA RunnerInvariance == Spec => []RunnerInv
<1>1. Init => Awaiting /\ OneRunAtATime
  <2> SUFFICES ASSUME Init PROVE Awaiting /\ OneRunAtATime
    OBVIOUS
  <2>1. \A r \in Requests : child[r] = "none" /\ handler[r] = "none"
    BY DEF Init
  <2>2. {r \in Requests : child[r] = "orphaned"} = {}
    BY <2>1
  <2>3. crashes = 0 /\ running = FALSE
    BY DEF Init
  <2> QED  BY <2>1, <2>2, <2>3, FS_EmptySet DEF Awaiting, OneRunAtATime
<1>2. RunnerInv /\ [Next]_vars => RunnerInv'
  BY TypeStep, AwaitStep, OneRunStep DEF RunnerInv
<1>3. RunnerInv <=> TypeOK /\ Awaiting /\ OneRunAtATime
  BY DEF RunnerInv
<1>4. Spec => []TypeOK
  BY RunnerTypeCorrect
<1> QED  BY <1>1, <1>2, <1>3, <1>4, PTL DEF Spec

\* Mutual exclusion: whatever requests interleave at their awaits, whatever
\* pages leave and whatever emits throw, at most one go test of a server process
\* is at work, running says whether one is, and beside it run at most as many
\* as there were restarts.
THEOREM SingleRun == Spec => []OneRunAtATime
BY RunnerInvariance, PTL DEF RunnerInv

-----------------------------------------------------------------------------
\* Every end of a run leaves a report that is not running.
LEMMA LeftoverStep == RunnerInv /\ LeftoverInv /\ [Next]_vars => LeftoverInv'
<1> SUFFICES ASSUME RunnerInv, LeftoverInv, [Next]_vars PROVE LeftoverInv'
  OBVIOUS
<1> USE DEF LeftoverInv, NoLeftover, MemoryKnows
<1>1. ASSUME NEW r \in Requests, Post(r) \/ StartRefused(r) \/ Cancel(r)
      PROVE  LeftoverInv'
  BY <1>1 DEF Post, StartRefused, Cancel, Respond, runnerVars, historyVars,
     RunnerInv, TypeOK
<1>2. ASSUME NEW r \in Requests, StartRun(r) PROVE LeftoverInv'
  BY <1>2 DEF StartRun, Respond, remember, NoReport, RunnerInv, TypeOK
<1>3. ASSUME NEW r \in Requests, StartFails(r) PROVE LeftoverInv'
  BY <1>3 DEF StartFails, Respond, remember, NoReport, RunnerInv, TypeOK
<1>4. ASSUME NEW r \in Requests, NEW k \in Checks, onLine(r, k)
      PROVE  LeftoverInv'
  <2>1. running /\ running'
    BY <1>4 DEF onLine, RunnerInv, OneRunAtATime
  <2> QED  BY <1>4, <2>1 DEF onLine, NoReport, historyVars
<1>5. ASSUME NEW r \in Requests, NEW ok \in BOOLEAN,
             NEW status \in {"passed", "failed", "error"}, ChildEnds(r, ok, status)
      PROVE  LeftoverInv'
  <2>1. latest' # NoReport /\ latest'.status # "running"
    BY <1>5 DEF ChildEnds, Settle, remember, NoReport
  <2>2. \A q \in Requests : run'[q] # 0 => handler'[q] # "none"
    BY <1>5 DEF ChildEnds, Settle, Respond, RunnerInv, TypeOK
  <2> QED  BY <2>1, <2>2
<1>6. ASSUME NEW r \in Requests, ChildError(r) \/ ChildCloses(r)
      PROVE  LeftoverInv'
  BY <1>5, <1>6, EndStatus DEF ChildError, ChildCloses
<1>7. ASSUME NEW p \in Pages, LoadPage(p) PROVE LeftoverInv'
  BY <1>7 DEF LoadPage, getLatestReport, requestVars, historyVars
<1>8. ASSUME NEW p \in Pages, ClickRun(p) PROVE LeftoverInv'
  BY <1>8 DEF ClickRun, runnerVars, historyVars, RunnerInv, TypeOK
<1>9. ASSUME NEW p \in Pages, Use(p), ~LoadPage(p), ~ClickRun(p)
      PROVE  LeftoverInv'
  BY <1>9 DEF Use, Read, ReadEnd, Disconnect, Release, ClosePage, runnerVars,
     historyVars
<1>10. CASE Crash
  BY <1>10 DEF Crash, historyVars
<1>11. CASE UNCHANGED vars
  BY <1>11 DEF vars, runnerVars, requestVars, historyVars
<1>12. ASSUME NEW r \in Requests, OrphanEnds(r) PROVE LeftoverInv'
  BY <1>12 DEF OrphanEnds, runnerVars, historyVars
<1> QED
  BY <1>1, <1>2, <1>3, <1>4, <1>6, <1>7, <1>8, <1>9, <1>10, <1>11, <1>12
     DEF Next, Serve, Start

\* An idle runner has no report that says "running", also after runs whose page
\* has left and whose last emits have thrown, but for one that a server process
\* before it has left on disk.
THEOREM IdleIsSettled == Spec => []NoLeftover
<1>1. Init => LeftoverInv
  BY DEF Init, LeftoverInv, NoLeftover, MemoryKnows, NoReport
<1>2. LeftoverInv => NoLeftover
  BY DEF LeftoverInv
<1> QED  BY <1>1, <1>2, LeftoverStep, RunnerInvariance, PTL DEF Spec

-----------------------------------------------------------------------------
(* Runs are numbered upwards, and a finished report is kept.               *)

\* While a run is active the report in memory says so, and no report has the
\* number of a run to come.
NumberInv ==
  /\ running => latest.status = "running"
  /\ latest.run <= started /\ disk.run <= started
  /\ \A r \in Requests : run[r] <= started

LEMMA NumberStep ==
  RunnerInv /\ LeftoverInv /\ NumberInv /\ [Next]_vars => NumberInv'
<1> SUFFICES ASSUME RunnerInv, LeftoverInv, NumberInv, [Next]_vars PROVE NumberInv'
  OBVIOUS
<1> TypeOK
  BY DEF RunnerInv
<1> USE DEF NumberInv, TypeOK, Report
<1>1. ASSUME NEW r \in Requests, Post(r) \/ StartRefused(r) \/ Cancel(r)
      PROVE  NumberInv'
  BY <1>1 DEF Post, StartRefused, Cancel, runnerVars, historyVars
<1>2. ASSUME NEW r \in Requests, StartRun(r) PROVE NumberInv'
  BY <1>2 DEF StartRun, remember
<1>3. ASSUME NEW r \in Requests, StartFails(r) PROVE NumberInv'
  BY <1>3 DEF StartFails, remember, Free
<1>4. ASSUME NEW r \in Requests, NEW k \in Checks, onLine(r, k)
      PROVE  NumberInv'
  BY <1>4 DEF onLine, historyVars
<1>5. ASSUME NEW r \in Requests, NEW ok \in BOOLEAN,
             NEW status \in {"passed", "failed", "error"}, ChildEnds(r, ok, status)
      PROVE  NumberInv'
  BY <1>5 DEF ChildEnds, Settle, remember
<1>6. ASSUME NEW r \in Requests, ChildError(r) \/ ChildCloses(r)
      PROVE  NumberInv'
  BY <1>5, <1>6, EndStatus DEF ChildError, ChildCloses
<1>7. ASSUME NEW p \in Pages, LoadPage(p) PROVE NumberInv'
  BY <1>7 DEF LoadPage, getLatestReport, historyVars, NoReport
<1>8. ASSUME NEW p \in Pages, Use(p), ~LoadPage(p) PROVE NumberInv'
  BY <1>8 DEF Use, ClickRun, Read, ReadEnd, Disconnect, Release, ClosePage,
     runnerVars, historyVars
<1>9. CASE Crash
  BY <1>9 DEF Crash, historyVars, NoReport
<1>10. CASE UNCHANGED vars
  BY <1>10 DEF vars, runnerVars, historyVars
<1>11. ASSUME NEW r \in Requests, OrphanEnds(r) PROVE NumberInv'
  BY <1>11 DEF OrphanEnds, runnerVars, historyVars
<1> QED
  BY <1>1, <1>2, <1>3, <1>4, <1>6, <1>7, <1>8, <1>9, <1>10, <1>11
     DEF Next, Serve, Start

LEMMA NumberInvariance == Spec => [](RunnerInv /\ LeftoverInv /\ NumberInv)
<1>1. Init => LeftoverInv /\ NumberInv
  BY DEF Init, LeftoverInv, NoLeftover, MemoryKnows, NumberInv, NoReport
<1> QED  BY <1>1, LeftoverStep, NumberStep, RunnerInvariance, PTL DEF Spec

\* A finished report is replaced only by that of a later run, as long as the
\* runner finds apps/api: updates of a go test come only while its run is the
\* latest one.
THEOREM FinishedIsKept == Spec => FinishedStays
<1> DEFINE Kept == (rootFound /\ latest # NoReport /\ latest.status # "running") =>
                      \/ latest' \in {latest, NoReport}
                      \/ latest'.run > latest.run
<1>1. RunnerInv /\ LeftoverInv /\ NumberInv /\ [Next]_vars => [Kept]_vars
  <2> SUFFICES ASSUME RunnerInv, NumberInv, Next, rootFound, latest # NoReport,
                      latest.status # "running"
               PROVE  latest' \in {latest, NoReport} \/ latest'.run > latest.run
    OBVIOUS
  <2>1. ~running /\ \A r \in Requests : child[r] # "running"
    BY DEF NumberInv, RunnerInv, OneRunAtATime
  <2>2. ASSUME NEW r \in Requests, Serve(r)
        PROVE  latest' \in {latest, NoReport} \/ latest'.run > latest.run
    <3>1. CASE StartRun(r)
      BY <3>1 DEF StartRun, remember, NumberInv, RunnerInv, TypeOK, Report
    <3>2. CASE Post(r) \/ StartRefused(r) \/ Cancel(r)
      BY <3>2 DEF Post, StartRefused, Cancel, runnerVars
    <3>3. ~StartFails(r) /\ ~ChildError(r) /\ ~ChildCloses(r)
          /\ \A k \in Checks : ~onLine(r, k)
      BY <2>1 DEF StartFails, ChildError, ChildCloses, ChildEnds, onLine
    <3> QED  BY <2>2, <3>1, <3>2, <3>3 DEF Serve, Start
  <2>3. ASSUME NEW p \in Pages, Use(p) PROVE latest' = latest
    BY <2>3 DEF Use, LoadPage, getLatestReport, ClickRun, Read, ReadEnd,
       Disconnect, Release, ClosePage, runnerVars
  <2>4. CASE Crash
    BY <2>4 DEF Crash
  <2>5. ASSUME NEW r \in Requests, OrphanEnds(r) PROVE latest' = latest
    BY <2>5 DEF OrphanEnds, runnerVars
  <2> QED  BY <2>2, <2>3, <2>4, <2>5 DEF Next
<1> QED  BY <1>1, NumberInvariance, PTL DEF Spec, FinishedStays

-----------------------------------------------------------------------------
(* A page reads the verdict of its own run.                                *)

\* A final status of the run of r, and the one that is remembered.
Verdict(r, report) ==
  /\ report.run = run[r]
  /\ report.status \in {"passed", "failed", "error"}
  /\ latest.run = run[r] => latest = report

\* The report that a page shows when it has read what is on the stream.
LastOf(p, r) == IF out[r] = << >> THEN desk[p].report ELSE out[r][Len(out[r])]

\* A stream has one reader, and is cancelled only when it has none; a request
\* has no run before its body was read.
ReadersInv ==
  /\ \A p, q \in Pages : desk[p].fetch # 0 /\ desk[q].fetch = desk[p].fetch => q = p
  /\ \A p \in Pages : desk[p].fetch # 0 => handler[desk[p].fetch] # "none"
  /\ \A r \in Requests :
       cancelled[r] => handler[r] = "await" /\ \A p \in Pages : desk[p].fetch # r
  /\ \A r \in Requests :
       handler[r] \in {"none", "sent", "refused", "body"} => run[r] = 0

\* A run has a number of its own, and the server process that ran it finds
\* apps/api: no later request of that process turns its report into an error.
RunsInv ==
  /\ \A q, r \in Requests : run[q] # 0 /\ run[r] = run[q] => r = q
  /\ \A r \in Requests : run[r] # 0 /\ handler[r] # "lost" => rootFound
  /\ \A r \in Requests : handler[r] = "await" => run[r] # 0

\* The stream of a run that has ended ends with the verdict.
VerdictsInv ==
  \A p \in Pages, r \in Requests :
    (desk[p].fetch = r /\ run[r] # 0 /\ handler[r] = "closed") =>
      Verdict(r, LastOf(p, r))

\* What is emitted to a reader is the last report on its stream.
LEMMA EmitLast ==
  ASSUME TypeOK, NEW r \in Requests, NEW p \in Pages, NEW report \in Report,
         emit(r, report), ~cancelled[r], desk[p].fetch = r
  PROVE  out'[r] # << >> /\ out'[r][Len(out'[r])] = report
<1>1. out[r] \in Seq(Report) /\ out \in [Requests -> Seq(Report)]
  BY DEF TypeOK
<1>2. CASE out[r] # << >> /\ out[r][Len(out[r])] = report
  BY <1>2 DEF emit
<1>3. CASE out' = [out EXCEPT ![r] = Append(@, report)]
  <2>1. out'[r] = Append(out[r], report)
    BY <1>1, <1>3
  <2>2. \A t \in Seq(Report) : /\ Append(t, report) # << >>
                               /\ Append(t, report)[Len(Append(t, report))] = report
    OBVIOUS
  <2> QED  BY <1>1, <2>1, <2>2
<1> QED  BY <1>2, <1>3 DEF emit

\* Only the stream of the request that emits changes.
LEMMA EmitOthers ==
  ASSUME TypeOK, NEW r \in Requests, NEW report, emit(r, report)
  PROVE  \A q \in Requests : q # r => out'[q] = out[q]
  BY DEF emit, TypeOK

LEMMA ReadersStep == RunnerInv /\ ReadersInv /\ [Next]_vars => ReadersInv'
<1> SUFFICES ASSUME RunnerInv, ReadersInv, [Next]_vars PROVE ReadersInv'
  OBVIOUS
<1> TypeOK
  BY DEF RunnerInv
<1> USE DEF ReadersInv, TypeOK
<1>1. ASSUME NEW r \in Requests, Post(r) \/ StartRefused(r) \/ StartFails(r)
      PROVE  ReadersInv'
  <2>1. /\ handler[r] \in {"sent", "body"}
        /\ \E h \in {"refused", "body", "closed"} : handler' = [handler EXCEPT ![r] = h]
        /\ UNCHANGED <<run, cancelled, desk>>
    BY <1>1 DEF Post, StartRefused, StartFails, Respond, historyVars
  <2> QED  BY <2>1
<1>2. ASSUME NEW r \in Requests, StartRun(r) PROVE ReadersInv'
  BY <1>2 DEF StartRun, Respond
<1>3. ASSUME NEW r \in Requests, NEW k \in Checks, onLine(r, k) PROVE ReadersInv'
  BY <1>3 DEF onLine, historyVars
<1>4. ASSUME NEW r \in Requests, ChildError(r) \/ ChildCloses(r) PROVE ReadersInv'
  <2>1. /\ handler' = [handler EXCEPT ![r] = "closed"]
        /\ cancelled' = [cancelled EXCEPT ![r] = FALSE]
        /\ UNCHANGED <<run, desk>>
    BY <1>4 DEF ChildError, ChildCloses, ChildEnds, Settle, Respond
  <2> QED  BY <2>1
<1>5. ASSUME NEW r \in Requests, Cancel(r) PROVE ReadersInv'
  BY <1>5 DEF Cancel, historyVars
<1>6. ASSUME NEW p \in Pages, ClickRun(p) PROVE ReadersInv'
  <2>1. PICK r \in Requests :
          /\ handler[r] = "none"
          /\ handler' = [handler EXCEPT ![r] = "sent"]
          /\ desk' = [desk EXCEPT ![p].busy = TRUE, ![p].fetch = r]
    BY <1>6 DEF ClickRun
  <2>2. /\ UNCHANGED <<run, cancelled>>
        /\ desk'[p].fetch = r /\ \A q \in Pages \ {p} : desk'[q].fetch = desk[q].fetch
    BY <1>6, <2>1 DEF ClickRun, historyVars
  <2> QED  BY <2>1, <2>2
<1>7. ASSUME NEW p \in Pages, LoadPage(p) \/ Read(p) \/ Release(p) \/ ClosePage(p)
      PROVE  ReadersInv'
  <2>1. /\ desk'[p].fetch \in {0, desk[p].fetch}
        /\ \A q \in Pages \ {p} : desk'[q].fetch = desk[q].fetch
        /\ UNCHANGED <<handler, cancelled, run>>
    BY <1>7 DEF LoadPage, Read, Release, ClosePage, ClosedPage, requestVars,
       historyVars
  <2>2. \A q \in Pages : desk'[q].fetch # 0 => desk'[q].fetch = desk[q].fetch
    BY <2>1
  <2>3. \A q, t \in Pages :
          desk'[q].fetch # 0 /\ desk'[t].fetch = desk'[q].fetch => t = q
    BY <2>2
  <2>4. \A q \in Pages : desk'[q].fetch # 0 => handler'[desk'[q].fetch] # "none"
    BY <2>1, <2>2
  <2>5. \A q \in Pages, r \in Requests : desk[q].fetch # r => desk'[q].fetch # r
    BY <2>2 DEF Requests
  <2> QED  BY <2>1, <2>3, <2>4, <2>5
<1>8. CASE Crash
  BY <1>8 DEF Crash, historyVars
<1>9. CASE UNCHANGED vars
  BY <1>9 DEF vars, requestVars, historyVars
<1>10. ASSUME NEW r \in Requests, OrphanEnds(r) PROVE ReadersInv'
  BY <1>10 DEF OrphanEnds, historyVars
<1> QED
  BY <1>1, <1>2, <1>3, <1>4, <1>5, <1>6, <1>7, <1>8, <1>9, <1>10
     DEF Next, Serve, Start, Use, ReadEnd, Disconnect

LEMMA RunsStep ==
  RunnerInv /\ NumberInv /\ ReadersInv /\ RunsInv /\ [Next]_vars => RunsInv'
<1> SUFFICES ASSUME RunnerInv, NumberInv, ReadersInv, RunsInv, [Next]_vars
             PROVE  RunsInv'
  OBVIOUS
<1> TypeOK
  BY DEF RunnerInv
<1> USE DEF RunsInv, TypeOK
<1>1. ASSUME NEW r \in Requests, Post(r) \/ StartRefused(r) \/ StartFails(r)
      PROVE  RunsInv'
  <2>1. /\ run[r] = 0 /\ UNCHANGED <<run, rootFound>>
        /\ \E h \in {"refused", "body", "closed"} : handler' = [handler EXCEPT ![r] = h]
    BY <1>1 DEF Post, StartRefused, StartFails, Respond, historyVars, ReadersInv
  <2> QED  BY <2>1
<1>2. ASSUME NEW r \in Requests, StartRun(r) PROVE RunsInv'
  <2>1. /\ rootFound /\ rootFound'
        /\ handler' = [handler EXCEPT ![r] = "await"]
        /\ run' = [run EXCEPT ![r] = started + 1]
    BY <1>2 DEF StartRun, Respond
  <2>2. \A q \in Requests : run[q] # started + 1
    BY DEF NumberInv
  <2> QED  BY <2>1, <2>2
<1>3. ASSUME NEW r \in Requests, NEW k \in Checks, onLine(r, k) PROVE RunsInv'
  BY <1>3 DEF onLine, historyVars
<1>4. ASSUME NEW r \in Requests, ChildError(r) \/ ChildCloses(r) PROVE RunsInv'
  <2>1. /\ handler[r] = "await" /\ handler' = [handler EXCEPT ![r] = "closed"]
        /\ UNCHANGED <<run, rootFound>>
    BY <1>4 DEF ChildError, ChildCloses, ChildEnds, Settle, Respond
  <2> QED  BY <2>1
<1>5. ASSUME NEW r \in Requests, Cancel(r) \/ OrphanEnds(r) PROVE RunsInv'
  BY <1>5 DEF Cancel, OrphanEnds, historyVars
<1>6. ASSUME NEW p \in Pages, ClickRun(p) PROVE RunsInv'
  <2>1. PICK r \in Requests :
          handler[r] = "none" /\ handler' = [handler EXCEPT ![r] = "sent"]
    BY <1>6 DEF ClickRun
  <2>2. run[r] = 0 /\ UNCHANGED <<run, rootFound>>
    BY <1>6, <2>1 DEF ClickRun, historyVars, ReadersInv
  <2> QED  BY <2>1, <2>2
<1>7. ASSUME NEW p \in Pages, LoadPage(p) \/ Read(p) \/ Release(p) \/ ClosePage(p)
      PROVE  RunsInv'
  BY <1>7 DEF LoadPage, Read, Release, ClosePage, requestVars, historyVars
<1>8. CASE Crash
  BY <1>8 DEF Crash, historyVars, ReadersInv
<1>9. CASE UNCHANGED vars
  BY <1>9 DEF vars, requestVars, historyVars
<1> QED
  BY <1>1, <1>2, <1>3, <1>4, <1>5, <1>6, <1>7, <1>8, <1>9
     DEF Next, Serve, Start, Use, ReadEnd, Disconnect

\* A page whose stream is left alone will show what it would have shown.
LEMMA VerdictKept ==
  ASSUME NEW p, NEW r, out'[r] = out[r], run'[r] = run[r],
         desk'[p].report = desk[p].report, Verdict(r, LastOf(p, r)),
         latest' = latest \/ latest'.run # run[r]
  PROVE  Verdict(r, LastOf(p, r))'
  BY DEF Verdict, LastOf

\* To read a report from the stream does not change what comes last.
LEMMA TailLast ==
  ASSUME NEW t \in Seq(Report), t # << >>
  PROVE  (IF Tail(t) = << >> THEN Head(t) ELSE Tail(t)[Len(Tail(t))]) = t[Len(t)]
<1>1. Len(t) \in Nat \ {0} /\ Len(Tail(t)) = Len(t) - 1 /\ Tail(t) \in Seq(Report)
  OBVIOUS
<1>2. CASE Tail(t) = << >>
  BY <1>1, <1>2
<1>3. CASE Tail(t) # << >>
  <2>1. Len(Tail(t)) \in 1 .. Len(t) - 1
    BY <1>1, <1>3
  <2> QED  BY <1>1, <1>3, <2>1
<1> QED  BY <1>2, <1>3

LEMMA VerdictsStep ==
  RunnerInv /\ LeftoverInv /\ NumberInv /\ ReadersInv /\ RunsInv /\ VerdictsInv
  /\ [Next]_vars => VerdictsInv'
<1> SUFFICES ASSUME RunnerInv, LeftoverInv, NumberInv, ReadersInv, RunsInv,
                    VerdictsInv, [Next]_vars,
                    NEW p \in Pages, NEW r \in Requests, desk'[p].fetch = r,
                    run'[r] # 0, handler'[r] = "closed"
             PROVE  Verdict(r, LastOf(p, r))'
  BY DEF VerdictsInv
<1> TypeOK
  BY DEF RunnerInv
<1>0. CASE /\ desk'[p] = desk[p] /\ out'[r] = out[r] /\ run'[r] = run[r]
           /\ handler[r] = "closed" /\ (latest' = latest \/ latest'.run # run[r])
  BY <1>0, VerdictKept DEF VerdictsInv
<1>1. ASSUME NEW q \in Requests, Post(q) \/ StartRefused(q) \/ Cancel(q)
      PROVE  Verdict(r, LastOf(p, r))'
  BY <1>0, <1>1 DEF Post, StartRefused, Cancel, Respond, runnerVars,
     historyVars, TypeOK, ReadersInv
<1>2. ASSUME NEW q \in Requests, StartRun(q) \/ StartFails(q)
      PROVE  Verdict(r, LastOf(p, r))'
  <2>1. /\ UNCHANGED desk /\ run'[r] = run[r] /\ handler[r] = "closed" /\ q # r
    BY <1>2 DEF StartRun, StartFails, Respond, TypeOK, ReadersInv
  <2>2. out'[r] = out[r]
    BY <1>2, <2>1, EmitOthers DEF StartRun, StartFails
  <2>3. rootFound /\ run[r] <= started /\ run[r] \in Nat /\ started \in Nat
    BY <2>1 DEF RunsInv, NumberInv, TypeOK
  <2>4. latest'.run # run[r]
    BY <1>2, <2>3 DEF StartRun, StartFails, remember
  <2> QED  BY <1>0, <2>1, <2>2, <2>4
<1>3. ASSUME NEW q \in Requests, NEW k \in Checks, onLine(q, k)
      PROVE  Verdict(r, LastOf(p, r))'
  <2>1. UNCHANGED <<desk, run, handler>> /\ q # r
    BY <1>3 DEF onLine, historyVars, RunnerInv, Awaiting
  <2>2. out'[r] = out[r]
    BY <1>3, <2>1, EmitOthers DEF onLine
  <2>3. run[q] # run[r]
    BY <2>1 DEF RunsInv
  <2>4. latest' = latest \/ latest'.run # run[r]
    BY <1>3, <2>3 DEF onLine
  <2> QED  BY <1>0, <2>1, <2>2, <2>4
<1>4. ASSUME NEW q \in Requests, NEW ok \in BOOLEAN,
             NEW status \in {"passed", "failed", "error"}, ChildEnds(q, ok, status)
      PROVE  Verdict(r, LastOf(p, r))'
  <2> DEFINE report == [run |-> run[q], status |-> status]
  <2>1. report \in Report
    BY DEF Report, TypeOK
  <2>2. /\ Respond(q, "await", "closed") /\ UNCHANGED <<run, desk>>
        /\ emit(q, report)
    BY <1>4 DEF ChildEnds, Settle
  <2>3. CASE q = r
    <3>1. ~cancelled[r]
      BY <2>2 DEF ReadersInv
    <3>2. out'[r] # << >> /\ out'[r][Len(out'[r])] = report
      BY <2>1, <2>2, <2>3, <3>1, EmitLast
    <3>3. latest' = report
      BY <1>4, <2>3, <3>1 DEF ChildEnds, Settle, remember
    <3> QED  BY <2>2, <2>3, <3>2, <3>3 DEF Verdict, LastOf
  <2>4. CASE q # r
    <3>1. run[q] # run[r]
      BY <2>2, <2>4 DEF RunsInv
    <3>2. latest'.run # run[r]
      BY <1>4, <3>1 DEF ChildEnds, Settle, remember
    <3> QED  BY <1>0, <2>2, <2>4, <3>2, EmitOthers DEF Respond, TypeOK
  <2> QED  BY <2>3, <2>4
<1>5. ASSUME NEW q \in Requests, ChildError(q) \/ ChildCloses(q)
      PROVE  Verdict(r, LastOf(p, r))'
  BY <1>4, <1>5, EndStatus DEF ChildError, ChildCloses
<1>6. ASSUME NEW q \in Pages, LoadPage(q) \/ ClickRun(q)
      PROVE  Verdict(r, LastOf(p, r))'
  <2>1. ASSUME LoadPage(q) PROVE q # p
    BY <2>1 DEF LoadPage, TypeOK, Requests
  <2>2. ASSUME ClickRun(q) PROVE q # p
    BY <2>2 DEF ClickRun, TypeOK
  <2>3. /\ desk'[p] = desk[p] /\ UNCHANGED <<out, run>> /\ handler[r] = "closed"
    BY <1>6, <2>1, <2>2 DEF LoadPage, ClickRun, TypeOK, requestVars, historyVars
  <2>4. latest # NoReport
    BY <2>3 DEF LeftoverInv, MemoryKnows
  <2>5. latest' = latest
    BY <1>6, <2>4 DEF LoadPage, getLatestReport, ClickRun, runnerVars
  <2> QED  BY <1>0, <2>3, <2>5
<1>7. ASSUME NEW q \in Pages, Read(q) PROVE Verdict(r, LastOf(p, r))'
  <2> DEFINE t == desk[q].fetch
  <2>1. /\ t \in Requests /\ out[t] \in Seq(Report) /\ out[t] # << >>
        /\ desk' = [desk EXCEPT ![q].report = Head(out[t])]
        /\ out' = [out EXCEPT ![t] = Tail(@)]
        /\ UNCHANGED <<handler, run, latest>>
    BY <1>7 DEF Read, runnerVars, historyVars, TypeOK
  <2>2. desk[p].fetch = r
    BY <2>1 DEF TypeOK
  <2>3. CASE q = p
    <3>1. out'[r] = Tail(out[r]) /\ desk'[p].report = Head(out[r])
      BY <2>1, <2>2, <2>3 DEF TypeOK
    <3>2. LastOf(p, r)' = LastOf(p, r)
      BY <2>1, <2>2, <2>3, <3>1, TailLast DEF LastOf
    <3> QED  BY <2>1, <2>2, <3>2 DEF Verdict, VerdictsInv
  <2>4. CASE q # p
    <3>1. t # r
      BY <2>1, <2>2, <2>4 DEF ReadersInv, Requests
    <3> QED  BY <1>0, <2>1, <2>4, <3>1 DEF TypeOK
  <2> QED  BY <2>3, <2>4
<1>8. ASSUME NEW q \in Pages, Release(q) \/ ClosePage(q)
      PROVE  Verdict(r, LastOf(p, r))'
  <2>1. q # p
    BY <1>8 DEF Release, ClosePage, ClosedPage, TypeOK, Requests
  <2>2. desk'[p] = desk[p] /\ UNCHANGED <<handler, run, latest>>
    BY <1>8, <2>1 DEF Release, ClosePage, TypeOK, runnerVars, historyVars
  <2>3. desk[q].fetch # r
    BY <2>1, <2>2 DEF ReadersInv, Requests
  <2>4. out'[r] = out[r]
    BY <1>8, <2>3 DEF Release, ClosePage, Drained
  <2> QED  BY <1>0, <2>2, <2>4
<1>9. CASE Crash
  BY <1>9 DEF Crash
<1>10. CASE UNCHANGED vars
  BY <1>0, <1>10 DEF vars, runnerVars, requestVars, historyVars
<1>11. ASSUME NEW q \in Requests, OrphanEnds(q) PROVE Verdict(r, LastOf(p, r))'
  BY <1>0, <1>11 DEF OrphanEnds, runnerVars, historyVars
<1> QED
  BY <1>1, <1>2, <1>3, <1>5, <1>6, <1>7, <1>8, <1>9, <1>10, <1>11
     DEF Next, Serve, Start, Use, ReadEnd, Disconnect

\* A page that reads its stream to the end shows a final status of the run that
\* it started, the one that is remembered: no run, report or end of another
\* request gets in between.
THEOREM VerdictIsShown == Spec => []VerdictShown
<1>1. Init => ReadersInv /\ RunsInv /\ VerdictsInv
  BY DEF Init, ReadersInv, RunsInv, VerdictsInv, ClosedPage, Requests
<1>2. VerdictsInv => VerdictShown
  BY DEF VerdictsInv, VerdictShown, Verdict, LastOf
<1> QED
  BY <1>1, <1>2, ReadersStep, RunsStep, VerdictsStep, NumberInvariance, PTL DEF Spec

=============================================================================
