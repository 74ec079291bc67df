----------------------------- MODULE ActionRun -----------------------------
(***************************************************************************)
(* The steps of a job around the agent: a start step launches it through   *)
(* sudo and may wait for its readiness file, a stop step ends it and reads *)
(* its log.  Each exists twice, in Go (internal/actioncli) and TypeScript  *)
(* (src/start.ts, src/stop.ts), and they may be mixed.  They meet the      *)
(* agent only through files and signals: the status file, the pid file,    *)
(* the readiness marker and the event log.  Jobs follow one another in one *)
(* workspace and find what the last one left there.                        *)
(***************************************************************************)
EXTENDS Report

CONSTANTS
  Uses,     \* ways to use the action
  Jobs,     \* how many jobs run in the workspace
  MaxLines  \* an agent with so many lines writes no more but its last one

\* Who starts and who stops, the inputs fail-on-error and strict, and whether
\* the steps may signal a process of root themselves.
Use == [startBy : {"go", "ts"}, stopBy : {"go", "ts"}, failOnError : BOOLEAN,
        root : BOOLEAN, strict : BOOLEAN]

ASSUME UsesAssumption == Uses \subseteq Use
ASSUME JobsAssumption == Jobs \in Nat \ {0} /\ MaxLines \in Nat

VARIABLES
  use,      \* the member of Uses
  job,      \* the current job
  life,     \* of each job's agent and the sudo process above it
  termed,   \* jobs whose agent has received SIGTERM
  status,   \* .coldstep-ready.json: the agent that wrote it and its "ok"
  markers,  \* readiness markers: Go's file, TypeScript's state of the job
  pidFile,  \* .coldstep.pid
  log,      \* .coldstep-events.jsonl
  start,    \* the start step: where it is, or how it ended
  stop,     \* the stop step: where it is
  by,       \* which program executes the stop step
  failed,   \* the stop step has failed the job
  report,   \* the lines the report was made of
  gaveUp,   \* a wait of this stop step ran out of time
  denied,   \* a signal of this stop step could not be sent
  deemed,   \* processes that a step of this job took for gone
  told,     \* jobs whose agent has reported ready
  overlap   \* this job began while an earlier agent was still to report

agentVars == <<life, termed, status, log, told>>
startVars == <<start, markers, pidFile, overlap>>
stopVars == <<stop, by, failed, report, gaveUp, denied>>
vars == <<use, job, agentVars, startVars, stopVars, deemed>>

\* A process: the sudo of a job, or the agent below it.
Pid(j, of) == [job |-> j, of |-> of]
NoPid == Pid(0, "none")
Status(j, ok) == [job |-> j, ok |-> ok]
NoStatus == Status(0, FALSE)
Line(j, type) == [job |-> j, event |-> [type |-> type]]

Init ==
  /\ use \in Uses
  /\ job = 1
  /\ life = [j \in 1..Jobs |-> "none"]
  /\ termed = {}
  /\ status = NoStatus
  /\ markers = {}
  /\ pidFile = NoPid
  /\ log = << >>
  /\ start = "idle"
  /\ stop = "idle"
  /\ by = "go"
  /\ failed = FALSE
  /\ report = << >>
  /\ gaveUp = FALSE
  /\ denied = FALSE
  /\ deemed = {}
  /\ told = {}
  /\ overlap = FALSE

-----------------------------------------------------------------------------
(* The agent process, as seen from outside.                                *)

AgentUp(j) == life[j] \in {"loading", "running"}

\* sudo stays as long as the agent, and a little longer.
Exists(p) ==
  CASE p.of = "agent" -> AgentUp(p.job)
    [] p.of = "sudo" -> life[p.job] \in {"sudo", "loading", "running", "exited"}
    [] OTHER -> FALSE

Becomes(j, state) == life' = [life EXCEPT ![j] = state]

AgentExecs(j) ==
  /\ life[j] = "sudo"
  /\ Becomes(j, "loading")
  /\ UNCHANGED <<use, job, termed, status, log, told, startVars, stopVars, deemed>>

\* writeStartupMeta and writeAgentStatus.  A signal during the load phases does
\* not keep the agent from reporting ready.
AgentReady(j) ==
  /\ life[j] = "loading"
  /\ Becomes(j, "running")
  /\ log' = Append(log, Line(j, "meta"))
  /\ status' = Status(j, TRUE)
  /\ told' = told \cup {j}
  /\ UNCHANGED <<use, job, termed, startVars, stopVars, deemed>>

\* A failed load phase returns; two of them write that the agent is not ready.
AgentFails(j) ==
  /\ life[j] = "loading"
  /\ Becomes(j, "exited")
  /\ status' \in {status, Status(j, FALSE)}
  /\ UNCHANGED <<use, job, termed, log, told, startVars, stopVars, deemed>>

\* Lines about the workload.
AgentLogs(j) ==
  /\ life[j] = "running"
  /\ Len(SelectSeq(log, LAMBDA line : line.job = j)) < MaxLines
  /\ log' = log \o <<Line(j, "exec"), Line(j, "tcp")>>
  /\ UNCHANGED <<use, job, life, termed, status, told, startVars, stopVars, deemed>>

\* SIGTERM: the readers drain, writeShutdownTelemetry adds the last line.
AgentStops(j) ==
  /\ life[j] = "running"
  /\ j \in termed
  /\ Becomes(j, "exited")
  /\ log' = Append(log, Line(j, "meta"))
  /\ UNCHANGED <<use, job, termed, status, told, startVars, stopVars, deemed>>

\* A crash, or SIGTERM before the handler is installed.
AgentDies(j) ==
  /\ life[j] = "running" \/ (life[j] = "loading" /\ j \in termed)
  /\ Becomes(j, "exited")
  /\ UNCHANGED <<use, job, termed, status, log, told, startVars, stopVars, deemed>>

SudoEnds(j) ==
  /\ life[j] \in {"sudo", "exited"}
  /\ Becomes(j, "gone")
  /\ UNCHANGED <<use, job, termed, status, log, told, startVars, stopVars, deemed>>

-----------------------------------------------------------------------------
(* Processes, as the steps see them.                                       *)

\* pidAlive: signal 0 to a process of another user fails.
pidAlive(p) == Exists(p) /\ use.root

\* Variation: an error of signal 0 means that the process is gone.
isProcessAliveStrict(p) == Exists(p) /\ use.root

\* isProcessAlive: that error means that the process is there.
isProcessAlive(p) == Exists(p)

\* The process p, if it is there, is the agent, and the signal gets through.
SignalReaches(p, sent) ==
  termed' = IF sent /\ p.of = "agent" /\ Exists(p) THEN termed \cup {p.job} ELSE termed

\* stopAgent of the start steps: a direct signal whose error is ignored.
Terminate(p) == SignalReaches(p, use.root)

\* walkForAgentComm: the agent is found once sudo has forked and executed it.
findAgentPID == Pid(job, IF AgentUp(job) THEN "agent" ELSE "sudo")

-----------------------------------------------------------------------------
(* The start step.                                                         *)

\* Inputs are refused, no binary, sudo does not start: some of it before, some
\* of it after the files of an earlier job are removed.
StartRefused ==
  /\ start \in {"idle", "spawn"}
  /\ start' = "failed"
  /\ UNCHANGED <<use, job, agentVars, markers, pidFile, overlap, stopVars, deemed>>

Overlaps == \E j \in 1..(job - 1) : life[j] \in {"sudo", "loading"}

\* Variation: the status file of an earlier job stays.
StartKeepsStatus ==
  /\ start = "idle"
  /\ start' = "spawn"
  /\ markers' = IF use.startBy = "go" THEN markers \ {"go"} ELSE markers
  /\ overlap' = Overlaps
  /\ UNCHANGED <<use, job, agentVars, pidFile, stopVars, deemed>>

\* The workspace belongs to the user of the step, so removing succeeds.
StartCleans ==
  /\ start = "idle"
  /\ start' = "spawn"
  /\ status' = NoStatus
  /\ markers' = IF use.startBy = "go" THEN markers \ {"go"} ELSE markers
  /\ overlap' = Overlaps
  /\ UNCHANGED <<use, job, life, termed, log, told, pidFile, stopVars, deemed>>

Spawn ==
  /\ start = "spawn"
  /\ start' = "pid"
  /\ Becomes(job, "sudo")
  /\ UNCHANGED <<use, job, termed, status, log, told, markers, pidFile, overlap,
                 stopVars, deemed>>

\* Discovery ends with the agent, or with sudo after its timeout.  A start step that
\* fails here, on the file or a child that is gone already, leaves the pid file alone.
WritePid ==
  /\ start = "pid"
  /\ \/ /\ pidFile' = findAgentPID
        /\ start' = IF use.failOnError THEN "poll" ELSE "ok"
        /\ UNCHANGED termed
     \/ /\ start' = "failed"
        /\ UNCHANGED pidFile
        /\ IF use.startBy = "go" THEN Terminate(findAgentPID) ELSE UNCHANGED termed
  /\ UNCHANGED <<use, job, life, status, log, told, markers, overlap, stopVars, deemed>>

\* readReady, classifyReadyStatus: the agent replaces the file in one step, so a
\* reader finds none or a whole one.
ReadyOk == status # NoStatus /\ status.ok
explicitFail == status # NoStatus /\ ~ status.ok

\* waitForReady returns "ready"; the marker is written.
PollReady ==
  /\ start = "poll"
  /\ ReadyOk
  /\ \/ start' = "ok" /\ markers' = markers \cup {use.startBy} /\ UNCHANGED termed
     \/ /\ use.startBy = "go"
        /\ start' = "failed"
        /\ Terminate(pidFile)
        /\ UNCHANGED markers
  /\ UNCHANGED <<use, job, life, status, log, told, pidFile, overlap, stopVars, deemed>>

\* The start step sees its child gone: Go asks for the process of the pid file,
\* TypeScript has the exit of sudo.
ChildExit ==
  IF use.startBy = "go" THEN ~ pidAlive(pidFile) ELSE life[job] = "gone"

\* waitForReady returns anything else; the deadline may pass at any time.
PollFails ==
  /\ start = "poll"
  /\ \/ explicitFail /\ UNCHANGED deemed
     \/ /\ ~ ReadyOk /\ ChildExit
        /\ deemed' = deemed \cup {IF use.startBy = "go" THEN pidFile ELSE Pid(job, "sudo")}
     \/ UNCHANGED deemed
  /\ start' = "failed"
  /\ Terminate(pidFile)
  /\ UNCHANGED <<use, job, life, status, log, told, markers, pidFile, overlap, stopVars>>

-----------------------------------------------------------------------------
(* The stop step.                                                          *)

\* The readiness check: Go returns here, TypeScript fails the job and goes on.
StopChecks ==
  LET unready == use.failOnError /\ use.stopBy \notin markers /\ ~ ReadyOk
  IN
  /\ start \in {"ok", "failed"}
  /\ stop = "idle"
  /\ by' = use.stopBy
  /\ failed' = unready
  /\ stop' = IF unready /\ use.stopBy = "go" THEN "done" ELSE "signal"
  /\ UNCHANGED <<use, job, agentVars, startVars, report, gaveUp, denied, deemed>>

\* Variation: a refused signal is not sent again with sudo.
SendTermDirectly(p) == SignalReaches(p, use.root) /\ UNCHANGED denied

\* A signal that is refused is sent again with sudo kill, which may fail.
SendTerm(p) ==
  \E sent \in {TRUE, use.root \/ ~ Exists(p)} :
    /\ SignalReaches(p, sent)
    /\ denied' = (denied \/ ~ sent)

\* The TypeScript step is done with the agent; it runs coldstep stop, which does
\* all of it again, unless the binary is missing.
HandOver ==
  \/ by' = "go" /\ stop' = "signal"
  \/ UNCHANGED by /\ stop' = "done"

\* Without a pid file there is nothing to signal.
StopWithoutPid ==
  /\ stop = "signal"
  /\ pidFile = NoPid
  /\ \/ by = "go" /\ stop' = "report" /\ UNCHANGED by
     \/ by = "ts" /\ HandOver
  /\ UNCHANGED <<use, job, agentVars, startVars, failed, report, gaveUp, denied, deemed>>

\* TypeScript waits only if it could send the signal.
StopSignals ==
  /\ stop = "signal"
  /\ pidFile # NoPid
  /\ SendTerm(pidFile)
  /\ \/ (by = "go" \/ (Exists(pidFile) /\ ~ denied')) /\ stop' = "wait" /\ UNCHANGED by
     \/ by = "ts" /\ (~ Exists(pidFile) \/ denied') /\ HandOver
  /\ UNCHANGED <<use, job, life, status, log, told, startVars, failed, report, gaveUp,
                 deemed>>

\* waitForAgentExit, waitForProcessExit: until the process is gone, or 10 s or 3 s.
StopWaits ==
  /\ stop = "wait"
  /\ LET alive == IF by = "go" THEN pidAlive(pidFile) ELSE isProcessAlive(pidFile)
     IN  /\ gaveUp' = (gaveUp \/ alive)
         /\ deemed' = IF alive THEN deemed ELSE deemed \cup {pidFile}
  /\ \/ by = "go" /\ stop' = "report" /\ UNCHANGED by
     \/ by = "ts" /\ HandOver
  /\ UNCHANGED <<use, job, agentVars, startVars, failed, report, denied>>

\* writeDetailedMarkdownReport and the surfaces, then the strict gate.
StopReports ==
  /\ stop = "report"
  /\ stop' = "done"
  /\ report' = log
  /\ failed' = (failed \/ (use.strict /\ MissingRequiredTypes(log, "standard") # {}))
  /\ UNCHANGED <<use, job, agentVars, startVars, by, gaveUp, denied, deemed>>

\* The next job; TypeScript's state belongs to the job.
NextJob ==
  /\ stop = "done"
  /\ job < Jobs
  /\ job' = job + 1
  /\ markers' = markers \ {"ts"}
  /\ start' = "idle"
  /\ stop' = "idle"
  /\ failed' = FALSE
  /\ report' = << >>
  /\ gaveUp' = FALSE
  /\ denied' = FALSE
  /\ overlap' = FALSE
  /\ by' = "go"
  /\ deemed' = {}
  /\ UNCHANGED <<use, agentVars, pidFile>>

-----------------------------------------------------------------------------
Step ==
  \/ StartRefused \/ StartCleans \/ Spawn \/ WritePid \/ PollReady \/ PollFails
  \/ StopChecks \/ StopWithoutPid \/ StopSignals \/ StopWaits \/ StopReports
  \/ NextJob

\* What the kernel's scheduler brings about: the agent comes up or fails, and drains
\* once it is told to.  Crashes are not owed.
AgentWorks(j) == AgentExecs(j) \/ AgentReady(j) \/ AgentFails(j) \/ AgentStops(j)

Next ==
  Step \/ \E j \in 1..Jobs : AgentWorks(j) \/ AgentLogs(j) \/ AgentDies(j) \/ SudoEnds(j)

Spec == Init /\ [][Next]_vars

FairSpec == Spec /\ \A j \in 1..Jobs : WF_vars(AgentWorks(j))

-----------------------------------------------------------------------------
(* Properties.                                                             *)

\* A start step with fail-on-error succeeds only if its own agent has reported
\* ready: not on a status file that an earlier job left.  (An earlier agent that is
\* still loading then may report into the same file.)
StartOkMeansReady ==
  start = "ok" /\ use.failOnError => job \in told \/ overlap

\* A report covers all that its agent ever writes, if the stop step has seen the agent
\* go: it ran into no timeout and no refused signal, knows this job's process, and
\* could tell a process of root from none.
ReportIsWhole ==
  /\ stop = "done" /\ report # << >>
  /\ pidFile.job = job
  /\ ~ gaveUp /\ ~ denied
  /\ use.root \/ use.stopBy = "ts"
  => \A i \in 1..Len(log) :
       log[i].job = job => i <= Len(report) /\ report[i] = log[i]

\* An agent that the stop step signals ends, also when only sudo may signal it:
\* its hooks do not outlive the job.
StopEndsAgent ==
  \A j \in 1..Jobs :
    (stop = "wait" /\ pidFile = Pid(j, "agent") /\ ~ denied) ~> ~ AgentUp(j)

\* What waitForAgentExit and waitForReady call exited has exited.
ExitedMeansGone == \A p \in deemed : ~ Exists(p)
=============================================================================
