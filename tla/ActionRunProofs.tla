--------------------------- MODULE ActionRunProofs ---------------------------
(***************************************************************************)
(* What the start step's success and the stop step's report mean, for any  *)
(* number of jobs in one workspace and any mix of the two implementations. *)
(*                                                                         *)
(* Starting: StartOkMeansReady is not inductive.  Launched adds why the    *)
(* status file can be trusted while the step polls: it was removed when    *)
(* the step began, and an earlier agent that could still write it is what  *)
(* `overlap` stands for.                                                   *)
(***************************************************************************)
EXTENDS ActionRun, TLAPS

LifeStates == {"none", "sudo", "loading", "running", "exited", "gone"}

Launching == start \in {"spawn", "pid", "poll"}

Lives ==
  /\ job \in Nat \ {0}
  /\ life \in [1..Jobs -> LifeStates]
  /\ \A j \in 1..Jobs : j > job => life[j] = "none"

Launched ==
  /\ Launching => (Overlaps => overlap)
  /\ Launching => (ReadyOk => job \in told \/ overlap)
  /\ StartOkMeansReady

\* The steps of agent j's processes.
ProcessStep(j) == AgentWorks(j) \/ AgentLogs(j) \/ AgentDies(j) \/ SudoEnds(j)

\* What any of them does to the variables of the steps, and to the process itself: it
\* never comes back to sudo or to none, and loads only after sudo.
LEMMA ProcessMoves ==
  ASSUME Lives, NEW j \in 1..Jobs, ProcessStep(j)
  PROVE  /\ UNCHANGED <<use, job, startVars, stopVars, deemed>>
         /\ \E st \in LifeStates \ {"none", "sudo"} :
              /\ life[j] # "none"
              /\ life' = [life EXCEPT ![j] = st]
              /\ st = "loading" => life[j] \in {"sudo", "loading"}
              /\ life[j] \in {"exited", "gone"} => st \in {"exited", "gone"}
<1>1. UNCHANGED <<use, job, startVars, stopVars, deemed>>
  BY Zenon DEF ProcessStep, AgentWorks, AgentExecs, AgentReady, AgentFails, AgentLogs, AgentStops,
         AgentDies, SudoEnds
<1>2. CASE AgentLogs(j)
  <2>1. life[j] = "running" /\ life' = [life EXCEPT ![j] = "running"]
    BY <1>2 DEF AgentLogs, Lives
  <2> QED BY Zenon, <1>1, <2>1 DEF LifeStates
<1>3. CASE ~ AgentLogs(j)
  <2>1. PICK st \in {"loading", "running", "exited", "gone"} :
          /\ life' = [life EXCEPT ![j] = st]
          /\ \/ life[j] = "sudo" /\ st \in {"loading", "gone"}
             \/ life[j] = "loading" /\ st \in {"running", "exited"}
             \/ life[j] = "running" /\ st = "exited"
             \/ life[j] = "exited" /\ st = "gone"
    BY Zenon, <1>3 DEF ProcessStep, AgentWorks, AgentExecs, AgentReady, AgentFails, AgentStops,
                AgentDies, SudoEnds, Becomes
  <2> QED BY Zenon, <1>1, <2>1 DEF LifeStates
<1> QED BY <1>2, <1>3

LEMMA LivesStep == Lives /\ [Next]_vars => Lives'
<1> SUFFICES ASSUME Lives, [Next]_vars PROVE Lives'
  OBVIOUS
<1>1. ASSUME NEW j \in 1..Jobs, ProcessStep(j) PROVE Lives'
  <2>1. job' = job
    BY <1>1, ProcessMoves
  <2>2. PICK st \in LifeStates \ {"none", "sudo"} :
          life[j] # "none" /\ life' = [life EXCEPT ![j] = st]
    BY <1>1, ProcessMoves
  <2> QED BY <2>1, <2>2 DEF Lives
<1>2. CASE Spawn
  <2>1. job' = job /\ life' = [life EXCEPT ![job] = "sudo"]
    BY Zenon, <1>2 DEF Spawn, Becomes
  <2>2. life' \in [1..Jobs -> LifeStates]
    BY Zenon, <2>1 DEF Lives, LifeStates
  <2>3. \A j \in 1..Jobs : j > job => j # job /\ life'[j] = life[j]
    BY <2>1 DEF Lives
  <2> QED BY <2>1, <2>2, <2>3 DEF Lives
<1>3. CASE NextJob
  <2>1. job' = job + 1 /\ life' = life
    BY <1>3 DEF NextJob, agentVars
  <2> QED BY <2>1 DEF Lives
<1>4. ASSUME UNCHANGED <<job, life>> PROVE Lives'
  BY <1>4 DEF Lives
<1>5. CASE \/ StartRefused \/ StartCleans \/ WritePid \/ PollReady \/ PollFails
           \/ StopChecks \/ StopWithoutPid \/ StopSignals \/ StopWaits \/ StopReports
           \/ UNCHANGED vars
  <2>1. UNCHANGED <<job, life>>
    BY <1>5 DEF StartRefused, StartCleans, WritePid, PollReady, PollFails, StopChecks,
       StopWithoutPid, StopSignals, StopWaits, StopReports, vars, agentVars
  <2> QED BY <1>4, <2>1
<1> QED BY <1>1, <1>2, <1>3, <1>5 DEF Next, Step, ProcessStep

\* An agent's step keeps Launched: it reports for itself, or it was there before.
LEMMA LaunchedProcess ==
  ASSUME Lives, Launched, NEW j \in 1..Jobs, ProcessStep(j)
  PROVE  Launched'
<1>1. UNCHANGED <<use, job, start, overlap>>
  BY ProcessMoves DEF startVars
<1>2. PICK st \in LifeStates \ {"none", "sudo"} :
        /\ life[j] # "none"
        /\ life' = [life EXCEPT ![j] = st]
        /\ st = "loading" => life[j] \in {"sudo", "loading"}
  BY ProcessMoves
<1>3. Overlaps' => Overlaps
  <2> SUFFICES ASSUME NEW i \in 1..(job - 1), life'[i] \in {"sudo", "loading"}
               PROVE  life[i] \in {"sudo", "loading"}
    BY <1>1 DEF Overlaps
  <2> QED BY <1>2 DEF Lives
<1>4. told \subseteq told'
  BY Zenon DEF ProcessStep, AgentWorks, AgentExecs, AgentReady, AgentFails, AgentLogs, AgentStops,
         AgentDies, SudoEnds
<1>5. CASE AgentReady(j)
  <2>1. j \in told' /\ life[j] = "loading"
    BY <1>5 DEF AgentReady
  <2>2. j <= job
    BY <2>1 DEF Lives
  <2>3. Launching => job \in told' \/ overlap
    <3>1. CASE j = job
      BY <2>1, <3>1
    <3>2. CASE j # job
      <4>1. j \in 1..(job - 1)
        BY <2>2, <3>2 DEF Lives
      <4>2. Overlaps
        BY <2>1, <4>1 DEF Overlaps
      <4> QED BY <4>2 DEF Launched
    <3> QED BY <3>1, <3>2
  <2> QED BY <1>1, <1>3, <1>4, <2>3 DEF Launched, Launching, StartOkMeansReady
<1>6. CASE ~ AgentReady(j)
  <2>1. status' = status \/ status' = Status(j, FALSE)
    BY Zenon, <1>6 DEF ProcessStep, AgentWorks, AgentExecs, AgentFails, AgentLogs, AgentStops,
                AgentDies, SudoEnds
  <2>2. ReadyOk' => ReadyOk
    BY <2>1 DEF ReadyOk, Status
  <2> QED BY <1>1, <1>3, <1>4, <2>2 DEF Launched, Launching, StartOkMeansReady
<1> QED BY <1>5, <1>6

LEMMA LaunchedStep == Lives /\ Launched /\ [Next]_vars => Launched'
<1> SUFFICES ASSUME Lives, Launched, [Next]_vars PROVE Launched'
  OBVIOUS
<1> USE DEF agentVars, startVars, stopVars
<1>1. CASE StartRefused
  BY <1>1 DEF StartRefused, Launched, Launching, StartOkMeansReady
<1>2. CASE StartCleans
  <2>1. /\ start' = "spawn" /\ overlap' = Overlaps /\ status' = NoStatus
        /\ UNCHANGED <<job, life, use, told>>
    BY <1>2 DEF StartCleans
  <2>2. ~ ReadyOk'
    BY <2>1 DEF ReadyOk, NoStatus, Status
  <2>3. Overlaps' = Overlaps
    BY <2>1 DEF Overlaps
  <2> QED BY <2>1, <2>2, <2>3 DEF Launched, StartOkMeansReady
<1>3. CASE Spawn
  <2>1. /\ start = "spawn" /\ start' = "pid" /\ life' = [life EXCEPT ![job] = "sudo"]
        /\ UNCHANGED <<job, use, told, status, overlap>>
    BY <1>3 DEF Spawn, Becomes
  <2>2. Overlaps' => Overlaps
    <3> SUFFICES ASSUME NEW i \in 1..(job - 1), life'[i] \in {"sudo", "loading"}
                 PROVE  life[i] \in {"sudo", "loading"}
      BY <2>1 DEF Overlaps
    <3>1. i # job
      BY DEF Lives
    <3> QED BY <2>1, <3>1 DEF Lives
  <2>3. ReadyOk' = ReadyOk
    BY <2>1 DEF ReadyOk
  <2> QED BY <2>1, <2>2, <2>3 DEF Launched, Launching, StartOkMeansReady
<1>4. ASSUME UNCHANGED <<job, life, use, told, status, overlap>>
      PROVE  Overlaps' = Overlaps /\ ReadyOk' = ReadyOk
  BY <1>4 DEF Overlaps, ReadyOk
<1>5. CASE WritePid
  <2>1. /\ start = "pid" /\ start' \in {"poll", "ok", "failed"}
        /\ start' = "ok" => ~ use.failOnError
        /\ UNCHANGED <<job, life, use, told, status, overlap>>
    BY Zenon, <1>5 DEF WritePid
  <2> QED BY <1>4, <2>1 DEF Launched, Launching, StartOkMeansReady
<1>6. CASE PollReady \/ PollFails
  <2>1. /\ start = "poll" /\ start' \in {"ok", "failed"}
        /\ start' = "ok" => ReadyOk
        /\ UNCHANGED <<job, life, use, told, status, overlap>>
    BY <1>6 DEF PollReady, PollFails
  <2> QED BY <1>4, <2>1 DEF Launched, Launching, StartOkMeansReady
<1>7. CASE NextJob
  BY <1>7 DEF NextJob, Launched, Launching, StartOkMeansReady
<1>8. CASE StopChecks \/ StopWithoutPid \/ StopSignals \/ StopWaits \/ StopReports
           \/ UNCHANGED vars
  <2>1. UNCHANGED <<start, job, life, use, told, status, overlap>>
    BY <1>8 DEF StopChecks, StopWithoutPid, StopSignals, StopWaits, StopReports, vars
  <2> QED BY <1>4, <2>1 DEF Launched, Launching, StartOkMeansReady
<1> QED BY <1>1, <1>2, <1>3, <1>5, <1>6, <1>7, <1>8, LaunchedProcess DEF Next, Step, ProcessStep

LEMMA StartInit == Init => Lives /\ Launched
<1> SUFFICES ASSUME Init PROVE Lives /\ Launched
  OBVIOUS
<1>1. Lives
  BY DEF Init, Lives, LifeStates
<1>2. Launched
  BY DEF Init, Launched, Launching, StartOkMeansReady
<1> QED BY <1>1, <1>2

\* With fail-on-error a start step succeeds only if the agent it launched has reported
\* ready, in any job of a workspace, unless an earlier agent was still loading when it
\* began.
THEOREM OkMeansReady == Spec => []StartOkMeansReady
<1>1. Launched => StartOkMeansReady
  BY DEF Launched
<1> QED BY <1>1, StartInit, LivesStep, LaunchedStep, PTL DEF Spec

-----------------------------------------------------------------------------
(* The report.  ReportIsWhole needs that the agent had ended when the log   *)
(* was read (Stopped), which needs to know what the pid file stands for     *)
(* (Pids): the process of this job, past the states it cannot return from.  *)

LogLines == [job : Nat, event : [type : {"meta", "exec", "tcp"}]]

Ended == life[job] \in {"exited", "gone"}

Pids ==
  /\ job \in 1..Jobs
  /\ log \in Seq(LogLines)
  /\ start = "pid" => life[job] # "none"
  /\ stop # "idle" => start \in {"ok", "failed"}
  /\ pidFile.job \in 0..job
  /\ start \in {"idle", "spawn", "pid"} => pidFile.job # job
  /\ pidFile.job = job =>
       /\ life[job] # "none"
       /\ \/ pidFile.of = "sudo"
          \/ pidFile.of = "agent" /\ life[job] # "sudo"

\* The stop step has met nothing that keeps it from telling whether its agent ended.
Knows ==
  pidFile.job = job /\ ~ gaveUp /\ ~ denied /\ (use.root \/ use.stopBy = "ts")

Stopped ==
  /\ stop # "done" => report = << >>
  /\ Knows =>
       /\ stop = "report" => Ended
       /\ stop = "done" /\ report # << >> => Ended
       /\ use.stopBy = "ts" /\ by = "go" /\ stop \in {"signal", "wait"} => Ended

LEMMA GoneIsEnded ==
  ASSUME Lives, Pids, pidFile.job = job, ~ Exists(pidFile)
  PROVE  Ended
<1>1. life[job] \in LifeStates
  BY DEF Lives, Pids
<1>2. CASE pidFile.of = "sudo"
  BY <1>1, <1>2 DEF Pids, Exists, Ended, LifeStates
<1>3. CASE pidFile.of = "agent" /\ life[job] # "sudo"
  BY <1>1, <1>3 DEF Pids, Exists, AgentUp, Ended, LifeStates
<1> QED BY <1>2, <1>3 DEF Pids

\* The elements of a concatenation.
LEMMA Concatenation ==
  ASSUME NEW S, NEW s \in Seq(S), NEW t \in Seq(S)
  PROVE  /\ s \o t \in Seq(S)
         /\ Len(s \o t) = Len(s) + Len(t)
         /\ \A i \in 1..(Len(s) + Len(t)) :
              (s \o t)[i] = IF i <= Len(s) THEN s[i] ELSE t[i - Len(s)]
<1>1. s \o t \in Seq(S) /\ Len(s \o t) = Len(s) + Len(t)
  OBVIOUS
<1>2. ASSUME NEW i \in 1..(Len(s) + Len(t))
      PROVE  (s \o t)[i] = IF i <= Len(s) THEN s[i] ELSE t[i - Len(s)]
  OBVIOUS
<1> QED BY Zenon, <1>1, <1>2

\* An agent's step adds at most lines of its own, and only while it is up.
LEMMA LogGrows ==
  ASSUME Lives, Pids, NEW j \in 1..Jobs, ProcessStep(j)
  PROVE  /\ log' \in Seq(LogLines)
         /\ \/ log' = log
            \/ /\ life[j] \in {"loading", "running"}
               /\ Len(log) <= Len(log')
               /\ \A i \in 1..Len(log') :
                    IF i <= Len(log) THEN log'[i] = log[i] ELSE log'[i].job = j
<1>1. log \in Seq(LogLines) /\ Len(log) \in Nat
  BY DEF Pids
<1>2. \A type \in {"meta", "exec", "tcp"} : Line(j, type) \in LogLines /\ Line(j, type).job = j
  BY JobsAssumption DEF Line, LogLines
<1>3. ASSUME NEW line \in LogLines, line.job = j, log' = Append(log, line)
      PROVE  /\ log' \in Seq(LogLines)
             /\ Len(log) <= Len(log')
             /\ \A i \in 1..Len(log') :
                  IF i <= Len(log) THEN log'[i] = log[i] ELSE log'[i].job = j
  <2>1. /\ log' \in Seq(LogLines) /\ Len(log') = Len(log) + 1
        /\ \A i \in 1..Len(log) : log'[i] = log[i]
        /\ log'[Len(log) + 1] = line
    BY <1>1, <1>3
  <2> QED BY <1>1, <1>3, <2>1
<1>4. CASE AgentReady(j) \/ AgentStops(j)
  <2>1. life[j] \in {"loading", "running"} /\ log' = Append(log, Line(j, "meta"))
    BY Zenon, <1>4 DEF AgentReady, AgentStops
  <2> QED BY <1>2, <1>3, <2>1
<1>5. CASE AgentLogs(j)
  <2> DEFINE x == Line(j, "exec")
             y == Line(j, "tcp")
  <2>1. life[j] = "running" /\ log' = log \o <<x, y>>
    BY <1>5 DEF AgentLogs
  <2>2. x \in LogLines /\ y \in LogLines /\ x.job = j /\ y.job = j
    BY Zenon, <1>2
  <2> HIDE DEF x, y
  <2>3. <<x, y>> \in Seq(LogLines) /\ Len(<<x, y>>) = 2 /\ <<x, y>>[1] = x /\ <<x, y>>[2] = y
    BY <2>2
  <2> DEFINE both == <<x, y>>
  <2>4. both \in Seq(LogLines) /\ Len(both) = 2 /\ both[1].job = j /\ both[2].job = j
        /\ log' = log \o both
    BY <2>1, <2>2, <2>3
  <2> HIDE DEF both
  <2>5. /\ log' \in Seq(LogLines) /\ Len(log') = Len(log) + 2
        /\ \A i \in 1..(Len(log) + 2) :
             log'[i] = IF i <= Len(log) THEN log[i] ELSE both[i - Len(log)]
    <3>1. /\ log \o both \in Seq(LogLines)
          /\ Len(log \o both) = Len(log) + Len(both)
          /\ \A i \in 1..(Len(log) + Len(both)) :
               (log \o both)[i] = IF i <= Len(log) THEN log[i] ELSE both[i - Len(log)]
      BY Zenon, <1>1, <2>4, Concatenation
    <3> QED BY Zenon, <2>4, <3>1
  <2>6. \A i \in 1..(Len(log) + 2) : i <= Len(log) \/ i - Len(log) = 1 \/ i - Len(log) = 2
    BY <1>1
  <2> QED BY <1>1, <2>1, <2>4, <2>5, <2>6
<1>6. CASE ~ (AgentReady(j) \/ AgentStops(j) \/ AgentLogs(j))
  <2>1. log' = log
    BY Zenon, <1>6 DEF ProcessStep, AgentWorks, AgentExecs, AgentFails, AgentDies, SudoEnds
  <2> QED BY <1>1, <2>1
<1> QED BY <1>4, <1>5, <1>6

LEMMA PidsStep == Lives /\ Pids /\ [Next]_vars => Pids'
<1> SUFFICES ASSUME Lives, Pids, [Next]_vars PROVE Pids'
  OBVIOUS
<1> USE DEF agentVars, startVars, stopVars
<1>1. ASSUME NEW j \in 1..Jobs, ProcessStep(j) PROVE Pids'
  <2>1. UNCHANGED <<job, start, stop, pidFile>> /\ log' \in Seq(LogLines)
    BY <1>1, ProcessMoves, LogGrows
  <2>2. PICK st \in LifeStates \ {"none", "sudo"} :
          life[j] # "none" /\ life' = [life EXCEPT ![j] = st]
    BY <1>1, ProcessMoves
  <2>3. /\ life[job] # "none" => life'[job] # "none"
        /\ life[job] # "sudo" => life'[job] # "sudo"
    BY <2>2 DEF Lives, Pids
  <2> QED BY <2>1, <2>3 DEF Pids
<1>2. CASE Spawn
  <2>1. /\ start = "spawn" /\ start' = "pid" /\ life' = [life EXCEPT ![job] = "sudo"]
        /\ UNCHANGED <<job, stop, pidFile, log>>
    BY Zenon, <1>2 DEF Spawn, Becomes
  <2>2. life'[job] = "sudo"
    BY <2>1 DEF Lives, Pids
  <2> QED BY <2>1, <2>2 DEF Pids
<1>3. CASE StartRefused \/ StartCleans \/ PollReady \/ PollFails
  <2>1. /\ start \in {"idle", "spawn", "poll"} /\ start' \in {"spawn", "ok", "failed"}
        /\ start' = "spawn" => start = "idle"
        /\ UNCHANGED <<job, life, stop, pidFile, log>>
    BY <1>3 DEF StartRefused, StartCleans, PollReady, PollFails
  <2> QED BY Zenon, <2>1 DEF Pids
<1>4. CASE WritePid
  <2>1. /\ start = "pid" /\ start' \in {"poll", "ok", "failed"}
        /\ pidFile' = pidFile \/ pidFile' = findAgentPID
        /\ UNCHANGED <<job, life, stop, log>>
    BY Zenon, <1>4 DEF WritePid
  <2>2. findAgentPID.job = job
        /\ findAgentPID.of = (IF AgentUp(job) THEN "agent" ELSE "sudo")
    BY Zenon DEF findAgentPID, Pid
  <2>3. CASE pidFile' = pidFile
    BY <2>1, <2>3 DEF Pids
  <2>4. CASE pidFile' = findAgentPID
    BY <2>1, <2>2, <2>4 DEF Pids, AgentUp
  <2> QED BY <2>1, <2>3, <2>4
<1>5. CASE StopChecks
  BY <1>5 DEF StopChecks, Pids
<1>6. CASE StopWithoutPid \/ StopSignals \/ StopWaits \/ StopReports \/ UNCHANGED vars
  <2>1. /\ UNCHANGED <<job, life, start, pidFile, log>>
        /\ stop' # "idle" => stop # "idle"
    BY <1>6 DEF StopWithoutPid, StopSignals, StopWaits, StopReports, vars
  <2> QED BY <2>1 DEF Pids
<1>7. CASE NextJob
  <2>1. /\ job < Jobs /\ job' = job + 1 /\ start' = "idle" /\ stop' = "idle"
        /\ UNCHANGED <<life, pidFile, log>>
    BY <1>7 DEF NextJob
  <2>2. job' \in 1..Jobs /\ pidFile.job \in 0..job' /\ pidFile.job # job'
    BY <2>1, JobsAssumption DEF Pids
  <2> QED BY <2>1, <2>2 DEF Pids
<1> QED BY <1>1, <1>2, <1>3, <1>4, <1>5, <1>6, <1>7 DEF Next, Step, ProcessStep

\* While a step that belongs to the start is possible, the stop step has not begun.
LEMMA StartsFirst ==
  ASSUME Pids, StartRefused \/ StartCleans \/ Spawn \/ WritePid \/ PollReady \/ PollFails
  PROVE  stop = "idle" /\ stop' = "idle" /\ report' = report
BY Zenon DEF Pids, StartRefused, StartCleans, Spawn, WritePid, PollReady, PollFails, stopVars

LEMMA StoppedStep == Lives /\ Pids /\ Stopped /\ [Next]_vars => Stopped'
<1> SUFFICES ASSUME Lives, Pids, Stopped, [Next]_vars PROVE Stopped'
  OBVIOUS
<1> USE DEF agentVars, startVars, stopVars
<1>1. ASSUME NEW j \in 1..Jobs, ProcessStep(j) PROVE Stopped'
  <2>1. UNCHANGED <<use, job, pidFile, stop, by, report, gaveUp, denied>>
    BY <1>1, ProcessMoves
  <2>2. PICK st \in LifeStates \ {"none", "sudo"} :
          /\ life' = [life EXCEPT ![j] = st]
          /\ life[j] \in {"exited", "gone"} => st \in {"exited", "gone"}
    BY <1>1, ProcessMoves
  <2>3. Ended => Ended'
    BY <2>1, <2>2 DEF Ended, Lives, Pids
  <2>4. Knows' = Knows
    BY <2>1 DEF Knows
  <2> QED BY <2>1, <2>3, <2>4 DEF Stopped
<1>2. CASE StartRefused \/ StartCleans \/ Spawn \/ WritePid \/ PollReady \/ PollFails
  BY <1>2, StartsFirst DEF Stopped
<1>3. CASE StopChecks
  <2>1. /\ report' = report /\ stop = "idle" /\ use' = use
        /\ by' = use.stopBy /\ stop' \in {"done", "signal"}
    BY <1>3 DEF StopChecks
  <2> QED BY <2>1 DEF Stopped
<1>4. CASE StopWithoutPid
  <2>1. pidFile' = NoPid /\ job' = job /\ report' = report /\ stop = "signal"
    BY <1>4 DEF StopWithoutPid
  <2>2. ~ Knows'
    BY <2>1 DEF Knows, NoPid, Pid, Pids
  <2> QED BY <2>1, <2>2 DEF Stopped
<1>5. CASE StopSignals
  <2>1. /\ stop = "signal" /\ UNCHANGED <<use, job, life, pidFile, report, gaveUp>>
        /\ denied => denied'
        /\ \/ by' = by /\ stop' = "wait"
           \/ (~ Exists(pidFile) \/ denied') /\ stop' \in {"signal", "done"}
    BY Zenon, <1>5 DEF StopSignals, SendTerm, HandOver
  <2>2. Knows' => Knows
    BY <2>1 DEF Knows
  <2>3. Ended' = Ended
    BY <2>1 DEF Ended
  <2>4. Knows' /\ ~ Exists(pidFile) => Ended'
    BY <2>2, <2>3, GoneIsEnded DEF Knows
  <2>5. Knows' => ~ denied'
    BY Zenon DEF Knows
  <2> QED BY <2>1, <2>2, <2>3, <2>4, <2>5 DEF Stopped
<1>6. CASE StopWaits
  <2> DEFINE alive == IF by = "go" THEN pidAlive(pidFile) ELSE isProcessAlive(pidFile)
  <2>1. /\ stop = "wait" /\ UNCHANGED <<use, job, life, pidFile, report, denied>>
        /\ gaveUp' = (gaveUp \/ alive)
        /\ \/ by = "go" /\ by' = by /\ stop' = "report"
           \/ by = "ts" /\ stop' \in {"signal", "done"}
    BY Zenon, <1>6 DEF StopWaits, HandOver
  <2>2. Knows' => Knows /\ ~ alive
    BY Zenon, <2>1 DEF Knows
  <2>3. Ended' = Ended
    BY <2>1 DEF Ended
  <2>4. ASSUME Knows' PROVE Ended
    <3>1. CASE Exists(pidFile)
      <4>1. ~ use.root /\ by = "go"
        BY <2>1, <2>2, <2>4, <3>1 DEF pidAlive, isProcessAlive
      <4>2. use.stopBy = "ts"
        BY <2>2, <2>4, <4>1 DEF Knows
      <4> QED BY <2>1, <2>2, <2>4, <4>1, <4>2 DEF Stopped
    <3>2. CASE ~ Exists(pidFile)
      BY <2>2, <2>4, <3>2, GoneIsEnded DEF Knows
    <3> QED BY <3>1, <3>2
  <2> QED BY <2>1, <2>3, <2>4 DEF Stopped
<1>7. CASE StopReports
  <2>1. stop = "report" /\ stop' = "done"
        /\ UNCHANGED <<use, job, life, pidFile, gaveUp, denied>>
    BY Zenon, <1>7 DEF StopReports
  <2>2. Knows' = Knows /\ Ended' = Ended
    BY <2>1 DEF Knows, Ended
  <2> QED BY <2>1, <2>2 DEF Stopped
<1>8. CASE NextJob
  BY Zenon, <1>8 DEF NextJob, Stopped
<1>9. CASE UNCHANGED vars
  <2>1. Knows' = Knows /\ Ended' = Ended
    BY Zenon, <1>9 DEF vars, Knows, Ended
  <2> QED BY <1>9, <2>1 DEF vars, Stopped
<1> QED BY <1>1, <1>2, <1>3, <1>4, <1>5, <1>6, <1>7, <1>8, <1>9 DEF Next, Step, ProcessStep

LEMMA StopInit == Init => Pids /\ Stopped /\ ReportIsWhole
<1> SUFFICES ASSUME Init PROVE Pids /\ Stopped /\ ReportIsWhole
  OBVIOUS
<1>1. NoPid.job = 0
  BY Zenon DEF NoPid, Pid
<1> QED BY <1>1, JobsAssumption DEF Init, Pids, Stopped, ReportIsWhole

LEMMA WholeStep ==
  Lives /\ Pids /\ Stopped /\ ReportIsWhole /\ [Next]_vars => ReportIsWhole'
<1> SUFFICES ASSUME Lives, Pids, Stopped, ReportIsWhole, [Next]_vars,
                    stop' = "done", report' # << >>, Knows'
             PROVE  \A i \in 1..Len(log') :
                      log'[i].job = job' => i <= Len(report') /\ report'[i] = log'[i]
  BY Zenon DEF ReportIsWhole, Knows
<1> USE DEF agentVars, startVars, stopVars
<1>1. ASSUME NEW j \in 1..Jobs, ProcessStep(j)
      PROVE  \A i \in 1..Len(log') :
               log'[i].job = job' => i <= Len(report') /\ report'[i] = log'[i]
  <2>1. UNCHANGED <<use, job, pidFile, stop, report, gaveUp, denied>>
    BY <1>1, ProcessMoves
  <2>2. Knows /\ stop = "done" /\ report # << >>
    BY <2>1 DEF Knows
  <2>3. \A i \in 1..Len(log) : log[i].job = job => i <= Len(report) /\ report[i] = log[i]
    BY <2>2 DEF ReportIsWhole, Knows
  <2>4. CASE log' = log
    BY <2>1, <2>3, <2>4
  <2>5. CASE log' # log
    <3>1. /\ life[j] \in {"loading", "running"} /\ Len(log) <= Len(log')
          /\ \A i \in 1..Len(log') :
               IF i <= Len(log) THEN log'[i] = log[i] ELSE log'[i].job = j
      BY <1>1, <2>5, LogGrows
    <3>2. j # job
      BY <2>2, <3>1 DEF Stopped, Ended
    <3>3. Len(log) \in Nat
      BY DEF Pids
    <3> SUFFICES ASSUME NEW i \in 1..Len(log'), log'[i].job = job
                 PROVE  i <= Len(report) /\ report[i] = log'[i]
      BY <2>1
    <3>4. i <= Len(log) /\ log'[i] = log[i]
      BY <3>1, <3>2
    <3>5. i \in 1..Len(log)
      BY <3>3, <3>4
    <3> QED BY <2>3, <3>4, <3>5
  <2> QED BY <2>4, <2>5
<1>2. CASE StartRefused \/ StartCleans \/ Spawn \/ WritePid \/ PollReady \/ PollFails
  BY <1>2, StartsFirst
<1>3. CASE StopChecks \/ StopWithoutPid \/ StopSignals \/ StopWaits
  <2>1. stop # "done" /\ report' = report
    BY <1>3 DEF StopChecks, StopWithoutPid, StopSignals, StopWaits
  <2> QED BY <2>1 DEF Stopped
<1>4. CASE StopReports
  <2>1. report' = log /\ log' = log
    BY <1>4 DEF StopReports
  <2>2. Len(log) \in Nat
    BY DEF Pids
  <2> QED BY <2>1, <2>2
<1>5. CASE NextJob
  BY Zenon, <1>5 DEF NextJob
<1>6. CASE UNCHANGED vars
  BY <1>6 DEF vars, ReportIsWhole, Knows
<1> QED BY <1>1, <1>2, <1>3, <1>4, <1>5, <1>6 DEF Next, Step, ProcessStep

\* A report holds every line its agent ever writes, if the stop step met no timeout and
\* no refused signal, knows the process and can tell it from none: whichever
\* implementation stops it, and whatever agents of other jobs append meanwhile.
THEOREM ReportWhole == Spec => []ReportIsWhole
BY StartInit, StopInit, LivesStep, PidsStep, StoppedStep, WholeStep, PTL DEF Spec
=============================================================================
