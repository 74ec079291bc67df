---------------------------- MODULE RunLifecycle ----------------------------
(***************************************************************************)
(* One run of the agent (agent.Run): the load phases in order, each of     *)
(* which may fail; the reader and monitor goroutines; the readiness file;  *)
(* cancellation; and the LIFO cleanup stack that releases what was opened. *)
(*                                                                         *)
(* The main goroutine is sequential, so a load phase is one action.  It    *)
(* interleaves with the signal handler, the goroutine that closes the ring *)
(* readers, the readers and monitors, and the kernel that loses events.    *)
(*                                                                         *)
(* A resource is an object collection, a link or a ring reader; a cleanup  *)
(* item is a resource to close, a counter snapshot to take, or one of the  *)
(* functions Run pushes itself.  A closure that does several of these is   *)
(* pushed as its items, in the order that makes them run in its order.     *)
(***************************************************************************)
EXTENDS Naturals, Sequences, FiniteSets, Functions

CONSTANT
  Machines     \* where a run may take place: sets of features and two bounds

Features ==
  {"lsm", "lsmMaps", "lsmRing", "lsmConnect", "lsmSendmsg", "lsmSendpage",
   "selfDefense", "selfDefenseRing", "lsmIoUring", "linkInfo", "defendObjs",
   "cgroupMaps", "denyRing", "connect4", "sendmsg4", "backstopRing", "tcx",
   "connect6", "sendmsg6", "enforcing", "lsmFires", "execObjs", "execLink",
   "execRing", "syscall", "kprobes", "tcpState", "ioUring", "enhanced", "dns",
   "fork", "fs", "ktls", "ipv6Obs", "audit", "allowlist", "statusFile"}

Collections ==
  {"defend", "exec", "syscall", "dns", "fork", "fs", "ktls", "ipv6Obs", "audit"}

ASSUME LifecycleAssumption ==
  Machines \subseteq [features : SUBSET Features, faults : Nat, lossy : SUBSET Collections]

Item(kind, of, id) == [kind |-> kind, of |-> of, id |-> id]
Objs(of) == Item("objs", of, "objs")
Link(of, id) == Item("link", of, id)
Ring(id) == Item("ring", "ring", id)
Snap(of) == Item("snap", of, "snap")
Func(id) == Item("func", "run", id)

Rings ==
  {"exec", "conn", "udp", "http", "tls", "tcpState", "ioUring", "ioUringTLS",
   "deny", "lsmDeny", "backstop", "selfDefense", "dns", "audit", "fork", "fs",
   "ktls", "ipv6Obs"}

VARIABLES
  machine,     \* the machine this run is on
  mode,        \* "detect" or "defend"
  step,        \* the phase the main goroutine is about to run
  open,        \* resources that are open
  cleanup,     \* runCleanup.fns, as items
  rd,          \* ring readers assigned in runState
  once,        \* ring readers whose Close has run
  sections,    \* the sections of the defend collection that are loaded
  hasLSM,      \* runState.hasLSM
  linkIDs,     \* runState.defendLinkIDs
  protected,   \* links self-defense is armed for; empty while not armed
  lsmLabel,    \* defendState.mode says defend+lsm
  guard,       \* defend: "none", "loaded", "attached" (v4 and v6), "confirmed"
  live,        \* reader and monitor goroutines that have not ended
  errCh,       \* errors buffered in errCh
  errCap,      \* its capacity
  signalled,   \* SIGINT or SIGTERM arrived
  runCancelled,\* runCancel was called
  status,      \* the agent status file
  result,      \* what Run returns
  lost,        \* collections with a lost event no snapshot has counted
  coverage,    \* the IPv6 coverage of the shutdown record
  faults       \* failed attempts so far

given == <<machine, mode>>
loadVars == <<sections, hasLSM, linkIDs, protected, lsmLabel, guard>>
resVars == <<open, cleanup, rd, once>>
goVars == <<live, errCh, errCap>>
ctxVars == <<signalled, runCancelled>>
lossVars == <<lost, coverage>>
vars == <<given, step, loadVars, resVars, goVars, ctxVars, status, result,
          lossVars, faults>>

\* What the kernel and the feature gates let the agent attach, how many attempts
\* fail although the kernel allows them, and which collections lose events.
Kernel == machine.features
MaxFaults == machine.faults
Lossy == machine.lossy

Init ==
  /\ machine \in Machines
  /\ mode \in {"detect", "defend"}
  /\ step = "compile"
  /\ open = {}
  /\ cleanup = <<Func("writeShutdownTelemetry")>>
  /\ rd = {}
  /\ once = {}
  /\ sections = {}
  /\ hasLSM = FALSE
  /\ linkIDs = {}
  /\ protected = {}
  /\ lsmLabel = FALSE
  /\ guard = "none"
  /\ live = {}
  /\ errCh = 0
  /\ errCap = 0
  /\ signalled = FALSE
  /\ runCancelled = FALSE
  /\ status = "absent"
  /\ result = "nil"
  /\ lost = {}
  /\ coverage = "unwritten"
  /\ faults = 0

-----------------------------------------------------------------------------
(* Attempts and the cleanup stack.                                         *)

\* These four are those of SequencesExt, without the rest of that module, which every
\* proof obligation would carry along.
Front(s) == SubSeq(s, 1, Len(s) - 1)
Last(s) == s[Len(s)]
Reverse(s) == [i \in 1..Len(s) |-> s[Len(s) - i + 1]]
Prefixes(s) == {SubSeq(s, 1, n) : n \in 0..Len(s)}

\* Of the things tried, exactly those in ok succeed: the kernel allows them, and
\* the faults of this run stay within their bound.
Attempt(tried, ok) ==
  LET failed == (tried \cap Kernel) \ ok
  IN  /\ ok \subseteq tried \cap Kernel
      /\ faults + Cardinality(failed) <= MaxFaults
      /\ faults' = faults + Cardinality(failed)

\* Variation: a closure that runs its items backwards.
ClosureBackwards(items) == items

\* A closure that runs items in this order at unwind.
Closure(items) == Reverse(items)

\* The open defend links of a set, as trackDefendLink pushes them.
Pushes(links) == [i \in 1..Len(links) |-> Link("defend", links[i])]

When(cond, set) == IF cond THEN set ELSE {}

Optional(cond, link) == IF cond THEN <<link>> ELSE << >>

\* Variation: the backstop link is closed at unwind but its id is not recorded.
IDsWithoutBackstop(links) ==
  When("linkInfo" \in Kernel, Range(Pushes(links)) \ {Link("defend", "tcx")})

\* The ids trackDefendLink can record.
IDs(links) == When("linkInfo" \in Kernel, Range(Pushes(links)))

\* Run returns an error from a load phase: unwind.
Fatal == step' = "unwind" /\ result' = "error"

Proceed(next) == step' = next /\ UNCHANGED result

\* Variation: three readers are missing from the functions that close them.
CloseRingsForgetful(ids) ==
  /\ once' = once \cup ids
  /\ open' = open \ {Ring(i) : i \in ((ids \cap rd) \ once)
                                  \ {"selfDefense", "ioUringTLS", "ipv6Obs"}}

\* ringReader.Close, once per reader; a reader that was never set stays unset.
CloseRings(ids) ==
  /\ once' = once \cup ids
  /\ open' = open \ {Ring(i) : i \in (ids \cap rd) \ once}

-----------------------------------------------------------------------------
(* Load phases.                                                            *)

\* compileDefendAllowlist, finalizeAllowlist; detect mode compiles nothing.
CompileAllowlist ==
  /\ step = "compile"
  /\ \E ok \in SUBSET {"allowlist"} :
       \/ mode = "detect" /\ ok = {} /\ UNCHANGED faults
          /\ Proceed("defend") /\ cleanup' = Append(cleanup, Func("closeAllReaders"))
       \/ /\ mode = "defend"
          /\ Attempt({"allowlist"}, ok)
          /\ \/ ok # {} /\ Proceed("defend")
                /\ cleanup' = Append(cleanup, Func("closeAllReaders"))
             \/ ok = {} /\ Fatal /\ UNCHANGED cleanup
  /\ UNCHANGED <<given, loadVars, open, rd, once, goVars, ctxVars, status, lossVars>>

Sections == {"defendObjs", "lsm", "lsmSendpage", "lsmIoUring"}

\* LSM programs and LSM-only maps are deleted.
stripAllLSM(spec) == spec \ {"lsm", "lsmSendpage", "lsmIoUring"}

\* The specification LoadDefendObjectsForKernel tries first: without the optional LSM
\* hooks that the kernel's BTF does not declare, and without LSM if there is none.
FirstSpec ==
  IF "lsm" \notin Kernel THEN stripAllLSM(Sections)
  ELSE Sections \ ({"lsmSendpage", "lsmIoUring"} \ Kernel)

\* The load ladder, for the sections that load and the section an error names:
\* a failure over sendpage is retried once with everything else, whatever the BTF
\* says of io_uring_cmd; any other failure of an LSM load is retried without LSM.
\* The sections of the collection, none if the load failed.
LoadDefendObjectsForKernel(ok, blamed) ==
  LET retry == IF blamed = "lsmSendpage" THEN Sections \ {"lsmSendpage"} ELSE stripAllLSM(Sections)
  IN  IF FirstSpec \subseteq ok THEN FirstSpec
      ELSE IF "lsm" \in Kernel /\ retry \subseteq ok THEN retry
      ELSE {}

\* loadDefend: load the collection.
LoadDefendObjects ==
  /\ step = "defend"
  /\ mode = "defend"
  /\ \E ok \in SUBSET Sections, blamed \in Sections :
       LET loaded == LoadDefendObjectsForKernel(ok, blamed)
       IN
       /\ Attempt(Sections, ok)
       /\ FirstSpec \subseteq ok \/ blamed \in FirstSpec \ ok
       /\ \/ /\ loaded = {}
             /\ Fatal
             /\ UNCHANGED <<open, cleanup, sections, guard>>
          \/ /\ loaded # {}
             /\ sections' = loaded
             /\ guard' = "loaded"
             /\ open' = open \cup {Objs("defend")}
             /\ cleanup' = cleanup \o Closure(<<Snap("defend"), Objs("defend")>>)
             /\ Proceed("lsm")
  /\ UNCHANGED <<given, rd, once, hasLSM, linkIDs, protected, lsmLabel, goVars,
                 ctxVars, status, lossVars>>

SkipDefend ==
  /\ step = "defend"
  /\ mode = "detect"
  /\ Proceed("exec")
  /\ UNCHANGED <<given, loadVars, resVars, goVars, ctxVars, status, lossVars, faults>>

haveLSM == "lsm" \in sections

LSMParts == {"lsmMaps", "lsmRing", "lsmConnect", "lsmSendmsg", "lsmSendpage",
             "selfDefense", "selfDefenseRing", "lsmIoUring"}

\* loadDefendLSM: maps and ring are fatal; a failed attach of connect or sendmsg
\* closes what was opened and leaves cgroup only; the rest is best effort, and
\* tried only if its program was loaded.
LoadDefendLSM ==
  /\ step = "lsm"
  /\ haveLSM
  /\ \E ok \in SUBSET (LSMParts \cap Kernel) :
       LET tried == LSMParts \ (Sections \ sections)
           both == {"lsmConnect", "lsmSendmsg"} \subseteq ok
           links == <<"lsmConnect", "lsmSendmsg">>
                      \o Optional("lsmSendpage" \in ok, "lsmSendpage")
                      \o Optional("selfDefense" \in ok, "selfDefense")
                      \o Optional("lsmIoUring" \in ok, "lsmIoUring")
           rings == {"lsmDeny"} \cup
                      When({"selfDefense", "selfDefenseRing"} \subseteq ok, {"selfDefense"})
       IN
       /\ Attempt(tried, ok)
       /\ \/ /\ ~ {"lsmMaps", "lsmRing"} \subseteq ok
             /\ Fatal
             /\ UNCHANGED <<open, cleanup, rd, hasLSM, linkIDs>>
          \/ /\ {"lsmMaps", "lsmRing"} \subseteq ok
             /\ ~ both
             /\ Proceed("cgroup")
             /\ UNCHANGED <<open, cleanup, rd, hasLSM, linkIDs>>
          \/ /\ {"lsmMaps", "lsmRing"} \subseteq ok
             /\ both
             /\ hasLSM' = TRUE
             /\ rd' = rd \cup rings
             /\ open' = open \cup Range(Pushes(links)) \cup {Ring(r) : r \in rings}
             /\ cleanup' = cleanup \o Pushes(links)
             /\ linkIDs' = linkIDs \cup IDs(links)
             /\ Proceed("cgroup")
  /\ UNCHANGED <<given, once, sections, protected, lsmLabel, guard, goVars,
                 ctxVars, status, lossVars>>

SkipLSM ==
  /\ step = "lsm"
  /\ ~ haveLSM
  /\ Proceed("cgroup")
  /\ UNCHANGED <<given, loadVars, resVars, goVars, ctxVars, status, lossVars, faults>>

\* These are the links wanted that attach before the first one that fails.
Attached(links, wanted, ok) ==
  Range(links) \subseteq ok /\ (links # wanted => wanted[Len(links) + 1] \notin ok)

\* The links of a defend cgroup in the order in which they are attached.
CgroupLinks(backstop) ==
  <<"connect4", "sendmsg4">> \o Optional(backstop, "tcx") \o <<"connect6", "sendmsg6">>

CgroupParts == {"cgroupMaps", "denyRing", "connect4", "sendmsg4", "backstopRing",
                "tcx", "connect6", "sendmsg6"}

\* loadDefendCgroup up to the probe: maps, deny ring and the four cgroup hooks
\* are fatal, the egress backstop between them is best effort.
LoadDefendCgroup ==
  /\ step = "cgroup"
  /\ \E ok \in SUBSET (CgroupParts \cap Kernel) :
       LET backstop == {"backstopRing", "tcx"} \subseteq ok
           wanted == CgroupLinks(backstop)
       IN
       /\ Attempt(CgroupParts, ok)
       /\ lsmLabel' = (hasLSM /\ "cgroupMaps" \in ok)
       /\ \/ /\ ~ {"cgroupMaps", "denyRing"} \subseteq ok
             /\ Fatal
             /\ UNCHANGED <<open, cleanup, rd, linkIDs, guard>>
          \/ /\ {"cgroupMaps", "denyRing"} \subseteq ok
             /\ \E links \in Prefixes(wanted) :
                  LET rings == {"deny"} \cup When("tcx" \in Range(links), {"backstop"})
                  IN
                  /\ Attached(links, wanted, ok)
                  /\ rd' = rd \cup rings
                  /\ open' = open \cup Range(Pushes(links)) \cup {Ring(r) : r \in rings}
                  /\ cleanup' = cleanup \o Pushes(links)
                  /\ linkIDs' = linkIDs \cup IDs(links)
                  /\ \/ links = wanted /\ guard' = "attached" /\ Proceed("probe")
                     \/ links # wanted /\ UNCHANGED guard /\ Fatal
  /\ UNCHANGED <<given, once, sections, hasLSM, protected, goVars, ctxVars, status,
                 lossVars>>

\* The enforcement probe and the LSM-silent probe of loadDefendCgroup, then
\* finalizeBpfSelfDefense.
ProbeAndArm ==
  /\ step = "probe"
  /\ \E ok \in SUBSET {"enforcing", "lsmFires"} :
       /\ Attempt({"enforcing", "lsmFires"}, ok)
       /\ \/ /\ "enforcing" \notin ok
             /\ status' = "failed"
             /\ Fatal
             /\ UNCHANGED <<guard, lsmLabel, protected>>
          \/ /\ "enforcing" \in ok
             /\ guard' = "confirmed"
             /\ lsmLabel' = (lsmLabel /\ "lsmFires" \in ok)
             /\ protected' = When(Link("defend", "selfDefense") \in open, linkIDs)
             /\ Proceed("exec")
             /\ UNCHANGED status
  /\ UNCHANGED <<given, resVars, sections, hasLSM, linkIDs, goVars, ctxVars, lossVars>>

\* Variation: the counters are read before the link is closed.
ExecCleanupSnapFirst(link) == <<Objs("exec")>> \o link \o <<Snap("exec")>>

\* What loadExec pushes, with the link once it is attached.
ExecCleanup(link) == <<Objs("exec"), Snap("exec")>> \o link

ExecParts == <<"execObjs", "execLink", "execRing">>

\* loadExec: each part is fatal; the snapshot is pushed before the link.
LoadExec ==
  /\ step = "exec"
  /\ \E ok \in SUBSET Range(ExecParts), parts \in Prefixes(ExecParts) :
       LET got == Range(parts)
           link == Optional("execLink" \in got, Link("exec", "execLink"))
       IN
       /\ Attempt(Range(ExecParts), ok)
       /\ Attached(parts, ExecParts, ok)
       /\ open' = open \cup When("execObjs" \in got, {Objs("exec")})
                       \cup Range(link)
                       \cup When("execRing" \in got, {Ring("exec")})
       /\ rd' = rd \cup When("execRing" \in got, {"exec"})
       /\ cleanup' = IF got = {} THEN cleanup
                     ELSE cleanup \o ExecCleanup(link)
       /\ IF parts = ExecParts THEN Proceed("syscall") ELSE Fatal
  /\ UNCHANGED <<given, once, loadVars, goVars, ctxVars, status, lossVars>>

SyscallParts == {"syscall", "kprobes", "tcpState", "ioUring", "enhanced"}

\* armSyscall: the trace is fatal in defend mode only; its companions are best
\* effort.  The kprobe links are pushed before the collection they belong to.
ArmSyscall ==
  /\ step = "syscall"
  /\ \E ok \in SUBSET (SyscallParts \cap Kernel) :
       LET L(id) == Link("syscall", id)
           kprobes == Optional("kprobes" \in ok, L("kprobe"))
                        \o Optional("kprobes" \in ok, L("kretprobe"))
           later == Optional("tcpState" \in ok, L("tcpState"))
                      \o Optional("ioUring" \in ok, L("ioUring"))
           rings == {"conn", "udp", "http", "tls"} \cup (ok \cap {"tcpState", "ioUring"})
                      \cup When({"ioUring", "enhanced"} \subseteq ok, {"ioUringTLS"})
       IN
       /\ Attempt(SyscallParts, ok)
       /\ \/ /\ "syscall" \notin ok
             /\ UNCHANGED <<open, cleanup, rd>>
             /\ \/ mode = "defend" /\ status' = "failed" /\ Fatal
                \/ mode = "detect" /\ UNCHANGED status /\ Proceed("ready")
          \/ /\ "syscall" \in ok
             /\ rd' = rd \cup rings
             /\ open' = open \cup {Objs("syscall"), L("sysEnter")} \cup Range(kprobes)
                             \cup Range(later) \cup {Ring(r) : r \in rings}
             /\ cleanup' = cleanup \o kprobes
                             \o <<Objs("syscall"), L("sysEnter"), Snap("syscall")>> \o later
             /\ UNCHANGED status
             /\ Proceed("ready")
  /\ UNCHANGED <<given, once, loadVars, goVars, ctxVars, lossVars>>

\* Variation: both modes write the ready status before the readers start.
ReadyBothModes ==
  /\ step = "ready"
  /\ \E ok \in SUBSET {"statusFile"} :
       /\ Attempt({"statusFile"}, ok)
       /\ \/ ok # {} /\ status' = "ok" /\ Proceed("dns")
          \/ ok = {} /\ UNCHANGED status /\ Fatal
  /\ UNCHANGED <<given, loadVars, resVars, goVars, ctxVars, lossVars>>

\* Detect mode writes the ready status here; defend mode defers it.
ReadyDetect ==
  /\ step = "ready"
  /\ \/ mode = "defend" /\ Proceed("dns") /\ UNCHANGED <<status, faults>>
     \/ /\ mode = "detect"
        /\ \E ok \in SUBSET {"statusFile"} :
             /\ Attempt({"statusFile"}, ok)
             /\ \/ ok # {} /\ status' = "ok" /\ Proceed("dns")
                \/ ok = {} /\ UNCHANGED status /\ Fatal
  /\ UNCHANGED <<given, loadVars, resVars, goVars, ctxVars, lossVars>>

\* A best-effort collection with its links and ring, or none of it.
LoadProbe(x, links, items, next) ==
  /\ step = x
  /\ \E ok \in SUBSET {x} :
       /\ Attempt({x}, ok)
       /\ open' = open \cup When(ok # {}, {Objs(x), Ring(x)} \cup {Link(x, l) : l \in links})
       /\ rd' = rd \cup ok
       /\ cleanup' = IF ok = {} THEN cleanup ELSE cleanup \o items
       /\ Proceed(next)
  /\ UNCHANGED <<given, once, loadVars, goVars, ctxVars, status, lossVars>>

LoadDNS ==
  LoadProbe("dns", {"enter", "exit"},
            <<Objs("dns"), Link("dns", "exit"), Link("dns", "enter"), Snap("dns")>>,
            "fork")

LoadFork ==
  LoadProbe("fork", {"tp"},
            Closure(<<Snap("fork"), Ring("fork"), Link("fork", "tp"), Objs("fork")>>),
            "fs")

LoadFS ==
  LoadProbe("fs", {"tp"},
            Closure(<<Snap("fs"), Ring("fs"), Link("fs", "tp"), Objs("fs")>>), "ktls")

LoadKTLS ==
  LoadProbe("ktls", {"tp"}, <<Objs("ktls"), Link("ktls", "tp"), Snap("ktls")>>, "ipv6Obs")

\* Skipped in defend mode.
LoadIPv6Obs ==
  \/ /\ mode = "detect"
     /\ LoadProbe("ipv6Obs", {"connect6", "sendmsg6"},
                  Closure(<<Snap("ipv6Obs"), Ring("ipv6Obs"), Link("ipv6Obs", "sendmsg6"),
                            Link("ipv6Obs", "connect6"), Objs("ipv6Obs")>>), "audit")
  \/ /\ mode = "defend"
     /\ step = "ipv6Obs"
     /\ Proceed("audit")
     /\ UNCHANGED <<given, loadVars, resVars, goVars, ctxVars, status, lossVars, faults>>

LoadBPFAudit ==
  LoadProbe("audit", {"tp"}, <<Objs("audit"), Link("audit", "tp"), Snap("audit")>>, "spawn")

-----------------------------------------------------------------------------
(* Goroutines, readiness and return.                                       *)

\* runState.hasDefend: the defend collection was loaded.
hasDefend == guard # "none"

Flag(b) == IF b THEN 1 ELSE 0

\* Variation: the LSM integrity watcher is not counted.
countReadersShort == 1 + Cardinality(rd \ {"exec"}) + Flag(hasDefend)

countReaders == 1 + Cardinality(rd \ {"exec"}) + Flag(hasDefend) + Flag(hasLSM)

Watchers == When(hasDefend, {"watchCgroup"}) \cup When(hasLSM, {"watchLSM"})

\* Monitors end when runCtx is done and send nothing.
Monitors == When("conn" \in rd, {"canary", "heartbeat"})
              \cup When(mode = "defend", {"drift"})

Senders == Rings \cup {"watchCgroup", "watchLSM"}

\* Push runCancel, make errCh, spawnReaders.
SpawnReaders ==
  /\ step = "spawn"
  /\ cleanup' = Append(cleanup, Func("runCancel"))
  /\ errCap' = countReaders
  /\ live' = rd \cup Watchers \cup Monitors
  /\ Proceed("readyDefend")
  /\ UNCHANGED <<given, loadVars, open, rd, once, errCh, ctxVars, status, lossVars, faults>>

\* Variation: a failing write of the status file leaves the new content behind.
ReadyDefendTorn ==
  /\ step = "readyDefend"
  /\ step' = "wait"
  /\ \/ mode = "detect" /\ UNCHANGED <<status, result, runCancelled, faults>>
     \/ /\ mode = "defend"
        /\ status' = "ok"
        /\ \E ok \in SUBSET {"statusFile"} :
             /\ Attempt({"statusFile"}, ok)
             /\ \/ ok # {} /\ UNCHANGED <<result, runCancelled>>
                \/ ok = {} /\ result' = "error" /\ runCancelled' = TRUE
  /\ UNCHANGED <<given, loadVars, resVars, goVars, signalled, lossVars>>

\* Defend mode writes the ready status here; a failure cancels the run.
ReadyDefend ==
  /\ step = "readyDefend"
  /\ step' = "wait"
  /\ \/ mode = "detect" /\ UNCHANGED <<status, result, runCancelled, faults>>
     \/ /\ mode = "defend"
        /\ \E ok \in SUBSET {"statusFile"} :
             /\ Attempt({"statusFile"}, ok)
             /\ \/ ok # {} /\ status' = "ok" /\ UNCHANGED <<result, runCancelled>>
                \/ ok = {} /\ result' = "error" /\ runCancelled' = TRUE /\ UNCHANGED status
  /\ UNCHANGED <<given, loadVars, resVars, goVars, signalled, lossVars>>

\* Variation: runCtx is not derived from the context that a signal cancels.
runCtxDetached == runCancelled

runCtxDone == signalled \/ runCancelled

\* The goroutine that closes every ring reader once runCtx is done.
closeAllReaders ==
  /\ step \in {"readyDefend", "wait"}
  /\ runCtxDone
  /\ once # Rings
  /\ CloseRings(Rings)
  /\ UNCHANGED <<given, step, loadVars, cleanup, rd, goVars, ctxVars, status, result,
                 lossVars, faults>>

\* A goroutine ends: sendReaderErr needs room in errCh, wg.Done follows.
End(g) ==
  /\ g \in Senders => errCh < errCap
  /\ errCh' = errCh + Flag(g \in Senders)
  /\ live' = live \ {g}
  /\ UNCHANGED <<given, step, loadVars, resVars, errCap, ctxVars, status, result,
                 lossVars, faults>>

\* runRingReader returns on a closed ring; watchers and monitors on runCtx.Done.
GoroutineEnds(g) == End(g) /\ (IF g \in Rings THEN g \in once ELSE runCtxDone)

\* runRingReader also returns on any read error once runCtx is done.
ReaderEndsEarly(g) == End(g) /\ g \in Rings \ once /\ runCtxDone

WaitReaders ==
  /\ step = "wait"
  /\ live = {}
  /\ step' = "unwind"
  /\ UNCHANGED <<given, loadVars, resVars, goVars, ctxVars, status, result, lossVars, faults>>

-----------------------------------------------------------------------------
(* Unwinding, signals and lost events.                                     *)

\* runCleanup.unwind: the next function of the stack.
Unwind ==
  /\ step = "unwind"
  /\ cleanup # <<>>
  /\ cleanup' = Front(cleanup)
  /\ LET item == Last(cleanup)
         is(kind) == item.kind = kind
     IN
     /\ \/ is("ring") /\ CloseRings({item.id})
        \/ item = Func("closeAllReaders") /\ CloseRings(Rings)
        \/ is("objs") /\ open' = open \ {item} /\ UNCHANGED once
        \/ is("link") /\ open' = open \ {item} /\ UNCHANGED once
        \/ is("snap") /\ UNCHANGED <<open, once>>
        \/ is("func") /\ item # Func("closeAllReaders") /\ UNCHANGED <<open, once>>
     /\ lost' = IF is("snap") THEN lost \ {item.of} ELSE lost
     /\ runCancelled' = (runCancelled \/ item = Func("runCancel"))
     /\ coverage' = IF item # Func("writeShutdownTelemetry") THEN coverage
                    ELSE IF mode = "defend" /\ hasDefend THEN "enforce" ELSE "off"
  /\ step' = IF Len(cleanup) = 1 THEN "done" ELSE "unwind"
  /\ UNCHANGED <<given, loadVars, rd, goVars, signalled, status, result, faults>>

Terminated == step = "done" /\ UNCHANGED vars

\* SIGINT or SIGTERM cancels the context given to Run.
Signal ==
  /\ step # "done"
  /\ ~ signalled
  /\ signalled' = TRUE
  /\ UNCHANGED <<given, step, loadVars, resVars, goVars, runCancelled, status, result,
                 lossVars, faults>>

\* An attached program of collection x finds its ring full and counts a loss.
LoseEvent(x) ==
  /\ \E l \in open : l.kind = "link" /\ l.of = x
  /\ lost' = lost \cup {x}
  /\ UNCHANGED <<given, step, loadVars, resVars, goVars, ctxVars, status, result,
                 coverage, faults>>

Main ==
  \/ CompileAllowlist \/ SkipDefend \/ LoadDefendObjects \/ SkipLSM \/ LoadDefendLSM
  \/ LoadDefendCgroup \/ ProbeAndArm \/ LoadExec \/ ArmSyscall \/ ReadyDetect
  \/ LoadDNS \/ LoadFork \/ LoadFS \/ LoadKTLS \/ LoadIPv6Obs \/ LoadBPFAudit
  \/ SpawnReaders \/ ReadyDefend \/ WaitReaders \/ Unwind

Goroutines == Senders \cup {"canary", "heartbeat", "drift"}

Next ==
  \/ Main
  \/ closeAllReaders
  \/ \E g \in live : GoroutineEnds(g) \/ ReaderEndsEarly(g)
  \/ Signal
  \/ \E x \in Lossy : LoseEvent(x)
  \/ Terminated

Spec == Init /\ [][Next]_vars

\* The Go scheduler runs a goroutine that can run; signals, kernel losses and early
\* read errors are never owed.
Owed == (\E g \in live : GoroutineEnds(g)) \/ closeAllReaders \/ Main

FairSpec == Spec /\ WF_vars(Owed)

-----------------------------------------------------------------------------
(* Properties.                                                             *)

\* Whatever load phase fails, and however the run is cancelled, when Run returns
\* every collection, link and ring reader it opened is closed: each was on the
\* cleanup stack or closed by closeAllReaders.
NothingLeaks == step = "done" => open = {}

\* While the status file says ok and the run is not unwinding, the exec probe is
\* attached, and in defend mode enforcement was confirmed by the probe, the four
\* cgroup hooks and the syscall trace are attached, and the deny reader has been
\* started.
ReadyMeansGuarded ==
  (status = "ok" /\ step \notin {"unwind", "done"}) =>
    /\ Link("exec", "execLink") \in open
    /\ mode = "defend" =>
         /\ guard = "confirmed"
         /\ {Link("defend", l) : l \in {"connect4", "sendmsg4", "connect6", "sendmsg6"}}
               \subseteq open
         /\ Link("syscall", "sysEnter") \in open
         /\ runCtxDone \/ "deny" \in live

\* A run that fails never leaves a status file that says ok.
FailedRunNotReady == result = "error" => status # "ok"

\* The shutdown record is right: the counters of the defend and exec collections are
\* read after their links are closed, so no loss of theirs is missing from it, and
\* of a run that was ready it says that IPv6 is enforced exactly in defend mode.
RecordHonest ==
  step = "done" =>
    /\ lost \cap {"defend", "exec"} = {}
    /\ status = "ok" => (coverage = "enforce" <=> mode = "defend")

\* Once self-defense is armed it protects every defend link that is open, the
\* cgroup and backstop links attached after its own hook included.
SelfDefenseCoversLinks ==
  (protected # {}) =>
    {l \in open : l.kind = "link" /\ l.of = "defend"} \subseteq protected

\* errCh has room for every goroutine that still has to send to it, so no reader
\* blocks in sendReaderErr while wg.Wait waits for it.
ErrChHasRoom ==
  step \in {"readyDefend", "wait"} => errCh + Cardinality(live \cap Senders) <= errCap

\* No shutdown snapshot reads the counters of a closed collection.
SnapshotsReadOpenMaps ==
  (step = "unwind" /\ cleanup # <<>> /\ Last(cleanup).kind = "snap") =>
    Objs(Last(cleanup).of) \in open

\* A signalled run returns: closing the rings ends the readers, wg.Wait returns
\* and the cleanup stack empties.
SignalStopsRun == signalled ~> step = "done"
=============================================================================
