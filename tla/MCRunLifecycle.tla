--------------------------- MODULE MCRunLifecycle ---------------------------
(* Machines for the model checker: what each lets the agent attach.        *)
EXTENDS RunLifecycle

\* What every run needs to come up in defend mode without LSM.
Base ==
  {"allowlist", "statusFile", "defendObjs", "cgroupMaps", "denyRing", "connect4",
   "sendmsg4", "connect6", "sendmsg6", "enforcing", "linkInfo", "execObjs",
   "execLink", "execRing", "syscall"}

LSM == {"lsm", "lsmMaps", "lsmRing", "lsmConnect", "lsmSendmsg", "lsmFires"}

\* LSM defend with every optional defend hook.
DefendKernel ==
  Base \cup LSM \cup
  {"lsmSendpage", "lsmIoUring", "selfDefense", "selfDefenseRing", "backstopRing", "tcx"}

\* Optional probes; the syscall trace does not attach.
ProbeKernel(probes) == (Base \ {"syscall"}) \cup probes

\* The syscall trace with all its companions; the allowlist does not compile, so only
\* detect mode comes up.
SyscallKernel == (Base \ {"allowlist"}) \cup {"kprobes", "tcpState", "ioUring", "enhanced"}

Machine(kernel, maxFaults, lossyRings) ==
  [features |-> kernel, faults |-> maxFaults, lossy |-> lossyRings]

\* Every defend hook and no fault; one fault with LSM, and one with the backstop; two
\* with the probes, where the second may hit the release of what the first left, and
\* rings that overflow; the readers of the syscall trace.
AllMachines ==
  {Machine(DefendKernel, 0, {}),
   Machine(Base \cup LSM \cup {"selfDefense"}, 1, {}),
   Machine(Base \cup {"backstopRing", "tcx"}, 1, {}),
   Machine(ProbeKernel({"dns", "fork", "ipv6Obs", "audit"}), 2, {"defend", "exec"}),
   Machine(ProbeKernel({"fs", "ktls"}), 2, {"defend", "exec"}),
   Machine(SyscallKernel, 0, {})}
=============================================================================
