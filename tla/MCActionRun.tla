---------------------------- MODULE MCActionRun ----------------------------
(* Instances of ActionRun for TLC.                                         *)
EXTENDS ActionRun

\* Both programs with fail-on-error, as root or not, and without it as root, and a mixed
\* use; only the Go stop step knows strict.
MCUses ==
  {u \in Use : /\ u.strict = (u.stopBy = "go")
               /\ u.failOnError \/ u.root
               /\ u.startBy # u.stopBy => u.startBy = "go" /\ u.failOnError /\ ~ u.root}

\* The Go steps on a runner that is not root.
GoUses == {u \in Use : u.startBy = "go" /\ u.stopBy = "go" /\ ~ u.root /\ u.failOnError}
=============================================================================
