------------------------------ MODULE EventLog ------------------------------
(***************************************************************************)
(* What a consumer of .coldstep-events.jsonl may rely on, whichever        *)
(* goroutines write to it: the file only grows, a numbered line carries    *)
(* the number after the last one drawn, and a number is lost only with its *)
(* line.  So a number missing from the file stands for one lost line, and  *)
(* nothing else does.                                                      *)
(***************************************************************************)
EXTENDS Naturals, Sequences

VARIABLES
  log,    \* the lines of the file; seq is 0 in a line without number
  next    \* the last number drawn (SeqGen.next)

logVars == <<log, next>>

\* At most the startup meta line is there when the readers start.
Init ==
  /\ next = 0
  /\ Len(log) <= 1
  /\ \A i \in 1..Len(log) : log[i].seq = 0

\* One line with number n is added at the end.
Extend(n) ==
  /\ Len(log') = Len(log) + 1
  /\ \A i \in 1..Len(log) : log'[i] = log[i]
  /\ log'[Len(log) + 1].seq = n

\* An event is written under the next number.
Write ==
  /\ next' = next + 1
  /\ Extend(next + 1)

\* The line of an event is lost, and its number with it.
Lose ==
  /\ next' = next + 1
  /\ UNCHANGED log

\* A line without number: the two meta lines, a drift report.
Remark ==
  /\ Extend(0)
  /\ UNCHANGED next

Next == Write \/ Lose \/ Remark

Spec == Init /\ [][Next]_logVars
=============================================================================
