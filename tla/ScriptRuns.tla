----------------------------- MODULE ScriptRuns -----------------------------
(***************************************************************************)
(* What the script runner promises the rest of the app, without processes, *)
(* timers and awaits: per repository a log of numbered runs, each of which *)
(* has one outcome at most, and a picture of all logs that is only ever    *)
(* replaced as a whole.  ScriptRunner implements this.                     *)
(***************************************************************************)
EXTENDS Naturals, FiniteSets

CONSTANTS
  Repos,       \* repositories scripts are run for
  MaxHistory,  \* runs a log remembers at most
  Outcomes     \* what may become of a run

VARIABLES
  last,   \* number of the latest run
  runs,   \* the log of each repository: numbers to "running" or an outcome
  shown   \* the logs as the app saw them last

vars == <<last, runs, shown>>

Log(r) == DOMAIN runs[r]
Picture == UNION {{<<i, runs[r][i]>> : i \in Log(r)} : r \in Repos}

Init ==
  /\ last = 0
  /\ runs = [r \in Repos |-> [i \in {} |-> "running"]]
  /\ shown = {}

\* A run begins, or fails to, and takes the place of the oldest ones.
Begin(r, s) ==
  /\ s \in {"running"} \cup Outcomes
  /\ last' = last + 1
  /\ \E kept \in SUBSET Log(r) :
       /\ Cardinality(kept) < MaxHistory
       /\ \A i \in kept, j \in Log(r) \ kept : j < i
       /\ runs' = [runs EXCEPT ![r] =
                     [i \in kept \cup {last'} |->
                        IF i = last' THEN s ELSE runs[r][i]]]
  /\ UNCHANGED shown

\* A run ends.
End(r, i, s) ==
  /\ runs[r][i] = "running" /\ s \in Outcomes
  /\ runs' = [runs EXCEPT ![r] = [@ EXCEPT ![i] = s]]
  /\ UNCHANGED <<last, shown>>

\* Nothing but a running script is kept, and one is if there is any.
Forget(r) ==
  /\ \E kept \in SUBSET {i \in Log(r) : runs[r][i] = "running"} :
       /\ kept = {} => \A i \in Log(r) : runs[r][i] # "running"
       /\ runs' = [runs EXCEPT ![r] = [i \in kept |-> runs[r][i]]]
  /\ UNCHANGED <<last, shown>>

Show ==
  /\ shown' = Picture
  /\ UNCHANGED <<last, runs>>

Next ==
  \/ \E r \in Repos : \E s \in {"running"} \cup Outcomes : Begin(r, s)
  \/ \E r \in Repos : \E i \in Log(r), s \in Outcomes : End(r, i, s)
  \/ \E r \in Repos : Forget(r)
  \/ Show

Spec == Init /\ [][Next]_vars
=============================================================================
