------------------------- MODULE ScriptRunner_proof -------------------------
(***************************************************************************)
(* What holds of the script runner for any number of repositories, runs    *)
(* and overlapping starts.                                                 *)
(***************************************************************************)
EXTENDS ScriptRunner, FiniteSetTheorems, WellFoundedInduction, TLAPS

\* Abbreviations of the actions.
USE DEF ScheduleUpdate, ForgetChild, Signalled, TimerHits, StillRunning, KeptByClear

-----------------------------------------------------------------------------
\* The type invariant.

LEMMA InitTypeOK == Init => TypeOK
<1> SUFFICES ASSUME Init PROVE TypeOK
  OBVIOUS
<1>1. nextRunId \in 1..(MaxRuns + 1) /\ starting \in [Repos -> 0..MaxStarting]
  BY ScriptRunnerAssumption DEF Init
<1>2. /\ status \in [Ids -> Statuses] /\ proc \in [Ids -> ProcStates]
      /\ processes \in [Repos -> Ids \cup {NoProcess}]
  BY DEF Init, Statuses, ProcStates
<1> QED
  BY <1>1, <1>2 DEF Init, TypeOK

LEMMA StartCallTypeOK ==
  ASSUME NEW r \in Repos, TypeOK, StartCall(r)
  PROVE  TypeOK'
BY ScriptRunnerAssumption DEF StartCall, TypeOK

LEMMA SpawnTypeOK ==
  ASSUME NEW r \in Repos, NEW outcome, TypeOK, Spawn(r, outcome)
  PROVE  TypeOK'
<1>1. nextRunId \in Ids /\ nextRunId + 1 \in 1..(MaxRuns + 1)
  BY ScriptRunnerAssumption DEF TypeOK, Spawn, Ids
<1>2. Newest(history[r], MaxHistory - 1) \in SUBSET Ids
  BY DEF TypeOK, Newest
<1>3. history' \in [Repos -> SUBSET Ids] /\ children' \in [Repos -> SUBSET Ids]
  BY <1>1, <1>2 DEF TypeOK, Spawn
<1>4. starting' \in [Repos -> 0..MaxStarting]
  BY ScriptRunnerAssumption DEF TypeOK, Spawn
<1>5. /\ status' \in [Ids -> Statuses]
      /\ proc' \in [Ids -> ProcStates]
      /\ processes' \in [Repos -> Ids \cup {NoProcess}]
  BY <1>1 DEF TypeOK, Spawn, Statuses, Finals, ProcStates, Live
<1> QED
  BY <1>1, <1>3, <1>4, <1>5 DEF TypeOK, Spawn

LEMMA StopTypeOK ==
  ASSUME NEW r \in Repos, TypeOK, Stop(r)
  PROVE  TypeOK'
BY DEF Stop, TypeOK, Statuses, Finals, ProcStates, Live, IsRunningRun, Running,
       NoProcess

LEMMA KillTimerTypeOK ==
  ASSUME NEW r \in Repos, NEW c \in Ids, TypeOK, KillTimer(r, c)
  PROVE  TypeOK'
BY DEF KillTimer, TypeOK, ProcStates, Live

LEMMA CloseTypeOK ==
  ASSUME NEW r \in Repos, NEW c \in Ids, NEW s \in Finals, TypeOK, Close(r, c, s)
  PROVE  TypeOK'
BY DEF Close, TypeOK, ProcStates, Live, Statuses

LEMMA ClearHistoryTypeOK ==
  ASSUME NEW r \in Repos, TypeOK, ClearHistory(r)
  PROVE  TypeOK'
BY DEF ClearHistory, TypeOK

LEMMA PublishTypeOK ==
  ASSUME TypeOK, Publish
  PROVE  TypeOK'
<1>1. View \in SUBSET (Ids \X Statuses)
  BY DEF View, TypeOK
<1> QED
  BY <1>1 DEF Publish, TypeOK

\* A closing process only ever leaves one of the final statuses.
LEMMA CloseFinal == ASSUME NEW c PROVE CloseStatuses(c) \subseteq Finals
BY DEF CloseStatuses, Finals

LEMMA NextTypeOK == TypeOK /\ [Next]_vars => TypeOK'
<1> SUFFICES ASSUME TypeOK, [Next]_vars PROVE TypeOK'
  OBVIOUS
<1>1. CASE UNCHANGED vars
  BY <1>1 DEF TypeOK, vars
<1>2. CASE Next
  BY <1>2, StartCallTypeOK, SpawnTypeOK, StopTypeOK, KillTimerTypeOK,
     CloseTypeOK, CloseFinal, ClearHistoryTypeOK, PublishTypeOK
  DEF Next, SpawnAny, CloseAny
<1> QED
  BY <1>1, <1>2

\* Every variable of the runner stays in its type.
THEOREM TypeCorrect == Spec => []TypeOK
BY InitTypeOK, NextTypeOK, PTL DEF Spec

-----------------------------------------------------------------------------
\* At most as many scripts run as starts overlapped.

\* Ids are handed out in order: the history only names ids already used.
UsedIds == \A r \in Repos : history[r] \subseteq 1..(nextRunId - 1)

OverlapInv == TypeOK /\ UsedIds /\ RunsBoundedByOverlap

LEMMA CountSubset ==
  ASSUME NEW S \in SUBSET Ids, NEW T \in SUBSET S
  PROVE  /\ Cardinality(S) \in Nat /\ Cardinality(T) \in Nat
         /\ Cardinality(T) <= Cardinality(S)
<1>1. IsFiniteSet(1..MaxRuns)
  <2>1. 1 \in Int /\ MaxRuns \in Int
    BY ScriptRunnerAssumption
  <2> QED
    BY <2>1, FS_Interval
<1>2. IsFiniteSet(S)
  BY <1>1, FS_Subset DEF Ids
<1> QED
  BY <1>2, FS_Subset, FS_CardinalityType

LEMMA CountOneMore ==
  ASSUME NEW S \in SUBSET Ids, NEW i
  PROVE  Cardinality(S \cup {i}) <= Cardinality(S) + 1
<1>1. IsFiniteSet(S)
  <2>1. 1 \in Int /\ MaxRuns \in Int
    BY ScriptRunnerAssumption
  <2>2. IsFiniteSet(1..MaxRuns)
    BY <2>1, FS_Interval
  <2> QED
    BY <2>2, FS_Subset DEF Ids
<1>2. Cardinality(S) \in Nat
  BY CountSubset
<1> QED
  BY <1>1, <1>2, FS_AddElement

\* A step that starts nothing and only removes running scripts keeps the bound.
LEMMA FewerRunning ==
  ASSUME TypeOK, RunsBoundedByOverlap, UNCHANGED <<starting, overlapped>>,
         \A r \in Repos : Running(r)' \subseteq Running(r)
  PROVE  RunsBoundedByOverlap'
<1> SUFFICES ASSUME NEW r \in Repos
             PROVE  Cardinality(Running(r)') + starting[r] <= Allowed(r)
  BY DEF RunsBoundedByOverlap, Allowed
<1>1. Running(r) \in SUBSET Ids
  BY DEF Running, TypeOK
<1>2. Cardinality(Running(r)') <= Cardinality(Running(r))
      /\ Cardinality(Running(r)) \in Nat /\ Cardinality(Running(r)') \in Nat
  BY <1>1, CountSubset
<1>3. Cardinality(Running(r)) + starting[r] <= Allowed(r) /\ starting[r] \in Nat
  BY DEF RunsBoundedByOverlap, TypeOK
<1> QED
  BY <1>2, <1>3, ScriptRunnerAssumption DEF Allowed

LEMMA StartCallBounded ==
  ASSUME NEW q \in Repos, OverlapInv, StartCall(q)
  PROVE  RunsBoundedByOverlap'
<1> SUFFICES ASSUME NEW r \in Repos
             PROVE  Cardinality(Running(r)') + starting'[r] <= Allowed(r)'
  BY DEF RunsBoundedByOverlap
<1>1. Running(r)' = Running(r)
  BY DEF StartCall, Running
<1>2. CASE r = q
  <2>1. Cardinality(Running(r)) = 0
    BY <1>2, FS_EmptySet DEF StartCall, IsRunning
  <2>2. /\ starting'[r] = starting[r] + 1
        /\ starting[r] \in 0..MaxStarting /\ starting[r] < MaxStarting
        /\ starting[r] > 0 => r \in overlapped'
    BY <1>2 DEF StartCall, OverlapInv, TypeOK
  <2> QED
    BY <1>1, <2>1, <2>2, ScriptRunnerAssumption DEF Allowed
<1>3. CASE r # q
  <2>1. starting'[r] = starting[r] /\ (r \in overlapped' <=> r \in overlapped)
    BY <1>3 DEF StartCall, OverlapInv, TypeOK
  <2> QED
    BY <1>1, <2>1 DEF OverlapInv, RunsBoundedByOverlap, Allowed
<1> QED
  BY <1>2, <1>3

LEMMA SpawnBounded ==
  ASSUME NEW q \in Repos, NEW outcome, OverlapInv, Spawn(q, outcome)
  PROVE  RunsBoundedByOverlap'
<1> SUFFICES ASSUME NEW r \in Repos
             PROVE  Cardinality(Running(r)') + starting'[r] <= Allowed(r)
  BY DEF RunsBoundedByOverlap, Allowed, Spawn
<1>1. /\ \A i \in history[r] : i # nextRunId /\ i \in Ids
      /\ \A i \in Ids : i # nextRunId => status'[i] = status[i]
  BY ScriptRunnerAssumption DEF OverlapInv, UsedIds, TypeOK, Spawn, Ids
<1>2. Cardinality(Running(r)) + starting[r] <= Allowed(r)
      /\ starting[r] \in Nat /\ Running(r) \in SUBSET Ids
  BY DEF OverlapInv, RunsBoundedByOverlap, TypeOK, Running
<1>3. CASE r = q
  <2>1. history'[r] \subseteq history[r] \cup {nextRunId}
    BY <1>3 DEF Spawn, OverlapInv, TypeOK, Newest
  <2>2. Running(r)' \subseteq Running(r) \cup {nextRunId}
    BY <1>1, <2>1 DEF Running
  <2>3. Running(r) \cup {nextRunId} \in SUBSET Ids
    BY <1>2 DEF Spawn, OverlapInv, TypeOK, Ids
  <2>4. Cardinality(Running(r)') <= Cardinality(Running(r)) + 1
        /\ Cardinality(Running(r)) \in Nat /\ Cardinality(Running(r)') \in Nat
    <3>1. Cardinality(Running(r)') <= Cardinality(Running(r) \cup {nextRunId})
          /\ Cardinality(Running(r)') \in Nat
          /\ Cardinality(Running(r) \cup {nextRunId}) \in Nat
      BY <2>2, <2>3, CountSubset
    <3>2. Cardinality(Running(r) \cup {nextRunId}) <= Cardinality(Running(r)) + 1
      BY <1>2, CountOneMore
    <3>3. Cardinality(Running(r)) \in Nat
      BY <1>2, CountSubset
    <3> QED
      BY <3>1, <3>2, <3>3
  <2>5. starting'[r] = starting[r] - 1
    BY <1>3 DEF Spawn, OverlapInv, TypeOK
  <2> QED
    BY <1>2, <2>4, <2>5, ScriptRunnerAssumption DEF Allowed
<1>4. CASE r # q
  <2>1. history'[r] = history[r] /\ starting'[r] = starting[r]
    BY <1>4 DEF Spawn, OverlapInv, TypeOK
  <2>2. Running(r)' = Running(r)
    BY <1>1, <2>1 DEF Running
  <2> QED
    BY <1>2, <2>1, <2>2
<1> QED
  BY <1>3, <1>4

LEMMA NextBounded == OverlapInv /\ [Next]_vars => RunsBoundedByOverlap'
<1> SUFFICES ASSUME OverlapInv, [Next]_vars PROVE RunsBoundedByOverlap'
  OBVIOUS
<1>0. TypeOK /\ RunsBoundedByOverlap
  BY DEF OverlapInv
<1>1. CASE UNCHANGED vars
  BY <1>1, <1>0, FewerRunning DEF vars, Running
<1>2. ASSUME NEW r \in Repos, StartCall(r) PROVE RunsBoundedByOverlap'
  BY <1>2, StartCallBounded
<1>3. ASSUME NEW r \in Repos, SpawnAny(r) PROVE RunsBoundedByOverlap'
  BY <1>3, SpawnBounded DEF SpawnAny
<1>4. ASSUME NEW r \in Repos, Stop(r) PROVE RunsBoundedByOverlap'
  <2>1. UNCHANGED <<starting, overlapped>> /\ \A q \in Repos : Running(q)' \subseteq Running(q)
    BY <1>4, <1>0 DEF Stop, Running, TypeOK
  <2> QED
    BY <1>0, <2>1, FewerRunning
<1>5. ASSUME NEW r \in Repos, NEW c \in Ids, KillTimer(r, c)
      PROVE  RunsBoundedByOverlap'
  BY <1>5, <1>0, FewerRunning DEF KillTimer, Running
<1>6. ASSUME NEW c \in Ids, CloseAny(c) PROVE RunsBoundedByOverlap'
  <2> PICK r \in Repos, s \in Finals : Close(r, c, s)
    BY <1>6, CloseFinal DEF CloseAny
  <2>1. UNCHANGED <<starting, overlapped>> /\ \A q \in Repos : Running(q)' \subseteq Running(q)
    BY <1>0 DEF Close, Running, TypeOK, Finals
  <2> QED
    BY <1>0, <2>1, FewerRunning
<1>7. ASSUME NEW r \in Repos, ClearHistory(r) PROVE RunsBoundedByOverlap'
  <2>1. UNCHANGED <<starting, overlapped>> /\ \A q \in Repos : Running(q)' \subseteq Running(q)
    BY <1>7, <1>0 DEF ClearHistory, Running, TypeOK
  <2> QED
    BY <1>0, <2>1, FewerRunning
<1>8. ASSUME Publish PROVE RunsBoundedByOverlap'
  BY <1>8, <1>0, FewerRunning DEF Publish, Running
<1> QED
  BY <1>1, <1>2, <1>3, <1>4, <1>5, <1>6, <1>7, <1>8 DEF Next

LEMMA NextUsedIds == TypeOK /\ UsedIds /\ [Next]_vars => UsedIds'
<1> SUFFICES ASSUME TypeOK, UsedIds, [Next]_vars, NEW q \in Repos
             PROVE  history'[q] \subseteq 1..(nextRunId' - 1)
  BY DEF UsedIds
<1>0. history[q] \subseteq 1..(nextRunId - 1) /\ nextRunId \in Nat
  BY ScriptRunnerAssumption DEF UsedIds, TypeOK
<1>1. CASE UNCHANGED <<history, nextRunId>>
  BY <1>0, <1>1
<1>2. ASSUME NEW r \in Repos, NEW outcome, Spawn(r, outcome)
      PROVE  history'[q] \subseteq 1..(nextRunId' - 1)
  <2>1. history'[q] \subseteq history[q] \cup {nextRunId}
    BY <1>2 DEF Spawn, TypeOK, Newest
  <2>2. nextRunId' = nextRunId + 1 /\ nextRunId >= 1
    BY <1>2, ScriptRunnerAssumption DEF Spawn, TypeOK
  <2> QED
    BY <1>0, <2>1, <2>2
<1>3. ASSUME NEW r \in Repos, ClearHistory(r)
      PROVE  history'[q] \subseteq 1..(nextRunId' - 1)
  BY <1>0, <1>3 DEF ClearHistory, TypeOK
<1> QED
  BY <1>1, <1>2, <1>3
  DEF Next, vars, StartCall, SpawnAny, Stop, KillTimer, CloseAny, Close, Publish

LEMMA InitBounded == Init => RunsBoundedByOverlap
<1> SUFFICES ASSUME Init PROVE RunsBoundedByOverlap
  OBVIOUS
<1>1. \A r \in Repos : Running(r) = {} /\ starting[r] = 0
  BY DEF Init, Running
<1> QED
  BY <1>1, FS_EmptySet, ScriptRunnerAssumption
  DEF RunsBoundedByOverlap, Allowed

\* The scripts of a repository that run, and the starts of it under way, are
\* never more than the starts that may overlap.
THEOREM BoundedByOverlap == Spec => []RunsBoundedByOverlap
<1>1. Init => OverlapInv
  BY InitTypeOK, InitBounded DEF Init, OverlapInv, UsedIds
<1>2. OverlapInv /\ [Next]_vars => OverlapInv'
  BY NextTypeOK, NextUsedIds, NextBounded DEF OverlapInv
<1>3. OverlapInv => RunsBoundedByOverlap
  BY DEF OverlapInv
<1> QED
  BY <1>1, <1>2, <1>3, PTL DEF Spec

\* Where no starts overlapped, the class comment is true: the scripts of a
\* repository run one at a time.
THEOREM SerialStartsRunOne ==
  Spec => [](\A r \in Repos \ overlapped : Cardinality(Running(r)) <= 1)
<1>1. TypeOK /\ RunsBoundedByOverlap =>
        \A r \in Repos \ overlapped : Cardinality(Running(r)) <= 1
  <2> SUFFICES ASSUME TypeOK, RunsBoundedByOverlap, NEW r \in Repos \ overlapped
               PROVE  Cardinality(Running(r)) <= 1
    OBVIOUS
  <2>1. Running(r) \in SUBSET Ids /\ starting[r] \in Nat
    BY DEF TypeOK, Running
  <2>2. Cardinality(Running(r)) \in Nat
    BY <2>1, CountSubset
  <2>3. Cardinality(Running(r)) + starting[r] <= 1
    BY DEF RunsBoundedByOverlap, Allowed
  <2> QED
    BY <2>1, <2>2, <2>3
<1> QED
  BY <1>1, TypeCorrect, BoundedByOverlap, PTL

-----------------------------------------------------------------------------
\* Runs and their processes.  The handlers of all children of a repository
\* write the same entry of processes; what keeps them from confusing a running
\* script with another one's child is the order of the ids.

\* A run that was not started yet has no status, no child and no timer.
FreshIds ==
  /\ \A i \in Ids : i >= nextRunId => status[i] = "none"
  /\ \A r \in Repos : \A i \in children[r] : i < nextRunId
  /\ \A i \in killTimers : i < nextRunId

\* A child reports to one repository.
OneOwner ==
  \A q, r \in Repos : \A i \in children[q] \cap children[r] : q = r

\* The kept child is the repository's own, and its newest.
KeptIsNewest ==
  \A r \in Repos : processes[r] # NoProcess =>
    /\ processes[r] \in children[r]
    /\ \A j \in Running(r) : j <= processes[r]

\* Only signalled children have a timer.
TimedIsSignalled == \A c \in killTimers : proc[c] # "alive"

ProcInv ==
  /\ TypeOK /\ UsedIds /\ FreshIds /\ OneOwner /\ KeptIsNewest
  /\ TimedIsSignalled /\ RunningIsAlive /\ ChildIsLive

LEMMA InitProcInv == Init => ProcInv
<1> SUFFICES ASSUME Init PROVE ProcInv
  OBVIOUS
<1>1. TypeOK
  BY InitTypeOK
<1> QED
  BY <1>1
  DEF Init, ProcInv, UsedIds, FreshIds, OneOwner, KeptIsNewest,
      TimedIsSignalled, RunningIsAlive, ChildIsLive, Running, NoProcess

\* A step that leaves processes, children, their states and the timers alone,
\* starts nothing, and neither adds a running script nor changes the status of
\* a fresh id.
LEMMA QuietStep ==
  ASSUME ProcInv, TypeOK', UsedIds',
         UNCHANGED <<nextRunId, processes, proc, children, killTimers>>,
         \A r \in Repos : Running(r)' \subseteq Running(r),
         \A i \in Ids : i >= nextRunId => status'[i] = status[i]
  PROVE  ProcInv'
BY DEF ProcInv, FreshIds, OneOwner, KeptIsNewest, TimedIsSignalled,
       RunningIsAlive, ChildIsLive

LEMMA SpawnProcInv ==
  ASSUME NEW q \in Repos, NEW outcome, ProcInv, TypeOK', UsedIds',
         Spawn(q, outcome)
  PROVE  ProcInv'
<1> DEFINE i == nextRunId
<1>1. /\ i \in Ids /\ i \in Nat /\ nextRunId' = i + 1
      /\ \A r \in Repos : history[r] \subseteq Ids /\ children[r] \subseteq Ids
      /\ \A r \in Repos : i \notin history[r] /\ i \notin children[r]
      /\ \A j \in Ids : j \in Nat
  BY ScriptRunnerAssumption
  DEF ProcInv, TypeOK, UsedIds, FreshIds, Spawn, Ids
<1>2. /\ \A j \in Ids : j # i => status'[j] = status[j] /\ proc'[j] = proc[j]
      /\ \A r \in Repos : children'[r] = IF r = q THEN children[r] \cup {i}
                                                   ELSE children[r]
      /\ \A r \in Repos : r # q => /\ history'[r] = history[r]
                                    /\ processes'[r] = processes[r]
      /\ history'[q] \subseteq history[q] \cup {i}
  <2>1. \A j \in Ids : j # i => status'[j] = status[j] /\ proc'[j] = proc[j]
    BY <1>1 DEF ProcInv, TypeOK, Spawn
  <2>2. \A r \in Repos : children'[r] = IF r = q THEN children[r] \cup {i}
                                                  ELSE children[r]
    BY DEF ProcInv, TypeOK, Spawn
  <2>3. \A r \in Repos : r # q => /\ history'[r] = history[r]
                                  /\ processes'[r] = processes[r]
    BY DEF ProcInv, TypeOK, Spawn
  <2>4. history'[q] \subseteq history[q] \cup {i}
    BY DEF ProcInv, TypeOK, Spawn, Newest
  <2> QED
    BY <2>1, <2>2, <2>3, <2>4
<1>3. /\ \A r \in Repos : r # q => Running(r)' = Running(r)
      /\ Running(q)' \subseteq Running(q) \cup {i}
      /\ \A j \in Running(q) : j \in Nat /\ j < i
  <2>1. \A r \in Repos : r # q => Running(r)' = Running(r)
    BY <1>1, <1>2 DEF Running
  <2>2. Running(q)' \subseteq Running(q) \cup {i}
    BY <1>1, <1>2 DEF Running
  <2>3. \A j \in Running(q) : j \in Nat /\ j < i
    BY <1>1 DEF Running, ProcInv, UsedIds
  <2> QED
    BY <2>1, <2>2, <2>3
<1>4. \/ /\ status'[i] = "running" /\ proc'[i] = "alive" /\ processes'[q] = i
      \/ /\ status'[i] = "failed" /\ processes'[q] = NoProcess
  BY <1>1 DEF Spawn, ProcInv, TypeOK
<1>5. FreshIds'
  <2>1. \A j \in Ids : j >= nextRunId' => status'[j] = "none"
    BY <1>1, <1>2 DEF FreshIds, ProcInv
  <2>2. \A j \in Nat : j < i => j < nextRunId'
    BY <1>1
  <2>3. \A r \in Repos : \A j \in children'[r] : j < nextRunId'
    <3>1. \A r \in Repos : \A j \in children[r] : j \in Nat /\ j < i
      BY <1>1 DEF FreshIds, ProcInv
    <3>2. i < nextRunId'
      BY <1>1
    <3> QED
      BY <1>2, <2>2, <3>1, <3>2
  <2>4. \A j \in killTimers' : j < nextRunId'
    <3>1. killTimers' = killTimers /\ \A j \in killTimers : j \in Nat /\ j < i
      BY <1>1 DEF FreshIds, ProcInv, Spawn, TypeOK
    <3> QED
      BY <2>2, <3>1
  <2> QED
    BY <2>1, <2>3, <2>4 DEF FreshIds
<1>6. OneOwner'
  <2> SUFFICES ASSUME NEW p \in Repos, NEW r \in Repos,
                      NEW j \in children'[p] \cap children'[r]
               PROVE  p = r
    BY DEF OneOwner
  <2>1. CASE j = i
    BY <1>1, <1>2, <2>1
  <2>2. CASE j # i
    <3>1. children'[p] \subseteq children[p] \cup {i}
          /\ children'[r] \subseteq children[r] \cup {i}
      BY <1>2
    <3>2. j \in children[p] \cap children[r]
      BY <2>2, <3>1
    <3> QED
      BY <3>2 DEF ProcInv, OneOwner
  <2> QED
    BY <2>1, <2>2
<1>7. KeptIsNewest'
  <2> SUFFICES ASSUME NEW r \in Repos, processes'[r] # NoProcess
               PROVE  /\ processes'[r] \in children'[r]
                      /\ \A j \in Running(r)' : j <= processes'[r]
    BY DEF KeptIsNewest
  <2>1. CASE r = q
    <3>1. processes'[q] = i /\ i \in children'[q]
      BY <1>2, <1>4, <2>1
    <3>2. \A j \in Running(q)' : j <= i
      BY <1>1, <1>3
    <3> QED
      BY <2>1, <3>1, <3>2
  <2>2. CASE r # q
    BY <1>2, <1>3, <2>2 DEF ProcInv, KeptIsNewest
  <2> QED
    BY <2>1, <2>2
<1>8. TimedIsSignalled'
  <2>1. i \notin killTimers
    BY <1>1 DEF ProcInv, FreshIds
  <2> QED
    BY <1>2, <2>1 DEF Spawn, ProcInv, TypeOK, TimedIsSignalled
<1>9. RunningIsAlive'
  BY <1>1, <1>2, <1>3, <1>4 DEF RunningIsAlive, ProcInv, Running
<1>10. ChildIsLive'
  <2> SUFFICES ASSUME NEW r \in Repos, processes'[r] # NoProcess
               PROVE  proc'[processes'[r]] \in {"alive", "terminating", "killed"}
    BY DEF ChildIsLive
  <2>1. CASE r = q
    BY <1>4, <2>1
  <2>2. CASE r # q
    <3>1. processes[r] \in children[r] /\ processes[r] \in Ids /\ processes[r] # i
      BY <1>1, <1>2, <2>2 DEF ProcInv, KeptIsNewest
    <3> QED
      BY <1>2, <2>2, <3>1 DEF ProcInv, ChildIsLive
  <2> QED
    BY <2>1, <2>2
<1> QED
  BY <1>5, <1>6, <1>7, <1>8, <1>9, <1>10 DEF ProcInv

LEMMA StopProcInv ==
  ASSUME NEW q \in Repos, ProcInv, TypeOK', UsedIds', Stop(q)
  PROVE  ProcInv'
<1> DEFINE c == processes[q]
<1>1. PICK i \in history[q] :
        IsRunningRun(q, i) /\ status' = [status EXCEPT ![i] = "stopped"]
  BY DEF Stop
<1>2. /\ c \in children[q] /\ c \in Ids /\ i \in Ids /\ i < nextRunId
      /\ i \in Running(q) /\ i \in Nat /\ nextRunId \in Nat
      /\ \A j \in Running(q) : j \in Ids /\ j <= i /\ j <= c
      /\ proc[c] \in {"alive", "terminating", "killed"}
  <2>1. c # NoProcess /\ c \in Ids /\ c \in children[q]
        /\ (\A j \in Running(q) : j <= c)
        /\ proc[c] \in {"alive", "terminating", "killed"}
    BY DEF Stop, ProcInv, KeptIsNewest, ChildIsLive, TypeOK
  <2>2. i \in Ids /\ i \in Running(q) /\ (\A j \in Running(q) : j \in Ids /\ j <= i)
    BY <1>1 DEF IsRunningRun, Running, ProcInv, TypeOK
  <2>3. i < nextRunId /\ i \in Nat /\ nextRunId \in Nat
    BY ScriptRunnerAssumption DEF ProcInv, UsedIds, TypeOK
  <2> QED
    BY <2>1, <2>2, <2>3
<1>3. /\ UNCHANGED <<nextRunId, history, processes, children>>
      /\ killTimers' \subseteq killTimers \cup {c}
      /\ \A j \in Ids : j # c => proc'[j] = proc[j]
      /\ proc'[c] \in {"terminating", "killed"}
      /\ \A j \in Ids : j # i => status'[j] = status[j]
      /\ status'[i] = "stopped"
  BY <1>1, <1>2 DEF Stop, ProcInv, TypeOK
<1>4. \A r \in Repos : Running(r)' \subseteq Running(r)
  BY <1>3 DEF Running, ProcInv, TypeOK
<1>5. \A r \in Repos : c \notin Running(r)'
  <2> SUFFICES ASSUME NEW r \in Repos, c \in Running(r)' PROVE FALSE
    OBVIOUS
  <2>1. c \in Running(r) /\ c # i
    BY <1>3, <1>4 DEF Running
  <2>2. c \in children[r]
    BY <2>1 DEF ProcInv, RunningIsAlive
  <2>3. r = q
    BY <1>2, <2>2 DEF ProcInv, OneOwner
  <2> QED
    BY <1>2, <2>1, <2>3 DEF Ids
<1>6. FreshIds'
  <2>1. \A j \in Ids : j >= nextRunId => j # i
    BY <1>2
  <2> QED
    BY <1>2, <1>3, <2>1 DEF FreshIds, ProcInv
<1>7. OneOwner' /\ KeptIsNewest'
  BY <1>3, <1>4 DEF ProcInv, OneOwner, KeptIsNewest
<1>8. TimedIsSignalled'
  BY <1>3 DEF ProcInv, TimedIsSignalled, TypeOK
<1>9. RunningIsAlive'
  BY <1>3, <1>4, <1>5 DEF ProcInv, RunningIsAlive, TypeOK, Running
<1>10. ChildIsLive'
  BY <1>2, <1>3 DEF ProcInv, ChildIsLive, TypeOK, NoProcess
<1> QED
  BY <1>6, <1>7, <1>8, <1>9, <1>10 DEF ProcInv

LEMMA KillTimerProcInv ==
  ASSUME NEW q \in Repos, NEW c \in Ids, ProcInv, TypeOK', UsedIds',
         KillTimer(q, c)
  PROVE  ProcInv'
<1>1. /\ UNCHANGED <<nextRunId, history, status, processes, children>>
      /\ killTimers' \subseteq killTimers
      /\ \A j \in Ids : j # c => proc'[j] = proc[j]
      /\ proc'[c] = proc[c] \/ proc'[c] = "killed"
      /\ proc[c] # "alive"
  BY DEF KillTimer, ProcInv, TypeOK, TimedIsSignalled
<1>2. \A r \in Repos : Running(r)' = Running(r) /\ c \notin Running(r)
  BY <1>1 DEF Running, ProcInv, RunningIsAlive
<1>3. FreshIds' /\ OneOwner' /\ KeptIsNewest'
  BY <1>1, <1>2 DEF ProcInv, FreshIds, OneOwner, KeptIsNewest
<1>4. TimedIsSignalled'
  BY <1>1 DEF ProcInv, TimedIsSignalled, TypeOK
<1>5. RunningIsAlive'
  BY <1>1, <1>2 DEF ProcInv, RunningIsAlive, TypeOK, Running
<1>6. ChildIsLive'
  BY <1>1 DEF ProcInv, ChildIsLive, TypeOK, NoProcess
<1> QED
  BY <1>3, <1>4, <1>5, <1>6 DEF ProcInv

LEMMA CloseProcInv ==
  ASSUME NEW q \in Repos, NEW c \in Ids, NEW s \in Finals,
         ProcInv, TypeOK', UsedIds', Close(q, c, s)
  PROVE  ProcInv'
<1>1. /\ UNCHANGED <<nextRunId, history, children, killTimers>>
      /\ c \in children[q] /\ c < nextRunId
      /\ \A j \in Ids : j # c => proc'[j] = proc[j] /\ status'[j] = status[j]
      /\ proc'[c] = "gone"
      /\ c \in history[q] => status'[c] # "running"
      /\ \A j \in Ids : status'[j] = "running" => status[j] = "running"
      /\ processes'[q] = NoProcess
      /\ \A r \in Repos : r # q => processes'[r] = processes[r]
  BY DEF Close, ProcInv, TypeOK, FreshIds, Finals
<1>2. \A r \in Repos : Running(r)' \subseteq Running(r) /\ c \notin Running(r)'
  <2> SUFFICES ASSUME NEW r \in Repos
               PROVE  Running(r)' \subseteq Running(r) /\ c \notin Running(r)'
    OBVIOUS
  <2>1. Running(r)' \subseteq Running(r)
    BY <1>1 DEF Running, ProcInv, TypeOK
  <2>2. c \in Running(r) => r = q
    BY <1>1 DEF ProcInv, RunningIsAlive, OneOwner
  <2> QED
    BY <1>1, <2>1, <2>2 DEF Running
<1>3. FreshIds' /\ OneOwner'
  <2>1. \A j \in Ids : j >= nextRunId => j # c
    BY <1>1, ScriptRunnerAssumption DEF Ids, ProcInv, TypeOK
  <2>2. FreshIds'
    BY <1>1, <2>1 DEF ProcInv, FreshIds
  <2> QED
    BY <1>1, <2>2 DEF ProcInv, OneOwner
<1>4. KeptIsNewest'
  BY <1>1, <1>2 DEF ProcInv, KeptIsNewest
<1>5. TimedIsSignalled'
  BY <1>1 DEF ProcInv, TimedIsSignalled, TypeOK
<1>6. RunningIsAlive'
  <2> SUFFICES ASSUME NEW r \in Repos, NEW j \in Running(r)'
               PROVE  j \in children'[r] /\ proc'[j] = "alive"
    BY DEF RunningIsAlive
  <2>1. j \in Running(r) /\ j # c /\ j \in Ids
    BY <1>2 DEF Running, ProcInv, TypeOK
  <2> QED
    BY <1>1, <2>1 DEF ProcInv, RunningIsAlive
<1>7. ChildIsLive'
  <2> SUFFICES ASSUME NEW r \in Repos, processes'[r] # NoProcess
               PROVE  proc'[processes'[r]] \in {"alive", "terminating", "killed"}
    BY DEF ChildIsLive
  <2>1. r # q /\ processes'[r] = processes[r] /\ processes[r] \in children[r]
        /\ processes[r] \in Ids
    BY <1>1 DEF ProcInv, KeptIsNewest, TypeOK
  <2>2. processes[r] # c
    BY <1>1, <2>1 DEF ProcInv, OneOwner
  <2> QED
    BY <1>1, <2>1, <2>2 DEF ProcInv, ChildIsLive
<1> QED
  BY <1>3, <1>4, <1>5, <1>6, <1>7 DEF ProcInv

LEMMA NextProcInv == ProcInv /\ [Next]_vars => ProcInv'
<1> SUFFICES ASSUME ProcInv, [Next]_vars PROVE ProcInv'
  OBVIOUS
<1>0. TypeOK' /\ UsedIds'
  BY NextTypeOK, NextUsedIds DEF ProcInv
<1>1. CASE UNCHANGED vars
  BY <1>0, <1>1, QuietStep DEF vars, Running
<1>2. ASSUME NEW r \in Repos, StartCall(r) PROVE ProcInv'
  BY <1>0, <1>2, QuietStep DEF StartCall, Running
<1>3. ASSUME NEW r \in Repos, SpawnAny(r) PROVE ProcInv'
  BY <1>0, <1>3, SpawnProcInv DEF SpawnAny
<1>4. ASSUME NEW r \in Repos, Stop(r) PROVE ProcInv'
  BY <1>0, <1>4, StopProcInv
<1>5. ASSUME NEW r \in Repos, NEW c \in Ids, KillTimer(r, c) PROVE ProcInv'
  BY <1>0, <1>5, KillTimerProcInv
<1>6. ASSUME NEW c \in Ids, CloseAny(c) PROVE ProcInv'
  BY <1>0, <1>6, CloseProcInv, CloseFinal DEF CloseAny
<1>7. ASSUME NEW r \in Repos, ClearHistory(r) PROVE ProcInv'
  <2>1. \A q \in Repos : Running(q)' \subseteq Running(q)
    BY <1>7 DEF ClearHistory, Running, ProcInv, TypeOK
  <2> QED
    BY <1>0, <1>7, <2>1, QuietStep DEF ClearHistory
<1>8. ASSUME Publish PROVE ProcInv'
  BY <1>0, <1>8, QuietStep DEF Publish, Running
<1> QED
  BY <1>1, <1>2, <1>3, <1>4, <1>5, <1>6, <1>7, <1>8 DEF Next

\* A run shown as running has its process, however starts, stops and close
\* events of the repository's children interleave.
THEOREM RunningHasProcess == Spec => []RunningIsAlive
<1>1. ProcInv => RunningIsAlive
  BY DEF ProcInv
<1> QED
  BY <1>1, InitProcInv, NextProcInv, PTL DEF Spec

\* stop and its timer only ever signal a process that has not closed.
THEOREM SignalsReachLiveChild == Spec => []ChildIsLive
<1>1. ProcInv => ChildIsLive
  BY DEF ProcInv
<1> QED
  BY <1>1, InitProcInv, NextProcInv, PTL DEF Spec

\* The outcome of a run never changes once it has one.
THEOREM OutcomeNeverChanges == Spec => OutcomeIsFinal
<1>1. ProcInv /\ [Next]_vars =>
        \A i \in Ids : status[i] \in Finals => status'[i] = status[i]
  <2> SUFFICES ASSUME ProcInv, [Next]_vars, NEW i \in Ids, status[i] \in Finals
               PROVE  status'[i] = status[i]
    OBVIOUS
  <2>1. status[i] # "running" /\ status[i] # "none"
    BY DEF Finals
  <2>2. ASSUME NEW r \in Repos, NEW outcome, Spawn(r, outcome)
        PROVE  status'[i] = status[i]
    <3>1. i # nextRunId
      BY <2>1 DEF ProcInv, FreshIds, TypeOK
    <3> QED
      BY <2>2, <3>1 DEF Spawn, ProcInv, TypeOK
  <2>3. ASSUME NEW r \in Repos, Stop(r) PROVE status'[i] = status[i]
    BY <2>1, <2>3 DEF Stop, IsRunningRun, Running, ProcInv, TypeOK
  <2>4. ASSUME NEW r \in Repos, NEW c \in Ids, NEW s \in Finals, Close(r, c, s)
        PROVE  status'[i] = status[i]
    BY <2>1, <2>4 DEF Close, ProcInv, TypeOK
  <2> QED
    BY <2>2, <2>3, <2>4, CloseFinal
    DEF Next, vars, StartCall, SpawnAny, KillTimer, CloseAny, ClearHistory, Publish
<1> QED
  BY <1>1, InitProcInv, NextProcInv, PTL DEF Spec, OutcomeIsFinal

\* What was shown last differs from the runs only while an update is scheduled.
THEOREM UpdatesNeverLost == Spec => []NoLostUpdate
<1>1. Init => NoLostUpdate
  BY DEF Init, NoLostUpdate, View
<1>2. TypeOK /\ NoLostUpdate /\ [Next]_vars => NoLostUpdate'
  <2> SUFFICES ASSUME TypeOK, NoLostUpdate, [Next]_vars PROVE NoLostUpdate'
    OBVIOUS
  <2>1. ASSUME UNCHANGED <<history, status, shown, updateTimeout>>
        PROVE  NoLostUpdate'
    BY <2>1 DEF NoLostUpdate, View
  <2>2. ASSUME updateTimeout' = TRUE PROVE NoLostUpdate'
    BY <2>2 DEF NoLostUpdate
  <2>3. ASSUME NEW c \in Ids, CloseAny(c) PROVE NoLostUpdate'
    BY <2>1, <2>2, <2>3 DEF CloseAny, Close
  <2>4. CASE Publish
    BY <2>4 DEF Publish, NoLostUpdate, View
  <2> QED
    BY <2>1, <2>2, <2>3, <2>4 DEF Next, vars, StartCall, SpawnAny, Spawn, Stop,
       KillTimer, ClearHistory
<1> QED
  BY <1>1, <1>2, TypeCorrect, PTL DEF Spec

-----------------------------------------------------------------------------
\* A script that runs is remembered.

\* Where starts did not overlap, the script that runs is the newest child.
NewestRuns ==
  \A r \in Repos \ overlapped : \A i \in Running(r), j \in children[r] : j <= i

AliveInv ==
  ProcInv /\ RunsBoundedByOverlap /\ NewestRuns /\ AliveIsRemembered

\* A start whose repository had no overlap finds nothing running.
LEMMA SpawnsAlone ==
  ASSUME AliveInv, NEW r \in Repos \ overlapped, starting[r] > 0
  PROVE  Running(r) = {}
<1>1. Running(r) \in SUBSET Ids /\ starting[r] \in Nat
  BY DEF AliveInv, ProcInv, TypeOK, Running
<1>2. Cardinality(Running(r)) \in Nat
  BY <1>1, CountSubset
<1>3. Cardinality(Running(r)) + starting[r] <= 1
  BY DEF AliveInv, RunsBoundedByOverlap, Allowed
<1>4. Cardinality(Running(r)) = 0
  BY <1>1, <1>2, <1>3
<1>5. IsFiniteSet(Running(r))
  <2>1. 1 \in Int /\ MaxRuns \in Int
    BY ScriptRunnerAssumption
  <2>2. IsFiniteSet(Ids)
    BY <2>1, FS_Interval DEF Ids
  <2> QED
    BY <1>1, <2>2, FS_Subset
<1> QED
  BY <1>4, <1>5, FS_EmptySet

\* One script runs at a time where starts did not overlap.
LEMMA RunsAlone ==
  ASSUME AliveInv, NEW r \in Repos \ overlapped
  PROVE  \A i, j \in Running(r) : i = j
BY DEF AliveInv, NewestRuns, ProcInv, RunningIsAlive, TypeOK, Ids, Running

LEMMA SpawnAlive ==
  ASSUME AliveInv, NEW q \in Repos, NEW outcome, Spawn(q, outcome)
  PROVE  NewestRuns' /\ AliveIsRemembered'
<1> DEFINE i == nextRunId
<1>1. /\ i \in Ids /\ i \in Nat /\ overlapped' = overlapped
      /\ \A r \in Repos : i \notin history[r] /\ i \notin children[r]
      /\ \A r \in Repos : \A j \in children[r] : j \in Ids /\ j < i
  BY ScriptRunnerAssumption
  DEF AliveInv, ProcInv, TypeOK, UsedIds, FreshIds, Spawn, Ids
<1>2. /\ \A j \in Ids : j # i => status'[j] = status[j] /\ proc'[j] = proc[j]
      /\ \A r \in Repos : children'[r] = IF r = q THEN children[r] \cup {i}
                                                   ELSE children[r]
      /\ \A r \in Repos \ {q} : history'[r] = history[r]
      /\ i \in history'[q] /\ history'[q] \subseteq history[q] \cup {i}
      /\ proc'[i] = "alive" => status'[i] = "running"
  BY <1>1 DEF AliveInv, ProcInv, TypeOK, Spawn, Newest
<1> HIDE DEF i
<1>3. \A r \in Repos \ {q} : Running(r)' = Running(r)
  <2> SUFFICES ASSUME NEW r \in Repos, r # q PROVE Running(r)' = Running(r)
    OBVIOUS
  <2>1. history'[r] = history[r] /\ i \notin history[r]
    BY <1>1, <1>2
  <2>2. \A j \in history[r] : status'[j] = status[j]
    BY <1>2, <2>1 DEF AliveInv, ProcInv, TypeOK
  <2> QED
    BY <2>1, <2>2 DEF Running
<1>4. q \notin overlapped =>
        /\ Running(q) = {}
        /\ \A j \in children[q] : proc[j] # "alive"
  BY SpawnsAlone DEF Spawn, AliveInv, AliveIsRemembered
<1>5. q \notin overlapped => Running(q)' \subseteq {i}
  BY <1>1, <1>2, <1>4 DEF AliveInv, ProcInv, TypeOK, Running
<1>6. NewestRuns'
  <2> SUFFICES ASSUME NEW r \in Repos \ overlapped, NEW m \in Running(r)',
                      NEW j \in children'[r]
               PROVE  j <= m
    BY <1>1 DEF NewestRuns
  <2>1. CASE r = q
    <3>1. m = i
      BY <1>1, <1>5, <2>1 DEF Running
    <3>2. j = i \/ j \in children[q]
      <4>1. children'[q] = children[q] \cup {i}
        BY <1>2
      <4> QED
        BY <2>1, <4>1
    <3>3. j \in Nat /\ j <= i
      BY <1>1, <3>2 DEF Ids
    <3> QED
      BY <3>1, <3>3
  <2>2. CASE r # q
    BY <1>2, <1>3, <2>2 DEF AliveInv, NewestRuns
  <2> QED
    BY <2>1, <2>2
<1>7. AliveIsRemembered'
  <2> SUFFICES ASSUME NEW r \in Repos \ overlapped, NEW j \in children'[r],
                      proc'[j] = "alive"
               PROVE  j \in Running(r)'
    BY <1>1 DEF AliveIsRemembered
  <2>1. CASE j = i
    <3>1. r = q
      BY <1>1, <1>2, <2>1
    <3> QED
      BY <1>2, <2>1, <3>1 DEF Running
  <2>2. CASE j # i
    <3>0. r \in Repos
      OBVIOUS
    <3>1. j \in children[r]
      <4>1. children'[r] \subseteq children[r] \cup {i}
        BY <1>2, <3>0
      <4> QED
        BY <2>2, <4>1
    <3>2. proc[j] = "alive"
      <4>1. r \in Repos /\ j \in Ids
        BY <1>1, <3>1
      <4> QED
        BY <1>2, <2>2, <4>1
    <3>3. r # q
      BY <1>4, <3>1, <3>2
    <3> QED
      BY <1>3, <3>1, <3>2, <3>3 DEF AliveInv, AliveIsRemembered
  <2> QED
    BY <2>1, <2>2
<1> QED
  BY <1>6, <1>7

\* stop signals the script whose run it ends.
LEMMA StopAlive ==
  ASSUME AliveInv, NEW q \in Repos, Stop(q)
  PROVE  AliveIsRemembered'
<1> DEFINE c == processes[q]
<1>1. PICK i \in Running(q) : status' = [status EXCEPT ![i] = "stopped"]
  BY DEF Stop, IsRunningRun
<1>2. /\ UNCHANGED <<history, children, overlapped>>
      /\ proc' = [proc EXCEPT ![c] = Signalled(@)] /\ c # NoProcess
  BY DEF Stop
<1>3. c \in children[q] /\ c \in Ids /\ i \in Ids /\ i <= c
  BY <1>2 DEF AliveInv, ProcInv, KeptIsNewest, TypeOK, Running
<1>4. proc'[c] # "alive" /\ \A j \in Ids : j # c => proc'[j] = proc[j]
  BY <1>2, <1>3 DEF AliveInv, ProcInv, TypeOK, Signalled
<1> SUFFICES ASSUME NEW r \in Repos \ overlapped, NEW j \in children[r],
                    proc'[j] = "alive"
             PROVE  j \in Running(r)'
  BY <1>2 DEF AliveIsRemembered
<1>5. j \in Ids /\ j # c /\ j \in Running(r)
  BY <1>4 DEF AliveInv, ProcInv, TypeOK, AliveIsRemembered
<1>6. j # i
  <2>1. CASE r = q
    <3>1. c <= i
      BY <1>3, <2>1 DEF AliveInv, NewestRuns
    <3> QED
      BY <1>3, <1>5, <3>1 DEF Ids
  <2>2. CASE r # q
    BY <1>1, <1>5, <2>2 DEF AliveInv, ProcInv, RunningIsAlive, OneOwner
  <2> QED
    BY <2>1, <2>2
<1> QED
  BY <1>1, <1>2, <1>5, <1>6 DEF Running, AliveInv, ProcInv, TypeOK

LEMMA ClearAlive ==
  ASSUME AliveInv, NEW q \in Repos, ClearHistory(q)
  PROVE  AliveIsRemembered'
<1>1. /\ UNCHANGED <<status, proc, children, overlapped>>
      /\ history' = [history EXCEPT ![q] = KeptByClear(q)]
  BY DEF ClearHistory
<1> SUFFICES ASSUME NEW r \in Repos \ overlapped, NEW j \in children[r],
                    proc[j] = "alive"
             PROVE  j \in Running(r)'
  BY <1>1 DEF AliveIsRemembered
<1>2. j \in Running(r)
  BY DEF AliveInv, AliveIsRemembered
<1>3. CASE r = q
  <2>1. \A m \in Running(r) : m <= j
    BY <1>2, RunsAlone DEF Running, AliveInv, ProcInv, TypeOK, Ids
  <2>2. j \in KeptByClear(q)
    BY <1>2, <1>3, <2>1 DEF KeptByClear, IsRunningRun, Running
  <2> QED
    BY <1>1, <1>2, <1>3, <2>2 DEF Running, AliveInv, ProcInv, TypeOK
<1>4. CASE r # q
  BY <1>1, <1>2, <1>4 DEF Running, AliveInv, ProcInv, TypeOK
<1> QED
  BY <1>3, <1>4

LEMMA NextAlive == AliveInv /\ [Next]_vars => AliveInv'
<1> SUFFICES ASSUME AliveInv, [Next]_vars PROVE AliveInv'
  OBVIOUS
<1>1. ProcInv'
  BY NextProcInv DEF AliveInv
<1>2. RunsBoundedByOverlap'
  BY NextBounded DEF AliveInv, ProcInv, OverlapInv
<1>3. ASSUME UNCHANGED children, overlapped \subseteq overlapped',
             \A r \in Repos : Running(r)' \subseteq Running(r)
      PROVE  NewestRuns'
  BY <1>3 DEF AliveInv, NewestRuns
<1>4. ASSUME UNCHANGED <<history, status, children>>,
             overlapped \subseteq overlapped',
             \A j \in Ids : proc'[j] = "alive" => proc[j] = "alive"
      PROVE  NewestRuns' /\ AliveIsRemembered'
  <2>1. \A r \in Repos : Running(r)' = Running(r)
    BY <1>4 DEF Running
  <2>2. NewestRuns'
    BY <1>3, <1>4, <2>1
  <2>3. AliveIsRemembered'
    BY <1>4, <2>1 DEF AliveInv, AliveIsRemembered, ProcInv, TypeOK
  <2> QED
    BY <2>2, <2>3
<1>5. ASSUME NEW r \in Repos, StartCall(r) PROVE AliveInv'
  BY <1>1, <1>2, <1>4, <1>5 DEF StartCall, AliveInv
<1>6. ASSUME NEW r \in Repos, SpawnAny(r) PROVE AliveInv'
  BY <1>1, <1>2, <1>6, SpawnAlive DEF SpawnAny, AliveInv
<1>7. ASSUME NEW r \in Repos, Stop(r) PROVE AliveInv'
  <2>1. \A q \in Repos : Running(q)' \subseteq Running(q)
    BY <1>7 DEF Stop, Running, AliveInv, ProcInv, TypeOK
  <2> QED
    BY <1>1, <1>2, <1>3, <1>7, <2>1, StopAlive DEF Stop, AliveInv
<1>8. ASSUME NEW r \in Repos, NEW c \in Ids, KillTimer(r, c) PROVE AliveInv'
  <2>1. \A j \in Ids : proc'[j] = "alive" => proc[j] = "alive"
    BY <1>8 DEF KillTimer, AliveInv, ProcInv, TypeOK
  <2> QED
    BY <1>1, <1>2, <1>4, <1>8, <2>1 DEF KillTimer, AliveInv
<1>9. ASSUME NEW c \in Ids, CloseAny(c) PROVE AliveInv'
  <2>1. PICK q \in Repos, s \in Finals : Close(q, c, s)
    BY <1>9, CloseFinal DEF CloseAny
  <2>2. /\ UNCHANGED <<history, children, overlapped>>
        /\ proc'[c] = "gone"
        /\ \A j \in Ids : j # c => proc'[j] = proc[j] /\ status'[j] = status[j]
        /\ \A j \in Ids : status'[j] = "running" => status[j] = "running"
    BY <2>1 DEF Close, AliveInv, ProcInv, TypeOK, Finals
  <2>3. \A r \in Repos : Running(r)' \subseteq Running(r)
    BY <2>2 DEF Running, AliveInv, ProcInv, TypeOK
  <2>4. AliveIsRemembered'
    BY <2>2 DEF AliveInv, AliveIsRemembered, ProcInv, TypeOK, Running
  <2> QED
    BY <1>1, <1>2, <1>3, <2>2, <2>3, <2>4 DEF AliveInv
<1>10. ASSUME NEW r \in Repos, ClearHistory(r) PROVE AliveInv'
  <2>1. \A q \in Repos : Running(q)' \subseteq Running(q)
    BY <1>10 DEF ClearHistory, KeptByClear, Running, AliveInv, ProcInv, TypeOK
  <2> QED
    BY <1>1, <1>2, <1>3, <1>10, <2>1, ClearAlive DEF ClearHistory, AliveInv
<1>11. CASE Publish \/ UNCHANGED vars
  BY <1>1, <1>2, <1>4, <1>11 DEF Publish, vars, AliveInv
<1> QED
  BY <1>5, <1>6, <1>7, <1>8, <1>9, <1>10, <1>11 DEF Next

LEMMA InitAlive == Init => AliveInv
<1> SUFFICES ASSUME Init PROVE AliveInv
  OBVIOUS
<1>1. ProcInv
  BY InitProcInv
<1>2. NewestRuns /\ AliveIsRemembered
  BY DEF Init, NewestRuns, AliveIsRemembered, Running
<1>3. RunsBoundedByOverlap
  BY InitBounded
<1> QED
  BY <1>1, <1>2, <1>3 DEF AliveInv

\* The script that runs is never forgotten, neither by clearHistory nor by the
\* cut at maxHistoryLength, in any repository whose starts did not overlap.
THEOREM AliveRemembered == Spec => []AliveIsRemembered
<1>1. AliveInv => AliveIsRemembered
  BY DEF AliveInv
<1> QED
  BY <1>1, InitAlive, NextAlive, PTL DEF Spec

-----------------------------------------------------------------------------
\* The runner implements ScriptRuns.

\* A run is in the log of the repository that gets its callbacks.
LogsOwn == \A r \in Repos : history[r] \subseteq children[r]

RunsInv == ProcInv /\ LogsOwn

LEMMA InitRunsInv == Init => RunsInv
BY InitProcInv DEF RunsInv, LogsOwn, Init

LEMMA NextRunsInv == RunsInv /\ [Next]_vars => RunsInv'
<1> SUFFICES ASSUME RunsInv, [Next]_vars PROVE LogsOwn'
  BY NextProcInv DEF RunsInv
<1>1. ASSUME NEW r \in Repos, NEW outcome, Spawn(r, outcome) PROVE LogsOwn'
  BY <1>1 DEF Spawn, Newest, RunsInv, LogsOwn, ProcInv, TypeOK
<1>2. ASSUME NEW r \in Repos, ClearHistory(r) PROVE LogsOwn'
  BY <1>2 DEF ClearHistory, RunsInv, LogsOwn, ProcInv, TypeOK
<1> QED
  BY <1>1, <1>2 DEF Next, vars, StartCall, SpawnAny, Stop, KillTimer, CloseAny,
     Close, Publish, RunsInv, LogsOwn

LEMMA FirstOne ==
  ASSUME NEW S, S \subseteq Nat, S # {}
  PROVE  \E m \in S : \A n \in S : m <= n
<1>1. PICK m \in S : \A n \in S : <<n, m>> \notin OpToRel(<, Nat)
  BY NatLessThanWellFounded, WFMin
<1>2. \A n \in S : ~ (n < m)
  BY <1>1 DEF OpToRel
<1> QED
  BY <1>2

\* The n newest runs are at most n, and newer than all others.
LEMMA NewestFew ==
  ASSUME NEW S \in SUBSET Ids, NEW n \in Nat
  PROVE  Cardinality(Newest(S, n)) <= n
<1> DEFINE T == Newest(S, n)
           above(i) == {j \in S : j > i}
<1>1. T \in SUBSET S /\ \A i \in T : Cardinality(above(i)) < n
  BY DEF Newest
<1>2. CASE T = {}
  BY <1>2, FS_EmptySet
<1>3. CASE T # {}
  <2>1. S \subseteq Nat /\ T \subseteq Nat
    <3>1. Ids \subseteq Nat
      BY ScriptRunnerAssumption DEF Ids
    <3> HIDE DEF T
    <3> QED
      BY <1>1, <3>1
  <2>2. PICK m \in T : \A i \in T : m <= i
    BY <1>3, <2>1, FirstOne
  <2>3. above(m) \in SUBSET Ids /\ T \subseteq above(m) \cup {m}
    <3>1. \A i \in T : i \in S /\ (i = m \/ i > m)
      <4> HIDE DEF T
      <4> QED
        BY <1>1, <2>1, <2>2
    <3> HIDE DEF T
    <3> QED
      BY <3>1
  <2>4. T \in SUBSET (above(m) \cup {m}) /\ above(m) \cup {m} \in SUBSET Ids
    BY <1>1, <2>2, <2>3
  <2> HIDE DEF T, above
  <2>5. Cardinality(T) <= Cardinality(above(m) \cup {m})
    BY <2>4, CountSubset
  <2>6. Cardinality(above(m) \cup {m}) <= Cardinality(above(m)) + 1
    BY <2>3, CountOneMore
  <2>7. /\ Cardinality(T) \in Nat /\ Cardinality(above(m)) \in Nat
        /\ Cardinality(above(m) \cup {m}) \in Nat
    BY <2>3, <2>4, CountSubset
  <2>8. Cardinality(above(m)) < n
    BY <1>1, <2>2
  <2>9. Cardinality(T) <= n
    BY <2>5, <2>6, <2>7, <2>8
  <2> QED
    BY <2>9 DEF T
<1> QED
  BY <1>2, <1>3

LEMMA NewestAreNewer ==
  ASSUME NEW S \in SUBSET Ids, NEW n \in Nat,
         NEW i \in Newest(S, n), NEW j \in S \ Newest(S, n)
  PROVE  j < i
<1> DEFINE above(k) == {l \in S : l > k}
<1>1. /\ i \in Nat /\ j \in Nat /\ i # j
      /\ Cardinality(above(i)) < n /\ ~ (Cardinality(above(j)) < n)
  BY DEF Newest, Ids
<1>2. above(i) \in SUBSET Ids /\ above(j) \in SUBSET Ids
  OBVIOUS
<1>3. CASE j > i
  <2>1. above(j) \in SUBSET above(i)
    <3>1. \A l \in S : l \in Nat
      BY DEF Ids
    <3>2. \A l \in S : l > j => l > i
      BY <1>1, <1>3, <3>1
    <3> QED
      BY <3>2, Zenon
  <2> HIDE DEF above
  <2>2. /\ Cardinality(above(j)) <= Cardinality(above(i))
        /\ Cardinality(above(j)) \in Nat /\ Cardinality(above(i)) \in Nat
    BY <1>2, <2>1, CountSubset
  <2> QED
    BY <1>1, <2>2
<1> QED
  BY <1>1, <1>3

\* The logs of ScriptRuns.
Logs == [r \in Repos |-> [i \in history[r] |-> status[i]]]

LEMMA LogsFacts ==
  ASSUME NEW r \in Repos
  PROVE  /\ Logs[r] = [i \in history[r] |-> status[i]]
         /\ DOMAIN Logs[r] = history[r]
         /\ \A i \in history[r] : Logs[r][i] = status[i]
BY DEF Logs

\* A step that changes the log of one repository.
LEMMA LogsChange ==
  ASSUME NEW r \in Repos, NEW log,
         [i \in history'[r] |-> status'[i]] = log,
         \A q \in Repos \ {r} : /\ history'[q] = history[q]
                                /\ \A i \in history[q] : status'[i] = status[i]
  PROVE  Logs' = [Logs EXCEPT ![r] = log]
<1>1. \A q \in Repos \ {r} : Logs'[q] = Logs[q]
  BY DEF Logs
<1>2. Logs'[r] = log
  BY DEF Logs
<1>3. /\ DOMAIN Logs' = Repos /\ DOMAIN Logs = Repos
      /\ Logs' = [q \in Repos |-> Logs'[q]]
  BY DEF Logs
<1> QED
  BY <1>1, <1>2, <1>3

\* A run that changes is in no other log.
LEMMA OtherLogs ==
  ASSUME RunsInv, NEW q \in Repos, NEW r \in Repos, q # r, NEW i \in history[r]
  PROVE  i \notin history[q]
BY DEF RunsInv, LogsOwn, ProcInv, OneOwner

LEMMA SameCardinality == \A S : Runs!Cardinality(S) = Cardinality(S)
BY DEF Runs!Cardinality, Cardinality

LEMMA SpawnRefines ==
  ASSUME RunsInv, NEW r \in Repos, NEW outcome, Spawn(r, outcome)
  PROVE  Runs!Next
<1> DEFINE i == nextRunId
           kept == Newest(history[r], MaxHistory - 1)
<1>1. /\ i \in Ids /\ i \in Nat /\ nextRunId' = i + 1 /\ shown' = shown
      /\ history' = [history EXCEPT ![r] = {i} \cup kept]
      /\ \A j \in Ids \ {i} : status'[j] = status[j]
      /\ status'[i] \in {"running"} \cup Finals
  <2>1. i \in Ids /\ i \in Nat /\ nextRunId' = i + 1 /\ shown' = shown
    BY ScriptRunnerAssumption DEF Spawn, RunsInv, ProcInv, TypeOK, Ids
  <2>2. history' = [history EXCEPT ![r] = {i} \cup kept]
    BY DEF Spawn
  <2>3. /\ \A j \in Ids \ {i} : status'[j] = status[j]
        /\ status'[i] \in {"running"} \cup Finals
    BY <2>1 DEF Spawn, RunsInv, ProcInv, TypeOK, Finals
  <2> HIDE DEF i, kept
  <2> QED
    BY <2>1, <2>2, <2>3
<1>2. \A q \in Repos : history[q] \in SUBSET Ids /\ i \notin history[q]
  BY <1>1 DEF RunsInv, ProcInv, TypeOK, UsedIds
<1>3. MaxHistory - 1 \in Nat
  BY ScriptRunnerAssumption
<1>4. /\ kept \in SUBSET history[r] /\ Cardinality(kept) < MaxHistory
      /\ \A k \in kept, j \in history[r] \ kept : j < k
  <2>1. kept \in SUBSET history[r]
    BY DEF Newest
  <2>2. Cardinality(kept) <= MaxHistory - 1
    BY <1>2, <1>3, NewestFew
  <2>3. Cardinality(kept) \in Nat
    BY <1>2, <2>1, CountSubset
  <2>4. Cardinality(kept) < MaxHistory
    BY <2>2, <2>3, ScriptRunnerAssumption
  <2>5. \A k \in kept, j \in history[r] \ kept : j < k
    BY <1>2, <1>3, NewestAreNewer
  <2> QED
    BY <2>1, <2>4, <2>5
<1> HIDE DEF kept
<1> PICK s \in {"running"} \cup Finals : s = status'[i]
  BY <1>1
<1> DEFINE log == [j \in kept \cup {i} |-> IF j = i THEN s ELSE Logs[r][j]]
<1>5. [j \in history'[r] |-> status'[j]] = log
  <2>1. history'[r] = kept \cup {i}
    BY <1>1 DEF RunsInv, ProcInv, TypeOK
  <2>2. \A j \in kept : j # i /\ status'[j] = status[j] /\ Logs[r][j] = status[j]
    BY <1>1, <1>2, <1>4, LogsFacts
  <2> QED
    BY <2>1, <2>2
<1>6. \A q \in Repos \ {r} : /\ history'[q] = history[q]
                             /\ \A j \in history[q] : status'[j] = status[j]
  BY <1>1, <1>2 DEF RunsInv, ProcInv, TypeOK
<1>7. Logs' = [Logs EXCEPT ![r] = log]
  BY <1>5, <1>6, LogsChange
<1>8. nextRunId' - 1 = i /\ (i - 1) + 1 = i
  BY <1>1
<1>9. Runs!Begin(r, s)
  <2>1. Runs!Log(r) = history[r]
    BY DEF Runs!Log
  <2>2. Runs!Cardinality(kept) < MaxHistory
    BY <1>4, SameCardinality
  <2>3. Logs' = [Logs EXCEPT ![r] =
                   [j \in kept \cup {(nextRunId - 1)'} |->
                      IF j = (nextRunId - 1)' THEN s ELSE Logs[r][j]]]
    BY <1>7, <1>8
  <2>4. (nextRunId - 1)' = (nextRunId - 1) + 1
    BY <1>8
  <2> HIDE DEF log
  <2> QED
    BY <1>1, <1>4, <2>1, <2>2, <2>3, <2>4, Zenon DEF Runs!Begin, Logs
<1> QED
  BY <1>9 DEF Runs!Next

\* stop and close end one run.
LEMMA EndRefines ==
  ASSUME RunsInv, NEW r \in Repos, NEW i \in history[r], NEW s \in Finals,
         status[i] = "running", status' = [status EXCEPT ![i] = s],
         UNCHANGED <<nextRunId, history, shown>>
  PROVE  Runs!Next
<1>1. i \in Ids /\ \A j \in Ids : status'[j] = IF j = i THEN s ELSE status[j]
  BY DEF RunsInv, ProcInv, TypeOK
<1>2. \A q \in Repos : history[q] \in SUBSET Ids
  BY DEF RunsInv, ProcInv, TypeOK
<1>3. [j \in history'[r] |-> status'[j]] = [Logs[r] EXCEPT ![i] = s]
  <2>1. \A j \in history[r] : status'[j] = [Logs[r] EXCEPT ![i] = s][j]
    BY <1>1, <1>2, LogsFacts
  <2> QED
    BY <2>1, LogsFacts
<1>4. \A q \in Repos \ {r} : /\ history'[q] = history[q]
                             /\ \A j \in history[q] : status'[j] = status[j]
  BY <1>1, <1>2, OtherLogs
<1>5. Logs' = [Logs EXCEPT ![r] = [Logs[r] EXCEPT ![i] = s]]
  BY <1>3, <1>4, LogsChange
<1>6. Runs!End(r, i, s)
  BY <1>5, LogsFacts DEF Runs!End, Logs
<1> QED
  BY <1>6, LogsFacts DEF Runs!Next, Runs!Log, Logs

LEMMA ClearHistoryRefines ==
  ASSUME RunsInv, NEW r \in Repos, ClearHistory(r)
  PROVE  Runs!Next
<1> DEFINE kept == KeptByClear(r)
<1>1. /\ kept \in SUBSET {i \in history[r] : status[i] = "running"}
      /\ history' = [history EXCEPT ![r] = kept]
      /\ UNCHANGED <<nextRunId, status, shown>>
  BY DEF ClearHistory, IsRunningRun, Running
<1>2. kept = {} => \A i \in history[r] : status[i] # "running"
  <2> SUFFICES ASSUME Running(r) # {} PROVE kept # {}
    BY DEF Running
  <2>1. Running(r) \in SUBSET Ids
    BY DEF Running, RunsInv, ProcInv, TypeOK
  <2>2. PICK m \in Running(r) : \A j \in Running(r) : j <= m
    <3> DEFINE T == {MaxRuns - j : j \in Running(r)}
    <3>1. \A j \in Running(r) : MaxRuns - j \in Nat
      BY <2>1, ScriptRunnerAssumption DEF Ids
    <3>2. T \subseteq Nat /\ T # {}
      BY <3>1
    <3>3. PICK l \in T : \A n \in T : l <= n
      BY <3>2, FirstOne
    <3>4. PICK m \in Running(r) : l = MaxRuns - m
      BY <3>3
    <3>5. \A j \in Running(r) : MaxRuns - m <= MaxRuns - j
      BY <3>3, <3>4
    <3>6. \A j \in Running(r) : j <= m
      BY <2>1, <3>5, ScriptRunnerAssumption DEF Ids
    <3> QED
      BY <3>6
  <2>3. m \in kept
    BY <2>2 DEF IsRunningRun, Running
  <2> QED
    BY <2>3
<1> HIDE DEF kept
<1>3. [i \in history'[r] |-> status'[i]] = [i \in kept |-> Logs[r][i]]
  <2>1. history'[r] = kept
    BY <1>1 DEF RunsInv, ProcInv, TypeOK
  <2>2. \A i \in kept : Logs[r][i] = status'[i]
    BY <1>1, LogsFacts
  <2> QED
    BY <2>1, <2>2
<1>4. \A q \in Repos \ {r} : /\ history'[q] = history[q]
                             /\ \A i \in history[q] : status'[i] = status[i]
  BY <1>1 DEF RunsInv, ProcInv, TypeOK
<1>5. Logs' = [Logs EXCEPT ![r] = [i \in kept |-> Logs[r][i]]]
  BY <1>3, <1>4, LogsChange
<1>6. Runs!Forget(r)
  BY <1>1, <1>2, <1>5, LogsFacts DEF Runs!Forget, Runs!Log, Logs
<1> QED
  BY <1>6 DEF Runs!Next

LEMMA StutterRefines ==
  ASSUME UNCHANGED <<nextRunId, history, status, shown>>
  PROVE  UNCHANGED Runs!vars
BY DEF Runs!vars

LEMMA StepRefines == RunsInv /\ [Next]_vars => [Runs!Next]_(Runs!vars)
<1> SUFFICES ASSUME RunsInv, [Next]_vars PROVE Runs!Next \/ UNCHANGED Runs!vars
  OBVIOUS
<1>1. ASSUME NEW r \in Repos, Stop(r) PROVE Runs!Next
  BY <1>1, EndRefines DEF Stop, IsRunningRun, Running, Finals
<1>2. ASSUME NEW c \in Ids, CloseAny(c) PROVE Runs!Next \/ UNCHANGED Runs!vars
  <2>1. PICK r \in Repos, s \in Finals : Close(r, c, s)
    BY <1>2, CloseFinal DEF CloseAny
  <2>2. CASE StillRunning(r, c)
    BY <2>1, <2>2, EndRefines DEF Close
  <2>3. CASE ~StillRunning(r, c)
    BY <2>1, <2>3, StutterRefines DEF Close
  <2> QED
    BY <2>2, <2>3
<1>3. ASSUME Publish PROVE Runs!Next
  <2>1. View = Runs!Picture
    <3> DEFINE pairs(r) == {<<i, status[i]>> : i \in history[r]}
    <3>1. \A r \in Repos :
            {<<i, [q \in Repos |-> [j \in history[q] |-> status[j]]][r][i]>> :
               i \in Runs!Log(r)} = pairs(r)
      <4>1. \A r \in Repos : Runs!Log(r) = history[r]
        BY DEF Runs!Log
      <4>2. \A r \in Repos : \A i \in history[r] :
             [q \in Repos |-> [j \in history[q] |-> status[j]]][r][i] = status[i]
        OBVIOUS
      <4> QED
        BY <4>1, <4>2
    <3>2. \A x : x \in Runs!Picture <=> \E r \in Repos : x \in
            {<<i, [q \in Repos |-> [j \in history[q] |-> status[j]]][r][i]>> :
               i \in Runs!Log(r)}
      BY Zenon DEF Runs!Picture
    <3>3. \A x : x \in View <=> \E r \in Repos : x \in pairs(r)
      BY DEF View
    <3> HIDE DEF pairs
    <3>4. \A x : x \in View <=> x \in Runs!Picture
      BY <3>1, <3>2, <3>3, Zenon
    <3> QED
      BY <3>4, Zenon DEF View, Runs!Picture
  <2> QED
    BY <1>3, <2>1 DEF Publish, Runs!Next, Runs!Show
<1> QED
  BY <1>1, <1>2, <1>3, SpawnRefines, ClearHistoryRefines, StutterRefines
  DEF Next, vars, StartCall, SpawnAny, KillTimer

\* Whatever starts, stops, exits and timers overlap, the rest of the app sees
\* the logs of ScriptRuns.
THEOREM RunnerImplementsRuns == Spec => ImplementsRuns
<1>1. Init => Runs!Init
  BY DEF Init, Runs!Init
<1> QED
  BY <1>1, InitRunsInv, NextRunsInv, StepRefines, PTL
  DEF Spec, ImplementsRuns, Runs!Spec
=============================================================================
