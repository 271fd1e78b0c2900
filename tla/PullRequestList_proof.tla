----------------------- MODULE PullRequestList_proof ------------------------
(***************************************************************************)
(* What holds of the checks for pull requests for any repositories, any    *)
(* number of updaters and any interval and frequency, and of the statuses  *)
(* of their commits for any refs, callbacks and refreshes.                 *)
(***************************************************************************)
EXTENDS PullRequestUpdater, CommitStatuses, FiniteSetTheorems, TLAPS

\* The repository of a running updater is one that can be checked.
CheckedInv == \A u \in running : repoOf[u] \in Repos

Inv == TypeOK /\ RunsForSelection /\ CheckedInv /\ NeverIdle

-----------------------------------------------------------------------------
\* Times and counts.

LEMMA DueType ==
  ASSUME TypeOK, NEW r \in Repos, NEW t \in 0..Interval
  PROVE  Due(r, t) \in 0..Interval
<1>1. age[r] \in 0..Interval
  BY DEF TypeOK
<1> QED
  BY <1>1, UpdaterAssumption DEF Due

LEMMA CappedType ==
  ASSUME NEW n \in Nat
  PROVE  Capped(n) \in 0..MaxTimers /\ (n > 0 => Capped(n) > 0)
BY UpdaterAssumption DEF Capped

LEMMA NoTimerApart == NoTimer \in 0..NoTimer /\ NoTimer \notin 0..Interval
BY UpdaterAssumption DEF NoTimer

LEMMA TimesAreTimers == 0..Interval \subseteq 0..NoTimer
BY UpdaterAssumption DEF NoTimer

\* A timeout that is forgotten is counted among the lost ones.
LEMMA ForgottenType ==
  ASSUME TypeOK, NEW u \in Updaters, NEW rest \in Bags
  PROVE  Forgotten(u, rest) \in Bags
<1>1. CASE timer[u] = NoTimer
  BY <1>1 DEF Forgotten
<1>2. CASE timer[u] # NoTimer
  <2>1. timer[u] \in 0..Interval
    BY <1>2, UpdaterAssumption DEF TypeOK, NoTimer
  <2>2. rest[timer[u]] + 1 \in Nat
    BY <2>1, UpdaterAssumption DEF Bags
  <2>3. Capped(rest[timer[u]] + 1) \in 0..MaxTimers
    BY <2>2, CappedType
  <2> QED
    BY <1>2, <2>1, <2>3 DEF Forgotten, Bags
<1> QED
  BY <1>1, <1>2

-----------------------------------------------------------------------------
\* Starting and stopping updaters.

LEMMA InitInv == Init => Inv
<1> SUFFICES ASSUME Init PROVE Inv
  OBVIOUS
<1>1. [t \in 0..Interval |-> 0] \in Bags
  BY UpdaterAssumption DEF Bags
<1>2. TypeOK
  <2>1. lost \in [Updaters -> Bags]
    BY <1>1 DEF Init
  <2>2. timer \in [Updaters -> 0..NoTimer] /\ age \in [Repos -> 0..Interval]
    BY NoTimerApart, UpdaterAssumption DEF Init
  <2>3. waiting \in [Updaters -> 0..MaxTimers]
    BY UpdaterAssumption DEF Init
  <2> QED
    BY <2>1, <2>2, <2>3 DEF Init, TypeOK
<1> QED
  BY <1>2, UpdaterAssumption DEF Init, Inv, RunsForSelection, CheckedInv,
     NeverIdle

\* Nothing runs once the current updater was stopped.
LEMMA StopInv ==
  ASSUME Inv, StopCurrent, age' = age, refreshing' = refreshing,
         selected' \in Repos \cup {None}, selecting' \subseteq Repos,
         focused' \in BOOLEAN
  PROVE  Inv'
<1>1. running' = {} /\ current' = NoUpdater
  BY UpdaterAssumption DEF StopCurrent, Inv, RunsForSelection
<1>2. timer' \in [Updaters -> 0..NoTimer]
  BY NoTimerApart DEF StopCurrent, Cleared, Inv, TypeOK
<1>3. TypeOK'
  BY <1>1, <1>2 DEF StopCurrent, Inv, TypeOK
<1> QED
  BY <1>1, <1>3 DEF Inv, RunsForSelection, CheckedInv, NeverIdle

\* A new updater runs for the selected repository.
LEMMA StartInv ==
  ASSUME Inv, NEW r \in Repos \cup {None}, StartUpdater(r), selected' = r,
         age' = age, refreshing' = refreshing, selecting' \subseteq Repos,
         focused' \in BOOLEAN
  PROVE  Inv'
<1>1. CASE ~focused' \/ r = None
  BY <1>1, StopInv DEF StartUpdater
<1>2. CASE focused' /\ r \in Repos
  <2>1. PICK u \in Updaters :
          /\ Free(u)
          /\ current' = u
          /\ running' = (running \ {current}) \cup {u}
          /\ repoOf' = [repoOf EXCEPT ![u] = r]
          /\ timer' = [v \in Updaters |->
                         CASE v = u -> Due(r, Frequency)
                           [] v = current -> Cleared(v)[v]
                           [] OTHER -> timer[v]]
          /\ poked' = poked \ {u}
          /\ UNCHANGED <<lost, waiting>>
    BY <1>2, UpdaterAssumption DEF StartUpdater
  <2>2. running' = {u}
    BY <2>1 DEF Inv, RunsForSelection
  <2>3. Due(r, Frequency) \in 0..Interval
    BY <1>2, DueType, UpdaterAssumption DEF Inv
  <2>4. timer' \in [Updaters -> 0..NoTimer]
    <3>1. \A v \in Updaters : timer[v] \in 0..NoTimer /\ Cleared(v)[v] = NoTimer
      BY DEF Cleared, Inv, TypeOK
    <3> QED
      BY <2>1, <2>3, <3>1, NoTimerApart, TimesAreTimers
  <2>5. TypeOK'
    BY <1>2, <2>1, <2>2, <2>4 DEF Inv, TypeOK
  <2>6. repoOf'[u] = r
    BY <2>1 DEF Inv, TypeOK
  <2>7. NeverIdle'
    <3> DEFINE left(v) == CASE v = u -> Due(r, Frequency)
                            [] v = current -> Cleared(v)[v]
                            [] OTHER -> timer[v]
    <3>1. left(u) \in 0..Interval
      <4>1. u # current
        BY <2>1 DEF Free
      <4> QED
        BY <2>3, <4>1, Zenon
    <3>2. timer'[u] = left(u)
      BY <2>1, Zenon
    <3>3. timer'[u] \in 0..Interval
      BY <3>1, <3>2
    <3> QED
      BY <2>2, <3>3 DEF NeverIdle, Timeouts
  <2> QED
    BY <1>2, <2>1, <2>2, <2>5, <2>6, <2>7, UpdaterAssumption
       DEF Inv, RunsForSelection, CheckedInv
<1> QED
  BY <1>1, <1>2

-----------------------------------------------------------------------------
\* Ticks and refreshes.

\* A tick loses no timeout, and an updater that runs waits for its refresh.
LEMMA TickInv ==
  ASSUME Inv, NEW u \in Updaters, NEW fired \in BOOLEAN, NEW rest \in Bags,
         waiting[u] < MaxTimers, Tick(u, fired, rest),
         UNCHANGED <<selection, updaters, poked>>
  PROVE  Inv'
<1>1. CASE u \notin running
  <2>1. /\ lost' = [lost EXCEPT ![u] = rest]
        /\ timer' = IF fired THEN [timer EXCEPT ![u] = NoTimer] ELSE timer
        /\ UNCHANGED <<waiting, age, refreshing>>
    BY <1>1 DEF Tick, Awake
  <2>2. TypeOK'
    BY <2>1, NoTimerApart DEF Inv, TypeOK, selection, updaters
  <2>3. \A v \in running : timer'[v] = timer[v] /\ lost'[v] = lost[v]
    BY <1>1, <2>1 DEF Inv, TypeOK
  <2>4. NeverIdle'
    BY <2>1, <2>3 DEF Inv, NeverIdle, Timeouts, Lost, updaters
  <2> QED
    BY <2>2, <2>4 DEF Inv, RunsForSelection, CheckedInv, selection, updaters
<1>2. CASE u \in running
  <2> DEFINE known == IF fired THEN rest ELSE Forgotten(u, rest)
             next == IF Early(repoOf[u]) THEN Due(repoOf[u], Interval)
                     ELSE NoTimer
  <2>1. /\ lost' = [lost EXCEPT ![u] = known]
        /\ timer' = [timer EXCEPT ![u] = next]
        /\ waiting' = [waiting EXCEPT ![u] = @ + 1]
        /\ Refresh(repoOf[u])
    BY <1>2 DEF Tick, Awake
  <2>2. repoOf[u] \in Repos
    BY <1>2 DEF Inv, CheckedInv
  <2>3. known \in Bags
    BY ForgottenType DEF Inv
  <2>4. next \in 0..NoTimer
    <3>1. Due(repoOf[u], Interval) \in 0..Interval
      BY <2>2, DueType, UpdaterAssumption DEF Inv
    <3> QED
      BY <3>1, NoTimerApart, TimesAreTimers
  <2>5. waiting[u] + 1 \in 0..MaxTimers /\ waiting[u] + 1 > 0
    BY UpdaterAssumption DEF Inv, TypeOK
  <2>6. age' \in [Repos -> 0..Interval] /\ refreshing' \subseteq Repos
    BY <2>1, <2>2, UpdaterAssumption DEF Refresh, Inv, TypeOK
  <2> HIDE DEF known, next
  <2>7. TypeOK'
    BY <2>1, <2>3, <2>4, <2>5, <2>6 DEF Inv, TypeOK, selection, updaters
  <2>8. NeverIdle'
    <3>1. waiting'[u] > 0
      BY <2>1, <2>5 DEF Inv, TypeOK
    <3>2. \A v \in running \ {u} :
            timer'[v] = timer[v] /\ lost'[v] = lost[v] /\ waiting'[v] = waiting[v]
      BY <2>1 DEF Inv, TypeOK
    <3> QED
      BY <3>1, <3>2 DEF Inv, NeverIdle, Timeouts, Lost, updaters
  <2> QED
    BY <2>7, <2>8 DEF Inv, RunsForSelection, CheckedInv, selection, updaters
<1> QED
  BY <1>1, <1>2

LEMMA LostFiresInv ==
  ASSUME Inv, NEW u \in Updaters, LostFires(u)
  PROVE  Inv'
<1>1. [lost[u] EXCEPT ![0] = @ - 1] \in Bags
  <2>1. lost[u] \in Bags /\ 0 \in 0..Interval
    BY UpdaterAssumption DEF Inv, TypeOK
  <2>2. lost[u][0] - 1 \in 0..MaxTimers
    BY <2>1, UpdaterAssumption DEF LostFires, Bags
  <2> QED
    BY <2>1, <2>2 DEF Bags
<1> QED
  BY <1>1, TickInv DEF LostFires

\* All that waited for a refresh schedule the next check.
LEMMA RefreshEndsInv ==
  ASSUME Inv, NEW r \in Repos, RefreshEnds(r)
  PROVE  Inv'
<1> DEFINE d == Due(r, Interval)
           next == {u \in Updaters : repoOf[u] = r /\ waiting[u] > 0 /\ NextTick(u)}
<1>1. d \in 0..Interval
  BY DueType, UpdaterAssumption DEF Inv
<1>2. \A u \in next : AllScheduled(u, d) \in Bags
  <2> SUFFICES ASSUME NEW u \in next PROVE AllScheduled(u, d) \in Bags
    OBVIOUS
  <2>1. Forgotten(u, lost[u]) \in Bags
    BY ForgottenType DEF Inv, TypeOK
  <2>2. Forgotten(u, lost[u])[d] \in Nat
    BY <1>1, <2>1, UpdaterAssumption DEF Bags
  <2>3. waiting[u] - 1 \in Nat
    BY UpdaterAssumption DEF Inv, TypeOK
  <2>4. Forgotten(u, lost[u])[d] + waiting[u] - 1 \in Nat
    <3>1. waiting[u] \in Nat
      BY UpdaterAssumption DEF Inv, TypeOK
    <3> HIDE DEF d
    <3> QED
      BY <2>2, <2>3, <3>1
  <2>5. Capped(Forgotten(u, lost[u])[d] + waiting[u] - 1) \in 0..MaxTimers
    BY <2>4, CappedType
  <2> HIDE DEF d
  <2> QED
    BY <1>1, <2>1, <2>5 DEF AllScheduled, Bags
<1>3. /\ refreshing' = refreshing \ {r}
      /\ timer' = [u \in Updaters |-> IF u \in next THEN d ELSE timer[u]]
      /\ lost' = [u \in Updaters |->
                    IF u \in next THEN AllScheduled(u, d) ELSE lost[u]]
      /\ waiting' = [u \in Updaters |-> IF repoOf[u] = r THEN 0 ELSE waiting[u]]
      /\ UNCHANGED <<selection, updaters, age, poked>>
  BY DEF RefreshEnds
<1>4. TypeOK'
  <2>1. timer' \in [Updaters -> 0..NoTimer]
    BY <1>1, <1>3, TimesAreTimers DEF Inv, TypeOK
  <2>2. lost' \in [Updaters -> Bags]
    BY <1>2, <1>3 DEF Inv, TypeOK
  <2>3. waiting' \in [Updaters -> 0..MaxTimers]
    BY <1>3, UpdaterAssumption DEF Inv, TypeOK
  <2> QED
    BY <1>3, <2>1, <2>2, <2>3 DEF Inv, TypeOK, selection, updaters
<1>5. NeverIdle'
  <2> SUFFICES ASSUME NEW u \in running
               PROVE  Timeouts(u)' # {} \/ waiting'[u] > 0
    BY <1>3 DEF NeverIdle, updaters
  <2>1. u \in Updaters
    BY DEF Inv, TypeOK
  <2>2. CASE u \in next
    BY <1>1, <1>3, <2>1, <2>2 DEF Timeouts
  <2>3. CASE u \notin next
    <3>1. timer'[u] = timer[u] /\ lost'[u] = lost[u]
      BY <1>3, <2>1, <2>3
    <3>2. waiting'[u] = waiting[u] \/ ~(waiting[u] > 0)
      BY <1>3, <2>1, <2>3 DEF NextTick
    <3> QED
      BY <3>1, <3>2 DEF Inv, NeverIdle, Timeouts, Lost
  <2> QED
    BY <2>2, <2>3
<1> QED
  BY <1>3, <1>4, <1>5 DEF Inv, RunsForSelection, CheckedInv, selection, updaters

\* Timeouts come closer, and none disappears.
LEMMA TimePassesInv ==
  ASSUME Inv, TimePasses
  PROVE  Inv'
<1>1. \A u \in Updaters, t \in 0..Interval :
        /\ lost[u][t] \in 0..MaxTimers
        /\ lost'[u][t] = Capped((IF t = 0 THEN lost[u][0] ELSE 0)
                            + (IF t = Interval THEN 0 ELSE lost[u][t + 1]))
  BY DEF TimePasses, Inv, TypeOK, Bags
<1>2. ASSUME NEW u \in Updaters, NEW t \in 0..Interval
      PROVE  /\ (IF t = 0 THEN lost[u][0] ELSE 0) \in Nat
             /\ (IF t = Interval THEN 0 ELSE lost[u][t + 1]) \in Nat
  <2>1. t # Interval => t + 1 \in 0..Interval
    BY UpdaterAssumption
  <2> QED
    BY <1>1, <2>1, UpdaterAssumption
<1>3. \A u \in Updaters, t \in 0..Interval : lost'[u][t] \in 0..MaxTimers
  BY <1>1, <1>2, CappedType
<1>4. lost' \in [Updaters -> Bags]
  <2>1. \A u \in Updaters : lost'[u] \in Bags
    <3> SUFFICES ASSUME NEW u \in Updaters PROVE lost'[u] \in Bags
      OBVIOUS
    <3>1. lost'[u] = [t \in 0..Interval |-> lost'[u][t]]
      BY DEF TimePasses
    <3> QED
      BY <1>3, <3>1 DEF Bags
  <2> QED
    BY <2>1 DEF TimePasses
<1>5. timer' \in [Updaters -> 0..NoTimer]
  BY UpdaterAssumption DEF TimePasses, Inv, TypeOK, NoTimer
<1>6. age' \in [Repos -> 0..Interval]
  BY UpdaterAssumption DEF TimePasses, Inv, TypeOK
<1>7. TypeOK'
  BY <1>4, <1>5, <1>6 DEF TimePasses, Inv, TypeOK, selection, updaters
<1>8. NeverIdle'
  <2> SUFFICES ASSUME NEW u \in running, waiting[u] = 0 \/ ~(waiting[u] > 0)
               PROVE  Timeouts(u)' # {}
    BY DEF TimePasses, NeverIdle, updaters
  <2>1. u \in Updaters
    BY DEF Inv, TypeOK
  <2>2. PICK t \in 0..Interval : t = timer[u] \/ lost[u][t] > 0
    BY <2>1 DEF Inv, NeverIdle, Timeouts, Lost
  <2>3. CASE t = timer[u]
    <3>1. timer'[u] \in 0..Interval
      BY <2>1, <2>3, UpdaterAssumption DEF TimePasses
    <3> QED
      BY <3>1 DEF Timeouts
  <2>4. CASE lost[u][t] > 0
    <3>1. PICK c \in 0..Interval : t = c + 1 \/ (t = 0 /\ c = 0)
      <4>1. CASE t = 0
        BY <4>1
      <4>2. CASE t # 0
        <5>1. t - 1 \in 0..Interval /\ t = (t - 1) + 1
          BY <4>2, UpdaterAssumption
        <5> QED
          BY <5>1
      <4> QED
        BY <4>1, <4>2
    <3> DEFINE here == IF c = 0 THEN lost[u][0] ELSE 0
               there == IF c = Interval THEN 0 ELSE lost[u][c + 1]
    <3>2. here \in Nat /\ there \in Nat
      BY <1>2, <2>1
    <3>3. here > 0 \/ there > 0
      BY <2>4, <3>1, UpdaterAssumption
    <3>4. lost'[u][c] = Capped(here + there)
      BY <1>1, <2>1
    <3> HIDE DEF here, there
    <3>5. here + there \in Nat /\ here + there > 0
      BY <3>2, <3>3
    <3>6. lost'[u][c] > 0
      BY <3>4, <3>5, CappedType
    <3> QED
      BY <3>6 DEF Timeouts, Lost
  <2> QED
    BY <2>2, <2>3, <2>4
<1> QED
  BY <1>7, <1>8 DEF TimePasses, Inv, RunsForSelection, CheckedInv, selection,
     updaters

LEMMA NextInv == Inv /\ [Next]_vars => Inv'
<1> SUFFICES ASSUME Inv, [Next]_vars PROVE Inv'
  OBVIOUS
<1>1. CASE UNCHANGED vars
  BY <1>1 DEF vars, selection, updaters, timeouts, Inv, TypeOK, RunsForSelection,
     CheckedInv, NeverIdle, Timeouts, Lost
<1>2. ASSUME NEW r \in Repos \cup {None}, Select(r) PROVE Inv'
  <2>1. selecting' \subseteq Repos
    BY <1>2 DEF Select, Inv, TypeOK
  <2> QED
    BY <1>2, <2>1, StopInv DEF Select, Deselected, Inv, TypeOK
<1>3. ASSUME NEW r \in Repos, SelectEnds(r) PROVE Inv'
  <2>1. /\ selecting' \subseteq Repos /\ focused' \in BOOLEAN
        /\ UNCHANGED <<selected, focused, age, refreshing>>
    BY <1>3 DEF SelectEnds, Inv, TypeOK
  <2>2. CASE UNCHANGED <<updaters, timeouts, poked>>
    BY <2>1, <2>2 DEF updaters, timeouts, Inv, TypeOK, RunsForSelection,
       CheckedInv, NeverIdle, Timeouts, Lost
  <2>3. CASE StillSelected(r) /\ StartUpdater(r)
    BY <2>1, <2>3, StartInv DEF StillSelected
  <2> QED
    BY <1>3, <2>2, <2>3 DEF SelectEnds
<1>4. CASE Focus
  <2>1. /\ focused' = TRUE
        /\ UNCHANGED <<selected, selecting, age, refreshing>>
    BY <1>4 DEF Focus
  <2>2. CASE selected = None
    BY <1>4, <2>1, <2>2 DEF Focus, updaters, timeouts, Inv, TypeOK,
       RunsForSelection, CheckedInv, NeverIdle, Timeouts, Lost
  <2>3. CASE selected # None
    BY <1>4, <2>1, <2>3, StartInv DEF Focus, Inv, TypeOK
  <2> QED
    BY <2>2, <2>3
<1>5. CASE Blur
  BY <1>5, StopInv DEF Blur, Inv, TypeOK
<1>6. CASE UserRefreshes
  <2>1. age' \in [Repos -> 0..Interval] /\ refreshing' \subseteq Repos
    BY <1>6, UpdaterAssumption DEF UserRefreshes, Refresh, Inv, TypeOK
  <2> QED
    BY <1>6, <2>1 DEF UserRefreshes, selection, updaters, timeouts, Inv, TypeOK,
       RunsForSelection, CheckedInv, NeverIdle, Timeouts, Lost
<1>7. ASSUME NEW u \in Updaters, KnownFires(u) PROVE Inv'
  BY <1>7, TickInv DEF KnownFires, Inv, TypeOK
<1> QED
  BY <1>1, <1>2, <1>3, <1>4, <1>5, <1>6, <1>7, LostFiresInv, RefreshEndsInv,
     TimePassesInv DEF Next

-----------------------------------------------------------------------------

\* Every variable stays in its type: timeouts are never negative or further
\* away than an interval.
THEOREM TypeCorrect == Spec => []TypeOK
<1>1. Inv => TypeOK
  BY DEF Inv
<1> QED
  BY <1>1, InitInv, NextInv, PTL DEF Spec

\* No updater but the current one runs, and that one for the selected
\* repository of a window that has the focus.
THEOREM AlwaysRunsForSelection == Spec => []RunsForSelection
<1>1. Inv => RunsForSelection
  BY DEF Inv
<1> QED
  BY <1>1, InitInv, NextInv, PTL DEF Spec

\* A running updater never runs out of timeouts and refreshes.
THEOREM IsNeverIdle == Spec => []NeverIdle
<1>1. Inv => NeverIdle
  BY DEF Inv
<1> QED
  BY <1>1, InitInv, NextInv, PTL DEF Spec

\* Only an updater that runs asks for a check.
THEOREM AlwaysQuietOnceStopped == Spec => StoppedIsQuiet
<1> DEFINE Quiet == \A u \in Updaters : Begins(u) => u \in running
<1>1. Inv /\ [Next]_vars => [Quiet]_vars
  <2> SUFFICES ASSUME Inv, Next, NEW u \in Updaters, Begins(u), u \notin running
               PROVE  FALSE
    BY DEF vars
  <2>1. waiting[u] \in Nat
    BY UpdaterAssumption DEF Inv, TypeOK
  <2>2. waiting'[u] # waiting[u] /\ waiting'[u] # 0
    BY <2>1, UpdaterAssumption DEF Begins
  <2>3. ASSUME NEW v \in Updaters, KnownFires(v) \/ LostFires(v) PROVE FALSE
    BY <2>2, <2>3 DEF KnownFires, LostFires, Tick, Awake, Inv, TypeOK
  <2>4. ASSUME NEW r \in Repos, RefreshEnds(r) PROVE FALSE
    BY <2>2, <2>4 DEF RefreshEnds
  <2>5. ASSUME NEW r, Select(r) \/ (r \in Repos /\ SelectEnds(r)) PROVE FALSE
    BY <2>2, <2>5 DEF Select, Deselected, SelectEnds, StartUpdater, StopCurrent,
       timeouts
  <2>6. CASE Focus \/ Blur
    BY <2>2, <2>6 DEF Focus, Blur, StartUpdater, StopCurrent, timeouts
  <2>7. CASE UserRefreshes \/ TimePasses
    BY <2>2, <2>7 DEF UserRefreshes, TimePasses, timeouts
  <2> QED
    BY <2>3, <2>4, <2>5, <2>6, <2>7 DEF Next
<1> QED
  BY <1>1, InitInv, NextInv, PTL DEF Spec, StoppedIsQuiet

-----------------------------------------------------------------------------
\* Why one timeout is enough, until the user refreshes.

\* An updater that saw no refresh of the user has one timeout or waits for one
\* refresh, and while it runs its timeout is not due before the next check is.
Spaced(u) ==
  /\ lost[u] = NoLost
  /\ waiting[u] \in {0, 1}
  /\ timer[u] # NoTimer => waiting[u] = 0
  /\ u \in running /\ timer[u] # NoTimer =>
       age[repoOf[u]] + timer[u] >= Frequency

SpacedInv == \A u \in Updaters \ poked : Spaced(u)

FullInv == Inv /\ SpacedInv

\* A timeout that scheduleTick sets is due when enough time has passed.
LEMMA DueIsLate ==
  ASSUME TypeOK, NEW r \in Repos, NEW t \in Frequency..Interval
  PROVE  age[r] + Due(r, t) >= Frequency
<1>1. age[r] \in 0..Interval
  BY DEF TypeOK
<1> QED
  BY <1>1, UpdaterAssumption DEF Due

LEMMA InitFull == Init => FullInv
BY InitInv, UpdaterAssumption DEF Init, FullInv, SpacedInv, Spaced, NoLost

\* To stop the current updater leaves one timeout less.
LEMMA StopSpaced ==
  ASSUME FullInv, StopCurrent
  PROVE  SpacedInv'
<1>1. running' = {}
  BY UpdaterAssumption DEF StopCurrent, FullInv, Inv, RunsForSelection
<1>2. \A u \in Updaters : timer'[u] = timer[u] \/ timer'[u] = NoTimer
  BY DEF StopCurrent, Cleared, FullInv, Inv, TypeOK
<1> QED
  BY <1>1, <1>2 DEF StopCurrent, FullInv, SpacedInv, Spaced

LEMMA StartSpaced ==
  ASSUME FullInv, NEW r \in Repos \cup {None}, StartUpdater(r), age' = age
  PROVE  SpacedInv'
<1>1. CASE ~focused' \/ r = None
  BY <1>1, StopSpaced DEF StartUpdater
<1>2. CASE focused' /\ r \in Repos
  <2>1. PICK u \in Updaters :
          /\ Free(u)
          /\ running' = (running \ {current}) \cup {u}
          /\ repoOf' = [repoOf EXCEPT ![u] = r]
          /\ timer' = [v \in Updaters |->
                         CASE v = u -> Due(r, Frequency)
                           [] v = current -> Cleared(v)[v]
                           [] OTHER -> timer[v]]
          /\ poked' = poked \ {u}
          /\ UNCHANGED <<lost, waiting>>
    BY <1>2, UpdaterAssumption DEF StartUpdater
  <2>2. running' = {u}
    BY <2>1 DEF FullInv, Inv, RunsForSelection
  <2> DEFINE left(v) == CASE v = u -> Due(r, Frequency)
                          [] v = current -> Cleared(v)[v]
                          [] OTHER -> timer[v]
  <2>3. \A v \in Updaters : timer'[v] = left(v)
    BY <2>1, Zenon
  <2>4. timer'[u] = Due(r, Frequency)
    <3>1. u # current
      BY <2>1 DEF Free
    <3>2. left(u) = Due(r, Frequency)
      BY <3>1, Zenon
    <3> QED
      BY <2>3, <3>2
  <2>5. ASSUME NEW v \in Updaters \ {u}
        PROVE  timer'[v] = timer[v] \/ timer'[v] = NoTimer
    <3>1. Cleared(v)[v] = NoTimer
      BY DEF Cleared, FullInv, Inv, TypeOK
    <3>2. left(v) = timer[v] \/ left(v) = NoTimer
      BY <2>5, <3>1
    <3> QED
      BY <2>3, <3>2
  <2> HIDE DEF left
  <2>6. Spaced(u)'
    <3>1. age[r] + Due(r, Frequency) >= Frequency
      BY <1>2, DueIsLate, UpdaterAssumption DEF FullInv, Inv
    <3>2. repoOf'[u] = r
      BY <2>1 DEF FullInv, Inv, TypeOK
    <3> QED
      BY <2>1, <2>4, <3>1, <3>2 DEF Free, Spaced, NoLost
  <2>7. ASSUME NEW v \in Updaters \ {u}, v \notin poked' PROVE Spaced(v)'
    <3>1. Spaced(v)
      BY <2>1, <2>7 DEF FullInv, SpacedInv
    <3>2. v \notin running'
      BY <2>2, <2>7
    <3> QED
      BY <2>1, <2>5, <2>7, <3>1, <3>2 DEF Spaced, NoLost
  <2> QED
    BY <2>6, <2>7 DEF SpacedInv
<1> QED
  BY <1>1, <1>2

\* The timeout of an updater finds a check that is old enough.
LEMMA KnownFiresSpaced ==
  ASSUME FullInv, NEW u \in Updaters, KnownFires(u)
  PROVE  /\ SpacedInv'
         /\ u \notin poked /\ u \in running => age[repoOf[u]] >= Frequency
<1>1. /\ timer[u] = 0 /\ Tick(u, TRUE, lost[u])
      /\ UNCHANGED <<selection, updaters, poked>>
  BY DEF KnownFires
<1>2. timer[u] # NoTimer
  BY <1>1, NoTimerApart, UpdaterAssumption DEF NoTimer
<1>3. ASSUME u \notin poked, u \in running
      PROVE  age[repoOf[u]] >= Frequency
  <2>1. repoOf[u] \in Repos
    BY <1>3 DEF FullInv, Inv, CheckedInv
  <2>2. age[repoOf[u]] \in Nat
    BY <2>1, UpdaterAssumption DEF FullInv, Inv, TypeOK
  <2> QED
    BY <1>1, <1>2, <1>3, <2>2 DEF FullInv, SpacedInv, Spaced
<1>4. CASE u \notin running
  <2>1. /\ lost' = [lost EXCEPT ![u] = lost[u]]
        /\ timer' = [timer EXCEPT ![u] = NoTimer]
        /\ UNCHANGED <<waiting, age, refreshing>>
    BY <1>1, <1>4 DEF Tick, Awake
  <2> QED
    BY <1>1, <1>3, <2>1 DEF FullInv, Inv, TypeOK, SpacedInv, Spaced, NoLost,
       updaters
<1>5. CASE u \in running
  <2>1. /\ lost' = [lost EXCEPT ![u] = lost[u]]
        /\ timer' = [timer EXCEPT ![u] = IF Early(repoOf[u])
                       THEN Due(repoOf[u], Interval) ELSE NoTimer]
        /\ waiting' = [waiting EXCEPT ![u] = @ + 1]
    BY <1>1, <1>5 DEF Tick, Awake
  <2>2. lost' = lost /\ \A v \in Updaters \ {u} :
          timer'[v] = timer[v] /\ waiting'[v] = waiting[v] /\ v \notin running
    BY <1>5, <2>1 DEF FullInv, Inv, TypeOK, RunsForSelection
  <2>3. ASSUME u \notin poked PROVE Spaced(u)'
    <3>1. repoOf[u] \in Repos
      BY <1>5 DEF FullInv, Inv, CheckedInv
    <3>2. age[repoOf[u]] \in Nat
      BY <3>1, UpdaterAssumption DEF FullInv, Inv, TypeOK
    <3>3. ~Early(repoOf[u])
      BY <1>3, <1>5, <2>3, <3>2, UpdaterAssumption DEF Early
    <3>4. timer'[u] = NoTimer
      BY <2>1, <3>3 DEF FullInv, Inv, TypeOK
    <3>5. waiting'[u] = 1 /\ lost[u] = NoLost
      BY <1>2, <2>1, <2>3 DEF FullInv, Inv, TypeOK, SpacedInv, Spaced
    <3> QED
      BY <2>2, <3>4, <3>5 DEF Spaced, NoLost
  <2>4. \A v \in Updaters \ (poked \cup {u}) : Spaced(v)'
    BY <1>1, <2>2 DEF FullInv, SpacedInv, Spaced, NoLost, updaters
  <2> QED
    BY <1>1, <1>3, <2>3, <2>4 DEF SpacedInv
<1> QED
  BY <1>4, <1>5

\* Only an updater that saw the user refresh has lost timeouts.
LEMMA LostFiresSpaced ==
  ASSUME FullInv, NEW u \in Updaters, LostFires(u)
  PROVE  u \in poked /\ SpacedInv'
<1>1. lost[u][0] > 0 /\ UNCHANGED <<selection, updaters, poked>>
  BY DEF LostFires
<1>2. u \in poked
  BY <1>1, UpdaterAssumption DEF FullInv, SpacedInv, Spaced, NoLost
<1>3. \A v \in Updaters \ {u} :
        lost'[v] = lost[v] /\ timer'[v] = timer[v] /\ waiting'[v] = waiting[v]
  BY DEF LostFires, Tick, FullInv, Inv, TypeOK
<1>4. \A v \in Updaters \ {u} : v \in running => age'[repoOf[v]] = age[repoOf[v]]
  BY DEF LostFires, Tick, Awake, FullInv, Inv, RunsForSelection
<1> QED
  BY <1>1, <1>2, <1>3, <1>4 DEF FullInv, SpacedInv, Spaced, NoLost, updaters

\* The one refresh an updater waited for leads to its one timeout.
LEMMA RefreshEndsSpaced ==
  ASSUME FullInv, NEW r \in Repos, RefreshEnds(r)
  PROVE  SpacedInv'
<1> DEFINE d == Due(r, Interval)
           next == {u \in Updaters : repoOf[u] = r /\ waiting[u] > 0 /\ NextTick(u)}
<1>1. /\ timer' = [u \in Updaters |-> IF u \in next THEN d ELSE timer[u]]
      /\ lost' = [u \in Updaters |->
                    IF u \in next THEN AllScheduled(u, d) ELSE lost[u]]
      /\ waiting' = [u \in Updaters |-> IF repoOf[u] = r THEN 0 ELSE waiting[u]]
      /\ UNCHANGED <<selection, updaters, age, poked>>
  BY DEF RefreshEnds
<1>2. d \in 0..Interval
  BY DueType, UpdaterAssumption DEF FullInv, Inv
<1>3. age[r] + d >= Frequency
  BY DueIsLate, UpdaterAssumption DEF FullInv, Inv
<1> SUFFICES ASSUME NEW u \in Updaters \ poked PROVE Spaced(u)'
  BY <1>1 DEF SpacedInv
<1>4. Spaced(u)
  BY DEF FullInv, SpacedInv
<1>5. CASE u \in next
  <2>1. waiting[u] = 1 /\ timer[u] = NoTimer /\ lost[u] = NoLost
    BY <1>4, <1>5 DEF Spaced
  <2>2. AllScheduled(u, d) = NoLost
    <3>1. Forgotten(u, lost[u]) = NoLost
      BY <2>1 DEF Forgotten
    <3> HIDE DEF d
    <3>2. Capped(NoLost[d] + waiting[u] - 1) = 0
      BY <1>2, <2>1, UpdaterAssumption DEF NoLost, Capped
    <3> QED
      BY <1>2, <3>1, <3>2 DEF AllScheduled, NoLost
  <2>3. timer'[u] = d /\ waiting'[u] = 0 /\ lost'[u] = NoLost
    BY <1>1, <1>5, <2>2
  <2> HIDE DEF d
  <2> QED
    BY <1>1, <1>3, <1>5, <2>3 DEF Spaced, NoLost, updaters
<1>6. CASE u \notin next
  BY <1>1, <1>4, <1>6 DEF Spaced, NoLost, updaters
<1> QED
  BY <1>5, <1>6

\* What a timeout comes closer, the last check gets older.
LEMMA TimePassesSpaced ==
  ASSUME FullInv, TimePasses
  PROVE  SpacedInv'
<1> SUFFICES ASSUME NEW u \in Updaters \ poked PROVE Spaced(u)'
  BY DEF TimePasses, SpacedInv
<1>1. Spaced(u)
  BY DEF FullInv, SpacedInv
<1>2. lost'[u] = NoLost
  <2>1. \A t \in 0..Interval :
          Capped((IF t = 0 THEN lost[u][0] ELSE 0)
                   + (IF t = Interval THEN 0 ELSE lost[u][t + 1])) = 0
    <3> SUFFICES ASSUME NEW t \in 0..Interval
                 PROVE  /\ (IF t = 0 THEN lost[u][0] ELSE 0) = 0
                        /\ (IF t = Interval THEN 0 ELSE lost[u][t + 1]) = 0
      BY UpdaterAssumption DEF Capped
    <3>1. t # Interval => t + 1 \in 0..Interval
      BY UpdaterAssumption
    <3> QED
      BY <1>1, <3>1, UpdaterAssumption DEF Spaced, NoLost
  <2> QED
    BY <2>1 DEF TimePasses, NoLost
<1>3. /\ timer[u] \in 0..NoTimer
      /\ timer'[u] = IF timer[u] \in 1..Interval THEN timer[u] - 1 ELSE timer[u]
  BY DEF TimePasses, FullInv, Inv, TypeOK
<1>4. timer'[u] # NoTimer => timer[u] # NoTimer
  BY <1>3, UpdaterAssumption DEF NoTimer
<1>5. ASSUME u \in running, timer'[u] # NoTimer
      PROVE  age'[repoOf[u]] + timer'[u] >= Frequency
  <2>1. repoOf[u] \in Repos
    BY <1>5 DEF FullInv, Inv, CheckedInv
  <2>2. /\ age[repoOf[u]] \in 0..Interval
        /\ age'[repoOf[u]] = IF age[repoOf[u]] < Interval
                               THEN age[repoOf[u]] + 1 ELSE age[repoOf[u]]
    BY <2>1 DEF TimePasses, FullInv, Inv, TypeOK
  <2>3. age[repoOf[u]] + timer[u] >= Frequency
    BY <1>1, <1>4, <1>5 DEF Spaced
  <2> QED
    BY <1>3, <2>2, <2>3, UpdaterAssumption DEF NoTimer
<1> QED
  BY <1>1, <1>2, <1>4, <1>5 DEF TimePasses, Spaced, NoLost, updaters

LEMMA NextFull == FullInv /\ [Next]_vars => FullInv'
<1> SUFFICES ASSUME FullInv, [Next]_vars PROVE SpacedInv'
  BY NextInv DEF FullInv
<1>1. ASSUME UNCHANGED <<updaters, timeouts, poked>>, age' = age PROVE SpacedInv'
  BY <1>1 DEF updaters, timeouts, FullInv, SpacedInv, Spaced, NoLost
<1>2. CASE UNCHANGED vars
  BY <1>1, <1>2 DEF vars
<1>3. ASSUME NEW r, Select(r) PROVE SpacedInv'
  BY <1>3, StopSpaced DEF Select, Deselected
<1>4. ASSUME NEW r \in Repos, SelectEnds(r) PROVE SpacedInv'
  BY <1>1, <1>4, StartSpaced DEF SelectEnds
<1>5. CASE Focus
  BY <1>1, <1>5, StartSpaced DEF Focus, FullInv, Inv, TypeOK
<1>6. CASE Blur
  BY <1>6, StopSpaced DEF Blur
<1>7. CASE UserRefreshes
  BY <1>7 DEF UserRefreshes, updaters, timeouts, FullInv, SpacedInv, Spaced,
     NoLost
<1> QED
  BY <1>2, <1>3, <1>4, <1>5, <1>6, <1>7, KnownFiresSpaced, LostFiresSpaced,
     RefreshEndsSpaced, TimePassesSpaced DEF Next

\* An updater has one timeout or one refresh under way, unless the user
\* refreshed meanwhile.
THEOREM AlwaysOneAtATime == Spec => []OneAtATime
<1>1. FullInv => OneAtATime
  <2> SUFFICES ASSUME FullInv, NEW u \in Updaters \ poked
               PROVE  Pending(u) <= 1 /\ Lost(u) = {}
    BY DEF OneAtATime
  <2>1. Spaced(u)
    BY DEF FullInv, SpacedInv
  <2>2. Lost(u) = {}
    BY <2>1 DEF Spaced, Lost, NoLost
  <2>3. Cardinality(Lost(u)) = 0
    BY <2>2, FS_EmptySet
  <2> QED
    BY <2>1, <2>2, <2>3 DEF Spaced, Pending
<1> QED
  BY <1>1, InitFull, NextFull, PTL DEF Spec

\* Two checks an updater asks for are at least Frequency apart, unless the user
\* refreshed meanwhile.
THEOREM AlwaysSeldomUnlessPoked == Spec => SeldomUnlessPoked
<1> DEFINE Seldom == \A u \in Updaters \ poked :
                       Begins(u) => age[repoOf[u]] >= Frequency
<1>1. FullInv /\ [Next]_vars => [Seldom]_vars
  <2> SUFFICES ASSUME FullInv, Next, NEW u \in Updaters \ poked, Begins(u)
               PROVE  age[repoOf[u]] >= Frequency
    BY DEF vars
  <2>1. waiting[u] \in Nat
    BY UpdaterAssumption DEF FullInv, Inv, TypeOK
  <2>2. waiting'[u] # waiting[u] /\ waiting'[u] # 0
    BY <2>1, UpdaterAssumption DEF Begins
  <2>3. ASSUME NEW v \in Updaters, KnownFires(v)
        PROVE  age[repoOf[u]] >= Frequency
    <3>1. v = u /\ v \in running
      BY <2>2, <2>3 DEF KnownFires, Tick, Awake, FullInv, Inv, TypeOK
    <3> QED
      BY <2>3, <3>1, KnownFiresSpaced
  <2>4. ASSUME NEW v \in Updaters, LostFires(v) PROVE FALSE
    <3>1. v \in poked
      BY <2>4, LostFiresSpaced
    <3> QED
      BY <2>2, <2>4, <3>1 DEF LostFires, Tick, FullInv, Inv, TypeOK
  <2>5. ASSUME NEW r \in Repos, RefreshEnds(r) PROVE FALSE
    BY <2>2, <2>5 DEF RefreshEnds
  <2>6. ASSUME NEW r, Select(r) \/ (r \in Repos /\ SelectEnds(r)) PROVE FALSE
    BY <2>2, <2>6 DEF Select, Deselected, SelectEnds, StartUpdater, StopCurrent,
       timeouts
  <2>7. CASE Focus \/ Blur
    BY <2>2, <2>7 DEF Focus, Blur, StartUpdater, StopCurrent, timeouts
  <2>8. CASE UserRefreshes \/ TimePasses
    BY <2>2, <2>8 DEF UserRefreshes, TimePasses, timeouts
  <2> QED
    BY <2>3, <2>4, <2>5, <2>6, <2>7, <2>8 DEF Next
<1> QED
  BY <1>1, InitFull, NextFull, PTL DEF Spec, SeldomUnlessPoked

-----------------------------------------------------------------------------
\* The statuses of commits: what the cache, the refreshes and the subscribers
\* know of one ref.

\* One refresh of a ref at a time is why answers come in order.
OneJobPerRef ==
  \A i, j \in Jobs :
    jobs[i] # Null /\ jobs[j] # Null /\ jobs[i].ref = jobs[j].ref => i = j

\* A refresh for another set than the subscription's is remembered.
RenewedInv ==
  \A j \in Fetching :
    LET s == subscriptions[jobs[j].ref] IN
      s # Null /\ s.set # jobs[j].set => jobs[j].ref \in renewed

ServerInv == \A r \in Refs : server[r] <= acts

CachedInv ==
  \A r \in Refs : Cached(r) # Null => Cached(r).version <= server[r]

\* No refresh under way finds anything older than k, if k is of the server.
NoOlder(r, k) ==
  ~k.pending => \A j \in Fetching :
                  jobs[j].ref = r => k.version <= jobs[j].since

\* What a refresh will find is no older than what is cached, unless that was
\* set to pending by hand.
SinceInv ==
  /\ \A j \in Fetching : jobs[j].since <= server[jobs[j].ref]
  /\ \A r \in Refs : Cached(r) # Null => NoOlder(r, Cached(r))

ShownInv ==
  \A c \in Callbacks :
    joined[c] # Null /\ shows[c] # Null =>
      /\ shows[c].version <= server[joined[c][1]]
      /\ NoOlder(joined[c][1], shows[c])

StatusesTypeInv == StatusesTypeOK /\ ServerInv

StatusesInv ==
  /\ StatusesTypeInv /\ OneJobPerRef /\ RenewedInv
  /\ CachedInv /\ SinceInv /\ ShownInv /\ ShowsWhatIsCached

LEMMA NullApart ==
  /\ Null \notin Subscription /\ Null \notin Refs \X Sets /\ Null \notin Check
  /\ Null \notin Entry /\ Null \notin Job
BY CommitStatusesAssumption

LEMMA FetchingType ==
  ASSUME StatusesTypeOK, NEW j \in Fetching
  PROVE  /\ j \in Jobs /\ jobs[j] \in Job /\ jobs[j] # Null
         /\ jobs[j].ref \in Refs /\ jobs[j].set \in Sets
         /\ jobs[j].branch \in BOOLEAN /\ jobs[j].since \in 0..MaxActs
         /\ jobs[j].at = "fetching"
<1>1. j \in Jobs /\ jobs[j] \in Job /\ jobs[j].at = "fetching"
  BY DEF StatusesTypeOK, Fetching
<1>2. jobs[j] \in [ref : Refs, at : {"fetching"}, set : Sets,
                   branch : BOOLEAN, since : 0..MaxActs]
  BY <1>1 DEF Job
<1> QED
  BY <1>1, <1>2, NullApart

LEMMA JobRef ==
  ASSUME StatusesTypeOK, NEW j \in Jobs, jobs[j] # Null
  PROVE  jobs[j].ref \in Refs /\ jobs[j] \in Job
BY DEF StatusesTypeOK, Job

LEMMA CachedType ==
  ASSUME StatusesTypeOK, NEW r \in Refs
  PROVE  /\ Cached(r) \in Check \cup {Null}
         /\ cache[r] # Null => cache[r] \in Entry
BY DEF StatusesTypeOK, Cached, Entry

LEMMA JoinedType ==
  ASSUME StatusesTypeOK, NEW c \in Callbacks, joined[c] # Null
  PROVE  /\ joined[c][1] \in Refs /\ joined[c][2] \in Sets
         /\ joined[c] = <<joined[c][1], joined[c][2]>>
         /\ subscriptions[joined[c][1]] # Null
         /\ subscriptions[joined[c][1]].set = joined[c][2]
BY DEF StatusesTypeOK

LEMMA ShownType ==
  ASSUME StatusesTypeOK, NEW c \in Callbacks, shows[c] # Null
  PROVE  shows[c] \in Check /\ shows[c].version \in Nat
BY CommitStatusesAssumption DEF StatusesTypeOK, Check

LEMMA SubscriptionType ==
  ASSUME StatusesTypeOK, NEW r \in Refs, subscriptions[r] # Null
  PROVE  subscriptions[r].set \in Sets /\ subscriptions[r].branch \in BOOLEAN
BY DEF StatusesTypeOK, Subscription

\* There is always a set that no refresh under way has found.
LEMMA NewSetType ==
  ASSUME StatusesTypeOK, NEW r \in Refs, subscriptions[r] = Null
  PROVE  NewSet(r) \in Sets
<1> DEFINE Found(n, j) == j \in Fetching /\ jobs[j].ref = r /\ jobs[j].set = n
           Used(n) == \/ \E c \in Callbacks : joined[c] = <<r, n>>
                      \/ \E j \in Fetching : jobs[j].ref = r /\ jobs[j].set = n
           f == [n \in Sets |-> CHOOSE j \in Jobs : Found(n, j)]
<1>1. \A c \in Callbacks, n \in Sets : joined[c] # <<r, n>>
  <2> SUFFICES ASSUME NEW c \in Callbacks, NEW n \in Sets, joined[c] = <<r, n>>
               PROVE  FALSE
    OBVIOUS
  <2>1. joined[c] # Null /\ joined[c][1] = r
    BY NullApart
  <2> QED
    BY <2>1, JoinedType
<1>2. /\ IsFiniteSet(Sets) /\ IsFiniteSet(Jobs)
      /\ Cardinality(Jobs) < Cardinality(Sets)
  <2>1. Cardinality(Callbacks) \in Nat /\ Cardinality(Jobs) \in Nat
    BY CommitStatusesAssumption, FS_CardinalityType
  <2>2. /\ IsFiniteSet(Sets)
        /\ Cardinality(Sets) = Cardinality(Callbacks) + Cardinality(Jobs) + 1
    <3>1. Cardinality(Callbacks) + Cardinality(Jobs) \in Nat /\ 0 \in Int
      BY <2>1
    <3> QED
      BY <3>1, FS_Interval DEF Sets
  <2> QED
    BY <2>1, <2>2, CommitStatusesAssumption
<1>3. SUFFICES ASSUME \A n \in Sets : Used(n) PROVE FALSE
  BY DEF NewSet
<1>4. \A n \in Sets : \E j \in Jobs : Found(n, j)
  BY <1>1, <1>3 DEF Fetching
<1>5. \A n \in Sets : f[n] \in Jobs /\ Found(n, f[n])
  BY <1>4
<1>6. f \in [Sets -> Jobs]
  BY <1>5
<1>7. PICK x, y \in Sets : x # y /\ f[x] = f[y]
  <2> HIDE DEF f
  <2> QED
    BY <1>2, <1>6, FS_PigeonHole
<1> HIDE DEF f
<1>8. jobs[f[x]].set = x /\ jobs[f[y]].set = y
  BY <1>5
<1> QED
  BY <1>7, <1>8

LEMMA SetOfType ==
  ASSUME StatusesTypeOK, NEW r \in Refs
  PROVE  SetOf(r) \in Sets
BY NewSetType, SubscriptionType DEF SetOf

LEMMA InitStatuses == StatusesInit => StatusesInv
<1> SUFFICES ASSUME StatusesInit PROVE StatusesInv
  OBVIOUS
<1>1. StatusesTypeInv
  <2>1. 0 \in 0..MaxActs
    BY CommitStatusesAssumption
  <2>2. StatusesTypeOK
    BY <2>1 DEF StatusesInit, StatusesTypeOK
  <2> QED
    BY <2>2 DEF StatusesInit, StatusesTypeInv, ServerInv
<1>2. Fetching = {}
  BY DEF StatusesInit, Fetching
<1>3. OneJobPerRef /\ RenewedInv /\ SinceInv
  BY <1>2 DEF StatusesInit, OneJobPerRef, RenewedInv, SinceInv, Cached
<1>4. CachedInv /\ ShownInv /\ ShowsWhatIsCached
  BY DEF StatusesInit, CachedInv, ShownInv, ShowsWhatIsCached, Cached
<1> QED
  BY <1>1, <1>3, <1>4 DEF StatusesInv

\* What the cache says once it is written.
LEMMA CachedWritten ==
  ASSUME StatusesTypeOK, NEW r \in Refs, NEW k \in Check \cup {Null},
         NEW b \in BOOLEAN,
         cache' = [cache EXCEPT ![r] = [check |-> k, recent |-> b]]
  PROVE  /\ cache' \in [Refs -> Entry \cup {Null}]
         /\ Cached(r)' = k
         /\ \A q \in Refs \ {r} : Cached(q)' = Cached(q)
<1> DEFINE e == [check |-> k, recent |-> b]
<1>1. e \in Entry /\ e # Null /\ e.check = k
  BY NullApart DEF Entry
<1> HIDE DEF e
<1>2. cache' = [cache EXCEPT ![r] = e]
  BY DEF e
<1> QED
  BY <1>1, <1>2 DEF StatusesTypeOK, Cached

\* Time does not change what the cache says.
LEMMA CachedAged ==
  ASSUME StatusesTypeOK, NEW r \in Refs, cache[r] # Null,
         cache' = [cache EXCEPT ![r].recent = FALSE]
  PROVE  /\ cache' \in [Refs -> Entry \cup {Null}]
         /\ \A q \in Refs : Cached(q)' = Cached(q)
<1> DEFINE e == [cache[r] EXCEPT !.recent = FALSE]
<1>1. cache[r] \in Entry
  BY DEF StatusesTypeOK
<1>2. e \in Entry /\ e # Null /\ e.check = cache[r].check
  BY <1>1, NullApart DEF Entry
<1> HIDE DEF e
<1>3. cache' = [cache EXCEPT ![r] = e]
  BY DEF e
<1> QED
  BY <1>2, <1>3 DEF StatusesTypeOK, Cached

LEMMA OverFewer ==
  ASSUME StatusesTypeOK, OneJobPerRef, NEW j \in Jobs, Over(j)
  PROVE  /\ jobs' \in [Jobs -> Job \cup {Null}]
         /\ Fetching' = Fetching \ {j}
         /\ \A i \in Fetching' : jobs'[i] = jobs[i]
         /\ OneJobPerRef'
<1>1. \A i \in Jobs : jobs'[i] = IF i = j THEN Null ELSE jobs[i]
  BY DEF Over, StatusesTypeOK
<1>2. jobs' \in [Jobs -> Job \cup {Null}]
  BY DEF Over, StatusesTypeOK
<1>3. Fetching' = Fetching \ {j}
  BY <1>1 DEF Fetching
<1>4. OneJobPerRef'
  BY <1>1 DEF OneJobPerRef
<1>5. \A i \in Fetching' : jobs'[i] = jobs[i]
  BY <1>1, <1>3 DEF Fetching
<1> QED
  BY <1>2, <1>3, <1>4, <1>5

\* Steps that tell nobody and leave the cache as it was.
LEMMA FewerJobs ==
  ASSUME StatusesInv, StatusesTypeInv', OneJobPerRef',
         UNCHANGED <<subscriptions, joined, shows, renewed>>,
         \A r \in Refs : Cached(r)' = Cached(r) /\ server[r] <= server'[r],
         Fetching' \subseteq Fetching,
         \A j \in Fetching' : jobs'[j] = jobs[j]
  PROVE  StatusesInv'
<1>1. \A r \in Refs : server[r] \in Nat /\ server'[r] \in Nat
  BY CommitStatusesAssumption DEF StatusesInv, StatusesTypeInv, StatusesTypeOK
<1>2. RenewedInv'
  BY DEF StatusesInv, RenewedInv
<1>3. CachedInv'
  <2> SUFFICES ASSUME NEW r \in Refs, Cached(r)' # Null
               PROVE  Cached(r)'.version <= server'[r]
    BY DEF CachedInv
  <2>1. Cached(r) \in Check
    BY CachedType DEF StatusesInv, StatusesTypeInv
  <2>2. Cached(r).version \in Nat /\ Cached(r).version <= server[r]
    BY <2>1 DEF StatusesInv, CachedInv, Check
  <2> QED
    BY <1>1, <2>2
<1>4. SinceInv'
  <2>1. ASSUME NEW j \in Fetching'
        PROVE  jobs'[j].since <= server'[jobs'[j].ref]
    <3>1. /\ jobs[j].ref \in Refs /\ jobs[j].since \in Nat
          /\ jobs'[j] = jobs[j] /\ j \in Fetching
      BY FetchingType DEF StatusesInv, StatusesTypeInv
    <3>2. jobs[j].since <= server[jobs[j].ref]
      BY <3>1 DEF StatusesInv, SinceInv
    <3> QED
      BY <1>1, <3>1, <3>2
  <2>2. ASSUME NEW r \in Refs, Cached(r)' # Null
        PROVE  NoOlder(r, Cached(r))'
    BY <2>2 DEF StatusesInv, SinceInv, NoOlder
  <2> QED
    BY <2>1, <2>2 DEF SinceInv
<1>5. ShownInv'
  <2> SUFFICES ASSUME NEW c \in Callbacks, joined[c] # Null, shows[c] # Null
               PROVE  /\ shows[c].version <= server'[joined[c][1]]
                      /\ NoOlder(joined[c][1], shows[c])'
    BY DEF ShownInv
  <2>1. joined[c][1] \in Refs /\ shows[c].version \in Nat
    BY JoinedType, ShownType DEF StatusesInv, StatusesTypeInv
  <2>2. /\ shows[c].version <= server[joined[c][1]]
        /\ NoOlder(joined[c][1], shows[c])
    BY DEF StatusesInv, ShownInv
  <2> QED
    BY <1>1, <2>1, <2>2 DEF NoOlder
<1>6. ShowsWhatIsCached'
  BY JoinedType DEF StatusesInv, StatusesTypeInv, ShowsWhatIsCached
<1> QED
  BY <1>2, <1>3, <1>4, <1>5, <1>6 DEF StatusesInv

\* Steps that leave the refreshes alone.
LEMMA JobsAlone ==
  ASSUME StatusesInv, jobs' = jobs
  PROVE  Fetching' = Fetching /\ OneJobPerRef'
BY DEF StatusesInv, Fetching, OneJobPerRef

LEMMA SetTold ==
  ASSUME NEW r \in Refs, NEW s, NEW k, Told(r, s, k), NEW c \in Callbacks
  PROVE  shows'[c] = IF joined[c] = <<r, s>> THEN k ELSE shows[c]
BY DEF Told

LEMMA TryType ==
  ASSUME StatusesTypeOK, NEW r \in Refs, NEW b \in BOOLEAN
  PROVE  TryGetStatus(r, b) \in {Null, Cached(r)}
BY DEF TryGetStatus

LEMMA SubscribeInv ==
  ASSUME StatusesInv, NEW c \in Callbacks, NEW r \in Refs, NEW b \in BOOLEAN,
         Subscribe(c, r, b)
  PROVE  StatusesInv'
<1> DEFINE s == [set |-> SetOf(r), branch |-> b]
<1>1. StatusesTypeOK /\ OneJobPerRef
  BY DEF StatusesInv, StatusesTypeInv
<1>2. /\ SetOf(r) \in Sets /\ s \in Subscription /\ s # Null
      /\ s.set = SetOf(r)
      /\ subscriptions[r] # Null => subscriptions[r].set = SetOf(r)
  BY <1>1, SetOfType, NullApart DEF Subscription, SetOf
<1> HIDE DEF s
<1>3. /\ subscriptions' = [subscriptions EXCEPT ![r] = s]
      /\ joined' = [joined EXCEPT ![c] = <<r, SetOf(r)>>]
      /\ shows' = [shows EXCEPT ![c] = TryGetStatus(r, b)]
      /\ refreshQueued' = TRUE /\ joined[c] = Null
      /\ UNCHANGED <<jobs, background, account, server>>
  BY DEF Subscribe, s
<1>4. /\ cache' \in [Refs -> Entry \cup {Null}]
      /\ \A q \in Refs : Cached(q)' = Cached(q)
  <2>1. CASE cache' = cache
    BY <1>1, <2>1 DEF Cached, StatusesTypeOK
  <2>2. CASE cache[r] # Null /\ cache' = [cache EXCEPT ![r].recent = FALSE]
    BY <1>1, <2>2, CachedAged
  <2> QED
    BY <2>1, <2>2 DEF Subscribe
<1>5. /\ renewed' \subseteq Refs /\ renewed \subseteq renewed'
      /\ FetchedForOld(r, SetOf(r)) => r \in renewed'
  BY <1>1 DEF Subscribe, StatusesTypeOK
<1>6. Fetching' = Fetching /\ OneJobPerRef'
  BY <1>3, JobsAlone
<1>7. \A d \in Callbacks : joined'[d] # Null =>
        \/ d = c /\ joined'[d] = <<r, SetOf(r)>>
        \/ d # c /\ joined'[d] = joined[d] /\ shows'[d] = shows[d]
  BY <1>1, <1>3 DEF StatusesTypeOK
<1>8. StatusesTypeOK'
  <2>1. acts' \in 0..MaxActs
    BY <1>1, CommitStatusesAssumption DEF StatusesTypeOK, Subscribe, Act
  <2>2. shows' \in [Callbacks -> Check \cup {Null}]
    BY <1>1, <1>3, TryType, CachedType DEF StatusesTypeOK
  <2>3. joined' \in [Callbacks -> (Refs \X Sets) \cup {Null}]
    BY <1>1, <1>2, <1>3 DEF StatusesTypeOK
  <2>4. subscriptions' \in [Refs -> Subscription \cup {Null}]
    BY <1>1, <1>2, <1>3 DEF StatusesTypeOK
  <2>5. ASSUME NEW d \in Callbacks, joined'[d] # Null
        PROVE  /\ subscriptions'[joined'[d][1]] # Null
               /\ subscriptions'[joined'[d][1]].set = joined'[d][2]
    <3>1. \A q \in Refs : subscriptions'[q] = IF q = r THEN s
                                              ELSE subscriptions[q]
      BY <1>1, <1>3 DEF StatusesTypeOK
    <3>2. CASE d = c
      BY <1>2, <1>7, <2>5, <3>1, <3>2
    <3>3. CASE d # c
      <4>1. joined'[d] = joined[d] /\ joined[d] # Null
        BY <1>7, <2>5, <3>3
      <4>2. /\ joined[d][1] \in Refs /\ subscriptions[joined[d][1]] # Null
            /\ subscriptions[joined[d][1]].set = joined[d][2]
        BY <1>1, <4>1, JoinedType
      <4> QED
        BY <1>2, <3>1, <4>1, <4>2
    <3> QED
      BY <3>2, <3>3
  <2> QED
    BY <1>1, <1>3, <1>4, <1>5, <2>1, <2>2, <2>3, <2>4, <2>5
    DEF StatusesTypeOK
<1>9. ServerInv'
  BY <1>1, <1>3, CommitStatusesAssumption
  DEF StatusesInv, StatusesTypeInv, StatusesTypeOK, ServerInv, Subscribe, Act
<1>10. RenewedInv'
  <2> SUFFICES ASSUME NEW j \in Fetching,
                      subscriptions'[jobs[j].ref] # Null,
                      subscriptions'[jobs[j].ref].set # jobs[j].set
               PROVE  jobs[j].ref \in renewed'
    BY <1>3, <1>6 DEF RenewedInv
  <2>1. jobs[j].ref \in Refs
    BY <1>1, FetchingType
  <2>2. CASE jobs[j].ref = r
    BY <1>1, <1>2, <1>3, <1>5, <2>2 DEF FetchedForOld, StatusesTypeOK
  <2>3. CASE jobs[j].ref # r
    BY <1>1, <1>3, <1>5, <2>1, <2>3 DEF StatusesInv, RenewedInv, StatusesTypeOK
  <2> QED
    BY <2>2, <2>3
<1>11. CachedInv'
  BY <1>3, <1>4 DEF StatusesInv, CachedInv
<1>12. SinceInv'
  BY <1>3, <1>4, <1>6 DEF StatusesInv, SinceInv, NoOlder
<1>13. ShownInv' /\ ShowsWhatIsCached'
  <2> SUFFICES ASSUME NEW d \in Callbacks, joined'[d] # Null
               PROVE  (/\ shows[d] # Null
                            => /\ shows[d].version <= server[joined[d][1]]
                               /\ NoOlder(joined[d][1], shows[d])
                       /\ joined[d][1] \notin renewed
                            => shows[d] \in {Null, Cached(joined[d][1])})'
    BY DEF ShownInv, ShowsWhatIsCached
  <2>1. CASE d = c
    <3>1. joined'[d] = <<r, SetOf(r)>> /\ shows'[d] \in {Null, Cached(r)}
      BY <1>1, <1>3, <1>7, <2>1, TryType DEF StatusesTypeOK
    <3>2. Cached(r) # Null =>
            Cached(r).version <= server[r] /\ NoOlder(r, Cached(r))
      BY DEF StatusesInv, CachedInv, SinceInv
    <3>3. shows'[d] # Null =>
            /\ shows'[d].version <= server[r]
            /\ NoOlder(r, shows'[d])
      BY <3>1, <3>2
    <3>4. shows'[d] # Null => NoOlder(joined[d][1], shows[d])'
      BY <1>3, <1>6, <3>1, <3>3 DEF NoOlder
    <3> QED
      BY <1>3, <1>4, <3>1, <3>3, <3>4
  <2>2. CASE d # c
    <3>1. joined'[d] = joined[d] /\ shows'[d] = shows[d] /\ joined[d] # Null
      BY <1>7, <2>2
    <3>2. joined[d][1] \in Refs
      BY <1>1, <3>1, JoinedType
    <3>3. shows[d] # Null => /\ shows[d].version <= server[joined[d][1]]
                             /\ NoOlder(joined[d][1], shows[d])
      BY <3>1 DEF StatusesInv, ShownInv
    <3> QED
      BY <1>3, <1>4, <1>5, <1>6, <3>1, <3>2, <3>3
      DEF StatusesInv, ShowsWhatIsCached, NoOlder
  <2> QED
    BY <2>1, <2>2
<1> QED
  BY <1>6, <1>8, <1>9, <1>10, <1>11, <1>12, <1>13
  DEF StatusesInv, StatusesTypeInv

LEMMA UnsubscribeInv ==
  ASSUME StatusesInv, NEW c \in Callbacks, Unsubscribe(c)
  PROVE  StatusesInv'
<1>1. StatusesTypeOK /\ OneJobPerRef
  BY DEF StatusesInv, StatusesTypeInv
<1>2. /\ joined[c] # Null /\ joined' = [joined EXCEPT ![c] = Null]
      /\ shows' = [shows EXCEPT ![c] = Null]
      /\ UNCHANGED <<cache, jobs, refreshQueued, background, account, server,
                     renewed>>
  BY DEF Unsubscribe
<1>3. /\ joined[c][1] \in Refs /\ joined[c][2] \in Sets
      /\ subscriptions[joined[c][1]].set = joined[c][2]
      /\ joined[c] = <<joined[c][1], joined[c][2]>>
  BY <1>1, <1>2, JoinedType
<1>4. \A q \in Refs : subscriptions'[q] \in {Null, subscriptions[q]}
  BY <1>1, <1>3 DEF Unsubscribe, StatusesTypeOK
<1>5. \A d \in Callbacks : joined'[d] # Null =>
        d # c /\ joined'[d] = joined[d] /\ shows'[d] = shows[d]
  BY <1>1, <1>2 DEF StatusesTypeOK
<1>6. Fetching' = Fetching /\ OneJobPerRef'
      /\ \A q \in Refs : Cached(q)' = Cached(q)
  BY <1>2, JobsAlone DEF Cached
<1>7. StatusesTypeOK'
  <2>1. acts' \in 0..MaxActs
    BY <1>1, CommitStatusesAssumption DEF StatusesTypeOK, Unsubscribe, Act
  <2>2. subscriptions' \in [Refs -> Subscription \cup {Null}]
    BY <1>1 DEF StatusesTypeOK, Unsubscribe
  <2>3. ASSUME NEW d \in Callbacks, joined'[d] # Null
        PROVE  /\ subscriptions'[joined'[d][1]] # Null
               /\ subscriptions'[joined'[d][1]].set = joined'[d][2]
    <3>1. d # c /\ joined'[d] = joined[d] /\ joined[d] # Null
      BY <1>5, <2>3
    <3>2. /\ joined[d][1] \in Refs /\ subscriptions[joined[d][1]] # Null
          /\ subscriptions[joined[d][1]].set = joined[d][2]
          /\ joined[d] = <<joined[d][1], joined[d][2]>>
      BY <1>1, <3>1, JoinedType
    <3>3. subscriptions'[joined[d][1]] = subscriptions[joined[d][1]]
      <4>1. CASE joined[d][1] = joined[c][1]
        BY <1>3, <3>1, <3>2, <4>1 DEF Unsubscribe, Emptied
      <4>2. CASE joined[d][1] # joined[c][1]
        BY <1>1, <1>3, <3>2, <4>2 DEF Unsubscribe, StatusesTypeOK
      <4> QED
        BY <4>1, <4>2
    <3> QED
      BY <3>1, <3>2, <3>3
  <2> QED
    BY <1>1, <1>2, <2>1, <2>2, <2>3 DEF StatusesTypeOK
<1>8. ServerInv'
  BY <1>1, <1>2, CommitStatusesAssumption
  DEF StatusesInv, StatusesTypeInv, StatusesTypeOK, ServerInv, Unsubscribe, Act
<1>9. RenewedInv'
  <2> SUFFICES ASSUME NEW j \in Fetching,
                      subscriptions'[jobs[j].ref] # Null,
                      subscriptions'[jobs[j].ref].set # jobs[j].set
               PROVE  jobs[j].ref \in renewed
    BY <1>2, <1>6 DEF RenewedInv
  <2>1. jobs[j].ref \in Refs
    BY <1>1, FetchingType
  <2> QED
    BY <1>4, <2>1 DEF StatusesInv, RenewedInv
<1>10. CachedInv'
  BY <1>2, <1>6 DEF StatusesInv, CachedInv
<1>11. SinceInv'
  BY <1>2, <1>6 DEF StatusesInv, SinceInv, NoOlder
<1>12. ShownInv'
  BY <1>2, <1>5, <1>6 DEF StatusesInv, ShownInv, NoOlder
<1>13. ShowsWhatIsCached'
  BY <1>2, <1>5 DEF StatusesInv, ShowsWhatIsCached, Cached
<1> QED
  BY <1>6, <1>7, <1>8, <1>9, <1>10, <1>11, <1>12, <1>13
  DEF StatusesInv, StatusesTypeInv

\* The server has news, or time has passed: the store does not know.
LEMMA ServerAhead ==
  ASSUME StatusesTypeInv, NEW r \in Refs, Act,
         server' = [server EXCEPT ![r] = @ + 1]
  PROVE  /\ server' \in [Refs -> 0..MaxActs] /\ acts' \in 0..MaxActs
         /\ ServerInv'
         /\ \A q \in Refs : server[q] <= server'[q]
<1>1. /\ acts \in Nat /\ MaxActs \in Nat /\ acts < MaxActs
      /\ acts' = acts + 1
  BY CommitStatusesAssumption DEF StatusesTypeInv, StatusesTypeOK, Act
<1>2. \A q \in Refs : server[q] \in Nat /\ server[q] <= acts
  BY CommitStatusesAssumption DEF StatusesTypeInv, StatusesTypeOK, ServerInv
<1>3. \A q \in Refs :
        server'[q] = IF q = r THEN server[q] + 1 ELSE server[q]
  BY DEF StatusesTypeInv, StatusesTypeOK
<1>4. \A q \in Refs : /\ server'[q] \in 0..MaxActs /\ server'[q] <= acts'
                      /\ server[q] <= server'[q]
  BY <1>1, <1>2, <1>3
<1>5. server' \in [Refs -> 0..MaxActs]
  BY <1>4 DEF StatusesTypeInv, StatusesTypeOK
<1> QED
  BY <1>1, <1>4, <1>5 DEF ServerInv

\* The cache and whoever is in set s of r are told k, which is no older.
LEMMA ToldInv ==
  ASSUME StatusesInv, StatusesTypeOK', ServerInv', OneJobPerRef',
         NEW r \in Refs, NEW k \in Check, NEW s, Told(r, s, k),
         Cached(r)' = k, \A q \in Refs \ {r} : Cached(q)' = Cached(q),
         UNCHANGED <<subscriptions, joined>>,
         \A q \in Refs : server[q] <= server'[q], k.version <= server'[r],
         Fetching' \subseteq Fetching,
         \A j \in Fetching' : /\ jobs'[j] = jobs[j]
                              /\ ~k.pending => jobs[j].ref # r,
         renewed \ {r} \subseteq renewed', renewed' \subseteq renewed,
         subscriptions[r] # Null /\ subscriptions[r].set # s =>
           r \in renewed',
         r \in renewed /\ (\E j \in Fetching' : jobs[j].ref = r
                             /\ subscriptions[r] # Null
                             /\ jobs[j].set # subscriptions[r].set)
           => r \in renewed'
  PROVE  StatusesInv'
<1>1. StatusesTypeOK /\ \A q \in Refs : server[q] \in Nat /\ server'[q] \in Nat
  BY CommitStatusesAssumption DEF StatusesInv, StatusesTypeInv, StatusesTypeOK
<1>2. k # Null /\ k.version \in Nat
  BY NullApart DEF Check
<1>3. \A j \in Fetching' :
        /\ j \in Fetching /\ jobs'[j] = jobs[j]
        /\ jobs[j].ref \in Refs /\ jobs[j].since \in Nat
  BY <1>1, FetchingType
<1>4. RenewedInv'
  <2> SUFFICES ASSUME NEW j \in Fetching',
                      subscriptions[jobs[j].ref] # Null,
                      subscriptions[jobs[j].ref].set # jobs[j].set
               PROVE  jobs[j].ref \in renewed'
    BY <1>3 DEF RenewedInv
  <2>1. jobs[j].ref \in renewed
    BY <1>3 DEF StatusesInv, RenewedInv
  <2> QED
    BY <2>1
<1>5. CachedInv'
  <2> SUFFICES ASSUME NEW q \in Refs, Cached(q)' # Null
               PROVE  Cached(q)'.version <= server'[q]
    BY DEF CachedInv
  <2>1. CASE q = r
    BY <1>1, <1>2, <2>1
  <2>2. CASE q # r
    <3>1. Cached(q)' = Cached(q) /\ Cached(q) \in Check
      BY <1>1, <2>2, CachedType
    <3>2. Cached(q).version \in Nat /\ Cached(q).version <= server[q]
      BY <3>1 DEF StatusesInv, CachedInv, Check
    <3> QED
      BY <1>1, <3>1, <3>2
  <2> QED
    BY <2>1, <2>2
<1>6. NoOlder(r, k)'
  BY DEF NoOlder
<1>7. SinceInv'
  <2>1. ASSUME NEW j \in Fetching'
        PROVE  jobs'[j].since <= server'[jobs'[j].ref]
    <3>1. jobs[j].since <= server[jobs[j].ref]
      BY <1>3 DEF StatusesInv, SinceInv
    <3> QED
      BY <1>1, <1>3, <3>1
  <2>2. ASSUME NEW q \in Refs, Cached(q)' # Null
        PROVE  NoOlder(q, Cached(q))'
    <3>1. CASE q = r
      BY <1>6, <3>1 DEF NoOlder
    <3>2. CASE q # r
      BY <1>3, <2>2, <3>2 DEF StatusesInv, SinceInv, NoOlder
    <3> QED
      BY <3>1, <3>2
  <2> QED
    BY <2>1, <2>2 DEF SinceInv
<1>8. ShownInv' /\ ShowsWhatIsCached'
  <2> SUFFICES ASSUME NEW c \in Callbacks, joined[c] # Null
               PROVE  (/\ shows[c] # Null
                            => /\ shows[c].version <= server[joined[c][1]]
                               /\ NoOlder(joined[c][1], shows[c])
                       /\ joined[c][1] \notin renewed
                            => shows[c] \in {Null, Cached(joined[c][1])})'
    BY DEF ShownInv, ShowsWhatIsCached
  <2>1. /\ joined[c][1] \in Refs /\ subscriptions[joined[c][1]] # Null
        /\ subscriptions[joined[c][1]].set = joined[c][2]
        /\ joined[c] = <<joined[c][1], joined[c][2]>>
    BY <1>1, JoinedType
  <2>2. shows'[c] = IF joined[c] = <<r, s>> THEN k ELSE shows[c]
    BY DEF Told
  <2>3. shows[c] # Null => /\ shows[c].version <= server'[joined[c][1]]
                           /\ NoOlder(joined[c][1], shows[c])
    <3> SUFFICES ASSUME shows[c] # Null
                 PROVE  /\ shows[c].version <= server'[joined[c][1]]
                        /\ NoOlder(joined[c][1], shows[c])
      OBVIOUS
    <3>1. shows[c].version \in Nat
      BY <1>1, ShownType
    <3>2. /\ shows[c].version <= server[joined[c][1]]
          /\ NoOlder(joined[c][1], shows[c])
      BY DEF StatusesInv, ShownInv
    <3> QED
      BY <1>1, <2>1, <3>1, <3>2
  <2>4. CASE joined[c] = <<r, s>>
    <3>1. joined[c][1] = r /\ shows'[c] = k
      BY <2>2, <2>4
    <3> QED
      BY <1>6, <3>1 DEF NoOlder
  <2>5. CASE joined[c] # <<r, s>>
    <3>1. shows'[c] = shows[c]
      BY <2>2, <2>5
    <3>2. joined[c][1] = r => r \in renewed'
      BY <2>1, <2>5
    <3>3. shows[c] # Null => NoOlder(joined[c][1], shows[c])'
      BY <1>3, <2>3, <3>1 DEF NoOlder
    <3> QED
      BY <2>1, <2>3, <3>1, <3>2, <3>3 DEF StatusesInv, ShowsWhatIsCached
  <2> QED
    BY <2>4, <2>5
<1> QED
  BY <1>4, <1>5, <1>7, <1>8 DEF StatusesInv, StatusesTypeInv

LEMMA ManualInv ==
  ASSUME StatusesInv, NEW r \in Refs, ManualRefresh(r)
  PROVE  StatusesInv'
<1>1. StatusesTypeInv /\ StatusesTypeOK
  BY DEF StatusesInv, StatusesTypeInv
<1>2. /\ Act /\ server' = [server EXCEPT ![r] = @ + 1]
      /\ UNCHANGED <<subscriptions, joined, jobs, refreshQueued, background,
                     account>>
  BY DEF ManualRefresh
<1>3. /\ server' \in [Refs -> 0..MaxActs] /\ acts' \in 0..MaxActs
      /\ ServerInv' /\ \A q \in Refs : server[q] <= server'[q]
  BY <1>1, <1>2, ServerAhead
<1>4. /\ Fetching' = Fetching /\ OneJobPerRef'
      /\ \A j \in Fetching' : jobs'[j] = jobs[j]
  BY <1>2, JobsAlone
<1>5. CASE UNCHANGED <<cache, shows, renewed>>
  <2>1. \A q \in Refs : Cached(q)' = Cached(q)
    BY <1>5 DEF Cached
  <2>2. StatusesTypeOK'
    BY <1>1, <1>2, <1>3, <1>5 DEF StatusesTypeOK
  <2> QED
    BY <1>2, <1>3, <1>4, <1>5, <2>1, <2>2, FewerJobs DEF StatusesTypeInv
<1>6. CASE subscriptions[r] # Null /\ Cached(r) # Null
  <2> DEFINE k == [Cached(r) EXCEPT !.pending = TRUE,
                                    !.version = server[r] + 1]
             s == subscriptions[r].set
  <2>1. /\ cache' = [cache EXCEPT ![r] = [check |-> k, recent |-> TRUE]]
        /\ Told(r, s, k)
        /\ renewed' = IF FetchedForOld(r, s) THEN renewed ELSE renewed \ {r}
    BY <1>6 DEF ManualRefresh
  <2>2. Cached(r) \in Check
    BY <1>1, <1>6, CachedType
  <2>3. k \in Check /\ k.version = server'[r] /\ k.pending
    <3>1. PICK e \in Check : e = Cached(r)
      BY <2>2
    <3>2. server'[r] = server[r] + 1 /\ server'[r] \in 0..MaxActs
      BY <1>1, <1>2, <1>3 DEF StatusesTypeOK
    <3>3. k = [e EXCEPT !.pending = TRUE, !.version = server'[r]]
      BY <3>1, <3>2
    <3> HIDE DEF k
    <3>4. k = [version |-> server'[r], workflows |-> e.workflows,
               pending |-> TRUE]
      BY <3>1, <3>3 DEF Check
    <3>5. e.workflows \in BOOLEAN
      BY <3>1 DEF Check
    <3> QED
      BY <3>2, <3>4, <3>5 DEF Check
  <2> HIDE DEF k
  <2>4. /\ cache' \in [Refs -> Entry \cup {Null}] /\ Cached(r)' = k
        /\ \A q \in Refs \ {r} : Cached(q)' = Cached(q)
    BY <1>1, <2>1, <2>3, CachedWritten
  <2>5. StatusesTypeOK'
    <3>1. shows' \in [Callbacks -> Check \cup {Null}]
      BY <1>1, <2>1, <2>3 DEF StatusesTypeOK, Told
    <3>2. renewed' \subseteq Refs
      BY <1>1, <2>1 DEF StatusesTypeOK
    <3> QED
      BY <1>1, <1>2, <1>3, <2>4, <3>1, <3>2 DEF StatusesTypeOK
  <2>6. k.version <= server'[r]
    BY <1>3, <2>3, CommitStatusesAssumption
  <2>7. /\ renewed \ {r} \subseteq renewed' /\ renewed' \subseteq renewed
        /\ r \in renewed /\ (\E j \in Fetching' : jobs[j].ref = r
                               /\ subscriptions[r] # Null
                               /\ jobs[j].set # subscriptions[r].set)
             => r \in renewed'
    BY <1>4, <2>1 DEF FetchedForOld
  <2>8. Told(r, s, k) /\ subscriptions[r].set = s
    BY <2>1
  <2> HIDE DEF s
  <2> QED
    BY <1>2, <1>3, <1>4, <2>3, <2>4, <2>5, <2>6, <2>7, <2>8, ToldInv
<1> QED
  BY <1>5, <1>6 DEF ManualRefresh

\* Under the limit or not, a refresh begins with what the store knows.
LEMMA BeginFetchInv ==
  ASSUME StatusesInv, NEW j \in Jobs, BeginFetch(j)
  PROVE  StatusesInv'
<1>1. StatusesTypeOK /\ OneJobPerRef /\ ServerInv
  BY DEF StatusesInv, StatusesTypeInv
<1>2. /\ UNCHANGED <<store, refreshQueued, background, account, server, acts,
                     renewed>>
      /\ jobs[j] # Null
  BY DEF BeginFetch
<1>3. \A q \in Refs : Cached(q)' = Cached(q) /\ server[q] <= server'[q]
  BY <1>1, <1>2, CommitStatusesAssumption DEF store, Cached, StatusesTypeOK
<1>4. ASSUME jobs' \in [Jobs -> Job \cup {Null}]
      PROVE  StatusesTypeInv'
  BY <1>1, <1>2, <1>4 DEF StatusesTypeInv, StatusesTypeOK, ServerInv, store
<1>5. CASE Over(j)
  BY <1>1, <1>2, <1>3, <1>4, <1>5, OverFewer, FewerJobs DEF store
<1>6. CASE subscriptions[jobs[j].ref] # Null /\ ~Over(j)
  <2> DEFINE r == jobs[j].ref
             d == [ref |-> r, at |-> "fetching", set |-> subscriptions[r].set,
                   branch |-> subscriptions[r].branch, since |-> server[r]]
  <2>1. jobs' = [jobs EXCEPT ![j] = d]
    BY <1>6 DEF BeginFetch
  <2>2. r \in Refs /\ server[r] \in 0..MaxActs
    BY <1>1, <1>2, JobRef DEF StatusesTypeOK
  <2>3. /\ d \in Job /\ d # Null /\ d.ref = r /\ d.set = subscriptions[r].set
        /\ d.since = server[r] /\ d.at = "fetching"
    <3>1. subscriptions[r].set \in Sets /\ subscriptions[r].branch \in BOOLEAN
      BY <1>1, <1>6, <2>2, SubscriptionType
    <3> QED
      BY <2>2, <3>1, NullApart DEF Job
  <2> HIDE DEF d
  <2>4. \A i \in Jobs : jobs'[i] = IF i = j THEN d ELSE jobs[i]
    BY <1>1, <2>1 DEF StatusesTypeOK
  <2>5. jobs' \in [Jobs -> Job \cup {Null}]
    BY <1>1, <2>1, <2>3 DEF StatusesTypeOK
  <2>6. \A i \in Fetching' : \/ i = j /\ jobs'[i] = d
                             \/ i # j /\ i \in Fetching /\ jobs'[i] = jobs[i]
    BY <2>4 DEF Fetching
  <2>7. OneJobPerRef'
    BY <1>1, <1>2, <2>3, <2>4 DEF OneJobPerRef
  <2>8. RenewedInv'
    BY <1>2, <2>3, <2>6 DEF RenewedInv, StatusesInv, store
  <2>9. CachedInv'
    BY <1>2, <1>3 DEF CachedInv, StatusesInv
  <2>10. \A i \in Fetching' :
           \/ i \in Fetching /\ jobs'[i] = jobs[i]
           \/ jobs'[i].ref = r /\ jobs'[i].since = server[r]
    BY <2>3, <2>6
  <2>11. SinceInv'
    <3>1. ASSUME NEW i \in Fetching'
          PROVE  jobs'[i].since <= server'[jobs'[i].ref]
      <4>1. CASE i = j
        BY <1>2, <2>2, <2>3, <2>6, <4>1
      <4>2. CASE i # j
        BY <1>2, <2>6, <4>2 DEF StatusesInv, SinceInv
      <4> QED
        BY <4>1, <4>2
    <3>2. ASSUME NEW q \in Refs, Cached(q)' # Null
          PROVE  NoOlder(q, Cached(q))'
      <4>1. /\ NoOlder(q, Cached(q)) /\ Cached(q)' = Cached(q)
            /\ Cached(q).version <= server[q]
        BY <1>3, <3>2 DEF StatusesInv, SinceInv, CachedInv
      <4> QED
        BY <2>10, <4>1 DEF NoOlder
    <3> QED
      BY <3>1, <3>2 DEF SinceInv
  <2>12. ShownInv'
    <3> SUFFICES ASSUME NEW c \in Callbacks, joined[c] # Null, shows[c] # Null
                 PROVE  /\ shows[c].version <= server[joined[c][1]]
                        /\ NoOlder(joined[c][1], shows[c])'
      BY <1>2 DEF ShownInv, store
    <3>1. /\ NoOlder(joined[c][1], shows[c])
          /\ shows[c].version <= server[joined[c][1]]
      BY DEF StatusesInv, ShownInv
    <3>2. shows'[c] = shows[c] /\ joined'[c] = joined[c]
      BY <1>2 DEF store
    <3> QED
      BY <2>10, <3>1, <3>2 DEF NoOlder
  <2>13. ShowsWhatIsCached'
    BY <1>2 DEF StatusesInv, ShowsWhatIsCached, Cached, store
  <2> QED
    BY <1>4, <2>5, <2>7, <2>8, <2>9, <2>11, <2>12, <2>13 DEF StatusesInv
<1> QED
  BY <1>5, <1>6 DEF BeginFetch

LEMMA WorkflowsType ==
  ASSUME StatusesTypeOK, NEW j \in Fetching, NEW w \in Workflows(j)
  PROVE  w \in BOOLEAN
BY DEF Workflows

LEMMA FetchEndsInv ==
  ASSUME StatusesInv, NEW j \in Jobs, FetchEnds(j)
  PROVE  StatusesInv'
<1>1. StatusesTypeOK /\ OneJobPerRef /\ ServerInv
  BY DEF StatusesInv, StatusesTypeInv
<1>2. /\ j \in Fetching /\ Over(j)
      /\ UNCHANGED <<subscriptions, joined, refreshQueued, background, account,
                     server, acts>>
  BY DEF FetchEnds
<1> PICK r \in Refs : r = jobs[j].ref
  BY <1>1, <1>2, FetchingType
<1>3. /\ jobs[j].ref = r
      /\ jobs[j].set \in Sets /\ jobs[j].since \in 0..MaxActs
      /\ jobs[j].branch \in BOOLEAN /\ server[r] \in 0..MaxActs
      /\ jobs[j] # Null
  BY <1>1, <1>2, FetchingType DEF StatusesTypeOK
<1>4. PICK v \in jobs[j].since..server[r], w \in Workflows(j) :
        LET check == [version |-> v, pending |-> FALSE, workflows |-> w] IN
        /\ cache' = [cache EXCEPT ![r] = [check |-> check, recent |-> TRUE]]
        /\ Notify(r, jobs[j].set, check)
        /\ renewed' = IF subscriptions[r] # Null /\
                         subscriptions[r].set = jobs[j].set
                        THEN renewed \ {r} ELSE renewed
  BY <1>3 DEF FetchEnds
<1> DEFINE k == [version |-> v, pending |-> FALSE, workflows |-> w]
           s == jobs[j].set
<1>5. /\ cache' = [cache EXCEPT ![r] = [check |-> k, recent |-> TRUE]]
      /\ Told(r, s, k)
      /\ renewed' = IF subscriptions[r] # Null /\ subscriptions[r].set = s
                      THEN renewed \ {r} ELSE renewed
  BY <1>4 DEF Notify
<1>6. /\ v \in 0..MaxActs /\ MaxActs \in Nat
      /\ jobs[j].since <= v /\ v <= server[r]
  BY <1>3, CommitStatusesAssumption
<1>7. k \in Check /\ k.version = v
  BY <1>6, <1>1, <1>2, WorkflowsType DEF Check
<1> HIDE DEF k
<1>8. /\ cache' \in [Refs -> Entry \cup {Null}] /\ Cached(r)' = k
      /\ \A q \in Refs \ {r} : Cached(q)' = Cached(q)
  BY <1>1, <1>3, <1>5, <1>7, CachedWritten
<1>9. /\ jobs' \in [Jobs -> Job \cup {Null}] /\ Fetching' = Fetching \ {j}
      /\ \A i \in Fetching' : jobs'[i] = jobs[i]
      /\ OneJobPerRef'
  BY <1>1, <1>2, OverFewer
<1>10. \A i \in Fetching' : jobs[i].ref # r
  BY <1>1, <1>3, <1>9 DEF OneJobPerRef, Fetching
<1>11. StatusesTypeOK' /\ ServerInv'
  <2>1. shows' \in [Callbacks -> Check \cup {Null}]
    BY <1>1, <1>5, <1>7 DEF StatusesTypeOK, Told
  <2>2. renewed' \subseteq Refs
    BY <1>1, <1>5 DEF StatusesTypeOK
  <2>3. StatusesTypeOK'
    BY <1>1, <1>2, <1>8, <1>9, <2>1, <2>2 DEF StatusesTypeOK
  <2> QED
    BY <1>1, <1>2, <2>3 DEF ServerInv
<1>12. subscriptions[r] # Null /\ subscriptions[r].set # s => r \in renewed
  BY <1>2, <1>3 DEF StatusesInv, RenewedInv
<1>13. k.version <= server'[r] /\ \A q \in Refs : server[q] <= server'[q]
  BY <1>1, <1>2, <1>6, <1>7, CommitStatusesAssumption DEF StatusesTypeOK
<1>14. /\ renewed \ {r} \subseteq renewed' /\ renewed' \subseteq renewed
       /\ subscriptions[r] # Null /\ subscriptions[r].set # s => r \in renewed'
  BY <1>5, <1>12
<1> HIDE DEF s
<1> QED
  BY <1>2, <1>3, <1>5, <1>7, <1>8, <1>9, <1>10, <1>11, <1>13, <1>14, ToldInv

LEMMA FetchFailsInv ==
  ASSUME StatusesInv, NEW j \in Jobs, FetchFails(j) \/ FetchThrows(j)
  PROVE  StatusesInv'
<1>1. StatusesTypeOK /\ OneJobPerRef /\ ServerInv
  BY DEF StatusesInv, StatusesTypeInv
<1>2. /\ Over(j) /\ Act /\ j \in Fetching
      /\ UNCHANGED <<subscriptions, joined, shows, refreshQueued, background,
                     account, server, renewed>>
  BY DEF FetchFails, FetchThrows, store
<1>3. acts' \in 0..MaxActs /\ ServerInv'
  BY <1>1, <1>2, CommitStatusesAssumption DEF Act, ServerInv, StatusesTypeOK
<1>4. /\ jobs' \in [Jobs -> Job \cup {Null}] /\ Fetching' = Fetching \ {j}
      /\ \A i \in Fetching' : jobs'[i] = jobs[i]
      /\ OneJobPerRef'
  BY <1>1, <1>2, OverFewer
<1>5. /\ cache' \in [Refs -> Entry \cup {Null}]
      /\ \A q \in Refs : Cached(q)' = Cached(q)
  <2>1. CASE FetchFails(j)
    <3> PICK r \in Refs : r = jobs[j].ref
      BY <1>1, <1>2, FetchingType
    <3>2. Cached(r) \in Check \cup {Null}
      BY <1>1, CachedType
    <3>3. cache' = [cache EXCEPT ![r] = [check |-> Cached(r), recent |-> TRUE]]
      BY <2>1 DEF FetchFails
    <3>4. /\ cache' \in [Refs -> Entry \cup {Null}]
          /\ Cached(r)' = Cached(r)
          /\ \A q \in Refs \ {r} : Cached(q)' = Cached(q)
      BY <1>1, <3>2, <3>3, CachedWritten
    <3> QED
      BY <3>4
  <2>2. CASE cache' = cache
    BY <1>1, <2>2 DEF Cached, StatusesTypeOK
  <2> QED
    BY <2>1, <2>2 DEF FetchThrows, store
<1>6. StatusesTypeOK'
  BY <1>1, <1>2, <1>3, <1>4, <1>5 DEF StatusesTypeOK
<1>7. \A q \in Refs : server[q] <= server'[q]
  BY <1>1, <1>2, CommitStatusesAssumption DEF StatusesTypeOK
<1> QED
  BY <1>2, <1>3, <1>4, <1>5, <1>6, <1>7, FewerJobs DEF StatusesTypeInv

\* No ref is refreshed anew that is worked on, and none twice.
LEMMA RefreshEligibleInv ==
  ASSUME StatusesInv, RefreshEligible
  PROVE  StatusesInv'
<1>1. StatusesTypeOK /\ OneJobPerRef /\ ServerInv
  BY DEF StatusesInv, StatusesTypeInv
<1>2. /\ UNCHANGED <<store, background, account, server, acts, renewed>>
      /\ refreshQueued' = FALSE
  BY DEF RefreshEligible
<1> DEFINE new == {r \in Refs : Eligible(r)}
           free == {j \in Jobs : jobs[j] = Null}
<1>3. PICK f \in [new -> free] :
        /\ \A q, r \in new : f[q] = f[r] => q = r
        /\ jobs' = [j \in Jobs |->
                     IF \E r \in new : f[r] = j
                       THEN Waiting(CHOOSE r \in new : f[r] = j) ELSE jobs[j]]
  BY DEF RefreshEligible
<1>4. ASSUME NEW j \in Jobs
      PROVE  \/ jobs'[j] = jobs[j]
             \/ \E r \in new : f[r] = j /\ jobs[j] = Null /\ jobs'[j] = Waiting(r)
  <2>1. CASE \E r \in new : f[r] = j
    <3>1. PICK r \in new : r = CHOOSE q \in new : f[q] = j
      BY <2>1
    <3>2. f[r] = j /\ jobs'[j] = Waiting(r)
      BY <1>3, <2>1, <3>1
    <3>3. jobs[j] = Null
      BY <3>2
    <3> QED
      BY <3>2, <3>3
  <2>2. CASE ~\E r \in new : f[r] = j
    BY <1>3, <2>2
  <2> QED
    BY <2>1, <2>2
<1>5. \A r \in new : /\ Waiting(r) \in Job /\ Waiting(r).ref = r
                     /\ Waiting(r).at # "fetching" /\ r \in Refs
                     /\ \A i \in Jobs : jobs[i] # Null => jobs[i].ref # r
  BY DEF Waiting, Job, Eligible, Queue
<1>6. jobs' \in [Jobs -> Job \cup {Null}]
  <2>1. \A j \in Jobs : jobs'[j] \in Job \cup {Null}
    BY <1>1, <1>4, <1>5 DEF StatusesTypeOK
  <2>2. jobs' = [j \in Jobs |-> jobs'[j]]
    BY <1>3
  <2> QED
    BY <2>1, <2>2
<1>7. /\ Fetching' \subseteq Fetching
      /\ \A j \in Fetching' : jobs'[j] = jobs[j]
  BY <1>4, <1>5 DEF Fetching
<1>8. OneJobPerRef'
  <2> SUFFICES ASSUME NEW i \in Jobs, NEW j \in Jobs, jobs'[i] # Null,
                      jobs'[j] # Null, jobs'[i].ref = jobs'[j].ref
               PROVE  i = j
    BY DEF OneJobPerRef
  <2>1. CASE jobs'[i] = jobs[i] /\ jobs'[j] = jobs[j]
    BY <1>1, <2>1 DEF OneJobPerRef
  <2>2. ASSUME NEW r \in new, f[r] = i, jobs'[i] = Waiting(r) PROVE i = j
    BY <1>3, <1>4, <1>5, <2>2
  <2>3. ASSUME NEW r \in new, f[r] = j, jobs'[j] = Waiting(r) PROVE i = j
    BY <1>3, <1>4, <1>5, <2>3
  <2> QED
    BY <1>4, <2>1, <2>2, <2>3
<1>9. StatusesTypeInv'
  BY <1>1, <1>2, <1>6 DEF StatusesTypeInv, StatusesTypeOK, ServerInv, store
<1>10. \A q \in Refs : Cached(q)' = Cached(q) /\ server[q] <= server'[q]
  BY <1>1, <1>2, CommitStatusesAssumption DEF store, Cached, StatusesTypeOK
<1> QED
  BY <1>2, <1>7, <1>8, <1>9, <1>10, FewerJobs DEF store

\* The focus, the interval, time, the account and the server.
LEMMA AroundInv ==
  ASSUME StatusesInv,
         \/ StartBackgroundRefresh \/ StopBackgroundRefresh \/ BackgroundTick
         \/ SignsInOrOut \/ UNCHANGED statusesVars
         \/ \E r \in Refs : Ages(r) \/ Progresses(r)
  PROVE  StatusesInv'
<1>1. StatusesTypeOK /\ ServerInv /\ OneJobPerRef
  BY DEF StatusesInv, StatusesTypeInv
<1>2. /\ UNCHANGED <<subscriptions, joined, shows, jobs, renewed>>
      /\ refreshQueued' \in BOOLEAN /\ background' \in BOOLEAN
      /\ account' \in BOOLEAN
  BY <1>1 DEF StartBackgroundRefresh, StopBackgroundRefresh, BackgroundTick,
     SignsInOrOut, Ages, Progresses, statusesVars, store, StatusesTypeOK
<1>3. /\ cache' \in [Refs -> Entry \cup {Null}]
      /\ \A q \in Refs : Cached(q)' = Cached(q)
  <2>1. CASE cache' = cache
    BY <1>1, <2>1 DEF Cached, StatusesTypeOK
  <2>2. ASSUME NEW r \in Refs, Ages(r)
        PROVE  /\ cache' \in [Refs -> Entry \cup {Null}]
               /\ \A q \in Refs : Cached(q)' = Cached(q)
    BY <1>1, <2>2, CachedAged DEF Ages
  <2> QED
    BY <2>1, <2>2 DEF StartBackgroundRefresh, StopBackgroundRefresh,
       BackgroundTick, SignsInOrOut, Progresses, statusesVars, store
<1>4. /\ server' \in [Refs -> 0..MaxActs] /\ acts' \in 0..MaxActs
      /\ ServerInv' /\ \A q \in Refs : server[q] <= server'[q]
  <2>1. CASE UNCHANGED <<server, acts>>
    BY <1>1, <2>1, CommitStatusesAssumption DEF StatusesTypeOK, ServerInv
  <2>2. CASE server' = server /\ Act
    BY <1>1, <2>2, CommitStatusesAssumption DEF StatusesTypeOK, ServerInv, Act
  <2>3. ASSUME NEW r \in Refs, Progresses(r)
        PROVE  /\ server' \in [Refs -> 0..MaxActs] /\ acts' \in 0..MaxActs
               /\ ServerInv' /\ \A q \in Refs : server[q] <= server'[q]
    BY <1>1, <2>3, ServerAhead DEF Progresses, StatusesTypeInv
  <2> QED
    BY <2>1, <2>2, <2>3 DEF StartBackgroundRefresh, StopBackgroundRefresh,
       BackgroundTick, SignsInOrOut, Ages, statusesVars
<1>5. StatusesTypeInv'
  BY <1>1, <1>2, <1>3, <1>4 DEF StatusesTypeOK, StatusesTypeInv
<1>6. /\ Fetching' = Fetching /\ OneJobPerRef'
      /\ \A j \in Fetching' : jobs'[j] = jobs[j]
  BY <1>2, JobsAlone
<1> QED
  BY <1>2, <1>3, <1>4, <1>5, <1>6, FewerJobs

LEMMA NextStatuses == StatusesInv /\ [StatusesNext]_statusesVars => StatusesInv'
<1> SUFFICES ASSUME StatusesInv, [StatusesNext]_statusesVars
             PROVE  StatusesInv'
  OBVIOUS
<1>1. ASSUME NEW c \in Callbacks, NEW r \in Refs, NEW b \in BOOLEAN,
             Subscribe(c, r, b)
      PROVE  StatusesInv'
  BY <1>1, SubscribeInv
<1>2. ASSUME NEW c \in Callbacks, Unsubscribe(c) PROVE StatusesInv'
  BY <1>2, UnsubscribeInv
<1>3. ASSUME NEW r \in Refs, ManualRefresh(r) PROVE StatusesInv'
  BY <1>3, ManualInv
<1>4. CASE RefreshEligible
  BY <1>4, RefreshEligibleInv
<1>5. ASSUME NEW j \in Jobs, BeginFetch(j) PROVE StatusesInv'
  BY <1>5, BeginFetchInv
<1>6. ASSUME NEW j \in Jobs, FetchEnds(j) PROVE StatusesInv'
  BY <1>6, FetchEndsInv
<1>7. ASSUME NEW j \in Jobs, FetchFails(j) \/ FetchThrows(j) PROVE StatusesInv'
  BY <1>7, FetchFailsInv
<1>8. CASE \/ StartBackgroundRefresh \/ StopBackgroundRefresh \/ BackgroundTick
           \/ SignsInOrOut \/ UNCHANGED statusesVars
           \/ \E r \in Refs : Ages(r) \/ Progresses(r)
  BY <1>8, AroundInv
<1> QED
  BY <1>1, <1>2, <1>3, <1>4, <1>5, <1>6, <1>7, <1>8 DEF StatusesNext

\* The store's state has its types, and each subscriber is in the set of its
\* ref's subscription, so that nobody else's leaving ends it: also when the
\* subscription was replaced for a branch (commit-status-store.ts
\* getOrCreateSubscription and the Disposable of subscribe).
THEOREM SubscribersStay == StatusesSpec => []StatusesTypeOK
<1>1. StatusesInv => StatusesTypeOK
  BY DEF StatusesInv, StatusesTypeInv
<1> QED
  BY <1>1, InitStatuses, NextStatuses, PTL DEF StatusesSpec

\* Whoever subscribes to the status of a commit shows what the store has
\* cached, or nothing yet, however many refreshes run at the same time, unless
\* the subscription was renewed during a refresh for the old one.
THEOREM SubscribersAreTold == StatusesSpec => []ShowsWhatIsCached
<1>1. StatusesInv => ShowsWhatIsCached
  BY DEF StatusesInv
<1> QED
  BY <1>1, InitStatuses, NextStatuses, PTL DEF StatusesSpec

\* What is told to a set of r is no older than what its callbacks show, if it
\* is the server's last, or what a refresh has found, and that is no older.
LEMMA ToldIsNewer ==
  ASSUME StatusesInv, NEW r \in Refs, NEW s, NEW k \in Check, Told(r, s, k),
         NEW c \in Callbacks, joined[c] # Null, shows[c] # Null,
         joined[c][1] = r => shows[c].version <= k.version
  PROVE  shows'[c].version >= shows[c].version
<1>1. shows[c].version \in Nat /\ k.version \in Nat
  BY ShownType, CommitStatusesAssumption
  DEF StatusesInv, StatusesTypeInv, Check
<1>2. shows'[c] = IF joined[c] = <<r, s>> THEN k ELSE shows[c]
  BY DEF Told
<1>3. CASE joined[c] = <<r, s>>
  BY <1>1, <1>2, <1>3
<1>4. CASE joined[c] # <<r, s>>
  BY <1>1, <1>2, <1>4
<1> QED
  BY <1>3, <1>4

LEMMA StepNotOlder ==
  ASSUME StatusesInv, StatusesNext, NEW c \in Callbacks,
         joined[c] # Null, joined'[c] = joined[c], shows[c] # Null
  PROVE  shows'[c].version >= shows[c].version \/ RerunUnknown(c)
<1>1. StatusesTypeOK
  BY DEF StatusesInv, StatusesTypeInv
<1>2. shows[c].version \in Nat
  BY <1>1, ShownType
<1>3. CASE shows'[c] = shows[c]
  BY <1>2, <1>3
<1>4. ASSUME NEW d \in Callbacks, NEW r \in Refs, NEW b \in BOOLEAN,
             Subscribe(d, r, b)
      PROVE  shows'[c] = shows[c]
  BY <1>1, <1>4 DEF Subscribe, StatusesTypeOK
<1>5. ASSUME NEW d \in Callbacks, Unsubscribe(d) PROVE shows'[c] = shows[c]
  BY <1>1, <1>5 DEF Unsubscribe, StatusesTypeOK
<1>6. ASSUME NEW r \in Refs, ManualRefresh(r)
      PROVE  shows'[c].version >= shows[c].version
  <2> DEFINE k == [Cached(r) EXCEPT !.pending = TRUE,
                                    !.version = server[r] + 1]
  <2>1. CASE shows' = shows
    BY <1>2, <2>1
  <2>2. CASE Cached(r) # Null /\ Told(r, subscriptions[r].set, k)
    <3>1. PICK e \in Check : e = Cached(r)
      BY <1>1, <2>2, CachedType
    <3>2. server[r] + 1 \in 0..MaxActs
      <4>1. /\ server[r] \in Nat /\ server[r] <= acts
            /\ acts \in Nat /\ acts < MaxActs /\ MaxActs \in Nat
        BY <1>1, <1>6, CommitStatusesAssumption
        DEF ManualRefresh, Act, StatusesInv, StatusesTypeInv, StatusesTypeOK,
            ServerInv
      <4> QED
        BY <4>1
    <3>3. k = [version |-> server[r] + 1, workflows |-> e.workflows,
               pending |-> TRUE]
      <4>1. k = [e EXCEPT !.pending = TRUE, !.version = server[r] + 1]
        BY <3>1
      <4> HIDE DEF k
      <4> QED
        BY <3>1, <4>1 DEF Check
    <3>4. k \in Check /\ k.version = server[r] + 1
      BY <3>1, <3>2, <3>3 DEF Check
    <3>5. joined[c][1] = r => shows[c].version <= k.version
      <4>1. joined[c][1] = r => shows[c].version <= server[r]
        BY DEF StatusesInv, ShownInv
      <4>2. server[r] \in Nat
        BY <1>1, CommitStatusesAssumption DEF StatusesTypeOK
      <4> QED
        BY <1>2, <3>4, <4>1, <4>2
    <3> HIDE DEF k
    <3> QED
      BY <2>2, <3>4, <3>5, ToldIsNewer
  <2> QED
    BY <1>6, <2>1, <2>2 DEF ManualRefresh
<1>7. ASSUME NEW j \in Jobs, FetchEnds(j)
      PROVE  shows'[c].version >= shows[c].version \/ RerunUnknown(c)
  <2>1. j \in Fetching
    BY <1>7 DEF FetchEnds
  <2> PICK r \in Refs : r = jobs[j].ref
    BY <1>1, <2>1, FetchingType
  <2>2. jobs[j].since \in 0..MaxActs /\ server[r] \in 0..MaxActs
    BY <1>1, <2>1, FetchingType DEF StatusesTypeOK
  <2>3. PICK v \in jobs[j].since..server[r], w \in Workflows(j) :
          Told(r, jobs[j].set,
               [version |-> v, pending |-> FALSE, workflows |-> w])
    BY <1>7 DEF FetchEnds, Notify
  <2>4. PICK k : k = [version |-> v, pending |-> FALSE, workflows |-> w]
    OBVIOUS
  <2>5. v \in 0..MaxActs /\ v \in Nat /\ jobs[j].since <= v
    BY <2>2, CommitStatusesAssumption
  <2>6. k \in Check /\ k.version = v
    BY <1>1, <2>1, <2>4, <2>5, WorkflowsType DEF Check
  <2>7. ASSUME ~RerunUnknown(c), joined[c][1] = r
        PROVE  shows[c].version <= v
    <3>1. shows[c].version <= jobs[j].since
      <4>1. CASE shows[c].pending
        BY <1>2, <2>1, <2>2, <2>7, <4>1 DEF RerunUnknown
      <4>2. CASE ~shows[c].pending
        BY <2>1, <2>7, <4>2 DEF StatusesInv, ShownInv, NoOlder
      <4> QED
        BY <4>1, <4>2
    <3> QED
      BY <1>2, <2>2, <2>5, <3>1
  <2> QED
    BY <2>3, <2>4, <2>6, <2>7, ToldIsNewer
<1>8. CASE shows' = shows
  BY <1>3, <1>8
<1> QED
  BY <1>3, <1>4, <1>5, <1>6, <1>7, <1>8
  DEF StatusesNext, Ages, Progresses, RefreshEligible, BeginFetch, FetchFails,
      FetchThrows, StartBackgroundRefresh, StopBackgroundRefresh,
      BackgroundTick, SignsInOrOut, store

\* A status never gives way to an older one, in whatever order the answers of
\* the API come, because a ref has one refresh at a time.  Only a status set
\* to pending by hand may, and only to the answer of a refresh that was under
\* way before the rerun (commit-status-store.ts manualRefreshSubscription).
THEOREM StatusesMoveOn == StatusesSpec => NeverOlder
<1>1. StatusesInv /\ StatusesNext =>
        \A c \in Callbacks :
          joined[c] # Null /\ joined'[c] = joined[c] /\ shows[c] # Null =>
            shows'[c].version >= shows[c].version \/ RerunUnknown(c)
  BY StepNotOlder
<1> QED
  BY <1>1, InitStatuses, NextStatuses, PTL DEF StatusesSpec, NeverOlder
===============================================================================
