--------------------- MODULE RepositoryIndicators_proof ---------------------
(***************************************************************************)
(* What holds of the refresh of the sidebar indicators for any number of   *)
(* repositories and loops, and any interval.                               *)
(***************************************************************************)
EXTENDS RepositoryIndicators, SequenceTheorems, TLAPS

-----------------------------------------------------------------------------
\* What the helpers return.

LEMMA DelayType ==
  ASSUME NEW since \in 0..Interval
  PROVE  Delay(since) \in 0..NoTimer /\ Delay(since) # NoTimer
BY IndicatorsAssumption DEF Delay, NoTimer

LEMMA ArmedType ==
  ASSUME NEW since \in 0..Interval, NEW t \in 0..NoTimer, NEW on \in BOOLEAN
  PROVE  /\ Armed(t, on, since) \in 0..NoTimer
         /\ on => Armed(t, on, since) # NoTimer
         /\ ~on => Armed(t, on, since) = t
BY DelayType DEF Armed

LEMMA FiredType == Fired \in 0..NoTimer /\ 0 \in 0..Interval /\ 0 # NoTimer
BY IndicatorsAssumption DEF Fired, NoTimer

\* The variables a step of a loop changes keep their types.
LEMMA GoOnType ==
  ASSUME TypeOK, NEW l \in Loops, NEW finished \in SUBSET Repositories,
         NEW t \in 0..NoTimer, GoOn(l, finished, t), sinceStart' \in 0..Interval
  PROVE  /\ timer' \in 0..NoTimer
         /\ at' \in [Loops -> {"none", "before", "refreshing", "after"}]
         /\ repository' \in [Loops -> Repositories \cup {None}]
         /\ done' \in [Loops -> SUBSET Repositories]
<1>1. timer' \in 0..NoTimer
  BY ArmedType DEF GoOn, TypeOK
<1>2. ToDo(finished) \subseteq Repositories
  BY DEF ToDo
<1> QED
  BY <1>1, <1>2 DEF GoOn, TypeOK

LEMMA GiveUpType ==
  ASSUME TypeOK, NEW l \in Loops, GiveUp(l)
  PROVE  /\ timer' \in 0..NoTimer
         /\ at' \in [Loops -> {"none", "before", "refreshing", "after"}]
         /\ repository' \in [Loops -> Repositories \cup {None}]
         /\ done' \in [Loops -> SUBSET Repositories]
BY DEF GiveUp, TypeOK

\* A loop that is done with a repository has only seen repositories.
LEMMA FinishedType ==
  ASSUME TypeOK, NEW l \in Loops, at[l] \in {"refreshing", "after"},
         repository[l] # None
  PROVE  done[l] \cup {repository[l]} \in SUBSET Repositories
BY DEF TypeOK

-----------------------------------------------------------------------------
\* The type invariant, with what it rests on: a loop that is past its first
\* repository has one.

BusyInv == \A l \in Loops :
             at[l] \in {"refreshing", "after"} => repository[l] # None

TypeInv == TypeOK /\ BusyInv

LEMMA NoneIsNone == None \notin Repositories
BY DEF None, Repositories

LEMMA GoOnBusy ==
  ASSUME TypeInv, NEW l \in Loops, NEW finished, NEW t, GoOn(l, finished, t)
  PROVE  BusyInv'
<1>1. ToDo(finished) \subseteq Repositories
  BY DEF ToDo
<1> QED
  BY <1>1, NoneIsNone DEF TypeInv, TypeOK, BusyInv, GoOn

LEMMA InitTypeInv == Init => TypeInv
<1> SUFFICES ASSUME Init PROVE TypeInv
  OBVIOUS
<1>1. /\ timer \in 0..NoTimer /\ sinceStart \in 0..Interval
  BY IndicatorsAssumption DEF Init, NoTimer
<1>2. waiters \in Seq(Loops)
  BY DEF Init
<1>3. BusyInv
  BY DEF Init, BusyInv
<1>4. /\ at \in [Loops -> {"none", "before", "refreshing", "after"}]
      /\ repository \in [Loops -> Repositories \cup {None}]
      /\ done \in [Loops -> SUBSET Repositories]
  BY DEF Init
<1>5. /\ enabled \in BOOLEAN /\ running \in BOOLEAN /\ paused \in BOOLEAN
      /\ outlived \in BOOLEAN /\ threw \in BOOLEAN
      /\ selected \in Repositories \cup {None}
  BY DEF Init
<1> QED
  BY <1>1, <1>2, <1>3, <1>4, <1>5 DEF TypeInv, TypeOK

\* Switching, launching, pausing, selecting and time.
LEMMA OutsideTypeInv ==
  ASSUME TypeInv,
         \/ Launch \/ SwitchOn \/ SwitchOff \/ Pause \/ Resume \/ TimePasses
         \/ \E r \in Repositories \cup {None} : Select(r)
  PROVE  TypeInv'
<1>1. CASE Launch \/ SwitchOn
  <2>1. timer' \in 0..NoTimer
    BY <1>1, ArmedType DEF Launch, SwitchOn, Started, TypeInv, TypeOK
  <2> QED
    BY <1>1, <2>1 DEF Launch, SwitchOn, Started, TypeInv, TypeOK, BusyInv,
       switch, loopVars
<1>2. CASE SwitchOff
  <2>1. timer' \in 0..NoTimer
    BY <1>2, FiredType DEF SwitchOff, Stopped, TypeInv, TypeOK, Fired
  <2> QED
    BY <1>2, <2>1 DEF SwitchOff, Stopped, TypeInv, TypeOK, BusyInv, loopVars
<1>3. CASE Pause \/ Resume \/ \E r \in Repositories \cup {None} : Select(r)
  BY <1>3 DEF Pause, Resume, Select, TypeInv, TypeOK, BusyInv, switch, loopVars
<1>4. CASE TimePasses
  <2>1. timer' \in 0..NoTimer /\ sinceStart' \in 0..Interval
    BY <1>4, IndicatorsAssumption DEF TimePasses, TypeInv, TypeOK, NoTimer
  <2> QED
    BY <1>4, <2>1 DEF TimePasses, TypeInv, TypeOK, BusyInv, switch, loopVars
<1> QED
  BY <1>1, <1>2, <1>3, <1>4

LEMMA TimerFiresTypeInv ==
  ASSUME TypeInv, NEW l \in Loops, TimerFires(l)
  PROVE  TypeInv'
<1>1. CASE paused
  <2>1. timer' \in 0..NoTimer
    BY <1>1, FiredType DEF TimerFires
  <2>2. waiters' \in Seq(Loops)
    BY <1>1 DEF TimerFires, TypeInv, TypeOK
  <2> QED
    BY <1>1, <2>1, <2>2 DEF TimerFires, TypeInv, TypeOK, BusyInv, switch
<1>2. CASE ~paused
  <2>1. sinceStart' \in 0..Interval
    BY <1>2, FiredType DEF TimerFires
  <2>2. GoOn(l, {}, Fired) /\ Fired \in 0..NoTimer
    BY <1>2, FiredType DEF TimerFires
  <2> QED
    BY <1>2, <2>1, <2>2, GoOnType, GoOnBusy
    DEF TimerFires, TypeInv, TypeOK, switch
<1> QED
  BY <1>1, <1>2

LEMMA RepositoryRefreshedTypeInv ==
  ASSUME TypeInv, NEW l \in Loops, RepositoryRefreshed(l)
  PROVE  TypeInv'
<1>1. CASE Pauses
  <2>1. waiters' \in Seq(Loops)
    BY <1>1 DEF RepositoryRefreshed, TypeInv, TypeOK
  <2> QED
    BY <1>1, <2>1 DEF RepositoryRefreshed, TypeInv, TypeOK, BusyInv, switch
<1>2. CASE ~Pauses
  <2>1. done[l] \cup {repository[l]} \in SUBSET Repositories
    BY FinishedType DEF RepositoryRefreshed, TypeInv, BusyInv
  <2>2. /\ GoOn(l, done[l] \cup {repository[l]}, timer)
        /\ timer \in 0..NoTimer /\ sinceStart' \in 0..Interval
    BY <1>2 DEF RepositoryRefreshed, TypeInv, TypeOK
  <2>3. UNCHANGED <<switch, running, paused, sinceStart, selected, waiters>>
    BY <1>2 DEF RepositoryRefreshed
  <2> QED
    BY <2>1, <2>2, <2>3, GoOnType, GoOnBusy DEF TypeInv, TypeOK, switch
<1> QED
  BY <1>1, <1>2

LEMMA RefreshThrowsTypeInv ==
  ASSUME TypeInv, NEW l \in Loops, RefreshThrows(l)
  PROVE  TypeInv'
<1>1. BusyInv'
  BY DEF RefreshThrows, GiveUp, TypeInv, TypeOK, BusyInv
<1> QED
  BY <1>1, GiveUpType DEF RefreshThrows, TypeInv, TypeOK

LEMMA PauseIsOverTypeInv ==
  ASSUME TypeInv, NEW l \in Loops, PauseIsOver(l)
  PROVE  TypeInv'
<1>1. waiters' \in Seq(Loops)
  BY HeadTailProperties DEF PauseIsOver, Settled, TypeInv, TypeOK
<1>2. UNCHANGED <<switch, running, paused, selected>>
  BY DEF PauseIsOver
<1>3. CASE at[l] = "before" /\ ~running
  <2>1. GiveUp(l) /\ sinceStart' = sinceStart
    BY <1>3 DEF PauseIsOver
  <2>2. BusyInv'
    BY <2>1 DEF GiveUp, TypeInv, TypeOK, BusyInv
  <2> QED
    BY <1>1, <1>2, <2>1, <2>2, GiveUpType DEF TypeInv, TypeOK, switch
<1>4. CASE at[l] = "before" /\ running
  <2>1. GoOn(l, {}, timer) /\ sinceStart' \in 0..Interval
    BY <1>4, FiredType DEF PauseIsOver
  <2> QED
    BY <1>1, <1>2, <2>1, GoOnType, GoOnBusy DEF TypeInv, TypeOK, switch
<1>5. CASE at[l] = "after"
  <2>1. done[l] \cup {repository[l]} \in SUBSET Repositories
    BY <1>5, FinishedType DEF TypeInv, BusyInv
  <2>2. /\ GoOn(l, done[l] \cup {repository[l]}, timer)
        /\ sinceStart' \in 0..Interval /\ timer \in 0..NoTimer
    BY <1>5 DEF PauseIsOver, TypeInv, TypeOK
  <2> QED
    BY <1>1, <1>2, <2>1, <2>2, GoOnType, GoOnBusy DEF TypeInv, TypeOK, switch
<1> QED
  BY <1>3, <1>4, <1>5 DEF PauseIsOver

LEMMA NextTypeInv == TypeInv /\ [Next]_vars => TypeInv'
<1> SUFFICES ASSUME TypeInv, [Next]_vars PROVE TypeInv'
  OBVIOUS
<1>1. CASE UNCHANGED vars
  BY <1>1 DEF TypeInv, TypeOK, BusyInv, vars, switch, loopVars
<1>2. CASE Next
  BY <1>2, OutsideTypeInv, TimerFiresTypeInv, RepositoryRefreshedTypeInv,
     RefreshThrowsTypeInv, PauseIsOverTypeInv DEF Next
<1> QED
  BY <1>1, <1>2

\* Every variable of the updater stays in its type.
THEOREM TypeCorrect == Spec => []TypeOK
<1>1. TypeInv => TypeOK
  BY DEF TypeInv
<1> QED
  BY <1>1, InitTypeInv, NextTypeInv, PTL DEF Spec
-----------------------------------------------------------------------------
\* The refresh never stalls.

\* Only what is enabled runs: to switch on arms a timeout, then.
StallInv == TypeInv /\ (running => enabled) /\ NeverStalls

\* A loop that goes on is still there, or has armed a timeout.
LEMMA GoOnRefreshes ==
  ASSUME TypeInv, NEW l \in Loops, NEW finished, NEW t \in 0..NoTimer,
         GoOn(l, finished, t), sinceStart' \in 0..Interval,
         running' = running
  PROVE  RefreshesWhileOn'
<1>1. CASE at' = [at EXCEPT ![l] = "refreshing"]
  <2>1. at'[l] = "refreshing"
    BY <1>1 DEF TypeInv, TypeOK
  <2> QED
    BY <2>1 DEF RefreshesWhileOn, Active
<1>2. CASE timer' = Armed(t, running, sinceStart')
  BY <1>2, ArmedType DEF RefreshesWhileOn, TypeInv, TypeOK
<1> QED
  BY <1>1, <1>2 DEF GoOn

LEMMA InitStall == Init => StallInv
BY InitTypeInv DEF Init, StallInv, NeverStalls, RefreshesWhileOn

LEMMA OutsideStall ==
  ASSUME StallInv,
         \/ Launch \/ SwitchOn \/ SwitchOff \/ Pause \/ Resume \/ TimePasses
         \/ \E r \in Repositories \cup {None} : Select(r)
  PROVE  (running => enabled)' /\ NeverStalls'
<1>1. CASE Launch \/ SwitchOn
  <2>1. ~running
    BY <1>1 DEF Launch, SwitchOn, StallInv
  <2>2. timer' = Armed(timer, TRUE, sinceStart)
    BY <1>1, <2>1 DEF Launch, SwitchOn, Started, StallInv, TypeInv, TypeOK
  <2>3. timer' # NoTimer
    BY <2>2, ArmedType DEF StallInv, TypeInv, TypeOK
  <2> QED
    BY <1>1, <2>3 DEF Launch, SwitchOn, switch, StallInv, NeverStalls,
       RefreshesWhileOn
<1>2. CASE SwitchOff
  BY <1>2 DEF SwitchOff, Stopped, NeverStalls, RefreshesWhileOn
<1>3. CASE Pause \/ Resume \/ \E r \in Repositories \cup {None} : Select(r)
  BY <1>3 DEF Pause, Resume, Select, StallInv, NeverStalls, RefreshesWhileOn,
     Active, switch, loopVars
<1>4. CASE TimePasses
  <2>1. timer' = NoTimer => timer = NoTimer
    BY <1>4, IndicatorsAssumption DEF TimePasses, StallInv, TypeInv, TypeOK,
       NoTimer
  <2> QED
    BY <1>4, <2>1 DEF TimePasses, StallInv, NeverStalls, RefreshesWhileOn,
       Active, switch, loopVars
<1> QED
  BY <1>1, <1>2, <1>3, <1>4

LEMMA TimerFiresStall ==
  ASSUME StallInv, NEW l \in Loops, TimerFires(l)
  PROVE  NeverStalls'
<1>1. CASE paused
  <2>1. at'[l] = "before"
    BY <1>1 DEF TimerFires, StallInv, TypeInv, TypeOK
  <2> QED
    BY <2>1 DEF NeverStalls, RefreshesWhileOn, Active
<1>2. CASE ~paused
  <2>1. /\ GoOn(l, {}, Fired) /\ Fired \in 0..NoTimer
        /\ sinceStart' \in 0..Interval /\ running' = running
    BY <1>2, FiredType DEF TimerFires
  <2> QED
    BY <2>1, GoOnRefreshes DEF StallInv, NeverStalls
<1> QED
  BY <1>1, <1>2

LEMMA RepositoryRefreshedStall ==
  ASSUME StallInv, NEW l \in Loops, RepositoryRefreshed(l)
  PROVE  NeverStalls'
<1>1. CASE Pauses
  <2>1. at'[l] = "after"
    BY <1>1 DEF RepositoryRefreshed, StallInv, TypeInv, TypeOK
  <2> QED
    BY <2>1 DEF NeverStalls, RefreshesWhileOn, Active
<1>2. CASE ~Pauses
  <2>1. /\ GoOn(l, done[l] \cup {repository[l]}, timer)
        /\ timer \in 0..NoTimer /\ sinceStart' \in 0..Interval
        /\ running' = running
    BY <1>2 DEF RepositoryRefreshed, StallInv, TypeInv, TypeOK
  <2> QED
    BY <2>1, GoOnRefreshes DEF StallInv, NeverStalls
<1> QED
  BY <1>1, <1>2

LEMMA PauseIsOverStall ==
  ASSUME StallInv, NEW l \in Loops, PauseIsOver(l)
  PROVE  NeverStalls'
<1>1. running' = running /\ timer \in 0..NoTimer
  BY DEF PauseIsOver, StallInv, TypeInv, TypeOK
<1>2. CASE ~running
  BY <1>1, <1>2 DEF NeverStalls, RefreshesWhileOn
<1>3. CASE running
  <2>1. PICK finished : GoOn(l, finished, timer) /\ sinceStart' \in 0..Interval
    BY <1>3, FiredType DEF PauseIsOver, StallInv, TypeInv, TypeOK
  <2> QED
    BY <1>1, <2>1, GoOnRefreshes DEF StallInv, NeverStalls
<1> QED
  BY <1>2, <1>3

LEMMA NextStall == StallInv /\ [Next]_vars => StallInv'
<1> SUFFICES ASSUME StallInv, [Next]_vars PROVE StallInv'
  OBVIOUS
<1>1. TypeInv'
  BY NextTypeInv DEF StallInv
<1>2. CASE UNCHANGED vars
  BY <1>1, <1>2 DEF StallInv, NeverStalls, RefreshesWhileOn, Active, vars,
     switch, loopVars
<1>3. ASSUME NEW l \in Loops,
             \/ TimerFires(l) \/ RepositoryRefreshed(l) \/ RefreshThrows(l)
             \/ PauseIsOver(l)
      PROVE  StallInv'
  <2>1. UNCHANGED <<running, enabled>>
    BY <1>3 DEF TimerFires, RepositoryRefreshed, RefreshThrows, PauseIsOver,
       switch
  <2>2. NeverStalls'
    <3>1. CASE RefreshThrows(l)
      BY <3>1 DEF RefreshThrows, NeverStalls
    <3> QED
      BY <1>3, <3>1, TimerFiresStall, RepositoryRefreshedStall, PauseIsOverStall
  <2> QED
    BY <1>1, <2>1, <2>2 DEF StallInv
<1> QED
  BY <1>1, <1>2, <1>3, OutsideStall DEF Next, StallInv

\* While the indicators are on, a timeout or a loop is under way that will
\* refresh them again, unless a refresh threw: whatever pauses, switches and
\* selections came between.
THEOREM NeverStallsAlways == Spec => []NeverStalls
<1>1. StallInv => NeverStalls
  BY DEF StallInv
<1> QED
  BY <1>1, InitStall, NextStall, PTL DEF Spec

-----------------------------------------------------------------------------
\* What is off stays off.

OffInv == TypeInv /\ OffMeansNoTimer

LEMMA GoOnOff ==
  ASSUME OffInv, NEW l \in Loops, NEW finished, NEW t \in {timer, NoTimer},
         GoOn(l, finished, t), sinceStart' \in 0..Interval,
         running' = running
  PROVE  OffMeansNoTimer'
<1>1. timer' = t \/ timer' = Armed(t, running, sinceStart')
  BY DEF GoOn
<1>2. CASE ~running
  BY <1>1, <1>2 DEF Armed, OffInv, OffMeansNoTimer
<1> QED
  BY <1>2 DEF OffMeansNoTimer, OffInv, TypeInv, TypeOK

LEMMA InitOff == Init => OffInv
BY InitTypeInv DEF Init, OffInv, OffMeansNoTimer

LEMMA NextOff == OffInv /\ [Next]_vars => OffInv'
<1> SUFFICES ASSUME OffInv, [Next]_vars PROVE OffInv'
  OBVIOUS
<1>1. TypeInv'
  BY NextTypeInv DEF OffInv
<1>2. OffMeansNoTimer'
  <2>1. CASE Launch \/ SwitchOn
    BY <2>1 DEF Launch, SwitchOn, Started, OffMeansNoTimer
  <2>2. CASE SwitchOff
    BY <2>2 DEF SwitchOff, Stopped, OffInv, OffMeansNoTimer
  <2>3. CASE UNCHANGED <<running, timer>>
    BY <2>3 DEF OffInv, OffMeansNoTimer
  <2>4. CASE Pause \/ Resume \/ \E r \in Repositories \cup {None} : Select(r)
    BY <2>3, <2>4 DEF Pause, Resume, Select
  <2>5. CASE TimePasses
    BY <2>5, IndicatorsAssumption DEF TimePasses, OffInv, OffMeansNoTimer,
       TypeInv, TypeOK, NoTimer
  <2>6. ASSUME NEW l \in Loops, TimerFires(l) PROVE OffMeansNoTimer'
    <3>1. CASE paused
      BY <2>6, <3>1 DEF TimerFires, Fired, OffMeansNoTimer
    <3>2. CASE ~paused
      BY <2>6, <3>2, GoOnOff, FiredType DEF TimerFires, Fired
    <3> QED
      BY <3>1, <3>2
  <2>7. ASSUME NEW l \in Loops, RepositoryRefreshed(l) PROVE OffMeansNoTimer'
    <3>1. CASE Pauses
      BY <2>3, <2>7, <3>1 DEF RepositoryRefreshed
    <3>2. CASE ~Pauses
      BY <2>7, <3>2, GoOnOff DEF RepositoryRefreshed, OffInv, TypeInv, TypeOK
    <3> QED
      BY <3>1, <3>2
  <2>8. ASSUME NEW l \in Loops, RefreshThrows(l) PROVE OffMeansNoTimer'
    BY <2>3, <2>8 DEF RefreshThrows, GiveUp
  <2>9. ASSUME NEW l \in Loops, PauseIsOver(l) PROVE OffMeansNoTimer'
    <3>1. running' = running
      BY <2>9 DEF PauseIsOver
    <3>2. CASE GiveUp(l)
      BY <2>3, <3>1, <3>2 DEF GiveUp
    <3>3. CASE ~GiveUp(l)
      <4>1. PICK finished :
              GoOn(l, finished, timer) /\ sinceStart' \in 0..Interval
        BY <2>9, <3>3, FiredType DEF PauseIsOver, OffInv, TypeInv, TypeOK
      <4> QED
        BY <3>1, <4>1, GoOnOff
    <3> QED
      BY <3>2, <3>3
  <2>10. CASE UNCHANGED vars
    BY <2>3, <2>10 DEF vars, switch
  <2> QED
    BY <2>1, <2>2, <2>4, <2>5, <2>6, <2>7, <2>8, <2>9, <2>10 DEF Next
<1> QED
  BY <1>1, <1>2 DEF OffInv

\* With the indicators off no timeout is left that could refresh them, not
\* even one armed by a loop that was under way when they went off.
THEOREM OffIsQuiet == Spec => []OffMeansNoTimer
<1>1. OffInv => OffMeansNoTimer
  BY DEF OffInv
<1> QED
  BY <1>1, InitOff, NextOff, PTL DEF Spec
-----------------------------------------------------------------------------
\* Nothing begins out of focus.

\* What QuietWhilePaused says of one step.
Quiet == \A l \in Loops :
           at'[l] = "refreshing" /\ repository'[l] # repository[l] => ~paused

LEMMA NextQuiet == TypeInv /\ [Next]_vars => [Quiet]_vars
<1> SUFFICES ASSUME TypeInv, Next PROVE Quiet
  BY DEF Quiet
<1>1. CASE UNCHANGED repository
  BY <1>1 DEF Quiet
<1>2. ASSUME NEW l \in Loops, TimerFires(l) PROVE Quiet
  <2>1. CASE paused
    BY <1>1, <1>2, <2>1 DEF TimerFires
  <2> QED
    BY <2>1 DEF Quiet
<1>3. ASSUME NEW l \in Loops, RepositoryRefreshed(l) PROVE Quiet
  BY <1>1, <1>3 DEF RepositoryRefreshed, Pauses, Quiet
<1>4. ASSUME NEW l \in Loops, RefreshThrows(l) PROVE Quiet
  BY <1>4, NoneIsNone DEF RefreshThrows, GiveUp, Quiet, TypeInv, TypeOK
<1>5. ASSUME NEW l \in Loops, PauseIsOver(l) PROVE Quiet
  BY <1>5 DEF PauseIsOver, Settled, Quiet
<1>6. CASE Launch \/ SwitchOn \/ SwitchOff \/ Pause \/ Resume \/ TimePasses
  BY <1>1, <1>6 DEF Launch, SwitchOn, SwitchOff, Pause, Resume, TimePasses,
     loopVars
<1>7. ASSUME NEW r, Select(r) PROVE Quiet
  BY <1>1, <1>7 DEF Select, loopVars
<1> QED
  BY <1>2, <1>3, <1>4, <1>5, <1>6, <1>7 DEF Next

\* No loop takes up a repository while the window has no focus.
THEOREM QuietOutOfFocus == Spec => QuietWhilePaused
<1>1. TypeInv /\ [Next]_vars => [Quiet]_vars
  BY NextQuiet
<1>2. QuietWhilePaused <=> [][Quiet]_vars
  BY PTL DEF QuietWhilePaused, Quiet
<1> QED
  BY <1>1, <1>2, InitTypeInv, NextTypeInv, PTL DEF Spec
-----------------------------------------------------------------------------
\* Refreshes are spaced.

\* While no loop outlived a switch off, there is one thing at a time: a loop,
\* or a timeout that will not fire before Interval has passed since the last
\* refresh began.
OneAtATime ==
  /\ \A l, m \in Active : l = m
  /\ Active # {} => timer = NoTimer /\ running
  /\ timer # NoTimer => timer + sinceStart >= Interval
  /\ \A l \in Loops : at[l] = "before" => sinceStart = Interval

SpacedInv == StallInv /\ OffMeansNoTimer /\ (outlived \/ OneAtATime)

\* What RefreshesSpaced says of one step.
Spaced == sinceStart' = 0 /\ sinceStart # 0 => sinceStart >= Interval \/ outlived

\* A timeout that is armed leaves Interval between two refreshes.
LEMMA ArmedSpaced ==
  ASSUME NEW on \in BOOLEAN, NEW since \in 0..Interval
  PROVE  LET t == Armed(NoTimer, on, since) IN
           t # NoTimer => t + since >= Interval
BY IndicatorsAssumption DEF Armed, Delay, NoTimer

\* The loop that goes on was alone, and stays so or arms the timeout.
LEMMA GoOnSpaced ==
  ASSUME TypeInv, NEW l \in Loops, NEW finished, GoOn(l, finished, NoTimer),
         Active \subseteq {l}, sinceStart' \in 0..Interval, UNCHANGED running
  PROVE  OneAtATime'
<1>1. \A m \in Loops : m # l => at'[m] = "none"
  BY DEF GoOn, TypeInv, TypeOK, Active
<1>2. CASE at' = [at EXCEPT ![l] = "refreshing"] /\ running /\ timer' = NoTimer
  <2>1. at'[l] = "refreshing"
    BY <1>2 DEF TypeInv, TypeOK
  <2> QED
    BY <1>1, <1>2, <2>1 DEF OneAtATime, Active, NoTimer
<1>3. CASE /\ at' = [at EXCEPT ![l] = "none"]
           /\ timer' = Armed(NoTimer, running, sinceStart')
  <2>1. at'[l] = "none"
    BY <1>3 DEF TypeInv, TypeOK
  <2>2. timer' # NoTimer => timer' + sinceStart' >= Interval
    BY <1>3, ArmedSpaced DEF TypeInv, TypeOK
  <2> QED
    BY <1>1, <2>1, <2>2 DEF OneAtATime, Active, NoTimer
<1> QED
  BY <1>2, <1>3 DEF GoOn

\* A loop that gives up leaves nothing behind.
LEMMA GiveUpSpaced ==
  ASSUME TypeInv, OneAtATime, NEW l \in Active, GiveUp(l)
  PROVE  OneAtATime'
<1>1. \A m \in Loops : at'[m] = "none"
  BY DEF GiveUp, TypeInv, TypeOK, OneAtATime, Active
<1>2. timer' = NoTimer
  BY DEF GiveUp, OneAtATime
<1> QED
  BY <1>1, <1>2 DEF OneAtATime, Active, NoTimer

LEMMA OutsideSpaced ==
  ASSUME SpacedInv,
         \/ Launch \/ SwitchOn \/ SwitchOff \/ Pause \/ Resume \/ TimePasses
         \/ \E r \in Repositories \cup {None} : Select(r)
  PROVE  (outlived \/ OneAtATime)'
<1>1. CASE outlived
  BY <1>1 DEF Launch, SwitchOn, SwitchOff, Pause, Resume, TimePasses, Select,
     switch
<1>2. CASE ~outlived
  <2>1. OneAtATime /\ TypeOK
    BY <1>2 DEF SpacedInv, StallInv, TypeInv
  <2>2. CASE Launch \/ SwitchOn
    <3>1. ~running /\ Active = {} /\ timer = NoTimer
      BY <2>1, <2>2 DEF Launch, SwitchOn, SpacedInv, StallInv, OneAtATime,
         OffMeansNoTimer
    <3>2. /\ timer' = Armed(NoTimer, TRUE, sinceStart)
          /\ UNCHANGED <<at, sinceStart>>
      BY <2>2, <3>1 DEF Launch, SwitchOn, Started, loopVars
    <3>3. timer' + sinceStart' >= Interval
      BY <2>1, <3>2, ArmedSpaced, ArmedType, FiredType DEF TypeOK, Fired
    <3> QED
      BY <2>1, <3>1, <3>2, <3>3 DEF OneAtATime, Active
  <2>3. CASE SwitchOff
    <3>1. CASE Active = {}
      BY <2>1, <2>3, <3>1
      DEF SwitchOff, Stopped, loopVars, OneAtATime, Active, NoTimer
    <3>2. CASE Active # {}
      BY <2>3, <3>2 DEF SwitchOff
    <3> QED
      BY <3>1, <3>2
  <2>4. CASE Pause \/ Resume \/ \E r \in Repositories \cup {None} : Select(r)
    <3>1. UNCHANGED <<at, timer, sinceStart, running>>
      BY <2>4 DEF Pause, Resume, Select, loopVars
    <3> QED
      BY <2>1, <3>1 DEF OneAtATime, Active, NoTimer
  <2>5. CASE TimePasses
    <3>1. timer' = NoTimer <=> timer = NoTimer
      BY <2>1, <2>5, IndicatorsAssumption DEF TimePasses, TypeOK, NoTimer
    <3>2. timer + sinceStart >= Interval => timer' + sinceStart' >= Interval
      BY <2>1, <2>5, IndicatorsAssumption DEF TimePasses, TypeOK, NoTimer
    <3>3. UNCHANGED <<at, running>>
      BY <2>5 DEF TimePasses, loopVars
    <3>4. sinceStart = Interval => sinceStart' = Interval
      BY <2>5, IndicatorsAssumption DEF TimePasses
    <3> QED
      BY <2>1, <3>1, <3>2, <3>3, <3>4 DEF OneAtATime, Active, NoTimer
  <2> QED
    BY <2>2, <2>3, <2>4, <2>5
<1> QED
  BY <1>1, <1>2

LEMMA TimerFiresSpaced ==
  ASSUME SpacedInv, NEW l \in Loops, TimerFires(l)
  PROVE  Spaced /\ (outlived \/ OneAtATime)'
<1>1. CASE outlived
  BY <1>1 DEF TimerFires, switch, Spaced
<1>2. CASE ~outlived
  <2>1. OneAtATime /\ TypeInv /\ TypeOK
    BY <1>2 DEF SpacedInv, StallInv, TypeInv
  <2>2. timer = 0 /\ timer # NoTimer
    BY IndicatorsAssumption DEF TimerFires, NoTimer
  <2>3. Active = {} /\ running /\ sinceStart = Interval
    <3>1. timer + sinceStart >= Interval /\ Active = {} /\ running
      BY <2>1, <2>2 DEF OneAtATime, SpacedInv, OffMeansNoTimer
    <3>2. sinceStart \in 0..Interval /\ Interval \in Nat
      BY <2>1, IndicatorsAssumption DEF TypeOK
    <3> QED
      BY <2>2, <3>1, <3>2
  <2>4. CASE paused
    <3>1. /\ at' = [at EXCEPT ![l] = "before"]
          /\ timer' = NoTimer /\ UNCHANGED <<sinceStart, running>>
      BY <2>4 DEF TimerFires, Fired
    <3>2. Active' = {l}
      BY <2>1, <2>3, <3>1 DEF Active, TypeOK
    <3>3. Spaced
      BY <3>1 DEF Spaced
    <3> QED
      BY <2>3, <3>1, <3>2, <3>3 DEF OneAtATime, NoTimer
  <2>5. CASE ~paused
    <3>1. /\ GoOn(l, {}, NoTimer) /\ sinceStart' \in 0..Interval
          /\ UNCHANGED running
      BY <2>5, FiredType DEF TimerFires, Fired
    <3>2. OneAtATime'
      BY <2>1, <2>3, <3>1, GoOnSpaced
    <3>3. Spaced
      BY <2>3, IndicatorsAssumption DEF Spaced
    <3> QED
      BY <3>2, <3>3
  <2> QED
    BY <2>4, <2>5
<1> QED
  BY <1>1, <1>2

LEMMA RepositoryRefreshedSpaced ==
  ASSUME SpacedInv, NEW l \in Loops, RepositoryRefreshed(l)
  PROVE  (outlived \/ OneAtATime)'
<1>1. CASE outlived
  BY <1>1 DEF RepositoryRefreshed, switch
<1>2. CASE ~outlived
  <2>1. OneAtATime /\ TypeInv /\ TypeOK
    BY <1>2 DEF SpacedInv, StallInv, TypeInv
  <2>2. Active \subseteq {l} /\ timer = NoTimer /\ running
    BY <2>1 DEF OneAtATime, Active, RepositoryRefreshed
  <2>3. CASE Pauses
    <3>1. /\ at' = [at EXCEPT ![l] = "after"]
          /\ UNCHANGED <<sinceStart, running, timer>>
      BY <2>3 DEF RepositoryRefreshed
    <3>2. \A m \in Loops : at'[m] # "none" => m = l
      BY <2>1, <2>2, <3>1 DEF Active, TypeOK
    <3> QED
      BY <2>1, <2>2, <3>1, <3>2 DEF OneAtATime, Active, TypeOK, NoTimer
  <2>4. CASE ~Pauses
    <3>1. PICK finished : GoOn(l, finished, NoTimer)
      BY <2>2, <2>4 DEF RepositoryRefreshed
    <3> QED
      BY <2>1, <2>2, <3>1, GoOnSpaced DEF RepositoryRefreshed, TypeOK
  <2> QED
    BY <2>3, <2>4
<1> QED
  BY <1>1, <1>2

LEMMA RefreshThrowsSpaced ==
  ASSUME SpacedInv, NEW l \in Loops, RefreshThrows(l)
  PROVE  (outlived \/ OneAtATime)'
<1>1. CASE outlived
  BY <1>1 DEF RefreshThrows
<1>2. CASE ~outlived
  BY <1>2, GiveUpSpaced DEF RefreshThrows, Active, SpacedInv, StallInv
<1> QED
  BY <1>1, <1>2

LEMMA PauseIsOverSpaced ==
  ASSUME SpacedInv, NEW l \in Loops, PauseIsOver(l)
  PROVE  Spaced /\ (outlived \/ OneAtATime)'
<1>1. CASE outlived
  BY <1>1 DEF PauseIsOver, switch, Spaced
<1>2. CASE ~outlived
  <2>1. OneAtATime /\ TypeInv /\ TypeOK
    BY <1>2 DEF SpacedInv, StallInv, TypeInv
  <2>2. l \in Active
    BY DEF PauseIsOver, Active
  <2>3. Active \subseteq {l} /\ timer = NoTimer /\ running
    BY <2>1, <2>2 DEF OneAtATime
  <2>4. /\ \E finished : GoOn(l, finished, NoTimer)
        /\ (sinceStart' = 0 /\ at[l] = "before") \/ sinceStart' = sinceStart
    BY <2>3 DEF PauseIsOver
  <2>5. sinceStart' \in 0..Interval
    BY <2>1, <2>4, FiredType DEF TypeOK
  <2>6. UNCHANGED running
    BY DEF PauseIsOver
  <2>7. Spaced
    BY <2>1, <2>4 DEF OneAtATime, Spaced, TypeOK
  <2> QED
    BY <2>1, <2>3, <2>4, <2>5, <2>6, <2>7, GoOnSpaced
<1> QED
  BY <1>1, <1>2

LEMMA NextSpaced == SpacedInv /\ [Next]_vars => SpacedInv' /\ [Spaced]_vars
<1> SUFFICES ASSUME SpacedInv, [Next]_vars PROVE SpacedInv' /\ [Spaced]_vars
  OBVIOUS
<1>1. StallInv' /\ OffMeansNoTimer'
  BY NextStall, NextOff DEF SpacedInv, StallInv, OffInv
<1>2. CASE UNCHANGED vars
  BY <1>1, <1>2 DEF SpacedInv, OneAtATime, Active, NoTimer, vars, switch,
     loopVars
<1>3. CASE \/ Launch \/ SwitchOn \/ SwitchOff \/ Pause \/ Resume \/ TimePasses
           \/ \E r \in Repositories \cup {None} : Select(r)
  <2>1. (outlived \/ OneAtATime)'
    BY <1>3, OutsideSpaced
  <2>2. sinceStart' = 0 => sinceStart = 0
    BY <1>3 DEF Launch, SwitchOn, SwitchOff, Pause, Resume, TimePasses, Select,
       SpacedInv, StallInv, TypeInv, TypeOK
  <2> QED
    BY <1>1, <2>1, <2>2 DEF SpacedInv, Spaced
<1>4. ASSUME NEW l \in Loops, TimerFires(l) \/ PauseIsOver(l)
      PROVE  SpacedInv' /\ Spaced
  BY <1>1, <1>4, TimerFiresSpaced, PauseIsOverSpaced DEF SpacedInv
<1>5. ASSUME NEW l \in Loops, RepositoryRefreshed(l) \/ RefreshThrows(l)
      PROVE  SpacedInv' /\ Spaced
  <2>1. sinceStart' = sinceStart
    BY <1>5 DEF RepositoryRefreshed, RefreshThrows
  <2> QED
    BY <1>1, <1>5, <2>1, RepositoryRefreshedSpaced, RefreshThrowsSpaced
    DEF SpacedInv, Spaced
<1> QED
  BY <1>2, <1>3, <1>4, <1>5 DEF Next

LEMMA InitSpaced == Init => SpacedInv
BY InitStall, InitOff DEF Init, SpacedInv, OffInv, OneAtATime, Active

\* Refreshes begin at least RefreshInterval apart, whatever pauses, late
\* timeouts and exceptions come between, until a loop outlives a switch off.
THEOREM SpacedApart == Spec => RefreshesSpaced
<1>1. RefreshesSpaced <=> [][Spaced]_vars
  BY PTL DEF RefreshesSpaced, Spaced
<1> QED
  BY <1>1, InitSpaced, NextSpaced, PTL DEF Spec
=============================================================================
