------------------------ MODULE RepositoryIndicators ------------------------
(***************************************************************************)
(* The refresh of the sidebar indicators (src/app/src/lib/stores/helpers/  *)
(* repository-indicator-updater.ts) with what AppStore does to it: the     *)
(* indicators are switched on and off in Settings, paused while the window *)
(* has no focus, and skip the selected repository.                         *)
(*                                                                         *)
(* A call of refreshAllRepositories is a loop.  It lives across awaits:    *)
(* "before" and "after" wait for the end of a pause, before its first      *)
(* repository or after one, and "refreshing" waits for a repository.       *)
(* Time is kept as what remains of the timeout and what has passed since   *)
(* the last refresh began, capped where nothing can tell it apart.         *)
(***************************************************************************)
EXTENDS Naturals, Sequences, FiniteSets

CONSTANTS
  NRepositories,  \* this.repositories of AppStore, 1..NRepositories in order
  Interval,       \* RefreshInterval
  Skew,           \* skew
  MaxLoops        \* bound: loops that exist at the same time

ASSUME IndicatorsAssumption ==
  /\ NRepositories \in Nat
  /\ Interval \in Nat \ {0} /\ Skew \in Nat \ {0} /\ MaxLoops \in Nat

Repositories == 1..NRepositories
Loops == 1..MaxLoops
NoTimer == Interval + Skew + 1
None == 0

VARIABLES
  enabled,      \* this.repositoryIndicatorsEnabled of AppStore
  running,      \* this.running
  timer,        \* what remains of the timeout of this.refreshTimeoutId
  paused,       \* this.paused
  waiters,      \* the loops that await this.pausePromise, in order
  sinceStart,   \* time since this.lastRefreshStartedAt, Interval for null
  at,           \* where each loop is
  repository,   \* the repository a loop is busy with
  done,         \* the repositories a loop is done with
  selected,     \* this.selectedRepository of AppStore
  outlived,     \* history: a loop was there when the indicators went off
  threw         \* history: a refresh threw since start

loopVars == <<at, repository, done>>
switch == <<enabled, outlived, threw>>
vars == <<switch, running, timer, paused, waiters, sinceStart, loopVars,
          selected>>

TypeOK ==
  /\ enabled \in BOOLEAN
  /\ running \in BOOLEAN
  /\ timer \in 0..NoTimer
  /\ paused \in BOOLEAN
  /\ waiters \in Seq(Loops)
  /\ sinceStart \in 0..Interval
  /\ at \in [Loops -> {"none", "before", "refreshing", "after"}]
  /\ repository \in [Loops -> Repositories \cup {None}]
  /\ done \in [Loops -> SUBSET Repositories]
  /\ selected \in Repositories \cup {None}
  /\ outlived \in BOOLEAN /\ threw \in BOOLEAN

-----------------------------------------------------------------------------

\* The loops there are.
Active == {l \in Loops : at[l] # "none"}

\* Mutant: the age of the last refresh is not looked at.
DelayFresh(since) == Skew

\* The delay scheduleRefresh chooses when the last refresh began since ago.
Delay(since) == (Interval - since) + Skew

\* scheduleRefresh, where t remains of the timeout there is.
Armed(t, isRunning, since) ==
  IF isRunning /\ t = NoTimer THEN Delay(since) ELSE t

\* What the loop still has to do; getNextRepository finds the first of them.
ToDo(finished) == Repositories \ (finished \cup {selected})

\* The while loop from its condition to its next await, or to its end; t
\* remains of the timeout.
GoOn(l, finished, t) ==
  \/ /\ running
     /\ \E r \in ToDo(finished) :
          /\ \A q \in ToDo(finished) : r <= q
          /\ repository' = [repository EXCEPT ![l] = r]
     /\ at' = [at EXCEPT ![l] = "refreshing"]
     /\ done' = [done EXCEPT ![l] = finished]
     /\ timer' = t
  \/ /\ ~running \/ ToDo(finished) = {}
     /\ repository' = [repository EXCEPT ![l] = None]
     /\ at' = [at EXCEPT ![l] = "none"]
     /\ done' = [done EXCEPT ![l] = {}]
     /\ timer' = Armed(t, running, sinceStart')

\* The call of refreshAllRepositories is over without a new timeout.
GiveUp(l) ==
  /\ repository' = [repository EXCEPT ![l] = None]
  /\ at' = [at EXCEPT ![l] = "none"]
  /\ done' = [done EXCEPT ![l] = {}]
  /\ timer' = timer

\* A promise that is resolved calls its waiters before anything else happens.
Settled == paused \/ waiters = <<>>

Init ==
  /\ enabled \in BOOLEAN
  /\ running = FALSE /\ timer = NoTimer
  /\ paused = FALSE /\ waiters = <<>>
  /\ sinceStart = Interval
  /\ at = [l \in Loops |-> "none"]
  /\ repository = [l \in Loops |-> None]
  /\ done = [l \in Loops |-> {}]
  /\ selected \in Repositories \cup {None}
  /\ outlived = FALSE /\ threw = FALSE

\* start.
Started ==
  /\ running' = TRUE
  /\ timer' = IF running THEN timer ELSE Armed(timer, TRUE, sinceStart)

\* Mutant: the timeout is cleared and the flag forgotten.
StoppedByHalf ==
  /\ running' = running
  /\ timer' = IF running THEN NoTimer ELSE timer

\* stop.
Stopped ==
  /\ running' = FALSE
  /\ timer' = IF running THEN NoTimer ELSE timer

\* Some time after launch, or when the repository list opens before that.
Launch ==
  /\ Settled /\ enabled /\ ~running
  /\ Started
  /\ UNCHANGED <<switch, paused, waiters, sinceStart, loopVars, selected>>

\* The user switches the indicators on or off.
SwitchOn ==
  /\ Settled
  /\ ~enabled /\ enabled' = TRUE
  /\ Started
  /\ threw' = FALSE
  /\ UNCHANGED <<paused, waiters, sinceStart, loopVars, selected, outlived>>

SwitchOff ==
  /\ Settled
  /\ enabled /\ enabled' = FALSE
  /\ Stopped
  /\ outlived' = (outlived \/ Active # {})
  /\ UNCHANGED <<paused, waiters, sinceStart, loopVars, selected, threw>>

\* The window loses the focus, and has it again.
Pause ==
  /\ Settled /\ ~paused
  /\ paused' = TRUE
  /\ UNCHANGED <<switch, running, timer, waiters, sinceStart, loopVars,
                 selected>>

Resume ==
  /\ paused
  /\ paused' = FALSE
  /\ UNCHANGED <<switch, running, timer, waiters, sinceStart, loopVars,
                 selected>>

\* What remains of a timeout that fired.
Fired == NoTimer

\* The timeout calls refreshAllRepositories.
TimerFires(l) ==
  /\ Settled /\ timer = 0 /\ at[l] = "none"
  /\ \/ /\ paused
        /\ at' = [at EXCEPT ![l] = "before"]
        /\ waiters' = Append(waiters, l)
        /\ timer' = Fired
        /\ UNCHANGED <<sinceStart, repository, done>>
     \/ /\ ~paused
        /\ sinceStart' = 0
        /\ GoOn(l, {}, Fired)
        /\ UNCHANGED waiters
  /\ UNCHANGED <<switch, running, paused, selected>>

\* The question asked after each repository.
Pauses == paused

\* refreshRepositoryIndicators is done with the repository of loop l.
RepositoryRefreshed(l) ==
  /\ Settled /\ at[l] = "refreshing"
  /\ UNCHANGED <<switch, running, paused, sinceStart, selected>>
  /\ \/ /\ Pauses
        /\ at' = [at EXCEPT ![l] = "after"]
        /\ waiters' = Append(waiters, l)
        /\ UNCHANGED <<timer, repository, done>>
     \/ /\ ~Pauses
        /\ GoOn(l, done[l] \cup {repository[l]}, timer)
        /\ UNCHANGED waiters

\* It throws instead, and nothing catches what refreshAllRepositories throws.
RefreshThrows(l) ==
  /\ Settled /\ at[l] = "refreshing"
  /\ GiveUp(l)
  /\ threw' = TRUE
  /\ UNCHANGED <<enabled, outlived, running, paused, waiters, sinceStart,
                 selected>>

\* The first waiter goes on after a pause.
PauseIsOver(l) ==
  /\ ~Settled /\ l = Head(waiters)
  /\ waiters' = Tail(waiters)
  /\ \/ /\ at[l] = "before" /\ ~running
        /\ sinceStart' = sinceStart
        /\ GiveUp(l)
     \/ /\ at[l] = "before" /\ running
        /\ sinceStart' = 0
        /\ GoOn(l, {}, timer)
     \/ /\ at[l] = "after"
        /\ sinceStart' = sinceStart
        /\ GoOn(l, done[l] \cup {repository[l]}, timer)
  /\ UNCHANGED <<switch, running, paused, selected>>

\* External: the user selects another repository, or none.
Select(r) ==
  /\ Settled
  /\ selected' = r
  /\ UNCHANGED <<switch, running, timer, paused, waiters, sinceStart,
                 loopVars>>

\* External: a unit of time passes.  A timeout may be late.
TimePasses ==
  /\ Settled
  /\ timer' = IF timer \in 1..(NoTimer - 1) THEN timer - 1 ELSE timer
  /\ sinceStart' = IF sinceStart < Interval THEN sinceStart + 1 ELSE sinceStart
  /\ UNCHANGED <<switch, running, paused, waiters, loopVars, selected>>

Next ==
  \/ Launch \/ SwitchOn \/ SwitchOff \/ Pause \/ Resume \/ TimePasses
  \/ \E r \in Repositories \cup {None} : Select(r)
  \/ \E l \in Loops :
       \/ TimerFires(l) \/ RepositoryRefreshed(l) \/ RefreshThrows(l)
       \/ PauseIsOver(l)

Spec == Init /\ [][Next]_vars

\* The event loop fires due timeouts and calls the waiters of a promise.  That
\* a refresh ends, or that the focus returns, is nobody's promise.
FairSpec ==
  /\ Spec
  /\ WF_vars(TimePasses)
  /\ WF_vars(\E l \in Loops : TimerFires(l))
  /\ WF_vars(\E l \in Loops : PauseIsOver(l))

-----------------------------------------------------------------------------

\* No refresh of a repository begins while the window is out of focus: a loop
\* checks paused wherever it is about to take the next one.
QuietWhilePaused ==
  [][\A l \in Loops : (at'[l] = "refreshing" /\ repository'[l] # repository[l])
       => ~paused]_vars

\* "Refresh repository indicators every 15 minutes": while the indicators are
\* on, something is under way that will refresh them, a timeout or a loop that
\* will arm one.
RefreshesWhileOn == running => timer # NoTimer \/ Active # {}

\* ... unless a refresh threw since they were switched on.
NeverStalls == RefreshesWhileOn \/ threw

\* With the indicators off nothing waits to begin a refresh: stop cleared the
\* timeout, and the loops stop left behind do not arm a new one.
OffMeansNoTimer == timer # NoTimer => running

\* "Refresh repository indicators every 15 minutes" (RefreshInterval): refreshes
\* begin at least that far apart, whatever pauses and late timeouts came
\* between, unless a loop outlived a switch off and on.
RefreshesSpaced ==
  [][sinceStart' = 0 /\ sinceStart # 0 =>
       sinceStart >= Interval \/ outlived]_vars

\* While the indicators stay on, refreshes begin again and again, provided the
\* focus returns and the refreshes come to an end and do not throw.
KeepsRefreshing ==
  (<>[](running /\ ~threw) /\ []<>(~paused)
     /\ []<>(\A l \in Loops : at[l] # "refreshing"))
    => []<>(sinceStart = 0)
=============================================================================
