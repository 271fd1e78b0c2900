------------------------- MODULE PullRequestUpdater -------------------------
(***************************************************************************)
(* The background check for pull requests (src/app/src/lib/stores/helpers/ *)
(* pull-request-updater.ts), with the coordinator that holds the current   *)
(* updater, the store that remembers when each GitHub repository was       *)
(* checked last, and what AppStore does to them: selecting a repository,   *)
(* gaining and losing the focus, and the user's own refresh.               *)
(*                                                                         *)
(* An updater can have several timeouts, of which it knows one, and        *)
(* several refreshes it waits for.  Time is kept as what remains of each   *)
(* timeout and the age of the last check, capped at Interval.              *)
(***************************************************************************)
EXTENDS Naturals, FiniteSets

CONSTANTS
  Repos,        \* GitHub repositories that can be selected
  None,         \* no repository
  Updaters,     \* updaters that exist at the same time
  NoUpdater,    \* no updater
  Interval,     \* PullRequestInterval
  Frequency,    \* MaxPullRequestRefreshFrequency
  MaxTimers     \* bound: timeouts and refreshes of an updater

ASSUME UpdaterAssumption ==
  /\ None \notin Repos /\ NoUpdater \notin Updaters
  /\ Interval \in Nat /\ Frequency \in 1..Interval
  /\ MaxTimers \in Nat \ {0}

NoTimer == Interval + 1

\* How many timeouts have how much left.
Bags == [0..Interval -> 0..MaxTimers]

VARIABLES
  selected,    \* this.selectedRepository of AppStore
  selecting,   \* calls of _selectRepository under way, by repository
  focused,     \* this.appIsFocused of AppStore
  current,     \* this.currentPullRequestUpdater of the coordinator
  repoOf,      \* this.repository of each updater
  running,     \* the updaters with this.running
  timer,       \* what remains of the timeout of this.timeoutId
  lost,        \* how many other timeouts of an updater have so much left
  waiting,     \* refreshes each updater waits for
  age,         \* time since lastRefreshForRepository
  refreshing,  \* currentRefreshOperations
  poked        \* history: the updaters that saw the user refresh

selection == <<selected, selecting, focused>>
updaters == <<current, repoOf, running>>
timeouts == <<timer, lost, waiting>>
vars == <<selection, updaters, timeouts, age, refreshing, poked>>

TypeOK ==
  /\ selected \in Repos \cup {None} /\ selecting \subseteq Repos
  /\ focused \in BOOLEAN
  /\ current \in Updaters \cup {NoUpdater}
  /\ repoOf \in [Updaters -> Repos \cup {None}]
  /\ running \subseteq Updaters
  /\ timer \in [Updaters -> 0..NoTimer]
  /\ lost \in [Updaters -> Bags]
  /\ waiting \in [Updaters -> 0..MaxTimers]
  /\ age \in [Repos -> 0..Interval]
  /\ refreshing \subseteq Repos
  /\ poked \subseteq Updaters

-----------------------------------------------------------------------------

Init ==
  /\ selected = None /\ selecting = {} /\ focused = FALSE
  /\ current = NoUpdater /\ running = {}
  /\ repoOf = [u \in Updaters |-> None]
  /\ timer = [u \in Updaters |-> NoTimer]
  /\ lost = [u \in Updaters |-> [t \in 0..Interval |-> 0]]
  /\ waiting = [u \in Updaters |-> 0]
  /\ age = [r \in Repos |-> Interval]
  /\ refreshing = {} /\ poked = {}

NoLost == [t \in 0..Interval |-> 0]
Lost(u) == {t \in 0..Interval : lost[u][t] > 0}

\* An updater nothing refers to any more.
Free(u) ==
  /\ u \notin running /\ u # current
  /\ timer[u] = NoTimer /\ lost[u] = NoLost /\ waiting[u] = 0

\* Mutant: the difference the other way round.
DueSwapped(r, timeout) ==
  IF age[r] > timeout THEN age[r] - timeout ELSE 0

\* When scheduleTick(timeout) lets the next tick happen.
Due(r, timeout) == IF timeout > age[r] THEN timeout - age[r] ELSE 0

\* Bound: no more than MaxTimers timeouts with the same time left are told
\* apart.
Capped(n) == IF n > MaxTimers THEN MaxTimers ELSE n

\* The lost timeouts after one more: the one this.timeoutId held, if any.
Forgotten(u, rest) ==
  IF timer[u] = NoTimer THEN rest
  ELSE [rest EXCEPT ![timer[u]] = Capped(@ + 1)]

\* The timeout stop can clear.
Cleared(u) == [timer EXCEPT ![u] = NoTimer]

\* stopPullRequestUpdater.
StopCurrent ==
  /\ current' = NoUpdater
  /\ running' = running \ {current}
  /\ timer' = IF current = NoUpdater THEN timer ELSE Cleared(current)
  /\ UNCHANGED <<repoOf, lost, waiting, poked>>

\* startPullRequestUpdater of AppStore and of the coordinator: stops the
\* current updater, and starts a new one if the window has the focus.
StartUpdater(r) ==
  IF ~focused' \/ r = None THEN StopCurrent
  ELSE \E u \in Updaters :
    /\ Free(u)
    /\ current' = u
    /\ running' = (running \ {current}) \cup {u}
    /\ repoOf' = [repoOf EXCEPT ![u] = r]
    /\ timer' = [v \in Updaters |->
                   CASE v = u -> Due(r, Frequency)
                     [] v = current -> Cleared(v)[v]
                     [] OTHER -> timer[v]]
    /\ poked' = poked \ {u}
    /\ UNCHANGED <<lost, waiting>>

\* Mutant: the updater of the old selection goes on until the new one starts.
DeselectedNot == UNCHANGED <<updaters, timeouts, poked>>

\* What _selectRepository does to the updater at once.
Deselected == StopCurrent

\* _selectRepository up to its await.  Selecting one that is being selected is
\* left out.
Select(r) ==
  /\ r \notin selecting
  /\ selected' = r
  /\ selecting' = IF r = None THEN selecting ELSE selecting \cup {r}
  /\ Deselected
  /\ UNCHANGED <<focused, age, refreshing>>

\* "The selected repository could have changed while we were refreshing."
StillSelected(r) == selected = r

\* ... and after it: the repository is missing, or not selected any more, or
\* its updater starts.
SelectEnds(r) ==
  /\ r \in selecting
  /\ selecting' = selecting \ {r}
  /\ UNCHANGED <<selected, focused, age, refreshing>>
  /\ \/ UNCHANGED <<updaters, timeouts, poked>>
     \/ StillSelected(r) /\ StartUpdater(r)

\* The window gets the focus, perhaps once more, or loses it.
Focus ==
  /\ focused' = TRUE
  /\ IF selected = None THEN UNCHANGED <<updaters, timeouts, poked>>
     ELSE StartUpdater(selected)
  /\ UNCHANGED <<selected, selecting, age, refreshing>>

Blur ==
  /\ focused' = FALSE
  /\ StopCurrent
  /\ UNCHANGED <<selected, selecting, age, refreshing>>

\* refreshPullRequests of the store: a refresh under way is joined.
Refresh(r) ==
  /\ refreshing' = refreshing \cup {r}
  /\ age' = IF r \in refreshing THEN age ELSE [age EXCEPT ![r] = 0]

\* The user refreshes the list of pull requests.
UserRefreshes ==
  /\ focused /\ selected # None
  /\ Refresh(selected)
  /\ poked' = poked \cup running
  /\ UNCHANGED <<selection, updaters, timeouts>>

\* Whether a timeout finds its updater running.
Awake(u) == u \in running

\* Whether a tick finds a check that is too recent.
Early(r) == age[r] < Frequency

\* tick, called by a timeout; rest is what remains of the lost ones.
Tick(u, fired, rest) ==
  LET known == IF fired THEN rest ELSE Forgotten(u, rest) IN
  IF ~Awake(u)
    THEN /\ lost' = [lost EXCEPT ![u] = rest]
         /\ timer' = IF fired THEN [timer EXCEPT ![u] = NoTimer] ELSE timer
         /\ UNCHANGED <<waiting, age, refreshing>>
    ELSE /\ lost' = [lost EXCEPT ![u] = known]
         /\ timer' = [timer EXCEPT ![u] =
                        IF Early(repoOf[u]) THEN Due(repoOf[u], Interval)
                        ELSE NoTimer]
         /\ waiting' = [waiting EXCEPT ![u] = @ + 1]
         /\ Refresh(repoOf[u])

Timeouts(u) == {t \in 0..Interval : t = timer[u]} \cup Lost(u)

\* A timeout of u is due: the one it knows, or a lost one.
KnownFires(u) ==
  /\ timer[u] = 0 /\ waiting[u] < MaxTimers
  /\ Tick(u, TRUE, lost[u])
  /\ UNCHANGED <<selection, updaters, poked>>

LostFires(u) ==
  /\ lost[u][0] > 0 /\ waiting[u] < MaxTimers
  /\ Tick(u, FALSE, [lost[u] EXCEPT ![0] = @ - 1])
  /\ UNCHANGED <<selection, updaters, poked>>

\* Mutant: no new timeout unless the refresh was due.
NextTickNever(u) == FALSE

\* Whether scheduleTick does anything once a refresh is over.
NextTick(u) == u \in running

\* What u knows and has lost once each refresh it waited for has called
\* scheduleTick, and d is when the next tick is due.
AllScheduled(u, d) ==
  [Forgotten(u, lost[u]) EXCEPT ![d] = Capped(@ + waiting[u] - 1)]

\* The refresh of r is over, well or not; all who joined it go on.
RefreshEnds(r) ==
  LET d == Due(r, Interval)
      next == {u \in Updaters : repoOf[u] = r /\ waiting[u] > 0 /\ NextTick(u)}
      after == [u \in next |-> AllScheduled(u, d)]
  IN
  /\ r \in refreshing /\ refreshing' = refreshing \ {r}
  /\ timer' = [u \in Updaters |-> IF u \in next THEN d ELSE timer[u]]
  /\ lost' = [u \in Updaters |-> IF u \in next THEN after[u] ELSE lost[u]]
  /\ waiting' =
       [u \in Updaters |-> IF repoOf[u] = r THEN 0 ELSE waiting[u]]
  /\ UNCHANGED <<selection, updaters, age, poked>>

\* External: a unit of time passes; timeouts may be late.
TimePasses ==
  /\ timer' = [u \in Updaters |->
                 IF timer[u] \in 1..Interval THEN timer[u] - 1 ELSE timer[u]]
  /\ lost' = [u \in Updaters |-> [t \in 0..Interval |->
                 Capped((IF t = 0 THEN lost[u][0] ELSE 0)
                          + (IF t = Interval THEN 0 ELSE lost[u][t + 1]))]]
  /\ age' = [r \in Repos |-> IF age[r] < Interval THEN age[r] + 1 ELSE age[r]]
  /\ UNCHANGED <<selection, updaters, waiting, refreshing, poked>>

Next ==
  \/ \E r \in Repos \cup {None} : Select(r)
  \/ \E r \in Repos : SelectEnds(r)
  \/ Focus \/ Blur \/ UserRefreshes \/ TimePasses
  \/ \E u \in Updaters : KnownFires(u)
  \/ \E u \in Updaters : LostFires(u)
  \/ \E r \in Repos : RefreshEnds(r)

Spec == Init /\ [][Next]_vars

\* Timeouts fire and time passes.  That a refresh ends is up to the network.
FairSpec ==
  /\ Spec
  /\ WF_vars(TimePasses)
  /\ \A u \in Updaters : WF_vars(KnownFires(u)) /\ WF_vars(LostFires(u))

-----------------------------------------------------------------------------
\* Properties

\* "Currently running PullRequestUpdater (should be for the "selected"
\* repository in AppStore)", and "the updater [is] to only run when the app is
\* in focus": whatever selections and changes of focus overlap.
RunsForSelection ==
  /\ running = {current} \ {NoUpdater}
  /\ current # NoUpdater => focused /\ repoOf[current] = selected

\* A running updater always has a timeout or a refresh that will lead to the
\* next check.
NeverIdle == \A u \in running : Timeouts(u) # {} \/ waiting[u] > 0

\* The timeouts and refreshes of updater u.
Pending(u) ==
  (IF timer[u] = NoTimer THEN 0 ELSE 1) + Cardinality(Lost(u)) + waiting[u]

\* An updater has one timeout, the one stop clears, or one refresh under way,
\* unless the user refreshed meanwhile.
OneAtATime ==
  \A u \in Updaters \ poked : Pending(u) <= 1 /\ Lost(u) = {}

\* A check the background asked for begins.
Begins(u) == waiting'[u] > waiting[u]

\* Once stopped, an updater does not ask again, also if it lost timeouts stop
\* could not clear.
StoppedIsQuiet == [][\A u \in Updaters : Begins(u) => u \in running]_vars

\* "Never check for new or updated pull requests more frequently than every 2
\* minutes", which the code keeps to until the user refreshes.
SeldomUnlessPoked ==
  [][\A u \in Updaters \ poked :
       Begins(u) => age[repoOf[u]] >= Frequency]_vars

\* An updater that runs on checks again and again, if its refreshes end.
KeepsChecking ==
  \A u \in Updaters :
    <>[](u \in running) /\ []<>(waiting[u] = 0) => []<>(waiting[u] > 0)
=============================================================================
