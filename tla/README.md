# StickShift: models, checks and proofs

StickShift is a desktop Git client, a fork of GitHub Desktop with a panel for
Claude Code and a runner for `package.json` scripts. It is one Electron app:
a main process that owns the windows, and a page that holds everything else.
The page is single-threaded JavaScript, so what is hard about it is not data
races but **awaits**: each method that waits for git, the network, the
keychain, a timer or a child process reads state before the wait and acts on it
after, and anything may have happened in between. This directory models the
parts of the page where that matters most, checks them with TLC and proves
their safety with TLAPS.

All paths below are relative to `src/app/src/`. Part 1 is the inventory, part 2
the modules and their correspondence to the code, part 3 the runs, part 4 the
proofs, part 5 what the code was found to do, part 6 what is not modelled, part
7 the plan.

## 1. The system

### Parts that carry state across awaits

| Part | Source | State | Operations | Hard behaviour |
| --- | --- | --- | --- | --- |
| Script runner | `lib/scripts/script-runner.ts` | history of runs per repository, one child process per repository, a timeout for updates | `start`, `stop`, `clearHistory`, the child's `error` and `close`, the SIGKILL timer, the throttled update | `start` checks, awaits the shell environment, then acts; a child closes after its successor started; the timer finds its child through a map that others write |
| Claude Code sessions | `ui/claude-code/claude-code-session.ts` | list of sessions, the active one, per session its status, its pty and the settings it was started with | `create`, `start`, `restart`, `kill`, `activate`, `close`, `dispose`, the pty's `onExit` | a start awaits the executable and the environment; it can be restarted, closed or unloaded meanwhile; exits of killed processes arrive late |
| Sidebar indicators | `lib/stores/helpers/repository-indicator-updater.ts` | running, paused, a timeout, a promise for the end of a pause | `start`, `stop`, `pause`, `resume`, `scheduleRefresh`, `refreshAllRepositories` | a loop over all repositories lives across an await for each; switching off and on does not end it; a throw ends it for good |
| Pull request updater | `lib/stores/helpers/pull-request-updater.ts` | running, one timeout id | `start`, `stop`, `tick`, `scheduleTick` | each refresh schedules the next tick when it ends, whoever asked for it; stop can clear only the timeout it knows |
| Pull request coordinator and store | `lib/stores/pull-request-coordinator.ts`, `pull-request-store.ts` | current updater, refreshes under way, time of the last one, a cache of lists, a database | start/stop the updater, refresh, list | refreshes are joined; answers overwrite newer ones |
| Selected repository | `lib/stores/app-store.ts` (`_selectRepository`, `updateRepositorySelectionAfterRepositoriesChanged`), `lib/stores/repositories-store.ts`, `models/repository.ts` | the list, the selected object, the id to select at the next start | select, follow the store, look for a missing repository | overlapping selections; a selected object that the store has replaced; equality by hash |
| Background fetcher | `lib/stores/helpers/background-fetcher.ts` | started, stopped, a timeout | `start`, `stop`, `performAndScheduleFetch` | four awaits, each followed by a check that it was not stopped |
| Branch pruner | `lib/stores/helpers/branch-pruner.ts` | an interval | `start`, `stop`, `pruneLocalBranches` | `start` awaits the first prune before it sets the interval `stop` would clear |
| Accounts | `lib/stores/accounts-store.ts`, `lib/auth.ts` | the list in memory, the list in local storage, tokens in the keychain | load, `addAccount`, `removeAccount`, `refresh`, `save` | three copies written at different times, any of which can fail; the app may end in between; a refresh overwrites what happened meanwhile |
| Network operations | `lib/stores/app-store.ts` (`withPushPullFetch` and what runs in it), `lib/stores/git-store.ts` | per repository object a flag, a progress, the count ahead and behind; the sidebar's lookup | push, pull, fetch, fetch a refspec, refresh a repository, refresh its indicator | a second operation is skipped silently; two refreshes write what they read before an await; a repository gets a new object during an operation; any step may throw |
| Selected commit and file | `lib/stores/app-store.ts`, `ui/history/compare.tsx` | selected shas, their files, the selected file, its diff, the whitespace setting | select, load files, load a diff | loads for several selections overlap and answer in any order |
| History and comparison | `lib/stores/app-store.ts`, `lib/stores/git-store.ts`, `ui/history/compare.tsx` | the list of commits, its tip, the branch compared with, the merge status | show the history, load a page, compare, refresh | pages are appended to a captured list; HEAD moves between pages; one merge promise for all branches |
| Commit status | `lib/stores/commit-status-store.ts` | subscriptions, a queue, a cache, a limit on fetches | subscribe, leave, refresh, rerun | answers for subscriptions that were replaced or renewed; failures that must not stop refreshing |
| Ahead/behind | `lib/stores/ahead-behind-store.ts` | a queue, a cache | subscribe, refresh | as above, smaller |
| Sign-in | `lib/stores/sign-in-store.ts` | the step of a flow, a browser session | begin, set endpoint, authenticate, resolve OAuth, reset | the browser answers, and requests end, in a later flow than they began in |
| Repositories of an account | `lib/stores/api-repositories-store.ts` | lists by account object, loads under way | load, accounts changed | pages stream in while the accounts that are the keys are replaced, or a request fails |

`PROJECT.json` lists these and the remaining parts (git commands, parsers,
databases, popups, notifications, Copilot, trampoline, user interface, main
process) with a reason for each one that is not modelled.

### How they interact

* `AppStore` owns everything. User actions reach it through the dispatcher; it
  emits updates to the UI.
* `_selectRepository` stops the background fetcher, the branch pruner and the
  pull request updater of the old repository, awaits several refreshes, and
  starts those of the new one if it is still selected.
* `RepositoriesStore` writes to IndexedDB and emits its list at the end of the
  tick; `AppStore` then replaces the selected object, and selects another
  repository if the selected one is gone.
* `_setAppFocusState` pauses and resumes the indicators and starts and stops
  the pull request updater.
* `AccountsStore` keeps tokens in the keychain through `token-store.ts`.
* `ScriptRunner` calls `onUpdate` at most once per interval; `AppStore` reads
  the whole history then.
* Push, pull, the fetcher's fetch and the indicators' fetch of one repository
  share one flag and one progress; every refresh, whoever starts it, writes the
  sidebar's lookup.
* A refresh of a repository ends with `_initializeCompare`, which reloads the
  history; a list that lost the selected commit selects its first and loads that
  commit's files.
* `SignInStore` has `AccountsStore` sign out before it opens the browser and
  gives it the account that comes back; `AccountsStore` tells
  `ApiRepositoriesStore` and `CommitStatusStore` of every change.
* The Claude Code sessions belong to the app, not to a repository: a singleton
  the panel subscribes to.

### What makes each part correct

* Script runner: one script of a repository at a time; what is shown as running
  runs and can be stopped; what is stopped ends; outcomes are final; the app
  sees every change.
* Sessions: tabs tell the truth about processes; no process outlives its tab;
  the reload hint notices changed settings; a late exit does not end a new
  process.
* Indicators: one loop at a time, at least an interval apart, none out of
  focus, and they never stop while they are on.
* Pull requests: one updater, for the selected repository, in focus only; it
  keeps checking, and not too often.
* Selection: the selected repository is one of the list and up to date; it and
  only it has workers.
* Accounts: one account per server; who signed in stays signed in and who
  signed out stays signed out, across restarts, failures and refreshes.

* Network operations: one at a time on a repository; the progress shown is of
  the one that runs; the flag is always released; the sidebar is current when
  all is over.
* Commit, files and diff: what is shown belongs to what is selected, and it
  comes in the end.
* History: pages follow each other; after a refresh the list is the tip's; the
  selected commit is in it; the merge status is of the branch compared with.
* Commit status: everyone who is subscribed is told, nobody an older status
  than before, and no failure ends the refreshing.
* Sign-in: success goes to a caller whose session is under way, and nobody's code
  is used up unheard; everyone who began a
  flow is told how it ended.
* Repositories of an account: the map is keyed by the accounts there are; what
  a load ends with is what the server has.

The hazards behind these are listed in `PROJECT.json` with their lines.

## 2. The modules

An action is what one callback of the page does up to its next await, return or
timeout; the page never runs two at a time, so nothing finer is needed. A method
with awaits has one action per stretch. Processes, timers, the keychain, the
network and the user are the environment: their state is marked external in
the modules' comments and in the map. Variables marked *history* exist for the
properties only: they record that something happened and no guard reads them.
Definitions marked *Mutant* are wrong versions of the definition that follows.
No specification uses them; each was put in the place of the right one to see
that a property notices.

### `ScriptRunner` and `ScriptRuns`

| In the model | In the code |
| --- | --- |
| `history`, `status`, `nextRunId` | `this.history` (newest first; ids grow, so the newest has the largest), `IScriptRun.status` |
| `processes` | `this.processes`, the child by repository id |
| `starting` | calls of `start` that await `getEnv` |
| `updateTimeout`, `shown` | the throttled `scheduleUpdate`, what the last `onUpdate` read |
| `proc`, `children`, `killTimers` | the child processes, whose callbacks they call, the pending SIGKILL timers |
| `StartCall`, `Spawn` | `start` before and after its await; `Spawn` has the three ways a spawn turns out |
| `Stop`, `KillTimer` | `stop`, on Windows `taskkill`, elsewhere SIGTERM and later SIGKILL |
| `Close` | the `close` handler, for each status the process's code and signal can yield |
| `ClearHistory`, `Publish` | `clearHistory`, the update |

A spawned process obeys SIGTERM or not; it may exit with any code of its own
after SIGTERM. Output, exit codes and times are left out.

`ScriptRuns` is the abstract specification: per repository a log of numbered
runs, each with one outcome at most, of which the newest are remembered and a
running one is never forgotten by clearing, and a picture of all logs that is replaced as a
whole. It has no processes, timers or awaits. `ScriptRunner!ImplementsRuns`
maps `last`, `runs` and `shown` to the runner's variables.

### `ClaudeCodeSessions`

`sessions`, `active`, `status`, `pty` and `launch` are the fields of the list
and of each session. A start and the process it spawns share an id whose
`phase` goes from `resolving` and `environment` (its two awaits) to `running`,
`killed` and `gone`. `StartSession`, `Restart`, `ResolveExecutable`,
`SpawnPty`, `SpawnFails`, `Exit`, `Activate`, `Close` and `Unload` are the
callbacks; `ChangeSettings` is the Settings dialog, which may act between any
two. A session that was restarted or closed during a start is `overtaken`: the
code makes no promise about it (part 5), and the properties say so where they
need it. The terminal itself (size, theme, title, keys) is left out.

### `RepositoryIndicators`

A call of `refreshAllRepositories` is a *loop*, with a place (`at`), the
repository it is busy with and those it is done with. `waiters` are the loops
that await `pausePromise`, in order. Time is what remains of the timeout and
what has passed since the last refresh began, capped where nothing tells the
difference. `Launch`, `SwitchOn`, `SwitchOff`, `Pause`, `Resume`, `TimerFires`,
`RepositoryRefreshed`, `RefreshThrows` and `PauseIsOver` are the code's steps;
what the refresh of one repository does to git and the lookup of indicators is
only its outcome.

### `PullRequestUpdater`

Three sources in one module, because their promises are about each other: the
updater, the coordinator's `currentPullRequestUpdater`, and the store's time of
the last refresh with its joined refreshes. An updater has a timeout it knows
(`timer`), timeouts it has forgotten (`lost`, a bag of remaining times) and
refreshes it waits for (`waiting`). `Select`, `SelectEnds`, `Focus`, `Blur` and
`UserRefreshes` are what `AppStore` does. `poked` is history: the updaters that
saw the user refresh.

### `RepositorySelection`

Selection, store and the two workers are composed in one module: each of the
properties relates at least two of them. `db` is the store, `listed` what
`AppStore` last heard of it, `emitQueued` the update in between. A repository
object is an id with attributes; `Hash` leaves out the git directory, as
`models/repository.ts` does. `calls` are the calls of `_selectRepository` under
way, several of which may be for one object: the second then replaces the
workers of the first. A fetcher is in one of the phases of
`performAndScheduleFetch`, or ended because a question of it threw
(`FetcherThrows`); a pruner is in its first prune or armed. `Selects` and
`StartWorkers` are `_selectRepository` before its awaits and after;
`StaysMissing` and `Recovers` the branch for a missing repository, and
`AnchorsGitDir` its second write of the store, when the repository was found
with another git directory (`DirsOf`); `Emit` is what happens when the store's
list arrives.

### `AccountsStore`

`accounts` is the list in memory, `users` the one in local storage (without
tokens), `keychain` the tokens by endpoint and login, as `getKeyForAccount`
builds the key. `AddCall`, `StoreToken`, `AddEnds`, and `RemoveCall`,
`DeleteToken`, `RemoveEnds`, are `addAccount` and `removeAccount` around their
await of the keychain; `Load` is the start of the app with any set of tokens
unreadable; `RefreshCall` and `RefreshEnds` surround the requests of `refresh`.
`Quit` ends the app between any two steps. `legacy` are accounts at an endpoint
that is migrated on load. `Rename` changes a login at the server.

### `CommitSelection`

| In the model | In the code |
| --- | --- |
| `selected`, `files`, `file`, `diff` | `commitSelection` of the repository: `shas`, `changesetData.files`, `file`, `diff`; a diff is what it was loaded for |
| `queued` | the timer of `loadChangedFilesScheduler` |
| `loads`, `diffLoads` | calls of `_loadChangedFilesForCurrentSelection` and `_changeFileSelection` at their await, with what they captured |
| `SelectCommits`, `HistoryReplaced`, `HistoryEmptied`, `SelectedByOperation` | who changes the selection: the list, `updateOrSelectFirstCommit`, a rebase or cherry-pick |
| `LoadEnds`, `DiffEnds` | after the await; `StillWanted` is the check of the diff. The files have none that can fail |

`overtaken`, `outdated` and `failed` are history. Commits differ by the files
they change, a constant.

### `CommitHistory`

A commit of the list is the tip or branch it is listed by and its page. `head`
is git's; `tip` is what the git store knows since the last status, `shownTip`
what the list was loaded for. `first` and `next` are the loads of the first page
and of the next, one of each, as the git store's requests in flight and
`loadingMoreCommitsPromise` allow; a comparison may overlap others. `refresh` is
`_refreshRepository`, of whose calls `RefreshBegins`, `StatusLoaded`,
`SectionBegins`, `SectionEnds` and `InitializeCompare` are the stretches that
touch the list; nothing in the code keeps two of them apart, and `Refreshes`
bounds how many overlap. `loadCommitBatch` also refuses while
`LoadingHistoryRequestKey` is set; only `reconcileHistory` sets it, and that
returns before it does, because the `_history` it needs is never filled.

### `CommitStatuses`

A subscription is its ref, whether it is for a branch, and its *set* of
callbacks, which is an object: it is shared by a copy made for a branch and
made anew after the last callback left. `jobs` are the refreshes from the queue
to their answer, with the set they found. `Subscribe` is `tryGetStatus` and
`subscribe`, as the callers have them in one step. A check is the version of the
status at the server, whether workflows were asked for, and whether it was set
to pending by hand: a rerun makes a new version at the server, and the pending
status stands for that one. `recent` is the minute of
`entryIsEligibleForRefresh`.

### `NetworkOperations`

An operation (`op`) has a kind, the object it is on, whether it holds the flag,
where it is, and what it has read. `Call` is `_push`, `_pull`, `_fetch` and
`_fetchRefspec`, `Refresh` is `_refreshRepository` and
`refreshIndicatorForRepository`; `WithRefreshed`, `Enter` and `Skip` are the
guards they pass. The rest are the stretches between awaits, in the order of
the code: `MergeBase`, `Reports`, `GitEnds`, `Counted`, `ReadsStatus`,
`TakesStatus`, `ShowsStatus`, `Throws`, `Ends`, `Leaves`, `Asked`, `Clears`.
The count of commits is a version: `tracking` is what git would answer, and
every other variable what somebody read. `NoEntry` is a lookup that does not
list the repository, `None` one whose count is null. Fast-forwarding, branch
protection and tags change none of these and are left out of the stretch they
belong to.

### `SignIn` and `ApiRepositories`

`SignIn` is the flow (`flow`, the state of `SignInStore`), the browser's
sessions with their promises, the requests of `resolveOAuthRequest` and the
accounts. `removing` is the flow that each call of `authenticateWithBrowser`
holds during `removeAccount` (the button may be pressed again meanwhile).
`opened` and `overwritten` are history: for whom each session of the browser
was opened, and who lost a flow to one that came back after a sign-out. The two
requests of `resolveOAuthRequest` are one await of the model, since nothing is
read or written between them. `ApiRepositories` extends it with the store that
is keyed by the accounts' objects; every step of the sign-in that changes the
accounts is followed by `AccountsChanged` in the same step, as `AccountsStore`
emits synchronously. `BeginLoad`, `Page` and `EndLoad` are `loadRepositories`.
`Host` is the server.

## 3. The runs

| Run | Instance | What it shows |
| --- | --- | --- |
| `script_runner_safe` | 1 repository, 3 runs, history of 2, 2 overlapping starts, not Windows | runs bounded by overlapping starts; live ones are remembered; `ScriptRuns` is implemented; a kept child that was stopped ends |
| `claude_sessions` | 2 sessions, 3 starts, 2 settings | no process is out of reach, tabs show what runs, changed settings are noticed |
| `indicators_safe` | 2 repositories, interval 2, skew 1, 2 loops | refreshes are spaced and go on |
| `pull_requests_safe` | 2 repositories, 2 updaters, interval 2, frequency 1, at most 2 timeouts of a kind | one updater, for the selection, spaced, and it goes on |
| `selection_safe` | 2 repositories, one of them on GitHub and with 2 git directories, 2 calls, 2 fetchers, 2 pruners | workers serve the selection, background fetches are of the selection |
| `accounts_safe` | 1 server, 2 users, 2 tokens, 2 starts of the app | signed in, signed out and tokens stay what the user made them |
| `commit_selection_safe` | 3 commits, 2 loads of files, 2 of diffs, 4 acts | the diff is of the selection and made with the setting, the files are of the selection, and they come |
| `commit_selection_stale` | the same, 3 acts | *violated*: the files are always those of the selected commits |
| `commit_history_safe` | 2 tips, 2 branches, 2 comparisons, 2 refreshes, 3 pages, 5 acts | pages in order; the list of the tip, after refreshes too; the selection in it; the merge status of the branch, and known in the end |
| `commit_statuses_safe` | 1 ref, 2 subscribers, 2 jobs, limit 2, 7 acts | nobody's subscription ends with another's; all show what is cached, nothing older but after a rerun, and are told in the end |
| `network_operations_safe` | 2 operations, 2 objects, git moves twice | progress of what runs, until it ends; the sidebar current; the flag released |
| `api_repositories_safe` | 2 servers, 2 callers, 2 answers, 2 sign-outs, 2 sessions, 2 objects, 2 repositories, 2 loads, 6 acts | whose sign-in a success is; callers told; keys are accounts; lists are the server's |

A property that a theorem states and no run lists (types, `OneAtATime`,
`OutcomeIsFinal`, `NoLostUpdate`, `NeverStalls`, `SelectionIsListed` and others,
part 4) was checked with TLC before it was proved, and is left to the proof.

The instances have between eleven thousand and 1.4 million distinct states, and
each takes less than a minute or two.

**Why the bounds are enough to be interesting.** Three runs with a history of
two are the least for which a run is pushed out of the history while an older
child still closes; two starts are what it takes to overlap. Repositories do
not interact in the script runner, so one is checked and any number proved.
Three starts of two sessions give a restart during a start beside another
session. An interval of two units and a skew of one tell a timeout that is
early from one that is due and from one that is late. Two updaters, fetchers or
pruners are the current one and one that was given up; the model reuses those
that came to rest, so an unbounded number follow each other. Two calls of
`_selectRepository`, or two refreshes of the history, are one and the one that
overtakes it; calls end, and an unbounded number follow each other as well. Two users of one
server are the least for which one replaces the other; two starts of the app
are a crash and what is found after it. Servers do not interact.

Two loads of files and two of diffs are one for the selection and one for
another; one of the three commits changes nothing and the others share a file,
so that a stale file may or may not belong to the selection. Two tips are before
and after; a third page is the least that comes after a page that was itself
appended. Refs do not interact in the commit statuses but through the limit, and
the cache and queue are keyed by ref, so one ref with two jobs, two subscribers
and seven acts is what leaving, renewing, failing and telling take. Two
operations are the one that runs and the one that finds it; git moves twice so
that one count can be older than another that is old. In the sign-in, two of
each are the one that was overtaken and the one that overtook it; `MaxActs`
bounds what users, the network and servers do.

**Where deadlock is not checked.** Script runner, sessions, accounts, the
selection of commits, history, commit statuses, network operations and sign-in
come to rest when their bound on runs, starts, tokens, operations or acts is
used up; `CHECK_DEADLOCK FALSE` is set there only. The others reuse their
identifiers and never stop, and deadlock is checked.

**Fairness.** Only what the event loop guarantees is assumed: due timeouts
fire, time passes, the waiters of a promise are called, a process that was sent
SIGKILL (or failed to start) closes. Nothing is assumed of the network, of git,
of a script's own end, of SIGTERM being obeyed or of the user; the liveness
properties name these as conditions instead. `KeptChildIsGone` needs that no
other start of the repository replaces the child; `KeepsRefreshing` that the
focus returns again and again, that refreshes end and do not throw;
`KeepsChecking` that refreshes end.

In the newer modules a call of git ends, with an answer or with a failure
(`CommitSelection`, `CommitHistory`, `NetworkOperations`): git is a child
process whose network operations end by themselves or with the connection, and
an end of either kind is all the properties need. In `CommitStatuses` the
interval and `setImmediate` fire, a minute passes, and each fetch comes to an
answer at last: `FetchEnds` is weakly fair while failures, which are bounded as
acts, may come before. A waiting refresh is strongly fair because `p-limit`
serves its queue in order and the limit is free again and again.
`IsToldInTheEnd` needs that the app keeps the focus and an account;
`ShowsSelection` that the selection stays and git does not fail. Nothing is
assumed of the sign-in.

Each property of a passing run was tried against a mutant of the code's
definition (`PROJECT.json`, `mutants`) that violates it.

## 4. The proofs

Eight proof modules prove with TLAPS, for all values of the constants that
satisfy the modules' ASSUMEs, so for any number of repositories, runs, sessions,
updaters, accounts, commits, pages, loads, subscribers, operations and sign-ins
and any intervals, **every safety property the passing runs check**. Three of
them serve two components each: `HistoryTab_proof` extends `CommitSelection` and
`CommitHistory`, `PullRequestList_proof` extends `PullRequestUpdater` and
`CommitStatuses`, and `Accounts_proof` extends `AccountsStore` and, through
`ApiRepositories`, `SignIn`. (That is why some modules call their initial
predicate `HistoryInit` or `ApiSpec` and not `Init` and `Spec`.)

| Module | Theorems | Inductive invariant and why it is needed |
| --- | --- | --- |
| `ScriptRunner` | `TypeCorrect`, `BoundedByOverlap`, `SerialStartsRunOne`, `RunningHasProcess`, `SignalsReachLiveChild`, `OutcomeNeverChanges`, `UpdatesNeverLost`, `AliveRemembered`, `RunnerImplementsRuns` | `UsedIds`: a new id is nobody's yet, so that starting disturbs no other run. `ProcInv`: a child belongs to one repository, the kept child is at least as new as what runs there, only signalled children have a timer, and running runs and kept children have live processes. It is needed because handlers of several children share one map. Counting lemmas bound the cardinality of the running runs step by step. `AliveInv` adds that, without overlap, what runs is the newest child, and that a start then finds nothing running: so the cut of the history never takes a live script |
| `ClaudeCodeSessions` | `TypeCorrect`, `AlwaysShowsOpenSession`, `ExitIsAlwaysOwn`, `StatusIsAlwaysTrue`, `AlwaysShowsWhatRuns`, `AlwaysNoticesOldSettings`, `NeverOrphans` | `CoreInv`: numbers are fresh, and the pty a session knows is its own and was not told to end. `StartInv`: a session that was not overtaken has one start under way or one process, not both; the properties about settings and orphans follow from it |
| `RepositoryIndicators` | `TypeCorrect`, `NeverStallsAlways`, `OffIsQuiet`, `QuietOutOfFocus`, `SpacedApart` | `BusyInv`: a loop that is refreshing or paused after a repository knows it. `StallInv` adds that running implies enabled, without which `stop` could leave the updater without a timeout. `SpacedInv`: until a loop outlives a switch there is one loop and no timeout, or no loop and a timeout that is due no sooner than an interval after the last refresh began |
| `PullRequestUpdater` | `TypeCorrect`, `AlwaysRunsForSelection`, `IsNeverIdle`, `AlwaysQuietOnceStopped`, `AlwaysOneAtATime`, `AlwaysSeldomUnlessPoked` | `CheckedInv`: a running updater has a repository. `SpacedInv`: an updater whose user did not refresh has one timeout or one refresh, and when that timeout is due the last check is at least `Frequency` old |
| `RepositorySelection` | `TypeCorrect`, `OldWorkersAlwaysRest`, `FetchesOnlySelected`, `SelectionAlwaysListed`, `SelectedAlwaysServed` | `WorkersInv`: workers' types, that the current fetcher serves what is selected, and that a stopped one is still at an await, so that a new one is not taken for it. `ServedInv`: a selected repository that is there and has no workers has a call of `_selectRepository` of its own under way, and a missing one has no workers; this is why overlapping selections do no harm |
| `AccountsStore` | `TypeCorrect`, `OneAccountForEndpoint`, `SignedOutForGood`, `TokensAreKept`, `SignedInForGood` | `OneInv`: one account per server also in the list a refresh works on, which it will write back. `FollowedInv`: memory, disk and, while no change raced it, the refresh's list, hold no account but the server's owner. `CallsInv` and `KeptInv`: calls of a user that do not overlap are one, and its accounts, those of the refresh's list too, agree with the keychain until that call has got there; from then on the keychain has what the call will list. `SignedInv`: the owner of a server is on disk with its token in the keychain at every moment, also between two starts, which is what makes a crash harmless |
| `CommitSelection` | `TypeCorrect`, `DiffOfSelection`, `DiffWithSetting`, `FilesOfSelection` | `SettingInv`: while nothing is outdated, every diff under way has the current setting. `FilesInv`: while nothing is overtaken, every load of files under way is for the selection and holds no file or one of its files; without it a load that ends could bring another selection's file |
| `CommitHistory` | `PagesFollow`, `HistoryOfTip`, `HistoryRefreshed`, `SelectedListed`, `MergeStatusOfBranch` | `HistoryTypeInv`: the lists that loads and the refresh have captured consist of pages in order as well. `CleanInv` and `TipInv`: a first page that nothing disturbed is of HEAD and alone, and while nothing was disturbed the page being loaded continues the list there is. `RefreshedInv`: while no refresh has learnt a new tip, the list is the tip's or is being loaded for it. `ListedInv`: the lists that refreshes look at are the one there is, unless that was replaced. `MergeInv`: a merge under way is of the branch compared with |
| `CommitStatuses` | `SubscribersStay`, `SubscribersAreTold`, `StatusesMoveOn` | `OneJobPerRef`: this is why answers come in order. `SinceInv`: what a fetch will find is no older than what is cached, unless that was set to pending by hand, which is the one way an older status comes back; `CachedInv` and `ShownInv` bound the cache by the server and what is shown by the cache. `RenewedInv`: a fetch whose set of callbacks is not the subscription's is remembered as such. That a set nobody refers to exists (`NewSetType`) is a pigeonhole argument over finite sets of callbacks and refreshes |
| `NetworkOperations` | `TypeCorrect`, `OneAtATimeHolds`, `ProgressOfRunning`, `ProgressDoesStay`, `IndicatorCurrent` | `LocalInv`: where an operation may be with and without the flag, by its kind. `SilentInv`: one that has not shown its progress yet, or has cleared it, is not shown. They are needed when an operation leaves its section: nobody's progress is left behind. `CurrentInv`: while nothing was overtaken, whoever holds a count holds git's (`ReadCurrent`), a count of an object that is not git's will be taken again by an operation on that object, unless one failed there (`KnownCurrent`), and a sidebar that is not current will be written again, or lost its count to an object without one, or belongs to such a failure (`LookupCurrent`) |
| `SignIn` | `SuccessIsOwn`, `EveryoneHears` | `FlowInv`: a flow past its first step knows its server and its caller, and so does each flow held during a sign-out. `OpenedInv`: a flow with a session is the one its browser was opened for, and the account a request will add is of the server its code's browser was sent to, whatever flow there is by then; `OpenedKept` carries this through the steps that open nothing |
| `ApiRepositories` | `SignInTypes`, `KeysFollow`, `ListsFollowServer` | `LoadInv`: a load under way has seen what was missing and what its pages had, all of which the server had at some time, and, unless its account was signed out, it is its server's only one, the entry's list is what it has seen and the account is there |

`RunnerImplementsRuns` is the refinement: `InitRunsInv`, one lemma for each kind
of step (`SpawnRefines`, `EndRefines`, `ClearHistoryRefines`, the stutters) and
lemmas about `Newest`, whose cut keeps fewer than `MaxHistory` runs, the newest
ones. The proofs of the script runner also cover `IsWindows = TRUE`, which no
run instantiates.

Each proof has a lemma per action, or per group of actions that leave the same
variables alone, and one that puts them together over `Next`; the theorem adds
the temporal step.

The assumptions are those the modules name: bounds are natural numbers, the
values that stand for nothing differ from the others, an interval is at least a
frequency, and, in `CommitStatuses`, subscribers and refreshes are finite in
number, as what a page holds is. The modules' helpers have lemmas of their own
(`Newest`, `Save`, `Forgotten`, `NewSet`, `Told`, `Merged`, `Updated`, and others),
cited by name where a step uses them.

The proofs corrected the models. `IndicatorIsCurrent` held on the checked
instance, which has two operations, and was false for three: an object of the
repository that was replaced keeps its count in its own `GitStore`, a later
indicator's refresh that skips its fetch shows that count, and no operation held
it when git moved. `Outdates` now says so, and the property leaves it out.

**Only model-checked**: liveness (`KeptChildIsGone`, `KeepsRefreshing`,
`KeepsChecking`, `ShowsSelection`, `MergeStatusSettles`, `IsToldInTheEnd`,
`FlagIsReleased`), which needs fairness and ENABLED, and what the violated run
shows. The proofs hold of the specifications without fairness (`HistorySpec`,
`StatusesSpec`, `ApiSpec` and the `Spec` of the others), and so of those with it.

## 5. What the code does otherwise than it says

`commit_selection_stale` is a run that TLC finds violated. After its await
`_loadChangedFilesForCurrentSelection` means to check that the selection is
still the one it loaded for, and compares the captured selection with itself;
the files, and the selected file, of an older selection then replace those of
the newer one.

Elsewhere the code's promises hold under conditions, and each is part of a
property, as narrow as was found to hold:

| Property | What it leaves out, because the code does otherwise |
| --- | --- |
| `RunsBoundedByOverlap` | `start` does not check again after its await: as many scripts run at once as starts overlapped |
| `NoOrphans`, `ShowsWhatRuns` | a session restarted or closed while it starts: both starts spawn, or the closed one does |
| `RefreshesSpaced`, `KeepsRefreshing` | loops that outlived a switch off; a refresh that throws, which ends the updater |
| `SeldomUnlessPoked` | updaters whose user refreshed: a tick that comes too early checks all the same |
| `SelectedIsServed` | workers that were given up: a pruner stopped during its first prune sets its interval afterwards. A fetcher whose questions threw counts as the fetcher of its repository, though it fetches no more |
| `StaysSignedIn`, `StaysSignedOut`, `TokenIsKept` | changes across a refresh, changed logins, tokens that could not be read once, overlapping calls for one user |
| `FilesAreOfSelection` | selections made while another's files load (the violated run) |
| `DiffHasSetting` | a setting changed while a diff loads |
| `HistoryIsOfTip`, `SelectedIsListed` | pages loaded while HEAD or the list changed; lists that come while a refresh holds an older one |
| `HistoryIsRefreshed` | a call that finds the first page being loaded for the previous tip returns without effect |
| `MergeStatusIsOfBranch` | comparisons that come while another branch's merge is computed |
| `ShowsWhatIsCached` | refs whose last subscriber left and came back during a refresh: not told by it, but by the next |
| `NeverOlder` | the pending status of a rerun, which the answer of a refresh begun before the rerun may replace: `manualRefreshSubscription` does not look at the queue |
| `ProgressIsOfRunning`, `ProgressStays` | the indicator's fetch, which clears a progress that may be another's, and not its own when it throws. Nothing else: after any failure or throw the progress of every operation is checked as before |
| `IndicatorIsCurrent` | operations, and `GitStore`s of other objects of the repository, that hold what was read before git moved; objects on which an operation failed and that have shown no status since (another object's status does not count). A count lost altogether is allowed in one case: `refreshIndicatorForRepository` went on with an object whose `GitStore` has none (GitHub's answer made it, or the fetch came before the first status), and writes null over the count just shown |
| `SuccessIsOfSession` | nothing is left out; the property says how far the code keeps a success to its session. An answer whose await ends in another flow makes *that* flow succeed: the flow told has a session opened for its own caller, and the account is of the server the code was asked for, but the code may have been another caller's, who then has heard how its flow ended or was overwritten |
| `NobodyIsForgotten` | callers whose flow gave way to one that came back: `authenticateWithBrowser` sets the flow it held while it signed out over the one begun meanwhile |
| `KeysAreAccounts`, `ListIsOfServer` | servers signed out of during a load, which puts the account back; streams that fail, whose missing repositories are dropped |

## 6. What is not modelled

* Within modelled parts: the output and exit codes of scripts; the terminal of
  a session;
  what a refresh of pull requests stores, and the coordinator's cache; the
  fetcher's choice of an interval; which branches a prune deletes and its
  threshold of a day; cloning repositories, the recent list and worktrees in the
  selection; the order of accounts and what they hold besides their token; the
  diff of a file in the working directory and of a stash; the filter and the
  branches of the compare form; `localCommitSHAs` and its pages; the eviction of
  the commit status cache and the steps of workflow jobs; missing repositories
  and `withIsCommitting` beside the network operations; errors and invalid
  addresses of the sign-in.
* Taken for granted: IndexedDB isolates the write of a repository from a read
  of all of them; `process.nextTick` comes before other callbacks; a signal
  reaches a whole process group.
* Parts left out are listed in `PROJECT.json` with reasons: I/O without state
  (git commands, API, databases, editors, shells), parsers and formatters that
  are sequential and unit-tested, the user interface and the main process, and
  flows whose state is git's own (rebase, cherry-pick, merge).

## 7. Plan

Done: the script runner with its abstract specification and refinement,
sessions, indicators, pull requests, selection with its workers, accounts,
network operations, the selected commit, its files and diff, the history and the
comparison, the commit statuses, and the sign-in composed with the repositories
of an account; every safety property the runs check is proved.

Next, most important first:

1. **Refinements, proved**: the sessions implement one process or none per tab,
   and the accounts a map from servers to users, under the conditions of part 5;
   `StaysSignedIn` and `StaysSignedOut`, which are proved, are its two halves.
2. **Promises of two modules together**, which the shared proof modules make
   possible: who is signed out shows no repositories of the account.
3. **The working directory** (`changes-state.ts`): its selection under a status
   that arrives while the user commits or discards, and the diff of its file.
4. **The ahead/behind store**, and the database and cache of the pull requests.
5. **Composition** of `NetworkOperations` with the fetcher and the indicators of
   the modules that call it.
