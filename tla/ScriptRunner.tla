---------------------------- MODULE ScriptRunner ----------------------------
(***************************************************************************)
(* The runner of package.json scripts (src/app/src/lib/scripts/            *)
(* script-runner.ts): the runs it remembers per repository, the child      *)
(* process it keeps per repository, and the processes themselves.          *)
(*                                                                         *)
(* The page runs one callback at a time, so an action is what one callback *)
(* does up to its next await.  start has two actions, StartCall before the *)
(* await of the shell environment and Spawn after it; whatever happens in  *)
(* between is the interleaving.  A run and its child process share an id.  *)
(* Output, exit codes and times are left out.                              *)
(***************************************************************************)
EXTENDS Naturals, FiniteSets

CONSTANTS
  Repos,        \* repositories scripts are run for
  MaxRuns,      \* bound: runs ever started
  MaxHistory,   \* maxHistoryLength: runs remembered per repository
  MaxStarting,  \* bound: overlapping calls of start per repository
  IsWindows     \* __WIN32__: processes are ended by taskkill /T /F

ASSUME ScriptRunnerAssumption ==
  /\ MaxRuns \in Nat
  /\ MaxHistory \in Nat \ {0}
  /\ MaxStarting \in Nat \ {0}
  /\ IsWindows \in BOOLEAN

Ids == 1..MaxRuns
NoProcess == 0

Finals == {"succeeded", "failed", "stopped"}
Statuses == {"none", "running"} \cup Finals

\* A process obeys SIGTERM or not (terminating), never survives SIGKILL
\* (killed), and one that could not be started only emits close (errored).
Live == {"alive", "terminating", "killed", "errored"}
ProcStates == {"none", "gone"} \cup Live

VARIABLES
  nextRunId,      \* this.nextRunId
  history,        \* this.history: ids of the remembered runs, newest = largest
  status,         \* IScriptRun.status, of the runs in history
  processes,      \* this.processes: the child of a repository
  starting,       \* calls of start waiting for the shell environment
  overlapped,     \* history: the repositories where such calls overlapped
  updateTimeout,  \* this.updateTimeout # null
  shown,          \* what the last onUpdate read from getHistory
  proc,           \* external: the state of each child process
  children,       \* external: the children whose callbacks a repository gets
  killTimers      \* children whose SIGKILL timer is pending

vars == <<nextRunId, history, status, processes, starting, overlapped,
          updateTimeout, shown, proc, children, killTimers>>

TypeOK ==
  /\ nextRunId \in 1..(MaxRuns + 1)
  /\ history \in [Repos -> SUBSET Ids]
  /\ status \in [Ids -> Statuses]
  /\ processes \in [Repos -> Ids \cup {NoProcess}]
  /\ starting \in [Repos -> 0..MaxStarting]
  /\ overlapped \in SUBSET Repos
  /\ updateTimeout \in BOOLEAN
  /\ shown \in SUBSET (Ids \X Statuses)
  /\ proc \in [Ids -> ProcStates]
  /\ children \in [Repos -> SUBSET Ids]
  /\ killTimers \in SUBSET Ids

-----------------------------------------------------------------------------

\* The runs getRunningRun looks for, and the one it finds: find walks the
\* history newest first.
Running(r) == {i \in history[r] : status[i] = "running"}
IsRunningRun(r, i) ==
  /\ i \in Running(r)
  /\ \A j \in Running(r) : j <= i

\* Mutant: the guard of start looks at the child instead of the runs.
IsRunningByChild(r) == processes[r] # NoProcess

IsRunning(r) == Running(r) # {}

\* The n newest runs of S, what slice(0, n) keeps of a newest-first array.
Newest(S, n) == {i \in S : Cardinality({j \in S : j > i}) < n}

\* Everything onUpdate can read: the remembered runs with their status.
View == {<<i, status[i]>> : i \in UNION {history[r] : r \in Repos}}

\* scheduleUpdate: sets the timer unless it is set.
ScheduleUpdate == updateTimeout' = TRUE

\* this.processes.delete(repository.id)
ForgetChild(r) == processes' = [processes EXCEPT ![r] = NoProcess]

Init ==
  /\ nextRunId = 1
  /\ history = [r \in Repos |-> {}]
  /\ status = [i \in Ids |-> "none"]
  /\ processes = [r \in Repos |-> NoProcess]
  /\ starting = [r \in Repos |-> 0]
  /\ overlapped = {}
  /\ updateTimeout = FALSE
  /\ shown = {}
  /\ proc = [i \in Ids |-> "none"]
  /\ children = [r \in Repos |-> {}]
  /\ killTimers = {}

\* start up to its await; a call that finds a running script throws and
\* changes nothing.
StartCall(r) ==
  /\ starting[r] < MaxStarting
  /\ ~IsRunning(r)
  /\ starting' = [starting EXCEPT ![r] = @ + 1]
  /\ overlapped' = IF starting[r] > 0 THEN overlapped \cup {r} ELSE overlapped
  /\ UNCHANGED <<nextRunId, history, status, processes, updateTimeout, shown,
                 proc, children, killTimers>>

\* start after its await: the run is entered in the history, then the process
\* is spawned.  spawn may throw, or return a child that emits error before the
\* page handles anything else (process.nextTick); finish records both as
\* failed and forgets the repository's child.
Spawn(r, outcome) ==
  LET i == nextRunId IN
  /\ starting[r] > 0
  /\ nextRunId <= MaxRuns
  /\ starting' = [starting EXCEPT ![r] = @ - 1]
  /\ nextRunId' = i + 1
  /\ history' = [history EXCEPT ![r] = {i} \cup Newest(@, MaxHistory - 1)]
  /\ children' = [children EXCEPT ![r] = @ \cup {i}]
  /\ ScheduleUpdate
  /\ \/ /\ outcome = "spawned"
        /\ status' = [status EXCEPT ![i] = "running"]
        /\ proc' = [proc EXCEPT ![i] = "alive"]
        /\ processes' = [processes EXCEPT ![r] = i]
     \/ /\ outcome = "throws"
        /\ status' = [status EXCEPT ![i] = "failed"]
        /\ proc' = [proc EXCEPT ![i] = "gone"]
        /\ ForgetChild(r)
     \/ /\ outcome = "error"
        /\ status' = [status EXCEPT ![i] = "failed"]
        /\ proc' = [proc EXCEPT ![i] = "errored"]
        /\ ForgetChild(r)
  /\ UNCHANGED <<overlapped, shown, killTimers>>

\* A process stop has just signalled: taskkill /F, or SIGTERM.
Signalled(state) ==
  IF IsWindows THEN "killed"
  ELSE IF state = "alive" THEN "terminating" ELSE state

\* stop: marks the running run as stopped and signals the repository's child.
\* Elsewhere than on Windows a timer follows up with SIGKILL.
Stop(r) ==
  LET c == processes[r] IN
  /\ c # NoProcess
  /\ \E i \in history[r] :
       /\ IsRunningRun(r, i)
       /\ status' = [status EXCEPT ![i] = "stopped"]
  /\ ScheduleUpdate
  /\ proc' = [proc EXCEPT ![c] = Signalled(@)]
  /\ killTimers' = IF IsWindows THEN killTimers ELSE killTimers \cup {c}
  /\ UNCHANGED <<nextRunId, history, processes, starting, overlapped, shown,
                 children>>

\* Mutant: the timer spares the child that is still kept.
TimerHitsOther(r, c) == processes[r] # c

\* Whether the timer still finds its child.
TimerHits(r, c) == processes[r] = c

\* The timer stop leaves behind.
KillTimer(r, c) ==
  /\ c \in killTimers
  /\ c \in children[r]
  /\ killTimers' = killTimers \ {c}
  /\ proc' = IF TimerHits(r, c) THEN [proc EXCEPT ![c] = "killed"] ELSE proc
  /\ UNCHANGED <<nextRunId, history, status, processes, starting, overlapped,
                 updateTimeout, shown, children>>

\* The status a closing process leaves on its run, from its code and signal.
\* A process that was signalled may have exited before with a code of its own,
\* and taskkill leaves an exit code and no signal.
CloseStatuses(c) ==
  CASE proc[c] \in {"alive", "terminating", "killed"} -> Finals
    [] proc[c] = "errored" -> {"failed"}
    [] OTHER -> {}

\* Mutant: the handler ends any run.
StillRunningAny(r, c) == c \in history[r]

\* Whether the close handler has a run to end.
StillRunning(r, c) == c \in history[r] /\ status[c] = "running"

\* The process has ended and the child's close handler runs.
Close(r, c, s) ==
  /\ c \in children[r]
  /\ s \in CloseStatuses(c)
  /\ proc' = [proc EXCEPT ![c] = "gone"]
  /\ ForgetChild(r)
  /\ IF StillRunning(r, c)
       THEN /\ status' = [status EXCEPT ![c] = s]
            /\ ScheduleUpdate
       ELSE UNCHANGED <<status, updateTimeout>>
  /\ UNCHANGED <<nextRunId, history, starting, overlapped, shown, children,
                 killTimers>>

\* Mutant: nothing is kept.
KeptByClearNone(r) == {}

\* clearHistory keeps the run getRunningRun finds.
KeptByClear(r) == {i \in history[r] : IsRunningRun(r, i)}

ClearHistory(r) ==
  /\ history' = [history EXCEPT ![r] = KeptByClear(r)]
  /\ ScheduleUpdate
  /\ UNCHANGED <<nextRunId, status, processes, starting, overlapped, shown, proc,
                 children, killTimers>>

\* The throttled update reaches onUpdate.
Publish ==
  /\ updateTimeout
  /\ updateTimeout' = FALSE
  /\ shown' = View
  /\ UNCHANGED <<nextRunId, history, status, processes, starting, overlapped,
                 proc, children, killTimers>>

SpawnAny(r) == \E outcome \in {"spawned", "throws", "error"} : Spawn(r, outcome)
CloseAny(c) == \E r \in Repos, s \in CloseStatuses(c) : Close(r, c, s)

Next ==
  \/ \E r \in Repos : StartCall(r)
  \/ \E r \in Repos : SpawnAny(r)
  \/ \E r \in Repos : Stop(r)
  \/ \E r \in Repos, c \in Ids : KillTimer(r, c)
  \/ \E c \in Ids : CloseAny(c)
  \/ \E r \in Repos : ClearHistory(r)
  \/ Publish

\* Timers fire and a killed process closes.  Nothing makes a script end or
\* obey SIGTERM, the login shell answer (getShellEnv has no timeout), or the
\* user press a button.
Fairness ==
  /\ WF_vars(Publish)
  /\ \A c \in Ids : WF_vars(\E r \in Repos : KillTimer(r, c))
  /\ \A c \in Ids : WF_vars(proc[c] \in {"killed", "errored"} /\ CloseAny(c))

Spec == Init /\ [][Next]_vars
FairSpec == Spec /\ Fairness

-----------------------------------------------------------------------------
\* Properties

\* "one at a time per repository" (class doc), where no starts overlapped.
\* start can only overrun its own guard by the calls that were already past it:
\* elsewhere the scripts running plus the starts under way never exceed the
\* starts that overlap.
Allowed(r) == IF r \in overlapped THEN MaxStarting ELSE 1
RunsBoundedByOverlap ==
  \A r \in Repos : Cardinality(Running(r)) + starting[r] <= Allowed(r)

\* A run shown as running has a process behind it, whichever of the
\* handlers of several children ran in between.
RunningIsAlive ==
  \A r \in Repos : \A i \in Running(r) :
    i \in children[r] /\ proc[i] = "alive"

\* The child kept for a repository has not closed yet: stop and its timer
\* never signal a process group whose id may belong to somebody else by now.
ChildIsLive ==
  \A r \in Repos : processes[r] # NoProcess =>
    proc[processes[r]] \in {"alive", "terminating", "killed"}

\* Every change of a run is on its way to onUpdate ("Called (throttled)
\* whenever any run's state changes"): what was shown last differs from the
\* runs only while an update is scheduled.
NoLostUpdate == shown # View => updateTimeout

\* clearHistory "forgets every finished run", and the history is cut at
\* maxHistoryLength, but the script that runs is never forgotten, where starts
\* did not overlap.
AliveIsRemembered ==
  \A r \in Repos \ overlapped : \A i \in children[r] :
    proc[i] = "alive" => i \in Running(r)

\* Once a run has ended, its outcome never changes, whatever its process does
\* afterwards.
OutcomeIsFinal ==
  [][\A i \in Ids : status[i] \in Finals => status'[i] = status[i]]_vars

\* The runner as the rest of the app sees it: whatever the callbacks of the
\* children, the timers and overlapping starts do, each step changes the log of
\* one repository as ScriptRuns says, or shows all logs, or changes nothing.
Runs == INSTANCE ScriptRuns WITH
          Outcomes <- Finals,
          last <- nextRunId - 1,
          runs <- [r \in Repos |-> [i \in history[r] |-> status[i]]]

ImplementsRuns == Runs!Spec

\* stop follows SIGTERM with SIGKILL ("How long to wait after SIGTERM before
\* sending SIGKILL"): the process of a run that was stopped ends, unless
\* another start of the repository makes stop or the timer miss it.
KeptChildIsGone ==
  \A r \in Repos, c \in Ids :
    []/\ r \notin overlapped
      /\ c \in children[r] /\ proc[c] = "terminating" => processes[r] = c
      => (c \in children[r] /\ status[c] = "stopped" ~> proc[c] = "gone")
=============================================================================
