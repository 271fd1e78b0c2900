------------------------- MODULE ClaudeCodeSessions -------------------------
(***************************************************************************)
(* The Claude Code sessions of the app (src/app/src/ui/claude-code/        *)
(* claude-code-session.ts): the list of sessions behind the tabs, the      *)
(* starts of each session, and the processes they spawn.                   *)
(*                                                                         *)
(* A start of a session waits twice, for the executable and for the shell  *)
(* environment, and spawns at most one process.  A start and its process   *)
(* share an id, and phase follows both: "resolving" and "environment" are  *)
(* the awaits, "running", "killed" and "gone" the process.  Sessions are   *)
(* numbered in the order of their tabs.                                    *)
(***************************************************************************)
EXTENDS Naturals, FiniteSets

CONSTANTS
  MaxSessions,  \* bound: sessions ever created
  MaxStarts,    \* bound: starts ever made
  Settings      \* what Settings may say of the executable and folders

ASSUME SessionsAssumption ==
  /\ MaxSessions \in Nat /\ MaxStarts \in Nat
  /\ Settings # {}

Numbers == 1..MaxSessions
Starts == 1..MaxStarts
None == 0

Statuses == {"idle", "starting", "running", "exited", "not-found", "failed"}
Phases == {"none", "resolving", "environment", "ended",
           "running", "killed", "gone"}

VARIABLES
  sessions,    \* this._sessions, by number
  active,      \* this._active
  nextNumber,  \* this.nextNumber
  status,      \* status of each session, also of closed ones
  pty,         \* this.pty of each session
  launch,      \* this.launchSettings and this._cwd of each session
  settings,    \* external: what Settings says now
  nextStart,   \* number of the next call of start
  sessionOf,   \* the session of each start
  taken,       \* the settings a start captured
  folder,      \* the settings the working folder of a process came from
  phase,       \* how far each start, and then its process, has come
  overtaken,   \* history: sessions restarted or closed while they started
  unloaded     \* whether the page was unloaded

vars == <<sessions, active, nextNumber, status, pty, launch, settings,
          nextStart, sessionOf, taken, folder, phase, overtaken, unloaded>>
lists == <<sessions, active, nextNumber, overtaken>>

TypeOK ==
  /\ sessions \subseteq Numbers
  /\ active \in Numbers \cup {None}
  /\ nextNumber \in 1..(MaxSessions + 1)
  /\ status \in [Numbers -> Statuses]
  /\ pty \in [Numbers -> Starts \cup {None}]
  /\ launch \in [Numbers -> Settings]
  /\ settings \in Settings
  /\ nextStart \in 1..(MaxStarts + 1)
  /\ sessionOf \in [Starts -> Numbers \cup {None}]
  /\ taken \in [Starts -> Settings]
  /\ folder \in [Starts -> Settings]
  /\ phase \in [Starts -> Phases]
  /\ overtaken \subseteq Numbers
  /\ unloaded \in BOOLEAN

-----------------------------------------------------------------------------

Waiting == {"resolving", "environment"}
Of(s, phases) == {k \in Starts : sessionOf[k] = s /\ phase[k] \in phases}

Init ==
  /\ sessions = {} /\ active = None /\ nextNumber = 1
  /\ settings \in Settings
  /\ status = [s \in Numbers |-> "idle"]
  /\ pty = [s \in Numbers |-> None]
  /\ launch = [s \in Numbers |-> settings]
  /\ nextStart = 1
  /\ sessionOf = [k \in Starts |-> None]
  /\ taken = [k \in Starts |-> settings]
  /\ folder = [k \in Starts |-> settings]
  /\ phase = [k \in Starts |-> "none"]
  /\ overtaken = {}
  /\ unloaded = FALSE

\* Everything but Unload happens on a page that is there.
OnPage == ~unloaded /\ unloaded' = FALSE

\* Mutant: this.pty is cleared before it is read.
KilledNone(S) == phase

\* kill, of the sessions in S: the process a session knows is told to end.
Killed(S) ==
  [k \in Starts |->
     IF phase[k] = "running" /\ \E s \in S : pty[s] = k
       THEN "killed" ELSE phase[k]]

\* start of session s up to its first await.
Begin(s) ==
  /\ nextStart <= MaxStarts
  /\ nextStart' = nextStart + 1
  /\ phase' = [Killed({s}) EXCEPT ![nextStart] = "resolving"]
  /\ pty' = [pty EXCEPT ![s] = None]
  /\ sessionOf' = [sessionOf EXCEPT ![nextStart] = s]
  /\ taken' = [taken EXCEPT ![nextStart] = settings]
  /\ launch' = [launch EXCEPT ![s] = settings]
  /\ status' = [status EXCEPT ![s] = "starting"]

\* The panel creates a session and starts it at once; it becomes the active one.
StartSession ==
  /\ OnPage
  /\ nextNumber <= MaxSessions
  /\ nextNumber' = nextNumber + 1
  /\ sessions' = sessions \cup {nextNumber}
  /\ active' = nextNumber
  /\ Begin(nextNumber)
  /\ UNCHANGED <<settings, folder, overtaken>>

\* Session s is restarted or closed, perhaps while it starts.
Overtakes(s) ==
  overtaken' = IF Of(s, Waiting) = {} THEN overtaken ELSE overtaken \cup {s}

\* The Restart and Try Again buttons start the active session again.
Restart ==
  /\ OnPage
  /\ active # None
  /\ Begin(active)
  /\ Overtakes(active)
  /\ UNCHANGED <<sessions, active, nextNumber, settings, folder>>

\* start after its first await, with or without an executable.
ResolveExecutable(k, found) ==
  /\ OnPage
  /\ phase[k] = "resolving"
  /\ phase' = [phase EXCEPT ![k] = IF found THEN "environment" ELSE "ended"]
  /\ status' = IF found THEN status
               ELSE [status EXCEPT ![sessionOf[k]] = "not-found"]
  /\ UNCHANGED <<lists, pty, launch, settings, nextStart, sessionOf, taken, folder>>

\* Mutant: the folder is resolved again.
FolderResolvedAgain(s) == settings

\* this.cwd, as resolved by the latest start of the session.
Folder(s) == launch[s]

\* start after its last await: the process runs with the environment of the
\* settings this start took, in the folder of the session's latest start.
SpawnPty(k) ==
  LET s == sessionOf[k] IN
  /\ OnPage
  /\ phase[k] = "environment"
  /\ phase' = [phase EXCEPT ![k] = "running"]
  /\ folder' = [folder EXCEPT ![k] = Folder(s)]
  /\ pty' = [pty EXCEPT ![s] = k]
  /\ status' = [status EXCEPT ![s] = "running"]
  /\ UNCHANGED <<lists, launch, settings, nextStart, sessionOf, taken>>

\* ... or the module, the environment or the process cannot be had.
SpawnFails(k) ==
  /\ OnPage
  /\ phase[k] = "environment"
  /\ phase' = [phase EXCEPT ![k] = "ended"]
  /\ status' = [status EXCEPT ![sessionOf[k]] = "failed"]
  /\ UNCHANGED <<lists, pty, launch, settings, nextStart, sessionOf, taken, folder>>

\* Mutant: an old process that exits speaks for the session as well.
SpeaksForAny(s, k) == TRUE

\* onExit ignores a process that a restart replaced.
SpeaksFor(s, k) == pty[s] = k

\* A process ends, by itself or because it was killed.
Exit(k) ==
  LET s == sessionOf[k] IN
  /\ OnPage
  /\ phase[k] \in {"running", "killed"}
  /\ phase' = [phase EXCEPT ![k] = "gone"]
  /\ IF SpeaksFor(s, k)
       THEN /\ pty' = [pty EXCEPT ![s] = None]
            /\ status' = [status EXCEPT ![s] = "exited"]
       ELSE UNCHANGED <<pty, status>>
  /\ UNCHANGED <<lists, launch, settings, nextStart, sessionOf, taken, folder>>

Activate(s) ==
  /\ OnPage
  /\ s \in sessions
  /\ active' = s
  /\ UNCHANGED <<sessions, nextNumber, overtaken, status, pty, launch, settings,
                 nextStart, sessionOf, taken, folder, phase>>

\* The session at the index of a closed one, or else the last one.
TookPlace(s) ==
  LET right == {t \in sessions : t > s}
      left == {t \in sessions : t < s}
  IN CASE right # {} -> CHOOSE t \in right : \A u \in right : t <= u
       [] right = {} /\ left # {} -> CHOOSE t \in left : \A u \in left : u <= t
       [] OTHER -> None

\* Closing a tab disposes the session.
Close(s) ==
  /\ OnPage
  /\ s \in sessions
  /\ Overtakes(s)
  /\ phase' = Killed({s})
  /\ pty' = [pty EXCEPT ![s] = None]
  /\ sessions' = sessions \ {s}
  /\ active' = IF active = s THEN TookPlace(s) ELSE active
  /\ UNCHANGED <<nextNumber, status, launch, settings, nextStart, sessionOf,
                 taken, folder>>

ChangeSettings ==
  /\ OnPage
  /\ settings' \in Settings \ {settings}
  /\ UNCHANGED <<lists, status, pty, launch, nextStart, sessionOf, taken, folder, phase>>

\* beforeunload disposes the sessions; starts under way end with the page.
Unload ==
  /\ ~unloaded
  /\ unloaded' = TRUE
  /\ phase' = [k \in Starts |-> IF phase[k] \in Waiting THEN "ended"
                                ELSE Killed(sessions)[k]]
  /\ pty' = [s \in Numbers |-> IF s \in sessions THEN None ELSE pty[s]]
  /\ UNCHANGED <<lists, status, launch, settings, nextStart, sessionOf, taken, folder>>

Next ==
  \/ StartSession
  \/ Restart
  \/ \E k \in Starts, found \in BOOLEAN : ResolveExecutable(k, found)
  \/ \E k \in Starts : SpawnPty(k)
  \/ \E k \in Starts : SpawnFails(k)
  \/ \E k \in Starts : Exit(k)
  \/ \E s \in Numbers : Activate(s)
  \/ \E s \in Numbers : Close(s)
  \/ ChangeSettings
  \/ Unload

Spec == Init /\ [][Next]_vars

-----------------------------------------------------------------------------
\* Properties

\* The panel shows an open session whenever there is one (close "shows the one
\* that took its place").
ShowsOpenSession ==
  IF sessions = {} THEN active = None ELSE active \in sessions

\* An open session's status tells the truth about its process, also when
\* starts overlap: one shown as running, which the toolbar button counts, has a
\* process, and one shown as starting or exited has none it would write to.
StatusIsTrue ==
  unloaded \/ \A s \in sessions :
    /\ status[s] = "running" => pty[s] \in Of(s, {"running"})
    /\ status[s] \in {"starting", "exited"} => pty[s] = None

\* An open session that was not restarted while it started is shown as running
\* exactly when a process of it was not told to end: "not found", "failed" and
\* "exited" mean that nothing runs.
ShowsWhatRuns ==
  unloaded \/ \A s \in sessions \ overtaken :
    status[s] = "running" <=> Of(s, {"running"}) # {}

\* hasOutdatedSettings is false "so a restart would pick them up": such a
\* session, if shown as running with current settings, has a process that
\* really runs with them, in the folder they name.
NoticesOldSettings ==
  unloaded \/ \A s \in sessions \ overtaken :
    status[s] = "running" /\ launch[s] = settings =>
      taken[pty[s]] = settings /\ folder[pty[s]] = settings

\* Unless its session was restarted or closed while it started, each process
\* that was not told to end is the one its session would stop, so that closing
\* the tab and unloading the page leave none behind.
NoOrphans ==
  \A k \in Starts : phase[k] = "running" /\ sessionOf[k] \notin overtaken =>
    ~unloaded /\ sessionOf[k] \in sessions /\ pty[sessionOf[k]] = k

\* A process that was told to end never takes a session's status with it: the
\* status only becomes "exited" when the session's own process ends.
ExitIsOwn ==
  [][\A k \in Starts :
       phase[k] = "killed" /\ phase'[k] = "gone" => status' = status]_vars
=============================================================================
