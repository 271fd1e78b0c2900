--------------------------- MODULE CommitSelection --------------------------
(***************************************************************************)
(* The commits selected in the history of a repository, the files they     *)
(* change and the diff of the selected file (AppStore's                    *)
(* _changeCommitSelection, _loadChangedFilesForCurrentSelection,           *)
(* _changeFileSelection and _setHideWhitespaceInHistoryDiff).              *)
(*                                                                         *)
(* Selecting commits only queues the loading of their files, and each load *)
(* awaits git, so that loads for several selections may be under way; the  *)
(* state they come back to may be another one than they left.              *)
(***************************************************************************)
EXTENDS Naturals, FiniteSets

CONSTANTS
  Changed,    \* the files each commit changes
  Ranges,     \* the selections of several commits that are contiguous
  FileLoads,  \* loads of files that exist at the same time
  DiffLoads,  \* loads of diffs that exist at the same time
  MaxActs,    \* bound: what the user and other operations do
  None        \* no file, no diff, no load

Commits == DOMAIN Changed
Files == UNION {Changed[c] : c \in Commits}
Selections == SUBSET Commits

ASSUME CommitSelectionAssumption ==
  /\ None \notin Files /\ MaxActs \in Nat
  /\ Ranges \subseteq SUBSET Commits
  /\ \A d \in [of : Selections, file : Files, hide : BOOLEAN] : d # None
  /\ \A l \in [of : Selections, file : Files \cup {None}] : l # None

VARIABLES
  selected,   \* commitSelection.shas
  files,      \* the files of commitSelection.changesetData
  file,       \* commitSelection.file
  diff,       \* commitSelection.diff, by what it was loaded for
  hide,       \* hideWhitespaceInHistoryDiff
  queued,     \* the timer of loadChangedFilesScheduler is set
  loads,      \* for each load of files: the commitSelection it captured
  diffLoads,  \* for each load of a diff: what it was started for
  acts,       \* bound: acts so far
  overtaken,  \* history: the selection changed while another's files loaded
  outdated,   \* history: the setting changed while a diff loaded
  failed      \* history: git failed

shown == <<selected, files, file, diff>>
history == <<overtaken, outdated, failed>>
vars == <<shown, hide, queued, loads, diffLoads, acts, history>>

Load == [of : Selections, file : Files \cup {None}]
Diff == [of : Selections, file : Files, hide : BOOLEAN]

TypeOK ==
  /\ selected \in Selections /\ files \in SUBSET Files
  /\ file \in Files \cup {None}
  /\ diff \in Diff \cup {None}
  /\ hide \in BOOLEAN /\ queued \in BOOLEAN
  /\ loads \in [FileLoads -> Load \cup {None}]
  /\ diffLoads \in [DiffLoads -> Diff \cup {None}]
  /\ acts \in 0..MaxActs
  /\ overtaken \in BOOLEAN /\ outdated \in BOOLEAN /\ failed \in BOOLEAN

-----------------------------------------------------------------------------

FilesOf(s) == UNION {Changed[c] : c \in s}

\* The first file in the order of git, which is some order.
First(fs) == CHOOSE f \in fs : TRUE

\* One commit, or several that are contiguous.
HasDiff(s) == Cardinality(s) = 1 \/ s \in Ranges \ {{}}

Init ==
  /\ selected = {} /\ files = {} /\ file = None /\ diff = None
  /\ hide \in BOOLEAN /\ queued = FALSE
  /\ loads = [l \in FileLoads |-> None]
  /\ diffLoads = [d \in DiffLoads |-> None]
  /\ acts = 0
  /\ overtaken = FALSE /\ outdated = FALSE /\ failed = FALSE

Act == acts < MaxActs /\ acts' = acts + 1

-----------------------------------------------------------------------------
\* The steps of which the operations are made

\* _loadChangedFilesForCurrentSelection up to its await, for selection s with
\* file f selected.
BeginLoad(s, f) ==
  IF ~HasDiff(s) THEN loads' = loads
  ELSE \E l \in FileLoads :
         /\ loads[l] = None
         /\ loads' = [loads EXCEPT ![l] = [of |-> s, file |-> f]]

\* Mutant: the setting is read before it is written.
BeginDiffOldSetting(f, h) ==
  IF ~HasDiff(selected) THEN diffLoads' = diffLoads
  ELSE \E d \in DiffLoads :
         /\ diffLoads[d] = None
         /\ diffLoads' = [diffLoads EXCEPT ![d] =
                            [of |-> selected, file |-> f, hide |-> hide]]

\* _changeFileSelection up to its await, once the file is f.
BeginDiff(f, h) ==
  IF ~HasDiff(selected) THEN diffLoads' = diffLoads
  ELSE \E d \in DiffLoads :
         /\ diffLoads[d] = None
         /\ diffLoads' = [diffLoads EXCEPT ![d] =
                            [of |-> selected, file |-> f, hide |-> h]]

\* Some load is under way for other commits than s, or was begun while such
\* loads mixed up what is shown.
LoadsAnother(s) ==
  \E l \in FileLoads : loads[l] # None /\ (loads[l].of # s \/ overtaken)

\* Mutant: the files of the previous selection stay.
ChangeSelectionKeepsFiles(s) ==
  /\ selected' = s
  /\ UNCHANGED <<files, file>> /\ diff' = None
  /\ overtaken' = LoadsAnother(s)

\* _changeCommitSelection to other commits than are selected.
ChangeSelection(s) ==
  /\ selected' = s
  /\ files' = {} /\ file' = None /\ diff' = None
  /\ overtaken' = LoadsAnother(s)

-----------------------------------------------------------------------------
\* What the user and other operations do

\* onCommitsSelected of the history list: the load is queued even if nothing
\* changed.
SelectCommits(s) ==
  /\ Act /\ s # {}
  /\ IF s = selected THEN UNCHANGED <<shown, overtaken>>
     ELSE ChangeSelection(s)
  /\ queued' = TRUE
  /\ UNCHANGED <<hide, loads, diffLoads, outdated, failed>>

\* updateOrSelectFirstCommit, when what is selected is not in the history that
\* begins with commit c: c is selected, and its files loaded at once.
HistoryReplaced(c) ==
  /\ Act /\ selected # {c}
  /\ ChangeSelection({c})
  /\ BeginLoad({c}, None)
  /\ UNCHANGED <<hide, queued, diffLoads, outdated, failed>>

\* clearSelectedCommit, when the history is empty.
HistoryEmptied ==
  /\ Act /\ selected # {}
  /\ ChangeSelection({})
  /\ UNCHANGED <<hide, queued, loads, diffLoads, outdated, failed>>

\* A rebase or a cherry-pick that succeeds selects a commit and loads nothing.
SelectedByOperation(c) ==
  /\ Act /\ selected # {c}
  /\ ChangeSelection({c})
  /\ UNCHANGED <<hide, queued, loads, diffLoads, outdated, failed>>

\* The user selects a file of those shown.
ChangeFile(f) ==
  /\ Act /\ f \in files
  /\ file' = f /\ diff' = None
  /\ BeginDiff(f, hide)
  /\ UNCHANGED <<selected, files, hide, queued, loads, history>>

\* _setHideWhitespaceInHistoryDiff, with the file that is selected.
SetHideWhitespace ==
  /\ Act /\ hide' = ~hide
  /\ outdated' = \E d \in DiffLoads :
                   diffLoads[d] # None /\ diffLoads[d].hide = hide
  /\ IF file = None THEN UNCHANGED <<diff, diffLoads>>
     ELSE diff' = None /\ BeginDiff(file, hide')
  /\ UNCHANGED <<selected, files, file, queued, loads, overtaken, failed>>

-----------------------------------------------------------------------------
\* What was awaited

LoadTimer ==
  /\ queued /\ queued' = FALSE
  /\ BeginLoad(selected, file)
  /\ UNCHANGED <<shown, hide, diffLoads, acts, history>>

\* Mutant: no file is selected by default.
CapturedFile(l) == l.file

\* The file to show once the files of load l are known.
FirstFileOrDefault(l) ==
  IF l.file = None /\ FilesOf(l.of) # {} THEN First(FilesOf(l.of)) ELSE l.file

\* The files are known.  The selection that is compared with the captured one
\* is the captured one itself, so that nothing is ever refused.
LoadEnds(l) ==
  /\ loads[l] # None
  /\ loads' = [loads EXCEPT ![l] = None]
  /\ files' = FilesOf(loads[l].of)
  /\ file' = FirstFileOrDefault(loads[l])
  /\ diff' = None
  /\ IF file' = None THEN diffLoads' = diffLoads ELSE BeginDiff(file', hide)
  /\ UNCHANGED <<selected, hide, queued, acts, history>>

LoadFails(l) ==
  /\ loads[l] # None
  /\ loads' = [loads EXCEPT ![l] = None]
  /\ failed' = TRUE
  /\ UNCHANGED <<shown, hide, queued, diffLoads, acts, overtaken, outdated>>

\* Mutant: only the commits are compared.
StillWantedSelection(d) == d.of = selected

\* "A whole bunch of things could have happened since we initiated the diff
\* load": the commits and the file are compared with what is selected now.
StillWanted(d) == d.of = selected /\ d.file = file

DiffEnds(d) ==
  /\ diffLoads[d] # None
  /\ diffLoads' = [diffLoads EXCEPT ![d] = None]
  /\ diff' = IF StillWanted(diffLoads[d]) THEN diffLoads[d] ELSE diff
  /\ UNCHANGED <<selected, files, file, hide, queued, loads, acts, history>>

\* The call of git rejects, and so does _changeFileSelection.
DiffFails(d) ==
  /\ diffLoads[d] # None
  /\ diffLoads' = [diffLoads EXCEPT ![d] = None]
  /\ failed' = TRUE
  /\ UNCHANGED <<shown, hide, queued, loads, acts, overtaken, outdated>>

Next ==
  \/ \E s \in Selections : SelectCommits(s)
  \/ \E c \in Commits : HistoryReplaced(c)
  \/ HistoryEmptied
  \/ \E c \in Commits : SelectedByOperation(c)
  \/ \E f \in Files : ChangeFile(f)
  \/ SetHideWhitespace
  \/ LoadTimer
  \/ \E l \in FileLoads : LoadEnds(l) \/ LoadFails(l)
  \/ \E d \in DiffLoads : DiffEnds(d) \/ DiffFails(d)

\* Timers fire and git answers or fails.
Fairness ==
  /\ WF_vars(LoadTimer)
  /\ \A l \in FileLoads : WF_vars(LoadEnds(l) \/ LoadFails(l))
  /\ \A d \in DiffLoads : WF_vars(DiffEnds(d) \/ DiffFails(d))

Spec == Init /\ [][Next]_vars
FairSpec == Spec /\ Fairness

-----------------------------------------------------------------------------
\* Properties

\* The diff shown is the one of the selected file in the selected commits,
\* however loads, selections and answers overlapped: what _changeFileSelection
\* checks after its await is enough for that.
DiffIsOfSelection ==
  diff # None => diff.of = selected /\ diff.file = file

\* The diff shown was made with the current whitespace setting, unless the
\* setting changed while a diff was loading: _changeFileSelection does not
\* compare the setting when the diff arrives.
DiffHasSetting == ~outdated /\ diff # None => diff.hide = hide

\* The files shown are those of the selected commits, and the selected file is
\* one of them, unless the commits were selected while the files of others
\* were loading.
FilesAreOfSelection ==
  ~overtaken => /\ files \in {{}, FilesOf(selected)}
                /\ file # None => file \in files

\* "The selection could have changed between when we started loading the
\* changed files and we finished": the files shown are always those of the
\* selected commits.
FilesAlwaysOfSelection == files \in {{}, FilesOf(selected)}

\* What is on its way for the selected commits is shown in the end: the diff of
\* a file, unless the selection changes first, it changes no file, git fails,
\* or the files of another selection come in between.
ShowsSelection ==
  \A s \in {t \in Selections : HasDiff(t) /\ FilesOf(t) # {}} :
    selected = s /\ (queued \/ \E l \in FileLoads :
                                 loads[l] # None /\ loads[l].of = s)
      ~> diff # None \/ selected # s \/ overtaken \/ failed
=============================================================================
