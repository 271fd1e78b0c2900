---------------------------- MODULE CommitHistory ---------------------------
(***************************************************************************)
(* The list of commits of a repository: its history, which comes in pages, *)
(* or the commits it would take from a branch it is compared with          *)
(* (AppStore's _initializeCompare, _executeCompare, updateCompareToBranch, *)
(* _loadNextCommitBatch and refreshHistorySection).                        *)
(*                                                                         *)
(* A commit is told by what lists it and the page it is on.  HEAD is       *)
(* git's, and moves under everything; the git store knows it as of the     *)
(* last status.                                                            *)
(***************************************************************************)
EXTENDS Sequences, Naturals

CONSTANTS
  Tips,      \* what HEAD may be
  Branches,  \* branches to compare with
  Compares,  \* comparisons that are loaded at the same time
  Refreshes, \* calls of _refreshRepository that overlap
  MaxPages,  \* bound: pages of the history
  MaxSteps,  \* bound: what the user and git do
  Null

\* A load of the first page: the tip it is for, HEAD when it began, and, as
\* history, whether nothing that matters to it has changed since.
FirstLoads == [tip : Tips \cup {Null}, began : Tips, clean : BOOLEAN]

ASSUME CommitHistoryAssumption ==
  /\ Tips \cap Branches = {} /\ Null \notin Tips \cup Branches
  /\ {"history", "loading"} \cap (Branches \cup {Null}) = {}
  /\ \A f \in FirstLoads : f # Null
  /\ MaxPages \in Nat \ {0} /\ MaxSteps \in Nat

VARIABLES
  head,         \* what HEAD is
  tip,          \* tip of the git store
  form,         \* formState: the history, or the branch compared with
  shownTip,     \* tip of compareState
  list,         \* commitSHAs of compareState
  firstSelected, \* the first of the selected commits
  refresh,      \* where each _refreshRepository is, and the list it captured
  first,        \* the first page being loaded
  next,         \* the next page being loaded, with the list it captured
  compares,     \* the branches whose comparisons are being loaded
  merging,      \* the branch of currentMergeTreePromise
  mergeStatus,  \* mergeStatus: none, loading, or of a branch
  steps,        \* bound: steps so far
  disturbed,    \* history: the list was put together while HEAD or it changed
  missed,       \* history: the last call to show the history had no effect
  replaced,     \* history: the list changed while its section was refreshed
  hijacked      \* history: a comparison found another's merge under way

listing == <<form, shownTip, list, firstSelected>>
loading == <<first, next, compares>>
merge == <<merging, mergeStatus>>
flags == <<disturbed, missed, replaced, hijacked>>
historyVars == <<head, tip, listing, refresh, loading, merge, steps, flags>>

PagedCommits == (Tips \cup Branches) \X (0..MaxPages)
Phases == {"idle", "status", "section", "selecting", "init"}

\* Commit i of the list is on page i: none is skipped or repeated.
HistoryTypeOK ==
  /\ head \in Tips /\ tip \in Tips \cup {Null}
  /\ form \in Branches \cup {"history"}
  /\ shownTip \in Tips \cup {Null}
  /\ Len(list) <= MaxPages
  /\ \A i \in DOMAIN list : list[i] \in PagedCommits /\ list[i][2] = i - 1
  /\ firstSelected \in PagedCommits \cup {Null}
  /\ \A r \in Refreshes : refresh[r].at \in Phases
  /\ first \in FirstLoads \cup {Null}
  /\ next # Null => next.began \in Tips /\ Len(next.base) < MaxPages
  /\ compares \in [Compares -> Branches \cup {Null}]
  /\ merging \in Branches \cup {Null}
  /\ mergeStatus \in Branches \cup {Null, "loading"}
  /\ disturbed \in BOOLEAN /\ missed \in BOOLEAN
  /\ replaced \in BOOLEAN /\ hijacked \in BOOLEAN

-----------------------------------------------------------------------------

Idle == [at |-> "idle", list |-> <<>>]

\* Some refresh has captured the list, and is to select from it.
Selecting == \E r \in Refreshes : refresh[r].at = "selecting"

Listed(l) == {l[i] : i \in DOMAIN l}

HistoryInit ==
  /\ head \in Tips /\ tip = Null
  /\ form = "history" /\ shownTip = Null /\ list = <<>> /\ firstSelected = Null
  /\ refresh = [r \in Refreshes |-> Idle]
  /\ first = Null /\ next = Null /\ compares = [c \in Compares |-> Null]
  /\ merging = Null /\ mergeStatus = Null
  /\ steps = 0
  /\ disturbed = FALSE /\ missed = FALSE
  /\ replaced = FALSE /\ hijacked = FALSE

Step == steps < MaxSteps /\ steps' = steps + 1

\* A commit, a checkout, or whatever else moves HEAD.
HeadMoves(t) ==
  /\ Step /\ t # head /\ head' = t
  /\ first' = IF first = Null THEN Null ELSE [first EXCEPT !.clean = FALSE]
  /\ disturbed' = (disturbed \/ next # Null)
  /\ UNCHANGED <<tip, listing, refresh, next, compares, merge,
                 missed, replaced, hijacked>>

-----------------------------------------------------------------------------
\* The selection follows the list

\* Mutant: the selection stays as it is.
SelectedOrFirstNot(l) == firstSelected

\* updateOrSelectFirstCommit: what is selected, or the first commit of l.
SelectedOrFirst(l) ==
  CASE firstSelected \in Listed(l) -> firstSelected
    [] firstSelected \notin Listed(l) /\ l # <<>> -> l[1]
    [] OTHER -> Null

UserSelects(c) ==
  /\ Step /\ c \in Listed(list) /\ firstSelected' = c
  /\ UNCHANGED <<head, tip, form, shownTip, list, refresh, loading, merge,
                 flags>>

-----------------------------------------------------------------------------
\* The history

\* Mutant: the list is not reloaded if there is one.
TipIsUnchangedIfAny == tip # Null /\ shownTip # Null

TipIsUnchanged == tip # Null /\ tip = shownTip

\* _executeCompare for the history, up to its await.  loadCommitBatch refuses
\* to load a page that is being loaded; the key that it looks at besides is
\* set by reconcileHistory, which returns as _history is never filled.
ShowHistory ==
  /\ missed' = (first # Null)
  /\ first' = IF \/ TipIsUnchanged /\ form = "history" /\ list # <<>>
                 \/ first # Null
                THEN first
                ELSE [tip |-> tip, began |-> head,
                      clean |-> next = Null /\ tip = head]
  /\ UNCHANGED <<next, compares>>

\* The commits of the first page: of HEAD when git began or when it ended.
FirstEnds ==
  /\ first # Null /\ first' = Null
  /\ form' = "history" /\ shownTip' = first.tip
  /\ \E t \in {first.began, head} : list' = <<<<t, 0>>>>
  /\ firstSelected' = SelectedOrFirst(list')
  /\ disturbed' = ~first.clean
  /\ replaced' = Selecting
  /\ UNCHANGED <<head, tip, refresh, next, compares, merge, steps, missed,
                 hijacked>>

FirstFails ==
  /\ first # Null /\ first' = Null /\ missed' = TRUE
  /\ UNCHANGED <<head, tip, listing, refresh, next, compares, merge, steps,
                 disturbed, replaced, hijacked>>

\* The end of the list is in sight: _loadNextCommitBatch, once at a time.
BeginNext ==
  /\ form = "history" /\ list # <<>> /\ Len(list) < MaxPages
  /\ next = Null /\ Step
  /\ next' = [base |-> list, began |-> head]
  /\ first' = IF first = Null THEN Null ELSE [first EXCEPT !.clean = FALSE]
  /\ disturbed' = (disturbed \/ head # shownTip)
  /\ UNCHANGED <<head, tip, listing, refresh, compares, merge, missed,
                 replaced, hijacked>>

\* Mutant: the page is loaded that the list has last.
NextPageAgain(l) == Len(l) - 1

\* The page after those of list l.
NextPage(l) == Len(l)

\* The captured list, with the page if there is one, becomes the list.
NextEnds ==
  /\ next # Null /\ next' = Null
  /\ \/ \E t \in {next.began, head} :
          list' = Append(next.base, <<t, NextPage(next.base)>>)
     \/ list' = next.base
  /\ replaced' = (replaced \/ Selecting)
  /\ UNCHANGED <<head, tip, form, shownTip, firstSelected, refresh, first,
                 compares, merge, steps, disturbed, missed, hijacked>>

NextFails ==
  /\ next # Null /\ next' = Null
  /\ UNCHANGED <<head, tip, listing, refresh, first, compares, merge, steps,
                 flags>>

-----------------------------------------------------------------------------
\* Comparing with a branch

BeginCompare(b) ==
  /\ \E c \in Compares :
       compares[c] = Null /\ compares' = [compares EXCEPT ![c] = b]
  /\ UNCHANGED <<first, next>>

\* The comparison is known, or there is none.
CompareFails(c) ==
  /\ compares[c] # Null /\ compares' = [compares EXCEPT ![c] = Null]
  /\ UNCHANGED <<head, tip, listing, refresh, first, next, merge, steps,
                 flags>>

\* Mutants: without anything to merge the status stays, or stays loading.
MergeBeginsKeeping(b, behind) ==
  /\ mergeStatus' = IF merging # Null \/ behind THEN "loading" ELSE mergeStatus
  /\ merging' = IF merging = Null /\ behind THEN b ELSE merging
MergeBeginsLoading(b, behind) ==
  /\ mergeStatus' = "loading"
  /\ merging' = IF merging = Null /\ behind THEN b ELSE merging

\* Whether b can be merged: a merge under way is left to report, whichever
\* branch it is of.
MergeBegins(b, behind) ==
  /\ mergeStatus' = IF merging # Null \/ behind THEN "loading" ELSE Null
  /\ merging' = IF merging = Null /\ behind THEN b ELSE merging

CompareEnds(c) ==
  /\ compares[c] # Null /\ compares' = [compares EXCEPT ![c] = Null]
  /\ form' = compares[c]
  /\ list' \in {<<>>, <<<<compares[c], 0>>>>}
  /\ firstSelected' = SelectedOrFirst(list')
  /\ \E behind \in BOOLEAN : MergeBegins(compares[c], behind)
  /\ hijacked' = (merging \notin {Null, compares[c]})
  /\ disturbed' = (next # Null)
  /\ replaced' = Selecting
  /\ UNCHANGED <<head, tip, shownTip, refresh, first, next, steps, missed>>

\* The merge is found possible or not, or it fails.
MergeEnds ==
  /\ merging # Null /\ merging' = Null
  /\ mergeStatus' \in {merging, Null}
  /\ UNCHANGED <<head, tip, listing, refresh, loading, steps, flags>>

-----------------------------------------------------------------------------
\* Who asks for the list

\* The user goes back to the history, or compares with a branch.
UserShowsHistory ==
  /\ Step /\ ShowHistory
  /\ UNCHANGED <<head, tip, listing, refresh, merge, disturbed, replaced,
                 hijacked>>

UserCompares(b) ==
  /\ Step /\ BeginCompare(b)
  /\ UNCHANGED <<head, tip, listing, refresh, merge, flags>>

\* Refresh r is at a phase, with a list if it captured one.
RefreshGoesTo(r, phase, captured) ==
  refresh' = [refresh EXCEPT ![r] = [at |-> phase, list |-> captured]]

\* _refreshRepository: the status tells the tip; then, if the history is shown,
\* its selection is looked after.  Nothing keeps two calls apart.
RefreshBegins(r) ==
  /\ refresh[r].at = "idle" /\ Step
  /\ RefreshGoesTo(r, "status", <<>>)
  /\ UNCHANGED <<head, tip, listing, loading, merge, flags>>

StatusLoaded(r) ==
  /\ refresh[r].at = "status" /\ tip' = head
  /\ \E p \in {"section", "init"} : RefreshGoesTo(r, p, <<>>)
  /\ UNCHANGED <<head, listing, loading, merge, steps, flags>>

\* refreshHistorySection takes the list before it loads local commits and
\* selects from it afterwards.
SectionBegins(r) ==
  /\ refresh[r].at = "section"
  /\ RefreshGoesTo(r, "selecting", list)
  /\ UNCHANGED <<head, tip, listing, loading, merge, steps, flags>>

SectionEnds(r) ==
  /\ refresh[r].at = "selecting"
  /\ RefreshGoesTo(r, "init", <<>>)
  /\ firstSelected' = SelectedOrFirst(refresh[r].list)
  /\ UNCHANGED <<head, tip, form, shownTip, list, loading, merge, steps,
                 flags>>

\* _initializeCompare repeats what is shown.
InitializeCompare(r) ==
  /\ refresh[r].at = "init" /\ RefreshGoesTo(r, "idle", <<>>)
  /\ IF form = "history" THEN ShowHistory
     ELSE BeginCompare(form) /\ missed' = (first # Null)
  /\ UNCHANGED <<head, tip, listing, merge, steps, disturbed, replaced,
                 hijacked>>

HistoryNext ==
  \/ \E t \in Tips : HeadMoves(t)
  \/ \E c \in Listed(list) : UserSelects(c)
  \/ UserShowsHistory
  \/ \E b \in Branches : UserCompares(b)
  \/ \E r \in Refreshes :
       \/ RefreshBegins(r) \/ StatusLoaded(r) \/ SectionBegins(r)
       \/ SectionEnds(r) \/ InitializeCompare(r)
  \/ FirstEnds \/ FirstFails
  \/ BeginNext \/ NextEnds \/ NextFails
  \/ \E c \in Compares : CompareEnds(c) \/ CompareFails(c)
  \/ MergeEnds

\* Git comes to an end.
HistoryFairness == WF_historyVars(MergeEnds)

HistorySpec == HistoryInit /\ [][HistoryNext]_historyVars
FairHistorySpec == HistorySpec /\ HistoryFairness

-----------------------------------------------------------------------------
\* Properties

\* "don't refresh the history view here because we know nothing important has
\* changed": when the tip shown is HEAD, the list is its history, page by page,
\* unless HEAD moved or the list was replaced while a page was loading.
HistoryIsOfTip ==
  ~disturbed /\ form = "history" /\ first = Null /\ next = Null
    /\ shownTip = head
    => \A i \in DOMAIN list : list[i] = <<head, i - 1>>

\* When no refresh of the repository is under way the history shown is that of
\* its tip, unless the last call found the page being loaded, or git failed.
HistoryIsRefreshed ==
  /\ \A r \in Refreshes : refresh[r].at = "idle"
  /\ first = Null /\ form = "history" /\ ~missed
  => shownTip = tip

\* What is selected is in the list, unless the list was put together from old
\* parts, or changed while refreshHistorySection looked at it.
SelectedIsListed ==
  ~disturbed /\ ~replaced /\ list # <<>> => firstSelected \in Listed(list)

\* The merge status shown is of the branch compared with, unless a merge with
\* another one was under way when the comparison came.
MergeStatusIsOfBranch ==
  ~hijacked /\ form \in Branches /\ mergeStatus \in Branches
    => mergeStatus = form

\* A merge status that is loading is known in the end.
MergeStatusSettles == mergeStatus = "loading" ~> mergeStatus # "loading"
=============================================================================
