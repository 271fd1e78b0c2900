-------------------------- MODULE NetworkOperations --------------------------
(***************************************************************************)
(* Push, pull, fetch and refresh of one repository in AppStore, and the    *)
(* refresh of its indicator in the sidebar.  They share the flag           *)
(* isPushPullFetchInProgress, the progress shown in the toolbar, what      *)
(* GitStore knows of the branch (aheadBehind) and the sidebar's lookup.    *)
(*                                                                         *)
(* Flag, progress and GitStore belong to an object of the repository: the  *)
(* caches are keyed by its hash, and an update from GitHub makes a new     *)
(* object.  The lookup belongs to the row of the database.                 *)
(*                                                                         *)
(* An action is one callback, up to the next await of its function.  The   *)
(* count of commits ahead and behind is abstracted to a version: `tracking`*)
(* is the version git has, a fetch may move it, and every other variable   *)
(* holds a version someone read.                                           *)
(***************************************************************************)
EXTENDS Naturals

CONSTANTS
  Objects,     \* objects of the repository, with different hashes
  Ops,         \* calls of an operation
  None,        \* null
  NoEntry,     \* what the lookup has of a repository it does not list
  MaxVersion   \* bound on the changes of the branch

ASSUME NetworkAssumption ==
  /\ MaxVersion \in Nat
  /\ None \notin Objects \cup Ops \cup Nat
  /\ NoEntry \notin Nat \cup {None}
  /\ Objects # {}

VARIABLES
  current,     \* the object in the list of repositories
  inProgress,  \* isPushPullFetchInProgress of each object
  progress,    \* the operation whose progress is shown, of each object
  known,       \* GitStore.aheadBehind of each object
  loaded,      \* objects whose GitStore has a tip
  lookup,      \* localRepositoryStateLookup of the repository
  tracking,    \* what git would answer now
  op,          \* the operations: where they are, on what, what they read
  failed,      \* history: objects on which an operation failed, and none has
               \* shown a status since
  overtaken    \* history: git moved while a count was held that it outdated

vars == <<current, inProgress, progress, known, loaded, lookup, tracking,
          op, failed, overtaken>>

Guarded == {"push", "pull", "fetch"}
Kinds == Guarded \cup {"refspec", "refresh", "indicator"}
Versions == 0..MaxVersion

\* What an operation awaits.
Sections == {"mergeBase", "git", "counting", "reading", "status", "shown",
             "ending", "leaving", "aborting"}
Over == {"done", "aborted"}
Places == Sections \cup Over \cup {"idle", "associating", "asking", "clearing"}

TypeOK ==
  /\ current \in Objects
  /\ inProgress \in [Objects -> BOOLEAN]
  /\ progress \in [Objects -> Ops \cup {None}]
  /\ known \in [Objects -> Versions \cup {None}]
  /\ loaded \in SUBSET Objects
  /\ lookup \in Versions \cup {None, NoEntry}
  /\ tracking \in Versions
  /\ op \in [Ops -> [at : Places, kind : Kinds, on : Objects,
                     holds : BOOLEAN, read : Versions \cup {None}]]
  /\ failed \in SUBSET Objects
  /\ overtaken \in BOOLEAN

Init ==
  /\ current \in Objects
  /\ inProgress = [o \in Objects |-> FALSE]
  /\ progress = [o \in Objects |-> None]
  /\ known = [o \in Objects |-> None]
  /\ loaded = {}
  /\ lookup = NoEntry
  /\ tracking = 0
  /\ op = [i \in Ops |-> [at |-> "idle", kind |-> "refresh", on |-> current,
                          holds |-> FALSE, read |-> None]]
  /\ failed = {}
  /\ overtaken = FALSE

----------------------------------------------------------------------------
(* The operations a step is made of. *)

GoTo(i, place) == op' = [op EXCEPT ![i].at = place]

\* updatePushPullFetchProgress: no comparison with what is shown.
Show(o, i) == progress' = [progress EXCEPT ![o] = i]

\* withPushPullFetch returns silently when the flag is set.
MayEnter(o) == ~inProgress[o]

\* Mutant: no finally around the call.
FlagAfterUnlessThrown(i, thrown) ==
  [inProgress EXCEPT ![op[i].on] = thrown]
\* The finally of withPushPullFetch.
FlagAfter(i, thrown) == [inProgress EXCEPT ![op[i].on] = FALSE]

\* What withPushPullFetch runs before its first await, on object o.  Push
\* shows its progress at once; push and pull throw on an unborn or detached
\* head, and push returns when there is no branch.
Enter(i, k, o) ==
  LET at(place) == op' = [op EXCEPT ![i] =
        [@ EXCEPT !.at = place, !.kind = k, !.on = o, !.holds = TRUE]]
  IN
  /\ MayEnter(o)
  /\ inProgress' = [inProgress EXCEPT ![o] = TRUE]
  /\ \/ /\ k \in {"push", "pull"}
        /\ at("git")
        /\ Show(o, i)
     \/ /\ k = "pull"
        /\ at("mergeBase")
        /\ UNCHANGED progress
     \/ /\ k \in {"fetch", "indicator"}
        /\ at("git")
        /\ UNCHANGED progress
     \/ /\ k \in {"push", "pull"}
        /\ at("leaving")
        /\ UNCHANGED progress

\* Mutant: a fetch clears the progress outside of the guard.
AfterSkipEnds(k) ==
  CASE k = "indicator" -> "clearing" [] k = "fetch" -> "ending"
    [] OTHER -> "done"
\* Only the indicator does anything after withPushPullFetch.
AfterSkip(k) == IF k = "indicator" THEN "clearing" ELSE "done"

\* The flag was set, or there is no remote to push to: nothing is done.
Skip(i, k, o) ==
  /\ ~MayEnter(o) \/ k = "push"
  /\ op' = [op EXCEPT ![i] = [@ EXCEPT !.kind = k, !.on = o, !.holds = FALSE,
              !.at = AfterSkip(k)]]
  /\ UNCHANGED <<inProgress, progress>>

\* _fetchRefspec has no guard.
Unguarded(i, k, o) ==
  /\ op' = [op EXCEPT ![i] = [@ EXCEPT !.kind = k, !.on = o, !.at = "git"]]
  /\ UNCHANGED <<inProgress, progress>>

Perform(i, k, o) ==
  \/ k \in Guarded \cup {"indicator"} /\ (Enter(i, k, o) \/ Skip(i, k, o))
  \/ k = "refspec" /\ Unguarded(i, k, o)

\* withRefreshedGitHubRepository goes on at once when there is an account,
\* and asks GitHub about the repository otherwise.
WithRefreshed(i, k, o) ==
  \/ Perform(i, k, o)
  \/ /\ op' = [op EXCEPT ![i] = [@ EXCEPT !.kind = k, !.on = o,
                                          !.at = "associating"]]
     /\ UNCHANGED <<inProgress, progress>>

----------------------------------------------------------------------------
(* The calls. *)

\* _push, _pull, _fetch, _fetchRefspec: by the user or the fetcher.
Call(i, k) ==
  /\ op[i].at = "idle"
  /\ WithRefreshed(i, k, current)
  /\ UNCHANGED <<current, known, loaded, lookup, tracking, failed, overtaken>>

\* _refreshRepository on focus, or refreshIndicatorForRepository: both begin
\* with git status.
Refresh(i, k) ==
  /\ op[i].at = "idle"
  /\ op' = [op EXCEPT ![i] = [@ EXCEPT !.kind = k, !.on = current,
                                       !.at = "reading"]]
  /\ UNCHANGED <<current, inProgress, progress, known, loaded, lookup,
                 tracking, failed, overtaken>>

\* GitHub answered: the operation goes on with the object it had, or with the
\* one the answer was stored in.
Associated(i) ==
  /\ op[i].at = "associating"
  /\ \/ Perform(i, op[i].kind, op[i].on) /\ UNCHANGED current
     \/ \E o \in Objects : current' = o /\ Perform(i, op[i].kind, o)
  /\ UNCHANGED <<known, loaded, lookup, tracking, failed, overtaken>>

\* performPull knows the merge base, or cannot find it.
MergeBase(i) ==
  /\ op[i].at = "mergeBase"
  /\ \/ GoTo(i, "git") /\ Show(op[i].on, i)
     \/ GoTo(i, "leaving") /\ UNCHANGED progress
  /\ UNCHANGED <<current, inProgress, known, loaded, lookup, tracking, failed,
                 overtaken>>

\* git reports its progress.
Reports(i) ==
  /\ op[i].at = "git"
  /\ op[i].kind # "refspec"
  /\ Show(op[i].on, i)
  /\ UNCHANGED <<current, inProgress, known, loaded, lookup, tracking, op,
                 failed, overtaken>>

Holding == {"counting", "status", "shown", "leaving", "clearing"}

\* An operation, or the GitStore of another object, holds a count that the
\* end of i's git outdates and that i does not take again.
Outdates(i) ==
  \/ \E j \in Ops : op[j].at \in Holding
  \/ \E o \in Objects \ {op[i].on} : known[o] # None

\* Mutant: the indicator does not count again after its fetch.
CountsAgainNot(i) ==
  IF op[i].kind = "indicator" THEN {"leaving"} ELSE {"reading"}
\* What follows git: GitStore.fetch counts, the others go on to the refresh.
CountsAgain(i) ==
  CASE op[i].kind = "indicator" -> {"counting"}
    [] op[i].kind = "fetch" -> {"counting", "reading"}
    [] OTHER -> {"reading"}

\* git has pushed, pulled or fetched, or failed: performFailableOperation
\* reports the error and the operation goes on.  Push, which runs all of it
\* in there, has ended then.
GitEnds(i) ==
  /\ op[i].at = "git"
  /\ tracking' \in {tracking, tracking + 1} \cap Versions
  /\ \/ \E place \in CountsAgain(i) :
          op' = [op EXCEPT ![i].at = place, ![i].read = tracking']
     \/ op[i].kind = "push" /\ tracking' = tracking /\ GoTo(i, "ending")
  /\ overtaken' = (overtaken \/ (tracking' # tracking /\ Outdates(i)))
  /\ UNCHANGED <<current, inProgress, progress, known, loaded, lookup, failed>>

\* GitStore.fetch takes the count, which it has only when its tip is known.
Counted(i) ==
  /\ op[i].at = "counting"
  /\ known' = [known EXCEPT ![op[i].on] =
                 IF op[i].on \in loaded THEN op[i].read ELSE None]
  /\ GoTo(i, IF op[i].kind = "indicator" THEN "leaving" ELSE "reading")
  /\ UNCHANGED <<current, inProgress, progress, loaded, lookup, tracking,
                 failed, overtaken>>

\* The refresh begins: a guarded operation says so in its progress, and git
\* status reads the branch, or fails.
ReadsStatus(i) ==
  /\ op[i].at = "reading"
  /\ \E r \in {tracking, None} :
       /\ op' = [op EXCEPT ![i].at = "status", ![i].read = r]
       /\ failed' = IF r = None THEN failed \cup {op[i].on} ELSE failed
  /\ IF op[i].holds THEN Show(op[i].on, i) ELSE UNCHANGED progress
  /\ UNCHANGED <<current, inProgress, known, loaded, lookup, tracking,
                 overtaken>>

\* GitStore.loadStatus takes the status; it awaits the commit of the tip next.
TakesStatus(i) ==
  /\ op[i].at = "status"
  /\ IF op[i].read = None
       THEN UNCHANGED known
       ELSE known' = [known EXCEPT ![op[i].on] = op[i].read]
  /\ GoTo(i, "shown")
  /\ UNCHANGED <<current, inProgress, progress, loaded, lookup, tracking,
                 failed, overtaken>>

\* Where an operation goes when its refresh is over.
AfterRefresh(i) ==
  IF op[i].holds THEN "ending"
  ELSE IF op[i].kind = "indicator" /\ op[i].read # None THEN "asking" ELSE "done"

\* updateSidebarIndicator shows the status, or deletes the entry when there is
\* none; the rest of the refresh follows.
ShowsStatus(i) ==
  /\ op[i].at = "shown"
  /\ IF op[i].read = None
       THEN lookup' = NoEntry /\ UNCHANGED <<loaded, failed>>
       ELSE /\ lookup' = op[i].read
            /\ loaded' = loaded \cup {op[i].on}
            /\ failed' = failed \ {op[i].on}
  /\ GoTo(i, AfterRefresh(i))
  /\ UNCHANGED <<current, inProgress, progress, known, tracking, overtaken>>

\* Mutant: no finally around the progress.
AfterThrowBare(i) ==
  IF ~op[i].holds THEN "done"
  ELSE IF op[i].kind = "indicator" THEN "aborting" ELSE "leaving"
\* Where a throw leads: to the finally of the operation, if it has one.  The
\* fetch of the indicator clears its progress outside of any.
AfterThrow(i) ==
  IF ~op[i].holds THEN "done"
  ELSE IF op[i].kind = "indicator" THEN "aborting" ELSE "ending"

\* What an operation throws out of, whatever it is.
Throwing == {"associating", "asking", "counting", "shown"}

\* GitHub's answer cannot be stored, the time of the last push is not known, the
\* remotes of a refspec cannot be listed, a count fails, or a commit cannot be
\* loaded: the operation throws.
Throws(i) ==
  /\ \/ op[i].at \in Throwing
     \/ op[i].at = "git" /\ op[i].kind = "refspec"
  /\ GoTo(i, AfterThrow(i))
  /\ failed' = IF op[i].at \in {"counting", "shown"}
                 THEN failed \cup {op[i].on} ELSE failed
  /\ UNCHANGED <<current, inProgress, progress, known, loaded, lookup,
                 tracking, overtaken>>

\* Push, pull and fetch clear the progress as their last statement.
Ends(i) ==
  /\ op[i].at = "ending"
  /\ Show(op[i].on, None)
  /\ GoTo(i, "leaving")
  /\ UNCHANGED <<current, inProgress, known, loaded, lookup, tracking, failed,
                 overtaken>>

AfterLeaving(i) ==
  IF op[i].at = "aborting" THEN "aborted"
  ELSE IF op[i].kind = "indicator" THEN "clearing" ELSE "done"

\* withPushPullFetch resets the flag.
Leaves(i) ==
  /\ op[i].at \in {"leaving", "aborting"}
  /\ inProgress' = FlagAfter(i, op[i].at = "aborting")
  /\ op' = [op EXCEPT ![i].holds = FALSE, ![i].at = AfterLeaving(i)]
  /\ UNCHANGED <<current, progress, known, loaded, lookup, tracking, failed,
                 overtaken>>

\* refreshIndicatorForRepository knows whether to fetch.
Asked(i) ==
  /\ op[i].at = "asking"
  /\ \/ GoTo(i, "done") /\ UNCHANGED <<inProgress, progress>>
     \/ WithRefreshed(i, "indicator", op[i].on)
  /\ UNCHANGED <<current, known, loaded, lookup, tracking, failed, overtaken>>

\* fetchForRepositoryIndicator clears the progress, whether it fetched or
\* not, and refreshIndicatorForRepository writes what GitStore knows; there is
\* nothing to wait for in between.
Clears(i) ==
  /\ op[i].at = "clearing"
  /\ Show(op[i].on, None)
  /\ lookup' = known[op[i].on]
  /\ GoTo(i, "done")
  /\ UNCHANGED <<current, inProgress, known, loaded, tracking, failed,
                 overtaken>>

\* The repository gets a new object: an alias, GitHub, a branch setting.
Renewed ==
  /\ \E o \in Objects \ {current} : current' = o
  /\ UNCHANGED <<inProgress, progress, known, loaded, lookup, tracking, op,
                 failed, overtaken>>

Step(i) ==
  \/ Associated(i) \/ MergeBase(i) \/ GitEnds(i) \/ Counted(i)
  \/ ReadsStatus(i) \/ TakesStatus(i) \/ ShowsStatus(i) \/ Throws(i)
  \/ Ends(i) \/ Leaves(i) \/ Asked(i) \/ Clears(i)

Next ==
  \/ \E i \in Ops :
       \/ \E k \in Guarded \cup {"refspec"} : Call(i, k)
       \/ \E k \in {"refresh", "indicator"} : Refresh(i, k)
       \/ Reports(i)
       \/ Step(i)
  \/ Renewed

Spec == Init /\ [][Next]_vars

\* git and GitHub answer, and what awaits them goes on.
FairSpec == Spec /\ \A i \in Ops : WF_vars(Step(i))

----------------------------------------------------------------------------
(* Properties. *)

InSection(i) == op[i].holds

\* Of the operations that ask for it, one at a time is under way on an object
\* of the repository (withPushPullFetch: "Don't allow concurrent network
\* operations"), and the flag of the object is set for as long.
OneAtATime ==
  \A o \in Objects :
    /\ \A i, j \in Ops :
         InSection(i) /\ InSection(j) /\ op[i].on = o /\ op[j].on = o => i = j
    /\ inProgress[o] <=> \E i \in Ops : InSection(i) /\ op[i].on = o

\* The toolbar shows the progress of an operation that has not ended, unless
\* the fetch of an indicator threw (aborted): it clears its progress outside of
\* any finally (fetchForRepositoryIndicator).
ProgressIsOfRunning ==
  \A o \in Objects :
    LET i == progress[o] IN
    i # None =>
      /\ op[i].on = o
      /\ \/ InSection(i)
         \/ /\ op[i].kind = "indicator"
            /\ op[i].at \in {"clearing", "aborted"}

\* Whoever shows its progress keeps showing it until it ends, whatever throws
\* or fails meanwhile: only the fetch of an indicator takes it away, on its way
\* out (fetchForRepositoryIndicator clears it after a fetch that was skipped).
ProgressStays ==
  [][\A i \in Ops, o \in Objects :
       progress[o] = i /\ op[i].at \notin Over \cup {"ending", "clearing"}
         => \/ progress'[o] = i
            \/ \E j \in Ops : op[j].at = "clearing" /\ op[j].on = o]_vars

\* An indicator's refresh ended with an object whose GitStore has no count:
\* GitHub's answer made it, or the fetch came before the first status was read.
WentWithoutCount ==
  \E i \in Ops : /\ op[i].kind = "indicator" /\ op[i].at = "done"
                 /\ known[op[i].on] = None

\* When nothing is under way, what the sidebar shows of the repository, if it
\* shows anything, is what git would answer, unless
\*  - git moved while an operation, or the GitStore of another object of the
\*    repository, held what it had read before (an indicator's refresh that
\*    skips its fetch writes that count), or
\*  - an operation failed on an object, after what it had done or before it
\*    showed what it had read, and nothing has shown a status of it since.
\* The count is lost (null) only to an indicator's refresh that went on with an
\* object without one: refreshIndicatorForRepository writes what it returns
\* over the count of the status just shown.
IndicatorIsCurrent ==
  /\ \A i \in Ops : op[i].at \in Over \cup {"idle"}
  /\ lookup # NoEntry
  /\ ~overtaken
  /\ failed = {}
  => lookup = tracking \/ (lookup = None /\ WentWithoutCount)

\* An object whose flag is set gets rid of it: no outcome of an operation
\* leaves the repository unable to push, pull or fetch.
FlagIsReleased ==
  \A o \in Objects : inProgress[o] ~> ~inProgress[o]
=============================================================================
