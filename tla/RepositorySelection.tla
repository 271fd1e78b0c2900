------------------------- MODULE RepositorySelection ------------------------
(***************************************************************************)
(* The selected repository (AppStore._selectRepository and                 *)
(* updateRepositorySelectionAfterRepositoriesChanged), the repositories    *)
(* store it follows, and the two workers of the selected repository: the   *)
(* background fetcher and the branch pruner.                               *)
(*                                                                         *)
(* A repository object is an id with attributes.  The store makes a new    *)
(* object for each change; objects are told apart by value here.  Two of   *)
(* them have the same hash if they only differ in their git directory.     *)
(* The background fetcher lives across four awaits, the pruner across the  *)
(* prune its start waits for.                                              *)
(***************************************************************************)
EXTENDS Naturals, FiniteSets

CONSTANTS
  Ids,       \* ids of repositories, ordered as the store lists them
  OnGitHub,  \* those that have a GitHub repository
  Aliases,   \* values of the alias, for all that takes part in the hash
  GitDirs,   \* values of gitDir
  DirsOf,    \* those that each repository can be found at
  Calls,     \* calls of _selectRepository under way at the same time
  Fetchers,  \* background fetchers that exist at the same time
  Pruners,   \* branch pruners that exist at the same time
  None       \* no repository, no worker

ASSUME SelectionAssumption ==
  /\ Ids \subseteq Nat /\ OnGitHub \subseteq Ids
  /\ DirsOf \in [Ids -> SUBSET GitDirs]
  /\ None \notin Ids \cup Fetchers \cup Pruners

Attributes == [missing : BOOLEAN, alias : Aliases, gitDir : GitDirs]
\* What is known of repository r in the store.
AttributesOf(r) == {is \in Attributes : is.gitDir \in DirsOf[r]}
Objects == [id : Ids, is : Attributes]
NoRepository == [id |-> None]

\* A call looks whether its repository is on the disk, then it may have to
\* store the git directory it found.
NoCall == [at |-> "over", of |-> NoRepository]
CallsUnderWay == [at : {"looking", "anchoring"}, of : Objects]

FetchPhases == {"ended", "timeout", "asking", "fetching", "interval"}
PrunePhases == {"ended", "first", "armed"}

VARIABLES
  db,          \* the repositories in the store, of those there are
  listed,      \* this.repositories of AppStore
  emitQueued,  \* this.emitQueued of the store
  selected,    \* this.selectedRepository
  last,        \* LastSelectedRepositoryIDKey
  calls,       \* where each call of _selectRepository is, for which object
  fetcher,     \* this.currentBackgroundFetcher
  fetcherOf,   \* id of the repository of each fetcher
  stopped,     \* the fetchers that were stopped at one of their awaits
  fetching,    \* where each fetcher is
  pruner,      \* this.currentBranchPruner
  prunerOf,    \* id of the repository of the current pruner
  pruning,     \* where each pruner is
  outrun       \* history: pruners stopped during their first prune, that
               \* have set an interval or may do so

store == <<db, listed, emitQueued>>
fetchers == <<fetcher, fetcherOf, stopped, fetching>>
pruners == <<pruner, prunerOf, pruning, outrun>>
vars == <<store, selected, last, calls, fetchers, pruners>>

Present(table) == DOMAIN table
Tables == UNION {[S -> Attributes] : S \in SUBSET Ids}

TypeOK ==
  /\ db \in Tables /\ listed \in Tables
  /\ emitQueued \in BOOLEAN
  /\ selected \in Objects \cup {NoRepository}
  /\ last \in Ids \cup {None}
  /\ calls \in [Calls -> CallsUnderWay \cup {NoCall}]
  /\ fetcher \in Fetchers \cup {None} /\ stopped \subseteq Fetchers
  /\ fetcherOf \in [Fetchers -> Ids \cup {None}]
  /\ fetching \in [Fetchers -> FetchPhases]
  /\ pruner \in Pruners \cup {None} /\ outrun \subseteq Pruners
  /\ prunerOf \in Ids \cup {None}
  /\ pruning \in [Pruners -> PrunePhases]

-----------------------------------------------------------------------------

Object(table, r) == [id |-> r, is |-> table[r]]

\* What takes part in Repository.hash: not the git directory.
Hash(is) == <<is.missing, is.alias>>

Init ==
  /\ db \in Tables /\ \A r \in Present(db) : db[r] \in AttributesOf(r)
  /\ listed = [r \in {} |-> db[r]]
  /\ emitQueued = TRUE
  /\ selected = NoRepository /\ last \in Ids \cup {None}
  /\ calls = [c \in Calls |-> NoCall]
  /\ fetcher = None /\ stopped = {}
  /\ fetcherOf = [f \in Fetchers |-> None]
  /\ fetching = [f \in Fetchers |-> "ended"]
  /\ pruner = None /\ outrun = {}
  /\ prunerOf = None
  /\ pruning = [p \in Pruners |-> "ended"]

-----------------------------------------------------------------------------
\* The background fetcher

\* Mutant: a stopped fetcher goes on to the end of its round.
GoesOnAnyway(f, next) == next

\* A fetcher after an await: it only goes on if it was not stopped.
GoesOn(f, next) == IF f \in stopped THEN "ended" ELSE next

FetchStep(f, from, next) ==
  /\ fetching[f] = from
  /\ fetching' = [fetching EXCEPT ![f] = GoesOn(f, next)]
  /\ stopped' = IF GoesOn(f, next) = "ended" THEN stopped \ {f} ELSE stopped
  /\ UNCHANGED <<store, selected, last, calls, fetcher, fetcherOf, pruners>>

\* performAndScheduleFetch: the timeout calls it, it asks whether to fetch,
\* fetches, asks for the interval, and sets the next timeout.
FetchTimeout(f) == FetchStep(f, "timeout", "asking")
ShouldFetch(f) == FetchStep(f, "asking", "fetching")
ShouldNotFetch(f) == FetchStep(f, "asking", "interval")
FetchEnds(f) == FetchStep(f, "fetching", "interval")
IntervalKnown(f) == FetchStep(f, "interval", "timeout")

\* shouldPerformFetch, or getAll of the accounts, rejects: the fetcher sets no
\* timeout again, though it stays the current one.
FetcherThrows(f) ==
  \E from \in {"asking", "interval"} : FetchStep(f, from, "ended")

\* stop of the current fetcher: its timeout, if any, is cleared.
FetchingStopped ==
  [f \in Fetchers |-> IF f = fetcher /\ fetching[f] = "timeout"
                        THEN "ended" ELSE fetching[f]]

\* The fetchers that learn after an await that they were stopped.
StoppedNow ==
  {f \in Fetchers : f = fetcher /\ fetching[f] \notin {"timeout", "ended"}}

StopFetcher ==
  /\ fetcher' = None
  /\ stopped' = stopped \cup StoppedNow
  /\ fetching' = FetchingStopped
  /\ fetcherOf' = fetcherOf

\* The current fetcher is stopped and a new one starts for repository r, after
\* a while or at once, if r is on GitHub.
RestartFetcher(r) ==
  IF r \notin OnGitHub THEN StopFetcher
  ELSE \E f \in Fetchers \ {fetcher}, first \in {"timeout", "asking"} :
    /\ fetching[f] = "ended"
    /\ fetcher' = f
    /\ stopped' = stopped \cup StoppedNow
    /\ fetching' = [FetchingStopped EXCEPT ![f] = first]
    /\ fetcherOf' = [fetcherOf EXCEPT ![f] = r]

-----------------------------------------------------------------------------
\* The branch pruner

\* stop of the current pruner clears its interval, if it has one yet.
PruningStopped ==
  [p \in Pruners |-> IF p = pruner /\ pruning[p] = "armed"
                       THEN "ended" ELSE pruning[p]]

\* The pruners that will set their interval after they were stopped.
OutrunNow == {p \in Pruners : p = pruner /\ pruning[p] = "first"}

StopPruner ==
  /\ pruner' = None
  /\ pruning' = PruningStopped
  /\ outrun' = outrun \cup OutrunNow
  /\ prunerOf' = None

\* The current pruner is stopped and a new one starts for repository r.
RestartPruner(r) ==
  \E p \in Pruners \ {pruner} :
    /\ pruning[p] = "ended"
    /\ pruner' = p
    /\ pruning' = [PruningStopped EXCEPT ![p] = "first"]
    /\ outrun' = outrun \cup OutrunNow
    /\ prunerOf' = r

\* The first prune of start is over, or throws.
FirstPruneEnds(p) ==
  /\ pruning[p] = "first"
  /\ \/ pruning' = [pruning EXCEPT ![p] = "armed"] /\ outrun' = outrun
     \/ pruning' = [pruning EXCEPT ![p] = "ended"] /\ outrun' = outrun \ {p}
  /\ UNCHANGED <<store, selected, last, calls, fetchers, pruner, prunerOf>>

-----------------------------------------------------------------------------
\* The selection

\* Mutant: the selection goes on for whatever was selected.
StillSelectedAny(o) == TRUE

\* "The selected repository could have changed while we were refreshing."
StillSelected(o) == selected = o

Looks(c) == calls[c].at = "looking"

\* A call of _selectRepository is at its first await.
CallBegins(o) ==
  \E c \in Calls :
    /\ calls[c] = NoCall
    /\ calls' = [calls EXCEPT ![c] = [at |-> "looking", of |-> o]]

CallEnds(c) == calls' = [calls EXCEPT ![c] = NoCall]

\* _selectRepository up to its await.
Selects(o) ==
  /\ selected' = o
  /\ StopFetcher /\ StopPruner
  /\ IF o = NoRepository THEN UNCHANGED <<last, calls>>
     ELSE last' = o.id /\ CallBegins(o)

\* The user selects a repository of the list.
UserSelects(r) ==
  /\ r \in Present(listed)
  /\ Selects(Object(listed, r))
  /\ UNCHANGED store

\* _selectRepository after its await, for a repository that is not missing.
\* The workers that another call for the same object started are replaced.
StartWorkers(c) ==
  /\ Looks(c) /\ ~calls[c].of.is.missing
  /\ CallEnds(c)
  /\ LET o == calls[c].of IN
       IF StillSelected(o) THEN RestartFetcher(o.id) /\ RestartPruner(o.id)
       ELSE UNCHANGED <<fetchers, pruners>>
  /\ UNCHANGED <<store, selected, last>>

\* ... for a missing one that stays missing, or is found again.  The object
\* that recoverMissingRepository makes is never the selected one, so that the
\* workers wait for the update of the store.
StaysMissing(c) ==
  /\ Looks(c) /\ calls[c].of.is.missing
  /\ CallEnds(c)
  /\ UNCHANGED <<store, selected, last, fetchers, pruners>>

Write(table) ==
  /\ db' = table
  /\ emitQueued' = TRUE
  /\ listed' = listed

\* db.repositories.update: nothing happens to a repository that is not there.
Update(r, is) ==
  Write(IF r \in Present(db) THEN [db EXCEPT ![r] = is] ELSE db)

\* The repository is found, with its git directory where the object has it or
\* somewhere else: then another write of the store follows.
Recovers(c) ==
  /\ Looks(c) /\ calls[c].of.is.missing
  /\ LET o == calls[c].of IN
     /\ Update(o.id, [db[o.id] EXCEPT !.missing = FALSE])
     /\ \E dir \in DirsOf[o.id] :
          IF dir = o.is.gitDir THEN CallEnds(c)
          ELSE calls' = [calls EXCEPT ![c] =
                          [at |-> "anchoring",
                           of |-> [o EXCEPT !.is.gitDir = dir]]]
  /\ UNCHANGED <<selected, last, fetchers, pruners>>

AnchorsGitDir(c) ==
  /\ calls[c].at = "anchoring"
  /\ LET o == calls[c].of IN
       Update(o.id, [db[o.id] EXCEPT !.gitDir = o.is.gitDir])
  /\ CallEnds(c)
  /\ UNCHANGED <<selected, last, fetchers, pruners>>

\* Other changes of the store: r is added, one of its attributes
\* changes, or it is removed.
Changes(r) ==
  /\ r \in Present(db)
  /\ \E is \in AttributesOf(r) :
       /\ Update(r, is)
       /\ db[r] # is /\ (is.missing => ~db[r].missing)
  /\ UNCHANGED <<selected, last, calls, fetchers, pruners>>

Added(r) ==
  /\ r \notin Present(db)
  /\ \E is \in AttributesOf(r) :
       /\ ~is.missing
       /\ Write([q \in Present(db) \cup {r} |->
                  IF q = r THEN is ELSE db[q]])
  /\ UNCHANGED <<selected, last, calls, fetchers, pruners>>

Removed(r) ==
  /\ r \in Present(db)
  /\ Write([q \in Present(db) \ {r} |-> db[q]])
  /\ UNCHANGED <<selected, last, calls, fetchers, pruners>>

\* The repository to select when the list has changed: the same one, the last
\* one, or the first.
Reselected(table) ==
  CASE selected.id \in Present(table) -> Object(table, selected.id)
    [] selected.id \notin Present(table) /\ last \in Present(table) ->
         Object(table, last)
    [] {selected.id, last} \cap Present(table) = {} /\ Present(table) # {} ->
         Object(table, CHOOSE r \in Present(table) :
                         \A q \in Present(table) : r <= q)
    [] OTHER -> NoRepository

\* repositoryChanged.
SelectionChanges(o) ==
  IF selected = NoRepository \/ o = NoRepository THEN selected # o
  ELSE selected.id # o.id \/ Hash(selected.is) # Hash(o.is)

\* The update of the store reaches AppStore.  No write can come between the
\* reading and the update.
Emit ==
  /\ emitQueued /\ emitQueued' = FALSE
  /\ listed' = db /\ db' = db
  /\ LET o == Reselected(db) IN
       IF SelectionChanges(o) THEN Selects(o)
       ELSE UNCHANGED <<selected, last, calls, fetchers, pruners>>

Next ==
  \/ \E r \in Ids : UserSelects(r)
  \/ \E c \in Calls : StartWorkers(c)
  \/ \E c \in Calls : StaysMissing(c)
  \/ \E c \in Calls : Recovers(c)
  \/ \E c \in Calls : AnchorsGitDir(c)
  \/ \E r \in Ids : Added(r)
  \/ \E r \in Ids : Changes(r)
  \/ \E r \in Ids : Removed(r)
  \/ Emit
  \/ \E f \in Fetchers :
       \/ FetchTimeout(f) \/ ShouldFetch(f) \/ ShouldNotFetch(f)
       \/ FetchEnds(f) \/ IntervalKnown(f) \/ FetcherThrows(f)
  \/ \E p \in Pruners : FirstPruneEnds(p)

Spec == Init /\ [][Next]_vars

-----------------------------------------------------------------------------
\* Properties

\* Once every call of _selectRepository is over, the selected repository has a
\* pruner and, on GitHub, a fetcher, unless it is missing, and no other has:
\* whichever calls overlapped, for one object or several, and however the store
\* changed.  A fetcher whose questions threw still counts as its fetcher.
SelectedIsServed ==
  (\A c \in Calls : calls[c] = NoCall) =>
    IF selected = NoRepository \/ selected.is.missing
      THEN fetcher = None /\ pruner = None
      ELSE /\ pruner # None /\ prunerOf = selected.id
           /\ fetcher # None <=> selected.id \in OnGitHub
           /\ fetcher # None => fetcherOf[fetcher] = selected.id

\* The messages of startBackgroundFetching and BranchPruner.start: no fetcher
\* is active but the current one, and no interval of a pruner but the current
\* one's runs, unless the pruner was stopped during its first prune.
OldWorkersRest ==
  /\ \A f \in Fetchers \ stopped : f = fetcher \/ fetching[f] = "ended"
  /\ \A p \in Pruners \ outrun : p = pruner \/ pruning[p] = "ended"

\* A background fetch only begins for the repository that is selected.
FetchesSelected ==
  [][\A f \in Fetchers :
       fetching[f] # "fetching" /\ fetching'[f] = "fetching" =>
         f = fetcher /\ selected.id = fetcherOf[f]]_vars

\* What is selected is in the list, as the list has it as far as the hash can
\* tell, unless an update is on its way; nothing is selected only if nothing
\* is listed.
SelectionIsListed ==
  emitQueued \/
    IF selected = NoRepository THEN Present(listed) = {}
    ELSE /\ selected.id \in Present(listed)
         /\ Hash(selected.is) = Hash(listed[selected.id])
=============================================================================
