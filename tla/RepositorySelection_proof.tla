---------------------- MODULE RepositorySelection_proof ----------------------
(***************************************************************************)
(* What holds of the workers of the selected repository for any            *)
(* repositories and any number of fetchers and pruners.                    *)
(***************************************************************************)
EXTENDS RepositorySelection, WellFoundedInduction, TLAPS

-----------------------------------------------------------------------------
\* The current fetcher is the selected repository's, all others have ended or
\* were told to.

\* The parts of the types the workers rest on.
WorkerTypes ==
  /\ fetcher \in Fetchers \cup {None} /\ stopped \subseteq Fetchers
  /\ fetching \in [Fetchers -> FetchPhases]
  /\ fetcherOf \in [Fetchers -> Ids \cup {None}]
  /\ pruner \in Pruners \cup {None} /\ outrun \subseteq Pruners
  /\ pruning \in [Pruners -> PrunePhases]
  /\ calls \in [Calls -> CallsUnderWay \cup {NoCall}]

FetcherServes ==
  fetcher # None => fetcher \notin stopped /\ fetcherOf[fetcher] = selected.id

\* A fetcher that was stopped is still at one of its awaits.
StoppedAreOn == \A f \in stopped : fetching[f] # "ended"

WorkersInv ==
  WorkerTypes /\ FetcherServes /\ StoppedAreOn /\ OldWorkersRest

\* Repositories and their objects.
LEMMA ObjectId == ASSUME NEW o \in Objects PROVE o.id \in Ids
BY DEF Objects

-----------------------------------------------------------------------------
\* The calls under way.

\* A call that is looking is for an object.
LEMMA LookingCall ==
  ASSUME WorkersInv, NEW c \in Calls, calls[c].at # "over"
  PROVE  calls[c] \in CallsUnderWay /\ calls[c].of \in Objects
BY DEF WorkersInv, WorkerTypes, CallsUnderWay, NoCall

LEMMA CallBeginsType ==
  ASSUME WorkersInv, NEW o \in Objects, CallBegins(o)
  PROVE  /\ calls' \in [Calls -> CallsUnderWay \cup {NoCall}]
         /\ \E c \in Calls : calls'[c] = [at |-> "looking", of |-> o]
<1>1. [at |-> "looking", of |-> o] \in CallsUnderWay
  BY DEF CallsUnderWay
<1> QED
  BY <1>1 DEF CallBegins, WorkersInv, WorkerTypes

LEMMA CallEndsType ==
  ASSUME WorkersInv, NEW c \in Calls, CallEnds(c)
  PROVE  calls' \in [Calls -> CallsUnderWay \cup {NoCall}]
BY DEF CallEnds, WorkersInv, WorkerTypes

LEMMA RecoversType ==
  ASSUME WorkersInv, NEW c \in Calls, Recovers(c)
  PROVE  calls' \in [Calls -> CallsUnderWay \cup {NoCall}]
<1> DEFINE o == calls[c].of
<1>1. o \in Objects
  BY LookingCall DEF Recovers, Looks
<1>2. CASE CallEnds(c)
  BY <1>2, CallEndsType
<1>3. ASSUME NEW dir \in DirsOf[o.id],
             calls' = [calls EXCEPT ![c] =
                        [at |-> "anchoring",
                         of |-> [o EXCEPT !.is.gitDir = dir]]]
      PROVE  calls' \in [Calls -> CallsUnderWay \cup {NoCall}]
  <2>1. dir \in GitDirs
    BY <1>1, ObjectId, SelectionAssumption
  <2>2. [o EXCEPT !.is.gitDir = dir] \in Objects
    BY <1>1, <2>1 DEF Objects, Attributes
  <2>3. [at |-> "anchoring", of |-> [o EXCEPT !.is.gitDir = dir]]
          \in CallsUnderWay
    BY <2>2 DEF CallsUnderWay
  <2> QED
    BY <1>3, <2>3 DEF WorkersInv, WorkerTypes
<1> QED
  BY <1>2, <1>3 DEF Recovers

-----------------------------------------------------------------------------
\* Stopping and restarting the workers.

LEMMA FetchingStoppedType ==
  ASSUME WorkersInv
  PROVE  /\ FetchingStopped \in [Fetchers -> FetchPhases]
         /\ \A f \in Fetchers \ (stopped \cup StoppedNow) :
              FetchingStopped[f] = "ended"
         /\ \A f \in stopped \cup StoppedNow : FetchingStopped[f] # "ended"
         /\ stopped \cup StoppedNow \subseteq Fetchers
BY SelectionAssumption
DEF WorkersInv, WorkerTypes, FetchingStopped, StoppedNow, FetchPhases,
    FetcherServes, StoppedAreOn, OldWorkersRest

LEMMA StopFetcherRests ==
  ASSUME WorkersInv, StopFetcher
  PROVE  /\ fetcher' = None /\ stopped' \subseteq Fetchers
         /\ fetching' \in [Fetchers -> FetchPhases]
         /\ fetcherOf' \in [Fetchers -> Ids \cup {None}]
         /\ \A f \in Fetchers \ stopped' : fetching'[f] = "ended"
         /\ \A f \in stopped' : fetching'[f] # "ended"
BY FetchingStoppedType, SelectionAssumption
DEF StopFetcher, WorkersInv, WorkerTypes

LEMMA RestartFetcherRests ==
  ASSUME WorkersInv, NEW r \in Ids, RestartFetcher(r)
  PROVE  /\ fetcher' \in Fetchers \cup {None} /\ stopped' \subseteq Fetchers
         /\ fetching' \in [Fetchers -> FetchPhases]
         /\ fetcherOf' \in [Fetchers -> Ids \cup {None}]
         /\ fetcher' # None =>
              fetcher' \notin stopped' /\ fetcherOf'[fetcher'] = r
         /\ \A f \in Fetchers \ stopped' :
              f = fetcher' \/ fetching'[f] = "ended"
         /\ \A f \in stopped' : fetching'[f] # "ended"
<1>1. CASE r \notin OnGitHub
  BY <1>1, StopFetcherRests DEF RestartFetcher
<1>2. CASE r \in OnGitHub
  <2>1. PICK f \in Fetchers \ {fetcher}, first \in {"timeout", "asking"} :
          /\ fetching[f] = "ended"
          /\ fetcher' = f
          /\ stopped' = stopped \cup StoppedNow
          /\ fetching' = [FetchingStopped EXCEPT ![f] = first]
          /\ fetcherOf' = [fetcherOf EXCEPT ![f] = r]
    BY <1>2 DEF RestartFetcher
  <2>2. fetching' \in [Fetchers -> FetchPhases]
    BY <2>1, FetchingStoppedType DEF FetchPhases
  <2>3. fetcherOf' \in [Fetchers -> Ids \cup {None}] /\ fetcherOf'[f] = r
    BY <2>1 DEF WorkersInv, WorkerTypes
  <2>4. \A g \in Fetchers \ stopped' : g = f \/ fetching'[g] = "ended"
    BY <2>1, FetchingStoppedType
  <2>5. stopped' \subseteq Fetchers /\ f \notin stopped'
    BY <2>1, FetchingStoppedType DEF StoppedNow, WorkersInv, StoppedAreOn
  <2>6. \A g \in stopped' : fetching'[g] # "ended"
    BY <2>1, <2>5, FetchingStoppedType
  <2> QED
    BY <2>1, <2>2, <2>3, <2>4, <2>5, <2>6
<1> QED
  BY <1>1, <1>2

LEMMA PruningStoppedType ==
  ASSUME WorkersInv
  PROVE  /\ PruningStopped \in [Pruners -> PrunePhases]
         /\ OutrunNow \subseteq Pruners
         /\ \A p \in Pruners \ (outrun \cup OutrunNow) :
              PruningStopped[p] = "ended"
BY DEF WorkersInv, WorkerTypes, PruningStopped, OutrunNow, PrunePhases,
       OldWorkersRest

LEMMA StopPrunerRests ==
  ASSUME WorkersInv, StopPruner
  PROVE  /\ pruner' = None /\ outrun' \subseteq Pruners
         /\ pruning' \in [Pruners -> PrunePhases]
         /\ \A p \in Pruners \ outrun' : pruning'[p] = "ended"
BY PruningStoppedType DEF StopPruner, WorkersInv, WorkerTypes

LEMMA RestartPrunerRests ==
  ASSUME WorkersInv, NEW r \in Ids, RestartPruner(r)
  PROVE  /\ pruner' \in Pruners /\ outrun' \subseteq Pruners
         /\ pruning' \in [Pruners -> PrunePhases]
         /\ \A p \in Pruners \ outrun' : p = pruner' \/ pruning'[p] = "ended"
<1>1. PICK p \in Pruners \ {pruner} :
        /\ pruner' = p
        /\ pruning' = [PruningStopped EXCEPT ![p] = "first"]
        /\ outrun' = outrun \cup OutrunNow
  BY DEF RestartPruner
<1> QED
  BY <1>1, PruningStoppedType DEF WorkersInv, WorkerTypes, PrunePhases

-----------------------------------------------------------------------------
\* The inductive step.

LEMMA InitWorkers == Init => WorkersInv
BY SelectionAssumption
DEF Init, WorkersInv, WorkerTypes, FetcherServes, StoppedAreOn,
    OldWorkersRest, FetchPhases, PrunePhases

LEMMA SelectsWorkers ==
  ASSUME WorkersInv, NEW o \in Objects \cup {NoRepository}, Selects(o)
  PROVE  WorkersInv'
<1>1. StopFetcher /\ StopPruner
  BY DEF Selects
<1>2. calls' \in [Calls -> CallsUnderWay \cup {NoCall}]
  BY CallBeginsType DEF Selects, WorkersInv, WorkerTypes
<1> QED
  BY <1>1, <1>2, StopFetcherRests, StopPrunerRests
  DEF WorkersInv, WorkerTypes, FetcherServes, StoppedAreOn, OldWorkersRest

LEMMA StartWorkersWorkers ==
  ASSUME WorkersInv, NEW c \in Calls, StartWorkers(c)
  PROVE  WorkersInv'
<1> DEFINE o == calls[c].of
<1>1. o \in Objects /\ o.id \in Ids
  BY ObjectId, LookingCall DEF StartWorkers, Looks
<1>2. UNCHANGED selected /\ calls' \in [Calls -> CallsUnderWay \cup {NoCall}]
  BY CallEndsType DEF StartWorkers
<1>3. CASE StillSelected(o)
  <2>1. RestartFetcher(o.id) /\ RestartPruner(o.id) /\ selected = o
    BY <1>3 DEF StartWorkers, StillSelected
  <2> QED
    BY <1>1, <1>2, <2>1, RestartFetcherRests, RestartPrunerRests
    DEF WorkersInv, WorkerTypes, FetcherServes, StoppedAreOn, OldWorkersRest
<1>4. CASE ~StillSelected(o)
  BY <1>2, <1>4 DEF StartWorkers, fetchers, pruners, WorkersInv, WorkerTypes,
     FetcherServes, StoppedAreOn, OldWorkersRest
<1> QED
  BY <1>3, <1>4

\* A stopped fetcher ends, any other one that goes on is the current one.
LEMMA FetchStepWorkers ==
  ASSUME WorkersInv, NEW f \in Fetchers, NEW from \in FetchPhases \ {"ended"},
         NEW next \in FetchPhases, FetchStep(f, from, next)
  PROVE  WorkersInv'
<1>1. GoesOn(f, next) \in FetchPhases
  BY DEF GoesOn, FetchPhases
<1> QED
  BY <1>1 DEF FetchStep, pruners, WorkersInv, WorkerTypes, FetcherServes,
     StoppedAreOn, OldWorkersRest

\* A list of repositories that is not empty has a first one.
LEMMA FirstOne ==
  ASSUME NEW S, S \subseteq Nat, S # {}
  PROVE  \E r \in S : \A q \in S : r <= q
<1>1. PICK r \in S : \A q \in S : <<q, r>> \notin OpToRel(<, Nat)
  BY NatLessThanWellFounded, WFMin
<1>2. \A q \in S : ~ (q < r)
  BY <1>1 DEF OpToRel
<1> QED
  BY <1>2

LEMMA ReselectedType ==
  ASSUME NEW table \in Tables
  PROVE  Reselected(table) \in Objects \cup {NoRepository}
<1>1. Present(table) \subseteq Ids /\ Present(table) \subseteq Nat
  BY SelectionAssumption DEF Tables, Present
<1>2. \A r \in Present(table) : Object(table, r) \in Objects
  BY <1>1 DEF Tables, Present, Object, Objects
<1>3. CASE selected.id \in Present(table)
  BY <1>2, <1>3 DEF Reselected
<1>4. CASE selected.id \notin Present(table) /\ last \in Present(table)
  BY <1>2, <1>4 DEF Reselected
<1>5. CASE {selected.id, last} \cap Present(table) = {} /\ Present(table) # {}
  <2> DEFINE first == CHOOSE r \in Present(table) :
                        \A q \in Present(table) : r <= q
  <2>1. first \in Present(table)
    BY <1>1, <1>5, FirstOne
  <2>2. Reselected(table) = Object(table, first)
    BY <1>5 DEF Reselected
  <2> QED
    BY <1>2, <2>1, <2>2
<1>6. CASE {selected.id, last} \cap Present(table) = {} /\ Present(table) = {}
  BY <1>6 DEF Reselected
<1> QED
  BY <1>3, <1>4, <1>5, <1>6

LEMMA EmitWorkers ==
  ASSUME WorkersInv, db \in Tables, Emit
  PROVE  WorkersInv'
<1> DEFINE o == Reselected(db)
<1>1. CASE SelectionChanges(o)
  <2>1. Selects(o)
    BY <1>1 DEF Emit
  <2> QED
    BY <2>1, ReselectedType, SelectsWorkers
<1>2. CASE ~SelectionChanges(o)
  BY <1>2 DEF Emit, fetchers, pruners, WorkersInv, WorkerTypes, FetcherServes,
     StoppedAreOn, OldWorkersRest
<1> QED
  BY <1>1, <1>2
-----------------------------------------------------------------------------
\* The type invariant.

\* Tables are the functions from some ids to attributes.
LEMMA TableType ==
  ASSUME NEW S \in SUBSET Ids, NEW table \in [S -> Attributes]
  PROVE  table \in Tables /\ Present(table) = S
BY DEF Tables, Present

LEMMA TablePresent ==
  ASSUME NEW table \in Tables
  PROVE  /\ Present(table) \subseteq Ids
         /\ table \in [Present(table) -> Attributes]
BY DEF Tables, Present

TypeInv == TypeOK /\ WorkersInv

\* A repository of the store that is updated stays a repository of the store.
LEMMA UpdateTable ==
  ASSUME TypeInv, NEW r, NEW is, r \in Present(db) => is \in Attributes,
         Update(r, is)
  PROVE  db' \in Tables /\ listed' = listed /\ emitQueued' = TRUE
<1>1. CASE r \in Present(db)
  <2>1. db' = [db EXCEPT ![r] = is]
    BY <1>1 DEF Update, Write
  <2>2. db' \in [Present(db) -> Attributes]
    BY <1>1, <2>1, TablePresent DEF TypeInv, TypeOK
  <2> QED
    BY <2>2, TablePresent, TableType DEF TypeInv, TypeOK, Update, Write
<1>2. CASE r \notin Present(db)
  BY <1>2 DEF Update, Write, TypeInv, TypeOK
<1> QED
  BY <1>1, <1>2

\* The store changes: its table is a table, and the workers go on.
LEMMA StoreTypeInv ==
  ASSUME TypeInv,
         \/ \E r \in Ids : Added(r) \/ Changes(r) \/ Removed(r)
         \/ \E c \in Calls : Recovers(c) \/ AnchorsGitDir(c)
  PROVE  TypeInv'
<1> DEFINE Stored == db' \in Tables /\ listed' = listed /\ emitQueued' = TRUE
<1>1. Stored
  <2>1. ASSUME NEW r \in Ids, Added(r) PROVE db' \in Tables
    <3>1. PICK is \in Attributes :
            db' = [q \in Present(db) \cup {r} |-> IF q = r THEN is ELSE db[q]]
      BY <2>1 DEF Added, Write, AttributesOf
    <3>2. db' \in [Present(db) \cup {r} -> Attributes]
      BY <3>1, TablePresent DEF TypeInv, TypeOK
    <3> QED
      BY <3>2, TablePresent, TableType DEF TypeInv, TypeOK
  <2>2. ASSUME NEW r \in Ids, Changes(r) PROVE Stored
    BY <2>2, UpdateTable DEF Changes, AttributesOf
  <2>3. ASSUME NEW r \in Ids, Removed(r) PROVE db' \in Tables
    <3>1. db' \in [Present(db) \ {r} -> Attributes]
      BY <2>3, TablePresent DEF Removed, Write, TypeInv, TypeOK
    <3> QED
      BY <3>1, TablePresent, TableType DEF TypeInv, TypeOK
  <2>4. ASSUME NEW c \in Calls, Recovers(c) PROVE Stored
    <3> DEFINE r == calls[c].of.id
               is == [db[r] EXCEPT !.missing = FALSE]
    <3>1. r \in Present(db) => is \in Attributes
      <4>1. r \in Present(db) => db[r] \in Attributes
        BY TablePresent DEF TypeInv, TypeOK
      <4> QED
        BY <4>1 DEF Attributes
    <3>2. Update(r, is)
      BY <2>4 DEF Recovers
    <3> HIDE DEF r, is
    <3> QED
      BY <3>1, <3>2, UpdateTable
  <2>5. ASSUME NEW c \in Calls, AnchorsGitDir(c) PROVE Stored
    <3> DEFINE r == calls[c].of.id
               is == [db[r] EXCEPT !.gitDir = calls[c].of.is.gitDir]
    <3>1. calls[c].of \in Objects
      BY <2>5, LookingCall DEF AnchorsGitDir, TypeInv
    <3>2. r \in Present(db) => is \in Attributes
      <4>1. r \in Present(db) => db[r] \in Attributes
        BY TablePresent DEF TypeInv, TypeOK
      <4> QED
        BY <3>1, <4>1 DEF Attributes, Objects
    <3>3. Update(r, is)
      BY <2>5 DEF AnchorsGitDir
    <3> HIDE DEF r, is
    <3> QED
      BY <3>2, <3>3, UpdateTable
  <2> QED
    BY <2>1, <2>2, <2>3, <2>4, <2>5 DEF Added, Removed, Write
<1>2. /\ UNCHANGED <<selected, last, fetchers, pruners>>
      /\ calls' \in [Calls -> CallsUnderWay \cup {NoCall}]
  BY CallEndsType, RecoversType
  DEF Added, Changes, Removed, Recovers, AnchorsGitDir, TypeInv, TypeOK
<1> QED
  BY <1>1, <1>2 DEF TypeInv, TypeOK, fetchers, pruners, WorkersInv,
     WorkerTypes, FetcherServes, StoppedAreOn, OldWorkersRest

LEMMA SelectsTypes ==
  ASSUME TypeInv, NEW o \in Objects \cup {NoRepository}, Selects(o)
  PROVE  /\ selected' \in Objects \cup {NoRepository}
         /\ last' \in Ids \cup {None}
         /\ prunerOf' \in Ids \cup {None}
BY ObjectId DEF Selects, StopPruner, TypeInv, TypeOK

LEMMA UserSelectsTypeInv ==
  ASSUME TypeInv, NEW r \in Ids, UserSelects(r)
  PROVE  TypeInv'
<1>1. Object(listed, r) \in Objects
  BY TablePresent DEF UserSelects, TypeInv, TypeOK, Object, Objects
<1>2. Selects(Object(listed, r)) /\ UNCHANGED store
  BY DEF UserSelects
<1>3. WorkersInv'
  BY <1>1, <1>2, SelectsWorkers DEF TypeInv
<1> QED
  BY <1>1, <1>2, <1>3, SelectsTypes
  DEF TypeInv, TypeOK, store, WorkersInv, WorkerTypes

LEMMA EmitTypeInv ==
  ASSUME TypeInv, Emit
  PROVE  TypeInv'
<1>1. db \in Tables /\ UNCHANGED db /\ listed' = db /\ emitQueued' = FALSE
  BY DEF Emit, TypeInv, TypeOK
<1>2. WorkersInv'
  BY <1>1, EmitWorkers DEF TypeInv
<1>3. /\ selected' \in Objects \cup {NoRepository}
      /\ last' \in Ids \cup {None}
      /\ prunerOf' \in Ids \cup {None}
  <2>1. CASE SelectionChanges(Reselected(db))
    BY <1>1, <2>1, ReselectedType, SelectsTypes DEF Emit
  <2>2. CASE ~SelectionChanges(Reselected(db))
    BY <2>2 DEF Emit, TypeInv, TypeOK, pruners
  <2> QED
    BY <2>1, <2>2
<1> QED
  BY <1>1, <1>2, <1>3 DEF TypeInv, TypeOK, WorkersInv, WorkerTypes

LEMMA StartWorkersTypeInv ==
  ASSUME TypeInv, NEW c \in Calls, StartWorkers(c)
  PROVE  TypeInv'
<1>1. WorkersInv'
  BY StartWorkersWorkers DEF TypeInv
<1>2. prunerOf' \in Ids \cup {None}
  <2>1. calls[c].of.id \in Ids
    BY ObjectId, LookingCall DEF StartWorkers, Looks, TypeInv
  <2> QED
    BY <2>1 DEF StartWorkers, RestartPruner, TypeInv, TypeOK, pruners
<1> QED
  BY <1>1, <1>2 DEF StartWorkers, store, TypeInv, TypeOK, WorkersInv,
     WorkerTypes

LEMMA StaysMissingTypeInv ==
  ASSUME TypeInv, NEW c \in Calls, StaysMissing(c)
  PROVE  TypeInv'
<1>1. calls' \in [Calls -> CallsUnderWay \cup {NoCall}]
  BY CallEndsType DEF StaysMissing, TypeInv
<1> QED
  BY <1>1 DEF StaysMissing, store, fetchers, pruners, TypeInv, TypeOK,
     WorkersInv, WorkerTypes, FetcherServes, StoppedAreOn, OldWorkersRest

LEMMA FetchingTypeInv ==
  ASSUME TypeInv, NEW f \in Fetchers,
         \/ FetchTimeout(f) \/ ShouldFetch(f) \/ ShouldNotFetch(f)
         \/ FetchEnds(f) \/ IntervalKnown(f) \/ FetcherThrows(f)
  PROVE  TypeInv'
<1>1. PICK from \in FetchPhases \ {"ended"}, next \in FetchPhases :
        FetchStep(f, from, next)
  BY DEF FetchTimeout, ShouldFetch, ShouldNotFetch, FetchEnds, IntervalKnown,
     FetcherThrows, FetchPhases
<1>2. WorkersInv'
  BY <1>1, FetchStepWorkers DEF TypeInv
<1> QED
  BY <1>1, <1>2 DEF FetchStep, store, pruners, TypeInv, TypeOK, WorkersInv,
     WorkerTypes

\* A pruner that was not stopped can only set its interval if it is current.
LEMMA FirstPruneEndsTypeInv ==
  ASSUME TypeInv, NEW p \in Pruners, FirstPruneEnds(p)
  PROVE  TypeInv'
<1>1. /\ pruning[p] = "first"
      /\ UNCHANGED <<store, selected, last, calls, fetchers, pruner, prunerOf>>
  BY DEF FirstPruneEnds
<1>2. \/ pruning' = [pruning EXCEPT ![p] = "armed"] /\ outrun' = outrun
      \/ pruning' = [pruning EXCEPT ![p] = "ended"] /\ outrun' = outrun \ {p}
  BY DEF FirstPruneEnds
<1> QED
  BY <1>1, <1>2 DEF store, fetchers, TypeInv, TypeOK, WorkersInv, WorkerTypes,
     FetcherServes, StoppedAreOn, OldWorkersRest, PrunePhases

LEMMA InitTypeInv == Init => TypeInv
<1> SUFFICES ASSUME Init PROVE TypeInv
  OBVIOUS
<1>1. listed \in Tables
  <2>1. listed \in [{} -> Attributes]
    BY DEF Init
  <2> QED
    BY <2>1, TableType
<1> QED
  BY <1>1, InitWorkers DEF Init, TypeInv, TypeOK, FetchPhases, PrunePhases

LEMMA NextTypeInv == TypeInv /\ [Next]_vars => TypeInv'
<1> SUFFICES ASSUME TypeInv, [Next]_vars PROVE TypeInv'
  OBVIOUS
<1>1. CASE UNCHANGED vars
  BY <1>1 DEF vars, store, fetchers, pruners, TypeInv, TypeOK, WorkersInv,
     WorkerTypes, FetcherServes, StoppedAreOn, OldWorkersRest
<1>2. CASE Next
  BY <1>2, StoreTypeInv, UserSelectsTypeInv, EmitTypeInv, StartWorkersTypeInv,
     StaysMissingTypeInv, FetchingTypeInv, FirstPruneEndsTypeInv DEF Next
<1> QED
  BY <1>1, <1>2

\* Every variable of the selection and of its workers stays in its type.
THEOREM TypeCorrect == Spec => []TypeOK
<1>1. TypeInv => TypeOK
  BY DEF TypeInv
<1> QED
  BY <1>1, InitTypeInv, NextTypeInv, PTL DEF Spec

\* However selections, updates of the store and awaits of the workers
\* interleave, no fetcher is active but the current one, and no pruner but the
\* current one and those that were stopped during their first prune.
THEOREM OldWorkersAlwaysRest == Spec => []OldWorkersRest
<1>1. TypeInv => OldWorkersRest
  BY DEF TypeInv, WorkersInv
<1> QED
  BY <1>1, InitTypeInv, NextTypeInv, PTL DEF Spec
-----------------------------------------------------------------------------
\* Only the selected repository is fetched.

\* What FetchesSelected says of one step.
Fetches == \A f \in Fetchers :
             fetching[f] # "fetching" /\ fetching'[f] = "fetching" =>
               f = fetcher /\ selected.id = fetcherOf[f]

\* Stopping and restarting workers begins no fetch: only what asked does.
LEMMA NoFetchBegins ==
  ASSUME TypeInv, StopFetcher \/ \E r \in Ids : RestartFetcher(r)
  PROVE  \A f \in Fetchers : fetching'[f] = "fetching" =>
                             fetching[f] = "fetching"
<1>1. \A f \in Fetchers : FetchingStopped[f] = "fetching" =>
                           fetching[f] = "fetching"
  BY DEF FetchingStopped
<1>2. CASE StopFetcher
  BY <1>1, <1>2 DEF StopFetcher
<1>3. ASSUME NEW r \in Ids, r \in OnGitHub, RestartFetcher(r)
      PROVE  \A f \in Fetchers : fetching'[f] = "fetching" =>
                                 fetching[f] = "fetching"
  <2>1. PICK f \in Fetchers, first \in {"timeout", "asking"} :
          fetching' = [FetchingStopped EXCEPT ![f] = first]
    BY <1>3 DEF RestartFetcher
  <2>2. FetchingStopped \in [Fetchers -> FetchPhases]
    BY FetchingStoppedType DEF TypeInv
  <2> QED
    BY <1>1, <2>1, <2>2
<1> QED
  BY <1>2, <1>3 DEF RestartFetcher

LEMMA NextFetches == TypeInv /\ [Next]_vars => [Fetches]_vars
<1> SUFFICES ASSUME TypeInv, Next PROVE Fetches
  OBVIOUS
<1>1. CASE UNCHANGED fetching
  BY <1>1 DEF Fetches
<1>2. CASE StopFetcher \/ \E r \in Ids : RestartFetcher(r)
  BY <1>2, NoFetchBegins DEF Fetches
<1>3. ASSUME NEW c \in Calls, StartWorkers(c) PROVE Fetches
  <2>1. calls[c].of.id \in Ids
    BY <1>3, ObjectId, LookingCall DEF StartWorkers, Looks, TypeInv
  <2> QED
    BY <1>1, <1>2, <1>3, <2>1 DEF StartWorkers, fetchers
<1>4. ASSUME NEW f \in Fetchers, ShouldFetch(f) PROVE Fetches
  <2>1. CASE f \in stopped
    BY <1>4, <2>1 DEF ShouldFetch, FetchStep, GoesOn, Fetches, TypeInv, TypeOK
  <2>2. CASE f \notin stopped
    <3>1. f = fetcher /\ selected.id = fetcherOf[f]
      BY <1>4, <2>2, SelectionAssumption DEF ShouldFetch, FetchStep, TypeInv,
         WorkersInv, FetcherServes, OldWorkersRest
    <3> QED
      BY <1>4, <3>1 DEF ShouldFetch, FetchStep, Fetches, TypeInv, TypeOK
  <2> QED
    BY <2>1, <2>2
<1>5. ASSUME NEW f \in Fetchers,
             \/ FetchTimeout(f) \/ ShouldNotFetch(f) \/ FetchEnds(f)
             \/ IntervalKnown(f) \/ FetcherThrows(f)
      PROVE  Fetches
  <2>1. PICK next \in FetchPhases \ {"fetching"} :
          fetching' = [fetching EXCEPT ![f] = next]
    BY <1>5 DEF FetchTimeout, ShouldNotFetch, FetchEnds, IntervalKnown,
       FetcherThrows, FetchStep, GoesOn, FetchPhases
  <2> QED
    BY <2>1 DEF Fetches, TypeInv, TypeOK
<1>6. ASSUME NEW r, UserSelects(r) PROVE Fetches
  BY <1>2, <1>6 DEF UserSelects, Selects
<1>7. CASE Emit
  BY <1>1, <1>2, <1>7 DEF Emit, Selects, fetchers
<1>8. ASSUME NEW c, StaysMissing(c) \/ Recovers(c) \/ AnchorsGitDir(c)
      PROVE  Fetches
  BY <1>1, <1>8 DEF StaysMissing, Recovers, AnchorsGitDir, fetchers
<1>9. ASSUME NEW r, Added(r) \/ Changes(r) \/ Removed(r) PROVE Fetches
  BY <1>1, <1>9 DEF Added, Changes, Removed, fetchers
<1>10. ASSUME NEW p, FirstPruneEnds(p) PROVE Fetches
  BY <1>1, <1>10 DEF FirstPruneEnds, fetchers
<1> QED
  BY <1>3, <1>4, <1>5, <1>6, <1>7, <1>8, <1>9, <1>10 DEF Next

\* A background fetch never begins for a repository that is not selected.
THEOREM FetchesOnlySelected == Spec => FetchesSelected
<1>1. FetchesSelected <=> [][Fetches]_vars
  BY PTL DEF FetchesSelected, Fetches
<1> QED
  BY <1>1, InitTypeInv, NextTypeInv, NextFetches, PTL DEF Spec

-----------------------------------------------------------------------------
\* What is selected is listed.

ListedInv == TypeInv /\ SelectionIsListed

\* An object of the list is as the list has it.
LEMMA ObjectListed ==
  ASSUME NEW table \in Tables, NEW r \in Present(table)
  PROVE  /\ Object(table, r) # NoRepository
         /\ Object(table, r).id = r
         /\ Object(table, r).is = table[r]
<1>1. r # None
  BY TablePresent, SelectionAssumption
<1>2. Object(table, r).id = r /\ Object(table, r).is = table[r]
  BY DEF Object
<1> QED
  BY <1>1, <1>2 DEF NoRepository

\* What is selected after a change of the list is in it.
LEMMA ReselectedListed ==
  ASSUME NEW table \in Tables
  PROVE  IF Reselected(table) = NoRepository THEN Present(table) = {}
         ELSE \E r \in Present(table) : Reselected(table) = Object(table, r)
<1>1. Present(table) \subseteq Nat
  BY TablePresent, SelectionAssumption
<1>2. CASE selected.id \in Present(table)
  BY <1>2, ObjectListed DEF Reselected
<1>3. CASE selected.id \notin Present(table) /\ last \in Present(table)
  BY <1>3, ObjectListed DEF Reselected
<1>4. CASE {selected.id, last} \cap Present(table) = {} /\ Present(table) # {}
  <2> DEFINE first == CHOOSE r \in Present(table) :
                        \A q \in Present(table) : r <= q
  <2>1. first \in Present(table)
    BY <1>1, <1>4, FirstOne
  <2>2. Reselected(table) = Object(table, first)
    BY <1>4 DEF Reselected
  <2> QED
    BY <2>1, <2>2, ObjectListed
<1>5. CASE {selected.id, last} \cap Present(table) = {} /\ Present(table) = {}
  BY <1>5 DEF Reselected
<1> QED
  BY <1>2, <1>3, <1>4, <1>5

LEMMA UserSelectsListed ==
  ASSUME ListedInv, NEW r \in Ids, UserSelects(r)
  PROVE  SelectionIsListed'
<1>1. /\ selected' = Object(listed, r) /\ UNCHANGED listed
      /\ r \in Present(listed)
  BY DEF UserSelects, Selects, store
<1>2. selected'.id = r /\ selected'.is = listed[r] /\ selected' # NoRepository
  BY <1>1, ObjectListed DEF ListedInv, TypeInv, TypeOK
<1> QED
  BY <1>1, <1>2 DEF SelectionIsListed, Present, Hash

LEMMA EmitListed ==
  ASSUME ListedInv, Emit
  PROVE  SelectionIsListed'
<1> DEFINE o == Reselected(db)
<1>1. db \in Tables /\ listed' = db
  BY DEF Emit, ListedInv, TypeInv, TypeOK
<1>2. CASE o = NoRepository
  <2>1. Present(db) = {}
    BY <1>1, <1>2, ReselectedListed
  <2>2. selected' = NoRepository
    <3>1. CASE SelectionChanges(o)
      BY <1>2, <3>1 DEF Emit, Selects
    <3>2. CASE ~SelectionChanges(o)
      BY <1>2, <3>2 DEF Emit, SelectionChanges
    <3> QED
      BY <3>1, <3>2
  <2> QED
    BY <1>1, <2>1, <2>2 DEF SelectionIsListed, Present
<1>3. CASE o # NoRepository
  <2>1. PICK r \in Present(db) : o = Object(db, r)
    BY <1>1, <1>3, ReselectedListed
  <2>2. o.id = r /\ o.is = db[r]
    BY <1>1, <2>1, ObjectListed
  <2>3. selected' # NoRepository /\ selected'.id = o.id
        /\ Hash(selected'.is) = Hash(o.is)
    <3>1. CASE SelectionChanges(o)
      BY <1>3, <3>1 DEF Emit, Selects
    <3>2. CASE ~SelectionChanges(o)
      BY <1>3, <3>2 DEF Emit, SelectionChanges
    <3> QED
      BY <3>1, <3>2
  <2> QED
    BY <1>1, <2>1, <2>2, <2>3 DEF SelectionIsListed, Present, Hash
<1> QED
  BY <1>2, <1>3

LEMMA InitListed == Init => ListedInv
BY InitTypeInv DEF Init, ListedInv, SelectionIsListed

LEMMA NextListed == ListedInv /\ [Next]_vars => ListedInv'
<1> SUFFICES ASSUME ListedInv, [Next]_vars PROVE SelectionIsListed'
  BY NextTypeInv DEF ListedInv
<1>1. CASE UNCHANGED <<store, selected>>
  BY <1>1 DEF store, ListedInv, SelectionIsListed, Present, Hash
<1>2. CASE emitQueued'
  BY <1>2 DEF SelectionIsListed
<1>3. ASSUME NEW r \in Ids, UserSelects(r) PROVE SelectionIsListed'
  BY <1>3, UserSelectsListed
<1>4. ASSUME NEW c, StartWorkers(c) \/ StaysMissing(c)
      PROVE  SelectionIsListed'
  BY <1>1, <1>4 DEF StartWorkers, StaysMissing
<1>5. ASSUME NEW c, Recovers(c) \/ AnchorsGitDir(c) PROVE SelectionIsListed'
  BY <1>2, <1>5 DEF Recovers, AnchorsGitDir, Update, Write
<1>6. ASSUME NEW r, Added(r) \/ Changes(r) \/ Removed(r)
      PROVE  SelectionIsListed'
  BY <1>2, <1>6 DEF Added, Changes, Removed, Update, Write
<1>7. CASE Emit
  BY <1>7, EmitListed
<1>8. ASSUME NEW f,
             \/ FetchTimeout(f) \/ ShouldFetch(f) \/ ShouldNotFetch(f)
             \/ FetchEnds(f) \/ IntervalKnown(f) \/ FetcherThrows(f)
      PROVE  SelectionIsListed'
  BY <1>1, <1>8 DEF FetchTimeout, ShouldFetch, ShouldNotFetch, FetchEnds,
     IntervalKnown, FetcherThrows, FetchStep
<1>9. ASSUME NEW p, FirstPruneEnds(p) PROVE SelectionIsListed'
  BY <1>1, <1>9 DEF FirstPruneEnds
<1>10. CASE UNCHANGED vars
  BY <1>1, <1>10 DEF vars
<1> QED
  BY <1>3, <1>4, <1>5, <1>6, <1>7, <1>8, <1>9, <1>10 DEF Next

\* With no update of the store on its way, the selected repository is in the
\* list, as the list has it as far as the hash can tell, and nothing is
\* selected only if nothing is listed.
THEOREM SelectionAlwaysListed == Spec => []SelectionIsListed
<1>1. ListedInv => SelectionIsListed
  BY DEF ListedInv
<1> QED
  BY <1>1, InitListed, NextListed, PTL DEF Spec
-----------------------------------------------------------------------------
\* The selected repository has its workers.

Idle == fetcher = None /\ pruner = None

Served ==
  /\ pruner # None /\ prunerOf = selected.id
  /\ fetcher # None <=> selected.id \in OnGitHub
  /\ fetcher # None => fetcherOf[fetcher] = selected.id

\* A call for object o will look whether o is still selected.
UnderWay(o) == \E c \in Calls : calls[c] = [at |-> "looking", of |-> o]

\* A repository that is there and not served yet has its call under way.
ServedInv ==
  /\ TypeInv
  /\ IF selected = NoRepository \/ selected.is.missing THEN Idle
     ELSE UnderWay(selected) \/ Served

LEMMA RestartServes ==
  ASSUME TypeInv, NEW r \in Ids, RestartFetcher(r), RestartPruner(r)
  PROVE  /\ pruner' # None /\ prunerOf' = r
         /\ fetcher' # None <=> r \in OnGitHub
         /\ fetcher' # None => fetcherOf'[fetcher'] = r
<1>1. pruner' # None /\ prunerOf' = r
  BY SelectionAssumption DEF RestartPruner, TypeInv, TypeOK
<1>2. fetcher' # None <=> r \in OnGitHub
  BY SelectionAssumption DEF RestartFetcher, StopFetcher
<1>3. fetcher' # None => fetcherOf'[fetcher'] = r
  BY RestartFetcherRests DEF TypeInv
<1> QED
  BY <1>1, <1>2, <1>3

LEMMA SelectsServed ==
  ASSUME WorkersInv, NEW o \in Objects \cup {NoRepository}, Selects(o)
  PROVE  /\ fetcher' = None /\ pruner' = None /\ selected' = o
         /\ o # NoRepository => UnderWay(o)'
<1>1. fetcher' = None /\ pruner' = None /\ selected' = o
  BY DEF Selects, StopFetcher, StopPruner
<1>2. CASE o # NoRepository
  BY <1>1, <1>2, CallBeginsType DEF Selects, UnderWay
<1> QED
  BY <1>1, <1>2

\* The end of a call for another object leaves the call of the selected one.
LEMMA EndsOther ==
  ASSUME TypeInv, NEW c \in Calls, CallEnds(c), UNCHANGED selected,
         calls[c].of # selected, UnderWay(selected)
  PROVE  UnderWay(selected)'
BY DEF CallEnds, UnderWay, TypeInv, TypeOK

LEMMA InitServed == Init => ServedInv
BY InitTypeInv DEF Init, ServedInv, Idle

LEMMA NextServed == ServedInv /\ [Next]_vars => ServedInv'
<1> SUFFICES ASSUME ServedInv, [Next]_vars PROVE ServedInv'
  OBVIOUS
<1>1. TypeInv'
  BY NextTypeInv DEF ServedInv
<1>2. CASE UNCHANGED <<selected, calls, fetcher, fetcherOf, pruner, prunerOf>>
  BY <1>1, <1>2 DEF ServedInv, Idle, Served, UnderWay
<1>3. ASSUME NEW o \in Objects \cup {NoRepository}, Selects(o)
      PROVE  ServedInv'
  BY <1>1, <1>3, SelectsServed DEF ServedInv, TypeInv, Idle
<1>4. ASSUME NEW c \in Calls, StartWorkers(c) PROVE ServedInv'
  <2> DEFINE o == calls[c].of
  <2>1. o.id \in Ids /\ UNCHANGED selected
    BY <1>4, ObjectId, LookingCall DEF StartWorkers, Looks, ServedInv, TypeInv
  <2>2. CASE StillSelected(o)
    <3>1. RestartFetcher(o.id) /\ RestartPruner(o.id) /\ selected = o
      BY <1>4, <2>2 DEF StartWorkers, StillSelected
    <3>2. Served'
      BY <2>1, <3>1, RestartServes DEF Served, ServedInv
    <3>3. ~selected.is.missing /\ selected # NoRepository
      <4>1. selected.id # None
        BY <2>1, <3>1, SelectionAssumption
      <4> QED
        BY <1>4, <3>1, <4>1 DEF StartWorkers, NoRepository
    <3> QED
      BY <1>1, <2>1, <3>2, <3>3 DEF ServedInv
  <2>3. CASE ~StillSelected(o)
    <3>1. UNCHANGED <<fetcher, fetcherOf, pruner, prunerOf>>
      BY <1>4, <2>3 DEF StartWorkers, StillSelected, fetchers, pruners
    <3>2. ASSUME UnderWay(selected) PROVE UnderWay(selected)'
      BY <1>4, <2>1, <2>3, <3>2, EndsOther DEF StartWorkers, StillSelected,
         ServedInv, TypeInv
    <3> QED
      BY <1>1, <2>1, <3>1, <3>2 DEF ServedInv, Idle, Served
  <2> QED
    BY <2>2, <2>3
<1>5. ASSUME NEW c \in Calls,
             StaysMissing(c) \/ Recovers(c) \/ AnchorsGitDir(c)
      PROVE  ServedInv'
  <2>1. UNCHANGED <<selected, fetcher, fetcherOf, pruner, prunerOf>>
    BY <1>5 DEF StaysMissing, Recovers, AnchorsGitDir, fetchers, pruners
  <2>2. ~Looks(c) \/ calls[c].of.is.missing
    BY <1>5 DEF StaysMissing, Recovers, AnchorsGitDir, Looks
  <2>3. \A b \in Calls \ {c} : calls'[b] = calls[b]
    BY <1>5 DEF StaysMissing, Recovers, AnchorsGitDir, CallEnds, ServedInv,
       TypeInv, TypeOK
  <2>4. CASE selected # NoRepository /\ ~selected.is.missing
    <3>1. ASSUME UnderWay(selected) PROVE UnderWay(selected)'
      BY <2>1, <2>2, <2>3, <2>4, <3>1 DEF UnderWay, Looks
    <3> QED
      BY <1>1, <2>1, <2>4, <3>1 DEF ServedInv, Served
  <2>5. CASE selected = NoRepository \/ selected.is.missing
    BY <1>1, <2>1, <2>5 DEF ServedInv, Idle
  <2> QED
    BY <2>4, <2>5
<1>6. ASSUME NEW r, UserSelects(r) PROVE ServedInv'
  <2>1. Object(listed, r) \in Objects
    BY <1>6, TablePresent DEF UserSelects, ServedInv, TypeInv, TypeOK, Object,
       Objects
  <2> QED
    BY <1>3, <1>6, <2>1 DEF UserSelects
<1>7. CASE Emit
  BY <1>2, <1>3, <1>7, ReselectedType DEF Emit, fetchers, pruners, ServedInv,
     TypeInv, TypeOK
<1>8. ASSUME NEW r, Added(r) \/ Changes(r) \/ Removed(r) PROVE ServedInv'
  BY <1>2, <1>8 DEF Added, Changes, Removed, fetchers, pruners
<1>9. ASSUME NEW f,
             \/ FetchTimeout(f) \/ ShouldFetch(f) \/ ShouldNotFetch(f)
             \/ FetchEnds(f) \/ IntervalKnown(f) \/ FetcherThrows(f)
      PROVE  ServedInv'
  BY <1>2, <1>9 DEF FetchTimeout, ShouldFetch, ShouldNotFetch, FetchEnds,
     IntervalKnown, FetcherThrows, FetchStep, pruners
<1>10. ASSUME NEW p, FirstPruneEnds(p) PROVE ServedInv'
  BY <1>2, <1>10 DEF FirstPruneEnds, fetchers
<1>11. CASE UNCHANGED vars
  BY <1>2, <1>11 DEF vars, fetchers, pruners
<1> QED
  BY <1>4, <1>5, <1>6, <1>7, <1>8, <1>9, <1>10, <1>11 DEF Next

\* However calls of _selectRepository overlap with each other and with updates
\* of the store: when the last is over, the selected repository has its workers
\* and no other one has.
THEOREM SelectedAlwaysServed == Spec => []SelectedIsServed
<1>1. ServedInv => SelectedIsServed
  BY DEF ServedInv, SelectedIsServed, Idle, Served, UnderWay, NoCall
<1> QED
  BY <1>1, InitServed, NextServed, PTL DEF Spec
=============================================================================
