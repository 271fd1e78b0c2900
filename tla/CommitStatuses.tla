---------------------------- MODULE CommitStatuses --------------------------
(***************************************************************************)
(* The statuses of commits (CommitStatusStore): subscriptions to refs, a   *)
(* cache of the answers of the API, and the refreshes that fill it.        *)
(*                                                                         *)
(* A subscription is an object that may be replaced by one for a branch,   *)
(* which shares its set of callbacks; a new set is made when the last      *)
(* callback has left.  A refresh notifies the set it found when it began.  *)
(***************************************************************************)
EXTENDS Naturals, FiniteSets

CONSTANTS
  Refs,       \* keys of subscriptions and of the cache
  Callbacks,  \* who subscribes
  Jobs,       \* refreshes queued or under way at the same time
  MaxConcurrentFetches,
  MaxActs,    \* bound: what users, the network and the server do
  Null

\* Sets of callbacks; there are more of them than are referred to.
Sets == 0..Cardinality(Callbacks) + Cardinality(Jobs)
Subscription == [set : Sets, branch : BOOLEAN]
Check == [version : 0..MaxActs, workflows : BOOLEAN, pending : BOOLEAN]
Entry == [check : Check \cup {Null}, recent : BOOLEAN]
Job == [ref : Refs, at : {"waiting"}] \cup
       [ref : Refs, at : {"fetching"}, set : Sets, branch : BOOLEAN,
        since : 0..MaxActs]

ASSUME CommitStatusesAssumption ==
  /\ IsFiniteSet(Callbacks) /\ IsFiniteSet(Jobs)
  /\ MaxConcurrentFetches \in Nat \ {0} /\ MaxActs \in Nat
  /\ Null \notin Subscription \cup (Refs \X Sets) \cup Check
  /\ Null \notin Entry \cup Job

VARIABLES
  subscriptions,  \* for each ref: its set of callbacks and whether a branch
  joined,         \* for each callback: the ref and set it is in
  shows,          \* for each callback: the check it was last told
  cache,          \* for each ref: the check and whether it is too recent
  jobs,           \* the refreshes, with what they found when they began
  refreshQueued,
  background,     \* background refreshing is on
  account,        \* there is an account for the endpoint
  server,         \* for each ref: the version of its status at the server
  acts,           \* bound: acts so far
  renewed         \* history: refs whose set was renewed during a refresh

store == <<subscriptions, joined, shows, cache>>
statusesVars == <<store, jobs, refreshQueued, background, account, server,
                  acts, renewed>>

\* A callback is in the set of its ref's subscription, so that nobody else's
\* leaving ends it, also when the subscription was replaced for a branch.
StatusesTypeOK ==
  /\ subscriptions \in [Refs -> Subscription \cup {Null}]
  /\ joined \in [Callbacks -> (Refs \X Sets) \cup {Null}]
  /\ shows \in [Callbacks -> Check \cup {Null}]
  /\ cache \in [Refs -> Entry \cup {Null}]
  /\ jobs \in [Jobs -> Job \cup {Null}]
  /\ refreshQueued \in BOOLEAN /\ background \in BOOLEAN /\ account \in BOOLEAN
  /\ server \in [Refs -> 0..MaxActs]
  /\ acts \in 0..MaxActs /\ renewed \subseteq Refs
  /\ \A c \in Callbacks : joined[c] # Null =>
       LET s == subscriptions[joined[c][1]] IN s # Null /\ s.set = joined[c][2]

-----------------------------------------------------------------------------

StatusesInit ==
  /\ subscriptions = [r \in Refs |-> Null]
  /\ joined = [c \in Callbacks |-> Null] /\ shows = [c \in Callbacks |-> Null]
  /\ cache = [r \in Refs |-> Null]
  /\ jobs = [j \in Jobs |-> Null]
  /\ refreshQueued = FALSE /\ background = FALSE /\ account \in BOOLEAN
  /\ server = [r \in Refs |-> 0]
  /\ acts = 0 /\ renewed = {}

Act == acts < MaxActs /\ acts' = acts + 1

Fetching == {j \in Jobs : jobs[j] # Null /\ jobs[j].at = "fetching"}

\* this.queue: what is worked on.
Queue == {jobs[j].ref : j \in {i \in Jobs : jobs[i] # Null}}

\* A refresh of r is under way that found another set than s.
FetchedForOld(r, s) == \E j \in Fetching : jobs[j].ref = r /\ jobs[j].set # s

Cached(r) == IF cache[r] = Null THEN Null ELSE cache[r].check

-----------------------------------------------------------------------------
\* Subscribing

\* tryGetStatus, as callers ask it before they subscribe.
TryGetStatus(r, branch) ==
  IF branch /\ (subscriptions[r] = Null \/ ~subscriptions[r].branch) THEN Null
  ELSE Cached(r)

\* A new set, which nothing refers to.
NewSet(r) ==
  LET Used(n) == \/ \E c \in Callbacks : joined[c] = <<r, n>>
                 \/ \E j \in Fetching : jobs[j].ref = r /\ jobs[j].set = n IN
  CHOOSE n \in Sets : ~Used(n)

\* getOrCreateSubscription: the set there is, or a new one.
SetOf(r) == IF subscriptions[r] = Null THEN NewSet(r) ELSE subscriptions[r].set

\* The cached check is as if of long ago when the branch changes.
OutOfDate(r, branch) ==
  subscriptions[r] # Null /\ subscriptions[r].branch # branch

Subscribe(c, r, branch) ==
  /\ Act /\ joined[c] = Null
  /\ subscriptions' =
       [subscriptions EXCEPT ![r] = [set |-> SetOf(r), branch |-> branch]]
  /\ joined' = [joined EXCEPT ![c] = <<r, SetOf(r)>>]
  /\ shows' = [shows EXCEPT ![c] = TryGetStatus(r, branch)]
  /\ cache' = IF OutOfDate(r, branch) /\ cache[r] # Null
                THEN [cache EXCEPT ![r].recent = FALSE] ELSE cache
  /\ refreshQueued' = TRUE
  /\ renewed' = IF FetchedForOld(r, SetOf(r))
                  THEN renewed \cup {r} ELSE renewed
  /\ UNCHANGED <<jobs, background, account, server>>

\* Mutant: the subscription ends with its first callback.
EmptiedAlways(s) == TRUE

\* No callback is left in set s.
Emptied(s) == \A c \in Callbacks : joined'[c] # s

\* The Disposable of a callback.
Unsubscribe(c) ==
  /\ Act /\ joined[c] # Null
  /\ joined' = [joined EXCEPT ![c] = Null]
  /\ shows' = [shows EXCEPT ![c] = Null]
  /\ subscriptions' = IF Emptied(joined[c])
                        THEN [subscriptions EXCEPT ![joined[c][1]] = Null]
                        ELSE subscriptions
  /\ UNCHANGED <<cache, jobs, refreshQueued, background, account, server,
                 renewed>>

\* The callbacks of set s of ref r are told check.
Told(r, s, check) ==
  shows' = [c \in Callbacks |->
              IF joined[c] = <<r, s>> THEN check ELSE shows[c]]

\* Checks are rerun, and the API confirms, before manualRefreshSubscription
\* shows what is cached as pending: as the status of the rerun.  It does not
\* look at the queue, so that a refresh may be under way.
ManualRefresh(r) ==
  /\ Act /\ server' = [server EXCEPT ![r] = @ + 1]
  /\ IF subscriptions[r] = Null \/ Cached(r) = Null
       THEN UNCHANGED <<cache, shows, renewed>>
       ELSE LET check == [Cached(r) EXCEPT !.pending = TRUE,
                                           !.version = server[r] + 1] IN
            /\ cache' = [cache EXCEPT ![r] =
                           [check |-> check, recent |-> TRUE]]
            /\ Told(r, subscriptions[r].set, check)
            /\ renewed' = IF FetchedForOld(r, subscriptions[r].set)
                            THEN renewed ELSE renewed \ {r}
  /\ UNCHANGED <<subscriptions, joined, jobs, refreshQueued, background,
                 account>>

-----------------------------------------------------------------------------
\* Refreshing

\* Mutants: a ref is only refreshed once; one that is worked on, all the same.
EligibleOnce(r) == subscriptions[r] # Null /\ r \notin Queue /\ cache[r] = Null
EligibleAnyway(r) ==
  subscriptions[r] # Null /\ (cache[r] # Null => ~cache[r].recent)

\* What refreshEligibleSubscriptions refreshes.
Eligible(r) ==
  /\ subscriptions[r] # Null /\ r \notin Queue
  /\ cache[r] # Null => ~cache[r].recent

Waiting(r) == [ref |-> r, at |-> "waiting"]

\* The callback of setImmediate.
RefreshEligible ==
  /\ refreshQueued /\ refreshQueued' = FALSE
  /\ LET new == {r \in Refs : Eligible(r)}
         free == {j \in Jobs : jobs[j] = Null} IN
       \E f \in [new -> free] :
         /\ \A q, r \in new : f[q] = f[r] => q = r
         /\ jobs' = [j \in Jobs |->
                      IF \E r \in new : f[r] = j
                        THEN Waiting(CHOOSE r \in new : f[r] = j) ELSE jobs[j]]
  /\ UNCHANGED <<store, background, account, server, acts, renewed>>

Over(j) == jobs' = [jobs EXCEPT ![j] = Null]

\* refreshSubscription, once the limit lets it run: it looks up subscription
\* and account and asks the API.
BeginFetch(j) ==
  /\ jobs[j] # Null /\ jobs[j].at = "waiting"
  /\ Cardinality(Fetching) < MaxConcurrentFetches
  /\ LET r == jobs[j].ref IN
       IF subscriptions[r] = Null \/ ~account THEN Over(j)
       ELSE jobs' = [jobs EXCEPT ![j] =
              [ref |-> r, at |-> "fetching", set |-> subscriptions[r].set,
               branch |-> subscriptions[r].branch, since |-> server[r]]]
  /\ UNCHANGED <<store, refreshQueued, background, account, server, acts,
                 renewed>>

\* Mutant: the answer is cached and nobody is told.
NotTold(r, s, check) == shows' = shows

\* Who is told the answer of a refresh.
Notify(r, s, check) == Told(r, s, check)

\* The workflows of a branch are asked for, unless nobody is subscribed any
\* more or the account is gone, or are those of what is cached.
Workflows(j) ==
  LET r == jobs[j].ref IN
    {jobs[j].branch /\ subscriptions[r] # Null /\ account,
     jobs[j].branch /\ Cached(r) # Null /\ Cached(r).workflows}

\* The API has answered.
FetchEnds(j) ==
  /\ j \in Fetching /\ Over(j)
  /\ \E v \in jobs[j].since..server[jobs[j].ref], w \in Workflows(j) :
       LET r == jobs[j].ref
           check == [version |-> v, pending |-> FALSE, workflows |-> w] IN
       /\ cache' = [cache EXCEPT ![r] = [check |-> check, recent |-> TRUE]]
       /\ Notify(r, jobs[j].set, check)
       /\ renewed' = IF subscriptions[r] # Null /\
                        subscriptions[r].set = jobs[j].set
                       THEN renewed \ {r} ELSE renewed
  /\ UNCHANGED <<subscriptions, joined, refreshQueued, background, account,
                 server, acts>>

\* The API has not answered: what is cached counts as recent.
FetchFails(j) ==
  /\ j \in Fetching /\ Over(j) /\ Act
  /\ cache' = [cache EXCEPT ![jobs[j].ref] =
                 [check |-> Cached(jobs[j].ref), recent |-> TRUE]]
  /\ UNCHANGED <<subscriptions, joined, shows, refreshQueued, background,
                 account, server, renewed>>

FetchThrows(j) ==
  /\ j \in Fetching /\ Over(j) /\ Act
  /\ UNCHANGED <<store, refreshQueued, background, account, server, renewed>>

-----------------------------------------------------------------------------
\* Around the store

\* setAppFocusState: startBackgroundRefresh and stopBackgroundRefresh.
StartBackgroundRefresh ==
  /\ Act /\ ~background /\ background' = TRUE /\ refreshQueued' = TRUE
  /\ UNCHANGED <<store, jobs, account, server, renewed>>

StopBackgroundRefresh ==
  /\ Act /\ background /\ background' = FALSE
  /\ UNCHANGED <<store, jobs, refreshQueued, account, server, renewed>>

\* The interval of the background refresh, longer than entries are recent.
BackgroundTick ==
  /\ background /\ refreshQueued' = TRUE
  /\ UNCHANGED <<store, jobs, background, account, server, acts, renewed>>

\* A minute passes.
Ages(r) ==
  /\ cache[r] # Null /\ cache[r].recent
  /\ cache' = [cache EXCEPT ![r].recent = FALSE]
  /\ UNCHANGED <<subscriptions, joined, shows, jobs, refreshQueued, background,
                 account, server, acts, renewed>>

SignsInOrOut ==
  /\ Act /\ account' = ~account
  /\ UNCHANGED <<store, jobs, refreshQueued, background, server, renewed>>

Progresses(r) ==
  /\ Act /\ server' = [server EXCEPT ![r] = @ + 1]
  /\ UNCHANGED <<store, jobs, refreshQueued, background, account, renewed>>

StatusesNext ==
  \/ \E c \in Callbacks, r \in Refs, b \in BOOLEAN : Subscribe(c, r, b)
  \/ \E c \in Callbacks : Unsubscribe(c)
  \/ \E r \in Refs : ManualRefresh(r) \/ Ages(r) \/ Progresses(r)
  \/ RefreshEligible
  \/ \E j \in Jobs :
       BeginFetch(j) \/ FetchEnds(j) \/ FetchFails(j) \/ FetchThrows(j)
  \/ StartBackgroundRefresh \/ StopBackgroundRefresh \/ BackgroundTick
  \/ SignsInOrOut

\* The interval and setImmediate fire, time passes, the API answers in the end,
\* and the limit lets refreshes run in the order they came.
StatusesFairness ==
  /\ WF_statusesVars(BackgroundTick) /\ WF_statusesVars(RefreshEligible)
  /\ \A r \in Refs : WF_statusesVars(Ages(r))
  /\ \A j \in Jobs :
       SF_statusesVars(BeginFetch(j)) /\ WF_statusesVars(FetchEnds(j))

StatusesSpec == StatusesInit /\ [][StatusesNext]_statusesVars
FairStatusesSpec == StatusesSpec /\ StatusesFairness

-----------------------------------------------------------------------------
\* Properties

\* Who subscribes shows what is cached or nothing yet, unless the subscription
\* was renewed while a refresh for the old one was under way.
ShowsWhatIsCached ==
  \A c \in Callbacks : joined[c] # Null /\ joined[c][1] \notin renewed =>
    shows[c] \in {Null, Cached(joined[c][1])}

\* What c shows is the pending status of a rerun that a refresh under way,
\* asked for before the rerun, does not know of.
RerunUnknown(c) ==
  /\ shows[c].pending
  /\ \E j \in Fetching :
       jobs[j].ref = joined[c][1] /\ jobs[j].since < shows[c].version

\* A status never gives way to an older one, whatever order answers come in:
\* there is one refresh of a ref at a time.  Only a status set to pending by
\* hand may give way to the answer of a refresh begun before the rerun, since
\* manualRefreshSubscription does not look at the queue.
NeverOlder ==
  [][\A c \in Callbacks :
       joined[c] # Null /\ joined'[c] = joined[c] /\ shows[c] # Null =>
         shows'[c].version >= shows[c].version \/ RerunUnknown(c)
     ]_statusesVars

\* While the application has the focus and an account, who subscribes is told
\* a status in the end, whatever failed meanwhile.
IsToldInTheEnd ==
  <>[](background /\ account) =>
    \A c \in Callbacks :
      joined[c] # Null ~> joined[c] = Null \/ shows[c] # Null
=============================================================================
