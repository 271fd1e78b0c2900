---------------------------- MODULE AccountsStore ----------------------------
(***************************************************************************)
(* The signed-in accounts (src/app/src/lib/stores/accounts-store.ts): the  *)
(* list in memory, the list in local storage, which has no tokens, and the *)
(* tokens, which the keychain of the system keeps by endpoint and login.   *)
(*                                                                         *)
(* Signing in and out wait for the keychain and then write both lists; the *)
(* refresh after the start of the app waits for the network and then       *)
(* overwrites them.  The app may end between any two steps.  The order of  *)
(* the accounts and what else they hold are left out.                      *)
(***************************************************************************)
EXTENDS Naturals

CONSTANTS
  Endpoints,   \* servers accounts are for
  Ids,         \* Account.id: the users of a server
  Nobody,      \* no user
  Absent,      \* what the keychain answers for a token it does not have
  MaxTokens,   \* bound: sign-ins ever
  MaxStarts    \* bound: starts of the app

ASSUME AccountsAssumption ==
  /\ MaxTokens \in Nat /\ MaxStarts \in Nat \ {0}
  /\ Absent \notin 0..MaxTokens /\ Nobody \notin Endpoints \X Ids

Users == Endpoints \X Ids
Endpoint(u) == u[1]

\* The login a user has, until it is renamed, and from then on.
Logins == {"first", "renamed"}

NoToken == 0   \* the empty string
Tokens == 1..MaxTokens

Stored == [user : Users, login : Logins]
Accounts == [user : Users, login : Logins, token : Tokens \cup {NoToken}]

VARIABLES
  starts,      \* starts of the app so far
  loaded,      \* loadingPromise has resolved
  accounts,    \* this.accounts
  users,       \* local storage: the item 'users'
  legacy,      \* of these, the users at an endpoint that must be migrated
  keychain,    \* external: the keychain, by user (endpoint) and login
  calls,       \* calls of addAccount and removeAccount under way
  refresh,     \* whether refresh is still to come, running or over
  refreshing,  \* the accounts it has asked the servers for
  loginOf,     \* external: the login a user has at its server
  nextToken,   \* external: tokens the servers have given out
  owner,       \* history: who signed in last at an endpoint, if not out again
  raced,       \* history: endpoints whose account changed during a refresh
  spoilt,      \* history: users being signed out, or whose token was not read
  overlapped   \* history: users with two calls under way at a time

disk == <<users, legacy, keychain>>
page == <<loaded, accounts, calls, refresh, refreshing>>
history == <<owner, raced, spoilt, overlapped>>
vars == <<starts, disk, page, loginOf, nextToken, history>>

Steps == {"adding", "added", "removing", "removed"}
Calls == {c \in [step : Steps, account : Accounts] :
            c.step \in {"adding", "added"} => c.account.token # NoToken}

TypeOK ==
  /\ starts \in 0..MaxStarts /\ loaded \in BOOLEAN
  /\ accounts \subseteq Accounts
  /\ users \subseteq Stored
  /\ legacy \subseteq Users
  /\ keychain \in [Stored -> Tokens \cup {Absent}]
  /\ calls \subseteq Calls
  /\ refresh \in {"before", "running", "over"}
  /\ refreshing \subseteq Accounts
  /\ loginOf \in [Users -> Logins]
  /\ nextToken \in 1..(MaxTokens + 1)
  /\ owner \in [Endpoints -> Users \cup {Nobody}]
  /\ raced \subseteq Endpoints
  /\ spoilt \subseteq Users
  /\ overlapped \subseteq Users

-----------------------------------------------------------------------------

\* getKeyForAccount, with the login.
Key(a) == [user |-> a.user, login |-> a.login]

WithToken(k, t) == [user |-> k.user, login |-> k.login, token |-> t]

Pending(u) == {c \in calls : c.account.user = u}

\* save: both lists are written at once.
Save(all) ==
  /\ accounts' = all
  /\ users' = {Key(a) : a \in all}

\* An account of an endpoint that is still in its old form is on disk from the
\* start or never; its token is under a key nothing asks for any more.
Init ==
  /\ starts = 0 /\ loaded = FALSE
  /\ accounts = {}
  /\ \E u \in Users \cup {Nobody} :
       IF u = Nobody
         THEN /\ users = {} /\ legacy = {}
              /\ owner = [e \in Endpoints |-> Nobody]
         ELSE /\ users = {[user |-> u, login |-> "first"]} /\ legacy = {u}
              /\ owner = [e \in Endpoints |-> IF e = Endpoint(u) THEN u
                                                                ELSE Nobody]
  /\ keychain = [k \in Stored |-> Absent]
  /\ calls = {}
  /\ refresh = "before" /\ refreshing = {}
  /\ loginOf = [u \in Users |-> "first"]
  /\ nextToken = 1
  /\ raced = {} /\ spoilt = legacy /\ overlapped = {}

\* token || ''
TokenRead(answer) == IF answer = Absent THEN NoToken ELSE answer

\* loadFromStore.  It awaits one token after the other, but whoever writes the
\* keychain or the list waits for it to end, so this is one action.  An account
\* whose token cannot be read is skipped; migrating saves what is left.
Load(failed) ==
  LET read == {WithToken(k, TokenRead(keychain[k])) :
                 k \in {s \in users : s.user \notin failed}} IN
  /\ ~loaded /\ starts < MaxStarts
  /\ failed \subseteq {s.user : s \in users}
  /\ starts' = starts + 1
  /\ loaded' = TRUE
  /\ accounts' = read
  /\ legacy' = {}
  /\ users' = IF legacy # {} THEN {Key(a) : a \in read} ELSE users
  /\ spoilt' = spoilt \cup failed
  /\ UNCHANGED <<keychain, calls, refresh, refreshing, loginOf, nextToken,
                 owner, raced, overlapped>>

\* A user has signed in and addAccount is called.
AddCall(u) ==
  LET a == [user |-> u, login |-> loginOf[u], token |-> nextToken] IN
  /\ nextToken \in Tokens
  /\ nextToken' = nextToken + 1
  /\ calls' = calls \cup {[step |-> "adding", account |-> a]}
  /\ overlapped' = IF Pending(u) # {} THEN overlapped \cup {u} ELSE overlapped
  /\ UNCHANGED <<starts, loaded, accounts, disk, refresh, refreshing, loginOf,
                 owner, raced, spoilt>>

\* The keychain has stored the token; or it has not, and addAccount is over.
StoreToken(c) ==
  /\ loaded /\ c \in calls /\ c.step = "adding"
  /\ \/ /\ keychain' = [keychain EXCEPT ![Key(c.account)] = c.account.token]
        /\ calls' = (calls \ {c}) \cup {[c EXCEPT !.step = "added"]}
     \/ /\ calls' = calls \ {c}
        /\ UNCHANGED keychain
  /\ UNCHANGED <<starts, loaded, accounts, users, legacy, refresh, refreshing,
                 loginOf, nextToken, history>>

\* accountsByEndpoint: an endpoint has one account.
Added(a) == {b \in accounts : Endpoint(b.user) # Endpoint(a.user)} \cup {a}

\* The history of a change at an endpoint: it may be lost to a refresh.
Changed(e) == raced' = IF refresh = "running" THEN raced \cup {e} ELSE raced

AddEnds(c) ==
  LET a == c.account IN
  /\ c \in calls /\ c.step = "added"
  /\ calls' = calls \ {c}
  /\ Save(Added(a))
  /\ owner' = [owner EXCEPT ![Endpoint(a.user)] = a.user]
  /\ Changed(Endpoint(a.user))
  /\ spoilt' = spoilt \ {a.user}
  /\ UNCHANGED <<starts, loaded, legacy, keychain, refresh, refreshing, loginOf,
                 nextToken, overlapped>>

\* A user signs out, or its token turns out to be invalid.
RemoveCall(a) ==
  /\ a \in accounts
  /\ calls' = calls \cup {[step |-> "removing", account |-> a]}
  /\ spoilt' = spoilt \cup {a.user}
  /\ overlapped' = IF Pending(a.user) # {} THEN overlapped \cup {a.user}
                                           ELSE overlapped
  /\ UNCHANGED <<starts, loaded, accounts, disk, refresh, refreshing, loginOf,
                 nextToken, owner, raced>>

\* Mutant: the keychain forgets all it has for the endpoint.
DeletedForEndpoint(a) ==
  [k \in Stored |-> IF Endpoint(k.user) = Endpoint(a.user) THEN Absent
                                                           ELSE keychain[k]]

Deleted(a) == [keychain EXCEPT ![Key(a)] = Absent]

\* The keychain has deleted the token; or it has not, and removeAccount is over.
DeleteToken(c) ==
  /\ c \in calls /\ c.step = "removing"
  /\ \/ /\ keychain' = Deleted(c.account)
        /\ calls' = (calls \ {c}) \cup {[c EXCEPT !.step = "removed"]}
     \/ /\ calls' = calls \ {c}
        /\ UNCHANGED keychain
  /\ UNCHANGED <<starts, loaded, accounts, users, legacy, refresh, refreshing,
                 loginOf, nextToken, history>>

\* Mutant: the account is compared whole, and an updated one is not found.
RemainingWithout(a) == accounts \ {a}

\* Compared by endpoint and id.
Remaining(a) == {b \in accounts : b.user # a.user}

RemoveEnds(c) ==
  LET a == c.account IN
  /\ c \in calls /\ c.step = "removed"
  /\ calls' = calls \ {c}
  /\ Save(Remaining(a))
  /\ owner' = [owner EXCEPT ![Endpoint(a.user)] = IF @ = a.user THEN Nobody
                                                               ELSE @]
  /\ Changed(Endpoint(a.user))
  /\ UNCHANGED <<starts, loaded, legacy, keychain, refresh, refreshing, loginOf,
                 nextToken, spoilt, overlapped>>

\* loadInitialState calls refresh once, when it has read all it needs.
RefreshCall ==
  /\ loaded /\ refresh = "before"
  /\ refresh' = "running"
  /\ refreshing' = accounts
  /\ UNCHANGED <<starts, loaded, accounts, disk, calls, loginOf, nextToken,
                 history>>

\* Mutant: an account that could not be updated is left out.
RefreshedDropped(updated) ==
  {[a EXCEPT !.login = loginOf[a.user]] : a \in updated}

\* tryUpdateAccount: the account as its server knows it, or as it was.
Refreshed(updated) ==
  {IF a \in updated THEN [a EXCEPT !.login = loginOf[a.user]] ELSE a :
     a \in refreshing}

\* All servers have answered, or failed to: the list of before is written over
\* whatever the list is by now.  A server is not asked without a token.
RefreshEnds(updated) ==
  /\ refresh = "running"
  /\ updated \subseteq {a \in refreshing : a.token # NoToken}
  /\ refresh' = "over"
  /\ refreshing' = {}
  /\ Save(Refreshed(updated))
  /\ UNCHANGED <<starts, loaded, legacy, keychain, calls, loginOf, nextToken,
                 history>>

\* A user takes another login at its server.
Rename(u) ==
  /\ loginOf[u] = "first"
  /\ loginOf' = [loginOf EXCEPT ![u] = "renamed"]
  /\ UNCHANGED <<starts, disk, page, nextToken, history>>

\* The app ends: what the page knew is lost.  One that ends while it still
\* loads leaves everything as it was.
Quit ==
  /\ loaded
  /\ loaded' = FALSE
  /\ accounts' = {}
  /\ calls' = {}
  /\ refresh' = "before" /\ refreshing' = {}
  /\ UNCHANGED <<starts, disk, loginOf, nextToken, history>>

Next ==
  \/ \E failed \in SUBSET Users : Load(failed)
  \/ \E u \in Users : AddCall(u) \/ Rename(u)
  \/ \E a \in accounts : RemoveCall(a)
  \/ \E c \in calls :
       StoreToken(c) \/ AddEnds(c) \/ DeleteToken(c) \/ RemoveEnds(c)
  \/ RefreshCall
  \/ \E updated \in SUBSET refreshing : RefreshEnds(updated)
  \/ Quit

Spec == Init /\ [][Next]_vars

-----------------------------------------------------------------------------
\* Properties

\* An endpoint has one account, in memory and on disk, whatever overlaps: the
\* rest of the app looks accounts up by their endpoint alone.
OneForEndpoint ==
  /\ \A a, b \in accounts : Endpoint(a.user) = Endpoint(b.user) => a = b
  /\ \A k, l \in users : Endpoint(k.user) = Endpoint(l.user) => k = l

\* The endpoints where what the user did last is not in doubt: no account
\* changed there while a refresh was running.
Settled == Endpoints \ raced

\* Who signed in stays signed in, across any end of the app: it is listed, and
\* with a token, unless it is being signed out, its token could not be read,
\* or it has another login by now.
StaysSignedIn ==
  \A e \in Settled :
    LET u == owner[e] IN
    loaded /\ u # Nobody /\ u \notin spoilt \cup overlapped =>
      \E a \in accounts :
        a.user = u /\ (loginOf[u] = "first" => a.token # NoToken)

\* Who signed out stays signed out, and so does the account another one of its
\* endpoint has replaced: neither list has it, nor will it be read again.
StaysSignedOut ==
  \A e \in Settled :
    \A k \in users \cup {Key(a) : a \in accounts} :
      Endpoint(k.user) = e => k.user = owner[e]

\* The token an account is used with is the one the next start will read,
\* where calls for the user did not overlap and none is under way.
TokenIsKept ==
  \A a \in accounts :
    /\ Endpoint(a.user) \in Settled
    /\ Pending(a.user) = {} /\ a.user \notin overlapped
    /\ loginOf[a.user] = "first"
    => TokenRead(keychain[Key(a)]) = a.token
=============================================================================
