--------------------------- MODULE Accounts_proof ---------------------------
(***************************************************************************)
(* What holds of the accounts for any servers, users, sign-ins and starts, *)
(* and, of ApiRepositories, of signing in and of the repositories of the   *)
(* accounts for any callers, sessions, requests and loads.                 *)
(***************************************************************************)
EXTENDS AccountsStore, ApiRepositories, TLAPS

-----------------------------------------------------------------------------
\* What the helpers return.

\* An account and its entry on disk name the same user.
LEMMA KeyType ==
  ASSUME NEW a \in Accounts
  PROVE  Key(a) \in Stored /\ Key(a).user = a.user
BY DEF Key, Accounts, Stored

\* What loadFromStore makes of an entry is an account of the same user.
LEMMA ReadType ==
  ASSUME NEW k \in Stored, NEW answer \in Tokens \cup {Absent}
  PROVE  /\ WithToken(k, TokenRead(answer)) \in Accounts
         /\ WithToken(k, TokenRead(answer)).user = k.user
<1>1. TokenRead(answer) \in Tokens \cup {NoToken}
  BY DEF TokenRead
<1> QED
  BY <1>1 DEF WithToken, Stored, Accounts

\* Refreshing keeps the user of an account.
LEMMA UpdatedType ==
  ASSUME NEW a \in Accounts, loginOf \in [Users -> Logins]
  PROVE  /\ [a EXCEPT !.login = loginOf[a.user]] \in Accounts
         /\ [a EXCEPT !.login = loginOf[a.user]].user = a.user
<1>1. loginOf[a.user] \in Logins
  BY DEF Accounts
<1> QED
  BY <1>1 DEF Accounts

LEMMA RefreshedType ==
  ASSUME TypeOK, NEW updated, NEW b \in Refreshed(updated)
  PROVE  /\ b \in Accounts
         /\ \E a \in refreshing : a.user = b.user /\
              b = IF a \in updated THEN [a EXCEPT !.login = loginOf[a.user]]
                                   ELSE a
<1>1. PICK a \in refreshing :
        b = IF a \in updated THEN [a EXCEPT !.login = loginOf[a.user]] ELSE a
  BY DEF Refreshed
<1>2. a \in Accounts
  BY DEF TypeOK
<1>3. b \in Accounts /\ b.user = a.user
  BY <1>1, <1>2, UpdatedType DEF TypeOK
<1> QED
  BY <1>1, <1>3

LEMMA SaveType ==
  ASSUME NEW S, S \subseteq Accounts, Save(S)
  PROVE  accounts' \subseteq Accounts /\ users' \subseteq Stored
BY KeyType DEF Save

-----------------------------------------------------------------------------
\* The type invariant.

LEMMA InitTypeOK == Init => TypeOK
<1> SUFFICES ASSUME Init PROVE TypeOK
  OBVIOUS
<1>1. PICK u \in Users \cup {Nobody} :
        IF u = Nobody
          THEN /\ users = {} /\ legacy = {}
               /\ owner = [e \in Endpoints |-> Nobody]
          ELSE /\ users = {[user |-> u, login |-> "first"]} /\ legacy = {u}
               /\ owner = [e \in Endpoints |-> IF e = Endpoint(u) THEN u
                                                                 ELSE Nobody]
  BY DEF Init
<1>2. /\ users \subseteq Stored /\ legacy \subseteq Users
      /\ owner \in [Endpoints -> Users \cup {Nobody}]
  BY <1>1 DEF Stored, Logins
<1>3. starts \in 0..MaxStarts /\ nextToken \in 1..(MaxTokens + 1)
  BY AccountsAssumption DEF Init
<1> QED
  BY <1>2, <1>3 DEF Init, TypeOK, Logins

LEMMA LoadTypeOK ==
  ASSUME TypeOK, NEW failed, Load(failed)
  PROVE  TypeOK'
<1>1. starts' \in 0..MaxStarts
  BY AccountsAssumption DEF Load, TypeOK
<1>2. accounts' \subseteq Accounts
  BY ReadType DEF Load, TypeOK
<1>3. users' \subseteq Stored
  <2>1. {Key(a) : a \in accounts'} \subseteq Stored
    BY <1>2, KeyType
  <2> QED
    BY <2>1 DEF Load, TypeOK
<1>4. spoilt' \subseteq Users
  BY DEF Load, TypeOK, Stored
<1> QED
  BY <1>1, <1>2, <1>3, <1>4 DEF Load, TypeOK

LEMMA AddCallTypeOK ==
  ASSUME TypeOK, NEW u \in Users, AddCall(u)
  PROVE  TypeOK'
<1>1. nextToken' \in 1..(MaxTokens + 1)
  BY AccountsAssumption DEF AddCall, TypeOK, Tokens
<1>2. calls' \subseteq Calls
  BY DEF AddCall, TypeOK, Calls, Steps, Accounts, Tokens, NoToken
<1> QED
  BY <1>1, <1>2 DEF AddCall, TypeOK, disk

LEMMA StoreTokenTypeOK ==
  ASSUME TypeOK, NEW c \in calls, StoreToken(c)
  PROVE  TypeOK'
<1>1. c \in Calls /\ c.account \in Accounts
  BY DEF TypeOK, Calls
<1>2. calls' \subseteq Calls
  BY <1>1 DEF StoreToken, TypeOK, Calls, Steps
<1>3. keychain' \in [Stored -> Tokens \cup {Absent}]
  <2>1. c.account.token \in Tokens
    BY <1>1 DEF Accounts, Calls, StoreToken
  <2> QED
    BY <1>1, KeyType, <2>1 DEF StoreToken, TypeOK
<1> QED
  BY <1>2, <1>3 DEF StoreToken, TypeOK, history

LEMMA AddEndsTypeOK ==
  ASSUME TypeOK, NEW c \in calls, AddEnds(c)
  PROVE  TypeOK'
<1>1. c.account \in Accounts /\ c.account.user \in Users
  BY DEF TypeOK, Calls, Accounts
<1>2. accounts' \subseteq Accounts /\ users' \subseteq Stored
  <2>1. Added(c.account) \subseteq Accounts
    BY <1>1 DEF Added, TypeOK
  <2> QED
    BY <2>1, SaveType DEF AddEnds
<1>3. Endpoint(c.account.user) \in Endpoints
  BY <1>1 DEF Users, Endpoint
<1> QED
  BY <1>1, <1>2, <1>3 DEF AddEnds, Changed, TypeOK

LEMMA RemoveCallTypeOK ==
  ASSUME TypeOK, NEW a \in accounts, RemoveCall(a)
  PROVE  TypeOK'
<1>1. a \in Accounts /\ a.user \in Users
  BY DEF TypeOK, Accounts
<1>2. calls' \subseteq Calls
  BY <1>1 DEF RemoveCall, TypeOK, Calls, Steps
<1> QED
  BY <1>1, <1>2 DEF RemoveCall, TypeOK, disk

LEMMA DeleteTokenTypeOK ==
  ASSUME TypeOK, NEW c \in calls, DeleteToken(c)
  PROVE  TypeOK'
<1>1. c \in Calls /\ c.account \in Accounts
  BY DEF TypeOK, Calls
<1>2. calls' \subseteq Calls
  BY <1>1 DEF DeleteToken, TypeOK, Calls, Steps
<1>3. keychain' \in [Stored -> Tokens \cup {Absent}]
  BY <1>1, KeyType DEF DeleteToken, Deleted, TypeOK
<1> QED
  BY <1>2, <1>3 DEF DeleteToken, TypeOK, history

LEMMA RemoveEndsTypeOK ==
  ASSUME TypeOK, NEW c \in calls, RemoveEnds(c)
  PROVE  TypeOK'
<1>1. c.account \in Accounts /\ c.account.user \in Users
  BY DEF TypeOK, Calls, Accounts
<1>2. accounts' \subseteq Accounts /\ users' \subseteq Stored
  <2>1. Remaining(c.account) \subseteq Accounts
    BY <1>1 DEF Remaining, TypeOK
  <2> QED
    BY <2>1, SaveType DEF RemoveEnds
<1>3. Endpoint(c.account.user) \in Endpoints
  BY <1>1 DEF Users, Endpoint
<1> QED
  BY <1>1, <1>2, <1>3 DEF RemoveEnds, Changed, TypeOK

LEMMA RefreshCallTypeOK ==
  ASSUME TypeOK, RefreshCall
  PROVE  TypeOK'
BY DEF RefreshCall, TypeOK, disk, history

LEMMA RefreshEndsTypeOK ==
  ASSUME TypeOK, NEW updated, RefreshEnds(updated)
  PROVE  TypeOK'
<1>1. Refreshed(updated) \subseteq Accounts
  BY RefreshedType
<1>2. accounts' \subseteq Accounts /\ users' \subseteq Stored
  BY <1>1, SaveType DEF RefreshEnds
<1> QED
  BY <1>2 DEF RefreshEnds, TypeOK, history

LEMMA RenameTypeOK ==
  ASSUME TypeOK, NEW u \in Users, Rename(u)
  PROVE  TypeOK'
BY DEF Rename, TypeOK, Logins, disk, page, history

LEMMA QuitTypeOK ==
  ASSUME TypeOK, Quit
  PROVE  TypeOK'
BY DEF Quit, TypeOK, disk, history

LEMMA NextTypeOK == TypeOK /\ [Next]_vars => TypeOK'
<1> SUFFICES ASSUME TypeOK, [Next]_vars PROVE TypeOK'
  OBVIOUS
<1>1. CASE UNCHANGED vars
  BY <1>1 DEF TypeOK, vars, disk, page, history
<1>2. CASE Next
  BY <1>2, LoadTypeOK, AddCallTypeOK, StoreTokenTypeOK, AddEndsTypeOK,
     RemoveCallTypeOK, DeleteTokenTypeOK, RemoveEndsTypeOK, RefreshCallTypeOK,
     RefreshEndsTypeOK, RenameTypeOK, QuitTypeOK
  DEF Next
<1> QED
  BY <1>1, <1>2

\* Every variable of the store stays in its type.
THEOREM TypeCorrect == Spec => []TypeOK
BY InitTypeOK, NextTypeOK, PTL DEF Spec
-----------------------------------------------------------------------------
\* An endpoint has one account.

One(S) == \A x, y \in S : Endpoint(x.user) = Endpoint(y.user) => x = y

\* What refresh will write must have one account for an endpoint as well.
OneInv == TypeOK /\ One(accounts) /\ One(users) /\ One(refreshing)

\* One account for an endpoint in memory makes one on disk.
LEMMA SaveOne ==
  ASSUME NEW S, S \subseteq Accounts, One(S), Save(S)
  PROVE  One(accounts)' /\ One(users)'
<1>1. \A k \in users' : \E a \in S : k = Key(a) /\ k.user = a.user
  BY KeyType DEF Save
<1>2. One(users)'
  BY <1>1 DEF One
<1> QED
  BY <1>2 DEF Save, One

\* Entries for different endpoints are read as accounts for different ones.
LEMMA LoadOne ==
  ASSUME OneInv, NEW failed, Load(failed)
  PROVE  OneInv'
<1>1. TypeOK'
  BY LoadTypeOK DEF OneInv
<1>2. \A a \in accounts' :
        \E k \in users : /\ a = WithToken(k, TokenRead(keychain[k]))
                        /\ a.user = k.user
  BY ReadType DEF Load, OneInv, TypeOK
<1>3. One(accounts)'
  BY <1>2 DEF One, OneInv
<1>4. One(users)'
  <2>1. CASE legacy = {}
    BY <2>1 DEF Load, OneInv, One
  <2>2. CASE legacy # {}
    <3>1. \A k \in users' : \E a \in accounts' : k = Key(a) /\ k.user = a.user
      BY <1>1, <2>2, KeyType DEF Load, TypeOK
    <3> QED
      BY <1>3, <3>1 DEF One
  <2> QED
    BY <2>1, <2>2
<1> QED
  BY <1>1, <1>3, <1>4 DEF OneInv, Load, One

LEMMA AddOne ==
  ASSUME OneInv, NEW c \in calls, AddEnds(c)
  PROVE  OneInv'
<1>1. TypeOK'
  BY AddEndsTypeOK DEF OneInv
<1>2. c.account \in Accounts
  BY DEF OneInv, TypeOK, Calls
<1>3. Added(c.account) \subseteq Accounts /\ One(Added(c.account))
  BY <1>2 DEF Added, One, OneInv, TypeOK
<1>4. One(accounts)' /\ One(users)'
  BY <1>3, SaveOne DEF AddEnds
<1> QED
  BY <1>1, <1>4 DEF OneInv, AddEnds, One

LEMMA RemoveOne ==
  ASSUME OneInv, NEW c \in calls, RemoveEnds(c)
  PROVE  OneInv'
<1>1. TypeOK'
  BY RemoveEndsTypeOK DEF OneInv
<1>2. Remaining(c.account) \subseteq Accounts /\ One(Remaining(c.account))
  BY DEF Remaining, One, OneInv, TypeOK
<1>3. One(accounts)' /\ One(users)'
  BY <1>2, SaveOne DEF RemoveEnds
<1> QED
  BY <1>1, <1>3 DEF OneInv, RemoveEnds, One

LEMMA RefreshOne ==
  ASSUME OneInv, NEW updated, RefreshEnds(updated)
  PROVE  OneInv'
<1>1. TypeOK'
  BY RefreshEndsTypeOK DEF OneInv
<1>2. Refreshed(updated) \subseteq Accounts
  BY RefreshedType DEF OneInv
<1>3. One(Refreshed(updated))
  BY RefreshedType DEF One, OneInv
<1>4. One(accounts)' /\ One(users)'
  BY <1>2, <1>3, SaveOne DEF RefreshEnds
<1> QED
  BY <1>1, <1>4 DEF OneInv, RefreshEnds, One

\* What is on disk at the start is one account at most.
LEMMA InitOne == Init => OneInv
<1> SUFFICES ASSUME Init PROVE OneInv
  OBVIOUS
<1>1. One(users)
  BY DEF Init, One
<1> QED
  BY <1>1, InitTypeOK DEF Init, OneInv, One

LEMMA NextOne == OneInv /\ [Next]_vars => OneInv'
<1> SUFFICES ASSUME OneInv, [Next]_vars PROVE OneInv'
  OBVIOUS
<1>1. TypeOK'
  BY NextTypeOK DEF OneInv
<1>2. CASE UNCHANGED <<accounts, users, refreshing>>
  BY <1>1, <1>2 DEF OneInv, One
<1>3. CASE UNCHANGED vars
  BY <1>2, <1>3 DEF vars, disk, page
<1>4. ASSUME NEW failed, Load(failed) PROVE OneInv'
  BY <1>4, LoadOne
<1>5. ASSUME NEW u \in Users, AddCall(u) \/ Rename(u) PROVE OneInv'
  BY <1>2, <1>5 DEF AddCall, Rename, disk, page
<1>6. ASSUME NEW a \in accounts, RemoveCall(a) PROVE OneInv'
  BY <1>2, <1>6 DEF RemoveCall, disk
<1>7. ASSUME NEW c \in calls, StoreToken(c) \/ DeleteToken(c) PROVE OneInv'
  BY <1>2, <1>7 DEF StoreToken, DeleteToken
<1>8. ASSUME NEW c \in calls, AddEnds(c) \/ RemoveEnds(c) PROVE OneInv'
  BY <1>8, AddOne, RemoveOne
<1>9. CASE RefreshCall
  BY <1>1, <1>9 DEF RefreshCall, disk, OneInv, One
<1>10. ASSUME NEW updated, RefreshEnds(updated) PROVE OneInv'
  BY <1>10, RefreshOne
<1>11. CASE Quit
  BY <1>1, <1>11 DEF Quit, disk, OneInv, One
<1> QED
  BY <1>3, <1>4, <1>5, <1>6, <1>7, <1>8, <1>9, <1>10, <1>11 DEF Next

\* However calls, refreshes and restarts interleave, no server ever has two
\* accounts, in memory or on disk.
THEOREM OneAccountForEndpoint == Spec => []OneForEndpoint
<1>1. OneInv => OneForEndpoint
  BY DEF OneInv, One, OneForEndpoint
<1> QED
  BY <1>1, InitOne, NextOne, PTL DEF Spec

-----------------------------------------------------------------------------
\* Who signed out stays signed out.

\* The entries and accounts of S are those of the users who signed in last,
\* at all endpoints whose account no refresh has raced with.
Followed(S) == \A x \in S : Endpoint(x.user) \in Settled =>
                             x.user = owner[Endpoint(x.user)]

\* The list a running refresh will write must do so too: an endpoint that
\* changes during it is no longer settled.
FollowedInv ==
  /\ TypeOK
  /\ Followed(accounts)
  /\ Followed(users)
  /\ refresh = "running" => Followed(refreshing)

LEMMA SaveFollowed ==
  ASSUME NEW S, S \subseteq Accounts, Followed(S)', Save(S)
  PROVE  Followed(accounts)' /\ Followed(users)'
<1>1. \A k \in users' : \E a \in S : k.user = a.user
  BY KeyType DEF Save
<1>2. Followed(users)'
  BY <1>1 DEF Followed
<1> QED
  BY <1>2 DEF Save, Followed
LEMMA LoadFollowed ==
  ASSUME FollowedInv, NEW failed, Load(failed)
  PROVE  FollowedInv'
<1>1. TypeOK'
  BY LoadTypeOK DEF FollowedInv
<1>2. \A a \in accounts' : \E k \in users : a.user = k.user
  BY ReadType DEF Load, FollowedInv, TypeOK
<1>3. UNCHANGED <<owner, raced, refresh, refreshing>>
  BY DEF Load
<1>4. Followed(accounts)'
  BY <1>2, <1>3 DEF Followed, FollowedInv, Settled
<1>5. \A k \in users' : k \in users \/ \E a \in accounts' : k.user = a.user
  BY <1>1, KeyType DEF Load, TypeOK
<1>6. Followed(users)'
  BY <1>3, <1>4, <1>5 DEF Followed, FollowedInv, Settled
<1> QED
  BY <1>1, <1>3, <1>4, <1>6 DEF FollowedInv, Followed, Settled

\* A change of one endpoint takes it out of what a running refresh settles.
LEMMA ChangedFollowed ==
  ASSUME FollowedInv, NEW e, Changed(e), UNCHANGED <<refresh, refreshing>>,
         \A d \in Endpoints \ {e} : owner'[d] = owner[d]
  PROVE  refresh' = "running" => Followed(refreshing)'
<1> SUFFICES ASSUME refresh = "running" PROVE Followed(refreshing)'
  OBVIOUS
<1>1. raced' = raced \cup {e}
  BY DEF Changed
<1> QED
  BY <1>1 DEF FollowedInv, Followed, Settled

LEMMA AddFollowed ==
  ASSUME FollowedInv, NEW c \in calls, AddEnds(c)
  PROVE  FollowedInv'
<1> DEFINE a == c.account
<1>1. TypeOK'
  BY AddEndsTypeOK DEF FollowedInv
<1>2. a \in Accounts /\ Endpoint(a.user) \in Endpoints
  BY DEF FollowedInv, TypeOK, Calls, Accounts, Users, Endpoint
<1>3. /\ owner'[Endpoint(a.user)] = a.user
      /\ \A d \in Endpoints \ {Endpoint(a.user)} : owner'[d] = owner[d]
  BY <1>2 DEF AddEnds, FollowedInv, TypeOK
<1>4. Settled' \subseteq Settled
  BY DEF AddEnds, Changed, Settled
<1>5. Added(a) \subseteq Accounts
  BY <1>2 DEF Added, FollowedInv, TypeOK
<1>6. \A x \in Added(a) : Endpoint(x.user) \in Settled' =>
                          x.user = owner'[Endpoint(x.user)]
  BY <1>3, <1>4 DEF Added, FollowedInv, Followed, Settled
<1>7. Followed(accounts)' /\ Followed(users)'
  BY <1>5, <1>6, SaveFollowed DEF AddEnds, Followed
<1>8. refresh' = "running" => Followed(refreshing)'
  BY <1>3, ChangedFollowed DEF AddEnds
<1> QED
  BY <1>1, <1>7, <1>8 DEF FollowedInv

LEMMA RemoveFollowed ==
  ASSUME FollowedInv, NEW c \in calls, RemoveEnds(c)
  PROVE  FollowedInv'
<1> DEFINE a == c.account
<1>1. TypeOK'
  BY RemoveEndsTypeOK DEF FollowedInv
<1>2. Endpoint(a.user) \in Endpoints
  BY DEF FollowedInv, TypeOK, Calls, Accounts, Users, Endpoint
<1>3. /\ \A d \in Endpoints \ {Endpoint(a.user)} : owner'[d] = owner[d]
      /\ owner[Endpoint(a.user)] # a.user =>
           owner'[Endpoint(a.user)] = owner[Endpoint(a.user)]
  BY <1>2 DEF RemoveEnds, FollowedInv, TypeOK
<1>4. Settled' \subseteq Settled
  BY DEF RemoveEnds, Changed, Settled
<1>5. Remaining(a) \subseteq Accounts
  BY DEF Remaining, FollowedInv, TypeOK
<1>6. \A x \in Remaining(a) : Endpoint(x.user) \in Settled' =>
                              x.user = owner'[Endpoint(x.user)]
  BY <1>3, <1>4 DEF Remaining, FollowedInv, Followed, Settled
<1>7. Followed(accounts)' /\ Followed(users)'
  BY <1>5, <1>6, SaveFollowed DEF RemoveEnds, Followed
<1>8. refresh' = "running" => Followed(refreshing)'
  BY <1>3, ChangedFollowed DEF RemoveEnds
<1> QED
  BY <1>1, <1>7, <1>8 DEF FollowedInv

LEMMA RefreshFollowed ==
  ASSUME FollowedInv, NEW updated, RefreshEnds(updated)
  PROVE  FollowedInv'
<1>1. TypeOK'
  BY RefreshEndsTypeOK DEF FollowedInv
<1>2. UNCHANGED <<owner, raced>> /\ refresh = "running" /\ refresh' = "over"
  BY DEF RefreshEnds, history
<1>3. \A x \in Refreshed(updated) :
        x \in Accounts /\ \E a \in refreshing : a.user = x.user
  BY RefreshedType DEF FollowedInv
<1>4. Followed(Refreshed(updated))
  BY <1>2, <1>3 DEF FollowedInv, Followed
<1>5. Followed(accounts)' /\ Followed(users)'
  <2>1. \A x \in Refreshed(updated) : Endpoint(x.user) \in Settled' =>
                                     x.user = owner'[Endpoint(x.user)]
    BY <1>2, <1>4 DEF Followed, Settled
  <2> QED
    BY <1>3, <2>1, SaveFollowed DEF RefreshEnds, Followed
<1> QED
  BY <1>1, <1>2, <1>5 DEF FollowedInv

LEMMA InitFollowed == Init => FollowedInv
<1> SUFFICES ASSUME Init PROVE FollowedInv
  OBVIOUS
<1>1. Followed(users)
  BY DEF Init, Followed, Settled, Users, Endpoint
<1> QED
  BY <1>1, InitTypeOK DEF Init, FollowedInv, Followed

LEMMA NextFollowed == FollowedInv /\ [Next]_vars => FollowedInv'
<1> SUFFICES ASSUME FollowedInv, [Next]_vars PROVE FollowedInv'
  OBVIOUS
<1>1. TypeOK'
  BY NextTypeOK DEF FollowedInv
<1>2. CASE UNCHANGED <<accounts, users, refresh, refreshing, owner, raced>>
  BY <1>1, <1>2 DEF FollowedInv, Followed, Settled
<1>3. CASE UNCHANGED vars
  BY <1>2, <1>3 DEF vars, disk, page, history
<1>4. ASSUME NEW failed, Load(failed) PROVE FollowedInv'
  BY <1>4, LoadFollowed
<1>5. ASSUME NEW u \in Users, AddCall(u) \/ Rename(u) PROVE FollowedInv'
  BY <1>2, <1>5 DEF AddCall, Rename, disk, page, history
<1>6. ASSUME NEW a \in accounts, RemoveCall(a) PROVE FollowedInv'
  BY <1>2, <1>6 DEF RemoveCall, disk
<1>7. ASSUME NEW c \in calls, StoreToken(c) \/ DeleteToken(c)
      PROVE  FollowedInv'
  BY <1>2, <1>7 DEF StoreToken, DeleteToken, history
<1>8. ASSUME NEW c \in calls, AddEnds(c) \/ RemoveEnds(c) PROVE FollowedInv'
  BY <1>8, AddFollowed, RemoveFollowed
<1>9. CASE RefreshCall
  BY <1>1, <1>9 DEF RefreshCall, disk, history, FollowedInv, Followed, Settled
<1>10. ASSUME NEW updated, RefreshEnds(updated) PROVE FollowedInv'
  BY <1>10, RefreshFollowed
<1>11. CASE Quit
  BY <1>1, <1>11 DEF Quit, disk, history, FollowedInv, Followed, Settled
<1> QED
  BY <1>3, <1>4, <1>5, <1>6, <1>7, <1>8, <1>9, <1>10, <1>11 DEF Next

\* An account that was signed out, or replaced by another one of its server,
\* never comes back, through any number of restarts, unless a refresh was
\* running when it went.
THEOREM SignedOutForGood == Spec => []StaysSignedOut
<1>1. FollowedInv => StaysSignedOut
  <2> SUFFICES ASSUME FollowedInv, NEW e \in Settled,
                      NEW k \in users \cup {Key(a) : a \in accounts},
                      Endpoint(k.user) = e
               PROVE  k.user = owner[e]
    BY DEF StaysSignedOut
  <2>1. k \in users \/ \E a \in accounts : k.user = a.user
    BY KeyType DEF FollowedInv, TypeOK
  <2> QED
    BY <2>1 DEF FollowedInv, Followed
<1> QED
  BY <1>1, InitFollowed, NextFollowed, PTL DEF Spec
-----------------------------------------------------------------------------
\* The calls, and the logins of the accounts.

\* What the keychain has for a user of the login it began with.
Entry(u) == [user |-> u, login |-> "first"]

LEMMA EntryType ==
  /\ \A u \in Users : Entry(u) \in Stored
  /\ \A a \in Accounts : a.login = "first" => Key(a) = Entry(a.user)
  /\ \A a \in Accounts, u \in Users : a.user # u => Key(a) # Entry(u)
  /\ \A k \in Stored : k.login = "first" => k = Entry(k.user)
BY DEF Entry, Key, Stored, Accounts, Logins

LEMMA TokenType ==
  /\ Absent \notin Tokens /\ Absent # NoToken /\ NoToken \notin Tokens
  /\ \A t \in Tokens : TokenRead(t) = t
BY AccountsAssumption DEF Tokens, NoToken, TokenRead

\* Nothing has the new login of a user before its server does.
LoginInv ==
  /\ \A a \in accounts \cup refreshing :
       loginOf[a.user] = "first" => a.login = "first"
  /\ \A k \in users : loginOf[k.user] = "first" => k.login = "first"
  /\ \A c \in calls :
       loginOf[c.account.user] = "first" => c.account.login = "first"

\* Calls of a user whose calls do not overlap are one at most; before the lists
\* are loaded there is nobody to sign out and no call gets to the keychain; who
\* is being signed out is known to be.
CallsInv ==
  /\ \A c, d \in calls :
       c.account.user = d.account.user /\ c.account.user \notin overlapped
         => c = d
  /\ ~loaded => /\ refresh = "before" /\ accounts = {}
                /\ \A c \in calls : c.step = "adding"
  /\ \A c \in calls : c.step \in {"removing", "removed"} =>
                      c.account.user \in spoilt \cup overlapped

LEMMA NextLogin == TypeOK /\ LoginInv /\ [Next]_vars => LoginInv'
<1> SUFFICES ASSUME TypeOK, LoginInv, [Next]_vars PROVE LoginInv'
  OBVIOUS
<1>0. TypeOK'
  BY NextTypeOK
<1>1. CASE UNCHANGED vars
  BY <1>1 DEF LoginInv, vars, disk, page
<1>2. ASSUME NEW failed, Load(failed) PROVE LoginInv'
  <2>1. \A a \in accounts' : \E k \in users : a.user = k.user /\ a.login = k.login
    BY <1>2 DEF Load, WithToken
  <2>2. \A k \in users' :
          k \in users \/ \E a \in accounts' : k.user = a.user /\ k.login = a.login
    BY <1>2 DEF Load, Key
  <2> QED
    BY <1>2, <2>1, <2>2 DEF Load, LoginInv
<1>3. ASSUME NEW u \in Users, AddCall(u) PROVE LoginInv'
  <2>1. \A c \in calls' : c \in calls \/ (/\ c.account.user = u
                                         /\ c.account.login = loginOf[u])
    BY <1>3 DEF AddCall
  <2> QED
    BY <1>3, <2>1 DEF AddCall, LoginInv, disk
<1>4. ASSUME NEW u \in Users, Rename(u) PROVE LoginInv'
  <2>1. \A v : loginOf'[v] = "first" /\ v \in Users => loginOf[v] = "first"
    BY <1>4 DEF Rename, TypeOK
  <2>2. /\ \A a \in accounts \cup refreshing \cup users : a.user \in Users
        /\ \A c \in calls : c.account.user \in Users
    BY DEF TypeOK, Accounts, Stored, Calls
  <2> QED
    BY <1>4, <2>1, <2>2 DEF Rename, LoginInv, disk, page
<1>5. ASSUME NEW a \in accounts, RemoveCall(a) PROVE LoginInv'
  <2>1. \A c \in calls' : c \in calls \/ c.account = a
    BY <1>5 DEF RemoveCall
  <2> QED
    BY <1>5, <2>1 DEF RemoveCall, LoginInv, disk
<1>6. ASSUME NEW c \in calls, StoreToken(c) \/ DeleteToken(c)
      PROVE  LoginInv'
  <2>1. \A d \in calls' : d \in calls \/ d.account = c.account
    BY <1>6 DEF StoreToken, DeleteToken, TypeOK, Calls
  <2> QED
    BY <1>6, <2>1 DEF StoreToken, DeleteToken, LoginInv
<1>7. ASSUME NEW c \in calls, AddEnds(c) \/ RemoveEnds(c) PROVE LoginInv'
  <2>1. accounts' \subseteq accounts \cup {c.account} /\ calls' \subseteq calls
    BY <1>7 DEF AddEnds, RemoveEnds, Save, Added, Remaining
  <2>2. \A k \in users' : \E a \in accounts' : k.user = a.user /\ k.login = a.login
    BY <1>7 DEF AddEnds, RemoveEnds, Save, Key
  <2> QED
    BY <1>7, <2>1, <2>2 DEF AddEnds, RemoveEnds, LoginInv
<1>8. CASE RefreshCall \/ Quit
  BY <1>8 DEF RefreshCall, Quit, LoginInv, disk
<1>9. ASSUME NEW updated, RefreshEnds(updated) PROVE LoginInv'
  <2>1. \A b \in accounts' :
          \E a \in refreshing : /\ a.user = b.user
                               /\ b.login \in {a.login, loginOf[a.user]}
    <3> SUFFICES ASSUME NEW b \in Refreshed(updated)
                 PROVE  \E a \in refreshing :
                          /\ a.user = b.user
                          /\ b.login \in {a.login, loginOf[a.user]}
      BY <1>9 DEF RefreshEnds, Save
    <3>1. PICK a \in refreshing :
            /\ a.user = b.user
            /\ b = IF a \in updated THEN [a EXCEPT !.login = loginOf[a.user]]
                                    ELSE a
      BY RefreshedType
    <3>2. a \in Accounts
      BY DEF TypeOK
    <3> QED
      BY <3>1, <3>2 DEF Accounts
  <2>2. \A k \in users' : \E a \in accounts' : k.user = a.user /\ k.login = a.login
    BY <1>9 DEF RefreshEnds, Save, Key
  <2> QED
    BY <1>9, <2>1, <2>2 DEF RefreshEnds, LoginInv
<1> QED
  BY <1>1, <1>2, <1>3, <1>4, <1>5, <1>6, <1>7, <1>8, <1>9 DEF Next

LEMMA NextCalls == TypeOK /\ CallsInv /\ [Next]_vars => CallsInv'
<1> SUFFICES ASSUME TypeOK, CallsInv, [Next]_vars PROVE CallsInv'
  OBVIOUS
<1>1. CASE UNCHANGED <<loaded, accounts, refresh, calls, overlapped, spoilt>>
  BY <1>1 DEF CallsInv
<1>2. ASSUME NEW failed, Load(failed) PROVE CallsInv'
  BY <1>2 DEF Load, CallsInv
<1>3. ASSUME NEW u \in Users, AddCall(u) PROVE CallsInv'
  <2> DEFINE d == [step |-> "adding",
                   account |-> [user |-> u, login |-> loginOf[u],
                                token |-> nextToken]]
  <2>1. /\ calls' = calls \cup {d}
        /\ d.account.user = u /\ d.step = "adding"
    BY <1>3 DEF AddCall
  <2> HIDE DEF d
  <2>2. overlapped \subseteq overlapped'
    BY <1>3 DEF AddCall
  <2>3. (\E c \in calls : c.account.user = u) => u \in overlapped'
    BY <1>3 DEF AddCall, Pending
  <2> QED
    BY <1>3, <2>1, <2>2, <2>3 DEF AddCall, CallsInv
<1>4. ASSUME NEW a \in accounts, RemoveCall(a) PROVE CallsInv'
  <2> DEFINE d == [step |-> "removing", account |-> a]
  <2>1. /\ calls' = calls \cup {d}
        /\ d.account.user = a.user /\ d.step = "removing"
    BY <1>4 DEF RemoveCall
  <2> HIDE DEF d
  <2>2. overlapped \subseteq overlapped' /\ spoilt' = spoilt \cup {a.user}
    BY <1>4 DEF RemoveCall
  <2>3. (\E c \in calls : c.account.user = a.user) => a.user \in overlapped'
    BY <1>4 DEF RemoveCall, Pending
  <2> QED
    BY <1>4, <2>1, <2>2, <2>3 DEF RemoveCall, CallsInv
<1>5. ASSUME NEW c \in calls, StoreToken(c) \/ DeleteToken(c)
      PROVE  CallsInv'
  <2>1. PICK d : /\ calls' \subseteq (calls \ {c}) \cup {d}
                 /\ d.account = c.account
                 /\ \/ c.step = "adding" /\ d.step = "added" /\ loaded
                    \/ c.step = "removing" /\ d.step = "removed"
    <3>1. c \in [step : Steps, account : Accounts]
      BY DEF TypeOK, Calls
    <3>2. CASE StoreToken(c)
      <4>1. /\ [c EXCEPT !.step = "added"].account = c.account
            /\ [c EXCEPT !.step = "added"].step = "added"
        BY <3>1
      <4> QED
        BY <3>2, <4>1 DEF StoreToken
    <3>3. CASE DeleteToken(c)
      <4>1. /\ [c EXCEPT !.step = "removed"].account = c.account
            /\ [c EXCEPT !.step = "removed"].step = "removed"
        BY <3>1
      <4> QED
        BY <3>3, <4>1 DEF DeleteToken
    <3> QED
      BY <1>5, <3>2, <3>3
  <2>2. UNCHANGED <<loaded, accounts, refresh, overlapped, spoilt>>
    BY <1>5 DEF StoreToken, DeleteToken, history
  <2>3. loaded
    BY <2>1 DEF CallsInv
  <2> QED
    BY <2>1, <2>2, <2>3 DEF CallsInv
<1>6. ASSUME NEW c \in calls, AddEnds(c) \/ RemoveEnds(c) PROVE CallsInv'
  <2>1. /\ calls' = calls \ {c} /\ UNCHANGED <<loaded, refresh, overlapped>>
        /\ spoilt \ {c.account.user} \subseteq spoilt' /\ loaded
    BY <1>6 DEF AddEnds, RemoveEnds, CallsInv
  <2> QED
    BY <2>1 DEF CallsInv
<1>7. CASE RefreshCall
  BY <1>7 DEF RefreshCall, CallsInv, history
<1>8. ASSUME NEW updated, RefreshEnds(updated) PROVE CallsInv'
  BY <1>8 DEF RefreshEnds, CallsInv, history
<1>9. CASE Quit
  BY <1>9 DEF Quit, CallsInv
<1>10. (UNCHANGED vars \/ \E u \in Users : Rename(u)) =>
         UNCHANGED <<loaded, accounts, refresh, calls, overlapped, spoilt>>
  BY DEF vars, page, history, Rename
<1> QED
  BY <1>1, <1>2, <1>3, <1>4, <1>5, <1>6, <1>7, <1>8, <1>9, <1>10 DEF Next
-----------------------------------------------------------------------------
\* The token an account is used with is kept.

Sure(u) == /\ u \notin overlapped /\ loginOf[u] = "first"
           /\ Endpoint(u) \in Settled

\* The accounts of a user in S have the token the keychain has.
Agree(S, u) ==
  \A a \in S : a.user = u => TokenRead(keychain[Entry(u)]) = a.token

Untouched(u) ==
  \A c \in calls : c.account.user = u => c.step \in {"adding", "removing"}

\* They do until a call of the user has got to the keychain, and so do those a
\* refresh will write; from then on the keychain has what the call will list.
Kept(u) ==
  /\ Untouched(u) => /\ Agree(accounts, u)
                     /\ refresh = "running" => Agree(refreshing, u)
  /\ \A c \in calls : c.account.user = u /\ c.step = "added" =>
                      keychain[Entry(u)] = c.account.token

KeptInv == \A u \in Users : Sure(u) => Kept(u)

TokenInv == TypeOK /\ LoginInv /\ CallsInv /\ KeptInv

\* Whoever is sure now was so before.
LEMMA SureBefore ==
  ASSUME TypeOK, [Next]_vars, NEW u \in Users, Sure(u)'
  PROVE  Sure(u)
<1>1. overlapped \subseteq overlapped' /\ raced \subseteq raced'
  BY DEF Next, Load, AddCall, StoreToken, AddEnds, RemoveCall, DeleteToken,
     RemoveEnds, RefreshCall, RefreshEnds, Rename, Quit, Changed, history,
     vars
<1>2. loginOf' = loginOf \/ \E v \in Users : Rename(v)
  BY DEF Next, Load, AddCall, StoreToken, AddEnds, RemoveCall, DeleteToken,
     RemoveEnds, RefreshCall, RefreshEnds, Quit, vars
<1>3. loginOf'[u] = "first" => loginOf[u] = "first"
  BY <1>2 DEF Rename, TypeOK
<1> QED
  BY <1>1, <1>3 DEF Sure, Settled

\* What a call stores or deletes is of its own user.
LEMMA KeychainKept ==
  ASSUME TokenInv, NEW c \in calls, StoreToken(c) \/ DeleteToken(c),
         NEW u \in Users, Sure(u), Sure(u)'
  PROVE  Kept(u)'
<1>1. /\ c \in [step : Steps, account : Accounts] /\ c.account \in Accounts
      /\ c.account.user = u => Key(c.account) = Entry(u)
      /\ c.account.user # u => Key(c.account) # Entry(u)
      /\ Entry(u) \in Stored
  BY EntryType DEF TokenInv, TypeOK, Calls, LoginInv, Sure
<1>2. UNCHANGED <<accounts, refresh, refreshing>>
  BY DEF StoreToken, DeleteToken
<1>3. Kept(u)
  BY DEF TokenInv, KeptInv
<1>4. CASE calls' = calls \ {c} /\ keychain' = keychain
  <2>1. Untouched(u)' => Untouched(u)
    BY <1>4 DEF Untouched, StoreToken, DeleteToken
  <2> QED
    BY <1>2, <1>3, <1>4, <2>1 DEF Kept, Agree
<1>5. ASSUME NEW d, d.account = c.account, d.step \in {"added", "removed"},
             calls' = (calls \ {c}) \cup {d},
             \A k \in Stored \ {Key(c.account)} : keychain'[k] = keychain[k],
             d.step = "added" => keychain'[Key(c.account)] = c.account.token
      PROVE  Kept(u)'
  <2>1. CASE c.account.user # u
    <3>1. keychain'[Entry(u)] = keychain[Entry(u)]
      BY <1>1, <1>5, <2>1
    <3>2. Untouched(u)' => Untouched(u)
      BY <1>5, <2>1 DEF Untouched
    <3> QED
      BY <1>2, <1>3, <1>5, <2>1, <3>1, <3>2 DEF Kept, Agree
  <2>2. CASE c.account.user = u
    <3>1. ~Untouched(u)'
      BY <1>5, <2>2 DEF Untouched
    <3>2. \A x \in calls \ {c} : x.account.user # u
      BY <2>2 DEF TokenInv, CallsInv, Sure
    <3> QED
      BY <1>1, <1>5, <2>2, <3>1, <3>2 DEF Kept
  <2> QED
    BY <2>1, <2>2
<1>6. CASE StoreToken(c) /\ ~(calls' = calls \ {c} /\ keychain' = keychain)
  <2> DEFINE d == [c EXCEPT !.step = "added"]
  <2>1. d.account = c.account /\ d.step = "added"
    BY <1>1
  <2>2. /\ keychain' = [keychain EXCEPT ![Key(c.account)] = c.account.token]
        /\ calls' = (calls \ {c}) \cup {d}
    BY <1>6 DEF StoreToken
  <2>3. /\ \A k \in Stored \ {Key(c.account)} : keychain'[k] = keychain[k]
        /\ keychain'[Key(c.account)] = c.account.token
    BY <1>1, <2>2, KeyType DEF TokenInv, TypeOK
  <2> HIDE DEF d
  <2> QED
    BY <1>5, <2>1, <2>2, <2>3
<1>7. CASE DeleteToken(c) /\ ~(calls' = calls \ {c} /\ keychain' = keychain)
  <2> DEFINE d == [c EXCEPT !.step = "removed"]
  <2>1. d.account = c.account /\ d.step = "removed"
    BY <1>1
  <2>2. /\ keychain' = [keychain EXCEPT ![Key(c.account)] = Absent]
        /\ calls' = (calls \ {c}) \cup {d}
    BY <1>7 DEF DeleteToken, Deleted
  <2>3. \A k \in Stored \ {Key(c.account)} : keychain'[k] = keychain[k]
    BY <2>2 DEF TokenInv, TypeOK
  <2> HIDE DEF d
  <2> QED
    BY <1>5, <2>1, <2>2, <2>3
<1> QED
  BY <1>4, <1>6, <1>7

\* A call that ends lists the account it has stored, or lists it no more; a
\* refresh that is running makes its endpoint unsettled.
LEMMA EndsKept ==
  ASSUME TokenInv, NEW c \in calls, AddEnds(c) \/ RemoveEnds(c),
         NEW u \in Users, Sure(u), Sure(u)'
  PROVE  Kept(u)'
<1>1. c.account \in Accounts /\ Calls \subseteq [step : Steps, account : Accounts]
  BY DEF TokenInv, TypeOK, Calls
<1>2. UNCHANGED <<keychain, refresh, refreshing>> /\ calls' = calls \ {c}
  BY DEF AddEnds, RemoveEnds
<1>3. Kept(u)
  BY DEF TokenInv, KeptInv
<1>4. CASE c.account.user # u
  <2>1. Untouched(u)' => Untouched(u)
    BY <1>2, <1>4 DEF Untouched
  <2>2. \A a \in accounts' : a.user = u => a \in accounts
    BY <1>4 DEF AddEnds, RemoveEnds, Save, Added, Remaining
  <2> QED
    BY <1>2, <1>3, <2>1, <2>2 DEF Kept, Agree
<1>5. CASE c.account.user = u
  <2>1. refresh # "running"
    BY <1>5 DEF AddEnds, RemoveEnds, Changed, Sure, Settled
  <2>2. \A x \in calls' : x.account.user # u
    BY <1>2, <1>5 DEF TokenInv, CallsInv, Sure
  <2>3. CASE AddEnds(c)
    <3>1. keychain[Entry(u)] = c.account.token /\ c.account.token \in Tokens
      BY <1>3, <1>5, <2>3 DEF Kept, AddEnds, TokenInv, TypeOK, Calls, Accounts
    <3>2. \A a \in accounts' : a.user = u => a = c.account
      BY <1>5, <2>3 DEF AddEnds, Save, Added
    <3> QED
      BY <1>2, <2>1, <2>2, <3>1, <3>2, TokenType DEF Kept, Agree
  <2>4. CASE RemoveEnds(c)
    <3>1. \A a \in accounts' : a.user # u
      BY <1>5, <2>4 DEF RemoveEnds, Save, Remaining
    <3> QED
      BY <1>2, <2>1, <2>2, <3>1 DEF Kept, Agree
  <2> QED
    BY <2>3, <2>4
<1> QED
  BY <1>4, <1>5

\* The tokens the start reads are those of the keychain, and what a refresh
\* writes has the tokens it began with.
LEMMA ListsKept ==
  ASSUME TokenInv, NEW u \in Users, Sure(u), Sure(u)',
         \/ \E failed \in SUBSET Users : Load(failed)
         \/ RefreshCall
         \/ \E updated \in SUBSET refreshing : RefreshEnds(updated)
         \/ Quit
  PROVE  Kept(u)'
<1>1. Kept(u)
  BY DEF TokenInv, KeptInv
<1>2. ASSUME NEW failed, Load(failed) PROVE Kept(u)'
  <2>1. \A a \in accounts' : a.user = u =>
          a.token = TokenRead(keychain[Entry(u)])
    <3> SUFFICES ASSUME NEW k \in users, k.user = u
                 PROVE  k = Entry(u)
      BY <1>2 DEF Load, WithToken
    <3> QED
      BY EntryType DEF TokenInv, TypeOK, LoginInv, Sure
  <2>2. refresh' # "running" /\ UNCHANGED <<calls, keychain>>
    BY <1>2 DEF Load, TokenInv, CallsInv
  <2> QED
    BY <1>1, <2>1, <2>2 DEF Kept, Agree
<1>3. CASE RefreshCall
  BY <1>1, <1>3 DEF RefreshCall, disk, Kept, Agree, Untouched
<1>4. ASSUME NEW updated, RefreshEnds(updated) PROVE Kept(u)'
  <2>1. \A b \in Refreshed(updated) :
          \E a \in refreshing : a.user = b.user /\ a.token = b.token
    <3> SUFFICES ASSUME NEW b \in Refreshed(updated)
                 PROVE  \E a \in refreshing :
                          a.user = b.user /\ a.token = b.token
      OBVIOUS
    <3>1. PICK a \in refreshing :
            /\ a.user = b.user
            /\ b = IF a \in updated THEN [a EXCEPT !.login = loginOf[a.user]]
                                    ELSE a
      BY RefreshedType DEF TokenInv
    <3>2. a \in Accounts
      BY DEF TokenInv, TypeOK
    <3> QED
      BY <3>1, <3>2 DEF Accounts
  <2>2. /\ accounts' = Refreshed(updated) /\ refresh = "running"
        /\ refresh' = "over" /\ UNCHANGED <<calls, keychain>>
    BY <1>4 DEF RefreshEnds, Save
  <2>3. Agree(refreshing, u) => Agree(accounts, u)'
    BY <2>1, <2>2 DEF Agree
  <2> QED
    BY <1>1, <2>2, <2>3 DEF Kept, Untouched
<1>5. CASE Quit
  BY <1>5 DEF Quit, Kept, Agree
<1> QED
  BY <1>2, <1>3, <1>4, <1>5

LEMMA NextToken == TokenInv /\ [Next]_vars => TokenInv'
<1> SUFFICES ASSUME TokenInv, [Next]_vars PROVE TokenInv'
  OBVIOUS
<1>1. TypeOK' /\ LoginInv' /\ CallsInv'
  BY NextTypeOK, NextLogin, NextCalls DEF TokenInv
<1>2. ASSUME NEW u \in Users, Sure(u)' PROVE Kept(u)'
  <2>1. Sure(u) /\ Kept(u)
    BY <1>2, SureBefore DEF TokenInv, KeptInv
  <2>2. CASE UNCHANGED <<accounts, keychain, calls, refresh, refreshing>>
    BY <2>1, <2>2 DEF Kept, Agree, Untouched
  <2>3. ASSUME NEW v \in Users, AddCall(v) PROVE Kept(u)'
    <3> DEFINE d == [step |-> "adding",
                     account |-> [user |-> v, login |-> loginOf[v],
                                  token |-> nextToken]]
    <3>1. calls' = calls \cup {d} /\ d.step = "adding"
      BY <2>3 DEF AddCall
    <3> HIDE DEF d
    <3>2. UNCHANGED <<accounts, keychain, refresh, refreshing>>
      BY <2>3 DEF AddCall, disk
    <3> QED
      BY <2>1, <3>1, <3>2 DEF Kept, Agree, Untouched
  <2>4. ASSUME NEW a \in accounts, RemoveCall(a) PROVE Kept(u)'
    <3> DEFINE d == [step |-> "removing", account |-> a]
    <3>1. calls' = calls \cup {d} /\ d.step = "removing"
      BY <2>4 DEF RemoveCall
    <3> HIDE DEF d
    <3>2. UNCHANGED <<accounts, keychain, refresh, refreshing>>
      BY <2>4 DEF RemoveCall, disk
    <3> QED
      BY <2>1, <3>1, <3>2 DEF Kept, Agree, Untouched
  <2>5. (UNCHANGED vars \/ \E v \in Users : Rename(v)) =>
          UNCHANGED <<accounts, keychain, calls, refresh, refreshing>>
    BY DEF vars, page, disk, Rename
  <2> QED
    BY <1>2, <2>1, <2>2, <2>3, <2>4, <2>5, KeychainKept, EndsKept, ListsKept
    DEF Next
<1> QED
  BY <1>1, <1>2 DEF TokenInv, KeptInv

LEMMA InitToken == Init => TokenInv
<1> SUFFICES ASSUME Init PROVE TokenInv
  OBVIOUS
<1>1. LoginInv
  BY DEF Init, LoginInv
<1>2. CallsInv
  BY DEF Init, CallsInv
<1>3. KeptInv
  BY DEF Init, KeptInv, Kept, Agree
<1> QED
  BY <1>1, <1>2, <1>3, InitTypeOK DEF TokenInv

\* The token an account is used with is the one the next start reads, for any
\* number of users, calls and restarts: whatever a call does to the keychain,
\* it does to the list as well, where no other call of the user and no refresh
\* of the endpoint came in between.
THEOREM TokensAreKept == Spec => []TokenIsKept
<1>1. TokenInv => TokenIsKept
  <2> SUFFICES ASSUME TokenInv, NEW a \in accounts,
                      Endpoint(a.user) \in Settled, Pending(a.user) = {},
                      a.user \notin overlapped, loginOf[a.user] = "first"
               PROVE  TokenRead(keychain[Key(a)]) = a.token
    BY DEF TokenIsKept
  <2>1. a.user \in Users /\ a \in Accounts
    BY DEF TokenInv, TypeOK, Accounts
  <2>2. Key(a) = Entry(a.user)
    BY <2>1, EntryType DEF TokenInv, LoginInv
  <2>3. Sure(a.user) /\ Untouched(a.user)
    BY DEF Sure, Untouched, Pending
  <2> QED
    BY <2>1, <2>2, <2>3 DEF TokenInv, KeptInv, Kept, Agree
<1> QED
  BY <1>1, InitToken, NextToken, PTL DEF Spec
-----------------------------------------------------------------------------
\* Who signed in stays signed in.

\* The user whose account of a settled endpoint is not in doubt.
Owns(u) == /\ u \in Users /\ Endpoint(u) \in Settled
           /\ owner[Endpoint(u)] = u
           /\ u \notin spoilt \cup overlapped

\* S lists the user, with a token unless it has another login by now.
Listed(S, u) ==
  /\ \E a \in S : a.user = u
  /\ loginOf[u] = "first" => \A a \in S : a.user = u => a.token # NoToken

\* It is on disk, its token is in the keychain, and it is in memory and in what
\* a refresh will write.
Signed(u) ==
  /\ \E k \in users : k.user = u
  /\ loaded => Listed(accounts, u)
  /\ refresh = "running" => Listed(refreshing, u)
  /\ loginOf[u] = "first" => keychain[Entry(u)] # Absent

SignedInv == \A u \in Users : Owns(u) => Signed(u)

OwnerInv == \A e \in Endpoints : owner[e] = Nobody \/ Endpoint(owner[e]) = e

\* What is written to memory is written to disk.
LEMMA SaveListed ==
  ASSUME NEW S, Save(S), NEW u, loginOf' = loginOf,
         \E a \in S : a.user = u,
         loginOf[u] = "first" => \A a \in S : a.user = u => a.token # NoToken
  PROVE  Listed(accounts, u)' /\ \E k \in users' : k.user = u
<1>1. PICK a \in S : a.user = u
  OBVIOUS
<1>2. Key(a) \in users' /\ Key(a).user = u
  BY <1>1 DEF Save, Key
<1>3. Listed(accounts, u)'
  BY DEF Save, Listed
<1> QED
  BY <1>2, <1>3

LEMMA LoadSigned ==
  ASSUME TokenInv, SignedInv, NEW failed, Load(failed), NEW u \in Users,
         Owns(u)'
  PROVE  Signed(u)'
<1>1. Owns(u) /\ u \notin failed
  BY DEF Load, Owns, Settled
<1>2. Signed(u)
  BY <1>1 DEF SignedInv
<1>3. UNCHANGED <<keychain, refresh, refreshing, loginOf>>
  BY DEF Load
<1>4. PICK k \in users : k.user = u
  BY <1>2 DEF Signed
<1>5. \E a \in accounts' : a.user = u
  <2>1. WithToken(k, TokenRead(keychain[k])) \in accounts'
    BY <1>1, <1>4 DEF Load
  <2>2. WithToken(k, TokenRead(keychain[k])).user = u
    BY <1>4 DEF WithToken
  <2> QED
    BY <2>1, <2>2
<1>6. \E l \in users' : l.user = u
  <2>1. CASE legacy = {}
    BY <1>4, <2>1 DEF Load
  <2>2. CASE legacy # {}
    <3>1. PICK a \in accounts' : a.user = u
      BY <1>5
    <3>2. Key(a) \in users' /\ Key(a).user = u
      BY <2>2, <3>1 DEF Load, Key
    <3> QED
      BY <3>2
  <2> QED
    BY <2>1, <2>2
<1>7. ASSUME loginOf[u] = "first", NEW a \in accounts', a.user = u
      PROVE  a.token # NoToken
  <2>1. PICK l \in users :
          a = WithToken(l, TokenRead(keychain[l])) /\ l.user = u
    BY <1>7 DEF Load, WithToken
  <2>2. l = Entry(u)
    BY <1>7, <2>1, EntryType DEF TokenInv, TypeOK, LoginInv
  <2>3. keychain[l] \in Tokens
    BY <1>2, <1>7, <2>2, EntryType DEF Signed, TokenInv, TypeOK
  <2> QED
    BY <2>1, <2>3, TokenType DEF WithToken
<1> QED
  BY <1>2, <1>3, <1>5, <1>6, <1>7 DEF Signed, Listed

\* Only who is being signed out loses its token.
LEMMA KeychainSigned ==
  ASSUME TokenInv, SignedInv, NEW c \in calls, StoreToken(c) \/ DeleteToken(c),
         NEW u \in Users, Owns(u)'
  PROVE  Signed(u)'
<1>1. Owns(u) /\ Signed(u)
  BY DEF StoreToken, DeleteToken, history, Owns, Settled, SignedInv
<1>2. UNCHANGED <<loaded, accounts, users, refresh, refreshing, loginOf>>
  BY DEF StoreToken, DeleteToken
<1>3. Entry(u) \in Stored /\ keychain \in [Stored -> Tokens \cup {Absent}]
  BY EntryType DEF TokenInv, TypeOK
<1>4. CASE StoreToken(c)
  <2>1. c.account.token \in Tokens
    BY <1>4 DEF StoreToken, TokenInv, TypeOK, Calls, Accounts
  <2>2. keychain'[Entry(u)] \in {keychain[Entry(u)], c.account.token}
    BY <1>3, <1>4 DEF StoreToken
  <2> QED
    BY <1>1, <1>2, <2>1, <2>2, TokenType DEF Signed, Listed
<1>5. CASE DeleteToken(c)
  <2>1. c.account.user # u /\ c.account \in Accounts
    BY <1>1, <1>5 DEF DeleteToken, TokenInv, CallsInv, TypeOK, Calls, Owns
  <2>2. keychain'[Entry(u)] = keychain[Entry(u)]
    BY <1>3, <1>5, <2>1, EntryType DEF DeleteToken, Deleted
  <2> QED
    BY <1>1, <1>2, <2>2 DEF Signed, Listed
<1> QED
  BY <1>4, <1>5

LEMMA AddSigned ==
  ASSUME TokenInv, OwnerInv, SignedInv, NEW c \in calls, AddEnds(c),
         NEW u \in Users, Owns(u)'
  PROVE  Signed(u)'
<1> DEFINE a == c.account
<1>1. /\ a \in Accounts /\ a.token # NoToken /\ a.user \in Users
      /\ Endpoint(a.user) \in Endpoints /\ loaded
  BY DEF AddEnds, TokenInv, TypeOK, CallsInv, Calls, Accounts, Users, Endpoint
<1>2. /\ owner'[Endpoint(a.user)] = a.user
      /\ \A e \in Endpoints \ {Endpoint(a.user)} : owner'[e] = owner[e]
      /\ Save(Added(a)) /\ raced \subseteq raced'
      /\ UNCHANGED <<loaded, keychain, refresh, refreshing, loginOf,
                     overlapped>>
  BY <1>1 DEF AddEnds, Changed, TokenInv, TypeOK
<1>3. CASE u = a.user
  <2>1. refresh # "running"
    BY <1>3 DEF AddEnds, Changed, Owns, Settled
  <2>2. /\ \E b \in Added(a) : b.user = u
        /\ \A b \in Added(a) : b.user = u => b.token # NoToken
    BY <1>1, <1>3 DEF Added
  <2>3. Listed(accounts, u)' /\ \E k \in users' : k.user = u
    BY <1>2, <2>2, SaveListed
  <2>4. loginOf[u] = "first" => keychain[Entry(u)] = a.token
    BY <1>2, <1>3
    DEF AddEnds, TokenInv, KeptInv, Kept, Sure, Owns, Settled
  <2>5. a.token # Absent
    BY <1>1, TokenType DEF Accounts
  <2> QED
    BY <1>2, <2>1, <2>3, <2>4, <2>5 DEF Signed
<1>4. CASE u # a.user
  <2>1. Endpoint(u) # Endpoint(a.user)
    BY <1>2, <1>4 DEF Owns
  <2>2. Owns(u) /\ Signed(u)
    BY <1>2, <1>4, <2>1 DEF Owns, Settled, AddEnds, SignedInv
  <2>3. \E b \in Added(a) : b.user = u
    BY <1>1, <2>1, <2>2 DEF Added, Signed, Listed
  <2>4. \A b \in Added(a) : b.user = u => b \in accounts
    BY <1>4 DEF Added
  <2>5. Listed(accounts, u)' /\ \E k \in users' : k.user = u
    <3>1. loginOf[u] = "first" =>
            \A b \in Added(a) : b.user = u => b.token # NoToken
      BY <1>1, <2>2, <2>4 DEF Signed, Listed
    <3> QED
      BY <1>2, <2>3, <3>1, SaveListed
  <2> QED
    BY <1>2, <2>2, <2>5 DEF Signed, Listed
<1> QED
  BY <1>3, <1>4

LEMMA RemoveSigned ==
  ASSUME TokenInv, SignedInv, NEW c \in calls, RemoveEnds(c),
         NEW u \in Users, Owns(u)'
  PROVE  Signed(u)'
<1> DEFINE a == c.account
<1>1. /\ a.user \in Users /\ Endpoint(a.user) \in Endpoints /\ loaded
      /\ u # Nobody
  BY AccountsAssumption
  DEF RemoveEnds, TokenInv, TypeOK, CallsInv, Calls, Accounts, Users, Endpoint
<1>2. /\ \A e \in Endpoints : owner'[e] # Nobody => owner'[e] = owner[e]
      /\ owner'[Endpoint(a.user)] # a.user
      /\ Save(Remaining(a)) /\ raced \subseteq raced'
      /\ UNCHANGED <<loaded, keychain, refresh, refreshing, loginOf,
                     overlapped, spoilt>>
  BY <1>1, AccountsAssumption
  DEF RemoveEnds, Changed, TokenInv, TypeOK, Users
<1>3. u # a.user /\ Owns(u) /\ Signed(u)
  BY <1>1, <1>2 DEF Owns, Settled, SignedInv
<1>4. /\ \E b \in Remaining(a) : b.user = u
      /\ \A b \in Remaining(a) : b \in accounts
  BY <1>1, <1>3 DEF Remaining, Signed, Listed
<1>5. loginOf[u] = "first" =>
        \A b \in Remaining(a) : b.user = u => b.token # NoToken
  BY <1>1, <1>3, <1>4 DEF Signed, Listed
<1>6. Listed(accounts, u)' /\ \E k \in users' : k.user = u
  BY <1>2, <1>4, <1>5, SaveListed
<1> QED
  BY <1>2, <1>3, <1>6 DEF Signed, Listed

LEMMA RefreshSigned ==
  ASSUME TokenInv, SignedInv, NEW updated, RefreshEnds(updated),
         NEW u \in Users, Owns(u)'
  PROVE  Signed(u)'
<1>1. Owns(u) /\ Signed(u)
  BY DEF RefreshEnds, history, Owns, Settled, SignedInv
<1>2. /\ Save(Refreshed(updated)) /\ refresh = "running" /\ refresh' = "over"
      /\ UNCHANGED <<loaded, keychain, loginOf>>
  BY DEF RefreshEnds
<1>3. Listed(refreshing, u)
  BY <1>1, <1>2 DEF Signed
<1>4. \A a \in refreshing :
        \E b \in Refreshed(updated) : b.user = a.user
  <2> SUFFICES ASSUME NEW a \in refreshing
               PROVE  \E b \in Refreshed(updated) : b.user = a.user
    OBVIOUS
  <2> DEFINE b == IF a \in updated THEN [a EXCEPT !.login = loginOf[a.user]]
                                   ELSE a
  <2>1. b \in Refreshed(updated)
    BY DEF Refreshed
  <2>2. b.user = a.user
    BY UpdatedType DEF TokenInv, TypeOK
  <2> QED
    BY <2>1, <2>2
<1>5. \A b \in Refreshed(updated) :
        \E a \in refreshing : a.user = b.user /\ a.token = b.token
  <2> SUFFICES ASSUME NEW b \in Refreshed(updated)
               PROVE  \E a \in refreshing :
                        a.user = b.user /\ a.token = b.token
    OBVIOUS
  <2>1. PICK a \in refreshing :
          /\ a.user = b.user
          /\ b = IF a \in updated THEN [a EXCEPT !.login = loginOf[a.user]]
                                  ELSE a
    BY RefreshedType DEF TokenInv
  <2>2. a \in Accounts
    BY DEF TokenInv, TypeOK
  <2> QED
    BY <2>1, <2>2 DEF Accounts
<1>6. Listed(accounts, u)' /\ \E k \in users' : k.user = u
  <2>1. \E b \in Refreshed(updated) : b.user = u
    BY <1>3, <1>4 DEF Listed
  <2>2. loginOf[u] = "first" =>
          \A b \in Refreshed(updated) : b.user = u => b.token # NoToken
    BY <1>3, <1>5 DEF Listed
  <2> QED
    BY <1>2, <2>1, <2>2, SaveListed
<1> QED
  BY <1>1, <1>2, <1>6 DEF Signed
LEMMA NextOwner == TypeOK /\ OwnerInv /\ [Next]_vars => OwnerInv'
<1> SUFFICES ASSUME TypeOK, OwnerInv, [Next]_vars PROVE OwnerInv'
  OBVIOUS
<1>1. CASE owner' = owner
  BY <1>1 DEF OwnerInv
<1>2. ASSUME NEW c \in calls, AddEnds(c) \/ RemoveEnds(c) PROVE OwnerInv'
  BY <1>2 DEF AddEnds, RemoveEnds, OwnerInv, TypeOK
<1> QED
  BY <1>1, <1>2
  DEF Next, Load, AddCall, StoreToken, RemoveCall, DeleteToken, RefreshCall,
      RefreshEnds, Rename, Quit, vars, history

LEMMA NextSigned ==
  TokenInv /\ OwnerInv /\ SignedInv /\ [Next]_vars => SignedInv'
<1> SUFFICES ASSUME TokenInv, OwnerInv, SignedInv, [Next]_vars,
                    NEW u \in Users, Owns(u)'
             PROVE  Signed(u)'
  BY DEF SignedInv
<1>1. ASSUME UNCHANGED <<loaded, accounts, users, keychain, refresh,
                         refreshing, owner, raced>>,
             spoilt \cup overlapped \subseteq (spoilt \cup overlapped)',
             loginOf'[u] = "first" => loginOf[u] = "first"
      PROVE  Signed(u)'
  <2>1. Owns(u) /\ Signed(u)
    BY <1>1 DEF Owns, Settled, SignedInv
  <2> QED
    BY <1>1, <2>1 DEF Signed, Listed
<1>2. CASE UNCHANGED vars
  BY <1>1, <1>2 DEF vars, disk, page, history
<1>3. ASSUME NEW v \in Users, AddCall(v) PROVE Signed(u)'
  BY <1>1, <1>3 DEF AddCall, disk
<1>4. ASSUME NEW v \in Users, Rename(v) PROVE Signed(u)'
  <2>1. loginOf'[u] = "first" => loginOf[u] = "first"
    BY <1>4 DEF Rename, TokenInv, TypeOK
  <2> QED
    BY <1>1, <1>4, <2>1 DEF Rename, disk, page, history
<1>5. ASSUME NEW a \in accounts, RemoveCall(a) PROVE Signed(u)'
  BY <1>1, <1>5 DEF RemoveCall, disk
<1>6. CASE RefreshCall
  <2>1. Owns(u) /\ Signed(u) /\ Listed(accounts, u)
    BY <1>6 DEF RefreshCall, history, Owns, Settled, SignedInv, Signed
  <2> QED
    BY <1>6, <2>1 DEF RefreshCall, disk, Signed, Listed
<1>7. CASE Quit
  <2>1. Owns(u) /\ Signed(u)
    BY <1>7 DEF Quit, history, Owns, Settled, SignedInv
  <2> QED
    BY <1>7, <2>1 DEF Quit, disk, Signed, Listed
<1> QED
  BY <1>2, <1>3, <1>4, <1>5, <1>6, <1>7, LoadSigned, KeychainSigned,
     AddSigned, RemoveSigned, RefreshSigned DEF Next

LEMMA InitSigned == Init => OwnerInv /\ SignedInv
<1> SUFFICES ASSUME Init PROVE OwnerInv /\ SignedInv
  OBVIOUS
<1>1. OwnerInv
  BY DEF Init, OwnerInv
<1>2. ASSUME NEW u \in Users, Owns(u) PROVE FALSE
  <2>1. u # Nobody /\ u \notin legacy
    BY <1>2, AccountsAssumption DEF Init, Owns, Users
  <2> QED
    BY <1>2, <2>1 DEF Init, Owns, Settled
<1> QED
  BY <1>1, <1>2 DEF SignedInv

\* Who signed in stays signed in, through any number of restarts, for any
\* number of users and servers: its account is on disk, its token in the
\* keychain, and a refresh that would write it away unsettles its endpoint.
THEOREM SignedInForGood == Spec => []StaysSignedIn
<1>1. TokenInv /\ OwnerInv /\ SignedInv => StaysSignedIn
  <2> SUFFICES ASSUME TokenInv, OwnerInv, SignedInv, NEW e \in Settled, loaded,
                      owner[e] # Nobody, owner[e] \notin spoilt \cup overlapped
               PROVE  \E a \in accounts :
                        /\ a.user = owner[e]
                        /\ loginOf[owner[e]] = "first" => a.token # NoToken
    BY DEF StaysSignedIn
  <2>1. e \in Endpoints /\ owner[e] \in Users /\ Endpoint(owner[e]) = e
    BY DEF Settled, OwnerInv, TokenInv, TypeOK
  <2>2. Listed(accounts, owner[e])
    BY <2>1 DEF Owns, SignedInv, Signed
  <2> QED
    BY <2>2 DEF Listed
<1> QED
  BY <1>1, InitToken, NextToken, InitSigned, NextOwner, NextSigned, PTL
  DEF Spec, TokenInv

-----------------------------------------------------------------------------
\* Signing in.

\* A flow knows whom to tell and, once a server is chosen, which.
FlowInv ==
  /\ flow = NoFlow \/ flow.caller \in begun
  /\ flow.kind \in {"existing", "authentication"} => flow.endpoint \in Servers
  /\ \A a \in Attempts :
       removing[a] = NoFlow \/ /\ removing[a].kind = "existing"
                               /\ removing[a].endpoint \in Servers
                               /\ removing[a].caller \in begun

\* The browser was opened for the flow that has a session, and a request is
\* for the server that its session was opened for.
OpenedInv ==
  /\ flow.session # 0 => /\ flow.session \in 1..sessions
                         /\ opened[flow.session].caller = flow.caller
                         /\ opened[flow.session].endpoint = flow.endpoint
  /\ \A s \in 1..sessions : opened[s].caller \in begun
  /\ \A q \in Requests :
       requests[q] # NoRequest =>
         /\ requests[q].code \in 1..sessions
         /\ requests[q].endpoint \in Servers
         /\ opened[requests[q].code].endpoint = requests[q].endpoint

SignInInv == SignInTypeOK /\ FlowInv /\ OpenedInv /\ NobodyIsForgotten

LEMMA FlowType ==
  ASSUME NEW f \in Flows
  PROVE  /\ f.kind \in FlowKinds /\ f.endpoint \in Servers \cup {None}
         /\ f.caller \in Callers \cup {None} /\ f.session \in 0..MaxSessions
         /\ f.loading \in BOOLEAN
BY DEF Flows

LEMMA NoFlowType ==
  /\ NoFlow \in Flows /\ NoFlow.kind = "none" /\ NoFlow.session = 0
  /\ NoFlow.caller = None /\ None \notin Callers /\ None \notin Servers
BY SignInAssumption DEF NoFlow, Flows, FlowKinds

\* What setEndpoint makes of a flow.
LEMMA ChosenType ==
  ASSUME NEW e \in Servers, NEW c \in Callers
  PROVE  /\ Chosen(e, c) \in Flows /\ Chosen(e, c).endpoint = e
         /\ Chosen(e, c).caller = c /\ Chosen(e, c).session = 0
         /\ Chosen(e, c).kind \in {"existing", "authentication"}
<1>1. 0 \in 0..MaxSessions
  BY SignInAssumption
<1>2. CASE signedIn[e] = 0
  BY <1>1, <1>2 DEF Chosen, NoFlow, Flows, FlowKinds
<1>3. CASE signedIn[e] # 0
  BY <1>1, <1>3 DEF Chosen, NoFlow, Flows, FlowKinds
<1> QED
  BY <1>2, <1>3

LEMMA EntryFlowType ==
  ASSUME NEW c \in Callers
  PROVE  /\ EndpointEntry(c) \in Flows /\ EndpointEntry(c).caller = c
         /\ EndpointEntry(c).session = 0
         /\ EndpointEntry(c).kind = "endpointEntry"
<1>1. 0 \in 0..MaxSessions
  BY SignInAssumption
<1> QED
  BY <1>1 DEF EndpointEntry, Flows, NoFlow, FlowKinds

LEMMA SuccessType ==
  ASSUME NEW f \in Flows
  PROVE  /\ Success(f) \in Flows /\ Success(f).kind = "success"
         /\ Success(f).caller = f.caller /\ Success(f).session = 0
<1>1. 0 \in 0..MaxSessions /\ f.caller \in Callers \cup {None}
  BY SignInAssumption, FlowType
<1> QED
  BY <1>1 DEF Success, Flows, NoFlow, FlowKinds

LEMMA LoadingType ==
  ASSUME NEW f \in Flows, NEW b \in BOOLEAN
  PROVE  LET g == [f EXCEPT !.loading = b] IN
         /\ g \in Flows /\ g.kind = f.kind /\ g.endpoint = f.endpoint
         /\ g.caller = f.caller /\ g.session = f.session
BY DEF Flows

\* The browser is opened for a flow.
LEMMA OpenType ==
  ASSUME SignInTypeOK, OpenedInv, NEW f \in Flows, f.caller \in begun,
         begun' = begun, requests' = requests, Open(f)
  PROVE  /\ flow' \in Flows /\ flow'.kind = "authentication"
         /\ flow'.endpoint = f.endpoint /\ flow'.caller = f.caller
         /\ sessions' \in 0..MaxSessions
         /\ opened' \in [1..MaxSessions -> [caller : Callers \cup {None},
                                            endpoint : Servers \cup {None}]]
         /\ OpenedInv'
<1>1. /\ sessions \in 0..MaxSessions /\ sessions + 1 \in 1..MaxSessions
      /\ sessions' = sessions + 1
  BY SignInAssumption DEF Open, SignInTypeOK
<1>2. /\ flow' \in Flows /\ flow'.kind = "authentication"
      /\ flow'.endpoint = f.endpoint /\ flow'.caller = f.caller
      /\ flow'.session = sessions + 1
  <2>1. sessions + 1 \in 0..MaxSessions
    BY <1>1, SignInAssumption
  <2>2. flow' = [f EXCEPT !.kind = "authentication",
                          !.session = sessions + 1, !.loading = TRUE]
    BY DEF Open
  <2> QED
    BY <2>1, <2>2 DEF Flows, FlowKinds
<1> DEFINE d == [caller |-> f.caller, endpoint |-> f.endpoint]
<1>3. /\ d \in [caller : Callers \cup {None}, endpoint : Servers \cup {None}]
      /\ d.caller = f.caller /\ d.endpoint = f.endpoint
  BY FlowType
<1>4. opened' = [opened EXCEPT ![sessions + 1] = d]
  BY DEF Open
<1> HIDE DEF d
<1>5. /\ opened' \in [1..MaxSessions -> [caller : Callers \cup {None},
                                         endpoint : Servers \cup {None}]]
      /\ opened'[sessions + 1] = d
      /\ \A s \in 1..sessions : opened'[s] = opened[s]
  BY <1>1, <1>3, <1>4, SignInAssumption DEF SignInTypeOK
<1>6. 1..(sessions + 1) = 1..sessions \cup {sessions + 1}
  BY <1>1, SignInAssumption
<1>7. OpenedInv'
  BY <1>1, <1>2, <1>3, <1>5, <1>6 DEF OpenedInv
<1> QED
  BY <1>1, <1>2, <1>5, <1>7

LEMMA ToldType ==
  ASSUME SignInTypeOK, NEW c, NEW result \in {"success", "cancelled"}
  PROVE  /\ Told(c, result) \in
              [Callers -> {"nothing", "success", "cancelled"}]
         /\ \A d \in Callers : told[d] # "nothing" \/ d = c =>
              Told(c, result)[d] # "nothing"
BY DEF SignInTypeOK, Told

\* A flow that gives way tells its caller.
LEMMA ResetTells ==
  ASSUME SignInTypeOK, FlowInv, NobodyIsForgotten, NEW f, ResetTo(f)
  PROVE  /\ told' \in [Callers -> {"nothing", "success", "cancelled"}]
         /\ settled' \subseteq 1..MaxSessions /\ flow' = f
         /\ begun \subseteq Callers
         /\ \A c \in begun : told'[c] # "nothing" \/ c \in overwritten
<1>1. told' \in [Callers -> {"nothing", "success", "cancelled"}]
  BY ToldType DEF SignInTypeOK, ResetTo, Cancelled
<1>2. settled' \subseteq 1..MaxSessions
  <2>1. flow.session \in 0..MaxSessions /\ settled \subseteq 1..MaxSessions
    BY FlowType DEF SignInTypeOK
  <2>2. flow.session # 0 => flow.session \in 1..MaxSessions
    BY <2>1, SignInAssumption
  <2> QED
    BY <2>1, <2>2 DEF ResetTo, Rejected
<1>3. ASSUME NEW c \in begun, c \notin overwritten PROVE told'[c] # "nothing"
  <2>1. c \in Callers /\ (told[c] # "nothing" \/ flow.caller = c)
    BY <1>3 DEF SignInTypeOK, NobodyIsForgotten
  <2>2. CASE flow = NoFlow
    BY <2>1, <2>2, NoFlowType DEF ResetTo, Cancelled
  <2>3. CASE flow # NoFlow
    BY <2>1, <2>3, ToldType DEF ResetTo, Cancelled
  <2> QED
    BY <2>2, <2>3
<1> QED
  BY <1>1, <1>2, <1>3 DEF ResetTo, SignInTypeOK

\* The sessions are what they were, and the flow there is has none.
LEMMA OpenedKept ==
  ASSUME OpenedInv, UNCHANGED <<sessions, requests, opened>>,
         begun \subseteq begun',
         \/ flow'.session = 0
         \/ /\ flow'.session = flow.session /\ flow'.caller = flow.caller
            /\ flow'.endpoint = flow.endpoint
  PROVE  OpenedInv'
BY DEF OpenedInv

LEMMA ActsType ==
  ASSUME SignInTypeOK, Act \/ acts' = acts
  PROVE  acts' \in 0..MaxActs
BY SignInAssumption DEF SignInTypeOK, Act

LEMMA InitSignIn == SignInInit => SignInInv
<1> SUFFICES ASSUME SignInInit PROVE SignInInv
  OBVIOUS
<1>1. SignInTypeOK
  <2>1. /\ flow \in Flows /\ flow.session = 0
        /\ removing \in [Attempts -> Flows]
        /\ \A a \in Attempts : removing[a].kind = "none"
    BY NoFlowType DEF SignInInit
  <2>2. signedIn \in [Servers -> 0..MaxObjects]
    BY DEF SignInInit
  <2>3. 0 \in 0..MaxSessions /\ 0 \in 0..MaxActs
    BY SignInAssumption
  <2>4. requests \in [Requests -> [code : 0..MaxSessions,
                                   endpoint : Servers \cup {None}]]
    BY <2>3 DEF SignInInit, NoRequest
  <2>5. opened \in [1..MaxSessions -> [caller : Callers \cup {None},
                                       endpoint : Servers \cup {None}]]
    BY DEF SignInInit
  <2> QED
    BY <2>1, <2>2, <2>3, <2>4, <2>5 DEF SignInInit, SignInTypeOK
<1>2. FlowInv
  BY NoFlowType DEF SignInInit, FlowInv
<1>3. OpenedInv
  BY NoFlowType DEF SignInInit, OpenedInv
<1> QED
  BY <1>1, <1>2, <1>3 DEF SignInInit, SignInInv, NobodyIsForgotten

LEMMA BeginInv ==
  ASSUME SignInInv, NEW c \in Callers, Begin(c)
  PROVE  SignInInv'
<1>1. SignInTypeOK /\ FlowInv /\ OpenedInv /\ NobodyIsForgotten
  BY DEF SignInInv
<1>2. PICK f \in Flows :
        /\ ResetTo(f) /\ f.caller = c /\ f.session = 0
        /\ f.kind \in {"existing", "authentication"} => f.endpoint \in Servers
  <2>1. Chosen(DotCom, c) \in Flows
    BY ChosenType, SignInAssumption
  <2> QED
    BY <2>1, ChosenType, EntryFlowType, SignInAssumption DEF Begin
<1>3. /\ told' \in [Callers -> {"nothing", "success", "cancelled"}]
      /\ settled' \subseteq 1..MaxSessions /\ flow' = f
      /\ \A d \in begun : told'[d] # "nothing" \/ d \in overwritten
  BY <1>1, <1>2, ResetTells
<1>4. /\ UNCHANGED <<sessions, requests, removing, adding, signedIn, objects,
                     opened, overwritten>>
      /\ begun' = begun \cup {c} /\ acts' \in 0..MaxActs
  BY <1>1, ActsType DEF Begin
<1>5. SignInTypeOK'
  BY <1>1, <1>2, <1>3, <1>4 DEF SignInTypeOK
<1>6. FlowInv'
  BY <1>1, <1>2, <1>3, <1>4 DEF FlowInv
<1>7. OpenedInv'
  BY <1>1, <1>2, <1>3, <1>4, OpenedKept
<1> QED
  BY <1>1, <1>2, <1>3, <1>4, <1>5, <1>6, <1>7
  DEF SignInInv, NobodyIsForgotten

LEMMA DismissInv ==
  ASSUME SignInInv, Dismiss
  PROVE  SignInInv'
<1>1. SignInTypeOK /\ FlowInv /\ OpenedInv /\ NobodyIsForgotten
  BY DEF SignInInv
<1>2. /\ told' \in [Callers -> {"nothing", "success", "cancelled"}]
      /\ settled' \subseteq 1..MaxSessions /\ flow' = NoFlow
      /\ \A d \in begun : told'[d] # "nothing" \/ d \in overwritten
  BY <1>1, ResetTells DEF Dismiss
<1>3. UNCHANGED <<sessions, requests, removing, adding, signedIn, objects,
                  begun, opened, overwritten, acts>>
  BY DEF Dismiss
<1>4. SignInTypeOK'
  BY <1>1, <1>2, <1>3, NoFlowType DEF SignInTypeOK
<1>5. FlowInv'
  BY <1>1, <1>2, <1>3, NoFlowType DEF FlowInv
<1>6. OpenedInv'
  <2>1. flow'.session = 0
    BY <1>2, NoFlowType
  <2>2. UNCHANGED <<sessions, requests, opened>> /\ begun \subseteq begun'
    BY <1>3
  <2> QED
    BY <1>1, <2>1, <2>2, OpenedKept
<1> QED
  BY <1>1, <1>2, <1>3, <1>4, <1>5, <1>6
  DEF SignInInv, NobodyIsForgotten

LEMMA SetEndpointInv ==
  ASSUME SignInInv, NEW e \in Servers, SetEndpoint(e)
  PROVE  SignInInv'
<1>1. SignInTypeOK /\ FlowInv /\ OpenedInv /\ NobodyIsForgotten
  BY DEF SignInInv
<1>2. PICK c \in Callers : flow.caller = c /\ c \in begun
  <2>1. flow # NoFlow
    BY NoFlowType DEF SetEndpoint
  <2>2. flow.caller \in begun /\ begun \subseteq Callers
    BY <1>1, <2>1 DEF FlowInv, SignInTypeOK
  <2> QED
    BY <2>2
<1>3. PICK f \in Flows : /\ f = Chosen(e, c) /\ f.endpoint = e
                         /\ f.caller = c /\ f.session = 0
  BY ChosenType
<1>4. /\ told' \in [Callers -> {"nothing", "success", "cancelled"}]
      /\ settled' \subseteq 1..MaxSessions /\ flow' = f
      /\ \A d \in begun :
           told'[d] # "nothing" \/ f.caller = d \/ d \in overwritten
  <2>1. CASE ResetTo(f)
    BY <1>1, <2>1, ResetTells
  <2>2. CASE flow' = f /\ UNCHANGED <<told, settled>>
    BY <1>1, <1>2, <1>3, <2>2 DEF SignInTypeOK, NobodyIsForgotten
  <2> QED
    BY <1>2, <1>3, <2>1, <2>2 DEF SetEndpoint
<1>5. /\ UNCHANGED <<sessions, requests, removing, adding, signedIn, objects,
                     begun, opened, overwritten>>
      /\ acts' \in 0..MaxActs
  BY <1>1, ActsType DEF SetEndpoint
<1>6. SignInTypeOK'
  BY <1>1, <1>3, <1>4, <1>5 DEF SignInTypeOK
<1>7. FlowInv'
  BY <1>1, <1>2, <1>3, <1>4, <1>5 DEF FlowInv
<1>8. OpenedInv'
  BY <1>1, <1>3, <1>4, <1>5, OpenedKept
<1> QED
  BY <1>1, <1>4, <1>5, <1>6, <1>7, <1>8
  DEF SignInInv, NobodyIsForgotten

LEMMA AuthenticateInv ==
  ASSUME SignInInv, Authenticate
  PROVE  SignInInv'
<1>1. SignInTypeOK /\ FlowInv /\ OpenedInv /\ NobodyIsForgotten
  BY DEF SignInInv
<1>2. /\ UNCHANGED <<settled, requests, adding, signedIn, objects, begun, told,
                     overwritten>>
      /\ flow.kind \in {"authentication", "existing"} /\ acts' \in 0..MaxActs
  BY <1>1, ActsType DEF Authenticate
<1>3. /\ flow \in Flows /\ flow.endpoint \in Servers /\ flow.caller \in begun
      /\ flow.kind # "authentication" => flow.session = 0
  BY <1>1, <1>2, NoFlowType DEF SignInTypeOK, FlowInv
<1>4. ASSUME NEW a \in Attempts, flow.kind = "existing",
             removing' = [removing EXCEPT ![a] = flow],
             flow' = [flow EXCEPT !.loading = TRUE],
             UNCHANGED <<sessions, opened>>
      PROVE  SignInInv'
  <2>1. /\ flow' \in Flows /\ flow'.kind = "existing"
        /\ flow'.endpoint \in Servers /\ flow'.caller = flow.caller
        /\ flow'.session = 0
    BY <1>3, <1>4, LoadingType
  <2>2. /\ removing' \in [Attempts -> Flows]
        /\ \A b \in Attempts : removing'[b] \in {removing[b], flow}
    BY <1>1, <1>3, <1>4 DEF SignInTypeOK
  <2>3. SignInTypeOK'
    BY <1>1, <1>2, <1>4, <2>1, <2>2 DEF SignInTypeOK
  <2>4. FlowInv'
    BY <1>1, <1>2, <1>3, <1>4, <2>1, <2>2 DEF FlowInv
  <2>5. OpenedInv'
    BY <1>1, <1>2, <1>4, <2>1, OpenedKept
  <2> QED
    BY <1>1, <1>2, <2>1, <2>3, <2>4, <2>5 DEF SignInInv, NobodyIsForgotten
<1>5. CASE Open(flow) /\ UNCHANGED removing
  <2>1. /\ flow' \in Flows /\ flow'.kind = "authentication"
        /\ flow'.endpoint = flow.endpoint /\ flow'.caller = flow.caller
        /\ sessions' \in 0..MaxSessions
        /\ opened' \in [1..MaxSessions -> [caller : Callers \cup {None},
                                           endpoint : Servers \cup {None}]]
        /\ OpenedInv'
    BY <1>1, <1>2, <1>3, <1>5, OpenType
  <2>2. SignInTypeOK'
    BY <1>1, <1>2, <1>5, <2>1 DEF SignInTypeOK
  <2>3. FlowInv'
    BY <1>1, <1>2, <1>3, <1>5, <2>1 DEF FlowInv
  <2> QED
    BY <1>1, <1>2, <2>1, <2>2, <2>3 DEF SignInInv, NobodyIsForgotten
<1> QED
  BY <1>4, <1>5 DEF Authenticate

\* The flow that comes back is one of the same caller, or overwrites another.
LEMMA RemovedInv ==
  ASSUME SignInInv, NEW a \in Attempts, Removed(a)
  PROVE  SignInInv'
<1>1. SignInTypeOK /\ FlowInv /\ OpenedInv /\ NobodyIsForgotten
  BY DEF SignInInv
<1>2. /\ UNCHANGED <<settled, requests, adding, objects, begun, told, acts>>
      /\ removing' = [removing EXCEPT ![a] = NoFlow]
      /\ overwritten' = overwritten \cup
                          ({flow.caller} \ {removing[a].caller, None})
  BY DEF Removed
<1>3. /\ removing[a] \in Flows /\ removing[a].endpoint \in Servers
      /\ removing[a].caller \in begun
  BY <1>1 DEF SignInTypeOK, FlowInv, Removed
<1>4. /\ flow' \in Flows /\ flow'.kind = "authentication"
      /\ flow'.endpoint = removing[a].endpoint
      /\ flow'.caller = removing[a].caller
      /\ sessions' \in 0..MaxSessions
      /\ opened' \in [1..MaxSessions -> [caller : Callers \cup {None},
                                         endpoint : Servers \cup {None}]]
      /\ OpenedInv'
  BY <1>1, <1>2, <1>3, OpenType DEF Removed
<1>5. signedIn' \in [Servers -> 0..MaxObjects]
  <2>1. 0 \in 0..MaxObjects
    BY SignInAssumption
  <2> QED
    BY <1>1, <2>1 DEF SignInTypeOK, Removed
<1>6. /\ removing' \in [Attempts -> Flows]
      /\ \A b \in Attempts : removing'[b] \in {removing[b], NoFlow}
  BY <1>1, <1>2, NoFlowType DEF SignInTypeOK
<1>7. /\ overwritten' \subseteq Callers /\ overwritten \subseteq overwritten'
      /\ flow.caller \in Callers => \/ flow.caller = flow'.caller
                                    \/ flow.caller \in overwritten'
  BY <1>1, <1>2, <1>4, FlowType, SignInAssumption DEF SignInTypeOK
<1>8. SignInTypeOK'
  BY <1>1, <1>2, <1>4, <1>5, <1>6, <1>7, NoFlowType DEF SignInTypeOK
<1>9. FlowInv'
  BY <1>1, <1>2, <1>3, <1>4, <1>6 DEF FlowInv
<1>10. NobodyIsForgotten'
  BY <1>1, <1>2, <1>7 DEF NobodyIsForgotten, SignInTypeOK
<1> QED
  BY <1>4, <1>8, <1>9, <1>10 DEF SignInInv

LEMMA AnswerInv ==
  ASSUME SignInInv, NEW q \in Requests, NEW s \in 1..sessions, Answer(q, s)
  PROVE  SignInInv'
<1>1. SignInTypeOK /\ FlowInv /\ OpenedInv /\ NobodyIsForgotten
  BY DEF SignInInv
<1>2. /\ UNCHANGED <<flow, sessions, settled, removing, adding, signedIn,
                     objects, begun, told, opened, overwritten>>
      /\ acts' \in 0..MaxActs
  BY <1>1, ActsType DEF Answer
<1> DEFINE d == [code |-> s, endpoint |-> flow.endpoint]
<1>3. requests' = [requests EXCEPT ![q] = d]
  BY DEF Answer
<1>4. /\ s \in 0..MaxSessions /\ flow.session = s /\ flow.session # 0
      /\ flow.endpoint \in Servers
  <2>1. sessions \in 0..MaxSessions
    BY <1>1 DEF SignInTypeOK
  <2> QED
    BY <1>1, <2>1, SignInAssumption DEF FlowInv, Answer, IsAnswerTo
<1>5. /\ d \in [code : 0..MaxSessions, endpoint : Servers \cup {None}]
      /\ d.code = s /\ d.endpoint = flow.endpoint
  BY <1>4
<1> HIDE DEF d
<1>6. SignInTypeOK'
  BY <1>1, <1>2, <1>3, <1>5 DEF SignInTypeOK
<1>7. FlowInv'
  BY <1>1, <1>2 DEF FlowInv
<1>8. OpenedInv'
  BY <1>1, <1>2, <1>3, <1>4, <1>5 DEF SignInTypeOK, OpenedInv
<1> QED
  BY <1>1, <1>2, <1>6, <1>7, <1>8 DEF SignInInv, NobodyIsForgotten

LEMMA AnsweredInv ==
  ASSUME SignInInv, NEW q \in Requests, Answered(q)
  PROVE  SignInInv'
<1>1. SignInTypeOK /\ FlowInv /\ OpenedInv /\ NobodyIsForgotten
  BY DEF SignInInv
<1>2. /\ UNCHANGED <<sessions, removing, signedIn, objects, begun, opened,
                     overwritten, acts>>
      /\ requests[q] # NoRequest
      /\ requests' = [requests EXCEPT ![q] = NoRequest]
  BY DEF Answered
<1>3. /\ flow \in Flows /\ requests[q].endpoint \in Servers
  BY <1>1, <1>2 DEF SignInTypeOK, OpenedInv
<1>4. /\ requests' \in [Requests -> [code : 0..MaxSessions,
                                     endpoint : Servers \cup {None}]]
      /\ \A r \in Requests : requests'[r] \in {NoRequest, requests[r]}
  <2>1. NoRequest \in [code : 0..MaxSessions, endpoint : Servers \cup {None}]
    BY SignInAssumption DEF NoRequest
  <2> QED
    BY <1>1, <1>2, <2>1 DEF SignInTypeOK
<1>5. /\ flow'.session # 0 => /\ flow'.session = flow.session
                              /\ flow'.caller = flow.caller
                              /\ flow'.endpoint = flow.endpoint
      => OpenedInv'
  BY <1>1, <1>2, <1>4 DEF OpenedInv
<1>6. CASE UNCHANGED <<flow, settled, told, adding>>
  <2>1. SignInTypeOK' /\ FlowInv'
    BY <1>1, <1>2, <1>4, <1>6 DEF SignInTypeOK, FlowInv
  <2> QED
    BY <1>1, <1>2, <1>5, <1>6, <2>1 DEF SignInInv, NobodyIsForgotten
<1>7. CASE /\ flow.session \notin settled \cup {0}
           /\ settled' = settled \cup {flow.session}
           /\ \/ /\ flow' = [flow EXCEPT !.loading = FALSE]
                 /\ UNCHANGED <<told, adding>>
              \/ /\ flow' = Success(flow)
                 /\ told' = Told(flow.caller, "success")
                 /\ adding' = adding \cup {requests[q].endpoint}
  <2>1. /\ flow.kind = "authentication" /\ flow.caller \in begun
        /\ flow.endpoint \in Servers
    BY <1>1, <1>7, NoFlowType DEF SignInTypeOK, FlowInv
  <2>2. settled' \subseteq 1..MaxSessions
    <3>1. flow.session \in 0..MaxSessions /\ settled \subseteq 1..MaxSessions
      BY <1>1, <1>3, FlowType DEF SignInTypeOK
    <3>2. flow.session \in 1..MaxSessions
      BY <1>7, <3>1, SignInAssumption
    <3> QED
      BY <1>7, <3>1, <3>2
  <2>3. /\ flow' \in Flows /\ flow'.caller = flow.caller
        /\ flow'.kind \in {"authentication", "success"}
        /\ flow'.session # 0 => /\ flow'.kind = "authentication"
                                /\ flow'.session = flow.session
                                /\ flow'.endpoint = flow.endpoint
        /\ flow'.kind = "authentication" => flow'.endpoint \in Servers
    BY <1>3, <1>7, <2>1, LoadingType, SuccessType
  <2>4. /\ told' \in [Callers -> {"nothing", "success", "cancelled"}]
        /\ \A c \in Callers : told[c] # "nothing" => told'[c] # "nothing"
    BY <1>1, <1>7, ToldType DEF SignInTypeOK
  <2>5. adding' \subseteq Servers
    BY <1>1, <1>3, <1>7 DEF SignInTypeOK
  <2>6. SignInTypeOK'
    BY <1>1, <1>2, <1>4, <2>2, <2>3, <2>4, <2>5 DEF SignInTypeOK
  <2>7. FlowInv'
    BY <1>1, <1>2, <2>1, <2>3 DEF FlowInv
  <2>8. NobodyIsForgotten'
    BY <1>1, <1>2, <2>3, <2>4 DEF NobodyIsForgotten, SignInTypeOK
  <2> QED
    BY <1>5, <2>3, <2>6, <2>7, <2>8 DEF SignInInv
<1> QED
  BY <1>6, <1>7 DEF Answered

LEMMA NewObjectType ==
  ASSUME SignInTypeOK, NEW e \in Servers, NewObject(e)
  PROVE  /\ objects' \in [Servers -> 0..MaxObjects]
         /\ signedIn' \in [Servers -> 0..MaxObjects]
<1>1. objects[e] \in 0..MaxObjects /\ objects[e] < MaxObjects
  BY DEF SignInTypeOK, NewObject
<1>2. objects[e] + 1 \in 0..MaxObjects
  BY <1>1, SignInAssumption
<1> QED
  BY <1>2 DEF SignInTypeOK, NewObject

LEMMA AccountsInv ==
  ASSUME SignInInv, NEW e \in Servers,
         AccountAdded(e) \/ AccountRefreshed(e) \/ SignOut(e)
  PROVE  SignInInv'
<1>1. SignInTypeOK /\ FlowInv /\ OpenedInv /\ NobodyIsForgotten
  BY DEF SignInInv
<1>2. /\ UNCHANGED <<flow, sessions, settled, requests, removing, begun, told,
                     opened, overwritten>>
      /\ adding' \subseteq adding /\ acts' \in 0..MaxActs
  BY <1>1, ActsType DEF AccountAdded, AccountRefreshed, SignOut
<1>3. /\ objects' \in [Servers -> 0..MaxObjects]
      /\ signedIn' \in [Servers -> 0..MaxObjects]
  <2>1. CASE NewObject(e)
    BY <1>1, <2>1, NewObjectType
  <2>2. CASE UNCHANGED <<signedIn, objects>>
    BY <1>1, <2>2 DEF SignInTypeOK
  <2>3. CASE SignOut(e)
    <3>1. 0 \in 0..MaxObjects
      BY SignInAssumption
    <3> QED
      BY <1>1, <2>3, <3>1 DEF SignInTypeOK, SignOut
  <2> QED
    BY <2>1, <2>2, <2>3 DEF AccountAdded, AccountRefreshed
<1>4. SignInTypeOK' /\ FlowInv' /\ OpenedInv'
  BY <1>1, <1>2, <1>3, OpenedKept DEF SignInTypeOK, FlowInv
<1> QED
  BY <1>1, <1>2, <1>4 DEF SignInInv, NobodyIsForgotten

LEMMA StepSignIn == SignInInv /\ SignInNext => SignInInv'
BY BeginInv, DismissInv, SetEndpointInv, AuthenticateInv, RemovedInv,
   AnswerInv, AnsweredInv, AccountsInv DEF SignInNext

-----------------------------------------------------------------------------
\* The repositories of the accounts.

\* What a load has still to see, what its pages had, and what the account
\* lists meanwhile; an account that was not signed out has one load at a time.
LoadIsSound(l) ==
  LET e == load[l].endpoint IN
  /\ load[l].missing \cap load[l].had = {}
  /\ load[l].seen = load[l].missing \cup load[l].had
  /\ load[l].had \subseteq load[l].ever
  /\ hosted[e] \subseteq load[l].ever
  /\ e \notin outlived =>
       /\ signedIn[e] # 0 /\ entry[e].loading
       /\ entry[e].list = load[l].seen
       /\ \A m \in Loads : load[m].endpoint = e => m = l

LoadInv == \A l \in Loads : load[l].endpoint # None => LoadIsSound(l)

ApiInv ==
  ApiTypeOK /\ FlowInv /\ OpenedInv /\ NobodyIsForgotten
    /\ LoadInv /\ KeysAreAccounts

EndpointEntries ==
  [key : 0..MaxObjects, loading : BOOLEAN, list : SUBSET Repos]

LoadRecords ==
  [endpoint : Servers \cup {None}, account : 0..MaxObjects,
   missing : SUBSET Repos, seen : SUBSET Repos, had : SUBSET Repos,
   always : SUBSET Repos, ever : SUBSET Repos]

LEMMA ApiParts ==
  ASSUME ApiInv
  PROVE  /\ SignInInv /\ SignInTypeOK /\ None \notin Servers
         /\ signedIn \in [Servers -> 0..MaxObjects]
         /\ entry \in [Servers -> EndpointEntries]
         /\ load \in [Loads -> LoadRecords]
         /\ hosted \in [Servers -> SUBSET Repos] /\ outlived \subseteq Servers
         /\ LoadInv /\ KeysAreAccounts
BY SignInAssumption DEF ApiInv, ApiTypeOK, SignInInv, SignInTypeOK,
   EndpointEntries, LoadRecords

LEMMA ApiWhole ==
  ASSUME SignInInv', LoadInv', KeysAreAccounts',
         entry' \in [Servers -> EndpointEntries],
         load' \in [Loads -> LoadRecords],
         hosted' \in [Servers -> SUBSET Repos], outlived' \subseteq Servers
  PROVE  ApiInv'
BY DEF ApiInv, ApiTypeOK, SignInInv, EndpointEntries, LoadRecords

LEMMA NoEntryType ==
  /\ NoEntry \in EndpointEntries /\ NoEntry.loading = FALSE
  /\ NoEntry.key = 0 /\ NoEntry.list = {}
<1>1. 0 \in 0..MaxObjects
  BY SignInAssumption
<1> QED
  BY <1>1 DEF NoEntry, EndpointEntries

LEMMA NoLoadType ==
  NoLoad \in LoadRecords /\ NoLoad.endpoint = None
<1>1. 0 \in 0..MaxObjects
  BY SignInAssumption
<1> QED
  BY <1>1 DEF NoLoad, LoadRecords

LEMMA LoadType ==
  ASSUME ApiInv, NEW l \in Loads, load[l].endpoint # None
  PROVE  /\ load[l] \in LoadRecords /\ load[l].endpoint \in Servers
         /\ load[l].account \in 0..MaxObjects
         /\ load[l].missing \subseteq Repos /\ load[l].seen \subseteq Repos
         /\ load[l].had \subseteq Repos /\ load[l].always \subseteq Repos
         /\ load[l].ever \subseteq Repos
<1>1. load[l] \in LoadRecords
  BY ApiParts
<1> QED
  BY <1>1 DEF LoadRecords

\* What updateAccount leaves in the map.
LEMMA UpdatedEntry ==
  ASSUME ApiInv, NEW e \in Servers, NEW a \in 0..MaxObjects,
         NEW list \in SUBSET Repos, NEW b \in BOOLEAN,
         entry' = Updated(e, a, list, b)
  PROVE  /\ entry' \in [Servers -> EndpointEntries]
         /\ entry'[e].list = list /\ entry'[e].loading = b
         /\ entry'[e].key = IF entry[e] = NoEntry THEN a ELSE entry[e].key
         /\ \A f \in Servers \ {e} : entry'[f] = entry[f]
<1> DEFINE d == [key |-> KeyFor(e, a), list |-> list, loading |-> b]
<1>1. entry \in [Servers -> EndpointEntries] /\ entry[e].key \in 0..MaxObjects
  BY ApiParts DEF EndpointEntries
<1>2. KeyFor(e, a) \in 0..MaxObjects
  BY <1>1 DEF KeyFor
<1>3. /\ d \in EndpointEntries /\ d.list = list /\ d.loading = b
      /\ d.key = KeyFor(e, a)
  BY <1>2 DEF EndpointEntries
<1>4. entry' = [entry EXCEPT ![e] = d]
  BY DEF Updated
<1> HIDE DEF d
<1> QED
  BY <1>1, <1>3, <1>4 DEF KeyFor

LEMMA InitApi == ApiInit => ApiInv
<1> SUFFICES ASSUME ApiInit PROVE ApiInv
  OBVIOUS
<1>1. SignInInv
  BY InitSignIn DEF ApiInit
<1>2. /\ entry \in [Servers -> EndpointEntries]
      /\ load \in [Loads -> LoadRecords]
  BY NoEntryType, NoLoadType DEF ApiInit
<1>3. LoadInv
  BY NoLoadType DEF ApiInit, LoadInv
<1>4. KeysAreAccounts
  BY DEF ApiInit, KeysAreAccounts
<1> QED
  BY <1>1, <1>2, <1>3, <1>4
  DEF ApiInv, ApiInit, ApiTypeOK, SignInInv, EndpointEntries, LoadRecords

\* Whatever changes the accounts: a load whose account goes is outlived.
LEMMA SignInStepInv ==
  ASSUME ApiInv, SignInNext, AccountsChanged, UNCHANGED <<load, hosted>>
  PROVE  ApiInv'
<1>1. /\ SignInInv /\ LoadInv /\ KeysAreAccounts /\ None \notin Servers
      /\ entry \in [Servers -> EndpointEntries]
      /\ load \in [Loads -> LoadRecords]
      /\ hosted \in [Servers -> SUBSET Repos] /\ outlived \subseteq Servers
  BY ApiParts
<1>2. SignInInv' /\ signedIn' \in [Servers -> 0..MaxObjects]
  BY <1>1, StepSignIn DEF SignInInv, SignInTypeOK
<1>3. ASSUME NEW e \in Servers
      PROVE  /\ entry'[e] \in EndpointEntries
             /\ \/ entry'[e] = entry[e] /\ signedIn'[e] = signedIn[e]
                \/ entry'[e] = NoEntry
                     /\ (signedIn'[e] = 0 \/ entry[e] = NoEntry)
                \/ /\ entry'[e].key = signedIn'[e]
                   /\ entry'[e].loading = entry[e].loading
                   /\ entry'[e].list = entry[e].list
  <2>1. CASE signedIn' = signedIn
    BY <1>1, <2>1 DEF AccountsChanged
  <2>2. CASE signedIn' # signedIn
    <3>1. entry'[e] = Merged(entry[e], signedIn'[e])
      BY <2>2 DEF AccountsChanged
    <3>2. signedIn'[e] \in 0..MaxObjects /\ entry[e] \in EndpointEntries
      BY <1>1, <1>2
    <3> QED
      BY <3>1, <3>2, NoEntryType DEF Merged, EndpointEntries
  <2> QED
    BY <2>1, <2>2
<1>4. entry' \in [Servers -> EndpointEntries]
  <2>1. CASE entry' = entry
    BY <1>1, <2>1
  <2>2. CASE entry' = [e \in Servers |-> Merged(entry[e], signedIn'[e])]
    BY <1>3, <2>2
  <2> QED
    BY <2>1, <2>2 DEF AccountsChanged
<1>5. /\ outlived' \subseteq Servers /\ outlived \subseteq outlived'
      /\ \A e \in Servers : Loading(e) /\ signedIn[e] # 0 /\ e \notin outlived'
                              => signedIn'[e] # 0
  BY <1>1 DEF AccountsChanged
<1>6. KeysAreAccounts'
  BY <1>1, <1>3, <1>5 DEF KeysAreAccounts
<1>7. LoadInv'
  <2> SUFFICES ASSUME NEW l \in Loads, load[l].endpoint # None,
                      load[l].endpoint \notin outlived'
               PROVE  (LET e == load[l].endpoint IN
                         /\ signedIn[e] # 0 /\ entry[e].loading
                         /\ entry[e].list = load[l].seen)'
    BY <1>1, <1>5 DEF LoadInv, LoadIsSound
  <2>1. PICK e \in Servers : load[l].endpoint = e
    BY LoadType
  <2>2. /\ e \notin outlived /\ signedIn[e] # 0 /\ entry[e].loading
        /\ entry[e].list = load[l].seen
    BY <1>1, <1>5, <2>1 DEF LoadInv, LoadIsSound
  <2>3. signedIn'[e] # 0
    BY <1>5, <2>1, <2>2 DEF Loading
  <2>4. entry[e] # NoEntry
    BY <2>2, NoEntryType
  <2> QED
    BY <1>3, <2>1, <2>2, <2>3, <2>4
<1> QED
  BY <1>1, <1>2, <1>4, <1>5, <1>6, <1>7, ApiWhole

LEMMA BeginLoadInv ==
  ASSUME ApiInv, NEW l \in Loads, NEW e \in Servers, BeginLoad(l, e)
  PROVE  ApiInv'
<1>1. /\ SignInInv /\ LoadInv /\ KeysAreAccounts /\ None \notin Servers
      /\ signedIn \in [Servers -> 0..MaxObjects]
      /\ entry \in [Servers -> EndpointEntries]
      /\ load \in [Loads -> LoadRecords]
      /\ hosted \in [Servers -> SUBSET Repos] /\ outlived \subseteq Servers
  BY ApiParts
<1> DEFINE d == [endpoint |-> e, account |-> signedIn[e],
                 missing |-> entry[e].list, seen |-> entry[e].list,
                 had |-> {}, always |-> hosted[e], ever |-> hosted[e]]
<1>2. /\ load[l] = NoLoad /\ signedIn[e] # 0 /\ ~entry[e].loading
      /\ entry' = Updated(e, signedIn[e], entry[e].list, TRUE)
      /\ load' = [load EXCEPT ![l] = d]
      /\ UNCHANGED <<signInVars, hosted, outlived>>
  BY DEF BeginLoad
<1>3. /\ signedIn[e] \in 0..MaxObjects /\ entry[e].list \in SUBSET Repos
      /\ hosted[e] \in SUBSET Repos
  BY <1>1 DEF EndpointEntries
<1>4. /\ d \in LoadRecords /\ d.endpoint = e /\ d.missing = entry[e].list
      /\ d.seen = entry[e].list /\ d.had = {} /\ d.ever = hosted[e]
  BY <1>3 DEF LoadRecords
<1> HIDE DEF d
<1>5. /\ load' \in [Loads -> LoadRecords] /\ load'[l] = d
      /\ \A m \in Loads \ {l} : load'[m] = load[m]
  BY <1>1, <1>2, <1>4
<1>6. /\ entry' \in [Servers -> EndpointEntries]
      /\ entry'[e].list = entry[e].list /\ entry'[e].loading
      /\ entry'[e].key = IF entry[e] = NoEntry THEN signedIn[e]
                                               ELSE entry[e].key
      /\ \A f \in Servers \ {e} : entry'[f] = entry[f]
  BY <1>2, <1>3, UpdatedEntry
<1>7. SignInInv'
  <2>1. acts' \in 0..MaxActs
    BY <1>1, ActsType DEF BeginLoad, SignInInv
  <2> QED
    BY <1>1, <1>2, <2>1 DEF SignInInv, SignInTypeOK, FlowInv, OpenedInv,
       NobodyIsForgotten, signInVars
<1>8. KeysAreAccounts'
  BY <1>1, <1>2, <1>6 DEF KeysAreAccounts, signInVars
<1>9. \A m \in Loads : load[m].endpoint = e => e \in outlived
  BY <1>1, <1>2 DEF LoadInv, LoadIsSound
<1>10. LoadInv'
  <2> SUFFICES ASSUME NEW m \in Loads, load'[m].endpoint # None
               PROVE  LoadIsSound(m)'
    BY DEF LoadInv
  <2>1. CASE m = l
    BY <1>2, <1>4, <1>5, <1>6, <1>9, <2>1 DEF signInVars, LoadIsSound
  <2>2. CASE m # l
    <3>1. /\ load'[m] = load[m] /\ load[m].endpoint # None
          /\ load[m].endpoint = e => e \in outlived
      BY <1>5, <1>9, <2>2
    <3>2. PICK f \in Servers : load[m].endpoint = f
      BY <3>1, LoadType
    <3>3. f \notin outlived => f # e /\ entry'[f] = entry[f]
      BY <1>6, <3>1, <3>2
    <3>4. \A n \in Loads : load'[n].endpoint = f =>
                               n = l \/ load[n].endpoint = f
      BY <1>5
    <3>5. /\ load[m].missing \cap load[m].had = {}
          /\ load[m].seen = load[m].missing \cup load[m].had
          /\ load[m].had \subseteq load[m].ever
          /\ hosted[f] \subseteq load[m].ever
          /\ f \notin outlived =>
               /\ signedIn[f] # 0 /\ entry[f].loading
               /\ entry[f].list = load[m].seen
               /\ \A n \in Loads : load[n].endpoint = f => n = m
      BY <1>1, <3>1, <3>2 DEF LoadInv, LoadIsSound
    <3> QED
      BY <1>2, <1>4, <1>5, <3>1, <3>2, <3>3, <3>4, <3>5
      DEF signInVars, LoadIsSound
  <2> QED
    BY <2>1, <2>2
<1> QED
  BY <1>1, <1>2, <1>5, <1>6, <1>7, <1>8, <1>10, ApiWhole

\* A load that changes its own record and the entry of its server leaves the
\* others as they were.
LEMMA OthersKept ==
  ASSUME ApiInv, NEW l \in Loads, NEW e \in Servers, load[l].endpoint = e,
         \A m \in Loads \ {l} : load'[m] = load[m],
         load'[l].endpoint \in {e, None},
         \A f \in Servers \ {e} : entry'[f] = entry[f],
         UNCHANGED <<signedIn, hosted, outlived>>,
         NEW m \in Loads, m # l, load'[m].endpoint # None
  PROVE  LoadIsSound(m)'
<1>1. LoadInv /\ None \notin Servers
  BY ApiParts
<1>2. load'[m] = load[m] /\ load[m].endpoint # None
  OBVIOUS
<1>3. PICK f \in Servers : load[m].endpoint = f
  BY <1>2, LoadType
<1>4. /\ load[m].missing \cap load[m].had = {}
      /\ load[m].seen = load[m].missing \cup load[m].had
      /\ load[m].had \subseteq load[m].ever
      /\ hosted[f] \subseteq load[m].ever
      /\ f \notin outlived =>
           /\ signedIn[f] # 0 /\ entry[f].loading
           /\ entry[f].list = load[m].seen
           /\ \A n \in Loads : load[n].endpoint = f => n = m
  BY <1>1, <1>2, <1>3 DEF LoadInv, LoadIsSound
<1>5. f \notin outlived => f # e /\ entry'[f] = entry[f]
  BY <1>4
<1>6. \A n \in Loads : load'[n].endpoint = f =>
        load[n].endpoint = f \/ (n = l /\ f = e)
  BY <1>1
<1> QED
  BY <1>2, <1>3, <1>4, <1>5, <1>6 DEF LoadIsSound

\* A step of a load itself does not touch the accounts.
LEMMA SignInKept ==
  ASSUME SignInInv, UNCHANGED signInVars, Act \/ acts' = acts
  PROVE  SignInInv'
<1>1. acts' \in 0..MaxActs
  BY ActsType DEF SignInInv
<1> QED
  BY <1>1 DEF SignInInv, SignInTypeOK, FlowInv, OpenedInv,
     NobodyIsForgotten, signInVars

LEMMA PageInv ==
  ASSUME ApiInv, NEW l \in Loads, NEW r \in Repos, Page(l, r)
  PROVE  ApiInv'
<1>1. /\ SignInInv /\ LoadInv /\ KeysAreAccounts /\ None \notin Servers
      /\ entry \in [Servers -> EndpointEntries]
      /\ load \in [Loads -> LoadRecords]
      /\ hosted \in [Servers -> SUBSET Repos] /\ outlived \subseteq Servers
  BY ApiParts
<1>2. load[l].endpoint # None
  BY DEF Page
<1>3. PICK e \in Servers : load[l].endpoint = e
  BY <1>2, LoadType
<1> DEFINE seen == load[l].seen \cup {r}
           d == [load[l] EXCEPT !.seen = seen, !.had = @ \cup {r},
                                !.missing = load[l].missing \ {r}]
<1>4. /\ r \in hosted[e]
      /\ load' = [load EXCEPT ![l] = d]
      /\ entry' = Updated(e, load[l].account, seen, entry[e].loading)
      /\ UNCHANGED <<signInVars, acts, hosted, outlived>>
  BY <1>1, <1>3 DEF Page, MissingAfter
<1>5. /\ load[l] \in LoadRecords /\ load[l].account \in 0..MaxObjects
      /\ load[l].missing \subseteq Repos /\ load[l].had \subseteq Repos
      /\ seen \in SUBSET Repos /\ entry[e].loading \in BOOLEAN
  BY <1>1, <1>2, LoadType DEF EndpointEntries
<1>6. /\ d \in LoadRecords /\ d.endpoint = e /\ d.seen = seen
      /\ d.missing = load[l].missing \ {r} /\ d.had = load[l].had \cup {r}
      /\ d.ever = load[l].ever
  BY <1>3, <1>5 DEF LoadRecords
<1> HIDE DEF d
<1>7. /\ load' \in [Loads -> LoadRecords] /\ load'[l] = d
      /\ \A m \in Loads \ {l} : load'[m] = load[m]
  BY <1>1, <1>4, <1>6
<1>8. /\ entry' \in [Servers -> EndpointEntries]
      /\ entry'[e].list = seen /\ entry'[e].loading = entry[e].loading
      /\ entry'[e].key = IF entry[e] = NoEntry THEN load[l].account
                                               ELSE entry[e].key
      /\ \A f \in Servers \ {e} : entry'[f] = entry[f]
  BY <1>4, <1>5, UpdatedEntry
<1>9. /\ load[l].missing \cap load[l].had = {}
      /\ load[l].seen = load[l].missing \cup load[l].had
      /\ load[l].had \subseteq load[l].ever
      /\ hosted[e] \subseteq load[l].ever
      /\ e \notin outlived =>
           /\ signedIn[e] # 0 /\ entry[e].loading
           /\ \A m \in Loads : load[m].endpoint = e => m = l
  BY <1>1, <1>2, <1>3 DEF LoadInv, LoadIsSound
<1>10. SignInInv' /\ signedIn' = signedIn
  BY <1>1, <1>4, SignInKept DEF signInVars
<1>11. KeysAreAccounts'
  BY <1>1, <1>4, <1>8, <1>9, <1>10, NoEntryType DEF KeysAreAccounts
<1>12. LoadInv'
  <2> SUFFICES ASSUME NEW m \in Loads, load'[m].endpoint # None
               PROVE  LoadIsSound(m)'
    BY DEF LoadInv
  <2>1. CASE m = l
    <3>1. \A n \in Loads : load'[n].endpoint = e => load[n].endpoint = e
      BY <1>3, <1>7
    <3>2. d.missing \cap d.had = {} /\ d.seen = d.missing \cup d.had
      BY <1>6, <1>9
    <3>3. d.had \subseteq d.ever /\ hosted'[e] \subseteq d.ever
      BY <1>4, <1>6, <1>9
    <3>4. e \notin outlived' =>
            /\ signedIn'[e] # 0 /\ entry'[e].loading
            /\ entry'[e].list = d.seen
            /\ \A n \in Loads : load'[n].endpoint = e => n = l
      BY <1>4, <1>6, <1>8, <1>9, <1>10, <3>1
    <3>5. load'[l] = d /\ d.endpoint = e
      BY <1>6, <1>7
    <3> QED
      BY <2>1, <3>2, <3>3, <3>4, <3>5 DEF LoadIsSound
  <2>2. CASE m # l
    <3>1. /\ load'[l].endpoint \in {e, None}
          /\ UNCHANGED <<signedIn, hosted, outlived>>
      BY <1>4, <1>6, <1>7, <1>10
    <3>2. /\ \A n \in Loads \ {l} : load'[n] = load[n]
          /\ \A f \in Servers \ {e} : entry'[f] = entry[f]
      BY <1>7, <1>8
    <3> QED
      BY <1>3, <2>2, <3>1, <3>2, OthersKept
  <2> QED
    BY <2>1, <2>2
<1> QED
  BY <1>1, <1>4, <1>7, <1>8, <1>10, <1>11, <1>12, ApiWhole

\* What a load of an account that is still there ends with: what its pages had.
LEMMA EndsWithPages ==
  ASSUME ApiInv, NEW l \in Loads, EndLoad(l),
         load[l].endpoint \notin outlived
  PROVE  entry'[load[l].endpoint].list = load[l].had
<1>1. LoadInv /\ entry \in [Servers -> EndpointEntries]
  BY ApiParts
<1>2. load[l].endpoint # None
  BY DEF EndLoad
<1>3. PICK e \in Servers : load[l].endpoint = e
  BY <1>2, LoadType
<1>4. /\ load[l].missing \cap load[l].had = {}
      /\ load[l].seen = load[l].missing \cup load[l].had
      /\ entry[e].list = load[l].seen
  BY <1>1, <1>2, <1>3 DEF LoadInv, LoadIsSound
<1>5. entry'[e].list = IF load[l].missing = {} THEN entry[e].list
                       ELSE load[l].seen \ load[l].missing
  BY <1>1, <1>3 DEF EndLoad, Updated
<1> QED
  BY <1>3, <1>4, <1>5

LEMMA EndLoadInv ==
  ASSUME ApiInv, NEW l \in Loads, EndLoad(l)
  PROVE  ApiInv'
<1>1. /\ SignInInv /\ LoadInv /\ KeysAreAccounts /\ None \notin Servers
      /\ entry \in [Servers -> EndpointEntries]
      /\ load \in [Loads -> LoadRecords]
      /\ hosted \in [Servers -> SUBSET Repos] /\ outlived \subseteq Servers
  BY ApiParts
<1>2. load[l].endpoint # None
  BY DEF EndLoad
<1>3. PICK e \in Servers : load[l].endpoint = e
  BY <1>2, LoadType
<1>4. PICK list \in SUBSET Repos :
        entry' = Updated(e, load[l].account, list, FALSE)
  <2>1. entry[e].list \subseteq Repos /\ load[l].seen \subseteq Repos
    BY <1>1, <1>2, LoadType DEF EndpointEntries
  <2> QED
    BY <1>3, <2>1 DEF EndLoad
<1>5. /\ load' = [load EXCEPT ![l] = NoLoad]
      /\ UNCHANGED <<signInVars, acts, hosted, outlived>>
      /\ load[l].account \in 0..MaxObjects
  BY <1>2, LoadType DEF EndLoad
<1>6. /\ load' \in [Loads -> LoadRecords] /\ load'[l].endpoint = None
      /\ \A m \in Loads \ {l} : load'[m] = load[m]
  BY <1>1, <1>5, NoLoadType
<1>7. /\ entry' \in [Servers -> EndpointEntries]
      /\ entry'[e].key = IF entry[e] = NoEntry THEN load[l].account
                                               ELSE entry[e].key
      /\ \A f \in Servers \ {e} : entry'[f] = entry[f]
  BY <1>4, <1>5, UpdatedEntry
<1>8. SignInInv' /\ signedIn' = signedIn
  BY <1>1, <1>5, SignInKept DEF signInVars
<1>9. KeysAreAccounts'
  <2>1. e \notin outlived => entry[e].loading
    BY <1>1, <1>2, <1>3 DEF LoadInv, LoadIsSound
  <2> QED
    BY <1>1, <1>5, <1>7, <1>8, <2>1, NoEntryType DEF KeysAreAccounts
<1>10. LoadInv'
  <2> SUFFICES ASSUME NEW m \in Loads, load'[m].endpoint # None
               PROVE  LoadIsSound(m)'
    BY DEF LoadInv
  <2>1. m # l
    BY <1>6
  <2> QED
    <3>1. /\ load'[l].endpoint \in {e, None}
          /\ UNCHANGED <<signedIn, hosted, outlived>>
      BY <1>5, <1>6, <1>8
    <3>2. /\ \A n \in Loads \ {l} : load'[n] = load[n]
          /\ \A f \in Servers \ {e} : entry'[f] = entry[f]
      BY <1>6, <1>7
    <3> QED
      BY <1>3, <2>1, <3>1, <3>2, OthersKept
<1> QED
  BY <1>1, <1>5, <1>6, <1>7, <1>8, <1>9, <1>10, ApiWhole

LEMMA HostInv ==
  ASSUME ApiInv, NEW e \in Servers, NEW r \in Repos, Host(e, r)
  PROVE  ApiInv'
<1>1. /\ SignInInv /\ LoadInv /\ KeysAreAccounts /\ None \notin Servers
      /\ entry \in [Servers -> EndpointEntries]
      /\ load \in [Loads -> LoadRecords]
      /\ hosted \in [Servers -> SUBSET Repos] /\ outlived \subseteq Servers
  BY ApiParts
<1>2. UNCHANGED <<signInVars, entry, outlived>>
  BY DEF Host
<1>3. /\ hosted' \in [Servers -> SUBSET Repos]
      /\ \A f \in Servers \ {e} : hosted'[f] = hosted[f]
  <2>1. hosted[e] \subseteq Repos
    BY <1>1
  <2> QED
    BY <1>1, <2>1 DEF Host
<1>4. ASSUME NEW l \in Loads
      PROVE  /\ load'[l] \in LoadRecords
             /\ load'[l].endpoint = load[l].endpoint
             /\ load'[l].missing = load[l].missing
             /\ load'[l].seen = load[l].seen /\ load'[l].had = load[l].had
             /\ load[l].ever \subseteq load'[l].ever
             /\ load[l].endpoint = e => hosted'[e] \subseteq load'[l].ever
  <2>1. load[l] \in LoadRecords /\ hosted'[e] \subseteq Repos
    BY <1>1, <1>3
  <2>2. CASE load[l].endpoint # e
    BY <2>1, <2>2 DEF Host
  <2>3. CASE load[l].endpoint = e
    <3>1. load'[l] = [load[l] EXCEPT !.always = @ \cap hosted'[e],
                                     !.ever = @ \cup hosted'[e]]
      BY <2>3 DEF Host
    <3> QED
      BY <2>1, <3>1 DEF LoadRecords
  <2> QED
    BY <2>2, <2>3
<1>5. load' \in [Loads -> LoadRecords]
  <2>1. load' = [l \in Loads |-> load'[l]]
    BY DEF Host
  <2> QED
    BY <1>4, <2>1
<1>6. SignInInv' /\ signedIn' = signedIn
  BY <1>1, <1>2, SignInKept DEF Host, signInVars
<1>7. KeysAreAccounts'
  BY <1>1, <1>2, <1>6 DEF KeysAreAccounts
<1>8. LoadInv'
  <2> SUFFICES ASSUME NEW m \in Loads, load'[m].endpoint # None
               PROVE  LoadIsSound(m)'
    BY DEF LoadInv
  <2>1. PICK f \in Servers : load[m].endpoint = f /\ load'[m].endpoint = f
    BY <1>4, LoadType
  <2>2. /\ load[m].missing \cap load[m].had = {}
        /\ load[m].seen = load[m].missing \cup load[m].had
        /\ load[m].had \subseteq load[m].ever
        /\ hosted[f] \subseteq load[m].ever
        /\ f \notin outlived =>
             /\ signedIn[f] # 0 /\ entry[f].loading
             /\ entry[f].list = load[m].seen
             /\ \A n \in Loads : load[n].endpoint = f => n = m
    BY <1>1, <2>1 DEF LoadInv, LoadIsSound
  <2>3. /\ load'[m].had \subseteq load'[m].ever
        /\ hosted'[f] \subseteq load'[m].ever
    BY <1>3, <1>4, <2>1, <2>2
  <2>4. f \notin outlived' =>
          /\ signedIn'[f] # 0 /\ entry'[f].loading
          /\ entry'[f].list = load'[m].seen
          /\ \A n \in Loads : load'[n].endpoint = f => n = m
    BY <1>2, <1>4, <1>6, <2>2
  <2>5. /\ load'[m].missing \cap load'[m].had = {}
        /\ load'[m].seen = load'[m].missing \cup load'[m].had
    BY <1>4, <2>2
  <2> QED
    BY <2>1, <2>3, <2>4, <2>5 DEF LoadIsSound
<1> QED
  BY <1>1, <1>2, <1>3, <1>5, <1>6, <1>7, <1>8, ApiWhole

LEMMA StutterApi ==
  ASSUME ApiInv, UNCHANGED apiVars
  PROVE  ApiInv'
<1>1. /\ SignInInv /\ LoadInv /\ KeysAreAccounts
      /\ entry \in [Servers -> EndpointEntries]
      /\ load \in [Loads -> LoadRecords]
      /\ hosted \in [Servers -> SUBSET Repos] /\ outlived \subseteq Servers
  BY ApiParts
<1>2. UNCHANGED <<signInVars, acts, entry, load, hosted, outlived>>
  BY DEF apiVars, repositoryVars
<1>3. SignInInv' /\ signedIn' = signedIn
  BY <1>1, <1>2, SignInKept DEF signInVars
<1>4. LoadInv' /\ KeysAreAccounts'
  BY <1>1, <1>2, <1>3 DEF LoadInv, LoadIsSound, KeysAreAccounts
<1> QED
  BY <1>1, <1>2, <1>3, <1>4, ApiWhole

LEMMA NextApi == ApiInv /\ [ApiNext]_apiVars => ApiInv'
BY SignInStepInv, BeginLoadInv, PageInv, EndLoadInv, HostInv, StutterApi
DEF ApiNext

\* The flow, its requests, the accounts and the loads have their types: a flow
\* has a session only while it authenticates, and only an account that is
\* there is signed out first (sign-in-store.ts, api-repositories-store.ts).
THEOREM SignInTypes == ApiSpec => []ApiTypeOK
<1>1. ApiInv => ApiTypeOK
  BY DEF ApiInv
<1> QED
  BY <1>1, InitApi, NextApi, PTL DEF ApiSpec

\* A step in which a request ends is the answer to it, or does not succeed.
LEMMA StepSucceeds ==
  ASSUME ApiInv, [ApiNext]_apiVars, NEW q \in Requests, Succeeds(q)
  PROVE  Answered(q)
<1>1. SignInTypeOK /\ NoRequest.code = 0
  BY ApiParts DEF NoRequest
<1>2. requests'[q] = NoRequest /\ requests[q] # NoRequest
  BY DEF Succeeds
<1>3. requests' # requests
  BY <1>2
<1>4. ASSUME NEW r \in Requests, Answered(r) PROVE Answered(q)
  <2>1. requests' = [requests EXCEPT ![r] = NoRequest]
    BY <1>4 DEF Answered
  <2>2. q = r
    BY <1>1, <1>2, <2>1 DEF SignInTypeOK
  <2> QED
    BY <1>4, <2>2
<1>5. ASSUME NEW r \in Requests, NEW s \in 1..sessions, Answer(r, s)
      PROVE  FALSE
  <2> DEFINE d == [code |-> s, endpoint |-> flow.endpoint]
  <2>1. d.code = s /\ s # 0
    BY <1>1 DEF SignInTypeOK
  <2>2. requests' = [requests EXCEPT ![r] = d]
    BY <1>5 DEF Answer
  <2> HIDE DEF d
  <2> QED
    BY <1>1, <1>2, <2>1, <2>2 DEF SignInTypeOK
<1>6. SignInNext
  BY <1>3 DEF ApiNext, BeginLoad, Page, EndLoad, Host, signInVars, apiVars
<1>7. \/ \E r \in Requests : Answered(r) \/ \E s \in 1..sessions : Answer(r, s)
      \/ UNCHANGED requests
  BY <1>6 DEF SignInNext, Begin, Dismiss, SetEndpoint, AccountAdded,
     AccountRefreshed, SignOut, Authenticate, Removed
<1> QED
  BY <1>3, <1>4, <1>5, <1>7

\* However flows and answers overlap, whoever is told of an account had the
\* browser opened for the flow that is told, the account is of the server that
\* the browser had been sent to, and another caller whose code it was has been
\* told, or has lost its flow.
THEOREM SuccessIsOwn == ApiSpec => SuccessIsOfSession
<1> DEFINE Sound(q) ==
      LET own == opened[requests[q].code] IN
      /\ opened[flow.session].caller = flow'.caller
      /\ adding' \subseteq adding \cup {own.endpoint}
      /\ \/ own.caller \in overwritten \cup {flow'.caller}
         \/ told[own.caller] # "nothing"
<1>1. ASSUME ApiInv, [ApiNext]_apiVars, NEW q \in Requests, Succeeds(q)
      PROVE  Sound(q)
  <2>1. SignInTypeOK /\ FlowInv /\ OpenedInv /\ NobodyIsForgotten
    BY <1>1, ApiParts DEF SignInInv
  <2>2. Answered(q)
    BY <1>1, StepSucceeds
  <2>3. /\ requests[q].code \in 1..sessions
        /\ opened[requests[q].code].endpoint = requests[q].endpoint
        /\ opened[requests[q].code].caller \in begun
    BY <2>1, <2>2 DEF OpenedInv, Answered
  <2>4. /\ flow.session # 0 /\ flow' = Success(flow)
        /\ adding' = adding \cup {requests[q].endpoint}
    <3>1. flow' # flow /\ flow' # [flow EXCEPT !.loading = FALSE]
      BY <1>1, <2>1, LoadingType DEF Succeeds, SignInTypeOK
    <3> QED
      BY <2>2, <3>1 DEF Answered
  <2>5. flow'.caller = flow.caller /\ opened[flow.session].caller = flow.caller
    BY <2>1, <2>4, SuccessType DEF OpenedInv, SignInTypeOK
  <2> QED
    BY <2>1, <2>3, <2>4, <2>5 DEF NobodyIsForgotten
<1>2. ASSUME ApiInv, [ApiNext]_apiVars
      PROVE  [\A q \in Requests : Succeeds(q) => Sound(q)]_signInVars
  BY <1>1, <1>2
<1> QED
  BY <1>2, InitApi, NextApi, PTL DEF ApiSpec, SuccessIsOfSession

\* Whoever began to sign in hears how it ended, however flows replace each
\* other, unless its flow was overwritten by one that came back.
THEOREM EveryoneHears == ApiSpec => []NobodyIsForgotten
<1>1. ApiInv => NobodyIsForgotten
  BY DEF ApiInv
<1> QED
  BY <1>1, InitApi, NextApi, PTL DEF ApiSpec

\* The map of ApiRepositoriesStore is keyed by the account objects that
\* AccountsStore has, however accounts are refreshed while their repositories
\* load, unless one was signed out during a load.
THEOREM KeysFollow == ApiSpec => []KeysAreAccounts
<1>1. ApiInv => KeysAreAccounts
  BY DEF ApiInv
<1> QED
  BY <1>1, InitApi, NextApi, PTL DEF ApiSpec

\* A load whose record goes away in a step has ended in it.
LEMMA StepList ==
  ASSUME ApiInv, [ApiNext]_apiVars, NEW l \in Loads,
         load[l].endpoint # None, load'[l] = NoLoad,
         load[l].endpoint \notin outlived
  PROVE  /\ entry'[load[l].endpoint].list = load[l].had
         /\ load[l].had \subseteq load[l].ever
<1>1. LoadInv /\ load \in [Loads -> LoadRecords]
  BY ApiParts
<1>2. load'[l].endpoint = None
  BY NoLoadType
<1>3. load' # load
  BY <1>2
<1>4. ASSUME NEW m \in Loads, NEW e \in Servers, BeginLoad(m, e) PROVE FALSE
  <2>1. m # l
    BY <1>4, NoLoadType DEF BeginLoad
  <2> QED
    BY <1>1, <1>2, <1>4, <2>1 DEF BeginLoad
<1>5. ASSUME NEW m \in Loads, NEW r \in Repos, Page(m, r) PROVE FALSE
  BY <1>1, <1>2, <1>5 DEF Page, LoadRecords
<1>6. ASSUME NEW e \in Servers, NEW r \in Repos, Host(e, r) PROVE FALSE
  <2>1. load'[l].endpoint = load[l].endpoint
    BY <1>1, <1>6 DEF Host, LoadRecords
  <2> QED
    BY <1>2, <2>1
<1>7. ASSUME NEW m \in Loads, EndLoad(m) PROVE m = l
  BY <1>1, <1>2, <1>7 DEF EndLoad
<1>8. EndLoad(l)
  BY <1>3, <1>4, <1>5, <1>6, <1>7 DEF ApiNext, apiVars, repositoryVars
<1>9. load[l].had \subseteq load[l].ever
  BY <1>1 DEF LoadInv, LoadIsSound
<1> QED
  BY <1>8, <1>9, EndsWithPages

\* A load that had a page for every repository that was there all the time
\* ends with those and nothing that never was there: what is gone from the
\* server is gone from the list, unless the account was signed out meanwhile.
THEOREM ListsFollowServer == ApiSpec => ListIsOfServer
<1>1. ASSUME ApiInv, [ApiNext]_apiVars
      PROVE  \A l \in Loads :
               LET e == load[l].endpoint IN
               /\ e # None /\ load'[l] = NoLoad /\ e \notin outlived
               /\ load[l].always \subseteq load[l].had
               => /\ load[l].always \subseteq entry'[e].list
                  /\ entry'[e].list \subseteq load[l].ever
  BY <1>1, StepList
<1> QED
  BY <1>1, InitApi, NextApi, PTL DEF ApiSpec, ListIsOfServer
===============================================================================
