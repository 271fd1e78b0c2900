--------------------------- MODULE ApiRepositories ---------------------------
(***************************************************************************)
(* The repositories an account can clone                                   *)
(* (src/app/src/lib/stores/api-repositories-store.ts), beside the sign-in  *)
(* that changes the accounts.  The store's map is keyed by the objects of  *)
(* the accounts; AccountsStore tells it of every change in the same step.  *)
(* A load streams pages from the server and then takes the repositories    *)
(* that no page had for deleted.                                           *)
(*                                                                         *)
(* accountEquals compares the server and the user; there is one user for a *)
(* server here, so that the map has at most one key for it.                *)
(***************************************************************************)
EXTENDS SignIn

CONSTANTS
  Repos,       \* repositories of a server
  Loads        \* calls of loadRepositories under way

VARIABLES
  entry,       \* accountState: the value of each server, and its key
  load,        \* the calls
  hosted,      \* external: what the servers have
  outlived     \* history: servers signed out of during a load

repositoryVars == <<entry, load, hosted, outlived>>
apiVars == <<signInVars, acts, repositoryVars>>

NoEntry == [key |-> 0, loading |-> FALSE, list |-> {}]
\* `had`, `always` and `ever` are history: what its pages had, what the server
\* had all the time, and at any time, since it began.
NoLoad == [endpoint |-> None, account |-> 0, missing |-> {}, seen |-> {},
           had |-> {}, always |-> {}, ever |-> {}]

ApiTypeOK ==
  /\ SignInTypeOK
  /\ entry \in [Servers -> [key : 0..MaxObjects, loading : BOOLEAN,
                              list : SUBSET Repos]]
  /\ load \in [Loads -> [endpoint : Servers \cup {None},
                         account : 0..MaxObjects, missing : SUBSET Repos,
                         seen : SUBSET Repos, had : SUBSET Repos,
                         always : SUBSET Repos, ever : SUBSET Repos]]
  /\ hosted \in [Servers -> SUBSET Repos]
  /\ outlived \subseteq Servers

ApiInit ==
  /\ SignInInit
  /\ entry = [e \in Servers |-> NoEntry]
  /\ load = [l \in Loads |-> NoLoad]
  /\ hosted = [e \in Servers |-> Repos]
  /\ outlived = {}

----------------------------------------------------------------------------

\* Mutant: a refreshed account keeps its old key.
MergedKeepingKey(old, account) == IF account = 0 THEN NoEntry ELSE old
\* onAccountsChanged: an account keeps what its server had, under its object.
Merged(old, account) ==
  IF account = 0 \/ old = NoEntry THEN NoEntry
                                  ELSE [old EXCEPT !.key = account]

Loading(e) == \E l \in Loads : load[l].endpoint = e

\* What follows any change of the accounts.
AccountsChanged ==
  /\ entry' = IF signedIn' = signedIn THEN entry
              ELSE [e \in Servers |-> Merged(entry[e], signedIn'[e])]
  /\ outlived' = outlived \cup
       {e \in Servers : signedIn'[e] = 0 /\ signedIn[e] # 0 /\ Loading(e)}

\* updateAccount: under the key there is, or as a new entry.
KeyFor(e, account) == IF entry[e] = NoEntry THEN account ELSE entry[e].key

Updated(e, account, list, loading) ==
  [entry EXCEPT ![e] =
     [key |-> KeyFor(e, account), list |-> list, loading |-> loading]]

\* loadRepositories, by the list of repositories to clone or after the
\* sign-in of the welcome flow.
BeginLoad(l, e) ==
  /\ load[l] = NoLoad
  /\ signedIn[e] # 0
  /\ ~entry[e].loading
  /\ Act
  /\ entry' = Updated(e, signedIn[e], entry[e].list, TRUE)
  /\ load' = [load EXCEPT ![l] =
       [endpoint |-> e, account |-> signedIn[e], missing |-> entry[e].list,
        seen |-> entry[e].list, had |-> {}, always |-> hosted[e],
        ever |-> hosted[e]]]
  /\ UNCHANGED <<signInVars, hosted, outlived>>

\* Mutant: a page does not say what is still there.
MissingAsBefore(l, r) == load[l].missing
\* What no page has had.
MissingAfter(l, r) == load[l].missing \ {r}

\* addPage: a page, here of one repository, arrives.
Page(l, r) ==
  LET e == load[l].endpoint
      seen == load[l].seen \cup {r}
  IN
  /\ e # None
  /\ r \in hosted[e]
  /\ load' = [load EXCEPT ![l].seen = seen, ![l].had = @ \cup {r},
                          ![l].missing = MissingAfter(l, r)]
  /\ entry' = Updated(e, load[l].account, seen, entry[e].loading)
  /\ UNCHANGED <<signInVars, acts, hosted, outlived>>

\* The streams are over, or have failed, which streamUserRepositories only
\* logs.  What is missing, if anything, is removed.
EndLoad(l) ==
  LET e == load[l].endpoint
      list == IF load[l].missing = {} THEN entry[e].list
              ELSE load[l].seen \ load[l].missing
  IN
  /\ e # None
  /\ entry' = Updated(e, load[l].account, list, FALSE)
  /\ load' = [load EXCEPT ![l] = NoLoad]
  /\ UNCHANGED <<signInVars, acts, hosted, outlived>>

\* A repository is made or deleted at a server.
Host(e, r) ==
  /\ Act
  /\ hosted' = [hosted EXCEPT ![e] =
                  IF r \in @ THEN @ \ {r} ELSE @ \cup {r}]
  /\ load' = [l \in Loads |->
       IF load[l].endpoint # e THEN load[l]
       ELSE [load[l] EXCEPT !.always = @ \cap hosted'[e],
                            !.ever = @ \cup hosted'[e]]]
  /\ UNCHANGED <<signInVars, entry, outlived>>

ApiNext ==
  \/ SignInNext /\ AccountsChanged /\ UNCHANGED <<load, hosted>>
  \/ \E l \in Loads :
       \/ \E e \in Servers : BeginLoad(l, e)
       \/ \E r \in Repos : Page(l, r)
       \/ EndLoad(l)
  \/ \E e \in Servers, r \in Repos : Host(e, r)

ApiSpec == ApiInit /\ [][ApiNext]_apiVars

----------------------------------------------------------------------------
(* Properties. *)

\* The keys of the map are the account objects of AccountsStore
\* (onAccountsChanged: "It's crucial that the ApiRepositories store match
\* (through reference equality) the accounts in the accounts store"), unless
\* a load went on after the account was signed out: it puts it back.
KeysAreAccounts ==
  \A e \in Servers :
    entry[e] # NoEntry /\ e \notin outlived => entry[e].key = signedIn[e]

\* When a load ends that had a page for every repository that was there all
\* the time, its account lists those and nothing that was not there at some
\* time during the load: what is gone from the server is gone from the list.
\* An account that was signed out meanwhile may have lost its list.
ListIsOfServer ==
  [][\A l \in Loads :
       LET e == load[l].endpoint IN
       /\ e # None /\ load'[l] = NoLoad /\ e \notin outlived
       /\ load[l].always \subseteq load[l].had
       => /\ load[l].always \subseteq entry'[e].list
          /\ entry'[e].list \subseteq load[l].ever]_apiVars
=============================================================================
