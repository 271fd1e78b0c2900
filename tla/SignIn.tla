------------------------------- MODULE SignIn -------------------------------
(***************************************************************************)
(* Signing in (src/app/src/lib/stores/sign-in-store.ts).  SignInStore      *)
(* keeps one flow, which whoever began it is told the result of; the user  *)
(* names a server, the browser is sent there with the token of a session,  *)
(* and comes back with it and a code, which two requests turn into an      *)
(* account.  The promise of a session settles once.                        *)
(*                                                                         *)
(* The accounts are those of AccountsStore, one for a server.  An account  *)
(* is an object: refreshing it from the server makes a new one, so that    *)
(* objects are counted.  Names, errors and invalid URLs are left out.      *)
(***************************************************************************)
EXTENDS Naturals

CONSTANTS
  Servers,     \* the servers there are
  DotCom,      \* github.com
  Callers,     \* who begins a flow
  Requests,    \* answers of the browser that are being turned into accounts
  Attempts,    \* calls of authenticateWithBrowser that await a sign-out
  None,        \* null
  MaxSessions, \* bound: browser sessions
  MaxObjects,  \* bound: account objects of a server
  MaxActs      \* bound: what users, browsers and servers do

ASSUME SignInAssumption ==
  /\ DotCom \in Servers
  /\ None \notin Servers \cup Callers \cup Requests
  /\ MaxSessions \in Nat /\ MaxObjects \in Nat /\ MaxActs \in Nat

VARIABLES
  flow,        \* SignInStore.state
  sessions,    \* sessions opened in the browser so far
  settled,     \* those whose promise is settled
  requests,    \* resolveOAuthRequest under way
  removing,    \* the flow each of these calls holds meanwhile
  adding,      \* servers whose account AccountsStore is adding
  signedIn,    \* AccountsStore.accounts: the object of each server, 0 if none
  objects,     \* account objects made so far
  begun,       \* callers that have begun a flow
  told,        \* the first result each caller was told
  opened,      \* history: for whom, and where, each session was opened
  overwritten, \* history: callers whose flow gave way to one that came back
  acts

signInVars == <<flow, sessions, settled, requests, removing, adding, signedIn,
                objects, begun, told, opened, overwritten>>

NoFlow == [kind |-> "none", endpoint |-> None, caller |-> None,
           session |-> 0, loading |-> FALSE]
NoRequest == [code |-> 0, endpoint |-> None]

FlowKinds == {"none", "endpointEntry", "existing", "authentication",
              "success"}
Flows == [kind : FlowKinds, endpoint : Servers \cup {None},
          caller : Callers \cup {None}, session : 0..MaxSessions,
          loading : BOOLEAN]

SignInTypeOK ==
  /\ flow \in Flows
  /\ sessions \in 0..MaxSessions
  /\ settled \subseteq 1..MaxSessions
  /\ requests \in [Requests -> [code : 0..MaxSessions,
                                endpoint : Servers \cup {None}]]
  /\ removing \in [Attempts -> Flows]
  /\ adding \subseteq Servers
  /\ signedIn \in [Servers -> 0..MaxObjects]
  /\ objects \in [Servers -> 0..MaxObjects]
  /\ begun \subseteq Callers
  /\ told \in [Callers -> {"nothing", "success", "cancelled"}]
  /\ opened \in [1..MaxSessions -> [caller : Callers \cup {None},
                                    endpoint : Servers \cup {None}]]
  /\ overwritten \subseteq Callers
  /\ flow.session # 0 => flow.kind = "authentication"
  /\ \A a \in Attempts : removing[a].kind \in {"none", "existing"}
  /\ acts \in 0..MaxActs

SignInInit ==
  /\ flow = NoFlow
  /\ sessions = 0
  /\ settled = {}
  /\ requests = [q \in Requests |-> NoRequest]
  /\ removing = [a \in Attempts |-> NoFlow]
  /\ adding = {}
  /\ signedIn \in [Servers -> {0, 1} \cap 0..MaxObjects]
  /\ objects = signedIn
  /\ begun = {}
  /\ told = [c \in Callers |-> "nothing"]
  /\ opened = [s \in 1..MaxSessions |-> [caller |-> None, endpoint |-> None]]
  /\ overwritten = {}
  /\ acts = 0

Act == acts < MaxActs /\ acts' = acts + 1

----------------------------------------------------------------------------
(* The flow. *)

\* A callback resolves a promise: later results are not heard.
Told(c, result) ==
  [told EXCEPT ![c] = IF @ = "nothing" THEN result ELSE @]

\* Mutant: a flow that is replaced is forgotten.
CancelledQuietly(f) == told
\* What reset tells, even of a flow that succeeded.
Cancelled(f) == IF f = NoFlow THEN told ELSE Told(f.caller, "cancelled")

\* reset rejects the promise of the session; its catch finds another flow.
Rejected(f) == IF f.session = 0 THEN settled ELSE settled \cup {f.session}

ResetTo(f) ==
  /\ told' = Cancelled(flow)
  /\ settled' = Rejected(flow)
  /\ flow' = f

EndpointEntry(c) == [NoFlow EXCEPT !.kind = "endpointEntry", !.caller = c]

\* The step that follows the choice of a server.
Chosen(e, c) ==
  [NoFlow EXCEPT !.kind = IF signedIn[e] # 0 THEN "existing"
                                             ELSE "authentication",
                 !.endpoint = e, !.caller = c]

\* beginDotComSignIn and beginEnterpriseSignIn, from the menu, the settings
\* or the credential helper of git.
Begin(c) ==
  /\ c \notin begun /\ Act
  /\ begun' = begun \cup {c}
  /\ ResetTo(Chosen(DotCom, c)) \/ ResetTo(EndpointEntry(c))
  /\ UNCHANGED <<sessions, requests, removing, adding, signedIn, objects,
                 opened, overwritten>>

\* reset: the dialog is closed.
Dismiss ==
  /\ flow # NoFlow
  /\ ResetTo(NoFlow)
  /\ UNCHANGED <<sessions, requests, removing, adding, signedIn, objects,
                 begun, opened, overwritten, acts>>

\* setEndpoint: github.com begins a flow of its own, for the same caller.
SetEndpoint(e) ==
  /\ flow.kind \in {"endpointEntry", "existing"}
  /\ IF e = DotCom
       THEN ResetTo(Chosen(e, flow.caller))
       ELSE flow' = Chosen(e, flow.caller) /\ UNCHANGED <<told, settled>>
  /\ Act
  /\ UNCHANGED <<sessions, requests, removing, adding, signedIn, objects,
                 begun, opened, overwritten>>

\* The browser is opened for a flow: its state is replaced by one with a new
\* session, whatever it has become.
Open(f) ==
  /\ sessions < MaxSessions
  /\ sessions' = sessions + 1
  /\ flow' = [f EXCEPT !.kind = "authentication", !.session = sessions + 1,
                       !.loading = TRUE]
  /\ opened' = [opened EXCEPT ![sessions + 1] =
                  [caller |-> f.caller, endpoint |-> f.endpoint]]

\* authenticateWithBrowser.  An account of the server is signed out first;
\* the button may be pressed again meanwhile, and the dialog go elsewhere.
Authenticate ==
  /\ flow.kind \in {"authentication", "existing"}
  /\ Act
  /\ IF flow.kind = "existing" /\ signedIn[flow.endpoint] # 0
       THEN /\ \E a \in Attempts :
                 /\ removing[a] = NoFlow
                 /\ removing' = [removing EXCEPT ![a] = flow]
            /\ flow' = [flow EXCEPT !.loading = TRUE]
            /\ UNCHANGED <<sessions, opened>>
       ELSE Open(flow) /\ UNCHANGED removing
  /\ UNCHANGED <<settled, requests, adding, signedIn, objects, begun, told,
                 overwritten>>

\* removeAccount is over; it returns normally when the keychain refuses.
Removed(a) ==
  /\ removing[a] # NoFlow
  /\ signedIn' \in {signedIn, [signedIn EXCEPT ![removing[a].endpoint] = 0]}
  /\ Open(removing[a])
  /\ removing' = [removing EXCEPT ![a] = NoFlow]
  /\ overwritten' = overwritten \cup
                      ({flow.caller} \ {removing[a].caller, None})
  /\ UNCHANGED <<settled, requests, adding, objects, begun, told, acts>>

\* Mutant: any session will do.
IsAnswerToAny(s) == flow.session # 0
\* The state the browser brings is that of the session under way.
IsAnswerTo(s) == flow.session # 0 /\ flow.session = s

\* resolveOAuthRequest: the browser is back from session s, perhaps again.
Answer(q, s) ==
  /\ requests[q] = NoRequest
  /\ s \in 1..sessions
  /\ flow.kind = "authentication"
  /\ IsAnswerTo(s)
  /\ Act
  /\ requests' = [requests EXCEPT ![q] =
       [code |-> s, endpoint |-> flow.endpoint]]
  /\ UNCHANGED <<flow, sessions, settled, removing, adding, signedIn, objects,
                 begun, told, opened, overwritten>>

\* Mutant: the session stays in the state.
SuccessKeeping(f) == [f EXCEPT !.kind = "success"]
\* The state of a flow that succeeded has nothing but whom to tell.
Success(f) == [NoFlow EXCEPT !.kind = "success", !.caller = f.caller]

\* Both requests, for the token and then for the user, are over; nothing is
\* read or written between them.  this.state.oauthState, of the flow there is
\* by now, is told.  A flow without a session makes it throw, as does fetchUser
\* when it fails; a promise that is settled ignores it.
Answered(q) ==
  /\ requests[q] # NoRequest
  /\ requests' = [requests EXCEPT ![q] = NoRequest]
  /\ \/ UNCHANGED <<flow, settled, told, adding>>
     \/ /\ flow.session \notin settled \cup {0}
        /\ settled' = settled \cup {flow.session}
        /\ \/ /\ flow' = [flow EXCEPT !.loading = FALSE]
              /\ UNCHANGED <<told, adding>>
           \/ /\ flow' = Success(flow)
              /\ told' = Told(flow.caller, "success")
              /\ adding' = adding \cup {requests[q].endpoint}
  /\ UNCHANGED <<sessions, removing, signedIn, objects, begun, opened,
                 overwritten, acts>>

----------------------------------------------------------------------------
(* The accounts, which AccountsStore keeps. *)

NewObject(e) ==
  /\ objects[e] < MaxObjects
  /\ objects' = [objects EXCEPT ![e] = @ + 1]
  /\ signedIn' = [signedIn EXCEPT ![e] = objects[e] + 1]

\* addAccount has the keychain's answer: it may have refused.
AccountAdded(e) ==
  /\ e \in adding
  /\ adding' = adding \ {e}
  /\ NewObject(e) \/ UNCHANGED <<signedIn, objects>>
  /\ UNCHANGED <<flow, sessions, settled, requests, removing, begun, told,
                 opened, overwritten, acts>>

\* refresh: the account was read anew from its server.
AccountRefreshed(e) ==
  /\ signedIn[e] # 0 /\ Act
  /\ NewObject(e)
  /\ UNCHANGED <<flow, sessions, settled, requests, removing, adding, begun,
                 told, opened, overwritten>>

\* removeAccount, from the settings.
SignOut(e) ==
  /\ signedIn[e] # 0 /\ Act
  /\ signedIn' = [signedIn EXCEPT ![e] = 0]
  /\ UNCHANGED <<flow, sessions, settled, requests, removing, adding, objects,
                 begun, told, opened, overwritten>>

SignInNext ==
  \/ \E c \in Callers : Begin(c)
  \/ Dismiss
  \/ \E e \in Servers :
       SetEndpoint(e) \/ AccountAdded(e) \/ AccountRefreshed(e) \/ SignOut(e)
  \/ Authenticate
  \/ \E a \in Attempts : Removed(a)
  \/ \E q \in Requests : Answered(q) \/ \E s \in 1..sessions : Answer(q, s)

----------------------------------------------------------------------------
(* Properties. *)

\* Request q ends in a flow that succeeds.
Succeeds(q) ==
  /\ requests[q] # NoRequest /\ requests'[q] = NoRequest
  /\ flow.kind # "success" /\ flow'.kind = "success"

\* Whose account a caller is told of, however the flows and the answers of the
\* browser overlap (resolveOAuthRequest uses this.state after its requests).
\* The flow told is one whose browser was opened for that caller, the account
\* added is of the server that the browser had been sent to for the code, and
\* whoever the browser had been opened for then is that caller, has heard how
\* its own flow ended, or lost it to one that came back.
SuccessIsOfSession ==
  [][\A q \in Requests :
       Succeeds(q) =>
         LET own == opened[requests[q].code] IN
         /\ opened[flow.session].caller = flow'.caller
         /\ adding' \subseteq adding \cup {own.endpoint}
         /\ \/ own.caller \in overwritten \cup {flow'.caller}
            \/ told[own.caller] # "nothing"]_signInVars

\* Whoever began a flow is told how it ended once another flow, or none, has
\* taken its place, unless that was a flow that came back after its await
\* (authenticateWithBrowser sets the state it held while it signed out).
NobodyIsForgotten ==
  \A c \in begun :
    told[c] # "nothing" \/ flow.caller = c \/ c \in overwritten
=============================================================================
