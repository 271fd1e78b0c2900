---------------------- MODULE ClaudeCodeSessions_proof ----------------------
(***************************************************************************)
(* What holds of the Claude Code sessions for any number of sessions,      *)
(* starts and settings.                                                    *)
(***************************************************************************)
EXTENDS ClaudeCodeSessions, WellFoundedInduction, TLAPS

-----------------------------------------------------------------------------
\* The tab that takes the place of a closed one.

LEMMA FirstOne ==
  ASSUME NEW S, S \subseteq Nat, S # {}
  PROVE  \E r \in S : \A q \in S : r <= q
<1>1. PICK r \in S : \A q \in S : <<q, r>> \notin OpToRel(<, Nat)
  BY NatLessThanWellFounded, WFMin
<1>2. \A q \in S : ~ (q < r)
  BY <1>1 DEF OpToRel
<1> QED
  BY <1>2

\* Counted from the end, the last one is the first.
LEMMA LastOne ==
  ASSUME NEW S, S \subseteq Numbers, S # {}
  PROVE  \E r \in S : \A q \in S : q <= r
<1> DEFINE T == {MaxSessions - t : t \in S}
<1>1. T \subseteq Nat /\ T # {}
  <2>1. \A t \in S : MaxSessions - t \in Nat
    BY SessionsAssumption DEF Numbers
  <2> QED
    BY <2>1
<1>2. PICK m \in T : \A n \in T : m <= n
  BY <1>1, FirstOne
<1>3. PICK r \in S : m = MaxSessions - r
  BY <1>2
<1>4. \A q \in S : MaxSessions - r <= MaxSessions - q
  BY <1>2, <1>3
<1> QED
  BY <1>4, SessionsAssumption DEF Numbers

\* Another open session takes the place of a closed one, if there is any.
LEMMA TookPlaceOpen ==
  ASSUME NEW s \in Numbers, sessions \subseteq Numbers
  PROVE  IF sessions \ {s} = {} THEN TookPlace(s) = None
         ELSE TookPlace(s) \in sessions \ {s}
<1> DEFINE right == {t \in sessions : t > s}
           left == {t \in sessions : t < s}
<1>1. CASE right # {}
  <2>1. right \subseteq Nat
    <3>1. Numbers \subseteq Nat
      BY SessionsAssumption DEF Numbers
    <3> HIDE DEF right, left
    <3>2. right \subseteq sessions
      BY DEF right
    <3> QED
      BY <3>1, <3>2
  <2>2. PICK r \in right : \A q \in right : r <= q
    BY <1>1, <2>1, FirstOne
  <2>3. (CHOOSE t \in right : \A u \in right : t <= u) \in right
    BY <2>2
  <2>4. TookPlace(s) \in right
    BY <1>1, <2>3 DEF TookPlace
  <2> QED
    BY <2>4 DEF Numbers
<1>2. CASE right = {} /\ left # {}
  <2>1. left \subseteq Numbers
    BY DEF Numbers
  <2>2. PICK r \in left : \A q \in left : q <= r
    BY <1>2, <2>1, LastOne
  <2>3. (CHOOSE t \in left : \A u \in left : u <= t) \in left
    BY <2>2
  <2>4. TookPlace(s) \in left
    BY <1>2, <2>3 DEF TookPlace
  <2> QED
    BY <2>4 DEF Numbers
<1>3. CASE right = {} /\ left = {}
  <2>1. sessions \ {s} = {}
    BY <1>3 DEF Numbers
  <2>2. TookPlace(s) = None
    BY <1>3 DEF TookPlace
  <2> QED
    BY <2>1, <2>2
<1> QED
  BY <1>1, <1>2, <1>3

-----------------------------------------------------------------------------
\* What ties sessions, starts and processes together.

\* Numbers are handed out in order, to sessions and to starts.
FreshInv ==
  /\ \A k \in Starts : k >= nextStart => phase[k] = "none"
  /\ \A k \in Starts : phase[k] # "none" =>
       sessionOf[k] \in Numbers /\ sessionOf[k] < nextNumber
  /\ \A s \in sessions : s < nextNumber

\* The process a session knows is its own and was not told to end.
PtyInv ==
  \A s \in Numbers : pty[s] # None =>
    sessionOf[pty[s]] = s /\ phase[pty[s]] = "running"

CoreInv == TypeOK /\ FreshInv /\ PtyInv /\ ShowsOpenSession

LEMMA KilledType ==
  ASSUME TypeOK, NEW S
  PROVE  /\ Killed(S) \in [Starts -> Phases]
         /\ \A k \in Starts : Killed(S)[k] = "none" <=> phase[k] = "none"
BY DEF Killed, TypeOK, Phases

\* Killing the process one session knows leaves those of all others.
LEMMA KilledOther ==
  ASSUME TypeOK, PtyInv, NEW s \in Numbers, NEW t \in Numbers, t # s,
         pty[t] # None
  PROVE  Killed({s})[pty[t]] = "running"
BY DEF Killed, TypeOK, PtyInv

LEMMA InitCore == Init => CoreInv
<1> SUFFICES ASSUME Init PROVE CoreInv
  OBVIOUS
<1>1. nextNumber \in 1..(MaxSessions + 1) /\ nextStart \in 1..(MaxStarts + 1)
  BY SessionsAssumption DEF Init
<1> QED
  BY <1>1 DEF Init, CoreInv, TypeOK, FreshInv, PtyInv, ShowsOpenSession,
     Statuses, Phases, None

\* start, of a session that has its number already.
LEMMA BeginCore ==
  ASSUME TypeOK, FreshInv, PtyInv, NEW s \in Numbers, Begin(s),
         s < nextNumber', nextNumber' >= nextNumber, nextNumber' \in Int,
         \A t \in sessions' : t < nextNumber'
  PROVE  /\ nextStart \in Starts /\ nextStart' \in 1..(MaxStarts + 1)
         /\ phase' \in [Starts -> Phases]
         /\ pty' \in [Numbers -> Starts \cup {None}]
         /\ sessionOf' \in [Starts -> Numbers \cup {None}]
         /\ taken' \in [Starts -> Settings]
         /\ launch' \in [Numbers -> Settings]
         /\ status' \in [Numbers -> Statuses]
         /\ FreshInv' /\ PtyInv'
<1>1. nextStart \in Starts /\ nextStart' \in 1..(MaxStarts + 1)
  BY SessionsAssumption DEF Begin, TypeOK, Starts
<1>2. phase' \in [Starts -> Phases]
  BY KilledType DEF Begin, Phases
<1>3. /\ pty' \in [Numbers -> Starts \cup {None}]
      /\ sessionOf' \in [Starts -> Numbers \cup {None}]
      /\ taken' \in [Starts -> Settings]
      /\ launch' \in [Numbers -> Settings]
      /\ status' \in [Numbers -> Statuses]
  BY DEF Begin, TypeOK, Statuses
<1>4. FreshInv'
  <2>1. \A k \in Starts : k >= nextStart' => phase'[k] = "none"
    BY <1>1, KilledType DEF Begin, FreshInv, TypeOK, Starts
  <2>2. ASSUME NEW k \in Starts, phase'[k] # "none"
        PROVE  sessionOf'[k] \in Numbers /\ sessionOf'[k] < nextNumber'
    <3>1. CASE k = nextStart
      BY <1>1, <3>1 DEF Begin, TypeOK
    <3>2. CASE k # nextStart
      <4>1. sessionOf'[k] = sessionOf[k] /\ phase[k] # "none"
        BY <2>2, <3>2, KilledType DEF Begin, TypeOK
      <4> QED
        BY <4>1 DEF FreshInv, TypeOK, Numbers
    <3> QED
      BY <3>1, <3>2
  <2> QED
    BY <2>1, <2>2 DEF FreshInv
<1>5. PtyInv'
  <2> SUFFICES ASSUME NEW t \in Numbers, pty'[t] # None
               PROVE  sessionOf'[pty'[t]] = t /\ phase'[pty'[t]] = "running"
    BY DEF PtyInv
  <2>1. t # s /\ pty'[t] = pty[t]
    BY DEF Begin, TypeOK
  <2>2. pty[t] \in Starts /\ sessionOf[pty[t]] = t /\ phase[pty[t]] = "running"
    BY <2>1 DEF PtyInv, TypeOK
  <2>3. pty[t] # nextStart
    BY <1>1, <2>2 DEF FreshInv, TypeOK, Starts
  <2>4. Killed({s})[pty[t]] = "running"
    BY <2>1, KilledOther
  <2> QED
    BY <1>1, <2>1, <2>2, <2>3, <2>4, KilledType DEF Begin, TypeOK
<1> QED
  BY <1>1, <1>2, <1>3, <1>4, <1>5

LEMMA StartSessionCore ==
  ASSUME CoreInv, StartSession
  PROVE  CoreInv'
<1>1. /\ nextNumber \in Numbers /\ nextNumber' \in 1..(MaxSessions + 1)
      /\ nextNumber' = nextNumber + 1
  BY SessionsAssumption DEF StartSession, CoreInv, TypeOK, Numbers
<1>2. /\ sessions' = sessions \cup {nextNumber} /\ active' = nextNumber
      /\ Begin(nextNumber) /\ unloaded' = FALSE
      /\ UNCHANGED <<settings, folder, overtaken>>
  BY DEF StartSession, OnPage
<1>3. \A t \in sessions' : t < nextNumber'
  BY <1>1, <1>2 DEF CoreInv, FreshInv, TypeOK, Numbers
<1>4. /\ nextNumber < nextNumber' /\ nextNumber' >= nextNumber
      /\ nextNumber' \in Int
  BY <1>1, SessionsAssumption DEF Numbers
<1>5. FreshInv' /\ PtyInv' /\ ShowsOpenSession'
  BY <1>1, <1>2, <1>3, <1>4, BeginCore DEF CoreInv, ShowsOpenSession
<1>6. TypeOK'
  <2>1. sessions' \subseteq Numbers /\ active' \in Numbers \cup {None}
    BY <1>1, <1>2 DEF CoreInv, TypeOK
  <2> QED
    BY <1>1, <1>2, <1>3, <1>4, <2>1, BeginCore DEF CoreInv, TypeOK
<1> QED
  BY <1>5, <1>6 DEF CoreInv

LEMMA RestartCore ==
  ASSUME CoreInv, Restart
  PROVE  CoreInv'
<1>1. active \in sessions /\ active \in Numbers
  BY DEF Restart, CoreInv, ShowsOpenSession, TypeOK
<1>2. /\ Begin(active) /\ unloaded' = FALSE
      /\ UNCHANGED <<sessions, active, nextNumber, settings, folder>>
      /\ overtaken' \subseteq Numbers
  BY <1>1 DEF Restart, OnPage, Overtakes, CoreInv, TypeOK
<1>3. /\ active < nextNumber' /\ nextNumber' >= nextNumber /\ nextNumber' \in Int
      /\ \A t \in sessions' : t < nextNumber'
  BY <1>1, <1>2 DEF CoreInv, FreshInv, TypeOK
<1>4. FreshInv' /\ PtyInv' /\ ShowsOpenSession'
  BY <1>1, <1>2, <1>3, BeginCore DEF CoreInv, ShowsOpenSession
<1>5. TypeOK'
  BY <1>1, <1>2, <1>3, BeginCore DEF CoreInv, TypeOK
<1> QED
  BY <1>4, <1>5 DEF CoreInv

LEMMA ResolveExecutableCore ==
  ASSUME CoreInv, NEW k \in Starts, NEW found \in BOOLEAN,
         ResolveExecutable(k, found)
  PROVE  CoreInv'
<1>1. TypeOK'
  BY DEF ResolveExecutable, OnPage, lists, CoreInv, TypeOK, Statuses, Phases
<1>2. FreshInv' /\ PtyInv' /\ ShowsOpenSession'
  BY DEF ResolveExecutable, lists, CoreInv, TypeOK, FreshInv, PtyInv,
     ShowsOpenSession
<1> QED
  BY <1>1, <1>2 DEF CoreInv

LEMMA SpawnPtyCore ==
  ASSUME CoreInv, NEW k \in Starts, SpawnPty(k)
  PROVE  CoreInv'
<1>1. sessionOf[k] \in Numbers
  BY DEF SpawnPty, CoreInv, FreshInv
<1>2. TypeOK'
  BY <1>1 DEF SpawnPty, OnPage, Folder, lists, CoreInv, TypeOK, Statuses, Phases
<1>3. FreshInv' /\ PtyInv' /\ ShowsOpenSession'
  BY <1>1 DEF SpawnPty, lists, CoreInv, TypeOK, FreshInv, PtyInv,
     ShowsOpenSession
<1> QED
  BY <1>2, <1>3 DEF CoreInv

LEMMA SpawnFailsCore ==
  ASSUME CoreInv, NEW k \in Starts, SpawnFails(k)
  PROVE  CoreInv'
<1>1. TypeOK'
  BY DEF SpawnFails, OnPage, lists, CoreInv, TypeOK, Statuses, Phases
<1>2. FreshInv' /\ PtyInv' /\ ShowsOpenSession'
  BY DEF SpawnFails, lists, CoreInv, TypeOK, FreshInv, PtyInv, ShowsOpenSession
<1> QED
  BY <1>1, <1>2 DEF CoreInv

LEMMA ExitCore ==
  ASSUME CoreInv, NEW k \in Starts, Exit(k)
  PROVE  CoreInv'
<1>1. sessionOf[k] \in Numbers
  BY DEF Exit, CoreInv, FreshInv
<1>2. TypeOK'
  BY <1>1 DEF Exit, OnPage, lists, CoreInv, TypeOK, Statuses, Phases
<1>3. FreshInv' /\ ShowsOpenSession'
  BY <1>1 DEF Exit, lists, CoreInv, TypeOK, FreshInv, ShowsOpenSession
<1>4. PtyInv'
  BY <1>1 DEF Exit, SpeaksFor, lists, CoreInv, TypeOK, PtyInv
<1> QED
  BY <1>2, <1>3, <1>4 DEF CoreInv

LEMMA CloseCore ==
  ASSUME CoreInv, NEW s \in Numbers, Close(s)
  PROVE  CoreInv'
<1>1. /\ sessions' = sessions \ {s} /\ phase' = Killed({s})
      /\ pty' = [pty EXCEPT ![s] = None]
      /\ active' = IF active = s THEN TookPlace(s) ELSE active
      /\ overtaken' \subseteq Numbers /\ unloaded' = FALSE
      /\ UNCHANGED <<nextNumber, status, launch, settings, nextStart, sessionOf,
                     taken, folder>>
  BY DEF Close, OnPage, Overtakes, CoreInv, TypeOK
<1>2. ShowsOpenSession' /\ active' \in Numbers \cup {None}
  BY <1>1, TookPlaceOpen DEF Close, CoreInv, TypeOK, ShowsOpenSession
<1>3. TypeOK'
  BY <1>1, <1>2, KilledType DEF CoreInv, TypeOK
<1>4. FreshInv'
  BY <1>1, KilledType DEF CoreInv, FreshInv
<1>5. PtyInv'
  BY <1>1, KilledOther DEF CoreInv, TypeOK, PtyInv
<1> QED
  BY <1>2, <1>3, <1>4, <1>5 DEF CoreInv

LEMMA UnloadCore ==
  ASSUME CoreInv, Unload
  PROVE  CoreInv'
<1>1. \A k \in Starts : phase'[k] = "none" <=> phase[k] = "none"
  BY KilledType DEF Unload, Waiting, CoreInv
<1>2. phase' \in [Starts -> Phases]
  BY KilledType DEF Unload, CoreInv, Phases
<1>3. TypeOK'
  BY <1>2 DEF Unload, lists, CoreInv, TypeOK
<1>4. FreshInv' /\ ShowsOpenSession'
  BY <1>1 DEF Unload, lists, CoreInv, FreshInv, ShowsOpenSession
<1>5. PtyInv'
  <2> SUFFICES ASSUME NEW s \in Numbers, pty'[s] # None
               PROVE  sessionOf'[pty'[s]] = s /\ phase'[pty'[s]] = "running"
    BY DEF PtyInv
  <2>1. s \notin sessions /\ pty'[s] = pty[s]
    BY DEF Unload
  <2>2. pty[s] \in Starts /\ sessionOf[pty[s]] = s /\ phase[pty[s]] = "running"
    BY <2>1 DEF CoreInv, PtyInv, TypeOK
  <2>3. \A t \in sessions : pty[t] # pty[s]
    BY <2>1, <2>2 DEF CoreInv, PtyInv, TypeOK
  <2> QED
    BY <2>1, <2>2, <2>3 DEF Unload, Killed, Waiting
<1> QED
  BY <1>3, <1>4, <1>5 DEF CoreInv

LEMMA NextCore == CoreInv /\ [Next]_vars => CoreInv'
<1> SUFFICES ASSUME CoreInv, [Next]_vars PROVE CoreInv'
  OBVIOUS
<1>1. CASE UNCHANGED vars
  BY <1>1 DEF vars, CoreInv, TypeOK, FreshInv, PtyInv, ShowsOpenSession
<1>2. ASSUME NEW s \in Numbers, Activate(s) PROVE CoreInv'
  BY <1>2 DEF Activate, OnPage, CoreInv, TypeOK, FreshInv, PtyInv,
     ShowsOpenSession
<1>3. CASE ChangeSettings
  BY <1>3 DEF ChangeSettings, OnPage, lists, CoreInv, TypeOK, FreshInv, PtyInv,
     ShowsOpenSession
<1> QED
  BY <1>1, <1>2, <1>3, StartSessionCore, RestartCore, ResolveExecutableCore,
     SpawnPtyCore, SpawnFailsCore, ExitCore, CloseCore, UnloadCore DEF Next

\* Every variable of the sessions stays in its type.
THEOREM TypeCorrect == Spec => []TypeOK
<1>1. CoreInv => TypeOK
  BY DEF CoreInv
<1> QED
  BY <1>1, InitCore, NextCore, PTL DEF Spec

\* The panel shows an open session whenever there is one.
THEOREM AlwaysShowsOpenSession == Spec => []ShowsOpenSession
<1>1. CoreInv => ShowsOpenSession
  BY DEF CoreInv
<1> QED
  BY <1>1, InitCore, NextCore, PTL DEF Spec

\* A process that was told to end leaves the status of its session alone: the
\* session no longer knows it.
THEOREM ExitIsAlwaysOwn == Spec => ExitIsOwn
<1> DEFINE Own == \A k \in Starts :
                    phase[k] = "killed" /\ phase'[k] = "gone" => status' = status
<1>1. CoreInv /\ [Next]_vars => [Own]_vars
  <2> SUFFICES ASSUME CoreInv, Next, NEW k \in Starts,
                      phase[k] = "killed", phase'[k] = "gone"
               PROVE  status' = status
    BY DEF vars
  <2>1. ASSUME NEW j \in Starts, Exit(j) PROVE status' = status
    <3>1. j = k
      BY <2>1 DEF Exit, CoreInv, TypeOK
    <3>2. sessionOf[k] \in Numbers
      BY DEF CoreInv, FreshInv
    <3>3. pty[sessionOf[k]] # k
      BY <3>2 DEF CoreInv, PtyInv, None, Starts
    <3> QED
      BY <2>1, <3>1, <3>3 DEF Exit, SpeaksFor
  <2>2. ASSUME NEW s \in Numbers, Begin(s) PROVE FALSE
    BY <2>2 DEF Begin, Killed, CoreInv, TypeOK, Starts
  <2>3. CASE StartSession
    <3>1. nextNumber \in Numbers
      BY <2>3, SessionsAssumption DEF StartSession, CoreInv, TypeOK, Numbers
    <3> QED
      BY <2>2, <2>3, <3>1 DEF StartSession
  <2>4. CASE Restart
    BY <2>2, <2>4 DEF Restart, CoreInv, TypeOK
  <2>5. CASE ChangeSettings \/ Unload
    BY <2>5 DEF ChangeSettings, Unload, Killed, lists
  <2>6. CASE \E s \in Numbers : Activate(s) \/ Close(s)
    BY <2>6 DEF Activate, Close
  <2>7. CASE \E j \in Starts : SpawnPty(j) \/ SpawnFails(j)
    BY <2>7 DEF SpawnPty, SpawnFails, CoreInv, TypeOK
  <2>8. CASE \E j \in Starts, found \in BOOLEAN : ResolveExecutable(j, found)
    BY <2>8 DEF ResolveExecutable, CoreInv, TypeOK
  <2> QED
    BY <2>1, <2>3, <2>4, <2>5, <2>6, <2>7, <2>8 DEF Next
<1> QED
  BY <1>1, InitCore, NextCore, PTL DEF Spec, ExitIsOwn

-----------------------------------------------------------------------------
\* What holds of a start, unless its session was restarted or closed while it
\* started.

\* A start under way is the only one of its open session, which has no process
\* and was not started with other settings since.
OnlyStart(k) ==
  LET s == sessionOf[k] IN
  /\ s \in sessions /\ ~unloaded
  /\ pty[s] = None
  /\ taken[k] = launch[s]
  /\ \A j \in Starts \ {k} :
       sessionOf[j] = s => phase[j] \notin Waiting \cup {"running"}

\* A process is the one its open session knows and shows.
OnlyProcess(k) ==
  LET s == sessionOf[k] IN
  /\ s \in sessions /\ ~unloaded
  /\ pty[s] = k /\ status[s] = "running"
  /\ taken[k] = launch[s] /\ folder[k] = launch[s]

StartInv ==
  \A k \in Starts : sessionOf[k] \notin overtaken =>
    /\ phase[k] \in Waiting => OnlyStart(k)
    /\ phase[k] = "running" => OnlyProcess(k)

\* The status of an open session agrees with the process it knows.
StatusInv ==
  unloaded \/ \A s \in sessions :
    /\ status[s] = "running" => pty[s] # None
    /\ status[s] \in {"starting", "exited"} => pty[s] = None

FullInv == CoreInv /\ StatusInv /\ StartInv

LEMMA InitFull == Init => FullInv
BY InitCore DEF Init, FullInv, StatusInv, StartInv, Waiting

\* Begin, of a session none of whose starts is under way or else overtaken.
LEMMA BeginFull ==
  ASSUME FullInv, NEW s \in Numbers, Begin(s), s \in sessions', ~unloaded,
         unloaded' = FALSE, sessions \subseteq sessions',
         sessions' \subseteq sessions \cup {s}, folder' = folder,
         overtaken \subseteq overtaken',
         s \notin overtaken' => Of(s, Waiting) = {}
  PROVE  StatusInv' /\ StartInv'
<1>1. nextStart \in Starts
  BY SessionsAssumption DEF Begin, FullInv, CoreInv, TypeOK, Starts
<1>2. /\ phase'[nextStart] = "resolving" /\ sessionOf'[nextStart] = s
      /\ taken'[nextStart] = settings /\ launch'[s] = settings
      /\ pty'[s] = None /\ status'[s] = "starting"
  BY <1>1 DEF Begin, Killed, FullInv, CoreInv, TypeOK
<1>3. \A t \in Numbers \ {s} :
        /\ pty'[t] = pty[t] /\ status'[t] = status[t] /\ launch'[t] = launch[t]
  BY DEF Begin, FullInv, CoreInv, TypeOK
<1>4. \A k \in Starts \ {nextStart} :
        /\ phase'[k] = Killed({s})[k]
        /\ sessionOf'[k] = sessionOf[k] /\ taken'[k] = taken[k]
  BY <1>1 DEF Begin, Killed, FullInv, CoreInv, TypeOK
<1>5. StatusInv'
  BY <1>2, <1>3 DEF StatusInv, FullInv, CoreInv, TypeOK
<1>6. ASSUME NEW k \in Starts \ {nextStart}, sessionOf[k] = s, s \notin overtaken'
      PROVE  phase'[k] \notin Waiting \cup {"running"}
  <2>1. phase[k] \notin Waiting
    BY <1>6 DEF Of
  <2>2. phase[k] = "running" => pty[s] = k
    BY <1>6 DEF FullInv, StartInv, OnlyProcess
  <2> QED
    BY <1>4, <2>1, <2>2 DEF Killed, Waiting
<1>7. ASSUME NEW k \in Starts, sessionOf'[k] \notin overtaken'
      PROVE  /\ phase'[k] \in Waiting => OnlyStart(k)'
             /\ phase'[k] = "running" => OnlyProcess(k)'
  <2>1. CASE k = nextStart
    BY <1>2, <1>4, <1>6, <1>7, <2>1 DEF OnlyStart, Waiting
  <2>2. CASE k # nextStart /\ sessionOf[k] = s
    BY <1>4, <1>6, <1>7, <2>2
  <2>3. CASE k # nextStart /\ sessionOf[k] # s
    <3>1. /\ phase'[k] \in Waiting => phase[k] \in Waiting
          /\ phase'[k] = "running" => phase[k] = "running"
      BY <1>4, <2>3 DEF Killed, Waiting
    <3>2. phase[k] \in Waiting \cup {"running"} => sessionOf[k] \in Numbers
      BY DEF FullInv, CoreInv, FreshInv, Waiting
    <3>3. sessionOf'[k] = sessionOf[k] /\ sessionOf[k] \notin overtaken
      BY <1>4, <1>7, <2>3
    <3>4. phase'[k] \in Waiting => OnlyStart(k)'
      <4> SUFFICES ASSUME phase'[k] \in Waiting PROVE OnlyStart(k)'
        OBVIOUS
      <4>1. OnlyStart(k)
        BY <3>1, <3>3 DEF FullInv, StartInv
      <4>2. \A j \in Starts \ {k} : sessionOf'[j] = sessionOf[k] =>
              phase'[j] \notin Waiting \cup {"running"}
        BY <1>2, <1>4, <2>3, <4>1 DEF OnlyStart, Killed, Waiting
      <4> QED
        BY <1>3, <1>4, <2>3, <3>1, <3>2, <3>3, <4>1, <4>2 DEF OnlyStart
    <3>5. phase'[k] = "running" => OnlyProcess(k)'
      BY <1>3, <1>4, <2>3, <3>1, <3>2, <3>3 DEF OnlyProcess, FullInv, StartInv
    <3> QED
      BY <3>4, <3>5
  <2> QED
    BY <2>1, <2>2, <2>3
<1> QED
  BY <1>5, <1>7 DEF StartInv

LEMMA StartSessionFull ==
  ASSUME FullInv, StartSession
  PROVE  StatusInv' /\ StartInv'
<1>1. nextNumber \in Numbers
  BY SessionsAssumption DEF StartSession, FullInv, CoreInv, TypeOK, Numbers
<1>2. Of(nextNumber, Waiting) = {}
  BY <1>1, SessionsAssumption
     DEF Of, Waiting, FullInv, CoreInv, FreshInv, TypeOK, Numbers
<1> QED
  BY <1>1, <1>2, BeginFull DEF StartSession, OnPage

LEMMA RestartFull ==
  ASSUME FullInv, Restart
  PROVE  StatusInv' /\ StartInv'
<1>1. active \in sessions /\ active \in Numbers
  BY DEF Restart, FullInv, CoreInv, ShowsOpenSession, TypeOK
<1>2. /\ overtaken \subseteq overtaken'
      /\ active \notin overtaken' => Of(active, Waiting) = {}
  BY DEF Restart, Overtakes
<1> QED
  BY <1>1, <1>2, BeginFull DEF Restart, OnPage

LEMMA ResolveExecutableFull ==
  ASSUME FullInv, NEW k \in Starts, NEW found \in BOOLEAN,
         ResolveExecutable(k, found)
  PROVE  StatusInv' /\ StartInv'
<1>1. StatusInv'
  BY DEF ResolveExecutable, OnPage, lists, FullInv, CoreInv, TypeOK, StatusInv
<1>2. ASSUME NEW j \in Starts, sessionOf[j] \notin overtaken, phase'[j] \in Waiting
      PROVE  OnlyStart(j)'
  <2>1. OnlyStart(j)
    BY <1>2 DEF ResolveExecutable, FullInv, CoreInv, TypeOK, StartInv, Waiting
  <2>2. \A i \in Starts : phase'[i] \in Waiting \cup {"running"} =>
                          phase[i] \in Waiting \cup {"running"}
    BY DEF ResolveExecutable, FullInv, CoreInv, TypeOK, Waiting
  <2> QED
    BY <2>1, <2>2 DEF ResolveExecutable, OnPage, lists, OnlyStart
<1>3. ASSUME NEW j \in Starts, sessionOf[j] \notin overtaken, phase'[j] = "running"
      PROVE  OnlyProcess(j)'
  <2>1. j # k /\ phase[j] = "running"
    BY <1>3 DEF ResolveExecutable, FullInv, CoreInv, TypeOK
  <2>2. OnlyProcess(j)
    BY <1>3, <2>1 DEF FullInv, StartInv
  <2>3. sessionOf[k] # sessionOf[j]
    BY <1>3, <2>1, <2>2
       DEF ResolveExecutable, FullInv, StartInv, OnlyStart, Waiting
  <2> QED
    BY <2>2, <2>3 DEF ResolveExecutable, OnPage, lists, OnlyProcess, FullInv,
       CoreInv, TypeOK
<1> QED
  BY <1>1, <1>2, <1>3 DEF ResolveExecutable, lists, StartInv

LEMMA SpawnPtyFull ==
  ASSUME FullInv, NEW k \in Starts, SpawnPty(k)
  PROVE  StatusInv' /\ StartInv'
<1> DEFINE s == sessionOf[k]
<1>1. s \in Numbers /\ phase[k] \in Waiting
  BY DEF SpawnPty, FullInv, CoreInv, FreshInv, Waiting
<1>2. StatusInv'
  BY <1>1 DEF SpawnPty, OnPage, lists, FullInv, CoreInv, TypeOK, StatusInv,
     None, Starts
<1>3. ASSUME NEW j \in Starts, sessionOf[j] \notin overtaken, phase'[j] \in Waiting
      PROVE  OnlyStart(j)'
  <2>1. j # k /\ phase[j] \in Waiting
    BY <1>3 DEF SpawnPty, FullInv, CoreInv, TypeOK, Waiting
  <2>2. OnlyStart(j)
    BY <1>3, <2>1 DEF FullInv, StartInv
  <2>3. sessionOf[j] # s
    BY <1>1, <2>1, <2>2 DEF OnlyStart
  <2> QED
    BY <1>1, <2>1, <2>2, <2>3 DEF SpawnPty, OnPage, lists, OnlyStart, FullInv,
       CoreInv, TypeOK
<1>4. ASSUME NEW j \in Starts, sessionOf[j] \notin overtaken, phase'[j] = "running"
      PROVE  OnlyProcess(j)'
  <2>1. CASE j = k
    <3>1. OnlyStart(k)
      BY <1>1, <1>4, <2>1 DEF FullInv, StartInv
    <3> QED
      BY <1>1, <2>1, <3>1 DEF SpawnPty, OnPage, lists, Folder, OnlyStart,
         OnlyProcess, FullInv, CoreInv, TypeOK
  <2>2. CASE j # k
    <3>1. phase[j] = "running" /\ OnlyProcess(j)
      BY <1>4, <2>2 DEF SpawnPty, FullInv, CoreInv, TypeOK, StartInv
    <3>2. sessionOf[j] # s
      BY <1>1, <1>4, <2>2, <3>1 DEF FullInv, StartInv, OnlyStart
    <3> QED
      BY <1>1, <2>2, <3>1, <3>2 DEF SpawnPty, OnPage, lists, OnlyProcess,
         FullInv, CoreInv, TypeOK
  <2> QED
    BY <2>1, <2>2
<1> QED
  BY <1>2, <1>3, <1>4 DEF SpawnPty, lists, StartInv

LEMMA SpawnFailsFull ==
  ASSUME FullInv, NEW k \in Starts, SpawnFails(k)
  PROVE  StatusInv' /\ StartInv'
<1>1. StatusInv'
  BY DEF SpawnFails, OnPage, lists, FullInv, CoreInv, TypeOK, StatusInv
<1>2. ASSUME NEW j \in Starts, sessionOf[j] \notin overtaken, phase'[j] \in Waiting
      PROVE  OnlyStart(j)'
  <2>1. OnlyStart(j)
    BY <1>2 DEF SpawnFails, FullInv, CoreInv, TypeOK, StartInv, Waiting
  <2>2. \A i \in Starts : phase'[i] \in Waiting \cup {"running"} =>
                          phase[i] \in Waiting \cup {"running"}
    BY DEF SpawnFails, FullInv, CoreInv, TypeOK, Waiting
  <2> QED
    BY <2>1, <2>2 DEF SpawnFails, OnPage, lists, OnlyStart
<1>3. ASSUME NEW j \in Starts, sessionOf[j] \notin overtaken, phase'[j] = "running"
      PROVE  OnlyProcess(j)'
  <2>1. j # k /\ phase[j] = "running"
    BY <1>3 DEF SpawnFails, FullInv, CoreInv, TypeOK
  <2>2. OnlyProcess(j)
    BY <1>3, <2>1 DEF FullInv, StartInv
  <2>3. sessionOf[k] # sessionOf[j]
    BY <1>3, <2>1, <2>2 DEF SpawnFails, FullInv, StartInv, OnlyStart, Waiting
  <2> QED
    BY <2>2, <2>3 DEF SpawnFails, OnPage, lists, OnlyProcess, FullInv, CoreInv,
       TypeOK
<1> QED
  BY <1>1, <1>2, <1>3 DEF SpawnFails, lists, StartInv

LEMMA ExitFull ==
  ASSUME FullInv, NEW k \in Starts, Exit(k)
  PROVE  StatusInv' /\ StartInv'
<1> DEFINE s == sessionOf[k]
<1>1. s \in Numbers
  BY DEF Exit, FullInv, CoreInv, FreshInv
<1>2. StatusInv'
  BY <1>1 DEF Exit, OnPage, lists, SpeaksFor, FullInv, CoreInv, TypeOK, StatusInv
<1>3. ASSUME NEW j \in Starts, sessionOf[j] \notin overtaken, phase'[j] \in Waiting
      PROVE  OnlyStart(j)'
  <2>1. OnlyStart(j)
    BY <1>3 DEF Exit, FullInv, CoreInv, TypeOK, StartInv, Waiting
  <2>2. \A i \in Starts : phase'[i] \in Waiting \cup {"running"} =>
                          phase[i] \in Waiting \cup {"running"}
    BY DEF Exit, FullInv, CoreInv, TypeOK, Waiting
  <2>3. pty'[sessionOf[j]] = None
    BY <1>1, <2>1 DEF Exit, OnlyStart, FullInv, CoreInv, TypeOK
  <2> QED
    BY <2>1, <2>2, <2>3 DEF Exit, OnPage, lists, OnlyStart
<1>4. ASSUME NEW j \in Starts, sessionOf[j] \notin overtaken, phase'[j] = "running"
      PROVE  OnlyProcess(j)'
  <2>1. j # k /\ phase[j] = "running"
    BY <1>4 DEF Exit, FullInv, CoreInv, TypeOK
  <2>2. OnlyProcess(j)
    BY <1>4, <2>1 DEF FullInv, StartInv
  <2> QED
    BY <1>1, <2>1, <2>2 DEF Exit, SpeaksFor, OnPage, lists, OnlyProcess, FullInv,
       CoreInv, TypeOK
<1> QED
  BY <1>2, <1>3, <1>4 DEF Exit, lists, StartInv

LEMMA CloseFull ==
  ASSUME FullInv, NEW s \in Numbers, Close(s)
  PROVE  StatusInv' /\ StartInv'
<1>1. /\ overtaken \subseteq overtaken'
      /\ s \notin overtaken' => Of(s, Waiting) = {}
  BY DEF Close, Overtakes
<1>2. StatusInv'
  BY DEF Close, OnPage, FullInv, CoreInv, TypeOK, StatusInv
<1>3. ASSUME NEW k \in Starts, sessionOf[k] \notin overtaken',
             phase'[k] \in Waiting \cup {"running"}
      PROVE  sessionOf[k] # s /\ phase'[k] = phase[k]
  <2>1. phase'[k] = phase[k] /\ (phase[k] = "running" => pty[s] # k)
    BY <1>3 DEF Close, Killed, Waiting
  <2>2. phase[k] \in Waiting => sessionOf[k] # s
    BY <1>1, <1>3 DEF Of
  <2>3. phase[k] = "running" => sessionOf[k] # s
    BY <1>1, <1>3, <2>1 DEF FullInv, StartInv, OnlyProcess
  <2> QED
    BY <1>3, <2>1, <2>2, <2>3
<1>4. ASSUME NEW k \in Starts, sessionOf[k] \notin overtaken', phase'[k] \in Waiting
      PROVE  OnlyStart(k)'
  <2>1. sessionOf[k] # s /\ OnlyStart(k)
    BY <1>1, <1>3, <1>4 DEF FullInv, StartInv
  <2>2. \A j \in Starts : phase'[j] \in Waiting \cup {"running"} =>
                          phase[j] = phase'[j]
    BY DEF Close, Killed, Waiting
  <2> QED
    BY <2>1, <2>2 DEF Close, OnPage, OnlyStart, FullInv, CoreInv, TypeOK
<1>5. ASSUME NEW k \in Starts, sessionOf[k] \notin overtaken', phase'[k] = "running"
      PROVE  OnlyProcess(k)'
  <2>1. sessionOf[k] # s /\ OnlyProcess(k)
    BY <1>1, <1>3, <1>5 DEF FullInv, StartInv
  <2> QED
    BY <2>1 DEF Close, OnPage, OnlyProcess, FullInv, CoreInv, TypeOK
<1> QED
  BY <1>2, <1>4, <1>5 DEF Close, StartInv

\* The page leaves no start and, but for overtaken ones, no process behind.
LEMMA UnloadFull ==
  ASSUME FullInv, Unload
  PROVE  StatusInv' /\ StartInv'
<1>1. StatusInv'
  BY DEF Unload, StatusInv
<1>2. \A k \in Starts : phase'[k] \notin Waiting
  BY DEF Unload, Killed, Waiting
<1>3. \A k \in Starts : phase'[k] = "running" => sessionOf[k] \in overtaken
  BY DEF Unload, Killed, Waiting, FullInv, StartInv, OnlyProcess
<1> QED
  BY <1>1, <1>2, <1>3 DEF Unload, lists, StartInv

LEMMA NextFull == FullInv /\ [Next]_vars => FullInv'
<1> SUFFICES ASSUME FullInv, [Next]_vars PROVE FullInv'
  OBVIOUS
<1>1. CoreInv'
  BY NextCore DEF FullInv
<1>2. ASSUME UNCHANGED vars PROVE StatusInv' /\ StartInv'
  BY <1>2 DEF vars, FullInv, StatusInv, StartInv, OnlyStart, OnlyProcess
<1>3. ASSUME NEW s \in Numbers, Activate(s) PROVE StatusInv' /\ StartInv'
  BY <1>3 DEF Activate, OnPage, FullInv, StatusInv, StartInv, OnlyStart,
     OnlyProcess
<1>4. ASSUME ChangeSettings PROVE StatusInv' /\ StartInv'
  BY <1>4 DEF ChangeSettings, OnPage, lists, FullInv, StatusInv, StartInv,
     OnlyStart, OnlyProcess
<1>5. StatusInv' /\ StartInv'
  BY <1>2, <1>3, <1>4, StartSessionFull, RestartFull, ResolveExecutableFull,
     SpawnPtyFull, SpawnFailsFull, ExitFull, CloseFull, UnloadFull DEF Next
<1> QED
  BY <1>1, <1>5 DEF FullInv

\* The status of an open session tells the truth about its process.
THEOREM StatusIsAlwaysTrue == Spec => []StatusIsTrue
<1>1. FullInv => StatusIsTrue
  BY DEF FullInv, CoreInv, TypeOK, PtyInv, StatusInv, StatusIsTrue, Of
<1> QED
  BY <1>1, InitFull, NextFull, PTL DEF Spec

\* A session that was not overtaken is shown as running exactly while a process
\* of it runs.
THEOREM AlwaysShowsWhatRuns == Spec => []ShowsWhatRuns
<1>1. FullInv => ShowsWhatRuns
  BY DEF FullInv, CoreInv, TypeOK, PtyInv, StatusInv, StartInv, OnlyProcess,
     ShowsWhatRuns, Of
<1> QED
  BY <1>1, InitFull, NextFull, PTL DEF Spec

\* A session that claims to run with the current settings does.
THEOREM AlwaysNoticesOldSettings == Spec => []NoticesOldSettings
<1>1. FullInv => NoticesOldSettings
  BY DEF FullInv, CoreInv, TypeOK, PtyInv, StatusInv, StartInv, OnlyProcess,
     NoticesOldSettings
<1> QED
  BY <1>1, InitFull, NextFull, PTL DEF Spec

\* No process escapes its session, unless the session was overtaken.
THEOREM NeverOrphans == Spec => []NoOrphans
<1>1. FullInv => NoOrphans
  BY DEF FullInv, StartInv, OnlyProcess, NoOrphans
<1> QED
  BY <1>1, InitFull, NextFull, PTL DEF Spec
=============================================================================
