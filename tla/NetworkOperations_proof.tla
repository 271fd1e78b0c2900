---------------------- MODULE NetworkOperations_proof -----------------------
(***************************************************************************)
(* What holds of the operations of one repository for any number of calls, *)
(* objects and changes of the branch.                                      *)
(***************************************************************************)
EXTENDS NetworkOperations, TLAPS

----------------------------------------------------------------------------
\* The type invariant.

OpType == [at : Places, kind : Kinds, on : Objects, holds : BOOLEAN,
           read : Versions \cup {None}]

LEMMA NoneType == /\ None \notin Objects /\ None \notin Ops /\ None \notin Nat
                  /\ NoEntry \notin Nat /\ NoEntry # None
                  /\ 0 \in Versions
BY NetworkAssumption DEF Versions

LEMMA ShowType ==
  ASSUME TypeOK, NEW o \in Objects, NEW i \in Ops \cup {None}, Show(o, i)
  PROVE  progress' \in [Objects -> Ops \cup {None}]
BY DEF TypeOK, Show

LEMMA GoToType ==
  ASSUME TypeOK, NEW i \in Ops, NEW place \in Places, GoTo(i, place)
  PROVE  op' \in [Ops -> OpType]
BY DEF TypeOK, GoTo, OpType

LEMMA EnterType ==
  ASSUME TypeOK, NEW i \in Ops, NEW k \in Kinds, NEW o \in Objects,
         Enter(i, k, o)
  PROVE  /\ inProgress' \in [Objects -> BOOLEAN]
         /\ progress' \in [Objects -> Ops \cup {None}]
         /\ op' \in [Ops -> OpType]
<1>1. inProgress' \in [Objects -> BOOLEAN]
  BY DEF TypeOK, Enter
<1>2. progress' \in [Objects -> Ops \cup {None}]
  BY ShowType DEF TypeOK, Enter
<1>3. PICK place \in {"git", "mergeBase", "leaving"} :
        op' = [op EXCEPT ![i] = [@ EXCEPT !.at = place, !.kind = k, !.on = o,
                                          !.holds = TRUE]]
  BY DEF Enter
<1>4. place \in Places
  BY DEF Places, Sections
<1>5. op' \in [Ops -> OpType]
  BY <1>3, <1>4 DEF TypeOK, OpType
<1> QED
  BY <1>1, <1>2, <1>5

LEMMA WithRefreshedType ==
  ASSUME TypeOK, NEW i \in Ops, NEW k \in Kinds, NEW o \in Objects,
         WithRefreshed(i, k, o)
  PROVE  /\ inProgress' \in [Objects -> BOOLEAN]
         /\ progress' \in [Objects -> Ops \cup {None}]
         /\ op' \in [Ops -> OpType]
<1>1. CASE Enter(i, k, o)
  BY <1>1, EnterType
<1>2. CASE Skip(i, k, o)
  <2>1. AfterSkip(k) \in Places
    BY DEF AfterSkip, Places, Over
  <2>2. op' \in [Ops -> OpType]
    BY <1>2, <2>1 DEF Skip, TypeOK, OpType
  <2> QED
    BY <1>2, <2>2 DEF Skip, TypeOK
<1>3. CASE Unguarded(i, k, o)
  BY <1>3 DEF Unguarded, TypeOK, OpType, Places, Sections
<1>4. CASE /\ op' = [op EXCEPT ![i] = [@ EXCEPT !.kind = k, !.on = o,
                                              !.at = "associating"]]
           /\ UNCHANGED <<inProgress, progress>>
  BY <1>4 DEF TypeOK, OpType, Places
<1> QED
  BY <1>1, <1>2, <1>3, <1>4 DEF WithRefreshed, Perform

LEMMA TypeParts ==
  TypeOK <=>
    /\ current \in Objects
    /\ inProgress \in [Objects -> BOOLEAN]
    /\ progress \in [Objects -> Ops \cup {None}]
    /\ known \in [Objects -> Versions \cup {None}]
    /\ loaded \in SUBSET Objects
    /\ lookup \in Versions \cup {None, NoEntry}
    /\ tracking \in Versions
    /\ op \in [Ops -> OpType]
    /\ failed \in SUBSET Objects
    /\ overtaken \in BOOLEAN
BY DEF TypeOK, OpType

\* Where the operations go are places.
LEMMA PlacesType ==
  ASSUME NEW i \in Ops
  PROVE  /\ AfterThrow(i) \in Places
         /\ AfterRefresh(i) \in Places
         /\ AfterLeaving(i) \in Places
         /\ CountsAgain(i) \subseteq Places
         /\ Sections \subseteq Places
<1>1. AfterThrow(i) \in {"aborting", "ending", "done"}
  BY DEF AfterThrow
<1>2. AfterRefresh(i) \in {"asking", "ending", "done"}
  BY DEF AfterRefresh
<1>3. AfterLeaving(i) \in {"clearing", "done", "aborted"}
  BY DEF AfterLeaving
<1>4. CountsAgain(i) \subseteq {"counting", "reading"}
  BY DEF CountsAgain
<1>5. {"aborting", "ending", "done", "aborted", "asking", "clearing",
       "counting", "reading"} \subseteq Places /\ Sections \subseteq Places
  BY DEF Places, Over, Sections
<1> QED
  BY <1>1, <1>2, <1>3, <1>4, <1>5

LEMMA StepTypeOK ==
  ASSUME TypeOK, NEW i \in Ops, Step(i)
  PROVE  TypeOK'
<1>1. CASE Associated(i)
  <2>1. op[i].kind \in Kinds /\ op[i].on \in Objects
    BY TypeParts DEF OpType
  <2>2. PICK o \in Objects : current' \in Objects /\ Perform(i, op[i].kind, o)
    BY <1>1, <2>1 DEF Associated, TypeOK
  <2> QED
    BY <1>1, <2>1, <2>2, WithRefreshedType, TypeParts
    DEF Associated, WithRefreshed, TypeOK, OpType
<1>2. CASE MergeBase(i)
  BY <1>2, ShowType, GoToType
  DEF MergeBase, TypeOK, OpType, Places, Sections
<1>3. CASE GitEnds(i)
  <2>1. tracking' \in Versions /\ overtaken' \in BOOLEAN
    BY <1>3 DEF GitEnds, TypeOK
  <2>2. op' \in [Ops -> OpType]
    <3>1. CASE GoTo(i, "ending")
      BY <3>1, GoToType DEF Places, Sections
    <3>2. CASE \E place \in CountsAgain(i) :
                 op' = [op EXCEPT ![i].at = place, ![i].read = tracking']
      <4>1. PICK place \in Places :
              op' = [op EXCEPT ![i].at = place, ![i].read = tracking']
        BY <3>2, PlacesType
      <4>2. op' = [op EXCEPT ![i] = [@ EXCEPT !.at = place,
                                              !.read = tracking']]
        BY <4>1 DEF TypeOK
      <4> QED
        BY <2>1, <4>2 DEF TypeOK, OpType
    <3> QED
      BY <1>3, <3>1, <3>2 DEF GitEnds
  <2> QED
    BY <1>3, <2>1, <2>2 DEF GitEnds, TypeOK, OpType
<1>4. CASE Counted(i)
  BY <1>4 DEF Counted, GoTo, TypeOK, Places, Sections
<1>5. CASE ReadsStatus(i)
  <2>1. PICK r \in Versions \cup {None} :
          op' = [op EXCEPT ![i].at = "status", ![i].read = r]
    BY <1>5 DEF ReadsStatus, TypeOK
  <2>2. op' = [op EXCEPT ![i] = [@ EXCEPT !.at = "status", !.read = r]]
    BY <2>1 DEF TypeOK
  <2>3. op' \in [Ops -> OpType]
    BY <2>2 DEF TypeOK, OpType, Places, Sections
  <2>4. progress' \in [Objects -> Ops \cup {None}] /\ failed' \in SUBSET Objects
    BY <1>5, ShowType DEF ReadsStatus, TypeOK
  <2> QED
    BY <1>5, <2>3, <2>4 DEF ReadsStatus, TypeOK, OpType
<1>6. CASE TakesStatus(i)
  BY <1>6 DEF TakesStatus, GoTo, TypeOK, Places, Sections
<1>7. CASE ShowsStatus(i)
  <2>1. op' \in [Ops -> OpType] /\ op[i].read \in Versions \cup {None}
    BY <1>7, PlacesType, GoToType DEF ShowsStatus, TypeOK
  <2>2. /\ loaded' \in SUBSET Objects /\ failed' \in SUBSET Objects
        /\ lookup' \in Versions \cup {None, NoEntry}
    BY <1>7, <2>1 DEF ShowsStatus, TypeOK
  <2> QED
    BY <1>7, <2>1, <2>2 DEF ShowsStatus, TypeOK, OpType
<1>8. CASE Throws(i)
  BY <1>8, PlacesType, GoToType DEF Throws, TypeOK, OpType
<1>9. CASE Ends(i)
  BY <1>9, ShowType DEF Ends, GoTo, TypeOK, Places, Sections
<1>10. CASE Leaves(i)
  BY <1>10 DEF Leaves, FlagAfter, AfterLeaving, TypeOK, Places, Over, Sections
<1>11. CASE Asked(i)
  <2>1. op[i].on \in Objects /\ "indicator" \in Kinds
    BY DEF TypeOK, Kinds
  <2>2. CASE WithRefreshed(i, "indicator", op[i].on)
    BY <1>11, <2>1, <2>2, WithRefreshedType DEF Asked, TypeOK, OpType
  <2>3. CASE GoTo(i, "done") /\ UNCHANGED <<inProgress, progress>>
    BY <1>11, <2>3 DEF Asked, GoTo, TypeOK, Places, Over
  <2> QED
    BY <1>11, <2>2, <2>3 DEF Asked
<1>12. CASE Clears(i)
  BY <1>12, ShowType DEF Clears, GoTo, TypeOK, Places, Over
<1> QED
  BY <1>1, <1>2, <1>3, <1>4, <1>5, <1>6, <1>7, <1>8, <1>9, <1>10, <1>11,
     <1>12 DEF Step

LEMMA InitTypeOK == Init => TypeOK
<1> SUFFICES ASSUME Init PROVE TypeOK
  OBVIOUS
<1>1. "idle" \in Places /\ "refresh" \in Kinds
  BY DEF Places, Kinds
<1>2. op \in [Ops -> OpType]
  BY <1>1 DEF Init, OpType
<1> QED
  BY <1>2, NoneType DEF Init, TypeOK, OpType

LEMMA NextTypeOK == TypeOK /\ [Next]_vars => TypeOK'
<1> SUFFICES ASSUME TypeOK, [Next]_vars PROVE TypeOK'
  OBVIOUS
<1>1. ASSUME NEW i \in Ops, NEW k \in Guarded \cup {"refspec"}, Call(i, k)
      PROVE  TypeOK'
  <2>1. k \in Kinds /\ current \in Objects
    BY DEF Kinds, TypeOK
  <2> QED
    BY <1>1, <2>1, WithRefreshedType DEF Call, TypeOK, OpType
<1>2. ASSUME NEW i \in Ops, NEW k \in {"refresh", "indicator"}, Refresh(i, k)
      PROVE  TypeOK'
  BY <1>2 DEF Refresh, TypeOK, Kinds, Places, Sections
<1>3. ASSUME NEW i \in Ops, Reports(i) PROVE TypeOK'
  BY <1>3, ShowType DEF Reports, TypeOK
<1>4. ASSUME NEW i \in Ops, Step(i) PROVE TypeOK'
  BY <1>4, StepTypeOK
<1>5. CASE Renewed
  BY <1>5 DEF Renewed, TypeOK
<1>6. CASE UNCHANGED vars
  BY <1>6 DEF vars, TypeOK
<1> QED
  BY <1>1, <1>2, <1>3, <1>4, <1>5, <1>6 DEF Next

\* Every variable has its type: nothing an operation reads late or writes for
\* another object is anything but a version, an operation or an object.
THEOREM TypeCorrect == Spec => []TypeOK
BY InitTypeOK, NextTypeOK, PTL DEF Spec

----------------------------------------------------------------------------
\* Where an operation may be, by what it holds and by its kind.

LocalInv ==
  \A i \in Ops :
    /\ op[i].holds => op[i].at \in Sections
    /\ op[i].at \in {"mergeBase", "counting", "ending", "leaving", "aborting"}
         => op[i].holds
    /\ op[i].at = "git" /\ op[i].kind # "refspec" => op[i].holds
    /\ op[i].at \in {"clearing", "aborting"} => op[i].kind = "indicator"
    /\ op[i].kind = "refspec" => ~op[i].holds
    /\ op[i].kind = "indicator"
         /\ op[i].at \in {"reading", "status", "shown", "ending"}
         => ~op[i].holds
    /\ op[i].at = "asking" => op[i].kind = "indicator"

\* Who has not shown its progress yet, or has cleared it.
SilentInv ==
  \A i \in Ops, o \in Objects :
    \/ op[i].at = "mergeBase"
    \/ op[i].at = "leaving" /\ op[i].kind # "indicator"
    => progress[o] # i

Inv ==
  TypeOK /\ LocalInv /\ SilentInv /\ OneAtATime /\ ProgressIsOfRunning

\* The flags and the sections stay as they are.
LEMMA SectionsKept ==
  ASSUME OneAtATime, UNCHANGED inProgress,
         \A j \in Ops : /\ op'[j].holds <=> op[j].holds
                        /\ op[j].holds => op'[j].on = op[j].on
  PROVE  OneAtATime'
<1> SUFFICES ASSUME NEW o \in Objects
             PROVE  /\ \A i, j \in Ops :
                         /\ InSection(i)' /\ InSection(j)'
                         /\ op'[i].on = o /\ op'[j].on = o
                         => i = j
                    /\ inProgress'[o] <=> \E i \in Ops :
                                            InSection(i)' /\ op'[i].on = o
  BY DEF OneAtATime
<1>1. \A i, j \in Ops :
        InSection(i) /\ InSection(j) /\ op[i].on = o /\ op[j].on = o => i = j
  BY DEF OneAtATime
<1>2. inProgress[o] <=> \E i \in Ops : InSection(i) /\ op[i].on = o
  BY DEF OneAtATime
<1> QED
  BY <1>1, <1>2 DEF InSection

\* Nobody is in a section of an object whose flag is not set, and nobody who
\* is not in a section shows its progress, but for the indicator.
LEMMA EnterInv ==
  ASSUME Inv, NEW i \in Ops, NEW k \in Kinds \ {"refspec"}, NEW o \in Objects,
         op[i].at \in {"idle", "associating", "asking"},
         Enter(i, k, o), TypeOK'
  PROVE  LocalInv' /\ SilentInv' /\ OneAtATime' /\ ProgressIsOfRunning'
<1>1. PICK place \in {"git", "mergeBase", "leaving"} :
        /\ op' = [op EXCEPT ![i] = [@ EXCEPT !.at = place, !.kind = k,
                                             !.on = o, !.holds = TRUE]]
        /\ \/ progress' = progress
           \/ place = "git" /\ progress' = [progress EXCEPT ![o] = i]
  BY DEF Enter, Show
<1>2. /\ op'[i].at = place /\ op'[i].kind = k /\ op'[i].on = o
      /\ op'[i].holds /\ \A j \in Ops \ {i} : op'[j] = op[j]
  BY <1>1 DEF Inv, TypeOK
<1>3. ~op[i].holds /\ \A p \in Objects : progress[p] # i
  BY NoneType DEF Inv, TypeOK, LocalInv, Sections, ProgressIsOfRunning,
     InSection
<1>4. LocalInv'
  BY <1>2 DEF Inv, LocalInv, Sections
<1>5. SilentInv'
  BY <1>1, <1>2, <1>3 DEF Inv, TypeOK, SilentInv
<1>6. OneAtATime'
  <2> SUFFICES ASSUME NEW p \in Objects
               PROVE  /\ \A j, m \in Ops :
                           /\ InSection(j)' /\ InSection(m)'
                           /\ op'[j].on = p /\ op'[m].on = p
                           => j = m
                      /\ inProgress'[p] <=> \E j \in Ops :
                                              InSection(j)' /\ op'[j].on = p
    BY DEF OneAtATime
  <2>1. \A j, m \in Ops :
          InSection(j) /\ InSection(m) /\ op[j].on = p /\ op[m].on = p => j = m
    BY DEF Inv, OneAtATime
  <2>2. inProgress[p] <=> \E j \in Ops : InSection(j) /\ op[j].on = p
    BY DEF Inv, OneAtATime
  <2>3. ~inProgress[o] /\ inProgress' = [inProgress EXCEPT ![o] = TRUE]
    BY DEF Enter, MayEnter
  <2>4. CASE p = o
    BY <1>2, <1>3, <2>1, <2>2, <2>3, <2>4 DEF Inv, TypeOK, InSection
  <2>5. CASE p # o
    <3>1. inProgress'[p] <=> inProgress[p]
      BY <2>3, <2>5 DEF Inv, TypeOK
    <3> QED
      BY <1>2, <1>3, <2>1, <2>2, <2>5, <3>1 DEF InSection
  <2> QED
    BY <2>4, <2>5
<1>7. ProgressIsOfRunning'
  BY <1>2, <1>3 DEF Inv, TypeOK, ProgressIsOfRunning, InSection, Enter, Show
<1> QED
  BY <1>4, <1>5, <1>6, <1>7

\* An operation that goes on without entering holds nothing and shows nothing.
LEMMA PassInv ==
  ASSUME Inv, NEW i \in Ops,
         \/ op[i].at \in {"idle", "associating", "asking"}
         \/ op[i].at = "git" /\ op[i].kind = "refspec",
         \A j \in Ops \ {i} : op'[j] = op[j],
         ~op'[i].holds,
         \/ op'[i].at \in {"associating", "reading", "done"}
         \/ op'[i].at = "git" /\ op'[i].kind = "refspec"
         \/ op'[i].at \in {"clearing", "asking"} /\ op'[i].kind = "indicator",
         UNCHANGED <<inProgress, progress>>, TypeOK'
  PROVE  LocalInv' /\ SilentInv' /\ OneAtATime' /\ ProgressIsOfRunning'
<1>1. ~op[i].holds /\ \A p \in Objects : progress[p] # i
  BY NoneType DEF Inv, TypeOK, LocalInv, Sections, ProgressIsOfRunning,
     InSection
<1>2. LocalInv'
  BY DEF Inv, LocalInv
<1>3. SilentInv'
  BY <1>1 DEF Inv, SilentInv
<1>4. OneAtATime'
  BY <1>1, SectionsKept DEF Inv, TypeOK
<1>5. ProgressIsOfRunning'
  BY <1>1 DEF Inv, TypeOK, ProgressIsOfRunning, InSection
<1> QED
  BY <1>2, <1>3, <1>4, <1>5

LEMMA WithRefreshedInv ==
  ASSUME Inv, NEW i \in Ops, NEW k \in Kinds, NEW o \in Objects,
         op[i].at \in {"idle", "associating", "asking"},
         WithRefreshed(i, k, o), op[i].at = "asking" => k = "indicator", TypeOK'
  PROVE  LocalInv' /\ SilentInv' /\ OneAtATime' /\ ProgressIsOfRunning'
<1>1. ~op[i].holds
  BY DEF Inv, LocalInv, Sections
<1>2. CASE Enter(i, k, o) /\ k # "refspec"
  BY <1>2, EnterInv
<1>3. CASE Skip(i, k, o)
  <2>1. /\ \A j \in Ops \ {i} : op'[j] = op[j]
        /\ op'[i].kind = k /\ ~op'[i].holds /\ op'[i].at = AfterSkip(k)
    BY <1>3 DEF Skip, Inv, TypeOK
  <2> QED
    BY <1>3, <2>1, PassInv DEF Skip, AfterSkip
<1>4. CASE Unguarded(i, k, o) /\ k = "refspec"
  <2>1. /\ \A j \in Ops \ {i} : op'[j] = op[j]
        /\ op'[i].kind = k /\ ~op'[i].holds /\ op'[i].at = "git"
    BY <1>1, <1>4 DEF Unguarded, Inv, TypeOK
  <2> QED
    BY <1>4, <2>1, PassInv DEF Unguarded
<1>5. CASE /\ op' = [op EXCEPT ![i] = [@ EXCEPT !.kind = k, !.on = o,
                                              !.at = "associating"]]
           /\ UNCHANGED <<inProgress, progress>>
  <2>1. /\ \A j \in Ops \ {i} : op'[j] = op[j]
        /\ ~op'[i].holds /\ op'[i].at = "associating"
    BY <1>1, <1>5 DEF Inv, TypeOK
  <2> QED
    BY <1>5, <2>1, PassInv
<1> QED
  BY <1>2, <1>3, <1>4, <1>5 DEF WithRefreshed, Perform, Guarded

\* An operation that only goes to another place, and shows nothing new.
LEMMA MovesInv ==
  ASSUME Inv, NEW i \in Ops,
         \A j \in Ops \ {i} : op'[j] = op[j],
         op'[i].kind = op[i].kind, op'[i].on = op[i].on,
         op'[i].holds = op[i].holds,
         UNCHANGED <<inProgress, progress>>,
         op[i].holds \/ op[i].at \notin {"clearing", "aborted"}
  PROVE  OneAtATime' /\ ProgressIsOfRunning'
<1>0. \A j \in Ops : op'[j].holds = op[j].holds /\ op'[j].on = op[j].on
  OBVIOUS
<1>1. OneAtATime'
  BY <1>0, SectionsKept DEF Inv
<1>2. ProgressIsOfRunning'
  BY DEF Inv, TypeOK, ProgressIsOfRunning, InSection
<1> QED
  BY <1>1, <1>2

\* Nothing but who holds it decides who shows progress.
LEMMA ShowsInv ==
  ASSUME Inv, NEW i \in Ops, op[i].holds,
         \A j \in Ops \ {i} : op'[j] = op[j],
         op'[i].kind = op[i].kind, op'[i].on = op[i].on, op'[i].holds,
         UNCHANGED inProgress,
         Show(op[i].on, i) \/ Show(op[i].on, None)
  PROVE  OneAtATime' /\ ProgressIsOfRunning'
<1>1. OneAtATime'
  BY SectionsKept DEF Inv
<1>2. ProgressIsOfRunning'
  BY NoneType DEF Inv, TypeOK, ProgressIsOfRunning, InSection, Show
<1> QED
  BY <1>1, <1>2

\* Who holds an object shows its progress there and nobody else does.
LEMMA OneShows ==
  ASSUME Inv, NEW i \in Ops, op[i].holds
  PROVE  \A j \in Ops \ {i} : op[j].holds => op[j].on # op[i].on
BY DEF Inv, TypeOK, OneAtATime, InSection

LEMMA MergeBaseInv ==
  ASSUME Inv, NEW i \in Ops, MergeBase(i), TypeOK'
  PROVE  Inv'
<1>1. /\ \A j \in Ops \ {i} : op'[j] = op[j]
      /\ op'[i].kind = op[i].kind /\ op'[i].on = op[i].on
      /\ op'[i].holds = op[i].holds /\ op'[i].at \in {"git", "leaving"}
      /\ op[i].holds /\ op'[i].holds /\ op[i].on \in Objects
      /\ op[i].at = "mergeBase"
      /\ UNCHANGED inProgress
  BY DEF MergeBase, GoTo, Inv, TypeOK, LocalInv
<1>2. LocalInv'
  BY <1>1 DEF Inv, LocalInv, Sections
<1>3. CASE GoTo(i, "git") /\ Show(op[i].on, i)
  <2>1. op'[i].at = "git"
    BY <1>3 DEF GoTo, Inv, TypeOK
  <2>2. SilentInv'
    BY <1>1, <1>3, <2>1 DEF Show, Inv, TypeOK, SilentInv
  <2> QED
    BY <1>1, <1>2, <1>3, <2>2, ShowsInv DEF Inv
<1>4. CASE GoTo(i, "leaving") /\ UNCHANGED progress
  <2>1. SilentInv'
    BY <1>1, <1>4 DEF MergeBase, Inv, SilentInv
  <2> QED
    BY <1>1, <1>2, <1>4, <2>1, MovesInv DEF Inv
<1> QED
  BY <1>3, <1>4 DEF MergeBase

LEMMA ReportsInv ==
  ASSUME Inv, NEW i \in Ops, Reports(i), TypeOK'
  PROVE  Inv'
<1>1. op[i].holds /\ op' = op /\ UNCHANGED inProgress
  BY DEF Reports, Inv, LocalInv
<1>2. LocalInv'
  BY <1>1 DEF Inv, LocalInv
<1>3. SilentInv'
  BY <1>1 DEF Reports, Show, Inv, TypeOK, SilentInv
<1> QED
  BY <1>1, <1>2, <1>3, ShowsInv DEF Inv, Reports

LEMMA GitEndsInv ==
  ASSUME Inv, NEW i \in Ops, GitEnds(i), TypeOK'
  PROVE  Inv'
<1>1. /\ \A j \in Ops \ {i} : op'[j] = op[j]
      /\ op'[i].kind = op[i].kind /\ op'[i].on = op[i].on
      /\ op'[i].holds = op[i].holds
      /\ \/ op'[i].at \in CountsAgain(i)
         \/ op[i].kind = "push" /\ op'[i].at = "ending"
      /\ UNCHANGED <<inProgress, progress>>
  <2>1. CASE \E place \in CountsAgain(i) :
               op' = [op EXCEPT ![i].at = place, ![i].read = tracking']
    <3>1. PICK place \in CountsAgain(i) :
            op' = [op EXCEPT ![i].at = place, ![i].read = tracking']
      BY <2>1
    <3>2. op' = [op EXCEPT ![i] = [@ EXCEPT !.at = place, !.read = tracking']]
      BY <3>1 DEF Inv, TypeOK
    <3> QED
      BY <3>2 DEF GitEnds, Inv, TypeOK
  <2>2. CASE op[i].kind = "push" /\ GoTo(i, "ending")
    BY <2>2 DEF GitEnds, GoTo, Inv, TypeOK
  <2> QED
    BY <2>1, <2>2 DEF GitEnds
<1>2. /\ op[i].at = "git"
      /\ op'[i].at \in {"counting", "reading", "ending"}
      /\ op'[i].at \in {"counting", "ending"} => op[i].kind # "refspec"
      /\ op[i].kind = "indicator" => op'[i].at = "counting"
  BY <1>1 DEF GitEnds, CountsAgain
<1>3. LocalInv'
  BY <1>1, <1>2 DEF Inv, LocalInv, Sections
<1>4. SilentInv'
  BY <1>1, <1>2 DEF Inv, SilentInv
<1> QED
  BY <1>1, <1>2, <1>3, <1>4, MovesInv DEF Inv

\* The steps that take what git said, and those that throw.
LEMMA GoesOnInv ==
  ASSUME Inv, NEW i \in Ops, NEW place, GoTo(i, place),
         op[i].at \in {"counting", "status", "shown"},
         \/ op[i].at = "counting" /\ op[i].kind = "indicator"
              /\ place = "leaving"
         \/ op[i].at = "counting" /\ op[i].kind # "indicator"
              /\ place = "reading"
         \/ op[i].at = "status" /\ place = "shown"
         \/ op[i].at = "shown" /\ place = AfterRefresh(i)
         \/ op[i].at # "status" /\ place = AfterThrow(i),
         UNCHANGED <<inProgress, progress>>, TypeOK'
  PROVE  Inv'
<1>1. /\ \A j \in Ops \ {i} : op'[j] = op[j]
      /\ op'[i].kind = op[i].kind /\ op'[i].on = op[i].on
      /\ op'[i].holds = op[i].holds /\ op'[i].at = place
  BY DEF GoTo, Inv, TypeOK
<1>2. LocalInv'
  <2>1. op[i].at = "shown" /\ op[i].kind = "indicator" => ~op[i].holds
    BY DEF Inv, LocalInv
  <2>2. op[i].at = "counting" => op[i].holds
    BY DEF Inv, LocalInv
  <2>3. op[i].at = "shown" /\ ~op[i].holds => place \in {"asking", "done"}
    BY DEF AfterRefresh, AfterThrow
  <2>4. op[i].at = "shown" /\ op[i].holds => place = "ending"
    BY <2>1 DEF AfterRefresh, AfterThrow
  <2>5. place = "asking" => op[i].kind = "indicator"
    BY DEF AfterRefresh, AfterThrow
  <2>6. op[i].at = "counting" =>
          \/ op[i].kind = "indicator" /\ place = "leaving"
          \/ op[i].kind # "indicator" /\ place \in {"reading", "ending"}
          \/ op[i].kind = "indicator" /\ place = "aborting"
    <3>1. CASE op[i].at = "counting" /\ op[i].kind = "indicator"
      <4>1. AfterThrow(i) = "aborting"
        BY <2>2, <3>1 DEF AfterThrow
      <4> QED
        BY <3>1, <4>1
    <3>2. CASE op[i].at = "counting" /\ op[i].kind # "indicator"
      <4>1. AfterThrow(i) = "ending"
        BY <2>2, <3>2 DEF AfterThrow
      <4> QED
        BY <3>2, <4>1
    <3> QED
      BY <3>1, <3>2
  <2>7. op[i].at = "shown" /\ place = "ending" => op[i].holds
    BY <2>3
  <2>8. op[i].at = "status" => place = "shown"
    OBVIOUS
  <2>9. op'[i].holds => op'[i].at \in Sections
    BY <1>1, <2>4, <2>6, <2>8 DEF Sections
  <2>10. \A j \in Ops \ {i} : op'[j] = op[j]
    BY <1>1
  <2>11. /\ op'[i].at \in {"mergeBase", "counting", "ending", "leaving",
                            "aborting"} => op'[i].holds
         /\ op'[i].at \in {"clearing", "aborting"} => op'[i].kind = "indicator"
         /\ op'[i].at # "git"
         /\ op'[i].kind = "refspec" => ~op'[i].holds
         /\ op'[i].at = "asking" => op'[i].kind = "indicator"
    BY <1>1, <2>2, <2>3, <2>4, <2>5, <2>6, <2>8 DEF Inv, LocalInv
  <2>12. op'[i].kind = "indicator"
           /\ op'[i].at \in {"reading", "status", "shown", "ending"}
           => ~op'[i].holds
    <3>1. op[i].kind = "indicator" /\ op[i].at = "status" => ~op[i].holds
      BY DEF Inv, LocalInv
    <3> QED
      BY <1>1, <2>1, <2>3, <2>4, <2>6, <2>8, <3>1
  <2> QED
    BY <2>9, <2>10, <2>11, <2>12 DEF Inv, LocalInv
<1>3. SilentInv'
  BY <1>1 DEF Inv, SilentInv, AfterRefresh, AfterThrow
<1> QED
  BY <1>1, <1>2, <1>3, MovesInv DEF Inv

LEMMA ReadsStatusInv ==
  ASSUME Inv, NEW i \in Ops, ReadsStatus(i), TypeOK'
  PROVE  Inv'
<1>1. /\ \A j \in Ops \ {i} : op'[j] = op[j]
      /\ op'[i].kind = op[i].kind /\ op'[i].on = op[i].on
      /\ op'[i].holds = op[i].holds /\ op'[i].at = "status"
      /\ op[i].at = "reading"
      /\ UNCHANGED inProgress
  BY DEF ReadsStatus, Inv, TypeOK
<1>2. LocalInv'
  BY <1>1 DEF Inv, LocalInv, Sections
<1>3. CASE op[i].holds /\ Show(op[i].on, i)
  <2>1. SilentInv'
    BY <1>1, <1>3 DEF Show, Inv, TypeOK, SilentInv
  <2> QED
    BY <1>1, <1>2, <1>3, <2>1, ShowsInv DEF Inv
<1>4. CASE UNCHANGED progress
  <2>1. SilentInv'
    BY <1>1, <1>4 DEF Inv, SilentInv
  <2> QED
    BY <1>1, <1>2, <1>4, <2>1, MovesInv DEF Inv
<1> QED
  BY <1>3, <1>4 DEF ReadsStatus

LEMMA EndsInv ==
  ASSUME Inv, NEW i \in Ops, Ends(i), TypeOK'
  PROVE  Inv'
<1>1. /\ \A j \in Ops \ {i} : op'[j] = op[j]
      /\ op'[i].kind = op[i].kind /\ op'[i].on = op[i].on
      /\ op'[i].holds = op[i].holds /\ op'[i].at = "leaving"
      /\ op[i].holds /\ op'[i].holds
      /\ UNCHANGED inProgress
  BY DEF Ends, GoTo, Inv, TypeOK, LocalInv
<1>2. LocalInv'
  BY <1>1 DEF Inv, LocalInv, Sections
<1>3. \A o \in Objects : progress'[o] # i
  BY NoneType DEF Ends, Show, Inv, TypeOK, ProgressIsOfRunning
<1>4. SilentInv'
  BY <1>1, <1>3, NoneType DEF Ends, Show, Inv, TypeOK, SilentInv
<1> QED
  BY <1>1, <1>2, <1>4, ShowsInv DEF Inv, Ends

LEMMA LeavesInv ==
  ASSUME Inv, NEW i \in Ops, Leaves(i), TypeOK'
  PROVE  Inv'
<1>1. /\ \A j \in Ops \ {i} : op'[j] = op[j]
      /\ op'[i].kind = op[i].kind /\ op'[i].on = op[i].on
      /\ ~op'[i].holds /\ op'[i].at = AfterLeaving(i)
      /\ op[i].holds /\ op[i].on \in Objects
      /\ inProgress' = [inProgress EXCEPT ![op[i].on] = FALSE]
      /\ UNCHANGED progress
  BY DEF Leaves, FlagAfter, Inv, TypeOK, LocalInv
<1>2. LocalInv'
  BY <1>1 DEF Inv, LocalInv, AfterLeaving
<1>3. SilentInv'
  BY <1>1 DEF Inv, SilentInv, AfterLeaving
<1>4. OneAtATime'
  <2> SUFFICES ASSUME NEW o \in Objects
               PROVE  /\ \A j, m \in Ops :
                           /\ InSection(j)' /\ InSection(m)'
                           /\ op'[j].on = o /\ op'[m].on = o
                           => j = m
                      /\ inProgress'[o] <=> \E j \in Ops :
                                              InSection(j)' /\ op'[j].on = o
    BY DEF OneAtATime
  <2>1. \A j, m \in Ops :
          InSection(j) /\ InSection(m) /\ op[j].on = o /\ op[m].on = o => j = m
    BY DEF Inv, OneAtATime
  <2>2. inProgress[o] <=> \E j \in Ops : InSection(j) /\ op[j].on = o
    BY DEF Inv, OneAtATime
  <2>3. CASE o = op[i].on
    BY <1>1, <2>1, <2>3 DEF Inv, TypeOK, InSection
  <2>4. CASE o # op[i].on
    <3>1. inProgress'[o] <=> inProgress[o]
      BY <1>1, <2>4 DEF Inv, TypeOK
    <3> QED
      BY <1>1, <2>1, <2>2, <2>4, <3>1 DEF InSection
  <2> QED
    BY <2>3, <2>4
<1>5. ProgressIsOfRunning'
  <2>1. op[i].at = "aborting" => op[i].kind = "indicator"
    BY DEF Inv, LocalInv
  <2>2. op[i].at = "leaving" /\ op[i].kind # "indicator"
          => \A o \in Objects : progress[o] # i
    BY DEF Inv, SilentInv
  <2>3. op[i].at \in {"leaving", "aborting"}
    BY DEF Leaves
  <2> QED
    BY <1>1, <2>1, <2>2, <2>3
    DEF Inv, TypeOK, ProgressIsOfRunning, InSection, AfterLeaving
<1> QED
  BY <1>2, <1>3, <1>4, <1>5 DEF Inv

LEMMA ClearsInv ==
  ASSUME Inv, NEW i \in Ops, Clears(i), TypeOK'
  PROVE  Inv'
<1>1. /\ \A j \in Ops \ {i} : op'[j] = op[j]
      /\ op'[i].kind = op[i].kind /\ op'[i].on = op[i].on
      /\ op'[i].holds = op[i].holds /\ op'[i].at = "done"
      /\ ~op[i].holds /\ UNCHANGED inProgress
      /\ progress' = [progress EXCEPT ![op[i].on] = None]
  BY DEF Clears, GoTo, Show, Inv, TypeOK, LocalInv, Sections
<1>2. LocalInv'
  BY <1>1 DEF Inv, LocalInv
<1>3. SilentInv'
  BY <1>1, NoneType DEF Inv, TypeOK, SilentInv
<1>4. OneAtATime'
  BY <1>1, SectionsKept DEF Inv
<1>5. ProgressIsOfRunning'
  BY <1>1, NoneType DEF Inv, TypeOK, ProgressIsOfRunning, InSection
<1> QED
  BY <1>2, <1>3, <1>4, <1>5 DEF Inv

LEMMA NextInv == Inv /\ [Next]_vars => Inv'
<1> SUFFICES ASSUME Inv, [Next]_vars PROVE Inv'
  OBVIOUS
<1>0. TypeOK'
  BY NextTypeOK DEF Inv
<1>1. ASSUME NEW i \in Ops, NEW k \in Guarded \cup {"refspec"}, Call(i, k)
      PROVE  Inv'
  <2>1. k \in Kinds /\ current \in Objects
    BY DEF Kinds, Inv, TypeOK
  <2> QED
    BY <1>0, <1>1, <2>1, WithRefreshedInv DEF Call, Inv
<1>2. ASSUME NEW i \in Ops, NEW k \in {"refresh", "indicator"}, Refresh(i, k)
      PROVE  Inv'
  <2>1. /\ \A j \in Ops \ {i} : op'[j] = op[j]
        /\ ~op'[i].holds /\ op'[i].at = "reading" /\ op[i].at = "idle"
    BY <1>2 DEF Refresh, Inv, TypeOK, LocalInv, Sections
  <2> QED
    BY <1>0, <1>2, <2>1, PassInv DEF Refresh, Inv
<1>3. ASSUME NEW i \in Ops, Reports(i) PROVE Inv'
  BY <1>0, <1>3, ReportsInv
<1>4. ASSUME NEW i \in Ops, Associated(i) PROVE Inv'
  <2>1. op[i].kind \in Kinds /\ op[i].on \in Objects
    BY DEF Inv, TypeOK
  <2>2. PICK o \in Objects : Perform(i, op[i].kind, o)
    BY <1>4, <2>1 DEF Associated
  <2>3. WithRefreshed(i, op[i].kind, o)
    BY <2>2 DEF WithRefreshed
  <2> QED
    BY <1>0, <1>4, <2>1, <2>3, WithRefreshedInv DEF Associated, Inv
<1>5. ASSUME NEW i \in Ops, Asked(i) PROVE Inv'
  <2>1. op[i].kind = "indicator" /\ op[i].on \in Objects
    BY <1>5 DEF Asked, Inv, LocalInv, TypeOK
  <2>2. CASE GoTo(i, "done") /\ UNCHANGED <<inProgress, progress>>
    <3>1. /\ \A j \in Ops \ {i} : op'[j] = op[j]
          /\ ~op'[i].holds /\ op'[i].at = "done"
      BY <1>5, <2>2 DEF Asked, GoTo, Inv, TypeOK, LocalInv, Sections
    <3> QED
      BY <1>0, <1>5, <2>2, <3>1, PassInv DEF Asked, Inv
  <2>3. CASE WithRefreshed(i, "indicator", op[i].on)
    <3>1. "indicator" \in Kinds
      BY DEF Kinds
    <3> QED
      BY <1>0, <1>5, <2>1, <2>3, <3>1, WithRefreshedInv DEF Asked, Inv
  <2> QED
    BY <1>5, <2>2, <2>3 DEF Asked
<1>6. ASSUME NEW i \in Ops,
             Counted(i) \/ TakesStatus(i) \/ ShowsStatus(i) \/ Throws(i)
      PROVE  Inv'
  <2>1. CASE Counted(i) \/ TakesStatus(i) \/ ShowsStatus(i)
    BY <1>0, <2>1, GoesOnInv DEF Counted, TakesStatus, ShowsStatus
  <2>2. CASE Throws(i) /\ op[i].at \in {"counting", "shown"}
    BY <1>0, <2>2, GoesOnInv DEF Throws
  <2>3. CASE Throws(i) /\ op[i].at \notin {"counting", "shown"}
    <3>1. \/ op[i].at \in {"associating", "asking"}
          \/ op[i].at = "git" /\ op[i].kind = "refspec"
      BY <2>3 DEF Throws, Throwing
    <3>2. ~op[i].holds
      BY <3>1 DEF Inv, LocalInv, Sections
    <3>3. /\ \A j \in Ops \ {i} : op'[j] = op[j]
          /\ ~op'[i].holds /\ op'[i].at = "done"
          /\ UNCHANGED <<inProgress, progress>>
      BY <2>3, <3>2 DEF Throws, GoTo, AfterThrow, Inv, TypeOK
    <3> QED
      BY <1>0, <3>1, <3>3, PassInv DEF Inv
  <2> QED
    BY <1>6, <2>1, <2>2, <2>3
<1>7. ASSUME NEW i \in Ops,
             \/ MergeBase(i) \/ GitEnds(i) \/ ReadsStatus(i) \/ Ends(i)
             \/ Leaves(i) \/ Clears(i)
      PROVE  Inv'
  BY <1>0, <1>7, MergeBaseInv, GitEndsInv, ReadsStatusInv, EndsInv, LeavesInv,
     ClearsInv
<1>8. CASE Renewed \/ UNCHANGED vars
  <2>1. UNCHANGED <<inProgress, progress, op>>
    BY <1>8 DEF Renewed, vars
  <2> QED
    BY <1>0, <2>1 DEF Inv, LocalInv, SilentInv, OneAtATime, InSection,
       ProgressIsOfRunning
<1> QED
  BY <1>1, <1>2, <1>3, <1>4, <1>5, <1>6, <1>7, <1>8 DEF Next, Step

LEMMA InitInv == Init => Inv
<1> SUFFICES ASSUME Init PROVE Inv
  OBVIOUS
<1>1. TypeOK
  BY InitTypeOK
<1>2. \A i \in Ops : /\ op[i].at = "idle" /\ ~op[i].holds
                     /\ \A o \in Objects : progress[o] = None
  BY DEF Init
<1>3. LocalInv /\ SilentInv /\ ProgressIsOfRunning
  BY <1>2, NoneType DEF Init, LocalInv, SilentInv, ProgressIsOfRunning
<1>4. OneAtATime
  BY <1>2 DEF Init, OneAtATime, InSection
<1> QED
  BY <1>1, <1>3, <1>4 DEF Inv

\* At most one operation is under way on an object of the repository, and its
\* flag is set for exactly as long: withPushPullFetch excludes, in every
\* interleaving of the operations and whatever they were called for.
THEOREM OneAtATimeHolds == Spec => []OneAtATime
<1>1. Inv => OneAtATime
  BY DEF Inv
<1> QED
  BY <1>1, InitInv, NextInv, PTL DEF Spec

\* The progress in the toolbar is of an operation that has not ended: every
\* path out of a guarded operation clears what it has shown, but for the fetch
\* of an indicator that throws.
THEOREM ProgressOfRunning == Spec => []ProgressIsOfRunning
<1>1. Inv => ProgressIsOfRunning
  BY DEF Inv
<1> QED
  BY <1>1, InitInv, NextInv, PTL DEF Spec

----------------------------------------------------------------------------
\* The progress stays.

Stays ==
  \A i \in Ops, o \in Objects :
    progress[o] = i /\ op[i].at \notin Over \cup {"ending", "clearing"}
      => \/ progress'[o] = i
         \/ \E j \in Ops : op[j].at = "clearing" /\ op[j].on = o

\* Whoever shows its progress holds the object, unless it is over.
LEMMA ShowerHolds ==
  ASSUME Inv, NEW i \in Ops, NEW o \in Objects, progress[o] = i,
         op[i].at \notin Over \cup {"clearing"}
  PROVE  op[i].on = o /\ op[i].holds
BY NoneType DEF Inv, ProgressIsOfRunning, InSection, Over

\* Who holds an object takes no progress away but its own, when it ends.
LEMMA HolderStays ==
  ASSUME Inv, NEW j \in Ops, op[j].holds,
         \/ Show(op[j].on, j)
         \/ Show(op[j].on, None) /\ op[j].at = "ending"
  PROVE  Stays
<1> SUFFICES ASSUME NEW i \in Ops, NEW o \in Objects, progress[o] = i,
                    op[i].at \notin Over \cup {"ending", "clearing"}
             PROVE  progress'[o] = i
  BY DEF Stays
<1>1. op[i].on = o /\ op[i].holds
  BY ShowerHolds
<1>2. CASE i = j
  BY <1>1, <1>2 DEF Show, Inv, TypeOK
<1>3. CASE i # j
  BY <1>1, <1>3, OneShows DEF Show, Inv, TypeOK
<1> QED
  BY <1>2, <1>3

LEMMA WithRefreshedStays ==
  ASSUME Inv, NEW j \in Ops, NEW k \in Kinds, NEW p \in Objects,
         WithRefreshed(j, k, p)
  PROVE  Stays
<1>1. CASE UNCHANGED progress
  BY <1>1 DEF Stays
<1>2. CASE Enter(j, k, p) /\ Show(p, j)
  <2> SUFFICES ASSUME NEW i \in Ops, NEW o \in Objects, progress[o] = i,
                      op[i].at \notin Over \cup {"ending", "clearing"}
               PROVE  progress'[o] = i
    BY DEF Stays
  <2>1. op[i].on = o /\ op[i].holds
    BY ShowerHolds
  <2>2. inProgress[o] /\ ~inProgress[p]
    BY <1>2, <2>1 DEF Inv, OneAtATime, InSection, Enter, MayEnter
  <2> QED
    BY <1>2, <2>2 DEF Show, Inv, TypeOK
<1> QED
  BY <1>1, <1>2 DEF WithRefreshed, Perform, Enter, Skip, Unguarded

\* Whoever shows its progress keeps showing it until it ends, however the other
\* operations run: they are skipped, or work on another object.
THEOREM ProgressDoesStay == Spec => ProgressStays
<1>1. Inv /\ [Next]_vars => [Stays]_vars
  <2> SUFFICES ASSUME Inv, [Next]_vars PROVE Stays \/ UNCHANGED vars
    OBVIOUS
  <2>1. CASE UNCHANGED progress
    BY <2>1 DEF Stays
  <2>2. ASSUME NEW j \in Ops, NEW k \in Guarded \cup {"refspec"}, Call(j, k)
        PROVE  Stays
    <3>1. k \in Kinds /\ current \in Objects
      BY DEF Kinds, Inv, TypeOK
    <3> QED
      BY <2>2, <3>1, WithRefreshedStays DEF Call
  <2>3. ASSUME NEW j \in Ops, Associated(j) PROVE Stays
    <3>1. op[j].kind \in Kinds /\ op[j].on \in Objects
      BY DEF Inv, TypeOK
    <3>2. PICK o \in Objects : Perform(j, op[j].kind, o)
      BY <2>3, <3>1 DEF Associated
    <3> QED
      BY <3>1, <3>2, WithRefreshedStays DEF WithRefreshed
  <2>4. ASSUME NEW j \in Ops, Asked(j) PROVE Stays
    <3>1. "indicator" \in Kinds /\ op[j].on \in Objects
      BY DEF Kinds, Inv, TypeOK
    <3>2. UNCHANGED progress => Stays
      BY DEF Stays
    <3> QED
      BY <2>4, <3>1, <3>2, WithRefreshedStays DEF Asked
  <2>5. ASSUME NEW j \in Ops, MergeBase(j) \/ Reports(j) \/ ReadsStatus(j)
        PROVE  Stays
    <3>1. CASE op[j].holds /\ Show(op[j].on, j)
      BY <3>1, HolderStays
    <3>2. op[j].at = "mergeBase" \/ (op[j].at = "git" /\ op[j].kind # "refspec")
            => op[j].holds
      BY DEF Inv, LocalInv
    <3>3. UNCHANGED progress => Stays
      BY DEF Stays
    <3>4. CASE MergeBase(j) \/ Reports(j)
      BY <3>1, <3>2, <3>3, <3>4 DEF MergeBase, Reports
    <3>5. CASE ReadsStatus(j)
      BY <3>1, <3>3, <3>5 DEF ReadsStatus
    <3> QED
      BY <2>5, <3>4, <3>5
  <2>6. ASSUME NEW j \in Ops, Ends(j) PROVE Stays
    <3>1. op[j].holds
      BY <2>6 DEF Ends, Inv, LocalInv
    <3> QED
      BY <2>6, <3>1, HolderStays DEF Ends
  <2>7. ASSUME NEW j \in Ops, Clears(j) PROVE Stays
    BY <2>7 DEF Clears, Show, Stays, Inv, TypeOK
  <2>8. ASSUME NEW j \in Ops,
               \/ GitEnds(j) \/ Counted(j) \/ TakesStatus(j) \/ ShowsStatus(j)
               \/ Throws(j) \/ Leaves(j)
        PROVE  UNCHANGED progress
    BY <2>8 DEF GitEnds, Counted, TakesStatus, ShowsStatus, Throws, Leaves
  <2>9. ASSUME NEW j \in Ops, NEW k \in {"refresh", "indicator"}, Refresh(j, k)
        PROVE  UNCHANGED progress
    BY <2>9 DEF Refresh
  <2>10. CASE Renewed \/ UNCHANGED vars
    BY <2>1, <2>10 DEF Renewed, vars
  <2> QED
    BY <2>1, <2>2, <2>3, <2>4, <2>5, <2>6, <2>7, <2>8, <2>9, <2>10
    DEF Next, Step
<1>2. ProgressStays <=> [][Stays]_vars
  BY DEF ProgressStays, Stays
<1> QED
  BY <1>1, <1>2, InitInv, NextInv, PTL DEF Spec
----------------------------------------------------------------------------
\* The sidebar is current.

\* Who is going to take the count, and who is going to show one.
WillCount(j) ==
  \/ op[j].at \in {"counting", "reading"}
  \/ op[j].at = "status" /\ op[j].read # None
WillShow(j) ==
  \/ op[j].at \in {"counting", "reading", "status", "shown"}
  \/ op[j].kind = "indicator" /\ op[j].at \in {"leaving", "clearing"}

Current(version) == version \in {None, tracking}

\* What is read, and what the GitStores and the sidebar hold, is what git would
\* answer, or somebody is going to replace it, or cannot: an operation failed.
ReadCurrent ==
  \A j \in Ops :
    /\ op[j].at = "counting" => op[j].read = tracking
    /\ op[j].at \in {"status", "shown"} => Current(op[j].read)
    /\ op[j].at = "shown" /\ op[j].read # None => Current(known[op[j].on])
KnownCurrent ==
  \A o \in Objects :
    \/ o \in failed
    \/ Current(known[o])
    \/ \E j \in Ops : op[j].on = o /\ WillCount(j)
LookupCurrent ==
  \/ failed # {}
  \/ lookup \in {NoEntry, tracking}
  \/ lookup = None /\ WentWithoutCount
  \/ \E j \in Ops : WillShow(j)

CurrentInv == ~overtaken => ReadCurrent /\ KnownCurrent /\ LookupCurrent

LEMMA CountShows == \A j \in Ops : WillCount(j) => WillShow(j)
BY DEF WillCount, WillShow

\* A step of an operation that holds no count, and takes none.
LEMMA PassCurrent ==
  ASSUME Inv, CurrentInv, NEW i \in Ops,
         \A j \in Ops \ {i} : op'[j] = op[j],
         ~WillShow(i), op[i].at # "done",
         op'[i].at \notin {"counting", "status", "shown"},
         UNCHANGED <<known, lookup, tracking, failed, overtaken>>
  PROVE  CurrentInv'
<1> SUFFICES ASSUME ~overtaken
             PROVE  ReadCurrent' /\ KnownCurrent' /\ LookupCurrent'
  BY DEF CurrentInv
<1>1. ReadCurrent'
  BY DEF CurrentInv, ReadCurrent, Current
<1>2. KnownCurrent'
  BY CountShows DEF CurrentInv, KnownCurrent, WillCount, Current
<1>3. LookupCurrent'
  BY DEF CurrentInv, LookupCurrent, WillShow, WentWithoutCount
<1> QED
  BY <1>1, <1>2, <1>3

\* Where an operation is when it is performed.
LEMMA WithRefreshedPlace ==
  ASSUME Inv, NEW i \in Ops, NEW k \in Kinds, NEW o \in Objects,
         WithRefreshed(i, k, o)
  PROVE  /\ \A j \in Ops \ {i} : op'[j] = op[j]
         /\ op'[i].at \notin {"counting", "status", "shown"}
<1>1. AfterSkip(k) \in {"clearing", "done"}
  BY DEF AfterSkip
<1>2. PICK place \in {"git", "mergeBase", "leaving", "clearing", "done",
                      "associating"}, holds \in BOOLEAN :
        op' = [op EXCEPT ![i] = [@ EXCEPT !.at = place, !.kind = k, !.on = o,
                                          !.holds = holds]]
  <2>1. CASE Enter(i, k, o)
    BY <2>1 DEF Enter
  <2>2. CASE Skip(i, k, o)
    <3>1. op' = [op EXCEPT ![i] = [@ EXCEPT !.at = AfterSkip(k), !.kind = k,
                                            !.on = o, !.holds = FALSE]]
      BY <2>2 DEF Skip, Inv, TypeOK
    <3> QED
      BY <1>1, <3>1
  <2>3. ASSUME NEW place \in {"git", "associating"},
               op' = [op EXCEPT ![i] = [@ EXCEPT !.kind = k, !.on = o,
                                                 !.at = place]]
        PROVE  op' = [op EXCEPT ![i] = [@ EXCEPT !.at = place, !.kind = k,
                                          !.on = o, !.holds = op[i].holds]]
    BY <2>3 DEF Inv, TypeOK
  <2>4. op[i].holds \in BOOLEAN
    BY DEF Inv, TypeOK
  <2> QED
    BY <2>1, <2>2, <2>3, <2>4 DEF WithRefreshed, Perform, Unguarded
<1> QED
  BY <1>2 DEF Inv, TypeOK

\* git has ended: who called it counts again, and nobody else held a count if
\* it moved.
LEMMA GitEndsCurrent ==
  ASSUME Inv, CurrentInv, NEW i \in Ops, GitEnds(i)
  PROVE  CurrentInv'
<1> SUFFICES ASSUME ~overtaken'
             PROVE  ReadCurrent' /\ KnownCurrent' /\ LookupCurrent'
  BY DEF CurrentInv
<1>1. ReadCurrent /\ KnownCurrent /\ LookupCurrent
  BY DEF GitEnds, CurrentInv
<1>2. /\ \A j \in Ops \ {i} : op'[j] = op[j]
      /\ op[i].at = "git" /\ op'[i].on = op[i].on
      /\ UNCHANGED <<known, lookup, failed>>
      /\ tracking' # tracking => ~Outdates(i)
  BY DEF GitEnds, GoTo, Inv, TypeOK
<1>3. CASE tracking' = tracking
  <2>1. \/ op'[i].at \in {"counting", "reading"} /\ op'[i].read = tracking'
        \/ op'[i].at = "ending"
    <3>1. CASE \E place \in CountsAgain(i) :
                 op' = [op EXCEPT ![i].at = place, ![i].read = tracking']
      <4>1. CountsAgain(i) \subseteq {"counting", "reading"}
        BY DEF CountsAgain
      <4>2. PICK place \in {"counting", "reading"} :
              op' = [op EXCEPT ![i].at = place, ![i].read = tracking']
        BY <3>1, <4>1
      <4> QED
        BY <4>2 DEF Inv, TypeOK
    <3>2. CASE GoTo(i, "ending")
      BY <3>2 DEF GoTo, Inv, TypeOK
    <3> QED
      BY <3>1, <3>2 DEF GitEnds
  <2>2. ReadCurrent'
    BY <1>1, <1>2, <1>3, <2>1 DEF ReadCurrent, Current
  <2>3. KnownCurrent'
    BY <1>1, <1>2, <1>3 DEF KnownCurrent, WillCount, Current
  <2>4. LookupCurrent'
    BY <1>1, <1>2, <1>3 DEF LookupCurrent, WillShow, WentWithoutCount
  <2> QED
    BY <2>2, <2>3, <2>4
<1>4. CASE tracking' # tracking
  <2>1. op'[i].at \in {"counting", "reading"} /\ op'[i].read = tracking'
    BY <1>4 DEF GitEnds, CountsAgain, Inv, TypeOK
  <2>2. \A j \in Ops : op[j].at \notin Holding
    BY <1>2, <1>4 DEF Outdates
  <2>3. \A o \in Objects \ {op[i].on} : known[o] = None
    BY <1>2, <1>4 DEF Outdates
  <2>4. ReadCurrent'
    BY <1>2, <2>1, <2>2 DEF ReadCurrent, Holding
  <2>5. KnownCurrent'
    BY <1>2, <2>1, <2>3 DEF KnownCurrent, WillCount, Current
  <2>6. LookupCurrent'
    BY <2>1 DEF LookupCurrent, WillShow
  <2> QED
    BY <2>4, <2>5, <2>6
<1> QED
  BY <1>3, <1>4

LEMMA CountedCurrent ==
  ASSUME Inv, CurrentInv, NEW i \in Ops, Counted(i)
  PROVE  CurrentInv'
<1> SUFFICES ASSUME ~overtaken'
             PROVE  ReadCurrent' /\ KnownCurrent' /\ LookupCurrent'
  BY DEF CurrentInv
<1>1. ReadCurrent /\ KnownCurrent /\ LookupCurrent
  BY DEF Counted, CurrentInv
<1>2. /\ \A j \in Ops \ {i} : op'[j] = op[j]
      /\ op'[i].on = op[i].on /\ op'[i].kind = op[i].kind
      /\ op[i].on \in Objects /\ op[i].at = "counting"
      /\ UNCHANGED <<tracking, lookup, failed>>
      /\ op'[i].at = IF op[i].kind = "indicator" THEN "leaving" ELSE "reading"
  BY DEF Counted, GoTo, Inv, TypeOK
<1>3. /\ known'[op[i].on] \in {None, tracking}
      /\ \A o \in Objects \ {op[i].on} : known'[o] = known[o]
  BY <1>1, <1>2 DEF Counted, ReadCurrent, Inv, TypeOK
<1>4. ReadCurrent'
  BY <1>1, <1>2, <1>3 DEF ReadCurrent, Current, Inv, TypeOK
<1>5. KnownCurrent'
  BY <1>1, <1>2, <1>3 DEF KnownCurrent, WillCount, Current
<1>6. WillShow(i)'
  BY <1>2 DEF WillShow
<1> QED
  BY <1>4, <1>5, <1>6 DEF LookupCurrent

LEMMA ReadsStatusCurrent ==
  ASSUME Inv, CurrentInv, NEW i \in Ops, ReadsStatus(i)
  PROVE  CurrentInv'
<1> SUFFICES ASSUME ~overtaken'
             PROVE  ReadCurrent' /\ KnownCurrent' /\ LookupCurrent'
  BY DEF CurrentInv
<1>1. ReadCurrent /\ KnownCurrent /\ LookupCurrent
  BY DEF ReadsStatus, CurrentInv
<1>2. /\ \A j \in Ops \ {i} : op'[j] = op[j]
      /\ op'[i].on = op[i].on /\ op'[i].at = "status"
      /\ op'[i].read \in {tracking, None}
      /\ failed \subseteq failed'
      /\ op'[i].read = None => op[i].on \in failed'
      /\ UNCHANGED <<tracking, lookup, known>>
  BY DEF ReadsStatus, Inv, TypeOK
<1>3. ReadCurrent'
  BY <1>1, <1>2 DEF ReadCurrent, Current
<1>4. KnownCurrent'
  BY <1>1, <1>2 DEF KnownCurrent, WillCount, Current
<1>5. WillShow(i)'
  BY <1>2 DEF WillShow
<1> QED
  BY <1>3, <1>4, <1>5 DEF LookupCurrent

LEMMA TakesStatusCurrent ==
  ASSUME Inv, CurrentInv, NEW i \in Ops, TakesStatus(i)
  PROVE  CurrentInv'
<1> SUFFICES ASSUME ~overtaken'
             PROVE  ReadCurrent' /\ KnownCurrent' /\ LookupCurrent'
  BY DEF CurrentInv
<1>1. ReadCurrent /\ KnownCurrent /\ LookupCurrent
  BY DEF TakesStatus, CurrentInv
<1>2. /\ \A j \in Ops \ {i} : op'[j] = op[j]
      /\ op'[i].on = op[i].on /\ op'[i].read = op[i].read
      /\ op[i].on \in Objects /\ op[i].at = "status" /\ op'[i].at = "shown"
      /\ UNCHANGED <<tracking, lookup, failed>>
  BY DEF TakesStatus, GoTo, Inv, TypeOK
<1>3. /\ IF op[i].read = None THEN known'[op[i].on] = known[op[i].on]
                              ELSE known'[op[i].on] = tracking
      /\ \A o \in Objects \ {op[i].on} : known'[o] = known[o]
  BY <1>1, <1>2 DEF TakesStatus, ReadCurrent, Current, Inv, TypeOK
<1>4. ReadCurrent'
  BY <1>1, <1>2, <1>3 DEF ReadCurrent, Current, Inv, TypeOK
<1>5. KnownCurrent'
  BY <1>1, <1>2, <1>3 DEF KnownCurrent, WillCount, Current
<1>6. WillShow(i)'
  BY <1>2 DEF WillShow
<1> QED
  BY <1>4, <1>5, <1>6 DEF LookupCurrent

LEMMA ShowsStatusCurrent ==
  ASSUME Inv, CurrentInv, NEW i \in Ops, ShowsStatus(i)
  PROVE  CurrentInv'
<1> SUFFICES ASSUME ~overtaken'
             PROVE  ReadCurrent' /\ KnownCurrent' /\ LookupCurrent'
  BY DEF CurrentInv
<1>1. ReadCurrent /\ KnownCurrent /\ LookupCurrent
  BY DEF ShowsStatus, CurrentInv
<1>2. AfterRefresh(i) \in {"ending", "asking", "done"}
  BY DEF AfterRefresh
<1>3. /\ \A j \in Ops \ {i} : op'[j] = op[j]
      /\ op[i].on \in Objects /\ op[i].at = "shown"
      /\ op'[i].at \in {"ending", "asking", "done"}
      /\ UNCHANGED <<tracking, known>>
  BY <1>2 DEF ShowsStatus, GoTo, Inv, TypeOK
<1>4. /\ lookup' \in {NoEntry, tracking}
      /\ \A o \in Objects : o \in failed /\ o # op[i].on => o \in failed'
      /\ op[i].read = None => failed' = failed
  BY <1>1, <1>3 DEF ShowsStatus, ReadCurrent, Current
<1>5. ReadCurrent'
  BY <1>1, <1>3 DEF ReadCurrent, Current, Inv, TypeOK
<1>6. KnownCurrent'
  BY <1>1, <1>3, <1>4 DEF ReadCurrent, KnownCurrent, WillCount, Current
<1> QED
  BY <1>3, <1>4, <1>5, <1>6 DEF LookupCurrent

\* An operation throws: what it would have counted or shown is lost.
LEMMA ThrowsCurrent ==
  ASSUME Inv, CurrentInv, NEW i \in Ops, Throws(i)
  PROVE  CurrentInv'
<1>1. AfterThrow(i) \in {"done", "aborting", "ending"}
  BY DEF AfterThrow
<1>2. /\ \A j \in Ops \ {i} : op'[j] = op[j]
      /\ op[i].on \in Objects /\ op[i].at # "done"
      /\ op'[i].at \in {"done", "aborting", "ending"}
      /\ UNCHANGED <<tracking, known, lookup, overtaken>>
  BY <1>1 DEF Throws, Throwing, GoTo, Inv, TypeOK
<1>3. CASE op[i].at \in {"counting", "shown"}
  <2> SUFFICES ASSUME ~overtaken'
               PROVE  ReadCurrent' /\ KnownCurrent' /\ LookupCurrent'
    BY DEF CurrentInv
  <2>1. failed' = failed \cup {op[i].on}
    BY <1>3 DEF Throws
  <2>2. ReadCurrent'
    BY <1>2 DEF CurrentInv, ReadCurrent, Current
  <2>3. KnownCurrent'
    BY <1>2, <2>1 DEF CurrentInv, KnownCurrent, WillCount, Current
  <2> QED
    BY <1>2, <2>1, <2>2, <2>3 DEF LookupCurrent
<1>4. CASE op[i].at \notin {"counting", "shown"}
  <2>1. failed' = failed /\ ~WillShow(i)
    BY <1>4 DEF Throws, Throwing, WillShow
  <2> QED
    BY <1>2, <2>1, PassCurrent
<1> QED
  BY <1>3, <1>4

\* The indicator leaves, and shows the count of its GitStore.
LEMMA LeavesCurrent ==
  ASSUME Inv, CurrentInv, NEW i \in Ops, Leaves(i)
  PROVE  CurrentInv'
<1>1. /\ \A j \in Ops \ {i} : op'[j] = op[j]
      /\ op'[i].on = op[i].on /\ op'[i].kind = op[i].kind
      /\ op'[i].at = AfterLeaving(i) /\ op[i].at \in {"leaving", "aborting"}
      /\ UNCHANGED <<known, lookup, tracking, failed, overtaken>>
  BY DEF Leaves, Inv, TypeOK
<1>2. CASE op[i].kind = "indicator" /\ op[i].at = "leaving"
  <2>1. op'[i].at = "clearing" /\ WillShow(i)'
    BY <1>1, <1>2 DEF AfterLeaving, WillShow
  <2>2. ~overtaken => ReadCurrent' /\ KnownCurrent'
    BY <1>1, <1>2, <2>1 DEF CurrentInv, ReadCurrent, KnownCurrent, WillCount,
       Current
  <2> QED
    BY <1>1, <2>1, <2>2 DEF CurrentInv, LookupCurrent
<1>3. CASE ~(op[i].kind = "indicator" /\ op[i].at = "leaving")
  <2>1. ~WillShow(i)
    BY <1>1, <1>3 DEF WillShow
  <2>2. op'[i].at \in Over
    BY <1>1, <1>3 DEF AfterLeaving, Over
  <2> QED
    BY <1>1, <2>1, <2>2, PassCurrent DEF Over
<1> QED
  BY <1>2, <1>3

LEMMA ClearsCurrent ==
  ASSUME Inv, CurrentInv, NEW i \in Ops, Clears(i)
  PROVE  CurrentInv'
<1> SUFFICES ASSUME ~overtaken'
             PROVE  ReadCurrent' /\ KnownCurrent' /\ LookupCurrent'
  BY DEF CurrentInv
<1>1. ReadCurrent /\ KnownCurrent
  BY DEF Clears, CurrentInv
<1>2. /\ \A j \in Ops \ {i} : op'[j] = op[j]
      /\ op[i].at = "clearing" /\ op'[i].at = "done" /\ op[i].on \in Objects
      /\ op'[i].on = op[i].on /\ op'[i].kind = op[i].kind
      /\ lookup' = known[op[i].on] /\ UNCHANGED <<known, tracking, failed>>
  BY DEF Clears, GoTo, Inv, TypeOK
<1>3. ReadCurrent'
  BY <1>1, <1>2 DEF ReadCurrent, Current
<1>4. KnownCurrent'
  BY <1>1, <1>2 DEF KnownCurrent, WillCount, Current
<1>5. lookup' = None => WentWithoutCount'
  BY <1>2 DEF WentWithoutCount, Inv, LocalInv
<1>6. ~Current(known[op[i].on]) /\ failed = {} => \E j \in Ops : WillShow(j)'
  <2> SUFFICES ASSUME ~Current(known[op[i].on]), failed = {}
               PROVE  \E j \in Ops : WillShow(j)'
    OBVIOUS
  <2>1. PICK j \in Ops : WillCount(j)
    BY <1>1, <1>2 DEF KnownCurrent
  <2>2. j # i
    BY <1>2, <2>1 DEF WillCount
  <2> QED
    BY <1>2, <2>1, <2>2 DEF WillCount, WillShow
<1>7. LookupCurrent'
  BY <1>2, <1>5, <1>6 DEF LookupCurrent, Current
<1> QED
  BY <1>3, <1>4, <1>7

LEMMA NextCurrent == Inv /\ CurrentInv /\ [Next]_vars => CurrentInv'
<1> SUFFICES ASSUME Inv, CurrentInv, [Next]_vars PROVE CurrentInv'
  OBVIOUS
<1>1. ASSUME NEW i \in Ops, NEW k \in Guarded \cup {"refspec"}, Call(i, k)
      PROVE  CurrentInv'
  <2>1. k \in Kinds /\ current \in Objects
    BY DEF Kinds, Inv, TypeOK
  <2> QED
    BY <1>1, <2>1, WithRefreshedPlace, PassCurrent
    DEF Call, WillShow
<1>2. ASSUME NEW i \in Ops, NEW k \in {"refresh", "indicator"}, Refresh(i, k)
      PROVE  CurrentInv'
  <2>1. /\ \A j \in Ops \ {i} : op'[j] = op[j]
        /\ op'[i].at = "reading"
    BY <1>2 DEF Refresh, Inv, TypeOK
  <2> QED
    BY <1>2, <2>1, PassCurrent DEF Refresh, WillShow
<1>3. ASSUME NEW i \in Ops, Associated(i) PROVE CurrentInv'
  <2>1. op[i].kind \in Kinds /\ op[i].on \in Objects
    BY DEF Inv, TypeOK
  <2>2. PICK o \in Objects : WithRefreshed(i, op[i].kind, o)
    BY <1>3, <2>1 DEF Associated, WithRefreshed
  <2> QED
    BY <1>3, <2>1, <2>2, WithRefreshedPlace, PassCurrent
    DEF Associated, WillShow
<1>4. ASSUME NEW i \in Ops, Asked(i) PROVE CurrentInv'
  <2>1. "indicator" \in Kinds /\ op[i].on \in Objects
    BY DEF Inv, TypeOK, Kinds
  <2>2. /\ \A j \in Ops \ {i} : op'[j] = op[j]
        /\ op'[i].at \notin {"counting", "status", "shown"}
    BY <1>4, <2>1, WithRefreshedPlace DEF Asked, GoTo, Inv, TypeOK
  <2> QED
    BY <1>4, <2>2, PassCurrent DEF Asked, WillShow
<1>5. ASSUME NEW i \in Ops, MergeBase(i) \/ Ends(i) PROVE CurrentInv'
  <2>1. /\ \A j \in Ops \ {i} : op'[j] = op[j]
        /\ op'[i].at \in {"git", "leaving"}
        /\ op[i].at \in {"mergeBase", "ending"}
        /\ UNCHANGED <<known, lookup, tracking, failed, overtaken>>
    BY <1>5 DEF MergeBase, Ends, GoTo, Inv, TypeOK
  <2> QED
    BY <2>1, PassCurrent DEF WillShow
<1>6. ASSUME NEW i \in Ops, GitEnds(i) \/ Counted(i) \/ ReadsStatus(i)
      PROVE  CurrentInv'
  BY <1>6, GitEndsCurrent, CountedCurrent, ReadsStatusCurrent
<1>7. ASSUME NEW i \in Ops,
             \/ TakesStatus(i) \/ ShowsStatus(i) \/ Throws(i) \/ Leaves(i)
             \/ Clears(i)
      PROVE  CurrentInv'
  BY <1>7, TakesStatusCurrent, ShowsStatusCurrent, ThrowsCurrent,
     LeavesCurrent, ClearsCurrent
<1>8. CASE Renewed \/ UNCHANGED vars \/ \E i \in Ops : Reports(i)
  <2>1. UNCHANGED <<known, lookup, tracking, op, failed, overtaken>>
    BY <1>8 DEF Renewed, Reports, vars
  <2> QED
    BY <2>1 DEF CurrentInv, ReadCurrent, KnownCurrent, LookupCurrent,
       Current, WillShow, WillCount, WentWithoutCount
<1> QED
  BY <1>1, <1>2, <1>3, <1>4, <1>5, <1>6, <1>7, <1>8 DEF Next, Step

\* The sidebar shows what git would answer when nothing is under way, for any
\* number of operations and objects, unless git moved while somebody held a
\* count it outdated, or an operation failed on an object that has not shown a
\* status since; the count is lost only where an indicator's refresh ended with
\* an object that has none.
THEOREM IndicatorCurrent == Spec => []IndicatorIsCurrent
<1>1. Init => CurrentInv
  BY DEF Init, CurrentInv, ReadCurrent, KnownCurrent, LookupCurrent, Current
<1>2. CurrentInv => IndicatorIsCurrent
  BY DEF CurrentInv, LookupCurrent, WillShow, IndicatorIsCurrent, Over
<1> QED
  BY <1>1, <1>2, InitInv, NextInv, NextCurrent, PTL DEF Spec
=============================================================================
