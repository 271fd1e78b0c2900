-------------------------- MODULE HistoryTab_proof --------------------------
(***************************************************************************)
(* What holds of the two halves of the history tab: of the selected        *)
(* commits, their files and the diff (CommitSelection), for any history    *)
(* and any number of loads under way, and of the list they are selected    *)
(* from (CommitHistory), for any tips, branches, pages and comparisons.    *)
(***************************************************************************)
EXTENDS CommitSelection, CommitHistory, SequenceTheorems, TLAPS

-----------------------------------------------------------------------------
\* What the helpers return.

LEMMA NoneType ==
  /\ None \notin Files /\ None \notin Diff /\ None \notin Load
  /\ MaxActs \in Nat
BY CommitSelectionAssumption DEF Diff, Load

LEMMA FilesOfType == ASSUME NEW s \in Selections PROVE FilesOf(s) \subseteq Files
BY DEF FilesOf, Files, Selections

LEMMA FirstIsOne == ASSUME NEW fs, fs # {} PROVE First(fs) \in fs
BY DEF First

LEMMA BeginLoadType ==
  ASSUME TypeOK, NEW s \in Selections, NEW f \in Files \cup {None},
         BeginLoad(s, f)
  PROVE  loads' \in [FileLoads -> Load \cup {None}]
BY DEF TypeOK, BeginLoad, Load

LEMMA BeginDiffType ==
  ASSUME TypeOK, NEW f \in Files, NEW h \in BOOLEAN, BeginDiff(f, h)
  PROVE  diffLoads' \in [DiffLoads -> Diff \cup {None}]
BY DEF TypeOK, BeginDiff, Diff

LEMMA ChangeSelectionType ==
  ASSUME NEW s \in Selections, ChangeSelection(s)
  PROVE  /\ selected' \in Selections /\ files' \in SUBSET Files
         /\ file' \in Files \cup {None} /\ diff' \in Diff \cup {None}
         /\ overtaken' \in BOOLEAN
BY DEF ChangeSelection, LoadsAnother

LEMMA FirstFileType ==
  ASSUME TypeOK, NEW l \in FileLoads, loads[l] # None
  PROVE  /\ loads[l] \in Load
         /\ FilesOf(loads[l].of) \subseteq Files
         /\ FirstFileOrDefault(loads[l]) \in Files \cup {None}
<1>1. loads[l] \in Load
  BY DEF TypeOK
<1>2. FilesOf(loads[l].of) \subseteq Files
  BY <1>1, FilesOfType DEF Load
<1> QED
  BY <1>1, <1>2, FirstIsOne DEF Load, FirstFileOrDefault

-----------------------------------------------------------------------------
\* The type invariant.

LEMMA ActType == ASSUME TypeOK, Act PROVE acts' \in 0..MaxActs
BY NoneType DEF TypeOK, Act

LEMMA SingleType == ASSUME NEW c \in Commits PROVE {c} \in Selections
BY DEF Selections

LEMMA InitTypeOK == Init => TypeOK
<1>1. {} \in Selections /\ 0 \in 0..MaxActs
  BY NoneType DEF Selections
<1> QED
  BY <1>1 DEF Init, TypeOK

LEMMA ActsTypeOK ==
  ASSUME TypeOK,
         \/ \E s \in Selections : SelectCommits(s)
         \/ \E c \in Commits : HistoryReplaced(c) \/ SelectedByOperation(c)
         \/ HistoryEmptied
         \/ \E f \in Files : ChangeFile(f)
         \/ SetHideWhitespace
  PROVE  TypeOK'
<1>1. ASSUME NEW s \in Selections, SelectCommits(s) PROVE TypeOK'
  BY <1>1, ActType, ChangeSelectionType
  DEF SelectCommits, TypeOK, shown, history
<1>2. ASSUME NEW c \in Commits, HistoryReplaced(c) PROVE TypeOK'
  BY <1>2, ActType, SingleType, ChangeSelectionType, BeginLoadType
  DEF HistoryReplaced, TypeOK
<1>3. ASSUME NEW c \in Commits, SelectedByOperation(c) PROVE TypeOK'
  BY <1>3, ActType, SingleType, ChangeSelectionType
  DEF SelectedByOperation, TypeOK
<1>4. CASE HistoryEmptied
  <2>1. {} \in Selections
    BY DEF Selections
  <2> QED
    BY <1>4, <2>1, ActType, ChangeSelectionType DEF HistoryEmptied, TypeOK
<1>5. ASSUME NEW f \in Files, ChangeFile(f) PROVE TypeOK'
  BY <1>5, ActType, BeginDiffType DEF ChangeFile, TypeOK, history
<1>6. CASE SetHideWhitespace
  <2>1. hide' \in BOOLEAN /\ outdated' \in BOOLEAN /\ acts' \in 0..MaxActs
    BY <1>6, ActType DEF SetHideWhitespace, TypeOK
  <2>2. CASE file = None
    BY <1>6, <2>1, <2>2 DEF SetHideWhitespace, TypeOK
  <2>3. CASE file # None
    BY <1>6, <2>1, <2>3, BeginDiffType DEF SetHideWhitespace, TypeOK
  <2> QED
    BY <2>2, <2>3
<1> QED
  BY <1>1, <1>2, <1>3, <1>4, <1>5, <1>6

LEMMA AwaitedTypeOK ==
  ASSUME TypeOK,
         \/ LoadTimer
         \/ \E l \in FileLoads : LoadEnds(l) \/ LoadFails(l)
         \/ \E d \in DiffLoads : DiffEnds(d) \/ DiffFails(d)
  PROVE  TypeOK'
<1>1. CASE LoadTimer
  BY <1>1, BeginLoadType DEF LoadTimer, TypeOK, shown, history
<1>2. ASSUME NEW l \in FileLoads, LoadEnds(l) PROVE TypeOK'
  <2>1. /\ files' \in SUBSET Files /\ file' \in Files \cup {None}
    BY <1>2, FirstFileType DEF LoadEnds
  <2>2. diffLoads' \in [DiffLoads -> Diff \cup {None}]
    <3>1. CASE file' = None
      BY <1>2, <3>1 DEF LoadEnds, TypeOK
    <3>2. CASE file' # None
      BY <1>2, <2>1, <3>2, BeginDiffType DEF LoadEnds, TypeOK
    <3> QED
      BY <3>1, <3>2
  <2> QED
    BY <1>2, <2>1, <2>2 DEF LoadEnds, TypeOK, history
<1>3. ASSUME NEW l \in FileLoads, LoadFails(l) PROVE TypeOK'
  BY <1>3 DEF LoadFails, TypeOK, shown
<1>4. ASSUME NEW d \in DiffLoads, DiffEnds(d) PROVE TypeOK'
  BY <1>4 DEF DiffEnds, TypeOK, history
<1>5. ASSUME NEW d \in DiffLoads, DiffFails(d) PROVE TypeOK'
  BY <1>5 DEF DiffFails, TypeOK, shown
<1> QED
  BY <1>1, <1>2, <1>3, <1>4, <1>5

LEMMA NextTypeOK == TypeOK /\ [Next]_vars => TypeOK'
<1>1. CASE UNCHANGED vars
  BY <1>1 DEF vars, shown, history, TypeOK
<1> QED
  BY <1>1, ActsTypeOK, AwaitedTypeOK DEF Next

\* Whatever the loads captured and whenever they come back, what is shown is
\* made of selections, files and diffs.
THEOREM TypeCorrect == Spec => []TypeOK
BY InitTypeOK, NextTypeOK, PTL DEF Spec

-----------------------------------------------------------------------------
\* The diff is the one of the selected file in the selected commits.

LEMMA DiffNext ==
  TypeOK /\ DiffIsOfSelection /\ [Next]_vars => DiffIsOfSelection'
<1> SUFFICES ASSUME TypeOK, DiffIsOfSelection, [Next]_vars
             PROVE  DiffIsOfSelection'
  OBVIOUS
<1>1. CASE diff' = None
  BY <1>1 DEF DiffIsOfSelection
<1>2. CASE UNCHANGED <<selected, file, diff>>
  BY <1>2 DEF DiffIsOfSelection
<1>3. ASSUME NEW s \in Selections, SelectCommits(s)
      PROVE  diff' = None \/ UNCHANGED <<selected, file, diff>>
  BY <1>3 DEF SelectCommits, ChangeSelection, shown
<1>4. ASSUME NEW c \in Commits,
             HistoryReplaced(c) \/ SelectedByOperation(c) \/ HistoryEmptied
      PROVE  diff' = None
  BY <1>4 DEF HistoryReplaced, SelectedByOperation, HistoryEmptied,
     ChangeSelection
<1>5. CASE HistoryEmptied \/ \E f \in Files : ChangeFile(f)
  BY <1>1, <1>5 DEF HistoryEmptied, ChangeSelection, ChangeFile
<1>6. CASE SetHideWhitespace
  BY <1>1, <1>2, <1>6 DEF SetHideWhitespace
<1>7. CASE LoadTimer \/ UNCHANGED vars
  BY <1>2, <1>7 DEF LoadTimer, shown, vars
<1>8. ASSUME NEW l \in FileLoads, LoadEnds(l) \/ LoadFails(l)
      PROVE  diff' = None \/ UNCHANGED <<selected, file, diff>>
  BY <1>8 DEF LoadEnds, LoadFails, shown
<1>9. ASSUME NEW d \in DiffLoads, DiffEnds(d) PROVE DiffIsOfSelection'
  BY <1>9 DEF DiffEnds, StillWanted, DiffIsOfSelection
<1>10. ASSUME NEW d \in DiffLoads, DiffFails(d)
       PROVE  UNCHANGED <<selected, file, diff>>
  BY <1>10 DEF DiffFails, shown
<1> QED
  BY <1>1, <1>2, <1>3, <1>4, <1>5, <1>6, <1>7, <1>8, <1>9, <1>10 DEF Next

\* The diff shown is the one of the selected file in the selected commits, for
\* any number of loads in any order: what _changeFileSelection compares after
\* its await is enough, because whatever changes the commits or the file takes
\* the diff away in the same step.
THEOREM DiffOfSelection == Spec => []DiffIsOfSelection
<1>1. Init => DiffIsOfSelection
  BY DEF Init, DiffIsOfSelection
<1> QED
  BY <1>1, InitTypeOK, NextTypeOK, DiffNext, PTL DEF Spec

-----------------------------------------------------------------------------
\* The diff has the current setting.

SettingInv ==
  ~outdated =>
    /\ diff # None => diff.hide = hide
    /\ \A d \in DiffLoads : diffLoads[d] # None => diffLoads[d].hide = hide

LEMMA BeginDiffSetting ==
  ASSUME TypeOK, NEW f \in Files, NEW h \in BOOLEAN, BeginDiff(f, h),
         \A d \in DiffLoads : diffLoads[d] # None => diffLoads[d].hide = h
  PROVE  \A d \in DiffLoads : diffLoads'[d] # None => diffLoads'[d].hide = h
BY DEF TypeOK, BeginDiff

LEMMA SettingNext ==
  TypeOK /\ DiffIsOfSelection /\ SettingInv /\ [Next]_vars => SettingInv'
<1> SUFFICES ASSUME TypeOK, DiffIsOfSelection, SettingInv, [Next]_vars
             PROVE  SettingInv'
  OBVIOUS
<1>1. ASSUME diff' = None \/ diff' = diff,
             UNCHANGED <<hide, diffLoads, outdated>>
      PROVE  SettingInv'
  BY <1>1 DEF SettingInv
<1>2. ASSUME NEW s \in Selections, SelectCommits(s) PROVE SettingInv'
  BY <1>1, <1>2 DEF SelectCommits, ChangeSelection, shown
<1>3. ASSUME NEW c \in Commits, HistoryReplaced(c) \/ SelectedByOperation(c)
      PROVE  SettingInv'
  BY <1>1, <1>3 DEF HistoryReplaced, SelectedByOperation, ChangeSelection
<1>4. CASE HistoryEmptied
  BY <1>1, <1>4 DEF HistoryEmptied, ChangeSelection
<1>5. ASSUME NEW f \in Files, ChangeFile(f) PROVE SettingInv'
  <2>1. UNCHANGED <<hide, outdated>> /\ diff' = None /\ BeginDiff(f, hide)
    BY <1>5 DEF ChangeFile, history
  <2> QED
    BY <2>1, BeginDiffSetting DEF SettingInv, TypeOK
<1>6. CASE SetHideWhitespace
  <2>1. /\ hide' = ~hide /\ hide' \in BOOLEAN
        /\ outdated' <=> \E d \in DiffLoads :
                           diffLoads[d] # None /\ diffLoads[d].hide = hide
    BY <1>6 DEF SetHideWhitespace, TypeOK
  <2>2. diff' = None
    <3>1. diff # None => diff.file \in Files
      BY DEF TypeOK, Diff
    <3>2. file = None => diff = None
      BY <3>1, NoneType DEF DiffIsOfSelection
    <3> QED
      BY <1>6, <3>2 DEF SetHideWhitespace
  <2>3. ASSUME ~outdated'
        PROVE  \A d \in DiffLoads : diffLoads[d] # None
                                      => diffLoads[d].hide = hide'
    <3> SUFFICES ASSUME NEW d \in DiffLoads, diffLoads[d] # None
                 PROVE  diffLoads[d].hide = hide'
      OBVIOUS
    <3>1. diffLoads[d].hide \in BOOLEAN /\ diffLoads[d].hide # hide
      BY <2>1, <2>3 DEF TypeOK, Diff
    <3> QED
      BY <2>1, <3>1 DEF TypeOK
  <2>4. CASE file = None
    BY <1>6, <2>2, <2>3, <2>4 DEF SetHideWhitespace, SettingInv
  <2>5. CASE file # None
    <3>1. file \in Files /\ BeginDiff(file, hide')
      BY <1>6, <2>5 DEF SetHideWhitespace, TypeOK
    <3> QED
      BY <2>1, <2>2, <2>3, <3>1, BeginDiffSetting DEF SettingInv
  <2> QED
    BY <2>4, <2>5
<1>7. CASE LoadTimer \/ UNCHANGED vars
  BY <1>1, <1>7 DEF LoadTimer, shown, history, vars
<1>8. ASSUME NEW l \in FileLoads, LoadEnds(l) PROVE SettingInv'
  <2>1. UNCHANGED <<hide, outdated>> /\ diff' = None
    BY <1>8 DEF LoadEnds, history
  <2>2. CASE file' = None
    BY <1>1, <1>8, <2>1, <2>2 DEF LoadEnds
  <2>3. CASE file' # None
    <3>1. file' \in Files /\ BeginDiff(file', hide)
      BY <1>8, <2>3, FirstFileType DEF LoadEnds
    <3> QED
      BY <2>1, <3>1, BeginDiffSetting DEF SettingInv, TypeOK
  <2> QED
    BY <2>2, <2>3
<1>9. ASSUME NEW l \in FileLoads, LoadFails(l) PROVE SettingInv'
  BY <1>1, <1>9 DEF LoadFails, shown
<1>10. ASSUME NEW d \in DiffLoads, DiffEnds(d) \/ DiffFails(d)
       PROVE  SettingInv'
  BY <1>10 DEF DiffEnds, DiffFails, SettingInv, TypeOK, shown, history
<1> QED
  BY <1>2, <1>3, <1>4, <1>5, <1>6, <1>7, <1>8, <1>9, <1>10 DEF Next

\* The diff shown was made with the whitespace setting of now, unless the
\* setting changed while a diff was loading: then, and only then, does the
\* check _changeFileSelection leaves out matter.
THEOREM DiffWithSetting == Spec => []DiffHasSetting
<1>1. Init => DiffIsOfSelection /\ SettingInv
  BY DEF Init, DiffIsOfSelection, SettingInv
<1>2. SettingInv => DiffHasSetting
  BY DEF SettingInv, DiffHasSetting
<1> QED
  BY <1>1, <1>2, InitTypeOK, NextTypeOK, DiffNext, SettingNext, PTL DEF Spec

-----------------------------------------------------------------------------
\* The files are those of the selected commits.

FilesInv ==
  ~overtaken =>
    /\ files \in {{}, FilesOf(selected)}
    /\ file # None => file \in files
    /\ \A l \in FileLoads : loads[l] # None =>
         /\ loads[l].of = selected
         /\ loads[l].file # None => loads[l].file \in FilesOf(selected)

LEMMA ChangeSelectionFiles ==
  ASSUME FilesInv, NEW s \in Selections, ChangeSelection(s), ~overtaken'
  PROVE  /\ selected' = s /\ files' = {} /\ file' = None
         /\ \A l \in FileLoads : loads[l] # None =>
              /\ loads[l].of = s
              /\ loads[l].file # None => loads[l].file \in FilesOf(s)
BY DEF FilesInv, ChangeSelection, LoadsAnother

LEMMA BeginLoadFiles ==
  ASSUME TypeOK, NEW s \in Selections, NEW f \in Files \cup {None},
         BeginLoad(s, f), f # None => f \in FilesOf(s),
         \A l \in FileLoads : loads[l] # None =>
           /\ loads[l].of = s
           /\ loads[l].file # None => loads[l].file \in FilesOf(s)
  PROVE  \A l \in FileLoads : loads'[l] # None =>
           /\ loads'[l].of = s
           /\ loads'[l].file # None => loads'[l].file \in FilesOf(s)
BY DEF TypeOK, BeginLoad

LEMMA FilesNext == TypeOK /\ FilesInv /\ [Next]_vars => FilesInv'
<1> SUFFICES ASSUME TypeOK, FilesInv, [Next]_vars PROVE FilesInv'
  OBVIOUS
<1>1. ASSUME UNCHANGED <<selected, files, file, overtaken, loads>>
      PROVE  FilesInv'
  BY <1>1 DEF FilesInv
<1>2. ASSUME NEW s \in Selections, ChangeSelection(s), UNCHANGED loads
      PROVE  FilesInv'
  BY <1>2, ChangeSelectionFiles DEF FilesInv
<1>3. ASSUME NEW s \in Selections, SelectCommits(s) PROVE FilesInv'
  BY <1>1, <1>2, <1>3 DEF SelectCommits, shown
<1>4. ASSUME NEW c \in Commits, HistoryReplaced(c) PROVE FilesInv'
  <2>1. ChangeSelection({c}) /\ BeginLoad({c}, None)
    BY <1>4 DEF HistoryReplaced
  <2> QED
    BY <2>1, SingleType, ChangeSelectionFiles, BeginLoadFiles DEF FilesInv
<1>5. ASSUME NEW c \in Commits, SelectedByOperation(c) PROVE FilesInv'
  BY <1>2, <1>5, SingleType DEF SelectedByOperation
<1>6. CASE HistoryEmptied
  BY <1>2, <1>6 DEF HistoryEmptied, Selections
<1>7. ASSUME NEW f \in Files, ChangeFile(f) PROVE FilesInv'
  BY <1>7 DEF ChangeFile, FilesInv, history
<1>8. CASE SetHideWhitespace \/ UNCHANGED vars
  BY <1>1, <1>8 DEF SetHideWhitespace, vars, shown, history
<1>9. CASE LoadTimer
  <2>1. UNCHANGED <<selected, files, file, overtaken>>
    BY <1>9 DEF LoadTimer, shown, history
  <2>2. BeginLoad(selected, file) /\ selected \in Selections
         /\ file \in Files \cup {None}
    BY <1>9 DEF LoadTimer, TypeOK
  <2>3. ~overtaken => (file # None => file \in FilesOf(selected))
    BY DEF FilesInv
  <2> QED
    BY <2>1, <2>2, <2>3, BeginLoadFiles DEF FilesInv
<1>10. ASSUME NEW l \in FileLoads, LoadEnds(l) PROVE FilesInv'
  <2>1. /\ loads[l] # None /\ loads' = [loads EXCEPT ![l] = None]
        /\ files' = FilesOf(loads[l].of)
        /\ file' = FirstFileOrDefault(loads[l])
        /\ UNCHANGED <<selected, overtaken>>
    BY <1>10 DEF LoadEnds, history
  <2> SUFFICES ASSUME ~overtaken
               PROVE  /\ files' = FilesOf(selected)
                      /\ file' # None => file' \in files'
    BY <2>1 DEF FilesInv, TypeOK
  <2>2. /\ loads[l].of = selected
        /\ loads[l].file # None => loads[l].file \in FilesOf(selected)
    BY <2>1 DEF FilesInv
  <2> QED
    BY <2>1, <2>2, FirstIsOne DEF FirstFileOrDefault
<1>11. ASSUME NEW l \in FileLoads, LoadFails(l) PROVE FilesInv'
  BY <1>11 DEF LoadFails, shown, FilesInv, TypeOK
<1>12. ASSUME NEW d \in DiffLoads, DiffEnds(d) \/ DiffFails(d)
       PROVE  FilesInv'
  BY <1>1, <1>12 DEF DiffEnds, DiffFails, shown, history
<1> QED
  BY <1>3, <1>4, <1>5, <1>6, <1>7, <1>8, <1>9, <1>10, <1>11, <1>12 DEF Next

\* The files shown are those of the selected commits and the selected file is
\* one of them, unless the selection changed while the files of other commits
\* loaded: the comparison _loadChangedFilesForCurrentSelection makes after its
\* await refuses nothing, and this is what holds without it.
THEOREM FilesOfSelection == Spec => []FilesAreOfSelection
<1>1. Init => FilesInv
  BY DEF Init, FilesInv
<1>2. FilesInv => FilesAreOfSelection
  BY DEF FilesInv, FilesAreOfSelection
<1> QED
  BY <1>1, <1>2, InitTypeOK, NextTypeOK, FilesNext, PTL DEF Spec
-----------------------------------------------------------------------------
\* The list of commits: what the helpers return.

\* A list of pages, none skipped or repeated.
Pages(l) ==
  /\ l \in Seq(PagedCommits) /\ Len(l) <= MaxPages
  /\ \A i \in DOMAIN l : l[i][2] = i - 1

LEMMA NoPages == Pages(<<>>)
BY CommitHistoryAssumption DEF Pages

LEMMA OnePage ==
  ASSUME NEW t \in Tips \cup Branches
  PROVE  Pages(<<<<t, 0>>>>)
<1>1. <<t, 0>> \in PagedCommits
  BY CommitHistoryAssumption DEF PagedCommits
<1> QED
  BY <1>1, CommitHistoryAssumption DEF Pages

\* The page that is appended is the one that follows.
LEMMA PageAfter ==
  ASSUME NEW l, Pages(l), Len(l) < MaxPages, NEW t \in Tips
  PROVE  Pages(Append(l, <<t, NextPage(l)>>))
<1>1. Len(l) \in Nat /\ MaxPages \in Nat /\ l \in Seq(PagedCommits)
  BY CommitHistoryAssumption, LenProperties DEF Pages
<1>2. <<t, NextPage(l)>> \in PagedCommits
  BY <1>1 DEF NextPage, PagedCommits
<1>3. /\ Append(l, <<t, NextPage(l)>>) \in Seq(PagedCommits)
      /\ Len(Append(l, <<t, NextPage(l)>>)) = Len(l) + 1
      /\ \A i \in 1..Len(l) : Append(l, <<t, NextPage(l)>>)[i] = l[i]
      /\ Append(l, <<t, NextPage(l)>>)[Len(l) + 1] = <<t, NextPage(l)>>
  BY <1>1, <1>2, AppendProperties
<1>4. \A i \in 1..Len(l) : l[i][2] = i - 1
  BY <1>1, LenProperties DEF Pages
<1>5. DOMAIN Append(l, <<t, NextPage(l)>>) = 1..Len(l) + 1
  BY <1>3, LenProperties
<1> SUFFICES ASSUME NEW i \in 1..Len(l) + 1
             PROVE  Append(l, <<t, NextPage(l)>>)[i][2] = i - 1
  BY <1>1, <1>3, <1>5 DEF Pages
<1>6. CASE i \in 1..Len(l)
  BY <1>3, <1>4, <1>6
<1>7. CASE i = Len(l) + 1
  BY <1>1, <1>3, <1>7 DEF NextPage
<1> QED
  BY <1>1, <1>6, <1>7

LEMMA SelectedType ==
  ASSUME NEW l \in Seq(PagedCommits)
  PROVE  /\ SelectedOrFirst(l) \in PagedCommits \cup {Null}
         /\ l # <<>> => SelectedOrFirst(l) \in Listed(l)
<1>1. \A i \in DOMAIN l : l[i] \in PagedCommits
  BY ElementOfSeq, LenProperties
<1>2. l # <<>> => 1 \in DOMAIN l
  BY EmptySeq, LenProperties
<1> QED
  BY <1>1, <1>2 DEF SelectedOrFirst, Listed

-----------------------------------------------------------------------------
\* The types of the list, with those of what its loads captured.

HistoryTypeInv ==
  /\ HistoryTypeOK
  /\ Pages(list)
  /\ refresh \in [Refreshes -> [at : Phases, list : Seq(PagedCommits)]]
  /\ \A r \in Refreshes : Pages(refresh[r].list)
  /\ next # Null =>
       /\ next \in [base : Seq(PagedCommits), began : Tips]
       /\ Pages(next.base) /\ Len(next.base) < MaxPages /\ next.base # <<>>

LEMMA InitHistoryType == HistoryInit => HistoryTypeInv
<1> SUFFICES ASSUME HistoryInit PROVE HistoryTypeInv
  OBVIOUS
<1>1. /\ Pages(list) /\ Len(list) <= MaxPages
      /\ \A i \in DOMAIN list :
           list[i] \in PagedCommits /\ list[i][2] = i - 1
  BY NoPages DEF HistoryInit, Pages
<1>2. refresh \in [Refreshes -> [at : Phases, list : Seq(PagedCommits)]]
  BY DEF HistoryInit, Idle, Phases
<1>3. \A r \in Refreshes : refresh[r].list = <<>>
  BY DEF HistoryInit, Idle
<1>4. HistoryTypeOK
  BY <1>1, <1>2 DEF HistoryInit, HistoryTypeOK
<1> QED
  BY <1>1, <1>2, <1>3, <1>4, NoPages DEF HistoryInit, HistoryTypeInv

\* What Pages says, as the type invariant says it.
LEMMA PagesType ==
  ASSUME NEW l, Pages(l)
  PROVE  /\ l \in Seq(PagedCommits) /\ Len(l) <= MaxPages
         /\ \A i \in DOMAIN l : l[i] \in PagedCommits /\ l[i][2] = i - 1
<1>1. \A i \in DOMAIN l : l[i] \in PagedCommits
  BY ElementOfSeq, LenProperties DEF Pages
<1> QED
  BY <1>1 DEF Pages

\* A step that only changes what is listed.
LEMMA ListingType ==
  ASSUME HistoryTypeInv, Pages(list'), form' \in Branches \cup {"history"},
         shownTip' \in Tips \cup {Null},
         firstSelected' \in PagedCommits \cup {Null},
         first' \in FirstLoads \cup {Null}, next' \in {next, Null},
         compares' \in [Compares -> Branches \cup {Null}],
         merging' \in Branches \cup {Null},
         mergeStatus' \in Branches \cup {Null, "loading"},
         disturbed' \in BOOLEAN, missed' \in BOOLEAN,
         replaced' \in BOOLEAN, hijacked' \in BOOLEAN,
         UNCHANGED <<head, tip, refresh>>
  PROVE  HistoryTypeInv'
<1>1. HistoryTypeOK'
  BY PagesType DEF HistoryTypeInv, HistoryTypeOK
<1> QED
  BY <1>1 DEF HistoryTypeInv

LEMMA ShowHistoryType ==
  ASSUME HistoryTypeInv, ShowHistory
  PROVE  first' \in FirstLoads \cup {Null} /\ missed' \in BOOLEAN
BY DEF ShowHistory, HistoryTypeInv, HistoryTypeOK, FirstLoads

LEMMA BeginCompareType ==
  ASSUME HistoryTypeInv, NEW b \in Branches, BeginCompare(b)
  PROVE  compares' \in [Compares -> Branches \cup {Null}]
BY DEF BeginCompare, HistoryTypeInv, HistoryTypeOK

\* A step of one refresh.
LEMMA RefreshType ==
  ASSUME HistoryTypeInv, NEW r \in Refreshes, NEW phase \in Phases,
         NEW captured, Pages(captured), RefreshGoesTo(r, phase, captured)
  PROVE  /\ refresh' \in [Refreshes -> [at : Phases, list : Seq(PagedCommits)]]
         /\ \A s \in Refreshes : Pages(refresh'[s].list)
         /\ refresh'[r].at = phase /\ refresh'[r].list = captured
         /\ \A s \in Refreshes \ {r} : refresh'[s] = refresh[s]
<1> DEFINE d == [at |-> phase, list |-> captured]
<1>1. /\ d \in [at : Phases, list : Seq(PagedCommits)]
      /\ d.at = phase /\ d.list = captured
  BY DEF Pages
<1>2. refresh' = [refresh EXCEPT ![r] = d]
  BY DEF RefreshGoesTo
<1> HIDE DEF d
<1>3. /\ refresh' \in [Refreshes -> [at : Phases, list : Seq(PagedCommits)]]
      /\ refresh'[r] = d /\ \A s \in Refreshes \ {r} : refresh'[s] = refresh[s]
  BY <1>1, <1>2 DEF HistoryTypeInv
<1>4. \A s \in Refreshes : Pages(refresh'[s].list)
  BY <1>1, <1>3 DEF HistoryTypeInv
<1> QED
  BY <1>1, <1>3, <1>4

\* A step that changes nothing but a refresh, the tip and what is selected.
LEMMA RefreshStepType ==
  ASSUME HistoryTypeInv,
         refresh' \in [Refreshes -> [at : Phases, list : Seq(PagedCommits)]],
         \A s \in Refreshes : Pages(refresh'[s].list),
         tip' \in Tips \cup {Null}, firstSelected' \in PagedCommits \cup {Null},
         UNCHANGED <<head, form, shownTip, list, loading, merge, flags>>
  PROVE  HistoryTypeInv'
BY DEF loading, merge, flags, HistoryTypeInv, HistoryTypeOK

\* What the user and git do, and the steps of the refresh.
LEMMA AskedType ==
  ASSUME HistoryTypeInv,
         \/ \E t \in Tips : HeadMoves(t)
         \/ \E c \in Listed(list) : UserSelects(c)
         \/ UserShowsHistory
         \/ \E b \in Branches : UserCompares(b)
         \/ \E r \in Refreshes :
              \/ RefreshBegins(r) \/ StatusLoaded(r) \/ SectionBegins(r)
              \/ SectionEnds(r) \/ InitializeCompare(r)
  PROVE  HistoryTypeInv'
<1>1. ASSUME NEW t \in Tips, HeadMoves(t) PROVE HistoryTypeInv'
  <2>1. first' \in FirstLoads \cup {Null} /\ disturbed' \in BOOLEAN
    BY <1>1 DEF HeadMoves, HistoryTypeInv, HistoryTypeOK, FirstLoads
  <2> QED
    BY <1>1, <2>1
    DEF HeadMoves, listing, merge, HistoryTypeInv, HistoryTypeOK
<1>2. ASSUME NEW c \in Listed(list), UserSelects(c) PROVE HistoryTypeInv'
  <2>1. c \in PagedCommits
    BY DEF Listed, HistoryTypeInv, HistoryTypeOK
  <2> QED
    BY <1>2, <2>1
    DEF UserSelects, loading, merge, flags, HistoryTypeInv, HistoryTypeOK
<1>3. CASE UserShowsHistory
  <2>1. compares' = compares /\ next' = next
    BY <1>3 DEF UserShowsHistory, ShowHistory
  <2> QED
    BY <1>3, <2>1, ShowHistoryType, ListingType
    DEF UserShowsHistory, listing, merge, HistoryTypeInv, HistoryTypeOK
<1>4. ASSUME NEW b \in Branches, UserCompares(b) PROVE HistoryTypeInv'
  <2>1. first' = first /\ next' = next
    BY <1>4 DEF UserCompares, BeginCompare
  <2> QED
    BY <1>4, <2>1, BeginCompareType, ListingType
    DEF UserCompares, listing, merge, flags, HistoryTypeInv, HistoryTypeOK
<1>5. ASSUME NEW r \in Refreshes, RefreshBegins(r) \/ StatusLoaded(r)
      PROVE  HistoryTypeInv'
  <2>1. PICK p \in Phases : RefreshGoesTo(r, p, <<>>)
    BY <1>5 DEF RefreshBegins, StatusLoaded, Phases
  <2>2. tip' \in Tips \cup {Null} /\ firstSelected' \in PagedCommits \cup {Null}
    BY <1>5 DEF RefreshBegins, StatusLoaded, listing, HistoryTypeInv,
       HistoryTypeOK
  <2> QED
    BY <1>5, <2>1, <2>2, NoPages, RefreshType, RefreshStepType
    DEF RefreshBegins, StatusLoaded, listing
<1>6. ASSUME NEW r \in Refreshes, SectionBegins(r) PROVE HistoryTypeInv'
  <2>1. "selecting" \in Phases /\ RefreshGoesTo(r, "selecting", list)
    BY <1>6 DEF SectionBegins, Phases
  <2>2. Pages(list) /\ tip' = tip /\ firstSelected' = firstSelected
    BY <1>6 DEF SectionBegins, listing, HistoryTypeInv
  <2> QED
    BY <1>6, <2>1, <2>2, RefreshType, RefreshStepType
    DEF SectionBegins, listing, HistoryTypeInv, HistoryTypeOK
<1>7. ASSUME NEW r \in Refreshes, SectionEnds(r) PROVE HistoryTypeInv'
  <2>1. "init" \in Phases /\ RefreshGoesTo(r, "init", <<>>)
    BY <1>7 DEF SectionEnds, Phases
  <2>2. firstSelected' \in PagedCommits \cup {Null} /\ tip' \in Tips \cup {Null}
    BY <1>7, SelectedType DEF SectionEnds, HistoryTypeInv, HistoryTypeOK, Pages
  <2> QED
    BY <1>7, <2>1, <2>2, NoPages, RefreshType, RefreshStepType DEF SectionEnds
<1>8. ASSUME NEW r \in Refreshes, InitializeCompare(r) PROVE HistoryTypeInv'
  <2>1. /\ refresh' \in [Refreshes -> [at : Phases, list : Seq(PagedCommits)]]
        /\ \A s \in Refreshes : Pages(refresh'[s].list)
    <3>1. "idle" \in Phases /\ RefreshGoesTo(r, "idle", <<>>)
      BY <1>8 DEF InitializeCompare, Phases
    <3> QED
      BY <3>1, NoPages, RefreshType
  <2>2. /\ first' \in FirstLoads \cup {Null} /\ next' = next
        /\ compares' \in [Compares -> Branches \cup {Null}]
        /\ missed' \in BOOLEAN
    <3>1. CASE form = "history"
      BY <1>8, <3>1, ShowHistoryType
      DEF InitializeCompare, ShowHistory, HistoryTypeInv, HistoryTypeOK
    <3>2. CASE form # "history"
      <4>1. form \in Branches /\ BeginCompare(form) /\ missed' \in BOOLEAN
        BY <1>8, <3>2 DEF InitializeCompare, HistoryTypeInv, HistoryTypeOK
      <4> QED
        BY <4>1, BeginCompareType DEF BeginCompare, HistoryTypeInv, HistoryTypeOK
    <3> QED
      BY <3>1, <3>2
  <2> QED
    BY <1>8, <2>1, <2>2
    DEF InitializeCompare, listing, merge, HistoryTypeInv, HistoryTypeOK
<1> QED
  BY <1>1, <1>2, <1>3, <1>4, <1>5, <1>6, <1>7, <1>8

\* What comes back from git.
LEMMA LoadedType ==
  ASSUME HistoryTypeInv,
         \/ FirstEnds \/ FirstFails
         \/ BeginNext \/ NextEnds \/ NextFails
         \/ \E c \in Compares : CompareEnds(c) \/ CompareFails(c)
         \/ MergeEnds
  PROVE  HistoryTypeInv'
<1>1. CASE FirstEnds
  <2>1. /\ first \in FirstLoads /\ head \in Tips
    BY <1>1 DEF FirstEnds, HistoryTypeInv, HistoryTypeOK
  <2>2. PICK t \in {first.began, head} : list' = <<<<t, 0>>>>
    BY <1>1 DEF FirstEnds
  <2>3. Pages(list')
    BY <2>1, <2>2, OnePage DEF FirstLoads
  <2>4. firstSelected' \in PagedCommits \cup {Null}
    BY <1>1, <2>3, SelectedType DEF FirstEnds, Pages
  <2>5. shownTip' \in Tips \cup {Null} /\ disturbed' \in BOOLEAN
    BY <1>1, <2>1 DEF FirstEnds, FirstLoads
  <2> QED
    BY <1>1, <2>3, <2>4, <2>5, ListingType
    DEF FirstEnds, Selecting, merge, HistoryTypeInv, HistoryTypeOK
<1>2. CASE FirstFails
  BY <1>2, ListingType
  DEF FirstFails, listing, merge, HistoryTypeInv, HistoryTypeOK
<1>3. CASE BeginNext
  <2>1. next' = [base |-> list, began |-> head]
    BY <1>3 DEF BeginNext
  <2>2. /\ next' \in [base : Seq(PagedCommits), began : Tips]
        /\ Pages(next'.base) /\ Len(next'.base) < MaxPages
        /\ next'.base # <<>>
    BY <1>3, <2>1 DEF BeginNext, Pages, HistoryTypeInv, HistoryTypeOK
  <2>3. first' \in FirstLoads \cup {Null} /\ disturbed' \in BOOLEAN
    BY <1>3 DEF BeginNext, HistoryTypeInv, HistoryTypeOK, FirstLoads
  <2>4. HistoryTypeOK'
    BY <1>3, <2>2, <2>3
    DEF BeginNext, listing, merge, HistoryTypeInv, HistoryTypeOK
  <2> QED
    BY <1>3, <2>2, <2>4 DEF BeginNext, listing, HistoryTypeInv
<1>4. CASE NextEnds
  <2>1. /\ Pages(next.base) /\ Len(next.base) < MaxPages
        /\ next.began \in Tips /\ head \in Tips
    BY <1>4 DEF NextEnds, HistoryTypeInv, HistoryTypeOK
  <2>2. Pages(list')
    BY <1>4, <2>1, PageAfter DEF NextEnds
  <2> QED
    BY <1>4, <2>2, ListingType
    DEF NextEnds, merge, HistoryTypeInv, HistoryTypeOK
<1>5. CASE NextFails
  BY <1>5, ListingType
  DEF NextFails, listing, merge, flags, HistoryTypeInv, HistoryTypeOK
<1>6. ASSUME NEW c \in Compares, CompareEnds(c) PROVE HistoryTypeInv'
  <2>1. /\ compares[c] \in Branches
        /\ compares' \in [Compares -> Branches \cup {Null}]
    BY <1>6 DEF CompareEnds, HistoryTypeInv, HistoryTypeOK
  <2>2. Pages(list')
    BY <1>6, <2>1, NoPages, OnePage DEF CompareEnds
  <2>3. firstSelected' \in PagedCommits \cup {Null}
    BY <1>6, <2>2, SelectedType DEF CompareEnds, Pages
  <2>4. /\ merging' \in Branches \cup {Null}
        /\ mergeStatus' \in Branches \cup {Null, "loading"}
    BY <1>6, <2>1 DEF CompareEnds, MergeBegins, HistoryTypeInv, HistoryTypeOK
  <2> QED
    BY <1>6, <2>1, <2>2, <2>3, <2>4, ListingType
    DEF CompareEnds, Selecting, HistoryTypeInv, HistoryTypeOK
<1>7. ASSUME NEW c \in Compares, CompareFails(c) PROVE HistoryTypeInv'
  <2>1. compares' \in [Compares -> Branches \cup {Null}]
    BY <1>7 DEF CompareFails, HistoryTypeInv, HistoryTypeOK
  <2> QED
    BY <1>7, <2>1, ListingType
    DEF CompareFails, listing, merge, flags, HistoryTypeInv, HistoryTypeOK
<1>8. CASE MergeEnds
  <2>1. /\ merging' \in Branches \cup {Null}
        /\ mergeStatus' \in Branches \cup {Null, "loading"}
    BY <1>8 DEF MergeEnds, HistoryTypeInv, HistoryTypeOK
  <2> QED
    BY <1>8, <2>1, ListingType
    DEF MergeEnds, listing, loading, flags, HistoryTypeInv, HistoryTypeOK
<1> QED
  BY <1>1, <1>2, <1>3, <1>4, <1>5, <1>6, <1>7, <1>8

LEMMA NextHistoryType ==
  HistoryTypeInv /\ [HistoryNext]_historyVars => HistoryTypeInv'
<1>1. HistoryTypeInv /\ UNCHANGED historyVars => HistoryTypeInv'
  BY DEF historyVars, listing, loading, merge, flags, HistoryTypeInv,
     HistoryTypeOK
<1> QED
  BY <1>1, AskedType, LoadedType DEF HistoryNext

\* The pages of the list follow each other, none skipped or repeated, however
\* loads of pages, comparisons and moves of HEAD interleave; every variable
\* stays in its type.
THEOREM PagesFollow == HistorySpec => []HistoryTypeOK
<1>1. HistoryTypeInv => HistoryTypeOK
  BY DEF HistoryTypeInv
<1> QED
  BY <1>1, InitHistoryType, NextHistoryType, PTL DEF HistorySpec

-----------------------------------------------------------------------------
\* The list is the history of the tip.

\* A load of the first page nothing disturbed is of HEAD, and no other page is
\* being loaded.
CleanInv ==
  first # Null /\ first.clean =>
    next = Null /\ first.tip = head /\ first.began = head

\* Where nothing was disturbed the list is that of the tip shown, and the page
\* being loaded is its next one.
TipInv ==
  ~disturbed =>
    /\ form = "history" => \A i \in DOMAIN list : list[i] = <<shownTip, i - 1>>
    /\ next # Null =>
         /\ form = "history" /\ next.base = list
         /\ next.began = head /\ head = shownTip

OfTipInv == HistoryTypeInv /\ CleanInv /\ TipInv

LEMMA NullIsNoTip == Null \notin Tips /\ "history" \notin Branches
BY CommitHistoryAssumption

\* A list of one page.
LEMMA OneListed ==
  ASSUME NEW x
  PROVE  /\ <<x>> # <<>> /\ DOMAIN <<x>> = {1} /\ <<x>>[1] = x
OBVIOUS

LEMMA FirstEndsOfTip ==
  ASSUME OfTipInv, FirstEnds
  PROVE  CleanInv' /\ TipInv'
<1>1. CleanInv'
  BY DEF FirstEnds, CleanInv
<1> SUFFICES TipInv'
  BY <1>1
<1>2. CASE first.clean
  <2>1. /\ next = Null /\ first.tip = head /\ first.began = head
        /\ first \in FirstLoads
    BY <1>2 DEF FirstEnds, OfTipInv, CleanInv, HistoryTypeInv, HistoryTypeOK
  <2>2. list' = <<<<head, 0>>>> /\ shownTip' = head /\ next' = Null
    BY <2>1 DEF FirstEnds
  <2>3. \A i \in DOMAIN list' : list'[i] = <<shownTip', i - 1>>
    BY <2>2, OneListed
  <2> QED
    BY <2>2, <2>3 DEF TipInv
<1>3. CASE ~first.clean
  <2>1. disturbed' = TRUE
    BY <1>3 DEF FirstEnds
  <2> QED
    BY <2>1 DEF TipInv
<1> QED
  BY <1>1, <1>2, <1>3

LEMMA NextEndsOfTip ==
  ASSUME OfTipInv, NextEnds
  PROVE  CleanInv' /\ TipInv'
<1>1. CleanInv'
  BY DEF NextEnds, OfTipInv, CleanInv
<1> SUFFICES TipInv'
  BY <1>1
<1>2. CASE disturbed
  <2>1. disturbed' = disturbed
    BY DEF NextEnds
  <2> QED
    BY <1>2, <2>1 DEF TipInv
<1>3. CASE ~disturbed
  <2>1. /\ form = "history" /\ next.base = list
        /\ next.began = head /\ head = shownTip
        /\ \A i \in DOMAIN list : list[i] = <<shownTip, i - 1>>
    BY <1>3 DEF NextEnds, OfTipInv, TipInv
  <2>2. list \in Seq(PagedCommits) /\ head \in Tips
    BY DEF OfTipInv, HistoryTypeInv, HistoryTypeOK, Pages
  <2>3. next' = Null /\ UNCHANGED <<form, shownTip>>
    BY DEF NextEnds
  <2>4. CASE list' = list
    BY <2>1, <2>3, <2>4 DEF TipInv
  <2>5. CASE list' = Append(list, <<head, Len(list)>>)
    <3>1. Len(list) \in Nat /\ DOMAIN list = 1..Len(list)
      BY <2>2, LenProperties
    <3>2. Len(list) < MaxPages
      BY <2>1 DEF NextEnds, OfTipInv, HistoryTypeInv
    <3>3. <<head, Len(list)>> \in PagedCommits
      BY <2>2, <3>1, <3>2, CommitHistoryAssumption DEF PagedCommits
    <3>4. /\ list' \in Seq(PagedCommits) /\ Len(list') = Len(list) + 1
          /\ \A i \in 1..Len(list) : list'[i] = list[i]
          /\ list'[Len(list) + 1] = <<head, Len(list)>>
      BY <2>2, <2>5, <3>3, AppendProperties
    <3>5. DOMAIN list' = 1..(Len(list) + 1)
      BY <3>4, LenProperties
    <3>6. \A i \in DOMAIN list' : list'[i] = <<head, i - 1>>
      BY <2>1, <3>1, <3>4, <3>5
    <3> QED
      BY <2>1, <2>3, <3>6 DEF TipInv
  <2> QED
    BY <2>1, <2>4, <2>5 DEF NextEnds, NextPage
<1> QED
  BY <1>1, <1>2, <1>3

LEMMA NextOfTip == OfTipInv /\ [HistoryNext]_historyVars => OfTipInv'
<1> SUFFICES ASSUME OfTipInv, [HistoryNext]_historyVars PROVE OfTipInv'
  OBVIOUS
<1>1. HistoryTypeInv'
  BY NextHistoryType DEF OfTipInv
<1>2. CASE UNCHANGED <<head, first, next, form, shownTip, list, disturbed>>
  BY <1>1, <1>2 DEF OfTipInv, CleanInv, TipInv
<1>3. ASSUME NEW t \in Tips, HeadMoves(t) PROVE OfTipInv'
  <2>1. CleanInv'
    BY <1>3 DEF HeadMoves, OfTipInv, HistoryTypeInv, HistoryTypeOK, FirstLoads,
       CleanInv
  <2>2. TipInv'
    BY <1>3 DEF HeadMoves, listing, OfTipInv, TipInv
  <2> QED
    BY <1>1, <2>1, <2>2 DEF OfTipInv
<1>4. ASSUME ShowHistory,
             UNCHANGED <<head, form, shownTip, list, disturbed>>
      PROVE  OfTipInv'
  <2>1. next' = next /\ TipInv'
    BY <1>4 DEF ShowHistory, OfTipInv, TipInv
  <2>2. CleanInv'
    BY <1>4, <2>1 DEF ShowHistory, OfTipInv, CleanInv
  <2> QED
    BY <1>1, <2>1, <2>2 DEF OfTipInv
<1>5. CASE UserShowsHistory
  BY <1>4, <1>5 DEF UserShowsHistory, listing
<1>6. ASSUME NEW r \in Refreshes, InitializeCompare(r) PROVE OfTipInv'
  BY <1>2, <1>4, <1>6 DEF InitializeCompare, BeginCompare, listing
<1>7. CASE BeginNext
  <2>1. CleanInv'
    BY <1>7 DEF BeginNext, listing, OfTipInv, HistoryTypeInv, HistoryTypeOK,
       FirstLoads, CleanInv
  <2>2. next' = [base |-> list, began |-> head]
    BY <1>7 DEF BeginNext
  <2>3. next'.base = list /\ next'.began = head
    BY <2>2
  <2>4. TipInv'
    BY <1>7, <2>3 DEF BeginNext, listing, OfTipInv, TipInv
  <2> QED
    BY <1>1, <2>1, <2>4 DEF OfTipInv
<1>8. CASE FirstFails \/ NextFails
  BY <1>1, <1>8 DEF FirstFails, NextFails, listing, flags, OfTipInv, CleanInv,
     TipInv
<1>9. ASSUME NEW c \in Compares, CompareEnds(c) PROVE OfTipInv'
  <2>1. compares[c] # "history" /\ form' = compares[c]
    BY <1>9, NullIsNoTip DEF CompareEnds, OfTipInv, HistoryTypeInv,
       HistoryTypeOK
  <2>2. CleanInv'
    BY <1>9 DEF CompareEnds, OfTipInv, CleanInv
  <2>3. TipInv'
    BY <1>9, <2>1 DEF CompareEnds, TipInv
  <2> QED
    BY <1>1, <2>2, <2>3 DEF OfTipInv
<1>10. CASE \/ \E c \in Listed(list) : UserSelects(c)
            \/ \E b \in Branches : UserCompares(b)
            \/ \E r \in Refreshes : RefreshBegins(r) \/ StatusLoaded(r)
                                     \/ SectionBegins(r) \/ SectionEnds(r)
            \/ \E c \in Compares : CompareFails(c)
            \/ MergeEnds \/ UNCHANGED historyVars
  BY <1>2, <1>10 DEF UserSelects, UserCompares, BeginCompare, RefreshBegins,
     StatusLoaded, SectionBegins, SectionEnds, CompareFails, MergeEnds,
     historyVars, listing, loading, merge, flags
<1>11. CASE FirstEnds \/ NextEnds
  BY <1>1, <1>11, FirstEndsOfTip, NextEndsOfTip DEF OfTipInv
<1> QED
  BY <1>3, <1>5, <1>6, <1>7, <1>8, <1>9, <1>10, <1>11 DEF HistoryNext

LEMMA InitOfTip == HistoryInit => OfTipInv
BY InitHistoryType DEF HistoryInit, OfTipInv, CleanInv, TipInv

\* When the tip shown is HEAD, the list is its history, page by page, whatever
\* was loading when HEAD moved or a comparison came.
THEOREM HistoryOfTip == HistorySpec => []HistoryIsOfTip
<1>1. OfTipInv => HistoryIsOfTip
  BY DEF OfTipInv, TipInv, HistoryIsOfTip
<1> QED
  BY <1>1, InitOfTip, NextOfTip, PTL DEF HistorySpec

-----------------------------------------------------------------------------
\* After a refresh the history is that of the tip.

\* While no refresh is past its status, the history is that of the tip, or is
\* being loaded for it.
RefreshedInv ==
  /\ HistoryTypeInv
  /\ /\ ~missed
     /\ \A r \in Refreshes : refresh[r].at \in {"idle", "status"}
     => /\ first # Null => first.tip = tip
        /\ first = Null /\ form = "history" => shownTip = tip

\* A load that begins, and the one that was under way, are seen as such.
LEMMA ShowHistoryRefreshes ==
  ASSUME HistoryTypeInv, ShowHistory, UNCHANGED <<tip, form, shownTip>>
  PROVE  ~missed' => /\ first' # Null => first'.tip = tip'
                     /\ first' = Null /\ form' = "history" => shownTip' = tip'
<1> DEFINE f == [tip |-> tip, began |-> head,
                 clean |-> next = Null /\ tip = head]
<1>1. f \in FirstLoads /\ f # Null /\ f.tip = tip
  BY CommitHistoryAssumption DEF HistoryTypeInv, HistoryTypeOK, FirstLoads
<1>2. ~missed' => first = Null
  BY DEF ShowHistory
<1>3. CASE TipIsUnchanged /\ form = "history" /\ list # <<>>
  BY <1>2, <1>3 DEF ShowHistory, TipIsUnchanged
<1>4. CASE ~(TipIsUnchanged /\ form = "history" /\ list # <<>>)
  <2>1. first = Null => first' = f
    BY <1>4 DEF ShowHistory
  <2> QED
    BY <1>1, <1>2, <2>1
<1> QED
  BY <1>3, <1>4

LEMMA NextRefreshed ==
  RefreshedInv /\ [HistoryNext]_historyVars => RefreshedInv'
<1> SUFFICES ASSUME RefreshedInv, [HistoryNext]_historyVars
             PROVE  RefreshedInv'
  OBVIOUS
<1>1. HistoryTypeInv'
  BY NextHistoryType DEF RefreshedInv
<1>2. CASE UNCHANGED <<tip, form, shownTip, refresh, first, missed>>
  BY <1>1, <1>2 DEF RefreshedInv
<1>3. ASSUME NEW t \in Tips, HeadMoves(t) PROVE RefreshedInv'
  <2>1. first' # Null => first # Null /\ first'.tip = first.tip
    BY <1>3 DEF HeadMoves, RefreshedInv, HistoryTypeInv, HistoryTypeOK,
       FirstLoads
  <2>2. first' = Null => first = Null
    <3>1. first # Null => [first EXCEPT !.clean = FALSE] \in FirstLoads
      BY DEF RefreshedInv, HistoryTypeInv, HistoryTypeOK, FirstLoads
    <3> QED
      BY <1>3, <3>1, CommitHistoryAssumption DEF HeadMoves
  <2> QED
    BY <1>1, <1>3, <2>1, <2>2 DEF HeadMoves, listing, RefreshedInv
<1>4. CASE UserShowsHistory
  BY <1>1, <1>4, ShowHistoryRefreshes
  DEF UserShowsHistory, listing, RefreshedInv
<1>5. ASSUME NEW r \in Refreshes, InitializeCompare(r) PROVE RefreshedInv'
  <2>1. CASE form = "history"
    BY <1>1, <1>5, <2>1, ShowHistoryRefreshes
    DEF InitializeCompare, listing, RefreshedInv
  <2>2. CASE form # "history"
    BY <1>1, <1>5, <2>2 DEF InitializeCompare, BeginCompare, listing,
       RefreshedInv
  <2> QED
    BY <2>1, <2>2
<1>6. ASSUME NEW r \in Refreshes, RefreshBegins(r) PROVE RefreshedInv'
  <2>1. /\ refresh[r].at = "idle"
        /\ \A s \in Refreshes \ {r} : refresh'[s] = refresh[s]
    BY <1>6, RefreshType, NoPages
    DEF RefreshBegins, RefreshedInv, Phases
  <2> QED
    BY <1>1, <1>6, <2>1
    DEF RefreshBegins, listing, loading, flags, RefreshedInv
<1>7. ASSUME NEW r \in Refreshes,
             StatusLoaded(r) \/ SectionBegins(r) \/ SectionEnds(r)
      PROVE  RefreshedInv'
  <2>1. PICK p \in Phases \ {"idle", "status"}, captured \in {<<>>, list} :
          Pages(captured) /\ RefreshGoesTo(r, p, captured)
    BY <1>7, NoPages DEF StatusLoaded, SectionBegins, SectionEnds, Phases,
       RefreshedInv, HistoryTypeInv
  <2>2. refresh'[r].at \notin {"idle", "status"}
    BY <2>1, RefreshType DEF RefreshedInv
  <2> QED
    BY <1>1, <2>2 DEF RefreshedInv
<1>8. CASE FirstEnds
  BY <1>1, <1>8 DEF FirstEnds, RefreshedInv
<1>9. CASE FirstFails
  BY <1>1, <1>9 DEF FirstFails, RefreshedInv
<1>10. CASE BeginNext
  <2>1. first' # Null => first # Null /\ first'.tip = first.tip
    BY <1>10 DEF BeginNext, RefreshedInv, HistoryTypeInv, HistoryTypeOK,
       FirstLoads
  <2>2. first' = Null => first = Null
    <3>1. first # Null => [first EXCEPT !.clean = FALSE] \in FirstLoads
      BY DEF RefreshedInv, HistoryTypeInv, HistoryTypeOK, FirstLoads
    <3> QED
      BY <1>10, <3>1, CommitHistoryAssumption DEF BeginNext
  <2> QED
    BY <1>1, <1>10, <2>1, <2>2 DEF BeginNext, listing, RefreshedInv
<1>11. ASSUME NEW c \in Compares, CompareEnds(c) PROVE RefreshedInv'
  <2>1. form' # "history"
    BY <1>11, NullIsNoTip DEF CompareEnds, RefreshedInv, HistoryTypeInv,
       HistoryTypeOK
  <2> QED
    BY <1>1, <1>11, <2>1 DEF CompareEnds, RefreshedInv
<1>12. CASE \/ \E c \in Listed(list) : UserSelects(c)
            \/ \E b \in Branches : UserCompares(b)
            \/ NextEnds \/ NextFails
            \/ \E c \in Compares : CompareFails(c)
            \/ MergeEnds \/ UNCHANGED historyVars
  BY <1>2, <1>12 DEF UserSelects, UserCompares, BeginCompare, NextEnds,
     NextFails, CompareFails, MergeEnds, historyVars, listing, loading, flags
<1> QED
  BY <1>3, <1>4, <1>5, <1>6, <1>7, <1>8, <1>9, <1>10, <1>11, <1>12
  DEF HistoryNext

LEMMA InitRefreshed == HistoryInit => RefreshedInv
BY InitHistoryType DEF HistoryInit, RefreshedInv

\* Once the repository was refreshed and nothing is loading, the history shown
\* is that of its tip, unless the last call found the page being loaded or git
\* failed: whatever comparisons and refreshes overlapped.
THEOREM HistoryRefreshed == HistorySpec => []HistoryIsRefreshed
<1>1. RefreshedInv => HistoryIsRefreshed
  BY DEF RefreshedInv, HistoryIsRefreshed
<1> QED
  BY <1>1, InitRefreshed, NextRefreshed, PTL DEF HistorySpec

-----------------------------------------------------------------------------
\* The selected commit is in the list.

\* The list refreshHistorySection looks at is the one there is, unless that was
\* replaced meanwhile.
ListedInv ==
  /\ OfTipInv /\ SelectedIsListed
  /\ ~replaced => \A r \in Refreshes :
                    refresh[r].at = "selecting" => refresh[r].list = list

LEMMA FirstIsListed ==
  ASSUME NEW l, Pages(l), l # <<>>
  PROVE  SelectedOrFirst(l) \in Listed(l)
BY SelectedType DEF Pages

\* The list only grows by the next page.
LEMMA NextEndsListed ==
  ASSUME OfTipInv, NextEnds, ~disturbed
  PROVE  list # <<>> /\ Listed(list) \subseteq Listed(list')
<1>1. next.base = list /\ list \in Seq(PagedCommits)
  BY DEF NextEnds, OfTipInv, TipInv, HistoryTypeInv, Pages
<1>2. list # <<>>
  BY <1>1 DEF NextEnds, OfTipInv, HistoryTypeInv
<1>3. CASE list' = list
  BY <1>2, <1>3
<1>4. ASSUME NEW t \in Tips, list' = Append(list, <<t, NextPage(list)>>)
      PROVE  Listed(list) \subseteq Listed(list')
  <2>1. Len(list) \in Nat /\ <<t, NextPage(list)>> \in PagedCommits
    BY <1>1, LenProperties, CommitHistoryAssumption
    DEF NextPage, PagedCommits, NextEnds, OfTipInv, HistoryTypeInv
  <2>2. /\ list' \in Seq(PagedCommits) /\ Len(list') = Len(list) + 1
        /\ \A i \in 1..Len(list) : list'[i] = list[i]
    BY <1>1, <1>4, <2>1, AppendProperties
  <2>3. DOMAIN list = 1..Len(list) /\ DOMAIN list' = 1..(Len(list) + 1)
    BY <1>1, <2>2, LenProperties
  <2>4. \A i \in DOMAIN list : i \in DOMAIN list' /\ list'[i] = list[i]
    BY <2>1, <2>2, <2>3
  <2> QED
    BY <2>4 DEF Listed
<1>5. next.began \in Tips /\ head \in Tips
  BY DEF NextEnds, OfTipInv, HistoryTypeInv, HistoryTypeOK
<1> QED
  BY <1>1, <1>2, <1>3, <1>4, <1>5 DEF NextEnds

LEMMA NextListed == ListedInv /\ [HistoryNext]_historyVars => ListedInv'
<1> SUFFICES ASSUME ListedInv, [HistoryNext]_historyVars PROVE ListedInv'
  OBVIOUS
<1>1. OfTipInv' /\ HistoryTypeInv'
  BY NextOfTip DEF ListedInv, OfTipInv
<1>2. CASE /\ UNCHANGED <<list, firstSelected, refresh, replaced>>
           /\ disturbed => disturbed'
  BY <1>1, <1>2 DEF ListedInv, SelectedIsListed
<1>3. CASE FirstEnds \/ \E c \in Compares : CompareEnds(c)
  <2>1. /\ firstSelected' = SelectedOrFirst(list')
        /\ replaced' = Selecting /\ refresh' = refresh
    BY <1>3 DEF FirstEnds, CompareEnds
  <2>2. list' # <<>> => SelectedOrFirst(list') \in Listed(list')
    BY <1>1, FirstIsListed DEF HistoryTypeInv
  <2> QED
    BY <1>1, <2>1, <2>2 DEF ListedInv, SelectedIsListed, Selecting
<1>4. CASE NextEnds
  <2>1. /\ replaced' = (replaced \/ Selecting)
        /\ UNCHANGED <<refresh, firstSelected, disturbed>>
    BY <1>4 DEF NextEnds
  <2>2. SelectedIsListed'
    BY <1>4, <2>1, NextEndsListed DEF ListedInv, SelectedIsListed
  <2> QED
    BY <1>1, <2>1, <2>2 DEF ListedInv, Selecting
<1>5. ASSUME NEW c \in Listed(list), UserSelects(c) PROVE ListedInv'
  BY <1>1, <1>5 DEF UserSelects, flags, ListedInv, SelectedIsListed
<1>6. ASSUME NEW r \in Refreshes,
             RefreshBegins(r) \/ StatusLoaded(r) \/ InitializeCompare(r)
      PROVE  ListedInv'
  <2>1. PICK p \in Phases \ {"selecting"} : RefreshGoesTo(r, p, <<>>)
    BY <1>6 DEF RefreshBegins, StatusLoaded, InitializeCompare, Phases
  <2>2. /\ refresh'[r].at # "selecting"
        /\ \A s \in Refreshes \ {r} : refresh'[s] = refresh[s]
    BY <2>1, NoPages, RefreshType DEF ListedInv, OfTipInv
  <2>3. UNCHANGED <<list, firstSelected, replaced, disturbed>>
    BY <1>6 DEF RefreshBegins, StatusLoaded, InitializeCompare, listing, flags
  <2> QED
    BY <1>1, <2>2, <2>3 DEF ListedInv, SelectedIsListed
<1>7. ASSUME NEW r \in Refreshes, SectionBegins(r) PROVE ListedInv'
  <2>1. /\ refresh'[r].list = list
        /\ \A s \in Refreshes \ {r} : refresh'[s] = refresh[s]
    BY <1>7, RefreshType
    DEF SectionBegins, Phases, ListedInv, OfTipInv, HistoryTypeInv
  <2> QED
    BY <1>1, <1>7, <2>1
    DEF SectionBegins, listing, flags, ListedInv, SelectedIsListed
<1>8. ASSUME NEW r \in Refreshes, SectionEnds(r) PROVE ListedInv'
  <2>1. /\ firstSelected' = SelectedOrFirst(refresh[r].list)
        /\ UNCHANGED <<list, replaced, disturbed>>
        /\ refresh[r].at = "selecting"
    BY <1>8 DEF SectionEnds, flags
  <2>2. /\ refresh'[r].at # "selecting"
        /\ \A s \in Refreshes \ {r} : refresh'[s] = refresh[s]
    BY <1>8, NoPages, RefreshType
    DEF SectionEnds, Phases, ListedInv, OfTipInv
  <2>3. ~replaced /\ list # <<>> => firstSelected' \in Listed(list)
    BY <2>1, FirstIsListed DEF ListedInv, OfTipInv, HistoryTypeInv
  <2> QED
    BY <1>1, <2>1, <2>2, <2>3 DEF ListedInv, SelectedIsListed
<1>9. CASE (\E t \in Tips : HeadMoves(t)) \/ BeginNext
  BY <1>2, <1>9 DEF HeadMoves, BeginNext, listing
<1>10. CASE UserShowsHistory \/ \E b \in Branches : UserCompares(b)
  BY <1>2, <1>10 DEF UserShowsHistory, UserCompares, listing, flags
<1>11. CASE FirstFails \/ NextFails \/ \E c \in Compares : CompareFails(c)
  BY <1>2, <1>11 DEF FirstFails, NextFails, CompareFails, listing, flags
<1>12. CASE MergeEnds \/ UNCHANGED historyVars
  BY <1>2, <1>12 DEF MergeEnds, historyVars, listing, flags
<1> QED
  BY <1>3, <1>4, <1>5, <1>6, <1>7, <1>8, <1>9, <1>10, <1>11, <1>12
  DEF HistoryNext

LEMMA InitListed == HistoryInit => ListedInv
BY InitOfTip DEF HistoryInit, Idle, ListedInv, SelectedIsListed

\* What is selected is in the list, whatever pages, comparisons and refreshes
\* changed either, unless the list was put together from old parts or changed
\* while refreshHistorySection looked at it.
THEOREM SelectedListed == HistorySpec => []SelectedIsListed
<1>1. ListedInv => SelectedIsListed
  BY DEF ListedInv
<1> QED
  BY <1>1, InitListed, NextListed, PTL DEF HistorySpec

-----------------------------------------------------------------------------
\* The merge status is of the branch compared with.

MergeInv ==
  /\ HistoryTypeInv /\ MergeStatusIsOfBranch
  /\ ~hijacked /\ form \in Branches /\ merging # Null => merging = form

LEMMA CompareEndsMerge ==
  ASSUME HistoryTypeInv, NEW c \in Compares, CompareEnds(c)
  PROVE  /\ mergeStatus' \in {"loading", Null}
         /\ ~hijacked' => merging' \in {Null, form'}
BY DEF CompareEnds, MergeBegins, HistoryTypeInv, HistoryTypeOK

LEMMA NextMerge == MergeInv /\ [HistoryNext]_historyVars => MergeInv'
<1> SUFFICES ASSUME MergeInv, [HistoryNext]_historyVars PROVE MergeInv'
  OBVIOUS
<1>1. HistoryTypeInv'
  BY NextHistoryType DEF MergeInv
<1>2. "loading" \notin Branches /\ Null \notin Branches
      /\ "history" \notin Branches
  BY CommitHistoryAssumption
<1>3. CASE UNCHANGED <<form, merging, mergeStatus, hijacked>>
  BY <1>1, <1>3 DEF MergeInv, MergeStatusIsOfBranch
<1>4. CASE FirstEnds
  BY <1>1, <1>2, <1>4 DEF FirstEnds, MergeInv, MergeStatusIsOfBranch
<1>5. ASSUME NEW c \in Compares, CompareEnds(c) PROVE MergeInv'
  BY <1>1, <1>2, <1>5, CompareEndsMerge DEF MergeInv, MergeStatusIsOfBranch
<1>6. CASE MergeEnds
  BY <1>1, <1>2, <1>6
  DEF MergeEnds, listing, flags, MergeInv, MergeStatusIsOfBranch
<1>7. CASE \/ \E t \in Tips : HeadMoves(t)
           \/ \E c \in Listed(list) : UserSelects(c)
           \/ UserShowsHistory \/ \E b \in Branches : UserCompares(b)
           \/ \E r \in Refreshes :
                \/ RefreshBegins(r) \/ StatusLoaded(r) \/ SectionBegins(r)
                \/ SectionEnds(r) \/ InitializeCompare(r)
           \/ FirstFails \/ BeginNext \/ NextEnds \/ NextFails
           \/ \E c \in Compares : CompareFails(c)
           \/ UNCHANGED historyVars
  BY <1>3, <1>7 DEF HeadMoves, UserSelects, UserShowsHistory, UserCompares,
     RefreshBegins, StatusLoaded, SectionBegins, SectionEnds,
     InitializeCompare, FirstFails, BeginNext, NextEnds, NextFails,
     CompareFails, historyVars, listing, merge, flags
<1> QED
  BY <1>4, <1>5, <1>6, <1>7 DEF HistoryNext

LEMMA InitMerge == HistoryInit => MergeInv
BY InitHistoryType, NullIsNoTip
DEF HistoryInit, MergeInv, MergeStatusIsOfBranch

\* The merge status shown is of the branch compared with, for any number of
\* comparisons under way, unless one came while another's merge was computed.
THEOREM MergeStatusOfBranch == HistorySpec => []MergeStatusIsOfBranch
<1>1. MergeInv => MergeStatusIsOfBranch
  BY DEF MergeInv
<1> QED
  BY <1>1, InitMerge, NextMerge, PTL DEF HistorySpec
=============================================================================
