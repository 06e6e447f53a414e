-------------------------- MODULE ContentCheckProofs --------------------------
(* Theorems about ContentCheck, for every set of manifest files and of paths. *)
EXTENDS ContentCheck, FiniteSetTheorems, TLAPS

-----------------------------------------------------------------------------
(* What the checks report.                                                    *)

LEMMA ErrorIsError ==
    ASSUME NEW f, NEW what
    PROVE  /\ Error(f, what) # {}
           /\ \A e \in Error(f, what) : e.file = f
BY DEF Error

LEMMA DiagnosisNamesBase ==
    ASSUME NEW f PROVE DiagnoseBaseXex(f) # {}
<1> DEFINE fields == If(~f.version, Error("base", "version"))
                       \cup If(~f.media, Error("base", "media"))
                       \cup If(f.region = "locked", Error("base", "region"))
<1>1. CASE ~f.magic
  BY <1>1, ErrorIsError DEF DiagnoseBaseXex
<1>2. CASE f.magic /\ f.title = "other"
  BY <1>2, ErrorIsError DEF DiagnoseBaseXex
<1>3. CASE f.magic /\ f.title # "other"
  <2>1. DiagnoseBaseXex(f) =
          IF fields = {} THEN Error("base", "modified") ELSE fields
    BY <1>3, Zenon DEF DiagnoseBaseXex
  <2> QED
    BY <2>1, ErrorIsError
<1> QED
  BY <1>1, <1>2, <1>3

LEMMA DiagnosisNamesUpdate ==
    ASSUME NEW f PROVE DiagnoseUpdateXexp(f) # {}
BY ErrorIsError DEF DiagnoseUpdateXexp

\* The quick check passes exactly on files of the right size.
LEMMA QuickExecutable ==
    ASSUME NEW name, NEW f, NEW diagnosis
    PROVE  CheckExecutable(name, f, "quick", diagnosis) = {} <=> RightSize(f)
BY ErrorIsError DEF CheckExecutable, RightSize, If

LEMMA RequiredFile ==
    ASSUME NEW name, NEW f
    PROVE  CheckRequiredFile(name, f) = {} <=> RightSize(f)
BY ErrorIsError DEF CheckRequiredFile, RightSize, If

LEMMA FullExecutable ==
    ASSUME NEW name, NEW f, NEW diagnosis, diagnosis # {} \/ ~f.present
    PROVE  CheckExecutable(name, f, "full", diagnosis) = {}
             <=> f.present /\ f.size /\ f.hash
BY ErrorIsError DEF CheckExecutable, If

\* The folder is accepted when each of its checks is.
LEMMA VerifyParts ==
    ASSUME NEW path, NEW depth
    PROVE  VerifyContentRoot(path, depth) = {} <=>
             /\ Exists(path)
             /\ CheckExecutable("base", base, depth,
                    IF base.present THEN DiagnoseBaseXex(base) ELSE {}) = {}
             /\ CheckExecutable("update", update, depth,
                    IF update.present THEN DiagnoseUpdateXexp(update) ELSE {}) = {}
             /\ \A r \in Resources : CheckRequiredFile(r, resource[r]) = {}
BY ErrorIsError DEF VerifyContentRoot

Complete ==
    /\ RightSize(base) /\ RightSize(update)
    /\ \A r \in Resources : RightSize(resource[r])

LEMMA QuickIsComplete ==
    ASSUME NEW path
    PROVE  VerifyContentRoot(path, "quick") = {} <=> Exists(path) /\ Complete
BY VerifyParts, QuickExecutable, RequiredFile DEF Complete

-----------------------------------------------------------------------------
(* The inductive invariant.                                                   *)

\* Once the selector is past, there is a root, and the captured paths hold it or none.
Selected ==
    /\ phase = "environment" => root = defaultRoot
    /\ phase \in {"finalize", "running", "rejected"} =>
         root # NoPath /\ FinalRoot = root

\* What was found when the paths were finalized still describes the folder.
Checked ==
    phase \in {"running", "rejected"} =>
        /\ errors = VerifyContentRoot(root, "quick")
        /\ phase = "running" <=> errors = {}

IInv == TypeOK /\ Selected /\ Checked

LEMMA InitIInv == Init => IInv
<1> SUFFICES ASSUME Init PROVE IInv
  OBVIOUS
<1>1. TypeOK
  BY DEF Init, TypeOK, Phases
<1> QED
  BY <1>1 DEF Init, IInv, Selected, Checked

LEMMA NextIInv == IInv /\ [Next]_vars => IInv'
<1> SUFFICES ASSUME IInv, [Next]_vars PROVE IInv'
  OBVIOUS
<1> USE DEF IInv
<1>1. CASE UNCHANGED vars
  BY <1>1 DEF vars, diskVars, launchVars, TypeOK, Selected, Checked,
     VerifyContentRoot, Exists, FinalRoot
<1>2. CASE EditFolder
  <2>1. phase \in {"off", "environment", "finalize"}
        /\ UNCHANGED <<configured, root, defaultRoot, phase, errors>>
    BY <1>2 DEF EditFolder, launchVars
  <2>2. /\ base' \in BaseFiles \cup {Absent}
        /\ update' \in UpdateFiles \cup {Absent}
        /\ resource' \in [Resources -> ResourceFiles \cup {Absent}]
        /\ folder' \in Paths \cup {NoPath}
    BY <1>2 DEF EditFolder, TypeOK
  <2>3. TypeOK'
    BY <2>1, <2>2 DEF TypeOK
  <2> QED
    BY <2>1, <2>3 DEF Selected, Checked, FinalRoot
<1>3. CASE ForgetRoot \/ (\E explicit \in Paths \cup {NoPath} : Launch(explicit))
           \/ CancelSelector \/ Quit
  <2>1. UNCHANGED <<base, update, resource, folder>>
    BY <1>3 DEF ForgetRoot, Launch, CancelSelector, Quit, diskVars
  <2>2. /\ phase' \in {"off", "environment"}
        /\ phase' = "environment" => root' = defaultRoot'
    BY <1>3 DEF ForgetRoot, Launch, CancelSelector, Quit
  <2>3. {configured', root', defaultRoot'} \subseteq Paths \cup {NoPath}
    BY <1>3 DEF TypeOK, ForgetRoot, Launch, CancelSelector, Quit
  <2>4. TypeOK'
    BY <2>1, <2>2, <2>3 DEF TypeOK, Phases
  <2> QED
    BY <2>2, <2>4 DEF Selected, Checked
<1>4. CASE BypassSelector \/ EnsureGameData
  <2>1. /\ UNCHANGED <<base, update, resource, folder, defaultRoot>>
        /\ phase = "environment" /\ phase' = "finalize"
        /\ {configured', root'} \subseteq Paths \cup {NoPath}
    BY <1>4 DEF BypassSelector, EnsureGameData, diskVars, TypeOK
  <2>2. TypeOK'
    BY <2>1 DEF TypeOK, Phases
  <2>3. Selected'
    BY <1>4, <2>1 DEF Selected, FinalRoot, BypassSelector, EnsureGameData
  <2> QED
    BY <2>1, <2>2, <2>3 DEF Checked
<1>5. CASE FinalizePaths
  <2>1. /\ UNCHANGED <<base, update, resource, folder, configured, root,
                       defaultRoot>>
        /\ phase = "finalize"
        /\ errors' = VerifyContentRoot(root, "quick")
        /\ phase' = IF errors' = {} THEN "running" ELSE "rejected"
    BY <1>5 DEF FinalizePaths, diskVars, Selected
  <2>2. TypeOK'
    BY <2>1 DEF TypeOK, Phases
  <2>3. Selected'
    BY <2>1 DEF Selected, FinalRoot
  <2>4. Checked'
    BY <2>1 DEF Checked, VerifyContentRoot, Exists
  <2> QED
    BY <2>2, <2>3, <2>4
<1> QED
  BY <1>1, <1>2, <1>3, <1>4, <1>5 DEF Next

THEOREM Inductive == Spec => []IInv
BY InitIInv, NextIInv, PTL DEF Spec

-----------------------------------------------------------------------------
(* The properties.                                                            *)

\* The launch keeps its types, and a running title has no error.
THEOREM TypeCorrect == Spec => []TypeOK
<1>1. IInv => TypeOK
  BY DEF IInv
<1> QED
  BY <1>1, Inductive, PTL

\* The title only ever runs from a complete folder, whatever was edited or moved until
\* the check.
THEOREM CompleteRuns == Spec => []RunsComplete
<1>1. IInv => RunsComplete
  <2> SUFFICES ASSUME IInv, phase = "running" PROVE RunsComplete
    BY DEF RunsComplete
  <2>1. Exists(root) /\ Complete
    BY QuickIsComplete DEF IInv, Checked
  <2> QED
    BY <2>1 DEF Complete, RunsComplete
<1> QED
  BY <1>1, Inductive, PTL

\* A supported executable has the supported size.
LEMMA HashImpliesSize ==
    ASSUME TypeOK
    PROVE  /\ base.present /\ base.hash => RightSize(base)
           /\ update.present /\ update.hash => RightSize(update)
<1>1. \A f \in BaseFiles : f.present /\ (f.hash => f.size)
  BY DEF BaseFiles
<1>2. \A f \in UpdateFiles : f.present /\ (f.hash => f.size)
  BY DEF UpdateFiles
<1>3. ~Absent.present
  BY DEF Absent
<1> QED
  BY <1>1, <1>2, <1>3 DEF TypeOK, RightSize

\* Every error of a check is about the file it was given.
LEMMA ErrorsNameFile ==
    ASSUME NEW name, NEW f, NEW diagnosis
    PROVE  /\ \A e \in CheckExecutable(name, f, "quick", diagnosis) : e.file = name
           /\ \A e \in CheckRequiredFile(name, f) : e.file = name
BY ErrorIsError DEF CheckExecutable, CheckRequiredFile, If

\* ... and there is at most one.
LEMMA FewErrors ==
    ASSUME NEW name, NEW f, NEW diagnosis
    PROVE  /\ IsFiniteSet(CheckExecutable(name, f, "quick", diagnosis))
           /\ IsFiniteSet(CheckRequiredFile(name, f))
<1>1. IsFiniteSet({}) /\ \A what : IsFiniteSet(Error(name, what))
  BY FS_EmptySet, FS_Singleton DEF Error
<1> QED
  BY <1>1 DEF CheckExecutable, CheckRequiredFile, If

LEMMA FiniteErrors ==
    ASSUME NEW path
    PROVE  IsFiniteSet(VerifyContentRoot(path, "quick"))
<1> DEFINE ofResources == {CheckRequiredFile(r, resource[r]) : r \in Resources}
           ofBase == CheckExecutable("base", base, "quick",
                         IF base.present THEN DiagnoseBaseXex(base) ELSE {})
           ofUpdate == CheckExecutable("update", update, "quick",
                           IF update.present THEN DiagnoseUpdateXexp(update) ELSE {})
<1>1. IsFiniteSet(Error("root", path))
  BY FS_Singleton DEF Error
<1>2. IsFiniteSet(ofResources)
  <2> DEFINE errorsOf == [r \in Resources |-> CheckRequiredFile(r, resource[r])]
  <2>1. errorsOf \in Surjection(Resources, ofResources)
    BY DEF Surjection
  <2> QED
    BY <2>1, FS_Surjection, ContentAssumption
<1>3. IsFiniteSet(UNION ofResources)
  BY <1>2, FewErrors, FS_UNION
<1>4. IsFiniteSet(ofBase) /\ IsFiniteSet(ofUpdate)
  BY FewErrors
<1>5. IsFiniteSet(ofBase \cup ofUpdate)
  BY <1>4, FS_Union
<1>6. IsFiniteSet((ofBase \cup ofUpdate) \cup UNION ofResources)
  BY <1>3, <1>5, FS_Union
<1> QED
  BY <1>1, <1>6 DEF VerifyContentRoot

LEMMA ErrorsNameDeficient ==
    ASSUME NEW path, Exists(path)
    PROVE  {e.file : e \in VerifyContentRoot(path, "quick")} = Deficient
<1> DEFINE ofBase == CheckExecutable("base", base, "quick",
                         IF base.present THEN DiagnoseBaseXex(base) ELSE {})
           ofUpdate == CheckExecutable("update", update, "quick",
                           IF update.present THEN DiagnoseUpdateXexp(update) ELSE {})
           ofFile(r) == CheckRequiredFile(r, resource[r])
           found == VerifyContentRoot(path, "quick")
<1>1. found = ofBase \cup ofUpdate \cup UNION {ofFile(r) : r \in Resources}
  BY DEF VerifyContentRoot
<1>2. /\ \A e \in ofBase : e.file = "base"
      /\ ofBase = {} <=> RightSize(base)
  BY ErrorsNameFile, QuickExecutable
<1>3. /\ \A e \in ofUpdate : e.file = "update"
      /\ ofUpdate = {} <=> RightSize(update)
  BY ErrorsNameFile, QuickExecutable
<1>4. \A r \in Resources :
          /\ \A e \in ofFile(r) : e.file = r
          /\ ofFile(r) = {} <=> RightSize(resource[r])
  BY ErrorsNameFile, RequiredFile
<1> HIDE DEF ofBase, ofUpdate, ofFile, found
<1>5. ASSUME NEW e \in found PROVE e.file \in Deficient
  BY <1>1, <1>2, <1>3, <1>4 DEF Deficient, If
<1>6. ASSUME NEW file \in Deficient PROVE \E e \in found : e.file = file
  <2>1. CASE file = "base" /\ ~RightSize(base)
    BY <2>1, <1>1, <1>2
  <2>2. CASE file = "update" /\ ~RightSize(update)
    BY <2>2, <1>1, <1>3
  <2>3. CASE file \in Resources /\ ~RightSize(resource[file])
    BY <2>3, <1>1, <1>4
  <2> QED
    BY <2>1, <2>2, <2>3 DEF Deficient, If
<1> QED
  BY <1>5, <1>6 DEF found

\* The root that is checked is the one the launch was given, remembers or selected, and
\* it is only called missing when it has gone.
THEOREM SelectionIsChecked == Spec => []SelectedRootIsChecked
<1>1. IInv => SelectedRootIsChecked
  <2> SUFFICES ASSUME IInv, phase = "rejected" PROVE SelectedRootIsChecked
    BY DEF SelectedRootIsChecked
  <2>1. root # NoPath /\ errors = VerifyContentRoot(root, "quick")
    BY DEF IInv, Selected, Checked
  <2>2. CASE Exists(root)
    <3>1. \A e \in errors : e.file # "root"
      BY <2>1, <2>2, ErrorsNameDeficient, ContentAssumption DEF Deficient, If
    <3> QED
      BY <2>1, <3>1 DEF SelectedRootIsChecked
  <2>3. CASE ~Exists(root)
    <3>1. errors = Error("root", root)
      BY <2>1, <2>3 DEF VerifyContentRoot
    <3> QED
      BY <2>1, <2>3, <3>1 DEF SelectedRootIsChecked, Error
  <2> QED
    BY <2>2, <2>3
<1> QED
  BY <1>1, Inductive, PTL

LEMMA FullFromIInv == IInv => FullCheckIsExact
<1> SUFFICES ASSUME IInv PROVE FullCheckIsExact
  OBVIOUS
<1>1. CheckExecutable("base", base, "full",
          IF base.present THEN DiagnoseBaseXex(base) ELSE {}) = {}
        <=> base.present /\ base.size /\ base.hash
  BY FullExecutable, DiagnosisNamesBase
<1>2. CheckExecutable("update", update, "full",
          IF update.present THEN DiagnoseUpdateXexp(update) ELSE {}) = {}
        <=> update.present /\ update.size /\ update.hash
  BY FullExecutable, DiagnosisNamesUpdate
<1>3. /\ base.present /\ base.hash => base.size
      /\ update.present /\ update.hash => update.size
  BY HashImpliesSize DEF IInv, RightSize
<1> QED
  BY <1>1, <1>2, <1>3, VerifyParts, RequiredFile DEF FullCheckIsExact

\* No mismatch passes the full check for want of a diagnosis.
THEOREM FullExact == Spec => []FullCheckIsExact
BY Inductive, FullFromIInv, PTL

\* A rejected launch names exactly the deficient files and accounts for every error.
THEOREM RejectionTells == Spec => []RejectionTellsAll
<1>1. IInv => RejectionTellsAll
  <2> SUFFICES ASSUME IInv, phase = "rejected" PROVE RejectionTellsAll
    BY DEF RejectionTellsAll
  <2>1. root # NoPath /\ errors = VerifyContentRoot(root, "quick") /\ errors # {}
    BY DEF IInv, Selected, Checked
  <2>2. IsFiniteSet(errors)
    BY <2>1, FiniteErrors
  <2>3. {e.file : e \in errors} = IF Exists(root) THEN Deficient ELSE {"root"}
    <3>1. CASE Exists(root)
      BY <3>1, <2>1, ErrorsNameDeficient
    <3>2. CASE ~Exists(root)
      BY <3>2, <2>1, ErrorIsError DEF VerifyContentRoot
    <3> QED
      BY <3>1, <3>2
  <2>4. (\E e \in errors : MentionsGfx(e))
          <=> IF Exists(root) THEN Deficient \cap GfxFiles # {}
                              ELSE root \in GfxPaths
    <3>1. "root" \notin Deficient /\ "root" \notin GfxFiles
      BY ContentAssumption DEF Deficient, If
    <3>2. CASE Exists(root)
      <4>1. (\E e \in errors : MentionsGfx(e))
              <=> \E file \in {e.file : e \in errors} : file \in GfxFiles
        BY <2>3, <3>1, <3>2 DEF MentionsGfx
      <4> QED
        BY <2>3, <3>2, <4>1
    <3>3. CASE ~Exists(root)
      <4>1. errors = {[file |-> "root", what |-> root]}
        BY <2>1, <3>3 DEF VerifyContentRoot, Error
      <4> QED
        BY <3>1, <3>3, <4>1 DEF MentionsGfx
    <3> QED
      BY <3>2, <3>3
  <2>5. ASSUME NEW message \in Messages(errors)
        PROVE  /\ message.listed # {} /\ message.listed \subseteq errors
               /\ Cardinality(message.listed) <= MaxReported
               /\ Cardinality(message.listed) + message.more = Cardinality(errors)
               /\ message.hint <=> IF Exists(root) THEN Deficient \cap GfxFiles # {}
                                                    ELSE root \in GfxPaths
    <3>1. PICK listed \in Listed(errors) :
            /\ message.listed = listed
            /\ message.more = More(errors)
            /\ message.hint <=> \E e \in errors : MentionsGfx(e)
      BY <2>5 DEF Messages
    <3>2. /\ listed \subseteq errors
          /\ IF Cardinality(errors) > MaxReported
               THEN Cardinality(listed) = MaxReported ELSE listed = errors
      BY DEF Listed
    <3>3. Cardinality(errors) \in Nat /\ Cardinality(listed) \in Nat
      BY <2>2, <3>2, FS_CardinalityType, FS_Subset
    <3>4. listed # {}
      BY <2>1, <3>2, FS_EmptySet, ContentAssumption
    <3> QED
      BY <2>4, <3>1, <3>2, <3>3, <3>4, ContentAssumption DEF More
  <2> QED
    BY <2>3, <2>5 DEF RejectionTellsAll
<1> QED
  BY <1>1, Inductive, PTL
-----------------------------------------------------------------------------
(* The two depths agree on a good folder.                                     *)

\* OnFinalizePaths never turns away what the deep check would accept: a launch whose
\* folder has the supported executables and a complete manifest runs, however the
\* root was selected, remembered or given.
SupportedRuns ==
    [][phase = "finalize" /\ phase' # "finalize" /\ VerifyContentRoot(root, "full") = {}
           => phase' = "running"]_vars

\* The quick check of OnFinalizePaths accepts every folder the deep check accepts, and
\* is never asked about an empty root.
THEOREM SupportedFolderRuns == Spec => SupportedRuns
<1>1. ASSUME IInv, [Next]_vars, phase = "finalize", phase' # "finalize",
             VerifyContentRoot(root, "full") = {}
      PROVE  phase' = "running"
  <2>1. FinalizePaths
    BY <1>1 DEF Next, EditFolder, ForgetRoot, Launch, BypassSelector, EnsureGameData,
                CancelSelector, Quit, vars, launchVars
  <2>2. FinalRoot = root
    BY <1>1 DEF IInv, Selected
  <2>3. Exists(root) /\ Complete
    <3>1. FullCheckIsExact /\ root \in Paths \cup {NoPath}
      BY <1>1, FullFromIInv DEF IInv, TypeOK
    <3>2. /\ Exists(root)
          /\ base.present /\ base.hash /\ update.present /\ update.hash
          /\ \A r \in Resources : RightSize(resource[r])
      BY <1>1, <3>1 DEF FullCheckIsExact
    <3> QED
      BY <1>1, <3>2, HashImpliesSize DEF Complete, IInv
  <2>4. VerifyContentRoot(FinalRoot, "quick") = {}
    BY <2>2, <2>3, QuickIsComplete
  <2> QED
    BY <2>1, <2>4 DEF FinalizePaths
<1> QED
  BY <1>1, Inductive, PTL DEF Spec, SupportedRuns
=============================================================================
