---------------------------- MODULE ContentCheck ----------------------------
(* Validation of the game content folder (src/game_content.cpp) and the       *)
(* launch that depends on it (src/app.cpp).  A file is what the checks can    *)
(* tell of it.  There is one content folder; until the check reads it the     *)
(* user may change any file of it and move it, so that a folder that was      *)
(* selected once may be another one later, or elsewhere.  The selector and    *)
(* the base class of the application belong to the SDK and are external.      *)
EXTENDS Integers, FiniteSets

CONSTANTS
    Resources,    \* the files of kResourceManifest
    GfxFiles,     \* those of them named GFX_*
    Paths,        \* where the folder may be
    GfxPaths,     \* those of the paths whose text contains GFX_
    NoPath,       \* the empty path
    MaxReported   \* kMaxReportedErrors

ASSUME ContentAssumption ==
    /\ IsFiniteSet(Resources)
    /\ GfxFiles \subseteq Resources
    /\ {"root", "base", "update"} \cap Resources = {}
    /\ GfxPaths \subseteq Paths
    /\ NoPath \notin Paths
    /\ MaxReported \in Nat \ {0}

VARIABLES
    base,         \* default.xex
    update,       \* default.xexp
    resource,     \* the manifest files
    folder,       \* the path of the content folder, if there is one
    configured,   \* game_data_root of rerevved.toml
    root,         \* game_data_root of this launch
    defaultRoot,  \* game_data_root when the default paths were captured
    phase,        \* where the launch is
    errors        \* ContentCheckResult::errors of this launch

diskVars == <<base, update, resource, folder>>
launchVars == <<configured, root, defaultRoot, phase, errors>>
vars == <<diskVars, launchVars>>

-----------------------------------------------------------------------------
(* Files.                                                                     *)

Absent == [present |-> FALSE]

\* A base executable: its size and hash, the XEX2 magic, the execution info and
\* the region word, each readable or not ("none") and as expected or not.
BaseFiles ==
    {f \in [present : {TRUE}, size : BOOLEAN, hash : BOOLEAN, magic : BOOLEAN,
            title : {"none", "ours", "other"}, version : BOOLEAN,
            media : BOOLEAN, region : {"none", "free", "locked"}] :
        /\ f.hash => /\ f.size /\ f.magic /\ f.title = "ours" /\ f.version
                     /\ f.media /\ f.region = "free"
        /\ ~f.magic => f.title = "none" /\ f.region = "none"
        /\ f.title # "ours" => f.version /\ f.media}

\* A title update: target is the version word of its delta descriptor.
UpdateFiles ==
    {f \in [present : {TRUE}, size : BOOLEAN, hash : BOOLEAN, magic : BOOLEAN,
            target : {"none", "1.3", "other"}] :
        /\ f.hash => f.size /\ f.magic /\ f.target = "1.3"
        /\ ~f.magic => f.target = "none"}

\* CheckRequiredFile looks at existence and size alone.
ResourceFiles == [present : {TRUE}, size : BOOLEAN]

-----------------------------------------------------------------------------
(* game_content.cpp.  An error is the pair of a file and what is said of it.  *)

Error(f, what) == {[file |-> f, what |-> what]}
If(condition, set) == IF condition THEN set ELSE {}

\* Faulty: a copy without a recognisable difference yields no error.
DiagnoseBaseXexSilent(f) ==
    IF ~f.magic THEN Error("base", "not an executable")
    ELSE IF f.title = "other" THEN Error("base", "title")
    ELSE If(~f.version, Error("base", "version"))
            \cup If(~f.media, Error("base", "media"))
            \cup If(f.region = "locked", Error("base", "region"))

\* The title ID decides first; then every differing header field is reported, and
\* a copy that differs in none is a modified one.
DiagnoseBaseXex(f) ==
    LET fields == If(~f.version, Error("base", "version"))
                    \cup If(~f.media, Error("base", "media"))
                    \cup If(f.region = "locked", Error("base", "region"))
    IN  CASE ~f.magic -> Error("base", "not an executable")
          [] f.magic /\ f.title = "other" -> Error("base", "title")
          [] OTHER -> IF fields = {} THEN Error("base", "modified") ELSE fields

DiagnoseUpdateXexp(f) ==
    CASE ~f.magic -> Error("update", "not a title update")
      [] f.magic /\ f.target = "other" -> Error("update", "version")
      [] OTHER -> Error("update", "modified")

\* Quick looks at the size; full at size and hash, and diagnoses a mismatch.
CheckExecutable(name, f, depth, diagnosis) ==
    CASE ~f.present -> Error(name, "missing")
      [] f.present /\ depth = "quick" -> If(~f.size, Error(name, "size"))
      [] OTHER -> If(~(f.size /\ f.hash), diagnosis)

\* Faulty: the size of a file that exists is not compared.
CheckPresenceOnly(name, f) == If(~f.present, Error(name, "missing"))

CheckRequiredFile(name, f) ==
    IF ~f.present THEN Error(name, "missing") ELSE If(~f.size, Error(name, "size"))

Exists(path) == path # NoPath /\ path = folder

\* Every file is checked, whatever the files before it had. The error about the
\* folder quotes its path; the others name the file by its place in the folder.
VerifyContentRoot(path, depth) ==
    IF ~Exists(path) THEN Error("root", path)
    ELSE CheckExecutable("base", base, depth,
                         IF base.present THEN DiagnoseBaseXex(base) ELSE {})
           \cup CheckExecutable("update", update, depth,
                         IF update.present THEN DiagnoseUpdateXexp(update) ELSE {})
           \cup UNION {CheckRequiredFile(r, resource[r]) : r \in Resources}

-----------------------------------------------------------------------------
(* app.cpp                                                                    *)

Phases == {"off", "environment", "finalize", "running", "rejected"}

TypeOK ==
    /\ base \in BaseFiles \cup {Absent}
    /\ update \in UpdateFiles \cup {Absent}
    /\ resource \in [Resources -> ResourceFiles \cup {Absent}]
    /\ {folder, configured, root, defaultRoot} \subseteq Paths \cup {NoPath}
    /\ phase \in Phases
    /\ phase = "running" => errors = {}

Init ==
    /\ base = Absent
    /\ update = Absent
    /\ resource = [r \in Resources |-> Absent]
    /\ folder \in Paths
    /\ configured = NoPath
    /\ root = NoPath
    /\ defaultRoot = NoPath
    /\ phase = "off"
    /\ errors = {}

\* Between launches, while the selector is open or between its answer and the check,
\* the user copies, replaces or removes a file, or moves or removes the folder.
EditFolder ==
    /\ phase \in {"off", "environment", "finalize"}
    /\ \/ base' \in BaseFiles \cup {Absent} /\ UNCHANGED <<update, resource, folder>>
       \/ update' \in UpdateFiles \cup {Absent} /\ UNCHANGED <<base, resource, folder>>
       \/ \E r \in Resources, f \in ResourceFiles \cup {Absent} :
             /\ resource' = [resource EXCEPT ![r] = f]
             /\ UNCHANGED <<base, update, folder>>
       \/ folder' \in Paths \cup {NoPath} /\ UNCHANGED <<base, update, resource>>
    /\ UNCHANGED launchVars

\* ... or removes game_data_root from rerevved.toml, as the error message says.
ForgetRoot ==
    /\ phase = "off"
    /\ configured' = NoPath
    /\ UNCHANGED <<diskVars, root, defaultRoot, phase, errors>>

\* The base set-up reads rerevved.toml and the command line.
Launch(explicit) ==
    /\ phase = "off"
    /\ phase' = "environment"
    /\ root' = IF explicit # NoPath THEN explicit ELSE configured
    /\ defaultRoot' = root'
    /\ UNCHANGED <<diskVars, configured, errors>>

\* SetupEnvironment: an explicit or remembered root bypasses the selector.
BypassSelector ==
    /\ phase = "environment"
    /\ root # NoPath
    /\ phase' = "finalize"
    /\ UNCHANGED <<diskVars, configured, root, defaultRoot, errors>>

\* EnsureGameData (external) accepts a folder whose executables have the hashes it
\* was given, and stores it; the paths captured before do not see it.
EnsureGameData ==
    /\ phase = "environment"
    /\ root = NoPath
    /\ folder # NoPath /\ base.present /\ update.present
    /\ base.hash /\ update.hash
    /\ root' = folder
    /\ configured' = folder
    /\ phase' = "finalize"
    /\ UNCHANGED <<diskVars, defaultRoot, errors>>

CancelSelector ==
    /\ phase = "environment"
    /\ root = NoPath
    /\ phase' = "off"
    /\ UNCHANGED <<diskVars, configured, root, defaultRoot, errors>>

\* Faulty: the root the selector stored is not read again.
FinalRootCaptured == defaultRoot

\* An empty captured root is read again from game_data_root.
FinalRoot == IF defaultRoot = NoPath THEN root ELSE defaultRoot

\* Faulty: the errors are reported and the launch goes on.
FinalizePathsUnchecked ==
    /\ phase = "finalize"
    /\ errors' = VerifyContentRoot(FinalRoot, "quick")
    /\ phase' = "running"
    /\ UNCHANGED <<diskVars, configured, root, defaultRoot>>

\* OnFinalizePaths: the quick check decides.
FinalizePaths ==
    /\ phase = "finalize"
    /\ errors' = VerifyContentRoot(FinalRoot, "quick")
    /\ phase' = IF errors' = {} THEN "running" ELSE "rejected"
    /\ UNCHANGED <<diskVars, configured, root, defaultRoot>>

\* The error's text contains GFX_.
MentionsGfx(e) == e.file \in GfxFiles \/ (e.file = "root" /\ e.what \in GfxPaths)

\* The errors of which the message box has room: which come first is left open.
Listed(found) ==
    {l \in SUBSET found :
        IF Cardinality(found) > MaxReported THEN Cardinality(l) = MaxReported
        ELSE l = found}

More(found) ==
    IF Cardinality(found) > MaxReported THEN Cardinality(found) - MaxReported ELSE 0

\* Faulty: the hint is looked for among the listed errors.
MessagesListedHint(found) ==
    {[listed |-> listed, more |-> More(found),
      hint |-> \E e \in listed : MentionsGfx(e)] : listed \in Listed(found)}

\* The message box of a rejected launch: the errors it lists, the number of those it
\* leaves to the log, and whether it says where the GFX_ files come from.
Messages(found) ==
    {[listed |-> listed, more |-> More(found),
      hint |-> \E e \in found : MentionsGfx(e)] : listed \in Listed(found)}

Quit ==
    /\ phase \in {"running", "rejected"}
    /\ phase' = "off"
    /\ root' = NoPath
    /\ defaultRoot' = NoPath
    /\ errors' = {}
    /\ UNCHANGED <<diskVars, configured>>

Next ==
    \/ EditFolder \/ ForgetRoot
    \/ \E explicit \in Paths \cup {NoPath} : Launch(explicit)
    \/ BypassSelector \/ EnsureGameData \/ CancelSelector
    \/ FinalizePaths \/ Quit

Spec == Init /\ [][Next]_vars

-----------------------------------------------------------------------------
(* Properties.                                                                *)

RightSize(f) == f.present /\ f.size

\* Whatever the history of selections, moves and edits, those between the selector's
\* answer and the check included, the title only starts from game_data_root with every
\* required file in it of its exact size.
RunsComplete ==
    phase = "running" =>
        /\ Exists(root)
        /\ \A f \in {base, update} \cup {resource[r] : r \in Resources} : RightSize(f)

\* The paths are captured before the selector answers, and still a folder is only
\* refused as missing when it is the given, remembered or selected one that has gone.
SelectedRootIsChecked ==
    phase = "rejected" =>
        /\ root # NoPath
        /\ \A e \in errors : e.file = "root" => e.what = root /\ ~Exists(root)

Deficient ==
    If(~RightSize(base), {"base"}) \cup If(~RightSize(update), {"update"})
    \cup {r \in Resources : ~RightSize(resource[r])}

\* One rejected launch tells the user all there is to fix: the errors name exactly
\* the deficient files, or the folder if it is missing; the message lists or counts
\* each of them and says where GFX_ files come from exactly when one is deficient, even
\* if it is only counted. (A missing folder gets that hint too if its path has GFX_.)
RejectionTellsAll ==
    phase = "rejected" =>
        /\ {e.file : e \in errors} = IF Exists(root) THEN Deficient ELSE {"root"}
        /\ \A message \in Messages(errors) :
              /\ message.listed # {} /\ message.listed \subseteq errors
              /\ Cardinality(message.listed) <= MaxReported
              /\ Cardinality(message.listed) + message.more = Cardinality(errors)
              /\ message.hint <=> IF Exists(root) THEN Deficient \cap GfxFiles # {}
                                                   ELSE root \in GfxPaths

\* The full check, which game_content.h offers and the application never asks for,
\* passes exactly on the supported executables: no mismatch is left undiagnosed, which
\* would turn an empty error list into an accepted folder.
FullCheckIsExact ==
    \A path \in Paths \cup {NoPath} :
        VerifyContentRoot(path, "full") = {} <=>
            /\ Exists(path)
            /\ base.present /\ update.present
            /\ base.present => base.hash
            /\ update.present => update.hash
            /\ \A r \in Resources : RightSize(resource[r])

\* "ReRevved validates required files before launch and reports incomplete,
\* modified, wrong-version, or wrong-region content": a running title has the
\* supported executables.
DeepValidated == phase = "running" => base.hash /\ update.hash
=============================================================================
