------------------------- MODULE CoreManager_proofs -------------------------
(***************************************************************************)
(* Proofs about CoreManager, for any pids, number of attempts, crashes and *)
(* damages: only what was verified is executed, no step of a repair makes  *)
(* the installation worse, and leftovers of dead operations do no harm.    *)
(***************************************************************************)
EXTENDS CoreManager, TLAPS

CheckPcs == {"license", "size and hash", "version"}
Pcs == {"idle", "directories", "sweep", "mkdir", "download", "archive", "extract",
        "rename LICENSE", "rename sing-box", "drop archive", "drop staging"} \cup CheckPcs
Trees == [Files -> Content]

\* Every variable holds what the operations can make of it.
TypeOK ==
    /\ pc \in Pcs /\ (pc # "idle" => pid \in Pids)
    /\ site \in {"old", "staged", "new"} /\ attempt \in Nat
    /\ installed \in Trees /\ unsynced \subseteq Files
    /\ archive \in [Pids -> Content]
    /\ staging \in [Pids -> Trees \cup {NoDir}]
    /\ orphan \in [Pids -> {"none", "curl", "tar"}]
    /\ fault \in BOOLEAN /\ touched \in BOOLEAN /\ shadow \in BOOLEAN /\ swept \in BOOLEAN
    /\ crashes \in Nat /\ damage \in Nat

Good(tree) == \A f \in Files : tree[f] = "good"
Clear(q)   == archive[q] = "none" /\ staging[q] = NoDir

\* Before the operation removes anything, and behind the creation of its directory.
Before == pc \in {"directories", "sweep"} \/ (pc \in CheckPcs /\ site = "old")
Past   == \/ pc \in {"download", "archive", "extract", "rename LICENSE", "rename sing-box",
                     "drop archive", "drop staging"}
          \/ (pc \in CheckPcs /\ site # "old")

\* What the checks have seen of the installation is so unless somebody else changes it.
InstalledInv ==
    ~touched =>
      /\ site # "staged" /\ pc = "size and hash" => installed["LICENSE"] = "good"
      /\ site # "staged" /\ pc = "version" => Good(installed)
      /\ site = "new" /\ pc \in CheckPcs => Good(installed)
      /\ pc = "rename sing-box" => installed["LICENSE"] = "good"
      /\ answer \in {"installed", "repaired"} => Good(installed)
      /\ ran \subseteq {"good"}

\* What they have seen of the unpacked files is so, whoever is about.
StagedInv ==
    /\ site = "staged" /\ pc \in {"version", "license"} => staging[pid]["sing-box"] = "good"
    /\ pc = "rename LICENSE" => Good(staging[pid])
    /\ pc = "rename sing-box" => staging[pid]["sing-box"] = "good"

\* The directory of an operation is its own: mkdir refuses one that an orphan tar has kept.
OrphanInv ==
    /\ \A q \in Pids : orphan[q] = "tar" => staging[q] # NoDir
    /\ Past => staging[pid] # NoDir /\ orphan[pid] # "tar"

\* An operation that began without orphans meets none, and finds or leaves nothing but its
\* own files, which are as in the manifest.
QuietInv ==
    /\ Before => ~swept
    /\ ~shadow =>
         /\ pc # "idle" \/ answer # "none" => \A q \in Pids : orphan[q] = "none"
         /\ pc # "idle" /\ swept => \A q \in Pids : q # pid => Clear(q)
         /\ pc = "mkdir" => Clear(pid)
         /\ pc = "extract" => archive[pid] = "good"
         /\ pc \in CheckPcs /\ site = "staged" => Good(staging[pid])
         /\ pc = "drop staging" => archive[pid] = "none"
         /\ pc = "idle" /\ answer # "none" /\ swept => \A q \in Pids : Clear(q)

\* A failure has a reason.
ReasonInv == answer = "failed" => fault \/ touched \/ shadow

CoreInv == TypeOK /\ InstalledInv /\ StagedInv /\ OrphanInv /\ QuietInv /\ ReasonInv

-----------------------------------------------------------------------------
(* Lemmas about the directories and the exits *)

\* What no step of an operation does to the installation.
Kept == \A f \in Files : installed[f] = "good" /\ installed'[f] # "good"
                            => damage' > damage \/ crashes' > crashes

\* A directory with files is not a missing one.
LEMMA TreeIsDir == \A t \in Trees : t # NoDir
<1>1. \A t \in Trees : t["LICENSE"] \in {"none", "good", "bad"} BY DEF Trees, Files, Content
<1>2. NoDir["LICENSE"] = "no directory" BY DEF NoDir, Files
<1> QED BY <1>1, <1>2

\* A change of the operation's own directory touches no other.
LEMMA StagingSet ==
    ASSUME TypeOK, pc # "idle", NEW t \in Trees \cup {NoDir}, staging' = [staging EXCEPT ![pid] = t]
    PROVE  /\ staging' \in [Pids -> Trees \cup {NoDir}]
           /\ staging'[pid] = t
           /\ \A q \in Pids : q # pid => staging'[q] = staging[q]
BY DEF TypeOK

\* So does one of its archive.
LEMMA ArchiveSet ==
    ASSUME TypeOK, pc # "idle", NEW c \in Content, archive' = [archive EXCEPT ![pid] = c]
    PROVE  /\ archive' \in [Pids -> Content]
           /\ archive'[pid] = c
           /\ \A q \in Pids : q # pid => archive'[q] = archive[q]
BY DEF TypeOK

\* Behind mkdir the operation has a directory.
LEMMA OwnTree ==
    ASSUME TypeOK, OrphanInv, Past
    PROVE  pc # "idle" /\ pid \in Pids /\ staging[pid] \in Trees
BY DEF TypeOK, OrphanInv, Past, CheckPcs

\* An exit by way of the destructors, with a reason when it is a failure and a complete
\* installation when it is not.
LEMMA LeaveStep ==
    ASSUME CoreInv, Past, NEW a \in {"failed", "repaired"}, Leave(a),
           UNCHANGED <<files, touched, shadow, swept, accident>>,
           ran' = ran \/ (~touched => ran' \subseteq {"good"}),
           fault' \in BOOLEAN,
           a = "failed" => fault' \/ touched \/ shadow,
           a = "repaired" /\ ~touched => Good(installed)
    PROVE  CoreInv' /\ Kept
<1>a. /\ TypeOK /\ InstalledInv /\ StagedInv /\ OrphanInv /\ QuietInv /\ ReasonInv
      /\ pid \in Pids /\ pc # "idle" /\ pc # "mkdir"
      BY OwnTree DEF CoreInv, Past, CheckPcs
<1>b. /\ pc' = "drop archive" /\ answer' = a /\ UNCHANGED <<pid, site, attempt>>
      /\ UNCHANGED <<installed, unsynced, archive, staging, orphan, crashes, damage>>
      BY DEF Leave, files, accident
<1>1. TypeOK' BY <1>a, <1>b DEF TypeOK, Pcs
<1>2. InstalledInv' BY <1>a, <1>b DEF InstalledInv, CheckPcs, Good
<1>3. StagedInv' BY <1>b DEF StagedInv
<1>4. OrphanInv' BY <1>a, <1>b DEF OrphanInv
<1>5. QuietInv' BY <1>a, <1>b DEF QuietInv, Before, CheckPcs, Clear
<1>6. ReasonInv' BY <1>b DEF ReasonInv
<1>7. Kept BY <1>b DEF Kept
<1> QED BY <1>1, <1>2, <1>3, <1>4, <1>5, <1>6, <1>7 DEF CoreInv

\* An exit before the operation has made anything.
LEMMA ReturnStep ==
    ASSUME CoreInv, Before \/ pc = "mkdir", NEW a \in {"failed", "installed"}, Return(a),
           UNCHANGED <<files, touched, shadow, swept, accident>>,
           ran' = ran \/ (~touched => ran' \subseteq {"good"}),
           fault' \in BOOLEAN,
           a = "failed" => fault' \/ touched \/ shadow,
           a = "installed" /\ ~touched => Good(installed)
    PROVE  CoreInv' /\ Kept
<1>a. /\ TypeOK /\ InstalledInv /\ StagedInv /\ OrphanInv /\ QuietInv /\ ReasonInv
      /\ pc # "idle"
      BY DEF CoreInv, Before, CheckPcs
<1>b. /\ pc' = "idle" /\ answer' = a /\ UNCHANGED <<site, attempt>>
      /\ UNCHANGED <<installed, unsynced, archive, staging, orphan, crashes, damage>>
      BY DEF Return, files, accident
<1>1. TypeOK' BY <1>a, <1>b DEF TypeOK, Pcs
<1>2. InstalledInv' BY <1>a, <1>b DEF InstalledInv, CheckPcs, Good
<1>3. StagedInv' BY <1>b DEF StagedInv
<1>4. OrphanInv' BY <1>a, <1>b DEF OrphanInv, Past, CheckPcs
<1>5. QuietInv'
  <2>1. ~Before' BY <1>b DEF Before, CheckPcs
  <2>2. ASSUME ~shadow, swept PROVE \A q \in Pids : Clear(q)
        BY <1>a, <2>2 DEF QuietInv
  <2> QED BY <1>a, <1>b, <2>1, <2>2 DEF QuietInv, CheckPcs, Clear
<1>6. ReasonInv' BY <1>b DEF ReasonInv
<1>7. Kept BY <1>b DEF Kept
<1> QED BY <1>1, <1>2, <1>3, <1>4, <1>5, <1>6, <1>7 DEF CoreInv

-----------------------------------------------------------------------------
(* verifyInstalledCore and verifyCandidate *)

\* A new operation notes whether orphans are about.
LEMMA BeginStep ==
    ASSUME CoreInv, NEW p \in Pids, Begin(p)
    PROVE  CoreInv' /\ Kept
<1>a. TypeOK /\ OrphanInv /\ QuietInv BY DEF CoreInv
<1>b. /\ pid' = p /\ pc' = "license" /\ site' = "old" /\ attempt' = 0 /\ answer' = "none"
      /\ fault' = FALSE /\ touched' = FALSE /\ swept' = FALSE /\ ran' = {}
      /\ shadow' = (\E q \in Pids : orphan[q] # "none")
      /\ UNCHANGED <<installed, unsynced, archive, staging, orphan, crashes, damage>>
      BY DEF Begin, files, accident
<1>1. TypeOK' BY <1>a, <1>b DEF TypeOK, Pcs, CheckPcs
<1>2. InstalledInv' BY <1>b DEF InstalledInv
<1>3. StagedInv' BY <1>b DEF StagedInv
<1>4. OrphanInv' BY <1>a, <1>b DEF OrphanInv, Past
<1>5. QuietInv' BY <1>b DEF QuietInv
<1>6. ReasonInv' BY <1>b DEF ReasonInv
<1>7. Kept BY <1>b DEF Kept
<1> QED BY <1>1, <1>2, <1>3, <1>4, <1>5, <1>6, <1>7 DEF CoreInv

\* What a file is that has passed or failed its check, by what is verified.
LEMMA SubjectIs ==
    ASSUME CoreInv, pc \in CheckPcs
    PROVE  /\ site \in {"old", "staged", "new"} /\ pid \in Pids
           /\ site = "staged" => Subject = staging[pid] /\ Subject \in Trees
           /\ site # "staged" => Subject = installed /\ Subject \in Trees
           /\ site = "staged" /\ ~shadow => Good(Subject)
           /\ site = "new" /\ ~touched => Good(Subject)
<1>a. TypeOK /\ InstalledInv /\ OrphanInv /\ QuietInv BY DEF CoreInv
<1>1. site = "staged" => Past BY DEF Past
<1>2. site \in {"old", "staged", "new"} /\ pid \in Pids /\ installed \in Trees
      BY <1>a DEF TypeOK, CheckPcs
<1>3. Subject = IF site = "staged" THEN staging[pid] ELSE installed BY DEF Subject
<1> QED BY <1>a, <1>1, <1>2, <1>3, OwnTree DEF InstalledInv, QuietInv

\* A check that does not pass: of the installation as it was found, it leads to the
\* repair; of anything else, it ends the repair, and for a reason.
LEMMA RefusedStep ==
    ASSUME CoreInv, pc \in CheckPcs, NEW f \in Files,
           Refused, fault' = (fault \/ Subject[f] = "good"),
           UNCHANGED <<files, touched, shadow, swept, accident>>,
           ran' = ran \/ (~touched => ran' \subseteq {"good"})
    PROVE  CoreInv' /\ Kept
<1>a. /\ TypeOK /\ InstalledInv /\ StagedInv /\ OrphanInv /\ QuietInv /\ ReasonInv
      /\ fault' \in BOOLEAN
      BY DEF CoreInv, TypeOK
<1>1. CASE site # "old"
  <2>1. Leave("failed") /\ Past BY <1>1 DEF Refused, Past
  <2>2. fault' \/ touched \/ shadow BY <1>a, <1>1, SubjectIs DEF Good
  <2> QED BY <1>a, <2>1, <2>2, LeaveStep
<1>2. CASE site = "old"
  <2>a. /\ pc' = "directories" /\ UNCHANGED <<pid, site, attempt, answer>>
        /\ UNCHANGED <<installed, unsynced, archive, staging, orphan, crashes, damage>>
        BY <1>2 DEF Refused, Goto, files, accident
  <2>b. pc # "idle" /\ Before BY <1>2 DEF Before, CheckPcs
  <2>1. TypeOK' BY <1>a, <2>a, <2>b DEF TypeOK, Pcs
  <2>2. InstalledInv' BY <1>a, <2>a DEF InstalledInv, CheckPcs, Good
  <2>3. StagedInv' BY <2>a DEF StagedInv
  <2>4. OrphanInv' BY <1>a, <2>a DEF OrphanInv, Past, CheckPcs
  <2>5. QuietInv' BY <1>a, <2>a, <2>b DEF QuietInv, CheckPcs, Clear
  <2>6. ReasonInv' BY <1>a, <2>a DEF ReasonInv
  <2>7. Kept BY <2>a DEF Kept
  <2> QED BY <2>1, <2>2, <2>3, <2>4, <2>5, <2>6, <2>7 DEF CoreInv
<1> QED BY <1>1, <1>2

\* Where a check that passes leads.
LEMMA PassedIs ==
    ASSUME site \in {"old", "staged", "new"}, pc \in CheckPcs, Passed
    PROVE  \/ site # "staged" /\ pc = "license" /\ Goto("size and hash")
           \/ pc = "size and hash" /\ Goto("version")
           \/ site = "old" /\ pc = "version" /\ Return("installed")
           \/ site = "new" /\ pc = "version" /\ Leave("repaired")
           \/ site = "staged" /\ pc = "version" /\ Goto("license")
           \/ site = "staged" /\ pc = "license" /\ Goto("rename LICENSE")
<1>1. CASE site = "staged"
  <2>1. Checks = <<"size and hash", "version", "license">> BY <1>1 DEF Checks
  <2>2. Checks[1] = "size and hash" /\ Checks[2] = "version" /\ Checks[3] = "license" BY <2>1
  <2> QED BY <1>1, <2>2 DEF Passed, CheckPcs
<1>2. CASE site # "staged"
  <2>1. Checks = <<"license", "size and hash", "version">> BY <1>2 DEF Checks
  <2>2. Checks[1] = "license" /\ Checks[2] = "size and hash" /\ Checks[3] = "version" BY <2>1
  <2> QED BY <1>2, <2>2 DEF Passed, CheckPcs
<1> QED BY <1>1, <1>2

\* A check that passes: what it has seen is added to what is known of the files.
LEMMA PassedStep ==
    ASSUME CoreInv, pc \in CheckPcs, Passed,
           pc = "license" => Subject["LICENSE"] = "good",
           pc # "license" => Subject["sing-box"] = "good",
           UNCHANGED <<files, fault, touched, shadow, swept, accident>>,
           ran' = ran \/ (~touched => ran' \subseteq {"good"})
    PROVE  CoreInv' /\ Kept
<1>a. /\ TypeOK /\ InstalledInv /\ StagedInv /\ OrphanInv /\ QuietInv /\ ReasonInv
      /\ fault' \in BOOLEAN /\ site \in {"old", "staged", "new"}
      BY DEF CoreInv, TypeOK
<1>b. /\ site = "staged" => Subject = staging[pid]
      /\ site # "staged" => Subject = installed
      BY SubjectIs
<1>1. CASE site = "old" /\ pc = "version" /\ Return("installed")
  <2>1. Before BY <1>1 DEF Before, CheckPcs
  <2>2. ~touched => Good(installed) BY <1>a, <1>1 DEF InstalledInv
  <2> QED BY <1>a, <1>1, <2>1, <2>2, ReturnStep
<1>2. CASE site = "new" /\ pc = "version" /\ Leave("repaired")
  <2>1. Past BY <1>2 DEF Past, CheckPcs
  <2>2. ~touched => Good(installed) BY <1>a, <1>2 DEF InstalledInv
  <2> QED BY <1>a, <1>2, <2>1, <2>2, LeaveStep
<1>3. ASSUME NEW l \in CheckPcs \cup {"rename LICENSE"}, Goto(l),
             \/ site # "staged" /\ pc = "license" /\ l = "size and hash"
             \/ pc = "size and hash" /\ l = "version"
             \/ site = "staged" /\ pc = "version" /\ l = "license"
             \/ site = "staged" /\ pc = "license" /\ l = "rename LICENSE"
      PROVE  CoreInv' /\ Kept
  <2>a. /\ pc' = l /\ UNCHANGED <<pid, site, attempt, answer>>
        /\ UNCHANGED <<installed, unsynced, archive, staging, orphan, crashes, damage>>
        BY <1>3 DEF Goto, files, accident
  <2>1. TypeOK' BY <1>a, <2>a DEF TypeOK, Pcs, CheckPcs
  <2>2. InstalledInv'
        BY <1>a, <1>b, <1>3, <2>a DEF InstalledInv, CheckPcs, Good, Files
  <2>3. StagedInv' BY <1>a, <1>b, <1>3, <2>a DEF StagedInv, Good, Files
  <2>4. OrphanInv' BY <1>a, <1>3, <2>a DEF OrphanInv, Past, CheckPcs
  <2>5. QuietInv' BY <1>a, <1>3, <2>a DEF QuietInv, Before, CheckPcs, Clear, Good
  <2>6. ReasonInv' BY <1>a, <2>a DEF ReasonInv
  <2>7. Kept BY <2>a DEF Kept
  <2> QED BY <2>1, <2>2, <2>3, <2>4, <2>5, <2>6, <2>7 DEF CoreInv
<1> QED BY <1>a, <1>1, <1>2, <1>3, PassedIs DEF CheckPcs

\* The hashes of the license and of the binary.
LEMMA CheckFileStep ==
    ASSUME CoreInv, CheckLicense \/ CheckBinary
    PROVE  CoreInv' /\ Kept
<1>1. UNCHANGED <<files, touched, shadow, swept, ran, accident>> /\ pc \in CheckPcs
      BY DEF CheckLicense, CheckBinary, CheckFile, CheckPcs
<1>2. ASSUME NEW f \in Files, Refused, fault' = (fault \/ Subject[f] = "good")
      PROVE  CoreInv' /\ Kept
      BY <1>1, <1>2, RefusedStep
<1>3. ASSUME NEW f \in Files, f = "LICENSE" <=> pc = "license",
             Subject[f] = "good", Passed, UNCHANGED fault
      PROVE  CoreInv' /\ Kept
      BY <1>1, <1>3, PassedStep DEF Files
<1> QED BY <1>2, <1>3 DEF CheckLicense, CheckBinary, CheckFile, Files

\* `sing-box version`: the binary that is executed has passed the check of its hash.
LEMMA CheckVersionStep ==
    ASSUME CoreInv, CheckVersion
    PROVE  CoreInv' /\ Kept
<1>1. /\ UNCHANGED <<files, touched, shadow, swept, accident>>
      /\ ran' = ran \cup {Subject["sing-box"]} /\ pc = "version" /\ pc \in CheckPcs
      BY DEF CheckVersion, CheckPcs
<1>2. InstalledInv /\ StagedInv /\ site \in {"old", "staged", "new"} BY DEF CoreInv, TypeOK
<1>3. ~touched => ran' \subseteq {"good"}
  <2>1. ~touched => Subject["sing-box"] = "good"
        BY <1>1, <1>2 DEF InstalledInv, StagedInv, Subject, Good, Files
  <2>2. ~touched => ran \subseteq {"good"} BY <1>2 DEF InstalledInv
  <2> QED BY <1>1, <2>1, <2>2
<1>4. CASE Refused /\ fault' = (fault \/ Subject["sing-box"] = "good")
  <2>1. "sing-box" \in Files BY DEF Files
  <2> QED BY <1>1, <1>3, <1>4, <2>1, RefusedStep
<1>5. CASE Subject["sing-box"] = "good" /\ Passed /\ UNCHANGED fault
      BY <1>1, <1>3, <1>5, PassedStep
<1> QED BY <1>4, <1>5 DEF CheckVersion

-----------------------------------------------------------------------------
(* repairCore *)

\* A step that can only fail for a fault, where there is nothing of the operation yet.
LEMMA FailsEarly ==
    ASSUME CoreInv, NEW l \in {"directories", "mkdir"}, Fails(l, Return("failed")),
           UNCHANGED <<files, accident>>
    PROVE  CoreInv' /\ Kept
<1>1. /\ Before \/ pc = "mkdir"
      /\ Return("failed") /\ fault' = TRUE /\ UNCHANGED <<touched, shadow, swept, ran>>
      BY DEF Fails, Before
<1> QED BY <1>1, ReturnStep

\* And one where there is.
LEMMA FailsLate ==
    ASSUME CoreInv, NEW l \in {"archive", "extract", "rename LICENSE", "rename sing-box"},
           Fails(l, Leave("failed")), UNCHANGED <<files, accident>>
    PROVE  CoreInv' /\ Kept
<1>1. Past /\ Leave("failed") /\ fault' = TRUE /\ UNCHANGED <<touched, shadow, swept, ran>>
      BY DEF Fails, Past
<1> QED BY <1>1, LeaveStep

\* The directories are there.
LEMMA DirectoriesStep ==
    ASSUME CoreInv, Directories
    PROVE  CoreInv' /\ Kept
<1>1. CASE Fails("directories", Return("failed"))
      BY <1>1, FailsEarly DEF Directories
<1>2. CASE pc = "directories" /\ Goto("sweep") /\ UNCHANGED notes
  <2>a. /\ TypeOK /\ InstalledInv /\ OrphanInv /\ QuietInv /\ ReasonInv
        BY DEF CoreInv
  <2>b. /\ pc' = "sweep" /\ UNCHANGED <<pid, site, attempt, answer>>
        /\ UNCHANGED <<installed, unsynced, archive, staging, orphan, crashes, damage>>
        /\ UNCHANGED <<fault, touched, shadow, swept, ran>>
        BY <1>2 DEF Directories, Goto, files, accident, notes
  <2>1. TypeOK' BY <1>2, <2>a, <2>b DEF TypeOK, Pcs
  <2>2. InstalledInv' BY <2>a, <2>b DEF InstalledInv, CheckPcs, Good
  <2>3. StagedInv' BY <2>b DEF StagedInv
  <2>4. OrphanInv' BY <2>a, <2>b DEF OrphanInv, Past, CheckPcs
  <2>5. QuietInv' BY <1>2, <2>a, <2>b DEF QuietInv, Before, CheckPcs, Clear
  <2>6. ReasonInv' BY <2>a, <2>b DEF ReasonInv
  <2>7. Kept BY <2>b DEF Kept
  <2> QED BY <2>1, <2>2, <2>3, <2>4, <2>5, <2>6, <2>7 DEF CoreInv
<1> QED BY <1>1, <1>2 DEF Directories

\* removeStaleArtifacts: without orphans nothing is kept.
LEMMA SweepStep ==
    ASSUME CoreInv, Sweep
    PROVE  CoreInv' /\ Kept
<1>a. /\ TypeOK /\ InstalledInv /\ OrphanInv /\ QuietInv /\ ReasonInv
      BY DEF CoreInv
<1>b. /\ pc = "sweep" /\ pc' = "mkdir" /\ UNCHANGED <<pid, site, attempt, answer>>
      /\ UNCHANGED <<installed, unsynced, fault, touched, shadow, ran, crashes, damage>>
      /\ archive' = [q \in Pids |-> "none"] /\ swept' = TRUE
      BY DEF Sweep, Goto, accident
<1>1. PICK kept \in SUBSET {q \in Pids : orphan[q] = "tar"} :
         /\ staging' = [q \in Pids |-> IF q \in kept THEN staging[q] ELSE NoDir]
         /\ orphan' = [q \in Pids |-> IF orphan[q] = "tar" /\ q \notin kept THEN "none"
                                      ELSE orphan[q]]
      BY DEF Sweep
<1>2. TypeOK'
  <2>1. staging' \in [Pids -> Trees \cup {NoDir}] BY <1>a, <1>1 DEF TypeOK
  <2>2. orphan' \in [Pids -> {"none", "curl", "tar"}] BY <1>a, <1>1 DEF TypeOK
  <2>3. archive' \in [Pids -> Content] BY <1>b DEF Content
  <2> QED BY <1>a, <1>b, <2>1, <2>2, <2>3 DEF TypeOK, Pcs
<1>3. InstalledInv' BY <1>a, <1>b DEF InstalledInv, CheckPcs, Good
<1>4. StagedInv' BY <1>b DEF StagedInv
<1>5. OrphanInv' BY <1>a, <1>b, <1>1 DEF OrphanInv, Past, CheckPcs
<1>6. QuietInv'
  <2>1. ~Before' BY <1>b DEF Before, CheckPcs
  <2>2. ASSUME ~shadow
        PROVE  \A q \in Pids : orphan'[q] = "none" /\ archive'[q] = "none" /\ staging'[q] = NoDir
    <3>1. \A q \in Pids : orphan[q] = "none" BY <1>a, <1>b, <2>2 DEF QuietInv
    <3> QED BY <1>b, <1>1, <3>1
  <2>3. pid \in Pids BY <1>a, <1>b DEF TypeOK
  <2> QED BY <1>b, <2>1, <2>2, <2>3 DEF QuietInv, CheckPcs, Clear
<1>7. ReasonInv' BY <1>a, <1>b DEF ReasonInv
<1>8. Kept BY <1>b DEF Kept
<1> QED BY <1>2, <1>3, <1>4, <1>5, <1>6, <1>7, <1>8 DEF CoreInv

\* A directory that is made was not there: no orphan works in it.
LEMMA MkdirStep ==
    ASSUME CoreInv, Mkdir
    PROVE  CoreInv' /\ Kept
<1>a. /\ TypeOK /\ InstalledInv /\ OrphanInv /\ QuietInv /\ ReasonInv
      BY DEF CoreInv
<1>b. UNCHANGED <<installed, unsynced, archive, orphan, accident>> BY DEF Mkdir
<1>1. CASE Fails("mkdir", Return("failed")) /\ UNCHANGED staging
      BY <1>b, <1>1, FailsEarly DEF files
<1>2. CASE pc = "mkdir" /\ staging[pid] # NoDir /\ Return("failed") /\ UNCHANGED <<staging, notes>>
  <2>1. shadow BY <1>a, <1>2 DEF QuietInv, Clear, TypeOK
  <2>2. UNCHANGED <<fault, touched, shadow, swept, ran>> /\ fault' \in BOOLEAN
        BY <1>a, <1>2 DEF notes, TypeOK
  <2> QED BY <1>b, <1>2, <2>1, <2>2, ReturnStep DEF files
<1>3. CASE /\ pc = "mkdir" /\ staging[pid] = NoDir
           /\ staging' = [staging EXCEPT ![pid] = Empty]
           /\ Goto("download")
           /\ UNCHANGED notes
  <2>a. /\ pc' = "download" /\ UNCHANGED <<pid, site, attempt, answer>>
        /\ UNCHANGED <<crashes, damage, fault, touched, shadow, swept, ran>>
        BY <1>b, <1>3 DEF Goto, accident, notes
  <2>b. pc # "idle" /\ pid \in Pids BY <1>a, <1>3 DEF TypeOK
  <2>1. Empty \in Trees BY DEF Empty, Trees, Content
  <2>2. /\ staging' \in [Pids -> Trees \cup {NoDir}] /\ staging'[pid] = Empty /\ Empty # NoDir
        /\ \A q \in Pids : q # pid => staging'[q] = staging[q]
        BY <1>a, <1>3, <2>b, <2>1, StagingSet, TreeIsDir
  <2>3. TypeOK' BY <1>a, <1>b, <1>3, <2>a, <2>b, <2>2 DEF TypeOK, Pcs
  <2>4. InstalledInv' BY <1>a, <1>b, <2>a DEF InstalledInv, CheckPcs, Good
  <2>5. StagedInv' BY <2>a DEF StagedInv
  <2>6. OrphanInv'
    <3>1. orphan[pid] # "tar" BY <1>a, <1>3, <2>b DEF OrphanInv
    <3> QED BY <1>a, <1>b, <2>a, <2>2, <3>1 DEF OrphanInv
  <2>7. QuietInv'
        BY <1>a, <1>b, <1>3, <2>a, <2>b, <2>2 DEF QuietInv, Before, CheckPcs, Clear
  <2>8. ReasonInv' BY <1>a, <2>a DEF ReasonInv
  <2>9. Kept BY <1>b DEF Kept
  <2> QED BY <2>3, <2>4, <2>5, <2>6, <2>7, <2>8, <2>9 DEF CoreInv
<1> QED BY <1>1, <1>2, <1>3 DEF Mkdir

\* An attempt of the download changes the archive of this operation alone.
LEMMA DownloadStep ==
    ASSUME CoreInv, Download
    PROVE  CoreInv' /\ Kept
<1>a. /\ TypeOK /\ InstalledInv /\ OrphanInv /\ QuietInv /\ ReasonInv
      BY DEF CoreInv
<1>b. /\ pc = "download"
      /\ attempt' = attempt + 1
      /\ UNCHANGED <<pid, site, installed, unsynced, staging, orphan, touched, shadow, swept,
                     ran, crashes, damage>>
      BY DEF Download, accident
<1>c. \/ pc' = "archive" /\ UNCHANGED <<answer, fault>>
      \/ fault' = TRUE /\ UNCHANGED <<pc, answer>>
      \/ fault' = TRUE /\ pc' = "drop archive" /\ answer' = "failed"
      BY DEF Download
<1>1. PICK c \in Content : archive' = [archive EXCEPT ![pid] = c] BY DEF Download
<1>2. pid \in Pids /\ pc # "idle" BY <1>a, <1>b DEF TypeOK
<1>3. archive' \in [Pids -> Content] /\ \A q \in Pids : q # pid => archive'[q] = archive[q]
      BY <1>a, <1>1, <1>2, ArchiveSet
<1>4. TypeOK'
  <2>1. attempt' \in Nat BY <1>a, <1>b DEF TypeOK
  <2>2. pc' \in Pcs /\ fault' \in BOOLEAN BY <1>a, <1>b, <1>c DEF TypeOK, Pcs
  <2> QED BY <1>a, <1>b, <1>2, <1>3, <2>1, <2>2 DEF TypeOK
<1>5. InstalledInv' BY <1>a, <1>b, <1>c DEF InstalledInv, CheckPcs, Good
<1>6. StagedInv' BY <1>b, <1>c DEF StagedInv
<1>7. OrphanInv' BY <1>a, <1>b, <1>2 DEF OrphanInv, Past
<1>8. QuietInv' BY <1>a, <1>b, <1>c, <1>3 DEF QuietInv, Before, CheckPcs, Clear
<1>9. ReasonInv' BY <1>a, <1>b, <1>c DEF ReasonInv
<1>10. Kept BY <1>b DEF Kept
<1> QED BY <1>4, <1>5, <1>6, <1>7, <1>8, <1>9, <1>10 DEF CoreInv

\* Only an archive as in the manifest is unpacked.
LEMMA CheckArchiveStep ==
    ASSUME CoreInv, CheckArchive
    PROVE  CoreInv' /\ Kept
<1>1. CASE Fails("archive", Leave("failed")) BY <1>1, FailsLate DEF CheckArchive
<1>2. CASE pc = "archive" /\ archive[pid] = "good" /\ Goto("extract") /\ UNCHANGED notes
  <2>a. /\ TypeOK /\ InstalledInv /\ OrphanInv /\ QuietInv /\ ReasonInv
        BY DEF CoreInv
  <2>b. /\ pc' = "extract" /\ UNCHANGED <<pid, site, attempt, answer>>
        /\ UNCHANGED <<installed, unsynced, archive, staging, orphan, crashes, damage>>
        /\ UNCHANGED <<fault, touched, shadow, swept, ran>>
        BY <1>2 DEF CheckArchive, Goto, files, accident, notes
  <2>1. TypeOK' BY <1>2, <2>a, <2>b DEF TypeOK, Pcs
  <2>2. InstalledInv' BY <2>a, <2>b DEF InstalledInv, CheckPcs, Good
  <2>3. StagedInv' BY <2>b DEF StagedInv
  <2>4. OrphanInv' BY <1>2, <2>a, <2>b DEF OrphanInv, Past
  <2>5. QuietInv' BY <1>2, <2>a, <2>b DEF QuietInv, Before, CheckPcs, Clear
  <2>6. ReasonInv' BY <2>a, <2>b DEF ReasonInv
  <2>7. Kept BY <2>b DEF Kept
  <2> QED BY <2>1, <2>2, <2>3, <2>4, <2>5, <2>6, <2>7 DEF CoreInv
<1> QED BY <1>1, <1>2 DEF CheckArchive

\* What is unpacked is as in the manifest unless an orphan has written to the archive.
LEMMA ExtractStep ==
    ASSUME CoreInv, Extract
    PROVE  CoreInv' /\ Kept
<1>a. /\ TypeOK /\ InstalledInv /\ OrphanInv /\ QuietInv /\ ReasonInv
      BY DEF CoreInv
<1>b. UNCHANGED <<installed, unsynced, archive, orphan, accident>> BY DEF Extract
<1>1. CASE Fails("extract", Leave("failed")) /\ UNCHANGED staging
      BY <1>b, <1>1, FailsLate DEF files
<1>2. CASE ~(Fails("extract", Leave("failed")) /\ UNCHANGED staging)
  <2>1. /\ pc = "extract" /\ Verify("staged") /\ UNCHANGED notes
        /\ \E s \in [Files -> Content] :
              /\ archive[pid] = "good" => s = [f \in Files |-> "good"]
              /\ staging' = [staging EXCEPT ![pid] = s]
        BY <1>2 DEF Extract
  <2>2. PICK s \in Trees : /\ archive[pid] = "good" => s = [f \in Files |-> "good"]
                           /\ staging' = [staging EXCEPT ![pid] = s]
        BY <2>1 DEF Trees
  <2>a. /\ pc' = "size and hash" /\ site' = "staged" /\ UNCHANGED <<pid, attempt, answer>>
        /\ UNCHANGED <<crashes, damage, fault, touched, shadow, swept, ran>>
        BY <1>b, <2>1 DEF Verify, accident, notes
  <2>b. pc # "idle" /\ pid \in Pids /\ Past BY <1>a, <2>1 DEF TypeOK, Past
  <2>3. /\ staging' \in [Pids -> Trees \cup {NoDir}] /\ staging'[pid] = s /\ s # NoDir
        /\ \A q \in Pids : q # pid => staging'[q] = staging[q]
        BY <1>a, <2>2, <2>b, StagingSet, TreeIsDir
  <2>4. archive[pid] = "good" => Good(s) BY <2>2 DEF Good
  <2>5. TypeOK' BY <1>a, <1>b, <2>a, <2>b, <2>3 DEF TypeOK, Pcs, CheckPcs
  <2>6. InstalledInv' BY <1>a, <1>b, <2>a DEF InstalledInv, Good
  <2>7. StagedInv' BY <2>a DEF StagedInv
  <2>8. OrphanInv' BY <1>a, <1>b, <2>a, <2>b, <2>3 DEF OrphanInv
  <2>9. QuietInv'
    <3>1. ~Before' BY <2>a DEF Before
    <3>2. ASSUME ~shadow
          PROVE  /\ Good(s) /\ \A q \in Pids : orphan[q] = "none"
                 /\ swept => \A q \in Pids : q # pid => Clear(q)
          BY <1>a, <2>1, <2>4, <3>2 DEF QuietInv
    <3> QED BY <1>b, <2>a, <2>3, <3>1, <3>2 DEF QuietInv, Clear, Good
  <2>10. ReasonInv' BY <1>a, <2>a DEF ReasonInv
  <2>11. Kept BY <1>b DEF Kept
  <2> QED BY <2>5, <2>6, <2>7, <2>8, <2>9, <2>10, <2>11 DEF CoreInv
<1> QED BY <1>1, <1>2

\* What a rename does: one file of the directory is the installed one from now on.
LEMMA RenameIs ==
    ASSUME TypeOK, OrphanInv, Past, NEW f \in Files,
           installed' = [installed EXCEPT ![f] = staging[pid][f]],
           unsynced' = unsynced \cup {f},
           staging' = [staging EXCEPT ![pid][f] = "none"]
    PROVE  /\ installed' \in Trees /\ unsynced' \subseteq Files
           /\ installed'[f] = staging[pid][f]
           /\ \A g \in Files : g # f => installed'[g] = installed[g]
           /\ staging' \in [Pids -> Trees \cup {NoDir}]
           /\ staging'[pid] \in Trees /\ staging'[pid] # NoDir
           /\ \A g \in Files : g # f => staging'[pid][g] = staging[pid][g]
           /\ \A q \in Pids : q # pid => staging'[q] = staging[q]
<1>1. pc # "idle" /\ pid \in Pids /\ staging[pid] \in Trees /\ installed \in Trees
      BY OwnTree DEF TypeOK
<1> DEFINE t == [staging[pid] EXCEPT ![f] = "none"]
<1>2. t \in Trees /\ \A g \in Files : g # f => t[g] = staging[pid][g]
      BY <1>1 DEF Trees, Content
<1>3. staging' = [staging EXCEPT ![pid] = t] OBVIOUS
<1> HIDE DEF t
<1>4. /\ staging' \in [Pids -> Trees \cup {NoDir}] /\ staging'[pid] = t
      /\ \A q \in Pids : q # pid => staging'[q] = staging[q]
      BY <1>1, <1>2, <1>3, StagingSet
<1>5. installed' \in Trees /\ installed'[f] = staging[pid][f]
      BY <1>1 DEF Trees
<1>6. \A g \in Files : g # f => installed'[g] = installed[g] BY <1>1 DEF Trees
<1>7. unsynced' \subseteq Files BY DEF TypeOK
<1> QED BY <1>2, <1>4, <1>5, <1>6, <1>7, TreeIsDir

\* The license is installed.
LEMMA RenameLicenseStep ==
    ASSUME CoreInv, RenameLicense
    PROVE  CoreInv' /\ Kept
<1>a. /\ TypeOK /\ InstalledInv /\ StagedInv /\ OrphanInv /\ QuietInv /\ ReasonInv
      BY DEF CoreInv
<1>b. UNCHANGED <<archive, orphan, accident>> BY DEF RenameLicense, Install
<1>1. CASE Fails("rename LICENSE", Leave("failed")) /\ UNCHANGED <<installed, unsynced, staging>>
      BY <1>b, <1>1, FailsLate DEF files
<1>2. CASE /\ pc = "rename LICENSE"
           /\ installed' = [installed EXCEPT !["LICENSE"] = staging[pid]["LICENSE"]]
           /\ unsynced' = unsynced \cup {"LICENSE"}
           /\ staging' = [staging EXCEPT ![pid]["LICENSE"] = "none"]
           /\ Goto("rename sing-box")
           /\ UNCHANGED notes
  <2>a. /\ pc' = "rename sing-box" /\ UNCHANGED <<pid, site, attempt, answer>>
        /\ UNCHANGED <<crashes, damage, fault, touched, shadow, swept, ran>>
        BY <1>b, <1>2 DEF Goto, accident, notes
  <2>b. Past /\ pc # "idle" /\ pid \in Pids /\ "LICENSE" \in Files /\ "sing-box" \in Files
        BY <1>a, <1>2 DEF Past, TypeOK, Files
  <2>1. /\ installed' \in Trees /\ unsynced' \subseteq Files
        /\ installed'["LICENSE"] = staging[pid]["LICENSE"]
        /\ \A g \in Files : g # "LICENSE" => installed'[g] = installed[g]
        /\ staging' \in [Pids -> Trees \cup {NoDir}] /\ staging'[pid] # NoDir
        /\ \A g \in Files : g # "LICENSE" => staging'[pid][g] = staging[pid][g]
        /\ \A q \in Pids : q # pid => staging'[q] = staging[q]
        BY <1>a, <1>2, <2>b, RenameIs
  <2>2. Good(staging[pid]) BY <1>a, <1>2 DEF StagedInv
  <2>3. \A g \in Files : installed'[g] = installed[g] \/ installed'[g] = "good"
        BY <2>1, <2>2 DEF Good
  <2>4. TypeOK' BY <1>a, <1>b, <2>a, <2>b, <2>1 DEF TypeOK, Pcs
  <2>5. InstalledInv' BY <1>a, <2>a, <2>b, <2>1, <2>2, <2>3 DEF InstalledInv, CheckPcs, Good
  <2>6. StagedInv' BY <2>a, <2>b, <2>1, <2>2 DEF StagedInv, Good
  <2>7. OrphanInv' BY <1>a, <1>b, <2>a, <2>b, <2>1 DEF OrphanInv
  <2>8. QuietInv'
        BY <1>a, <1>b, <1>2, <2>a, <2>b, <2>1 DEF QuietInv, Before, CheckPcs, Clear
  <2>9. ReasonInv' BY <1>a, <2>a DEF ReasonInv
  <2>10. Kept BY <2>3 DEF Kept
  <2> QED BY <2>4, <2>5, <2>6, <2>7, <2>8, <2>9, <2>10 DEF CoreInv
<1> QED BY <1>1, <1>2 DEF RenameLicense, Install

\* The binary is installed: with the license, the installation is complete.
LEMMA RenameBinaryStep ==
    ASSUME CoreInv, RenameBinary
    PROVE  CoreInv' /\ Kept
<1>a. /\ TypeOK /\ InstalledInv /\ StagedInv /\ OrphanInv /\ QuietInv /\ ReasonInv
      BY DEF CoreInv
<1>b. UNCHANGED <<archive, orphan, accident>> BY DEF RenameBinary, Install
<1>1. CASE Fails("rename sing-box", Leave("failed")) /\ UNCHANGED <<installed, unsynced, staging>>
      BY <1>b, <1>1, FailsLate DEF files
<1>2. CASE /\ pc = "rename sing-box"
           /\ installed' = [installed EXCEPT !["sing-box"] = staging[pid]["sing-box"]]
           /\ unsynced' = unsynced \cup {"sing-box"}
           /\ staging' = [staging EXCEPT ![pid]["sing-box"] = "none"]
           /\ Verify("new")
           /\ UNCHANGED notes
  <2>a. /\ pc' = "license" /\ site' = "new" /\ UNCHANGED <<pid, attempt, answer>>
        /\ UNCHANGED <<crashes, damage, fault, touched, shadow, swept, ran>>
        BY <1>b, <1>2 DEF Verify, accident, notes
  <2>b. Past /\ pc # "idle" /\ pid \in Pids /\ "sing-box" \in Files
        BY <1>a, <1>2 DEF Past, TypeOK, Files
  <2>1. /\ installed' \in Trees /\ unsynced' \subseteq Files
        /\ installed'["sing-box"] = staging[pid]["sing-box"]
        /\ \A g \in Files : g # "sing-box" => installed'[g] = installed[g]
        /\ staging' \in [Pids -> Trees \cup {NoDir}] /\ staging'[pid] # NoDir
        /\ \A q \in Pids : q # pid => staging'[q] = staging[q]
        BY <1>a, <1>2, <2>b, RenameIs
  <2>2. staging[pid]["sing-box"] = "good" BY <1>a, <1>2 DEF StagedInv
  <2>3. \A g \in Files : installed'[g] = installed[g] \/ installed'[g] = "good"
        BY <2>1, <2>2
  <2>4. TypeOK' BY <1>a, <1>b, <2>a, <2>b, <2>1 DEF TypeOK, Pcs, CheckPcs
  <2>5. InstalledInv'
    <3>1. ~touched => Good(installed')
          BY <1>a, <1>2, <2>1, <2>2 DEF InstalledInv, Good, Files
    <3> QED BY <1>a, <2>a, <3>1 DEF InstalledInv, Good
  <2>6. StagedInv' BY <2>a DEF StagedInv
  <2>7. OrphanInv' BY <1>a, <1>b, <2>a, <2>b, <2>1 DEF OrphanInv
  <2>8. QuietInv'
        BY <1>a, <1>b, <1>2, <2>a, <2>b, <2>1 DEF QuietInv, Before, CheckPcs, Clear
  <2>9. ReasonInv' BY <1>a, <2>a DEF ReasonInv
  <2>10. Kept BY <2>3 DEF Kept
  <2> QED BY <2>4, <2>5, <2>6, <2>7, <2>8, <2>9, <2>10 DEF CoreInv
<1> QED BY <1>1, <1>2 DEF RenameBinary, Install

\* The destructor of the archive.
LEMMA DropArchiveStep ==
    ASSUME CoreInv, DropArchive
    PROVE  CoreInv' /\ Kept
<1>a. /\ TypeOK /\ InstalledInv /\ OrphanInv /\ QuietInv /\ ReasonInv
      BY DEF CoreInv
<1>b. /\ pc = "drop archive" /\ pc' = "drop staging" /\ UNCHANGED <<pid, site, attempt, answer>>
      /\ UNCHANGED <<installed, unsynced, staging, orphan, crashes, damage>>
      /\ UNCHANGED <<fault, touched, shadow, swept, ran>>
      /\ archive' = [archive EXCEPT ![pid] = "none"] /\ "none" \in Content
      BY DEF DropArchive, Goto, notes, accident, Content
<1>1. Past /\ pid \in Pids /\ pc # "idle" BY <1>a, <1>b DEF Past, TypeOK
<1>2. /\ archive' \in [Pids -> Content] /\ archive'[pid] = "none"
      /\ \A q \in Pids : q # pid => archive'[q] = archive[q]
      BY <1>a, <1>b, <1>1, ArchiveSet
<1>3. TypeOK' BY <1>a, <1>b, <1>2 DEF TypeOK, Pcs
<1>4. InstalledInv' BY <1>a, <1>b DEF InstalledInv, CheckPcs, Good
<1>5. StagedInv' BY <1>b DEF StagedInv
<1>6. OrphanInv' BY <1>a, <1>b, <1>1 DEF OrphanInv
<1>7. QuietInv' BY <1>a, <1>b, <1>2 DEF QuietInv, Before, CheckPcs, Clear
<1>8. ReasonInv' BY <1>a, <1>b DEF ReasonInv
<1>9. Kept BY <1>b DEF Kept
<1> QED BY <1>3, <1>4, <1>5, <1>6, <1>7, <1>8, <1>9 DEF CoreInv

\* The destructor of the directory: nothing of the operation is left.
LEMMA DropStagingStep ==
    ASSUME CoreInv, DropStaging
    PROVE  CoreInv' /\ Kept
<1>a. /\ TypeOK /\ InstalledInv /\ OrphanInv /\ QuietInv /\ ReasonInv
      BY DEF CoreInv
<1>b. /\ pc = "drop staging" /\ pc' = "idle" /\ UNCHANGED <<site, attempt, answer>>
      /\ UNCHANGED <<installed, unsynced, archive, orphan, crashes, damage>>
      /\ UNCHANGED <<fault, touched, shadow, swept, ran>>
      /\ staging' = [staging EXCEPT ![pid] = NoDir]
      BY DEF DropStaging, Return, notes, accident
<1>1. Past /\ pid \in Pids /\ pc # "idle" BY <1>a, <1>b DEF Past, TypeOK
<1>2. /\ staging' \in [Pids -> Trees \cup {NoDir}] /\ staging'[pid] = NoDir
      /\ \A q \in Pids : q # pid => staging'[q] = staging[q]
      BY <1>a, <1>b, <1>1, StagingSet
<1>3. TypeOK' BY <1>a, <1>b, <1>2 DEF TypeOK, Pcs
<1>4. InstalledInv' BY <1>a, <1>b DEF InstalledInv, CheckPcs, Good
<1>5. StagedInv' BY <1>b DEF StagedInv
<1>6. OrphanInv' BY <1>a, <1>b, <1>1, <1>2 DEF OrphanInv, Past, CheckPcs
<1>7. QuietInv'
  <2>1. ~Before' BY <1>b DEF Before, CheckPcs
  <2>2. ASSUME ~shadow
        PROVE  /\ \A q \in Pids : orphan[q] = "none"
               /\ swept => \A q \in Pids : archive'[q] = "none" /\ staging'[q] = NoDir
        BY <1>a, <1>b, <1>2, <2>2 DEF QuietInv, Clear
  <2> QED BY <1>b, <2>1, <2>2 DEF QuietInv, CheckPcs, Clear
<1>8. ReasonInv' BY <1>a, <1>b DEF ReasonInv
<1>9. Kept BY <1>b DEF Kept
<1> QED BY <1>3, <1>4, <1>5, <1>6, <1>7, <1>8, <1>9 DEF CoreInv

\* What start runs is the binary of a complete installation.
LEMMA LaunchStep ==
    ASSUME CoreInv, Launch
    PROVE  CoreInv' /\ Kept
<1>a. /\ TypeOK /\ InstalledInv /\ OrphanInv /\ QuietInv /\ ReasonInv
      BY DEF CoreInv
<1>b. /\ pc = "idle" /\ answer \in {"installed", "repaired"} /\ answer' = "none"
      /\ ran' = ran \cup {installed["sing-box"]}
      /\ UNCHANGED <<pid, pc, site, attempt, fault, touched, shadow, swept, crashes, damage>>
      /\ UNCHANGED <<installed, unsynced, archive, staging, orphan>>
      BY DEF Launch, files, accident
<1>1. TypeOK' BY <1>a, <1>b DEF TypeOK
<1>2. InstalledInv' BY <1>a, <1>b DEF InstalledInv, CheckPcs, Good, Files
<1>3. StagedInv' BY <1>b DEF StagedInv
<1>4. OrphanInv' BY <1>a, <1>b DEF OrphanInv, Past, CheckPcs
<1>5. QuietInv' BY <1>a, <1>b DEF QuietInv, Before, CheckPcs
<1>6. ReasonInv' BY <1>b DEF ReasonInv
<1>7. Kept BY <1>b DEF Kept
<1> QED BY <1>1, <1>2, <1>3, <1>4, <1>5, <1>6, <1>7 DEF CoreInv

-----------------------------------------------------------------------------
(* Accidents and leftovers *)

\* A crash ends the operation; what it may leave behind is noted by the next one.
LEMMA CrashStep ==
    ASSUME CoreInv, Crash
    PROVE  CoreInv' /\ Kept
<1>a. TypeOK /\ InstalledInv /\ OrphanInv /\ QuietInv BY DEF CoreInv
<1>b. /\ pc # "idle" /\ pc' = "idle" /\ answer' = "none" /\ crashes' = crashes + 1
      /\ UNCHANGED <<site, attempt, installed, unsynced, damage, fault, touched, shadow, swept, ran>>
      BY DEF Crash, notes
<1>c. pid \in Pids /\ staging[pid] \in Trees \cup {NoDir} /\ archive[pid] \in Content
      BY <1>a, <1>b DEF TypeOK
<1>1. PICK c \in Content : archive' = [archive EXCEPT ![pid] = c] BY <1>c DEF Crash
<1>2. PICK t \in Trees \cup {NoDir} :
         /\ staging' = [staging EXCEPT ![pid] = t]
         /\ IF pc = "extract" THEN t \in Trees ELSE t = staging[pid]
      BY <1>c DEF Crash, Trees
<1>3. PICK h \in {"none", "curl", "tar"} :
         /\ orphan' = [orphan EXCEPT ![pid] = h]
         /\ h = "tar" => pc = "extract" \/ orphan[pid] = "tar"
  <2>1. PICK helper \in {"none"} \cup (CASE pc = "download" -> {"curl"}
                                        [] pc = "extract" -> {"tar"} [] OTHER -> {}) :
           orphan' = [orphan EXCEPT ![pid] = IF helper # "none" THEN helper ELSE @]
        BY DEF Crash
  <2>2. helper \in {"none", "curl", "tar"} /\ (helper = "tar" => pc = "extract") BY <2>1
  <2>3. orphan[pid] \in {"none", "curl", "tar"} BY <1>a, <1>c DEF TypeOK
  <2>4. orphan' = [orphan EXCEPT ![pid] = IF helper # "none" THEN helper ELSE orphan[pid]]
        BY <2>1
  <2> QED BY <2>2, <2>3, <2>4
<1>4. TypeOK'
  <2>1. archive' \in [Pids -> Content] BY <1>a, <1>b, <1>1, ArchiveSet
  <2>2. staging' \in [Pids -> Trees \cup {NoDir}] BY <1>a, <1>b, <1>2, StagingSet
  <2>3. orphan' \in [Pids -> {"none", "curl", "tar"}] BY <1>a, <1>3 DEF TypeOK
  <2>4. crashes' \in Nat BY <1>a, <1>b DEF TypeOK
  <2> QED BY <1>a, <1>b, <2>1, <2>2, <2>3, <2>4 DEF TypeOK, Pcs
<1>5. InstalledInv' BY <1>a, <1>b DEF InstalledInv, CheckPcs
<1>6. StagedInv' BY <1>b DEF StagedInv
<1>7. OrphanInv'
  <2>1. \A q \in Pids : q # pid => orphan'[q] = orphan[q] /\ staging'[q] = staging[q]
        BY <1>a, <1>2, <1>3 DEF TypeOK
  <2>2. orphan'[pid] = h /\ staging'[pid] = t BY <1>a, <1>c, <1>2, <1>3 DEF TypeOK
  <2>3. h = "tar" => t # NoDir BY <1>a, <1>c, <1>2, <1>3, TreeIsDir DEF OrphanInv
  <2> QED BY <1>a, <1>b, <2>1, <2>2, <2>3 DEF OrphanInv, Past, CheckPcs
<1>8. QuietInv' BY <1>b DEF QuietInv, Before, CheckPcs
<1>9. ReasonInv' BY <1>b DEF ReasonInv
<1>10. Kept BY <1>b DEF Kept
<1> QED BY <1>4, <1>5, <1>6, <1>7, <1>8, <1>9, <1>10 DEF CoreInv

\* A loss of power ends everything that runs.
LEMMA PowerLossStep ==
    ASSUME CoreInv, PowerLoss
    PROVE  CoreInv' /\ Kept
<1>a. TypeOK /\ InstalledInv BY DEF CoreInv
<1>b. /\ pc' = "idle" /\ answer' = "none" /\ crashes' = crashes + 1
      /\ archive' = [q \in Pids |-> IF archive[q] = "none" THEN "none" ELSE "bad"]
      /\ unsynced' = {} /\ orphan' = [q \in Pids |-> "none"]
      /\ UNCHANGED <<site, attempt, staging, damage, fault, touched, shadow, swept, ran>>
      BY DEF PowerLoss, notes
<1>1. PICK s \in Trees :
         installed' = [f \in Files |-> IF f \in unsynced THEN s[f] ELSE installed[f]]
      BY DEF PowerLoss, Trees
<1>2. TypeOK'
  <2>1. installed' \in Trees BY <1>a, <1>1 DEF TypeOK, Trees
  <2>2. archive' \in [Pids -> Content] BY <1>b DEF Content
  <2>3. orphan' \in [Pids -> {"none", "curl", "tar"}] BY <1>b
  <2>4. crashes' \in Nat BY <1>a, <1>b DEF TypeOK
  <2> QED BY <1>a, <1>b, <2>1, <2>2, <2>3, <2>4 DEF TypeOK, Pcs
<1>3. InstalledInv' BY <1>a, <1>b DEF InstalledInv, CheckPcs
<1>4. StagedInv' BY <1>b DEF StagedInv
<1>5. OrphanInv' BY <1>b DEF OrphanInv, Past, CheckPcs
<1>6. QuietInv' BY <1>b DEF QuietInv, Before, CheckPcs
<1>7. ReasonInv' BY <1>b DEF ReasonInv
<1>8. Kept BY <1>a, <1>b DEF Kept, TypeOK
<1> QED BY <1>2, <1>3, <1>4, <1>5, <1>6, <1>7, <1>8 DEF CoreInv

\* An orphan writes where no operation that has made its directory works, and nowhere
\* beside one that found no orphans.
LEMMA OrphanWritesStep ==
    ASSUME CoreInv, NEW q \in Pids, OrphanWrites(q)
    PROVE  CoreInv' /\ Kept
<1>a. /\ TypeOK /\ InstalledInv /\ StagedInv /\ OrphanInv /\ QuietInv /\ ReasonInv
      BY DEF CoreInv
<1>b. UNCHANGED <<pid, pc, site, attempt, installed, unsynced, orphan, answer, fault, touched,
                  shadow, swept, ran, crashes, damage>>
      BY DEF OrphanWrites, notes, accident
<1>1. \/ archive' = [archive EXCEPT ![q] = "bad"] /\ UNCHANGED staging
      \/ /\ orphan[q] = "tar" /\ staging[q] # NoDir /\ UNCHANGED archive
         /\ \E f \in Files : staging' = [staging EXCEPT ![q][f] = "bad"]
      BY DEF OrphanWrites
<1>2. archive' \in [Pids -> Content] BY <1>a, <1>1 DEF TypeOK, Content
<1>3. /\ staging' \in [Pids -> Trees \cup {NoDir}]
      /\ \A p \in Pids : p # q \/ orphan[q] # "tar" => staging'[p] = staging[p]
      /\ \A p \in Pids : staging[p] # NoDir => staging'[p] # NoDir
  <2>1. CASE UNCHANGED staging BY <1>a, <2>1 DEF TypeOK
  <2>2. CASE /\ orphan[q] = "tar" /\ staging[q] # NoDir
             /\ \E f \in Files : staging' = [staging EXCEPT ![q][f] = "bad"]
    <3>1. PICK f \in Files : staging' = [staging EXCEPT ![q][f] = "bad"] BY <2>2
    <3> DEFINE t == [staging[q] EXCEPT ![f] = "bad"]
    <3>2. t \in Trees BY <1>a, <2>2 DEF TypeOK, Trees, Content
    <3>3. staging' = [staging EXCEPT ![q] = t] BY <3>1
    <3> HIDE DEF t
    <3>4. staging'[q] = t /\ t # NoDir BY <1>a, <3>2, <3>3, TreeIsDir DEF TypeOK
    <3> QED BY <1>a, <2>2, <3>2, <3>3, <3>4 DEF TypeOK
  <2> QED BY <1>1, <2>1, <2>2
<1>4. TypeOK' BY <1>a, <1>b, <1>2, <1>3 DEF TypeOK
<1>5. InstalledInv' BY <1>a, <1>b DEF InstalledInv, Good
<1>6. Past => pid \in Pids /\ staging'[pid] = staging[pid]
      BY <1>a, <1>3, OwnTree DEF OrphanInv
<1>7. StagedInv' BY <1>a, <1>b, <1>6 DEF StagedInv, Past, CheckPcs, Good
<1>8. OrphanInv' BY <1>a, <1>b, <1>3, <1>6 DEF OrphanInv, Past
<1>9. QuietInv'
  <2>1. orphan[q] # "none" BY DEF OrphanWrites
  <2>2. shadow \/ (pc = "idle" /\ answer = "none") BY <1>a, <2>1 DEF QuietInv, TypeOK
  <2> QED BY <1>a, <1>b, <2>2 DEF QuietInv, Before, CheckPcs
<1>10. ReasonInv' BY <1>a, <1>b DEF ReasonInv
<1>11. Kept BY <1>b DEF Kept
<1> QED BY <1>4, <1>5, <1>7, <1>8, <1>9, <1>10, <1>11 DEF CoreInv

\* An orphan comes to its end, and data to the disk.
LEMMA QuietStep ==
    ASSUME CoreInv, (\E q \in Pids : OrphanEnds(q)) \/ (\E f \in Files : Flush(f))
    PROVE  CoreInv' /\ Kept
<1>a. /\ TypeOK /\ InstalledInv /\ StagedInv /\ OrphanInv /\ QuietInv /\ ReasonInv
      BY DEF CoreInv
<1>b. UNCHANGED <<pid, pc, site, attempt, installed, archive, staging, answer, fault, touched,
                  shadow, swept, ran, crashes, damage>>
      BY DEF OrphanEnds, Flush, notes, accident
<1>c. unsynced' \subseteq unsynced
      BY DEF OrphanEnds, Flush
<1>1. /\ orphan' \in [Pids -> {"none", "curl", "tar"}]
      /\ \A q \in Pids : orphan'[q] \in {"none", orphan[q]}
      BY <1>a DEF OrphanEnds, Flush, TypeOK
<1>2. TypeOK' BY <1>a, <1>b, <1>c, <1>1 DEF TypeOK
<1>3. InstalledInv' BY <1>a, <1>b DEF InstalledInv, Good
<1>4. StagedInv' BY <1>a, <1>b DEF StagedInv, Good
<1>5. OrphanInv'
  <2>1. Past => pid \in Pids BY <1>a, OwnTree
  <2> QED BY <1>a, <1>b, <1>1, <2>1 DEF OrphanInv, Past
<1>6. QuietInv' BY <1>a, <1>b, <1>1 DEF QuietInv, Before, CheckPcs, Clear, Good
<1>7. ReasonInv' BY <1>a, <1>b DEF ReasonInv
<1>8. Kept BY <1>b DEF Kept
<1> QED BY <1>2, <1>3, <1>4, <1>5, <1>6, <1>7, <1>8 DEF CoreInv

\* Somebody else's change of an installed file is noted.
LEMMA DamageStep ==
    ASSUME CoreInv, NEW f \in Files, Damage(f)
    PROVE  CoreInv' /\ Kept
<1>a. /\ TypeOK /\ StagedInv /\ OrphanInv /\ QuietInv
      BY DEF CoreInv
<1>b. /\ damage' = damage + 1 /\ touched' = TRUE
      /\ UNCHANGED <<pid, pc, site, attempt, unsynced, archive, staging, orphan, answer,
                     fault, shadow, swept, ran, crashes>>
      BY DEF Damage
<1>1. installed' \in Trees BY <1>a DEF Damage, TypeOK, Trees
<1>2. damage' \in Nat /\ damage' > damage BY <1>a, <1>b DEF TypeOK
<1>3. TypeOK' BY <1>a, <1>b, <1>1, <1>2 DEF TypeOK
<1>4. InstalledInv' BY <1>b DEF InstalledInv
<1>5. StagedInv' BY <1>a, <1>b DEF StagedInv, Good
<1>6. OrphanInv' BY <1>a, <1>b DEF OrphanInv, Past
<1>7. QuietInv' BY <1>a, <1>b DEF QuietInv, Before, CheckPcs, Clear, Good
<1>8. ReasonInv' BY <1>b DEF ReasonInv
<1>9. Kept BY <1>2 DEF Kept
<1> QED BY <1>3, <1>4, <1>5, <1>6, <1>7, <1>8, <1>9 DEF CoreInv

-----------------------------------------------------------------------------
(* The theorems *)

\* At the start nothing is installed and nothing runs.
LEMMA CoreInit == Init => CoreInv
<1> SUFFICES ASSUME Init PROVE CoreInv OBVIOUS
<1>1. /\ pc = "idle" /\ site = "old" /\ attempt = 0 /\ answer = "none"
      /\ installed = Empty /\ unsynced = {}
      /\ archive = [q \in Pids |-> "none"] /\ staging = [q \in Pids |-> NoDir]
      /\ orphan = [q \in Pids |-> "none"]
      /\ fault = FALSE /\ touched = FALSE /\ shadow = FALSE /\ swept = FALSE /\ ran = {}
      /\ crashes = 0 /\ damage = 0
      BY DEF Init
<1>2. TypeOK
  <2>1. installed \in Trees BY <1>1 DEF Empty, Trees, Content
  <2>2. archive \in [Pids -> Content] BY <1>1 DEF Content
  <2>3. staging \in [Pids -> Trees \cup {NoDir}] BY <1>1
  <2>4. orphan \in [Pids -> {"none", "curl", "tar"}] BY <1>1
  <2> QED BY <1>1, <2>1, <2>2, <2>3, <2>4 DEF TypeOK, Pcs
<1>3. InstalledInv BY <1>1 DEF InstalledInv, CheckPcs
<1>4. StagedInv BY <1>1 DEF StagedInv
<1>5. OrphanInv BY <1>1 DEF OrphanInv, Past, CheckPcs
<1>6. QuietInv BY <1>1 DEF QuietInv, CheckPcs
<1>7. ReasonInv BY <1>1 DEF ReasonInv
<1> QED BY <1>2, <1>3, <1>4, <1>5, <1>6, <1>7 DEF CoreInv

\* Every step keeps the invariant and what is good of the installation.
LEMMA CoreStep == CoreInv /\ [Next]_vars => CoreInv' /\ (Kept \/ UNCHANGED vars)
<1> SUFFICES ASSUME CoreInv, [Next]_vars PROVE CoreInv' /\ (Kept \/ UNCHANGED vars) OBVIOUS
<1>1. CASE OpStep
      BY <1>1, CheckFileStep, CheckVersionStep, DirectoriesStep, SweepStep, MkdirStep,
         DownloadStep, CheckArchiveStep, ExtractStep, RenameLicenseStep, RenameBinaryStep,
         DropArchiveStep, DropStagingStep
         DEF OpStep
<1>2. CASE Launch BY <1>2, LaunchStep
<1>3. CASE Outside
      BY <1>3, CrashStep, PowerLossStep, OrphanWritesStep, QuietStep, DamageStep DEF Outside
<1>4. CASE \E p \in Pids : Begin(p) BY <1>4, BeginStep
<1>5. CASE UNCHANGED vars
  <2>1. TypeOK' /\ ReasonInv'
        BY <1>5 DEF vars, files, notes, accident, CoreInv, TypeOK, ReasonInv
  <2>2. InstalledInv' /\ StagedInv'
        BY <1>5 DEF vars, files, notes, CoreInv, InstalledInv, StagedInv, Good
  <2>3. OrphanInv' BY <1>5 DEF vars, files, CoreInv, OrphanInv, Past
  <2>4. QuietInv' BY <1>5 DEF vars, files, notes, CoreInv, QuietInv, Before, Clear, Good
  <2> QED BY <1>5, <2>1, <2>2, <2>3, <2>4 DEF CoreInv
<1> QED BY <1>1, <1>2, <1>3, <1>4, <1>5 DEF Next

\* The inductive invariant holds of the specification.
THEOREM CoreCorrect == Spec => []CoreInv
<1>1. CoreInv /\ [Next]_vars => CoreInv' BY CoreStep
<1> QED BY CoreInit, <1>1, PTL DEF Spec

\* Nothing is executed that was not verified, and ensureCore succeeds only over a complete
\* installation, beside any orphans, unless somebody else changes the files.
THEOREM VerifiedOnly == Spec => []OnlyVerifiedRuns
<1>1. CoreInv => OnlyVerifiedRuns
      BY DEF CoreInv, InstalledInv, Good, OnlyVerifiedRuns
<1> QED BY <1>1, CoreCorrect, PTL

\* No step of a repair replaces a good file by another one.
THEOREM RepairsKeep == Spec => NeverWorse
<1>1. CoreInv /\ [Next]_vars
         => [\A f \in Files : installed[f] = "good" /\ installed'[f] # "good"
                => damage' > damage \/ crashes' > crashes]_vars
      BY CoreStep DEF Kept
<1> QED BY <1>1, CoreCorrect, PTL DEF Spec, NeverWorse

\* Leftovers of dead operations neither make a repair fail nor survive it.
THEOREM LeftoversGo == Spec => []LeftoversHarmless
<1>1. CoreInv => LeftoversHarmless
      BY DEF CoreInv, QuietInv, ReasonInv, Clear, LeftoversHarmless
<1> QED BY <1>1, CoreCorrect, PTL
=============================================================================
