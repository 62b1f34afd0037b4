----------------------------- MODULE CoreManager -----------------------------
(***************************************************************************)
(* ensureCore and repairCore (src/src/core_manager.cpp): the installed     *)
(* core is verified and, if need be, downloaded, unpacked, verified and    *)
(* installed by two renames.  The caller, start of ProxyManager, holds the *)
(* operation lock, so one operation runs at a time; it may die anywhere,   *)
(* and the curl or tar it had running may outlive it.                      *)
(***************************************************************************)
EXTENDS Naturals, FiniteSets

CONSTANTS
    Pids,       \* pids of processes that run the operation, free for reuse after it
    NoPid,
    Attempts,   \* kDownloadAttempts
    MaxCrashes, MaxDamage   \* bounds: crashes and losses of power, outside damage

ASSUME CoreManagerAssumption ==
    NoPid \notin Pids /\ Attempts \in Nat \ {0} /\ MaxCrashes \in Nat /\ MaxDamage \in Nat

Files   == {"LICENSE", "sing-box"}
\* What a file is to regularFileSize and sha256File: not there, as in the manifest, different.
Content == {"none", "good", "bad"}
NoDir   == [f \in Files |-> "no directory"]
Empty   == [f \in Files |-> "none"]

VARIABLES
    pid, pc,    \* who runs the operation, and where it is
    site,       \* what is being verified: "old", "staged" or "new"
    attempt,
    installed,  \* the files of coreDirectory()
    unsynced,   \* those whose data may not be on the disk yet
    archive,    \* <asset>.part.<pid>
    staging,    \* .staging.<pid>
    orphan,     \* the helper of a dead operation of that pid that still runs
    answer,
    fault,      \* a system call, a tool or the network failed during this operation
    touched,    \* somebody else changed an installed file during this operation
    shadow,     \* an orphan was there when this operation began
    swept,      \* this operation has removed stale artifacts
    ran,        \* what this operation, or its caller after it, has executed
    crashes, damage

files    == <<installed, unsynced, archive, staging, orphan>>
notes    == <<fault, touched, shadow, swept, ran>>
accident == <<crashes, damage>>
vars     == <<pid, pc, site, attempt, files, answer, notes, accident>>

Goto(l) == pc' = l /\ UNCHANGED <<pid, site, attempt, answer>>
\* The destructors of TemporaryTree come before the caller gets the answer.
Leave(a) == pc' = "drop archive" /\ answer' = a /\ UNCHANGED <<pid, site, attempt>>
\* A return before they exist.
Return(a) == pc' = "idle" /\ answer' = a /\ pid' = NoPid /\ UNCHANGED <<site, attempt>>

-----------------------------------------------------------------------------
(* verifyInstalledCore and verifyCandidate *)

Subject == IF site = "staged" THEN staging[pid] ELSE installed
Checks  == IF site = "staged" THEN <<"size and hash", "version", "license">>
           ELSE <<"license", "size and hash", "version">>
Verify(s) == /\ site' = s
             /\ pc' = IF s = "staged" THEN "size and hash" ELSE "license"
             /\ UNCHANGED <<pid, attempt, answer>>

Passed ==
    IF pc # Checks[3] THEN Goto(IF pc = Checks[1] THEN Checks[2] ELSE Checks[3])
    ELSE CASE site = "old"    -> Return("installed")
           [] site = "staged" -> Goto("rename LICENSE")
           [] site = "new"    -> Leave("repaired")
Refused == IF site = "old" THEN Goto("directories") ELSE Leave("failed")

Begin(p) ==
    /\ pc = "idle"
    /\ pid' = p /\ pc' = "license" /\ site' = "old" /\ attempt' = 0 /\ answer' = "none"
    /\ fault' = FALSE /\ touched' = FALSE /\ swept' = FALSE /\ ran' = {}
    /\ shadow' = (\E q \in Pids : orphan[q] # "none")
    /\ UNCHANGED <<files, accident>>

\* sha256File, behind a look at the size for the binary; sha256sum itself may fail.
CheckFile(l, f) ==
    /\ pc = l
    /\ \/ Subject[f] = "good" /\ Passed /\ UNCHANGED fault
       \/ Refused /\ fault' = (fault \/ Subject[f] = "good")
    /\ UNCHANGED <<files, touched, shadow, swept, ran, accident>>
CheckLicense == CheckFile("license", "LICENSE")
\* Mutant of CheckBinary: only the version is looked at.
CheckBinarySkipped == pc = "size and hash" /\ Passed /\ UNCHANGED <<files, notes, accident>>
CheckBinary  == CheckFile("size and hash", "sing-box")

\* `sing-box version`, which for a good binary prints what is expected unless it fails.
CheckVersion ==
    /\ pc = "version"
    /\ ran' = ran \cup {Subject["sing-box"]}
    /\ \/ Subject["sing-box"] = "good" /\ Passed /\ UNCHANGED fault
       \/ Refused /\ fault' = (fault \/ Subject["sing-box"] = "good")
    /\ UNCHANGED <<files, touched, shadow, swept, accident>>

-----------------------------------------------------------------------------
(* repairCore *)

\* A step that fails only when a system call or a tool does.
Fails(l, Out) == pc = l /\ Out /\ fault' = TRUE /\ UNCHANGED <<touched, shadow, swept, ran>>

Directories ==
    /\ \/ pc = "directories" /\ Goto("sweep") /\ UNCHANGED notes
       \/ Fails("directories", Return("failed"))
    /\ UNCHANGED <<files, accident>>

\* Mutant of Sweep: only the archives are looked for.
SweepArchives ==
    /\ pc = "sweep"
    /\ archive' = [q \in Pids |-> "none"]
    /\ swept' = TRUE
    /\ Goto("mkdir")
    /\ UNCHANGED <<installed, unsynced, staging, orphan, fault, touched, shadow, ran, accident>>

\* removeStaleArtifacts: everything goes, unless a running tar refills its directory.
Sweep ==
    /\ pc = "sweep"
    /\ \E kept \in SUBSET {q \in Pids : orphan[q] = "tar"} :
        /\ staging' = [q \in Pids |-> IF q \in kept THEN staging[q] ELSE NoDir]
        /\ orphan' = [q \in Pids |-> IF orphan[q] = "tar" /\ q \notin kept THEN "none" ELSE orphan[q]]
    /\ archive' = [q \in Pids |-> "none"]
    /\ swept' = TRUE
    /\ Goto("mkdir")
    /\ UNCHANGED <<installed, unsynced, fault, touched, shadow, ran, accident>>

Mkdir ==
    /\ \/ /\ pc = "mkdir" /\ staging[pid] = NoDir
          /\ staging' = [staging EXCEPT ![pid] = Empty]
          /\ Goto("download")
          /\ UNCHANGED notes
       \/ pc = "mkdir" /\ staging[pid] # NoDir /\ Return("failed") /\ UNCHANGED <<staging, notes>>
       \/ Fails("mkdir", Return("failed")) /\ UNCHANGED staging
    /\ UNCHANGED <<installed, unsynced, archive, orphan, accident>>

\* Mutant of Download: the failed attempts are not counted.
DownloadForever ==
    /\ pc = "download"
    /\ \E c \in Content : archive' = [archive EXCEPT ![pid] = c]
    /\ \/ Goto("archive") /\ UNCHANGED fault
       \/ Goto("download") /\ fault' = TRUE
    /\ UNCHANGED <<installed, unsynced, staging, orphan, touched, shadow, swept, ran, accident>>

\* One attempt: the old archive goes, curl writes a new one and succeeds or not.
Download ==
    /\ pc = "download"
    /\ \E c \in Content : archive' = [archive EXCEPT ![pid] = c]
    /\ attempt' = attempt + 1
    /\ \/ pc' = "archive" /\ UNCHANGED <<answer, fault>>
       \/ /\ fault' = TRUE
          /\ IF attempt + 1 < Attempts THEN UNCHANGED <<pc, answer>>
             ELSE pc' = "drop archive" /\ answer' = "failed"
    /\ UNCHANGED <<pid, site, installed, unsynced, staging, orphan, touched, shadow, swept, ran, accident>>

\* A download that curl took for complete may still be wrong: that is a fault too.
CheckArchive ==
    /\ \/ pc = "archive" /\ archive[pid] = "good" /\ Goto("extract") /\ UNCHANGED notes
       \/ Fails("archive", Leave("failed"))
    /\ UNCHANGED <<files, accident>>

\* Mutant of Extract: the files are installed as soon as they are unpacked.
ExtractUnverified ==
    /\ pc = "extract"
    /\ \E s \in [Files -> Content] :
        /\ archive[pid] = "good" => s = [f \in Files |-> "good"]
        /\ staging' = [staging EXCEPT ![pid] = s]
    /\ Goto("rename LICENSE")
    /\ UNCHANGED <<installed, unsynced, archive, orphan, notes, accident>>

\* tar; an archive an orphan has changed since gives anything.
Extract ==
    /\ \/ /\ pc = "extract"
          /\ \E s \in [Files -> Content] :
              /\ archive[pid] = "good" => s = [f \in Files |-> "good"]
              /\ staging' = [staging EXCEPT ![pid] = s]
          /\ Verify("staged")
          /\ UNCHANGED notes
       \/ Fails("extract", Leave("failed")) /\ UNCHANGED staging
    /\ UNCHANGED <<installed, unsynced, archive, orphan, accident>>

\* renameReplacing, with the directory synced but not the data of the file.
Install(l, f, Next1) ==
    /\ \/ /\ pc = l
          /\ installed' = [installed EXCEPT ![f] = staging[pid][f]]
          /\ unsynced' = unsynced \cup {f}
          /\ staging' = [staging EXCEPT ![pid][f] = "none"]
          /\ Next1
          /\ UNCHANGED notes
       \/ Fails(l, Leave("failed")) /\ UNCHANGED <<installed, unsynced, staging>>
    /\ UNCHANGED <<archive, orphan, accident>>
RenameLicense == Install("rename LICENSE", "LICENSE", Goto("rename sing-box"))
RenameBinary  == Install("rename sing-box", "sing-box", Verify("new"))

\* ~TemporaryTree, the archive's first.
DropArchive ==
    /\ pc = "drop archive"
    /\ archive' = [archive EXCEPT ![pid] = "none"]
    /\ Goto("drop staging")
    /\ UNCHANGED <<installed, unsynced, staging, orphan, notes, accident>>

DropStaging ==
    /\ pc = "drop staging"
    /\ staging' = [staging EXCEPT ![pid] = NoDir]
    /\ Return(answer)
    /\ UNCHANGED <<installed, unsynced, archive, orphan, notes, accident>>

\* start goes on to run what ensureCore has approved.
Launch ==
    /\ pc = "idle" /\ answer \in {"installed", "repaired"}
    /\ ran' = ran \cup {installed["sing-box"]}
    /\ answer' = "none"
    /\ UNCHANGED <<pid, pc, site, attempt, files, fault, touched, shadow, swept, accident>>

-----------------------------------------------------------------------------
(* Accidents and leftovers *)

\* The process dies; a helper it waited for, with what it had written, may go on.
Crash ==
    /\ pc # "idle" /\ crashes < MaxCrashes
    /\ crashes' = crashes + 1
    /\ \E helper \in {"none"} \cup (CASE pc = "download" -> {"curl"} [] pc = "extract" -> {"tar"} [] OTHER -> {}) :
        orphan' = [orphan EXCEPT ![pid] = IF helper # "none" THEN helper ELSE @]
    /\ \E c \in IF pc = "download" THEN Content ELSE {archive[pid]} : archive' = [archive EXCEPT ![pid] = c]
    /\ \E s \in IF pc = "extract" THEN [Files -> Content] ELSE {staging[pid]} : staging' = [staging EXCEPT ![pid] = s]
    /\ pc' = "idle" /\ pid' = NoPid /\ answer' = "none"
    /\ UNCHANGED <<site, attempt, installed, unsynced, notes, damage>>

OrphanWrites(q) ==
    /\ \/ orphan[q] = "curl" /\ archive' = [archive EXCEPT ![q] = "bad"] /\ UNCHANGED staging
       \/ orphan[q] = "tar" /\ staging[q] # NoDir /\ UNCHANGED archive
          /\ \E f \in Files : staging' = [staging EXCEPT ![q][f] = "bad"]
    /\ UNCHANGED <<pid, pc, site, attempt, installed, unsynced, orphan, answer, notes, accident>>

OrphanEnds(q) ==
    /\ orphan[q] # "none"
    /\ orphan' = [orphan EXCEPT ![q] = "none"]
    /\ UNCHANGED <<pid, pc, site, attempt, installed, unsynced, archive, staging, answer, notes, accident>>

\* The kernel writes the data back in its own time.
Flush(f) ==
    /\ f \in unsynced
    /\ unsynced' = unsynced \ {f}
    /\ UNCHANGED <<pid, pc, site, attempt, installed, archive, staging, orphan, answer, notes, accident>>

PowerLoss ==
    /\ crashes < MaxCrashes
    /\ crashes' = crashes + 1
    /\ \E s \in [Files -> Content] :
        installed' = [f \in Files |-> IF f \in unsynced THEN s[f] ELSE installed[f]]
    /\ archive' = [q \in Pids |-> IF archive[q] = "none" THEN "none" ELSE "bad"]
    /\ unsynced' = {} /\ orphan' = [q \in Pids |-> "none"]
    /\ pc' = "idle" /\ pid' = NoPid /\ answer' = "none"
    /\ UNCHANGED <<site, attempt, staging, notes, damage>>

\* "deleted, tampered with or of another version" (src/README.md:330).
Damage(f) ==
    /\ damage < MaxDamage
    /\ damage' = damage + 1
    /\ \E c \in Content : installed' = [installed EXCEPT ![f] = c]
    /\ touched' = TRUE
    /\ UNCHANGED <<pid, pc, site, attempt, unsynced, archive, staging, orphan, answer,
                   fault, shadow, swept, ran, crashes>>

-----------------------------------------------------------------------------

Init ==
    /\ pid = NoPid /\ pc = "idle" /\ site = "old" /\ attempt = 0 /\ answer = "none"
    /\ installed = Empty /\ unsynced = {}
    /\ archive = [q \in Pids |-> "none"] /\ staging = [q \in Pids |-> NoDir]
    /\ orphan = [q \in Pids |-> "none"]
    /\ fault = FALSE /\ touched = FALSE /\ shadow = FALSE /\ swept = FALSE /\ ran = {}
    /\ crashes = 0 /\ damage = 0

OpStep == \/ CheckLicense \/ CheckBinary \/ CheckVersion
          \/ Directories \/ Sweep \/ Mkdir \/ Download \/ CheckArchive \/ Extract
          \/ RenameLicense \/ RenameBinary \/ DropArchive \/ DropStaging
Outside == \/ Crash \/ PowerLoss
           \/ \E q \in Pids : OrphanWrites(q) \/ OrphanEnds(q)
           \/ \E f \in Files : Flush(f) \/ Damage(f)
Next == OpStep \/ Launch \/ Outside \/ \E p \in Pids : Begin(p)
Spec == Init /\ [][Next]_vars
\* The operation's process is scheduled, and runCapture ends the tools it runs.
FairSpec == Spec /\ WF_vars(OpStep)

-----------------------------------------------------------------------------
(* Properties *)

\* src/README.md:330: nothing is executed that was not verified, by the operation or
\* by start after it, and ensureCore succeeds only over a complete installation,
\* whatever step fails and though orphans of dead operations, with a pid that is
\* used again, write behind its back; as long as nobody else changes the files.
OnlyVerifiedRuns ==
    ~touched => /\ ran \subseteq {"good"}
                /\ answer \in {"installed", "repaired"} => \A f \in Files : installed[f] = "good"

\* No step of a repair, whatever fails in it, replaces a good file by another one;
\* only damage and a loss of power do (core_manager.cpp:302).
NeverWorse == [][\A f \in Files : installed[f] = "good" /\ installed'[f] # "good"
                    => damage' > damage \/ crashes' > crashes]_vars

\* tests/test_core_manager.cpp:108, core_manager.cpp:190: leftovers of an interrupted
\* repair do not block a new one, which fails only for a fault of its own, damage or
\* a live orphan; and a repair that returns, however, leaves none of its own or of
\* earlier ones, unless an orphan still wrote.
LeftoversHarmless ==
    /\ answer = "failed" => fault \/ touched \/ shadow
    /\ pc = "idle" /\ swept /\ answer # "none" /\ ~shadow =>
          \A q \in Pids : archive[q] = "none" /\ staging[q] = NoDir

\* Every operation ends, with at most Attempts downloads.
OperationEnds == [](pc # "idle" => <>(pc = "idle"))
=============================================================================
