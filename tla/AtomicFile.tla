------------------------------ MODULE AtomicFile ------------------------------
(***************************************************************************)
(* writeFileAtomic and readTextFile (src/src/filesystem.cpp) on one file,  *)
(* with the kernel's view of it: inodes whose data reach the disk by fsync *)
(* and a directory whose entries do.  Writers hold the operation lock, so  *)
(* there is one at a time; readers (status, setting) take no lock.         *)
(***************************************************************************)
EXTENDS Naturals, Sequences, FiniteSets

CONSTANTS
    Values,     \* contents that are saved
    Absent,     \* no file
    Chunks,     \* bound: pieces in which a content is written and read
    TempNames,  \* the names temporaryPath can draw
    Target,     \* the name of the file
    Inodes,     \* bound: inodes of the file system
    NoInode,
    MaxCrashes  \* bound: crashes of a writer and losses of power

ASSUME AtomicFileAssumption ==
    /\ Absent \notin Values /\ NoInode \notin Inodes /\ Target \notin TempNames
    /\ Chunks \in Nat \ {0} /\ MaxCrashes \in Nat

Names == TempNames \cup {Target}
Whole(v) == [k \in 1 .. Chunks |-> v]

VARIABLES
    file,       \* the data of an inode, and how much of it is on the disk
    dir,        \* the directory
    onDisk,     \* the directories a loss of power may bring back
    w,          \* the call of writeFileAtomic; before: what it is to replace
    leaked,     \* inodes of descriptors nobody will close
    r,          \* the call of readTextFile; opened: the content of the file it opened
    crashes

vars == <<file, dir, onDisk, w, leaked, r, crashes>>

NoCall == [pc |-> "idle", value |-> Absent, before |-> Absent, temp |-> Target,
           fd |-> NoInode, answer |-> "none"]
NoRead == [pc |-> "idle", fd |-> NoInode, got |-> <<>>, opened |-> Absent, error |-> FALSE]

\* The content of an inode: a value when it is complete, "torn" otherwise.
Content(i) ==
    IF i = NoInode THEN Absent
    ELSE IF \E v \in Values : file[i].data = Whole(v) THEN file[i].data[1] ELSE "torn"
Current == Content(dir[Target])

Free == {i \in Inodes : /\ i \notin leaked \cup {w.fd, r.fd}
                        /\ \A d \in onDisk, n \in Names : d[n] # i}

Relink(d) == dir' = d /\ onDisk' = onDisk \cup {d}
Goto(l)   == w' = [w EXCEPT !.pc = l]
Return(a) == w' = [w EXCEPT !.pc = "idle", !.temp = Target, !.fd = NoInode, !.answer = a]
\* An error path behind the creation: unlink(temporary), failure.
GiveUp    == Relink([dir EXCEPT ![w.temp] = NoInode]) /\ Return("failed")

-----------------------------------------------------------------------------
(* writeFileAtomic *)

Begin(v) ==
    /\ w.pc = "idle"
    /\ w' = [NoCall EXCEPT !.pc = "create", !.value = v, !.before = Current]
    /\ UNCHANGED <<file, dir, onDisk, leaked, r, crashes>>

\* Mutant of Create: the file is opened under its own name and truncated.
CreateInPlace ==
    /\ w.pc = "create"
    /\ \E i \in Free :
        LET j == IF dir[Target] = NoInode THEN i ELSE dir[Target] IN
        /\ file' = [file EXCEPT ![j] = [data |-> <<>>, synced |-> 0]]
        /\ Relink([dir EXCEPT ![Target] = j])
        /\ w' = [w EXCEPT !.pc = "chmod", !.temp = Target, !.fd = j]
    /\ UNCHANGED <<leaked, r, crashes>>

\* O_EXCL: a name that exists is an error, as is anything else open may report.
Create ==
    /\ w.pc = "create"
    /\ \/ \E n \in TempNames, i \in Free :
            /\ dir[n] = NoInode
            /\ file' = [file EXCEPT ![i] = [data |-> <<>>, synced |-> 0]]
            /\ Relink([dir EXCEPT ![n] = i])
            /\ w' = [w EXCEPT !.pc = "chmod", !.temp = n, !.fd = i]
       \/ Return("failed") /\ UNCHANGED <<file, dir, onDisk>>
    /\ UNCHANGED <<leaked, r, crashes>>

Chmod ==
    /\ w.pc = "chmod"
    /\ \/ Goto("write") /\ UNCHANGED <<dir, onDisk>>
       \/ GiveUp
    /\ UNCHANGED <<file, leaked, r, crashes>>

\* One write of the loop: it takes some of what remains, or fails.
Write ==
    /\ w.pc = "write"
    /\ LET n == Len(file[w.fd].data) IN
       \/ \E k \in n + 1 .. Chunks :
            /\ file' = [file EXCEPT ![w.fd].data = [c \in 1 .. k |-> IF c <= n THEN @[c] ELSE w.value]]
            /\ Goto(IF k = Chunks THEN "sync" ELSE "write")
            /\ UNCHANGED <<dir, onDisk>>
       \/ GiveUp /\ UNCHANGED file
    /\ UNCHANGED <<leaked, r, crashes>>

\* Mutant of Sync: close without fsync.
SyncSkipped ==
    /\ w.pc = "sync"
    /\ \/ w' = [w EXCEPT !.pc = "rename", !.fd = NoInode] /\ UNCHANGED <<dir, onDisk>>
       \/ GiveUp
    /\ UNCHANGED <<file, leaked, r, crashes>>

\* fsync and close; a failed fsync skips the close.
Sync ==
    /\ w.pc = "sync"
    /\ \/ /\ file' = [file EXCEPT ![w.fd].synced = Chunks]
          /\ \/ w' = [w EXCEPT !.pc = "rename"] /\ UNCHANGED <<dir, onDisk>>
             \/ GiveUp
          /\ UNCHANGED leaked
       \/ /\ leaked' = leaked \cup {w.fd}
          /\ GiveUp
          /\ UNCHANGED file
    /\ UNCHANGED <<r, crashes>>

\* Mutant of Rename: its failure is not looked at.
RenameUnchecked ==
    /\ w.pc = "rename"
    /\ \/ Relink([dir EXCEPT ![Target] = dir[w.temp], ![w.temp] = NoInode])
       \/ UNCHANGED <<dir, onDisk>>
    /\ Goto("syncdir")
    /\ UNCHANGED <<file, leaked, r, crashes>>

Rename ==
    /\ w.pc = "rename"
    /\ \/ /\ Relink([dir EXCEPT ![Target] = dir[w.temp], ![w.temp] = NoInode])
          /\ Goto("syncdir")
       \/ GiveUp
    /\ UNCHANGED <<file, leaked, r, crashes>>

\* The directory is synced when it can be opened; a failure is not looked at.
SyncDir ==
    /\ w.pc = "syncdir"
    /\ onDisk' \in {onDisk, {dir}}
    /\ Return("ok")
    /\ UNCHANGED <<file, dir, leaked, r, crashes>>

\* RuntimeStateStore::clear, and stop's removal of the configuration.
Clear ==
    /\ w.pc = "idle"
    /\ Relink([dir EXCEPT ![Target] = NoInode])
    /\ w' = NoCall
    /\ UNCHANGED <<file, leaked, r, crashes>>

-----------------------------------------------------------------------------
(* readTextFile *)

Open ==
    /\ r.pc = "idle" /\ dir[Target] # NoInode
    /\ r' = [NoRead EXCEPT !.pc = "read", !.fd = dir[Target], !.opened = Current]
    /\ UNCHANGED <<file, dir, onDisk, w, leaked, crashes>>

\* operator<<(streambuf*) reads until the end; an error ends it too, and leaves
\* the state of `input`, which the next line looks at, alone.
Read ==
    /\ r.pc = "read"
    /\ LET data == file[r.fd].data
           n    == Len(r.got) IN
       \/ \E k \in n + 1 .. Len(data) : r' = [r EXCEPT !.got = @ \o SubSeq(data, n + 1, k)]
       \/ n = Len(data) /\ r' = [r EXCEPT !.pc = "success", !.fd = NoInode]
       \/ r' = [NoRead EXCEPT !.pc = "success", !.got = r.got, !.error = TRUE]
    /\ UNCHANGED <<file, dir, onDisk, w, leaked, crashes>>

ReadReturns ==
    /\ r.pc = "success"
    /\ r' = NoRead
    /\ UNCHANGED <<file, dir, onDisk, w, leaked, crashes>>

-----------------------------------------------------------------------------
(* Accidents *)

\* The writing process dies; the descriptors it leaked go with it.
Crash ==
    /\ crashes < MaxCrashes /\ w.pc # "idle"
    /\ crashes' = crashes + 1
    /\ w' = NoCall
    /\ leaked' = {}
    /\ UNCHANGED <<file, dir, onDisk, r>>

\* Of data not synced any prefix is there, of directory changes not synced any number.
PowerLoss ==
    /\ crashes < MaxCrashes
    /\ crashes' = crashes + 1
    /\ \E d \in onDisk : dir' = d /\ onDisk' = {d}
    /\ \E kept \in [Inodes -> 0 .. Chunks] :
        /\ \A i \in Inodes : kept[i] \in file[i].synced .. Len(file[i].data)
        /\ file' = [i \in Inodes |-> [data |-> SubSeq(file[i].data, 1, kept[i]), synced |-> kept[i]]]
    /\ w' = NoCall /\ r' = NoRead /\ leaked' = {}

-----------------------------------------------------------------------------

Init ==
    /\ file = [i \in Inodes |-> [data |-> <<>>, synced |-> 0]]
    /\ dir = [n \in Names |-> NoInode]
    /\ onDisk = {dir}
    /\ w = NoCall /\ leaked = {} /\ r = NoRead /\ crashes = 0

WriterStep == (\E v \in Values : Begin(v)) \/ Create \/ Chmod \/ Write \/ Sync \/ Rename \/ SyncDir \/ Clear
ReaderStep == Open \/ Read \/ ReadReturns
Next == WriterStep \/ ReaderStep \/ Crash \/ PowerLoss
Spec == Init /\ [][Next]_vars

-----------------------------------------------------------------------------
(* Properties *)

\* writeFileAtomic: success means that the file has the new content, failure that
\* it has the content it had before the call, and no return leaves a temporary
\* file: those that stay behind are of writers that crashed (filesystem.cpp:46-107).
AnswerTrue ==
    /\ w.answer = "ok" => Current = w.value
    /\ w.answer = "failed" => Current = w.before
    /\ w.pc = "idle" => Cardinality({n \in TempNames : dir[n] # NoInode}) <= crashes

\* readTextFile without the lock: what it returns is what the file contained when
\* it was opened, complete, whatever writers do and wherever they crash.  Only an
\* error of a read cuts it short, of which filesystem.cpp:40 does not learn.
ReadsOneContent == r.pc = "success" /\ ~r.error => r.got = Whole(r.opened)

\* The file keeps the promises of DurableFile (writeFileAtomic's order of fsync
\* and rename).
Register == INSTANCE DurableFile WITH
    value <- Current, durable <- {Content(d[Target]) : d \in onDisk}
ImplementsRegister == Register!Spec
=============================================================================
