------------------------- MODULE AtomicFile_proofs -------------------------
(***************************************************************************)
(* Proofs about AtomicFile, for any contents, names, inodes, pieces and    *)
(* number of crashes: writeFileAtomic answers truly, readTextFile returns  *)
(* one content, and the file implements DurableFile.                       *)
(***************************************************************************)
EXTENDS AtomicFile, FiniteSetTheorems, SequenceTheorems, TLAPS

MaybeInode == Inodes \cup {NoInode}
Contents   == Values \cup {Absent, "torn"}
Writing    == {"chmod", "write", "sync", "rename"}   \* the temporary file is this call's
Calls == [pc : {"idle", "create", "syncdir"} \cup Writing, value : Values \cup {Absent},
          before : Contents, temp : Names, fd : MaybeInode, answer : {"none", "ok", "failed"}]
Reads == [pc : {"idle", "read", "success"}, fd : MaybeInode, got : Seq(Values),
          opened : Contents, error : BOOLEAN]
Data  == [data : Seq(Values), synced : 0 .. Chunks]
Dirs  == [Names -> MaybeInode]

\* Every variable holds what the calls and the kernel can make of it.
TypeOK ==
    /\ file \in [Inodes -> Data]
    /\ dir \in Dirs
    /\ onDisk \in SUBSET Dirs /\ dir \in onDisk
    /\ w \in Calls
    /\ leaked \in SUBSET Inodes
    /\ r \in Reads
    /\ crashes \in Nat

Complete(i) == file[i].synced = Chunks /\ \E v \in Values : file[i].data = Whole(v)

\* Whatever directory a loss of power brings back, its target has a whole content that
\* is on the disk: rename comes after fsync.
DiskInv == \A d \in onDisk : d[Target] # NoInode => Complete(d[Target])

\* How far the temporary file of the call is.
DataAt ==
    LET f == file[w.fd] IN
    /\ w.pc = "chmod" => f.data = <<>>
    /\ w.pc = "write" => Len(f.data) <= Chunks /\ \A k \in 1 .. Len(f.data) : f.data[k] = w.value
    /\ w.pc \in {"sync", "rename"} => f.data = Whole(w.value)
    /\ w.pc = "rename" => f.synced = Chunks

\* The call works on an inode that no directory has under the name of the file, and
\* the file has the content of before until it is renamed.
WriterInv ==
    /\ w.pc \in Writing =>
          /\ w.temp \in TempNames /\ w.fd \in Inodes /\ dir[w.temp] = w.fd
          /\ \A d \in onDisk : d[Target] # w.fd
          /\ DataAt
    /\ w.pc = "syncdir" => w.temp \in TempNames /\ dir[w.temp] = NoInode /\ Current = w.value
    /\ w.pc \in {"idle", "create"} => w.temp = Target
    /\ w.pc # "idle" => w.value \in Values /\ w.answer = "none"
    /\ w.pc \in Writing \cup {"create"} => Current = w.before
    /\ w.answer = "ok" => Current = w.value
    /\ w.answer = "failed" => Current = w.before

\* The reader has an inode open whose content is whole and that nobody writes to.
ReaderInv ==
    /\ r.pc = "read" =>
          /\ r.fd \in Inodes /\ r.opened \in Values /\ file[r.fd].data = Whole(r.opened)
          /\ w.pc \in Writing => w.fd # r.fd
          /\ Len(r.got) <= Chunks /\ \A k \in 1 .. Len(r.got) : r.got[k] = r.opened
    /\ r.pc = "success" /\ ~r.error => r.got = Whole(r.opened)

\* The temporary files of a directory.
Temps(d) == {n \in TempNames : d[n] # NoInode}

\* Of these, all but the one of the call at work are of writers that crashed.
TempInv ==
    /\ \A d \in onDisk : IsFiniteSet(Temps(d)) /\ Cardinality(Temps(d)) <= crashes + 1
    /\ Cardinality(Temps(dir) \ {w.temp}) <= crashes

FileInv == TypeOK /\ DiskInv /\ WriterInv /\ ReaderInv /\ TempInv

-----------------------------------------------------------------------------
(* Contents *)

\* A whole content is a sequence of equal pieces, and the only one of its length.
LEMMA WholeSequence ==
    /\ \A v \in Values : Whole(v) \in Seq(Values)
    /\ \A v : Len(Whole(v)) = Chunks
    /\ \A v : \A k \in 1 .. Chunks : Whole(v)[k] = v
    /\ \A s \in Seq(Values), v \in Values :
          Len(s) = Chunks /\ (\A k \in 1 .. Len(s) : s[k] = v) => s = Whole(v)
<1>1. Chunks \in Nat /\ Chunks # 0 BY AtomicFileAssumption
<1>2. \A s \in Seq(Values), v \in Values :
         Len(s) = Chunks /\ (\A k \in 1 .. Len(s) : s[k] = v) => s = Whole(v)
  <2> SUFFICES ASSUME NEW s \in Seq(Values), NEW v \in Values,
                      Len(s) = Chunks, \A k \in 1 .. Len(s) : s[k] = v
               PROVE  s = Whole(v)
      OBVIOUS
  <2>1. s = [k \in 1 .. Chunks |-> s[k]] OBVIOUS
  <2> QED BY <2>1 DEF Whole
<1> QED BY <1>1, <1>2 DEF Whole

\* An inode with a whole content shows it, before and after a step.
LEMMA ContentIs ==
    ASSUME NEW i \in Inodes, NEW v \in Values
    PROVE  /\ file[i].data = Whole(v) => Content(i) = v
           /\ file'[i].data = Whole(v) => Content(i)' = v
<1>1. i # NoInode /\ Whole(v)[1] = v BY AtomicFileAssumption, WholeSequence
<1> QED BY <1>1 DEF Content

\* The content depends on the data of the inode alone.
LEMMA ContentKept ==
    ASSUME NEW i, i # NoInode => file'[i].data = file[i].data
    PROVE  Content(i)' = Content(i)
BY DEF Content

\* A content is a value, nothing or torn.
LEMMA ContentType ==
    ASSUME NEW i \in MaybeInode
    PROVE  Content(i) \in Contents
<1>1. ASSUME NEW v \in Values, file[i].data = Whole(v), i # NoInode PROVE Content(i) \in Contents
      BY <1>1, ContentIs DEF MaybeInode, Contents
<1> QED BY <1>1 DEF Content, Contents

\* The refinement mapping.
Durable == {Content(d[Target]) : d \in onDisk}

\* Where no inode changes that is the target of a directory, all targets keep their
\* contents, and what is complete stays so.
LEMMA TargetsKept ==
    ASSUME TypeOK, DiskInv,
           \A d \in onDisk : d[Target] # NoInode => file'[d[Target]] = file[d[Target]]
    PROVE  \A d \in onDisk : /\ Content(d[Target])' = Content(d[Target])
                             /\ d[Target] # NoInode => Complete(d[Target])'
<1> SUFFICES ASSUME NEW d \in onDisk
             PROVE  /\ Content(d[Target])' = Content(d[Target])
                    /\ d[Target] # NoInode => Complete(d[Target])'
    OBVIOUS
<1>1. Content(d[Target])' = Content(d[Target]) BY ContentKept
<1>2. d[Target] # NoInode => Complete(d[Target])' BY DEF DiskInv, Complete
<1> QED BY <1>1, <1>2

\* A change of the directory that leaves the target where it is shows nothing new.
LEMMA RelinkKeeps ==
    ASSUME TypeOK, DiskInv,
           \A d \in onDisk : d[Target] # NoInode => file'[d[Target]] = file[d[Target]],
           NEW d1 \in Dirs, Relink(d1), d1[Target] = dir[Target]
    PROVE  /\ dir' \in Dirs /\ onDisk' \in SUBSET Dirs /\ dir' \in onDisk'
           /\ DiskInv'
           /\ Current' = Current /\ Durable' = Durable
<1>1. dir' = d1 /\ onDisk' = onDisk \cup {d1} BY DEF Relink
<1>2. dir \in onDisk /\ onDisk \in SUBSET Dirs BY DEF TypeOK
<1>3. \A d \in onDisk : /\ Content(d[Target])' = Content(d[Target])
                        /\ d[Target] # NoInode => Complete(d[Target])'
      BY TargetsKept
<1>4. DiskInv' BY <1>1, <1>2, <1>3 DEF DiskInv
<1>5. Current' = Current BY <1>1, <1>2, <1>3 DEF Current
<1>6. Durable' = Durable
  <2>1. \A x : x \in Durable' <=> \E d \in onDisk : x = Content(d[Target])'
        BY <1>1, <1>2 DEF Durable
  <2>2. \A x : x \in Durable <=> \E d \in onDisk : x = Content(d[Target])
        BY DEF Durable
  <2>3. \A x : (\E d \in onDisk : x = Content(d[Target])') <=> (\E d \in onDisk : x = Content(d[Target]))
        BY <1>3
  <2>4. \A x : x \in Durable' <=> x \in Durable BY <2>1, <2>2, <2>3
  <2> QED BY <2>4
<1> QED BY <1>1, <1>2, <1>4, <1>5, <1>6

\* So does a step that leaves the directory alone.
LEMMA NoRelinkKeeps ==
    ASSUME TypeOK, DiskInv, UNCHANGED <<dir, onDisk>>,
           \A d \in onDisk : d[Target] # NoInode => file'[d[Target]] = file[d[Target]]
    PROVE  /\ dir' \in Dirs /\ onDisk' \in SUBSET Dirs /\ dir' \in onDisk'
           /\ DiskInv'
           /\ Current' = Current /\ Durable' = Durable
<1>1. dir \in onDisk /\ onDisk \in SUBSET Dirs BY DEF TypeOK
<1>2. \A d \in onDisk : /\ Content(d[Target])' = Content(d[Target])
                        /\ d[Target] # NoInode => Complete(d[Target])'
      BY TargetsKept
<1>3. Relink(dir) BY <1>1 DEF Relink
<1> QED BY <1>1, <1>3, RelinkKeeps

-----------------------------------------------------------------------------
(* The writer's record *)

\* Returning resets all but what the call was about.
LEMMA ReturnIs ==
    ASSUME w \in Calls, NEW a \in {"ok", "failed"}, Return(a)
    PROVE  /\ w' \in Calls
           /\ w'.pc = "idle" /\ w'.temp = Target /\ w'.answer = a
           /\ w'.value = w.value /\ w'.before = w.before
BY DEF Calls, Return, Names, MaybeInode

\* A jump changes nothing else.
LEMMA GotoIs ==
    ASSUME w \in Calls, NEW l \in Writing \cup {"syncdir"}, Goto(l)
    PROVE  /\ w' \in Calls /\ w'.pc = l
           /\ w'.temp = w.temp /\ w'.fd = w.fd /\ w'.answer = w.answer
           /\ w'.value = w.value /\ w'.before = w.before
BY DEF Calls, Goto

\* When the call's temporary file is gone from the directory, or was not there, only
\* those of crashed writers are left.
LEMMA TempsGone ==
    ASSUME TypeOK, TempInv, NEW d1, Temps(d1) = Temps(dir) \ {w.temp},
           dir' = d1, onDisk' \subseteq onDisk \cup {d1}, w'.temp = Target, crashes' = crashes
    PROVE  TempInv'
<1>1. IsFiniteSet(Temps(dir)) /\ crashes \in Nat BY DEF TypeOK, TempInv
<1>2. IsFiniteSet(Temps(d1)) BY <1>1, FS_RemoveElement
<1>3. Cardinality(Temps(d1)) <= crashes BY DEF TempInv
<1>4. Cardinality(Temps(d1)) \in Nat BY <1>2, FS_CardinalityType
<1>5. Temps(d1) \ {Target} = Temps(d1) BY AtomicFileAssumption DEF Temps
<1>6. \A d \in onDisk' : IsFiniteSet(Temps(d)) /\ Cardinality(Temps(d)) <= crashes + 1
      BY <1>1, <1>2, <1>3, <1>4 DEF TempInv
<1>7. Temps(dir') \ {w'.temp} = Temps(d1) BY <1>5
<1>8. Cardinality(Temps(dir') \ {w'.temp}) <= crashes BY <1>3, <1>7
<1> QED BY <1>6, <1>8 DEF TempInv

\* What a step shows of the file: nothing.
Unseen == Current' = Current /\ Durable' = Durable

\* What fsync leaves of an inode: its data.
LEMMA SyncedIs ==
    ASSUME NEW f \in Data
    PROVE  /\ [f EXCEPT !.synced = Chunks] \in Data
           /\ [f EXCEPT !.synced = Chunks].data = f.data
<1>1. Chunks \in 0 .. Chunks BY AtomicFileAssumption
<1> QED BY <1>1 DEF Data

\* An error behind the creation: the temporary file goes, the file stays.
LEMMA GiveUpStep ==
    ASSUME FileInv, w.pc \in Writing, GiveUp,
           file' = file \/ file' = [file EXCEPT ![w.fd].synced = Chunks],
           leaked' \in SUBSET Inodes, UNCHANGED <<r, crashes>>
    PROVE  FileInv' /\ Unseen
<1> DEFINE d1 == [dir EXCEPT ![w.temp] = NoInode]
<1>a. /\ TypeOK /\ DiskInv /\ WriterInv /\ ReaderInv /\ TempInv
      /\ w \in Calls /\ Chunks \in Nat /\ Target \notin TempNames
      BY AtomicFileAssumption DEF FileInv, TypeOK
<1>b. /\ w.temp \in TempNames /\ w.fd \in Inodes
      /\ \A d \in onDisk : d[Target] # w.fd
      /\ Current = w.before /\ w.answer = "none"
      BY <1>a DEF WriterInv, Writing
<1>c. dir \in Dirs /\ dir \in onDisk BY <1>a DEF TypeOK
<1>1. Relink(d1) /\ Return("failed") BY DEF GiveUp
<1>2. /\ w' \in Calls /\ w'.pc = "idle" /\ w'.temp = Target /\ w'.answer = "failed"
      /\ w'.before = w.before
      BY <1>a, <1>1, ReturnIs
<1>3. d1 \in Dirs /\ d1[Target] = dir[Target]
      BY <1>a, <1>b, <1>c DEF Dirs, MaybeInode, Names
<1>4. \A d \in onDisk : d[Target] # NoInode => file'[d[Target]] = file[d[Target]]
  <2>1. \A d \in onDisk : d[Target] # NoInode => d[Target] \in Inodes \ {w.fd}
        BY <1>a, <1>b DEF TypeOK, Dirs, Names, MaybeInode
  <2> QED BY <1>a, <2>1 DEF TypeOK
<1>5. dir' \in Dirs /\ onDisk' \in SUBSET Dirs /\ dir' \in onDisk' /\ DiskInv' /\ Unseen
      BY <1>a, <1>1, <1>3, <1>4, RelinkKeeps DEF Unseen
<1>6. /\ file' \in [Inodes -> Data]
      /\ \A i \in Inodes : file'[i].data = file[i].data
  <2>1. file \in [Inodes -> Data] /\ file[w.fd] \in Data BY <1>a, <1>b DEF TypeOK
  <2>2. /\ [file[w.fd] EXCEPT !.synced = Chunks] \in Data
        /\ [file[w.fd] EXCEPT !.synced = Chunks].data = file[w.fd].data
        BY <2>1, SyncedIs
  <2>3. \/ file' = file
        \/ file' = [file EXCEPT ![w.fd] = [file[w.fd] EXCEPT !.synced = Chunks]]
        BY <2>1
  <2> QED BY <1>b, <2>1, <2>2, <2>3
<1>7. TypeOK' BY <1>a, <1>2, <1>5, <1>6 DEF TypeOK
<1>8. WriterInv' BY <1>b, <1>2, <1>5 DEF WriterInv, Writing, Unseen
<1>9. ReaderInv' BY <1>a, <1>2, <1>6 DEF ReaderInv, Writing
<1>10. TempInv'
  <2>1. Temps(d1) = Temps(dir) \ {w.temp} BY <1>b, <1>c DEF Temps, Dirs, Names
  <2> HIDE DEF d1
  <2> QED BY <1>a, <1>1, <1>2, <1>3, <2>1, TempsGone DEF Relink
<1> QED BY <1>5, <1>7, <1>8, <1>9, <1>10 DEF FileInv

\* The writer goes on with its temporary file: nobody else can have it open, or find
\* it under the name of the file.
LEMMA AdvanceStep ==
    ASSUME FileInv, w.pc \in Writing, NEW l \in Writing, Goto(l),
           NEW f \in Data, file' = [file EXCEPT ![w.fd] = f], DataAt',
           UNCHANGED <<dir, onDisk, leaked, r, crashes>>
    PROVE  FileInv' /\ Unseen
<1>a. /\ TypeOK /\ DiskInv /\ WriterInv /\ ReaderInv /\ TempInv /\ w \in Calls
      BY DEF FileInv, TypeOK
<1>b. /\ w.temp \in TempNames /\ w.fd \in Inodes /\ dir[w.temp] = w.fd
      /\ \A d \in onDisk : d[Target] # w.fd
      /\ Current = w.before /\ w.answer = "none" /\ w.value \in Values
      BY <1>a DEF WriterInv, Writing
<1>1. /\ w' \in Calls /\ w'.pc = l /\ w'.temp = w.temp /\ w'.fd = w.fd
      /\ w'.answer = w.answer /\ w'.value = w.value /\ w'.before = w.before
      BY <1>a, GotoIs
<1>2. \A d \in onDisk : d[Target] # NoInode => file'[d[Target]] = file[d[Target]]
  <2>1. \A d \in onDisk : d[Target] # NoInode => d[Target] \in Inodes \ {w.fd}
        BY <1>a, <1>b DEF TypeOK, Dirs, Names, MaybeInode
  <2> QED BY <1>a, <2>1 DEF TypeOK
<1>3. dir' \in Dirs /\ onDisk' \in SUBSET Dirs /\ dir' \in onDisk' /\ DiskInv' /\ Unseen
      BY <1>a, <1>2, NoRelinkKeeps DEF Unseen
<1>4. file' \in [Inodes -> Data] /\ \A i \in Inodes \ {w.fd} : file'[i] = file[i]
      BY <1>a, <1>b DEF TypeOK
<1>5. TypeOK' BY <1>a, <1>1, <1>3, <1>4 DEF TypeOK
<1>6. WriterInv' BY <1>b, <1>1, <1>3 DEF WriterInv, Writing, Unseen
<1>7. ReaderInv' BY <1>a, <1>1, <1>4 DEF ReaderInv
<1>8. TempInv' BY <1>a, <1>1 DEF TempInv
<1> QED BY <1>3, <1>5, <1>6, <1>7, <1>8 DEF FileInv

-----------------------------------------------------------------------------
(* writeFileAtomic *)

\* The beginning of a call notes what the file contains.
LEMMA BeginStep ==
    ASSUME FileInv, NEW v \in Values, Begin(v)
    PROVE  FileInv' /\ Unseen
<1>a. /\ TypeOK /\ DiskInv /\ WriterInv /\ ReaderInv /\ TempInv /\ w.pc = "idle"
      BY DEF FileInv, Begin
<1>1. Current \in Contents
  <2>1. dir[Target] \in MaybeInode BY <1>a DEF TypeOK, Dirs, Names
  <2> QED BY <2>1, ContentType DEF Current
<1>2. w' = [NoCall EXCEPT !.pc = "create", !.value = v, !.before = Current] BY DEF Begin
<1>3. /\ w'.pc = "create" /\ w'.value = v /\ w'.before = Current /\ w'.temp = Target
      /\ w'.answer = "none" /\ w'.fd = NoInode
      BY <1>2 DEF NoCall
<1>4. w' \in Calls BY <1>1, <1>2 DEF NoCall, Calls, Names, MaybeInode
<1>5. UNCHANGED <<file, dir, onDisk, leaked, r, crashes>> BY DEF Begin
<1>6. Unseen /\ DiskInv' BY <1>a, <1>5, NoRelinkKeeps DEF Unseen
<1>7. TypeOK' BY <1>a, <1>4, <1>5 DEF TypeOK
<1>8. WriterInv' BY <1>3, <1>6 DEF WriterInv, Writing, Unseen
<1>9. ReaderInv' BY <1>a, <1>3, <1>5 DEF ReaderInv, Writing
<1>10. TempInv'
  <2>1. Temps(dir) = Temps(dir) \ {w.temp}
        BY <1>a, AtomicFileAssumption DEF Temps, WriterInv
  <2> QED BY <1>a, <1>3, <1>5, <2>1, TempsGone
<1> QED BY <1>6, <1>7, <1>8, <1>9, <1>10 DEF FileInv

\* A return from a point where the call has no temporary file.
LEMMA ReturnStep ==
    ASSUME FileInv, NEW a \in {"ok", "failed"}, Return(a),
           w.pc \in {"create", "syncdir"}, a = "ok" <=> w.pc = "syncdir",
           UNCHANGED <<file, dir, leaked, r, crashes>>, onDisk' \in {onDisk, {dir}}
    PROVE  FileInv' /\ Current' = Current
<1>a. /\ TypeOK /\ DiskInv /\ WriterInv /\ ReaderInv /\ TempInv /\ w \in Calls
      BY DEF FileInv, TypeOK
<1>1. /\ w' \in Calls /\ w'.pc = "idle" /\ w'.temp = Target /\ w'.answer = a
      /\ w'.value = w.value /\ w'.before = w.before
      BY <1>a, ReturnIs
<1>2. Current' = Current BY DEF Current, Content
<1>3. onDisk' \subseteq onDisk /\ dir \in onDisk' BY <1>a DEF TypeOK
<1>4. DiskInv' BY <1>a, <1>3 DEF DiskInv, Complete
<1>5. TypeOK' BY <1>a, <1>1, <1>3 DEF TypeOK
<1>6. WriterInv' BY <1>a, <1>1, <1>2 DEF WriterInv, Writing
<1>7. ReaderInv' BY <1>a, <1>1 DEF ReaderInv, Writing
<1>8. TempInv'
  <2>1. Temps(dir) = Temps(dir) \ {w.temp}
        BY <1>a, AtomicFileAssumption DEF Temps, WriterInv
  <2> QED BY <1>a, <1>1, <1>3, <2>1, TempsGone
<1> QED BY <1>2, <1>4, <1>5, <1>6, <1>7, <1>8 DEF FileInv

\* The temporary file is made of a free inode under a free name.
LEMMA CreateStep ==
    ASSUME FileInv, Create
    PROVE  FileInv' /\ Unseen
<1>a. /\ TypeOK /\ DiskInv /\ WriterInv /\ ReaderInv /\ TempInv /\ w.pc = "create"
      /\ w \in Calls /\ Target \notin TempNames /\ Chunks \in Nat
      BY AtomicFileAssumption DEF FileInv, Create, TypeOK
<1>b. /\ w.temp = Target /\ w.value \in Values /\ w.answer = "none" /\ Current = w.before
      BY <1>a DEF WriterInv
<1>1. CASE Return("failed") /\ UNCHANGED <<file, dir, onDisk>>
  <2>1. UNCHANGED <<leaked, r, crashes>> BY DEF Create
  <2>2. FileInv' BY <1>a, <1>1, <2>1, ReturnStep
  <2>3. Unseen BY <1>1 DEF Unseen, Current, Content, Durable
  <2> QED BY <2>2, <2>3
<1>2. CASE ~(Return("failed") /\ UNCHANGED <<file, dir, onDisk>>)
  <2>1. PICK n \in TempNames, i \in Free :
           /\ dir[n] = NoInode
           /\ file' = [file EXCEPT ![i] = [data |-> <<>>, synced |-> 0]]
           /\ Relink([dir EXCEPT ![n] = i])
           /\ w' = [w EXCEPT !.pc = "chmod", !.temp = n, !.fd = i]
        BY <1>2 DEF Create
  <2>2. UNCHANGED <<leaked, r, crashes>> BY DEF Create
  <2> DEFINE d1 == [dir EXCEPT ![n] = i]
  <2>3. i \in Inodes /\ i # r.fd /\ \A d \in onDisk, m \in Names : d[m] # i BY DEF Free
  <2>4. dir \in Dirs /\ dir \in onDisk BY <1>a DEF TypeOK
  <2>5. d1 \in Dirs /\ d1[Target] = dir[Target] /\ d1[n] = i
        BY <1>a, <2>3, <2>4 DEF Dirs, MaybeInode, Names
  <2>6. /\ file' \in [Inodes -> Data] /\ file'[i].data = <<>>
        /\ \A j \in Inodes \ {i} : file'[j] = file[j]
    <3>1. [data |-> <<>>, synced |-> 0] \in Data BY <1>a DEF Data
    <3> QED BY <1>a, <2>1, <2>3, <3>1 DEF TypeOK
  <2>7. \A d \in onDisk : d[Target] # NoInode => file'[d[Target]] = file[d[Target]]
    <3>1. \A d \in onDisk : d[Target] # NoInode => d[Target] \in Inodes \ {i}
          BY <1>a, <2>3 DEF TypeOK, Dirs, Names, MaybeInode
    <3> QED BY <2>6, <3>1
  <2>8. dir' \in Dirs /\ onDisk' \in SUBSET Dirs /\ dir' \in onDisk' /\ DiskInv' /\ Unseen
        BY <1>a, <2>1, <2>5, <2>7, RelinkKeeps DEF Unseen
  <2>9. /\ w'.pc = "chmod" /\ w'.temp = n /\ w'.fd = i /\ w'.value = w.value
        /\ w'.before = w.before /\ w'.answer = w.answer
        BY <1>a, <2>1 DEF Calls
  <2>10. w' \in Calls BY <1>a, <2>1, <2>3 DEF Calls, Names, MaybeInode, Writing
  <2>11. TypeOK' BY <1>a, <2>2, <2>6, <2>8, <2>10 DEF TypeOK
  <2>12. dir' = d1 /\ onDisk' = onDisk \cup {d1} BY <2>1 DEF Relink
  <2>13. WriterInv'
    <3>1. \A d \in onDisk' : d[Target] # i BY <1>a, <2>3, <2>4, <2>5, <2>12 DEF Names
    <3>2. DataAt' BY <2>6, <2>9 DEF DataAt
    <3> QED BY <1>b, <2>3, <2>5, <2>8, <2>9, <2>12, <3>1, <3>2 DEF WriterInv, Writing, Unseen
  <2>14. ReaderInv'
    <3>1. r.pc = "read" => file'[r.fd] = file[r.fd] BY <1>a, <2>3, <2>6 DEF ReaderInv
    <3> QED BY <1>a, <2>2, <2>3, <2>9, <3>1 DEF ReaderInv
  <2>15. TempInv'
    <3>1. Temps(d1) = Temps(dir) \cup {n} /\ n \notin Temps(dir) /\ Temps(d1) \ {n} = Temps(dir)
      <4>1. i # NoInode BY <2>3, AtomicFileAssumption
      <4> QED BY <2>1, <2>4, <4>1 DEF Temps, Dirs, Names
    <3>2. Temps(dir) \ {w.temp} = Temps(dir) BY <1>a, <1>b DEF Temps
    <3>3. IsFiniteSet(Temps(dir)) /\ Cardinality(Temps(dir)) <= crashes
          BY <1>a, <2>4, <3>2 DEF TempInv
    <3> HIDE DEF d1
    <3>4. IsFiniteSet(Temps(d1)) /\ Cardinality(Temps(d1)) = Cardinality(Temps(dir)) + 1
          BY <3>1, <3>3, FS_AddElement
    <3>5. Cardinality(Temps(dir)) \in Nat /\ crashes \in Nat
          BY <1>a, <3>3, FS_CardinalityType DEF TypeOK
    <3>6. Cardinality(Temps(dir') \ {w'.temp}) <= crashes BY <2>9, <2>12, <3>1, <3>3
    <3>7. \A d \in onDisk' : IsFiniteSet(Temps(d)) /\ Cardinality(Temps(d)) <= crashes + 1
          BY <1>a, <2>12, <3>3, <3>4, <3>5 DEF TempInv
    <3> QED BY <2>2, <3>6, <3>7 DEF TempInv
  <2> QED BY <2>8, <2>11, <2>13, <2>14, <2>15 DEF FileInv
<1> QED BY <1>1, <1>2

\* fchmod and fchown.
LEMMA ChmodStep ==
    ASSUME FileInv, Chmod
    PROVE  FileInv' /\ Unseen
<1>a. /\ TypeOK /\ WriterInv /\ w.pc = "chmod" /\ w.pc \in Writing /\ w \in Calls
      /\ Chunks \in Nat /\ w.fd \in Inodes
      BY AtomicFileAssumption DEF FileInv, Chmod, TypeOK, Writing, WriterInv
<1>1. CASE GiveUp BY <1>1, <1>a, GiveUpStep DEF Chmod, TypeOK
<1>2. CASE Goto("write") /\ UNCHANGED <<dir, onDisk>>
  <2>1. file' = [file EXCEPT ![w.fd] = file[w.fd]] /\ file[w.fd] \in Data
        BY <1>a DEF Chmod, TypeOK
  <2>2. DataAt'
    <3>1. w'.pc = "write" /\ w'.fd = w.fd BY <1>a, <1>2, GotoIs DEF Writing
    <3>2. file'[w.fd].data = <<>> BY <1>a DEF Chmod, WriterInv, DataAt
    <3> QED BY <1>a, <3>1, <3>2 DEF DataAt
  <2>3. "write" \in Writing BY DEF Writing
  <2> QED BY <1>a, <1>2, <2>1, <2>2, <2>3, AdvanceStep DEF Chmod
<1> QED BY <1>1, <1>2 DEF Chmod

\* The loop of write: what is there stays, and the rest is more of the same.
LEMMA WriteStep ==
    ASSUME FileInv, Write
    PROVE  FileInv' /\ Unseen
<1>a. /\ TypeOK /\ WriterInv /\ w.pc = "write" /\ w.pc \in Writing /\ w \in Calls
      /\ Chunks \in Nat \ {0} /\ w.fd \in Inodes /\ w.value \in Values
      BY AtomicFileAssumption DEF FileInv, Write, TypeOK, Writing, WriterInv
<1>1. CASE GiveUp /\ UNCHANGED file BY <1>1, <1>a, GiveUpStep DEF Write, TypeOK
<1>2. CASE ~(GiveUp /\ UNCHANGED file)
  <2> DEFINE s == file[w.fd].data
  <2>1. s \in Seq(Values) /\ file[w.fd] \in Data BY <1>a DEF TypeOK, Data
  <2>2. PICK k \in Len(s) + 1 .. Chunks :
           /\ file' = [file EXCEPT ![w.fd].data =
                          [c \in 1 .. k |-> IF c <= Len(s) THEN @[c] ELSE w.value]]
           /\ Goto(IF k = Chunks THEN "sync" ELSE "write")
           /\ UNCHANGED <<dir, onDisk>>
        BY <1>2 DEF Write
  <2> DEFINE t == [c \in 1 .. k |-> IF c <= Len(s) THEN s[c] ELSE w.value]
             f == [file[w.fd] EXCEPT !.data = t]
  <2>3. \A c \in 1 .. Len(s) : s[c] = w.value BY <1>a DEF WriterInv, DataAt
  <2>4. k \in 1 .. Chunks BY <2>1, <2>2
  <2>5. t \in Seq(Values) /\ Len(t) = k /\ \A c \in 1 .. Len(t) : t[c] = w.value
        BY <1>a, <2>1, <2>3, <2>4
  <2>6. file' = [file EXCEPT ![w.fd] = f] BY <2>2
  <2>7. f \in Data /\ f.data = t BY <2>1, <2>5 DEF Data
  <2>8. file'[w.fd] = f BY <1>a, <2>6 DEF TypeOK
  <2> DEFINE l == IF k = Chunks THEN "sync" ELSE "write"
  <2>9. l \in Writing BY DEF Writing
  <2>10. w'.pc = l /\ w'.fd = w.fd /\ w'.value = w.value BY <1>a, <2>2, <2>9, GotoIs
  <2>11. k = Chunks => t = Whole(w.value) BY <1>a, <2>5, WholeSequence
  <2> HIDE DEF t, f
  <2>12. DataAt' BY <2>4, <2>5, <2>7, <2>8, <2>10, <2>11 DEF DataAt
  <2>13. UNCHANGED <<dir, onDisk, leaked, r, crashes>> BY <2>2 DEF Write
  <2> QED BY <1>a, <2>2, <2>6, <2>7, <2>9, <2>12, <2>13, AdvanceStep
<1> QED BY <1>1, <1>2

\* fsync and close.
LEMMA SyncStep ==
    ASSUME FileInv, Sync
    PROVE  FileInv' /\ Unseen
<1>a. /\ TypeOK /\ WriterInv /\ w.pc = "sync" /\ w.pc \in Writing /\ w \in Calls
      /\ Chunks \in Nat /\ w.fd \in Inodes
      BY AtomicFileAssumption DEF FileInv, Sync, TypeOK, Writing, WriterInv
<1>b. UNCHANGED <<r, crashes>> BY DEF Sync
<1>1. CASE GiveUp
  <2>1. file' = file \/ file' = [file EXCEPT ![w.fd].synced = Chunks] BY <1>1, <1>a DEF Sync
  <2>2. leaked' \in SUBSET Inodes BY <1>a DEF Sync, TypeOK
  <2> QED BY <1>1, <1>a, <1>b, <2>1, <2>2, GiveUpStep
<1>2. CASE ~GiveUp
  <2> DEFINE f == [file[w.fd] EXCEPT !.synced = Chunks]
  <2>1. /\ file' = [file EXCEPT ![w.fd] = f] /\ UNCHANGED <<dir, onDisk, leaked>>
        /\ w' = [w EXCEPT !.pc = "rename"]
        BY <1>2 DEF Sync
  <2>2. file[w.fd] \in Data BY <1>a DEF TypeOK
  <2>3. f \in Data /\ f.synced = Chunks /\ f.data = file[w.fd].data BY <1>a, <2>2 DEF Data
  <2>4. Goto("rename") /\ "rename" \in Writing BY <2>1 DEF Goto, Writing
  <2>5. file'[w.fd] = f BY <1>a, <2>1 DEF TypeOK
  <2>6. DataAt'
    <3>1. w'.pc = "rename" /\ w'.fd = w.fd /\ w'.value = w.value BY <1>a, <2>4, GotoIs
    <3>2. f.data = Whole(w.value) BY <1>a, <2>3 DEF WriterInv, DataAt
    <3> QED BY <2>3, <2>5, <3>1, <3>2 DEF DataAt
  <2> HIDE DEF f
  <2> QED BY <1>a, <1>b, <2>1, <2>3, <2>4, <2>6, AdvanceStep
<1> QED BY <1>1, <1>2

\* A change of the directory that gives the target something complete, or nothing, is a
\* write of that content.
LEMMA RelinkReplaces ==
    ASSUME TypeOK, DiskInv, UNCHANGED file, NEW d1 \in Dirs, Relink(d1),
           d1[Target] # NoInode => Complete(d1[Target])
    PROVE  /\ dir' \in Dirs /\ onDisk' \in SUBSET Dirs /\ dir' \in onDisk'
           /\ DiskInv'
           /\ Current' = Content(d1[Target]) /\ Durable' = Durable \cup {Content(d1[Target])}
<1>1. dir' = d1 /\ onDisk' = onDisk \cup {d1} BY DEF Relink
<1>2. dir \in onDisk /\ onDisk \in SUBSET Dirs BY DEF TypeOK
<1>3. DiskInv' BY <1>1 DEF DiskInv, Complete
<1>4. Current' = Content(d1[Target]) BY <1>1 DEF Current, Content
<1>5. Durable' = Durable \cup {Content(d1[Target])}
  <2>1. \A i : Content(i)' = Content(i) BY DEF Content
  <2>2. \A x : x \in Durable' <=> \E d \in onDisk \cup {d1} : x = Content(d[Target])
        BY <1>1, <2>1 DEF Durable
  <2>3. \A x : x \in Durable <=> \E d \in onDisk : x = Content(d[Target])
        BY DEF Durable
  <2> QED BY <2>2, <2>3
<1> QED BY <1>1, <1>2, <1>3, <1>4, <1>5

\* The rename shows the new content all at once, or fails.
LEMMA RenameStep ==
    ASSUME FileInv, Rename
    PROVE  FileInv' /\ (Unseen \/ \E v \in Values : Register!Write(v))
<1>a. /\ TypeOK /\ DiskInv /\ WriterInv /\ ReaderInv /\ TempInv
      /\ w.pc = "rename" /\ w.pc \in Writing /\ w \in Calls /\ Target \notin TempNames
      /\ dir \in Dirs /\ dir \in onDisk
      BY AtomicFileAssumption DEF FileInv, Rename, TypeOK, Writing
<1>b. UNCHANGED <<file, leaked, r, crashes>> BY DEF Rename
<1>c. /\ w.temp \in TempNames /\ w.fd \in Inodes /\ dir[w.temp] = w.fd
      /\ w.value \in Values /\ w.answer = "none"
      /\ file[w.fd].data = Whole(w.value) /\ file[w.fd].synced = Chunks
      BY <1>a DEF WriterInv, DataAt
<1>1. CASE GiveUp
  <2>1. leaked' \in SUBSET Inodes BY <1>a, <1>b DEF TypeOK
  <2> QED BY <1>1, <1>a, <1>b, <2>1, GiveUpStep
<1>2. CASE ~GiveUp
  <2> DEFINE d1 == [dir EXCEPT ![Target] = dir[w.temp], ![w.temp] = NoInode]
  <2>1. Relink(d1) /\ Goto("syncdir") BY <1>2 DEF Rename
  <2>2. d1 \in Dirs /\ d1[Target] = w.fd /\ d1[w.temp] = NoInode
        BY <1>a, <1>c DEF Dirs, Names, MaybeInode
  <2>3. Complete(w.fd) BY <1>c DEF Complete
  <2>4. Content(w.fd) = w.value BY <1>c, ContentIs
  <2>5. Temps(d1) = Temps(dir) \ {w.temp} BY <1>a, <1>c DEF Temps, Dirs, Names
  <2> HIDE DEF d1
  <2>6. /\ dir' \in Dirs /\ onDisk' \in SUBSET Dirs /\ dir' \in onDisk' /\ DiskInv'
        /\ Current' = w.value /\ Durable' = Durable \cup {w.value}
        BY <1>a, <1>b, <2>1, <2>2, <2>3, <2>4, RelinkReplaces
  <2>7. dir' = d1 /\ onDisk' = onDisk \cup {d1} BY <2>1 DEF Relink
  <2>8. /\ w' \in Calls /\ w'.pc = "syncdir" /\ w'.temp = w.temp /\ w'.value = w.value
        /\ w'.answer = w.answer
        BY <1>a, <2>1, GotoIs
  <2>9. TypeOK' BY <1>a, <1>b, <2>6, <2>8 DEF TypeOK
  <2>10. WriterInv' BY <1>c, <2>2, <2>6, <2>7, <2>8 DEF WriterInv, Writing
  <2>11. ReaderInv' BY <1>a, <1>b, <2>8 DEF ReaderInv, Writing
  <2>12. TempInv'
    <3>1. IsFiniteSet(Temps(dir)) /\ crashes \in Nat BY <1>a DEF TypeOK, TempInv
    <3>2. IsFiniteSet(Temps(d1)) BY <2>5, <3>1, FS_RemoveElement
    <3>3. Cardinality(Temps(d1)) <= crashes BY <1>a, <2>5 DEF TempInv
    <3>4. Cardinality(Temps(d1)) \in Nat BY <3>2, FS_CardinalityType
    <3>5. Temps(dir') \ {w'.temp} = Temps(d1) BY <2>5, <2>7, <2>8
    <3>6. Cardinality(Temps(dir') \ {w'.temp}) <= crashes BY <3>3, <3>5
    <3>7. \A d \in onDisk' : IsFiniteSet(Temps(d)) /\ Cardinality(Temps(d)) <= crashes + 1
          BY <1>a, <2>7, <3>1, <3>2, <3>3, <3>4 DEF TempInv
    <3> QED BY <1>b, <3>6, <3>7 DEF TempInv
  <2>13. Register!Write(w.value) BY <2>6 DEF Register!Write, Durable
  <2> QED BY <1>c, <2>6, <2>9, <2>10, <2>11, <2>12, <2>13 DEF FileInv
<1> QED BY <1>1, <1>2

\* The sync of the directory leaves one directory a loss of power may bring back, or all.
LEMMA SyncDirStep ==
    ASSUME FileInv, SyncDir
    PROVE  FileInv' /\ (Unseen \/ Register!Settle)
<1>1. Return("ok") /\ UNCHANGED <<file, dir, leaked, r, crashes>> /\ onDisk' \in {onDisk, {dir}}
      BY DEF SyncDir
<1>2. FileInv' /\ Current' = Current BY <1>1, ReturnStep DEF SyncDir
<1>3. CASE onDisk' = onDisk
  <2>1. Durable' = Durable BY <1>1, <1>3 DEF Durable, Content
  <2> QED BY <1>2, <2>1 DEF Unseen
<1>4. CASE onDisk' = {dir}
  <2>1. Durable' = {Current} BY <1>1, <1>4 DEF Durable, Content, Current
  <2>2. Register!Settle BY <1>2, <2>1 DEF Register!Settle, Durable
  <2> QED BY <1>2, <2>2
<1> QED BY <1>1, <1>3, <1>4

\* The removal of the file is a write of nothing.
LEMMA ClearStep ==
    ASSUME FileInv, Clear
    PROVE  FileInv' /\ Register!Write(Absent)
<1> DEFINE d1 == [dir EXCEPT ![Target] = NoInode]
<1>a. /\ TypeOK /\ DiskInv /\ WriterInv /\ ReaderInv /\ TempInv
      /\ w.pc = "idle" /\ w.temp = Target /\ Target \notin TempNames
      /\ dir \in Dirs /\ dir \in onDisk
      BY AtomicFileAssumption DEF FileInv, Clear, TypeOK, WriterInv
<1>b. UNCHANGED <<file, leaked, r, crashes>> /\ Relink(d1) /\ w' = NoCall BY DEF Clear
<1>1. d1 \in Dirs /\ d1[Target] = NoInode BY <1>a DEF Dirs, Names, MaybeInode
<1>2. Temps(d1) = Temps(dir) \ {w.temp} BY <1>a DEF Temps, Dirs, Names
<1> HIDE DEF d1
<1>3. Content(NoInode) = Absent BY DEF Content
<1>4. /\ dir' \in Dirs /\ onDisk' \in SUBSET Dirs /\ dir' \in onDisk' /\ DiskInv'
      /\ Current' = Absent /\ Durable' = Durable \cup {Absent}
      BY <1>a, <1>b, <1>1, <1>3, RelinkReplaces
<1>5. w' \in Calls /\ w'.pc = "idle" /\ w'.temp = Target /\ w'.answer = "none"
      BY <1>b DEF NoCall, Calls, Names, MaybeInode, Contents
<1>6. TypeOK' BY <1>a, <1>b, <1>4, <1>5 DEF TypeOK
<1>7. WriterInv' BY <1>5 DEF WriterInv, Writing
<1>8. ReaderInv' BY <1>a, <1>b, <1>5 DEF ReaderInv, Writing
<1>9. TempInv' BY <1>a, <1>b, <1>1, <1>2, <1>5, TempsGone DEF Relink
<1>10. Register!Write(Absent) BY <1>4 DEF Register!Write, Durable
<1> QED BY <1>4, <1>6, <1>7, <1>8, <1>9, <1>10 DEF FileInv

-----------------------------------------------------------------------------
(* readTextFile *)

\* What a reader does depends on its own record alone.
LEMMA ReaderKeeps ==
    ASSUME FileInv, UNCHANGED <<file, dir, onDisk, w, leaked, crashes>>, r' \in Reads, ReaderInv'
    PROVE  FileInv' /\ Unseen
<1>1. TypeOK /\ DiskInv /\ WriterInv /\ TempInv BY DEF FileInv
<1>2. Unseen /\ DiskInv' BY <1>1, NoRelinkKeeps DEF Unseen
<1>3. TypeOK' BY <1>1 DEF TypeOK
<1>4. WriterInv' BY <1>1, <1>2 DEF WriterInv, DataAt, Unseen
<1>5. TempInv' BY <1>1 DEF TempInv
<1> QED BY <1>2, <1>3, <1>4, <1>5 DEF FileInv

\* What is opened is complete, and no writer's temporary file.
LEMMA OpenStep ==
    ASSUME FileInv, Open
    PROVE  FileInv' /\ Unseen
<1>a. TypeOK /\ DiskInv /\ WriterInv /\ dir \in onDisk /\ dir \in Dirs BY DEF FileInv, TypeOK
<1>1. dir[Target] \in Inodes /\ Complete(dir[Target])
      BY <1>a DEF Open, DiskInv, Dirs, Names, MaybeInode
<1>2. PICK v \in Values : file[dir[Target]].data = Whole(v) BY <1>1 DEF Complete
<1>3. Current = v BY <1>1, <1>2, ContentIs DEF Current
<1>4. /\ r' = [pc |-> "read", fd |-> dir[Target], got |-> <<>>, opened |-> v, error |-> FALSE]
      /\ r' \in Reads
  <2>1. r' = [pc |-> "read", fd |-> dir[Target], got |-> <<>>, opened |-> v, error |-> FALSE]
        BY <1>3 DEF Open, NoRead
  <2> QED BY <1>1, <2>1 DEF Reads, MaybeInode, Contents
<1>5. UNCHANGED <<file, dir, onDisk, w, leaked, crashes>> BY DEF Open
<1>6. ReaderInv'
  <2>1. w.pc \in Writing => w.fd # dir[Target] BY <1>a DEF WriterInv
  <2> QED BY <1>1, <1>2, <1>4, <1>5, <2>1, AtomicFileAssumption DEF ReaderInv
<1> QED BY <1>4, <1>5, <1>6, ReaderKeeps

\* What a read returns: the elements behind the first a, up to the k-th.
LEMMA PieceIs ==
    ASSUME NEW S, NEW q \in Seq(S), NEW a \in Nat, NEW k \in a + 1 .. Len(q)
    PROVE  /\ SubSeq(q, a + 1, k) \in Seq(S)
           /\ Len(SubSeq(q, a + 1, k)) = k - a
           /\ \A j \in 1 .. Len(SubSeq(q, a + 1, k)) : SubSeq(q, a + 1, k)[j] = q[a + j]
<1>1. a + 1 \in Int /\ k \in Int /\ a + 1 <= k /\ k - (a + 1) + 1 = k - a
      OBVIOUS
<1>2. \A i \in a + 1 .. k : q[i] \in S
      OBVIOUS
<1>3. /\ SubSeq(q, a + 1, k) \in Seq(S)
      /\ Len(SubSeq(q, a + 1, k)) = IF a + 1 <= k THEN k - (a + 1) + 1 ELSE 0
      /\ \A j \in 1 .. k - (a + 1) + 1 : SubSeq(q, a + 1, k)[j] = q[a + 1 + j - 1]
      BY <1>1, <1>2, SubSeqProperties
<1>4. Len(SubSeq(q, a + 1, k)) = k - a BY <1>1, <1>3
<1>5. \A j \in 1 .. k - a : SubSeq(q, a + 1, k)[j] = q[a + j]
  <2> TAKE j \in 1 .. k - a
  <2>1. a + 1 + j - 1 = a + j OBVIOUS
  <2> QED BY <1>1, <1>3, <2>1
<1> QED BY <1>3, <1>4, <1>5

\* What is read continues what was read; the end of the file is the whole of it.
LEMMA ReadStep ==
    ASSUME FileInv, Read
    PROVE  FileInv' /\ Unseen
<1> DEFINE s == file[r.fd].data
           n == Len(r.got)
<1>a. /\ ReaderInv /\ r \in Reads /\ r.pc = "read" /\ Chunks \in Nat
      /\ r.opened \in Values /\ s = Whole(r.opened) /\ r.fd \in Inodes
      /\ n <= Chunks /\ \A k \in 1 .. n : r.got[k] = r.opened
      /\ w.pc \in Writing => w.fd # r.fd
      BY AtomicFileAssumption DEF FileInv, TypeOK, Read, ReaderInv
<1>b. UNCHANGED <<file, dir, onDisk, w, leaked, crashes>> BY DEF Read
<1>c. /\ r.got \in Seq(Values) /\ n \in Nat BY <1>a DEF Reads
<1>d. s \in Seq(Values) /\ Len(s) = Chunks /\ \A k \in 1 .. Chunks : s[k] = r.opened
      BY <1>a, WholeSequence
<1>1. ASSUME NEW k \in n + 1 .. Len(s), r' = [r EXCEPT !.got = @ \o SubSeq(s, n + 1, k)]
      PROVE  r' \in Reads /\ ReaderInv'
  <2> DEFINE more == SubSeq(s, n + 1, k)
             t    == r.got \o more
  <2>1. more \in Seq(Values) /\ Len(more) = k - n /\ \A j \in 1 .. Len(more) : more[j] = s[n + j]
    <3> HIDE DEF s, n
    <3> QED BY <1>c, <1>d, <1>1, PieceIs
  <2>2. \A j \in 1 .. Len(more) : more[j] = r.opened
    <3> HIDE DEF s, n, more
    <3> QED BY <1>c, <1>d, <1>1, <2>1
  <2> HIDE DEF more
  <2>3. t \in Seq(Values) /\ Len(t) = k
    <3>1. t \in Seq(Values) /\ Len(t) = n + Len(more) BY <1>c, <2>1
    <3>2. k \in Nat BY <1>c, <1>d
    <3> HIDE DEF t, n
    <3> QED BY <1>c, <2>1, <3>1, <3>2
  <2>4. \A j \in 1 .. Len(t) : t[j] = r.opened BY <1>a, <1>c, <2>1, <2>2, <2>3
  <2>5. r' = [r EXCEPT !.got = t] BY <1>1 DEF more
  <2> HIDE DEF t
  <2>6. /\ r'.pc = "read" /\ r'.fd = r.fd /\ r'.opened = r.opened /\ r'.got = t
        /\ r' \in Reads
        BY <1>a, <2>3, <2>5 DEF Reads
  <2>7. r'.fd \in Inodes /\ r'.opened \in Values /\ file'[r'.fd].data = Whole(r'.opened)
        BY <1>a, <1>b, <2>6
  <2>8. w'.pc \in Writing => w'.fd # r'.fd BY <1>a, <1>b, <2>6
  <2>9. Len(r'.got) <= Chunks /\ \A j \in 1 .. Len(r'.got) : r'.got[j] = r'.opened
    <3>1. k \in n + 1 .. Chunks /\ Len(t) = k BY <1>d, <1>1, <2>3
    <3>2. k <= Chunks BY <1>a, <1>c, <3>1
    <3> HIDE DEF s, n
    <3> QED BY <2>4, <2>6, <3>1, <3>2
  <2>10. ReaderInv'
    <3> HIDE DEF s, n
    <3> QED BY <2>6, <2>7, <2>8, <2>9 DEF ReaderInv
  <2> QED BY <2>6, <2>10
<1>2. ASSUME n = Len(s), r' = [r EXCEPT !.pc = "success", !.fd = NoInode]
      PROVE  r' \in Reads /\ ReaderInv'
  <2>1. /\ r'.pc = "success" /\ r'.got = r.got /\ r'.opened = r.opened /\ r' \in Reads
        BY <1>a, <1>2 DEF Reads, MaybeInode
  <2>2. r.got = Whole(r.opened) BY <1>a, <1>c, <1>d, <1>2, WholeSequence
  <2> QED BY <2>1, <2>2 DEF ReaderInv
<1>3. ASSUME r' = [NoRead EXCEPT !.pc = "success", !.got = r.got, !.error = TRUE]
      PROVE  r' \in Reads /\ ReaderInv'
  <2>1. r'.pc = "success" /\ r'.error = TRUE BY <1>3 DEF NoRead
  <2>2. r' \in Reads BY <1>c, <1>3 DEF NoRead, Reads, MaybeInode, Contents
  <2> QED BY <2>1, <2>2 DEF ReaderInv
<1>4. r' \in Reads /\ ReaderInv' BY <1>1, <1>2, <1>3 DEF Read
<1> QED BY <1>b, <1>4, ReaderKeeps

\* The answer is taken.
LEMMA ReadReturnsStep ==
    ASSUME FileInv, ReadReturns
    PROVE  FileInv' /\ Unseen
<1>1. UNCHANGED <<file, dir, onDisk, w, leaked, crashes>> /\ r' = NoRead BY DEF ReadReturns
<1>2. r' \in Reads BY <1>1 DEF NoRead, Reads, MaybeInode, Contents
<1>3. ReaderInv' BY <1>1 DEF ReaderInv, NoRead
<1> QED BY <1>1, <1>2, <1>3, ReaderKeeps

-----------------------------------------------------------------------------
(* Accidents *)

\* A writer that dies leaves the file as it is, and one temporary file at most.
LEMMA CrashStep ==
    ASSUME FileInv, Crash
    PROVE  FileInv' /\ Unseen
<1>a. /\ TypeOK /\ DiskInv /\ WriterInv /\ ReaderInv /\ TempInv
      /\ dir \in onDisk /\ crashes \in Nat
      BY DEF FileInv, TypeOK
<1>b. UNCHANGED <<file, dir, onDisk, r>> /\ w' = NoCall /\ leaked' = {} /\ crashes' = crashes + 1
      BY DEF Crash
<1>1. Unseen /\ DiskInv' BY <1>a, <1>b, NoRelinkKeeps DEF Unseen
<1>2. w' \in Calls /\ w'.pc = "idle" /\ w'.temp = Target /\ w'.answer = "none"
      BY <1>b DEF NoCall, Calls, Names, MaybeInode, Contents
<1>3. TypeOK' BY <1>a, <1>b, <1>2 DEF TypeOK
<1>4. WriterInv' BY <1>2 DEF WriterInv, Writing
<1>5. ReaderInv' BY <1>a, <1>b, <1>2 DEF ReaderInv, Writing
<1>6. TempInv'
  <2>1. IsFiniteSet(Temps(dir)) /\ Cardinality(Temps(dir)) <= crashes + 1 BY <1>a DEF TempInv
  <2>2. Temps(dir') \ {w'.temp} = Temps(dir)
        BY <1>b, <1>2, AtomicFileAssumption DEF Temps
  <2>3. \A d \in onDisk' : IsFiniteSet(Temps(d)) /\ Cardinality(Temps(d)) <= crashes + 1
        BY <1>a, <1>b DEF TempInv
  <2>4. \A d \in onDisk' : Cardinality(Temps(d)) \in Nat BY <2>3, FS_CardinalityType
  <2>5. \A d \in onDisk' : IsFiniteSet(Temps(d)) /\ Cardinality(Temps(d)) <= crashes' + 1
        BY <1>a, <1>b, <2>3, <2>4
  <2>6. Cardinality(Temps(dir') \ {w'.temp}) <= crashes' BY <1>b, <2>1, <2>2
  <2> QED BY <2>5, <2>6 DEF TempInv
<1> QED BY <1>1, <1>3, <1>4, <1>5, <1>6 DEF FileInv

\* A loss of power brings back a directory whose target was synced before it was
\* renamed: the file has a content it had, as it was.
LEMMA PowerLossStep ==
    ASSUME FileInv, PowerLoss
    PROVE  FileInv' /\ Register!PowerLoss
<1>a. /\ TypeOK /\ DiskInv /\ TempInv
      /\ file \in [Inodes -> Data] /\ onDisk \in SUBSET Dirs /\ crashes \in Nat
      /\ Chunks \in Nat
      BY AtomicFileAssumption DEF FileInv, TypeOK
<1>b. /\ w' = NoCall /\ r' = NoRead /\ leaked' = {} /\ crashes' = crashes + 1 BY DEF PowerLoss
<1>1. PICK d \in onDisk : dir' = d /\ onDisk' = {d} BY DEF PowerLoss
<1>2. PICK kept \in [Inodes -> 0 .. Chunks] :
         /\ \A i \in Inodes : kept[i] \in file[i].synced .. Len(file[i].data)
         /\ file' = [i \in Inodes |-> [data |-> SubSeq(file[i].data, 1, kept[i]),
                                       synced |-> kept[i]]]
      BY DEF PowerLoss
<1>3. file' \in [Inodes -> Data]
  <2>1. ASSUME NEW i \in Inodes
        PROVE  [data |-> SubSeq(file[i].data, 1, kept[i]), synced |-> kept[i]] \in Data
    <3>1. file[i].data \in Seq(Values) BY <1>a DEF Data
    <3>2. kept[i] \in Nat /\ kept[i] <= Len(file[i].data) /\ kept[i] \in 0 .. Chunks
          BY <1>a, <1>2, <3>1 DEF Data
    <3>3. SubSeq(file[i].data, 1, kept[i]) \in Seq(Values) BY <3>1, <3>2
    <3> QED BY <3>2, <3>3 DEF Data
  <2> QED BY <1>2, <2>1
<1>4. ASSUME d[Target] # NoInode
      PROVE  /\ d[Target] \in Inodes /\ Complete(d[Target])'
             /\ file'[d[Target]].data = file[d[Target]].data
  <2> DEFINE i == d[Target]
  <2>1. i \in Inodes /\ Complete(i)
        BY <1>a, <1>4 DEF DiskInv, Dirs, Names, MaybeInode
  <2> HIDE DEF i
  <2>2. PICK v \in Values : file[i].data = Whole(v) BY <2>1 DEF Complete
  <2>3. file[i].data \in Seq(Values) /\ Len(file[i].data) = Chunks
        BY <2>2, WholeSequence
  <2>4. kept[i] = Chunks BY <1>a, <1>2, <2>1, <2>3 DEF Complete
  <2>5. file'[i].data = SubSeq(file[i].data, 1, Chunks) /\ file'[i].synced = Chunks
        BY <1>2, <2>1, <2>4
  <2>6. file'[i].data = file[i].data BY <2>3, <2>5, SubSeqFull
  <2>7. Complete(i)' BY <2>2, <2>5, <2>6 DEF Complete
  <2> QED BY <2>1, <2>6, <2>7 DEF i
<1>5. Content(d[Target])' = Content(d[Target]) BY <1>4, ContentKept
<1>6. DiskInv' BY <1>1, <1>4 DEF DiskInv
<1>7. w' \in Calls /\ w'.pc = "idle" /\ w'.temp = Target /\ w'.answer = "none"
      BY <1>b DEF NoCall, Calls, Names, MaybeInode, Contents
<1>8. r' \in Reads /\ r'.pc = "idle" BY <1>b DEF NoRead, Reads, MaybeInode, Contents
<1>9. TypeOK' BY <1>a, <1>b, <1>1, <1>3, <1>7, <1>8 DEF TypeOK
<1>10. WriterInv' BY <1>7 DEF WriterInv, Writing
<1>11. ReaderInv' BY <1>8 DEF ReaderInv
<1>12. TempInv'
  <2>1. IsFiniteSet(Temps(d)) /\ Cardinality(Temps(d)) <= crashes + 1 BY <1>a DEF TempInv
  <2>2. Temps(dir') \ {w'.temp} = Temps(d) BY <1>1, <1>7, AtomicFileAssumption DEF Temps
  <2>3. Cardinality(Temps(d)) \in Nat BY <2>1, FS_CardinalityType
  <2>4. \A e \in onDisk' : IsFiniteSet(Temps(e)) /\ Cardinality(Temps(e)) <= crashes' + 1
        BY <1>a, <1>b, <1>1, <2>1, <2>3
  <2>5. Cardinality(Temps(dir') \ {w'.temp}) <= crashes' BY <1>b, <2>1, <2>2
  <2> QED BY <2>4, <2>5 DEF TempInv
<1>13. Register!PowerLoss
  <2>1. Content(d[Target]) \in Durable BY DEF Durable
  <2>2. Current' = Content(d[Target]) BY <1>1, <1>5 DEF Current
  <2>3. Durable' = {Content(d[Target])} BY <1>1, <1>5 DEF Durable
  <2> QED BY <2>1, <2>2, <2>3 DEF Register!PowerLoss, Durable
<1> QED BY <1>6, <1>9, <1>10, <1>11, <1>12, <1>13 DEF FileInv

-----------------------------------------------------------------------------
(* The theorems *)

\* At the start there is no file and no call.
LEMMA FileInit ==
    ASSUME Init
    PROVE  FileInv /\ Register!Init
<1>1. /\ file = [i \in Inodes |-> [data |-> <<>>, synced |-> 0]]
      /\ dir = [n \in Names |-> NoInode] /\ onDisk = {dir}
      /\ w = NoCall /\ leaked = {} /\ r = NoRead /\ crashes = 0
      BY DEF Init
<1>2. file \in [Inodes -> Data]
  <2>1. [data |-> <<>>, synced |-> 0] \in Data BY AtomicFileAssumption DEF Data
  <2> QED BY <1>1, <2>1
<1>3. dir \in Dirs /\ dir[Target] = NoInode BY <1>1 DEF Dirs, Names, MaybeInode
<1>4. w \in Calls /\ w.pc = "idle" /\ w.temp = Target /\ w.answer = "none"
      BY <1>1 DEF NoCall, Calls, Names, MaybeInode, Contents
<1>5. r \in Reads /\ r.pc = "idle" BY <1>1 DEF NoRead, Reads, MaybeInode, Contents
<1>6. TypeOK BY <1>1, <1>2, <1>3, <1>4, <1>5 DEF TypeOK
<1>7. DiskInv BY <1>1, <1>3 DEF DiskInv
<1>8. WriterInv BY <1>4 DEF WriterInv, Writing
<1>9. ReaderInv BY <1>5 DEF ReaderInv
<1>10. TempInv
  <2>1. Temps(dir) = {} BY <1>1 DEF Temps, Names
  <2>2. IsFiniteSet({}) /\ Cardinality({}) = 0 BY FS_EmptySet
  <2>3. Temps(dir) \ {w.temp} = {} BY <2>1
  <2>4. \A d \in onDisk : IsFiniteSet(Temps(d)) /\ Cardinality(Temps(d)) = 0
        BY <1>1, <2>1, <2>2
  <2>5. Cardinality(Temps(dir) \ {w.temp}) = 0 BY <2>2, <2>3
  <2> QED BY <1>1, <2>4, <2>5 DEF TempInv
<1>11. Register!Init
  <2>1. Current = Absent BY <1>3 DEF Current, Content
  <2>2. Durable = {Absent} BY <1>1, <2>1 DEF Durable, Current
  <2> QED BY <2>1, <2>2 DEF Register!Init, Durable
<1> QED BY <1>6, <1>7, <1>8, <1>9, <1>10, <1>11 DEF FileInv

\* Every step keeps the invariant, and is a step of DurableFile or shows nothing of the
\* file.
LEMMA FileStep ==
    ASSUME FileInv, [Next]_vars
    PROVE  FileInv' /\ [Register!Next]_<<Current, Durable>>
<1>1. ASSUME NEW v \in Values, Begin(v) PROVE FileInv' /\ Unseen BY <1>1, BeginStep
<1>2. CASE Create BY <1>2, CreateStep DEF Unseen
<1>3. CASE Chmod BY <1>3, ChmodStep DEF Unseen
<1>4. CASE Write BY <1>4, WriteStep DEF Unseen
<1>5. CASE Sync BY <1>5, SyncStep DEF Unseen
<1>6. CASE Rename
  <2>1. FileInv' /\ (Unseen \/ \E v \in Values : Register!Write(v)) BY <1>6, RenameStep
  <2> QED BY <2>1 DEF Unseen, Register!Next
<1>7. CASE SyncDir
  <2>1. FileInv' /\ (Unseen \/ Register!Settle) BY <1>7, SyncDirStep
  <2> QED BY <2>1 DEF Unseen, Register!Next
<1>8. CASE Clear
  <2>1. FileInv' /\ Register!Write(Absent) BY <1>8, ClearStep
  <2> QED BY <2>1 DEF Register!Next
<1>9. CASE Open BY <1>9, OpenStep DEF Unseen
<1>10. CASE Read BY <1>10, ReadStep DEF Unseen
<1>11. CASE ReadReturns BY <1>11, ReadReturnsStep DEF Unseen
<1>12. CASE Crash BY <1>12, CrashStep DEF Unseen
<1>13. CASE PowerLoss
  <2>1. FileInv' /\ Register!PowerLoss BY <1>13, PowerLossStep
  <2> QED BY <2>1 DEF Register!Next
<1>14. CASE UNCHANGED vars
  <2>1. FileInv'
        BY <1>14 DEF vars, FileInv, TypeOK, DiskInv, Complete, WriterInv, DataAt, ReaderInv,
                     TempInv, Current, Content
  <2>2. Unseen BY <1>14 DEF vars, Unseen, Current, Durable, Content
  <2> QED BY <2>1, <2>2 DEF Unseen
<1>15. CASE \E v \in Values : Begin(v) BY <1>1, <1>15 DEF Unseen
<1> QED BY <1>2, <1>3, <1>4, <1>5, <1>6, <1>7, <1>8, <1>9, <1>10, <1>11, <1>12, <1>13, <1>14,
           <1>15 DEF Next, WriterStep, ReaderStep

\* The inductive invariant holds of the specification.
THEOREM FileCorrect == Spec => []FileInv
<1>1. Init => FileInv BY FileInit
<1>2. FileInv /\ [Next]_vars => FileInv' BY FileStep
<1> QED BY <1>1, <1>2, PTL DEF Spec

\* writeFileAtomic answers truly: success means the new content, failure the one from
\* before the call, and a call that returns has left no temporary file behind.
THEOREM AnswersTrue == Spec => []AnswerTrue
<1>1. FileInv => AnswerTrue
  <2> SUFFICES ASSUME FileInv PROVE AnswerTrue OBVIOUS
  <2>1. WriterInv /\ TempInv BY DEF FileInv
  <2>2. ASSUME w.pc = "idle"
        PROVE  Cardinality({n \in TempNames : dir[n] # NoInode}) <= crashes
    <3>1. {n \in TempNames : dir[n] # NoInode} = Temps(dir) \ {w.temp}
          BY <2>1, <2>2, AtomicFileAssumption DEF Temps, WriterInv
    <3> QED BY <2>1, <3>1 DEF TempInv
  <2> QED BY <2>1, <2>2 DEF AnswerTrue, WriterInv
<1> QED BY <1>1, FileCorrect, PTL

\* readTextFile returns the content the file had when it was opened, all of it, whatever
\* writers do: nothing is written in place.
THEOREM ReadsCorrect == Spec => []ReadsOneContent
<1>1. FileInv => ReadsOneContent BY DEF FileInv, ReaderInv, ReadsOneContent
<1> QED BY <1>1, FileCorrect, PTL

\* The file, with its temporary files, torn data and losses of power, implements a
\* register that is written all at once and never loses more than what was not durable.
THEOREM FileIsDurable == Spec => ImplementsRegister
<1>1. Init => Register!Init BY FileInit
<1>2. FileInv /\ [Next]_vars => [Register!Next]_<<Current, {Content(d[Target]) : d \in onDisk}>>
      BY FileStep DEF Durable
<1> QED BY <1>1, <1>2, FileCorrect, PTL DEF Spec, ImplementsRegister, Register!Spec
=============================================================================
