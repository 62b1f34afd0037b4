--------------------------- MODULE EnsureDirectory ---------------------------
(***************************************************************************)
(* ensureDirectory (src/src/filesystem.cpp): the walk along the components *)
(* of a path by several processes at once.  The daemon and direct commands *)
(* call it for the same paths before they hold the operation lock.         *)
(***************************************************************************)
EXTENDS Naturals

CONSTANTS
    Procs,      \* the processes that call it
    Depth       \* components of the path, at least one

VARIABLES
    node,       \* what each component is; "other": a file or a link
    at, pc      \* a process's place on the path and in the loop body; it ends "done",
                \* "refused" (not a real directory) or in an "error" of a system call

vars == <<node, at, pc>>
Goto(p, l) == pc' = [pc EXCEPT ![p] = l]

\* The end of the loop body: the next component, or chmod behind the last one.
NextComponent(p) ==
    /\ Goto(p, IF at[p] = Depth THEN "chmod" ELSE "look")
    /\ at' = [at EXCEPT ![p] = IF @ = Depth THEN @ ELSE @ + 1]

\* The first lstat.
Look(p) ==
    /\ pc[p] = "look"
    /\ \/ node[at[p]] = "dir"   /\ NextComponent(p)
       \/ node[at[p]] = "other" /\ Goto(p, "refused") /\ UNCHANGED at
       \/ node[at[p]] = "none"  /\ Goto(p, "mkdir")  /\ UNCHANGED at
       \/ Goto(p, "error") /\ UNCHANGED at
    /\ UNCHANGED node

\* Mutant of Mkdir: EEXIST is an error.
MkdirAlone(p) ==
    /\ pc[p] = "mkdir"
    /\ node' = [node EXCEPT ![at[p]] = IF @ = "none" THEN "dir" ELSE @]
    /\ Goto(p, IF node[at[p]] = "none" THEN "check" ELSE "refused")
    /\ UNCHANGED at

\* EEXIST is as good as success; what is there is looked at next.
Mkdir(p) ==
    /\ pc[p] = "mkdir"
    /\ \/ node' = [node EXCEPT ![at[p]] = IF @ = "none" THEN "dir" ELSE @] /\ Goto(p, "check")
       \/ Goto(p, "error") /\ UNCHANGED node
    /\ UNCHANGED at

\* The second lstat.
Check(p) ==
    /\ pc[p] = "check"
    /\ \/ node[at[p]] = "dir" /\ NextComponent(p)
       \/ node[at[p]] # "dir" /\ Goto(p, "refused") /\ UNCHANGED at
       \/ Goto(p, "error") /\ UNCHANGED at
    /\ UNCHANGED node

Chmod(p) ==
    /\ pc[p] = "chmod"
    /\ Goto(p, "done") \/ Goto(p, "error")
    /\ UNCHANGED <<node, at>>

\* Another call.
Again(p) ==
    /\ pc[p] \in {"done", "refused", "error"}
    /\ Goto(p, "look")
    /\ at' = [at EXCEPT ![p] = 1]
    /\ UNCHANGED node

\* Another program, or an installation before, makes something where nothing is.
Obstruct ==
    /\ \E k \in 1 .. Depth, kind \in {"dir", "other"} :
        /\ node[k] = "none" /\ \A j \in 1 .. k - 1 : node[j] = "dir"
        /\ node' = [node EXCEPT ![k] = kind]
    /\ UNCHANGED <<at, pc>>

Init ==
    /\ node = [j \in 1 .. Depth |-> "none"]
    /\ at = [p \in Procs |-> 1] /\ pc = [p \in Procs |-> "look"]

Walk(p) == Look(p) \/ Mkdir(p) \/ Check(p) \/ Chmod(p) \/ Again(p)
Next == Obstruct \/ \E p \in Procs : Walk(p)
Spec == Init /\ [][Next]_vars

-----------------------------------------------------------------------------
\* The comment at filesystem.cpp:129: the walk never goes on behind something that is
\* not a real directory, so nothing is created and no mode is changed there.  And
\* processes that create the same path at once do not make each other fail: a call is
\* refused only over something that is not a directory.
WalkIsSafe ==
    /\ \A p \in Procs : \A k \in 1 .. at[p] - 1 : node[k] = "dir"
    /\ \A p \in Procs : pc[p] = "chmod" => node[Depth] = "dir"
    /\ \A p \in Procs : pc[p] = "refused" => node[at[p]] = "other"
    /\ \A j, k \in 1 .. Depth : j < k /\ node[j] = "other" => node[k] = "none"
=============================================================================
