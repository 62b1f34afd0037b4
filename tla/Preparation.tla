---------------------------- MODULE Preparation ----------------------------
(***************************************************************************)
(* What start makes of the network before it launches a core               *)
(* (src/src/proxy_manager.cpp): the upstream is probed, and the address it *)
(* was reached at goes into the bypass policy.  Without a start, `bypass`  *)
(* of a proxy that is off shows the policy without an upstream.            *)
(***************************************************************************)
EXTENDS BypassPolicy

CONSTANT MaxAddresses

ASSUME PreparationAssumption == MaxAddresses \in Nat

VARIABLES
    task,       \* "start", then "resolved" or "failed", or "preview"
    probing, list, trying, sockets, blocking, waits, accepted, answer   \* UpstreamProbe

Probe == INSTANCE UpstreamProbe
            WITH Addresses <- Upstreams, pc <- probing, next <- trying

probe == <<probing, list, trying, sockets, blocking, waits, accepted, answer>>

Init == PolicyInit /\ Probe!Init /\ task \in {"start", "preview"}

\* resolveAndProbeUpstream; its frame is gone when it has returned.
Resolving ==
    /\ task = "start" /\ Probe!Next
    /\ UNCHANGED <<task, vars>>
Resolved ==
    /\ task = "start" /\ Probe!Returned
    /\ list' = <<>> /\ trying' = 1 /\ waits' = 0 /\ accepted' = {}
    /\ task' = IF probing = "returned" THEN "resolved" ELSE "failed"
    /\ UNCHANGED <<probing, sockets, blocking, answer, vars>>

\* collectBypassPolicy and allCidrs.
Policy ==
    /\ task \in {"preview", "resolved"}
    /\ PolicyStep(answer)
    /\ UNCHANGED <<task, probe>>

Prepared ==
    /\ pc \in {"done", "too many", "no upstream"} \/ task = "failed"
    /\ UNCHANGED <<task, probe, vars>>

Next == Resolving \/ Resolved \/ Policy \/ Prepared

Spec == Init /\ [][Next]_<<task, probe, vars>>

-----------------------------------------------------------------------------
(* Properties *)

\* upstream.cpp:22-96: a probe leaves no socket, and takes at most three timeouts per address.
ProbeIsBounded == Probe!ProbeIsBounded

\* upstream.cpp:78-83, 117-123, proxy_manager.cpp:318-326, bypass_policy.cpp:256-258: the first
\* address that accepted in this call is pinned, and a start with none that did fails; it is the
\* first entry of the policy, as a host route, also when a fixed range or an interface has it
\* already.  A preview pins nothing.
UpstreamPinned ==
    /\ task = "start" => Probe!FirstThatAccepts
    /\ pc = "done" => all[1] = IF task = "resolved" THEN Host(answer.family, answer.address) ELSE Fixed[1]
=============================================================================
