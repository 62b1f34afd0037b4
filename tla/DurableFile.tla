----------------------------- MODULE DurableFile -----------------------------
(***************************************************************************)
(* What a configuration or state file promises: it has one value at any    *)
(* time, and a loss of power brings back a value it had since it was last  *)
(* made durable, never a mixture and never a part of one.                  *)
(***************************************************************************)
CONSTANTS Values, Absent

VARIABLES value, durable    \* durable: what a loss of power may bring back

Init == value = Absent /\ durable = {Absent}

Write(v) ==
    /\ value' = v
    /\ durable' = durable \cup {v}

Settle ==
    /\ durable' = {value}
    /\ UNCHANGED value

PowerLoss == \E v \in durable : value' = v /\ durable' = {v}

Next == Settle \/ PowerLoss \/ \E v \in Values \cup {Absent} : Write(v)

Spec == Init /\ [][Next]_<<value, durable>>
=============================================================================
