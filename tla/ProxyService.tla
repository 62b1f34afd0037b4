---------------------------- MODULE ProxyService ----------------------------
(***************************************************************************)
(* What ProxyManager promises to the commands built on it: the proxy is    *)
(* off, starting or on; while it is not off one process carries it, with   *)
(* the configuration it was launched with; it is on only over an interface *)
(* that process made; and a new setting waits for the next launch.         *)
(***************************************************************************)
CONSTANTS Cores, Settings, NoCore, NoPlan

VARIABLES
    mode,     \* what a status query may answer, "starting" shown as OFF
    core,     \* the process that carries the proxy
    plan,     \* its pinned configuration
    up,       \* that process holds the TUN interface
    setting   \* the configured upstream

service == <<mode, core, plan, up>>
vars == <<service, setting>>

Init ==
    /\ mode = "off" /\ core = NoCore /\ plan = NoPlan /\ up = FALSE
    /\ setting \in Settings

\* start has saved a provisional record; the setting in force is pinned.
Launch ==
    /\ mode = "off" /\ mode' = "starting"
    /\ core' \in Cores
    /\ plan' \in [auto : BOOLEAN, upstream : {setting}]
    /\ up' \in BOOLEAN
    /\ UNCHANGED setting

TunnelUp ==
    /\ mode = "starting" /\ ~up
    /\ up' = TRUE
    /\ UNCHANGED <<mode, core, plan, setting>>

\* start has seen the interface and saved the final record.
Establish ==
    /\ mode = "starting" /\ up
    /\ mode' = "on"
    /\ UNCHANGED <<core, plan, up, setting>>

\* The process ended: stopped, given up, crashed or killed.
End ==
    /\ mode # "off" /\ mode' = "off"
    /\ core' = NoCore /\ plan' = NoPlan /\ up' = FALSE
    /\ UNCHANGED setting

ChangeSetting ==
    /\ setting' \in Settings
    /\ UNCHANGED service

Next == Launch \/ TunnelUp \/ Establish \/ End \/ ChangeSetting

Spec == Init /\ [][Next]_vars
=============================================================================
