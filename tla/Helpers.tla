------------------------------- MODULE Helpers -------------------------------
(***************************************************************************)
(* The helpers that share nothing with one another, side by side:          *)
(* runCapture, the frames of one connection, ensureDirectory and the       *)
(* setting.  Init chooses which of them moves; the others stay in their    *)
(* initial state, so that the state space is the sum of the four.          *)
(***************************************************************************)
EXTENDS RunCapture

CONSTANTS MaxPayload, Buffer, LogSizes, MaxLogs, ResultSizes, ErrorSizes,   \* IpcChannel
          Procs, Depth,                                                   \* EnsureDirectory
          Texts, Numbers, MaxHost, Clients                                \* Config

ASSUME HelpersAssumption ==
    /\ {MaxPayload, Buffer, Depth} \subseteq Nat \ {0} /\ MaxLogs \in Nat /\ MaxHost \in Nat
    /\ LogSizes \subseteq Nat /\ ErrorSizes \subseteq Nat /\ ResultSizes \subseteq 0..MaxPayload
    /\ \A t \in Texts : t \in Seq(STRING)
    /\ Numbers \subseteq STRING \ {"blank", "feed", ":", "[", "]", "/"}

VARIABLES
    part,                                                  \* the helper that moves
    said, next, offset, out, connected, broken, wire, closed, in, printed, reply,
    node, at, walk,
    config, saved, told, shown

capture == vars
channel == <<said, next, offset, out, connected, broken, wire, closed, in, printed, reply>>
tree    == <<node, at, walk>>
setting == <<config, saved, told, shown>>
all     == <<part, capture, channel, tree, setting>>

Channel   == INSTANCE IpcChannel WITH heard <- printed
Directory == INSTANCE EnsureDirectory WITH pc <- walk
Setting   == INSTANCE Config

HelpersInit ==
    /\ part \in {"capture", "channel", "directory", "setting"}
    /\ Init /\ Directory!Init /\ Setting!Init
    /\ Channel!Init /\ (part # "channel" => Len(said) = 1 /\ said[1].type = "Result" /\ said[1].size = 0)

Moves(p, A) == part = p /\ A /\ UNCHANGED part
CaptureMoves   == Moves("capture", Next) /\ UNCHANGED <<channel, tree, setting>>
ChannelMoves   == Moves("channel", Channel!Next) /\ UNCHANGED <<capture, tree, setting>>
DirectoryMoves == Moves("directory", Directory!Next) /\ UNCHANGED <<capture, channel, setting>>
SettingMoves   == Moves("setting", Setting!Next) /\ UNCHANGED <<capture, channel, tree>>

HelpersNext == CaptureMoves \/ ChannelMoves \/ DirectoryMoves \/ SettingMoves

\* The fairness of RunCapture and of IpcChannel, none of which is a child's or a client's; the
\* other two promise no progress.
CaptureOnly == part = "capture" /\ UNCHANGED <<part, channel, tree, setting>>
ChannelOnly == part = "channel" /\ UNCHANGED <<part, capture, tree, setting>>
HelpersSpec ==
    /\ HelpersInit /\ [][HelpersNext]_all
    /\ WF_all(Parent /\ CaptureOnly) /\ WF_all(DeadlinePasses /\ CaptureOnly)
    /\ WF_all(Channel!Worker /\ ChannelOnly) /\ WF_all(Channel!WriteFails /\ ChannelOnly)

-----------------------------------------------------------------------------
(* Properties; those of runCapture are in RunCapture. *)

\* ipc.cpp:69-130, daemon_main.cpp:219-253: what is printed is what was logged, the answer is
\* the one that was given, and it is lost only when a write to the client has failed.
FramesIntact == Channel!FramesIntact

\* filesystem.cpp:129-170: ensureDirectory stays in the tree of real directories, and callers
\* that create one path at once do not fail each other.
WalkIsSafe == Directory!WalkIsSafe

\* config.cpp:15-177: what a setting has answered is what is loaded, but for feeds at the ends
\* of the host, and shown, but for an opening bracket.
SettingTakesEffect == Setting!SettingTakesEffect

\* process.cpp:45-55, 155-190: runCapture returns, unless its child never stops writing to a
\* pipe that is read.
UtilityReturns == part = "capture" => CallReturns

\* daemon_main.cpp:316-327, ipc.cpp:21-34, main.cpp:52-79: the worker of a connection comes to
\* its end whatever the client does, and a client that goes on comes to its own.
ConnectionEnds == part = "channel" => Channel!WorkerCloses /\ Channel!ClientReturns
=============================================================================
