--------------------------- MODULE UpstreamProbe ---------------------------
(***************************************************************************)
(* resolveAndProbeUpstream (src/src/upstream.cpp): the addresses of the    *)
(* host are tried in the order getaddrinfo gives, with one socket each, a  *)
(* non-blocking connect, a SOCKS5 greeting and a reply of two bytes.  A    *)
(* peer, and the kernel, may do anything at every call.                    *)
(***************************************************************************)
EXTENDS Naturals, Sequences, SequencesExt

CONSTANTS
    Addresses, NoAddress,
    MaxAddresses   \* bound: addresses of one host

VARIABLES
    pc,
    list, next,    \* the answer of getaddrinfo, and the address that is tried
    sockets,       \* descriptors that are open
    blocking,      \* O_NONBLOCK is off again, SO_RCVTIMEO holds
    waits,         \* full timeouts spent in this call
    accepted,      \* addresses that have accepted the greeting
    answer         \* the pinned address

vars == <<pc, list, next, sockets, blocking, waits, accepted, answer>>

Init ==
    /\ pc = "resolve" /\ list = <<>> /\ next = 1 /\ sockets = 0 /\ blocking = TRUE
    /\ waits = 0 /\ accepted = {} /\ answer = NoAddress

Goto(l) == pc' = l /\ UNCHANGED <<next, sockets, answer>>
\* The loop of resolveAndProbeUpstream behind a failed address; closed: by how many sockets.
TryNext(closed) ==
    /\ sockets' = sockets - closed
    /\ next' = next + 1
    /\ pc' = IF next < Len(list) THEN "socket" ELSE "unreachable"
    /\ UNCHANGED answer
\* Mutant of GiveUp: an early return forgets the socket.
GiveUpOpen == TryNext(0)
GiveUp == TryNext(1)

Calm    == UNCHANGED <<list, accepted>>
Waited(n) == waits' = waits + n
At(l)   == pc = l /\ Calm

Resolve ==
    /\ pc = "resolve"
    /\ \/ \E l \in BoundedSeq(Addresses, MaxAddresses) :
             l # <<>> /\ IsInjective(l) /\ list' = l /\ Goto("socket")
       \/ Goto("unreachable") /\ UNCHANGED list
    /\ UNCHANGED <<blocking, waits, accepted>>

Socket ==
    /\ At("socket")
    /\ \/ pc' = "connect" /\ sockets' = sockets + 1 /\ blocking' = FALSE /\ UNCHANGED <<next, answer>>
       \/ TryNext(0) /\ UNCHANGED blocking
    /\ Waited(0)

\* connect, the wait for POLLOUT, SO_ERROR, and the way back to a blocking socket.
\* Mutant of Connected: the socket is left as it is.
ConnectedNonBlocking == Goto("greet") /\ UNCHANGED blocking
Connected == Goto("greet") /\ blocking' = TRUE
Connect ==
    /\ At("connect")
    /\ Connected \/ ((Goto("await connect") \/ GiveUp) /\ UNCHANGED blocking)
    /\ Waited(0)
AwaitConnect ==
    /\ At("await connect")
    /\ \/ Connected /\ Waited(0)
       \/ GiveUp /\ UNCHANGED blocking /\ \E n \in {0, 1} : Waited(n)

Greet ==
    /\ At("greet")
    /\ (Goto("await reply") \/ GiveUp) /\ Waited(0)
    /\ UNCHANGED blocking
AwaitReply ==
    /\ At("await reply")
    /\ \/ Goto("receive") /\ Waited(0)
       \/ GiveUp /\ \E n \in {0, 1} : Waited(n)
    /\ UNCHANGED blocking

\* What a peer may send, in one segment or in two; MSG_WAITALL waits for the second if the
\* socket blocks, and at most for SO_RCVTIMEO.
Accepted == <<5, 0>>
Replies  == {Accepted, <<5, 255>>, <<72, 84>>, <<5>>, <<>>}
Valid(reply) == Len(reply) = 2 /\ reply[1] = 5 /\ reply[2] = 0
Receive ==
    /\ pc = "receive"
    /\ \E sent \in Replies, segments \in {1, 2} :
          LET received == IF segments = 1 \/ blocking THEN sent ELSE SubSeq(sent, 1, 1)
          IN  /\ segments <= Len(sent) \/ segments = 1
              /\ accepted' = accepted \cup (IF sent = Accepted THEN {list[next]} ELSE {})
              /\ Waited(0) \/ (Len(sent) < 2 /\ Waited(1))
              /\ IF Valid(received)
                 THEN /\ pc' = "returned" /\ answer' = list[next] /\ sockets' = sockets - 1
                      /\ UNCHANGED next
                 ELSE TryNext(1)
    /\ UNCHANGED <<list, blocking>>

Returned == pc \in {"returned", "unreachable"}

Next == Resolve \/ Socket \/ Connect \/ AwaitConnect \/ Greet \/ AwaitReply \/ Receive

Spec == Init /\ [][Next]_vars

-----------------------------------------------------------------------------
(* Properties *)

\* upstream.cpp:22-96: of all the ways out of a probe none leaves a socket, and start, which
\* holds the operation lock, waits for the upstream at most three timeouts per address, whatever
\* the peer withholds; the daemon probes on every on, for months.
ProbeIsBounded ==
    /\ pc \in {"resolve", "socket"} \/ Returned => sockets = 0
    /\ waits <= 3 * Len(list)

\* upstream.cpp:78-83, 117-123: the pinned address accepted an unauthenticated greeting in this
\* call, and no address before it in the list did; with none that did, start fails.
FirstThatAccepts ==
    /\ pc = "unreachable" => accepted = {}
    /\ pc = "returned" =>
          answer \in accepted /\ \A i \in 1..(next - 1) : list[i] \notin accepted
=============================================================================
