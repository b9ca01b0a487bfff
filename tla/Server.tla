------------------------------- MODULE Server -------------------------------
(***************************************************************************)
(* The control server of the camera: main/network/server.c and the tasks   *)
(* of main/network/tasks.c that call it.  Three FreeRTOS tasks share the   *)
(* table of connections under one mutex:                                   *)
(*                                                                         *)
(*   - the accept task blocks in accept(), greets the client and installs  *)
(*     it in a free slot of the table (task_accept_new_clients);           *)
(*   - the request task copies the table, blocks in poll() over the copy,  *)
(*     receives what the readable sockets hold, and then applies the       *)
(*     "interest" messages it parsed (task_handle_requests);               *)
(*   - the send task sends one frame to every interested client            *)
(*     (the critical section of task_send_camera_image).                   *)
(*                                                                         *)
(* A client is one TCP connection, an element of Peers.  What it sends is  *)
(* a stream of 5-byte messages, a 4-byte header and one byte of interest;  *)
(* the stream is kept as the sequence of the interest bytes and three      *)
(* offsets count its bytes: written, delivered to the board, received.     *)
(***************************************************************************)
EXTENDS Integers, Sequences, FiniteSets

CONSTANTS
    Peers,           \* the TCP connections that clients open in the run
    NoPeer,          \* a slot that is not active
    MaxConnections,  \* MAX_CONNECTIONS: the slots of the table
    MaxSockets,      \* the sockets lwIP has left for clients
    MaxRequestSize,  \* MAX_REQUEST_SIZE: the bytes one recv() asks for
    MaxMessages,     \* bound: the messages one client sends
    CutPoints,       \* bound: offsets in a message where TCP may cut the stream
    Paced,           \* bound: TRUE when clients wait for one message to be read
    Leavers          \* bound: the clients that may close their connection

HeaderBytes == 4
MessageBytes == 5

ASSUME ServerAssumption ==
    /\ NoPeer \notin Peers
    /\ MaxConnections \in Nat \ {0}
    /\ MaxSockets \in Nat
    /\ MaxRequestSize \in Nat /\ MaxRequestSize >= MessageBytes
    /\ MaxMessages \in Nat
    /\ CutPoints \subseteq 0 .. MessageBytes - 1
    /\ Paced \in BOOLEAN
    /\ Leavers \subseteq Peers

Slots == 0 .. MaxConnections - 1

\* The bits of the event group, and the values byte 4 of a receive buffer can
\* hold: an interest byte, or 2 for any byte of a message header.
EventBits == {"available", "interested", "connected"}
Byte == {0, 1, 2}

VARIABLES
    connections, \* slot -> the client whose connection it holds, or NoPeer
    count,       \* num_active_connections
    mask,        \* video_interest_mask, as a set of slots
    mutex,       \* who is inside a critical section of several steps
    bits,        \* the bits that are set in the event group
    chunk,       \* slot -> byte 4 of its part of recv_buffer
    apc,         \* accept task: where it is
    incoming,    \* accept task: client_socket
    hpc,         \* request task: where it is
    fds,         \* request task: its copy of the table, as given to poll()
    revents,     \* request task: the slots poll() reported readable
    slot,        \* request task: the slot its receive loop has come to
    requests,    \* request task: the requests it has parsed and not yet served
    interest,    \* request task: was any / is any client interested
    spc,         \* send task: where it is
    sslot,       \* send task: the slot its send loop has come to
    sentTo,      \* send task: the clients this frame was sent to
    link,        \* client -> state of its TCP connection
    sockets,     \* the clients that hold an lwIP socket on the board
    sent,        \* client -> the interest bytes it has written
    delivered,   \* client -> bytes that have arrived at the board
    received     \* client -> bytes that recv() has returned

tableVars  == <<connections, count, mask, chunk>>
acceptVars == <<apc, incoming>>
handleVars == <<hpc, fds, revents, slot, requests, interest>>
sendVars   == <<spc, sslot, sentTo>>
peerVars   == <<link, sockets, sent, delivered, received>>
vars == <<tableVars, mutex, bits, acceptVars, handleVars, sendVars, peerVars>>

Active == {i \in Slots : connections[i] # NoPeer}
Free == Slots \ Active

Nobody == [before |-> FALSE, after |-> FALSE]

Init ==
    /\ connections = [i \in Slots |-> NoPeer]
    /\ count = 0
    /\ mask = {}
    /\ mutex = "free"
    /\ bits = {}
    /\ chunk = [i \in Slots |-> 0]
    /\ apc = "check" /\ incoming = NoPeer
    /\ hpc = "wait"
    /\ fds = [i \in Slots |-> NoPeer]
    /\ revents = {} /\ slot = 0 /\ requests = <<>>
    /\ interest = Nobody
    /\ spc = "idle" /\ sslot = 0 /\ sentTo = {}
    /\ link = [p \in Peers |-> "none"]
    /\ sockets = {}
    /\ sent = [p \in Peers |-> <<>>]
    /\ delivered = [p \in Peers |-> 0]
    /\ received = [p \in Peers |-> 0]

-----------------------------------------------------------------------------
(* The clients and the network.                                            *)

Alive(p) == link[p] \in {"backlog", "open"}

\* A client connects: the handshake is lwIP's, and the connection waits in the
\* backlog of the listening socket.
Connect(p) ==
    /\ link[p] = "none"
    /\ link' = [link EXCEPT ![p] = "backlog"]
    /\ UNCHANGED <<tableVars, mutex, bits, acceptVars, handleVars, sendVars,
                   sockets, sent, delivered, received>>

\* A client writes an interest message.
Write(p, b) ==
    /\ Alive(p)
    /\ Len(sent[p]) < MaxMessages
    /\ Paced => received[p] = MessageBytes * Len(sent[p])
    /\ sent' = [sent EXCEPT ![p] = Append(@, b)]
    /\ UNCHANGED <<tableVars, mutex, bits, acceptVars, handleVars, sendVars,
                   link, sockets, delivered, received>>

\* TCP delivers some more of the stream, in order, cut where it likes.
Deliver(p) ==
    /\ Alive(p)
    /\ \E n \in delivered[p] + 1 .. MessageBytes * Len(sent[p]) :
         /\ n % MessageBytes \in CutPoints
         /\ delivered' = [delivered EXCEPT ![p] = n]
    /\ UNCHANGED <<tableVars, mutex, bits, acceptVars, handleVars, sendVars,
                   link, sockets, sent, received>>

\* A client closes: in order, after all it wrote, or by a reset.
Leave(p) ==
    /\ p \in Leavers /\ Alive(p)
    /\ \/ /\ delivered[p] = MessageBytes * Len(sent[p])
          /\ link' = [link EXCEPT ![p] = "closed"]
       \/ link' = [link EXCEPT ![p] = "reset"]
    /\ UNCHANGED <<tableVars, mutex, bits, acceptVars, handleVars, sendVars,
                   sockets, sent, delivered, received>>

-----------------------------------------------------------------------------
(* The accept task.                                                        *)

\* A definition named X_Something is X with a bug put in, for a run to find.
TableFull_OffByOne == count > MaxConnections
TableFull == count >= MaxConnections

\* server_accept_connections takes the mutex to look at the count; with a full
\* table it returns -1 and task_accept_new_clients tries again.
AcceptCheck ==
    /\ apc = "check"
    /\ mutex = "free"
    /\ apc' = IF TableFull THEN "check" ELSE "accept"
    /\ UNCHANGED <<tableVars, mutex, bits, incoming, handleVars, sendVars, peerVars>>

\* accept() returns a connection of the backlog, and the hello message goes out,
\* its result ignored, before the other tasks know of the client.  Without a
\* socket to give it lwIP drops the connection and accept() fails, as it does
\* for one that was reset in the backlog.
AcceptConnection(p) ==
    /\ apc = "accept"
    /\ p \notin sockets
    /\ link[p] \in {"backlog", "closed", "reset"}
    /\ IF link[p] # "reset" /\ Cardinality(sockets) < MaxSockets
         THEN /\ sockets' = sockets \cup {p}
              /\ link' = [link EXCEPT ![p] = IF @ = "backlog" THEN "open" ELSE @]
              /\ apc' = "install" /\ incoming' = p
         ELSE /\ link' = [link EXCEPT ![p] = IF @ = "reset" THEN "aborted" ELSE "refused"]
              /\ apc' = "check"
              /\ UNCHANGED <<sockets, incoming>>
    /\ UNCHANGED <<tableVars, mutex, bits, handleVars, sendVars,
                   sent, delivered, received>>

\* The first free slot of the table takes the connection.
Install ==
    /\ apc = "install"
    /\ mutex = "free"
    /\ IF Free = {}
         THEN apc' = "check" /\ UNCHANGED <<connections, count>>
         ELSE \E i \in Free :
                /\ \A j \in Free : i <= j
                /\ connections' = [connections EXCEPT ![i] = incoming]
                /\ count' = count + 1
                /\ apc' = "count"
    /\ UNCHANGED <<mask, chunk, mutex, bits, incoming, handleVars, sendVars, peerVars>>

OnlyClient == count = 1

\* task_accept_new_clients reads the count again, this time without the mutex:
\* only the first client makes it set the bit the request task waits for.
CountClients ==
    /\ apc = "count"
    /\ apc' = IF OnlyClient THEN "announce" ELSE "connected"
    /\ UNCHANGED <<tableVars, mutex, bits, incoming, handleVars, sendVars, peerVars>>

SetAvailable ==
    /\ apc = "announce"
    /\ bits' = bits \cup {"available"}
    /\ apc' = "connected"
    /\ UNCHANGED <<tableVars, mutex, incoming, handleVars, sendVars, peerVars>>

SetConnected ==
    /\ apc = "connected"
    /\ bits' = bits \cup {"connected"}
    /\ apc' = "check" /\ incoming' = NoPeer
    /\ UNCHANGED <<tableVars, mutex, handleVars, sendVars, peerVars>>

-----------------------------------------------------------------------------
(* The request task.                                                       *)

\* xEventGroupWaitBits leaves the bit set.
WaitAvailable ==
    /\ hpc = "wait"
    /\ "available" \in bits
    /\ hpc' = "snapshot"
    /\ UNCHANGED <<tableVars, mutex, bits, acceptVars, fds, revents, slot, requests,
                   interest, sendVars, peerVars>>

Snapshot ==
    /\ hpc = "snapshot"
    /\ mutex = "free"
    /\ fds' = connections
    /\ hpc' = "poll"
    /\ UNCHANGED <<tableVars, mutex, bits, acceptVars, revents, slot, requests,
                   interest, sendVars, peerVars>>

Readable_BytesOnly(p) == p \in sockets /\ delivered[p] > received[p]

\* What poll() calls readable: bytes that have arrived, or an end of the stream.
Readable(p) == p \in sockets /\ (delivered[p] > received[p] \/ link[p] \in {"closed", "reset"})

\* poll() with no timeout: it returns only for a socket of the copied table.
Poll ==
    /\ hpc = "poll"
    /\ LET ready == {i \in Slots : fds[i] # NoPeer /\ Readable(fds[i])} IN
         /\ ready # {}
         /\ revents' = ready
    /\ hpc' = "lock"
    /\ UNCHANGED <<tableVars, mutex, bits, acceptVars, fds, slot, requests,
                   interest, sendVars, peerVars>>

LockTable ==
    /\ hpc = "lock"
    /\ mutex = "free"
    /\ mutex' = "requests"
    /\ slot' = 0
    /\ hpc' = "receive"
    /\ UNCHANGED <<tableVars, bits, acceptVars, fds, revents, requests, interest,
                   sendVars, peerVars>>

Disconnect_KeepsInterest(i) ==
    /\ connections' = [connections EXCEPT ![i] = NoPeer]
    /\ mask' = mask
    /\ count' = count - 1

\* server_disconnect_client_no_sync clears the slot; the socket stays open.
Disconnect(i) ==
    /\ connections' = [connections EXCEPT ![i] = NoPeer]
    /\ mask' = mask \ {i}
    /\ count' = count - 1

SkipSlot ==
    /\ hpc = "receive" /\ slot < MaxConnections
    /\ connections[slot] = NoPeer \/ slot \notin revents
    /\ slot' = slot + 1
    /\ UNCHANGED <<tableVars, mutex, bits, acceptVars, hpc, fds, revents, requests,
                   interest, sendVars, peerVars>>

\* recv() returns an error after a reset, 0 at the end of the stream.
Ended_DropsTail(p) == link[p] \in {"closed", "reset"}
Ended(p) == link[p] = "reset" \/ (link[p] = "closed" /\ delivered[p] = received[p])

ReceiveEnd ==
    /\ hpc = "receive" /\ slot < MaxConnections
    /\ connections[slot] # NoPeer /\ slot \in revents
    /\ Ended(fds[slot])
    /\ Disconnect(slot)
    /\ slot' = slot + 1
    /\ UNCHANGED <<chunk, mutex, bits, acceptVars, hpc, fds, revents, requests,
                   interest, sendVars, peerVars>>

\* The bytes recv() returns, and the byte of the stream at an offset.
Pending(p) == delivered[p] - received[p]
Taken(p) == IF Pending(p) <= MaxRequestSize THEN Pending(p) ELSE MaxRequestSize
StreamByte(p, n) ==
    IF n % MessageBytes = HeaderBytes THEN sent[p][n \div MessageBytes + 1] ELSE 2

\* A parsed request: its slot, and whether its first four bytes are the header
\* of an interest message.  (from is the sender, for the properties only.)
Request_WrongIndex(i, p) ==
    [slot |-> Len(requests), from |-> p, known |-> received[p] % MessageBytes = 0]
Request(i, p) ==
    [slot |-> i, from |-> p, known |-> received[p] % MessageBytes = 0]

\* recv() returns bytes.  Whatever starts them is parsed as one request, whose
\* body stays in the buffer; fewer than four bytes are dropped, and so is all
\* that follows the first message.
ReceiveBytes ==
    /\ hpc = "receive" /\ slot < MaxConnections
    /\ connections[slot] # NoPeer /\ slot \in revents
    /\ LET p == fds[slot]
           n == Taken(p)
       IN /\ ~Ended(p)
          /\ received' = [received EXCEPT ![p] = @ + n]
          /\ chunk' = IF n <= HeaderBytes THEN chunk
                      ELSE [chunk EXCEPT ![slot] = StreamByte(p, received[p] + HeaderBytes)]
          /\ requests' = IF n < HeaderBytes THEN requests
                         ELSE Append(requests, Request(slot, p))
    /\ slot' = slot + 1
    /\ UNCHANGED <<connections, count, mask, mutex, bits, acceptVars, hpc, fds, revents,
                   interest, sendVars, link, sockets, sent, delivered>>

\* The copy of the table goes out of scope with server_handle_requests.
UnlockTable ==
    /\ hpc = "receive" /\ slot = MaxConnections
    /\ mutex' = "free"
    /\ hpc' = "serve"
    /\ fds' = [i \in Slots |-> NoPeer] /\ revents' = {} /\ slot' = 0
    /\ UNCHANGED <<tableVars, bits, acceptVars, requests, interest, sendVars, peerVars>>

IgnoreRequest ==
    /\ hpc = "serve" /\ requests # <<>>
    /\ ~Head(requests).known
    /\ requests' = Tail(requests)
    /\ UNCHANGED <<tableVars, mutex, bits, acceptVars, hpc, fds, revents, slot, interest,
                   sendVars, peerVars>>

UpdateLocked_Not == TRUE
UpdateLocked == mutex = "free"

NewMask_OnlyAdds(i, wants) == IF wants THEN mask \cup {i} ELSE mask
NewMask(i, wants) == IF wants THEN mask \cup {i} ELSE mask \ {i}

\* update_video_interest under the mutex.  The body is read from the buffer
\* now; a byte that is not a bool reads as either one.  For a slot that is no
\* longer active server_update_client_video_interest reports an empty mask.
UpdateInterest ==
    /\ hpc = "serve" /\ requests # <<>>
    /\ Head(requests).known
    /\ UpdateLocked
    /\ LET i == Head(requests).slot IN
       \E wants \in IF chunk[i] = 2 THEN BOOLEAN ELSE {chunk[i] = 1} :
          /\ mask' = IF i \in Active THEN NewMask(i, wants) ELSE mask
          /\ interest' = [before |-> mask # {},
                          after |-> i \in Active /\ NewMask(i, wants) # {}]
    /\ hpc' = "signal"
    /\ UNCHANGED <<connections, count, chunk, mutex, bits, acceptVars, fds, revents, slot,
                   requests, sendVars, peerVars>>

BitsAfter_Swapped(old, new) ==
    IF old = new THEN bits
    ELSE IF new THEN bits \ {"interested"} ELSE bits \cup {"interested"}
BitsAfter(old, new) ==
    IF old = new THEN bits
    ELSE IF new THEN bits \cup {"interested"} ELSE bits \ {"interested"}

\* ... and then, without it, the event bit on a change to or from "nobody".
SignalInterest ==
    /\ hpc = "signal"
    /\ bits' = BitsAfter(interest.before, interest.after)
    /\ requests' = Tail(requests)
    /\ interest' = Nobody
    /\ hpc' = "serve"
    /\ UNCHANGED <<tableVars, mutex, acceptVars, fds, revents, slot, sendVars, peerVars>>

NoClients_OffByOne == count <= 1
NoClients == count = 0

\* server_get_clients_count_sync; the bit is cleared after the mutex is given.
CheckClients ==
    /\ hpc = "serve" /\ requests = <<>>
    /\ mutex = "free"
    /\ hpc' = IF NoClients THEN "clear available" ELSE "interest"
    /\ UNCHANGED <<tableVars, mutex, bits, acceptVars, fds, revents, slot, requests,
                   interest, sendVars, peerVars>>

ClearAvailable ==
    /\ hpc = "clear available"
    /\ bits' = bits \ {"available"}
    /\ hpc' = "interest"
    /\ UNCHANGED <<tableVars, mutex, acceptVars, fds, revents, slot, requests,
                   interest, sendVars, peerVars>>

NobodyInterested_Unchecked == FALSE
NobodyInterested == mask = {}

CheckInterest ==
    /\ hpc = "interest"
    /\ mutex = "free"
    /\ hpc' = IF NobodyInterested THEN "clear interested" ELSE "wait"
    /\ UNCHANGED <<tableVars, mutex, bits, acceptVars, fds, revents, slot, requests,
                   interest, sendVars, peerVars>>

ClearInterested ==
    /\ hpc = "clear interested"
    /\ bits' = bits \ {"interested"}
    /\ hpc' = "wait"
    /\ UNCHANGED <<tableVars, mutex, acceptVars, fds, revents, slot, requests,
                   interest, sendVars, peerVars>>

-----------------------------------------------------------------------------
(* The send task: the loop of server_send_image_data under the mutex.       *)

SendBegin ==
    /\ spc = "idle"
    /\ mutex = "free"
    /\ mutex' = "send"
    /\ spc' = "sending"
    /\ UNCHANGED <<tableVars, bits, acceptVars, handleVars, sslot, sentTo, peerVars>>

SendLoop_OffByOne == sslot <= MaxConnections
SendLoop == sslot < MaxConnections

\* A failed sendmsg() is logged and the loop goes on: it counts as sent.
SendTo_DropsClient(i) ==
    \/ sentTo' = sentTo \cup {connections[i]} /\ UNCHANGED tableVars
    \/ Disconnect(i) /\ UNCHANGED <<chunk, sentTo>>
SendTo(i) == sentTo' = sentTo \cup {connections[i]} /\ UNCHANGED tableVars

SendSlot ==
    /\ spc = "sending" /\ SendLoop
    /\ IF sslot \in Active \cap mask THEN SendTo(sslot)
         ELSE UNCHANGED <<sentTo, tableVars>>
    /\ sslot' = sslot + 1
    /\ UNCHANGED <<mutex, bits, acceptVars, handleVars, spc, peerVars>>

SendEnd ==
    /\ spc = "sending" /\ sslot = MaxConnections
    /\ mutex' = "free"
    /\ spc' = "idle" /\ sslot' = 0 /\ sentTo' = {}
    /\ UNCHANGED <<tableVars, bits, acceptVars, handleVars, peerVars>>

-----------------------------------------------------------------------------
Network ==
    \E p \in Peers :
        Connect(p) \/ (\E b \in {0, 1} : Write(p, b)) \/ Deliver(p) \/ Leave(p)

Accept ==
    \/ AcceptCheck \/ (\E p \in Peers : AcceptConnection(p)) \/ Install
    \/ CountClients \/ SetAvailable \/ SetConnected

\* The steps of the request task that take the mutex, and the others.
HandleLocking ==
    Snapshot \/ LockTable \/ UpdateInterest \/ CheckClients \/ CheckInterest
HandleLocal ==
    \/ WaitAvailable \/ Poll \/ SkipSlot \/ ReceiveEnd \/ ReceiveBytes \/ UnlockTable
    \/ IgnoreRequest \/ SignalInterest \/ ClearAvailable \/ ClearInterested
Handle == HandleLocking \/ HandleLocal

Send == SendBegin \/ SendSlot \/ SendEnd

Next == Network \/ Accept \/ Handle \/ Send

(***************************************************************************)
(* Every task keeps running, and a task that waits for the mutex gets it   *)
(* (a FreeRTOS mutex wakes its longest waiter of the highest priority, and *)
(* these tasks run at the same clamped priority): strong fairness for the  *)
(* steps that take it.  TCP delivers what was written.  Clients owe        *)
(* nothing, and the camera owes no frame.                                  *)
(***************************************************************************)
Fairness ==
    /\ SF_vars(AcceptCheck) /\ SF_vars(Install) /\ WF_vars(Accept)
    /\ SF_vars(HandleLocking) /\ WF_vars(HandleLocal)
    /\ WF_vars(SendSlot \/ SendEnd)
    /\ \A p \in Peers : WF_vars(Deliver(p))

Spec == Init /\ [][Next]_vars
FairSpec == Spec /\ Fairness
-----------------------------------------------------------------------------
Links == {"none", "backlog", "open", "closed", "reset", "aborted", "refused"}
Requests == [slot : Slots, from : Peers, known : BOOLEAN]

TableTyped ==
    /\ connections \in [Slots -> Peers \cup {NoPeer}]
    /\ count \in Int
    /\ mask \subseteq Slots
    /\ chunk \in [Slots -> Byte]
    /\ mutex \in {"free", "requests", "send"}
    /\ bits \subseteq EventBits

AcceptTyped ==
    /\ apc \in {"check", "accept", "install", "count", "announce", "connected"}
    /\ incoming \in Peers \cup {NoPeer}

HandlerTyped ==
    /\ hpc \in {"wait", "snapshot", "poll", "lock", "receive", "serve", "signal",
                "clear available", "interest", "clear interested"}
    /\ fds \in [Slots -> Peers \cup {NoPeer}]
    /\ revents \subseteq Slots
    /\ slot \in 0 .. MaxConnections
    /\ requests \in Seq(Requests)
    /\ interest \in [before : BOOLEAN, after : BOOLEAN]

SenderTyped ==
    /\ spc \in {"idle", "sending"}
    /\ sslot \in 0 .. MaxConnections
    /\ sentTo \subseteq Peers

PeersTyped ==
    /\ link \in [Peers -> Links]
    /\ sockets \subseteq Peers
    /\ sent \in [Peers -> Seq({0, 1})]
    /\ delivered \in [Peers -> Nat]
    /\ received \in [Peers -> Nat]

\* Every variable keeps its type.
TypeOK == TableTyped /\ AcceptTyped /\ HandlerTyped /\ SenderTyped /\ PeersTyped

\* The three pieces of state a connection is spread over agree whenever a task
\* can look at them: the count is the number of active slots, no interest bit
\* outlives its client (the next one in the slot would inherit it), and no
\* client holds two slots.
TableConsistent ==
    /\ count = Cardinality(Active)
    /\ mask \subseteq Active
    /\ \A i, j \in Active : connections[i] = connections[j] => i = j

\* The request task copies the table, gives the mutex, and uses the copy after
\* poll(): each slot it polls still holds the client it held in the copy, so
\* recv() on fds[i].fd never speaks of another client than connections[i].
SnapshotMatches ==
    /\ hpc \in {"poll", "lock"} =>
         \A i \in Slots : fds[i] # NoPeer => connections[i] = fds[i]
    /\ hpc = "receive" =>
         \A i \in slot .. MaxConnections - 1 : fds[i] # NoPeer => connections[i] = fds[i]

\* A parsed request is served, after the mutex was given and taken again, for
\* the client that sent it: the "not active" answer of
\* server_update_client_video_interest, which update_video_interest would take
\* for "nobody is interested", is never given.
RequestFromActive ==
    \A k \in DOMAIN requests : connections[requests[k].slot] = requests[k].from

\* The room the accept task saw before it blocked in accept() is still there
\* when it installs the client, or the new connection would be lost.
AcceptFindsSlot == apc = "install" => Free # {}

\* Whenever the request task goes back to wait, the event bit the camera task
\* waits for says whether some client is interested.
InterestBitMatches ==
    hpc = "wait" => ("interested" \in bits <=> mask # {})

\* A frame goes to exactly the clients that are interested when it was sent:
\* the loop sees one table, though it gives up the processor between clients.
FrameReachesInterested ==
    spc = "sending" /\ sslot = MaxConnections =>
        sentTo = {connections[i] : i \in mask}

(***************************************************************************)
(* The inductive invariant behind the safety properties: what each task    *)
(* may rely on where it is.                                                *)
(***************************************************************************)

\* No byte is received before it is delivered, or delivered before written.
StreamOrder ==
    \A p \in Peers : /\ received[p] <= delivered[p]
                     /\ delivered[p] <= MessageBytes * Len(sent[p])

\* The mutex is held exactly inside the two critical sections of several steps.
MutexHeld ==
    /\ mutex = "requests" <=> hpc = "receive"
    /\ mutex = "send" <=> spc = "sending"

\* What poll() reported is about its copy of the table, and neither outlives
\* server_handle_requests; parsed requests are from slots already passed.
HandlerLocals ==
    /\ \A i \in revents : fds[i] # NoPeer
    /\ hpc \notin {"lock", "receive"} => revents = {}
    /\ hpc \notin {"receive", "serve", "signal"} => requests = <<>>
    /\ hpc = "signal" => requests # <<>>
    /\ hpc = "receive" => \A k \in DOMAIN requests : requests[k].slot < slot

\* A connection that the accept task holds is in no slot yet, and only accepted
\* connections are; while it is blocked in accept() nobody else fills a slot.
AcceptLocals ==
    /\ \A i \in Active : connections[i] \in sockets
    /\ apc = "install" => /\ incoming \in sockets
                          /\ \A i \in Slots : connections[i] # incoming
    /\ apc \in {"accept", "install"} => count < MaxConnections

\* The frame has gone to the interested clients of the slots passed so far.
SendProgress ==
    /\ spc = "idle" => sslot = 0 /\ sentTo = {}
    /\ spc = "sending" => sentTo = {connections[i] : i \in {j \in mask : j < sslot}}

\* The event bit is never clear while a client is interested, except between
\* the change and its signal; it is stale only until the loop comes round.
InterestBit ==
    /\ hpc \in {"wait", "snapshot", "poll", "lock"} => ("interested" \in bits <=> mask # {})
    /\ hpc \in {"receive", "serve", "clear available", "interest"} =>
         (mask # {} => "interested" \in bits)
    /\ hpc = "signal" => /\ interest.after <=> mask # {}
                         /\ interest.before => "interested" \in bits
    /\ hpc = "clear interested" => mask = {}

ServerInv ==
    /\ TypeOK /\ StreamOrder /\ MutexHeld /\ TableConsistent /\ HandlerLocals
    /\ SnapshotMatches /\ RequestFromActive /\ AcceptLocals
    /\ SendProgress /\ InterestBit

\* README: a client receives no image until it declares that it wants to.
InterestWasDeclared ==
    \A i \in mask \cap Active : \E k \in 1 .. received[connections[i]] \div MessageBytes :
        sent[connections[i]][k] = 1

\* README: a client turns the images on and off with interest messages; the
\* last one the server has received and served is the one that counts.
LastWordWins ==
    \A i \in Active :
        (\A k \in DOMAIN requests : requests[k].slot # i) =>
            LET n == received[connections[i]] \div MessageBytes IN
            i \in mask <=> n > 0 /\ sent[connections[i]][n] = 1

\* README: as soon as the connection is established the client is greeted; the
\* server, which calls accept() only while its table has room, turns none away.  Checked
\* with a socket for each slot, so that only one that a client left behind can be missing.
EveryClientGreeted == \A p \in Peers : link[p] # "refused"

\* A step that frees a slot finds its client reset, or closed and read to the end.
FreedAtEnd ==
    \A i \in Slots :
        connections[i] # NoPeer /\ connections'[i] # connections[i] =>
            LET p == connections[i] IN
            \/ link[p] = "reset"
            \/ link[p] = "closed" /\ received[p] = delivered[p]

\* A slot is freed only after a reset, or at the end of a stream that was read
\* to its end: nothing a client wrote before it closed is lost.
FreedAtStreamEnd == [][FreedAtEnd]_vars

\* README: after the interest message the server starts to send: the client
\* whose last word, all of it delivered, is 1 becomes interested.
InterestServed ==
    \A p \in Peers :
        link[p] = "open" /\ Len(sent[p]) = MaxMessages /\ sent[p][MaxMessages] = 1
            /\ delivered[p] = MessageBytes * MaxMessages
        ~> link[p] # "open" \/ \E i \in mask : connections[i] = p

\* A client that has gone frees its slot.
GoneIsFreed ==
    \A p \in Peers :
        link[p] \in {"closed", "reset"} /\ p \in sockets
        ~> \A i \in Slots : connections[i] # p

\* While a client is connected the request task is not left waiting for the
\* bit that says one is available.
ClientsAwaited ==
    \A p \in Peers :
        (\E i \in Slots : connections[i] = p)
        ~> hpc # "wait" \/ \A i \in Slots : connections[i] # p
=============================================================================
