---------------------------- MODULE ServerProofs ----------------------------
(***************************************************************************)
(* Proofs about Server for every number of clients, slots, sockets and     *)
(* messages.  ServerInv is inductive; each safety property is one of its   *)
(* conjuncts or follows from it.  One lemma for each conjunct says that    *)
(* every step keeps it.  What the README promises of a client's interest   *)
(* needs InterestInv besides, in the second half, and messages that arrive *)
(* whole.                                                                  *)
(***************************************************************************)
EXTENDS Server, TLAPS, FiniteSetTheorems, SequenceTheorems

\* The offset of a byte tells the message it belongs to.
LEMMA MessageOfOffset ==
    ASSUME NEW L \in Nat, NEW n \in Nat, n < 5 * L
    PROVE  n \div 5 + 1 \in 1 .. L
<1>1. n \div 5 \in Nat /\ 5 * (n \div 5) <= n
  OBVIOUS
<1>2. QED BY <1>1

\* The byte of a stream at an offset that has been written is a byte.
LEMMA StreamByteType ==
    ASSUME PeersTyped, NEW p \in Peers, NEW n \in Nat, n < 5 * Len(sent[p])
    PROVE  StreamByte(p, n) \in Byte
<1>1. sent[p] \in Seq({0, 1}) /\ Len(sent[p]) \in Nat
  BY DEF PeersTyped
<1>2. n \div 5 + 1 \in 1 .. Len(sent[p])
  BY <1>1, MessageOfOffset
<1>3. sent[p][n \div 5 + 1] \in {0, 1}
  BY <1>1, <1>2
<1>4. QED BY <1>3 DEF StreamByte, Byte, MessageBytes, HeaderBytes

\* What recv() takes is at most what is there.
LEMMA TakenBounds ==
    ASSUME PeersTyped, StreamOrder, NEW p \in Peers
    PROVE  /\ Taken(p) \in Nat
           /\ received[p] + Taken(p) <= delivered[p]
<1>1. received[p] \in Nat /\ delivered[p] \in Nat /\ received[p] <= delivered[p]
  BY DEF PeersTyped, StreamOrder
<1>2. MaxRequestSize \in Nat
  BY ServerAssumption
<1>3. QED BY <1>1, <1>2 DEF Taken, Pending

\* In the receive loop the slot that is read is polled, and still the client's.
LEMMA ReceiveFrom ==
    ASSUME ServerInv, hpc = "receive", slot < MaxConnections, slot \in revents
    PROVE  /\ slot \in Slots
           /\ fds[slot] \in Peers
           /\ connections[slot] = fds[slot]
<1>1. slot \in Slots /\ slot \in slot .. MaxConnections - 1
  BY ServerAssumption DEF ServerInv, TypeOK, HandlerTyped, Slots
<1>2. fds[slot] # NoPeer
  BY DEF ServerInv, HandlerLocals
<1>3. fds[slot] \in Peers
  BY <1>1, <1>2 DEF ServerInv, TypeOK, HandlerTyped
<1>4. QED BY <1>1, <1>2, <1>3 DEF ServerInv, SnapshotMatches

-----------------------------------------------------------------------------
(* Types.                                                                  *)

LEMMA TypeInit == Init => TypeOK
BY ServerAssumption
   DEF Init, TypeOK, TableTyped, AcceptTyped, HandlerTyped, SenderTyped,
       PeersTyped, Links, Requests, Nobody, Byte, Slots, EventBits

\* A part of the state that a step leaves alone keeps its type.
LEMMA TypeFrame ==
    ASSUME TypeOK
    PROVE  /\ UNCHANGED <<tableVars, mutex, bits>> => TableTyped'
           /\ UNCHANGED acceptVars => AcceptTyped'
           /\ UNCHANGED handleVars => HandlerTyped'
           /\ UNCHANGED sendVars => SenderTyped'
           /\ UNCHANGED peerVars => PeersTyped'
<1>1. UNCHANGED <<tableVars, mutex, bits>> => TableTyped'
  BY DEF TypeOK, TableTyped, tableVars
<1>2. UNCHANGED acceptVars => AcceptTyped'
  BY DEF TypeOK, AcceptTyped, acceptVars
<1>3. UNCHANGED handleVars => HandlerTyped'
  BY DEF TypeOK, HandlerTyped, handleVars
<1>4. UNCHANGED sendVars => SenderTyped'
  BY DEF TypeOK, SenderTyped, sendVars
<1>5. UNCHANGED peerVars => PeersTyped'
  BY DEF TypeOK, PeersTyped, peerVars
<1>6. QED BY <1>1, <1>2, <1>3, <1>4, <1>5

LEMMA NetworkTypes ==
    ASSUME TypeOK, Network
    PROVE  TypeOK'
<1> USE DEF PeersTyped, peerVars
<1>1. TableTyped' /\ AcceptTyped' /\ HandlerTyped' /\ SenderTyped'
  BY TypeFrame DEF Network, Connect, Write, Deliver, Leave
<1>2. ASSUME NEW p \in Peers, Connect(p) PROVE PeersTyped'
  BY <1>2 DEF Connect, Links, TypeOK
<1>3. ASSUME NEW p \in Peers, NEW b \in {0, 1}, Write(p, b) PROVE PeersTyped'
  BY <1>3 DEF Write, TypeOK
<1>4. ASSUME NEW p \in Peers, Deliver(p) PROVE PeersTyped'
  <2>1. PICK n \in delivered[p] + 1 .. MessageBytes * Len(sent[p]) :
               delivered' = [delivered EXCEPT ![p] = n]
    BY <1>4 DEF Deliver
  <2>2. delivered[p] \in Nat /\ Len(sent[p]) \in Nat
    BY DEF TypeOK
  <2>3. n \in Nat
    BY <2>1, <2>2
  <2>4. QED BY <1>4, <2>1, <2>3 DEF Deliver, TypeOK
<1>5. ASSUME NEW p \in Peers, Leave(p) PROVE PeersTyped'
  BY <1>5 DEF Leave, Links, TypeOK
<1>6. QED BY <1>1, <1>2, <1>3, <1>4, <1>5 DEF Network, TypeOK

LEMMA AcceptTypes ==
    ASSUME TypeOK, Accept
    PROVE  TypeOK'
<1>1. HandlerTyped' /\ SenderTyped'
  BY TypeFrame DEF Accept, AcceptCheck, AcceptConnection, Install, CountClients,
                   SetAvailable, SetConnected
<1>2. AcceptTyped'
  BY DEF Accept, AcceptCheck, AcceptConnection, Install, CountClients,
         SetAvailable, SetConnected, TypeOK, AcceptTyped
<1>3. PeersTyped'
  <2>1. ASSUME NEW p \in Peers, AcceptConnection(p) PROVE PeersTyped'
    BY <2>1 DEF AcceptConnection, TypeOK, PeersTyped, Links
  <2>2. QED BY <2>1, TypeFrame DEF Accept, AcceptCheck, Install, CountClients,
                                   SetAvailable, SetConnected
<1>4. TableTyped'
  <2>1. CASE Install
    <3>1. connections' \in [Slots -> Peers \cup {NoPeer}]
      BY <2>1 DEF Install, TypeOK, TableTyped, AcceptTyped
    <3>2. count' \in Int
      BY <2>1 DEF Install, TypeOK, TableTyped
    <3>3. QED BY <2>1, <3>1, <3>2 DEF Install, TypeOK, TableTyped
  <2>2. CASE SetAvailable
    BY <2>2 DEF SetAvailable, TypeOK, TableTyped, tableVars, EventBits
  <2>3. CASE SetConnected
    BY <2>3 DEF SetConnected, TypeOK, TableTyped, tableVars, EventBits
  <2>4. QED BY <2>1, <2>2, <2>3, TypeFrame
            DEF Accept, AcceptCheck, AcceptConnection, CountClients
<1>5. QED BY <1>1, <1>2, <1>3, <1>4 DEF TypeOK

LEMMA HandleTypes ==
    ASSUME ServerInv, Handle
    PROVE  TypeOK'
<1>0. TypeOK BY DEF ServerInv
<1>1. AcceptTyped' /\ SenderTyped'
  BY <1>0, TypeFrame
     DEF Handle, HandleLocking, HandleLocal, Snapshot, LockTable, UpdateInterest,
         CheckClients, CheckInterest, WaitAvailable, Poll, SkipSlot, ReceiveEnd,
         ReceiveBytes, UnlockTable, IgnoreRequest, SignalInterest, ClearAvailable,
         ClearInterested
<1>2. CASE ReceiveBytes
  <2> DEFINE p == fds[slot]
  <2>1. slot \in Slots /\ p \in Peers
    BY <1>2, ReceiveFrom DEF ReceiveBytes
  <2>2. Taken(p) \in Nat /\ received[p] + Taken(p) <= delivered[p]
    BY <1>0, <2>1, TakenBounds DEF ServerInv, TypeOK
  <2>3. delivered[p] \in Nat /\ received[p] \in Nat /\ Len(sent[p]) \in Nat
    BY <1>0, <2>1 DEF TypeOK, PeersTyped
  <2>4. PeersTyped'
    BY <1>0, <1>2, <2>1, <2>2, <2>3 DEF ReceiveBytes, TypeOK, PeersTyped
  <2>5. TableTyped'
    <3>1. CASE Taken(p) <= HeaderBytes
      BY <1>0, <1>2, <3>1 DEF ReceiveBytes, TypeOK, TableTyped
    <3>2. CASE Taken(p) > HeaderBytes
      <4>1. delivered[p] <= 5 * Len(sent[p])
        BY <2>1 DEF ServerInv, StreamOrder, MessageBytes
      <4>2. received[p] + 4 \in Nat /\ received[p] + 4 < 5 * Len(sent[p])
        BY <2>2, <2>3, <3>2, <4>1 DEF HeaderBytes
      <4>3. StreamByte(p, received[p] + HeaderBytes) \in Byte
        BY <1>0, <2>1, <4>2, StreamByteType DEF HeaderBytes, TypeOK
      <4>4. chunk' \in [Slots -> Byte]
        BY <1>0, <1>2, <2>1, <4>3 DEF ReceiveBytes, TypeOK, TableTyped
      <4>5. QED BY <1>0, <1>2, <4>4 DEF ReceiveBytes, TypeOK, TableTyped
    <3>3. QED BY <2>2, <3>1, <3>2 DEF HeaderBytes
  <2>6. requests' \in Seq(Requests)
    <3>1. Request(slot, p) \in Requests
      BY <2>1 DEF Request, Requests
    <3>2. requests \in Seq(Requests)
      BY <1>0 DEF TypeOK, HandlerTyped
    <3>3. Append(requests, Request(slot, p)) \in Seq(Requests)
      BY <3>1, <3>2
    <3>4. QED BY <1>2, <3>2, <3>3 DEF ReceiveBytes
  <2>7. slot' \in 0 .. MaxConnections
    BY <1>0, <1>2, ServerAssumption DEF ReceiveBytes, TypeOK, HandlerTyped
  <2>8. HandlerTyped'
    BY <1>0, <1>2, <2>6, <2>7 DEF ReceiveBytes, TypeOK, HandlerTyped
  <2>9. QED BY <1>1, <2>4, <2>5, <2>8 DEF TypeOK
<1>3. CASE Handle /\ ~ReceiveBytes
  <2>1. PeersTyped'
    BY <1>0, <1>3, TypeFrame
       DEF Handle, HandleLocking, HandleLocal, Snapshot, LockTable, UpdateInterest,
           CheckClients, CheckInterest, WaitAvailable, Poll, SkipSlot, ReceiveEnd,
           UnlockTable, IgnoreRequest, SignalInterest, ClearAvailable, ClearInterested
  <2>2. TableTyped'
    <3>1. CASE UpdateInterest
      BY <1>0, <3>1 DEF UpdateInterest, NewMask, Active, TypeOK, TableTyped
    <3>2. CASE ReceiveEnd
      <4>0. connections \in [Slots -> Peers \cup {NoPeer}] /\ count \in Int
        BY <1>0 DEF TypeOK, TableTyped
      <4>1. connections' \in [Slots -> Peers \cup {NoPeer}] /\ count' \in Int
        <5>1. connections' = [connections EXCEPT ![slot] = NoPeer] /\ count' = count - 1
          BY <3>2 DEF ReceiveEnd, Disconnect
        <5>2. connections' \in [Slots -> Peers \cup {NoPeer}]
          BY <4>0, <5>1
        <5>3. count' \in Int
          BY <4>0, <5>1
        <5>4. QED BY <5>2, <5>3
      <4>2. mask' \subseteq Slots
        BY <1>0, <3>2 DEF ReceiveEnd, Disconnect, TypeOK, TableTyped
      <4>3. QED BY <1>0, <3>2, <4>1, <4>2 DEF ReceiveEnd, TypeOK, TableTyped
    <3>3. CASE SignalInterest
      BY <1>0, <3>3 DEF SignalInterest, BitsAfter, TypeOK, TableTyped, tableVars, EventBits
    <3>4. CASE ~UpdateInterest /\ ~ReceiveEnd /\ ~SignalInterest
      BY <1>0, <1>3, <3>4
         DEF Handle, HandleLocking, HandleLocal, Snapshot, LockTable, CheckClients,
             CheckInterest, WaitAvailable, Poll, SkipSlot, UnlockTable, IgnoreRequest,
             ClearAvailable, ClearInterested, TypeOK, TableTyped, tableVars
    <3>5. QED BY <3>1, <3>2, <3>3, <3>4
  <2>3. HandlerTyped'
    <3>1. CASE Snapshot
      BY <1>0, <3>1 DEF Snapshot, TypeOK, HandlerTyped, TableTyped
    <3>2. CASE Poll
      BY <1>0, <3>2 DEF Poll, TypeOK, HandlerTyped
    <3>3. CASE LockTable \/ SkipSlot \/ ReceiveEnd \/ UnlockTable
      <4>1. slot' \in 0 .. MaxConnections
        <5>1. slot' = 0 \/ (slot < MaxConnections /\ slot' = slot + 1)
          BY <3>3 DEF LockTable, SkipSlot, ReceiveEnd, UnlockTable
        <5>2. slot \in 0 .. MaxConnections /\ MaxConnections \in Nat
          BY <1>0, ServerAssumption DEF TypeOK, HandlerTyped
        <5>3. QED BY <5>1, <5>2
      <4>2. fds' \in [Slots -> Peers \cup {NoPeer}]
        BY <1>0, <3>3 DEF LockTable, SkipSlot, ReceiveEnd, UnlockTable, TypeOK, HandlerTyped
      <4>3. hpc' \in {"receive", "serve"} /\ revents' \subseteq Slots
        BY <1>0, <3>3 DEF LockTable, SkipSlot, ReceiveEnd, UnlockTable, TypeOK, HandlerTyped
      <4>4. UNCHANGED <<requests, interest>>
        BY <3>3 DEF LockTable, SkipSlot, ReceiveEnd, UnlockTable
      <4>5. QED BY <1>0, <4>1, <4>2, <4>3, <4>4 DEF TypeOK, HandlerTyped
    <3>4. CASE IgnoreRequest \/ UpdateInterest \/ SignalInterest
      <4>1. requests # <<>>
        BY <3>4 DEF IgnoreRequest, UpdateInterest, SignalInterest, ServerInv, HandlerLocals
      <4>2. Tail(requests) \in Seq(Requests)
        <5>1. requests \in Seq(Requests)
          BY <1>0 DEF TypeOK, HandlerTyped
        <5>2. QED BY <4>1, <5>1, HeadTailProperties
      <4>3. CASE IgnoreRequest
        BY <1>0, <4>2, <4>3 DEF IgnoreRequest, TypeOK, HandlerTyped
      <4>4. CASE UpdateInterest
        BY <1>0, <4>4 DEF UpdateInterest, TypeOK, HandlerTyped
      <4>5. CASE SignalInterest
        BY <1>0, <4>2, <4>5 DEF SignalInterest, Nobody, TypeOK, HandlerTyped
      <4>6. QED BY <3>4, <4>3, <4>4, <4>5
    <3>5. CASE WaitAvailable \/ CheckClients \/ ClearAvailable \/ CheckInterest
                 \/ ClearInterested
      BY <1>0, <3>5 DEF WaitAvailable, CheckClients, ClearAvailable, CheckInterest,
                        ClearInterested, TypeOK, HandlerTyped
    <3>6. QED BY <1>3, <3>1, <3>2, <3>3, <3>4, <3>5 DEF Handle, HandleLocking, HandleLocal
  <2>4. QED BY <1>1, <2>1, <2>2, <2>3 DEF TypeOK
<1>4. QED BY <1>2, <1>3

LEMMA SendTypes ==
    ASSUME TypeOK, Send
    PROVE  TypeOK'
<1>1. AcceptTyped' /\ HandlerTyped' /\ PeersTyped'
  BY TypeFrame DEF Send, SendBegin, SendSlot, SendEnd
<1>2. TableTyped'
  BY DEF Send, SendBegin, SendSlot, SendTo, SendEnd, TypeOK, TableTyped, tableVars
<1>3. SenderTyped'
  <2>1. CASE SendBegin \/ SendEnd
    BY <2>1, ServerAssumption DEF SendBegin, SendEnd, TypeOK, SenderTyped
  <2>2. CASE SendSlot
    <3>1. sentTo' \subseteq Peers
      BY <2>2 DEF SendSlot, SendTo, Active, TypeOK, SenderTyped, TableTyped
    <3>2. sslot' \in 0 .. MaxConnections
      BY <2>2, ServerAssumption DEF SendSlot, SendLoop, TypeOK, SenderTyped
    <3>3. QED BY <2>2, <3>1, <3>2 DEF SendSlot, TypeOK, SenderTyped
  <2>3. QED BY <2>1, <2>2 DEF Send
<1>4. QED BY <1>1, <1>2, <1>3 DEF TypeOK

LEMMA TypeStep ==
    ASSUME ServerInv, [Next]_vars
    PROVE  TypeOK'
<1>1. CASE UNCHANGED vars
  BY <1>1, TypeFrame DEF ServerInv, vars, TypeOK
<1>2. QED BY <1>1, NetworkTypes, AcceptTypes, HandleTypes, SendTypes DEF Next, ServerInv

-----------------------------------------------------------------------------
(* What the steps of each task leave alone.                                *)

LEMMA NetworkFrame ==
    Network => UNCHANGED <<tableVars, mutex, bits, acceptVars, handleVars, sendVars>>
BY DEF Network, Connect, Write, Deliver, Leave

LEMMA AcceptFrame ==
    Accept => UNCHANGED <<mask, chunk, mutex, handleVars, sendVars, sent, delivered, received>>
BY DEF Accept, AcceptCheck, AcceptConnection, Install, CountClients, SetAvailable,
       SetConnected, tableVars, peerVars

LEMMA HandleFrame ==
    Handle => UNCHANGED <<acceptVars, sendVars, link, sockets, sent, delivered>>
BY DEF Handle, HandleLocking, HandleLocal, Snapshot, LockTable, UpdateInterest,
       CheckClients, CheckInterest, WaitAvailable, Poll, SkipSlot, ReceiveEnd,
       ReceiveBytes, UnlockTable, IgnoreRequest, SignalInterest, ClearAvailable,
       ClearInterested, peerVars

LEMMA SenderFrame ==
    Send => UNCHANGED <<tableVars, bits, acceptVars, handleVars, peerVars>>
BY DEF Send, SendBegin, SendSlot, SendTo, SendEnd

-----------------------------------------------------------------------------
(* The conjuncts of the invariant, one lemma each.                         *)

\* Bytes are received after they are delivered, and delivered after written.
LEMMA OrderStep ==
    ASSUME ServerInv, [Next]_vars
    PROVE  StreamOrder'
<1>0. PeersTyped /\ StreamOrder
  BY DEF ServerInv, TypeOK
<1>1. ASSUME NEW p \in Peers, NEW b \in {0, 1}, Write(p, b) PROVE StreamOrder'
  <2>1. Len(Append(sent[p], b)) = Len(sent[p]) + 1 /\ Len(sent[p]) \in Nat
    BY <1>0 DEF PeersTyped
  <2>2. sent' = [sent EXCEPT ![p] = Append(sent[p], b)] /\ UNCHANGED <<delivered, received>>
    BY <1>1 DEF Write
  <2>3. \A q \in Peers : Len(sent'[q]) \in Nat /\ Len(sent[q]) \in Nat /\ Len(sent[q]) <= Len(sent'[q])
    BY <1>0, <2>1, <2>2 DEF PeersTyped
  <2>4. \A q \in Peers : delivered[q] \in Nat
    BY <1>0 DEF PeersTyped
  <2>5. QED BY <1>0, <2>2, <2>3, <2>4 DEF StreamOrder, MessageBytes
<1>2. ASSUME NEW p \in Peers, Deliver(p) PROVE StreamOrder'
  <2>1. PICK n \in delivered[p] + 1 .. MessageBytes * Len(sent[p]) :
               delivered' = [delivered EXCEPT ![p] = n]
    BY <1>2 DEF Deliver
  <2>2. UNCHANGED <<sent, received>>
    BY <1>2 DEF Deliver
  <2>3. \A q \in Peers : delivered[q] \in Nat /\ received[q] \in Nat /\ Len(sent[q]) \in Nat
    BY <1>0 DEF PeersTyped
  <2>4. delivered[p] <= n /\ n <= MessageBytes * Len(sent[p])
    BY <2>1, <2>3 DEF MessageBytes
  <2>5. delivered'[p] = n /\ \A q \in Peers \ {p} : delivered'[q] = delivered[q]
    BY <1>0, <2>1 DEF PeersTyped
  <2>6. QED BY <1>0, <2>1, <2>2, <2>3, <2>4, <2>5 DEF StreamOrder, MessageBytes
<1>3. CASE ReceiveBytes
  <2> DEFINE p == fds[slot]
  <2>1. p \in Peers
    BY <1>3, ReceiveFrom DEF ReceiveBytes
  <2>2. received[p] + Taken(p) <= delivered[p]
    BY <1>0, <2>1, TakenBounds
  <2>3. received' = [received EXCEPT ![p] = received[p] + Taken(p)]
    BY <1>3 DEF ReceiveBytes
  <2>4. UNCHANGED <<sent, delivered>>
    BY <1>3 DEF ReceiveBytes
  <2>5. QED BY <1>0, <2>1, <2>2, <2>3, <2>4 DEF StreamOrder, PeersTyped
<1>4. CASE UNCHANGED <<sent, delivered, received>>
  BY <1>0, <1>4 DEF StreamOrder
<1>5. CASE Handle /\ ~ReceiveBytes
  <2>1. UNCHANGED <<sent, delivered, received>>
    BY <1>5 DEF Handle, HandleLocking, HandleLocal, Snapshot, LockTable, UpdateInterest,
           CheckClients, CheckInterest, WaitAvailable, Poll, SkipSlot, ReceiveEnd,
           UnlockTable, IgnoreRequest, SignalInterest, ClearAvailable,
           ClearInterested, peerVars
  <2>2. QED BY <1>4, <2>1
<1>6. QED BY <1>1, <1>2, <1>3, <1>4, <1>5, AcceptFrame, SenderFrame
          DEF Next, Network, Connect, Leave, vars, peerVars

\* The mutex is held where the code holds it.
LEMMA MutexStep ==
    ASSUME ServerInv, [Next]_vars
    PROVE  MutexHeld'
<1>0. MutexHeld
  BY DEF ServerInv
<1>1. CASE Network \/ Accept \/ UNCHANGED vars
  BY <1>0, <1>1, NetworkFrame, AcceptFrame DEF MutexHeld, handleVars, sendVars, vars
<1>2. CASE Handle
  BY <1>0, <1>2 DEF MutexHeld, sendVars, Handle, HandleLocking, HandleLocal, Snapshot,
         LockTable, UpdateInterest, CheckClients, CheckInterest, WaitAvailable, Poll,
         SkipSlot, ReceiveEnd, ReceiveBytes, UnlockTable, IgnoreRequest,
         SignalInterest, ClearAvailable, ClearInterested
<1>3. CASE Send
  BY <1>0, <1>3 DEF MutexHeld, handleVars, Send, SendBegin, SendSlot, SendEnd
<1>4. QED BY <1>1, <1>2, <1>3 DEF Next

\* Only three steps of the request task and one of the accept task change the
\* table.
LEMMA TableFrame ==
    ASSUME [Next]_vars, ~Install, ~ReceiveEnd, ~UpdateInterest
    PROVE  UNCHANGED <<connections, count, mask>>
<1>1. CASE Network \/ Send \/ UNCHANGED vars
  BY <1>1, NetworkFrame, SenderFrame DEF tableVars, vars
<1>2. CASE Accept
  BY <1>2 DEF Accept, AcceptCheck, AcceptConnection, CountClients, SetAvailable,
              SetConnected, tableVars
<1>3. CASE Handle
  BY <1>3 DEF Handle, HandleLocking, HandleLocal, Snapshot, LockTable, CheckClients,
              CheckInterest, WaitAvailable, Poll, SkipSlot, ReceiveBytes, UnlockTable,
              IgnoreRequest, SignalInterest, ClearAvailable, ClearInterested, tableVars
<1>4. QED BY <1>1, <1>2, <1>3 DEF Next

\* Slots are finitely many, and so are the active ones.
LEMMA ActiveFinite ==
    /\ IsFiniteSet(Active)
    /\ Cardinality(Active) \in Nat
    /\ Cardinality(Active) <= MaxConnections
    /\ Cardinality(Active) < MaxConnections => Free # {}
<1>0. MaxConnections \in Nat \ {0}
  BY ServerAssumption
<1>1. IsFiniteSet(Slots) /\ Cardinality(Slots) = MaxConnections
  <2>1. 0 \in Int /\ MaxConnections - 1 \in Int
    BY <1>0
  <2>2. IsFiniteSet(0 .. MaxConnections - 1)
    BY <2>1, FS_Interval
  <2>3. Cardinality(0 .. MaxConnections - 1) = IF 0 > MaxConnections - 1 THEN 0 ELSE (MaxConnections - 1) - 0 + 1
    BY <2>1, FS_Interval
  <2>4. QED BY <1>0, <2>2, <2>3 DEF Slots
<1>2. Active \in SUBSET Slots
  BY DEF Active
<1>3. IsFiniteSet(Active) /\ Cardinality(Active) <= Cardinality(Slots)
  BY <1>1, <1>2, FS_Subset
<1>4. Cardinality(Active) \in Nat
  BY <1>3, FS_CardinalityType
<1>5. Free = {} => Active = Slots
  BY <1>2 DEF Free
<1>6. Cardinality(Active) < MaxConnections => Free # {}
  BY <1>0, <1>1, <1>5
<1>7. QED BY <1>1, <1>3, <1>4, <1>6

\* What Install does when there is room: the room is what AcceptLocals promises.
LEMMA InstallSlot ==
    ASSUME ServerInv, Install
    PROVE  \E i \in Free : /\ connections' = [connections EXCEPT ![i] = incoming]
                           /\ count' = count + 1
                           /\ apc' = "count"
<1>1. apc = "install" /\ count < MaxConnections
  BY DEF Install, ServerInv, AcceptLocals
<1>2. count = Cardinality(Active)
  BY DEF ServerInv, TableConsistent
<1>3. Free # {}
  BY <1>1, <1>2, ActiveFinite
<1>4. QED BY <1>3 DEF Install

\* Count, mask and slots agree after every step.
LEMMA TableStep ==
    ASSUME ServerInv, [Next]_vars
    PROVE  TableConsistent'
<1>0. TableConsistent /\ TableTyped
  BY DEF ServerInv, TypeOK
<1>1. CASE Install
  <2>1. PICK i \in Free : /\ connections' = [connections EXCEPT ![i] = incoming]
                          /\ count' = count + 1
    BY <1>1, InstallSlot
  <2>2. i \in Slots /\ i \notin Active /\ incoming # NoPeer
    BY <1>1, ServerAssumption DEF Free, Install, ServerInv, AcceptLocals, TypeOK, PeersTyped
  <2>3. Active' = Active \cup {i}
    BY <1>0, <2>1, <2>2 DEF Active, TableTyped
  <2>4. Cardinality(Active') = Cardinality(Active) + 1
    BY <2>2, <2>3, ActiveFinite, FS_AddElement
  <2>5. mask' \subseteq Active'
    BY <1>0, <1>1, <2>3 DEF Install, TableConsistent
  <2>6. \A j \in Slots : connections[j] # incoming
    BY <1>1 DEF Install, ServerInv, AcceptLocals
  <2>7. \A j, k \in Active' : connections'[j] = connections'[k] => j = k
    BY <1>0, <2>1, <2>2, <2>3, <2>6 DEF TableConsistent, TableTyped, Active
  <2>8. QED BY <1>0, <2>1, <2>4, <2>5, <2>7 DEF TableConsistent
<1>2. CASE ReceiveEnd
  <2>1. slot \in Slots /\ slot \in Active
    BY <1>2, ReceiveFrom DEF ReceiveEnd, Active
  <2>2. connections' = [connections EXCEPT ![slot] = NoPeer]
    BY <1>2 DEF ReceiveEnd, Disconnect
  <2>3. mask' = mask \ {slot} /\ count' = count - 1
    BY <1>2 DEF ReceiveEnd, Disconnect
  <2>4. Active' = Active \ {slot}
    BY <1>0, <2>1, <2>2 DEF Active, TableTyped
  <2>5. Cardinality(Active') = Cardinality(Active) - 1
    BY <2>1, <2>4, ActiveFinite, FS_RemoveElement
  <2>6. \A j, k \in Active' : connections'[j] = connections'[k] => j = k
    BY <1>0, <2>1, <2>2, <2>4 DEF TableConsistent, TableTyped, Active
  <2>7. QED BY <1>0, <2>3, <2>4, <2>5, <2>6 DEF TableConsistent
<1>3. CASE UpdateInterest
  <2>1. UNCHANGED <<connections, count>>
    BY <1>3 DEF UpdateInterest
  <2>2. Active' = Active
    BY <2>1 DEF Active
  <2>3. mask' \subseteq Active
    BY <1>0, <1>3 DEF UpdateInterest, NewMask, TableConsistent
  <2>4. QED BY <1>0, <2>1, <2>2, <2>3 DEF TableConsistent
<1>4. CASE ~Install /\ ~ReceiveEnd /\ ~UpdateInterest
  <2>1. UNCHANGED <<connections, count, mask>>
    BY <1>4, TableFrame
  <2>2. QED BY <1>0, <2>1 DEF TableConsistent, Active
<1>5. QED BY <1>1, <1>2, <1>3, <1>4

\* A parsed request names a slot and a client.
LEMMA RequestTyped ==
    ASSUME HandlerTyped, NEW k \in DOMAIN requests
    PROVE  /\ requests[k].slot \in Slots
           /\ requests[k].slot \in Int
           /\ requests[k].from \in Peers
<1>1. requests \in Seq(Requests)
  BY DEF HandlerTyped
<1>2. requests[k] \in Requests
  BY <1>1
<1>3. requests[k].slot \in Slots /\ requests[k].from \in Peers
  BY <1>2 DEF Requests
<1>4. requests[k].slot \in Int
  BY <1>3 DEF Slots
<1>5. QED BY <1>3, <1>4

\* The slots the receive loop has still to come to.
LEMMA SlotsLeft ==
    ASSUME HandlerTyped
    PROVE  /\ slot \in Nat
           /\ \A j \in slot .. MaxConnections - 1 : j \in Slots
           /\ \A j \in slot + 1 .. MaxConnections - 1 :
                j # slot /\ j \in slot .. MaxConnections - 1
<1>1. MaxConnections \in Nat
  BY ServerAssumption
<1>2. slot \in 0 .. MaxConnections
  BY DEF HandlerTyped
<1>3. slot \in Nat
  BY <1>1, <1>2
<1>4. \A j \in slot .. MaxConnections - 1 : j \in 0 .. MaxConnections - 1
  BY <1>1, <1>3
<1>5. \A j \in slot + 1 .. MaxConnections - 1 : j # slot
  BY <1>1, <1>3
<1>6. \A j \in slot + 1 .. MaxConnections - 1 : j \in slot .. MaxConnections - 1
  BY <1>1, <1>3
<1>7. QED BY <1>3, <1>4, <1>5, <1>6 DEF Slots

\* The requests parsed so far stay behind the loop when it goes on.
LEMMA RequestsBehind ==
    ASSUME HandlerTyped, HandlerLocals, hpc = "receive", NEW k \in DOMAIN requests
    PROVE  requests[k].slot < slot + 1 /\ requests[k].slot # slot
<1>1. requests[k].slot \in Int /\ slot \in Int
  BY RequestTyped, SlotsLeft
<1>2. requests[k].slot < slot
  BY DEF HandlerLocals
<1>3. QED BY <1>1, <1>2

\* What poll() found and what was parsed stay within the pass over the table.
LEMMA LocalsStep ==
    ASSUME ServerInv, [Next]_vars
    PROVE  HandlerLocals'
<1>0. HandlerLocals /\ HandlerTyped
  BY DEF ServerInv, TypeOK
<1>1. CASE Network \/ Accept \/ Send \/ UNCHANGED vars
  BY <1>0, <1>1, NetworkFrame, AcceptFrame, SenderFrame DEF HandlerLocals, handleVars, vars
<1>2. CASE ReceiveBytes
  <2>1. slot \in Slots /\ fds[slot] \in Peers
    BY <1>2, ReceiveFrom DEF ReceiveBytes
  <2>2. \A k \in DOMAIN requests' : requests'[k].slot < slot'
    <3>1. slot' = slot + 1 /\ hpc = "receive"
      BY <1>2 DEF ReceiveBytes
    <3>2. \A k \in DOMAIN requests : requests[k].slot < slot + 1
      BY <1>0, <3>1, RequestsBehind
    <3>3. CASE requests' = requests
      BY <3>1, <3>2, <3>3
    <3>4. CASE requests' = Append(requests, Request(slot, fds[slot]))
      <4>1. Request(slot, fds[slot]).slot = slot
        BY DEF Request
      <4>2. requests \in Seq(Requests) /\ Request(slot, fds[slot]) \in Requests
        BY <1>0, <2>1 DEF HandlerTyped, Request, Requests
      <4>3. \A k \in DOMAIN requests' : k \in DOMAIN requests \/ k = Len(requests) + 1
        BY <3>4, <4>2
      <4>4. \A k \in DOMAIN requests : requests'[k] = requests[k]
        BY <3>4, <4>2
      <4>5. requests'[Len(requests) + 1] = Request(slot, fds[slot])
        BY <3>4, <4>2
      <4>6. slot < slot + 1
        BY <1>0, SlotsLeft
      <4>7. QED BY <3>1, <3>2, <4>1, <4>3, <4>4, <4>5, <4>6
    <3>5. QED BY <1>2, <3>3, <3>4 DEF ReceiveBytes
  <2>3. QED BY <1>0, <1>2, <2>2 DEF ReceiveBytes, HandlerLocals
<1>3. CASE SkipSlot \/ ReceiveEnd
  <2>1. slot' = slot + 1 /\ hpc = "receive" /\ UNCHANGED <<hpc, fds, revents, requests>>
    BY <1>3 DEF SkipSlot, ReceiveEnd
  <2>2. \A k \in DOMAIN requests : requests[k].slot < slot + 1
    BY <1>0, <2>1, RequestsBehind
  <2>3. QED BY <1>0, <2>1, <2>2 DEF HandlerLocals
<1>4. CASE LockTable
  BY <1>0, <1>4 DEF LockTable, HandlerLocals
<1>5. CASE Poll
  BY <1>0, <1>5 DEF Poll, HandlerLocals
<1>6. CASE Snapshot \/ UpdateInterest \/ CheckClients \/ CheckInterest \/ WaitAvailable
            \/ IgnoreRequest \/ SignalInterest \/ ClearAvailable \/ ClearInterested
  BY <1>0, <1>6
     DEF Snapshot, UpdateInterest, CheckClients, CheckInterest, WaitAvailable,
         IgnoreRequest, SignalInterest, ClearAvailable, ClearInterested, HandlerLocals
<1>7. CASE UnlockTable
  BY <1>0, <1>7 DEF UnlockTable, HandlerLocals
<1>8. QED BY <1>1, <1>2, <1>3, <1>4, <1>5, <1>6, <1>7
          DEF Next, Handle, HandleLocking, HandleLocal

\* A slot that a step empties or fills is one the copy of the table does not
\* speak of: filled slots were empty, and the loop has passed the emptied ones.
LEMMA SnapshotStep ==
    ASSUME ServerInv, [Next]_vars
    PROVE  SnapshotMatches'
<1>0. SnapshotMatches /\ HandlerTyped /\ TableTyped /\ HandlerLocals
  BY DEF ServerInv, TypeOK
<1>1. CASE Install
  <2>1. PICK i \in Free : connections' = [connections EXCEPT ![i] = incoming]
    BY <1>1, InstallSlot
  <2>2. UNCHANGED <<hpc, fds, slot>>
    BY <1>1 DEF Install, handleVars
  <2>3. connections[i] = NoPeer
    BY <2>1 DEF Free, Active
  <2>4. \A j \in Slots : fds[j] # NoPeer /\ connections[j] = fds[j] => connections'[j] = fds[j]
    BY <1>0, <2>1, <2>3 DEF TableTyped
  <2>5. \A j \in slot .. MaxConnections - 1 : j \in Slots
    BY <1>0, SlotsLeft
  <2>6. QED BY <1>0, <2>2, <2>4, <2>5 DEF SnapshotMatches
<1>2. CASE ReceiveEnd
  <2>1. hpc = "receive" /\ hpc' = "receive" /\ slot' = slot + 1 /\ fds' = fds
    BY <1>2 DEF ReceiveEnd
  <2>2. connections' = [connections EXCEPT ![slot] = NoPeer]
    BY <1>2 DEF ReceiveEnd, Disconnect
  <2>3. \A j \in slot + 1 .. MaxConnections - 1 : j \in Slots /\ j # slot /\ j \in slot .. MaxConnections - 1
    BY <1>0, SlotsLeft
  <2>4. \A j \in slot + 1 .. MaxConnections - 1 : connections'[j] = connections[j]
    BY <1>0, <2>2, <2>3 DEF TableTyped
  <2>5. QED BY <1>0, <2>1, <2>3, <2>4 DEF SnapshotMatches
<1>3. CASE UpdateInterest
  BY <1>3 DEF UpdateInterest, SnapshotMatches
<1>4. CASE ~Install /\ ~ReceiveEnd /\ ~UpdateInterest
  <2>1. connections' = connections
    BY <1>4, TableFrame
  <2>2. CASE Network \/ Accept \/ Send \/ UNCHANGED vars
    <3>1. UNCHANGED <<hpc, fds, slot>>
      BY <2>2, NetworkFrame, AcceptFrame, SenderFrame DEF handleVars, vars
    <3>2. QED BY <1>0, <2>1, <3>1 DEF SnapshotMatches
  <2>3. CASE Snapshot
    <3>1. hpc' = "poll" /\ fds' = connections
      BY <2>3 DEF Snapshot
    <3>2. QED BY <2>1, <3>1 DEF SnapshotMatches
  <2>4. CASE Poll
    BY <1>0, <2>1, <2>4 DEF Poll, SnapshotMatches
  <2>5. CASE LockTable
    BY <1>0, <2>1, <2>5 DEF LockTable, SnapshotMatches, Slots
  <2>6. CASE SkipSlot \/ ReceiveBytes
    <3>1. hpc = "receive" /\ slot' = slot + 1 /\ fds' = fds /\ hpc' = "receive"
      BY <2>6 DEF SkipSlot, ReceiveBytes
    <3>2. \A j \in slot + 1 .. MaxConnections - 1 : j \in slot .. MaxConnections - 1
      BY <1>0, SlotsLeft
    <3>3. QED BY <1>0, <2>1, <3>1, <3>2 DEF SnapshotMatches
  <2>7. CASE UnlockTable \/ IgnoreRequest \/ SignalInterest \/ CheckClients \/ ClearAvailable
               \/ CheckInterest \/ ClearInterested \/ WaitAvailable
    <3>1. hpc' \notin {"poll", "lock", "receive"}
      BY <2>7 DEF UnlockTable, IgnoreRequest, SignalInterest, CheckClients, ClearAvailable,
                  CheckInterest, ClearInterested, WaitAvailable
    <3>2. QED BY <3>1 DEF SnapshotMatches
  <2>8. QED BY <1>4, <2>2, <2>3, <2>4, <2>5, <2>6, <2>7
            DEF Next, Handle, HandleLocking, HandleLocal
<1>5. QED BY <1>1, <1>2, <1>3, <1>4

\* The client of a parsed request keeps its slot until the request is served:
\* the loop only empties slots it has not come to, and fills only empty ones.
LEMMA RequestStep ==
    ASSUME ServerInv, [Next]_vars
    PROVE  RequestFromActive'
<1>0. RequestFromActive /\ HandlerTyped /\ TableTyped /\ HandlerLocals
  BY DEF ServerInv, TypeOK
<1> DEFINE Owner(k) == connections'[requests[k].slot] = requests[k].from
<1>1. CASE Install
  <2>1. PICK i \in Free : connections' = [connections EXCEPT ![i] = incoming]
    BY <1>1, InstallSlot
  <2>2. requests' = requests
    BY <1>1 DEF Install, handleVars
  <2>3. connections[i] = NoPeer
    BY <2>1 DEF Free, Active
  <2>4. \A k \in DOMAIN requests : Owner(k)
    BY <1>0, <2>1, <2>3, RequestTyped, ServerAssumption DEF RequestFromActive, TableTyped
  <2>5. QED BY <2>2, <2>4 DEF RequestFromActive
<1>2. CASE ReceiveEnd
  <2>1. connections' = [connections EXCEPT ![slot] = NoPeer]
    BY <1>2 DEF ReceiveEnd, Disconnect
  <2>2. hpc = "receive" /\ requests' = requests
    BY <1>2 DEF ReceiveEnd
  <2>3. \A k \in DOMAIN requests : requests[k].slot # slot
    BY <1>0, <2>2, RequestsBehind
  <2>4. \A k \in DOMAIN requests : Owner(k)
    BY <1>0, <2>1, <2>3, RequestTyped DEF RequestFromActive, TableTyped
  <2>5. QED BY <2>2, <2>4 DEF RequestFromActive
<1>3. CASE UpdateInterest
  BY <1>0, <1>3 DEF UpdateInterest, RequestFromActive
<1>4. CASE ~Install /\ ~ReceiveEnd /\ ~UpdateInterest
  <2>1. connections' = connections
    BY <1>4, TableFrame
  <2>2. CASE ReceiveBytes
    <3>1. slot \in Slots /\ fds[slot] \in Peers /\ connections[slot] = fds[slot]
      BY <2>2, ReceiveFrom DEF ReceiveBytes
    <3>2. CASE requests' = requests
      BY <1>0, <2>1, <3>2 DEF RequestFromActive
    <3>3. CASE requests' = Append(requests, Request(slot, fds[slot]))
      <4>1. requests \in Seq(Requests) /\ Request(slot, fds[slot]) \in Requests
        BY <1>0, <3>1 DEF HandlerTyped, Request, Requests
      <4>2. \A k \in DOMAIN requests' : k \in DOMAIN requests \/ k = Len(requests) + 1
        BY <3>3, <4>1
      <4>3. \A k \in DOMAIN requests : requests'[k] = requests[k]
        BY <3>3, <4>1
      <4>4. requests'[Len(requests) + 1] = Request(slot, fds[slot])
        BY <3>3, <4>1
      <4>5. connections[Request(slot, fds[slot]).slot] = Request(slot, fds[slot]).from
        BY <3>1 DEF Request
      <4>6. QED BY <1>0, <2>1, <4>2, <4>3, <4>4, <4>5 DEF RequestFromActive
    <3>4. QED BY <2>2, <3>2, <3>3 DEF ReceiveBytes
  <2>3. CASE IgnoreRequest \/ SignalInterest
    <3>1. requests # <<>> /\ requests' = Tail(requests)
      BY <1>0, <2>3 DEF IgnoreRequest, SignalInterest, HandlerLocals
    <3>2. requests \in Seq(Requests)
      BY <1>0 DEF HandlerTyped
    <3>3. \A k \in DOMAIN requests' : k + 1 \in DOMAIN requests /\ requests'[k] = requests[k + 1]
      BY <3>1, <3>2
    <3>4. QED BY <1>0, <2>1, <3>3 DEF RequestFromActive
  <2>4. CASE ~ReceiveBytes /\ ~IgnoreRequest /\ ~SignalInterest
    <3>1. requests' = requests
      <4>1. CASE Network \/ Accept \/ Send \/ UNCHANGED vars
        BY <4>1, NetworkFrame, AcceptFrame, SenderFrame DEF handleVars, vars
      <4>2. CASE Handle
        BY <1>4, <2>4, <4>2
           DEF Handle, HandleLocking, HandleLocal, Snapshot, LockTable, CheckClients,
               CheckInterest, WaitAvailable, Poll, SkipSlot, UnlockTable, ClearAvailable,
               ClearInterested
      <4>3. QED BY <4>1, <4>2 DEF Next
    <3>2. QED BY <1>0, <2>1, <3>1 DEF RequestFromActive
  <2>5. QED BY <2>2, <2>3, <2>4
<1>5. QED BY <1>1, <1>2, <1>3, <1>4

\* The accept task keeps its connection out of the table until it installs it,
\* and its room in the table: only it fills slots.
LEMMA AcceptLocalsStep ==
    ASSUME ServerInv, [Next]_vars
    PROVE  AcceptLocals'
<1>0. AcceptLocals /\ TypeOK
  BY DEF ServerInv
<1>1. CASE Install
  <2>1. PICK i \in Free : /\ connections' = [connections EXCEPT ![i] = incoming]
                          /\ apc' = "count"
    BY <1>1, InstallSlot
  <2>2. sockets' = sockets /\ incoming \in sockets
    BY <1>0, <1>1 DEF Install, peerVars, AcceptLocals
  <2>3. \A j \in Active' : connections'[j] \in sockets
    BY <1>0, <2>1, <2>2 DEF Active, TypeOK, TableTyped, AcceptLocals
  <2>4. QED BY <2>1, <2>2, <2>3 DEF AcceptLocals
<1>2. CASE ReceiveEnd
  <2>1. slot \in Slots
    BY <1>2, ReceiveFrom DEF ReceiveEnd
  <2>2. connections' = [connections EXCEPT ![slot] = NoPeer]
    BY <1>2 DEF ReceiveEnd, Disconnect
  <2>3. UNCHANGED <<apc, incoming, sockets>>
    BY <1>2 DEF ReceiveEnd, acceptVars, peerVars
  <2>4. \A j \in Active' : connections'[j] \in sockets
    BY <1>0, <2>1, <2>2 DEF Active, TypeOK, TableTyped, AcceptLocals
  <2>5. count' = count - 1 /\ count \in Int /\ MaxConnections \in Int
    BY <1>0, <1>2, ServerAssumption DEF ReceiveEnd, Disconnect, TypeOK, TableTyped
  <2>6. count < MaxConnections => count' < MaxConnections
    BY <2>5
  <2>7. incoming \in sockets => incoming # NoPeer
    BY <1>0, ServerAssumption DEF TypeOK, PeersTyped
  <2>8. \A j \in Slots : connections'[j] = connections[j] \/ connections'[j] = NoPeer
    BY <1>0, <2>1, <2>2 DEF TypeOK, TableTyped
  <2>9. QED BY <1>0, <2>3, <2>4, <2>6, <2>7, <2>8 DEF AcceptLocals
<1>3. CASE ~Install /\ ~ReceiveEnd
  <2>1. UNCHANGED <<connections, count>>
    BY <1>3, TableFrame DEF UpdateInterest
  <2>2. CASE Network \/ Handle \/ Send \/ UNCHANGED vars
    <3>1. UNCHANGED <<apc, incoming, sockets>>
      BY <2>2, NetworkFrame, HandleFrame, SenderFrame
         DEF acceptVars, peerVars, vars, Network, Connect, Write, Deliver, Leave
    <3>2. QED BY <1>0, <2>1, <3>1 DEF AcceptLocals, Active
  <2>3. CASE AcceptCheck
    <3>1. sockets' = sockets /\ apc' # "install"
      BY <2>3 DEF AcceptCheck, peerVars
    <3>2. apc' = "accept" => ~TableFull
      BY <2>3 DEF AcceptCheck
    <3>3. apc' = "accept" => count < MaxConnections
      BY <1>0, <3>2, ServerAssumption DEF TableFull, TypeOK, TableTyped
    <3>4. QED BY <1>0, <2>1, <3>1, <3>3 DEF AcceptLocals, Active
  <2>4. ASSUME NEW p \in Peers, AcceptConnection(p) PROVE AcceptLocals'
    <3>1. apc = "accept" /\ p \notin sockets
      BY <2>4 DEF AcceptConnection
    <3>2. CASE sockets' = sockets \cup {p} /\ apc' = "install" /\ incoming' = p
      <4>1. \A i \in Slots : connections[i] # p
        BY <1>0, <3>1, ServerAssumption DEF AcceptLocals, Active
      <4>2. QED BY <1>0, <2>1, <3>1, <3>2, <4>1 DEF AcceptLocals, Active
    <3>3. CASE sockets' = sockets /\ apc' = "check"
      BY <1>0, <2>1, <3>3 DEF AcceptLocals, Active
    <3>4. QED BY <2>4, <3>2, <3>3 DEF AcceptConnection
  <2>5. CASE CountClients \/ SetAvailable \/ SetConnected
    <3>1. sockets' = sockets /\ apc' \notin {"accept", "install"}
      BY <2>5 DEF CountClients, SetAvailable, SetConnected, peerVars
    <3>2. QED BY <1>0, <2>1, <3>1 DEF AcceptLocals, Active
  <2>6. QED BY <1>3, <2>2, <2>3, <2>4, <2>5 DEF Next, Accept
<1>4. QED BY <1>1, <1>2, <1>3

\* Inside the send loop nobody changes the table: that takes the mutex.
LEMMA SendProgressStep ==
    ASSUME ServerInv, [Next]_vars
    PROVE  SendProgress'
<1>0. SendProgress /\ MutexHeld /\ TableConsistent /\ TypeOK
  BY DEF ServerInv
<1>1. CASE Network \/ Accept \/ Handle \/ UNCHANGED vars
  <2>1. UNCHANGED <<spc, sslot, sentTo>>
    BY <1>1, NetworkFrame, AcceptFrame, HandleFrame DEF sendVars, vars
  <2>2. spc = "sending" => mutex = "send" /\ hpc # "receive"
    BY <1>0 DEF MutexHeld
  <2>3. spc = "sending" => ~Install /\ ~ReceiveEnd /\ ~UpdateInterest
    BY <2>2 DEF Install, ReceiveEnd, UpdateInterest, UpdateLocked
  <2>4. spc = "sending" => UNCHANGED <<connections, mask>>
    BY <2>3, TableFrame
  <2>5. QED BY <1>0, <2>1, <2>4 DEF SendProgress
<1>2. CASE SendBegin
  <2>1. sslot' = 0 /\ sentTo' = {} /\ UNCHANGED <<connections, mask>> /\ spc' = "sending"
    BY <1>0, <1>2 DEF SendBegin, SendProgress, tableVars
  <2>2. {j \in mask : j < 0} = {}
    <3>1. \A j \in 0 .. MaxConnections - 1 : ~(j < 0)
      BY ServerAssumption
    <3>2. QED BY <1>0, <3>1 DEF TypeOK, TableTyped, Slots
  <2>3. {connections[i] : i \in {j \in mask : j < 0}} = {}
    BY <2>2
  <2>4. QED BY <2>1, <2>3 DEF SendProgress
<1>3. CASE SendSlot
  <2>1. spc = "sending" /\ spc' = "sending" /\ sslot' = sslot + 1 /\ UNCHANGED <<connections, mask>>
    BY <1>3 DEF SendSlot, SendTo, tableVars
  <2>2. sentTo = {connections[i] : i \in {j \in mask : j < sslot}}
    BY <1>0, <2>1 DEF SendProgress
  <2>3. \A j \in mask : j < sslot + 1 <=> j < sslot \/ j = sslot
    <3>1. sslot \in Int
      BY <1>0, ServerAssumption DEF TypeOK, SenderTyped
    <3>2. \A j \in mask : j \in Int
      BY <1>0, ServerAssumption DEF TypeOK, TableTyped, Slots
    <3>3. QED BY <3>1, <3>2
  <2>4. sentTo' = {connections[i] : i \in {j \in mask : j < sslot \/ j = sslot}}
    <3>1. CASE sslot \in mask
      <4>1. sentTo' = sentTo \cup {connections[sslot]}
        BY <1>0, <1>3, <3>1 DEF SendSlot, SendTo, TableConsistent
      <4>2. QED BY <2>2, <3>1, <4>1
    <3>2. CASE sslot \notin mask
      <4>1. sentTo' = sentTo
        BY <1>3, <3>2 DEF SendSlot
      <4>2. {j \in mask : j < sslot \/ j = sslot} = {j \in mask : j < sslot}
        BY <3>2
      <4>3. QED BY <2>2, <4>1, <4>2
    <3>3. QED BY <3>1, <3>2
  <2>5. {j \in mask : j < sslot \/ j = sslot} = {j \in mask : j < sslot + 1}
    BY <2>3
  <2>6. sentTo' = {connections[i] : i \in {j \in mask : j < sslot + 1}}
    BY <2>4, <2>5
  <2>7. QED BY <2>1, <2>6 DEF SendProgress
<1>4. CASE SendEnd
  BY <1>4 DEF SendEnd, SendProgress
<1>5. QED BY <1>1, <1>2, <1>3, <1>4 DEF Next, Send

\* The event bit follows the mask at the pace of the request task: only its
\* steps touch either.
LEMMA InterestBitStep ==
    ASSUME ServerInv, [Next]_vars
    PROVE  InterestBit'
<1>0. InterestBit /\ TypeOK
  BY DEF ServerInv
<1>1. CASE Network \/ Accept \/ Send \/ UNCHANGED vars
  <2>1. UNCHANGED <<hpc, mask, interest>>
    BY <1>1, NetworkFrame, AcceptFrame, SenderFrame DEF tableVars, handleVars, vars
  <2>2. "interested" \in bits' <=> "interested" \in bits
    BY <1>1, NetworkFrame, SenderFrame
       DEF Accept, AcceptCheck, AcceptConnection, Install, CountClients, SetAvailable,
           SetConnected, vars
  <2>3. QED BY <1>0, <2>1, <2>2 DEF InterestBit
<1>2. CASE WaitAvailable \/ Snapshot \/ Poll \/ LockTable \/ SkipSlot \/ ReceiveBytes
             \/ UnlockTable \/ IgnoreRequest
  <2>1. UNCHANGED <<mask, bits>>
    BY <1>2 DEF WaitAvailable, Snapshot, Poll, LockTable, SkipSlot, ReceiveBytes,
                UnlockTable, IgnoreRequest, tableVars
  <2>2. \/ hpc \in {"wait", "snapshot", "poll"} /\ hpc' \in {"snapshot", "poll", "lock"}
        \/ hpc = "lock" /\ hpc' = "receive"
        \/ hpc \in {"receive", "serve"} /\ hpc' \in {"receive", "serve"}
    BY <1>2 DEF WaitAvailable, Snapshot, Poll, LockTable, SkipSlot, ReceiveBytes,
                UnlockTable, IgnoreRequest
  <2>3. QED BY <1>0, <2>1, <2>2 DEF InterestBit
<1>3. CASE ReceiveEnd
  <2>1. hpc = "receive" /\ hpc' = "receive" /\ bits' = bits /\ mask' \subseteq mask
    BY <1>3 DEF ReceiveEnd, Disconnect
  <2>2. QED BY <1>0, <2>1 DEF InterestBit
<1>4. CASE UpdateInterest
  <2>1. hpc = "serve" /\ hpc' = "signal" /\ bits' = bits
    BY <1>4 DEF UpdateInterest
  <2>2. Head(requests).slot \in Active
    <3>1. requests # <<>> /\ requests \in Seq(Requests)
      BY <1>0, <1>4 DEF UpdateInterest, TypeOK, HandlerTyped
    <3>2. 1 \in DOMAIN requests /\ Head(requests) = requests[1]
      BY <3>1
    <3>3. requests[1].slot \in Slots /\ requests[1].from \in Peers
      BY <1>0, <3>2, RequestTyped DEF TypeOK
    <3>4. connections[requests[1].slot] = requests[1].from
      BY <3>2 DEF ServerInv, RequestFromActive
    <3>5. QED BY <3>2, <3>3, <3>4, ServerAssumption DEF Active
  <2>3. PICK wants : /\ mask' = NewMask(Head(requests).slot, wants)
                     /\ interest' = [before |-> mask # {},
                                     after |-> NewMask(Head(requests).slot, wants) # {}]
    BY <1>4, <2>2, Zenon DEF UpdateInterest
  <2>4. interest'.before = (mask # {}) /\ interest'.after = (mask' # {})
    BY <2>3, Zenon
  <2>5. QED BY <1>0, <2>1, <2>4 DEF InterestBit
<1>5. CASE SignalInterest
  <2>1. hpc = "signal" /\ hpc' = "serve" /\ mask' = mask
    BY <1>5 DEF SignalInterest, tableVars
  <2>2. bits' = BitsAfter(interest.before, interest.after)
    BY <1>5 DEF SignalInterest
  <2>3. interest.after <=> mask # {}
    BY <1>0, <2>1 DEF InterestBit
  <2>4. interest.before => "interested" \in bits
    BY <1>0, <2>1 DEF InterestBit
  <2>5. interest.before \in BOOLEAN /\ interest.after \in BOOLEAN
    BY <1>0 DEF TypeOK, HandlerTyped
  <2>6. interest.after => "interested" \in bits'
    BY <2>2, <2>4, <2>5 DEF BitsAfter
  <2>7. QED BY <2>1, <2>3, <2>6 DEF InterestBit
<1>6. CASE CheckClients \/ ClearAvailable \/ CheckInterest
  <2>1. mask' = mask /\ ("interested" \in bits' <=> "interested" \in bits)
    BY <1>6 DEF CheckClients, ClearAvailable, CheckInterest, tableVars
  <2>2. CASE CheckClients \/ ClearAvailable
    <3>1. hpc \in {"serve", "clear available"} /\ hpc' \in {"clear available", "interest"}
      BY <2>2 DEF CheckClients, ClearAvailable
    <3>2. QED BY <1>0, <2>1, <3>1 DEF InterestBit
  <2>3. CASE CheckInterest
    <3>1. hpc = "interest" /\ (hpc' = IF mask = {} THEN "clear interested" ELSE "wait")
      BY <2>3 DEF CheckInterest, NobodyInterested
    <3>2. QED BY <1>0, <2>1, <3>1 DEF InterestBit
  <2>4. QED BY <1>6, <2>2, <2>3
<1>7. CASE ClearInterested
  <2>1. hpc = "clear interested" /\ hpc' = "wait" /\ mask' = mask /\ "interested" \notin bits'
    BY <1>7 DEF ClearInterested, tableVars
  <2>2. QED BY <1>0, <2>1 DEF InterestBit
<1>8. QED BY <1>1, <1>2, <1>3, <1>4, <1>5, <1>6, <1>7
          DEF Next, Handle, HandleLocking, HandleLocal

-----------------------------------------------------------------------------
(* The theorems.                                                           *)

\* The table is empty and every task at its start.
LEMMA ServerInit == Init => ServerInv
<1> SUFFICES ASSUME Init PROVE ServerInv
  OBVIOUS
<1>1. TypeOK
  BY TypeInit
<1>2. Active = {}
  BY DEF Init, Active
<1>3. TableConsistent
  BY <1>2, FS_EmptySet DEF Init, TableConsistent
<1>4. StreamOrder
  BY DEF Init, StreamOrder, MessageBytes
<1>5. MutexHeld /\ HandlerLocals /\ SendProgress /\ InterestBit
  BY DEF Init, MutexHeld, HandlerLocals, SendProgress, InterestBit
<1>6. SnapshotMatches /\ RequestFromActive
  BY DEF Init, SnapshotMatches, RequestFromActive
<1>7. AcceptLocals
  BY <1>2 DEF Init, AcceptLocals
<1>8. QED BY <1>1, <1>3, <1>4, <1>5, <1>6, <1>7 DEF ServerInv

LEMMA ServerStep == ServerInv /\ [Next]_vars => ServerInv'
BY TypeStep, OrderStep, MutexStep, TableStep, LocalsStep, SnapshotStep, RequestStep,
   AcceptLocalsStep, SendProgressStep, InterestBitStep DEF ServerInv

\* The inductive invariant holds in every reachable state, however many slots,
\* clients and messages there are.
THEOREM ServerInvariant == Spec => []ServerInv
BY ServerInit, ServerStep, PTL DEF Spec

\* Every variable keeps its type.
THEOREM TypeCorrect == Spec => []TypeOK
<1>1. ServerInv => TypeOK
  BY DEF ServerInv
<1>2. QED BY <1>1, ServerInvariant, PTL

\* The count, the mask and the slots of the table agree in every state, and no
\* client holds two slots (server_accept_connections, server_disconnect_client).
THEOREM TableAlwaysConsistent == Spec => []TableConsistent
<1>1. ServerInv => TableConsistent
  BY DEF ServerInv
<1>2. QED BY <1>1, ServerInvariant, PTL

\* The copy of the table that server_handle_requests polls is never about
\* another client than the table itself, though the mutex is given in between.
THEOREM SnapshotAlwaysMatches == Spec => []SnapshotMatches
<1>1. ServerInv => SnapshotMatches
  BY DEF ServerInv
<1>2. QED BY <1>1, ServerInvariant, PTL

\* A request is applied to the client that sent it.
THEOREM RequestsFromActive == Spec => []RequestFromActive
<1>1. ServerInv => RequestFromActive
  BY DEF ServerInv
<1>2. QED BY <1>1, ServerInvariant, PTL

\* server_accept_connections never accepts a connection it has no slot for.
THEOREM AcceptAlwaysFindsSlot == Spec => []AcceptFindsSlot
<1>1. ServerInv => AcceptFindsSlot
  <2> SUFFICES ASSUME ServerInv, apc = "install" PROVE Free # {}
    BY DEF AcceptFindsSlot
  <2>1. count < MaxConnections
    BY DEF ServerInv, AcceptLocals
  <2>2. count = Cardinality(Active)
    BY DEF ServerInv, TableConsistent
  <2>3. QED BY <2>1, <2>2, ActiveFinite
<1>2. QED BY <1>1, ServerInvariant, PTL

\* The event bit the camera task waits for is right whenever the request task
\* waits.
THEOREM InterestBitAlwaysMatches == Spec => []InterestBitMatches
<1>1. ServerInv => InterestBitMatches
  BY DEF ServerInv, InterestBit, InterestBitMatches
<1>2. QED BY <1>1, ServerInvariant, PTL

\* A frame goes to all the clients that want it and to no other.
THEOREM FrameAlwaysReachesInterested == Spec => []FrameReachesInterested
<1>1. ServerInv => FrameReachesInterested
  <2> SUFFICES ASSUME ServerInv, spc = "sending", sslot = MaxConnections
               PROVE  sentTo = {connections[i] : i \in mask}
    BY DEF FrameReachesInterested
  <2>1. sentTo = {connections[i] : i \in {j \in mask : j < sslot}}
    BY DEF ServerInv, SendProgress
  <2>2. \A j \in 0 .. MaxConnections - 1 : j < MaxConnections
    BY ServerAssumption
  <2>3. {j \in mask : j < sslot} = mask
    BY <2>2 DEF ServerInv, TypeOK, TableTyped, Slots
  <2>4. QED BY <2>1, <2>3
<1>2. QED BY <1>1, ServerInvariant, PTL

\* Only the end of a client's stream, read to its last byte, or a reset frees
\* its slot.
THEOREM FreedOnlyAtStreamEnd == Spec => FreedAtStreamEnd
<1>1. ServerInv /\ [Next]_vars => [FreedAtEnd]_vars
  <2> SUFFICES ASSUME ServerInv, [Next]_vars PROVE FreedAtEnd
    OBVIOUS
  <2>0. TableTyped
    BY DEF ServerInv, TypeOK
  <2>1. CASE Install
    <3>1. PICK i \in Free : connections' = [connections EXCEPT ![i] = incoming]
      BY <2>1, InstallSlot
    <3>2. QED BY <2>0, <3>1 DEF TableTyped, Free, Active, FreedAtEnd
  <2>2. CASE ReceiveEnd
    <3>1. connections' = [connections EXCEPT ![slot] = NoPeer] /\ Ended(fds[slot])
      BY <2>2 DEF ReceiveEnd, Disconnect
    <3>2. connections[slot] = fds[slot]
      BY <2>2, ReceiveFrom DEF ReceiveEnd
    <3>3. QED BY <2>0, <3>1, <3>2 DEF Ended, TableTyped, FreedAtEnd
  <2>3. CASE ~Install /\ ~ReceiveEnd
    BY <2>3, TableFrame DEF UpdateInterest, FreedAtEnd
  <2>4. QED BY <2>1, <2>2, <2>3
<1>2. QED BY <1>1, ServerInvariant, PTL DEF Spec, FreedAtStreamEnd

-----------------------------------------------------------------------------
(* The interest of a client.  A recv() that returns anything but one whole *)
(* message loses or misreads what the client wrote: what follows is about  *)
(* clients that wait for one message to be read before they write the next,*)
(* and a network that does not cut it.                                     *)

OneAtATime == CutPoints = {0} /\ Paced = TRUE

\* The words of the client that the server has received.
Words(p) == received[p] \div MessageBytes

\* Of each stream all messages but the last are received, and maybe that one too.
WholeMessages ==
    \A p \in Peers : \A n \in {received[p], delivered[p]} :
        n = MessageBytes * Len(sent[p]) \/ n = MessageBytes * (Len(sent[p]) - 1)

\* A connection that is not in the table yet has not been read.
UnreadBefore ==
    /\ \A p \in Peers \ sockets : received[p] = 0
    /\ apc = "install" => received[incoming] = 0

\* A parsed request is the last word of its sender, still in the buffer.
RequestIsLastWord ==
    \A k \in DOMAIN requests :
        LET p == requests[k].from IN
        /\ requests[k].known
        /\ Words(p) > 0
        /\ chunk[requests[k].slot] = sent[p][Words(p)]

\* The mask says what the last word received from the slot's client says.
Heard(i) ==
    LET n == Words(connections[i]) IN i \in mask <=> n > 0 /\ sent[connections[i]][n] = 1

HeardWhenServed ==
    /\ \A i \in Active : (\A k \in DOMAIN requests : requests[k].slot # i) => Heard(i)
    /\ hpc = "signal" => Heard(requests[1].slot)

InterestInv ==
    /\ WholeMessages /\ UnreadBefore /\ RequestIsLastWord
    /\ HeardWhenServed /\ InterestWasDeclared

\* Messages and bytes.
LEMMA WholeWords ==
    ASSUME PeersTyped, WholeMessages, NEW p \in Peers
    PROVE  /\ Words(p) \in Nat /\ Len(sent[p]) \in Nat /\ Words(p) <= Len(sent[p])
           /\ received[p] = 5 * Words(p)
           /\ Words(p) >= Len(sent[p]) - 1
<1>1. received[p] \in Nat /\ Len(sent[p]) \in Nat
  BY DEF PeersTyped
<1>2. received[p] = 5 * Len(sent[p]) \/ received[p] = 5 * (Len(sent[p]) - 1)
  BY DEF WholeMessages, MessageBytes
<1>3. \A n \in Nat : (5 * n) \div 5 = n
  OBVIOUS
<1>4. Words(p) = received[p] \div 5
  BY DEF Words, MessageBytes
<1>5. CASE received[p] = 5 * Len(sent[p])
  <2>1. Words(p) = Len(sent[p])
    BY <1>1, <1>3, <1>4, <1>5
  <2>. QED  BY <1>1, <1>5, <2>1
<1>6. CASE received[p] = 5 * (Len(sent[p]) - 1)
  <2>1. Len(sent[p]) - 1 \in Nat
    BY <1>1, <1>6
  <2>2. Words(p) = Len(sent[p]) - 1
    BY <1>3, <1>4, <1>6, <2>1
  <2>. QED  BY <1>1, <1>6, <2>1, <2>2
<1>. QED  BY <1>2, <1>5, <1>6

\* The next end of a message.
LEMMA NextWhole ==
    ASSUME NEW L \in Nat, NEW m \in Nat, m <= 5 * L, m > 5 * (L - 1), m % 5 = 0
    PROVE  m = 5 * L
<1>1. m = 5 * (m \div 5) /\ m \div 5 \in Nat
  OBVIOUS
<1>. QED  BY <1>1

\* What has been received stays as it was written.
LEMMA WordsKept ==
    ASSUME ServerInv, WholeMessages, [Next]_vars,
           NEW p \in Peers, NEW k \in 1 .. Words(p)
    PROVE  sent'[p][k] = sent[p][k]
<1>1. sent \in [Peers -> Seq({0, 1})] /\ PeersTyped
  BY DEF ServerInv, TypeOK, PeersTyped
<1>2. k \in 1 .. Len(sent[p])
  BY <1>1, WholeWords
<1>3. ASSUME NEW q \in Peers, NEW b \in {0, 1}, Write(q, b)
      PROVE  sent'[p][k] = sent[p][k]
  <2>1. sent' = [sent EXCEPT ![q] = Append(sent[q], b)]
    BY <1>3 DEF Write
  <2>2. Append(sent[p], b)[k] = sent[p][k]
    BY <1>1, <1>2
  <2>. QED  BY <1>1, <2>1, <2>2
<1>4. CASE sent' = sent
  BY <1>4
<1>5. CASE Network
  BY <1>3, <1>5 DEF Network, Connect, Deliver, Leave
<1>. QED  BY <1>4, <1>5, AcceptFrame, HandleFrame, SenderFrame DEF Next, vars, peerVars

\* Only recv() changes what is received.
LEMMA ReceivedFrame ==
    ASSUME [Next]_vars, ~ReceiveBytes
    PROVE  received' = received /\ chunk' = chunk
<1>1. CASE Network
  BY <1>1 DEF Network, Connect, Write, Deliver, Leave, tableVars
<1>2. CASE Handle
  BY <1>2 DEF Handle, HandleLocking, HandleLocal, Snapshot, LockTable, UpdateInterest,
              CheckClients, CheckInterest, WaitAvailable, Poll, SkipSlot, ReceiveEnd,
              UnlockTable, IgnoreRequest, SignalInterest, ClearAvailable,
              ClearInterested, peerVars, tableVars
<1>. QED  BY <1>1, <1>2, AcceptFrame, SenderFrame DEF Next, vars, peerVars, tableVars

\* recv() returns one message, or finds nothing to return.
LEMMA ReadOne ==
    ASSUME ServerInv, InterestInv, ReceiveBytes
    PROVE  LET p == fds[slot] IN
           \/ received' = received /\ chunk' = chunk /\ requests' = requests
           \/ /\ received' = [received EXCEPT ![p] = received[p] + 5]
              /\ delivered[p] = received[p] + 5
              /\ Words(p) + 1 \in 1 .. Len(sent[p])
              /\ chunk' = [chunk EXCEPT ![slot] = sent[p][Words(p) + 1]]
              /\ requests' = Append(requests, [slot |-> slot, from |-> p, known |-> TRUE])
<1>. DEFINE p == fds[slot]
<1>1. p \in Peers
  BY ReceiveFrom DEF ReceiveBytes
<1>2. PeersTyped /\ WholeMessages /\ StreamOrder
  BY DEF ServerInv, TypeOK, InterestInv
<1>3. /\ Words(p) \in Nat /\ Len(sent[p]) \in Nat /\ Words(p) <= Len(sent[p])
      /\ received[p] = 5 * Words(p)
  BY <1>1, <1>2, WholeWords
<1>4. received[p] <= delivered[p] /\ delivered[p] \in Nat
      /\ delivered[p] <= 5 * Len(sent[p])
  BY <1>1, <1>2 DEF StreamOrder, PeersTyped, MessageBytes
<1>5. delivered[p] = received[p] \/ (delivered[p] = received[p] + 5 /\ Words(p) < Len(sent[p]))
  <2>1. /\ received[p] = 5 * Len(sent[p]) \/ received[p] = 5 * (Len(sent[p]) - 1)
        /\ delivered[p] = 5 * Len(sent[p]) \/ delivered[p] = 5 * (Len(sent[p]) - 1)
    BY <1>1, <1>2 DEF WholeMessages, MessageBytes
  <2>. QED  BY <1>3, <1>4, <2>1
<1>6. MaxRequestSize \in Nat /\ MaxRequestSize >= 5
  BY ServerAssumption DEF MessageBytes
<1>7. /\ received' = [received EXCEPT ![p] = received[p] + Taken(p)]
      /\ Taken(p) <= 4 => chunk' = chunk
      /\ ~(Taken(p) <= 4) =>
           chunk' = [chunk EXCEPT ![slot] = StreamByte(p, received[p] + 4)]
      /\ Taken(p) < 4 => requests' = requests
      /\ ~(Taken(p) < 4) => requests' = Append(requests, Request(slot, p))
  BY DEF ReceiveBytes, HeaderBytes
<1>8. CASE delivered[p] = received[p]
  <2>1. Taken(p) = 0
    BY <1>3, <1>6, <1>8 DEF Taken, Pending
  <2>2. received' = received
    BY <1>1, <1>2, <1>3, <1>7, <2>1 DEF PeersTyped
  <2>. QED  BY <1>7, <2>1, <2>2
<1>9. CASE delivered[p] = received[p] + 5 /\ Words(p) < Len(sent[p])
  <2>1. Taken(p) = 5
    BY <1>3, <1>6, <1>9 DEF Taken, Pending
  <2>2. (received[p] + 4) % 5 = 4 /\ (received[p] + 4) \div 5 = Words(p) /\ received[p] % 5 = 0
    BY <1>3
  <2>3. StreamByte(p, received[p] + 4) = sent[p][Words(p) + 1]
    BY <2>2 DEF StreamByte, MessageBytes, HeaderBytes
  <2>4. Request(slot, p) = [slot |-> slot, from |-> p, known |-> TRUE]
    BY <2>2 DEF Request, MessageBytes
  <2>5. Words(p) + 1 \in 1 .. Len(sent[p])
    BY <1>3, <1>9
  <2>. QED  BY <1>7, <1>9, <2>1, <2>3, <2>4, <2>5
<1>. QED  BY <1>5, <1>8, <1>9
\* The same, where one message was read: of one client and no other.
LEMMA ReadOneWords ==
    ASSUME ServerInv, InterestInv, NEW p \in Peers,
           received' = [received EXCEPT ![p] = received[p] + 5]
    PROVE  /\ Words(p)' = Words(p) + 1
           /\ \A q \in Peers \ {p} : Words(q)' = Words(q)
<1>1. received \in [Peers -> Nat] /\ PeersTyped /\ WholeMessages
  BY DEF ServerInv, InterestInv, TypeOK, PeersTyped
<1>2. Words(p) \in Nat /\ received[p] = 5 * Words(p)
  BY <1>1, WholeWords
<1>3. received'[p] = 5 * (Words(p) + 1) /\ \A q \in Peers \ {p} : received'[q] = received[q]
  BY <1>1, <1>2
<1>4. \A n \in Nat : (5 * n) \div 5 = n
  OBVIOUS
<1>5. received'[p] \div 5 = Words(p) + 1
  BY <1>2, <1>3, <1>4
<1>. QED  BY <1>3, <1>5 DEF Words, MessageBytes

\* Clients that wait write one message at a time, and it arrives whole.
LEMMA WholeStep ==
    ASSUME ServerInv, InterestInv, OneAtATime, [Next]_vars
    PROVE  WholeMessages'
<1>0. PeersTyped /\ WholeMessages /\ StreamOrder
  BY DEF ServerInv, TypeOK, InterestInv
<1>. SUFFICES ASSUME NEW p \in Peers, NEW n \in {received'[p], delivered'[p]}
              PROVE  n = 5 * Len(sent'[p]) \/ n = 5 * (Len(sent'[p]) - 1)
  BY DEF WholeMessages, MessageBytes
<1>1. /\ received[p] \in Nat /\ delivered[p] \in Nat /\ Len(sent[p]) \in Nat
      /\ received[p] <= delivered[p] /\ delivered[p] <= 5 * Len(sent[p])
      /\ sent \in [Peers -> Seq({0, 1})] /\ received \in [Peers -> Nat]
      /\ delivered \in [Peers -> Nat]
  BY <1>0 DEF PeersTyped, StreamOrder, MessageBytes
<1>2. /\ received[p] = 5 * Len(sent[p]) \/ received[p] = 5 * (Len(sent[p]) - 1)
      /\ delivered[p] = 5 * Len(sent[p]) \/ delivered[p] = 5 * (Len(sent[p]) - 1)
  BY <1>0 DEF WholeMessages, MessageBytes
<1>3. ASSUME NEW q \in Peers, NEW b \in {0, 1}, Write(q, b)
      PROVE  n = 5 * Len(sent'[p]) \/ n = 5 * (Len(sent'[p]) - 1)
  <2>1. /\ sent' = [sent EXCEPT ![q] = Append(sent[q], b)]
        /\ received' = received /\ delivered' = delivered
        /\ received[q] = 5 * Len(sent[q])
    BY <1>3 DEF Write, OneAtATime, MessageBytes
  <2>2. CASE p = q
    <3>1. Len(sent'[p]) = Len(sent[p]) + 1
      BY <1>1, <2>1, <2>2
    <3>2. received[p] = 5 * Len(sent[p]) /\ delivered[p] = 5 * Len(sent[p])
      BY <1>1, <2>1, <2>2
    <3>3. n = 5 * Len(sent[p])
      BY <2>1, <3>2
    <3>. QED  BY <1>1, <3>1, <3>3
  <2>3. CASE p # q
    BY <1>1, <1>2, <2>1, <2>3
  <2>. QED  BY <2>2, <2>3
<1>4. ASSUME NEW q \in Peers, Deliver(q)
      PROVE  n = 5 * Len(sent'[p]) \/ n = 5 * (Len(sent'[p]) - 1)
  <2>1. PICK m \in delivered[q] + 1 .. 5 * Len(sent[q]) :
               m % 5 = 0 /\ delivered' = [delivered EXCEPT ![q] = m]
    BY <1>4 DEF Deliver, OneAtATime, MessageBytes
  <2>2. sent' = sent /\ received' = received
    BY <1>4 DEF Deliver
  <2>3. CASE p = q
    <3>1. m = 5 * Len(sent[p])
      <4>1. /\ m \in Nat /\ m <= 5 * Len(sent[p]) /\ m > 5 * (Len(sent[p]) - 1)
            /\ m % 5 = 0
        <5>1. /\ m \in delivered[p] + 1 .. 5 * Len(sent[p]) /\ m % 5 = 0
          BY <2>1, <2>3
        <5>2. m \in Nat /\ m >= delivered[p] + 1 /\ m <= 5 * Len(sent[p])
          BY <1>1, <5>1
        <5>. QED  BY <1>1, <1>2, <5>1, <5>2
      <4>. QED  BY <1>1, <4>1, NextWhole
    <3>2. delivered'[p] = m
      BY <1>1, <2>1, <2>3
    <3>. QED  BY <1>2, <2>2, <3>1, <3>2
  <2>4. CASE p # q
    BY <1>1, <1>2, <2>1, <2>2, <2>4
  <2>. QED  BY <2>3, <2>4
<1>5. CASE ReceiveBytes
  <2>1. sent' = sent /\ delivered' = delivered
    BY <1>5 DEF ReceiveBytes
  <2>2. received'[p] \in {received[p], delivered[p]}
    <3>1. CASE received' = received
      BY <3>1
    <3>2. CASE /\ received' = [received EXCEPT ![fds[slot]] = received[fds[slot]] + 5]
               /\ delivered[fds[slot]] = received[fds[slot]] + 5
      BY <1>1, <3>2
    <3>. QED  BY <1>5, <3>1, <3>2, ReadOne
  <2>. QED  BY <1>2, <2>1, <2>2
<1>6. CASE UNCHANGED <<sent, delivered, received>>
  BY <1>2, <1>6
<1>7. CASE Network
  BY <1>3, <1>4, <1>6, <1>7 DEF Network, Connect, Leave
<1>8. CASE Handle /\ ~ReceiveBytes
  BY <1>6, <1>8, HandleFrame, ReceivedFrame DEF Next
<1>. QED  BY <1>5, <1>6, <1>7, <1>8, AcceptFrame, SenderFrame DEF Next, vars, peerVars

\* recv() only reads from connections of the table.
LEMMA UnreadStep ==
    ASSUME ServerInv, InterestInv, [Next]_vars
    PROVE  UnreadBefore'
<1>0. UnreadBefore /\ AcceptLocals /\ PeersTyped /\ TableTyped /\ AcceptTyped
  BY DEF InterestInv, ServerInv, TypeOK
<1>1. CASE ReceiveBytes
  <2>1. /\ slot \in Slots /\ fds[slot] \in Peers /\ connections[slot] = fds[slot]
    BY <1>1, ReceiveFrom DEF ReceiveBytes
  <2>2. fds[slot] \in sockets
    BY <1>0, <2>1, ServerAssumption DEF AcceptLocals, Active
  <2>3. apc = "install" => incoming # fds[slot] /\ incoming \in Peers
    BY <1>0, <2>1 DEF AcceptLocals, PeersTyped
  <2>4. \A q \in Peers : q # fds[slot] => received'[q] = received[q]
    BY <1>0, <1>1 DEF ReceiveBytes, PeersTyped
  <2>5. apc' = apc /\ incoming' = incoming /\ sockets' = sockets
    BY <1>1 DEF ReceiveBytes, acceptVars
  <2>. QED  BY <1>0, <2>2, <2>3, <2>4, <2>5 DEF UnreadBefore
<1>2. CASE ~ReceiveBytes
  <2>1. received' = received
    BY <1>2, ReceivedFrame
  <2>2. ASSUME NEW p \in Peers, AcceptConnection(p) PROVE UnreadBefore'
    <3>1. p \notin sockets
      BY <2>2 DEF AcceptConnection
    <3>2. received[p] = 0
      BY <1>0, <3>1 DEF UnreadBefore
    <3>3. CASE sockets' = sockets \cup {p} /\ incoming' = p
      BY <1>0, <2>1, <3>2, <3>3 DEF UnreadBefore
    <3>4. CASE sockets' = sockets /\ apc' = "check"
      BY <1>0, <2>1, <3>4 DEF UnreadBefore
    <3>. QED  BY <2>2, <3>3, <3>4 DEF AcceptConnection
  <2>3. CASE AcceptCheck \/ Install \/ CountClients \/ SetAvailable \/ SetConnected
    <3>1. sockets' = sockets /\ apc' # "install"
      BY <2>3 DEF AcceptCheck, Install, CountClients, SetAvailable, SetConnected, peerVars
    <3>. QED  BY <1>0, <2>1, <3>1 DEF UnreadBefore
  <2>4. CASE Network \/ Handle \/ Send \/ UNCHANGED vars
    <3>1. sockets' = sockets /\ apc' = apc /\ incoming' = incoming
      BY <2>4, NetworkFrame, HandleFrame, SenderFrame
         DEF Network, Connect, Write, Deliver, Leave, acceptVars, peerVars, vars
    <3>. QED  BY <1>0, <2>1, <3>1 DEF UnreadBefore
  <2>. QED  BY <2>2, <2>3, <2>4 DEF Next, Accept
<1>. QED  BY <1>1, <1>2
\* Who sent a request, and what its slot holds.
LEMMA RequestOwner ==
    ASSUME ServerInv, NEW k \in DOMAIN requests
    PROVE  /\ requests[k].slot \in Active
           /\ connections[requests[k].slot] = requests[k].from
           /\ requests[k].from \in Peers
<1>1. requests[k].slot \in Slots /\ requests[k].from \in Peers
  BY RequestTyped DEF ServerInv, TypeOK
<1>. QED  BY <1>1, ServerAssumption DEF ServerInv, RequestFromActive, Active

\* Only three steps change the requests.
LEMMA RequestsFrame ==
    ASSUME [Next]_vars, ~ReceiveBytes, ~IgnoreRequest, ~SignalInterest
    PROVE  requests' = requests
<1>1. CASE Network \/ Accept \/ Send \/ UNCHANGED vars
  BY <1>1, NetworkFrame, AcceptFrame, SenderFrame DEF handleVars, vars
<1>2. CASE Handle
  BY <1>2 DEF Handle, HandleLocking, HandleLocal, Snapshot, LockTable, UpdateInterest,
              CheckClients, CheckInterest, WaitAvailable, Poll, SkipSlot, ReceiveEnd,
              UnlockTable, ClearAvailable, ClearInterested
<1>. QED  BY <1>1, <1>2 DEF Next

\* Another slot's client is another client.
LEMMA OtherClient ==
    ASSUME ServerInv, ReceiveBytes, NEW i \in Active, i # slot
    PROVE  connections[i] \in Peers \ {fds[slot]}
<1>1. slot \in Slots /\ fds[slot] \in Peers /\ connections[slot] = fds[slot]
  BY ReceiveFrom DEF ReceiveBytes
<1>2. slot \in Active /\ connections[i] \in Peers
  BY <1>1, ServerAssumption DEF Active, ServerInv, TypeOK, TableTyped
<1>3. connections[i] # connections[slot]
  BY <1>2 DEF ServerInv, TableConsistent
<1>. QED  BY <1>1, <1>2, <1>3

\* A parsed request stays the last word of its sender until it is served: its client
\* is not read again before.
LEMMA LastWordStep ==
    ASSUME ServerInv, InterestInv, [Next]_vars
    PROVE  RequestIsLastWord'
<1>0. /\ RequestIsLastWord /\ WholeMessages /\ PeersTyped
      /\ requests \in Seq(Requests) /\ HandlerTyped /\ HandlerLocals
  BY DEF InterestInv, ServerInv, TypeOK, HandlerTyped
<1>. SUFFICES ASSUME NEW k \in DOMAIN requests', NEW p, p = requests'[k].from
              PROVE  /\ requests'[k].known
                     /\ Words(p)' > 0
                     /\ chunk'[requests'[k].slot] = sent'[p][Words(p)']
  BY DEF RequestIsLastWord, Words
<1>1. ASSUME ~ReceiveBytes, NEW j \in DOMAIN requests, requests'[k] = requests[j]
      PROVE  /\ requests'[k].known
             /\ Words(p)' > 0
             /\ chunk'[requests'[k].slot] = sent'[p][Words(p)']
  <2>1. received' = received /\ chunk' = chunk
    BY <1>1, ReceivedFrame
  <2>2. requests[j].known /\ Words(p) > 0 /\ chunk[requests[j].slot] = sent[p][Words(p)]
    BY <1>0, <1>1 DEF RequestIsLastWord
  <2>3. p \in Peers
    BY <1>1, RequestOwner
  <2>4. Words(p) \in 1 .. Words(p)
    BY <1>0, <2>2, <2>3, WholeWords
  <2>5. sent'[p][Words(p)] = sent[p][Words(p)]
    BY <1>0, <2>3, <2>4, WordsKept
  <2>6. Words(p)' = Words(p)
    BY <2>1 DEF Words
  <2>. QED  BY <1>1, <2>1, <2>2, <2>5, <2>6
<1>2. CASE ReceiveBytes
  <2>1. sent' = sent
    BY <1>2 DEF ReceiveBytes
  <2>2. CASE received' = received /\ chunk' = chunk /\ requests' = requests
    <3>1. Words(p)' = Words(p)
      BY <2>2 DEF Words
    <3>. QED  BY <1>0, <2>1, <2>2, <3>1 DEF RequestIsLastWord
  <2>3. ASSUME NEW q, q = fds[slot],
               received' = [received EXCEPT ![q] = received[q] + 5],
               Words(q) + 1 \in 1 .. Len(sent[q]),
               chunk' = [chunk EXCEPT ![slot] = sent[q][Words(q) + 1]],
               requests' = Append(requests, [slot |-> slot, from |-> q, known |-> TRUE])
        PROVE  /\ requests'[k].known
               /\ Words(p)' > 0
               /\ chunk'[requests'[k].slot] = sent'[p][Words(p)']
    <3>1. q \in Peers /\ slot \in Slots
      BY <1>2, <2>3, ReceiveFrom DEF ReceiveBytes
    <3>2. Words(q)' = Words(q) + 1 /\ \A r \in Peers \ {q} : Words(r)' = Words(r)
      BY <2>3, <3>1, ReadOneWords
    <3>3. chunk \in [Slots -> Byte]
      BY DEF ServerInv, TypeOK, TableTyped
    <3>4. CASE k \in DOMAIN requests
      <4>0. requests'[k] = requests[k]
        BY <1>0, <2>3, <3>4
      <4>1. requests[k].slot # slot
        BY <1>0, <1>2, <3>4, RequestsBehind DEF ReceiveBytes
      <4>2. p \in Peers \ {q} /\ requests[k].slot \in Slots
        BY <1>2, <2>3, <3>4, <4>0, <4>1, RequestOwner, OtherClient DEF Active
      <4>3. chunk'[requests[k].slot] = chunk[requests[k].slot]
        BY <2>3, <3>3, <4>1, <4>2
      <4>4. requests[k].known /\ Words(p) > 0 /\ chunk[requests[k].slot] = sent[p][Words(p)]
        BY <1>0, <3>4, <4>0 DEF RequestIsLastWord
      <4>. QED  BY <2>1, <3>2, <4>0, <4>2, <4>3, <4>4
    <3>5. CASE k = Len(requests) + 1
      <4>1. requests'[k] = [slot |-> slot, from |-> q, known |-> TRUE] /\ p = q
        BY <1>0, <2>3, <3>5
      <4>2. Words(q)' > 0 /\ chunk'[slot] = sent'[q][Words(q)']
        BY <1>0, <2>1, <2>3, <3>1, <3>2, <3>3, WholeWords
      <4>. QED  BY <4>1, <4>2
    <3>6. k \in DOMAIN requests \/ k = Len(requests) + 1
      BY <1>0, <2>3
    <3>. QED  BY <3>4, <3>5, <3>6
  <2>. QED  BY <1>2, <2>2, <2>3, ReadOne
<1>3. CASE IgnoreRequest \/ SignalInterest
  <2>1. requests # <<>> /\ requests' = Tail(requests) /\ ~ReceiveBytes
    BY <1>0, <1>3 DEF IgnoreRequest, SignalInterest, HandlerLocals, ReceiveBytes
  <2>2. k + 1 \in DOMAIN requests /\ requests'[k] = requests[k + 1]
    BY <1>0, <2>1
  <2>. QED  BY <1>1, <2>1, <2>2
<1>4. CASE ~ReceiveBytes /\ ~IgnoreRequest /\ ~SignalInterest
  <2>1. requests' = requests
    BY <1>4, RequestsFrame
  <2>. QED  BY <1>1, <1>4, <2>1
<1>. QED  BY <1>2, <1>3, <1>4
\* A slot whose client, bit and received bytes a step leaves alone.
LEMMA HeardKept ==
    ASSUME ServerInv, InterestInv, [Next]_vars, NEW i \in Active,
           connections'[i] = connections[i],
           received'[connections[i]] = received[connections[i]],
           i \in mask' <=> i \in mask,
           Heard(i)
    PROVE  Heard(i)'
<1> DEFINE p == connections[i]
           n == Words(p)
<1>1. p \in Peers /\ PeersTyped /\ WholeMessages
  BY DEF ServerInv, InterestInv, TypeOK, TableTyped, Active
<1>2. n \in Nat
  BY <1>1, WholeWords
<1>3. n > 0 => sent'[p][n] = sent[p][n]
  <2>. SUFFICES ASSUME n > 0 PROVE sent'[p][n] = sent[p][n]
    OBVIOUS
  <2>1. n \in 1 .. n
    BY <1>2
  <2>. QED  BY <1>1, <2>1, WordsKept
<1>4. i \in mask <=> n > 0 /\ sent[p][n] = 1
  BY DEF Heard
<1>5. received'[connections'[i]] \div MessageBytes = n
  BY DEF Words
<1>6. i \in mask' <=> n > 0 /\ sent'[connections'[i]][n] = 1
  BY <1>3, <1>4
<1>. QED  BY <1>5, <1>6 DEF Heard, Words

\* What is heard is what was said last, once it is served.
LEMMA HeardStep ==
    ASSUME ServerInv, InterestInv, [Next]_vars
    PROVE  HeardWhenServed'
<1>0. /\ HeardWhenServed /\ RequestIsLastWord /\ UnreadBefore /\ WholeMessages
      /\ PeersTyped /\ TableTyped /\ HandlerTyped /\ HandlerLocals
      /\ requests \in Seq(Requests) /\ mask \subseteq Active
      /\ connections \in [Slots -> Peers \cup {NoPeer}]
  BY DEF InterestInv, ServerInv, TypeOK, HandlerTyped, TableTyped, TableConsistent
<1>1. CASE Install
  <2>1. PICK j \in Free : connections' = [connections EXCEPT ![j] = incoming]
    BY <1>1, InstallSlot
  <2>2. /\ requests' = requests /\ mask' = mask /\ hpc' = hpc /\ received' = received
        /\ apc = "install"
    BY <1>1 DEF Install, handleVars, peerVars
  <2>3. j \notin Active /\ j \in Slots
    BY <2>1 DEF Free
  <2>4. ASSUME NEW i \in Active, Heard(i) PROVE Heard(i)'
    <3>1. connections'[i] = connections[i]
      BY <1>0, <2>1, <2>3
    <3>. QED  BY <2>2, <2>4, <3>1, HeardKept
  <2>5. Heard(j)'
    <3>1. connections'[j] = incoming /\ received'[incoming] = 0 /\ j \notin mask'
      BY <1>0, <2>1, <2>2, <2>3 DEF UnreadBefore
    <3>2. 0 \div MessageBytes = 0
      BY DEF MessageBytes
    <3>. QED  BY <3>1, <3>2 DEF Heard, Words
  <2>6. Active' \subseteq Active \cup {j}
    BY <1>0, <2>1 DEF Active
  <2>7. hpc = "signal" => 1 \in DOMAIN requests
    BY <1>0 DEF HandlerLocals
  <2>8. hpc = "signal" => Heard(requests[1].slot)'
    BY <1>0, <2>2, <2>4, <2>7, RequestOwner DEF HeardWhenServed
  <2>. QED  BY <1>0, <2>2, <2>4, <2>5, <2>6, <2>8 DEF HeardWhenServed
<1>2. CASE ReceiveEnd
  <2>1. slot \in Slots /\ hpc = "receive"
    BY <1>2, ReceiveFrom DEF ReceiveEnd
  <2>2. /\ connections' = [connections EXCEPT ![slot] = NoPeer] /\ mask' = mask \ {slot}
        /\ requests' = requests /\ hpc' = hpc
    BY <1>2 DEF ReceiveEnd, Disconnect
  <2>3. received' = received
    BY <1>2, ReceivedFrame DEF ReceiveEnd, ReceiveBytes, Next, Handle, HandleLocal
  <2>4. ASSUME NEW i \in Active', \A k \in DOMAIN requests : requests[k].slot # i
        PROVE  Heard(i)'
    <3>1. i \in Active /\ i # slot /\ connections'[i] = connections[i]
      BY <1>0, <2>1, <2>2, <2>4 DEF Active
    <3>2. Heard(i)
      BY <1>0, <2>4, <3>1 DEF HeardWhenServed
    <3>. QED  BY <2>2, <2>3, <3>1, <3>2, HeardKept
  <2>. QED  BY <2>1, <2>2, <2>4 DEF HeardWhenServed
<1>3. CASE ReceiveBytes
  <2>1. hpc = "receive" /\ hpc' = hpc /\ connections' = connections /\ mask' = mask
    BY <1>3 DEF ReceiveBytes
  <2>2. CASE received' = received /\ requests' = requests
    <3>1. ASSUME NEW i \in Active, Heard(i) PROVE Heard(i)'
      BY <2>1, <2>2, <3>1, HeardKept
    <3>2. Active' = Active
      BY <2>1 DEF Active
    <3>. QED  BY <1>0, <2>1, <2>2, <3>1, <3>2 DEF HeardWhenServed
  <2>3. ASSUME NEW p, p = fds[slot],
               received' = [received EXCEPT ![p] = received[p] + 5],
               requests' = Append(requests, [slot |-> slot, from |-> p, known |-> TRUE])
        PROVE  HeardWhenServed'
    <3>1. ASSUME NEW i \in Active, \A k \in DOMAIN requests' : requests'[k].slot # i
          PROVE  Heard(i)'
      <4>1. i # slot
        <5>1. /\ Len(requests) + 1 \in DOMAIN requests'
              /\ requests'[Len(requests) + 1].slot = slot
          BY <1>0, <2>3
        <5>. QED  BY <3>1, <5>1
      <4>2. \A k \in DOMAIN requests : k \in DOMAIN requests' /\ requests'[k] = requests[k]
        BY <1>0, <2>3
      <4>3. Heard(i)
        BY <1>0, <3>1, <4>2 DEF HeardWhenServed
      <4>4. connections[i] \in Peers \ {p}
        BY <1>3, <2>3, <4>1, OtherClient
      <4>5. received'[connections[i]] = received[connections[i]]
        BY <1>0, <2>3, <4>4 DEF PeersTyped
      <4>. QED  BY <2>1, <4>3, <4>5, HeardKept
    <3>2. Active' = Active
      BY <2>1 DEF Active
    <3>. QED  BY <2>1, <3>1, <3>2 DEF HeardWhenServed
  <2>. QED  BY <1>3, <2>2, <2>3, ReadOne
<1>4. CASE UpdateInterest
  <2> DEFINE j == requests[1].slot
             p == connections[j]
  <2>1. /\ requests # <<>> /\ hpc' = "signal" /\ requests' = requests
        /\ connections' = connections /\ chunk' = chunk
    BY <1>4 DEF UpdateInterest
  <2>2. 1 \in DOMAIN requests /\ Head(requests) = requests[1]
    BY <1>0, <2>1
  <2>3. received' = received
    BY <1>4, ReceivedFrame DEF UpdateInterest, ReceiveBytes
  <2>4. sent' = sent
    BY <1>4 DEF UpdateInterest, peerVars
  <2>5. j \in Active /\ p \in Peers /\ p = requests[1].from
    BY <2>2, RequestOwner
  <2>6. Words(p) > 0 /\ chunk[j] = sent[p][Words(p)]
    BY <1>0, <2>2, <2>5 DEF RequestIsLastWord
  <2>7. chunk[j] \in {0, 1}
    <3>1. Words(p) \in 1 .. Len(sent[p]) /\ sent[p] \in Seq({0, 1})
      BY <1>0, <2>5, <2>6, WholeWords DEF PeersTyped
    <3>. QED  BY <2>6, <3>1
  <2>8. mask' = NewMask(j, chunk[j] = 1)
    BY <1>4, <2>2, <2>5, <2>7 DEF UpdateInterest
  <2>9. j \in mask' <=> chunk[j] = 1
    BY <2>8 DEF NewMask
  <2>10. \A i \in Active : i # j => (i \in mask' <=> i \in mask)
    BY <2>8 DEF NewMask
  <2>11. Words(p)' = Words(p) /\ Active' = Active
    BY <2>1, <2>3 DEF Words, Active
  <2>12. Heard(j)'
    <3>1. received'[connections'[j]] \div MessageBytes = Words(p)
      BY <2>1, <2>3 DEF Words
    <3>2. j \in mask' <=> Words(p) > 0 /\ sent'[connections'[j]][Words(p)] = 1
      BY <2>1, <2>4, <2>6, <2>9
    <3>. QED  BY <2>1, <3>1, <3>2 DEF Heard, Words
  <2>13. ASSUME NEW i \in Active, \A k \in DOMAIN requests : requests[k].slot # i
         PROVE  Heard(i)'
    <3>1. Heard(i) /\ i # j
      BY <1>0, <2>2, <2>13 DEF HeardWhenServed
    <3>. QED  BY <2>1, <2>3, <2>10, <3>1, HeardKept
  <2>. QED  BY <2>1, <2>11, <2>12, <2>13 DEF HeardWhenServed
<1>5. CASE ~Install /\ ~ReceiveEnd /\ ~UpdateInterest /\ ~ReceiveBytes
  <2>1. connections' = connections /\ mask' = mask /\ received' = received
    BY <1>5, TableFrame, ReceivedFrame
  <2>2. Active' = Active
    BY <2>1 DEF Active
  <2>3. ASSUME NEW i \in Active, Heard(i) PROVE Heard(i)'
    BY <2>1, <2>3, HeardKept
  <2>4. CASE IgnoreRequest
    <3>1. requests # <<>> /\ ~Head(requests).known
      BY <2>4 DEF IgnoreRequest
    <3>2. 1 \in DOMAIN requests /\ Head(requests) = requests[1]
      BY <1>0, <3>1
    <3>. QED  BY <1>0, <3>1, <3>2 DEF RequestIsLastWord
  <2>5. CASE SignalInterest
    <3>1. hpc = "signal" /\ hpc' = "serve" /\ requests # <<>> /\ requests' = Tail(requests)
      BY <1>0, <2>5 DEF SignalInterest, HandlerLocals
    <3>2. \A k \in DOMAIN requests : k = 1 \/ (k - 1 \in DOMAIN requests'
                                                 /\ requests[k] = requests'[k - 1])
      BY <1>0, <3>1
    <3>3. ASSUME NEW i \in Active, \A k \in DOMAIN requests' : requests'[k].slot # i
          PROVE  Heard(i)
      <4>1. CASE requests[1].slot = i
        BY <1>0, <3>1, <4>1 DEF HeardWhenServed
      <4>2. CASE requests[1].slot # i
        BY <1>0, <3>2, <3>3, <4>2 DEF HeardWhenServed
      <4>. QED  BY <4>1, <4>2
    <3>. QED  BY <2>2, <2>3, <3>1, <3>3 DEF HeardWhenServed
  <2>6. CASE ~IgnoreRequest /\ ~SignalInterest
    <3>1. requests' = requests
      BY <1>5, <2>6, RequestsFrame
    <3>2. hpc' = "signal" => hpc = "signal"
      <4>1. CASE Network \/ Accept \/ Send \/ UNCHANGED vars
        BY <4>1, NetworkFrame, AcceptFrame, SenderFrame DEF handleVars, vars
      <4>2. CASE Handle
        BY <1>5, <2>6, <4>2
           DEF Handle, HandleLocking, HandleLocal, Snapshot, LockTable, CheckClients,
               CheckInterest, WaitAvailable, Poll, SkipSlot, UnlockTable, ClearAvailable,
               ClearInterested
      <4>. QED  BY <4>1, <4>2 DEF Next
    <3>3. hpc = "signal" => 1 \in DOMAIN requests
      BY <1>0 DEF HandlerLocals
    <3>4. hpc' = "signal" => Heard(requests[1].slot)'
      <4>. SUFFICES ASSUME hpc' = "signal" PROVE Heard(requests[1].slot)'
        OBVIOUS
      <4>1. requests[1].slot \in Active /\ Heard(requests[1].slot)
        BY <1>0, <3>2, <3>3, RequestOwner DEF HeardWhenServed
      <4>. QED  BY <2>3, <3>1, <4>1
    <3>. QED  BY <1>0, <2>2, <2>3, <3>1, <3>4 DEF HeardWhenServed
  <2>. QED  BY <2>4, <2>5, <2>6
<1>. QED  BY <1>1, <1>2, <1>3, <1>4, <1>5
\* Some word of the client's said so.
LEMMA DeclaredStep ==
    ASSUME ServerInv, InterestInv, HeardWhenServed', TableConsistent', [Next]_vars
    PROVE  InterestWasDeclared'
<1>0. /\ InterestWasDeclared /\ WholeMessages /\ PeersTyped /\ mask \subseteq Active
      /\ connections \in [Slots -> Peers \cup {NoPeer}] /\ requests \in Seq(Requests)
  BY DEF InterestInv, ServerInv, TypeOK, HandlerTyped, TableTyped, TableConsistent
<1>1. ASSUME NEW i \in mask, connections'[i] = connections[i],
             ~ReceiveBytes \/ received' = received
      PROVE  \E k \in 1 .. received'[connections'[i]] \div MessageBytes :
                 sent'[connections'[i]][k] = 1
  <2>1. PICK k \in 1 .. Words(connections[i]) : sent[connections[i]][k] = 1
    BY <1>0, <1>1 DEF InterestWasDeclared, Words
  <2>2. connections[i] \in Peers
    BY <1>0 DEF Active
  <2>3. sent'[connections[i]][k] = 1
    BY <1>0, <2>1, <2>2, WordsKept
  <2>4. received' = received
    BY <1>1, ReceivedFrame
  <2>. QED  BY <1>1, <2>1, <2>3, <2>4 DEF Words
<1>2. CASE Install
  <2>1. PICK j \in Free : connections' = [connections EXCEPT ![j] = incoming]
    BY <1>2, InstallSlot
  <2>2. received' = received /\ mask' = mask
    BY <1>2 DEF Install, peerVars
  <2>3. \A i \in mask : connections'[i] = connections[i]
    BY <1>0, <2>1 DEF Free
  <2>. QED  BY <1>1, <2>2, <2>3 DEF InterestWasDeclared
<1>3. CASE ReceiveEnd
  <2>1. /\ connections' = [connections EXCEPT ![slot] = NoPeer] /\ mask' = mask \ {slot}
        /\ ~ReceiveBytes
    BY <1>3 DEF ReceiveEnd, Disconnect, ReceiveBytes
  <2>2. \A i \in mask' : i \in mask /\ connections'[i] = connections[i]
    BY <1>0, <2>1 DEF Active
  <2>. QED  BY <1>1, <2>1, <2>2 DEF InterestWasDeclared
<1>4. CASE UpdateInterest
  <2> DEFINE j == requests[1].slot
  <2>1. /\ requests # <<>> /\ hpc' = "signal" /\ requests' = requests
        /\ connections' = connections /\ ~ReceiveBytes
    BY <1>4 DEF UpdateInterest, ReceiveBytes
  <2>2. mask' \subseteq mask \cup {j}
    BY <1>0, <1>4 DEF UpdateInterest, NewMask
  <2>3. Heard(j)'
    BY <2>1 DEF HeardWhenServed
  <2>4. ASSUME j \in mask'
        PROVE  \E k \in 1 .. received'[connections'[j]] \div MessageBytes :
                   sent'[connections'[j]][k] = 1
    <3> DEFINE p == connections'[j]
               n == received'[p] \div MessageBytes
    <3>1. n > 0 /\ sent'[p][n] = 1
      BY <2>1, <2>3, <2>4 DEF Heard, Words
    <3>2. j \in Active
      <4>1. 1 \in DOMAIN requests
        BY <1>0, <2>1
      <4>. QED  BY <4>1, RequestOwner
    <3>3. received' = received /\ p \in Peers
      BY <1>0, <2>1, <3>2, ReceivedFrame DEF Active
    <3>4. n \in Nat
      BY <1>0, <3>3, WholeWords DEF Words
    <3>. QED  BY <3>1, <3>4
  <2>5. \A i \in mask : \E k \in 1 .. received'[connections'[i]] \div MessageBytes :
                            sent'[connections'[i]][k] = 1
    BY <1>1, <2>1
  <2>. QED  BY <2>2, <2>4, <2>5 DEF InterestWasDeclared
<1>5. CASE ReceiveBytes
  <2>1. connections' = connections /\ mask' = mask /\ sent' = sent
    BY <1>5 DEF ReceiveBytes
  <2>2. CASE received' = received
    BY <1>1, <2>1, <2>2 DEF InterestWasDeclared
  <2>3. ASSUME NEW p, p = fds[slot], received' = [received EXCEPT ![p] = received[p] + 5]
        PROVE  InterestWasDeclared'
    <3>1. p \in Peers
      BY <1>5, <2>3, ReceiveFrom DEF ReceiveBytes
    <3>2. Words(p)' = Words(p) + 1 /\ \A q \in Peers \ {p} : Words(q)' = Words(q)
      BY <2>3, <3>1, ReadOneWords
    <3>3. ASSUME NEW i \in mask
          PROVE  \E k \in 1 .. received'[connections'[i]] \div MessageBytes :
                     sent'[connections'[i]][k] = 1
      <4> DEFINE q == connections[i]
      <4>1. PICK k \in 1 .. Words(q) : sent[q][k] = 1
        BY <1>0 DEF InterestWasDeclared, Words
      <4>2. q \in Peers
        BY <1>0 DEF Active
      <4>3. Words(q) \in Nat
        BY <1>0, <4>2, WholeWords
      <4>4. received'[q] \div MessageBytes \in {Words(q), Words(q) + 1}
        BY <3>2, <4>2 DEF Words
      <4>5. k \in 1 .. received'[q] \div MessageBytes
        BY <4>3, <4>4
      <4>. QED  BY <2>1, <4>1, <4>5
    <3>. QED  BY <2>1, <3>3 DEF InterestWasDeclared
  <2>. QED  BY <1>5, <2>2, <2>3, ReadOne
<1>6. CASE ~Install /\ ~ReceiveEnd /\ ~UpdateInterest /\ ~ReceiveBytes
  <2>1. connections' = connections /\ mask' = mask
    BY <1>6, TableFrame
  <2>. QED  BY <1>1, <1>6, <2>1 DEF InterestWasDeclared
<1>. QED  BY <1>2, <1>3, <1>4, <1>5, <1>6

\* InterestInv is invariant for clients that wait and a network that does not cut.
THEOREM InterestInvariant ==
    ASSUME OneAtATime
    PROVE  Spec => [](ServerInv /\ InterestInv)
<1>1. Init => InterestInv
  <2>. SUFFICES ASSUME Init PROVE InterestInv
    OBVIOUS
  <2>1. Active = {} /\ requests = <<>> /\ mask = {}
    BY DEF Init, Active
  <2>2. WholeMessages
    <3>1. \A p \in Peers : received[p] = 0 /\ delivered[p] = 0 /\ sent[p] = <<>>
      BY DEF Init
    <3>2. MessageBytes * Len(<<>>) = 0
      BY DEF MessageBytes
    <3>. QED  BY <3>1, <3>2 DEF WholeMessages
  <2>3. UnreadBefore
    BY DEF Init, UnreadBefore
  <2>4. RequestIsLastWord /\ HeardWhenServed /\ InterestWasDeclared
    BY <2>1 DEF Init, RequestIsLastWord, HeardWhenServed, InterestWasDeclared
  <2>. QED  BY <2>2, <2>3, <2>4 DEF InterestInv
<1>2. (ServerInv /\ InterestInv) /\ [Next]_vars => (ServerInv /\ InterestInv)'
  <2>. SUFFICES ASSUME ServerInv, InterestInv, [Next]_vars
                PROVE  ServerInv' /\ InterestInv'
    OBVIOUS
  <2>1. ServerInv' /\ TableConsistent'
    BY ServerStep DEF ServerInv
  <2>2. HeardWhenServed'
    BY HeardStep
  <2>3. InterestWasDeclared'
    BY <2>1, <2>2, DeclaredStep
  <2>. QED  BY <2>1, <2>2, <2>3, WholeStep, UnreadStep, LastWordStep DEF InterestInv
<1>. QED  BY <1>1, <1>2, ServerInit, PTL DEF Spec

\* README, "The client will not receive any image data until it declares that it wants
\* to": nobody is in video_interest_mask who did not send a 1, however the tasks
\* interleave and slots are reused, when messages come one at a time and whole.
THEOREM InterestDeclaredTheorem ==
    ASSUME OneAtATime
    PROVE  Spec => []InterestWasDeclared
<1>1. InterestInv => InterestWasDeclared
  BY DEF InterestInv
<1>. QED  BY <1>1, InterestInvariant, PTL

\* Of what a client sent, the last word that was received and served counts, under the
\* same conditions.
THEOREM LastWordTheorem ==
    ASSUME OneAtATime
    PROVE  Spec => []LastWordWins
<1>1. InterestInv => LastWordWins
  BY DEF InterestInv, HeardWhenServed, Heard, Words, LastWordWins
<1>. QED  BY <1>1, InterestInvariant, PTL
=============================================================================
