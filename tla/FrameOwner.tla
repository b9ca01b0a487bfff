----------------------------- MODULE FrameOwner -----------------------------
(***************************************************************************)
(* What the camera driver promises about its frame buffers, seen from the  *)
(* application: a buffer is with the driver, in the queue of captured      *)
(* frames, or with the application; pictures are written only into a       *)
(* buffer that is with the driver; frames are handed over oldest first,    *)
(* and only a driver that grabs the latest frame ever drops one.           *)
(***************************************************************************)
EXTENDS Naturals, Sequences

CONSTANTS Frames, NoFrame, QueueLength, GrabLatest

VARIABLES
    captured, \* the queue of captured frames, oldest first
    lent,     \* the frames with the application
    target    \* the frame the driver writes the picture to, or NoFrame

ownerVars == <<captured, lent, target>>

Queued == {captured[k] : k \in DOMAIN captured}
WithDriver == Frames \ (Queued \cup lent)

Init == captured = <<>> /\ lent = {} /\ target = NoFrame

\* The driver starts to write a picture, or gives it up.
Aim == target' \in WithDriver \cup {NoFrame} /\ UNCHANGED <<captured, lent>>

\* The picture is complete.
Publish ==
    /\ target \in WithDriver
    /\ Len(captured) < QueueLength
    /\ captured' = Append(captured, target)
    /\ target' = NoFrame
    /\ UNCHANGED lent

\* The queue is full: the oldest frame makes room for the new one.
DropOldest ==
    /\ GrabLatest
    /\ captured # <<>>
    /\ captured' = Tail(captured)
    /\ UNCHANGED <<lent, target>>

Take ==
    /\ captured # <<>>
    /\ lent' = lent \cup {Head(captured)}
    /\ captured' = Tail(captured)
    /\ UNCHANGED target

Return(f) ==
    /\ f \in lent
    /\ lent' = lent \ {f}
    /\ UNCHANGED <<captured, target>>

Next == Aim \/ Publish \/ DropOldest \/ Take \/ (\E f \in lent : Return(f))

Spec == Init /\ [][Next]_ownerVars
=============================================================================
