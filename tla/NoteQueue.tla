----------------------------- MODULE NoteQueue -----------------------------
(***************************************************************************)
(* What the note ring promises to its two threads: a bounded first in,     *)
(* first out queue of whole messages.  While an emulator is live a message *)
(* is lost only when the queue is full; it may be forgotten on the way to  *)
(* the first hello, after the last exit and at a hello.                    *)
(***************************************************************************)
EXTENDS Sequences, Naturals

CONSTANT Capacity    \* messages the ring has room for

VARIABLES
    queue,      \* numbers of the messages that wait
    handled,    \* numbers of the messages the audio thread has handled
    offered,    \* messages offered so far
    live        \* an emulator is linked and its hello is complete

vars == <<queue, handled, offered, live>>

Init ==
    /\ queue = << >>
    /\ handled = << >>
    /\ offered = 0
    /\ live = FALSE

Put ==
    /\ Len(queue) < Capacity
    /\ offered' = offered + 1
    /\ queue' = Append(queue, offered')
    /\ UNCHANGED <<handled, live>>

\* Only a full queue refuses a message.
Refuse ==
    /\ Len(queue) = Capacity
    /\ offered' = offered + 1
    /\ UNCHANGED <<queue, handled, live>>

Get ==
    /\ queue # << >>
    /\ handled' = Append(handled, Head(queue))
    /\ queue' = Tail(queue)
    /\ UNCHANGED <<offered, live>>

\* A hello begins, or the last emulator has gone.
Leave ==
    /\ live' = FALSE
    /\ UNCHANGED <<queue, handled, offered>>

Forget ==
    /\ ~live
    /\ queue' = << >>
    /\ live' \in BOOLEAN
    /\ UNCHANGED <<handled, offered>>

Next == Put \/ Refuse \/ Get \/ Leave \/ Forget

Spec == Init /\ [][Next]_vars
=============================================================================
