--------------------------- MODULE MCMidiForward ---------------------------
(* Values for the constants of MidiForward. *)
EXTENDS MidiForward

MCGuis == 1 .. 2

\* The ring of five runs full with three events for two GUIs, and not with an
\* event and a request; two writers may meet.
MCSetups ==
    {[events |-> 3, saves |-> 0, holds |-> TRUE, window |-> FALSE],
     [events |-> 1, saves |-> 1, holds |-> FALSE, window |-> FALSE],
     [events |-> 1, saves |-> 1, holds |-> TRUE, window |-> TRUE]}
=============================================================================
