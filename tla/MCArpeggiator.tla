--------------------------- MODULE MCArpeggiator ---------------------------
(* Values for the constants of Arpeggiator: an arpeggiator that is left on, *)
(* one that is switched off and on, and a sequencer.                        *)
EXTENDS Arpeggiator

MCSetups ==
    {[sequencer |-> FALSE, dirs |-> Down .. Random, off |-> FALSE],
     [sequencer |-> FALSE, dirs |-> {Up}, off |-> TRUE],
     [sequencer |-> TRUE, dirs |-> Down .. Random, off |-> TRUE]}
=============================================================================
