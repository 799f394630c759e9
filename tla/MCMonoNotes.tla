---------------------------- MODULE MCMonoNotes ----------------------------
(* Values for the constants of MonoNotes. *)
EXTENDS MonoNotes

MCKeys == 0 .. 3
MCPreferences == {"none", "low", "high"}

\* Seven events that leave the engine time, and five that come at any pace.
MCSetups ==
    {[keys |-> {0, 1, 2, 3}, switching |-> FALSE, panic |-> TRUE, trigger |-> FALSE,
      spacing |-> 2, events |-> 7],
     [keys |-> {0, 1, 2}, switching |-> TRUE, panic |-> TRUE, trigger |-> TRUE,
      spacing |-> 0, events |-> 5]}
=============================================================================
