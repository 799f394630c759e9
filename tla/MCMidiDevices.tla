--------------------------- MODULE MCMidiDevices ---------------------------
(* Values for the constants of MidiDevices. *)
EXTENDS MidiDevices

CONSTANTS g1, g2, g3, g4

Plain == [guis |-> {g1, g2, g3, g4}, link |-> "seq", wait |-> TRUE, unix |-> FALSE,
          crashes |-> FALSE, window |-> FALSE]
Three == [Plain EXCEPT !.guis = {g1, g2, g3}]

\* The tables have five entries, of which ALSA leaves three and Jack four: one
\* connection more than that, connections that are lost, a keyboard that is
\* unplugged, a named socket, two threads that open devices.
MCSetups ==
    {Plain, [Plain EXCEPT !.link = "jack", !.wait = FALSE],
     [Three EXCEPT !.crashes = TRUE], [Three EXCEPT !.crashes = TRUE, !.link = "raw"],
     [Three EXCEPT !.unix = TRUE],
     [Three EXCEPT !.crashes = TRUE, !.link = "jack", !.window = TRUE]}
=============================================================================
