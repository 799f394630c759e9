---------------------------- MODULE MCMidiParser ----------------------------
(* Values for the constants of MidiParser. *)
EXTENDS MidiParser

Note(v) == <<Two, 1, v>>
Program == <<One, 2>>
Answer(v) == <<System, Id, Id, 4, v>>
Session == <<System, Id, Id, 5, 8, 3>>
Foreign == <<System, 1, 2, 3>>
ShortForeign == <<System, 1>>
Long == <<System, Id, Id, 9, 8, 2, 3, 4, 5, 6>>

Base == [sends |-> [w \in {"engine"} |-> {Note(1), Note(2)}], gui |-> FALSE, running |-> FALSE,
         realtime |-> FALSE, fails |-> FALSE, closes |-> FALSE, behind |-> 4]

\* A keyboard, and the control messages of a GUI, to the engine.
Keys == [Base EXCEPT !.running = TRUE, !.sends =
            [w \in {"keyboard"} |-> {Note(1), Note(2), Program, Foreign, ShortForeign, Answer(0)}]]
\* The engine to a GUI: notes that are forwarded, answers and requests.
Socket == [Base EXCEPT !.gui = TRUE, !.closes = TRUE, !.sends =
              [w \in {"engine"} |-> {Note(1), Note(2), Program, Answer(0), Session}]]
\* Reads that fail, and a message that is longer than the buffer.
Limits == [Base EXCEPT !.running = TRUE, !.fails = TRUE, !.behind = 5, !.sends =
              [w \in {"keyboard"} |-> {Long, Note(1)}]]
\* The same at a GUI, from two threads.
Deafened == [Base EXCEPT !.gui = TRUE, !.closes = TRUE, !.behind = 5, !.sends =
                [w \in {"main", "midi"} |-> IF w = "main" THEN {Note(1)} ELSE {Session, Long}]]
\* A keyboard with a timing clock.
Clock == [Base EXCEPT !.realtime = TRUE, !.behind = 3]

AllConnections == {Clock, Keys, Socket, Limits, Deafened}
=============================================================================
