------------------------- MODULE MCSynthLifecycle -------------------------
(* Setups of SynthLifecycle: who takes part and what goes wrong. *)
EXTENDS SynthLifecycle

CONSTANTS g1, g2, g3

Plain == [guis |-> {g1, g2}, jack |-> FALSE, server |-> FALSE, fails |-> FALSE,
          watchdog |-> FALSE, slow |-> FALSE, crashes |-> {}, windows |-> {}]

\* The device fails, the watchdog bites, the list is changed by two threads.
Failing == {[Plain EXCEPT !.jack = jack, !.server = server, !.fails = TRUE, !.watchdog = TRUE,
                          !.windows = {"audiolist"}] : jack, server \in BOOLEAN}
\* A Jack engine whose GUIs die while they run, or while they leave.
Dying == {[Plain EXCEPT !.jack = TRUE, !.crashes = c] : c \in {{"running"}, {"running", "leaving"}}}
\* Answers that take five seconds.
Slow == {[Plain EXCEPT !.jack = jack, !.slow = TRUE] : jack \in BOOLEAN}
\* All of that at once, under Jack and ALSA.
Worst == {[Plain EXCEPT !.jack = jack, !.fails = TRUE, !.watchdog = TRUE, !.windows = Threaded,
                        !.slow = TRUE, !.crashes = {"handshake", "running", "leaving"}] : jack \in BOOLEAN}
\* Sids are given again.
Three == [Plain EXCEPT !.guis = {g1, g2, g3}, !.server = TRUE]

AllSetups == Failing \cup Worst \cup Slow \cup Dying \cup {Three}
LiveSetups == Failing \cup Dying \cup Slow
=============================================================================
