--------------------------- MODULE MCActiveSense ---------------------------
(* Values for the constants of ActiveSense. *)
EXTENDS ActiveSense, FiniteSetsExt

\* By default; with sensing off; a shorter interval; a timeout of its own.
MCSetups ==
    {[sense |-> NotGiven, ast |-> NotGiven, exits |-> 1, dies |-> TRUE],
     [sense |-> 0, ast |-> NotGiven, exits |-> 2, dies |-> FALSE],
     [sense |-> 1000, ast |-> NotGiven, exits |-> 1, dies |-> TRUE],
     [sense |-> 500, ast |-> 2000, exits |-> 1, dies |-> TRUE]}

\* Idle, and with a redraw.
MCLoops == {50, 100}
MCSetupTimes == {100, 9000}
MCExitTimes == {200}

\* The times and the rate are those the proofs are about.
ASSUME TimesAreShort ==
    RateFits /\ \A s \in Setups : InTime(s, Max(LoopTimes), Max(ExitTimes))
=============================================================================
