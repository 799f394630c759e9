---------------------------- MODULE ActiveSense ----------------------------
(***************************************************************************)
(* Active sensing between one GUI and its emulator, in time: eventMgr of   *)
(* the GUI sends its timeout every now and then, the MIDI thread of the    *)
(* engine winds the count of the emulator up to it when it is not busy     *)
(* with another GUI, and every audio period counts down.  What follows     *)
(* when the count runs out is in SynthLifecycle.                           *)
(* Time goes by in audio periods.  Times are milliseconds, counts samples. *)
(***************************************************************************)
EXTENDS Integers, Sequences

CONSTANTS Setups,      \* the arguments of the GUI, and what happens meanwhile
          Mwt,         \* what an idle iteration of eventMgr sleeps (-mct)
          LoopTimes,   \* what an iteration may take, X events included
          SetupTimes,  \* from BRISTOL_INIT_ALGO to the first message
          Rate100,     \* the sample rate of the engine, in hundreds
          PeriodTime,  \* an audio period
          ExitTimes    \* how long the exit of another GUI blocks the MIDI thread

NotGiven == -1

ASSUME SetupsAssumption ==
    Setups \subseteq [sense : Int, ast : Int, exits : Nat, dies : BOOLEAN]
ASSUME TimesAssumption == /\ {Mwt, Rate100, PeriodTime} \subseteq Nat \ {0}
                          /\ LoopTimes \cup SetupTimes \cup ExitTimes \subseteq Nat \ {0}

VARIABLES setup,     \* one of Setups, never changed
          gui,       \* "setup", "running" or "gone"
          asc,       \* its countdown to the next message
          loop,      \* the time left in its present iteration, or its setup
          wire,      \* messages the MIDI thread has not read
          sensing,   \* BRISTOL_SENSE of the emulator
          count,     \* its sensecount
          busy,      \* how long the MIDI thread is still blocked
          exits,     \* how many other GUIs may still exit
          removed    \* BRISTOL_REMOVE

vars == <<setup, gui, asc, loop, wire, sensing, count, busy, exits, removed>>

Dies == setup.dies       \* the GUI may die, or hang

(***************************************************************************)
(* What the arguments of the GUI come to.                                  *)
(***************************************************************************)
Bounded(n, low, high) == IF n < low THEN low ELSE IF n > high THEN high ELSE n

\* s.sense is the -activesense of the GUI, s.ast its -ast, given after it.
Interval(s) == CASE s.sense = NotGiven -> 2000
                 [] s.sense = 0 -> 0
                 [] OTHER -> Bounded(s.sense, 50, 5000)

Tripled(sense) == sense * 3

Timeout(s) ==
    IF s.ast # NotGiven
    THEN LET ast == IF s.ast < 50 THEN 50 ELSE s.ast
         IN Bounded(IF ast < 2 * Interval(s) THEN Tripled(Interval(s)) ELSE ast, 0, 16000)
    ELSE IF s.sense # NotGiven THEN Bounded(Tripled(Interval(s)), 0, 16000) ELSE 15000

activeSense == Interval(setup)
activeSensePeriod == Timeout(setup)

\* The first message: as long as the two bytes of a value allow.
Longest == 16383

FirstMessage == IF activeSense = 0 THEN 0 ELSE Longest

(***************************************************************************)
(* The count in samples for a value in milliseconds.  The product is a     *)
(* signed int of 32 bits, computed here in hundreds: it wraps from 2^31    *)
(* on, and the quotient is rounded towards zero.                           *)
(***************************************************************************)
Wrapped(hundreds) == IF hundreds > 21474836 THEN hundreds - 42949673 ELSE hundreds
Samples(ms) == LET product == Wrapped(ms * Rate100)
               IN IF product < 0 THEN -((-product) \div 10) ELSE product \div 10

samplecount == (Rate100 * PeriodTime) \div 10

Init ==
    /\ setup \in Setups
    /\ gui = "setup" /\ loop \in SetupTimes
    /\ asc = 4 * activeSense
    /\ wire = <<>>
    /\ sensing = TRUE /\ count = 150 * 10 * Rate100  \* as of the hello
    /\ busy = 0 /\ exits = setup.exits
    /\ removed = FALSE

(***************************************************************************)
(* The GUI.  Its events are handled by another thread while it sets up,    *)
(* which counts down already; only whether asc is negative matters then.   *)
(***************************************************************************)
Opens ==
    /\ gui = "setup" /\ loop = 0
    /\ gui' = "running"
    /\ wire' = Append(wire, FirstMessage)
    /\ loop' \in LoopTimes
    /\ UNCHANGED <<setup, asc, sensing, count, busy, exits, removed>>

\* Mutant of Reload: the next message is sent when the timeout is over.
ReloadPeriod == activeSensePeriod
Reload == activeSense

EventMgr ==
    /\ gui = "running" /\ loop = 0
    /\ loop' \in LoopTimes
    /\ IF activeSense > 0 /\ asc - Mwt < 0
       THEN asc' = Reload /\ wire' = Append(wire, activeSensePeriod)
       ELSE asc' = (IF activeSense > 0 THEN asc - Mwt ELSE asc) /\ wire' = wire
    /\ UNCHANGED <<setup, gui, sensing, count, busy, exits, removed>>

Die ==
    /\ Dies /\ gui # "gone"
    /\ gui' = "gone" /\ loop' = 0 /\ asc' = 0
    /\ UNCHANGED <<setup, wire, sensing, count, busy, exits, removed>>

(***************************************************************************)
(* The MIDI thread.                                                        *)
(***************************************************************************)
bristolActiveSense ==
    /\ busy = 0 /\ wire # <<>>
    /\ wire' = Tail(wire)
    /\ count' = Samples(Head(wire))
    /\ sensing' = (Samples(Head(wire)) # 0)
    /\ UNCHANGED <<setup, gui, asc, loop, busy, exits, removed>>

\* BRISTOL_EXIT_ALGO of another GUI: wait for the audio thread, answer, wait, close.
OtherExits ==
    /\ busy = 0 /\ exits > 0
    /\ exits' = exits - 1
    /\ busy' \in ExitTimes
    /\ UNCHANGED <<setup, gui, asc, loop, wire, sensing, count, removed>>

(***************************************************************************)
(* The audio thread.  The GUI and an idle MIDI thread do what is due       *)
(* before the next period: only Mwt, LoopTimes and ExitTimes delay them.   *)
(***************************************************************************)
\* Mutant of Elapsed: the count stands still.
NoneElapsed(n) == n
Elapsed(n) == n - samplecount

Checked == sensing /\ count # 0

Down(time) == IF time > PeriodTime THEN time - PeriodTime ELSE 0

AudioPeriod ==
    /\ ~removed
    /\ gui = "gone" \/ loop > 0
    /\ busy > 0 \/ wire = <<>>
    /\ IF Checked
       THEN count' = Elapsed(count) /\ removed' = (Elapsed(count) <= 0)
       ELSE UNCHANGED <<count, removed>>
    /\ loop' = Down(loop) /\ busy' = Down(busy)
    /\ asc' = IF gui = "setup" /\ activeSense > 0 /\ asc >= 0 THEN asc - PeriodTime ELSE asc
    /\ UNCHANGED <<setup, gui, wire, sensing, exits>>

Next == Opens \/ EventMgr \/ Die \/ bristolActiveSense \/ OtherExits \/ AudioPeriod

Spec == Init /\ [][Next]_vars

\* The three threads are scheduled; nothing makes a GUI die or exit.
FairSpec == Spec /\ WF_vars(Opens) /\ WF_vars(EventMgr) /\ WF_vars(bristolActiveSense)
                 /\ WF_vars(AudioPeriod)

(***************************************************************************)
(* Properties.                                                             *)
(***************************************************************************)
\* Every variable keeps its type; a value fits its two bytes of seven bits.
TypeOK ==
    /\ setup \in Setups
    /\ gui \in {"setup", "running", "gone"}
    /\ asc \in -PeriodTime .. 4 * activeSense
    /\ loop \in Nat
    /\ wire \in Seq(0 .. Longest)
    /\ sensing \in BOOLEAN /\ count \in Int
    /\ busy \in Nat /\ exits \in 0 .. setup.exits
    /\ removed \in BOOLEAN

\* The emulator of a GUI that is there, with sensing or without it,
\* is not removed, whatever delays its messages: the X events it handles,
\* another GUI that keeps the MIDI thread.
LiveKept == gui # "gone" => ~removed

\* bristolActiveSenseCheck notices a GUI that stops sending.
DeadNoticed == activeSense > 0 /\ gui = "gone" ~> removed

(***************************************************************************)
(* When active sensing is quick enough, and why (for the proofs).  No      *)
(* iteration of eventMgr takes longer than l, and no exit of another GUI   *)
(* keeps the MIDI thread for longer than e.                                *)
(***************************************************************************)
\* The audio periods a time takes.
Periods(time) == (time + PeriodTime - 1) \div PeriodTime

\* The periods until the MIDI thread has read the next message, at worst.
Wait(countdown, s, l, e) == ((countdown \div Mwt) + 1) * Periods(l) + s.exits * Periods(e)

\* The 15 seconds of the hello last until the first message, its value until
\* the second, and a timeout from one message to the next.
InTime(s, l, e) ==
    /\ \A t \in SetupTimes : (Periods(t) + s.exits * Periods(e)) * PeriodTime < 15000
    /\ Interval(s) > 0 =>
          /\ Wait(Interval(s), s, l, e) * PeriodTime < Timeout(s)
          /\ \A t \in SetupTimes :
                LET left == 4 * Interval(s) - t
                IN  Wait(IF left > 0 THEN left ELSE 0, s, l, e) * PeriodTime < Longest

\* The count of every message fits an int, and a millisecond has a sample.
RateFits == Rate100 >= 10 /\ Longest * Rate100 <= 21474836

\* The periods that may go by before the GUI sends its next message, and
\* before the MIDI thread reads it.
ToSend(l) ==
    Periods(loop) + IF gui = "running" /\ asc >= 0 THEN (asc \div Mwt) * Periods(l) ELSE 0
ToRead(e) == Periods(busy) + exits * Periods(e)
Due(l, e) == ToRead(e) + IF wire = <<>> THEN ToSend(l) ELSE 0

\* The count lasts until the next message has been read, and every message on
\* its way lasts until the one after it.
SenseInv(l, e) ==
    gui # "gone" =>
        /\ ~removed
        /\ sensing => Due(l, e) * samplecount < count
        /\ \A i \in DOMAIN wire :
              /\ wire[i] \in {FirstMessage, activeSensePeriod}
              /\ activeSense > 0 => (ToSend(l) + exits * Periods(e)) * PeriodTime < wire[i]
        /\ gui = "setup" =>
              /\ wire = <<>>
              /\ activeSense > 0 =>
                    \E t \in SetupTimes : asc < 0 \/ asc + t <= loop + 4 * activeSense
        /\ gui = "running" => Periods(loop) <= Periods(l)
        /\ gui = "running" /\ activeSense = 0 => (sensing => wire # <<>>) /\ wire \in {<<>>, <<0>>}
=============================================================================
