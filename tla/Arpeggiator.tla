---------------------------- MODULE Arpeggiator ----------------------------
(***************************************************************************)
(* The arpeggiator and the sequencer of one emulator.  The note handlers   *)
(* tell it of keys, and it keeps a table of them in the order in which     *)
(* they came; with each period in which its count of samples runs out the  *)
(* counters walk on through the table, octave by octave, and the voices    *)
(* are retuned to what they point at.                                      *)
(*                                                                         *)
(* The voices are not here: which note offs the arpeggiator is told of     *)
(* depends on the voices that have the key (midinote.c:386), so any key    *)
(* may be let go at any time, more than once or never.  The voices also    *)
(* bound what is played but not what the counters do.                      *)
(***************************************************************************)
EXTENDS Integers, SequencesExt

CONSTANTS
    Keys,        \* MIDI keys
    VoiceCount,  \* baudio->voicecount
    Spans,       \* octaves the GUI asks for
    SeqMax,      \* BRISTOL_SEQ_MAX
    Setups       \* how the GUI uses the emulator

\* BRISTOL_ARPEG_DOWN ..
Down == 0
UpDown == 1
Up == 2
Random == 3

SeqMin == 4      \* BRISTOL_SEQ_MIN
SeqDefault == 4  \* steps that bristolArpeggiatorInit puts in

ASSUME ArpeggiatorAssumption ==
    /\ Keys \subseteq 0 .. 127
    /\ VoiceCount \in Nat \ {0} /\ SeqMax \in Nat /\ SeqMax >= SeqMin
    /\ Spans \subseteq Nat \ {0}
    /\ Setups \subseteq [sequencer : BOOLEAN, dirs : SUBSET (Down .. Random), off : BOOLEAN]

VARIABLES
    setup,       \* one of Setups, never changed
    on,          \* BRISTOL_ARPEGGIATE in the mixflags
    sequencing,  \* BRISTOL_SEQUENCE in the mixflags
    learning,    \* BRISTOL_SEQ_LEARN in the flags of the arpeggiator
    notes,       \* a.notes[].k
    a, s,        \* the counters of the arpeggiator and of the sequencer
    crashed,     \* the process has ended with an arithmetic trap
    told         \* history: the keys the arpeggiator was told of, oldest first

modes == <<on, sequencing, learning>>
vars == <<setup, on, sequencing, learning, notes, a, s, crashed, told>>

Sequencer == setup.sequencer  \* the GUI uses the sequencer, else the arpeggiator
Dirs == setup.dirs            \* the directions it chooses
Off == setup.off              \* it is also switched off, and on again

NoKey == -1
Indexes == 0 .. VoiceCount + 1

\* An ArpSeq with room for n entries.
Counters(n) == [max : 0 .. n, current : -1 .. n, octave : Nat, dir : Down .. Random,
                step : {-1, 0, 1}, span : Nat]

\* bristolArpeggiatorInit, and zeroes from bristolmalloc0.
Init ==
    /\ setup \in Setups
    /\ on = FALSE /\ sequencing = FALSE /\ learning = FALSE
    /\ notes = [i \in Indexes |-> NoKey]
    /\ a = [max |-> 0, current |-> 0, octave |-> 0, dir |-> Down, step |-> 0, span |-> 0]
    /\ s = [max |-> SeqDefault, current |-> 0, octave |-> 0, dir |-> UpDown, step |-> 1, span |-> 1]
    /\ crashed = FALSE /\ told = << >>

----------------------------------------------------------------------------
(***************************************************************************)
(* bristolArpeggiatorNoteEvent.                                            *)
(***************************************************************************)
\* With as many keys as voices the oldest one makes room.
Shifted == [i \in Indexes |-> IF i < VoiceCount THEN notes[i + 1]
                              ELSE IF i = VoiceCount THEN NoKey ELSE notes[i]]

\* Mutant of Inserted: the list is not ended behind the new key.
InsertedOpen(k) ==
    IF a.max >= VoiceCount
      THEN [notes |-> [Shifted EXCEPT ![VoiceCount - 1] = k], max |-> VoiceCount - 1]
      ELSE [notes |-> [notes EXCEPT ![a.max] = k], max |-> a.max + 1]

Inserted(k) ==
    IF a.max >= VoiceCount
      THEN [notes |-> [Shifted EXCEPT ![a.max - 1] = k], max |-> VoiceCount]
      ELSE [notes |-> [notes EXCEPT ![a.max] = k, ![a.max + 1] = NoKey], max |-> a.max + 1]

\* What the sequencer makes of a note on.  It starts again if no voice ran.
Restarted(q) ==
    IF q.dir = Down
      THEN [q EXCEPT !.current = q.max, !.octave = q.span, !.step = -1]
      ELSE [q EXCEPT !.current = 0, !.octave = 1, !.step = 1]

NoteOn(k) ==
    /\ ~crashed
    /\ notes' = IF on THEN Inserted(k).notes ELSE notes
    /\ a' = IF on THEN [a EXCEPT !.max = Inserted(k).max] ELSE a
    /\ \/ learning /\ s' = [s EXCEPT !.max = IF @ + 1 >= SeqMax THEN SeqMax ELSE @ + 1]
       \/ ~learning /\ sequencing /\ s' = Restarted(s)
       \/ ~learning /\ s' = s
    /\ told' = IF ~on THEN told
               ELSE Append(IF Len(told) = VoiceCount THEN Tail(told) ELSE told, k)
    /\ UNCHANGED <<setup, modes, crashed>>

\* The first place with the key, or the end of the list, and where the list
\* ends that is moved up from there.
FoundAt(k) == Min({i \in Indexes : notes[i] \in {k, NoKey}})
EndFrom(i) == Min({j \in Indexes : j >= i /\ (j > VoiceCount \/ notes[j + 1] = NoKey)})

NoteOff(k) ==
    /\ ~crashed /\ on
    /\ LET i == FoundAt(k)
           end == EndFrom(i)
       IN  /\ notes' = [n \in Indexes |-> IF n \in i .. end /\ n <= VoiceCount
                                            THEN notes[n + 1] ELSE notes[n]]
           /\ a' = [a EXCEPT !.max = end, !.current = IF @ >= end THEN 0 ELSE @]
    /\ told' = IF Contains(told, k) THEN RemoveFirst(told, k) ELSE told
    /\ UNCHANGED <<setup, modes, s, crashed>>

----------------------------------------------------------------------------
(***************************************************************************)
(* bristolArpeggiator: the controls of the GUI.                            *)
(***************************************************************************)
Control == ~crashed /\ UNCHANGED <<setup, crashed>>

AtLeastOne(span) == IF span = 0 THEN 1 ELSE span

\* BRISTOL_ARPEG_ENABLE: the keys are forgotten, their number is not.
ArpegOn ==
    /\ Control /\ ~Sequencer
    /\ on' = TRUE /\ sequencing' = FALSE /\ UNCHANGED learning
    /\ notes' = IF on THEN notes ELSE [i \in Indexes |-> NoKey]
    /\ a' = [a EXCEPT !.current = 0, !.span = AtLeastOne(@)]
    /\ told' = IF on THEN told ELSE << >>
    /\ UNCHANGED s

\* BRISTOL_SEQ_ENABLE.
SeqOn ==
    /\ Control /\ Sequencer
    /\ sequencing' = TRUE /\ on' = FALSE /\ learning' = FALSE
    /\ s' = [s EXCEPT !.span = AtLeastOne(@)]
    /\ UNCHANGED <<notes, a, told>>

\* Either is switched off; the voices are done (desequence).
SwitchedOff ==
    /\ Control /\ Off
    /\ on' = (on /\ Sequencer) /\ sequencing' = (sequencing /\ ~Sequencer)
    /\ UNCHANGED <<learning, notes, a, s, told>>

\* BRISTOL_ARPEG_DIR and BRISTOL_SEQ_DIR.
Directed(q, dir) == [q EXCEPT !.dir = dir, !.step = IF dir = Down THEN -1 ELSE 1, !.current = 0]

Direction(dir) ==
    /\ Control
    /\ a' = IF Sequencer THEN a ELSE Directed(a, dir)
    /\ s' = IF Sequencer THEN Directed(s, dir) ELSE s
    /\ UNCHANGED <<modes, notes, told>>

\* BRISTOL_ARPEG_RANGE and BRISTOL_SEQ_RANGE.
Octaves(span) ==
    /\ Control
    /\ a' = IF Sequencer THEN a ELSE [a EXCEPT !.span = span]
    /\ s' = IF Sequencer THEN [s EXCEPT !.span = span] ELSE s
    /\ UNCHANGED <<modes, notes, told>>

\* BRISTOL_SEQ_RESEQ: a sequence is learnt, from the keyboard or from the memory
\* of the GUI (BRISTOL_SEQ_KEY), and then it has been.
Learn ==
    /\ Control /\ Sequencer
    /\ learning' = TRUE /\ sequencing' = FALSE
    /\ s' = [s EXCEPT !.current = 0, !.max = 0]
    /\ UNCHANGED <<on, notes, a, told>>

SeqKey ==
    /\ Control /\ learning
    /\ s' = [s EXCEPT !.max = IF @ + 1 > SeqMax THEN SeqMax ELSE @ + 1]
    /\ UNCHANGED <<modes, notes, a, told>>

Learnt ==
    /\ Control /\ Sequencer
    /\ learning' = FALSE
    /\ s' = [s EXCEPT !.max = IF @ = 0 THEN SeqMin ELSE @]
    /\ UNCHANGED <<on, sequencing, notes, a, told>>

----------------------------------------------------------------------------
(***************************************************************************)
(* arpeggioCounterCheck: the counters walk on.                             *)
(***************************************************************************)
\* One octave on: up to the last and from the first again, or down.
OctaveUp(q) == IF q.octave + 1 > q.span THEN 1 ELSE q.octave + 1
OctaveDown(q) == IF q.octave - 1 <= 0 THEN q.span ELSE q.octave - 1

WalkedUp(q) ==
    IF q.current + 1 < q.max
      THEN [q EXCEPT !.current = @ + 1]
      ELSE [q EXCEPT !.current = 0, !.octave = OctaveUp(q)]

WalkedDown(q) ==
    IF q.current - 1 >= 0
      THEN [q EXCEPT !.current = @ - 1]
      ELSE [q EXCEPT !.current = q.max - 1, !.octave = OctaveDown(q)]

\* At either end the last entry is played twice.
WalkedUpDown(q) ==
    LET c == q.current + q.step
    IN  CASE c < 0 /\ q.octave <= 1 ->
                [q EXCEPT !.current = 0, !.step = 1, !.octave = 1]
          [] c < 0 /\ q.octave > 1 ->
                [q EXCEPT !.current = q.max - 1, !.octave = @ - 1]
          [] c >= 0 /\ c >= q.max /\ q.octave >= q.span ->
                [q EXCEPT !.current = q.max - 1, !.step = -1, !.octave = q.span]
          [] c >= 0 /\ c >= q.max /\ q.octave < q.span ->
                [q EXCEPT !.current = 0, !.octave = @ + 1]
          [] OTHER -> [q EXCEPT !.current = c]

\* Two bits of rand() choose the octave.
Landed(q, c, o) == [q EXCEPT !.current = c, !.octave = o]

WalkedAnywhere(q) == {Landed(q, c, o) : c \in 0 .. q.max - 1, o \in 1 .. Min({q.span, 4})}

\* A remainder by zero.
Traps(q) == q.dir = Random /\ q.max = 0

\* Mutant of Walked: on the way up the last entry is left out.
WalkedShort(q) ==
    CASE q.dir = Up -> {[WalkedUp([q EXCEPT !.max = @ - 1]) EXCEPT !.max = q.max]}
      [] q.dir = Down -> {WalkedDown(q)}
      [] q.dir = UpDown -> {WalkedUpDown(q)}
      [] q.dir = Random -> WalkedAnywhere(q)

\* Mutant of Walked: on the way up one entry too many.
WalkedPast(q) ==
    CASE q.dir = Up -> {[WalkedUp([q EXCEPT !.max = @ + 1]) EXCEPT !.max = q.max]}
      [] q.dir = Down -> {WalkedDown(q)}
      [] q.dir = UpDown -> {WalkedUpDown(q)}
      [] q.dir = Random -> WalkedAnywhere(q)

Walked(q) ==
    CASE q.dir = Up -> {WalkedUp(q)}
      [] q.dir = Down -> {WalkedDown(q)}
      [] q.dir = UpDown -> {WalkedUpDown(q)}
      [] q.dir = Random -> WalkedAnywhere(q)

\* bristolArpegReAudio, in a period in which the count of samples runs out.  A
\* sequence that is being learnt is not played.
Walk ==
    /\ ~crashed
    /\ on \/ (sequencing /\ ~learning)
    /\ IF on THEN ~Traps(a) /\ a' \in Walked(a) ELSE UNCHANGED a
    /\ IF sequencing /\ ~learning THEN ~Traps(s) /\ s' \in Walked(s) ELSE UNCHANGED s
    /\ UNCHANGED <<setup, modes, notes, crashed, told>>

Trap ==
    /\ ~crashed
    /\ (on /\ Traps(a)) \/ (sequencing /\ ~learning /\ Traps(s))
    /\ crashed' = TRUE
    /\ UNCHANGED <<setup, modes, notes, a, s, told>>

----------------------------------------------------------------------------
Controls ==
    \/ ArpegOn \/ SeqOn \/ SwitchedOff
    \/ \E dir \in Dirs : Direction(dir)
    \/ \E span \in Spans : Octaves(span)
    \/ Learn \/ SeqKey \/ Learnt

Next ==
    \/ \E k \in Keys : NoteOn(k) \/ NoteOff(k)
    \/ Controls
    \/ Walk \/ Trap

Spec == Init /\ [][Next]_vars

\* The device calls for periods, and each takes its samples from the count.
FairSpec == Spec /\ WF_vars(Walk)

----------------------------------------------------------------------------
(***************************************************************************)
(* Properties.                                                             *)
(***************************************************************************)
\* Every variable keeps its type.
TypeOK ==
    /\ setup \in Setups
    /\ on \in BOOLEAN /\ sequencing \in BOOLEAN
    /\ learning \in BOOLEAN /\ crashed \in BOOLEAN
    /\ notes \in [Indexes -> Keys \cup {NoKey}]
    /\ a \in Counters(VoiceCount) /\ s \in Counters(SeqMax)
    /\ told \in Seq(Keys)

\* The array is the list of the keys the arpeggiator was told of, the last
\* VoiceCount of them in the order in which they came, ended by no key: in
\* whatever order keys come and go, one of them twice, or one that the table
\* has lost since (bristolArpeggiatorNoteEvent).  Unless it is switched off and
\* on, when the keys are forgotten but not their number.
KeysListed ==
    on /\ ~Off =>
        /\ a.max = Len(told)
        /\ \A i \in Indexes : notes[i] = IF i < Len(told) THEN told[i + 1] ELSE NoKey

\* Up, down or both ways, once the player and the GUI leave things as they are
\* each key of the table, and each step of the sequence, is played again and
\* again in each octave: however far the counters were from the table that the
\* last events have left (arpeggioCounterCheck).
EachPlayed ==
    LET Misses(q, i, o) ==
            q.dir # Random /\ i < q.max /\ o <= q.span /\ <<q.current, q.octave>> # <<i, o>>
        Rest == <>[][Walk]_vars
    IN  Rest => \A i \in 0 .. SeqMax - 1, o \in Spans :
                    []<>~(\/ on /\ Misses(a, i, o)
                          \/ sequencing /\ ~learning /\ Misses(s, i, o))

\* A walk over a table that has entries ends on one of them, whatever keys came
\* and went, however the table was filled and whichever way was walked since the
\* last: no voice is retuned to what lies outside of it, or behind the end of the
\* list of keys (arpeggioCounterCheck, bristolArpegReVoice).  A walk down, or up and
\* down, over an empty table leaves the counter at -1, and the table is read there.
WalksInTable ==
    [][Walk =>
          /\ (on /\ a.max > 0) => a'.current \in 0 .. a.max - 1
          /\ (on /\ a.max > 0 /\ ~Off) => notes[a'.current] # NoKey
          /\ (sequencing /\ ~learning /\ s.max > 0) => s'.current \in 0 .. s.max - 1]_vars

----------------------------------------------------------------------------
(***************************************************************************)
(* What the properties above rest on.                                      *)
(***************************************************************************)

\* The list has an end: the two places behind the voices never have a key,
\* those that come later moving the others up and those that go making them
\* move down.
EndInv == notes[VoiceCount] = NoKey /\ notes[VoiceCount + 1] = NoKey

\* The arpeggiator that is never switched off is new when it is switched on.
ModeInv ==
    /\ on => ~Sequencer
    /\ ~Off => on \/ a.max = 0

\* A counter is at an entry or just past the last, where a sequence starts that is
\* played down.
CounterInv == a.current <= a.max /\ s.current <= s.max

ArpInv ==
    /\ TypeOK /\ EndInv /\ ModeInv /\ CounterInv
    /\ Len(told) <= VoiceCount
    /\ KeysListed
=============================================================================
