----------------------------- MODULE MonoNotes -----------------------------
(***************************************************************************)
(* The notes of one monophonic emulator: note preference (doMNL), its      *)
(* table of held keys, and what doAudioOps adds for such emulators.        *)
(*                                                                         *)
(* The deployment is a single Jack registration: the Jack callback handles *)
(* the MIDI events that are due and then calls doAudioOps, so each event   *)
(* and each period is one step.  VoiceEngine has the interleavings; this   *)
(* module has the keys.                                                    *)
(***************************************************************************)
EXTENDS SequencesExt

CONSTANTS
    Keys,         \* MIDI keys
    VoiceCount,   \* voices in the pool
    Preferences,  \* values of BRISTOL_NRP_MNL_PREF the GUI sends
    Setups        \* what the player does, and how often

ASSUME MonoAssumption ==
    /\ Keys \subseteq 0 .. 127
    /\ VoiceCount \in Nat \ {0}
    /\ Preferences \subseteq {"none", "low", "high"}
    /\ Setups \subseteq [keys : SUBSET Keys, switching : BOOLEAN, panic : BOOLEAN,
                        trigger : BOOLEAN, spacing : Nat, events : Nat]

Flag == {"ON", "OFF", "DONE", "REON", "OFFING", "SUSTAIN", "REOFF"}

\* keyid, key.key and flags of a voice; gain 0 is an envelope at rest.
Voice == [id : Keys, key : 0 .. 127, flags : SUBSET Flag, gain : {0, 1}]

VARIABLES
    setup,             \* one of Setups, never changed
    play, new,         \* playlist and newlist, head first; the rest is free
    table,             \* {k : notemap.key[k] # 0}
    count, extreme,    \* notemap.count, notemap.extreme
    pref,              \* notemap.flags & (BRISTOL_MNL_LNP|BRISTOL_MNL_HNP)
    pedal,             \* contcontroller[BRISTOL_CC_HOLD1] >= 0.5
    lvoices, cvoices,  \* voices run in the last and in this period
    since,             \* periods since the last note event, up to Spacing
    sent,              \* events so far
    down               \* history: keys held since the last all notes off

keymap == <<table, count, extreme>>
counts == <<lvoices, cvoices>>
bounds == <<since, sent>>
vars == <<setup, play, new, table, count, extreme, pref, pedal, lvoices, cvoices,
          since, sent, down>>

Switching == setup.switching  \* the preference may change while the emulator plays
Panic == setup.panic          \* somebody sends all notes off
Trigger == setup.trigger      \* BRISTOL_MNL_TRIG
Spacing == setup.spacing      \* periods left between two note events
MaxEvents == setup.events     \* bound: events in one behaviour

Init ==
    /\ setup \in Setups
    /\ play = << >> /\ new = << >>
    /\ table = {} /\ count = 0
    /\ extreme = -1
    /\ pref \in Preferences
    /\ pedal = FALSE
    /\ lvoices = 0 /\ cvoices = 0
    /\ since = Spacing /\ sent = 0
    /\ down = {}

OnEach(list, Op(_)) == [i \in DOMAIN list |-> Op(list[i])]

----------------------------------------------------------------------------
(***************************************************************************)
(* doMNL.  The entry of key 0 is always 0, so that key is never counted.   *)
(***************************************************************************)

\* notemap.key[key] = action * key
Pressed(k) == table \cup ({k} \ {0})

Lifted(k) == table \ {k}

Lowest(T) == Min(T \cup {127})
Highest(T) == Max(T \cup {0})

ExtremeAfter(T) ==
    IF pref = "low"
      THEN IF extreme <= 0 \/ extreme < Highest(T) THEN Highest(T) ELSE extreme
      ELSE IF extreme <= 0 \/ extreme > Lowest(T) THEN Lowest(T) ELSE extreme

Outranked(k, T) == IF pref = "low" THEN k > Lowest(T) ELSE k < Highest(T)

\* Mutant of Chosen: the other end of the table.
ChosenOther(T) ==
    CASE T = {} -> ExtremeAfter(T)
      [] T # {} /\ pref = "low" -> Highest(T)
      [] OTHER -> Lowest(T)

Chosen(T) ==
    CASE T = {} -> ExtremeAfter(T)
      [] T # {} /\ pref = "low" -> Lowest(T)
      [] OTHER -> Highest(T)

\* Mutant of Triggered: each key of a phrase restarts the envelope.
TriggeredAlways(press, T) == {"REON"}

Triggered(press, T) ==
    CASE press /\ Cardinality(T) = 1 -> {"ON", "REON"}
      [] ~(press /\ Cardinality(T) = 1) /\ Trigger -> {"REON"}
      [] OTHER -> {}

\* What a press or a release of k makes of a voice, T being the new table.
Retuned(v, k, press, T) ==
    LET f == v.flags \ {"SUSTAIN"}
        g == IF press THEN f \ {"OFF", "OFFING", "DONE"} ELSE f
    IN  CASE T = {} /\ ~pedal -> [v EXCEPT !.flags = f \cup {"OFF"}]
          [] ~(T = {} /\ ~pedal) /\ Outranked(k, T) -> [v EXCEPT !.flags = f]
          [] OTHER -> [v EXCEPT !.id = k,
                                !.key = Chosen(T),
                                !.flags = g \cup Triggered(press, T)]

Tabulate(T) ==
    /\ table' = T
    /\ count' = Cardinality(T)
    /\ extreme' = ExtremeAfter(T)

----------------------------------------------------------------------------
(***************************************************************************)
(* Note events, handled by the callback between two periods.               *)
(***************************************************************************)
Event == sent < MaxEvents /\ sent' = sent + 1

NoteEvent == Event /\ since = Spacing /\ since' = 0

Free == VoiceCount - Len(play) - Len(new)

HasRoom == lvoices < 1 /\ Free > 0

\* doMidiNoteOn, with a preference and a voice already running.
Press(k) ==
    /\ NoteEvent
    /\ pref # "none" /\ lvoices # 0 /\ play # << >>
    /\ Tabulate(Pressed(k))
    /\ play' = [play EXCEPT ![1] = Retuned(@, k, TRUE, Pressed(k))]
    /\ down' = down \cup {k}
    /\ UNCHANGED <<setup, new, pref, pedal, counts>>

\* A voice that has a key is given another one and restarts.
Rekeyed(v, k) == [v EXCEPT !.id = k, !.key = k, !.flags = (@ \ {"ON", "DONE", "OFF"}) \cup {"REON"}]

\* doMidiNoteOn, otherwise: "stuff the first time around only".  A free voice
\* if none ran in the period counted last, else the voice of the emulator.
PressFirst(k) ==
    /\ NoteEvent
    /\ pref = "none" \/ lvoices = 0 \/ play = << >>
    /\ table' = Pressed(k)
    /\ count' = count + 1
    /\ IF HasRoom
         THEN /\ new' = Cons([id |-> k, key |-> k, flags |-> {}, gain |-> 0], new)
              /\ UNCHANGED play
         ELSE /\ play' = IF play = << >> THEN play ELSE
                   [play EXCEPT ![1] = Rekeyed(@, k)]
              /\ UNCHANGED new
    /\ down' = down \cup {k}
    /\ UNCHANGED <<setup, extreme, pref, pedal, counts>>

\* rbMidiNoteOff: every voice of the playlist goes through doMNL, or is keyed
\* off if it is not for the preference; on the newlist it is marked.
Release(k) ==
    /\ NoteEvent
    /\ LET Low(v) == Retuned(v, k, FALSE, Lifted(k))
           Off(v) == [v EXCEPT !.flags = IF v.id = k THEN @ \cup {"OFF"} ELSE @]
           Mark(v) == [v EXCEPT !.flags =
                         IF v.id = k THEN (@ \ {"ON", "REON"}) \cup {"OFF", "SUSTAIN", "REOFF"}
                                     ELSE @]
       IN  /\ IF pref # "none" /\ play # << >>
                THEN Tabulate(Lifted(k)) /\ play' = OnEach(play, Low)
                ELSE play' = OnEach(play, Off) /\ UNCHANGED keymap
           /\ new' = OnEach(new, Mark)
    /\ down' = down \ {k}
    /\ UNCHANGED <<setup, pref, pedal, counts>>

\* midiControl of BRISTOL_CC_HOLD1, with sustainedNotesOff when it is lifted.
Pedal ==
    /\ Event
    /\ pedal' = ~pedal
    /\ LET Unsustain(v) == [v EXCEPT !.flags =
                              IF "SUSTAIN" \in @ THEN @ \cup {"OFF"} ELSE @]
       IN  play' = IF pedal THEN OnEach(play, Unsustain) ELSE play
    /\ UNCHANGED <<setup, new, keymap, pref, counts, since, down>>

\* allNotesOff: the table is cleared by the doMNL call of each voice.
NotesOff ==
    /\ Panic
    /\ NoteEvent
    /\ play' = OnEach(play, LAMBDA v : [v EXCEPT !.flags = {"OFF", "DONE"}])
    /\ IF play = << >> THEN UNCHANGED <<table, count>> ELSE table' = {} /\ count' = 0
    /\ down' = {}
    /\ UNCHANGED <<setup, new, extreme, pref, pedal, counts>>

\* bristolSystem or midiNRPN, BRISTOL_NRP_MNL_PREF.
Prefer(p) ==
    /\ Switching
    /\ Event
    /\ pref' = p
    /\ extreme' = -1
    /\ UNCHANGED <<setup, play, new, table, count, pedal, counts, since, down>>

----------------------------------------------------------------------------
(***************************************************************************)
(* doAudioOps: one period, as far as this emulator goes.                   *)
(***************************************************************************)

\* A voice leaves the newlist with its trigger, or keyed off if it was short.
Started(v) ==
    LET f == v.flags \ {"DONE", "OFF", "OFFING", "SUSTAIN"}
        g == IF "REON" \in f THEN f ELSE f \cup {"ON"}
    IN  [v EXCEPT !.flags = IF "REOFF" \in g
                              THEN (g \ {"REOFF"}) \cup {"OFF", "SUSTAIN"} ELSE g]

Active(list) == {i \in DOMAIN list : "DONE" \notin list[i].flags}

\* What the list has at the places of S, in the order of the list.
Place(S, n) == CHOOSE i \in S : Cardinality({j \in S : j <= i}) = n
Selected(list, S) == [n \in 1 .. Cardinality(S) |-> list[Place(S, n)]]

\* With something new: voices that are done leave the playlist, unless the
\* preference keeps them, and the newlist goes voice by voice to its head.
Assembled ==
    LET Keep(v) == [v EXCEPT !.flags = @ \ {"DONE"}]
        old == IF pref # "none" THEN OnEach(play, Keep)
               ELSE Selected(play, Active(play))
    IN  IF new = << >> THEN play ELSE Reverse(OnEach(new, Started)) \o old

\* Mutant of Clears: the pedal is not looked at.
ClearsPedal == pref # "none" /\ count = 0 /\ extreme >= 0

\* "engine cleared MNL note"
Clears == pref # "none" /\ count = 0 /\ extreme >= 0 /\ ~pedal

\* The envelope, and DONE taken back for the sake of the preference.
Operated(v) ==
    LET restart == v.flags \cap {"ON", "REON"} # {}
        off == "OFF" \in v.flags
        f == CASE restart -> v.flags \ {"DONE", "OFFING"}
               [] ~restart /\ off -> (v.flags \cup {"DONE"}) \ {"OFFING"}
               [] OTHER -> IF v.gain = 0 THEN v.flags \cup {"DONE"} ELSE v.flags
    IN  [v EXCEPT !.flags = IF pref # "none" THEN f \ {"DONE"} ELSE f,
                  !.gain = IF restart THEN 1 ELSE IF off THEN 0 ELSE @]

\* Mutant of Run: a voice over the limit is run as well.
RunAll(list, i) ==
    LET v == list[i]
    IN  IF i \notin Active(list) THEN v ELSE Operated(v)

\* Only the first voice is run; the others are over the limit of one.
Run(list, i) ==
    LET v == list[i]
        first == i \in Active(list) /\ \A j \in Active(list) : i <= j
        cleared == [v EXCEPT !.flags = IF Clears THEN (@ \cup {"OFF"}) \ {"SUSTAIN"} ELSE @]
    IN  CASE i \notin Active(list) -> v
          [] i \in Active(list) /\ first -> Operated(cleared)
          [] OTHER -> [v EXCEPT !.flags = @ \cup {"OFF"}]

Period ==
    /\ LET list == Assembled
           Untrigger(v) == [v EXCEPT !.flags = @ \ {"ON", "REON"}]
       IN  /\ play' = [i \in DOMAIN list |-> Untrigger(Run(list, i))]
           /\ cvoices' = Cardinality(Active(list))
           /\ extreme' = IF Clears /\ Active(list) # {} THEN -1 ELSE extreme
    /\ lvoices' = cvoices
    /\ new' = << >>
    /\ since' = IF since < Spacing THEN since + 1 ELSE since
    /\ UNCHANGED <<setup, table, count, pref, pedal, sent, down>>

Next ==
    \/ \E k \in setup.keys : Press(k) \/ PressFirst(k) \/ Release(k)
    \/ Pedal \/ NotesOff
    \/ \E p \in Preferences : Prefer(p)
    \/ Period

Spec == Init /\ [][Next]_vars

----------------------------------------------------------------------------
(***************************************************************************)
(* Properties.                                                             *)
(***************************************************************************)

\* Every variable keeps its type (notemap, voice lists of one emulator).
TypeOK ==
    /\ setup \in Setups
    /\ play \in Seq(Voice) /\ new \in Seq(Voice)
    /\ Len(play) + Len(new) <= VoiceCount
    /\ table \subseteq Keys \ {0}
    /\ count \in Nat /\ extreme \in -1 .. 127
    /\ pref \in {"none", "low", "high"}
    /\ pedal \in BOOLEAN
    /\ lvoices \in 0 .. VoiceCount /\ cvoices \in 0 .. VoiceCount
    /\ since \in 0 .. Spacing /\ sent \in 0 .. MaxEvents
    /\ down \subseteq Keys

Sounding(v) == v.flags \cap {"OFF", "DONE"} = {}

\* A mono emulator sounds at most one voice at a time, although the count that
\* admits notes is two periods old and several notes may come in between.
OneSounding ==
    [][Period => Cardinality({i \in DOMAIN play' : Sounding(play'[i])}) <= 1]_vars

Held == down \ {0}
BestOf(T) == IF pref = "low" THEN Min(T) ELSE Max(T)

\* Between two notes there is time for the counts of voices, and the
\* preference stays.
Steady == Spacing >= 2 /\ ~Switching

\* While keys are held the emulator plays the one that is preferred, whatever
\* the order in which they were pressed and released, key 0 apart, which is
\* never counted; with no key held and the pedal up the note is released (doMNL,
\* and doAudioOps for keys released under the pedal).
PlaysHeldKeys ==
    [][Steady /\ Period =>
          /\ pref # "none" /\ Held # {} =>
                \E i \in DOMAIN play' : Sounding(play'[i]) /\ play'[i].key = BestOf(Held)
          /\ down = {} /\ ~pedal => \A i \in DOMAIN play' : ~Sounding(play'[i])]_vars

\* The pedal holds the note that sounded when the last key went up.
PedalHolds ==
    [][(Steady /\ Period /\ pedal /\ pref # "none") =>
          \A i \in DOMAIN play : Sounding(play[i]) =>
              \E j \in DOMAIN play' : Sounding(play'[j])]_vars

\* Without BRISTOL_MNL_TRIG the keys of a phrase do not restart the envelope:
\* only the first one does, however it is held together.
LegatoKeepsEnvelope ==
    Steady /\ ~Trigger /\ pref # "none" =>
        \A i \in DOMAIN play :
            (play[i].flags \cap {"ON", "REON"} # {}) => Cardinality(Held) <= 1

----------------------------------------------------------------------------
(***************************************************************************)
(* What the properties above rest on.                                      *)
(***************************************************************************)

\* With time between two notes the newlist has at most the one voice of the
\* last press, and nothing is marked for later.
NewInv ==
    Steady =>
        /\ new # << >> => since = 0 /\ Len(new) = 1
        /\ \A i \in DOMAIN new : new[i].flags = {}
        /\ \A i \in DOMAIN play : play[i].flags \cap {"SUSTAIN", "REOFF"} = {}

Triggers(v) == v.flags \cap {"ON", "REON"}

\* Under a preference the table has the keys that are held.  While there are
\* some a voice runs, and the counts say so by the time of the next note.
TableInv ==
    Steady /\ pref # "none" =>
        /\ table = Held
        /\ table # {} => new # << >> \/ Active(play) # {}
        /\ table # {} /\ since >= 1 => cvoices # 0
        /\ table # {} /\ since >= 2 => lvoices # 0
        /\ cvoices # 0 \/ lvoices # 0 => play # << >>

\* A period takes the triggers away.
TriggerInv ==
    Steady /\ pref # "none" =>
        /\ since > 0 => \A i \in DOMAIN play : Triggers(play[i]) = {}
        /\ ~Trigger => \A i \in DOMAIN play : Triggers(play[i]) # {} => Cardinality(table) <= 1

\* The first voice has the preferred key; the others have been keyed off, and so
\* has the first one when no key is held, or it will be by the next period with
\* the pedal up.
HeldInv ==
    Steady /\ pref # "none" =>
        /\ down = {} => count = 0
        /\ table # {} => count # 0
        /\ \A i \in DOMAIN play : i # 1 => ~Sounding(play[i])
        /\ table # {} /\ new # << >> => new[1].key = BestOf(table)
        /\ table # {} /\ new = << >> =>
              play # << >> /\ Sounding(play[1]) /\ play[1].key = BestOf(table)
        /\ down # {} => new # << >> \/ play # << >>
        /\ down = {} => new = << >> /\ (extreme >= 0 \/ \A i \in DOMAIN play : ~Sounding(play[i]))

\* Without one a voice sounds for the key it was given last.
OwnKeyInv ==
    Steady /\ pref = "none" =>
        /\ \A i \in DOMAIN play : Sounding(play[i]) => play[i].id \in down
        /\ \A i \in DOMAIN new : new[i].id \in down
=============================================================================
