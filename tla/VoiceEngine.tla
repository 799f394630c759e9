---------------------------- MODULE VoiceEngine ----------------------------
(***************************************************************************)
(* The polyphonic voice engine: the three voice lists of audioMain, the    *)
(* note events the audio thread takes from its ring buffer, one call of    *)
(* doAudioOps after another, and the operations of the MIDI thread that    *)
(* write to the same voices without a lock (pedal, all notes off, hold,    *)
(* exit of an emulator).                                                   *)
(*                                                                         *)
(* Two deployments are covered.  With ~Direct (ALSA, or Jack with -jdo)    *)
(* notes cross a ring buffer and everything else is done at once by the    *)
(* MIDI thread.  With Direct (one Jack registration) the Jack callback     *)
(* handles every MIDI event itself just before it calls doAudioOps, and    *)
(* there is no other thread.                                               *)
(*                                                                         *)
(* Emulators here have no mono note preference: MonoNotes models the       *)
(* branches that call doMNL with a key.                                    *)
(***************************************************************************)
EXTENDS SequencesExt

CONSTANTS
    VoiceCount,      \* audiomain->voiceCount
    SynthCount,      \* emulators on the audiolist at the start
    Keys,            \* MIDI keys the players use
    Channels,        \* MIDI channels the players use
    OMNI,            \* BRISTOL_CHAN_OMNI
    midichannel,     \* [Synths -> Channels \cup {OMNI}]
    voicecount,      \* [Synths -> voices the emulator may sound]
    Unison,          \* emulators with BRISTOL_V_UNISON
    Expiring,        \* emulators whose GUI may stop sending active sense
    ReleasePeriods,  \* periods an envelope needs to reach zero gain
    RingSlots,       \* messages audiomain->rb has room for
    MaxEvents,       \* bound: MIDI events sent in one behaviour
    Direct,          \* one Jack registration: no MIDI thread, no ring
    MidiWait,        \* BRISTOL_MIDI_WAIT: ends with its last emulator (no -server)
    SlowAudio        \* the audio thread may need longer than the exit timeout

Voices == 1 .. VoiceCount
NoVoice == 0
Synths == 1 .. SynthCount
NoSynth == 0

\* BRISTOL_KEYON, KEYOFF, KEYDONE, KEYREON, KEYOFFING, KEYSUSTAIN, KEYREOFF
Flag == {"ON", "OFF", "DONE", "REON", "OFFING", "SUSTAIN", "REOFF"}
MixFlag == {"HOLDDOWN", "REMOVE", "KEYHOLD"}

ASSUME ConstantsAssumption ==
    /\ VoiceCount \in Nat \ {0}
    /\ SynthCount \in Nat \ {0}
    /\ 0 \in Keys
    /\ midichannel \in [Synths -> Channels \cup {OMNI}]
    /\ voicecount \in [Synths -> Nat \ {0}]
    /\ Unison \subseteq Synths
    /\ Expiring \subseteq Synths
    /\ ReleasePeriods \in Nat \ {0}
    /\ RingSlots \in Nat
    /\ MaxEvents \in Nat
    /\ Direct \in BOOLEAN
    /\ MidiWait \in BOOLEAN
    /\ SlowAudio \in BOOLEAN

Message == [type : {"on", "off"}, chan : Channels, key : Keys]

\* A value of BRISTOL_CC_HOLD1: 0, 1 .. 63, which is not taken for down any
\* more but does not end what is sustained either, or 64 .. 127.
PedalPosition == {"up", "half", "down"}

VARIABLES
    free, play, new,   \* freelist, playlist, newlist, head first
    flags,             \* voice->flags
    owner,             \* voice->baudio
    keyid,             \* voice->keyid
    gain,              \* gain[v][s]: periods of release left in locals of s
    audiolist,         \* emulators linked on audiomain->audiolist
    mix,               \* baudio->mixflags
    lvoices, cvoices,  \* voices run in the last and in this period
    pedal,             \* contcontroller[BRISTOL_CC_HOLD1]
    freed,             \* emulators whose Baudio has been given back
    ring,              \* audiomain->rb
    phase, cur,        \* where the audio thread is, and at which voice
    msg,               \* the note event the audio thread is handling
    todo, repeats,     \* emulators still to walk, voices still to start
    sustained,         \* the pedal as rbMidiNoteOff read it
    mphase, mcur,      \* where the MIDI thread is, and at which voice
    mchan, leaving,    \* channel and emulator of its operation
    sent,              \* events sent so far
    keysdown,          \* history: keys down in the events handled so far
    torn               \* history: a store of BRISTOL_REMOVE has been lost

lists == <<free, play, new>>
voice == <<owner, keyid, gain>>
synth == <<audiolist, mix, lvoices, cvoices, pedal, freed, torn>>
walk  == <<todo, repeats>>
midi  == <<mphase, mcur, mchan, leaving, sent>>
note  == <<msg, sustained, keysdown>>

vars == <<free, play, new, flags, owner, keyid, gain, audiolist, mix, lvoices,
          cvoices, pedal, freed, ring, phase, cur, msg, todo, repeats,
          sustained, mphase, mcur, mchan, leaving, sent, keysdown, torn>>

----------------------------------------------------------------------------
(***************************************************************************)
(* The linked lists.                                                       *)
(***************************************************************************)

Place(list, v) == CHOOSE i \in DOMAIN list : list[i] = v

\* Mutant of Unlink: the voice is taken for the head of its list.
UnlinkHead(list, v) == Tail(list)

Unlink(list, v) == RemoveAt(list, Place(list, v))

HeadOf(list) == IF list = << >> THEN NoVoice ELSE list[1]

After(list, v) ==
    LET i == Place(list, v)
    IN  IF i < Len(list) THEN list[i + 1] ELSE NoVoice

\* voice->next, wherever the voice is linked at this moment.
NextVoice(v) ==
    CASE v \in Range(play) -> After(play, v)
      [] v \in Range(new)  -> After(new, v)
      [] OTHER             -> After(free, v)

Hears(s, c) == midichannel[s] \in {c, OMNI}

Suspended(s) == mix[s] \cap {"HOLDDOWN", "REMOVE"} # {}

(***************************************************************************)
(* Neither thread locks a voice.  A store of the audio thread may be       *)
(* overwritten by a read-modify-write of the MIDI thread at that voice,    *)
(* and the other way round.                                                *)
(***************************************************************************)
Scanning == mphase \in {"sustoff", "alloff"} /\ mcur # NoVoice

AudioStore(F) ==
    \/ flags' = F
    \/ /\ Scanning
       /\ flags' = [F EXCEPT ![mcur] = flags[mcur]]

MidiStore(v, f) ==
    \/ flags' = [flags EXCEPT ![v] = f]
    \/ /\ phase # "wait"
       /\ cur = v
       /\ UNCHANGED flags

\* The audio thread reads, changes and stores other bits of mixflags: of the
\* next emulator it counts, and of one whose first voice of the period it runs.
Touching(s) ==
    \/ phase = "synths" /\ todo # << >> /\ Head(todo) = s
    \/ /\ phase = "voices" /\ cur # NoVoice
       /\ owner[cur] = s /\ cvoices[s] = 0
       /\ ~Suspended(s) /\ "DONE" \notin flags[cur]

\* What the MIDI thread stores there meanwhile is lost.
MixStore(s, F) ==
    \/ mix' = [mix EXCEPT ![s] = F]
    \/ Touching(s) /\ UNCHANGED mix

Init ==
    /\ free = [i \in Voices |-> VoiceCount + 1 - i]
    /\ play = << >>
    /\ new = << >>
    /\ flags = [v \in Voices |-> {"DONE"}]
    /\ owner = [v \in Voices |-> NoSynth]
    /\ keyid = [v \in Voices |-> 0]
    /\ gain = [v \in Voices |-> [s \in Synths |-> 0]]
    /\ audiolist = [i \in Synths |-> SynthCount + 1 - i]
    /\ mix = [s \in Synths |-> {}]
    /\ lvoices = [s \in Synths |-> 0]
    /\ cvoices = [s \in Synths |-> 0]
    /\ pedal = [s \in Synths |-> "up"]
    /\ freed = {}
    /\ ring = << >>
    /\ phase = "wait"
    /\ cur = NoVoice
    /\ msg \in {m \in Message : m.type = "off" /\ m.key = 0}
    /\ todo = << >>
    /\ repeats = 0
    /\ sustained = FALSE
    /\ mphase = "idle"
    /\ mcur = NoVoice
    /\ mchan \in Channels
    /\ leaving = NoSynth
    /\ sent = 0
    /\ keysdown = {}
    /\ torn = FALSE

----------------------------------------------------------------------------
(***************************************************************************)
(* Note events in the audio thread.                                        *)
(***************************************************************************)

\* The Jack callback and doAudioOps are one thread.
AudioTurn == Direct => mphase = "idle"

\* Where handling a note event returns to.
Resume == IF Direct THEN "wait" ELSE "drain"

\* rbMidiNote: dispatch on the command of the message.
StartNote(m) ==
    /\ msg' = m
    /\ IF m.type = "on"
         THEN /\ keysdown' = keysdown \cup {<<m.chan, m.key>>}
              /\ phase' = "noteon"
              /\ todo' = audiolist
              /\ UNCHANGED cur
         ELSE /\ keysdown' = keysdown \ {<<m.chan, m.key>>}
              /\ phase' = "noteoff"
              /\ cur' = HeadOf(play)
              /\ UNCHANGED todo
    /\ repeats' = 0
    /\ UNCHANGED sustained

\* rbMidiNoteOn: is the next emulator on the audiolist to play this note?
OfferNote ==
    /\ AudioTurn
    /\ phase = "noteon" /\ repeats = 0 /\ todo # << >>
    /\ LET s == Head(todo) IN
       IF ~Suspended(s) /\ Hears(s, msg.chan)
         THEN /\ repeats' = IF s \in Unison THEN voicecount[s] ELSE 1
              /\ UNCHANGED todo
         ELSE /\ todo' = Tail(todo)
              /\ UNCHANGED repeats
    /\ UNCHANGED <<lists, flags, voice, synth, ring, phase, cur, note, midi>>

NoteOnDone ==
    /\ AudioTurn
    /\ phase = "noteon" /\ todo = << >>
    /\ phase' = Resume
    /\ UNCHANGED <<lists, flags, voice, synth, ring, cur, walk, note, midi>>

VoiceStarted ==
    /\ repeats' = repeats - 1
    /\ todo' = IF repeats = 1 THEN Tail(todo) ELSE todo

Owned(s) == {i \in DOMAIN play : owner[play[i]] = s}

HasRoom(s) == lvoices[s] < voicecount[s] /\ free # << >>

FirstOf(S, i) == i \in S /\ \A j \in S : i <= j

LastOf(S, i) == i \in S /\ \A j \in S : j <= i

\* doMidiNoteOn settles on entry i of the playlist when there is no room.
Steals(s, i) ==
    LET same  == {j \in Owned(s) : keyid[play[j]] = msg.key}
        going == {j \in DOMAIN play : /\ owner[play[j]] # NoSynth
                                      /\ flags[play[j]] \cap {"DONE", "OFFING"} # {}}
    IN  \/ FirstOf(same, i)
        \/ same = {} /\ LastOf(going, i)
        \/ same = {} /\ going = {} /\ LastOf(Owned(s), i)
        \/ going = {} /\ Owned(s) = {} /\ i = Len(play)

\* doMidiNoteOn: take the head of the freelist.
TakeFree ==
    /\ AudioTurn
    /\ phase = "noteon" /\ repeats > 0
    /\ HasRoom(Head(todo))
    /\ LET v == Head(free) IN
       /\ owner' = [owner EXCEPT ![v] = Head(todo)]
       /\ keyid' = [keyid EXCEPT ![v] = msg.key]
       /\ AudioStore([flags EXCEPT ![v] = @ \ {"ON", "REON"}])
       /\ free' = Tail(free)
       /\ new' = Cons(v, new)
    /\ VoiceStarted
    /\ UNCHANGED <<play, gain, synth, ring, phase, cur, note, midi>>

\* doMidiNoteOn: an emulator with a single voice retriggers it in place.
ReuseOnly ==
    /\ AudioTurn
    /\ phase = "noteon" /\ repeats > 0
    /\ ~HasRoom(Head(todo))
    /\ voicecount[Head(todo)] = 1
    /\ \E i \in DOMAIN play : LET v == play[i] IN
       /\ FirstOf(Owned(Head(todo)), i)
       /\ AudioStore([flags EXCEPT ![v] = (@ \ {"ON", "DONE", "OFF"}) \cup {"REON"}])
       /\ keyid' = [keyid EXCEPT ![v] = msg.key]
    /\ VoiceStarted
    /\ UNCHANGED <<lists, owner, gain, synth, ring, phase, cur, note, midi>>

\* doMidiNoteOn: take a voice from the playlist.  Its baudio is not changed.
StealVoice ==
    /\ AudioTurn
    /\ phase = "noteon" /\ repeats > 0
    /\ ~HasRoom(Head(todo))
    /\ voicecount[Head(todo)] = 1 => Owned(Head(todo)) = {}
    /\ \/ /\ play = << >>
          /\ UNCHANGED <<lists, flags, keyid>>
       \/ \E i \in DOMAIN play :
             LET s == Head(todo)
                 v == play[i]
                 kept == flags[v] \ {"ON", "REON"}
             IN  /\ Steals(s, i)
                 /\ play' = Unlink(play, v)
                 /\ new' = Cons(v, new)
                 /\ keyid' = [keyid EXCEPT ![v] = msg.key]
                 /\ AudioStore([flags EXCEPT ![v] =
                       IF owner[v] = s THEN kept \cup {"REON"} ELSE kept])
                 /\ UNCHANGED free
    /\ VoiceStarted
    /\ UNCHANGED <<owner, gain, synth, ring, phase, cur, note, midi>>

NoteMatches(v) ==
    /\ owner[v] # NoSynth
    /\ "KEYHOLD" \notin mix[owner[v]]
    /\ keyid[v] = msg.key
    /\ Hears(owner[v], msg.chan)

\* rbMidiNoteOff: look at the next voice of the playlist and read the pedal.
OffLook ==
    /\ AudioTurn
    /\ phase = "noteoff"
    /\ IF cur = NoVoice
         THEN phase' = "offnew" /\ cur' = HeadOf(new) /\ UNCHANGED sustained
         ELSE IF NoteMatches(cur) /\ ~Suspended(owner[cur])
         THEN /\ sustained' = (pedal[owner[cur]] = "down" /\ voicecount[owner[cur]] > 1)
              /\ phase' = "offmark"
              /\ UNCHANGED cur
         ELSE cur' = After(play, cur) /\ UNCHANGED <<phase, sustained>>
    /\ UNCHANGED <<lists, flags, voice, synth, ring, msg, keysdown, walk, midi>>

\* rbMidiNoteOff: sustain the voice or key it off.
OffMark ==
    /\ AudioTurn
    /\ phase = "offmark"
    /\ AudioStore([flags EXCEPT ![cur] =
                     @ \cup (IF sustained THEN {"SUSTAIN"} ELSE {"OFF"})])
    /\ cur' = After(play, cur)
    /\ phase' = "noteoff"
    /\ UNCHANGED <<lists, voice, synth, ring, note, walk, midi>>

\* Mutant of OffNew: voices still on the newlist are not looked at.
OffNewForgotten ==
    /\ AudioTurn
    /\ phase = "offnew"
    /\ phase' = Resume
    /\ UNCHANGED <<lists, flags, cur, voice, synth, ring, note, walk, midi>>

\* rbMidiNoteOff: a voice still on the newlist never sounded.
OffNew ==
    /\ AudioTurn
    /\ phase = "offnew"
    /\ IF cur = NoVoice
         THEN phase' = Resume /\ UNCHANGED <<lists, flags, cur>>
         ELSE /\ cur' = After(new, cur)
              /\ UNCHANGED phase
              /\ IF ~NoteMatches(cur) THEN UNCHANGED <<lists, flags>>
                 ELSE IF voicecount[owner[cur]] > 1
                 THEN /\ AudioStore([flags EXCEPT ![cur] = @ \ {"ON", "REON"}])
                      /\ new' = Unlink(new, cur)
                      /\ free' = Cons(cur, free)
                      /\ UNCHANGED play
                 ELSE /\ AudioStore([flags EXCEPT ![cur] =
                           (@ \ {"ON", "REON"}) \cup {"OFF", "SUSTAIN", "REOFF"}])
                      /\ UNCHANGED lists
    /\ UNCHANGED <<voice, synth, ring, note, walk, midi>>

----------------------------------------------------------------------------
(***************************************************************************)
(* doAudioOps.                                                             *)
(***************************************************************************)

\* Nothing to run: the ring is stopped and reset.
EmptyPeriod ==
    /\ AudioTurn
    /\ phase = "wait" /\ audiolist = << >>
    /\ ring' = << >>
    /\ UNCHANGED <<lists, flags, voice, synth, phase, cur, note, walk, midi>>

BeginPeriod ==
    /\ AudioTurn
    /\ phase = "wait" /\ audiolist # << >>
    /\ phase' = "drain"
    /\ UNCHANGED <<lists, flags, voice, synth, ring, cur, note, walk, midi>>

\* Take the next note event from the ring.
Drain ==
    /\ AudioTurn
    /\ phase = "drain" /\ ring # << >>
    /\ ring' = Tail(ring)
    /\ StartNote(Head(ring))
    /\ UNCHANGED <<lists, flags, voice, synth, midi>>

Drained ==
    /\ AudioTurn
    /\ phase = "drain" /\ ring = << >>
    /\ phase' = "synths"
    /\ todo' = audiolist
    /\ UNCHANGED <<lists, flags, voice, synth, ring, cur, note, repeats, midi>>

\* Mutant of Forgets: the newlist is not searched for the removed emulator.
ForgetsButNew(s, v) == owner[v] = s /\ v \notin Range(new)

Forgets(s, v) == owner[v] = s

\* Remove an emulator: freeBristolAudio, then forget it in the voice lists.
\* After the last one the engine is to end, and the voices keep theirs.
RemoveSynth ==
    /\ AudioTurn
    /\ phase = "synths" /\ todo # << >>
    /\ LET s == Head(todo)
           last == MidiWait /\ audiolist' = << >>
       IN
       /\ \/ "REMOVE" \in mix[s]
          \/ s \in Expiring /\ ~Suspended(s)    \* bristolActiveSenseCheck
       /\ audiolist' = Unlink(audiolist, s)
       /\ AudioStore([v \in Voices |->
              IF v \in Range(free) /\ owner[v] \in {s, NoSynth}
              THEN flags[v] \cup {"DONE"} ELSE flags[v]])
       /\ owner' = IF last THEN owner
                   ELSE [v \in Voices |-> IF Forgets(s, v) THEN NoSynth ELSE owner[v]]
       /\ mix' = [mix EXCEPT ![s] = (@ \cup {"HOLDDOWN"}) \ {"REMOVE"}]
       /\ phase' = IF last THEN "wait" ELSE phase
    /\ todo' = Tail(todo)
    /\ UNCHANGED <<lists, keyid, gain, lvoices, cvoices, pedal, freed, torn, ring,
                   cur, note, repeats, midi>>

\* Carry the voice count of the last period over.
CountSynth ==
    /\ AudioTurn
    /\ phase = "synths" /\ todo # << >>
    /\ LET s == Head(todo) IN
       /\ "REMOVE" \notin mix[s]
       /\ lvoices' = [lvoices EXCEPT ![s] = cvoices[s]]
       /\ cvoices' = [cvoices EXCEPT ![s] = 0]
    /\ todo' = Tail(todo)
    /\ UNCHANGED <<lists, flags, voice, audiolist, mix, pedal, freed, torn, ring,
                   phase, cur, note, repeats, midi>>

SynthsDone ==
    /\ AudioTurn
    /\ phase = "synths" /\ todo = << >>
    /\ phase' = IF new = << >> THEN "voices" ELSE "retire"
    /\ cur' = HeadOf(play)
    /\ UNCHANGED <<lists, flags, voice, synth, ring, note, walk, midi>>

\* Move the voices that are done from the playlist to the end of the freelist.
Retire ==
    /\ AudioTurn
    /\ phase = "retire"
    /\ IF cur = NoVoice
         THEN phase' = "start" /\ UNCHANGED <<lists, flags, cur>>
         ELSE /\ cur' = After(play, cur)
              /\ UNCHANGED phase
              /\ IF "DONE" \in flags[cur]
                   THEN /\ AudioStore([flags EXCEPT ![cur] = @ \ {"OFFING"}])
                        /\ play' = Unlink(play, cur)
                        /\ free' = Append(free, cur)
                        /\ UNCHANGED new
                   ELSE UNCHANGED <<lists, flags>>
    /\ UNCHANGED <<voice, synth, ring, note, walk, midi>>

\* Mutant of Started: a voice that was done before it was stolen stays done.
StartedDone(f) ==
    LET g == f \ {"OFF", "OFFING", "SUSTAIN", "REOFF"}
    IN  IF "REON" \in g THEN g ELSE g \cup {"ON"}

Started(f) ==
    LET g == f \ {"DONE", "OFF", "OFFING", "SUSTAIN"}
        h == IF "REON" \in g THEN g ELSE g \cup {"ON"}
    IN  IF "REOFF" \in h THEN (h \ {"REOFF"}) \cup {"OFF", "SUSTAIN"} ELSE h

\* Mutant of StartVoice: the rest of the newlist is dropped with its head.
StartVoiceAlone ==
    /\ AudioTurn
    /\ phase = "start"
    /\ new' = << >>
    /\ play' = IF new = << >> THEN play ELSE Cons(Head(new), play)
    /\ phase' = "voices"
    /\ cur' = HeadOf(play')
    /\ UNCHANGED <<free, flags, voice, synth, ring, note, walk, midi>>

\* Move the newlist, voice by voice, to the head of the playlist.
StartVoice ==
    /\ AudioTurn
    /\ phase = "start"
    /\ IF new = << >>
         THEN /\ phase' = "voices"
              /\ cur' = HeadOf(play)
              /\ UNCHANGED <<lists, flags>>
         ELSE /\ new' = Tail(new)
              /\ play' = Cons(Head(new), play)
              /\ AudioStore([flags EXCEPT ![Head(new)] = Started(@)])
              /\ UNCHANGED <<free, phase, cur>>
    /\ UNCHANGED <<voice, synth, ring, note, walk, midi>>

\* Mutant of RunOrphan: the voice is passed over.
RunOrphanInPlace ==
    /\ AudioTurn
    /\ phase = "voices" /\ cur # NoVoice
    /\ owner[cur] = NoSynth
    /\ cur' = After(play, cur)
    /\ UNCHANGED <<lists, flags, voice, synth, ring, phase, note, walk, midi>>

\* A voice without an emulator: bristolUnlinkVoice, and the loop ends there
\* because the voice is then the last one of the freelist.
RunOrphan ==
    /\ AudioTurn
    /\ phase = "voices" /\ cur # NoVoice
    /\ owner[cur] = NoSynth
    /\ play' = Unlink(play, cur)
    /\ free' = Append(free, cur)
    /\ cur' = NoVoice
    /\ UNCHANGED <<new, flags, voice, synth, ring, phase, note, walk, midi>>

SkipVoice ==
    /\ AudioTurn
    /\ phase = "voices" /\ cur # NoVoice
    /\ owner[cur] # NoSynth
    /\ Suspended(owner[cur]) \/ "DONE" \in flags[cur]
    /\ cur' = After(play, cur)
    /\ UNCHANGED <<lists, flags, voice, synth, ring, phase, note, walk, midi>>

\* What the envelope, the last operator of an emulator, leaves of the flags
\* and of its gain: it restarts, releases, stays silent or stays open.
Restarts(f) == f \cap {"ON", "REON"} # {}

GainAfter(f, g) ==
    CASE Restarts(f) -> ReleasePeriods
      [] ~Restarts(f) /\ "OFF" \in f -> IF g = 0 THEN 0 ELSE g - 1
      [] OTHER -> g

\* Mutant of FlagsAfter: the end of the release does not set KEYDONE.
FlagsNeverDone(f, g) ==
    IF Restarts(f) THEN f \ {"DONE", "OFFING"}
    ELSE IF "OFF" \in f THEN f \cup {"OFFING"} ELSE f

FlagsAfter(f, g) ==
    CASE Restarts(f) -> f \ {"DONE", "OFFING"}
      [] ~Restarts(f) /\ GainAfter(f, g) = 0 ->
            (f \cup {"DONE"}) \ (IF "OFF" \in f THEN {"OFFING"} ELSE {})
      [] OTHER -> IF "OFF" \in f THEN f \cup {"OFFING"} ELSE f

\* Mutant of OverLimit: one voice too many.
OverLimitByOne(s) == cvoices[s] > voicecount[s]

OverLimit(s) == cvoices[s] + 1 > voicecount[s]

\* Run a voice through its emulator, unless the emulator is over its limit.
RunVoice ==
    /\ AudioTurn
    /\ phase = "voices" /\ cur # NoVoice
    /\ owner[cur] # NoSynth
    /\ ~Suspended(owner[cur]) /\ "DONE" \notin flags[cur]
    /\ LET s == owner[cur] IN
       /\ cvoices' = [cvoices EXCEPT ![s] = @ + 1]
       /\ IF OverLimit(s)
            THEN /\ AudioStore([flags EXCEPT ![cur] = @ \cup {"OFF"}])
                 /\ UNCHANGED gain
            ELSE /\ AudioStore([flags EXCEPT ![cur] = FlagsAfter(@, gain[cur][s])])
                 /\ gain' = [gain EXCEPT ![cur][s] = GainAfter(flags[cur], @)]
    /\ cur' = After(play, cur)
    /\ UNCHANGED <<lists, owner, keyid, audiolist, mix, lvoices, pedal, freed,
                   torn, ring, phase, note, walk, midi>>

VoicesDone ==
    /\ AudioTurn
    /\ phase = "voices" /\ cur = NoVoice
    /\ phase' = "clear"
    /\ UNCHANGED <<lists, flags, voice, synth, ring, cur, note, walk, midi>>

\* The triggers of every voice on the playlist have been seen.
EndPeriod ==
    /\ AudioTurn
    /\ phase = "clear"
    /\ AudioStore([v \in Voices |-> IF v \in Range(play)
                                    THEN flags[v] \ {"ON", "REON"} ELSE flags[v]])
    /\ phase' = "wait"
    /\ UNCHANGED <<lists, voice, synth, ring, cur, note, walk, midi>>

AudioStep ==
    \/ OfferNote \/ NoteOnDone \/ TakeFree \/ ReuseOnly \/ StealVoice
    \/ OffLook \/ OffMark \/ OffNew
    \/ EmptyPeriod \/ BeginPeriod \/ Drain \/ Drained
    \/ RemoveSynth \/ CountSynth \/ SynthsDone
    \/ Retire \/ StartVoice
    \/ RunOrphan \/ SkipVoice \/ RunVoice \/ VoicesDone \/ EndPeriod

----------------------------------------------------------------------------
(***************************************************************************)
(* Events.                                                                 *)
(***************************************************************************)

\* An event can be delivered: the thread that handles it is not busy.
Deliver ==
    /\ sent < MaxEvents
    /\ mphase = "idle"
    /\ Direct => phase = "wait"
    /\ sent' = sent + 1

\* midiNoteOn, midiNoteOff: into the ring if there is room, else dropped.
QueueNote(m) ==
    /\ ~Direct
    /\ Deliver
    /\ ring' = IF Len(ring) < RingSlots THEN Append(ring, m) ELSE ring
    /\ UNCHANGED <<lists, flags, voice, synth, phase, cur, note, walk,
                   mphase, mcur, mchan, leaving>>

\* midiNoteOn, midiNoteOff on a Jack event: handled in the callback.
JackNote(m) ==
    /\ Direct
    /\ Deliver
    /\ StartNote(m)
    /\ UNCHANGED <<lists, flags, voice, synth, ring, mphase, mcur, mchan, leaving>>

\* Mutant of StartScan: the first voice of the playlist is missed.
StartScanLate(kind, c) ==
    /\ mphase' = kind
    /\ mcur' = IF play = << >> THEN NoVoice ELSE After(play, Head(play))
    /\ mchan' = c

StartScan(kind, c) ==
    /\ mphase' = kind
    /\ mcur' = HeadOf(play)
    /\ mchan' = c

\* midiControl of BRISTOL_CC_HOLD1; only the value 0 goes on to
\* sustainedNotesOff.
Pedal(c, position) ==
    /\ Deliver
    /\ pedal' = [s \in Synths |-> IF s \in Range(audiolist) /\ Hears(s, c)
                                  THEN position ELSE pedal[s]]
    /\ IF position = "up" THEN StartScan("sustoff", c)
                          ELSE UNCHANGED <<mphase, mcur, mchan>>
    /\ UNCHANGED <<lists, flags, voice, audiolist, mix, lvoices, cvoices, freed,
                   torn, ring, phase, cur, note, walk, leaving>>

\* midiControl of MIDI_ALL_SOUNDS_OFF .. MIDI_POLY_OFF: allNotesOff(channel).
NotesOff(c) ==
    /\ Deliver
    /\ StartScan("alloff", c)
    /\ UNCHANGED <<lists, flags, voice, synth, ring, phase, cur, note, walk, leaving>>

\* BRISTOL_HOLD from the GUI; releasing it goes on to allNotesOff(midichannel).
HoldKeys(s, on) ==
    /\ ~Direct
    /\ Deliver
    /\ s \in Range(audiolist)
    /\ MixStore(s, IF on THEN mix[s] \cup {"KEYHOLD"} ELSE mix[s] \ {"KEYHOLD"})
    /\ IF on THEN UNCHANGED <<mphase, mcur, mchan>>
             ELSE StartScan("alloff", midichannel[s])
    /\ UNCHANGED <<lists, flags, voice, audiolist, lvoices, cvoices, pedal, freed,
                   torn, ring, phase, cur, note, walk, leaving>>

\* BRISTOL_EXIT_ALGO from the GUI: allNotesOff(-1), then the removal.
ExitSynth(s) ==
    /\ ~Direct
    /\ Deliver
    /\ s \in Range(audiolist)
    /\ leaving' = s
    /\ mphase' = "alloff"
    /\ mcur' = HeadOf(play)
    /\ UNCHANGED <<mchan, lists, flags, voice, synth, ring, phase, cur, note, walk>>

\* sustainedNotesOff, one voice.
SustainedOff ==
    /\ mphase = "sustoff" /\ mcur # NoVoice
    /\ IF /\ owner[mcur] # NoSynth
          /\ "SUSTAIN" \in flags[mcur]
          /\ Hears(owner[mcur], mchan)
         THEN MidiStore(mcur, flags[mcur] \cup {"OFF"})
         ELSE UNCHANGED flags
    /\ mcur' = NextVoice(mcur)
    /\ UNCHANGED <<lists, voice, synth, ring, phase, cur, note, walk,
                   mphase, mchan, leaving, sent>>

\* allNotesOff, one voice, with the call of doMNL(BRISTOL_ALL_NOTES_OFF).
VoiceOff ==
    /\ mphase = "alloff" /\ mcur # NoVoice
    /\ LET v == mcur
           owned == owner[v] # NoSynth
           hit == leaving # NoSynth \/ (owned /\ Hears(owner[v], mchan))
           f == IF hit THEN {"OFF", "DONE"} ELSE flags[v]
       IN  MidiStore(v, IF owned THEN f \ {"SUSTAIN"} ELSE f)
    /\ mcur' = NextVoice(mcur)
    /\ UNCHANGED <<lists, voice, synth, ring, phase, cur, note, walk,
                   mphase, mchan, leaving, sent>>

\* The scan is over; an exiting emulator is flagged for the audio thread.
ScanDone ==
    /\ mphase \in {"sustoff", "alloff"} /\ mcur = NoVoice
    /\ IF leaving = NoSynth
         THEN mphase' = "idle" /\ UNCHANGED <<mix, torn>>
         ELSE /\ mphase' = "marked"
              /\ MixStore(leaving, {"HOLDDOWN", "REMOVE"})
              /\ torn' = (torn \/ "REMOVE" \notin mix'[leaving])
    /\ UNCHANGED <<lists, flags, voice, audiolist, lvoices, cvoices, pedal, freed,
                   ring, phase, cur, note, walk, mcur, mchan, leaving, sent>>

\* With the last emulator the engine ends: its Baudio is not given back.
CheckLast ==
    /\ mphase = "marked"
    /\ mphase' = IF MidiWait /\ Range(audiolist) \subseteq {leaving}
                 THEN "ending" ELSE "await"
    /\ UNCHANGED <<lists, flags, voice, synth, ring, phase, cur, note, walk,
                   mcur, mchan, leaving, sent>>

\* The Baudio is given back when REMOVE is clear, or at the timeout: when the
\* audio thread will never clear it, or (SlowAudio) has not done so in time.
FreeSynth ==
    /\ mphase = "await"
    /\ \/ "REMOVE" \notin mix[leaving]
       \/ leaving \notin Range(audiolist)
       \/ SlowAudio
    /\ freed' = freed \cup {leaving}
    /\ leaving' = NoSynth
    /\ mphase' = "idle"
    /\ UNCHANGED <<lists, flags, voice, audiolist, mix, lvoices, cvoices, pedal,
                   torn, ring, phase, cur, note, walk, mcur, mchan, sent>>

Event ==
    \/ \E m \in Message : QueueNote(m) \/ JackNote(m)
    \/ \E c \in Channels : NotesOff(c) \/ \E p \in PedalPosition : Pedal(c, p)
    \/ \E s \in Synths : ExitSynth(s) \/ \E on \in BOOLEAN : HoldKeys(s, on)

MidiStep == SustainedOff \/ VoiceOff \/ ScanDone \/ CheckLast \/ FreeSynth

Next == AudioStep \/ MidiStep \/ Event

Spec == Init /\ [][Next]_vars

\* Both threads are scheduled; nothing makes a player play.
FairSpec == Spec /\ WF_vars(AudioStep) /\ WF_vars(MidiStep)

----------------------------------------------------------------------------
(***************************************************************************)
(* Properties.                                                             *)
(***************************************************************************)

Phases == {"wait", "drain", "noteon", "noteoff", "offmark", "offnew", "synths",
           "retire", "start", "voices", "clear"}

\* Every variable keeps its type (audioMain, bristolVoice, Baudio).
TypeOK ==
    /\ free \in Seq(Voices) /\ play \in Seq(Voices) /\ new \in Seq(Voices)
    /\ flags \in [Voices -> SUBSET Flag]
    /\ owner \in [Voices -> Synths \cup {NoSynth}]
    /\ keyid \in [Voices -> Keys]
    /\ gain \in [Voices -> [Synths -> 0 .. ReleasePeriods]]
    /\ audiolist \in Seq(Synths)
    /\ mix \in [Synths -> SUBSET MixFlag]
    /\ lvoices \in [Synths -> Nat] /\ cvoices \in [Synths -> Nat]
    /\ pedal \in [Synths -> PedalPosition]
    /\ freed \subseteq Synths
    /\ ring \in Seq(Message)
    /\ phase \in Phases /\ cur \in Voices \cup {NoVoice}
    /\ msg \in Message
    /\ todo \in Seq(Synths) /\ repeats \in Nat
    /\ sustained \in BOOLEAN
    /\ mphase \in {"idle", "sustoff", "alloff", "marked", "await", "ending"}
    /\ mcur \in Voices \cup {NoVoice} /\ mchan \in Channels \cup {OMNI}
    /\ leaving \in Synths \cup {NoSynth}
    /\ sent \in 0 .. MaxEvents
    /\ keysdown \subseteq (Channels \X Keys)
    /\ torn \in BOOLEAN

\* The freelist, the playlist and the newlist hold every voice exactly once:
\* no sequence of notes, removals and period boundaries loses a voice from the
\* lists of audioMain or links it twice (audioEngine.c, midinote.c).
VoicesPartitioned ==
    /\ IsInjective(free) /\ IsInjective(play) /\ IsInjective(new)
    /\ Range(free) \cap Range(play) = {}
    /\ Range(free) \cap Range(new) = {}
    /\ Range(play) \cap Range(new) = {}
    /\ Range(free) \cup Range(play) \cup Range(new) = Voices

\* What VoicesPartitioned rests on: each loop of the audio thread stands at a
\* voice of the list it walks, and walks the emulators of the audiolist.
CursorOK ==
    /\ phase \in {"retire", "voices", "noteoff", "offmark"} =>
          cur \in Range(play) \cup {NoVoice}
    /\ phase = "offnew" => cur \in Range(new) \cup {NoVoice}
    /\ phase = "offmark" => cur # NoVoice
    /\ phase = "noteon" /\ repeats > 0 => todo # << >>
    /\ IsInjective(audiolist)
    /\ phase = "synths" => IsInjective(todo) /\ Range(todo) \subseteq Range(audiolist)
    /\ mphase \in {"marked", "await", "ending"} => leaving # NoSynth

\* The inductive invariant: no step of either thread leaves a list with a
\* cursor that is not on it.
ListInv == TypeOK /\ VoicesPartitioned /\ CursorOK

\* Under BRISTOL_MIDI_WAIT the engine ends when its list is empty.
EngineGoesOn == MidiWait => audiolist # << >>

\* A voice, the audiolist or a loop of the audio thread refers to a Baudio
\* that was given back.
FreedInUse ==
    \/ \E v \in Voices : owner[v] \in freed
    \/ Range(audiolist) \cap freed # {}
    \/ phase \in {"noteon", "synths"} /\ Range(todo) \cap freed # {}

\* Once a Baudio is given back nothing refers to it while the engine goes on
\* (BRISTOL_EXIT_ALGO against the removal in doAudioOps), as long as no store
\* of BRISTOL_REMOVE was lost to the audio thread's own updates of mixflags.
NoFreedOwner == ~torn /\ EngineGoesOn => ~FreedInUse

Audible(v) == owner[v] # NoSynth /\ flags[v] \cap {"OFF", "DONE"} = {}

\* When a period ends an emulator has at most voicecount voices that are
\* neither done nor keyed off, however many notes arrived between two periods
\* (lvoices is stale while they are allocated; doAudioOps corrects it).
VoiceLimit ==
    phase = "clear" =>
        \A s \in Range(audiolist) : ~Suspended(s) =>
            Cardinality({v \in Range(play) : owner[v] = s /\ Audible(v)}) <= voicecount[s]

Down(s, k) == \E c \in Channels : Hears(s, c) /\ <<c, k>> \in keysdown

\* Between two periods a voice of a key nobody holds is keyed off, or was
\* sustained and the pedal has not come to 0 since, or is held by key hold: no
\* other released note is left sounding.  Half a pedal releases nothing.
NoStuckNote ==
    (phase = "wait" /\ mphase = "idle") =>
        \A v \in Range(play) : 
            (Audible(v) /\ ~Suspended(owner[v]) /\ ~Down(owner[v], keyid[v])) =>
                \/ "SUSTAIN" \in flags[v] /\ pedal[owner[v]] # "up"
                \/ "KEYHOLD" \in mix[owner[v]]

\* Before doAudioOps clears the triggers every voice that was triggered has had
\* its envelope restarted, or has been keyed off for being over the limit.
TriggersSeen ==
    phase = "clear" =>
        \A v \in Range(play) :
            (/\ flags[v] \cap {"ON", "REON"} # {}
             /\ owner[v] # NoSynth /\ ~Suspended(owner[v]))
            => "OFF" \in flags[v] \/ gain[v][owner[v]] = ReleasePeriods

\* allNotesOff leaves no voice of its channel sounding that was on the
\* playlist when the scan ended.
SilentAfterNotesOff ==
    [][(mphase = "alloff" /\ mphase' # "alloff" /\ leaving = NoSynth) =>
         \A v \in Range(play) : ~(Audible(v) /\ Hears(owner[v], mchan))]_vars

AllReleased ==
    /\ keysdown = {} /\ ring = << >> 
    /\ \A s \in Synths : pedal[s] = "up" /\ "KEYHOLD" \notin mix[s]

Silent == new = << >> /\ \A v \in Range(play) : owner[v] # NoSynth => "DONE" \in flags[v]

\* If in the end every key is up and every pedal at 0, every voice falls silent: each
\* envelope is run until it is done, over the limit or not.
EventuallySilent == (<>[]AllReleased) => <>[]Silent

\* A voice whose emulator was removed while it was playing goes back to the
\* freelist, as long as some emulator is left to run periods for.
OrphansReclaimed ==
    \A v \in Voices :
        (v \in Range(play) /\ owner[v] = NoSynth)
            ~> (v \notin Range(play) \/ audiolist = << >>)

----------------------------------------------------------------------------
(***************************************************************************)
(* What the properties above rest on.                                      *)
(***************************************************************************)

\* No voice and no loop refers to an emulator off the audiolist; the Baudio of
\* an exiting emulator keeps REMOVE for as long as it is linked there.
OwnersInv ==
    /\ EngineGoesOn => \A v \in Voices : owner[v] \in Range(audiolist) \cup {NoSynth}
    /\ phase \in {"noteon", "synths"} => Range(todo) \subseteq Range(audiolist)
    /\ ~torn => /\ Range(audiolist) \cap freed = {}
                /\ mphase \in {"marked", "await"} /\ leaving \in Range(audiolist)
                      => "REMOVE" \in mix[leaving]

\* The voices of a list a loop over it has passed when it stands at v.
Passed(list, v) ==
    {w \in Range(list) : v # NoVoice => Place(list, w) < Place(list, v)}

Triggered(v) == flags[v] \cap {"ON", "REON"} # {}

\* In the Jack callback one operation ends before the next one begins, and
\* with every GUI alive no emulator leaves.
JackTurns ==
    /\ phase # "wait" => mphase = "idle"
    /\ mphase \in {"sustoff", "alloff"} => mcur \in Range(play) \cup {NoVoice}
    /\ mphase \notin {"marked", "await", "ending"} /\ leaving = NoSynth
    /\ mix = [s \in Synths |-> {}]
    /\ Range(audiolist) = Synths

\* A voice in use belongs to an emulator, and is not done when it is triggered.
InUse ==
    /\ \A v \in Range(play) \cup Range(new) : owner[v] # NoSynth
    /\ \A v \in Range(play) : Triggered(v) => "DONE" \notin flags[v]

AudibleOf(s, S) == {v \in S : owner[v] = s /\ Audible(v)}

\* The voices doAudioOps has run so far in this period: those left sounding
\* were counted and are within the limit, and those triggered were restarted.
PeriodInv ==
    /\ phase = "synths" => \A s \in Synths \ Range(todo) : cvoices[s] = 0
    /\ phase \in {"retire", "start"} => \A s \in Synths : cvoices[s] = 0
    /\ phase = "clear" => cur = NoVoice
    /\ phase \in {"voices", "clear"} =>
          /\ \A s \in Synths :
                LET n == Cardinality(AudibleOf(s, Passed(play, cur)))
                IN  n <= cvoices[s] /\ n <= voicecount[s]
          /\ \A v \in Passed(play, cur) :
                Triggered(v) => "OFF" \in flags[v] \/ gain[v][owner[v]] = ReleasePeriods

\* allNotesOff has silenced the voices of its channel that it has passed.
ScanInv ==
    mphase = "alloff" =>
        \A v \in Passed(play, mcur) : ~(Audible(v) /\ Hears(owner[v], mchan))

JackInv == JackTurns /\ InUse /\ PeriodInv /\ ScanInv

\* The voices of a list a loop that stands at v has still to look at.
ToPass(list, v) == Range(list) \ Passed(list, v)

\* A note off, or the lifting of the pedal, is on its way to a voice of the
\* playlist, or to one of the newlist.
OffComing(v) ==
    \/ phase \in {"noteoff", "offmark"} /\ v \in ToPass(play, cur) /\ keyid[v] = msg.key
    \/ mphase = "sustoff" /\ v \in ToPass(play, mcur) /\ "SUSTAIN" \in flags[v]

NewOffComing(v) ==
    /\ keyid[v] = msg.key
    /\ \/ phase \in {"noteoff", "offmark"}
       \/ phase = "offnew" /\ v \in ToPass(new, cur)

\* A voice of the playlist that sounds has its key down, is sustained, or is
\* about to be keyed off; a voice of the newlist has its key down, will start
\* keyed off, or is about to be.
Accounted(v) ==
    Audible(v) => \/ Down(owner[v], keyid[v])
                  \/ "SUSTAIN" \in flags[v] /\ pedal[owner[v]] # "up"
                  \/ OffComing(v)

NewAccounted(v) ==
    "REOFF" \in flags[v] \/ Down(owner[v], keyid[v]) \/ NewOffComing(v)

NoteInv ==
    /\ phase = "noteon" => <<msg.chan, msg.key>> \in keysdown
    /\ phase = "offmark" => (sustained => pedal[owner[cur]] # "up")
    /\ mchan \in Channels
    /\ \A v \in Range(play) : Accounted(v)
    /\ \A v \in Range(new) : NewAccounted(v)
=============================================================================
