# Bristol in TLA+

This directory holds the formal model of the Bristol synthesiser engine
(`src/bristol`, `src/libbristolmidi`): TLA+ modules, TLC configurations, and
proofs checked by TLAPS. Paths and line numbers refer to the sources beside it;
`PROJECT.json` maps every definition to the lines it models and lists the runs,
mutants, hazards and theorems.

Contents: 1 inventory, 2 modules, 3 runs, 4 proofs, 5 finding and limits,
6 what is not modelled, 7 state of the proofs.

## 1. Inventory

The engine is one process with three threads. The *audio thread* calls
`doAudioOps` once per period, from an ALSA loop or from the Jack process callback.
The *MIDI thread* reads devices, parses bytes into messages and calls handlers. The
*main thread* spawns and joins the other two, opens the Jack MIDI device, and drains
a queue of events to forward. GUIs (`brighton`) are other processes, connected by a
socket, that send system exclusive messages. There are no locks: the threads share
`audioMain`, its list of emulators (`Baudio`) and its voices, and the tables of MIDI
devices, and hand note events over in a ring buffer.

| component | source | state it keeps | operations |
|---|---|---|---|
| Voice engine | `audioEngine.c`, `midinote.c` | `freelist`, `playlist`, `newlist`; per voice `flags`, `baudio`, `keyid`; per emulator `lvoices`, `cvoices` | `doAudioOps`, note on/off, stealing, `sustainedNotesOff`, `allNotesOff`, `bristolUnlinkVoice` |
| Envelope | `envelope.c` | gain and phase per voice | restart, release, done |
| MIDI controllers | `midihandlers.c` | `contcontroller[]`, pressure, wheel | `midiControl` and the other channel messages |
| Emulator life cycle | `bristolsystem.c`, `audiothread.c`, `activesense.c`, `bristol.c` | `audiolist`, `mixflags`, session ids, `sensecount`, `atReq/atStatus` | hello, start request, init, hold, exit, active sensing, start, stop, removal |
| Note ring buffer | `ringbuffer.c` | buffer, read and write pointer | create, write, read, spaces, stop, go, reset |
| Monophonic logic | `midinote.c` (`doMNL`), `audioEngine.c` | `notemap`: held keys, low, high, extreme, count | note on/off with low, high or no preference, key off and retrigger in `doAudioOps` |
| MIDI byte parser | `midiParse.c`, `midiALSADevMan.c`, `midiTCPDevMan.c` | device buffer, running status | both reads, `bristolMidiRawToMsg` |
| Devices and handles | `interface.c`, `midiRoutines.c`, `inetServer.c`, `midiMsgMan.c` | device and handle tables, open count | open, accept, close, loss of a connection, dispatch |
| Event forwarding | `midithread.c`, `bristol.c` | forwarding ring, session request | `checkcallbacks`, `midiMsgForwarder`, idle loop |
| Arpeggiator, sequencer | `arpeggiator.c` | table of keys, sequence, chord, counters | note hook, controls, walking on |
| Audio interfaces | `audioEngineJack.c`, `audioEngineALSA.c` | device handles | device I/O |
| Emulators, operators | `bristolmm.c`, `filter.c`, ... | sample state | signal processing |
| GUI | `brighton`, `libbrighton*` | panels; the state of its connection | drawing; handshake, active sensing, event loop |
| LV2 wrapper | `lv2/bristol-vox` | one engine instance | notes by direct call |

How they interact:

* *Calls.* MIDI bytes -> parser -> `midiMsgHandler` -> note, controller or
  system handler. `doAudioOps` -> active sense check -> emulator `preops`,
  `operate` per voice (the envelope among its operators), `postops`.
* *Ring.* With ALSA, or with Jack and a second registration, a note is written to
  `audiomain->rb` by the MIDI thread and handled by the audio thread at the start
  of the next period. With a single Jack registration the callback is both and
  handles each event at once.
* *Shared state without a lock.* Pedal, all notes off, hold and exit are done by
  the MIDI thread directly on the voices, while the audio thread relinks them.
* *Requests.* A GUI sends one request at a time and waits for its answer: hello (it
  is told a session id), channel (sent again after five seconds), start (the MIDI thread
  waits for the audio thread, which the main thread spawns), init. MIDI events are held
  back meanwhile, and again by a GUI that leaves until its exit is done.
* *Removal.* The MIDI thread sets `BRISTOL_REMOVE` on an exit, or the audio thread
  when active sensing runs out; the audio thread unlinks the emulator, the MIDI
  thread polls for up to two seconds and frees the `Baudio`.
* *Back to the GUIs.* Events go through a second ring to the main thread, which
  writes them to the sockets on which the MIDI thread answers requests.

What is hard about it: two threads on three linked lists; a cursor kept across
a relinking; flags changed by read-modify-write from two sides; counters from
the last period used to admit notes in this one; a bounded ring that drops; waits
with timeouts. `PROJECT.json` `hazards` lists each at its line.

What makes each component correct: *lists*: every voice on exactly one list,
cursors on their list. *Notes*: a released key is not left sounding, a pressed one
is triggered, no emulator sounds more voices than its limit, and with nothing held
the engine falls silent. *Life cycle*: every handshake ends, a GUI that runs has an
emulator that plays, nothing refers to a freed emulator, the engine ends with its
last GUI; a live GUI is not taken for dead, and a dead one is noticed. *Ring*: what
is read is what was written, whole, once and in order. *Mono*: one voice sounds,
with the preferred one of the keys that are held. *Parser*: the messages sent are
dispatched, however their bytes arrive. *Devices*: every connection is served, a
note is handled once, the tables do not leak, the count of connections is right.
*Forwarding*: what is taken is sent, once and in order. *Arpeggiator*: the table is
the list of the keys it was told of, and every entry is played.

## 2. Modules

Every module has its component's variables, `Init`, one action per handler or step,
`Next`, `Spec`, a fair `FairSpec` where it has liveness properties, and then its
properties. Mutants, used to show that a property can fail, stand beside the
definition they change. The `MC` modules only give values to constants.

Several modules have a variable `setup`, chosen in `Init` from the constant `Setups`
and never changed (in `MidiParser` it is `connection`, from `Connections`). It says who takes part and what may go wrong (GUIs that die, a
device that fails, a thread switch between two instructions), so that one run covers
all of it and each property can say what it takes: properties have the form
*condition on the setup => promise*, and the conditions have names (`NobodyDies`,
`Steady`, `Orderly`). Where a promise is broken outside its condition,
section 5 says how.

`TypeOK` of `NoteRing`, `SynthLifecycle`, `MonoNotes`, `ActiveSense`, `MidiDevices`,
`MidiForward` and `Arpeggiator`, and `ParserTypeOK`, are in no run's configuration; TLC
agrees with each, and they are there for the proofs of section 4. So are the invariants at
the end of a module, under "What the properties above rest on" or a similar heading:
TLC checked each of them on the instance of its run before it was proved. Those that
only proofs need stand in the proof module.

### VoiceEngine

One module for the voice engine, the envelope, the pedal, all notes off, hold
and exit, because all of them write the same voices.

| TLA+ | code |
|---|---|
| `free`, `play`, `new` | `freelist`, `playlist`, `newlist`, head first; a list is a sequence |
| `flags`, `owner`, `keyid` | `voice->flags`, `voice->baudio`, `voice->keyid.key` |
| `gain[v][s]` | periods of release left in the locals that emulator `s` has for voice `v` |
| `audiolist`, `mix`, `lvoices`, `cvoices`, `pedal` | `audiomain->audiolist`, `mixflags`, `lvoices`, `cvoices`, hold controller of each `Baudio`: at 0 (`"up"`), 1 to 63 (`"half"`) or above (`"down"`) |
| `ring` | messages in `audiomain->rb` |
| `phase`, `cur`, `msg`, `todo`, `repeats`, `sustained` | program counter and locals of the audio thread |
| `mphase`, `mcur`, `mchan`, `leaving` | program counter and locals of the MIDI thread |
| `freed`, `sent`, `keysdown`, `torn` | history and bound; `torn`: a store of `BRISTOL_REMOVE` was lost |

A step of the audio thread is one iteration of one of its loops; a period is
`BeginPeriod`, the ring (`Drain` and the note actions), the emulators
(`RemoveSynth`, `CountSynth`, `SynthsDone`), voices that are done (`Retire`), new
voices (`StartVoice`), the voices (`RunOrphan`, `SkipVoice`, `RunVoice`,
`VoicesDone`) and the end (`EndPeriod`). Note on offers the note to each emulator
(`OfferNote`) and places a voice (`TakeFree`, `ReuseOnly`, `StealVoice`); note off
reads the pedal (`OffLook`) and then writes the mark (`OffMark`), then looks at the
newlist (`OffNew`). A step of the MIDI thread is one voice of a scan
(`SustainedOff`, `VoiceOff`) or what follows it (`ScanDone`, `CheckLast`, `FreeSynth`).

Grain. A relinking of a voice by the audio thread is one step; the MIDI thread
never writes list pointers, it only follows `next`, which `NextVoice` gives for
whatever list the voice is on at that moment. Flags have a finer grain: a store of
either thread may be lost to the other thread's read-modify-write of the same
voice (`AudioStore`, `MidiStore`), and a store of `mixflags` by the MIDI thread to the
audio thread's (`MixStore`, where `Touching`).

The pedal has two thresholds: above 63 a note off sustains its voice
(`midinote.c:365`), and only the value 0 releases what is sustained
(`midihandlers.c:286`). When the last emulator goes under `BRISTOL_MIDI_WAIT` (`MidiWait`,
an engine that is not a server) `RemoveSynth` returns before the voices forget it, as the
process is about to end; `CheckLast` is the same test in the MIDI thread, which then
leaves the `Baudio` alone.

Abstracted: samples, velocities, controllers other than the pedal, the
operators before the envelope (they leave the flags alone), the ring as a queue
of `RingSlots` messages. `Direct` selects the single Jack registration, in which
the only thread is the callback. `Expiring` are emulators whose sense timer
may run out at any period. `SlowAudio` lets the two second wait of an exit run out.

### NoteQueue and NoteRing

`NoteQueue` is the abstract specification of the ring: a bounded queue of whole
messages. While an emulator is live (`live`: one is linked and its hello is
complete) only a full queue refuses a message and nothing is forgotten; before the
first hello, after the last exit and at a hello the queue may be emptied.

`NoteRing` is `ringbuffer.c` with its users. `write_ptr`, `read_ptr` and `buf` are
the fields of `jack_ringbuffer_t`; `wcnt`, `wrest`, `wnew` are `to_write`, `n2` and
`new_ptr` of `jack_ringbuffer_write`, `rcnt`, `rrest`, `rnew` those of
`jack_ringbuffer_read`; `msg` is the local of `doAudioOps`; `running` says whether
the audiolist has an emulator. The MIDI thread checks the room (`Offer`), reads it
again and copies (`WriteFirst`), copies the part past the end (`WriteSecond`)
and stores the pointer (`WriteStore`); the audio thread does the same to read
(`Drain`, `ReadFirst`, `ReadSecond`, `ReadStore`). A hello links the emulator
(`Hello`) and then resets the ring (`Go`); a period without emulators resets it too
(`EmptyPeriod`). A copy of one part is one step: what matters is which cells are
copied before and after which pointer store. A memory barrier stands between copies
and store, so stores are taken in program order. A reset stores both pointers in
one step, and a space function loads both in one.

`JRB_STOPPED`, which stop sets and go clears, is never tested, so a stopped ring
still takes messages; `midithread.c:308` suggests otherwise. The model has no such
flag for that reason.

`racing`, chosen at the start from the constant `Races`, separates two questions.
FALSE: resets fall between operations of the other thread, and the ring keeps its
promise. TRUE: they fall anywhere, as the code allows, and it does not.

`VoiceEngine` uses the queue, not the ring: its `ring` is the `queue` of
`NoteQueue` with `RingSlots` for `Capacity`. The cells of a message are numbered;
nothing else about a message matters here. `Queue` decodes the cells between the
pointers into message numbers (0 for a torn one) and is the refinement mapping.
`CopiesOK` says which cells hold what at each point of a write and a read.

### MonoNotes

One monophonic emulator: `doMNL`, its `notemap`, and what `doAudioOps` does for such
emulators. `table` is the set of keys with an entry in `notemap.key` (key 0 has none:
its entry is 0), `count` and `extreme` are `notemap.count` and `notemap.extreme`, low
and high are read off the table, `pref` the preference, `play` and `new` the voices
with key, flags and gain. `Press`, `PressFirst`, `Release`, `Pedal`, `NotesOff` and
`Prefer` are whole handlers and `Period` a whole `doAudioOps`: the deployment is a
single Jack registration, where one thread runs them in turn. `VoiceEngine` has the
interleavings, this module the keys. `down` is the set of keys that are held.

### SynthLifecycle

GUIs (`gui`, what each waits for), the wire (`inbox`, `ack`, `conn`), the MIDI thread
(`midi`), the main thread (`main`), the audio thread (`audio`) and what they share:
the list of emulators as linked by `next` and `last` (`emu`, `audiolist`), and `eng`:
`atStatus`, `atReq`, `BRISTOL_MIDI_GO` and the flags that end the process.
A GUI goes through `Start`, `Answered` (hello, channel, start, init, as
`initConnection` does), `Resend` (the channel request once more when its answer takes five
seconds), `Quit` or `Crash`. `Quit` is two messages, `BRISTOL_NRP_MIDI_GO` 0 and the exit, and a
GUI may die with the first one sent (`crashes` has `"leaving"`). `Handles(g)` is the MIDI
thread reading one request of a GUI: `Hello`, `Channel`, `ReqStart`, `InitAlgo`, `MidiGo`,
`MidiStop`, `ExitAlgo` or the loss of the connection, and `MidiContinues` what it does after a wait (`bristolSystem`,
`midiCheck`). `MainNext` is the loop of `main` with spawning, joining and the thirty
second watchdog. `AudioOpening`, `AudioPeriod(g)`, `Forget`, `TouchBack` and
`AudioStops` are the audio thread with removal of an emulator as `doAudioOps` and
`freeBristolAudio` do it. Voices are in `VoiceEngine`, devices in `MidiDevices`.

Time is left out: a timeout may fire when what it waits for is not about to happen, the
five seconds of a GUI (`slow` in the setup, `Patient` without it) whenever it waits. An
answer overwrites one that has not been taken (`post` in `interface.c`), so `ack` is one
per GUI. The timeout also calls `bristolMidiTCPClose` with a file descriptor in place of a
handle (`interface.c:480`): `handle[fd].dev` is -1, and what is closed is what lies before the
table. That is undefined; the model has the outcomes that the GUI goes on (`Resend`) and
that it loses its connection (`Crash`). A device that fails while it plays is started again
(`audiothread.c:241-250`) in the default build, which defines `_BRISTOL_DRAIN`
(`configure.ac:216-220`), and plays on; a build with `--disable-drain`, which opens it anew and
may stop, is not modelled.
The windows of a few instructions in which a thread switch does harm are explored
where the setup names them: `audiolist` (a hello between reading the head and
storing the new one), `mixflags` (the audio thread between reading and writing
flags), `watchdog` (the main thread between its test and its verdict).

`NewSid` is `bristolgetsid` as written: sids grow from the tail of the list to its head
until a gap is met. `Find(sid)` is the search of `midiMsgHandler` for the emulator of a
session id. With up to three GUIs both fit together; with four a sid may be given
twice, and the properties about a GUI and its own emulator say so.

### ActiveSense

One GUI and its emulator in time, which `SynthLifecycle` leaves out: `eventMgr` counts
down to its next message in iterations (`loop`, `asc`), the MIDI thread reads the
messages unless the exit of another GUI keeps it (`busy`), and each period takes its
samples off `count`. The values are those of the code, the product in an `int` of 32
bits included (`Samples`). Time passes one period at a time. `Interval` and `Timeout` are
what a GUI makes of its arguments. `InTime` says when sensing is quick enough for
iterations and exits of a given length, and `RateFits` when no count overflows; the
run's constants satisfy both (`TimesAreShort`).

### MidiDevices

The tables of the engine: `dev` and `handle` are `bmidi.dev` and `bmidi.handle`, a
connection is the first free entry of each (`acceptConnection`), an exit closes both
(`bristolMidiClose`), a read error gives the device up and leaves the handle
(`LostConnection`), `opens` is the count that ends the process, and the Jack device is
opened by another thread (`JackHandle`, `JackDevice`). `Serving`, `ForwardedTo` and
`NotesTo` are the loop of `checkcallbacks`: the handles that get a request, a
forwarded event, a note. A freed device has flags of -1, every bit.

### MidiForward

`midiMsgForwarder` puts a copy of an event into the ring for each connection that
asked for events (`Look`, `Skip`, `Put`: look for room, store), the main thread drains
it (`MainLoop`) and forwards the requests of a session manager, for which it writes
into the ring itself. A message is one slot; `NoteRing` has what one writer and one
reader do to each other, here there are two writers. GUIs that take part in a
session have asked for forwarding.

### MidiParser

One connection from the bytes that are written to the messages that are dispatched. The
definitions have names of their own (`ParserInit`, `ParserNext`, `ParserSpec`), so that the
proofs about it and about `MidiForward`, the two ends of the library, share a module.
`wire` is the socket, `buffer`, `index`, `count`, `last` are the device's `buffer`,
`bufindex`, `bufcount` and `lastcommand`, `at` is where the loop of the reader is. The
engine, and a GUI by default, reads a byte at a time (`ReadByte`,
`bristolMidiALSARead`); a GUI also in bursts (`ReadBurst`, `bristolMidiTCPRead`). `Parse` is
one round of `bristolMidiRawToMsg`, whose result is `RawToMsg`, with system data, running
status, foreign sysex and messages with data (type 8 and above, `Type2`, which end by their
length and are only looked at with a byte behind the header); `Unparsed` is what it is given, `bufcount`
bytes from `bufindex` on. A writer makes a message in the
writes of the code: two, three or four (`Start`, `Write`). A byte is a number below
14: status bytes stand for a family, the channel is left out. A full buffer (`Exhausted`) is a read
error, for which `midiCheck` closes the connection. A read that returns
nothing changes nothing and is a stutter.

### Arpeggiator

`notes` is `a.notes[].k`, `a` and `s` the counters of arpeggiator and sequencer, `on`,
`sequencing`, `learning` its modes. `NoteOn` and `NoteOff` are
`bristolArpeggiatorNoteEvent`, the controls `bristolArpeggiator` case by case, `Walk` is a
period in which the count of samples runs out (`bristolArpegReAudio`,
`arpeggioCounterCheck`), `Trap` the division by zero of the random direction. The
voices are left out: which note offs the arpeggiator is told of depends on the
voices that have the key, so any key may be let go at any time. `told` is the list
of keys as a sequence, the reference for the array.

## 3. Runs

| run | instance | properties |
|---|---|---|
| `voice_jack` | one thread, two layered emulators (one voice, two voices) on three voices, two keys, three positions of the pedal, five events | `VoicesPartitioned`, `VoiceLimit`, `NoStuckNote`, `TriggersSeen`, `SilentAfterNotesOff`, `EventuallySilent` |
| `voice_threads` | two threads, an omni emulator that may expire and a unison emulator on two voices, a ring of one message, exit, also of the last emulator, hold, three events | `ListInv`, `NoFreedOwner`, `OrphansReclaimed` |
| `ring_fifo` | ring of 8 cells, messages of 3, six messages, two hellos, resets between operations and anywhere | `NoSharedCell`, `ImplementsQueue`, `WaitingIsHandled`, `DrainEnds` |
| `mono` | keys 0-3, seven events two periods apart; keys 0-2, five events at any pace, with changes of preference and retriggering | `LegatoKeepsEnvelope`, `OneSounding`, `PlaysHeldKeys`, `PedalHolds` |
| `life_safety` | two GUIs with a device that fails and a watchdog, under ALSA and Jack, server or not; answers that take five seconds; deaths while a GUI runs or leaves; all of these with deaths in the handshake and every window; three GUIs | `OneAtATime`, `OwnEmulator`, `RunningIsServed`, `RemovedStaysOut` |
| `life_liveness` | the first three of these setups, the deaths under Jack | `HandshakeEnds`, `FailureEnds`, `MidiComesBack`, `EngineEnds` |
| `sense` | default times, sensing off, `-activesense 1000`, `-activesense 500 -ast 2000`; 48 kHz, periods of 50 ms, iterations of up to 100 ms, exits of 200 ms | `LiveKept`, `DeadNoticed` |
| `devices` | tables of five; four GUIs, Jack, deaths, a raw keyboard, a unix socket, two threads that open devices | `ConnectionsServed`, `NotesOnce`, `HandlesMatch`, `ExitsUnused`, `EndsWhenAllDie` |
| `forward` | two GUIs, a ring of five slots; three events, or an event and a request, with MIDI held back, with two writers | `SentAsTaken`, `AllTakenSent`, `SaveReachesAll` |
| `parse` | buffer of 8; a keyboard, a socket read byte by byte and in bursts, failing reads, a clock, two writers, messages longer than the buffer; three messages | `ParsedIsSent`, `StaysUp` |
| `arpeggiator` | three voices, three keys, two octaves, sequences of five steps; left on, switched off and on, a sequencer | `KeysListed`, `EachPlayed`, `WalksInTable` |
| `ring_hello` | ring of 8 cells, messages of 3, five messages, two hellos, resets anywhere | `HandledOnceInOrder` violated |

What the properties say:

* `VoicesPartitioned`, `ListInv`: every voice is on exactly one list, and each loop's
  cursor on the list it walks.
* `VoiceLimit`: at the end of a period no emulator has more voices sounding than
  `voicecount`, although notes are admitted on the count of the last period.
* `NoStuckNote`: between periods a sounding voice has its key down, or is marked
  and its pedal has not come to 0, or its emulator is on hold.
* `TriggersSeen`: `doAudioOps` clears no trigger that no envelope has seen.
* `SilentAfterNotesOff`: all notes off leaves nothing of its channel sounding.
* `EventuallySilent`: with every key and hold up and every pedal at 0 for good, every envelope is
  run until it is done.
* `NoFreedOwner`: after `FreeSynth` nothing refers to the emulator, while the engine goes on
  and unless a store of `BRISTOL_REMOVE` was lost.
* `OrphansReclaimed`: the voices of a removed emulator return to the freelist
  while some other emulator keeps the periods coming.
* `ImplementsQueue`: `NoteQueue!Spec` under the mapping: messages are whole, in
  order, handled once, and refused only by a full ring.
* `NoSharedCell`: the two threads never use the same cell at a time.
* `WaitingIsHandled`: a message in the ring is handled unless the emulators go.
* `DrainEnds`: the audio thread always gets back to its period, whatever a reset
  leaves between the pointers.
* `HandledOnceInOrder`: what `rbMidiNote` gets was sent, once, in order.
* `OneSounding`, `PlaysHeldKeys`, `PedalHolds`, `LegatoKeepsEnvelope`: a period never
  leaves two voices sounding; it plays the preferred held key (key 0, which is never
  counted, apart), and nothing without a key and pedal; the pedal keeps the last note; keys of a phrase do not restart
  the envelope.
* `OneAtATime`: of each GUI in the handshake there is exactly one request, request
  in progress, or answer, as answers carry no number; a GUI that has sent its channel
  request again and gone on with the first answer has two, and none has three.
* `OwnEmulator`, `RunningIsServed`, `RemovedStaysOut`: the sid a GUI was told finds the
  emulator its hello made; a GUI that runs has one that plays and an engine, or, if it
  asked again, its last request is still to be read; what was unlinked or freed is not linked again.
* `HandshakeEnds`, `FailureEnds`, `MidiComesBack`, `EngineEnds`: no GUI waits for ever; a
  failed device ends the process although the MIDI thread waits without a limit;
  MIDI held back is let go again unless a GUI died leaving; the last GUI takes the engine
  with it.
* `LiveKept`, `DeadNoticed`: active sensing removes no emulator of a live GUI, and that
  of every dead one.
* `ConnectionsServed`, `NotesOnce`, `HandlesMatch`: a request reaches one handle, an
  event is sent on to a connection once if it asked for it, a note is handled once;
  a handle and its device stay at the same index.
* `ExitsUnused`, `EndsWhenAllDie`: the count of connections ends the process under no
  GUI that has an emulator, and does when all are dead.
* `SentAsTaken`, `AllTakenSent`, `SaveReachesAll`: what is put into the forwarding ring
  is sent in order and once; a session request gets to every GUI.
* `ParsedIsSent`, `StaysUp`: what is dispatched is what was sent, all of it once all is
  read; a GUI leaves only when the engine has gone.
* `KeysListed`, `EachPlayed`: the array is the list of keys it was told of; left alone,
  the counters come to every entry in every octave, again and again; `WalksInTable`: over a
  table that has entries no walk ends outside of it, whatever left it since the last.

Bounds. Three voices with two emulators of one and two voices is the smallest pool
in which a note can find room, find its emulator full, and find the freelist
empty; two keys make "same key" and "other key" different; five events are enough
for press, pedal, release, press, pedal up. Two voices and three events are
enough in the two thread run for a voice on each of two lists under a scan while a
removal is in progress. `ReleasePeriods = 1` still separates the period that
starts a release from the one that ends it.

In a ring of eight cells with messages of three, two fit, the third wraps round the
end, and six messages go round twice; two hellos are one for an empty engine and one
for an engine that plays.

`mono`: three keys have a lowest, a highest and one in between, key 0 comes with
them, and seven events press and release three of them with one to spare. `life_*`: two GUIs
are one in the handshake while the other plays, leaves or dies, and the last one to
leave; three give a sid again. `devices`: five entries leave three or four to GUIs, so
that the fourth connection finds the tables full or just fits, and indices are
reused. `forward`: two writers and two connections; six copies overrun five slots
(four messages). `parse`: with `BufSize = 8`, `HeaderLen = 4` and `IdLen = 2` for 64, 12 and
4, three messages go round the end of the buffer and straddle it at each offset;
`behind` bounds the bytes not yet read, that is, how far the reader falls behind. `KeepsUp`
says how far it may in a GUI: what waits in the buffer is less than a header or a message
without its command and last byte, and the rest of the buffer must take the bytes to come.
`sense`: two exits of other GUIs are more than the messages of one timeout.
`arpeggiator`: four keys told in a table for three, twice the same one, two octaves to
go from the last entry of one to the first of the next; neither events nor controls
are bounded.

Fairness is weak, of threads that are scheduled, never of what players and GUIs
do. *VoiceEngine*: the audio thread, driven by its device, and the MIDI thread.
*NoteRing*: the audio thread. *SynthLifecycle*: a GUI reads its answer, the MIDI thread
selects among connections in turn (fair for each), continues after a wait, the
main thread loops, its watchdog and the Jack client give up, the audio thread opens,
runs and stops; not `Start`, `Quit` and `Crash`. *ActiveSense*: the GUI's loop, the MIDI
thread, the periods. *MidiDevices*: the MIDI thread takes each new and notices each
lost connection, as `select` reports them until it does. *MidiForward*: both threads,
and a hold ends (`MidiComesBack` is what justifies that). *Arpeggiator*: `Walk`, since
periods go on and each takes its samples from the count. `MonoNotes` and `MidiParser`
have safety and action properties only.

Deadlock is checked in `voice_*`, `ring_*`, `mono` and `forward`. Elsewhere
the behaviour ends: the process exits, every GUI has gone, the bounded messages are
used up.

Mutants. Every property of a passing run has a mutant of a mapped definition in
`PROJECT.json`: the property fails when the code is changed like that.

## 4. Proofs

Checked by TLAPS, for every value of the constants that satisfies the assumptions
named in the module of the component (which every run evaluates). A theorem says what
the property of the same line says, with the same conditions on the setup; what a
theorem assumes besides is in the last column.

| module | theorem | proves | assumes |
|---|---|---|---|
| `VoiceEngineProofs` | `TypeCorrect`, `VoicesNeverLost`, `ListsAlwaysSound` | `TypeOK`, `VoicesPartitioned`, `ListInv` | |
| | `NoVoiceOutlivesItsEmulator` | `NoFreedOwner` (no lost store of `BRISTOL_REMOVE`, engine goes on) | `~SlowAudio` |
| | `VoicesWithinLimit`, `EveryTriggerSeen` | `VoiceLimit`, `TriggersSeen` | `Direct`, `Expiring = {}` |
| | `NotesOffSilences` | `SilentAfterNotesOff` | the same |
| | `NoNoteStuck` | `NoStuckNote` | the same; every emulator hears every channel |
| `NoteRingProofs` | `RingTypes`, `ThreadsApart` | `TypeOK`, `NoSharedCell` | |
| | `RingIsAQueue` | `ImplementsQueue` | |
| `MonoNotesProofs` | `MonoTypes`, `OneVoiceSounds` | `TypeOK`, `OneSounding` | |
| | `LegatoKept`, `HeldKeysPlayed`, `PedalKeepsNote` | `LegatoKeepsEnvelope`, `PlaysHeldKeys`, `PedalHolds` | |
| `SynthLifecycleProofs` | `LifeTypes`, `OneThingAtATime` | `TypeOK`, `OneAtATime` | |
| | `RemovedEmulatorsStayOut` | `RemovedStaysOut` | `Patient`; window `audiolist` is closed |
| | `OwnEmulatorFound`, `RunningGuisServed` | `OwnEmulator`, `RunningIsServed` | `Patient`; windows `audiolist` and `mixflags` are closed |
| `ActiveSenseProofs` | `SenseTypes`, `LiveGuiKept` | `TypeOK`, `LiveKept` | for the second, `RateFits`, `InTime` |
| `MidiDevicesProofs` | `DeviceTypes`, `HandlesAgree` | `TypeOK`, `HandlesMatch` | |
| | `AllConnectionsServed`, `NotesHandledOnce` | `ConnectionsServed`, `NotesOnce` | |
| | `EndsOnlyUnused` | `ExitsUnused` | |
| `MidiLibraryProofs` | `ForwardTypesHold`, `TakenIsSent` | `TypeOK`, `SentAsTaken` of `MidiForward` | |
| | `ParserTypesHold` | `ParserTypeOK` | |
| | `ParsedIsSentHolds`, `StaysUpHolds` | `ParsedIsSent`, `StaysUp` | |
| `ArpeggiatorProofs` | `ArpeggiatorTypes`, `TableIsTheKeys`, `WalksStayInTable` | `TypeOK`, `KeysListed`, `WalksInTable` | |

Each has the same plan: `Init => IInv`; `IInv /\ [Next]_vars => IInv'` with a step or a
lemma per action; what `IInv` implies; then PTL. The invariants are where the
arguments are.

*VoiceEngine.* `VoicesPartitioned` is not inductive: unlinking removes one element of a
list, which is only what the code does if the cursor stands on that list. `ListInv`
adds the types and `CursorOK`: in each phase the cursor is on the list the loop walks,
the walk of emulators stays inside the audiolist, and an exit that waits knows whom it
waits for. `OwnersInv` says that whatever refers to an emulator refers to one that is
linked, while the engine goes on, and that one whose exit waits keeps `BRISTOL_REMOVE` until
it is unlinked, if the store was not lost; so the `Baudio` that is freed has no voice. The
theorem says nothing of a lost store (section 5). With `SlowAudio` the wait
runs out and the voice may stay.

`JackInv` is for the single callback without expiring emulators: operations take turns
(`JackTurns`), every voice in use has an owner (`InUse`), and `PeriodInv` is the loop
invariant of `doAudioOps`: of the voices behind the cursor, at most `cvoices` and at most
`voicecount` of each emulator sound, and all that were triggered have been restarted or
keyed off; `ScanInv` is that of `allNotesOff`. `NoteInv` accounts for each sounding
voice: its key is down, or it is sustained and the pedal is not at 0, or the note off that will end it is
on its way and its cursor has not passed the voice. Both assumptions are needed. With
an emulator that expires, the orphan ends the loop early (section 5), and TLC finds
`TriggersSeen` violated in one thread too; and if two emulators hear different channels, the
voice stolen from one for the other keeps its `baudio` (`midinote.c:852`), so that it sounds
for an emulator whose keys are all up. The run has one channel for that reason.

*NoteRing.* `RingTypes` holds whatever the resets do. Without races, `CountsOK` says that
the room that a thread has checked is still there when it copies, because the other
thread's pointer store can only enlarge it, and that `new_ptr` ends up the whole count
ahead although it was computed in two parts. `CopiesOK` adds that whole messages lie
between the pointers, what the writer has put down as far as it has got, and that what
the reader has taken still lies at the read pointer. Under `FifoInv`, all of these,
`WriteStore` is `Put` of the abstract queue, a refused `Offer` is `Refuse` and the queue is
full, `ReadStore` is `Get` and the message is the head; `Hello` and the last exit leave or
enter the state in which the queue may be forgotten, `Go` and `EmptyPeriod` forget it, and
every other step is a stutter (`MidiImplements`, `AudioImplements`, `InitImplements`). The
lemmas remove the mask: an offset below `Size` is left alone, one below `2 * Size` loses
`Size`, so that both spaces add up to `Size - 1`. `Size` need not be a power of two;
reading the code's `& size_mask` as `% Size` does, and `Rounded` models how the code makes
it one.

*MonoNotes.* `OneVoiceSounds` needs nothing but `Period`, at whatever pace the notes come. The others
rest on `SteadyHolds`, for notes two periods apart: `NewInv` (at most one new voice, of this
period), `TableInv` (the table has the keys that are held, and the counts know by the next
note that a voice runs), `TriggerInv`, `HeldInv` (the first voice has the preferred key and the
others are keyed off) and `OwnKeyInv` (without a preference a voice is that of its last key).

*SynthLifecycle.* `TurnInv` is about the handshake and holds in every setup in which no GUI
sends its channel request again (`Patient`): what may lie in
a GUI's inbox in each of its states, whom the MIDI thread is busy with, that the first
hello comes before everything else, and that each GUI in the handshake is owed something.
`WaitInv` does for every setup: `QueueInv` counts what is under way, which is at most one more
than before once a request was sent twice, whatever answer is taken for which request; the
types and `OneThingAtATime` need no more.
`WholeInv` holds when neither a hook nor an `|=` is interrupted (`Whole`). `ListInv`: the linked
emulators can be numbered from the head so that `next` and `last` agree with the numbers; that
what is reached from the head is listed follows from the least emulator that is not.
`SidInv`: an emulator is made by the one hello of its GUI. `RemoveInv`: an exit that waits has
`BRISTOL_REMOVE` set or its emulator is out. Where no wait is left to a timeout, that needs
`StatusInv` and `PlayInv`: the audio thread runs as long as emulators are being removed, since
every status and request says which threads there are. `OwnInv` is about up to three GUIs.
`SidsInv` says why `bristolgetsid`, which counts up from the tail, gives none of them a sid that is
in use: a third emulator meets a list of at most two (`ShortList`, `TwoOthers`), and of two the head
does not have 0 and the tail 1, because an emulator that is made alone gets 0. With 0 before 1 the
third would be given 1 as well (`NewSidDiffers`). `ServedInv` says that nobody but its own GUI has an
emulator removed: it is held down until it is initialised, and while its GUI is there it is sensed,
by that GUI because the sid finds it, which is what is to be shown, so that the two are one
induction. `CalmInv` adds the engine to the emulator, when no GUI dies. `EndInv`: who may end the
engine, and that the others are told, so that `terminate` is set only after an exit or a failure.
`LeaveInv`: every emulator leaves by the exit of its GUI, and the one whose exit is under way is the
only one in the list that nobody needs. So the check for the last one finds another as long as a GUI
is there (`LastIsAlone`, `NotAlone`), and neither that exit nor the removal behind it ends the engine.
`RunInv`: a GUI whose start was acknowledged has an engine that plays, `Up`, and one whose
initialisation was acknowledged an emulator that plays. What could still stop the engine is then
excluded one by one (`UpKept`): the count of connections is above one when another is lost, the Jack
client was activated by the initialisation, the watchdog has seen its start request. With the
window `audiolist` open nothing is proved: TLC's run has it without deaths, where `RemovedStaysOut`
still holds, and with both windows open for two GUIs, where `OwnEmulator` does.

*ActiveSense.* Times are any natural numbers. `SenseInv` bounds the periods until the next
message is read by what the count has left: `ToSend` from the countdown, the iteration under
way and the longest iteration, `ToRead` from the exits of other GUIs still to come. `InTime`
is the arithmetic condition that makes this true of the first message, the second and the
rest; section 5 has two sets of arguments that break it, and with them the property fails.

*MidiDevices.* `TablesInv`: the first entries are the control socket's, the two tables are in use
at the same indices, the thread that opens the Jack device found the same index in both,
and a connected GUI has one device with its flags and mask. `KeyboardInv`: no other handle
ever takes notes. `CountInv`: open connections are at most the count, because there is a
handle for each.

*MidiForward.* `RingInv`: for each GUI there is a function that counts, slot by slot from the
read to the write pointer, the messages for it, from those sent to those taken, and each slot
holds the next one. It takes the place of the recursive filter that the definition of "the
messages for `g` in the ring" would be.

*MidiParser.* `ParserTypesHold` holds whatever fails; it rests on `ParserResult`: the parser takes
no more bytes than it is given, so that `bufcount` never goes below zero, and a message it
returns is made of bytes. For `ParsedIsSent`, the bytes in the buffer, on the wire and still
to be written are one line (`InLine`). `Labels` gives each of them a cell `[n, m, j]`: it is the
`j`th byte of message `m`, and `n` messages of ours were sent before. Cells follow each other as
the bytes of a message do, with a status byte that may be left out and an `Eos` at the end of
system data, and the first cell agrees with `last` and with the number of messages
dispatched. Then a read moves bytes along the line and changes no label (`LabelsKept`,
`LineRead`), `Start` appends the labels of one message (`LabelsAppended`), and `Parse` drops some
from the front, and with the last byte of a message of ours dispatches that message
(`StepOnLine`, `LabelsDropped`, `LineParsed`). `StaysUp` is `WaitsWithRoom`: where the parser wants more,
the front of the line is part of one message, so that the buffer has room and a byte is to
come, on the wire or in a writer. That the buffer agrees with the line needs a burst not to
run past the free part, and there the proof found the first version of `KeepsUp` too
weak: what one read may take is what lies before the end of the buffer, not what is
free (`midiTCPDevMan.c:239`). With `BufSize = 8`, 5 or 6 bytes of an 8 byte message that wait and 4
more to come are a burst over bytes not yet parsed; TLC had no message that long.

*Arpeggiator.* `ArpeggiatorTypes` has no counter past the end of its array, but has -1, where a
walk down an empty table leaves it. `WalksStayInTable` is about the walks: from any such counter
a walk over a table that has entries ends on one (`WalkedWithin`, `CounterInv`). `ArpInv`: two entries behind the voices never have a key, so that the loops that
look for the end find it (`EndInv`); `a.max` is the length of the list, and each loop that shifts
the array is what it does to the list.

Induction over data is out of the prover's reach, and so is what a recursive function
computes for every argument. The proofs go round it where they can: facts about the first
entry, the least key or the first emulator off the list come from a least element of a
set of numbers (`FirstPlace`, `MinProperties`, `Least`, `LowestKey`), for which the library
has a theorem that takes no operator, and `Walk` and `GetSid` are unfolded by the one step
that is needed.

Only model-checked:

* Liveness under fairness: `EventuallySilent`, `OrphansReclaimed`, `WaitingIsHandled`, `DrainEnds`, the
  four of `life_liveness`, `DeadNoticed`, `EndsWhenAllDie`, `AllTakenSent`, `SaveReachesAll`,
  `EachPlayed`.
* The properties outside the conditions of the last column.

## 5. Finding and limits

*A hello resets the ring under the reader* (`bristolsystem.c:162`):
`jack_ringbuffer_go` is called by the MIDI thread and stores the read pointer
of the audio thread. Between the check and the read it makes the audio
thread handle a message nobody sent; during the read it brings old messages back.
Run `ring_hello`.

Limits met while modelling. Each is what the models show outside the condition of a
property, or what reading the code for a definition brought up; none is asserted by
a run, except through the conditions that leave it out.

Voices:

* All notes off on one channel calls `doMNL` for every voice of the playlist, outside
  the channel test (`midinote.c:1060`), and so strips the sustain marks of other
  channels: a voice the pedal held there sounds on. The run has one channel.
* The steal path sets the key but not `baudio` and `locals` (`midinote.c:852`): a voice
  stolen for another emulator stays with the old one.
* The period that reclaims an orphan stops there (`audioEngine.c:370`):
  `bristolUnlinkVoice` has cleared `next`, so that voices behind it are not run and lose
  their trigger.
* A pedal at 1 to 63 is neither: note offs no longer sustain (`midinote.c:365`), and what is
  sustained sounds on until a 0 comes (`midihandlers.c:286`), if one comes.
* The audio thread undoes the request to remove an emulator (`audioEngine.c:201`, and
  `411` for the first voice of a period): it sets and clears bits of `mixflags` by reading and
  writing, and `BRISTOL_REMOVE`, stored by the exit in between (`bristolsystem.c:286`), is lost.
  The wait of the exit finds the flag clear and frees a `Baudio` that is still linked and that
  voices refer to, which the comment at `audioEngine.c:181-183` says is made sure of. In
  the model the voice of a note refers to a freed `Baudio` after fourteen states: the note, a
  period that starts it, the exit. `NoFreedOwner` is about the behaviours without a lost
  store (`torn`).
* After the last emulator has gone under `BRISTOL_MIDI_WAIT` voices go on referring to it
  (`audioEngine.c:169`), which nothing follows as the process ends.
* With two threads, a pedal lifted between the look at it and the mark leaves a voice
  marked for good, and a scan that stands on a voice being relinked misses the rest.
  `NoStuckNote` and `SilentAfterNotesOff` are checked in one thread.
* Mono: a note off in the period of its note on does not reach `notemap`
  (`midinote.c:399`), and a later note sounds on without a key; all notes off and one more
  note leave a mono emulator two voices for good (`midinote.c:691`), of which one sounds;
  a preference sent under the pedal keeps the note (`audioEngine.c:389`); the only key
  released under the pedal is retuned to low or high of an empty table
  (`midinote.c:137`).

Life cycle (`SynthLifecycle`):

| if | then |
|---|---|
| four GUIs, the first leaves | `OwnEmulator`, `RunningIsServed`: the fourth is told the sid of the second, as the gap is only found while sids grow from the tail (`bristolsystem.c:46`) |
| a GUI dies in its handshake | its emulator is never sensed (`activesense.c:65`): `EngineEnds`; MIDI stays held back (`bristolsystem.c:102`): `MidiComesBack` |
| a running GUI dies, ALSA | the audio thread is joined but not told to stop (`audioEngine.c:175`): `EngineEnds`, `MidiComesBack` |
| any GUI dies | a hello while the engine goes is acknowledged and never initialised (`bristolsystem.c:240`): `RunningIsServed` |
| a GUI dies leaving, after `BRISTOL_NRP_MIDI_GO` 0 and before its exit (`brightonRoutines.c:111`) | MIDI stays held back until another GUI starts or leaves: `MidiComesBack` |
| answers take five seconds | two channel requests, two answers (`brightonRoutines.c:937`): the second is taken for that of the start request, and the GUI runs before its `BRISTOL_INIT_ALGO` is read; `RunningIsServed` is stated of it from then on |
| window `mixflags` | `BRISTOL_REMOVE` is lost and a linked emulator freed (`audioEngine.c:201`): `RunningIsServed`, `RemovedStaysOut`, `HandshakeEnds`, `MidiComesBack`, `EngineEnds` |
| window `audiolist` and a death | a removed emulator is linked again (`bristolsystem.c:156`): `RemovedStaysOut`, `EngineEnds` |
| window `watchdog` | a start request waits for ever (`bristolsystem.c:184`): `HandshakeEnds`, `FailureEnds` |
| two GUIs | the exit or start of one lets MIDI go in the handshake of the other (`bristolsystem.c:361`); that MIDI is held back throughout is not stated |

Active sensing: with `-activesense 50` the exit of another GUI, which blocks the MIDI
thread for 200 ms, is longer than the timeout of 150 ms; from 131082 Hz on, the count
for the first message overflows (`activesense.c:41`). `LiveKept` fails in both.

Devices: a connection lost leaves its handle (`midiMsgMan.c:144`), after which indices of
handles and devices differ and `checkcallbacks` (`midiALSADevMan.c:159`) looks at the
wrong device: the GUI after next is not heard. With Jack MIDI every GUI's handle is
called for every note (`midithread.c:356`). A raw keyboard that is unplugged is counted
as a GUI (`midiMsgMan.c:104`), and so is a connection refused for want of a handle
(`inetServer.c:175`): the engine ends under a GUI that plays. A close by the engine is not
counted, so an engine may stay; it also unlinks the name of a unix control socket
(`interface.c:346`), and nobody can connect any more. Two threads that open devices
may take the same entry (`interface.c:147`).

Forwarding: keyboard and main thread both write into the ring (`midithread.c:157`), and
if they meet a message is lost; a session request is forgotten before it is sent and
reaches nobody if MIDI is held back (`bristol.c:860`).

Parser: a system byte, timing clock among them, ends running status, and notes behind
it are lost (`midiParse.c:367`); two threads write to one socket in pieces
(`interface.c:597`); a read that fails raises `bufcount` (`midiALSADevMan.c:379`); a burst may
overrun a message that straddles the end (`midiTCPDevMan.c:239`); a message longer than
the buffer of 64 never completes and ends the GUI, or the engine closes the connection
(`midiParse.c:576`, `midiALSADevMan.c:380`); a GUI spins on a
closed socket, as a read of 0 bytes counts as one (`midiTCPDevMan.c:242`).

Arpeggiator: the random direction with an empty table, or a sequence of no steps,
divides by zero (`arpeggiator.c:600`). Switched off with keys held and on again, the keys
are forgotten and their number is not (`arpeggiator.c:84`): gaps are played until the next
release. A release under the pedal, of a voice that is still new or of a key whose
voice was stolen is never told (`midinote.c:386`), and the key stays in the table. A
sequence that restarts downwards begins with a step that was not learnt
(`arpeggiator.c:512`). A walk down, or up and down, over an empty table leaves the counter at
-1, and `arpeggiator.c:695` and `707` read `notes[-1]` then if a voice still sounds: out of bounds,
in the layout of `arpSeq` a field before the array. `WalksInTable` is stated for tables that have
entries.

## 6. Not modelled

Most of the repository is panels (`brighton/brighton*.c`: positions, images, control to
message tables) and operators and emulators of sound (`bristol/*.c`: filters,
oscillators, effects): data and arithmetic on samples without shared control state.
That is why the map, which names the control of the engine and of the protocol,
covers a small share of the lines.

* Audio interfaces: when a device opens, does not open, runs and stops is in
  `SynthLifecycle`, one that fails while it plays only as far as the default build restarts it; its samples and formats are device I/O.
* The LV2 wrapper calls the same engine from one thread.
* Pitch wheel, pressure, program change and (N)RPN tables scale numbers. Key ranges and
  transpose are a filter in front of the note handlers and are left out of `Hears`.
* Of the arpeggiator: chords, `BRISTOL_ARPEG_POLY_2`, rates and clock, retuning, glide
  and retriggering of voices, and the voices it ends when switched off.
* Of the life cycle: dual manual GUIs, the operators and tables a hello allocates, the
  parameters a running GUI sends.
* Of the MIDI library: the tables of a GUI process, conversion of ALSA sequencer and Jack
  events, the debug output.
* Semaphore builds (`BRISTOL_SEMAPHORE`) are not the default.

## 7. State of the proofs

All modules of section 2 are written, run and proved about. Every invariant and every action
property of the passing runs has a theorem, and so has the refinement of `NoteQueue`. Left to TLC
alone are the liveness properties listed in section 4, `HandledOnceInOrder`, which
fails, and whatever lies outside the conditions of a theorem.
