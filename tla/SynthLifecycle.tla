--------------------------- MODULE SynthLifecycle ---------------------------
(***************************************************************************)
(* The life of the emulators of one engine: GUIs connect, go through the   *)
(* handshake of initConnection, run and leave; the MIDI thread answers     *)
(* their requests one at a time, the main thread spawns and reaps the      *)
(* audio thread, and the audio thread removes emulators, whose GUI asked   *)
(* for it or is no longer heard of.  A GUI says hello once, so the         *)
(* emulator it creates bears its name here; the sid it is told is the      *)
(* engine's.                                                               *)
(* Modelled elsewhere or left out: voices (VoiceEngine), the devices and   *)
(* handles behind a connection (MidiDevices), time: a timeout may fire     *)
(* when what it waits for is not about to happen.                          *)
(***************************************************************************)
EXTENDS Integers, Sequences, FiniteSets, SequencesExt

CONSTANTS Guis,     \* every GUI that is ever started
          Nil,      \* the null pointer
          Setups    \* how the engine may be started, and what may go wrong

Threaded == {"audiolist", "mixflags", "watchdog"}

ASSUME NilAssumption == IsFiniteSet(Guis) /\ Nil \notin Guis
ASSUME SetupAssumption ==
    Setups \subseteq [guis : SUBSET Guis, jack : BOOLEAN, server : BOOLEAN,
                     fails : BOOLEAN, watchdog : BOOLEAN,
                     slow : BOOLEAN, crashes : SUBSET {"handshake", "running", "leaving"},
                     windows : SUBSET Threaded]

VARIABLES setup,     \* one of Setups, never changed
          gui,       \* what each GUI is at: the request it waits for, or a state
          told,      \* the sid in the answer to its hello
          inbox,     \* requests on its connection the engine has not read
          ack,       \* the answer on its way back, or NoAck
          conn,      \* the engine's end of the connection
          emu,       \* the Baudio of each GUI: sid, mixflags, list links
          audiolist, \* head of the engine's list of emulators
          eng,       \* audiomain: status, requests and flags all threads use
          midi,      \* the MIDI thread: where it is, for which GUI
          main,      \* the main thread
          audio,     \* the audio thread, the emulator and the flags it holds
          exited     \* the process has ended

guiVars == <<gui, told>>
wire == <<inbox, ack, conn>>
list == <<emu, audiolist>>
vars == <<setup, gui, told, inbox, ack, conn, emu, audiolist, eng, midi, main, audio, exited>>

Jack == setup.jack            \* a Jack client, not on ALSA
Server == setup.server        \* without BRISTOL_MIDI_WAIT: outlives its GUIs
DeviceFails == setup.fails    \* the audio device may not open, or be slow to
Watchdog == setup.watchdog    \* the start request may come too late
Patient == ~setup.slow        \* no GUI waits five seconds for an answer
Crashes == setup.crashes      \* where a GUI may die
Windows == setup.windows      \* where threads may switch between two instructions

Handshake == <<"hello", "channel", "start", "init">>
Waiting == Range(Handshake) \cup {"again"}
Requests == Range(Handshake) \cup {"go", "stop", "exit"}
NoAck == -1
NoSid == -1
Sids == 0 .. Cardinality(Guis)

(***************************************************************************)
(* The list of emulators.  Walk[n] is what n next pointers lead to.        *)
(***************************************************************************)
Walk[n \in 0 .. Cardinality(Guis)] ==
    IF n = 0 THEN audiolist
    ELSE IF Walk[n - 1] = Nil THEN Nil ELSE emu[Walk[n - 1]].next

Linked == {Walk[n] : n \in 0 .. Cardinality(Guis) - 1} \ {Nil}

\* Mutant of NewSid: the number of emulators.
NewSidCount == Cardinality(Linked)

\* bristolgetsid, called for the n-th emulator: it counts up from the tail, past
\* the sids met in that order.
GetSid[n \in 0 .. Cardinality(Guis)] ==
    IF n = Cardinality(Guis) \/ Walk[n] = Nil THEN 0
    ELSE IF emu[Walk[n]].sid = GetSid[n + 1] THEN GetSid[n + 1] + 1
    ELSE GetSid[n + 1]
NewSid == GetSid[0]

Find(sid) ==
    LET hits == {n \in 0 .. Cardinality(Guis) - 1 : Walk[n] # Nil /\ emu[Walk[n]].sid = sid}
    IN IF hits = {} THEN Nil ELSE Walk[Min(hits)]

Live(g) == gui[g] \notin {"off", "gone"}

(***************************************************************************)
(* Who may step: an interleaving inside one of the short windows is only   *)
(* explored when Windows names it.                                         *)
(***************************************************************************)
MidiMay == ~exited /\ (audio.pc = "touch" => "mixflags" \in Windows)
AudioMay == ~exited /\ (midi.pc = "hook" => "audiolist" \in Windows)

Init ==
    /\ setup \in Setups
    /\ gui = [g \in Guis |-> "off"]
    /\ told = [g \in Guis |-> NoSid]
    /\ inbox = [g \in Guis |-> <<>>]
    /\ ack = [g \in Guis |-> NoAck]
    /\ conn = [g \in Guis |-> "none"]
    /\ emu = [g \in Guis |-> [sid |-> NoSid, flags |-> {}, next |-> Nil, last |-> Nil,
                              life |-> "none"]]
    /\ audiolist = Nil
    /\ eng = [atStatus |-> "EXIT", atReq |-> {}, exitReq |-> FALSE, terminate |-> FALSE,
              audiowait |-> FALSE, hello |-> FALSE, go |-> FALSE, opens |-> 0]
    /\ midi = [pc |-> "idle", gui |-> Nil, emu |-> Nil]
    /\ main = "loop"
    /\ audio = [pc |-> "none", emu |-> Nil, flags |-> {}]
    /\ exited = FALSE

(***************************************************************************)
(* A GUI.  initConnection sends a request and waits for its answer four    *)
(* times, the second request once again after five seconds; answers are    *)
(* not numbered, and a later one overwrites the one not yet taken (post).  *)
(* configureGlobals then lets MIDI go, and cleanupBristol holds it back,   *)
(* asks for the exit and closes without waiting.                           *)
(***************************************************************************)
Send(g, op) == inbox' = [inbox EXCEPT ![g] = Append(@, op)]

Start(g) ==
    /\ g \in setup.guis /\ gui[g] = "off" /\ ~exited
    /\ gui' = [gui EXCEPT ![g] = "hello"]
    /\ conn' = [conn EXCEPT ![g] = "pending"]
    /\ Send(g, "hello")
    /\ UNCHANGED <<setup, told, ack, list, eng, midi, main, audio, exited>>

Answered(g) ==
    LET asked == IF gui[g] = "again" THEN "channel" ELSE gui[g]
        step == CHOOSE i \in DOMAIN Handshake : Handshake[i] = asked
    IN
    /\ gui[g] \in Waiting /\ ack[g] # NoAck
    /\ told' = IF gui[g] = "hello" THEN [told EXCEPT ![g] = ack[g]] ELSE told
    /\ IF step < Len(Handshake)
       THEN gui' = [gui EXCEPT ![g] = Handshake[step + 1]] /\ Send(g, Handshake[step + 1])
       ELSE gui' = [gui EXCEPT ![g] = "running"] /\ Send(g, "go")
    /\ ack' = [ack EXCEPT ![g] = NoAck]
    /\ UNCHANGED <<setup, conn, list, eng, midi, main, audio, exited>>

\* No answer to the channel request: it is sent a second time.
Resend(g) ==
    /\ gui[g] = "channel" /\ ack[g] = NoAck /\ ~Patient /\ ~exited
    /\ gui' = [gui EXCEPT ![g] = "again"]
    /\ Send(g, "channel")
    /\ UNCHANGED <<setup, told, ack, conn, list, eng, midi, main, audio, exited>>

\* Two writes with nothing between them that anyone could see but the GUI's death,
\* which is a case of Crash.
Quit(g) ==
    /\ gui[g] = "running" /\ ~exited
    /\ gui' = [gui EXCEPT ![g] = "gone"]
    /\ inbox' = [inbox EXCEPT ![g] = @ \o <<"stop", "exit">>]
    /\ UNCHANGED <<setup, told, ack, conn, list, eng, midi, main, audio, exited>>

\* The GUI dies, or gives up an answer after five seconds: its socket closes.
Crash(g) ==
    /\ \/ gui[g] \in Waiting /\ "handshake" \in Crashes /\ UNCHANGED inbox
       \/ gui[g] = "running" /\ "running" \in Crashes /\ UNCHANGED inbox
       \/ gui[g] = "running" /\ "leaving" \in Crashes /\ Send(g, "stop")
    /\ ~exited
    /\ gui' = [gui EXCEPT ![g] = "gone"]
    /\ ack' = [ack EXCEPT ![g] = NoAck]
    /\ UNCHANGED <<setup, told, conn, list, eng, midi, main, audio, exited>>

(***************************************************************************)
(* The MIDI thread: midiCheck selects over the sockets, bristolSystem      *)
(* handles one request.                                                    *)
(***************************************************************************)
Opened(n) == n + 1

Selects == MidiMay /\ midi.pc = "idle" /\ ~eng.terminate

Accept(g) ==
    /\ Selects /\ conn[g] = "pending"
    /\ conn' = [conn EXCEPT ![g] = "open"]
    /\ eng' = [eng EXCEPT !.opens = Opened(@)]
    /\ UNCHANGED <<setup, guiVars, inbox, ack, list, midi, main, audio, exited>>

\* Nothing more to read from a socket its GUI has closed.
LostConnection(g) ==
    /\ Selects /\ conn[g] = "open" /\ gui[g] = "gone" /\ inbox[g] = <<>>
    /\ eng' = [eng EXCEPT !.opens = @ - 1]
    /\ exited' = (eng.opens = 1 /\ ~Server)
    /\ conn' = [conn EXCEPT ![g] = "down"]
    /\ UNCHANGED <<setup, guiVars, inbox, ack, list, midi, main, audio>>

\* Mutant of Reads: the request stays in the buffer.
ReadsAgain(g, op) ==
    /\ Selects /\ conn[g] = "open" /\ inbox[g] # <<>> /\ Head(inbox[g]) = op
    /\ UNCHANGED inbox

Reads(g, op) ==
    /\ Selects /\ conn[g] = "open" /\ inbox[g] # <<>> /\ Head(inbox[g]) = op
    /\ inbox' = [inbox EXCEPT ![g] = Tail(@)]

Answer(g, result) == ack' = IF gui[g] = "gone" THEN ack ELSE [ack EXCEPT ![g] = result]

To(pc, g, b) == midi' = [pc |-> pc, gui |-> g, emu |-> b]
Idle == To("idle", Nil, Nil)

\* The new emulator gets its sid and next from the list as it is now ...
Hello(g) ==
    /\ Reads(g, "hello")
    /\ emu' = [emu EXCEPT ![g] = [sid |-> NewSid, flags |-> {"HOLDDOWN", "SENSE"},
                                  next |-> audiolist, last |-> Nil, life |-> "new"]]
    /\ eng' = [eng EXCEPT !.go = FALSE, !.hello = @ \/ eng.atStatus = "EXIT"]
    /\ To("hook", g, g)
    /\ UNCHANGED <<setup, guiVars, ack, conn, audiolist, main, audio, exited>>

\* ... and is then made its head.
Hook ==
    /\ MidiMay /\ midi.pc = "hook"
    /\ emu' = IF audiolist = Nil THEN emu ELSE [emu EXCEPT ![audiolist].last = midi.emu]
    /\ audiolist' = midi.emu
    /\ IF eng.hello THEN Answer(midi.gui, emu[midi.emu].sid) ELSE ack' = ack
    /\ Idle
    /\ UNCHANGED <<setup, guiVars, inbox, conn, eng, main, audio, exited>>

Channel(g) ==
    /\ Reads(g, "channel")
    /\ IF eng.hello THEN Answer(g, 0) ELSE ack' = ack
    /\ UNCHANGED <<setup, guiVars, conn, list, eng, midi, main, audio, exited>>

\* Mutant of Requested: nobody is told.
RequestedNot(req) == req
Requested(req) == req \cup {"START"}

ReqStart(g) ==
    /\ Reads(g, "start")
    /\ IF eng.hello /\ eng.atStatus = "EXIT"
       THEN /\ eng' = [eng EXCEPT !.atReq = Requested(@)]
            /\ To("starting", g, Nil) /\ ack' = ack
       ELSE /\ IF eng.hello THEN Answer(g, 0) ELSE ack' = ack
            /\ UNCHANGED <<eng, midi>>
    /\ UNCHANGED <<setup, guiVars, conn, list, main, audio, exited>>

Started ==
    /\ MidiMay /\ midi.pc = "starting" /\ eng.atStatus = "OK"
    /\ Answer(midi.gui, 0)
    /\ Idle
    /\ UNCHANGED <<setup, guiVars, inbox, conn, list, eng, main, audio, exited>>

\* initBristolAudio makes the emulator of that sid play.
InitAlgo(g) ==
    LET b == Find(told[g])
        inits == eng.hello /\ eng.atStatus = "OK" /\ b # Nil
    IN
    /\ Reads(g, "init")
    /\ emu' = IF inits THEN [emu EXCEPT ![b].flags = @ \ {"HOLDDOWN"}, ![b].life = "ready"]
              ELSE emu
    /\ eng' = IF inits THEN [eng EXCEPT !.audiowait = FALSE] ELSE eng
    /\ IF eng.hello THEN Answer(g, 0) ELSE ack' = ack
    /\ UNCHANGED <<setup, guiVars, conn, audiolist, midi, main, audio, exited>>

\* Mutant of Resumed: MIDI stays held back.
ResumedNot(e) == e
Resumed(e) == [e EXCEPT !.go = TRUE]

\* BRISTOL_NRP_MIDI_GO is a controller: some initialised emulator must take it.
MidiGo(g) ==
    /\ Reads(g, "go")
    /\ eng' = IF \E b \in Linked : emu[b].life = "ready" THEN Resumed(eng) ELSE eng
    /\ UNCHANGED <<setup, guiVars, ack, conn, list, midi, main, audio, exited>>

\* The same controller with the value zero.
MidiStop(g) ==
    /\ Reads(g, "stop")
    /\ eng' = IF \E b \in Linked : emu[b].life = "ready" THEN [eng EXCEPT !.go = FALSE] ELSE eng
    /\ UNCHANGED <<setup, guiVars, ack, conn, list, midi, main, audio, exited>>

(***************************************************************************)
(* BRISTOL_EXIT_ALGO: mark the emulator, see whether it was the last, wait *)
(* for the audio thread, and free it or end the process.                   *)
(***************************************************************************)
ExitAlgo(g) ==
    LET b == Find(told[g]) IN
    /\ Reads(g, "exit")
    /\ IF ~eng.hello \/ b = Nil
       THEN UNCHANGED <<emu, eng, midi>>
       ELSE /\ eng' = [eng EXCEPT !.go = FALSE]
            /\ emu' = [emu EXCEPT ![b].flags = {"HOLDDOWN", "REMOVE"}]
            /\ To("marked", g, b)
    /\ UNCHANGED <<setup, guiVars, ack, conn, audiolist, main, audio, exited>>

LastOne(b) == audiolist = Nil \/ (audiolist = b /\ emu[b].next = Nil)

CheckLast ==
    /\ MidiMay /\ midi.pc = "marked"
    /\ To(IF LastOne(midi.emu) /\ ~Server THEN "emptying" ELSE "removing", midi.gui, midi.emu)
    /\ UNCHANGED <<setup, guiVars, wire, list, eng, main, audio, exited>>

\* The waits below end by themselves when the audio thread does not run, or has
\* nothing to remove.  A Jack client is activated within a second of the first BRISTOL_INIT_ALGO,
\* which is shorter than the wait of FreeEmulator only.  A device that fails while
\* it plays is started again and plays on (_BRISTOL_DRAIN).
AudioRuns == audio.pc \in {"run", "touch", "unlinked"}
AudioWillRun == AudioRuns \/ (audio.pc = "awaiting" /\ ~eng.audiowait)

FreeEmulator ==
    LET b == midi.emu IN
    /\ MidiMay /\ midi.pc = "removing"
    /\ "REMOVE" \notin emu[b].flags \/ ~AudioWillRun
    /\ emu' = [emu EXCEPT ![b].life = "freed"]
    /\ eng' = Resumed(eng)
    /\ Answer(midi.gui, 0)
    /\ conn' = [conn EXCEPT ![midi.gui] = "down"]  \* bristolMidiClose; opens stays
    /\ Idle
    /\ UNCHANGED <<setup, guiVars, inbox, audiolist, main, audio, exited>>

\* Mutant of Stopped: the stop request is added to what is there, as the start
\* request is, and the audio thread compares for equality.
StoppedToo(e) == [e EXCEPT !.go = FALSE, !.atReq = @ \cup {"STOP"}, !.exitReq = TRUE]
Stopped(e) == [e EXCEPT !.go = FALSE, !.atReq = {"STOP"}, !.exitReq = TRUE]

\* The list is empty: BRISTOL_TERM, and inthandler asks everyone to stop.
Shutdown ==
    /\ MidiMay /\ midi.pc = "emptying"
    /\ audiolist = Nil \/ ~AudioRuns \/ \E b \in Linked : "REMOVE" \notin emu[b].flags
    /\ eng' = Stopped([eng EXCEPT !.atStatus = "TERM"])
    /\ To("dying", midi.gui, midi.emu)
    /\ UNCHANGED <<setup, guiVars, wire, list, main, audio, exited>>

Terminate ==
    /\ MidiMay /\ midi.pc = "dying"
    /\ eng.atStatus = "EXIT" \/ ~AudioRuns
    /\ eng' = [eng EXCEPT !.terminate = TRUE, !.go = FALSE]
    /\ Idle
    /\ UNCHANGED <<setup, guiVars, wire, list, main, audio, exited>>

MidiEnds ==
    /\ MidiMay /\ midi.pc = "idle" /\ eng.terminate
    /\ To("ended", Nil, Nil)
    /\ UNCHANGED <<setup, guiVars, wire, list, eng, main, audio, exited>>

(***************************************************************************)
(* The main thread: spawn the audio thread on request, watch, reap.        *)
(***************************************************************************)
SpawnDue == "START" \in eng.atReq /\ eng.atStatus = "EXIT"

MainSpawns ==
    /\ ~exited /\ main = "loop" /\ ~eng.exitReq
    /\ SpawnDue
    /\ main' = "spawning"
    /\ audio' = [audio EXCEPT !.pc = "spawned"]
    /\ UNCHANGED <<setup, guiVars, wire, list, eng, midi, exited>>

\* Mutant of CancelMidi: the MIDI thread is left alone.
LeaveMidi == midi' = midi
CancelMidi == To("ended", Nil, Nil)  \* pthread_cancel

MainSeesAudio ==
    /\ ~exited /\ main = "spawning"
    /\ \/ eng.atStatus = "OK" /\ midi' = midi
       \/ eng.atStatus = "FAIL" /\ CancelMidi
    /\ main' = "loop"
    /\ UNCHANGED <<setup, guiVars, wire, list, eng, audio, exited>>

\* The main thread has seen neither for five seconds, as the device is slow or
\* the audio thread has come and gone between two looks: main returns.
MainGivesUp ==
    /\ ~exited /\ main = "spawning" /\ eng.atStatus \notin {"OK", "FAIL"}
    /\ DeviceFails \/ audio.pc \notin {"spawned", "opening", "awaiting"}
    /\ exited' = TRUE
    /\ UNCHANGED <<setup, guiVars, wire, list, eng, midi, main, audio>>

Bites == /\ eng' = [eng EXCEPT !.atStatus = "FAIL", !.terminate = TRUE, !.go = FALSE]
         /\ main' = "loop"

\* Thirty seconds without a start request: looked at here ...
MainWatches ==
    /\ ~exited /\ main = "loop" /\ ~eng.exitReq
    /\ Watchdog /\ ~Server /\ "START" \notin eng.atReq /\ eng.atStatus # "FAIL"
    /\ IF "watchdog" \in Windows THEN main' = "biting" /\ eng' = eng ELSE Bites
    /\ UNCHANGED <<setup, guiVars, wire, list, midi, audio, exited>>

\* ... and acted on here.
MainBites ==
    /\ ~exited /\ main = "biting"
    /\ Bites
    /\ UNCHANGED <<setup, guiVars, wire, list, midi, audio, exited>>

MainLeaves ==
    /\ ~exited /\ main = "loop"
    /\ eng.atStatus \in {"FAIL", "TERM"} \/ eng.exitReq
    /\ main' = "closing"
    /\ eng' = IF Jack THEN [eng EXCEPT !.atReq = {"STOP"}] ELSE eng
    /\ UNCHANGED <<setup, guiVars, wire, list, midi, audio, exited>>

\* Both threads joined: main returns.
MainJoins ==
    /\ ~exited /\ main = "closing"
    /\ audio.pc \in {"none", "ended"} /\ midi.pc = "ended"
    /\ exited' = TRUE
    /\ UNCHANGED <<setup, guiVars, wire, list, eng, midi, main, audio>>

(***************************************************************************)
(* The audio thread.                                                       *)
(***************************************************************************)
AudioBegins ==
    /\ ~exited /\ audio.pc = "spawned"
    /\ eng' = [eng EXCEPT !.atStatus = "WAIT"]
    /\ audio' = [audio EXCEPT !.pc = "opening"]
    /\ UNCHANGED <<setup, guiVars, wire, list, midi, main, exited>>

\* A Jack client first waits for an emulator, an ALSA one plays at once.
AudioOpens ==
    /\ ~exited /\ audio.pc = "opening"
    /\ eng' = [eng EXCEPT !.atStatus = "OK", !.audiowait = Jack]
    /\ audio' = [audio EXCEPT !.pc = IF Jack THEN "awaiting" ELSE "run"]
    /\ UNCHANGED <<setup, guiVars, wire, list, midi, main, exited>>

AudioFails ==
    /\ ~exited /\ audio.pc = "opening" /\ DeviceFails
    /\ IF Jack THEN exited' = TRUE /\ UNCHANGED <<eng, audio>>  \* audioThread calls _exit
       ELSE /\ eng' = [eng EXCEPT !.atStatus = "FAIL"]
            /\ audio' = [audio EXCEPT !.pc = "ended"]
            /\ exited' = FALSE
    /\ UNCHANGED <<setup, guiVars, wire, list, midi, main>>

JackActivates ==
    /\ ~exited /\ audio.pc = "awaiting" /\ ~eng.audiowait
    /\ audio' = [audio EXCEPT !.pc = "run"]
    /\ UNCHANGED <<setup, guiVars, wire, list, eng, midi, main, exited>>

\* Ten seconds, when no GUI is about to send BRISTOL_INIT_ALGO.
JackGivesUp ==
    /\ ~exited /\ audio.pc = "awaiting" /\ eng.audiowait
    /\ \A g \in Guis : gui[g] \notin {"start", "init"}
    /\ exited' = TRUE
    /\ UNCHANGED <<setup, guiVars, wire, list, eng, midi, main, audio>>

Visits(b) == AudioMay /\ audio.pc = "run" /\ b \in Linked


\* Some GUI sends active sense messages that reach this emulator, or has just
\* sent its last request: the sense period is far longer than any wait.
Sensed(b) == \E g \in Guis : /\ gui[g] \in {"init", "running"} \/ "exit" \in Range(inbox[g])
                             /\ Find(told[g]) = b

\* bristolActiveSenseCheck finds the count run out.
SenseExpires(b) ==
    /\ Visits(b) /\ ~Sensed(b)
    /\ "SENSE" \in emu[b].flags /\ emu[b].flags \cap {"HOLDDOWN", "REMOVE"} = {}
    /\ "STOP" \notin eng.atReq
    /\ emu' = [emu EXCEPT ![b].flags = @ \cup {"REMOVE"}]
    /\ UNCHANGED <<setup, guiVars, wire, audiolist, eng, midi, main, audio, exited>>

\* Its neighbours' links pass it by.
Bypassed(b) == [c \in Guis |-> IF c = emu[b].last THEN [emu[c] EXCEPT !.next = emu[b].next]
                               ELSE IF c = emu[b].next THEN [emu[c] EXCEPT !.last = emu[b].last]
                               ELSE emu[c]]

\* freeBristolAudio takes it out of the list.
Unlink(b) ==
    /\ Visits(b) /\ "REMOVE" \in emu[b].flags
    /\ emu' = [Bypassed(b) EXCEPT ![b].flags = @ \cup {"HOLDDOWN"}, ![b].life = "removed"]
    /\ audiolist' = IF emu[b].last = Nil THEN emu[b].next ELSE audiolist
    /\ audio' = [audio EXCEPT !.pc = "unlinked", !.emu = b]
    /\ UNCHANGED <<setup, guiVars, wire, eng, midi, main, exited>>

\* The rest of the removal; the MIDI thread may be waiting for the flag.
Forget ==
    /\ AudioMay /\ audio.pc = "unlinked"
    /\ eng' = IF audiolist = Nil /\ ~Server THEN [eng EXCEPT !.atStatus = "TERM"] ELSE eng
    /\ emu' = [emu EXCEPT ![audio.emu].flags = @ \ {"REMOVE"}]
    /\ audio' = [audio EXCEPT !.pc = "run", !.emu = Nil]
    /\ UNCHANGED <<setup, guiVars, wire, audiolist, midi, main, exited>>

\* mixflags |= BRISTOL_MUST_PRE, of which only the other bits matter here.
Touch(b) ==
    /\ Visits(b) /\ "mixflags" \in Windows /\ "REMOVE" \notin emu[b].flags
    /\ audio' = [pc |-> "touch", emu |-> b, flags |-> emu[b].flags]
    /\ UNCHANGED <<setup, guiVars, wire, list, eng, midi, main, exited>>

TouchBack ==
    /\ AudioMay /\ audio.pc = "touch"
    /\ emu' = [emu EXCEPT ![audio.emu].flags = audio.flags]
    /\ audio' = [pc |-> "run", emu |-> Nil, flags |-> {}]
    /\ UNCHANGED <<setup, guiVars, wire, audiolist, eng, midi, main, exited>>

\* The ALSA loop ends; under Jack audioThread calls _exit.
AudioStops ==
    /\ AudioMay /\ audio.pc = "run" /\ eng.atReq = {"STOP"}
    /\ eng' = [eng EXCEPT !.atStatus = "EXIT"]
    /\ audio' = [audio EXCEPT !.pc = "ended"]
    /\ exited' = Jack
    /\ UNCHANGED <<setup, guiVars, wire, list, midi, main>>

GuiNext(g) == Start(g) \/ Answered(g) \/ Resend(g) \/ Quit(g) \/ Crash(g)

Handles(g) == \/ Accept(g) \/ LostConnection(g)
              \/ Hello(g) \/ Channel(g) \/ ReqStart(g) \/ InitAlgo(g) \/ MidiGo(g)
              \/ MidiStop(g) \/ ExitAlgo(g)
MidiContinues == \/ Hook \/ Started \/ CheckLast \/ FreeEmulator
                 \/ Shutdown \/ Terminate \/ MidiEnds
MainNext == \/ MainSpawns \/ MainSeesAudio \/ MainLeaves \/ MainJoins
Timeouts == MainGivesUp \/ MainWatches \/ MainBites \/ JackGivesUp
AudioOpening == AudioBegins \/ AudioOpens \/ AudioFails \/ JackActivates
AudioPeriod(b) == SenseExpires(b) \/ Unlink(b)

Next == \/ \E g \in Guis : GuiNext(g) \/ Handles(g) \/ AudioPeriod(g) \/ Touch(g)
        \/ MidiContinues \/ MainNext \/ Timeouts
        \/ AudioOpening \/ Forget \/ TouchBack \/ AudioStops

Spec == Init /\ [][Next]_vars

(***************************************************************************)
(* Threads are scheduled, sockets are selected in turn, a GUI reads its    *)
(* answer, and an unsensed count runs out.  Nothing makes a GUI start,     *)
(* leave or crash.                                                         *)
(***************************************************************************)
Fairness ==
    /\ \A g \in Guis : WF_vars(Answered(g)) /\ WF_vars(Handles(g)) /\ WF_vars(AudioPeriod(g))
    /\ WF_vars(MidiContinues) /\ WF_vars(MainNext) /\ WF_vars(AudioOpening)
    /\ WF_vars(MainGivesUp) /\ WF_vars(MainBites) /\ WF_vars(JackGivesUp)
    /\ WF_vars(Forget) /\ WF_vars(TouchBack) /\ WF_vars(AudioStops)

FairSpec == Spec /\ Fairness
(***************************************************************************)
(* Properties.                                                             *)
(***************************************************************************)
Threads == {"idle", "hook", "starting", "marked", "emptying", "removing", "dying", "ended"}
Flags == SUBSET {"HOLDDOWN", "SENSE", "REMOVE"}

\* Every variable keeps its type; sids stay below the number of emulators.
TypeOK ==
    /\ setup \in Setups
    /\ gui \in [Guis -> Waiting \cup {"off", "running", "gone"}]
    /\ told \in [Guis -> Sids \cup {NoSid}]
    /\ inbox \in [Guis -> Seq(Requests)]
    /\ ack \in [Guis -> Sids \cup {NoAck}]
    /\ conn \in [Guis -> {"none", "pending", "open", "down"}]
    /\ emu \in [Guis -> [sid : Sids \cup {NoSid}, flags : Flags,
                         next : Guis \cup {Nil}, last : Guis \cup {Nil},
                         life : {"none", "new", "ready", "removed", "freed"}]]
    /\ audiolist \in Guis \cup {Nil}
    /\ eng \in [atStatus : {"EXIT", "WAIT", "OK", "FAIL", "TERM"},
                atReq : SUBSET {"START", "STOP"},
                exitReq : BOOLEAN, terminate : BOOLEAN, audiowait : BOOLEAN,
                hello : BOOLEAN, go : BOOLEAN, opens : 0 .. Cardinality(Guis)]
    /\ midi \in [pc : Threads, gui : Guis \cup {Nil}, emu : Guis \cup {Nil}]
    /\ main \in {"loop", "spawning", "biting", "closing"}
    /\ audio \in [pc : {"none", "spawned", "opening", "awaiting", "run", "unlinked", "touch",
                        "ended"}, emu : Guis \cup {Nil}, flags : Flags]
    /\ exited \in BOOLEAN

\* What is under way for a GUI: its requests not yet read, the one the MIDI thread
\* is at, the answer not yet taken.
Underway(g) == Len(inbox[g]) + (IF ack[g] = NoAck THEN 0 ELSE 1)
                             + (IF midi.gui = g THEN 1 ELSE 0)

\* A GUI in the handshake is waiting for exactly one thing.  The answers are not
\* numbered, so a second would be taken for that of the next request, which is
\* what becomes of a channel request sent twice; nothing makes it three.
OneAtATime ==
    midi.pc # "ended" =>
        \A g \in Guis : gui[g] \in Waiting =>
            Underway(g) = 1 \/ (~Patient /\ gui[g] \notin {"hello", "channel"} /\ Underway(g) = 2)

(***************************************************************************)
(* What may go wrong is part of the setup, and each property says what it  *)
(* takes: that no GUI dies, that a |= is not interrupted, that the list is *)
(* not changed by two threads at once.                                     *)
(***************************************************************************)
NobodyDies == Crashes = {}
FlagsKept == "mixflags" \notin Windows
ListKept == NobodyDies \/ "audiolist" \notin Windows

\* Nobody dies between holding MIDI back and asking for the exit.
LeavesWhole == "leaving" \notin Crashes

\* A GUI that dies after its handshake is noticed; under Jack that is enough.
DeathsNoticed == NobodyDies \/ (Jack /\ "handshake" \notin Crashes /\ ListKept)

\* The sid a GUI was told finds the emulator its own hello created, sids of
\* emulators that have left being given again (bristolgetsid).  A fourth hello
\* may be given a sid that is in use: the sids grow from the tail of the list
\* only until one is given again.
OwnEmulator ==
    Cardinality(setup.guis) <= 3 =>
        \A g \in Guis : Live(g) /\ told[g] # NoSid => Find(told[g]) = g

\* A GUI that has gone through the handshake has an emulator that plays, and an
\* engine to play it, whoever starts and leaves meanwhile (bristolSystem).  A GUI
\* that sent its channel request twice may be through before its last request is
\* read.  Of four GUIs two may be told one sid, and the exit of one removes the
\* emulator of the other.
RunningIsServed ==
    NobodyDies /\ FlagsKept /\ Cardinality(setup.guis) <= 3 =>
        \A g \in Guis : gui[g] = "running" /\ (Patient \/ "init" \notin Range(inbox[g])) =>
            /\ ~exited
            /\ emu[g].life = "ready" /\ emu[g].flags \cap {"HOLDDOWN", "REMOVE"} = {}

\* What freeBristolAudio has taken out of the list stays out, and bristolSystem
\* frees an emulator only once it is out.
RemovedStaysOut ==
    FlagsKept /\ ListKept => \A b \in Linked : emu[b].life \notin {"removed", "freed"}

\* Every handshake comes to an end, if only with that of the engine, although
\* the MIDI thread waits for the audio thread without a limit.
HandshakeEnds ==
    FlagsKept /\ "watchdog" \notin Windows =>
        \A g \in Guis : gui[g] \in Waiting ~> gui[g] \notin Waiting \/ exited

\* A device that does not open, or a start request that does not come, ends the
\* process (main).
FailureEnds ==
    "watchdog" \notin Windows => (eng.atStatus = "FAIL" ~> exited)

\* MIDI held back for an emulator is let go again for those that play.
MidiComesBack ==
    FlagsKept /\ DeathsNoticed /\ LeavesWhole =>
        \A g \in Guis : gui[g] = "running" ~> eng.go \/ gui[g] = "gone" \/ exited

\* An engine that is not a server ends when the last GUI has gone.
EngineEnds ==
    FlagsKept /\ DeathsNoticed /\ ~Server =>
        ((\A g \in setup.guis : gui[g] = "gone") ~> exited)
=============================================================================
