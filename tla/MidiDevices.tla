---------------------------- MODULE MidiDevices ----------------------------
(***************************************************************************)
(* The devices and handles of the engine's MIDI library: connections are   *)
(* accepted, closed and lost, a keyboard is attached, and checkcallbacks   *)
(* finds the handles a message goes to.  A device is a file descriptor, a  *)
(* handle a registration for its messages; both are the first free entry   *)
(* of a table.  What the requests of a GUI do is in SynthLifecycle.        *)
(***************************************************************************)
EXTENDS Integers, FiniteSets, FiniteSetsExt

CONSTANTS Guis,        \* the connections GUIs ever make
          Nil,         \* nobody
          NumDevs,     \* BRISTOL_MIDI_DEVCOUNT, which BRISTOL_MIDI_HANDLES equals
          Setups       \* how the engine is started, and what goes wrong

Keyboard == "keyboard"
Listener == "listener"

ASSUME TablesAssumption == NumDevs \in Nat \ {0, 1}
ASSUME SetupAssumption ==
    Setups \subseteq [guis : SUBSET Guis, link : {"seq", "raw", "jack"}, wait : BOOLEAN,
                     unix : BOOLEAN, crashes : BOOLEAN, window : BOOLEAN]
ASSUME NamesAssumption ==
    IsFiniteSet(Guis) /\ Keyboard \notin Guis /\ Listener \notin Guis
        /\ Nil \notin Guis \cup {Keyboard, Listener}

VARIABLES setup,   \* one of Setups, never changed
          dev,     \* bmidi.dev: state, whether fd is open, flags, who is at the other end
          handle,  \* bmidi.handle: state, dev, what it is registered for
          opens,   \* the connections midiCheck has counted
          gui,     \* each GUI: "off", "pending", "open", "lost", or how it ended:
                   \* "refused", "left" by an exit request, or "dead"
          emus,    \* the GUIs that have an emulator
          bound,   \* the control socket can be connected to
          jack,    \* the main thread, opening the Jack device: where, handle, dev
          exited

vars == <<setup, dev, handle, opens, gui, emus, bound, jack, exited>>

Link == setup.link        \* where notes come from: an ALSA "seq" or "raw" device, or "jack"
Wait == setup.wait        \* BRISTOL_MIDI_WAIT: end with the last connection
Unix == setup.unix        \* the control socket is a named one
Crashes == setup.crashes  \* GUIs may die
Window == setup.window    \* the two threads that open devices may switch in between

Devs == 0 .. NumDevs - 1
Handles == 0 .. NumDevs - 1
NoDev == -1
DevFlags == {"ACCEPT", "TCP", "FORWARD", "JACK"}
Masks == {"none", "sysex", "notes", "all"}

(***************************************************************************)
(* bristolFreeDevice sets flags to -1, which has every bit.                *)
(***************************************************************************)
FreedDevice == [ok |-> FALSE, open |-> FALSE, flags |-> DevFlags, peer |-> Nil]
FreedHandle == [ok |-> FALSE, dev |-> NoDev, mask |-> "none"]

FreeDevs == {d \in Devs : ~dev[d].ok}
FreeHandles == {h \in Handles : ~handle[h].ok}

\* Mutant of FindDev: the last free entry.
FindDevLast == Max(FreeDevs)
FindDev == Min(FreeDevs)
FindFreeHandle == Min(FreeHandles)

\* The control socket wants all messages if no ALSA device is opened besides.
ControlMask == IF Link = "jack" THEN "all" ELSE "sysex"

Init ==
    /\ setup \in Setups
    /\ dev = [d \in Devs |->
                IF d = 0 THEN [ok |-> TRUE, open |-> TRUE, flags |-> {"ACCEPT", "TCP"},
                               peer |-> Listener]
                ELSE IF d = 1 /\ Link # "jack"
                     THEN [ok |-> TRUE, open |-> TRUE, flags |-> {}, peer |-> Keyboard]
                ELSE FreedDevice]
    /\ handle = [h \in Handles |->
                   IF h = 0 THEN [ok |-> TRUE, dev |-> 0, mask |-> ControlMask]
                   ELSE IF h = 1 /\ Link # "jack" THEN [ok |-> TRUE, dev |-> 1, mask |-> "notes"]
                   ELSE FreedHandle]
    /\ opens = 0
    /\ gui = [g \in Guis |-> "off"]
    /\ emus = {}
    /\ bound = TRUE
    /\ jack = [pc |-> "idle", handle |-> 0, dev |-> 0]
    /\ exited = FALSE

(***************************************************************************)
(* checkcallbacks: the handles a message from device d reaches.  Note that *)
(* JACK is looked for in the device whose index is that of the handle.     *)
(***************************************************************************)
Considered == {h \in Handles : /\ handle[h].ok /\ handle[h].dev # NoDev
                               /\ "ACCEPT" \notin dev[handle[h].dev].flags
                               /\ "JACK" \notin dev[h].flags}

Registered(h, kind) == handle[h].mask \in {"all", kind}

\* A request is for the first handle of the device it comes from.
SysexTo(d) == LET handles == {h \in Considered : Registered(h, "sysex") /\ handle[h].dev = d}
              IN IF handles = {} THEN {} ELSE {Min(handles)}

\* Mutant of NotesTo: handles registered for anything get the notes.
NotesToAny(d) == Considered
NotesTo(d) == {h \in Considered : Registered(h, "notes")}

\* The handles for which a message from the keyboard is sent on to device d.
ForwardedTo(d) == {h \in Considered : handle[h].dev = d /\ dev[d].open
                                      /\ {"TCP", "FORWARD"} \subseteq dev[d].flags}

(***************************************************************************)
(* A GUI.                                                                  *)
(***************************************************************************)
DevsOf(g) == {d \in Devs : dev[d].peer = g}

\* The handles that a request of a GUI reaches.
Serving(g) == UNION {SysexTo(d) : d \in DevsOf(g)}

Served(g) == gui[g] = "open" /\ Serving(g) # {} /\ ~exited

Connect(g) ==
    /\ g \in setup.guis /\ gui[g] = "off" /\ bound /\ ~exited
    /\ gui' = [gui EXCEPT ![g] = "pending"]
    /\ UNCHANGED <<setup, dev, handle, opens, emus, bound, jack, exited>>

Crash(g) ==
    /\ Crashes /\ gui[g] = "open" /\ ~exited
    /\ gui' = [gui EXCEPT ![g] = "lost"]
    /\ UNCHANGED <<setup, dev, handle, opens, emus, bound, jack, exited>>

(***************************************************************************)
(* The MIDI thread.                                                        *)
(***************************************************************************)
\* Mutant of Counted: a connection is not counted.
CountedNot(n) == n
Counted(n) == n + 1

acceptConnection(g) ==
    /\ gui[g] = "pending" /\ ~exited
    /\ IF FreeDevs = {}
       THEN /\ gui' = [gui EXCEPT ![g] = "refused"]  \* accepted and closed
            /\ UNCHANGED <<dev, handle, opens>>
       ELSE LET d == FindDev IN
            /\ gui' = [gui EXCEPT ![g] = "open"]
            /\ dev' = [dev EXCEPT ![d] = [ok |-> TRUE, open |-> TRUE, flags |-> {"TCP"},
                                          peer |-> g]]
            /\ IF FreeHandles = {}
               THEN UNCHANGED <<handle, opens>>
               ELSE /\ handle' = [handle EXCEPT ![FindFreeHandle] =
                                    [ok |-> TRUE, dev |-> d, mask |-> handle[0].mask]]
                    /\ opens' = Counted(opens)
    /\ UNCHANGED <<setup, emus, bound, jack, exited>>

Hello(g) ==
    /\ Served(g) /\ g \notin emus
    /\ emus' = emus \cup {g}
    /\ UNCHANGED <<setup, dev, handle, opens, gui, bound, jack, exited>>

\* BRISTOL_REQ_FORWARD.
ReqForward(g) ==
    /\ Served(g) /\ g \in emus
    /\ \E h \in Serving(g), value \in {{}, {"FORWARD"}} :
        dev' = [dev EXCEPT ![handle[h].dev].flags = (@ \ {"FORWARD"}) \cup value]
    /\ UNCHANGED <<setup, handle, opens, gui, emus, bound, jack, exited>>

\* Mutant of Closed: the handle is freed first, and names no device then.
ClosedHandle(h) == dev' = dev
Closed(h) == dev' = [dev EXCEPT ![handle[h].dev] = FreedDevice]

\* Mutant of LastEmulator: any emulator.
LastEmulatorAny(g) == Wait
LastEmulator(g) == Wait /\ emus = {g}

\* BRISTOL_EXIT_ALGO: the last emulator ends the process, another has its
\* connection closed.  bristolMidiClose unlinks the name of the control socket.
ExitAlgo(g) ==
    /\ Served(g) /\ g \in emus
    /\ emus' = emus \ {g}
    /\ gui' = [gui EXCEPT ![g] = "left"]
    /\ \E h \in Serving(g) :
        \/ /\ LastEmulator(g)
           /\ exited' = TRUE
           /\ UNCHANGED <<dev, handle, bound>>
        \/ /\ ~LastEmulator(g)
           /\ Closed(h)
           /\ handle' = [handle EXCEPT ![h] = FreedHandle]
           /\ bound' = (bound /\ ~Unix)
           /\ exited' = FALSE
    /\ UNCHANGED <<setup, opens, jack>>

\* A read fails: the device is given up, with its flags and its handle.
Loses(d) ==
    /\ dev' = [dev EXCEPT ![d].ok = FALSE, ![d].open = FALSE, ![d].peer = Nil]
    /\ opens' = opens - 1
    /\ exited' = (opens = 1 /\ Wait)

LostConnection(g) ==
    /\ gui[g] = "lost" /\ ~exited
    /\ \E d \in DevsOf(g) : Loses(d)
    /\ gui' = [gui EXCEPT ![g] = "dead"]
    /\ UNCHANGED <<setup, handle, emus, bound, jack>>

\* The keyboard is unplugged: an ALSA sequencer port does not notice.
Unplugged ==
    /\ Link = "raw" /\ dev[1].peer = Keyboard /\ ~exited
    /\ Loses(1)
    /\ UNCHANGED <<setup, handle, gui, emus, bound, jack>>

\* Active sensing removes the emulator of a GUI that died.
Sensed(g) ==
    /\ g \in emus /\ gui[g] \in {"lost", "dead"} /\ ~exited
    /\ emus' = emus \ {g}
    /\ UNCHANGED <<setup, dev, handle, opens, gui, bound, jack, exited>>

(***************************************************************************)
(* The main thread opens the Jack device when the audio thread, started    *)
(* for the first emulator, runs.                                           *)
(***************************************************************************)
JackFindsHandle ==
    /\ Link = "jack" /\ jack.pc = "idle" /\ emus # {} /\ ~exited
    /\ jack' = IF FreeHandles = {} THEN [jack EXCEPT !.pc = "failed"]
               ELSE [jack EXCEPT !.pc = "handle", !.handle = FindFreeHandle]
    /\ UNCHANGED <<setup, dev, handle, opens, gui, emus, bound, exited>>

\* It takes the handle it has found, and finds a device.
JackFindsDev ==
    /\ jack.pc = "handle" /\ ~exited
    /\ handle' = [handle EXCEPT ![jack.handle] = [ok |-> TRUE, dev |-> NoDev, mask |-> "none"]]
    /\ jack' = IF FreeDevs = {} THEN [jack EXCEPT !.pc = "failed"]
               ELSE [jack EXCEPT !.pc = "dev", !.dev = FindDev]
    /\ UNCHANGED <<setup, dev, opens, gui, emus, bound, exited>>

JackOpens ==
    /\ jack.pc = "dev" /\ ~exited
    /\ dev' = [dev EXCEPT ![jack.dev] = [ok |-> TRUE, open |-> FALSE, flags |-> {"JACK"},
                                         peer |-> Keyboard]]
    /\ handle' = [handle EXCEPT ![jack.handle].dev = jack.dev, ![jack.handle].mask = "notes"]
    /\ jack' = [jack EXCEPT !.pc = "done"]
    /\ UNCHANGED <<setup, opens, gui, emus, bound, exited>>

OfGui(g) == \/ acceptConnection(g) \/ LostConnection(g)
            \/ Hello(g) \/ ReqForward(g) \/ ExitAlgo(g)

\* The MIDI thread runs between two steps of an open if Window says so.
MidiThread == /\ Window \/ jack.pc \notin {"handle", "dev"}
              /\ \/ \E g \in Guis : OfGui(g)
                 \/ Unplugged

JackThread == JackFindsHandle \/ JackFindsDev \/ JackOpens

Next == \/ \E g \in Guis : Connect(g) \/ Crash(g) \/ Sensed(g)
        \/ MidiThread \/ JackThread

Spec == Init /\ [][Next]_vars

\* The MIDI thread notices every lost connection and takes every new one.
FairSpec == Spec /\ \A g \in Guis : WF_vars(acceptConnection(g)) /\ WF_vars(LostConnection(g))

(***************************************************************************)
(* Properties.                                                             *)
(***************************************************************************)
\* Every variable keeps its type.
TypeOK ==
    /\ dev \in [Devs -> [ok : BOOLEAN, open : BOOLEAN, flags : SUBSET DevFlags,
                         peer : Guis \cup {Nil, Keyboard, Listener}]]
    /\ handle \in [Handles -> [ok : BOOLEAN, dev : Devs \cup {NoDev}, mask : Masks]]
    /\ opens \in Int
    /\ gui \in [Guis -> {"off", "pending", "open", "lost", "refused", "left", "dead"}]
    /\ emus \subseteq Guis
    /\ jack \in [pc : {"idle", "handle", "dev", "done", "failed"}, handle : Handles, dev : Devs]
    /\ {bound, exited} \subseteq BOOLEAN

(***************************************************************************)
(* What may go wrong is part of the setup, and each property says what it  *)
(* takes.  A read that fails gives a device up and leaves its handle.      *)
(***************************************************************************)
NothingLost == ~Crashes /\ Link # "raw"
Alone == NothingLost /\ ~Window

\* Besides those of the control socket and the keyboard, one for every GUI.
HandlesSuffice == ~Crashes \/ Cardinality(setup.guis) + 2 <= NumDevs

\* A connection is served both ways: a request of the GUI reaches one handle and
\* is handled once, an event is sent on to it once if it asked for events and
\* not otherwise (checkcallbacks).
ConnectionsServed ==
    Alone => \A g \in Guis : gui[g] = "open" =>
        /\ Cardinality(Serving(g)) = 1
        /\ \A d \in DevsOf(g) :
              Cardinality(ForwardedTo(d)) = IF "FORWARD" \in dev[d].flags THEN 1 ELSE 0

\* A note from the keyboard is handled once, however many GUIs are connected,
\* were lost or have left (checkcallbacks, acceptConnection).
NotesOnce ==
    Link # "jack" =>
        \A d \in Devs : (dev[d].peer = Keyboard /\ emus # {}) => Cardinality(NotesTo(d)) = 1

\* A handle that is in use and the device of its index belong together: nothing
\* leaks, and the mix-up of indexes in checkcallbacks does no harm.
HandlesMatch ==
    Alone => \A h \in Handles :
        \/ jack.pc = "dev" /\ h = jack.handle
        \/ /\ handle[h].ok = dev[h].ok
           /\ handle[h].dev = IF handle[h].ok THEN h ELSE NoDev

\* The process does not end under a GUI that has an emulator, whatever
\* connections are refused, closed or lost (midiCheck).
ExitsUnused ==
    Link # "raw" /\ HandlesSuffice /\ exited => \A g \in emus : gui[g] # "open"

\* An engine that waits for its GUIs ends when the connections of all of them
\* were lost, even if emulators of them are left (midiCheck).
EndsWhenAllDie ==
    Wait /\ Link # "raw" /\ HandlesSuffice =>
        ((\A g \in setup.guis : gui[g] = "dead") ~> exited)

(***************************************************************************)
(* What the invariants above rest on.                                      *)
(***************************************************************************)
\* The control socket keeps the first entries, and the Jack device gets others.
FirstEntries ==
    /\ setup \in Setups
    /\ handle[0] = [ok |-> TRUE, dev |-> 0, mask |-> ControlMask]
    /\ dev[0] = [ok |-> TRUE, open |-> TRUE, flags |-> {"ACCEPT", "TCP"}, peer |-> Listener]
    /\ Link # "jack" => jack.pc = "idle"
    /\ jack.pc \in {"handle", "dev"} => jack.handle # 0
    /\ jack.pc = "dev" => jack.dev # 0

\* A thread that opens a device alone finds the same entry in both tables.
OpensInBoth ==
    Alone =>
        /\ jack.pc = "handle" => jack.handle \in FreeHandles /\ jack.handle = FindFreeHandle
        /\ jack.pc = "dev" => /\ jack.dev = jack.handle /\ ~dev[jack.dev].ok
                              /\ handle[jack.handle] = [ok |-> TRUE, dev |-> NoDev, mask |-> "none"]

\* A GUI has its device from accept to close, and requests come from no other.
Connected(g) ==
    \E d \in Devs :
        /\ DevsOf(g) = {d} /\ dev[d].ok /\ dev[d].open
        /\ "TCP" \in dev[d].flags /\ dev[d].flags \subseteq {"TCP", "FORWARD"}
        /\ handle[d].mask = ControlMask

PeersKnown ==
    \A g \in Guis :
        /\ gui[g] \in {"off", "pending"} => DevsOf(g) = {}
        /\ ~Crashes => gui[g] \notin {"lost", "dead"}
        /\ Alone /\ gui[g] = "open" => Connected(g)

TablesInv == TypeOK /\ FirstEntries /\ HandlesMatch /\ OpensInBoth /\ PeersKnown

\* Only the handle of the keyboard is for notes, and it stays.
KeyboardInv ==
    Link # "jack" =>
        /\ handle[1] = [ok |-> TRUE, dev |-> 1, mask |-> "notes"]
        /\ \A h \in Handles \ {1} : handle[h].mask \in {"sysex", "none"}
        /\ \A d \in Devs : dev[d].peer = Keyboard => d = 1 /\ dev[1].flags = {}

UsedHandles == {h \in Handles : handle[h].ok}
Entered == {g \in Guis : gui[g] \notin {"off", "pending", "refused"}}
Attached == {g \in Guis : gui[g] \in {"open", "lost"}}

\* The count of connections covers those there are, as every GUI gets a handle.
CountInv ==
    /\ \A g \in Guis : gui[g] # "off" => g \in setup.guis
    /\ Link # "raw" /\ Crashes /\ HandlesSuffice =>
        /\ Cardinality(Attached) <= opens
        /\ Cardinality(UsedHandles) <= Cardinality(Entered) +
              (IF Link = "jack" /\ jack.pc \in {"idle", "handle"} THEN 1 ELSE 2)
=============================================================================
