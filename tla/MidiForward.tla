---------------------------- MODULE MidiForward ----------------------------
(***************************************************************************)
(* The way of MIDI events back to the GUIs.  checkcallbacks goes through   *)
(* the connections and, for each that asked for events, midiMsgForwarder   *)
(* puts a copy into a second ring buffer; the main thread wakes up every   *)
(* 25 ms and sends what it finds.  It also puts messages into that ring    *)
(* itself: the requests of a session manager to save state.                *)
(*                                                                         *)
(* What one writer and one reader of a ring may do to each other is the    *)
(* subject of NoteRing; here a message is one slot, read in one step and   *)
(* written in two, so that two writers can meet.                           *)
(***************************************************************************)
EXTENDS Integers, Sequences, SequencesExt, FiniteSets

CONSTANTS Guis,      \* the connections, in the order of their handles: 1 .. n
          Slots,     \* messages that the ring has memory for
          Setups     \* what happens, and how often

ASSUME ForwardAssumption ==
    /\ Guis \subseteq Nat \ {0} /\ Slots \in Nat \ {0, 1}
    /\ Setups \subseteq [events : Nat, saves : Nat, holds : BOOLEAN, window : BOOLEAN]

VARIABLES setup,        \* one of Setups, never changed
          buf, wp, rp,  \* audiomain.rbfp: its slots and the two pointers
          writer,       \* the two writers: message, GUIs still to consider, slot found
          go,           \* BRISTOL_MIDI_GO and BRISTOL_MIDI_FORWARD
          asked,        \* GUIs whose device has BRISTOL_CONN_FORWARD
          events,       \* events so far
          request,      \* ladiRequest
          saves,        \* requests so far
          main,         \* the main thread: "reading" the ring or looking for a "request"
          taken,        \* history: what midiMsgForwarder has put into the ring for a GUI
          seen          \* history: what was sent to a GUI

ring == <<buf, wp, rp>>
vars == <<setup, buf, wp, rp, writer, go, asked, events, request, saves, main, taken, seen>>

MaxEvents == setup.events  \* bound: events from the keyboard
Saves == setup.saves       \* bound: requests of the session manager
Holds == setup.holds       \* another emulator comes and goes meanwhile
Window == setup.window     \* a writer may be interrupted by the other one

Writers == {"keyboard", "main"}
Save == 0
Messages == Save .. MaxEvents
NoSlot == -1
Idle == [msg |-> Save, todo |-> {}, slot |-> NoSlot]

Init ==
    /\ setup \in Setups
    /\ buf = [s \in 0 .. Slots - 1 |-> <<>>] /\ wp = 0 /\ rp = 0
    /\ writer = [w \in Writers |-> Idle]
    /\ go = TRUE /\ asked = {}
    /\ events = 0 /\ request = FALSE /\ saves = 0
    /\ main = "reading"
    /\ taken = [g \in Guis |-> <<>>] /\ seen = [g \in Guis |-> <<>>]

Following(p) == (p + 1) % Slots

\* Mutant of Full: the slot that tells a full ring from an empty one is used.
FullOver == FALSE
Full == Following(wp) = rp

(***************************************************************************)
(* checkcallbacks and midiMsgForwarder, in the thread that has the message.*)
(***************************************************************************)
\* The messages of the keyboard come from the MIDI thread, or from the one of Jack.
KeyboardEvent ==
    /\ events < MaxEvents /\ writer["keyboard"].todo = {}
    /\ events' = events + 1
    /\ writer' = [writer EXCEPT !["keyboard"] = [msg |-> events', todo |-> Guis, slot |-> NoSlot]]
    /\ UNCHANGED <<setup, ring, go, asked, request, saves, main, taken, seen>>

First(guis) == CHOOSE g \in guis : \A other \in guis : g <= other

Considered(w) == First(writer[w].todo)

Candidate(g) == go /\ g \in asked

\* With ~Window the other writer does not come in between.
Undisturbed(w) == Window \/ \A other \in Writers \ {w} : writer[other].slot = NoSlot

\* There is room: the copy will go where write_ptr points.
Look(w) ==
    /\ writer[w].todo # {} /\ writer[w].slot = NoSlot /\ Undisturbed(w)
    /\ Candidate(Considered(w)) /\ ~Full
    /\ writer' = [writer EXCEPT ![w].slot = wp]
    /\ UNCHANGED <<setup, ring, go, asked, events, request, saves, main, taken, seen>>

\* There is none, or the GUI gets no events: the message is not for it.
Skip(w) ==
    /\ writer[w].todo # {} /\ writer[w].slot = NoSlot
    /\ ~Candidate(Considered(w)) \/ Full
    /\ writer' = [writer EXCEPT ![w].todo = @ \ {Considered(w)}]
    /\ UNCHANGED <<setup, ring, go, asked, events, request, saves, main, taken, seen>>

Put(w) ==
    LET slot == writer[w].slot  g == Considered(w) IN
    /\ slot # NoSlot
    /\ buf' = [buf EXCEPT ![slot] = <<g, writer[w].msg>>]
    /\ wp' = Following(slot)
    /\ writer' = [writer EXCEPT ![w].slot = NoSlot, ![w].todo = @ \ {g}]
    /\ taken' = [taken EXCEPT ![g] = Append(@, writer[w].msg)]
    /\ UNCHANGED <<setup, rp, go, asked, events, request, saves, main, seen>>

(***************************************************************************)
(* The main thread.                                                        *)
(***************************************************************************)
\* Mutant of Sent: the GUI of the last message written.
SentLast(message) == buf[(wp + Slots - 1) % Slots]
Sent(message) == message

Send ==
    /\ main = "reading" /\ rp # wp
    /\ rp' = Following(rp)
    /\ LET message == Sent(buf[rp]) IN
        seen' = IF message = <<>> THEN seen  \* what malloc left there
                ELSE [seen EXCEPT ![message[1]] = Append(@, message[2])]
    /\ UNCHANGED <<setup, buf, wp, writer, go, asked, events, request, saves, main, taken>>

AllSent ==
    /\ main = "reading" /\ rp = wp
    /\ main' = "request"
    /\ UNCHANGED <<setup, ring, writer, go, asked, events, request, saves, taken, seen>>

\* Mutant of Handled: the request is taken back before it is looked at.
HandledNot == FALSE
Handled == request

midiThreadSaveReq ==
    /\ main = "request"
    /\ main' = "reading"
    /\ writer' = IF Handled THEN [writer EXCEPT !["main"] = [msg |-> Save, todo |-> Guis,
                                                             slot |-> NoSlot]]
                 ELSE writer
    /\ request' = FALSE
    /\ UNCHANGED <<setup, ring, go, asked, events, saves, taken, seen>>

\* The main thread writes before it reads again.
MainWriting == writer["main"].todo # {}

(***************************************************************************)
(* The others.                                                             *)
(***************************************************************************)
\* BRISTOL_REQ_FORWARD of a GUI.
Ask(g) ==
    /\ g \notin asked /\ asked' = asked \cup {g}
    /\ UNCHANGED <<setup, ring, writer, go, events, request, saves, main, taken, seen>>

savehandler ==
    /\ saves < Saves /\ asked = Guis /\ ~request
    /\ saves' = saves + 1 /\ request' = TRUE
    /\ UNCHANGED <<setup, ring, writer, go, asked, events, main, taken, seen>>

\* The hello or the exit of another emulator: events are held ...
Hold ==
    /\ Holds /\ go /\ go' = FALSE
    /\ UNCHANGED <<setup, ring, writer, asked, events, request, saves, main, taken, seen>>

\* ... until it is done.
Release ==
    /\ ~go /\ go' = TRUE
    /\ UNCHANGED <<setup, ring, writer, asked, events, request, saves, main, taken, seen>>

Writes(w) == Look(w) \/ Skip(w) \/ Put(w)

MainLoop == \/ Writes("main")
            \/ ~MainWriting /\ (Send \/ AllSent \/ midiThreadSaveReq)

Next == \/ KeyboardEvent \/ Writes("keyboard") \/ MainLoop
        \/ (\E g \in Guis : Ask(g)) \/ savehandler \/ Hold \/ Release

Spec == Init /\ [][Next]_vars

\* The main thread and the one that reads the keyboard go on; a hold ends.
FairSpec == Spec /\ WF_vars(Writes("keyboard")) /\ WF_vars(MainLoop) /\ WF_vars(Release)

(***************************************************************************)
(* Properties.                                                             *)
(***************************************************************************)
\* Every variable keeps its type.
TypeOK ==
    /\ buf \in [0 .. Slots - 1 -> {<<>>} \cup (Guis \X Messages)]
    /\ wp \in 0 .. Slots - 1 /\ rp \in 0 .. Slots - 1
    /\ writer \in [Writers -> [msg : Messages, todo : SUBSET Guis,
                               slot : 0 .. Slots - 1 \cup {NoSlot}]]
    /\ asked \subseteq Guis
    /\ {go, request} \subseteq BOOLEAN
    /\ events \in 0 .. MaxEvents /\ saves \in 0 .. Saves
    /\ main \in {"reading", "request"}
    /\ taken \in [Guis -> Seq(Messages)] /\ seen \in [Guis -> Seq(Messages)]

\* The two threads that write do not meet inside midiMsgForwarder.
OneAtATime == ~Window

MaxMessages == Max({s.events + s.saves : s \in Setups})

\* What a GUI was sent is what was put into the ring for it, in that order:
\* nothing is lost in the ring, sent twice or sent to another.
SentAsTaken == OneAtATime => \A g \in Guis : IsPrefix(seen[g], taken[g])

\* Everything that was put into the ring is sent.
AllTakenSent ==
    OneAtATime =>
        \A g \in Guis, n \in 1 .. MaxMessages :
            (Len(taken[g]) >= n) ~> (Len(seen[g]) >= n)

SaveMayPass == ~Holds /\ (MaxEvents + Saves) * Cardinality(Guis) < Slots

\* "We have to send messages to all the attached GUI and request they save
\* state" (bristol.c): they get there unless MIDI is held back at that moment
\* or the ring is full.
SaveReachesAll ==
    SaveMayPass =>
        \A g \in Guis : request ~> (Save \in ToSet(seen[g]))

(***************************************************************************)
(* What SentAsTaken rests on.                                              *)
(***************************************************************************)
\* The messages the ring holds, and the i-th slot from p.
Queued == IF wp >= rp THEN wp - rp ELSE wp - rp + Slots
At(p, i) == IF p + i < Slots THEN p + i ELSE p + i - Slots

\* c counts the messages for g on the way through the ring: those that were sent,
\* then one more behind each that is for g, each the next of what was taken.
Counts(c, g) ==
    /\ c[0] = Len(seen[g]) /\ c[Queued] = Len(taken[g])
    /\ \A i \in 0 .. Queued - 1 :
          LET message == buf[At(rp, i)] IN
          IF message[1] = g
          THEN c[i + 1] = c[i] + 1 /\ message[2] = taken[g][c[i + 1]]
          ELSE c[i + 1] = c[i]

Starts(s, t) == Len(s) <= Len(t) /\ \A i \in 1 .. Len(s) : s[i] = t[i]

\* A writer has a slot for the GUI it considers.
Owned == \A w \in Writers : writer[w].slot # NoSlot => writer[w].todo # {}

\* The slot that one writer has found stays free, and nobody else has one.
SlotsFree ==
    \A w \in Writers : writer[w].slot # NoSlot =>
        /\ writer[w].slot = wp /\ ~Full
        /\ \A other \in Writers \ {w} : writer[other].slot = NoSlot

RingHolds ==
    /\ \A i \in 0 .. Queued - 1 : buf[At(rp, i)] # <<>>
    /\ \A g \in Guis : /\ Starts(seen[g], taken[g])
                       /\ \E c \in [0 .. Queued -> 0 .. Len(taken[g])] : Counts(c, g)

RingInv ==
    /\ setup \in Setups /\ TypeOK /\ Owned
    /\ OneAtATime => SlotsFree /\ RingHolds
=============================================================================
