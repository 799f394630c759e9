------------------------------ MODULE NoteRing ------------------------------
(***************************************************************************)
(* The ring buffer between the MIDI thread and the audio thread            *)
(* (ringbuffer.c) with its two users: midiNoteOn and midiNoteOff, which    *)
(* write a message if there is room for all of it, and doAudioOps, which   *)
(* reads messages while a whole one is there.  There is no lock: a memory  *)
(* barrier orders the copying of the data before the store of the pointer. *)
(*                                                                         *)
(* A message is MsgSize cells, so that it can wrap round the end of the    *)
(* buffer.  A hello of an emulator resets both pointers from the MIDI      *)
(* thread (jack_ringbuffer_go); a period without an emulator resets them   *)
(* from the audio thread.  With ~racing these resets do not fall inside an *)
(* operation of the other thread; with racing they may, as in the code.    *)
(***************************************************************************)
EXTENDS Naturals, Sequences

CONSTANTS
    Size,        \* rb->size, a power of two
    MsgSize,     \* sizeof(bristolMidiMsg)
    MaxMsgs,     \* bound: messages offered in one behaviour
    MaxHellos,   \* bound: emulators started in one behaviour
    Races        \* the values of racing: the disciplines to look at

ASSUME RingAssumption ==
    /\ Size \in Nat /\ MsgSize \in Nat \ {0} /\ MsgSize < Size
    /\ MaxMsgs \in Nat /\ MaxHellos \in Nat
    /\ Races \subseteq BOOLEAN

Index == 0 .. Size - 1
Part  == 1 .. MsgSize

\* Message n, part by part.  Part <<0, p>> is what malloc left there.
Whole(n) == [p \in Part |-> <<n, p>>]

VARIABLES
    buf,                      \* rb->buf
    write_ptr, read_ptr,      \* the two offsets
    wphase, wcnt, wrest, wnew,\* MIDI thread: to_write, n2, new_ptr
    rphase, rcnt, rrest, rnew,\* audio thread: to_read, n2, new_ptr
    msg,                      \* the local the audio thread reads into; never
                              \* initialised, it keeps what was there before
    racing,                   \* a reset may fall inside an operation of the other
                              \* thread; chosen once
    running,                  \* audiomain->audiolist is not empty
    hellos,                   \* emulators started so far
    offered,                  \* messages offered so far
    handled                   \* history: messages given to rbMidiNote

pointers == <<write_ptr, read_ptr>>
writer   == <<wphase, wcnt, wrest, wnew, offered>>
reader   == <<rphase, rcnt, rrest, rnew, msg, handled>>
synths   == <<racing, running, hellos>>
vars == <<buf, write_ptr, read_ptr, wphase, wcnt, wrest, wnew, rphase, rcnt,
          rrest, rnew, msg, racing, running, hellos, offered, handled>>

\* jack_ringbuffer_create: the next power of two, two at least.
Rounded(sz) ==
    2 ^ (CHOOSE p \in 1 .. 31 : 2 ^ p >= sz /\ \A q \in 1 .. p - 1 : 2 ^ q < sz)

\* x & rb->size_mask
Mask(x) == x % Size

\* jack_ringbuffer_read_space
Filled(w, r) == IF w > r THEN w - r ELSE Mask(w + Size - r)

ReadSpace == Filled(write_ptr, read_ptr)

\* Mutant of Unfilled: no case for a writer behind the reader.
UnfilledAhead(w, r) == IF w > r THEN Mask(r + Size - w) - 1 ELSE Size - 1

\* jack_ringbuffer_write_space
Unfilled(w, r) ==
    IF w > r THEN Mask(r + Size - w) - 1
    ELSE IF w < r THEN (r - w) - 1
    ELSE Size - 1

WriteSpace == Unfilled(write_ptr, read_ptr)

Least(a, b) == IF a > b THEN b ELSE a

\* n1 and n2: cells copied before and after the end of the buffer.
FirstPart(ptr, cnt) == IF ptr + cnt > Size THEN Size - ptr ELSE cnt

\* Mutant of SecondPart: the copy stops at the end of the buffer.
SecondPartLost(ptr, cnt) == 0

SecondPart(ptr, cnt) == IF ptr + cnt > Size THEN Mask(ptr + cnt) ELSE 0

Init ==
    /\ buf = [i \in Index |-> <<0, 1>>]
    /\ write_ptr = 0 /\ read_ptr = 0
    /\ wphase = "idle" /\ wcnt = 0 /\ wrest = 0 /\ wnew = 0
    /\ rphase = "idle" /\ rcnt = 0 /\ rrest = 0 /\ rnew = 0
    /\ msg = [p \in Part |-> <<0, p>>]
    /\ racing \in Races
    /\ running = FALSE
    /\ hellos = 0
    /\ offered = 0
    /\ handled = << >>

----------------------------------------------------------------------------
(***************************************************************************)
(* The MIDI thread.                                                        *)
(***************************************************************************)

\* midiNoteOn, midiNoteOff: is there room for the message?
Offer ==
    /\ wphase = "idle" /\ offered < MaxMsgs
    /\ IF WriteSpace >= MsgSize
         THEN wphase' = "write" /\ UNCHANGED offered
         ELSE offered' = offered + 1 /\ UNCHANGED wphase
    /\ UNCHANGED <<buf, pointers, wcnt, wrest, wnew, reader, synths>>

\* jack_ringbuffer_write: the room is read again, and there is none.
WriteNothing ==
    /\ wphase = "write" /\ WriteSpace = 0
    /\ offered' = offered + 1
    /\ wphase' = "idle"
    /\ UNCHANGED <<buf, pointers, wcnt, wrest, wnew, reader, synths>>

\* The first part is copied.
WriteFirst ==
    /\ wphase = "write" /\ WriteSpace > 0
    /\ wcnt' = Least(MsgSize, WriteSpace)
    /\ wrest' = SecondPart(write_ptr, wcnt')
    /\ LET n1 == FirstPart(write_ptr, wcnt') IN
       /\ buf' = [i \in Index |-> IF i \in write_ptr .. write_ptr + n1 - 1
                                  THEN <<offered + 1, i - write_ptr + 1>> ELSE buf[i]]
       /\ wnew' = Mask(write_ptr + n1)
    /\ wphase' = "second"
    /\ UNCHANGED <<pointers, offered, reader, synths>>

\* The second part goes to new_ptr.
WriteSecond ==
    /\ wphase = "second"
    /\ buf' = [i \in Index |-> IF i \in wnew .. wnew + wrest - 1
                               THEN <<offered + 1, wcnt - wrest + i - wnew + 1>> ELSE buf[i]]
    /\ wnew' = Mask(wnew + wrest)
    /\ wphase' = "store"
    /\ UNCHANGED <<pointers, wcnt, wrest, offered, reader, synths>>

\* After the barrier: the message can be read.
WriteStore ==
    /\ wphase = "store"
    /\ write_ptr' = wnew
    /\ offered' = offered + 1
    /\ wphase' = "idle"
    /\ UNCHANGED <<buf, read_ptr, wcnt, wrest, wnew, reader, synths>>

\* BRISTOL_REQSTART: the emulator is linked on the audiolist ...
Hello ==
    /\ wphase = "idle" /\ hellos < MaxHellos
    /\ hellos' = hellos + 1
    /\ running' = TRUE
    /\ wphase' = "go"
    /\ UNCHANGED <<buf, pointers, wcnt, wrest, wnew, offered, reader, racing>>

\* ... and then jack_ringbuffer_go resets both pointers.
Go ==
    /\ wphase = "go"
    /\ racing \/ rphase \in {"idle", "drain"}
    /\ write_ptr' = 0 /\ read_ptr' = 0
    /\ wphase' = "idle"
    /\ UNCHANGED <<buf, wcnt, wrest, wnew, offered, reader, synths>>

MidiStep ==
    \/ Offer \/ WriteNothing \/ WriteFirst \/ WriteSecond \/ WriteStore
    \/ Hello \/ Go

----------------------------------------------------------------------------
(***************************************************************************)
(* The audio thread.                                                       *)
(***************************************************************************)

\* The first hello starts the audio thread when it has reset the ring.
AudioRuns == hellos > 1 \/ (hellos = 1 /\ wphase # "go")

\* doAudioOps with an emulator: drain the ring.
BeginPeriod ==
    /\ AudioRuns
    /\ rphase = "idle" /\ running
    /\ rphase' = "drain"
    /\ UNCHANGED <<buf, pointers, writer, rcnt, rrest, rnew, msg, handled, synths>>

\* doAudioOps without one: stop and reset.
EmptyPeriod ==
    /\ AudioRuns
    /\ rphase = "idle" /\ ~running
    /\ racing \/ wphase \in {"idle", "go"}
    /\ write_ptr' = 0 /\ read_ptr' = 0
    /\ UNCHANGED <<buf, writer, reader, synths>>

\* Later in doAudioOps: the last emulator is removed.
LastExit ==
    /\ AudioRuns
    /\ rphase = "idle" /\ running
    /\ wphase # "go"
    /\ running' = FALSE
    /\ UNCHANGED <<buf, pointers, writer, reader, hellos, racing>>

\* Mutant of Drain: the last whole message is left for the next period.
DrainButOne ==
    /\ rphase = "drain"
    /\ rphase' = IF ReadSpace > MsgSize THEN "read" ELSE "idle"
    /\ UNCHANGED <<buf, pointers, writer, rcnt, rrest, rnew, msg, handled, synths>>

\* Mutant of Drain: what is left of a torn message is waited for.
DrainPartial ==
    /\ rphase = "drain"
    /\ rphase' = IF ReadSpace >= MsgSize THEN "read"
                 ELSE IF ReadSpace > 0 THEN "drain" ELSE "idle"
    /\ UNCHANGED <<buf, pointers, writer, rcnt, rrest, rnew, msg, handled, synths>>

\* Is there a whole message?
Drain ==
    /\ rphase = "drain"
    /\ rphase' = IF ReadSpace >= MsgSize THEN "read" ELSE "idle"
    /\ UNCHANGED <<buf, pointers, writer, rcnt, rrest, rnew, msg, handled, synths>>

\* jack_ringbuffer_read: what can be read is read again.  With nothing to
\* read rbMidiNote gets what msg held before.
ReadNothing ==
    /\ rphase = "read" /\ ReadSpace = 0
    /\ handled' = Append(handled, msg)
    /\ rphase' = "drain"
    /\ UNCHANGED <<buf, pointers, writer, rcnt, rrest, rnew, msg, synths>>

\* The first part is copied.
ReadFirst ==
    /\ rphase = "read" /\ ReadSpace > 0
    /\ rcnt' = Least(MsgSize, ReadSpace)
    /\ rrest' = SecondPart(read_ptr, rcnt')
    /\ LET n1 == FirstPart(read_ptr, rcnt') IN
       /\ msg' = [p \in Part |-> IF p <= n1 THEN buf[read_ptr + p - 1] ELSE msg[p]]
       /\ rnew' = Mask(read_ptr + n1)
    /\ rphase' = "second"
    /\ UNCHANGED <<buf, pointers, writer, handled, synths>>

ReadSecond ==
    /\ rphase = "second"
    /\ LET n1 == rcnt - rrest IN
       msg' = [p \in Part |-> IF p \in n1 + 1 .. rcnt THEN buf[rnew + p - n1 - 1] ELSE msg[p]]
    /\ rnew' = Mask(rnew + rrest)
    /\ rphase' = "store"
    /\ UNCHANGED <<buf, pointers, writer, rcnt, rrest, handled, synths>>

\* After the barrier: the room is given back, and rbMidiNote is called.
ReadStore ==
    /\ rphase = "store"
    /\ read_ptr' = rnew
    /\ handled' = Append(handled, msg)
    /\ rphase' = "drain"
    /\ UNCHANGED <<buf, write_ptr, writer, rcnt, rrest, rnew, msg, synths>>

AudioStep ==
    \/ BeginPeriod \/ EmptyPeriod \/ Drain
    \/ ReadNothing \/ ReadFirst \/ ReadSecond \/ ReadStore

Next == MidiStep \/ AudioStep \/ LastExit

Spec == Init /\ [][Next]_vars

\* The audio device drives the audio thread.
FairSpec == Spec /\ WF_vars(AudioStep)

----------------------------------------------------------------------------
(***************************************************************************)
(* Properties.                                                             *)
(***************************************************************************)

\* Types, and the two pointers stay offsets of the buffer.
TypeOK ==
    /\ buf \in [Index -> (0 .. MaxMsgs) \X Part]
    /\ write_ptr \in Index /\ read_ptr \in Index
    /\ wphase \in {"idle", "write", "second", "store", "go"}
    /\ rphase \in {"idle", "drain", "read", "second", "store"}
    /\ wcnt \in 0 .. MsgSize /\ wrest \in 0 .. wcnt /\ wnew \in Index
    /\ rcnt \in 0 .. MsgSize /\ rrest \in 0 .. rcnt /\ rnew \in Index
    /\ msg \in [Part -> (0 .. MaxMsgs) \X Part]
    /\ racing \in BOOLEAN /\ running \in BOOLEAN /\ hellos \in 0 .. MaxHellos
    /\ offered \in 0 .. MaxMsgs
    /\ handled \in Seq([Part -> (0 .. MaxMsgs) \X Part])

Writing == wphase \in {"second", "store"}
Reading == rphase \in {"second", "store"}

\* The cells a write fills are outside the readable ones, and those a read
\* copies are inside.
CellsApart ==
    /\ Writing => \A i \in 0 .. wcnt - 1, j \in 0 .. ReadSpace - 1 :
                      Mask(write_ptr + i) # Mask(read_ptr + j)
    /\ Reading => rcnt <= ReadSpace

\* The two threads never use a cell at the same time, unless a reset falls
\* inside an operation of the other.
NoSharedCell == ~racing => CellsApart

\* What TypeOK rests on: a message is counted once, and the second part of
\* a copy starts at the beginning of the buffer.
LocalsOK ==
    /\ wphase \in {"write", "second", "store"} => offered < MaxMsgs
    /\ wphase = "second" => wrest = 0 \/ wnew = 0
    /\ rphase = "second" => rrest = 0 \/ rnew = 0

\* What NoSharedCell rests on: the room a thread has seen is still there, and
\* new_ptr ends up the whole count ahead.
CountsOK ==
    /\ wphase = "write" => MsgSize <= WriteSpace
    /\ Writing => wcnt <= WriteSpace
    /\ wphase = "second" => Mask(wnew + wrest) = Mask(write_ptr + wcnt)
    /\ wphase = "store" => wnew = Mask(write_ptr + wcnt)
    /\ rphase = "read" => MsgSize <= ReadSpace
    /\ Reading => rcnt <= ReadSpace
    /\ rphase = "second" => Mask(rnew + rrest) = Mask(read_ptr + rcnt)
    /\ rphase = "store" => rnew = Mask(read_ptr + rcnt)

\* A message from position at on.
At(at) == [p \in Part |-> buf[Mask(at + p - 1)]]

\* What ImplementsQueue rests on: only whole messages lie between the pointers,
WholeMessages == \E q \in 0 .. Size : ReadSpace = q * MsgSize

\* a write has put the message down as far as it has got,
WriteCopied ==
    /\ Writing => wcnt = MsgSize
    /\ wphase = "second" =>
          /\ wrest = SecondPart(write_ptr, wcnt)
          /\ wnew = Mask(write_ptr + FirstPart(write_ptr, wcnt))
          /\ \A p \in 1 .. wcnt - wrest : At(write_ptr)[p] = <<offered + 1, p>>
    /\ wphase = "store" => At(write_ptr) = Whole(offered + 1)

\* and a read has taken what still lies at the read pointer.
ReadCopied ==
    /\ Reading => rcnt = MsgSize
    /\ rphase = "second" =>
          /\ rrest = SecondPart(read_ptr, rcnt)
          /\ rnew = Mask(read_ptr + FirstPart(read_ptr, rcnt))
          /\ \A p \in 1 .. rcnt - rrest : msg[p] = At(read_ptr)[p]
    /\ rphase = "store" => msg = At(read_ptr)

CopiesOK == WholeMessages /\ WriteCopied /\ ReadCopied

\* The number of a message that is whole, 0 of one that is torn.
Number(m) == IF m = Whole(m[1][1]) THEN m[1][1] ELSE 0

Queue == [k \in 1 .. ReadSpace \div MsgSize |-> Number(At(read_ptr + (k - 1) * MsgSize))]

Handled == [k \in DOMAIN handled |-> Number(handled[k])]

\* The ring implements the queue of NoteQueue: whole messages, in order, none
\* twice, none lost while there is room for it (ringbuffer.h:33).  Nothing is
\* promised of a ring that is reset in the middle of an operation.
Fifo == INSTANCE NoteQueue WITH
            Capacity <- (Size - 1) \div MsgSize,
            queue <- IF racing THEN << >> ELSE Queue,
            handled <- IF racing THEN << >> ELSE Handled,
            offered <- IF racing THEN 0 ELSE offered,
            live <- ~racing /\ running /\ wphase # "go"

ImplementsQueue == Fifo!Spec

\* A message that got into the ring is handled, unless the emulators go first.
WaitingIsHandled ==
    \A n \in 1 .. MaxMsgs :
        (~racing /\ \E k \in DOMAIN Queue : Queue[k] = n)
            ~> ((\E k \in DOMAIN handled : handled[k] = Whole(n)) \/ ~(running /\ wphase # "go"))

\* The loop of doAudioOps that drains the ring always ends, with whatever a
\* reset in the wrong moment has left between the pointers.
DrainEnds == []<>(rphase = "idle")

\* Every message given to rbMidiNote is a whole one and newer than the one
\* before it: "safe for the case of one read thread and one write thread".
HandledOnceInOrder ==
    \A k \in DOMAIN handled :
        /\ Handled[k] # 0
        /\ k > 1 => Handled[k - 1] < Handled[k]
=============================================================================
