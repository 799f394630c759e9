----------------------------- MODULE MidiParser -----------------------------
(***************************************************************************)
(* One connection of the MIDI library, from the bytes that are written to  *)
(* the messages that are dispatched: the writers of a socket or a keyboard,*)
(* the rotary buffer of the device, the reads of the engine (one byte at a *)
(* time, bristolMidiALSARead) and of the GUI (that and bursts,             *)
(* bristolMidiTCPRead), and the parser, bristolMidiRawToMsg.               *)
(*                                                                         *)
(* A byte is a number.  A status byte stands for a family of commands; the *)
(* channel is left out.  What the engine and the GUIs call SYSEX is 0xf8,  *)
(* and any other system byte but EOS does the same to the parser.          *)
(***************************************************************************)
EXTENDS Integers, Sequences, SequencesExt, FiniteSetsExt

CONSTANTS Connections, \* who writes, who reads and what may go wrong, as below
          Id,          \* SYSEX_ID, the largest of the bytes of data
          IdLen,       \* bytes of the id that starts a message of bristol
          HeaderLen,   \* bytes of a message without data
          BufSize,     \* BRISTOL_MIDI_BUFSIZE
          MaxSent      \* bound: messages

Data == 0 .. Id
Eos == Id + 1    \* MIDI_EOS
System == Id + 2 \* MIDI_SYSEX and the other 0xf0
One == Id + 3    \* a command with one byte of data
Two == Id + 4    \* a command with two
Status(byte) == byte \in Eos .. Two
Bytes == 0 .. Two
None == 0        \* no lastcommand

OurId == [i \in 1 .. IdLen |-> Id]
Ours(message) ==
    Head(message) # System \/ IsPrefix(OurId, Tail(message))

\* The messages: a command with its data, or bytes of data after a system byte.  In
\* those of bristol the id is followed by the number of bytes that it heads and by the
\* type; the types above 7, the requests of a session, have more than the header.
WellFormed(message) ==
    \/ \E d \in Data : message = <<One, d>>
    \/ \E d, e \in Data : message = <<Two, d, e>>
    \/ /\ message \in Seq(Bytes) /\ Len(message) > 1 /\ Head(message) = System
       /\ \A i \in 2 .. Len(message) : message[i] \in Data
       /\ Ours(message) => /\ Len(message) > HeaderLen /\ message[IdLen + 2] = Len(message) - 1
                           /\ message[IdLen + 3] > 7 <=> Len(message) > HeaderLen + 1

ASSUME ParserAssumption ==
    /\ Id \in Nat /\ {IdLen, HeaderLen, BufSize, MaxSent} \subseteq Nat \ {0}
    /\ IdLen < HeaderLen - 1 /\ HeaderLen < BufSize
    /\ \A s \in Connections :
          /\ DOMAIN s = {"sends", "gui", "running", "realtime", "fails", "closes", "behind"}
          /\ s.behind \in Nat \ {0}
          /\ {s.gui, s.running, s.realtime, s.fails, s.closes} \subseteq BOOLEAN
          /\ \A w \in DOMAIN s.sends : \A message \in s.sends[w] : WellFormed(message)

VARIABLES connection, \* which stays
          wire,       \* bytes written and not yet read
          closed,     \* the writers' end is closed
          buffer,     \* buffer, bufindex and bufcount of the device
          index,
          count,
          last,       \* lastcommand
          at,         \* the reader: in "dev", "tcp" or "sense" of its loop, or "gone"
          pending,    \* per writer the writes of its message still to come
          status,     \* the last status byte of the writer, for Running
          sent,       \* history: messages
          got         \* history: messages dispatched

device == <<buffer, index, count, last>>
writing == <<pending, status, sent>>
parserVars == <<connection, wire, closed, device, at, writing, got>>

Senders == DOMAIN connection.sends  \* the threads, or the keyboard, that write
Gui == connection.gui               \* the reader is a GUI, else it is the engine
Running == connection.running       \* a status byte that stays the same may be left out
Realtime == connection.realtime     \* system bytes come in between
Fails == connection.fails           \* reads may fail
Closes == connection.closes         \* the writers' end may close
MaxWire == connection.behind        \* bound: bytes written and not yet read

ParserInit ==
    /\ connection \in Connections
    /\ wire = <<>> /\ closed = FALSE
    /\ buffer = [i \in 0 .. BufSize - 1 |-> 0] /\ index = 0 /\ count = 0
    /\ last = None /\ at = "dev"
    /\ pending = [w \in Senders |-> <<>>] /\ status = None
    /\ sent = <<>> /\ got = <<>>

(***************************************************************************)
(* bristolMidiRawToMsg: the bytes it takes, lastcommand after it, and the  *)
(* message, if there is one.                                               *)
(***************************************************************************)
Result(parsed, command, message) ==
    [parsed |-> parsed, last |-> command, message |-> message]
Waits(command) == Result(0, command, <<>>)

parseCommand(byte) == IF byte = Eos THEN None ELSE byte

FirstStatus(b) ==
    IF \E i \in DOMAIN b : Status(b[i])
    THEN CHOOSE i \in DOMAIN b : Status(b[i]) /\ \A j \in 1 .. i - 1 : ~Status(b[j])
    ELSE Len(b) + 1

Length(b) == b[IdLen + 1]
Type2(b) == b[IdLen + 2] > 7

\* Mutant of Complete: one byte more than the length says.
CompleteMore(b, n) == n > HeaderLen /\ Length(b) \in HeaderLen .. n - 1

\* Of n bytes of data with our id: a whole message, and one that cannot be.  A type 2
\* message is only looked at with a byte after its header; of no length, it takes the
\* command with it and nothing else, and the next byte is skipped for want of one.
Complete(b, n) == IF Type2(b) THEN n > HeaderLen /\ Length(b) \in 1 .. n
                  ELSE n >= HeaderLen /\ Length(b) = HeaderLen
Malformed(b, n) == IF Type2(b) THEN n > HeaderLen /\ Length(b) = 0
                   ELSE n >= HeaderLen /\ Length(b) # HeaderLen

\* The leading n bytes of data after a system byte; a status byte breaks them off.
SystemData(b) ==
    LET n == FirstStatus(b) - 1
        ours == n >= HeaderLen /\ SubSeq(b, 1, IdLen) = OurId
    IN
    CASE n >= IdLen /\ SubSeq(b, 1, IdLen) # OurId -> Result(IdLen, None, <<>>)
      [] ours /\ Malformed(b, n) ->
            Result(IF Type2(b) THEN 1 ELSE HeaderLen, None, <<>>)
      [] ours /\ Complete(b, n) ->
            Result(Length(b), None, <<System>> \o SubSeq(b, 1, Length(b)))
      [] OTHER -> IF n < Len(b) THEN Result(1, parseCommand(b[n + 1]), <<>>)
                  ELSE Waits(System)

TwoData(b) ==
    CASE Len(b) < 2 -> Waits(Two)
      [] Len(b) >= 2 /\ Status(b[2]) -> Result(1, parseCommand(b[2]), <<>>)
      [] OTHER -> Result(2, Two, <<Two, b[1], b[2]>>)

RawToMsg(b, command) ==
    CASE b = <<>> -> Waits(command)
      [] b # <<>> /\ Status(b[1]) -> Result(1, parseCommand(b[1]), <<>>)
      [] OTHER -> CASE command = One -> Result(1, One, <<One, b[1]>>)
                    [] command = Two -> TwoData(b)
                    [] command = System -> SystemData(b)
                    [] OTHER -> Result(1, command, <<>>)

Wrapped(i) == i % BufSize

\* What the parser is given: bufcount bytes from bufindex on.
Unparsed == [i \in 1 .. count |-> buffer[(index + i - 1) % BufSize]]
Step == RawToMsg(Unparsed, last)

(***************************************************************************)
(* The loop over the parser that ends both reads.                          *)
(***************************************************************************)
Parse ==
    /\ Step.parsed > 0
    /\ count' = count - Step.parsed
    /\ index' = Wrapped(index + Step.parsed)
    /\ last' = Step.last
    /\ got' = IF Step.message = <<>> THEN got ELSE Append(got, Step.message)
    /\ UNCHANGED <<connection, wire, closed, buffer, at, writing>>

Reading(place) == at = place /\ Step.parsed = 0

Offset == Wrapped(index + count)

\* Mutant of Room: for a whole message.
RoomForMessage == BufSize - count > HeaderLen
Room == BufSize - count > 0

\* The GUI goes on to its sockets after a read of its own device.
AfterDev == IF Gui THEN "tcp" ELSE "dev"

(***************************************************************************)
(* bristolMidiALSARead.                                                    *)
(***************************************************************************)
ReadByte ==
    /\ Reading("dev") /\ Room /\ wire # <<>>
    /\ buffer' = [buffer EXCEPT ![Offset] = Head(wire)]
    /\ count' = count + 1
    /\ wire' = Tail(wire)
    /\ at' = AfterDev
    /\ UNCHANGED <<connection, closed, index, last, writing, got>>

\* Without a byte of its own the buffer still counts one more, unless it was empty.
FailedRead ==
    /\ Reading("dev") /\ Room
    /\ Fails \/ (Gui /\ closed /\ wire = <<>>)
    /\ IF count = 0 THEN at' = "gone" /\ UNCHANGED count
       ELSE at' = AfterDev /\ count' = count + 1
    /\ UNCHANGED <<connection, wire, closed, buffer, index, last, writing, got>>

\* Only the GUI gets here with nothing to read.
NothingRead ==
    /\ Gui /\ Reading("dev") /\ Room /\ wire = <<>> /\ ~closed
    /\ at' = "tcp"
    /\ UNCHANGED <<connection, wire, closed, device, writing, got>>

\* Only the engine gets here; a GUI with a full buffer is Deaf before.  The read
\* reports an error, for which midiCheck closes the connection.
Exhausted ==
    /\ Reading("dev") /\ ~Room /\ wire # <<>>
    /\ count' = 0 /\ index' = 0 /\ at' = "gone"
    /\ UNCHANGED <<connection, wire, closed, buffer, last, writing, got>>

(***************************************************************************)
(* bristolMidiTCPRead, until it has nothing more: as much as there is,     *)
(* up to the end of the buffer.  At the end of the file it reads nothing,  *)
(* changes nothing and is called again.                                    *)
(***************************************************************************)
Space == BufSize - Offset

ReadBurst ==
    LET n == Min({Space, Len(wire)}) IN
    /\ Reading("tcp") /\ Room /\ wire # <<>>
    /\ buffer' = [i \in DOMAIN buffer |->
                     IF i \in Offset .. Offset + n - 1 THEN wire[i - Offset + 1] ELSE buffer[i]]
    /\ count' = count + n
    /\ wire' = SubSeq(wire, n + 1, Len(wire))
    /\ UNCHANGED <<connection, closed, index, last, at, writing, got>>

\* A full buffer is not selected for; with no other connection that is an error.
Deaf ==
    /\ Reading("tcp") /\ ~Room
    /\ at' = "gone"
    /\ UNCHANGED <<connection, wire, closed, device, writing, got>>

LoopEnds ==
    /\ Reading("tcp") /\ Room /\ wire = <<>> /\ ~closed
    /\ at' = "sense"
    /\ UNCHANGED <<connection, wire, closed, device, writing, got>>

\* Active sense, when it is time: the signal ends the GUI when nobody listens.
ActiveSense ==
    /\ at = "sense"
    /\ at' \in IF closed THEN {"gone", "dev"} ELSE {"dev"}
    /\ UNCHANGED <<connection, wire, closed, device, writing, got>>

(***************************************************************************)
(* The writers.                                                            *)
(***************************************************************************)
\* bristolMidiWrite and bristolMidiRawWrite: the writes that make a message.
Pieces(message) ==
    LET rest == Tail(message) IN
    CASE Head(message) # System -> <<<<Head(message)>>, rest>>
      [] Head(message) = System /\ Len(rest) <= HeaderLen -> <<<<System>>, rest, <<Eos>>>>
      [] OTHER -> <<<<System>>, SubSeq(rest, 1, HeaderLen),
                    SubSeq(rest, HeaderLen + 1, Len(rest)), <<Eos>>>>

Start(w) ==
    /\ pending[w] = <<>> /\ Len(sent) < MaxSent /\ ~closed
    /\ \E message \in connection.sends[w] :
          /\ \/ pending' = [pending EXCEPT ![w] = Pieces(message)]
             \/ /\ Running /\ Head(message) = status
                /\ pending' = [pending EXCEPT ![w] = <<Tail(message)>>]
          /\ status' = IF Head(message) = System THEN None ELSE Head(message)
          /\ sent' = IF Ours(message) THEN Append(sent, message) ELSE sent
    /\ UNCHANGED <<connection, wire, closed, device, at, got>>

Write(w) ==
    /\ pending[w] # <<>> /\ Len(wire) + Len(Head(pending[w])) <= MaxWire
    /\ wire' = wire \o Head(pending[w])
    /\ pending' = [pending EXCEPT ![w] = Tail(@)]
    /\ UNCHANGED <<connection, closed, device, at, status, sent, got>>

\* Timing clock and active sensing of a keyboard.
RealtimeByte ==
    /\ Realtime /\ Len(wire) < MaxWire
    /\ wire' = Append(wire, System)
    /\ UNCHANGED <<connection, closed, device, at, writing, got>>

Close ==
    /\ Closes /\ ~closed /\ \A w \in Senders : pending[w] = <<>>
    /\ closed' = TRUE
    /\ UNCHANGED <<connection, wire, device, at, writing, got>>

ParserNext ==
    \/ Parse
    \/ ReadByte \/ FailedRead \/ NothingRead \/ Exhausted
    \/ ReadBurst \/ Deaf \/ LoopEnds \/ ActiveSense
    \/ \E w \in Senders : Start(w) \/ Write(w)
    \/ RealtimeByte \/ Close

ParserSpec == ParserInit /\ [][ParserNext]_parserVars

-----------------------------------------------------------------------------
(* Type correctness; bufcount never goes negative, for which both reads     *)
(* have an error message.                                                   *)
ParserTypeOK ==
    /\ connection \in Connections
    /\ wire \in Seq(Bytes) /\ Len(wire) <= MaxWire
    /\ closed \in BOOLEAN
    /\ buffer \in [0 .. BufSize - 1 -> Bytes]
    /\ index \in 0 .. BufSize - 1 /\ count \in Nat
    /\ last \in {None, System, One, Two}
    /\ at \in {"dev", "tcp", "sense", "gone"}
    /\ pending \in [Senders -> Seq(Seq(Bytes))]
    /\ status \in {None, One, Two}
    /\ sent \in Seq(Seq(Bytes)) /\ got \in Seq(Seq(Bytes))

(* Whole messages that fit the buffer, from one writer, through reads that  *)
(* work, to a GUI that does not fall a buffer behind: what is dispatched is *)
(* what was sent, in its order, and when all is written, read and parsed    *)
(* nothing is missing.  The pieces in which the bytes arrive, the end of    *)
(* the buffer and the sysex of others do not matter.                        *)
Fit == \A w \in Senders : \A message \in connection.sends[w] : Len(message) <= BufSize
Alone == \A v, w \in Senders : v = w
\* The bytes to come never run over a message of which a part waits for the rest.
KeepsUp ==
    Gui => /\ MaxWire + HeaderLen <= BufSize
           /\ \A w \in Senders : \A message \in connection.sends[w] :
                 MaxWire + Len(message) - 2 <= BufSize
Orderly == Fit /\ Alone /\ KeepsUp /\ ~Fails /\ ~Realtime

Settled == wire = <<>> /\ Step.parsed = 0 /\ \A w \in Senders : pending[w] = <<>>

ParsedIsSent ==
    Orderly => /\ IsPrefix(got, sent)
               /\ Settled => Len(got) = Len(sent)

(* A GUI, under the same conditions, gives its connection up only when the  *)
(* engine has gone: neither a full buffer nor half a message makes it       *)
(* leave.                                                                   *)
StaysUp == Orderly /\ at = "gone" => closed
=============================================================================
