--------------------------- MODULE NoteRingProofs ---------------------------
(***************************************************************************)
(* The two threads of NoteRing stay out of each other's cells, and the     *)
(* ring is the queue of NoteQueue, for every size of ring and message, as  *)
(* long as a reset does not fall inside an operation of the other thread.  *)
(***************************************************************************)
EXTENDS NoteRing, SequenceTheorems, TLAPS

----------------------------------------------------------------------------
(***************************************************************************)
(* The mask, and what the spaces are in arithmetic without it.             *)
(***************************************************************************)

\* Masking an offset inside the buffer does nothing (size_mask, ringbuffer.c).
LEMMA MaskSmall ==
    ASSUME NEW x \in 0 .. Size - 1
    PROVE  Mask(x) = x
BY RingAssumption DEF Mask

\* Masking an offset past the end starts again at the beginning.
LEMMA MaskWrap ==
    ASSUME NEW x \in Size .. 2 * Size - 1
    PROVE  Mask(x) = x - Size
BY RingAssumption DEF Mask

\* Two copies advance a pointer as far as one of their whole count.
LEMMA Parts ==
    ASSUME NEW ptr \in Index, NEW cnt \in 0 .. MsgSize
    PROVE  LET n1 == FirstPart(ptr, cnt)
               n2 == SecondPart(ptr, cnt)
           IN  /\ n1 \in 0 .. cnt /\ n2 \in 0 .. cnt
               /\ ptr + n1 <= Size
               /\ Mask(ptr + n1) \in Index
               /\ Mask(Mask(ptr + n1) + n2) = Mask(ptr + cnt)
               /\ n2 = 0 \/ Mask(ptr + n1) = 0
               /\ n1 = cnt - n2
<1>0. Size \in Nat /\ MsgSize \in Nat /\ MsgSize < Size
  BY RingAssumption
<1>1. CASE ptr + cnt < Size
  <2>1. FirstPart(ptr, cnt) = cnt /\ SecondPart(ptr, cnt) = 0
    BY <1>0, <1>1 DEF FirstPart, SecondPart, Index
  <2>2. Mask(ptr + cnt) = ptr + cnt
    BY <1>0, <1>1, MaskSmall DEF Index
  <2> QED
    BY <1>0, <1>1, <2>1, <2>2 DEF Index
<1>2. CASE ptr + cnt = Size
  <2>1. FirstPart(ptr, cnt) = cnt /\ SecondPart(ptr, cnt) = 0
    BY <1>0, <1>2 DEF FirstPart, SecondPart, Index
  <2>2. Mask(ptr + cnt) = 0
    BY <1>0, <1>2, MaskWrap DEF Index
  <2>3. Mask(0) = 0
    BY <1>0, MaskSmall
  <2> QED
    BY <1>0, <1>2, <2>1, <2>2, <2>3 DEF Index
<1>3. CASE ptr + cnt > Size
  <2>1. Mask(ptr + cnt) = ptr + cnt - Size
    BY <1>0, <1>3, MaskWrap DEF Index
  <2>2. FirstPart(ptr, cnt) = Size - ptr /\ SecondPart(ptr, cnt) = ptr + cnt - Size
    BY <1>0, <1>3, <2>1 DEF FirstPart, SecondPart, Index
  <2>3. Mask(ptr + (Size - ptr)) = 0
    BY <1>0, MaskWrap DEF Index
  <2>4. Mask(0 + (ptr + cnt - Size)) = ptr + cnt - Size
    BY <1>0, <1>3, MaskSmall DEF Index
  <2> QED
    BY <1>0, <1>3, <2>1, <2>2, <2>3, <2>4 DEF Index
<1> QED
  BY <1>0, <1>1, <1>2, <1>3 DEF Index

\* What can be read and what can be written, and that one cell is kept free.
LEMMA Spaces ==
    ASSUME NEW w \in Index, NEW r \in Index
    PROVE  /\ Filled(w, r) = IF w >= r THEN w - r ELSE w + Size - r
           /\ Filled(w, r) \in 0 .. Size - 1
           /\ Unfilled(w, r) = Size - 1 - Filled(w, r)
<1>0. Size \in Nat /\ w \in 0 .. Size - 1 /\ r \in 0 .. Size - 1
  BY RingAssumption DEF Index
<1>1. CASE w > r
  <2>1. Mask(r + Size - w) = r + Size - w
    BY <1>0, <1>1, MaskSmall
  <2> QED
    BY <1>0, <1>1, <2>1 DEF Filled, Unfilled
<1>2. CASE w < r
  <2>1. Mask(w + Size - r) = w + Size - r
    BY <1>0, <1>2, MaskSmall
  <2> QED
    BY <1>0, <1>2, <2>1 DEF Filled, Unfilled
<1>3. CASE w = r
  <2>1. Mask(w + Size - r) = 0
    BY <1>0, <1>3, MaskWrap
  <2> QED
    BY <1>0, <1>3, <2>1 DEF Filled, Unfilled
<1> QED
  BY <1>0, <1>1, <1>2, <1>3

----------------------------------------------------------------------------
(***************************************************************************)
(* Types.  They hold whatever the resets do.                               *)
(***************************************************************************)

Message == [Part -> (0 .. MaxMsgs) \X Part]

\* bristol_ringbuffer_create leaves an empty ring.
LEMMA TypeInit ==
    Init => TypeOK /\ LocalsOK
<1> SUFFICES ASSUME Init PROVE TypeOK /\ LocalsOK
  OBVIOUS
<1>1. /\ 0 \in Index /\ 1 \in Part /\ 0 \in 0 .. MaxMsgs
      /\ 0 \in 0 .. MsgSize /\ 0 \in 0 .. MaxHellos /\ 0 \in 0 .. 0
  BY RingAssumption DEF Index, Part
<1>2. /\ buf \in [Index -> (0 .. MaxMsgs) \X Part]
      /\ msg \in [Part -> (0 .. MaxMsgs) \X Part]
      /\ handled \in Seq([Part -> (0 .. MaxMsgs) \X Part])
  BY <1>1 DEF Init
<1>4. TypeOK
  BY <1>1, <1>2 DEF Init, TypeOK
<1>3. LocalsOK
  BY DEF Init, LocalsOK
<1> QED
  BY <1>3, <1>4

\* A step of the MIDI thread that copies nothing.
LEMMA TypeMidi ==
    ASSUME TypeOK, LocalsOK,
           Offer \/ WriteNothing \/ WriteStore \/ Hello \/ Go
    PROVE  TypeOK' /\ LocalsOK'
<1>0. Size \in Nat \ {0} /\ MaxMsgs \in Nat /\ MaxHellos \in Nat /\ 0 \in Index
  BY RingAssumption DEF Index
<1> USE DEF pointers, writer, reader, synths
<1>1. CASE Offer
  BY <1>0, <1>1 DEF Offer, TypeOK, LocalsOK
<1>2. CASE WriteNothing
  BY <1>0, <1>2 DEF WriteNothing, TypeOK, LocalsOK
<1>3. CASE WriteStore
  BY <1>0, <1>3 DEF WriteStore, TypeOK, LocalsOK
<1>4. CASE Hello
  BY <1>0, <1>4 DEF Hello, TypeOK, LocalsOK
<1>5. CASE Go
  BY <1>0, <1>5 DEF Go, TypeOK, LocalsOK
<1> QED
  BY <1>1, <1>2, <1>3, <1>4, <1>5

\* What a copy counts out, from the room it finds.
LEMMA Counts ==
    ASSUME NEW ptr \in Index, NEW space \in Nat
    PROVE  LET cnt == Least(MsgSize, space) IN
           /\ cnt \in 0 .. MsgSize /\ cnt <= space
           /\ MsgSize <= space => cnt = MsgSize
           /\ FirstPart(ptr, cnt) \in 0 .. cnt
           /\ SecondPart(ptr, cnt) \in 0 .. cnt
           /\ ptr + FirstPart(ptr, cnt) <= Size
           /\ Mask(ptr + FirstPart(ptr, cnt)) \in Index
           /\ Mask(Mask(ptr + FirstPart(ptr, cnt)) + SecondPart(ptr, cnt)) = Mask(ptr + cnt)
           /\ SecondPart(ptr, cnt) = 0 \/ Mask(ptr + FirstPart(ptr, cnt)) = 0
<1> DEFINE cnt == Least(MsgSize, space)
<1>1. cnt \in 0 .. MsgSize /\ cnt <= space /\ (MsgSize <= space => cnt = MsgSize)
  BY RingAssumption DEF Least
<1> HIDE DEF cnt
<1>2. /\ FirstPart(ptr, cnt) \in 0 .. cnt
      /\ SecondPart(ptr, cnt) \in 0 .. cnt
      /\ ptr + FirstPart(ptr, cnt) <= Size
      /\ Mask(ptr + FirstPart(ptr, cnt)) \in Index
      /\ Mask(Mask(ptr + FirstPart(ptr, cnt)) + SecondPart(ptr, cnt)) = Mask(ptr + cnt)
      /\ SecondPart(ptr, cnt) = 0 \/ Mask(ptr + FirstPart(ptr, cnt)) = 0
  BY <1>1, Parts
<1> USE DEF cnt
<1> QED
  BY <1>1, <1>2

\* The first copy of a write keeps the types.
LEMMA TypeWriteFirst ==
    ASSUME TypeOK, LocalsOK, WriteFirst
    PROVE  TypeOK' /\ LocalsOK'
<1> DEFINE n1 == FirstPart(write_ptr, wcnt')
<1>0. /\ Size \in Nat /\ MsgSize \in Nat /\ MaxMsgs \in Nat
      /\ write_ptr \in Index /\ offered \in 0 .. MaxMsgs /\ offered < MaxMsgs
      /\ buf \in [Index -> (0 .. MaxMsgs) \X Part]
      /\ wphase' = "second" /\ offered' = offered
      /\ wcnt' = Least(MsgSize, WriteSpace)
      /\ wrest' = SecondPart(write_ptr, wcnt')
      /\ wnew' = Mask(write_ptr + n1)
  BY RingAssumption DEF TypeOK, LocalsOK, WriteFirst
<1>1. WriteSpace \in Nat
  <2>1. write_ptr \in Index /\ read_ptr \in Index
    BY DEF TypeOK
  <2>2. WriteSpace = Size - 1 - ReadSpace /\ ReadSpace \in 0 .. Size - 1
    BY <2>1, Spaces DEF WriteSpace, ReadSpace
  <2> QED
    BY <1>0, <2>2
<1>2. /\ wcnt' \in 0 .. MsgSize /\ n1 \in 0 .. wcnt'
      /\ wrest' \in 0 .. wcnt' /\ wnew' \in Index
      /\ wrest' = 0 \/ wnew' = 0
  BY <1>0, <1>1, Counts
<1>3. buf' = [i \in Index |-> IF i \in write_ptr .. write_ptr + n1 - 1
                              THEN <<offered + 1, i - write_ptr + 1>> ELSE buf[i]]
  BY DEF WriteFirst
<1> HIDE DEF n1
<1>4. ASSUME NEW i \in Index, i \in write_ptr .. write_ptr + n1 - 1
      PROVE  offered + 1 \in 0 .. MaxMsgs /\ i - write_ptr + 1 \in Part
  BY <1>0, <1>2, <1>4 DEF Index, Part
<1>5. buf' \in [Index -> (0 .. MaxMsgs) \X Part]
  BY <1>0, <1>3, <1>4
<1>6. UNCHANGED <<pointers, offered, reader, synths>>
  BY DEF WriteFirst
<1>7. TypeOK'
  BY <1>0, <1>2, <1>5, <1>6 DEF TypeOK, pointers, reader, synths
<1>8. LocalsOK'
  BY <1>0, <1>2, <1>6 DEF LocalsOK, reader
<1> QED
  BY <1>7, <1>8

\* The second copy, at the start of the buffer, keeps the types.
LEMMA TypeWriteSecond ==
    ASSUME TypeOK, LocalsOK, WriteSecond
    PROVE  TypeOK' /\ LocalsOK'
<1>0. /\ Size \in Nat /\ MsgSize \in Nat /\ MaxMsgs \in Nat /\ MsgSize < Size
      /\ offered \in 0 .. MaxMsgs /\ offered < MaxMsgs
      /\ wcnt \in 0 .. MsgSize /\ wrest \in 0 .. wcnt /\ wnew \in Index
      /\ buf \in [Index -> (0 .. MaxMsgs) \X Part]
      /\ wphase' = "store" /\ wnew' = Mask(wnew + wrest)
  BY RingAssumption DEF TypeOK, LocalsOK, WriteSecond
<1>1. wnew + wrest \in 0 .. 2 * Size - 1
  BY <1>0 DEF Index
<1>2. wnew' \in Index
  <2>1. CASE wnew + wrest < Size
    BY <1>0, <1>1, <2>1, MaskSmall DEF Index
  <2>2. CASE wnew + wrest >= Size
    BY <1>0, <1>1, <2>2, MaskWrap DEF Index
  <2> QED
    BY <1>0, <1>1, <2>1, <2>2
<1>3. buf' = [i \in Index |-> IF i \in wnew .. wnew + wrest - 1
                THEN <<offered + 1, wcnt - wrest + i - wnew + 1>> ELSE buf[i]]
  BY DEF WriteSecond
<1>4. ASSUME NEW i \in Index, i \in wnew .. wnew + wrest - 1
      PROVE  offered + 1 \in 0 .. MaxMsgs /\ wcnt - wrest + i - wnew + 1 \in Part
  BY <1>0, <1>4 DEF Index, Part
<1>5. buf' \in [Index -> (0 .. MaxMsgs) \X Part]
  BY <1>0, <1>3, <1>4
<1>6. UNCHANGED <<pointers, wcnt, wrest, offered, reader, synths>>
  BY DEF WriteSecond
<1>7. TypeOK'
  BY <1>0, <1>2, <1>5, <1>6 DEF TypeOK, pointers, reader, synths
<1>8. LocalsOK'
  BY <1>0, <1>6 DEF LocalsOK, reader
<1> QED
  BY <1>7, <1>8

\* A step of the audio thread that copies nothing.
LEMMA TypeAudio ==
    ASSUME TypeOK, LocalsOK,
           BeginPeriod \/ EmptyPeriod \/ LastExit \/ Drain \/ ReadNothing \/ ReadStore
    PROVE  TypeOK' /\ LocalsOK'
<1>0. Size \in Nat \ {0} /\ 0 \in Index
  BY RingAssumption DEF Index
<1> USE DEF pointers, writer, reader, synths
<1>1. CASE BeginPeriod
  BY <1>0, <1>1 DEF BeginPeriod, TypeOK, LocalsOK
<1>2. CASE EmptyPeriod
  BY <1>0, <1>2 DEF EmptyPeriod, TypeOK, LocalsOK
<1>3. CASE LastExit
  BY <1>0, <1>3 DEF LastExit, TypeOK, LocalsOK
<1>4. CASE Drain
  BY <1>0, <1>4 DEF Drain, TypeOK, LocalsOK
<1>5. CASE ReadNothing
  BY <1>0, <1>5 DEF ReadNothing, TypeOK, LocalsOK
<1>6. CASE ReadStore
  BY <1>0, <1>6 DEF ReadStore, TypeOK, LocalsOK
<1> QED
  BY <1>1, <1>2, <1>3, <1>4, <1>5, <1>6

\* The first copy of a read keeps the types.
LEMMA TypeReadFirst ==
    ASSUME TypeOK, LocalsOK, ReadFirst
    PROVE  TypeOK' /\ LocalsOK'
<1> DEFINE n1 == FirstPart(read_ptr, rcnt')
<1>0. /\ Size \in Nat /\ MsgSize \in Nat
      /\ read_ptr \in Index /\ msg \in Message
      /\ buf \in [Index -> (0 .. MaxMsgs) \X Part]
      /\ rphase' = "second"
      /\ rcnt' = Least(MsgSize, ReadSpace)
      /\ rrest' = SecondPart(read_ptr, rcnt')
      /\ rnew' = Mask(read_ptr + n1)
  BY RingAssumption DEF TypeOK, ReadFirst, Message
<1>1. ReadSpace \in Nat
  BY <1>0, Spaces DEF TypeOK, ReadSpace
<1>2. /\ rcnt' \in 0 .. MsgSize /\ n1 \in 0 .. rcnt' /\ read_ptr + n1 <= Size
      /\ rrest' \in 0 .. rcnt' /\ rnew' \in Index
      /\ rrest' = 0 \/ rnew' = 0
  BY <1>0, <1>1, Counts
<1>3. msg' = [p \in Part |-> IF p <= n1 THEN buf[read_ptr + p - 1] ELSE msg[p]]
  BY DEF ReadFirst
<1> HIDE DEF n1
<1>4. ASSUME NEW p \in Part, p <= n1
      PROVE  read_ptr + p - 1 \in Index
  BY <1>0, <1>2, <1>4 DEF Index, Part
<1>5. msg' \in Message
  BY <1>0, <1>3, <1>4 DEF Message
<1>6. UNCHANGED <<buf, pointers, writer, handled, synths>>
  BY DEF ReadFirst
<1>7. TypeOK'
  BY <1>0, <1>2, <1>5, <1>6 DEF TypeOK, pointers, writer, synths, Message
<1>8. LocalsOK'
  BY <1>0, <1>2, <1>6 DEF LocalsOK, writer
<1> QED
  BY <1>7, <1>8

\* The second copy of a read keeps the types.
LEMMA TypeReadSecond ==
    ASSUME TypeOK, LocalsOK, ReadSecond
    PROVE  TypeOK' /\ LocalsOK'
<1> DEFINE n1 == rcnt - rrest
<1>0. /\ Size \in Nat /\ MsgSize \in Nat /\ MsgSize < Size
      /\ msg \in Message
      /\ buf \in [Index -> (0 .. MaxMsgs) \X Part]
      /\ rcnt \in 0 .. MsgSize /\ rrest \in 0 .. rcnt /\ rnew \in Index
      /\ rrest = 0 \/ rnew = 0
      /\ rphase' = "store" /\ rnew' = Mask(rnew + rrest)
  BY RingAssumption DEF TypeOK, LocalsOK, ReadSecond, Message
<1>1. rnew + rrest \in 0 .. Size - 1
  BY <1>0 DEF Index
<1>2. rnew' \in Index
  BY <1>0, <1>1, MaskSmall DEF Index
<1>3. msg' = [p \in Part |-> IF p \in n1 + 1 .. rcnt THEN buf[rnew + p - n1 - 1] ELSE msg[p]]
  BY DEF ReadSecond
<1>4. ASSUME NEW p \in Part, p \in n1 + 1 .. rcnt
      PROVE  rnew + p - n1 - 1 \in Index
  BY <1>0, <1>4 DEF Index, Part
<1> HIDE DEF n1
<1>5. msg' \in Message
  BY <1>0, <1>3, <1>4 DEF Message
<1>6. UNCHANGED <<buf, pointers, writer, rcnt, rrest, handled, synths>>
  BY DEF ReadSecond
<1>7. TypeOK'
  BY <1>0, <1>2, <1>5, <1>6 DEF TypeOK, pointers, writer, synths, Message
<1>8. LocalsOK'
  BY <1>0, <1>6 DEF LocalsOK, writer
<1> QED
  BY <1>7, <1>8

\* Every step of either thread keeps the types.
LEMMA TypeStep ==
    ASSUME TypeOK, LocalsOK, [Next]_vars
    PROVE  TypeOK' /\ LocalsOK'
<1>1. CASE UNCHANGED vars
  BY <1>1 DEF vars, TypeOK, LocalsOK
<1>2. CASE Next
  BY <1>2, TypeMidi, TypeWriteFirst, TypeWriteSecond, TypeAudio, TypeReadFirst,
     TypeReadSecond DEF Next, MidiStep, AudioStep
<1> QED
  BY <1>1, <1>2

\* Every variable keeps its type and both pointers stay offsets of the buffer,
\* even when a hello resets them in the middle of a read.
THEOREM RingTypes == Spec => []TypeOK
<1>1. Init => TypeOK /\ LocalsOK
  BY TypeInit
<1>2. TypeOK /\ LocalsOK /\ [Next]_vars => (TypeOK /\ LocalsOK)'
  BY TypeStep
<1> QED
  BY <1>1, <1>2, PTL DEF Spec

----------------------------------------------------------------------------
(***************************************************************************)
(* Separation, when no reset falls inside an operation.                    *)
(***************************************************************************)

RingInv == TypeOK /\ LocalsOK /\ CountsOK

\* Where a thread ends up that moves its pointer over cnt cells.
LEMMA Moves ==
    ASSUME NEW w \in Index, NEW r \in Index, NEW cnt \in 0 .. Size - 1
    PROVE  /\ cnt <= Unfilled(w, r) =>
                 Filled(Mask(w + cnt), r) = Filled(w, r) + cnt
           /\ cnt <= Filled(w, r) =>
                 Filled(w, Mask(r + cnt)) = Filled(w, r) - cnt
           /\ Mask(w + cnt) \in Index /\ Mask(r + cnt) \in Index
<1>0. Size \in Nat /\ w \in 0 .. Size - 1 /\ r \in 0 .. Size - 1
  BY RingAssumption DEF Index
<1>1. ASSUME NEW x \in Index
      PROVE  /\ Mask(x + cnt) = IF x + cnt < Size THEN x + cnt ELSE x + cnt - Size
             /\ Mask(x + cnt) \in Index
  <2>1. CASE x + cnt < Size
    BY <1>0, <2>1, MaskSmall DEF Index
  <2>2. CASE x + cnt >= Size
    BY <1>0, <2>2, MaskWrap DEF Index
  <2> QED
    BY <1>0, <2>1, <2>2 DEF Index
<1>2. /\ Filled(w, r) = IF w >= r THEN w - r ELSE w + Size - r
      /\ Unfilled(w, r) = Size - 1 - Filled(w, r)
  BY Spaces
<1>3. ASSUME cnt <= Unfilled(w, r)
      PROVE  Filled(Mask(w + cnt), r) = Filled(w, r) + cnt
  <2>1. Filled(Mask(w + cnt), r) =
          IF Mask(w + cnt) >= r THEN Mask(w + cnt) - r ELSE Mask(w + cnt) + Size - r
    BY <1>1, Spaces
  <2> QED
    BY <1>0, <1>1, <1>2, <1>3, <2>1 DEF Index
<1>4. ASSUME cnt <= Filled(w, r)
      PROVE  Filled(w, Mask(r + cnt)) = Filled(w, r) - cnt
  <2>1. Filled(w, Mask(r + cnt)) =
          IF w >= Mask(r + cnt) THEN w - Mask(r + cnt) ELSE w + Size - Mask(r + cnt)
    BY <1>1, Spaces
  <2> QED
    BY <1>0, <1>1, <1>2, <1>4, <2>1 DEF Index
<1> QED
  BY <1>1, <1>3, <1>4

\* The facts every step below starts from.
LEMMA RingFacts ==
    ASSUME TypeOK
    PROVE  /\ Size \in Nat /\ MsgSize \in Nat /\ 0 < MsgSize /\ MsgSize < Size
           /\ write_ptr \in Index /\ read_ptr \in Index
           /\ wcnt \in 0 .. Size - 1 /\ rcnt \in 0 .. Size - 1
           /\ ReadSpace \in 0 .. Size - 1
           /\ WriteSpace = Size - 1 - ReadSpace
<1>1. /\ Size \in Nat /\ MsgSize \in Nat /\ 0 < MsgSize /\ MsgSize < Size
      /\ write_ptr \in Index /\ read_ptr \in Index
      /\ wcnt \in 0 .. MsgSize /\ rcnt \in 0 .. MsgSize
  BY RingAssumption DEF TypeOK
<1>2. ReadSpace \in 0 .. Size - 1 /\ WriteSpace = Size - 1 - ReadSpace
  BY <1>1, Spaces DEF ReadSpace, WriteSpace
<1> QED
  BY <1>1, <1>2

\* Counts are taken from the room there is.
LEMMA CountsWriter ==
    ASSUME RingInv, Offer \/ WriteNothing \/ WriteFirst \/ WriteSecond \/ Hello
    PROVE  CountsOK'
<1> USE DEF pointers, reader, synths, ReadSpace, WriteSpace, Writing, Reading, RingInv
<1>0. MsgSize \in Nat /\ 0 < MsgSize
  BY RingFacts
<1>1. CASE Offer
  <2>1. WriteSpace' = WriteSpace /\ ReadSpace' = ReadSpace
    BY <1>1 DEF Offer
  <2>2. wphase' \in {"write", "idle"} /\ (wphase' = "write" => MsgSize <= WriteSpace)
    BY <1>0, <1>1, RingFacts DEF Offer
  <2> QED
    BY <1>1, <2>1, <2>2 DEF Offer, CountsOK
<1>2. CASE WriteNothing
  BY <1>0, <1>2 DEF WriteNothing, CountsOK
<1>3. CASE WriteFirst
  <2>1. /\ wcnt' <= WriteSpace
        /\ Mask(wnew' + wrest') = Mask(write_ptr + wcnt')
    BY <1>3, RingFacts, Counts DEF WriteFirst
  <2> QED
    BY <1>3, <2>1 DEF WriteFirst, CountsOK
<1>4. CASE WriteSecond
  BY <1>4 DEF WriteSecond, CountsOK
<1>5. CASE Hello
  BY <1>5 DEF Hello, CountsOK
<1> QED
  BY <1>1, <1>2, <1>3, <1>4, <1>5

\* The audio thread keeps the account of free and filled cells.
LEMMA CountsReader ==
    ASSUME RingInv,
           BeginPeriod \/ LastExit \/ Drain \/ ReadNothing \/ ReadFirst \/ ReadSecond
    PROVE  CountsOK'
<1> USE DEF pointers, writer, synths, ReadSpace, WriteSpace, Writing, Reading, RingInv
<1>0. MsgSize \in Nat /\ 0 < MsgSize
  BY RingFacts
<1>1. CASE BeginPeriod
  BY <1>1 DEF BeginPeriod, CountsOK
<1>2. CASE LastExit
  BY <1>2 DEF LastExit, CountsOK, reader
<1>3. CASE Drain
  <2>1. WriteSpace' = WriteSpace /\ ReadSpace' = ReadSpace
    BY <1>3 DEF Drain
  <2>2. rphase' \in {"read", "idle"} /\ (rphase' = "read" => MsgSize <= ReadSpace)
    BY <1>0, <1>3, RingFacts DEF Drain
  <2> QED
    BY <1>3, <2>1, <2>2 DEF Drain, CountsOK
<1>4. CASE ReadNothing
  BY <1>0, <1>4 DEF ReadNothing, CountsOK
<1>5. CASE ReadFirst
  <2>1. /\ rcnt' <= ReadSpace
        /\ Mask(rnew' + rrest') = Mask(read_ptr + rcnt')
    BY <1>5, RingFacts, Counts DEF ReadFirst
  <2> QED
    BY <1>5, <2>1 DEF ReadFirst, CountsOK
<1>6. CASE ReadSecond
  BY <1>6 DEF ReadSecond, CountsOK
<1> QED
  BY <1>1, <1>2, <1>3, <1>4, <1>5, <1>6

\* The writer's store only adds to what the reader has seen.
LEMMA CountsWriteStore ==
    ASSUME RingInv, WriteStore
    PROVE  CountsOK'
<1>1. write_ptr' = Mask(write_ptr + wcnt) /\ wcnt <= WriteSpace
  BY DEF WriteStore, RingInv, CountsOK, Writing
<1>2. ReadSpace' = ReadSpace + wcnt
  BY <1>1, RingFacts, Moves DEF WriteStore, ReadSpace, WriteSpace, RingInv
<1>3. ReadSpace <= ReadSpace'
  BY <1>2, RingFacts DEF RingInv
<1>4. /\ wphase' = "idle"
      /\ UNCHANGED <<read_ptr, rphase, rcnt, rrest, rnew>>
  BY DEF WriteStore, reader
<1>5. MsgSize <= ReadSpace => MsgSize <= ReadSpace'
  BY <1>2, RingFacts DEF RingInv
<1>6. rcnt <= ReadSpace => rcnt <= ReadSpace'
  BY <1>2, RingFacts DEF RingInv
<1> QED
  BY <1>4, <1>5, <1>6 DEF RingInv, CountsOK, Writing, Reading

\* The reader's store only adds to the room the writer has seen.
LEMMA CountsReadStore ==
    ASSUME RingInv, ReadStore
    PROVE  CountsOK'
<1>1. read_ptr' = Mask(read_ptr + rcnt) /\ rcnt <= ReadSpace
  BY DEF ReadStore, RingInv, CountsOK, Reading
<1>2. ReadSpace' = ReadSpace - rcnt
  BY <1>1, RingFacts, Moves DEF ReadStore, ReadSpace, RingInv
<1>3. WriteSpace' = Size - 1 - ReadSpace'
  <2>1. write_ptr' \in Index /\ read_ptr' \in Index
    BY <1>1, RingFacts, Moves DEF ReadStore, RingInv
  <2> QED
    BY <2>1, Spaces DEF WriteSpace, ReadSpace
<1>4. /\ rphase' = "drain"
      /\ UNCHANGED <<write_ptr, wphase, wcnt, wrest, wnew>>
  BY DEF ReadStore, writer
<1>5. MsgSize <= WriteSpace => MsgSize <= WriteSpace'
  BY <1>2, <1>3, RingFacts DEF RingInv
<1>6. wcnt <= WriteSpace => wcnt <= WriteSpace'
  BY <1>2, <1>3, RingFacts DEF RingInv
<1> QED
  BY <1>4, <1>5, <1>6 DEF RingInv, CountsOK, Writing, Reading

\* A reset outside of every operation leaves an empty ring.
LEMMA CountsReset ==
    ASSUME RingInv, ~racing, Go \/ EmptyPeriod
    PROVE  CountsOK'
BY DEF Go, EmptyPeriod, RingInv, CountsOK, Writing, Reading, writer, reader

\* Every step but a racing reset keeps the account.
LEMMA CountsStep ==
    ASSUME RingInv, ~racing, [Next]_vars
    PROVE  CountsOK'
<1>1. CASE UNCHANGED vars
  BY <1>1 DEF vars, RingInv, CountsOK, Writing, Reading, ReadSpace, WriteSpace
<1>2. CASE Next
  BY <1>2, CountsWriter, CountsReader, CountsWriteStore, CountsReadStore,
     CountsReset DEF Next, MidiStep, AudioStep
<1> QED
  BY <1>1, <1>2

\* The cells that a writer has room for are not the ones that can be read.
LEMMA CellsDiffer ==
    ASSUME NEW w \in Index, NEW r \in Index,
           NEW i \in 0 .. Unfilled(w, r) - 1, NEW j \in 0 .. Filled(w, r) - 1
    PROVE  Mask(w + i) # Mask(r + j)
<1>1. /\ Filled(w, r) = IF w >= r THEN w - r ELSE w + Size - r
      /\ Filled(w, r) \in 0 .. Size - 1
      /\ Unfilled(w, r) = Size - 1 - Filled(w, r)
  BY Spaces
<1>2. Size \in Nat /\ w \in 0 .. Size - 1 /\ r \in 0 .. Size - 1
  BY RingAssumption DEF Index
<1>3. Mask(w + i) = IF w + i < Size THEN w + i ELSE w + i - Size
  BY <1>1, <1>2, MaskSmall, MaskWrap
<1>4. Mask(r + j) = IF r + j < Size THEN r + j ELSE r + j - Size
  BY <1>1, <1>2, MaskSmall, MaskWrap
<1> QED
  BY <1>1, <1>2, <1>3, <1>4

\* Cells that are counted apart are apart.
LEMMA Apart ==
    ASSUME RingInv
    PROVE  CellsApart
<1>1. ASSUME Writing, NEW i \in 0 .. wcnt - 1, NEW j \in 0 .. ReadSpace - 1
      PROVE  Mask(write_ptr + i) # Mask(read_ptr + j)
  <2>1. i \in 0 .. WriteSpace - 1
    BY <1>1, RingFacts DEF RingInv, CountsOK
  <2> QED
    BY <2>1, RingFacts, CellsDiffer DEF RingInv, ReadSpace, WriteSpace
<1>2. Reading => rcnt <= ReadSpace
  BY DEF RingInv, CountsOK
<1> QED
  BY <1>1, <1>2 DEF CellsApart

\* The discipline is chosen once.
LEMMA RacingStays ==
    ASSUME [Next]_vars
    PROVE  racing' = racing
BY DEF Next, MidiStep, AudioStep, Offer, WriteNothing, WriteFirst, WriteSecond,
       WriteStore, Hello, Go, BeginPeriod, EmptyPeriod, LastExit, Drain,
       ReadNothing, ReadFirst, ReadSecond, ReadStore, vars, synths

\* The counts are only kept where resets stay outside the operations.
SafeInv == TypeOK /\ LocalsOK /\ (~racing => CountsOK)

\* As long as no reset falls inside an operation of the other thread, the MIDI
\* thread only fills cells that cannot be read, and the audio thread only reads
\* cells that are filled, for every size of ring and message.
THEOREM ThreadsApart ==
    Spec => []NoSharedCell
<1>1. Init => SafeInv
  BY TypeInit DEF SafeInv, Init, CountsOK, Writing, Reading
<1>2. SafeInv /\ [Next]_vars => SafeInv'
  BY TypeStep, CountsStep, RacingStays DEF SafeInv, RingInv
<1>3. SafeInv => NoSharedCell
  BY Apart DEF SafeInv, RingInv, NoSharedCell
<1> QED
  BY <1>1, <1>2, <1>3, PTL DEF Spec

----------------------------------------------------------------------------
(***************************************************************************)
(* The cells a copy touches, and products of MsgSize.                      *)
(***************************************************************************)

\* Two offsets added one after the other, and two that are less than a round
\* apart.
LEMMA MaskAdds ==
    ASSUME NEW w \in Index, NEW a \in Nat, NEW b \in Nat
    PROVE  /\ a < Size => Mask(w + a) \in Index
           /\ a + b < Size => Mask(Mask(w + a) + b) = Mask(w + (a + b))
           /\ a < Size /\ b < Size /\ Mask(w + a) = Mask(w + b) => a = b
<1>0. Size \in Nat /\ w \in 0 .. Size - 1
  BY RingAssumption DEF Index
<1>1. ASSUME NEW x \in Nat, x < Size
      PROVE  Mask(w + x) = IF w + x < Size THEN w + x ELSE w + x - Size
  BY <1>0, <1>1, MaskSmall, MaskWrap
<1>2. ASSUME a < Size PROVE Mask(w + a) \in Index
  BY <1>0, <1>1, <1>2 DEF Index
<1>3. ASSUME a + b < Size PROVE Mask(Mask(w + a) + b) = Mask(w + (a + b))
  <2>1. Mask(w + a) = IF w + a < Size THEN w + a ELSE w + a - Size
    BY <1>0, <1>1, <1>3
  <2>2. Mask(w + (a + b)) = IF w + (a + b) < Size THEN w + (a + b) ELSE w + (a + b) - Size
    BY <1>0, <1>1, <1>3
  <2>3. CASE w + a < Size
    BY <1>0, <2>1, <2>3
  <2>4. CASE w + a >= Size
    <3>1. w + a - Size + b \in 0 .. Size - 1 /\ w + (a + b) >= Size
      BY <1>0, <1>3, <2>4
    <3>2. Mask(w + a - Size + b) = w + a - Size + b
      BY <3>1, MaskSmall
    <3> QED
      BY <1>0, <2>1, <2>2, <2>4, <3>1, <3>2
  <2> QED
    BY <1>0, <2>3, <2>4
<1>4. ASSUME a < Size, b < Size, Mask(w + a) = Mask(w + b) PROVE a = b
  BY <1>0, <1>1, <1>4
<1> QED
  BY <1>2, <1>3, <1>4

\* The cells of the two parts of a copy, counted from its pointer.
LEMMA CopyCells ==
    ASSUME NEW w \in Index, NEW cnt \in 0 .. MsgSize
    PROVE  LET n1  == FirstPart(w, cnt)
               n2  == SecondPart(w, cnt)
               new == Mask(w + n1)
           IN  /\ n1 \in 0 .. cnt /\ n2 \in 0 .. cnt /\ n1 = cnt - n2 /\ new \in Index
               /\ \A p \in 1 .. n1 : Mask(w + p - 1) = w + p - 1
               /\ \A p \in n1 + 1 .. cnt : Mask(w + p - 1) = new + p - n1 - 1
               /\ \A i \in w .. w + n1 - 1 : Mask(w + (i - w)) = i
               /\ \A i \in new .. new + n2 - 1 : Mask(w + (n1 + i - new)) = i
<1> DEFINE n1  == FirstPart(w, cnt)
           n2  == SecondPart(w, cnt)
           new == Mask(w + n1)
<1>0. Size \in Nat /\ w \in 0 .. Size - 1 /\ MsgSize \in Nat /\ MsgSize < Size
  BY RingAssumption DEF Index
<1>1. /\ n1 \in 0 .. cnt /\ n2 \in 0 .. cnt /\ n1 = cnt - n2 /\ w + n1 <= Size
      /\ new \in Index
      /\ n2 = 0 \/ new = 0
  BY Parts
<1> HIDE DEF n1, n2
<1>2. ASSUME NEW p \in 1 .. n1 PROVE Mask(w + p - 1) = w + p - 1
  BY <1>0, <1>1, MaskSmall
<1>3. ASSUME NEW b \in 0 .. n2 - 1 PROVE Mask(w + (n1 + b)) = new + b
  <2>0. n1 \in Nat /\ b \in Nat /\ n1 + b < Size
    BY <1>0, <1>1
  <2>1. Mask(w + (n1 + b)) = Mask(new + b)
    BY <2>0, MaskAdds
  <2>2. Mask(new + b) = new + b
    BY <1>0, <1>1, MaskSmall DEF Index
  <2> QED
    BY <2>1, <2>2
<1> HIDE DEF new
<1>4. ASSUME NEW p \in n1 + 1 .. cnt PROVE Mask(w + p - 1) = new + p - n1 - 1
  <2>1. p - n1 - 1 \in 0 .. n2 - 1 /\ w + (n1 + (p - n1 - 1)) = w + p - 1
    BY <1>0, <1>1
  <2>2. Mask(w + (n1 + (p - n1 - 1))) = new + (p - n1 - 1)
    BY <2>1, <1>3
  <2> QED
    BY <1>0, <1>1, <2>1, <2>2 DEF Index
<1>5. ASSUME NEW i \in w .. w + n1 - 1 PROVE Mask(w + (i - w)) = i
  <2>1. i \in 0 .. Size - 1 /\ w + (i - w) = i
    BY <1>0, <1>1
  <2> QED
    BY <2>1, MaskSmall
<1>6. ASSUME NEW i \in new .. new + n2 - 1 PROVE Mask(w + (n1 + i - new)) = i
  <2>1. i - new \in 0 .. n2 - 1 /\ n1 + (i - new) = n1 + i - new /\ new + (i - new) = i
    BY <1>0, <1>1 DEF Index
  <2> QED
    BY <2>1, <1>3
<1> USE DEF n1, n2, new
<1> QED
  BY <1>1, <1>2, <1>4, <1>5, <1>6

\* More messages take more cells.
LEMMA Products ==
    ASSUME NEW a \in Nat, NEW b \in Nat, NEW m \in Nat \ {0}
    PROVE  /\ a * m \in Nat /\ a <= a * m
           /\ a <= b => a * m <= b * m
           /\ (a + 1) * m = a * m + m
<1>1. a * m \in Nat /\ a <= a * m /\ (a + 1) * m = a * m + m
  OBVIOUS
<1>2. ASSUME a <= b PROVE a * m <= b * m
  <2>1. PICK d \in Nat : b = a + d
    BY <1>2
  <2>2. b * m = a * m + d * m /\ d * m \in Nat /\ a * m \in Nat
    BY <2>1
  <2> QED
    BY <2>2
<1> QED
  BY <1>1, <1>2

\* The number of whole messages in so many cells.
LEMMA Quotient ==
    ASSUME NEW m \in Nat \ {0}, NEW q \in Nat, NEW x \in Nat
    PROVE  /\ x \div m \in Nat
           /\ q * m <= x /\ x < q * m + m => x \div m = q
           /\ q * m + m <= x => q < x \div m
<1> DEFINE c == x \div m
<1>1. c \in Nat /\ c * m <= x /\ x < c * m + m
  OBVIOUS
<1> HIDE DEF c
<1>2. /\ c * m \in Nat /\ q * m \in Nat
      /\ c < q => c * m + m <= q * m
      /\ q < c => q * m + m <= c * m
      /\ c <= q => c * m <= q * m
  BY <1>1, Products
<1>3. ASSUME q * m <= x, x < q * m + m PROVE c = q
  BY <1>1, <1>2, <1>3
<1>4. ASSUME q * m + m <= x PROVE q < c
  BY <1>1, <1>2, <1>4
<1> USE DEF c
<1> QED
  BY <1>1, <1>3, <1>4

\* Part p of the kth of q messages lies among the cells of the q.
LEMMA InMessages ==
    ASSUME NEW q \in Nat, NEW k \in 1 .. q, NEW p \in Part
    PROVE  /\ (k - 1) * MsgSize \in Nat
           /\ (k - 1) * MsgSize + (p - 1) \in 0 .. q * MsgSize - 1
<1>1. MsgSize \in Nat \ {0} /\ k - 1 \in Nat /\ k - 1 + 1 = k /\ k \in Nat /\ p \in 1 .. MsgSize
  BY RingAssumption DEF Part
<1>2. (k - 1) * MsgSize \in Nat /\ k * MsgSize = (k - 1) * MsgSize + MsgSize
  <2> DEFINE a == k - 1
  <2>1. a \in Nat /\ a + 1 = k
    BY <1>1
  <2> HIDE DEF a
  <2>2. a * MsgSize \in Nat /\ (a + 1) * MsgSize = a * MsgSize + MsgSize
    BY <1>1, <2>1, Products
  <2> QED
    BY <2>1, <2>2 DEF a
<1>3. k * MsgSize <= q * MsgSize /\ q * MsgSize \in Nat
  BY <1>1, Products
<1> QED
  BY <1>1, <1>2, <1>3

----------------------------------------------------------------------------
(***************************************************************************)
(* Only whole messages between the pointers, and copies that are what they *)
(* copy, when no reset falls inside an operation.                          *)
(***************************************************************************)

\* A store moves its pointer by a whole message, and a reset leaves none.
LEMMA WholesStep ==
    ASSUME RingInv, CopiesOK, ~racing, [Next]_vars
    PROVE  WholeMessages'
<1>0. PICK q \in 0 .. Size : ReadSpace = q * MsgSize
  BY DEF CopiesOK, WholeMessages
<1>1. /\ Size \in Nat /\ MsgSize \in Nat \ {0} /\ q \in Nat
      /\ ReadSpace \in 0 .. Size - 1 /\ WriteSpace = Size - 1 - ReadSpace
      /\ write_ptr \in Index /\ read_ptr \in Index
  BY RingFacts DEF RingInv
<1>2. CASE UNCHANGED pointers
  BY <1>0, <1>2 DEF pointers, WholeMessages, ReadSpace
<1>3. CASE WriteStore
  <2>1. wcnt = MsgSize /\ wcnt <= WriteSpace /\ wnew = Mask(write_ptr + wcnt)
    BY <1>3 DEF WriteStore, RingInv, CountsOK, CopiesOK, WriteCopied, Writing
  <2>2. ReadSpace' = ReadSpace + MsgSize
    BY <1>1, <1>3, <2>1, RingFacts, Moves DEF WriteStore, ReadSpace, WriteSpace, RingInv
  <2>3. (q + 1) * MsgSize = q * MsgSize + MsgSize /\ q + 1 <= (q + 1) * MsgSize
    BY <1>1, Products
  <2>4. q + 1 \in 0 .. Size
    BY <1>0, <1>1, <2>1, <2>3
  <2> QED
    BY <1>0, <2>2, <2>3, <2>4 DEF WholeMessages
<1>4. CASE ReadStore
  <2>1. rcnt = MsgSize /\ rcnt <= ReadSpace /\ rnew = Mask(read_ptr + rcnt)
    BY <1>4 DEF ReadStore, RingInv, CountsOK, CopiesOK, ReadCopied, Reading
  <2>2. ReadSpace' = ReadSpace - MsgSize
    BY <1>1, <1>4, <2>1, RingFacts, Moves DEF ReadStore, ReadSpace, RingInv
  <2>3. q # 0
    BY <1>0, <1>1, <2>1
  <2>4. PICK r \in 0 .. Size : q = r + 1
    BY <1>1, <2>3
  <2>5. (r + 1) * MsgSize = r * MsgSize + MsgSize /\ r * MsgSize \in Nat
    BY <1>1, Products
  <2>6. ReadSpace' = r * MsgSize
    BY <1>0, <1>1, <2>2, <2>4, <2>5
  <2> QED
    BY <2>6 DEF WholeMessages
<1>5. CASE write_ptr' = 0 /\ read_ptr' = 0
  <2>1. ReadSpace' = 0
    BY <1>1, <1>5, Spaces DEF ReadSpace, Index
  <2>2. 0 * MsgSize = 0 /\ 0 \in 0 .. Size
    BY <1>1
  <2> QED
    BY <2>1, <2>2 DEF WholeMessages
<1>6. \/ UNCHANGED pointers
      \/ WriteStore \/ ReadStore
      \/ write_ptr' = 0 /\ read_ptr' = 0
  BY DEF Next, MidiStep, AudioStep, Offer, WriteNothing, WriteFirst, WriteSecond,
         Hello, Go, BeginPeriod, EmptyPeriod, LastExit, Drain, ReadNothing,
         ReadFirst, ReadSecond, vars, pointers
<1> QED
  BY <1>2, <1>3, <1>4, <1>5, <1>6

\* The cells that can be read are not written.
LEMMA ReadableKept ==
    ASSUME RingInv, CopiesOK, WriteFirst \/ WriteSecond,
           NEW j \in 0 .. ReadSpace - 1
    PROVE  buf'[Mask(read_ptr + j)] = buf[Mask(read_ptr + j)]
<1> DEFINE c == Mask(read_ptr + j)
<1>1. /\ Size \in Nat /\ MsgSize \in Nat \ {0} /\ MsgSize < Size
      /\ write_ptr \in Index /\ read_ptr \in Index
      /\ ReadSpace \in 0 .. Size - 1 /\ WriteSpace = Size - 1 - ReadSpace
  BY RingFacts DEF RingInv
<1>2. c \in Index
  BY <1>1, MaskAdds
<1>3. ASSUME NEW i \in 0 .. WriteSpace - 1 PROVE Mask(write_ptr + i) # c
  BY <1>1, <1>3, CellsDiffer DEF ReadSpace, WriteSpace
<1> HIDE DEF c
<1>4. CASE WriteFirst
  <2> DEFINE n1 == FirstPart(write_ptr, wcnt')
  <2>1. wcnt' \in 0 .. MsgSize /\ wcnt' <= WriteSpace
    BY <1>1, <1>4, Counts DEF WriteFirst
  <2>2. /\ n1 \in 0 .. wcnt'
        /\ \A i \in write_ptr .. write_ptr + n1 - 1 : Mask(write_ptr + (i - write_ptr)) = i
    BY <1>1, <2>1, CopyCells
  <2>3. buf' = [i \in Index |-> IF i \in write_ptr .. write_ptr + n1 - 1
                                THEN <<offered + 1, i - write_ptr + 1>> ELSE buf[i]]
    BY <1>4 DEF WriteFirst
  <2> HIDE DEF n1
  <2>4. c \notin write_ptr .. write_ptr + n1 - 1
    <3> SUFFICES ASSUME c \in write_ptr .. write_ptr + n1 - 1 PROVE FALSE
      OBVIOUS
    <3>1. c - write_ptr \in 0 .. WriteSpace - 1
      BY <1>1, <2>1, <2>2 DEF Index
    <3> QED
      BY <1>3, <2>2, <3>1
  <2>5. buf'[c] = buf[c]
    BY <1>2, <2>3, <2>4
  <2> QED
    BY <2>5 DEF c
<1>5. CASE WriteSecond
  <2> DEFINE n1 == FirstPart(write_ptr, wcnt)
  <2>1. /\ wcnt = MsgSize /\ wcnt <= WriteSpace
        /\ wrest = SecondPart(write_ptr, wcnt) /\ wnew = Mask(write_ptr + n1)
    BY <1>5 DEF WriteSecond, RingInv, CountsOK, CopiesOK, WriteCopied, Writing
  <2>2. /\ n1 \in 0 .. wcnt /\ wrest \in 0 .. wcnt /\ n1 = wcnt - wrest /\ wnew \in Index
        /\ \A i \in wnew .. wnew + wrest - 1 : Mask(write_ptr + (n1 + i - wnew)) = i
    BY <1>1, <2>1, CopyCells
  <2>3. buf' = [i \in Index |-> IF i \in wnew .. wnew + wrest - 1
                  THEN <<offered + 1, wcnt - wrest + i - wnew + 1>> ELSE buf[i]]
    BY <1>5 DEF WriteSecond
  <2> HIDE DEF n1
  <2>4. c \notin wnew .. wnew + wrest - 1
    <3> SUFFICES ASSUME c \in wnew .. wnew + wrest - 1 PROVE FALSE
      OBVIOUS
    <3>1. n1 + c - wnew \in 0 .. WriteSpace - 1
      BY <1>1, <2>1, <2>2 DEF Index
    <3> QED
      BY <1>3, <2>2, <3>1
  <2>5. buf'[c] = buf[c]
    BY <1>2, <2>3, <2>4
  <2> QED
    BY <2>5 DEF c
<1> QED
  BY <1>4, <1>5

\* The first part of a write leaves the first part of the message.
LEMMA FirstCopied ==
    ASSUME RingInv, ~racing, WriteFirst
    PROVE  WriteCopied'
<1> DEFINE n1 == FirstPart(write_ptr, MsgSize)
<1>1. /\ Size \in Nat /\ MsgSize \in Nat \ {0} /\ MsgSize < Size
      /\ write_ptr \in Index /\ WriteSpace \in Nat
  BY RingFacts DEF RingInv
<1>2. MsgSize <= WriteSpace
  BY DEF WriteFirst, RingInv, CountsOK
<1>3. /\ wcnt' = MsgSize
      /\ wrest' = SecondPart(write_ptr, MsgSize) /\ wnew' = Mask(write_ptr + n1)
      /\ buf' = [i \in Index |-> IF i \in write_ptr .. write_ptr + n1 - 1
                                 THEN <<offered + 1, i - write_ptr + 1>> ELSE buf[i]]
      /\ wphase' = "second" /\ write_ptr' = write_ptr /\ offered' = offered
  BY <1>1, <1>2, Counts DEF WriteFirst, pointers
<1>4. /\ n1 \in 0 .. MsgSize /\ MsgSize - wrest' = n1
      /\ \A p \in 1 .. n1 : Mask(write_ptr + p - 1) = write_ptr + p - 1
      /\ \A i \in write_ptr .. write_ptr + n1 - 1 : Mask(write_ptr + (i - write_ptr)) = i
  <2>1. MsgSize \in 0 .. MsgSize
    BY <1>1
  <2>2. /\ n1 \in 0 .. MsgSize /\ SecondPart(write_ptr, MsgSize) \in 0 .. MsgSize
        /\ n1 = MsgSize - SecondPart(write_ptr, MsgSize)
        /\ \A p \in 1 .. n1 : Mask(write_ptr + p - 1) = write_ptr + p - 1
        /\ \A i \in write_ptr .. write_ptr + n1 - 1 : Mask(write_ptr + (i - write_ptr)) = i
    BY <1>1, <2>1, CopyCells
  <2> HIDE DEF n1
  <2> QED
    BY <1>1, <1>3, <2>2
<1> HIDE DEF n1
<1>5. ASSUME NEW p \in 1 .. n1
      PROVE  At(write_ptr)'[p] = <<offered + 1, p>>
  <2>1. p \in Part /\ p - 1 \in Nat /\ p - 1 < Size /\ write_ptr + (p - 1) = write_ptr + p - 1
    BY <1>1, <1>4 DEF Part, Index
  <2>2. write_ptr + p - 1 \in Index
    BY <1>1, <1>4, <2>1, MaskAdds
  <2>3. /\ write_ptr + p - 1 \in write_ptr .. write_ptr + n1 - 1
        /\ (write_ptr + p - 1) - write_ptr + 1 = p
    BY <1>1, <1>4 DEF Index
  <2>4. buf'[write_ptr + p - 1] = <<offered + 1, p>>
    BY <1>3, <2>2, <2>3
  <2> QED
    BY <1>3, <1>4, <2>1, <2>4 DEF At
<1> QED
  BY <1>3, <1>4, <1>5 DEF WriteCopied, Writing, n1

\* The second part of a write completes the message.
LEMMA SecondCopied ==
    ASSUME RingInv, CopiesOK, WriteSecond
    PROVE  WriteCopied'
<1> DEFINE n1 == FirstPart(write_ptr, MsgSize)
<1>1. /\ Size \in Nat /\ MsgSize \in Nat \ {0} /\ MsgSize < Size /\ write_ptr \in Index
  BY RingFacts DEF RingInv
<1>2. /\ wcnt = MsgSize /\ wrest = SecondPart(write_ptr, MsgSize) /\ wnew = Mask(write_ptr + n1)
      /\ \A p \in 1 .. wcnt - wrest : At(write_ptr)[p] = <<offered + 1, p>>
  BY DEF WriteSecond, CopiesOK, WriteCopied, Writing
<1>3. /\ buf' = [i \in Index |-> IF i \in wnew .. wnew + wrest - 1
                   THEN <<offered + 1, wcnt - wrest + i - wnew + 1>> ELSE buf[i]]
      /\ wphase' = "store" /\ UNCHANGED <<write_ptr, wcnt, offered>>
  BY DEF WriteSecond, pointers
<1>4. /\ n1 \in 0 .. MsgSize /\ wrest \in 0 .. MsgSize /\ n1 = MsgSize - wrest
      /\ wnew \in Index
      /\ \A p \in n1 + 1 .. MsgSize : Mask(write_ptr + p - 1) = wnew + p - n1 - 1
      /\ \A i \in wnew .. wnew + wrest - 1 : Mask(write_ptr + (n1 + i - wnew)) = i
  <2>1. MsgSize \in 0 .. MsgSize
    BY <1>1
  <2>2. /\ n1 \in 0 .. MsgSize /\ wrest \in 0 .. MsgSize /\ n1 = MsgSize - wrest
        /\ wnew \in Index
    BY <1>1, <1>2, <2>1, CopyCells
  <2>3. \A p \in n1 + 1 .. MsgSize : Mask(write_ptr + p - 1) = wnew + p - n1 - 1
    BY <1>1, <1>2, <2>1, CopyCells
  <2>4. \A i \in wnew .. wnew + wrest - 1 : Mask(write_ptr + (n1 + i - wnew)) = i
    BY <1>1, <1>2, <2>1, CopyCells
  <2> QED
    BY <2>2, <2>3, <2>4
<1> HIDE DEF n1
<1>5. ASSUME NEW p \in Part
      PROVE  buf'[Mask(write_ptr + p - 1)] = <<offered + 1, p>>
  <2> DEFINE c == Mask(write_ptr + p - 1)
  <2>1. p - 1 \in Nat /\ p - 1 < Size /\ write_ptr + (p - 1) = write_ptr + p - 1
    BY <1>1 DEF Part, Index
  <2>2. c \in Index
    BY <1>1, <2>1, MaskAdds
  <2>3. CASE p <= n1
    <3>1. c \notin wnew .. wnew + wrest - 1
      <4> SUFFICES ASSUME c \in wnew .. wnew + wrest - 1 PROVE FALSE
        OBVIOUS
      <4> DEFINE a == n1 + c - wnew
      <4>1. Mask(write_ptr + a) = Mask(write_ptr + (p - 1))
        BY <1>4, <2>1
      <4>2. a \in n1 .. MsgSize - 1
        <5> HIDE DEF c
        <5> QED BY <1>1, <1>4 DEF Index
      <4> HIDE DEF a
      <4>3. a \in Nat /\ a < Size /\ a # p - 1
        BY <1>1, <1>4, <2>3, <4>2 DEF Part
      <4> QED
        BY <1>1, <2>1, <4>1, <4>3, MaskAdds
    <3>2. buf'[c] = buf[c]
      BY <1>3, <2>2, <3>1
    <3>3. At(write_ptr)[p] = <<offered + 1, p>>
      BY <1>1, <1>2, <1>4, <2>3 DEF Part
    <3> QED
      BY <3>2, <3>3 DEF At
  <2>4. CASE p > n1
    <3>1. c = wnew + p - n1 - 1
      BY <1>4, <2>4 DEF Part
    <3>2. c \in wnew .. wnew + wrest - 1 /\ wcnt - wrest + c - wnew + 1 = p
      <4>1. wnew \in Nat
        BY <1>1, <1>4 DEF Index
      <4> HIDE DEF c
      <4> QED
        BY <1>1, <1>2, <1>4, <2>4, <3>1, <4>1 DEF Part
    <3> QED
      BY <1>3, <2>2, <3>2
  <2> QED
    BY <1>4, <2>3, <2>4 DEF Part
<1>6. At(write_ptr)' = Whole(offered + 1)
  BY <1>3, <1>5 DEF At, Whole
<1> QED
  BY <1>2, <1>3, <1>6 DEF WriteCopied, Writing

\* No step of the audio thread disturbs a write, and no other step of the MIDI
\* thread is in the middle of one.
LEMMA WriteCopiedStep ==
    ASSUME RingInv, CopiesOK, ~racing, [Next]_vars
    PROVE  WriteCopied'
<1>1. CASE WriteFirst
  BY <1>1, FirstCopied
<1>2. CASE WriteSecond
  BY <1>2, SecondCopied
<1>3. CASE Offer \/ WriteNothing \/ WriteStore \/ Hello \/ Go
  BY <1>3 DEF Offer, WriteNothing, WriteStore, Hello, Go, CopiesOK, WriteCopied, Writing
<1>4. CASE EmptyPeriod
  BY <1>4 DEF EmptyPeriod, writer, WriteCopied, Writing
<1>5. CASE UNCHANGED <<writer, buf, write_ptr>>
  BY <1>5 DEF writer, CopiesOK, WriteCopied, Writing, At
<1>6. \/ MidiStep \/ EmptyPeriod
      \/ UNCHANGED <<writer, buf, write_ptr>>
  BY DEF Next, AudioStep, BeginPeriod, EmptyPeriod, LastExit, Drain, ReadNothing,
         ReadFirst, ReadSecond, ReadStore, vars, pointers, writer
<1> QED
  BY <1>1, <1>2, <1>3, <1>4, <1>5, <1>6 DEF MidiStep

\* The two parts of a read take what lies at the read pointer.
LEMMA PartsRead ==
    ASSUME RingInv, CopiesOK, ReadFirst \/ ReadSecond
    PROVE  ReadCopied'
<1>1. /\ Size \in Nat /\ MsgSize \in Nat \ {0} /\ MsgSize < Size
      /\ read_ptr \in Index /\ ReadSpace \in Nat /\ msg \in Message
  BY RingFacts DEF RingInv, TypeOK, Message
<1>2. CASE ReadFirst
  <2> DEFINE n1 == FirstPart(read_ptr, rcnt')
  <2>1. MsgSize <= ReadSpace
    BY <1>2 DEF ReadFirst, RingInv, CountsOK
  <2>2. /\ rcnt' = MsgSize
        /\ rrest' = SecondPart(read_ptr, rcnt') /\ rnew' = Mask(read_ptr + n1)
        /\ msg' = [p \in Part |-> IF p <= n1 THEN buf[read_ptr + p - 1] ELSE msg[p]]
        /\ rphase' = "second" /\ UNCHANGED <<read_ptr, buf>>
    BY <1>1, <1>2, <2>1, Counts DEF ReadFirst, pointers
  <2>3. /\ n1 \in 0 .. MsgSize /\ rcnt' - rrest' = n1
        /\ \A p \in 1 .. n1 : Mask(read_ptr + p - 1) = read_ptr + p - 1
    BY <1>1, <2>2, CopyCells
  <2> HIDE DEF n1
  <2>4. ASSUME NEW p \in 1 .. n1 PROVE msg'[p] = At(read_ptr)'[p]
    <3>1. p \in Part /\ p <= n1
      BY <1>1, <2>3 DEF Part
    <3> QED
      BY <2>2, <2>3, <3>1 DEF At
  <2> QED
    BY <2>2, <2>3, <2>4 DEF ReadCopied, Reading, n1
<1>3. CASE ReadSecond
  <2> DEFINE n1 == rcnt - rrest
  <2>1. /\ rcnt = MsgSize /\ rrest = SecondPart(read_ptr, MsgSize)
        /\ rnew = Mask(read_ptr + FirstPart(read_ptr, MsgSize))
        /\ \A p \in 1 .. n1 : msg[p] = At(read_ptr)[p]
    BY <1>3 DEF ReadSecond, CopiesOK, ReadCopied, Reading
  <2>2. /\ msg' = [p \in Part |-> IF p \in n1 + 1 .. rcnt THEN buf[rnew + p - n1 - 1]
                                  ELSE msg[p]]
        /\ rphase' = "store" /\ UNCHANGED <<read_ptr, buf, rcnt>>
    BY <1>3 DEF ReadSecond, pointers
  <2>3. /\ n1 = FirstPart(read_ptr, MsgSize) /\ n1 \in 0 .. MsgSize
        /\ \A p \in n1 + 1 .. MsgSize : Mask(read_ptr + p - 1) = rnew + p - n1 - 1
    <3> DEFINE first == FirstPart(read_ptr, MsgSize)
    <3>1. MsgSize \in 0 .. MsgSize
      BY <1>1
    <3>2. /\ first \in 0 .. MsgSize
          /\ SecondPart(read_ptr, MsgSize) \in 0 .. MsgSize
          /\ first = MsgSize - SecondPart(read_ptr, MsgSize)
      BY <1>1, <3>1, CopyCells
    <3>3. \A p \in first + 1 .. MsgSize :
             Mask(read_ptr + p - 1) = Mask(read_ptr + first) + p - first - 1
      BY <1>1, <3>1, CopyCells
    <3>4. n1 = first
      BY <1>1, <2>1, <3>2
    <3> QED
      BY <2>1, <3>2, <3>3, <3>4
  <2> HIDE DEF n1
  <2>4. ASSUME NEW p \in Part PROVE msg'[p] = At(read_ptr)[p]
    <3>1. CASE p <= n1
      BY <1>1, <2>1, <2>2, <2>3, <3>1 DEF Part
    <3>2. CASE p > n1
      BY <1>1, <2>1, <2>2, <2>3, <3>2 DEF Part, At
    <3> QED
      BY <1>1, <2>3, <3>1, <3>2 DEF Part
  <2>5. msg' = At(read_ptr)
    BY <2>2, <2>4 DEF At
  <2>6. At(read_ptr)' = At(read_ptr)
    BY <2>2 DEF At
  <2> QED
    BY <2>1, <2>2, <2>5, <2>6 DEF ReadCopied, Reading
<1> QED
  BY <1>2, <1>3

\* The MIDI thread writes nothing where a read copies.
LEMMA ReadUndisturbed ==
    ASSUME RingInv, CopiesOK, WriteFirst \/ WriteSecond
    PROVE  ReadCopied'
<1>1. UNCHANGED <<reader, read_ptr>>
  BY DEF WriteFirst, WriteSecond, pointers
<1>2. ASSUME Reading PROVE At(read_ptr)' = At(read_ptr)
  <2>1. MsgSize <= ReadSpace
    BY <1>2 DEF RingInv, CountsOK, CopiesOK, ReadCopied
  <2>2. ASSUME NEW p \in Part
        PROVE  buf'[Mask(read_ptr + p - 1)] = buf[Mask(read_ptr + p - 1)]
    <3>1. p - 1 \in 0 .. ReadSpace - 1 /\ read_ptr + (p - 1) = read_ptr + p - 1
      BY <2>1, RingFacts DEF RingInv, Part, Index
    <3> QED
      BY <3>1, ReadableKept
  <2> QED
    BY <1>1, <2>2 DEF At
<1>3. Reading' = Reading
  BY <1>1 DEF reader, Reading
<1> QED
  BY <1>1, <1>2, <1>3 DEF reader, CopiesOK, ReadCopied, Reading

\* A read that has begun ends with the message it began with.
LEMMA ReadCopiedStep ==
    ASSUME RingInv, CopiesOK, ~racing, [Next]_vars
    PROVE  ReadCopied'
<1>1. CASE ReadFirst \/ ReadSecond
  BY <1>1, PartsRead
<1>2. CASE WriteFirst \/ WriteSecond
  BY <1>2, ReadUndisturbed
<1>3. CASE BeginPeriod \/ Drain \/ ReadNothing \/ ReadStore
  <2>1. rphase' \in {"drain", "read", "idle"}
    BY <1>3 DEF BeginPeriod, Drain, ReadNothing, ReadStore
  <2> QED
    BY <2>1 DEF ReadCopied, Reading
<1>4. CASE Go \/ EmptyPeriod
  BY <1>4 DEF Go, EmptyPeriod, reader, ReadCopied, Reading
<1>5. CASE UNCHANGED <<reader, buf, read_ptr>>
  BY <1>5 DEF reader, CopiesOK, ReadCopied, Reading, At
<1>6. \/ AudioStep \/ Go \/ WriteFirst \/ WriteSecond
      \/ UNCHANGED <<reader, buf, read_ptr>>
  BY DEF Next, MidiStep, Offer, WriteNothing, WriteStore, Hello, LastExit, vars,
         pointers, reader
<1> QED
  BY <1>1, <1>2, <1>3, <1>4, <1>5, <1>6 DEF AudioStep

\* Counts and copies are only kept where resets stay outside the operations.
FifoInv == SafeInv /\ (~racing => CopiesOK)

\* Every step of either thread keeps them.
LEMMA FifoInvStep ==
    ASSUME FifoInv, [Next]_vars
    PROVE  FifoInv'
<1>1. SafeInv' /\ racing' = racing
  BY TypeStep, CountsStep, RacingStays DEF FifoInv, SafeInv, RingInv
<1>2. ~racing => CopiesOK'
  BY WholesStep, WriteCopiedStep, ReadCopiedStep
     DEF FifoInv, SafeInv, RingInv, CopiesOK
<1> QED
  BY <1>1, <1>2 DEF FifoInv

\* An empty ring holds no message and nobody copies.
LEMMA FifoInvInit ==
    Init => FifoInv
<1> SUFFICES ASSUME Init PROVE FifoInv
  OBVIOUS
<1>1. SafeInv
  BY TypeInit DEF SafeInv, Init, CountsOK, Writing, Reading
<1>2. ReadSpace = 0
  BY <1>1, Spaces DEF SafeInv, TypeOK, Init, ReadSpace
<1>3. 0 * MsgSize = 0 /\ 0 \in 0 .. Size
  BY RingAssumption
<1>4. CopiesOK
  BY <1>2, <1>3 DEF CopiesOK, WholeMessages, WriteCopied, ReadCopied, Writing, Reading, Init
<1> QED
  BY <1>1, <1>4 DEF FifoInv

----------------------------------------------------------------------------
(***************************************************************************)
(* The ring implements the queue of NoteQueue: each step is one of the     *)
(* queue's or leaves the queue alone.                                      *)
(***************************************************************************)

\* A sequence is the function of its elements.
LEMMA SeqIsItsElements ==
    ASSUME NEW s \in Seq(Nat), NEW n \in Nat, Len(s) = n
    PROVE  s = [k \in 1 .. n |-> s[k]]
<1>1. s \in [1 .. n -> Nat]
  BY LenProperties
<1> QED
  BY <1>1

\* What a thread gives to rbMidiNote has a number.
LEMMA NumberType ==
    ASSUME NEW m \in Message
    PROVE  Number(m) \in Nat
<1>1. 1 \in Part /\ MaxMsgs \in Nat
  BY RingAssumption DEF Part
<1>2. m[1] \in (0 .. MaxMsgs) \X Part
  BY <1>1 DEF Message
<1> QED
  BY <1>1, <1>2 DEF Number

\* A position has a message, torn or not.
LEMMA AtType ==
    ASSUME TypeOK, NEW x \in Nat
    PROVE  At(x) \in Message
<1>1. Size \in Nat \ {0} /\ buf \in [Index -> (0 .. MaxMsgs) \X Part]
  BY RingAssumption DEF TypeOK
<1>2. ASSUME NEW p \in Part PROVE Mask(x + p - 1) \in Index
  <2>1. x + p - 1 \in Nat
    BY RingAssumption DEF Part
  <2> QED
    BY <1>1, <2>1 DEF Mask, Index
<1> QED
  BY <1>1, <1>2 DEF At, Message

\* The queue of the messages between the pointers.
LEMMA QueueIs ==
    ASSUME TypeOK, NEW q \in Nat, ReadSpace = q * MsgSize
    PROVE  /\ Queue = [k \in 1 .. q |-> Number(At(read_ptr + (k - 1) * MsgSize))]
           /\ Queue \in Seq(Nat) /\ Len(Queue) = q
<1>1. MsgSize \in Nat \ {0} /\ read_ptr \in Nat /\ q * MsgSize \in Nat
  BY RingFacts DEF Index
<1>2. ReadSpace \div MsgSize = q
  BY <1>1, Quotient
<1>3. ASSUME NEW k \in 1 .. q PROVE Number(At(read_ptr + (k - 1) * MsgSize)) \in Nat
  <2>1. 1 \in Part
    BY <1>1 DEF Part
  <2>2. read_ptr + (k - 1) * MsgSize \in Nat
    BY <1>1, <2>1, InMessages
  <2> QED
    BY <2>2, AtType, NumberType
<1>4. Queue = [k \in 1 .. q |-> Number(At(read_ptr + (k - 1) * MsgSize))]
  BY <1>2 DEF Queue
<1> QED
  BY <1>3, <1>4

\* The MIDI thread's store puts the message at the end of the queue.
LEMMA StorePuts ==
    ASSUME RingInv, CopiesOK, ~racing, WriteStore
    PROVE  /\ Len(Queue) < (Size - 1) \div MsgSize
           /\ Queue' = Append(Queue, offered + 1)
<1>0. PICK q \in 0 .. Size : ReadSpace = q * MsgSize
  BY DEF CopiesOK, WholeMessages
<1>1. /\ Size \in Nat /\ MsgSize \in Nat \ {0} /\ q \in Nat
      /\ ReadSpace \in 0 .. Size - 1 /\ WriteSpace = Size - 1 - ReadSpace
      /\ write_ptr \in Index /\ read_ptr \in Index /\ offered \in Nat
  BY RingFacts, RingAssumption DEF RingInv, TypeOK
<1>2. /\ wcnt = MsgSize /\ MsgSize <= WriteSpace /\ wnew = Mask(write_ptr + MsgSize)
      /\ At(write_ptr) = Whole(offered + 1)
  BY DEF WriteStore, RingInv, CountsOK, CopiesOK, WriteCopied, Writing
<1>3. write_ptr' = wnew /\ UNCHANGED <<buf, read_ptr>>
  BY DEF WriteStore
<1>4. ReadSpace' = (q + 1) * MsgSize /\ (q + 1) * MsgSize \in Nat
  <2>1. ReadSpace' = ReadSpace + MsgSize
    BY <1>1, <1>2, <1>3, RingFacts, Moves DEF ReadSpace, WriteSpace, RingInv
  <2> QED
    BY <1>0, <1>1, <2>1, Products
<1>5. ReadSpace' \div MsgSize = q + 1
  BY <1>1, <1>4, Quotient
<1>6. q < (Size - 1) \div MsgSize
  <2>1. q * MsgSize + MsgSize <= Size - 1 /\ Size - 1 \in Nat
    BY <1>0, <1>1, <1>2
  <2> QED
    BY <1>1, <2>1, Quotient
<1>7. At(read_ptr + q * MsgSize) = At(write_ptr)
  <2>1. Mask(read_ptr + ReadSpace) = write_ptr
    <3>1. ReadSpace = IF write_ptr >= read_ptr THEN write_ptr - read_ptr
                      ELSE write_ptr + Size - read_ptr
      BY <1>1, Spaces DEF ReadSpace
    <3> QED
      BY <1>1, <3>1, MaskSmall, MaskWrap DEF Index
  <2>2. ASSUME NEW p \in Part
        PROVE  Mask(read_ptr + q * MsgSize + p - 1) = Mask(write_ptr + p - 1)
    <3>1. p - 1 \in Nat /\ ReadSpace + (p - 1) < Size
      BY <1>1, <1>2 DEF Part
    <3>2. Mask(Mask(read_ptr + ReadSpace) + (p - 1)) = Mask(read_ptr + (ReadSpace + (p - 1)))
      BY <1>1, <3>1, MaskAdds
    <3>3. /\ read_ptr + (ReadSpace + (p - 1)) = read_ptr + q * MsgSize + p - 1
          /\ write_ptr + (p - 1) = write_ptr + p - 1
      BY <1>0, <1>1 DEF Part, Index
    <3> QED
      BY <2>1, <3>2, <3>3
  <2> QED
    BY <2>2 DEF At
<1>8. Number(At(read_ptr + q * MsgSize)) = offered + 1
  <2>1. 1 \in Part
    BY <1>1 DEF Part
  <2>2. Whole(offered + 1)[1][1] = offered + 1
    BY <2>1 DEF Whole
  <2> QED
    BY <1>2, <1>7, <2>2 DEF Number
<1>9. /\ Queue = [k \in 1 .. q |-> Number(At(read_ptr + (k - 1) * MsgSize))]
      /\ Queue \in Seq(Nat) /\ Len(Queue) = q
  BY <1>0, <1>1, QueueIs DEF RingInv
<1>10. Queue' = [k \in 1 .. q + 1 |-> Number(At(read_ptr + (k - 1) * MsgSize))]
  BY <1>3, <1>5 DEF Queue, At
<1>11. (q + 1) - 1 = q
  BY <1>1
<1>12. ASSUME NEW k \in 1 .. q + 1
       PROVE  Number(At(read_ptr + (k - 1) * MsgSize)) = Append(Queue, offered + 1)[k]
  <2>1. CASE k = q + 1
    BY <1>1, <1>8, <1>9, <1>11, <2>1
  <2>2. CASE k # q + 1
    <3>1. k \in 1 .. q
      BY <1>1, <2>2
    <3>2. Append(Queue, offered + 1)[k] = Queue[k]
      BY <1>1, <1>9, <3>1
    <3> QED
      BY <1>9, <3>1, <3>2
  <2> QED
    BY <2>1, <2>2
<1>13. /\ Append(Queue, offered + 1) \in Seq(Nat)
       /\ Len(Append(Queue, offered + 1)) = q + 1
  BY <1>1, <1>9
<1>14. Queue' = Append(Queue, offered + 1)
  BY <1>10, <1>12, <1>13
<1> QED
  BY <1>6, <1>9, <1>14

\* A message for which there is no room meets a full queue.
LEMMA RefusedIsFull ==
    ASSUME RingInv, CopiesOK, ~(WriteSpace >= MsgSize)
    PROVE  Len(Queue) = (Size - 1) \div MsgSize
<1>0. PICK q \in 0 .. Size : ReadSpace = q * MsgSize
  BY DEF CopiesOK, WholeMessages
<1>1. /\ Size \in Nat /\ Size - 1 \in Nat /\ MsgSize \in Nat \ {0} /\ q \in Nat
      /\ ReadSpace \in 0 .. Size - 1 /\ WriteSpace = Size - 1 - ReadSpace
  BY RingFacts DEF RingInv
<1>2. q * MsgSize <= Size - 1 /\ Size - 1 < q * MsgSize + MsgSize
  BY <1>0, <1>1
<1>3. (Size - 1) \div MsgSize = q
  BY <1>1, <1>2, Quotient
<1> QED
  BY <1>0, <1>1, <1>3, QueueIs DEF RingInv

\* The audio thread's store takes the message at the head of the queue, which is
\* the one that rbMidiNote is given.
LEMMA StoreGets ==
    ASSUME RingInv, CopiesOK, ~racing, ReadStore
    PROVE  /\ Queue # << >>
           /\ Queue' = Tail(Queue)
           /\ Handled' = Append(Handled, Head(Queue))
<1>0. PICK q \in 0 .. Size : ReadSpace = q * MsgSize
  BY DEF CopiesOK, WholeMessages
<1>1. /\ Size \in Nat /\ MsgSize \in Nat \ {0} /\ MsgSize < Size /\ q \in Nat
      /\ ReadSpace \in 0 .. Size - 1 /\ read_ptr \in Index /\ write_ptr \in Index
      /\ msg \in Message /\ handled \in Seq(Message)
  BY RingFacts DEF RingInv, TypeOK, Message
<1>2. /\ rcnt = MsgSize /\ MsgSize <= ReadSpace /\ rnew = Mask(read_ptr + MsgSize)
      /\ msg = At(read_ptr)
  BY DEF ReadStore, RingInv, CountsOK, CopiesOK, ReadCopied, Reading
<1>3. /\ read_ptr' = rnew /\ UNCHANGED <<buf, write_ptr>>
      /\ handled' = Append(handled, msg)
  BY DEF ReadStore
<1>4. PICK r \in Nat : q = r + 1
  BY <1>0, <1>1, <1>2
<1>5. /\ ReadSpace = r * MsgSize + MsgSize /\ ReadSpace' = r * MsgSize
      /\ r * MsgSize \in Nat
  <2>1. ReadSpace' = ReadSpace - MsgSize
    BY <1>1, <1>2, <1>3, RingFacts, Moves DEF ReadSpace, RingInv
  <2>2. (r + 1) * MsgSize = r * MsgSize + MsgSize /\ r * MsgSize \in Nat
    BY <1>1, Products
  <2> QED
    BY <1>0, <1>1, <1>4, <2>1, <2>2
<1>6. ReadSpace' \div MsgSize = r
  BY <1>1, <1>5, Quotient
<1>7. /\ Queue = [k \in 1 .. q |-> Number(At(read_ptr + (k - 1) * MsgSize))]
      /\ Queue \in Seq(Nat) /\ Len(Queue) = q
  BY <1>0, <1>1, QueueIs DEF RingInv
<1>8. Queue' = [k \in 1 .. r |-> Number(At(read_ptr' + (k - 1) * MsgSize))]
  BY <1>3, <1>6 DEF Queue, At
<1>9. ASSUME NEW k \in 1 .. r
      PROVE  At(read_ptr' + (k - 1) * MsgSize) = At(read_ptr + k * MsgSize)
  <2> DEFINE x == (k - 1) * MsgSize
  <2>1. x \in Nat /\ k * MsgSize = x + MsgSize
    <3> DEFINE a == k - 1
    <3>1. a \in Nat /\ a + 1 = k
      BY <1>4
    <3> HIDE DEF a
    <3>2. a * MsgSize \in Nat /\ (a + 1) * MsgSize = a * MsgSize + MsgSize
      BY <1>1, <3>1, Products
    <3> QED
      BY <3>1, <3>2 DEF a
  <2>2. ASSUME NEW p \in Part
        PROVE  Mask(read_ptr' + x + p - 1) = Mask(read_ptr + k * MsgSize + p - 1)
    <3>1. x + (p - 1) \in 0 .. r * MsgSize - 1
      BY <1>4, InMessages
    <3> HIDE DEF x
    <3>2. x + (p - 1) \in Nat /\ MsgSize + (x + (p - 1)) < Size
      BY <1>1, <1>5, <3>1
    <3>3. Mask(Mask(read_ptr + MsgSize) + (x + (p - 1)))
            = Mask(read_ptr + (MsgSize + (x + (p - 1))))
      BY <1>1, <3>2, MaskAdds
    <3>4. read_ptr' \in Nat /\ read_ptr \in Nat /\ p \in Nat
      BY <1>1, <1>2, <1>3, MaskAdds DEF Index, Part
    <3>5. /\ read_ptr' + (x + (p - 1)) = read_ptr' + x + p - 1
          /\ read_ptr + (MsgSize + (x + (p - 1))) = read_ptr + k * MsgSize + p - 1
      BY <1>1, <2>1, <3>4
    <3> QED
      BY <1>2, <1>3, <3>3, <3>5
  <2> QED
    BY <2>2 DEF At
<1>10. Queue # << >> /\ Tail(Queue) \in Seq(Nat) /\ Len(Tail(Queue)) = r
  <2>1. Len(Queue) = r + 1 /\ r + 1 > 0
    BY <1>4, <1>7
  <2>2. Queue # << >>
    BY <2>1
  <2>3. Tail(Queue) \in Seq(Nat) /\ Len(Tail(Queue)) = Len(Queue) - 1
    BY <1>7, <2>2, HeadTailProperties
  <2> QED
    BY <1>4, <2>1, <2>2, <2>3
<1>11. ASSUME NEW k \in 1 .. r
       PROVE  Tail(Queue)[k] = Number(At(read_ptr' + (k - 1) * MsgSize))
  <2>1. k + 1 \in 1 .. q /\ (k + 1) - 1 = k
    BY <1>4
  <2>2. Tail(Queue)[k] = Queue[k + 1]
    BY <1>4, <1>7
  <2> QED
    BY <1>7, <1>9, <2>1, <2>2
<1>12. Queue' = Tail(Queue)
  <2>1. Tail(Queue) = [k \in 1 .. r |-> Tail(Queue)[k]]
    BY <1>4, <1>10, SeqIsItsElements
  <2> QED
    BY <1>8, <1>11, <2>1
<1>13. Head(Queue) = Number(msg)
  <2>1. 1 \in 1 .. q /\ 1 - 1 = 0 /\ 0 * MsgSize = 0 /\ read_ptr + 0 = read_ptr
    BY <1>1, <1>4 DEF Index
  <2>2. Head(Queue) = Queue[1]
    BY <1>7, <1>10
  <2> QED
    BY <1>2, <1>7, <2>1, <2>2
<1>14. Handled' = Append(Handled, Number(msg))
  <2> DEFINE n == Len(handled)
  <2>1. n \in Nat /\ DOMAIN handled = 1 .. n
    BY <1>1
  <2>2. ASSUME NEW k \in 1 .. n PROVE Number(handled[k]) \in Nat
    BY <1>1, NumberType
  <2>3. Handled = [k \in 1 .. n |-> Number(handled[k])]
    BY <2>1 DEF Handled
  <2>4. Handled \in Seq(Nat) /\ Len(Handled) = n
    BY <2>1, <2>2, <2>3
  <2>5. DOMAIN handled' = 1 .. n + 1
    BY <1>1, <1>3
  <2>6. Handled' = [k \in 1 .. n + 1 |-> Number(handled'[k])]
    BY <2>5 DEF Handled, Number
  <2>7. ASSUME NEW k \in 1 .. n + 1
        PROVE  Number(handled'[k]) = Append(Handled, Number(msg))[k]
    <3>1. CASE k = n + 1
      BY <1>1, <1>3, <2>1, <2>4, <3>1
    <3>2. CASE k # n + 1
      <4>1. k \in 1 .. n
        BY <2>1, <3>2
      <4>2. handled'[k] = handled[k]
        BY <1>1, <1>3, <4>1
      <4>3. Append(Handled, Number(msg))[k] = Handled[k]
        BY <2>1, <2>4, <4>1
      <4> QED
        BY <2>3, <4>1, <4>2, <4>3
    <3> QED
      BY <3>1, <3>2
  <2>8. /\ Append(Handled, Number(msg)) \in Seq(Nat)
        /\ Len(Append(Handled, Number(msg))) = n + 1
    BY <1>1, <2>1, <2>4, NumberType
  <2>9. Append(Handled, Number(msg)) = [k \in 1 .. n + 1 |-> Append(Handled, Number(msg))[k]]
    <3>1. n + 1 \in Nat
      BY <2>1
    <3> HIDE DEF n
    <3> QED
      BY <2>8, <3>1, SeqIsItsElements
  <2> QED
    BY <2>6, <2>7, <2>9
<1> QED
  BY <1>10, <1>12, <1>13, <1>14

\* A write changes no message that waits.
LEMMA WriteKeepsQueue ==
    ASSUME RingInv, CopiesOK, WriteFirst \/ WriteSecond
    PROVE  Queue' = Queue
<1>0. PICK q \in 0 .. Size : ReadSpace = q * MsgSize
  BY DEF CopiesOK, WholeMessages
<1>1. /\ Size \in Nat /\ MsgSize \in Nat \ {0} /\ q \in Nat /\ q * MsgSize \in Nat
      /\ read_ptr \in Nat
  BY <1>0, RingFacts, Products DEF RingInv, Index
<1>2. UNCHANGED <<read_ptr, write_ptr>>
  BY DEF WriteFirst, WriteSecond, pointers
<1>3. ReadSpace' = ReadSpace /\ ReadSpace \div MsgSize = q
  BY <1>0, <1>1, <1>2, Quotient DEF ReadSpace
<1>4. ASSUME NEW k \in 1 .. q
      PROVE  At(read_ptr + (k - 1) * MsgSize)' = At(read_ptr + (k - 1) * MsgSize)
  <2> DEFINE x == (k - 1) * MsgSize
  <2>1. ASSUME NEW p \in Part
        PROVE  buf'[Mask(read_ptr + x + p - 1)] = buf[Mask(read_ptr + x + p - 1)]
    <3>1. x \in Nat /\ x + (p - 1) \in 0 .. ReadSpace - 1
      BY <1>0, <1>1, InMessages
    <3> HIDE DEF x
    <3>2. read_ptr + (x + (p - 1)) = read_ptr + x + p - 1
      BY <1>1, <3>1 DEF Part
    <3>3. buf'[Mask(read_ptr + (x + (p - 1)))] = buf[Mask(read_ptr + (x + (p - 1)))]
      BY <3>1, ReadableKept
    <3> QED
      BY <3>2, <3>3
  <2> QED
    BY <1>2, <2>1 DEF At
<1> QED
  BY <1>3, <1>4 DEF Queue, Number

\* A reset empties the queue.
LEMMA ResetEmpties ==
    ASSUME write_ptr' = 0, read_ptr' = 0
    PROVE  Queue' = << >>
<1>1. Filled(0, 0) = 0
  BY RingAssumption, Spaces DEF Index
<1>2. ReadSpace' \div MsgSize = 0
  <2>1. 0 * MsgSize = 0 /\ MsgSize \in Nat \ {0} /\ 0 < MsgSize
    BY RingAssumption
  <2> QED
    BY <1>1, <2>1, Quotient DEF ReadSpace
<1> QED
  BY <1>2 DEF Queue

\* A step that leaves the pointers, the history and the emulators alone leaves
\* the queue alone.
LEMMA QueueStays ==
    ASSUME FifoInv, ~racing, ~racing', Queue' = Queue,
           UNCHANGED <<handled, offered, running>>, (wphase' = "go") = (wphase = "go")
    PROVE  UNCHANGED Fifo!vars
<1>1. Handled' = Handled
  BY DEF Handled, Number
<1> QED
  BY <1>1 DEF Fifo!vars

\* Every step of the MIDI thread is a step of the queue or leaves it alone.
LEMMA MidiImplements ==
    ASSUME FifoInv, ~racing, ~racing', MidiStep
    PROVE  Fifo!Next \/ UNCHANGED Fifo!vars
<1>0. RingInv /\ CopiesOK /\ running \in BOOLEAN
  BY DEF FifoInv, SafeInv, RingInv, TypeOK
<1>1. CASE Offer
  <2>1. UNCHANGED <<buf, pointers, handled, running>>
    BY <1>1 DEF Offer, reader, synths
  <2>2. Queue' = Queue /\ Handled' = Handled
    BY <2>1 DEF pointers, Queue, Handled, Number, At, ReadSpace
  <2>3. CASE WriteSpace >= MsgSize
    BY <1>1, <2>1, <2>2, <2>3, QueueStays DEF Offer
  <2>4. CASE ~(WriteSpace >= MsgSize)
    <3>1. Len(Queue) = (Size - 1) \div MsgSize
      BY <1>0, <2>4, RefusedIsFull
    <3>2. offered' = offered + 1 /\ wphase' = wphase
      BY <1>1, <2>4 DEF Offer
    <3>3. Fifo!Refuse
      BY <2>1, <2>2, <3>1, <3>2 DEF Fifo!Refuse
    <3> QED
      BY <3>3 DEF Fifo!Next
  <2> QED
    BY <2>3, <2>4
<1>2. CASE WriteNothing
  \* There is still the room that Offer saw.
  <2>1. MsgSize <= WriteSpace /\ WriteSpace = 0 /\ MsgSize \in Nat /\ 0 < MsgSize
    BY <1>0, <1>2, RingFacts DEF WriteNothing, RingInv, CountsOK
  <2> QED
    BY <2>1
<1>3. CASE WriteFirst \/ WriteSecond
  <2>1. Queue' = Queue
    BY <1>0, <1>3, WriteKeepsQueue
  <2>2. /\ UNCHANGED <<handled, offered, running>>
        /\ wphase # "go" /\ wphase' # "go"
    BY <1>3 DEF WriteFirst, WriteSecond, reader, synths
  <2> QED
    BY <2>1, <2>2, QueueStays
<1>4. CASE WriteStore
  <2>1. /\ Len(Queue) < (Size - 1) \div MsgSize
        /\ Queue' = Append(Queue, offered + 1)
    BY <1>0, <1>4, StorePuts
  <2>2. /\ UNCHANGED <<handled, running>> /\ offered' = offered + 1
        /\ wphase # "go" /\ wphase' # "go"
    BY <1>4 DEF WriteStore, reader, synths
  <2>3. Handled' = Handled
    BY <2>2 DEF Handled, Number
  <2>4. Fifo!Put
    BY <2>1, <2>2, <2>3 DEF Fifo!Put
  <2> QED
    BY <2>4 DEF Fifo!Next
<1>5. CASE Hello
  <2>1. UNCHANGED <<buf, pointers, handled, offered>> /\ wphase' = "go"
    BY <1>5 DEF Hello, reader
  <2>2. Queue' = Queue /\ Handled' = Handled
    BY <2>1 DEF pointers, Queue, Handled, Number, At, ReadSpace
  <2>3. Fifo!Leave
    BY <2>1, <2>2 DEF Fifo!Leave
  <2> QED
    BY <2>3 DEF Fifo!Next
<1>6. CASE Go
  <2>1. /\ UNCHANGED <<handled, offered, running>> /\ wphase = "go"
        /\ write_ptr' = 0 /\ read_ptr' = 0
    BY <1>6 DEF Go, reader, synths
  <2>2. Queue' = << >> /\ Handled' = Handled
    BY <2>1, ResetEmpties DEF Handled, Number
  <2>3. running' \in BOOLEAN
    BY <1>0, <2>1
  <2>4. Fifo!Forget
    BY <2>1, <2>2, <2>3 DEF Fifo!Forget
  <2> QED
    BY <2>4 DEF Fifo!Next
<1> QED
  BY <1>1, <1>2, <1>3, <1>4, <1>5, <1>6 DEF MidiStep

\* Every step of the audio thread is a step of the queue or leaves it alone.
LEMMA AudioImplements ==
    ASSUME FifoInv, ~racing, ~racing', AudioStep \/ LastExit
    PROVE  Fifo!Next \/ UNCHANGED Fifo!vars
<1>0. RingInv /\ CopiesOK
  BY DEF FifoInv, SafeInv, RingInv
<1>1. CASE BeginPeriod \/ Drain \/ ReadFirst \/ ReadSecond
  <2>1. UNCHANGED <<buf, pointers, handled, offered, running, wphase>>
    BY <1>1 DEF BeginPeriod, Drain, ReadFirst, ReadSecond, writer, synths
  <2>2. Queue' = Queue
    BY <2>1 DEF pointers, Queue, Number, At, ReadSpace
  <2> QED
    BY <2>1, <2>2, QueueStays
<1>2. CASE ReadNothing
  \* There is still the message that Drain saw.
  <2>1. MsgSize <= ReadSpace /\ ReadSpace = 0 /\ MsgSize \in Nat /\ 0 < MsgSize
    BY <1>0, <1>2, RingFacts DEF ReadNothing, RingInv, CountsOK
  <2> QED
    BY <2>1
<1>3. CASE ReadStore
  <2>1. /\ Queue # << >> /\ Queue' = Tail(Queue)
        /\ Handled' = Append(Handled, Head(Queue))
    BY <1>0, <1>3, StoreGets
  <2>2. UNCHANGED <<offered, running, wphase>>
    BY <1>3 DEF ReadStore, writer, synths
  <2>3. Fifo!Get
    BY <2>1, <2>2 DEF Fifo!Get
  <2> QED
    BY <2>3 DEF Fifo!Next
<1>4. CASE EmptyPeriod
  <2>1. /\ UNCHANGED <<handled, offered, running>> /\ ~running
        /\ write_ptr' = 0 /\ read_ptr' = 0
    BY <1>4 DEF EmptyPeriod, reader, writer, synths
  <2>2. Queue' = << >> /\ Handled' = Handled
    BY <2>1, ResetEmpties DEF Handled, Number
  <2>3. Fifo!Forget
    BY <2>1, <2>2 DEF Fifo!Forget
  <2> QED
    BY <2>3 DEF Fifo!Next
<1>5. CASE LastExit
  <2>1. UNCHANGED <<buf, pointers, handled, offered>> /\ running' = FALSE
    BY <1>5 DEF LastExit, reader, writer
  <2>2. Queue' = Queue /\ Handled' = Handled
    BY <2>1 DEF pointers, Queue, Handled, Number, At, ReadSpace
  <2>3. Fifo!Leave
    BY <2>1, <2>2 DEF Fifo!Leave
  <2> QED
    BY <2>3 DEF Fifo!Next
<1> QED
  BY <1>1, <1>2, <1>3, <1>4, <1>5 DEF AudioStep

\* A new ring is an empty queue.
LEMMA InitImplements ==
    Init => Fifo!Init
<1> SUFFICES ASSUME Init PROVE Fifo!Init
  OBVIOUS
<1>1. write_ptr = 0 /\ read_ptr = 0 /\ handled = << >> /\ offered = 0 /\ ~running
  BY DEF Init
<1>2. Queue = << >>
  <2>1. Filled(0, 0) = 0
    BY RingAssumption, Spaces DEF Index
  <2>2. ReadSpace \div MsgSize = 0
    <3>1. 0 * MsgSize = 0 /\ MsgSize \in Nat \ {0} /\ 0 < MsgSize
      BY RingAssumption
    <3> QED
      BY <1>1, <2>1, <3>1, Quotient DEF ReadSpace
  <2> QED
    BY <2>2 DEF Queue
<1>3. Handled = << >>
  BY <1>1 DEF Handled
<1> QED
  BY <1>1, <1>2, <1>3 DEF Fifo!Init

\* As long as no reset falls inside an operation of the other thread, the ring is
\* a bounded queue of whole messages: handled in the order in which they were
\* offered, none twice, none lost while there is room for it and an emulator
\* plays, for every size of ring and message and any number of both.
THEOREM RingIsAQueue ==
    Spec => ImplementsQueue
<1>1. Init => FifoInv
  BY FifoInvInit
<1>2. FifoInv /\ [Next]_vars => FifoInv'
  BY FifoInvStep
<1>3. Init => Fifo!Init
  BY InitImplements
<1>4. FifoInv /\ [Next]_vars => [Fifo!Next]_(Fifo!vars)
  <2> SUFFICES ASSUME FifoInv, [Next]_vars PROVE Fifo!Next \/ UNCHANGED Fifo!vars
    OBVIOUS
  <2>1. racing' = racing
    BY RacingStays
  <2>2. CASE racing
    BY <2>1, <2>2 DEF Fifo!vars
  <2>3. CASE ~racing /\ UNCHANGED vars
    <3>1. Queue' = Queue
      BY <2>3 DEF vars, Queue, Number, At, ReadSpace
    <3> QED
      BY <2>1, <2>3, <3>1, QueueStays DEF vars
  <2>4. CASE ~racing /\ Next
    BY <2>1, <2>4, MidiImplements, AudioImplements DEF Next
  <2> QED
    BY <2>2, <2>3, <2>4
<1> QED
  BY <1>1, <1>2, <1>3, <1>4, PTL DEF Spec, ImplementsQueue, Fifo!Spec
=============================================================================
