------------------------- MODULE ArpeggiatorProofs -------------------------
(***************************************************************************)
(* Proofs about Arpeggiator, for every number of voices, every key range   *)
(* and every length of a sequence: the table of the arpeggiator is the     *)
(* list of the keys it was told of, and the counters walk on its entries.  *)
(***************************************************************************)
EXTENDS Arpeggiator, FiniteSetTheorems, SequenceTheorems, WellFoundedInduction, TLAPS

----------------------------------------------------------------------------
(***************************************************************************)
(* First places.                                                           *)
(***************************************************************************)

\* A set of places has a first one (the loops of bristolArpeggiatorNoteEvent).
LEMMA FirstPlace ==
    ASSUME NEW S \in SUBSET Nat, S # {}
    PROVE  Min(S) \in S /\ \A n \in S : Min(S) <= n
<1> DEFINE T == {0 .. n : n \in S}
<1>1. T \subseteq FiniteSubsetsOf(Nat) /\ T # {}
  <2>1. \A n \in S : IsFiniteSet(0 .. n) /\ 0 .. n \subseteq Nat
    BY FS_Interval
  <2> QED  BY <2>1 DEF FiniteSubsetsOf
<1>2. \E x \in T : \A y \in T : ~(<<y, x>> \in StrictSubsetOrdering(Nat))
  <2> HIDE DEF T
  <2> QED  BY <1>1, WFMin, FS_StrictSubsetOrderingWellFounded
<1>3. PICK m \in S : \A n \in S : ~(<<0 .. n, 0 .. m>> \in StrictSubsetOrdering(Nat))
  BY <1>2
<1>4. \A n \in S : m <= n
  <2> SUFFICES ASSUME NEW n \in S, n < m PROVE FALSE
    OBVIOUS
  <2>1. 0 .. n \subseteq 0 .. m /\ 0 .. n # 0 .. m
    OBVIOUS
  <2>2. <<0 .. n, 0 .. m>> \in StrictSubsetOrdering(Nat)
    BY <2>1 DEF StrictSubsetOrdering
  <2> QED  BY <1>3, <2>2
<1> QED  BY <1>4 DEF Min

\* The first place is the one that no other comes before.
LEMMA FirstIs ==
    ASSUME NEW S \in SUBSET Nat, NEW m \in S, \A n \in S : m <= n
    PROVE  Min(S) = m
<1>1. Min(S) \in S /\ Min(S) <= m
  BY FirstPlace
<1>2. m \in Nat /\ Min(S) \in Nat /\ m <= Min(S)
  BY <1>1
<1> QED  BY <1>1, <1>2

\* The first occurrence of a key leaves a list and the rest moves up.
LEMMA RemoveFirstProperties ==
    ASSUME NEW list \in Seq(Keys), NEW p \in 1 .. Len(list),
           \A i \in 1 .. Len(list) : list[i] = list[p] => p <= i
    PROVE  /\ RemoveFirst(list, list[p]) \in Seq(Keys)
           /\ Len(RemoveFirst(list, list[p])) = Len(list) - 1
           /\ \A i \in 1 .. Len(list) - 1 :
                 RemoveFirst(list, list[p])[i] = IF i < p THEN list[i] ELSE list[i + 1]
<1> DEFINE hits == {i \in 1 .. Len(list) : list[i] = list[p]}
           gone == SubSeq(list, 1, p - 1) \o SubSeq(list, p + 1, Len(list))
<1>1. Min(hits) = p
  BY FirstIs
<1>2. RemoveFirst(list, list[p]) = gone
  <2>1. SelectInSeq(list, LAMBDA v : v = list[p]) = Min(hits)
    BY DEF SelectInSeq
  <2> QED  BY <2>1, <1>1 DEF RemoveFirst, RemoveAt
<1>3. /\ gone \in Seq(Keys) /\ Len(gone) = Len(list) - 1
      /\ \A i \in 1 .. Len(list) - 1 : gone[i] = IF i < p THEN list[i] ELSE list[i + 1]
  <2>1. /\ SubSeq(list, 1, p - 1) \in Seq(Keys) /\ Len(SubSeq(list, 1, p - 1)) = p - 1
        /\ \A i \in 1 .. p - 1 : SubSeq(list, 1, p - 1)[i] = list[i]
    OBVIOUS
  <2>2. /\ SubSeq(list, p + 1, Len(list)) \in Seq(Keys)
        /\ Len(SubSeq(list, p + 1, Len(list))) = Len(list) - p
        /\ \A i \in 1 .. Len(list) - p : SubSeq(list, p + 1, Len(list))[i] = list[p + i]
    OBVIOUS
  <2> DEFINE front == SubSeq(list, 1, p - 1)
             back == SubSeq(list, p + 1, Len(list))
  <2>3. /\ gone = front \o back
        /\ front \in Seq(Keys) /\ Len(front) = p - 1
        /\ back \in Seq(Keys) /\ Len(back) = Len(list) - p
    BY <2>1, <2>2
  <2>4. /\ \A i \in 1 .. p - 1 : front[i] = list[i]
        /\ \A i \in 1 .. Len(list) - p : back[i] = list[p + i]
    BY <2>1, <2>2
  <2> HIDE DEF front, back, gone
  <2>5. gone \in Seq(Keys) /\ Len(gone) = Len(list) - 1
    BY <2>3, ConcatProperties
  <2>6. ASSUME NEW i \in 1 .. Len(list) - 1
        PROVE  gone[i] = IF i < p THEN list[i] ELSE list[i + 1]
    <3>1. CASE i < p
      BY <3>1, <2>3, <2>4
    <3>2. CASE i >= p
      <4>1. i - (p - 1) \in 1 .. Len(list) - p
        BY <3>2
      <4>2. gone[i] = back[i - (p - 1)]
        BY <3>2, <2>3
      <4> QED  BY <3>2, <4>1, <4>2, <2>4
    <3> QED  BY <3>1, <3>2
  <2> QED  BY <2>5, <2>6
<1> QED  BY <1>2, <1>3

\* A key of the list has a first place in it.
LEMMA RemovedKey ==
    ASSUME NEW list \in Seq(Keys), NEW k \in Keys, Contains(list, k)
    PROVE  \E p \in 1 .. Len(list) :
              /\ list[p] = k /\ \A i \in 1 .. p - 1 : list[i] # k
              /\ RemoveFirst(list, k) \in Seq(Keys)
              /\ Len(RemoveFirst(list, k)) = Len(list) - 1
              /\ \A i \in 1 .. Len(list) - 1 :
                    RemoveFirst(list, k)[i] = IF i < p THEN list[i] ELSE list[i + 1]
<1> DEFINE S == {i \in 1 .. Len(list) : list[i] = k}
<1>1. S \in SUBSET Nat /\ S # {}
  BY DEF Contains
<1>2. PICK p \in S : \A n \in S : p <= n
  <2> HIDE DEF S
  <2> QED  BY <1>1, FirstPlace
<1>3. p \in 1 .. Len(list) /\ list[p] = k
  OBVIOUS
<1>4. \A i \in 1 .. Len(list) : list[i] = list[p] => p <= i
  BY <1>2, <1>3
<1>5. \A i \in 1 .. p - 1 : list[i] # k
  BY <1>3, <1>4
<1> HIDE DEF S
<1> QED  BY <1>3, <1>4, <1>5, RemoveFirstProperties

----------------------------------------------------------------------------
(***************************************************************************)
(* The counters.                                                           *)
(***************************************************************************)

\* arpeggioCounterCheck leaves the counters within the table.
LEMMA WalkedType ==
    ASSUME NEW n \in Nat, NEW q \in Counters(n), NEW r \in Walked(q)
    PROVE  r \in Counters(n) /\ r.max = q.max
<1> USE DEF Counters, Up, Down, UpDown, Random
<1>1. /\ q = [max |-> q.max, current |-> q.current, octave |-> q.octave, dir |-> q.dir,
              step |-> q.step, span |-> q.span]
      /\ q.max \in 0 .. n /\ q.current \in -1 .. n /\ q.octave \in Nat
      /\ q.step \in {-1, 0, 1} /\ q.span \in Nat /\ q.dir \in 0 .. 3
  OBVIOUS
<1>2. ASSUME NEW c \in -1 .. n, NEW o \in Nat, NEW st \in {-1, 0, 1}
      PROVE  /\ [q EXCEPT !.current = c, !.step = st, !.octave = o] \in Counters(n)
             /\ [q EXCEPT !.current = c, !.step = st, !.octave = o].max = q.max
             /\ [q EXCEPT !.current = c, !.octave = o] \in Counters(n)
             /\ [q EXCEPT !.current = c, !.octave = o].max = q.max
             /\ [q EXCEPT !.current = c] \in Counters(n)
             /\ [q EXCEPT !.current = c].max = q.max
  OBVIOUS
<1> HIDE DEF Counters
<1>3. CASE q.dir = Up
  <2>1. r = WalkedUp(q)
    BY <1>3 DEF Walked
  <2>2. OctaveUp(q) \in Nat
    BY <1>1 DEF OctaveUp
  <2>3. q.current + 1 < q.max => q.current + 1 \in -1 .. n
    BY <1>1
  <2>4. 0 \in -1 .. n
    OBVIOUS
  <2> QED  BY <2>1, <2>2, <2>3, <2>4, <1>2 DEF WalkedUp
<1>4. CASE q.dir = Down
  <2>1. r = WalkedDown(q)
    BY <1>4 DEF Walked
  <2>2. OctaveDown(q) \in Nat
    BY <1>1 DEF OctaveDown
  <2>3. q.max - 1 \in -1 .. n /\ (q.current - 1 >= 0 => q.current - 1 \in -1 .. n)
    BY <1>1
  <2> QED  BY <2>1, <2>2, <2>3, <1>1, <1>2 DEF WalkedDown
<1>5. CASE q.dir = UpDown
  <2>1. r = WalkedUpDown(q)
    BY <1>5 DEF Walked
  <2>2. PICK c \in Int : c = q.current + q.step
    BY <1>1
  <2>3. CASE c < 0 /\ q.octave <= 1
    <3>1. r = [q EXCEPT !.current = 0, !.step = 1, !.octave = 1]
      BY <2>1, <2>2, <2>3, <1>1 DEF WalkedUpDown
    <3>2. 0 \in -1 .. n /\ 1 \in {-1, 0, 1} /\ 1 \in Nat
      OBVIOUS
    <3> QED  BY <3>1, <3>2, <1>2
  <2>4. CASE c < 0 /\ q.octave > 1
    <3>1. r = [q EXCEPT !.current = q.max - 1, !.octave = @ - 1]
      BY <2>1, <2>2, <2>4, <1>1 DEF WalkedUpDown
    <3>2. q.max - 1 \in -1 .. n /\ q.octave - 1 \in Nat
      BY <2>4, <1>1
    <3> QED  BY <3>1, <3>2, <1>2
  <2>5. CASE c >= 0 /\ c >= q.max /\ q.octave >= q.span
    <3>1. r = [q EXCEPT !.current = q.max - 1, !.step = -1, !.octave = q.span]
      BY <2>1, <2>2, <2>5, <1>1 DEF WalkedUpDown
    <3>2. q.max - 1 \in -1 .. n /\ -1 \in {-1, 0, 1} /\ q.span \in Nat
      BY <1>1
    <3> QED  BY <3>1, <3>2, <1>2
  <2>6. CASE c >= 0 /\ c >= q.max /\ q.octave < q.span
    <3>1. r = [q EXCEPT !.current = 0, !.octave = @ + 1]
      BY <2>1, <2>2, <2>6, <1>1 DEF WalkedUpDown
    <3>2. 0 \in -1 .. n /\ q.octave + 1 \in Nat
      BY <1>1
    <3> QED  BY <3>1, <3>2, <1>2
  <2>7. CASE c >= 0 /\ c < q.max
    <3>1. r = [q EXCEPT !.current = c]
      BY <2>1, <2>2, <2>7, <1>1 DEF WalkedUpDown
    <3>2. c \in -1 .. n
      BY <2>7, <1>1
    <3> QED  BY <3>1, <3>2, <1>1, <1>2
  <2> QED  BY <2>2, <2>3, <2>4, <2>5, <2>6, <2>7, <1>1
<1>6. CASE q.dir = Random
  <2>1. r \in WalkedAnywhere(q)
    BY <1>6 DEF Walked
  <2>2. PICK last : last = Min({q.span, 4})
    OBVIOUS
  <2>3. PICK c \in 0 .. q.max - 1, o \in 1 .. last : r = Landed(q, c, o)
    BY <2>1, <2>2 DEF WalkedAnywhere
  <2>4. last \in Nat
    BY <2>2, <1>1, FirstPlace
  <2>5. c \in -1 .. n /\ o \in Nat
    BY <2>4, <1>1
  <2> QED  BY <2>3, <2>5, <1>2 DEF Landed
<1> QED  BY <1>1, <1>3, <1>4, <1>5, <1>6

\* A walk over entries ends on one of them, and one over none is not past them.
LEMMA WalkedWithin ==
    ASSUME NEW n \in Nat, NEW q \in Counters(n), q.current <= q.max, NEW r \in Walked(q)
    PROVE  r.current <= q.max /\ (q.max > 0 => r.current \in 0 .. q.max - 1)
<1> USE DEF Up, Down, UpDown, Random
<1>1. /\ q = [max |-> q.max, current |-> q.current, octave |-> q.octave, dir |-> q.dir,
              step |-> q.step, span |-> q.span]
      /\ q.max \in Nat /\ q.current \in Int /\ q.octave \in Nat
      /\ q.step \in {-1, 0, 1} /\ q.span \in Nat /\ q.dir \in 0 .. 3
  BY DEF Counters
<1>2. \A c, o, st :
         /\ [q EXCEPT !.current = c, !.step = st, !.octave = o].current = c
         /\ [q EXCEPT !.current = c, !.octave = o].current = c
         /\ [q EXCEPT !.current = c].current = c
  BY <1>1
<1>3. CASE q.dir = Up
  <2>1. r = WalkedUp(q)
    BY <1>3 DEF Walked
  <2>2. (r.current = q.current + 1 /\ q.current + 1 < q.max) \/ r.current = 0
    BY <2>1, <1>2 DEF WalkedUp
  <2>3. q.current >= -1
    BY DEF Counters
  <2> QED  BY <2>2, <2>3, <1>1
<1>4. CASE q.dir = Down
  <2>1. r = WalkedDown(q)
    BY <1>4 DEF Walked
  <2>2. (r.current = q.current - 1 /\ q.current - 1 >= 0) \/ r.current = q.max - 1
    BY <2>1, <1>2 DEF WalkedDown
  <2> QED  BY <2>2, <1>1
<1>5. CASE q.dir = UpDown
  <2>1. r = WalkedUpDown(q)
    BY <1>5 DEF Walked
  <2>2. PICK c \in Int : c = q.current + q.step
    BY <1>1
  <2>3. CASE c < 0 /\ q.octave <= 1
    <3>1. r = [q EXCEPT !.current = 0, !.step = 1, !.octave = 1]
      BY <2>1, <2>2, <2>3, <1>1 DEF WalkedUpDown
    <3> QED  BY <3>1, <1>1, <1>2
  <2>4. CASE c < 0 /\ q.octave > 1
    <3>1. r = [q EXCEPT !.current = q.max - 1, !.octave = @ - 1]
      BY <2>1, <2>2, <2>4, <1>1 DEF WalkedUpDown
    <3> QED  BY <3>1, <1>1, <1>2
  <2>5. CASE c >= 0 /\ c >= q.max /\ q.octave >= q.span
    <3>1. r = [q EXCEPT !.current = q.max - 1, !.step = -1, !.octave = q.span]
      BY <2>1, <2>2, <2>5, <1>1 DEF WalkedUpDown
    <3> QED  BY <3>1, <1>1, <1>2
  <2>6. CASE c >= 0 /\ c >= q.max /\ q.octave < q.span
    <3>1. r = [q EXCEPT !.current = 0, !.octave = @ + 1]
      BY <2>1, <2>2, <2>6, <1>1 DEF WalkedUpDown
    <3> QED  BY <3>1, <1>1, <1>2
  <2>7. CASE c >= 0 /\ c < q.max
    <3>1. r = [q EXCEPT !.current = c]
      BY <2>1, <2>2, <2>7, <1>1 DEF WalkedUpDown
    <3> QED  BY <3>1, <2>7, <1>1, <1>2
  <2> QED  BY <2>2, <2>3, <2>4, <2>5, <2>6, <2>7, <1>1
<1>6. CASE q.dir = Random
  <2>1. PICK c \in 0 .. q.max - 1, o \in 1 .. Min({q.span, 4}) : r = Landed(q, c, o)
    BY <1>6 DEF Walked, WalkedAnywhere
  <2> QED  BY <2>1, <1>1, <1>2 DEF Landed
<1> QED  BY <1>1, <1>3, <1>4, <1>5, <1>6

----------------------------------------------------------------------------
(***************************************************************************)
(* The table.                                                              *)
(***************************************************************************)

\* The sizes of the table and the directions as numbers.
LEMMA Numbers ==
    /\ VoiceCount \in Nat \ {0} /\ SeqMax \in Nat /\ SeqMax >= 4
    /\ Indexes = 0 .. VoiceCount + 1 /\ NoKey = -1 /\ NoKey \notin Keys
    /\ Down = 0 /\ UpDown = 1 /\ Up = 2 /\ Random = 3
BY ArpeggiatorAssumption DEF SeqMin, Indexes, NoKey, Down, UpDown, Up, Random

\* A key is put behind the others, and the list is ended behind it.
LEMMA InsertedProperties ==
    ASSUME TypeOK, EndInv, NEW k \in Keys
    PROVE  /\ Inserted(k).max = IF a.max >= VoiceCount THEN VoiceCount ELSE a.max + 1
           /\ Inserted(k).notes \in [Indexes -> Keys \cup {NoKey}]
           /\ \A n \in Indexes :
                 Inserted(k).notes[n] =
                    IF a.max >= VoiceCount
                      THEN IF n = VoiceCount - 1 THEN k
                           ELSE IF n < VoiceCount THEN notes[n + 1] ELSE NoKey
                      ELSE IF n = a.max THEN k
                           ELSE IF n = a.max + 1 THEN NoKey ELSE notes[n]
<1>1. a.max \in 0 .. VoiceCount /\ notes \in [Indexes -> Keys \cup {NoKey}]
  BY DEF TypeOK, Counters
<1>2. CASE a.max >= VoiceCount
  <2>1. a.max = VoiceCount /\ VoiceCount - 1 \in Indexes
    BY <1>1, <1>2, Numbers
  <2>2. /\ Shifted \in [Indexes -> Keys \cup {NoKey}]
        /\ \A n \in Indexes : Shifted[n] = IF n < VoiceCount THEN notes[n + 1] ELSE NoKey
    BY <1>1, Numbers DEF Shifted, EndInv
  <2>3. Inserted(k) = [notes |-> [Shifted EXCEPT ![VoiceCount - 1] = k], max |-> VoiceCount]
    BY <1>2, <2>1 DEF Inserted
  <2> QED  BY <1>2, <2>1, <2>2, <2>3
<1>3. CASE a.max < VoiceCount
  <2>1. a.max \in Indexes /\ a.max + 1 \in Indexes
    BY <1>1, <1>3, Numbers
  <2>2. Inserted(k) = [notes |-> [notes EXCEPT ![a.max] = k, ![a.max + 1] = NoKey],
                       max |-> a.max + 1]
    BY <1>1, <1>3, Numbers DEF Inserted
  <2> QED  BY <1>1, <1>3, <2>1, <2>2, Numbers
<1> QED  BY <1>1, <1>2, <1>3, Numbers

\* The list ends at a place, and the key is looked for up to there.
LEMMA FoundProperties ==
    ASSUME TypeOK, EndInv, NEW k \in Keys
    PROVE  /\ FoundAt(k) \in 0 .. VoiceCount
           /\ notes[FoundAt(k)] \in {k, NoKey}
           /\ \A n \in Indexes : n < FoundAt(k) => notes[n] \notin {k, NoKey}
<1> DEFINE S == {i \in Indexes : notes[i] \in {k, NoKey}}
<1>1. VoiceCount \in S /\ S \in SUBSET Nat
  BY Numbers DEF EndInv
<1>2. PICK m : m = Min(S)
  OBVIOUS
<1>3. FoundAt(k) = m
  BY <1>2 DEF FoundAt
<1>4. m \in S /\ \A n \in S : m <= n
  <2> HIDE DEF S
  <2> QED  BY <1>1, <1>2, FirstPlace
<1>5. \A n \in Indexes : n < m => n \notin S
  <2> HIDE DEF S
  <2> QED  BY <1>4, <1>1, Numbers
<1> QED  BY <1>1, <1>3, <1>4, <1>5, Numbers

\* The scans of arpegChain and arpeggioCounterCheck stop at an end mark of the
\* table, and no earlier one was passed.
LEMMA EndProperties ==
    ASSUME TypeOK, EndInv, NEW i \in 0 .. VoiceCount
    PROVE  /\ EndFrom(i) \in i .. VoiceCount
           /\ notes[EndFrom(i) + 1] = NoKey
           /\ \A n \in i .. VoiceCount : n < EndFrom(i) => notes[n + 1] # NoKey
<1> DEFINE S == {j \in Indexes : j >= i /\ (j > VoiceCount \/ notes[j + 1] = NoKey)}
<1>1. VoiceCount \in S /\ S \in SUBSET Nat
  BY Numbers DEF EndInv
<1>2. PICK m : m = Min(S)
  OBVIOUS
<1>3. EndFrom(i) = m
  BY <1>2 DEF EndFrom
<1>4. m \in S /\ \A n \in S : m <= n
  <2> HIDE DEF S
  <2> QED  BY <1>1, <1>2, FirstPlace
<1>5. \A n \in Indexes : n < m => n \notin S
  <2> HIDE DEF S
  <2> QED  BY <1>4, <1>1, Numbers
<1> QED  BY <1>1, <1>3, <1>4, <1>5, Numbers

\* What a note off leaves: the keys above the one that is found move down.
LEMMA NoteOffProperties ==
    ASSUME TypeOK, EndInv, NEW k \in Keys, NoteOff(k)
    PROVE  LET i == FoundAt(k)
               end == EndFrom(i)
           IN  /\ i \in 0 .. VoiceCount /\ end \in i .. VoiceCount
               /\ notes' \in [Indexes -> Keys \cup {NoKey}]
               /\ \A n \in Indexes : notes'[n] = IF n \in i .. end THEN notes[n + 1] ELSE notes[n]
               /\ a' = [a EXCEPT !.max = end, !.current = IF @ >= end THEN 0 ELSE @]
<1>1. PICK i : i = FoundAt(k)
  OBVIOUS
<1>2. PICK end : end = EndFrom(i)
  OBVIOUS
<1>3. i \in 0 .. VoiceCount /\ end \in i .. VoiceCount
  BY <1>1, <1>2, FoundProperties, EndProperties
<1>4. /\ notes' = [n \in Indexes |-> IF n \in i .. end /\ n <= VoiceCount
                                      THEN notes[n + 1] ELSE notes[n]]
      /\ a' = [a EXCEPT !.max = end, !.current = IF @ >= end THEN 0 ELSE @]
  BY <1>1, <1>2 DEF NoteOff
<1>5. notes \in [Indexes -> Keys \cup {NoKey}]
  BY DEF TypeOK
<1>6. /\ notes' \in [Indexes -> Keys \cup {NoKey}]
      /\ \A n \in Indexes : notes'[n] = IF n \in i .. end THEN notes[n + 1] ELSE notes[n]
  BY <1>3, <1>4, <1>5, Numbers
<1> QED  BY <1>1, <1>2, <1>3, <1>4, <1>6

----------------------------------------------------------------------------
(***************************************************************************)
(* Types.                                                                  *)
(***************************************************************************)

\* The table is emptied and every counter set when the engine starts.
LEMMA TypeInit == Init => TypeOK /\ EndInv /\ ModeInv
<1> SUFFICES ASSUME Init PROVE TypeOK /\ EndInv /\ ModeInv
  OBVIOUS
<1>1. a \in Counters(VoiceCount)
  BY Numbers DEF Init, Counters
<1>2. s \in Counters(SeqMax)
  BY Numbers DEF Init, Counters, SeqDefault
<1>3. notes \in [Indexes -> Keys \cup {NoKey}] /\ EndInv
  <2>1. notes = [i \in Indexes |-> NoKey]
    BY DEF Init
  <2>2. VoiceCount \in Indexes /\ VoiceCount + 1 \in Indexes
    BY Numbers
  <2> QED  BY <2>1, <2>2 DEF EndInv
<1>4. ModeInv
  BY DEF Init, ModeInv
<1>5. setup \in Setups /\ told \in Seq(Keys)
  BY DEF Init
<1>6. on \in BOOLEAN /\ sequencing \in BOOLEAN /\ learning \in BOOLEAN /\ crashed \in BOOLEAN
  BY DEF Init
<1> QED  BY <1>1, <1>2, <1>3, <1>4, <1>5, <1>6 DEF TypeOK

\* The places behind the voices stay empty and the types are kept, whatever
\* the step.
LEMMA NextType == TypeOK /\ EndInv /\ [Next]_vars => TypeOK' /\ EndInv'
<1> SUFFICES ASSUME TypeOK, EndInv, [Next]_vars PROVE TypeOK' /\ EndInv'
  OBVIOUS
<1>0. /\ setup \in Setups /\ notes \in [Indexes -> Keys \cup {NoKey}]
      /\ a \in Counters(VoiceCount) /\ s \in Counters(SeqMax) /\ told \in Seq(Keys)
      /\ on \in BOOLEAN /\ sequencing \in BOOLEAN /\ learning \in BOOLEAN
      /\ crashed \in BOOLEAN
  BY DEF TypeOK
<1>1. ASSUME NEW k \in Keys, NoteOn(k) PROVE TypeOK' /\ EndInv'
  <2>1. a' \in Counters(VoiceCount)
    <3>1. Inserted(k).max \in 0 .. VoiceCount
      BY <1>0, InsertedProperties, Numbers DEF Counters
    <3> QED  BY <1>0, <1>1, <3>1 DEF NoteOn, Counters
  <2>2. notes' \in [Indexes -> Keys \cup {NoKey}] /\ EndInv'
    <3>1. CASE on
      <4>1. notes' = Inserted(k).notes
        BY <1>1, <3>1 DEF NoteOn
      <4>2. a.max \in 0 .. VoiceCount /\ VoiceCount \in Indexes /\ VoiceCount + 1 \in Indexes
        BY <1>0, Numbers DEF Counters
      <4>3. notes'[VoiceCount] = NoKey
        BY <4>1, <4>2, InsertedProperties, Numbers DEF EndInv
      <4>4. notes'[VoiceCount + 1] = NoKey
        BY <4>1, <4>2, InsertedProperties, Numbers DEF EndInv
      <4> QED  BY <4>1, <4>3, <4>4, InsertedProperties DEF EndInv
    <3>2. CASE ~on
      BY <1>0, <1>1, <3>2 DEF NoteOn, EndInv
    <3> QED  BY <3>1, <3>2
  <2>3. s' \in Counters(SeqMax)
    <3>1. s.max \in 0 .. SeqMax /\ s.current \in -1 .. SeqMax /\ s.span \in Nat
      BY <1>0 DEF Counters
    <3>2. [s EXCEPT !.max = IF @ + 1 >= SeqMax THEN SeqMax ELSE @ + 1] \in Counters(SeqMax)
      <4>1. (IF s.max + 1 >= SeqMax THEN SeqMax ELSE s.max + 1) \in 0 .. SeqMax
        BY <3>1, Numbers
      <4> QED  BY <1>0, <4>1 DEF Counters
    <3>3. Restarted(s) \in Counters(SeqMax)
      <4>1. [s EXCEPT !.current = s.max, !.octave = s.span, !.step = -1] \in Counters(SeqMax)
        <5>1. s.max \in -1 .. SeqMax /\ -1 \in {-1, 0, 1}
          BY <3>1
        <5> QED  BY <1>0, <3>1, <5>1 DEF Counters
      <4>2. [s EXCEPT !.current = 0, !.octave = 1, !.step = 1] \in Counters(SeqMax)
        <5>1. 0 \in -1 .. SeqMax /\ 1 \in Nat /\ 1 \in {-1, 0, 1}
          BY Numbers
        <5> QED  BY <1>0, <5>1 DEF Counters
      <4> QED  BY <4>1, <4>2 DEF Restarted
    <3> QED  BY <1>0, <1>1, <3>2, <3>3 DEF NoteOn
  <2>4. told' \in Seq(Keys)
    <3>1. CASE on
      <4>1. Len(told) = VoiceCount => Tail(told) \in Seq(Keys)
        BY <1>0, Numbers
      <4> QED  BY <1>0, <1>1, <3>1, <4>1 DEF NoteOn
    <3>2. CASE ~on
      BY <1>0, <1>1, <3>2 DEF NoteOn
    <3> QED  BY <3>1, <3>2
  <2> QED  BY <1>0, <1>1, <2>1, <2>2, <2>3, <2>4 DEF TypeOK, NoteOn, modes
<1>2. ASSUME NEW k \in Keys, NoteOff(k) PROVE TypeOK' /\ EndInv'
  <2>1. PICK i : i = FoundAt(k)
    OBVIOUS
  <2>2. PICK end : end = EndFrom(i)
    OBVIOUS
  <2>3. /\ i \in 0 .. VoiceCount /\ end \in i .. VoiceCount
        /\ notes' \in [Indexes -> Keys \cup {NoKey}]
        /\ \A n \in Indexes : notes'[n] = IF n \in i .. end THEN notes[n + 1] ELSE notes[n]
        /\ a' = [a EXCEPT !.max = end, !.current = IF @ >= end THEN 0 ELSE @]
    BY <1>2, <2>1, <2>2, NoteOffProperties
  <2>4. a' \in Counters(VoiceCount)
    <3>1. end \in 0 .. VoiceCount /\ 0 \in -1 .. VoiceCount
      BY <2>3, Numbers
    <3> QED  BY <1>0, <2>3, <3>1 DEF Counters
  <2>5. EndInv'
    <3>1. VoiceCount \in Indexes /\ VoiceCount + 1 \in Indexes
      BY Numbers
    <3>2. notes'[VoiceCount] = NoKey
      BY <2>3, <3>1 DEF EndInv
    <3>3. notes'[VoiceCount + 1] = NoKey
      <4>1. VoiceCount + 1 \notin i .. end
        BY <2>3, Numbers
      <4> QED  BY <2>3, <3>1, <4>1 DEF EndInv
    <3> QED  BY <3>2, <3>3 DEF EndInv
  <2>6. told' \in Seq(Keys)
    <3>1. ASSUME Contains(told, k) PROVE RemoveFirst(told, k) \in Seq(Keys)
      BY <3>1, <1>0, RemovedKey
    <3> QED  BY <1>0, <1>2, <3>1 DEF NoteOff
  <2> QED  BY <1>0, <1>2, <2>3, <2>4, <2>5, <2>6 DEF TypeOK, NoteOff, modes
<1>3. CASE ArpegOn
  <2>1. a' \in Counters(VoiceCount)
    <3>1. AtLeastOne(a.span) \in Nat /\ 0 \in -1 .. VoiceCount
      BY <1>0, Numbers DEF Counters, AtLeastOne
    <3> QED  BY <1>0, <1>3, <3>1 DEF ArpegOn, Counters
  <2>2. notes' \in [Indexes -> Keys \cup {NoKey}] /\ EndInv'
    <3>1. VoiceCount \in Indexes /\ VoiceCount + 1 \in Indexes
      BY Numbers
    <3> QED  BY <1>0, <1>3, <3>1 DEF ArpegOn, EndInv
  <2>3. told' \in Seq(Keys)
    BY <1>0, <1>3 DEF ArpegOn
  <2> QED  BY <1>0, <1>3, <2>1, <2>2, <2>3 DEF ArpegOn, Control, TypeOK
<1>4. CASE SeqOn
  <2>1. s' \in Counters(SeqMax)
    <3>1. AtLeastOne(s.span) \in Nat
      BY <1>0 DEF Counters, AtLeastOne
    <3> QED  BY <1>0, <1>4, <3>1 DEF SeqOn, Counters
  <2> QED  BY <1>0, <1>4, <2>1 DEF SeqOn, Control, TypeOK, EndInv
<1>5. CASE SwitchedOff
  BY <1>0, <1>5 DEF SwitchedOff, Control, TypeOK, EndInv
<1>6. ASSUME NEW dir \in Dirs, Direction(dir) PROVE TypeOK' /\ EndInv'
  <2>1. dir \in Down .. Random
    BY <1>0, ArpeggiatorAssumption DEF Dirs
  <2>2. ASSUME NEW n \in Nat, NEW q \in Counters(n) PROVE Directed(q, dir) \in Counters(n)
    <3>1. 0 \in -1 .. n /\ (IF dir = Down THEN -1 ELSE 1) \in {-1, 0, 1}
      OBVIOUS
    <3> QED  BY <2>1, <3>1 DEF Directed, Counters
  <2> QED  BY <1>0, <1>6, <2>2, Numbers DEF Direction, Control, modes, TypeOK, EndInv
<1>7. ASSUME NEW span \in Spans, Octaves(span) PROVE TypeOK' /\ EndInv'
  <2>1. span \in Nat
    BY ArpeggiatorAssumption
  <2>2. a' \in Counters(VoiceCount) /\ s' \in Counters(SeqMax)
    BY <1>0, <1>7, <2>1 DEF Octaves, Counters
  <2> QED  BY <1>0, <1>7, <2>2 DEF Octaves, Control, modes, TypeOK, EndInv
<1>8. CASE Learn
  <2>1. s' \in Counters(SeqMax)
    <3>1. 0 \in -1 .. SeqMax /\ 0 \in 0 .. SeqMax
      BY Numbers
    <3> QED  BY <1>0, <1>8, <3>1 DEF Learn, Counters
  <2> QED  BY <1>0, <1>8, <2>1 DEF Learn, Control, TypeOK, EndInv
<1>9. CASE SeqKey
  <2>1. s' \in Counters(SeqMax)
    <3>1. (IF s.max + 1 > SeqMax THEN SeqMax ELSE s.max + 1) \in 0 .. SeqMax
      BY <1>0, Numbers DEF Counters
    <3> QED  BY <1>0, <1>9, <3>1 DEF SeqKey, Counters
  <2> QED  BY <1>0, <1>9, <2>1 DEF SeqKey, Control, modes, TypeOK, EndInv
<1>10. CASE Learnt
  <2>1. s' \in Counters(SeqMax)
    <3>1. (IF s.max = 0 THEN SeqMin ELSE s.max) \in 0 .. SeqMax
      BY <1>0, Numbers DEF Counters, SeqMin
    <3> QED  BY <1>0, <1>10, <3>1 DEF Learnt, Counters
  <2> QED  BY <1>0, <1>10, <2>1 DEF Learnt, Control, TypeOK, EndInv
<1>11. CASE Walk
  <2>1. a' \in Counters(VoiceCount) /\ s' \in Counters(SeqMax)
    BY <1>0, <1>11, WalkedType, Numbers DEF Walk
  <2> QED  BY <1>0, <1>11, <2>1 DEF Walk, modes, TypeOK, EndInv
<1>12. CASE Trap
  BY <1>0, <1>12 DEF Trap, modes, TypeOK, EndInv
<1>13. CASE UNCHANGED vars
  BY <1>0, <1>13 DEF vars, modes, TypeOK, EndInv
<1> QED
  BY <1>1, <1>2, <1>3, <1>4, <1>5, <1>6, <1>7, <1>8, <1>9, <1>10, <1>11, <1>12, <1>13
  DEF Next, Controls

\* Every variable keeps its type: the counters of the arpeggiator and of the
\* sequencer are never past their arrays, and before them only at -1, where a walk
\* down an empty table leaves them (bristolArpeggiator, arpeggioCounterCheck).
THEOREM ArpeggiatorTypes == Spec => []TypeOK
<1>1. Init => TypeOK /\ EndInv
  BY TypeInit
<1>2. TypeOK /\ EndInv /\ [Next]_vars => (TypeOK /\ EndInv)'
  BY NextType
<1> QED  BY <1>1, <1>2, PTL DEF Spec

----------------------------------------------------------------------------
(***************************************************************************)
(* The table is the list of the keys.                                      *)
(***************************************************************************)

\* A setup keeps the arpeggiator switched on, or never has.
LEMMA NextModes == TypeOK /\ ModeInv /\ [Next]_vars => ModeInv'
<1> SUFFICES ASSUME TypeOK, ModeInv, [Next]_vars PROVE ModeInv'
  OBVIOUS
<1> USE DEF ModeInv, Sequencer, Off
<1>0. a \in Counters(VoiceCount)
  BY DEF TypeOK
<1>1. ASSUME NEW k \in Keys, NoteOn(k) \/ NoteOff(k) PROVE ModeInv'
  BY <1>1 DEF NoteOn, NoteOff, modes
<1>2. CASE ArpegOn
  BY <1>2 DEF ArpegOn, Control
<1>3. CASE SeqOn
  BY <1>3 DEF SeqOn, Control
<1>4. CASE SwitchedOff
  BY <1>4 DEF SwitchedOff, Control
<1>5. ASSUME NEW dir \in Dirs, Direction(dir) PROVE ModeInv'
  <2>1. a'.max = a.max
    BY <1>0, <1>5 DEF Direction, Directed, Counters
  <2> QED  BY <1>5, <2>1 DEF Direction, Control, modes
<1>6. ASSUME NEW span \in Spans, Octaves(span) PROVE ModeInv'
  <2>1. a'.max = a.max
    BY <1>0, <1>6 DEF Octaves, Counters
  <2> QED  BY <1>6, <2>1 DEF Octaves, Control, modes
<1>7. CASE Learn \/ SeqKey \/ Learnt
  BY <1>7 DEF Learn, SeqKey, Learnt, Control, modes
<1>8. CASE Walk
  <2>1. a'.max = a.max
    BY <1>0, <1>8, WalkedType, Numbers DEF Walk
  <2> QED  BY <1>8, <2>1 DEF Walk, modes
<1>9. CASE Trap
  BY <1>9 DEF Trap, modes
<1>10. CASE UNCHANGED vars
  BY <1>10 DEF vars, modes
<1> QED
  BY <1>1, <1>2, <1>3, <1>4, <1>5, <1>6, <1>7, <1>8, <1>9, <1>10 DEF Next, Controls

\* A note on: one more key behind the others, or the oldest one goes.
LEMMA NoteOnListed ==
    ASSUME ArpInv, NEW k \in Keys, NoteOn(k)
    PROVE  KeysListed' /\ Len(told') <= VoiceCount
<1> USE DEF Off
<1>0. /\ TypeOK /\ EndInv /\ notes \in [Indexes -> Keys \cup {NoKey}]
      /\ a.max \in 0 .. VoiceCount /\ told \in Seq(Keys) /\ Len(told) <= VoiceCount
      /\ a \in Counters(VoiceCount)
  BY DEF ArpInv, TypeOK, Counters
<1>1. CASE ~on
  BY <1>1 DEF NoteOn, modes, KeysListed, ArpInv
<1>2. CASE on
  <2>1. /\ notes' = Inserted(k).notes /\ a'.max = Inserted(k).max
        /\ told' = Append(IF Len(told) = VoiceCount THEN Tail(told) ELSE told, k)
        /\ on' = on /\ setup' = setup
    BY <1>0, <1>2 DEF NoteOn, modes, Counters
  <2>2. CASE Len(told) < VoiceCount
    <3>1. /\ told' = Append(told, k) /\ Len(told') = Len(told) + 1
          /\ \A i \in 1 .. Len(told) : told'[i] = told[i]
          /\ told'[Len(told) + 1] = k
      BY <1>0, <2>1, <2>2
    <3>2. ASSUME ~Off
          PROVE  /\ a'.max = Len(told')
                 /\ \A i \in Indexes : notes'[i] = IF i < Len(told') THEN told'[i + 1] ELSE NoKey
      <4>1. /\ a.max = Len(told)
            /\ \A i \in Indexes : notes[i] = IF i < Len(told) THEN told[i + 1] ELSE NoKey
        BY <1>2, <3>2 DEF ArpInv, KeysListed
      <4>2. a.max < VoiceCount /\ a'.max = a.max + 1
        BY <1>0, <2>1, <2>2, <4>1, InsertedProperties, Numbers
      <4>3. \A i \in Indexes : notes'[i] = IF i = a.max THEN k
                                           ELSE IF i = a.max + 1 THEN NoKey ELSE notes[i]
        BY <1>0, <2>1, <4>2, InsertedProperties, Numbers
      <4>4. ASSUME NEW i \in Indexes
            PROVE  notes'[i] = IF i < Len(told') THEN told'[i + 1] ELSE NoKey
        <5>1. i < Len(told) => i + 1 \in 1 .. Len(told)
          BY Numbers
        <5> QED  BY <1>0, <3>1, <4>1, <4>3, <5>1, Numbers
      <4> QED  BY <1>0, <3>1, <4>1, <4>2, <4>4
    <3> QED  BY <1>0, <2>1, <2>2, <3>1, <3>2, Numbers DEF KeysListed
  <2>3. CASE Len(told) = VoiceCount
    <3>0. /\ Tail(told) \in Seq(Keys) /\ Len(Tail(told)) = VoiceCount - 1
          /\ \A i \in 1 .. VoiceCount - 1 : Tail(told)[i] = told[i + 1]
      BY <1>0, <2>3, Numbers
    <3>1. /\ told' = Append(Tail(told), k) /\ Len(told') = VoiceCount
          /\ \A i \in 1 .. VoiceCount - 1 : told'[i] = told[i + 1]
          /\ told'[VoiceCount] = k
      BY <2>1, <2>3, <3>0, Numbers
    <3>2. ASSUME ~Off
          PROVE  /\ a'.max = Len(told')
                 /\ \A i \in Indexes : notes'[i] = IF i < Len(told') THEN told'[i + 1] ELSE NoKey
      <4>1. /\ a.max = VoiceCount
            /\ \A i \in Indexes : notes[i] = IF i < VoiceCount THEN told[i + 1] ELSE NoKey
        BY <1>2, <2>3, <3>2 DEF ArpInv, KeysListed
      <4>2. a'.max = VoiceCount
        BY <1>0, <2>1, <4>1, InsertedProperties, Numbers
      <4>3. \A i \in Indexes : notes'[i] = IF i = VoiceCount - 1 THEN k
                                           ELSE IF i < VoiceCount THEN notes[i + 1] ELSE NoKey
        BY <1>0, <2>1, <4>1, InsertedProperties, Numbers
      <4>4. ASSUME NEW i \in Indexes
            PROVE  notes'[i] = IF i < Len(told') THEN told'[i + 1] ELSE NoKey
        <5>1. i < VoiceCount - 1 => i + 1 \in 1 .. VoiceCount - 1 /\ i + 1 \in Indexes
          BY Numbers
        <5> QED  BY <3>1, <4>1, <4>3, <5>1, Numbers
      <4> QED  BY <3>1, <4>2, <4>4
    <3> QED  BY <2>1, <3>1, <3>2, Numbers DEF KeysListed
  <2> QED  BY <1>0, <2>2, <2>3, Numbers
<1> QED  BY <1>1, <1>2

\* A note off: the first of the places of the key is closed, if there is one.
LEMMA NoteOffListed ==
    ASSUME ArpInv, NEW k \in Keys, NoteOff(k)
    PROVE  KeysListed' /\ Len(told') <= VoiceCount
<1> USE DEF Off
<1>0. /\ TypeOK /\ EndInv /\ notes \in [Indexes -> Keys \cup {NoKey}] /\ on
      /\ a.max \in 0 .. VoiceCount /\ told \in Seq(Keys) /\ Len(told) <= VoiceCount
      /\ a \in Counters(VoiceCount) /\ on' = on /\ setup' = setup
      /\ told' = IF Contains(told, k) THEN RemoveFirst(told, k) ELSE told
  BY DEF ArpInv, TypeOK, Counters, NoteOff, modes
<1>1. PICK f : f = FoundAt(k)
  OBVIOUS
<1>2. PICK end : end = EndFrom(f)
  OBVIOUS
<1>3. /\ f \in 0 .. VoiceCount /\ end \in f .. VoiceCount
      /\ \A n \in Indexes : notes'[n] = IF n \in f .. end THEN notes[n + 1] ELSE notes[n]
      /\ a'.max = end
  BY <1>0, <1>1, <1>2, NoteOffProperties DEF Counters
<1>4. /\ notes[f] \in {k, NoKey} /\ \A n \in Indexes : n < f => notes[n] \notin {k, NoKey}
  BY <1>0, <1>1, FoundProperties
<1>5. /\ notes[end + 1] = NoKey
      /\ \A n \in f .. VoiceCount : n < end => notes[n + 1] # NoKey
  BY <1>0, <1>2, <1>3, EndProperties
<1>6. CASE Contains(told, k)
  <2>1. PICK p \in 1 .. Len(told) :
              /\ told[p] = k /\ \A i \in 1 .. p - 1 : told[i] # k
              /\ RemoveFirst(told, k) \in Seq(Keys)
              /\ Len(RemoveFirst(told, k)) = Len(told) - 1
              /\ \A i \in 1 .. Len(told) - 1 :
                    RemoveFirst(told, k)[i] = IF i < p THEN told[i] ELSE told[i + 1]
    BY <1>0, <1>6, RemovedKey
  <2>2. /\ Len(told') = Len(told) - 1 /\ told' \in Seq(Keys)
        /\ \A i \in 1 .. Len(told) - 1 : told'[i] = IF i < p THEN told[i] ELSE told[i + 1]
    BY <1>0, <1>6, <2>1
  <2>3. ASSUME ~Off
        PROVE  /\ a'.max = Len(told')
               /\ \A i \in Indexes : notes'[i] = IF i < Len(told') THEN told'[i + 1] ELSE NoKey
    <3>1. \A i \in Indexes : notes[i] = IF i < Len(told) THEN told[i + 1] ELSE NoKey
      BY <1>0, <2>3 DEF ArpInv, KeysListed
    <3>2. \A i \in 1 .. Len(told) : told[i] # NoKey
      BY <1>0, Numbers
    <3>3. f = p - 1
      <4>1. p - 1 \in Indexes /\ notes[p - 1] = k
        BY <1>0, <2>1, <3>1, Numbers
      <4>2. f <= p - 1
        BY <1>3, <1>4, <4>1, Numbers
      <4>3. CASE f < p - 1
        <5>1. /\ f \in Indexes /\ f < Len(told)
              /\ f + 1 \in 1 .. p - 1 /\ f + 1 \in 1 .. Len(told)
          BY <1>0, <1>3, <4>3, Numbers
        <5>2. notes[f] = told[f + 1]
          BY <3>1, <5>1
        <5> QED  BY <1>4, <2>1, <3>2, <5>1, <5>2
      <4> QED  BY <1>3, <4>2, <4>3, Numbers
    <3>4. end = Len(told) - 1
      <4>1. end + 1 \in Indexes /\ ~(end + 1 < Len(told))
        <5>1. end + 1 \in Indexes
          BY <1>3, Numbers
        <5>2. ASSUME end + 1 < Len(told) PROVE FALSE
          <6>1. notes[end + 1] = told[end + 2] /\ end + 2 \in 1 .. Len(told)
            BY <1>3, <3>1, <5>1, <5>2, Numbers
          <6> QED  BY <1>5, <3>2, <6>1
        <5> QED  BY <5>1, <5>2
      <4>2. ASSUME Len(told) - 1 < end PROVE FALSE
        <5>1. Len(told) - 1 \in f .. VoiceCount /\ Len(told) \in Indexes
          BY <1>0, <2>1, <3>3, Numbers
        <5>2. notes[Len(told)] = NoKey
          BY <1>0, <3>1, <5>1
        <5>3. notes[Len(told) - 1 + 1] # NoKey
          BY <1>5, <4>2, <5>1
        <5>4. Len(told) - 1 + 1 = Len(told)
          BY <1>0
        <5> QED  BY <5>2, <5>3, <5>4
      <4> QED  BY <1>0, <1>3, <4>1, <4>2, Numbers
    <3>5. ASSUME NEW i \in Indexes
          PROVE  notes'[i] = IF i < Len(told') THEN told'[i + 1] ELSE NoKey
      <4>1. CASE i < p - 1
        <5>1. notes'[i] = notes[i] /\ notes[i] = told[i + 1] /\ i + 1 \in 1 .. Len(told) - 1
          BY <1>0, <1>3, <2>1, <3>1, <3>3, <4>1, Numbers
        <5> QED  BY <2>2, <4>1, <5>1, Numbers
      <4>2. CASE i \in p - 1 .. Len(told) - 1
        <5>1. i + 1 \in Indexes /\ notes'[i] = notes[i + 1]
          BY <1>0, <1>3, <3>3, <3>4, <4>2, Numbers
        <5>2. CASE i + 1 < Len(told)
          <6>1. notes[i + 1] = told[i + 2]
            BY <3>1, <5>1, <5>2, Numbers
          <6>2. i + 1 \in 1 .. Len(told) - 1 /\ ~(i + 1 < p) /\ i < Len(told')
            BY <1>0, <2>1, <2>2, <4>2, <5>2, Numbers
          <6>3. told'[i + 1] = told[i + 1 + 1]
            BY <2>2, <6>2
          <6>4. i + 1 + 1 = i + 2
            BY <4>2
          <6> QED  BY <5>1, <6>1, <6>2, <6>3, <6>4
        <5>3. CASE ~(i + 1 < Len(told))
          <6>1. notes[i + 1] = NoKey /\ ~(i < Len(told'))
            BY <1>0, <2>2, <3>1, <4>2, <5>1, <5>3, Numbers
          <6> QED  BY <5>1, <6>1
        <5> QED  BY <5>2, <5>3
      <4>3. CASE i > Len(told) - 1
        <5>1. notes'[i] = notes[i] /\ notes[i] = NoKey
          BY <1>0, <1>3, <3>1, <3>4, <4>3, Numbers
        <5> QED  BY <1>0, <2>2, <4>3, <5>1, Numbers
      <4> QED  BY <1>0, <2>1, <4>1, <4>2, <4>3, Numbers
    <3> QED  BY <1>3, <2>2, <3>4, <3>5
  <2> QED  BY <1>0, <2>2, <2>3, Numbers DEF KeysListed
<1>7. CASE ~Contains(told, k)
  <2>1. told' = told
    BY <1>0, <1>7
  <2>2. ASSUME ~Off
        PROVE  /\ a'.max = Len(told)
               /\ \A i \in Indexes : notes'[i] = IF i < Len(told) THEN told[i + 1] ELSE NoKey
    <3>1. \A i \in Indexes : notes[i] = IF i < Len(told) THEN told[i + 1] ELSE NoKey
      BY <1>0, <2>2 DEF ArpInv, KeysListed
    <3>2. \A i \in 1 .. Len(told) : told[i] # NoKey /\ told[i] # k
      BY <1>0, <1>7, Numbers DEF Contains
    <3>3. f = Len(told)
      <4>1. Len(told) \in Indexes /\ notes[Len(told)] = NoKey
        BY <1>0, <3>1, Numbers
      <4>2. f <= Len(told)
        BY <1>3, <1>4, <4>1, Numbers
      <4>3. ASSUME f < Len(told) PROVE FALSE
        <5>1. f \in Indexes /\ f + 1 \in 1 .. Len(told) /\ notes[f] = told[f + 1]
          BY <1>0, <1>3, <3>1, <4>3, Numbers
        <5> QED  BY <1>4, <3>2, <5>1
      <4> QED  BY <1>0, <1>3, <4>2, <4>3
    <3>4. end = Len(told)
      <4>1. Len(told) \in f .. VoiceCount /\ Len(told) + 1 \in Indexes
        BY <1>0, <3>3, Numbers
      <4>2. notes[Len(told) + 1] = NoKey
        BY <1>0, <3>1, <4>1
      <4>3. ~(Len(told) < end)
        BY <1>5, <4>1, <4>2
      <4> QED  BY <1>0, <1>3, <3>3, <4>3
    <3>5. ASSUME NEW i \in Indexes PROVE notes'[i] = notes[i]
      <4>1. CASE i = Len(told)
        <5>1. i + 1 \in Indexes /\ notes'[i] = notes[i + 1]
          BY <1>0, <1>3, <3>3, <3>4, <4>1, Numbers
        <5> QED  BY <1>0, <3>1, <4>1, <5>1, Numbers
      <4>2. CASE i # Len(told)
        BY <1>0, <1>3, <3>3, <3>4, <4>2, Numbers
      <4> QED  BY <4>1, <4>2
    <3> QED  BY <1>3, <3>1, <3>4, <3>5
  <2> QED  BY <1>0, <2>1, <2>2 DEF KeysListed
<1> QED  BY <1>6, <1>7

\* An empty table lists the keys that are held: none.
LEMMA ArpInit == Init => ArpInv
<1> SUFFICES ASSUME Init PROVE ArpInv
  OBVIOUS
<1>1. Len(told) <= VoiceCount
  BY Numbers DEF Init
<1>2. KeysListed
  BY DEF Init, KeysListed
<1>3. CounterInv
  BY Numbers DEF Init, CounterInv, SeqDefault
<1> QED  BY <1>1, <1>2, <1>3, TypeInit DEF ArpInv

\* The counters stay within their entries, or just past the last
\* (bristolArpeggiatorNoteEvent, arpeggioCounterCheck).
LEMMA NextCounters == TypeOK /\ EndInv /\ CounterInv /\ [Next]_vars => CounterInv'
<1> SUFFICES ASSUME TypeOK, EndInv, CounterInv, [Next]_vars PROVE CounterInv'
  OBVIOUS
<1>0. /\ a \in Counters(VoiceCount) /\ s \in Counters(SeqMax)
      /\ a.max \in 0 .. VoiceCount /\ s.max \in 0 .. SeqMax
      /\ a.current \in Int /\ s.current \in Int /\ a.current <= a.max /\ s.current <= s.max
  BY DEF TypeOK, Counters, CounterInv
<1>1. ASSUME NEW k \in Keys, NoteOn(k) PROVE CounterInv'
  <2>1. a'.current <= a'.max
    <3>1. Inserted(k).max >= a.max /\ Inserted(k).max \in Int
      BY <1>0, InsertedProperties, Numbers DEF TypeOK
    <3>2. a' = IF on THEN [a EXCEPT !.max = Inserted(k).max] ELSE a
      BY <1>1 DEF NoteOn
    <3> QED  BY <1>0, <3>1, <3>2 DEF Counters
  <2>2. s'.current <= s'.max
    <3>1. CASE s' = s
      BY <1>0, <3>1
    <3>2. CASE s' = [s EXCEPT !.max = IF @ + 1 >= SeqMax THEN SeqMax ELSE @ + 1]
      BY <1>0, <3>2, Numbers DEF Counters
    <3>3. CASE s' = Restarted(s)
      BY <1>0, <3>3 DEF Restarted, Counters
    <3> QED  BY <1>1, <3>1, <3>2, <3>3 DEF NoteOn
  <2> QED  BY <2>1, <2>2 DEF CounterInv
<1>2. ASSUME NEW k \in Keys, NoteOff(k) PROVE CounterInv'
  <2>1. PICK i : i = FoundAt(k)
    OBVIOUS
  <2>2. PICK end : end = EndFrom(i)
    OBVIOUS
  <2>3. end \in Nat /\ a' = [a EXCEPT !.max = end, !.current = IF @ >= end THEN 0 ELSE @]
    <3>1. end \in i .. VoiceCount /\ i \in 0 .. VoiceCount
          /\ a' = [a EXCEPT !.max = end, !.current = IF @ >= end THEN 0 ELSE @]
      BY <1>2, <2>1, <2>2, NoteOffProperties DEF TypeOK
    <3> QED  BY <3>1, Numbers
  <2>4. a'.current <= a'.max
    BY <1>0, <2>3 DEF Counters
  <2> QED  BY <1>0, <1>2, <2>4 DEF NoteOff, CounterInv
<1>3. CASE ArpegOn \/ SeqOn \/ SwitchedOff \/ Learn \/ Trap \/ UNCHANGED vars
  <2>1. \/ a' = a
        \/ a' = [a EXCEPT !.current = 0, !.span = AtLeastOne(@)]
    BY <1>3 DEF ArpegOn, SeqOn, SwitchedOff, Learn, Trap, vars
  <2>2. \/ s' = s
        \/ s' = [s EXCEPT !.span = AtLeastOne(@)]
        \/ s' = [s EXCEPT !.current = 0, !.max = 0]
    BY <1>3 DEF ArpegOn, SeqOn, SwitchedOff, Learn, Trap, vars
  <2>3. a'.current <= a'.max
    <3>1. \/ a'.current = a.current /\ a'.max = a.max
          \/ a'.current = 0 /\ a'.max = a.max
      BY <1>0, <2>1 DEF Counters, AtLeastOne
    <3> QED  BY <1>0, <3>1
  <2>4. s'.current <= s'.max
    <3>1. \/ s'.current = s.current /\ s'.max = s.max
          \/ s'.current = 0 /\ s'.max = 0
      BY <1>0, <2>2 DEF Counters, AtLeastOne
    <3> QED  BY <1>0, <3>1
  <2> QED  BY <2>3, <2>4 DEF CounterInv
<1>4. ASSUME NEW dir \in Dirs, Direction(dir) PROVE CounterInv'
  BY <1>0, <1>4 DEF Direction, Directed, CounterInv, Counters
<1>5. ASSUME NEW span \in Spans, Octaves(span) PROVE CounterInv'
  BY <1>0, <1>5 DEF Octaves, CounterInv, Counters
<1>6. CASE SeqKey \/ Learnt
  <2>1. a' = a /\ \/ s' = [s EXCEPT !.max = IF @ + 1 > SeqMax THEN SeqMax ELSE @ + 1]
                  \/ s' = [s EXCEPT !.max = IF @ = 0 THEN SeqMin ELSE @]
    BY <1>6 DEF SeqKey, Learnt
  <2> QED  BY <1>0, <2>1, Numbers DEF CounterInv, Counters, SeqMin
<1>7. CASE Walk
  <2>1. a' = a \/ (a'.current <= a.max /\ a'.max = a.max)
    BY <1>0, <1>7, WalkedWithin, WalkedType, Numbers DEF Walk
  <2>2. s' = s \/ (s'.current <= s.max /\ s'.max = s.max)
    BY <1>0, <1>7, WalkedWithin, WalkedType, Numbers DEF Walk
  <2> QED  BY <1>0, <2>1, <2>2 DEF CounterInv
<1> QED  BY <1>1, <1>2, <1>3, <1>4, <1>5, <1>6, <1>7 DEF Next, Controls

\* Every event and every period keeps the table and its counters together.
LEMMA NextArpInv == ArpInv /\ [Next]_vars => ArpInv'
<1> SUFFICES ASSUME ArpInv, [Next]_vars PROVE ArpInv'
  OBVIOUS
<1> DEFINE Goal == KeysListed' /\ Len(told') <= VoiceCount
<1>0. /\ TypeOK /\ EndInv /\ ModeInv /\ CounterInv /\ Len(told) <= VoiceCount /\ KeysListed
      /\ a \in Counters(VoiceCount) /\ on \in BOOLEAN
  BY DEF ArpInv, TypeOK
<1>1. TypeOK' /\ EndInv' /\ ModeInv' /\ CounterInv'
  BY <1>0, NextType, NextModes, NextCounters
<1> SUFFICES Goal
  BY <1>1 DEF ArpInv
<1> USE DEF Off, Sequencer
<1>2. ASSUME NEW k \in Keys, NoteOn(k) \/ NoteOff(k) PROVE Goal
  BY <1>2, NoteOnListed, NoteOffListed
<1>3. CASE ArpegOn
  <2>1. /\ a'.max = a.max /\ setup' = setup /\ on'
        /\ notes' = IF on THEN notes ELSE [i \in Indexes |-> NoKey]
        /\ told' = IF on THEN told ELSE << >>
    BY <1>0, <1>3 DEF ArpegOn, Control, Counters
  <2>2. CASE on
    BY <1>0, <2>1, <2>2 DEF KeysListed
  <2>3. CASE ~on
    <3>1. Len(told') = 0 /\ \A i \in Indexes : notes'[i] = NoKey /\ ~(i < 0)
      BY <2>1, <2>3, Numbers
    <3>2. ~Off => a'.max = 0
      BY <1>0, <2>1, <2>3 DEF ModeInv
    <3> QED  BY <2>1, <3>1, <3>2, Numbers DEF KeysListed
  <2> QED  BY <2>2, <2>3
<1>4. CASE SeqOn
  BY <1>0, <1>4 DEF SeqOn, KeysListed
<1>5. CASE SwitchedOff
  BY <1>0, <1>5 DEF SwitchedOff, Control, KeysListed
<1>6. ASSUME NEW dir \in Dirs, Direction(dir) PROVE Goal
  <2>1. a'.max = a.max
    BY <1>0, <1>6 DEF Direction, Directed, Counters
  <2> QED  BY <1>0, <1>6, <2>1 DEF Direction, Control, modes, KeysListed
<1>7. ASSUME NEW span \in Spans, Octaves(span) PROVE Goal
  <2>1. a'.max = a.max
    BY <1>0, <1>7 DEF Octaves, Counters
  <2> QED  BY <1>0, <1>7, <2>1 DEF Octaves, Control, modes, KeysListed
<1>8. CASE Learn \/ SeqKey \/ Learnt
  BY <1>0, <1>8 DEF Learn, SeqKey, Learnt, Control, modes, KeysListed
<1>9. CASE Walk
  <2>1. a'.max = a.max
    BY <1>0, <1>9, WalkedType, Numbers DEF Walk
  <2> QED  BY <1>0, <1>9, <2>1 DEF Walk, modes, KeysListed
<1>10. CASE Trap
  BY <1>0, <1>10 DEF Trap, modes, KeysListed
<1>11. CASE UNCHANGED vars
  BY <1>0, <1>11 DEF vars, modes, KeysListed
<1> HIDE DEF Goal
<1> QED
  BY <1>2, <1>3, <1>4, <1>5, <1>6, <1>7, <1>8, <1>9, <1>10, <1>11 DEF Next, Controls

\* The table is the list of the keys the arpeggiator was told of, in the order
\* in which they came, whatever comes and goes (bristolArpeggiatorNoteEvent).
THEOREM TableIsTheKeys == Spec => []KeysListed
<1>1. ArpInv => KeysListed
  BY DEF ArpInv
<1> QED  BY <1>1, ArpInit, NextArpInv, PTL DEF Spec

\* A walk over a table that has entries ends on one of them, and in an arpeggiator
\* that is not switched off on one that has a key, for any number of voices and
\* steps (arpeggioCounterCheck, bristolArpegReVoice).
THEOREM WalksStayInTable == Spec => WalksInTable
<1>1. ArpInv /\ [Next]_vars =>
         [Walk =>
             /\ (on /\ a.max > 0) => a'.current \in 0 .. a.max - 1
             /\ (on /\ a.max > 0 /\ ~Off) => notes[a'.current] # NoKey
             /\ (sequencing /\ ~learning /\ s.max > 0) => s'.current \in 0 .. s.max - 1]_vars
  <2> SUFFICES ASSUME ArpInv, Walk
               PROVE  /\ (on /\ a.max > 0) => a'.current \in 0 .. a.max - 1
                      /\ (on /\ a.max > 0 /\ ~Off) => notes[a'.current] # NoKey
                      /\ (sequencing /\ ~learning /\ s.max > 0) => s'.current \in 0 .. s.max - 1
    OBVIOUS
  <2>1. /\ a \in Counters(VoiceCount) /\ s \in Counters(SeqMax)
        /\ a.current <= a.max /\ s.current <= s.max /\ a.max \in 0 .. VoiceCount
        /\ told \in Seq(Keys)
    BY DEF ArpInv, TypeOK, CounterInv, Counters
  <2>2. (on /\ a.max > 0) => a'.current \in 0 .. a.max - 1
    BY <2>1, WalkedWithin, Numbers DEF Walk
  <2>3. (sequencing /\ ~learning /\ s.max > 0) => s'.current \in 0 .. s.max - 1
    BY <2>1, WalkedWithin, Numbers DEF Walk
  <2>4. ASSUME on, a.max > 0, ~Off PROVE notes[a'.current] # NoKey
    <3>1. a.max = Len(told) /\ \A i \in Indexes : i < Len(told) => notes[i] = told[i + 1]
      BY <2>4 DEF ArpInv, KeysListed
    <3>2. a'.current \in Indexes /\ a'.current < Len(told) /\ a'.current + 1 \in 1 .. Len(told)
      BY <2>1, <2>2, <2>4, <3>1, Numbers
    <3>3. told[a'.current + 1] \in Keys
      BY <2>1, <3>2
    <3> QED  BY <3>1, <3>2, <3>3, Numbers
  <2> QED  BY <2>2, <2>3, <2>4
<1> QED  BY <1>1, ArpInit, NextArpInv, PTL DEF Spec, WalksInTable
=============================================================================
