------------------------- MODULE MidiLibraryProofs -------------------------
(***************************************************************************)
(* Proofs about the MIDI library.                                          *)
(*                                                                         *)
(* MidiForward, for every number of GUIs and every size of the ring: what  *)
(* was put into it for a GUI is what that GUI is sent.                     *)
(*                                                                         *)
(* MidiParser, for every set of messages, length of the id and the header  *)
(* and size of the buffer: what is dispatched is what was sent.            *)
(***************************************************************************)
EXTENDS MidiForward, MidiParser, FiniteSetTheorems, SequenceTheorems, WellFoundedInduction, TLAPS

\* Numbers are well founded.
LEMMA Least ==
    ASSUME NEW S, S \subseteq Nat, S # {}
    PROVE  \E m \in S : \A n \in S : m <= n
<1> DEFINE T == {0 .. n : n \in S}
<1>1. T \subseteq FiniteSubsetsOf(Nat) /\ T # {}
  <2>1. \A n \in S : IsFiniteSet(0 .. n) /\ 0 .. n \subseteq Nat
    BY FS_Interval
  <2> QED  BY <2>1 DEF FiniteSubsetsOf
<1>2. \E x \in T : \A y \in T : ~(<<y, x>> \in StrictSubsetOrdering(Nat))
  <2> HIDE DEF T
  <2> QED  BY <1>1, WFMin, FS_StrictSubsetOrderingWellFounded
<1>3. PICK m \in S : \A n \in S : ~(<<0 .. n, 0 .. m>> \in StrictSubsetOrdering(Nat))
  BY <1>2
<1>4. ASSUME NEW n \in S, n < m PROVE FALSE
  <2>1. 0 .. n \subseteq 0 .. m /\ 0 .. n # 0 .. m /\ 0 .. n \subseteq Nat /\ 0 .. m \subseteq Nat
    BY <1>4
  <2>2. <<0 .. n, 0 .. m>> \in StrictSubsetOrdering(Nat)
    BY <2>1 DEF StrictSubsetOrdering
  <2> QED  BY <1>3, <2>2
<1> QED  BY <1>4

----------------------------------------------------------------------------
(***************************************************************************)
(* MidiForward: the order of the handles, and the ring.                    *)
(***************************************************************************)

\* There is a first of the GUIs left to consider.
LEMMA FirstProperties ==
    ASSUME NEW S \in SUBSET Guis, S # {}
    PROVE  First(S) \in S
<1>1. S \subseteq Nat
  BY ForwardAssumption
<1>2. PICK m \in S : \A n \in S : m <= n
  BY <1>1, Least
<1> QED  BY <1>2 DEF First

\* The pointers go round.
LEMMA Round ==
    ASSUME NEW p \in 0 .. Slots - 1
    PROVE  Following(p) = IF p = Slots - 1 THEN 0 ELSE p + 1
BY ForwardAssumption DEF Following

\* Putting a message behind the others, and taking the first of them.
LEMMA RingSteps ==
    ASSUME wp \in 0 .. Slots - 1, rp \in 0 .. Slots - 1
    PROVE  /\ Queued \in 0 .. Slots - 1 /\ (Queued = 0 <=> rp = wp)
           /\ \A i \in 0 .. Slots - 1 : At(rp, i) \in 0 .. Slots - 1
           /\ At(rp, 0) = rp /\ At(rp, Queued) = wp
           /\ \A i \in 0 .. Queued - 1 : At(rp, i) # wp
           /\ ~Full /\ wp' = Following(wp) /\ rp' = rp =>
                 Queued' = Queued + 1
           /\ rp # wp /\ rp' = Following(rp) /\ wp' = wp =>
                 Queued' = Queued - 1 /\ \A i \in 0 .. Queued - 1 : At(rp', i) = At(rp, i + 1)
<1>0. Slots \in Nat \ {0, 1}
  BY ForwardAssumption
<1>1. Following(wp) = IF wp = Slots - 1 THEN 0 ELSE wp + 1
  BY Round
<1>2. Following(rp) = IF rp = Slots - 1 THEN 0 ELSE rp + 1
  BY Round
<1> QED  BY <1>0, <1>1, <1>2 DEF Queued, At, Full

----------------------------------------------------------------------------
(***************************************************************************)
(* Types.                                                                  *)
(***************************************************************************)

\* The ring is empty at the start.
LEMMA ForwardInit == Init => RingInv
<1> SUFFICES ASSUME Init PROVE RingInv
  OBVIOUS
<1>1. /\ Slots \in Nat \ {0, 1} /\ NoSlot \notin 0 .. Slots - 1 /\ Guis \subseteq Nat
      /\ MaxEvents \in Nat /\ Saves \in Nat /\ setup \in Setups
  BY ForwardAssumption DEF Init, NoSlot, MaxEvents, Saves
<1>2. TypeOK
  <2>1. writer \in [Writers -> [msg : Messages, todo : SUBSET Guis, slot : 0 .. Slots - 1 \cup {NoSlot}]]
    BY <1>1 DEF Init, Idle, Messages, Save
  <2>2. go \in BOOLEAN /\ request \in BOOLEAN
    BY DEF Init
  <2>3. taken \in [Guis -> Seq(Messages)] /\ seen \in [Guis -> Seq(Messages)]
    BY DEF Init
  <2>4. buf \in [0 .. Slots - 1 -> {<<>>} \cup (Guis \X Messages)]
    BY DEF Init
  <2> QED  BY <1>1, <2>1, <2>2, <2>3, <2>4 DEF Init, TypeOK
<1>3. \A w \in Writers : writer[w].slot = NoSlot
  BY DEF Init, Idle
<1>4. RingHolds
  <2>1. Queued = 0
    BY DEF Init, Queued
  <2>2. \A g \in Guis : Starts(seen[g], taken[g])
    BY DEF Init, Starts
  <2>3. ASSUME NEW g \in Guis PROVE \E c \in [0 .. Queued -> 0 .. Len(taken[g])] : Counts(c, g)
    <3>1. Len(taken[g]) = 0 /\ Len(seen[g]) = 0
      BY DEF Init
    <3>2. Counts([i \in 0 .. 0 |-> 0], g) /\ [i \in 0 .. 0 |-> 0] \in [0 .. Queued -> 0 .. Len(taken[g])]
      BY <2>1, <3>1 DEF Counts
    <3> QED  BY <3>2
  <2> QED  BY <2>1, <2>2, <2>3 DEF RingHolds
<1> QED  BY <1>1, <1>2, <1>3, <1>4 DEF RingInv, SlotsFree, Owned

\* No step changes the bounds of a run.
LEMMA ForwardSetup == [Next]_vars => setup' = setup /\ MaxEvents' = MaxEvents /\ Saves' = Saves
                                     /\ Messages' = Messages /\ (OneAtATime' <=> OneAtATime)
BY DEF Next, KeyboardEvent, Writes, Look, Skip, Put, MainLoop, Send, AllSent, midiThreadSaveReq,
       Ask, savehandler, Hold, Release, vars, MaxEvents, Saves, Messages, OneAtATime, Window

\* A writer that has found a slot still has the GUI that it is for to consider.
LEMMA ForwardTypes ==
    setup \in Setups /\ TypeOK /\ Owned /\ [Next]_vars => TypeOK' /\ Owned'
<1> SUFFICES ASSUME setup \in Setups, TypeOK, Owned, [Next]_vars PROVE TypeOK' /\ Owned'
  OBVIOUS
<1> DEFINE Writer == [msg : Messages, todo : SUBSET Guis, slot : 0 .. Slots - 1 \cup {NoSlot}]
<1>t. /\ writer \in [Writers -> Writer] /\ Slots \in Nat \ {0, 1}
      /\ buf \in [0 .. Slots - 1 -> {<<>>} \cup (Guis \X Messages)]
      /\ wp \in 0 .. Slots - 1 /\ rp \in 0 .. Slots - 1
      /\ taken \in [Guis -> Seq(Messages)] /\ seen \in [Guis -> Seq(Messages)]
      /\ events \in Nat /\ saves \in Nat /\ MaxEvents \in Nat /\ Saves \in Nat
      /\ NoSlot \notin 0 .. Slots - 1
  BY ForwardAssumption DEF TypeOK, MaxEvents, Saves, NoSlot
<1>p. \A p \in 0 .. Slots - 1 : Following(p) \in 0 .. Slots - 1
  BY <1>t, Round
<1>s. setup' = setup /\ MaxEvents' = MaxEvents /\ Saves' = Saves /\ Messages' = Messages
  BY ForwardSetup
<1>b. ASSUME go' \in BOOLEAN, request' \in BOOLEAN,
             writer' \in [Writers -> Writer], UNCHANGED <<ring, taken, seen>>,
             events' \in 0 .. MaxEvents, saves' \in 0 .. Saves, asked' \subseteq Guis,
             main' \in {"reading", "request"}
      PROVE  TypeOK'
  BY <1>b, <1>s DEF TypeOK, ring
<1>c. go \in BOOLEAN /\ request \in BOOLEAN /\ asked \subseteq Guis /\ main \in {"reading", "request"}
      /\ events \in 0 .. MaxEvents /\ saves \in 0 .. Saves
  BY DEF TypeOK
<1>1. CASE KeyboardEvent
  <2>1. writer' = [writer EXCEPT !["keyboard"] = [msg |-> events + 1, todo |-> Guis, slot |-> NoSlot]]
    BY <1>1 DEF KeyboardEvent
  <2>2. events + 1 \in 0 .. MaxEvents /\ events + 1 \in Messages /\ events' = events + 1
    BY <1>1, <1>t DEF KeyboardEvent, Messages, Save
  <2>3. writer' \in [Writers -> Writer] /\ Owned'
    BY <1>t, <2>1, <2>2 DEF Owned, Writers
  <2> QED  BY <1>1, <1>b, <1>c, <2>2, <2>3 DEF KeyboardEvent
<1>2. ASSUME NEW w \in Writers, Look(w) PROVE TypeOK' /\ Owned'
  <2>1. writer' = [writer EXCEPT ![w].slot = wp] /\ writer[w].todo # {}
    BY <1>2 DEF Look
  <2>2. writer' \in [Writers -> Writer]
    <3>0. writer \in [Writers -> Writer] /\ writer[w] \in Writer /\ wp \in 0 .. Slots - 1
      BY <1>t
    <3>1. [writer[w] EXCEPT !.slot = wp] \in Writer
      BY ONLY <3>0
    <3>2. writer' = [writer EXCEPT ![w] = [writer[w] EXCEPT !.slot = wp]]
      BY <2>1
    <3> HIDE DEF Writer
    <3> QED  BY ONLY <3>0, <3>1, <3>2, w \in Writers
  <2>3. Owned'
    BY <1>t, <2>1 DEF Owned
  <2> QED  BY <1>2, <1>b, <1>c, <2>2, <2>3 DEF Look
<1>3. ASSUME NEW w \in Writers, Skip(w) PROVE TypeOK' /\ Owned'
  <2>1. writer' = [writer EXCEPT ![w].todo = @ \ {Considered(w)}] /\ writer[w].slot = NoSlot
    BY <1>3 DEF Skip
  <2>2. writer' \in [Writers -> Writer]
    <3>0. writer \in [Writers -> Writer] /\ writer[w] \in Writer
      BY <1>t
    <3>1. [writer[w] EXCEPT !.todo = @ \ {Considered(w)}] \in Writer
      BY ONLY <3>0
    <3>2. writer' = [writer EXCEPT ![w] = [writer[w] EXCEPT !.todo = @ \ {Considered(w)}]]
      BY <2>1
    <3> HIDE DEF Writer
    <3> QED  BY ONLY <3>0, <3>1, <3>2, w \in Writers
  <2>3. Owned'
    BY <1>t, <2>1 DEF Owned
  <2> QED  BY <1>3, <1>b, <1>c, <2>2, <2>3 DEF Skip
<1>4. ASSUME NEW w \in Writers, Put(w) PROVE TypeOK' /\ Owned'
  <2>1. PICK g \in Guis : g = Considered(w)
    BY <1>4, <1>t, FirstProperties DEF Put, Owned, Considered
  <2>2. PICK s \in 0 .. Slots - 1 : s = writer[w].slot
    BY <1>4, <1>t DEF Put
  <2>3. PICK m \in Messages : m = writer[w].msg
    BY <1>t
  <2>4. /\ buf' = [buf EXCEPT ![s] = <<g, m>>] /\ wp' = Following(s)
        /\ writer' = [writer EXCEPT ![w].slot = NoSlot, ![w].todo = @ \ {g}]
        /\ taken' = [taken EXCEPT ![g] = Append(@, m)]
        /\ UNCHANGED <<rp, go, asked, events, request, saves, main, seen>>
    BY <1>4, <2>1, <2>2, <2>3 DEF Put
  <2>5. /\ buf' \in [0 .. Slots - 1 -> {<<>>} \cup (Guis \X Messages)]
        /\ taken' \in [Guis -> Seq(Messages)] /\ wp' \in 0 .. Slots - 1
    BY <1>t, <1>p, <2>4
  <2>6. writer' \in [Writers -> Writer]
    <3>0. writer \in [Writers -> Writer] /\ writer[w] \in Writer
      BY <1>t
    <3>1. [writer[w] EXCEPT !.slot = NoSlot, !.todo = @ \ {g}] \in Writer
      BY ONLY <3>0
    <3>2. writer' = [writer EXCEPT ![w] = [writer[w] EXCEPT !.slot = NoSlot, !.todo = @ \ {g}]]
      BY <2>4
    <3> HIDE DEF Writer
    <3> QED  BY ONLY <3>0, <3>1, <3>2, w \in Writers
  <2>7. Owned'
    BY <1>t, <2>4 DEF Owned
  <2> QED  BY <1>c, <1>s, <1>t, <2>4, <2>5, <2>6, <2>7 DEF TypeOK
<1>5. CASE Send
  <2>1. seen' \in [Guis -> Seq(Messages)]
    <3>1. CASE buf[rp] = <<>>
      BY <1>5, <1>t, <3>1 DEF Send, Sent
    <3>2. CASE buf[rp] # <<>>
      <4>1. PICK g \in Guis, m \in Messages : buf[rp] = <<g, m>>
        BY <1>t, <3>2
      <4>2. seen' = [seen EXCEPT ![g] = Append(@, m)]
        BY <1>5, <3>2, <4>1 DEF Send, Sent
      <4> QED  BY <1>t, <4>2
    <3> QED  BY <3>1, <3>2
  <2> QED  BY <1>5, <1>c, <1>p, <1>s, <1>t, <2>1 DEF Send, TypeOK, Owned
<1>6. CASE AllSent
  BY <1>6, <1>b, <1>c, <1>t DEF AllSent, Owned
<1>7. CASE midiThreadSaveReq
  <2>1. \/ writer' = writer
        \/ writer' = [writer EXCEPT !["main"] = [msg |-> Save, todo |-> Guis, slot |-> NoSlot]]
    BY <1>7 DEF midiThreadSaveReq
  <2>2. Save \in Messages
    BY <1>t DEF Save, Messages
  <2>3. writer' \in [Writers -> Writer] /\ Owned'
    BY <1>t, <2>1, <2>2 DEF Owned, Writers
  <2> QED  BY <1>7, <1>b, <1>c, <2>3 DEF midiThreadSaveReq
<1>8. ASSUME NEW g \in Guis, Ask(g) PROVE TypeOK' /\ Owned'
  BY <1>8, <1>b, <1>c, <1>t DEF Ask, Owned
<1>9. CASE savehandler
  BY <1>9, <1>b, <1>c, <1>t DEF savehandler, Owned
<1>10. CASE Hold \/ Release
  BY <1>10, <1>b, <1>c, <1>t DEF Hold, Release, Owned
<1>11. CASE UNCHANGED vars
  BY <1>11, <1>b, <1>c, <1>t DEF vars, Owned, ring
<1>12. "keyboard" \in Writers /\ "main" \in Writers
  BY DEF Writers
<1> QED
  BY <1>1, <1>2, <1>3, <1>4, <1>5, <1>6, <1>7, <1>8, <1>9, <1>10, <1>11, <1>12
  DEF Next, Writes, MainLoop

----------------------------------------------------------------------------
(***************************************************************************)
(* What is put into the ring is what comes out of it.                      *)
(***************************************************************************)

\* While a writer has a slot, the other one waits and the reader cannot fill it.
LEMMA SlotsStep == RingInv /\ OneAtATime /\ [Next]_vars => SlotsFree'
<1> SUFFICES ASSUME RingInv, OneAtATime, [Next]_vars PROVE SlotsFree'
  OBVIOUS
<1>t. /\ writer \in [Writers -> [msg : Messages, todo : SUBSET Guis, slot : 0 .. Slots - 1 \cup {NoSlot}]]
      /\ wp \in 0 .. Slots - 1 /\ rp \in 0 .. Slots - 1 /\ Slots \in Nat \ {0, 1}
      /\ SlotsFree /\ Owned /\ ~Window
  BY ForwardAssumption DEF RingInv, TypeOK, OneAtATime
<1>c. ASSUME UNCHANGED <<wp, rp>>, \A w \in Writers : writer'[w].slot \in {writer[w].slot, NoSlot}
      PROVE  SlotsFree'
  BY <1>c, <1>t DEF SlotsFree, Full
<1>1. CASE KeyboardEvent
  BY <1>1, <1>c, <1>t DEF KeyboardEvent, Writers, ring
<1>2. ASSUME NEW w \in Writers, Look(w) PROVE SlotsFree'
  <2>1. \A other \in Writers \ {w} : writer[other].slot = NoSlot
    BY <1>2, <1>t DEF Look, Undisturbed
  <2> QED  BY <1>2, <1>t, <2>1 DEF Look, SlotsFree, Full, ring
<1>3. ASSUME NEW w \in Writers, Skip(w) PROVE SlotsFree'
  BY <1>3, <1>c, <1>t DEF Skip, ring
<1>4. ASSUME NEW w \in Writers, Put(w) PROVE SlotsFree'
  <2>1. \A other \in Writers : writer'[other].slot = NoSlot
    BY <1>4, <1>t DEF Put, SlotsFree
  <2> QED  BY <2>1 DEF SlotsFree
<1>5. CASE Send
  <2>1. Following(rp) # Following(wp)
    BY <1>5, <1>t, Round DEF Send
  <2> QED  BY <1>5, <1>t, <2>1 DEF Send, SlotsFree, Full, Following
<1>6. CASE AllSent \/ savehandler \/ Hold \/ Release \/ \E g \in Guis : Ask(g)
  BY <1>6, <1>c DEF AllSent, savehandler, Hold, Release, Ask, ring
<1>7. CASE midiThreadSaveReq
  BY <1>7, <1>c, <1>t DEF midiThreadSaveReq, Writers, ring
<1>8. CASE UNCHANGED vars
  BY <1>8, <1>c DEF vars, ring
<1>9. "keyboard" \in Writers /\ "main" \in Writers
  BY DEF Writers
<1> QED
  BY <1>1, <1>2, <1>3, <1>4, <1>5, <1>6, <1>7, <1>8, <1>9 DEF Next, Writes, MainLoop

\* A message is put behind those that are in the ring and counts as the last one
\* taken for its GUI (midiMsgForwarder).
LEMMA PutHolds ==
    ASSUME RingInv, OneAtATime, NEW w \in Writers, Put(w)
    PROVE  RingHolds'
<1>t. /\ buf \in [0 .. Slots - 1 -> {<<>>} \cup (Guis \X Messages)]
      /\ taken \in [Guis -> Seq(Messages)] /\ seen \in [Guis -> Seq(Messages)]
      /\ wp \in 0 .. Slots - 1 /\ rp \in 0 .. Slots - 1
      /\ writer[w].msg \in Messages /\ Slots \in Nat
  BY ForwardAssumption DEF RingInv, TypeOK
<1>0. PICK g \in Guis : g = Considered(w)
  <2>1. writer[w].todo \in SUBSET Guis /\ writer[w].todo # {}
    BY DEF RingInv, TypeOK, Owned, Put
  <2> QED  BY <2>1, FirstProperties DEF Considered
<1>1. PICK m \in Messages : m = writer[w].msg
  BY <1>t
<1>2. /\ ~Full /\ buf' = [buf EXCEPT ![wp] = <<g, m>>] /\ wp' = Following(wp) /\ rp' = rp
      /\ taken' = [taken EXCEPT ![g] = Append(@, m)] /\ seen' = seen
  BY <1>0, <1>1 DEF Put, RingInv, SlotsFree
<1>q. PICK q \in 0 .. Slots - 1 : q = Queued
  BY <1>t, RingSteps
<1>3. /\ Queued' = q + 1
      /\ At(rp, q) = wp /\ \A i \in 0 .. q - 1 : At(rp, i) # wp /\ At(rp, i) \in 0 .. Slots - 1
  <2>1. ~Full /\ wp' = Following(wp) /\ rp' = rp
    BY <1>2
  <2>2. Queued' = Queued + 1
    BY <1>t, <2>1, RingSteps
  <2>3. /\ At(rp, Queued) = wp /\ \A i \in 0 .. Queued - 1 : At(rp, i) # wp
        /\ \A i \in 0 .. Slots - 1 : At(rp, i) \in 0 .. Slots - 1
    BY <1>t, RingSteps
  <2>4. At(rp, q) = wp /\ \A i \in 0 .. q - 1 : At(rp, i) # wp
    BY <1>q, <2>3
  <2>5. \A i \in 0 .. q - 1 : At(rp, i) \in 0 .. Slots - 1
    BY <1>t, <2>3
  <2> QED  BY <1>q, <2>2, <2>4, <2>5
<1>4. \A i \in 0 .. q - 1 : buf'[At(rp, i)] = buf[At(rp, i)]
  BY <1>t, <1>2, <1>3
<1>5. buf'[At(rp, q)] = <<g, m>>
  BY <1>t, <1>2, <1>3
<1>h. RingHolds
  BY DEF RingInv
<1>6. ASSUME NEW i \in 0 .. Queued' - 1 PROVE buf'[At(rp', i)] # <<>>
  <2>1. CASE i = q
    BY <1>2, <1>5, <2>1
  <2>2. CASE i # q
    <3>1. i \in 0 .. q - 1
      BY <1>3, <2>2
    <3>2. buf[At(rp, i)] # <<>>
      BY <1>h, <1>q, <3>1 DEF RingHolds
    <3> QED  BY <1>2, <1>4, <3>1, <3>2
  <2> QED  BY <2>1, <2>2
<1>7. ASSUME NEW x \in Guis PROVE Starts(seen'[x], taken'[x])
  <2>1. Starts(seen[x], taken[x]) /\ taken[x] \in Seq(Messages) /\ seen[x] \in Seq(Messages)
    BY <1>t, <1>h DEF RingHolds
  <2>2. taken'[x] = taken[x] \/ taken'[x] = Append(taken[x], m)
    BY <1>t, <1>2
  <2> QED  BY <1>2, <2>1, <2>2 DEF Starts
<1>8. ASSUME NEW x \in Guis
      PROVE  \E c \in [0 .. Queued' -> 0 .. Len(taken'[x])] : Counts(c, x)'
  <2>1. PICK c \in [0 .. q -> 0 .. Len(taken[x])] : Counts(c, x)
    BY <1>h, <1>q DEF RingHolds
  <2> DEFINE d == [i \in 0 .. q + 1 |->
                     IF i <= q THEN c[i] ELSE IF x = g THEN c[q] + 1 ELSE c[q]]
  <2>2. /\ Len(taken[x]) \in Nat /\ c[q] = Len(taken[x]) /\ c[0] = Len(seen[x])
        /\ Len(taken'[x]) = IF x = g THEN Len(taken[x]) + 1 ELSE Len(taken[x])
        /\ \A n \in 1 .. Len(taken[x]) : taken'[x][n] = taken[x][n]
        /\ x = g => taken'[x][Len(taken[x]) + 1] = m
    BY <1>t, <1>2, <1>q, <2>1 DEF Counts
  <2>3. d \in [0 .. Queued' -> 0 .. Len(taken'[x])]
    BY <1>3, <2>1, <2>2
  <2>4. d[0] = Len(seen'[x]) /\ d[Queued'] = Len(taken'[x])
    BY <1>2, <1>3, <2>2
  <2>5. ASSUME NEW i \in 0 .. Queued' - 1
        PROVE  IF buf'[At(rp', i)][1] = x
               THEN d[i + 1] = d[i] + 1 /\ buf'[At(rp', i)][2] = taken'[x][d[i + 1]]
               ELSE d[i + 1] = d[i]
    <3>1. CASE i = q
      <4>1. d[q] = c[q] /\ d[q + 1] = IF x = g THEN c[q] + 1 ELSE c[q]
        BY <1>t
      <4>2. buf'[At(rp', i)] = <<g, m>>
        BY <1>2, <1>5, <3>1
      <4> HIDE DEF d
      <4> QED  BY <2>2, <3>1, <4>1, <4>2
    <3>2. CASE i # q
      <4>1. /\ i \in 0 .. q - 1 /\ d[i] = c[i] /\ d[i + 1] = c[i + 1]
            /\ c[i] \in Nat /\ c[i + 1] \in 0 .. Len(taken[x])
            /\ buf'[At(rp', i)] = buf[At(rp, i)]
        <5>1. i \in 0 .. q - 1 /\ i + 1 \in 0 .. q
          BY <1>3, <3>2
        <5>2. c[i] \in 0 .. Len(taken[x]) /\ c[i + 1] \in 0 .. Len(taken[x])
          BY <2>1, <5>1
        <5>3. d[i] = c[i] /\ d[i + 1] = c[i + 1]
          BY <5>1
        <5>4. At(rp', i) = At(rp, i)
          BY <1>2
        <5> QED  BY <1>4, <5>1, <5>2, <5>3, <5>4
      <4>2. IF buf[At(rp, i)][1] = x
            THEN c[i + 1] = c[i] + 1 /\ buf[At(rp, i)][2] = taken[x][c[i + 1]]
            ELSE c[i + 1] = c[i]
        BY <1>q, <2>1, <4>1 DEF Counts
      <4> HIDE DEF d
      <4>3. CASE buf[At(rp, i)][1] = x
        <5>1. c[i + 1] \in 1 .. Len(taken[x])
          BY <2>2, <4>1, <4>2, <4>3
        <5>2. taken'[x][c[i + 1]] = taken[x][c[i + 1]]
          BY <2>2, <5>1
        <5> QED  BY <4>1, <4>2, <4>3, <5>2
      <4>4. CASE buf[At(rp, i)][1] # x
        BY <4>1, <4>2, <4>4
      <4> QED  BY <4>3, <4>4
    <3> QED  BY <3>1, <3>2
  <2> HIDE DEF d
  <2>6. PICK e \in [0 .. Queued' -> 0 .. Len(taken'[x])] : e = d
    BY <2>3
  <2>7. Counts(e, x)'
    BY <2>4, <2>5, <2>6 DEF Counts
  <2> QED  BY <2>7
<1> QED  BY <1>6, <1>7, <1>8 DEF RingHolds

\* The first message of the ring is the next of those taken for its GUI
\* (the loop of midithread that sends them).
LEMMA SendHolds ==
    ASSUME RingInv, OneAtATime, Send
    PROVE  RingHolds'
<1>t. /\ buf \in [0 .. Slots - 1 -> {<<>>} \cup (Guis \X Messages)]
      /\ taken \in [Guis -> Seq(Messages)] /\ seen \in [Guis -> Seq(Messages)]
      /\ wp \in 0 .. Slots - 1 /\ rp \in 0 .. Slots - 1 /\ Slots \in Nat
  BY ForwardAssumption DEF RingInv, TypeOK
<1>h. RingHolds
  BY DEF RingInv
<1>1. rp # wp /\ rp' = Following(rp) /\ UNCHANGED <<buf, wp, taken>>
  BY DEF Send
<1>2. /\ Queued' = Queued - 1 /\ \A i \in 0 .. Queued - 1 : At(rp', i) = At(rp, i + 1)
      /\ Queued \in 1 .. Slots - 1 /\ At(rp, 0) = rp
  BY <1>t, <1>1, RingSteps
<1>q. PICK q \in 1 .. Slots - 1 : q = Queued
  BY <1>2
<1>3. PICK g \in Guis, m \in Messages : buf[rp] = <<g, m>>
  <2>1. buf[At(rp, 0)] # <<>>
    BY <1>2, <1>h DEF RingHolds
  <2> QED  BY <1>t, <1>2, <2>1
<1>4. seen' = [seen EXCEPT ![g] = Append(@, m)]
  BY <1>3 DEF Send, Sent
<1>5. ASSUME NEW i \in 0 .. Queued' - 1 PROVE buf'[At(rp', i)] # <<>>
  <2>1. i + 1 \in 0 .. Queued - 1 /\ At(rp', i) = At(rp, i + 1)
    BY <1>2
  <2> QED  BY <1>1, <1>h, <2>1 DEF RingHolds
<1>6. ASSUME NEW x \in Guis
      PROVE  /\ Starts(seen'[x], taken'[x])
             /\ \E c \in [0 .. Queued' -> 0 .. Len(taken'[x])] : Counts(c, x)'
  <2>1. PICK c \in [0 .. q -> 0 .. Len(taken[x])] : Counts(c, x)
    BY <1>h, <1>q DEF RingHolds
  <2>2. /\ c[0] = Len(seen[x]) /\ c[q] = Len(taken[x]) /\ c[1] <= Len(taken[x])
        /\ IF x = g THEN c[1] = c[0] + 1 /\ m = taken[x][c[1]] ELSE c[1] = c[0]
    <3>1. 0 \in 0 .. Queued - 1 /\ 1 \in 0 .. q
      BY <1>2, <1>q
    <3>2. buf[At(rp, 0)] = <<g, m>>
      BY <1>2, <1>3
    <3> QED  BY <1>q, <2>1, <3>1, <3>2 DEF Counts
  <2>3. Starts(seen[x], taken[x]) /\ Len(seen[x]) \in Nat
    BY <1>t, <1>h DEF RingHolds
  <2>4. Starts(seen'[x], taken'[x]) /\ Len(seen'[x]) = c[1]
    BY <1>t, <1>1, <1>4, <2>2, <2>3 DEF Starts
  <2> DEFINE d == [i \in 0 .. q - 1 |-> c[i + 1]]
  <2>5. d \in [0 .. Queued' -> 0 .. Len(taken'[x])]
    BY <1>1, <1>2, <1>q, <2>1
  <2>6. d[0] = Len(seen'[x]) /\ d[Queued'] = Len(taken'[x])
    BY <1>1, <1>2, <1>q, <2>2, <2>4
  <2>7. ASSUME NEW i \in 0 .. Queued' - 1
        PROVE  IF buf'[At(rp', i)][1] = x
               THEN d[i + 1] = d[i] + 1 /\ buf'[At(rp', i)][2] = taken'[x][d[i + 1]]
               ELSE d[i + 1] = d[i]
    <3>1. /\ i + 1 \in 0 .. q - 1 /\ d[i] = c[i + 1] /\ d[i + 1] = c[i + 1 + 1]
          /\ buf'[At(rp', i)] = buf[At(rp, i + 1)] /\ taken' = taken
      BY <1>1, <1>2, <1>q
    <3> HIDE DEF d
    <3> QED  BY <1>q, <2>1, <3>1 DEF Counts
  <2> HIDE DEF d
  <2>8. PICK e \in [0 .. Queued' -> 0 .. Len(taken'[x])] : e = d
    BY <2>5
  <2>9. Counts(e, x)'
    BY <2>6, <2>7, <2>8 DEF Counts
  <2> QED  BY <2>4, <2>9
<1> QED  BY <1>5, <1>6 DEF RingHolds

\* Every step of the three threads keeps the account of the slots.
LEMMA RingStep == RingInv /\ [Next]_vars => RingInv'
<1> SUFFICES ASSUME RingInv, [Next]_vars PROVE RingInv'
  OBVIOUS
<1>1. setup' \in Setups /\ TypeOK' /\ Owned' /\ (OneAtATime' <=> OneAtATime)
  BY ForwardTypes, ForwardSetup DEF RingInv
<1>2. ASSUME UNCHANGED <<ring, taken, seen>>, OneAtATime PROVE RingHolds'
  BY <1>2 DEF RingInv, RingHolds, ring, Queued, At, Counts
<1>3. ASSUME OneAtATime PROVE RingHolds'
  <2>1. ASSUME NEW w \in Writers, Writes(w) PROVE RingHolds'
    BY <1>2, <1>3, <2>1, PutHolds DEF Writes, Look, Skip
  <2>2. CASE KeyboardEvent \/ savehandler \/ Hold \/ Release \/ \E g \in Guis : Ask(g)
    BY <1>2, <1>3, <2>2 DEF KeyboardEvent, savehandler, Hold, Release, Ask
  <2>3. CASE AllSent \/ midiThreadSaveReq
    BY <1>2, <1>3, <2>3 DEF AllSent, midiThreadSaveReq
  <2>4. CASE Send
    BY <1>3, <2>4, SendHolds
  <2>5. CASE UNCHANGED vars
    BY <1>2, <1>3, <2>5 DEF vars, ring
  <2> QED  BY <2>1, <2>2, <2>3, <2>4, <2>5 DEF Next, MainLoop, Writers
<1> QED  BY <1>1, <1>3, SlotsStep DEF RingInv

\* The account of the slots is right in every reachable state.
LEMMA RingAlways == Spec => []RingInv
BY ForwardInit, RingStep, PTL DEF Spec

\* Every slot, pointer and message keeps its type, also when the two writers
\* meet inside midiMsgForwarder.
THEOREM ForwardTypesHold == Spec => []TypeOK
BY RingAlways, PTL DEF RingInv

\* As long as one thread at a time is inside midiMsgForwarder, the ring loses,
\* repeats and swaps nothing: what a GUI was sent is the beginning of what was
\* taken for it, for any number of GUIs, however full the ring gets and whenever
\* events are held back.
THEOREM TakenIsSent == Spec => []SentAsTaken
<1>1. RingInv => SentAsTaken
  <2> SUFFICES ASSUME RingInv, OneAtATime, NEW g \in Guis PROVE IsPrefix(seen[g], taken[g])
    BY DEF SentAsTaken
  <2>1. Starts(seen[g], taken[g]) /\ seen[g] \in Seq(Messages) /\ taken[g] \in Seq(Messages)
    BY DEF RingInv, RingHolds, TypeOK
  <2> QED  BY <2>1 DEF Starts, IsPrefix
<1> QED  BY <1>1, RingAlways, PTL

----------------------------------------------------------------------------
(***************************************************************************)
(* MidiParser: the messages and the parser.                                *)
(***************************************************************************)

\* The lengths fit one behind the other.
LEMMA Sizes ==
    /\ Id \in Nat /\ IdLen \in Nat /\ HeaderLen \in Nat /\ BufSize \in Nat /\ MaxSent \in Nat
    /\ 0 < IdLen /\ IdLen + 1 < HeaderLen /\ HeaderLen < BufSize
BY ParserAssumption

\* What a message looks like, of whichever kind.
LEMMA MessageShape ==
    ASSUME NEW m, WellFormed(m)
    PROVE  /\ m \in Seq(Bytes) /\ Len(m) \in Nat /\ Len(m) >= 2
           /\ Head(m) = m[1] /\ Head(m) \in {System, One, Two}
           /\ \A i \in 2 .. Len(m) : m[i] \in Data
           /\ Head(m) = One => m = <<One, m[2]>> /\ Len(m) = 2
           /\ Head(m) = Two => m = <<Two, m[2], m[3]>> /\ Len(m) = 3
           /\ Head(m) = System /\ Ours(m) =>
                 /\ Len(m) > HeaderLen /\ m[IdLen + 2] = Len(m) - 1
                 /\ m[IdLen + 3] > 7 <=> Len(m) > HeaderLen + 1
<1>0. Id \in Nat /\ One \in Bytes /\ Two \in Bytes /\ Data \subseteq Bytes /\ One # System /\ Two # System
      /\ One # Two
  BY Sizes DEF One, Two, System, Bytes, Data
<1>1. CASE \E d \in Data : m = <<One, d>>
  <2>1. PICK d \in Data : m = <<One, d>>
    BY <1>1
  <2> QED  BY <2>1, <1>0
<1>2. CASE \E d, e \in Data : m = <<Two, d, e>>
  <2>1. PICK d \in Data, e \in Data : m = <<Two, d, e>>
    BY <1>2
  <2> QED  BY <2>1, <1>0
<1>3. CASE /\ m \in Seq(Bytes) /\ Len(m) > 1 /\ Head(m) = System
           /\ \A i \in 2 .. Len(m) : m[i] \in Data
           /\ Ours(m) => /\ Len(m) > HeaderLen /\ m[IdLen + 2] = Len(m) - 1
                         /\ m[IdLen + 3] > 7 <=> Len(m) > HeaderLen + 1
  BY <1>3, <1>0
<1> QED  BY <1>1, <1>2, <1>3 DEF WellFormed

\* FirstStatus is the first byte that ends the data, or the end.
LEMMA FirstStatusIs ==
    ASSUME NEW b \in Seq(Bytes)
    PROVE  /\ FirstStatus(b) \in 1 .. Len(b) + 1
           /\ \A j \in 1 .. FirstStatus(b) - 1 : ~Status(b[j])
           /\ FirstStatus(b) <= Len(b) => Status(b[FirstStatus(b)])
<1> DEFINE S == {i \in DOMAIN b : Status(b[i])}
<1>0. Len(b) \in Nat /\ DOMAIN b = 1 .. Len(b)
  OBVIOUS
<1>a. CASE S = {}
  <2>1. FirstStatus(b) = Len(b) + 1
    BY <1>a DEF FirstStatus
  <2>2. \A j \in DOMAIN b : ~Status(b[j])
    BY <1>a
  <2> QED  BY <2>1, <2>2, <1>0
<1>b. CASE S # {}
  <2>1. S \subseteq Nat
    BY <1>0
  <2>2. PICK m \in S : \A n \in S : m <= n
    BY <1>b, <2>1, Least
  <2>5. \A j \in 1 .. m - 1 : ~Status(b[j])
    BY <2>2, <2>1, <1>0
  <2>6. \E i \in DOMAIN b : Status(b[i]) /\ \A j \in 1 .. i - 1 : ~Status(b[j])
    BY <2>5
  <2>7. \E i \in DOMAIN b : Status(b[i])
    BY <1>b
  <2>8. /\ FirstStatus(b) \in DOMAIN b /\ Status(b[FirstStatus(b)])
        /\ \A j \in 1 .. FirstStatus(b) - 1 : ~Status(b[j])
    <3> HIDE DEF S
    <3> DEFINE P(i) == Status(b[i]) /\ \A j \in 1 .. i - 1 : ~Status(b[j])
    <3>1. FirstStatus(b) = CHOOSE i \in DOMAIN b : P(i)
      BY <2>7 DEF FirstStatus
    <3>2. \E i \in DOMAIN b : P(i)
      BY <2>6
    <3>3. FirstStatus(b) \in DOMAIN b /\ P(FirstStatus(b))
      <4> HIDE DEF P
      <4> QED  BY <3>1, <3>2
    <3> QED  BY <3>3
  <2> QED  BY <2>8, <1>0
<1> QED  BY <1>a, <1>b

Commands == {None, System, One, Two}

\* The status bytes and the commands.
LEMMA StatusIs ==
    /\ \A x \in Bytes : Status(x) <=> x \notin Data
    /\ \A x \in Bytes : Status(x) => x \in {Eos, System, One, Two}
    /\ \A x \in Bytes : Status(x) => parseCommand(x) \in Commands
    /\ Eos \in Bytes /\ System \in Bytes /\ One \in Bytes /\ Two \in Bytes /\ Data \subseteq Bytes
    /\ Data \subseteq Nat /\ Bytes \subseteq Nat /\ None \in Bytes
    /\ Eos # System /\ Eos # One /\ Eos # Two /\ System # One /\ System # Two /\ One # Two
    /\ None # Eos /\ None # System /\ None # One /\ None # Two
BY Sizes DEF Status, Data, Bytes, Eos, System, One, Two, parseCommand, Commands, None

\* The leading bytes of data.
Leading(b) == FirstStatus(b) - 1

\* The bytes of data at the front.
LEMMA LeadingIs ==
    ASSUME NEW b \in Seq(Bytes)
    PROVE  /\ Leading(b) \in 0 .. Len(b) /\ Len(b) \in Nat
           /\ \A j \in 1 .. Leading(b) : b[j] \in Data
           /\ Leading(b) < Len(b) => b[Leading(b) + 1] \in Bytes /\ Status(b[Leading(b) + 1])
<1>1. Len(b) \in Nat /\ \A i \in 1 .. Len(b) : b[i] \in Bytes
  OBVIOUS
<1>2. Leading(b) \in 0 .. Len(b)
  BY FirstStatusIs, <1>1 DEF Leading
<1>3. FirstStatus(b) = Leading(b) + 1
  BY FirstStatusIs, <1>1 DEF Leading
<1>4. ASSUME NEW j \in 1 .. Leading(b) PROVE b[j] \in Data
  <2>1. ~Status(b[j]) /\ b[j] \in Bytes
    BY FirstStatusIs, <1>1, <1>2, <1>3
  <2> QED  BY <2>1, StatusIs
<1>5. Leading(b) < Len(b) => b[Leading(b) + 1] \in Bytes /\ Status(b[Leading(b) + 1])
  BY <1>1, <1>2, <1>3, FirstStatusIs
<1> QED  BY <1>1, <1>2, <1>4, <1>5

\* A header with our id in front.
Headed(b) == Leading(b) >= HeaderLen /\ SubSeq(b, 1, IdLen) = OurId

\* The four ways of SystemData.
LEMMA SystemCases ==
    ASSUME NEW b
    PROVE  /\ Leading(b) >= IdLen /\ SubSeq(b, 1, IdLen) # OurId =>
                 SystemData(b) = Result(IdLen, None, <<>>)
           /\ Headed(b) /\ Malformed(b, Leading(b)) =>
                 SystemData(b) = Result(IF Type2(b) THEN 1 ELSE HeaderLen, None, <<>>)
           /\ Headed(b) /\ Complete(b, Leading(b)) =>
                 SystemData(b) = Result(Length(b), None, <<System>> \o SubSeq(b, 1, Length(b)))
           /\ ~(Leading(b) >= IdLen /\ SubSeq(b, 1, IdLen) # OurId)
                 /\ ~(Headed(b) /\ Malformed(b, Leading(b)))
                 /\ ~(Headed(b) /\ Complete(b, Leading(b))) =>
                 SystemData(b) = IF Leading(b) < Len(b)
                                 THEN Result(1, parseCommand(b[Leading(b) + 1]), <<>>)
                                 ELSE Waits(System)
<1> DEFINE A == Leading(b) >= IdLen /\ SubSeq(b, 1, IdLen) # OurId
           B == Headed(b) /\ Malformed(b, Leading(b))
           C == Headed(b) /\ Complete(b, Leading(b))
           Left == IF Leading(b) < Len(b) THEN Result(1, parseCommand(b[Leading(b) + 1]), <<>>)
                   ELSE Waits(System)
           Whole == Result(Length(b), None, <<System>> \o SubSeq(b, 1, Length(b)))
           Bad == Result(IF Type2(b) THEN 1 ELSE HeaderLen, None, <<>>)
<1>1. SystemData(b) = CASE A -> Result(IdLen, None, <<>>)
                        [] B -> Bad
                        [] C -> Whole
                        [] OTHER -> Left
  BY DEF SystemData, Leading, Headed
<1>2. ~(A /\ B) /\ ~(A /\ C) /\ ~(B /\ C)
  <2>1. ~(A /\ B) /\ ~(A /\ C)
    BY DEF Headed
  <2>2. ~(Malformed(b, Leading(b)) /\ Complete(b, Leading(b)))
    BY DEF Malformed, Complete
  <2> QED  BY <2>1, <2>2
<1>5. /\ A => SystemData(b) = Result(IdLen, None, <<>>)
      /\ B => SystemData(b) = Bad
      /\ C => SystemData(b) = Whole
      /\ ~A /\ ~B /\ ~C => SystemData(b) = Left
  <2> HIDE DEF A, B, C, Left, Whole, Bad
  <2>1. A => SystemData(b) = Result(IdLen, None, <<>>)
    BY <1>1, <1>2
  <2>2. B => SystemData(b) = Bad
    BY <1>1, <1>2
  <2>3. C => SystemData(b) = Whole
    BY <1>1, <1>2
  <2>4. ~A /\ ~B /\ ~C => SystemData(b) = Left
    BY <1>1
  <2> QED  BY <2>1, <2>2, <2>3, <2>4
<1> QED  BY <1>5

\* SystemData never takes more than it is given.
LEMMA SystemResult ==
    ASSUME NEW b \in Seq(Bytes), b # <<>>
    PROVE  /\ SystemData(b).parsed \in 0 .. Len(b) /\ SystemData(b).last \in Commands
           /\ SystemData(b).message \in Seq(Bytes)
<1>0. Leading(b) \in 0 .. Len(b) /\ Len(b) \in Nat /\ Len(b) > 0
  BY LeadingIs
<1>1. \A k \in 1 .. Len(b) : <<System>> \o SubSeq(b, 1, k) \in Seq(Bytes)
  BY StatusIs
<1>2. Leading(b) < Len(b) => parseCommand(b[Leading(b) + 1]) \in Commands
  BY LeadingIs, StatusIs
<1>3. IdLen \in Nat /\ HeaderLen \in Nat /\ HeaderLen > 0 /\ None \in Commands /\ System \in Commands
      /\ <<>> \in Seq(Bytes)
  BY Sizes DEF Commands
<1>a. CASE Leading(b) >= IdLen /\ SubSeq(b, 1, IdLen) # OurId
  <2>1. SystemData(b) = Result(IdLen, None, <<>>)
    BY <1>a, SystemCases
  <2> QED  BY <2>1, <1>0, <1>3, <1>a DEF Result
<1>b. CASE Headed(b) /\ Malformed(b, Leading(b))
  <2>1. SystemData(b) = Result(IF Type2(b) THEN 1 ELSE HeaderLen, None, <<>>)
    BY <1>b, SystemCases
  <2>2. (IF Type2(b) THEN 1 ELSE HeaderLen) \in 0 .. Len(b)
    BY <1>b, <1>0, <1>3 DEF Headed
  <2> QED  BY <2>1, <2>2, <1>3 DEF Result
<1>c. CASE Headed(b) /\ Complete(b, Leading(b))
  <2>1. SystemData(b) = Result(Length(b), None, <<System>> \o SubSeq(b, 1, Length(b)))
    BY <1>c, SystemCases
  <2>2. Length(b) \in 1 .. Len(b)
    BY <1>c, <1>0, <1>3 DEF Complete
  <2> QED  BY <2>1, <2>2, <1>0, <1>1, <1>3 DEF Result
<1>d. CASE /\ ~(Leading(b) >= IdLen /\ SubSeq(b, 1, IdLen) # OurId)
           /\ ~(Headed(b) /\ Malformed(b, Leading(b)))
           /\ ~(Headed(b) /\ Complete(b, Leading(b)))
  <2>1. SystemData(b) = IF Leading(b) < Len(b) THEN Result(1, parseCommand(b[Leading(b) + 1]), <<>>)
                        ELSE Waits(System)
    BY <1>d, SystemCases
  <2> QED  BY <2>1, <1>0, <1>2, <1>3 DEF Result, Waits
<1> QED  BY <1>a, <1>b, <1>c, <1>d

\* Nor does the parser, and the command after it is one.
LEMMA ParserResult ==
    ASSUME NEW b \in Seq(Bytes), NEW command \in Commands
    PROVE  /\ RawToMsg(b, command).parsed \in 0 .. Len(b)
           /\ RawToMsg(b, command).last \in Commands
           /\ RawToMsg(b, command).message \in Seq(Bytes)
<1>0. Len(b) \in Nat /\ <<>> \in Seq(Bytes) /\ One \in Commands /\ Two \in Commands
      /\ (b # <<>> => Len(b) > 0)
      /\ \A i \in 1 .. Len(b) : b[i] \in Bytes
  BY DEF Commands
<1>a. CASE b = <<>>
  <2>1. RawToMsg(b, command) = Waits(command)
    BY <1>a DEF RawToMsg
  <2> QED  BY <2>1, <1>0 DEF Waits, Result
<1>b. CASE b # <<>> /\ Status(b[1])
  <2>1. RawToMsg(b, command) = Result(1, parseCommand(b[1]), <<>>)
    BY <1>b DEF RawToMsg
  <2>2. parseCommand(b[1]) \in Commands /\ Len(b) > 0
    <3>1. b[1] \in Bytes /\ Len(b) > 0
      BY <1>b, <1>0
    <3> QED  BY <3>1, <1>b, StatusIs
  <2> QED  BY <2>1, <2>2, <1>0 DEF Result
<1>c. CASE b # <<>> /\ ~Status(b[1]) /\ command = One
  <2>1. RawToMsg(b, command) = Result(1, One, <<One, b[1]>>)
    BY <1>c, StatusIs DEF RawToMsg
  <2> QED  BY <2>1, <1>c, <1>0, StatusIs DEF Result
<1>d. CASE b # <<>> /\ ~Status(b[1]) /\ command = Two
  <2>1. RawToMsg(b, command) = TwoData(b)
    BY <1>d, StatusIs DEF RawToMsg
  <2>a. CASE Len(b) < 2
    BY <2>1, <2>a, <1>0 DEF TwoData, Result, Waits
  <2>b. CASE Len(b) >= 2 /\ Status(b[2])
    <3>1. TwoData(b) = Result(1, parseCommand(b[2]), <<>>)
      BY <2>b, <1>0 DEF TwoData
    <3>2. parseCommand(b[2]) \in Commands
      <4>1. b[2] \in Bytes
        BY <2>b, <1>0
      <4> QED  BY <4>1, <2>b, StatusIs
    <3> QED  BY <3>1, <3>2, <2>1, <2>b, <1>0 DEF Result
  <2>c. CASE Len(b) >= 2 /\ ~Status(b[2])
    <3>1. TwoData(b) = Result(2, Two, <<Two, b[1], b[2]>>)
      BY <2>c, <1>0 DEF TwoData
    <3> QED  BY <3>1, <2>1, <2>c, <1>0, StatusIs DEF Result
  <2> QED  BY <2>a, <2>b, <2>c, <1>0
<1>e. CASE b # <<>> /\ ~Status(b[1]) /\ command = System
  <2>1. RawToMsg(b, command) = SystemData(b)
    BY <1>e, StatusIs DEF RawToMsg
  <2> QED  BY <2>1, <1>e, SystemResult
<1>f. CASE b # <<>> /\ ~Status(b[1]) /\ command \notin {One, Two, System}
  <2>1. RawToMsg(b, command) = Result(1, command, <<>>)
    BY <1>f DEF RawToMsg
  <2> QED  BY <2>1, <1>f, <1>0 DEF Result
<1> QED  BY <1>a, <1>b, <1>c, <1>d, <1>e, <1>f

-----------------------------------------------------------------------------
\* What a connection says.
LEMMA ConnectionIs ==
    ASSUME connection \in Connections
    PROVE  /\ MaxWire \in Nat
           /\ {Gui, Running, Realtime, Fails, Closes} \subseteq BOOLEAN
           /\ \A w \in Senders : \A m \in connection.sends[w] : WellFormed(m)
BY ParserAssumption DEF MaxWire, Gui, Running, Realtime, Fails, Closes, Senders

\* The remainder, where the proofs need it.
LEMMA WrapIs ==
    /\ \A x \in Nat : x % BufSize \in 0 .. BufSize - 1
    /\ \A x \in Nat : x < 2 * BufSize => x % BufSize = IF x < BufSize THEN x ELSE x - BufSize
<1>0. BufSize \in Nat /\ BufSize > 0
  BY Sizes
<1>1. ASSUME NEW x \in Nat PROVE x % BufSize \in 0 .. BufSize - 1
  BY <1>0
<1>2. ASSUME NEW x \in Nat, x < 2 * BufSize
      PROVE  x % BufSize = IF x < BufSize THEN x ELSE x - BufSize
  <2> DEFINE q == x \div BufSize
             r == x % BufSize
  <2>1. x = BufSize * q + r /\ q \in Int /\ r \in 0 .. BufSize - 1
    BY <1>0
  <2> HIDE DEF q, r
  <2>2. q < 2
    <3>1. ASSUME q >= 2 PROVE BufSize * q >= 2 * BufSize
      BY <3>1, <2>1, <1>0
    <3> QED  BY <3>1, <2>1, <1>0, <1>2
  <2>3. q >= 0
    <3>1. ASSUME q <= -1 PROVE BufSize * q <= -BufSize
      BY <3>1, <2>1, <1>0
    <3> QED  BY <3>1, <2>1, <1>0, <1>2
  <2>4. q = 0 \/ q = 1
    BY <2>1, <2>2, <2>3
  <2>5. r = IF x < BufSize THEN x ELSE x - BufSize
    BY <2>1, <2>4, <1>0
  <2> QED  BY <2>5 DEF r
<1> QED  BY <1>1, <1>2

\* The shorter of two lengths.
LEMMA MinIs ==
    ASSUME NEW a \in Nat, NEW b \in Nat
    PROVE  Min({a, b}) = IF a <= b THEN a ELSE b
BY DEF Min

\* The bytes in the buffer as a sequence.
LEMMA UnparsedIs ==
    ASSUME ParserTypeOK
    PROVE  /\ Unparsed \in Seq(Bytes) /\ Len(Unparsed) = count
           /\ \A i \in 1 .. count : Unparsed[i] = buffer[(index + i - 1) % BufSize]
<1>1. \A i \in 1 .. count : buffer[(index + i - 1) % BufSize] \in Bytes
  <2> SUFFICES ASSUME NEW i \in 1 .. count PROVE buffer[(index + i - 1) % BufSize] \in Bytes
    OBVIOUS
  <2>1. index + i - 1 \in Nat
    BY Sizes DEF ParserTypeOK
  <2>2. (index + i - 1) % BufSize \in 0 .. BufSize - 1
    BY <2>1, WrapIs
  <2> QED  BY <2>2 DEF ParserTypeOK
<1>2. Unparsed \in [1 .. count -> Bytes]
  BY <1>1 DEF Unparsed
<1>3. count \in Nat
  BY DEF ParserTypeOK
<1> QED  BY <1>2, <1>3 DEF Unparsed

\* The same, as a state predicate.
LEMMA UnparsedType == ParserTypeOK => Unparsed \in Seq(Bytes)
BY UnparsedIs

\* What one call of the parser returns.
LEMMA StepIs ==
    ASSUME ParserTypeOK
    PROVE  Step.parsed \in 0 .. count /\ Step.last \in Commands /\ Step.message \in Seq(Bytes)
<1>1. last \in Commands
  BY DEF ParserTypeOK, Commands
<1> QED  BY <1>1, UnparsedIs, ParserResult DEF Step

\* A message is written in at most four pieces.
LEMMA PiecesAre ==
    ASSUME NEW m, WellFormed(m)
    PROVE  Pieces(m) \in Seq(Seq(Bytes)) /\ Len(Pieces(m)) <= 4
<1>1. m \in Seq(Bytes) /\ Len(m) \in Nat /\ Len(m) >= 2 /\ Head(m) \in Bytes
  BY MessageShape, StatusIs
<1>2. Tail(m) \in Seq(Bytes) /\ Len(Tail(m)) \in Nat
  BY <1>1
<1>3. <<Head(m)>> \in Seq(Bytes) /\ <<Eos>> \in Seq(Bytes) /\ <<System>> \in Seq(Bytes)
  BY <1>1, StatusIs
<1>4. HeaderLen \in Nat
  BY Sizes
<1>a. CASE Head(m) # System
  <2>1. Pieces(m) = <<<<Head(m)>>, Tail(m)>>
    BY <1>a DEF Pieces
  <2> QED  BY <2>1, <1>2, <1>3
<1>b. CASE Head(m) = System /\ Len(Tail(m)) <= HeaderLen
  <2>1. Pieces(m) = <<<<System>>, Tail(m), <<Eos>>>>
    BY <1>b DEF Pieces
  <2> QED  BY <2>1, <1>2, <1>3
<1>c. CASE Head(m) = System /\ ~(Len(Tail(m)) <= HeaderLen)
  <2>1. Pieces(m) = <<<<System>>, SubSeq(Tail(m), 1, HeaderLen),
                      SubSeq(Tail(m), HeaderLen + 1, Len(Tail(m))), <<Eos>>>>
    BY <1>c, StatusIs DEF Pieces
  <2>2. SubSeq(Tail(m), 1, HeaderLen) \in Seq(Bytes)
        /\ SubSeq(Tail(m), HeaderLen + 1, Len(Tail(m))) \in Seq(Bytes)
    BY <1>2, <1>4, <1>c, SubSeqProperties
  <2> HIDE DEF Bytes
  <2> DEFINE x == SubSeq(Tail(m), 1, HeaderLen)
             y == SubSeq(Tail(m), HeaderLen + 1, Len(Tail(m)))
  <2>3. x \in Seq(Bytes) /\ y \in Seq(Bytes) /\ Pieces(m) = <<<<System>>, x, y, <<Eos>>>>
    BY <2>1, <2>2
  <2> HIDE DEF x, y
  <2> QED  BY <2>3, <1>3
<1> QED  BY <1>a, <1>b, <1>c

\* The types, at first ...
LEMMA ParserTypeInit == ParserInit => ParserTypeOK
<1> SUFFICES ASSUME ParserInit PROVE ParserTypeOK
  OBVIOUS
<1> USE DEF ParserInit
<1>1. MaxWire \in Nat
  BY ConnectionIs
<1>2. buffer \in [0 .. BufSize - 1 -> Bytes]
  BY StatusIs DEF None
<1>3. index \in 0 .. BufSize - 1
  BY Sizes
<1>4. pending \in [Senders -> Seq(Seq(Bytes))] /\ <<>> \in Seq(Bytes)
  OBVIOUS
<1>5. 0 \in Nat /\ <<>> \in Seq(Seq(Bytes)) /\ <<>> \in Seq(Bytes) /\ Len(<<>>) = 0
  OBVIOUS
<1>6. wire \in Seq(Bytes) /\ Len(wire) <= MaxWire
  BY <1>1, <1>5
<1> QED  BY <1>2, <1>3, <1>4, <1>5, <1>6 DEF ParserTypeOK

\* ... and after every step.
LEMMA ParserTypeStep == ParserTypeOK /\ [ParserNext]_parserVars => ParserTypeOK'
<1> SUFFICES ASSUME ParserTypeOK, [ParserNext]_parserVars PROVE ParserTypeOK'
  OBVIOUS
<1> USE DEF device, writing, parserVars
<1>0. /\ BufSize \in Nat /\ BufSize > 0 /\ MaxWire \in Nat
      /\ \A w \in Senders : \A m \in connection.sends[w] : WellFormed(m)
  BY Sizes, ConnectionIs DEF ParserTypeOK
<1>c. connection' = connection /\ Senders' = Senders /\ MaxWire' = MaxWire
  BY DEF ParserNext, Parse, ReadByte, FailedRead, NothingRead, Exhausted, ReadBurst, Deaf, LoopEnds,
         ActiveSense, Start, Write, RealtimeByte, Close, Senders, MaxWire
<1>1. ASSUME Parse PROVE ParserTypeOK'
  <2>1. Step.parsed \in 0 .. count /\ Step.last \in Commands /\ Step.message \in Seq(Bytes)
    BY StepIs
  <2>2. index' \in 0 .. BufSize - 1
    <3>1. index + Step.parsed \in Nat
      BY <2>1 DEF ParserTypeOK
    <3> QED  BY <3>1, WrapIs, <1>1 DEF Parse, Wrapped
  <2>3. count' \in Nat
    BY <2>1, <1>1 DEF Parse, ParserTypeOK
  <2>4. got' \in Seq(Seq(Bytes))
    BY <2>1, <1>1 DEF Parse, ParserTypeOK
  <2>5. last' \in {None, System, One, Two}
    BY <2>1, <1>1 DEF Parse, Commands
  <2> QED  BY <1>1, <1>c, <2>2, <2>3, <2>4, <2>5 DEF Parse, ParserTypeOK
<1>o. Offset \in 0 .. BufSize - 1
  <2>1. index + count \in Nat
    BY DEF ParserTypeOK
  <2> QED  BY <2>1, WrapIs DEF Offset, Wrapped
<1>2. ASSUME ReadByte PROVE ParserTypeOK'
  <2>1. Head(wire) \in Bytes /\ Tail(wire) \in Seq(Bytes) /\ Len(Tail(wire)) <= MaxWire
    BY <1>2, <1>0 DEF ReadByte, ParserTypeOK
  <2>2. buffer' \in [0 .. BufSize - 1 -> Bytes]
    BY <2>1, <1>o, <1>2 DEF ReadByte, ParserTypeOK
  <2>3. at' \in {"dev", "tcp"}
    BY <1>2 DEF ReadByte, AfterDev
  <2> QED  BY <1>2, <1>c, <2>1, <2>2, <2>3 DEF ReadByte, ParserTypeOK
<1>3. ASSUME FailedRead PROVE ParserTypeOK'
  <2>1. at' \in {"dev", "tcp", "gone"} /\ count' \in Nat
    BY <1>3 DEF FailedRead, AfterDev, ParserTypeOK
  <2> QED  BY <1>3, <1>c, <2>1 DEF FailedRead, ParserTypeOK
<1>4. ASSUME NothingRead PROVE ParserTypeOK'
  BY <1>4, <1>c DEF NothingRead, ParserTypeOK
<1>5. ASSUME Exhausted PROVE ParserTypeOK'
  <2>1. index' \in 0 .. BufSize - 1 /\ count' \in Nat
    BY <1>5, <1>0 DEF Exhausted
  <2> QED  BY <1>5, <1>c, <2>1 DEF Exhausted, ParserTypeOK
<1>6. ASSUME ReadBurst PROVE ParserTypeOK'
  <2> DEFINE n == Min({Space, Len(wire)})
  <2>1. Space \in Nat /\ Len(wire) \in Nat /\ Space > 0
    BY <1>o, <1>0 DEF Space, ParserTypeOK
  <2>2. n \in Nat /\ n <= Space /\ n <= Len(wire)
    BY <2>1, MinIs
  <2> HIDE DEF n
  <2>3. buffer' = [i \in DOMAIN buffer |->
                      IF i \in Offset .. Offset + n - 1 THEN wire[i - Offset + 1] ELSE buffer[i]]
        /\ count' = count + n /\ wire' = SubSeq(wire, n + 1, Len(wire))
    BY <1>6 DEF ReadBurst, n
  <2>4. \A i \in Offset .. Offset + n - 1 : wire[i - Offset + 1] \in Bytes
    <3> SUFFICES ASSUME NEW i \in Offset .. Offset + n - 1 PROVE wire[i - Offset + 1] \in Bytes
      OBVIOUS
    <3>1. i - Offset + 1 \in 1 .. Len(wire)
      BY <1>o, <2>1, <2>2
    <3> QED  BY <3>1 DEF ParserTypeOK
  <2>5. buffer' \in [0 .. BufSize - 1 -> Bytes]
    BY <2>3, <2>4 DEF ParserTypeOK
  <2>6. wire' \in Seq(Bytes) /\ Len(wire') <= MaxWire
    <3>1. wire \in Seq(Bytes) /\ Len(wire) <= MaxWire
      BY DEF ParserTypeOK
    <3>2. n + 1 \in 1 .. Len(wire) + 1
      BY <2>1, <2>2
    <3> QED  BY <3>1, <3>2, <2>1, <2>2, <2>3, <1>0, SubSeqProperties
  <2>7. count' \in Nat
    BY <2>2, <2>3 DEF ParserTypeOK
  <2> QED  BY <1>6, <1>c, <2>5, <2>6, <2>7 DEF ReadBurst, ParserTypeOK
<1>7. ASSUME Deaf PROVE ParserTypeOK'
  BY <1>7, <1>c DEF Deaf, ParserTypeOK
<1>8. ASSUME LoopEnds PROVE ParserTypeOK'
  BY <1>8, <1>c DEF LoopEnds, ParserTypeOK
<1>9. ASSUME ActiveSense PROVE ParserTypeOK'
  <2>1. at' \in {"gone", "dev"}
    BY <1>9 DEF ActiveSense
  <2> QED  BY <1>9, <1>c, <2>1 DEF ActiveSense, ParserTypeOK
<1>10. ASSUME NEW w \in Senders, Start(w) PROVE ParserTypeOK'
  <2>1. PICK m \in connection.sends[w] :
           /\ \/ pending' = [pending EXCEPT ![w] = Pieces(m)]
              \/ Head(m) = status /\ pending' = [pending EXCEPT ![w] = <<Tail(m)>>]
           /\ status' = IF Head(m) = System THEN None ELSE Head(m)
           /\ sent' = IF Ours(m) THEN Append(sent, m) ELSE sent
    BY <1>10 DEF Start
  <2>2. /\ m \in Seq(Bytes) /\ Head(m) \in {System, One, Two} /\ Tail(m) \in Seq(Bytes)
        /\ Pieces(m) \in Seq(Seq(Bytes))
    <3>1. WellFormed(m)
      BY <1>0
    <3>2. m \in Seq(Bytes) /\ Head(m) \in {System, One, Two} /\ Len(m) >= 2
      BY <3>1, MessageShape
    <3>3. m # <<>>
      BY <3>2
    <3> QED  BY <3>1, <3>2, <3>3, PiecesAre
  <2>3. <<Tail(m)>> \in Seq(Seq(Bytes))
    BY <2>2
  <2>4. pending' \in [Senders -> Seq(Seq(Bytes))]
    BY <2>1, <2>2, <2>3 DEF ParserTypeOK
  <2>5. sent' \in Seq(Seq(Bytes))
    BY <2>1, <2>2 DEF ParserTypeOK
  <2>6. status' \in {None, One, Two}
    BY <2>1, <2>2
  <2> QED  BY <1>10, <1>c, <2>4, <2>5, <2>6 DEF Start, ParserTypeOK
<1>11. ASSUME NEW w \in Senders, Write(w) PROVE ParserTypeOK'
  <2>1. pending[w] \in Seq(Seq(Bytes)) /\ pending[w] # <<>> /\ wire \in Seq(Bytes)
    BY <1>11 DEF Write, ParserTypeOK
  <2>2. Head(pending[w]) \in Seq(Bytes) /\ Tail(pending[w]) \in Seq(Seq(Bytes))
    BY <2>1
  <2>3. pending' \in [Senders -> Seq(Seq(Bytes))]
    BY <1>11, <2>2 DEF Write, ParserTypeOK
  <2>4. wire' \in Seq(Bytes) /\ Len(wire') <= MaxWire
    <3>1. Len(wire') = Len(wire) + Len(Head(pending[w]))
      BY <1>11, <2>1, <2>2, ConcatProperties DEF Write
    <3> QED  BY <3>1, <1>11, <2>1, <2>2, ConcatProperties DEF Write
  <2> QED  BY <1>11, <1>c, <2>3, <2>4 DEF Write, ParserTypeOK
<1>12. ASSUME RealtimeByte PROVE ParserTypeOK'
  <2>1. wire' \in Seq(Bytes) /\ Len(wire') <= MaxWire
    BY <1>12, <1>0, StatusIs DEF RealtimeByte, ParserTypeOK
  <2> QED  BY <1>12, <1>c, <2>1 DEF RealtimeByte, ParserTypeOK
<1>13. ASSUME Close PROVE ParserTypeOK'
  BY <1>13, <1>c DEF Close, ParserTypeOK
<1>14. ASSUME UNCHANGED parserVars PROVE ParserTypeOK'
  BY <1>14, <1>c DEF ParserTypeOK
<1> QED
  BY <1>1, <1>2, <1>3, <1>4, <1>5, <1>6, <1>7, <1>8, <1>9, <1>10, <1>11, <1>12, <1>13, <1>14
     DEF ParserNext

-----------------------------------------------------------------------------
\* A message as the bytes that are written, and where it ends.
End(m) == IF Head(m) = System THEN Len(m) + 1 ELSE Len(m)
ByteAt(m, j) == IF j <= Len(m) THEN m[j] ELSE Eos

\* The bytes of a message that are written.
LEMMA EndIs ==
    ASSUME NEW m, WellFormed(m)
    PROVE  /\ Len(m) \in Nat /\ Len(m) >= 2 /\ End(m) \in {Len(m), Len(m) + 1} /\ End(m) \in Nat
           /\ \A j \in 1 .. End(m) : ByteAt(m, j) \in Bytes
           /\ \A j \in 2 .. Len(m) : ByteAt(m, j) \in Data /\ ByteAt(m, j) = m[j]
           /\ ByteAt(m, 1) = Head(m) /\ ByteAt(m, Len(m) + 1) = Eos
<1>1. /\ m \in Seq(Bytes) /\ Len(m) \in Nat /\ Len(m) >= 2 /\ Head(m) = m[1]
      /\ \A i \in 2 .. Len(m) : m[i] \in Data
  BY MessageShape
<1>2. \A i \in 1 .. Len(m) : m[i] \in Bytes
  BY <1>1
<1> QED  BY <1>1, <1>2, StatusIs DEF End, ByteAt

\* The id, byte by byte.
LEMMA OurIdIs ==
    ASSUME NEW b \in Seq(Bytes), Len(b) >= IdLen
    PROVE  SubSeq(b, 1, IdLen) = OurId <=> \A i \in 1 .. IdLen : b[i] = Id
<1>1. IdLen \in Nat /\ IdLen > 0
  BY Sizes
<1>2. SubSeq(b, 1, IdLen) = [i \in 1 .. IdLen |-> b[i]]
  BY <1>1, SubSeqProperties
<1> QED  BY <1>2 DEF OurId

\* A message of bristol, byte by byte.
LEMMA OursIs ==
    ASSUME NEW m \in Seq(Bytes), m # <<>>, Head(m) = System
    PROVE  Ours(m) <=> IdLen <= Len(m) - 1 /\ \A i \in 1 .. IdLen : m[i + 1] = Id
<1>1. IdLen \in Nat /\ IdLen > 0 /\ Len(m) \in Nat
  BY Sizes
<1>2. Tail(m) \in Seq(Bytes) /\ Len(Tail(m)) = Len(m) - 1 /\ \A i \in 1 .. Len(m) - 1 : Tail(m)[i] = m[i + 1]
  BY HeadTailProperties
<1>3. Len(OurId) = IdLen
  BY <1>1 DEF OurId
<1>4. Ours(m) <=> IdLen <= Len(m) - 1 /\ OurId = SubSeq(Tail(m), 1, IdLen)
  <2>1. SubSeq(OurId, 1, Len(OurId)) = OurId
    BY <1>1, <1>3 DEF OurId
  <2> QED  BY <1>2, <1>3, <2>1 DEF Ours, IsPrefix
<1>5. CASE IdLen <= Len(m) - 1
  <2>1. SubSeq(Tail(m), 1, IdLen) = OurId <=> \A i \in 1 .. IdLen : Tail(m)[i] = Id
    BY <1>2, <1>5, OurIdIs
  <2>2. \A i \in 1 .. IdLen : Tail(m)[i] = m[i + 1]
    BY <1>1, <1>2, <1>5
  <2> QED  BY <1>4, <1>5, <2>1, <2>2
<1> QED  BY <1>4, <1>5

\* The parser, given bytes of one message from the jth on, and perhaps more.
LEMMA SystemParsed ==
    ASSUME NEW m, WellFormed(m), Head(m) = System, NEW b \in Seq(Bytes), b # <<>>,
           \A i \in 1 .. Len(b) : i <= Len(m) => b[i] = ByteAt(m, i + 1)
    PROVE  \/ /\ SystemData(b).parsed = 0 /\ Len(b) < Len(m)
              /\ Len(b) < HeaderLen \/ Len(b) <= Len(m) - 2
           \/ /\ SystemData(b).parsed \in 1 .. Len(m) - 1
              /\ SystemData(b).message = IF Ours(m) THEN m ELSE <<>>
              /\ SystemData(b).parsed + 2 <= Len(m) => ~Ours(m) /\ SystemData(b).last = None
<1> DEFINE n == Leading(b)
           N == Len(b)
<1>0. /\ Id \in Nat /\ IdLen \in Nat /\ HeaderLen \in Nat /\ IdLen > 0 /\ IdLen + 1 < HeaderLen
  BY Sizes
<1>1. /\ m \in Seq(Bytes) /\ m # <<>> /\ Len(m) \in Nat /\ Len(m) >= 2
      /\ Ours(m) => /\ Len(m) > HeaderLen /\ m[IdLen + 2] = Len(m) - 1
                    /\ m[IdLen + 3] > 7 <=> Len(m) > HeaderLen + 1
      /\ m[1] = System
  <2>1. m \in Seq(Bytes) /\ Len(m) \in Nat /\ Len(m) >= 2 /\ Head(m) = m[1]
        /\ (Ours(m) => /\ Len(m) > HeaderLen /\ m[IdLen + 2] = Len(m) - 1
                       /\ m[IdLen + 3] > 7 <=> Len(m) > HeaderLen + 1)
    BY MessageShape
  <2> QED  BY <2>1
<1>2. /\ n \in 0 .. N /\ N \in Nat /\ N > 0
      /\ \A j \in 1 .. n : b[j] \in Data
      /\ n < N => b[n + 1] \in Bytes /\ Status(b[n + 1])
  BY LeadingIs
<1>3. \A i \in 1 .. N : i <= Len(m) - 1 => b[i] = m[i + 1] /\ b[i] \in Data
  <2> SUFFICES ASSUME NEW i \in 1 .. N, i <= Len(m) - 1 PROVE b[i] = m[i + 1] /\ b[i] \in Data
    OBVIOUS
  <2>1. b[i] = ByteAt(m, i + 1) /\ i + 1 \in 2 .. Len(m)
    BY <1>1, <1>2
  <2> QED  BY <2>1, EndIs
<1>4. N >= Len(m) => b[Len(m)] = Eos
  BY <1>1, <1>2, EndIs
<1>5. Eos \in Bytes /\ Eos \notin Data /\ \A x \in Bytes : Status(x) <=> x \notin Data
  BY StatusIs, Sizes DEF Data, Eos
<1>6. n <= Len(m) - 1
  <2> SUFFICES ASSUME n >= Len(m) PROVE FALSE
    BY <1>1, <1>2
  <2> QED  BY <1>1, <1>2, <1>4, <1>5
<1>7. n < N => n = Len(m) - 1 /\ b[n + 1] = Eos
  <2> SUFFICES ASSUME n < N PROVE n = Len(m) - 1
    BY <1>1, <1>2, <1>4
  <2>1. ~(n + 1 <= Len(m) - 1)
    BY <1>2, <1>3, <1>5
  <2> QED  BY <2>1, <1>6, <1>1, <1>2
<1>8. n >= IdLen => (SubSeq(b, 1, IdLen) = OurId <=> Ours(m))
  <2> SUFFICES ASSUME n >= IdLen PROVE SubSeq(b, 1, IdLen) = OurId <=> Ours(m)
    OBVIOUS
  <2>1. SubSeq(b, 1, IdLen) = OurId <=> \A i \in 1 .. IdLen : b[i] = Id
    BY <1>0, <1>2, OurIdIs
  <2>2. Ours(m) <=> \A i \in 1 .. IdLen : m[i + 1] = Id
    BY <1>0, <1>1, <1>2, <1>6, OursIs
  <2>3. \A i \in 1 .. IdLen : b[i] = m[i + 1]
    BY <1>0, <1>1, <1>2, <1>3, <1>6
  <2> QED  BY <2>1, <2>2, <2>3
<1>9. parseCommand(Eos) = None
  BY DEF parseCommand
<1> HIDE DEF n, N
<1>a. CASE Ours(m) /\ n = Len(m) - 1
  <2>1. n >= HeaderLen /\ n >= IdLen /\ SubSeq(b, 1, IdLen) = OurId
    BY <1>a, <1>0, <1>1, <1>8
  <2>2. Length(b) = n /\ (Type2(b) <=> n > HeaderLen)
    <3>1. b[IdLen + 1] = m[IdLen + 2] /\ b[IdLen + 2] = m[IdLen + 3]
      BY <1>a, <2>1, <1>0, <1>1, <1>2, <1>3
    <3> QED  BY <3>1, <1>a, <1>0, <1>1 DEF Length, Type2
  <2>3. SystemData(b) = Result(n, None, <<System>> \o SubSeq(b, 1, n))
    <3>1. Headed(b) /\ Complete(b, n)
      BY <2>1, <2>2, <1>0, <1>2 DEF Headed, Complete, n
    <3>2. SystemData(b) = Result(Length(b), None, <<System>> \o SubSeq(b, 1, Length(b)))
      BY <3>1, <2>1, SystemCases DEF n
    <3> QED  BY <3>2, <2>2
  <2>4. <<System>> \o SubSeq(b, 1, n) = m
    <3> DEFINE x == SubSeq(b, 1, n)
    <3>1. x \in Seq(Bytes) /\ Len(x) = n /\ \A i \in 1 .. n : x[i] = b[i]
      BY <1>2, <2>1, <1>0, SubSeqProperties DEF N
    <3> HIDE DEF x
    <3>2. <<System>> \in Seq(Bytes) /\ Len(<<System>>) = 1 /\ <<System>>[1] = System
      BY StatusIs
    <3>3. /\ <<System>> \o x \in Seq(Bytes) /\ Len(<<System>> \o x) = Len(m)
          /\ \A i \in 1 .. Len(m) : (<<System>> \o x)[i] = IF i <= 1 THEN System ELSE x[i - 1]
      BY <3>1, <3>2, <1>a, <1>1, ConcatProperties
    <3>4. \A i \in 1 .. Len(m) : (<<System>> \o x)[i] = m[i]
      <4> SUFFICES ASSUME NEW i \in 1 .. Len(m) PROVE (<<System>> \o x)[i] = m[i]
        OBVIOUS
      <4>1. CASE i = 1
        BY <4>1, <3>3, <1>1
      <4>2. CASE i > 1
        <5>1. i - 1 \in 1 .. n /\ i - 1 \in 1 .. N /\ i - 1 <= Len(m) - 1
          BY <4>2, <1>a, <1>1, <1>2
        <5>2. b[i - 1] = m[i - 1 + 1]
          BY <5>1, <1>3
        <5> QED  BY <5>1, <5>2, <3>1, <3>3, <4>2, <1>1
      <4>3. i = 1 \/ i > 1
        BY <1>1
      <4> QED  BY <4>1, <4>2, <4>3
    <3>5. <<System>> \o x = m
      BY <3>3, <3>4, <1>1, SeqEqual
    <3> QED  BY <3>5 DEF x
  <2> QED  BY <2>3, <2>4, <1>a, <1>1, <1>2 DEF Result
<1>b. CASE Ours(m) /\ n < Len(m) - 1
  <2>1. n = N
    BY <1>b, <1>7, <1>1, <1>2
  <2>2. ~(n >= IdLen /\ SubSeq(b, 1, IdLen) # OurId)
    BY <1>b, <1>8
  <2>3. n >= HeaderLen => Length(b) = Len(m) - 1 /\ Type2(b)
    <3> SUFFICES ASSUME n >= HeaderLen PROVE Length(b) = Len(m) - 1 /\ Type2(b)
      OBVIOUS
    <3>1. b[IdLen + 1] = m[IdLen + 2] /\ b[IdLen + 2] = m[IdLen + 3]
      BY <1>b, <1>0, <1>1, <1>2, <1>3
    <3>2. Len(m) > HeaderLen + 1
      BY <1>b, <1>0, <1>1, <1>2
    <3> QED  BY <3>1, <3>2, <1>b, <1>1 DEF Length, Type2
  <2>4. ~(Headed(b) /\ Malformed(b, n))
    BY <2>3, <1>b, <1>0, <1>1, <1>2 DEF Headed, Malformed, n
  <2>5. ~(Headed(b) /\ Complete(b, n))
    BY <2>3, <1>b, <1>0, <1>1, <1>2 DEF Headed, Complete, n
  <2>6. SystemData(b) = Waits(System)
    BY <2>1, <2>2, <2>4, <2>5, <1>2, SystemCases DEF n, N
  <2> QED  BY <2>1, <2>6, <1>b, <1>1, <1>2 DEF Waits, Result, N
<1>c. CASE ~Ours(m) /\ n >= IdLen
  <2>1. SystemData(b) = Result(IdLen, None, <<>>)
    BY <1>c, <1>8, SystemCases DEF n
  <2> QED  BY <2>1, <1>c, <1>0, <1>1, <1>2, <1>6 DEF Result
<1>d. CASE ~Ours(m) /\ n < IdLen
  <2>1. SystemData(b) = IF n < N THEN Result(1, parseCommand(b[n + 1]), <<>>) ELSE Waits(System)
    <3>1. ~Headed(b)
      BY <1>d, <1>0, <1>2 DEF Headed, n
    <3> QED  BY <3>1, <1>d, <1>0, <1>2, SystemCases DEF n, N
  <2>2. CASE n < N
    <3>1. SystemData(b) = Result(1, None, <<>>)
      BY <2>1, <2>2, <1>7, <1>9
    <3> QED  BY <3>1, <1>d, <1>1 DEF Result
  <2>3. CASE n = N
    <3>1. SystemData(b) = Waits(System) /\ N < Len(m) /\ N < HeaderLen
      BY <2>1, <2>3, <1>d, <1>0, <1>1, <1>2, <1>6
    <3> QED  BY <3>1 DEF Waits, Result, N
  <2> QED  BY <2>2, <2>3, <1>2
<1> QED  BY <1>a, <1>b, <1>c, <1>d, <1>0, <1>1, <1>2, <1>6

\* The same for every kind of message: it waits for the rest, or goes on towards the end.
LEMMA Parsed ==
    ASSUME NEW m, WellFormed(m), NEW j \in 1 .. End(m), NEW b \in Seq(Bytes), b # <<>>,
           \A i \in 1 .. Len(b) : i <= End(m) - j + 1 => b[i] = ByteAt(m, j + i - 1),
           NEW command \in Commands,
           j = 2 => command = Head(m),
           j > 2 => Head(m) = System /\ (j <= Len(m) => ~Ours(m) /\ command = None)
    PROVE  LET r == RawToMsg(b, command)
               next == j + r.parsed
           IN \/ /\ r.parsed = 0 /\ Len(b) < End(m) - j + 1
                 /\ Len(b) < HeaderLen \/ Len(b) <= Len(m) - 2
              \/ /\ r.parsed \in 1 .. End(m) - j + 1
                 /\ r.message = IF j <= 2 /\ next > 2 /\ Ours(m) THEN m ELSE <<>>
                 /\ next = 2 => r.last = Head(m)
                 /\ next > 2 /\ Head(m) = System /\ next <= Len(m) => ~Ours(m) /\ r.last = None
                 /\ next > 2 /\ Head(m) # System => next = End(m) + 1 /\ r.last = Head(m)
<1> DEFINE r == RawToMsg(b, command)
<1>0. HeaderLen \in Nat /\ HeaderLen > 2
  BY Sizes
<1>1. /\ Len(m) \in Nat /\ Len(m) >= 2 /\ End(m) \in Nat /\ Head(m) \in {System, One, Two}
      /\ End(m) = IF Head(m) = System THEN Len(m) + 1 ELSE Len(m)
      /\ Head(m) # System => Ours(m)
      /\ Head(m) = One => m = <<One, m[2]>> /\ Len(m) = 2
      /\ Head(m) = Two => m = <<Two, m[2], m[3]>> /\ Len(m) = 3
  BY EndIs, MessageShape DEF End, Ours
<1>2. Len(b) \in Nat /\ Len(b) > 0 /\ b[1] = ByteAt(m, j)
  BY <1>1
<1>3. \A x \in Bytes : Status(x) <=> x \notin Data
  BY StatusIs
<1>a. CASE j = 1
  <2>1. b[1] = Head(m) /\ Status(Head(m)) /\ parseCommand(Head(m)) = Head(m)
    BY <1>a, <1>1, <1>2, EndIs, Sizes DEF Status, System, One, Two, Eos, parseCommand
  <2>2. r = Result(1, Head(m), <<>>)
    BY <2>1, <1>2 DEF RawToMsg
  <2> QED  BY <2>2, <1>a, <1>1 DEF Result
<1>b. CASE j = Len(m) + 1
  <2>1. b[1] = Eos /\ Status(Eos) /\ parseCommand(Eos) = None /\ Head(m) = System
    BY <1>b, <1>1, <1>2, EndIs, Sizes DEF Status, System, One, Two, Eos, parseCommand
  <2>2. r = Result(1, None, <<>>)
    BY <2>1, <1>2 DEF RawToMsg
  <2>3. r.parsed = 1 /\ r.message = <<>> /\ j > 2 /\ j + r.parsed > Len(m)
    BY <2>2, <1>b, <1>1 DEF Result
  <2> QED  BY <2>1, <2>3, <1>b, <1>1
<1>c. CASE j \in 2 .. Len(m)
  <2>0. b[1] = m[j] /\ m[j] \in Data /\ ~Status(b[1])
    <3>1. b[1] = m[j] /\ m[j] \in Data
      BY <1>c, <1>2, EndIs
    <3> QED  BY <3>1, <1>3, StatusIs
  <2>1. CASE Head(m) = One
    <3>1. j = 2 /\ command = One /\ End(m) = 2
      BY <2>1, <1>c, <1>1, StatusIs
    <3>2. r = Result(1, One, <<One, b[1]>>)
      BY <3>1, <2>0, <1>2, StatusIs DEF RawToMsg
    <3>3. <<One, b[1]>> = m
      BY <3>1, <2>0, <2>1, <1>1
    <3> QED  BY <3>1, <3>2, <3>3, <2>1, <1>1 DEF Result
  <2>2. CASE Head(m) = Two
    <3>1. j = 2 /\ command = Two /\ End(m) = 3 /\ Len(m) = 3
      BY <2>2, <1>c, <1>1, StatusIs
    <3>2. r = TwoData(b)
      BY <3>1, <2>0, <1>2, StatusIs DEF RawToMsg
    <3>3. CASE Len(b) < 2
      <4>1. r = Waits(Two)
        BY <3>2, <3>3, <1>2 DEF TwoData
      <4> QED  BY <4>1, <3>1, <3>3, <1>0, <1>2 DEF Waits, Result
    <3>4. CASE Len(b) >= 2
      <4>1. b[2] = m[3] /\ ~Status(b[2])
        <5>1. b[2] = ByteAt(m, 3)
          BY <3>1, <3>4
        <5>2. b[2] = m[3] /\ m[3] \in Data
          <6>1. 3 \in 2 .. Len(m)
            BY <3>1
          <6> QED  BY <5>1, <6>1, EndIs
        <5> QED  BY <5>2, <1>3, StatusIs
      <4>2. r = Result(2, Two, <<Two, b[1], b[2]>>)
        BY <3>2, <3>4, <4>1, <1>2 DEF TwoData
      <4>3. <<Two, b[1], b[2]>> = m
        BY <4>1, <3>1, <2>0, <2>2, <1>1
      <4> QED  BY <4>2, <4>3, <3>1, <2>2, <1>1, StatusIs DEF Result
    <3> QED  BY <3>3, <3>4, <1>2
  <2>3. CASE Head(m) = System /\ j = 2
    <3>1. command = System
      BY <2>3
    <3>2. r = SystemData(b)
      BY <3>1, <2>0, <1>2, StatusIs DEF RawToMsg
    <3>3. \A i \in 1 .. Len(b) : i <= Len(m) => b[i] = ByteAt(m, i + 1)
      <4> SUFFICES ASSUME NEW i \in 1 .. Len(b), i <= Len(m) PROVE b[i] = ByteAt(m, i + 1)
        OBVIOUS
      <4>1. i <= End(m) - j + 1 /\ j + i - 1 = i + 1
        BY <2>3, <1>1, <1>2
      <4> QED  BY <4>1
    <3>4. \/ /\ r.parsed = 0 /\ Len(b) < Len(m)
             /\ Len(b) < HeaderLen \/ Len(b) <= Len(m) - 2
          \/ /\ r.parsed \in 1 .. Len(m) - 1
             /\ r.message = IF Ours(m) THEN m ELSE <<>>
             /\ r.parsed + 2 <= Len(m) => ~Ours(m) /\ r.last = None
      <4> HIDE DEF r
      <4> QED  BY <2>3, <3>2, <3>3, SystemParsed
    <3> HIDE DEF r
    <3> QED  BY <3>4, <2>3, <1>1 DEF r
  <2>4. CASE Head(m) = System /\ j > 2
    <3>1. command = None /\ ~Ours(m)
      BY <2>4, <1>c
    <3>2. r = Result(1, None, <<>>)
      BY <3>1, <2>0, <1>2, StatusIs DEF RawToMsg
    <3> QED  BY <3>1, <3>2, <2>4, <1>c, <1>1 DEF Result
  <2> QED  BY <2>1, <2>2, <2>3, <2>4, <1>c, <1>1
<1> QED  BY <1>a, <1>b, <1>c, <1>1

-----------------------------------------------------------------------------
\* What was written and is not yet parsed: in the buffer, on the wire, still to be written.
Joined(p) ==
    IF Len(p) = 0 THEN <<>> ELSE
    IF Len(p) = 1 THEN p[1] ELSE
    IF Len(p) = 2 THEN p[1] \o p[2] ELSE
    IF Len(p) = 3 THEN p[1] \o (p[2] \o p[3]) ELSE p[1] \o (p[2] \o (p[3] \o p[4]))

Pending == IF Senders = {} THEN <<>> ELSE Joined(pending[CHOOSE w \in Senders : TRUE])
InLine == Unparsed \o (wire \o Pending)

\* Where a byte comes from: the jth of message m, which is or comes after the nth of sent.
Sending == UNION {connection.sends[w] : w \in Senders}
Cell == [n : Nat, m : Sending, j : Nat \ {0}]
ByteOf(c) == ByteAt(c.m, c.j)
Before(c) == IF Ours(c.m) THEN c.n - 1 ELSE c.n

Genuine(c) ==
    /\ c.j <= End(c.m) /\ c.n <= Len(sent)
    /\ Ours(c.m) => c.n >= 1 /\ sent[c.n] = c.m

Follows(c, d) ==
    IF c.j < End(c.m) THEN d.n = c.n /\ d.m = c.m /\ d.j = c.j + 1
    ELSE /\ Before(d) = c.n
         /\ d.j = 1 \/ (d.j = 2 /\ Head(d.m) = Head(c.m) /\ Head(d.m) # System)

\* The parser is at c, with this command and so many messages dispatched.
Expects(c, command, number) ==
    /\ c.j <= 2 => number = Before(c)
    /\ c.j = 2 => command = Head(c.m)
    /\ c.j > 2 => /\ Head(c.m) = System /\ number = c.n
                  /\ c.j <= Len(c.m) => ~Ours(c.m) /\ command = None

\* The writer has come to the end of c.
Finishes(c) ==
    /\ c.j = End(c.m) /\ c.n = Len(sent)
    /\ status = IF Head(c.m) = System THEN None ELSE Head(c.m)

Labels(cells) ==
    /\ cells \in Seq(Cell) /\ Len(cells) = Len(InLine)
    /\ \A i \in 1 .. Len(cells) : Genuine(cells[i]) /\ InLine[i] = ByteOf(cells[i])
    /\ \A i \in 1 .. Len(cells) - 1 : Follows(cells[i], cells[i + 1])
    /\ cells # <<>> => Expects(cells[1], last, Len(got)) /\ Finishes(cells[Len(cells)])
    /\ cells = <<>> => Len(got) = Len(sent) /\ (status # None => last = status)

GotInv == Len(got) <= Len(sent) /\ \A i \in 1 .. Len(got) : got[i] = sent[i]
LineInv ==
    /\ count <= BufSize
    /\ \A w \in Senders : Len(pending[w]) <= 4
    /\ closed => \A w \in Senders : pending[w] = <<>>
    /\ at = "gone" => closed
    /\ at = "tcp" => Gui
StreamInv == GotInv /\ LineInv /\ \E cells : Labels(cells)

ParserInv == ParserTypeOK /\ (Orderly => StreamInv)

\* Joined, case by case.
LEMMA JoinedCases ==
    ASSUME NEW p
    PROVE  /\ Len(p) = 0 => Joined(p) = <<>>
           /\ Len(p) = 1 => Joined(p) = p[1]
           /\ Len(p) = 2 => Joined(p) = p[1] \o p[2]
           /\ Len(p) = 3 => Joined(p) = p[1] \o (p[2] \o p[3])
           /\ Len(p) = 4 => Joined(p) = p[1] \o (p[2] \o (p[3] \o p[4]))
<1>1. Len(p) = 0 => Joined(p) = <<>>
  BY DEF Joined
<1>2. Len(p) = 1 => Joined(p) = p[1]
  BY DEF Joined
<1>3. Len(p) = 2 => Joined(p) = p[1] \o p[2]
  BY DEF Joined
<1>4. Len(p) = 3 => Joined(p) = p[1] \o (p[2] \o p[3])
  BY DEF Joined
<1>5. Len(p) = 4 => Joined(p) = p[1] \o (p[2] \o (p[3] \o p[4]))
  BY DEF Joined
<1> QED  BY <1>1, <1>2, <1>3, <1>4, <1>5

\* The first of the pieces and the others.
LEMMA JoinedSplits ==
    ASSUME NEW p, NEW t, NEW n \in 1 .. 4, Len(p) = n, Len(t) = n - 1, \A i \in 1 .. n - 1 : t[i] = p[i + 1]
    PROVE  IF n = 1 THEN Joined(p) = p[1] /\ Joined(t) = <<>> ELSE Joined(p) = p[1] \o Joined(t)
<1>1. CASE n = 1
  <2>1. Len(p) = 1 /\ Len(t) = 0
    BY <1>1
  <2>2. Joined(p) = p[1]
    BY ONLY <2>1, JoinedCases
  <2>3. Joined(t) = <<>>
    BY ONLY <2>1, JoinedCases
  <2> QED  BY ONLY <2>1, <2>2, <2>3, <1>1
<1>2. CASE n = 2
  <2>1. Len(p) = 2 /\ Len(t) = 1 /\ t[1] = p[2]
    BY <1>2
  <2>2. Joined(p) = p[1] \o p[2]
    BY ONLY <2>1, JoinedCases
  <2>3. Joined(t) = t[1]
    BY ONLY <2>1, JoinedCases
  <2> QED  BY ONLY <2>1, <2>2, <2>3, <1>2
<1>3. CASE n = 3
  <2>1. Len(p) = 3 /\ Len(t) = 2 /\ t[1] = p[2] /\ t[2] = p[3]
    BY <1>3
  <2>2. Joined(p) = p[1] \o (p[2] \o p[3])
    BY ONLY <2>1, JoinedCases
  <2>3. Joined(t) = t[1] \o t[2]
    BY ONLY <2>1, JoinedCases
  <2> QED  BY ONLY <2>1, <2>2, <2>3, <1>3
<1>4. CASE n = 4
  <2>1. Len(p) = 4 /\ Len(t) = 3 /\ t[1] = p[2] /\ t[2] = p[3] /\ t[3] = p[4]
    BY <1>4
  <2>2. Joined(p) = p[1] \o (p[2] \o (p[3] \o p[4]))
    BY ONLY <2>1, JoinedCases
  <2>3. Joined(t) = t[1] \o (t[2] \o t[3])
    BY ONLY <2>1, JoinedCases
  <2> QED  BY ONLY <2>1, <2>2, <2>3, <1>4
<1> QED  BY <1>1, <1>2, <1>3, <1>4

\* The pieces together are bytes.
LEMMA JoinedIn ==
    ASSUME NEW p, NEW n \in 0 .. 4, Len(p) = n, \A i \in 1 .. n : p[i] \in Seq(Bytes)
    PROVE  Joined(p) \in Seq(Bytes)
<1>0. CASE n = 0
  <2>1. Len(p) = 0
    BY <1>0
  <2>2. Joined(p) = <<>>
    BY ONLY <2>1, JoinedCases
  <2> QED  BY ONLY <2>2
<1>1. CASE n = 1
  <2>1. Len(p) = 1 /\ p[1] \in Seq(Bytes)
    BY <1>1
  <2>2. Joined(p) = p[1]
    BY ONLY <2>1, JoinedCases
  <2> QED  BY ONLY <2>1, <2>2
<1>2. CASE n = 2
  <2>1. p[1] \in Seq(Bytes) /\ p[2] \in Seq(Bytes)
    BY <1>2
  <2>2. p[1] \o p[2] \in Seq(Bytes)
    BY ONLY <2>1, ConcatProperties
  <2> QED  BY ONLY <2>2, <1>2, JoinedCases, Len(p) = n
<1>3. CASE n = 3
  <2>1. p[1] \in Seq(Bytes) /\ p[2] \in Seq(Bytes) /\ p[3] \in Seq(Bytes)
    BY <1>3
  <2>2. p[2] \o p[3] \in Seq(Bytes)
    BY ONLY <2>1, ConcatProperties
  <2>3. p[1] \o (p[2] \o p[3]) \in Seq(Bytes)
    BY ONLY <2>1, <2>2, ConcatProperties
  <2> QED  BY ONLY <2>3, <1>3, JoinedCases, Len(p) = n
<1>4. CASE n = 4
  <2>1. p[1] \in Seq(Bytes) /\ p[2] \in Seq(Bytes) /\ p[3] \in Seq(Bytes) /\ p[4] \in Seq(Bytes)
    BY <1>4
  <2>2. p[3] \o p[4] \in Seq(Bytes)
    BY ONLY <2>1, ConcatProperties
  <2>3. p[2] \o (p[3] \o p[4]) \in Seq(Bytes)
    BY ONLY <2>1, <2>2, ConcatProperties
  <2>4. p[1] \o (p[2] \o (p[3] \o p[4])) \in Seq(Bytes)
    BY ONLY <2>1, <2>3, ConcatProperties
  <2> QED  BY ONLY <2>4, <1>4, JoinedCases, Len(p) = n
<1> QED  BY <1>0, <1>1, <1>2, <1>3, <1>4

\* What the proofs use of Joined.
LEMMA JoinedIs ==
    ASSUME NEW p \in Seq(Seq(Bytes)), Len(p) <= 4
    PROVE  /\ Joined(p) \in Seq(Bytes)
           /\ p = <<>> => Joined(p) = <<>>
           /\ p # <<>> => Joined(p) = Head(p) \o Joined(Tail(p))
<1> DEFINE n == Len(p)
           t == Tail(p)
<1>1. n \in Nat /\ (n = 0 <=> p = <<>>) /\ (p # <<>> => Head(p) = p[1]) /\ n <= 4
  OBVIOUS
<1>2. \A i \in 1 .. n : p[i] \in Seq(Bytes)
  BY ElementOfSeq
<1>3. n \in 0 .. 4
  <2> HIDE DEF n
  <2> QED  BY ONLY <1>1
<1>4. Joined(p) \in Seq(Bytes)
  <2>1. Len(p) = n
    OBVIOUS
  <2> HIDE DEF n
  <2> QED  BY ONLY <2>1, <1>2, <1>3, JoinedIn
<1>5. p = <<>> => Joined(p) = <<>>
  BY JoinedCases
<1>6. ASSUME p # <<>> PROVE Joined(p) = Head(p) \o Joined(Tail(p))
  <2>1. Len(t) = n - 1 /\ \A i \in 1 .. n - 1 : t[i] = p[i + 1]
    BY <1>6, HeadTailProperties
  <2>2. Len(p) = n
    OBVIOUS
  <2>3. n \in 1 .. 4
    <3> HIDE DEF n
    <3> QED  BY ONLY <1>1, <1>6
  <2>4. p[1] \in Seq(Bytes)
    BY <1>2, <2>3
  <2>5. p[1] \o <<>> = p[1]
    BY ONLY <2>4, ConcatEmptySeq
  <2>6. IF n = 1 THEN Joined(p) = p[1] /\ Joined(t) = <<>> ELSE Joined(p) = p[1] \o Joined(t)
    <3> HIDE DEF n, t
    <3> QED  BY ONLY <2>1, <2>2, <2>3, JoinedSplits
  <2>7. Joined(p) = p[1] \o Joined(t)
    <3> HIDE DEF n, t
    <3> QED  BY ONLY <2>5, <2>6
  <2> QED  BY <2>7, <1>1, <1>6
<1> QED  BY <1>4, <1>5, <1>6

\* The line has three parts, and one writer at most.
LEMMA PendingIs ==
    ASSUME ParserTypeOK, LineInv, Alone
    PROVE  /\ Pending \in Seq(Bytes) /\ InLine \in Seq(Bytes)
           /\ Len(InLine) = count + Len(wire) + Len(Pending)
           /\ \A i \in 1 .. count : InLine[i] = Unparsed[i]
           /\ \A w \in Senders : Pending = Joined(pending[w])
           /\ (\A w \in Senders : pending[w] = <<>>) => Pending = <<>>
<1>1. ASSUME NEW w \in Senders
      PROVE  Pending = Joined(pending[w]) /\ Pending \in Seq(Bytes) /\ (pending[w] = <<>> => Pending = <<>>)
  <2>1. (CHOOSE v \in Senders : TRUE) = w
    BY DEF Alone
  <2>2. pending[w] \in Seq(Seq(Bytes)) /\ Len(pending[w]) <= 4
    BY DEF ParserTypeOK, LineInv
  <2> QED  BY <2>1, <2>2, JoinedIs DEF Pending
<1>2. Senders = {} => Pending = <<>>
  BY DEF Pending
<1>3. Pending \in Seq(Bytes)
  <2>1. <<>> \in Seq(Bytes)
    OBVIOUS
  <2> QED  BY <2>1, <1>1, <1>2
<1>4. wire \in Seq(Bytes) /\ Unparsed \in Seq(Bytes) /\ Len(Unparsed) = count
  BY UnparsedIs DEF ParserTypeOK
<1>5. wire \o Pending \in Seq(Bytes) /\ Len(wire \o Pending) = Len(wire) + Len(Pending)
  BY <1>3, <1>4, ConcatProperties
<1>6. /\ InLine \in Seq(Bytes) /\ Len(InLine) = count + Len(wire \o Pending)
      /\ \A i \in 1 .. count + Len(wire \o Pending) : InLine[i] =
           IF i <= count THEN Unparsed[i] ELSE (wire \o Pending)[i - count]
  <2> DEFINE x == wire \o Pending
  <2>1. x \in Seq(Bytes)
    BY <1>5
  <2> HIDE DEF x
  <2>2. /\ Unparsed \o x \in Seq(Bytes) /\ Len(Unparsed \o x) = count + Len(x)
        /\ \A i \in 1 .. count + Len(x) : (Unparsed \o x)[i] =
             IF i <= count THEN Unparsed[i] ELSE x[i - count]
    BY <1>4, <2>1, ConcatProperties
  <2> QED  BY <2>2 DEF x, InLine
<1>7. \A i \in 1 .. count : InLine[i] = Unparsed[i]
  <2>1. count \in Nat /\ Len(wire \o Pending) \in Nat
    BY <1>5 DEF ParserTypeOK
  <2> QED  BY <2>1, <1>6
<1>8. Len(InLine) = count + Len(wire) + Len(Pending)
  <2>1. count \in Nat /\ Len(wire) \in Nat /\ Len(Pending) \in Nat
    BY <1>3, <1>4 DEF ParserTypeOK
  <2> QED  BY <2>1, <1>5, <1>6
<1> QED  BY <1>1, <1>2, <1>3, <1>6, <1>7, <1>8

\* What a cell is.
LEMMA CellIs ==
    ASSUME connection \in Connections, NEW c \in Cell
    PROVE  WellFormed(c.m) /\ c.m \in Sending /\ c.n \in Nat /\ c.j \in Nat /\ c.j >= 1
<1>1. c.m \in Sending /\ c.n \in Nat /\ c.j \in Nat /\ c.j >= 1
  BY DEF Cell
<1>2. PICK w \in Senders : c.m \in connection.sends[w]
  BY <1>1 DEF Sending
<1> QED  BY <1>1, <1>2, ConnectionIs

\* The cells of one message stand together.
LEMMA SameMessage ==
    ASSUME ParserTypeOK, NEW cells, Labels(cells), cells # <<>>
    PROVE  LET c == cells[1]
               k == End(c.m) - c.j + 1
           IN /\ k \in 1 .. Len(cells)
              /\ \A i \in 1 .. k : cells[i].n = c.n /\ cells[i].m = c.m /\ cells[i].j = c.j + i - 1
<1> DEFINE c == cells[1]
           k == End(c.m) - c.j + 1
           Good(i) == i <= Len(cells) /\ cells[i].n = c.n /\ cells[i].m = c.m /\ cells[i].j = c.j + i - 1
           Bad == {i \in 1 .. k : ~Good(i)}
<1>0. cells \in Seq(Cell) /\ Len(cells) \in Nat /\ Len(cells) > 0 /\ connection \in Connections
  BY DEF Labels, ParserTypeOK
<1>1. c \in Cell /\ Genuine(c)
  BY <1>0 DEF Labels
<1>2. c.j \in Nat /\ c.j >= 1 /\ WellFormed(c.m)
  BY <1>0, <1>1, CellIs
<1>3. End(c.m) \in Nat /\ c.j <= End(c.m)
  BY <1>1, <1>2, EndIs DEF Genuine
<1>4. k \in Nat /\ k >= 1
  BY <1>2, <1>3
<1>5. Bad = {}
  <2> SUFFICES ASSUME Bad # {} PROVE FALSE
    OBVIOUS
  <2>1. PICK b \in Bad : \A x \in Bad : b <= x
    <3>1. Bad \subseteq Nat
      BY <1>4
    <3> HIDE DEF Bad
    <3> QED  BY <3>1, Least
  <2>2. b # 1
    BY <1>0, <1>2 DEF Labels
  <2>3. b \in 2 .. k /\ b - 1 \in 1 .. k /\ ~Good(b)
    BY <2>2, <1>4
  <2>4. Good(b - 1)
    BY <2>1, <2>3, <1>4
  <2>5. cells[b - 1].j < End(cells[b - 1].m) /\ b - 1 \in 1 .. Len(cells)
    BY <2>3, <2>4, <1>0, <1>2, <1>3, <1>4
  <2>6. CASE b - 1 = Len(cells)
    <3>1. Finishes(cells[b - 1])
      BY <2>6, <1>0 DEF Labels
    <3> QED  BY <3>1, <2>5, <1>3, <2>4 DEF Finishes
  <2>7. CASE b - 1 < Len(cells)
    <3>1. Follows(cells[b - 1], cells[b])
      <4>1. b - 1 \in 1 .. Len(cells) - 1 /\ b - 1 + 1 = b
        BY <2>3, <2>7, <1>0, <1>4
      <4> QED  BY <4>1 DEF Labels
    <3>2. cells[b].n = cells[b - 1].n /\ cells[b].m = cells[b - 1].m /\ cells[b].j = cells[b - 1].j + 1
      BY <3>1, <2>5 DEF Follows
    <3>3. b <= Len(cells) /\ b \in Nat
      BY <2>3, <2>7, <1>0, <1>4
    <3>4. cells[b].n = c.n /\ cells[b].m = c.m
      BY <3>2, <2>4
    <3>5. cells[b].j = c.j + b - 1
      <4>1. cells[b].j = c.j + (b - 1) - 1 + 1
        BY <3>2, <2>4
      <4>2. c.j \in Nat
        BY <1>2
      <4> HIDE DEF c
      <4> QED  BY ONLY <4>1, <4>2, <3>3
    <3> QED  BY <3>3, <3>4, <3>5, <2>3
  <2> QED  BY <2>5, <2>6, <2>7, <1>0
<1>6. \A i \in 1 .. k : Good(i)
  BY <1>5
<1> QED  BY <1>0, <1>4, <1>6

-----------------------------------------------------------------------------
\* Nothing is dispatched and nothing begun: the bytes only move on.
LEMMA LabelsKept ==
    ASSUME NEW cells, Labels(cells), InLine' = InLine,
           connection' = connection, last' = last, status' = status, sent' = sent, got' = got
    PROVE  Labels(cells)'
<1>1. Cell' = Cell
  BY DEF Cell, Sending, Senders
<1>2. \A c : (Genuine(c)' <=> Genuine(c)) /\ (Finishes(c)' <=> Finishes(c))
  BY DEF Genuine, Finishes
<1> QED  BY <1>1, <1>2 DEF Labels

\* Nothing sent, nothing dispatched.
LEMMA GotKept ==
    ASSUME GotInv, sent' = sent, got' = got
    PROVE  GotInv'
BY DEF GotInv

\* Nothing written.
LEMMA PendingKept ==
    ASSUME connection' = connection, pending' = pending
    PROVE  Pending' = Pending /\ Senders' = Senders
BY DEF Pending, Senders

\* The parser has passed some cells.
LEMMA LabelsDropped ==
    ASSUME ParserTypeOK, NEW cells, Labels(cells), NEW p \in 1 .. Len(cells),
           InLine' = SubSeq(InLine, p + 1, Len(InLine)), InLine \in Seq(Bytes),
           connection' = connection, status' = status, sent' = sent,
           p < Len(cells) => Expects(cells[p + 1], last', Len(got')),
           p = Len(cells) => Len(got') = Len(sent) /\ (status # None => last' = status)
    PROVE  Labels(SubSeq(cells, p + 1, Len(cells)))'
<1> DEFINE N == Len(cells)
           new == SubSeq(cells, p + 1, N)
<1>0. cells \in Seq(Cell) /\ N \in Nat /\ N = Len(InLine) /\ p \in 1 .. N
  BY DEF Labels
<1>1. /\ new \in Seq(Cell) /\ Len(new) = N - p /\ Len(new) \in Nat
      /\ \A i \in 1 .. N - p : new[i] = cells[p + i]
  <2>1. \A i \in p + 1 .. N : cells[i] \in Cell
    BY <1>0
  <2>2. /\ new \in Seq(Cell) /\ Len(new) = IF p + 1 <= N THEN N - (p + 1) + 1 ELSE 0
        /\ \A i \in 1 .. N - (p + 1) + 1 : new[i] = cells[p + 1 + i - 1]
    BY <1>0, <2>1, SubSeqProperties
  <2> HIDE DEF new
  <2> QED  BY <1>0, <2>2
<1>2. Len(InLine') = N - p /\ \A i \in 1 .. N - p : InLine'[i] = InLine[p + i]
  <2>1. \A i \in p + 1 .. N : InLine[i] \in Bytes
    BY <1>0
  <2>2. /\ Len(InLine') = IF p + 1 <= N THEN N - (p + 1) + 1 ELSE 0
        /\ \A i \in 1 .. N - (p + 1) + 1 : InLine'[i] = InLine[p + 1 + i - 1]
    BY <1>0, <2>1, SubSeqProperties
  <2> QED  BY <1>0, <2>2
<1>3. Cell' = Cell
  BY DEF Cell, Sending, Senders
<1>4. \A c : (Genuine(c)' <=> Genuine(c)) /\ (Finishes(c)' <=> Finishes(c))
  BY DEF Genuine, Finishes
<1> HIDE DEF new, N
<1>5. \A i \in 1 .. N : Genuine(cells[i]) /\ InLine[i] = ByteOf(cells[i])
  BY DEF Labels, N
<1>6. \A i \in 1 .. N - 1 : Follows(cells[i], cells[i + 1])
  BY DEF Labels, N
<1>7. \A i \in 1 .. N - p : Genuine(new[i]) /\ InLine'[i] = ByteOf(new[i])
  <2> SUFFICES ASSUME NEW i \in 1 .. N - p PROVE Genuine(new[i]) /\ InLine'[i] = ByteOf(new[i])
    OBVIOUS
  <2>1. p + i \in 1 .. N
    BY <1>0
  <2> QED  BY <2>1, <1>1, <1>2, <1>5
<1>8. \A i \in 1 .. N - p - 1 : Follows(new[i], new[i + 1])
  <2> SUFFICES ASSUME NEW i \in 1 .. N - p - 1 PROVE Follows(new[i], new[i + 1])
    OBVIOUS
  <2>1. p + i \in 1 .. N - 1 /\ i \in 1 .. N - p /\ i + 1 \in 1 .. N - p /\ p + (i + 1) = p + i + 1
    BY <1>0
  <2> QED  BY <2>1, <1>1, <1>6
<1>9. new # <<>> => Expects(new[1], last', Len(got')) /\ Finishes(new[Len(new)])
  <2> SUFFICES ASSUME new # <<>> PROVE Expects(new[1], last', Len(got')) /\ Finishes(new[Len(new)])
    OBVIOUS
  <2>1. N - p \in Nat /\ N - p >= 1
    BY <1>0, <1>1
  <2>2. new[1] = cells[p + 1] /\ new[Len(new)] = cells[N]
    BY <2>1, <1>0, <1>1
  <2>3. Finishes(cells[N])
    BY <1>0 DEF Labels, N
  <2> QED  BY <2>1, <2>2, <2>3, <1>0 DEF N
<1>10. new = <<>> => Len(got') = Len(sent) /\ (status # None => last' = status)
  <2> SUFFICES ASSUME new = <<>> PROVE Len(got') = Len(sent) /\ (status # None => last' = status)
    OBVIOUS
  <2>1. p = N
    BY <1>0, <1>1
  <2> QED  BY <2>1 DEF N
<1>11. Labels(new)'
  <2>1. /\ new \in Seq(Cell') /\ Len(new) = Len(InLine')
        /\ \A i \in 1 .. Len(new) : Genuine(new[i])' /\ InLine'[i] = ByteOf(new[i])
        /\ \A i \in 1 .. Len(new) - 1 : Follows(new[i], new[i + 1])
        /\ new # <<>> => Expects(new[1], last', Len(got')) /\ Finishes(new[Len(new)])'
        /\ new = <<>> => Len(got') = Len(sent') /\ (status' # None => last' = status')
    BY <1>1, <1>2, <1>3, <1>4, <1>7, <1>8, <1>9, <1>10
  <2> QED  BY <2>1 DEF Labels
<1> QED  BY <1>11 DEF new, N

\* What the parser makes of the buffer, in terms of the cells.
LEMMA StepOnLine ==
    ASSUME ParserTypeOK, LineInv, Alone, NEW cells, Labels(cells), count > 0
    PROVE  /\ cells # <<>> /\ cells \in Seq(Cell) /\ Len(cells) >= count
           /\ LET c == cells[1]
                  k == End(c.m) - c.j + 1
                  next == c.j + Step.parsed
              IN /\ c \in Cell /\ k \in 1 .. Len(cells)
                 /\ \A i \in 1 .. k : cells[i].n = c.n /\ cells[i].m = c.m /\ cells[i].j = c.j + i - 1
                 /\ \/ /\ Step.parsed = 0 /\ count < k
                       /\ count < HeaderLen \/ count <= Len(c.m) - 2
                    \/ /\ Step.parsed \in 1 .. k
                       /\ Step.message = IF c.j <= 2 /\ next > 2 /\ Ours(c.m) THEN c.m ELSE <<>>
                       /\ next = 2 => Step.last = Head(c.m)
                       /\ next > 2 /\ Head(c.m) = System /\ next <= Len(c.m) => ~Ours(c.m) /\ Step.last = None
                       /\ next > 2 /\ Head(c.m) # System => next = End(c.m) + 1 /\ Step.last = Head(c.m)
<1> DEFINE c == cells[1]
           m == c.m
           j == c.j
           k == End(m) - j + 1
<1>0. count \in Nat /\ last \in Commands /\ connection \in Connections
  BY DEF ParserTypeOK, Commands
<1>1. /\ cells \in Seq(Cell) /\ Len(cells) = Len(InLine)
      /\ \A i \in 1 .. Len(cells) : Genuine(cells[i]) /\ InLine[i] = ByteOf(cells[i])
      /\ cells # <<>> => Expects(c, last, Len(got))
  BY DEF Labels
<1>2. Len(cells) >= count /\ Len(cells) \in Nat
  <2>1. Len(InLine) = count + Len(wire) + Len(Pending) /\ Pending \in Seq(Bytes) /\ wire \in Seq(Bytes)
    BY PendingIs DEF ParserTypeOK
  <2>2. Len(wire) \in Nat /\ Len(Pending) \in Nat
    BY <2>1
  <2> QED  BY <2>1, <2>2, <1>0, <1>1
<1>3. cells # <<>>
  BY <1>1, <1>2, <1>0
<1>4. c \in Cell /\ Genuine(c) /\ Expects(c, last, Len(got))
  BY <1>1, <1>2, <1>3
<1>5. WellFormed(m) /\ j \in Nat /\ j >= 1 /\ j \in 1 .. End(m)
  <2>1. WellFormed(m) /\ j \in Nat /\ j >= 1
    BY <1>0, <1>4, CellIs
  <2> QED  BY <2>1, <1>4, EndIs DEF Genuine
<1>6. k \in 1 .. Len(cells) /\ \A i \in 1 .. k : cells[i].n = c.n /\ cells[i].m = m /\ cells[i].j = j + i - 1
  BY <1>3, SameMessage
<1>7. Unparsed \in Seq(Bytes) /\ Len(Unparsed) = count /\ Unparsed # <<>>
  BY <1>0, UnparsedIs
<1>8. ASSUME NEW i \in 1 .. Len(Unparsed), i <= k PROVE Unparsed[i] = ByteAt(m, j + i - 1)
  <2>1. i \in 1 .. count /\ i \in 1 .. Len(cells) /\ i \in 1 .. k
    BY <1>2, <1>6, <1>7, <1>8, <1>0
  <2>2. Unparsed[i] = InLine[i]
    BY <2>1, PendingIs
  <2>3. InLine[i] = ByteAt(cells[i].m, cells[i].j)
    BY <2>1, <1>1 DEF ByteOf
  <2> QED  BY <2>1, <2>2, <2>3, <1>6
<1>9. (j = 2 => last = Head(m)) /\ (j > 2 => Head(m) = System /\ (j <= Len(m) => ~Ours(m) /\ last = None))
  BY <1>4 DEF Expects
<1>10. \/ /\ Step.parsed = 0 /\ count < k
          /\ count < HeaderLen \/ count <= Len(m) - 2
       \/ /\ Step.parsed \in 1 .. k
          /\ Step.message = IF j <= 2 /\ j + Step.parsed > 2 /\ Ours(m) THEN m ELSE <<>>
          /\ j + Step.parsed = 2 => Step.last = Head(m)
          /\ j + Step.parsed > 2 /\ Head(m) = System /\ j + Step.parsed <= Len(m) => ~Ours(m)
               /\ Step.last = None
          /\ j + Step.parsed > 2 /\ Head(m) # System => j + Step.parsed = End(m) + 1 /\ Step.last = Head(m)
  <2>1. \A i \in 1 .. Len(Unparsed) : i <= End(m) - j + 1 => Unparsed[i] = ByteAt(m, j + i - 1)
    BY <1>8
  <2> HIDE DEF c, m, j
  <2> QED  BY <2>1, <1>0, <1>5, <1>7, <1>9, Parsed DEF Step
<1> QED  BY <1>1, <1>2, <1>3, <1>4, <1>6, <1>10

\* While the parser waits there is room, and bytes to come if it has any.
LEMMA Waiting ==
    ASSUME ParserTypeOK, LineInv, Alone, NEW cells, Labels(cells), count > 0, Step.parsed = 0
    PROVE  /\ count < Len(cells)
           /\ \E m \in Sending : WellFormed(m) /\ (count < HeaderLen \/ count <= Len(m) - 2)
<1> DEFINE c == cells[1]
           k == End(c.m) - c.j + 1
<1>1. /\ c \in Cell /\ k \in 1 .. Len(cells) /\ count < k /\ cells \in Seq(Cell)
      /\ count < HeaderLen \/ count <= Len(c.m) - 2
  BY StepOnLine
<1>2. WellFormed(c.m) /\ c.m \in Sending
  BY <1>1, CellIs DEF ParserTypeOK
<1>3. Len(cells) \in Nat /\ count \in Nat
  BY <1>1 DEF ParserTypeOK
<1> QED  BY <1>1, <1>2, <1>3

\* Dropping from the front of a line.
LEMMA FrontDropped ==
    ASSUME NEW S, NEW u \in Seq(S), NEW r \in Seq(S), NEW p \in Nat, p \in 1 .. Len(u)
    PROVE  SubSeq(u, p + 1, Len(u)) \o r = SubSeq(u \o r, p + 1, Len(u \o r))
<1> DEFINE U == Len(u)
           R == Len(r)
           x == SubSeq(u, p + 1, U)
           y == u \o r
           z == SubSeq(y, p + 1, U + R)
<1>1. U \in Nat /\ R \in Nat /\ (\A i \in 1 .. U : u[i] \in S) /\ p <= U
  OBVIOUS
<1>2. /\ y \in Seq(S) /\ Len(y) = U + R
      /\ \A i \in 1 .. U + R : y[i] = IF i <= U THEN u[i] ELSE r[i - U]
  BY ConcatProperties
<1>3. x \in Seq(S) /\ Len(x) = U - p /\ \A i \in 1 .. U - p : x[i] = u[p + i]
  <2> HIDE DEF U
  <2>1. \A i \in p + 1 .. U : u[i] \in S
    BY <1>1
  <2>2. /\ x \in Seq(S) /\ Len(x) = IF p + 1 <= U THEN U - (p + 1) + 1 ELSE 0
        /\ \A i \in 1 .. U - (p + 1) + 1 : x[i] = u[p + 1 + i - 1]
    BY <1>1, <2>1, SubSeqProperties
  <2> HIDE DEF x
  <2> QED  BY <1>1, <2>2
<1>4. z \in Seq(S) /\ Len(z) = U + R - p /\ \A i \in 1 .. U + R - p : z[i] = y[p + i]
  <2>0. \A i \in 1 .. U + R : y[i] \in S
    BY <1>2
  <2> HIDE DEF U, R, y
  <2>1. \A i \in p + 1 .. U + R : y[i] \in S
    BY <1>1, <2>0
  <2>2. /\ z \in Seq(S) /\ Len(z) = IF p + 1 <= U + R THEN U + R - (p + 1) + 1 ELSE 0
        /\ \A i \in 1 .. U + R - (p + 1) + 1 : z[i] = y[p + 1 + i - 1]
    BY <1>1, <2>1, SubSeqProperties
  <2> HIDE DEF z
  <2> QED  BY <1>1, <2>2
<1> HIDE DEF x, y, z
<1>5. /\ x \o r \in Seq(S) /\ Len(x \o r) = Len(x) + R
      /\ \A i \in 1 .. Len(x) + R : (x \o r)[i] = IF i <= Len(x) THEN x[i] ELSE r[i - Len(x)]
  BY <1>3, ConcatProperties
<1> HIDE DEF U, R
<1>6. ASSUME NEW i \in 1 .. U + R - p PROVE (x \o r)[i] = z[i]
  <2>1. i \in Nat /\ i >= 1 /\ p + i \in 1 .. U + R
    BY <1>1
  <2>2. CASE i <= U - p
    <3>1. (x \o r)[i] = x[i] /\ z[i] = y[p + i] /\ x[i] = u[p + i] /\ y[p + i] = u[p + i]
      BY <2>1, <2>2, <1>1, <1>2, <1>3, <1>4, <1>5
    <3> QED  BY <3>1
  <2>3. CASE i > U - p
    <3>1. i - (U - p) = p + i - U /\ ~(p + i <= U) /\ ~(i <= Len(x)) /\ i \in 1 .. Len(x) + R
      BY ONLY <1>1, <1>3, <2>1, <2>3, p \in Nat
    <3>2. (x \o r)[i] = r[i - (U - p)]
      BY ONLY <3>1, <1>3, <1>5
    <3>3. z[i] = y[p + i]
      BY <1>4
    <3>4. y[p + i] = r[p + i - U]
      <4> DEFINE k == p + i
      <4>1. k \in 1 .. U + R /\ ~(k <= U)
        BY ONLY <3>1, <2>1
      <4>3. k = p + i /\ k - U = p + i - U
        BY ONLY <1>1, <2>1, p \in Nat
      <4> HIDE DEF k
      <4>2. y[k] = r[k - U]
        BY ONLY <4>1, <1>2
      <4> QED  BY ONLY <4>2, <4>3
    <3> QED  BY ONLY <3>1, <3>2, <3>3, <3>4
  <2>4. i <= U - p \/ i > U - p
    BY ONLY <1>1, <2>1, p \in Nat
  <2> QED  BY ONLY <2>2, <2>3, <2>4
<1>7. Len(x \o r) = Len(z) /\ Len(z) = U + R - p
  BY <1>1, <1>3, <1>4, <1>5
<1>8. x \o r = z
  BY <1>4, <1>5, <1>6, <1>7, SeqEqual
<1> QED  BY <1>2, <1>8 DEF x, y, z, U, R

\* The bytes that are parsed are the first of those in the buffer.
LEMMA UnparsedParsed ==
    ASSUME ParserTypeOK, ParserTypeOK', count <= BufSize, NEW p \in Nat, p \in 1 .. count,
           index' = Wrapped(index + p), count' = count - p, buffer' = buffer
    PROVE  Unparsed' = SubSeq(Unparsed, p + 1, count)
<1> DEFINE u == Unparsed
           v == Unparsed'
           x == SubSeq(u, p + 1, count)
<1>0. /\ BufSize \in Nat /\ BufSize > 0 /\ index \in Nat /\ index < BufSize /\ count \in Nat
      /\ count' \in Nat /\ index' \in Nat /\ index' < BufSize
  BY Sizes DEF ParserTypeOK
<1>1. u \in Seq(Bytes) /\ Len(u) = count
      /\ \A i \in 1 .. count : u[i] = buffer[(index + i - 1) % BufSize] /\ u[i] \in Bytes
  <2>1. u \in Seq(Bytes) /\ Len(u) = count /\ \A i \in 1 .. count : u[i] = buffer[(index + i - 1) % BufSize]
    BY UnparsedIs
  <2> QED  BY <2>1
<1>2. v \in Seq(Bytes) /\ Len(v) = count' /\ \A i \in 1 .. count' : v[i] = buffer'[(index' + i - 1) % BufSize]
  <2>1. v \in Seq(Bytes)
    <3>1. ParserTypeOK' => (Unparsed \in Seq(Bytes))'
      BY UnparsedType, PTL
    <3> QED  BY <3>1
  <2>2. v = [i \in 1 .. count' |-> buffer'[(index' + i - 1) % BufSize]]
    BY DEF Unparsed
  <2> HIDE DEF v
  <2> QED  BY <2>1, <2>2, <1>0
<1> HIDE DEF u, v
<1>3. x \in Seq(Bytes) /\ Len(x) = count - p /\ \A i \in 1 .. count - p : x[i] = u[p + i]
  <2>1. \A i \in p + 1 .. count : u[i] \in Bytes
    BY <1>0, <1>1
  <2>2. /\ x \in Seq(Bytes) /\ Len(x) = IF p + 1 <= count THEN count - (p + 1) + 1 ELSE 0
        /\ \A i \in 1 .. count - (p + 1) + 1 : x[i] = u[p + 1 + i - 1]
    BY <1>0, <2>1, SubSeqProperties
  <2> HIDE DEF x
  <2> QED  BY <1>0, <2>2
<1> HIDE DEF x
<1>4. ASSUME NEW i \in 1 .. count - p PROVE v[i] = x[i]
  <2>1. v[i] = buffer[(index' + i - 1) % BufSize] /\ x[i] = buffer[(index + (p + i) - 1) % BufSize]
    <3>1. p + i \in 1 .. count /\ i \in 1 .. count' /\ i \in Nat
      BY ONLY <1>0, p \in Nat, p \in 1 .. count, i \in 1 .. count - p, count' = count - p
    <3>2. v[i] = buffer[(index' + i - 1) % BufSize]
      BY <3>1, <1>2
    <3>3. x[i] = u[p + i]
      BY <1>3
    <3>4. u[p + i] = buffer[(index + (p + i) - 1) % BufSize]
      BY ONLY <3>1, <1>1
    <3> QED  BY ONLY <3>2, <3>3, <3>4
  <2>i. i \in Nat /\ i >= 1 /\ i <= count - p
    BY <1>0
  <2>2. index' = IF index + p < BufSize THEN index + p ELSE index + p - BufSize
    BY <1>0, WrapIs DEF Wrapped
  <2> DEFINE a == index' + i - 1
             z == index + (p + i) - 1
  <2>3. a \in Nat /\ a < 2 * BufSize /\ z \in Nat /\ z < 2 * BufSize
    BY <1>0, <2>i
  <2>5. a = index' + i - 1 /\ z = index + (p + i) - 1
    OBVIOUS
  <2> HIDE DEF a, z
  <2>6. a % BufSize = IF a < BufSize THEN a ELSE a - BufSize
    BY <2>3, WrapIs
  <2>7. z % BufSize = IF z < BufSize THEN z ELSE z - BufSize
    BY <2>3, WrapIs
  <2>8. (IF a < BufSize THEN a ELSE a - BufSize) = (IF z < BufSize THEN z ELSE z - BufSize)
    BY ONLY <1>0, <2>2, <2>3, <2>5, <2>i, p \in Nat, p \in 1 .. count, count <= BufSize
  <2>9. a % BufSize = z % BufSize
    BY ONLY <2>6, <2>7, <2>8
  <2> QED  BY <2>1, <2>9 DEF a, z
<1>5. v = x
  BY <1>0, <1>2, <1>3, <1>4, SeqEqual
<1> QED  BY <1>5 DEF u, v, x

\* What is parsed leaves the line at its front.
LEMMA LineParsed ==
    ASSUME ParserTypeOK, ParserTypeOK', LineInv, Alone, NEW p \in Nat, p \in 1 .. count,
           index' = Wrapped(index + p), count' = count - p, buffer' = buffer,
           connection' = connection, wire' = wire, pending' = pending
    PROVE  InLine' = SubSeq(InLine, p + 1, Len(InLine))
<1>1. Unparsed \in Seq(Bytes) /\ Len(Unparsed) = count
  BY UnparsedIs
<1>2. wire \o Pending \in Seq(Bytes)
  <2>1. wire \in Seq(Bytes) /\ Pending \in Seq(Bytes)
    BY PendingIs DEF ParserTypeOK
  <2> QED  BY ONLY <2>1, ConcatProperties
<1>3. Unparsed' = SubSeq(Unparsed, p + 1, count)
  BY UnparsedParsed DEF LineInv
<1>4. Pending' = Pending
  BY PendingKept
<1>5. SubSeq(Unparsed, p + 1, Len(Unparsed)) \o (wire \o Pending) =
         SubSeq(Unparsed \o (wire \o Pending), p + 1, Len(Unparsed \o (wire \o Pending)))
  BY <1>1, <1>2, FrontDropped
<1> QED  BY <1>1, <1>3, <1>4, <1>5 DEF InLine

\* A call of the parser keeps the labels: it passes the cells of one message.
LEMMA ParseHolds ==
    ASSUME ParserTypeOK, StreamInv, Orderly, Parse
    PROVE  StreamInv'
<1>1. PICK cells : Labels(cells)
  BY DEF StreamInv
<1>0. Alone /\ LineInv /\ GotInv /\ connection \in Connections /\ count \in Nat
  BY DEF Orderly, StreamInv, ParserTypeOK
<1>2. PICK p \in Nat :
         /\ p \in 1 .. count /\ p = Step.parsed /\ count > 0 /\ count' = count - p /\ p > 0
         /\ index' = Wrapped(index + p)
         /\ Step.message \in Seq(Bytes) /\ last' = Step.last
         /\ got' = (IF Step.message = <<>> THEN got ELSE Append(got, Step.message))
  BY StepIs, <1>0 DEF Parse
<1>c. /\ connection' = connection /\ wire' = wire /\ closed' = closed /\ buffer' = buffer /\ at' = at
      /\ pending' = pending /\ status' = status /\ sent' = sent
  BY DEF Parse, writing
<1> DEFINE c == cells[1]
           m == c.m
           k == End(m) - c.j + 1
           next == c.j + p
<1>3. /\ cells # <<>> /\ cells \in Seq(Cell) /\ Len(cells) >= count
      /\ c \in Cell /\ k \in 1 .. Len(cells)
      /\ \A i \in 1 .. k : cells[i].n = c.n /\ cells[i].m = m /\ cells[i].j = c.j + i - 1
      /\ p \in 1 .. k
      /\ Step.message = IF c.j <= 2 /\ next > 2 /\ Ours(m) THEN m ELSE <<>>
      /\ next = 2 => last' = Head(m)
      /\ next > 2 /\ Head(m) = System /\ next <= Len(m) => ~Ours(m) /\ last' = None
      /\ next > 2 /\ Head(m) # System => next = End(m) + 1 /\ last' = Head(m)
  <2>1. p = Step.parsed /\ ~(p = 0) /\ last' = Step.last
    BY <1>2
  <2> QED  BY <1>0, <1>1, <1>2, <2>1, StepOnLine
<1>4. /\ WellFormed(m) /\ c.n \in Nat /\ c.j \in Nat /\ c.j >= 1 /\ Len(m) \in Nat /\ End(m) \in Nat
      /\ Len(m) >= 2 /\ m # <<>> /\ Len(cells) \in Nat
      /\ End(m) = IF Head(m) = System THEN Len(m) + 1 ELSE Len(m)
  <2>1. WellFormed(m) /\ c.n \in Nat /\ c.j \in Nat /\ c.j >= 1
    BY <1>0, <1>3, CellIs
  <2>2. m \in Seq(Bytes) /\ Len(m) \in Nat /\ Len(m) >= 2
    BY <2>1, MessageShape
  <2> QED  BY <2>1, <2>2, <1>3, EndIs DEF End
<1>t. c.j \in Nat /\ c.n \in Nat /\ End(m) \in Nat /\ Len(m) \in Nat /\ Len(cells) \in Nat /\ Len(m) >= 2
      /\ p \in Nat /\ p >= 1 /\ c.j >= 1 /\ End(m) >= Len(m)
  BY <1>0, <1>2, <1>4
<1>5. Expects(c, last, Len(got)) /\ Genuine(c)
  <2>1. 1 \in 1 .. Len(cells)
    BY <1>3, <1>4
  <2> QED  BY <2>1, <1>1, <1>3 DEF Labels
<1>m. m = c.m
  OBVIOUS
<1> HIDE DEF c, m, k
<1>6. Len(got') = IF next <= 2 THEN Before(c) ELSE c.n
  <2>0. Len(got) \in Nat /\ got \in Seq(Seq(Bytes))
    BY DEF ParserTypeOK
  <2>1. Len(got) = IF c.j <= 2 THEN Before(c) ELSE c.n
    BY <1>5, <1>4 DEF Expects
  <2>2. Len(got') = IF Step.message = <<>> THEN Len(got) ELSE Len(got) + 1
    BY <2>0, <1>2
  <2>3. CASE c.j <= 2 /\ next > 2 /\ Ours(m)
    <3>1. Step.message # <<>> /\ Before(c) = c.n - 1
      BY <2>3, <1>3, <1>4, <1>m DEF Before
    <3>2. Len(got') = c.n
      BY <3>1, <2>0, <2>1, <2>2, <2>3, <1>4
    <3>3. ~(next <= 2)
      BY <2>3, <1>2, <1>4
    <3> QED  BY <3>2, <3>3
  <2>4. CASE c.j <= 2 /\ next > 2 /\ ~Ours(m)
    BY <2>0, <2>1, <2>2, <2>4, <1>3, <1>4, <1>m DEF Before
  <2>5. CASE c.j <= 2 /\ next <= 2
    <3>1. ~(next > 2)
      BY <2>5, <1>t
    <3>2. Step.message = <<>>
      BY <3>1, <1>3
    <3> QED  BY ONLY <3>2, <2>1, <2>2, <2>5
  <2>6. CASE c.j > 2
    <3>1. ~(c.j <= 2) /\ ~(next <= 2)
      BY <2>6, <1>t
    <3>2. Step.message = <<>>
      BY <3>1, <1>3
    <3> QED  BY ONLY <3>1, <3>2, <2>1, <2>2
  <2> QED  BY <2>3, <2>4, <2>5, <2>6, <1>2, <1>4
<1>7. GotInv'
  <2>1. CASE Step.message = <<>>
    BY <2>1, <1>0, <1>2, <1>c DEF GotInv
  <2>2. CASE Step.message # <<>>
    <3>1. c.j <= 2 /\ Ours(m) /\ Step.message = m /\ Len(got) = c.n - 1
      BY <2>2, <1>3, <1>5, <1>m DEF Expects, Before
    <3>2. c.n >= 1 /\ sent[c.n] = m /\ c.n <= Len(sent)
      BY <3>1, <1>5, <1>m DEF Genuine
    <3>3. got' = Append(got, m) /\ got \in Seq(Seq(Bytes)) /\ m \in Seq(Bytes)
      BY <2>2, <3>1, <1>2 DEF ParserTypeOK
    <3>4. Len(got') = Len(got) + 1 /\ \A i \in 1 .. Len(got) + 1 : got'[i] =
          IF i <= Len(got) THEN got[i] ELSE m
      BY <3>3, AppendProperties
    <3>5. \A i \in 1 .. Len(got) : got[i] = sent[i]
      BY <1>0 DEF GotInv
    <3>6. Len(got') = c.n
      BY <3>1, <3>4, <1>4
    <3>7. ASSUME NEW i \in 1 .. Len(got') PROVE got'[i] = sent[i]
      <4>1. CASE i = c.n
        <5>1. Len(got) \in Nat /\ i \in 1 .. Len(got) + 1 /\ ~(i <= Len(got))
          BY <4>1, <3>1, <3>4, <3>6, <1>4
        <5> QED  BY <5>1, <4>1, <3>2, <3>4
      <4>2. CASE i < c.n
        <5>1. Len(got) \in Nat /\ i \in 1 .. Len(got) /\ i \in 1 .. Len(got) + 1 /\ i <= Len(got)
          BY <4>2, <3>1, <3>6, <1>4
        <5>2. got'[i] = got[i]
          BY ONLY <5>1, <3>4
        <5> QED  BY ONLY <5>1, <5>2, <3>5
      <4> QED  BY <4>1, <4>2, <3>6, <1>4
    <3> QED  BY <3>2, <3>6, <3>7, <1>c DEF GotInv
  <2> QED  BY <2>1, <2>2
<1>8. LineInv'
  <2>1. count' <= BufSize /\ Senders' = Senders /\ Gui' = Gui
    BY <1>0, <1>2, <1>c, Sizes DEF LineInv, Senders, Gui
  <2> QED  BY <2>1, <1>0, <1>c DEF LineInv
<1>9. InLine' = SubSeq(InLine, p + 1, Len(InLine)) /\ InLine \in Seq(Bytes)
  <2>1. ParserTypeOK'
    <3>1. [ParserNext]_parserVars
      BY DEF ParserNext
    <3> QED  BY <3>1, ParserTypeStep
  <2> QED  BY <2>1, <1>0, <1>2, <1>c, LineParsed, PendingIs
<1> DEFINE e == cells[p]
<1>10. p \in 1 .. Len(cells) /\ e.n = c.n /\ e.m = m /\ e.j = next - 1
  <2>1. p \in 1 .. k /\ p \in Nat /\ k \in Nat
    BY <1>2, <1>3, <1>4
  <2>2. cells[p].n = c.n /\ cells[p].m = m /\ cells[p].j = c.j + p - 1
    BY <2>1, <1>3
  <2>3. c.j + p - 1 = next - 1
    BY ONLY <1>t
  <2>4. p \in 1 .. Len(cells)
    BY <2>1, <1>3, <1>4
  <2> QED  BY <2>2, <2>3, <2>4
<1>n. next \in Nat /\ next - 1 <= End(m)
  <2>1. p <= End(m) - c.j + 1 /\ p \in Nat
    BY <1>3, <1>t DEF k
  <2> QED  BY ONLY <2>1, <1>t
<1>11. ASSUME p < Len(cells) PROVE Expects(cells[p + 1], last', Len(got'))
  <2> DEFINE d == cells[p + 1]
  <2>0. d \in Cell /\ d.j \in Nat /\ d.j >= 1 /\ d.n \in Nat
    <3>1. p + 1 \in 1 .. Len(cells)
      BY <1>10, <1>11, <1>4
    <3>2. d \in Cell
      BY <3>1, <1>3
    <3> QED  BY <3>2, <1>0, CellIs
  <2>1. Follows(e, d)
    <3>1. p \in 1 .. Len(cells) - 1
      BY <1>10, <1>11, <1>4
    <3> QED  BY <3>1, <1>1 DEF Labels
  <2>2. CASE e.j < End(m)
    <3>1. d.n = c.n /\ d.m = m /\ d.j = next
      BY <2>1, <2>2, <1>2, <1>4, <1>10 DEF Follows
    <3>2. Before(d) = Before(c)
      BY <3>1, <1>m DEF Before
    <3>3. d.j <= 2 => Len(got') = Before(d)
      BY <3>1, <3>2, <1>6
    <3>4. d.j = 2 => last' = Head(m)
      BY <3>1, <1>3
    <3>5. d.j > 2 => Head(m) = System
      <4> SUFFICES ASSUME d.j > 2, Head(m) # System PROVE FALSE
        OBVIOUS
      <4>1. next = End(m) + 1
        BY <3>1, <1>3
      <4>2. ~(next - 1 < End(m))
        BY ONLY <4>1, <1>t
      <4> QED  BY <4>2, <2>2, <1>10
    <3>6. d.j > 2 => Len(got') = d.n /\ (d.j <= Len(m) => ~Ours(m) /\ last' = None)
      BY <3>1, <3>5, <1>2, <1>3, <1>4, <1>6
    <3> QED  BY <3>1, <3>3, <3>4, <3>5, <3>6 DEF Expects
  <2>3. CASE e.j = End(m)
    <3>1. Before(d) = c.n /\ (d.j = 1 \/ (d.j = 2 /\ Head(d.m) = Head(m) /\ Head(d.m) # System))
      BY <2>1, <2>3, <1>10, <1>4 DEF Follows
    <3>2. next > 2 /\ Len(got') = c.n
      BY <2>3, <1>4, <1>6, <1>10, <1>2
    <3>3. d.j = 2 => last' = Head(d.m)
      BY <3>1, <3>2, <1>3
    <3> QED  BY <3>1, <3>2, <3>3 DEF Expects
  <2>4. e.j < End(m) \/ e.j = End(m)
    BY ONLY <1>n, <1>t, <1>10
  <2> QED  BY <2>2, <2>3, <2>4
<1>12. ASSUME p = Len(cells) PROVE Len(got') = Len(sent) /\ (status # None => last' = status)
  <2>1. Finishes(e)
    BY <1>12, <1>1, <1>3 DEF Labels
  <2>2. e.j = End(m) /\ c.n = Len(sent) /\ status = IF Head(m) = System THEN None ELSE Head(m)
    BY <2>1, <1>10 DEF Finishes
  <2>3. next > 2 /\ Len(got') = c.n
    <3>1. next = End(m) + 1
      BY ONLY <2>2, <1>n, <1>t, <1>10
    <3>2. next > 2
      BY ONLY <3>1, <1>t
    <3> QED  BY <3>2, <2>2, <1>n, <1>6
  <2> QED  BY <2>2, <2>3, <1>3
<1>13. Labels(SubSeq(cells, p + 1, Len(cells)))'
  <2>1. p < Len(cells) => Expects(cells[p + 1], last', Len(got'))
    BY <1>11
  <2>2. p = Len(cells) => Len(got') = Len(sent) /\ (status # None => last' = status)
    BY <1>12
  <2>3. p \in 1 .. Len(cells)
    BY <1>10
  <2> HIDE DEF next, c, m, k, e
  <2> QED  BY ONLY <2>1, <2>2, <2>3, <1>1, <1>9, <1>c, ParserTypeOK, LabelsDropped
<1> QED  BY <1>7, <1>8, <1>13 DEF StreamInv

\* The bytes that are read come behind those in the buffer.
LEMMA UnparsedRead ==
    ASSUME ParserTypeOK, ParserTypeOK', NEW n \in Nat, n \in 1 .. Len(wire),
           count + n <= BufSize, Offset + n <= BufSize, index' = index, count' = count + n,
           \A k \in 1 .. n : buffer'[Offset + k - 1] = wire[k],
           \A i \in 0 .. BufSize - 1 : i < Offset \/ i >= Offset + n => buffer'[i] = buffer[i]
    PROVE  Unparsed' = Unparsed \o SubSeq(wire, 1, n)
<1> DEFINE u == Unparsed
           v == Unparsed'
           f == SubSeq(wire, 1, n)
           x == u \o f
           off == Offset
<1>0. /\ BufSize \in Nat /\ BufSize > 0 /\ index \in Nat /\ index < BufSize /\ count \in Nat
      /\ wire \in Seq(Bytes) /\ Len(wire) \in Nat
  BY Sizes DEF ParserTypeOK
<1>1. u \in Seq(Bytes) /\ Len(u) = count /\ \A i \in 1 .. count : u[i] = buffer[(index + i - 1) % BufSize]
  BY UnparsedIs
<1>2. v \in Seq(Bytes) /\ Len(v) = count + n
      /\ \A i \in 1 .. count + n : v[i] = buffer'[(index + i - 1) % BufSize]
  <2>1. v \in Seq(Bytes)
    <3>1. ParserTypeOK' => (Unparsed \in Seq(Bytes))'
      BY UnparsedType, PTL
    <3> QED  BY <3>1
  <2>2. v = [i \in 1 .. count + n |-> buffer'[(index + i - 1) % BufSize]]
    BY DEF Unparsed
  <2>3. count + n \in Nat
    BY ONLY <1>0, n \in Nat
  <2> HIDE DEF v
  <2> QED  BY ONLY <2>1, <2>2, <2>3
<1>3. f \in Seq(Bytes) /\ Len(f) = n /\ \A k \in 1 .. n : f[k] = wire[k]
  <2>1. \A i \in 1 .. n : wire[i] \in Bytes
    BY <1>0
  <2>2. /\ f \in Seq(Bytes) /\ Len(f) = IF 1 <= n THEN n - 1 + 1 ELSE 0
        /\ \A i \in 1 .. n - 1 + 1 : f[i] = wire[1 + i - 1]
    BY <1>0, <2>1, SubSeqProperties
  <2> HIDE DEF f
  <2> QED  BY <1>0, <2>2
<1> HIDE DEF u, v, f
<1>4. x \in Seq(Bytes) /\ Len(x) = count + n /\ \A i \in 1 .. count + n : x[i] =
      IF i <= count THEN u[i] ELSE f[i - count]
  BY <1>1, <1>3, ConcatProperties
<1> HIDE DEF x
<1>5. off \in Nat /\ off = IF index + count < BufSize THEN index + count ELSE index + count - BufSize
  <2> DEFINE s == index + count
  <2>1. s \in Nat /\ s < 2 * BufSize /\ off = s % BufSize
    <3>1. s \in Nat /\ s < 2 * BufSize
      BY ONLY <1>0, n \in Nat, count + n <= BufSize
    <3> QED  BY <3>1 DEF Offset, Wrapped
  <2>2. off = IF s < BufSize THEN s ELSE s - BufSize
    <3> HIDE DEF s, off
    <3> QED  BY ONLY <2>1, WrapIs
  <2> QED  BY ONLY <2>1, <2>2, <1>0
<1>o. off + n <= BufSize /\ (\A k \in 1 .. n : buffer'[off + k - 1] = wire[k])
      /\ (\A i \in 0 .. BufSize - 1 : i < off \/ i >= off + n => buffer'[i] = buffer[i])
  OBVIOUS
<1> HIDE DEF off
<1>6. ASSUME NEW i \in Nat, i \in 1 .. count + n PROVE v[i] = x[i]
  <2> DEFINE a == index + i - 1
             at_ == a % BufSize
  <2>1. a \in Nat /\ a < 2 * BufSize /\ a = index + i - 1
    BY ONLY <1>0, n \in Nat, count + n <= BufSize, i \in Nat, i \in 1 .. count + n
  <2> HIDE DEF a
  <2>2. at_ = IF a < BufSize THEN a ELSE a - BufSize
    BY <2>1, WrapIs
  <2> HIDE DEF at_
  <2>3. v[i] = buffer'[at_]
    BY ONLY <1>2, i \in 1 .. count + n DEF at_, a
  <2>4. CASE i <= count
    <3>1. at_ \in 0 .. BufSize - 1 /\ (at_ < off \/ at_ >= off + n)
      BY ONLY <1>0, <1>5, <1>o, <2>1, <2>2, <2>4, n \in Nat, count + n <= BufSize, i \in Nat,
              i \in 1 .. count + n
    <3>2. buffer'[at_] = buffer[at_]
      BY ONLY <3>1, <1>o
    <3>3. x[i] = u[i] /\ i \in 1 .. count
      BY ONLY <2>4, <1>0, <1>4, i \in Nat, i \in 1 .. count + n
    <3>4. u[i] = buffer[at_]
      BY ONLY <3>3, <1>1 DEF at_, a
    <3> QED  BY ONLY <2>3, <3>2, <3>3, <3>4
  <2>5. CASE i > count
    <3>1. i - count \in 1 .. n /\ at_ = off + (i - count) - 1 /\ ~(i <= count)
      BY ONLY <1>0, <1>5, <1>o, <2>1, <2>2, <2>5, n \in Nat, count + n <= BufSize, i \in Nat,
              i \in 1 .. count + n
    <3>2. buffer'[at_] = wire[i - count]
      BY ONLY <3>1, <1>o
    <3>3. x[i] = f[i - count]
      BY ONLY <3>1, <1>4, i \in 1 .. count + n
    <3>4. f[i - count] = wire[i - count]
      BY ONLY <3>1, <1>3
    <3> QED  BY ONLY <2>3, <3>2, <3>3, <3>4
  <2> QED  BY <2>4, <2>5, <1>0
<1>7. v = x
  <2>1. \A i \in 1 .. Len(v) : v[i] = x[i]
    BY <1>0, <1>2, <1>6
  <2>2. Len(v) = Len(x)
    BY <1>2, <1>4
  <2> QED  BY <2>1, <2>2, <1>2, <1>4, SeqEqual
<1> QED  BY <1>7 DEF v, x, u, f

\* What is read stays in line.
LEMMA LineRead ==
    ASSUME ParserTypeOK, ParserTypeOK', LineInv, Alone, NEW n \in Nat, n \in 1 .. Len(wire),
           count + n <= BufSize, Offset + n <= BufSize, index' = index, count' = count + n,
           \A k \in 1 .. n : buffer'[Offset + k - 1] = wire[k],
           \A i \in 0 .. BufSize - 1 : i < Offset \/ i >= Offset + n => buffer'[i] = buffer[i],
           wire' = SubSeq(wire, n + 1, Len(wire)), connection' = connection, pending' = pending
    PROVE  InLine' = InLine
<1> DEFINE u == Unparsed
           f == SubSeq(wire, 1, n)
           t == SubSeq(wire, n + 1, Len(wire))
           p == Pending
<1>0. wire \in Seq(Bytes) /\ Len(wire) \in Nat /\ \A i \in 1 .. Len(wire) : wire[i] \in Bytes
  BY DEF ParserTypeOK
<1>1. u \in Seq(Bytes) /\ p \in Seq(Bytes)
  BY UnparsedIs, PendingIs
<1>2. f \in Seq(Bytes) /\ t \in Seq(Bytes) /\ f \o t = wire
  <2>1. f \in Seq(Bytes)
    <3>1. \A i \in 1 .. n : wire[i] \in Bytes
      BY <1>0
    <3> QED  BY <3>1, SubSeqProperties
  <2>2. t \in Seq(Bytes)
    <3>1. \A i \in n + 1 .. Len(wire) : wire[i] \in Bytes
      BY <1>0
    <3> QED  BY <3>1, <1>0, SubSeqProperties
  <2>3. f \o t = SubSeq(wire, 1, Len(wire))
    <3>1. 1 \in 1 .. Len(wire) + 1 /\ n \in 1 - 1 .. Len(wire) /\ Len(wire) \in n .. Len(wire)
      BY <1>0
    <3> QED  BY <3>1, <1>0, ConcatAdjacentSubSeq
  <2>4. SubSeq(wire, 1, Len(wire)) = wire
    BY <1>0
  <2> QED  BY <2>1, <2>2, <2>3, <2>4
<1>3. Unparsed' = u \o f
  BY UnparsedRead
<1>4. Pending' = p
  BY PendingKept
<1>5. InLine' = (u \o f) \o (t \o p)
  BY <1>3, <1>4 DEF InLine
<1>6. InLine = u \o ((f \o t) \o p)
  BY <1>2 DEF InLine
<1> HIDE DEF u, f, t, p
<1>7. t \o p \in Seq(Bytes)
  BY ONLY <1>1, <1>2, ConcatProperties
<1>t. u \in Seq(Bytes) /\ f \in Seq(Bytes) /\ t \in Seq(Bytes) /\ p \in Seq(Bytes)
  BY ONLY <1>1, <1>2
<1>8. (u \o f) \o (t \o p) = u \o (f \o (t \o p))
  <2> DEFINE z == t \o p
  <2>1. z \in Seq(Bytes)
    BY ONLY <1>7
  <2> HIDE DEF z
  <2>3. u \in Seq(Bytes) /\ f \in Seq(Bytes) /\ z \in Seq(Bytes)
    BY ONLY <1>t, <2>1
  <2>2. (u \o f) \o z = u \o (f \o z)
    BY ONLY <2>3, ConcatAssociative
  <2> QED  BY ONLY <2>2 DEF z
<1>9. (f \o t) \o p = f \o (t \o p)
  <2>1. f \in Seq(Bytes) /\ t \in Seq(Bytes) /\ p \in Seq(Bytes)
    BY ONLY <1>t
  <2> QED  BY ONLY <2>1, ConcatAssociative
<1> QED  BY ONLY <1>5, <1>6, <1>8, <1>9

-----------------------------------------------------------------------------
\* The pieces of a message make the message.
LEMMA PiecesJoined ==
    ASSUME NEW m, WellFormed(m)
    PROVE  /\ Joined(Pieces(m)) = IF Head(m) = System THEN m \o <<Eos>> ELSE m
           /\ Joined(<<Tail(m)>>) = Tail(m)
<1> DEFINE rest == Tail(m)
           B == Seq(Bytes)
<1>1. m \in B /\ Len(m) >= 2 /\ Len(m) \in Nat /\ m # <<>> /\ Head(m) = m[1] /\ Head(m) \in Bytes
  <2>1. m \in Seq(Bytes) /\ Len(m) >= 2 /\ Len(m) \in Nat /\ Head(m) = m[1]
    BY MessageShape
  <2> QED  BY <2>1
<1>2. rest \in B /\ Len(rest) \in Nat /\ <<Head(m)>> \in B /\ <<Eos>> \in B /\ rest # <<>>
      /\ Len(rest) = Len(m) - 1
      /\ \A i \in 1 .. Len(m) - 1 : rest[i] = m[i + 1]
  <2>1. rest \in B /\ Len(rest) = Len(m) - 1 /\ \A i \in 1 .. Len(m) - 1 : rest[i] = m[i + 1]
    BY <1>1, HeadTailProperties
  <2>2. <<Head(m)>> \in B /\ <<Eos>> \in B
    BY <1>1, StatusIs
  <2>3. Len(rest) \in Nat /\ rest # <<>>
    <3> HIDE DEF rest, B
    <3>1. Len(rest) \in Nat /\ Len(rest) > 0
      BY ONLY <2>1, <1>1
    <3> QED  BY ONLY <3>1, Len(<<>>) = 0
  <2> HIDE DEF rest, B
  <2> QED  BY ONLY <2>1, <2>2, <2>3
<1>3. <<Head(m)>> \o rest = m
  <2> DEFINE h == <<Head(m)>>
  <2>1. h \in Seq(Bytes) /\ rest \in Seq(Bytes) /\ Len(h) = 1 /\ h[1] = m[1]
    BY <1>1, <1>2
  <2> HIDE DEF h, rest
  <2>2. /\ h \o rest \in Seq(Bytes) /\ Len(h \o rest) = Len(m)
        /\ \A i \in 1 .. Len(m) : (h \o rest)[i] = IF i <= 1 THEN h[i] ELSE rest[i - 1]
    <3>1. /\ h \o rest \in Seq(Bytes) /\ Len(h \o rest) = Len(h) + Len(rest)
          /\ \A i \in 1 .. Len(h) + Len(rest) : (h \o rest)[i] =
               IF i <= Len(h) THEN h[i] ELSE rest[i - Len(h)]
      BY ONLY <2>1, ConcatProperties
    <3>2. Len(h) + Len(rest) = Len(m)
      BY ONLY <2>1, <1>1, <1>2
    <3> QED  BY ONLY <2>1, <3>1, <3>2
  <2>3. \A i \in 1 .. Len(m) : (h \o rest)[i] = m[i]
    <3> SUFFICES ASSUME NEW i \in 1 .. Len(m) PROVE (h \o rest)[i] = m[i]
      OBVIOUS
    <3>1. CASE i = 1
      BY ONLY <3>1, <2>1, <2>2, i \in 1 .. Len(m)
    <3>2. CASE i > 1
      <4>1. ~(i <= 1) /\ i - 1 \in 1 .. Len(m) - 1 /\ i - 1 + 1 = i
        BY ONLY <3>2, <1>1, i \in 1 .. Len(m)
      <4>2. (h \o rest)[i] = rest[i - 1]
        BY ONLY <4>1, <2>2, i \in 1 .. Len(m)
      <4>3. rest[i - 1] = m[i - 1 + 1]
        BY ONLY <4>1, <1>2
      <4> QED  BY ONLY <4>1, <4>2, <4>3
    <3>3. i = 1 \/ i > 1
      BY ONLY <1>1, i \in 1 .. Len(m)
    <3> QED  BY ONLY <3>1, <3>2, <3>3
  <2>4. m \in Seq(Bytes) /\ Len(h \o rest) = Len(m)
    BY ONLY <1>1, <2>2
  <2>5. h \o rest = m
    BY ONLY <2>2, <2>3, <2>4, SeqEqual
  <2> QED  BY <2>5 DEF h
<1>4. Joined(<<rest>>) = rest
  <2>1. Len(<<rest>>) = 1 /\ <<rest>>[1] = rest
    OBVIOUS
  <2> QED  BY ONLY <2>1, JoinedCases
<1>5. HeaderLen \in Nat
  BY Sizes
<1>a. CASE Head(m) # System
  <2> DEFINE ps == <<<<Head(m)>>, rest>>
  <2>1. Pieces(m) = ps /\ Len(ps) = 2 /\ ps[1] = <<Head(m)>> /\ ps[2] = rest
    BY <1>a DEF Pieces
  <2> HIDE DEF ps
  <2>2. Joined(ps) = ps[1] \o ps[2]
    BY ONLY <2>1, JoinedCases
  <2> QED  BY ONLY <2>1, <2>2, <1>a, <1>3, <1>4 DEF rest
<1>b. CASE Head(m) = System /\ Len(rest) <= HeaderLen
  <2> DEFINE ps == <<<<System>>, rest, <<Eos>>>>
  <2>1. Pieces(m) = ps /\ Len(ps) = 3 /\ ps[1] = <<Head(m)>> /\ ps[2] = rest /\ ps[3] = <<Eos>>
    BY <1>b DEF Pieces
  <2> HIDE DEF ps
  <2>2. Joined(ps) = ps[1] \o (ps[2] \o ps[3])
    BY ONLY <2>1, JoinedCases
  <2>3. <<Head(m)>> \o (rest \o <<Eos>>) = (<<Head(m)>> \o rest) \o <<Eos>>
    <3> DEFINE h == <<Head(m)>>
               z == <<Eos>>
    <3>1. h \in Seq(Bytes) /\ rest \in Seq(Bytes) /\ z \in Seq(Bytes)
      BY ONLY <1>2
    <3> HIDE DEF h, z, rest
    <3>2. (h \o rest) \o z = h \o (rest \o z)
      BY ONLY <3>1, ConcatAssociative
    <3> QED  BY ONLY <3>2 DEF h, z
  <2>4. Joined(Pieces(m)) = m \o <<Eos>>
    <3> HIDE DEF rest
    <3> QED  BY ONLY <2>1, <2>2, <2>3, <1>3
  <2> QED  BY ONLY <2>4, <1>b, <1>4 DEF rest
<1>c. CASE Head(m) = System /\ ~(Len(rest) <= HeaderLen)
  <2> DEFINE a == SubSeq(rest, 1, HeaderLen)
             b == SubSeq(rest, HeaderLen + 1, Len(rest))
             ps == <<<<System>>, a, b, <<Eos>>>>
  <2>1. Pieces(m) = ps /\ Len(ps) = 4 /\ ps[1] = <<Head(m)>> /\ ps[2] = a /\ ps[3] = b /\ ps[4] = <<Eos>>
    <3>1. Pieces(m) = ps
      BY <1>c, StatusIs DEF Pieces
    <3> HIDE DEF a, b
    <3> QED  BY <3>1, <1>c
  <2>2. a \in Seq(Bytes) /\ b \in Seq(Bytes) /\ a \o b = rest
    <3> HIDE DEF rest
    <3>0. rest \in Seq(Bytes) /\ Len(rest) \in Nat /\ \A i \in 1 .. Len(rest) : rest[i] \in Bytes
      BY <1>2, ElementOfSeq
    <3>1. a \in Seq(Bytes)
      <4>1. \A i \in 1 .. HeaderLen : rest[i] \in Bytes
        BY <1>c, <1>5, <3>0
      <4> QED  BY <4>1, <1>5, SubSeqProperties
    <3>2. b \in Seq(Bytes)
      <4>1. \A i \in HeaderLen + 1 .. Len(rest) : rest[i] \in Bytes
        BY <1>c, <1>5, <3>0
      <4> QED  BY <4>1, <1>5, <3>0, SubSeqProperties
    <3>3. 1 \in 1 .. Len(rest) + 1 /\ HeaderLen \in 1 - 1 .. Len(rest) /\ Len(rest) \in HeaderLen .. Len(rest)
      BY <1>c, <1>5, <3>0
    <3>4. a \o b = SubSeq(rest, 1, Len(rest))
      BY ONLY <3>0, <3>3, ConcatAdjacentSubSeq
    <3>5. SubSeq(rest, 1, Len(rest)) = rest
      BY <3>0
    <3> QED  BY ONLY <3>1, <3>2, <3>4, <3>5
  <2> HIDE DEF ps, a, b
  <2>3. Joined(ps) = ps[1] \o (ps[2] \o (ps[3] \o ps[4]))
    BY ONLY <2>1, JoinedCases
  <2>4. <<Head(m)>> \o (a \o (b \o <<Eos>>)) = (<<Head(m)>> \o (a \o b)) \o <<Eos>>
    <3> DEFINE h == <<Head(m)>>
               z == <<Eos>>
               y == a \o b
    <3>1. h \in Seq(Bytes) /\ y \in Seq(Bytes) /\ z \in Seq(Bytes)
      BY ONLY <1>2, <2>2
    <3>4. a \in Seq(Bytes) /\ b \in Seq(Bytes) /\ z \in Seq(Bytes)
      BY ONLY <3>1, <2>2
    <3> HIDE DEF h, z
    <3>2. (a \o b) \o z = a \o (b \o z)
      BY ONLY <3>4, ConcatAssociative
    <3> HIDE DEF y
    <3>3. (h \o y) \o z = h \o (y \o z)
      BY ONLY <3>1, ConcatAssociative
    <3> QED  BY ONLY <3>2, <3>3 DEF h, z, y
  <2>5. Joined(Pieces(m)) = m \o <<Eos>>
    <3> HIDE DEF rest
    <3> QED  BY ONLY <2>1, <2>2, <2>3, <2>4, <1>3
  <2> QED  BY ONLY <2>5, <1>c, <1>4 DEF rest
<1> QED  BY <1>a, <1>b, <1>c

\* What the writer still has to write, byte by byte, when it starts a message.
LEMMA StartWrites ==
    ASSUME NEW m, WellFormed(m), NEW j \in {1, 2}, NEW ps,
           j = 1 => ps = Pieces(m), j = 2 => ps = <<Tail(m)>> /\ Head(m) # System
    PROVE  /\ Joined(ps) \in Seq(Bytes) /\ Len(Joined(ps)) = End(m) - j + 1
           /\ \A i \in 1 .. End(m) - j + 1 : Joined(ps)[i] = ByteAt(m, j + i - 1)
<1>1. m \in Seq(Bytes) /\ Len(m) >= 2 /\ Len(m) \in Nat /\ m # <<>>
  <2>1. m \in Seq(Bytes) /\ Len(m) >= 2 /\ Len(m) \in Nat
    BY MessageShape
  <2> QED  BY <2>1
<1>a. CASE j = 2
  <2>1. Joined(ps) = Tail(m) /\ End(m) = Len(m)
    BY <1>a, PiecesJoined DEF End
  <2>2. Tail(m) \in Seq(Bytes) /\ Len(Tail(m)) = Len(m) - 1
        /\ \A i \in 1 .. Len(m) - 1 : Tail(m)[i] = m[i + 1]
    BY <1>1, HeadTailProperties
  <2>3. \A i \in 1 .. Len(m) - 1 : m[i + 1] = ByteAt(m, 2 + i - 1)
    BY <1>1 DEF ByteAt
  <2> HIDE DEF Bytes
  <2> QED  BY ONLY <2>1, <2>2, <2>3, <1>1, <1>a
<1>b. CASE j = 1 /\ Head(m) # System
  <2>1. Joined(ps) = m /\ End(m) = Len(m)
    BY <1>b, PiecesJoined DEF End
  <2>2. \A i \in 1 .. Len(m) : m[i] = ByteAt(m, 1 + i - 1)
    BY <1>1 DEF ByteAt
  <2> QED  BY ONLY <2>1, <2>2, <1>1, <1>b
<1>c. CASE j = 1 /\ Head(m) = System
  <2> DEFINE e == <<Eos>>
  <2>1. Joined(ps) = m \o e /\ End(m) = Len(m) + 1
    BY <1>c, PiecesJoined DEF End
  <2>2. e \in Seq(Bytes) /\ Len(e) = 1 /\ e[1] = Eos
    BY StatusIs
  <2> HIDE DEF e
  <2>3. /\ m \o e \in Seq(Bytes) /\ Len(m \o e) = Len(m) + Len(e)
        /\ \A i \in 1 .. Len(m) + Len(e) : (m \o e)[i] = IF i <= Len(m) THEN m[i] ELSE e[i - Len(m)]
    BY ONLY <1>1, <2>2, ConcatProperties
  <2>4. ASSUME NEW i \in 1 .. Len(m) + 1 PROVE (m \o e)[i] = ByteAt(m, 1 + i - 1)
    <3>1. CASE i <= Len(m)
      <4>1. (m \o e)[i] = m[i] /\ 1 + i - 1 = i
        BY ONLY <3>1, <2>2, <2>3, <1>1, i \in 1 .. Len(m) + 1
      <4> QED  BY ONLY <3>1, <4>1 DEF ByteAt
    <3>2. CASE i = Len(m) + 1
      <4>1. (m \o e)[i] = e[1] /\ 1 + i - 1 = i /\ ~(i <= Len(m))
        BY ONLY <3>2, <2>2, <2>3, <1>1, i \in 1 .. Len(m) + 1
      <4> QED  BY ONLY <4>1, <2>2 DEF ByteAt
    <3>3. i <= Len(m) \/ i = Len(m) + 1
      BY ONLY <1>1, i \in 1 .. Len(m) + 1
    <3> QED  BY ONLY <3>1, <3>2, <3>3
  <2> QED  BY ONLY <1>1, <1>c, <2>1, <2>2, <2>3, <2>4
<1> QED  BY <1>a, <1>b, <1>c

\* A message that is started labels the bytes that are to be written.
LEMMA LabelsAppended ==
    ASSUME ParserTypeOK, NEW cells, Labels(cells), NEW m \in Sending, NEW j \in {1, 2}, NEW e \in Seq(Bytes),
           Len(e) = End(m) - j + 1, \A i \in 1 .. End(m) - j + 1 : e[i] = ByteAt(m, j + i - 1),
           InLine \in Seq(Bytes), InLine' = InLine \o e,
           j = 2 => status = Head(m) /\ Head(m) # System,
           status' = IF Head(m) = System THEN None ELSE Head(m),
           sent' = IF Ours(m) THEN Append(sent, m) ELSE sent,
           connection' = connection, last' = last, got' = got
    PROVE  \E new : Labels(new)'
<1>1. PICK N \in Nat : N = Len(sent')
  <2>1. m \in Seq(Bytes)
    <3>1. PICK w \in Senders : m \in connection.sends[w]
      BY DEF Sending
    <3> QED  BY <3>1, ConnectionIs, MessageShape DEF ParserTypeOK
  <2> QED  BY <2>1 DEF ParserTypeOK
<1>2. /\ WellFormed(m) /\ Len(m) \in Nat /\ Len(m) >= 2 /\ End(m) \in Nat /\ m \in Seq(Bytes)
      /\ Head(m) \in {System, One, Two} /\ End(m) >= Len(m)
  <2>1. PICK w \in Senders : m \in connection.sends[w]
    BY DEF Sending
  <2>2. WellFormed(m)
    BY <2>1, ConnectionIs DEF ParserTypeOK
  <2>3. m \in Seq(Bytes) /\ Head(m) \in {System, One, Two} /\ Len(m) \in Nat /\ Len(m) >= 2
    BY <2>2, MessageShape
  <2>4. End(m) \in {Len(m), Len(m) + 1}
    BY <2>2, EndIs
  <2> QED  BY <2>2, <2>3, <2>4
<1> DEFINE K == End(m) - j + 1
           t == [i \in 1 .. K |-> [n |-> N, m |-> m, j |-> j + i - 1]]
           L == Len(cells)
           new == cells \o t
<1>3. K \in Nat /\ K >= 1 /\ K = End(m) - j + 1 /\ (j = 1 \/ j = 2)
  BY <1>2
<1>4. t \in Seq(Cell) /\ Len(t) = K /\ \A i \in 1 .. K : t[i].n = N /\ t[i].m = m /\ t[i].j = j + i - 1
  <2>1. ASSUME NEW i \in 1 .. K PROVE [n |-> N, m |-> m, j |-> j + i - 1] \in Cell
    <3>1. j + i - 1 \in Nat \ {0}
      BY <1>3
    <3> QED  BY <3>1, <1>1 DEF Cell
  <2>2. \A i \in 1 .. K : t[i] = [n |-> N, m |-> m, j |-> j + i - 1]
    OBVIOUS
  <2>3. t \in [1 .. K -> Cell]
    BY <2>1
  <2>4. DOMAIN t = 1 .. K
    OBVIOUS
  <2> HIDE DEF t, K
  <2>5. t \in Seq(Cell)
    BY ONLY <2>3, <1>3
  <2>6. Len(t) = K
    BY ONLY <2>4, <2>5, <1>3
  <2> QED  BY ONLY <2>2, <2>5, <2>6
<1> HIDE DEF t, K
<1>5. cells \in Seq(Cell) /\ L \in Nat /\ L = Len(InLine)
  BY DEF Labels
<1>l. L = Len(cells)
  OBVIOUS
<1> HIDE DEF L
<1>6. /\ new \in Seq(Cell) /\ Len(new) = L + K
      /\ \A i \in 1 .. L + K : new[i] = IF i <= L THEN cells[i] ELSE t[i - L]
  <2>1. t \in Seq(Cell) /\ Len(t) = K /\ cells \in Seq(Cell) /\ L = Len(cells)
    BY ONLY <1>4, <1>5, <1>l
  <2> QED  BY ONLY <2>1, ConcatProperties
<1>7. /\ Len(InLine') = L + K
      /\ \A i \in 1 .. L + K : InLine'[i] = IF i <= L THEN InLine[i] ELSE e[i - L]
  <2>1. Len(e) = K
    BY DEF K
  <2>2. InLine \in Seq(Bytes) /\ e \in Seq(Bytes) /\ InLine' = InLine \o e
    OBVIOUS
  <2> QED  BY ONLY <1>5, <2>1, <2>2, ConcatProperties
<1>8. Cell' = Cell
  BY DEF Cell, Sending, Senders
<1>z. K \in Nat /\ K >= 1 /\ L \in Nat /\ End(m) \in Nat /\ j \in Nat /\ K = End(m) - j + 1
  BY <1>2, <1>3, <1>5
<1>v. Len(new) = L + K
  BY <1>6
<1> HIDE DEF new
<1>w. ASSUME NEW i \in 1 .. L + K, i > L PROVE new[i] = t[i - L]
  <2>1. ~(i <= L)
    BY ONLY <1>w, <1>z
  <2> QED  BY <2>1, <1>6
<1>9. \A c \in Cell : Genuine(c) => Genuine(c)'
  <2> SUFFICES ASSUME NEW c \in Cell, Genuine(c) PROVE Genuine(c)'
    OBVIOUS
  <2>1. sent \in Seq(Seq(Bytes)) /\ m \in Seq(Bytes) /\ c.n \in Nat
    BY <1>2 DEF ParserTypeOK, Cell
  <2>2. c.n <= Len(sent') /\ (c.n >= 1 => sent'[c.n] = sent[c.n])
    <3>1. c.n <= Len(sent)
      BY DEF Genuine
    <3>2. Len(Append(sent, m)) = Len(sent) + 1 /\ \A i \in 1 .. Len(sent) : Append(sent, m)[i] = sent[i]
      BY <2>1, AppendProperties
    <3> QED  BY <2>1, <3>1, <3>2
  <2> QED  BY <2>1, <2>2 DEF Genuine
<1>10. ASSUME NEW i \in 1 .. K PROVE Genuine(t[i])' /\ ByteOf(t[i]) = e[i]
  <2>1. t[i].n = N /\ t[i].m = m /\ t[i].j = j + i - 1
    BY <1>4
  <2>2. j + i - 1 <= End(m)
    BY <1>3, <1>2
  <2>3. Ours(m) => N >= 1 /\ sent'[N] = m
    <3>1. sent \in Seq(Seq(Bytes)) /\ m \in Seq(Bytes)
      BY <1>2 DEF ParserTypeOK
    <3>2. Ours(m) => sent' = Append(sent, m)
      OBVIOUS
    <3>3. Len(Append(sent, m)) = Len(sent) + 1 /\ Append(sent, m)[Len(sent) + 1] = m /\ Len(sent) \in Nat
      BY ONLY <3>1, AppendProperties
    <3> QED  BY ONLY <3>2, <3>3, <1>1
  <2>4. Genuine(t[i])'
    BY <2>1, <2>2, <2>3, <1>1 DEF Genuine
  <2>5. e[i] = ByteAt(m, j + i - 1)
    BY DEF K
  <2> QED  BY <2>1, <2>4, <2>5 DEF ByteOf
<1>11. ASSUME NEW i \in 1 .. L + K PROVE Genuine(new[i])' /\ InLine'[i] = ByteOf(new[i])
  <2>1. CASE i <= L
    <3>1. i \in 1 .. L /\ i \in 1 .. Len(cells)
      BY <2>1, <1>3, <1>5, <1>l
    <3>2. new[i] = cells[i] /\ InLine'[i] = InLine[i]
      BY <2>1, <1>6, <1>7
    <3>3. Genuine(cells[i]) /\ InLine[i] = ByteOf(cells[i]) /\ cells[i] \in Cell
      BY <3>1, <1>5 DEF Labels
    <3> QED  BY <3>2, <3>3, <1>9
  <2>2. CASE i > L
    <3>1. i - L \in 1 .. K /\ ~(i <= L)
      BY <2>2, <1>3, <1>5
    <3>2. new[i] = t[i - L] /\ InLine'[i] = e[i - L]
      BY <3>1, <1>6, <1>7
    <3> QED  BY <3>1, <3>2, <1>10
  <2>3. i <= L \/ i > L
    BY <1>3, <1>5
  <2> QED  BY <2>1, <2>2, <2>3
<1>b. Before(t[1]) = Len(sent) /\ t[1].j = j /\ t[1].n = N /\ t[1].m = m
  <2>1. 1 \in 1 .. K
    BY <1>3
  <2>2. t[1].n = N /\ t[1].m = m /\ t[1].j = j
    BY <2>1, <1>3, <1>4
  <2>3. N = IF Ours(m) THEN Len(sent) + 1 ELSE Len(sent)
    BY <1>1, <1>2 DEF ParserTypeOK
  <2>4. Len(sent) \in Nat
    BY DEF ParserTypeOK
  <2> QED  BY <2>2, <2>3, <2>4 DEF Before
<1>s. j = 2 => status # None
  BY <1>2, Sizes DEF None, System, One, Two
<1>12. ASSUME cells # <<>> PROVE L >= 1 /\ Follows(cells[L], t[1])
  <2>1. Finishes(cells[L]) /\ L >= 1
    BY <1>12, <1>l, <1>5 DEF Labels
  <2>2. /\ cells[L].j = End(cells[L].m) /\ cells[L].n = Len(sent)
        /\ status = IF Head(cells[L].m) = System THEN None ELSE Head(cells[L].m)
    BY <2>1 DEF Finishes
  <2>3. ~(cells[L].j < End(cells[L].m))
    <3>1. L \in 1 .. L /\ cells[L] \in Cell
      BY <2>1, <1>5, <1>l
    <3>2. cells[L].j \in Nat
      BY <3>1 DEF Cell
    <3> QED  BY <2>2, <3>2
  <2>4. j = 2 => Head(m) = Head(cells[L].m) /\ Head(m) # System
    BY <2>2, <1>s
  <2> QED  BY <2>1, <2>2, <2>3, <2>4, <1>b, <1>3 DEF Follows
<1>13. ASSUME NEW i \in 1 .. L + K - 1 PROVE Follows(new[i], new[i + 1])
  <2>0. i \in Nat /\ i >= 1 /\ i \in 1 .. L + K /\ i + 1 \in 1 .. L + K
    BY <1>3, <1>5
  <2>1. CASE i < L
    <3>1. i \in 1 .. Len(cells) - 1 /\ i <= L /\ i + 1 <= L
      BY <2>0, <2>1, <1>5, <1>l
    <3>2. new[i] = cells[i] /\ new[i + 1] = cells[i + 1]
      BY <2>0, <3>1, <1>6
    <3>3. Follows(cells[i], cells[i + 1])
      BY <3>1 DEF Labels
    <3> QED  BY <3>2, <3>3
  <2>2. CASE i = L
    <3>1. i <= L /\ ~(i + 1 <= L) /\ i + 1 - L = 1 /\ cells # <<>>
      BY <2>0, <2>2, <1>5, <1>l
    <3>2. new[i] = cells[L] /\ new[i + 1] = t[1]
      BY <2>0, <2>2, <3>1, <1>6
    <3> QED  BY <3>1, <3>2, <1>12
  <2>3. CASE i > L
    <3>1. i - L \in 1 .. K /\ i - L + 1 \in 1 .. K /\ i + 1 - L = i - L + 1 /\ ~(i <= L) /\ ~(i + 1 <= L)
      <4>1. i \in Nat /\ i <= L + K /\ i + 1 <= L + K /\ i > L /\ K \in Nat /\ L \in Nat
        BY ONLY <2>0, <2>3, <1>z
      <4> QED  BY ONLY <4>1
    <3>2. new[i] = t[i - L] /\ new[i + 1] = t[i - L + 1]
      <4>1. new[i] = t[i - L] /\ new[i + 1] = t[i + 1 - L]
        <5>1. i > L /\ i + 1 > L
          BY <2>0, <2>3, <1>z
        <5>2. new[i] = t[i - L]
          BY <2>0, <5>1, <1>w
        <5>3. new[i + 1] = t[i + 1 - L]
          <6> DEFINE k == i + 1
          <6>1. k \in 1 .. L + K /\ k > L
            BY <2>0, <5>1
          <6> HIDE DEF k
          <6>2. new[k] = t[k - L]
            BY <6>1, <1>w
          <6>3. k = i + 1 /\ k - L = i + 1 - L
            BY <2>0, <1>z DEF k
          <6> QED  BY ONLY <6>2, <6>3
        <5> QED  BY <5>2, <5>3
      <4> QED  BY ONLY <3>1, <4>1
    <3>3. /\ t[i - L].n = N /\ t[i - L].m = m /\ t[i - L].j = j + (i - L) - 1
          /\ t[i - L + 1].n = N /\ t[i - L + 1].m = m /\ t[i - L + 1].j = j + (i - L + 1) - 1
      BY <3>1, <1>4
    <3>4. j + (i - L) - 1 < End(m) /\ j + (i - L + 1) - 1 = j + (i - L) - 1 + 1
      BY ONLY <2>0, <2>3, <1>z
    <3> QED  BY <3>2, <3>3, <3>4 DEF Follows
  <2>4. i < L \/ i = L \/ i > L
    BY <2>0, <1>5
  <2> QED  BY <2>1, <2>2, <2>3, <2>4
<1>14. Expects(new[1], last, Len(got))
  <2>1. CASE cells # <<>>
    <3>1. L >= 1 /\ 1 \in 1 .. L + K /\ 1 <= L
      BY <2>1, <1>12, <1>3, <1>5
    <3>2. new[1] = cells[1]
      BY <3>1, <1>6
    <3> QED  BY <2>1, <3>2 DEF Labels
  <2>2. CASE cells = <<>>
    <3>1. L = 0 /\ 1 \in 1 .. L + K /\ ~(1 <= L) /\ 1 - L = 1
      BY <2>2, <1>l, <1>3
    <3>2. new[1] = t[1]
      BY <3>1, <1>6
    <3>3. Len(got) = Len(sent) /\ (status # None => last = status)
      BY <2>2 DEF Labels
    <3>4. ~(j > 2)
      BY <1>3
    <3> QED  BY <3>2, <3>3, <3>4, <1>b, <1>s DEF Expects
  <2> QED  BY <2>1, <2>2
<1>15. Finishes(new[L + K])'
  <2>1. L + K \in 1 .. L + K /\ ~(L + K <= L) /\ L + K - L = K /\ K \in 1 .. K /\ j + K - 1 = End(m)
    BY ONLY <1>z
  <2>2. new[L + K] = t[K]
    <3> DEFINE k == L + K
    <3>1. k \in 1 .. L + K /\ k > L /\ k - L = K
      BY <1>z
    <3>2. k = L + K
      OBVIOUS
    <3> HIDE DEF k
    <3>3. new[k] = t[k - L]
      BY <3>1, <1>w
    <3> QED  BY <3>1, <3>2, <3>3
  <2>3. t[K].n = N /\ t[K].m = m /\ t[K].j = End(m)
    BY <2>1, <1>4
  <2> QED  BY <2>2, <2>3, <1>1 DEF Finishes
<1>16. Labels(new)'
  <2>1. L + K >= 1 /\ L + K \in Nat /\ new # <<>>
    <3>1. L + K >= 1 /\ L + K \in Nat
      BY <1>3, <1>5
    <3> QED  BY <3>1, <1>6
  <2>3. Len(new) = L + K
    BY <1>6
  <2>2. /\ new \in Seq(Cell') /\ Len(new) = Len(InLine')
        /\ \A i \in 1 .. Len(new) : Genuine(new[i])' /\ InLine'[i] = ByteOf(new[i])
        /\ \A i \in 1 .. Len(new) - 1 : Follows(new[i], new[i + 1])
        /\ Expects(new[1], last', Len(got')) /\ Finishes(new[L + K])'
    <3>1. new \in Seq(Cell') /\ Len(new) = Len(InLine')
      BY ONLY <1>6, <1>7, <1>8
    <3>2. \A i \in 1 .. Len(new) : Genuine(new[i])' /\ InLine'[i] = ByteOf(new[i])
      BY ONLY <1>6, <1>11
    <3>3. \A i \in 1 .. Len(new) - 1 : Follows(new[i], new[i + 1])
      <4> SUFFICES ASSUME NEW i \in 1 .. Len(new) - 1 PROVE Follows(new[i], new[i + 1])
        OBVIOUS
      <4>1. i \in 1 .. L + K - 1
        BY ONLY <1>v, <1>z, i \in 1 .. Len(new) - 1
      <4> QED  BY <4>1, <1>13
    <3>4. Expects(new[1], last', Len(got'))
      BY <1>14
    <3> QED  BY <3>1, <3>2, <3>3, <3>4, <1>15
  <2> QED  BY <2>1, <2>2, <2>3 DEF Labels
<1> QED  BY <1>16

\* A step that moves bytes on keeps the invariant.
LEMMA StreamKept ==
    ASSUME StreamInv, LineInv', InLine' = InLine,
           connection' = connection, last' = last, status' = status, sent' = sent, got' = got
    PROVE  StreamInv'
<1>1. PICK cells : Labels(cells)
  BY DEF StreamInv
<1>2. Labels(cells)'
  BY <1>1, LabelsKept
<1>3. GotInv'
  BY GotKept DEF StreamInv
<1> QED  BY <1>2, <1>3 DEF StreamInv

\* The one writer's pieces are those still to be written.
LEMMA PendingNext ==
    ASSUME Alone, NEW w \in Senders, connection' = connection
    PROVE  Pending' = Joined(pending'[w])
<1>1. (CHOOSE v \in Senders : TRUE) = w /\ Senders # {}
  BY DEF Alone
<1>2. Senders' = Senders
  BY DEF Senders
<1>3. (CHOOSE v \in Senders' : TRUE) = w /\ Senders' # {}
  BY <1>1, <1>2
<1>4. Pending' = IF Senders' = {} THEN <<>> ELSE Joined(pending'[CHOOSE v \in Senders' : TRUE])
  BY DEF Pending
<1> QED  BY <1>3, <1>4

\* Nothing read or parsed.
LEMMA SameUnparsed ==
    ASSUME buffer' = buffer, index' = index, count' = count
    PROVE  Unparsed' = Unparsed
BY DEF Unparsed

\* A message that is started is put behind the others, with or without its status byte.
LEMMA StartHolds ==
    ASSUME ParserTypeOK, StreamInv, Orderly, NEW w \in Senders, Start(w)
    PROVE  StreamInv'
<1>0. Alone /\ LineInv /\ GotInv /\ connection \in Connections
  BY DEF Orderly, StreamInv, ParserTypeOK
<1>1. PICK cells : Labels(cells)
  BY DEF StreamInv
<1>2. /\ connection' = connection /\ wire' = wire /\ closed' = closed /\ buffer' = buffer
      /\ index' = index /\ count' = count /\ last' = last /\ at' = at /\ got' = got
      /\ pending[w] = <<>> /\ ~closed
  BY DEF Start, device
<1>a. PICK m \in connection.sends[w] :
         /\ \/ pending' = [pending EXCEPT ![w] = Pieces(m)]
            \/ /\ Head(m) = status
               /\ pending' = [pending EXCEPT ![w] = <<Tail(m)>>]
         /\ status' = (IF Head(m) = System THEN None ELSE Head(m))
         /\ sent' = (IF Ours(m) THEN Append(sent, m) ELSE sent)
  BY DEF Start
<1>3. PICK j \in {1, 2}, ps \in {Pieces(m), <<Tail(m)>>} :
         /\ pending' = [pending EXCEPT ![w] = ps]
         /\ j = 1 => ps = Pieces(m)
         /\ j = 2 => ps = <<Tail(m)>> /\ Head(m) = status
  <2>2. CASE pending' = [pending EXCEPT ![w] = Pieces(m)]
    <3>1. 1 \in {1, 2} /\ Pieces(m) \in {Pieces(m), <<Tail(m)>>} /\ ~(1 = 2)
      OBVIOUS
    <3> QED  BY <2>2, <3>1
  <2>3. CASE Head(m) = status /\ pending' = [pending EXCEPT ![w] = <<Tail(m)>>]
    <3>1. 2 \in {1, 2} /\ <<Tail(m)>> \in {Pieces(m), <<Tail(m)>>} /\ ~(2 = 1)
      OBVIOUS
    <3> QED  BY <2>3, <3>1
  <2> QED  BY <1>a, <2>2, <2>3
<1>4. WellFormed(m) /\ m \in Sending
  BY <1>0, ConnectionIs DEF Sending
<1>5. status \in {None, One, Two} /\ System \notin {None, One, Two}
  BY Sizes DEF ParserTypeOK, None, System, One, Two
<1>6. j = 2 => status = Head(m) /\ Head(m) # System
  BY <1>3, <1>5
<1> DEFINE e == Joined(ps)
<1>7. e \in Seq(Bytes) /\ Len(e) = End(m) - j + 1
      /\ \A i \in 1 .. End(m) - j + 1 : e[i] = ByteAt(m, j + i - 1)
  BY <1>3, <1>4, <1>6, StartWrites
<1>8. Pending = <<>> /\ InLine \in Seq(Bytes)
  <2>1. \A v \in Senders : pending[v] = <<>>
    BY <1>0, <1>2 DEF Alone
  <2> QED  BY <2>1, <1>0, PendingIs
<1>9. Pending' = e
  <2>1. pending'[w] = ps
    BY <1>3 DEF ParserTypeOK
  <2>2. Pending' = Joined(pending'[w])
    BY <1>0, <1>2, PendingNext
  <2> QED  BY <2>1, <2>2
<1> HIDE DEF e
<1>10. InLine' = InLine \o e
  <2>1. Unparsed' = Unparsed
    BY <1>2, SameUnparsed
  <2>2. InLine' = Unparsed \o (wire \o e)
    BY <2>1, <1>2, <1>9 DEF InLine
  <2>3. Unparsed \in Seq(Bytes) /\ wire \in Seq(Bytes) /\ e \in Seq(Bytes)
    BY <1>7, UnparsedType DEF ParserTypeOK
  <2>4. wire \o <<>> = wire
    BY ONLY <2>3, ConcatEmptySeq
  <2>5. InLine = Unparsed \o wire
    BY <2>4, <1>8 DEF InLine
  <2>6. (Unparsed \o wire) \o e = Unparsed \o (wire \o e)
    BY ONLY <2>3, ConcatAssociative
  <2> QED  BY ONLY <2>2, <2>5, <2>6
<1>11. \E new : Labels(new)'
  BY ONLY ParserTypeOK, <1>1, <1>2, <1>a, j \in {1, 2}, <1>4, <1>6, <1>7, <1>8, <1>10, LabelsAppended
<1>12. GotInv'
  <2>1. m \in Seq(Bytes) /\ sent \in Seq(Seq(Bytes)) /\ Len(sent) \in Nat /\ Len(got) \in Nat
    BY <1>4, MessageShape DEF ParserTypeOK
  <2>2. CASE Ours(m)
    <3>1. sent' = Append(sent, m)
      BY <2>2, <1>a
    <3>2. Len(sent') = Len(sent) + 1 /\ \A i \in 1 .. Len(sent) : sent'[i] = sent[i]
      BY <2>1, <3>1, AppendProperties
    <3> QED  BY <2>1, <3>2, <1>0, <1>2 DEF GotInv
  <2>3. CASE ~Ours(m)
    BY <2>3, <1>0, <1>2, <1>a DEF GotInv
  <2> QED  BY <2>2, <2>3
<1>13. LineInv'
  <2>1. Senders' = Senders /\ Gui' = Gui
    BY <1>2 DEF Senders, Gui
  <2>2. Len(ps) <= 4
    <3>1. Len(Pieces(m)) <= 4 /\ Len(<<Tail(m)>>) = 1
      BY <1>4, PiecesAre
    <3>2. CASE ps = Pieces(m)
      BY <3>1, <3>2
    <3>3. CASE ps = <<Tail(m)>>
      BY <3>1, <3>3
    <3> QED  BY <3>2, <3>3
  <2>3. \A v \in Senders : pending'[v] = IF v = w THEN ps ELSE pending[v]
    BY <1>3 DEF ParserTypeOK
  <2>4. \A v \in Senders : Len(pending'[v]) <= 4
    BY <2>2, <2>3, <1>0 DEF LineInv
  <2> QED  BY <2>1, <2>4, <1>0, <1>2 DEF LineInv
<1> QED  BY <1>11, <1>12, <1>13 DEF StreamInv

\* A piece goes from the writer to the wire.
LEMMA WriteHolds ==
    ASSUME ParserTypeOK, StreamInv, Orderly, NEW w \in Senders, Write(w)
    PROVE  StreamInv'
<1>0. Alone /\ LineInv
  BY DEF Orderly, StreamInv
<1>1. /\ connection' = connection /\ closed' = closed /\ buffer' = buffer /\ index' = index
      /\ count' = count /\ last' = last /\ at' = at /\ status' = status /\ sent' = sent /\ got' = got
  BY DEF Write, device
<1>2. /\ pending[w] # <<>> /\ wire' = wire \o Head(pending[w])
      /\ \A v \in Senders : pending'[v] = IF v = w THEN Tail(pending[v]) ELSE pending[v]
  BY DEF Write, ParserTypeOK
<1>3. pending[w] \in Seq(Seq(Bytes)) /\ Len(pending[w]) <= 4
  BY <1>0 DEF ParserTypeOK, LineInv
<1> DEFINE h == Head(pending[w])
           p == Tail(pending[w])
           r == Joined(p)
<1>4. h \in Seq(Bytes) /\ p \in Seq(Seq(Bytes)) /\ Len(p) <= 4
  <2>1. h \in Seq(Bytes)
    BY <1>2, <1>3
  <2>2. p \in Seq(Seq(Bytes)) /\ Len(p) = Len(pending[w]) - 1
    BY <1>2, <1>3
  <2> QED  BY <2>1, <2>2, <1>3
<1>5. Joined(pending[w]) = h \o r
  BY <1>2, <1>3, JoinedIs
<1>6. r \in Seq(Bytes)
  BY <1>4, JoinedIs
<1>7. Pending = h \o r
  BY <1>0, <1>5, PendingIs
<1>8. Pending' = r
  BY <1>0, <1>1, <1>2, PendingNext
<1>9. InLine' = InLine
  <2>1. Unparsed' = Unparsed
    BY <1>1, SameUnparsed
  <2>2. InLine' = Unparsed \o ((wire \o h) \o r)
    BY <2>1, <1>2, <1>8 DEF InLine
  <2>3. wire \in Seq(Bytes) /\ h \in Seq(Bytes) /\ r \in Seq(Bytes)
    BY <1>4, <1>6 DEF ParserTypeOK
  <2>4. InLine = Unparsed \o (wire \o (h \o r))
    BY <1>7 DEF InLine
  <2> HIDE DEF h, r
  <2>5. (wire \o h) \o r = wire \o (h \o r)
    BY ONLY <2>3, ConcatAssociative
  <2> QED  BY ONLY <2>2, <2>4, <2>5
<1>10. LineInv'
  <2>1. Senders' = Senders /\ Gui' = Gui
    BY <1>1 DEF Senders, Gui
  <2>2. ~closed
    BY <1>0, <1>2 DEF LineInv
  <2>3. \A v \in Senders : Len(pending'[v]) <= 4
    BY <1>0, <1>2, <1>4 DEF LineInv
  <2> QED  BY <2>1, <2>2, <2>3, <1>0, <1>1 DEF LineInv
<1> QED  BY <1>1, <1>9, <1>10, StreamKept

\* While the parser waits, what is read fits; and it does not wait for nothing.
LEMMA WaitsWithRoom ==
    ASSUME ParserTypeOK, StreamInv, Orderly, Step.parsed = 0
    PROVE  /\ Room /\ (Gui => count + MaxWire <= BufSize)
           /\ wire = <<>> /\ (\A w \in Senders : pending[w] = <<>>) => count = 0 /\ Len(got) = Len(sent)
<1>0. Alone /\ LineInv /\ connection \in Connections /\ count \in Nat /\ MaxWire \in Nat
  BY ConnectionIs DEF Orderly, StreamInv, ParserTypeOK
<1>1. PICK cells : Labels(cells)
  BY DEF StreamInv
<1>2. ASSUME count > 0
      PROVE  \E m \in Sending : WellFormed(m) /\ (count < HeaderLen \/ count <= Len(m) - 2)
  BY <1>0, <1>1, <1>2, Waiting
<1>3. \A m \in Sending : Len(m) <= BufSize /\ (Gui => MaxWire + Len(m) - 2 <= BufSize)
  BY DEF Orderly, Fit, KeepsUp, Sending
<1>4. HeaderLen \in Nat /\ BufSize \in Nat /\ HeaderLen < BufSize /\ (Gui => MaxWire + HeaderLen <= BufSize)
  BY Sizes DEF Orderly, KeepsUp
<1>5. Room
  <2>1. CASE count = 0
    BY <2>1, <1>4 DEF Room
  <2>2. CASE count > 0
    <3>1. PICK m \in Sending : WellFormed(m) /\ (count < HeaderLen \/ count <= Len(m) - 2)
      BY <2>2, <1>2
    <3>2. Len(m) \in Nat /\ Len(m) <= BufSize
      BY <3>1, <1>3, MessageShape
    <3> QED  BY <3>1, <3>2, <1>0, <1>4 DEF Room
  <2> QED  BY <2>1, <2>2, <1>0
<1>6. ASSUME Gui PROVE count + MaxWire <= BufSize
  <2>1. CASE count = 0
    BY <2>1, <1>0, <1>4, <1>6
  <2>2. CASE count > 0
    <3>1. PICK m \in Sending : WellFormed(m) /\ (count < HeaderLen \/ count <= Len(m) - 2)
      BY <2>2, <1>2
    <3>2. Len(m) \in Nat /\ MaxWire + Len(m) - 2 <= BufSize
      BY <3>1, <1>3, <1>6, MessageShape
    <3> QED  BY <3>1, <3>2, <1>0, <1>4, <1>6
  <2> QED  BY <2>1, <2>2, <1>0
<1>7. ASSUME wire = <<>>, \A w \in Senders : pending[w] = <<>> PROVE count = 0 /\ Len(got) = Len(sent)
  <2>1. Len(cells) = count /\ cells \in Seq(Cell)
    <3>1. Pending = <<>> /\ Len(InLine) = count + Len(wire) + Len(Pending)
      BY <1>0, <1>7, PendingIs
    <3>2. Len(wire) = 0 /\ Len(Pending) = 0
      BY <3>1, <1>7
    <3> QED  BY <3>1, <3>2, <1>0, <1>1 DEF Labels
  <2>2. ~(count > 0)
    <3> SUFFICES ASSUME count > 0 PROVE FALSE
      OBVIOUS
    <3>1. count < Len(cells)
      BY <1>0, <1>1, Waiting
    <3> QED  BY <3>1, <2>1, <1>0
  <2>3. cells = <<>>
    BY <2>1, <2>2, <1>0
  <2> QED  BY <2>2, <2>3, <1>0, <1>1 DEF Labels
<1> QED  BY <1>5, <1>6, <1>7

\* A byte goes from the wire into the buffer.
LEMMA ReadByteHolds ==
    ASSUME ParserTypeOK, ParserTypeOK', StreamInv, Orderly, ReadByte
    PROVE  StreamInv'
<1>0. Alone /\ LineInv /\ Step.parsed = 0 /\ count < BufSize /\ count \in Nat /\ BufSize \in Nat
  BY Sizes DEF Orderly, StreamInv, ParserTypeOK, ReadByte, Room, Reading
<1>1. /\ connection' = connection /\ closed' = closed /\ index' = index /\ last' = last
      /\ pending' = pending /\ status' = status /\ sent' = sent /\ got' = got
      /\ count' = count + 1 /\ at' = AfterDev /\ wire' = Tail(wire) /\ wire # <<>>
      /\ buffer' = [buffer EXCEPT ![Offset] = Head(wire)]
  BY DEF ReadByte, writing
<1>2. wire \in Seq(Bytes) /\ Len(wire) \in Nat /\ 1 \in 1 .. Len(wire) /\ Head(wire) = wire[1]
  <2>1. wire \in Seq(Bytes)
    BY DEF ParserTypeOK
  <2> QED  BY <2>1, <1>1
<1>3. Offset \in 0 .. BufSize - 1 /\ Offset + 1 <= BufSize
  <2>1. index + count \in Nat
    BY DEF ParserTypeOK
  <2>2. Offset \in 0 .. BufSize - 1
    BY <2>1, WrapIs DEF Offset, Wrapped
  <2> QED  BY <2>2, <1>0
<1>4. buffer'[Offset] = wire[1] /\ \A i \in 0 .. BufSize - 1 : i # Offset => buffer'[i] = buffer[i]
  BY <1>1, <1>2, <1>3 DEF ParserTypeOK
<1>5. wire' = SubSeq(wire, 1 + 1, Len(wire))
  BY <1>1, <1>2, TailIsSubSeq
<1>6. InLine' = InLine
  <2>1. \A k \in 1 .. 1 : buffer'[Offset + k - 1] = wire[k]
    BY <1>3, <1>4
  <2>2. \A i \in 0 .. BufSize - 1 : i < Offset \/ i >= Offset + 1 => buffer'[i] = buffer[i]
    BY <1>3, <1>4
  <2>3. count + 1 <= BufSize
    BY <1>0
  <2> HIDE DEF ParserTypeOK
  <2>4. Offset + 1 <= BufSize /\ 1 \in Nat /\ 1 \in 1 .. Len(wire)
    BY <1>2, <1>3
  <2> QED  BY ONLY ParserTypeOK, ParserTypeOK', <1>0, <1>1, <1>5, <2>1, <2>2, <2>3, <2>4, LineRead
<1>7. LineInv'
  <2>1. Senders' = Senders /\ Gui' = Gui /\ count' <= BufSize
    BY <1>0, <1>1 DEF Senders, Gui
  <2>2. at' # "gone" /\ (at' = "tcp" => Gui)
    BY <1>1 DEF AfterDev
  <2> QED  BY <2>1, <2>2, <1>0, <1>1 DEF LineInv
<1> QED  BY <1>1, <1>6, <1>7, StreamKept

\* As many as there are go into the buffer, and over none that is not parsed.
LEMMA ReadBurstHolds ==
    ASSUME ParserTypeOK, ParserTypeOK', StreamInv, Orderly, ReadBurst
    PROVE  StreamInv'
<1>0. Alone /\ LineInv /\ Step.parsed = 0 /\ at = "tcp" /\ count \in Nat /\ BufSize \in Nat
  BY Sizes DEF Orderly, StreamInv, ParserTypeOK, ReadBurst, Reading
<1>2. wire \in Seq(Bytes) /\ Len(wire) \in Nat /\ Len(wire) >= 1 /\ Len(wire) <= MaxWire /\ MaxWire \in Nat
  <2>1. wire \in Seq(Bytes) /\ wire # <<>> /\ Len(wire) <= MaxWire /\ MaxWire \in Nat
    BY ConnectionIs DEF ReadBurst, ParserTypeOK
  <2> QED  BY <2>1
<1>3. Offset \in Nat /\ Offset < BufSize
  <2>1. index + count \in Nat
    BY DEF ParserTypeOK
  <2>2. Offset \in 0 .. BufSize - 1
    BY <2>1, WrapIs DEF Offset, Wrapped
  <2> QED  BY <2>2, <1>0
<1>4. PICK n \in Nat : n = Min({Space, Len(wire)}) /\ n \in 1 .. Len(wire) /\ Offset + n <= BufSize
  <2>1. Space \in Nat /\ Space >= 1 /\ Space = BufSize - Offset
    BY <1>0, <1>3 DEF Space
  <2>2. Min({Space, Len(wire)}) = IF Space <= Len(wire) THEN Space ELSE Len(wire)
    BY <2>1, <1>2, MinIs
  <2> QED  BY <2>1, <2>2, <1>0, <1>2, <1>3
<1>1. /\ connection' = connection /\ closed' = closed /\ index' = index /\ last' = last /\ at' = at
      /\ pending' = pending /\ status' = status /\ sent' = sent /\ got' = got
      /\ count' = count + n /\ wire' = SubSeq(wire, n + 1, Len(wire))
      /\ buffer' = [i \in DOMAIN buffer |->
                       IF i \in Offset .. Offset + n - 1 THEN wire[i - Offset + 1] ELSE buffer[i]]
  BY <1>4 DEF ReadBurst, writing
<1>5. count + n <= BufSize
  <2>1. Gui
    BY <1>0 DEF LineInv
  <2>2. count + MaxWire <= BufSize
    BY <2>1, <1>0, WaitsWithRoom
  <2> QED  BY <2>2, <1>0, <1>2, <1>4
<1>6. InLine' = InLine
  <2>0. \A i \in 0 .. BufSize - 1 :
           buffer'[i] = IF i \in Offset .. Offset + n - 1 THEN wire[i - Offset + 1] ELSE buffer[i]
    BY <1>1 DEF ParserTypeOK
  <2>1. ASSUME NEW k \in 1 .. n PROVE buffer'[Offset + k - 1] = wire[k]
    <3> DEFINE a == Offset + k - 1
    <3>1. a \in 0 .. BufSize - 1 /\ a \in Offset .. Offset + n - 1 /\ a - Offset + 1 = k
      BY <1>0, <1>3, <1>4
    <3> HIDE DEF a
    <3>2. buffer'[a] = wire[a - Offset + 1]
      BY <3>1, <2>0
    <3> QED  BY <3>1, <3>2 DEF a
  <2>2. \A i \in 0 .. BufSize - 1 : i < Offset \/ i >= Offset + n => buffer'[i] = buffer[i]
    <3> SUFFICES ASSUME NEW i \in 0 .. BufSize - 1, i < Offset \/ i >= Offset + n
                 PROVE  buffer'[i] = buffer[i]
      OBVIOUS
    <3>1. i \notin Offset .. Offset + n - 1
      BY <1>0, <1>3, <1>4
    <3> QED  BY <3>1, <2>0
  <2> QED  BY ONLY ParserTypeOK, ParserTypeOK', <1>0, <1>1, <1>4, <1>5, <2>1, <2>2, LineRead
<1>7. LineInv'
  <2>1. Senders' = Senders /\ Gui' = Gui /\ count' <= BufSize
    BY <1>1, <1>5 DEF Senders, Gui
  <2> QED  BY <2>1, <1>0, <1>1 DEF LineInv
<1> QED  BY <1>1, <1>6, <1>7, StreamKept

\* The reader's other steps and the end of the file leave every byte where it is.
LEMMA OthersHold ==
    ASSUME ParserTypeOK, StreamInv, Orderly,
           NothingRead \/ LoopEnds \/ ActiveSense \/ Close \/ FailedRead
    PROVE  StreamInv'
<1>0. Alone /\ LineInv /\ ~Fails /\ count \in Nat
  BY DEF Orderly, StreamInv, ParserTypeOK
<1>1. ASSUME connection' = connection, wire' = wire, buffer' = buffer, index' = index, count' = count,
             last' = last, pending' = pending, status' = status, sent' = sent, got' = got,
             closed' => \A w \in Senders : pending[w] = <<>>,
             at' = "gone" => closed', at' = "tcp" => Gui
      PROVE  StreamInv'
  <2>1. InLine' = InLine
    BY <1>1, SameUnparsed, PendingKept DEF InLine
  <2>2. LineInv'
    <3>1. Senders' = Senders /\ Gui' = Gui
      BY <1>1 DEF Senders, Gui
    <3> QED  BY <3>1, <1>0, <1>1 DEF LineInv
  <2> QED  BY <2>1, <2>2, <1>1, StreamKept
<1>2. CASE NothingRead
  <2>1. at' = "tcp" /\ Gui /\ closed' = closed
    BY <1>2 DEF NothingRead
  <2> QED  BY <2>1, <1>0, <1>1, <1>2 DEF NothingRead, device, writing, LineInv
<1>3. CASE LoopEnds
  <2>1. at' = "sense" /\ closed' = closed
    BY <1>3 DEF LoopEnds
  <2> QED  BY <2>1, <1>0, <1>1, <1>3 DEF LoopEnds, device, writing, LineInv
<1>4. CASE ActiveSense
  <2>1. closed' = closed /\ (at' = "gone" => closed) /\ at' # "tcp"
    BY <1>4 DEF ActiveSense
  <2> QED  BY <2>1, <1>0, <1>1, <1>4 DEF ActiveSense, device, writing, LineInv
<1>5. CASE Close
  <2>1. closed' /\ at' = at /\ \A w \in Senders : pending[w] = <<>>
    BY <1>5 DEF Close
  <2> QED  BY <2>1, <1>0, <1>1, <1>5 DEF Close, device, writing, LineInv
<1>6. CASE FailedRead
  <2>1. Step.parsed = 0 /\ closed /\ wire = <<>>
    BY <1>0, <1>6 DEF FailedRead, Reading
  <2>2. \A w \in Senders : pending[w] = <<>>
    BY <2>1, <1>0 DEF LineInv
  <2>3. count = 0
    BY <2>1, <2>2, WaitsWithRoom
  <2>4. at' = "gone" /\ count' = count /\ closed' = closed
    BY <2>3, <1>6 DEF FailedRead
  <2> QED  BY <2>1, <2>2, <2>4, <1>1, <1>6 DEF FailedRead, writing
<1> QED  BY <1>2, <1>3, <1>4, <1>5, <1>6

\* The invariant, at first ...
LEMMA ParserInvInit == ParserInit => ParserInv
<1> SUFFICES ASSUME ParserInit, Orderly PROVE StreamInv
  BY ParserTypeInit DEF ParserInv
<1> USE DEF ParserInit
<1>1. ParserTypeOK
  BY ParserTypeInit
<1>2. Len(<<>>) = 0 /\ Len(got) = 0 /\ Len(sent) = 0
  OBVIOUS
<1>3. GotInv
  BY <1>2 DEF GotInv
<1>4. LineInv
  <2>1. count <= BufSize
    BY Sizes
  <2>2. \A w \in Senders : pending[w] = <<>>
    OBVIOUS
  <2> QED  BY <1>2, <2>1, <2>2 DEF LineInv
<1>5. Len(InLine) = 0
  <2>1. Pending = <<>> /\ Len(InLine) = count + Len(wire) + Len(Pending)
    BY <1>1, <1>4, PendingIs DEF Orderly
  <2> QED  BY <2>1, <1>2
<1>6. Labels(<<>>)
  <2>1. <<>> \in Seq(Cell) /\ status = None
    OBVIOUS
  <2> QED  BY <2>1, <1>2, <1>5 DEF Labels
<1> QED  BY <1>3, <1>4, <1>6 DEF StreamInv

\* The connection stays what it is.
LEMMA ConnectionStays ==
    ASSUME [ParserNext]_parserVars
    PROVE  connection' = connection
<1>1. CASE Parse \/ ReadByte \/ FailedRead \/ NothingRead \/ Exhausted \/ ReadBurst \/ Deaf \/ LoopEnds
           \/ ActiveSense \/ RealtimeByte \/ Close
  BY <1>1 DEF Parse, ReadByte, FailedRead, NothingRead, Exhausted, ReadBurst, Deaf, LoopEnds,
              ActiveSense, RealtimeByte, Close
<1>2. ASSUME NEW w \in Senders, Start(w) \/ Write(w) PROVE connection' = connection
  BY <1>2 DEF Start, Write
<1>3. CASE UNCHANGED parserVars
  BY <1>3 DEF parserVars
<1> QED  BY <1>1, <1>2, <1>3 DEF ParserNext

\* ... and after every step; with what Orderly asks for, three of the steps are not taken.
LEMMA ParserInvStep == ParserInv /\ [ParserNext]_parserVars => ParserInv'
<1> SUFFICES ASSUME ParserInv, [ParserNext]_parserVars PROVE ParserInv'
  OBVIOUS
<1>1. ParserTypeOK /\ ParserTypeOK'
  BY ParserTypeStep DEF ParserInv
<1>2. Orderly' => Orderly
  BY ConnectionStays DEF Orderly, Fit, Alone, KeepsUp, Senders, Gui, Fails, Realtime, MaxWire
<1> SUFFICES ASSUME Orderly PROVE StreamInv'
  BY <1>1, <1>2 DEF ParserInv
<1>3. StreamInv /\ ~Realtime /\ (Step.parsed = 0 => Room)
  BY <1>1, WaitsWithRoom DEF ParserInv, Orderly
<1>4. CASE Parse
  BY <1>1, <1>3, <1>4, ParseHolds
<1>5. CASE ReadByte
  BY <1>1, <1>3, <1>5, ReadByteHolds
<1>6. CASE ReadBurst
  BY <1>1, <1>3, <1>6, ReadBurstHolds
<1>7. CASE NothingRead \/ LoopEnds \/ ActiveSense \/ Close \/ FailedRead
  BY <1>1, <1>3, <1>7, OthersHold
<1>8. CASE Exhausted \/ Deaf \/ RealtimeByte
  BY <1>3, <1>8 DEF Exhausted, Deaf, RealtimeByte, Reading
<1>9. ASSUME NEW w \in Senders, Start(w) PROVE StreamInv'
  BY <1>1, <1>3, <1>9, StartHolds
<1>10. ASSUME NEW w \in Senders, Write(w) PROVE StreamInv'
  BY <1>1, <1>3, <1>10, WriteHolds
<1>11. CASE UNCHANGED parserVars
  <2>1. /\ connection' = connection /\ wire' = wire /\ buffer' = buffer /\ index' = index /\ count' = count
        /\ last' = last /\ pending' = pending /\ status' = status /\ sent' = sent /\ got' = got
        /\ closed' = closed /\ at' = at
    BY <1>11 DEF parserVars, device, writing
  <2>2. InLine' = InLine
    BY <2>1, SameUnparsed, PendingKept DEF InLine
  <2>3. LineInv'
    BY <2>1, <1>3 DEF StreamInv, LineInv, Senders, Gui
  <2> QED  BY <2>1, <2>2, <2>3, <1>3, StreamKept
<1> QED  BY <1>4, <1>5, <1>6, <1>7, <1>8, <1>9, <1>10, <1>11 DEF ParserNext

\* It always holds.
LEMMA ParserInvAlways == ParserSpec => []ParserInv
BY ParserInvInit, ParserInvStep, PTL DEF ParserSpec

\* ParserTypesHold: bufcount and bufindex, the command that the parser remembers and the bytes in
\* the buffer, on the wire and to be written stay what they can be, for every connection: with
\* several writers, system bytes in between, reads that fail and an end of the file.
THEOREM ParserTypesHold == ParserSpec => []ParserTypeOK
BY ParserTypeInit, ParserTypeStep, PTL DEF ParserSpec

\* ParsedIsSentHolds: through every division into writes, reads and parses, and round the end of
\* the buffer, what is dispatched is what was sent, and when all is parsed nothing is missing.
THEOREM ParsedIsSentHolds == ParserSpec => []ParsedIsSent
<1>1. ParserInv => ParsedIsSent
  <2> SUFFICES ASSUME ParserTypeOK, StreamInv, Orderly
               PROVE  IsPrefix(got, sent) /\ (Settled => Len(got) = Len(sent))
    BY DEF ParserInv, ParsedIsSent
  <2>1. IsPrefix(got, sent)
    <3>1. got \in Seq(Seq(Bytes)) /\ sent \in Seq(Seq(Bytes))
      BY DEF ParserTypeOK
    <3>2. Len(got) <= Len(sent) /\ \A i \in 1 .. Len(got) : got[i] = sent[i]
      BY DEF StreamInv, GotInv
    <3> HIDE DEF Bytes
    <3>3. SubSeq(got, 1, Len(got)) = SubSeq(sent, 1, Len(got))
      BY <3>1, <3>2
    <3> QED  BY <3>2, <3>3 DEF IsPrefix
  <2>2. Settled => Len(got) = Len(sent)
    BY WaitsWithRoom DEF Settled
  <2> QED  BY <2>1, <2>2
<1> QED  BY <1>1, ParserInvAlways, PTL

\* StaysUpHolds: under the same conditions a GUI gives its connection up only when the engine has
\* gone; the buffer is never full while the parser waits for the rest of a message.
THEOREM StaysUpHolds == ParserSpec => []StaysUp
<1>1. ParserInv => StaysUp
  BY DEF ParserInv, StreamInv, LineInv, StaysUp
<1> QED  BY <1>1, ParserInvAlways, PTL
=============================================================================
