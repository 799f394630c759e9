------------------------- MODULE VoiceEngineProofs -------------------------
(***************************************************************************)
(* Proofs about VoiceEngine, for every number of voices, emulators, keys   *)
(* and channels.  With and without a MIDI thread every variable keeps its  *)
(* type, no voice is lost from the three lists or linked twice, and none   *)
(* refers to an emulator that was freed.  Under a single Jack registration *)
(* the voices stay within their limit, no trigger is missed, all notes off *)
(* silences, and no released note stays on.                                *)
(***************************************************************************)
EXTENDS VoiceEngine, FiniteSetTheorems, SequenceTheorems, TLAPS

(***************************************************************************)
(* Lemmas about the lists.                                                 *)
(***************************************************************************)

\* Linking a voice at the head of a list (newlist, playlist, freelist).
LEMMA ConsProperties ==
    ASSUME NEW S, NEW s \in Seq(S), NEW e \in S
    PROVE  /\ Cons(e, s) \in Seq(S)
           /\ Range(Cons(e, s)) = Range(s) \cup {e}
           /\ IsInjective(s) /\ e \notin Range(s) => IsInjective(Cons(e, s))
<1>1. <<e>> \in Seq(S) /\ Len(<<e>>) = 1 /\ <<e>>[1] = e
  OBVIOUS
<1>2. /\ Cons(e, s) \in Seq(S)
      /\ Len(Cons(e, s)) = 1 + Len(s)
      /\ \A i \in 1 .. 1 + Len(s) : Cons(e, s)[i] = IF i <= 1 THEN e ELSE s[i - 1]
  BY <1>1, ConcatProperties DEF Cons
<1>3. Range(Cons(e, s)) = Range(s) \cup {e}
  <2>1. Range(s) = {s[i] : i \in 1 .. Len(s)}  BY RangeEquality
  <2>2. Range(Cons(e, s)) = {Cons(e, s)[i] : i \in 1 .. 1 + Len(s)}
    BY <1>2, RangeEquality
  <2>3. ASSUME NEW i \in 1 .. Len(s) PROVE i + 1 \in 1 .. 1 + Len(s) /\ s[i] = Cons(e, s)[i + 1]
    BY <1>2, LenProperties
  <2>4. 1 \in 1 .. 1 + Len(s) /\ Cons(e, s)[1] = e  BY <1>2, LenProperties
  <2>5. Range(Cons(e, s)) \subseteq Range(s) \cup {e}  BY <1>2, <2>1, <2>2, LenProperties
  <2>6. Range(s) \subseteq Range(Cons(e, s))  BY <2>1, <2>2, <2>3
  <2> QED  BY <2>2, <2>4, <2>5, <2>6
<1>4. ASSUME IsInjective(s), e \notin Range(s) PROVE IsInjective(Cons(e, s))
  BY <1>2, <1>4 DEF IsInjective, Range
<1> QED  BY <1>2, <1>3, <1>4

\* Linking a voice at the tail of the freelist.
LEMMA AppendRange ==
    ASSUME NEW S, NEW s \in Seq(S), NEW e \in S
    PROVE  /\ Append(s, e) \in Seq(S)
           /\ Range(Append(s, e)) = Range(s) \cup {e}
           /\ IsInjective(s) /\ e \notin Range(s) => IsInjective(Append(s, e))
<1>1. /\ Append(s, e) \in Seq(S)
      /\ Len(Append(s, e)) = Len(s) + 1
      /\ \A i \in 1 .. Len(s) : Append(s, e)[i] = s[i]
      /\ Append(s, e)[Len(s) + 1] = e
  BY AppendProperties
<1>2. Range(Append(s, e)) = Range(s) \cup {e}
  <2>1. Range(s) = {s[i] : i \in 1 .. Len(s)}  BY RangeEquality
  <2>2. Range(Append(s, e)) = {Append(s, e)[i] : i \in 1 .. Len(s) + 1}
    BY <1>1, RangeEquality
  <2>3. Len(s) \in Nat  BY LenProperties
  <2>4. Len(s) + 1 \in 1 .. Len(s) + 1  BY <2>3
  <2> QED  BY <1>1, <2>1, <2>2, <2>3, <2>4
<1>3. ASSUME IsInjective(s), e \notin Range(s) PROVE IsInjective(Append(s, e))
  BY <1>1, <1>3 DEF IsInjective, Range
<1> QED  BY <1>1, <1>2, <1>3

\* Taking the head of a list.
LEMMA TailProperties ==
    ASSUME NEW S, NEW s \in Seq(S), s # << >>
    PROVE  /\ Tail(s) \in Seq(S) /\ Head(s) \in S
           /\ Range(s) = Range(Tail(s)) \cup {Head(s)}
           /\ IsInjective(s) => IsInjective(Tail(s)) /\ Head(s) \notin Range(Tail(s))
<1>1. /\ Tail(s) \in Seq(S) /\ Head(s) \in S
      /\ Len(Tail(s)) = Len(s) - 1 /\ Len(s) \in Nat \ {0}
      /\ \A i \in 1 .. Len(s) - 1 : Tail(s)[i] = s[i + 1]
      /\ Head(s) = s[1]
  BY HeadTailProperties, EmptySeq
<1>2. Range(Tail(s)) \subseteq Range(s) /\ Head(s) \in Range(s)
  BY <1>1 DEF Range
<1>3. Range(s) \subseteq Range(Tail(s)) \cup {Head(s)}
  <2> SUFFICES ASSUME NEW i \in 1 .. Len(s), i # 1
               PROVE  s[i] \in Range(Tail(s))
    BY <1>1 DEF Range
  <2>1. i - 1 \in 1 .. Len(s) - 1 /\ Tail(s)[i - 1] = s[(i - 1) + 1]  BY <1>1
  <2>2. Tail(s)[i - 1] = s[i]  BY <2>1
  <2>3. DOMAIN Tail(s) = 1 .. Len(s) - 1  BY <1>1, LenProperties
  <2> QED  BY <2>1, <2>2, <2>3 DEF Range
<1>4. IsInjective(s) => IsInjective(Tail(s)) /\ Head(s) \notin Range(Tail(s))
  BY <1>1 DEF IsInjective, Range
<1> QED  BY <1>1, <1>2, <1>3, <1>4

\* The place of a voice that is on the list.
LEMMA PlaceProperties ==
    ASSUME NEW S, NEW s \in Seq(S), NEW e \in Range(s)
    PROVE  Place(s, e) \in 1 .. Len(s) /\ s[Place(s, e)] = e
<1>1. \E i \in DOMAIN s : s[i] = e  BY DEF Range
<1> QED  BY <1>1 DEF Place

\* Taking a voice out of the middle of a list: the voices behind it move up.
LEMMA UnlinkElements ==
    ASSUME NEW S, NEW s \in Seq(S), NEW e \in Range(s)
    PROVE  /\ Unlink(s, e) \in Seq(S) /\ Len(Unlink(s, e)) = Len(s) - 1
           /\ \A i \in 1 .. Len(s) - 1 :
                 Unlink(s, e)[i] = s[IF i < Place(s, e) THEN i ELSE i + 1]
<1> DEFINE p == Place(s, e)
           a == SubSeq(s, 1, p - 1)
           b == SubSeq(s, p + 1, Len(s))
           n == Len(s)
<1>1. p \in 1 .. n /\ s[p] = e /\ n \in Nat /\ \A i \in 1 .. n : s[i] \in S
  BY PlaceProperties, LenProperties, ElementOfSeq
<1> HIDE DEF p
<1>2. /\ a \in Seq(S) /\ Len(a) = p - 1
      /\ \A i \in 1 .. p - 1 : a[i] = s[i]
  BY <1>1, SubSeqProperties
<1>3. /\ b \in Seq(S) /\ Len(b) = n - p
      /\ \A i \in 1 .. n - p : b[i] = s[p + i]
  BY <1>1, SubSeqProperties
<1>4. Unlink(s, e) = a \o b  BY DEF Unlink, RemoveAt, p
<1> HIDE DEF a, b
<1>5. /\ Unlink(s, e) \in Seq(S) /\ Len(Unlink(s, e)) = n - 1
      /\ \A i \in 1 .. n - 1 : Unlink(s, e)[i] = s[IF i < p THEN i ELSE i + 1]
  BY <1>1, <1>2, <1>3, <1>4, ConcatProperties
<1> QED  BY <1>5 DEF p

\* Unlinking a voice takes it and no other off a list.
LEMMA UnlinkProperties ==
    ASSUME NEW S, NEW s \in Seq(S), IsInjective(s), NEW e \in Range(s)
    PROVE  /\ Unlink(s, e) \in Seq(S)
           /\ Range(Unlink(s, e)) = Range(s) \ {e}
           /\ IsInjective(Unlink(s, e))
<1> DEFINE p == Place(s, e)
           n == Len(s)
<1>1. p \in 1 .. n /\ s[p] = e /\ n \in Nat /\ \A i \in 1 .. n : s[i] \in S
  BY PlaceProperties, LenProperties, ElementOfSeq
<1>2. /\ Unlink(s, e) \in Seq(S) /\ Len(Unlink(s, e)) = n - 1
      /\ \A i \in 1 .. n - 1 : Unlink(s, e)[i] = s[IF i < p THEN i ELSE i + 1]
  BY UnlinkElements
<1> HIDE DEF p
<1>2a. PICK u : u = Unlink(s, e)
  OBVIOUS
<1>2b. /\ DOMAIN u = 1 .. n - 1 /\ DOMAIN s = 1 .. n
       /\ \A i \in 1 .. n - 1 : u[i] = s[IF i < p THEN i ELSE i + 1]
       /\ \A i, j \in 1 .. n : s[i] = s[j] => i = j
  BY <1>2, <1>2a, LenProperties DEF IsInjective
<1>3. IsInjective(Unlink(s, e))
  <2> SUFFICES ASSUME NEW i \in 1 .. n - 1, NEW j \in 1 .. n - 1, u[i] = u[j]
               PROVE  i = j
    BY <1>2a, <1>2b DEF IsInjective
  <2> DEFINE a == IF i < p THEN i ELSE i + 1
             b == IF j < p THEN j ELSE j + 1
  <2>1. a \in 1 .. n /\ b \in 1 .. n /\ s[a] = s[b]
    BY <1>1, <1>2b
  <2>2. a = b
    BY <1>2b, <2>1
  <2> QED  BY <1>1, <2>2
<1>4. Range(Unlink(s, e)) \subseteq Range(s) \ {e}
  <2> SUFFICES ASSUME NEW i \in 1 .. n - 1 PROVE u[i] \in Range(s) /\ u[i] # e
    BY <1>2a, <1>2b DEF Range
  <2> DEFINE a == IF i < p THEN i ELSE i + 1
  <2>1. a \in 1 .. n /\ a # p /\ u[i] = s[a]
    BY <1>1, <1>2b
  <2> QED  BY <1>1, <1>2b, <2>1 DEF Range
<1>5. Range(s) \ {e} \subseteq Range(Unlink(s, e))
  <2> SUFFICES ASSUME NEW i \in 1 .. n, i # p
               PROVE  s[i] \in Range(Unlink(s, e))
    BY <1>1 DEF Range
  <2> DEFINE j == IF i < p THEN i ELSE i - 1
  <2>1. j \in 1 .. n - 1 /\ Unlink(s, e)[j] = s[i]  BY <1>1, <1>2
  <2> QED  BY <1>1, <1>2, <2>1 DEF Range
<1> QED  BY <1>2, <1>3, <1>4, <1>5

\* voice->next is the end of the list or another voice of it.
LEMMA AfterProperties ==
    ASSUME NEW S, NEW s \in Seq(S), IsInjective(s), NEW e \in Range(s)
    PROVE  After(s, e) \in (Range(s) \ {e}) \cup {NoVoice}
<1>1. Place(s, e) \in 1 .. Len(s) /\ s[Place(s, e)] = e  BY PlaceProperties
<1>2. CASE Place(s, e) < Len(s)
  <2> DEFINE j == Place(s, e) + 1
  <2>1. j \in 1 .. Len(s) /\ j # Place(s, e)  BY <1>1, <1>2
  <2>2. s[j] # e /\ s[j] \in Range(s)  BY <1>1, <2>1 DEF IsInjective, Range
  <2> QED  BY <1>2, <2>2 DEF After
<1>3. CASE ~(Place(s, e) < Len(s))  BY <1>3 DEF After
<1> QED  BY <1>2, <1>3

\* The head of a list is on it, or there is none.
LEMMA HeadOfProperties ==
    ASSUME NEW S, NEW s \in Seq(S)
    PROVE  HeadOf(s) \in Range(s) \cup {NoVoice}
<1>1. CASE s = << >>  BY <1>1 DEF HeadOf
<1>2. CASE s # << >>
  <2>1. 1 \in DOMAIN s  BY <1>2, EmptySeq
  <2> QED  BY <1>2, <2>1 DEF HeadOf, Range
<1> QED  BY <1>1, <1>2

----------------------------------------------------------------------------
(***************************************************************************)
(* The inductive invariant.                                                *)
(***************************************************************************)

\* initAudioThread links every voice on the freelist.
LEMMA InitListInv == Init => ListInv
<1> SUFFICES ASSUME Init PROVE ListInv
  OBVIOUS
<1>1. free \in Seq(Voices) /\ DOMAIN free = Voices
      /\ \A i \in Voices : free[i] = VoiceCount + 1 - i
  BY ConstantsAssumption DEF Init, Voices
<1>2. audiolist \in Seq(Synths) /\ IsInjective(audiolist)
  BY ConstantsAssumption DEF Init, Synths, IsInjective
<1>3. Range(free) = Voices /\ IsInjective(free)
  <2>1. ASSUME NEW v \in Voices
        PROVE  v \in Range(free)
    <3>1. VoiceCount + 1 - v \in Voices /\ VoiceCount + 1 - (VoiceCount + 1 - v) = v
      BY ConstantsAssumption DEF Voices
    <3>2. free[VoiceCount + 1 - v] = v  BY <1>1, <3>1
    <3> QED  BY <1>1, <3>1, <3>2 DEF Range
  <2>2. Range(free) \subseteq Voices  BY <1>1, RangeOfSeq
  <2>3. IsInjective(free)  BY <1>1, ConstantsAssumption DEF IsInjective, Voices
  <2> QED  BY <2>1, <2>2, <2>3
<1>4. Range(play) = {} /\ Range(new) = {} /\ IsInjective(play) /\ IsInjective(new)
  BY DEF Init, Range, IsInjective
<1>5. TypeOK
  <2>1. /\ flags \in [Voices -> SUBSET Flag] /\ owner \in [Voices -> Synths \cup {NoSynth}]
        /\ keyid \in [Voices -> Keys] /\ mix \in [Synths -> SUBSET MixFlag]
    BY ConstantsAssumption DEF Init, Flag
  <2>2. gain \in [Voices -> [Synths -> 0 .. ReleasePeriods]]
    BY ConstantsAssumption DEF Init
  <2>3. /\ lvoices \in [Synths -> Nat] /\ cvoices \in [Synths -> Nat]
        /\ pedal \in [Synths -> PedalPosition] /\ msg \in Message
        /\ cur = NoVoice /\ mcur = NoVoice /\ mchan \in Channels
        /\ leaving = NoSynth /\ sent \in 0 .. MaxEvents /\ repeats \in Nat
        /\ freed = {} /\ keysdown = {} /\ sustained \in BOOLEAN /\ torn \in BOOLEAN
    <3>1. lvoices \in [Synths -> Nat] /\ cvoices \in [Synths -> Nat]  BY DEF Init
    <3>2. /\ pedal \in [Synths -> PedalPosition]
          /\ sustained \in BOOLEAN /\ torn \in BOOLEAN
      BY DEF Init, PedalPosition
    <3>3. msg \in Message /\ cur = NoVoice /\ mcur = NoVoice /\ mchan \in Channels
      BY DEF Init
    <3>4. leaving = NoSynth /\ sent \in 0 .. MaxEvents /\ repeats \in Nat
      BY ConstantsAssumption DEF Init
    <3>5. freed = {} /\ keysdown = {}  BY DEF Init
    <3> QED  BY <3>1, <3>2, <3>3, <3>4, <3>5
  <2>4. /\ play \in Seq(Voices) /\ new \in Seq(Voices)
        /\ ring \in Seq(Message) /\ todo \in Seq(Synths)
    BY DEF Init
  <2>5. phase \in Phases /\ mphase = "idle"  BY DEF Init, Phases
  <2> QED  BY <1>1, <1>2, <2>1, <2>2, <2>3, <2>4, <2>5 DEF TypeOK
<1>6. VoicesPartitioned  BY <1>3, <1>4 DEF VoicesPartitioned
<1>7. CursorOK  BY <1>2 DEF Init, CursorOK
<1> QED  BY <1>5, <1>6, <1>7 DEF ListInv

\* Every step of either thread keeps the lists whole.
LEMMA NextListInv == ListInv /\ [Next]_vars => ListInv'
<1> SUFFICES ASSUME ListInv, [Next]_vars PROVE ListInv'
  OBVIOUS
<1> USE DEF ListInv
<1>a. /\ free \in Seq(Voices) /\ play \in Seq(Voices) /\ new \in Seq(Voices)
      /\ todo \in Seq(Synths) /\ audiolist \in Seq(Synths)
      /\ flags \in [Voices -> SUBSET Flag]
      /\ owner \in [Voices -> Synths \cup {NoSynth}] /\ keyid \in [Voices -> Keys]
  BY DEF TypeOK
<1>g. ASSUME NEW F \in [Voices -> SUBSET Flag], AudioStore(F)
      PROVE  flags' \in [Voices -> SUBSET Flag]
  <2>1. CASE flags' = F  BY <2>1
  <2>2. CASE flags' = [F EXCEPT ![mcur] = flags[mcur]]
    <3>1. mcur \in Voices => flags[mcur] \in SUBSET Flag  BY <1>a
    <3> QED  BY <2>2, <3>1
  <2> QED  BY <1>g, <2>1, <2>2 DEF AudioStore
<1>h. ASSUME NEW v \in Voices, NEW f \in SUBSET Flag, AudioStore([flags EXCEPT ![v] = f])
      PROVE  flags' \in [Voices -> SUBSET Flag]
  <2>1. [flags EXCEPT ![v] = f] \in [Voices -> SUBSET Flag]  BY <1>a
  <2> QED  BY <1>g, <1>h, <2>1
<1>1. CASE OfferNote
  <2>1. todo # << >>  BY <1>1 DEF OfferNote
  <2>2. Head(todo) \in Synths /\ Tail(todo) \in Seq(Synths)  BY <1>a, <2>1, TailProperties
  <2>3. voicecount[Head(todo)] \in Nat  BY <2>2, ConstantsAssumption
  <2>4. repeats' \in Nat /\ todo' \in Seq(Synths) /\ (repeats' > 0 => todo' # << >>)
    <3>1. \/ repeats' \in {1, voicecount[Head(todo)]} /\ todo' = todo
          \/ repeats' = 0 /\ todo' = Tail(todo)
      BY <1>1 DEF OfferNote
    <3>2. CASE repeats' \in {1, voicecount[Head(todo)]} /\ todo' = todo
      <4>1. repeats' \in Nat  BY <2>3, <3>2
      <4>2. todo' \in Seq(Synths) /\ todo' # << >>  BY <1>a, <2>1, <3>2
      <4> QED  BY <4>1, <4>2
    <3>3. CASE repeats' = 0 /\ todo' = Tail(todo)
      <4>1. repeats' \in Nat /\ ~(repeats' > 0)  BY <3>3
      <4>2. todo' \in Seq(Synths)  BY <2>2, <3>3
      <4> QED  BY <4>1, <4>2
    <3> QED  BY <3>1, <3>2, <3>3
  <2>5. TypeOK'  BY <1>1, <2>4 DEF OfferNote, TypeOK, lists, voice, synth, note, midi
  <2>6. VoicesPartitioned'  BY <1>1 DEF OfferNote, VoicesPartitioned, lists
  <2>7. CursorOK'  BY <1>1, <2>4 DEF OfferNote, CursorOK, lists, synth, midi
  <2> QED  BY <2>5, <2>6, <2>7
<1>2. CASE NoteOnDone
  BY <1>2 DEF NoteOnDone, Resume, Phases, TypeOK, VoicesPartitioned, CursorOK,
              lists, voice, synth, walk, note, midi
<1>3. CASE TakeFree
  <2> DEFINE v == Head(free)
  <2>1. free # << >> /\ todo # << >>
    BY <1>3 DEF TakeFree, HasRoom, CursorOK
  <2>2. /\ v \in Voices /\ v \notin Range(Tail(free)) /\ IsInjective(Tail(free))
        /\ Tail(free) \in Seq(Voices) /\ Range(free) = Range(Tail(free)) \cup {v}
    BY <1>a, <2>1, TailProperties DEF VoicesPartitioned
  <2>3. Cons(v, new) \in Seq(Voices) /\ Range(Cons(v, new)) = Range(new) \cup {v}
    <3>1. v \in Voices /\ new \in Seq(Voices)  BY <1>a, <2>2
    <3> QED  BY <3>1, ConsProperties
  <2>4. IsInjective(Cons(v, new))
    BY <1>a, <2>2, ConsProperties DEF VoicesPartitioned
  <2>5. /\ free' = Tail(free) /\ new' = Cons(v, new) /\ play' = play
    BY <1>3 DEF TakeFree
  <2>6. Head(todo) \in Synths /\ Tail(todo) \in Seq(Synths)
    BY <1>a, <2>1, TailProperties
  <2>7. repeats' \in Nat /\ todo' \in Seq(Synths) /\ (repeats' > 0 => todo' # << >>)
    BY <1>3, <2>1, <2>6 DEF TakeFree, VoiceStarted, TypeOK
  <2>8. flags' \in [Voices -> SUBSET Flag]
    <3>1. AudioStore([flags EXCEPT ![v] = @ \ {"ON", "REON"}])  BY <1>3 DEF TakeFree
    <3>2. flags[v] \ {"ON", "REON"} \in SUBSET Flag  BY <1>a, <2>2
    <3> HIDE DEF v
    <3> QED  BY <1>h, <2>2, <3>1, <3>2
  <2>9. owner' \in [Voices -> Synths \cup {NoSynth}] /\ keyid' \in [Voices -> Keys]
    BY <1>3, <2>2, <2>6 DEF TakeFree, TypeOK, Message
  <2>10. TypeOK'
    BY <1>3, <2>2, <2>3, <2>5, <2>7, <2>8, <2>9 DEF TakeFree, TypeOK, synth, note, midi
  <2>11. VoicesPartitioned'
    BY <2>2, <2>3, <2>4, <2>5 DEF VoicesPartitioned
  <2>12. CursorOK'
    BY <1>3, <2>5, <2>7 DEF TakeFree, CursorOK, synth, midi
  <2> QED  BY <2>10, <2>11, <2>12
<1>4. CASE ReuseOnly
  <2>1. PICK i \in DOMAIN play :
          /\ AudioStore([flags EXCEPT ![play[i]] =
                (@ \ {"ON", "DONE", "OFF"}) \cup {"REON"}])
          /\ keyid' = [keyid EXCEPT ![play[i]] = msg.key]
    BY <1>4 DEF ReuseOnly
  <2>2. play[i] \in Voices  BY <1>a, <2>1
  <2>3. flags' \in [Voices -> SUBSET Flag]
    <3>1. (flags[play[i]] \ {"ON", "DONE", "OFF"}) \cup {"REON"} \in SUBSET Flag
      BY <1>a, <2>2 DEF Flag
    <3> QED  BY <1>h, <2>1, <2>2, <3>1
  <2>4. keyid' \in [Voices -> Keys]  BY <1>a, <2>1, <2>2 DEF TypeOK, Message
  <2>5. todo # << >>  BY <1>4 DEF ReuseOnly, CursorOK
  <2>6. Tail(todo) \in Seq(Synths)  BY <1>a, <2>5
  <2>7. repeats' \in Nat /\ todo' \in Seq(Synths) /\ (repeats' > 0 => todo' # << >>)
    <3>1. VoiceStarted /\ repeats > 0  BY <1>4 DEF ReuseOnly
    <3>2. repeats \in Nat  BY DEF TypeOK
    <3> QED  BY <1>a, <2>5, <2>6, <3>1, <3>2 DEF VoiceStarted
  <2>8. TypeOK'
    BY <1>4, <2>3, <2>4, <2>7 DEF ReuseOnly, TypeOK, lists, synth, note, midi
  <2>9. VoicesPartitioned'  BY <1>4 DEF ReuseOnly, VoicesPartitioned, lists
  <2>10. CursorOK'  BY <1>4, <2>7 DEF ReuseOnly, CursorOK, lists, synth, midi
  <2> QED  BY <2>8, <2>9, <2>10
<1>5. CASE StealVoice
  <2>1. todo # << >>  BY <1>5 DEF StealVoice, CursorOK
  <2>2. Tail(todo) \in Seq(Synths)  BY <1>a, <2>1
  <2>3. repeats' \in Nat /\ todo' \in Seq(Synths) /\ (repeats' > 0 => todo' # << >>)
    BY <1>5, <2>1, <2>2, <1>a DEF StealVoice, VoiceStarted, TypeOK
  <2>4. CASE UNCHANGED <<lists, flags, keyid>>
    <3>1. TypeOK'  BY <1>5, <2>3, <2>4 DEF StealVoice, TypeOK, lists, synth, note, midi
    <3>2. VoicesPartitioned'  BY <2>4 DEF VoicesPartitioned, lists
    <3>3. CursorOK'  BY <1>5, <2>3, <2>4 DEF StealVoice, CursorOK, lists, synth, midi
    <3> QED  BY <3>1, <3>2, <3>3
  <2>5. CASE ~UNCHANGED <<lists, flags, keyid>>
    <3>1. PICK v \in Range(play), F \in [Voices -> SUBSET Flag] :
            /\ play' = Unlink(play, v) /\ new' = Cons(v, new) /\ free' = free
            /\ keyid' = [keyid EXCEPT ![v] = msg.key]
            /\ AudioStore(F)
      <4>1. PICK i \in DOMAIN play :
              LET kept == flags[play[i]] \ {"ON", "REON"}
              IN  /\ play' = Unlink(play, play[i]) /\ new' = Cons(play[i], new)
                  /\ keyid' = [keyid EXCEPT ![play[i]] = msg.key]
                  /\ AudioStore([flags EXCEPT ![play[i]] =
                        IF owner[play[i]] = Head(todo) THEN kept \cup {"REON"} ELSE kept])
                  /\ free' = free
        BY <1>5, <2>5 DEF StealVoice
      <4>2. play[i] \in Voices /\ play[i] \in Range(play)  BY <1>a, <4>1 DEF Range
      <4> DEFINE F == [flags EXCEPT ![play[i]] =
                         IF owner[play[i]] = Head(todo)
                           THEN (flags[play[i]] \ {"ON", "REON"}) \cup {"REON"}
                           ELSE flags[play[i]] \ {"ON", "REON"}]
      <4>3. F \in [Voices -> SUBSET Flag]  BY <1>a, <4>2 DEF Flag
      <4>4. AudioStore(F)  BY <4>1
      <4> QED  BY <4>1, <4>2, <4>3, <4>4
    <3>2. v \in Voices  BY <1>a, <3>1, RangeOfSeq
    <3>3. /\ play' \in Seq(Voices) /\ IsInjective(play')
          /\ Range(play') = Range(play) \ {v}
      BY <1>a, <3>1, UnlinkProperties DEF VoicesPartitioned
    <3>4. new' \in Seq(Voices) /\ Range(new') = Range(new) \cup {v}
      BY <1>a, <3>1, <3>2, ConsProperties
    <3>5. v \notin Range(new) /\ v \notin Range(free)  BY <3>1 DEF VoicesPartitioned
    <3>6. IsInjective(new')
      BY <1>a, <3>1, <3>2, <3>5, ConsProperties DEF VoicesPartitioned
    <3>7. flags' \in [Voices -> SUBSET Flag]  BY <1>g, <3>1
    <3>8. keyid' \in [Voices -> Keys]  BY <1>a, <3>1, <3>2 DEF TypeOK, Message
    <3>9. TypeOK'
      BY <1>5, <2>3, <3>1, <3>3, <3>4, <3>7, <3>8
      DEF StealVoice, TypeOK, synth, note, midi
    <3>10. VoicesPartitioned'
      BY <3>1, <3>3, <3>4, <3>5, <3>6 DEF VoicesPartitioned
    <3>11. CursorOK'  BY <1>5, <2>3 DEF StealVoice, CursorOK, synth, midi
    <3> QED  BY <3>9, <3>10, <3>11
  <2> QED  BY <2>4, <2>5
<1>6. CASE OffLook
  <2>1. HeadOf(new) \in Range(new) \cup {NoVoice}  BY <1>a, HeadOfProperties
  <2>2. cur # NoVoice => After(play, cur) \in Range(play) \cup {NoVoice}
    BY <1>a, <1>6, AfterProperties DEF OffLook, CursorOK, VoicesPartitioned
  <2>3. Range(play) \subseteq Voices /\ Range(new) \subseteq Voices
    BY <1>a, RangeOfSeq
  <2>4. cur' \in Voices \cup {NoVoice} /\ phase' \in Phases /\ sustained' \in BOOLEAN
    BY <1>6, <2>1, <2>2, <2>3 DEF OffLook, TypeOK, Phases
  <2>5. TypeOK'
    BY <1>6, <2>4 DEF OffLook, TypeOK, lists, voice, synth, walk, midi
  <2>6. VoicesPartitioned'  BY <1>6 DEF OffLook, VoicesPartitioned, lists
  <2>7. CursorOK'
    BY <1>6, <2>1, <2>2 DEF OffLook, CursorOK, lists, synth, walk, midi
  <2> QED  BY <2>5, <2>6, <2>7
<1>7. CASE OffMark
  <2>1. cur \in Range(play) /\ cur \in Voices
    BY <1>a, <1>7, RangeOfSeq DEF OffMark, CursorOK
  <2>2. After(play, cur) \in Range(play) \cup {NoVoice}
    BY <1>a, <2>1, AfterProperties DEF VoicesPartitioned
  <2>3. Range(play) \subseteq Voices  BY <1>a, RangeOfSeq
  <2>4. flags' \in [Voices -> SUBSET Flag]
    BY <1>a, <1>7, <2>1 DEF OffMark, AudioStore, Scanning, Flag
  <2>5. TypeOK'
    BY <1>7, <2>2, <2>3, <2>4
    DEF OffMark, TypeOK, Phases, lists, voice, synth, note, walk, midi
  <2>6. VoicesPartitioned'  BY <1>7 DEF OffMark, VoicesPartitioned, lists
  <2>7. CursorOK'  BY <1>7, <2>2 DEF OffMark, CursorOK, lists, synth, walk, midi
  <2> QED  BY <2>5, <2>6, <2>7
<1>8. CASE OffNew
  <2>1. CASE cur = NoVoice
    BY <1>8, <2>1 DEF OffNew, Resume, Phases, TypeOK, VoicesPartitioned, CursorOK,
                      lists, voice, synth, walk, note, midi
  <2>2. CASE cur # NoVoice
    <3>1. cur \in Range(new) /\ cur \in Voices
      BY <1>a, <1>8, <2>2, RangeOfSeq DEF OffNew, CursorOK
    <3>2. After(new, cur) \in (Range(new) \ {cur}) \cup {NoVoice}
      BY <1>a, <3>1, AfterProperties DEF VoicesPartitioned
    <3>3. Range(new) \subseteq Voices  BY <1>a, RangeOfSeq
    <3>4. cur' = After(new, cur) /\ phase' = "offnew"
      BY <1>8, <2>2 DEF OffNew
    <3>5. CASE UNCHANGED lists
      <4>1. flags' \in [Voices -> SUBSET Flag]
        BY <1>a, <1>8, <3>1 DEF OffNew, AudioStore, Scanning, Flag
      <4>2. TypeOK'
        BY <1>8, <3>2, <3>3, <3>4, <3>5, <4>1
        DEF OffNew, TypeOK, Phases, lists, voice, synth, note, walk, midi
      <4>3. VoicesPartitioned'  BY <3>5 DEF VoicesPartitioned, lists
      <4>4. CursorOK'
        BY <1>8, <3>2, <3>4, <3>5 DEF OffNew, CursorOK, lists, synth, walk, midi
      <4> QED  BY <4>2, <4>3, <4>4
    <3>6. CASE ~UNCHANGED lists
      <4>1. /\ AudioStore([flags EXCEPT ![cur] = @ \ {"ON", "REON"}])
            /\ new' = Unlink(new, cur) /\ free' = Cons(cur, free) /\ play' = play
        BY <1>8, <2>2, <3>6 DEF OffNew, lists
      <4>2. flags' \in [Voices -> SUBSET Flag]
        BY <1>a, <3>1, <4>1 DEF AudioStore, Scanning, Flag
      <4>3. /\ new' \in Seq(Voices) /\ IsInjective(new')
            /\ Range(new') = Range(new) \ {cur}
        BY <1>a, <3>1, <4>1, UnlinkProperties DEF VoicesPartitioned
      <4>4. free' \in Seq(Voices) /\ Range(free') = Range(free) \cup {cur}
        BY <1>a, <3>1, <4>1, ConsProperties
      <4>5. cur \notin Range(play) /\ cur \notin Range(free)
        BY <3>1 DEF VoicesPartitioned
      <4>6. IsInjective(free')
        BY <1>a, <3>1, <4>1, <4>5, ConsProperties DEF VoicesPartitioned
      <4>7. TypeOK'
        BY <1>8, <3>2, <3>3, <3>4, <4>1, <4>2, <4>3, <4>4
        DEF OffNew, TypeOK, Phases, voice, synth, note, walk, midi
      <4>8. VoicesPartitioned'
        BY <3>1, <4>1, <4>3, <4>4, <4>5, <4>6 DEF VoicesPartitioned
      <4>9. CursorOK'
        BY <1>8, <3>2, <3>4, <4>3 DEF OffNew, CursorOK, synth, walk, midi
      <4> QED  BY <4>7, <4>8, <4>9
    <3> QED  BY <3>5, <3>6
  <2> QED  BY <2>1, <2>2
<1>9. CASE EmptyPeriod
  BY <1>9 DEF EmptyPeriod, TypeOK, VoicesPartitioned, CursorOK,
              lists, voice, synth, walk, note, midi
<1>10. CASE BeginPeriod
  BY <1>10 DEF BeginPeriod, Phases, TypeOK, VoicesPartitioned, CursorOK,
               lists, voice, synth, walk, note, midi
<1>11. ASSUME NEW m \in Message, StartNote(m),
              UNCHANGED <<lists, flags, voice, synth, mphase, mcur, mchan, leaving>>,
              ring' \in Seq(Message), sent' \in 0 .. MaxEvents
       PROVE  ListInv'
  <2>1. HeadOf(play) \in Range(play) \cup {NoVoice}  BY <1>a, HeadOfProperties
  <2>2. Range(play) \subseteq Voices  BY <1>a, RangeOfSeq
  <2>3. /\ msg' = m /\ phase' \in {"noteon", "noteoff"} /\ repeats' = 0
        /\ todo' \in Seq(Synths) /\ sustained' = sustained
        /\ keysdown' \subseteq Channels \X Keys
        /\ cur' \in Voices \cup {NoVoice}
        /\ phase' = "noteoff" => cur' = HeadOf(play)
    BY <1>a, <1>11, <2>1, <2>2 DEF StartNote, TypeOK, Message
  <2>4. TypeOK'
    BY <1>11, <2>3 DEF TypeOK, Phases, lists, voice, synth
  <2>5. VoicesPartitioned'  BY <1>11 DEF VoicesPartitioned, lists
  <2>6. CursorOK'  BY <1>11, <2>1, <2>3 DEF CursorOK, lists, synth
  <2> QED  BY <2>4, <2>5, <2>6
<1>12. CASE Drain
  <2>1. ring # << >> /\ ring \in Seq(Message)  BY <1>12 DEF Drain, TypeOK
  <2>2. Head(ring) \in Message /\ Tail(ring) \in Seq(Message)
    BY <2>1, HeadTailProperties
  <2>3. /\ StartNote(Head(ring)) /\ ring' = Tail(ring)
        /\ UNCHANGED <<lists, flags, voice, synth, midi>>
    BY <1>12 DEF Drain
  <2>4. sent' \in 0 .. MaxEvents  BY <2>3 DEF TypeOK, midi
  <2> QED  BY <1>11, <2>2, <2>3, <2>4 DEF midi
<1>13. CASE Drained
  <2>1. IsInjective(todo') /\ Range(todo') \subseteq Range(audiolist')
    BY <1>13 DEF Drained, CursorOK, synth
  <2>2. TypeOK'
    BY <1>13 DEF Drained, Phases, TypeOK, lists, voice, synth, note, midi
  <2>3. VoicesPartitioned'  BY <1>13 DEF Drained, VoicesPartitioned, lists
  <2>4. CursorOK'  BY <1>13, <2>1 DEF Drained, CursorOK, lists, synth, midi
  <2> QED  BY <2>2, <2>3, <2>4
<1>14. CASE RemoveSynth
  <2> DEFINE s == Head(todo)
  <2>1. todo # << >> /\ phase = "synths" /\ phase' \in {phase, "wait"}
    BY <1>14 DEF RemoveSynth
  <2>2. /\ s \in Synths /\ Tail(todo) \in Seq(Synths)
        /\ Range(todo) = Range(Tail(todo)) \cup {s}
    BY <1>a, <2>1, TailProperties
  <2>3. IsInjective(Tail(todo)) /\ s \notin Range(Tail(todo))
    BY <1>a, <2>1, TailProperties DEF CursorOK
  <2>4. s \in Range(audiolist)  BY <2>1, <2>2 DEF CursorOK
  <2>5. audiolist' = Unlink(audiolist, s) /\ todo' = Tail(todo)
    BY <1>14 DEF RemoveSynth
  <2>6. /\ audiolist' \in Seq(Synths) /\ IsInjective(audiolist')
        /\ Range(audiolist') = Range(audiolist) \ {s}
    BY <1>a, <2>4, <2>5, UnlinkProperties DEF CursorOK
  <2>7. Range(todo') \subseteq Range(audiolist')
    BY <2>1, <2>2, <2>3, <2>5, <2>6 DEF CursorOK
  <2>8. flags' \in [Voices -> SUBSET Flag]
    <3> DEFINE F == [v \in Voices |->
                       IF v \in Range(free) /\ owner[v] \in {s, NoSynth}
                       THEN flags[v] \cup {"DONE"} ELSE flags[v]]
    <3>1. AudioStore(F)  BY <1>14 DEF RemoveSynth
    <3>2. F \in [Voices -> SUBSET Flag]  BY <1>a DEF Flag
    <3> QED  BY <1>g, <3>1, <3>2
  <2>9. owner' \in [Voices -> Synths \cup {NoSynth}]
    BY <1>a, <1>14 DEF RemoveSynth
  <2>10. mix' \in [Synths -> SUBSET MixFlag]
    BY <1>14, <2>2 DEF RemoveSynth, TypeOK, MixFlag
  <2>11. TypeOK'
    BY <1>14, <2>2, <2>5, <2>6, <2>8, <2>9, <2>10
    DEF RemoveSynth, TypeOK, Phases, lists, note, midi
  <2>12. VoicesPartitioned'  BY <1>14 DEF RemoveSynth, VoicesPartitioned, lists
  <2>13. CursorOK'
    <3>1. IsInjective(todo')  BY <2>3, <2>5
    <3>2. UNCHANGED midi  BY <1>14 DEF RemoveSynth
    <3> QED  BY <2>1, <2>6, <2>7, <3>1, <3>2 DEF CursorOK, midi
  <2> QED  BY <2>11, <2>12, <2>13
<1>15. CASE CountSynth
  <2>1. todo # << >> /\ phase = "synths" /\ todo' = Tail(todo)
    BY <1>15 DEF CountSynth
  <2>2. /\ Head(todo) \in Synths /\ Tail(todo) \in Seq(Synths)
        /\ Range(todo) = Range(Tail(todo)) \cup {Head(todo)}
    BY <1>a, <2>1, TailProperties
  <2>3. IsInjective(Tail(todo))  BY <1>a, <2>1, TailProperties DEF CursorOK
  <2>4. lvoices' \in [Synths -> Nat] /\ cvoices' \in [Synths -> Nat]
    BY <1>15, <2>2 DEF CountSynth, TypeOK
  <2>5. TypeOK'
    BY <1>15, <2>2, <2>4 DEF CountSynth, TypeOK, lists, voice, note, midi
  <2>6. VoicesPartitioned'  BY <1>15 DEF CountSynth, VoicesPartitioned, lists
  <2>7. CursorOK'
    BY <1>15, <2>1, <2>2, <2>3 DEF CountSynth, CursorOK, lists, midi
  <2> QED  BY <2>5, <2>6, <2>7
<1>16. CASE SynthsDone
  <2>1. HeadOf(play) \in Range(play) \cup {NoVoice}  BY <1>a, HeadOfProperties
  <2>2. Range(play) \subseteq Voices  BY <1>a, RangeOfSeq
  <2>3. cur' = HeadOf(play) /\ phase' \in {"voices", "retire"}
    BY <1>16 DEF SynthsDone
  <2>4. TypeOK'
    BY <1>16, <2>1, <2>2, <2>3
    DEF SynthsDone, Phases, TypeOK, lists, voice, synth, walk, note, midi
  <2>5. VoicesPartitioned'  BY <1>16 DEF SynthsDone, VoicesPartitioned, lists
  <2>6. CursorOK'
    BY <1>16, <2>1, <2>3 DEF SynthsDone, CursorOK, lists, synth, midi
  <2> QED  BY <2>4, <2>5, <2>6
<1>17. CASE Retire
  <2>1. CASE cur = NoVoice
    BY <1>17, <2>1 DEF Retire, Phases, TypeOK, VoicesPartitioned, CursorOK,
                       lists, voice, synth, walk, note, midi
  <2>2. CASE cur # NoVoice
    <3>1. cur \in Range(play) /\ cur \in Voices
      BY <1>a, <1>17, <2>2, RangeOfSeq DEF Retire, CursorOK
    <3>2. After(play, cur) \in (Range(play) \ {cur}) \cup {NoVoice}
      BY <1>a, <3>1, AfterProperties DEF VoicesPartitioned
    <3>3. Range(play) \subseteq Voices  BY <1>a, RangeOfSeq
    <3>4. cur' = After(play, cur) /\ phase' = "retire"
      BY <1>17, <2>2 DEF Retire
    <3>5. CASE "DONE" \notin flags[cur]
      <4>1. UNCHANGED <<lists, flags>>  BY <1>17, <2>2, <3>5 DEF Retire
      <4>2. TypeOK'
        BY <1>17, <3>2, <3>3, <3>4, <4>1
        DEF Retire, TypeOK, Phases, lists, voice, synth, note, walk, midi
      <4>3. VoicesPartitioned'  BY <4>1 DEF VoicesPartitioned, lists
      <4>4. CursorOK'
        BY <1>17, <3>2, <3>4, <4>1 DEF Retire, CursorOK, lists, synth, walk, midi
      <4> QED  BY <4>2, <4>3, <4>4
    <3>6. CASE "DONE" \in flags[cur]
      <4>1. /\ AudioStore([flags EXCEPT ![cur] = @ \ {"OFFING"}])
            /\ play' = Unlink(play, cur) /\ free' = Append(free, cur) /\ new' = new
        BY <1>17, <2>2, <3>6 DEF Retire
      <4>2. flags' \in [Voices -> SUBSET Flag]
        BY <1>a, <3>1, <4>1 DEF AudioStore, Scanning, Flag
      <4>3. /\ play' \in Seq(Voices) /\ IsInjective(play')
            /\ Range(play') = Range(play) \ {cur}
        BY <1>a, <3>1, <4>1, UnlinkProperties DEF VoicesPartitioned
      <4>4. free' \in Seq(Voices) /\ Range(free') = Range(free) \cup {cur}
        BY <1>a, <3>1, <4>1, AppendRange
      <4>5. cur \notin Range(new) /\ cur \notin Range(free)
        BY <3>1 DEF VoicesPartitioned
      <4>6. IsInjective(free')
        BY <1>a, <3>1, <4>1, <4>5, AppendRange DEF VoicesPartitioned
      <4>7. TypeOK'
        BY <1>17, <3>2, <3>3, <3>4, <4>1, <4>2, <4>3, <4>4
        DEF Retire, TypeOK, Phases, voice, synth, note, walk, midi
      <4>8. VoicesPartitioned'
        BY <3>1, <4>1, <4>3, <4>4, <4>5, <4>6 DEF VoicesPartitioned
      <4>9. CursorOK'
        BY <1>17, <3>2, <3>4, <4>3 DEF Retire, CursorOK, synth, walk, midi
      <4> QED  BY <4>7, <4>8, <4>9
    <3> QED  BY <3>5, <3>6
  <2> QED  BY <2>1, <2>2
<1>18. CASE StartVoice
  <2>1. CASE new = << >>
    <3>1. HeadOf(play) \in Range(play) \cup {NoVoice}  BY <1>a, HeadOfProperties
    <3>2. Range(play) \subseteq Voices  BY <1>a, RangeOfSeq
    <3>3. /\ phase' = "voices" /\ cur' = HeadOf(play) /\ UNCHANGED <<lists, flags>>
          /\ UNCHANGED <<voice, synth, ring, note, walk, midi>>
      BY <1>18, <2>1 DEF StartVoice
    <3>4. TypeOK'
      BY <3>1, <3>2, <3>3 DEF TypeOK, Phases, lists, voice, synth, note, walk, midi
    <3>5. VoicesPartitioned'  BY <3>3 DEF VoicesPartitioned, lists
    <3>6. CursorOK'  BY <3>1, <3>3 DEF CursorOK, lists, synth, walk, midi
    <3> QED  BY <3>4, <3>5, <3>6
  <2>2. CASE new # << >>
    <3> DEFINE v == Head(new)
    <3>1. /\ v \in Voices /\ Tail(new) \in Seq(Voices)
          /\ Range(new) = Range(Tail(new)) \cup {v}
      BY <1>a, <2>2, TailProperties
    <3>2. IsInjective(Tail(new)) /\ v \notin Range(Tail(new))
      BY <1>a, <2>2, TailProperties DEF VoicesPartitioned
    <3>3. /\ new' = Tail(new) /\ play' = Cons(v, play)
          /\ UNCHANGED <<free, phase, cur, voice, synth, ring, note, walk, midi>>
      BY <1>18, <2>2 DEF StartVoice
    <3>4. Cons(v, play) \in Seq(Voices) /\ Range(Cons(v, play)) = Range(play) \cup {v}
      <4>1. v \in Voices /\ play \in Seq(Voices)  BY <1>a, <3>1
      <4> QED  BY <4>1, ConsProperties
    <3>5. v \notin Range(play) /\ v \notin Range(free)
      BY <3>1 DEF VoicesPartitioned
    <3>6. IsInjective(Cons(v, play))
      BY <1>a, <3>1, <3>5, ConsProperties DEF VoicesPartitioned
    <3>7. flags' \in [Voices -> SUBSET Flag]
      <4>1. AudioStore([flags EXCEPT ![v] = Started(@)])
        BY <1>18, <2>2 DEF StartVoice
      <4>2. Started(flags[v]) \in SUBSET Flag  BY <1>a, <3>1 DEF Started, Flag
      <4> QED  BY <1>h, <3>1, <4>1, <4>2
    <3>8. TypeOK'
      BY <3>1, <3>3, <3>4, <3>7 DEF TypeOK, voice, synth, note, walk, midi
    <3>9. VoicesPartitioned'
      BY <3>1, <3>2, <3>3, <3>4, <3>5, <3>6 DEF VoicesPartitioned
    <3>10. CursorOK'
      BY <1>18, <3>3 DEF StartVoice, CursorOK, synth, walk, midi
    <3> QED  BY <3>8, <3>9, <3>10
  <2> QED  BY <2>1, <2>2
<1>19. CASE RunOrphan
  <2>1. cur \in Range(play) /\ cur \in Voices
    BY <1>a, <1>19, RangeOfSeq DEF RunOrphan, CursorOK
  <2>2. /\ play' = Unlink(play, cur) /\ free' = Append(free, cur) /\ new' = new
        /\ cur' = NoVoice /\ phase' = "voices"
    BY <1>19 DEF RunOrphan
  <2>3. /\ play' \in Seq(Voices) /\ IsInjective(play')
        /\ Range(play') = Range(play) \ {cur}
    BY <1>a, <2>1, <2>2, UnlinkProperties DEF VoicesPartitioned
  <2>4. free' \in Seq(Voices) /\ Range(free') = Range(free) \cup {cur}
    BY <1>a, <2>1, <2>2, AppendRange
  <2>5. cur \notin Range(new) /\ cur \notin Range(free)
    BY <2>1 DEF VoicesPartitioned
  <2>6. IsInjective(free')
    BY <1>a, <2>1, <2>2, <2>5, AppendRange DEF VoicesPartitioned
  <2>7. TypeOK'
    BY <1>19, <2>2, <2>3, <2>4
    DEF RunOrphan, TypeOK, Phases, voice, synth, note, walk, midi
  <2>8. VoicesPartitioned'
    BY <2>1, <2>2, <2>3, <2>4, <2>5, <2>6 DEF VoicesPartitioned
  <2>9. CursorOK'  BY <1>19, <2>2 DEF RunOrphan, CursorOK, synth, walk, midi
  <2> QED  BY <2>7, <2>8, <2>9
<1>b. /\ cur \in Range(play) /\ phase = "voices" => After(play, cur) \in Range(play) \cup {NoVoice}
      /\ Range(play) \subseteq Voices /\ Range(new) \subseteq Voices /\ Range(free) \subseteq Voices
      /\ HeadOf(play) \in Range(play) \cup {NoVoice}
  BY <1>a, AfterProperties, HeadOfProperties, RangeOfSeq DEF VoicesPartitioned
<1>20. CASE SkipVoice
  <2>1. cur \in Range(play) /\ phase = "voices"  BY <1>20 DEF SkipVoice, CursorOK
  <2>2. cur' = After(play, cur) /\ cur' \in Range(play) \cup {NoVoice}
    BY <1>20, <1>b, <2>1 DEF SkipVoice
  <2>3. TypeOK'
    BY <1>20, <1>b, <2>2 DEF SkipVoice, TypeOK, lists, voice, synth, note, walk, midi
  <2>4. VoicesPartitioned'  BY <1>20 DEF SkipVoice, VoicesPartitioned, lists
  <2>5. CursorOK'
    BY <1>20, <2>1, <2>2 DEF SkipVoice, CursorOK, lists, synth, walk, midi
  <2> QED  BY <2>3, <2>4, <2>5
<1>21. CASE RunVoice
  <2> DEFINE s == owner[cur]
             g == gain[cur][s]
  <2>1. cur \in Range(play) /\ phase = "voices"  BY <1>21 DEF RunVoice, CursorOK
  <2>2. cur \in Voices /\ s \in Synths
    BY <1>21, <1>a, <1>b, <2>1 DEF RunVoice
  <2>3. cur' = After(play, cur) /\ cur' \in Range(play) \cup {NoVoice}
    BY <1>21, <1>b, <2>1 DEF RunVoice
  <2>4. g \in 0 .. ReleasePeriods /\ gain[cur] \in [Synths -> 0 .. ReleasePeriods]
    BY <2>2 DEF TypeOK
  <2>5. GainAfter(flags[cur], g) \in 0 .. ReleasePeriods
    BY <2>4, ConstantsAssumption DEF GainAfter
  <2>6. gain' \in [Voices -> [Synths -> 0 .. ReleasePeriods]]
    <3>1. gain' = gain \/ gain' = [gain EXCEPT ![cur] =
                            [gain[cur] EXCEPT ![s] = GainAfter(flags[cur], g)]]
      BY <1>21, <2>2, <2>4 DEF RunVoice, TypeOK
    <3>2. [gain[cur] EXCEPT ![s] = GainAfter(flags[cur], g)] \in [Synths -> 0 .. ReleasePeriods]
      BY <2>2, <2>4, <2>5
    <3>3. gain \in [Voices -> [Synths -> 0 .. ReleasePeriods]]  BY DEF TypeOK
    <3> HIDE DEF s, g
    <3> QED  BY <2>2, <3>1, <3>2, <3>3
  <2>7. FlagsAfter(flags[cur], g) \in SUBSET Flag
    BY <1>a, <2>2 DEF FlagsAfter, Flag
  <2>8. flags' \in [Voices -> SUBSET Flag]
    <3>1. PICK f \in SUBSET Flag : AudioStore([flags EXCEPT ![cur] = f])
      <4>1. flags[cur] \cup {"OFF"} \in SUBSET Flag  BY <1>a, <2>2 DEF Flag
      <4>2. \/ AudioStore([flags EXCEPT ![cur] = flags[cur] \cup {"OFF"}])
            \/ AudioStore([flags EXCEPT ![cur] = FlagsAfter(flags[cur], g)])
        BY <1>21, <1>a, <2>2 DEF RunVoice
      <4> QED  BY <2>7, <4>1, <4>2
    <3> QED  BY <1>h, <2>2, <3>1
  <2>9. cvoices' \in [Synths -> Nat]
    <3>1. cvoices' = [cvoices EXCEPT ![s] = @ + 1]  BY <1>21 DEF RunVoice
    <3>2. cvoices \in [Synths -> Nat] /\ cvoices[s] + 1 \in Nat  BY <2>2 DEF TypeOK
    <3> QED  BY <3>1, <3>2
  <2>10. TypeOK'
    BY <1>21, <1>b, <2>3, <2>6, <2>8, <2>9 DEF RunVoice, TypeOK, lists, note, walk, midi
  <2>11. VoicesPartitioned'  BY <1>21 DEF RunVoice, VoicesPartitioned, lists
  <2>12. CursorOK'
    BY <1>21, <2>1, <2>3 DEF RunVoice, CursorOK, lists, walk, midi
  <2> QED  BY <2>10, <2>11, <2>12
<1>22. CASE VoicesDone
  <2>1. TypeOK'
    BY <1>22 DEF VoicesDone, Phases, TypeOK, lists, voice, synth, walk, note, midi
  <2>2. VoicesPartitioned'  BY <1>22 DEF VoicesDone, VoicesPartitioned, lists
  <2>3. CursorOK'  BY <1>22 DEF VoicesDone, CursorOK, lists, synth, walk, midi
  <2> QED  BY <2>1, <2>2, <2>3
<1>23. CASE EndPeriod
  <2> DEFINE F == [v \in Voices |-> IF v \in Range(play)
                                    THEN flags[v] \ {"ON", "REON"} ELSE flags[v]]
  <2>1. AudioStore(F)  BY <1>23 DEF EndPeriod
  <2>2. F \in [Voices -> SUBSET Flag]  BY <1>a
  <2>3. flags' \in [Voices -> SUBSET Flag]
    BY <1>g, <2>1, <2>2
  <2>4. TypeOK'
    BY <1>23, <2>3 DEF EndPeriod, Phases, TypeOK, lists, voice, synth, walk, note, midi
  <2>5. VoicesPartitioned'  BY <1>23 DEF EndPeriod, VoicesPartitioned, lists
  <2>6. CursorOK'  BY <1>23 DEF EndPeriod, CursorOK, lists, synth, walk, midi
  <2> QED  BY <2>4, <2>5, <2>6
<1>c. ASSUME Deliver
      PROVE  sent' \in 0 .. MaxEvents /\ mphase = "idle"
  BY <1>c, ConstantsAssumption DEF Deliver, TypeOK
<1>24. ASSUME NEW m \in Message, QueueNote(m) PROVE ListInv'
  <2>1. sent' \in 0 .. MaxEvents  BY <1>24, <1>c DEF QueueNote
  <2>2. ring' \in Seq(Message)  BY <1>24 DEF QueueNote, TypeOK
  <2>3. TypeOK'
    BY <1>24, <2>1, <2>2 DEF QueueNote, TypeOK, lists, voice, synth, walk, note
  <2>4. VoicesPartitioned'  BY <1>24 DEF QueueNote, VoicesPartitioned, lists
  <2>5. CursorOK'  BY <1>24 DEF QueueNote, CursorOK, lists, synth, walk
  <2> QED  BY <2>3, <2>4, <2>5
<1>25. ASSUME NEW m \in Message, JackNote(m) PROVE ListInv'
  <2>1. sent' \in 0 .. MaxEvents  BY <1>25, <1>c DEF JackNote
  <2>2. ring' \in Seq(Message)  BY <1>25 DEF JackNote, TypeOK
  <2> QED  BY <1>11, <1>25, <2>1, <2>2 DEF JackNote
<1>d. ASSUME NEW kind \in {"sustoff", "alloff"}, NEW c \in Channels \cup {OMNI},
             StartScan(kind, c)
      PROVE  /\ mphase' \in {"sustoff", "alloff"}
             /\ mcur' \in Voices \cup {NoVoice} /\ mchan' \in Channels \cup {OMNI}
  BY <1>b, <1>d DEF StartScan
<1>26. ASSUME NEW c \in Channels, NEW p \in PedalPosition, Pedal(c, p) PROVE ListInv'
  <2>1. sent' \in 0 .. MaxEvents /\ mphase = "idle"  BY <1>26, <1>c DEF Pedal
  <2>2. pedal' \in [Synths -> PedalPosition]  BY <1>26 DEF Pedal, TypeOK
  <2>3. /\ mphase' \in {"idle", "sustoff", "alloff"}
        /\ mcur' \in Voices \cup {NoVoice} /\ mchan' \in Channels \cup {OMNI}
    BY <1>26, <1>d, <2>1 DEF Pedal, TypeOK
  <2>4. TypeOK'
    BY <1>26, <2>1, <2>2, <2>3 DEF Pedal, TypeOK, lists, voice, walk, note
  <2>5. VoicesPartitioned'  BY <1>26 DEF Pedal, VoicesPartitioned, lists
  <2>6. CursorOK'  BY <1>26, <2>3 DEF Pedal, CursorOK, lists, walk
  <2> QED  BY <2>4, <2>5, <2>6
<1>27. ASSUME NEW c \in Channels, NotesOff(c) PROVE ListInv'
  <2>1. sent' \in 0 .. MaxEvents  BY <1>27, <1>c DEF NotesOff
  <2>2. /\ mphase' \in {"sustoff", "alloff"}
        /\ mcur' \in Voices \cup {NoVoice} /\ mchan' \in Channels \cup {OMNI}
    BY <1>27, <1>d DEF NotesOff
  <2>3. TypeOK'
    BY <1>27, <2>1, <2>2 DEF NotesOff, TypeOK, lists, voice, synth, walk, note
  <2>4. VoicesPartitioned'  BY <1>27 DEF NotesOff, VoicesPartitioned, lists
  <2>5. CursorOK'  BY <1>27, <2>2 DEF NotesOff, CursorOK, lists, synth, walk
  <2> QED  BY <2>3, <2>4, <2>5
<1>h1. ASSUME NEW s \in Synths, NEW F \in SUBSET MixFlag, MixStore(s, F)
       PROVE  mix' \in [Synths -> SUBSET MixFlag]
  BY <1>h1 DEF MixStore, TypeOK
<1>28. ASSUME NEW s \in Synths, NEW on \in BOOLEAN, HoldKeys(s, on) PROVE ListInv'
  <2>1. sent' \in 0 .. MaxEvents /\ mphase = "idle"  BY <1>28, <1>c DEF HoldKeys
  <2>2. mix' \in [Synths -> SUBSET MixFlag]
    <3>1. /\ mix[s] \cup {"KEYHOLD"} \in SUBSET MixFlag
          /\ mix[s] \ {"KEYHOLD"} \in SUBSET MixFlag
      BY DEF TypeOK, MixFlag
    <3> QED  BY <1>28, <1>h1, <3>1 DEF HoldKeys
  <2>3. midichannel[s] \in Channels \cup {OMNI}  BY ConstantsAssumption
  <2>4. /\ mphase' \in {"idle", "sustoff", "alloff"}
        /\ mcur' \in Voices \cup {NoVoice} /\ mchan' \in Channels \cup {OMNI}
    BY <1>28, <1>d, <2>1, <2>3 DEF HoldKeys, TypeOK
  <2>5. TypeOK'
    BY <1>28, <2>1, <2>2, <2>4 DEF HoldKeys, TypeOK, lists, voice, walk, note
  <2>6. VoicesPartitioned'  BY <1>28 DEF HoldKeys, VoicesPartitioned, lists
  <2>7. CursorOK'  BY <1>28, <2>4 DEF HoldKeys, CursorOK, lists, walk
  <2> QED  BY <2>5, <2>6, <2>7
<1>29. ASSUME NEW s \in Synths, ExitSynth(s) PROVE ListInv'
  <2>1. sent' \in 0 .. MaxEvents  BY <1>29, <1>c DEF ExitSynth
  <2>2. mphase' = "alloff" /\ mcur' \in Voices \cup {NoVoice}
    BY <1>29, <1>b DEF ExitSynth
  <2>3. TypeOK'
    BY <1>29, <2>1, <2>2 DEF ExitSynth, TypeOK, lists, voice, synth, walk, note
  <2>4. VoicesPartitioned'  BY <1>29 DEF ExitSynth, VoicesPartitioned, lists
  <2>5. CursorOK'  BY <1>29, <2>2 DEF ExitSynth, CursorOK, lists, synth, walk
  <2> QED  BY <2>3, <2>4, <2>5
<1>e. ASSUME NEW v \in Voices PROVE NextVoice(v) \in Voices \cup {NoVoice}
  <2>1. v \in Range(play) \/ v \in Range(new) \/ v \in Range(free)
    BY DEF VoicesPartitioned
  <2>2. ASSUME v \in Range(play) PROVE After(play, v) \in Voices \cup {NoVoice}
    BY <1>a, <1>b, <2>2, AfterProperties DEF VoicesPartitioned
  <2>3. ASSUME v \in Range(new) PROVE After(new, v) \in Voices \cup {NoVoice}
    BY <1>a, <1>b, <2>3, AfterProperties DEF VoicesPartitioned
  <2>4. ASSUME v \in Range(free) PROVE After(free, v) \in Voices \cup {NoVoice}
    BY <1>a, <1>b, <2>4, AfterProperties DEF VoicesPartitioned
  <2> QED  BY <2>1, <2>2, <2>3, <2>4 DEF NextVoice
<1>f. ASSUME NEW v \in Voices, NEW f \in SUBSET Flag, MidiStore(v, f)
      PROVE  flags' \in [Voices -> SUBSET Flag]
  BY <1>a, <1>f DEF MidiStore
<1>30. CASE SustainedOff
  <2>1. mcur \in Voices  BY <1>30 DEF SustainedOff, TypeOK
  <2>2. flags' \in [Voices -> SUBSET Flag]
    <3>1. flags[mcur] \cup {"OFF"} \in SUBSET Flag  BY <1>a, <2>1 DEF Flag
    <3> QED  BY <1>30, <1>a, <1>f, <2>1, <3>1 DEF SustainedOff
  <2>3. mcur' \in Voices \cup {NoVoice}  BY <1>30, <1>e, <2>1 DEF SustainedOff
  <2>4. TypeOK'
    BY <1>30, <2>2, <2>3 DEF SustainedOff, TypeOK, lists, voice, synth, walk, note
  <2>5. VoicesPartitioned'  BY <1>30 DEF SustainedOff, VoicesPartitioned, lists
  <2>6. CursorOK'  BY <1>30 DEF SustainedOff, CursorOK, lists, synth, walk
  <2> QED  BY <2>4, <2>5, <2>6
<1>31. CASE VoiceOff
  <2>1. mcur \in Voices  BY <1>31 DEF VoiceOff, TypeOK
  <2>2. PICK f \in SUBSET Flag : MidiStore(mcur, f)
    <3>1. /\ {"OFF", "DONE"} \in SUBSET Flag /\ {"OFF", "DONE"} \ {"SUSTAIN"} \in SUBSET Flag
          /\ flags[mcur] \in SUBSET Flag /\ flags[mcur] \ {"SUSTAIN"} \in SUBSET Flag
      BY <1>a, <2>1 DEF Flag
    <3> QED  BY <1>31, <3>1 DEF VoiceOff
  <2>3. flags' \in [Voices -> SUBSET Flag]  BY <1>f, <2>1, <2>2
  <2>4. mcur' \in Voices \cup {NoVoice}  BY <1>31, <1>e, <2>1 DEF VoiceOff
  <2>5. TypeOK'
    BY <1>31, <2>3, <2>4 DEF VoiceOff, TypeOK, lists, voice, synth, walk, note
  <2>6. VoicesPartitioned'  BY <1>31 DEF VoiceOff, VoicesPartitioned, lists
  <2>7. CursorOK'  BY <1>31 DEF VoiceOff, CursorOK, lists, synth, walk
  <2> QED  BY <2>5, <2>6, <2>7
<1>32. CASE ScanDone
  <2>1. mix' \in [Synths -> SUBSET MixFlag] /\ torn' \in BOOLEAN
    <3>1. CASE leaving = NoSynth  BY <1>32, <3>1 DEF ScanDone, TypeOK
    <3>2. CASE leaving # NoSynth
      <4>1. leaving \in Synths /\ {"HOLDDOWN", "REMOVE"} \in SUBSET MixFlag
        BY <3>2 DEF TypeOK, MixFlag
      <4>2. MixStore(leaving, {"HOLDDOWN", "REMOVE"})  BY <1>32, <3>2 DEF ScanDone
      <4>3. torn' \in BOOLEAN  BY <1>32, <3>2 DEF ScanDone
      <4> QED  BY <1>h1, <4>1, <4>2, <4>3
    <3> QED  BY <3>1, <3>2
  <2>2. mphase' \in {"idle", "marked"} /\ (mphase' = "marked" => leaving # NoSynth)
    BY <1>32 DEF ScanDone
  <2>3. TypeOK'
    BY <1>32, <2>1, <2>2 DEF ScanDone, TypeOK, lists, voice, walk, note
  <2>4. VoicesPartitioned'  BY <1>32 DEF ScanDone, VoicesPartitioned, lists
  <2>5. CursorOK'  BY <1>32, <2>2 DEF ScanDone, CursorOK, lists, walk
  <2> QED  BY <2>3, <2>4, <2>5
<1>32a. CASE CheckLast
  <2>1. TypeOK'  BY <1>32a DEF CheckLast, TypeOK, lists, voice, synth, walk, note
  <2>2. VoicesPartitioned'  BY <1>32a DEF CheckLast, VoicesPartitioned, lists
  <2>3. CursorOK'  BY <1>32a DEF CheckLast, CursorOK, lists, synth, walk
  <2> QED  BY <2>1, <2>2, <2>3
<1>33. CASE FreeSynth
  <2>1. leaving \in Synths  BY <1>33 DEF FreeSynth, CursorOK, TypeOK
  <2>2. TypeOK'
    BY <1>33, <2>1 DEF FreeSynth, TypeOK, lists, voice, walk, note
  <2>3. VoicesPartitioned'  BY <1>33 DEF FreeSynth, VoicesPartitioned, lists
  <2>4. CursorOK'  BY <1>33 DEF FreeSynth, CursorOK, lists, walk
  <2> QED  BY <2>2, <2>3, <2>4
<1>34. CASE UNCHANGED vars
  <2>1. TypeOK'  BY <1>34 DEF vars, TypeOK
  <2>2. VoicesPartitioned'  BY <1>34 DEF vars, VoicesPartitioned
  <2>3. CursorOK'  BY <1>34 DEF vars, CursorOK
  <2> QED  BY <2>1, <2>2, <2>3
<1>35. CASE AudioStep
  BY <1>35, <1>1, <1>2, <1>3, <1>4, <1>5, <1>6, <1>7, <1>8, <1>9, <1>10, <1>12, <1>13,
     <1>14, <1>15, <1>16, <1>17, <1>18, <1>19, <1>20, <1>21, <1>22, <1>23
  DEF AudioStep
<1>36. CASE Event
  BY <1>36, <1>24, <1>25, <1>26, <1>27, <1>28, <1>29 DEF Event
<1>37. CASE MidiStep
  BY <1>37, <1>30, <1>31, <1>32, <1>32a, <1>33 DEF MidiStep
<1> QED  BY <1>34, <1>35, <1>36, <1>37 DEF Next

----------------------------------------------------------------------------
(***************************************************************************)
(* The theorems.                                                           *)
(***************************************************************************)

\* In every reachable state each list is well formed and every cursor of the
\* two threads stands on the list it walks.
THEOREM ListsAlwaysSound == Spec => []ListInv
<1>1. Init => ListInv  BY InitListInv
<1>2. ListInv /\ [Next]_vars => ListInv'  BY NextListInv
<1> QED  BY <1>1, <1>2, PTL DEF Spec

\* Every variable of audioMain, bristolVoice and Baudio keeps its type,
\* whatever the number of voices, emulators, keys and events.
THEOREM TypeCorrect == Spec => []TypeOK
<1>1. ListInv => TypeOK  BY DEF ListInv
<1> QED  BY <1>1, ListsAlwaysSound, PTL

\* No sequence of notes, steals, removals and period boundaries, with or
\* without the races of the MIDI thread on the flags, loses a voice from the
\* freelist, playlist and newlist or links it twice.
THEOREM VoicesNeverLost == Spec => []VoicesPartitioned
<1>1. ListInv => VoicesPartitioned  BY DEF ListInv
<1> QED  BY <1>1, ListsAlwaysSound, PTL

----------------------------------------------------------------------------
(***************************************************************************)
(* No voice keeps an emulator whose Baudio was given back.                 *)
(***************************************************************************)

\* No voice has an owner at the start.
LEMMA InitOwnersInv == Init => OwnersInv
<1> SUFFICES ASSUME Init PROVE OwnersInv
  OBVIOUS
<1>1. /\ owner = [v \in Voices |-> NoSynth] /\ freed = {}
      /\ phase = "wait" /\ mphase = "idle"
  BY DEF Init
<1> QED  BY <1>1 DEF OwnersInv

\* The part of OwnersInv about voices and loops, for a step that removes no
\* emulator and starts no voice.
LEMMA OwnersKept ==
    ASSUME OwnersInv,
           UNCHANGED <<owner, audiolist, freed, mphase, leaving, mix, torn>>,
           phase' \in {"noteon", "synths"} => Range(todo') \subseteq Range(audiolist)
    PROVE  OwnersInv'
<1>1. /\ owner' = owner /\ audiolist' = audiolist /\ freed' = freed
      /\ mphase' = mphase /\ leaving' = leaving /\ mix' = mix /\ torn' = torn
  OBVIOUS
<1> QED  BY <1>1 DEF OwnersInv, EngineGoesOn

\* No step leaves a voice with an owner that was freed.
LEMMA NextOwnersInv ==
    ASSUME ~SlowAudio, ListInv, OwnersInv, [Next]_vars
    PROVE  OwnersInv'
<1>a. /\ todo \in Seq(Synths) /\ audiolist \in Seq(Synths)
      /\ owner \in [Voices -> Synths \cup {NoSynth}]
      /\ phase \in Phases
      /\ free \in Seq(Voices) /\ play \in Seq(Voices)
  BY DEF ListInv, TypeOK
<1>b. ASSUME todo # << >>
      PROVE  /\ Range(todo) = Range(Tail(todo)) \cup {Head(todo)}
             /\ Head(todo) \in Synths
  BY <1>a, <1>b, TailProperties
<1>c. ASSUME VoiceStarted, phase = "noteon", repeats > 0
      PROVE  Range(todo') \subseteq Range(audiolist)
  <2>1. todo # << >>  BY <1>c DEF ListInv, CursorOK
  <2>2. Range(Tail(todo)) \subseteq Range(todo)  BY <1>b, <2>1
  <2>3. todo' = todo \/ todo' = Tail(todo)  BY <1>c DEF VoiceStarted
  <2> QED  BY <1>c, <2>2, <2>3 DEF OwnersInv
<1>1. CASE OfferNote
  <2>1. phase = "noteon" /\ todo # << >> /\ (todo' = todo \/ todo' = Tail(todo))
    BY <1>1 DEF OfferNote
  <2>2. Range(todo') \subseteq Range(audiolist)  BY <1>b, <2>1 DEF OwnersInv
  <2> QED  BY <1>1, <2>2, OwnersKept DEF OfferNote, voice, synth, midi
<1>2. CASE NoteOnDone
  <2>1. phase' \in {"wait", "drain"}  BY <1>2 DEF NoteOnDone, Resume
  <2> QED  BY <1>2, <2>1, OwnersKept DEF NoteOnDone, voice, synth, midi
<1>3. CASE TakeFree
  <2> DEFINE v == Head(free)
  <2>1. /\ phase = "noteon" /\ repeats > 0 /\ phase' = phase /\ VoiceStarted
        /\ owner' = [owner EXCEPT ![v] = Head(todo)]
        /\ UNCHANGED synth /\ UNCHANGED midi
    BY <1>3 DEF TakeFree
  <2>2. todo # << >>  BY <2>1 DEF ListInv, CursorOK
  <2>3. Head(todo) \in Range(audiolist)  BY <1>b, <2>1, <2>2 DEF OwnersInv
  <2>4. Range(todo') \subseteq Range(audiolist)  BY <1>c, <2>1
  <2>5. EngineGoesOn => \A w \in Voices : owner'[w] \in Range(audiolist) \cup {NoSynth}
    <3> HIDE DEF v
    <3> SUFFICES ASSUME EngineGoesOn, NEW w \in Voices
                 PROVE  owner'[w] \in Range(audiolist) \cup {NoSynth}
      OBVIOUS
    <3>1. owner'[w] = owner[w] \/ owner'[w] = Head(todo)  BY <1>a, <2>1
    <3> QED  BY <2>3, <3>1 DEF OwnersInv
  <2> QED  BY <2>1, <2>4, <2>5 DEF OwnersInv, EngineGoesOn, synth, midi
<1>4. CASE ReuseOnly
  <2>1. Range(todo') \subseteq Range(audiolist)  BY <1>4, <1>c DEF ReuseOnly
  <2> QED  BY <1>4, <2>1, OwnersKept DEF ReuseOnly, synth, midi
<1>5. CASE StealVoice
  <2>1. Range(todo') \subseteq Range(audiolist)  BY <1>5, <1>c DEF StealVoice
  <2> QED  BY <1>5, <2>1, OwnersKept DEF StealVoice, synth, midi
<1>6. CASE OffLook
  <2>1. phase' \in {"noteoff", "offmark", "offnew"}  BY <1>6 DEF OffLook
  <2> QED  BY <1>6, <2>1, OwnersKept DEF OffLook, voice, synth, midi
<1>7. CASE OffMark
  BY <1>7, OwnersKept DEF OffMark, voice, synth, midi
<1>8. CASE OffNew
  <2>1. phase' \in {"wait", "drain", "offnew"}  BY <1>8 DEF OffNew, Resume
  <2> QED  BY <1>8, <2>1, OwnersKept DEF OffNew, voice, synth, midi
<1>9. CASE EmptyPeriod
  BY <1>9, OwnersKept DEF EmptyPeriod, voice, synth, midi
<1>10. CASE BeginPeriod
  BY <1>10, OwnersKept DEF BeginPeriod, voice, synth, midi
<1>11. ASSUME NEW m \in Message, StartNote(m)
       PROVE  phase' \in {"noteon", "synths"} => Range(todo') \subseteq Range(audiolist)
  BY <1>11 DEF StartNote
<1>12. CASE Drain
  BY <1>12, OwnersKept DEF Drain, StartNote, voice, synth, midi
<1>13. CASE Drained
  BY <1>13, OwnersKept DEF Drained, voice, synth, midi
<1>14. CASE RemoveSynth
  <2> DEFINE s == Head(todo)
  <2>1. /\ todo # << >> /\ phase = "synths"
        /\ audiolist' = Unlink(audiolist, s) /\ todo' = Tail(todo)
        /\ mix' = [mix EXCEPT ![s] = (@ \cup {"HOLDDOWN"}) \ {"REMOVE"}]
        /\ UNCHANGED <<freed, torn, midi>>
    BY <1>14 DEF RemoveSynth
  <2>2. Range(todo) = Range(Tail(todo)) \cup {s} /\ s \in Synths  BY <1>b, <2>1
  <2>3. s \notin Range(Tail(todo))
    BY <1>a, <2>1, TailProperties DEF ListInv, CursorOK
  <2>4. s \in Range(audiolist)  BY <2>1, <2>2 DEF OwnersInv
  <2>5. Range(audiolist') = Range(audiolist) \ {s}
    BY <1>a, <2>1, <2>4, UnlinkProperties DEF ListInv, CursorOK
  <2>6. Range(todo') \subseteq Range(audiolist')
    BY <2>1, <2>2, <2>3, <2>5 DEF OwnersInv
  \* The audiolist was not empty, and after the last emulator nothing is said
  \* of the voices.
  <2>7. EngineGoesOn' => \A v \in Voices : owner'[v] \in Range(audiolist') \cup {NoSynth}
    <3> SUFFICES ASSUME EngineGoesOn'
                 PROVE  \A v \in Voices : owner'[v] \in Range(audiolist') \cup {NoSynth}
      OBVIOUS
    <3>1. ~(MidiWait /\ audiolist' = << >>)  BY DEF EngineGoesOn
    <3>2. owner' = [v \in Voices |-> IF Forgets(s, v) THEN NoSynth ELSE owner[v]]
      BY <1>14, <3>1 DEF RemoveSynth
    <3>3. EngineGoesOn
      <4>1. audiolist # << >>  BY <2>4 DEF Range
      <4> QED  BY <4>1 DEF EngineGoesOn
    <3> QED  BY <2>5, <3>2, <3>3 DEF OwnersInv, Forgets
  <2>8. ASSUME ~torn, mphase \in {"marked", "await"}, leaving \in Range(audiolist')
        PROVE  "REMOVE" \in mix'[leaving]
    <3> HIDE DEF s
    <3>1. leaving \in Range(audiolist) /\ leaving # s  BY <2>5, <2>8
    <3>2. mix'[leaving] = mix[leaving]
      <4>1. leaving \in Synths  BY <1>a, <3>1, RangeOfSeq
      <4> QED  BY <2>1, <3>1, <4>1 DEF ListInv, TypeOK
    <3> QED  BY <2>8, <3>1, <3>2 DEF OwnersInv
  <2>9. ~torn => Range(audiolist') \cap freed = {}  BY <2>5 DEF OwnersInv
  <2> QED  BY <2>1, <2>6, <2>7, <2>8, <2>9 DEF OwnersInv, midi
<1>15. CASE CountSynth
  <2>1. phase = "synths" /\ todo # << >> /\ todo' = Tail(todo)  BY <1>15 DEF CountSynth
  <2>2. Range(todo') \subseteq Range(audiolist)  BY <1>b, <2>1 DEF OwnersInv
  <2> QED  BY <1>15, <2>2, OwnersKept DEF CountSynth, voice, midi
<1>16. CASE SynthsDone
  <2>1. phase' \in {"voices", "retire"}  BY <1>16 DEF SynthsDone
  <2> QED  BY <1>16, <2>1, OwnersKept DEF SynthsDone, voice, synth, midi
<1>17. CASE Retire
  <2>1. phase' \in {"start", "retire"}  BY <1>17 DEF Retire
  <2> QED  BY <1>17, <2>1, OwnersKept DEF Retire, voice, synth, midi
<1>18. CASE StartVoice
  <2>1. phase' \in {"start", "voices"}  BY <1>18 DEF StartVoice
  <2> QED  BY <1>18, <2>1, OwnersKept DEF StartVoice, voice, synth, midi
<1>19. CASE RunOrphan
  BY <1>19, OwnersKept DEF RunOrphan, voice, synth, midi
<1>20. CASE SkipVoice
  BY <1>20, OwnersKept DEF SkipVoice, voice, synth, midi
<1>21. CASE RunVoice
  BY <1>21, OwnersKept DEF RunVoice, midi
<1>22. CASE VoicesDone
  BY <1>22, OwnersKept DEF VoicesDone, voice, synth, midi
<1>23. CASE EndPeriod
  BY <1>23, OwnersKept DEF EndPeriod, voice, synth, midi
<1>e. ASSUME UNCHANGED <<phase, todo>>
      PROVE  phase' \in {"noteon", "synths"} => Range(todo') \subseteq Range(audiolist)
  BY <1>e DEF OwnersInv
<1>24. ASSUME NEW m \in Message, QueueNote(m) PROVE OwnersInv'
  BY <1>24, <1>e, OwnersKept DEF QueueNote, voice, synth, walk
<1>25. ASSUME NEW m \in Message, JackNote(m) PROVE OwnersInv'
  <2>1. phase' \in {"noteon", "synths"} => Range(todo') \subseteq Range(audiolist)
    BY <1>25, <1>11 DEF JackNote
  <2> QED  BY <1>25, <2>1, OwnersKept DEF JackNote, voice, synth
\* The operations of the MIDI thread begin when it is idle, and it does not
\* wait for a removal yet.
<1>f. ASSUME UNCHANGED <<owner, audiolist, freed, phase, todo, torn>>,
             mphase' \notin {"marked", "await"}
      PROVE  OwnersInv'
  BY <1>f DEF OwnersInv, EngineGoesOn
<1>26. ASSUME NEW c \in Channels, NEW p \in PedalPosition, Pedal(c, p) PROVE OwnersInv'
  <2>1. mphase' \notin {"marked", "await"}  BY <1>26 DEF Pedal, Deliver, StartScan
  <2> QED  BY <1>26, <1>f, <2>1 DEF Pedal, voice, walk
<1>27. ASSUME NEW c \in Channels, NotesOff(c) PROVE OwnersInv'
  <2>1. mphase' \notin {"marked", "await"}  BY <1>27 DEF NotesOff, StartScan
  <2> QED  BY <1>27, <1>f, <2>1 DEF NotesOff, voice, synth, walk
<1>28. ASSUME NEW s \in Synths, NEW on \in BOOLEAN, HoldKeys(s, on) PROVE OwnersInv'
  <2>1. mphase' \notin {"marked", "await"}  BY <1>28 DEF HoldKeys, Deliver, StartScan
  <2> QED  BY <1>28, <1>f, <2>1 DEF HoldKeys, voice, walk
<1>29. ASSUME NEW s \in Synths, ExitSynth(s) PROVE OwnersInv'
  <2>1. mphase' \notin {"marked", "await"}  BY <1>29 DEF ExitSynth
  <2> QED  BY <1>29, <1>f, <2>1 DEF ExitSynth, voice, synth, walk
<1>30. CASE SustainedOff
  BY <1>30, <1>e, OwnersKept DEF SustainedOff, voice, synth, walk
<1>31. CASE VoiceOff
  BY <1>31, <1>e, OwnersKept DEF VoiceOff, voice, synth, walk
<1>32. CASE ScanDone
  <2>1. CASE leaving = NoSynth
    BY <1>32, <1>f, <2>1 DEF ScanDone, voice, walk
  <2>2. CASE leaving # NoSynth
    <3>1. (~torn' => ~torn /\ "REMOVE" \in mix'[leaving])  BY <1>32, <2>2 DEF ScanDone
    <3>2. UNCHANGED <<owner, audiolist, freed, phase, todo, leaving>>
      BY <1>32 DEF ScanDone, voice, walk
    <3> QED  BY <3>1, <3>2 DEF OwnersInv, EngineGoesOn
  <2> QED  BY <2>1, <2>2
<1>32a. CASE CheckLast
  <2>1. /\ UNCHANGED <<owner, audiolist, freed, phase, todo, leaving, mix, torn>>
        /\ mphase = "marked"
    BY <1>32a DEF CheckLast, voice, synth, walk
  <2> QED  BY <2>1 DEF OwnersInv, EngineGoesOn
<1>33. CASE FreeSynth
  <2>1. ~torn => leaving \notin Range(audiolist)
    BY <1>33 DEF FreeSynth, OwnersInv
  <2>2. /\ freed' = freed \cup {leaving} /\ mphase' = "idle"
        /\ UNCHANGED <<owner, audiolist, phase, todo, torn>>
    BY <1>33 DEF FreeSynth, voice, walk
  <2> QED  BY <2>1, <2>2 DEF OwnersInv, EngineGoesOn
<1>34. CASE UNCHANGED vars
  BY <1>34, <1>e, OwnersKept DEF vars
<1>35. CASE AudioStep
  BY <1>35, <1>1, <1>2, <1>3, <1>4, <1>5, <1>6, <1>7, <1>8, <1>9, <1>10, <1>12, <1>13,
     <1>14, <1>15, <1>16, <1>17, <1>18, <1>19, <1>20, <1>21, <1>22, <1>23
  DEF AudioStep
<1>36. CASE Event
  BY <1>36, <1>24, <1>25, <1>26, <1>27, <1>28, <1>29 DEF Event
<1>37. CASE MidiStep
  BY <1>37, <1>30, <1>31, <1>32, <1>32a, <1>33 DEF MidiStep
<1> QED  BY <1>34, <1>35, <1>36, <1>37 DEF Next

\* Of an engine that goes on, as long as the audio thread answers before the
\* exit timeout runs out and its own updates of mixflags have not undone a
\* store of BRISTOL_REMOVE: no voice, and no walk over the emulators, refers to
\* a Baudio that was given back, in whatever order the two threads take their
\* steps on the voices, the emulators and the flags (BRISTOL_EXIT_ALGO and the
\* removal in doAudioOps).
THEOREM NoVoiceOutlivesItsEmulator == ASSUME ~SlowAudio PROVE Spec => []NoFreedOwner
<1>1. Init => ListInv /\ OwnersInv  BY InitListInv, InitOwnersInv
<1>2. ListInv /\ OwnersInv /\ [Next]_vars => (ListInv /\ OwnersInv)'
  BY NextListInv, NextOwnersInv
<1>3. ListInv /\ OwnersInv => NoFreedOwner
  <2> SUFFICES ASSUME ListInv, OwnersInv PROVE NoFreedOwner
    OBVIOUS
  <2>1. freed \subseteq Synths /\ NoSynth \notin Synths
    BY DEF ListInv, TypeOK, Synths, NoSynth
  <2> QED  BY <2>1 DEF OwnersInv, NoFreedOwner, FreedInUse
<1> QED  BY <1>1, <1>2, <1>3, PTL DEF Spec

----------------------------------------------------------------------------
(***************************************************************************)
(* One Jack registration: what a period and a scan leave behind.           *)
(***************************************************************************)

\* A loop over a list passes one voice at a time, and none twice.
LEMMA PassedProperties ==
    ASSUME NEW S, NoVoice \notin S, NEW s \in Seq(S), IsInjective(s)
    PROVE  /\ Passed(s, NoVoice) = Range(s)
           /\ Passed(s, HeadOf(s)) = {}
           /\ \A e \in Range(s) : /\ e \notin Passed(s, e)
                                  /\ Passed(s, After(s, e)) = Passed(s, e) \cup {e}
<1>1. Len(s) \in Nat /\ DOMAIN s = 1 .. Len(s) /\ Range(s) \subseteq S
  BY LenProperties, RangeOfSeq
<1>2. ASSUME NEW i \in 1 .. Len(s) PROVE Place(s, s[i]) = i /\ s[i] \in Range(s)
  <2>1. s[i] \in Range(s)  BY <1>1 DEF Range
  <2>2. Place(s, s[i]) \in 1 .. Len(s) /\ s[Place(s, s[i])] = s[i]
    BY <2>1, PlaceProperties
  <2> QED  BY <1>1, <2>1, <2>2 DEF IsInjective
<1>3. ASSUME NEW e \in Range(s)
      PROVE  Place(s, e) \in 1 .. Len(s) /\ s[Place(s, e)] = e /\ e # NoVoice
  BY <1>1, <1>3, PlaceProperties
<1>4. Passed(s, NoVoice) = Range(s)  BY DEF Passed
<1>5. Passed(s, HeadOf(s)) = {}
  <2>1. CASE s = << >>
    <3>1. Range(s) = {}  BY <2>1 DEF Range
    <3> QED  BY <3>1 DEF Passed
  <2>2. CASE s # << >>
    <3>1. 1 \in 1 .. Len(s)  BY <1>1, <2>2, EmptySeq
    <3>2. HeadOf(s) = s[1] /\ Place(s, s[1]) = 1 /\ s[1] # NoVoice
      BY <1>2, <1>3, <2>2, <3>1 DEF HeadOf
    <3>3. \A w \in Range(s) : ~(Place(s, w) < 1)  BY <1>1, <1>3
    <3> QED  BY <3>2, <3>3 DEF Passed
  <2> QED  BY <2>1, <2>2
<1>6. ASSUME NEW e \in Range(s)
      PROVE  e \notin Passed(s, e) /\ Passed(s, After(s, e)) = Passed(s, e) \cup {e}
  <2> DEFINE p == Place(s, e)
  <2>1. p \in 1 .. Len(s) /\ s[p] = e /\ e # NoVoice  BY <1>3
  <2>2. e \notin Passed(s, e)  BY <1>1, <2>1 DEF Passed
  <2>3. \A w \in Range(s) : Place(s, w) = p <=> w = e  BY <1>3, <2>1
  <2>4. CASE p < Len(s)
    <3>1. p + 1 \in 1 .. Len(s)  BY <1>1, <2>1, <2>4
    <3>2. After(s, e) = s[p + 1]  BY <2>4 DEF After
    <3>3. After(s, e) # NoVoice /\ Place(s, After(s, e)) = p + 1
      BY <1>2, <1>3, <3>1, <3>2
    <3>4. \A w \in Range(s) : Place(s, w) < p + 1 <=> Place(s, w) < p \/ Place(s, w) = p
      BY <1>1, <1>3, <2>1
    <3> QED  BY <2>1, <2>2, <2>3, <3>3, <3>4 DEF Passed
  <2>5. CASE ~(p < Len(s))
    <3>1. After(s, e) = NoVoice  BY <2>5 DEF After
    <3>2. \A w \in Range(s) : Place(s, w) < p \/ Place(s, w) = p
      BY <1>1, <1>3, <2>1, <2>5
    <3> QED  BY <1>4, <2>1, <2>2, <2>3, <3>1, <3>2 DEF Passed
  <2> QED  BY <2>2, <2>4, <2>5
<1> QED  BY <1>4, <1>5, <1>6

\* A loop that unlinks the voice it stands at still has the others before it.
LEMMA UnlinkToPass ==
    ASSUME NEW S, NoVoice \notin S, NEW s \in Seq(S), IsInjective(s), NEW e \in Range(s)
    PROVE  ToPass(s, e) \ {e} \subseteq ToPass(Unlink(s, e), After(s, e))
<1> DEFINE u == Unlink(s, e)
           p == Place(s, e)
           n == Len(s)
<1>1. n \in Nat /\ DOMAIN s = 1 .. n /\ Range(s) \subseteq S /\ p \in 1 .. n /\ s[p] = e
  BY LenProperties, RangeOfSeq, PlaceProperties
<1>2. /\ u \in Seq(S) /\ Len(u) = n - 1 /\ IsInjective(u) /\ Range(u) = Range(s) \ {e}
      /\ \A i \in 1 .. n - 1 : u[i] = s[IF i < p THEN i ELSE i + 1]
  BY UnlinkElements, UnlinkProperties
<1>3. After(s, e) = IF p < n THEN s[p + 1] ELSE NoVoice  BY DEF After
<1> HIDE DEF u, p, n
<1> SUFFICES ASSUME NEW w \in ToPass(s, e), w # e
             PROVE  w \in ToPass(u, After(s, e))
  BY DEF u
<1>4. w \in Range(s) /\ e # NoVoice /\ ~(Place(s, w) < p)
  BY <1>1 DEF ToPass, Passed, p
<1> DEFINE j == Place(s, w)
<1>5. j \in 1 .. n /\ s[j] = w  BY <1>4, PlaceProperties DEF n
<1> HIDE DEF j
<1>6. j > p  BY <1>1, <1>4, <1>5 DEF j
<1>7. DOMAIN u = 1 .. n - 1  BY <1>2, LenProperties
<1>8. \A i \in 1 .. n - 1 : u[i] \in Range(u) /\ Place(u, u[i]) = i
  <2> SUFFICES ASSUME NEW i \in 1 .. n - 1
               PROVE  u[i] \in Range(u) /\ Place(u, u[i]) = i
    OBVIOUS
  <2>1. u[i] \in Range(u)  BY <1>7 DEF Range
  <2>2. Place(u, u[i]) \in 1 .. n - 1 /\ u[Place(u, u[i])] = u[i]
    BY <1>2, <2>1, PlaceProperties
  <2> QED  BY <1>2, <1>7, <2>1, <2>2 DEF IsInjective
<1>9. j - 1 \in 1 .. n - 1 /\ p \in 1 .. n - 1 /\ p < n /\ ~(j - 1 < p) /\ (j - 1) + 1 = j
  BY <1>1, <1>5, <1>6
<1>10. u[j - 1] = w /\ u[p] = s[p + 1]
  <2>1. u[j - 1] = s[(j - 1) + 1]  BY <1>2, <1>9
  <2>2. u[p] = s[p + 1]  BY <1>1, <1>2, <1>9
  <2> QED  BY <1>5, <1>9, <2>1, <2>2
<1>11. Place(u, w) = j - 1 /\ Place(u, After(s, e)) = p /\ w \in Range(u)
       /\ After(s, e) \in Range(u)
  BY <1>3, <1>8, <1>9, <1>10
<1>12. After(s, e) # NoVoice  BY <1>1, <1>2, <1>11
<1> QED  BY <1>9, <1>11, <1>12 DEF ToPass, Passed

\* Between two periods nothing is scanned and nothing is counted late.
LEMMA InitJackInv == Init => JackInv
<1> SUFFICES ASSUME Init PROVE JackInv
  OBVIOUS
<1>1. /\ play = << >> /\ new = << >> /\ phase = "wait" /\ mphase = "idle"
      /\ mix = [s \in Synths |-> {}] /\ leaving = NoSynth
      /\ audiolist = [i \in Synths |-> SynthCount + 1 - i]
  BY DEF Init
<1>2. Range(play) = {} /\ Range(new) = {}  BY <1>1 DEF Range
<1>3. Range(audiolist) = Synths
  <2>1. \A i \in Synths : /\ SynthCount + 1 - i \in Synths
                          /\ SynthCount + 1 - (SynthCount + 1 - i) = i
    BY ConstantsAssumption DEF Synths
  <2>2. DOMAIN audiolist = Synths /\ \A i \in Synths : audiolist[i] = SynthCount + 1 - i
    BY <1>1
  <2>3. ASSUME NEW s \in Synths PROVE s \in Range(audiolist)
    <3>1. SynthCount + 1 - s \in Synths /\ audiolist[SynthCount + 1 - s] = s
      BY <2>1, <2>2
    <3> QED  BY <2>2, <3>1 DEF Range
  <2>4. Range(audiolist) \subseteq Synths  BY <2>1, <2>2 DEF Range
  <2> QED  BY <2>3, <2>4
<1>4. JackTurns  BY <1>1, <1>3 DEF JackTurns
<1> QED  BY <1>1, <1>2, <1>4 DEF JackInv, InUse, PeriodInv, ScanInv

\* The callback's stores are never overwritten: no other thread runs.
LEMMA JackStores ==
    ASSUME Direct, JackTurns
    PROVE  /\ AudioTurn => \A F : AudioStore(F) => flags' = F
           /\ Scanning => \A v, f : MidiStore(v, f) => flags' = [flags EXCEPT ![v] = f]
BY DEF JackTurns, AudioTurn, AudioStore, MidiStore, Scanning

\* With a single Jack registration a period is not interrupted by events.
LEMMA NextJackTurns ==
    ASSUME Direct, Expiring = {}, ListInv, JackTurns, [Next]_vars
    PROVE  JackTurns' /\ ~RemoveSynth
<1>a. ~RemoveSynth
  <2> SUFFICES ASSUME RemoveSynth PROVE FALSE
    OBVIOUS
  <2>1. todo # << >> /\ todo \in Seq(Synths)
    BY DEF RemoveSynth, ListInv, TypeOK
  <2>2. Head(todo) \in Synths  BY <2>1, TailProperties
  <2>3. mix[Head(todo)] = {}  BY <2>2 DEF JackTurns
  <2> QED  BY <2>3 DEF RemoveSynth
<1>b. HeadOf(play) \in Range(play) \cup {NoVoice}
  BY HeadOfProperties DEF ListInv, TypeOK
<1>1. CASE AudioStep
  <2>1. mphase = "idle" /\ UNCHANGED midi /\ UNCHANGED <<mix, audiolist>>
    BY <1>1, <1>a DEF AudioStep, AudioTurn, OfferNote, NoteOnDone, TakeFree, ReuseOnly,
         StealVoice, OffLook, OffMark, OffNew, EmptyPeriod, BeginPeriod, Drain, Drained,
         CountSynth, SynthsDone, Retire, StartVoice, RunOrphan, SkipVoice, RunVoice,
         VoicesDone, EndPeriod, synth
  <2> QED  BY <2>1, <1>a DEF JackTurns, midi
<1>2. CASE Event
  <2>1. ASSUME NEW m \in Message, QueueNote(m) PROVE FALSE
    BY <2>1 DEF QueueNote
  <2>2. ASSUME NEW m \in Message, JackNote(m) PROVE JackTurns'
    BY <2>2 DEF JackNote, Deliver, JackTurns, synth
  <2>3. ASSUME NEW c \in Channels, NotesOff(c) PROVE JackTurns'
    BY <1>b, <2>3 DEF NotesOff, StartScan, Deliver, JackTurns, synth, lists
  <2>4. ASSUME NEW c \in Channels, NEW p \in PedalPosition, Pedal(c, p) PROVE JackTurns'
    BY <1>b, <2>4 DEF Pedal, StartScan, Deliver, JackTurns, lists
  <2>5. ASSUME NEW s \in Synths, ExitSynth(s) PROVE FALSE
    BY <2>5 DEF ExitSynth
  <2>6. ASSUME NEW s \in Synths, NEW on \in BOOLEAN, HoldKeys(s, on) PROVE FALSE
    BY <2>6 DEF HoldKeys
  <2> QED  BY <1>2, <1>a, <2>1, <2>2, <2>3, <2>4, <2>5, <2>6 DEF Event
<1>3. CASE MidiStep
  <2>1. ASSUME mcur # NoVoice, mphase \in {"sustoff", "alloff"}
        PROVE  NextVoice(mcur) \in Range(play) \cup {NoVoice}
    <3>1. mcur \in Range(play)  BY <2>1 DEF JackTurns
    <3>2. NextVoice(mcur) = After(play, mcur)
      BY <3>1 DEF NextVoice, ListInv, VoicesPartitioned
    <3> QED  BY <3>1, <3>2, AfterProperties DEF ListInv, TypeOK, VoicesPartitioned
  <2>2. CASE SustainedOff
    BY <1>a, <2>1, <2>2 DEF SustainedOff, JackTurns, synth, lists
  <2>3. CASE VoiceOff
    BY <1>a, <2>1, <2>3 DEF VoiceOff, JackTurns, synth, lists
  <2>4. CASE ScanDone
    BY <1>a, <2>4 DEF ScanDone, JackTurns
  <2>5. ~CheckLast /\ ~FreeSynth
    BY DEF CheckLast, FreeSynth, JackTurns
  <2> QED  BY <1>3, <2>2, <2>3, <2>4, <2>5 DEF MidiStep
<1>4. CASE UNCHANGED vars
  BY <1>a, <1>4 DEF vars, JackTurns
<1> QED  BY <1>1, <1>2, <1>3, <1>4 DEF Next

\* A voice in use keeps its emulator, and one that is triggered is not done.
LEMMA NextInUse ==
    ASSUME Direct, Expiring = {}, ListInv, JackTurns, InUse, [Next]_vars
    PROVE  InUse'
<1>a. /\ free \in Seq(Voices) /\ play \in Seq(Voices) /\ new \in Seq(Voices)
      /\ IsInjective(free) /\ IsInjective(play) /\ IsInjective(new)
      /\ Range(free) \subseteq Voices /\ Range(play) \subseteq Voices
      /\ Range(new) \subseteq Voices
      /\ Range(play) \cap Range(new) = {} /\ Range(free) \cap Range(play) = {}
      /\ todo \in Seq(Synths)
      /\ flags \in [Voices -> SUBSET Flag]
      /\ owner \in [Voices -> Synths \cup {NoSynth}]
      /\ NoSynth \notin Synths
  BY RangeOfSeq DEF ListInv, TypeOK, VoicesPartitioned, NoSynth, Synths
<1>b. ~RemoveSynth  BY NextJackTurns
\* A step that changes the flags of one voice only, keeps that voice in use
\* and puts no other voice on the lists.
<1>c. ASSUME NEW v \in Voices, NEW f, flags' = [flags EXCEPT ![v] = f],
             UNCHANGED owner,
             Range(play') \subseteq Range(play) \cup {v},
             Range(new') \subseteq Range(new) \cup {v},
             v \in Range(play') \cup Range(new') => owner[v] # NoSynth,
             v \in Range(play') /\ f \cap {"ON", "REON"} # {} => "DONE" \notin f
      PROVE  InUse'
  <2>1. ASSUME NEW w \in Range(play') \cup Range(new') PROVE owner'[w] # NoSynth
    BY <1>c, <2>1 DEF InUse
  <2>2. ASSUME NEW w \in Range(play'), flags'[w] \cap {"ON", "REON"} # {}
        PROVE  "DONE" \notin flags'[w]
    <3>1. CASE w = v  BY <1>a, <1>c, <2>2, <3>1
    <3>2. CASE w # v
      <4>1. w \in Range(play) /\ flags'[w] = flags[w]  BY <1>a, <1>c, <3>2
      <4> QED  BY <2>2, <4>1 DEF InUse, Triggered
    <3> QED  BY <3>1, <3>2
  <2> QED  BY <2>1, <2>2 DEF InUse, Triggered
<1>d. ASSUME UNCHANGED <<flags, owner, play, new>> PROVE InUse'
  BY <1>d DEF InUse, Triggered
<1>1. CASE TakeFree
  <2> DEFINE v == Head(free)
  <2>1. /\ free # << >> /\ todo # << >>
    BY <1>1 DEF TakeFree, HasRoom, ListInv, CursorOK
  <2>2. v \in Voices /\ v \in Range(free) /\ Head(todo) \in Synths
    BY <1>a, <2>1, TailProperties
  <2>3. Range(Cons(v, new)) = Range(new) \cup {v}
    <3> HIDE DEF v
    <3> QED  BY <1>a, <2>2, ConsProperties
  <2>4. /\ owner' = [owner EXCEPT ![v] = Head(todo)] /\ play' = play /\ new' = Cons(v, new)
        /\ flags' = [flags EXCEPT ![v] = @ \ {"ON", "REON"}]
    BY <1>1, JackStores DEF TakeFree
  <2>5. \A w \in Range(play) : owner'[w] = owner[w] /\ flags'[w] = flags[w]
    <3> HIDE DEF v
    <3> QED  BY <1>a, <2>2, <2>4
  <2>6. \A w \in Range(new) \cup {v} : owner'[w] = owner[w] \/ owner'[w] = Head(todo)
    <3> HIDE DEF v
    <3> QED  BY <1>a, <2>2, <2>4
  <2>7. owner'[v] = Head(todo) /\ Head(todo) # NoSynth
    <3> HIDE DEF v
    <3> QED  BY <1>a, <2>2, <2>4
  <2> HIDE DEF v
  <2>8. \A w \in Range(play') \cup Range(new') : owner'[w] # NoSynth
    BY <2>3, <2>4, <2>5, <2>6, <2>7 DEF InUse
  <2> QED  BY <2>4, <2>5, <2>8 DEF InUse, Triggered
<1>2. CASE ReuseOnly
  <2>1. PICK i \in DOMAIN play :
          AudioStore([flags EXCEPT ![play[i]] = (@ \ {"ON", "DONE", "OFF"}) \cup {"REON"}])
    BY <1>2 DEF ReuseOnly
  <2> DEFINE v == play[i]
             f == (flags[v] \ {"ON", "DONE", "OFF"}) \cup {"REON"}
  <2>2. v \in Range(play) /\ v \in Voices  BY <1>a DEF Range
  <2>3. flags' = [flags EXCEPT ![v] = f] /\ UNCHANGED <<owner, play, new>>
    BY <1>2, <2>1, JackStores DEF ReuseOnly, lists
  <2>4. owner[v] # NoSynth /\ "DONE" \notin f  BY <2>2 DEF InUse
  <2> HIDE DEF v, f
  <2> QED  BY <1>c, <2>2, <2>3, <2>4
<1>3. CASE StealVoice
  <2>1. CASE UNCHANGED <<lists, flags, keyid>>
    BY <1>3, <1>d, <2>1 DEF StealVoice, lists
  <2>2. CASE ~UNCHANGED <<lists, flags, keyid>>
    <3>1. PICK i \in DOMAIN play :
            LET kept == flags[play[i]] \ {"ON", "REON"}
            IN  /\ play' = Unlink(play, play[i]) /\ new' = Cons(play[i], new)
                /\ AudioStore([flags EXCEPT ![play[i]] =
                      IF owner[play[i]] = Head(todo) THEN kept \cup {"REON"} ELSE kept])
      BY <1>3, <2>2 DEF StealVoice
    <3> DEFINE v == play[i]
               f == IF owner[v] = Head(todo) THEN (flags[v] \ {"ON", "REON"}) \cup {"REON"}
                                             ELSE flags[v] \ {"ON", "REON"}
    <3>2. v \in Range(play) /\ v \in Voices  BY <1>a DEF Range
    <3>3. AudioStore([flags EXCEPT ![v] = f])  BY <3>1
    <3>4. flags' = [flags EXCEPT ![v] = f] /\ UNCHANGED owner
      BY <1>3, <3>3, JackStores DEF StealVoice
    <3>5. play' = Unlink(play, v) /\ new' = Cons(v, new)  BY <3>1
    <3> HIDE DEF v, f
    <3>6. Range(play') = Range(play) \ {v}
      BY <1>a, <3>2, <3>5, UnlinkProperties
    <3>7. Range(new') = Range(new) \cup {v}
      <4>1. v \in Voices /\ new \in Seq(Voices)  BY <1>a, <3>2
      <4> QED  BY <3>5, <4>1, ConsProperties
    <3>8. owner[v] # NoSynth  BY <3>2 DEF InUse
    <3> QED  BY <1>c, <3>2, <3>4, <3>6, <3>7, <3>8
  <2> QED  BY <2>1, <2>2
<1>4. CASE OffMark
  <2> DEFINE f == flags[cur] \cup (IF sustained THEN {"SUSTAIN"} ELSE {"OFF"})
  <2>1. cur \in Range(play) /\ cur \in Voices
    BY <1>a, <1>4 DEF OffMark, ListInv, CursorOK
  <2>2. flags' = [flags EXCEPT ![cur] = f] /\ UNCHANGED <<owner, play, new>>
    BY <1>4, JackStores DEF OffMark, lists, voice
  <2>3. owner[cur] # NoSynth  BY <2>1 DEF InUse
  <2>4. f \cap {"ON", "REON"} # {} => "DONE" \notin f  BY <2>1 DEF InUse, Triggered
  <2> HIDE DEF f
  <2> QED  BY <1>c, <2>1, <2>2, <2>3, <2>4
<1>5. CASE OffNew
  <2>1. CASE UNCHANGED <<lists, flags>>
    BY <1>5, <1>d, <2>1 DEF OffNew, lists, voice
  <2>2. CASE ~UNCHANGED <<lists, flags>>
    <3>1. cur # NoVoice /\ phase = "offnew" /\ UNCHANGED owner
      BY <1>5, <2>2 DEF OffNew, voice
    <3>2. cur \in Range(new) /\ cur \in Voices
      BY <1>a, <3>1 DEF ListInv, CursorOK
    <3>3. PICK f : AudioStore([flags EXCEPT ![cur] = f])
      BY <1>5, <2>2 DEF OffNew
    <3>4. flags' = [flags EXCEPT ![cur] = f]
      BY <1>5, <3>3, JackStores DEF OffNew
    <3>5. play' = play /\ (new' = new \/ new' = Unlink(new, cur))
      BY <1>5, <2>2 DEF OffNew, lists
    <3>6. Range(new') \subseteq Range(new)
      <4>1. Range(Unlink(new, cur)) = Range(new) \ {cur}
        BY <1>a, <3>2, UnlinkProperties
      <4> QED  BY <3>5, <4>1
    <3>7. owner[cur] # NoSynth /\ cur \notin Range(play)  BY <1>a, <3>2 DEF InUse
    <3> QED  BY <1>c, <3>1, <3>2, <3>4, <3>5, <3>6, <3>7
  <2> QED  BY <2>1, <2>2
<1>6. CASE Retire
  <2>1. CASE UNCHANGED <<lists, flags>>
    BY <1>6, <1>d, <2>1 DEF Retire, lists, voice
  <2>2. CASE ~UNCHANGED <<lists, flags>>
    <3>1. /\ cur # NoVoice /\ phase = "retire" /\ UNCHANGED owner
          /\ play' = Unlink(play, cur) /\ new' = new
          /\ AudioStore([flags EXCEPT ![cur] = @ \ {"OFFING"}])
      BY <1>6, <2>2 DEF Retire, voice
    <3>2. cur \in Range(play) /\ cur \in Voices
      BY <1>a, <3>1 DEF ListInv, CursorOK
    <3>3. Range(play') = Range(play) \ {cur} /\ cur \notin Range(new)
      BY <1>a, <3>1, <3>2, UnlinkProperties
    <3>4. flags' = [flags EXCEPT ![cur] = @ \ {"OFFING"}]
      BY <1>6, <3>1, JackStores DEF Retire
    <3> QED  BY <1>c, <3>1, <3>2, <3>3, <3>4
  <2> QED  BY <2>1, <2>2
<1>7. CASE StartVoice
  <2>1. CASE new = << >>
    BY <1>7, <1>d, <2>1 DEF StartVoice, lists, voice
  <2>2. CASE new # << >>
    <3> DEFINE v == Head(new)
    <3>1. v \in Voices /\ Range(new) = Range(Tail(new)) \cup {v}
      BY <1>a, <2>2, TailProperties
    <3>2. /\ new' = Tail(new) /\ play' = Cons(v, play) /\ UNCHANGED owner
          /\ flags' = [flags EXCEPT ![v] = Started(flags[v])]
      BY <1>7, <2>2, JackStores DEF StartVoice, voice
    <3>3. Range(play') = Range(play) \cup {v}
      <4> HIDE DEF v
      <4> QED  BY <1>a, <3>1, <3>2, ConsProperties
    <3>4. owner[v] # NoSynth  BY <3>1 DEF InUse
    <3>5. "DONE" \notin Started(flags[v])  BY DEF Started
    <3> HIDE DEF v
    <3> QED  BY <1>c, <3>1, <3>2, <3>3, <3>4, <3>5
  <2> QED  BY <2>1, <2>2
<1>8. CASE RunOrphan
  <2>1. cur \in Range(play)  BY <1>8 DEF RunOrphan, ListInv, CursorOK
  <2> QED  BY <1>8, <2>1 DEF RunOrphan, InUse
<1>9. CASE RunVoice
  <2> DEFINE g == gain[cur][owner[cur]]
  <2>1. cur \in Range(play) /\ cur \in Voices /\ "DONE" \notin flags[cur]
    BY <1>a, <1>9 DEF RunVoice, ListInv, CursorOK
  <2>2. \/ flags' = [flags EXCEPT ![cur] = flags[cur] \cup {"OFF"}]
        \/ flags' = [flags EXCEPT ![cur] = FlagsAfter(flags[cur], g)]
    BY <1>9, <1>a, JackStores DEF RunVoice
  <2>3. UNCHANGED <<owner, play, new>> /\ owner[cur] # NoSynth
    BY <1>9, <2>1 DEF RunVoice, lists, InUse
  <2>4. FlagsAfter(flags[cur], g) \cap {"ON", "REON"} # {}
          => "DONE" \notin FlagsAfter(flags[cur], g)
    BY DEF FlagsAfter, Restarts
  <2> HIDE DEF g
  <2> QED  BY <1>c, <2>1, <2>2, <2>3, <2>4
<1>10. CASE EndPeriod
  <2>1. /\ flags' = [v \in Voices |-> IF v \in Range(play)
                                      THEN flags[v] \ {"ON", "REON"} ELSE flags[v]]
        /\ UNCHANGED <<owner, play, new>>
    BY <1>10, JackStores DEF EndPeriod, lists, voice
  <2>2. \A v \in Range(play) : flags'[v] = flags[v] \ {"ON", "REON"}  BY <1>a, <2>1
  <2> QED  BY <2>1, <2>2 DEF InUse, Triggered
<1>11. CASE SustainedOff
  <2>1. mcur \in Range(play) /\ mcur \in Voices /\ Scanning
    BY <1>a, <1>11 DEF SustainedOff, JackTurns, Scanning
  <2>2. \/ UNCHANGED flags
        \/ flags' = [flags EXCEPT ![mcur] = flags[mcur] \cup {"OFF"}]
    BY <1>11, <2>1, JackStores DEF SustainedOff
  <2>3. UNCHANGED <<owner, play, new>> /\ owner[mcur] # NoSynth
    BY <1>11, <2>1 DEF SustainedOff, lists, voice, InUse
  <2>4. (flags[mcur] \cup {"OFF"}) \cap {"ON", "REON"} # {}
          => "DONE" \notin flags[mcur] \cup {"OFF"}
    BY <2>1 DEF InUse, Triggered
  <2> QED  BY <1>c, <1>d, <2>1, <2>2, <2>3, <2>4
<1>12. CASE VoiceOff
  <2>1. mcur \in Range(play) /\ mcur \in Voices /\ Scanning
    BY <1>a, <1>12 DEF VoiceOff, JackTurns, Scanning
  <2>2. PICK f \in {{"OFF", "DONE"}, {"OFF", "DONE"} \ {"SUSTAIN"},
                    flags[mcur], flags[mcur] \ {"SUSTAIN"}} : MidiStore(mcur, f)
    BY <1>12 DEF VoiceOff
  <2>3. flags' = [flags EXCEPT ![mcur] = f]  BY <2>1, <2>2, JackStores
  <2>4. UNCHANGED <<owner, play, new>> /\ owner[mcur] # NoSynth
    BY <1>12, <2>1 DEF VoiceOff, lists, voice, InUse
  <2>5. f \cap {"ON", "REON"} # {} => "DONE" \notin f
    BY <2>1, <2>2 DEF InUse, Triggered
  <2> QED  BY <1>c, <2>1, <2>3, <2>4, <2>5
<1>13. CASE AudioStep
  <2>1. ASSUME OfferNote \/ NoteOnDone \/ OffLook \/ EmptyPeriod \/ BeginPeriod \/ Drain
                 \/ Drained \/ CountSynth \/ SynthsDone \/ SkipVoice \/ VoicesDone
        PROVE  UNCHANGED <<flags, owner, play, new>>
    BY <2>1 DEF OfferNote, NoteOnDone, OffLook, EmptyPeriod, BeginPeriod, Drain, Drained,
                CountSynth, SynthsDone, SkipVoice, VoicesDone, lists, voice
  <2> QED
    BY <1>13, <1>b, <1>d, <2>1, <1>1, <1>2, <1>3, <1>4, <1>5, <1>6, <1>7, <1>8, <1>9, <1>10
    DEF AudioStep
<1>14. CASE Event
  BY <1>14, <1>d DEF Event, QueueNote, JackNote, NotesOff, Pedal, ExitSynth, HoldKeys,
                     lists, voice
<1>15. CASE MidiStep
  <2>1. ASSUME ScanDone \/ CheckLast \/ FreeSynth PROVE UNCHANGED <<flags, owner, play, new>>
    BY <2>1 DEF ScanDone, CheckLast, FreeSynth, lists, voice
  <2> QED  BY <1>15, <1>d, <1>11, <1>12, <2>1 DEF MidiStep
<1>16. CASE UNCHANGED vars
  BY <1>16, <1>d DEF vars
<1> QED  BY <1>13, <1>14, <1>15, <1>16 DEF Next

\* A scan of the playlist has started or moved every voice it has passed.
LEMMA NextScanInv ==
    ASSUME Direct, Expiring = {}, ListInv, JackTurns, ScanInv, [Next]_vars
    PROVE  ScanInv'
<1>a. /\ play \in Seq(Voices) /\ IsInjective(play) /\ Range(play) \subseteq Voices
      /\ NoVoice \notin Voices /\ NoSynth \notin Synths
      /\ flags \in [Voices -> SUBSET Flag]
  BY RangeOfSeq DEF ListInv, TypeOK, VoicesPartitioned, NoVoice, Voices, NoSynth, Synths
<1>b. Passed(play, HeadOf(play)) = {}  BY <1>a, PassedProperties
<1>1. CASE AudioStep
  <2>1. mphase' = "idle"
    BY <1>1 DEF AudioStep, AudioTurn, OfferNote, NoteOnDone, TakeFree, ReuseOnly,
         StealVoice, OffLook, OffMark, OffNew, EmptyPeriod, BeginPeriod, Drain, Drained,
         RemoveSynth, CountSynth, SynthsDone, Retire, StartVoice, RunOrphan, SkipVoice,
         RunVoice, VoicesDone, EndPeriod, midi
  <2> QED  BY <2>1 DEF ScanInv
<1>2. CASE Event
  <2>1. \/ mphase' # "alloff"
        \/ mcur' = HeadOf(play) /\ play' = play
    BY <1>2 DEF Event, QueueNote, JackNote, NotesOff, Pedal, ExitSynth, HoldKeys, Deliver,
                StartScan, lists
  <2> QED  BY <1>b, <2>1 DEF ScanInv
<1>3. CASE MidiStep
  <2>1. CASE VoiceOff
    <3> DEFINE v == mcur
               old == Passed(play, v)
    <3>1. v \in Range(play) /\ v \in Voices /\ Scanning
      BY <1>a, <2>1 DEF VoiceOff, JackTurns, Scanning
    <3>2. mcur' = After(play, v) /\ UNCHANGED <<play, owner, mchan>>
      <4>1. NextVoice(mcur) = After(play, mcur)
        BY <3>1 DEF NextVoice, ListInv, VoicesPartitioned
      <4> QED  BY <2>1, <4>1 DEF VoiceOff, lists, voice
    <3>3. Passed(play', mcur') = old \cup {v} /\ v \notin old
      BY <1>a, <3>1, <3>2, PassedProperties
    <3>4. PICK f : /\ MidiStore(v, f)
                   /\ owner[v] # NoSynth /\ Hears(owner[v], mchan) => "OFF" \in f
      <4> DEFINE hit == leaving # NoSynth \/ (owner[v] # NoSynth /\ Hears(owner[v], mchan))
                 g == IF hit THEN {"OFF", "DONE"} ELSE flags[v]
      <4>1. MidiStore(v, IF owner[v] # NoSynth THEN g \ {"SUSTAIN"} ELSE g)
        BY <2>1 DEF VoiceOff
      <4> QED  BY <4>1
    <3>5. flags' = [flags EXCEPT ![v] = f]  BY <3>1, <3>4, JackStores
    <3> HIDE DEF v, old
    <3>6. flags'[v] = f /\ \A w \in Voices : w # v => flags'[w] = flags[w]
      BY <1>a, <3>1, <3>5
    <3>7. old \subseteq Voices  BY <1>a DEF old, Passed
    <3>8. mphase = "alloff"  BY <2>1 DEF VoiceOff
    <3>9. \A w \in old : ~(Audible(w) /\ Hears(owner[w], mchan))
      BY <3>8 DEF ScanInv, old, v
    <3>10. ASSUME NEW w \in old \cup {v}
           PROVE  ~(Audible(w)' /\ Hears(owner'[w], mchan'))
      <4>1. CASE w = v
        BY <3>2, <3>4, <3>6, <4>1 DEF Audible
      <4>2. CASE w # v
        <5>1. flags'[w] = flags[w] /\ w \in old  BY <3>6, <3>7, <4>2
        <5> QED  BY <3>2, <3>9, <5>1 DEF Audible
      <4> QED  BY <4>1, <4>2
    <3> QED  BY <3>3, <3>10 DEF ScanInv, Hears
  <2>2. CASE ~VoiceOff
    <3>1. mphase' # "alloff"
      BY <1>3, <2>2 DEF MidiStep, SustainedOff, ScanDone, CheckLast, FreeSynth
    <3> QED  BY <3>1 DEF ScanInv
  <2> QED  BY <2>1, <2>2
<1>4. CASE UNCHANGED vars
  BY <1>4 DEF vars, ScanInv, Passed, Audible, Hears
<1> QED  BY <1>1, <1>2, <1>3, <1>4 DEF Next

\* Counting one more voice of an emulator.
LEMMA OneMoreVoice ==
    ASSUME NEW A, NEW B, NEW v, IsFiniteSet(A), B \subseteq A \cup {v}
    PROVE  /\ Cardinality(B) \in Nat /\ Cardinality(A) \in Nat
           /\ Cardinality(B) <= Cardinality(A) + 1
           /\ v \notin B => Cardinality(B) <= Cardinality(A)
<1>1. /\ IsFiniteSet(A \cup {v}) /\ Cardinality(A) \in Nat
      /\ Cardinality(A \cup {v}) = Cardinality(A) \/ Cardinality(A \cup {v}) = Cardinality(A) + 1
  BY FS_AddElement, FS_CardinalityType
<1>2. Cardinality(B) \in Nat /\ Cardinality(B) <= Cardinality(A \cup {v})
  BY <1>1, FS_Subset, FS_CardinalityType
<1>3. ASSUME v \notin B PROVE Cardinality(B) <= Cardinality(A)
  <2>1. B \subseteq A  BY <1>3
  <2> QED  BY <2>1, FS_Subset
<1>4. Cardinality(B) <= Cardinality(A) + 1
  <2>1. Cardinality(A \cup {v}) <= Cardinality(A) + 1  BY <1>1
  <2>2. Cardinality(A \cup {v}) \in Nat  BY <1>1
  <2> QED  BY <1>1, <1>2, <2>1, <2>2
<1> QED  BY <1>1, <1>2, <1>3, <1>4

\* The count of a period is that of the voices it has passed.
LEMMA NextPeriodInv ==
    ASSUME Direct, Expiring = {}, ListInv, JackTurns, InUse, PeriodInv, [Next]_vars
    PROVE  PeriodInv'
<1>a. /\ play \in Seq(Voices) /\ IsInjective(play) /\ Range(play) \subseteq Voices
      /\ NoVoice \notin Voices /\ NoSynth \notin Synths
      /\ todo \in Seq(Synths) /\ cvoices \in [Synths -> Nat]
      /\ voicecount \in [Synths -> Nat] /\ IsFiniteSet(Voices)
      /\ flags \in [Voices -> SUBSET Flag]
      /\ owner \in [Voices -> Synths \cup {NoSynth}]
      /\ gain \in [Voices -> [Synths -> 0 .. ReleasePeriods]]
  <2>1. IsFiniteSet(Voices)  BY ConstantsAssumption, FS_Interval DEF Voices
  <2>2. voicecount \in [Synths -> Nat]  BY ConstantsAssumption
  <2>3. NoVoice \notin Voices /\ NoSynth \notin Synths
    BY DEF NoVoice, Voices, NoSynth, Synths
  <2>4. play \in Seq(Voices) /\ Range(play) \subseteq Voices
    BY RangeOfSeq DEF ListInv, TypeOK
  <2> QED  BY <2>1, <2>2, <2>3, <2>4 DEF ListInv, TypeOK, VoicesPartitioned
<1>b. ~RemoveSynth /\ Range(audiolist) = Synths  BY NextJackTurns DEF JackTurns
<1>c. Range(<< >>) = {}  BY DEF Range
\* The loop over the playlist begins: it has passed no voice yet.
<1>d. ASSUME phase' = "voices", cur' = HeadOf(play'), play' = play
      PROVE  PeriodInv'
  <2>1. Passed(play', cur') = {}  BY <1>a, <1>d, PassedProperties
  <2>2. \A s \in Synths : AudibleOf(s, Passed(play, cur))' = {}  BY <2>1 DEF AudibleOf
  <2>3. cvoices' \in [Synths -> Nat]
    BY NextListInv DEF ListInv, TypeOK
  <2>4. \A s \in Synths : cvoices'[s] \in Nat /\ voicecount[s] \in Nat  BY <1>a, <2>3
  <2>5. \A s \in Synths : /\ Cardinality(AudibleOf(s, Passed(play, cur)))' <= cvoices'[s]
                          /\ Cardinality(AudibleOf(s, Passed(play, cur)))' <= voicecount[s]
    <3>1. Cardinality({}) = 0  BY FS_EmptySet
    <3>2. \A n \in Nat : 0 <= n  OBVIOUS
    <3> QED  BY <2>2, <2>4, <3>1, <3>2
  <2>6. \A v \in Passed(play', cur') : FALSE  BY <2>1
  <2> QED  BY <1>d, <2>5, <2>6 DEF PeriodInv
\* Steps that lead to no phase PeriodInv speaks of.
<1>e. ASSUME phase' \notin {"synths", "retire", "start", "voices", "clear"} PROVE PeriodInv'
  BY <1>e DEF PeriodInv
<1>1. CASE Drained
  <2>1. phase' = "synths" /\ todo' = audiolist  BY <1>1 DEF Drained
  <2> QED  BY <1>b, <2>1 DEF PeriodInv
<1>2. CASE CountSynth
  <2> DEFINE s == Head(todo)
  <2>1. /\ phase = "synths" /\ phase' = "synths" /\ todo # << >> /\ todo' = Tail(todo)
        /\ cvoices' = [cvoices EXCEPT ![s] = 0]
    BY <1>2 DEF CountSynth
  <2>2. Range(todo) = Range(Tail(todo)) \cup {s} /\ s \in Synths
    BY <1>a, <2>1, TailProperties
  <2>3. ASSUME NEW r \in Synths \ Range(todo') PROVE cvoices'[r] = 0
    <3> HIDE DEF s
    <3>1. CASE r = s  BY <1>a, <2>1, <2>2, <3>1
    <3>2. CASE r # s
      <4>1. r \in Synths \ Range(todo)  BY <2>1, <2>2, <2>3, <3>2
      <4> QED  BY <1>a, <2>1, <3>2, <4>1 DEF PeriodInv
    <3> QED  BY <3>1, <3>2
  <2> QED  BY <2>1, <2>3 DEF PeriodInv
<1>3. CASE SynthsDone
  <2>1. /\ phase = "synths" /\ todo = << >> /\ phase' \in {"voices", "retire"}
        /\ cur' = HeadOf(play) /\ UNCHANGED <<play, cvoices>>
    BY <1>3 DEF SynthsDone, lists, synth
  <2>2. CASE phase' = "voices"  BY <1>d, <2>1, <2>2
  <2>3. CASE phase' = "retire"  BY <1>c, <2>1, <2>3 DEF PeriodInv
  <2> QED  BY <2>1, <2>2, <2>3
<1>4. CASE Retire
  <2>1. phase = "retire" /\ phase' \in {"retire", "start"} /\ UNCHANGED cvoices
    BY <1>4 DEF Retire, synth
  <2> QED  BY <2>1 DEF PeriodInv
<1>5. CASE StartVoice
  <2>1. CASE new = << >>
    <3>1. phase' = "voices" /\ cur' = HeadOf(play) /\ play' = play
      BY <1>5, <2>1 DEF StartVoice, lists
    <3> QED  BY <1>d, <3>1
  <2>2. CASE new # << >>
    <3>1. phase = "start" /\ phase' = "start" /\ UNCHANGED cvoices
      BY <1>5, <2>2 DEF StartVoice, synth
    <3> QED  BY <3>1 DEF PeriodInv
  <2> QED  BY <2>1, <2>2
<1>6. CASE RunOrphan
  <2>1. cur \in Range(play)  BY <1>6 DEF RunOrphan, ListInv, CursorOK
  <2> QED  BY <1>6, <2>1 DEF RunOrphan, InUse
\* A voice of the playlist is passed, and no other voice is touched.
<1>f. ASSUME NEW f, phase = "voices", phase' = "voices", cur # NoVoice,
             cur' = After(play, cur), UNCHANGED <<play, owner>>,
             flags' = [flags EXCEPT ![cur] = f],
             \A v \in Voices : v # cur => gain'[v] = gain[v],
             f \cap {"ON", "REON"} # {} =>
                 "OFF" \in f \/ gain'[cur][owner[cur]] = ReleasePeriods,
             \/ f \cap {"OFF", "DONE"} # {}
             \/ cvoices[owner[cur]] + 1 <= voicecount[owner[cur]],
             \/ cvoices' = [cvoices EXCEPT ![owner[cur]] = @ + 1]
             \/ cvoices' = cvoices /\ f \cap {"OFF", "DONE"} # {}
      PROVE  PeriodInv'
  <2> DEFINE v == cur
             o == owner[cur]
             old == Passed(play, cur)
             A(s) == AudibleOf(s, old)
             B(s) == {w \in old \cup {v} : owner[w] = s /\ flags'[w] \cap {"OFF", "DONE"} = {}}
  <2>1. v \in Range(play) /\ v \in Voices /\ o \in Synths /\ o # NoSynth
    <3>1. v \in Range(play)  BY <1>f DEF ListInv, CursorOK
    <3> QED  BY <1>a, <3>1 DEF InUse
  <2>2. Passed(play', cur') = old \cup {v} /\ v \notin old /\ old \subseteq Range(play)
    BY <1>a, <1>f, <2>1, PassedProperties DEF Passed
  <2> HIDE DEF v, o, old
  <2>3. flags'[v] = f /\ \A w \in old : flags'[w] = flags[w] /\ gain'[w] = gain[w]
    BY <1>a, <1>f, <2>1, <2>2 DEF v
  <2>4. \A s \in Synths : AudibleOf(s, Passed(play, cur))' = B(s)
    <3> SUFFICES ASSUME NEW s \in Synths PROVE AudibleOf(s, Passed(play, cur))' = B(s)
      OBVIOUS
    <3>1. AudibleOf(s, Passed(play, cur))' =
            {w \in old \cup {v} : owner'[w] = s /\ owner'[w] # NoSynth
                                  /\ flags'[w] \cap {"OFF", "DONE"} = {}}
      BY <2>2 DEF AudibleOf, Audible
    <3> QED  BY <1>a, <1>f, <3>1
  <2>5. \A s \in Synths : IsFiniteSet(A(s))
    <3>1. old \subseteq Voices  BY <1>a, <2>2
    <3>2. \A s \in Synths : A(s) \subseteq Voices  BY <3>1 DEF AudibleOf
    <3> QED  BY <1>a, <3>2, FS_Subset
  <2>6. \A s \in Synths : /\ B(s) \subseteq A(s) \cup {v}
                          /\ v \in B(s) => s = o /\ f \cap {"OFF", "DONE"} = {}
    <3> SUFFICES ASSUME NEW s \in Synths
                 PROVE  /\ B(s) \subseteq A(s) \cup {v}
                        /\ v \in B(s) => s = o /\ f \cap {"OFF", "DONE"} = {}
      OBVIOUS
    <3>1. \A w \in B(s) : w # v => w \in A(s)
      BY <1>a, <2>3 DEF AudibleOf, Audible
    <3>2. v \in B(s) => s = o /\ f \cap {"OFF", "DONE"} = {}  BY <2>3 DEF v, o
    <3> QED  BY <3>1, <3>2
  <2>7. \A s \in Synths : /\ Cardinality(A(s)) <= cvoices[s]
                          /\ Cardinality(A(s)) <= voicecount[s]
    BY <1>f DEF PeriodInv, old
  <2> HIDE DEF A, B
  <2>8. ASSUME NEW s \in Synths
        PROVE  Cardinality(B(s)) <= cvoices'[s] /\ Cardinality(B(s)) <= voicecount[s]
    <3>1. /\ Cardinality(A(s)) \in Nat /\ Cardinality(B(s)) \in Nat
          /\ Cardinality(B(s)) <= Cardinality(A(s)) + 1
          /\ v \notin B(s) => Cardinality(B(s)) <= Cardinality(A(s))
      BY <2>5, <2>6, OneMoreVoice
    <3>2. cvoices[s] \in Nat /\ voicecount[s] \in Nat  BY <1>a
    <3>3. Cardinality(A(s)) <= cvoices[s] /\ Cardinality(A(s)) <= voicecount[s]  BY <2>7
    <3>4. CASE v \in B(s)
      <4>1. s = o /\ f \cap {"OFF", "DONE"} = {}  BY <2>6, <3>4
      <4>2. cvoices'[s] = cvoices[s] + 1 /\ cvoices[s] + 1 <= voicecount[s]
        BY <1>a, <1>f, <4>1 DEF o
      <4> QED  BY <3>1, <3>2, <3>3, <4>2
    <3>5. CASE v \notin B(s)
      <4>1. cvoices'[s] = cvoices[s] \/ cvoices'[s] = cvoices[s] + 1
        BY <1>a, <1>f
      <4> QED  BY <3>1, <3>2, <3>3, <3>5, <4>1
    <3> QED  BY <3>4, <3>5
  <2>9. ASSUME NEW w \in old \cup {v}, flags'[w] \cap {"ON", "REON"} # {}
        PROVE  "OFF" \in flags'[w] \/ gain'[w][owner'[w]] = ReleasePeriods
    <3>1. CASE w = v
      BY <1>f, <2>3, <2>9, <3>1 DEF v
    <3>2. CASE w # v
      <4>1. w \in old /\ flags'[w] = flags[w] /\ gain'[w] = gain[w]  BY <2>3, <2>9, <3>2
      <4> QED  BY <1>f, <2>9, <4>1 DEF PeriodInv, Triggered, old
    <3> QED  BY <3>1, <3>2
  <2> QED  BY <1>f, <2>2, <2>4, <2>8, <2>9 DEF PeriodInv, Triggered
<1>7. CASE SkipVoice
  <2>1. /\ phase = "voices" /\ cur # NoVoice /\ cur' = After(play, cur)
        /\ UNCHANGED <<phase, play, owner, gain, cvoices, flags>>
        /\ Suspended(owner[cur]) \/ ("DONE" \in flags[cur] /\ owner[cur] # NoSynth)
    BY <1>7 DEF SkipVoice, lists, voice, synth
  <2>2. cur \in Range(play) /\ cur \in Voices
    BY <1>a, <2>1 DEF ListInv, CursorOK
  <2>3. ~Suspended(owner[cur])
    <3>1. owner[cur] \in Synths  BY <1>a, <2>2 DEF InUse
    <3> QED  BY <3>1 DEF Suspended, JackTurns
  <2>4. "DONE" \in flags[cur] /\ flags[cur] \cap {"ON", "REON"} = {}
    BY <2>1, <2>2, <2>3 DEF InUse, Triggered
  <2>5. flags' = [flags EXCEPT ![cur] = flags[cur]]  BY <1>a, <2>1, <2>2
  <2> QED  BY <1>f, <2>1, <2>4, <2>5
<1>8. CASE RunVoice
  <2> DEFINE o == owner[cur]
             g == gain[cur][o]
  <2>1. /\ phase = "voices" /\ cur # NoVoice /\ cur' = After(play, cur)
        /\ UNCHANGED <<phase, play, owner>>
        /\ cvoices' = [cvoices EXCEPT ![o] = @ + 1]
    BY <1>8 DEF RunVoice, lists
  <2>2. cur \in Range(play) /\ cur \in Voices /\ o \in Synths
    <3>1. cur \in Range(play)  BY <2>1 DEF ListInv, CursorOK
    <3> QED  BY <1>a, <3>1 DEF InUse
  <2>3. CASE OverLimit(o)
    <3>1. flags' = [flags EXCEPT ![cur] = flags[cur] \cup {"OFF"}] /\ gain' = gain
      BY <1>8, <2>3, JackStores DEF RunVoice
    <3>2. (flags[cur] \cup {"OFF"}) \cap {"OFF", "DONE"} # {}  OBVIOUS
    <3> QED  BY <1>f, <2>1, <3>1, <3>2
  <2>4. CASE ~OverLimit(o)
    <3>1. /\ flags' = [flags EXCEPT ![cur] = FlagsAfter(flags[cur], g)]
          /\ gain' = [gain EXCEPT ![cur][o] = GainAfter(flags[cur], @)]
      BY <1>8, <2>4, JackStores DEF RunVoice
    <3>2. cvoices[o] + 1 <= voicecount[o]  BY <1>a, <2>2, <2>4 DEF OverLimit
    <3>3. \A v \in Voices : v # cur => gain'[v] = gain[v]  BY <1>a, <2>2, <3>1
    <3>4. gain'[cur][o] = GainAfter(flags[cur], g)  BY <1>a, <2>2, <3>1
    <3>5. FlagsAfter(flags[cur], g) \cap {"ON", "REON"} # {} => Restarts(flags[cur])
      BY DEF FlagsAfter, Restarts
    <3>6. Restarts(flags[cur]) => GainAfter(flags[cur], g) = ReleasePeriods
      BY DEF GainAfter
    <3>7. FlagsAfter(flags[cur], g) \cap {"ON", "REON"} # {}
            => gain'[cur][o] = ReleasePeriods
      BY <3>4, <3>5, <3>6
    <3> HIDE DEF g
    <3> QED  BY <1>f, <2>1, <3>1, <3>2, <3>3, <3>7
  <2> QED  BY <2>3, <2>4
<1>9. CASE VoicesDone
  <2>1. /\ phase = "voices" /\ cur = NoVoice /\ phase' = "clear"
        /\ UNCHANGED <<flags, owner, gain, play, cur, cvoices>>
    BY <1>9 DEF VoicesDone, lists, voice, synth
  <2>2. /\ Passed(play, cur)' = Passed(play, cur)
        /\ \A s \in Synths : AudibleOf(s, Passed(play, cur))' = AudibleOf(s, Passed(play, cur))
    BY <2>1 DEF AudibleOf, Audible
  <2> QED  BY <2>1, <2>2 DEF PeriodInv, Triggered
<1>10. CASE AudioStep
  <2>1. ASSUME OfferNote \/ NoteOnDone \/ TakeFree \/ ReuseOnly \/ StealVoice \/ OffLook
                 \/ OffMark \/ OffNew \/ EmptyPeriod \/ BeginPeriod \/ Drain \/ EndPeriod
        PROVE  phase' \notin {"synths", "retire", "start", "voices", "clear"}
    BY <2>1 DEF OfferNote, NoteOnDone, TakeFree, ReuseOnly, StealVoice, OffLook, OffMark,
                OffNew, EmptyPeriod, BeginPeriod, Drain, StartNote, EndPeriod, Resume
  <2> QED
    BY <1>10, <1>b, <1>e, <2>1, <1>1, <1>2, <1>3, <1>4, <1>5, <1>6, <1>7, <1>8, <1>9
    DEF AudioStep
<1>11. CASE Event
  <2>1. phase' \in {"wait", "noteon", "noteoff"}
    BY <1>11 DEF Event, QueueNote, JackNote, NotesOff, Pedal, ExitSynth, HoldKeys, Deliver,
                 StartNote
  <2> QED  BY <1>e, <2>1
<1>12. CASE MidiStep
  <2>1. mphase # "idle" /\ UNCHANGED phase
    BY <1>12 DEF MidiStep, SustainedOff, VoiceOff, ScanDone, CheckLast, FreeSynth
  <2>2. phase' = "wait"  BY <2>1 DEF JackTurns
  <2> QED  BY <1>e, <2>2
<1>13. CASE UNCHANGED vars
  BY <1>13 DEF vars, PeriodInv, AudibleOf, Audible, Triggered, Passed
<1> QED  BY <1>10, <1>11, <1>12, <1>13 DEF Next

\* All of it is kept by every step.
LEMMA NextJackInv ==
    ASSUME Direct, Expiring = {}
    PROVE  (ListInv /\ JackInv) /\ [Next]_vars => (ListInv /\ JackInv)'
BY NextListInv, NextJackTurns, NextInUse, NextPeriodInv, NextScanInv DEF JackInv

\* With one Jack registration, and every GUI alive, a period leaves no emulator
\* with more voices sounding than its voicecount, however many notes came in
\* between two periods, while lvoices was stale (doMidiNoteOn, doAudioOps).
THEOREM VoicesWithinLimit ==
    ASSUME Direct, Expiring = {} PROVE Spec => []VoiceLimit
<1>1. Init => ListInv /\ JackInv  BY InitListInv, InitJackInv
<1>2. ListInv /\ JackInv => VoiceLimit
  <2> SUFFICES ASSUME ListInv, JackInv, phase = "clear", NEW s \in Range(audiolist)
               PROVE  Cardinality({v \in Range(play) : owner[v] = s /\ Audible(v)})
                        <= voicecount[s]
    BY DEF VoiceLimit
  <2>1. s \in Synths /\ cur = NoVoice  BY DEF JackInv, JackTurns, PeriodInv
  <2>2. Passed(play, cur) = Range(play)  BY <2>1 DEF Passed
  <2> QED  BY <2>1, <2>2 DEF JackInv, PeriodInv, AudibleOf
<1> QED  BY <1>1, <1>2, NextJackInv, PTL DEF Spec

\* And no trigger is cleared before its envelope was restarted, or its voice
\* keyed off for being over the limit (doAudioOps).
THEOREM EveryTriggerSeen ==
    ASSUME Direct, Expiring = {} PROVE Spec => []TriggersSeen
<1>1. Init => ListInv /\ JackInv  BY InitListInv, InitJackInv
<1>2. ListInv /\ JackInv => TriggersSeen
  <2> SUFFICES ASSUME JackInv, phase = "clear", NEW v \in Range(play), Triggered(v)
               PROVE  "OFF" \in flags[v] \/ gain[v][owner[v]] = ReleasePeriods
    BY DEF TriggersSeen, Triggered
  <2>1. cur = NoVoice  BY DEF JackInv, PeriodInv
  <2>2. v \in Passed(play, cur)  BY <2>1 DEF Passed
  <2> QED  BY <2>2 DEF JackInv, PeriodInv
<1> QED  BY <1>1, <1>2, NextJackInv, PTL DEF Spec

\* And when the scan of allNotesOff ends, no voice of its channel is left
\* sounding on the playlist.
THEOREM NotesOffSilences ==
    ASSUME Direct, Expiring = {} PROVE Spec => SilentAfterNotesOff
<1>1. Init => ListInv /\ JackInv  BY InitListInv, InitJackInv
<1>2. ListInv /\ JackInv /\ [Next]_vars =>
        [(mphase = "alloff" /\ mphase' # "alloff" /\ leaving = NoSynth) =>
            \A v \in Range(play) : ~(Audible(v) /\ Hears(owner[v], mchan))]_vars
  <2> SUFFICES ASSUME JackInv, Next, mphase = "alloff", mphase' # "alloff"
               PROVE  \A v \in Range(play) : ~(Audible(v) /\ Hears(owner[v], mchan))
    OBVIOUS
  <2>1. ~AudioStep
    <3>1. phase = "wait"  BY DEF JackInv, JackTurns
    <3>2. ASSUME AudioStep PROVE UNCHANGED mphase
      BY <3>2 DEF AudioStep, OfferNote, NoteOnDone, TakeFree, ReuseOnly,
         StealVoice, OffLook, OffMark, OffNew, EmptyPeriod, BeginPeriod, Drain, Drained,
         RemoveSynth, CountSynth, SynthsDone, Retire, StartVoice, RunOrphan, SkipVoice,
         RunVoice, VoicesDone, EndPeriod, midi
    <3> QED  BY <3>2
  <2>2. ~Event
    BY DEF Event, QueueNote, JackNote, NotesOff, Pedal, ExitSynth, HoldKeys, Deliver
  <2>3. mcur = NoVoice
    BY <2>1, <2>2 DEF Next, MidiStep, SustainedOff, VoiceOff, ScanDone,
                         CheckLast, FreeSynth
  <2>4. Passed(play, mcur) = Range(play)  BY <2>3 DEF Passed
  <2> QED  BY <2>4 DEF JackInv, ScanInv
<1> QED  BY <1>1, <1>2, NextJackInv, PTL DEF Spec, SilentAfterNotesOff

----------------------------------------------------------------------------
(***************************************************************************)
(* No stuck note.                                                          *)
(***************************************************************************)

\* No key is down and no voice sounds at the start.
LEMMA InitNoteInv == Init => NoteInv
<1> SUFFICES ASSUME Init PROVE NoteInv
  OBVIOUS
<1>1. play = << >> /\ new = << >> /\ phase = "wait" /\ mchan \in Channels
  BY DEF Init
<1>2. Range(play) = {} /\ Range(new) = {}  BY <1>1 DEF Range
<1> QED  BY <1>1, <1>2 DEF NoteInv

\* Every step accounts for the voices of keys that are up.
LEMMA NextNoteInv ==
    ASSUME Direct, Expiring = {}, \A s \in Synths, c \in Channels : Hears(s, c),
           ListInv, JackTurns, InUse, NoteInv, [Next]_vars
    PROVE  NoteInv'
<1>a. /\ play \in Seq(Voices) /\ IsInjective(play) /\ Range(play) \subseteq Voices
      /\ new \in Seq(Voices) /\ IsInjective(new) /\ Range(new) \subseteq Voices
      /\ free \in Seq(Voices) /\ Range(free) \subseteq Voices
      /\ Range(play) \cap Range(new) = {} /\ Range(free) \cap Range(play) = {}
      /\ Range(free) \cap Range(new) = {}
      /\ NoVoice \notin Voices /\ NoSynth \notin Synths
      /\ todo \in Seq(Synths) /\ msg \in Message
      /\ flags \in [Voices -> SUBSET Flag] /\ keyid \in [Voices -> Keys]
      /\ owner \in [Voices -> Synths \cup {NoSynth}]
  BY RangeOfSeq
  DEF ListInv, TypeOK, VoicesPartitioned, NoVoice, Voices, NoSynth, Synths
<1>b. ~RemoveSynth  BY NextJackTurns
<1>c. \A v \in Range(play) \cup Range(new) : owner[v] \in Synths
  BY <1>a DEF InUse
<1>d. \A s \in Synths : \A k : Down(s, k) <=> \E c \in Channels : <<c, k>> \in keysdown
  BY DEF Down
\* Steps that leave the voices, the keys and the pedals alone.
<1>e. ASSUME UNCHANGED <<play, new, flags, owner, keyid, pedal, keysdown, mchan>>,
             \A v \in Range(play) : OffComing(v) => OffComing(v)',
             \A v \in Range(new) : NewOffComing(v) => NewOffComing(v)',
             phase' = "noteon" => phase = "noteon" /\ msg' = msg,
             phase' = "offmark" => (sustained' => pedal[owner[cur']] # "up")
      PROVE  NoteInv'
  <2>1. \A v \in Range(play) : Accounted(v)'
    BY <1>e DEF NoteInv, Accounted, Audible, Down, Hears
  <2>2. \A v \in Range(new) : NewAccounted(v)'
    BY <1>e DEF NoteInv, NewAccounted, Down, Hears
  <2> QED  BY <1>e, <2>1, <2>2 DEF NoteInv
\* Steps that change the flags of one voice, and no key or pedal.
<1>f. ASSUME NEW x \in Voices, NEW f, flags' = [flags EXCEPT ![x] = f],
             UNCHANGED <<pedal, keysdown, mchan>>,
             \A v \in Voices \ {x} : owner'[v] = owner[v] /\ keyid'[v] = keyid[v],
             Range(play') \subseteq Range(play) \cup {x},
             Range(new') \subseteq Range(new) \cup {x},
             \A v \in Range(play) \ {x} : OffComing(v) => OffComing(v)',
             \A v \in Range(new) \ {x} : NewOffComing(v) => NewOffComing(v)',
             x \in Range(play') => Accounted(x)',
             x \in Range(new') => NewAccounted(x)',
             phase' = "noteon" => phase = "noteon" /\ msg' = msg,
             phase' # "offmark"
      PROVE  NoteInv'
  <2>1. ASSUME NEW v \in Range(play'), v # x PROVE Accounted(v)'
    <3>1. v \in Range(play) /\ v \in Voices  BY <1>a, <1>f, <2>1
    <3>2. flags'[v] = flags[v] /\ owner'[v] = owner[v] /\ keyid'[v] = keyid[v]
      BY <1>a, <1>f, <2>1, <3>1
    <3>3. Accounted(v)  BY <3>1 DEF NoteInv
    <3>4. OffComing(v) => OffComing(v)'  BY <1>f, <2>1, <3>1
    <3> QED  BY <1>f, <3>2, <3>3, <3>4 DEF Accounted, Audible, Down, Hears
  <2>2. ASSUME NEW v \in Range(new'), v # x PROVE NewAccounted(v)'
    <3>1. v \in Range(new) /\ v \in Voices  BY <1>a, <1>f, <2>2
    <3>2. flags'[v] = flags[v] /\ owner'[v] = owner[v] /\ keyid'[v] = keyid[v]
      BY <1>a, <1>f, <2>2, <3>1
    <3>3. NewAccounted(v)  BY <3>1 DEF NoteInv
    <3>4. NewOffComing(v) => NewOffComing(v)'  BY <1>f, <2>2, <3>1
    <3> QED  BY <1>f, <3>2, <3>3, <3>4 DEF NewAccounted, Down, Hears
  <2> QED  BY <1>f, <2>1, <2>2 DEF NoteInv
\* Where nothing is coming.
<1>g. ASSUME phase \notin {"noteoff", "offmark", "offnew"}, mphase # "sustoff", NEW v
      PROVE  ~OffComing(v) /\ ~NewOffComing(v)
  BY <1>g DEF OffComing, NewOffComing
<1>h. ASSUME phase = "noteon", UNCHANGED keysdown, NEW v, owner'[v] \in Synths,
             keyid'[v] = msg.key
      PROVE  Accounted(v)' /\ NewAccounted(v)'
  <2>1. <<msg.chan, msg.key>> \in keysdown /\ msg.chan \in Channels
    BY <1>a, <1>h DEF NoteInv, Message
  <2>2. Down(owner[v], keyid[v])'  BY <1>h, <2>1 DEF Down, Hears
  <2> QED  BY <2>2 DEF Accounted, NewAccounted
<1>1. CASE TakeFree
  <2>0. PICK v : v = Head(free)  OBVIOUS
  <2> DEFINE f == flags[v] \ {"ON", "REON"}
  <2>1. /\ free # << >> /\ todo # << >>
    BY <1>1 DEF TakeFree, HasRoom, ListInv, CursorOK
  <2>2. v \in Voices /\ v \in Range(free) /\ Head(todo) \in Synths
    BY <1>a, <2>0, <2>1, TailProperties
  <2>3. Range(Cons(v, new)) = Range(new) \cup {v}
    BY <1>a, <2>2, ConsProperties
  <2>4. /\ owner' = [owner EXCEPT ![v] = Head(todo)] /\ play' = play /\ new' = Cons(v, new)
        /\ flags' = [flags EXCEPT ![v] = f] /\ keyid' = [keyid EXCEPT ![v] = msg.key]
        /\ UNCHANGED <<pedal, keysdown, mchan, phase, mphase, msg>> /\ phase = "noteon"
        /\ AudioTurn
    BY <1>1, <2>0, JackStores DEF TakeFree, synth, note, midi
  <2> HIDE DEF f
  <2>5. owner'[v] \in Synths /\ keyid'[v] = msg.key /\ v \notin Range(play)
    BY <1>a, <2>2, <2>4
  <2>6. Accounted(v)' /\ NewAccounted(v)'  BY <1>h, <2>4, <2>5
  <2>7. \A w \in Voices \ {v} : owner'[w] = owner[w] /\ keyid'[w] = keyid[w]
    BY <1>a, <2>4
  <2>8. \A w : ~OffComing(w) /\ ~NewOffComing(w)  BY <1>g, <2>4 DEF AudioTurn
  <2> QED  BY <1>f, <2>2, <2>3, <2>4, <2>6, <2>7, <2>8
<1>2. CASE ReuseOnly
  <2>1. PICK i \in DOMAIN play :
          /\ AudioStore([flags EXCEPT ![play[i]] = (@ \ {"ON", "DONE", "OFF"}) \cup {"REON"}])
          /\ keyid' = [keyid EXCEPT ![play[i]] = msg.key]
    BY <1>2 DEF ReuseOnly
  <2>0. PICK v : v = play[i]  OBVIOUS
  <2> DEFINE f == (flags[v] \ {"ON", "DONE", "OFF"}) \cup {"REON"}
  <2>2. v \in Range(play) /\ v \in Voices  BY <1>a, <2>0 DEF Range
  <2>3. /\ flags' = [flags EXCEPT ![v] = f] /\ keyid' = [keyid EXCEPT ![v] = msg.key]
        /\ UNCHANGED <<owner, play, new>>
        /\ UNCHANGED <<pedal, keysdown, mchan, phase, mphase, msg>> /\ phase = "noteon"
        /\ AudioTurn
    BY <1>2, <2>0, <2>1, JackStores DEF ReuseOnly, lists, synth, note, midi
  <2> HIDE DEF f
  <2>4. owner'[v] \in Synths /\ keyid'[v] = msg.key  BY <1>a, <1>c, <2>2, <2>3
  <2>5. Accounted(v)' /\ NewAccounted(v)'  BY <1>h, <2>3, <2>4
  <2>6. \A w \in Voices \ {v} : owner'[w] = owner[w] /\ keyid'[w] = keyid[w]
    BY <1>a, <2>3
  <2>7. \A w : ~OffComing(w) /\ ~NewOffComing(w)  BY <1>g, <2>3 DEF AudioTurn
  <2> QED  BY <1>f, <2>2, <2>3, <2>5, <2>6, <2>7
<1>3. CASE StealVoice
  <2>0. /\ UNCHANGED <<owner, pedal, keysdown, mchan, phase, mphase, msg>>
        /\ phase = "noteon" /\ AudioTurn
    BY <1>3 DEF StealVoice, synth, note, midi
  <2>a. \A w : ~OffComing(w) /\ ~NewOffComing(w)  BY <1>g, <2>0 DEF AudioTurn
  <2>1. CASE UNCHANGED <<lists, flags, keyid>>
    BY <1>e, <2>0, <2>a, <2>1 DEF lists
  <2>2. CASE ~UNCHANGED <<lists, flags, keyid>>
    <3>1. PICK i \in DOMAIN play :
            LET kept == flags[play[i]] \ {"ON", "REON"}
            IN  /\ play' = Unlink(play, play[i]) /\ new' = Cons(play[i], new)
                /\ keyid' = [keyid EXCEPT ![play[i]] = msg.key]
                /\ AudioStore([flags EXCEPT ![play[i]] =
                      IF owner[play[i]] = Head(todo) THEN kept \cup {"REON"} ELSE kept])
      BY <1>3, <2>2 DEF StealVoice
    <3>0. PICK v : v = play[i]  OBVIOUS
    <3> DEFINE f == IF owner[v] = Head(todo) THEN (flags[v] \ {"ON", "REON"}) \cup {"REON"}
                                             ELSE flags[v] \ {"ON", "REON"}
    <3>2. v \in Range(play) /\ v \in Voices  BY <1>a, <3>0 DEF Range
    <3>3. AudioStore([flags EXCEPT ![v] = f])  BY <3>0, <3>1
    <3>4. flags' = [flags EXCEPT ![v] = f]  BY <2>0, <3>3, JackStores
    <3>5. /\ play' = Unlink(play, v) /\ new' = Cons(v, new)
          /\ keyid' = [keyid EXCEPT ![v] = msg.key]
      BY <3>0, <3>1
    <3> HIDE DEF f
    <3>6. Range(play') = Range(play) \ {v}
      BY <1>a, <3>2, <3>5, UnlinkProperties
    <3>7. Range(new') = Range(new) \cup {v}
      <4>1. v \in Voices /\ new \in Seq(Voices)  BY <1>a, <3>2
      <4> QED  BY <3>5, <4>1, ConsProperties
    <3>8. owner'[v] \in Synths /\ keyid'[v] = msg.key  BY <1>a, <1>c, <2>0, <3>2, <3>5
    <3>9. Accounted(v)' /\ NewAccounted(v)'  BY <1>h, <2>0, <3>8
    <3>10. \A w \in Voices \ {v} : owner'[w] = owner[w] /\ keyid'[w] = keyid[w]
      BY <1>a, <2>0, <3>5
    <3> QED  BY <1>f, <2>0, <2>a, <3>2, <3>4, <3>6, <3>7, <3>9, <3>10
  <2> QED  BY <2>1, <2>2
<1>4. CASE OffLook
  <2>1. /\ UNCHANGED <<play, new, flags, owner, keyid, pedal, keysdown, mchan>>
        /\ UNCHANGED <<msg, mphase, mcur>> /\ phase = "noteoff" /\ mphase = "idle"
    BY <1>4 DEF OffLook, AudioTurn, lists, voice, synth, midi
  <2>2. CASE cur = NoVoice
    <3>1. phase' = "offnew" /\ cur' = HeadOf(new)  BY <1>4, <2>2 DEF OffLook
    <3>2. \A v \in Range(play) : ~OffComing(v)
      BY <2>1, <2>2 DEF OffComing, ToPass, Passed
    <3>3. ToPass(new', cur') = Range(new)
      BY <1>a, <2>1, <3>1, PassedProperties DEF ToPass
    <3>4. \A v \in Range(new) : NewOffComing(v) => NewOffComing(v)'
      BY <2>1, <3>1, <3>3 DEF NewOffComing
    <3> QED  BY <1>e, <2>1, <3>1, <3>2, <3>4
  <2>3. CASE cur # NoVoice
    <3>1. cur \in Range(play)  BY <2>1, <2>3 DEF ListInv, CursorOK
    <3>2. owner[cur] \in Synths /\ mix[owner[cur]] = {}  BY <1>c, <3>1 DEF JackTurns
    <3>3. ~Suspended(owner[cur]) /\ (keyid[cur] = msg.key => NoteMatches(cur))
      BY <1>a, <3>2 DEF Suspended, NoteMatches, Message
    <3>4. CASE NoteMatches(cur)
      <4>1. /\ sustained' = (pedal[owner[cur]] = "down" /\ voicecount[owner[cur]] > 1)
            /\ phase' = "offmark" /\ cur' = cur
        BY <1>4, <2>3, <3>3, <3>4 DEF OffLook
      <4>2. \A v : OffComing(v) => OffComing(v)'  BY <2>1, <4>1 DEF OffComing
      <4>3. \A v : NewOffComing(v) => NewOffComing(v)'  BY <2>1, <4>1 DEF NewOffComing
      <4> QED  BY <1>e, <2>1, <4>1, <4>2, <4>3
    <3>5. CASE ~NoteMatches(cur)
      <4>1. cur' = After(play, cur) /\ phase' = "noteoff"
        BY <1>4, <2>1, <2>3, <3>5 DEF OffLook
      <4>2. ToPass(play', cur') = ToPass(play, cur) \ {cur}
        BY <1>a, <2>1, <3>1, <4>1, PassedProperties DEF ToPass
      <4>3. \A v : OffComing(v) => OffComing(v)'
        BY <2>1, <3>3, <3>5, <4>1, <4>2 DEF OffComing
      <4>4. \A v : NewOffComing(v) => NewOffComing(v)'  BY <2>1, <4>1 DEF NewOffComing
      <4> QED  BY <1>e, <2>1, <4>1, <4>3, <4>4
    <3> QED  BY <3>4, <3>5
  <2> QED  BY <2>2, <2>3
<1>5. CASE OffMark
  <2>1. PICK x : x = cur  OBVIOUS
  <2> DEFINE f == flags[x] \cup (IF sustained THEN {"SUSTAIN"} ELSE {"OFF"})
  <2>2. /\ flags' = [flags EXCEPT ![x] = f] /\ cur' = After(play, x)
        /\ phase = "offmark" /\ phase' = "noteoff" /\ mphase = "idle"
        /\ UNCHANGED <<play, new, owner, keyid, pedal, keysdown, mchan, msg, mphase, mcur>>
    BY <1>5, <2>1, JackStores DEF OffMark, AudioTurn, lists, voice, synth, note, midi
  <2>3. x \in Range(play) /\ x \in Voices /\ x \notin Range(new)
    BY <1>a, <2>1, <2>2 DEF ListInv, CursorOK
  <2>4. f = IF sustained THEN flags[x] \cup {"SUSTAIN"} ELSE flags[x] \cup {"OFF"}
    OBVIOUS
  <2> HIDE DEF f
  <2>5. ToPass(play', cur') = ToPass(play, cur) \ {x}
    BY <1>a, <2>1, <2>2, <2>3, PassedProperties DEF ToPass
  <2>6. \A v \in Range(play) \ {x} : OffComing(v) => OffComing(v)'
    BY <2>2, <2>5 DEF OffComing
  <2>7. \A v : NewOffComing(v) => NewOffComing(v)'  BY <2>2 DEF NewOffComing
  <2>8. Accounted(x)'
    <3>1. flags'[x] = f /\ owner'[x] = owner[x]  BY <1>a, <2>2, <2>3
    <3>2. CASE sustained
      <4>1. "SUSTAIN" \in flags'[x] /\ pedal'[owner'[x]] # "up"
        BY <2>1, <2>2, <2>4, <3>1, <3>2 DEF NoteInv
      <4> QED  BY <4>1 DEF Accounted
    <3>3. CASE ~sustained
      BY <2>4, <3>1, <3>3 DEF Accounted, Audible
    <3> QED  BY <3>2, <3>3
  <2> QED  BY <1>f, <2>2, <2>3, <2>6, <2>7, <2>8
<1>6. CASE OffNew
  <2>1. /\ phase = "offnew" /\ mphase = "idle" /\ AudioTurn
        /\ UNCHANGED <<play, owner, keyid, pedal, keysdown, mchan, msg, mphase, mcur>>
    BY <1>6 DEF OffNew, AudioTurn, lists, voice, synth, note, midi
  <2>2. \A v : ~OffComing(v)  BY <2>1 DEF OffComing
  <2>3. CASE cur = NoVoice
    <3>1. phase' \in {"wait", "drain"} /\ UNCHANGED <<lists, flags>>
      BY <1>6, <2>3 DEF OffNew, Resume
    <3>2. \A v \in Range(new) : ~NewOffComing(v)
      BY <2>1, <2>3 DEF NewOffComing, ToPass, Passed
    <3> QED  BY <1>e, <2>1, <2>2, <3>1, <3>2 DEF lists
  <2>4. CASE cur # NoVoice
    <3>1. PICK x : x = cur  OBVIOUS
    <3>2. x \in Range(new) /\ x \in Voices /\ x \notin Range(play)
      BY <1>a, <2>1, <2>4, <3>1 DEF ListInv, CursorOK
    <3>3. cur' = After(new, x) /\ phase' = "offnew"
      BY <1>6, <2>1, <2>4, <3>1 DEF OffNew
    <3>4. owner[x] \in Synths /\ mix[owner[x]] = {}  BY <1>c, <3>2 DEF JackTurns
    <3>5. keyid[x] = msg.key => NoteMatches(x)
      BY <1>a, <3>4 DEF NoteMatches, Message
    <3>6. CASE ~NoteMatches(x)
      <4>1. UNCHANGED <<lists, flags>>  BY <1>6, <2>4, <3>1, <3>6 DEF OffNew
      <4>2. ToPass(new', cur') = ToPass(new, cur) \ {x}
        BY <1>a, <3>1, <3>2, <3>3, <4>1, PassedProperties DEF ToPass, lists
      <4>3. \A v : NewOffComing(v) => NewOffComing(v)'
        BY <2>1, <3>3, <3>5, <3>6, <4>2 DEF NewOffComing
      <4> QED  BY <1>e, <2>1, <2>2, <3>3, <4>1, <4>3 DEF lists
    <3>7. CASE NoteMatches(x) /\ voicecount[owner[x]] > 1
      <4>1. /\ AudioStore([flags EXCEPT ![x] = @ \ {"ON", "REON"}])
            /\ new' = Unlink(new, x)
        BY <1>6, <2>4, <3>1, <3>7 DEF OffNew
      <4>2. flags' = [flags EXCEPT ![x] = @ \ {"ON", "REON"}]  BY <2>1, <4>1, JackStores
      <4>3. Range(new') = Range(new) \ {x}  BY <1>a, <3>2, <4>1, UnlinkProperties
      <4>4. ToPass(new, cur) \ {x} \subseteq ToPass(new', cur')
        BY <1>a, <3>1, <3>2, <3>3, <4>1, UnlinkToPass
      <4>5. \A v \in Range(new) \ {x} : NewOffComing(v) => NewOffComing(v)'
        BY <2>1, <3>3, <4>4 DEF NewOffComing
      <4> QED  BY <1>f, <2>1, <2>2, <3>2, <3>3, <4>2, <4>3, <4>5
    <3>8. CASE NoteMatches(x) /\ ~(voicecount[owner[x]] > 1)
      <4> DEFINE f == (flags[x] \ {"ON", "REON"}) \cup {"OFF", "SUSTAIN", "REOFF"}
      <4>1. AudioStore([flags EXCEPT ![x] = f]) /\ UNCHANGED lists
        BY <1>6, <2>4, <3>1, <3>8 DEF OffNew
      <4>2. flags' = [flags EXCEPT ![x] = f]  BY <2>1, <4>1, JackStores
      <4>3. "REOFF" \in f  OBVIOUS
      <4> HIDE DEF f
      <4>4. ToPass(new', cur') = ToPass(new, cur) \ {x}
        BY <1>a, <3>1, <3>2, <3>3, <4>1, PassedProperties DEF ToPass, lists
      <4>5. \A v \in Range(new) \ {x} : NewOffComing(v) => NewOffComing(v)'
        BY <2>1, <3>3, <4>4 DEF NewOffComing
      <4>6. NewAccounted(x)'  BY <1>a, <3>2, <4>2, <4>3 DEF NewAccounted
      <4> QED  BY <1>f, <2>1, <2>2, <3>2, <3>3, <4>1, <4>2, <4>5, <4>6 DEF lists
    <3> QED  BY <3>6, <3>7, <3>8
  <2> QED  BY <2>3, <2>4
<1>7. ASSUME NEW m \in Message, StartNote(m), phase \in {"wait", "drain"}, mphase = "idle",
             UNCHANGED <<lists, flags, voice, pedal, mphase, mcur, mchan>>
      PROVE  NoteInv'
  <2>1. UNCHANGED <<play, new, flags, owner, keyid, pedal, mchan>>
    BY <1>7 DEF lists, voice
  <2>2. \A v : ~OffComing(v) /\ ~NewOffComing(v)  BY <1>7, <1>g
  <2>3. m.chan \in Channels /\ m.key \in Keys /\ m.type \in {"on", "off"}  BY DEF Message
  <2>4. CASE m.type = "on"
    <3>1. /\ msg' = m /\ phase' = "noteon"
          /\ keysdown' = keysdown \cup {<<m.chan, m.key>>}
      BY <1>7, <2>4 DEF StartNote
    <3>2. \A v \in Range(play') : Accounted(v)'
      BY <2>1, <2>2, <3>1 DEF NoteInv, Accounted, Audible, Down, Hears
    <3>3. \A v \in Range(new') : NewAccounted(v)'
      BY <2>1, <2>2, <3>1 DEF NoteInv, NewAccounted, Down, Hears
    <3> QED  BY <2>1, <3>1, <3>2, <3>3 DEF NoteInv
  <2>5. CASE m.type # "on"
    <3>1. /\ msg' = m /\ phase' = "noteoff" /\ cur' = HeadOf(play)
          /\ keysdown' = keysdown \ {<<m.chan, m.key>>}
      BY <1>7, <2>5 DEF StartNote
    <3>2. ToPass(play', cur') = Range(play)
      BY <1>a, <2>1, <3>1, PassedProperties DEF ToPass
    <3>3. ASSUME NEW v \in Range(play) \cup Range(new), Down(owner[v], keyid[v])
          PROVE  Down(owner[v], keyid[v])' \/ keyid'[v] = m.key
      BY <2>1, <3>1, <3>3 DEF Down, Hears
    <3>4. \A v \in Range(play') : Accounted(v)'
      <4> SUFFICES ASSUME NEW v \in Range(play) PROVE Accounted(v)'
        BY <2>1
      <4>1. keyid'[v] = m.key => OffComing(v)'  BY <3>1, <3>2 DEF OffComing
      <4>2. Accounted(v)  BY DEF NoteInv
      <4> QED  BY <2>1, <2>2, <3>3, <4>1, <4>2 DEF Accounted, Audible
    <3>5. \A v \in Range(new') : NewAccounted(v)'
      <4> SUFFICES ASSUME NEW v \in Range(new) PROVE NewAccounted(v)'
        BY <2>1
      <4>1. keyid'[v] = m.key => NewOffComing(v)'  BY <3>1 DEF NewOffComing
      <4>2. NewAccounted(v)  BY DEF NoteInv
      <4> QED  BY <2>1, <2>2, <3>3, <4>1, <4>2 DEF NewAccounted
    <3> QED  BY <2>1, <3>1, <3>4, <3>5 DEF NoteInv
  <2> QED  BY <2>4, <2>5
<1>8. CASE Drain
  <2>1. ring # << >> /\ ring \in Seq(Message)  BY <1>8 DEF Drain, ListInv, TypeOK
  <2>2. Head(ring) \in Message  BY <2>1, HeadTailProperties
  <2>3. /\ StartNote(Head(ring)) /\ phase \in {"wait", "drain"} /\ mphase = "idle"
        /\ UNCHANGED <<lists, flags, voice, pedal, mphase, mcur, mchan>>
    BY <1>8 DEF Drain, AudioTurn, synth, midi
  <2> QED  BY <1>7, <2>2, <2>3
<1>9. CASE Retire
  <2>1. /\ phase = "retire" /\ phase' \in {"retire", "start"} /\ mphase = "idle" /\ AudioTurn
        /\ UNCHANGED <<owner, keyid, pedal, keysdown, mchan, msg>>
    BY <1>9 DEF Retire, AudioTurn, voice, synth, note, midi
  <2>2. \A v : ~OffComing(v) /\ ~NewOffComing(v)  BY <2>1, <1>g
  <2>3. CASE UNCHANGED <<lists, flags>>
    BY <1>e, <2>1, <2>2, <2>3 DEF lists
  <2>4. CASE ~UNCHANGED <<lists, flags>>
    <3>0. PICK x : x = cur  OBVIOUS
    <3>1. /\ x # NoVoice /\ play' = Unlink(play, x) /\ new' = new
          /\ AudioStore([flags EXCEPT ![x] = @ \ {"OFFING"}])
      BY <1>9, <2>4, <3>0 DEF Retire
    <3>2. x \in Range(play) /\ x \in Voices
      BY <1>a, <2>1, <3>0, <3>1 DEF ListInv, CursorOK
    <3>3. Range(play') = Range(play) \ {x} /\ x \notin Range(new)
      BY <1>a, <3>1, <3>2, UnlinkProperties
    <3>4. flags' = [flags EXCEPT ![x] = @ \ {"OFFING"}]  BY <2>1, <3>1, JackStores
    <3> QED  BY <1>f, <2>1, <2>2, <3>1, <3>2, <3>3, <3>4
  <2> QED  BY <2>3, <2>4
<1>10. CASE StartVoice
  <2>1. /\ phase = "start" /\ phase' \in {"start", "voices"} /\ mphase = "idle" /\ AudioTurn
        /\ UNCHANGED <<owner, keyid, pedal, keysdown, mchan, msg>>
    BY <1>10 DEF StartVoice, AudioTurn, voice, synth, note, midi
  <2>2. \A v : ~OffComing(v) /\ ~NewOffComing(v)  BY <2>1, <1>g
  <2>3. CASE new = << >>
    <3>1. UNCHANGED <<lists, flags>>  BY <1>10, <2>3 DEF StartVoice
    <3> QED  BY <1>e, <2>1, <2>2, <3>1 DEF lists
  <2>4. CASE new # << >>
    <3>0. PICK v : v = Head(new)  OBVIOUS
    <3>1. /\ v \in Voices /\ Range(new) = Range(Tail(new)) \cup {v}
          /\ v \notin Range(Tail(new))
      BY <1>a, <2>4, <3>0, TailProperties
    <3>2. /\ new' = Tail(new) /\ play' = Cons(v, play)
          /\ flags' = [flags EXCEPT ![v] = Started(flags[v])]
      BY <1>10, <2>4, <3>0, JackStores DEF StartVoice
    <3>3. Range(play') = Range(play) \cup {v}
      <4>1. v \in Voices /\ play \in Seq(Voices)  BY <1>a, <3>1
      <4> QED  BY <3>2, <4>1, ConsProperties
    <3>4. Accounted(v)'
      <4>1. NewAccounted(v)  BY <3>1 DEF NoteInv
      <4>2. "REOFF" \in flags[v] => "OFF" \in Started(flags[v])  BY DEF Started
      <4>3. flags'[v] = Started(flags[v])  BY <1>a, <3>1, <3>2
      <4> QED
        BY <2>1, <2>2, <4>1, <4>2, <4>3
        DEF NewAccounted, Accounted, Audible, Down, Hears
    <3> QED  BY <1>f, <2>1, <2>2, <3>1, <3>2, <3>3, <3>4
  <2> QED  BY <2>3, <2>4
<1>11. CASE RunOrphan
  <2>1. cur \in Range(play)  BY <1>11 DEF RunOrphan, ListInv, CursorOK
  <2> QED  BY <1>11, <2>1 DEF RunOrphan, InUse
<1>12. CASE RunVoice
  <2>0. PICK x : x = cur  OBVIOUS
  <2> DEFINE g == gain[x][owner[x]]
  <2>1. /\ phase = "voices" /\ phase' = "voices" /\ mphase = "idle" /\ AudioTurn
        /\ UNCHANGED <<play, new, owner, keyid, pedal, keysdown, mchan, msg>>
    BY <1>12 DEF RunVoice, AudioTurn, lists, note, midi
  <2>2. \A v : ~OffComing(v) /\ ~NewOffComing(v)  BY <2>1, <1>g
  <2>3. x \in Range(play) /\ x \in Voices /\ "DONE" \notin flags[x] /\ x \notin Range(new)
    BY <1>a, <1>12, <2>0 DEF RunVoice, ListInv, CursorOK
  <2>4. PICK f \in {flags[x] \cup {"OFF"}, FlagsAfter(flags[x], g)} :
          flags' = [flags EXCEPT ![x] = f]
    BY <1>12, <1>a, <2>0, JackStores DEF RunVoice
  <2>5. /\ "OFF" \notin f => "OFF" \notin flags[x]
        /\ "OFF" \notin f /\ "SUSTAIN" \in flags[x] => "SUSTAIN" \in f
    BY <2>4 DEF FlagsAfter
  <2> HIDE DEF g
  <2>6. Accounted(x)'
    <3>1. Accounted(x)  BY <2>3 DEF NoteInv
    <3>2. flags'[x] = f  BY <1>a, <2>3, <2>4
    <3> QED
      BY <2>1, <2>2, <2>3, <2>5, <3>1, <3>2 DEF Accounted, Audible, Down, Hears
  <2> QED  BY <1>f, <2>1, <2>2, <2>3, <2>4, <2>6
<1>13. CASE EndPeriod
  <2>1. /\ flags' = [v \in Voices |-> IF v \in Range(play)
                                      THEN flags[v] \ {"ON", "REON"} ELSE flags[v]]
        /\ phase = "clear" /\ phase' = "wait" /\ mphase = "idle"
        /\ UNCHANGED <<play, new, owner, keyid, pedal, keysdown, mchan, msg>>
    BY <1>13, JackStores DEF EndPeriod, AudioTurn, lists, voice, synth, note, midi
  <2>2. \A v : ~OffComing(v) /\ ~NewOffComing(v)  BY <2>1, <1>g
  <2>3. ASSUME NEW v \in Range(play) PROVE Accounted(v)'
    <3>1. flags'[v] = flags[v] \ {"ON", "REON"}  BY <1>a, <2>1
    <3>2. Accounted(v)  BY DEF NoteInv
    <3> QED  BY <2>1, <2>2, <3>1, <3>2 DEF Accounted, Audible, Down, Hears
  <2>4. ASSUME NEW v \in Range(new) PROVE NewAccounted(v)'
    <3>1. flags'[v] = flags[v]  BY <1>a, <2>1
    <3>2. NewAccounted(v)  BY DEF NoteInv
    <3> QED  BY <2>1, <2>2, <3>1, <3>2 DEF NewAccounted, Down, Hears
  <2> QED  BY <2>1, <2>3, <2>4 DEF NoteInv
<1>14. CASE AudioStep
  <2>1. ASSUME OfferNote \/ NoteOnDone \/ EmptyPeriod \/ BeginPeriod
                 \/ Drained \/ CountSynth \/ SynthsDone \/ SkipVoice \/ VoicesDone
        PROVE  NoteInv'
    <3>1. /\ UNCHANGED <<play, new, flags, owner, keyid, pedal, keysdown, mchan, msg>>
          /\ phase \notin {"noteoff", "offmark", "offnew"} /\ mphase = "idle"
          /\ phase' # "offmark" /\ (phase' = "noteon" => phase = "noteon")
      BY <2>1 DEF OfferNote, NoteOnDone, EmptyPeriod, BeginPeriod, Drained,
                  CountSynth, SynthsDone, SkipVoice, VoicesDone, AudioTurn, Resume, lists,
                  voice, synth, note, midi
    <3>2. \A v : ~OffComing(v) /\ ~NewOffComing(v)  BY <3>1, <1>g
    <3> QED  BY <1>e, <3>1, <3>2
  <2> QED
    BY <1>14, <1>b, <2>1, <1>1, <1>2, <1>3, <1>4, <1>5, <1>6, <1>8, <1>9, <1>10, <1>11,
       <1>12, <1>13
    DEF AudioStep
<1>15. CASE Event
  <2>1. ASSUME NEW m \in Message, QueueNote(m) PROVE NoteInv'
    BY <2>1 DEF QueueNote
  <2>2. ASSUME NEW m \in Message, JackNote(m) PROVE NoteInv'
    <3>1. /\ StartNote(m) /\ phase \in {"wait", "drain"} /\ mphase = "idle"
          /\ UNCHANGED <<lists, flags, voice, pedal, mphase, mcur, mchan>>
      BY <2>2 DEF JackNote, Deliver, synth
    <3> QED  BY <1>7, <3>1
  <2>3. ASSUME NEW c \in Channels, NotesOff(c) PROVE NoteInv'
    <3>1. /\ UNCHANGED <<play, new, flags, owner, keyid, pedal, keysdown, msg, phase>>
          /\ phase = "wait" /\ mphase = "idle" /\ mchan' = c
      BY <2>3 DEF NotesOff, Deliver, StartScan, lists, voice, synth, note
    <3>2. \A v : ~OffComing(v) /\ ~NewOffComing(v)  BY <3>1, <1>g
    <3>3. \A v \in Range(play') : Accounted(v)'
      BY <3>1, <3>2 DEF NoteInv, Accounted, Audible, Down, Hears
    <3>4. \A v \in Range(new') : NewAccounted(v)'
      BY <3>1, <3>2 DEF NoteInv, NewAccounted, Down, Hears
    <3> QED  BY <3>1, <3>3, <3>4 DEF NoteInv
  <2>4. ASSUME NEW c \in Channels, NEW p \in PedalPosition, Pedal(c, p) PROVE NoteInv'
    <3>1. /\ UNCHANGED <<play, new, flags, owner, keyid, keysdown, msg, phase>>
          /\ phase = "wait" /\ mphase = "idle" /\ mchan' \in Channels
          /\ pedal' = [s \in Synths |-> IF s \in Range(audiolist) /\ Hears(s, c)
                                        THEN p ELSE pedal[s]]
      BY <2>4 DEF Pedal, Deliver, StartScan, lists, voice, note, NoteInv
    <3>2. \A v : ~OffComing(v) /\ ~NewOffComing(v)  BY <3>1, <1>g
    <3>3. \A s \in Synths : pedal'[s] = p
      BY <3>1 DEF JackTurns
    <3>4. ASSUME p = "up", NEW v \in Range(play), "SUSTAIN" \in flags[v] PROVE OffComing(v)'
      <4>1. mphase' = "sustoff" /\ mcur' = HeadOf(play)
        BY <2>4, <3>4 DEF Pedal, StartScan
      <4>2. ToPass(play', mcur') = Range(play)
        BY <1>a, <3>1, <4>1, PassedProperties DEF ToPass
      <4> QED  BY <3>1, <3>4, <4>1, <4>2 DEF OffComing
    <3>5. ASSUME NEW v \in Range(play) PROVE Accounted(v)'
      <4>1. Accounted(v) /\ owner[v] \in Synths  BY <1>c DEF NoteInv
      <4> QED
        BY <3>1, <3>2, <3>3, <3>4, <4>1 DEF Accounted, Audible, Down, Hears
    <3>6. \A v \in Range(new') : NewAccounted(v)'
      BY <3>1, <3>2 DEF NoteInv, NewAccounted, Down, Hears
    <3> QED  BY <3>1, <3>5, <3>6 DEF NoteInv
  <2>5. ASSUME NEW s \in Synths, ExitSynth(s) PROVE NoteInv'
    BY <2>5 DEF ExitSynth
  <2>6. ASSUME NEW s \in Synths, NEW on \in BOOLEAN, HoldKeys(s, on) PROVE NoteInv'
    BY <2>6 DEF HoldKeys
  <2> QED  BY <1>15, <2>1, <2>2, <2>3, <2>4, <2>5, <2>6 DEF Event
\* Where no note is being handled, the newlist waits for nothing.
<1>i. ASSUME phase = "wait" PROVE \A v : ~NewOffComing(v)
  BY <1>i DEF NewOffComing
<1>16. CASE SustainedOff
  <2>0. PICK x : x = mcur  OBVIOUS
  <2>1. /\ x \in Range(play) /\ x \in Voices /\ Scanning /\ x \notin Range(new)
        /\ mphase = "sustoff" /\ phase = "wait"
    BY <1>a, <1>16, <2>0 DEF SustainedOff, JackTurns, Scanning
  <2>2. /\ UNCHANGED <<play, new, owner, keyid, pedal, keysdown, mchan, msg, phase, mphase>>
        /\ mcur' = After(play, x)
    BY <1>16, <2>0, <2>1
    DEF SustainedOff, NextVoice, lists, voice, synth, note, ListInv, VoicesPartitioned
  <2>3. ToPass(play', mcur') = ToPass(play, mcur) \ {x}
    BY <1>a, <2>0, <2>1, <2>2, PassedProperties DEF ToPass
  <2>4. owner[x] \in Synths /\ Hears(owner[x], mchan)
    BY <1>c, <2>1 DEF NoteInv
  <2>5. PICK f : /\ flags' = [flags EXCEPT ![x] = f]
                 /\ "SUSTAIN" \in flags[x] => "OFF" \in f
                 /\ "SUSTAIN" \notin flags[x] => f = flags[x]
    <3>1. CASE "SUSTAIN" \in flags[x]
      <4>1. flags' = [flags EXCEPT ![x] = flags[x] \cup {"OFF"}]
        BY <1>16, <1>a, <2>0, <2>1, <2>4, <3>1, JackStores DEF SustainedOff
      <4> QED  BY <3>1, <4>1
    <3>2. CASE "SUSTAIN" \notin flags[x]
      <4>1. flags' = [flags EXCEPT ![x] = flags[x]]
        BY <1>16, <1>a, <2>0, <2>1, <3>2 DEF SustainedOff
      <4> QED  BY <3>2, <4>1
    <3> QED  BY <3>1, <3>2
  <2>6. flags'[x] = f /\ \A v \in Voices : v # x => flags'[v] = flags[v]
    BY <1>a, <2>1, <2>5
  <2>7. \A v \in Range(play) \ {x} : OffComing(v) => OffComing(v)'
    BY <1>a, <2>1, <2>2, <2>3, <2>6 DEF OffComing
  <2>8. Accounted(x)'
    <3>1. Accounted(x)  BY <2>1 DEF NoteInv
    <3>2. OffComing(x) => "SUSTAIN" \in flags[x]  BY <2>1 DEF OffComing
    <3> QED
      BY <2>2, <2>5, <2>6, <3>1, <3>2 DEF Accounted, Audible, Down, Hears
  <2> QED  BY <1>f, <1>i, <2>1, <2>2, <2>5, <2>7, <2>8
<1>17. CASE VoiceOff
  <2>0. PICK x : x = mcur  OBVIOUS
  <2>1. /\ x \in Range(play) /\ x \in Voices /\ Scanning /\ x \notin Range(new)
        /\ mphase = "alloff" /\ phase = "wait"
    BY <1>a, <1>17, <2>0 DEF VoiceOff, JackTurns, Scanning
  <2>2. UNCHANGED <<play, new, owner, keyid, pedal, keysdown, mchan, msg, phase, mphase>>
    BY <1>17 DEF VoiceOff, lists, voice, synth, note
  <2>3. owner[x] \in Synths /\ Hears(owner[x], mchan) /\ owner[x] # NoSynth
    BY <1>a, <1>c, <2>1 DEF NoteInv
  <2>4. MidiStore(x, {"OFF", "DONE"} \ {"SUSTAIN"})
    BY <1>17, <2>0, <2>3 DEF VoiceOff
  <2>5. flags' = [flags EXCEPT ![x] = {"OFF", "DONE"} \ {"SUSTAIN"}]
    BY <2>1, <2>4, JackStores
  <2>6. \A v : ~OffComing(v)  BY <2>1 DEF OffComing
  <2>7. Accounted(x)'
    <3>1. flags'[x] = {"OFF", "DONE"} \ {"SUSTAIN"}  BY <1>a, <2>1, <2>5
    <3> QED  BY <3>1 DEF Accounted, Audible
  <2> QED  BY <1>f, <1>i, <2>1, <2>2, <2>5, <2>6, <2>7
<1>18. CASE ScanDone
  <2>1. /\ UNCHANGED <<play, new, flags, owner, keyid, pedal, keysdown, mchan, msg, phase>>
        /\ mcur = NoVoice /\ phase = "wait"
    BY <1>18 DEF ScanDone, JackTurns, lists, voice, note
  <2>2. \A v \in Range(play) : ~OffComing(v)
    BY <2>1 DEF OffComing, ToPass, Passed
  <2> QED  BY <1>e, <1>i, <2>1, <2>2
<1>19. CASE MidiStep
  BY <1>19, <1>16, <1>17, <1>18 DEF MidiStep, CheckLast, FreeSynth, JackTurns
<1>20. CASE UNCHANGED vars
  <2>1. UNCHANGED <<play, new, flags, owner, keyid, pedal, keysdown, mchan, msg, phase,
                    mphase, mcur, cur, sustained>>
    BY <1>20 DEF vars
  <2>2. \A v : OffComing(v)' = OffComing(v) /\ NewOffComing(v)' = NewOffComing(v)
    BY <2>1 DEF OffComing, NewOffComing, ToPass, Passed
  <2> QED  BY <1>e, <2>1, <2>2 DEF NoteInv
<1> QED  BY <1>14, <1>15, <1>19, <1>20 DEF Next

\* With one Jack registration, every GUI alive and every emulator listening to
\* the players' channels, no released note is left sounding: between two
\* periods a voice that is heard has its key down or was sustained under a
\* pedal that has not come back to 0, which is the only value that releases it
\* (rbMidiNoteOn, rbMidiNoteOff, sustainedNotesOff, allNotesOff).
THEOREM NoNoteStuck ==
    ASSUME Direct, Expiring = {}, \A s \in Synths, c \in Channels : Hears(s, c)
    PROVE  Spec => []NoStuckNote
<1>1. Init => ListInv /\ JackInv /\ NoteInv
  BY InitListInv, InitJackInv, InitNoteInv
<1>2. ListInv /\ JackInv /\ NoteInv /\ [Next]_vars => (ListInv /\ JackInv /\ NoteInv)'
  BY NextJackInv, NextNoteInv DEF JackInv
<1>3. NoteInv => NoStuckNote
  BY DEF NoteInv, Accounted, OffComing, NoStuckNote
<1> QED  BY <1>1, <1>2, <1>3, PTL DEF Spec
=============================================================================
