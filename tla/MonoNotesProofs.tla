-------------------------- MODULE MonoNotesProofs --------------------------
(***************************************************************************)
(* Proofs about MonoNotes, for all keys, all numbers of voices and all     *)
(* players: one voice sounds at a time, it plays the key the preference    *)
(* asks for, and the keys of a phrase do not restart its envelope.         *)
(***************************************************************************)
EXTENDS MonoNotes, FiniteSetTheorems, SequenceTheorems, WellFoundedInduction, TLAPS

----------------------------------------------------------------------------
(***************************************************************************)
(* Sets of keys, and of places in a list.                                  *)
(***************************************************************************)

\* Keys have a lowest one (getMNLfirst and getMNLlast scan the table).
LEMMA LowestKey ==
    ASSUME NEW S \in SUBSET Nat, S # {}
    PROVE  Min(S) \in S /\ \A n \in S : Min(S) <= n
<1> DEFINE T == {0 .. n : n \in S}
<1>1. T \subseteq FiniteSubsetsOf(Nat) /\ T # {}
  <2>1. \A n \in S : IsFiniteSet(0 .. n) /\ 0 .. n \subseteq Nat
    BY FS_Interval
  <2> QED  BY <2>1 DEF FiniteSubsetsOf
<1>2. \E x \in T : \A y \in T : ~(<<y, x>> \in StrictSubsetOrdering(Nat))
  <2> HIDE DEF T
  <2> QED  BY <1>1, WFMin, FS_StrictSubsetOrderingWellFounded
<1>3. PICK m \in S : \A n \in S : ~(<<0 .. n, 0 .. m>> \in StrictSubsetOrdering(Nat))
  BY <1>2
<1>4. \A n \in S : m <= n
  <2> SUFFICES ASSUME NEW n \in S, n < m PROVE FALSE
    OBVIOUS
  <2>1. 0 .. n \subseteq 0 .. m /\ 0 .. n # 0 .. m
    OBVIOUS
  <2>2. <<0 .. n, 0 .. m>> \in StrictSubsetOrdering(Nat)
    BY <2>1 DEF StrictSubsetOrdering
  <2> QED  BY <1>3, <2>2
<1> QED  BY <1>4 DEF Min

\* And a highest one, there being 128.
LEMMA HighestKey ==
    ASSUME NEW S \in SUBSET (0 .. 127), S # {}
    PROVE  Max(S) \in S /\ \A n \in S : n <= Max(S)
<1> DEFINE T == {n \in 0 .. 127 : 127 - n \in S}
<1>1. T \in SUBSET Nat
  OBVIOUS
<1>2. PICK x \in S : TRUE
  OBVIOUS
<1>3. 127 - x \in 0 .. 127 /\ 127 - (127 - x) = x
  OBVIOUS
<1>4. T # {}
  BY <1>3
<1>5. PICK m \in T : \A n \in T : m <= n
  <2> HIDE DEF T
  <2> QED  BY <1>1, <1>4, LowestKey
<1>6. 127 - m \in S
  OBVIOUS
<1>7. ASSUME NEW n \in S PROVE n <= 127 - m
  <2>1. 127 - n \in T
    OBVIOUS
  <2>2. m <= 127 - n
    BY <1>5, <2>1
  <2> QED  BY <2>2
<1> QED  BY <1>6, <1>7 DEF Max

\* The places of S are numbered by how many are not behind them.
LEMMA PlaceProperties ==
    ASSUME NEW S, NEW len \in Nat, S \subseteq 1 .. len, NEW n \in 1 .. Cardinality(S)
    PROVE  Place(S, n) \in S
<1> DEFINE UpTo(i) == {j \in S : j <= i}
           rank == [i \in S |-> Cardinality(UpTo(i))]
           ranks == 1 .. Cardinality(S)
<1>1. IsFiniteSet(S) /\ Cardinality(S) \in Nat
  <2>1. IsFiniteSet(1 .. len)
    BY FS_Interval
  <2> QED  BY <2>1, FS_Subset, FS_CardinalityType
<1>2. \A i \in S : IsFiniteSet(UpTo(i)) /\ UpTo(i) \subseteq S
  BY <1>1, FS_Subset
<1>3. ASSUME NEW i \in S PROVE Cardinality(UpTo(i)) \in ranks
  <2>1. i \in UpTo(i)
    OBVIOUS
  <2>2. Cardinality(UpTo(i)) \in Nat /\ Cardinality(UpTo(i)) # 0
    <3> HIDE DEF UpTo
    <3> QED  BY <1>2, <2>1, FS_CardinalityType, FS_EmptySet
  <2>3. Cardinality(UpTo(i)) <= Cardinality(S)
    <3> HIDE DEF UpTo
    <3> QED  BY <1>1, <1>2, FS_Subset
  <2> HIDE DEF UpTo
  <2> QED  BY <1>1, <2>2, <2>3
<1>4. ASSUME NEW i \in S, NEW j \in S, i < j PROVE Cardinality(UpTo(i)) # Cardinality(UpTo(j))
  <2>1. UpTo(i) \subseteq UpTo(j) /\ j \in UpTo(j) /\ j \notin UpTo(i)
    <3>1. /\ i \in Nat /\ j \in Nat /\ ~(j <= i) /\ j <= j
          /\ \A m \in S : m \in Nat /\ (m <= i => m <= j)
      BY <1>4
    <3> QED  BY <3>1
  <2>2. IsFiniteSet(UpTo(j))
    BY <1>2
  <2> HIDE DEF UpTo
  <2> QED  BY <2>1, <2>2, FS_Subset
<1>5. rank \in Injection(S, ranks)
  <2>1. rank \in [S -> ranks]
    BY <1>3
  <2>2. ASSUME NEW i \in S, NEW j \in S, rank[i] = rank[j] PROVE i = j
    <3>1. i \in Nat /\ j \in Nat
      OBVIOUS
    <3>2. Cardinality(UpTo(i)) = Cardinality(UpTo(j))
      BY <2>2
    <3> HIDE DEF UpTo
    <3> QED  BY <1>4, <3>1, <3>2
  <2> HIDE DEF rank
  <2> QED  BY <2>1, <2>2 DEF Injection, IsInjective
<1>6. IsFiniteSet(ranks) /\ Cardinality(ranks) = Cardinality(S)
  <2>1. Cardinality(S) \in Int /\ 1 \in Int
    BY <1>1
  <2> QED  BY <1>1, <2>1, FS_Interval
<1>7. rank \in Surjection(S, ranks)
  <2> HIDE DEF rank, ranks
  <2> QED  BY <1>5, <1>6, FS_Injection
<1>8. \E i \in S : Cardinality({j \in S : j <= i}) = n
  <2>1. \E i \in S : rank[i] = n
    <3> HIDE DEF rank
    <3> QED  BY <1>7 DEF Surjection
  <2> QED  BY <2>1
<1> QED  BY <1>8 DEF Place

\* What is selected from a list is voices of that list, and no more of them.
LEMMA SelectedProperties ==
    ASSUME NEW list \in Seq(Voice), NEW S \in SUBSET DOMAIN list
    PROVE  /\ Selected(list, S) \in Seq(Voice)
           /\ Len(Selected(list, S)) <= Len(list)
           /\ \A n \in DOMAIN Selected(list, S) : \E i \in S : Selected(list, S)[n] = list[i]
<1>1. Len(list) \in Nat /\ S \subseteq 1 .. Len(list)
  BY LenProperties
<1>2. \A n \in 1 .. Cardinality(S) : Place(S, n) \in S
  BY <1>1, PlaceProperties
<1>3. Cardinality(S) \in Nat /\ Cardinality(S) <= Len(list)
  <2>1. IsFiniteSet(1 .. Len(list)) /\ Cardinality(1 .. Len(list)) = Len(list)
    <3>1. Len(list) \in Int /\ 1 \in Int /\ (1 > Len(list) => Len(list) = 0)
      BY <1>1
    <3>2. /\ IsFiniteSet(1 .. Len(list))
          /\ Cardinality(1 .. Len(list)) = IF 1 > Len(list) THEN 0 ELSE Len(list) - 1 + 1
      BY <3>1, FS_Interval
    <3> QED  BY <3>1, <3>2
  <2> QED  BY <1>1, <2>1, FS_Subset, FS_CardinalityType
<1>4. \A n \in 1 .. Cardinality(S) : list[Place(S, n)] \in Voice
  BY <1>1, <1>2, ElementOfSeq
<1> QED  BY <1>2, <1>3, <1>4 DEF Selected

----------------------------------------------------------------------------
(***************************************************************************)
(* The preferred key.                                                      *)
(***************************************************************************)

\* notemap.low and .high are keys of the table, or the edges of the keyboard.
LEMMA PreferredKeys ==
    ASSUME NEW T \in SUBSET (0 .. 127)
    PROVE  /\ Lowest(T) \in 0 .. 127 /\ Highest(T) \in 0 .. 127
           /\ T = {} => Lowest(T) = 127 /\ Highest(T) = 0
           /\ T # {} => /\ Lowest(T) \in T /\ \A n \in T : Lowest(T) <= n
                        /\ Highest(T) \in T /\ \A n \in T : n <= Highest(T)
<1>1. /\ T \cup {127} \in SUBSET Nat /\ T \cup {127} # {}
      /\ T \cup {0} \in SUBSET (0 .. 127) /\ T \cup {0} # {}
  OBVIOUS
<1>2. PICK low : low = Min(T \cup {127})
  OBVIOUS
<1>3. PICK high : high = Max(T \cup {0})
  OBVIOUS
<1>4. low \in T \cup {127} /\ \A n \in T \cup {127} : low <= n
  BY <1>1, <1>2, LowestKey
<1>5. high \in T \cup {0} /\ \A n \in T \cup {0} : n <= high
  BY <1>1, <1>3, HighestKey
<1>6. ASSUME T # {} PROVE low \in T /\ high \in T
  <2>1. PICK x \in T : TRUE
    BY <1>6
  <2>2. x \in 0 .. 127 /\ low <= x /\ x <= high /\ (low = 127 => low = x) /\ (high = 0 => high = x)
    BY <1>4, <1>5, <2>1
  <2> QED  BY <1>4, <1>5, <2>2
<1> QED  BY <1>2, <1>3, <1>4, <1>5, <1>6 DEF Lowest, Highest

\* BestOf is what doMNL looks for in a table that is not empty.
LEMMA BestOfIs ==
    ASSUME NEW T \in SUBSET (0 .. 127), T # {}, NEW b \in T,
           IF pref = "low" THEN \A n \in T : b <= n ELSE \A n \in T : n <= b
    PROVE  BestOf(T) = b
<1>1. T \in SUBSET Nat
  OBVIOUS
<1>2. CASE pref = "low"
  <2>1. Min(T) \in T /\ \A n \in T : Min(T) <= n
    BY <1>1, LowestKey
  <2>2. Min(T) <= b /\ b <= Min(T) /\ Min(T) \in Nat /\ b \in Nat
    BY <1>1, <1>2, <2>1
  <2>3. Min(T) = b
    BY <2>2
  <2> QED  BY <1>2, <2>3 DEF BestOf
<1>3. CASE pref # "low"
  <2>1. Max(T) \in T /\ \A n \in T : n <= Max(T)
    BY HighestKey
  <2>2. Max(T) <= b /\ b <= Max(T) /\ Max(T) \in Nat /\ b \in Nat
    BY <1>1, <1>3, <2>1
  <2>3. Max(T) = b
    BY <2>2
  <2> QED  BY <1>3, <2>3 DEF BestOf
<1> QED  BY <1>2, <1>3

\* doMNL computes a key, whatever the table.
LEMMA ExtremeAfterType ==
    ASSUME TypeOK, NEW T \in SUBSET (0 .. 127)
    PROVE  ExtremeAfter(T) \in 0 .. 127 /\ Chosen(T) \in 0 .. 127
<1>1. extreme \in -1 .. 127 /\ Lowest(T) \in 0 .. 127 /\ Highest(T) \in 0 .. 127
  BY PreferredKeys DEF TypeOK
<1>2. ExtremeAfter(T) \in 0 .. 127
  BY <1>1 DEF ExtremeAfter
<1> QED  BY <1>1, <1>2 DEF Chosen

\* With a key in the table, doMNL plays the one the preference asks for.
LEMMA ChosenIsBest ==
    ASSUME NEW T \in SUBSET (0 .. 127), T # {}
    PROVE  Chosen(T) = BestOf(T) /\ BestOf(T) \in T
<1>1. CASE pref = "low"
  <2>1. Chosen(T) = Lowest(T)
    BY <1>1 DEF Chosen
  <2>2. Lowest(T) \in T /\ \A n \in T : Lowest(T) <= n
    BY PreferredKeys
  <2>3. BestOf(T) = Lowest(T)
    BY <1>1, <2>2, BestOfIs
  <2> QED  BY <2>1, <2>2, <2>3
<1>2. CASE pref # "low"
  <2>1. Chosen(T) = Highest(T)
    BY <1>2 DEF Chosen
  <2>2. Highest(T) \in T /\ \A n \in T : n <= Highest(T)
    BY PreferredKeys
  <2>3. BestOf(T) = Highest(T)
    BY <1>2, <2>2, BestOfIs
  <2> QED  BY <2>1, <2>2, <2>3
<1> QED  BY <1>1, <1>2

\* A key that is outranked makes no difference to the preferred one, be it
\* pressed or let go: S and T have the same keys but for it.
LEMMA OutrankedKey ==
    ASSUME NEW S \in SUBSET (0 .. 127), NEW T \in SUBSET (0 .. 127), T # {},
           NEW k \in 0 .. 127, S \ {k} = T \ {k}, Outranked(k, T)
    PROVE  S # {} /\ BestOf(S) = BestOf(T)
<1>1. CASE pref = "low"
  <2>1. Lowest(T) \in T /\ (\A n \in T : Lowest(T) <= n) /\ Lowest(T) < k
    BY <1>1, PreferredKeys DEF Outranked
  <2>2. Lowest(T) # k
    BY <2>1
  <2>3. Lowest(T) \in S /\ \A n \in S : n = k \/ n \in T
    BY <2>1, <2>2
  <2>4. ASSUME NEW n \in S PROVE Lowest(T) <= n
    <3>1. n = k => Lowest(T) <= n
      <4>1. Lowest(T) \in 0 .. 127
        BY PreferredKeys
      <4>2. Lowest(T) <= k
        BY <2>1, <4>1
      <4> QED  BY <4>2
    <3>2. n \in T => Lowest(T) <= n
      BY <2>1
    <3> QED  BY <2>3, <3>1, <3>2
  <2>5. BestOf(S) = Lowest(T) /\ BestOf(T) = Lowest(T)
    BY <1>1, <2>1, <2>3, <2>4, BestOfIs
  <2> QED  BY <2>3, <2>5
<1>2. CASE pref # "low"
  <2>1. Highest(T) \in T /\ (\A n \in T : n <= Highest(T)) /\ k < Highest(T)
    BY <1>2, PreferredKeys DEF Outranked
  <2>2. Highest(T) # k
    BY <2>1
  <2>3. Highest(T) \in S /\ \A n \in S : n = k \/ n \in T
    BY <2>1, <2>2
  <2>4. ASSUME NEW n \in S PROVE n <= Highest(T)
    <3>1. n = k => n <= Highest(T)
      <4>1. Highest(T) \in 0 .. 127
        BY PreferredKeys
      <4>2. k <= Highest(T)
        BY <2>1, <4>1
      <4> QED  BY <4>2
    <3>2. n \in T => n <= Highest(T)
      BY <2>1
    <3> QED  BY <2>3, <3>1, <3>2
  <2>5. BestOf(S) = Highest(T) /\ BestOf(T) = Highest(T)
    BY <1>2, <2>1, <2>3, <2>4, BestOfIs
  <2> QED  BY <2>3, <2>5
<1> QED  BY <1>1, <1>2

----------------------------------------------------------------------------
(***************************************************************************)
(* What doMNL makes of a voice.                                            *)
(***************************************************************************)

\* doMNL leaves a voice a voice.
LEMMA RetunedType ==
    ASSUME TypeOK, NEW v \in Voice, NEW k \in Keys, NEW press \in BOOLEAN, NEW T \in SUBSET Keys
    PROVE  Retuned(v, k, press, T) \in Voice
<1>1. Chosen(T) \in 0 .. 127
  BY ExtremeAfterType, MonoAssumption
<1>2. Triggered(press, T) \in SUBSET Flag
  BY DEF Triggered, Flag
<1>3. /\ v.id \in Keys /\ v.key \in 0 .. 127 /\ v.flags \in SUBSET Flag /\ v.gain \in {0, 1}
  BY DEF Voice
<1>4. "OFF" \in Flag
  BY DEF Flag
<1>5. ASSUME NEW fl \in SUBSET Flag
      PROVE  /\ [v EXCEPT !.flags = fl] \in Voice
             /\ [v EXCEPT !.id = k, !.key = Chosen(T), !.flags = fl] \in Voice
  BY <1>1, <1>3 DEF Voice
<1> QED  BY <1>2, <1>3, <1>4, <1>5 DEF Retuned

\* What is left of the flags: DONE is never added, OFF is only taken away by a
\* press, a trigger comes from Triggered alone.
LEMMA RetunedFlags ==
    ASSUME NEW v \in Voice, NEW k, NEW press \in BOOLEAN, NEW T
    PROVE  LET w == Retuned(v, k, press, T)
           IN  /\ "DONE" \in w.flags => "DONE" \in v.flags
               /\ "OFF" \in v.flags /\ ~press => "OFF" \in w.flags
               /\ ~press => (Sounding(w) => Sounding(v))
               /\ w.flags \cap {"SUSTAIN", "REOFF"} \subseteq v.flags \cap {"REOFF"}
               /\ Triggers(w) \subseteq Triggers(v) \cup Triggered(press, T)
<1> DEFINE w == Retuned(v, k, press, T)
           f == v.flags \ {"SUSTAIN"}
           g == IF press THEN f \ {"OFF", "OFFING", "DONE"} ELSE f
<1>1. v = [id |-> v.id, key |-> v.key, flags |-> v.flags, gain |-> v.gain]
  BY DEF Voice
<1>2. Triggered(press, T) \subseteq {"ON", "REON"}
  BY DEF Triggered
<1>3. \/ w.flags = f \cup {"OFF"}
      \/ w.flags = f
      \/ w.flags = g \cup Triggered(press, T)
  BY <1>1 DEF Retuned
<1> HIDE DEF w
<1>4. /\ "DONE" \in w.flags => "DONE" \in v.flags
      /\ "OFF" \in v.flags /\ ~press => "OFF" \in w.flags
      /\ ~press => (Sounding(w) => Sounding(v))
  BY <1>2, <1>3 DEF Sounding
<1>5. /\ w.flags \cap {"SUSTAIN", "REOFF"} \subseteq v.flags \cap {"REOFF"}
      /\ Triggers(w) \subseteq Triggers(v) \cup Triggered(press, T)
  BY <1>2, <1>3 DEF Triggers
<1> QED  BY <1>4, <1>5 DEF w

----------------------------------------------------------------------------
(***************************************************************************)
(* A period: the list doAudioOps has, and what it makes of each voice.     *)
(***************************************************************************)

\* A voice is its fields, and an assignment to one leaves the others.
LEMMA VoiceFields ==
    ASSUME NEW v \in Voice
    PROVE  /\ v = [id |-> v.id, key |-> v.key, flags |-> v.flags, gain |-> v.gain]
           /\ v.id \in Keys /\ v.key \in 0 .. 127 /\ v.flags \in SUBSET Flag
           /\ v.gain \in {0, 1}
           /\ \A fl \in SUBSET Flag : [v EXCEPT !.flags = fl] \in Voice
           /\ \A fl : /\ [v EXCEPT !.flags = fl].flags = fl
                      /\ [v EXCEPT !.flags = fl].id = v.id
                      /\ [v EXCEPT !.flags = fl].key = v.key
           /\ \A fl \in SUBSET Flag, g \in {0, 1} : [v EXCEPT !.flags = fl, !.gain = g] \in Voice
BY DEF Voice

\* A voice of the newlist starts with its key on and not done.
LEMMA StartedProperties ==
    ASSUME NEW v \in Voice
    PROVE  /\ Started(v) \in Voice /\ Started(v).id = v.id /\ Started(v).key = v.key
           /\ "DONE" \notin Started(v).flags
           /\ v.flags = {} => Started(v).flags = {"ON"}
<1> DEFINE f == v.flags \ {"DONE", "OFF", "OFFING", "SUSTAIN"}
           g == IF "REON" \in f THEN f ELSE f \cup {"ON"}
           h == IF "REOFF" \in g THEN (g \ {"REOFF"}) \cup {"OFF", "SUSTAIN"} ELSE g
<1>1. Started(v) = [v EXCEPT !.flags = h]
  BY DEF Started
<1>2. h \in SUBSET Flag /\ "DONE" \notin h /\ (v.flags = {} => h = {"ON"})
  BY VoiceFields DEF Flag
<1> HIDE DEF h
<1>3. /\ [v EXCEPT !.flags = h] \in Voice /\ [v EXCEPT !.flags = h].flags = h
      /\ [v EXCEPT !.flags = h].id = v.id /\ [v EXCEPT !.flags = h].key = v.key
  BY <1>2 DEF Voice
<1> QED  BY <1>1, <1>2, <1>3

\* The voices of the newlist come first, then those of the playlist, all of
\* them under a preference, else those that are not done.
LEMMA AssembledProperties ==
    ASSUME TypeOK
    PROVE  /\ Assembled \in Seq(Voice) /\ Len(Assembled) <= VoiceCount
           /\ new = << >> => Assembled = play
           /\ new # << >> /\ pref # "none" =>
                 /\ Len(Assembled) = Len(new) + Len(play)
                 /\ \A i \in 1 .. Len(new) : Assembled[i] = Started(new[Len(new) - i + 1])
                 /\ \A i \in 1 .. Len(play) :
                       Assembled[Len(new) + i] = [play[i] EXCEPT !.flags = @ \ {"DONE"}]
           /\ new # << >> /\ pref = "none" =>
                 \A i \in DOMAIN Assembled :
                    \/ \E j \in DOMAIN new : Assembled[i] = Started(new[j])
                    \/ \E j \in Active(play) : Assembled[i] = play[j]
<1> DEFINE starts == [i \in DOMAIN new |-> Started(new[i])]
           front == Reverse(starts)
           kept == [i \in DOMAIN play |-> [play[i] EXCEPT !.flags = @ \ {"DONE"}]]
           old == IF pref # "none" THEN kept ELSE Selected(play, Active(play))
<1>0. /\ play \in Seq(Voice) /\ new \in Seq(Voice) /\ Len(play) + Len(new) <= VoiceCount
      /\ Len(play) \in Nat /\ Len(new) \in Nat /\ VoiceCount \in Nat
      /\ DOMAIN play = 1 .. Len(play) /\ DOMAIN new = 1 .. Len(new)
      /\ \A i \in 1 .. Len(play) : play[i] \in Voice
      /\ \A i \in 1 .. Len(new) : new[i] \in Voice
  BY MonoAssumption, LenProperties, ElementOfSeq DEF TypeOK
<1>1. CASE new = << >>
  <2>1. Assembled = play
    BY <1>1 DEF Assembled
  <2>2. Len(play) <= VoiceCount
    BY <1>0
  <2> QED  BY <1>0, <1>1, <2>1, <2>2
<1>2. CASE new # << >>
  <2>1. Assembled = front \o old
    BY <1>2 DEF Assembled, OnEach
  <2>2. /\ starts \in Seq(Voice) /\ Len(starts) = Len(new)
        /\ \A i \in 1 .. Len(new) : starts[i] = Started(new[i])
    <3>1. \A i \in 1 .. Len(new) : Started(new[i]) \in Voice
      BY <1>0, StartedProperties
    <3> QED  BY <1>0, <3>1
  <2> HIDE DEF starts
  <2>3. /\ front \in Seq(Voice) /\ Len(front) = Len(new)
        /\ \A i \in 1 .. Len(new) : front[i] = starts[Len(new) - i + 1]
    <3>1. \A i \in 1 .. Len(new) : Len(new) - i + 1 \in 1 .. Len(new)
      BY <1>0
    <3>2. \A i \in 1 .. Len(new) : starts[Len(new) - i + 1] \in Voice
      BY <2>2, <3>1, ElementOfSeq
    <3>3. front = [i \in 1 .. Len(new) |-> starts[Len(new) - i + 1]]
      BY <2>2 DEF Reverse
    <3> QED  BY <1>0, <3>2, <3>3
  <2>4. /\ kept \in Seq(Voice) /\ Len(kept) = Len(play)
        /\ \A i \in 1 .. Len(play) : kept[i] = [play[i] EXCEPT !.flags = @ \ {"DONE"}]
    <3>1. \A i \in 1 .. Len(play) : [play[i] EXCEPT !.flags = @ \ {"DONE"}] \in Voice
      <4> SUFFICES ASSUME NEW i \in 1 .. Len(play)
                   PROVE  [play[i] EXCEPT !.flags = play[i].flags \ {"DONE"}] \in Voice
        OBVIOUS
      <4>1. play[i].flags \ {"DONE"} \in SUBSET Flag
        BY <1>0, VoiceFields
      <4> QED  BY <1>0, <4>1, VoiceFields
    <3> QED  BY <1>0, <3>1
  <2> HIDE DEF front, kept
  <2>5. Active(play) \in SUBSET DOMAIN play
    BY DEF Active
  <2>6. /\ Selected(play, Active(play)) \in Seq(Voice)
        /\ Len(Selected(play, Active(play))) <= Len(play)
        /\ \A n \in DOMAIN Selected(play, Active(play)) :
              \E i \in Active(play) : Selected(play, Active(play))[n] = play[i]
    BY <1>0, <2>5, SelectedProperties
  <2>7. CASE pref # "none"
    <3>1. Assembled = front \o kept
      BY <2>1, <2>7
    <3>2. /\ Assembled \in Seq(Voice) /\ Len(Assembled) = Len(new) + Len(play)
          /\ \A i \in 1 .. Len(new) + Len(play) :
                Assembled[i] = IF i <= Len(new) THEN front[i] ELSE kept[i - Len(new)]
      <4>1. front \in Seq(Voice) /\ kept \in Seq(Voice)
        BY <2>3, <2>4
      <4>2. /\ front \o kept \in Seq(Voice) /\ Len(front \o kept) = Len(front) + Len(kept)
            /\ \A i \in 1 .. Len(front) + Len(kept) :
                  (front \o kept)[i] = IF i <= Len(front) THEN front[i] ELSE kept[i - Len(front)]
        BY <4>1, ConcatProperties
      <4> QED  BY <2>3, <2>4, <3>1, <4>2
    <3>3. ASSUME NEW i \in 1 .. Len(new) PROVE Assembled[i] = Started(new[Len(new) - i + 1])
      <4>1. i \in 1 .. Len(new) + Len(play) /\ i <= Len(new) /\ Len(new) - i + 1 \in 1 .. Len(new)
        BY <1>0
      <4> QED  BY <2>2, <2>3, <3>2, <4>1
    <3>4. ASSUME NEW i \in 1 .. Len(play)
          PROVE  Assembled[Len(new) + i] = [play[i] EXCEPT !.flags = @ \ {"DONE"}]
      <4>1. /\ Len(new) + i \in 1 .. Len(new) + Len(play)
            /\ ~(Len(new) + i <= Len(new)) /\ Len(new) + i - Len(new) = i
        BY <1>0
      <4>2. Assembled[Len(new) + i] = kept[i]
        BY <3>2, <4>1
      <4> QED  BY <2>4, <4>2
    <3>5. Len(Assembled) <= VoiceCount
      BY <1>0, <3>2
    <3> QED  BY <1>2, <2>7, <3>2, <3>3, <3>4, <3>5
  <2>8. CASE pref = "none"
    <3> DEFINE sel == Selected(play, Active(play))
    <3>1. Assembled = front \o sel
      BY <2>1, <2>8
    <3>2. /\ sel \in Seq(Voice) /\ Len(sel) <= Len(play) /\ Len(sel) \in Nat
          /\ DOMAIN sel = 1 .. Len(sel)
          /\ \A n \in DOMAIN sel : \E j \in Active(play) : sel[n] = play[j]
      BY <2>6, LenProperties
    <3> HIDE DEF sel
    <3>3. /\ Assembled \in Seq(Voice) /\ Len(Assembled) = Len(new) + Len(sel)
          /\ \A i \in 1 .. Len(new) + Len(sel) :
                Assembled[i] = IF i <= Len(new) THEN front[i] ELSE sel[i - Len(new)]
      <4>1. front \in Seq(Voice) /\ sel \in Seq(Voice)
        BY <2>3, <3>2
      <4>2. /\ front \o sel \in Seq(Voice) /\ Len(front \o sel) = Len(front) + Len(sel)
            /\ \A i \in 1 .. Len(front) + Len(sel) :
                  (front \o sel)[i] = IF i <= Len(front) THEN front[i] ELSE sel[i - Len(front)]
        BY <4>1, ConcatProperties
      <4> QED  BY <2>3, <3>1, <4>2
    <3>4. Len(Assembled) <= VoiceCount
      BY <1>0, <3>2, <3>3
    <3>5. ASSUME NEW i \in DOMAIN Assembled
          PROVE  \/ \E j \in DOMAIN new : Assembled[i] = Started(new[j])
                 \/ \E j \in Active(play) : Assembled[i] = play[j]
      <4>1. i \in 1 .. Len(new) + Len(sel)
        BY <3>3, LenProperties
      <4>2. CASE i <= Len(new)
        <5>1. i \in 1 .. Len(new) /\ Len(new) - i + 1 \in 1 .. Len(new)
          BY <1>0, <4>1, <4>2
        <5>2. Assembled[i] = Started(new[Len(new) - i + 1])
          BY <2>2, <2>3, <3>3, <4>1, <4>2, <5>1
        <5> QED  BY <1>0, <5>1, <5>2
      <4>3. CASE ~(i <= Len(new))
        <5>1. i - Len(new) \in DOMAIN sel
          BY <1>0, <3>2, <4>1, <4>3
        <5>2. Assembled[i] = sel[i - Len(new)]
          BY <3>3, <4>1, <4>3
        <5> QED  BY <3>2, <5>1, <5>2
      <4> QED  BY <4>2, <4>3
    <3> QED  BY <1>2, <2>8, <3>3, <3>4, <3>5
  <2> QED  BY <2>7, <2>8
<1> QED  BY <1>1, <1>2

\* The voice that is run, and the others.
First(list, i) == i \in Active(list) /\ \A j \in Active(list) : i <= j

Ran(list, i) == [Run(list, i) EXCEPT !.flags = @ \ {"ON", "REON"}]

\* What one period does to one voice of the assembled playlist.
LEMMA RanProperties ==
    ASSUME NEW list \in Seq(Voice), NEW i \in DOMAIN list
    PROVE  LET v == list[i]
               w == Ran(list, i)
           IN  /\ w \in Voice /\ w.id = v.id /\ w.key = v.key
               /\ Triggers(w) = {}
               /\ w.flags \cap {"SUSTAIN", "REOFF"} \subseteq v.flags
               /\ i \notin Active(list) => "DONE" \in w.flags
               /\ i \in Active(list) /\ ~First(list, i) => "OFF" \in w.flags
               /\ "OFF" \in v.flags => "OFF" \in w.flags
               /\ First(list, i) /\ Clears => "OFF" \in w.flags
               /\ pref # "none" /\ i \in Active(list) => "DONE" \notin w.flags
               /\ First(list, i) /\ ~Clears /\ pref # "none" /\ "OFF" \notin v.flags => Sounding(w)
<1> DEFINE v == list[i]
           w == Ran(list, i)
           cleared == [v EXCEPT !.flags = IF Clears THEN (@ \cup {"OFF"}) \ {"SUSTAIN"} ELSE @]
<1>0. v \in Voice
  BY LenProperties, ElementOfSeq
<1>1. CASE i \notin Active(list)
  <2>1. Run(list, i) = v /\ "DONE" \in v.flags
    BY <1>1 DEF Run, Active
  <2>2. w = [v EXCEPT !.flags = v.flags \ {"ON", "REON"}]
    BY <2>1 DEF Ran
  <2>3. v.flags \ {"ON", "REON"} \in SUBSET Flag
    BY <1>0, VoiceFields
  <2> HIDE DEF w, v
  <2>4. w \in Voice /\ w.flags = v.flags \ {"ON", "REON"} /\ w.id = v.id /\ w.key = v.key
    BY <1>0, <2>2, <2>3, VoiceFields
  <2>5. /\ Triggers(w) = {} /\ w.flags \cap {"SUSTAIN", "REOFF"} \subseteq v.flags
        /\ "DONE" \in w.flags /\ ("OFF" \in v.flags => "OFF" \in w.flags)
    BY <2>1, <2>4 DEF Triggers
  <2> QED  BY <1>1, <2>4, <2>5 DEF First, w, v
<1>2. CASE i \in Active(list) /\ ~First(list, i)
  <2>1. Run(list, i) = [v EXCEPT !.flags = v.flags \cup {"OFF"}] /\ "DONE" \notin v.flags
    BY <1>2 DEF Run, Active, First
  <2>2. /\ Run(list, i).flags = v.flags \cup {"OFF"} /\ Run(list, i) \in Voice
        /\ Run(list, i).id = v.id /\ Run(list, i).key = v.key
    <3>1. v.flags \cup {"OFF"} \in SUBSET Flag
      BY <1>0, VoiceFields DEF Flag
    <3> HIDE DEF v
    <3> QED  BY <1>0, <2>1, <3>1 DEF Voice
  <2>3. /\ w \in Voice /\ w.flags = (v.flags \cup {"OFF"}) \ {"ON", "REON"}
        /\ w.id = v.id /\ w.key = v.key
    <3>1. PICK r \in Voice : r = Run(list, i)
      BY <2>2
    <3>2. r.flags \ {"ON", "REON"} \in SUBSET Flag
      BY VoiceFields
    <3>3. w = [r EXCEPT !.flags = r.flags \ {"ON", "REON"}]
      BY <3>1 DEF Ran
    <3> HIDE DEF v, w
    <3> QED  BY <2>2, <3>1, <3>2, <3>3 DEF Voice
  <2> HIDE DEF v, w
  <2>4. /\ Triggers(w) = {} /\ w.flags \cap {"SUSTAIN", "REOFF"} \subseteq v.flags
        /\ "DONE" \notin w.flags /\ "OFF" \in w.flags
    BY <2>1, <2>3 DEF Triggers
  <2> QED  BY <1>2, <2>3, <2>4 DEF First, w, v
<1>3. CASE First(list, i)
  <2>1. Run(list, i) = Operated(cleared) /\ "DONE" \notin v.flags /\ i \in Active(list)
    BY <1>3 DEF Run, Active, First
  <2>2. PICK c \in Voice : /\ c = cleared /\ c.id = v.id /\ c.key = v.key
                           /\ c.flags = IF Clears THEN (v.flags \cup {"OFF"}) \ {"SUSTAIN"} ELSE v.flags
    <3>1. PICK cf : cf = IF Clears THEN (v.flags \cup {"OFF"}) \ {"SUSTAIN"} ELSE v.flags
      OBVIOUS
    <3>2. cf \in SUBSET Flag
      BY <1>0, <3>1, VoiceFields DEF Flag
    <3>3. cleared = [v EXCEPT !.flags = cf]
      BY <3>1
    <3> HIDE DEF v, cleared
    <3>4. cleared \in Voice /\ cleared.id = v.id /\ cleared.key = v.key /\ cleared.flags = cf
      BY <1>0, <3>2, <3>3 DEF Voice
    <3> QED  BY <3>1, <3>4
  <2> HIDE DEF cleared
  <2> DEFINE restart == c.flags \cap {"ON", "REON"} # {}
             off == "OFF" \in c.flags
             f == CASE restart -> c.flags \ {"DONE", "OFFING"}
                    [] ~restart /\ off -> (c.flags \cup {"DONE"}) \ {"OFFING"}
                    [] OTHER -> IF c.gain = 0 THEN c.flags \cup {"DONE"} ELSE c.flags
             fl == IF pref # "none" THEN f \ {"DONE"} ELSE f
             g == IF restart THEN 1 ELSE IF off THEN 0 ELSE c.gain
  <2>3. Operated(c) = [c EXCEPT !.flags = fl, !.gain = g]
    BY DEF Operated
  <2>4. f \in SUBSET Flag /\ c.flags \ {"DONE", "OFFING"} \subseteq f /\ f \subseteq c.flags \cup {"DONE"}
    <3>1. c.flags \in SUBSET Flag
      BY VoiceFields
    <3>2. CASE restart
      BY <3>1, <3>2
    <3>3. CASE ~restart /\ off
      BY <3>1, <3>3 DEF Flag
    <3>4. CASE ~restart /\ ~off
      BY <3>1, <3>4 DEF Flag
    <3> QED  BY <3>2, <3>3, <3>4
  <2> HIDE DEF f
  <2>5. g \in {0, 1}
    BY VoiceFields
  <2> HIDE DEF g, restart, off
  <2>6. /\ fl \in SUBSET Flag /\ c.flags \ {"DONE", "OFFING"} \subseteq fl
        /\ fl \subseteq c.flags \cup {"DONE"} /\ (pref # "none" => "DONE" \notin fl)
    BY <2>4
  <2> HIDE DEF fl
  <2>7. PICK r \in Voice : /\ r = Operated(c) /\ r.flags = fl /\ r.id = c.id /\ r.key = c.key
    <3>1. c = [id |-> c.id, key |-> c.key, flags |-> c.flags, gain |-> c.gain]
      BY VoiceFields
    <3>2. Operated(c) \in Voice
      BY <2>3, <2>5, <2>6 DEF Voice
    <3> QED  BY <2>3, <3>1, <3>2
  <2>8. w = [r EXCEPT !.flags = r.flags \ {"ON", "REON"}]
    BY <2>1, <2>2, <2>7 DEF Ran
  <2>9. w \in Voice /\ w.flags = fl \ {"ON", "REON"} /\ w.id = v.id /\ w.key = v.key
    <3>1. r.flags \ {"ON", "REON"} \in SUBSET Flag
      BY VoiceFields
    <3> HIDE DEF v, w
    <3> QED  BY <2>2, <2>7, <2>8, <3>1 DEF Voice
  <2> HIDE DEF v, w
  <2>10. /\ Triggers(w) = {} /\ w.flags \cap {"SUSTAIN", "REOFF"} \subseteq v.flags
         /\ ("OFF" \in v.flags => "OFF" \in w.flags)
         /\ (Clears => "OFF" \in w.flags)
         /\ (pref # "none" => "DONE" \notin w.flags)
    <3>1. Triggers(w) = {}
      BY <2>9 DEF Triggers
    <3>2. w.flags \cap {"SUSTAIN", "REOFF"} \subseteq v.flags
      BY <2>2, <2>6, <2>9
    <3>3. "OFF" \in v.flags => "OFF" \in w.flags
      BY <2>2, <2>6, <2>9
    <3>4. Clears => "OFF" \in w.flags
      BY <2>2, <2>6, <2>9
    <3>5. pref # "none" => "DONE" \notin w.flags
      BY <2>6, <2>9
    <3> QED  BY <3>1, <3>2, <3>3, <3>4, <3>5
  <2>11. ~Clears /\ pref # "none" /\ "OFF" \notin v.flags => Sounding(w)
    BY <2>2, <2>6, <2>9 DEF Sounding
  <2> QED  BY <1>3, <2>1, <2>9, <2>10, <2>11 DEF w, v
<1> QED  BY <1>1, <1>2, <1>3

\* A period runs the voices of the assembled list, each in its place.
LEMMA PeriodProperties ==
    ASSUME TypeOK, Period
    PROVE  /\ play' \in Seq(Voice) /\ Len(play') = Len(Assembled) /\ new' = << >>
           /\ DOMAIN play' = 1 .. Len(Assembled) /\ DOMAIN Assembled = 1 .. Len(Assembled)
           /\ \A i \in 1 .. Len(Assembled) : play'[i] = Ran(Assembled, i)
<1>1. PICK list : list = Assembled
  OBVIOUS
<1>2. /\ list \in Seq(Voice) /\ DOMAIN list = 1 .. Len(list) /\ Len(list) \in Nat
  BY <1>1, AssembledProperties, LenProperties
<1>3. play' = [i \in 1 .. Len(list) |-> Ran(list, i)] /\ new' = << >>
  BY <1>1, <1>2 DEF Period, Ran
<1>4. \A i \in 1 .. Len(list) : Ran(list, i) \in Voice
  BY <1>2, RanProperties
<1>5. play' \in Seq(Voice) /\ Len(play') = Len(list) /\ DOMAIN play' = 1 .. Len(list)
  BY <1>2, <1>3, <1>4
<1> QED  BY <1>1, <1>2, <1>3, <1>5

----------------------------------------------------------------------------
(***************************************************************************)
(* Types.                                                                  *)
(***************************************************************************)

\* What a run is given to play with.
LEMMA Player ==
    ASSUME TypeOK
    PROVE  /\ setup.keys \subseteq Keys /\ Keys \subseteq 0 .. 127
           /\ Spacing \in Nat /\ MaxEvents \in Nat
           /\ Switching \in BOOLEAN /\ Trigger \in BOOLEAN
           /\ VoiceCount \in Nat \ {0} /\ Preferences \subseteq {"none", "low", "high"}
BY MonoAssumption DEF TypeOK, Spacing, MaxEvents, Switching, Trigger

\* bristolMidiOption and the allocation of the voices give every variable its type.
LEMMA TypeInit == Init => TypeOK
<1> SUFFICES ASSUME Init PROVE TypeOK
  OBVIOUS
<1>1. /\ setup \in Setups /\ Spacing \in Nat /\ MaxEvents \in Nat /\ pref \in {"none", "low", "high"}
      /\ VoiceCount \in Nat
  BY MonoAssumption DEF Init, Spacing, MaxEvents
<1>2. /\ play = << >> /\ new = << >> /\ table = {} /\ count = 0 /\ extreme = -1
      /\ pedal = FALSE /\ lvoices = 0 /\ cvoices = 0 /\ since = Spacing /\ sent = 0 /\ down = {}
  BY DEF Init
<1>3. play \in Seq(Voice) /\ new \in Seq(Voice) /\ Len(play) + Len(new) <= VoiceCount
  BY <1>1, <1>2
<1>4. since \in 0 .. Spacing /\ sent \in 0 .. MaxEvents
  BY <1>1, <1>2
<1>5. /\ lvoices \in 0 .. VoiceCount /\ cvoices \in 0 .. VoiceCount
      /\ extreme \in -1 .. 127 /\ count \in Nat
  BY <1>1, <1>2
<1>6. pedal \in BOOLEAN
  BY <1>2
<1> QED  BY <1>1, <1>2, <1>3, <1>4, <1>5, <1>6 DEF TypeOK

\* A table of keys is a finite set of MIDI notes.
LEMMA TableType ==
    ASSUME NEW T \in SUBSET Keys
    PROVE  T \in SUBSET (0 .. 127) /\ IsFiniteSet(T) /\ Cardinality(T) \in Nat
<1>1. T \in SUBSET (0 .. 127)
  BY MonoAssumption
<1>2. IsFiniteSet(0 .. 127)
  <2>1. 0 \in Int /\ 127 \in Int
    OBVIOUS
  <2> QED  BY <2>1, FS_Interval
<1> QED  BY <1>1, <1>2, FS_Subset, FS_CardinalityType

\* The lists after an event that changes voices in their places.
LEMMA PlayFields ==
    ASSUME TypeOK
    PROVE  /\ play \in Seq(Voice) /\ new \in Seq(Voice)
           /\ Len(play) \in Nat /\ Len(new) \in Nat
           /\ DOMAIN play = 1 .. Len(play) /\ DOMAIN new = 1 .. Len(new)
           /\ \A i \in 1 .. Len(play) : play[i] \in Voice
           /\ \A i \in 1 .. Len(new) : new[i] \in Voice
           /\ play # << >> => 1 \in 1 .. Len(play)
           /\ new # << >> => 1 \in 1 .. Len(new)
<1>1. play \in Seq(Voice) /\ new \in Seq(Voice)
  BY DEF TypeOK
<1>2. /\ \A i \in 1 .. Len(play) : play[i] \in Voice
      /\ \A i \in 1 .. Len(new) : new[i] \in Voice
  BY <1>1, ElementOfSeq
<1>3. /\ Len(play) \in Nat /\ Len(new) \in Nat
      /\ DOMAIN play = 1 .. Len(play) /\ DOMAIN new = 1 .. Len(new)
  BY <1>1, LenProperties
<1>4. (play # << >> => Len(play) # 0) /\ (new # << >> => Len(new) # 0)
  BY <1>1, EmptySeq
<1> QED  BY <1>1, <1>2, <1>3, <1>4

\* A note on with a voice running retunes the first voice and no other.
LEMMA PressProperties ==
    ASSUME TypeOK, NEW k \in setup.keys, Press(k)
    PROVE  /\ Pressed(k) \in SUBSET (Keys \ {0})
           /\ play' \in Seq(Voice) /\ Len(play') = Len(play) /\ play # << >>
           /\ DOMAIN play' = 1 .. Len(play)
           /\ play'[1] = Retuned(play[1], k, TRUE, Pressed(k))
           /\ \A i \in 1 .. Len(play) : i # 1 => play'[i] = play[i]
<1>1. k \in Keys /\ table \subseteq Keys \ {0}
  BY Player DEF TypeOK
<1>2. Pressed(k) \in SUBSET (Keys \ {0})
  BY <1>1 DEF Pressed
<1>3. PICK v : v = Retuned(play[1], k, TRUE, Pressed(k))
  OBVIOUS
<1>4. play # << >> /\ play' = [play EXCEPT ![1] = v]
  BY <1>3 DEF Press
<1>5. 1 \in 1 .. Len(play) /\ play[1] \in Voice
  BY <1>4, PlayFields
<1>6. Pressed(k) \in SUBSET Keys
  BY <1>2
<1>7. v \in Voice
  BY <1>1, <1>3, <1>5, <1>6, RetunedType
<1>8. /\ play' \in Seq(Voice) /\ Len(play') = Len(play)
      /\ \A i \in 1 .. Len(play) : play'[i] = IF i = 1 THEN v ELSE play[i]
  BY <1>4, <1>5, <1>7, PlayFields, ExceptSeq
<1>9. DOMAIN play' = 1 .. Len(play)
  BY <1>8, LenProperties
<1> QED  BY <1>2, <1>3, <1>4, <1>5, <1>8, <1>9

\* A note on without one takes a free voice, rekeys the first voice, or does
\* nothing.
LEMMA PressFirstProperties ==
    ASSUME TypeOK, NEW k \in setup.keys, PressFirst(k)
    PROVE  /\ Pressed(k) \in SUBSET (Keys \ {0})
           /\ HasRoom => /\ Len(play) + Len(new) + 1 <= VoiceCount /\ play' = play
                         /\ new' \in Seq(Voice) /\ Len(new') = Len(new) + 1
                         /\ new'[1] = [id |-> k, key |-> k, flags |-> {}, gain |-> 0]
                         /\ \A i \in 1 .. Len(new) : new'[i + 1] = new[i]
           /\ ~HasRoom => new' = new
           /\ ~HasRoom /\ play = << >> => play' = play
           /\ ~HasRoom /\ play # << >> =>
                 /\ play' \in Seq(Voice) /\ Len(play') = Len(play)
                 /\ play'[1].id = k /\ play'[1].key = k
                 /\ play'[1].flags = (play[1].flags \ {"ON", "DONE", "OFF"}) \cup {"REON"}
                 /\ \A i \in 1 .. Len(play) : i # 1 => play'[i] = play[i]
<1>1. k \in Keys /\ k \in 0 .. 127 /\ table \subseteq Keys \ {0}
  BY Player DEF TypeOK
<1>2. Pressed(k) \in SUBSET (Keys \ {0})
  BY <1>1 DEF Pressed
<1>3. ASSUME HasRoom
      PROVE  /\ Len(play) + Len(new) + 1 <= VoiceCount /\ play' = play
             /\ new' \in Seq(Voice) /\ Len(new') = Len(new) + 1
             /\ new'[1] = [id |-> k, key |-> k, flags |-> {}, gain |-> 0]
             /\ \A i \in 1 .. Len(new) : new'[i + 1] = new[i]
  <2>1. PICK v : v = [id |-> k, key |-> k, flags |-> {}, gain |-> 0]
    OBVIOUS
  <2>2. v \in Voice
    BY <1>1, <2>1 DEF Voice
  <2>3. new' = <<v>> \o new /\ play' = play
    BY <1>3, <2>1 DEF PressFirst, Cons
  <2>4. <<v>> \in Seq(Voice) /\ Len(<<v>>) = 1 /\ <<v>>[1] = v
    BY <2>2
  <2>5. new \in Seq(Voice) /\ Len(new) \in Nat /\ Len(play) \in Nat
    BY PlayFields
  <2>6. /\ <<v>> \o new \in Seq(Voice) /\ Len(<<v>> \o new) = Len(<<v>>) + Len(new)
        /\ \A i \in 1 .. Len(<<v>>) + Len(new) :
              (<<v>> \o new)[i] = IF i <= Len(<<v>>) THEN <<v>>[i] ELSE new[i - Len(<<v>>)]
    BY <2>4, <2>5, ConcatProperties
  <2>7. /\ new' \in Seq(Voice) /\ Len(new') = Len(new) + 1
        /\ \A i \in 1 .. Len(new) + 1 : new'[i] = IF i <= 1 THEN <<v>>[i] ELSE new[i - 1]
    <3>1. Len(<<v>>) + Len(new) = Len(new) + 1
      BY <2>4, <2>5
    <3> QED  BY <2>3, <2>4, <2>6, <3>1
  <2>8. new'[1] = v
    BY <2>4, <2>5, <2>7
  <2>9. ASSUME NEW i \in 1 .. Len(new) PROVE new'[i + 1] = new[i]
    <3>1. i + 1 \in 1 .. Len(new) + 1 /\ ~(i + 1 <= 1) /\ i + 1 - 1 = i
      BY <2>5
    <3> QED  BY <2>7, <3>1
  <2>10. Len(play) + Len(new) + 1 <= VoiceCount
    BY <1>3, <2>5, Player DEF HasRoom, Free
  <2> QED  BY <2>1, <2>3, <2>7, <2>8, <2>9, <2>10
<1>4. ASSUME ~HasRoom, play # << >>
      PROVE  /\ play' \in Seq(Voice) /\ Len(play') = Len(play)
             /\ play'[1].id = k /\ play'[1].key = k
             /\ play'[1].flags = (play[1].flags \ {"ON", "DONE", "OFF"}) \cup {"REON"}
             /\ \A i \in 1 .. Len(play) : i # 1 => play'[i] = play[i]
  <2>1. 1 \in 1 .. Len(play) /\ play[1] \in Voice
    BY <1>4, PlayFields
  <2>2. PICK u \in Voice : u = play[1]
    BY <2>1
  <2>3. (u.flags \ {"ON", "DONE", "OFF"}) \cup {"REON"} \in SUBSET Flag
    BY VoiceFields DEF Flag
  <2>5. PICK v : v = Rekeyed(u, k)
    OBVIOUS
  <2>6. /\ v \in Voice /\ v.id = k /\ v.key = k
        /\ v.flags = (u.flags \ {"ON", "DONE", "OFF"}) \cup {"REON"}
    BY <1>1, <2>3, <2>5 DEF Voice, Rekeyed
  <2>7. play' = [play EXCEPT ![1] = v]
    BY <1>4, <2>2, <2>5 DEF PressFirst
  <2>8. /\ play' \in Seq(Voice) /\ Len(play') = Len(play)
        /\ \A i \in 1 .. Len(play) : play'[i] = IF i = 1 THEN v ELSE play[i]
    BY <2>1, <2>6, <2>7, PlayFields, ExceptSeq
  <2> QED  BY <2>1, <2>2, <2>6, <2>8
<1>5. ~HasRoom => new' = new /\ (play = << >> => play' = play)
  BY DEF PressFirst
<1> QED  BY <1>2, <1>3, <1>4, <1>5

\* A note off goes through the playlist voice by voice.
LEMMA ReleaseProperties ==
    ASSUME TypeOK, NEW k \in setup.keys, Release(k)
    PROVE  /\ Lifted(k) \in SUBSET (Keys \ {0})
           /\ play' \in Seq(Voice) /\ Len(play') = Len(play) /\ DOMAIN play' = 1 .. Len(play)
           /\ new' \in Seq(Voice) /\ Len(new') = Len(new)
           /\ new = << >> => new' = << >>
           /\ pref # "none" => \A i \in 1 .. Len(play) : play'[i] = Retuned(play[i], k, FALSE, Lifted(k))
           /\ pref = "none" => \A i \in 1 .. Len(play) :
                 /\ play'[i].id = play[i].id
                 /\ play'[i].flags = IF play[i].id = k THEN play[i].flags \cup {"OFF"}
                                     ELSE play[i].flags
<1>1. k \in Keys /\ table \subseteq Keys \ {0}
  BY Player DEF TypeOK
<1>2. Lifted(k) \in SUBSET (Keys \ {0})
  BY <1>1 DEF Lifted
<1>3. Lifted(k) \in SUBSET Keys
  BY <1>2
<1>4. /\ new' \in Seq(Voice) /\ Len(new') = Len(new) /\ (new = << >> => new' = << >>)
  <2> DEFINE Marked(fl, id) ==
               IF id = k THEN (fl \ {"ON", "REON"}) \cup {"OFF", "SUSTAIN", "REOFF"} ELSE fl
  <2>1. new' = [i \in DOMAIN new |-> [new[i] EXCEPT !.flags = Marked(new[i].flags, new[i].id)]]
    BY DEF Release, OnEach
  <2>2. ASSUME NEW v \in Voice PROVE [v EXCEPT !.flags = Marked(v.flags, v.id)] \in Voice
    <3>1. Marked(v.flags, v.id) \in SUBSET Flag
      BY VoiceFields DEF Flag
    <3> HIDE DEF Marked
    <3> QED  BY <3>1 DEF Voice
  <2> HIDE DEF Marked
  <2>3. \A i \in 1 .. Len(new) : [new[i] EXCEPT !.flags = Marked(new[i].flags, new[i].id)] \in Voice
    BY <2>2, PlayFields
  <2>4. new' = [i \in 1 .. Len(new) |-> [new[i] EXCEPT !.flags = Marked(new[i].flags, new[i].id)]]
    BY <2>1, PlayFields
  <2>5. new' \in Seq(Voice) /\ Len(new') = Len(new)
    BY <2>3, <2>4, PlayFields
  <2>6. new = << >> => new' = << >>
    BY <2>5, EmptySeq
  <2> QED  BY <2>5, <2>6
<1>5. CASE pref # "none" /\ play # << >>
  <2>1. play' = [i \in 1 .. Len(play) |-> Retuned(play[i], k, FALSE, Lifted(k))]
    BY <1>5, PlayFields DEF Release, OnEach
  <2>2. \A i \in 1 .. Len(play) : Retuned(play[i], k, FALSE, Lifted(k)) \in Voice
    BY <1>1, <1>3, PlayFields, RetunedType
  <2>3. play' \in Seq(Voice) /\ Len(play') = Len(play) /\ DOMAIN play' = 1 .. Len(play)
    <3>1. PICK n \in Nat : n = Len(play)
      BY PlayFields
    <3>2. PICK f : f = [i \in 1 .. n |-> Retuned(play[i], k, FALSE, Lifted(k))]
      OBVIOUS
    <3>3. \A i \in 1 .. n : f[i] \in Voice
      BY <2>2, <3>1, <3>2
    <3>4. f \in [1 .. n -> Voice]
      BY <3>2, <3>3
    <3>5. f \in Seq(Voice) /\ Len(f) = n /\ DOMAIN f = 1 .. n
      BY <3>4
    <3> QED  BY <2>1, <3>1, <3>2, <3>5
  <2>4. \A i \in 1 .. Len(play) : play'[i] = Retuned(play[i], k, FALSE, Lifted(k))
    BY <2>1
  <2> QED  BY <1>2, <1>4, <1>5, <2>3, <2>4
<1>6. CASE ~(pref # "none" /\ play # << >>)
  <2> DEFINE Keyed(fl, id) == IF id = k THEN fl \cup {"OFF"} ELSE fl
  <2>1. play' = [i \in DOMAIN play |-> [play[i] EXCEPT !.flags = Keyed(play[i].flags, play[i].id)]]
    BY <1>6 DEF Release, OnEach
  <2>2. ASSUME NEW v \in Voice
        PROVE  /\ [v EXCEPT !.flags = Keyed(v.flags, v.id)] \in Voice
               /\ [v EXCEPT !.flags = Keyed(v.flags, v.id)].id = v.id
               /\ [v EXCEPT !.flags = Keyed(v.flags, v.id)].flags = Keyed(v.flags, v.id)
    <3>1. Keyed(v.flags, v.id) \in SUBSET Flag
      BY VoiceFields DEF Flag
    <3> HIDE DEF Keyed
    <3> QED  BY <3>1 DEF Voice
  <2> HIDE DEF Keyed
  <2>3. \A i \in 1 .. Len(play) :
           /\ [play[i] EXCEPT !.flags = Keyed(play[i].flags, play[i].id)] \in Voice
           /\ [play[i] EXCEPT !.flags = Keyed(play[i].flags, play[i].id)].id = play[i].id
           /\ [play[i] EXCEPT !.flags = Keyed(play[i].flags, play[i].id)].flags
                 = Keyed(play[i].flags, play[i].id)
    BY <2>2, PlayFields
  <2>4. play' = [i \in 1 .. Len(play) |-> [play[i] EXCEPT !.flags = Keyed(play[i].flags, play[i].id)]]
    BY <2>1, PlayFields
  <2>5. play' \in Seq(Voice) /\ Len(play') = Len(play) /\ DOMAIN play' = 1 .. Len(play)
    BY <2>3, <2>4, PlayFields
  <2>6. \A i \in 1 .. Len(play) : /\ play'[i].id = play[i].id
                                  /\ play'[i].flags = Keyed(play[i].flags, play[i].id)
    BY <2>3, <2>4
  <2>7. pref # "none" => Len(play) = 0
    BY <1>6
  <2>8. ASSUME pref # "none", NEW i \in 1 .. Len(play) PROVE FALSE
    BY <2>7, <2>8
  <2> QED  BY <1>2, <1>4, <2>5, <2>6, <2>8 DEF Keyed
<1> QED  BY <1>5, <1>6

\* The pedal keys off the voices it sustained, when it comes up.
LEMMA PedalProperties ==
    ASSUME TypeOK, Pedal
    PROVE  /\ play' \in Seq(Voice) /\ Len(play') = Len(play) /\ DOMAIN play' = 1 .. Len(play)
           /\ \A i \in 1 .. Len(play) :
                 /\ play'[i].id = play[i].id /\ play'[i].key = play[i].key
                 /\ \/ play'[i].flags = play[i].flags
                    \/ "SUSTAIN" \in play[i].flags /\ play'[i].flags = play[i].flags \cup {"OFF"}
<1> DEFINE Unsustained(fl) == IF "SUSTAIN" \in fl THEN fl \cup {"OFF"} ELSE fl
<1>1. CASE pedal
  <2>1. play' = [i \in DOMAIN play |-> [play[i] EXCEPT !.flags = Unsustained(play[i].flags)]]
    BY <1>1 DEF Pedal, OnEach
  <2>2. ASSUME NEW v \in Voice
        PROVE  /\ [v EXCEPT !.flags = Unsustained(v.flags)] \in Voice
               /\ [v EXCEPT !.flags = Unsustained(v.flags)].id = v.id
               /\ [v EXCEPT !.flags = Unsustained(v.flags)].key = v.key
               /\ [v EXCEPT !.flags = Unsustained(v.flags)].flags = Unsustained(v.flags)
    <3>1. Unsustained(v.flags) \in SUBSET Flag
      BY VoiceFields DEF Flag
    <3> HIDE DEF Unsustained
    <3> QED  BY <3>1 DEF Voice
  <2> HIDE DEF Unsustained
  <2>3. \A i \in 1 .. Len(play) :
           /\ [play[i] EXCEPT !.flags = Unsustained(play[i].flags)] \in Voice
           /\ [play[i] EXCEPT !.flags = Unsustained(play[i].flags)].id = play[i].id
           /\ [play[i] EXCEPT !.flags = Unsustained(play[i].flags)].key = play[i].key
           /\ [play[i] EXCEPT !.flags = Unsustained(play[i].flags)].flags = Unsustained(play[i].flags)
    BY <2>2, PlayFields
  <2>4. play' = [i \in 1 .. Len(play) |-> [play[i] EXCEPT !.flags = Unsustained(play[i].flags)]]
    BY <2>1, PlayFields
  <2>5. play' \in Seq(Voice) /\ Len(play') = Len(play) /\ DOMAIN play' = 1 .. Len(play)
    BY <2>3, <2>4, PlayFields
  <2>6. \A i \in 1 .. Len(play) : /\ play'[i].id = play[i].id /\ play'[i].key = play[i].key
                                  /\ play'[i].flags = Unsustained(play[i].flags)
    BY <2>3, <2>4
  <2> QED  BY <2>5, <2>6 DEF Unsustained
<1>2. CASE ~pedal
  <2>1. play' = play
    BY <1>2 DEF Pedal
  <2> QED  BY <2>1, PlayFields
<1> QED  BY <1>1, <1>2

\* All notes off keys every voice off and calls it done.
LEMMA NotesOffProperties ==
    ASSUME TypeOK, NotesOff
    PROVE  /\ play' \in Seq(Voice) /\ Len(play') = Len(play) /\ DOMAIN play' = 1 .. Len(play)
           /\ \A i \in 1 .. Len(play) : play'[i].flags = {"OFF", "DONE"}
<1>1. play' = [i \in 1 .. Len(play) |-> [play[i] EXCEPT !.flags = {"OFF", "DONE"}]]
  BY PlayFields DEF NotesOff, OnEach
<1>2. ASSUME NEW v \in Voice
      PROVE  /\ [v EXCEPT !.flags = {"OFF", "DONE"}] \in Voice
             /\ [v EXCEPT !.flags = {"OFF", "DONE"}].flags = {"OFF", "DONE"}
  BY DEF Voice, Flag
<1>3. \A i \in 1 .. Len(play) : /\ [play[i] EXCEPT !.flags = {"OFF", "DONE"}] \in Voice
                                /\ [play[i] EXCEPT !.flags = {"OFF", "DONE"}].flags = {"OFF", "DONE"}
  BY <1>2, PlayFields
<1>4. play' \in Seq(Voice) /\ Len(play') = Len(play) /\ DOMAIN play' = 1 .. Len(play)
  BY <1>1, <1>3, PlayFields
<1>5. \A i \in 1 .. Len(play) : play'[i].flags = {"OFF", "DONE"}
  BY <1>1, <1>3
<1> QED  BY <1>4, <1>5

\* The voices counted in a period are those of the list that are not done.
LEMMA ActiveCount ==
    ASSUME NEW list \in Seq(Voice)
    PROVE  /\ Cardinality(Active(list)) \in Nat /\ Cardinality(Active(list)) <= Len(list)
           /\ Cardinality(Active(list)) = 0 <=> Active(list) = {}
<1>1. Len(list) \in Nat /\ DOMAIN list = 1 .. Len(list)
  BY LenProperties
<1>2. IsFiniteSet(1 .. Len(list)) /\ Cardinality(1 .. Len(list)) = Len(list)
  <2>1. Len(list) \in Int /\ 1 \in Int /\ (1 > Len(list) => Len(list) = 0)
    BY <1>1
  <2>2. /\ IsFiniteSet(1 .. Len(list))
        /\ Cardinality(1 .. Len(list)) = IF 1 > Len(list) THEN 0 ELSE Len(list) - 1 + 1
    BY <2>1, FS_Interval
  <2> QED  BY <2>1, <2>2
<1>3. Active(list) \in SUBSET (1 .. Len(list))
  BY <1>1 DEF Active
<1> QED  BY <1>2, <1>3, FS_Subset, FS_CardinalityType, FS_EmptySet

\* doMNL keeps the counters of its table in range.
LEMMA TabulateType ==
    ASSUME TypeOK, NEW T \in SUBSET (Keys \ {0}), Tabulate(T)
    PROVE  table' \in SUBSET (Keys \ {0}) /\ count' \in Nat /\ extreme' \in -1 .. 127
<1>1. T \in SUBSET Keys
  OBVIOUS
<1>2. T \in SUBSET (0 .. 127) /\ Cardinality(T) \in Nat
  BY <1>1, TableType
<1>3. ExtremeAfter(T) \in 0 .. 127
  BY <1>2, ExtremeAfterType
<1>4. ExtremeAfter(T) \in -1 .. 127
  BY <1>3
<1> QED  BY <1>2, <1>4 DEF Tabulate

\* Every step keeps the types.
LEMMA NextType == TypeOK /\ [Next]_vars => TypeOK'
<1> SUFFICES ASSUME TypeOK, [Next]_vars PROVE TypeOK'
  OBVIOUS
<1>0. /\ setup \in Setups
      /\ play \in Seq(Voice) /\ new \in Seq(Voice) /\ Len(play) + Len(new) <= VoiceCount
      /\ Len(play) \in Nat /\ Len(new) \in Nat /\ VoiceCount \in Nat
      /\ table \subseteq Keys \ {0} /\ count \in Nat /\ extreme \in -1 .. 127
      /\ pref \in {"none", "low", "high"} /\ pedal \in BOOLEAN
      /\ lvoices \in 0 .. VoiceCount /\ cvoices \in 0 .. VoiceCount
      /\ since \in 0 .. Spacing /\ sent \in 0 .. MaxEvents /\ down \subseteq Keys
      /\ Spacing \in Nat /\ MaxEvents \in Nat
  BY PlayFields, Player DEF TypeOK
<1>1. Event => sent' \in 0 .. MaxEvents
  BY <1>0 DEF Event
<1>2. NoteEvent => since' \in 0 .. Spacing /\ sent' \in 0 .. MaxEvents
  BY <1>0, <1>1 DEF NoteEvent
<1>3. ASSUME NEW k \in setup.keys, Press(k) PROVE TypeOK'
  <2>1. NoteEvent /\ setup' = setup /\ k \in Keys
    BY <1>0, <1>3, Player DEF Press
  <2>2. table' \in SUBSET (Keys \ {0}) /\ count' \in Nat /\ extreme' \in -1 .. 127
    BY <1>3, PressProperties, TabulateType DEF Press
  <2>3. play' \in Seq(Voice) /\ Len(play') = Len(play) /\ new' = new
    BY <1>3, PressProperties DEF Press
  <2>4. /\ lvoices' = lvoices /\ cvoices' = cvoices /\ pref' = pref /\ pedal' = pedal
        /\ down' \subseteq Keys
    BY <1>0, <1>3, <2>1 DEF Press, counts
  <2> QED  BY <1>0, <1>2, <2>1, <2>2, <2>3, <2>4 DEF TypeOK, Spacing, MaxEvents
<1>4. ASSUME NEW k \in setup.keys, PressFirst(k) PROVE TypeOK'
  <2>1. NoteEvent /\ setup' = setup /\ k \in Keys
    BY <1>0, <1>4, Player DEF PressFirst
  <2>2. table' \in SUBSET (Keys \ {0}) /\ count' \in Nat /\ extreme' \in -1 .. 127
    BY <1>0, <1>4, PressFirstProperties DEF PressFirst
  <2>3. play' \in Seq(Voice) /\ new' \in Seq(Voice) /\ Len(play') + Len(new') <= VoiceCount
    <3>1. CASE HasRoom
      <4>1. /\ play' = play /\ new' \in Seq(Voice) /\ Len(new') = Len(new) + 1
            /\ Len(play) + Len(new) + 1 <= VoiceCount
        BY <1>4, <3>1, PressFirstProperties
      <4> QED  BY <1>0, <4>1
    <3>2. CASE ~HasRoom
      <4>1. new' = new /\ (play' = play \/ (play' \in Seq(Voice) /\ Len(play') = Len(play)))
        BY <1>4, <3>2, PressFirstProperties
      <4> QED  BY <1>0, <4>1
    <3> QED  BY <3>1, <3>2
  <2>4. /\ lvoices' = lvoices /\ cvoices' = cvoices /\ pref' = pref /\ pedal' = pedal
        /\ down' \subseteq Keys
    BY <1>0, <1>4, <2>1 DEF PressFirst, counts
  <2> QED  BY <1>0, <1>2, <2>1, <2>2, <2>3, <2>4 DEF TypeOK, Spacing, MaxEvents
<1>5. ASSUME NEW k \in setup.keys, Release(k) PROVE TypeOK'
  <2>1. NoteEvent /\ setup' = setup
    BY <1>5 DEF Release
  <2>2. table' \in SUBSET (Keys \ {0}) /\ count' \in Nat /\ extreme' \in -1 .. 127
    <3>1. CASE Tabulate(Lifted(k))
      BY <1>5, <3>1, ReleaseProperties, TabulateType
    <3>2. CASE UNCHANGED keymap
      BY <1>0, <3>2 DEF keymap
    <3> QED  BY <1>5, <3>1, <3>2 DEF Release
  <2>3. /\ play' \in Seq(Voice) /\ Len(play') = Len(play)
        /\ new' \in Seq(Voice) /\ Len(new') = Len(new)
    BY <1>5, ReleaseProperties
  <2>4. /\ lvoices' = lvoices /\ cvoices' = cvoices /\ pref' = pref /\ pedal' = pedal
        /\ down' \subseteq Keys
    BY <1>0, <1>5 DEF Release, counts
  <2> QED  BY <1>0, <1>2, <2>1, <2>2, <2>3, <2>4 DEF TypeOK, Spacing, MaxEvents
<1>6. CASE Pedal
  <2>1. play' \in Seq(Voice) /\ Len(play') = Len(play)
    BY <1>6, PedalProperties
  <2>2. /\ Event /\ pedal' \in BOOLEAN
        /\ UNCHANGED <<setup, new, table, count, extreme, pref, lvoices, cvoices, since, down>>
    BY <1>6 DEF Pedal, keymap, counts
  <2> QED  BY <1>0, <1>1, <2>1, <2>2 DEF TypeOK, Spacing, MaxEvents
<1>7. CASE NotesOff
  <2>1. play' \in Seq(Voice) /\ Len(play') = Len(play)
    BY <1>7, NotesOffProperties
  <2>2. /\ NoteEvent /\ down' = {} /\ table' \in {table, {}} /\ count' \in {count, 0}
        /\ UNCHANGED <<setup, new, extreme, pref, pedal, lvoices, cvoices>>
    BY <1>7 DEF NotesOff, counts
  <2> QED  BY <1>0, <1>2, <2>1, <2>2 DEF TypeOK, Spacing, MaxEvents
<1>8. ASSUME NEW p \in Preferences, Prefer(p) PROVE TypeOK'
  <2>1. /\ Event /\ pref' \in {"none", "low", "high"} /\ extreme' = -1
        /\ UNCHANGED <<setup, play, new, table, count, pedal, lvoices, cvoices, since, down>>
    BY <1>8, Player DEF Prefer, counts
  <2>2. extreme' \in -1 .. 127
    BY <2>1
  <2> QED  BY <1>0, <1>1, <2>1, <2>2 DEF TypeOK, Spacing, MaxEvents
<1>9. CASE Period
  <2>1. play' \in Seq(Voice) /\ new' = << >> /\ Len(play') <= VoiceCount
    BY <1>9, PeriodProperties, AssembledProperties
  <2>2. cvoices' \in 0 .. VoiceCount
    <3>1. PICK list : list = Assembled
      OBVIOUS
    <3>2. list \in Seq(Voice) /\ Len(list) <= VoiceCount
      BY <3>1, AssembledProperties
    <3>3. cvoices' = Cardinality(Active(list))
      BY <1>9, <3>1 DEF Period
    <3> QED  BY <1>0, <3>2, <3>3, ActiveCount
  <2>3. extreme' \in -1 .. 127
    <3>1. CASE extreme' = -1
      BY <3>1
    <3>2. CASE extreme' = extreme
      BY <1>0, <3>2
    <3> QED  BY <1>9, <3>1, <3>2 DEF Period
  <2>4. since' \in 0 .. Spacing /\ lvoices' \in 0 .. VoiceCount
    BY <1>0, <1>9 DEF Period
  <2>5. UNCHANGED <<setup, table, count, pref, pedal, sent, down>>
    BY <1>9 DEF Period
  <2>6. new' \in Seq(Voice) /\ Len(play') + Len(new') <= VoiceCount
    <3>1. Len(new') = 0 /\ Len(play') \in Nat /\ new' \in Seq(Voice)
      BY <2>1, LenProperties
    <3> QED  BY <1>0, <2>1, <3>1
  <2> QED  BY <1>0, <2>1, <2>2, <2>3, <2>4, <2>5, <2>6 DEF TypeOK, Spacing, MaxEvents
<1>10. CASE UNCHANGED vars
  BY <1>0, <1>10 DEF vars, TypeOK, Spacing, MaxEvents
<1> QED  BY <1>3, <1>4, <1>5, <1>6, <1>7, <1>8, <1>9, <1>10 DEF Next

\* Every variable keeps its type, and the lists keep to the pool (doMidiNoteOn,
\* rbMidiNoteOff, doAudioOps).
THEOREM MonoTypes == Spec => []TypeOK
BY TypeInit, NextType, PTL DEF Spec

----------------------------------------------------------------------------
(***************************************************************************)
(* One voice sounds.                                                       *)
(***************************************************************************)

\* A mono emulator sounds at most one voice at a time: doAudioOps runs the first
\* and keys the others off, however many the newlist brings.
LEMMA PeriodSoundsOne ==
    ASSUME TypeOK, Period
    PROVE  Cardinality({i \in DOMAIN play' : Sounding(play'[i])}) <= 1
<1> DEFINE S == {i \in DOMAIN play' : Sounding(play'[i])}
<1>1. PICK list : list = Assembled
  OBVIOUS
<1>2. /\ list \in Seq(Voice) /\ DOMAIN list = 1 .. Len(list) /\ Len(list) \in Nat
      /\ DOMAIN play' = 1 .. Len(list) /\ \A i \in 1 .. Len(list) : play'[i] = Ran(list, i)
  BY <1>1, AssembledProperties, PeriodProperties, LenProperties
<1>3. ASSUME NEW i \in S PROVE i \in 1 .. Len(list) /\ First(list, i)
  <2>1. i \in 1 .. Len(list) /\ Sounding(Ran(list, i))
    BY <1>2
  <2>2. "OFF" \notin Ran(list, i).flags /\ "DONE" \notin Ran(list, i).flags
    BY <2>1 DEF Sounding
  <2> QED  BY <1>2, <2>1, <2>2, RanProperties
<1>4. ASSUME NEW i \in S, NEW j \in S PROVE i = j
  <2>1. First(list, i) /\ First(list, j) /\ i \in Nat /\ j \in Nat
    BY <1>3
  <2>2. i <= j /\ j <= i
    BY <2>1 DEF First
  <2> QED  BY <2>1, <2>2
<1> HIDE DEF S
<1>5. S = {} \/ \E i \in S : S = {i}
  BY <1>4
<1>6. Cardinality(S) <= 1
  <2>1. CASE S = {}
    <3>1. Cardinality(S) = 0
      BY <2>1, FS_EmptySet
    <3> QED  BY <3>1
  <2>2. ASSUME NEW i \in S, S = {i} PROVE Cardinality(S) <= 1
    <3>1. Cardinality(S) = 1
      BY <2>2, FS_Singleton
    <3> QED  BY <3>1
  <2> QED  BY <1>5, <2>1, <2>2
<1> QED  BY <1>6 DEF S

\* A period never leaves two voices of a monophonic emulator sounding: doAudioOps
\* clears every voice but the last it counted.
THEOREM OneVoiceSounds == Spec => OneSounding
<1>1. TypeOK /\ [Next]_vars =>
        [Period => Cardinality({i \in DOMAIN play' : Sounding(play'[i])}) <= 1]_vars
  BY PeriodSoundsOne
<1> QED  BY <1>1, MonoTypes, PTL DEF Spec, OneSounding

----------------------------------------------------------------------------
(***************************************************************************)
(* What holds while the notes leave time for the counts of voices.         *)
(***************************************************************************)

SteadyInv == NewInv /\ TableInv /\ TriggerInv /\ HeldInv /\ OwnKeyInv

\* A key that is not the preferred one leaves the voice as it is.
LEMMA OutrankedVoice ==
    ASSUME NEW v \in Voice, NEW k, NEW press, NEW T, T # {}, Outranked(k, T)
    PROVE  /\ Retuned(v, k, press, T).key = v.key
           /\ Sounding(v) => Sounding(Retuned(v, k, press, T))
<1>1. v = [id |-> v.id, key |-> v.key, flags |-> v.flags, gain |-> v.gain]
  BY DEF Voice
<1>2. PICK w : w = Retuned(v, k, press, T)
  OBVIOUS
<1>3. w.key = v.key /\ w.flags = v.flags \ {"SUSTAIN"}
  BY <1>1, <1>2 DEF Retuned
<1> QED  BY <1>2, <1>3 DEF Sounding

\* Another one gives it the preferred key, and a press makes it sound.
LEMMA RetunedSounds ==
    ASSUME NEW v \in Voice, NEW k, NEW press \in BOOLEAN, NEW T, T # {}, ~Outranked(k, T)
    PROVE  /\ Retuned(v, k, press, T).key = Chosen(T)
           /\ press = TRUE \/ Sounding(v) => Sounding(Retuned(v, k, press, T))
<1>1. v = [id |-> v.id, key |-> v.key, flags |-> v.flags, gain |-> v.gain]
  BY DEF Voice
<1>2. Triggered(press, T) \subseteq {"ON", "REON"}
  BY DEF Triggered
<1>3. PICK w : w = Retuned(v, k, press, T)
  OBVIOUS
<1>4. /\ w.key = Chosen(T)
      /\ w.flags = (IF press THEN (v.flags \ {"SUSTAIN"}) \ {"OFF", "OFFING", "DONE"}
                    ELSE v.flags \ {"SUSTAIN"}) \cup Triggered(press, T)
  BY <1>1, <1>3 DEF Retuned
<1> QED  BY <1>2, <1>3, <1>4 DEF Sounding

\* By the time of a note the counts and the lists agree.
LEMMA NoteTime ==
    ASSUME TypeOK, SteadyInv, Steady, NoteEvent
    PROVE  /\ new = << >> /\ since >= 1 /\ since' = 0
           /\ pref # "none" /\ table # {} => play # << >> /\ lvoices # 0
           /\ pref # "none" /\ play = << >> => down = {} /\ table = {}
<1>1. since >= 1 /\ since >= 2 /\ since # 0 /\ since' = 0
  <2>1. Spacing \in Nat /\ Spacing >= 2 /\ since = Spacing /\ since' = 0
    BY Player DEF Steady, NoteEvent
  <2> QED  BY <2>1
<1>2. new = << >>
  BY <1>1 DEF SteadyInv, NewInv
<1>3. pref # "none" /\ table # {} => play # << >> /\ lvoices # 0
  BY <1>1 DEF SteadyInv, TableInv
<1>4. pref # "none" /\ play = << >> => down = {} /\ table = {}
  BY <1>2 DEF SteadyInv, HeldInv, TableInv, Held
<1> QED  BY <1>1, <1>2, <1>3, <1>4

\* A voice that does not sound does not come back in a period.
LEMMA RanSilent ==
    ASSUME NEW list \in Seq(Voice), NEW i \in DOMAIN list, ~Sounding(list[i])
    PROVE  ~Sounding(Ran(list, i))
<1>1. CASE "OFF" \in list[i].flags
  <2>1. "OFF" \in Ran(list, i).flags
    BY <1>1, RanProperties
  <2> QED  BY <2>1 DEF Sounding
<1>2. CASE "DONE" \in list[i].flags
  <2>1. i \notin Active(list)
    BY <1>2 DEF Active
  <2>2. "DONE" \in Ran(list, i).flags
    BY <2>1, RanProperties
  <2> QED  BY <2>2 DEF Sounding
<1> QED  BY <1>1, <1>2 DEF Sounding

\* The voices behind the first one of the list are silent after the period.
LEMMA RanBehind ==
    ASSUME NEW list \in Seq(Voice), NEW i \in DOMAIN list, ~First(list, i)
    PROVE  ~Sounding(Ran(list, i))
<1>1. "OFF" \in Ran(list, i).flags \/ "DONE" \in Ran(list, i).flags
  BY RanProperties
<1> QED  BY <1>1 DEF Sounding

\* The voice at the head of the playlist after a period.
LEMMA HeadSounds ==
    ASSUME TypeOK, SteadyInv, Steady, Period, pref # "none", ~Clears,
           new # << >> \/ (play # << >> /\ Sounding(play[1]))
    PROVE  /\ 1 \in DOMAIN play' /\ play' # << >> /\ Sounding(play'[1])
           /\ play'[1].key = IF new # << >> THEN new[1].key ELSE play[1].key
<1>1. PICK list : list = Assembled
  OBVIOUS
<1>2. /\ list \in Seq(Voice) /\ Len(list) \in Nat /\ DOMAIN list = 1 .. Len(list)
      /\ DOMAIN play' = 1 .. Len(list) /\ \A i \in 1 .. Len(list) : play'[i] = Ran(list, i)
  BY <1>1, AssembledProperties, PeriodProperties, LenProperties
<1>3. /\ 1 \in 1 .. Len(list) /\ Sounding(list[1])
      /\ list[1].key = IF new # << >> THEN new[1].key ELSE play[1].key
  <2>1. CASE new = << >>
    BY <1>1, <2>1, AssembledProperties, PlayFields
  <2>2. CASE new # << >>
    <3>1. Len(new) = 1 /\ 1 \in 1 .. Len(new) /\ new[1] \in Voice /\ new[1].flags = {}
      BY <2>2, PlayFields DEF SteadyInv, NewInv
    <3>2. Len(list) = 1 + Len(play) /\ list[1] = Started(new[1])
      <4>1. list[1] = Started(new[Len(new) - 1 + 1])
        BY <1>1, <2>2, <3>1, AssembledProperties
      <4>2. Len(new) - 1 + 1 = 1
        BY <3>1
      <4>3. Len(list) = Len(new) + Len(play)
        BY <1>1, <2>2, AssembledProperties
      <4> QED  BY <3>1, <4>1, <4>2, <4>3
    <3>3. list[1].flags = {"ON"} /\ list[1].key = new[1].key
      BY <3>1, <3>2, StartedProperties
    <3>4. 1 \in 1 .. Len(list)
      BY <3>2, PlayFields
    <3> QED  BY <2>2, <3>3, <3>4 DEF Sounding
  <2> QED  BY <2>1, <2>2
<1>4. First(list, 1)
  <2>1. 1 \in Active(list)
    BY <1>2, <1>3 DEF Active, Sounding
  <2>2. \A j \in Active(list) : 1 <= j
    BY <1>2 DEF Active
  <2> QED  BY <2>1, <2>2 DEF First
<1>5. "OFF" \notin list[1].flags
  BY <1>3 DEF Sounding
<1>6. Sounding(Ran(list, 1)) /\ Ran(list, 1).key = list[1].key
  BY <1>2, <1>3, <1>4, <1>5, RanProperties
<1>7. 1 \in DOMAIN play' /\ play'[1] = Ran(list, 1)
  BY <1>2, <1>3
<1>8. play' # << >>
  BY <1>7
<1> QED  BY <1>3, <1>6, <1>7, <1>8

\* With no voice and no key the emulator is steady.
LEMMA SteadyInit == Init => SteadyInv
<1> SUFFICES ASSUME Init PROVE SteadyInv
  OBVIOUS
<1>1. /\ play = << >> /\ new = << >> /\ table = {} /\ count = 0 /\ extreme = -1
      /\ lvoices = 0 /\ cvoices = 0 /\ down = {}
  BY DEF Init
<1>2. DOMAIN play = {} /\ DOMAIN new = {} /\ Held = {}
  BY <1>1 DEF Held
<1>3. NewInv /\ OwnKeyInv /\ TriggerInv
  BY <1>1, <1>2 DEF NewInv, OwnKeyInv, TriggerInv
<1>4. TableInv
  BY <1>1, <1>2 DEF TableInv
<1>5. HeldInv
  BY <1>1, <1>2 DEF HeldInv
<1> QED  BY <1>3, <1>4, <1>5 DEF SteadyInv

\* A note on that retunes the playing voice leaves the emulator steady.
LEMMA PressSteady ==
    ASSUME TypeOK, SteadyInv, Steady, NEW k \in setup.keys, Press(k)
    PROVE  SteadyInv'
<1> DEFINE T == Pressed(k)
<1>1. /\ new' = << >> /\ new = << >> /\ since >= 1 /\ since \in Nat /\ since' = 0 /\ pref' = pref
      /\ pref # "none" /\ setup' = setup /\ table' = T /\ count' = Cardinality(T)
      /\ down' = down \cup {k}
  BY NoteTime DEF Press, Tabulate, TypeOK
<1>2. /\ T \in SUBSET (Keys \ {0}) /\ T \in SUBSET Keys /\ T \in SUBSET (0 .. 127)
      /\ table \in SUBSET (0 .. 127) /\ k \in 0 .. 127
  BY PressProperties, TableType, Player DEF TypeOK
<1>3. /\ play # << >> /\ play \in Seq(Voice) /\ DOMAIN play' = 1 .. Len(play)
      /\ DOMAIN play = 1 .. Len(play) /\ 1 \in 1 .. Len(play) /\ play[1] \in Voice
      /\ play'[1] = Retuned(play[1], k, TRUE, T)
      /\ \A i \in 1 .. Len(play) : i # 1 => play'[i] = play[i]
  BY PressProperties, PlayFields
<1>4. play' # << >>
  BY <1>3
<1> HIDE DEF T
<1>5. T # {} => Sounding(play'[1]) /\ play'[1].key = BestOf(T)
  <2>1. CASE T # {} /\ Outranked(k, T)
    <3>1. table \ {k} = T \ {k}
      BY DEF T, Pressed
    <3>2. table # {} /\ BestOf(table) = BestOf(T)
      BY <1>2, <2>1, <3>1, OutrankedKey
    <3>3. Sounding(play[1]) /\ play[1].key = BestOf(table)
      BY <1>1, <3>2 DEF SteadyInv, HeldInv
    <3>4. Sounding(play'[1]) /\ play'[1].key = play[1].key
      <4>1. PICK v \in Voice : v = play[1]
        BY <1>3
      <4>2. play'[1] = Retuned(v, k, TRUE, T)
        BY <1>3, <4>1
      <4>3. Sounding(v)
        BY <3>3, <4>1
      <4>4. /\ Retuned(v, k, TRUE, T).key = v.key
            /\ Sounding(v) => Sounding(Retuned(v, k, TRUE, T))
        BY <2>1, OutrankedVoice
      <4> QED  BY <4>1, <4>2, <4>3, <4>4
    <3> QED  BY <3>2, <3>3, <3>4
  <2>2. CASE T # {} /\ ~Outranked(k, T)
    <3>1. Chosen(T) = BestOf(T)
      BY <1>2, <2>2, ChosenIsBest
    <3>2. Sounding(play'[1]) /\ play'[1].key = Chosen(T)
      <4>1. PICK v \in Voice : v = play[1]
        BY <1>3
      <4>2. play'[1] = Retuned(v, k, TRUE, T)
        BY <1>3, <4>1
      <4>3. Retuned(v, k, TRUE, T).key = Chosen(T) /\ Sounding(Retuned(v, k, TRUE, T))
        BY <2>2, RetunedSounds
      <4> QED  BY <4>1, <4>2, <4>3
    <3> QED  BY <3>1, <3>2
  <2> QED  BY <2>1, <2>2
<1>6. NewInv'
  <2>1. \A i \in 1 .. Len(play) : play[i].flags \cap {"SUSTAIN", "REOFF"} = {}
    BY <1>3 DEF SteadyInv, NewInv
  <2>2. play'[1].flags \cap {"SUSTAIN", "REOFF"} = {}
    <3>1. PICK v \in Voice : v = play[1]
      BY <1>3
    <3>2. play'[1] = Retuned(v, k, TRUE, T) /\ "REOFF" \notin v.flags
      BY <1>3, <2>1, <3>1
    <3>3. play'[1].flags \cap {"SUSTAIN", "REOFF"} \subseteq v.flags \cap {"REOFF"}
      BY <3>2, RetunedFlags
    <3> QED  BY <3>2, <3>3
  <2>3. \A i \in DOMAIN play' : play'[i].flags \cap {"SUSTAIN", "REOFF"} = {}
    BY <1>3, <2>1, <2>2
  <2> QED  BY <1>1, <2>3 DEF NewInv
<1>7. TableInv'
  <2>1. T = Held'
    BY <1>1 DEF SteadyInv, TableInv, Held, T, Pressed
  <2>2. T # {} => Active(play') # {}
    BY <1>3, <1>5 DEF Active, Sounding
  <2> QED  BY <1>1, <1>4, <2>1, <2>2 DEF TableInv
<1>8. TriggerInv'
  <2>1. \A i \in 1 .. Len(play) : Triggers(play[i]) = {}
    <3>1. since > 0
      BY <1>1
    <3> QED  BY <1>1, <1>3, <3>1 DEF SteadyInv, TriggerInv
  <2>2. Triggers(play'[1]) \subseteq Triggered(TRUE, T)
    BY <1>3, <2>1, RetunedFlags
  <2>3. ~Trigger /\ Triggered(TRUE, T) # {} => Cardinality(T) = 1
    BY DEF Triggered
  <2>4. ASSUME ~Trigger, NEW i \in 1 .. Len(play), Triggers(play'[i]) # {} PROVE Cardinality(T) <= 1
    <3>1. i = 1
      BY <1>3, <2>1, <2>4
    <3>2. Triggered(TRUE, T) # {}
      BY <2>2, <2>4, <3>1
    <3>3. Cardinality(T) = 1
      BY <2>3, <2>4, <3>2
    <3> QED  BY <3>3
  <2> QED  BY <1>1, <1>3, <2>4 DEF TriggerInv, Trigger
<1>9. HeldInv'
  <2>1. down' # {}
    BY <1>1
  <2>2. T # {} => count' # 0
    BY <1>1, <1>2, TableType, FS_EmptySet
  <2>3. \A i \in DOMAIN play' : i # 1 => ~Sounding(play'[i])
    BY <1>1, <1>3 DEF SteadyInv, HeldInv
  <2> QED  BY <1>1, <1>4, <1>5, <2>1, <2>2, <2>3 DEF HeldInv, BestOf
<1>10. OwnKeyInv'
  BY <1>1 DEF OwnKeyInv
<1> QED  BY <1>6, <1>7, <1>8, <1>9, <1>10 DEF SteadyInv

\* So does the first note of a phrase, whether it takes a free voice or not.
LEMMA PressFirstSteady ==
    ASSUME TypeOK, SteadyInv, Steady, NEW k \in setup.keys, PressFirst(k)
    PROVE  SteadyInv'
<1> DEFINE T == Pressed(k)
<1>1. /\ new = << >> /\ since >= 1 /\ since' = 0 /\ pref' = pref
      /\ setup' = setup /\ table' = T /\ count' = count + 1 /\ down' = down \cup {k}
      /\ lvoices' = lvoices /\ cvoices' = cvoices
      /\ pref = "none" \/ lvoices = 0 \/ play = << >>
  BY NoteTime DEF PressFirst, counts
<1>2. pref # "none" => table = {} /\ T = {k} \ {0}
  BY <1>1, NoteTime DEF PressFirst, T, Pressed
<1>3. /\ play \in Seq(Voice) /\ Len(play) \in Nat /\ DOMAIN play = 1 .. Len(play)
      /\ play # << >> => 1 \in 1 .. Len(play)
      /\ Len(new) = 0 /\ DOMAIN new = {}
  <2>1. DOMAIN new = 1 .. Len(new) /\ Len(new) = 0
    BY <1>1, PlayFields
  <2> QED  BY <2>1, PlayFields
<1>4. ASSUME HasRoom
      PROVE  /\ play' = play /\ Len(new') = 1 /\ DOMAIN new' = {1} /\ new' # << >>
             /\ new'[1].id = k /\ new'[1].key = k /\ new'[1].flags = {}
  <2>1. /\ play' = play /\ new' \in Seq(Voice) /\ Len(new') = Len(new) + 1
        /\ new'[1] = [id |-> k, key |-> k, flags |-> {}, gain |-> 0]
    BY <1>4, PressFirstProperties
  <2>2. Len(new') = 1
    BY <1>3, <2>1
  <2>3. DOMAIN new' = {1}
    <3>1. DOMAIN new' = 1 .. 1
      BY <2>1, <2>2, LenProperties
    <3> QED  BY <3>1
  <2>4. new' # << >>
    BY <2>3
  <2>5. new'[1].id = k /\ new'[1].key = k /\ new'[1].flags = {}
    BY <2>1
  <2> QED  BY <2>1, <2>2, <2>3, <2>4, <2>5
<1>5. ASSUME ~HasRoom
      PROVE  /\ new' = new /\ DOMAIN play' = 1 .. Len(play) /\ (play' = << >> => play = << >>)
             /\ play = << >> => play' = << >>
             /\ play # << >> =>
                   /\ play'[1].id = k /\ play'[1].key = k
                   /\ play'[1].flags = (play[1].flags \ {"ON", "DONE", "OFF"}) \cup {"REON"}
                   /\ \A i \in 1 .. Len(play) : i # 1 => play'[i] = play[i]
  <2>1. CASE play = << >>
    BY <1>3, <1>5, <2>1, PressFirstProperties
  <2>2. CASE play # << >>
    <3>1. play' \in Seq(Voice) /\ Len(play') = Len(play)
      BY <1>5, <2>2, PressFirstProperties
    <3>2. DOMAIN play' = 1 .. Len(play)
      BY <3>1, LenProperties
    <3>3. play' # << >>
      BY <1>3, <2>2, <3>2
    <3> QED  BY <1>5, <2>2, <3>2, <3>3, PressFirstProperties
  <2> QED  BY <2>1, <2>2
<1>6. ~HasRoom /\ pref # "none" => play # << >>
  <2> SUFFICES ASSUME ~HasRoom, pref # "none", play = << >> PROVE FALSE
    OBVIOUS
  <2>1. lvoices = 0
    BY DEF SteadyInv, TableInv
  <2>2. Len(play) = 0 /\ VoiceCount \in Nat \ {0}
    BY Player
  <2> QED  BY <1>3, <2>1, <2>2 DEF HasRoom, Free
<1> HIDE DEF T
<1>7. NewInv'
  <2>1. \A i \in 1 .. Len(play) : play[i].flags \cap {"SUSTAIN", "REOFF"} = {}
    BY <1>3 DEF SteadyInv, NewInv
  <2>2. CASE HasRoom
    BY <1>1, <1>3, <1>4, <2>1, <2>2 DEF NewInv
  <2>3. CASE ~HasRoom
    <3>1. play # << >> => play'[1].flags \cap {"SUSTAIN", "REOFF"} = {}
      BY <1>3, <1>5, <2>1, <2>3
    <3>2. ASSUME NEW i \in DOMAIN play' PROVE play'[i].flags \cap {"SUSTAIN", "REOFF"} = {}
      BY <1>3, <1>5, <2>1, <2>3, <3>1, <3>2
    <3> QED  BY <1>1, <1>3, <1>5, <2>3, <3>2 DEF NewInv
  <2> QED  BY <2>2, <2>3
<1>8. TableInv'
  <2>1. pref # "none" => T = Held'
    BY <1>1 DEF SteadyInv, TableInv, Held, T, Pressed
  <2>2. pref # "none" => new' # << >> \/ Active(play') # {}
    <3>1. CASE HasRoom
      BY <1>4, <3>1
    <3>2. CASE ~HasRoom /\ pref # "none"
      <4>1. 1 \in DOMAIN play' /\ "DONE" \notin play'[1].flags
        BY <1>3, <1>5, <1>6, <3>2
      <4> QED  BY <4>1 DEF Active
    <3> QED  BY <3>1, <3>2
  <2>3. pref # "none" /\ (cvoices' # 0 \/ lvoices' # 0) => play' # << >>
    <3>1. pref # "none" /\ (cvoices # 0 \/ lvoices # 0) => play # << >>
      BY DEF SteadyInv, TableInv
    <3>2. CASE HasRoom
      BY <1>1, <1>4, <3>1, <3>2
    <3>3. CASE ~HasRoom
      BY <1>1, <1>5, <3>1, <3>3
    <3> QED  BY <3>2, <3>3
  <2> QED  BY <1>1, <2>1, <2>2, <2>3 DEF TableInv
<1>9. TriggerInv'
  <2>1. pref # "none" => Cardinality(T) <= 1
    <3>1. CASE pref # "none" /\ T = {}
      <4>1. Cardinality(T) = 0
        BY <3>1, FS_EmptySet
      <4> QED  BY <4>1
    <3>2. CASE pref # "none" /\ T # {}
      <4>1. T = {k}
        BY <1>2, <3>2
      <4>2. Cardinality(T) = 1
        BY <4>1, FS_Singleton
      <4> QED  BY <4>2
    <3> QED  BY <3>1, <3>2
  <2> QED  BY <1>1, <2>1 DEF TriggerInv
<1>10. HeldInv'
  <2>1. down' # {}
    BY <1>1
  <2>2. count' # 0
    BY <1>1 DEF TypeOK
  <2>3. ASSUME pref # "none" PROVE \A i \in DOMAIN play' : i # 1 => ~Sounding(play'[i])
    <3>1. \A i \in 1 .. Len(play) : i # 1 => ~Sounding(play[i])
      BY <1>3, <2>3 DEF SteadyInv, HeldInv
    <3>2. CASE HasRoom
      BY <1>3, <1>4, <3>1, <3>2
    <3>3. CASE ~HasRoom
      BY <1>5, <1>6, <2>3, <3>1, <3>3
    <3> QED  BY <3>2, <3>3
  <2>4. pref # "none" /\ T # {} => BestOf(T) = k
    <3> SUFFICES ASSUME pref # "none", T # {} PROVE BestOf(T) = k
      OBVIOUS
    <3>1. T = {k} /\ k \in 0 .. 127
      BY <1>2, Player
    <3>2. T \in SUBSET (0 .. 127) /\ k \in T /\ (\A n \in T : n <= k) /\ \A n \in T : k <= n
      BY <3>1
    <3> QED  BY <3>2, BestOfIs
  <2>5. new' # << >> => new'[1].key = k
    BY <1>1, <1>4, <1>5
  <2>6. pref # "none" /\ new' = << >> => play' # << >> /\ Sounding(play'[1]) /\ play'[1].key = k
    <3> SUFFICES ASSUME pref # "none", new' = << >>
                 PROVE  play' # << >> /\ Sounding(play'[1]) /\ play'[1].key = k
      OBVIOUS
    <3>1. ~HasRoom
      BY <1>4
    <3>2. play # << >> /\ play' # << >>
      BY <1>5, <1>6, <3>1
    <3> QED  BY <1>5, <3>1, <3>2 DEF Sounding
  <2> QED  BY <1>1, <2>1, <2>2, <2>3, <2>4, <2>5, <2>6 DEF HeldInv, BestOf
<1>11. OwnKeyInv'
  <2> SUFFICES ASSUME pref = "none"
               PROVE  /\ \A i \in DOMAIN play' : Sounding(play'[i]) => play'[i].id \in down'
                      /\ \A i \in DOMAIN new' : new'[i].id \in down'
    BY <1>1 DEF OwnKeyInv
  <2>1. \A i \in 1 .. Len(play) : Sounding(play[i]) => play[i].id \in down
    BY <1>3 DEF SteadyInv, OwnKeyInv
  <2>2. CASE HasRoom
    BY <1>1, <1>3, <1>4, <2>1, <2>2
  <2>3. CASE ~HasRoom /\ play = << >>
    BY <1>3, <1>5, <2>3
  <2>4. CASE ~HasRoom /\ play # << >>
    BY <1>1, <1>3, <1>5, <2>1, <2>4
  <2> QED  BY <2>2, <2>3, <2>4
<1> QED  BY <1>7, <1>8, <1>9, <1>10, <1>11 DEF SteadyInv

\* So does a note off, which may leave the pedal the only holder of the note.
LEMMA ReleaseSteady ==
    ASSUME TypeOK, SteadyInv, Steady, NEW k \in setup.keys, Release(k)
    PROVE  SteadyInv'
<1> DEFINE T == Lifted(k)
<1>1. /\ new = << >> /\ new' = << >> /\ since >= 1 /\ since' = 0 /\ pref' = pref
      /\ setup' = setup /\ down' = down \ {k} /\ lvoices' = lvoices /\ cvoices' = cvoices
  BY NoteTime, ReleaseProperties DEF Release, counts
<1>2. /\ play \in Seq(Voice) /\ Len(play) \in Nat /\ DOMAIN play = 1 .. Len(play)
      /\ \A i \in 1 .. Len(play) : play[i] \in Voice
      /\ play # << >> => 1 \in 1 .. Len(play)
      /\ DOMAIN play' = 1 .. Len(play) /\ DOMAIN new' = {}
      /\ play' # << >> <=> play # << >>
  <2>1. play' \in Seq(Voice) /\ Len(play') = Len(play) /\ DOMAIN play' = 1 .. Len(play)
    BY ReleaseProperties
  <2>2. play' # << >> <=> play # << >>
    BY <2>1, PlayFields, EmptySeq
  <2> QED  BY <1>1, <2>1, <2>2, PlayFields
<1>3. /\ T \in SUBSET (Keys \ {0}) /\ T \in SUBSET Keys /\ T \in SUBSET (0 .. 127)
      /\ table \in SUBSET (0 .. 127) /\ k \in 0 .. 127
  BY ReleaseProperties, TableType, Player DEF TypeOK
<1>4. pref # "none" =>
        /\ \A i \in 1 .. Len(play) : play'[i] = Retuned(play[i], k, FALSE, T)
        /\ play # << >> => table' = T /\ count' = Cardinality(T) /\ extreme' = ExtremeAfter(T)
        /\ play = << >> => table' = table /\ count' = count /\ down = {} /\ table = {}
  BY ReleaseProperties, NoteTime DEF Release, Tabulate, keymap
<1>5. pref = "none" => \A i \in 1 .. Len(play) :
        /\ play'[i].id = play[i].id
        /\ play'[i].flags = IF play[i].id = k THEN play[i].flags \cup {"OFF"} ELSE play[i].flags
  BY ReleaseProperties
<1>6. T = table \ {k}
  BY DEF T, Lifted
<1> HIDE DEF T
<1>7. pref # "none" => \A i \in 1 .. Len(play) :
        /\ "DONE" \in play'[i].flags => "DONE" \in play[i].flags
        /\ Sounding(play'[i]) => Sounding(play[i])
        /\ play'[i].flags \cap {"SUSTAIN", "REOFF"} \subseteq play[i].flags \cap {"REOFF"}
        /\ Triggers(play'[i]) \subseteq Triggers(play[i]) \cup Triggered(FALSE, T)
  <2> SUFFICES ASSUME pref # "none", NEW i \in 1 .. Len(play)
               PROVE  /\ "DONE" \in play'[i].flags => "DONE" \in play[i].flags
                      /\ Sounding(play'[i]) => Sounding(play[i])
                      /\ play'[i].flags \cap {"SUSTAIN", "REOFF"} \subseteq play[i].flags \cap {"REOFF"}
                      /\ Triggers(play'[i]) \subseteq Triggers(play[i]) \cup Triggered(FALSE, T)
    OBVIOUS
  <2>1. PICK v \in Voice : v = play[i]
    BY <1>2
  <2>2. PICK w : w = play'[i]
    OBVIOUS
  <2>3. w = Retuned(v, k, FALSE, T)
    BY <1>4, <2>1, <2>2
  <2>4. /\ "DONE" \in w.flags => "DONE" \in v.flags
        /\ Sounding(w) => Sounding(v)
        /\ w.flags \cap {"SUSTAIN", "REOFF"} \subseteq v.flags \cap {"REOFF"}
        /\ Triggers(w) \subseteq Triggers(v) \cup Triggered(FALSE, T)
    BY <2>3, RetunedFlags
  <2> QED  BY <2>1, <2>2, <2>4
<1>8. pref # "none" /\ T # {} =>
        play # << >> /\ Sounding(play'[1]) /\ play'[1].key = BestOf(T)
  <2> SUFFICES ASSUME pref # "none", T # {}
               PROVE  play # << >> /\ Sounding(play'[1]) /\ play'[1].key = BestOf(T)
    OBVIOUS
  <2>1. table # {} /\ table \ {k} = T \ {k}
    BY <1>6
  <2>2. play # << >> /\ Sounding(play[1]) /\ play[1].key = BestOf(table)
    BY <1>1, <2>1 DEF SteadyInv, HeldInv
  <2>3. PICK v \in Voice : v = play[1]
    BY <1>2, <2>2
  <2>4. play'[1] = Retuned(v, k, FALSE, T) /\ Sounding(v) /\ v.key = BestOf(table)
    BY <1>2, <1>4, <2>2, <2>3
  <2>5. CASE Outranked(k, T)
    <3>1. BestOf(table) = BestOf(T)
      BY <1>3, <2>1, <2>5, OutrankedKey
    <3>2. /\ Retuned(v, k, FALSE, T).key = v.key
          /\ Sounding(v) => Sounding(Retuned(v, k, FALSE, T))
      BY <2>5, OutrankedVoice
    <3> QED  BY <2>2, <2>4, <3>1, <3>2
  <2>6. CASE ~Outranked(k, T)
    <3>1. Chosen(T) = BestOf(T)
      BY <1>3, ChosenIsBest
    <3>2. /\ Retuned(v, k, FALSE, T).key = Chosen(T)
          /\ Sounding(v) => Sounding(Retuned(v, k, FALSE, T))
      BY <2>6, RetunedSounds
    <3> QED  BY <2>2, <2>4, <3>1, <3>2
  <2> QED  BY <2>5, <2>6
<1>9. pref # "none" => table' = Held'
  <2>1. CASE pref # "none" /\ play # << >>
    BY <1>1, <1>4, <1>6, <2>1 DEF SteadyInv, TableInv, Held
  <2>2. CASE pref # "none" /\ play = << >>
    BY <1>1, <1>4, <2>2 DEF Held
  <2> QED  BY <2>1, <2>2
<1>10. NewInv'
  <2>1. \A i \in 1 .. Len(play) : play[i].flags \cap {"SUSTAIN", "REOFF"} = {}
    BY <1>2 DEF SteadyInv, NewInv
  <2>2. ASSUME NEW i \in 1 .. Len(play) PROVE play'[i].flags \cap {"SUSTAIN", "REOFF"} = {}
    <3>1. play[i].flags \cap {"SUSTAIN", "REOFF"} = {}
      BY <2>1
    <3>2. CASE pref # "none"
      <4>1. play'[i].flags \cap {"SUSTAIN", "REOFF"} \subseteq play[i].flags \cap {"REOFF"}
        BY <1>7, <3>2
      <4> QED  BY <3>1, <4>1
    <3>3. CASE pref = "none"
      <4>1. play'[i].flags \subseteq play[i].flags \cup {"OFF"}
        BY <1>5, <3>3
      <4> QED  BY <3>1, <4>1
    <3> QED  BY <3>2, <3>3
  <2> QED  BY <1>1, <1>2, <2>2 DEF NewInv
<1>11. TableInv'
  <2>1. pref # "none" /\ table' # {} => Active(play') # {}
    <3> SUFFICES ASSUME pref # "none", table' # {} PROVE Active(play') # {}
      OBVIOUS
    <3>1. T # {}
      BY <1>4
    <3>2. 1 \in DOMAIN play' /\ "DONE" \notin play'[1].flags
      BY <1>2, <1>8, <3>1 DEF Sounding
    <3> QED  BY <3>2 DEF Active
  <2>2. pref # "none" /\ (cvoices' # 0 \/ lvoices' # 0) => play' # << >>
    BY <1>1, <1>2 DEF SteadyInv, TableInv
  <2> QED  BY <1>1, <1>9, <2>1, <2>2 DEF TableInv
<1>12. TriggerInv'
  <2>1. ASSUME pref # "none", ~Trigger, NEW i \in 1 .. Len(play) PROVE Triggers(play'[i]) = {}
    <3>1. Triggers(play[i]) = {}
      <4>1. since > 0
        BY <1>1 DEF TypeOK
      <4> QED  BY <1>2, <2>1, <4>1 DEF SteadyInv, TriggerInv
    <3>2. Triggered(FALSE, T) = {}
      BY <2>1 DEF Triggered
    <3>3. Triggers(play'[i]) \subseteq Triggers(play[i]) \cup Triggered(FALSE, T)
      BY <1>7, <2>1
    <3> QED  BY <3>1, <3>2, <3>3
  <2> QED  BY <1>1, <1>2, <2>1 DEF TriggerInv, Trigger
<1>13. HeldInv'
  <2> SUFFICES ASSUME pref # "none"
               PROVE  /\ down' = {} => count' = 0
                      /\ table' # {} => count' # 0
                      /\ \A i \in DOMAIN play' : i # 1 => ~Sounding(play'[i])
                      /\ table' # {} =>
                           play' # << >> /\ Sounding(play'[1]) /\ play'[1].key = BestOf(table')
                      /\ down' # {} => play' # << >>
                      /\ down' = {} => (extreme' >= 0 \/ \A i \in DOMAIN play' : ~Sounding(play'[i]))
    BY <1>1 DEF HeldInv, BestOf
  <2>1. \A i \in DOMAIN play' : i # 1 => ~Sounding(play'[i])
    BY <1>2, <1>7 DEF SteadyInv, HeldInv
  <2>2. CASE play = << >>
    <3>1. down' = {} /\ table' = {} /\ count' = 0 /\ DOMAIN play' = {}
      BY <1>1, <1>2, <1>4, <2>2 DEF SteadyInv, HeldInv
    <3> QED  BY <2>1, <3>1
  <2>3. CASE play # << >>
    <3>1. table' = T /\ count' = Cardinality(T) /\ play' # << >>
      BY <1>2, <1>4, <2>3
    <3>2. T # {} => count' # 0
      BY <1>3, <3>1, TableType, FS_EmptySet
    <3>3. down' = {} => T = {} /\ count' = 0
      <4>1. down' = {} => T = {}
        BY <1>9, <3>1 DEF Held
      <4> QED  BY <3>1, <4>1, FS_EmptySet
    <3>4. extreme' >= 0
      <4>1. ExtremeAfter(T) \in 0 .. 127
        BY <1>3, ExtremeAfterType
      <4>2. extreme' = ExtremeAfter(T)
        BY <1>4, <2>3
      <4>3. extreme' \in 0 .. 127
        BY <4>1, <4>2
      <4> QED  BY <4>3
    <3> QED  BY <1>8, <2>1, <3>1, <3>2, <3>3, <3>4
  <2> QED  BY <2>2, <2>3
<1>14. OwnKeyInv'
  <2> SUFFICES ASSUME pref = "none", NEW i \in 1 .. Len(play), Sounding(play'[i])
               PROVE  play'[i].id \in down'
    BY <1>1, <1>2 DEF OwnKeyInv
  <2>1. play[i].id # k /\ play'[i].id = play[i].id /\ Sounding(play[i])
    BY <1>5 DEF Sounding
  <2>2. play[i].id \in down
    BY <1>2, <2>1 DEF SteadyInv, OwnKeyInv
  <2> QED  BY <1>1, <2>1, <2>2
<1> QED  BY <1>10, <1>11, <1>12, <1>13, <1>14 DEF SteadyInv

\* So does the pedal.
LEMMA PedalSteady ==
    ASSUME TypeOK, SteadyInv, Steady, Pedal
    PROVE  SteadyInv'
<1>1. /\ new' = new /\ since' = since /\ pref' = pref /\ setup' = setup /\ down' = down
      /\ table' = table /\ count' = count /\ extreme' = extreme
      /\ lvoices' = lvoices /\ cvoices' = cvoices
  BY DEF Pedal, counts, keymap
<1>2. /\ DOMAIN play = 1 .. Len(play) /\ DOMAIN play' = 1 .. Len(play)
      /\ play # << >> => 1 \in 1 .. Len(play)
      /\ play' # << >> <=> play # << >>
  <2>1. play' \in Seq(Voice) /\ Len(play') = Len(play) /\ DOMAIN play' = 1 .. Len(play)
    BY PedalProperties
  <2>2. play' # << >> <=> play # << >>
    BY <2>1, PlayFields, EmptySeq
  <2> QED  BY <2>1, <2>2, PlayFields
<1>3. \A i \in 1 .. Len(play) :
        play'[i].id = play[i].id /\ play'[i].key = play[i].key /\ play'[i].flags = play[i].flags
  <2> SUFFICES ASSUME NEW i \in 1 .. Len(play)
               PROVE  /\ play'[i].id = play[i].id /\ play'[i].key = play[i].key
                      /\ play'[i].flags = play[i].flags
    OBVIOUS
  <2>1. "SUSTAIN" \notin play[i].flags
    BY <1>2 DEF SteadyInv, NewInv
  <2> QED  BY <2>1, PedalProperties
<1>4. \A i \in 1 .. Len(play) : /\ Sounding(play'[i]) <=> Sounding(play[i])
                                /\ Triggers(play'[i]) = Triggers(play[i])
  BY <1>3 DEF Sounding, Triggers
<1>5. Active(play') = Active(play)
  BY <1>2, <1>3 DEF Active
<1>6. NewInv'
  BY <1>1, <1>2, <1>3 DEF SteadyInv, NewInv
<1>7. TableInv'
  BY <1>1, <1>2, <1>5 DEF SteadyInv, TableInv, Held
<1>8. TriggerInv'
  BY <1>1, <1>2, <1>4 DEF SteadyInv, TriggerInv, Trigger
<1>9. HeldInv'
  BY <1>1, <1>2, <1>3, <1>4 DEF SteadyInv, HeldInv, BestOf
<1>10. OwnKeyInv'
  BY <1>1, <1>2, <1>3, <1>4 DEF SteadyInv, OwnKeyInv
<1> QED  BY <1>6, <1>7, <1>8, <1>9, <1>10 DEF SteadyInv

\* So does all notes off, which clears the table and the voices.
LEMMA NotesOffSteady ==
    ASSUME TypeOK, SteadyInv, Steady, NotesOff
    PROVE  SteadyInv'
<1>1. /\ new = << >> /\ new' = << >> /\ since' = 0 /\ pref' = pref /\ setup' = setup /\ down' = {}
      /\ lvoices' = lvoices /\ cvoices' = cvoices
      /\ IF play = << >> THEN table' = table /\ count' = count ELSE table' = {} /\ count' = 0
  BY NoteTime DEF NotesOff, counts
<1>2. /\ DOMAIN play' = 1 .. Len(play)
      /\ play' # << >> <=> play # << >>
      /\ \A i \in 1 .. Len(play) : play'[i].flags = {"OFF", "DONE"}
  <2>1. play' \in Seq(Voice) /\ Len(play') = Len(play) /\ DOMAIN play' = 1 .. Len(play)
    BY NotesOffProperties
  <2>2. play' # << >> <=> play # << >>
    BY <2>1, PlayFields, EmptySeq
  <2> QED  BY <2>1, <2>2, NotesOffProperties
<1>3. \A i \in DOMAIN play' : ~Sounding(play'[i]) /\ Triggers(play'[i]) = {}
  BY <1>2 DEF Sounding, Triggers
<1>4. pref # "none" => table' = {} /\ count' = 0
  <2>1. CASE play # << >>
    BY <1>1, <2>1
  <2>2. CASE pref # "none" /\ play = << >>
    <3>1. down = {} /\ table = {}
      BY <2>2, NoteTime DEF NotesOff
    <3> QED  BY <1>1, <2>2, <3>1 DEF SteadyInv, HeldInv
  <2> QED  BY <2>1, <2>2
<1>5. NewInv'
  BY <1>1, <1>2 DEF NewInv
<1>6. TableInv'
  BY <1>1, <1>2, <1>4 DEF SteadyInv, TableInv, Held
<1>7. TriggerInv'
  BY <1>1, <1>3 DEF TriggerInv
<1>8. HeldInv'
  BY <1>1, <1>3, <1>4 DEF HeldInv
<1>9. OwnKeyInv'
  BY <1>1, <1>3 DEF OwnKeyInv
<1> QED  BY <1>5, <1>6, <1>7, <1>8, <1>9 DEF SteadyInv

\* So does an audio period, which may end the phrase.
LEMMA PeriodSteady ==
    ASSUME TypeOK, SteadyInv, Steady, Period
    PROVE  SteadyInv'
<1>1. PICK list : list = Assembled
  OBVIOUS
<1>2. /\ list \in Seq(Voice) /\ Len(list) \in Nat /\ DOMAIN list = 1 .. Len(list)
      /\ DOMAIN play' = 1 .. Len(list) /\ \A i \in 1 .. Len(list) : play'[i] = Ran(list, i)
      /\ DOMAIN play = 1 .. Len(play) /\ DOMAIN new = 1 .. Len(new)
      /\ Len(play) \in Nat
      /\ new # << >> => Len(new) = 1 /\ new[1] \in Voice /\ new[1].flags = {}
  <2>1. new # << >> => Len(new) = 1 /\ 1 \in DOMAIN new /\ new[1] \in Voice /\ new[1].flags = {}
    BY PlayFields DEF SteadyInv, NewInv
  <2> QED  BY <1>1, <2>1, AssembledProperties, PeriodProperties, PlayFields, LenProperties
<1>3. /\ new' = << >> /\ pref' = pref /\ setup' = setup /\ down' = down /\ table' = table
      /\ count' = count /\ cvoices' = Cardinality(Active(list)) /\ lvoices' = cvoices
      /\ since' = IF since < Spacing THEN since + 1 ELSE since
      /\ extreme' = IF Clears /\ Active(list) # {} THEN -1 ELSE extreme
  BY <1>1 DEF Period
<1>4. new = << >> => list = play
  BY <1>1, AssembledProperties
<1>5. new # << >> /\ pref # "none" =>
        /\ Len(list) = 1 + Len(play) /\ list[1].flags = {"ON"}
        /\ \A i \in 1 .. Len(play) : list[1 + i] = [play[i] EXCEPT !.flags = @ \ {"DONE"}]
  <2> SUFFICES ASSUME new # << >>, pref # "none"
               PROVE  /\ Len(list) = 1 + Len(play) /\ list[1].flags = {"ON"}
                      /\ \A i \in 1 .. Len(play) :
                            list[1 + i] = [play[i] EXCEPT !.flags = @ \ {"DONE"}]
    OBVIOUS
  <2>1. Len(new) = 1 /\ 1 \in 1 .. Len(new) /\ Len(new) - 1 + 1 = 1
    BY <1>2
  <2>2. /\ Len(list) = Len(new) + Len(play) /\ list[1] = Started(new[Len(new) - 1 + 1])
        /\ \A i \in 1 .. Len(play) : list[Len(new) + i] = [play[i] EXCEPT !.flags = @ \ {"DONE"}]
    BY <1>1, <2>1, AssembledProperties
  <2>3. list[1] = Started(new[1]) /\ list[1].flags = {"ON"}
    BY <1>2, <2>1, <2>2, StartedProperties
  <2> QED  BY <2>1, <2>2, <2>3
<1>6. ASSUME NEW i \in 1 .. Len(list) PROVE list[i].flags \cap {"SUSTAIN", "REOFF"} = {}
  <2>1. \A j \in 1 .. Len(play) : play[j].flags \cap {"SUSTAIN", "REOFF"} = {}
    BY <1>2 DEF SteadyInv, NewInv
  <2>2. CASE new = << >>
    BY <1>2, <1>4, <2>1, <2>2
  <2>3. CASE new # << >> /\ pref # "none"
    <3>1. CASE i = 1
      BY <1>5, <2>3, <3>1
    <3>2. CASE i # 1
      <4>1. PICK j \in 1 .. Len(play) : i = 1 + j
        <5>1. i - 1 \in 1 .. Len(play) /\ i = 1 + (i - 1)
          BY <1>2, <1>5, <2>3, <3>2
        <5> QED  BY <5>1
      <4>2. PICK v \in Voice : v = play[j]
        BY PlayFields
      <4>3. list[i] = [v EXCEPT !.flags = v.flags \ {"DONE"}]
        BY <1>5, <2>3, <4>1, <4>2
      <4>4. list[i].flags = v.flags \ {"DONE"}
        BY <4>3 DEF Voice
      <4> QED  BY <2>1, <4>2, <4>4
    <3> QED  BY <3>1, <3>2
  <2>4. CASE new # << >> /\ pref = "none"
    <3>1. i \in DOMAIN Assembled
      BY <1>1, <1>2
    <3>2. CASE \E j \in DOMAIN new : list[i] = Started(new[j])
      <4>1. PICK j \in DOMAIN new : list[i] = Started(new[j])
        BY <3>2
      <4>2. j = 1
        BY <1>2, <2>4, <4>1
      <4>3. list[i].flags = {"ON"}
        BY <1>2, <2>4, <4>1, <4>2, StartedProperties
      <4> QED  BY <4>3
    <3>3. CASE \E j \in Active(play) : list[i] = play[j]
      BY <1>2, <2>1, <3>3 DEF Active
    <3> QED  BY <1>1, <2>4, <3>1, <3>2, <3>3, AssembledProperties
  <2> QED  BY <2>2, <2>3, <2>4
<1>7. NewInv'
  <2>1. ASSUME NEW i \in 1 .. Len(list) PROVE play'[i].flags \cap {"SUSTAIN", "REOFF"} = {}
    <3>1. Ran(list, i).flags \cap {"SUSTAIN", "REOFF"} \subseteq list[i].flags
      BY <1>2, RanProperties
    <3> QED  BY <1>2, <1>6, <3>1
  <2> QED  BY <1>2, <1>3, <2>1 DEF NewInv
<1>8. TableInv'
  <2> SUFFICES ASSUME pref # "none"
               PROVE  /\ table' = Held'
                      /\ table' # {} => Active(play') # {}
                      /\ table' # {} /\ since' >= 1 => cvoices' # 0
                      /\ table' # {} /\ since' >= 2 => lvoices' # 0
                      /\ cvoices' # 0 \/ lvoices' # 0 => play' # << >>
    BY <1>3 DEF TableInv
  <2>1. table' = Held'
    BY <1>3 DEF SteadyInv, TableInv, Held
  <2>2. table # {} => Active(list) # {}
    <3>1. CASE new = << >>
      BY <1>4, <3>1 DEF SteadyInv, TableInv
    <3>2. CASE new # << >>
      <4>1. 1 \in DOMAIN list /\ "DONE" \notin list[1].flags
        BY <1>2, <1>5, <3>2
      <4> QED  BY <4>1 DEF Active
    <3> QED  BY <3>1, <3>2
  <2>3. \A i \in Active(list) : i \in Active(play')
    <3> SUFFICES ASSUME NEW i \in Active(list) PROVE i \in Active(play')
      OBVIOUS
    <3>1. i \in 1 .. Len(list)
      BY <1>2 DEF Active
    <3>2. "DONE" \notin Ran(list, i).flags
      BY <1>2, <3>1, RanProperties
    <3> QED  BY <1>2, <3>1, <3>2 DEF Active
  <2>4. Active(list) # {} => cvoices' # 0
    BY <1>2, <1>3, ActiveCount
  <2>5. table # {} /\ since' >= 2 => lvoices' # 0
    <3>1. since' >= 2 => since >= 1
      BY <1>3, Player DEF TypeOK, Steady
    <3> QED  BY <1>3, <3>1 DEF SteadyInv, TableInv
  <2>6. cvoices' # 0 \/ lvoices' # 0 => play' # << >>
    <3>1. cvoices' # 0 => Active(list) # {}
      BY <1>2, <1>3, ActiveCount
    <3>2. Active(list) # {} => play' # << >>
      BY <2>3 DEF Active
    <3>3. lvoices' # 0 => play # << >>
      BY <1>3 DEF SteadyInv, TableInv
    <3>4. play # << >> => 1 \in 1 .. Len(list)
      <4>1. play # << >> => 1 \in 1 .. Len(play)
        BY PlayFields
      <4>2. CASE new = << >>
        BY <1>4, <4>1, <4>2
      <4>3. CASE new # << >>
        <5>1. Len(list) = 1 + Len(play)
          BY <1>5, <4>3
        <5> QED  BY <1>2, <5>1
      <4> QED  BY <4>2, <4>3
    <3>5. 1 \in 1 .. Len(list) => play' # << >>
      BY <1>2
    <3> QED  BY <3>1, <3>2, <3>3, <3>4, <3>5
  <2> QED  BY <1>3, <2>1, <2>2, <2>3, <2>4, <2>5, <2>6
<1>9. TriggerInv'
  <2>1. \A i \in 1 .. Len(list) : Triggers(Ran(list, i)) = {}
    BY <1>2, RanProperties
  <2> QED  BY <1>2, <1>3, <2>1 DEF TriggerInv
<1>10. HeldInv'
  <2> SUFFICES ASSUME pref # "none"
               PROVE  /\ down = {} => count = 0
                      /\ table # {} => count # 0
                      /\ \A i \in DOMAIN play' : i # 1 => ~Sounding(play'[i])
                      /\ table # {} =>
                           play' # << >> /\ Sounding(play'[1]) /\ play'[1].key = BestOf(table)
                      /\ down # {} => play' # << >>
                      /\ down = {} => (extreme' >= 0 \/ \A i \in DOMAIN play' : ~Sounding(play'[i]))
    BY <1>3 DEF HeldInv, BestOf
  <2>1. (down = {} => count = 0) /\ (table # {} => count # 0)
    BY DEF SteadyInv, HeldInv
  <2>2. ASSUME NEW i \in 1 .. Len(list), i # 1 PROVE ~Sounding(play'[i])
    <3>1. CASE First(list, i)
      <4>1. 1 \notin Active(list)
        BY <1>2, <2>2, <3>1 DEF First
      <4>2. new = << >>
        <5>1. 1 \in 1 .. Len(list)
          BY <1>2
        <5>2. new # << >> => 1 \in Active(list)
          BY <1>2, <1>5, <5>1 DEF Active
        <5> QED  BY <4>1, <5>2
      <4>3. ~Sounding(list[i])
        BY <1>2, <1>4, <2>2, <4>2 DEF SteadyInv, HeldInv
      <4> QED  BY <1>2, <4>3, RanSilent
    <3>2. CASE ~First(list, i)
      BY <1>2, <3>2, RanBehind
    <3> QED  BY <3>1, <3>2
  <2>3. table # {} => play' # << >> /\ Sounding(play'[1]) /\ play'[1].key = BestOf(table)
    <3> SUFFICES ASSUME table # {}
                 PROVE  play' # << >> /\ Sounding(play'[1]) /\ play'[1].key = BestOf(table)
      OBVIOUS
    <3>1. ~Clears
      BY <2>1 DEF Clears
    <3>2. /\ new # << >> => new[1].key = BestOf(table)
          /\ new = << >> => play # << >> /\ Sounding(play[1]) /\ play[1].key = BestOf(table)
      BY DEF SteadyInv, HeldInv
    <3> QED  BY <3>1, <3>2, HeadSounds
  <2>4. down # {} => play' # << >>
    <3>1. down # {} => new # << >> \/ play # << >>
      BY DEF SteadyInv, HeldInv
    <3>2. new # << >> \/ play # << >> => 1 \in 1 .. Len(list)
      <4>1. play # << >> => 1 \in 1 .. Len(play)
        BY PlayFields
      <4>2. CASE new = << >>
        BY <1>4, <4>1, <4>2
      <4>3. CASE new # << >>
        <5>1. Len(list) = 1 + Len(play)
          BY <1>5, <4>3
        <5> QED  BY <1>2, <5>1
      <4> QED  BY <4>2, <4>3
    <3>3. 1 \in 1 .. Len(list) => play' # << >>
      BY <1>2
    <3> QED  BY <3>1, <3>2, <3>3
  <2>5. ASSUME down = {}
        PROVE  extreme' >= 0 \/ \A i \in DOMAIN play' : ~Sounding(play'[i])
    <3>1. new = << >> /\ list = play
      BY <1>4, <2>5 DEF SteadyInv, HeldInv
    <3>2. CASE ~(extreme >= 0)
      <4>1. \A i \in 1 .. Len(list) : ~Sounding(list[i])
        BY <1>2, <2>5, <3>1, <3>2 DEF SteadyInv, HeldInv
      <4> QED  BY <1>2, <4>1, RanSilent
    <3>3. CASE extreme >= 0 /\ Clears /\ Active(list) # {}
      <4>1. ASSUME NEW i \in 1 .. Len(list) PROVE ~Sounding(play'[i])
        <5>1. CASE First(list, i)
          <6>1. "OFF" \in Ran(list, i).flags
            BY <1>2, <3>3, <5>1, RanProperties
          <6> QED  BY <1>2, <6>1 DEF Sounding
        <5>2. CASE ~First(list, i)
          BY <1>2, <5>2, RanBehind
        <5> QED  BY <5>1, <5>2
      <4> QED  BY <1>2, <4>1
    <3>4. CASE extreme >= 0 /\ ~(Clears /\ Active(list) # {})
      <4>1. extreme' = extreme
        BY <1>3, <3>4
      <4> QED  BY <3>4, <4>1
    <3> QED  BY <3>2, <3>3, <3>4
  <2> QED  BY <1>2, <2>1, <2>2, <2>3, <2>4, <2>5
<1>11. OwnKeyInv'
  <2> SUFFICES ASSUME pref = "none", NEW i \in 1 .. Len(list), Sounding(play'[i])
               PROVE  play'[i].id \in down
    BY <1>2, <1>3 DEF OwnKeyInv
  <2>1. play'[i].id = list[i].id /\ Sounding(list[i])
    BY <1>2, RanProperties, RanSilent
  <2>2. CASE new = << >>
    BY <1>2, <1>4, <2>1, <2>2 DEF SteadyInv, OwnKeyInv
  <2>3. CASE new # << >>
    <3>1. CASE \E j \in DOMAIN new : list[i] = Started(new[j])
      <4>1. PICK j \in 1 .. Len(new) : list[i] = Started(new[j])
        BY <1>2, <3>1
      <4>2. new[j] \in Voice
        BY PlayFields
      <4>3. list[i].id = new[j].id
        BY <4>1, <4>2, StartedProperties
      <4> QED  BY <1>2, <2>1, <4>1, <4>3 DEF SteadyInv, OwnKeyInv
    <3>2. CASE \E j \in Active(play) : list[i] = play[j]
      BY <2>1, <3>2 DEF SteadyInv, OwnKeyInv, Active
    <3> QED  BY <1>1, <1>2, <2>3, <3>1, <3>2, AssembledProperties
  <2> QED  BY <2>2, <2>3
<1> QED  BY <1>7, <1>8, <1>9, <1>10, <1>11 DEF SteadyInv

\* The inductive step of SteadyInv.
LEMMA SteadyNext == TypeOK /\ SteadyInv /\ [Next]_vars => SteadyInv'
<1> SUFFICES ASSUME TypeOK, SteadyInv, [Next]_vars PROVE SteadyInv'
  OBVIOUS
<1>1. setup' = setup
  BY DEF Next, Press, PressFirst, Release, Pedal, NotesOff, Prefer, Period, vars
<1>2. CASE ~Steady
  <2>1. ~Steady'
    BY <1>1, <1>2 DEF Steady, Spacing, Switching
  <2> QED  BY <2>1 DEF SteadyInv, NewInv, TableInv, TriggerInv, HeldInv, OwnKeyInv
<1>3. CASE Steady
  <2>1. ASSUME NEW k \in setup.keys, Press(k) PROVE SteadyInv'
    BY <1>3, <2>1, PressSteady
  <2>2. ASSUME NEW k \in setup.keys, PressFirst(k) PROVE SteadyInv'
    BY <1>3, <2>2, PressFirstSteady
  <2>3. ASSUME NEW k \in setup.keys, Release(k) PROVE SteadyInv'
    BY <1>3, <2>3, ReleaseSteady
  <2>4. CASE Pedal
    BY <1>3, <2>4, PedalSteady
  <2>5. CASE NotesOff
    BY <1>3, <2>5, NotesOffSteady
  <2>6. ASSUME NEW p \in Preferences, Prefer(p) PROVE SteadyInv'
    BY <1>3, <2>6 DEF Prefer, Steady
  <2>7. CASE Period
    BY <1>3, <2>7, PeriodSteady
  <2>8. CASE UNCHANGED vars
    BY <2>8 DEF vars, SteadyInv, NewInv, TableInv, TriggerInv, HeldInv, OwnKeyInv, Steady,
                Spacing, Switching, Trigger, Held, BestOf
  <2> QED  BY <2>1, <2>2, <2>3, <2>4, <2>5, <2>6, <2>7, <2>8 DEF Next
<1> QED  BY <1>2, <1>3

\* For a steady player (notes two periods apart, a preference that stays) the
\* table of doMNL is the keys held, and the first voice of the playlist plays it.
THEOREM SteadyHolds == Spec => [](TypeOK /\ SteadyInv)
<1>1. Init => TypeOK /\ SteadyInv
  BY TypeInit, SteadyInit
<1>2. TypeOK /\ SteadyInv /\ [Next]_vars => (TypeOK /\ SteadyInv)'
  BY NextType, SteadyNext
<1> QED  BY <1>1, <1>2, PTL DEF Spec

----------------------------------------------------------------------------
(***************************************************************************)
(* What the emulator plays.                                                *)
(***************************************************************************)

\* Without BRISTOL_MNL_TRIG only the first key of a phrase has the trigger of
\* the voice: doMNL asks for one when its table has a single key.
THEOREM LegatoKept == Spec => []LegatoKeepsEnvelope
<1>1. TypeOK /\ SteadyInv => LegatoKeepsEnvelope
  BY DEF SteadyInv, TableInv, TriggerInv, LegatoKeepsEnvelope, Triggers
<1> QED  BY <1>1, SteadyHolds, PTL

\* While keys are held the preferred one sounds, and nothing sounds with no key
\* held and the pedal up (doMNL, and doAudioOps for keys released under the
\* pedal).
THEOREM HeldKeysPlayed == Spec => PlaysHeldKeys
<1>1. ASSUME TypeOK, SteadyInv, SteadyInv', Steady, Period
      PROVE  /\ pref # "none" /\ Held # {} =>
                   \E i \in DOMAIN play' : Sounding(play'[i]) /\ play'[i].key = BestOf(Held)
             /\ down = {} /\ ~pedal => \A i \in DOMAIN play' : ~Sounding(play'[i])
  <2>1. /\ pref' = pref /\ down' = down /\ table' = table /\ new' = << >> /\ setup' = setup
        /\ extreme' = IF Clears /\ Active(Assembled) # {} THEN -1 ELSE extreme
    BY <1>1 DEF Period
  <2>2. Steady'
    BY <1>1, <2>1 DEF Steady, Spacing, Switching
  <2>3. ASSUME pref # "none", Held # {}
        PROVE  \E i \in DOMAIN play' : Sounding(play'[i]) /\ play'[i].key = BestOf(Held)
    <3>1. table = Held /\ count # 0
      BY <1>1, <2>3 DEF SteadyInv, TableInv, HeldInv
    <3>2. ~Clears
      BY <3>1 DEF Clears
    <3>3. /\ new # << >> => new[1].key = BestOf(Held)
          /\ new = << >> => play # << >> /\ Sounding(play[1]) /\ play[1].key = BestOf(Held)
      BY <1>1, <2>3, <3>1 DEF SteadyInv, HeldInv
    <3>4. 1 \in DOMAIN play' /\ Sounding(play'[1]) /\ play'[1].key = BestOf(Held)
      BY <1>1, <2>3, <3>2, <3>3, HeadSounds
    <3> QED  BY <3>4
  <2>4. ASSUME pref = "none", down = {}, NEW i \in DOMAIN play' PROVE ~Sounding(play'[i])
    BY <1>1, <2>1, <2>2, <2>4 DEF SteadyInv, OwnKeyInv
  <2>5. ASSUME pref # "none", down = {}, ~pedal PROVE \A i \in DOMAIN play' : ~Sounding(play'[i])
    <3>1. /\ new = << >> /\ count = 0
          /\ extreme >= 0 \/ \A i \in DOMAIN play : ~Sounding(play[i])
      BY <1>1, <2>5 DEF SteadyInv, HeldInv
    <3>2. /\ play \in Seq(Voice) /\ DOMAIN play = 1 .. Len(play) /\ DOMAIN play' = DOMAIN play
          /\ \A i \in DOMAIN play : play'[i] = Ran(play, i)
      <4>1. Assembled = play
        BY <1>1, <3>1, AssembledProperties
      <4> QED  BY <1>1, <4>1, PeriodProperties, PlayFields
    <3>3. CASE \A i \in DOMAIN play : ~Sounding(play[i])
      BY <3>2, <3>3, RanSilent
    <3>4. CASE extreme >= 0
      <4>1. Clears
        BY <2>5, <3>1, <3>4 DEF Clears
      <4>2. ASSUME NEW i \in DOMAIN play PROVE ~Sounding(Ran(play, i))
        <5>1. CASE First(play, i)
          <6>1. "OFF" \in Ran(play, i).flags
            BY <3>2, <4>1, <5>1, RanProperties
          <6> QED  BY <6>1 DEF Sounding
        <5>2. CASE ~First(play, i)
          BY <3>2, <5>2, RanBehind
        <5> QED  BY <5>1, <5>2
      <4> QED  BY <3>2, <4>2
    <3> QED  BY <3>1, <3>3, <3>4
  <2> QED  BY <2>3, <2>4, <2>5
<1>2. TypeOK /\ SteadyInv /\ (TypeOK /\ SteadyInv)' /\ [Next]_vars =>
        [Steady /\ Period =>
           /\ pref # "none" /\ Held # {} =>
                 \E i \in DOMAIN play' : Sounding(play'[i]) /\ play'[i].key = BestOf(Held)
           /\ down = {} /\ ~pedal => \A i \in DOMAIN play' : ~Sounding(play'[i])]_vars
  BY <1>1
<1> QED  BY <1>2, SteadyHolds, PTL DEF Spec, PlaysHeldKeys

\* A note that sounds with the pedal down goes on: doAudioOps takes the last note
\* back only when the pedal is up.
THEOREM PedalKeepsNote == Spec => PedalHolds
<1>1. ASSUME TypeOK, SteadyInv, Steady, Period, pedal, pref # "none",
             NEW i \in DOMAIN play, Sounding(play[i])
      PROVE  \E j \in DOMAIN play' : Sounding(play'[j])
  <2>1. ~Clears
    BY <1>1 DEF Clears
  <2>2. i = 1 /\ play # << >>
    BY <1>1 DEF SteadyInv, HeldInv
  <2>3. 1 \in DOMAIN play' /\ Sounding(play'[1])
    BY <1>1, <2>1, <2>2, HeadSounds
  <2> QED  BY <2>3
<1>2. TypeOK /\ SteadyInv /\ [Next]_vars =>
        [(Steady /\ Period /\ pedal /\ pref # "none") =>
           \A i \in DOMAIN play : Sounding(play[i]) =>
              \E j \in DOMAIN play' : Sounding(play'[j])]_vars
  BY <1>1
<1> QED  BY <1>2, SteadyHolds, PTL DEF Spec, PedalHolds
=============================================================================
