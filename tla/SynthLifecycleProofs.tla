------------------------ MODULE SynthLifecycleProofs ------------------------
(***************************************************************************)
(* Proofs about SynthLifecycle: its types, that a GUI in the handshake     *)
(* waits for exactly one thing, or two once it has asked again, that what  *)
(* has been taken out of the list of emulators stays out of it, and that   *)
(* up to three GUIs find their own emulators with their sids and, if none  *)
(* dies, are served while they run.  The last three hold as long as no GUI *)
(* waits five seconds for an answer; what becomes of one that does is left *)
(* to model checking.                                                      *)
(***************************************************************************)
EXTENDS SynthLifecycle, FiniteSetTheorems, SequenceTheorems, WellFoundedInduction, TLAPS

(***************************************************************************)
(* The handshake.                                                          *)
(***************************************************************************)
Holding == {"marked", "emptying", "removing", "dying"}

\* The last requests of a GUI, which are sent without waiting; it may die before
\* the exit.
Chains == {<<"stop", "exit">>, <<"go", "stop">>, <<"go", "stop", "exit">>}

\* The first of them is read.
Unchained(s, op, t) == \/ s = <<"stop", "exit">> /\ op = "stop" /\ t = <<"exit">>
                       \/ s = <<"go", "stop">> /\ op = "go" /\ t = <<"stop">>
                       \/ s = <<"go", "stop", "exit">> /\ op = "go" /\ t = <<"stop", "exit">>

Shorter(s, t) == \E op : Unchained(s, op, t)

\* What a GUI sends when it leaves, whole and cut short by its death.
Farewells == {<<"stop", "exit">>, <<"go", "stop", "exit">>}
CutShort == {<<"stop">>, <<"go", "stop">>}

\* The exit is still to be read.
Leaving == {<<"exit">>} \cup Farewells

\* What may be under way for a GUI in each of its states, if none sends its
\* channel request twice.
InboxInv ==
    \A g \in Guis :
        /\ gui[g] = "off" => inbox[g] = <<>> /\ conn[g] = "none"
        /\ gui[g] \in Waiting => \/ inbox[g] = <<>>
                                 \/ inbox[g] = <<gui[g]>> /\ ack[g] = NoAck
        /\ gui[g] = "running" => inbox[g] = <<>> \/ inbox[g] = <<"go">>
        /\ gui[g] = "gone" => \/ inbox[g] = <<>> \/ inbox[g] \in Chains
                              \/ \E op \in Requests : inbox[g] = <<op>>
        /\ ack[g] # NoAck => gui[g] \in Waiting
        /\ gui[g] # "again"

\* Whom the MIDI thread is busy with.
BusyInv ==
    /\ midi.pc \in {"idle", "ended"} <=> midi.gui = Nil
    /\ midi.gui = Nil => midi.emu = Nil
    /\ midi.gui # Nil => ack[midi.gui] = NoAck
    /\ midi.gui # Nil /\ gui[midi.gui] \in Waiting => inbox[midi.gui] = <<>>
    /\ midi.gui # Nil => gui[midi.gui] # "off"
    /\ midi.pc = "hook" => midi.emu = midi.gui /\ gui[midi.gui] \in {"hello", "gone"}
    /\ midi.pc = "starting" => gui[midi.gui] \in {"start", "gone"}
    /\ midi.pc \in Holding => gui[midi.gui] = "gone" /\ midi.emu # Nil

\* The engine has taken a hello before it starts anything.
HelloInv ==
    ~eng.hello =>
        /\ eng.atStatus = "EXIT" \/ eng.terminate
        /\ "START" \notin eng.atReq
        /\ audio.pc = "none" /\ main # "spawning"
        /\ midi.gui = Nil
        /\ \A g \in Guis : ack[g] = NoAck /\ gui[g] \notin Waiting \ {"hello"}

\* A connection is counted from when it is accepted until it is lost.
Unlost == {g \in Guis : conn[g] \in {"open", "down"}}
CountInv ==
    /\ Cardinality({g \in Guis : conn[g] = "open"}) <= eng.opens
    /\ eng.opens <= Cardinality(Unlost)

\* A GUI in the handshake is owed something.
DueInv ==
    midi.pc # "ended" =>
        \A g \in Guis : gui[g] \in Waiting => inbox[g] # <<>> \/ ack[g] # NoAck \/ midi.gui = g

\* An emulator has its sid before it is linked.
HookInv == midi.pc = "hook" => emu[midi.emu].sid # NoSid

TurnInv == /\ Patient
           /\ TypeOK /\ CountInv /\ InboxInv /\ BusyInv /\ HelloInv /\ HookInv /\ DueInv

\* What may be under way for a GUI that may send its channel request twice: in the
\* handshake requests of the handshake, and never more than one of them too many.
Asks == {"hello", "channel", "start", "init"}
Queue(g) ==
    /\ gui[g] = "off" => inbox[g] = <<>> /\ ack[g] = NoAck
    /\ gui[g] \in Waiting => inbox[g] \in Seq(Asks)
    /\ gui[g] = "hello" => inbox[g] \in Seq({"hello"})
    /\ gui[g] = "running" => inbox[g] \in Seq(Asks \cup {"go"})
    /\ gui[g] \in {"hello", "channel"} => Underway(g) <= 1
    /\ gui[g] \in Waiting => Underway(g) <= 2
    /\ gui[g] \in Waiting /\ midi.pc # "ended" => Underway(g) >= 1
QueueInv == \A g \in Guis : Queue(g)

\* Whom the MIDI thread is busy with, whatever was sent twice.
IdleInv == /\ midi.pc \in {"idle", "ended"} <=> midi.gui = Nil
           /\ midi.pc \in Holding => gui[midi.gui] = "gone"

(***************************************************************************)
(* The list.                                                               *)
(***************************************************************************)
\* Nobody comes in between the two halves of a hook, or of a |= on the flags.
Whole == "mixflags" \notin Windows /\ "audiolist" \notin Windows

\* An emulator is listed once it is hooked, and until it is removed.
Hooking == IF midi.pc = "hook" THEN {midi.emu} ELSE {}
Listed == {b \in Guis : emu[b].life \in {"new", "ready"}} \ Hooking
Out == {"removed", "freed"}

\* p numbers the emulators of L from the head, and both links agree with it.
Numbered(L, p, e, head) ==
    /\ \A b, c \in L : p[b] = p[c] => b = c
    /\ \A b \in L : /\ e[b].next \in L \cup {Nil} /\ e[b].last \in L \cup {Nil}
                    /\ p[b] = 0 <=> head = b
                    /\ p[b] = 0 <=> e[b].last = Nil
    /\ \A b, c \in L : /\ e[b].next = c <=> p[c] = p[b] + 1
                       /\ e[c].last = b <=> p[c] = p[b] + 1

\* The list holds those that are listed; a new one is about to be its head.
ListInv ==
    /\ audiolist \in Listed \cup {Nil}
    /\ \E p \in [Listed -> 0 .. Cardinality(Listed) - 1] : Numbered(Listed, p, emu, audiolist)
    /\ midi.pc = "hook" =>
          emu[midi.emu].life = "new" /\ emu[midi.emu].last = Nil /\ emu[midi.emu].next = audiolist

\* An emulator is created by the one hello of its GUI, and keeps its sid.
SidInv ==
    \A g \in Guis :
        /\ emu[g].life # "none" => gui[g] # "off" /\ inbox[g] # <<"hello">>
        /\ gui[g] \in {"channel", "start", "init", "running"} => told[g] # NoSid
        /\ inbox[g] # <<>> => inbox[g] = <<"hello">> \/ told[g] # NoSid
        /\ told[g] # NoSid => emu[g].sid = told[g] /\ emu[g].life # "none" /\ g \notin Hooking
        /\ gui[g] = "hello" /\ ack[g] # NoAck =>
              emu[g].sid = ack[g] /\ emu[g].life # "none" /\ g \notin Hooking

\* The emulator being removed, by the MIDI thread and by the audio thread.
RemoveInv ==
    /\ midi.pc \in Holding \ {"dying"} =>
          "REMOVE" \in emu[midi.emu].flags \/ emu[midi.emu].life \in Out
    /\ audio.pc = "unlinked" => audio.emu # Nil /\ emu[audio.emu].life \in Out
    /\ audio.pc # "touch"
    /\ audio.pc \in {"none", "spawned", "opening", "awaiting"} =>
          \A g \in Guis : emu[g].life \notin Out

(***************************************************************************)
(* The audio thread runs for as long as the MIDI thread may remove         *)
(* emulators.                                                              *)
(***************************************************************************)
Playing == AudioRuns \/ audio.pc = "awaiting"
Over == \/ exited
        \/ eng.terminate
        \/ midi.pc \in {"dying", "ended"}
        \/ midi.pc = "starting" /\ audio.pc = "ended"

\* What each status, and each request, says of the threads.
StatusInv ==
    exited \/
    /\ eng.atStatus = "EXIT" => audio.pc \in {"none", "spawned", "ended"}
    /\ eng.atStatus = "WAIT" => audio.pc = "opening"
    /\ eng.atStatus = "OK" => Playing
    /\ eng.atStatus = "TERM" => AudioRuns \/ eng.terminate \/ midi.pc = "dying"
    /\ eng.atStatus = "FAIL" => eng.terminate \/ midi.pc \in {"starting", "ended"}
    /\ audio.pc \in {"spawned", "opening"} => midi.pc = "starting" /\ main = "spawning"
    /\ audio.pc = "spawned" => eng.atStatus = "EXIT"
    /\ audio.pc = "opening" => eng.atStatus = "WAIT"
    /\ audio.pc = "awaiting" => eng.atStatus = "OK" \/ Over
    /\ audio.pc = "ended" => Over
    /\ "START" \in eng.atReq /\ eng.atStatus = "EXIT" => midi.pc = "starting"
    /\ midi.pc = "starting" /\ eng.atStatus = "EXIT" => audio.pc \in {"none", "spawned"}
    /\ main = "spawning" /\ eng.atStatus = "FAIL" => midi.pc \in {"starting", "ended"}
    /\ eng.atReq = {"STOP"} =>
          \/ Jack
          \/ midi.pc \in {"dying", "ended"}
          \/ midi.pc = "idle" /\ eng.terminate

\* What GUI g is waiting for, or has asked for, comes after the start, or after
\* the initialisation, of the audio engine.
PastStart(g) == \/ gui[g] = "start" /\ ack[g] # NoAck
                \/ gui[g] \in {"init", "running"}
                \/ inbox[g] \notin {<<>>, <<"hello">>, <<"channel">>, <<"start">>}
PastInit(g) == \/ gui[g] = "init" /\ ack[g] # NoAck
               \/ gui[g] = "running"
               \/ inbox[g] \notin {<<>>, <<"hello">>, <<"channel">>, <<"start">>, <<"init">>}

\* Who comes that far finds the audio thread going, and so does who leaves.
PlayInv ==
    /\ \A g \in Guis : PastStart(g) => Playing \/ Over
    /\ \A g \in Guis : PastInit(g) => AudioWillRun \/ Over
    /\ midi.pc \in Holding \ {"dying"} => AudioWillRun \/ exited

WholeInv == ListInv /\ SidInv /\ RemoveInv /\ StatusInv /\ PlayInv
WholeIf == Whole => WholeInv

----------------------------------------------------------------------------
(***************************************************************************)
(* Walking the list.                                                       *)
(***************************************************************************)
N == Cardinality(Guis)

\* A set of numbers has a least one: what is shown for each number from those
\* before it is shown for all.
LEMMA Least ==
    ASSUME NEW S \in SUBSET Nat, S # {}
    PROVE  Min(S) \in S /\ \A n \in S : Min(S) <= n
<1> DEFINE T == {0 .. n : n \in S}
<1>1. T \subseteq FiniteSubsetsOf(Nat) /\ T # {}
  <2>1. \A n \in S : IsFiniteSet(0 .. n) /\ 0 .. n \subseteq Nat
    BY FS_Interval
  <2> QED  BY <2>1 DEF FiniteSubsetsOf
<1>2. \E x \in T : \A y \in T : ~(<<y, x>> \in StrictSubsetOrdering(Nat))
  <2> HIDE DEF T
  <2> QED  BY <1>1, WFMin, FS_StrictSubsetOrderingWellFounded
<1>3. PICK m \in S : \A n \in S : ~(<<0 .. n, 0 .. m>> \in StrictSubsetOrdering(Nat))
  BY <1>2
<1>4. \A n \in S : m <= n
  <2> SUFFICES ASSUME NEW n \in S, n < m PROVE FALSE
    OBVIOUS
  <2>1. 0 .. n \subseteq 0 .. m /\ 0 .. n # 0 .. m
    OBVIOUS
  <2>2. <<0 .. n, 0 .. m>> \in StrictSubsetOrdering(Nat)
    BY <2>1 DEF StrictSubsetOrdering
  <2> QED  BY <1>3, <2>2
<1> QED  BY <1>4 DEF Min

\* There is a finite number of GUIs.
LEMMA HowMany == N \in Nat
BY NilAssumption, FS_CardinalityType DEF N

\* The emulators are records: no step gives a field to what is none.
Emulators == [sid : Sids \cup {NoSid}, flags : Flags, next : Guis \cup {Nil},
              last : Guis \cup {Nil}, life : {"none", "new", "ready", "removed", "freed"}]
Links == emu \in [Guis -> Emulators] /\ audiolist \in Guis \cup {Nil}

\* Walk is what its definition says: each emulator leads to the next, or to the
\* end of the list (bristolgetsid, findBristolAudio).
LEMMA WalkIs ==
    ASSUME Links
    PROVE  /\ Walk[0] = audiolist
           /\ \A n \in 0 .. N : Walk[n] \in Guis \cup {Nil}
           /\ \A n \in 1 .. N : Walk[n] = IF Walk[n - 1] = Nil THEN Nil ELSE emu[Walk[n - 1]].next
<1> DEFINE After(x) == IF x = Nil THEN Nil ELSE emu[x].next
           Begins(f, m) == /\ f \in [0 .. N -> Guis \cup {Nil}]
                           /\ f[0] = audiolist
                           /\ \A n \in 1 .. m : f[n] = After(f[n - 1])
           Bad == {m \in 0 .. N : ~ \E f : Begins(f, m)}
<1>1. \A x \in Guis \cup {Nil} : After(x) \in Guis \cup {Nil}
  BY DEF Links, Emulators
<1> HIDE DEF After
<1>2. Bad = {}
  <2> SUFFICES ASSUME Bad # {} PROVE FALSE
    OBVIOUS
  <2>1. Bad \in SUBSET Nat
    BY HowMany
  <2>2. PICK m \in Bad : \A n \in Bad : m <= n
    <3> HIDE DEF Bad
    <3> QED  BY <2>1, Least
  <2>3. m \in 0 .. N /\ N \in Nat
    BY HowMany
  <2>4. CASE m = 0
    <3>1. Begins([n \in 0 .. N |-> audiolist], 0)
      BY HowMany DEF Links
    <3> QED  BY <3>1, <2>4
  <2>5. CASE m # 0
    <3>1. m - 1 \in 0 .. N /\ m - 1 \notin Bad
      <4>1. m - 1 \in 0 .. N /\ ~(m <= m - 1)
        BY <2>3, <2>5
      <4> HIDE DEF Bad
      <4> QED  BY <4>1, <2>2
    <3>2. PICK f : Begins(f, m - 1)
      BY <3>1
    <3> DEFINE g == [f EXCEPT ![m] = After(f[m - 1])]
    <3>3. g \in [0 .. N -> Guis \cup {Nil}]
      BY <3>2, <3>1, <2>3, <1>1
    <3>4. g[m] = After(f[m - 1]) /\ \A n \in 0 .. N : n # m => g[n] = f[n]
      BY <3>2, <2>3
    <3> HIDE DEF g
    <3>5. Begins(g, m)
      BY <3>2, <3>3, <3>4, <2>3, <2>5
    <3> QED  BY <3>5
  <2> QED  BY <2>4, <2>5
<1>3. N \in 0 .. N
  BY HowMany
<1>4. PICK f : Begins(f, N)
  <2> HIDE DEF Begins
  <2> QED  BY <1>2, <1>3
<1> DEFINE Step(w) == [n \in 0 .. N |-> IF n = 0 THEN audiolist
                                        ELSE IF w[n - 1] = Nil THEN Nil ELSE emu[w[n - 1]].next]
<1>5. f = Step(f)
  <2>1. f \in [0 .. N -> Guis \cup {Nil}] /\ f[0] = audiolist /\ \A n \in 1 .. N : f[n] = After(f[n - 1])
    BY <1>4
  <2>2. \A n \in 0 .. N : f[n] = Step(f)[n]
    BY <2>1, HowMany DEF After
  <2> QED  BY <2>1, <2>2
<1>6. Walk = CHOOSE w : w = Step(w)
  BY DEF Walk, N
<1>7. Walk = Step(Walk)
  <2> HIDE DEF Step
  <2> QED  BY <1>5, <1>6
<1>8. Walk[0] = audiolist /\ \A n \in 1 .. N : Walk[n] = After(Walk[n - 1])
  <2>1. \A n \in 0 .. N : Walk[n] = Step(Walk)[n]
    BY <1>7
  <2> QED  BY <2>1, HowMany DEF After
<1>9. \A n \in 0 .. N : Walk[n] \in Guis \cup {Nil}
  <2> DEFINE Odd == {n \in 0 .. N : Walk[n] \notin Guis \cup {Nil}}
  <2> SUFFICES ASSUME Odd # {} PROVE FALSE
    OBVIOUS
  <2>1. Odd \in SUBSET Nat
    BY HowMany
  <2>2. PICK m \in Odd : \A n \in Odd : m <= n
    <3> HIDE DEF Odd
    <3> QED  BY <2>1, Least
  <2>3. m # 0
    BY <1>8 DEF Links
  <2>4. m - 1 \in 0 .. N /\ m \in 1 .. N /\ ~(m <= m - 1)
    BY <2>3, HowMany
  <2>5. m - 1 \notin Odd
    <3> HIDE DEF Odd
    <3> QED  BY <2>2, <2>4
  <2> QED  BY <2>4, <2>5, <1>8, <1>1
<1> QED  BY <1>8, <1>9 DEF After

\* GetSid is what its definition says: each emulator that has the sid reached
\* behind it moves the count on (bristolgetsid).
LEMMA GetSidIs ==
    ASSUME Links
    PROVE  \A n \in 0 .. N :
               GetSid[n] = IF n = N \/ Walk[n] = Nil THEN 0
                           ELSE IF emu[Walk[n]].sid = GetSid[n + 1] THEN GetSid[n + 1] + 1
                           ELSE GetSid[n + 1]
<1> DEFINE Next1(n, s) == IF n = N \/ Walk[n] = Nil THEN 0
                          ELSE IF emu[Walk[n]].sid = s THEN s + 1 ELSE s
           Ends(f, m) == /\ f \in [0 .. N -> Int]
                         /\ \A n \in 0 .. N : n >= N - m => f[n] = Next1(n, f[n + 1])
           Bad == {m \in 0 .. N : ~ \E f : Ends(f, m)}
<1>1. \A n \in 0 .. N, s \in Int : Next1(n, s) \in Int
  OBVIOUS
<1>2. \A n \in 0 .. N, s \in Nat : Next1(n, s) \in Nat /\ Next1(n, s) <= s + 1
  OBVIOUS
<1>3. \A s : Next1(N, s) = 0
  OBVIOUS
<1> HIDE DEF Next1
<1>4. Bad = {}
  <2> SUFFICES ASSUME Bad # {} PROVE FALSE
    OBVIOUS
  <2>1. Bad \in SUBSET Nat
    BY HowMany
  <2>2. PICK m \in Bad : \A n \in Bad : m <= n
    <3> HIDE DEF Bad
    <3> QED  BY <2>1, Least
  <2>3. m \in 0 .. N /\ N \in Nat
    BY HowMany
  <2>4. CASE m = 0
    <3>1. Ends([n \in 0 .. N |-> 0], 0)
      BY <2>3, <1>3
    <3> QED  BY <3>1, <2>4
  <2>5. CASE m # 0
    <3>1. m - 1 \in 0 .. N /\ m - 1 \notin Bad
      <4>1. m - 1 \in 0 .. N /\ ~(m <= m - 1)
        BY <2>3, <2>5
      <4> HIDE DEF Bad
      <4> QED  BY <4>1, <2>2
    <3>2. PICK f : Ends(f, m - 1)
      BY <3>1
    <3> DEFINE g == [f EXCEPT ![N - m] = Next1(N - m, f[N - m + 1])]
    <3>3. N - m \in 0 .. N /\ N - m + 1 \in 0 .. N
      BY <2>3, <2>5
    <3>4. g \in [0 .. N -> Int]
      BY <3>2, <3>3, <1>1
    <3>5. g[N - m] = Next1(N - m, f[N - m + 1]) /\ \A n \in 0 .. N : n # N - m => g[n] = f[n]
      BY <3>2, <3>3
    <3> HIDE DEF g
    <3>6. ASSUME NEW n \in 0 .. N, n >= N - m PROVE g[n] = Next1(n, g[n + 1])
      <4>1. CASE n = N - m
        BY <4>1, <3>3, <3>5, <2>3
      <4>2. CASE n = N
        <5>1. n # N - m
          BY <4>2, <2>3, <2>5
        <5> QED  BY <5>1, <4>2, <3>2, <3>5, <1>3, <2>3
      <4>3. CASE n # N - m /\ n # N
        <5>1. n + 1 \in 0 .. N /\ n + 1 # N - m /\ n >= N - (m - 1)
          BY <4>3, <3>6, <2>3
        <5> QED  BY <5>1, <4>3, <3>2, <3>5
      <4> QED  BY <4>1, <4>2, <4>3
    <3>7. Ends(g, m)
      BY <3>4, <3>6
    <3> QED  BY <3>7
  <2> QED  BY <2>4, <2>5
<1>5. N \in 0 .. N
  BY HowMany
<1>6. PICK f : Ends(f, N)
  <2> HIDE DEF Ends
  <2> QED  BY <1>4, <1>5
<1> DEFINE Step(w) == [n \in 0 .. N |-> IF n = N \/ Walk[n] = Nil THEN 0
                                        ELSE IF emu[Walk[n]].sid = w[n + 1] THEN w[n + 1] + 1
                                        ELSE w[n + 1]]
<1>7. f = Step(f)
  <2>1. f \in [0 .. N -> Int] /\ \A n \in 0 .. N : f[n] = Next1(n, f[n + 1])
    BY <1>6, HowMany
  <2>2. \A n \in 0 .. N : f[n] = Step(f)[n]
    BY <2>1 DEF Next1
  <2> QED  BY <2>1, <2>2
<1>8. GetSid = CHOOSE w : w = Step(w)
  BY DEF GetSid, N
<1>9. GetSid = Step(GetSid)
  <2> HIDE DEF Step
  <2> QED  BY <1>7, <1>8
<1> QED
  <2>1. \A n \in 0 .. N : GetSid[n] = Step(GetSid)[n]
    BY <1>9
  <2> QED  BY <2>1

\* bristolgetsid returns a sid below or at the number of emulators.
LEMMA NewSidType == ASSUME Links PROVE NewSid \in Sids
<1>1. \A n \in 0 .. N : GetSid[n + 1] \in Nat =>
          GetSid[n] \in Nat /\ GetSid[n] <= GetSid[n + 1] + 1
  BY GetSidIs
<1>2. GetSid[N] = 0
  BY GetSidIs, HowMany
<1>3. \A m \in 0 .. N : GetSid[N - m] \in 0 .. m
  <2> DEFINE Odd == {m \in 0 .. N : GetSid[N - m] \notin 0 .. m}
  <2> SUFFICES ASSUME Odd # {} PROVE FALSE
    OBVIOUS
  <2>1. Odd \in SUBSET Nat
    BY HowMany
  <2>2. PICK m \in Odd : \A n \in Odd : m <= n
    <3> HIDE DEF Odd
    <3> QED  BY <2>1, Least
  <2>3. m \in 0 .. N /\ N \in Nat /\ GetSid[N - m] \notin 0 .. m
    BY HowMany
  <2>4. m # 0
    <3> SUFFICES ASSUME m = 0 PROVE FALSE
      OBVIOUS
    <3>1. N - m = N /\ GetSid[N] = 0
      BY <2>3, <1>2
    <3> QED  BY <3>1, <2>3
  <2>5. m - 1 \in 0 .. N /\ ~(m <= m - 1) /\ N - m \in 0 .. N /\ N - m + 1 = N - (m - 1)
    BY <2>3, <2>4
  <2>6. GetSid[N - (m - 1)] \in 0 .. m - 1
    <3>1. m - 1 \notin Odd
      <4> HIDE DEF Odd
      <4> QED  BY <2>2, <2>5
    <3> QED  BY <3>1, <2>5
  <2>7. GetSid[N - m] \in Nat /\ GetSid[N - m] <= GetSid[N - m + 1] + 1
    BY <2>5, <2>6, <1>1
  <2> QED  BY <2>7, <2>6, <2>5, <2>3
<1> QED  BY <1>3, HowMany DEF NewSid, Sids, N

\* findBristolAudio finds an emulator of the list, if there is one with that sid.
LEMMA FindProperties ==
    ASSUME Links, NEW sid
    PROVE  /\ Linked \subseteq Guis
           /\ Find(sid) \in Linked \cup {Nil}
           /\ Find(sid) # Nil => emu[Find(sid)].sid = sid
           /\ \A b \in Linked : emu[b].sid = sid => Find(sid) \in Linked
<1> DEFINE hits == {n \in 0 .. N - 1 : Walk[n] # Nil /\ emu[Walk[n]].sid = sid}
<1>1. hits \in SUBSET Nat
  BY HowMany
<1>2. Find(sid) = IF hits = {} THEN Nil ELSE Walk[Min(hits)]
  BY DEF Find, N
<1>3. hits # {} => Min(hits) \in hits
  <2> HIDE DEF hits
  <2> QED  BY <1>1, Least
<1>4. \A n \in 0 .. N - 1 : Walk[n] \in Guis \cup {Nil}
  BY WalkIs, HowMany
<1>5. Linked = {Walk[n] : n \in 0 .. N - 1} \ {Nil}
  BY DEF Linked, N
<1>6. hits # {} => Find(sid) \in Linked
  <2> SUFFICES ASSUME hits # {} PROVE Walk[Min(hits)] \in Linked
    BY <1>2
  <2>1. Min(hits) \in 0 .. N - 1 /\ Walk[Min(hits)] # Nil
    BY <1>3
  <2> HIDE DEF hits
  <2> QED  BY <2>1, <1>5
<1>7. hits = {} => Find(sid) = Nil
  BY <1>2
<1>8. ASSUME NEW b \in Linked, emu[b].sid = sid PROVE hits # {}
  BY <1>5, <1>8
<1>9. hits # {} => emu[Find(sid)].sid = sid
  <2> SUFFICES ASSUME hits # {} PROVE emu[Walk[Min(hits)]].sid = sid
    BY <1>2
  <2>1. Min(hits) \in hits
    BY <1>3
  <2> QED  BY <2>1
<1> HIDE DEF hits
<1> QED  BY <1>4, <1>5, <1>6, <1>7, <1>8, <1>9

\* The emulators have a Nil that is none of them.
LEMMA NilIsNone == Nil \notin Guis
BY NilAssumption

----------------------------------------------------------------------------
(***************************************************************************)
(* Types.                                                                  *)
(***************************************************************************)

\* The types of the list are among those of the variables.
LEMMA TypeLinks == TypeOK => Links
BY DEF TypeOK, Links, Emulators

\* The first request is taken, the others stay.
LEMMA HeadAndTail ==
    ASSUME NEW S, NEW s \in Seq(S), s # <<>>
    PROVE  Head(s) \in S /\ Tail(s) \in Seq(S) /\ Len(Tail(s)) = Len(s) - 1
OBVIOUS

\* Every request of the handshake has a place in it (initConnection).
LEMMA HandshakeSteps ==
    /\ Waiting = {"hello", "channel", "start", "init", "again"}
    /\ Requests = {"hello", "channel", "start", "init", "go", "stop", "exit"}
    /\ DOMAIN Handshake = 1 .. 4 /\ Len(Handshake) = 4
    /\ Handshake[1] = "hello" /\ Handshake[2] = "channel" /\ Handshake[3] = "start"
    /\ Handshake[4] = "init"
<1>1. DOMAIN Handshake = 1 .. 4
  BY DEF Handshake
<1>2. Range(Handshake) = {Handshake[1], Handshake[2], Handshake[3], Handshake[4]}
  BY <1>1 DEF Range
<1> QED  BY <1>1, <1>2 DEF Handshake, Requests, Waiting

\* The request that follows each answer (initConnection).
LEMMA AnsweredIs ==
    ASSUME NEW g, Answered(g)
    PROVE  \/ gui[g] = "hello" /\ gui' = [gui EXCEPT ![g] = "channel"] /\ Send(g, "channel")
              /\ told' = [told EXCEPT ![g] = ack[g]]
           \/ gui[g] \in {"channel", "again"} /\ gui' = [gui EXCEPT ![g] = "start"]
              /\ Send(g, "start") /\ told' = told
           \/ gui[g] = "start" /\ gui' = [gui EXCEPT ![g] = "init"] /\ Send(g, "init")
              /\ told' = told
           \/ gui[g] = "init" /\ gui' = [gui EXCEPT ![g] = "running"] /\ Send(g, "go")
              /\ told' = told
<1> DEFINE asked == IF gui[g] = "again" THEN "channel" ELSE gui[g]
<1> DEFINE step == CHOOSE i \in DOMAIN Handshake : Handshake[i] = asked
<1>1. gui[g] \in Waiting
  BY DEF Answered
<1>2. step \in 1 .. 4 /\ Handshake[step] = asked
  BY <1>1, HandshakeSteps
<1>3. /\ told' = IF gui[g] = "hello" THEN [told EXCEPT ![g] = ack[g]] ELSE told
      /\ IF step < 4
         THEN gui' = [gui EXCEPT ![g] = Handshake[step + 1]] /\ Send(g, Handshake[step + 1])
         ELSE gui' = [gui EXCEPT ![g] = "running"] /\ Send(g, "go")
  BY HandshakeSteps DEF Answered
<1> HIDE DEF step
<1>4. step = 1 \/ step = 2 \/ step = 3 \/ step = 4
  BY <1>2
<1> QED  BY <1>2, <1>3, <1>4, HandshakeSteps

----------------------------------------------------------------------------
(***************************************************************************)
(* Connections are counted right.                                          *)
(***************************************************************************)
Open == {g \in Guis : conn[g] = "open"}

\* There are finitely many connections of either kind.
LEMMA CountFinite ==
    /\ IsFiniteSet(Open) /\ Cardinality(Open) \in Nat /\ Cardinality(Open) <= N
    /\ IsFiniteSet(Unlost) /\ Cardinality(Unlost) \in Nat /\ Cardinality(Unlost) <= N
    /\ \A g \in Open : Cardinality(Open) >= 1
    /\ \A g \in Guis \ Unlost : Cardinality(Unlost) < N
<1>1. Open \subseteq Guis /\ Unlost \subseteq Guis
  BY DEF Open, Unlost
<1>2. IsFiniteSet(Open) /\ IsFiniteSet(Unlost) /\ IsFiniteSet(Guis)
  BY <1>1, NilAssumption, FS_Subset
<1>3. Cardinality(Open) <= N /\ Cardinality(Unlost) <= N
  BY <1>1, NilAssumption, FS_Subset DEF N
<1>4. Cardinality(Open) \in Nat /\ Cardinality(Unlost) \in Nat /\ N \in Nat
  BY <1>2, FS_CardinalityType DEF N
<1>5. ASSUME NEW g \in Open PROVE Cardinality(Open) >= 1
  <2>1. Cardinality(Open) # 0
    BY <1>2, <1>5, FS_EmptySet
  <2> QED  BY <2>1, <1>4
<1>6. ASSUME NEW g \in Guis \ Unlost PROVE Cardinality(Unlost) < N
  <2>1. Cardinality(Guis \ {g}) = N - 1 /\ IsFiniteSet(Guis \ {g})
    BY <1>2, <1>6, FS_RemoveElement DEF N
  <2>2. Unlost \subseteq Guis \ {g}
    BY <1>1, <1>6
  <2>3. Cardinality(Unlost) <= N - 1
    BY <2>1, <2>2, FS_Subset
  <2> QED  BY <2>3, <1>4
<1> QED  BY <1>2, <1>3, <1>4, <1>5, <1>6

\* A GUI that has not started has no connection and keeps nobody busy, and a new
\* emulator is that of the GUI whose hello it is.
EarlyInv == /\ \A g \in Guis : gui[g] = "off" => conn[g] = "none"
            /\ midi.gui # Nil => gui[midi.gui] # "off"
            /\ midi.pc = "hook" => midi.emu = midi.gui /\ midi.gui # Nil

\* No more connections are lost than were accepted (midiCheck).
LEMMA CountStep ==
    ASSUME TypeOK, EarlyInv, CountInv, [Next]_vars
    PROVE  CountInv' /\ eng'.opens \in 0 .. N
<1> USE DEF TypeOK
<1>1. conn \in [Guis -> {"none", "pending", "open", "down"}] /\ eng.opens \in 0 .. N
  BY DEF N
<1>2. Cardinality(Open) <= eng.opens /\ eng.opens <= Cardinality(Unlost)
  BY DEF CountInv, Open
<1>3. ASSUME Open' = Open, Unlost' = Unlost, eng'.opens = eng.opens
      PROVE  CountInv' /\ eng'.opens \in 0 .. N
  BY <1>1, <1>2, <1>3 DEF CountInv, Open
<1>4. ASSUME conn' = conn, eng'.opens = eng.opens
      PROVE  CountInv' /\ eng'.opens \in 0 .. N
  <2>1. Open' = Open /\ Unlost' = Unlost
    BY <1>4 DEF Open, Unlost
  <2> QED  BY <2>1, <1>4, <1>3
<1>5. ASSUME NEW g \in Guis, Start(g) PROVE CountInv' /\ eng'.opens \in 0 .. N
  <2>1. conn[g] = "none" /\ conn' = [conn EXCEPT ![g] = "pending"] /\ eng' = eng
    BY <1>5 DEF Start, EarlyInv
  <2>2. Open' = Open /\ Unlost' = Unlost
    BY <2>1, <1>1 DEF Open, Unlost
  <2> QED  BY <2>1, <2>2, <1>3
<1>6. ASSUME NEW g \in Guis, Accept(g) PROVE CountInv' /\ eng'.opens \in 0 .. N
  <2>1. conn[g] = "pending" /\ conn' = [conn EXCEPT ![g] = "open"] /\ eng'.opens = eng.opens + 1
    BY <1>6 DEF Accept, Opened
  <2>2. Open' = Open \cup {g} /\ Unlost' = Unlost \cup {g} /\ g \notin Unlost /\ g \notin Open
    BY <2>1, <1>1 DEF Open, Unlost
  <2>3. Cardinality(Open') = Cardinality(Open) + 1
    BY <2>2, CountFinite, FS_AddElement
  <2>4. Cardinality(Unlost') = Cardinality(Unlost) + 1
    BY <2>2, CountFinite, FS_AddElement
  <2>5. Cardinality(Unlost) < N
    BY <2>2, CountFinite
  <2> QED  BY <2>1, <2>3, <2>4, <2>5, <1>1, <1>2, CountFinite, HowMany DEF CountInv, Open
<1>7. ASSUME NEW g \in Guis, LostConnection(g) PROVE CountInv' /\ eng'.opens \in 0 .. N
  <2>1. conn[g] = "open" /\ conn' = [conn EXCEPT ![g] = "down"] /\ eng'.opens = eng.opens - 1
    BY <1>7 DEF LostConnection
  <2>2. Open' = Open \ {g} /\ Unlost' = Unlost /\ g \in Open
    BY <2>1, <1>1 DEF Open, Unlost
  <2>3. Cardinality(Open') = Cardinality(Open) - 1
    BY <2>2, CountFinite, FS_RemoveElement
  <2>4. Cardinality(Open) >= 1
    BY <2>2, CountFinite
  <2> QED  BY <2>1, <2>2, <2>3, <2>4, <1>1, <1>2, CountFinite, HowMany DEF CountInv, Open
<1>8. ASSUME FreeEmulator PROVE CountInv' /\ eng'.opens \in 0 .. N
  <2>1. conn' = [conn EXCEPT ![midi.gui] = "down"] /\ eng'.opens = eng.opens
    BY <1>8 DEF FreeEmulator, Resumed
  <2>2. Open' \subseteq Open /\ Unlost \subseteq Unlost'
    BY <2>1, <1>1 DEF Open, Unlost
  <2>3. Unlost' \subseteq Guis
    BY DEF Unlost
  <2>4. IsFiniteSet(Unlost')
    BY <2>3, NilAssumption, FS_Subset
  <2>5. Cardinality(Open') <= Cardinality(Open) /\ Cardinality(Open') \in Nat
    BY <2>2, CountFinite, FS_Subset, FS_CardinalityType
  <2>6. Cardinality(Unlost) <= Cardinality(Unlost') /\ Cardinality(Unlost') \in Nat
    BY <2>2, <2>4, FS_Subset, FS_CardinalityType
  <2> QED  BY <2>1, <2>5, <2>6, <1>1, <1>2, CountFinite DEF CountInv, Open
<1>9. ASSUME NEW g \in Guis, GuiNext(g) PROVE CountInv' /\ eng'.opens \in 0 .. N
  <2>1. ASSUME Answered(g) \/ Resend(g) \/ Quit(g) \/ Crash(g) PROVE conn' = conn /\ eng' = eng
    BY <2>1 DEF Answered, Resend, Quit, Crash
  <2> QED  BY <2>1, <1>4, <1>5, <1>9 DEF GuiNext
<1>10. ASSUME NEW g \in Guis, Handles(g) PROVE CountInv' /\ eng'.opens \in 0 .. N
  <2>1. ASSUME Hello(g) \/ Channel(g) \/ ReqStart(g) PROVE conn' = conn /\ eng'.opens = eng.opens
    BY <2>1 DEF Hello, Channel, ReqStart
  <2>2. ASSUME InitAlgo(g) PROVE conn' = conn /\ eng'.opens = eng.opens
    BY <2>2 DEF InitAlgo
  <2>3. ASSUME MidiGo(g) \/ MidiStop(g) \/ ExitAlgo(g) PROVE conn' = conn /\ eng'.opens = eng.opens
    BY <2>3 DEF MidiGo, MidiStop, ExitAlgo, Resumed
  <2> QED  BY <2>1, <2>2, <2>3, <1>4, <1>6, <1>7, <1>10 DEF Handles
<1>11. ASSUME NEW g \in Guis, AudioPeriod(g) \/ Touch(g) PROVE CountInv' /\ eng'.opens \in 0 .. N
  <2>1. conn' = conn /\ eng' = eng
    BY <1>11 DEF AudioPeriod, SenseExpires, Unlink, Touch, wire
  <2> QED  BY <2>1, <1>4
<1>12. ASSUME MidiContinues PROVE CountInv' /\ eng'.opens \in 0 .. N
  <2>1. ASSUME Hook \/ Started \/ CheckLast \/ MidiEnds PROVE conn' = conn /\ eng' = eng
    BY <2>1 DEF Hook, Started, CheckLast, MidiEnds, wire
  <2>2. ASSUME Shutdown \/ Terminate PROVE conn' = conn /\ eng'.opens = eng.opens
    BY <2>2 DEF Shutdown, Terminate, Stopped, wire
  <2> QED  BY <2>1, <2>2, <1>4, <1>8, <1>12 DEF MidiContinues
<1>13. ASSUME MainNext \/ Timeouts PROVE CountInv' /\ eng'.opens \in 0 .. N
  <2>1. conn' = conn /\ eng'.opens = eng.opens
    BY <1>13 DEF MainNext, Timeouts, MainSpawns, MainSeesAudio, MainLeaves, MainJoins,
       MainGivesUp, MainWatches, MainBites, JackGivesUp, Bites, wire
  <2> QED  BY <2>1, <1>4
<1>14. ASSUME AudioOpening \/ Forget \/ TouchBack \/ AudioStops
       PROVE  CountInv' /\ eng'.opens \in 0 .. N
  <2>1. conn' = conn /\ eng'.opens = eng.opens
    BY <1>14 DEF AudioOpening, AudioBegins, AudioOpens, AudioFails, JackActivates, Forget,
       TouchBack, AudioStops, wire
  <2> QED  BY <2>1, <1>4
<1>15. ASSUME UNCHANGED vars PROVE CountInv' /\ eng'.opens \in 0 .. N
  BY <1>15, <1>4 DEF vars, wire
<1> QED  BY <1>9, <1>10, <1>11, <1>12, <1>13, <1>14, <1>15 DEF Next

----------------------------------------------------------------------------
(***************************************************************************)
(* Types are kept.                                                         *)
(***************************************************************************)

\* What GUI, wire, list, engine and threads hold, apart from each other.
GuiTypes == /\ setup \in Setups
            /\ gui \in [Guis -> Waiting \cup {"off", "running", "gone"}]
            /\ told \in [Guis -> Sids \cup {NoSid}]
InboxTypes == inbox \in [Guis -> Seq(Requests)]
AckTypes == ack \in [Guis -> Sids \cup {NoAck}]
ConnTypes == conn \in [Guis -> {"none", "pending", "open", "down"}]
EngTypes == eng \in [atStatus : {"EXIT", "WAIT", "OK", "FAIL", "TERM"},
                     atReq : SUBSET {"START", "STOP"},
                     exitReq : BOOLEAN, terminate : BOOLEAN, audiowait : BOOLEAN,
                     hello : BOOLEAN, go : BOOLEAN, opens : 0 .. Cardinality(Guis)]
MidiTypes == midi \in [pc : Threads, gui : Guis \cup {Nil}, emu : Guis \cup {Nil}]
MainTypes == main \in {"loop", "spawning", "biting", "closing"} /\ exited \in BOOLEAN
AudioTypes == audio \in [pc : {"none", "spawned", "opening", "awaiting", "run", "unlinked", "touch",
                               "ended"}, emu : Guis \cup {Nil}, flags : Flags]

\* The types of the variables, by what changes them.
LEMMA TypeParts ==
    TypeOK <=> /\ GuiTypes /\ InboxTypes /\ AckTypes /\ ConnTypes /\ Links
               /\ EngTypes /\ MidiTypes /\ MainTypes /\ AudioTypes
BY DEF TypeOK, GuiTypes, InboxTypes, AckTypes, ConnTypes, Links, Emulators, EngTypes, MidiTypes,
   MainTypes, AudioTypes

\* How the engine was started is known (main).
LEMMA SetupTypes == TypeOK => Jack \in BOOLEAN /\ Server \in BOOLEAN
BY SetupAssumption DEF TypeOK, Jack, Server

\* Everything starts with its type (main).
LEMMA TypeInit == Init => TypeOK /\ CountInv
<1> SUFFICES ASSUME Init PROVE TypeOK /\ CountInv
  OBVIOUS
<1> USE DEF Init
<1>1. GuiTypes
  BY DEF GuiTypes
<1>2. InboxTypes
  BY DEF InboxTypes
<1>3. AckTypes /\ ConnTypes
  BY DEF AckTypes, ConnTypes
<1>4. Links
  BY DEF Links, Emulators, Flags
<1>5. EngTypes
  BY HowMany DEF EngTypes, N
<1>6. MidiTypes /\ MainTypes /\ AudioTypes
  BY DEF MidiTypes, MainTypes, AudioTypes, Threads, Flags
<1>7. Unlost = {} /\ {g \in Guis : conn[g] = "open"} = {}
  BY DEF Unlost
<1>8. CountInv
  <2>1. Cardinality(Unlost) = 0 /\ Cardinality({g \in Guis : conn[g] = "open"}) = 0
    BY <1>7, FS_EmptySet
  <2>2. eng.opens = 0
    OBVIOUS
  <2> QED  BY <2>1, <2>2 DEF CountInv
<1> QED  BY <1>1, <1>2, <1>3, <1>4, <1>5, <1>6, <1>8, TypeParts

\* A GUI is at some request or state (brighton).
LEMMA GuiTypesStep ==
    ASSUME TypeOK, [Next]_vars
    PROVE  GuiTypes'
<1> USE DEF GuiTypes
<1>1. GuiTypes /\ AckTypes
  BY TypeParts
<1>2. ASSUME UNCHANGED <<setup, guiVars>> PROVE GuiTypes'
  BY <1>1, <1>2 DEF guiVars
<1>3. ASSUME NEW g \in Guis, Start(g) \/ Resend(g) \/ Quit(g) \/ Crash(g) PROVE GuiTypes'
  BY <1>1, <1>3, HandshakeSteps DEF Start, Resend, Quit, Crash
<1>4. ASSUME NEW g \in Guis, Answered(g) PROVE GuiTypes'
  <2>1. ack[g] \in Sids
    BY <1>1, <1>4 DEF Answered, AckTypes
  <2>2. setup' = setup
    BY <1>4 DEF Answered
  <2> QED  BY <1>1, <1>4, <2>1, <2>2, AnsweredIs, HandshakeSteps
<1>5. ASSUME NEW g \in Guis, Handles(g) \/ AudioPeriod(g) \/ Touch(g) PROVE UNCHANGED <<setup, guiVars>>
  BY <1>5 DEF Handles, Accept, LostConnection, Hello, Channel, ReqStart, InitAlgo, MidiGo, MidiStop,
     ExitAlgo, AudioPeriod, SenseExpires, Unlink, Touch
<1>6. ASSUME MidiContinues PROVE UNCHANGED <<setup, guiVars>>
  BY <1>6 DEF MidiContinues, Hook, Started, CheckLast, FreeEmulator, Shutdown, Terminate, MidiEnds
<1>7. ASSUME MainNext \/ Timeouts PROVE UNCHANGED <<setup, guiVars>>
  BY <1>7 DEF MainNext, Timeouts, MainSpawns, MainSeesAudio, MainLeaves, MainJoins,
     MainGivesUp, MainWatches, MainBites, JackGivesUp
<1>8. ASSUME AudioOpening \/ Forget \/ TouchBack \/ AudioStops PROVE UNCHANGED <<setup, guiVars>>
  BY <1>8 DEF AudioOpening, AudioBegins, AudioOpens, AudioFails, JackActivates, Forget,
     TouchBack, AudioStops
<1>9. ASSUME UNCHANGED vars PROVE UNCHANGED <<setup, guiVars>>
  BY <1>9 DEF vars, guiVars
<1> QED  BY <1>2, <1>3, <1>4, <1>5, <1>6, <1>7, <1>8, <1>9 DEF Next, GuiNext

\* A connection carries requests (bristolMidiSendMsg).
LEMMA InboxTypesStep ==
    ASSUME TypeOK, [Next]_vars
    PROVE  InboxTypes'
<1> USE DEF InboxTypes
<1>1. InboxTypes
  BY TypeParts
<1>2. ASSUME inbox' = inbox PROVE InboxTypes'
  BY <1>1, <1>2
<1>3. ASSUME NEW g \in Guis, NEW op \in Requests, Send(g, op) PROVE InboxTypes'
  <2>1. Append(inbox[g], op) \in Seq(Requests)
    BY <1>1, <1>3
  <2> QED  BY <1>1, <1>3, <2>1 DEF Send
<1>4. ASSUME NEW g \in Guis, GuiNext(g) PROVE InboxTypes'
  <2>1. CASE Start(g) \/ Answered(g) \/ Resend(g)
    BY <2>1, <1>3, AnsweredIs, HandshakeSteps DEF Start, Resend
  <2>2. CASE Quit(g)
    <3>1. "stop" \in Requests /\ "exit" \in Requests
      BY HandshakeSteps
    <3>2. inbox[g] \o <<"stop", "exit">> \in Seq(Requests)
      BY <1>1, <3>1
    <3> QED  BY <1>1, <2>2, <3>2 DEF Quit
  <2>3. CASE Crash(g)
    BY <2>3, <1>2, <1>3, HandshakeSteps DEF Crash
  <2> QED  BY <1>4, <2>1, <2>2, <2>3 DEF GuiNext
<1>5. ASSUME NEW g \in Guis, NEW op, Reads(g, op) PROVE InboxTypes'
  <2>1. inbox[g] \in Seq(Requests) /\ inbox[g] # <<>> /\ inbox' = [inbox EXCEPT ![g] = Tail(@)]
    BY <1>1, <1>5 DEF Reads
  <2>2. Tail(inbox[g]) \in Seq(Requests)
    BY <2>1, HeadAndTail
  <2> QED  BY <1>1, <2>1, <2>2
<1>6. ASSUME NEW g \in Guis, Handles(g) PROVE InboxTypes'
  <2>1. ASSUME Accept(g) \/ LostConnection(g) PROVE inbox' = inbox
    BY <2>1 DEF Accept, LostConnection
  <2> QED  BY <1>6, <2>1, <1>2, <1>5 DEF Handles, Hello, Channel, ReqStart, InitAlgo, MidiGo, MidiStop, ExitAlgo
<1>7. ASSUME NEW g \in Guis, AudioPeriod(g) \/ Touch(g) PROVE inbox' = inbox
  BY <1>7 DEF AudioPeriod, SenseExpires, Unlink, Touch, wire
<1>8. ASSUME MidiContinues PROVE inbox' = inbox
  BY <1>8 DEF MidiContinues, Hook, Started, CheckLast, FreeEmulator, Shutdown, Terminate, MidiEnds, wire
<1>9. ASSUME MainNext \/ Timeouts PROVE inbox' = inbox
  BY <1>9 DEF MainNext, Timeouts, MainSpawns, MainSeesAudio, MainLeaves, MainJoins,
     MainGivesUp, MainWatches, MainBites, JackGivesUp, wire
<1>10. ASSUME AudioOpening \/ Forget \/ TouchBack \/ AudioStops PROVE inbox' = inbox
  BY <1>10 DEF AudioOpening, AudioBegins, AudioOpens, AudioFails, JackActivates, Forget,
     TouchBack, AudioStops, wire
<1>11. ASSUME UNCHANGED vars PROVE inbox' = inbox
  BY <1>11 DEF vars
<1> QED  BY <1>2, <1>4, <1>6, <1>7, <1>8, <1>9, <1>10, <1>11 DEF Next

\* An answer is a sid or nothing (bristolSystem, bristolMidiOption).
LEMMA AckTypesStep ==
    ASSUME TypeOK, EarlyInv, [Next]_vars
    PROVE  AckTypes' /\ ConnTypes'
<1> USE DEF AckTypes, ConnTypes
<1>1. AckTypes /\ ConnTypes /\ Links
  BY TypeParts
<1>2. ASSUME NEW g, NEW result \in Sids, Answer(g, result) PROVE AckTypes'
  BY <1>1, <1>2 DEF Answer
<1>3. 0 \in Sids
  BY HowMany DEF Sids, N
<1>4. ASSUME UNCHANGED wire PROVE AckTypes' /\ ConnTypes'
  BY <1>1, <1>4 DEF wire
<1>5. ASSUME NEW g \in Guis, GuiNext(g) PROVE AckTypes' /\ ConnTypes'
  BY <1>1, <1>5 DEF GuiNext, Start, Answered, Resend, Quit, Crash
<1>6. ASSUME NEW g \in Guis, Accept(g) \/ LostConnection(g) \/ Hello(g) \/ MidiGo(g) \/ MidiStop(g) \/ ExitAlgo(g)
      PROVE  AckTypes' /\ ConnTypes'
  BY <1>1, <1>6 DEF Accept, LostConnection, Hello, MidiGo, MidiStop, ExitAlgo
<1>7. ASSUME NEW g \in Guis, Channel(g) \/ ReqStart(g) \/ InitAlgo(g) PROVE AckTypes' /\ ConnTypes'
  <2>1. conn' = conn /\ (ack' = ack \/ Answer(g, 0))
    BY <1>7 DEF Channel, ReqStart, InitAlgo
  <2> QED  BY <2>1, <1>1, <1>2, <1>3
<1>8. ASSUME Hook PROVE AckTypes' /\ ConnTypes'
  <2>1. conn' = conn /\ (ack' = ack \/ Answer(midi.gui, emu[midi.emu].sid))
    BY <1>8 DEF Hook
  <2>2. midi.emu \in Guis
    <3>1. midi.emu = midi.gui /\ midi.gui # Nil
      BY <1>8 DEF Hook, EarlyInv
    <3> QED  BY <3>1, TypeParts DEF MidiTypes
  <2>3. emu[midi.emu].sid \in Sids \cup {NoSid}
    BY <2>2, <1>1 DEF Links, Emulators
  <2> QED  BY <2>1, <2>3, <1>1 DEF Answer, NoAck, NoSid
<1>9. ASSUME MidiContinues PROVE AckTypes' /\ ConnTypes'
  <2>1. ASSUME Started \/ FreeEmulator PROVE AckTypes' /\ ConnTypes'
    <3>1. Answer(midi.gui, 0) /\ (conn' = conn \/ conn' = [conn EXCEPT ![midi.gui] = "down"])
      BY <2>1 DEF Started, FreeEmulator
    <3> QED  BY <3>1, <1>1, <1>2, <1>3
  <2>2. ASSUME CheckLast \/ Shutdown \/ Terminate \/ MidiEnds PROVE UNCHANGED wire
    BY <2>2 DEF CheckLast, Shutdown, Terminate, MidiEnds
  <2> QED  BY <1>8, <1>9, <2>1, <2>2, <1>4 DEF MidiContinues
<1>10. ASSUME NEW g \in Guis, AudioPeriod(g) \/ Touch(g) PROVE UNCHANGED wire
  BY <1>10 DEF AudioPeriod, SenseExpires, Unlink, Touch
<1>11. ASSUME MainNext \/ Timeouts PROVE UNCHANGED wire
  BY <1>11 DEF MainNext, Timeouts, MainSpawns, MainSeesAudio, MainLeaves, MainJoins,
     MainGivesUp, MainWatches, MainBites, JackGivesUp
<1>12. ASSUME AudioOpening \/ Forget \/ TouchBack \/ AudioStops PROVE UNCHANGED wire
  BY <1>12 DEF AudioOpening, AudioBegins, AudioOpens, AudioFails, JackActivates, Forget,
     TouchBack, AudioStops
<1>13. ASSUME UNCHANGED vars PROVE UNCHANGED wire
  BY <1>13 DEF vars, wire
<1> QED  BY <1>4, <1>5, <1>6, <1>7, <1>9, <1>10, <1>11, <1>12, <1>13 DEF Next, Handles

\* The emulators are linked to each other and to nothing else.
LEMMA LinksStep ==
    ASSUME TypeOK, EarlyInv, [Next]_vars
    PROVE  Links'
<1> USE DEF Links
<1>1. Links /\ MidiTypes /\ AudioTypes
  BY TypeParts
<1>2. ASSUME UNCHANGED list PROVE Links'
  BY <1>1, <1>2 DEF list
<1>3. \A sid : Find(sid) \in Guis \cup {Nil}
  BY <1>1, FindProperties
<1>4. ASSUME NEW g \in Guis, Hello(g) PROVE Links'
  BY <1>1, <1>4, NewSidType DEF Hello, Emulators, Flags
<1>5. ASSUME NEW g \in Guis, InitAlgo(g) PROVE Links'
  <2>1. PICK b : emu' = emu \/ emu' = [emu EXCEPT ![b].flags = @ \ {"HOLDDOWN"}, ![b].life = "ready"]
    BY <1>5 DEF InitAlgo
  <2>2. audiolist' = audiolist
    BY <1>5 DEF InitAlgo
  <2> QED  BY <2>1, <2>2, <1>1 DEF Emulators, Flags
<1>6. ASSUME NEW g \in Guis, ExitAlgo(g) PROVE Links'
  <2>1. PICK b : emu' = emu \/ emu' = [emu EXCEPT ![b].flags = {"HOLDDOWN", "REMOVE"}]
    BY <1>6 DEF ExitAlgo
  <2>2. audiolist' = audiolist
    BY <1>6 DEF ExitAlgo
  <2> QED  BY <2>1, <2>2, <1>1 DEF Emulators, Flags
<1>7. ASSUME NEW g \in Guis, Handles(g) PROVE Links'
  <2>1. ASSUME Accept(g) \/ LostConnection(g) \/ Channel(g) \/ ReqStart(g) \/ MidiGo(g) \/ MidiStop(g)
        PROVE  UNCHANGED list
    BY <2>1 DEF Accept, LostConnection, Channel, ReqStart, MidiGo, MidiStop
  <2> QED  BY <1>2, <1>4, <1>5, <1>6, <1>7, <2>1 DEF Handles
<1>8. ASSUME Hook PROVE Links'
  <2>1. midi.emu = midi.gui /\ midi.gui # Nil
    BY <1>8 DEF Hook, EarlyInv
  <2>2. midi.emu \in Guis /\ audiolist' = midi.emu
    BY <1>1, <2>1, <1>8 DEF MidiTypes, Hook
  <2>3. emu' = emu \/ emu' = [emu EXCEPT ![audiolist].last = midi.emu]
    BY <1>8 DEF Hook
  <2> QED  BY <2>2, <2>3, <1>1 DEF Emulators
<1>9. ASSUME MidiContinues PROVE Links'
  <2>1. ASSUME FreeEmulator PROVE Links'
    <3>1. emu' = [emu EXCEPT ![midi.emu].life = "freed"] /\ audiolist' = audiolist
      BY <2>1 DEF FreeEmulator
    <3> QED  BY <3>1, <1>1 DEF Emulators
  <2>2. ASSUME Started \/ CheckLast \/ Shutdown \/ Terminate \/ MidiEnds PROVE UNCHANGED list
    BY <2>2 DEF Started, CheckLast, Shutdown, Terminate, MidiEnds
  <2> QED  BY <1>2, <1>8, <1>9, <2>1, <2>2 DEF MidiContinues
<1>10. ASSUME NEW b \in Guis, Unlink(b) PROVE Links'
  <2>1. Bypassed(b) \in [Guis -> Emulators]
    BY <1>1 DEF Bypassed, Emulators
  <2>2. PICK e \in [Guis -> Emulators] :
            emu' = [e EXCEPT ![b].flags = @ \cup {"HOLDDOWN"}, ![b].life = "removed"]
    BY <2>1, <1>10 DEF Unlink
  <2>3. audiolist' \in Guis \cup {Nil}
    BY <1>10, <1>1 DEF Unlink, Emulators
  <2>4. e[b] \in Emulators
    BY <2>2
  <2>5. [e[b] EXCEPT !.flags = @ \cup {"HOLDDOWN"}, !.life = "removed"] \in Emulators
    BY <2>4 DEF Emulators, Flags
  <2>6. emu' = [e EXCEPT ![b] = [e[b] EXCEPT !.flags = @ \cup {"HOLDDOWN"}, !.life = "removed"]]
    BY <2>2
  <2>7. emu' \in [Guis -> Emulators]
    BY <2>2, <2>5, <2>6
  <2> QED  BY <2>3, <2>7
<1>11. ASSUME NEW b \in Guis, AudioPeriod(b) \/ Touch(b) PROVE Links'
  <2>1. ASSUME SenseExpires(b) PROVE Links'
    <3>1. emu' = [emu EXCEPT ![b].flags = @ \cup {"REMOVE"}] /\ audiolist' = audiolist
      BY <2>1 DEF SenseExpires
    <3> QED  BY <3>1, <1>1 DEF Emulators, Flags
  <2>2. ASSUME Touch(b) PROVE UNCHANGED list
    BY <2>2 DEF Touch
  <2> QED  BY <1>2, <1>10, <1>11, <2>1, <2>2 DEF AudioPeriod
<1>12. ASSUME MainNext \/ Timeouts PROVE UNCHANGED list
  BY <1>12 DEF MainNext, Timeouts, MainSpawns, MainSeesAudio, MainLeaves, MainJoins,
     MainGivesUp, MainWatches, MainBites, JackGivesUp
<1>13. ASSUME Forget \/ TouchBack PROVE Links'
  <2>1. \/ emu' = [emu EXCEPT ![audio.emu].flags = @ \ {"REMOVE"}]
        \/ emu' = [emu EXCEPT ![audio.emu].flags = audio.flags]
    BY <1>13 DEF Forget, TouchBack
  <2>2. audiolist' = audiolist
    BY <1>13 DEF Forget, TouchBack
  <2>3. audio.flags \in Flags
    BY <1>1 DEF AudioTypes
  <2> QED  BY <2>1, <2>2, <2>3, <1>1 DEF Emulators, Flags
<1>14. ASSUME AudioOpening \/ AudioStops PROVE UNCHANGED list
  BY <1>14 DEF AudioOpening, AudioBegins, AudioOpens, AudioFails, JackActivates, AudioStops
<1>15. ASSUME UNCHANGED vars PROVE UNCHANGED list
  BY <1>15 DEF vars, list
<1> QED  BY <1>2, <1>7, <1>9, <1>11, <1>12, <1>13, <1>14, <1>15 DEF Next, GuiNext, Start,
         Answered, Resend, Quit, Crash

\* What all threads know of the engine, and where each thread is.
LEMMA ThreadTypesStep ==
    ASSUME TypeOK, EarlyInv, eng'.opens \in 0 .. N, [Next]_vars
    PROVE  EngTypes' /\ MidiTypes' /\ MainTypes' /\ AudioTypes'
<1>1. EngTypes /\ MidiTypes /\ MainTypes /\ AudioTypes /\ Links
  BY TypeParts
<1>2. ASSUME UNCHANGED <<eng, midi, main, exited, audio>>
      PROVE  EngTypes' /\ MidiTypes' /\ MainTypes' /\ AudioTypes'
  BY <1>1, <1>2 DEF EngTypes, MidiTypes, MainTypes, AudioTypes
<1>3. \A sid : Find(sid) \in Guis \cup {Nil}
  BY <1>1, FindProperties
<1>4. ASSUME NEW g \in Guis, Accept(g) \/ LostConnection(g) \/ MidiGo(g) \/ MidiStop(g)
      PROVE  EngTypes' /\ MidiTypes' /\ MainTypes' /\ AudioTypes'
  <2>1. UNCHANGED <<midi, main, audio>> /\ exited' \in BOOLEAN
    BY <1>1, <1>4 DEF Accept, LostConnection, MidiGo, MidiStop, MainTypes
  <2>2. EngTypes'
    BY <1>1, <1>4 DEF Accept, LostConnection, MidiGo, MidiStop, EngTypes, Opened, Resumed, N
  <2> QED  BY <1>1, <2>1, <2>2 DEF MidiTypes, MainTypes, AudioTypes
<1>5. ASSUME NEW g \in Guis, Hello(g) PROVE EngTypes' /\ MidiTypes' /\ MainTypes' /\ AudioTypes'
  BY <1>1, <1>5 DEF Hello, To, EngTypes, MidiTypes, MainTypes, AudioTypes, Threads
<1>6. ASSUME NEW g \in Guis, ReqStart(g) PROVE EngTypes' /\ MidiTypes' /\ MainTypes' /\ AudioTypes'
  BY <1>1, <1>6 DEF ReqStart, Requested, To, EngTypes, MidiTypes, MainTypes, AudioTypes, Threads
<1>7. ASSUME NEW g \in Guis, InitAlgo(g) PROVE EngTypes' /\ MidiTypes' /\ MainTypes' /\ AudioTypes'
  <2>1. eng' = eng \/ eng' = [eng EXCEPT !.audiowait = FALSE]
    BY <1>7 DEF InitAlgo
  <2>2. UNCHANGED <<midi, main, audio, exited>>
    BY <1>7 DEF InitAlgo
  <2> QED  BY <1>1, <2>1, <2>2 DEF EngTypes, MidiTypes, MainTypes, AudioTypes
<1>8. ASSUME NEW g \in Guis, ExitAlgo(g) PROVE EngTypes' /\ MidiTypes' /\ MainTypes' /\ AudioTypes'
  <2>1. eng' = eng \/ eng' = [eng EXCEPT !.go = FALSE]
    BY <1>8 DEF ExitAlgo
  <2>2. midi' = midi \/ To("marked", g, Find(told[g]))
    BY <1>8 DEF ExitAlgo
  <2>3. UNCHANGED <<main, audio, exited>>
    BY <1>8 DEF ExitAlgo
  <2>4. EngTypes'
    BY <1>1, <2>1 DEF EngTypes
  <2>5. MidiTypes'
    BY <1>1, <1>3, <2>2 DEF To, MidiTypes, Threads
  <2> QED  BY <1>1, <2>3, <2>4, <2>5 DEF MainTypes, AudioTypes
<1>9. ASSUME NEW g \in Guis, Handles(g) PROVE EngTypes' /\ MidiTypes' /\ MainTypes' /\ AudioTypes'
  <2>1. ASSUME Channel(g) PROVE UNCHANGED <<eng, midi, main, exited, audio>>
    BY <2>1 DEF Channel
  <2> QED  BY <1>2, <1>4, <1>5, <1>6, <1>7, <1>8, <1>9, <2>1 DEF Handles
<1>10. ASSUME MidiContinues PROVE EngTypes' /\ MidiTypes' /\ MainTypes' /\ AudioTypes'
  <2>1. UNCHANGED <<main, audio, exited>>
    BY <1>10 DEF MidiContinues, Hook, Started, CheckLast, FreeEmulator, Shutdown, Terminate, MidiEnds
  <2>2. MidiTypes'
    BY <1>1, <1>10 DEF MidiContinues, Hook, Started, CheckLast, FreeEmulator, Shutdown, Terminate,
       MidiEnds, Idle, To, MidiTypes, Threads
  <2>3. \/ eng' = eng
        \/ eng' = [eng EXCEPT !.go = TRUE]
        \/ eng' = [eng EXCEPT !.terminate = TRUE, !.go = FALSE]
        \/ eng' = [eng EXCEPT !.atStatus = "TERM", !.go = FALSE, !.atReq = {"STOP"}, !.exitReq = TRUE]
    <3>1. ASSUME Shutdown
          PROVE  eng' = [eng EXCEPT !.atStatus = "TERM", !.go = FALSE, !.atReq = {"STOP"}, !.exitReq = TRUE]
      BY <3>1 DEF Shutdown, Stopped
    <3> QED  BY <3>1, <1>10 DEF MidiContinues, Hook, Started, CheckLast, FreeEmulator, Terminate,
             MidiEnds, Resumed
  <2>4. EngTypes'
    <3>1. CASE eng' = [eng EXCEPT !.atStatus = "TERM", !.go = FALSE, !.atReq = {"STOP"}, !.exitReq = TRUE]
      <4>1. {"STOP"} \in SUBSET {"START", "STOP"}
        OBVIOUS
      <4> QED  BY <1>1, <3>1, <4>1 DEF EngTypes
    <3> QED  BY <1>1, <2>3, <3>1 DEF EngTypes
  <2> QED  BY <1>1, <2>1, <2>2, <2>4 DEF MainTypes, AudioTypes
<1>11. ASSUME MainNext \/ Timeouts PROVE EngTypes' /\ MidiTypes' /\ MainTypes' /\ AudioTypes'
  <2>1. EngTypes'
    <3>1. \/ eng' = eng
          \/ eng' = [eng EXCEPT !.atReq = {"STOP"}]
          \/ eng' = [eng EXCEPT !.atStatus = "FAIL", !.terminate = TRUE, !.go = FALSE]
      BY <1>11 DEF MainNext, Timeouts, MainSpawns, MainSeesAudio, MainLeaves, MainJoins,
         MainGivesUp, MainWatches, MainBites, JackGivesUp, Bites
    <3> QED  BY <1>1, <3>1 DEF EngTypes
  <2>2. MidiTypes'
    BY <1>1, <1>11 DEF MainNext, Timeouts, MainSpawns, MainSeesAudio, MainLeaves, MainJoins,
       MainGivesUp, MainWatches, MainBites, JackGivesUp, CancelMidi, To, MidiTypes, Threads
  <2>3. MainTypes'
    BY <1>1, <1>11 DEF MainNext, Timeouts, MainSpawns, MainSeesAudio, MainLeaves, MainJoins,
       MainGivesUp, MainWatches, MainBites, JackGivesUp, Bites, MainTypes
  <2>4. AudioTypes'
    BY <1>1, <1>11 DEF MainNext, Timeouts, MainSpawns, MainSeesAudio, MainLeaves, MainJoins,
       MainGivesUp, MainWatches, MainBites, JackGivesUp, AudioTypes
  <2> QED  BY <2>1, <2>2, <2>3, <2>4
<1>12. ASSUME AudioOpening \/ AudioStops PROVE EngTypes' /\ MidiTypes' /\ MainTypes' /\ AudioTypes'
  <2>1. EngTypes'
    <3>1. \/ eng' = eng
          \/ \E s \in {"WAIT", "FAIL", "EXIT"} : eng' = [eng EXCEPT !.atStatus = s]
          \/ eng' = [eng EXCEPT !.atStatus = "OK", !.audiowait = Jack]
      BY <1>12 DEF AudioOpening, AudioBegins, AudioOpens, AudioFails, JackActivates, AudioStops
    <3> QED  BY <1>1, <3>1, SetupTypes DEF EngTypes
  <2>2. AudioTypes'
    <3>1. \/ audio' = audio
          \/ \E pc \in {"opening", "awaiting", "run", "ended"} : audio' = [audio EXCEPT !.pc = pc]
      BY <1>12 DEF AudioOpening, AudioBegins, AudioOpens, AudioFails, JackActivates, AudioStops
    <3> QED  BY <1>1, <3>1 DEF AudioTypes
  <2>3. midi' = midi /\ main' = main
    BY <1>12 DEF AudioOpening, AudioBegins, AudioOpens, AudioFails, JackActivates, AudioStops
  <2>4. exited' \in BOOLEAN
    BY <1>1, <1>12, SetupTypes DEF AudioOpening, AudioBegins, AudioOpens, AudioFails, JackActivates,
       AudioStops, MainTypes
  <2> QED  BY <1>1, <2>1, <2>2, <2>3, <2>4 DEF MidiTypes, MainTypes
<1>13. ASSUME Forget \/ TouchBack PROVE EngTypes' /\ MidiTypes' /\ MainTypes' /\ AudioTypes'
  <2>1. EngTypes'
    BY <1>1, <1>13 DEF Forget, TouchBack, EngTypes
  <2>2. AudioTypes'
    <3>1. \/ audio' = [audio EXCEPT !.pc = "run", !.emu = Nil]
          \/ audio' = [pc |-> "run", emu |-> Nil, flags |-> {}]
      BY <1>13 DEF Forget, TouchBack
    <3>2. {} \in Flags
      BY DEF Flags
    <3>3. CASE audio' = [audio EXCEPT !.pc = "run", !.emu = Nil]
      BY <1>1, <3>3 DEF AudioTypes
    <3>4. CASE audio' = [pc |-> "run", emu |-> Nil, flags |-> {}]
      BY <3>2, <3>4 DEF AudioTypes
    <3> QED  BY <3>1, <3>3, <3>4
  <2>3. UNCHANGED <<midi, main, exited>>
    BY <1>13 DEF Forget, TouchBack
  <2> QED  BY <1>1, <2>1, <2>2, <2>3 DEF MidiTypes, MainTypes
<1>14. ASSUME NEW b \in Guis, AudioPeriod(b) \/ Touch(b)
       PROVE  EngTypes' /\ MidiTypes' /\ MainTypes' /\ AudioTypes'
  <2>1. AudioTypes'
    <3>1. emu[b].flags \in Flags
      BY <1>1 DEF Links, Emulators
    <3>2. \/ audio' = audio
          \/ audio' = [audio EXCEPT !.pc = "unlinked", !.emu = b]
          \/ audio' = [pc |-> "touch", emu |-> b, flags |-> emu[b].flags]
      BY <1>14 DEF AudioPeriod, SenseExpires, Unlink, Touch
    <3>3. CASE audio' = [audio EXCEPT !.pc = "unlinked", !.emu = b]
      BY <1>1, <3>3 DEF AudioTypes
    <3>4. CASE audio' = [pc |-> "touch", emu |-> b, flags |-> emu[b].flags]
      BY <3>1, <3>4 DEF AudioTypes
    <3> QED  BY <1>1, <3>2, <3>3, <3>4 DEF AudioTypes
  <2>2. UNCHANGED <<eng, midi, main, exited>>
    BY <1>14 DEF AudioPeriod, SenseExpires, Unlink, Touch
  <2> QED  BY <1>1, <2>1, <2>2 DEF EngTypes, MidiTypes, MainTypes
<1>15. ASSUME UNCHANGED vars PROVE UNCHANGED <<eng, midi, main, exited, audio>>
  BY <1>15 DEF vars
<1>16. ASSUME NEW g \in Guis, GuiNext(g) PROVE UNCHANGED <<eng, midi, main, exited, audio>>
  BY <1>16 DEF GuiNext, Start, Answered, Resend, Quit, Crash
<1> QED  BY <1>2, <1>9, <1>10, <1>11, <1>12, <1>13, <1>14, <1>15, <1>16 DEF Next

----------------------------------------------------------------------------
(***************************************************************************)
(* One thing at a time.                                                    *)
(***************************************************************************)

\* What a GUI has sent tells what it is at, and the MIDI thread that reads it
\* is busy with nobody (midiCheck, bristolSystem).
LEMMA ReadFacts ==
    ASSUME TypeOK, InboxInv, BusyInv, NEW g \in Guis, NEW op, Reads(g, op)
    PROVE  /\ inbox' = [inbox EXCEPT ![g] = Tail(inbox[g])] /\ inbox'[g] = Tail(inbox[g])
           /\ gui[g] # "off" /\ ack[g] = NoAck /\ inbox[g] # <<>> /\ op = Head(inbox[g])
           /\ gui[g] \in Waiting => op = gui[g] /\ inbox[g] = <<op>> /\ inbox'[g] = <<>>
           /\ gui[g] = "running" => op = "go" /\ inbox[g] = <<op>> /\ inbox'[g] = <<>>
           /\ gui[g] = "gone" =>
                 \/ inbox[g] = <<op>> /\ op \in Requests /\ inbox'[g] = <<>>
                 \/ Unchained(inbox[g], op, inbox'[g])
           /\ midi.pc = "idle" /\ midi.gui = Nil /\ ~eng.terminate /\ ~exited
           /\ conn[g] = "open"
<1>1. inbox \in [Guis -> Seq(Requests)] /\ gui[g] \in Waiting \cup {"off", "running", "gone"}
  BY DEF TypeOK
<1>2. /\ inbox[g] # <<>> /\ op = Head(inbox[g]) /\ inbox' = [inbox EXCEPT ![g] = Tail(inbox[g])]
      /\ midi.pc = "idle" /\ ~eng.terminate /\ ~exited /\ conn[g] = "open"
  BY DEF Reads, Selects, MidiMay
<1>3. inbox'[g] = Tail(inbox[g])
  BY <1>1, <1>2
<1>4. midi.gui = Nil
  BY <1>2 DEF BusyInv
<1>5. \A r : Head(<<r>>) = r /\ Tail(<<r>>) = <<>>
  OBVIOUS
<1>6. /\ Head(<<"stop", "exit">>) = "stop" /\ Tail(<<"stop", "exit">>) = <<"exit">>
      /\ Head(<<"go", "stop">>) = "go" /\ Tail(<<"go", "stop">>) = <<"stop">>
      /\ Head(<<"go", "stop", "exit">>) = "go"
      /\ Tail(<<"go", "stop", "exit">>) = <<"stop", "exit">>
  OBVIOUS
<1>7. ASSUME NEW r, inbox[g] = <<r>> PROVE inbox[g] = <<op>> /\ op = r /\ inbox'[g] = <<>>
  <2> HIDE <1>1
  <2> QED  BY <1>2, <1>3, <1>5, <1>7, Zenon
<1>8. ASSUME inbox[g] \in Chains PROVE Unchained(inbox[g], op, inbox'[g])
  <2> HIDE <1>1
  <2>1. \/ inbox[g] = <<"stop", "exit">> \/ inbox[g] = <<"go", "stop">>
        \/ inbox[g] = <<"go", "stop", "exit">>
    BY <1>8 DEF Chains
  <2>2. ASSUME inbox[g] = <<"stop", "exit">> PROVE op = "stop" /\ inbox'[g] = <<"exit">>
    BY <1>2, <1>3, <1>6, <2>2, Zenon
  <2>3. ASSUME inbox[g] = <<"go", "stop">> PROVE op = "go" /\ inbox'[g] = <<"stop">>
    BY <1>2, <1>3, <1>6, <2>3, Zenon
  <2>4. ASSUME inbox[g] = <<"go", "stop", "exit">> PROVE op = "go" /\ inbox'[g] = <<"stop", "exit">>
    BY <1>2, <1>3, <1>6, <2>4, Zenon
  <2> QED  BY <2>1, <2>2, <2>3, <2>4, Zenon DEF Unchained
<1>9. CASE gui[g] \in Waiting
  <2>1. inbox[g] = <<gui[g]>> /\ ack[g] = NoAck
    BY <1>9, <1>2 DEF InboxInv
  <2> QED  BY <1>2, <1>3, <1>4, <1>7, <1>9, <2>1, HandshakeSteps
<1>10. CASE gui[g] \notin Waiting
  <2>1. ack[g] = NoAck /\ gui[g] # "off"
    BY <1>2, <1>10 DEF InboxInv
  <2>2. ASSUME gui[g] = "running" PROVE op = "go" /\ inbox[g] = <<op>> /\ inbox'[g] = <<>>
    <3>1. inbox[g] = <<"go">>
      BY <2>2, <1>2 DEF InboxInv
    <3> QED  BY <3>1, <1>7
  <2>3. ASSUME gui[g] = "gone"
        PROVE  \/ inbox[g] = <<op>> /\ op \in Requests /\ inbox'[g] = <<>>
               \/ Unchained(inbox[g], op, inbox'[g])
    <3>1. CASE inbox[g] \in Chains
      BY <3>1, <1>8
    <3>2. CASE \E r \in Requests : inbox[g] = <<r>>
      BY <3>2, <1>7
    <3> QED  BY <2>3, <3>1, <3>2, <1>2 DEF InboxInv
  <2> QED  BY <1>2, <1>3, <1>4, <1>10, <2>1, <2>2, <2>3
<1> QED  BY <1>9, <1>10

\* Steps that neither send, read nor answer.
LEMMA InboxKept ==
    ASSUME InboxInv, UNCHANGED <<gui, inbox, ack>>,
           \A g \in Guis : gui[g] = "off" => conn'[g] = conn[g]
    PROVE  InboxInv'
BY DEF InboxInv

\* A request is read, and may be answered (bristolSystem).
LEMMA InboxRead ==
    ASSUME TypeOK, InboxInv, BusyInv, NEW g \in Guis, NEW op, Reads(g, op), gui' = gui,
           conn' = conn, ack' = ack \/ Answer(g, 0), op = "go" => ack' = ack
    PROVE  InboxInv'
<1> SUFFICES ASSUME NEW h \in Guis
             PROVE  /\ gui'[h] = "off" => inbox'[h] = <<>> /\ conn'[h] = "none"
                    /\ gui'[h] \in Waiting => \/ inbox'[h] = <<>>
                                              \/ inbox'[h] = <<gui'[h]>> /\ ack'[h] = NoAck
                    /\ gui'[h] = "running" => inbox'[h] = <<>> \/ inbox'[h] = <<"go">>
                    /\ gui'[h] = "gone" => \/ inbox'[h] = <<>> \/ inbox'[h] \in Chains
                                           \/ \E r \in Requests : inbox'[h] = <<r>>
                    /\ ack'[h] # NoAck => gui'[h] \in Waiting
                    /\ gui'[h] # "again"
  BY DEF InboxInv
<1>1. inbox \in [Guis -> Seq(Requests)] /\ ack \in [Guis -> Sids \cup {NoAck}]
  BY DEF TypeOK
<1>2. CASE h # g
  <2>1. inbox'[h] = inbox[h] /\ ack'[h] = ack[h]
    BY <1>1, <1>2, ReadFacts DEF Answer
  <2> QED  BY <2>1 DEF InboxInv
<1>3. CASE h = g
  <2>1. gui[g] \in Waiting \cup {"running", "gone"}
    BY ReadFacts DEF TypeOK
  <2>2. CASE gui[g] \in Waiting
    BY <1>3, <2>2, ReadFacts, HandshakeSteps DEF InboxInv
  <2>3. CASE gui[g] = "running"
    <3>1. ack' = ack
      BY <2>3, ReadFacts
    <3> QED  BY <1>3, <2>3, <3>1, ReadFacts, HandshakeSteps
  <2>4. CASE gui[g] = "gone"
    <3>1. ack' = ack
      BY <2>4 DEF Answer
    <3>2. inbox'[g] = <<>> \/ inbox'[g] \in Chains \/ \E r \in Requests : inbox'[g] = <<r>>
      BY <2>4, ReadFacts, HandshakeSteps DEF Unchained, Chains
    <3> QED  BY <1>3, <2>4, <3>1, <3>2, ReadFacts, HandshakeSteps
  <2> QED  BY <2>1, <2>2, <2>3, <2>4
<1> QED  BY <1>2, <1>3

\* An answer goes to a GUI that waits for nothing else (bristolMidiSendMsg).
LEMMA InboxAnswered ==
    ASSUME TypeOK, InboxInv, BusyInv, midi.gui # Nil, NEW result, Answer(midi.gui, result),
           UNCHANGED <<gui, inbox>>, conn' = conn \/ conn' = [conn EXCEPT ![midi.gui] = "down"]
    PROVE  InboxInv'
<1>1. midi.gui \in Guis /\ ack \in [Guis -> Sids \cup {NoAck}]
      /\ conn \in [Guis -> {"none", "pending", "open", "down"}]
  BY DEF TypeOK
<1>2. /\ gui[midi.gui] \in Waiting => inbox[midi.gui] = <<>>
      /\ gui[midi.gui] \in Waiting \cup {"gone"}
  <2>1. midi.pc \in {"hook", "starting"} \cup Holding
    BY DEF BusyInv, TypeOK, Threads, Holding
  <2> QED  BY <2>1, HandshakeSteps DEF BusyInv
<1>3. \A h \in Guis : gui[h] = "off" => conn'[h] = conn[h]
  BY <1>1, <1>2, HandshakeSteps
<1>4. \/ ack' = ack
      \/ gui[midi.gui] \in Waiting /\ ack' = [ack EXCEPT ![midi.gui] = result]
  BY <1>2 DEF Answer
<1>5. CASE ack' = ack
  BY <1>5, <1>3, InboxKept
<1>6. CASE gui[midi.gui] \in Waiting /\ ack' = [ack EXCEPT ![midi.gui] = result]
  <2>1. \A h \in Guis : h # midi.gui => ack'[h] = ack[h]
    BY <1>1, <1>6
  <2> QED  BY <2>1, <1>1, <1>2, <1>3, <1>6, HandshakeSteps DEF InboxInv
<1> QED  BY <1>4, <1>5, <1>6

\* Two requests in a row.
LEMMA AppendTwo ==
    ASSUME NEW q, NEW r
    PROVE  Append(<<q>>, r) = <<q, r>>
<1>1. <<q>> \in Seq({q, r}) /\ <<q, r>> \in Seq({q, r}) /\ r \in {q, r}
  OBVIOUS
<1>2. /\ Append(<<q>>, r) \in Seq({q, r}) /\ Len(Append(<<q>>, r)) = 2
      /\ Append(<<q>>, r)[1] = q /\ Append(<<q>>, r)[2] = r
  BY <1>1, AppendProperties
<1>3. Len(<<q, r>>) = 2 /\ <<q, r>>[1] = q /\ <<q, r>>[2] = r
  OBVIOUS
<1>4. \A i \in 1 .. 2 : Append(<<q>>, r)[i] = <<q, r>>[i]
  BY <1>2, <1>3
<1> QED  BY <1>1, <1>2, <1>3, <1>4, SeqEqual

\* The last requests follow what has not been read (cleanupBristol).
LEMMA Goodbyes ==
    /\ <<>> \o <<"stop", "exit">> = <<"stop", "exit">>
    /\ <<"go">> \o <<"stop", "exit">> = <<"go", "stop", "exit">>
    /\ Append(<<>>, "stop") = <<"stop">> /\ Append(<<"go">>, "stop") = <<"go", "stop">>
<1>1. /\ <<>> \o <<"stop", "exit">> = <<"stop", "exit">> /\ Append(<<>>, "stop") = <<"stop">>
      /\ Append(<<"go">>, "stop") = <<"go", "stop">>
  BY AppendTwo
<1>2. <<"go">> \o <<"stop", "exit">> = <<"go", "stop", "exit">>
  <2> DEFINE s == <<"go">> \o <<"stop", "exit">>
  <2> DEFINE t == <<"go", "stop", "exit">>
  <2> DEFINE S == {"go", "stop", "exit"}
  <2>1. <<"go">> \in Seq(S) /\ <<"stop", "exit">> \in Seq(S) /\ t \in Seq(S)
    OBVIOUS
  <2>2. Len(<<"go">>) = 1 /\ Len(<<"stop", "exit">>) = 2 /\ Len(t) = 3
    OBVIOUS
  <2>3. s \in Seq(S) /\ Len(s) = 3
    BY <2>1, <2>2, ConcatProperties
  <2>4. s[1] = "go" /\ s[2] = "stop" /\ s[3] = "exit"
    BY <2>1, <2>2, ConcatProperties
  <2>5. t[1] = "go" /\ t[2] = "stop" /\ t[3] = "exit"
    OBVIOUS
  <2>6. \A i \in 1 .. 3 : s[i] = t[i]
    <3> HIDE DEF s, t
    <3> QED  BY <2>4, <2>5
  <2>7. s = t
    <3> HIDE DEF s, t
    <3> QED  BY <2>1, <2>2, <2>3, <2>6, SeqEqual
  <2> QED  BY <2>7
<1> QED  BY <1>1, <1>2

\* Requests that follow each other are not one request.
LEMMA Shapes ==
    /\ \A q, r : <<q>> = <<r>> => q = r
    /\ \A r : <<r>> # <<>>
    /\ \A s \in Chains : s # <<>> /\ \A r : s # <<r>>
    /\ <<"go", "stop">> \notin Farewells
    /\ \A s, t : Shorter(s, t) => s \in Chains /\ t # <<>> /\ t # <<"hello">>
<1>1. \A q, r : <<q>> = <<r>> => q = r
  OBVIOUS
<1>2. \A r : <<r>> # <<>>
  OBVIOUS
<1>3. /\ \A r : Len(<<r>>) = 1
      /\ Len(<<>>) = 0
      /\ Len(<<"stop", "exit">>) = 2 /\ Len(<<"go", "stop">>) = 2 /\ Len(<<"go", "stop", "exit">>) = 3
  OBVIOUS
<1>4. ASSUME NEW s \in Chains PROVE Len(s) \in {2, 3}
  <2>1. s = <<"stop", "exit">> \/ s = <<"go", "stop">> \/ s = <<"go", "stop", "exit">>
    BY <1>4 DEF Chains
  <2>2. ASSUME s = <<"stop", "exit">> PROVE Len(s) = 2
    BY <1>3, <2>2, Zenon
  <2>3. ASSUME s = <<"go", "stop">> PROVE Len(s) = 2
    BY <1>3, <2>3, Zenon
  <2>4. ASSUME s = <<"go", "stop", "exit">> PROVE Len(s) = 3
    BY <1>3, <2>4, Zenon
  <2> QED  BY <2>1, <2>2, <2>3, <2>4
<1>5. ASSUME NEW s \in Chains PROVE s # <<>> /\ \A r : s # <<r>>
  <2>1. Len(s) # 0 /\ Len(s) # 1
    BY <1>4
  <2> QED  BY <1>3, <2>1, Zenon
<1>6. <<"go", "stop">> \notin Farewells
  <2>1. <<"go", "stop">>[1] = "go" /\ <<"stop", "exit">>[1] = "stop"
    OBVIOUS
  <2>2. Len(<<"go", "stop">>) # Len(<<"go", "stop", "exit">>)
    BY <1>3
  <2> QED  BY <2>1, <2>2 DEF Farewells
<1>7. \A s, t : Shorter(s, t) => s \in Chains /\ t # <<>> /\ t # <<"hello">>
  <2>1. <<"stop", "exit">> \in Chains
    BY DEF Chains
  <2> QED  BY <1>1, <1>2, <1>5, <2>1 DEF Shorter, Unchained, Chains
<1> QED  BY <1>1, <1>2, <1>5, <1>6, <1>7

\* The exit is the last request of a GUI, and stays unread until it is the only one.
LEMMA LeavingFacts ==
    /\ \A s \in Leaving : /\ s # <<>> /\ s \notin {<<"hello">>, <<"init">>, <<"go">>, <<"stop">>}
                          /\ "exit" \in Range(s)
    /\ \A s, t : Shorter(s, t) /\ t \in Leaving => s \in Farewells
    /\ \A s, t : Shorter(s, t) /\ s \in Farewells => t \in Leaving
    /\ \A s, t : Shorter(s, t) => t # <<"init">>
<1>1. /\ <<"exit">>[1] = "exit" /\ 1 \in DOMAIN <<"exit">>
      /\ <<"stop", "exit">>[2] = "exit" /\ 2 \in DOMAIN <<"stop", "exit">>
      /\ <<"go", "stop", "exit">>[3] = "exit" /\ 3 \in DOMAIN <<"go", "stop", "exit">>
  OBVIOUS
<1>2. \A q, r : <<q>> = <<r>> => q = r
  OBVIOUS
<1>3. <<"stop", "exit">> \in Chains /\ <<"go", "stop", "exit">> \in Chains
  BY DEF Chains
<1>4. /\ <<"stop", "exit">> # <<>> /\ <<"go", "stop", "exit">> # <<>> /\ <<"exit">> # <<>>
      /\ \A r : <<"stop", "exit">> # <<r>> /\ <<"go", "stop", "exit">> # <<r>>
  BY <1>3, Shapes, Zenon
<1>5. ASSUME NEW s \in Leaving
      PROVE  /\ s # <<>> /\ s \notin {<<"hello">>, <<"init">>, <<"go">>, <<"stop">>}
             /\ "exit" \in Range(s)
  <2>1. CASE s = <<"exit">>
    BY <1>1, <1>2, <1>4, <2>1 DEF Range
  <2>2. CASE s = <<"stop", "exit">>
    BY <1>1, <1>4, <2>2 DEF Range
  <2>3. CASE s = <<"go", "stop", "exit">>
    BY <1>1, <1>4, <2>3 DEF Range
  <2> QED  BY <2>1, <2>2, <2>3 DEF Leaving, Farewells
<1>6. \A s, t : Shorter(s, t) /\ t \in Leaving => s \in Farewells
  BY <1>5 DEF Shorter, Unchained, Farewells
<1>7. \A s, t : Shorter(s, t) /\ s \in Farewells => t \in Leaving
  BY Shapes DEF Shorter, Unchained, Farewells, Leaving
<1>8. \A s, t : Shorter(s, t) => t # <<"init">>
  BY <1>2, <1>4 DEF Shorter, Unchained
<1> QED  BY <1>5, <1>6, <1>7, <1>8

\* A GUI sends its next request, or its last two, or closes (initConnection,
\* cleanupBristol).
LEMMA InboxGui ==
    ASSUME Patient, TypeOK, InboxInv, NEW g \in Guis, GuiNext(g)
    PROVE  InboxInv'
<1>1. /\ inbox \in [Guis -> Seq(Requests)] /\ ack \in [Guis -> Sids \cup {NoAck}]
      /\ gui \in [Guis -> Waiting \cup {"off", "running", "gone"}]
      /\ conn \in [Guis -> {"none", "pending", "open", "down"}]
  BY DEF TypeOK
<1>2. SUFFICES ASSUME NEW h \in Guis
             PROVE  /\ gui'[h] = "off" => inbox'[h] = <<>> /\ conn'[h] = "none"
                    /\ gui'[h] \in Waiting => \/ inbox'[h] = <<>>
                                              \/ inbox'[h] = <<gui'[h]>> /\ ack'[h] = NoAck
                    /\ gui'[h] = "running" => inbox'[h] = <<>> \/ inbox'[h] = <<"go">>
                    /\ gui'[h] = "gone" => \/ inbox'[h] = <<>> \/ inbox'[h] \in Chains
                                           \/ \E r \in Requests : inbox'[h] = <<r>>
                    /\ ack'[h] # NoAck => gui'[h] \in Waiting
                    /\ gui'[h] # "again"
  BY DEF InboxInv
<1>3. CASE h # g
  <2>1. UNCHANGED <<gui[h], inbox[h], ack[h], conn[h]>>
    <3>1. CASE Answered(g)
      BY <3>1, <1>1, <1>3, AnsweredIs DEF Answered, Send
    <3>2. CASE Start(g) \/ Quit(g) \/ Crash(g)
      BY <3>2, <1>1, <1>3 DEF Start, Quit, Crash, Send
    <3> QED  BY <3>1, <3>2 DEF GuiNext, Resend
  <2> QED  BY <2>1 DEF InboxInv
<1>4. CASE h = g
  <2>1. \A r : Append(<<>>, r) = <<r>>
    OBVIOUS
  <2>2. CASE Start(g)
    <3>1. gui'[g] = "hello" /\ inbox'[g] = Append(inbox[g], "hello") /\ ack'[g] = ack[g]
      BY <2>2, <1>1 DEF Start, Send
    <3>2. inbox[g] = <<>> /\ ack[g] = NoAck
      BY <2>2, HandshakeSteps DEF Start, InboxInv
    <3>3. inbox'[g] = <<"hello">>
      BY <3>1, <3>2, <2>1
    <3> QED  BY <3>1, <3>2, <3>3, <1>4, HandshakeSteps
  <2>3. CASE Answered(g)
    <3>1. inbox[g] = <<>> /\ ack'[g] = NoAck
      BY <2>3, <1>1 DEF Answered, InboxInv
    <3>2. \/ gui'[g] = "channel" /\ inbox'[g] = Append(inbox[g], "channel")
          \/ gui'[g] = "start" /\ inbox'[g] = Append(inbox[g], "start")
          \/ gui'[g] = "init" /\ inbox'[g] = Append(inbox[g], "init")
          \/ gui'[g] = "running" /\ inbox'[g] = Append(inbox[g], "go")
      BY <2>3, <1>1, AnsweredIs DEF Send
    <3>3. \/ gui'[g] \in {"channel", "start", "init"} /\ inbox'[g] = <<gui'[g]>>
          \/ gui'[g] = "running" /\ inbox'[g] = <<"go">>
      BY <3>1, <3>2, <2>1
    <3> QED  BY <3>1, <3>3, <1>4, HandshakeSteps
  <2>4. CASE Quit(g)
    <3>1. gui[g] = "running" /\ gui'[g] = "gone" /\ inbox'[g] = inbox[g] \o <<"stop", "exit">>
          /\ ack'[g] = ack[g]
      BY <2>4, <1>1 DEF Quit
    <3>2. ack[g] = NoAck
      BY <3>1, HandshakeSteps DEF InboxInv
    <3>3. inbox[g] = <<>> \/ inbox[g] = <<"go">>
      BY <3>1 DEF InboxInv
    <3>4. inbox'[g] = <<"stop", "exit">> \/ inbox'[g] = <<"go", "stop", "exit">>
      BY <3>1, <3>3, Goodbyes, Zenon
    <3> QED  BY <3>1, <3>2, <3>4, <1>4, HandshakeSteps DEF Chains
  <2>5. CASE Crash(g)
    <3>1. gui'[g] = "gone" /\ ack'[g] = NoAck
          /\ \/ (gui[g] \in Waiting \/ gui[g] = "running") /\ inbox'[g] = inbox[g]
             \/ gui[g] = "running" /\ inbox'[g] = Append(inbox[g], "stop")
      BY <2>5, <1>1 DEF Crash, Send
    <3>2. CASE inbox'[g] = inbox[g]
      <4>1. inbox[g] = <<>> \/ \E r \in Requests : inbox[g] = <<r>>
        BY <3>1, HandshakeSteps DEF InboxInv
      <4> QED  BY <3>1, <3>2, <4>1, <1>4, HandshakeSteps
    <3>3. CASE gui[g] = "running" /\ inbox'[g] = Append(inbox[g], "stop")
      <4>1. inbox[g] = <<>> \/ inbox[g] = <<"go">>
        BY <3>3 DEF InboxInv
      <4>2. inbox'[g] = <<"stop">> \/ inbox'[g] = <<"go", "stop">>
        BY <3>3, <4>1, Goodbyes, Zenon
      <4> QED  BY <3>1, <4>2, <1>4, HandshakeSteps DEF Chains
    <3> QED  BY <3>1, <3>2, <3>3
  <2> QED  BY <2>2, <2>3, <2>4, <2>5 DEF GuiNext, Resend
<1> QED  BY <1>3, <1>4

\* No more is under way for a GUI than its state allows (initConnection).
LEMMA InboxStep ==
    ASSUME Patient, TypeOK, InboxInv, BusyInv, [Next]_vars
    PROVE  InboxInv'
<1>1. ASSUME UNCHANGED <<gui, inbox, ack, conn>> PROVE InboxInv'
  BY <1>1, InboxKept
<1>2. ASSUME NEW g \in Guis, Handles(g) PROVE InboxInv'
  <2>1. CASE Accept(g)
    <3>1. conn[g] = "pending" /\ UNCHANGED <<gui, inbox, ack>> /\ conn' = [conn EXCEPT ![g] = "open"]
      BY <2>1 DEF Accept, guiVars
    <3>2. \A h \in Guis : gui[h] = "off" => conn'[h] = conn[h]
      BY <3>1 DEF InboxInv, TypeOK
    <3> QED  BY <3>1, <3>2, InboxKept
  <2>2. CASE LostConnection(g)
    <3>1. conn[g] = "open" /\ UNCHANGED <<gui, inbox, ack>> /\ conn' = [conn EXCEPT ![g] = "down"]
      BY <2>2 DEF LostConnection, guiVars
    <3>2. \A h \in Guis : gui[h] = "off" => conn'[h] = conn[h]
      BY <3>1 DEF InboxInv, TypeOK
    <3> QED  BY <3>1, <3>2, InboxKept
  <2>3. CASE Hello(g)
    BY <2>3, InboxRead DEF Hello, guiVars
  <2>4. CASE Channel(g)
    <3>1. Reads(g, "channel") /\ gui' = gui /\ conn' = conn /\ (ack' = ack \/ Answer(g, 0))
      BY <2>4 DEF Channel, guiVars
    <3> QED  BY <3>1, InboxRead
  <2>5. CASE ReqStart(g)
    <3>1. Reads(g, "start") /\ gui' = gui /\ conn' = conn /\ (ack' = ack \/ Answer(g, 0))
      BY <2>5 DEF ReqStart, guiVars
    <3> QED  BY <3>1, InboxRead
  <2>6. CASE InitAlgo(g)
    <3>1. Reads(g, "init") /\ gui' = gui /\ conn' = conn /\ (ack' = ack \/ Answer(g, 0))
      BY <2>6 DEF InitAlgo, guiVars
    <3> QED  BY <3>1, InboxRead
  <2>7. CASE MidiGo(g) \/ MidiStop(g)
    BY <2>7, InboxRead DEF MidiGo, MidiStop, guiVars
  <2>8. CASE ExitAlgo(g)
    BY <2>8, InboxRead DEF ExitAlgo, guiVars
  <2> QED  BY <1>2, <2>1, <2>2, <2>3, <2>4, <2>5, <2>6, <2>7, <2>8 DEF Handles
<1>3. ASSUME MidiContinues PROVE InboxInv'
  <2>1. ASSUME Hook \/ Started \/ FreeEmulator PROVE InboxInv'
    <3>1. midi.gui # Nil
      BY <2>1 DEF Hook, Started, FreeEmulator, BusyInv
    <3>2. /\ UNCHANGED <<gui, inbox>>
          /\ conn' = conn \/ conn' = [conn EXCEPT ![midi.gui] = "down"]
          /\ \/ conn' = conn /\ ack' = ack
             \/ \E result : Answer(midi.gui, result)
      BY <2>1 DEF Hook, Started, FreeEmulator, guiVars
    <3> QED  BY <3>1, <3>2, <1>1, InboxAnswered
  <2>2. ASSUME CheckLast \/ Shutdown \/ Terminate \/ MidiEnds PROVE UNCHANGED <<gui, inbox, ack, conn>>
    BY <2>2 DEF CheckLast, Shutdown, Terminate, MidiEnds, guiVars, wire
  <2> QED  BY <1>1, <1>3, <2>1, <2>2 DEF MidiContinues
<1>4. ASSUME NEW g \in Guis, AudioPeriod(g) \/ Touch(g) PROVE UNCHANGED <<gui, inbox, ack, conn>>
  BY <1>4 DEF AudioPeriod, SenseExpires, Unlink, Touch, guiVars, wire
<1>5. ASSUME MainNext \/ Timeouts PROVE UNCHANGED <<gui, inbox, ack, conn>>
  BY <1>5 DEF MainNext, Timeouts, MainSpawns, MainSeesAudio, MainLeaves, MainJoins,
     MainGivesUp, MainWatches, MainBites, JackGivesUp, guiVars, wire
<1>6. ASSUME AudioOpening \/ Forget \/ TouchBack \/ AudioStops PROVE UNCHANGED <<gui, inbox, ack, conn>>
  BY <1>6 DEF AudioOpening, AudioBegins, AudioOpens, AudioFails, JackActivates, Forget,
     TouchBack, AudioStops, guiVars, wire
<1>7. ASSUME UNCHANGED vars PROVE UNCHANGED <<gui, inbox, ack, conn>>
  BY <1>7 DEF vars
<1> QED  BY <1>1, <1>2, <1>3, <1>4, <1>5, <1>6, <1>7, InboxGui DEF Next

\* The MIDI thread is busy with one GUI or with none (bristolSystem).
LEMMA BusyKept ==
    ASSUME BusyInv, UNCHANGED <<midi, gui, inbox, ack>>
    PROVE  BusyInv'
BY DEF BusyInv

\* The MIDI thread is done, or cancelled.
LEMMA BusyNone ==
    ASSUME NEW pc \in {"idle", "ended"}, To(pc, Nil, Nil)
    PROVE  BusyInv'
BY DEF BusyInv, To, Holding

\* A request may keep the MIDI thread busy (bristolSystem).
LEMMA BusyRead ==
    ASSUME TypeOK, InboxInv, BusyInv, NEW g \in Guis, Handles(g)
    PROVE  BusyInv'
<1>1. midi.pc \in {"idle", "ended"} /\ midi.gui = Nil /\ midi.emu = Nil =>
        (midi' = midi => BusyInv')
  BY DEF BusyInv, Holding
<1>2. ack \in [Guis -> Sids \cup {NoAck}] /\ g # Nil /\ gui[g] \in Waiting \cup {"off", "running", "gone"}
  BY NilIsNone DEF TypeOK
<1>3. ASSUME NEW op, Reads(g, op), midi' = midi PROVE BusyInv'
  BY <1>1, <1>3, ReadFacts DEF BusyInv
<1>4. CASE Accept(g) \/ LostConnection(g)
  BY <1>4, BusyKept DEF Accept, LostConnection, guiVars
<1>5. CASE Channel(g) \/ InitAlgo(g) \/ MidiGo(g) \/ MidiStop(g)
  BY <1>5, <1>3 DEF Channel, InitAlgo, MidiGo, MidiStop
<1>6. CASE Hello(g)
  <2>1. Reads(g, "hello") /\ To("hook", g, g) /\ gui' = gui /\ ack' = ack
    BY <1>6 DEF Hello, guiVars
  <2>2. gui[g] \in {"hello", "gone"} /\ ack[g] = NoAck /\ (gui[g] = "hello" => inbox'[g] = <<>>)
    BY <2>1, <1>2, ReadFacts, HandshakeSteps
  <2> QED  BY <2>1, <2>2, <1>2, HandshakeSteps DEF BusyInv, To, Holding
<1>7. CASE ReqStart(g)
  <2>1. Reads(g, "start") /\ gui' = gui /\ (midi' = midi \/ (To("starting", g, Nil) /\ ack' = ack))
    BY <1>7 DEF ReqStart, guiVars
  <2>2. gui[g] \in {"start", "gone"} /\ ack[g] = NoAck /\ (gui[g] = "start" => inbox'[g] = <<>>)
    BY <2>1, <1>2, ReadFacts, HandshakeSteps
  <2>3. CASE midi' = midi
    BY <2>1, <2>3, <1>3
  <2>4. CASE To("starting", g, Nil) /\ ack' = ack
    BY <2>1, <2>2, <2>4, <1>2, HandshakeSteps DEF BusyInv, To, Holding
  <2> QED  BY <2>1, <2>3, <2>4
<1>8. CASE ExitAlgo(g)
  <2>1. Reads(g, "exit") /\ gui' = gui /\ ack' = ack
        /\ (midi' = midi \/ (To("marked", g, Find(told[g])) /\ Find(told[g]) # Nil))
    BY <1>8 DEF ExitAlgo, guiVars
  <2>2. gui[g] = "gone" /\ ack[g] = NoAck
    BY <2>1, <1>2, ReadFacts, HandshakeSteps
  <2>3. CASE midi' = midi
    BY <2>1, <2>3, <1>3
  <2>4. CASE To("marked", g, Find(told[g])) /\ Find(told[g]) # Nil
    BY <2>1, <2>2, <2>4, <1>2, HandshakeSteps DEF BusyInv, To, Holding
  <2> QED  BY <2>1, <2>3, <2>4
<1> QED  BY <1>4, <1>5, <1>6, <1>7, <1>8 DEF Handles

\* A GUI does not send to a MIDI thread that is busy with it (initConnection).
LEMMA BusyGui ==
    ASSUME Patient, TypeOK, InboxInv, BusyInv, NEW g \in Guis, GuiNext(g)
    PROVE  BusyInv'
<1>1. /\ inbox \in [Guis -> Seq(Requests)] /\ ack \in [Guis -> Sids \cup {NoAck}]
      /\ gui \in [Guis -> Waiting \cup {"off", "running", "gone"}]
      /\ midi.gui \in Guis \cup {Nil} /\ midi.pc \in Threads
  BY DEF TypeOK
<1>2. midi' = midi
  BY DEF GuiNext, Start, Answered, Resend, Quit, Crash
<1>3. CASE midi.gui = Nil
  BY <1>2, <1>3 DEF BusyInv, Holding
<1>4. CASE midi.gui # Nil /\ midi.gui # g
  <2>1. UNCHANGED <<gui[midi.gui], inbox[midi.gui], ack[midi.gui]>>
    <3>1. CASE Answered(g)
      BY <3>1, <1>1, <1>4, AnsweredIs DEF Answered, Send
    <3>2. CASE Start(g) \/ Quit(g) \/ Crash(g)
      BY <3>2, <1>1, <1>4 DEF Start, Quit, Crash, Send
    <3> QED  BY <3>1, <3>2 DEF GuiNext, Resend
  <2> QED  BY <1>2, <2>1 DEF BusyInv
<1>5. CASE midi.gui = g /\ g # Nil
  <2>1. gui[g] # "off" /\ gui[g] # "running" /\ ack[g] = NoAck
    BY <1>1, <1>5, HandshakeSteps DEF BusyInv, Threads, Holding
  <2>2. Crash(g)
    BY <2>1 DEF GuiNext, Start, Answered, Resend, Quit
  <2>3. gui'[g] = "gone" /\ ack'[g] = NoAck
    BY <2>2, <1>1 DEF Crash
  <2>4. gui[g] # "gone"
    BY <2>2, HandshakeSteps DEF Crash
  <2> QED  BY <1>2, <1>5, <2>3, <2>4, HandshakeSteps DEF BusyInv
<1> QED  BY <1>1, <1>3, <1>4, <1>5, NilIsNone

\* The MIDI thread is busy with a GUI that waits for it, or has gone
\* (bristolSystem, main).
LEMMA BusyStep ==
    ASSUME Patient, TypeOK, InboxInv, BusyInv, [Next]_vars
    PROVE  BusyInv'
<1>1. ASSUME MidiContinues PROVE BusyInv'
  <2>1. CASE Hook \/ Started \/ FreeEmulator \/ Terminate \/ MidiEnds
    <3>1. To("idle", Nil, Nil) \/ To("ended", Nil, Nil)
      BY <2>1 DEF Hook, Started, FreeEmulator, Terminate, MidiEnds, Idle
    <3> QED  BY <3>1, BusyNone
  <2>2. CASE CheckLast \/ Shutdown
    <3>1. midi.pc \in {"marked", "emptying"} /\ \E pc \in Holding : To(pc, midi.gui, midi.emu)
      BY <2>2 DEF CheckLast, Shutdown, Holding
    <3>2. UNCHANGED <<gui, inbox, ack>>
      BY <2>2 DEF CheckLast, Shutdown, guiVars, wire
    <3> QED  BY <3>1, <3>2, HandshakeSteps DEF BusyInv, To, Holding
  <2> QED  BY <1>1, <2>1, <2>2 DEF MidiContinues
<1>2. ASSUME MainNext \/ Timeouts PROVE BusyInv'
  <2>1. UNCHANGED <<gui, inbox, ack>> /\ (midi' = midi \/ To("ended", Nil, Nil))
    BY <1>2 DEF MainNext, Timeouts, MainSpawns, MainSeesAudio, MainLeaves, MainJoins, CancelMidi,
       MainGivesUp, MainWatches, MainBites, JackGivesUp, guiVars, wire
  <2> QED  BY <2>1, BusyNone, BusyKept
<1>3. ASSUME NEW g \in Guis, AudioPeriod(g) \/ Touch(g) PROVE BusyInv'
  BY <1>3, BusyKept DEF AudioPeriod, SenseExpires, Unlink, Touch, guiVars, wire
<1>4. ASSUME AudioOpening \/ Forget \/ TouchBack \/ AudioStops PROVE BusyInv'
  BY <1>4, BusyKept DEF AudioOpening, AudioBegins, AudioOpens, AudioFails, JackActivates, Forget,
     TouchBack, AudioStops, guiVars, wire
<1>5. ASSUME UNCHANGED vars PROVE BusyInv'
  BY <1>5, BusyKept DEF vars
<1> QED  BY <1>1, <1>2, <1>3, <1>4, <1>5, BusyGui, BusyRead DEF Next

\* An emulator is given its sid by the hello that creates it, for good.
LEMMA SidsKept ==
    ASSUME TypeOK, [Next]_vars
    PROVE  \/ \A b \in Guis : emu'[b].sid = emu[b].sid
           \/ \E g \in Guis : Hello(g)
<1>1. emu \in [Guis -> Emulators]
  BY TypeLinks DEF Links
<1>2. ASSUME UNCHANGED list PROVE \A b \in Guis : emu'[b].sid = emu[b].sid
  BY <1>2 DEF list
<1>3. ASSUME NEW g \in Guis, Handles(g), ~Hello(g) PROVE \A b \in Guis : emu'[b].sid = emu[b].sid
  <2>1. ASSUME InitAlgo(g) PROVE \A b \in Guis : emu'[b].sid = emu[b].sid
    <3>1. PICK b : emu' = emu \/ emu' = [emu EXCEPT ![b].flags = @ \ {"HOLDDOWN"}, ![b].life = "ready"]
      BY <2>1 DEF InitAlgo
    <3> QED  BY <3>1, <1>1 DEF Emulators
  <2>2. ASSUME ExitAlgo(g) PROVE \A b \in Guis : emu'[b].sid = emu[b].sid
    <3>1. PICK b : emu' = emu \/ emu' = [emu EXCEPT ![b].flags = {"HOLDDOWN", "REMOVE"}]
      BY <2>2 DEF ExitAlgo
    <3> QED  BY <3>1, <1>1 DEF Emulators
  <2>3. ASSUME Accept(g) \/ LostConnection(g) \/ Channel(g) \/ ReqStart(g) \/ MidiGo(g) \/ MidiStop(g)
        PROVE  UNCHANGED list
    BY <2>3 DEF Accept, LostConnection, Channel, ReqStart, MidiGo, MidiStop
  <2> QED  BY <1>2, <1>3, <2>1, <2>2, <2>3 DEF Handles
<1>4. ASSUME MidiContinues PROVE \A b \in Guis : emu'[b].sid = emu[b].sid
  <2>1. ASSUME Hook PROVE \A b \in Guis : emu'[b].sid = emu[b].sid
    <3>1. emu' = emu \/ emu' = [emu EXCEPT ![audiolist].last = midi.emu]
      BY <2>1 DEF Hook
    <3> QED  BY <3>1, <1>1 DEF Emulators
  <2>2. ASSUME FreeEmulator PROVE \A b \in Guis : emu'[b].sid = emu[b].sid
    <3>1. emu' = [emu EXCEPT ![midi.emu].life = "freed"]
      BY <2>2 DEF FreeEmulator
    <3> QED  BY <3>1, <1>1 DEF Emulators
  <2>3. ASSUME Started \/ CheckLast \/ Shutdown \/ Terminate \/ MidiEnds PROVE UNCHANGED list
    BY <2>3 DEF Started, CheckLast, Shutdown, Terminate, MidiEnds
  <2> QED  BY <1>2, <1>4, <2>1, <2>2, <2>3 DEF MidiContinues
<1>5. ASSUME NEW b \in Guis, AudioPeriod(b) \/ Touch(b) PROVE \A c \in Guis : emu'[c].sid = emu[c].sid
  <2>1. ASSUME SenseExpires(b) PROVE \A c \in Guis : emu'[c].sid = emu[c].sid
    <3>1. emu' = [emu EXCEPT ![b].flags = @ \cup {"REMOVE"}]
      BY <2>1 DEF SenseExpires
    <3> QED  BY <3>1, <1>1 DEF Emulators
  <2>2. ASSUME Unlink(b) PROVE \A c \in Guis : emu'[c].sid = emu[c].sid
    <3>1. Bypassed(b) \in [Guis -> Emulators] /\ \A c \in Guis : Bypassed(b)[c].sid = emu[c].sid
      BY <1>1 DEF Bypassed, Emulators
    <3>2. PICK e \in [Guis -> Emulators] :
              /\ \A c \in Guis : e[c].sid = emu[c].sid
              /\ emu' = [e EXCEPT ![b].flags = @ \cup {"HOLDDOWN"}, ![b].life = "removed"]
      BY <3>1, <2>2 DEF Unlink
    <3> QED  BY <3>2 DEF Emulators
  <2>3. ASSUME Touch(b) PROVE UNCHANGED list
    BY <2>3 DEF Touch
  <2> QED  BY <1>2, <1>5, <2>1, <2>2, <2>3 DEF AudioPeriod
<1>6. ASSUME Forget \/ TouchBack PROVE \A c \in Guis : emu'[c].sid = emu[c].sid
  <2>1. \/ emu' = [emu EXCEPT ![audio.emu].flags = @ \ {"REMOVE"}]
        \/ emu' = [emu EXCEPT ![audio.emu].flags = audio.flags]
    BY <1>6 DEF Forget, TouchBack
  <2> QED  BY <2>1, <1>1 DEF Emulators
<1>7. ASSUME MainNext \/ Timeouts PROVE UNCHANGED list
  BY <1>7 DEF MainNext, Timeouts, MainSpawns, MainSeesAudio, MainLeaves, MainJoins,
     MainGivesUp, MainWatches, MainBites, JackGivesUp
<1>8. ASSUME AudioOpening \/ AudioStops PROVE UNCHANGED list
  BY <1>8 DEF AudioOpening, AudioBegins, AudioOpens, AudioFails, JackActivates, AudioStops
<1>9. ASSUME UNCHANGED vars PROVE UNCHANGED list
  BY <1>9 DEF vars, list
<1>10. ASSUME NEW g \in Guis, GuiNext(g) PROVE UNCHANGED list
  BY <1>10 DEF GuiNext, Start, Answered, Resend, Quit, Crash
<1> QED  BY <1>2, <1>3, <1>4, <1>5, <1>6, <1>7, <1>8, <1>9, <1>10 DEF Next

\* Only a hello makes the MIDI thread hook an emulator (bristolSystem).
LEMMA MidiMoves ==
    ASSUME [Next]_vars
    PROVE  midi' = midi \/ midi'.pc # "hook" \/ \E g \in Guis : Hello(g)
<1> SUFFICES ASSUME ~ \E g \in Guis : Hello(g) PROVE midi' = midi \/ midi'.pc # "hook"
  OBVIOUS
<1>1. ASSUME MidiContinues PROVE midi' = midi \/ midi'.pc # "hook"
  BY <1>1 DEF MidiContinues, Hook, Started, CheckLast, FreeEmulator, Shutdown, Terminate, MidiEnds,
       Idle, To
<1>2. ASSUME NEW g \in Guis, Handles(g) PROVE midi' = midi \/ midi'.pc # "hook"
  BY <1>2 DEF Handles, Accept, LostConnection, Channel, ReqStart, InitAlgo, MidiGo, MidiStop, ExitAlgo, To
<1>3. ASSUME MainNext \/ Timeouts PROVE midi' = midi \/ midi'.pc # "hook"
  BY <1>3 DEF MainNext, Timeouts, MainSpawns, MainSeesAudio, MainLeaves, MainJoins,
       MainGivesUp, MainWatches, MainBites, JackGivesUp, CancelMidi, To
<1>4. ASSUME NEW g \in Guis, AudioPeriod(g) \/ Touch(g) \/ GuiNext(g) PROVE midi' = midi
  BY <1>4 DEF AudioPeriod, SenseExpires, Unlink, Touch, GuiNext, Start, Answered, Resend, Quit, Crash
<1>5. ASSUME AudioOpening \/ Forget \/ TouchBack \/ AudioStops PROVE midi' = midi
  BY <1>5 DEF AudioOpening, AudioBegins, AudioOpens, AudioFails, JackActivates, Forget,
       TouchBack, AudioStops
<1> QED  BY <1>1, <1>2, <1>3, <1>4, <1>5 DEF Next, vars

\* A new emulator has a sid when it is linked (bristolSystem).
LEMMA HookStep ==
    ASSUME TypeOK, EarlyInv, HookInv, [Next]_vars
    PROVE  HookInv'
<1>1. emu \in [Guis -> Emulators] /\ midi.emu \in Guis \cup {Nil}
  BY TypeLinks DEF Links, TypeOK
<1>2. ASSUME NEW g \in Guis, Hello(g) PROVE HookInv'
  <2>1. emu'[g].sid = NewSid /\ midi'.emu = g
    BY <1>1, <1>2 DEF Hello, To
  <2>2. NewSid # NoSid
    BY TypeLinks, NewSidType DEF Sids, NoSid
  <2> QED  BY <2>1, <2>2 DEF HookInv
<1>3. ASSUME midi'.pc = "hook", midi' = midi, \A b \in Guis : emu'[b].sid = emu[b].sid PROVE HookInv'
  <2>1. midi.emu \in Guis
    BY <1>1, <1>3 DEF EarlyInv
  <2> QED  BY <1>3, <2>1 DEF HookInv
<1> QED  BY <1>2, <1>3, MidiMoves, SidsKept DEF HookInv

\* Before the first hello the engine has nothing to do (main, midiThread).
LEMMA HelloStep ==
    ASSUME TypeOK, midi.pc \in {"idle", "ended"} <=> midi.gui = Nil, HelloInv, [Next]_vars
    PROVE  HelloInv'
<1>1. SUFFICES ASSUME ~eng'.hello PROVE HelloInv'
  BY DEF HelloInv
<1>2. /\ eng \in [atStatus : {"EXIT", "WAIT", "OK", "FAIL", "TERM"}, atReq : SUBSET {"START", "STOP"},
                  exitReq : BOOLEAN, terminate : BOOLEAN, audiowait : BOOLEAN,
                  hello : BOOLEAN, go : BOOLEAN, opens : 0 .. Cardinality(Guis)]
      /\ gui \in [Guis -> Waiting \cup {"off", "running", "gone"}]
      /\ ack \in [Guis -> Sids \cup {NoAck}]
  BY DEF TypeOK
<1>3. ~eng.hello /\ ~ \E g \in Guis : Hello(g)
  <2>1. ASSUME NEW g \in Guis, Hello(g) PROVE FALSE
    <3>1. eng'.hello = (eng.hello \/ eng.atStatus = "EXIT")
      BY <1>2, <2>1 DEF Hello
    <3>2. ~eng.terminate
      BY <2>1 DEF Hello, Reads, Selects
    <3> QED  BY <3>1, <3>2, <1>1 DEF HelloInv
  <2>2. ASSUME eng.hello PROVE eng'.hello
    <3>1. ASSUME NEW g \in Guis, GuiNext(g) \/ Handles(g) PROVE eng'.hello
      BY <1>2, <2>1, <2>2, <3>1 DEF GuiNext, Start, Answered, Resend, Quit, Crash, Handles, Accept,
         LostConnection, Channel, ReqStart, InitAlgo, MidiGo, MidiStop, ExitAlgo, Resumed
    <3>2. ASSUME NEW b \in Guis, AudioPeriod(b) \/ Touch(b) PROVE eng'.hello
      BY <2>2, <3>2 DEF AudioPeriod, SenseExpires, Unlink, Touch
    <3>3. ASSUME MidiContinues PROVE eng'.hello
      BY <1>2, <2>2, <3>3 DEF MidiContinues, Hook, Started, CheckLast, FreeEmulator, Shutdown,
         Terminate, MidiEnds, Resumed, Stopped
    <3>4. ASSUME MainNext \/ Timeouts PROVE eng'.hello
      BY <1>2, <2>2, <3>4 DEF MainNext, Timeouts, MainSpawns, MainSeesAudio, MainLeaves, MainJoins,
         MainGivesUp, MainWatches, MainBites, JackGivesUp, Bites
    <3>5. ASSUME AudioOpening \/ Forget \/ TouchBack \/ AudioStops PROVE eng'.hello
      BY <1>2, <2>2, <3>5 DEF AudioOpening, AudioBegins, AudioOpens, AudioFails, JackActivates, Forget,
         TouchBack, AudioStops
    <3> QED  BY <2>2, <3>1, <3>2, <3>3, <3>4, <3>5 DEF Next, vars
  <2> QED  BY <2>1, <2>2, <1>1
<1>4. /\ eng.atStatus = "EXIT" \/ eng.terminate
      /\ "START" \notin eng.atReq
      /\ audio.pc = "none" /\ main # "spawning"
      /\ midi.gui = Nil /\ midi.pc \in {"idle", "ended"}
      /\ \A g \in Guis : ack[g] = NoAck /\ gui[g] \notin Waiting \ {"hello"}
  BY <1>3 DEF HelloInv
<1>5. ASSUME eng'.atStatus = "EXIT" \/ eng'.terminate, "START" \notin eng'.atReq,
             audio'.pc = "none" /\ main' # "spawning" /\ midi'.gui = Nil,
             \A g \in Guis : ack'[g] = NoAck /\ gui'[g] \notin Waiting \ {"hello"}
      PROVE  HelloInv'
  BY <1>5 DEF HelloInv
<1>6. ASSUME NEW g \in Guis, GuiNext(g) PROVE HelloInv'
  <2>1. ~Answered(g)
    BY <1>4 DEF Answered
  <2>2. \A h \in Guis : ack'[h] = NoAck /\ gui'[h] \notin Waiting \ {"hello"}
    BY <2>1, <1>2, <1>4, <1>6, HandshakeSteps DEF GuiNext, Start, Resend, Quit, Crash
  <2>3. UNCHANGED <<eng, audio, main, midi>>
    BY <1>6 DEF GuiNext, Start, Answered, Resend, Quit, Crash
  <2> QED  BY <2>2, <2>3, <1>4, <1>5
<1>7. ASSUME NEW g \in Guis, Handles(g) PROVE HelloInv'
  <2>1. UNCHANGED <<ack, gui, audio, main, midi>>
    BY <1>3, <1>7 DEF Handles, Accept, LostConnection, Channel, ReqStart, InitAlgo, MidiGo, MidiStop, ExitAlgo,
       guiVars
  <2>2. eng'.atStatus = eng.atStatus /\ eng'.terminate = eng.terminate /\ eng'.atReq = eng.atReq
    BY <1>2, <1>3, <1>7 DEF Handles, Accept, LostConnection, Channel, ReqStart, InitAlgo, MidiGo, MidiStop,
       ExitAlgo, Resumed
  <2> QED  BY <2>1, <2>2, <1>4, <1>5
<1>8. ASSUME MidiContinues PROVE HelloInv'
  <2>1. MidiEnds
    BY <1>4, <1>8 DEF MidiContinues, Hook, Started, CheckLast, FreeEmulator, Shutdown, Terminate
  <2> QED  BY <2>1, <1>4, <1>5 DEF MidiEnds, To, guiVars, wire
<1>9. ASSUME MainNext \/ Timeouts PROVE HelloInv'
  <2>1. ~MainSpawns /\ ~MainSeesAudio /\ ~MainGivesUp
    BY <1>4 DEF MainSpawns, SpawnDue, MainSeesAudio, MainGivesUp
  <2>2. UNCHANGED <<ack, gui, audio, midi>> /\ main' # "spawning"
    BY <1>4, <1>9, <2>1 DEF MainNext, Timeouts, MainLeaves, MainJoins, MainWatches, MainBites, Bites,
       JackGivesUp, guiVars, wire
  <2>3. \/ eng' = eng
        \/ eng' = [eng EXCEPT !.atReq = {"STOP"}]
        \/ eng' = [eng EXCEPT !.atStatus = "FAIL", !.terminate = TRUE, !.go = FALSE]
    BY <1>9, <2>1 DEF MainNext, Timeouts, MainLeaves, MainJoins, MainWatches, MainBites, Bites,
       JackGivesUp
  <2>4. (eng'.atStatus = "EXIT" \/ eng'.terminate) /\ "START" \notin eng'.atReq
    <3>1. CASE eng' = eng
      BY <3>1, <1>4
    <3>2. CASE eng' = [eng EXCEPT !.atReq = {"STOP"}]
      <4>1. eng'.atStatus = eng.atStatus /\ eng'.terminate = eng.terminate /\ eng'.atReq = {"STOP"}
        BY <3>2, <1>2
      <4> QED  BY <4>1, <1>4
    <3>3. CASE eng' = [eng EXCEPT !.atStatus = "FAIL", !.terminate = TRUE, !.go = FALSE]
      <4>1. eng'.terminate = TRUE /\ eng'.atReq = eng.atReq
        BY <3>3, <1>2
      <4> QED  BY <4>1, <1>4
    <3> QED  BY <2>3, <3>1, <3>2, <3>3
  <2> QED  BY <2>2, <2>4, <1>4, <1>5
<1>10. ~(AudioOpening \/ Forget \/ TouchBack \/ AudioStops)
  BY <1>4 DEF AudioOpening, AudioBegins, AudioOpens, AudioFails, JackActivates, Forget,
     TouchBack, AudioStops
<1>11. ASSUME NEW b \in Guis, AudioPeriod(b) \/ Touch(b) PROVE FALSE
  BY <1>4, <1>11 DEF AudioPeriod, SenseExpires, Unlink, Touch, Visits
<1>12. ASSUME UNCHANGED vars PROVE HelloInv'
  BY <1>12, <1>4, <1>5 DEF vars
<1> QED  BY <1>6, <1>7, <1>8, <1>9, <1>10, <1>11, <1>12 DEF Next

\* A request leads to an answer, and an answer to the next request (bristolSystem,
\* initConnection).
LEMMA DueStep ==
    ASSUME Patient, TypeOK, InboxInv, BusyInv, HelloInv, HookInv, DueInv, [Next]_vars
    PROVE  DueInv'
<1>1. /\ inbox \in [Guis -> Seq(Requests)] /\ ack \in [Guis -> Sids \cup {NoAck}]
      /\ gui \in [Guis -> Waiting \cup {"off", "running", "gone"}]
      /\ midi.gui \in Guis \cup {Nil} /\ midi.pc \in Threads /\ Nil \notin Guis
  BY NilIsNone DEF TypeOK
<1>2. ASSUME UNCHANGED <<gui, inbox, ack, midi>> PROVE DueInv'
  BY <1>2 DEF DueInv
<1>3. 0 # NoAck /\ ~(0 = NoAck)
  BY DEF NoAck
<1>4. ASSUME NEW g \in Guis, GuiNext(g) PROVE DueInv'
  <2>1. midi' = midi
    BY <1>4 DEF GuiNext, Start, Answered, Resend, Quit, Crash
  <2>2. \A h \in Guis : h # g => UNCHANGED <<gui[h], inbox[h], ack[h]>>
    <3>1. CASE Answered(g)
      BY <3>1, <1>1, AnsweredIs DEF Answered, Send
    <3>2. CASE Start(g) \/ Quit(g) \/ Crash(g)
      BY <3>2, <1>1 DEF Start, Quit, Crash, Send
    <3> QED  BY <1>4, <3>1, <3>2 DEF GuiNext, Resend
  <2>3. gui'[g] \in Waiting => inbox'[g] # <<>>
    <3>1. \A r : Append(inbox[g], r) # <<>>
      BY <1>1
    <3>2. CASE Answered(g)
      BY <3>1, <3>2, <1>1, AnsweredIs DEF Send
    <3>3. CASE Start(g)
      BY <3>1, <3>3, <1>1 DEF Start, Send
    <3>4. CASE Quit(g) \/ Crash(g)
      BY <3>4, <1>1, HandshakeSteps DEF Quit, Crash
    <3> QED  BY <1>4, <3>2, <3>3, <3>4 DEF GuiNext, Resend
  <2> QED  BY <2>1, <2>2, <2>3 DEF DueInv
<1>5. ASSUME NEW g \in Guis, NEW op, Reads(g, op), gui' = gui, midi'.pc # "ended",
             ack' = ack \/ Answer(g, 0), midi'.gui \in {g, Nil},
             gui[g] \in Waiting => midi'.gui = g \/ ack'[g] # NoAck
      PROVE  DueInv'
  <2>1. midi.gui = Nil /\ midi.pc = "idle"
    BY <1>5, ReadFacts
  <2>2. ASSUME NEW h \in Guis, h # g PROVE inbox'[h] = inbox[h] /\ ack'[h] = ack[h]
    BY <1>1, <1>5, <2>2, ReadFacts DEF Answer
  <2> QED  BY <1>1, <1>5, <2>1, <2>2 DEF DueInv
<1>6. ASSUME NEW g \in Guis, Handles(g) PROVE DueInv'
  <2>1. CASE Accept(g) \/ LostConnection(g)
    BY <2>1, <1>2 DEF Accept, LostConnection, guiVars
  <2>2. CASE Hello(g)
    BY <2>2, <1>5 DEF Hello, To, guiVars
  <2>3. CASE MidiGo(g) \/ MidiStop(g)
    <3>1. PICK op \in {"go", "stop"} : Reads(g, op) /\ gui' = gui /\ ack' = ack /\ midi' = midi
      BY <2>3 DEF MidiGo, MidiStop, guiVars
    <3>2. midi.gui = Nil /\ midi.pc = "idle" /\ (gui[g] \in Waiting => gui[g] = op)
      BY <3>1, ReadFacts
    <3>3. gui[g] \notin Waiting
      BY <3>2, HandshakeSteps
    <3> QED  BY <3>1, <3>2, <3>3, <1>5
  <2>4. CASE ExitAlgo(g)
    <3>1. Reads(g, "exit") /\ gui' = gui /\ ack' = ack
          /\ (midi' = midi \/ To("marked", g, Find(told[g])))
      BY <2>4 DEF ExitAlgo, guiVars
    <3>2. gui[g] \notin Waiting /\ midi.gui = Nil /\ midi.pc = "idle"
      BY <3>1, ReadFacts, HandshakeSteps
    <3> QED  BY <3>1, <3>2, <1>5 DEF To
  <2>5. ASSUME NEW op \in {"channel", "start", "init"}, Reads(g, op), gui' = gui, midi' = midi,
               IF eng.hello THEN Answer(g, 0) ELSE ack' = ack
        PROVE  DueInv'
    <3>1. midi.gui = Nil /\ midi.pc = "idle" /\ (gui[g] \in Waiting => gui[g] = op)
      BY <2>5, ReadFacts
    <3>2. ASSUME gui[g] \in Waiting PROVE ack'[g] # NoAck
      <4>1. gui[g] \in Waiting \ {"hello"} /\ gui[g] # "gone"
        BY <3>1, <3>2, <2>5, HandshakeSteps
      <4>2. eng.hello
        BY <4>1 DEF HelloInv
      <4>3. ack' = [ack EXCEPT ![g] = 0]
        BY <2>5, <4>1, <4>2 DEF Answer
      <4> QED  BY <4>3, <1>1, <1>3
    <3> QED  BY <2>5, <3>1, <3>2, <1>5
  <2>6. CASE Channel(g)
    BY <2>6, <2>5 DEF Channel, guiVars
  <2>7. CASE InitAlgo(g)
    <3>1. Reads(g, "init") /\ gui' = gui /\ midi' = midi
          /\ (IF eng.hello THEN Answer(g, 0) ELSE ack' = ack)
      BY <2>7 DEF InitAlgo, guiVars
    <3> QED  BY <3>1, <2>5
  <2>8. CASE ReqStart(g)
    <3>1. CASE eng.hello /\ eng.atStatus = "EXIT"
      <4>1. Reads(g, "start") /\ gui' = gui /\ ack' = ack /\ To("starting", g, Nil)
        BY <2>8, <3>1 DEF ReqStart, guiVars
      <4> QED  BY <4>1, <1>5 DEF To
    <3>2. CASE ~(eng.hello /\ eng.atStatus = "EXIT")
      <4>1. Reads(g, "start") /\ gui' = gui /\ midi' = midi
            /\ (IF eng.hello THEN Answer(g, 0) ELSE ack' = ack)
        BY <2>8, <3>2 DEF ReqStart, guiVars
      <4> QED  BY <4>1, <2>5
    <3> QED  BY <3>1, <3>2
  <2> QED  BY <1>6, <2>1, <2>2, <2>3, <2>4, <2>6, <2>7, <2>8 DEF Handles
<1>7. ASSUME NEW result, result # NoAck, Answer(midi.gui, result), UNCHANGED <<gui, inbox>>, Idle,
             midi.gui # Nil
      PROVE  DueInv'
  <2>1. ack' = ack \/ ack' = [ack EXCEPT ![midi.gui] = result]
    BY <1>7 DEF Answer
  <2>2. \A h \in Guis : h # midi.gui => ack'[h] = ack[h]
    BY <2>1, <1>1
  <2>3. gui[midi.gui] \in Waiting => ack'[midi.gui] # NoAck
    BY <1>1, <1>7, HandshakeSteps DEF Answer
  <2>4. midi.pc # "ended"
    BY <1>7 DEF BusyInv
  <2> QED  BY <1>1, <1>7, <2>2, <2>3, <2>4 DEF DueInv
<1>8. ASSUME MidiContinues PROVE DueInv'
  <2>1. CASE Hook
    <3>1. midi.gui # Nil /\ midi.emu = midi.gui
      BY <2>1 DEF Hook, BusyInv
    <3>2. eng.hello
      BY <3>1 DEF HelloInv
    <3>3. Answer(midi.gui, emu[midi.emu].sid) /\ UNCHANGED <<gui, inbox>> /\ Idle
      BY <2>1, <3>2 DEF Hook, guiVars
    <3>4. emu[midi.emu].sid # NoAck
      BY <2>1 DEF Hook, HookInv, NoAck, NoSid
    <3> QED  BY <3>1, <3>3, <3>4, <1>7
  <2>2. CASE Started \/ FreeEmulator
    <3>1. midi.gui # Nil
      BY <2>2 DEF Started, FreeEmulator, BusyInv
    <3>2. Answer(midi.gui, 0) /\ UNCHANGED <<gui, inbox>> /\ Idle
      BY <2>2 DEF Started, FreeEmulator, guiVars
    <3> QED  BY <3>1, <3>2, <1>3, <1>7
  <2>3. CASE CheckLast \/ Shutdown
    <3>1. midi'.gui = midi.gui /\ midi.pc # "ended" /\ UNCHANGED <<gui, inbox, ack>>
      BY <2>3 DEF CheckLast, Shutdown, To, guiVars, wire
    <3> QED  BY <3>1 DEF DueInv
  <2>4. CASE Terminate
    <3>1. midi.pc = "dying" /\ UNCHANGED <<gui, inbox, ack>>
      BY <2>4 DEF Terminate, guiVars, wire
    <3>2. midi.gui # Nil /\ gui[midi.gui] \notin Waiting
      BY <3>1, HandshakeSteps DEF BusyInv, Holding
    <3> QED  BY <3>1, <3>2 DEF DueInv
  <2>5. CASE MidiEnds
    BY <2>5 DEF MidiEnds, To, DueInv
  <2> QED  BY <1>8, <2>1, <2>2, <2>3, <2>4, <2>5 DEF MidiContinues
<1>9. ASSUME MainNext \/ Timeouts PROVE DueInv'
  <2>1. UNCHANGED <<gui, inbox, ack>> /\ (midi' = midi \/ midi'.pc = "ended")
    BY <1>9 DEF MainNext, Timeouts, MainSpawns, MainSeesAudio, MainLeaves, MainJoins, CancelMidi, To,
       MainGivesUp, MainWatches, MainBites, JackGivesUp, guiVars, wire
  <2> QED  BY <2>1 DEF DueInv
<1>10. ASSUME NEW g \in Guis, AudioPeriod(g) \/ Touch(g) PROVE DueInv'
  BY <1>10, <1>2 DEF AudioPeriod, SenseExpires, Unlink, Touch, guiVars, wire
<1>11. ASSUME AudioOpening \/ Forget \/ TouchBack \/ AudioStops PROVE DueInv'
  BY <1>11, <1>2 DEF AudioOpening, AudioBegins, AudioOpens, AudioFails, JackActivates, Forget,
     TouchBack, AudioStops, guiVars, wire
<1>12. ASSUME UNCHANGED vars PROVE DueInv'
  BY <1>12, <1>2 DEF vars
<1> QED  BY <1>4, <1>6, <1>8, <1>9, <1>10, <1>11, <1>12 DEF Next

\* Before the first GUI nothing is owed to anybody.
LEMMA TurnInit == Init /\ Patient => TurnInv
<1> SUFFICES ASSUME Init, Patient PROVE TurnInv
  OBVIOUS
<1>1. TypeOK /\ CountInv
  BY TypeInit
<1>2. InboxInv
  BY HandshakeSteps DEF Init, InboxInv, NoAck
<1>3. BusyInv
  BY DEF Init, BusyInv, Holding
<1>4. HelloInv
  BY HandshakeSteps DEF Init, HelloInv
<1>5. HookInv /\ DueInv
  BY HandshakeSteps DEF Init, HookInv, DueInv
<1> QED  BY <1>1, <1>2, <1>3, <1>4, <1>5 DEF TurnInv

\* How the engine is started does not change.
LEMMA SetupKept == ASSUME [Next]_vars PROVE setup' = setup
<1>1. ASSUME NEW g \in Guis, GuiNext(g) \/ Handles(g) \/ AudioPeriod(g) \/ Touch(g)
      PROVE  setup' = setup
  BY <1>1 DEF GuiNext, Start, Answered, Resend, Quit, Crash, Handles, Accept, LostConnection, Hello, Channel,
     ReqStart, InitAlgo, MidiGo, MidiStop, ExitAlgo, AudioPeriod, SenseExpires, Unlink, Touch
<1>2. ASSUME MidiContinues PROVE setup' = setup
  BY <1>2 DEF MidiContinues, Hook, Started, CheckLast, FreeEmulator, Shutdown, Terminate, MidiEnds
<1>3. ASSUME MainNext \/ Timeouts PROVE setup' = setup
  BY <1>3 DEF MainNext, Timeouts, MainSpawns, MainSeesAudio, MainLeaves, MainJoins, MainGivesUp,
     MainWatches, MainBites, JackGivesUp
<1>4. ASSUME AudioOpening \/ Forget \/ TouchBack \/ AudioStops PROVE setup' = setup
  BY <1>4 DEF AudioOpening, AudioBegins, AudioOpens, AudioFails, JackActivates, Forget, TouchBack,
     AudioStops
<1>5. ASSUME UNCHANGED vars PROVE setup' = setup
  BY <1>5 DEF vars
<1> QED  BY <1>1, <1>2, <1>3, <1>4, <1>5 DEF Next

\* The types are inductive, whatever is started, dies and is interrupted.
LEMMA TypesStep == TypeOK /\ CountInv /\ EarlyInv /\ [Next]_vars => TypeOK' /\ CountInv'
<1> SUFFICES ASSUME TypeOK, CountInv, EarlyInv, [Next]_vars PROVE TypeOK' /\ CountInv'
  OBVIOUS
<1>1. CountInv' /\ eng'.opens \in 0 .. N
  BY CountStep
<1>2. GuiTypes' /\ InboxTypes' /\ AckTypes' /\ ConnTypes' /\ Links'
  BY GuiTypesStep, InboxTypesStep, AckTypesStep, LinksStep
<1>3. EngTypes' /\ MidiTypes' /\ MainTypes' /\ AudioTypes'
  BY <1>1, ThreadTypesStep
<1> QED  BY <1>1, <1>2, <1>3 DEF TypeOK, GuiTypes, InboxTypes, AckTypes, ConnTypes, Links, Emulators,
            EngTypes, MidiTypes, MainTypes, AudioTypes

\* Only a GUI changes what it is at (brighton).
LEMMA GuiStays == [Next]_vars => gui' = gui \/ \E g \in Guis : GuiNext(g)
<1> SUFFICES ASSUME [Next]_vars, ~ \E g \in Guis : GuiNext(g) PROVE gui' = gui
  OBVIOUS
<1>1. ASSUME NEW g \in Guis, Handles(g) \/ AudioPeriod(g) \/ Touch(g) PROVE gui' = gui
  BY <1>1 DEF Handles, Accept, LostConnection, Hello, Channel, ReqStart, InitAlgo, MidiGo, MidiStop,
     ExitAlgo, AudioPeriod, SenseExpires, Unlink, Touch, guiVars
<1>2. ASSUME MidiContinues PROVE gui' = gui
  BY <1>2 DEF MidiContinues, Hook, Started, CheckLast, FreeEmulator, Shutdown, Terminate, MidiEnds,
     guiVars
<1>3. ASSUME MainNext \/ Timeouts PROVE gui' = gui
  BY <1>3 DEF MainNext, Timeouts, MainSpawns, MainSeesAudio, MainLeaves, MainJoins, MainGivesUp,
     MainWatches, MainBites, JackGivesUp, guiVars
<1>4. ASSUME AudioOpening \/ Forget \/ TouchBack \/ AudioStops PROVE gui' = gui
  BY <1>4 DEF AudioOpening, AudioBegins, AudioOpens, AudioFails, JackActivates, Forget, TouchBack,
     AudioStops, guiVars
<1> QED  BY <1>1, <1>2, <1>3, <1>4 DEF Next, vars

\* A GUI connects once, when it starts (connectengine), and the MIDI thread hooks the
\* emulator of the hello it has just read (bristolSystem).
LEMMA EarlyStep == TypeOK /\ EarlyInv /\ [Next]_vars => EarlyInv'
<1> SUFFICES ASSUME TypeOK, EarlyInv, [Next]_vars PROVE EarlyInv'
  OBVIOUS
<1>1. /\ gui \in [Guis -> Waiting \cup {"off", "running", "gone"}]
      /\ conn \in [Guis -> {"none", "pending", "open", "down"}]
      /\ midi.gui \in Guis \cup {Nil}
  BY DEF TypeOK
<1>2. ASSUME NEW h \in Guis, gui'[h] = "off" PROVE conn'[h] = "none"
  <2>1. ASSUME NEW g \in Guis, GuiNext(g) PROVE conn'[h] = "none"
    <3>1. Start(g) \/ Answered(g) \/ Resend(g) \/ Quit(g) \/ Crash(g)
      BY <2>1 DEF GuiNext
    <3>2. CASE Start(g)
      BY <3>2, <1>1, <1>2 DEF Start, EarlyInv
    <3>3. CASE Answered(g)
      BY <3>3, <1>1, <1>2, AnsweredIs DEF Answered, EarlyInv
    <3>4. CASE Resend(g) \/ Quit(g) \/ Crash(g)
      BY <3>4, <1>1, <1>2 DEF Resend, Quit, Crash, EarlyInv
    <3> QED  BY <3>1, <3>2, <3>3, <3>4
  <2>2. ASSUME gui' = gui, conn' = conn PROVE conn'[h] = "none"
    BY <1>2, <2>2 DEF EarlyInv
  <2>3. ASSUME NEW g \in Guis, Handles(g) PROVE conn'[h] = "none"
    <3>1. CASE Accept(g) \/ LostConnection(g)
      BY <3>1, <1>1, <1>2 DEF Accept, LostConnection, EarlyInv, guiVars
    <3>2. CASE ~(Accept(g) \/ LostConnection(g))
      BY <2>2, <2>3, <3>2 DEF Handles, Hello, Channel, ReqStart, InitAlgo, MidiGo, MidiStop, ExitAlgo,
         guiVars
    <3> QED  BY <3>1, <3>2
  <2>4. ASSUME MidiContinues PROVE conn'[h] = "none"
    <3>1. CASE FreeEmulator
      <4>1. gui' = gui /\ conn' = [conn EXCEPT ![midi.gui] = "down"]
        BY <3>1 DEF FreeEmulator, guiVars
      <4>2. conn[h] = "none"
        BY <4>1, <1>2 DEF EarlyInv
      <4>3. midi.gui # h
        BY <4>1, <1>2, NilIsNone DEF EarlyInv
      <4> QED  BY <4>1, <4>2, <4>3, <1>1
    <3>2. CASE ~FreeEmulator
      BY <2>2, <2>4, <3>2 DEF MidiContinues, Hook, Started, CheckLast, Shutdown, Terminate, MidiEnds,
         guiVars, wire
    <3> QED  BY <3>1, <3>2
  <2>5. ASSUME NEW g \in Guis, AudioPeriod(g) \/ Touch(g) PROVE conn'[h] = "none"
    BY <2>2, <2>5 DEF AudioPeriod, SenseExpires, Unlink, Touch, guiVars, wire
  <2>6. ASSUME MainNext \/ Timeouts PROVE conn'[h] = "none"
    BY <2>2, <2>6 DEF MainNext, Timeouts, MainSpawns, MainSeesAudio, MainLeaves, MainJoins,
       MainGivesUp, MainWatches, MainBites, JackGivesUp, guiVars, wire
  <2>7. ASSUME AudioOpening \/ Forget \/ TouchBack \/ AudioStops PROVE conn'[h] = "none"
    BY <2>2, <2>7 DEF AudioOpening, AudioBegins, AudioOpens, AudioFails, JackActivates, Forget,
       TouchBack, AudioStops, guiVars, wire
  <2>8. ASSUME UNCHANGED vars PROVE conn'[h] = "none"
    BY <2>2, <2>8 DEF vars
  <2> QED  BY <2>1, <2>3, <2>4, <2>5, <2>6, <2>7, <2>8 DEF Next
<1>3. ASSUME midi'.pc = "hook" PROVE midi'.emu = midi'.gui /\ midi'.gui # Nil
  <2>1. ASSUME NEW g \in Guis, Hello(g) PROVE midi'.emu = midi'.gui /\ midi'.gui # Nil
    BY <2>1, NilIsNone DEF Hello, To
  <2>2. CASE midi' = midi
    BY <1>3, <2>2 DEF EarlyInv
  <2> QED  BY <1>3, <2>1, <2>2, MidiMoves
<1>4. ASSUME midi'.gui # Nil PROVE gui'[midi'.gui] # "off"
  <2>1. ASSUME NEW h \in Guis, gui[h] # "off" PROVE gui'[h] # "off"
    <3>1. ASSUME NEW g \in Guis, GuiNext(g) PROVE gui'[h] # "off"
      BY <1>1, <2>1, <3>1, AnsweredIs DEF GuiNext, Start, Resend, Quit, Crash
    <3> QED  BY <2>1, <3>1, GuiStays
  <2>2. midi'.gui = midi.gui \/ \E g \in Guis : midi'.gui = g /\ conn[g] = "open"
    <3>1. ASSUME NEW g \in Guis, Handles(g) PROVE midi'.gui = midi.gui \/ (midi'.gui = g /\ conn[g] = "open")
      BY <3>1 DEF Handles, Accept, LostConnection, Hello, Channel, ReqStart, InitAlgo, MidiGo, MidiStop,
         ExitAlgo, To, Reads
    <3>2. ASSUME MidiContinues PROVE midi'.gui = midi.gui
      BY <1>4, <3>2 DEF MidiContinues, Hook, Started, CheckLast, FreeEmulator, Shutdown, Terminate,
         MidiEnds, Idle, To
    <3>3. ASSUME MainNext \/ Timeouts PROVE midi'.gui = midi.gui
      BY <1>4, <3>3 DEF MainNext, Timeouts, MainSpawns, MainSeesAudio, MainLeaves, MainJoins, CancelMidi,
         To, MainGivesUp, MainWatches, MainBites, JackGivesUp
    <3>4. ASSUME NEW g \in Guis, AudioPeriod(g) \/ Touch(g) \/ GuiNext(g) PROVE midi' = midi
      BY <3>4 DEF AudioPeriod, SenseExpires, Unlink, Touch, GuiNext, Start, Answered, Resend, Quit, Crash
    <3>5. ASSUME AudioOpening \/ Forget \/ TouchBack \/ AudioStops PROVE midi' = midi
      BY <3>5 DEF AudioOpening, AudioBegins, AudioOpens, AudioFails, JackActivates, Forget,
         TouchBack, AudioStops
    <3> QED  BY <3>1, <3>2, <3>3, <3>4, <3>5 DEF Next, vars
  <2> QED  BY <1>1, <1>4, <2>1, <2>2 DEF EarlyInv
<1> QED  BY <1>2, <1>3, <1>4 DEF EarlyInv

\* The types and the turns of the handshake are inductive together.
LEMMA TurnStep == TurnInv /\ [Next]_vars => TurnInv'
<1> SUFFICES ASSUME TurnInv, [Next]_vars PROVE TurnInv'
  OBVIOUS
<1> USE DEF TurnInv
<1>1. EarlyInv
  BY DEF EarlyInv, InboxInv, BusyInv
<1>2. TypeOK' /\ CountInv'
  BY <1>1, TypesStep
<1>3. InboxInv' /\ BusyInv' /\ HelloInv' /\ HookInv' /\ DueInv'
  BY <1>1, InboxStep, BusyStep, HelloStep, HookStep, DueStep DEF BusyInv
<1>4. Patient'
  BY SetupKept DEF Patient
<1> QED  BY <1>2, <1>3, <1>4

\* As long as no GUI waits five seconds for an answer, that is.
LEMMA TurnIf == Spec => [](Patient => TurnInv)
<1>1. Init => (Patient => TurnInv)
  BY TurnInit
<1>2. (Patient => TurnInv) /\ [Next]_vars => (Patient => TurnInv)'
  <2> SUFFICES ASSUME Patient => TurnInv, [Next]_vars, Patient' PROVE TurnInv'
    OBVIOUS
  <2>1. Patient
    BY SetupKept DEF Patient
  <2> QED  BY <2>1, TurnStep
<1> QED  BY <1>1, <1>2, PTL DEF Spec

\* Every variable keeps its type, whatever is started, dies and is interrupted: no
\* sid is above the number of emulators (bristolgetsid), and no more connections
\* are lost than were accepted (midiCheck).
THEOREM LifeTypes == Spec => []TypeOK
<1>1. Init => TypeOK /\ CountInv /\ EarlyInv
  BY TypeInit DEF Init, EarlyInv
<1>2. TypeOK /\ CountInv /\ EarlyInv /\ [Next]_vars => (TypeOK /\ CountInv /\ EarlyInv)'
  BY TypesStep, EarlyStep
<1> QED  BY <1>1, <1>2, PTL DEF Spec

\* A step after which no more is under way for a GUI, and something still is.
LEMMA QueueKept ==
    ASSUME TypeOK, NEW g \in Guis, Queue(g), gui'[g] = gui[g],
           inbox'[g] = inbox[g] \/ (inbox[g] # <<>> /\ inbox'[g] = Tail(inbox[g])),
           gui[g] = "off" => ack'[g] = ack[g], Underway(g)' <= Underway(g),
           gui[g] \in Waiting /\ midi'.pc # "ended" => Underway(g)' >= 1
    PROVE  Queue(g)'
<1>1. Underway(g) \in Int /\ Underway(g)' \in Int
  <2>1. inbox[g] \in Seq(Requests)
    BY DEF TypeOK
  <2>2. inbox'[g] \in Seq(Requests)
    BY <2>1, HeadAndTail
  <2>3. Len(inbox[g]) \in Int /\ Len(inbox'[g]) \in Int
    BY <2>1, <2>2
  <2> QED  BY <2>3 DEF Underway
<1>2. \A S : inbox[g] \in Seq(S) => inbox'[g] \in Seq(S)
  BY HeadAndTail
<1>3. inbox[g] = <<>> => inbox'[g] = <<>>
  OBVIOUS
<1> HIDE DEF Underway
<1> QED  BY <1>1, <1>2, <1>3 DEF Queue

\* What a GUI has sent tells, in general, whether it waits for an answer.
LEMMA QueueRead ==
    ASSUME TypeOK, QueueInv, IdleInv, NEW g \in Guis, NEW op, Reads(g, op)
    PROVE  /\ inbox' = [inbox EXCEPT ![g] = Tail(inbox[g])] /\ inbox'[g] = Tail(inbox[g])
           /\ inbox[g] # <<>> /\ Len(inbox'[g]) = Len(inbox[g]) - 1 /\ Len(inbox'[g]) \in Nat
           /\ midi.pc = "idle" /\ midi.gui = Nil
           /\ gui[g] \in Waiting => op \in Asks
           /\ gui[g] = "hello" => op = "hello"
           /\ op = "exit" => gui[g] = "gone"
<1>1. inbox \in [Guis -> Seq(Requests)] /\ gui[g] \in Waiting \cup {"off", "running", "gone"}
  BY DEF TypeOK
<1>2. /\ inbox[g] # <<>> /\ op = Head(inbox[g]) /\ inbox' = [inbox EXCEPT ![g] = Tail(inbox[g])]
      /\ midi.pc = "idle"
  BY DEF Reads, Selects
<1>3. inbox'[g] = Tail(inbox[g]) /\ Len(inbox'[g]) = Len(inbox[g]) - 1 /\ Len(inbox'[g]) \in Nat
  <2>1. inbox'[g] = Tail(inbox[g])
    BY <1>1, <1>2
  <2> QED  BY <2>1, <1>1, <1>2, HeadAndTail
<1>4. gui[g] \in Waiting => op \in Asks
  BY <1>2, HeadAndTail DEF QueueInv, Queue
<1>5. gui[g] = "running" => op \in Asks \cup {"go"}
  BY <1>2, HeadAndTail DEF QueueInv, Queue
<1>6. gui[g] # "off"
  BY <1>2 DEF QueueInv, Queue
<1>7. op = "exit" => gui[g] = "gone"
  BY <1>1, <1>4, <1>5, <1>6 DEF Asks
<1>8. gui[g] = "hello" => op = "hello"
  BY <1>2, HeadAndTail DEF QueueInv, Queue
<1> QED  BY <1>2, <1>3, <1>4, <1>7, <1>8 DEF IdleInv

\* A GUI sends one request for each answer, and its channel request once more
\* (initConnection).
LEMMA QueueGui ==
    ASSUME TypeOK, EarlyInv, QueueInv, NEW g \in Guis, GuiNext(g)
    PROVE  QueueInv'
<1>1. /\ inbox \in [Guis -> Seq(Requests)] /\ ack \in [Guis -> Sids \cup {NoAck}]
      /\ gui \in [Guis -> Waiting \cup {"off", "running", "gone"}]
      /\ g # Nil
  BY NilIsNone DEF TypeOK
<1>2. midi' = midi
  BY DEF GuiNext, Start, Answered, Resend, Quit, Crash
<1>3. \A h \in Guis : h # g => UNCHANGED <<gui[h], inbox[h], ack[h]>>
  <2>1. CASE Answered(g)
    BY <2>1, <1>1, AnsweredIs DEF Answered, Send
  <2>2. CASE Start(g) \/ Resend(g) \/ Quit(g) \/ Crash(g)
    BY <2>2, <1>1 DEF Start, Resend, Quit, Crash, Send
  <2> QED  BY <2>1, <2>2 DEF GuiNext
<1>4. \A h \in Guis : h # g => Queue(h)'
  BY <1>2, <1>3 DEF QueueInv, Queue, Underway
<1>5. Queue(g)
  BY DEF QueueInv
<1>6. ASSUME NEW S, NEW op \in S, inbox[g] \in Seq(S), inbox'[g] = Append(inbox[g], op)
      PROVE  inbox'[g] \in Seq(S) /\ Len(inbox'[g]) = Len(inbox[g]) + 1 /\ Len(inbox[g]) \in Nat
  BY <1>6
<1>7. CASE Start(g)
  <2>1. /\ gui[g] = "off" /\ gui'[g] = "hello" /\ ack'[g] = ack[g]
        /\ inbox'[g] = Append(inbox[g], "hello")
    BY <1>1, <1>7 DEF Start, Send
  <2>2. inbox[g] = <<>> /\ ack[g] = NoAck
    BY <1>5, <2>1 DEF Queue
  <2>3. midi.gui # g
    BY <1>1, <2>1 DEF EarlyInv
  <2>4. /\ inbox'[g] \in Seq(Asks) /\ inbox'[g] \in Seq({"hello"})
        /\ Len(inbox'[g]) = Len(inbox[g]) + 1
    BY <1>6, <2>1, <2>2 DEF Asks
  <2>5. Underway(g)' = 1
    BY <1>2, <2>1, <2>2, <2>3, <2>4 DEF Underway
  <2> QED  BY <1>4, <2>1, <2>4, <2>5, HandshakeSteps DEF QueueInv, Queue
<1>8. CASE Answered(g)
  <2>1. PICK op \in Asks \cup {"go"} :
            /\ inbox'[g] = Append(inbox[g], op)
            /\ \/ gui[g] = "hello" /\ gui'[g] = "channel" /\ op = "channel"
               \/ gui[g] \in {"channel", "again"} /\ gui'[g] = "start" /\ op = "start"
               \/ gui[g] = "start" /\ gui'[g] = "init" /\ op = "init"
               \/ gui[g] = "init" /\ gui'[g] = "running" /\ op = "go"
    BY <1>1, <1>8, AnsweredIs DEF Send, Asks
  <2>2. ack[g] # NoAck /\ ack'[g] = NoAck
    BY <1>1, <1>8 DEF Answered
  <2>3. inbox[g] \in Seq(Asks) /\ inbox[g] \in Seq(Asks \cup {"go"})
    BY <1>5, <2>1, HandshakeSteps DEF Queue
  <2>4. /\ inbox'[g] \in Seq(Asks \cup {"go"}) /\ Len(inbox'[g]) = Len(inbox[g]) + 1
        /\ Len(inbox[g]) \in Nat /\ (op # "go" => inbox'[g] \in Seq(Asks))
    BY <1>6, <2>1, <2>3
  <2>5. Underway(g)' = Underway(g) /\ Underway(g) \in Nat /\ Underway(g) >= 1
    <3>1. CASE midi.gui = g /\ midi'.gui = g
      BY <3>1, <2>2, <2>4 DEF Underway
    <3>2. CASE midi.gui # g /\ midi'.gui # g
      BY <3>2, <2>2, <2>4 DEF Underway
    <3> QED  BY <1>2, <3>1, <3>2
  <2> HIDE DEF Underway
  <2>6. Queue(g)'
    BY <1>5, <2>1, <2>4, <2>5, HandshakeSteps DEF Queue
  <2> QED  BY <1>4, <2>6 DEF QueueInv
<1>9. CASE Resend(g)
  <2>1. /\ gui[g] = "channel" /\ gui'[g] = "again" /\ ack'[g] = ack[g]
        /\ inbox'[g] = Append(inbox[g], "channel")
    BY <1>1, <1>9 DEF Resend, Send
  <2>2. inbox[g] \in Seq(Asks)
    BY <1>5, <2>1, HandshakeSteps DEF Queue
  <2>3. /\ inbox'[g] \in Seq(Asks) /\ Len(inbox'[g]) = Len(inbox[g]) + 1 /\ Len(inbox[g]) \in Nat
    BY <1>6, <2>1, <2>2 DEF Asks
  <2>4. Underway(g)' = Underway(g) + 1 /\ Underway(g) \in Nat
    <3>1. ack[g] = NoAck /\ ack'[g] = NoAck
      BY <1>9, <2>1 DEF Resend
    <3>2. CASE midi.gui = g /\ midi'.gui = g
      BY <3>1, <3>2, <2>3 DEF Underway
    <3>3. CASE midi.gui # g /\ midi'.gui # g
      BY <3>1, <3>3, <2>3 DEF Underway
    <3> QED  BY <1>2, <3>2, <3>3
  <2> HIDE DEF Underway
  <2>5. Queue(g)'
    BY <1>5, <2>1, <2>3, <2>4, HandshakeSteps DEF Queue
  <2> QED  BY <1>4, <2>5 DEF QueueInv
<1>10. CASE Quit(g) \/ Crash(g)
  <2>1. gui'[g] = "gone"
    BY <1>1, <1>10 DEF Quit, Crash
  <2> QED  BY <1>4, <2>1, HandshakeSteps DEF QueueInv, Queue
<1> QED  BY <1>7, <1>8, <1>9, <1>10 DEF GuiNext

\* The engine reads each request once and answers it once (bristolSystem).
LEMMA QueueStep ==
    ASSUME TypeOK, EarlyInv, HelloInv, HookInv, IdleInv, QueueInv, [Next]_vars
    PROVE  QueueInv'
<1>1. /\ inbox \in [Guis -> Seq(Requests)] /\ ack \in [Guis -> Sids \cup {NoAck}]
      /\ gui \in [Guis -> Waiting \cup {"off", "running", "gone"}]
      /\ midi.gui \in Guis \cup {Nil} /\ Nil \notin Guis
  BY NilIsNone DEF TypeOK
<1>2. \A g \in Guis : Queue(g) /\ Len(inbox[g]) \in Nat
  BY <1>1 DEF QueueInv
<1>3. 0 # NoAck
  BY DEF NoAck
<1>4. ASSUME UNCHANGED <<gui, inbox, ack>>, midi'.gui = midi.gui, midi'.pc # "ended" => midi.pc # "ended"
      PROVE  QueueInv'
  BY <1>4 DEF QueueInv, Queue, Underway
<1>5. ASSUME UNCHANGED <<gui, inbox, ack>>, midi' = midi \/ (midi'.pc = "ended" /\ midi'.gui = Nil)
      PROVE  QueueInv'
  <2>1. ASSUME midi'.pc = "ended", midi'.gui = Nil, NEW h \in Guis PROVE Queue(h)'
    <3>1. Underway(h)' <= Underway(h)
      BY <1>1, <1>2, <1>5, <2>1 DEF Underway
    <3> QED  BY <1>2, <1>5, <2>1, <3>1, QueueKept
  <2> QED  BY <1>4, <1>5, <2>1 DEF QueueInv
<1>6. ASSUME NEW g \in Guis, NEW op, Reads(g, op), gui' = gui, ack' = ack \/ Answer(g, 0),
             midi'.gui \in {g, Nil}, midi'.gui = g => ack' = ack,
             gui[g] \in Waiting => midi'.gui = g \/ ack'[g] # NoAck
      PROVE  QueueInv'
  <2>1. /\ inbox' = [inbox EXCEPT ![g] = Tail(inbox[g])] /\ inbox'[g] = Tail(inbox[g])
        /\ inbox[g] # <<>> /\ Len(inbox'[g]) = Len(inbox[g]) - 1 /\ Len(inbox'[g]) \in Nat
        /\ midi.pc = "idle" /\ midi.gui = Nil
    BY <1>6, QueueRead
  <2>2. ack' = ack \/ ack' = [ack EXCEPT ![g] = 0]
    BY <1>6 DEF Answer
  <2>3. ASSUME NEW h \in Guis, h # g PROVE Queue(h)'
    <3>1. UNCHANGED <<gui[h], inbox[h], ack[h]>> /\ midi.gui # h /\ midi'.gui # h /\ midi.pc # "ended"
      BY <1>1, <1>6, <2>1, <2>2, <2>3
    <3>2. Underway(h)' = Underway(h) /\ Underway(h) \in Int
      BY <1>2, <3>1 DEF Underway
    <3> HIDE DEF Underway
    <3> QED  BY <1>2, <3>1, <3>2 DEF Queue
  <2>4. Underway(g)' <= Underway(g) /\ (gui[g] \in Waiting => Underway(g)' >= 1)
    <3>1. Len(inbox[g]) \in Nat /\ Len(inbox'[g]) = Len(inbox[g]) - 1 /\ Len(inbox'[g]) \in Nat
          /\ midi.gui # g
      BY <1>1, <1>2, <2>1
    <3>2. CASE midi'.gui = g
      <4>1. ack'[g] = ack[g]
        BY <1>6, <3>2
      <4>2. CASE ack[g] = NoAck
        BY <3>1, <3>2, <4>1, <4>2 DEF Underway
      <4>3. CASE ack[g] # NoAck
        BY <3>1, <3>2, <4>1, <4>3 DEF Underway
      <4> QED  BY <4>2, <4>3
    <3>3. CASE midi'.gui # g /\ ack'[g] = NoAck
      <4>1. gui[g] \notin Waiting
        BY <1>1, <1>6, <3>3
      <4>2. ack[g] = NoAck
        BY <1>1, <1>3, <2>2, <3>3
      <4> QED  BY <3>1, <3>3, <4>1, <4>2 DEF Underway
    <3>4. CASE midi'.gui # g /\ ack'[g] # NoAck
      <4>1. CASE ack[g] = NoAck
        BY <3>1, <3>4, <4>1 DEF Underway
      <4>2. CASE ack[g] # NoAck
        BY <3>1, <3>4, <4>2 DEF Underway
      <4> QED  BY <4>1, <4>2
    <3> QED  BY <3>2, <3>3, <3>4
  <2>5. gui[g] = "off" => ack'[g] = ack[g]
    BY <1>2, <2>1 DEF Queue
  <2>6. Queue(g)'
    <3> HIDE DEF Underway
    <3> QED  BY <1>2, <1>6, <2>1, <2>4, <2>5, QueueKept
  <2> QED  BY <2>3, <2>6 DEF QueueInv
<1>7. ASSUME NEW g \in Guis, Handles(g) PROVE QueueInv'
  <2>1. CASE Accept(g) \/ LostConnection(g)
    BY <2>1, <1>4 DEF Accept, LostConnection, guiVars
  <2>2. CASE Hello(g)
    BY <2>2, <1>6 DEF Hello, To, guiVars
  <2>3. CASE MidiGo(g) \/ MidiStop(g)
    <3>1. PICK op \in {"go", "stop"} : Reads(g, op) /\ gui' = gui /\ ack' = ack /\ midi' = midi
      BY <2>3 DEF MidiGo, MidiStop, guiVars
    <3>2. midi.gui = Nil /\ gui[g] \notin Waiting
      BY <3>1, QueueRead DEF Asks
    <3> QED  BY <3>1, <3>2, <1>6
  <2>4. CASE ExitAlgo(g)
    <3>1. Reads(g, "exit") /\ gui' = gui /\ ack' = ack
          /\ (midi' = midi \/ To("marked", g, Find(told[g])))
      BY <2>4 DEF ExitAlgo, guiVars
    <3>2. gui[g] \notin Waiting /\ midi.gui = Nil
      BY <3>1, QueueRead, HandshakeSteps
    <3> QED  BY <3>1, <3>2, <1>6 DEF To
  <2>5. ASSUME NEW op \in {"channel", "start", "init"}, Reads(g, op), gui' = gui, midi' = midi,
               IF eng.hello THEN Answer(g, 0) ELSE ack' = ack, gui[g] \in Waiting => eng.hello
        PROVE  QueueInv'
    <3>1. midi.gui = Nil
      BY <2>5, QueueRead
    <3>2. ASSUME gui[g] \in Waiting PROVE ack'[g] # NoAck
      <4>1. ack' = [ack EXCEPT ![g] = 0]
        BY <2>5, <3>2, HandshakeSteps DEF Answer
      <4> QED  BY <4>1, <1>1, <1>3
    <3>3. ack' = ack \/ Answer(g, 0)
      BY <2>5
    <3> QED  BY <1>1, <2>5, <3>1, <3>2, <3>3, <1>6
  <2>6. ASSUME NEW op \in {"channel", "start", "init"}, Reads(g, op), gui[g] \in Waiting
        PROVE  eng.hello
    <3>1. gui[g] # "hello"
      BY <2>6, QueueRead
    <3> QED  BY <2>6, <3>1 DEF HelloInv
  <2>7. CASE Channel(g)
    BY <2>5, <2>6, <2>7 DEF Channel, guiVars
  <2>8. CASE InitAlgo(g)
    <3>1. Reads(g, "init") /\ gui' = gui /\ midi' = midi
          /\ (IF eng.hello THEN Answer(g, 0) ELSE ack' = ack)
      BY <2>8 DEF InitAlgo, guiVars
    <3> QED  BY <3>1, <2>5, <2>6
  <2>9. CASE ReqStart(g)
    <3>1. CASE eng.hello /\ eng.atStatus = "EXIT"
      <4>1. Reads(g, "start") /\ gui' = gui /\ ack' = ack /\ To("starting", g, Nil)
        BY <2>9, <3>1 DEF ReqStart, guiVars
      <4> QED  BY <4>1, <1>6 DEF To
    <3>2. CASE ~(eng.hello /\ eng.atStatus = "EXIT")
      <4>1. Reads(g, "start") /\ gui' = gui /\ midi' = midi
            /\ (IF eng.hello THEN Answer(g, 0) ELSE ack' = ack)
        BY <2>9, <3>2 DEF ReqStart, guiVars
      <4> QED  BY <4>1, <2>5, <2>6
    <3> QED  BY <3>1, <3>2
  <2> QED  BY <1>7, <2>1, <2>2, <2>3, <2>4, <2>7, <2>8, <2>9 DEF Handles
<1>8. ASSUME NEW result, result # NoAck, Answer(midi.gui, result), UNCHANGED <<gui, inbox>>, Idle,
             midi.gui # Nil
      PROVE  QueueInv'
  <2>1. ack' = ack \/ ack' = [ack EXCEPT ![midi.gui] = result]
    BY <1>8 DEF Answer
  <2>2. midi'.pc = "idle" /\ midi'.gui = Nil /\ midi.pc # "ended"
    BY <1>8 DEF Idle, To, IdleInv
  <2>3. ASSUME NEW h \in Guis, h # midi.gui PROVE Queue(h)'
    <3>1. UNCHANGED <<gui[h], inbox[h], ack[h]>> /\ midi.gui # h /\ midi'.gui # h
      BY <1>1, <1>8, <2>1, <2>2, <2>3
    <3>2. Underway(h)' = Underway(h) /\ Underway(h) \in Int
      BY <1>2, <3>1 DEF Underway
    <3> HIDE DEF Underway
    <3> QED  BY <1>2, <2>2, <3>1, <3>2 DEF Queue
  <2>4. ASSUME NEW h \in Guis, h = midi.gui PROVE Queue(h)'
    <3>1. UNCHANGED <<gui[h], inbox[h]>> /\ midi'.gui # h /\ gui[h] # "off"
      BY <1>1, <1>8, <2>2, <2>4 DEF EarlyInv
    <3>2. gui[h] \in Waiting => ack'[h] # NoAck
      BY <1>1, <1>8, <2>4, HandshakeSteps DEF Answer
    <3>3. Underway(h)' <= Underway(h) /\ (gui[h] \in Waiting => Underway(h)' >= 1)
      <4>1. Len(inbox'[h]) = Len(inbox[h]) /\ Len(inbox[h]) \in Nat /\ midi.gui = h
        BY <1>2, <2>4, <3>1
      <4>2. CASE ack'[h] = NoAck
        <5>1. gui[h] \notin Waiting
          BY <3>2, <4>2
        <5>2. CASE ack[h] = NoAck
          BY <4>1, <4>2, <3>1, <5>1, <5>2 DEF Underway
        <5>3. CASE ack[h] # NoAck
          BY <4>1, <4>2, <3>1, <5>1, <5>3 DEF Underway
        <5> QED  BY <5>2, <5>3
      <4>3. CASE ack'[h] # NoAck
        <5>1. CASE ack[h] = NoAck
          BY <4>1, <4>3, <3>1, <5>1 DEF Underway
        <5>2. CASE ack[h] # NoAck
          BY <4>1, <4>3, <3>1, <5>2 DEF Underway
        <5> QED  BY <5>1, <5>2
      <4> QED  BY <4>2, <4>3
    <3> HIDE DEF Underway
    <3> QED  BY <1>2, <3>1, <3>3, QueueKept
  <2> QED  BY <2>3, <2>4 DEF QueueInv
<1>9. ASSUME MidiContinues PROVE QueueInv'
  <2>1. CASE Hook
    <3>1. midi.gui # Nil /\ midi.emu = midi.gui
      BY <2>1 DEF Hook, EarlyInv
    <3>2. eng.hello
      BY <3>1 DEF HelloInv
    <3>3. Answer(midi.gui, emu[midi.emu].sid) /\ UNCHANGED <<gui, inbox>> /\ Idle
      BY <2>1, <3>2 DEF Hook, guiVars
    <3>4. emu[midi.emu].sid # NoAck
      BY <2>1 DEF Hook, HookInv, NoAck, NoSid
    <3> QED  BY <3>1, <3>3, <3>4, <1>8
  <2>2. CASE Started \/ FreeEmulator
    <3>1. midi.gui # Nil
      BY <2>2 DEF Started, FreeEmulator, IdleInv
    <3>2. Answer(midi.gui, 0) /\ UNCHANGED <<gui, inbox>> /\ Idle
      BY <2>2 DEF Started, FreeEmulator, guiVars
    <3> QED  BY <3>1, <3>2, <1>3, <1>8
  <2>3. CASE CheckLast \/ Shutdown
    <3>1. midi'.gui = midi.gui /\ midi.pc # "ended" /\ UNCHANGED <<gui, inbox, ack>>
      BY <2>3 DEF CheckLast, Shutdown, To, guiVars, wire
    <3> QED  BY <3>1, <1>4
  <2>4. CASE Terminate
    <3>1. midi.pc = "dying" /\ midi'.gui = Nil /\ UNCHANGED <<gui, inbox, ack>>
      BY <2>4 DEF Terminate, Idle, To, guiVars, wire
    <3>2. gui[midi.gui] = "gone"
      BY <3>1 DEF IdleInv, Holding
    <3>3. ASSUME NEW h \in Guis PROVE Queue(h)'
      <4>1. Underway(h)' <= Underway(h) /\ (gui[h] \in Waiting => Underway(h)' = Underway(h))
        <5>1. Len(inbox'[h]) = Len(inbox[h]) /\ Len(inbox[h]) \in Nat /\ ack'[h] = ack[h] /\ midi'.gui # h
          BY <1>1, <1>2, <3>1
        <5>2. CASE midi.gui = h
          BY <5>1, <5>2, <3>2, HandshakeSteps DEF Underway
        <5>3. CASE midi.gui # h
          BY <5>1, <5>3 DEF Underway
        <5> QED  BY <5>2, <5>3
      <4> HIDE DEF Underway
      <4> QED  BY <1>2, <3>1, <4>1, QueueKept DEF Queue
    <3> QED  BY <3>3 DEF QueueInv
  <2>5. CASE MidiEnds
    BY <2>5, <1>5 DEF MidiEnds, To, guiVars, wire
  <2> QED  BY <1>9, <2>1, <2>2, <2>3, <2>4, <2>5 DEF MidiContinues
<1>10. ASSUME MainNext \/ Timeouts PROVE QueueInv'
  <2>1. UNCHANGED <<gui, inbox, ack>> /\ (midi' = midi \/ (midi'.pc = "ended" /\ midi'.gui = Nil))
    BY <1>10 DEF MainNext, Timeouts, MainSpawns, MainSeesAudio, MainLeaves, MainJoins, CancelMidi, To,
       MainGivesUp, MainWatches, MainBites, JackGivesUp, guiVars, wire
  <2> QED  BY <2>1, <1>5
<1>11. ASSUME NEW g \in Guis, AudioPeriod(g) \/ Touch(g) PROVE QueueInv'
  BY <1>11, <1>5 DEF AudioPeriod, SenseExpires, Unlink, Touch, guiVars, wire
<1>12. ASSUME AudioOpening \/ Forget \/ TouchBack \/ AudioStops PROVE QueueInv'
  BY <1>12, <1>5 DEF AudioOpening, AudioBegins, AudioOpens, AudioFails, JackActivates, Forget,
     TouchBack, AudioStops, guiVars, wire
<1>13. ASSUME UNCHANGED vars PROVE QueueInv'
  BY <1>13, <1>5 DEF vars
<1> QED  BY <1>7, <1>9, <1>10, <1>11, <1>12, <1>13, QueueGui DEF Next

\* An exit is only handled for a GUI that has gone (cleanupBristol, bristolSystem).
LEMMA IdleStep ==
    ASSUME TypeOK, IdleInv, QueueInv, [Next]_vars
    PROVE  IdleInv'
<1>1. /\ gui \in [Guis -> Waiting \cup {"off", "running", "gone"}]
      /\ midi.gui \in Guis \cup {Nil} /\ Nil \notin Guis
  BY NilIsNone DEF TypeOK
<1>2. \A g \in Guis : gui[g] = "gone" => gui'[g] = "gone"
  <2>1. ASSUME NEW g \in Guis, GuiNext(g), NEW h \in Guis, gui[h] = "gone" PROVE gui'[h] = "gone"
    BY <1>1, <2>1, AnsweredIs, HandshakeSteps DEF GuiNext, Start, Resend, Quit, Crash
  <2> QED  BY <2>1, GuiStays
<1>3. CASE midi' = midi
  BY <1>1, <1>2, <1>3 DEF IdleInv, Holding
<1>4. CASE midi'.pc \in {"idle", "ended"} /\ midi'.gui = Nil
  BY <1>4 DEF IdleInv, Holding
<1>5. ASSUME NEW g \in Guis, midi'.gui = g, midi'.pc \in {"hook", "starting"} PROVE IdleInv'
  BY <1>1, <1>5 DEF IdleInv, Holding
<1>6. ASSUME midi.pc \in Holding, midi'.pc \in Holding, midi'.gui = midi.gui PROVE IdleInv'
  BY <1>1, <1>2, <1>6 DEF IdleInv, Holding
<1>7. ASSUME NEW g \in Guis, GuiNext(g) \/ AudioPeriod(g) \/ Touch(g) PROVE midi' = midi
  BY <1>7 DEF GuiNext, Start, Answered, Resend, Quit, Crash, AudioPeriod, SenseExpires, Unlink, Touch
<1>8. ASSUME NEW g \in Guis, Handles(g) PROVE IdleInv'
  <2>1. CASE ExitAlgo(g)
    <3>1. Reads(g, "exit") /\ gui' = gui /\ (midi' = midi \/ To("marked", g, Find(told[g])))
      BY <2>1 DEF ExitAlgo, guiVars
    <3>2. gui[g] = "gone"
      BY <3>1, QueueRead
    <3> QED  BY <1>1, <1>3, <3>1, <3>2 DEF To, IdleInv, Holding
  <2>2. CASE ~ExitAlgo(g)
    <3>1. midi' = midi \/ (midi'.gui = g /\ midi'.pc \in {"hook", "starting"})
      BY <1>8, <2>2 DEF Handles, Accept, LostConnection, Hello, Channel, ReqStart, InitAlgo, MidiGo,
         MidiStop, To
    <3> QED  BY <3>1, <1>3, <1>5
  <2> QED  BY <2>1, <2>2
<1>9. ASSUME MidiContinues PROVE IdleInv'
  <2>1. CASE Hook \/ Started \/ FreeEmulator \/ Terminate \/ MidiEnds
    BY <2>1, <1>4 DEF Hook, Started, FreeEmulator, Terminate, MidiEnds, Idle, To
  <2>2. CASE CheckLast \/ Shutdown
    BY <2>2, <1>6 DEF CheckLast, Shutdown, To, Holding
  <2> QED  BY <1>9, <2>1, <2>2 DEF MidiContinues
<1>10. ASSUME MainNext \/ Timeouts PROVE midi' = midi \/ (midi'.pc = "ended" /\ midi'.gui = Nil)
  BY <1>10 DEF MainNext, Timeouts, MainSpawns, MainSeesAudio, MainLeaves, MainJoins, CancelMidi, To,
     MainGivesUp, MainWatches, MainBites, JackGivesUp
<1>11. ASSUME AudioOpening \/ Forget \/ TouchBack \/ AudioStops \/ UNCHANGED vars PROVE midi' = midi
  BY <1>11 DEF AudioOpening, AudioBegins, AudioOpens, AudioFails, JackActivates, Forget, TouchBack,
     AudioStops, vars
<1> QED  BY <1>3, <1>4, <1>7, <1>8, <1>9, <1>10, <1>11 DEF Next

\* However long GUIs wait, what is under way for them is counted.
WaitInv == /\ TypeOK /\ CountInv /\ EarlyInv
           /\ HelloInv /\ HookInv /\ IdleInv /\ QueueInv
LEMMA WaitAlways == Spec => []WaitInv
<1>1. Init => WaitInv
  <2> SUFFICES ASSUME Init PROVE WaitInv
    OBVIOUS
  <2>1. TypeOK /\ CountInv
    BY TypeInit
  <2>2. /\ \A g \in Guis : /\ gui[g] = "off" /\ inbox[g] = <<>> /\ ack[g] = NoAck
                           /\ conn[g] = "none"
        /\ midi.pc = "idle" /\ midi.gui = Nil /\ eng.atStatus = "EXIT" /\ eng.atReq = {}
        /\ audio.pc = "none" /\ main = "loop"
    BY DEF Init
  <2>3. EarlyInv /\ HelloInv /\ HookInv /\ IdleInv /\ QueueInv
    BY <2>2, HandshakeSteps DEF EarlyInv, HelloInv, HookInv, IdleInv, QueueInv, Queue, Holding
  <2> QED  BY <2>1, <2>3 DEF WaitInv
<1>2. WaitInv /\ [Next]_vars => WaitInv'
  <2> SUFFICES ASSUME WaitInv, [Next]_vars PROVE WaitInv'
    OBVIOUS
  <2> USE DEF WaitInv
  <2>1. TypeOK' /\ CountInv' /\ EarlyInv'
    BY TypesStep, EarlyStep
  <2>2. HelloInv' /\ HookInv'
    BY HelloStep, HookStep DEF IdleInv
  <2>3. IdleInv' /\ QueueInv'
    BY IdleStep, QueueStep
  <2> QED  BY <2>1, <2>2, <2>3
<1> QED  BY <1>1, <1>2, PTL DEF Spec

\* Each GUI in the handshake waits for exactly one thing: its request to be read,
\* the MIDI thread to be done with it, or the answer to arrive; one that sent its
\* channel request again for at most two (initConnection, bristolSystem).
THEOREM OneThingAtATime == Spec => []OneAtATime
<1>1. TurnInv => OneAtATime
  <2> SUFFICES ASSUME TurnInv, midi.pc # "ended", NEW g \in Guis, gui[g] \in Waiting
               PROVE  Len(inbox[g]) + (IF ack[g] = NoAck THEN 0 ELSE 1)
                                    + (IF midi.gui = g THEN 1 ELSE 0) = 1
    BY DEF OneAtATime, Underway
  <2>1. g # Nil
    BY NilIsNone
  <2>2. inbox[g] # <<>> \/ ack[g] # NoAck \/ midi.gui = g
    BY DEF TurnInv, DueInv
  <2>3. inbox[g] = <<>> \/ (inbox[g] = <<gui[g]>> /\ ack[g] = NoAck)
    BY DEF TurnInv, InboxInv
  <2>4. midi.gui = g => ack[g] = NoAck /\ inbox[g] = <<>>
    BY <2>1 DEF TurnInv, BusyInv
  <2>5. inbox[g] = <<>> => Len(inbox[g]) = 0
    OBVIOUS
  <2>6. \A r : Len(<<r>>) = 1
    OBVIOUS
  <2>7. inbox[g] = <<gui[g]>> => Len(inbox[g]) = 1
    BY <2>6, Zenon
  <2>8. <<gui[g]>> # <<>>
    OBVIOUS
  <2>9. CASE inbox[g] = <<>>
    BY <2>9, <2>2, <2>4, <2>5
  <2>10. CASE inbox[g] # <<>>
    <3>1. Len(inbox[g]) = 1 /\ ack[g] = NoAck /\ midi.gui # g
      BY <2>10, <2>3, <2>4, <2>7
    <3> QED  BY <3>1
  <2> QED  BY <2>9, <2>10
<1>2. WaitInv /\ ~Patient => OneAtATime
  <2> SUFFICES ASSUME WaitInv, ~Patient, midi.pc # "ended", NEW g \in Guis, gui[g] \in Waiting
               PROVE  Underway(g) = 1 \/ (gui[g] \notin {"hello", "channel"} /\ Underway(g) = 2)
    BY DEF OneAtATime
  <2>1. /\ gui[g] \in {"hello", "channel"} => Underway(g) <= 1
        /\ Underway(g) <= 2 /\ Underway(g) >= 1
    BY DEF WaitInv, QueueInv, Queue
  <2>2. Underway(g) \in Int
    <3>1. Len(inbox[g]) \in Nat
      BY DEF WaitInv, TypeOK
    <3> QED  BY <3>1 DEF Underway
  <2> HIDE DEF Underway
  <2> QED  BY <2>1, <2>2
<1> QED  BY <1>1, <1>2, TurnIf, WaitAlways, PTL

----------------------------------------------------------------------------
(***************************************************************************)
(* The list stays whole.                                                   *)
(***************************************************************************)

\* A new head moves the others one place on (bristolSystem).
LEMMA NumberedAfterHook ==
    ASSUME NEW L, NEW k \in Nat, NEW p \in [L -> 0 .. k - 1], NEW e, NEW head \in L \cup {Nil},
           Numbered(L, p, e, head), NEW g, g \notin L, g # Nil, Nil \notin L, NEW d,
           d[g].next = head, d[g].last = Nil,
           \A b \in L : d[b].next = e[b].next,
           \A b \in L : d[b].last = IF b = head THEN g ELSE e[b].last,
           NEW q, q = [b \in L \cup {g} |-> IF b = g THEN 0 ELSE p[b] + 1]
    PROVE  /\ q \in [L \cup {g} -> 0 .. k]
           /\ Numbered(L \cup {g}, q, d, g)
<1> USE DEF Numbered
<1>1. \A b \in L : p[b] \in Nat /\ p[b] < k /\ b # g /\ b # Nil /\ q[b] = p[b] + 1
  OBVIOUS
<1>2. q[g] = 0
  OBVIOUS
<1>3. q \in [L \cup {g} -> 0 .. k]
  BY <1>1
<1>4. \A b, c \in L \cup {g} : q[b] = q[c] => b = c
  BY <1>1, <1>2
<1>5. ASSUME NEW b \in L \cup {g}
      PROVE  /\ d[b].next \in L \cup {g, Nil} /\ d[b].last \in L \cup {g, Nil}
             /\ q[b] = 0 <=> g = b
             /\ q[b] = 0 <=> d[b].last = Nil
  BY <1>1, <1>2
<1>6. ASSUME NEW b \in L \cup {g}, NEW c \in L \cup {g}
      PROVE  /\ d[b].next = c <=> q[c] = q[b] + 1
             /\ d[c].last = b <=> q[c] = q[b] + 1
  <2>1. CASE b = g /\ c = g
    BY <2>1, <1>1, <1>2
  <2>2. CASE b = g /\ c \in L
    BY <2>2, <1>1, <1>2
  <2>3. CASE b \in L /\ c = g
    BY <2>3, <1>1, <1>2
  <2>4. CASE b \in L /\ c \in L
    BY <2>4, <1>1, <1>2
  <2> QED  BY <2>1, <2>2, <2>3, <2>4
<1>7. Numbered(L \cup {g}, q, d, g)
  BY <1>4, <1>5, <1>6
<1> QED  BY <1>3, <1>7

\* The links of the others pass by b (freeBristolAudio).
PassedBy(L, b, e, d) ==
    \A c \in L : /\ d[c].next = IF c = e[b].last THEN e[b].next ELSE e[c].next
                 /\ d[c].last = IF c # e[b].last /\ c = e[b].next THEN e[b].last ELSE e[c].last

\* What is taken out moves those behind it one place up (freeBristolAudio).
LEMMA NumberedAfterUnlink ==
    ASSUME NEW L, NEW k \in Nat, NEW p \in [L -> 0 .. k - 1], NEW e, NEW head \in L \cup {Nil},
           Numbered(L, p, e, head), NEW b \in L, Nil \notin L, NEW d, PassedBy(L, b, e, d)
    PROVE  \E q \in [L \ {b} -> 0 .. (k - 1) - 1] :
               Numbered(L \ {b}, q, d, IF e[b].last = Nil THEN e[b].next ELSE head)
<1> DEFINE q == [c \in L \ {b} |-> IF p[c] > p[b] THEN p[c] - 1 ELSE p[c]]
<1> USE DEF Numbered, PassedBy
<1>1. \A c \in L : p[c] \in Nat /\ p[c] < k /\ c # Nil
  OBVIOUS
<1>2. \A c \in L \ {b} : p[c] # p[b] /\ q[c] = IF p[c] > p[b] THEN p[c] - 1 ELSE p[c]
  OBVIOUS
<1>3. \A c \in L \ {b} : q[c] \in 0 .. (k - 1) - 1
  BY <1>1, <1>2
<1>4. \A c, x \in L \ {b} : q[c] = q[x] => c = x
  <2> SUFFICES ASSUME NEW c \in L \ {b}, NEW x \in L \ {b}, q[c] = q[x] PROVE p[c] = p[x]
    OBVIOUS
  <2> QED  BY <1>1, <1>2
<1>5. /\ e[b].last = Nil <=> p[b] = 0
      /\ e[b].last # Nil => p[b] = p[e[b].last] + 1 /\ e[b].last \in L \ {b}
      /\ e[b].next # Nil => p[e[b].next] = p[b] + 1 /\ e[b].next \in L \ {b}
  BY <1>1
<1>6. ASSUME NEW c \in L \ {b}
      PROVE  /\ d[c].next \in (L \ {b}) \cup {Nil} /\ d[c].last \in (L \ {b}) \cup {Nil}
             /\ q[c] = 0 <=> (IF e[b].last = Nil THEN e[b].next ELSE head) = c
             /\ q[c] = 0 <=> d[c].last = Nil
  <2>1. d[c].next \in (L \ {b}) \cup {Nil}
    BY <1>1, <1>5
  <2>2. d[c].last \in (L \ {b}) \cup {Nil}
    BY <1>1, <1>5
  <2>3. CASE p[b] = 0
    <3>1. p[c] > p[b] /\ q[c] = p[c] - 1
      BY <2>3, <1>1, <1>2
    <3>2. q[c] = 0 <=> e[b].next = c
      BY <3>1, <2>3, <1>1
    <3>3. q[c] = 0 <=> d[c].last = Nil
      BY <3>1, <3>2, <2>3, <1>1, <1>5
    <3> QED  BY <2>1, <2>2, <2>3, <3>2, <3>3, <1>5
  <2>4. CASE p[b] # 0
    <3>1. q[c] = 0 <=> p[c] = 0
      BY <2>4, <1>1, <1>2
    <3>2. q[c] = 0 <=> d[c].last = Nil
      BY <3>1, <2>4, <1>1, <1>5
    <3> QED  BY <2>1, <2>2, <2>4, <3>1, <3>2, <1>5
  <2> QED  BY <2>3, <2>4
<1>7. ASSUME NEW c \in L \ {b}, NEW x \in L \ {b}
      PROVE  /\ d[c].next = x <=> q[x] = q[c] + 1
             /\ d[x].last = c <=> q[x] = q[c] + 1
  <2>1. q[x] = q[c] + 1 <=> \/ p[x] = p[c] + 1
                            \/ p[c] + 1 = p[b] /\ p[x] = p[b] + 1
    <3>1. /\ p[b] \in Nat /\ p[c] \in Nat /\ p[x] \in Nat
          /\ p[c] # p[b] /\ p[x] # p[b]
      BY <1>1, <1>2
    <3>2. /\ q[c] = IF p[c] > p[b] THEN p[c] - 1 ELSE p[c]
          /\ q[x] = IF p[x] > p[b] THEN p[x] - 1 ELSE p[x]
      OBVIOUS
    <3> HIDE DEF q, Numbered, PassedBy
    <3> QED  BY <3>1, <3>2
  <2>2. d[c].next = x <=> \/ p[x] = p[c] + 1
                          \/ p[c] + 1 = p[b] /\ p[x] = p[b] + 1
    BY <1>1, <1>2, <1>5
  <2>3. d[x].last = c <=> \/ p[x] = p[c] + 1
                          \/ p[c] + 1 = p[b] /\ p[x] = p[b] + 1
    BY <1>1, <1>2, <1>5
  <2> QED  BY <2>1, <2>2, <2>3
<1>8. Numbered(L \ {b}, q, d, IF e[b].last = Nil THEN e[b].next ELSE head)
  <2> HIDE DEF q
  <2> QED  BY <1>4, <1>6, <1>7
<1>9. q \in [L \ {b} -> 0 .. (k - 1) - 1]
  BY <1>3
<1> HIDE DEF q, Numbered
<1> QED  BY <1>8, <1>9

\* Following next from the head finds every emulator that is listed, and no other
\* (findBristolAudio, doAudioOps).
LEMMA LinkedIsListed ==
    ASSUME Links, ListInv
    PROVE  Linked = Listed
<1>1. Listed \subseteq Guis /\ Nil \notin Listed
  BY NilIsNone DEF Listed
<1>2. PICK p \in [Listed -> 0 .. Cardinality(Listed) - 1] : Numbered(Listed, p, emu, audiolist)
  BY DEF ListInv
<1>3. N \in Nat /\ Cardinality(Listed) \in Nat /\ Cardinality(Listed) <= N
  <2>1. IsFiniteSet(Guis)
    BY NilAssumption
  <2> QED  BY <2>1, <1>1, FS_Subset, FS_CardinalityType DEF N
<1>4. /\ Walk[0] = audiolist
      /\ \A n \in 1 .. N : Walk[n] = IF Walk[n - 1] = Nil THEN Nil ELSE emu[Walk[n - 1]].next
  BY WalkIs
<1>5. \A n \in 0 .. N : Walk[n] \in Listed \cup {Nil}
  <2> DEFINE Bad == {n \in 0 .. N : Walk[n] \notin Listed \cup {Nil}}
  <2> SUFFICES ASSUME Bad # {} PROVE FALSE
    OBVIOUS
  <2>1. Bad \in SUBSET Nat
    BY <1>3
  <2>2. PICK m \in Bad : \A n \in Bad : m <= n
    <3> HIDE DEF Bad
    <3> QED  BY <2>1, Least
  <2>3. m # 0
    BY <1>4 DEF ListInv
  <2>4. m \in 1 .. N /\ m - 1 \in 0 .. N /\ Walk[m - 1] \in Listed \cup {Nil}
    BY <2>2, <2>3, <1>3
  <2>5. Walk[m] \in Listed \cup {Nil}
    BY <2>4, <1>4, <1>2 DEF Numbered
  <2> QED  BY <2>5
<1>6. \A b \in Listed : p[b] \in 0 .. N - 1 /\ Walk[p[b]] = b
  <2>1. \A b \in Listed : p[b] \in 0 .. N - 1
    BY <1>2, <1>3
  <2> DEFINE Bad == {p[b] : b \in {c \in Listed : Walk[p[c]] # c}}
  <2> SUFFICES ASSUME Bad # {} PROVE FALSE
    BY <2>1
  <2>2. Bad \in SUBSET Nat
    BY <2>1
  <2>3. Min(Bad) \in Bad /\ \A n \in Bad : Min(Bad) <= n
    <3> HIDE DEF Bad
    <3> QED  BY <2>2, Least
  <2>4. PICK b \in Listed : Walk[p[b]] # b /\ \A n \in Bad : p[b] <= n
    BY <2>3
  <2>5. CASE p[b] = 0
    <3>1. audiolist = b
      BY <1>2, <2>5 DEF Numbered
    <3> QED  BY <3>1, <2>4, <2>5, <1>4
  <2>6. CASE p[b] # 0
    <3> DEFINE c == emu[b].last
    <3>1. c \in Listed
      BY <1>2, <2>6 DEF Numbered
    <3>2. p[b] = p[c] + 1 /\ emu[c].next = b
      <4>1. p[b] = p[c] + 1
        BY <1>2, <3>1 DEF Numbered
      <4> QED  BY <1>2, <3>1, <4>1 DEF Numbered
    <3>3. p[c] \in 0 .. N - 1 /\ p[b] \in 1 .. N /\ p[b] - 1 = p[c]
      BY <3>1, <3>2, <2>1, <1>3
    <3>4. Walk[p[c]] = c
      <4> SUFFICES ASSUME Walk[p[c]] # c PROVE FALSE
        OBVIOUS
      <4>1. p[c] \in Bad
        BY <3>1
      <4>2. p[b] <= p[c]
        BY <4>1, <2>4
      <4> QED  BY <4>2, <3>2, <3>3
    <3>5. Walk[p[b]] = b
      <4> HIDE DEF c
      <4> QED  BY <3>1, <3>2, <3>3, <3>4, <1>4, <1>1
    <3> QED  BY <3>5, <2>4
  <2> QED  BY <2>5, <2>6
<1>7. Linked = {Walk[n] : n \in 0 .. N - 1} \ {Nil}
  BY DEF Linked, N
<1>8. Linked \subseteq Listed
  BY <1>5, <1>7, <1>3
<1>9. Listed \subseteq Linked
  <2> SUFFICES ASSUME NEW b \in Listed PROVE b \in Linked
    OBVIOUS
  <2>1. p[b] \in 0 .. N - 1 /\ Walk[p[b]] = b /\ b # Nil
    BY <1>6, <1>1
  <2> QED  BY <2>1, <1>7
<1> QED  BY <1>8, <1>9

\* Threads are not interrupted in the middle of a hook, and not cancelled there
\* either (bristolSystem, main).
LEMMA HookEnds ==
    ASSUME TypeOK, StatusInv, [Next]_vars
    PROVE  \/ \E g \in Guis : Hello(g)
           \/ Hook
           \/ midi' = midi
           \/ midi.pc # "hook" /\ midi'.pc # "hook"
<1>1. ASSUME NEW g \in Guis, GuiNext(g) \/ Handles(g) \/ AudioPeriod(g) \/ Touch(g), ~Hello(g)
      PROVE  midi' = midi \/ (midi.pc # "hook" /\ midi'.pc # "hook")
  <2>1. ASSUME GuiNext(g) \/ AudioPeriod(g) \/ Touch(g) PROVE midi' = midi
    BY <2>1 DEF GuiNext, Start, Answered, Resend, Quit, Crash, AudioPeriod, SenseExpires, Unlink, Touch
  <2>2. ASSUME Handles(g) PROVE midi' = midi \/ (midi.pc # "hook" /\ midi'.pc # "hook")
    BY <1>1, <2>2 DEF Handles, Accept, LostConnection, Channel, ReqStart, InitAlgo, MidiGo, MidiStop, ExitAlgo,
       Reads, Selects, To
  <2> QED  BY <1>1, <2>1, <2>2
<1>2. ASSUME MidiContinues PROVE Hook \/ (midi.pc # "hook" /\ midi'.pc # "hook")
  BY <1>2 DEF MidiContinues, Started, CheckLast, FreeEmulator, Shutdown, Terminate, MidiEnds, Idle, To
<1>3. ASSUME MainNext \/ Timeouts PROVE midi' = midi \/ (midi.pc # "hook" /\ midi'.pc # "hook")
  <2>1. ASSUME MainSeesAudio PROVE midi' = midi \/ (midi.pc # "hook" /\ midi'.pc # "hook")
    BY <2>1 DEF MainSeesAudio, StatusInv, CancelMidi, To
  <2>2. ASSUME ~MainSeesAudio PROVE midi' = midi
    BY <1>3, <2>2 DEF MainNext, Timeouts, MainSpawns, MainLeaves, MainJoins, MainGivesUp, MainWatches,
       MainBites, JackGivesUp
  <2> QED  BY <2>1, <2>2
<1>4. ASSUME AudioOpening \/ Forget \/ TouchBack \/ AudioStops PROVE midi' = midi
  BY <1>4 DEF AudioOpening, AudioBegins, AudioOpens, AudioFails, JackActivates, Forget,
     TouchBack, AudioStops
<1>5. ASSUME UNCHANGED vars PROVE midi' = midi
  BY <1>5 DEF vars
<1> QED  BY <1>1, <1>2, <1>3, <1>4, <1>5 DEF Next

\* A step that changes neither links nor sids, and neither creates nor removes an
\* emulator.
SameList ==
    /\ audiolist' = audiolist
    /\ \A b \in Guis : /\ emu'[b].sid = emu[b].sid
                       /\ emu'[b].next = emu[b].next /\ emu'[b].last = emu[b].last
                       /\ \/ emu'[b].life = emu[b].life
                          \/ emu[b].life \in {"new", "ready"} /\ emu'[b].life \in {"new", "ready"}
                                /\ midi.pc = "idle"
                          \/ emu[b].life \in Out /\ emu'[b].life \in Out

\* The list is changed by a hello, and by the audio thread when it removes one
\* (bristolSystem, freeBristolAudio).
LEMMA ListChanges ==
    ASSUME TypeOK, BusyInv, ListInv, RemoveInv, PlayInv, [Next]_vars
    PROVE  \/ \E g \in Guis : Hello(g) \/ Unlink(g)
           \/ Hook
           \/ SameList
<1>1. emu \in [Guis -> Emulators] /\ midi.emu \in Guis \cup {Nil} /\ Nil \notin Guis /\ Links
  BY TypeLinks, NilIsNone DEF Links, TypeOK
<1>2. ASSUME UNCHANGED list PROVE SameList
  BY <1>2 DEF list, SameList
<1>3. ASSUME NEW g \in Guis, Handles(g), ~Hello(g) PROVE SameList
  <2>1. ASSUME InitAlgo(g) PROVE SameList
    <3>1. midi.pc = "idle"
      BY <2>1 DEF InitAlgo, Reads, Selects
    <3>2. \/ UNCHANGED list
          \/ /\ emu' = [emu EXCEPT ![Find(told[g])].flags = @ \ {"HOLDDOWN"},
                                   ![Find(told[g])].life = "ready"]
             /\ Find(told[g]) # Nil /\ audiolist' = audiolist
      BY <2>1 DEF InitAlgo, list
    <3>3. CASE Find(told[g]) # Nil
      <4>1. Find(told[g]) \in Listed
        BY <1>1, <3>3, FindProperties, LinkedIsListed
      <4>2. PICK b \in Listed : UNCHANGED list \/
                /\ emu' = [emu EXCEPT ![b].flags = @ \ {"HOLDDOWN"}, ![b].life = "ready"]
                /\ audiolist' = audiolist
        BY <3>2, <4>1
      <4>3. b \in Guis /\ emu[b].life \in {"new", "ready"}
        BY DEF Listed
      <4>4. ASSUME emu' = [emu EXCEPT ![b].flags = @ \ {"HOLDDOWN"}, ![b].life = "ready"]
            PROVE  \A c \in Guis : /\ emu'[c].sid = emu[c].sid
                                   /\ emu'[c].next = emu[c].next /\ emu'[c].last = emu[c].last
                                   /\ \/ c # b /\ emu'[c].life = emu[c].life
                                      \/ c = b /\ emu'[c].life = "ready"
        BY <4>4, <1>1 DEF Emulators
      <4> QED  BY <3>1, <4>2, <4>3, <4>4, <1>2 DEF SameList
    <3> QED  BY <3>2, <3>3, <1>2
  <2>2. ASSUME ExitAlgo(g) PROVE SameList
    <3>1. PICK b : emu' = emu \/ emu' = [emu EXCEPT ![b].flags = {"HOLDDOWN", "REMOVE"}]
      BY <2>2 DEF ExitAlgo
    <3>2. audiolist' = audiolist
      BY <2>2 DEF ExitAlgo
    <3> QED  BY <3>1, <3>2, <1>1 DEF Emulators, SameList
  <2>3. ASSUME Accept(g) \/ LostConnection(g) \/ Channel(g) \/ ReqStart(g) \/ MidiGo(g) \/ MidiStop(g)
        PROVE  UNCHANGED list
    BY <2>3 DEF Accept, LostConnection, Channel, ReqStart, MidiGo, MidiStop
  <2> QED  BY <1>2, <1>3, <2>1, <2>2, <2>3 DEF Handles
<1>4. ASSUME MidiContinues, ~Hook PROVE SameList
  <2>1. ASSUME FreeEmulator PROVE SameList
    <3>1. /\ emu' = [emu EXCEPT ![midi.emu].life = "freed"] /\ audiolist' = audiolist
          /\ midi.pc = "removing" /\ ~exited
          /\ "REMOVE" \notin emu[midi.emu].flags \/ ~AudioWillRun
      BY <2>1 DEF FreeEmulator, MidiMay
    <3>2. midi.emu \in Guis
      BY <3>1, <1>1 DEF BusyInv, Holding
    <3>3. emu[midi.emu].life \in Out
      BY <3>1 DEF RemoveInv, PlayInv, Holding
    <3>4. PICK b \in Guis : emu[b].life \in Out /\ emu' = [emu EXCEPT ![b].life = "freed"]
      BY <3>1, <3>2, <3>3
    <3>5. \A c \in Guis : /\ emu'[c].sid = emu[c].sid
                          /\ emu'[c].next = emu[c].next /\ emu'[c].last = emu[c].last
                          /\ \/ c # b /\ emu'[c].life = emu[c].life
                             \/ c = b /\ emu'[c].life = "freed"
      BY <3>4, <1>1 DEF Emulators
    <3> QED  BY <3>1, <3>4, <3>5 DEF SameList, Out
  <2>2. ASSUME Started \/ CheckLast \/ Shutdown \/ Terminate \/ MidiEnds PROVE UNCHANGED list
    BY <2>2 DEF Started, CheckLast, Shutdown, Terminate, MidiEnds
  <2> QED  BY <1>2, <1>4, <2>1, <2>2 DEF MidiContinues
<1>5. ASSUME NEW b \in Guis, SenseExpires(b) \/ Touch(b) PROVE SameList
  <2>1. emu' = emu \/ emu' = [emu EXCEPT ![b].flags = @ \cup {"REMOVE"}]
    BY <1>5 DEF SenseExpires, Touch, list
  <2>2. audiolist' = audiolist
    BY <1>5 DEF SenseExpires, Touch, list
  <2> QED  BY <2>1, <2>2, <1>1 DEF Emulators, SameList
<1>6. ASSUME Forget \/ TouchBack PROVE SameList
  <2>1. \/ emu' = [emu EXCEPT ![audio.emu].flags = @ \ {"REMOVE"}]
        \/ emu' = [emu EXCEPT ![audio.emu].flags = audio.flags]
    BY <1>6 DEF Forget, TouchBack
  <2>2. audiolist' = audiolist
    BY <1>6 DEF Forget, TouchBack
  <2> QED  BY <2>1, <2>2, <1>1 DEF Emulators, SameList
<1>7. ASSUME MainNext \/ Timeouts PROVE UNCHANGED list
  BY <1>7 DEF MainNext, Timeouts, MainSpawns, MainSeesAudio, MainLeaves, MainJoins,
     MainGivesUp, MainWatches, MainBites, JackGivesUp
<1>8. ASSUME AudioOpening \/ AudioStops PROVE UNCHANGED list
  BY <1>8 DEF AudioOpening, AudioBegins, AudioOpens, AudioFails, JackActivates, AudioStops
<1>9. ASSUME UNCHANGED vars PROVE UNCHANGED list
  BY <1>9 DEF vars, list
<1>10. ASSUME NEW g \in Guis, GuiNext(g) PROVE UNCHANGED list
  BY <1>10 DEF GuiNext, Start, Answered, Resend, Quit, Crash
<1> QED  BY <1>2, <1>3, <1>4, <1>5, <1>6, <1>7, <1>8, <1>9, <1>10 DEF Next, AudioPeriod

\* What is taken out of the list is passed by, and bears the mark of it
\* (freeBristolAudio).
LEMMA UnlinkIs ==
    ASSUME Links, NEW b \in Guis, Unlink(b)
    PROVE  /\ PassedBy(Guis, b, emu, emu')
           /\ emu'[b].life = "removed"
           /\ \A c \in Guis \ {b} : emu'[c].life = emu[c].life
<1>1. emu \in [Guis -> Emulators]
  BY DEF Links
<1>2. Bypassed(b) \in [Guis -> Emulators]
  BY <1>1 DEF Bypassed, Emulators
<1>3. \A c \in Guis :
         /\ Bypassed(b)[c].next = IF c = emu[b].last THEN emu[b].next ELSE emu[c].next
         /\ Bypassed(b)[c].last = IF c # emu[b].last /\ c = emu[b].next THEN emu[b].last
                                  ELSE emu[c].last
         /\ Bypassed(b)[c].life = emu[c].life
  BY <1>1 DEF Bypassed, Emulators
<1>4. /\ \A c \in Guis :
         /\ emu'[c].next = Bypassed(b)[c].next
         /\ emu'[c].last = Bypassed(b)[c].last
         /\ c # b => emu'[c].life = Bypassed(b)[c].life
      /\ emu'[b].life = "removed"
  <2>1. PICK e \in [Guis -> Emulators] :
            /\ e = Bypassed(b)
            /\ emu' = [e EXCEPT ![b].flags = @ \cup {"HOLDDOWN"}, ![b].life = "removed"]
    BY <1>2 DEF Unlink
  <2> QED  BY <2>1 DEF Emulators
<1> QED  BY <1>3, <1>4 DEF PassedBy

\* A hello is handled once for a GUI: it has no emulator yet (initConnection).
LEMMA HelloIsNew ==
    ASSUME TypeOK, InboxInv, BusyInv, SidInv, NEW g \in Guis, Hello(g)
    PROVE  /\ emu[g].life = "none" /\ inbox[g] = <<"hello">> /\ inbox'[g] = <<>>
           /\ told[g] = NoSid /\ ack[g] = NoAck /\ gui[g] # "off"
           /\ midi.pc = "idle" /\ midi'.pc = "hook" /\ midi'.emu = g
           /\ emu'[g] = [sid |-> NewSid, flags |-> {"HOLDDOWN", "SENSE"},
                         next |-> audiolist, last |-> Nil, life |-> "new"]
           /\ \A h \in Guis \ {g} : emu'[h] = emu[h] /\ inbox'[h] = inbox[h]
           /\ UNCHANGED <<gui, told, ack, audiolist>>
<1>1. Reads(g, "hello")
  BY DEF Hello
<1>2. gui[g] \in Waiting \cup {"off", "running", "gone"}
  BY DEF TypeOK
<1>3. inbox[g] = <<"hello">> /\ inbox'[g] = <<>> /\ ack[g] = NoAck /\ gui[g] # "off"
  BY <1>1, <1>2, ReadFacts DEF Unchained
<1>4. emu[g].life = "none" /\ told[g] = NoSid
  BY <1>3 DEF SidInv
<1>5. midi.pc = "idle" /\ midi'.pc = "hook" /\ midi'.emu = g
  BY <1>1, ReadFacts DEF Hello, To
<1>6. inbox' = [inbox EXCEPT ![g] = Tail(inbox[g])] /\ inbox \in [Guis -> Seq(Requests)]
  BY <1>1 DEF Reads, TypeOK
<1>7. emu \in [Guis -> Emulators]
  BY TypeLinks DEF Links
<1> QED  BY <1>3, <1>4, <1>5, <1>6, <1>7 DEF Hello, guiVars

\* Nothing but a hook and a removal changes the list.
LEMMA ListUntouched ==
    ASSUME ListInv, Listed' = Listed, audiolist' = audiolist,
           \A b \in Listed : emu'[b].next = emu[b].next /\ emu'[b].last = emu[b].last,
           midi'.pc = "hook" => /\ emu'[midi'.emu].life = "new" /\ emu'[midi'.emu].last = Nil
                                /\ emu'[midi'.emu].next = audiolist
    PROVE  ListInv'
<1>1. PICK p \in [Listed -> 0 .. Cardinality(Listed) - 1] : Numbered(Listed, p, emu, audiolist)
  BY DEF ListInv
<1>2. Numbered(Listed, p, emu', audiolist)
  BY <1>1 DEF Numbered
<1> HIDE DEF Numbered
<1> QED  BY <1>1, <1>2 DEF ListInv

\* The list stays whole (bristolSystem, freeBristolAudio).
LEMMA ListStep ==
    ASSUME Whole, TypeOK, InboxInv, BusyInv, ListInv, SidInv, RemoveInv, StatusInv, PlayInv,
           [Next]_vars
    PROVE  ListInv'
<1>1. emu \in [Guis -> Emulators] /\ midi.emu \in Guis \cup {Nil} /\ Nil \notin Guis /\ Links
  BY TypeLinks, NilIsNone DEF Links, TypeOK
<1>2. Listed \subseteq Guis /\ Nil \notin Listed /\ IsFiniteSet(Listed) /\ Cardinality(Listed) \in Nat
  BY <1>1, NilAssumption, FS_Subset, FS_CardinalityType DEF Listed
<1>3. PICK p \in [Listed -> 0 .. Cardinality(Listed) - 1] : Numbered(Listed, p, emu, audiolist)
  BY DEF ListInv
<1>4. audiolist \in Listed \cup {Nil}
  BY DEF ListInv
<1>5. ASSUME NEW g \in Guis, Hello(g) PROVE ListInv'
  <2>1. /\ emu[g].life = "none" /\ midi.pc = "idle" /\ midi'.pc = "hook" /\ midi'.emu = g
        /\ emu'[g].life = "new" /\ emu'[g].last = Nil /\ emu'[g].next = audiolist
        /\ audiolist' = audiolist /\ \A h \in Guis \ {g} : emu'[h] = emu[h]
    BY <1>5, HelloIsNew
  <2>2. g \notin Listed /\ Listed' = Listed
    BY <2>1 DEF Listed, Hooking
  <2>3. \A b \in Listed : emu'[b].next = emu[b].next /\ emu'[b].last = emu[b].last
    BY <2>1, <2>2, <1>2
  <2> QED  BY <2>1, <2>2, <2>3, ListUntouched
<1>6. ASSUME Hook PROVE ListInv'
  <2> DEFINE g == midi.emu
             q == [b \in Listed \cup {g} |-> IF b = g THEN 0 ELSE p[b] + 1]
  <2>1. /\ midi.pc = "hook" /\ midi'.pc = "idle" /\ audiolist' = g
        /\ emu' = IF audiolist = Nil THEN emu ELSE [emu EXCEPT ![audiolist].last = g]
    BY <1>6 DEF Hook, Idle, To
  <2>2. g \in Guis /\ g \notin Listed /\ g # Nil
    BY <2>1, <1>1 DEF BusyInv, Listed, Hooking
  <2>3. emu[g].life = "new" /\ emu[g].last = Nil /\ emu[g].next = audiolist
    BY <2>1 DEF ListInv
  <2>4. \A b \in Guis : /\ emu'[b].next = emu[b].next /\ emu'[b].life = emu[b].life
                        /\ emu'[b].last = IF b = audiolist THEN g ELSE emu[b].last
    BY <2>1, <2>2, <1>1, <1>2, <1>4 DEF Emulators
  <2>5. Listed' = Listed \cup {g}
    BY <2>1, <2>2, <2>3, <2>4 DEF Listed, Hooking
  <2>6. emu'[g].next = audiolist /\ emu'[g].last = Nil
    BY <2>2, <2>3, <2>4, <1>4
  <2>7. /\ q \in [Listed \cup {g} -> 0 .. Cardinality(Listed)]
        /\ Numbered(Listed \cup {g}, q, emu', g)
    <3>1. q = [b \in Listed \cup {g} |-> IF b = g THEN 0 ELSE p[b] + 1]
      OBVIOUS
    <3> HIDE DEF g, q
    <3>2. \A b \in Listed : /\ emu'[b].next = emu[b].next
                            /\ emu'[b].last = IF b = audiolist THEN g ELSE emu[b].last
      BY <2>4, <1>2
    <3> QED  BY <3>1, <3>2, <2>2, <2>6, <1>2, <1>3, <1>4, NumberedAfterHook
  <2>8. Cardinality(Listed \cup {g}) = Cardinality(Listed) + 1
    BY <2>2, <1>2, FS_AddElement
  <2>9. q \in [Listed' -> 0 .. Cardinality(Listed') - 1] /\ Numbered(Listed', q, emu', audiolist')
    <3>1. Cardinality(Listed) = Cardinality(Listed') - 1
      BY <2>5, <2>8, <1>2
    <3> HIDE DEF q, g
    <3> QED  BY <3>1, <2>1, <2>5, <2>7
  <2> HIDE DEF q
  <2>10. audiolist' \in Listed' \cup {Nil} /\ midi'.pc # "hook"
    BY <2>1, <2>5
  <2> QED  BY <2>9, <2>10 DEF ListInv
<1>7. ASSUME NEW b \in Guis, Unlink(b) PROVE ListInv'
  <2> DEFINE head == IF emu[b].last = Nil THEN emu[b].next ELSE audiolist
  <2>1. b \in Listed /\ midi.pc # "hook" /\ midi' = midi /\ audiolist' = head
    <3>1. b \in Linked /\ AudioMay /\ midi' = midi /\ audiolist' = head
      BY <1>7 DEF Unlink, Visits
    <3> QED  BY <3>1, <1>1, LinkedIsListed DEF AudioMay, Whole
  <2>2. /\ PassedBy(Guis, b, emu, emu') /\ emu'[b].life = "removed"
        /\ \A c \in Guis \ {b} : emu'[c].life = emu[c].life
    BY <1>1, <1>7, UnlinkIs
  <2>3. Listed' = Listed \ {b}
    BY <2>1, <2>2 DEF Listed, Hooking
  <2>4. \E q \in [Listed \ {b} -> 0 .. (Cardinality(Listed) - 1) - 1] :
            Numbered(Listed \ {b}, q, emu', head)
    <3>1. PassedBy(Listed, b, emu, emu')
      BY <2>2, <1>2 DEF PassedBy
    <3> QED  BY <3>1, <2>1, <1>2, <1>3, <1>4, NumberedAfterUnlink
  <2>5. Cardinality(Listed \ {b}) = Cardinality(Listed) - 1
    BY <2>1, <1>2, FS_RemoveElement
  <2>6. \E q \in [Listed' -> 0 .. Cardinality(Listed') - 1] :
            Numbered(Listed', q, emu', audiolist')
    <3> HIDE DEF head
    <3> QED  BY <2>1, <2>3, <2>4, <2>5
  <2>7. audiolist' \in Listed' \cup {Nil}
    <3>1. emu[b].next \in (Listed \ {b}) \cup {Nil} /\ (emu[b].last # Nil => audiolist # b)
      BY <1>3, <2>1 DEF Numbered
    <3> QED  BY <3>1, <2>1, <2>3, <1>4
  <2> QED  BY <2>1, <2>6, <2>7 DEF ListInv
<1>8. ASSUME SameList, ~Hook, ~ \E g \in Guis : Hello(g) PROVE ListInv'
  <2>1. midi' = midi \/ (midi.pc # "hook" /\ midi'.pc # "hook")
    BY <1>8, HookEnds
  <2>2. midi.pc # "idle" => \A b \in Guis :
           emu'[b].life = emu[b].life \/ (emu[b].life \in Out /\ emu'[b].life \in Out)
    BY <1>8 DEF SameList
  <2>3. Hooking' = Hooking
    BY <2>1 DEF Hooking
  <2>4. Listed' = Listed
    BY <1>8, <2>3 DEF Listed, SameList, Out
  <2>5. audiolist' = audiolist /\ \A b \in Guis : emu'[b].next = emu[b].next /\ emu'[b].last = emu[b].last
    BY <1>8 DEF SameList
  <2>6. midi'.pc = "hook" => /\ emu'[midi'.emu].life = "new" /\ emu'[midi'.emu].last = Nil
                             /\ emu'[midi'.emu].next = audiolist
    <3> SUFFICES ASSUME midi'.pc = "hook"
                 PROVE  /\ emu'[midi'.emu].life = "new" /\ emu'[midi'.emu].last = Nil
                        /\ emu'[midi'.emu].next = audiolist
      OBVIOUS
    <3>1. midi' = midi /\ midi.pc = "hook" /\ midi.emu \in Guis
      BY <2>1, <1>1 DEF BusyInv
    <3>2. emu[midi.emu].life = "new" /\ emu[midi.emu].last = Nil /\ emu[midi.emu].next = audiolist
      BY <3>1 DEF ListInv
    <3> QED  BY <3>1, <3>2, <2>2, <2>5 DEF Out
  <2>7. \A b \in Listed : emu'[b].next = emu[b].next /\ emu'[b].last = emu[b].last
    BY <2>5, <1>2
  <2> QED  BY <2>4, <2>5, <2>6, <2>7, ListUntouched
<1> QED  BY <1>5, <1>6, <1>7, <1>8, ListChanges

\* Only a hello creates an emulator, and one that is out stays out (bristolSystem,
\* initBristolAudio, freeBristolAudio).
LEMMA LivesKept ==
    ASSUME TypeOK, BusyInv, ListInv, RemoveInv, PlayInv, [Next]_vars,
           ~ \E g \in Guis : Hello(g)
    PROVE  \A b \in Guis : /\ emu'[b].sid = emu[b].sid
                           /\ emu'[b].life = "none" <=> emu[b].life = "none"
                           /\ emu[b].life \in Out => emu'[b].life \in Out
<1>1. emu \in [Guis -> Emulators] /\ Links
  BY TypeLinks DEF Links
<1>2. \A b \in Guis : emu'[b].sid = emu[b].sid
  BY SidsKept
<1>3. ASSUME SameList
      PROVE  \A b \in Guis : /\ emu'[b].life = "none" <=> emu[b].life = "none"
                             /\ emu[b].life \in Out => emu'[b].life \in Out
  BY <1>3 DEF SameList, Out
<1>4. ASSUME Hook PROVE \A b \in Guis : emu'[b].life = emu[b].life
  <2>1. emu' = emu \/ emu' = [emu EXCEPT ![audiolist].last = midi.emu]
    BY <1>4 DEF Hook
  <2> QED  BY <2>1, <1>1 DEF Emulators
<1>5. ASSUME NEW g \in Guis, Unlink(g)
      PROVE  \A b \in Guis : /\ emu'[b].life = "none" <=> emu[b].life = "none"
                             /\ emu[b].life \in Out => emu'[b].life \in Out
  <2>1. g \in Listed
    BY <1>1, <1>5, LinkedIsListed DEF Unlink, Visits
  <2>2. emu'[g].life = "removed" /\ \A c \in Guis \ {g} : emu'[c].life = emu[c].life
    BY <1>1, <1>5, UnlinkIs
  <2> QED  BY <2>1, <2>2 DEF Listed, Out
<1> QED  BY <1>2, <1>3, <1>4, <1>5, ListChanges

\* The answer to a hello is the sid of the emulator it created; all other answers
\* say nothing of it.
LEMMA SidKept ==
    ASSUME SidInv, UNCHANGED <<gui, told>>,
           \A h \in Guis : \/ inbox'[h] = inbox[h]
                           \/ inbox'[h] = <<>>
                           \/ inbox'[h] # <<"hello">> /\ inbox[h] # <<>> /\ inbox[h] # <<"hello">>,
           \A h \in Guis : gui[h] = "hello" => ack'[h] = ack[h],
           \A h \in Guis : /\ emu'[h].sid = emu[h].sid
                           /\ emu'[h].life = "none" <=> emu[h].life = "none",
           Hooking' \subseteq Hooking
    PROVE  SidInv'
<1> SUFFICES ASSUME NEW g \in Guis
             PROVE  /\ emu'[g].life # "none" => gui'[g] # "off" /\ inbox'[g] # <<"hello">>
                    /\ gui'[g] \in {"channel", "start", "init", "running"} => told'[g] # NoSid
                    /\ inbox'[g] # <<>> => inbox'[g] = <<"hello">> \/ told'[g] # NoSid
                    /\ told'[g] # NoSid =>
                          emu'[g].sid = told'[g] /\ emu'[g].life # "none" /\ g \notin Hooking'
                    /\ gui'[g] = "hello" /\ ack'[g] # NoAck =>
                          emu'[g].sid = ack'[g] /\ emu'[g].life # "none" /\ g \notin Hooking'
  BY DEF SidInv
<1>1. <<"hello">> # <<>>
  OBVIOUS
<1> QED  BY <1>1 DEF SidInv

\* What a GUI does to its end of the connection (initConnection, cleanupBristol).
LEMMA GuiMoves ==
    ASSUME Patient, TypeOK, InboxInv, NEW g \in Guis, GuiNext(g)
    PROVE  /\ UNCHANGED <<setup, emu, audiolist, eng, midi, main, audio, exited>>
           /\ \A h \in Guis \ {g} : UNCHANGED <<gui[h], inbox[h], ack[h], told[h]>>
           /\ \/ /\ gui[g] = "off" /\ gui'[g] = "hello" /\ ack'[g] = NoAck
                 /\ inbox'[g] = <<"hello">> /\ told'[g] = told[g]
              \/ /\ gui[g] = "hello" /\ gui'[g] = "channel" /\ ack[g] # NoAck /\ ack'[g] = NoAck
                 /\ inbox'[g] = <<"channel">> /\ told'[g] = ack[g]
              \/ /\ gui[g] = "channel" /\ gui'[g] = "start" /\ ack[g] # NoAck /\ ack'[g] = NoAck
                 /\ inbox'[g] = <<"start">> /\ told'[g] = told[g]
              \/ /\ gui[g] = "start" /\ gui'[g] = "init" /\ ack[g] # NoAck /\ ack'[g] = NoAck
                 /\ inbox'[g] = <<"init">> /\ told'[g] = told[g]
              \/ /\ gui[g] = "init" /\ gui'[g] = "running" /\ ack[g] # NoAck /\ ack'[g] = NoAck
                 /\ inbox'[g] = <<"go">> /\ told'[g] = told[g]
              \/ /\ gui[g] = "running" /\ gui'[g] = "gone" /\ ack'[g] = NoAck
                 /\ inbox'[g] \in Farewells \cup CutShort /\ told'[g] = told[g]
              \/ /\ gui[g] \in Waiting \cup {"running"} /\ gui'[g] = "gone" /\ ack'[g] = NoAck
                 /\ inbox'[g] = inbox[g] /\ told'[g] = told[g]
<1>1. /\ inbox \in [Guis -> Seq(Requests)] /\ ack \in [Guis -> Sids \cup {NoAck}]
      /\ gui \in [Guis -> Waiting \cup {"off", "running", "gone"}]
      /\ told \in [Guis -> Sids \cup {NoSid}]
  BY DEF TypeOK
<1>2. UNCHANGED <<setup, emu, audiolist, eng, midi, main, audio, exited>>
  BY DEF GuiNext, Start, Answered, Resend, Quit, Crash, list
<1>3. \A r : Append(<<>>, r) = <<r>>
  OBVIOUS
<1>4. CASE Start(g)
  <2>1. gui' = [gui EXCEPT ![g] = "hello"] /\ inbox' = [inbox EXCEPT ![g] = Append(inbox[g], "hello")]
        /\ ack' = ack /\ told' = told /\ gui[g] = "off"
    BY <1>4, <1>1 DEF Start, Send
  <2>2. inbox[g] = <<>> /\ ack[g] = NoAck
    BY <2>1, HandshakeSteps DEF InboxInv
  <2>3. inbox'[g] = <<"hello">>
    BY <2>1, <2>2, <1>1, <1>3
  <2> QED  BY <2>1, <2>2, <2>3, <1>1, <1>2
<1>5. CASE Answered(g)
  <2>1. inbox[g] = <<>> /\ ack[g] # NoAck /\ ack' = [ack EXCEPT ![g] = NoAck]
    BY <1>5, <1>1 DEF Answered, InboxInv
  <2>2. PICK op \in Requests :
             /\ inbox' = [inbox EXCEPT ![g] = Append(inbox[g], op)]
             /\ \/ gui[g] = "hello" /\ gui' = [gui EXCEPT ![g] = "channel"] /\ op = "channel"
                   /\ told' = [told EXCEPT ![g] = ack[g]]
                \/ /\ told' = told
                   /\ \/ gui[g] = "channel" /\ gui' = [gui EXCEPT ![g] = "start"] /\ op = "start"
                      \/ gui[g] = "start" /\ gui' = [gui EXCEPT ![g] = "init"] /\ op = "init"
                      \/ gui[g] = "init" /\ gui' = [gui EXCEPT ![g] = "running"] /\ op = "go"
    BY <1>5, AnsweredIs, HandshakeSteps DEF Send, InboxInv
  <2>3. inbox'[g] = <<op>> /\ ack'[g] = NoAck
    BY <2>1, <2>2, <1>1, <1>3
  <2>4. \A h \in Guis \ {g} : UNCHANGED <<gui[h], inbox[h], ack[h], told[h]>>
    BY <2>1, <2>2, <1>1
  <2>5. \/ gui[g] = "hello" /\ gui'[g] = "channel" /\ op = "channel" /\ told'[g] = ack[g]
        \/ gui[g] = "channel" /\ gui'[g] = "start" /\ op = "start" /\ told'[g] = told[g]
        \/ gui[g] = "start" /\ gui'[g] = "init" /\ op = "init" /\ told'[g] = told[g]
        \/ gui[g] = "init" /\ gui'[g] = "running" /\ op = "go" /\ told'[g] = told[g]
    BY <2>2, <1>1
  <2> QED  BY <2>1, <2>3, <2>4, <2>5, <1>2
<1>6. CASE Quit(g)
  <2>1. gui' = [gui EXCEPT ![g] = "gone"] /\ ack' = ack /\ told' = told /\ gui[g] = "running"
        /\ inbox' = [inbox EXCEPT ![g] = inbox[g] \o <<"stop", "exit">>]
    BY <1>6, <1>1 DEF Quit
  <2>2. ack[g] = NoAck /\ (inbox[g] = <<>> \/ inbox[g] = <<"go">>)
    BY <2>1, HandshakeSteps DEF InboxInv
  <2>3. inbox'[g] = inbox[g] \o <<"stop", "exit">>
    BY <2>1, <1>1
  <2>4. inbox'[g] = <<"stop", "exit">> \/ inbox'[g] = <<"go", "stop", "exit">>
    BY <2>2, <2>3, Goodbyes, Zenon
  <2>5. inbox'[g] \in Farewells
    BY <2>4 DEF Farewells
  <2> QED  BY <2>1, <2>2, <2>5, <1>1, <1>2
<1>7. CASE Crash(g)
  <2>1. CASE inbox' = inbox
    BY <1>7, <2>1, <1>1, <1>2 DEF Crash
  <2>2. CASE gui[g] = "running" /\ Send(g, "stop")
    <3>1. inbox[g] = <<>> \/ inbox[g] = <<"go">>
      BY <2>2 DEF InboxInv
    <3>2. inbox'[g] = Append(inbox[g], "stop")
      BY <2>2, <1>1 DEF Send
    <3>3. inbox'[g] = <<"stop">> \/ inbox'[g] = <<"go", "stop">>
      BY <3>1, <3>2, Goodbyes, Zenon
    <3>4. inbox'[g] \in CutShort
      BY <3>3 DEF CutShort
    <3> QED  BY <1>7, <2>2, <3>4, <1>1, <1>2 DEF Crash, Send
  <2> QED  BY <1>7, <2>1, <2>2 DEF Crash
<1> QED  BY <1>4, <1>5, <1>6, <1>7 DEF GuiNext, Resend

\* What the engine does to the wire: it reads a request, and answers one that is
\* not a hello (bristolSystem).
LEMMA EngineMoves ==
    ASSUME TypeOK, InboxInv, BusyInv, [Next]_vars, ~Hook,
           ~ \E g \in Guis : GuiNext(g) \/ Hello(g)
    PROVE  /\ UNCHANGED <<gui, told>>
           /\ \A h \in Guis : \/ inbox'[h] = inbox[h]
                              \/ inbox[h] # <<>> /\ inbox'[h] = <<>>
                              \/ Shorter(inbox[h], inbox'[h])
           /\ \A h \in Guis : \/ ack'[h] = ack[h]
                              \/ gui[h] = "channel"
                              \/ gui[h] = "start" /\ (ReqStart(h) \/ (Started /\ midi.gui = h))
                              \/ gui[h] = "init" /\ InitAlgo(h)
<1>1. /\ inbox \in [Guis -> Seq(Requests)] /\ ack \in [Guis -> Sids \cup {NoAck}]
      /\ gui \in [Guis -> Waiting \cup {"off", "running", "gone"}]
  BY DEF TypeOK
<1> DEFINE Quiet == /\ UNCHANGED <<gui, told>>
                    /\ \A h \in Guis : inbox'[h] = inbox[h] /\ ack'[h] = ack[h]
<1>2. ASSUME NEW g \in Guis, NEW op \in {"channel", "start", "init", "go", "stop", "exit"},
             Reads(g, op), UNCHANGED <<gui, told>>,
             ack' = ack \/ (Answer(g, 0) /\ op \notin {"go", "stop", "exit"})
      PROVE  /\ UNCHANGED <<gui, told>>
             /\ \A h \in Guis : \/ inbox'[h] = inbox[h]
                                \/ inbox[h] # <<>> /\ inbox'[h] = <<>>
                                \/ Shorter(inbox[h], inbox'[h])
             /\ \A h \in Guis : ack'[h] = ack[h] \/ (h = g /\ gui[h] = op)
  <2>1. /\ inbox' = [inbox EXCEPT ![g] = Tail(inbox[g])] /\ gui[g] # "off" /\ inbox[g] # <<>>
        /\ gui[g] \in Waiting => op = gui[g] /\ inbox'[g] = <<>>
        /\ gui[g] = "running" => op = "go" /\ inbox'[g] = <<>>
        /\ gui[g] = "gone" => inbox'[g] = <<>> \/ Shorter(inbox[g], inbox'[g])
    BY <1>2, ReadFacts DEF Shorter
  <2>2. \A h \in Guis \ {g} : inbox'[h] = inbox[h]
    BY <2>1, <1>1
  <2>3. inbox'[g] = <<>> \/ Shorter(inbox[g], inbox'[g])
    BY <2>1, <1>1
  <2>4. \A h \in Guis : ack'[h] = ack[h] \/ (h = g /\ gui[h] = op)
    BY <2>1, <1>1, <1>2 DEF Answer
  <2> QED  BY <1>2, <2>1, <2>2, <2>3, <2>4
<1>3. ASSUME NEW g \in Guis, Handles(g)
      PROVE  /\ UNCHANGED <<gui, told>>
             /\ \A h \in Guis : \/ inbox'[h] = inbox[h]
                                \/ inbox[h] # <<>> /\ inbox'[h] = <<>>
                                \/ Shorter(inbox[h], inbox'[h])
             /\ \A h \in Guis : \/ ack'[h] = ack[h]
                                \/ gui[h] = "channel"
                                \/ gui[h] = "start" /\ ReqStart(h)
                                \/ gui[h] = "init" /\ InitAlgo(h)
  <2>1. CASE Accept(g) \/ LostConnection(g)
    BY <2>1 DEF Accept, LostConnection, guiVars
  <2>2. CASE Channel(g)
    <3>1. Reads(g, "channel") /\ UNCHANGED <<gui, told>> /\ (ack' = ack \/ Answer(g, 0))
      BY <2>2 DEF Channel, guiVars
    <3> QED  BY <3>1, <1>2
  <2>3. CASE ReqStart(g)
    <3>1. Reads(g, "start") /\ UNCHANGED <<gui, told>> /\ (ack' = ack \/ Answer(g, 0))
      BY <2>3 DEF ReqStart, guiVars
    <3> QED  BY <2>3, <3>1, <1>2
  <2>4. CASE InitAlgo(g)
    <3>1. Reads(g, "init") /\ UNCHANGED <<gui, told>> /\ (ack' = ack \/ Answer(g, 0))
      BY <2>4 DEF InitAlgo, guiVars
    <3> QED  BY <2>4, <3>1, <1>2
  <2>5. CASE MidiGo(g) \/ MidiStop(g)
    <3>1. PICK op \in {"go", "stop"} : Reads(g, op) /\ UNCHANGED <<gui, told>> /\ ack' = ack
      BY <2>5 DEF MidiGo, MidiStop, guiVars
    <3>2. \A h \in Guis : ack'[h] = ack[h]
      BY <3>1
    <3> QED  BY <3>1, <3>2, <1>2
  <2>6. CASE ExitAlgo(g)
    <3>1. Reads(g, "exit") /\ UNCHANGED <<gui, told>> /\ ack' = ack
      BY <2>6 DEF ExitAlgo, guiVars
    <3>2. \A h \in Guis : ack'[h] = ack[h]
      BY <3>1
    <3> QED  BY <3>1, <3>2, <1>2
  <2> QED  BY <1>3, <2>1, <2>2, <2>3, <2>4, <2>5, <2>6 DEF Handles
<1>4. ASSUME MidiContinues
      PROVE  /\ UNCHANGED <<gui, told, inbox>>
             /\ \A h \in Guis : ack'[h] = ack[h] \/ (gui[h] = "start" /\ Started /\ midi.gui = h)
  <2>1. CASE Started
    <3>1. midi.gui # Nil /\ gui[midi.gui] \in {"start", "gone"}
      BY <2>1 DEF Started, BusyInv
    <3>2. UNCHANGED <<gui, told, inbox>> /\ Answer(midi.gui, 0)
      BY <2>1 DEF Started, guiVars
    <3>3. \A h \in Guis : ack'[h] = ack[h] \/ (midi.gui = h /\ gui[h] = "start")
      BY <3>1, <3>2, <1>1 DEF Answer
    <3> QED  BY <2>1, <3>2, <3>3
  <2>2. CASE FreeEmulator
    <3>1. gui[midi.gui] = "gone"
      BY <2>2 DEF FreeEmulator, BusyInv, Holding
    <3>2. UNCHANGED <<gui, told, inbox>> /\ Answer(midi.gui, 0)
      BY <2>2 DEF FreeEmulator, guiVars
    <3> QED  BY <3>1, <3>2 DEF Answer
  <2>3. CASE CheckLast \/ Shutdown \/ Terminate \/ MidiEnds
    BY <2>3 DEF CheckLast, Shutdown, Terminate, MidiEnds, guiVars, wire
  <2> QED  BY <1>4, <2>1, <2>2, <2>3 DEF MidiContinues
<1>5. ASSUME NEW g \in Guis, AudioPeriod(g) \/ Touch(g) PROVE Quiet
  BY <1>5 DEF AudioPeriod, SenseExpires, Unlink, Touch, guiVars, wire
<1>6. ASSUME MainNext \/ Timeouts PROVE Quiet
  BY <1>6 DEF MainNext, Timeouts, MainSpawns, MainSeesAudio, MainLeaves, MainJoins,
     MainGivesUp, MainWatches, MainBites, JackGivesUp, guiVars, wire
<1>7. ASSUME AudioOpening \/ Forget \/ TouchBack \/ AudioStops PROVE Quiet
  BY <1>7 DEF AudioOpening, AudioBegins, AudioOpens, AudioFails, JackActivates, Forget,
     TouchBack, AudioStops, guiVars, wire
<1>8. ASSUME UNCHANGED vars PROVE Quiet
  BY <1>8 DEF vars
<1> QED  BY <1>3, <1>4, <1>5, <1>6, <1>7, <1>8 DEF Next

\* Every GUI is told the sid of its own emulator (bristolSystem, initConnection).
LEMMA SidStep ==
    ASSUME Patient, TypeOK, InboxInv, BusyInv, ListInv, SidInv, RemoveInv, StatusInv, PlayInv, [Next]_vars
    PROVE  SidInv'
<1>1. \A r, s : <<r>> = <<s>> => r = s
  OBVIOUS
<1>2. \A r, s, t : <<r, s>> # <<t>> /\ <<r>> # <<>> /\ <<r, s>> # <<>>
  OBVIOUS
<1>3. NoAck = NoSid
  BY DEF NoAck, NoSid
<1>4. ASSUME NEW g \in Guis, GuiNext(g) PROVE SidInv'
  <2> SUFFICES ASSUME NEW h \in Guis
               PROVE  /\ emu'[h].life # "none" => gui'[h] # "off" /\ inbox'[h] # <<"hello">>
                      /\ gui'[h] \in {"channel", "start", "init", "running"} => told'[h] # NoSid
                      /\ inbox'[h] # <<>> => inbox'[h] = <<"hello">> \/ told'[h] # NoSid
                      /\ told'[h] # NoSid =>
                            emu'[h].sid = told'[h] /\ emu'[h].life # "none" /\ h \notin Hooking'
                      /\ gui'[h] = "hello" /\ ack'[h] # NoAck =>
                            emu'[h].sid = ack'[h] /\ emu'[h].life # "none" /\ h \notin Hooking'
    BY DEF SidInv
  <2>1. UNCHANGED <<emu, midi>> /\ Hooking' = Hooking
    BY <1>4, GuiMoves DEF Hooking
  <2>2. CASE h # g
    <3>1. UNCHANGED <<gui[h], inbox[h], ack[h], told[h]>>
      BY <1>4, <2>2, GuiMoves
    <3> QED  BY <2>1, <3>1 DEF SidInv
  <2>3. CASE h = g
    <3>1. CASE gui[g] = "off" /\ gui'[g] = "hello" /\ ack'[g] = NoAck
                 /\ inbox'[g] = <<"hello">> /\ told'[g] = told[g]
      BY <2>1, <2>3, <3>1 DEF SidInv
    <3>2. CASE gui[g] = "hello" /\ gui'[g] = "channel" /\ ack[g] # NoAck /\ ack'[g] = NoAck
                 /\ inbox'[g] = <<"channel">> /\ told'[g] = ack[g]
      BY <1>1, <1>3, <2>1, <2>3, <3>2 DEF SidInv
    <3>3. CASE /\ gui[g] \in {"channel", "start", "init"}
               /\ gui'[g] \in {"start", "init", "running"}
               /\ inbox'[g] \in {<<"start">>, <<"init">>, <<"go">>} /\ told'[g] = told[g]
      BY <1>1, <2>1, <2>3, <3>3 DEF SidInv
    <3>4. CASE /\ gui[g] = "running" /\ gui'[g] = "gone" /\ ack'[g] = NoAck
               /\ inbox'[g] \in Farewells \cup CutShort /\ told'[g] = told[g]
      <4>1. inbox'[g] # <<"hello">>
        BY <3>4, Shapes DEF Farewells, CutShort, Chains
      <4> QED  BY <4>1, <2>1, <2>3, <3>4 DEF SidInv
    <3>5. CASE /\ gui'[g] = "gone" /\ ack'[g] = NoAck /\ inbox'[g] = inbox[g] /\ told'[g] = told[g]
      BY <2>1, <2>3, <3>5 DEF SidInv
    <3> QED  BY <1>4, <3>1, <3>2, <3>3, <3>4, <3>5, GuiMoves
  <2> QED  BY <2>2, <2>3
<1>5. ASSUME NEW g \in Guis, Hello(g) PROVE SidInv'
  <2>1. /\ inbox'[g] = <<>> /\ told[g] = NoSid /\ ack[g] = NoAck /\ gui[g] # "off" /\ inbox[g] # <<>>
        /\ midi.pc = "idle" /\ midi'.pc = "hook" /\ midi'.emu = g
        /\ emu'[g].life = "new"
        /\ \A h \in Guis \ {g} : emu'[h] = emu[h] /\ inbox'[h] = inbox[h]
        /\ UNCHANGED <<gui, told, ack>>
    BY <1>2, <1>5, HelloIsNew
  <2>2. Hooking = {} /\ Hooking' = {g}
    BY <2>1 DEF Hooking
  <2>3. gui[g] \notin {"channel", "start", "init", "running"}
    BY <2>1 DEF SidInv
  <2> SUFFICES ASSUME NEW h \in Guis
               PROVE  /\ emu'[h].life # "none" => gui'[h] # "off" /\ inbox'[h] # <<"hello">>
                      /\ gui'[h] \in {"channel", "start", "init", "running"} => told'[h] # NoSid
                      /\ inbox'[h] # <<>> => inbox'[h] = <<"hello">> \/ told'[h] # NoSid
                      /\ told'[h] # NoSid =>
                            emu'[h].sid = told'[h] /\ emu'[h].life # "none" /\ h \notin Hooking'
                      /\ gui'[h] = "hello" /\ ack'[h] # NoAck =>
                            emu'[h].sid = ack'[h] /\ emu'[h].life # "none" /\ h \notin Hooking'
    BY DEF SidInv
  <2>4. CASE h # g
    BY <2>1, <2>2, <2>4 DEF SidInv
  <2>5. CASE h = g
    BY <2>1, <2>2, <2>3, <2>5, <1>2
  <2> QED  BY <2>4, <2>5
<1>6. ASSUME ~ \E g \in Guis : Hello(g)
      PROVE  \A h \in Guis : emu'[h].sid = emu[h].sid /\ (emu'[h].life = "none" <=> emu[h].life = "none")
  BY <1>6, LivesKept
<1>7. ASSUME Hook, ~ \E g \in Guis : Hello(g) PROVE SidInv'
  <2>1. /\ midi.pc = "hook" /\ midi'.pc = "idle" /\ midi.emu = midi.gui /\ midi.gui \in Guis
        /\ gui[midi.gui] \in {"hello", "gone"} /\ ack[midi.gui] = NoAck
    BY <1>7 DEF Hook, Idle, To, BusyInv, TypeOK
  <2>2. /\ UNCHANGED <<gui, told, inbox>>
        /\ ack' = ack \/ Answer(midi.gui, emu[midi.emu].sid)
    BY <1>7 DEF Hook, guiVars
  <2>3. Hooking = {midi.gui} /\ Hooking' = {} /\ emu[midi.gui].life # "none"
    BY <2>1 DEF Hooking, ListInv
  <2>4. \A h \in Guis : ack'[h] = ack[h] \/ (h = midi.gui /\ ack'[h] = emu[h].sid)
    BY <2>1, <2>2 DEF Answer, TypeOK
  <2> HIDE DEF Hooking
  <2> QED  BY <1>6, <1>7, <2>1, <2>2, <2>3, <2>4 DEF SidInv
<1>8. ASSUME ~Hook, ~ \E g \in Guis : GuiNext(g) \/ Hello(g) PROVE SidInv'
  <2>1. /\ UNCHANGED <<gui, told>>
        /\ \A h \in Guis : \/ inbox'[h] = inbox[h]
                           \/ inbox[h] # <<>> /\ inbox'[h] = <<>>
                           \/ Shorter(inbox[h], inbox'[h])
        /\ \A h \in Guis : gui[h] = "hello" => ack'[h] = ack[h]
    BY <1>8, EngineMoves
  <2>2. \A h \in Guis : \/ inbox'[h] = inbox[h]
                        \/ inbox'[h] = <<>>
                        \/ inbox'[h] # <<"hello">> /\ inbox[h] # <<>> /\ inbox[h] # <<"hello">>
    BY <2>1, Shapes
  <2>3. Hooking' \subseteq Hooking
    BY <1>8, HookEnds DEF Hooking
  <2> HIDE DEF Hooking
  <2> QED  BY <1>6, <1>8, <2>1, <2>2, <2>3, SidKept
<1> QED  BY <1>4, <1>5, <1>7, <1>8

\* The mark of an emulator that is to go stays until it is out of the list
\* (bristolSystem, freeBristolAudio).
LEMMA MarkKept ==
    ASSUME TypeOK, InboxInv, BusyInv, ListInv, SidInv, RemoveInv, PlayInv, [Next]_vars,
           midi.pc # "idle", NEW b \in Guis, "REMOVE" \in emu[b].flags \/ emu[b].life \in Out
    PROVE  "REMOVE" \in emu'[b].flags \/ emu'[b].life \in Out
<1>1. emu \in [Guis -> Emulators] /\ Links
  BY TypeLinks DEF Links
<1>2. ASSUME NEW g \in Guis, Hello(g) PROVE FALSE
  BY <1>2 DEF Hello, Reads, Selects
<1> SUFFICES ASSUME ~ \E g \in Guis : Hello(g), "REMOVE" \in emu[b].flags, emu[b].life \notin Out
             PROVE  "REMOVE" \in emu'[b].flags \/ emu'[b].life \in Out
  BY <1>2, LivesKept
<1>3. ASSUME UNCHANGED list PROVE emu'[b] = emu[b]
  BY <1>3 DEF list
<1>4. ASSUME NEW g \in Guis, Handles(g) PROVE "REMOVE" \in emu'[b].flags
  <2>1. ASSUME InitAlgo(g) \/ ExitAlgo(g) PROVE "REMOVE" \in emu'[b].flags
    <3>1. PICK c : \/ emu' = emu
                   \/ emu' = [emu EXCEPT ![c].flags = @ \ {"HOLDDOWN"}, ![c].life = "ready"]
                   \/ emu' = [emu EXCEPT ![c].flags = {"HOLDDOWN", "REMOVE"}]
      BY <2>1 DEF InitAlgo, ExitAlgo
    <3> QED  BY <3>1, <1>1 DEF Emulators
  <2>2. ASSUME Accept(g) \/ LostConnection(g) \/ Channel(g) \/ ReqStart(g) \/ MidiGo(g) \/ MidiStop(g)
        PROVE  UNCHANGED list
    BY <2>2 DEF Accept, LostConnection, Channel, ReqStart, MidiGo, MidiStop
  <2> QED  BY <1>3, <1>4, <2>1, <2>2 DEF Handles
<1>5. ASSUME MidiContinues PROVE "REMOVE" \in emu'[b].flags
  <2>1. \/ UNCHANGED list
        \/ emu' = emu
        \/ emu' = [emu EXCEPT ![audiolist].last = midi.emu]
        \/ emu' = [emu EXCEPT ![midi.emu].life = "freed"]
    BY <1>5 DEF MidiContinues, Hook, FreeEmulator, Started, CheckLast, Shutdown, Terminate, MidiEnds
  <2> QED  BY <1>1, <1>3, <2>1 DEF Emulators
<1>6. ASSUME NEW g \in Guis, SenseExpires(g) \/ Touch(g) PROVE "REMOVE" \in emu'[b].flags
  <2>1. emu' = emu \/ emu' = [emu EXCEPT ![g].flags = @ \cup {"REMOVE"}]
    BY <1>6 DEF SenseExpires, Touch, list
  <2> QED  BY <2>1, <1>1 DEF Emulators
<1>7. ASSUME NEW g \in Guis, Unlink(g) PROVE "REMOVE" \in emu'[b].flags
  <2>1. Bypassed(g) \in [Guis -> Emulators] /\ Bypassed(g)[b].flags = emu[b].flags
    BY <1>1 DEF Bypassed, Emulators
  <2>2. PICK e \in [Guis -> Emulators] :
            /\ e[b].flags = emu[b].flags
            /\ emu' = [e EXCEPT ![g].flags = @ \cup {"HOLDDOWN"}, ![g].life = "removed"]
    BY <2>1, <1>7 DEF Unlink
  <2> QED  BY <2>2 DEF Emulators
<1>8. ASSUME Forget \/ TouchBack PROVE "REMOVE" \in emu'[b].flags
  <2>1. emu' = [emu EXCEPT ![audio.emu].flags = @ \ {"REMOVE"}] /\ audio.emu # b
    BY <1>8 DEF Forget, TouchBack, RemoveInv
  <2> QED  BY <2>1, <1>1 DEF Emulators
<1>9. ASSUME MainNext \/ Timeouts \/ AudioOpening \/ AudioStops PROVE UNCHANGED list
  BY <1>9 DEF MainNext, Timeouts, MainSpawns, MainSeesAudio, MainLeaves, MainJoins, MainGivesUp,
     MainWatches, MainBites, JackGivesUp, AudioOpening, AudioBegins, AudioOpens, AudioFails,
     JackActivates, AudioStops
<1>10. ASSUME NEW g \in Guis, GuiNext(g) PROVE UNCHANGED list
  BY <1>10 DEF GuiNext, Start, Answered, Resend, Quit, Crash
<1>11. ASSUME UNCHANGED vars PROVE UNCHANGED list
  BY <1>11 DEF vars, list
<1> QED  BY <1>3, <1>4, <1>5, <1>6, <1>7, <1>8, <1>9, <1>10, <1>11 DEF Next, AudioPeriod

\* Only the audio thread takes emulators out (freeBristolAudio).
LEMMA OutByUnlink ==
    ASSUME TypeOK, InboxInv, BusyInv, ListInv, SidInv, RemoveInv, PlayInv, [Next]_vars,
           ~ \E g \in Guis : Unlink(g)
    PROVE  \A b \in Guis : emu'[b].life \in Out => emu[b].life \in Out
<1>1. ASSUME NEW g \in Guis, Hello(g) PROVE \A b \in Guis : emu'[b].life \in Out => emu[b].life \in Out
  <2>1. emu'[g].life = "new" /\ \A h \in Guis \ {g} : emu'[h] = emu[h]
    BY <1>1, HelloIsNew
  <2> QED  BY <2>1 DEF Out
<1>2. ASSUME Hook PROVE \A b \in Guis : emu'[b].life = emu[b].life
  <2>1. emu' = emu \/ emu' = [emu EXCEPT ![audiolist].last = midi.emu]
    BY <1>2 DEF Hook
  <2> QED  BY <2>1, TypeLinks DEF Links, Emulators
<1>3. ASSUME SameList PROVE \A b \in Guis : emu'[b].life \in Out => emu[b].life \in Out
  BY <1>3 DEF SameList, Out
<1> QED  BY <1>1, <1>2, <1>3, ListChanges

Early == {"none", "spawned", "opening", "awaiting"}

\* The audio thread begins anew only while no emulator has been removed, and marks
\* what it is about to free (main, freeBristolAudio).
LEMMA RemoveStep ==
    ASSUME Whole, TypeOK, InboxInv, BusyInv, ListInv, SidInv, RemoveInv, StatusInv, PlayInv,
           [Next]_vars
    PROVE  RemoveInv'
<1>1. emu \in [Guis -> Emulators] /\ Links /\ midi.emu \in Guis \cup {Nil} /\ Nil \notin Guis
  BY TypeLinks, NilIsNone DEF Links, TypeOK
<1>2. audio \in [pc : {"none", "spawned", "opening", "awaiting", "run", "unlinked", "touch", "ended"},
                 emu : Guis \cup {Nil}, flags : Flags]
  BY DEF TypeOK
<1> DEFINE Marked == "REMOVE" \in emu[midi.emu].flags \/ emu[midi.emu].life \in Out
           Removing == {"marked", "emptying", "removing"}
<1>3. midi'.pc \in Removing => Marked'
  <2> SUFFICES ASSUME midi'.pc \in Removing PROVE Marked'
    OBVIOUS
  <2>1. CASE midi.pc \in Removing /\ midi'.emu = midi.emu
    <3>1. midi.emu \in Guis /\ Marked
      BY <2>1, <1>1 DEF BusyInv, RemoveInv, Holding
    <3> QED  BY <2>1, <3>1, MarkKept
  <2>2. CASE \E g \in Guis : ExitAlgo(g)
    <3>1. PICK g \in Guis : ExitAlgo(g)
      BY <2>2
    <3>2. midi.pc = "idle" /\ Find(told[g]) \in Guis \cup {Nil}
      BY <3>1, <1>1, FindProperties DEF ExitAlgo, Reads, Selects
    <3>3. PICK b \in Guis : emu' = [emu EXCEPT ![b].flags = {"HOLDDOWN", "REMOVE"}] /\ midi'.emu = b
      BY <3>1, <3>2 DEF ExitAlgo, To
    <3> QED  BY <3>3, <1>1 DEF Emulators
  <2>3. ASSUME MidiContinues PROVE midi.pc \in Removing /\ midi'.emu = midi.emu
    BY <2>3 DEF MidiContinues, Hook, Started, CheckLast, FreeEmulator, Shutdown, Terminate, MidiEnds,
       Idle, To
  <2>4. ASSUME NEW g \in Guis, Handles(g), ~ExitAlgo(g)
        PROVE  midi.pc \in Removing /\ midi'.emu = midi.emu
    BY <2>4 DEF Handles, Accept, LostConnection, Hello, Channel, ReqStart, InitAlgo, MidiGo, MidiStop, To
  <2>5. ASSUME MainNext \/ Timeouts PROVE midi.pc \in Removing /\ midi'.emu = midi.emu
    BY <2>5 DEF MainNext, Timeouts, MainSpawns, MainSeesAudio, MainLeaves, MainJoins,
       MainGivesUp, MainWatches, MainBites, JackGivesUp, CancelMidi, To
  <2>6. ASSUME NEW g \in Guis, GuiNext(g) \/ AudioPeriod(g) \/ Touch(g)
        PROVE  midi.pc \in Removing /\ midi'.emu = midi.emu
    BY <2>6 DEF AudioPeriod, SenseExpires, Unlink, Touch, GuiNext, Start, Answered, Resend, Quit, Crash
  <2>7. ASSUME AudioOpening \/ Forget \/ TouchBack \/ AudioStops
        PROVE  midi.pc \in Removing /\ midi'.emu = midi.emu
    BY <2>7 DEF AudioOpening, AudioBegins, AudioOpens, AudioFails, JackActivates, Forget,
       TouchBack, AudioStops
  <2>8. ASSUME UNCHANGED vars PROVE midi.pc \in Removing /\ midi'.emu = midi.emu
    BY <2>8 DEF vars
  <2> QED  BY <2>1, <2>2, <2>3, <2>4, <2>5, <2>6, <2>7, <2>8 DEF Next
<1>4. ASSUME NEW g \in Guis, Unlink(g)
      PROVE  audio'.pc = "unlinked" /\ audio'.emu = g /\ g # Nil /\ emu'[g].life \in Out
  BY <1>1, <1>2, <1>4, UnlinkIs DEF Unlink, Out
<1>5. ASSUME ~ \E g \in Guis : Unlink(g)
      PROVE  /\ audio'.pc = "unlinked" => audio' = audio
             /\ audio'.pc # "touch"
             /\ audio'.pc \in Early => audio.pc \in Early
  <2>1. ASSUME MainNext \/ Timeouts
        PROVE  audio' = audio \/ (audio'.pc = "spawned" /\ audio.pc \in Early)
    <3>1. CASE MainSpawns
      BY <3>1, <1>2 DEF MainSpawns, SpawnDue, StatusInv, Early
    <3>2. CASE ~MainSpawns
      BY <2>1, <3>2 DEF MainNext, Timeouts, MainSeesAudio, MainLeaves, MainJoins, MainGivesUp,
         MainWatches, MainBites, JackGivesUp
    <3> QED  BY <3>1, <3>2
  <2>2. ASSUME AudioOpening \/ Forget \/ TouchBack \/ AudioStops
        PROVE  \/ audio' = audio
               \/ audio'.pc \in {"opening", "awaiting", "run", "ended"}
                  /\ (audio'.pc \in Early => audio.pc \in Early)
    BY <1>2, <2>2 DEF AudioOpening, AudioBegins, AudioOpens, AudioFails, JackActivates, Forget,
       TouchBack, AudioStops, Early, RemoveInv
  <2>3. ASSUME NEW g \in Guis, GuiNext(g) \/ Handles(g) \/ AudioPeriod(g) \/ Touch(g)
        PROVE  audio' = audio
    BY <1>5, <2>3 DEF GuiNext, Start, Answered, Resend, Quit, Crash, Handles, Accept, LostConnection, Hello,
       Channel, ReqStart, InitAlgo, MidiGo, MidiStop, ExitAlgo, AudioPeriod, SenseExpires, Touch, Whole
  <2>4. ASSUME MidiContinues PROVE audio' = audio
    BY <2>4 DEF MidiContinues, Hook, Started, CheckLast, FreeEmulator, Shutdown, Terminate, MidiEnds
  <2>5. ASSUME UNCHANGED vars PROVE audio' = audio
    BY <2>5 DEF vars
  <2>6. \/ audio' = audio
        \/ /\ audio'.pc \in {"spawned", "opening", "awaiting", "run", "ended"}
           /\ audio'.pc \in Early => audio.pc \in Early
    BY <2>1, <2>2, <2>3, <2>4, <2>5 DEF Next
  <2> QED  BY <2>6 DEF RemoveInv
<1>6. audio'.pc = "unlinked" => audio'.emu # Nil /\ emu'[audio'.emu].life \in Out
  <2>1. CASE \E g \in Guis : Unlink(g)
    BY <2>1, <1>4
  <2>2. CASE ~ \E g \in Guis : Unlink(g)
    <3> SUFFICES ASSUME audio'.pc = "unlinked" PROVE audio'.emu # Nil /\ emu'[audio'.emu].life \in Out
      OBVIOUS
    <3>1. audio' = audio /\ audio.emu \in Guis /\ emu[audio.emu].life \in Out
      BY <2>2, <1>2, <1>5 DEF RemoveInv
    <3>2. ~ \E g \in Guis : Hello(g) /\ g = audio.emu
      BY <3>1, HelloIsNew DEF Out
    <3>3. emu'[audio.emu].life \in Out
      <4>1. CASE \E g \in Guis : Hello(g)
        BY <3>1, <3>2, <4>1, HelloIsNew
      <4>2. CASE ~ \E g \in Guis : Hello(g)
        BY <3>1, <4>2, LivesKept
      <4> QED  BY <4>1, <4>2
    <3> QED  BY <3>1, <3>3, <1>1
  <2> QED  BY <2>1, <2>2
<1>7. audio'.pc # "touch"
  BY <1>4, <1>5
<1>8. audio'.pc \in Early => \A b \in Guis : emu'[b].life \notin Out
  <2>1. CASE \E g \in Guis : Unlink(g)
    BY <2>1, <1>4 DEF Early
  <2>2. CASE ~ \E g \in Guis : Unlink(g)
    BY <2>2, <1>5, OutByUnlink DEF RemoveInv, Early
  <2> QED  BY <2>1, <2>2
<1>9. Holding \ {"dying"} = Removing
  BY DEF Holding
<1> QED  BY <1>3, <1>6, <1>7, <1>8, <1>9 DEF RemoveInv, Early

----------------------------------------------------------------------------
(***************************************************************************)
(* The threads.                                                            *)
(***************************************************************************)
SameRequests == UNCHANGED <<eng.atStatus, eng.atReq, eng.terminate>>
Neutral == {"idle", "hook", "marked", "emptying", "removing"}

Runs == {"run", "touch", "unlinked"}

\* A step of the MIDI or the audio thread that leaves the requests alone.
LEMMA StatusKept ==
    ASSUME StatusInv, setup' = setup, SameRequests, main' = main,
           audio'.pc = audio.pc \/ (audio.pc \in Runs /\ audio'.pc \in Runs),
           exited => exited',
           \/ midi'.pc = midi.pc
           \/ /\ midi.pc \in Neutral /\ midi'.pc \in Neutral
              /\ midi.pc # "idle" \/ ~eng.terminate
    PROVE  StatusInv'
<1> SUFFICES ASSUME ~exited' PROVE StatusInv'
  BY DEF StatusInv
<1>1. ~exited
  OBVIOUS
<1>2. /\ UNCHANGED <<Playing, AudioRuns, Jack, eng.atStatus, eng.atReq, eng.terminate>>
      /\ audio'.pc \notin Runs => audio'.pc = audio.pc
  BY DEF Playing, AudioRuns, Jack, SameRequests, Runs
<1>3. Over => Over'
  BY <1>2, <1>1 DEF Over, Neutral, Runs
<1> HIDE DEF Over, Playing, AudioRuns, Jack
<1> QED  BY <1>1, <1>2, <1>3 DEF StatusInv, Neutral, Runs

\* The status and the requests of the engine agree with what its threads are doing
\* (main, audioThread, bristolSystem).
LEMMA StatusStep ==
    ASSUME TypeOK, StatusInv, [Next]_vars
    PROVE  StatusInv'
<1>1. /\ eng \in [atStatus : {"EXIT", "WAIT", "OK", "FAIL", "TERM"}, atReq : SUBSET {"START", "STOP"},
                  exitReq : BOOLEAN, terminate : BOOLEAN, audiowait : BOOLEAN,
                  hello : BOOLEAN, go : BOOLEAN, opens : 0 .. Cardinality(Guis)]
      /\ midi \in [pc : Threads, gui : Guis \cup {Nil}, emu : Guis \cup {Nil}]
      /\ audio \in [pc : {"none", "spawned", "opening", "awaiting", "run", "unlinked", "touch", "ended"},
                    emu : Guis \cup {Nil}, flags : Flags]
      /\ exited \in BOOLEAN
  BY DEF TypeOK
<1> SUFFICES ASSUME ~exited' PROVE StatusInv'
  BY DEF StatusInv
<1>2. ASSUME NEW g \in Guis, GuiNext(g) \/ AudioPeriod(g) \/ Touch(g) PROVE StatusInv'
  <2>1. setup' = setup /\ UNCHANGED <<eng, midi, main, exited>>
    BY <1>2 DEF GuiNext, Start, Answered, Resend, Quit, Crash, AudioPeriod, SenseExpires, Unlink, Touch
  <2>2. audio' = audio \/ (audio.pc = "run" /\ audio'.pc \in {"unlinked", "touch"})
    <3>1. CASE Unlink(g)
      <4>1. audio.pc = "run" /\ audio' = [audio EXCEPT !.pc = "unlinked", !.emu = g]
        BY <3>1 DEF Unlink, Visits
      <4> QED  BY <4>1, <1>1
    <3>2. CASE Touch(g)
      BY <3>2 DEF Touch, Visits
    <3>3. CASE GuiNext(g) \/ SenseExpires(g)
      BY <3>3 DEF GuiNext, Start, Answered, Resend, Quit, Crash, SenseExpires
    <3> QED  BY <1>2, <3>1, <3>2, <3>3 DEF AudioPeriod
  <2> QED  BY <2>1, <2>2, StatusKept DEF SameRequests, Runs
<1>3. ASSUME NEW g \in Guis, Handles(g), ~ReqStart(g) PROVE StatusInv'
  <2>1. /\ setup' = setup /\ UNCHANGED <<main, audio>> /\ midi.pc = "idle" /\ ~eng.terminate
        /\ ~exited
    BY <1>3 DEF Handles, Accept, LostConnection, Hello, Channel, InitAlgo, MidiGo, MidiStop, ExitAlgo, Reads,
       Selects, MidiMay
  <2>2. midi' = midi \/ midi'.pc \in {"hook", "marked"}
    BY <1>3 DEF Handles, Accept, LostConnection, Hello, Channel, InitAlgo, MidiGo, MidiStop, ExitAlgo, To
  <2>3. SameRequests
    BY <1>1, <1>3 DEF Handles, Accept, LostConnection, Hello, Channel, InitAlgo, MidiGo, MidiStop, ExitAlgo,
       SameRequests, Resumed
  <2> QED  BY <2>1, <2>2, <2>3, StatusKept DEF Neutral
<1>4. ASSUME NEW g \in Guis, ReqStart(g) PROVE StatusInv'
  <2>1. CASE eng' = eng /\ midi' = midi
    BY <2>1, <1>4, StatusKept DEF ReqStart, SameRequests
  <2>2. CASE eng.atStatus = "EXIT" /\ eng' = [eng EXCEPT !.atReq = Requested(@)] /\ To("starting", g, Nil)
    <3>1. /\ eng'.atStatus = "EXIT" /\ eng'.terminate = eng.terminate /\ ~eng.terminate
          /\ eng'.atReq = eng.atReq \cup {"START"} /\ midi'.pc = "starting" /\ midi.pc = "idle"
          /\ UNCHANGED <<main, audio, exited>> /\ setup' = setup /\ ~exited
      BY <1>1, <1>4, <2>2 DEF ReqStart, Requested, To, Reads, Selects, MidiMay
    <3>2. audio.pc \in {"none", "spawned"}
      BY <2>2, <3>1 DEF StatusInv, Over
    <3>3. audio.pc = "none"
      BY <3>1, <3>2 DEF StatusInv
    <3>4. eng'.atReq # {"STOP"}
      BY <3>1
    <3> QED  BY <3>1, <3>3, <3>4 DEF StatusInv
  <2> QED  BY <1>4, <2>1, <2>2 DEF ReqStart
<1>5. ASSUME Hook \/ CheckLast \/ FreeEmulator PROVE StatusInv'
  <2>1. /\ setup' = setup /\ UNCHANGED <<main, audio, exited>>
        /\ midi.pc \in {"hook", "marked", "removing"} /\ midi'.pc \in {"idle", "emptying", "removing"}
    BY <1>5 DEF Hook, CheckLast, FreeEmulator, Idle, To
  <2>2. SameRequests
    BY <1>1, <1>5 DEF Hook, CheckLast, FreeEmulator, SameRequests, Resumed
  <2> QED  BY <2>1, <2>2, StatusKept DEF Neutral
<1>6. ASSUME Started PROVE StatusInv'
  <2>1. /\ UNCHANGED <<eng, main, audio, exited>> /\ midi.pc = "starting" /\ midi'.pc = "idle"
        /\ eng.atStatus = "OK" /\ setup' = setup /\ ~exited
    BY <1>6 DEF Started, MidiMay, Idle, To
  <2>2. Playing /\ (eng.atReq = {"STOP"} => Jack)
    BY <2>1 DEF StatusInv
  <2>3. UNCHANGED <<Playing, AudioRuns, Jack>> /\ (Playing => audio.pc \in Runs \cup {"awaiting"})
    BY <2>1 DEF Playing, AudioRuns, Jack, Runs
  <2> HIDE DEF Playing, AudioRuns, Jack
  <2> QED  BY <2>1, <2>2, <2>3 DEF StatusInv, Runs
<1>7. ASSUME Shutdown PROVE StatusInv'
  <2>1. /\ eng'.atStatus = "TERM" /\ eng'.atReq = {"STOP"} /\ eng'.terminate = eng.terminate
        /\ midi.pc = "emptying" /\ midi'.pc = "dying"
        /\ UNCHANGED <<main, audio, exited>> /\ setup' = setup /\ ~exited
    BY <1>1, <1>7 DEF Shutdown, Stopped, MidiMay, To
  <2>2. audio.pc \notin {"spawned", "opening"}
    BY <2>1 DEF StatusInv
  <2> QED  BY <2>1, <2>2 DEF StatusInv, Over
<1>8. ASSUME Terminate \/ MidiEnds PROVE StatusInv'
  <2>1. /\ eng'.atStatus = eng.atStatus /\ eng'.atReq = eng.atReq /\ eng'.terminate
        /\ midi.pc \in {"dying", "idle"} /\ midi'.pc \in {"idle", "ended"}
        /\ UNCHANGED <<main, audio, exited>> /\ setup' = setup /\ ~exited
    <3>1. CASE Terminate
      BY <1>1, <3>1 DEF Terminate, MidiMay, To, Idle
    <3>2. CASE MidiEnds
      BY <1>1, <3>2 DEF MidiEnds, MidiMay, To
    <3> QED  BY <1>8, <3>1, <3>2
  <2>2. audio.pc \notin {"spawned", "opening"}
    BY <2>1 DEF StatusInv
  <2>3. UNCHANGED <<Playing, AudioRuns, Jack>> /\ Over'
    BY <2>1 DEF Playing, AudioRuns, Jack, Over
  <2> HIDE DEF Playing, AudioRuns, Jack, Over
  <2> QED  BY <2>1, <2>2, <2>3 DEF StatusInv
<1>9. ASSUME MainSpawns PROVE StatusInv'
  <2>1. /\ eng.atStatus = "EXIT" /\ "START" \in eng.atReq /\ main' = "spawning"
        /\ audio'.pc = "spawned" /\ UNCHANGED <<eng, midi, exited>> /\ setup' = setup /\ ~exited
    BY <1>1, <1>9 DEF MainSpawns, SpawnDue
  <2>2. midi.pc = "starting"
    BY <2>1 DEF StatusInv
  <2> QED  BY <2>1, <2>2 DEF StatusInv, Jack
<1>10. ASSUME MainSeesAudio PROVE StatusInv'
  <2>1. /\ main = "spawning" /\ main' = "loop" /\ UNCHANGED <<eng, audio, exited>> /\ setup' = setup
        /\ ~exited
        /\ \/ eng.atStatus = "OK" /\ midi' = midi
           \/ eng.atStatus = "FAIL" /\ midi'.pc = "ended"
    BY <1>10 DEF MainSeesAudio, CancelMidi, To
  <2>2. audio.pc \notin {"spawned", "opening"}
    BY <2>1 DEF StatusInv
  <2>3. UNCHANGED <<Playing, AudioRuns, Jack>>
    BY <2>1 DEF Playing, AudioRuns, Jack
  <2>4. CASE eng.atStatus = "OK" /\ midi' = midi
    <3>1. Over => Over'
      BY <2>1, <2>4 DEF Over
    <3> HIDE DEF Playing, AudioRuns, Jack, Over
    <3> QED  BY <2>1, <2>2, <2>3, <2>4, <3>1 DEF StatusInv
  <2>5. CASE eng.atStatus = "FAIL" /\ midi'.pc = "ended"
    <3>1. Over'
      BY <2>5 DEF Over
    <3> HIDE DEF Playing, AudioRuns, Jack, Over
    <3> QED  BY <2>1, <2>2, <2>3, <2>5, <3>1 DEF StatusInv
  <2> QED  BY <2>1, <2>4, <2>5
<1>11. ASSUME MainGivesUp \/ MainJoins \/ JackGivesUp PROVE FALSE
  BY <1>11 DEF MainGivesUp, MainJoins, JackGivesUp
<1>12. ASSUME MainWatches \/ MainBites PROVE StatusInv'
  <2>1. /\ main \in {"loop", "biting"} /\ main' \in {"loop", "biting"}
        /\ \/ eng' = eng
           \/ eng'.atStatus = "FAIL" /\ eng'.terminate /\ eng'.atReq = eng.atReq
        /\ UNCHANGED <<midi, audio, exited>> /\ setup' = setup /\ ~exited
    BY <1>1, <1>12 DEF MainWatches, MainBites, Bites
  <2>2. audio.pc \notin {"spawned", "opening"}
    BY <2>1 DEF StatusInv
  <2>3. UNCHANGED <<Playing, AudioRuns, Jack>> /\ (Over => Over')
    BY <2>1 DEF Playing, AudioRuns, Jack, Over
  <2>4. CASE eng' = eng
    <3> HIDE DEF Playing, AudioRuns, Jack, Over
    <3> QED  BY <2>1, <2>2, <2>3, <2>4 DEF StatusInv
  <2>5. CASE eng'.atStatus = "FAIL" /\ eng'.terminate /\ eng'.atReq = eng.atReq
    <3>1. Over'
      BY <2>5 DEF Over
    <3> HIDE DEF Playing, AudioRuns, Jack, Over
    <3> QED  BY <2>1, <2>2, <2>3, <2>5, <3>1 DEF StatusInv
  <2> QED  BY <2>1, <2>4, <2>5
<1>13. ASSUME MainLeaves PROVE StatusInv'
  <2>1. /\ main = "loop" /\ main' = "closing"
        /\ eng'.atStatus = eng.atStatus /\ eng'.terminate = eng.terminate
        /\ eng'.atReq = eng.atReq \/ (eng'.atReq = {"STOP"} /\ Jack)
        /\ UNCHANGED <<midi, audio, exited>> /\ setup' = setup /\ ~exited
    BY <1>1, <1>13 DEF MainLeaves
  <2>2. audio.pc \notin {"spawned", "opening"}
    BY <2>1 DEF StatusInv
  <2>3. UNCHANGED <<Playing, AudioRuns, Jack>> /\ (Over => Over')
    BY <2>1 DEF Playing, AudioRuns, Jack, Over
  <2>4. "START" \in eng'.atReq => "START" \in eng.atReq
    BY <2>1
  <2> HIDE DEF Playing, AudioRuns, Jack, Over
  <2> QED  BY <2>1, <2>2, <2>3, <2>4 DEF StatusInv
<1>14. ASSUME AudioBegins PROVE StatusInv'
  <2>1. /\ audio.pc = "spawned" /\ audio'.pc = "opening" /\ eng'.atStatus = "WAIT"
        /\ eng'.atReq = eng.atReq /\ eng'.terminate = eng.terminate
        /\ UNCHANGED <<midi, main, exited>> /\ setup' = setup /\ ~exited
    BY <1>1, <1>14 DEF AudioBegins
  <2> QED  BY <2>1 DEF StatusInv, Jack
<1>15. ASSUME AudioOpens \/ AudioFails PROVE StatusInv'
  <2>1. /\ audio.pc = "opening"
        /\ \/ audio'.pc \in {"awaiting", "run"} /\ eng'.atStatus = "OK"
           \/ audio'.pc = "ended" /\ eng'.atStatus = "FAIL"
        /\ eng'.atReq = eng.atReq /\ eng'.terminate = eng.terminate
        /\ UNCHANGED <<midi, main, exited>> /\ setup' = setup /\ ~exited
    BY <1>1, <1>15 DEF AudioOpens, AudioFails
  <2>2. midi.pc = "starting" /\ main = "spawning"
    BY <2>1 DEF StatusInv
  <2> QED  BY <2>1, <2>2 DEF StatusInv, Jack, Over, Playing, AudioRuns
<1>16. ASSUME JackActivates PROVE StatusInv'
  <2>1. /\ audio.pc = "awaiting" /\ audio'.pc = "run" /\ UNCHANGED <<eng, midi, main, exited>>
        /\ setup' = setup /\ ~exited
    BY <1>1, <1>16 DEF JackActivates
  <2>2. Playing /\ Playing' /\ AudioRuns' /\ Jack' = Jack
    BY <2>1 DEF Playing, AudioRuns, Jack
  <2> HIDE DEF Playing, AudioRuns, Jack
  <2> QED  BY <2>1, <2>2 DEF StatusInv
<1>17. ASSUME Forget PROVE StatusInv'
  <2>1. /\ audio.pc = "unlinked" /\ audio'.pc = "run"
        /\ eng'.atStatus = eng.atStatus \/ eng'.atStatus = "TERM"
        /\ eng'.atReq = eng.atReq /\ eng'.terminate = eng.terminate
        /\ UNCHANGED <<midi, main, exited>> /\ setup' = setup /\ ~exited
    BY <1>1, <1>17 DEF Forget
  <2>2. Playing /\ Playing' /\ AudioRuns' /\ Jack' = Jack
    BY <2>1 DEF Playing, AudioRuns, Jack
  <2> HIDE DEF Playing, AudioRuns, Jack
  <2> QED  BY <2>1, <2>2 DEF StatusInv
<1>18. ASSUME TouchBack PROVE StatusInv'
  BY <1>1, <1>18, StatusKept DEF TouchBack, SameRequests, Runs
<1>19. ASSUME AudioStops PROVE StatusInv'
  <2>1. /\ audio.pc = "run" /\ audio'.pc = "ended" /\ eng.atReq = {"STOP"} /\ eng'.atReq = {"STOP"}
        /\ eng'.atStatus = "EXIT" /\ eng'.terminate = eng.terminate /\ ~Jack
        /\ UNCHANGED <<midi, main>> /\ setup' = setup /\ ~exited
    BY <1>1, <1>19 DEF AudioStops, AudioMay
  <2>2. midi.pc \in {"dying", "ended"} \/ (midi.pc = "idle" /\ eng.terminate)
    BY <2>1 DEF StatusInv
  <2> QED  BY <2>1, <2>2 DEF StatusInv, Over, Jack
<1>20. ASSUME UNCHANGED vars PROVE StatusInv'
  BY <1>20, StatusKept DEF vars, SameRequests
<1> QED  BY <1>2, <1>3, <1>4, <1>5, <1>6, <1>7, <1>8, <1>9, <1>10, <1>11, <1>12, <1>13, <1>14,
     <1>15, <1>16, <1>17, <1>18, <1>19, <1>20 DEF Next, MidiContinues, MainNext, Timeouts, AudioOpening

\* What is over stays over (bristolSystem, main).
LEMMA OverKept ==
    ASSUME TypeOK, StatusInv, Over, [Next]_vars
    PROVE  Over'
<1>1. /\ eng \in [atStatus : {"EXIT", "WAIT", "OK", "FAIL", "TERM"}, atReq : SUBSET {"START", "STOP"},
                  exitReq : BOOLEAN, terminate : BOOLEAN, audiowait : BOOLEAN,
                  hello : BOOLEAN, go : BOOLEAN, opens : 0 .. Cardinality(Guis)]
      /\ midi \in [pc : Threads, gui : Guis \cup {Nil}, emu : Guis \cup {Nil}]
      /\ audio \in [pc : {"none", "spawned", "opening", "awaiting", "run", "unlinked", "touch", "ended"},
                    emu : Guis \cup {Nil}, flags : Flags]
  BY DEF TypeOK
<1>2. ASSUME UNCHANGED <<midi, audio>>, eng.terminate => eng'.terminate, exited => exited' PROVE Over'
  BY <1>2 DEF Over
<1>3. ASSUME NEW g \in Guis, GuiNext(g) PROVE Over'
  <2>1. UNCHANGED <<eng, midi, audio, exited>>
    BY <1>3 DEF GuiNext, Start, Answered, Resend, Quit, Crash
  <2> QED  BY <1>2, <2>1
<1>4. ASSUME NEW g \in Guis, AudioPeriod(g) \/ Touch(g) PROVE Over'
  <2>1. UNCHANGED <<eng, midi, exited>> /\ audio.pc = "run" /\ ~exited
    BY <1>4 DEF AudioPeriod, SenseExpires, Unlink, Touch, Visits, AudioMay
  <2> QED  BY <2>1 DEF Over
<1>5. ASSUME NEW g \in Guis, Handles(g) PROVE FALSE
  <2>1. midi.pc = "idle" /\ ~eng.terminate /\ ~exited
    BY <1>5 DEF Handles, Accept, LostConnection, Hello, Channel, ReqStart, InitAlgo, MidiGo, MidiStop, ExitAlgo,
       Reads, Selects, MidiMay
  <2> QED  BY <2>1 DEF Over
<1>6. ASSUME MidiContinues PROVE Over'
  <2>1. CASE Terminate
    <3>1. eng'.terminate
      BY <1>1, <2>1 DEF Terminate
    <3> QED  BY <3>1 DEF Over
  <2>2. CASE Shutdown \/ MidiEnds
    BY <2>2 DEF Shutdown, MidiEnds, To, Over
  <2>3. CASE Started
    <3>1. /\ eng.atStatus = "OK" /\ midi.pc = "starting" /\ ~exited /\ UNCHANGED <<eng, audio, exited>>
      BY <2>3 DEF Started, MidiMay
    <3>2. audio.pc # "ended"
      BY <3>1 DEF StatusInv, Playing, AudioRuns
    <3> QED  BY <3>1, <3>2 DEF Over
  <2>4. CASE Hook \/ CheckLast \/ FreeEmulator
    <3>1. midi.pc \in {"hook", "marked", "removing"} /\ ~exited
      BY <2>4 DEF Hook, CheckLast, FreeEmulator, MidiMay
    <3>2. eng'.terminate = eng.terminate
      BY <1>1, <2>4 DEF Hook, CheckLast, FreeEmulator, Resumed
    <3> QED  BY <3>1, <3>2 DEF Over
  <2> QED  BY <1>6, <2>1, <2>2, <2>3, <2>4 DEF MidiContinues
<1>7. ASSUME MainSpawns PROVE Over'
  <2>1. eng.atStatus = "EXIT" /\ "START" \in eng.atReq /\ UNCHANGED <<eng, midi, exited>> /\ ~exited
    BY <1>7 DEF MainSpawns, SpawnDue
  <2>2. audio.pc # "ended"
    BY <2>1 DEF StatusInv
  <2> QED  BY <2>1, <2>2 DEF Over
<1>8. ASSUME MainSeesAudio PROVE Over'
  <2>1. UNCHANGED <<eng, audio, exited>> /\ (midi' = midi \/ midi'.pc = "ended")
    BY <1>8 DEF MainSeesAudio, CancelMidi, To
  <2> QED  BY <2>1 DEF Over
<1>9. ASSUME MainGivesUp \/ MainJoins \/ JackGivesUp PROVE Over'
  BY <1>9 DEF MainGivesUp, MainJoins, JackGivesUp, Over
<1>10. ASSUME MainWatches \/ MainBites \/ MainLeaves PROVE Over'
  <2>1. UNCHANGED <<midi, audio, exited>>
    BY <1>10 DEF MainWatches, MainBites, MainLeaves
  <2>2. eng.terminate => eng'.terminate
    BY <1>1, <1>10 DEF MainWatches, MainBites, MainLeaves, Bites
  <2> QED  BY <1>2, <2>1, <2>2
<1>11. ASSUME AudioOpening \/ Forget \/ TouchBack \/ AudioStops PROVE Over'
  <2>1. midi' = midi /\ ~exited /\ audio.pc # "ended"
    BY <1>11 DEF AudioOpening, AudioBegins, AudioOpens, AudioFails, JackActivates, Forget, TouchBack,
       AudioStops, AudioMay
  <2>2. eng'.terminate = eng.terminate
    BY <1>1, <1>11 DEF AudioOpening, AudioBegins, AudioOpens, AudioFails, JackActivates, Forget,
       TouchBack, AudioStops
  <2> QED  BY <2>1, <2>2 DEF Over
<1>12. ASSUME UNCHANGED vars PROVE Over'
  BY <1>12, <1>2 DEF vars
<1> QED  BY <1>3, <1>4, <1>5, <1>6, <1>7, <1>8, <1>9, <1>10, <1>11, <1>12 DEF Next, MainNext, Timeouts

\* The audio thread goes on until it is told to stop, which comes after the end of
\* all emulators, or with the end of the process (audioThread).
LEMMA PlayingKept ==
    ASSUME TypeOK, StatusInv, [Next]_vars
    PROVE  /\ Playing => Playing' \/ AudioStops
           /\ AudioWillRun => AudioWillRun' \/ AudioStops
           /\ AudioStops => Over' /\ (exited' \/ midi.pc \in {"dying", "ended", "idle"})
<1>1. /\ eng \in [atStatus : {"EXIT", "WAIT", "OK", "FAIL", "TERM"}, atReq : SUBSET {"START", "STOP"},
                  exitReq : BOOLEAN, terminate : BOOLEAN, audiowait : BOOLEAN,
                  hello : BOOLEAN, go : BOOLEAN, opens : 0 .. Cardinality(Guis)]
      /\ audio \in [pc : {"none", "spawned", "opening", "awaiting", "run", "unlinked", "touch", "ended"},
                    emu : Guis \cup {Nil}, flags : Flags]
  BY DEF TypeOK
<1>2. ASSUME AudioStops PROVE Over' /\ (exited' \/ midi.pc \in {"dying", "ended", "idle"})
  <2>1. eng.atReq = {"STOP"} /\ exited' = Jack /\ midi' = midi /\ ~exited /\ eng'.terminate = eng.terminate
    BY <1>1, <1>2 DEF AudioStops, AudioMay
  <2>2. Jack \/ midi.pc \in {"dying", "ended"} \/ (midi.pc = "idle" /\ eng.terminate)
    BY <2>1 DEF StatusInv
  <2> QED  BY <2>1, <2>2 DEF Over
<1> DEFINE Goes == (Playing => Playing') /\ (AudioWillRun => AudioWillRun')
<1>3. ASSUME audio' = audio, eng'.audiowait = eng.audiowait \/ ~eng'.audiowait PROVE Goes
  BY <1>3 DEF Playing, AudioWillRun, AudioRuns
<1>4. ASSUME audio'.pc \in {"run", "touch", "unlinked"} PROVE Goes
  BY <1>4 DEF Playing, AudioWillRun, AudioRuns
<1>5. ASSUME NEW g \in Guis, GuiNext(g) \/ Handles(g) PROVE Goes
  <2>1. audio' = audio
    BY <1>5 DEF GuiNext, Start, Answered, Resend, Quit, Crash, Handles, Accept, LostConnection, Hello, Channel,
       ReqStart, InitAlgo, MidiGo, MidiStop, ExitAlgo
  <2>2. eng'.audiowait = eng.audiowait \/ ~eng'.audiowait
    BY <1>1, <1>5 DEF GuiNext, Start, Answered, Resend, Quit, Crash, Handles, Accept, LostConnection, Hello,
       Channel, ReqStart, InitAlgo, MidiGo, MidiStop, ExitAlgo, Resumed
  <2> QED  BY <1>3, <2>1, <2>2
<1>6. ASSUME NEW g \in Guis, AudioPeriod(g) \/ Touch(g) PROVE Goes
  <2>1. CASE SenseExpires(g)
    BY <2>1, <1>3 DEF SenseExpires
  <2>2. CASE Unlink(g)
    <3>1. audio' = [audio EXCEPT !.pc = "unlinked", !.emu = g]
      BY <2>2 DEF Unlink
    <3> QED  BY <3>1, <1>1, <1>4
  <2>3. CASE Touch(g)
    BY <2>3, <1>4 DEF Touch
  <2> QED  BY <1>6, <2>1, <2>2, <2>3 DEF AudioPeriod
<1>7. ASSUME MidiContinues PROVE Goes
  <2>1. audio' = audio
    BY <1>7 DEF MidiContinues, Hook, Started, CheckLast, FreeEmulator, Shutdown, Terminate, MidiEnds
  <2>2. eng'.audiowait = eng.audiowait
    BY <1>1, <1>7 DEF MidiContinues, Hook, Started, CheckLast, FreeEmulator, Shutdown, Terminate,
       MidiEnds, Resumed, Stopped
  <2> QED  BY <1>3, <2>1, <2>2
<1>8. ASSUME MainSpawns PROVE Goes
  <2>1. eng.atStatus = "EXIT" /\ ~exited
    BY <1>8 DEF MainSpawns, SpawnDue
  <2>2. audio.pc \in {"none", "spawned", "ended"}
    BY <2>1 DEF StatusInv
  <2> QED  BY <2>2 DEF Playing, AudioWillRun, AudioRuns
<1>9. ASSUME MainNext \/ Timeouts, ~MainSpawns PROVE Goes
  <2>1. audio' = audio
    BY <1>9 DEF MainNext, Timeouts, MainSeesAudio, MainLeaves, MainJoins, MainGivesUp, MainWatches,
       MainBites, JackGivesUp
  <2>2. eng'.audiowait = eng.audiowait
    BY <1>1, <1>9 DEF MainNext, Timeouts, MainSeesAudio, MainLeaves, MainJoins, MainGivesUp,
       MainWatches, MainBites, JackGivesUp, Bites
  <2> QED  BY <1>3, <2>1, <2>2
<1>10. ASSUME AudioOpening PROVE Goes
  <2>1. CASE JackActivates
    BY <1>1, <1>4, <2>1 DEF JackActivates
  <2>2. CASE AudioBegins \/ AudioOpens \/ AudioFails
    BY <2>2 DEF AudioBegins, AudioOpens, AudioFails, Playing, AudioWillRun, AudioRuns
  <2> QED  BY <1>10, <2>1, <2>2 DEF AudioOpening
<1>11. ASSUME Forget \/ TouchBack PROVE Goes
  <2>1. audio'.pc = "run"
    <3>1. CASE Forget
      BY <1>1, <3>1 DEF Forget
    <3>2. CASE TouchBack
      BY <3>2 DEF TouchBack
    <3> QED  BY <1>11, <3>1, <3>2
  <2> QED  BY <2>1, <1>4
<1>12. ASSUME UNCHANGED vars PROVE Goes
  BY <1>12, <1>3 DEF vars
<1> QED  BY <1>2, <1>5, <1>6, <1>7, <1>8, <1>9, <1>10, <1>11, <1>12 DEF Next

\* A process that has ended does nothing.
LEMMA ExitedKept ==
    ASSUME exited, [Next]_vars
    PROVE  exited'
<1>1. ASSUME NEW g \in Guis, GuiNext(g) \/ Handles(g) \/ AudioPeriod(g) \/ Touch(g) PROVE exited'
  BY <1>1 DEF GuiNext, Start, Answered, Resend, Quit, Crash, Handles, Accept, LostConnection, Hello, Channel,
     ReqStart, InitAlgo, MidiGo, MidiStop, ExitAlgo, Reads, Selects, MidiMay, AudioPeriod, SenseExpires, Unlink,
     Touch, Visits, AudioMay
<1>2. ASSUME MidiContinues PROVE exited'
  BY <1>2 DEF MidiContinues, Hook, Started, CheckLast, FreeEmulator, Shutdown, Terminate, MidiEnds,
     MidiMay
<1>3. ASSUME MainNext \/ Timeouts PROVE exited'
  BY <1>3 DEF MainNext, Timeouts, MainSpawns, MainSeesAudio, MainLeaves, MainJoins, MainGivesUp,
     MainWatches, MainBites, JackGivesUp
<1>4. ASSUME AudioOpening \/ Forget \/ TouchBack \/ AudioStops PROVE exited'
  BY <1>4 DEF AudioOpening, AudioBegins, AudioOpens, AudioFails, JackActivates, Forget, TouchBack,
     AudioStops, AudioMay
<1>5. ASSUME UNCHANGED vars PROVE exited'
  BY <1>5 DEF vars
<1> QED  BY <1>1, <1>2, <1>3, <1>4, <1>5 DEF Next

\* A GUI comes past the start, and past its initialisation, only while the audio
\* thread goes on, and so an emulator is removed by it (bristolSystem).
LEMMA PlayStep ==
    ASSUME Whole, Patient, TypeOK, InboxInv, BusyInv, ListInv, SidInv, RemoveInv, StatusInv, PlayInv,
           [Next]_vars
    PROVE  PlayInv'
<1>1. Over => Over'
  BY OverKept
<1>2. /\ Playing \/ Over => Playing' \/ Over'
      /\ AudioWillRun \/ Over => AudioWillRun' \/ Over'
  BY <1>1, PlayingKept
<1>3. \A r, s : <<r>> = <<s>> => r = s
  OBVIOUS
<1>4. /\ \A r : <<r>> # <<>>
      /\ \A s, t : Shorter(s, t) => s # <<>> /\ \A r : s # <<r>>
  BY Shapes
<1>5. /\ emu \in [Guis -> Emulators] /\ Links /\ Nil \notin Guis
      /\ eng \in [atStatus : {"EXIT", "WAIT", "OK", "FAIL", "TERM"}, atReq : SUBSET {"START", "STOP"},
                  exitReq : BOOLEAN, terminate : BOOLEAN, audiowait : BOOLEAN,
                  hello : BOOLEAN, go : BOOLEAN, opens : 0 .. Cardinality(Guis)]
  BY TypeLinks, NilIsNone DEF Links, TypeOK
<1>6. ASSUME NEW g \in Guis, GuiNext(g), NEW h \in Guis
      PROVE  (PastStart(h)' => PastStart(h)) /\ (PastInit(h)' => PastInit(h))
  <2>1. CASE h # g
    BY <1>6, <2>1, GuiMoves DEF PastStart, PastInit
  <2>2. CASE h = g
    <3>1. CASE gui'[g] \in {"hello", "channel", "start"} /\ inbox'[g] = <<gui'[g]>> /\ ack'[g] = NoAck
      BY <2>2, <3>1, <1>3, <1>4 DEF PastStart, PastInit
    <3>2. CASE /\ gui[g] = "start" /\ gui'[g] = "init" /\ ack[g] # NoAck /\ ack'[g] = NoAck
               /\ inbox'[g] = <<"init">>
      BY <2>2, <3>2, <1>3, <1>4 DEF PastStart, PastInit
    <3>3. CASE gui[g] = "init" /\ ack[g] # NoAck
      BY <2>2, <3>3 DEF PastStart, PastInit
    <3>4. CASE gui[g] = "running"
      BY <2>2, <3>4 DEF PastStart, PastInit
    <3>5. CASE gui'[g] = "gone" /\ ack'[g] = NoAck /\ inbox'[g] = inbox[g]
      BY <2>2, <3>5 DEF PastStart, PastInit
    <3> QED  BY <1>6, <3>1, <3>2, <3>3, <3>4, <3>5, GuiMoves
  <2> QED  BY <2>1, <2>2
<1>7. ASSUME ~ \E g \in Guis : GuiNext(g), NEW h \in Guis
      PROVE  /\ UNCHANGED gui[h]
             /\ inbox'[h] = inbox[h] \/ inbox'[h] = <<>> \/ Shorter(inbox[h], inbox'[h])
             /\ \/ ack'[h] = ack[h]
                \/ gui[h] \notin {"start", "init"}
                \/ gui[h] = "start" /\ (ReqStart(h) \/ (Started /\ midi.gui = h))
                \/ gui[h] = "init" /\ InitAlgo(h)
  <2>1. CASE \E g \in Guis : Hello(g)
    BY <2>1, HelloIsNew
  <2>2. CASE Hook
    <3>1. gui[midi.gui] \in {"hello", "gone"}
      BY <2>2 DEF Hook, BusyInv
    <3>2. /\ UNCHANGED <<gui, inbox>> /\ (ack' = ack \/ Answer(midi.gui, emu[midi.emu].sid))
      BY <2>2 DEF Hook, guiVars
    <3> QED  BY <3>1, <3>2 DEF Answer, TypeOK
  <2>3. CASE ~Hook /\ ~ \E g \in Guis : Hello(g)
    BY <1>7, <2>3, EngineMoves
  <2> QED  BY <2>1, <2>2, <2>3
<1>8. ASSUME NEW h \in Guis, gui[h] = "start", ack'[h] # ack[h],
             ReqStart(h) \/ (Started /\ midi.gui = h)
      PROVE  Playing \/ Over
  <2>1. CASE Started
    <3>1. eng.atStatus = "OK"
      BY <2>1 DEF Started
    <3> QED  BY <3>1 DEF StatusInv, Over
  <2>2. CASE ReqStart(h)
    <3>1. midi.pc = "idle" /\ eng.atStatus # "EXIT"
      BY <1>8, <2>2 DEF ReqStart, Reads, Selects
    <3>2. eng.atStatus \in {"WAIT", "OK", "FAIL", "TERM"}
      BY <3>1, <1>5
    <3>3. eng.atStatus # "WAIT" \/ exited
      BY <3>1 DEF StatusInv
    <3> QED  BY <3>1, <3>2, <3>3 DEF StatusInv, Over, Playing
  <2> QED  BY <1>8, <2>1, <2>2
<1>9. ASSUME NEW h \in Guis, gui[h] = "init", ack'[h] # ack[h], InitAlgo(h)
      PROVE  AudioWillRun' \/ Over'
  <2>1. PastStart(h)
    BY <1>9 DEF PastStart
  <2>2. CASE AudioRuns \/ Over
    BY <2>2, <1>2 DEF AudioWillRun
  <2>3. CASE audio.pc = "awaiting" /\ ~Over
    <3>1. eng.atStatus = "OK" /\ ~exited
      BY <2>3 DEF StatusInv, Over
    <3>2. told[h] # NoSid
      BY <1>9 DEF SidInv
    <3>3. emu[h].sid = told[h] /\ emu[h].life \notin Out \cup {"none"} /\ h \notin Hooking
      BY <2>3, <3>2 DEF SidInv, RemoveInv
    <3>4. h \in Listed
      BY <3>3, <1>5 DEF Listed, Emulators, Out
    <3>5. Find(told[h]) # Nil
      <4>1. Find(told[h]) \in Linked /\ Linked \subseteq Guis
        BY <3>3, <3>4, <1>5, LinkedIsListed, FindProperties
      <4> QED  BY <4>1, <1>5
    <3>6. eng.hello
      BY <1>9 DEF InitAlgo
    <3>7. eng' = [eng EXCEPT !.audiowait = FALSE] /\ audio' = audio
      BY <1>9, <3>1, <3>5, <3>6 DEF InitAlgo
    <3>8. ~eng'.audiowait
      BY <3>7, <1>5
    <3> QED  BY <2>3, <3>7, <3>8 DEF AudioWillRun
  <2> QED  BY <2>1, <2>2, <2>3 DEF PlayInv, Playing
<1>10. ASSUME NEW h \in Guis, PastStart(h)' PROVE Playing' \/ Over'
  <2>1. CASE PastStart(h)
    BY <2>1, <1>2 DEF PlayInv
  <2>2. CASE ~PastStart(h)
    <3>1. ~ \E g \in Guis : GuiNext(g)
      BY <1>6, <1>10, <2>2
    <3>2. gui[h] = "start" /\ ack'[h] # ack[h]
      BY <3>1, <1>7, <1>10, <2>2, <1>4 DEF PastStart
    <3> QED  BY <3>1, <3>2, <1>2, <1>7, <1>8
  <2> QED  BY <2>1, <2>2
<1>11. ASSUME NEW h \in Guis, PastInit(h)' PROVE AudioWillRun' \/ Over'
  <2>1. CASE PastInit(h)
    BY <2>1, <1>2 DEF PlayInv
  <2>2. CASE ~PastInit(h)
    <3>1. ~ \E g \in Guis : GuiNext(g)
      BY <1>6, <1>11, <2>2
    <3>2. gui[h] = "init" /\ ack'[h] # ack[h]
      BY <3>1, <1>7, <1>11, <2>2, <1>4 DEF PastInit
    <3> QED  BY <3>1, <3>2, <1>7, <1>9
  <2> QED  BY <2>1, <2>2
<1>12. midi'.pc \in Holding \ {"dying"} => AudioWillRun' \/ exited'
  <2>1. CASE midi.pc \in Holding \ {"dying"}
    <3>1. AudioWillRun \/ exited
      BY <2>1 DEF PlayInv
    <3>2. exited => exited'
      BY ExitedKept
    <3>3. AudioStops => exited'
      BY <2>1, PlayingKept DEF Holding
    <3> QED  BY <3>1, <3>2, <3>3, PlayingKept
  <2>2. CASE \E g \in Guis : ExitAlgo(g)
    <3>1. PICK g \in Guis : ExitAlgo(g)
      BY <2>2
    <3>2. Reads(g, "exit") /\ audio' = audio /\ ~exited /\ midi.pc = "idle" /\ ~eng.terminate
      BY <3>1 DEF ExitAlgo, Reads, Selects, MidiMay
    <3>3. inbox[g] = <<"exit">> /\ gui[g] = "gone"
      BY <3>2, ReadFacts, HandshakeSteps DEF TypeOK, Unchained
    <3>4. PastInit(g)
      BY <3>3, <1>3, <1>4 DEF PastInit
    <3>5. ~Over
      BY <3>2 DEF Over
    <3>6. AudioWillRun
      BY <3>4, <3>5 DEF PlayInv
    <3>7. eng'.audiowait = eng.audiowait
      BY <3>1, <1>5 DEF ExitAlgo
    <3> QED  BY <3>2, <3>6, <3>7 DEF AudioWillRun, AudioRuns
  <2>3. CASE midi.pc \notin Holding \ {"dying"} /\ ~ \E g \in Guis : ExitAlgo(g)
    <3>1. ASSUME NEW g \in Guis, GuiNext(g) \/ Handles(g) \/ AudioPeriod(g) \/ Touch(g)
          PROVE  midi' = midi \/ midi'.pc \notin Holding \ {"dying"}
      BY <2>3, <3>1 DEF GuiNext, Start, Answered, Resend, Quit, Crash, Handles, Accept, LostConnection, Hello,
         Channel, ReqStart, InitAlgo, MidiGo, MidiStop, To, AudioPeriod, SenseExpires, Unlink, Touch, Holding
    <3>2. ASSUME MidiContinues PROVE midi'.pc \notin Holding \ {"dying"}
      BY <2>3, <3>2 DEF MidiContinues, Hook, Started, CheckLast, FreeEmulator, Shutdown, Terminate,
         MidiEnds, To, Idle, Holding
    <3>3. ASSUME MainNext \/ Timeouts PROVE midi' = midi \/ midi'.pc \notin Holding \ {"dying"}
      BY <3>3 DEF MainNext, Timeouts, MainSpawns, MainSeesAudio, MainLeaves, MainJoins, MainGivesUp,
         MainWatches, MainBites, JackGivesUp, CancelMidi, To, Holding
    <3>4. ASSUME AudioOpening \/ Forget \/ TouchBack \/ AudioStops PROVE midi' = midi
      BY <3>4 DEF AudioOpening, AudioBegins, AudioOpens, AudioFails, JackActivates, Forget,
         TouchBack, AudioStops
    <3>5. ASSUME UNCHANGED vars PROVE midi' = midi
      BY <3>5 DEF vars
    <3>6. midi' = midi \/ midi'.pc \notin Holding \ {"dying"}
      BY <3>1, <3>2, <3>3, <3>4, <3>5 DEF Next
    <3> QED  BY <2>3, <3>6
  <2> QED  BY <2>1, <2>2, <2>3
<1> QED  BY <1>10, <1>11, <1>12 DEF PlayInv

\* and with them the windows.
LEMMA WholeKept == [Next]_vars => Whole' = Whole
BY SetupKept DEF Whole, Windows

\* Before the first GUI there are neither emulators nor requests.
LEMMA WholeInit == Init => WholeIf
<1> SUFFICES ASSUME Init PROVE WholeInv
  BY DEF WholeIf
<1>1. /\ \A g \in Guis : /\ emu[g].life = "none" /\ gui[g] = "off" /\ inbox[g] = <<>>
                          /\ ack[g] = NoAck /\ told[g] = NoSid
      /\ audiolist = Nil /\ midi.pc = "idle" /\ audio.pc = "none" /\ main = "loop"
      /\ eng.atStatus = "EXIT" /\ eng.atReq = {}
  BY DEF Init
<1>2. Listed = {}
  BY <1>1 DEF Listed
<1>3. ListInv
  <2>1. Cardinality({}) = 0
    BY FS_EmptySet
  <2>2. [x \in {} |-> 0] \in [{} -> 0 .. 0 - 1] /\ Numbered({}, [x \in {} |-> 0], emu, audiolist)
    BY DEF Numbered
  <2>3. \E p \in [Listed -> 0 .. Cardinality(Listed) - 1] : Numbered(Listed, p, emu, audiolist)
    BY <1>2, <2>1, <2>2
  <2> QED  BY <1>1, <2>3 DEF ListInv
<1>4. SidInv
  BY <1>1 DEF SidInv
<1>5. RemoveInv
  BY <1>1 DEF RemoveInv, Holding, Out
<1>6. StatusInv
  BY <1>1 DEF StatusInv
<1>7. PlayInv
  BY <1>1 DEF PlayInv, PastStart, PastInit, Holding
<1> QED  BY <1>3, <1>4, <1>5, <1>6, <1>7 DEF WholeInv

\* With one thread at a time in the list and at the flags, it stays whole.
LEMMA WholeStep == TurnInv /\ WholeIf /\ [Next]_vars => WholeIf'
<1> SUFFICES ASSUME TurnInv, WholeInv, Whole, [Next]_vars PROVE WholeInv'
  BY WholeKept DEF WholeIf
<1>1. Patient /\ TypeOK /\ InboxInv /\ BusyInv
  BY DEF TurnInv
<1>2. ListInv /\ SidInv /\ RemoveInv /\ StatusInv /\ PlayInv
  BY DEF WholeInv
<1> QED  BY <1>1, <1>2, ListStep, SidStep, RemoveStep, StatusStep, PlayStep DEF WholeInv

LEMMA WholeAlways == Spec => [](Patient => TurnInv /\ WholeIf)
<1>1. Init /\ Patient => TurnInv /\ WholeIf
  BY TurnInit, WholeInit
<1>2. (Patient => TurnInv /\ WholeIf) /\ [Next]_vars => (Patient => TurnInv /\ WholeIf)'
  <2> SUFFICES ASSUME Patient => TurnInv /\ WholeIf, [Next]_vars, Patient'
               PROVE  TurnInv' /\ WholeIf'
    OBVIOUS
  <2>1. Patient
    BY SetupKept DEF Patient
  <2> QED  BY <2>1, TurnStep, WholeStep
<1> QED  BY <1>1, <1>2, PTL DEF Spec

\* What freeBristolAudio has taken out of the list stays out, and bristolSystem
\* frees an emulator only once it is out, whoever dies: as long as no GUI waits five
\* seconds for an answer, and the audio thread does not come in between the two
\* halves of a hook.
THEOREM RemovedEmulatorsStayOut ==
    Spec => [](Patient /\ "audiolist" \notin Windows => RemovedStaysOut)
<1>1. TurnInv /\ WholeIf => ("audiolist" \notin Windows => RemovedStaysOut)
  <2> SUFFICES ASSUME TurnInv, WholeIf, "audiolist" \notin Windows, FlagsKept, NEW b \in Linked
               PROVE  emu[b].life \notin {"removed", "freed"}
    BY DEF RemovedStaysOut
  <2>1. ListInv
    BY DEF WholeIf, Whole, WholeInv, FlagsKept
  <2>2. b \in Listed
    BY <2>1, TypeLinks, LinkedIsListed DEF TurnInv
  <2> QED  BY <2>2 DEF Listed
<1> QED  BY <1>1, WholeAlways, PTL

----------------------------------------------------------------------------
(***************************************************************************)
(* The sids of up to three GUIs.                                           *)
(***************************************************************************)
Few == Cardinality(setup.guis) <= 3
Made == {b \in Guis : emu[b].life # "none"}
Kept == {b \in Guis : emu[b].life \in {"new", "ready"}}

\* No two emulators have the same sid.  The only one has the first; two of
\* which the tail would not be counted from 0 were not made alone.
SidsInv ==
    /\ \A g \in Guis : gui[g] # "off" => g \in setup.guis
    /\ \A a, b \in Kept : emu[a].sid = emu[b].sid => a = b
    /\ \A b \in Made : emu[b].sid # 0 => \E c \in Made : c # b
    /\ \A a, b \in Kept :
          emu[a].next = b /\ emu[a].sid = 0 /\ emu[b].sid = 1 => \E c \in Made : c \notin {a, b}

\* An emulator is needed until its GUI has left, and held down until it is
\* initialised.
Needed(g) == Live(g) \/ inbox[g] \in Leaving \cup {<<"init">>}
Held(g) == gui[g] \in {"hello", "channel", "start"} \/ inbox[g] = <<"init">>
ServedInv ==
    \A g \in Made :
        /\ Needed(g) => emu[g].life \notin Out /\ "REMOVE" \notin emu[g].flags
        /\ Held(g) => "HOLDDOWN" \in emu[g].flags

OwnInv == Few => SidsInv /\ ServedInv

\* A list of at most two is a head and a tail.
LEMMA ShortList ==
    ASSUME Links, ListInv, Cardinality(Listed) <= 2
    PROVE  \/ Listed = {} /\ audiolist = Nil
           \/ \E a \in Guis : Listed = {a} /\ audiolist = a /\ emu[a].next = Nil
           \/ \E a, b \in Guis : /\ a # b /\ Listed = {a, b} /\ audiolist = a
                                 /\ emu[a].next = b /\ emu[b].next = Nil
<1>1. Listed \subseteq Guis /\ Nil \notin Listed /\ audiolist \in Listed \cup {Nil}
  BY NilIsNone DEF Listed, ListInv
<1>2. Cardinality(Listed) \in Nat
  BY <1>1, NilAssumption, FS_Subset, FS_CardinalityType
<1>3. PICK p \in [Listed -> 0 .. 1] : Numbered(Listed, p, emu, audiolist)
  BY <1>2 DEF ListInv
<1>4. ASSUME NEW b \in Listed, b # audiolist
      PROVE  audiolist \in Listed /\ emu[audiolist].next = b /\ p[b] = 1
  <2>1. p[b] = 1 /\ emu[b].last \in Listed
    BY <1>1, <1>3, <1>4 DEF Numbered
  <2>2. p[emu[b].last] = 0 /\ emu[emu[b].last].next = b
    <3>1. p[b] = p[emu[b].last] + 1 /\ emu[emu[b].last].next = b
      BY <2>1, <1>3 DEF Numbered
    <3> QED  BY <2>1, <3>1, <1>3
  <2> QED  BY <2>1, <2>2, <1>3 DEF Numbered
<1>5. \A b \in Listed : b = audiolist <=> p[b] = 0
  BY <1>3 DEF Numbered
<1>6. \A b \in Listed : p[b] = 1 => emu[b].next = Nil
  BY <1>3 DEF Numbered
<1>7. CASE Listed = {}
  BY <1>1, <1>7
<1>8. CASE Listed # {} /\ \A b \in Listed : b = audiolist
  <2>1. Listed = {audiolist} /\ audiolist \in Guis
    BY <1>1, <1>8
  <2>2. emu[audiolist].next = Nil
    BY <2>1, <1>3, <1>5 DEF Numbered
  <2> QED  BY <2>1, <2>2
<1>9. CASE \E b \in Listed : b # audiolist
  <2>1. PICK b \in Listed : b # audiolist
    BY <1>9
  <2>2. emu[audiolist].next = b /\ p[b] = 1 /\ emu[b].next = Nil
    BY <2>1, <1>4, <1>6
  <2>3. \A c \in Listed : c = audiolist \/ c = b
    BY <1>4, <2>2
  <2>4. audiolist \in Listed
    BY <2>1, <1>4
  <2> QED  BY <1>1, <2>1, <2>2, <2>3, <2>4
<1> QED  BY <1>7, <1>8, <1>9

\* The sid of a third emulator is none of those of the two in the list, and the
\* first has sid 0 (bristolgetsid).
LEMMA NewSidDiffers ==
    ASSUME Links, ListInv, NEW g \in Guis, g \notin Listed, Cardinality(Listed) <= 2,
           \A a, b \in Listed : ~(emu[a].next = b /\ emu[a].sid = 0 /\ emu[b].sid = 1)
    PROVE  /\ \A b \in Listed : emu[b].sid # NewSid
           /\ Listed = {} => NewSid = 0
<1>1. Listed \subseteq Guis /\ Nil \notin Guis /\ emu \in [Guis -> Emulators]
  BY NilIsNone DEF Listed, Links
<1>2. N \in Nat /\ Cardinality(Listed) + 1 <= N /\ IsFiniteSet(Listed)
  <2>1. IsFiniteSet(Guis) /\ IsFiniteSet(Listed)
    BY <1>1, NilAssumption, FS_Subset
  <2>2. Cardinality(Listed \cup {g}) = Cardinality(Listed) + 1
    BY <2>1, FS_AddElement
  <2>3. Cardinality(Listed \cup {g}) <= N
    BY <1>1, <2>1, FS_Subset DEF N
  <2> QED  BY <2>1, <2>2, <2>3, HowMany
<1>3. /\ Walk[0] = audiolist
      /\ \A n \in 1 .. N : Walk[n] = IF Walk[n - 1] = Nil THEN Nil ELSE emu[Walk[n - 1]].next
  BY WalkIs
<1>4. \A n \in 0 .. N :
          GetSid[n] = IF n = N \/ Walk[n] = Nil THEN 0
                      ELSE IF emu[Walk[n]].sid = GetSid[n + 1] THEN GetSid[n + 1] + 1
                      ELSE GetSid[n + 1]
  BY GetSidIs
<1>5. \A b \in Guis : emu[b].sid \in Int
  BY <1>1, HowMany DEF Emulators, Sids, NoSid, N
<1>6. CASE Listed = {} /\ audiolist = Nil
  <2>1. GetSid[0] = 0
    BY <1>2, <1>3, <1>4, <1>6
  <2> QED  BY <1>6, <2>1 DEF NewSid
<1>7. CASE \E a \in Guis : Listed = {a} /\ audiolist = a /\ emu[a].next = Nil
  <2>1. PICK a \in Guis : Listed = {a} /\ audiolist = a /\ emu[a].next = Nil
    BY <1>7
  <2>2. Cardinality(Listed) = 1
    BY <2>1, FS_Singleton
  <2>3. N >= 2 /\ Walk[0] = a /\ Walk[1] = Nil
    BY <1>1, <1>2, <1>3, <2>1, <2>2
  <2>4. GetSid[1] = 0
    BY <2>3, <1>2, <1>4
  <2>5. GetSid[0] = IF emu[a].sid = 0 THEN 1 ELSE 0
    BY <2>3, <2>4, <1>1, <1>2, <1>4
  <2> QED  BY <2>1, <2>5 DEF NewSid
<1>8. CASE \E a, b \in Guis : /\ a # b /\ Listed = {a, b} /\ audiolist = a
                              /\ emu[a].next = b /\ emu[b].next = Nil
  <2>1. PICK a, b \in Guis : /\ a # b /\ Listed = {a, b} /\ audiolist = a
                             /\ emu[a].next = b /\ emu[b].next = Nil
    BY <1>8
  <2>2. Cardinality(Listed) = 2
    <3>1. Cardinality({a}) = 1 /\ IsFiniteSet({a})
      BY FS_Singleton
    <3>2. Cardinality({a} \cup {b}) = IF b \in {a} THEN Cardinality({a}) ELSE Cardinality({a}) + 1
      BY <3>1, FS_AddElement
    <3>3. b \notin {a} /\ Listed = {a} \cup {b}
      BY <2>1
    <3> QED  BY <3>1, <3>2, <3>3
  <2>3. N >= 3 /\ Walk[0] = a /\ Walk[1] = b /\ Walk[2] = Nil
    <3>1. N >= 3 /\ Walk[0] = a
      BY <1>2, <1>3, <2>1, <2>2
    <3>2. Walk[1] = b
      BY <3>1, <1>1, <1>2, <1>3, <2>1
    <3> QED  BY <3>1, <3>2, <1>1, <1>2, <1>3, <2>1
  <2>4. GetSid[2] = 0
    BY <2>3, <1>2, <1>4
  <2>5. GetSid[1] = IF emu[b].sid = 0 THEN 1 ELSE 0
    BY <2>3, <2>4, <1>1, <1>2, <1>4
  <2>6. GetSid[0] = IF emu[a].sid = GetSid[1] THEN GetSid[1] + 1 ELSE GetSid[1]
    BY <2>3, <1>1, <1>2, <1>4
  <2> QED  BY <2>1, <2>5, <2>6, <1>5 DEF NewSid
<1> QED  BY <1>6, <1>7, <1>8, ShortList

\* A session id finds the emulator it was given to (findBristolAudio).
LEMMA FindsOwn ==
    ASSUME Links, ListInv, SidsInv, NEW g \in Listed
    PROVE  Find(emu[g].sid) = g
<1>1. Linked = Listed /\ Listed \subseteq Kept
  BY LinkedIsListed DEF Listed, Kept
<1>2. Find(emu[g].sid) \in Listed /\ Nil \notin Listed
  BY <1>1, FindProperties, NilIsNone DEF Listed
<1>3. emu[Find(emu[g].sid)].sid = emu[g].sid
  BY <1>2, FindProperties
<1> QED  BY <1>1, <1>2, <1>3 DEF SidsInv

\* A GUI that was told a sid finds its own emulator with it, until that is out
\* (bristolSystem).
LEMMA OwnFound ==
    ASSUME TypeOK, ListInv, SidInv, SidsInv, NEW g \in Guis, told[g] # NoSid, emu[g].life \notin Out
    PROVE  Find(told[g]) = g
<1>1. emu[g].sid = told[g] /\ emu[g].life # "none" /\ g \notin Hooking
  BY DEF SidInv
<1>2. emu \in [Guis -> Emulators] /\ Links
  BY TypeLinks DEF Links
<1>3. emu[g].life \in {"none", "new", "ready", "removed", "freed"}
  BY <1>2 DEF Emulators
<1>4. g \in Listed
  BY <1>1, <1>3 DEF Listed, Out
<1> QED  BY <1>1, <1>2, <1>4, FindsOwn

\* An emulator whose GUI may still ask for it is sensed, or held down, and so is
\* not removed for want of messages (bristolActiveSenseCheck).
LEMMA NeededIsSensed ==
    ASSUME TypeOK, InboxInv, ListInv, SidInv, SidsInv, ServedInv, NEW b \in Listed, Needed(b)
    PROVE  Sensed(b) \/ "HOLDDOWN" \in emu[b].flags
<1>1. b \in Guis /\ b \in Made /\ emu[b].life \notin Out
  BY DEF Listed, Made, Out
<1>2. gui[b] \in Waiting \cup {"off", "running", "gone"}
  BY <1>1 DEF TypeOK
<1>3. CASE Held(b)
  BY <1>1, <1>3 DEF ServedInv
<1>4. CASE gui[b] \in {"init", "running"}
  <2>1. told[b] # NoSid
    BY <1>1, <1>4 DEF SidInv
  <2> QED  BY <1>1, <1>4, <2>1, OwnFound DEF Sensed
<1>5. CASE inbox[b] \in Leaving
  <2>1. inbox[b] # <<>> /\ inbox[b] # <<"hello">> /\ "exit" \in Range(inbox[b])
    BY <1>5, LeavingFacts
  <2>2. told[b] # NoSid
    BY <1>1, <2>1 DEF SidInv
  <2> QED  BY <1>1, <2>1, <2>2, OwnFound DEF Sensed
<1>6. gui[b] # "again"
  BY <1>1 DEF InboxInv
<1> QED  BY <1>1, <1>2, <1>3, <1>4, <1>5, <1>6, HandshakeSteps DEF Needed, Held, Live

\* What a step leaves of an emulator: a mark, a removal and an initialisation
\* happen to those they are meant for.
Untouched(b) ==
    /\ "REMOVE" \in emu'[b].flags => "REMOVE" \in emu[b].flags
    /\ emu'[b].life \in Out => emu[b].life \in Out
    /\ "HOLDDOWN" \in emu[b].flags => "HOLDDOWN" \in emu'[b].flags

\* An initialisation or an exit is for the emulator of the GUI that asks for it
\* (bristolSystem, initBristolAudio).
LEMMA RequestsTouchOwn ==
    ASSUME TypeOK, InboxInv, BusyInv, ListInv, SidInv, SidsInv, ServedInv,
           NEW g \in Guis, InitAlgo(g) \/ ExitAlgo(g)
    PROVE  /\ \A b \in Guis \ {g} : Untouched(b)
           /\ \/ Untouched(g)
              \/ ~Held(g)' /\ emu'[g].life \notin Out /\ "REMOVE" \notin emu'[g].flags
              \/ ~Needed(g)' /\ "HOLDDOWN" \in emu'[g].flags
<1>1. emu \in [Guis -> Emulators]
  BY TypeLinks DEF Links
<1>2. PICK op \in {"init", "exit"} : Reads(g, op)
                                     /\ (op = "init" => InitAlgo(g)) /\ (op = "exit" => ExitAlgo(g))
  BY DEF InitAlgo, ExitAlgo
<1>3. inbox[g] = <<op>> /\ inbox'[g] = <<>> /\ gui[g] \in {"init", "gone"}
      /\ (op = "exit" => gui[g] = "gone")
  <2>1. gui[g] \in Waiting \cup {"off", "running", "gone"}
    BY DEF TypeOK
  <2>2. /\ gui[g] # "off"
        /\ gui[g] \in Waiting => op = gui[g] /\ inbox[g] = <<op>> /\ inbox'[g] = <<>>
        /\ gui[g] = "running" => op = "go"
        /\ gui[g] = "gone" => \/ inbox[g] = <<op>> /\ inbox'[g] = <<>>
                              \/ op \in {"go", "stop"}
    BY <1>2, ReadFacts DEF Unchained
  <2> QED  BY <1>2, <2>1, <2>2, HandshakeSteps
<1>4. told[g] # NoSid
  <2>1. \A r : <<r>> # <<>> /\ (<<r>> = <<"hello">> => r = "hello")
    OBVIOUS
  <2>2. inbox[g] # <<>> /\ inbox[g] # <<"hello">>
    BY <1>2, <1>3, <2>1, Zenon
  <2> QED  BY <2>2 DEF SidInv
<1>5. g \in Made /\ emu[g].life \notin Out /\ "REMOVE" \notin emu[g].flags
  <2>1. g \in Made
    BY <1>4 DEF SidInv, Made
  <2>2. Needed(g)
    BY <1>2, <1>3 DEF Needed, Leaving
  <2> QED  BY <2>1, <2>2 DEF ServedInv
<1>6. Find(told[g]) = g
  BY <1>4, <1>5, OwnFound
<1>7. gui' = gui
  BY DEF InitAlgo, ExitAlgo, guiVars
<1>8. \A s \in Leaving \cup {<<"init">>} : s # <<>>
  BY LeavingFacts, Shapes
<1>9. CASE op = "init"
  <2>1. \/ emu' = emu
        \/ emu' = [emu EXCEPT ![g].flags = @ \ {"HOLDDOWN"}, ![g].life = "ready"]
    BY <1>2, <1>6, <1>9 DEF InitAlgo
  <2>2. ~Held(g)'
    BY <1>3, <1>7, <1>8 DEF Held
  <2>3. \A b \in Guis \ {g} : emu'[b] = emu[b]
    BY <2>1, <1>1
  <2>4. emu'[g].life \notin Out /\ "REMOVE" \notin emu'[g].flags
    BY <2>1, <1>1, <1>5 DEF Emulators, Out
  <2> QED  BY <2>2, <2>3, <2>4 DEF Untouched
<1>10. CASE op = "exit"
  <2>1. emu' = emu \/ emu' = [emu EXCEPT ![g].flags = {"HOLDDOWN", "REMOVE"}]
    BY <1>2, <1>6, <1>10 DEF ExitAlgo
  <2>2. ~Needed(g)'
    BY <1>3, <1>7, <1>8, <1>10 DEF Needed, Live
  <2>3. \A b \in Guis \ {g} : emu'[b] = emu[b]
    BY <2>1, <1>1
  <2>4. "HOLDDOWN" \in emu[g].flags => "HOLDDOWN" \in emu'[g].flags
    BY <2>1, <1>1 DEF Emulators
  <2>5. emu' = emu \/ "HOLDDOWN" \in emu'[g].flags
    BY <2>1, <1>1 DEF Emulators
  <2> QED  BY <2>2, <2>3, <2>5 DEF Untouched
<1> QED  BY <1>2, <1>9, <1>10

\* Nor does the audio thread take an emulator that is needed (doAudioOps).
LEMMA NeededUntouched ==
    ASSUME Whole, TypeOK, InboxInv, BusyInv, ListInv, SidInv, RemoveInv, PlayInv, SidsInv, ServedInv,
           [Next]_vars, NEW b \in Made, ~ \E g \in Guis : Hello(g) \/ InitAlgo(g) \/ ExitAlgo(g)
    PROVE  Untouched(b) \/ (~Needed(b) /\ ("HOLDDOWN" \in emu[b].flags => "HOLDDOWN" \in emu'[b].flags))
<1>1. emu \in [Guis -> Emulators] /\ Links /\ b \in Guis
  BY TypeLinks DEF Links, Made
<1>2. ASSUME UNCHANGED list PROVE Untouched(b)
  BY <1>2 DEF list, Untouched
<1>3. ASSUME NEW g \in Guis, Handles(g) PROVE UNCHANGED list
  BY <1>3 DEF Handles, Accept, LostConnection, Channel, ReqStart, MidiGo, MidiStop
<1>4. ASSUME MidiContinues PROVE Untouched(b)
  <2>1. CASE Hook
    <3>1. emu' = emu \/ emu' = [emu EXCEPT ![audiolist].last = midi.emu]
      BY <2>1 DEF Hook
    <3> QED  BY <3>1, <1>1 DEF Emulators, Untouched
  <2>2. CASE FreeEmulator
    <3>1. /\ emu' = [emu EXCEPT ![midi.emu].life = "freed"]
          /\ midi.pc = "removing" /\ ~exited
          /\ "REMOVE" \notin emu[midi.emu].flags \/ ~AudioWillRun
      BY <2>2 DEF FreeEmulator, MidiMay
    <3>2. emu[midi.emu].life \in Out
      BY <3>1 DEF RemoveInv, PlayInv, Holding
    <3> QED  BY <3>1, <3>2, <1>1 DEF Emulators, Untouched
  <2>3. CASE Started \/ CheckLast \/ Shutdown \/ Terminate \/ MidiEnds
    BY <2>3, <1>2 DEF Started, CheckLast, Shutdown, Terminate, MidiEnds
  <2> QED  BY <1>4, <2>1, <2>2, <2>3 DEF MidiContinues
<1>5. ASSUME NEW g \in Guis, SenseExpires(g)
      PROVE  Untouched(b) \/ (~Needed(b) /\ ("HOLDDOWN" \in emu[b].flags => "HOLDDOWN" \in emu'[b].flags))
  <2>1. /\ emu' = [emu EXCEPT ![g].flags = @ \cup {"REMOVE"}]
        /\ ~Sensed(g) /\ "HOLDDOWN" \notin emu[g].flags /\ g \in Linked
    BY <1>5 DEF SenseExpires, Visits
  <2>2. g \in Listed /\ ~Needed(g)
    BY <2>1, <1>1, LinkedIsListed, NeededIsSensed
  <2>3. /\ emu'[b].life = emu[b].life
        /\ "HOLDDOWN" \in emu[b].flags => "HOLDDOWN" \in emu'[b].flags
        /\ b # g => emu'[b].flags = emu[b].flags
    BY <2>1, <1>1 DEF Emulators
  <2> QED  BY <2>2, <2>3 DEF Untouched
<1>6. ASSUME NEW g \in Guis, Unlink(g)
      PROVE  Untouched(b) \/ (~Needed(b) /\ ("HOLDDOWN" \in emu[b].flags => "HOLDDOWN" \in emu'[b].flags))
  <2>1. Bypassed(g) \in [Guis -> Emulators] /\ Bypassed(g)[b].flags = emu[b].flags
        /\ Bypassed(g)[b].life = emu[b].life
    BY <1>1 DEF Bypassed, Emulators
  <2>2. PICK e \in [Guis -> Emulators] :
            /\ e[b].flags = emu[b].flags /\ e[b].life = emu[b].life
            /\ emu' = [e EXCEPT ![g].flags = @ \cup {"HOLDDOWN"}, ![g].life = "removed"]
    BY <2>1, <1>6 DEF Unlink
  <2>3. "REMOVE" \in emu[g].flags
    BY <1>6 DEF Unlink
  <2>4. /\ "HOLDDOWN" \in emu[b].flags => "HOLDDOWN" \in emu'[b].flags
        /\ b # g => emu'[b].flags = emu[b].flags /\ emu'[b].life = emu[b].life
    BY <2>2, <1>1 DEF Emulators
  <2> QED  BY <2>3, <2>4 DEF Untouched, ServedInv
<1>7. ASSUME NEW g \in Guis, Touch(g) PROVE UNCHANGED list
  BY <1>7 DEF Touch
<1>8. ASSUME Forget \/ TouchBack PROVE Untouched(b)
  <2>1. emu' = [emu EXCEPT ![audio.emu].flags = @ \ {"REMOVE"}]
    BY <1>8 DEF Forget, TouchBack, RemoveInv
  <2> QED  BY <2>1, <1>1 DEF Emulators, Untouched
<1>9. ASSUME MainNext \/ Timeouts \/ AudioOpening \/ AudioStops PROVE UNCHANGED list
  BY <1>9 DEF MainNext, Timeouts, MainSpawns, MainSeesAudio, MainLeaves, MainJoins, MainGivesUp,
     MainWatches, MainBites, JackGivesUp, AudioOpening, AudioBegins, AudioOpens, AudioFails,
     JackActivates, AudioStops
<1>10. ASSUME NEW g \in Guis, GuiNext(g) PROVE UNCHANGED list
  BY <1>10 DEF GuiNext, Start, Answered, Resend, Quit, Crash
<1>11. ASSUME UNCHANGED vars PROVE UNCHANGED list
  BY <1>11 DEF vars, list
<1> QED  BY <1>2, <1>3, <1>4, <1>5, <1>6, <1>7, <1>8, <1>9, <1>10, <1>11 DEF Next, AudioPeriod

\* Of three GUIs, at most two have an emulator when the third says hello.
LEMMA TwoOthers ==
    ASSUME TypeOK, Few, SidInv, SidsInv, NEW g \in Guis, emu[g].life = "none", gui[g] # "off"
    PROVE  /\ Cardinality(Listed) <= 2
           /\ \A a, b, c \in Made : a = b \/ b = c \/ a = c
<1>1. setup.guis \subseteq Guis /\ IsFiniteSet(setup.guis) /\ Cardinality(setup.guis) \in Nat
  <2>1. setup.guis \subseteq Guis
    BY SetupAssumption DEF TypeOK
  <2> QED  BY <2>1, NilAssumption, FS_Subset, FS_CardinalityType
<1>2. Made \subseteq setup.guis \ {g} /\ g \in setup.guis
  BY DEF SidInv, SidsInv, Made
<1>3. ASSUME NEW S \in SUBSET Made
      PROVE  IsFiniteSet(S) /\ Cardinality(S) \in Nat /\ Cardinality(S) <= 2
  <2>1. IsFiniteSet(S) /\ g \notin S /\ S \cup {g} \subseteq setup.guis
    BY <1>1, <1>2, FS_Subset
  <2>2. Cardinality(S \cup {g}) = Cardinality(S) + 1 /\ Cardinality(S) \in Nat
    BY <2>1, FS_AddElement, FS_CardinalityType
  <2>3. Cardinality(S \cup {g}) <= Cardinality(setup.guis)
    BY <1>1, <2>1, FS_Subset
  <2> QED  BY <2>1, <2>2, <2>3, <1>1 DEF Few
<1>4. Listed \subseteq Made
  BY DEF Listed, Made
<1>5. ASSUME NEW a \in Made, NEW b \in Made, NEW c \in Made, a # b, b # c, a # c PROVE FALSE
  <2>1. IsFiniteSet({a}) /\ Cardinality({a}) = 1
    BY FS_Singleton
  <2>2. b \notin {a} /\ c \notin {a} \cup {b}
    BY <1>5
  <2>3. /\ IsFiniteSet({a} \cup {b})
        /\ Cardinality({a} \cup {b}) = IF b \in {a} THEN Cardinality({a}) ELSE Cardinality({a}) + 1
    BY <2>1, FS_AddElement
  <2>4. Cardinality({a} \cup {b}) = 2
    BY <2>1, <2>2, <2>3
  <2>5. Cardinality(({a} \cup {b}) \cup {c})
          = IF c \in {a} \cup {b} THEN Cardinality({a} \cup {b}) ELSE Cardinality({a} \cup {b}) + 1
    BY <2>3, FS_AddElement
  <2>6. Cardinality(({a} \cup {b}) \cup {c}) = 3
    BY <2>2, <2>4, <2>5
  <2> QED  BY <1>3, <2>6
<1> QED  BY <1>3, <1>4, <1>5

\* Sids stay different (bristolgetsid).
LEMMA SidsStep ==
    ASSUME Patient, TypeOK, InboxInv, BusyInv, ListInv, SidInv, RemoveInv, PlayInv, Few, SidsInv, [Next]_vars
    PROVE  SidsInv'
<1>1. emu \in [Guis -> Emulators] /\ Links /\ Nil \notin Guis
  BY TypeLinks, NilIsNone DEF Links
<1>2. \A g \in Guis : gui'[g] # "off" => g \in setup'.guis
  <2>1. ASSUME NEW g \in Guis, GuiNext(g), NEW h \in Guis, gui'[h] # "off" PROVE h \in setup.guis
    <3>1. h # g => gui'[h] = gui[h]
      BY <2>1, GuiMoves
    <3>2. gui[g] # "off" \/ Start(g)
      BY <2>1, HandshakeSteps DEF GuiNext, Answered, Resend, Quit, Crash
    <3> QED  BY <2>1, <3>1, <3>2 DEF SidsInv, Start
  <2>2. ASSUME ~ \E g \in Guis : GuiNext(g) PROVE gui' = gui
    <3>1. CASE Hook \/ \E g \in Guis : Hello(g)
      BY <3>1 DEF Hook, Hello, guiVars
    <3>2. CASE ~Hook /\ ~ \E g \in Guis : GuiNext(g) \/ Hello(g)
      BY <3>2, EngineMoves
    <3> QED  BY <2>2, <3>1, <3>2
  <2> QED  BY <2>1, <2>2, SetupKept DEF SidsInv
<1>3. ASSUME Made \subseteq Made', Kept' \subseteq Kept, \A b \in Made' : emu'[b].sid = emu[b].sid,
             \A a, b \in Kept' : emu'[a].next = b =>
                 emu[a].next = b \/ \E c \in Made' : c \notin {a, b},
             Made' = Made
      PROVE  SidsInv'
  <2>1. Kept' \subseteq Made'
    BY DEF Kept, Made
  <2> QED  BY <1>2, <1>3, <2>1 DEF SidsInv
<1>4. ASSUME SameList PROVE SidsInv'
  <2>1. Made' = Made /\ Kept' = Kept
    BY <1>4 DEF SameList, Made, Kept, Out
  <2>2. \A b \in Guis : emu'[b].sid = emu[b].sid /\ emu'[b].next = emu[b].next
    BY <1>4 DEF SameList
  <2> QED  BY <1>3, <2>1, <2>2 DEF Kept, Made
<1>5. ASSUME Hook PROVE SidsInv'
  <2>1. emu' = emu \/ emu' = [emu EXCEPT ![audiolist].last = midi.emu]
    BY <1>5 DEF Hook
  <2>2. \A b \in Guis : emu'[b].sid = emu[b].sid /\ emu'[b].next = emu[b].next
                        /\ emu'[b].life = emu[b].life
    BY <2>1, <1>1 DEF Emulators
  <2>3. Made' = Made /\ Kept' = Kept
    BY <2>2 DEF Made, Kept
  <2> QED  BY <1>3, <2>2, <2>3 DEF Kept, Made
<1>6. ASSUME NEW x \in Guis, Unlink(x) PROVE SidsInv'
  <2>1. /\ PassedBy(Guis, x, emu, emu') /\ emu'[x].life = "removed"
        /\ \A c \in Guis \ {x} : emu'[c].life = emu[c].life
    BY <1>1, <1>6, UnlinkIs
  <2>2. x \in Listed
    BY <1>1, <1>6, LinkedIsListed DEF Unlink, Visits
  <2>3. Made' = Made /\ Kept' = Kept \ {x} /\ x \in Made'
    BY <2>1, <2>2 DEF Made, Kept, Listed
  <2>4. \A b \in Guis : emu'[b].sid = emu[b].sid
    BY SidsKept, <1>6, <2>1, HelloIsNew, <2>2 DEF Unlink, Hello, Listed
  <2>5. ASSUME NEW a \in Kept', NEW b \in Kept', emu'[a].next = b
        PROVE  emu[a].next = b \/ \E c \in Made' : c \notin {a, b}
    <3>1. a # x /\ b # x
      BY <2>3
    <3> QED  BY <2>3, <3>1
  <2>6. \A b \in Made' : emu'[b].sid = emu[b].sid
    BY <2>4 DEF Made
  <2> QED  BY <1>3, <2>3, <2>5, <2>6
<1>7. ASSUME NEW g \in Guis, Hello(g) PROVE SidsInv'
  <2>1. /\ emu[g].life = "none" /\ gui[g] # "off" /\ midi.pc = "idle"
        /\ emu'[g] = [sid |-> NewSid, flags |-> {"HOLDDOWN", "SENSE"},
                      next |-> audiolist, last |-> Nil, life |-> "new"]
        /\ \A h \in Guis \ {g} : emu'[h] = emu[h]
    BY <1>7, HelloIsNew
  <2>2. emu'[g].life = "new" /\ emu'[g].sid = NewSid /\ emu'[g].next = audiolist
    BY <2>1
  <2>3. Listed = Kept /\ g \notin Kept /\ Kept' = Kept \cup {g} /\ Made' = Made \cup {g} /\ g \notin Made
        /\ Kept \subseteq Made
    BY <2>1, <2>2 DEF Listed, Hooking, Kept, Made
  <2>4. Cardinality(Listed) <= 2 /\ \A a, b, c \in Made : a = b \/ b = c \/ a = c
    BY <2>1, TwoOthers
  <2>5. \A a, b \in Listed : ~(emu[a].next = b /\ emu[a].sid = 0 /\ emu[b].sid = 1)
    <3> SUFFICES ASSUME NEW a \in Kept, NEW b \in Kept,
                        emu[a].next = b, emu[a].sid = 0, emu[b].sid = 1
                 PROVE  FALSE
      BY <2>3
    <3>1. PICK c \in Made : c \notin {a, b}
      BY DEF SidsInv
    <3> QED  BY <3>1, <2>3, <2>4
  <2>6. /\ \A b \in Listed : emu[b].sid # NewSid
        /\ Listed = {} => NewSid = 0
    BY <1>1, <2>3, <2>4, <2>5, NewSidDiffers
  <2>7. \A a, b \in Kept' : emu'[a].sid = emu'[b].sid => a = b
    BY <2>1, <2>2, <2>3, <2>6 DEF SidsInv, Kept
  <2>8. ASSUME NEW b \in Made', emu'[b].sid # 0 PROVE \E c \in Made' : c # b
    <3>1. CASE b = g
      BY <3>1, <2>2, <2>3, <2>6, <2>8
    <3>2. CASE b # g
      BY <3>2, <2>3
    <3> QED  BY <3>1, <3>2
  <2>9. ASSUME NEW a \in Kept', NEW b \in Kept', emu'[a].next = b, emu'[a].sid = 0, emu'[b].sid = 1
        PROVE  \E c \in Made' : c \notin {a, b}
    <3>1. g # b
      <4>1. \A c \in Listed : emu[c].next \in Listed \cup {Nil}
        BY DEF ListInv, Numbered
      <4>2. audiolist \in Listed \cup {Nil}
        BY DEF ListInv
      <4>3. g \notin Listed \cup {Nil}
        BY <1>1, <2>3
      <4>4. CASE a = g
        BY <2>2, <2>9, <4>2, <4>3, <4>4
      <4>5. CASE a # g
        <5>1. a \in Listed /\ a \in Guis
          BY <2>3, <4>5 DEF Kept
        <5>2. emu[a].next = b
          BY <2>1, <2>9, <4>5, <5>1
        <5> QED  BY <4>1, <4>3, <5>1, <5>2
      <4> QED  BY <4>4, <4>5
    <3>2. CASE a = g
      <4>1. b \in Kept /\ emu[b].sid = 1
        BY <2>1, <2>3, <2>9, <3>1 DEF Kept
      <4>2. PICK c \in Made : c # b
        BY <4>1, <2>3 DEF SidsInv
      <4> QED  BY <3>2, <4>2, <2>3
    <3>3. CASE a # g
      <4>1. a \in Kept /\ b \in Kept /\ emu'[a] = emu[a] /\ emu'[b] = emu[b]
        BY <2>1, <2>3, <3>1, <3>3 DEF Kept
      <4> QED  BY <2>3, <2>9, <4>1 DEF SidsInv
    <3> QED  BY <3>2, <3>3
  <2> QED  BY <1>2, <2>7, <2>8, <2>9 DEF SidsInv
<1> QED  BY <1>4, <1>5, <1>6, <1>7, ListChanges

\* An emulator stays until its GUI has left (bristolSystem, doAudioOps).
LEMMA ServedStep ==
    ASSUME Whole, Patient, TypeOK, InboxInv, BusyInv, ListInv, SidInv, RemoveInv, PlayInv, SidsInv, ServedInv,
           [Next]_vars
    PROVE  ServedInv'
<1> SUFFICES ASSUME NEW b \in Guis, emu'[b].life # "none"
             PROVE  /\ Needed(b)' => emu'[b].life \notin Out /\ "REMOVE" \notin emu'[b].flags
                    /\ Held(b)' => "HOLDDOWN" \in emu'[b].flags
  BY DEF ServedInv, Made
<1>1. \A s : <<s>> # <<>> /\ \A r : <<s>> = <<r>> => s = r
  OBVIOUS
<1>2. /\ \A s \in Leaving : s # <<>> /\ s # <<"init">>
      /\ \A s, t : Shorter(s, t) => t # <<"init">> /\ (t \in Leaving => s \in Leaving)
      /\ \A s \in Farewells \cup CutShort : s # <<"init">>
  <2>1. <<"go", "stop">> \in Chains
    BY DEF Chains
  <2> QED  BY <1>1, <2>1, LeavingFacts, Shapes DEF Leaving, CutShort
<1>3. gui \in [Guis -> Waiting \cup {"off", "running", "gone"}]
  BY DEF TypeOK
<1>4. ASSUME NEW g \in Guis, GuiNext(g)
      PROVE  /\ Needed(b)' => emu'[b].life \notin Out /\ "REMOVE" \notin emu'[b].flags
             /\ Held(b)' => "HOLDDOWN" \in emu'[b].flags
  <2>1. emu' = emu /\ b \in Made
    BY <1>4, GuiMoves DEF Made
  <2>2. CASE b # g
    <3>1. gui'[b] = gui[b] /\ inbox'[b] = inbox[b]
      BY <1>4, <2>2, GuiMoves
    <3> QED  BY <2>1, <3>1 DEF ServedInv, Needed, Held, Live
  <2>3. CASE b = g
    <3>1. gui[b] # "off"
      BY <2>1 DEF SidInv, Made
    <3>2. \/ gui[b] \in {"hello", "channel", "start"} /\ gui'[b] \in {"channel", "start", "init"}
             /\ inbox'[b] \in {<<"channel">>, <<"start">>, <<"init">>}
          \/ gui[b] = "init" /\ gui'[b] = "running" /\ inbox'[b] = <<"go">>
          \/ gui[b] = "running" /\ gui'[b] = "gone" /\ inbox'[b] \in Farewells \cup CutShort
          \/ gui[b] \in Waiting \cup {"running"} /\ gui'[b] = "gone" /\ inbox'[b] = inbox[b]
      BY <1>4, <2>3, <3>1, GuiMoves
    <3>3. Live(b)
      BY <3>2, HandshakeSteps DEF Live
    <3>4. Held(b)' => Held(b)
      BY <1>1, <1>2, <3>2, HandshakeSteps DEF Held
    <3> QED  BY <2>1, <3>3, <3>4 DEF ServedInv, Needed
  <2> QED  BY <2>2, <2>3
<1>5. ASSUME NEW g \in Guis, Hello(g)
      PROVE  /\ Needed(b)' => emu'[b].life \notin Out /\ "REMOVE" \notin emu'[b].flags
             /\ Held(b)' => "HOLDDOWN" \in emu'[b].flags
  <2>1. /\ emu'[g] = [sid |-> NewSid, flags |-> {"HOLDDOWN", "SENSE"},
                      next |-> audiolist, last |-> Nil, life |-> "new"]
        /\ \A h \in Guis \ {g} : emu'[h] = emu[h] /\ inbox'[h] = inbox[h]
        /\ gui' = gui
    BY <1>5, HelloIsNew
  <2>2. emu'[g].life = "new" /\ emu'[g].flags = {"HOLDDOWN", "SENSE"}
    BY <2>1
  <2>3. b # g => b \in Made
    BY <2>1 DEF Made
  <2> QED  BY <2>1, <2>2, <2>3 DEF ServedInv, Needed, Held, Live, Out
<1>6. ASSUME ~ \E g \in Guis : GuiNext(g) \/ Hello(g)
      PROVE  /\ Needed(b)' => emu'[b].life \notin Out /\ "REMOVE" \notin emu'[b].flags
             /\ Held(b)' => "HOLDDOWN" \in emu'[b].flags
  <2>1. b \in Made
    BY <1>6, LivesKept DEF Made
  <2>2. /\ gui' = gui
        /\ \/ inbox'[b] = inbox[b] \/ inbox'[b] = <<>>
           \/ Shorter(inbox[b], inbox'[b])
    <3>1. CASE Hook
      BY <3>1 DEF Hook, guiVars
    <3>2. CASE ~Hook
      BY <1>6, <3>2, EngineMoves
    <3> QED  BY <3>1, <3>2
  <2>3. (Needed(b)' => Needed(b)) /\ (Held(b)' => Held(b))
    BY <1>1, <1>2, <2>2 DEF Needed, Held, Live
  <2>4. /\ Needed(b) => emu[b].life \notin Out /\ "REMOVE" \notin emu[b].flags
        /\ Held(b) => "HOLDDOWN" \in emu[b].flags
    BY <2>1 DEF ServedInv
  <2>5. Held(b) => Needed(b)
    BY HandshakeSteps DEF Held, Needed, Live
  <2>6. CASE \E g \in Guis : InitAlgo(g) \/ ExitAlgo(g)
    <3>1. PICK g \in Guis : InitAlgo(g) \/ ExitAlgo(g)
      BY <2>6
    <3>2. \/ Untouched(b)
          \/ ~Held(b)' /\ emu'[b].life \notin Out /\ "REMOVE" \notin emu'[b].flags
          \/ ~Needed(b)' /\ "HOLDDOWN" \in emu'[b].flags
      BY <3>1, RequestsTouchOwn
    <3> QED  BY <2>3, <2>4, <3>2 DEF Untouched
  <2>7. CASE ~ \E g \in Guis : InitAlgo(g) \/ ExitAlgo(g)
    <3>1. \/ Untouched(b)
          \/ ~Needed(b) /\ ("HOLDDOWN" \in emu[b].flags => "HOLDDOWN" \in emu'[b].flags)
      BY <1>6, <2>1, <2>7, NeededUntouched
    <3> QED  BY <2>3, <2>4, <3>1 DEF Untouched
  <2> QED  BY <2>6, <2>7
<1> QED  BY <1>4, <1>5, <1>6

OwnIf == Whole => OwnInv

\* Before the first GUI nobody has a sid.
LEMMA OwnInit == Init => OwnIf
<1> SUFFICES ASSUME Init PROVE SidsInv /\ ServedInv
  BY DEF OwnIf, OwnInv
<1>1. \A g \in Guis : emu[g].life = "none" /\ gui[g] = "off"
  BY DEF Init
<1>2. Made = {} /\ Kept = {}
  BY <1>1 DEF Made, Kept
<1> QED  BY <1>1, <1>2 DEF SidsInv, ServedInv

\* Whoever steps, up to three GUIs keep sids of their own.
LEMMA OwnStep == TurnInv /\ WholeIf /\ OwnIf /\ [Next]_vars => OwnIf'
<1> SUFFICES ASSUME TurnInv, WholeIf, OwnIf, Whole, Few, [Next]_vars PROVE SidsInv' /\ ServedInv'
  BY WholeKept, SetupKept DEF OwnIf, OwnInv, Few
<1>1. Patient /\ TypeOK /\ InboxInv /\ BusyInv
  BY DEF TurnInv
<1>2. ListInv /\ SidInv /\ RemoveInv /\ StatusInv /\ PlayInv
  BY DEF WholeIf, WholeInv
<1>3. SidsInv /\ ServedInv
  BY DEF OwnIf, OwnInv
<1> QED  BY <1>1, <1>2, <1>3, SidsStep, ServedStep

LEMMA OwnAlways == Spec => [](Patient => TurnInv /\ WholeIf /\ OwnIf)
<1>1. Init /\ Patient => TurnInv /\ WholeIf /\ OwnIf
  BY TurnInit, WholeInit, OwnInit
<1>2. (Patient => TurnInv /\ WholeIf /\ OwnIf) /\ [Next]_vars
          => (Patient => TurnInv /\ WholeIf /\ OwnIf)'
  <2> SUFFICES ASSUME Patient => TurnInv /\ WholeIf /\ OwnIf, [Next]_vars, Patient'
               PROVE  TurnInv' /\ WholeIf' /\ OwnIf'
    OBVIOUS
  <2>1. Patient
    BY SetupKept DEF Patient
  <2> QED  BY <2>1, TurnStep, WholeStep, OwnStep
<1> QED  BY <1>1, <1>2, PTL DEF Spec

\* The sid a GUI was told finds the emulator its own hello created, sids of
\* emulators that have left being given again (bristolgetsid), for up to three
\* GUIs: as long as no GUI waits five seconds for an answer, and one thread at a
\* time is in the list and at the flags.
THEOREM OwnEmulatorFound == Spec => [](Patient /\ Whole => OwnEmulator)
<1>1. TurnInv /\ WholeIf /\ OwnIf => (Whole => OwnEmulator)
  <2> SUFFICES ASSUME TurnInv, WholeInv, Few, SidsInv, ServedInv,
                      NEW g \in Guis, Live(g), told[g] # NoSid
               PROVE  Find(told[g]) = g
    BY DEF WholeIf, OwnIf, OwnInv, OwnEmulator, Few
  <2>1. TypeOK /\ ListInv /\ SidInv
    BY DEF TurnInv, WholeInv
  <2>2. g \in Made
    BY <2>1 DEF SidInv, Made
  <2>3. emu[g].life \notin Out
    BY <2>2 DEF ServedInv, Needed
  <2> QED  BY <2>1, <2>3, OwnFound
<1> QED  BY <1>1, OwnAlways, PTL

----------------------------------------------------------------------------
(***************************************************************************)
(* The engine behind a GUI that runs, when no GUI dies.                    *)
(***************************************************************************)
Calm == Whole /\ NobodyDies /\ Few

\* What each way to end the engine says of it (main, inthandler).
EndInv ==
    exited \/
    /\ eng.atStatus = "FAIL" => audio.pc \in {"none", "ended"}
    /\ eng.terminate => eng.exitReq \/ eng.atStatus = "FAIL"
    /\ midi.pc = "dying" => eng.exitReq
    /\ eng.exitReq => eng.terminate \/ midi.pc \in {"dying", "ended"}
    /\ main = "biting" => audio.pc = "none"
    /\ audio.pc # "none" /\ ~eng.exitReq /\ main # "closing" => "START" \in eng.atReq
    /\ main = "closing" => eng.exitReq \/ eng.atStatus \in {"FAIL", "TERM"}
    /\ midi.pc = "emptying" \/ eng.atStatus = "TERM" => ~Server
    /\ midi.pc = "ended" => eng.terminate \/ eng.atStatus = "FAIL"

\* Somebody needs the engine.
Wanted == \E b \in Made : Needed(b)

\* Emulators leave by the exits of their GUIs, one at a time, and the last takes
\* the engine along.
LeaveInv ==
    /\ \A g \in Guis : gui[g] = "gone" => inbox[g] \in Leaving \cup {<<>>}
    /\ Made # {} => eng.hello
    /\ midi.pc = "hook" => Live(midi.gui)
    /\ midi.pc \in Holding => midi.emu \in Made /\ ~Needed(midi.emu)
    /\ eng.terminate \/ \A b \in Listed : Needed(b) \/ (midi.pc \in Holding /\ midi.emu = b)
    /\ midi.pc = "removing" => Server \/ Wanted \/ eng.terminate
    /\ audio.pc = "unlinked" =>
          \/ exited \/ eng.terminate
          \/ midi.pc \in Holding /\ midi.emu = audio.emu /\ "REMOVE" \in emu[audio.emu].flags
    /\ eng.atStatus = "TERM" =>
          exited \/ eng.terminate \/ midi.pc \in {"marked", "emptying", "dying", "ended"}
    /\ Wanted => midi.pc \notin {"emptying", "dying"} /\ eng.atStatus # "TERM" /\ ~eng.exitReq

\* The engine plays, and nobody is about to stop it.
Up == /\ ~exited /\ ~eng.terminate /\ ~eng.exitReq
      /\ eng.atStatus = "OK" /\ "START" \in eng.atReq
      /\ main \in {"loop", "spawning"} /\ midi.pc \notin {"emptying", "dying", "ended"}

\* What a GUI of the handshake may rely on.
Begun(g) == (gui[g] = "start" /\ ack[g] # NoAck) \/ gui[g] \in {"init", "running"}
Done(g) == (gui[g] = "init" /\ ack[g] # NoAck) \/ gui[g] = "running"
RunInv ==
    /\ \A g \in Made : Live(g) => conn[g] = "open"
    /\ \A g \in Guis : Begun(g) => Up
    /\ \A g \in Guis : Done(g) => emu[g].life = "ready" /\ "HOLDDOWN" \notin emu[g].flags

CalmInv == EndInv /\ LeaveInv /\ RunInv
CalmIf == Calm => CalmInv

\* A step of the MIDI or the audio thread that ends nothing.
LEMMA EndKept ==
    ASSUME EndInv, setup' = setup, UNCHANGED <<eng.atStatus, eng.atReq, eng.terminate, eng.exitReq>>,
           main' = main, exited => exited',
           audio'.pc = audio.pc \/ (audio.pc \in Runs /\ audio'.pc \in Runs),
           \/ midi'.pc = midi.pc
           \/ midi.pc \notin {"dying", "ended"} /\ midi'.pc \notin {"dying", "ended", "emptying"}
    PROVE  EndInv'
<1> SUFFICES ASSUME ~exited' PROVE EndInv'
  BY DEF EndInv
<1>1. Server' = Server
  BY DEF Server
<1> HIDE DEF Server
<1> QED  BY <1>1 DEF EndInv, Runs

\* Each end is begun by one thread, and the others are told (main, inthandler).
LEMMA EndStep ==
    ASSUME TypeOK, StatusInv, EndInv, [Next]_vars
    PROVE  EndInv'
<1>1. /\ eng \in [atStatus : {"EXIT", "WAIT", "OK", "FAIL", "TERM"}, atReq : SUBSET {"START", "STOP"},
                  exitReq : BOOLEAN, terminate : BOOLEAN, audiowait : BOOLEAN,
                  hello : BOOLEAN, go : BOOLEAN, opens : 0 .. Cardinality(Guis)]
      /\ midi \in [pc : Threads, gui : Guis \cup {Nil}, emu : Guis \cup {Nil}]
      /\ audio \in [pc : {"none", "spawned", "opening", "awaiting", "run", "unlinked", "touch", "ended"},
                    emu : Guis \cup {Nil}, flags : Flags]
      /\ exited \in BOOLEAN
  BY DEF TypeOK
<1>2. setup' = setup /\ Server' = Server
  BY SetupKept DEF Server
<1> SUFFICES ASSUME ~exited' PROVE EndInv'
  BY DEF EndInv
<1>3. ASSUME NEW g \in Guis, GuiNext(g) \/ AudioPeriod(g) \/ Touch(g) PROVE EndInv'
  <2>1. UNCHANGED <<eng, midi, main, exited>>
    BY <1>3 DEF GuiNext, Start, Answered, Resend, Quit, Crash, AudioPeriod, SenseExpires, Unlink, Touch
  <2>2. audio' = audio \/ (audio.pc = "run" /\ audio'.pc \in {"unlinked", "touch"})
    <3>1. CASE Unlink(g)
      <4>1. audio.pc = "run" /\ audio' = [audio EXCEPT !.pc = "unlinked", !.emu = g]
        BY <3>1 DEF Unlink, Visits
      <4> QED  BY <4>1, <1>1
    <3>2. CASE Touch(g)
      BY <3>2 DEF Touch, Visits
    <3>3. CASE GuiNext(g) \/ SenseExpires(g)
      BY <3>3 DEF GuiNext, Start, Answered, Resend, Quit, Crash, SenseExpires
    <3> QED  BY <1>3, <3>1, <3>2, <3>3 DEF AudioPeriod
  <2> QED  BY <1>2, <2>1, <2>2, EndKept DEF Runs
<1>4. ASSUME NEW g \in Guis, Handles(g), ~ReqStart(g) PROVE EndInv'
  <2>1. UNCHANGED <<main, audio>> /\ midi.pc = "idle" /\ ~exited
    BY <1>4 DEF Handles, Accept, LostConnection, Hello, Channel, InitAlgo, MidiGo, MidiStop, ExitAlgo, Reads,
       Selects, MidiMay
  <2>2. midi' = midi \/ midi'.pc \in {"hook", "marked"}
    BY <1>4 DEF Handles, Accept, LostConnection, Hello, Channel, InitAlgo, MidiGo, MidiStop, ExitAlgo, To
  <2>3. UNCHANGED <<eng.atStatus, eng.atReq, eng.terminate, eng.exitReq>>
    BY <1>1, <1>4 DEF Handles, Accept, LostConnection, Hello, Channel, InitAlgo, MidiGo, MidiStop, ExitAlgo,
       Resumed
  <2> QED  BY <1>2, <2>1, <2>2, <2>3, EndKept
<1>5. ASSUME NEW g \in Guis, ReqStart(g) PROVE EndInv'
  <2>1. /\ UNCHANGED <<eng.atStatus, eng.terminate, eng.exitReq, main, audio, exited>>
        /\ midi.pc = "idle" /\ midi'.pc \in {"idle", "starting"}
        /\ "START" \in eng.atReq => "START" \in eng'.atReq
    BY <1>1, <1>5 DEF ReqStart, Requested, To, Reads, Selects
  <2> QED  BY <1>2, <2>1 DEF EndInv
<1>6. ASSUME Hook \/ Started \/ FreeEmulator PROVE EndInv'
  <2>1. /\ UNCHANGED <<main, audio, exited>>
        /\ midi.pc \in {"hook", "starting", "removing"} /\ midi'.pc = "idle"
    BY <1>6 DEF Hook, Started, FreeEmulator, Idle, To
  <2>2. UNCHANGED <<eng.atStatus, eng.atReq, eng.terminate, eng.exitReq>>
    BY <1>1, <1>6 DEF Hook, Started, FreeEmulator, Resumed
  <2> QED  BY <1>2, <2>1, <2>2, EndKept
<1>7. ASSUME CheckLast PROVE EndInv'
  <2>1. /\ UNCHANGED <<eng, main, audio, exited>> /\ midi.pc = "marked"
        /\ midi'.pc = "removing" \/ (midi'.pc = "emptying" /\ ~Server)
    BY <1>7 DEF CheckLast, To
  <2> HIDE DEF Server
  <2> QED  BY <1>2, <2>1 DEF EndInv
<1>8. ASSUME Shutdown PROVE EndInv'
  <2>1. /\ eng'.atStatus = "TERM" /\ eng'.exitReq /\ eng'.terminate = eng.terminate
        /\ midi.pc = "emptying" /\ midi'.pc = "dying" /\ UNCHANGED <<main, audio, exited>>
    BY <1>1, <1>8 DEF Shutdown, Stopped, To
  <2> HIDE DEF Server
  <2> QED  BY <1>2, <2>1 DEF EndInv
<1>9. ASSUME Terminate \/ MidiEnds PROVE EndInv'
  <2>1. /\ UNCHANGED <<eng.atStatus, eng.atReq, eng.exitReq, main, audio, exited>> /\ eng'.terminate
        /\ \/ midi.pc = "dying" /\ midi'.pc = "idle"
           \/ midi.pc = "idle" /\ midi'.pc = "ended" /\ eng.terminate
    <3>1. CASE Terminate
      BY <1>1, <3>1 DEF Terminate, To, Idle
    <3>2. CASE MidiEnds
      BY <1>1, <3>2 DEF MidiEnds, To
    <3> QED  BY <1>9, <3>1, <3>2
  <2> HIDE DEF Server
  <2> QED  BY <1>2, <2>1 DEF EndInv
<1>10. ASSUME MainSpawns PROVE EndInv'
  <2>1. /\ eng.atStatus = "EXIT" /\ "START" \in eng.atReq /\ main' = "spawning"
        /\ audio'.pc = "spawned" /\ UNCHANGED <<eng, midi, exited>>
    BY <1>1, <1>10 DEF MainSpawns, SpawnDue
  <2> HIDE DEF Server
  <2> QED  BY <1>2, <2>1 DEF EndInv
<1>11. ASSUME MainSeesAudio PROVE EndInv'
  <2>1. /\ main = "spawning" /\ main' = "loop" /\ UNCHANGED <<eng, audio, exited>>
        /\ \/ eng.atStatus = "OK" /\ midi' = midi
           \/ eng.atStatus = "FAIL" /\ midi'.pc = "ended"
    BY <1>11 DEF MainSeesAudio, CancelMidi, To
  <2> HIDE DEF Server
  <2> QED  BY <1>2, <2>1 DEF EndInv
<1>12. ASSUME MainGivesUp \/ MainJoins \/ JackGivesUp PROVE FALSE
  BY <1>12 DEF MainGivesUp, MainJoins, JackGivesUp
<1>13. ASSUME MainWatches \/ MainBites PROVE EndInv'
  <2>1. /\ \/ main = "loop" /\ ~eng.exitReq /\ "START" \notin eng.atReq
           \/ main = "biting"
        /\ \/ eng' = eng /\ main' = "biting"
           \/ /\ eng'.atStatus = "FAIL" /\ eng'.terminate /\ eng'.atReq = eng.atReq
              /\ eng'.exitReq = eng.exitReq /\ main' = "loop"
        /\ UNCHANGED <<midi, audio, exited>> /\ ~exited
    BY <1>1, <1>13 DEF MainWatches, MainBites, Bites
  <2>2. audio.pc = "none"
    BY <2>1 DEF EndInv
  <2> HIDE DEF Server
  <2> QED  BY <1>2, <2>1, <2>2 DEF EndInv
<1>14. ASSUME MainLeaves PROVE EndInv'
  <2>1. /\ main = "loop" /\ main' = "closing" /\ (eng.atStatus \in {"FAIL", "TERM"} \/ eng.exitReq)
        /\ UNCHANGED <<eng.atStatus, eng.terminate, eng.exitReq, midi, audio, exited>>
    BY <1>1, <1>14 DEF MainLeaves
  <2> HIDE DEF Server
  <2> QED  BY <1>2, <2>1 DEF EndInv
<1>15. ASSUME AudioBegins \/ AudioOpens \/ AudioFails \/ JackActivates PROVE EndInv'
  <2>1. /\ UNCHANGED <<eng.atReq, eng.terminate, eng.exitReq, midi, main, exited>> /\ ~exited
        /\ \/ audio.pc = "spawned" /\ eng'.atStatus = "WAIT"
           \/ audio.pc = "opening" /\ eng'.atStatus = "OK"
           \/ audio.pc = "opening" /\ eng'.atStatus = "FAIL" /\ audio'.pc = "ended"
           \/ audio.pc = "awaiting" /\ eng'.atStatus = eng.atStatus
        /\ audio.pc # "none" /\ audio'.pc # "none"
    BY <1>1, <1>15 DEF AudioBegins, AudioOpens, AudioFails, JackActivates
  <2>2. audio.pc \in {"spawned", "opening"} => eng.atStatus \in {"EXIT", "WAIT"}
    BY <2>1 DEF StatusInv
  <2> HIDE DEF Server
  <2> QED  BY <1>2, <2>1, <2>2 DEF EndInv
<1>16. ASSUME Forget PROVE EndInv'
  <2>1. /\ audio.pc = "unlinked" /\ audio'.pc = "run"
        /\ eng'.atStatus = eng.atStatus \/ (eng'.atStatus = "TERM" /\ ~Server)
        /\ UNCHANGED <<eng.atReq, eng.terminate, eng.exitReq, midi, main, exited>>
    BY <1>1, <1>16 DEF Forget
  <2> HIDE DEF Server
  <2> QED  BY <1>2, <2>1 DEF EndInv
<1>17. ASSUME TouchBack PROVE EndInv'
  BY <1>1, <1>2, <1>17, EndKept DEF TouchBack, Runs
<1>18. ASSUME AudioStops PROVE EndInv'
  <2>1. /\ audio.pc = "run" /\ audio'.pc = "ended" /\ eng.atReq = {"STOP"} /\ eng'.atReq = {"STOP"}
        /\ eng'.atStatus = "EXIT" /\ ~Jack /\ ~exited
        /\ UNCHANGED <<eng.terminate, eng.exitReq, midi, main>>
    BY <1>1, <1>18 DEF AudioStops, AudioMay
  <2>2. midi.pc \in {"dying", "ended"} \/ (midi.pc = "idle" /\ eng.terminate)
    BY <2>1 DEF StatusInv
  <2>3. eng.exitReq
    BY <2>1, <2>2 DEF EndInv
  <2> HIDE DEF Server
  <2> QED  BY <1>2, <2>1, <2>3 DEF EndInv
<1>19. ASSUME UNCHANGED vars PROVE EndInv'
  BY <1>2, <1>19, EndKept DEF vars
<1> QED  BY <1>3, <1>4, <1>5, <1>6, <1>7, <1>8, <1>9, <1>10, <1>11, <1>12, <1>13, <1>14,
     <1>15, <1>16, <1>17, <1>18, <1>19 DEF Next, MidiContinues, MainNext, Timeouts, AudioOpening

----------------------------------------------------------------------------
(***************************************************************************)
(* Who leaves.                                                             *)
(***************************************************************************)
\* An emulator that is the head and has no next is alone in the list, and
\* without a head there is none (bristolSystem).
LEMMA LastIsAlone ==
    ASSUME Links, ListInv, NEW b, LastOne(b)
    PROVE  Listed \subseteq {b}
<1>1. Listed \subseteq Guis /\ Nil \notin Listed
  BY NilIsNone DEF Listed
<1>2. PICK p \in [Listed -> 0 .. Cardinality(Listed) - 1] : Numbered(Listed, p, emu, audiolist)
  BY DEF ListInv
<1>3. Cardinality(Listed) \in Nat
  BY <1>1, NilAssumption, FS_Subset, FS_CardinalityType
<1>4. \A c \in Listed : p[c] \in Nat
  BY <1>2, <1>3
<1>5. ASSUME NEW c \in Listed, p[c] # 0
      PROVE  /\ emu[c].last \in Listed /\ p[c] = p[emu[c].last] + 1
             /\ emu[emu[c].last].next = c
  <2>1. emu[c].last \in Listed
    BY <1>2, <1>5 DEF Numbered
  <2>2. p[c] = p[emu[c].last] + 1
    BY <1>2, <2>1 DEF Numbered
  <2> QED  BY <1>2, <2>1, <2>2 DEF Numbered
<1>6. \A c \in Listed : p[c] = 0 => audiolist = c
  BY <1>2 DEF Numbered
<1> SUFFICES ASSUME ~(Listed \subseteq {b}) PROVE FALSE
  OBVIOUS
<1> DEFINE Rest == {p[c] : c \in Listed \ {b}}
<1>7. Rest \in SUBSET Nat /\ Rest # {}
  BY <1>4
<1>8. PICK c \in Listed \ {b} : \A d \in Listed \ {b} : p[c] <= p[d]
  <2>1. Min(Rest) \in Rest /\ \A n \in Rest : Min(Rest) <= n
    <3> HIDE DEF Rest
    <3> QED  BY <1>7, Least
  <2> QED  BY <2>1
<1> HIDE DEF Rest
<1>9. p[c] # 0
  BY <1>1, <1>6, <1>8 DEF LastOne
<1>10. b \in Listed /\ p[c] = p[b] + 1 /\ emu[b].next = c
  <2>1. /\ emu[c].last \in Listed /\ p[c] = p[emu[c].last] + 1 /\ emu[emu[c].last].next = c
    BY <1>5, <1>8, <1>9
  <2>2. ~(p[c] <= p[emu[c].last])
    BY <2>1, <1>4
  <2>3. emu[c].last = b
    BY <2>1, <2>2, <1>8
  <2> QED  BY <2>1, <2>3
<1>11. audiolist = Nil
  BY <1>1, <1>8, <1>10 DEF LastOne
<1>12. p[b] # 0
  BY <1>1, <1>6, <1>10, <1>11
<1>13. emu[b].last \in Listed /\ p[b] = p[emu[b].last] + 1
  BY <1>5, <1>10, <1>12
<1>14. emu[b].last # b /\ ~(p[c] <= p[emu[b].last])
  BY <1>13, <1>10, <1>4
<1> QED  BY <1>8, <1>13, <1>14

\* and otherwise it is not.
LEMMA NotAlone ==
    ASSUME Links, ListInv, NEW b \in Guis, ~LastOne(b)
    PROVE  \E c \in Listed : c # b
<1>1. audiolist \in Listed \cup {Nil} /\ audiolist # Nil /\ (audiolist = b => emu[b].next # Nil)
  BY DEF ListInv, LastOne
<1>2. CASE audiolist # b
  BY <1>1, <1>2
<1>3. CASE audiolist = b
  <2>1. PICK p \in [Listed -> 0 .. Cardinality(Listed) - 1] : Numbered(Listed, p, emu, audiolist)
    BY DEF ListInv
  <2>2. b \in Listed /\ emu[b].next \in Listed
    BY <1>1, <1>3, <2>1 DEF Numbered
  <2>3. p[emu[b].next] = p[b] + 1 /\ p[b] \in Int
    BY <2>1, <2>2 DEF Numbered
  <2> QED  BY <2>2, <2>3
<1> QED  BY <1>2, <1>3

\* A GUI that does not die leaves with an exit (cleanupBristol).
LEMMA LeavesByExit ==
    ASSUME Patient, TypeOK, InboxInv, NobodyDies, NEW g \in Guis, GuiNext(g), gui'[g] = "gone"
    PROVE  gui[g] = "running" /\ inbox'[g] \in Farewells
<1>1. gui \in [Guis -> Waiting \cup {"off", "running", "gone"}] /\ inbox \in [Guis -> Seq(Requests)]
  BY DEF TypeOK
<1>2. ~Start(g)
  BY <1>1 DEF Start
<1>3. ~Answered(g)
  BY <1>1, AnsweredIs, HandshakeSteps
<1>4. ~Crash(g) /\ ~Resend(g)
  BY DEF Crash, NobodyDies, Resend
<1>5. Quit(g)
  BY <1>2, <1>3, <1>4 DEF GuiNext
<1>6. gui[g] = "running" /\ inbox'[g] = inbox[g] \o <<"stop", "exit">>
  BY <1>1, <1>5 DEF Quit
<1>7. inbox[g] = <<>> \/ inbox[g] = <<"go">>
  BY <1>6 DEF InboxInv
<1>8. inbox'[g] = <<"stop", "exit">> \/ inbox'[g] = <<"go", "stop", "exit">>
  BY <1>6, <1>7, Goodbyes, Zenon
<1> QED  BY <1>6, <1>8 DEF Farewells

\* Only an exit is read as an exit (bristolSystem).
LEMMA ExitIsRead ==
    ASSUME NEW g \in Guis, Handles(g), inbox[g] = <<"exit">>, inbox'[g] # inbox[g]
    PROVE  ExitAlgo(g)
<1>1. Head(<<"exit">>) = "exit"
  OBVIOUS
<1>2. ~Accept(g) /\ ~LostConnection(g)
  BY DEF Accept, LostConnection
<1>3. ~(Hello(g) \/ Channel(g) \/ ReqStart(g) \/ InitAlgo(g) \/ MidiGo(g) \/ MidiStop(g))
  BY <1>1 DEF Hello, Channel, ReqStart, InitAlgo, MidiGo, MidiStop, Reads
<1> QED  BY <1>2, <1>3 DEF Handles

\* What remains in the inbox of a GUI that has left is its exit.
Parting == \A g \in Guis : gui[g] = "gone" => inbox[g] \in Leaving \cup {<<>>}

\* An emulator is needed until its exit, and never again (bristolSystem).
LEMMA NeededKept ==
    ASSUME Patient, TypeOK, InboxInv, BusyInv, SidInv, NobodyDies, Parting, [Next]_vars, NEW b \in Guis
    PROVE  /\ Needed(b)' => Needed(b) \/ gui[b] = "off"
           /\ Needed(b) => Needed(b)' \/ ExitAlgo(b)
           /\ gui'[b] = "gone" => inbox'[b] \in Leaving \cup {<<>>}
<1>1. gui[b] \in Waiting \cup {"off", "running", "gone"}
  BY DEF TypeOK
<1>2. \A s : <<s>> # <<>> /\ \A r : <<s>> = <<r>> => s = r
  OBVIOUS
<1>3. /\ \A s \in Leaving : s # <<>> /\ s # <<"init">>
      /\ \A s, t : Shorter(s, t) => t # <<"init">> /\ (t \in Leaving => s \in Leaving)
      /\ \A s \in Leaving : \A t : Shorter(s, t) => t \in Leaving
  BY LeavingFacts, Shapes, <1>2 DEF Leaving
<1>4. ASSUME NEW g \in Guis, GuiNext(g)
      PROVE  /\ Needed(b)' => Needed(b) \/ gui[b] = "off"
             /\ Needed(b) => Needed(b)'
             /\ gui'[b] = "gone" => inbox'[b] \in Leaving \cup {<<>>}
  <2>1. CASE b # g
    <3>1. gui'[b] = gui[b] /\ inbox'[b] = inbox[b]
      BY <1>4, <2>1, GuiMoves
    <3> QED  BY <3>1 DEF Needed, Live, Parting
  <2>2. CASE b = g
    <3>1. CASE gui'[b] = "gone"
      <4>1. gui[b] = "running" /\ inbox'[b] \in Farewells
        BY <1>4, <2>2, <3>1, LeavesByExit
      <4> QED  BY <4>1 DEF Needed, Live, Leaving
    <3>2. CASE gui'[b] # "gone"
      <4>1. gui'[b] \in {"hello", "channel", "start", "init", "running"} /\ gui[b] # "gone"
        BY <1>4, <2>2, <3>2, GuiMoves, HandshakeSteps
      <4> QED  BY <3>2, <4>1 DEF Needed, Live
    <3> QED  BY <3>1, <3>2
  <2> QED  BY <2>1, <2>2
<1>5. ASSUME ~ \E g \in Guis : GuiNext(g)
      PROVE  /\ gui'[b] = gui[b]
             /\ \/ inbox'[b] = inbox[b]
                \/ inbox'[b] = <<>>
                \/ Shorter(inbox[b], inbox'[b])
  <2>1. CASE \E g \in Guis : Hello(g)
    BY <2>1, HelloIsNew
  <2>2. CASE Hook
    BY <2>2 DEF Hook, guiVars
  <2>3. CASE ~Hook /\ ~ \E g \in Guis : GuiNext(g) \/ Hello(g)
    BY <2>3, EngineMoves
  <2> QED  BY <1>5, <2>1, <2>2, <2>3
<1>6. ASSUME NEW g \in Guis, Handles(g), Needed(b) PROVE Needed(b)' \/ ExitAlgo(b)
  <2>0. gui' = gui
    BY <1>6 DEF Handles, Accept, LostConnection, Hello, Channel, ReqStart, InitAlgo, MidiGo, MidiStop, ExitAlgo,
       guiVars
  <2>1. CASE gui[b] # "gone"
    <3>1. gui[b] = "off" => inbox[b] = <<>>
      BY DEF InboxInv
    <3>2. Live(b)
      BY <1>2, <1>3, <1>6, <2>1, <3>1 DEF Needed, Live
    <3> QED  BY <2>0, <3>2 DEF Needed, Live
  <2>2. CASE gui[b] = "gone" /\ inbox'[b] = inbox[b]
    BY <1>6, <2>0, <2>2 DEF Needed, Live
  <2>3. CASE gui[b] = "gone" /\ inbox'[b] # inbox[b]
    <3>1. b = g
      <4>1. inbox' = inbox \/ \E op : Reads(g, op)
        BY <1>6 DEF Handles, Accept, LostConnection, Hello, Channel, ReqStart, InitAlgo, MidiGo, MidiStop,
           ExitAlgo
      <4>2. inbox' = inbox \/ inbox' = [inbox EXCEPT ![g] = Tail(@)]
        BY <4>1 DEF Reads
      <4> QED  BY <4>2, <2>3 DEF TypeOK
    <3>2. inbox[b] \in Leaving
      <4>1. inbox[b] # <<>>
        BY <1>6, <3>1, <2>3 DEF Handles, Accept, LostConnection, Hello, Channel, ReqStart, InitAlgo,
           MidiGo, MidiStop, ExitAlgo, Reads
      <4> QED  BY <4>1, <2>3 DEF Parting
    <3>3. CASE inbox[b] = <<"exit">>
      BY <1>6, <2>3, <3>1, <3>3, ExitIsRead
    <3>4. CASE inbox[b] \in Farewells
      <4>1. PICK op : Reads(b, op)
        BY <1>6, <2>3, <3>1 DEF Handles, Accept, LostConnection, Hello, Channel, ReqStart, InitAlgo,
           MidiGo, MidiStop, ExitAlgo
      <4>2. inbox[b] # <<op>>
        <5>1. inbox[b] \in Chains
          BY <3>4 DEF Farewells, Chains
        <5> QED  BY <5>1, Shapes
      <4>3. Shorter(inbox[b], inbox'[b])
        BY <4>1, <4>2, <2>3, ReadFacts DEF Shorter
      <4> QED  BY <4>3, <3>2, <1>3 DEF Needed
    <3> QED  BY <3>2, <3>3, <3>4 DEF Leaving
  <2> QED  BY <2>1, <2>2, <2>3
<1>7. ASSUME ~ \E g \in Guis : GuiNext(g) \/ Handles(g) PROVE gui' = gui /\ inbox' = inbox
  <2>1. ASSUME NEW g \in Guis, AudioPeriod(g) \/ Touch(g) PROVE gui' = gui /\ inbox' = inbox
    BY <2>1 DEF AudioPeriod, SenseExpires, Unlink, Touch, guiVars, wire
  <2>2. ASSUME MidiContinues PROVE gui' = gui /\ inbox' = inbox
    BY <2>2 DEF MidiContinues, Hook, Started, CheckLast, FreeEmulator, Shutdown, Terminate, MidiEnds,
       guiVars, wire
  <2>3. ASSUME MainNext \/ Timeouts PROVE gui' = gui /\ inbox' = inbox
    BY <2>3 DEF MainNext, Timeouts, MainSpawns, MainSeesAudio, MainLeaves, MainJoins, MainGivesUp,
       MainWatches, MainBites, JackGivesUp, guiVars, wire
  <2>4. ASSUME AudioOpening \/ Forget \/ TouchBack \/ AudioStops PROVE gui' = gui /\ inbox' = inbox
    BY <2>4 DEF AudioOpening, AudioBegins, AudioOpens, AudioFails, JackActivates, Forget, TouchBack,
       AudioStops, guiVars, wire
  <2>5. ASSUME UNCHANGED vars PROVE gui' = gui /\ inbox' = inbox
    BY <2>5 DEF vars
  <2> QED  BY <1>7, <2>1, <2>2, <2>3, <2>4, <2>5 DEF Next
<1>8. CASE \E g \in Guis : GuiNext(g)
  BY <1>4, <1>8
<1>9. CASE ~ \E g \in Guis : GuiNext(g)
  <2>1. Needed(b) => Needed(b)' \/ ExitAlgo(b)
    <3>1. CASE \E g \in Guis : Handles(g)
      BY <3>1, <1>6
    <3>2. CASE ~ \E g \in Guis : Handles(g)
      BY <3>2, <1>7, <1>9 DEF Needed, Live
    <3> QED  BY <3>1, <3>2
  <2>2. Needed(b)' => Needed(b)
    BY <1>2, <1>3, <1>5, <1>9 DEF Needed, Live
  <2>3. gui'[b] = "gone" => inbox'[b] \in Leaving \cup {<<>>}
    BY <1>3, <1>5, <1>9, Shapes DEF Parting
  <2> QED  BY <2>1, <2>2, <2>3
<1> QED  BY <1>8, <1>9

\* Only a hook puts an emulator into the list, and only a hello makes one
\* (bristolSystem).
LEMMA ListedKept ==
    ASSUME TypeOK, InboxInv, BusyInv, ListInv, SidInv, RemoveInv, StatusInv, PlayInv, [Next]_vars
    PROVE  /\ ~Hook => Listed' \subseteq Listed
           /\ Hook => Listed' \subseteq Listed \cup {midi.emu}
           /\ Made \subseteq Made'
           /\ ~(\E g \in Guis : Hello(g)) => Made' = Made
<1>1. emu \in [Guis -> Emulators] /\ Links /\ midi.emu \in Guis \cup {Nil}
  BY TypeLinks DEF Links, TypeOK
<1>2. CASE \E g \in Guis : Hello(g)
  <2>1. PICK g \in Guis : Hello(g)
    BY <1>2
  <2>2. /\ emu[g].life = "none" /\ midi.pc = "idle" /\ midi'.pc = "hook" /\ midi'.emu = g
        /\ emu'[g] = [sid |-> NewSid, flags |-> {"HOLDDOWN", "SENSE"},
                      next |-> audiolist, last |-> Nil, life |-> "new"]
        /\ \A h \in Guis \ {g} : emu'[h] = emu[h]
    BY <2>1, HelloIsNew
  <2>3. Listed' \subseteq Listed
    BY <2>2 DEF Listed, Hooking
  <2>4. emu'[g].life = "new"
    BY <2>2
  <2>5. Made \subseteq Made'
    BY <2>2, <2>4 DEF Made
  <2> QED  BY <1>2, <2>3, <2>5
<1>3. CASE ~ \E g \in Guis : Hello(g)
  <2>1. Made' = Made
    BY <1>3, LivesKept DEF Made
  <2>2. \A b \in Guis : emu'[b].life \in {"new", "ready"} => emu[b].life \in {"new", "ready"}
    <3>1. CASE \E g \in Guis : Unlink(g)
      <4>1. PICK x \in Guis : Unlink(x)
        BY <3>1
      <4>2. emu'[x].life = "removed" /\ \A c \in Guis \ {x} : emu'[c].life = emu[c].life
        BY <1>1, <4>1, UnlinkIs
      <4> QED  BY <4>2
    <3>2. CASE Hook
      <4>1. emu' = emu \/ emu' = [emu EXCEPT ![audiolist].last = midi.emu]
        BY <3>2 DEF Hook
      <4> QED  BY <4>1, <1>1 DEF Emulators
    <3>3. CASE SameList
      BY <3>3 DEF SameList, Out
    <3> QED  BY <1>3, <3>1, <3>2, <3>3, ListChanges
  <2>3. CASE Hook
    BY <2>1, <2>2, <2>3, <1>3 DEF Hook, Listed, Hooking
  <2>4. CASE ~Hook
    <3>1. Hooking \subseteq Hooking'
      BY <1>3, <2>4, HookEnds DEF Hooking
    <3> QED  BY <2>1, <2>2, <2>4, <3>1, <1>3 DEF Listed
  <2> QED  BY <2>3, <2>4
<1> QED  BY <1>2, <1>3

\* A step that is about nobody who leaves.
LEMMA LeaveKept ==
    ASSUME LeaveInv, setup' = setup, Parting', Made' = Made, Listed' \subseteq Listed,
           eng.hello => eng'.hello, \A b \in Made : Needed(b)' <=> Needed(b),
           \/ midi' = midi /\ (midi.pc = "hook" => Live(midi.gui)')
           \/ midi.pc \in {"idle", "starting"} /\ midi'.pc \in {"idle", "starting"},
           audio'.pc = "unlinked" =>
               /\ audio.pc = "unlinked" /\ audio'.emu = audio.emu
               /\ "REMOVE" \in emu[audio.emu].flags => "REMOVE" \in emu'[audio.emu].flags,
           eng'.atStatus = "TERM" => eng.atStatus = "TERM", eng'.exitReq => eng.exitReq,
           eng.terminate => eng'.terminate, exited => exited'
    PROVE  LeaveInv'
<1>1. Wanted' = Wanted /\ Server' = Server
  BY DEF Wanted, Server
<1>2. Listed \subseteq Made
  BY DEF Listed, Made
<1>3. /\ midi'.pc \in Holding => midi' = midi
      /\ midi.pc \in Holding => midi' = midi
  BY DEF Holding
<1>4. eng'.terminate \/ \A b \in Listed' : Needed(b)' \/ (midi'.pc \in Holding /\ midi'.emu = b)
  BY <1>2, <1>3 DEF LeaveInv
<1>5. midi'.pc \in Holding => midi'.emu \in Made' /\ ~Needed(midi.emu)'
  BY <1>3 DEF LeaveInv
<1>6. audio'.pc = "unlinked" =>
          \/ exited' \/ eng'.terminate
          \/ midi'.pc \in Holding /\ midi'.emu = audio'.emu /\ "REMOVE" \in emu'[audio'.emu].flags
  BY <1>3 DEF LeaveInv
<1> HIDE DEF Wanted, Server, Needed, Made, Listed, Holding
<1>7. eng'.atStatus = "TERM" =>
          exited' \/ eng'.terminate \/ midi'.pc \in {"marked", "emptying", "dying", "ended"}
  BY DEF LeaveInv
<1>8. Wanted' => midi'.pc \notin {"emptying", "dying"} /\ eng'.atStatus # "TERM" /\ ~eng'.exitReq
  BY <1>1 DEF LeaveInv
<1>9. midi'.pc = "removing" => Server' \/ Wanted' \/ eng'.terminate
  BY <1>1 DEF LeaveInv
<1>10. midi'.pc = "hook" => Live(midi.gui)'
  OBVIOUS
<1> QED  BY <1>4, <1>5, <1>6, <1>7, <1>8, <1>9, <1>10 DEF LeaveInv, Parting

\* One exit is handled at a time, and the last emulator ends the engine when no
\* other is needed (bristolSystem, doAudioOps).
LEMMA LeaveStep ==
    ASSUME Whole, Patient, NobodyDies, TypeOK, InboxInv, BusyInv, HelloInv, ListInv, SidInv, RemoveInv,
           StatusInv, PlayInv, SidsInv, ServedInv, EndInv, LeaveInv, [Next]_vars
    PROVE  LeaveInv'
<1>1. /\ eng \in [atStatus : {"EXIT", "WAIT", "OK", "FAIL", "TERM"}, atReq : SUBSET {"START", "STOP"},
                  exitReq : BOOLEAN, terminate : BOOLEAN, audiowait : BOOLEAN,
                  hello : BOOLEAN, go : BOOLEAN, opens : 0 .. Cardinality(Guis)]
      /\ midi \in [pc : Threads, gui : Guis \cup {Nil}, emu : Guis \cup {Nil}]
      /\ audio \in [pc : {"none", "spawned", "opening", "awaiting", "run", "unlinked", "touch", "ended"},
                    emu : Guis \cup {Nil}, flags : Flags]
      /\ emu \in [Guis -> Emulators] /\ Links /\ Nil \notin Guis
  BY TypeLinks, NilIsNone DEF TypeOK, Links
<1>2. setup' = setup /\ Server' = Server /\ (exited => exited')
  BY SetupKept, ExitedKept DEF Server
<1>3. Parting
  BY DEF Parting, LeaveInv
<1>4. /\ \A b \in Guis : Needed(b)' => Needed(b) \/ gui[b] = "off"
      /\ \A b \in Guis : Needed(b) => Needed(b)' \/ ExitAlgo(b)
      /\ Parting'
  BY <1>3, NeededKept DEF Parting
<1>5. /\ ~Hook => Listed' \subseteq Listed
      /\ Hook => Listed' \subseteq Listed \cup {midi.emu}
      /\ Made \subseteq Made'
      /\ ~(\E g \in Guis : Hello(g)) => Made' = Made
  BY ListedKept
<1>6. Made \subseteq Guis /\ (\A b \in Made : gui[b] # "off") /\ Listed \subseteq Made
  BY DEF Made, Listed, SidInv
<1>7. /\ ~ (\E g \in Guis : ExitAlgo(g)) => \A b \in Made : Needed(b)' <=> Needed(b)
      /\ \A b \in Made : Needed(b)' => Needed(b)
  BY <1>4, <1>6
<1>8. ASSUME NEW g \in Guis, Reads(g, "hello") \/ Reads(g, "exit") PROVE inbox' # inbox
  <2>1. inbox[g] # <<>> /\ inbox[g] \in Seq(Requests) /\ inbox'[g] = Tail(inbox[g])
    BY <1>8 DEF Reads, TypeOK
  <2>2. Len(inbox'[g]) # Len(inbox[g])
    BY <2>1, HeadAndTail
  <2> QED  BY <2>2
<1>9. ASSUME inbox' = inbox \/ gui' # gui
      PROVE  Made' = Made /\ (\A b \in Made : Needed(b)' <=> Needed(b)) /\ Wanted' = Wanted
  <2>1. ~ \E g \in Guis : Hello(g) \/ ExitAlgo(g)
    BY <1>8, <1>9 DEF Hello, ExitAlgo, guiVars
  <2>2. Made' = Made /\ \A b \in Made : Needed(b)' <=> Needed(b)
    BY <1>5, <1>7, <2>1
  <2> QED  BY <2>2 DEF Wanted
<1> HIDE DEF Made, Listed, Needed, Wanted, Server
<1>10. ASSUME NEW g \in Guis, GuiNext(g) PROVE LeaveInv'
  <2>1. UNCHANGED <<emu, eng, midi, audio>> /\ gui' # gui
    <3>1. gui'[g] # gui[g]
      BY <1>10, GuiMoves, HandshakeSteps
    <3> QED  BY <1>10, <3>1, GuiMoves
  <2>2. midi.pc = "hook" => Live(midi.gui)'
    <3> SUFFICES ASSUME midi.pc = "hook" PROVE gui'[midi.gui] \notin {"off", "gone"}
      BY <2>1 DEF Live
    <3>1. midi.gui \in Guis /\ gui[midi.gui] = "hello"
      BY <1>1 DEF BusyInv, LeaveInv, Live
    <3>2. CASE midi.gui = g
      BY <1>10, <3>1, <3>2, GuiMoves, LeavesByExit
    <3>3. CASE midi.gui # g
      BY <1>10, <3>1, <3>3, GuiMoves
    <3> QED  BY <3>2, <3>3
  <2>3. ~Hook
    BY <2>1 DEF Hook, guiVars
  <2> QED  BY <1>2, <1>4, <1>5, <1>9, <2>1, <2>2, <2>3, LeaveKept
<1>11. ASSUME NEW g \in Guis, Handles(g), ~Hello(g), ~ExitAlgo(g) PROVE LeaveInv'
  <2>1. /\ gui' = gui /\ audio' = audio /\ midi.pc = "idle"
        /\ midi' = midi \/ midi'.pc = "starting"
    BY <1>1, <1>11 DEF Handles, Accept, LostConnection, Channel, ReqStart, InitAlgo, MidiGo, MidiStop, guiVars,
       To, Reads, Selects
  <2>2. UNCHANGED <<eng.hello, eng.atStatus, eng.exitReq, eng.terminate>>
    BY <1>1, <1>11 DEF Handles, Accept, LostConnection, Channel, ReqStart, InitAlgo, MidiGo, MidiStop, Resumed
  <2>3. \A b \in Guis : "REMOVE" \in emu[b].flags => "REMOVE" \in emu'[b].flags
    <3>1. CASE InitAlgo(g)
      <4>1. \/ emu' = emu
            \/ emu' = [emu EXCEPT ![Find(told[g])].flags = @ \ {"HOLDDOWN"},
                                  ![Find(told[g])].life = "ready"]
        BY <3>1 DEF InitAlgo
      <4> QED  BY <4>1, <1>1 DEF Emulators
    <3>2. CASE emu' = emu
      BY <3>2
    <3> QED  BY <1>11, <3>1, <3>2 DEF Handles, Accept, LostConnection, Channel, ReqStart, MidiGo, MidiStop, list
  <2>4. ~(\E h \in Guis : Hello(h) \/ ExitAlgo(h))
    <3>1. ASSUME NEW h \in Guis, Hello(h) \/ ExitAlgo(h) PROVE FALSE
      <4>1. UNCHANGED <<conn, ack>> /\ inbox'[h] # inbox[h] /\ \E op \in {"hello", "exit"} : Reads(h, op)
        <5>1. Reads(h, "hello") \/ Reads(h, "exit")
          BY <3>1 DEF Hello, ExitAlgo
        <5>2. inbox[h] # <<>> /\ inbox[h] \in Seq(Requests) /\ inbox'[h] = Tail(inbox[h])
          BY <5>1 DEF Reads, TypeOK
        <5>3. Len(inbox'[h]) # Len(inbox[h])
          BY <5>2, HeadAndTail
        <5> QED  BY <3>1, <5>1, <5>3 DEF Hello, ExitAlgo
      <4>2. inbox' = inbox \/ (\E op \in {"channel", "start", "init", "go", "stop"} : Reads(g, op))
        BY <1>11 DEF Handles, Accept, LostConnection, Channel, ReqStart, InitAlgo, MidiGo, MidiStop
      <4>3. inbox' = inbox \/ inbox' = [inbox EXCEPT ![g] = Tail(@)]
        BY <4>2 DEF Reads
      <4>4. h = g
        BY <4>1, <4>3 DEF TypeOK
      <4> QED  BY <4>1, <4>2, <4>4 DEF Reads
    <3> QED  BY <3>1
  <2>5. Made' = Made /\ \A b \in Made : Needed(b)' <=> Needed(b)
    BY <1>5, <1>7, <2>4
  <2>6. ~Hook
    BY <2>1 DEF Hook
  <2>7. audio.emu \in Guis \/ audio.pc # "unlinked"
    BY <1>1 DEF RemoveInv
  <2> QED  BY <1>2, <1>4, <1>5, <2>1, <2>2, <2>3, <2>5, <2>6, <2>7, LeaveKept
<1>12. ASSUME NEW g \in Guis, Hello(g) PROVE LeaveInv'
  <2>1. /\ inbox[g] = <<"hello">> /\ gui[g] # "off" /\ midi.pc = "idle" /\ gui' = gui
        /\ midi'.pc = "hook" /\ midi'.gui = g
    BY <1>12, HelloIsNew DEF Hello, To
  <2>2. /\ ~eng.terminate /\ ~exited /\ eng'.hello /\ audio' = audio
        /\ UNCHANGED <<eng.atStatus, eng.exitReq, eng.terminate>>
    <3>1. ~eng.terminate /\ ~exited
      BY <1>12 DEF Hello, Reads, Selects, MidiMay
    <3> QED  BY <1>1, <1>12, <3>1 DEF Hello, HelloInv
  <2>3. Live(g)'
    <3>1. <<"hello">> # <<>> /\ <<"hello">> \notin Leaving
      BY LeavingFacts, Shapes
    <3>2. gui[g] # "gone"
      BY <1>3, <2>1, <3>1 DEF Parting
    <3> QED  BY <2>1, <3>2 DEF Live
  <2>4. Listed' \subseteq Listed
    <3>1. ~Hook
      BY <2>1 DEF Hook
    <3> QED  BY <3>1, <1>5
  <2>5. \A b \in Made : Needed(b) => Needed(b)'
    <3>1. ASSUME NEW h \in Guis, ExitAlgo(h) PROVE FALSE
      <4>1. midi' = midi \/ midi'.pc = "marked"
        BY <3>1 DEF ExitAlgo, To
      <4> QED  BY <2>1, <4>1
    <3> QED  BY <3>1, <1>7
  <2>6. midi.pc \notin Holding /\ midi'.pc \notin Holding
    BY <2>1 DEF Holding
  <2>7. eng'.terminate \/ \A b \in Listed' : Needed(b)' \/ (midi'.pc \in Holding /\ midi'.emu = b)
    BY <1>6, <2>2, <2>4, <2>5, <2>6 DEF LeaveInv
  <2>8. audio'.pc # "unlinked" /\ eng'.atStatus # "TERM"
    BY <2>1, <2>2, <2>6 DEF LeaveInv
  <2>9. ~eng'.exitReq
    BY <2>1, <2>2 DEF EndInv
  <2> QED  BY <1>4, <2>1, <2>2, <2>3, <2>6, <2>7, <2>8, <2>9 DEF LeaveInv, Parting
<1>13. ASSUME NEW g \in Guis, ExitAlgo(g) PROVE LeaveInv'
  <2>1. \A op : Reads(g, op) => op = "exit"
    BY <1>13 DEF ExitAlgo, Reads
  <2>2. /\ gui[g] = "gone" /\ inbox[g] = <<"exit">> /\ inbox'[g] = <<>> /\ midi.pc = "idle"
        /\ ~eng.terminate /\ ~exited /\ gui' = gui /\ audio' = audio
    <3>1. Reads(g, "exit") /\ gui' = gui /\ audio' = audio
      BY <1>13 DEF ExitAlgo, guiVars
    <3>2. gui[g] \in Waiting \cup {"off", "running", "gone"}
      BY DEF TypeOK
    <3>3. gui[g] = "gone"
      BY <3>1, <3>2, HandshakeSteps, ReadFacts
    <3> QED  BY <3>1, <3>3, ReadFacts DEF Unchained
  <2>3. \A s \in Leaving \cup {<<"init">>} : s # <<>>
    BY LeavingFacts, Shapes
  <2>4. told[g] # NoSid
    <3>1. <<"exit">> # <<>> /\ <<"exit">> # <<"hello">>
      OBVIOUS
    <3>2. inbox[g] # <<>> /\ inbox[g] # <<"hello">>
      BY <2>2, <3>1
    <3> QED  BY <3>2 DEF SidInv
  <2>5. g \in Made /\ Needed(g)
    BY <2>2, <2>4 DEF SidInv, Made, Needed, Leaving
  <2>6. Find(told[g]) = g
    <3>1. emu[g].life \notin Out
      BY <2>5 DEF ServedInv
    <3> QED  BY <2>4, <3>1, OwnFound
  <2>7. eng.hello
    BY <2>5 DEF LeaveInv
  <2>8. /\ midi'.pc = "marked" /\ midi'.gui = g /\ midi'.emu = g
        /\ UNCHANGED <<eng.hello, eng.atStatus, eng.exitReq, eng.terminate>>
    <3>1. To("marked", g, g) /\ eng' = [eng EXCEPT !.go = FALSE]
      BY <1>1, <1>13, <2>6, <2>7 DEF ExitAlgo
    <3> QED  BY <1>1, <3>1 DEF To
  <2>9. ~Needed(g)'
    BY <2>2, <2>3 DEF Needed, Live
  <2>10. Made' = Made
    <3>1. ~ \E h \in Guis : Hello(h)
      BY <2>8 DEF Hello, To
    <3> QED  BY <3>1, <1>5
  <2>11. \A b \in Made \ {g} : Needed(b) => Needed(b)'
    <3>1. \A h \in Guis : ExitAlgo(h) => h = g
      BY <2>2, <2>8 DEF ExitAlgo, To
    <3> QED  BY <3>1, <1>4, <1>6
  <2>12. Wanted' => Wanted
    BY <1>7, <2>10 DEF Wanted
  <2>13. Listed' \subseteq Listed
    <3>1. ~Hook
      BY <2>2 DEF Hook
    <3> QED  BY <3>1, <1>5
  <2>14. midi.pc \notin Holding /\ midi'.pc \in Holding
    BY <2>2, <2>8 DEF Holding
  <2>15. \A b \in Listed' : Needed(b)' \/ (midi'.pc \in Holding /\ midi'.emu = b)
    BY <1>6, <2>2, <2>8, <2>11, <2>13, <2>14 DEF LeaveInv
  <2>16. audio'.pc # "unlinked" /\ eng'.atStatus # "TERM"
    BY <2>2, <2>8, <2>14 DEF LeaveInv
  <2>17. ~eng'.exitReq
    BY <2>2, <2>8 DEF EndInv
  <2> QED  BY <1>4, <2>5, <2>7, <2>8, <2>9, <2>10, <2>15, <2>16, <2>17 DEF LeaveInv, Parting
<1>14. ASSUME Hook PROVE LeaveInv'
  <2>1. /\ midi.pc = "hook" /\ midi'.pc = "idle" /\ ~exited
        /\ UNCHANGED <<gui, inbox, eng, audio>>
    BY <1>14 DEF Hook, Idle, To, MidiMay, guiVars
  <2>2. Made' = Made /\ (\A b \in Made : Needed(b)' <=> Needed(b)) /\ Wanted' = Wanted
    BY <1>9, <2>1
  <2>3. \A b \in Guis : b = midi.emu => Needed(b)'
    <3>1. midi.emu = midi.gui /\ Live(midi.gui)
      BY <2>1 DEF BusyInv, LeaveInv
    <3> QED  BY <2>1, <3>1 DEF Needed, Live
  <2>4. midi.pc \notin Holding /\ midi'.pc \notin Holding
    BY <2>1 DEF Holding
  <2>5. eng.terminate \/ \A b \in Listed' : Needed(b)'
    <3> SUFFICES ASSUME ~eng.terminate, NEW b \in Listed' PROVE Needed(b)'
      OBVIOUS
    <3>1. b \in Guis /\ (b \in Listed \/ b = midi.emu)
      BY <1>5, <1>14 DEF Listed
    <3>2. b \in Listed => b \in Made /\ Needed(b)
      BY <1>6, <2>4 DEF LeaveInv
    <3> QED  BY <2>2, <2>3, <3>1, <3>2
  <2>6. /\ audio.pc = "unlinked" => eng.terminate
        /\ eng.atStatus = "TERM" => eng.terminate
    BY <2>1, <2>4 DEF LeaveInv
  <2> QED  BY <1>4, <2>1, <2>2, <2>4, <2>5, <2>6 DEF LeaveInv, Parting
<1>15. ASSUME Started PROVE LeaveInv'
  <2>1. /\ midi.pc = "starting" /\ midi'.pc = "idle" /\ UNCHANGED <<gui, inbox, emu, eng, audio>>
    BY <1>15 DEF Started, Idle, To, guiVars, list
  <2>2. Made' = Made /\ \A b \in Made : Needed(b)' <=> Needed(b)
    BY <1>9, <2>1
  <2>3. ~Hook
    BY <2>1 DEF Hook
  <2> QED  BY <1>2, <1>4, <1>5, <2>1, <2>2, <2>3, LeaveKept
<1>16. ASSUME CheckLast PROVE LeaveInv'
  <2>1. /\ midi.pc = "marked" /\ midi'.emu = midi.emu /\ UNCHANGED <<gui, inbox, emu, eng, audio>>
        /\ midi'.pc = (IF LastOne(midi.emu) /\ ~Server THEN "emptying" ELSE "removing")
        /\ ~exited
    BY <1>16 DEF CheckLast, To, guiVars, wire, list, MidiMay
  <2>2. Made' = Made /\ (\A b \in Made : Needed(b)' <=> Needed(b)) /\ Wanted' = Wanted
    BY <1>9, <2>1
  <2>3. midi.pc \in Holding /\ midi'.pc \in Holding
    BY <2>1 DEF Holding
  <2>4. midi.emu \in Made /\ ~Needed(midi.emu)
    BY <2>3 DEF LeaveInv
  <2>5. Listed' \subseteq Listed
    <3>1. ~Hook
      BY <2>1 DEF Hook
    <3> QED  BY <3>1, <1>5
  <2>6. LastOne(midi.emu) => ~Wanted
    <3> SUFFICES ASSUME LastOne(midi.emu), NEW c \in Made, Needed(c) PROVE FALSE
      BY DEF Wanted
    <3>1. c \in Listed
      <4>1. emu[c].life \notin Out /\ c \notin Hooking
        BY <2>1 DEF ServedInv, Hooking
      <4>2. emu[c].life \in {"new", "ready"}
        BY <1>1, <4>1 DEF Made, Emulators, Out
      <4> QED  BY <1>6, <4>1, <4>2 DEF Listed
    <3>2. c = midi.emu
      BY <1>1, <3>1, LastIsAlone
    <3> QED  BY <2>4, <3>2
  <2>7. ~LastOne(midi.emu) => Wanted \/ eng.terminate
    <3> SUFFICES ASSUME ~LastOne(midi.emu), ~eng.terminate PROVE Wanted
      OBVIOUS
    <3>1. PICK c \in Listed : c # midi.emu
      BY <1>1, <1>6, <2>4, NotAlone
    <3>2. Needed(c)
      BY <3>1 DEF LeaveInv
    <3> QED  BY <1>6, <3>1, <3>2 DEF Wanted
  <2>8. eng.terminate \/ \A b \in Listed' : Needed(b)' \/ (midi'.pc \in Holding /\ midi'.emu = b)
    BY <1>6, <2>1, <2>2, <2>3, <2>5 DEF LeaveInv
  <2>9. midi'.pc = "removing" => Server \/ Wanted \/ eng.terminate
    BY <2>1, <2>7
  <2>10. midi'.pc = "emptying" => ~Wanted
    BY <2>1, <2>6
  <2>11. eng.atStatus = "TERM" => eng.terminate \/ midi'.pc = "emptying"
    <3>1. eng.atStatus = "TERM" => ~Wanted /\ ~Server
      BY <2>1 DEF LeaveInv, EndInv
    <3> QED  BY <2>1, <2>9, <3>1
  <2>12. audio.pc = "unlinked" =>
             eng.terminate \/ (midi'.emu = audio.emu /\ "REMOVE" \in emu[audio.emu].flags)
    BY <2>1 DEF LeaveInv
  <2>13. ~Needed(midi.emu)'
    BY <2>1, <2>2, <2>4
  <2>14. midi'.pc # "hook" /\ midi'.pc # "dying"
    BY <2>1
  <2> QED  BY <1>2, <1>4, <2>1, <2>2, <2>3, <2>4, <2>8, <2>9, <2>10, <2>11, <2>12, <2>13, <2>14
      DEF LeaveInv, Parting
<1>17. ASSUME FreeEmulator PROVE LeaveInv'
  <2>1. /\ midi.pc = "removing" /\ midi'.pc = "idle" /\ UNCHANGED <<gui, inbox, audio, exited>> /\ ~exited
        /\ emu' = [emu EXCEPT ![midi.emu].life = "freed"]
        /\ "REMOVE" \notin emu[midi.emu].flags \/ ~AudioWillRun
        /\ UNCHANGED <<eng.hello, eng.atStatus, eng.exitReq, eng.terminate>>
    BY <1>1, <1>17 DEF FreeEmulator, Idle, To, guiVars, MidiMay, Resumed
  <2>2. Made' = Made /\ (\A b \in Made : Needed(b)' <=> Needed(b)) /\ Wanted' = Wanted
    BY <1>9, <2>1
  <2>3. midi.pc \in Holding /\ midi'.pc \notin Holding
    BY <2>1 DEF Holding
  <2>4. eng.terminate \/ \A b \in Listed' : Needed(b)'
    <3> SUFFICES ASSUME ~eng.terminate, NEW b \in Listed' PROVE Needed(b)'
      OBVIOUS
    <3>1. b \in Listed /\ emu'[b].life \in {"new", "ready"}
      BY <1>5, <2>1 DEF Listed, Hook
    <3>2. b # midi.emu
      BY <1>1, <2>1, <3>1 DEF Listed, Emulators
    <3> QED  BY <1>6, <2>2, <3>1, <3>2 DEF LeaveInv
  <2>5. audio.pc = "unlinked" => eng.terminate
    <3>1. audio.pc = "unlinked" => AudioWillRun
      BY DEF AudioWillRun, AudioRuns
    <3> QED  BY <2>1, <3>1 DEF LeaveInv
  <2>6. eng.atStatus = "TERM" => eng.terminate
    BY <2>1 DEF LeaveInv
  <2> QED  BY <1>4, <2>1, <2>2, <2>3, <2>4, <2>5, <2>6 DEF LeaveInv, Parting
<1>18. ASSUME Shutdown PROVE LeaveInv'
  <2>1. /\ midi.pc = "emptying" /\ midi'.pc = "dying" /\ midi'.emu = midi.emu
        /\ UNCHANGED <<gui, inbox, emu, audio, exited, eng.hello, eng.terminate>>
    BY <1>1, <1>18 DEF Shutdown, To, guiVars, wire, list, Stopped
  <2>2. Made' = Made /\ (\A b \in Made : Needed(b)' <=> Needed(b)) /\ Wanted' = Wanted
    BY <1>9, <2>1
  <2>3. midi.pc \in Holding /\ midi'.pc \in Holding
    BY <2>1 DEF Holding
  <2>4. Listed' \subseteq Listed
    BY <1>5, <2>1 DEF Hook
  <2>5. eng'.terminate \/ \A b \in Listed' : Needed(b)' \/ (midi'.pc \in Holding /\ midi'.emu = b)
    BY <1>6, <2>1, <2>2, <2>3, <2>4 DEF LeaveInv
  <2>6. midi.emu \in Made /\ ~Needed(midi.emu) /\ ~Needed(midi.emu)'
    BY <2>1, <2>2, <2>3 DEF LeaveInv
  <2>7. ~Wanted
    BY <2>1 DEF LeaveInv
  <2>8. audio.pc = "unlinked" =>
             exited \/ eng.terminate \/ (midi'.emu = audio.emu /\ "REMOVE" \in emu[audio.emu].flags)
    BY <2>1 DEF LeaveInv
  <2> QED  BY <1>4, <2>1, <2>2, <2>3, <2>5, <2>6, <2>7, <2>8 DEF LeaveInv, Parting
<1>19. ASSUME Terminate \/ MidiEnds \/ (MainSeesAudio /\ midi' # midi) PROVE LeaveInv'
  <2>1. /\ UNCHANGED <<gui, inbox, emu, audio, exited>> /\ midi'.pc \in {"idle", "ended"}
        /\ UNCHANGED <<eng.hello, eng.atStatus, eng.exitReq>> /\ (eng.terminate => eng'.terminate)
        /\ \/ midi.pc = "dying" /\ eng'.terminate
           \/ midi.pc = "idle" /\ eng'.terminate
           \/ main = "spawning" /\ eng.atStatus = "FAIL" /\ ~exited
    <3>1. CASE Terminate
      BY <1>1, <3>1 DEF Terminate, Idle, To, guiVars, wire, list
    <3>2. CASE MidiEnds
      BY <1>1, <3>2 DEF MidiEnds, To, guiVars, wire, list
    <3>3. CASE MainSeesAudio /\ midi' # midi
      BY <1>1, <3>3 DEF MainSeesAudio, CancelMidi, To, guiVars, wire, list
    <3> QED  BY <1>19, <3>1, <3>2, <3>3
  <2>2. Made' = Made /\ (\A b \in Made : Needed(b)' <=> Needed(b)) /\ Wanted' = Wanted
    BY <1>9, <2>1
  <2>3. midi'.pc \notin Holding
    BY <2>1 DEF Holding
  <2>4. eng'.terminate \/ (midi.pc \notin Holding /\ audio.pc # "unlinked" /\ eng.atStatus # "TERM")
    <3>1. main = "spawning" /\ eng.atStatus = "FAIL" /\ ~exited =>
              midi.pc \in {"starting", "ended"} /\ audio.pc \in {"none", "ended"}
      BY DEF StatusInv, EndInv
    <3> QED  BY <2>1, <3>1 DEF Holding
  <2>5. midi.pc # "hook"
    <3>1. main = "spawning" /\ eng.atStatus = "FAIL" /\ ~exited => midi.pc \in {"starting", "ended"}
      BY DEF StatusInv
    <3> QED  BY <2>1, <3>1
  <2>6. Listed' \subseteq Listed
    BY <1>5, <2>5 DEF Hook
  <2>7. eng'.terminate \/ \A b \in Listed' : Needed(b)'
    BY <1>6, <2>1, <2>2, <2>4, <2>6 DEF LeaveInv
  <2>8. Wanted => eng'.atStatus # "TERM" /\ ~eng'.exitReq
    BY <2>1 DEF LeaveInv
  <2> QED  BY <1>4, <2>1, <2>2, <2>3, <2>4, <2>7, <2>8 DEF LeaveInv, Parting
<1>20. ASSUME \/ MainSpawns \/ MainLeaves \/ MainJoins \/ (MainSeesAudio /\ midi' = midi)
              \/ Timeouts \/ AudioOpening \/ AudioStops \/ UNCHANGED vars
       PROVE  LeaveInv'
  <2>1. UNCHANGED <<gui, inbox, emu, midi>>
    BY <1>20 DEF MainSpawns, MainLeaves, MainJoins, MainSeesAudio, Timeouts, MainGivesUp, MainWatches,
       MainBites, JackGivesUp, AudioOpening, AudioBegins, AudioOpens, AudioFails, JackActivates,
       AudioStops, guiVars, wire, list, vars
  <2>2. Made' = Made /\ \A b \in Made : Needed(b)' <=> Needed(b)
    BY <1>9, <2>1
  <2>3. audio'.pc = "unlinked" => audio' = audio
    <3>1. CASE MainSpawns \/ AudioOpening \/ AudioStops
      <4>1. audio' = audio \/ \E pc \in {"spawned", "opening", "awaiting", "run", "ended"} :
                                audio' = [audio EXCEPT !.pc = pc]
        BY <3>1 DEF MainSpawns, AudioOpening, AudioBegins, AudioOpens, AudioFails, JackActivates,
           AudioStops
      <4> QED  BY <1>1, <4>1
    <3>2. CASE MainLeaves \/ MainJoins \/ MainSeesAudio \/ Timeouts \/ UNCHANGED vars
      BY <3>2 DEF MainLeaves, MainJoins, MainSeesAudio, Timeouts, MainGivesUp, MainWatches,
         MainBites, JackGivesUp, vars
    <3> QED  BY <1>20, <3>1, <3>2
  <2>4. /\ eng'.hello = eng.hello /\ eng'.exitReq = eng.exitReq
        /\ eng.terminate => eng'.terminate
        /\ eng'.atStatus = "TERM" => eng.atStatus = "TERM"
    <3>1. CASE MainLeaves \/ Timeouts
      BY <1>1, <3>1 DEF MainLeaves, Timeouts, MainGivesUp, MainWatches, MainBites, Bites, JackGivesUp
    <3>2. CASE AudioOpening \/ AudioStops
      <4>1. CASE AudioBegins \/ AudioStops
        BY <1>1, <4>1 DEF AudioBegins, AudioStops
      <4>2. CASE AudioOpens
        BY <1>1, <4>2 DEF AudioOpens
      <4>3. CASE AudioFails \/ JackActivates
        BY <1>1, <4>3 DEF AudioFails, JackActivates
      <4> QED  BY <3>2, <4>1, <4>2, <4>3 DEF AudioOpening
    <3>3. CASE MainSpawns \/ MainJoins \/ MainSeesAudio \/ UNCHANGED vars
      BY <3>3 DEF MainSpawns, MainJoins, MainSeesAudio, vars
    <3> QED  BY <1>20, <3>1, <3>2, <3>3
  <2>5. midi.pc = "hook" => Live(midi.gui)'
    BY <2>1 DEF LeaveInv, Live
  <2>6. ~Hook \/ midi' # midi
    BY <1>1, <2>1 DEF Hook, Idle, To
  <2> QED  BY <1>2, <1>4, <1>5, <2>1, <2>2, <2>3, <2>4, <2>5, <2>6, LeaveKept
<1>21. ASSUME NEW g \in Guis, SenseExpires(g) PROVE LeaveInv'
  <2>1. UNCHANGED <<gui, inbox, eng, midi, audio>> /\ emu' = [emu EXCEPT ![g].flags = @ \cup {"REMOVE"}]
    BY <1>21 DEF SenseExpires, guiVars, wire
  <2>2. Made' = Made /\ \A b \in Made : Needed(b)' <=> Needed(b)
    BY <1>9, <2>1
  <2>3. \A b \in Guis : "REMOVE" \in emu[b].flags => "REMOVE" \in emu'[b].flags
    BY <1>1, <2>1 DEF Emulators
  <2>4. audio.pc = "unlinked" => audio.emu \in Guis
    BY <1>1 DEF RemoveInv
  <2>5. midi.pc = "hook" => Live(midi.gui)'
    BY <2>1 DEF LeaveInv, Live
  <2>6. ~Hook
    BY <1>1, <2>1 DEF Hook, Idle, To
  <2> QED  BY <1>2, <1>4, <1>5, <2>1, <2>2, <2>3, <2>4, <2>5, <2>6, LeaveKept
<1>22. ASSUME NEW g \in Guis, Unlink(g) PROVE LeaveInv'
  <2>1. /\ UNCHANGED <<gui, inbox, eng, midi>> /\ audio'.emu = g /\ "REMOVE" \in emu[g].flags
        /\ emu' = [Bypassed(g) EXCEPT ![g].flags = @ \cup {"HOLDDOWN"}, ![g].life = "removed"]
        /\ g \in Linked /\ AudioMay
    BY <1>1, <1>22 DEF Unlink, Visits, guiVars, wire
  <2>2. Made' = Made /\ (\A b \in Made : Needed(b)' <=> Needed(b)) /\ Wanted' = Wanted
    BY <1>9, <2>1
  <2>3. "REMOVE" \in emu'[g].flags
    <3>1. Bypassed(g) \in [Guis -> Emulators] /\ Bypassed(g)[g].flags = emu[g].flags
      BY <1>1 DEF Bypassed, Emulators
    <3> QED  BY <2>1, <3>1 DEF Emulators
  <2>4. g \in Listed /\ g \in Made
    BY <1>1, <1>6, <2>1, LinkedIsListed
  <2>5. ~Needed(g)
    BY <2>1, <2>4 DEF ServedInv
  <2>6. eng.terminate \/ (midi.pc \in Holding /\ midi.emu = g)
    BY <2>4, <2>5 DEF LeaveInv
  <2>7. midi.pc # "hook"
    BY <2>1 DEF AudioMay, Whole
  <2>8. Listed' \subseteq Listed
    BY <1>5, <2>7 DEF Hook
  <2>9. eng.terminate \/ \A b \in Listed' : Needed(b)' \/ (midi'.pc \in Holding /\ midi'.emu = b)
    BY <1>6, <2>1, <2>2, <2>8 DEF LeaveInv
  <2>10. midi.pc \in Holding => midi.emu \in Made /\ ~Needed(midi.emu) /\ ~Needed(midi.emu)'
    BY <2>1, <2>2 DEF LeaveInv
  <2>11. midi.pc = "removing" => Server \/ Wanted \/ eng.terminate
    BY DEF LeaveInv
  <2>12. eng.atStatus = "TERM" =>
             exited \/ eng.terminate \/ midi.pc \in {"marked", "emptying", "dying", "ended"}
    BY DEF LeaveInv
  <2>13. Wanted => midi.pc \notin {"emptying", "dying"} /\ eng.atStatus # "TERM" /\ ~eng.exitReq
    BY DEF LeaveInv
  <2> QED  BY <1>2, <1>4, <2>1, <2>2, <2>3, <2>6, <2>7, <2>9, <2>10, <2>11, <2>12, <2>13
      DEF LeaveInv, Parting
<1>23. ASSUME Forget PROVE LeaveInv'
  <2>1. /\ UNCHANGED <<gui, inbox, midi, exited, audiolist>> /\ audio.pc = "unlinked" /\ audio'.pc = "run"
        /\ UNCHANGED <<eng.hello, eng.exitReq, eng.terminate>>
        /\ \/ eng'.atStatus = eng.atStatus
           \/ eng'.atStatus = "TERM" /\ audiolist = Nil /\ ~Server
        /\ AudioMay
    BY <1>1, <1>23 DEF Forget, guiVars, wire
  <2>2. Made' = Made /\ (\A b \in Made : Needed(b)' <=> Needed(b)) /\ Wanted' = Wanted
    BY <1>9, <2>1
  <2>3. midi.pc # "hook"
    BY <2>1 DEF AudioMay, Whole
  <2>4. Listed' \subseteq Listed
    BY <1>5, <2>3 DEF Hook
  <2>5. audiolist = Nil => ~Wanted
    <3> SUFFICES ASSUME audiolist = Nil, NEW c \in Made, Needed(c) PROVE FALSE
      BY DEF Wanted
    <3>1. emu[c].life \notin Out /\ c \notin Hooking
      BY <2>3 DEF ServedInv, Hooking
    <3>2. emu[c].life \in {"new", "ready"}
      BY <1>1, <3>1 DEF Made, Emulators, Out
    <3>3. c \in Listed
      BY <1>6, <3>1, <3>2 DEF Listed
    <3>4. LastOne(Nil)
      BY DEF LastOne
    <3> QED  BY <1>1, <1>6, <3>3, <3>4, LastIsAlone
  <2>6. eng'.atStatus = "TERM" => ~Wanted
    BY <2>1, <2>5 DEF LeaveInv
  <2>7. eng'.atStatus = "TERM" =>
            eng.terminate \/ midi.pc \in {"marked", "emptying", "dying", "ended"}
    <3>1. eng.atStatus = "TERM" => eng.terminate \/ midi.pc \in {"marked", "emptying", "dying", "ended"}
      BY <2>1 DEF LeaveInv, AudioMay
    <3>2. eng.terminate \/ midi.pc \in Holding
      BY <2>1 DEF LeaveInv, AudioMay
    <3>3. audiolist = Nil /\ ~Server => midi.pc # "removing" \/ eng.terminate
      BY <2>5 DEF LeaveInv
    <3> QED  BY <2>1, <3>1, <3>2, <3>3 DEF Holding
  <2>8. eng.terminate \/ \A b \in Listed' : Needed(b)' \/ (midi'.pc \in Holding /\ midi'.emu = b)
    BY <1>6, <2>1, <2>2, <2>4 DEF LeaveInv
  <2>9. midi.pc \in Holding => midi.emu \in Made /\ ~Needed(midi.emu) /\ ~Needed(midi.emu)'
    BY <2>1, <2>2 DEF LeaveInv
  <2>10. midi.pc = "removing" => Server \/ Wanted \/ eng.terminate
    BY DEF LeaveInv
  <2>11. Wanted => midi.pc \notin {"emptying", "dying"} /\ ~eng.exitReq
    BY DEF LeaveInv
  <2>12. Made # {} => eng.hello
    BY DEF LeaveInv
  <2> QED  BY <1>2, <1>4, <2>1, <2>2, <2>3, <2>6, <2>7, <2>8, <2>9, <2>10, <2>11, <2>12
      DEF LeaveInv, Parting
<1>24. ASSUME TouchBack \/ \E g \in Guis : Touch(g) PROVE FALSE
  BY <1>24 DEF TouchBack, Touch, Whole, RemoveInv
<1> QED  BY <1>10, <1>11, <1>12, <1>13, <1>14, <1>15, <1>16, <1>17, <1>18, <1>19, <1>20, <1>21, <1>22,
     <1>23, <1>24 DEF Next, AudioPeriod, MidiContinues, MainNext

----------------------------------------------------------------------------
(***************************************************************************)
(* Who runs.                                                               *)
(***************************************************************************)
\* The connection of a GUI that is there stays open (midiCheck, bristolSystem).
OpenInv == \A g \in Made : Live(g) => conn[g] = "open"
LEMMA OpenStep ==
    ASSUME Patient, TypeOK, InboxInv, BusyInv, ListInv, SidInv, RemoveInv, StatusInv, PlayInv, OpenInv, [Next]_vars
    PROVE  OpenInv'
<1> SUFFICES ASSUME NEW b \in Guis, b \in Made', Live(b)' PROVE conn'[b] = "open"
  BY DEF OpenInv, Made
<1>1. conn \in [Guis -> {"none", "pending", "open", "down"}]
  BY DEF TypeOK
<1>2. CASE Hello(b)
  <2>1. conn' = conn /\ Reads(b, "hello")
    BY <1>2 DEF Hello
  <2> QED  BY <2>1 DEF Reads
<1>3. CASE ~Hello(b)
  <2>1. b \in Made
    <3>1. CASE \E g \in Guis : Hello(g)
      <4>1. PICK g \in Guis : Hello(g)
        BY <3>1
      <4>2. emu'[b] = emu[b]
        BY <4>1, <1>3, HelloIsNew
      <4> QED  BY <4>2 DEF Made
    <3> QED  BY <3>1, ListedKept
  <2>2. Live(b)
    <3>1. gui[b] # "off"
      BY <2>1 DEF SidInv, Made
    <3>2. gui[b] # "gone"
      <4>1. CASE \E g \in Guis : GuiNext(g)
        BY <4>1, GuiMoves, HandshakeSteps DEF Live
      <4>2. CASE ~ \E g \in Guis : GuiNext(g)
        <5>1. gui' = gui
          <6>1. CASE Hook \/ \E g \in Guis : Hello(g)
            BY <6>1, HelloIsNew DEF Hook, guiVars
          <6> QED  BY <4>2, <6>1, EngineMoves
        <5> QED  BY <5>1 DEF Live
      <4> QED  BY <4>1, <4>2
    <3> QED  BY <3>1, <3>2 DEF Live
  <2>3. conn[b] = "open"
    BY <2>1, <2>2 DEF OpenInv
  <2>4. \/ conn'[b] = conn[b] \/ conn'[b] = "open"
        \/ gui[b] \in {"off", "gone"}
    <3>1. ASSUME NEW g \in Guis, GuiNext(g) PROVE conn'[b] = conn[b] \/ gui[b] = "off"
      BY <1>1, <3>1 DEF GuiNext, Start, Answered, Resend, Quit, Crash
    <3>2. ASSUME NEW g \in Guis, Handles(g)
          PROVE  conn'[b] = conn[b] \/ conn'[b] = "open" \/ gui[b] = "gone"
      BY <1>1, <3>2 DEF Handles, Accept, LostConnection, Hello, Channel, ReqStart, InitAlgo, MidiGo, MidiStop,
         ExitAlgo
    <3>3. ASSUME FreeEmulator PROVE conn'[b] = conn[b] \/ gui[b] = "gone"
      <4>1. conn' = [conn EXCEPT ![midi.gui] = "down"] /\ midi.pc = "removing"
        BY <3>3 DEF FreeEmulator
      <4>2. gui[midi.gui] = "gone"
        BY <4>1 DEF BusyInv, Holding
      <4> QED  BY <1>1, <4>1, <4>2
    <3>4. ASSUME MidiContinues, ~FreeEmulator PROVE conn' = conn
      BY <3>4 DEF MidiContinues, Hook, Started, CheckLast, Shutdown, Terminate, MidiEnds, wire
    <3>5. ASSUME MainNext \/ Timeouts PROVE conn' = conn
      BY <3>5 DEF MainNext, Timeouts, MainSpawns, MainSeesAudio, MainLeaves, MainJoins, MainGivesUp,
         MainWatches, MainBites, JackGivesUp, wire
    <3>6. ASSUME AudioOpening \/ Forget \/ TouchBack \/ AudioStops
                 \/ \E g \in Guis : AudioPeriod(g) \/ Touch(g)
          PROVE  conn' = conn
      BY <3>6 DEF AudioOpening, AudioBegins, AudioOpens, AudioFails, JackActivates, Forget, TouchBack,
         AudioStops, AudioPeriod, SenseExpires, Unlink, Touch, wire
    <3>7. ASSUME UNCHANGED vars PROVE conn' = conn
      BY <3>7 DEF vars
    <3> QED  BY <3>1, <3>2, <3>3, <3>4, <3>5, <3>6, <3>7 DEF Next
  <2> QED  BY <2>2, <2>3, <2>4 DEF Live
<1> QED  BY <1>2, <1>3

\* Who has come that far has an emulator, and needs it.
LEMMA BegunNeeds ==
    ASSUME SidInv, NEW g \in Guis, Begun(g)
    PROVE  g \in Made /\ Live(g) /\ Needed(g) /\ Wanted
<1>1. gui[g] \in {"start", "init", "running"}
  BY DEF Begun
<1>2. g \in Made /\ Live(g)
  BY <1>1 DEF SidInv, Made, Live
<1> QED  BY <1>2 DEF Needed, Wanted

\* A GUI comes past the start by its answer (bristolSystem).
LEMMA BegunStep ==
    ASSUME Patient, TypeOK, InboxInv, BusyInv, SidInv, [Next]_vars, NEW g \in Guis
    PROVE  /\ Begun(g)' => \/ Begun(g)
                           \/ gui[g] = "start" /\ ack'[g] # ack[g] /\ gui' = gui
                              /\ (ReqStart(g) \/ (Started /\ midi.gui = g))
           /\ Done(g)' => \/ Done(g)
                          \/ gui[g] = "init" /\ ack'[g] # ack[g] /\ InitAlgo(g)
<1>1. CASE \E h \in Guis : GuiNext(h)
  <2>1. PICK h \in Guis : GuiNext(h)
    BY <1>1
  <2>2. CASE h # g
    BY <2>1, <2>2, GuiMoves DEF Begun, Done
  <2>3. CASE h = g
    BY <2>1, <2>3, GuiMoves, HandshakeSteps DEF Begun, Done
  <2> QED  BY <2>2, <2>3
<1>2. CASE Hook
  <2>1. gui[midi.gui] \in {"hello", "gone"}
    BY <1>2 DEF Hook, BusyInv
  <2>2. gui' = gui /\ (ack' = ack \/ Answer(midi.gui, emu[midi.emu].sid))
    BY <1>2 DEF Hook, guiVars
  <2>3. ack'[g] = ack[g] \/ gui[g] \in {"hello", "gone"}
    BY <2>1, <2>2 DEF Answer, TypeOK
  <2> QED  BY <2>2, <2>3 DEF Begun, Done
<1>3. CASE \E h \in Guis : Hello(h)
  BY <1>3, HelloIsNew DEF Begun, Done
<1>4. CASE ~Hook /\ ~ \E h \in Guis : GuiNext(h) \/ Hello(h)
  BY <1>4, EngineMoves DEF Begun, Done
<1> QED  BY <1>1, <1>2, <1>3, <1>4

\* The audio thread that plays for somebody is watched over (main).
LEMMA UpAgain ==
    ASSUME StatusInv', EndInv', LeaveInv', Wanted', TypeOK', ~exited', eng'.atStatus = "OK"
    PROVE  Up'
<1>1. ~eng'.exitReq /\ midi'.pc \notin {"emptying", "dying"}
  BY DEF LeaveInv
<1>2. ~eng'.terminate /\ main' # "closing" /\ midi'.pc # "ended"
  BY <1>1 DEF EndInv
<1>3. audio'.pc # "none"
  BY DEF StatusInv, Playing, AudioRuns
<1>4. main' # "biting" /\ "START" \in eng'.atReq
  BY <1>1, <1>2, <1>3 DEF EndInv
<1>5. main' \in {"loop", "spawning", "biting", "closing"}
  BY DEF TypeOK
<1> QED  BY <1>1, <1>2, <1>4, <1>5 DEF Up

\* The engine that somebody relies on goes on (midiCheck, audioThread, main).
LEMMA UpKept ==
    ASSUME TypeOK, CountInv, StatusInv, PlayInv, OpenInv, [Next]_vars, Up, LeaveInv', Wanted',
           NEW g \in Made, Live(g), Begun(g)
    PROVE  ~exited' /\ eng'.atStatus = "OK"
<1>1. /\ eng \in [atStatus : {"EXIT", "WAIT", "OK", "FAIL", "TERM"}, atReq : SUBSET {"START", "STOP"},
                  exitReq : BOOLEAN, terminate : BOOLEAN, audiowait : BOOLEAN,
                  hello : BOOLEAN, go : BOOLEAN, opens : 0 .. Cardinality(Guis)]
      /\ conn \in [Guis -> {"none", "pending", "open", "down"}]
  BY DEF TypeOK
<1>2. /\ ~exited /\ ~eng.terminate /\ ~eng.exitReq /\ eng.atStatus = "OK" /\ "START" \in eng.atReq
      /\ main \in {"loop", "spawning"} /\ midi.pc \notin {"emptying", "dying", "ended"}
  BY DEF Up
<1>3. audio.pc \in {"run", "touch", "unlinked", "awaiting"}
  BY <1>2 DEF StatusInv, Playing, AudioRuns
<1>4. eng'.atStatus # "TERM"
  BY DEF LeaveInv
<1>5. ASSUME NEW h \in Guis, GuiNext(h) \/ AudioPeriod(h) \/ Touch(h)
      PROVE  ~exited' /\ eng'.atStatus = "OK"
  BY <1>2, <1>5 DEF GuiNext, Start, Answered, Resend, Quit, Crash, AudioPeriod, SenseExpires, Unlink, Touch
<1>6. ASSUME NEW h \in Guis, LostConnection(h) PROVE ~exited' /\ eng'.atStatus = "OK"
  <2>1. conn[h] = "open" /\ gui[h] = "gone" /\ eng'.atStatus = "OK" /\ exited' = (eng.opens = 1 /\ ~Server)
    BY <1>1, <1>2, <1>6 DEF LostConnection
  <2>2. g \in Guis /\ conn[g] = "open" /\ g # h
    BY <2>1 DEF OpenInv, Live, Made
  <2>3. {g, h} \subseteq Open
    BY <2>1, <2>2 DEF Open
  <2>4. Cardinality({g, h}) = 2
    <3>1. Cardinality({g}) = 1 /\ IsFiniteSet({g})
      BY FS_Singleton
    <3>2. Cardinality({g} \cup {h}) = Cardinality({g}) + 1
      BY <2>2, <3>1, FS_AddElement
    <3>3. {g} \cup {h} = {g, h}
      OBVIOUS
    <3> QED  BY <3>1, <3>2, <3>3
  <2>5. Cardinality({g, h}) <= Cardinality(Open) /\ Cardinality(Open) \in Nat
    BY <2>3, CountFinite, FS_Subset
  <2>6. Cardinality(Open) <= eng.opens
    BY DEF CountInv, Open
  <2>7. eng.opens \in Int
    BY <1>1
  <2>8. eng.opens # 1
    BY <2>4, <2>5, <2>6, <2>7
  <2> QED  BY <2>1, <2>8
<1>7. ASSUME NEW h \in Guis, Handles(h), ~LostConnection(h) PROVE ~exited' /\ eng'.atStatus = "OK"
  <2>1. exited' = exited
    BY <1>7 DEF Handles, Accept, Hello, Channel, ReqStart, InitAlgo, MidiGo, MidiStop, ExitAlgo
  <2>2. eng'.atStatus = eng.atStatus
    BY <1>1, <1>7 DEF Handles, Accept, Hello, Channel, ReqStart, InitAlgo, MidiGo, MidiStop, ExitAlgo, Resumed
  <2> QED  BY <1>2, <2>1, <2>2
<1>8. ASSUME MidiContinues PROVE ~exited' /\ eng'.atStatus = "OK"
  <2>1. ~(Shutdown \/ Terminate)
    BY <1>2 DEF Shutdown, Terminate
  <2>2. exited' = exited /\ eng'.atStatus = eng.atStatus
    BY <1>1, <1>8, <2>1 DEF MidiContinues, Hook, Started, CheckLast, FreeEmulator, MidiEnds, Resumed
  <2> QED  BY <1>2, <2>2
<1>9. ASSUME MainNext \/ MainGivesUp \/ MainWatches \/ MainBites
      PROVE  ~exited' /\ eng'.atStatus = "OK"
  <2>1. ~(MainSpawns \/ MainLeaves \/ MainJoins \/ MainGivesUp \/ MainWatches \/ MainBites)
    BY <1>2 DEF MainSpawns, SpawnDue, MainLeaves, MainJoins, MainGivesUp, MainWatches, MainBites
  <2> QED  BY <1>2, <1>9, <2>1 DEF MainNext, MainSeesAudio
<1>10. ASSUME JackGivesUp PROVE FALSE
  <2>1. audio.pc = "awaiting" /\ eng.audiowait /\ gui[g] \notin {"start", "init"} /\ g \in Guis
    BY <1>10 DEF JackGivesUp, Made
  <2>2. gui[g] = "running"
    BY <2>1 DEF Begun
  <2>3. AudioWillRun \/ Over
    BY <2>1, <2>2 DEF PlayInv, PastInit
  <2> QED  BY <1>2, <2>1, <2>3 DEF AudioWillRun, AudioRuns, Over
<1>11. ASSUME AudioOpening PROVE ~exited' /\ eng'.atStatus = "OK"
  BY <1>2, <1>3, <1>11 DEF AudioOpening, AudioBegins, AudioOpens, AudioFails, JackActivates
<1>12. ASSUME Forget \/ TouchBack PROVE ~exited' /\ eng'.atStatus = "OK"
  BY <1>1, <1>2, <1>4, <1>12 DEF Forget, TouchBack
<1>13. ASSUME AudioStops PROVE FALSE
  BY <1>2, <1>13 DEF AudioStops
<1>14. ASSUME UNCHANGED vars PROVE ~exited' /\ eng'.atStatus = "OK"
  BY <1>2, <1>14 DEF vars
<1> QED  BY <1>5, <1>6, <1>7, <1>8, <1>9, <1>10, <1>11, <1>12, <1>13, <1>14 DEF Next, Timeouts

\* An emulator that plays goes on playing, until its own exit (bristolSystem,
\* freeBristolAudio).
LEMMA ReadyKept ==
    ASSUME Whole, TypeOK, InboxInv, BusyInv, SidInv, RemoveInv, ListInv, SidsInv, ServedInv, [Next]_vars,
           NEW g \in Made, Live(g), emu[g].life = "ready", "HOLDDOWN" \notin emu[g].flags,
           emu'[g].life \notin Out
    PROVE  emu'[g].life = "ready" /\ "HOLDDOWN" \notin emu'[g].flags
<1> DEFINE Plays == emu'[g].life = "ready" /\ "HOLDDOWN" \notin emu'[g].flags
<1>1. emu \in [Guis -> Emulators] /\ Links /\ g \in Guis
  BY TypeLinks DEF Links, Made
<1>2. gui[g] \in Waiting \cup {"running"}
  BY <1>1 DEF TypeOK, Live
<1>3. ASSUME UNCHANGED list PROVE Plays
  BY <1>3 DEF list
<1>4. ASSUME NEW h \in Guis, GuiNext(h) \/ Accept(h) \/ LostConnection(h) \/ Channel(h) \/ ReqStart(h)
                             \/ MidiGo(h) \/ MidiStop(h) \/ Touch(h)
      PROVE  Plays
  <2>1. UNCHANGED list
    BY <1>4 DEF GuiNext, Start, Answered, Resend, Quit, Crash, Accept, LostConnection, Channel, ReqStart,
       MidiGo, MidiStop, Touch
  <2> QED  BY <1>3, <2>1
<1>5. ASSUME NEW h \in Guis, Hello(h) PROVE Plays
  <2>1. h # g
    BY <1>5, HelloIsNew
  <2> QED  BY <1>1, <1>5, <2>1, HelloIsNew
<1>6. ASSUME NEW h \in Guis, InitAlgo(h) PROVE Plays
  <2> DEFINE b == Find(told[h])
  <2>1. emu' = emu \/ emu' = [emu EXCEPT ![b].flags = @ \ {"HOLDDOWN"}, ![b].life = "ready"]
    BY <1>6 DEF InitAlgo
  <2> HIDE DEF b
  <2> QED  BY <1>1, <2>1 DEF Emulators
<1>7. ASSUME NEW h \in Guis, ExitAlgo(h) PROVE Plays
  <2>1. Reads(h, "exit")
    BY <1>7 DEF ExitAlgo
  <2>2. gui[h] \in Waiting \cup {"off", "running", "gone"}
    BY DEF TypeOK
  <2>3. gui[h] = "gone" /\ inbox[h] = <<"exit">>
    BY <2>1, <2>2, ReadFacts, HandshakeSteps DEF Unchained
  <2>4. told[h] # NoSid
    <3>1. \A r : <<r>> # <<>> /\ (<<r>> = <<"hello">> => r = "hello")
      OBVIOUS
    <3>2. inbox[h] # <<>> /\ inbox[h] # <<"hello">>
      BY <2>3, <3>1, Zenon
    <3> QED  BY <3>2 DEF SidInv
  <2>5. emu[h].life \notin Out
    BY <2>3, <2>4 DEF SidInv, Made, ServedInv, Needed, Leaving
  <2>6. Find(told[h]) = h
    BY <2>4, <2>5, OwnFound
  <2>7. h # g
    BY <1>2, <2>3, HandshakeSteps
  <2>8. emu' = emu \/ emu' = [emu EXCEPT ![h].flags = {"HOLDDOWN", "REMOVE"}]
    BY <1>7, <2>6 DEF ExitAlgo
  <2> QED  BY <1>1, <2>7, <2>8
<1>8. ASSUME Hook PROVE Plays
  <2>1. emu' = emu \/ emu' = [emu EXCEPT ![audiolist].last = midi.emu]
    BY <1>8 DEF Hook
  <2> QED  BY <1>1, <2>1 DEF Emulators
<1>9. ASSUME FreeEmulator PROVE Plays
  <2>1. emu' = [emu EXCEPT ![midi.emu].life = "freed"]
    BY <1>9 DEF FreeEmulator
  <2>2. midi.emu # g
    BY <1>1, <2>1 DEF Emulators, Out
  <2> QED  BY <1>1, <2>1, <2>2
<1>10. ASSUME Started \/ CheckLast \/ Shutdown \/ Terminate \/ MidiEnds PROVE Plays
  BY <1>3, <1>10 DEF Started, CheckLast, Shutdown, Terminate, MidiEnds
<1>11. ASSUME MainNext \/ Timeouts \/ AudioOpening \/ AudioStops PROVE Plays
  <2>1. UNCHANGED list
    BY <1>11 DEF MainNext, Timeouts, MainSpawns, MainSeesAudio, MainLeaves, MainJoins, MainGivesUp,
       MainWatches, MainBites, JackGivesUp, AudioOpening, AudioBegins, AudioOpens, AudioFails,
       JackActivates, AudioStops
  <2> QED  BY <1>3, <2>1
<1>12. ASSUME NEW h \in Guis, SenseExpires(h) PROVE Plays
  <2>1. emu' = [emu EXCEPT ![h].flags = @ \cup {"REMOVE"}]
    BY <1>12 DEF SenseExpires
  <2> QED  BY <1>1, <2>1 DEF Emulators
<1>13. ASSUME NEW h \in Guis, Unlink(h) PROVE Plays
  <2>1. PICK e \in [Guis -> Emulators] :
            /\ e[g].flags = emu[g].flags /\ e[g].life = emu[g].life
            /\ emu' = [e EXCEPT ![h].flags = @ \cup {"HOLDDOWN"}, ![h].life = "removed"]
    <3>1. /\ Bypassed(h) \in [Guis -> Emulators] /\ Bypassed(h)[g].flags = emu[g].flags
          /\ Bypassed(h)[g].life = emu[g].life
      BY <1>1 DEF Bypassed, Emulators
    <3> QED  BY <3>1, <1>13 DEF Unlink
  <2>2. h # g
    BY <2>1, <1>1 DEF Emulators, Out
  <2> QED  BY <2>1, <2>2, <1>1
<1>14. ASSUME Forget \/ TouchBack PROVE Plays
  <2>1. emu' = [emu EXCEPT ![audio.emu].flags = @ \ {"REMOVE"}]
    BY <1>14 DEF Forget, TouchBack, RemoveInv
  <2> QED  BY <1>1, <2>1 DEF Emulators
<1>15. ASSUME UNCHANGED vars PROVE Plays
  BY <1>3, <1>15 DEF vars, list
<1> QED  BY <1>4, <1>5, <1>6, <1>7, <1>8, <1>9, <1>10, <1>11, <1>12, <1>13, <1>14, <1>15
     DEF Next, Handles, MidiContinues, AudioPeriod

\* Whoever steps, the GUIs of the handshake find what they rely on.
LEMMA RunStep ==
    ASSUME Whole, Patient, TypeOK, CountInv, InboxInv, BusyInv, ListInv, SidInv, RemoveInv, StatusInv, PlayInv,
           SidsInv, ServedInv, EndInv, LeaveInv, RunInv, [Next]_vars,
           TypeOK', SidInv', StatusInv', ServedInv', EndInv', LeaveInv'
    PROVE  RunInv'
<1>1. OpenInv
  BY DEF RunInv, OpenInv
<1>2. OpenInv'
  BY <1>1, OpenStep
<1>3. ASSUME NEW g \in Guis, Begun(g)'
      PROVE  g \in Made' /\ Live(g)' /\ Wanted' /\ emu'[g].life \notin Out
  <2>1. gui'[g] \in {"start", "init", "running"}
    BY <1>3 DEF Begun
  <2>2. g \in Made' /\ Live(g)'
    BY <2>1 DEF SidInv, Made, Live
  <2>3. Needed(g)'
    BY <2>2 DEF Needed
  <2> QED  BY <2>2, <2>3 DEF Wanted, ServedInv
<1>4. ASSUME NEW g \in Guis, Begun(g)' PROVE ~exited' /\ eng'.atStatus = "OK"
  <2>1. Wanted'
    BY <1>3, <1>4
  <2>2. CASE Begun(g)
    <3>1. g \in Made /\ Live(g)
      BY <2>2, BegunNeeds
    <3>2. Up
      BY <2>2 DEF RunInv
    <3> QED  BY <1>1, <2>1, <2>2, <3>1, <3>2, UpKept
  <2>3. CASE Started
    BY <2>3 DEF Started, MidiMay
  <2>4. CASE ReqStart(g) /\ ack'[g] # ack[g] /\ gui[g] = "start"
    <3>1. midi.pc = "idle" /\ ~exited /\ ~eng.terminate
      BY <2>4 DEF ReqStart, Reads, Selects, MidiMay
    <3>2. eng' = eng /\ exited' = exited /\ (eng.hello => eng.atStatus # "EXIT")
      BY <2>4 DEF ReqStart
    <3>3. eng.hello
      <4>1. g \in Made
        BY <2>4 DEF SidInv, Made
      <4> QED  BY <4>1 DEF LeaveInv
    <3>4. eng'.atStatus # "TERM"
      BY <2>1 DEF LeaveInv
    <3>5. eng.atStatus \notin {"WAIT", "FAIL"}
      BY <3>1 DEF StatusInv
    <3>6. eng.atStatus \in {"EXIT", "WAIT", "OK", "FAIL", "TERM"}
      BY DEF TypeOK
    <3> QED  BY <3>1, <3>2, <3>3, <3>4, <3>5, <3>6
  <2> QED  BY <1>4, <2>2, <2>3, <2>4, BegunStep
<1>5. ASSUME NEW g \in Guis, Begun(g)' PROVE Up'
  BY <1>3, <1>4, <1>5, UpAgain
<1>6. ASSUME NEW g \in Guis, Done(g)' PROVE emu'[g].life = "ready" /\ "HOLDDOWN" \notin emu'[g].flags
  <2>1. Begun(g)'
    BY <1>6 DEF Done, Begun
  <2>2. CASE Done(g)
    <3>1. g \in Made /\ Live(g)
      BY <2>2, BegunNeeds DEF Done, Begun
    <3>2. emu[g].life = "ready" /\ "HOLDDOWN" \notin emu[g].flags
      BY <2>2 DEF RunInv
    <3> QED  BY <1>3, <2>1, <3>1, <3>2, ReadyKept
  <2>3. CASE InitAlgo(g) /\ gui[g] = "init"
    <3>1. Begun(g)
      BY <2>3 DEF Begun
    <3>2. g \in Made /\ Live(g) /\ Up /\ told[g] # NoSid
      BY <2>3, <3>1, BegunNeeds DEF RunInv, SidInv
    <3>3. eng.atStatus = "OK" /\ eng.hello
      BY <3>2 DEF Up, LeaveInv
    <3>4. emu[g].life \notin Out
      BY <3>2 DEF ServedInv, Needed
    <3>5. Find(told[g]) = g /\ g # Nil
      BY <3>2, <3>4, OwnFound, NilIsNone
    <3>6. emu' = [emu EXCEPT ![g].flags = @ \ {"HOLDDOWN"}, ![g].life = "ready"]
      BY <2>3, <3>3, <3>5 DEF InitAlgo
    <3>7. emu \in [Guis -> Emulators]
      BY TypeLinks DEF Links
    <3> QED  BY <3>6, <3>7 DEF Emulators
  <2> QED  BY <1>6, <2>2, <2>3, BegunStep
<1> QED  BY <1>2, <1>5, <1>6 DEF RunInv, OpenInv

\* Nobody comes, and nothing ends, before the engine starts.
LEMMA CalmInit == Init => CalmIf
<1> SUFFICES ASSUME Init PROVE CalmInv
  BY DEF CalmIf
<1>1. \A g \in Guis : emu[g].life = "none" /\ gui[g] = "off" /\ inbox[g] = <<>>
  BY DEF Init
<1>2. /\ midi.pc = "idle" /\ audio.pc = "none" /\ main = "loop" /\ ~exited
      /\ eng.atStatus = "EXIT" /\ eng.atReq = {} /\ ~eng.terminate /\ ~eng.exitReq
  BY DEF Init
<1>3. Made = {} /\ Listed = {}
  BY <1>1 DEF Made, Listed
<1>4. EndInv
  BY <1>2 DEF EndInv
<1>5. LeaveInv
  BY <1>1, <1>2, <1>3 DEF LeaveInv, Wanted, Holding
<1>6. RunInv
  BY <1>1, <1>3 DEF RunInv, Begun, Done
<1> QED  BY <1>4, <1>5, <1>6 DEF CalmInv

\* Whoever steps, nobody is left without the engine it needs.
LEMMA CalmStep == TurnInv /\ WholeIf /\ OwnIf /\ CalmIf /\ [Next]_vars => CalmIf'
<1> SUFFICES ASSUME TurnInv, WholeIf, OwnIf, CalmIf, [Next]_vars, Calm' PROVE CalmInv'
  BY DEF CalmIf
<1>1. setup' = setup
  BY SetupKept
<1>2. Whole /\ NobodyDies /\ Few /\ Whole' /\ Few'
  BY <1>1 DEF Calm, Whole, Windows, NobodyDies, Crashes, Few
<1>3. Patient /\ TypeOK /\ CountInv /\ InboxInv /\ BusyInv /\ HelloInv
  BY DEF TurnInv
<1>4. ListInv /\ SidInv /\ RemoveInv /\ StatusInv /\ PlayInv
  BY <1>2 DEF WholeIf, WholeInv
<1>5. SidsInv /\ ServedInv
  BY <1>2 DEF OwnIf, OwnInv
<1>6. EndInv /\ LeaveInv /\ RunInv
  BY <1>2 DEF CalmIf, CalmInv, Calm
<1>7. TypeOK'
  BY TurnStep DEF TurnInv
<1>8. SidInv' /\ StatusInv'
  BY <1>2, WholeStep DEF WholeIf, WholeInv
<1>9. ServedInv'
  BY <1>2, OwnStep DEF OwnIf, OwnInv
<1>10. EndInv'
  BY <1>3, <1>4, <1>6, EndStep
<1>11. LeaveInv'
  BY <1>2, <1>3, <1>4, <1>5, <1>6, LeaveStep
<1>12. RunInv'
  BY <1>2, <1>3, <1>4, <1>5, <1>6, <1>7, <1>8, <1>9, <1>10, <1>11, RunStep
<1> QED  BY <1>10, <1>11, <1>12 DEF CalmInv

LEMMA CalmAlways == Spec => [](Patient => TurnInv /\ WholeIf /\ OwnIf /\ CalmIf)
<1>1. Init /\ Patient => TurnInv /\ WholeIf /\ OwnIf /\ CalmIf
  BY TurnInit, WholeInit, OwnInit, CalmInit
<1>2. (Patient => TurnInv /\ WholeIf /\ OwnIf /\ CalmIf) /\ [Next]_vars
          => (Patient => TurnInv /\ WholeIf /\ OwnIf /\ CalmIf)'
  <2> SUFFICES ASSUME Patient => TurnInv /\ WholeIf /\ OwnIf /\ CalmIf, [Next]_vars, Patient'
               PROVE  TurnInv' /\ WholeIf' /\ OwnIf' /\ CalmIf'
    OBVIOUS
  <2>1. Patient
    BY SetupKept DEF Patient
  <2> QED  BY <2>1, TurnStep, WholeStep, OwnStep, CalmStep
<1> QED  BY <1>1, <1>2, PTL DEF Spec

\* A GUI that has gone through the handshake has an emulator that plays, and an
\* engine to play it, whoever starts and leaves meanwhile (bristolSystem), for up
\* to three GUIs of which none dies, nor waits five seconds for an answer: as long as
\* one thread at a time is in the list and at the flags.
THEOREM RunningGuisServed == Spec => [](Patient /\ Whole => RunningIsServed)
<1>1. TurnInv /\ WholeIf /\ OwnIf /\ CalmIf => (Whole => RunningIsServed)
  <2> SUFFICES ASSUME TurnInv, WholeInv, Few, SidsInv, ServedInv, RunInv,
                      NEW g \in Guis, gui[g] = "running"
               PROVE  /\ ~exited
                      /\ emu[g].life = "ready" /\ emu[g].flags \cap {"HOLDDOWN", "REMOVE"} = {}
    BY DEF WholeIf, OwnIf, OwnInv, CalmIf, CalmInv, Calm, RunningIsServed, Few
  <2>1. Begun(g) /\ Done(g)
    BY DEF Begun, Done
  <2>2. g \in Made /\ Needed(g)
    BY <2>1, BegunNeeds DEF WholeInv
  <2>3. ~exited /\ emu[g].life = "ready" /\ "HOLDDOWN" \notin emu[g].flags
    BY <2>1 DEF RunInv, Up
  <2>4. "REMOVE" \notin emu[g].flags
    BY <2>2 DEF ServedInv
  <2> QED  BY <2>3, <2>4
<1> QED  BY <1>1, CalmAlways, PTL
=============================================================================
