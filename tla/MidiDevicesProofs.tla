------------------------- MODULE MidiDevicesProofs -------------------------
(***************************************************************************)
(* Proofs about MidiDevices, for tables of every size and any number of    *)
(* connections: what a handle and its device have to do with each other,   *)
(* who is served through them, and when the process may end.               *)
(***************************************************************************)
EXTENDS MidiDevices, FiniteSetTheorems, WellFoundedInduction, TLAPS

----------------------------------------------------------------------------
(***************************************************************************)
(* The first free entry of a table.                                        *)
(***************************************************************************)

\* A set of table entries has a first one (bristolMidiFindDev and
\* bristolMidiFindFreeHandle count up).
LEMMA MinProperties ==
    ASSUME NEW S \in SUBSET Nat, S # {}
    PROVE  Min(S) \in S /\ \A n \in S : Min(S) <= n
<1> DEFINE T == {0 .. n : n \in S}
<1>1. T \subseteq FiniteSubsetsOf(Nat) /\ T # {}
  <2>1. \A n \in S : IsFiniteSet(0 .. n) /\ 0 .. n \subseteq Nat
    BY FS_Interval
  <2> QED  BY <2>1 DEF FiniteSubsetsOf
<1>2. \E x \in T : \A y \in T : ~(<<y, x>> \in StrictSubsetOrdering(Nat))
  <2> HIDE DEF T
  <2> QED  BY <1>1, WFMin, FS_StrictSubsetOrderingWellFounded
<1>3. PICK m \in S : \A n \in S : ~(<<0 .. n, 0 .. m>> \in StrictSubsetOrdering(Nat))
  BY <1>2
<1>4. \A n \in S : m <= n
  <2> SUFFICES ASSUME NEW n \in S, n < m PROVE FALSE
    OBVIOUS
  <2>1. 0 .. n \subseteq 0 .. m /\ 0 .. n # 0 .. m
    OBVIOUS
  <2>2. <<0 .. n, 0 .. m>> \in StrictSubsetOrdering(Nat)
    BY <2>1 DEF StrictSubsetOrdering
  <2> QED  BY <1>3, <2>2
<1> QED  BY <1>4 DEF Min

\* The first free entry of either table is free (bristolMidiFindDev,
\* bristolMidiFindFreeHandle).
LEMMA FirstFree ==
    /\ FreeDevs # {} => FindDev \in FreeDevs
    /\ FreeHandles # {} => FindFreeHandle \in FreeHandles
BY MinProperties, TablesAssumption DEF FreeDevs, FreeHandles, FindDev, FindFreeHandle, Devs, Handles

\* A request goes to one of the handles that are considered for its device.
LEMMA SysexToProperties ==
    ASSUME NEW d, NEW h \in SysexTo(d)
    PROVE  /\ h \in Considered /\ Registered(h, "sysex") /\ handle[h].dev = d
           /\ SysexTo(d) = {h}
<1> DEFINE handles == {x \in Considered : Registered(x, "sysex") /\ handle[x].dev = d}
<1>1. handles # {} /\ SysexTo(d) = {Min(handles)}
  BY DEF SysexTo
<1>2. handles \in SUBSET Nat
  BY TablesAssumption DEF Considered, Handles
<1> HIDE DEF handles
<1>3. Min(handles) \in handles /\ h = Min(handles)
  BY <1>1, <1>2, MinProperties
<1> QED  BY <1>1, <1>3 DEF handles

\* What serves a GUI is a registered handle on a device of that GUI.
LEMMA ServingProperties ==
    ASSUME NEW g, NEW h \in Serving(g)
    PROVE  /\ h \in Considered /\ Registered(h, "sysex")
           /\ handle[h].dev \in DevsOf(g)
<1>1. PICK d \in DevsOf(g) : h \in SysexTo(d)
  BY DEF Serving
<1> QED  BY <1>1, SysexToProperties

----------------------------------------------------------------------------
(***************************************************************************)
(* Types.                                                                  *)
(***************************************************************************)

\* The engine starts with its listening device, or with the Jack device too.
LEMMA TypeInit == Init => TypeOK
<1> SUFFICES ASSUME Init PROVE TypeOK
  OBVIOUS
<1>1. 0 \in Devs /\ 0 \in Handles /\ NumDevs \in Nat
  BY TablesAssumption DEF Devs, Handles
<1>2. dev \in [Devs -> [ok : BOOLEAN, open : BOOLEAN, flags : SUBSET DevFlags,
                         peer : Guis \cup {Nil, Keyboard, Listener}]]
  BY DEF Init, FreedDevice, DevFlags
<1>3. handle \in [Handles -> [ok : BOOLEAN, dev : Devs \cup {NoDev}, mask : Masks]]
  <2>1. ControlMask \in Masks /\ "notes" \in Masks /\ "none" \in Masks
    BY DEF ControlMask, Masks
  <2>2. \A h \in Handles : h \in Devs
    BY DEF Handles, Devs
  <2> QED  BY <1>1, <2>1, <2>2 DEF Init, FreedHandle
<1>4. /\ opens \in Int /\ gui \in [Guis -> {"off", "pending", "open", "lost", "refused", "left", "dead"}]
      /\ emus \subseteq Guis
  BY DEF Init
<1>6. bound \in BOOLEAN /\ exited \in BOOLEAN
  BY Zenon DEF Init
<1>5. jack \in [pc : {"idle", "handle", "dev", "done", "failed"}, handle : Handles, dev : Devs]
  BY <1>1 DEF Init
<1> QED
  BY <1>2, <1>3, <1>4, <1>5, <1>6 DEF TypeOK

\* Every handler keeps the types of both tables.
LEMMA TypeStep == TypeOK /\ [Next]_vars => TypeOK'
<1> SUFFICES ASSUME TypeOK, [Next]_vars PROVE TypeOK'
  OBVIOUS
<1> DEFINE Dev == [ok : BOOLEAN, open : BOOLEAN, flags : SUBSET DevFlags,
                   peer : Guis \cup {Nil, Keyboard, Listener}]
           Han == [ok : BOOLEAN, dev : Devs \cup {NoDev}, mask : Masks]
<1>t. /\ dev \in [Devs -> Dev] /\ handle \in [Handles -> Han] /\ opens \in Int
      /\ Devs = 0 .. NumDevs - 1 /\ Handles = Devs /\ NumDevs \in Nat \ {0, 1}
      /\ FreedDevice \in Dev /\ FreedHandle \in Han /\ 0 \in Handles
  BY TablesAssumption DEF TypeOK, Devs, Handles, FreedDevice, FreedHandle, NoDev, Masks, DevFlags
<1>1. ASSUME NEW g \in Guis, Connect(g) PROVE TypeOK'
  BY <1>1 DEF Connect, TypeOK
<1>2. ASSUME NEW g \in Guis, Crash(g) PROVE TypeOK'
  BY <1>2 DEF Crash, TypeOK
<1>3. ASSUME NEW g \in Guis, acceptConnection(g) PROVE TypeOK'
  <2>1. CASE FreeDevs = {}
    BY <1>3, <2>1 DEF acceptConnection, TypeOK
  <2>2. CASE FreeDevs # {}
    <3>1. FindDev \in Devs
      BY <2>2, FirstFree DEF FreeDevs
    <3>2. dev' = [dev EXCEPT ![FindDev] = [ok |-> TRUE, open |-> TRUE, flags |-> {"TCP"}, peer |-> g]]
      BY <1>3, <2>2 DEF acceptConnection
    <3>3. dev' \in [Devs -> Dev]
      BY <1>t, <3>1, <3>2 DEF DevFlags
    <3>4. handle' \in [Handles -> Han] /\ opens' \in Int
      <4>1. CASE FreeHandles = {}
        BY <1>3, <2>2, <4>1, <1>t DEF acceptConnection
      <4>2. CASE FreeHandles # {}
        <5>1. FindFreeHandle \in Handles
          BY <4>2, FirstFree DEF FreeHandles
        <5>2. handle' = [handle EXCEPT ![FindFreeHandle] =
                           [ok |-> TRUE, dev |-> FindDev, mask |-> handle[0].mask]]
          BY <1>3, <2>2, <4>2 DEF acceptConnection
        <5>3. opens' = opens + 1
          BY <1>3, <2>2, <4>2 DEF acceptConnection, Counted
        <5> QED  BY <1>t, <3>1, <5>1, <5>2, <5>3
      <4> QED  BY <4>1, <4>2
    <3> QED  BY <1>3, <2>2, <3>3, <3>4 DEF acceptConnection, TypeOK
  <2> QED  BY <2>1, <2>2
<1>4. ASSUME NEW g \in Guis, Hello(g) PROVE TypeOK'
  BY <1>4 DEF Hello, TypeOK
<1>5. ASSUME NEW g \in Guis, ReqForward(g) PROVE TypeOK'
  <2>1. PICK h \in Serving(g), value \in {{}, {"FORWARD"}} :
           dev' = [dev EXCEPT ![handle[h].dev].flags = (@ \ {"FORWARD"}) \cup value]
    BY <1>5 DEF ReqForward
  <2>2. handle[h].dev \in Devs
    BY ServingProperties DEF DevsOf
  <2>3. dev' \in [Devs -> Dev]
    BY <1>t, <2>1, <2>2 DEF DevFlags
  <2> QED  BY <1>5, <2>3 DEF ReqForward, TypeOK
<1>6. ASSUME NEW g \in Guis, ExitAlgo(g) PROVE TypeOK'
  <2>1. PICK h \in Serving(g) :
          \/ UNCHANGED <<dev, handle, bound>> /\ exited' = TRUE
          \/ /\ dev' = [dev EXCEPT ![handle[h].dev] = FreedDevice]
             /\ handle' = [handle EXCEPT ![h] = FreedHandle]
             /\ bound' = (bound /\ ~Unix) /\ exited' = FALSE
    BY <1>6 DEF ExitAlgo, Closed
  <2>2. dev' \in [Devs -> Dev] /\ handle' \in [Handles -> Han]
    <3> HIDE DEF Dev, Han
    <3> QED  BY <1>t, <2>1
  <2>3. bound' \in BOOLEAN /\ exited' \in BOOLEAN
    BY <2>1, Zenon DEF TypeOK
  <2> QED  BY <1>6, <2>2, <2>3 DEF ExitAlgo, TypeOK
<1>7. ASSUME NEW d \in Devs, Loses(d)
      PROVE  dev' \in [Devs -> Dev] /\ opens' \in Int /\ exited' \in BOOLEAN
  <2>1. dev' \in [Devs -> Dev] /\ opens' \in Int
    <3>1. dev[d] \in Dev /\ Nil \in Guis \cup {Nil, Keyboard, Listener}
      BY <1>t
    <3>2. dev' = [dev EXCEPT ![d] = [dev[d] EXCEPT !.ok = FALSE, !.open = FALSE, !.peer = Nil]]
      BY <1>t, <1>7 DEF Loses
    <3>3. [dev[d] EXCEPT !.ok = FALSE, !.open = FALSE, !.peer = Nil] \in Dev
      BY <3>1
    <3> QED  BY <1>t, <1>7, <3>2, <3>3 DEF Loses
  <2>2. exited' \in BOOLEAN
    BY <1>7, Zenon DEF Loses
  <2> QED  BY <2>1, <2>2
<1>8. ASSUME NEW g \in Guis, LostConnection(g) PROVE TypeOK'
  <2>1. dev' \in [Devs -> Dev] /\ opens' \in Int /\ exited' \in BOOLEAN
    BY <1>7, <1>8 DEF LostConnection, DevsOf
  <2> QED  BY <1>8, <2>1 DEF LostConnection, TypeOK
<1>9. CASE Unplugged
  <2>1. dev' \in [Devs -> Dev] /\ opens' \in Int /\ exited' \in BOOLEAN
    BY <1>t, <1>7, <1>9 DEF Unplugged
  <2> QED  BY <1>9, <2>1 DEF Unplugged, TypeOK
<1>10. ASSUME NEW g \in Guis, Sensed(g) PROVE TypeOK'
  BY <1>10 DEF Sensed, TypeOK
<1>11. CASE JackFindsHandle
  <2>1. FreeHandles # {} => FindFreeHandle \in Handles
    BY FirstFree DEF FreeHandles
  <2> QED  BY <1>11, <2>1 DEF JackFindsHandle, TypeOK
<1>12. CASE JackFindsDev
  <2>1. FreeDevs # {} => FindDev \in Devs
    BY FirstFree DEF FreeDevs
  <2>2. handle' \in [Handles -> Han]
    BY <1>t, <1>12 DEF JackFindsDev, Masks
  <2> QED  BY <1>12, <2>1, <2>2 DEF JackFindsDev, TypeOK
<1>13. CASE JackOpens
  <2>0. jack.handle \in Handles /\ jack.dev \in Devs
    BY DEF TypeOK
  <2>1. dev' \in [Devs -> Dev]
    BY <1>t, <1>13, <2>0 DEF JackOpens, DevFlags
  <2>2. handle' \in [Handles -> Han]
    BY <1>t, <1>13, <2>0 DEF JackOpens, Masks
  <2> QED  BY <1>13, <2>1, <2>2 DEF JackOpens, TypeOK
<1>14. CASE UNCHANGED vars
  BY <1>14 DEF vars, TypeOK
<1> QED
  BY <1>1, <1>2, <1>3, <1>4, <1>5, <1>6, <1>8, <1>9, <1>10, <1>11, <1>12, <1>13, <1>14
  DEF Next, MidiThread, JackThread, OfGui

\* Every entry of both tables, and every local of the thread that opens the
\* Jack device, keeps its type (bmidi.dev, bmidi.handle).
THEOREM DeviceTypes == Spec => []TypeOK
<1>1. Init => TypeOK  BY TypeInit
<1>2. TypeOK /\ [Next]_vars => TypeOK'  BY TypeStep
<1> QED  BY <1>1, <1>2, PTL DEF Spec

----------------------------------------------------------------------------
(***************************************************************************)
(* Both tables together: the entries of a connection have the same index.  *)
(***************************************************************************)

\* The entries of the control socket are never free, given to anyone else or
\* closed, by whichever thread opens a device (bristolMidiOpen, bristolMidiClose).
LEMMA FirstEntriesStep == TypeOK /\ FirstEntries /\ [Next]_vars => FirstEntries'
<1> SUFFICES ASSUME TypeOK, FirstEntries, [Next]_vars PROVE FirstEntries'
  OBVIOUS
<1>t. /\ 0 \in Devs /\ 0 \in Handles /\ 1 \in Devs /\ NoDev # 0
      /\ DOMAIN dev = Devs /\ DOMAIN handle = Handles /\ DOMAIN jack = {"pc", "handle", "dev"}
      /\ Listener \notin Guis /\ Listener # Keyboard
  BY TablesAssumption, NamesAssumption DEF TypeOK, Devs, Handles, NoDev, Listener, Keyboard
<1>f. /\ 0 \notin FreeDevs /\ 0 \notin FreeHandles
      /\ \A g \in Guis : 0 \notin DevsOf(g)
  BY <1>t DEF FirstEntries, FreeDevs, FreeHandles, DevsOf
<1>s. setup' = setup /\ Link' = Link /\ ControlMask' = ControlMask
  BY DEF Next, MidiThread, JackThread, OfGui, Connect, Crash, Sensed, acceptConnection, Hello,
         ReqForward, ExitAlgo, LostConnection, Unplugged, JackFindsHandle, JackFindsDev,
         JackOpens, vars, Link, ControlMask
<1>c. ASSUME UNCHANGED jack, handle'[0] = handle[0], dev'[0] = dev[0] PROVE FirstEntries'
  BY <1>s, <1>c DEF FirstEntries
<1>1. ASSUME NEW g \in Guis, Connect(g) \/ Crash(g) \/ Hello(g) \/ Sensed(g) PROVE FirstEntries'
  BY <1>1, <1>c DEF Connect, Crash, Hello, Sensed
<1>2. ASSUME NEW g \in Guis, acceptConnection(g) PROVE FirstEntries'
  <2>1. /\ FreeDevs # {} => FindDev # 0
        /\ FreeHandles # {} => FindFreeHandle # 0
    BY <1>f, FirstFree
  <2> QED  BY <1>2, <1>c, <1>t, <2>1 DEF acceptConnection
<1>3. ASSUME NEW g \in Guis, ReqForward(g) PROVE FirstEntries'
  <2>1. PICK h \in Serving(g), value \in {{}, {"FORWARD"}} :
           dev' = [dev EXCEPT ![handle[h].dev].flags = (@ \ {"FORWARD"}) \cup value]
    BY <1>3 DEF ReqForward
  <2>2. handle[h].dev # 0
    BY <1>f, ServingProperties
  <2>3. dev'[0] = dev[0]
    BY <1>t, <2>1, <2>2
  <2> QED  BY <1>3, <1>c, <2>3 DEF ReqForward
<1>4. ASSUME NEW g \in Guis, ExitAlgo(g) PROVE FirstEntries'
  <2>1. PICK h \in Serving(g) :
          \/ UNCHANGED <<dev, handle>>
          \/ /\ dev' = [dev EXCEPT ![handle[h].dev] = FreedDevice]
             /\ handle' = [handle EXCEPT ![h] = FreedHandle]
    BY <1>4 DEF ExitAlgo, Closed
  <2>2. handle[h].dev # 0 /\ h # 0
    BY <1>f, ServingProperties DEF FirstEntries
  <2>3. dev'[0] = dev[0] /\ handle'[0] = handle[0]
    BY <1>t, <2>1, <2>2
  <2> QED  BY <1>4, <1>c, <2>3 DEF ExitAlgo
<1>5. ASSUME NEW g \in Guis, LostConnection(g) PROVE FirstEntries'
  BY <1>5, <1>c, <1>t, <1>f DEF LostConnection, Loses
<1>6. CASE Unplugged
  BY <1>6, <1>c, <1>t DEF Unplugged, Loses
<1>7. CASE JackFindsHandle
  <2>1. FreeHandles # {} => FindFreeHandle # 0
    BY <1>f, FirstFree
  <2> QED  BY <1>7, <1>s, <1>t, <2>1 DEF JackFindsHandle, FirstEntries
<1>8. CASE JackFindsDev
  <2>1. FreeDevs # {} => FindDev # 0
    BY <1>f, FirstFree
  <2> QED  BY <1>8, <1>s, <1>t, <2>1 DEF JackFindsDev, FirstEntries
<1>9. CASE JackOpens
  BY <1>9, <1>s, <1>t DEF JackOpens, FirstEntries
<1>10. CASE UNCHANGED vars
  BY <1>10, <1>c DEF vars
<1> QED
  BY <1>1, <1>2, <1>3, <1>4, <1>5, <1>6, <1>7, <1>8, <1>9, <1>10
  DEF Next, MidiThread, JackThread, OfGui

\* The first entries agree with each other.
LEMMA TablesInit == Init => TablesInv
<1> SUFFICES ASSUME Init PROVE TablesInv
  OBVIOUS
<1>1. TypeOK
  BY TypeInit
<1>2. 0 \in Devs /\ 1 \in Devs /\ Handles = Devs /\ Devs \subseteq Nat
  BY TablesAssumption DEF Devs, Handles
<1>3. FirstEntries
  BY <1>2 DEF Init, FirstEntries
<1>4. HandlesMatch
  BY <1>2 DEF Init, HandlesMatch, FreedDevice, FreedHandle
<1>5. OpensInBoth
  BY DEF Init, OpensInBoth
<1>6. PeersKnown
  <2>1. \A g \in Guis : DevsOf(g) = {}
    BY NamesAssumption DEF Init, DevsOf, FreedDevice
  <2> QED  BY <2>1 DEF Init, PeersKnown
<1> QED  BY <1>1, <1>3, <1>4, <1>5, <1>6 DEF TablesInv

\* A setup does not change, so what may go wrong does not either.
LEMMA SetupKept ==
    [Next]_vars => /\ setup' = setup /\ Link' = Link /\ ControlMask' = ControlMask
                   /\ Crashes' = Crashes /\ (Alone' <=> Alone)
BY DEF Next, MidiThread, JackThread, OfGui, Connect, Crash, Sensed, acceptConnection, Hello,
       ReqForward, ExitAlgo, LostConnection, Unplugged, JackFindsHandle, JackFindsDev,
       JackOpens, vars, Link, ControlMask, Crashes, Alone, NothingLost, Window

\* With one thread at a time and nothing lost, both tables are used alike: a
\* connection, a close and the opening of the Jack device take and give back
\* the same index in both.
LEMMA MatchStep ==
    TablesInv /\ [Next]_vars => HandlesMatch' /\ OpensInBoth'
<1> SUFFICES ASSUME TablesInv, [Next]_vars, Alone PROVE HandlesMatch' /\ OpensInBoth'
  BY SetupKept DEF HandlesMatch, OpensInBoth
<1> USE DEF TablesInv
<1> DEFINE Match(h) == /\ handle[h].ok = dev[h].ok
                       /\ handle[h].dev = IF handle[h].ok THEN h ELSE NoDev
<1>t. /\ Handles = Devs /\ 0 \in Handles /\ NoDev \notin Devs
      /\ dev \in [Devs -> [ok : BOOLEAN, open : BOOLEAN, flags : SUBSET DevFlags,
                           peer : Guis \cup {Nil, Keyboard, Listener}]]
      /\ handle \in [Handles -> [ok : BOOLEAN, dev : Devs \cup {NoDev}, mask : Masks]]
      /\ jack \in [pc : {"idle", "handle", "dev", "done", "failed"}, handle : Handles, dev : Devs]
  BY TablesAssumption DEF TypeOK, Devs, Handles, NoDev
<1>s. ~Window /\ ~Crashes /\ Link # "raw" /\ Alone'
  BY SetupKept DEF Alone, NothingLost
<1>m. \A h \in Handles : (jack.pc = "dev" /\ h = jack.handle) \/ Match(h)
  BY DEF HandlesMatch
<1>o. jack.pc # "dev" => (\A h \in Handles : Match(h)) /\ FreeDevs = FreeHandles
                         /\ FindDev = FindFreeHandle
  BY <1>m, <1>t DEF FreeDevs, FreeHandles, FindDev, FindFreeHandle
<1>w. MidiThread => jack.pc \notin {"handle", "dev"}
  BY <1>s DEF MidiThread
<1> HIDE DEF Match
<1>c. ASSUME UNCHANGED <<dev, handle, jack>> PROVE HandlesMatch' /\ OpensInBoth'
  BY <1>c, SetupKept DEF HandlesMatch, OpensInBoth, FreeHandles, FindFreeHandle
<1>d. ASSUME \A h \in Handles : Match(h)', UNCHANGED jack, jack.pc \notin {"handle", "dev"}
      PROVE  HandlesMatch' /\ OpensInBoth'
  BY <1>d DEF HandlesMatch, OpensInBoth, Match
<1>1. ASSUME NEW g \in Guis, Connect(g) \/ Crash(g) \/ Hello(g) \/ Sensed(g)
      PROVE  HandlesMatch' /\ OpensInBoth'
  BY <1>1, <1>c DEF Connect, Crash, Hello, Sensed
<1>2. ASSUME NEW g \in Guis, acceptConnection(g), MidiThread PROVE HandlesMatch' /\ OpensInBoth'
  <2>1. CASE FreeDevs = {}
    BY <1>2, <1>c, <2>1 DEF acceptConnection
  <2>2. CASE FreeDevs # {}
    <3>1. PICK d \in Handles : d = FindDev /\ d = FindFreeHandle
      BY <1>o, <1>w, <1>2, <2>2, FirstFree DEF FreeHandles
    <3>2. dev' = [dev EXCEPT ![d] = [ok |-> TRUE, open |-> TRUE, flags |-> {"TCP"}, peer |-> g]]
      BY <1>2, <2>2, <3>1 DEF acceptConnection
    <3>3. handle' = [handle EXCEPT ![d] = [ok |-> TRUE, dev |-> d, mask |-> handle[0].mask]]
      BY <1>2, <1>o, <1>w, <2>2, <3>1 DEF acceptConnection
    <3>4. \A h \in Handles : Match(h)'
      BY <1>2, <1>w, <1>o, <1>t, <3>2, <3>3 DEF Match
    <3> QED  BY <1>2, <1>d, <1>w, <3>4 DEF acceptConnection
  <2> QED  BY <2>1, <2>2
<1>3. ASSUME NEW g \in Guis, ReqForward(g), MidiThread PROVE HandlesMatch' /\ OpensInBoth'
  <2>1. PICK h \in Serving(g), value \in {{}, {"FORWARD"}} :
           dev' = [dev EXCEPT ![handle[h].dev].flags = (@ \ {"FORWARD"}) \cup value]
    BY <1>3 DEF ReqForward
  <2>2. \A d \in Devs : dev'[d].ok = dev[d].ok
    BY <1>t, <2>1
  <2>3. \A x \in Handles : Match(x)'
    BY <1>3, <1>o, <1>w, <1>t, <2>2 DEF ReqForward, Match
  <2> QED  BY <1>3, <1>d, <1>w, <2>3 DEF ReqForward
<1>4. ASSUME NEW g \in Guis, ExitAlgo(g), MidiThread PROVE HandlesMatch' /\ OpensInBoth'
  <2>1. PICK h \in Serving(g) :
          \/ UNCHANGED <<dev, handle>>
          \/ /\ dev' = [dev EXCEPT ![handle[h].dev] = FreedDevice]
             /\ handle' = [handle EXCEPT ![h] = FreedHandle]
    BY <1>4 DEF ExitAlgo, Closed
  <2>2. h \in Handles /\ handle[h].dev = h
    <3>1. h \in Considered
      BY ServingProperties
    <3> QED  BY <1>4, <1>o, <1>w, <3>1 DEF Considered, Match
  <2>3. \A x \in Handles : Match(x)'
    <3>1. \A x \in Handles : Match(x)
      BY <1>4, <1>o, <1>w
    <3>2. CASE UNCHANGED <<dev, handle>>
      BY <3>1, <3>2 DEF Match
    <3>3. ASSUME dev' = [dev EXCEPT ![h] = FreedDevice], handle' = [handle EXCEPT ![h] = FreedHandle],
                 NEW x \in Handles
          PROVE  Match(x)'
      <4>1. CASE x = h
        BY <1>t, <3>3, <4>1 DEF Match, FreedDevice, FreedHandle
      <4>2. CASE x # h
        BY <1>t, <3>1, <3>3, <4>2 DEF Match
      <4> QED  BY <4>1, <4>2
    <3> QED  BY <2>1, <2>2, <3>2, <3>3
  <2> QED  BY <1>4, <1>d, <1>w, <2>3 DEF ExitAlgo
<1>5. ASSUME NEW g \in Guis, LostConnection(g) PROVE FALSE
  BY <1>5, <1>s DEF LostConnection, PeersKnown
<1>6. CASE Unplugged
  BY <1>6, <1>s DEF Unplugged
<1>7. CASE JackFindsHandle
  BY <1>7, <1>o, <1>t, FirstFree
  DEF JackFindsHandle, HandlesMatch, OpensInBoth, Match, FreeHandles, FindFreeHandle
<1>8. CASE JackFindsDev
  <2>1. jack.handle \in FreeHandles /\ jack.handle = FindDev /\ FreeDevs # {}
    BY <1>8, <1>o DEF JackFindsDev, OpensInBoth
  <2>2. jack' = [jack EXCEPT !.pc = "dev", !.dev = jack.handle] /\ UNCHANGED dev
    BY <1>8, <2>1 DEF JackFindsDev
  <2>3. handle' = [handle EXCEPT ![jack.handle] = [ok |-> TRUE, dev |-> NoDev, mask |-> "none"]]
    BY <1>8 DEF JackFindsDev
  <2>4. ~dev[jack.handle].ok
    BY <2>1, <1>8, <1>o DEF JackFindsDev, FreeDevs
  <2>5. OpensInBoth'
    BY <1>t, <2>1, <2>2, <2>3, <2>4 DEF OpensInBoth, FreeHandles
  <2>6. \A h \in Handles \ {jack.handle} : Match(h)'
    BY <1>8, <1>o, <1>t, <2>2, <2>3 DEF JackFindsDev, Match
  <2> QED  BY <1>t, <2>2, <2>5, <2>6 DEF HandlesMatch, Match
<1>9. CASE JackOpens
  <2>1. PICK d \in Handles : d = jack.handle /\ d = jack.dev /\ handle[d].ok
    BY <1>9, <1>t DEF JackOpens, OpensInBoth
  <2>2. dev' = [dev EXCEPT ![d] = [ok |-> TRUE, open |-> FALSE, flags |-> {"JACK"}, peer |-> Keyboard]]
    BY <1>9, <2>1 DEF JackOpens
  <2>3. /\ handle' = [handle EXCEPT ![d].dev = d, ![d].mask = "notes"]
        /\ jack'.pc = "done"
    BY <1>9, <1>t, <2>1 DEF JackOpens
  <2>4. /\ \A h \in Handles \ {d} : handle'[h] = handle[h] /\ dev'[h] = dev[h]
        /\ handle'[d].ok = handle[d].ok /\ handle'[d].dev = d /\ dev'[d].ok
    BY <1>t, <2>2, <2>3
  <2>5. ASSUME NEW h \in Handles PROVE Match(h)'
    <3>1. CASE h = d
      BY <2>1, <2>4, <3>1 DEF Match
    <3>2. CASE h # d
      <4>1. Match(h)
        BY <1>m, <2>1, <3>2
      <4> QED  BY <2>4, <3>2, <4>1 DEF Match
    <3> QED  BY <3>1, <3>2
  <2> QED  BY <2>3, <2>5 DEF HandlesMatch, OpensInBoth, Match
<1>10. CASE UNCHANGED vars
  BY <1>10, <1>c DEF vars
<1> QED
  BY <1>1, <1>2, <1>3, <1>4, <1>5, <1>6, <1>7, <1>8, <1>9, <1>10
  DEF Next, MidiThread, JackThread, OfGui

\* Every GUI that is connected has one open device of its own, and a handle
\* of the same index that wants its requests.
LEMMA PeersStep == TablesInv /\ [Next]_vars => PeersKnown'
<1> SUFFICES ASSUME TablesInv, [Next]_vars PROVE PeersKnown'
  OBVIOUS
<1> USE DEF TablesInv
<1>t. /\ Handles = Devs /\ 0 \in Handles /\ NoDev \notin Devs
      /\ dev \in [Devs -> [ok : BOOLEAN, open : BOOLEAN, flags : SUBSET DevFlags,
                           peer : Guis \cup {Nil, Keyboard, Listener}]]
      /\ handle \in [Handles -> [ok : BOOLEAN, dev : Devs \cup {NoDev}, mask : Masks]]
      /\ gui \in [Guis -> {"off", "pending", "open", "lost", "refused", "left", "dead"}]
      /\ jack \in [pc : {"idle", "handle", "dev", "done", "failed"}, handle : Handles, dev : Devs]
      /\ Nil \notin Guis /\ Keyboard \notin Guis
  BY TablesAssumption, NamesAssumption DEF TypeOK, Devs, Handles, NoDev
<1>s. Alone => ~Window /\ ~Crashes /\ Link # "raw"
  BY DEF Alone, NothingLost
<1>m. Alone /\ jack.pc # "dev" => \A d \in Devs : /\ handle[d].ok = dev[d].ok
                                                  /\ handle[d].ok => handle[d].dev = d
  BY <1>t DEF HandlesMatch
<1>w. Alone /\ MidiThread => jack.pc \notin {"handle", "dev"}
  BY DEF MidiThread, Alone
<1> DEFINE Own(g, d) == /\ DevsOf(g) = {d} /\ dev[d].ok /\ dev[d].open
                        /\ "TCP" \in dev[d].flags /\ dev[d].flags \subseteq {"TCP", "FORWARD"}
                        /\ handle[d].mask = ControlMask
<1>k. \A g \in Guis : Connected(g) <=> \E d \in Devs : Own(g, d)
  BY DEF Connected
<1>l. \A g \in Guis : Connected(g)' <=> \E d \in Devs : Own(g, d)'
  BY DEF Connected, Devs
\* A connection outlasts what leaves its own entries alone.
<1>o. ASSUME NEW g \in Guis, NEW d \in Devs, Own(g, d), dev'[d] = dev[d],
             handle'[d].mask = handle[d].mask, \A e \in Devs : dev'[e].peer = g => dev[e].peer = g
      PROVE  Connected(g)'
  <2>1. DevsOf(g)' = {d}
    BY <1>o DEF DevsOf, Devs
  <2>2. Own(g, d)'
    BY <1>o, <2>1, SetupKept
  <2> QED  BY <1>l, <2>2
<1>c. ASSUME UNCHANGED <<dev, handle>> PROVE \A g \in Guis : Connected(g)' <=> Connected(g)
  BY <1>c, SetupKept DEF Connected, DevsOf, Devs
<1>e. ASSUME UNCHANGED dev PROVE \A g \in Guis : DevsOf(g)' = DevsOf(g)
  BY <1>e DEF DevsOf, Devs
<1>1. ASSUME NEW g \in Guis, Connect(g) \/ Crash(g) \/ Hello(g) \/ Sensed(g) PROVE PeersKnown'
  BY <1>1, <1>c, <1>e, <1>t, SetupKept DEF Connect, Crash, Hello, Sensed, PeersKnown
<1>2. ASSUME NEW g \in Guis, acceptConnection(g), MidiThread PROVE PeersKnown'
  <2>1. CASE FreeDevs = {}
    BY <1>2, <1>c, <1>e, <1>t, <2>1, SetupKept DEF acceptConnection, PeersKnown
  <2>2. CASE FreeDevs # {}
    <3>1. PICK d \in Devs : d = FindDev /\ ~dev[d].ok
      BY <2>2, FirstFree DEF FreeDevs
    <3>2. dev' = [dev EXCEPT ![d] = [ok |-> TRUE, open |-> TRUE, flags |-> {"TCP"}, peer |-> g]]
      BY <1>2, <2>2, <3>1 DEF acceptConnection
    <3>3. gui' = [gui EXCEPT ![g] = "open"] /\ DevsOf(g) = {}
      BY <1>2, <2>2 DEF acceptConnection, PeersKnown
    <3>4. \A x \in Guis \ {g} : DevsOf(x)' \subseteq DevsOf(x)
      BY <1>t, <3>2 DEF DevsOf, Devs
    <3>5. ASSUME Alone PROVE Connected(g)'
      <4>1. FreeDevs = FreeHandles /\ d = FindFreeHandle
        BY <1>m, <1>w, <1>2, <1>t, <3>1, <3>5 DEF FreeDevs, FreeHandles, FindDev, FindFreeHandle
      <4>2. handle' = [handle EXCEPT ![d] = [ok |-> TRUE, dev |-> d, mask |-> handle[0].mask]]
        BY <1>2, <2>2, <3>1, <4>1 DEF acceptConnection
      <4>3. handle'[d].mask = ControlMask
        BY <1>t, <4>2 DEF FirstEntries
      <4>4. DevsOf(g)' = {d}
        BY <1>t, <3>2, <3>3 DEF DevsOf, Devs
      <4>5. dev'[d].ok /\ dev'[d].open /\ dev'[d].flags = {"TCP"}
        BY <1>t, <3>2
      <4>6. Own(g, d)'
        BY <4>3, <4>4, <4>5, SetupKept
      <4> QED  BY <1>l, <4>6
    <3>6. ASSUME Alone, NEW x \in Guis \ {g}, gui[x] = "open" PROVE Connected(x)'
      <4>1. PICK e \in Devs : Own(x, e)
        BY <1>k, <3>6 DEF PeersKnown
      <4>2. e # d /\ dev'[e] = dev[e]
        BY <1>t, <3>1, <3>2, <4>1
      <4>3. handle'[e].mask = handle[e].mask
        <5>1. e \notin FreeHandles
          BY <1>m, <1>w, <1>2, <3>6, <4>1 DEF FreeHandles
        <5>2. FreeHandles # {} => FindFreeHandle # e
          BY <5>1, FirstFree
        <5> QED  BY <1>2, <1>t, <2>2, <5>2 DEF acceptConnection
      <4>4. \A f \in Devs : dev'[f].peer = x => dev[f].peer = x
        BY <1>t, <3>2
      <4> QED  BY <1>o, <4>1, <4>2, <4>3, <4>4
    <3>7. \A x \in Guis \ {g} : gui'[x] = gui[x]
      BY <1>t, <3>3
    <3>8. gui'[g] = "open"
      BY <1>t, <3>3
    <3> QED  BY <3>3, <3>4, <3>5, <3>6, <3>7, <3>8, SetupKept DEF PeersKnown
  <2> QED  BY <2>1, <2>2
<1>3. ASSUME NEW g \in Guis, ReqForward(g), MidiThread PROVE PeersKnown'
  <2>1. PICK h \in Serving(g), value \in {{}, {"FORWARD"}} :
           dev' = [dev EXCEPT ![handle[h].dev].flags = (@ \ {"FORWARD"}) \cup value]
    BY <1>3 DEF ReqForward
  <2>2. PICK d \in Devs : d = handle[h].dev
    BY ServingProperties DEF DevsOf
  <2>3. \A e \in Devs : /\ dev'[e].ok = dev[e].ok /\ dev'[e].open = dev[e].open
                        /\ dev'[e].peer = dev[e].peer
                        /\ dev'[e].flags \subseteq dev[e].flags \cup {"FORWARD"}
                        /\ dev[e].flags \ {"FORWARD"} \subseteq dev'[e].flags
    BY <1>t, <2>1, <2>2
  <2>4. \A x \in Guis : DevsOf(x)' = DevsOf(x)
    BY <2>3 DEF DevsOf, Devs
  <2>5. \A x \in Guis, e \in Devs : Own(x, e) => Own(x, e)'
    BY <1>3, <2>3, <2>4, SetupKept DEF ReqForward
  <2>6. \A x \in Guis : Connected(x) => Connected(x)'
    BY <1>k, <1>l, <2>5
  <2> QED  BY <1>3, <2>4, <2>6, SetupKept DEF ReqForward, PeersKnown
<1>4. ASSUME NEW g \in Guis, ExitAlgo(g), MidiThread PROVE PeersKnown'
  <2>1. PICK h \in Serving(g) :
          \/ UNCHANGED <<dev, handle>>
          \/ /\ dev' = [dev EXCEPT ![handle[h].dev] = FreedDevice]
             /\ handle' = [handle EXCEPT ![h] = FreedHandle]
    BY <1>4 DEF ExitAlgo, Closed
  <2>2. h \in Considered /\ handle[h].dev \in DevsOf(g)
    BY ServingProperties
  <2>3. \A x \in Guis, e \in Devs : dev'[e].peer = x => dev[e].peer = x
    BY <1>t, <2>1 DEF FreedDevice
  <2>4. \A x \in Guis : DevsOf(x)' \subseteq DevsOf(x)
    BY <2>3 DEF DevsOf, Devs
  <2>5. ASSUME Alone, NEW x \in Guis \ {g}, gui[x] = "open" PROVE Connected(x)'
    <3>1. PICK e \in Devs : Own(x, e)
      BY <1>k, <2>5 DEF PeersKnown
    <3>2. handle[h].dev # e /\ h # e
      BY <1>m, <1>w, <1>t, <1>4, <2>2, <2>5, <3>1 DEF Considered, DevsOf
    <3>3. dev'[e] = dev[e] /\ handle'[e].mask = handle[e].mask
      BY <1>t, <2>1, <3>2
    <3> QED  BY <1>o, <2>3, <3>1, <3>3
  <2>6. gui' = [gui EXCEPT ![g] = "left"]
    BY <1>4 DEF ExitAlgo
  <2>7. gui'[g] = "left" /\ \A x \in Guis \ {g} : gui'[x] = gui[x]
    BY <1>t, <2>6
  <2> QED  BY <2>4, <2>5, <2>7, SetupKept DEF PeersKnown
<1>5. ASSUME NEW d \in Devs, Loses(d)
      PROVE  \A x \in Guis : DevsOf(x)' \subseteq DevsOf(x)
  <2>1. \A x \in Guis, e \in Devs : dev'[e].peer = x => dev[e].peer = x
    BY <1>t, <1>5 DEF Loses
  <2> QED  BY <2>1 DEF DevsOf, Devs
<1>6. ASSUME NEW g \in Guis, LostConnection(g) PROVE PeersKnown'
  <2>1. Crashes /\ ~Alone
    BY <1>6 DEF LostConnection, PeersKnown, Alone, NothingLost
  <2>2. \A x \in Guis : DevsOf(x)' \subseteq DevsOf(x)
    BY <1>5, <1>6 DEF LostConnection, DevsOf
  <2>3. \A x \in Guis : gui'[x] \in {"off", "pending"} => gui[x] \in {"off", "pending"}
    BY <1>6, <1>t DEF LostConnection
  <2> QED  BY <2>1, <2>2, <2>3, SetupKept DEF PeersKnown
<1>7. CASE Unplugged
  <2>1. ~Alone
    BY <1>7, <1>s DEF Unplugged
  <2>2. \A x \in Guis : DevsOf(x)' \subseteq DevsOf(x)
    <3>1. 1 \in Devs
      BY TablesAssumption DEF Devs
    <3> QED  BY <1>5, <1>7, <3>1 DEF Unplugged
  <2> QED  BY <1>7, <2>1, <2>2, SetupKept DEF Unplugged, PeersKnown
<1>8. CASE JackFindsHandle
  BY <1>8, <1>c, <1>e, SetupKept DEF JackFindsHandle, PeersKnown
<1>9. CASE JackFindsDev
  <2>1. ASSUME Alone, NEW x \in Guis, gui[x] = "open" PROVE Connected(x)'
    <3>1. PICK e \in Devs : Own(x, e)
      BY <1>k, <2>1 DEF PeersKnown
    <3>2. jack.handle # e
      BY <1>9, <1>m, <2>1, <3>1 DEF JackFindsDev, OpensInBoth, FreeHandles
    <3>3. handle'[e] = handle[e] /\ dev'[e] = dev[e]
      BY <1>9, <1>t, <3>2 DEF JackFindsDev
    <3> QED  BY <1>9, <1>o, <3>1, <3>3 DEF JackFindsDev
  <2> QED  BY <1>9, <1>e, <2>1, SetupKept DEF JackFindsDev, PeersKnown
<1>10. CASE JackOpens
  <2>1. \A x \in Guis, e \in Devs : dev'[e].peer = x => dev[e].peer = x
    BY <1>10, <1>t DEF JackOpens
  <2>2. \A x \in Guis : DevsOf(x)' \subseteq DevsOf(x)
    BY <2>1 DEF DevsOf, Devs
  <2>3. ASSUME Alone, NEW x \in Guis, gui[x] = "open" PROVE Connected(x)'
    <3>1. PICK e \in Devs : Own(x, e)
      BY <1>k, <2>3 DEF PeersKnown
    <3>2. jack.dev # e /\ jack.handle # e
      BY <1>10, <2>3, <3>1 DEF JackOpens, OpensInBoth
    <3>3. handle'[e] = handle[e] /\ dev'[e] = dev[e]
      BY <1>10, <1>t, <3>2 DEF JackOpens
    <3> QED  BY <1>o, <2>1, <3>1, <3>3
  <2> QED  BY <1>10, <2>2, <2>3, SetupKept DEF JackOpens, PeersKnown
<1>11. CASE UNCHANGED vars
  BY <1>11, <1>c, <1>e, SetupKept DEF vars, PeersKnown
<1> QED
  BY <1>1, <1>2, <1>3, <1>4, <1>6, <1>7, <1>8, <1>9, <1>10, <1>11
  DEF Next, MidiThread, JackThread, OfGui

\* Every handler of either thread keeps the tables in agreement.
LEMMA TablesStep == TablesInv /\ [Next]_vars => TablesInv'
BY TypeStep, FirstEntriesStep, MatchStep, PeersStep DEF TablesInv

\* A connection has one handle, the one of its own device, for either direction.
LEMMA OneHandleEach ==
    ASSUME TablesInv, Alone, NEW g \in Guis, gui[g] = "open"
    PROVE  \E d \in Devs :
              /\ DevsOf(g) = {d} /\ Serving(g) = {d}
              /\ ForwardedTo(d) = IF "FORWARD" \in dev[d].flags THEN {d} ELSE {}
<1>1. PICK d \in Devs :
         /\ DevsOf(g) = {d} /\ dev[d].ok /\ dev[d].open
         /\ "TCP" \in dev[d].flags /\ dev[d].flags \subseteq {"TCP", "FORWARD"}
         /\ handle[d].mask = ControlMask
  BY DEF TablesInv, PeersKnown, Connected
<1>2. Handles = Devs /\ NoDev \notin Devs
  BY TablesAssumption DEF Devs, Handles, NoDev
<1>3. \A h \in Handles : handle[h].dev = d => h = d
  BY <1>1, <1>2 DEF TablesInv, HandlesMatch, OpensInBoth
<1>4. handle[d].ok /\ handle[d].dev = d
  BY <1>1, <1>2 DEF TablesInv, HandlesMatch, OpensInBoth
<1>5. d \in Considered /\ Registered(d, "sysex")
  BY <1>1, <1>2, <1>4 DEF Considered, Registered, ControlMask
<1>6. Serving(g) = {d}
  <2>1. SysexTo(d) # {}
    BY <1>4, <1>5 DEF SysexTo
  <2>2. SysexTo(d) = {d}
    BY <2>1, <1>3, SysexToProperties DEF Considered
  <2> QED  BY <1>1, <2>2 DEF Serving
<1>7. ForwardedTo(d) = IF "FORWARD" \in dev[d].flags THEN {d} ELSE {}
  BY <1>1, <1>3, <1>4, <1>5 DEF ForwardedTo, Considered
<1> QED  BY <1>1, <1>6, <1>7

\* The tables agree in every reachable state.
LEMMA TablesAlways == Spec => []TablesInv
BY TablesInit, TablesStep, PTL DEF Spec

\* Without losses, and with one thread opening at a time, no sequence of
\* connections, closes and the opening of the Jack device leaks an entry or
\* puts the two tables out of step (bristolMidiFindDev, bristolMidiFindFreeHandle,
\* bristolMidiClose).
THEOREM HandlesAgree == Spec => []HandlesMatch
BY TablesAlways, PTL DEF TablesInv

\* Whatever connections came and went, a request of a GUI that is connected
\* reaches one handle, and an event is sent on to it once, or never if it did
\* not ask for events (checkcallbacks).
THEOREM AllConnectionsServed == Spec => []ConnectionsServed
<1>1. TablesInv => ConnectionsServed
  <2> SUFFICES ASSUME TablesInv, Alone, NEW g \in Guis, gui[g] = "open"
               PROVE  /\ Cardinality(Serving(g)) = 1
                      /\ \A d \in DevsOf(g) :
                            Cardinality(ForwardedTo(d)) = IF "FORWARD" \in dev[d].flags THEN 1 ELSE 0
    BY DEF ConnectionsServed
  <2>1. PICK d \in Devs :
              /\ DevsOf(g) = {d} /\ Serving(g) = {d}
              /\ ForwardedTo(d) = IF "FORWARD" \in dev[d].flags THEN {d} ELSE {}
    BY OneHandleEach
  <2>2. Cardinality({d}) = 1 /\ Cardinality({}) = 0
    BY FS_Singleton, FS_EmptySet
  <2> QED  BY <2>1, <2>2
<1> QED  BY <1>1, TablesAlways, PTL

----------------------------------------------------------------------------
(***************************************************************************)
(* The notes of the keyboard.                                              *)
(***************************************************************************)

\* The handle of an ALSA keyboard is never closed or given away, since requests
\* come from other devices, and no other handle is registered for notes.
LEMMA KeyboardStep == TypeOK /\ FirstEntries /\ KeyboardInv /\ [Next]_vars => KeyboardInv'
<1> SUFFICES ASSUME TypeOK, FirstEntries, KeyboardInv, [Next]_vars, Link # "jack" PROVE KeyboardInv'
  BY SetupKept DEF KeyboardInv
<1>t. /\ 0 \in Devs /\ 1 \in Devs /\ Handles = Devs
      /\ DOMAIN dev = Devs /\ DOMAIN handle = Handles
      /\ Keyboard \notin Guis /\ Nil # Keyboard
      /\ handle[0].mask = "sysex" /\ Handles' = Handles /\ Devs' = Devs
  BY TablesAssumption, NamesAssumption DEF TypeOK, Devs, Handles, FirstEntries, ControlMask
<1>k. /\ handle[1] = [ok |-> TRUE, dev |-> 1, mask |-> "notes"]
      /\ \A h \in Handles \ {1} : handle[h].mask \in {"sysex", "none"}
      /\ \A d \in Devs : dev[d].peer = Keyboard => d = 1 /\ dev[1].flags = {}
  BY DEF KeyboardInv
<1>c. ASSUME handle'[1] = handle[1], \A h \in Handles \ {1} : handle'[h].mask \in {"sysex", "none"},
             \A d \in Devs : dev'[d].peer = Keyboard => dev[d].peer = Keyboard /\ dev'[d].flags = dev[d].flags
      PROVE  KeyboardInv'
  BY <1>c, <1>k, <1>t DEF KeyboardInv
<1>1. ASSUME NEW g \in Guis, Connect(g) \/ Crash(g) \/ Hello(g) \/ Sensed(g) PROVE KeyboardInv'
  BY <1>1, <1>c, <1>k DEF Connect, Crash, Hello, Sensed
<1>2. ASSUME NEW g \in Guis, acceptConnection(g) PROVE KeyboardInv'
  <2>1. FreeHandles # {} => FindFreeHandle # 1
    BY <1>k, FirstFree DEF FreeHandles
  <2>2. /\ handle'[1] = handle[1]
        /\ \A h \in Handles \ {1} : handle'[h].mask \in {"sysex", "none"}
    <3>1. \/ handle' = handle
          \/ \E d : FreeHandles # {} /\ handle' = [handle EXCEPT ![FindFreeHandle] =
                                           [ok |-> TRUE, dev |-> d, mask |-> handle[0].mask]]
      BY <1>2 DEF acceptConnection
    <3>2. CASE handle' = handle
      BY <1>k, <3>2
    <3>3. CASE handle' # handle
      <4>1. PICK d : handle' = [handle EXCEPT ![FindFreeHandle] =
                                  [ok |-> TRUE, dev |-> d, mask |-> "sysex"]]
        BY <1>t, <3>1, <3>3
      <4>2. handle'[1] = handle[1]
        BY <1>t, <2>1, <3>1, <3>3, <4>1
      <4>3. \A h \in Handles \ {1} : handle'[h].mask \in {"sysex", "none"}
        <5>1. ASSUME NEW h \in Handles \ {1} PROVE handle'[h].mask \in {"sysex", "none"}
          <6>1. handle'[h] = handle[h] \/ handle'[h] = [ok |-> TRUE, dev |-> d, mask |-> "sysex"]
            BY <1>t, <4>1
          <6> QED  BY <1>k, <6>1
        <5> QED  BY <5>1
      <4> QED  BY <4>2, <4>3
    <3> QED  BY <3>2, <3>3
  <2>3. \A d \in Devs : dev'[d].peer = Keyboard => dev'[d] = dev[d]
    BY <1>2, <1>t DEF acceptConnection
  <2> QED  BY <1>c, <2>2, <2>3
<1>3. ASSUME NEW g \in Guis, ReqForward(g) PROVE KeyboardInv'
  <2>1. PICK h \in Serving(g), value \in {{}, {"FORWARD"}} :
           dev' = [dev EXCEPT ![handle[h].dev].flags = (@ \ {"FORWARD"}) \cup value]
    BY <1>3 DEF ReqForward
  <2>2. handle[h].dev \in Devs /\ dev[handle[h].dev].peer = g
    BY ServingProperties DEF DevsOf
  <2>3. \A d \in Devs : dev'[d].peer = Keyboard => dev'[d] = dev[d]
    <3>1. \A d \in Devs \ {handle[h].dev} : dev'[d] = dev[d]
      BY <1>t, <2>1
    <3>2. dev'[handle[h].dev].peer = g
      BY <1>t, <2>1, <2>2 DEF TypeOK
    <3> QED  BY <1>t, <3>1, <3>2
  <2> QED  BY <1>3, <1>c, <1>k, <2>3 DEF ReqForward
<1>4. ASSUME NEW g \in Guis, ExitAlgo(g) PROVE KeyboardInv'
  <2>1. PICK h \in Serving(g) :
          \/ UNCHANGED <<dev, handle>>
          \/ /\ dev' = [dev EXCEPT ![handle[h].dev] = FreedDevice]
             /\ handle' = [handle EXCEPT ![h] = FreedHandle]
    BY <1>4 DEF ExitAlgo, Closed
  <2>2. h # 1
    BY <1>k, ServingProperties DEF Registered
  <2>3. \A d \in Devs : dev'[d].peer = Keyboard => dev'[d] = dev[d]
    BY <1>t, <2>1 DEF FreedDevice
  <2>4. /\ handle'[1] = handle[1]
        /\ \A x \in Handles \ {1} : handle'[x].mask \in {"sysex", "none"}
    <3>1. handle'[1] = handle[1]
      BY <1>t, <2>1, <2>2
    <3>2. \A x \in Handles : handle'[x] = handle[x] \/ handle'[x] = FreedHandle
      BY <1>t, <2>1
    <3> QED  BY <1>k, <3>1, <3>2 DEF FreedHandle
  <2> QED  BY <1>c, <2>3, <2>4
<1>5. ASSUME NEW d \in Devs, Loses(d)
      PROVE  \A e \in Devs : dev'[e].peer = Keyboard => dev'[e] = dev[e]
  <2>1. \A e \in Devs \ {d} : dev'[e] = dev[e]
    BY <1>5 DEF Loses, TypeOK
  <2>2. dev'[d].peer = Nil
    BY <1>5 DEF Loses, TypeOK
  <2> QED  BY <1>t, <2>1, <2>2
<1>6. ASSUME NEW g \in Guis, LostConnection(g) PROVE KeyboardInv'
  BY <1>6, <1>5, <1>c, <1>k DEF LostConnection, DevsOf
<1>7. CASE Unplugged
  BY <1>7, <1>5, <1>c, <1>k, <1>t DEF Unplugged
<1>8. CASE JackThread
  BY <1>8 DEF JackThread, JackFindsHandle, JackFindsDev, JackOpens, FirstEntries
<1>9. CASE UNCHANGED vars
  BY <1>9, <1>c, <1>k DEF vars
<1> QED
  BY <1>1, <1>2, <1>3, <1>4, <1>6, <1>7, <1>8, <1>9 DEF Next, MidiThread, OfGui

\* The devices opened at the start include at most one for each keyboard.
LEMMA KeyboardInit == Init => KeyboardInv
<1> SUFFICES ASSUME Init, Link # "jack" PROVE KeyboardInv
  BY DEF KeyboardInv
<1>1. 0 \in Devs /\ 1 \in Devs /\ Handles = Devs /\ Nil # Keyboard /\ Listener # Keyboard
  BY TablesAssumption, NamesAssumption DEF Devs, Handles, Listener, Keyboard
<1> QED  BY <1>1 DEF Init, KeyboardInv, ControlMask, FreedDevice, FreedHandle

\* A note is handled once as long as the keyboard is there, whatever GUIs
\* connect, forward, leave or are lost meanwhile, and whichever entries of the
\* tables they get (checkcallbacks, acceptConnection).
THEOREM NotesHandledOnce == Spec => []NotesOnce
<1>1. Init => TypeOK /\ FirstEntries /\ KeyboardInv
  BY TablesInit, KeyboardInit DEF TablesInv
<1>2. TypeOK /\ FirstEntries /\ KeyboardInv /\ [Next]_vars => (TypeOK /\ FirstEntries /\ KeyboardInv)'
  BY TypeStep, FirstEntriesStep, KeyboardStep
<1>3. TypeOK /\ KeyboardInv => NotesOnce
  <2> SUFFICES ASSUME TypeOK, KeyboardInv, Link # "jack", NEW d \in Devs, dev[d].peer = Keyboard
               PROVE  Cardinality(NotesTo(d)) = 1
    BY DEF NotesOnce
  <2>1. 1 \in Handles /\ NoDev # 1
    BY TablesAssumption DEF Handles, NoDev
  <2>2. NotesTo(d) = {1}
    BY <2>1 DEF KeyboardInv, NotesTo, Considered, Registered
  <2> QED  BY <2>2, FS_Singleton
<1> QED  BY <1>1, <1>2, <1>3, PTL DEF Spec

----------------------------------------------------------------------------
(***************************************************************************)
(* The counts that end the process.                                        *)
(***************************************************************************)

\* A process that has exited does nothing any more.
LEMMA NothingAfterExit == exited /\ [Next]_vars => UNCHANGED vars
BY DEF Next, MidiThread, JackThread, OfGui, Connect, Crash, Sensed, acceptConnection, Hello,
       ReqForward, ExitAlgo, LostConnection, Unplugged, JackFindsHandle, JackFindsDev,
       JackOpens, Served

\* Everything the counts are compared with is finite.
LEMMA CountsFinite ==
    ASSUME TypeOK, setup \in Setups
    PROVE  /\ IsFiniteSet(setup.guis) /\ IsFiniteSet(Attached) /\ IsFiniteSet(Entered)
           /\ IsFiniteSet(UsedHandles) /\ IsFiniteSet(Handles) /\ Cardinality(Handles) = NumDevs
           /\ Cardinality(setup.guis) \in Nat /\ Cardinality(Attached) \in Nat
           /\ Cardinality(Entered) \in Nat /\ Cardinality(UsedHandles) \in Nat
<1>1. setup.guis \subseteq Guis /\ Attached \subseteq Guis /\ Entered \subseteq Guis
  BY SetupAssumption DEF Attached, Entered
<1>2. IsFiniteSet(Guis)
  BY NamesAssumption
<1>3. IsFiniteSet(Handles) /\ Cardinality(Handles) = NumDevs
  BY FS_Interval, TablesAssumption DEF Handles
<1>4. UsedHandles \subseteq Handles
  BY DEF UsedHandles
<1> QED  BY <1>1, <1>2, <1>3, <1>4, FS_Subset, FS_CardinalityType

\* Whether the handles suffice is decided by the setup.
LEMMA SufficeKept == [Next]_vars => (HandlesSuffice' <=> HandlesSuffice)
BY SetupKept DEF HandlesSuffice, Crashes

\* A GUI that is waiting for its connection to be accepted finds a free handle.
LEMMA HandleLeft ==
    ASSUME TypeOK, FirstEntries, CountInv, Link # "raw", Crashes, HandlesSuffice,
           NEW g \in Guis, gui[g] = "pending"
    PROVE  FreeHandles # {}
<1> USE CountsFinite DEF FirstEntries
<1>1. Entered \subseteq setup.guis \ {g} /\ g \in setup.guis
  BY DEF CountInv, Entered
<1>2. Cardinality(Entered) <= Cardinality(setup.guis) - 1
  <2>1. /\ IsFiniteSet(setup.guis \ {g})
        /\ Cardinality(setup.guis \ {g}) = Cardinality(setup.guis) - 1
    BY <1>1, FS_RemoveElement
  <2> QED  BY <1>1, <2>1, FS_Subset
<1>3. Cardinality(UsedHandles) <= Cardinality(Entered) + 2
  BY DEF CountInv
<1>4. Cardinality(setup.guis) + 2 <= NumDevs /\ NumDevs \in Nat
  BY TablesAssumption DEF HandlesSuffice
<1>5. Cardinality(UsedHandles) < Cardinality(Handles)
  BY <1>2, <1>3, <1>4
<1>6. UsedHandles # Handles
  BY <1>5
<1> QED  BY <1>6 DEF UsedHandles, FreeHandles

\* Nothing is connected and nothing counted at the start.
LEMMA CountInit == Init => CountInv
<1> SUFFICES ASSUME Init PROVE CountInv
  OBVIOUS
<1>1. Attached = {} /\ Entered = {}
  BY DEF Init, Attached, Entered
<1>2. Cardinality(Attached) = 0 /\ Cardinality(Entered) = 0
  BY <1>1, FS_EmptySet
<1>3. 0 \in Handles /\ 1 \in Handles
  BY TablesAssumption DEF Handles
<1>4. IF Link = "jack" THEN UsedHandles = {0} ELSE UsedHandles = {0, 1}
  BY <1>3 DEF Init, UsedHandles, FreedHandle
<1>5. IF Link = "jack" THEN Cardinality(UsedHandles) = 1 ELSE Cardinality(UsedHandles) = 2
  <2>1. Cardinality({0}) = 1 /\ IsFiniteSet({0})
    BY FS_Singleton
  <2>2. Cardinality({0} \cup {1}) = 2
    BY <2>1, FS_AddElement
  <2>3. {0, 1} = {0} \cup {1}
    OBVIOUS
  <2> QED  BY <1>4, <2>1, <2>2, <2>3
<1> QED  BY <1>2, <1>5 DEF Init, CountInv

\* No connection that is there goes uncounted, and no handle stays behind but
\* those of GUIs that came: each new connection is counted since it finds a
\* handle, and each loss takes one from the count (midiCheck).
LEMMA CountStep == TablesInv /\ CountInv /\ [Next]_vars => CountInv'
<1> SUFFICES ASSUME TablesInv, CountInv, [Next]_vars PROVE CountInv'
  OBVIOUS
<1> DEFINE Slack == IF Link = "jack" /\ jack.pc \in {"idle", "handle"} THEN 1 ELSE 2
           Counts == Link # "raw" /\ Crashes /\ HandlesSuffice
<1>t. /\ TypeOK /\ FirstEntries /\ setup \in Setups
      /\ gui \in [Guis -> {"off", "pending", "open", "lost", "refused", "left", "dead"}]
      /\ DOMAIN handle = Handles /\ opens \in Int /\ Handles' = Handles
      /\ DOMAIN jack = {"pc", "handle", "dev"}
  BY DEF TablesInv, FirstEntries, TypeOK, Handles
<1>s. setup' = setup /\ Link' = Link /\ (Counts' <=> Counts)
  BY SetupKept, SufficeKept
<1>f. /\ IsFiniteSet(Attached) /\ IsFiniteSet(Entered) /\ IsFiniteSet(UsedHandles)
      /\ IsFiniteSet(Entered') /\ IsFiniteSet(Attached') /\ IsFiniteSet(UsedHandles')
  <2>1. Entered' \subseteq Guis /\ Attached' \subseteq Guis /\ UsedHandles' \subseteq Handles
    BY <1>t DEF Entered, Attached, UsedHandles
  <2>2. IsFiniteSet(Handles) /\ IsFiniteSet(Guis)
    BY <1>t, CountsFinite, NamesAssumption
  <2> QED  BY <1>t, <2>1, <2>2, CountsFinite, FS_Subset
<1>n. /\ Cardinality(Attached) \in Nat /\ Cardinality(Entered) \in Nat
      /\ Cardinality(UsedHandles) \in Nat /\ Cardinality(Attached') \in Nat
      /\ Cardinality(Entered') \in Nat /\ Cardinality(UsedHandles') \in Nat
  BY <1>f, FS_CardinalityType
<1>i. /\ \A g \in Guis : gui[g] # "off" => g \in setup.guis
      /\ Counts => Cardinality(Attached) <= opens
                   /\ Cardinality(UsedHandles) <= Cardinality(Entered) + Slack
  BY DEF CountInv
<1> HIDE DEF Slack, Counts
<1>q. ASSUME \A g \in Guis : gui'[g] # "off" => g \in setup.guis,
             Counts => Cardinality(Attached') <= opens'
                       /\ Cardinality(UsedHandles') <= Cardinality(Entered') + Slack'
      PROVE  CountInv'
  BY <1>q, <1>s DEF CountInv, Slack, Counts
<1>e. ASSUME UNCHANGED handle PROVE UsedHandles' = UsedHandles
  BY <1>e, <1>t DEF UsedHandles
<1>g. ASSUME UNCHANGED gui PROVE Attached' = Attached /\ Entered' = Entered
  BY <1>g DEF Attached, Entered
<1>j. ASSUME UNCHANGED jack PROVE Slack' = Slack
  BY <1>j, <1>s DEF Slack
<1>k. Slack \in {1, 2} /\ Slack' \in {1, 2}
  BY DEF Slack
<1>1. ASSUME NEW g \in Guis, Connect(g) PROVE CountInv'
  <2>1. gui' = [gui EXCEPT ![g] = "pending"] /\ gui[g] = "off" /\ g \in setup.guis
    BY <1>1 DEF Connect
  <2>2. Attached' = Attached /\ Entered' = Entered
    BY <1>t, <2>1 DEF Attached, Entered
  <2> QED  BY <1>1, <1>e, <1>i, <1>j, <1>q, <1>t, <2>1, <2>2 DEF Connect
<1>2. ASSUME NEW g \in Guis, Crash(g) PROVE CountInv'
  <2>1. gui' = [gui EXCEPT ![g] = "lost"] /\ gui[g] = "open"
    BY <1>2 DEF Crash
  <2>2. Attached' = Attached /\ Entered' = Entered
    BY <1>t, <2>1 DEF Attached, Entered
  <2> QED  BY <1>2, <1>e, <1>i, <1>j, <1>q, <1>t, <2>1, <2>2 DEF Crash
<1>3. ASSUME NEW g \in Guis, Hello(g) \/ ReqForward(g) \/ Sensed(g) PROVE CountInv'
  BY <1>3, <1>e, <1>g, <1>i, <1>j, <1>q DEF Hello, ReqForward, Sensed
<1>4. ASSUME NEW g \in Guis, acceptConnection(g) PROVE CountInv'
  <2>1. gui[g] = "pending" /\ g \in setup.guis /\ UNCHANGED jack
    BY <1>4, <1>i DEF acceptConnection
  <2>2. CASE FreeDevs = {}
    <3>1. gui' = [gui EXCEPT ![g] = "refused"] /\ UNCHANGED <<handle, opens>>
      BY <1>4, <2>2 DEF acceptConnection
    <3>2. Attached' = Attached /\ Entered' = Entered
      BY <1>t, <2>1, <3>1 DEF Attached, Entered
    <3> QED  BY <1>e, <1>i, <1>j, <1>q, <1>t, <2>1, <3>1, <3>2
  <2>3. CASE FreeDevs # {}
    <3>1. gui' = [gui EXCEPT ![g] = "open"]
      BY <1>4, <2>3 DEF acceptConnection
    <3>2. Attached' = Attached \cup {g} /\ Entered' = Entered \cup {g} /\ g \notin Entered
      BY <1>t, <2>1, <3>1 DEF Attached, Entered
    <3>3. /\ Cardinality(Attached') <= Cardinality(Attached) + 1
          /\ Cardinality(Entered') = Cardinality(Entered) + 1
      <4>1. Cardinality(Entered \cup {g}) = Cardinality(Entered) + 1
        BY <1>f, <3>2, FS_AddElement
      <4>2. Cardinality(Attached \cup {g}) =
              IF g \in Attached THEN Cardinality(Attached) ELSE Cardinality(Attached) + 1
        BY <1>f, FS_AddElement
      <4> QED  BY <1>f, <1>n, <3>2, <4>1, <4>2
    <3>4. ASSUME Counts
          PROVE  opens' = opens + 1 /\ Cardinality(UsedHandles') <= Cardinality(UsedHandles) + 1
      <4>1. FreeHandles # {}
        BY <1>t, <2>1, <3>4, HandleLeft DEF Counts
      <4>2. opens' = opens + 1
        BY <1>4, <2>3, <4>1 DEF acceptConnection, Counted
      <4>3. PICK d : handle' = [handle EXCEPT ![FindFreeHandle] =
                                  [ok |-> TRUE, dev |-> d, mask |-> handle[0].mask]]
        BY <1>4, <2>3, <4>1 DEF acceptConnection
      <4>4. UsedHandles' \subseteq UsedHandles \cup {FindFreeHandle}
        BY <1>t, <4>3 DEF UsedHandles
      <4>5. /\ IsFiniteSet(UsedHandles \cup {FindFreeHandle})
            /\ Cardinality(UsedHandles \cup {FindFreeHandle}) <= Cardinality(UsedHandles) + 1
        <5>1. /\ IsFiniteSet(UsedHandles \cup {FindFreeHandle})
              /\ Cardinality(UsedHandles \cup {FindFreeHandle}) =
                   IF FindFreeHandle \in UsedHandles THEN Cardinality(UsedHandles) ELSE Cardinality(UsedHandles) + 1
          BY <1>f, FS_AddElement
        <5> QED  BY <1>n, <5>1
      <4>6. Cardinality(UsedHandles') <= Cardinality(UsedHandles \cup {FindFreeHandle})
        BY <4>4, <4>5, FS_Subset
      <4> QED
        BY <1>f, <1>n, <4>2, <4>5, <4>6, FS_CardinalityType
    <3>5. \A x \in Guis : gui'[x] # "off" => x \in setup.guis
      BY <1>i, <1>t, <2>1, <3>1
    <3> QED  BY <1>i, <1>j, <1>k, <1>n, <1>q, <1>t, <2>1, <3>3, <3>4, <3>5
  <2> QED  BY <2>2, <2>3
<1>5. ASSUME NEW g \in Guis, ExitAlgo(g) PROVE CountInv'
  <2>1. gui' = [gui EXCEPT ![g] = "left"] /\ gui[g] = "open" /\ UNCHANGED <<jack, opens>>
    BY <1>5 DEF ExitAlgo, Served
  <2>2. Attached' = Attached \ {g} /\ Entered' = Entered
    BY <1>t, <2>1 DEF Attached, Entered
  <2>3. PICK h \in Handles : handle' = handle \/ handle' = [handle EXCEPT ![h] = FreedHandle]
    BY <1>5, ServingProperties DEF ExitAlgo, Considered
  <2>4. UsedHandles' \subseteq UsedHandles
    BY <1>t, <2>3 DEF UsedHandles, FreedHandle
  <2>5. /\ Cardinality(Attached') <= Cardinality(Attached)
        /\ Cardinality(UsedHandles') <= Cardinality(UsedHandles)
    BY <1>f, <2>2, <2>4, FS_Subset
  <2>6. \A x \in Guis : gui'[x] # "off" => x \in setup.guis
    BY <1>i, <1>t, <2>1
  <2> QED  BY <1>i, <1>j, <1>k, <1>n, <1>q, <1>t, <2>1, <2>2, <2>5, <2>6
<1>6. ASSUME NEW g \in Guis, LostConnection(g) PROVE CountInv'
  <2>1. /\ gui' = [gui EXCEPT ![g] = "dead"] /\ gui[g] = "lost" /\ UNCHANGED <<jack, handle>>
        /\ opens' = opens - 1
    BY <1>6 DEF LostConnection, Loses
  <2>2. Attached' = Attached \ {g} /\ Entered' = Entered /\ g \in Attached
    BY <1>t, <2>1 DEF Attached, Entered
  <2>3. Cardinality(Attached') = Cardinality(Attached) - 1
    BY <1>f, <2>2, FS_RemoveElement
  <2>4. \A x \in Guis : gui'[x] # "off" => x \in setup.guis
    BY <1>i, <1>t, <2>1
  <2> QED  BY <1>e, <1>i, <1>j, <1>k, <1>n, <1>q, <1>t, <2>1, <2>2, <2>3, <2>4
<1>7. CASE Unplugged
  <2>1. ~Counts /\ UNCHANGED gui
    BY <1>7 DEF Unplugged, Counts
  <2> QED  BY <1>q, <1>i, <2>1
<1>8. CASE JackFindsHandle
  <2>1. Slack' >= Slack
    BY <1>8, <1>s, <1>k DEF JackFindsHandle, Slack
  <2> QED  BY <1>8, <1>e, <1>g, <1>i, <1>k, <1>n, <1>q, <2>1 DEF JackFindsHandle
<1>9. CASE JackFindsDev
  <2>1. Slack = 1 /\ Slack' = 2
    BY <1>9, <1>s, <1>t DEF JackFindsDev, Slack, FirstEntries
  <2>2. UsedHandles' \subseteq UsedHandles \cup {jack.handle}
    BY <1>9, <1>t DEF JackFindsDev, UsedHandles
  <2>3. /\ IsFiniteSet(UsedHandles \cup {jack.handle})
        /\ Cardinality(UsedHandles \cup {jack.handle}) <= Cardinality(UsedHandles) + 1
    <3>1. /\ IsFiniteSet(UsedHandles \cup {jack.handle})
          /\ Cardinality(UsedHandles \cup {jack.handle}) =
               IF jack.handle \in UsedHandles THEN Cardinality(UsedHandles) ELSE Cardinality(UsedHandles) + 1
      BY <1>f, FS_AddElement
    <3> QED  BY <1>n, <3>1
  <2>4. Cardinality(UsedHandles') <= Cardinality(UsedHandles) + 1
    <3>1. Cardinality(UsedHandles') <= Cardinality(UsedHandles \cup {jack.handle})
      BY <2>2, <2>3, FS_Subset
    <3> QED  BY <1>n, <2>3, <3>1, FS_CardinalityType
  <2> QED  BY <1>9, <1>g, <1>i, <1>n, <1>q, <2>1, <2>4 DEF JackFindsDev
<1>10. CASE JackOpens
  <2>1. Slack = 2 /\ Slack' = 2
    BY <1>10, <1>s, <1>t DEF JackOpens, Slack, FirstEntries
  <2>2. \A h \in Handles : handle'[h].ok = handle[h].ok
    BY <1>10, <1>t DEF JackOpens, TypeOK
  <2>3. UsedHandles' = UsedHandles
    BY <1>t, <2>2 DEF UsedHandles
  <2> QED  BY <1>10, <1>g, <1>i, <1>q, <2>1, <2>3 DEF JackOpens
<1>11. CASE UNCHANGED vars
  BY <1>11, <1>e, <1>g, <1>i, <1>j, <1>q DEF vars
<1> QED
  BY <1>1, <1>2, <1>3, <1>4, <1>5, <1>6, <1>7, <1>8, <1>9, <1>10, <1>11
  DEF Next, MidiThread, JackThread, OfGui

\* The step that ends the process is the exit of the last emulator, or the loss
\* of the only connection left.
LEMMA ExitStep == TablesInv /\ CountInv /\ ExitsUnused /\ [Next]_vars => ExitsUnused'
<1> SUFFICES ASSUME TablesInv, CountInv, ExitsUnused, [Next]_vars PROVE ExitsUnused'
  OBVIOUS
<1>n. CASE exited
  BY <1>n, NothingAfterExit DEF ExitsUnused, vars, Link, HandlesSuffice, Crashes
<1> SUFFICES ASSUME Link # "raw", HandlesSuffice, exited', ~exited
             PROVE  \A g \in emus' : gui'[g] # "open"
  BY <1>n, SetupKept, SufficeKept DEF ExitsUnused
<1>t. /\ TypeOK /\ FirstEntries /\ setup \in Setups
      /\ gui \in [Guis -> {"off", "pending", "open", "lost", "refused", "left", "dead"}]
  BY DEF TablesInv, FirstEntries, TypeOK
<1>1. ASSUME NEW g \in Guis, ExitAlgo(g) PROVE \A x \in emus' : gui'[x] # "open"
  <2>1. emus = {g} /\ emus' = emus \ {g}
    BY <1>1 DEF ExitAlgo, LastEmulator
  <2> QED  BY <2>1
<1>2. ASSUME NEW g \in Guis, LostConnection(g) PROVE \A x \in emus' : gui'[x] # "open"
  <2>1. gui[g] = "lost" /\ opens = 1 /\ emus' = emus /\ gui' = [gui EXCEPT ![g] = "dead"]
    BY <1>2 DEF LostConnection, Loses
  <2>2. Crashes
    BY <1>t, <2>1 DEF TablesInv, PeersKnown
  <2>3. Cardinality(Attached) <= 1 /\ IsFiniteSet(Attached) /\ Cardinality(Attached) \in Nat
    BY <1>t, <2>1, <2>2, CountsFinite DEF CountInv
  <2>4. g \in Attached
    BY <2>1 DEF Attached
  <2>5. Cardinality(Attached) = 1
    BY <2>3, <2>4, FS_EmptySet
  <2>6. Attached = {g}
    BY <2>3, <2>4, <2>5, FS_Singleton
  <2> QED  BY <1>t, <2>1, <2>6 DEF Attached, TypeOK
<1> QED
  BY <1>1, <1>2
  DEF Next, MidiThread, JackThread, OfGui, Connect, Crash, Sensed, acceptConnection, Hello,
      ReqForward, Unplugged, JackFindsHandle, JackFindsDev, JackOpens, vars

\* The process never ends under a GUI that has an emulator: the last exit request
\* is the only one that ends it, and the last loss finds no connection left,
\* whatever number of them the tables had to refuse (midiCheck).
THEOREM EndsOnlyUnused == Spec => []ExitsUnused
<1>1. Init => TablesInv /\ CountInv /\ ExitsUnused
  BY TablesInit, CountInit DEF Init, ExitsUnused
<1>2. TablesInv /\ CountInv /\ ExitsUnused /\ [Next]_vars => (TablesInv /\ CountInv /\ ExitsUnused)'
  BY TablesStep, CountStep, ExitStep
<1> QED  BY <1>1, <1>2, PTL DEF Spec
=============================================================================
