------------------------ MODULE ActiveSenseProofs ------------------------
(***************************************************************************)
(* Proofs about ActiveSense, for all arguments of the GUI, all periods and *)
(* all times that are short enough (InTime): the emulator of a GUI that is *)
(* there is kept.                                                          *)
(***************************************************************************)
EXTENDS ActiveSense, TLAPS

(***************************************************************************)
(* Arithmetic.                                                             *)
(***************************************************************************)

\* A quotient and what it is the quotient of.
LEMMA Quotient ==
    ASSUME NEW a \in Nat, NEW b \in Nat \ {0}
    PROVE  a \div b \in Nat /\ (a \div b) * b <= a /\ a < (a \div b) * b + b
OBVIOUS

\* A product keeps the order of one factor.
LEMMA Products ==
    ASSUME NEW a \in Nat, NEW b \in Nat, NEW c \in Nat, a <= b
    PROVE  a * c \in Nat /\ b * c \in Nat /\ a * c <= b * c /\ c * a <= c * b
OBVIOUS

\* A quotient is the number that fits.
LEMMA QuotientIs ==
    ASSUME NEW a \in Nat, NEW b \in Nat \ {0}, NEW q \in Nat, q * b <= a, a < q * b + b
    PROVE  a \div b = q
<1>1. a \div b \in Nat /\ (a \div b) * b <= a /\ a < (a \div b) * b + b
  BY Quotient
<1> DEFINE p == a \div b
<1>2. ASSUME p < q PROVE FALSE
  <2>1. (p + 1) * b <= q * b /\ (p + 1) * b = p * b + b
    BY <1>1, <1>2, Products
  <2> QED  BY <1>1, <2>1
<1>3. ASSUME q < p PROVE FALSE
  <2>1. (q + 1) * b <= p * b /\ (q + 1) * b = q * b + b
    BY <1>1, <1>3, Products
  <2> QED  BY <1>1, <2>1
<1> QED  BY <1>1, <1>2, <1>3

\* A quotient keeps the order, and one divisor less is a quotient of one less.
LEMMA QuotientOrder ==
    ASSUME NEW a \in Nat, NEW c \in Nat, NEW b \in Nat \ {0}, a <= c
    PROVE  /\ a \div b <= c \div b
           /\ a >= b => (a - b) \div b = (a \div b) - 1 /\ a \div b >= 1
<1>1. /\ a \div b \in Nat /\ (a \div b) * b <= a /\ a < (a \div b) * b + b
      /\ c \div b \in Nat /\ (c \div b) * b <= c /\ c < (c \div b) * b + b
  BY Quotient
<1> DEFINE p == a \div b
           q == c \div b
<1>2. ASSUME q < p PROVE FALSE
  <2>1. (q + 1) * b <= p * b /\ (q + 1) * b = q * b + b
    BY <1>1, <1>2, Products
  <2> QED  BY <1>1, <2>1
<1>3. ASSUME a >= b PROVE (a - b) \div b = p - 1 /\ p >= 1
  <2>1. p >= 1
    <3>1. p = 0 => p * b = 0
      BY <1>1
    <3> QED  BY <1>1, <1>3, <3>1
  <2>2. (p - 1) * b = p * b - b
    BY <1>1
  <2>3. a - b \in Nat /\ p - 1 \in Nat /\ (p - 1) * b <= a - b /\ a - b < (p - 1) * b + b
    BY <1>1, <1>3, <2>1, <2>2
  <2> HIDE DEF p
  <2> QED  BY <2>1, <2>3, QuotientIs
<1> QED  BY <1>1, <1>2, <1>3

----------------------------------------------------------------------------
(***************************************************************************)
(* Times, periods and samples.                                             *)
(***************************************************************************)

\* A period takes one off the periods of a time.
LEMMA PeriodsProperties ==
    ASSUME NEW t \in Nat
    PROVE  /\ Periods(t) \in Nat /\ t <= Periods(t) * PeriodTime
           /\ Down(t) \in Nat
           /\ t > 0 => Periods(t) >= 1 /\ Periods(Down(t)) = Periods(t) - 1
           /\ Periods(0) = 0
           /\ Down(0) = 0
           /\ t > 0 => t <= Down(t) + PeriodTime
<1> DEFINE T == PeriodTime
<1>0. T \in Nat \ {0}
  BY TimesAssumption
<1> HIDE DEF T
<1>1. t + T - 1 \in Nat /\ T - 1 \in Nat
  BY <1>0
<1>2. /\ (t + T - 1) \div T \in Nat
      /\ t + T - 1 < ((t + T - 1) \div T) * T + T
  BY <1>0, <1>1, Quotient
<1>3. (T - 1) \div T = 0
  BY <1>0, <1>1, QuotientIs
<1>4. ASSUME t > 0
      PROVE  /\ (t + T - 1) \div T >= 1
             /\ (t - 1) \div T = (t + T - 1) \div T - 1
             /\ t > T => (t - T) + T - 1 = t - 1
             /\ t <= T => (t - 1) \div T = 0
  <2>1. t + T - 1 >= T /\ (t + T - 1) - T = t - 1 /\ t - 1 \in Nat
    BY <1>0, <1>4
  <2>2. t <= T => (t - 1) \div T = 0
    BY <1>0, <2>1, QuotientIs
  <2>3. PICK a : a = t + T - 1
    OBVIOUS
  <2>4. (a - T) \div T = (a \div T) - 1 /\ a \div T >= 1
    <3>1. a \in Nat /\ a <= a /\ a >= T
      BY <1>1, <2>1, <2>3
    <3> QED  BY <1>0, <3>1, QuotientOrder
  <2>5. a - T = t - 1
    BY <2>1, <2>3
  <2>6. t > T => (t - T) + T - 1 = t - 1
    BY <1>0
  <2> QED  BY <2>2, <2>3, <2>4, <2>5, <2>6
<1>5. Periods(0) = 0 /\ Periods(t) = (t + T - 1) \div T
  <2>1. 0 + T - 1 = T - 1
    BY <1>0
  <2> QED  BY <1>3, <2>1 DEF Periods, T
<1>6. Down(t) = (IF t > T THEN t - T ELSE 0) /\ Down(0) = 0
  BY <1>0 DEF Down, T
<1>7. ASSUME t > 0 PROVE Periods(Down(t)) = Periods(t) - 1
  <2>1. CASE t > T
    <3>1. Periods(Down(t)) = ((t - T) + T - 1) \div T
      BY <1>6, <2>1 DEF Periods, T
    <3> QED  BY <1>4, <1>5, <1>7, <2>1, <3>1
  <2>2. CASE t <= T
    BY <1>0, <1>4, <1>5, <1>6, <1>7, <2>2
  <2> QED  BY <1>0, <2>1, <2>2
<1>8. t <= ((t + T - 1) \div T) * T
  BY <1>0, <1>1, <1>2
<1> QED  BY <1>0, <1>2, <1>4, <1>5, <1>6, <1>7, <1>8 DEF T

\* A longer time takes no fewer periods.
LEMMA PeriodsOrder ==
    ASSUME NEW t \in Nat, NEW u \in Nat, t <= u
    PROVE  Periods(t) <= Periods(u)
<1>1. /\ t + PeriodTime - 1 \in Nat /\ u + PeriodTime - 1 \in Nat
      /\ t + PeriodTime - 1 <= u + PeriodTime - 1 /\ PeriodTime \in Nat \ {0}
  BY TimesAssumption
<1> QED  BY <1>1, QuotientOrder DEF Periods

\* The samples of a period.
LEMMA SampleCount ==
    samplecount \in Nat /\ samplecount * 10 <= Rate100 * PeriodTime
<1>1. Rate100 * PeriodTime \in Nat
  BY TimesAssumption
<1> QED  BY <1>1, Quotient DEF samplecount

\* A time that is longer than so many periods has more samples than they have.
LEMMA Longer ==
    ASSUME NEW ms \in Nat, NEW n \in Nat, n * PeriodTime < ms
    PROVE  (n * samplecount) * 10 + Rate100 <= ms * Rate100
<1>0. Rate100 \in Nat /\ PeriodTime \in Nat
  BY TimesAssumption
<1>1. n * PeriodTime + 1 <= ms /\ n * PeriodTime \in Nat
  BY <1>0
<1>2. (n * PeriodTime + 1) * Rate100 <= ms * Rate100
  BY <1>0, <1>1, Products
<1>3. (n * PeriodTime + 1) * Rate100 = n * (Rate100 * PeriodTime) + Rate100
  BY <1>0
<1>4. n * (samplecount * 10) <= n * (Rate100 * PeriodTime)
  <2>1. samplecount * 10 \in Nat /\ Rate100 * PeriodTime \in Nat
    BY <1>0, SampleCount
  <2> QED  BY <2>1, SampleCount, Products
<1>5. n * (samplecount * 10) = (n * samplecount) * 10
  BY SampleCount
<1>6. /\ n * (Rate100 * PeriodTime) \in Nat /\ ms * Rate100 \in Nat
      /\ (n * samplecount) * 10 \in Nat
  BY <1>0, SampleCount
<1> QED  BY <1>0, <1>2, <1>3, <1>4, <1>5, <1>6

\* So has the count of a message.
LEMMA Lasts ==
    ASSUME NEW ms \in 0 .. Longest, NEW n \in Nat, RateFits, n * PeriodTime < ms
    PROVE  Samples(ms) \in Nat /\ n * samplecount < Samples(ms)
<1>0. Rate100 \in Nat /\ PeriodTime \in Nat /\ Rate100 >= 10 /\ Longest * Rate100 <= 21474836
      /\ Longest \in Nat /\ ms \in Nat /\ ms <= Longest
  BY TimesAssumption DEF RateFits, Longest
<1>1. ms * Rate100 \in Nat /\ ms * Rate100 <= 21474836
  <2>1. ms * Rate100 <= Longest * Rate100 /\ ms * Rate100 \in Nat /\ Longest * Rate100 \in Nat
    BY <1>0, Products
  <2> QED  BY <1>0, <2>1
<1>2. Samples(ms) = (ms * Rate100) \div 10
  BY <1>1 DEF Samples, Wrapped
<1>3. PICK a : a = ms * Rate100
  OBVIOUS
<1>4. PICK p : p = n * samplecount
  OBVIOUS
<1>5. a \in Nat /\ p \in Nat /\ p * 10 + Rate100 <= a
  BY <1>0, <1>1, <1>3, <1>4, SampleCount, Longer
<1>6. a \div 10 \in Nat /\ a < (a \div 10) * 10 + 10
  BY <1>5, Quotient
<1>7. p < a \div 10
  BY <1>0, <1>5, <1>6
<1> QED  BY <1>2, <1>3, <1>4, <1>6, <1>7

----------------------------------------------------------------------------
(***************************************************************************)
(* Types.                                                                  *)
(***************************************************************************)

\* The arguments come to an interval and a timeout that fit a message.
LEMMA Arguments ==
    ASSUME NEW s \in Setups
    PROVE  /\ Interval(s) \in Nat /\ Interval(s) <= 5000
           /\ Timeout(s) \in Nat /\ Timeout(s) <= 16000
           /\ s.exits \in Nat /\ s.dies \in BOOLEAN
<1>1. s.sense \in Int /\ s.ast \in Int /\ s.exits \in Nat /\ s.dies \in BOOLEAN
  BY SetupsAssumption
<1>2. Interval(s) \in Nat /\ Interval(s) <= 5000
  <2>1. CASE s.sense = NotGiven
    BY <2>1 DEF Interval, NotGiven
  <2>2. CASE s.sense # NotGiven /\ s.sense = 0
    BY <2>2 DEF Interval, NotGiven
  <2>3. CASE s.sense # NotGiven /\ s.sense # 0
    <3>1. Interval(s) = Bounded(s.sense, 50, 5000)
      BY <2>3 DEF Interval
    <3> QED  BY <1>1, <3>1 DEF Bounded
  <2> QED  BY <2>1, <2>2, <2>3
<1>3. \A n \in Int : Bounded(n, 0, 16000) \in Nat /\ Bounded(n, 0, 16000) <= 16000
  BY DEF Bounded
<1>4. Timeout(s) \in Nat /\ Timeout(s) <= 16000
  <2>1. Tripled(Interval(s)) \in Int
    BY <1>2 DEF Tripled
  <2>2. PICK ast \in Int : ast = IF s.ast < 50 THEN 50 ELSE s.ast
    BY <1>1
  <2>3. \/ Timeout(s) = 15000
        \/ Timeout(s) = Bounded(Tripled(Interval(s)), 0, 16000)
        \/ Timeout(s) = Bounded(ast, 0, 16000)
    BY <2>2 DEF Timeout
  <2> QED  BY <1>3, <2>1, <2>2, <2>3
<1> QED  BY <1>1, <1>2, <1>4

\* What a setup gives to a run.
LEMMA SetupFacts ==
    ASSUME setup \in Setups
    PROVE  /\ activeSense \in Nat /\ activeSense <= 5000
           /\ activeSensePeriod \in Nat /\ activeSensePeriod <= 16000
           /\ setup.exits \in Nat
           /\ FirstMessage \in 0 .. Longest /\ activeSensePeriod \in 0 .. Longest
           /\ activeSense = Interval(setup) /\ activeSensePeriod = Timeout(setup)
<1>1. /\ activeSense = Interval(setup) /\ activeSensePeriod = Timeout(setup)
      /\ activeSense \in Nat /\ activeSense <= 5000
      /\ activeSensePeriod \in Nat /\ activeSensePeriod <= 16000 /\ setup.exits \in Nat
  BY Arguments DEF activeSense, activeSensePeriod
<1>2. Longest \in Nat /\ 16000 <= Longest
  BY DEF Longest
<1>3. FirstMessage \in 0 .. Longest
  BY <1>2 DEF FirstMessage
<1> QED  BY <1>1, <1>2, <1>3

\* The times and the rate are positive.
LEMMA TimeFacts ==
    /\ Mwt \in Nat \ {0} /\ Rate100 \in Nat \ {0} /\ PeriodTime \in Nat \ {0}
    /\ LoopTimes \subseteq Nat \ {0} /\ SetupTimes \subseteq Nat \ {0}
    /\ ExitTimes \subseteq Nat \ {0}
BY TimesAssumption

\* The emulator starts with the count of its hello.
LEMMA TypeInit == Init => TypeOK
<1> SUFFICES ASSUME Init PROVE TypeOK
  OBVIOUS
<1>1. setup \in Setups
  BY DEF Init
<1>2. 4 * activeSense \in -PeriodTime .. 4 * activeSense
  BY <1>1, SetupFacts, TimeFacts
<1>3. 150 * 10 * Rate100 \in Int
  BY TimeFacts
<1>4. << >> \in Seq(0 .. Longest) /\ setup.exits \in 0 .. setup.exits
  BY <1>1, SetupFacts
<1> QED  BY <1>1, <1>2, <1>3, <1>4, TimeFacts DEF Init, TypeOK

\* A message is read from the head of the wire.
LEMMA HeadAndTail ==
    ASSUME NEW M, NEW w \in Seq(M), w # << >>
    PROVE  /\ Head(w) \in M /\ Head(w) = w[1] /\ 1 \in DOMAIN w /\ Tail(w) \in Seq(M)
           /\ \A i \in DOMAIN Tail(w) : i + 1 \in DOMAIN w /\ Tail(w)[i] = w[i + 1]
OBVIOUS

\* Every step of the three threads keeps the types.
LEMMA TypeStep == TypeOK /\ [Next]_vars => TypeOK'
<1> SUFFICES ASSUME TypeOK, [Next]_vars PROVE TypeOK'
  OBVIOUS
<1>0. setup' = setup /\ activeSense' = activeSense /\ setup \in Setups
  BY DEF Next, Opens, EventMgr, Die, bristolActiveSense, OtherExits, AudioPeriod, vars,
         activeSense, TypeOK
<1>1. CASE Opens
  <2>1. Append(wire, FirstMessage) \in Seq(0 .. Longest)
    BY <1>0, SetupFacts DEF TypeOK
  <2> QED  BY <1>0, <1>1, <2>1, TimeFacts DEF Opens, TypeOK
<1>2. CASE EventMgr
  <2>1. Append(wire, activeSensePeriod) \in Seq(0 .. Longest)
    BY <1>0, SetupFacts DEF TypeOK
  <2>2. asc' \in -PeriodTime .. 4 * activeSense
    BY <1>0, <1>2, SetupFacts, TimeFacts DEF EventMgr, TypeOK, Reload
  <2> QED  BY <1>0, <1>2, <2>1, <2>2, TimeFacts DEF EventMgr, TypeOK
<1>3. CASE Die
  BY <1>0, <1>3, SetupFacts, TimeFacts DEF Die, TypeOK
<1>4. CASE bristolActiveSense
  <2>1. Head(wire) \in 0 .. Longest /\ Tail(wire) \in Seq(0 .. Longest)
    <3>1. wire \in Seq(0 .. Longest) /\ wire # << >>
      BY <1>4 DEF bristolActiveSense, TypeOK
    <3> QED  BY <3>1, HeadAndTail
  <2>2. \A ms \in 0 .. Longest : Samples(ms) \in Int
    BY TimeFacts DEF Samples, Wrapped
  <2> QED  BY <1>0, <1>4, <2>1, <2>2 DEF bristolActiveSense, TypeOK
<1>5. CASE OtherExits
  BY <1>0, <1>5, TimeFacts, SetupFacts DEF OtherExits, TypeOK
<1>6. CASE AudioPeriod
  <2>1. loop' \in Nat /\ busy' \in Nat
    BY <1>6, PeriodsProperties DEF AudioPeriod, TypeOK
  <2>2. asc' \in -PeriodTime .. 4 * activeSense
    BY <1>0, <1>6, SetupFacts, TimeFacts DEF AudioPeriod, TypeOK
  <2>3. count' \in Int
    BY <1>6, SampleCount DEF AudioPeriod, TypeOK, Elapsed
  <2>4. removed' \in BOOLEAN
    <3>1. CASE Checked
      <4>1. removed' = (Elapsed(count) <= 0)
        BY <1>6, <3>1 DEF AudioPeriod
      <4>2. CASE Elapsed(count) <= 0
        BY <4>1, <4>2, Zenon
      <4>3. CASE ~(Elapsed(count) <= 0)
        <5>1. (Elapsed(count) <= 0) = FALSE
          BY <4>3
        <5> QED  BY <4>1, <5>1, Zenon
      <4> QED  BY <4>2, <4>3
    <3>2. CASE ~Checked
      BY <1>6, <3>2 DEF AudioPeriod, TypeOK
    <3> QED  BY <3>1, <3>2
  <2> QED  BY <1>0, <1>6, <2>1, <2>2, <2>3, <2>4 DEF AudioPeriod, TypeOK
<1>7. CASE UNCHANGED vars
  BY <1>0, <1>7 DEF vars, TypeOK
<1> QED  BY <1>1, <1>2, <1>3, <1>4, <1>5, <1>6, <1>7 DEF Next

\* The countdowns and the count keep their ranges, and a message its two bytes.
THEOREM SenseTypes == Spec => []TypeOK
BY TypeInit, TypeStep, PTL DEF Spec

----------------------------------------------------------------------------
(***************************************************************************)
(* The count lasts.                                                        *)
(***************************************************************************)

\* The times are short enough: iterations of at most l, exits of at most e.
ShortTimes(l, e) ==
    /\ \A t \in LoopTimes : t <= l
    /\ \A t \in ExitTimes : t <= e
    /\ RateFits
    /\ \A s \in Setups : InTime(s, l, e)

\* The exits to come take no more than all of them.
LEMMA ExitsLeft ==
    ASSUME TypeOK, NEW e \in Nat
    PROVE  /\ Periods(e) \in Nat /\ exits * Periods(e) \in Nat
           /\ setup.exits * Periods(e) \in Nat
           /\ exits * Periods(e) <= setup.exits * Periods(e)
           /\ exits > 0 => (exits - 1) * Periods(e) = exits * Periods(e) - Periods(e)
<1>1. Periods(e) \in Nat /\ exits \in Nat /\ setup.exits \in Nat /\ exits <= setup.exits
  <2>1. setup.exits \in Nat /\ exits \in 0 .. setup.exits
    BY SetupFacts DEF TypeOK
  <2> QED  BY <2>1, PeriodsProperties
<1> QED  BY <1>1, Products

\* The amounts of SenseInv are numbers.
LEMMA Amounts ==
    ASSUME TypeOK, NEW l \in Nat, NEW e \in Nat
    PROVE  /\ Periods(l) \in Nat /\ Periods(loop) \in Nat /\ Periods(busy) \in Nat
           /\ asc >= 0 => asc \div Mwt \in Nat /\ (asc \div Mwt) * Periods(l) \in Nat
           /\ ToSend(l) \in Nat /\ ToRead(e) \in Nat /\ Due(l, e) \in Nat
<1>1. Periods(l) \in Nat /\ Periods(loop) \in Nat /\ Periods(busy) \in Nat
  BY PeriodsProperties DEF TypeOK
<1>2. asc >= 0 => asc \div Mwt \in Nat /\ (asc \div Mwt) * Periods(l) \in Nat
  <2> SUFFICES ASSUME asc >= 0 PROVE asc \div Mwt \in Nat /\ (asc \div Mwt) * Periods(l) \in Nat
    OBVIOUS
  <2>1. asc \in Nat
    BY TimeFacts, SetupFacts DEF TypeOK
  <2>2. asc \div Mwt \in Nat
    BY <2>1, TimeFacts, Quotient
  <2> QED  BY <1>1, <2>2, Products
<1>3. ToSend(l) \in Nat
  BY <1>1, <1>2 DEF ToSend
<1>4. ToRead(e) \in Nat
  BY <1>1, ExitsLeft DEF ToRead
<1> QED  BY <1>1, <1>2, <1>3, <1>4 DEF Due

\* The 15 seconds of the hello last until the first message.
LEMMA SenseInit ==
    ASSUME NEW l \in Nat, NEW e \in Nat, ShortTimes(l, e), Init
    PROVE  SenseInv(l, e)
<1>1. /\ gui = "setup" /\ loop \in SetupTimes /\ asc = 4 * activeSense /\ wire = << >>
      /\ count = 150 * 10 * Rate100 /\ busy = 0 /\ exits = setup.exits /\ ~removed
      /\ setup \in Setups
  BY DEF Init
<1>2. TypeOK
  BY TypeInit
<1>3. Due(l, e) = Periods(loop) + setup.exits * Periods(e) /\ Due(l, e) \in Nat
  <2>1. Periods(0) = 0 /\ Periods(loop) \in Nat /\ setup.exits * Periods(e) \in Nat
    BY <1>1, <1>2, Amounts, ExitsLeft, PeriodsProperties
  <2> QED  BY <1>1, <2>1 DEF Due, ToRead, ToSend
<1>4. Due(l, e) * PeriodTime < 15000
  BY <1>1, <1>3 DEF ShortTimes, InTime
<1>5. (Due(l, e) * samplecount) * 10 + Rate100 <= 15000 * Rate100
  BY <1>3, <1>4, Longer
<1>6. Due(l, e) * samplecount < count
  <2>1. PICK p : p = Due(l, e) * samplecount
    OBVIOUS
  <2>2. p \in Nat /\ p * 10 + Rate100 <= 15000 * Rate100 /\ Rate100 \in Nat \ {0}
    BY <1>3, <1>5, <2>1, SampleCount, TimeFacts
  <2>3. p < 1500 * Rate100
    BY <2>2
  <2> QED  BY <1>1, <2>1, <2>2, <2>3
<1>7. asc + loop <= loop + 4 * activeSense
  BY <1>1, <1>2, SetupFacts, TimeFacts
<1> QED  BY <1>1, <1>6, <1>7 DEF SenseInv

\* What SenseInv says of the next state.
LEMMA SensePrime ==
    ASSUME NEW l, NEW e
    PROVE  SenseInv(l, e)' = (gui' # "gone" =>
            /\ ~removed'
            /\ sensing' => Due(l, e)' * samplecount < count'
            /\ \A i \in DOMAIN wire' :
                 /\ wire'[i] \in {FirstMessage', activeSensePeriod'}
                 /\ activeSense' > 0 => (ToSend(l)' + exits' * Periods(e)) * PeriodTime < wire'[i]
            /\ gui' = "setup" =>
                 /\ wire' = << >>
                 /\ activeSense' > 0 =>
                       \E t \in SetupTimes : asc' < 0 \/ asc' + t <= loop' + 4 * activeSense'
            /\ gui' = "running" => Periods(loop') <= Periods(l)
            /\ gui' = "running" /\ activeSense' = 0 =>
                  (sensing' => wire' # << >>) /\ wire' \in {<< >>, <<0>>})
BY Zenon DEF SenseInv

\* An audio period takes one off what is due, and its samples off the count.
LEMMA SensePeriod ==
    ASSUME NEW l \in Nat, NEW e \in Nat, TypeOK, TypeOK', SenseInv(l, e), AudioPeriod
    PROVE  SenseInv(l, e)'
<1> SUFFICES ASSUME gui # "gone" PROVE SenseInv(l, e)'
  BY DEF AudioPeriod, SenseInv
<1>1. /\ ~removed /\ (sensing => Due(l, e) * samplecount < count)
      /\ gui' = gui /\ wire' = wire /\ exits' = exits /\ sensing' = sensing
      /\ loop' = Down(loop) /\ busy' = Down(busy) /\ loop \in Nat \ {0} /\ busy \in Nat
      /\ (busy > 0 \/ wire = << >>)
      /\ setup' = setup /\ activeSense' = activeSense /\ activeSensePeriod' = activeSensePeriod
      /\ FirstMessage' = FirstMessage
      /\ asc' = IF gui = "setup" /\ activeSense > 0 /\ asc >= 0 THEN asc - PeriodTime ELSE asc
  BY DEF AudioPeriod, SenseInv, TypeOK, activeSense, activeSensePeriod, FirstMessage
<1>2. /\ Periods(loop') = Periods(loop) - 1 /\ Periods(loop) \in Nat \ {0}
      /\ Periods(busy') \in Nat /\ Periods(busy) \in Nat /\ Periods(busy') <= Periods(busy)
      /\ busy > 0 => Periods(busy') = Periods(busy) - 1
      /\ loop <= loop' + PeriodTime /\ loop' \in Nat
  <2>2. /\ Periods(Down(loop)) = Periods(loop) - 1 /\ Periods(loop) \in Nat /\ Periods(loop) >= 1
        /\ Down(loop) \in Nat /\ loop <= Down(loop) + PeriodTime
    BY <1>1, PeriodsProperties
  <2>3. /\ Periods(busy) \in Nat /\ Down(busy) \in Nat
        /\ busy > 0 => Periods(Down(busy)) = Periods(busy) - 1 /\ Periods(busy) >= 1
        /\ busy = 0 => Periods(Down(busy)) = Periods(busy)
    BY <1>1, PeriodsProperties
  <2> QED  BY <1>1, <2>2, <2>3
<1>3. /\ ToSend(l)' = ToSend(l) - 1 /\ ToSend(l) \in Nat \ {0}
  <2>1. gui = "running" => asc' = asc
    BY <1>1
  <2>2. gui # "running" => ToSend(l) = Periods(loop) /\ ToSend(l)' = Periods(loop')
    BY <1>1, <1>2 DEF ToSend
  <2>3. PICK m \in Nat : m = IF asc >= 0 THEN (asc \div Mwt) * Periods(l) ELSE 0
    BY Amounts
  <2>4. gui = "running" => ToSend(l) = Periods(loop) + m /\ ToSend(l)' = Periods(loop') + m
    BY <1>1, <2>1, <2>3 DEF ToSend
  <2> QED  BY <1>2, <2>2, <2>4
<1>4. Due(l, e)' <= Due(l, e) - 1 /\ Due(l, e)' \in Nat /\ Due(l, e) \in Nat
  <2>1. PICK x \in Nat : x = exits * Periods(e)
    BY ExitsLeft
  <2>2. /\ Due(l, e) = Periods(busy) + x + (IF wire = << >> THEN ToSend(l) ELSE 0)
        /\ Due(l, e)' = Periods(busy') + x + (IF wire = << >> THEN ToSend(l)' ELSE 0)
    BY <1>1, <2>1 DEF Due, ToRead
  <2>3. CASE wire = << >>
    BY <1>2, <1>3, <2>2, <2>3
  <2>4. CASE wire # << >>
    BY <1>1, <1>2, <2>2, <2>4
  <2> QED  BY <2>3, <2>4
<1>5. Due(l, e)' * samplecount <= Due(l, e) * samplecount - samplecount
      /\ Due(l, e)' * samplecount \in Nat /\ Due(l, e) * samplecount \in Nat
  <2>1. PICK a \in Nat : a = Due(l, e)'
    BY <1>4
  <2>2. PICK b \in Nat : b = Due(l, e)
    BY <1>4
  <2>3. samplecount \in Nat /\ a <= b - 1 /\ b - 1 \in Nat
    BY <1>4, <2>1, <2>2, SampleCount
  <2>4. a * samplecount <= (b - 1) * samplecount /\ (b - 1) * samplecount = b * samplecount - samplecount
    BY <2>3, Products
  <2> QED  BY <2>1, <2>2, <2>3, <2>4
<1>6. ~removed' /\ (sensing' => Due(l, e)' * samplecount < count')
  <2>1. CASE Checked
    <3>1. count' = count - samplecount /\ removed' = (count - samplecount <= 0) /\ sensing
      BY <2>1 DEF AudioPeriod, Elapsed, Checked
    <3>2. Due(l, e)' * samplecount < count' /\ ~(count - samplecount <= 0)
      BY <1>1, <1>5, <3>1, SampleCount DEF TypeOK
    <3>3. ~removed'
      BY <3>1, <3>2, Zenon
    <3> QED  BY <3>2, <3>3
  <2>2. CASE ~Checked
    <3>1. removed' = removed /\ ~sensing
      <4>1. sensing => count > 0
        BY <1>1, <1>5 DEF TypeOK
      <4> QED  BY <2>2, <4>1 DEF AudioPeriod, Checked, TypeOK
    <3> QED  BY <1>1, <3>1
  <2> QED  BY <2>1, <2>2
<1>7. (ToSend(l)' + exits' * Periods(e)) * PeriodTime <= (ToSend(l) + exits * Periods(e)) * PeriodTime
  <2>1. exits * Periods(e) \in Nat /\ PeriodTime \in Nat
    BY ExitsLeft, TimeFacts
  <2> QED  BY <1>1, <1>3, <2>1, Products
<1>8. /\ ToSend(l)' \in Nat /\ exits * Periods(e) \in Nat /\ PeriodTime \in Nat
      /\ (ToSend(l)' + exits' * Periods(e)) * PeriodTime \in Int
      /\ (ToSend(l) + exits * Periods(e)) * PeriodTime \in Int
  <2>1. /\ ToSend(l)' \in Nat /\ ToSend(l) \in Nat /\ exits * Periods(e) \in Nat
        /\ PeriodTime \in Nat /\ exits' = exits
    <3>1. ToSend(l)' \in Nat /\ ToSend(l) \in Nat
      BY <1>3
    <3>2. exits * Periods(e) \in Nat
      BY ExitsLeft
    <3> QED  BY <1>1, <3>1, <3>2, TimeFacts
  <2> QED  BY <2>1
<1>9. ASSUME NEW i \in DOMAIN wire'
      PROVE  /\ wire'[i] \in {FirstMessage', activeSensePeriod'}
             /\ activeSense' > 0 => (ToSend(l)' + exits' * Periods(e)) * PeriodTime < wire'[i]
  <2>1. wire[i] \in Int /\ i \in DOMAIN wire
    BY <1>1, <1>9, SetupFacts DEF SenseInv, TypeOK
  <2>2. /\ wire[i] \in {FirstMessage, activeSensePeriod}
        /\ activeSense > 0 => (ToSend(l) + exits * Periods(e)) * PeriodTime < wire[i]
    BY <2>1 DEF SenseInv
  <2> QED  BY <1>1, <1>7, <1>8, <2>1, <2>2
<1>10. ASSUME gui' = "setup", activeSense' > 0
       PROVE  \E t \in SetupTimes : asc' < 0 \/ asc' + t <= loop' + 4 * activeSense'
  <2>1. PICK t \in SetupTimes : asc < 0 \/ asc + t <= loop + 4 * activeSense
    BY <1>1, <1>10 DEF SenseInv
  <2>2. asc \in Int /\ t \in Int /\ activeSense \in Nat /\ PeriodTime \in Nat
    BY TimeFacts, SetupFacts DEF TypeOK
  <2>3. asc' < 0 \/ asc' + t <= loop' + 4 * activeSense'
    BY <1>1, <1>2, <1>10, <2>1, <2>2
  <2> QED  BY <2>3
<1>11. /\ gui' = "setup" => wire' = << >>
       /\ gui' = "running" => Periods(loop') <= Periods(l)
       /\ gui' = "running" /\ activeSense' = 0 =>
             (sensing' => wire' # << >>) /\ wire' \in {<< >>, <<0>>}
  <2>1. gui = "running" => Periods(loop) <= Periods(l) /\ Periods(l) \in Nat
    BY Amounts DEF SenseInv
  <2>2. /\ gui = "setup" => wire = << >>
        /\ gui = "running" /\ activeSense = 0 => (sensing => wire # << >>) /\ wire \in {<< >>, <<0>>}
    BY DEF SenseInv
  <2> QED  BY <1>1, <1>2, <2>1, <2>2
<1> QED  BY <1>6, <1>9, <1>10, <1>11, SensePrime, Zenon

\* The first message is on its way when the setup is over.
LEMMA SenseOpens ==
    ASSUME NEW l \in Nat, NEW e \in Nat, ShortTimes(l, e), TypeOK, SenseInv(l, e), Opens
    PROVE  SenseInv(l, e)'
<1>1. /\ ~removed /\ (sensing => Due(l, e) * samplecount < count)
      /\ gui = "setup" /\ gui' = "running" /\ wire = << >> /\ wire' = <<FirstMessage>>
      /\ loop = 0 /\ loop' \in LoopTimes
      /\ UNCHANGED <<setup, asc, sensing, count, busy, exits, removed>>
      /\ activeSense' = activeSense /\ activeSensePeriod' = activeSensePeriod
      /\ FirstMessage' = FirstMessage /\ setup \in Setups
  BY DEF Opens, SenseInv, TypeOK, activeSense, activeSensePeriod, FirstMessage
<1>2. Due(l, e)' * samplecount <= Due(l, e) * samplecount
      /\ Due(l, e)' * samplecount \in Nat /\ Due(l, e) * samplecount \in Nat
  <2>1. Due(l, e) = ToRead(e) + ToSend(l) /\ Due(l, e)' = ToRead(e)
    <3>1. ToRead(e)' = ToRead(e) /\ wire' # << >>
      BY <1>1 DEF ToRead
    <3>2. Due(l, e)' = ToRead(e)' + IF wire' = << >> THEN ToSend(l)' ELSE 0
      BY DEF Due
    <3>3. ToRead(e) + 0 = ToRead(e)
      BY Amounts
    <3> QED  BY <1>1, <3>1, <3>2, <3>3 DEF Due
  <2>2. ToRead(e) \in Nat /\ ToSend(l) \in Nat
    BY Amounts
  <2>3. PICK a \in Nat, b \in Nat : a = Due(l, e)' /\ b = Due(l, e) /\ a <= b
    BY <2>1, <2>2
  <2> QED  BY <2>3, SampleCount, Products
<1>3. loop' \in Nat /\ loop' <= l /\ Periods(loop') \in Nat /\ Periods(loop') <= Periods(l)
  <2>1. loop' \in Nat /\ loop' <= l
    BY <1>1, TimeFacts DEF ShortTimes
  <2> QED  BY <2>1, PeriodsProperties, PeriodsOrder
<1>4. ASSUME activeSense > 0
      PROVE  (ToSend(l)' + exits * Periods(e)) * PeriodTime < Longest
  <2>1. PICK t \in SetupTimes : asc < 0 \/ asc + t <= loop + 4 * activeSense
    BY <1>1, <1>4 DEF SenseInv
  <2>2. PICK left \in Int : left = 4 * Interval(setup) - t
    BY <1>1, SetupFacts, TimeFacts
  <2>3. PICK h \in Nat : h = IF left > 0 THEN left ELSE 0
    BY <2>2
  <2>4. Wait(h, setup, l, e) * PeriodTime < Longest
    BY <1>1, <1>4, <2>2, <2>3, SetupFacts DEF ShortTimes, InTime
  <2>5. h \div Mwt \in Nat /\ Periods(l) \in Nat /\ (h \div Mwt) * Periods(l) \in Nat
    <3>1. h \div Mwt \in Nat /\ Periods(l) \in Nat
      BY <2>3, TimeFacts, Quotient, Amounts
    <3> QED  BY <3>1, Products
  <2>6. ToSend(l)' <= Periods(loop') + (h \div Mwt) * Periods(l) /\ ToSend(l)' \in Nat
    <3>1. CASE asc >= 0
      <4>1. asc \in Nat /\ asc <= h
        BY <1>1, <2>1, <2>2, <2>3, <3>1, SetupFacts, TimeFacts DEF TypeOK
      <4>2. asc \div Mwt <= h \div Mwt /\ asc \div Mwt \in Nat
        BY <2>3, <4>1, TimeFacts, QuotientOrder, Quotient
      <4>3. /\ (asc \div Mwt) * Periods(l) <= (h \div Mwt) * Periods(l)
            /\ (asc \div Mwt) * Periods(l) \in Nat
        BY <2>5, <4>2, Products
      <4>4. ToSend(l)' = Periods(loop') + (asc \div Mwt) * Periods(l)
        BY <1>1, <3>1 DEF ToSend
      <4> QED  BY <1>3, <2>5, <4>3, <4>4
    <3>2. CASE ~(asc >= 0)
      <4>1. ToSend(l)' = Periods(loop') + 0
        BY <1>1, <3>2 DEF ToSend
      <4> QED  BY <1>3, <2>5, <4>1
    <3> QED  BY <3>1, <3>2
  <2>7. (h \div Mwt + 1) * Periods(l) = (h \div Mwt) * Periods(l) + Periods(l)
    BY <2>5
  <2>8. ToSend(l)' + exits * Periods(e) <= Wait(h, setup, l, e) /\ Wait(h, setup, l, e) \in Nat
        /\ ToSend(l)' + exits * Periods(e) \in Nat
    <3>1. /\ exits * Periods(e) \in Nat /\ setup.exits * Periods(e) \in Nat
          /\ exits * Periods(e) <= setup.exits * Periods(e)
      BY ExitsLeft
    <3>2. Wait(h, setup, l, e) = (h \div Mwt) * Periods(l) + Periods(l) + setup.exits * Periods(e)
      BY <2>7 DEF Wait
    <3> QED  BY <1>3, <2>5, <2>6, <3>1, <3>2
  <2>9. PICK a \in Nat, b \in Nat : a = ToSend(l)' + exits * Periods(e) /\ b = Wait(h, setup, l, e) /\ a <= b
    BY <2>8
  <2>10. a * PeriodTime <= b * PeriodTime /\ b * PeriodTime < Longest
         /\ a * PeriodTime \in Nat /\ b * PeriodTime \in Nat /\ Longest \in Nat
    BY <2>4, <2>9, TimeFacts, Products DEF Longest
  <2>11. a * PeriodTime < Longest
    BY <2>10
  <2> QED  BY <2>9, <2>11
<1>5. ASSUME NEW i \in DOMAIN wire'
      PROVE  /\ wire'[i] \in {FirstMessage', activeSensePeriod'}
             /\ activeSense' > 0 => (ToSend(l)' + exits' * Periods(e)) * PeriodTime < wire'[i]
  <2>1. wire'[i] = FirstMessage
    BY <1>1, <1>5
  <2>2. activeSense > 0 => FirstMessage = Longest
    BY <1>1, SetupFacts DEF FirstMessage
  <2> QED  BY <1>1, <1>4, <2>1, <2>2
<1>6. activeSense' = 0 => wire' \in {<< >>, <<0>>}
  BY <1>1 DEF FirstMessage
<1>7. ~removed' /\ (sensing' => Due(l, e)' * samplecount < count') /\ gui' # "setup"
      /\ wire' # << >> /\ Periods(loop') <= Periods(l)
  BY <1>1, <1>2, <1>3 DEF TypeOK
<1> QED  BY <1>5, <1>6, <1>7, SensePrime, Zenon

\* The exit of another GUI takes no longer than what was left for it.
LEMMA SenseExits ==
    ASSUME NEW l \in Nat, NEW e \in Nat, ShortTimes(l, e), TypeOK, SenseInv(l, e), OtherExits
    PROVE  SenseInv(l, e)'
<1>1. /\ busy = 0 /\ busy' \in ExitTimes /\ exits > 0 /\ exits' = exits - 1
      /\ UNCHANGED <<setup, gui, asc, loop, wire, sensing, count, removed>>
      /\ activeSense' = activeSense /\ activeSensePeriod' = activeSensePeriod
      /\ FirstMessage' = FirstMessage /\ ToSend(l)' = ToSend(l)
  BY DEF OtherExits, activeSense, activeSensePeriod, FirstMessage, ToSend
<1>2. Periods(busy') \in Nat /\ Periods(busy') <= Periods(e) /\ Periods(e) \in Nat
  <2>1. busy' \in Nat /\ busy' <= e
    BY <1>1, TimeFacts DEF ShortTimes
  <2> QED  BY <2>1, PeriodsProperties, PeriodsOrder
<1>3. PICK x \in Nat : x = exits * Periods(e) /\ exits' * Periods(e) = x - Periods(e)
  BY <1>1, ExitsLeft
<1>4. PICK q \in Nat : q = exits' * Periods(e) /\ q <= x
  <2>1. exits - 1 \in Nat
    BY <1>1, SetupFacts DEF TypeOK
  <2>2. (exits - 1) * Periods(e) \in Nat
    BY <1>2, <2>1, Products
  <2> QED  BY <1>1, <1>2, <1>3, <2>2
<1>5. ToSend(l) \in Nat /\ ToRead(e) = Periods(0) + x /\ ToRead(e)' = Periods(busy') + q
      /\ Periods(0) = 0
  BY <1>1, <1>3, <1>4, Amounts, PeriodsProperties DEF ToRead
<1>6. Due(l, e)' <= Due(l, e) /\ Due(l, e)' \in Nat /\ Due(l, e) \in Nat
  <2>1. /\ Due(l, e) = x + IF wire = << >> THEN ToSend(l) ELSE 0
        /\ Due(l, e)' = Periods(busy') + q + IF wire = << >> THEN ToSend(l) ELSE 0
    BY <1>1, <1>5 DEF Due
  <2>2. Periods(busy') + q <= x
    BY <1>1, <1>2, <1>3, <1>4
  <2> QED  BY <1>2, <1>5, <2>1, <2>2
<1>7. /\ Due(l, e)' * samplecount <= Due(l, e) * samplecount
      /\ Due(l, e)' * samplecount \in Nat /\ Due(l, e) * samplecount \in Nat
  BY <1>6, SampleCount, Products
<1>8. /\ (ToSend(l) + q) * PeriodTime <= (ToSend(l) + x) * PeriodTime
      /\ (ToSend(l) + q) * PeriodTime \in Nat /\ (ToSend(l) + x) * PeriodTime \in Nat
  BY <1>4, <1>5, TimeFacts, Products
<1>9. ASSUME gui # "gone", NEW i \in DOMAIN wire
      PROVE  /\ wire[i] \in {FirstMessage, activeSensePeriod}
             /\ activeSense > 0 => (ToSend(l) + exits' * Periods(e)) * PeriodTime < wire[i]
  <2>1. /\ wire[i] \in {FirstMessage, activeSensePeriod} /\ wire[i] \in Int
        /\ activeSense > 0 => (ToSend(l) + x) * PeriodTime < wire[i]
    BY <1>3, <1>9, SetupFacts DEF SenseInv, TypeOK
  <2> QED  BY <1>4, <1>8, <2>1
<1>10. gui # "gone" => (sensing => Due(l, e)' * samplecount < count)
  BY <1>7 DEF SenseInv, TypeOK
<1> QED  BY <1>1, <1>9, <1>10, SensePrime DEF SenseInv

\* An iteration of eventMgr takes one off those to come, or sends the next
\* message.
LEMMA SenseIterates ==
    ASSUME NEW l \in Nat, NEW e \in Nat, ShortTimes(l, e), TypeOK, SenseInv(l, e), EventMgr
    PROVE  SenseInv(l, e)'
<1>1. /\ ~removed /\ (sensing => Due(l, e) * samplecount < count)
      /\ gui = "running" /\ gui' = "running" /\ loop = 0 /\ loop' \in LoopTimes
      /\ UNCHANGED <<setup, sensing, count, busy, exits, removed>>
      /\ activeSense' = activeSense /\ activeSensePeriod' = activeSensePeriod
      /\ FirstMessage' = FirstMessage /\ setup \in Setups
      /\ ToRead(e)' = ToRead(e)
  BY DEF EventMgr, SenseInv, TypeOK, activeSense, activeSensePeriod, FirstMessage, ToRead
<1>2. loop' \in Nat /\ loop' <= l /\ Periods(loop') \in Nat /\ Periods(loop') <= Periods(l)
  <2>1. loop' \in Nat /\ loop' <= l
    BY <1>1, TimeFacts DEF ShortTimes
  <2> QED  BY <2>1, PeriodsProperties, PeriodsOrder
<1>3. /\ Periods(l) \in Nat /\ ToRead(e) \in Nat /\ ToSend(l) \in Nat /\ Due(l, e) \in Nat
      /\ exits * Periods(e) \in Nat /\ setup.exits * Periods(e) \in Nat
      /\ exits * Periods(e) <= setup.exits * Periods(e)
      /\ Periods(0) = 0 /\ activeSense \in Nat /\ asc \in Int
  BY <1>1, Amounts, ExitsLeft, PeriodsProperties, SetupFacts DEF TypeOK
<1>4. \A i \in DOMAIN wire :
         /\ wire[i] \in {FirstMessage, activeSensePeriod}
         /\ activeSense > 0 => (ToSend(l) + exits * Periods(e)) * PeriodTime < wire[i]
  BY <1>1 DEF SenseInv
<1>5. CASE activeSense > 0 /\ asc - Mwt < 0
  <2>1. asc' = activeSense /\ wire' = Append(wire, activeSensePeriod)
    BY <1>1, <1>5 DEF EventMgr, Reload
  <2>2. Due(l, e)' = ToRead(e) /\ wire' # << >>
    <3>1. wire' # << >>
      BY <2>1 DEF TypeOK
    <3>2. Due(l, e)' = ToRead(e)' + IF wire' = << >> THEN ToSend(l)' ELSE 0
      BY DEF Due
    <3> QED  BY <1>1, <1>3, <3>1, <3>2
  <2>3. Due(l, e)' * samplecount <= Due(l, e) * samplecount
        /\ Due(l, e)' * samplecount \in Nat /\ Due(l, e) * samplecount \in Nat
    <3>1. Due(l, e)' <= Due(l, e)
      BY <1>3, <2>2 DEF Due
    <3> QED  BY <1>3, <2>2, <3>1, SampleCount, Products
  <2>4. (ToSend(l)' + exits * Periods(e)) * PeriodTime < activeSensePeriod
    <3>1. activeSense \div Mwt \in Nat /\ (activeSense \div Mwt) * Periods(l) \in Nat
      <4>1. activeSense \div Mwt \in Nat
        BY <1>3, TimeFacts, Quotient
      <4> QED  BY <1>3, <4>1, Products
    <3>2. ToSend(l)' = Periods(loop') + (activeSense \div Mwt) * Periods(l)
      BY <1>1, <1>3, <2>1 DEF ToSend
    <3>3. Wait(activeSense, setup, l, e)
            = (activeSense \div Mwt) * Periods(l) + Periods(l) + setup.exits * Periods(e)
      <4>1. (activeSense \div Mwt + 1) * Periods(l) = (activeSense \div Mwt) * Periods(l) + Periods(l)
        BY <1>3, <3>1
      <4> QED  BY <4>1 DEF Wait
    <3>4. PICK a \in Nat : a = ToSend(l)' + exits * Periods(e)
      BY <1>2, <1>3, <3>1, <3>2
    <3>5. PICK b \in Nat : b = Wait(activeSense, setup, l, e)
      BY <1>3, <3>1, <3>3
    <3>6. a <= b
      BY <1>2, <1>3, <3>1, <3>2, <3>3, <3>4, <3>5
    <3>7. b * PeriodTime < activeSensePeriod
      BY <1>1, <1>5, <3>5, SetupFacts DEF ShortTimes, InTime
    <3>8. a * PeriodTime <= b * PeriodTime /\ a * PeriodTime \in Nat /\ b * PeriodTime \in Nat
          /\ activeSensePeriod \in Nat
      BY <1>1, <3>6, TimeFacts, Products, SetupFacts
    <3>9. a * PeriodTime < activeSensePeriod
      BY <3>7, <3>8
    <3> QED  BY <3>4, <3>9
  <2>5. ASSUME NEW i \in DOMAIN wire'
        PROVE  /\ wire'[i] \in {FirstMessage, activeSensePeriod}
               /\ (ToSend(l)' + exits * Periods(e)) * PeriodTime < wire'[i]
    <3>1. wire'[i] \in {FirstMessage, activeSensePeriod}
      <4>1. CASE i = Len(wire) + 1
        BY <2>1, <4>1 DEF TypeOK
      <4>2. CASE i # Len(wire) + 1
        <5>1. i \in DOMAIN wire /\ wire'[i] = wire[i]
          BY <2>1, <2>5, <4>2 DEF TypeOK
        <5> QED  BY <1>4, <5>1
      <4> QED  BY <4>1, <4>2
    <3>2. FirstMessage = Longest /\ activeSensePeriod <= Longest /\ Longest \in Nat
          /\ activeSensePeriod \in Nat
      BY <1>1, <1>3, <1>5, SetupFacts DEF FirstMessage, Longest
    <3>3. ToSend(l)' + exits * Periods(e) \in Int
      <4>1. activeSense \div Mwt \in Nat
        BY <1>3, TimeFacts, Quotient
      <4>2. (activeSense \div Mwt) * Periods(l) \in Nat
        BY <1>3, <4>1, Products
      <4>3. ToSend(l)' = Periods(loop') + (activeSense \div Mwt) * Periods(l)
        BY <1>1, <1>3, <2>1 DEF ToSend
      <4> QED  BY <1>2, <1>3, <4>2, <4>3
    <3>4. (ToSend(l)' + exits * Periods(e)) * PeriodTime \in Int
      BY <3>3, TimeFacts
    <3> QED  BY <2>4, <3>1, <3>2, <3>4
  <2>6. ~removed' /\ (sensing' => Due(l, e)' * samplecount < count') /\ gui' # "setup"
        /\ Periods(loop') <= Periods(l) /\ activeSense' # 0
    BY <1>1, <1>2, <1>5, <2>3 DEF TypeOK
  <2>7. /\ FirstMessage' = FirstMessage /\ activeSensePeriod' = activeSensePeriod
        /\ exits' = exits
    BY <1>1
  <2> QED  BY <2>5, <2>6, <2>7, SensePrime, Zenon
<1>6. CASE activeSense > 0 /\ ~(asc - Mwt < 0)
  <2>1. asc' = asc - Mwt /\ wire' = wire /\ asc \in Nat /\ asc >= Mwt /\ asc - Mwt \in Nat
    BY <1>1, <1>3, <1>6, TimeFacts DEF EventMgr
  <2>2. /\ (asc - Mwt) \div Mwt = (asc \div Mwt) - 1 /\ asc \div Mwt \in Nat /\ asc \div Mwt >= 1
    <3>1. asc <= asc /\ Mwt \in Nat \ {0}
      BY <2>1, TimeFacts
    <3>2. /\ asc >= Mwt => (asc - Mwt) \div Mwt = (asc \div Mwt) - 1 /\ asc \div Mwt >= 1
      BY <2>1, <3>1, QuotientOrder
    <3>3. asc \div Mwt \in Nat
      BY <2>1, <3>1, Quotient
    <3> QED  BY <2>1, <3>2, <3>3
  <2>3. PICK n \in Nat : n = asc \div Mwt /\ n >= 1
    BY <2>2
  <2>4. n * Periods(l) \in Nat /\ (n - 1) * Periods(l) = n * Periods(l) - Periods(l)
    BY <1>3, <2>3, Products
  <2>5. ToSend(l) = Periods(0) + n * Periods(l) /\ ToSend(l)' = Periods(loop') + (n - 1) * Periods(l)
    BY <1>1, <2>1, <2>2, <2>3 DEF ToSend
  <2>6. ToSend(l)' <= ToSend(l) /\ ToSend(l)' \in Nat
    <3>1. n - 1 \in Nat /\ (n - 1) * Periods(l) \in Nat
      BY <1>3, <2>3, Products
    <3> QED  BY <1>2, <1>3, <2>4, <2>5, <3>1
  <2>7. Due(l, e)' <= Due(l, e) /\ Due(l, e)' \in Nat
    BY <1>1, <1>3, <2>1, <2>6 DEF Due
  <2>8. Due(l, e)' * samplecount <= Due(l, e) * samplecount
        /\ Due(l, e)' * samplecount \in Nat /\ Due(l, e) * samplecount \in Nat
    BY <1>3, <2>7, SampleCount, Products
  <2>9. /\ (ToSend(l)' + exits * Periods(e)) * PeriodTime <= (ToSend(l) + exits * Periods(e)) * PeriodTime
        /\ (ToSend(l)' + exits * Periods(e)) * PeriodTime \in Nat
        /\ (ToSend(l) + exits * Periods(e)) * PeriodTime \in Nat
    BY <1>3, <2>6, TimeFacts, Products
  <2>10. ASSUME NEW i \in DOMAIN wire
         PROVE  /\ wire[i] \in {FirstMessage, activeSensePeriod}
                /\ (ToSend(l)' + exits * Periods(e)) * PeriodTime < wire[i]
    <3>1. wire[i] \in Int
      BY <1>1, <1>4, <2>10, SetupFacts
    <3> QED  BY <1>4, <1>6, <2>9, <3>1
  <2>11. ~removed' /\ (sensing' => Due(l, e)' * samplecount < count') /\ gui' # "setup"
         /\ Periods(loop') <= Periods(l) /\ activeSense' # 0
    BY <1>1, <1>2, <1>6, <2>8 DEF TypeOK
  <2>12. /\ FirstMessage' = FirstMessage /\ activeSensePeriod' = activeSensePeriod
         /\ exits' = exits /\ wire' = wire
    BY <1>1, <2>1
  <2> QED  BY <2>10, <2>11, <2>12, SensePrime, Zenon
<1>7. CASE activeSense = 0
  <2>1. wire' = wire
    BY <1>7 DEF EventMgr
  <2>2. (sensing => wire # << >>) /\ wire \in {<< >>, <<0>>}
    BY <1>1, <1>7 DEF SenseInv
  <2>3. wire # << >> => Due(l, e)' = ToRead(e) + 0 /\ Due(l, e) = ToRead(e) + 0
    BY <1>1, <2>1 DEF Due
  <2>4. ~removed' /\ (sensing' => Due(l, e)' * samplecount < count') /\ gui' # "setup"
        /\ Periods(loop') <= Periods(l) /\ ~(activeSense' > 0) /\ (sensing' => wire' # << >>)
        /\ wire' \in {<< >>, <<0>>}
    BY <1>1, <1>2, <1>7, <2>1, <2>2, <2>3
  <2>5. \A i \in DOMAIN wire' : wire'[i] \in {FirstMessage', activeSensePeriod'}
    BY <1>1, <1>4, <2>1
  <2> QED  BY <2>4, <2>5, SensePrime, Zenon
<1> QED  BY <1>3, <1>5, <1>6, <1>7

\* A message that is read lasts until the next one.
LEMMA SenseReads ==
    ASSUME NEW l \in Nat, NEW e \in Nat, ShortTimes(l, e), TypeOK, SenseInv(l, e),
           bristolActiveSense
    PROVE  SenseInv(l, e)'
<1> SUFFICES ASSUME gui # "gone" PROVE SenseInv(l, e)'
  BY DEF bristolActiveSense, SenseInv
<1>1. /\ ~removed /\ busy = 0 /\ wire # << >> /\ wire' = Tail(wire)
      /\ count' = Samples(Head(wire)) /\ sensing' = (Samples(Head(wire)) # 0)
      /\ UNCHANGED <<setup, gui, asc, loop, busy, exits, removed>>
      /\ activeSense' = activeSense /\ activeSensePeriod' = activeSensePeriod
      /\ FirstMessage' = FirstMessage /\ setup \in Setups
      /\ ToSend(l)' = ToSend(l) /\ ToRead(e)' = ToRead(e)
      /\ gui = "running" /\ Periods(loop) <= Periods(l)
  BY DEF bristolActiveSense, SenseInv, TypeOK, activeSense, activeSensePeriod, FirstMessage,
         ToSend, ToRead
<1>2. /\ ToSend(l) \in Nat /\ exits * Periods(e) \in Nat /\ Periods(0) = 0 /\ activeSense \in Nat
  BY <1>1, Amounts, ExitsLeft, PeriodsProperties, SetupFacts
<1>3. \A i \in DOMAIN wire :
         /\ wire[i] \in {FirstMessage, activeSensePeriod}
         /\ activeSense > 0 => (ToSend(l) + exits * Periods(e)) * PeriodTime < wire[i]
  BY <1>1 DEF SenseInv
<1>4. /\ Head(wire) \in 0 .. Longest /\ Head(wire) = wire[1] /\ 1 \in DOMAIN wire
      /\ \A i \in DOMAIN wire' : i + 1 \in DOMAIN wire /\ wire'[i] = wire[i + 1]
  <2>1. wire \in Seq(0 .. Longest) /\ wire # << >>
    BY <1>1 DEF TypeOK
  <2> QED  BY <1>1, <2>1, HeadAndTail
<1>5. \A i \in DOMAIN wire' :
         /\ wire'[i] \in {FirstMessage', activeSensePeriod'}
         /\ activeSense' > 0 => (ToSend(l)' + exits' * Periods(e)) * PeriodTime < wire'[i]
  BY <1>1, <1>3, <1>4
<1>6. CASE activeSense > 0
  <2>1. PICK n \in Nat : n = ToSend(l) + exits * Periods(e)
    BY <1>2
  <2>2. n * PeriodTime < Head(wire)
    BY <1>3, <1>4, <1>6, <2>1
  <2>3. Samples(Head(wire)) \in Nat /\ n * samplecount < Samples(Head(wire))
    BY <1>4, <2>2, Lasts DEF ShortTimes
  <2>4. Due(l, e)' <= n /\ Due(l, e)' \in Nat
    <3>1. Due(l, e)' = exits * Periods(e) + IF wire' = << >> THEN ToSend(l) ELSE 0
      BY <1>1, <1>2 DEF Due, ToRead
    <3> QED  BY <1>2, <2>1, <3>1
  <2>5. Due(l, e)' * samplecount <= n * samplecount
        /\ Due(l, e)' * samplecount \in Nat /\ n * samplecount \in Nat
    BY <2>4, SampleCount, Products
  <2>6. Due(l, e)' * samplecount < count'
    BY <1>1, <2>3, <2>5
  <2>7. gui' # "setup" /\ ~removed' /\ Periods(loop') <= Periods(l) /\ activeSense' # 0
    BY <1>1, <1>6
  <2> QED  BY <1>5, <2>6, <2>7, SensePrime, Zenon
<1>7. CASE activeSense = 0
  <2>1. wire = <<0>>
    BY <1>1, <1>7 DEF SenseInv
  <2>2. wire' = << >> /\ Head(wire) = 0
    BY <1>1, <2>1
  <2>3. Samples(0) = 0
    BY TimeFacts DEF Samples, Wrapped
  <2>4. ~sensing'
    BY <1>1, <2>2, <2>3, Zenon
  <2>5. /\ gui' # "setup" /\ ~removed' /\ Periods(loop') <= Periods(l) /\ wire' \in {<< >>, <<0>>}
        /\ ~(activeSense' > 0)
    BY <1>1, <1>7, <2>2
  <2> QED  BY <1>5, <2>4, <2>5, SensePrime, Zenon
<1> QED  BY <1>2, <1>6, <1>7

\* The inductive step of SenseInv.
LEMMA SenseStep ==
    ASSUME NEW l \in Nat, NEW e \in Nat, ShortTimes(l, e)
    PROVE  TypeOK /\ SenseInv(l, e) /\ [Next]_vars => SenseInv(l, e)'
<1> SUFFICES ASSUME TypeOK, SenseInv(l, e), [Next]_vars PROVE SenseInv(l, e)'
  OBVIOUS
<1>0. TypeOK'
  BY TypeStep
<1>1. CASE Die
  BY <1>1, SensePrime DEF Die
<1>2. CASE UNCHANGED vars
  <2>1. /\ ToSend(l)' = ToSend(l) /\ Due(l, e)' = Due(l, e) /\ activeSense' = activeSense
        /\ activeSensePeriod' = activeSensePeriod /\ FirstMessage' = FirstMessage
    BY <1>2 DEF vars, ToSend, Due, ToRead, activeSense, activeSensePeriod, FirstMessage
  <2>2. UNCHANGED <<setup, gui, asc, loop, wire, sensing, count, busy, exits, removed>>
    BY <1>2 DEF vars
  <2> QED  BY <2>1, <2>2, SensePrime DEF SenseInv
<1> QED  BY <1>0, <1>1, <1>2, SensePeriod, SenseOpens, SenseExits, SenseIterates, SenseReads
         DEF Next

\* The emulator of a GUI that is there is not removed (bristolActiveSenseCheck),
\* for all arguments of the GUI, all rates and sizes of a period, if no iteration
\* of eventMgr and no exit of another GUI takes too long for them (InTime) and
\* the count of the longest message fits an int (activesense.c).
THEOREM LiveGuiKept ==
    ASSUME NEW l \in Nat, NEW e \in Nat,
           \A t \in LoopTimes : t <= l, \A t \in ExitTimes : t <= e,
           RateFits, \A s \in Setups : InTime(s, l, e)
    PROVE  Spec => []LiveKept
<1>1. ShortTimes(l, e)
  BY DEF ShortTimes
<1>2. Init => TypeOK /\ SenseInv(l, e)
  BY <1>1, TypeInit, SenseInit
<1>3. TypeOK /\ SenseInv(l, e) /\ [Next]_vars => (TypeOK /\ SenseInv(l, e))'
  BY <1>1, TypeStep, SenseStep
<1>4. TypeOK /\ SenseInv(l, e) => LiveKept
  BY DEF SenseInv, LiveKept
<1> QED  BY <1>2, <1>3, <1>4, PTL DEF Spec
=============================================================================
