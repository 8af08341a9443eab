-------------------------- MODULE GaugeLayoutProofs --------------------------
(***************************************************************************)
(* Proofs about the codec of GaugeLayoutConfigManager.  parseResponse is a *)
(* loop: what it computes is a recursive function of the number of turns,  *)
(* and the facts about it are proved by induction over that number, for    *)
(* layouts of every length.                                                *)
(***************************************************************************)
EXTENDS GaugeLayoutConfigManager, WellFoundedInduction, TLAPS

(* A set of natural numbers that is not empty has a least element. *)
LEMMA Least ==
    ASSUME NEW T, T \subseteq Nat, T # {}
    PROVE  \E n \in T : \A m \in T : n <= m
<1>. DEFINE R == OpToRel(<, Nat)
<1>1. IsWellFoundedOn(R, Nat)
  BY NatLessThanWellFounded, Zenon
<1>2. \A m, n \in Nat : <<m, n>> \in R <=> m < n
  BY DEF OpToRel
<1>. HIDE DEF R
<1>3. PICK n \in T : \A m \in T : ~ (<<m, n>> \in R)
  BY <1>1, WFMin
<1>4. n \in Nat /\ \A m \in T : m \in Nat /\ ~ (m < n)
  BY <1>2, <1>3
<1>5. \A m \in T : n <= m
  BY <1>4
<1>. QED BY <1>5

(* Induction, for the set of the numbers that have a property. *)
LEMMA Induction ==
    ASSUME NEW S, 0 \in S, \A n \in Nat : n \in S => n + 1 \in S
    PROVE  \A n \in Nat : n \in S
<1>. DEFINE T == Nat \ S
<1>1. SUFFICES ASSUME T # {} PROVE FALSE
  OBVIOUS
<1>2. PICK n \in T : \A m \in T : n <= m
  BY <1>1, Least
<1>3. n # 0 /\ n \in Nat /\ n - 1 \in Nat /\ n - 1 + 1 = n
  BY <1>2
<1>4. n - 1 \in S
  BY <1>2, <1>3
<1>. QED BY <1>2, <1>3, <1>4

-----------------------------------------------------------------------------
(* The first m + 1 values of a sequence that starts with a and goes on     *)
(* from one value to the next by step.                                     *)
Approximations(S, a, step, m) ==
    {g \in [0 .. m -> S] : g[0] = a /\ \A n \in 0 .. m - 1 : g[n + 1] = step[g[n]]}

(* There are such values for every m, *)
LEMMA ApproximationsExist ==
    ASSUME NEW S, NEW a \in S, NEW step \in [S -> S]
    PROVE  \A m \in Nat : Approximations(S, a, step, m) # {}
<1>. DEFINE M == {m \in Nat : Approximations(S, a, step, m) # {}}
<1>1. 0 \in M
  <2>. DEFINE g == [n \in 0 .. 0 |-> a]
  <2>1. g \in [0 .. 0 -> S] /\ g[0] = a /\ 0 .. 0 - 1 = {}
    OBVIOUS
  <2>. HIDE DEF g
  <2>2. g \in Approximations(S, a, step, 0)
    BY <2>1 DEF Approximations
  <2>. QED BY <2>2
<1>2. ASSUME NEW m \in Nat, m \in M PROVE m + 1 \in M
  <2>1. PICK g : g \in Approximations(S, a, step, m)
    BY <1>2
  <2>2. g \in [0 .. m -> S] /\ g[0] = a /\ \A n \in 0 .. m - 1 : g[n + 1] = step[g[n]]
    BY <2>1 DEF Approximations
  <2>. DEFINE h == [n \in 0 .. m + 1 |-> IF n <= m THEN g[n] ELSE step[g[m]]]
  <2>3. g[m] \in S /\ \A n \in 0 .. m : g[n] \in S
    BY <2>2
  <2>4. h \in [0 .. m + 1 -> S]
    BY <2>3
  <2>5. h[m + 1] = step[g[m]] /\ \A n \in 0 .. m : h[n] = g[n]
    OBVIOUS
  <2>. HIDE DEF h
  <2>6. h[0] = a
    BY <2>2, <2>5
  <2>7. ASSUME NEW n \in 0 .. (m + 1) - 1 PROVE h[n + 1] = step[h[n]]
    <3>1. CASE n = m
      BY <3>1, <2>5
    <3>2. CASE n # m
      <4>1. n \in 0 .. m - 1 /\ n + 1 \in 0 .. m /\ n \in 0 .. m
        BY <3>2
      <4>. QED BY <4>1, <2>2, <2>5
    <3>. QED BY <3>1, <3>2
  <2>8. h \in Approximations(S, a, step, m + 1)
    BY <2>4, <2>6, <2>7 DEF Approximations
  <2>. QED BY <2>8
<1>. HIDE DEF M
<1>3. \A m \in Nat : m \in M
  BY <1>1, <1>2, Induction
<1>. QED BY <1>3 DEF M

(* and two of them agree as far as both go. *)
LEMMA ApproximationsAgree ==
    ASSUME NEW S, NEW a \in S, NEW step \in [S -> S],
           NEW m \in Nat, NEW k \in Nat,
           NEW g \in Approximations(S, a, step, m), NEW h \in Approximations(S, a, step, k)
    PROVE  \A n \in Nat : n <= m /\ n <= k => g[n] = h[n]
<1>. DEFINE N == {n \in Nat : n <= m /\ n <= k => g[n] = h[n]}
<1>1. /\ g[0] = a /\ \A n \in 0 .. m - 1 : g[n + 1] = step[g[n]]
      /\ h[0] = a /\ \A n \in 0 .. k - 1 : h[n + 1] = step[h[n]]
  BY DEF Approximations
<1>2. 0 \in N
  BY <1>1
<1>3. ASSUME NEW n \in Nat, n \in N PROVE n + 1 \in N
  <2>1. SUFFICES ASSUME n + 1 <= m, n + 1 <= k PROVE g[n + 1] = h[n + 1]
    OBVIOUS
  <2>2. n \in 0 .. m - 1 /\ n \in 0 .. k - 1 /\ n <= m /\ n <= k
    BY <2>1
  <2>3. g[n] = h[n]
    BY <1>3, <2>2
  <2>. QED BY <1>1, <2>2, <2>3
<1>. HIDE DEF N
<1>4. \A n \in Nat : n \in N
  BY <1>2, <1>3, Induction
<1>. QED BY <1>4 DEF N

(* So a value can be repeated by a step any number of times: the recursive *)
(* definition of the n-th value has a solution.                            *)
LEMMA Iteration ==
    ASSUME NEW S, NEW a \in S, NEW step \in [S -> S]
    PROVE  \E f \in [Nat -> S] : f[0] = a /\ \A n \in Nat : f[n + 1] = step[f[n]]
<1>. DEFINE G(m) == Approximations(S, a, step, m)
            g == [m \in Nat |-> CHOOSE h \in G(m) : TRUE]
            f == [n \in Nat |-> g[n][n]]
<1>1. \A m \in Nat : g[m] \in G(m)
  BY ApproximationsExist
<1>2. ASSUME NEW m \in Nat
      PROVE  /\ g[m] \in [0 .. m -> S] /\ g[m][0] = a
             /\ \A n \in 0 .. m - 1 : g[m][n + 1] = step[g[m][n]]
  BY <1>1 DEF Approximations
<1>3. ASSUME NEW m \in Nat PROVE g[m + 1][m] = g[m][m]
  <2>1. g[m] \in G(m) /\ g[m + 1] \in G(m + 1) /\ m + 1 \in Nat
    BY <1>1
  <2>. HIDE DEF g
  <2>2. \A n \in Nat : n <= m + 1 /\ n <= m => g[m + 1][n] = g[m][n]
    BY <2>1, ApproximationsAgree
  <2>. QED BY <2>2
<1>. HIDE DEF g, G
<1>4. ASSUME NEW n \in Nat PROVE f[n] \in S /\ f[n + 1] = step[f[n]]
  <2>1. n \in 0 .. n /\ g[n] \in [0 .. n -> S] /\ n + 1 \in Nat /\ n \in 0 .. (n + 1) - 1
    BY <1>2
  <2>2. f[n] = g[n][n] /\ f[n + 1] = g[n + 1][n + 1]
    BY <2>1
  <2>3. g[n + 1][n + 1] = step[g[n + 1][n]]
    BY <1>2, <2>1
  <2>. QED BY <1>3, <2>1, <2>2, <2>3
<1>5. f[0] = a
  BY <1>2
<1>6. f \in [Nat -> S]
  BY <1>4
<1>. QED BY <1>4, <1>5, <1>6

-----------------------------------------------------------------------------
(* The values of the loop's variables. *)
LoopStates == [byteIndex : Nat, separatorCounter : Nat, isInMonitorSection : BOOLEAN,
               gauges : Seq(Items), monitors : Seq(Items)]

(* What appending does, and the first elements of a list. *)
LEMMA AppendFacts ==
    ASSUME NEW S, NEW list \in Seq(S), NEW e \in S
    PROVE  Append(list, e) \in Seq(S)
  OBVIOUS

LEMMA EmptyList ==
    ASSUME NEW S
    PROVE  << >> \in Seq(S)
  OBVIOUS

(* Whatever the bytes, a turn of the loop leaves only items in the lists. *)
LEMMA TurnType ==
    ASSUME NEW data, NEW s \in LoopStates
    PROVE  Turn(data, s) \in LoopStates
<1>. DEFINE value == data[s.byteIndex]
            counter == IF s.isInMonitorSection THEN s.separatorCounter
                       ELSE IF value = separatorValue THEN s.separatorCounter + 1 ELSE 0
            inMonitors == s.isInMonitorSection \/ counter = separatorCount
            isGauge == value # separatorValue /\ ~inMonitors
            width == IF isGauge THEN gaugeWidth ELSE 1
            With(list) == IF IsItem(value) THEN Append(list, value) ELSE list
            gs == IF isGauge THEN With(s.gauges) ELSE s.gauges
            ms == IF inMonitors THEN With(s.monitors) ELSE s.monitors
<1>1. /\ s.byteIndex \in Nat /\ s.separatorCounter \in Nat /\ s.isInMonitorSection \in BOOLEAN
      /\ s.gauges \in Seq(Items) /\ s.monitors \in Seq(Items)
  BY DEF LoopStates
<1>2. \A list \in Seq(Items) : With(list) \in Seq(Items)
  <2>1. TAKE list \in Seq(Items)
  <2>2. CASE IsItem(value)
    <3>1. value \in Items
      BY <2>2 DEF IsItem
    <3>2. Append(list, value) \in Seq(Items)
      BY <3>1, AppendFacts
    <3>. QED BY <2>2, <3>2
  <2>3. CASE ~IsItem(value)
    BY <2>3
  <2>. QED BY <2>2, <2>3
<1>3. counter \in Nat /\ inMonitors \in BOOLEAN
  BY <1>1
<1>4. width \in Nat
  BY DEF gaugeWidth
<1>5. Turn(data, s) = [byteIndex |-> s.byteIndex + width, separatorCounter |-> counter,
                       isInMonitorSection |-> inMonitors, gauges |-> gs, monitors |-> ms]
  BY Zenon DEF Turn
<1>. HIDE DEF value, counter, inMonitors, isGauge, width, With
<1>6. s.byteIndex + width \in Nat
  BY <1>1, <1>4
<1>7. gs \in Seq(Items) /\ ms \in Seq(Items)
  BY <1>1, <1>2
<1>. HIDE DEF gs, ms
<1>. QED BY <1>3, <1>5, <1>6, <1>7 DEF LoopStates

(* The loop's variables after each turn: the equation of Turns. *)
LEMMA TurnsEquation ==
    ASSUME NEW data
    PROVE  /\ Turns(data) \in [Nat -> LoopStates]
           /\ Turns(data)[0] = LoopStart
           /\ \A n \in Nat : Turns(data)[n + 1] =
                 (LET s == Turns(data)[n]
                  IN  IF s.byteIndex <= Len(data) THEN Turn(data, s) ELSE s)
<1>. DEFINE NextTurn(s) == IF s.byteIndex <= Len(data) THEN Turn(data, s) ELSE s
            step == [s \in LoopStates |-> NextTurn(s)]
            IsSolution(f) == f = [n \in Nat |-> IF n = 0 THEN LoopStart ELSE NextTurn(f[n - 1])]
<1>1. LoopStart \in LoopStates
  BY EmptyList DEF LoopStart, LoopStates
<1>2. \A s \in LoopStates : NextTurn(s) \in LoopStates
  BY TurnType
<1>3. Turns(data) = CHOOSE f : IsSolution(f)
  BY Zenon DEF Turns
<1>. HIDE DEF NextTurn
<1>4. step \in [LoopStates -> LoopStates]
  BY <1>2
<1>5. \A s \in LoopStates : step[s] = NextTurn(s)
  OBVIOUS
<1>. HIDE DEF step
<1>6. PICK f \in [Nat -> LoopStates] :
         f[0] = LoopStart /\ \A n \in Nat : f[n + 1] = step[f[n]]
  BY <1>1, <1>4, Iteration
<1>7. ASSUME NEW n \in Nat
      PROVE  f[n] = IF n = 0 THEN LoopStart ELSE NextTurn(f[n - 1])
  <2>1. CASE n = 0
    BY <1>6, <2>1
  <2>2. CASE n # 0
    <3>1. n - 1 \in Nat /\ n - 1 + 1 = n
      BY <2>2
    <3>2. f[n] = step[f[n - 1]] /\ f[n - 1] \in LoopStates
      BY <1>6, <3>1
    <3>. QED BY <1>5, <2>2, <3>2
  <2>. QED BY <2>1, <2>2
<1>8. IsSolution(f)
  BY <1>7
<1>9. IsSolution(Turns(data))
  BY <1>3, <1>8, Zenon
<1>. DEFINE t == Turns(data)
<1>10. \A n \in Nat : t[n] = IF n = 0 THEN LoopStart ELSE NextTurn(t[n - 1])
  BY <1>9
<1>11. DOMAIN t = Nat /\ t = [n \in Nat |-> t[n]]
  BY <1>9
<1>. HIDE DEF t, IsSolution
<1>12. t[0] = LoopStart
  BY <1>10
<1>13. \A n \in Nat : t[n + 1] = NextTurn(t[n])
  <2>1. TAKE n \in Nat
  <2>2. n + 1 \in Nat /\ n + 1 # 0 /\ n + 1 - 1 = n
    OBVIOUS
  <2>. QED BY <1>10, <2>2
<1>. DEFINE N == {n \in Nat : t[n] \in LoopStates}
<1>14. 0 \in N
  BY <1>1, <1>12
<1>15. \A n \in Nat : n \in N => n + 1 \in N
  BY <1>2, <1>13
<1>. HIDE DEF N
<1>16. \A n \in Nat : n \in N
  BY <1>14, <1>15, Induction
<1>17. t \in [Nat -> LoopStates]
  BY <1>11, <1>16 DEF N
<1>. QED BY <1>12, <1>13, <1>17 DEF t, NextTurn

(* A turn takes a byte or more. *)
LEMMA TurnAdvances ==
    ASSUME NEW data, NEW s \in LoopStates
    PROVE  Turn(data, s).byteIndex >= s.byteIndex + 1
<1>1. s.byteIndex \in Nat
  BY DEF LoopStates
<1>2. Turn(data, s).byteIndex = s.byteIndex + 3 \/ Turn(data, s).byteIndex = s.byteIndex + 1
  BY Zenon DEF Turn, gaugeWidth
<1>. QED BY <1>1, <1>2

(* The loop of parseResponse ends, whatever the bytes: after as many turns *)
(* as there are bytes its index is beyond them, so Parse takes the lists   *)
(* of the end of the loop and not those of some turn before it.            *)
THEOREM LoopEnds ==
    ASSUME NEW data, Len(data) \in Nat
    PROVE  Turns(data)[Len(data)].byteIndex > Len(data)
<1>. DEFINE t == Turns(data)
            size == Len(data)
            N == {n \in Nat : t[n].byteIndex > size \/ t[n].byteIndex >= n + 3}
<1>1. /\ size \in Nat /\ t \in [Nat -> LoopStates] /\ t[0] = LoopStart
      /\ \A n \in Nat : t[n].byteIndex <= size => t[n + 1] = Turn(data, t[n])
      /\ \A n \in Nat : ~ (t[n].byteIndex <= size) => t[n + 1] = t[n]
  BY TurnsEquation, Zenon
<1>2. \A n \in Nat : t[n] \in LoopStates /\ t[n].byteIndex \in Nat
  BY <1>1 DEF LoopStates
<1>. HIDE DEF t, size
<1>3. 0 \in N
  BY <1>1 DEF LoopStart
<1>4. ASSUME NEW n \in Nat, n \in N PROVE n + 1 \in N
  <2>1. CASE t[n].byteIndex <= size
    <3>1. t[n + 1].byteIndex >= t[n].byteIndex + 1
      BY <1>1, <1>2, <2>1, TurnAdvances
    <3>2. t[n].byteIndex >= n + 3 /\ t[n].byteIndex \in Nat /\ n + 1 \in Nat
          /\ t[n + 1].byteIndex \in Nat
      BY <1>1, <1>2, <1>4, <2>1
    <3>. QED BY <3>1, <3>2
  <2>2. CASE ~ (t[n].byteIndex <= size)
    BY <1>1, <1>2, <2>2
  <2>. QED BY <2>1, <2>2
<1>. HIDE DEF N
<1>5. \A n \in Nat : n \in N
  BY <1>3, <1>4, Induction
<1>6. t[size].byteIndex > size \/ t[size].byteIndex >= size + 3
  BY <1>1, <1>5 DEF N
<1>7. t[size].byteIndex > size
  BY <1>1, <1>2, <1>6
<1>. QED BY <1>7 DEF t, size

-----------------------------------------------------------------------------
(* The first n elements of a list, for n from none to all of them. *)
LEMMA PrefixFacts ==
    ASSUME NEW S, NEW list \in Seq(S)
    PROVE  /\ SubSeq(list, 1, 0) = << >>
           /\ SubSeq(list, 1, Len(list)) = list
           /\ \A n \in 0 .. Len(list) - 1 :
                 /\ list[n + 1] \in S
                 /\ Append(SubSeq(list, 1, n), list[n + 1]) = SubSeq(list, 1, n + 1)
<1>1. SubSeq(list, 1, 0) = << >>
  OBVIOUS
<1>2. SubSeq(list, 1, Len(list)) = list
  OBVIOUS
<1>3. ASSUME NEW n \in 0 .. Len(list) - 1
      PROVE  /\ list[n + 1] \in S
             /\ Append(SubSeq(list, 1, n), list[n + 1]) = SubSeq(list, 1, n + 1)
  OBVIOUS
<1>. QED BY <1>1, <1>2, <1>3

LEMMA SequenceOfFunction ==
    ASSUME NEW S, NEW m \in Nat, NEW f \in [1 .. m -> S]
    PROVE  f \in Seq(S) /\ Len(f) = m
  OBVIOUS

LEMMA ConcatFacts ==
    ASSUME NEW S, NEW s \in Seq(S), NEW t \in Seq(S), NEW st, st = s \o t
    PROVE  /\ st \in Seq(S) /\ Len(st) = Len(s) + Len(t)
           /\ \A i \in 1 .. Len(s) : st[i] = s[i]
           /\ \A i \in 1 .. Len(t) : st[Len(s) + i] = t[i]
  OBVIOUS

(* The bytes of the gauges: the items are at every third place. *)
LEMMA GaugeBytesFacts ==
    ASSUME NEW B, Items \subseteq B,
           NEW gs \in Seq(Items), NEW settings \in B \X B
    PROVE  /\ GaugeBytes(gs, settings) \in Seq(B)
           /\ Len(GaugeBytes(gs, settings)) = 3 * Len(gs)
<1>. DEFINE k == Len(gs)
            At(i) == CASE i % 3 = 1 -> gs[(i + 2) \div 3]
                       [] i % 3 = 2 -> settings[1]
                       [] i % 3 = 0 -> settings[2]
            bytes == [i \in 1 .. 3 * k |-> At(i)]
<1>1. k \in Nat /\ \A j \in 1 .. k : gs[j] \in B
  <2>1. k \in Nat /\ \A j \in 1 .. k : gs[j] \in Items
    OBVIOUS
  <2>. QED BY <2>1
<1>2. settings[1] \in B /\ settings[2] \in B
  OBVIOUS
<1>3. GaugeBytes(gs, settings) = bytes
  BY Zenon DEF GaugeBytes
<1>. HIDE DEF k
<1>4. ASSUME NEW i \in 1 .. 3 * k PROVE At(i) \in B
  <2>1. i % 3 = 0 \/ i % 3 = 1 \/ i % 3 = 2
    BY <1>1
  <2>2. CASE i % 3 = 1
    <3>1. (i + 2) \div 3 \in 1 .. k
      BY <1>1, <2>2
    <3>2. At(i) = gs[(i + 2) \div 3]
      BY <2>2
    <3>. QED BY <1>1, <3>1, <3>2
  <2>3. CASE i % 3 = 2
    BY <1>2, <2>3
  <2>4. CASE i % 3 = 0
    BY <1>2, <2>4
  <2>. QED BY <2>1, <2>2, <2>3, <2>4
<1>. HIDE DEF At
<1>5. 3 * k \in Nat
  BY <1>1
<1>6. bytes \in Seq(B) /\ Len(bytes) = 3 * k
  <2>1. bytes \in [1 .. 3 * k -> B]
    BY <1>4
  <2>. HIDE DEF bytes
  <2>. QED BY <1>5, <2>1, SequenceOfFunction
<1>. HIDE DEF bytes
<1>. QED BY <1>3, <1>6, Zenon DEF k

LEMMA GaugeBytesAt ==
    ASSUME NEW gs \in Seq(Items), NEW settings, NEW n \in 0 .. Len(gs) - 1
    PROVE  GaugeBytes(gs, settings)[3 * n + 1] = gs[n + 1]
<1>1. /\ 3 * n + 1 \in 1 .. 3 * Len(gs)
      /\ (3 * n + 1) % 3 = 1 /\ ((3 * n + 1) + 2) \div 3 = n + 1
  OBVIOUS
<1>. QED BY <1>1 DEF GaugeBytes

(* Where constructData puts what: two bytes of a command, the gauges, the  *)
(* separators and the monitors.                                            *)
LEMMA EncodeFacts ==
    ASSUME NEW gs \in Seq(Items), NEW ms \in Seq(Items),
           NEW settings \in (0 .. 255) \X (0 .. 255)
    PROVE  LET data == Encode(gs, ms, settings)
               k == 3 * Len(gs)
           IN  /\ data \in Seq(0 .. 255) /\ Len(data) = k + 5 + Len(ms)
               /\ \A n \in 0 .. Len(gs) - 1 : data[3 * n + 3] = gs[n + 1]
               /\ data[k + 3] = separatorValue /\ data[k + 4] = separatorValue
               /\ data[k + 5] = separatorValue
               /\ \A j \in 0 .. Len(ms) - 1 : data[k + 6 + j] = ms[j + 1]
<1>. DEFINE B == 0 .. 255
<1>1. /\ Items \union {0, setGaugeConfigStartingByte, separatorValue} \subseteq B
      /\ settings \in B \X B
  BY ItemsAssumption DEF setGaugeConfigStartingByte, separatorValue
<1>. HIDE DEF B
<1>. DEFINE command == <<setGaugeConfigStartingByte, 0>>
            bytes == GaugeBytes(gs, settings)
            separators == [i \in 1 .. separatorCount |-> separatorValue]
            k == 3 * Len(gs)
            data == Encode(gs, ms, settings)
<1>2. command \in Seq(B) /\ Len(command) = 2
  BY <1>1
<1>3. /\ bytes \in Seq(B) /\ Len(bytes) = k
      /\ \A n \in 0 .. Len(gs) - 1 : bytes[3 * n + 1] = gs[n + 1]
  <2>1. Items \subseteq B
    BY <1>1
  <2>2. bytes \in Seq(B) /\ Len(bytes) = k
    BY <1>1, <2>1, GaugeBytesFacts
  <2>3. ASSUME NEW n \in 0 .. Len(gs) - 1 PROVE bytes[3 * n + 1] = gs[n + 1]
    BY GaugeBytesAt
  <2>. QED BY <2>2, <2>3, Zenon
<1>4. /\ separators \in Seq(B) /\ Len(separators) = 3
      /\ \A i \in 1 .. 3 : separators[i] = separatorValue
  BY <1>1 DEF separatorCount
<1>5. ms \in Seq(B) /\ Len(ms) \in Nat /\ Len(gs) \in Nat
  BY <1>1
<1>. DEFINE front == command \o bytes
            head == front \o separators
<1>6. data = head \o ms /\ head = front \o separators /\ front = command \o bytes
  BY Zenon DEF Encode
<1>. HIDE DEF command, bytes, separators, data, head, front
<1>7. /\ front \in Seq(B) /\ Len(front) = k + 2
      /\ \A i \in 1 .. k : front[i + 2] = bytes[i]
  <2>0. command \in Seq(B) /\ bytes \in Seq(B) /\ front = command \o bytes
    BY <1>2, <1>3, <1>6
  <2>1. /\ front \in Seq(B) /\ Len(front) = Len(command) + Len(bytes)
        /\ \A i \in 1 .. Len(bytes) : front[Len(command) + i] = bytes[i]
    BY ONLY <2>0, ConcatFacts
  <2>. QED BY <1>2, <1>3, <1>5, <2>1
<1>8. /\ head \in Seq(B) /\ Len(head) = k + 5
      /\ \A i \in 1 .. k + 2 : head[i] = front[i]
      /\ \A i \in 1 .. 3 : head[k + 2 + i] = separatorValue
  <2>0. front \in Seq(B) /\ separators \in Seq(B) /\ head = front \o separators
    BY <1>4, <1>6, <1>7
  <2>1. /\ head \in Seq(B) /\ Len(head) = Len(front) + Len(separators)
        /\ \A i \in 1 .. Len(front) : head[i] = front[i]
        /\ \A i \in 1 .. Len(separators) : head[Len(front) + i] = separators[i]
    BY ONLY <2>0, ConcatFacts
  <2>. QED BY <1>4, <1>5, <1>7, <2>1
<1>9. /\ data \in Seq(B) /\ Len(data) = k + 5 + Len(ms)
      /\ \A i \in 1 .. k + 5 : data[i] = head[i]
      /\ \A i \in 1 .. Len(ms) : data[k + 5 + i] = ms[i]
  <2>0. head \in Seq(B) /\ ms \in Seq(B) /\ data = head \o ms
    BY <1>5, <1>6, <1>8
  <2>1. /\ data \in Seq(B) /\ Len(data) = Len(head) + Len(ms)
        /\ \A i \in 1 .. Len(head) : data[i] = head[i]
        /\ \A i \in 1 .. Len(ms) : data[Len(head) + i] = ms[i]
    BY ONLY <2>0, ConcatFacts
  <2>. QED BY <1>5, <1>8, <2>1
<1>10. ASSUME NEW n \in 0 .. Len(gs) - 1 PROVE data[3 * n + 3] = gs[n + 1]
  <2>1. 3 * n + 3 \in 1 .. k + 5 /\ 3 * n + 3 \in 1 .. k + 2
        /\ 3 * n + 1 \in 1 .. k /\ 3 * n + 3 = (3 * n + 1) + 2
    BY <1>5
  <2>. HIDE DEF k
  <2>2. data[3 * n + 3] = front[(3 * n + 1) + 2]
    BY <1>8, <1>9, <2>1
  <2>3. front[(3 * n + 1) + 2] = bytes[3 * n + 1]
    BY <1>7, <2>1
  <2>. QED BY <1>3, <2>2, <2>3
<1>11. k \in Nat
  BY <1>5
<1>. HIDE DEF k
<1>12. data[k + 3] = separatorValue /\ data[k + 4] = separatorValue /\ data[k + 5] = separatorValue
  <2>1. head[k + 2 + 1] = separatorValue /\ head[k + 2 + 2] = separatorValue
        /\ head[k + 2 + 3] = separatorValue
    BY <1>8
  <2>2. k + 2 + 1 = k + 3 /\ k + 2 + 2 = k + 4 /\ k + 2 + 3 = k + 5
        /\ k + 3 \in 1 .. k + 5 /\ k + 4 \in 1 .. k + 5 /\ k + 5 \in 1 .. k + 5
    BY <1>11
  <2>. QED BY <1>9, <2>1, <2>2
<1>13. ASSUME NEW j \in 0 .. Len(ms) - 1 PROVE data[k + 6 + j] = ms[j + 1]
  <2>1. j + 1 \in 1 .. Len(ms) /\ k + 5 + (j + 1) = k + 6 + j
    BY <1>5, <1>11
  <2>2. data[k + 5 + (j + 1)] = ms[j + 1]
    BY <1>9, <2>1
  <2>. QED BY <2>1, <2>2
<1>. QED BY <1>9, <1>10, <1>12, <1>13 DEF data, k, B

-----------------------------------------------------------------------------
(* A turn of the loop on a gauge, on a separator and on a monitor. *)
LEMMA TurnOnGauge ==
    ASSUME NEW data, NEW s, ~s.isInMonitorSection, data[s.byteIndex] \in Items
    PROVE  Turn(data, s) = [byteIndex |-> s.byteIndex + 3, separatorCounter |-> 0,
                            isInMonitorSection |-> FALSE,
                            gauges |-> Append(s.gauges, data[s.byteIndex]),
                            monitors |-> s.monitors]
<1>1. data[s.byteIndex] # separatorValue /\ 0 # separatorCount /\ IsItem(data[s.byteIndex])
  BY ItemsAssumption DEF separatorValue, separatorCount, IsItem
<1>. QED BY <1>1, Zenon DEF Turn, gaugeWidth

LEMMA TurnOnSeparator ==
    ASSUME NEW data, NEW s, ~s.isInMonitorSection, data[s.byteIndex] = separatorValue,
           s.separatorCounter \in 0 .. 2
    PROVE  Turn(data, s) = [byteIndex |-> s.byteIndex + 1,
                            separatorCounter |-> s.separatorCounter + 1,
                            isInMonitorSection |-> (s.separatorCounter = 2),
                            gauges |-> s.gauges, monitors |-> s.monitors]
<1>1. ~IsItem(data[s.byteIndex])
  BY ItemsAssumption DEF separatorValue, IsItem
<1>2. (s.separatorCounter + 1 = separatorCount) = (s.separatorCounter = 2)
  BY DEF separatorCount
<1>. QED BY <1>1, <1>2 DEF Turn

LEMMA TurnOnMonitor ==
    ASSUME NEW data, NEW s, s.isInMonitorSection = TRUE, data[s.byteIndex] \in Items
    PROVE  Turn(data, s) = [byteIndex |-> s.byteIndex + 1,
                            separatorCounter |-> s.separatorCounter,
                            isInMonitorSection |-> TRUE,
                            gauges |-> s.gauges,
                            monitors |-> Append(s.monitors, data[s.byteIndex])]
<1>1. data[s.byteIndex] # separatorValue /\ IsItem(data[s.byteIndex])
  BY ItemsAssumption DEF separatorValue, IsItem
<1>. QED BY <1>1, Zenon DEF Turn

(* The loop's variables on the bytes of a layout: once n gauges are read,  *)
(* once n separators are read and once n monitors are read.                *)
AfterGauges(gs, n) ==
    [byteIndex |-> 3 * n + 3, separatorCounter |-> 0, isInMonitorSection |-> FALSE,
     gauges |-> SubSeq(gs, 1, n), monitors |-> << >>]

AfterSeparators(gs, n) ==
    [byteIndex |-> 3 * Len(gs) + 3 + n, separatorCounter |-> n, isInMonitorSection |-> (n = 3),
     gauges |-> gs, monitors |-> << >>]

AfterMonitors(gs, ms, n) ==
    [byteIndex |-> 3 * Len(gs) + 6 + n, separatorCounter |-> 3, isInMonitorSection |-> TRUE,
     gauges |-> gs, monitors |-> SubSeq(ms, 1, n)]

(* What parseResponse reads from the bytes constructData writes are the    *)
(* lists constructData was given, for lists of every length and for every  *)
(* value of the graph settings.                                            *)
THEOREM RoundTrip ==
    ASSUME NEW gs \in Seq(Items), NEW ms \in Seq(Items),
           NEW settings \in (0 .. 255) \X (0 .. 255)
    PROVE  /\ Len(Encode(gs, ms, settings)) > 2
           /\ Parse(Encode(gs, ms, settings)) = [gauges |-> gs, monitors |-> ms]
<1>. DEFINE data == Encode(gs, ms, settings)
            k == Len(gs)
            l == Len(ms)
            t == Turns(data)
            size == 3 * k + 5 + l
<1>1. k \in Nat /\ l \in Nat
  OBVIOUS
<1>2. /\ Len(data) = size
      /\ \A n \in 0 .. k - 1 : data[3 * n + 3] = gs[n + 1]
      /\ data[3 * k + 3] = separatorValue /\ data[3 * k + 4] = separatorValue
      /\ data[3 * k + 5] = separatorValue
      /\ \A j \in 0 .. l - 1 : data[3 * k + 6 + j] = ms[j + 1]
  <2>2. Len(data) = size
    BY EncodeFacts
  <2>3. ASSUME NEW n \in 0 .. k - 1 PROVE data[3 * n + 3] = gs[n + 1]
    BY EncodeFacts
  <2>4. /\ data[3 * k + 3] = separatorValue /\ data[3 * k + 4] = separatorValue
        /\ data[3 * k + 5] = separatorValue
    BY EncodeFacts
  <2>5. ASSUME NEW j \in 0 .. l - 1 PROVE data[3 * k + 6 + j] = ms[j + 1]
    BY EncodeFacts
  <2>. QED BY <2>2, <2>3, <2>4, <2>5, Zenon
<1>3. /\ t \in [Nat -> LoopStates] /\ t[0] = LoopStart
      /\ \A n \in Nat : t[n].byteIndex <= size => t[n + 1] = Turn(data, t[n])
      /\ \A n \in Nat : ~ (t[n].byteIndex <= size) => t[n + 1] = t[n]
  BY <1>2, TurnsEquation, Zenon
<1>4. /\ SubSeq(gs, 1, 0) = << >> /\ SubSeq(gs, 1, k) = gs
      /\ \A n \in 0 .. k - 1 : /\ gs[n + 1] \in Items
                              /\ Append(SubSeq(gs, 1, n), gs[n + 1]) = SubSeq(gs, 1, n + 1)
  <2>1. SubSeq(gs, 1, 0) = << >>
    BY PrefixFacts
  <2>2. SubSeq(gs, 1, k) = gs
    BY PrefixFacts
  <2>3. ASSUME NEW n \in 0 .. k - 1
        PROVE  gs[n + 1] \in Items /\ Append(SubSeq(gs, 1, n), gs[n + 1]) = SubSeq(gs, 1, n + 1)
    BY PrefixFacts
  <2>. QED BY <2>1, <2>2, <2>3, Zenon
<1>5. /\ SubSeq(ms, 1, 0) = << >> /\ SubSeq(ms, 1, l) = ms
      /\ \A n \in 0 .. l - 1 : /\ ms[n + 1] \in Items
                              /\ Append(SubSeq(ms, 1, n), ms[n + 1]) = SubSeq(ms, 1, n + 1)
  <2>1. SubSeq(ms, 1, 0) = << >>
    BY PrefixFacts
  <2>2. SubSeq(ms, 1, l) = ms
    BY PrefixFacts
  <2>3. ASSUME NEW n \in 0 .. l - 1
        PROVE  ms[n + 1] \in Items /\ Append(SubSeq(ms, 1, n), ms[n + 1]) = SubSeq(ms, 1, n + 1)
    BY PrefixFacts
  <2>. QED BY <2>1, <2>2, <2>3, Zenon
<1>. HIDE DEF data, t
<1>6. \A n \in Nat : n <= k => t[n] = AfterGauges(gs, n)
  <2>. DEFINE N == {n \in Nat : n <= k => t[n] = AfterGauges(gs, n)}
  <2>1. 0 \in N
    <3>1. 3 * 0 + 3 = 3
      OBVIOUS
    <3>2. t[0] = AfterGauges(gs, 0)
      BY <1>3, <1>4, <3>1, Zenon DEF LoopStart, AfterGauges
    <3>. QED BY <3>2
  <2>2. ASSUME NEW n \in Nat, n \in N PROVE n + 1 \in N
    <3>1. SUFFICES ASSUME n + 1 <= k PROVE t[n + 1] = AfterGauges(gs, n + 1)
      OBVIOUS
    <3>2. /\ n <= k /\ n \in 0 .. k - 1 /\ 3 * n + 3 \in Nat /\ 3 * n + 3 <= size
          /\ 3 * n + 3 + 3 = 3 * (n + 1) + 3
      BY <1>1, <3>1
    <3>3. t[n] = AfterGauges(gs, n) /\ AfterGauges(gs, n).byteIndex = 3 * n + 3
      BY <2>2, <3>2 DEF AfterGauges
    <3>4. data[3 * n + 3] = gs[n + 1] /\ gs[n + 1] \in Items
      BY <1>2, <1>4, <3>2
    <3>5. t[n + 1] = Turn(data, AfterGauges(gs, n))
      BY <1>3, <3>2, <3>3
    <3>6. Turn(data, AfterGauges(gs, n))
            = [byteIndex |-> 3 * n + 3 + 3, separatorCounter |-> 0, isInMonitorSection |-> FALSE,
               gauges |-> Append(SubSeq(gs, 1, n), data[3 * n + 3]), monitors |-> << >>]
      <4>. DEFINE s == AfterGauges(gs, n)
      <4>1. /\ s.byteIndex = 3 * n + 3 /\ ~s.isInMonitorSection
            /\ s.gauges = SubSeq(gs, 1, n) /\ s.monitors = << >>
        BY DEF AfterGauges
      <4>2. data[s.byteIndex] \in Items
        BY <3>4, <4>1
      <4>. HIDE DEF s
      <4>3. Turn(data, s) = [byteIndex |-> s.byteIndex + 3, separatorCounter |-> 0,
                             isInMonitorSection |-> FALSE,
                             gauges |-> Append(s.gauges, data[s.byteIndex]), monitors |-> s.monitors]
        BY <4>1, <4>2, TurnOnGauge
      <4>. QED BY <4>1, <4>3, Zenon DEF s
    <3>7. Append(SubSeq(gs, 1, n), data[3 * n + 3]) = SubSeq(gs, 1, n + 1)
      BY <1>4, <3>2, <3>4
    <3>. QED BY <3>2, <3>5, <3>6, <3>7 DEF AfterGauges
  <2>. HIDE DEF N
  <2>3. \A n \in Nat : n \in N
    BY <2>1, <2>2, Induction
  <2>. QED BY <2>3 DEF N
<1>7. t[k] = AfterSeparators(gs, 0)
  <2>1. t[k] = AfterGauges(gs, k)
    BY <1>1, <1>6
  <2>2. 3 * k + 3 + 0 = 3 * k + 3 /\ ~ (0 = 3)
    BY <1>1
  <2>. QED BY <1>4, <2>1, <2>2 DEF AfterGauges, AfterSeparators
<1>8. ASSUME NEW n \in 0 .. 2, t[k + n] = AfterSeparators(gs, n)
      PROVE  t[k + n + 1] = AfterSeparators(gs, n + 1)
  <2>1. /\ k + n \in Nat /\ 3 * k + 3 + n \in Nat /\ 3 * k + 3 + n <= size
        /\ 3 * k + 3 + n + 1 = 3 * k + 3 + (n + 1) /\ ((n = 3) = FALSE)
        /\ (n = 2) = (n + 1 = 3)
    BY <1>1
  <2>2. data[3 * k + 3 + n] = separatorValue
    <3>1. n = 0 \/ n = 1 \/ n = 2
      OBVIOUS
    <3>2. 3 * k + 3 + 0 = 3 * k + 3 /\ 3 * k + 3 + 1 = 3 * k + 4 /\ 3 * k + 3 + 2 = 3 * k + 5
      BY <1>1
    <3>. QED BY <1>2, <3>1, <3>2
  <2>3. AfterSeparators(gs, n).byteIndex = 3 * k + 3 + n
    BY DEF AfterSeparators
  <2>4. t[k + n + 1] = Turn(data, AfterSeparators(gs, n))
    BY <1>3, <1>8, <2>1, <2>3
  <2>5. AfterSeparators(gs, n)
          = [byteIndex |-> 3 * k + 3 + n, separatorCounter |-> n, isInMonitorSection |-> FALSE,
             gauges |-> gs, monitors |-> << >>]
    BY <2>1, Zenon DEF AfterSeparators
  <2>6. Turn(data, AfterSeparators(gs, n))
          = [byteIndex |-> 3 * k + 3 + n + 1, separatorCounter |-> n + 1,
             isInMonitorSection |-> (n = 2), gauges |-> gs, monitors |-> << >>]
    <3>. DEFINE s == AfterSeparators(gs, n)
    <3>1. /\ s.byteIndex = 3 * k + 3 + n /\ ~s.isInMonitorSection /\ s.separatorCounter = n
          /\ s.gauges = gs /\ s.monitors = << >>
      BY <2>5
    <3>. HIDE DEF s
    <3>2. Turn(data, s) = [byteIndex |-> s.byteIndex + 1,
                           separatorCounter |-> s.separatorCounter + 1,
                           isInMonitorSection |-> (s.separatorCounter = 2),
                           gauges |-> s.gauges, monitors |-> s.monitors]
      BY <2>2, <3>1, TurnOnSeparator
    <3>. QED BY <3>1, <3>2, Zenon DEF s
  <2>. QED BY <2>1, <2>4, <2>6, Zenon DEF AfterSeparators
<1>9. t[k + 3] = AfterMonitors(gs, ms, 0)
  <2>1. /\ k + 0 = k /\ k + 0 + 1 = k + 1 /\ k + 1 + 1 = k + 2 /\ k + 2 + 1 = k + 3
        /\ 0 + 1 = 1 /\ 1 + 1 = 2 /\ 2 + 1 = 3 /\ 3 * k + 3 + 3 = 3 * k + 6 + 0
    BY <1>1
  <2>2. t[k + 1] = AfterSeparators(gs, 1)
    BY <1>7, <1>8, <2>1
  <2>3. t[k + 2] = AfterSeparators(gs, 2)
    BY <1>8, <2>1, <2>2
  <2>4. t[k + 3] = AfterSeparators(gs, 3)
    BY <1>8, <2>1, <2>3
  <2>. QED BY <1>5, <2>1, <2>4 DEF AfterSeparators, AfterMonitors
<1>10. \A n \in Nat : n <= l => t[k + 3 + n] = AfterMonitors(gs, ms, n)
  <2>. DEFINE N == {n \in Nat : n <= l => t[k + 3 + n] = AfterMonitors(gs, ms, n)}
  <2>1. 0 \in N
    BY <1>1, <1>9
  <2>2. ASSUME NEW n \in Nat, n \in N PROVE n + 1 \in N
    <3>1. SUFFICES ASSUME n + 1 <= l PROVE t[k + 3 + (n + 1)] = AfterMonitors(gs, ms, n + 1)
      OBVIOUS
    <3>2. /\ n <= l /\ n \in 0 .. l - 1 /\ 3 * k + 6 + n \in Nat /\ 3 * k + 6 + n <= size
          /\ 3 * k + 6 + n + 1 = 3 * k + 6 + (n + 1)
          /\ k + 3 + n \in Nat /\ k + 3 + (n + 1) = k + 3 + n + 1
      BY <1>1, <3>1
    <3>3. t[k + 3 + n] = AfterMonitors(gs, ms, n) /\ AfterMonitors(gs, ms, n).byteIndex = 3 * k + 6 + n
      BY <2>2, <3>2 DEF AfterMonitors
    <3>4. data[3 * k + 6 + n] = ms[n + 1] /\ ms[n + 1] \in Items
      BY <1>2, <1>5, <3>2
    <3>5. t[k + 3 + n + 1] = Turn(data, AfterMonitors(gs, ms, n))
      BY <1>3, <3>2, <3>3
    <3>6. Turn(data, AfterMonitors(gs, ms, n))
            = [byteIndex |-> 3 * k + 6 + n + 1, separatorCounter |-> 3, isInMonitorSection |-> TRUE,
               gauges |-> gs, monitors |-> Append(SubSeq(ms, 1, n), data[3 * k + 6 + n])]
      <4>. DEFINE s == AfterMonitors(gs, ms, n)
      <4>1. /\ s.byteIndex = 3 * k + 6 + n /\ s.isInMonitorSection = TRUE /\ s.separatorCounter = 3
            /\ s.gauges = gs /\ s.monitors = SubSeq(ms, 1, n)
        BY DEF AfterMonitors
      <4>2. data[s.byteIndex] \in Items
        BY <3>4, <4>1
      <4>. HIDE DEF s
      <4>3. Turn(data, s) = [byteIndex |-> s.byteIndex + 1,
                             separatorCounter |-> s.separatorCounter,
                             isInMonitorSection |-> TRUE, gauges |-> s.gauges,
                             monitors |-> Append(s.monitors, data[s.byteIndex])]
        BY <4>1, <4>2, TurnOnMonitor
      <4>. QED BY <4>1, <4>3, Zenon DEF s
    <3>7. Append(SubSeq(ms, 1, n), data[3 * k + 6 + n]) = SubSeq(ms, 1, n + 1)
      BY <1>5, <3>2, <3>4
    <3>. QED BY <3>2, <3>5, <3>6, <3>7 DEF AfterMonitors
  <2>. HIDE DEF N
  <2>3. \A n \in Nat : n \in N
    BY <2>1, <2>2, Induction
  <2>. QED BY <2>3 DEF N
<1>11. \A n \in Nat : t[k + 3 + l + n] = AfterMonitors(gs, ms, l)
  <2>. DEFINE N == {n \in Nat : t[k + 3 + l + n] = AfterMonitors(gs, ms, l)}
  <2>1. 0 \in N
    BY <1>1, <1>10
  <2>2. ASSUME NEW n \in Nat, n \in N PROVE n + 1 \in N
    <3>1. k + 3 + l + n \in Nat /\ k + 3 + l + (n + 1) = k + 3 + l + n + 1
          /\ ~ (3 * k + 6 + l <= size)
      BY <1>1
    <3>2. AfterMonitors(gs, ms, l).byteIndex = 3 * k + 6 + l
      BY DEF AfterMonitors
    <3>. QED BY <1>3, <2>2, <3>1, <3>2
  <2>. HIDE DEF N
  <2>3. \A n \in Nat : n \in N
    BY <2>1, <2>2, Induction
  <2>. QED BY <2>3 DEF N
<1>12. t[size] = AfterMonitors(gs, ms, l)
  <2>1. 2 * k + 2 \in Nat /\ k + 3 + l + (2 * k + 2) = size
    BY <1>1
  <2>2. t[k + 3 + l + (2 * k + 2)] = AfterMonitors(gs, ms, l)
    BY <1>11, <2>1
  <2>. QED BY <2>1, <2>2
<1>13. Parse(data) = [gauges |-> gs, monitors |-> ms]
  <2>1. AfterMonitors(gs, ms, l).gauges = gs /\ AfterMonitors(gs, ms, l).monitors = ms
    BY <1>5 DEF AfterMonitors
  <2>. QED BY <1>2, <1>12, <2>1, Zenon DEF Parse, t
<1>14. Len(data) > 2
  BY <1>1, <1>2
<1>. QED BY <1>13, <1>14 DEF data

-----------------------------------------------------------------------------
(* Whatever the bytes, parseResponse gives lists of items. *)
LEMMA ParseType ==
    ASSUME NEW data, Len(data) \in Nat
    PROVE  Parse(data).gauges \in Seq(Items) /\ Parse(data).monitors \in Seq(Items)
<1>1. Turns(data)[Len(data)] \in LoopStates
  BY TurnsEquation
<1>. QED BY <1>1 DEF Parse, LoopStates

(* The lists read from any bytes, be they no layout at all, are read again *)
(* from what constructData makes of them: one save brings the device into  *)
(* a form that further saves do not change.                                *)
THEOREM SavedIsReadAgain ==
    ASSUME NEW data, Len(data) \in Nat
    PROVE  Parse(constructData(Parse(data).gauges, Parse(data).monitors)) = Parse(data)
<1>. DEFINE read == Parse(data)
<1>1. /\ read.gauges \in Seq(Items) /\ read.monitors \in Seq(Items)
      /\ <<1, 30>> \in (0 .. 255) \X (0 .. 255)
  BY ParseType
<1>2. read = [gauges |-> read.gauges, monitors |-> read.monitors]
  BY DEF Parse
<1>. HIDE DEF read
<1>3. Parse(Encode(read.gauges, read.monitors, <<1, 30>>))
        = [gauges |-> read.gauges, monitors |-> read.monitors]
  BY <1>1, RoundTrip
<1>. QED BY <1>2, <1>3, Zenon DEF read, constructData

(* The inductive invariant: the bytes of a device that was given a layout  *)
(* are those of that layout, with some graph settings.                     *)
LayoutInv ==
    /\ TypeOK
    /\ stored # << >> => \E settings \in (0 .. 255) \X (0 .. 255) :
                            content = Encode(stored[1], stored[2], settings)

LEMMA BoundedIsSeq ==
    ASSUME NEW S, NEW n \in Nat, NEW s \in BoundedSeq(S, n)
    PROVE  s \in Seq(S)
  BY DEF BoundedSeq, SeqOf

LEMMA SeqOfLarger ==
    ASSUME NEW S, NEW T, S \subseteq T, NEW s \in Seq(S)
    PROVE  s \in Seq(T)
  OBVIOUS

LEMMA ListsAreSequences == \A list \in Lists : list \in Seq(Items)
  BY BoundsAssumption, BoundedIsSeq DEF Lists

LEMMA EncodeType ==
    ASSUME NEW gs \in Seq(Items), NEW ms \in Seq(Items),
           NEW settings \in (0 .. 255) \X (0 .. 255)
    PROVE  Encode(gs, ms, settings) \in Seq(0 .. 255)
  BY EncodeFacts

LEMMA LayoutInvInit == Init => LayoutInv
  BY EmptyList DEF Init, LayoutInv, TypeOK

(* readGauges gives lists of items and leaves the device alone. *)
LEMMA ReadGaugesKeepsInv ==
    ASSUME LayoutInv, readGauges
    PROVE  LayoutInv'
<1>. DEFINE lists == parseResponse(content, [gauges |-> gauges, monitors |-> monitors])
<1>1. gauges' = lists.gauges /\ monitors' = lists.monitors /\ UNCHANGED <<content, stored>>
  BY Zenon DEF readGauges
<1>2. lists.gauges \in Seq(Items) /\ lists.monitors \in Seq(Items)
  <2>1. CASE Len(content) > 2
    <3>1. Len(content) \in Nat
      BY DEF LayoutInv, TypeOK
    <3>2. lists = Parse(content)
      BY <2>1 DEF parseResponse
    <3>. QED BY <3>1, <3>2, ParseType
  <2>2. CASE ~ (Len(content) > 2)
    BY <2>2 DEF parseResponse, LayoutInv, TypeOK
  <2>. QED BY <2>1, <2>2
<1>. HIDE DEF lists
<1>. QED BY <1>1, <1>2 DEF LayoutInv, TypeOK

LEMMA SetGaugesKeepsInv ==
    ASSUME LayoutInv, NEW gs \in Lists, NEW ms \in Lists, setGauges(gs, ms)
    PROVE  LayoutInv'
<1>1. gs \in Seq(Items) /\ ms \in Seq(Items) /\ <<1, 30>> \in (0 .. 255) \X (0 .. 255)
  BY ListsAreSequences
<1>2. gauges' = gs /\ monitors' = ms /\ content' = Encode(gs, ms, <<1, 30>>) /\ stored' = <<gs, ms>>
  BY DEF setGauges, constructData
<1>3. content' \in Seq(0 .. 255)
  BY <1>1, <1>2, EncodeType
<1>4. stored'[1] = gs /\ stored'[2] = ms /\ stored' \in Seq(Items) \X Seq(Items)
  BY <1>1, <1>2
<1>. QED BY <1>1, <1>2, <1>3, <1>4, Zenon DEF LayoutInv, TypeOK

LEMMA ConfigureKeepsInv ==
    ASSUME LayoutInv, Configure
    PROVE  LayoutInv'
<1>1. gauges' = gauges /\ monitors' = monitors
  BY DEF Configure
<1>2. Bytes \subseteq 0 .. 255
  BY ItemsAssumption DEF Bytes, separatorValue
<1>3. CASE \E gs, ms \in Lists, settings \in Bytes \X Bytes :
             content' = Encode(gs, ms, settings) /\ stored' = <<gs, ms>>
  <2>1. PICK gs \in Lists, ms \in Lists, settings \in Bytes \X Bytes :
             content' = Encode(gs, ms, settings) /\ stored' = <<gs, ms>>
    BY <1>3
  <2>2. gs \in Seq(Items) /\ ms \in Seq(Items) /\ settings \in (0 .. 255) \X (0 .. 255)
    BY <1>2, ListsAreSequences
  <2>3. content' \in Seq(0 .. 255)
    BY <2>1, <2>2, EncodeType
  <2>4. stored'[1] = gs /\ stored'[2] = ms /\ stored' \in Seq(Items) \X Seq(Items)
    BY <2>1, <2>2
  <2>. QED BY <1>1, <2>1, <2>2, <2>3, <2>4, Zenon DEF LayoutInv, TypeOK
<1>4. CASE content' \in BoundedSeq(Bytes, MaxBytes) /\ stored' = << >>
  <2>1. content' \in Seq(Bytes)
    BY <1>4, BoundsAssumption, BoundedIsSeq
  <2>2. PICK octets : octets = 0 .. 255
    OBVIOUS
  <2>3. Bytes \subseteq octets
    BY <1>2, <2>2, Zenon
  <2>4. content' \in Seq(octets)
    BY ONLY <2>1, <2>3, SeqOfLarger
  <2>5. content' \in Seq(0 .. 255)
    BY ONLY <2>2, <2>4
  <2>. QED BY <1>1, <1>4, <2>5, Zenon DEF LayoutInv, TypeOK
<1>. QED BY <1>3, <1>4 DEF Configure

LEMMA LayoutInvNext == LayoutInv /\ [Next]_vars => LayoutInv'
<1>. SUFFICES ASSUME LayoutInv, [Next]_vars PROVE LayoutInv'
  OBVIOUS
<1>1. CASE Next
  BY <1>1, SetGaugesKeepsInv, ReadGaugesKeepsInv, ConfigureKeepsInv DEF Next
<1>2. CASE UNCHANGED vars
  BY <1>2 DEF vars, LayoutInv, TypeOK
<1>. QED BY <1>1, <1>2

(* However layouts are saved and read, the bytes of the device go on being *)
(* those of the layout it was last given.                                  *)
THEOREM LayoutInvariant == Spec => []LayoutInv
<1>. QED BY LayoutInvInit, LayoutInvNext, PTL DEF Spec

(* Whatever bytes a device answers with, only items get into the lists of  *)
(* the singleton.                                                          *)
THEOREM TypeCorrect == Spec => []TypeOK
<1>1. LayoutInv => TypeOK
  BY DEF LayoutInv
<1>. QED BY <1>1, LayoutInvariant, PTL

(* What is read back is what was saved or configured, for every set of     *)
(* items, lists of every length and every value of the graph settings.     *)
THEOREM ReadsBack == Spec => ReadsBackWhatIsStored
<1>1. ASSUME LayoutInv, readGauges, stored # << >>
      PROVE  <<gauges', monitors'>> = stored
  <2>1. PICK settings \in (0 .. 255) \X (0 .. 255) : content = Encode(stored[1], stored[2], settings)
    BY <1>1 DEF LayoutInv
  <2>2. /\ stored[1] \in Seq(Items) /\ stored[2] \in Seq(Items)
        /\ stored = <<stored[1], stored[2]>>
    BY <1>1 DEF LayoutInv, TypeOK
  <2>3. Len(content) > 2 /\ Parse(content) = [gauges |-> stored[1], monitors |-> stored[2]]
    BY <2>1, <2>2, RoundTrip
  <2>4. gauges' = Parse(content).gauges /\ monitors' = Parse(content).monitors
    BY <1>1, <2>3, Zenon DEF readGauges, parseResponse
  <2>5. gauges' = stored[1] /\ monitors' = stored[2]
    BY <2>3, <2>4
  <2>. QED BY <2>2, <2>5, Zenon
<1>2. LayoutInv /\ [Next]_vars => [readGauges /\ stored # << >> => <<gauges', monitors'>> = stored]_vars
  BY <1>1
<1>. QED BY <1>2, LayoutInvariant, PTL DEF Spec, ReadsBackWhatIsStored
=============================================================================
