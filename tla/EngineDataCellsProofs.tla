------------------------ MODULE EngineDataCellsProofs ------------------------
(***************************************************************************)
(* Theorems about EngineDataCells, for any number of cells, gauges and     *)
(* messages, and any length of the chart's window.                         *)
(***************************************************************************)
EXTENDS EngineDataCells, TLAPS

(* A window of entries that ends with the one before next, at most max of  *)
(* them, none of which is newer than newest.                               *)
WindowOf(entries, next, newest, max) ==
    /\ entries \in Seq([x : Nat \ {0}, y : 1 .. newest])
    /\ Len(entries) <= max
    /\ Len(entries) = next - 1 \/ (next > Len(entries) /\ Len(entries) = max)
    /\ \A i \in DOMAIN entries : entries[i].x = next - 1 - Len(entries) + i
    /\ \A i, j \in DOMAIN entries : i <= j => entries[i].y <= entries[j].y

(* Appending a newer entry moves the window by one. *)
LEMMA WindowMoves ==
    ASSUME NEW max \in Nat \ {0}, max = MAX_CHART_DATAPOINTS,
           NEW next \in Nat \ {0}, NEW newest \in Nat \ {0}, NEW entries,
           NEW old \in 0 .. newest, WindowOf(entries, next, old, max)
    PROVE  LET longer == Appended(entries, [x |-> next, y |-> newest])
           IN  /\ WindowOf(longer, next + 1, newest, max)
               /\ longer # <<>> /\ longer[Len(longer)].y = newest
<1> DEFINE O == [x : Nat \ {0}, y : 1 .. old]
           E == [x : Nat \ {0}, y : 1 .. newest]
           entry == [x |-> next, y |-> newest]
           t == Append(entries, entry)
           n == Len(entries)
<1>1. /\ entries \in Seq(E) /\ entry \in E
      /\ \A i \in 1 .. n : entries[i].y \in Nat /\ entries[i].y <= newest
  <2>1. O \subseteq E /\ entry \in E /\ \A e \in E : e.y \in Nat /\ e.y <= newest
    OBVIOUS
  <2>2. entries \in Seq(O)
    BY DEF WindowOf
  <2> HIDE DEF O, E, entry
  <2>3. entries \in Seq(E)
    BY <2>1, <2>2
  <2>4. QED BY <2>1, <2>3
<1>window. /\ n <= max
           /\ (n = next - 1 \/ (next > n /\ n = max))
           /\ \A i \in DOMAIN entries : entries[i].x = next - 1 - n + i
           /\ \A i, j \in DOMAIN entries : i <= j => entries[i].y <= entries[j].y
  BY DEF WindowOf
<1>entry. entry.x = next /\ entry.y = newest
  OBVIOUS
<1> HIDE DEF E, O, entry
<1>2. n \in Nat /\ DOMAIN entries = 1 .. n
  BY <1>1
<1>3. /\ t \in Seq(E) /\ Len(t) = n + 1 /\ t[n + 1] = entry
      /\ DOMAIN t = 1 .. n + 1
      /\ \A i \in 1 .. n : t[i] = entries[i]
  BY <1>1
<1> HIDE DEF t
<1>4. \A i \in 1 .. n + 1 : t[i].x = next - 1 - n + i
  <2>1. ASSUME NEW i \in 1 .. n + 1 PROVE t[i].x = next - 1 - n + i
    <3>1. CASE i = n + 1
      BY <3>1, <1>2, <1>3, <1>entry
    <3>2. CASE i # n + 1
      <4>1. i \in 1 .. n
        BY <3>2, <1>2
      <4>2. QED BY <4>1, <1>2, <1>3, <1>window
    <3>3. QED BY <3>1, <3>2
  <2>2. QED BY <2>1
<1>5. \A i, j \in 1 .. n + 1 : i <= j => t[i].y <= t[j].y
  <2>1. ASSUME NEW i \in 1 .. n + 1, NEW j \in 1 .. n + 1, i <= j PROVE t[i].y <= t[j].y
    <3>1. CASE i = n + 1
      <4>1. j = n + 1
        BY <2>1, <3>1, <1>2
      <4>2. QED BY <4>1, <3>1, <1>3, <1>entry
    <3>2. CASE i # n + 1 /\ j = n + 1
      <4>1. i \in 1 .. n
        BY <3>2, <1>2
      <4>2. QED BY <4>1, <3>2, <1>1, <1>3, <1>entry
    <3>3. CASE i # n + 1 /\ j # n + 1
      <4>1. i \in 1 .. n /\ j \in 1 .. n
        BY <3>3, <1>2
      <4>2. QED BY <4>1, <2>1, <1>2, <1>3, <1>window
    <3>4. QED BY <3>1, <3>2, <3>3
  <2>2. QED BY <2>1
<1> HIDE DEF n
<1>6. CASE n + 1 > max
  <2> DEFINE u == Tail(t)
  <2>1. n = max /\ next > n
    BY <1>2, <1>window, <1>6
  <2>2. u \in Seq(E) /\ Len(u) = n /\ \A i \in 1 .. n : u[i] = t[i + 1]
    BY <1>2, <1>3
  <2>3. Appended(entries, entry) = u
    BY <1>3, <1>6 DEF Appended, t
  <2>domain. DOMAIN u = 1 .. n
    BY <2>2
  <2> HIDE DEF u
  <2>4. \A i \in DOMAIN u : u[i].x = (next + 1) - 1 - Len(u) + i
    <3>1. ASSUME NEW i \in 1 .. n PROVE u[i].x = next - n + i
      <4>1. i + 1 \in 1 .. n + 1 /\ u[i] = t[i + 1]
        BY <1>2, <2>2
      <4>2. t[i + 1].x = next - 1 - n + (i + 1)
        BY <4>1, <1>4
      <4>3. QED BY <4>1, <4>2, <1>2
    <3>2. QED BY <3>1, <1>2, <2>2, <2>domain
  <2>5. \A i, j \in DOMAIN u : i <= j => u[i].y <= u[j].y
    BY <1>2, <1>5, <2>2, <2>domain
  <2>6. u # <<>> /\ u[Len(u)].y = newest
    BY <1>2, <1>3, <1>entry, <2>1, <2>2
  <2>7. WindowOf(u, next + 1, newest, max)
    BY <1>2, <2>1, <2>2, <2>4, <2>5 DEF WindowOf, E
  <2>8. QED BY <2>3, <2>6, <2>7 DEF entry
<1>7. CASE ~(n + 1 > max)
  <2>1. n = next - 1
    BY <1>2, <1>window, <1>7
  <2>2. Appended(entries, entry) = t
    BY <1>3, <1>7 DEF Appended, t
  <2>3. \A i \in DOMAIN t : t[i].x = (next + 1) - 1 - Len(t) + i
    BY <1>2, <1>3, <1>4
  <2>4. \A i, j \in DOMAIN t : i <= j => t[i].y <= t[j].y
    BY <1>3, <1>5
  <2>5. t # <<>> /\ t[Len(t)].y = newest
    BY <1>2, <1>3, <1>entry
  <2>6. WindowOf(t, next + 1, newest, max)
    BY <1>2, <1>3, <1>7, <2>1, <2>3, <2>4 DEF WindowOf, E
  <2>7. QED BY <2>2, <2>5, <2>6 DEF entry
<1>8. QED BY <1>6, <1>7, <1>2

-----------------------------------------------------------------------------
(* The label of every cell shows what the subscript returns for its gauge. *)
LabelInv == \A c \in Cells : gauge[c] # None => value[c] = ItemValue(gauge[c], latest)

(* The window of the chart of cell c, of values up to the last one of its  *)
(* gauge; before there is one the window is empty.                         *)
CellChart(c) ==
    /\ chart[c] = gauge[c]
    /\ WindowOf(dataset[c], iterator[c], latest[gauge[c]], MAX_CHART_DATAPOINTS)
    /\ latest[gauge[c]] # 0 =>
         dataset[c] # <<>> /\ dataset[c][Len(dataset[c])].y = latest[gauge[c]]

ChartInv == \A c \in Cells : gauge[c] \in ChartItems => CellChart(c)

IndInv == TypeOK /\ LabelInv /\ ChartInv

(* The items of the feed are those of the cells. *)
LEMMA SameItems == Feed!Items = Items
<1>1. /\ Feed!BasicItems = BasicItems /\ Feed!AdvancedItems = AdvancedItems
      /\ Feed!SensorItems = SensorItems
  BY DEF Feed!BasicItems, BasicItems, Feed!AdvancedItems, AdvancedItems,
         Feed!SensorItems, SensorItems, Feed!Switches, Switches
<1>2. QED BY <1>1, Zenon DEF Feed!Items, Items

(* A key is looked up under an item, and under itself if it has a chart. *)
LEMMA SubscriptItem ==
    /\ \A key \in Items : subscript(key) \in Items
    /\ \A key \in ChartItems : key \in Items /\ subscript(key) = key
    /\ \A key : key # "fuelPumpControl" => subscript(key) = key
<1>1. "fuelCorrection" \in Items /\ "fuelPumpControl" \in Switches
  BY DEF Items, AdvancedItems, Switches
<1> QED BY <1>1 DEF subscript, ChartItems

(* Before anything is shown or reported the invariant holds. *)
LEMMA InitInv == Init => IndInv
<1> SUFFICES ASSUME Init PROVE IndInv
  OBVIOUS
<1>1. /\ received = 0 /\ latest = [i \in Items |-> 0]
      /\ gauge = [c \in Cells |-> None] /\ value = [c \in Cells |-> 0]
      /\ chart = [c \in Cells |-> None]
      /\ dataset = [c \in Cells |-> <<>>] /\ iterator = [c \in Cells |-> 1]
  BY SameItems DEF Init, Feed!Init, Feed!Nothing
<1>2. TypeOK
  <2>1. <<>> \in Seq(Entries) /\ Len(<<>>) <= MAX_CHART_DATAPOINTS
    BY WindowAssumption
  <2>2. QED BY <1>1, <2>1 DEF TypeOK
<1>3. LabelInv /\ ChartInv
  BY <1>1, NoneAssumption, SubscriptItem DEF LabelInv, ChartInv
<1>4. QED BY <1>2, <1>3 DEF IndInv

(* A cell that is shown for an item starts with what is known of it. *)
LEMMA ShowInv ==
    ASSUME IndInv, NEW c \in Cells, NEW item \in Gauges, Show(c, item)
    PROVE  IndInv'
<1> DEFINE reported == ItemValue(item, latest)
           charted == item \in ChartItems /\ reported # 0
           first == IF charted THEN << [x |-> 1, y |-> reported] >> ELSE <<>>
<1>1. /\ received' = received /\ latest' = latest /\ received \in Nat
      /\ latest \in [Items -> 0 .. received]
      /\ item \in Items
  BY GaugesAssumption DEF IndInv, TypeOK, Show, feedVars
<1>2. reported \in 0 .. received
  BY <1>1, SubscriptItem DEF ItemValue
<1>3. /\ gauge' = [gauge EXCEPT ![c] = item]
      /\ value' = [value EXCEPT ![c] = reported]
      /\ iterator' = [iterator EXCEPT ![c] = IF charted THEN 2 ELSE 1]
      /\ item \in ChartItems => /\ chart' = [chart EXCEPT ![c] = item]
                               /\ dataset' = [dataset EXCEPT ![c] = first]
      /\ item \notin ChartItems => chart' = chart /\ dataset' = dataset
  BY DEF Show, FirstLabel
<1>4. item \in ChartItems => reported = latest[item]
  BY SubscriptItem DEF ItemValue
<1> HIDE DEF reported
<1>5. /\ first \in Seq([x : Nat \ {0}, y : 1 .. reported])
      /\ first \in Seq(Entries) /\ Len(first) <= MAX_CHART_DATAPOINTS
  <2>1. CASE charted
    <3>1. [x |-> 1, y |-> reported] \in [x : Nat \ {0}, y : 1 .. reported]
      BY <1>1, <1>2, <2>1
    <3>2. [x |-> 1, y |-> reported] \in Entries
      BY <1>1, <1>2, <2>1 DEF Entries
    <3>3. QED BY <2>1, <3>1, <3>2, WindowAssumption
  <2>2. CASE ~charted
    BY <2>2, WindowAssumption
  <2>3. QED BY <2>1, <2>2
<1>6. TypeOK'
  <2>1. Entries' = Entries
    BY <1>1 DEF Entries
  <2>2. /\ gauge' \in [Cells -> Gauges \union {None}]
        /\ value' \in [Cells -> 0 .. received]
        /\ iterator' \in [Cells -> Nat \ {0}]
    BY <1>2, <1>3 DEF IndInv, TypeOK
  <2>3. chart' \in [Cells -> ChartItems \union {None}]
    BY <1>3 DEF IndInv, TypeOK
  <2>4. /\ dataset' \in [Cells -> Seq(Entries)]
        /\ \A d \in Cells : Len(dataset'[d]) <= MAX_CHART_DATAPOINTS
    <3> HIDE DEF first
    <3>1. CASE item \in ChartItems
      BY <1>3, <1>5, <3>1 DEF IndInv, TypeOK
    <3>2. CASE item \notin ChartItems
      BY <1>3, <3>2 DEF IndInv, TypeOK
    <3>3. QED BY <3>1, <3>2
  <2>5. QED BY <1>1, <2>1, <2>2, <2>3, <2>4 DEF TypeOK
<1>7. LabelInv'
  <2>1. value'[c] = reported /\ gauge'[c] = item
    BY <1>3 DEF IndInv, TypeOK
  <2>2. \A d \in Cells \ {c} : value'[d] = value[d] /\ gauge'[d] = gauge[d]
    BY <1>3 DEF IndInv, TypeOK
  <2>3. QED BY <1>1, <2>1, <2>2 DEF IndInv, LabelInv, reported, ItemValue
<1>8. ChartInv'
  <2>1. ASSUME item \in ChartItems PROVE CellChart(c)'
    <3>1. /\ gauge'[c] = item /\ chart'[c] = item /\ dataset'[c] = first
          /\ iterator'[c] = IF charted THEN 2 ELSE 1
      BY <1>3, <2>1 DEF IndInv, TypeOK
    <3>2. WindowOf(first, IF charted THEN 2 ELSE 1, reported, MAX_CHART_DATAPOINTS)
      BY <1>2, <1>5 DEF WindowOf
    <3>3. reported # 0 => first # <<>> /\ first[Len(first)].y = reported
      BY <2>1
    <3> HIDE DEF first, charted
    <3>4. QED BY <1>1, <1>4, <2>1, <3>1, <3>2, <3>3 DEF CellChart
  <2>2. ASSUME NEW d \in Cells \ {c}, gauge'[d] \in ChartItems PROVE CellChart(d)'
    <3>1. /\ gauge'[d] = gauge[d] /\ chart'[d] = chart[d] /\ dataset'[d] = dataset[d]
          /\ iterator'[d] = iterator[d]
      BY <1>3 DEF IndInv, TypeOK
    <3>2. CellChart(d)
      BY <2>2, <3>1 DEF IndInv, ChartInv
    <3>3. QED BY <1>1, <3>1, <3>2 DEF CellChart
  <2>3. gauge'[c] = item
    BY <1>3 DEF IndInv, TypeOK
  <2>4. QED BY <2>1, <2>2, <2>3 DEF ChartInv
<1>9. QED BY <1>6, <1>7, <1>8 DEF IndInv

(* A data point moves the label and the window of every cell it has a      *)
(* value for.                                                              *)
LEMMA DataPointInv ==
    ASSUME IndInv, NEW items, DataPoint(items)
    PROVE  IndInv'
<1>1. /\ received \in Nat /\ received' = received + 1
      /\ latest \in [Items -> 0 .. received]
      /\ latest' = [i \in Items |-> IF i \in items THEN received + 1 ELSE latest[i]]
  BY SameItems DEF IndInv, TypeOK, DataPoint, Feed!Report
<1>2. /\ latest' \in [Items -> 0 .. received']
      /\ \A i \in Items : latest[i] \in 0 .. latest'[i] /\ latest'[i] \in Nat
  BY <1>1
<1>3. /\ gauge' = gauge /\ chart' = chart
      /\ value' = [c \in Cells |-> IF Observes(c) THEN ItemValue(gauge[c], latest') ELSE value[c]]
      /\ dataset' = [c \in Cells |->
                        IF Draws(c)
                        THEN Appended(dataset[c], [x |-> iterator[c],
                                                   y |-> ItemValue(gauge[c], latest')])
                        ELSE dataset[c]]
      /\ iterator' = [c \in Cells |-> IF Draws(c) THEN iterator[c] + 1 ELSE iterator[c]]
  BY DEF DataPoint
<1>4. /\ gauge \in [Cells -> Gauges \union {None}]
      /\ iterator \in [Cells -> Nat \ {0}]
      /\ value \in [Cells -> 0 .. received]
      /\ dataset \in [Cells -> Seq(Entries)]
      /\ \A c \in Cells : Len(dataset[c]) <= MAX_CHART_DATAPOINTS
      /\ chart \in [Cells -> ChartItems \union {None}]
  BY DEF IndInv, TypeOK
<1>5. ASSUME NEW c \in Cells, Draws(c)
      PROVE  LET g == gauge[c]
             IN  /\ WindowOf(dataset'[c], iterator'[c], latest'[g], MAX_CHART_DATAPOINTS)
                 /\ dataset'[c] # <<>> /\ dataset'[c][Len(dataset'[c])].y = latest'[g]
                 /\ latest'[g] \in Nat /\ latest'[g] <= received'
  <2> DEFINE g == gauge[c]
             old == latest[g]
             newest == latest'[g]
  <2>1. g \in ChartItems /\ g \in Items /\ ItemValue(g, latest') = newest /\ newest # 0
    BY <1>5, SubscriptItem DEF Draws, Observes, ItemValue
  <2>2. newest \in Nat \ {0} /\ old \in 0 .. newest /\ newest <= received'
    BY <1>1, <1>2, <2>1
  <2>3. WindowOf(dataset[c], iterator[c], old, MAX_CHART_DATAPOINTS)
    BY <2>1 DEF IndInv, ChartInv, CellChart
  <2>4. /\ dataset'[c] = Appended(dataset[c], [x |-> iterator[c], y |-> newest])
        /\ iterator'[c] = iterator[c] + 1
    BY <1>3, <1>5, <2>1
  <2> HIDE DEF g, old, newest
  <2>5. iterator[c] \in Nat \ {0}
    BY <1>4
  <2>6. /\ WindowOf(dataset'[c], iterator'[c], newest, MAX_CHART_DATAPOINTS)
        /\ dataset'[c] # <<>> /\ dataset'[c][Len(dataset'[c])].y = newest
    BY <2>2, <2>3, <2>4, <2>5, WindowMoves, WindowAssumption
  <2>7. QED BY <2>2, <2>6 DEF g, newest
<1>6. ASSUME NEW c \in Cells, ~Draws(c)
      PROVE  dataset'[c] = dataset[c] /\ iterator'[c] = iterator[c]
  BY <1>3, <1>6
<1>7. TypeOK'
  <2>1. Entries \subseteq Entries' /\ 0 .. received \subseteq 0 .. received'
    BY <1>1 DEF Entries
  <2>2. ASSUME NEW c \in Cells
        PROVE  dataset'[c] \in Seq(Entries') /\ Len(dataset'[c]) <= MAX_CHART_DATAPOINTS
    <3>1. CASE Draws(c)
      <4> DEFINE newest == latest'[gauge[c]]
      <4>1. /\ WindowOf(dataset'[c], iterator'[c], newest, MAX_CHART_DATAPOINTS)
            /\ newest \in Nat /\ newest <= received'
        BY <1>5, <3>1
      <4> HIDE DEF newest
      <4> DEFINE W == [x : Nat \ {0}, y : 1 .. newest]
      <4>2. W \subseteq Entries'
        BY <4>1, <1>1 DEF Entries
      <4>3. /\ dataset'[c] \in Seq(W)
            /\ Len(dataset'[c]) <= MAX_CHART_DATAPOINTS
        BY <4>1 DEF WindowOf
      <4> HIDE DEF W
      <4>4. Seq(W) \subseteq Seq(Entries')
        BY <4>2
      <4>5. QED BY <4>3, <4>4
    <3>2. CASE ~Draws(c)
      BY <1>4, <1>6, <2>1, <3>2
    <3>3. QED BY <3>1, <3>2
  <2>3. dataset' \in [Cells -> Seq(Entries')]
    BY <1>3, <2>2
  <2>4. iterator' \in [Cells -> Nat \ {0}]
    BY <1>3, <1>4
  <2>5. value' \in [Cells -> 0 .. received']
    <3>1. ASSUME NEW c \in Cells, Observes(c) PROVE ItemValue(gauge[c], latest') \in 0 .. received'
      <4>1. gauge[c] \in Items
        BY <1>4, <3>1, GaugesAssumption DEF Observes
      <4>2. QED BY <4>1, <1>2, SubscriptItem DEF ItemValue
    <3>2. QED BY <1>3, <1>4, <2>1, <3>1
  <2>6. \A c \in Cells : Len(dataset'[c]) <= MAX_CHART_DATAPOINTS
    BY <2>2
  <2>7. received' \in Nat /\ gauge' = gauge /\ chart' = chart
    BY <1>1, <1>3
  <2>8. QED BY <1>2, <1>4, <2>3, <2>4, <2>5, <2>6, <2>7 DEF TypeOK
<1>8. LabelInv'
  <2>1. ASSUME NEW c \in Cells, gauge[c] # None PROVE value'[c] = ItemValue(gauge[c], latest')
    <3>1. CASE Observes(c)
      BY <1>3, <3>1
    <3>2. CASE ~Observes(c)
      <4>1. value'[c] = value[c] /\ value[c] = ItemValue(gauge[c], latest)
        BY <1>3, <2>1, <3>2 DEF IndInv, LabelInv
      <4>2. gauge[c] \in Items /\ ItemValue(gauge[c], latest') = 0
        BY <1>4, <2>1, <3>2, GaugesAssumption DEF Observes
      <4>3. ItemValue(gauge[c], latest) = 0
        BY <4>2, <1>1, <1>2, SubscriptItem DEF ItemValue
      <4>4. QED BY <4>1, <4>2, <4>3
    <3>3. QED BY <3>1, <3>2
  <2>2. QED BY <1>3, <2>1 DEF LabelInv, ItemValue
<1>9. ChartInv'
  <2>1. ASSUME NEW c \in Cells, gauge[c] \in ChartItems PROVE CellChart(c)'
    <3>1. CellChart(c) /\ gauge[c] \in Items /\ subscript(gauge[c]) = gauge[c]
      BY <2>1, SubscriptItem DEF IndInv, ChartInv
    <3>2. CASE Draws(c)
      BY <1>3, <1>5, <3>1, <3>2 DEF CellChart
    <3>3. CASE ~Draws(c)
      <4>1. gauge[c] # None
        BY <3>1, NoneAssumption
      <4>2. latest'[gauge[c]] = 0
        BY <2>1, <3>1, <3>3, <4>1 DEF Draws, Observes, ItemValue
      <4>3. latest[gauge[c]] = 0
        BY <1>1, <1>2, <3>1, <4>2
      <4>4. QED BY <1>3, <1>6, <3>1, <3>3, <4>2, <4>3 DEF CellChart
    <3>4. QED BY <3>2, <3>3
  <2>2. QED BY <1>3, <2>1 DEF ChartInv
<1>10. QED BY <1>7, <1>8, <1>9 DEF IndInv

(* The invariant holds in every reachable state. *)
THEOREM Invariance == Spec => []IndInv
<1>1. IndInv /\ [Next]_vars => IndInv'
  <2> SUFFICES ASSUME IndInv, [Next]_vars PROVE IndInv'
    OBVIOUS
  <2>1. ASSUME NEW c \in Cells, NEW item \in Gauges, Show(c, item) PROVE IndInv'
    BY <2>1, ShowInv
  <2>2. ASSUME NEW items \in Feed!CarriedSets, DataPoint(items) PROVE IndInv'
    BY <2>2, DataPointInv
  <2>3. CASE UNCHANGED vars
    BY <2>3 DEF vars, feedVars, cellVars, IndInv, TypeOK, Entries, LabelInv, ItemValue,
                ChartInv, CellChart
  <2>4. QED BY <2>1, <2>2, <2>3 DEF Next
<1>2. QED BY <1>1, InitInv, PTL DEF Spec

(* Every reachable state is well typed; no window is longer than it may be. *)
THEOREM TypeCorrect == Spec => []TypeOK
<1>1. IndInv => TypeOK
  BY DEF IndInv
<1>2. QED BY <1>1, Invariance, PTL

(* The label of every gauge but fuelPumpControl shows its last value. *)
THEOREM LabelsFollow == Spec => []LabelIsLatest
<1>1. IndInv => LabelIsLatest
  BY SubscriptItem DEF IndInv, LabelInv, LabelIsLatest, ItemValue
<1>2. QED BY <1>1, Invariance, PTL

(* The chart of every gauge that has one is the window of its newest       *)
(* values, for any length of the window.                                   *)
THEOREM ChartsFollow == Spec => []ChartFollows
<1>1. IndInv => ChartFollows
  <2> SUFFICES ASSUME IndInv, NEW c \in Cells, gauge[c] \in ChartItems
               PROVE  CellChart(c) /\ (latest[gauge[c]] = 0 => dataset[c] = <<>>)
    BY DEF ChartFollows, CellChart, WindowOf
  <2>1. CellChart(c)
    BY DEF IndInv, ChartInv
  <2>2. latest[gauge[c]] = 0 => dataset[c] = <<>>
    <3>1. dataset[c] \in Seq([x : Nat \ {0}, y : 1 .. latest[gauge[c]]])
      BY <2>1 DEF CellChart, WindowOf
    <3>2. [x : Nat \ {0}, y : 1 .. 0] = {}
      OBVIOUS
    <3>3. QED BY <3>1, <3>2
  <2>3. QED BY <2>1, <2>2
<1>2. QED BY <1>1, Invariance, PTL
=============================================================================
