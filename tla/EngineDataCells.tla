--------------------------- MODULE EngineDataCells ---------------------------
(***************************************************************************)
(* The gauges page: the cells of EngineDataViewController's collection     *)
(* view, each with an EngineDataCollectionViewCellViewModel that observes  *)
(* the current data point, specified over EngineDataFeed.  The collection  *)
(* view reuses the cells that were scrolled away, and each reuse makes a   *)
(* new view model; the cell lets go of the old one, which ends its         *)
(* observers.                                                              *)
(***************************************************************************)
EXTENDS EngineDataPoint, Sequences, SequencesExt

CONSTANTS
    MaxMessages,           \* bound: messages
    Cells,                 \* cells of the collection view
    Gauges,                \* the rows of the page
    MAX_CHART_DATAPOINTS   \* 30

ASSUME GaugesAssumption == Gauges \subseteq Items
ASSUME WindowAssumption == MAX_CHART_DATAPOINTS \in Nat \ {0}
ASSUME NoneAssumption == None \notin Items

VARIABLES
    received, latest,  \* of EngineDataFeed
    gauge,     \* gauge[c]: the item the cell's view model is for, or None
    value,     \* value[c]: the label: the message of the value, 0 for ""
    chart,     \* chart[c]: the item whose dataset the chart view draws, or None
    dataset,   \* dataset[c]: that dataset's entries
    iterator   \* iterator[c]: of the view model

feedVars == <<received, latest>>
cellVars == <<gauge, value, chart, dataset, iterator>>
vars == <<feedVars, cellVars>>

Feed == INSTANCE EngineDataFeed

-----------------------------------------------------------------------------
(* Mutants of Appended: the window is one too long; the newest entry goes. *)
Appended_TooLong(entries, entry) ==
    IF Len(entries) > MAX_CHART_DATAPOINTS THEN Tail(Append(entries, entry))
    ELSE Append(entries, entry)

Appended_NewestGoes(entries, entry) ==
    IF Len(entries) = MAX_CHART_DATAPOINTS THEN entries ELSE Append(entries, entry)

(* dataset.append, and the oldest entry goes when there are too many. *)
Appended(entries, entry) ==
    LET longer == Append(entries, entry)
    IN  IF Len(longer) > MAX_CHART_DATAPOINTS THEN Tail(longer) ELSE longer

(* The observer of current in a view model for item: what it reads of the  *)
(* data point, 0 for nil.                                                  *)
ItemValue(item, values) == values[subscript(item)]

Init ==
    /\ Feed!Init
    /\ gauge = [c \in Cells |-> None]
    /\ value = [c \in Cells |-> 0]
    /\ chart = [c \in Cells |-> None]
    /\ dataset = [c \in Cells |-> <<>>]
    /\ iterator = [c \in Cells |-> 1]

(* Mutant: the label is not called with the new view model's value. *)
FirstLabel_Kept(c, reported) == IF reported = 0 THEN value[c] ELSE reported

(* The label of cell c is called with what the new view model holds. *)
FirstLabel(c, reported) == reported

(* cellForItemAt, with any cell that is dequeued.  The new view model's    *)
(* observer is called with the current data point; the label shows what    *)
(* the view model holds then, and the chart view is given the view model's *)
(* dataset only if the item has a chart.  That no other cell shows the     *)
(* item is the collection view's doing, not the code's: it has one row for *)
(* each gauge and asks for one cell for a row.  setupObservers disposes of *)
(* what the cell observed before: those observers are not state here.      *)
Show(c, item) ==
    /\ \A other \in Cells \ {c} : gauge[other] # item
    /\ gauge' = [gauge EXCEPT ![c] = item]
    /\ LET reported == ItemValue(item, latest)
           charted  == item \in ChartItems /\ reported # 0
       IN  /\ value' = [value EXCEPT ![c] = FirstLabel(c, reported)]
           /\ iterator' = [iterator EXCEPT ![c] = IF charted THEN 2 ELSE 1]
           /\ IF item \in ChartItems
                THEN /\ chart' = [chart EXCEPT ![c] = item]
                     /\ dataset' = [dataset EXCEPT ![c] =
                                       IF charted THEN << [x |-> 1, y |-> reported] >> ELSE <<>>]
                ELSE UNCHANGED <<chart, dataset>>
    /\ UNCHANGED feedVars

(* A data point is sent: the observer of every view model. *)
Observes(c) == gauge[c] # None /\ ItemValue(gauge[c], latest') # 0

Draws(c) == Observes(c) /\ gauge[c] \in ChartItems

DataPoint(items) ==
    /\ Feed!Report(items)
    /\ value' = [c \in Cells |-> IF Observes(c) THEN ItemValue(gauge[c], latest') ELSE value[c]]
    /\ dataset' = [c \in Cells |->
                      IF Draws(c)
                      THEN Appended(dataset[c], [x |-> iterator[c], y |-> ItemValue(gauge[c], latest')])
                      ELSE dataset[c]]
    /\ iterator' = [c \in Cells |-> IF Draws(c) THEN iterator[c] + 1 ELSE iterator[c]]
    /\ UNCHANGED <<gauge, chart>>

Next ==
    \/ \E c \in Cells, item \in Gauges : Show(c, item)
    \/ \E items \in Feed!CarriedSets : DataPoint(items)

Spec == Init /\ [][Next]_vars
-----------------------------------------------------------------------------
Entries == [x : Nat \ {0}, y : 1 .. received]

(* The types of the state: no dataset is longer than the window, and its   *)
(* entries were reported.                                                  *)
TypeOK ==
    /\ received \in Nat
    /\ latest \in [Items -> 0 .. received]
    /\ gauge \in [Cells -> Gauges \union {None}]
    /\ chart \in [Cells -> ChartItems \union {None}]
    /\ value \in [Cells -> 0 .. received]
    /\ dataset \in [Cells -> Seq(Entries)]
    /\ \A c \in Cells : Len(dataset[c]) <= MAX_CHART_DATAPOINTS
    /\ iterator \in [Cells -> Nat \ {0}]

(* The label of a cell shows the last value reported for its gauge, or     *)
(* nothing before there is one: however cells are reused, no value of the  *)
(* gauge that a cell was for before is left in it.  fuelPumpControl is     *)
(* excluded: subscript(key:) returns another item for it.                  *)
LabelIsLatest ==
    \A c \in Cells :
        gauge[c] \notin {None, "fuelPumpControl"} => value[c] = latest[gauge[c]]

(* A cell whose gauge has a chart draws that gauge's dataset: the newest   *)
(* entries since the cell has the gauge, all of them until the window is   *)
(* full, in the order in which they came, up to the last value reported.   *)
ChartFollows ==
    \A c \in Cells :
        gauge[c] \in ChartItems =>
            /\ chart[c] = gauge[c]
            /\ \/ Len(dataset[c]) = iterator[c] - 1
               \/ iterator[c] > Len(dataset[c]) /\ Len(dataset[c]) = MAX_CHART_DATAPOINTS
            /\ \A i \in DOMAIN dataset[c] :
                 dataset[c][i].x = iterator[c] - 1 - Len(dataset[c]) + i
            /\ \A i, j \in DOMAIN dataset[c] :
                 i <= j => dataset[c][i].y <= dataset[c][j].y
            /\ IF latest[gauge[c]] = 0 THEN dataset[c] = <<>>
               ELSE dataset[c] # <<>> /\ dataset[c][Len(dataset[c])].y = latest[gauge[c]]

(* What the title of a cell says is what its label shows, for every gauge. *)
LabelIsOfTitle ==
    \A c \in Cells : gauge[c] # None => value[c] = latest[gauge[c]]

(* A chart on the page is updated in real time: it ends with the last      *)
(* value reported for the item it draws.                                   *)
ChartsAreLive ==
    \A c \in Cells :
        chart[c] # None /\ latest[chart[c]] # 0 =>
            dataset[c] # <<>> /\ dataset[c][Len(dataset[c])].y = latest[chart[c]]
=============================================================================
