---------------------------- MODULE RepairProofs ----------------------------
(***************************************************************************)
(* Proofs about obdlogrepair for logs of any size, killed and refused      *)
(* wherever it may be.                                                     *)
(***************************************************************************)
EXTENDS Repair, SequenceTheorems, TLAPS

LEMMA ConstantsOfTables ==
  /\ Len(TableOrder) = 2 /\ Len(Indices) = 5
  /\ TableOrder[1] \in Tables /\ TableOrder[2] \in Tables
  BY DEF TableOrder, Tables, Indices

\* Where the loops may be after a step that moves on.
LEMMA NextTablePlace ==
  ASSUME TypeOK, NextTable
  PROVE  /\ pc' \in {"column", "index"}
         /\ place' \in [table : 1..2, trip : Nat \ {0}, index : 1..5]
  <1>1. /\ FirstPlace \in [table : 1..2, trip : Nat \ {0}, index : 1..5]
        /\ place \in [table : 1..2, trip : Nat \ {0}, index : 1..5]
    BY DEF FirstPlace, TypeOK
  <1>2. CASE place.table = 2
    BY <1>1, <1>2, ConstantsOfTables DEF NextTable
  <1>3. CASE place.table # 2
    <2>1. place.table + 1 \in 1..2
      BY <1>1, <1>3
    <2> QED
      BY <1>1, <1>3, <2>1, ConstantsOfTables DEF NextTable
  <1> QED
    BY <1>2, <1>3

LEMMA GoOnPlace ==
  ASSUME TypeOK, pc = "index", GoOn
  PROVE  /\ pc' \in {"index", "ecu"}
         /\ place' \in [table : 1..2, trip : Nat \ {0}, index : 1..5]
  <1>1. place \in [table : 1..2, trip : Nat \ {0}, index : 1..5]
    BY DEF TypeOK
  <1>2. CASE place.index = 5
    BY <1>1, <1>2, ConstantsOfTables DEF GoOn
  <1>3. CASE place.index # 5
    <2>1. place.index + 1 \in 1..5
      BY <1>1, <1>3
    <2> QED
      BY <1>1, <1>3, <2>1, ConstantsOfTables DEF GoOn
  <1> QED
    BY <1>2, <1>3

\* What is filled in is an end for trips that had none.
LEMMA FilledTrips ==
  ASSUME trips \in Seq(TripRows)
  PROVE  /\ FillEnds \in Seq(TripRows)
         /\ DOMAIN FillEnds = DOMAIN trips
         /\ \A i \in DOMAIN trips :
              /\ FillEnds[i].start = trips[i].start
              /\ trips[i].end # NoEnd => FillEnds[i] = trips[i]
  <1>1. DOMAIN trips = 1..Len(trips) /\ Len(trips) \in Nat
    BY LenProperties
  <1>2. \A i \in 1..Len(trips) : trips[i] \in TripRows /\ trips[i].start \in Nat
    <2>1. \A i \in 1..Len(trips) : trips[i] \in TripRows
      BY ElementOfSeq
    <2> QED
      BY <2>1 DEF TripRows
  <1>3. ASSUME NEW i \in 1..Len(trips) PROVE EndBefore(i) \in Int
    <2>1. CASE i = 1
      BY <2>1 DEF EndBefore, NullEnd
    <2>2. CASE i # 1
      <3>1. i - 1 \in 1..Len(trips)
        BY <1>1, <2>2
      <3>2. trips[i - 1].start \in Nat
        BY <1>2, <3>1
      <3> QED
        BY <2>2, <3>2 DEF EndBefore
    <2> QED
      BY <2>1, <2>2
  <1>4. \A i \in 1..Len(trips) : /\ FillEnds[i] \in TripRows
                                 /\ FillEnds[i].start = trips[i].start
                                 /\ trips[i].end # NoEnd => FillEnds[i] = trips[i]
    BY <1>1, <1>2, <1>3 DEF FillEnds, TripRows
  <1>5. FillEnds \in [1..Len(trips) -> TripRows]
    BY <1>1, <1>4 DEF FillEnds
  <1> QED
    BY <1>1, <1>4, <1>5, IsASeq

LEMMA TripsChange ==
  [Next]_vars => UNCHANGED trips \/ (trips' = FillEnds /\ pc = "ends" /\ UNCHANGED <<filed, added>>)
  BY DEF Next, vars, logVars, Start, CheckTripEnds, FindTripColumn, AddTripColumn,
         CannotFile, FileTrip, FiledAll, CheckIndex, CheckObdEcu, Killed

LEMMA FiledChange ==
  [Next]_vars =>
    \/ UNCHANGED filed
    \/ /\ filed' = [filed EXCEPT ![Table] = FileRows(Table, place.trip)]
       /\ place.trip \in DOMAIN trips /\ UNCHANGED <<trips, added>>
  BY DEF Next, vars, logVars, Start, CheckTripEnds, FindTripColumn, AddTripColumn,
         CannotFile, FileTrip, FiledAll, CheckIndex, CheckObdEcu, Killed

-----------------------------------------------------------------------------
(* Types.                                                                  *)

FiledTypes ==
  /\ DOMAIN filed = Tables
  /\ \A t \in Tables : DOMAIN filed[t] \subseteq Nat /\ filed[t] \in [DOMAIN filed[t] -> Nat]

LEMMA LoggedTripsTyped == \A s \in LoggedTrips : s \in Seq(TripRows) /\ DOMAIN s \subseteq Nat
  <1> SUFFICES ASSUME NEW s \in LoggedTrips PROVE s \in Seq(TripRows) /\ DOMAIN s \subseteq Nat
    OBVIOUS
  <1>1. PICK n \in 0..MaxTrips : s \in [1..n -> [start : Times, end : Times \cup {NoEnd}]]
    BY DEF LoggedTrips
  <1>2. n \in Nat
    BY RepairAssumption
  <1>3. [start : Times, end : Times \cup {NoEnd}] \subseteq TripRows
    <2>1. Times \subseteq Nat /\ Times \cup {NoEnd} \subseteq Int
      BY RepairAssumption DEF NoEnd
    <2> QED
      BY <2>1 DEF TripRows
  <1>4. s \in [1..n -> TripRows]
    BY <1>1, <1>3
  <1> QED
    BY <1>2, <1>4, IsASeq

LEMMA TypeInit == Init => TypeOK
  <1> SUFFICES ASSUME Init PROVE TypeOK
    OBVIOUS
  <1>1. trips \in Seq(TripRows) /\ DOMAIN trips \subseteq Nat
    BY LoggedTripsTyped DEF Init
  <1>2. FiledTypes
    <2>1. PICK o \in SUBSET RowTimes["obd"], g \in SUBSET RowTimes["gps"] :
            filed \in [obd : [o -> IF "obd" \in columns THEN DOMAIN trips ELSE {Unfiled}],
                       gps : [g -> IF "gps" \in columns THEN DOMAIN trips ELSE {Unfiled}]]
      BY DEF Init
    <2>2. o \subseteq Nat /\ g \subseteq Nat
      BY RepairAssumption DEF Tables
    <2>3. /\ DOMAIN filed = {"obd", "gps"}
          /\ filed["obd"] \in [o -> Nat] /\ filed["gps"] \in [g -> Nat]
      BY <1>1, <2>1 DEF Unfiled
    <2> QED
      BY <2>2, <2>3 DEF FiledTypes, Tables
  <1>3. /\ columns \subseteq Tables \cup {"ecu"}
        /\ indices \subseteq {Indices[j] : j \in 1..5}
    <2>1. \A s \in Schemas : /\ s.columns \subseteq {"obd", "gps", "ecu"}
                             /\ \/ s.indices = {} \/ s.indices = {Indices[j] : j \in 1..5}
                                \/ s.indices = {"IDX_GPSTIME", "IDX_OBDTIME"}
      BY DEF Schemas
    <2>2. Indices[1] = "IDX_GPSTIME" /\ Indices[3] = "IDX_OBDTIME"
      BY DEF Indices
    <2>3. {"IDX_GPSTIME", "IDX_OBDTIME"} \subseteq {Indices[j] : j \in 1..5}
      BY <2>2
    <2>4. PICK s \in Schemas : columns = s.columns /\ indices = s.indices
      BY DEF Init
    <2> QED
      BY <2>1, <2>3, <2>4 DEF Tables
  <1> QED
    BY <1>1, <1>2, <1>3 DEF Init, TypeOK, FiledTypes, FirstPlace

LEMMA FiledStep == TypeOK /\ [Next]_vars => FiledTypes'
  <1> SUFFICES ASSUME TypeOK, [Next]_vars PROVE FiledTypes'
    OBVIOUS
  <1>1. CASE UNCHANGED filed
    BY <1>1 DEF FiledTypes, TypeOK
  <1>2. CASE filed' = [filed EXCEPT ![Table] = FileRows(Table, place.trip)] /\ place.trip \in DOMAIN trips
    <2>1. Table \in Tables /\ place.trip \in Nat
      BY ConstantsOfTables DEF Table, TypeOK
    <2>2. /\ DOMAIN FileRows(Table, place.trip) = DOMAIN filed[Table]
          /\ FileRows(Table, place.trip) \in [DOMAIN filed[Table] -> Nat]
      BY <2>1 DEF FileRows, TypeOK
    <2>3. \A t \in Tables : filed'[t] = IF t = Table THEN FileRows(t, place.trip) ELSE filed[t]
      BY <1>2, <2>1 DEF TypeOK
    <2>4. DOMAIN filed' = Tables
      BY <1>2 DEF TypeOK
    <2> QED
      BY <2>2, <2>3, <2>4 DEF FiledTypes, TypeOK
  <1> QED
    BY <1>1, <1>2, FiledChange

LEMMA TypeStep == TypeOK /\ [Next]_vars => TypeOK'
  <1> SUFFICES ASSUME TypeOK, [Next]_vars PROVE TypeOK'
    OBVIOUS
  <1>1. trips' \in Seq(TripRows)
    BY TripsChange, FilledTrips DEF TypeOK
  <1>2. /\ noVinIndex' \in BOOLEAN /\ runs' \in Nat /\ added' \subseteq Tables
    <2>1. noVinIndex' = noVinIndex /\ (runs' = runs \/ runs' = runs + 1)
      BY DEF Next, vars, logVars, Start, CheckTripEnds, FindTripColumn, AddTripColumn,
         CannotFile, FileTrip, FiledAll, CheckIndex, CheckObdEcu, Killed
    <2>2. added' = added \/ added' = added \cup {Table}
      BY DEF Next, vars, logVars, Start, CheckTripEnds, FindTripColumn, AddTripColumn,
         CannotFile, FileTrip, FiledAll, CheckIndex, CheckObdEcu, Killed
    <2>3. Table \in Tables
      BY ConstantsOfTables DEF Table, TypeOK
    <2> QED
      BY <2>1, <2>2, <2>3 DEF TypeOK
  <1>3. columns' \subseteq Tables \cup {"ecu"} /\ indices' \subseteq {Indices[j] : j \in 1..5}
    BY ConstantsOfTables DEF TypeOK, Next, vars, logVars, Start, CheckTripEnds, FindTripColumn,
       AddTripColumn, CannotFile, FileTrip, FiledAll, CheckIndex, CheckObdEcu, Killed, Table
  <1>4. /\ pc' \in {"idle", "ends", "column", "file", "index", "ecu"}
        /\ place' \in [table : 1..2, trip : Nat \ {0}, index : 1..5]
    <2>1. CASE NextTable
      BY <2>1, NextTablePlace
    <2>2. CASE CheckIndex
      BY <2>2, GoOnPlace DEF CheckIndex, TypeOK
    <2>3. CASE FileTrip
      BY <2>3 DEF FileTrip, TypeOK
    <2>4. CASE AddTripColumn /\ ~NextTable
      BY <2>4 DEF AddTripColumn, TypeOK
    <2>5. CASE Start \/ CheckTripEnds \/ CheckObdEcu \/ Killed \/ UNCHANGED vars
      BY <2>5 DEF Start, CheckTripEnds, CheckObdEcu, Killed, vars, FirstPlace, TypeOK
    <2> QED
      BY <2>1, <2>2, <2>3, <2>4, <2>5 DEF Next, FindTripColumn, CannotFile, FiledAll
  <1>5. clean' \in BOOLEAN
    <2>1. clean' = clean \/ clean' = FALSE
      BY DEF Next, vars, logVars, Start, CheckTripEnds, FindTripColumn, AddTripColumn,
         CannotFile, FileTrip, FiledAll, CheckIndex, CheckObdEcu, Killed, Refused
    <2> QED
      BY <2>1 DEF TypeOK
  <1> QED
    BY <1>1, <1>2, <1>3, <1>4, <1>5, FiledStep DEF TypeOK, FiledTypes

\* Every reachable state of a repair is well typed.
THEOREM RepairTypes == Spec => []TypeOK
  BY TypeInit, TypeStep, PTL DEF Spec

-----------------------------------------------------------------------------
(* Ends and rows.                                                          *)

\* A trip that has an end keeps it, and no start is touched.
THEOREM RepairKeepsEnds == Spec => EndedTripsKept
  <1>1. TypeOK /\ [Next]_vars =>
          [\A i \in DOMAIN trips :
             /\ trips'[i].start = trips[i].start
             /\ trips[i].end # NoEnd => trips'[i].end = trips[i].end]_vars
    BY TripsChange, FilledTrips DEF TypeOK
  <1> QED
    BY <1>1, RepairTypes, PTL DEF Spec, EndedTripsKept

\* A row is in the time of a trip only if the trip has an end already.
LEMMA WithinIsEnded ==
  ASSUME TypeOK, NEW t \in Tables, NEW time \in DOMAIN filed[t], NEW i \in Within(t, time)
  PROVE  i \in DOMAIN trips /\ trips[i].end # NoEnd
  BY DEF Within, EndRead, NoEnd, NullEnd, TypeOK

LEMMA FilingStep ==
  TypeOK /\ NothingMisfiled /\ UnfiledWithoutColumn /\ [Next]_vars => NothingMisfiled'
  <1> SUFFICES ASSUME TypeOK, NothingMisfiled, UnfiledWithoutColumn, [Next]_vars
               PROVE  NothingMisfiled'
    OBVIOUS
  <1>1. added \subseteq Tables
    BY DEF TypeOK
  <1>2. CASE trips' = FillEnds /\ UNCHANGED <<filed, added>>
    <2> SUFFICES ASSUME NEW t \in added, NEW time \in DOMAIN filed[t], filed[t][time] # Unfiled
                 PROVE  filed[t][time] \in Within(t, time)'
      BY <1>2 DEF NothingMisfiled
    <2>1. filed[t][time] \in Within(t, time)
      BY DEF NothingMisfiled
    <2>2. LET i == filed[t][time]
          IN  i \in DOMAIN trips /\ trips'[i] = trips[i] /\ DOMAIN trips' = DOMAIN trips
      BY <1>1, <1>2, <2>1, WithinIsEnded, FilledTrips DEF TypeOK
    <2> QED
      BY <2>1, <2>2 DEF Within, EndRead
  <1>3. CASE /\ filed' = [filed EXCEPT ![Table] = FileRows(Table, place.trip)]
             /\ place.trip \in DOMAIN trips /\ UNCHANGED <<trips, added>>
    <2> SUFFICES ASSUME NEW t \in added, NEW time \in DOMAIN filed'[t], filed'[t][time] # Unfiled
                 PROVE  filed'[t][time] \in Within(t, time)
      BY <1>3 DEF NothingMisfiled, Within, EndRead
    <2>1. filed'[t] = IF t = Table THEN FileRows(t, place.trip) ELSE filed[t]
      BY <1>1, <1>3 DEF TypeOK
    <2>2. DOMAIN filed'[t] = DOMAIN filed[t]
      BY <2>1 DEF FileRows
    <2>3. CASE filed'[t][time] = filed[t][time]
      BY <2>2, <2>3 DEF NothingMisfiled
    <2>4. CASE filed'[t][time] # filed[t][time]
      <3>1. /\ trips[place.trip].start < time /\ time < EndRead(place.trip)
            /\ filed'[t][time] = place.trip
        BY <2>1, <2>2, <2>4 DEF FileRows
      <3> QED
        BY <1>3, <3>1 DEF Within
    <2> QED
      BY <2>3, <2>4
  <1>4. CASE UNCHANGED <<trips, filed>>
    <2>1. CASE UNCHANGED added
      BY <1>4, <2>1 DEF NothingMisfiled, Within, EndRead
    <2>2. CASE AddTripColumn /\ added' = added \cup {Table}
      <3>1. Table \in Tables \ columns
        BY <2>2, ConstantsOfTables DEF AddTripColumn, Table, TypeOK
      <3>2. \A time \in DOMAIN filed[Table] : filed'[Table][time] = Unfiled
        BY <1>4, <3>1 DEF UnfiledWithoutColumn
      <3> QED
        BY <1>4, <2>2, <3>2 DEF NothingMisfiled, Within, EndRead
    <2>3. UNCHANGED added \/ (AddTripColumn /\ added' = added \cup {Table})
      BY DEF Next, vars, Start, CheckTripEnds, FindTripColumn, AddTripColumn,
         CannotFile, FileTrip, FiledAll, CheckIndex, CheckObdEcu, Killed
    <2> QED
      BY <2>1, <2>2, <2>3
  <1> QED
    BY <1>2, <1>3, <1>4, TripsChange, FiledChange

LEMMA ColumnsStep ==
  TypeOK /\ UnfiledWithoutColumn /\ [Next]_vars => UnfiledWithoutColumn'
  <1> SUFFICES ASSUME TypeOK, UnfiledWithoutColumn, [Next]_vars PROVE UnfiledWithoutColumn'
    OBVIOUS
  <1>1. columns \subseteq columns'
    BY DEF Next, vars, logVars, Start, CheckTripEnds, FindTripColumn, AddTripColumn,
       CannotFile, FileTrip, FiledAll, CheckIndex, CheckObdEcu, Killed
  <1>2. ASSUME NEW t \in Tables \ columns' PROVE filed'[t] = filed[t]
    <2>1. CASE FileTrip
      <3>1. t # Table
        BY <1>1, <2>1 DEF FileTrip, UnfiledWithoutColumn
      <3> QED
        BY <2>1, <3>1 DEF FileTrip, TypeOK
    <2>2. FileTrip \/ UNCHANGED filed
      BY DEF Next, vars, logVars, Start, CheckTripEnds, FindTripColumn, AddTripColumn,
         CannotFile, FiledAll, CheckIndex, CheckObdEcu, Killed
    <2> QED
      BY <2>1, <2>2
  <1>3. pc' = "file" => Table' \in columns'
    <2>1. CASE FileTrip
      BY <2>1 DEF FileTrip, Table, UnfiledWithoutColumn, TypeOK
    <2>2. CASE AddTripColumn
      BY <2>2 DEF AddTripColumn, Table, NextTable
    <2>3. CASE UNCHANGED vars
      BY <2>3 DEF vars, logVars, Table, UnfiledWithoutColumn
    <2>4. CASE pc' # "file"
      BY <2>4
    <2>5. FileTrip \/ AddTripColumn \/ UNCHANGED vars \/ pc' # "file"
      BY DEF Next, Start, CheckTripEnds, FindTripColumn, CannotFile, FiledAll, CheckIndex,
         CheckObdEcu, Killed, NextTable, GoOn
    <2> QED
      BY <2>1, <2>2, <2>3, <2>4, <2>5
  <1> QED
    BY <1>1, <1>2, <1>3 DEF UnfiledWithoutColumn

LEMMA RepairInit == Init => NothingMisfiled /\ UnfiledWithoutColumn
  <1> SUFFICES ASSUME Init PROVE NothingMisfiled /\ UnfiledWithoutColumn
    OBVIOUS
  <1>1. NothingMisfiled
    BY DEF Init, NothingMisfiled
  <1>2. ASSUME NEW t \in Tables \ columns, NEW time \in DOMAIN filed[t]
        PROVE  filed[t][time] = Unfiled
    <2>1. PICK o \in SUBSET RowTimes["obd"], g \in SUBSET RowTimes["gps"] :
            filed \in [obd : [o -> IF "obd" \in columns THEN DOMAIN trips ELSE {Unfiled}],
                       gps : [g -> IF "gps" \in columns THEN DOMAIN trips ELSE {Unfiled}]]
      BY DEF Init
    <2>2. CASE t = "obd"
      BY <1>2, <2>1, <2>2
    <2>3. CASE t = "gps"
      BY <1>2, <2>1, <2>3
    <2> QED
      BY <2>2, <2>3 DEF Tables
  <1> QED
    BY <1>1, <1>2 DEF Init, UnfiledWithoutColumn

\* Types, the rows filed, and what they rest on.
THEOREM RepairInvariant == Spec => []RepairInv
  <1>1. Init => RepairInv
    BY TypeInit, RepairInit DEF RepairInv
  <1>2. RepairInv /\ [Next]_vars => RepairInv'
    BY TypeStep, FilingStep, ColumnsStep DEF RepairInv
  <1> QED
    BY <1>1, <1>2, PTL DEF Spec

\* However often the repair is killed or refused, and run again, no row is ever
\* filed under a trip whose time it is not in.
THEOREM RepairFiles == Spec => []NothingMisfiled
  <1>1. RepairInv => NothingMisfiled
    BY DEF RepairInv
  <1> QED
    BY <1>1, RepairInvariant, PTL

-----------------------------------------------------------------------------
(* What a run that is not refused anything gets done.                      *)

\* The ends that can be filled in are filled in by the first time.
LEMMA FillsOnce ==
  ASSUME trips \in Seq(TripRows), trips' = FillEnds
  PROVE  FillEnds' = trips'
  <1>1. /\ DOMAIN trips' = DOMAIN trips
        /\ \A i \in DOMAIN trips : /\ trips'[i].start = trips[i].start
                                   /\ trips[i].end # NoEnd => trips'[i] = trips[i]
    BY FilledTrips
  <1>2. DOMAIN trips = 1..Len(trips) /\ Len(trips) \in Nat
    BY LenProperties
  <1>3. \A i \in DOMAIN trips : trips[i] \in TripRows
    BY <1>2, ElementOfSeq
  <1>4. ASSUME NEW i \in DOMAIN trips, trips'[i].end = NoEnd
        PROVE  [trips'[i] EXCEPT !.end = EndBefore(i)'] = trips'[i]
    <2>1. trips[i].end = NoEnd
      BY <1>1, <1>4
    <2>2. trips'[i] = [trips[i] EXCEPT !.end = EndBefore(i)]
      BY <2>1 DEF FillEnds
    <2>3. EndBefore(i)' = EndBefore(i)
      <3>1. CASE i = 1
        BY <3>1 DEF EndBefore
      <3>2. CASE i # 1
        <4>1. i - 1 \in DOMAIN trips
          BY <1>2, <3>2
        <4> QED
          BY <1>1, <3>2, <4>1 DEF EndBefore
      <3> QED
        BY <3>1, <3>2
    <2> QED
      BY <1>3, <2>2, <2>3 DEF TripRows
  <1>5. FillEnds' = [i \in DOMAIN trips' |-> trips'[i]]
    BY <1>1, <1>4 DEF FillEnds
  <1>6. trips' = [i \in DOMAIN trips' |-> trips'[i]]
    BY DEF FillEnds
  <1> QED
    BY <1>5, <1>6

\* An interruption is not forgotten.
LEMMA CleanBefore == [Next]_vars /\ clean' => clean
  BY DEF Next, vars, logVars, Start, CheckTripEnds, FindTripColumn, AddTripColumn,
         CannotFile, FileTrip, FiledAll, CheckIndex, CheckObdEcu, Killed, Refused

LEMMA PlacesStep == TypeOK /\ PlacesInv /\ [Next]_vars => PlacesInv'
  <1> SUFFICES ASSUME TypeOK, PlacesInv, [Next]_vars PROVE PlacesInv'
    OBVIOUS
  <1>0. place \in [table : 1..2, trip : Nat \ {0}, index : 1..5]
    BY DEF TypeOK
  <1>1. ASSUME NextTable, pc \in {"column", "file"} PROVE PlacesInv'
    BY <1>0, <1>1, ConstantsOfTables DEF NextTable, FirstPlace, PlacesInv
  <1>2. CASE Start \/ CheckTripEnds \/ CheckObdEcu \/ Killed
    BY <1>2 DEF Start, CheckTripEnds, CheckObdEcu, Killed, FirstPlace, PlacesInv
  <1>3. CASE FindTripColumn \/ CannotFile \/ FiledAll
    BY <1>1, <1>3 DEF FindTripColumn, CannotFile, FiledAll
  <1>4. CASE AddTripColumn
    BY <1>1, <1>4 DEF AddTripColumn, PlacesInv
  <1>5. CASE FileTrip
    BY <1>0, <1>5 DEF FileTrip, PlacesInv
  <1>6. CASE CheckIndex
    <2>1. pc = "index" /\ pc' \in {"index", "ecu"} /\ place'.trip = place.trip
      BY <1>0, <1>6 DEF CheckIndex, GoOn
    <2> QED
      BY <2>1 DEF PlacesInv
  <1>7. CASE UNCHANGED vars
    BY <1>7 DEF vars, PlacesInv
  <1> QED
    BY <1>2, <1>3, <1>4, <1>5, <1>6, <1>7 DEF Next

LEMMA EndsDoneStep ==
  ASSUME TypeOK, [Next]_vars, added # {} \/ pc \in {"column", "file", "index", "ecu"} => EndsDone,
         clean'
  PROVE  /\ added' # {} \/ pc' \in {"column", "file", "index", "ecu"} => EndsDone'
         /\ added # {} => UNCHANGED trips
  <1>1. ASSUME UNCHANGED trips, EndsDone PROVE EndsDone'
    BY <1>1 DEF EndsDone, FillEnds, EndBefore
  <1>2. CASE CheckTripEnds
    <2>1. trips' = FillEnds /\ added' = added
      BY <1>2 DEF CheckTripEnds, Refused
    <2>2. EndsDone'
      BY <2>1, FillsOnce DEF TypeOK, EndsDone
    <2> QED
      BY <2>1, <2>2 DEF EndsDone
  <1>3. CASE ~CheckTripEnds
    <2>1. UNCHANGED trips
      BY <1>3 DEF Next, vars, logVars, Start, FindTripColumn, AddTripColumn,
         CannotFile, FileTrip, FiledAll, CheckIndex, CheckObdEcu, Killed
    <2>2. CASE added # {} \/ pc \in {"column", "file", "index", "ecu"}
      BY <1>1, <2>1, <2>2
    <2>3. CASE added = {} /\ pc \notin {"column", "file", "index", "ecu"}
      <3>1. added' = {} /\ pc' \notin {"column", "file", "index", "ecu"}
        BY <1>3, <2>3 DEF Next, vars, Start, FindTripColumn, AddTripColumn,
           CannotFile, FileTrip, FiledAll, CheckIndex, CheckObdEcu, Killed
      <3> QED
        BY <2>1, <3>1
    <2> QED
      BY <2>2, <2>3
  <1> QED
    BY <1>2, <1>3

\* A table that is left behind has had the rows of every trip looked for.
LEMMA RowsDoneStep ==
  ASSUME TypeOK, PlacesInv, RowsDone, added # {} => UNCHANGED trips, [Next]_vars, clean'
  PROVE  RowsDone'
  <1> SUFFICES ASSUME NEW t \in added', NEW time \in DOMAIN filed'[t],
                      NEW i \in LookedAt(t)' \cap Within(t, time)'
               PROVE  filed'[t][time] # Unfiled
    BY DEF RowsDone
  <1>0. /\ place.trip \in Nat \ {0} /\ trips \in Seq(TripRows) /\ added \subseteq Tables
        /\ Table \in Tables
    BY ConstantsOfTables DEF TypeOK, Table
  <1>1. DOMAIN trips = 1..Len(trips) /\ Len(trips) \in Nat
    BY <1>0, LenProperties
  <1>2. ASSUME t \in added, filed' = filed, LookedAt(t)' \subseteq LookedAt(t)
        PROVE  filed'[t][time] # Unfiled
    <2>1. i \in LookedAt(t) \cap Within(t, time)
      BY <1>2 DEF Within, EndRead
    <2> QED
      BY <1>2, <2>1 DEF RowsDone
  <1>3. CASE FileTrip
    <2>1. filed' = [filed EXCEPT ![Table] = FileRows(Table, place.trip)]
      BY <1>3 DEF FileTrip, Refused
    <2>2. /\ UNCHANGED <<trips, added>> /\ pc = "file" /\ pc' = "file"
          /\ place'.trip = place.trip + 1 /\ Table' = Table
      BY <1>3 DEF FileTrip, Table, TypeOK
    <2>3. i \in Within(t, time)
      BY <2>2 DEF Within, EndRead
    <2>4. CASE t = Table
      <3>1. filed'[t] = FileRows(t, place.trip)
        BY <1>0, <2>1, <2>4 DEF TypeOK
      <3>2. time \in DOMAIN filed[t]
        BY <3>1 DEF FileRows
      <3>3. i \in 1..place.trip
        <4>1. i \in 1 .. (place.trip + 1) - 1
          BY <2>2, <2>4 DEF LookedAt
        <4> QED
          BY <1>0, <4>1
      <3>4. CASE i = place.trip
        <4>1. filed'[t][time] = place.trip
          BY <2>3, <3>1, <3>2, <3>4 DEF FileRows, Within
        <4> QED
          BY <1>0, <4>1 DEF Unfiled
      <3>5. CASE i # place.trip
        <4>1. i \in 1 .. place.trip - 1
          BY <1>0, <3>3, <3>5
        <4>2. i \in LookedAt(t) \cap Within(t, time)
          BY <2>2, <2>3, <2>4, <4>1 DEF LookedAt
        <4>3. filed[t][time] # Unfiled
          BY <2>2, <3>2, <4>2 DEF RowsDone
        <4>4. filed'[t][time] \in {place.trip, filed[t][time]}
          BY <3>1, <3>2 DEF FileRows
        <4> QED
          BY <1>0, <4>3, <4>4 DEF Unfiled
      <3> QED
        BY <3>4, <3>5
    <2>5. CASE t # Table
      <3>1. filed'[t] = filed[t]
        BY <2>1, <2>5
      <3>2. i \in LookedAt(t) \cap Within(t, time)
        BY <2>2, <2>3, <2>5 DEF LookedAt
      <3> QED
        BY <2>2, <3>1, <3>2 DEF RowsDone
    <2> QED
      BY <2>4, <2>5
  <1>4. CASE FiledAll
    <2>1. pc = "file" /\ place.trip \notin DOMAIN trips /\ UNCHANGED <<trips, filed, added>> /\ pc' # "file"
      BY <1>4 DEF FiledAll, logVars, NextTable
    <2>2. 1..Len(trips) \subseteq 1 .. place.trip - 1
      BY <1>0, <1>1, <2>1
    <2>3. LookedAt(t)' \subseteq LookedAt(t)
      BY <1>1, <2>1, <2>2 DEF LookedAt
    <2> QED
      BY <1>2, <2>1, <2>3
  <1>5. CASE AddTripColumn
    <2>1. pc = "column" /\ pc' = "file" /\ added' = added \cup {Table} /\ place' = place /\ UNCHANGED <<filed, trips>>
      BY <1>5 DEF AddTripColumn, Refused
    <2>2. CASE t = Table
      <3>1. place.trip = 1 /\ Table' = Table
        BY <2>1 DEF PlacesInv, Table
      <3>2. LookedAt(t)' = 1 .. 1 - 1
        BY <2>1, <2>2, <3>1 DEF LookedAt
      <3> QED
        BY <3>2
    <2>3. CASE t # Table
      <3>1. LookedAt(t)' = LookedAt(t)
        BY <2>1, <2>3 DEF LookedAt, Table
      <3> QED
        BY <1>2, <2>1, <2>3, <3>1
    <2> QED
      BY <2>2, <2>3
  <1>6. CASE ~FileTrip /\ ~FiledAll /\ ~AddTripColumn /\ ~UNCHANGED vars
    <2>1. pc # "file" /\ pc' # "file" /\ UNCHANGED <<filed, added>>
      BY <1>6 DEF Next, logVars, Start, CheckTripEnds, FindTripColumn, CannotFile, CheckIndex,
         CheckObdEcu, Killed, Refused, NextTable, GoOn
    <2>2. LookedAt(t)' = LookedAt(t)
      BY <2>1 DEF LookedAt
    <2> QED
      BY <1>2, <2>1, <2>2
  <1>7. CASE UNCHANGED vars
    BY <1>2, <1>7 DEF vars, logVars, LookedAt, Table
  <1> QED
    BY <1>3, <1>4, <1>5, <1>6, <1>7

\* On leaving a table that has its trip column.
LEMMA SchemaNextTable ==
  ASSUME TypeOK, pc \in {"column", "file"}, SchemaDone, Table \in columns', columns \subseteq columns',
         NextTable
  PROVE  SchemaDone'
  <1>0. /\ place \in [table : 1..2, trip : Nat \ {0}, index : 1..5]
        /\ Tables = {TableOrder[1], TableOrder[2]}
    BY DEF TypeOK, Tables, TableOrder
  <1>1. CASE place.table = 1
    <2>1. pc' = "column" /\ place'.table = 2 /\ TableOrder[1] \in columns'
      BY <1>0, <1>1, ConstantsOfTables DEF NextTable, FirstPlace, Table
    <2>2. \A i \in 1 .. 2 - 1 : TableOrder[i] \in columns'
      BY <2>1
    <2> QED
      BY <2>1, <2>2 DEF SchemaDone
  <1>2. CASE place.table # 1
    <2>1. place.table = 2
      BY <1>0, <1>2
    <2>2. pc' = "index" /\ place'.index = 1 /\ TableOrder[2] \in columns'
      BY <1>0, <2>1, ConstantsOfTables DEF NextTable, FirstPlace, Table
    <2>3. 1 \in 1 .. 2 - 1
      OBVIOUS
    <2>4. TableOrder[1] \in columns
      BY <2>1, <2>3 DEF SchemaDone
    <2>5. Tables \subseteq columns'
      BY <1>0, <2>2, <2>4
    <2>6. 1 .. 1 - 1 = {}
      OBVIOUS
    <2> QED
      BY <2>2, <2>5, <2>6 DEF SchemaDone
  <1> QED
    BY <1>1, <1>2

\* The index the loop is at is there when it goes on, or can never be.
LEMMA SchemaCheckIndex ==
  ASSUME TypeOK, SchemaDone, CheckIndex, clean'
  PROVE  SchemaDone'
  <1>0. place \in [table : 1..2, trip : Nat \ {0}, index : 1..5]
    BY DEF TypeOK
  <1>1. /\ pc = "index" /\ UNCHANGED <<columns, noVinIndex>> /\ indices \subseteq indices' /\ GoOn
        /\ Indices[place.index] \in indices' \/ ~CanIndex
    BY DEF CheckIndex, Refused
  <1>2. Tables \subseteq columns /\ \A j \in 1 .. place.index - 1 : Indexed(j)
    BY <1>1 DEF SchemaDone
  <1>3. ASSUME NEW j \in 1 .. place.index PROVE Indexed(j)'
    <2>1. CASE j = place.index
      <3>1. CASE CanIndex
        BY <1>1, <2>1, <3>1 DEF Indexed
      <3>2. CASE ~CanIndex
        <4>1. Indices[place.index] = "IDX_VINECU" /\ noVinIndex
          BY <1>2, <3>2 DEF CanIndex, Tables
        <4>2. place.index = 5
          BY <1>0, <4>1 DEF Indices
        <4> QED
          BY <1>1, <2>1, <4>1, <4>2 DEF Indexed
      <3> QED
        BY <3>1, <3>2
    <2>2. CASE j # place.index
      <3>1. j \in 1 .. place.index - 1
        BY <1>0, <2>2
      <3> QED
        BY <1>1, <1>2, <3>1 DEF Indexed
    <2> QED
      BY <2>1, <2>2
  <1>4. CASE place.index = 5
    <2>1. pc' = "ecu" /\ \A j \in 1..5 : Indexed(j)'
      BY <1>1, <1>3, <1>4, ConstantsOfTables DEF GoOn
    <2> QED
      BY <1>1, <1>2, <2>1 DEF SchemaDone
  <1>5. CASE place.index # 5
    <2>1. pc' = "index" /\ place'.index = place.index + 1
      BY <1>0, <1>1, <1>5, ConstantsOfTables DEF GoOn
    <2>2. 1 .. place'.index - 1 = 1 .. place.index
      BY <1>0, <2>1
    <2> QED
      BY <1>1, <1>2, <1>3, <2>1, <2>2 DEF SchemaDone
  <1> QED
    BY <1>4, <1>5

LEMMA SchemaDoneStep ==
  ASSUME TypeOK, PlacesInv, UnfiledWithoutColumn, SchemaDone, SchemaIsCurrent, [Next]_vars, clean, clean'
  PROVE  SchemaDone' /\ SchemaIsCurrent'
  <1>1. CASE Start
    BY <1>1 DEF Start, logVars, SchemaDone, SchemaIsCurrent
  <1>2. CASE CheckTripEnds
    <2>1. pc' = "column" /\ place'.table = 1
      BY <1>2 DEF CheckTripEnds, PlacesInv
    <2>2. 1 .. 1 - 1 = {}
      OBVIOUS
    <2> QED
      BY <2>1, <2>2 DEF SchemaDone, SchemaIsCurrent
  <1>3. ASSUME NextTable PROVE SchemaIsCurrent'
    BY <1>3 DEF NextTable, SchemaIsCurrent
  <1>4. CASE FindTripColumn
    BY <1>3, <1>4, SchemaNextTable DEF FindTripColumn, logVars
  <1>5. CASE FiledAll
    BY <1>3, <1>5, SchemaNextTable DEF FiledAll, logVars, UnfiledWithoutColumn
  <1>6. CASE FileTrip
    BY <1>6 DEF FileTrip, SchemaDone, SchemaIsCurrent, TypeOK
  <1>7. CASE AddTripColumn
    <2>1. /\ pc = "column" /\ pc' = "file" /\ place' = place /\ columns \subseteq columns'
          /\ indices' = indices
      BY <1>7 DEF AddTripColumn, Refused
    <2> QED
      BY <2>1 DEF SchemaDone, SchemaIsCurrent
  <1>8. CASE CheckIndex
    <2>1. SchemaDone'
      BY <1>8, SchemaCheckIndex
    <2>2. pc' # "idle"
      BY <1>8 DEF CheckIndex, GoOn
    <2> QED
      BY <2>1, <2>2 DEF SchemaIsCurrent
  <1>9. CASE CheckObdEcu
    <2>1. /\ pc = "ecu" /\ pc' = "idle" /\ columns' = columns \cup {"ecu"}
          /\ UNCHANGED <<indices, noVinIndex>>
      BY <1>9 DEF CheckObdEcu, Refused
    <2>2. Tables \subseteq columns /\ columns \subseteq Tables \cup {"ecu"} /\ \A j \in 1..5 : Indexed(j)
      BY <2>1 DEF SchemaDone, TypeOK
    <2> QED
      BY <2>1, <2>2 DEF SchemaDone, SchemaIsCurrent, Indexed
  <1>10. CASE CannotFile \/ Killed
    BY <1>10 DEF CannotFile, Killed, Refused
  <1>11. CASE UNCHANGED vars
    BY <1>11 DEF vars, logVars, SchemaDone, SchemaIsCurrent, Indexed
  <1> QED
    BY <1>1, <1>2, <1>4, <1>5, <1>6, <1>7, <1>8, <1>9, <1>10, <1>11 DEF Next

LEMMA ProgressInit == Init => ProgressInv
  <1> SUFFICES ASSUME Init PROVE ProgressInv
    OBVIOUS
  <1>1. PlacesInv
    BY DEF Init, FirstPlace, PlacesInv
  <1>2. RowsDone /\ SchemaDone /\ SchemaIsCurrent
    BY DEF Init, RowsDone, SchemaDone, SchemaIsCurrent
  <1> QED
    BY <1>1, <1>2 DEF Init, ProgressInv

LEMMA ProgressStep ==
  TypeOK /\ UnfiledWithoutColumn /\ ProgressInv /\ [Next]_vars => ProgressInv'
  <1> SUFFICES ASSUME TypeOK, UnfiledWithoutColumn, ProgressInv, [Next]_vars PROVE ProgressInv'
    OBVIOUS
  <1>1. PlacesInv'
    BY PlacesStep DEF ProgressInv
  <1>2. ASSUME clean'
        PROVE  /\ added' # {} \/ pc' \in {"column", "file", "index", "ecu"} => EndsDone'
               /\ RowsDone' /\ SchemaDone' /\ SchemaIsCurrent'
    <2>1. clean
      BY <1>2, CleanBefore
    <2>2. /\ added' # {} \/ pc' \in {"column", "file", "index", "ecu"} => EndsDone'
          /\ added # {} => UNCHANGED trips
      BY <1>2, <2>1, EndsDoneStep DEF ProgressInv
    <2>3. RowsDone'
      BY <1>2, <2>1, <2>2, RowsDoneStep DEF ProgressInv
    <2>4. SchemaDone' /\ SchemaIsCurrent'
      BY <1>2, <2>1, SchemaDoneStep DEF ProgressInv
    <2> QED
      BY <2>2, <2>3, <2>4
  <1> QED
    BY <1>1, <1>2 DEF ProgressInv

\* How far a run has come at any of its steps, as long as nothing is refused and
\* no run is killed.
THEOREM RepairProgress == Spec => []ProgressInv
  <1>1. RepairInv /\ ProgressInv /\ [Next]_vars => ProgressInv'
    BY ProgressStep DEF RepairInv
  <1> QED
    BY <1>1, ProgressInit, RepairInvariant, PTL DEF Spec

\* As long as nothing is refused and no run is killed, a run that has ended has
\* filed every row that is in the time of a trip, and leaves the columns and
\* indices of today's schema.
THEOREM RepairCompletes == Spec => []RunCompletes
  <1>1. ProgressInv => RunCompletes
    <2> SUFFICES ASSUME ProgressInv PROVE RunCompletes
      OBVIOUS
    <2>1. ASSUME pc = "idle", clean, NEW t \in added, NEW time \in DOMAIN filed[t],
                 Within(t, time) # {}
          PROVE  filed[t][time] # Unfiled
      <3>1. RowsDone /\ LookedAt(t) = DOMAIN trips
        BY <2>1 DEF ProgressInv, LookedAt
      <3>2. LookedAt(t) \cap Within(t, time) # {}
        BY <2>1, <3>1 DEF Within
      <3> QED
        BY <3>1, <3>2 DEF RowsDone
    <2>2. EveryTripFiled
      BY <2>1 DEF EveryTripFiled
    <2>3. SchemaIsCurrent
      BY DEF ProgressInv, SchemaIsCurrent
    <2> QED
      BY <2>2, <2>3 DEF RunCompletes
  <1> QED
    BY <1>1, RepairProgress, PTL
=============================================================================
