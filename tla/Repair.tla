------------------------------- MODULE Repair -------------------------------
(***************************************************************************)
(* obdlogrepair: what it does to a log that the logger, or a repair before *)
(* it, left behind (repair/obdrepair.c, in the order of obdrepairmain.c).  *)
(*                                                                         *)
(* Every SQL statement is a transaction of its own, so the tool may be     *)
(* killed between any two; and every one may be refused while another      *)
(* process holds the database, for main() sets no busy timeout and looks   *)
(* at no result.  Times are in hundredths of a second.  ANALYZE and the    *)
(* integrity check change nothing that is modelled.                        *)
(***************************************************************************)
EXTENDS Integers, Sequences

CONSTANTS
  Times,      \* when trips start and end
  RowTimes,   \* the times the rows of a table may have
  MaxTrips,   \* bound: trips in the log
  MaxRuns     \* bound: how often the log is repaired

Tables == {"obd", "gps"}
TableOrder == <<"obd", "gps">>
Indices == <<"IDX_GPSTIME", "IDX_GPSTRIP", "IDX_OBDTIME", "IDX_OBDTRIP", "IDX_VINECU">>

ASSUME RepairAssumption ==
  /\ Times \subseteq Nat
  /\ RowTimes \in [Tables -> SUBSET Nat]
  /\ MaxTrips \in Nat /\ MaxRuns \in Nat

NoEnd   == -1   \* trip.end DEFAULT -1
NullEnd == -2   \* SQL's NULL in trip.end
Unfiled == 0    \* NULL in the trip column

VARIABLES
  pc,        \* "idle", "ends", "column", "file", "index" or "ecu"
  trips,     \* the trip table; tripids count from 1
  filed,     \* per table, the trip of the row with this time
  columns,   \* the columns there are: tables with "trip", and "ecu" of obd
  indices,   \* the indices there are
  noVinIndex, \* there is no ecu table, or it has two rows with the same vin and ecu
  place,     \* which table, trip or index the loops are at
  runs,
  added,     \* history: the tables that got their trip column here
  clean      \* history: nothing was refused and no run was killed

logVars  == <<trips, filed, columns, indices, noVinIndex>>
vars == <<pc, logVars, place, runs, added, clean>>

\* What a logger leaves: trips one after the other, any of them without an end.
LoggedTrips ==
  {s \in UNION {[1..n -> [start : Times, end : Times \cup {NoEnd}]] : n \in 0..MaxTrips} :
     /\ \A i \in DOMAIN s : s[i].end = NoEnd \/ s[i].start <= s[i].end
     /\ \A i, j \in DOMAIN s : i < j => s[i].start <= s[j].start /\ s[i].end <= s[j].start}

\* The columns and indices of the versions of the logger: the oldest had none.
Schemas ==
  {[columns |-> c, indices |-> {}] : c \in {{}, {"gps"}, {"obd", "gps"}, {"obd", "gps", "ecu"}}}
    \cup {[columns |-> {}, indices |-> {"IDX_GPSTIME", "IDX_OBDTIME"}],
          [columns |-> {"obd", "gps", "ecu"}, indices |-> {Indices[j] : j \in 1..5}]}

FirstPlace == [table |-> 1, trip |-> 1, index |-> 1]

Init ==
  /\ pc = "idle" /\ trips \in LoggedTrips
  /\ \E s \in Schemas : columns = s.columns /\ indices = s.indices
  /\ \E o \in SUBSET RowTimes["obd"], g \in SUBSET RowTimes["gps"] :
       filed \in [obd : [o -> IF "obd" \in columns THEN DOMAIN trips ELSE {Unfiled}],
                  gps : [g -> IF "gps" \in columns THEN DOMAIN trips ELSE {Unfiled}]]
  /\ noVinIndex \in BOOLEAN /\ (noVinIndex => "IDX_VINECU" \notin indices)
  /\ place = FirstPlace
  /\ runs = 0 /\ added = {} /\ clean = TRUE

-----------------------------------------------------------------------------
Start ==
  /\ pc = "idle" /\ runs < MaxRuns
  /\ runs' = runs + 1 /\ pc' = "ends"
  /\ UNCHANGED <<logVars, place, added, clean>>

\* Another process holds the database just then: the statement changes nothing,
\* and nobody notices.
Refused == clean' = FALSE

\* The subquery of checktripends(): the start of the trip whose id is one less.
EndBefore(i) == IF i = 1 THEN NullEnd ELSE trips[i - 1].start - 1

\* UPDATE trip SET end = ... WHERE trip.end = -1
FillEndsAnyhow == [i \in DOMAIN trips |-> [trips[i] EXCEPT !.end = EndBefore(i)]]

FillEnds ==
  [i \in DOMAIN trips |-> IF trips[i].end = NoEnd
                            THEN [trips[i] EXCEPT !.end = EndBefore(i)]
                            ELSE trips[i]]

CheckTripEnds ==
  /\ pc = "ends"
  /\ \/ Refused /\ UNCHANGED trips
     \/ trips' = FillEnds /\ UNCHANGED clean
  /\ pc' = "column" /\ UNCHANGED place
  /\ UNCHANGED <<filed, columns, indices, noVinIndex, runs, added>>

NextTableForever ==
  pc' = "column" /\ place' = [FirstPlace EXCEPT !.table = place.table + 1]

\* On to the table after this one, or to the indices.
NextTable ==
  IF place.table = Len(TableOrder)
    THEN pc' = "index" /\ place' = FirstPlace
    ELSE pc' = "column" /\ place' = [FirstPlace EXCEPT !.table = place.table + 1]

Table == TableOrder[place.table]

\* checktripids() leaves a table alone that has a trip column.
FindTripColumn ==
  /\ pc = "column" /\ Table \in columns
  /\ NextTable
  /\ UNCHANGED <<logVars, runs, added, clean>>

AddTripColumn ==
  /\ pc = "column" /\ Table \notin columns
  /\ \/ Refused /\ NextTable /\ UNCHANGED <<columns, added>>
     \/ /\ columns' = columns \cup {Table} /\ added' = added \cup {Table}
        /\ pc' = "file" /\ UNCHANGED <<place, clean>>
  /\ UNCHANGED <<trips, filed, indices, noVinIndex, runs>>

\* The SELECT over the trips, or the UPDATE, cannot be prepared.
CannotFile ==
  /\ pc = "file" /\ place.trip = 1
  /\ Refused /\ NextTable
  /\ UNCHANGED <<logVars, runs, added>>

\* A NULL is read as zero.
EndRead(i) == IF trips[i].end = NullEnd THEN 0 ELSE trips[i].end

\* UPDATE ... SET trip=i WHERE time>start AND time<end
FileRows(t, i) ==
  [time \in DOMAIN filed[t] |->
     IF trips[i].start < time /\ time < EndRead(i) THEN i ELSE filed[t][time]]

\* One trip of the SELECT's.
FileTrip ==
  /\ pc = "file" /\ place.trip \in DOMAIN trips
  /\ \/ Refused /\ UNCHANGED filed
     \/ filed' = [filed EXCEPT ![Table] = FileRows(Table, place.trip)] /\ UNCHANGED clean
  /\ place' = [place EXCEPT !.trip = @ + 1]
  /\ UNCHANGED <<pc, trips, columns, indices, noVinIndex, runs, added>>

SkipsLastTrip ==
  /\ pc = "file" /\ place.trip \notin 1..Len(trips) - 1
  /\ NextTable
  /\ UNCHANGED <<logVars, runs, added, clean>>

FiledAll ==
  /\ pc = "file" /\ place.trip \notin DOMAIN trips
  /\ NextTable
  /\ UNCHANGED <<logVars, runs, added, clean>>

\* checkindices() looks at the result of its first checkindex() only.
GoOn ==
  IF place.index = Len(Indices) THEN pc' = "ecu" /\ UNCHANGED place
  ELSE pc' = pc /\ place' = [place EXCEPT !.index = @ + 1]

\* An index needs its column, and a unique one needs unlike rows.
CanIndex ==
  /\ Indices[place.index] = "IDX_GPSTRIP" => "gps" \in columns
  /\ Indices[place.index] = "IDX_OBDTRIP" => "obd" \in columns
  /\ Indices[place.index] = "IDX_VINECU" => ~noVinIndex

CheckIndex ==
  /\ pc = "index"
  /\ \/ /\ Indices[place.index] \in indices \/ ~CanIndex
        /\ GoOn /\ UNCHANGED <<indices, clean>>
     \/ /\ Indices[place.index] \notin indices /\ CanIndex
        /\ indices' = indices \cup {Indices[place.index]}
        /\ GoOn /\ UNCHANGED clean
     \/ /\ Refused /\ UNCHANGED indices
        /\ IF place.index = 1 THEN pc' = "ecu" /\ UNCHANGED place ELSE GoOn
  /\ UNCHANGED <<trips, filed, columns, noVinIndex, runs, added>>

\* checkobdecu(), the last that changes anything.
CheckObdEcu ==
  /\ pc = "ecu" /\ pc' = "idle"
  /\ \/ Refused /\ UNCHANGED columns
     \/ columns' = columns \cup {"ecu"} /\ UNCHANGED clean
  /\ place' = FirstPlace
  /\ UNCHANGED <<trips, filed, indices, noVinIndex, runs, added>>

-----------------------------------------------------------------------------
Killed ==
  /\ pc # "idle" /\ pc' = "idle"
  /\ clean' = FALSE /\ place' = FirstPlace
  /\ UNCHANGED <<logVars, runs, added>>

Next ==
  \/ Start \/ CheckTripEnds \/ FindTripColumn \/ AddTripColumn \/ CannotFile
  \/ FileTrip \/ FiledAll \/ CheckIndex \/ CheckObdEcu \/ Killed

Spec == Init /\ [][Next]_vars

-----------------------------------------------------------------------------
(* Properties.                                                             *)

TripRows == [start : Nat, end : Int]

TypeOK ==
  /\ pc \in {"idle", "ends", "column", "file", "index", "ecu"}
  /\ trips \in Seq(TripRows)
  /\ DOMAIN filed = Tables
  /\ \A t \in Tables : DOMAIN filed[t] \subseteq Nat /\ filed[t] \in [DOMAIN filed[t] -> Nat]
  /\ columns \subseteq Tables \cup {"ecu"}
  /\ indices \subseteq {Indices[j] : j \in 1..5}
  /\ place \in [table : 1..2, trip : Nat \ {0}, index : 1..5]
  /\ noVinIndex \in BOOLEAN /\ clean \in BOOLEAN
  /\ runs \in Nat /\ added \subseteq Tables

\* A trip that has an end, from the logger or from a repair before, keeps it, and
\* no start is ever touched (checktripends).
EndedTripsKept ==
  [][\A i \in DOMAIN trips :
       /\ trips'[i].start = trips[i].start
       /\ trips[i].end # NoEnd => trips'[i].end = trips[i].end]_vars

Within(t, time) == {i \in DOMAIN trips : trips[i].start < time /\ time < EndRead(i)}

\* Whatever was refused, and wherever a run was killed, a row of a table that got
\* its trip column here is in the time of the trip it was filed under, for good:
\* no end that is filled in later takes it out again (checktripids after a
\* checktripends of another run).
NothingMisfiled ==
  \A t \in added : \A time \in DOMAIN filed[t] :
    filed[t][time] # Unfiled => filed[t][time] \in Within(t, time)

\* When nothing was refused, every row of such a table that is in the time of a
\* trip is filed (checktripids).
EveryTripFiled ==
  pc = "idle" /\ clean =>
    \A t \in added : \A time \in DOMAIN filed[t] :
      Within(t, time) # {} => filed[t][time] # Unfiled

\* A run that was not refused anything leaves the columns and indices of today's
\* schema, whatever the version of the log was (checkindices, checkobdecu).
SchemaIsCurrent ==
  pc = "idle" /\ clean /\ runs > 0 =>
    /\ columns = Tables \cup {"ecu"}
    /\ \A j \in 1..5 : Indices[j] \in indices \/ (noVinIndex /\ j = 5)

\* A run that was not refused anything has done all there was to do.
RunCompletes == EveryTripFiled /\ SchemaIsCurrent

\* obdrepair.h calls checktripends "Fix ends of trips": after a run that was not
\* refused anything, a trip ends after it has started.
EndsAreFixed ==
  pc = "idle" /\ clean /\ runs > 0 => \A i \in DOMAIN trips : trips[i].start <= trips[i].end

\* What the proofs are by: nothing is filed in a table without a trip column, and
\* rows are only looked for in a table that has one.
UnfiledWithoutColumn ==
  /\ \A t \in Tables \ columns : \A time \in DOMAIN filed[t] : filed[t][time] = Unfiled
  /\ pc = "file" => Table \in columns

RepairInv == TypeOK /\ NothingMisfiled /\ UnfiledWithoutColumn

\* and of a run that was not refused anything: the loops start from their first
\* places;
PlacesInv ==
  /\ pc # "file" => place.trip = 1
  /\ pc \notin {"index", "ecu"} => place.index = 1
  /\ pc \in {"idle", "ends"} => place.table = 1

\* no end is left to fill in by the time rows are filed by it;
EndsDone == FillEnds = trips

\* the trips whose rows have been looked for so far have theirs;
LookedAt(t) == IF pc = "file" /\ t = Table THEN 1 .. place.trip - 1 ELSE DOMAIN trips

RowsDone ==
  \A t \in added : \A time \in DOMAIN filed[t] :
    LookedAt(t) \cap Within(t, time) # {} => filed[t][time] # Unfiled

\* and of the tables and indices, all before the place the loops are at.
Indexed(j) == Indices[j] \in indices \/ (noVinIndex /\ j = 5)

SchemaDone ==
  /\ pc \in {"column", "file"} => \A i \in 1 .. place.table - 1 : TableOrder[i] \in columns
  /\ pc \in {"index", "ecu"} => Tables \subseteq columns
  /\ pc = "index" => \A j \in 1 .. place.index - 1 : Indexed(j)
  /\ pc = "ecu" => \A j \in 1..5 : Indexed(j)

ProgressInv ==
  /\ PlacesInv
  /\ clean => /\ added # {} \/ pc \in {"column", "file", "index", "ecu"} => EndsDone
              /\ RowsDone /\ SchemaDone /\ SchemaIsCurrent
=============================================================================
