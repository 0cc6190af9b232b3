---------------------------- MODULE LoggerSteps -----------------------------
(***************************************************************************)
(* What the steps of Logger do to the database, for every value of its     *)
(* constants.  They fall in a few kinds, each summarised by a lemma: those *)
(* that leave the database alone (QuietStep), those that write to it       *)
(* inside the transaction (WriteStep), the bottom of the loop (EndStep)    *)
(* and the ends of the process (GoneStep).                                 *)
(***************************************************************************)
EXTENDS LoggerProofs

Quiet ==
  \/ SamplesDone \/ ClockFails \/ DBusDone \/ ClearSignal \/ NoStartSignal
  \/ QueryColumn \/ QuerySpins \/ QueryDone \/ RecordError \/ GpsNothing \/ GpsReconnect
  \/ Outside

Writing ==
  DBusStart \/ HonourStart \/ RecordSample \/ RecordNothing \/ KeepTrip \/ GpsFix

Frozen == <<disk, conn, intx, refused, currenttrip, ontrip, clock, transactioncount>>

\* A quiet step moves pc along and reads the clock into time_insert at most.
LEMMA QuietStep ==
  ASSUME Quiet
  PROVE  /\ UNCHANGED Frozen
         /\ \/ pc' = pc /\ time_insert' = time_insert
            \/ pc \in {"top", "tail"} /\ pc' = "flush" /\ time_insert' = time_insert
            \/ pc = "dbus" /\ pc' = "signal" /\ time_insert' = clock
            \/ pc \in {"signal", "clear"} /\ pc' \in {"query", "update"}
               /\ time_insert' = time_insert
            \/ pc = "query" /\ pc' \in {"record", "spin"} /\ time_insert' = time_insert
            \/ pc = "record" /\ pc' = "update" /\ time_insert' = time_insert
            \/ pc = "gps" /\ pc' = "tail" /\ time_insert' = time_insert
  <1> USE DEF Frozen, dbVars, tripVars, obdVars, devVars, sigVars, outVars, loopVars
  <1>1. CASE SamplesDone
    BY <1>1 DEF SamplesDone
  <1>2. CASE ClockFails
    BY <1>2 DEF ClockFails
  <1>3. CASE DBusDone
    BY <1>3 DEF DBusDone
  <1>4. CASE ClearSignal
    BY <1>4 DEF ClearSignal, AfterSignal
  <1>5. CASE NoStartSignal
    BY <1>5 DEF NoStartSignal, AfterSignal
  <1>6. CASE QueryColumn
    BY <1>6 DEF QueryColumn
  <1>7. CASE QuerySpins \/ QueryDone
    BY <1>7 DEF QuerySpins, QueryDone
  <1>8. CASE RecordError
    BY <1>8 DEF RecordError
  <1>9. CASE GpsNothing \/ GpsReconnect
    BY <1>9 DEF GpsNothing, GpsReconnect
  <1>10. CASE Outside
    BY <1>10 DEF Outside, ExitSignal, StartSignal, SendMessage, GpsdDies, Hold, LetGo
  <1> QED
    BY <1>1, <1>2, <1>3, <1>4, <1>5, <1>6, <1>7, <1>8, <1>9, <1>10 DEF Quiet

\* What a writing step does to the trip table: a trip is left as it is, or is
\* the current one and ends now; at most one is added, open and current.
OldTripKept(i) ==
  \/ conn'.trips[i] = conn.trips[i]
  \/ /\ i = currenttrip /\ time_insert = clock /\ pc # "dbus"
     /\ conn'.trips[i].start = conn.trips[i].start
     /\ conn'.trips[i].end = time_insert

TripsWritten ==
  /\ \A i \in DOMAIN conn.trips : OldTripKept(i)
  /\ \/ /\ Len(conn'.trips) = Len(conn.trips)
        /\ currenttrip' \in {currenttrip, NoTrip}
     \/ /\ Len(conn'.trips) = Len(conn.trips) + 1
        /\ currenttrip' = Len(conn.trips) + 1
        /\ conn'.trips[Len(conn.trips) + 1] = [start |-> time_insert, end |-> NoEnd]

ObdWritten ==
  \/ conn'.obd = conn.obd
  \/ /\ pc = "record" /\ obdstatus = "success"
     /\ conn'.obd = conn.obd \cup {[time |-> time_insert, trip |-> currenttrip',
                                    cols |-> bound]}
     /\ ontrip'

GpsWritten ==
  \/ conn'.gps = conn.gps
  \/ /\ pc = "gps"
     /\ conn'.gps = conn.gps \cup {[time |-> time_insert, trip |-> currenttrip]}

WriteEffect ==
  /\ UNCHANGED <<disk, intx, refused, clock, time_insert, transactioncount>>
  /\ conn' \in Databases(Columns)
  /\ conn' = conn \/ conn'.locked
  /\ conn.locked => conn'.locked
  /\ TripsWritten /\ ObdWritten /\ GpsWritten
  /\ OpenTripInv'
  /\ ontrip' => currenttrip' # Unfiled
  /\ \/ pc = "dbus" /\ pc' = "dbus"
     \/ pc = "signal" /\ pc' = "clear"
     \/ pc = "record" /\ pc' = "update"
     \/ pc = "update" /\ pc' = "gps"
     \/ pc = "gps" /\ pc' = "tail"

\* The steps that write find the transaction open.
LEMMA WriteInTransaction ==
  ASSUME TypeOK, IInv, pc \in {"dbus", "signal", "record", "update", "gps"}
  PROVE  /\ intx
         /\ pc # "dbus" => time_insert = clock
         /\ \A db : Write(db) => conn' = db /\ disk' = disk
  BY DEF IInv, TransactionInv, TimeInv, Write

LEMMA DBusStartEffect ==
  ASSUME TypeOK, IInv, DBusStart
  PROVE  WriteEffect
  <1> USE DEF dbVars, tripVars, obdVars, devVars, sigVars, outVars, loopVars
  <1>1. /\ UNCHANGED <<intx, refused, clock, time_insert, transactioncount>>
        /\ pc = "dbus" /\ pc' = "dbus"
    BY DEF DBusStart
  <1>2. conn \in Databases(Columns) /\ time_insert \in Int
    BY DEF TypeOK
  <1>3. CASE ontrip
    <2>1. UNCHANGED <<disk, conn, currenttrip, ontrip>>
      BY <1>3 DEF DBusStart
    <2>2. OpenTripInv'
      BY <1>1, <2>1 DEF IInv, OpenTripInv
    <2> QED
      BY <1>1, <1>2, <1>3, <2>1, <2>2
      DEF WriteEffect, TripsWritten, OldTripKept, ObdWritten, GpsWritten, IInv,
          CurrentTripIsNewest
  <1>4. CASE ~ontrip
    <2>1. PICK s \in StartTrip(conn, time_insert) :
            Write(s.db) /\ currenttrip' = s.id /\ ontrip' = TRUE
      BY <1>4 DEF DBusStart
    <2>2. conn' = s.db /\ disk' = disk
      BY <1>1, <2>1, WriteInTransaction
    <2>3. \A i \in DOMAIN conn.trips : conn.trips[i].end # NoEnd
      BY <1>4 DEF IInv, OpenTripInv
    <2>4. conn.trips \in Seq(Trips)
      BY <1>2 DEF Databases
    <2>5. CASE s.id = NoTrip /\ s.db = conn
      BY <1>1, <1>2, <2>1, <2>2, <2>3, <2>5
      DEF WriteEffect, TripsWritten, OldTripKept, ObdWritten, GpsWritten, IInv,
          OpenTripInv, Unfiled, NoTrip
    <2>6. CASE /\ s.id = Len(conn.trips) + 1 /\ s.db.locked
               /\ s.db.trips = Append(conn.trips, [start |-> time_insert, end |-> NoEnd])
      <3>1. conn' \in Databases(Columns) /\ conn'.obd = conn.obd /\ conn'.gps = conn.gps
        BY <1>2, <2>2, StartTripResult
      <3>2. /\ Len(conn'.trips) = Len(conn.trips) + 1
            /\ \A i \in DOMAIN conn.trips : conn'.trips[i] = conn.trips[i]
            /\ conn'.trips[Len(conn.trips) + 1] = [start |-> time_insert, end |-> NoEnd]
            /\ DOMAIN conn.trips = 1..Len(conn.trips)
            /\ DOMAIN conn'.trips = 1..(Len(conn.trips) + 1)
            /\ Len(conn.trips) \in Nat
        BY <2>2, <2>4, <2>6
      <3>3. OpenTripInv'
        BY <1>1, <2>1, <2>2, <2>3, <2>6, <3>2 DEF OpenTripInv, IInv
      <3> QED
        BY <1>1, <2>1, <2>2, <2>6, <3>1, <3>2, <3>3
        DEF WriteEffect, TripsWritten, OldTripKept, ObdWritten, GpsWritten, Unfiled
    <2> QED
      BY <1>2, <2>5, <2>6, StartTripResult
  <1> QED
    BY <1>3, <1>4

LEMMA HonourStartEffect ==
  ASSUME TypeOK, IInv, HonourStart
  PROVE  WriteEffect
  <1> USE DEF dbVars, tripVars, obdVars, devVars, sigVars, outVars, loopVars
  <1>1. /\ UNCHANGED <<intx, refused, clock, time_insert, transactioncount>>
        /\ pc = "signal" /\ pc' = "clear" /\ ontrip' = TRUE
    BY DEF HonourStart
  <1>2. /\ conn \in Databases(Columns) /\ time_insert \in Int /\ clock \in Nat
        /\ currenttrip \in TripIds
    BY DEF TypeOK
  <1>3. time_insert = clock
    BY <1>1, WriteInTransaction
  <1>4. conn.trips \in Seq(Trips)
    BY <1>2 DEF Databases
  <1>5. PICK d \in IF ontrip THEN UpdateTrip(conn, currenttrip, time_insert) ELSE {conn} :
          \E s \in StartTrip(d, time_insert) : Write(s.db) /\ currenttrip' = s.id
    BY DEF HonourStart
  <1>6. PICK s \in StartTrip(d, time_insert) : Write(s.db) /\ currenttrip' = s.id
    BY <1>5
  <1>7. conn' = s.db /\ disk' = disk
    BY <1>1, <1>6, WriteInTransaction
  \* The old trip is ended, if there was one.
  <1>8. /\ d \in Databases(Columns) /\ d.obd = conn.obd /\ d.gps = conn.gps
        /\ d = conn \/ d.locked
        /\ conn.locked => d.locked
        /\ Len(d.trips) = Len(conn.trips)
        /\ \A i \in DOMAIN conn.trips :
             /\ d.trips[i].end # NoEnd
             /\ \/ d.trips[i] = conn.trips[i]
                \/ /\ i = currenttrip
                   /\ d.trips[i].start = conn.trips[i].start
                   /\ d.trips[i].end = time_insert
    <2>1. CASE ~ontrip
      BY <1>2, <1>5, <2>1 DEF IInv, OpenTripInv
    <2>2. CASE ontrip /\ d = conn /\ (currenttrip = NoTrip \/ ~conn.locked)
      BY <1>2, <1>4, <2>2 DEF IInv, OpenTripInv, NoTrip
    <2>3. CASE ontrip /\ ~(d = conn /\ (currenttrip = NoTrip \/ ~conn.locked))
      <3>1. /\ d \in Databases(Columns) /\ d.obd = conn.obd /\ d.gps = conn.gps
            /\ d.locked
            /\ Len(d.trips) = Len(conn.trips)
            /\ \A i \in DOMAIN conn.trips :
                 /\ d.trips[i].start = conn.trips[i].start
                 /\ d.trips[i].end = IF i = currenttrip THEN time_insert
                                                        ELSE conn.trips[i].end
                 /\ i # currenttrip => d.trips[i] = conn.trips[i]
        BY <1>2, <1>5, <2>3, UpdateTripResult
      <3>2. \A i \in DOMAIN conn.trips : conn.trips[i].end = NoEnd => i = currenttrip
        BY DEF IInv, OpenTripInv
      <3> QED
        BY <1>2, <1>3, <3>1, <3>2 DEF NoEnd
    <2> QED
      BY <2>1, <2>2, <2>3
  <1>9. d.trips \in Seq(Trips) /\ DOMAIN d.trips = DOMAIN conn.trips
        /\ DOMAIN conn.trips = 1..Len(conn.trips) /\ Len(conn.trips) \in Nat
    BY <1>4, <1>8 DEF Databases
  <1>10. \A i \in DOMAIN conn.trips : conn'.trips[i] = d.trips[i] => OldTripKept(i)
    BY <1>1, <1>3, <1>8 DEF OldTripKept
  <1>11. CASE s.id = NoTrip /\ s.db = d
    <2>1. OpenTripInv'
      BY <1>1, <1>7, <1>8, <1>9, <1>11 DEF IInv, OpenTripInv
    <2> QED
      BY <1>1, <1>6, <1>7, <1>8, <1>10, <1>11, <2>1
      DEF WriteEffect, TripsWritten, ObdWritten, GpsWritten, Unfiled, NoTrip
  <1>12. CASE /\ s.id = Len(d.trips) + 1 /\ s.db.locked
              /\ s.db.trips = Append(d.trips, [start |-> time_insert, end |-> NoEnd])
    <2>1. conn' \in Databases(Columns) /\ conn'.obd = conn.obd /\ conn'.gps = conn.gps
      BY <1>2, <1>7, <1>8, StartTripResult
    <2>2. /\ Len(conn'.trips) = Len(conn.trips) + 1
          /\ \A i \in DOMAIN conn.trips : conn'.trips[i] = d.trips[i]
          /\ conn'.trips[Len(conn.trips) + 1] = [start |-> time_insert, end |-> NoEnd]
          /\ DOMAIN conn'.trips = 1..(Len(conn.trips) + 1)
      BY <1>7, <1>8, <1>9, <1>12
    <2>3. OpenTripInv'
      BY <1>1, <1>6, <1>7, <1>8, <1>9, <1>12, <2>2 DEF OpenTripInv, IInv
    <2> QED
      BY <1>1, <1>6, <1>7, <1>8, <1>9, <1>10, <1>12, <2>1, <2>2, <2>3
      DEF WriteEffect, TripsWritten, ObdWritten, GpsWritten, Unfiled
  <1> QED
    BY <1>2, <1>8, <1>11, <1>12, StartTripResult

LEMMA RecordSampleEffect ==
  ASSUME TypeOK, IInv, RecordSample
  PROVE  WriteEffect
  <1> USE DEF dbVars, tripVars, obdVars, devVars, sigVars, outVars, loopVars
  <1>1. /\ UNCHANGED <<intx, refused, clock, time_insert, transactioncount>>
        /\ pc = "record" /\ pc' = "update" /\ ontrip' = TRUE /\ obdstatus = "success"
    BY DEF RecordSample
  <1>2. conn \in Databases(Columns) /\ time_insert \in Int /\ currenttrip \in TripIds
        /\ bound \in [1..Columns -> Int]
    BY DEF TypeOK
  <1>3. conn.trips \in Seq(Trips) /\ Len(conn.trips) \in Nat
        /\ DOMAIN conn.trips = 1..Len(conn.trips)
    BY <1>2 DEF Databases
  <1>4. PICK s \in IF ontrip THEN {[db |-> conn, id |-> currenttrip]}
                   ELSE StartTrip(conn, time_insert) :
          /\ \E d \in InsertObd(s.db, [time |-> time_insert, trip |-> s.id,
                                       cols |-> bound]) : Write(d)
          /\ currenttrip' = s.id
    BY DEF RecordSample
  \* The trip is the running one, or is started.
  <1>5. /\ s.db \in Databases(Columns) /\ s.id \in TripIds /\ s.id # Unfiled
        /\ s.db.obd = conn.obd /\ s.db.gps = conn.gps
        /\ s.db = conn \/ s.db.locked
        /\ conn.locked => s.db.locked
        /\ \/ s.db = conn /\ s.id \in {currenttrip, NoTrip}
           \/ /\ s.id = Len(conn.trips) + 1
              /\ s.db.trips = Append(conn.trips, [start |-> time_insert, end |-> NoEnd])
    <2>1. CASE ontrip
      BY <1>2, <1>4, <2>1 DEF IInv, CurrentTripIsNewest
    <2>2. CASE ~ontrip
      BY <1>2, <1>3, <1>4, <2>2, StartTripResult DEF Unfiled, NoTrip
    <2> QED
      BY <2>1, <2>2
  <1>6. [time |-> time_insert, trip |-> s.id, cols |-> bound] \in ObdRows(Columns)
    BY <1>2, <1>5 DEF ObdRows
  <1>7. PICK d \in InsertObd(s.db, [time |-> time_insert, trip |-> s.id, cols |-> bound]) :
          Write(d)
    BY <1>4
  <1>8. conn' = d /\ disk' = disk
    BY <1>1, <1>7, WriteInTransaction
  <1>9. /\ d \in Databases(Columns)
        /\ d.trips = s.db.trips /\ d.gps = s.db.gps
        /\ \/ /\ d.obd = s.db.obd \cup {[time |-> time_insert, trip |-> s.id, cols |-> bound]}
              /\ d.locked
           \/ d = s.db /\ ~s.db.locked
    BY <1>5, <1>6, <1>7, InsertResult
  <1>10. ObdWritten /\ GpsWritten
    BY <1>1, <1>4, <1>5, <1>8, <1>9 DEF ObdWritten, GpsWritten
  <1>11. /\ conn' \in Databases(Columns)
         /\ conn' = conn \/ conn'.locked
         /\ conn.locked => conn'.locked
    BY <1>5, <1>8, <1>9
  <1>12. TripsWritten /\ OpenTripInv'
    <2>1. CASE s.db = conn /\ s.id \in {currenttrip, NoTrip}
      <3>1. TripsWritten
        BY <1>4, <1>8, <1>9, <2>1 DEF TripsWritten, OldTripKept
      <3>2. ontrip => s.id = currenttrip
        BY <1>4
      <3> QED
        BY <1>1, <1>3, <1>4, <1>8, <1>9, <1>11, <2>1, <3>1, <3>2 DEF IInv, OpenTripInv
    <2>2. CASE /\ s.id = Len(conn.trips) + 1 /\ s.db # conn
               /\ s.db.trips = Append(conn.trips, [start |-> time_insert, end |-> NoEnd])
      <3>1. /\ Len(conn'.trips) = Len(conn.trips) + 1
            /\ \A i \in DOMAIN conn.trips : conn'.trips[i] = conn.trips[i]
            /\ conn'.trips[Len(conn.trips) + 1] = [start |-> time_insert, end |-> NoEnd]
            /\ DOMAIN conn'.trips = 1..(Len(conn.trips) + 1)
        BY <1>3, <1>8, <1>9, <2>2
      <3>2. TripsWritten
        BY <1>4, <2>2, <3>1 DEF TripsWritten, OldTripKept
      <3>3. ~ontrip /\ conn'.locked
        BY <1>4, <1>5, <1>8, <1>9, <2>2
      <3>4. \A i \in DOMAIN conn.trips : conn.trips[i].end # NoEnd
        BY <3>3 DEF IInv, OpenTripInv
      <3> QED
        BY <1>1, <1>3, <1>4, <1>8, <2>2, <3>1, <3>2, <3>3, <3>4 DEF IInv, OpenTripInv
    <2>3. s.db.trips = Append(conn.trips, [start |-> time_insert, end |-> NoEnd])
            => s.db # conn
      <3>1. Len(Append(conn.trips, [start |-> time_insert, end |-> NoEnd]))
              = Len(conn.trips) + 1
        BY <1>3
      <3> QED
        BY <1>3, <3>1
    <2> QED
      BY <1>5, <2>1, <2>2, <2>3
  <1>13. currenttrip' # Unfiled
    BY <1>4, <1>5
  <1>14. UNCHANGED disk
    BY <1>8
  <1> QED
    BY <1>1, <1>10, <1>11, <1>12, <1>13, <1>14 DEF WriteEffect

\* updatetrip() alone: the current trip ends now, if it has a row.
LEMMA UpdateEffect ==
  ASSUME TypeOK, IInv, pc \in {"record", "update"},
         \/ \E d \in UpdateTrip(conn, currenttrip, time_insert) : Write(d)
         \/ UNCHANGED <<disk, conn>> /\ ~ontrip,
         UNCHANGED <<clock, time_insert, currenttrip>>
  PROVE  /\ UNCHANGED disk
         /\ conn' \in Databases(Columns)
         /\ conn' = conn \/ conn'.locked
         /\ conn.locked => conn'.locked
         /\ TripsWritten
         /\ conn'.obd = conn.obd /\ conn'.gps = conn.gps
         /\ \A i \in DOMAIN conn'.trips : conn'.trips[i].end # NoEnd
         /\ \A i \in DOMAIN disk'.trips : disk'.trips[i].end # NoEnd
  <1>1. /\ conn \in Databases(Columns) /\ time_insert \in Int /\ clock \in Nat
        /\ currenttrip \in TripIds
    BY DEF TypeOK
  <1>2. time_insert = clock
    BY WriteInTransaction
  <1>3. conn.trips \in Seq(Trips)
    BY <1>1 DEF Databases
  <1>4. /\ \A i \in DOMAIN disk.trips : disk.trips[i].end # NoEnd
        /\ \A i \in DOMAIN conn.trips : conn.trips[i].end = NoEnd =>
             i = currenttrip /\ ontrip /\ conn.locked
    BY DEF IInv, OpenTripInv
  <1>5. CASE UNCHANGED <<disk, conn>> /\ ~ontrip
    BY <1>1, <1>4, <1>5 DEF TripsWritten, OldTripKept
  <1>6. CASE \E d \in UpdateTrip(conn, currenttrip, time_insert) : Write(d)
    <2>1. PICK d \in UpdateTrip(conn, currenttrip, time_insert) : Write(d)
      BY <1>6
    <2>2. conn' = d /\ disk' = disk
      BY <2>1, WriteInTransaction
    <2>3. CASE d = conn /\ (currenttrip = NoTrip \/ ~conn.locked)
      BY <1>1, <1>3, <1>4, <2>2, <2>3 DEF TripsWritten, OldTripKept, NoTrip
    <2>4. CASE ~(d = conn /\ (currenttrip = NoTrip \/ ~conn.locked))
      <3>1. /\ d \in Databases(Columns) /\ d.obd = conn.obd /\ d.gps = conn.gps
            /\ d.locked
            /\ Len(d.trips) = Len(conn.trips)
            /\ \A i \in DOMAIN conn.trips :
                 /\ d.trips[i].start = conn.trips[i].start
                 /\ d.trips[i].end = IF i = currenttrip THEN time_insert
                                                        ELSE conn.trips[i].end
                 /\ i # currenttrip => d.trips[i] = conn.trips[i]
        BY <1>1, <2>1, <2>4, UpdateTripResult
      <3>2. DOMAIN d.trips = DOMAIN conn.trips
        BY <1>3, <3>1 DEF Databases
      <3>3. \A i \in DOMAIN conn.trips : OldTripKept(i)
        BY <1>2, <2>2, <3>1 DEF OldTripKept
      <3> QED
        BY <1>1, <1>2, <1>4, <2>2, <3>1, <3>2, <3>3 DEF TripsWritten, NoEnd
    <2> QED
      BY <2>3, <2>4
  <1> QED
    BY <1>5, <1>6

LEMMA UpdatingEffect ==
  ASSUME TypeOK, IInv, RecordNothing \/ KeepTrip
  PROVE  WriteEffect
  <1> USE DEF dbVars, tripVars, obdVars, devVars, sigVars, outVars, loopVars
  <1>1. /\ UNCHANGED <<intx, refused, clock, time_insert, transactioncount, currenttrip>>
        /\ ontrip' => ontrip
        /\ \/ pc = "record" /\ pc' = "update"
           \/ pc = "update" /\ pc' = "gps"
        /\ \/ \E d \in UpdateTrip(conn, currenttrip, time_insert) : Write(d)
           \/ UNCHANGED <<disk, conn>> /\ ~ontrip
    BY DEF RecordNothing, KeepTrip
  <1>2. /\ UNCHANGED disk
        /\ conn' \in Databases(Columns)
        /\ conn' = conn \/ conn'.locked
        /\ conn.locked => conn'.locked
        /\ TripsWritten
        /\ conn'.obd = conn.obd /\ conn'.gps = conn.gps
        /\ \A i \in DOMAIN conn'.trips : conn'.trips[i].end # NoEnd
        /\ \A i \in DOMAIN disk'.trips : disk'.trips[i].end # NoEnd
    BY <1>1, UpdateEffect
  <1>3. ontrip' => currenttrip' # Unfiled
    BY <1>1 DEF IInv, CurrentTripIsNewest
  <1> QED
    BY <1>1, <1>2, <1>3 DEF WriteEffect, OpenTripInv, ObdWritten, GpsWritten

LEMMA GpsFixEffect ==
  ASSUME TypeOK, IInv, GpsFix
  PROVE  WriteEffect
  <1> USE DEF dbVars, tripVars, obdVars, devVars, sigVars, outVars, loopVars
  <1>1. /\ UNCHANGED <<intx, refused, clock, time_insert, transactioncount, currenttrip,
                       ontrip>>
        /\ pc = "gps" /\ pc' = "tail"
    BY DEF GpsFix
  <1>2. /\ conn \in Databases(Columns)
        /\ [time |-> time_insert, trip |-> currenttrip] \in GpsRows
    BY DEF TypeOK, GpsRows
  <1>3. PICK d \in InsertGps(conn, [time |-> time_insert, trip |-> currenttrip]) : Write(d)
    BY DEF GpsFix
  <1>4. conn' = d /\ disk' = disk
    BY <1>1, <1>3, WriteInTransaction
  <1>5. /\ d \in Databases(Columns)
        /\ d.trips = conn.trips /\ d.obd = conn.obd
        /\ \/ /\ d.gps = conn.gps \cup {[time |-> time_insert, trip |-> currenttrip]}
              /\ d.locked
           \/ d = conn /\ ~conn.locked
    BY <1>2, <1>3, InsertResult
  <1>6. OpenTripInv'
    BY <1>1, <1>4, <1>5 DEF IInv, OpenTripInv
  <1>7. ontrip' => currenttrip' # Unfiled
    BY <1>1 DEF IInv, CurrentTripIsNewest
  <1> QED
    BY <1>1, <1>2, <1>4, <1>5, <1>6, <1>7
    DEF WriteEffect, TripsWritten, OldTripKept, ObdWritten, GpsWritten

LEMMA WriteStep ==
  ASSUME TypeOK, IInv, Writing
  PROVE  WriteEffect
  BY DBusStartEffect, HonourStartEffect, RecordSampleEffect, UpdatingEffect, GpsFixEffect
  DEF Writing

\* With the write lock held updatetrip() is not refused.
LEMMA KeepTripCloses ==
  ASSUME TypeOK, IInv, WriteEffect, Writing, pc = "update", conn.locked,
         NEW i \in DOMAIN conn.trips, i = currenttrip
  PROVE  i \in DOMAIN conn'.trips /\ conn'.trips[i].end = clock
  <1>1. conn \in Databases(Columns) /\ time_insert \in Int /\ currenttrip \in TripIds
    BY DEF TypeOK
  <1>2. conn.trips \in Seq(Trips)
    BY <1>1 DEF Databases
  <1>3. PICK d \in UpdateTrip(conn, currenttrip, time_insert) : Write(d)
    BY DEF Writing, DBusStart, HonourStart, RecordSample, RecordNothing, KeepTrip, GpsFix
  <1>4. conn' = d /\ time_insert = clock
    BY <1>3, WriteInTransaction
  <1>5. currenttrip # NoTrip
    BY <1>2 DEF NoTrip
  <1>6. /\ d \in Databases(Columns) /\ Len(d.trips) = Len(conn.trips)
        /\ d.trips[i].end = time_insert
    BY <1>1, <1>3, <1>5, UpdateTripResult
  <1>7. DOMAIN d.trips = DOMAIN conn.trips
    BY <1>1, <1>6 DEF Databases
  <1> QED
    BY <1>4, <1>6, <1>7

-----------------------------------------------------------------------------
(* Transactions and the ends of the process.                               *)

\* A COMMIT publishes what is pending, or leaves all of it pending.
CommitEffect ==
  \/ /\ conn' \in Databases(Columns) /\ disk' = conn' /\ ~disk'.locked
     /\ ~intx' /\ ~refused'
     /\ conn'.trips = conn.trips /\ conn'.obd = conn.obd /\ conn'.gps = conn.gps
  \/ /\ UNCHANGED <<disk, conn, intx>>
     /\ refused'

LEMMA CommitStep ==
  ASSUME TypeOK, Commit
  PROVE  CommitEffect
  <1>1. conn \in Databases(Columns)
    BY DEF TypeOK
  <1> QED
    BY <1>1, UnlockedResult DEF Commit, CommitEffect

\* The bottom of the loop and the end of it.
LEMMA EndStep ==
  ASSUME TypeOK, EndRound \/ Flush
  PROVE  /\ UNCHANGED <<currenttrip, ontrip, clock, time_insert>>
         /\ \/ /\ pc = "tail" /\ pc' = "flush"
               /\ UNCHANGED <<disk, conn, intx, refused, transactioncount>>
            \/ /\ pc = "tail" /\ pc' = "top"
               /\ UNCHANGED <<disk, conn, intx, refused>>
               /\ transactioncount' = transactioncount + 1
            \/ /\ \/ pc = "tail" /\ pc' = "begin"
                  \/ pc = "flush" /\ pc' = "close"
               /\ CommitEffect
  <1> USE DEF dbVars, tripVars, obdVars, devVars, sigVars, outVars, loopVars
  <1>1. CASE Flush
    BY <1>1, CommitStep DEF Flush
  <1>2. CASE EndRound /\ receive_exitsignal
    BY <1>2 DEF EndRound
  <1>3. CASE EndRound /\ ~receive_exitsignal
    <2>1. /\ transactioncount' = (transactioncount + 1) % BaseTransactionCount
          /\ transactioncount \in 0 .. BaseTransactionCount - 1
      BY <1>3 DEF EndRound, TypeOK
    <2>2. transactioncount' # 0 => transactioncount' = transactioncount + 1
      BY <2>1, CountStep
    <2> QED
      BY <1>3, <2>2, CommitStep DEF EndRound
  <1> QED
    BY <1>1, <1>2, <1>3

\* What is lost when the process ends, and what is not: the file keeps its
\* rows, and its newest trip at most gets a later end.
GoneEffect ==
  /\ pc' = "off" /\ ~intx' /\ ~refused' /\ ~ontrip' /\ currenttrip' = Unfiled
  /\ UNCHANGED clock
  /\ conn' = disk' /\ disk' \in Databases(Columns) /\ ~disk'.locked
  /\ disk'.obd = disk.obd /\ disk'.gps = disk.gps
  /\ Len(disk'.trips) = Len(disk.trips)
  /\ \A i \in DOMAIN disk.trips :
       \/ disk'.trips[i] = disk.trips[i]
       \/ /\ i = Len(disk.trips) /\ pc = "close"
          /\ disk'.trips[i].start = disk.trips[i].start
          /\ disk'.trips[i].end = clock

LEMMA GoneStep ==
  ASSUME TypeOK, IInv, Close \/ Crash
  PROVE  GoneEffect
  <1> USE DEF outVars
  <1>1. /\ pc' = "off" /\ ~intx' /\ ~refused' /\ ~ontrip' /\ currenttrip' = Unfiled
        /\ UNCHANGED clock
    BY DEF Close, Crash, Gone
  <1>2. /\ disk \in Databases(Columns) /\ conn \in Databases(Columns) /\ ~disk.locked
        /\ currenttrip \in TripIds /\ time_insert \in Int
    BY DEF TypeOK, IInv, TransactionInv
  <1>3. CASE UNCHANGED disk /\ conn' = disk'
    BY <1>1, <1>2, <1>3 DEF GoneEffect
  <1>4. CASE Close /\ ~intx
    <2>1. PICK d \in IF ontrip THEN UpdateTrip(conn, currenttrip, time_insert) ELSE {conn} :
            disk' = Unlocked(d) /\ conn' = disk'
      BY <1>4 DEF Close
    <2>2. conn = disk /\ pc = "close"
      BY <1>4 DEF Close, IInv, TransactionInv
    <2>3. ontrip => time_insert = clock
      BY <2>2 DEF IInv, TimeInv
    <2>4. CASE d = conn
      <3>1. disk' = disk
        BY <1>2, <2>1, <2>2, <2>4, UnlockedResult
      <3> QED
        BY <1>1, <1>2, <2>1, <3>1 DEF GoneEffect
    <2>5. CASE ontrip /\ d # conn
      <3>1. /\ d \in Databases(Columns) /\ d.obd = conn.obd /\ d.gps = conn.gps
            /\ Len(d.trips) = Len(conn.trips)
            /\ \A i \in DOMAIN conn.trips :
                 /\ d.trips[i].start = conn.trips[i].start
                 /\ d.trips[i].end = IF i = currenttrip THEN time_insert
                                                        ELSE conn.trips[i].end
                 /\ i # currenttrip => d.trips[i] = conn.trips[i]
        BY <1>2, <2>1, <2>5, UpdateTripResult
      <3>2. \A i \in DOMAIN conn.trips : i = currenttrip => i = Len(conn.trips)
        <4>1. conn.trips \in Seq(Trips)
          BY <1>2 DEF Databases
        <4> QED
          BY <4>1 DEF IInv, CurrentTripIsNewest, NoTrip, Unfiled
      <3>3. /\ disk' \in Databases(Columns) /\ ~disk'.locked
            /\ disk'.trips = d.trips /\ disk'.obd = d.obd /\ disk'.gps = d.gps
        BY <2>1, <3>1, UnlockedResult
      <3>4. ASSUME NEW i \in DOMAIN disk.trips
            PROVE  \/ disk'.trips[i] = disk.trips[i]
                   \/ /\ i = Len(disk.trips) /\ pc = "close"
                      /\ disk'.trips[i].start = disk.trips[i].start
                      /\ disk'.trips[i].end = clock
        BY <2>2, <2>3, <2>5, <3>1, <3>2, <3>3
      <3>5. /\ conn' = disk' /\ disk'.obd = disk.obd /\ disk'.gps = disk.gps
            /\ Len(disk'.trips) = Len(disk.trips)
        BY <2>1, <2>2, <3>1, <3>3
      <3> QED
        BY <1>1, <3>3, <3>4, <3>5 DEF GoneEffect
    <2> QED
      BY <2>1, <2>4, <2>5
  <1>5. Crash => UNCHANGED disk /\ conn' = disk'
    BY DEF Crash
  <1>6. Close /\ intx => UNCHANGED disk /\ conn' = disk'
    BY DEF Close
  <1> QED
    BY <1>3, <1>4, <1>5, <1>6

\* The other steps leave the database as it is.
LEMMA OtherStep ==
  ASSUME TypeOK, IInv, Start \/ BeginRound \/ Begin \/ UNCHANGED vars
  PROVE  /\ UNCHANGED <<disk, conn, refused, currenttrip, ontrip, transactioncount>>
         /\ \/ pc = "off" /\ pc' = "top" /\ intx' /\ clock' = clock
               /\ time_insert' \in GarbageTimes
            \/ pc = "top" /\ pc' = "dbus" /\ clock' = clock + 1
               /\ UNCHANGED <<intx, time_insert>>
            \/ pc = "begin" /\ pc' = "top" /\ intx' /\ UNCHANGED <<clock, time_insert>>
            \/ UNCHANGED <<pc, intx, clock, time_insert>>
  <1> USE DEF dbVars, tripVars, obdVars, devVars, sigVars, outVars, loopVars
  <1>1. CASE Start
    BY <1>1 DEF Start, IInv, TransactionInv
  <1>2. CASE BeginRound \/ Begin
    BY <1>2 DEF BeginRound, Begin
  <1>3. CASE UNCHANGED vars
    BY <1>3 DEF vars
  <1> QED
    BY <1>1, <1>2, <1>3

\* Every step is of one of the kinds above.
LEMMA KindsOfStep ==
  ASSUME [Next]_vars
  PROVE  \/ Quiet \/ Writing \/ EndRound \/ Flush \/ Close \/ Crash
         \/ Start \/ BeginRound \/ Begin \/ UNCHANGED vars
  BY DEF Next, Step, Quiet, Writing
=============================================================================
