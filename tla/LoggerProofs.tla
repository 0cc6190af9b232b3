---------------------------- MODULE LoggerProofs ----------------------------
(***************************************************************************)
(* Proofs about Logger for every value of its constants.                   *)
(***************************************************************************)
EXTENDS Logger, TLAPS

-----------------------------------------------------------------------------
(* What the statements of TripDb leave behind.                             *)

\* starttrip() appends an open trip and returns its id, or changes nothing.
LEMMA StartTripResult ==
  ASSUME NEW db \in Databases(Columns), NEW time \in Int, NEW s \in StartTrip(db, time)
  PROVE  /\ s.db \in Databases(Columns) /\ s.id \in TripIds
         /\ s.db.obd = db.obd /\ s.db.gps = db.gps
         /\ \/ /\ s.id = Len(db.trips) + 1
               /\ s.db.locked
               /\ s.db.trips = Append(db.trips, [start |-> time, end |-> NoEnd])
            \/ s.id = NoTrip /\ s.db = db /\ ~db.locked
  <1>1. db.trips \in Seq(Trips)
    BY DEF Databases
  <1>2. [start |-> time, end |-> NoEnd] \in Trips
    BY DEF Trips, NoEnd
  <1>3. Append(db.trips, [start |-> time, end |-> NoEnd]) \in Seq(Trips)
    BY <1>1, <1>2
  <1>4. CASE s.id = NoTrip /\ s.db = db /\ ~db.locked
    BY <1>4 DEF TripIds
  <1>5. CASE s = [db |-> [db EXCEPT !.trips = Append(@, [start |-> time, end |-> NoEnd]),
                                    !.locked = TRUE],
                  id |-> Len(db.trips) + 1]
    <2>1. Len(db.trips) + 1 \in TripIds
      BY <1>1 DEF TripIds
    <2> QED
      BY <1>3, <1>5, <2>1 DEF Databases
  <1> QED
    BY <1>4, <1>5 DEF StartTrip, Refused

\* updatetrip() moves the end of the one trip it names, or changes nothing.
LEMMA UpdateTripResult ==
  ASSUME NEW db \in Databases(Columns), NEW id \in TripIds, NEW time \in Int,
         NEW d \in UpdateTrip(db, id, time)
  PROVE  /\ d \in Databases(Columns)
         /\ d.obd = db.obd /\ d.gps = db.gps
         /\ \/ /\ id # NoTrip
               /\ d.locked
               /\ Len(d.trips) = Len(db.trips)
               /\ \A i \in DOMAIN db.trips :
                    /\ d.trips[i].start = db.trips[i].start
                    /\ d.trips[i].end = IF i = id THEN time ELSE db.trips[i].end
                    /\ i # id => d.trips[i] = db.trips[i]
            \/ d = db /\ (id = NoTrip \/ ~db.locked)
  <1> DEFINE upd == [i \in DOMAIN db.trips |->
                       IF i = id THEN [db.trips[i] EXCEPT !.end = time] ELSE db.trips[i]]
  <1>1. db.trips \in Seq(Trips)
    BY DEF Databases
  <1>2. \A i \in DOMAIN db.trips : upd[i] \in Trips
    <2> TAKE i \in DOMAIN db.trips
    <2>1. db.trips[i] \in Trips
      BY <1>1
    <2>2. [db.trips[i] EXCEPT !.end = time] \in Trips
      BY <2>1 DEF Trips
    <2> QED
      BY <2>1, <2>2
  <1>3. upd \in Seq(Trips) /\ Len(upd) = Len(db.trips)
    <2>1. DOMAIN upd = 1 .. Len(db.trips) /\ Len(db.trips) \in Nat
      BY <1>1
    <2>2. upd \in [1 .. Len(db.trips) -> Trips]
      BY <1>2, <2>1
    <2> HIDE DEF upd
    <2> QED
      BY <2>1, <2>2
  <1>4. CASE d = db /\ (id = NoTrip \/ ~db.locked)
    BY <1>4
  <1>5. CASE id # NoTrip /\ d = [db EXCEPT !.trips = upd, !.locked = TRUE]
    <2>1. d \in Databases(Columns) /\ d.trips = upd /\ d.locked
          /\ d.obd = db.obd /\ d.gps = db.gps
      BY <1>3, <1>5 DEF Databases
    <2>2. \A i \in DOMAIN db.trips :
                    /\ upd[i].start = db.trips[i].start
                    /\ upd[i].end = IF i = id THEN time ELSE db.trips[i].end
                    /\ i # id => upd[i] = db.trips[i]
      BY <1>1 DEF Trips
    <2> QED
      BY <1>3, <1>5, <2>1, <2>2
  <1> QED
    BY <1>4, <1>5 DEF UpdateTrip, Refused

\* The two inserts add their row, or change nothing.
LEMMA InsertResult ==
  ASSUME NEW db \in Databases(Columns)
  PROVE  /\ \A row \in ObdRows(Columns) : \A d \in InsertObd(db, row) :
              /\ d \in Databases(Columns)
              /\ d.trips = db.trips /\ d.gps = db.gps
              /\ \/ d.obd = db.obd \cup {row} /\ d.locked
                 \/ d = db /\ ~db.locked
         /\ \A row \in GpsRows : \A d \in InsertGps(db, row) :
              /\ d \in Databases(Columns)
              /\ d.trips = db.trips /\ d.obd = db.obd
              /\ \/ d.gps = db.gps \cup {row} /\ d.locked
                 \/ d = db /\ ~db.locked
  <1>1. ASSUME NEW row \in ObdRows(Columns), NEW d \in InsertObd(db, row)
        PROVE  /\ d \in Databases(Columns)
               /\ d.trips = db.trips /\ d.gps = db.gps
               /\ \/ d.obd = db.obd \cup {row} /\ d.locked
                  \/ d = db /\ ~db.locked
    <2>1. CASE d = db /\ ~db.locked
      BY <2>1
    <2>2. CASE d = [db EXCEPT !.obd = @ \cup {row}, !.locked = TRUE]
      BY <2>2 DEF Databases
    <2> QED
      BY <1>1, <2>1, <2>2 DEF InsertObd, Refused
  <1>2. ASSUME NEW row \in GpsRows, NEW d \in InsertGps(db, row)
        PROVE  /\ d \in Databases(Columns)
               /\ d.trips = db.trips /\ d.obd = db.obd
               /\ \/ d.gps = db.gps \cup {row} /\ d.locked
                  \/ d = db /\ ~db.locked
    <2>1. CASE d = db /\ ~db.locked
      BY <2>1
    <2>2. CASE d = [db EXCEPT !.gps = @ \cup {row}, !.locked = TRUE]
      BY <2>2 DEF Databases
    <2> QED
      BY <1>2, <2>1, <2>2 DEF InsertGps, Refused
  <1> QED
    BY <1>1, <1>2

LEMMA UnlockedResult ==
  ASSUME NEW db \in Databases(Columns)
  PROVE  /\ Unlocked(db) \in Databases(Columns)
         /\ Unlocked(db).trips = db.trips /\ Unlocked(db).obd = db.obd
         /\ Unlocked(db).gps = db.gps /\ ~Unlocked(db).locked
         /\ ~db.locked => Unlocked(db) = db
  BY DEF Unlocked, Databases

LEMMA BaseType == BaseTransactionCount \in Nat \ {0}
  <1>1. TRANSACTIONTIME \in Nat \ {0} /\ SamplesPerSecond \in Nat
    BY ConstantsAssumption
  <1>2. \A a, b \in Nat \ {0} : a * b \in Nat \ {0}
    OBVIOUS
  <1> QED
    BY <1>1, <1>2 DEF BaseTransactionCount

\* The transaction counter steps through its period.
LEMMA CountStep ==
  ASSUME NEW n \in 0 .. BaseTransactionCount - 1
  PROVE  (n + 1) % BaseTransactionCount =
           IF n + 1 = BaseTransactionCount THEN 0 ELSE n + 1
  BY BaseType

-----------------------------------------------------------------------------
(* Types.                                                                  *)

LEMMA WriteType ==
  ASSUME NEW db \in Databases(Columns), disk \in Databases(Columns), Write(db)
  PROVE  disk' \in Databases(Columns) /\ conn' \in Databases(Columns)
  BY UnlockedResult DEF Write

LEMMA CommitType ==
  ASSUME TypeOK, Commit
  PROVE  /\ disk' \in Databases(Columns) /\ conn' \in Databases(Columns)
         /\ intx' \in BOOLEAN /\ refused' \in BOOLEAN /\ leaked' \in BOOLEAN
  <1>1. /\ conn \in Databases(Columns) /\ disk \in Databases(Columns)
        /\ intx \in BOOLEAN /\ leaked \in BOOLEAN
    BY DEF TypeOK
  <1>2. Unlocked(conn) \in Databases(Columns)
    BY <1>1, UnlockedResult
  <1>3. leaked' \in BOOLEAN
    BY <1>1 DEF Commit
  <1>4. CASE /\ disk' = Unlocked(conn) /\ conn' = Unlocked(conn)
             /\ intx' = FALSE /\ refused' = FALSE
    BY <1>2, <1>3, <1>4
  <1>5. CASE refused' = TRUE /\ UNCHANGED <<disk, conn, intx>>
    BY <1>1, <1>3, <1>5
  <1> QED
    BY <1>3, <1>4, <1>5 DEF Commit

LEMMA InitType == Init => TypeOK
  <1> SUFFICES ASSUME Init PROVE TypeOK
    OBVIOUS
  <1>1. EmptyDb \in Databases(Columns)
    BY DEF EmptyDb, Databases
  <1>2. Columns \in Nat
    BY ConstantsAssumption
  <1>3. <<>> \in Seq(Messages) /\ [c \in 1..Columns |-> 0] \in [1..Columns -> Int]
    OBVIOUS
  <1>4. 0 \in 0 .. BaseTransactionCount - 1 /\ 0 \in 0 .. Columns
    BY <1>2, BaseType
  <1>5. disk \in Databases(Columns) /\ conn \in Databases(Columns)
    BY <1>1 DEF Init
  <1>6. currenttrip \in TripIds /\ pc \in Labels /\ obdstatus \in Statuses \cup {NoStatus}
    BY DEF Init, Unfiled, TripIds, Labels, NoStatus
  <1>7. dbus \in Seq(Messages) /\ bound \in [1..Columns -> Int]
    BY <1>3 DEF Init
  <1>8. /\ intx \in BOOLEAN /\ refused \in BOOLEAN /\ leaked \in BOOLEAN
        /\ ontrip \in BOOLEAN
        /\ serial \in BOOLEAN /\ gps \in {"down", "up", "lost"}
        /\ receive_exitsignal \in BOOLEAN /\ sig_starttrip \in BOOLEAN /\ busy \in BOOLEAN
    BY DEF Init
  <1>9. /\ samplecount \in Nat \cup {-1} /\ time_insert \in Int
        /\ transactioncount \in 0 .. BaseTransactionCount - 1 /\ col \in 0 .. Columns
        /\ time_lastgpscheck \in Int
        /\ clock \in Nat /\ starts \in Nat /\ disturbances \in Nat
    BY <1>4 DEF Init
  <1> QED
    BY <1>5, <1>6, <1>7, <1>8, <1>9 DEF TypeOK

LEMMA GoneType ==
  ASSUME TypeOK, Gone, disk' \in Databases(Columns), conn' \in Databases(Columns)
  PROVE  TypeOK'
  <1>1. <<>> \in Seq(Messages) /\ [c \in 1..Columns |-> 0] \in [1..Columns -> Int]
    OBVIOUS
  <1>2. 0 \in 0 .. BaseTransactionCount - 1 /\ 0 \in 0 .. Columns
    BY BaseType, ConstantsAssumption
  <1>3. /\ currenttrip' \in TripIds /\ pc' \in Labels
        /\ obdstatus' \in Statuses \cup {NoStatus}
    BY DEF Gone, Unfiled, TripIds, Labels, NoStatus
  <1>4. dbus' \in Seq(Messages) /\ bound' \in [1..Columns -> Int]
    BY <1>1 DEF Gone
  <1>5. /\ intx' \in BOOLEAN /\ refused' \in BOOLEAN /\ leaked' \in BOOLEAN
        /\ ontrip' \in BOOLEAN
        /\ serial' \in BOOLEAN /\ gps' \in {"down", "up", "lost"}
        /\ receive_exitsignal' \in BOOLEAN /\ sig_starttrip' \in BOOLEAN
        /\ busy' \in BOOLEAN
    BY DEF Gone, outVars, TypeOK
  <1>6. /\ samplecount' \in Nat \cup {-1} /\ time_insert' \in Int
        /\ transactioncount' \in 0 .. BaseTransactionCount - 1 /\ col' \in 0 .. Columns
        /\ time_lastgpscheck' \in Int
        /\ clock' \in Nat /\ starts' \in Nat /\ disturbances' \in Nat
    BY <1>2 DEF Gone, outVars, TypeOK
  <1> QED
    BY <1>3, <1>4, <1>5, <1>6 DEF TypeOK

\* One step keeps every variable in its type.
LEMMA NextType == TypeOK /\ [Next]_vars => TypeOK'
  <1> SUFFICES ASSUME TypeOK, [Next]_vars PROVE TypeOK'
    OBVIOUS
  <1> USE ConstantsAssumption
  <1> USE DEF dbVars, tripVars, obdVars, devVars, sigVars, outVars, loopVars
  <1> DEFINE Frame == <<samplecount, time_insert, transactioncount, obdVars, devVars,
                        sigVars, dbus, outVars, clock, starts>>
  \* The steps that only write: what is left is pc, the trip and the database.
  <1>0. ASSUME UNCHANGED Frame, pc' \in Labels,
               disk' \in Databases(Columns), conn' \in Databases(Columns),
               intx' \in BOOLEAN, refused' \in BOOLEAN, leaked' \in BOOLEAN,
               currenttrip' \in TripIds, ontrip' \in BOOLEAN
        PROVE  TypeOK'
    BY <1>0 DEF TypeOK
  <1>a. \A s \in StartTrip(conn, time_insert) :
          s.db \in Databases(Columns) /\ s.id \in TripIds
    <2> TAKE s \in StartTrip(conn, time_insert)
    <2>1. conn \in Databases(Columns) /\ time_insert \in Int
      BY DEF TypeOK
    <2> QED
      BY <2>1, StartTripResult
  <1>b. \A d \in UpdateTrip(conn, currenttrip, time_insert) : d \in Databases(Columns)
    BY UpdateTripResult DEF TypeOK
  <1>1. CASE Start
    BY <1>1 DEF Start, TypeOK, Labels
  <1>2. CASE BeginRound
    BY <1>2 DEF BeginRound, CountSample, MoreSamples, TypeOK, Labels, Statuses, NoStatus
  <1>3. CASE SamplesDone
    BY <1>3 DEF SamplesDone, TypeOK, Labels
  <1>4. CASE ClockFails
    BY <1>4 DEF ClockFails, CountSample, MoreSamples, TypeOK, Labels
  <1>5. CASE DBusStart
    <2>1. dbus' \in Seq(Messages)
      BY <1>5 DEF DBusStart, TypeOK
    <2>2. /\ disk' \in Databases(Columns) /\ conn' \in Databases(Columns)
          /\ currenttrip' \in TripIds /\ ontrip' \in BOOLEAN /\ leaked' \in BOOLEAN
      <3>1. CASE ontrip
        BY <1>5, <3>1 DEF DBusStart, TypeOK
      <3>2. CASE ~ontrip
        <4>1. PICK s \in StartTrip(conn, time_insert) :
                Write(s.db) /\ currenttrip' = s.id /\ ontrip'
          BY <1>5, <3>2 DEF DBusStart
        <4>2. ontrip' = TRUE /\ leaked' \in BOOLEAN
          BY <1>5, <3>2 DEF DBusStart, Leak, TypeOK
        <4> QED
          BY <1>a, <4>1, <4>2, WriteType DEF TypeOK
      <3> QED
        BY <3>1, <3>2
    <2> QED
      BY <1>5, <2>1, <2>2 DEF DBusStart, TypeOK
  <1>6. CASE DBusDone
    <2>1. pc' \in Labels
      BY <1>6 DEF DBusDone, Labels
    <2> QED
      BY <1>6, <2>1 DEF DBusDone, TypeOK
  <1>7. CASE HonourStart
    <2>1. PICK d \in IF ontrip THEN UpdateTrip(conn, currenttrip, time_insert) ELSE {conn} :
            \E s \in StartTrip(d, time_insert) : Write(s.db) /\ currenttrip' = s.id
      BY <1>7 DEF HonourStart
    <2>2. d \in Databases(Columns) /\ time_insert \in Int
      BY <1>b, <2>1 DEF TypeOK
    <2>3. PICK s \in StartTrip(d, time_insert) : Write(s.db) /\ currenttrip' = s.id
      BY <2>1
    <2>4. s.db \in Databases(Columns) /\ s.id \in TripIds
      BY <2>2, <2>3, StartTripResult
    <2>5. disk' \in Databases(Columns) /\ conn' \in Databases(Columns)
      BY <2>3, <2>4, WriteType DEF TypeOK
    <2>6. leaked' \in BOOLEAN
      BY <1>7 DEF HonourStart, Leak
    <2> QED
      BY <1>0, <1>7, <2>3, <2>4, <2>5, <2>6 DEF HonourStart, Labels, TypeOK
  <1>8. CASE ClearSignal
    BY <1>8 DEF ClearSignal, AfterSignal, TypeOK, Labels
  <1>9. CASE NoStartSignal
    BY <1>9 DEF NoStartSignal, AfterSignal, TypeOK, Labels
  <1>10. CASE QueryColumn
    <2>1. PICK s \in Statuses :
            /\ obdstatus' = s
            /\ IF s = "success"
               THEN /\ bound' = [bound EXCEPT ![col + 1] = time_insert]
                    /\ col' = col + 1
                    /\ pc' = pc
               ELSE /\ UNCHANGED <<bound, col>>
                    /\ pc' = "record"
      BY <1>10 DEF QueryColumn
    <2>2. col' \in 0 .. Columns
      BY <1>10, <2>1 DEF QueryColumn, TypeOK
    <2>3. bound' \in [1..Columns -> Int]
      BY <2>1 DEF TypeOK
    <2>4. pc' \in Labels
      BY <2>1 DEF TypeOK, Labels
    <2> QED
      BY <1>10, <2>1, <2>2, <2>3, <2>4 DEF QueryColumn, TypeOK
  <1>11. CASE QuerySpins \/ QueryDone
    <2>1. CASE QuerySpins
      BY <2>1 DEF QuerySpins, TypeOK, Labels
    <2>2. CASE QueryDone
      BY <2>2 DEF QueryDone, TypeOK, Labels
    <2> QED
      BY <1>11, <2>1, <2>2
  <1>12. CASE RecordSample
    <2>1. PICK s \in IF ontrip THEN {[db |-> conn, id |-> currenttrip]}
                     ELSE StartTrip(conn, time_insert) :
            /\ \E d \in InsertObd(s.db, [time |-> time_insert, trip |-> s.id,
                                          cols |-> bound]) : Write(d)
            /\ currenttrip' = s.id
      BY <1>12 DEF RecordSample
    <2>2. s.db \in Databases(Columns) /\ s.id \in TripIds
      BY <1>a, <2>1 DEF TypeOK
    <2>3. [time |-> time_insert, trip |-> s.id, cols |-> bound] \in ObdRows(Columns)
      BY <2>2 DEF TypeOK, ObdRows
    <2>4. disk' \in Databases(Columns) /\ conn' \in Databases(Columns)
      BY <2>1, <2>2, <2>3, InsertResult, WriteType DEF TypeOK
    <2>5. leaked' \in BOOLEAN
      BY <1>12 DEF RecordSample, Leak
    <2> QED
      BY <1>0, <1>12, <2>1, <2>2, <2>4, <2>5 DEF RecordSample, Labels, TypeOK
  <1>13. CASE RecordError
    BY <1>13 DEF RecordError, TypeOK, Labels
  <1>14. CASE RecordNothing
    <2>1. disk' \in Databases(Columns) /\ conn' \in Databases(Columns)
      BY <1>14, <1>b, WriteType DEF RecordNothing, TypeOK
    <2> QED
      BY <1>0, <1>14, <2>1 DEF RecordNothing, Labels, TypeOK
  <1>15. CASE KeepTrip
    <2>1. disk' \in Databases(Columns) /\ conn' \in Databases(Columns)
      BY <1>15, <1>b, WriteType DEF KeepTrip, TypeOK
    <2> QED
      BY <1>0, <1>15, <2>1 DEF KeepTrip, Labels, TypeOK
  <1>16. CASE GpsFix
    <2>1. [time |-> time_insert, trip |-> currenttrip] \in GpsRows
      BY DEF TypeOK, GpsRows
    <2>2. disk' \in Databases(Columns) /\ conn' \in Databases(Columns)
      BY <1>16, <2>1, InsertResult, WriteType DEF GpsFix, TypeOK
    <2> QED
      BY <1>0, <1>16, <2>2 DEF GpsFix, Labels, TypeOK
  <1>17. CASE GpsNothing
    BY <1>17 DEF GpsNothing, TypeOK, Labels
  <1>18. CASE GpsReconnect
    BY <1>18 DEF GpsReconnect, TypeOK, Labels
  <1>19. CASE EndRound
    <2>1. transactioncount' \in 0 .. BaseTransactionCount - 1
      BY <1>19, BaseType, CountStep DEF EndRound, TypeOK
    <2>2. /\ disk' \in Databases(Columns) /\ conn' \in Databases(Columns)
          /\ intx' \in BOOLEAN /\ refused' \in BOOLEAN /\ leaked' \in BOOLEAN
      BY <1>19, CommitType DEF EndRound, TypeOK
    <2>3. pc' \in Labels
      BY <1>19 DEF EndRound, Labels
    <2> QED
      BY <1>19, <2>1, <2>2, <2>3 DEF EndRound, TypeOK
  <1>20. CASE Begin
    BY <1>20 DEF Begin, TypeOK, Labels
  <1>21. CASE Flush
    BY <1>21, <1>0, CommitType DEF Flush, TypeOK, Labels
  <1>22. CASE Close
    <2>1. PICK d \in IF ontrip THEN UpdateTrip(conn, currenttrip, time_insert) ELSE {conn} :
            /\ disk' = IF intx THEN disk ELSE Unlocked(d)
            /\ conn' = disk'
      BY <1>22 DEF Close
    <2>2. d \in Databases(Columns)
      BY <1>b, <2>1 DEF TypeOK
    <2>3. disk' \in Databases(Columns) /\ conn' \in Databases(Columns)
      BY <2>1, <2>2, UnlockedResult DEF TypeOK
    <2> QED
      BY <1>22, <2>3, GoneType DEF Close
  <1>23. CASE Crash
    BY <1>23, GoneType DEF Crash, TypeOK
  <1>24. CASE Outside
    <2>1. CASE SendMessage
      <3>1. PICK m \in Messages : dbus' = Append(dbus, m)
        BY <2>1 DEF SendMessage
      <3>2. dbus' \in Seq(Messages)
        BY <3>1 DEF TypeOK
      <3> QED
        BY <2>1, <3>2 DEF SendMessage, Disturb, TypeOK
    <2>2. CASE ExitSignal
      BY <2>2 DEF ExitSignal, Disturb, TypeOK
    <2>3. CASE StartSignal
      BY <2>3 DEF StartSignal, Disturb, TypeOK
    <2>4. CASE GpsdDies
      BY <2>4 DEF GpsdDies, Disturb, TypeOK
    <2>5. CASE Hold
      BY <2>5 DEF Hold, Disturb, TypeOK
    <2>6. CASE LetGo
      BY <2>6 DEF LetGo, TypeOK
    <2> QED
      BY <1>24, <2>1, <2>2, <2>3, <2>4, <2>5, <2>6 DEF Outside
  <1>25. CASE UNCHANGED vars
    BY <1>25 DEF vars, TypeOK
  <1> QED
    BY <1>1, <1>2, <1>3, <1>4, <1>5, <1>6, <1>7, <1>8, <1>9, <1>10, <1>11, <1>12, <1>13,
       <1>14, <1>15, <1>16, <1>17, <1>18, <1>19, <1>20, <1>21, <1>22, <1>23, <1>24, <1>25
    DEF Next, Step

\* Every variable keeps its type; in particular the transaction counter stays
\* within its period and the trip ids within what SQLite hands out.
THEOREM TypeCorrect == Spec => []TypeOK
  BY InitType, NextType, PTL DEF Spec
=============================================================================
