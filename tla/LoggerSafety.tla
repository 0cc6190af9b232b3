---------------------------- MODULE LoggerSafety ----------------------------
(***************************************************************************)
(* IInv is inductive, and with it the safety properties of Logger hold and *)
(* the database file implements TripJournal, for every value of the        *)
(* constants.  The parts of IInv are proved one by one, each from the      *)
(* kinds of step of LoggerSteps.                                           *)
(***************************************************************************)
EXTENDS LoggerSteps

LEMMA DbShape ==
  ASSUME NEW db \in Databases(Columns)
  PROVE  /\ db.trips \in Seq(Trips) /\ Len(db.trips) \in Nat
         /\ DOMAIN db.trips = 1..Len(db.trips)
         /\ \A i \in DOMAIN db.trips : db.trips[i].start \in Int /\ db.trips[i].end \in Int
         /\ \A r \in db.obd : r.time \in Int /\ r.trip \in TripIds
         /\ \A r \in db.gps : r.time \in Int /\ r.trip \in TripIds
  <1>1. db.trips \in Seq(Trips)
    BY DEF Databases
  <1>2. \A i \in DOMAIN db.trips : db.trips[i] \in Trips
    BY <1>1
  <1>3. \A r \in db.obd : r \in ObdRows(Columns)
    BY DEF Databases
  <1>4. \A r \in db.gps : r \in GpsRows
    BY DEF Databases
  <1> QED
    BY <1>1, <1>2, <1>3, <1>4 DEF Trips, ObdRows, GpsRows

\* A step is of one of five kinds.
LEMMA Kinds ==
  ASSUME TypeOK, IInv, [Next]_vars
  PROVE  \/ Quiet \/ (Writing /\ WriteEffect) \/ EndRound \/ Flush
         \/ ((Close \/ Crash) /\ GoneEffect)
         \/ Start \/ BeginRound \/ Begin \/ UNCHANGED vars
  BY KindsOfStep, WriteStep, GoneStep

LEMMA TransactionStep ==
  ASSUME TypeOK, IInv, [Next]_vars
  PROVE  TransactionInv'
  <1>1. TransactionInv /\ disk.locked \in BOOLEAN /\ conn.locked \in BOOLEAN
        /\ intx \in BOOLEAN /\ intx' \in BOOLEAN /\ refused' \in BOOLEAN
    BY NextType DEF IInv, TypeOK, Databases
  <1>2. CASE Quiet
    BY <1>1, <1>2, QuietStep DEF TransactionInv, Frozen
  <1>3. CASE WriteEffect
    BY <1>1, <1>3 DEF TransactionInv, WriteEffect
  <1>4. CASE EndRound \/ Flush
    <2>1. CASE UNCHANGED <<disk, conn, intx, refused>> /\ pc' \in {"flush", "top"}
               /\ pc = "tail"
      BY <1>1, <2>1 DEF TransactionInv
    <2>2. CASE CommitEffect /\ pc' \in {"begin", "close"} /\ pc \in {"tail", "flush"}
      BY <1>1, <2>2 DEF TransactionInv, CommitEffect
    <2> QED
      BY <1>4, <2>1, <2>2, EndStep
  <1>5. CASE GoneEffect
    BY <1>1, <1>5 DEF TransactionInv, GoneEffect
  <1>6. CASE Start \/ BeginRound \/ Begin \/ UNCHANGED vars
    BY <1>1, <1>6, OtherStep DEF TransactionInv
  <1> QED
    BY <1>2, <1>3, <1>4, <1>5, <1>6, Kinds

LEMMA TimeStep ==
  ASSUME TypeOK, IInv, [Next]_vars
  PROVE  TimeInv'
  <1>1. /\ TimeInv /\ clock \in Nat /\ time_insert \in Int
        /\ pc = "off" => ~ontrip
    BY DEF IInv, TypeOK, TransactionInv
  <1>2. CASE Quiet
    BY <1>1, <1>2, QuietStep DEF TimeInv, Frozen
  <1>3. CASE WriteEffect
    BY <1>1, <1>3 DEF TimeInv, WriteEffect
  <1>4. CASE EndRound \/ Flush
    BY <1>1, <1>4, EndStep DEF TimeInv, CommitEffect
  <1>5. CASE GoneEffect
    BY <1>1, <1>5 DEF TimeInv, GoneEffect
  <1>6. CASE Start \/ BeginRound \/ Begin \/ UNCHANGED vars
    BY <1>1, <1>6, OtherStep DEF TimeInv
  <1> QED
    BY <1>2, <1>3, <1>4, <1>5, <1>6, Kinds

LEMMA NewestStep ==
  ASSUME TypeOK, IInv, [Next]_vars
  PROVE  CurrentTripIsNewest'
  <1>1. CurrentTripIsNewest
    BY DEF IInv
  <1>2. CASE Quiet
    BY <1>1, <1>2, QuietStep DEF CurrentTripIsNewest, Frozen
  <1>3. CASE WriteEffect
    BY <1>1, <1>3 DEF CurrentTripIsNewest, WriteEffect, TripsWritten
  <1>4. CASE EndRound \/ Flush
    BY <1>1, <1>4, EndStep DEF CurrentTripIsNewest, CommitEffect
  <1>5. CASE GoneEffect
    BY <1>1, <1>5 DEF CurrentTripIsNewest, GoneEffect
  <1>6. CASE Start \/ BeginRound \/ Begin \/ UNCHANGED vars
    BY <1>1, <1>6, OtherStep DEF CurrentTripIsNewest
  <1> QED
    BY <1>2, <1>3, <1>4, <1>5, <1>6, Kinds

LEMMA OpenTripStep ==
  ASSUME TypeOK, IInv, [Next]_vars
  PROVE  OpenTripInv'
  <1>1. OpenTripInv /\ clock \in Nat
    BY DEF IInv, TypeOK
  <1>2. CASE Quiet
    BY <1>1, <1>2, QuietStep DEF OpenTripInv, Frozen
  <1>3. CASE WriteEffect
    BY <1>3 DEF WriteEffect
  <1>4. CASE EndRound \/ Flush
    BY <1>1, <1>4, EndStep DEF OpenTripInv, CommitEffect
  <1>5. CASE GoneEffect
    <2>1. disk \in Databases(Columns)
      BY DEF TypeOK
    <2>2. DOMAIN disk'.trips = DOMAIN disk.trips
      BY <1>5, <2>1, DbShape DEF GoneEffect
    <2>3. \A i \in DOMAIN disk.trips : disk'.trips[i].end # NoEnd
      BY <1>1, <1>5 DEF OpenTripInv, GoneEffect, NoEnd
    <2> QED
      BY <1>5, <2>2, <2>3 DEF OpenTripInv, GoneEffect
  <1>6. CASE Start \/ BeginRound \/ Begin \/ UNCHANGED vars
    BY <1>1, <1>6, OtherStep DEF OpenTripInv
  <1> QED
    BY <1>2, <1>3, <1>4, <1>5, <1>6, Kinds

-----------------------------------------------------------------------------
(* Trips.                                                                  *)

\* The facts about trip times are about a table and survive a later clock.
LEMMA TripTimesLater ==
  ASSUME NEW db \in Databases(Columns), NEW now \in Int, NEW later \in Int,
         now <= later, clock \in Int, clock' \in Int, clock <= clock',
         TripTimesInv(db.trips, now)
  PROVE  \A i \in DOMAIN db.trips :
           /\ db.trips[i].end <= later
           /\ StartsBy(db.trips[i], clock')
           /\ db.trips[i].end # NoEnd => StartsBy(db.trips[i], db.trips[i].end)
           /\ \A j \in DOMAIN db.trips :
                i < j /\ Reliable(db.trips[j].start) => db.trips[i].end <= db.trips[j].start
  BY DbShape DEF TripTimesInv, StartsBy

LEMMA LastEndGrows ==
  ASSUME TypeOK, IInv, [Next]_vars
  PROVE  /\ LastEnd \in Int /\ LastEnd' \in Int /\ LastEnd <= LastEnd' /\ LastEnd <= clock
         /\ clock \in Nat /\ clock' \in Nat /\ clock <= clock'
  <1>1. clock \in Nat
    BY DEF TypeOK
  <1>2. CASE Quiet
    BY <1>1, <1>2, QuietStep DEF Frozen, LastEnd
  <1>3. CASE WriteEffect
    BY <1>1, <1>3 DEF WriteEffect, LastEnd
  <1>4. CASE EndRound \/ Flush
    BY <1>1, <1>4, EndStep DEF LastEnd
  <1>5. CASE GoneEffect
    BY <1>1, <1>5 DEF GoneEffect, LastEnd
  <1>6. CASE Start \/ BeginRound \/ Begin \/ UNCHANGED vars
    BY <1>1, <1>6, OtherStep DEF LastEnd
  <1> QED
    BY <1>2, <1>3, <1>4, <1>5, <1>6, Kinds

\* What a write does to the trips that are there: at most the newest grows.
LEMMA WrittenTrips ==
  ASSUME TypeOK, IInv, WriteEffect
  PROVE  /\ Len(conn.trips) <= Len(conn'.trips)
         /\ \A i \in DOMAIN conn.trips :
              /\ i \in DOMAIN conn'.trips
              /\ conn'.trips[i].start = conn.trips[i].start
              /\ conn.trips[i].end <= conn'.trips[i].end
              /\ i < Len(conn.trips) => conn'.trips[i] = conn.trips[i]
  <1>1. /\ conn \in Databases(Columns) /\ conn' \in Databases(Columns)
        /\ clock \in Nat /\ time_insert \in Int
    BY DEF TypeOK, WriteEffect
  <1>2. /\ DOMAIN conn.trips = 1..Len(conn.trips) /\ Len(conn.trips) \in Nat
        /\ DOMAIN conn'.trips = 1..Len(conn'.trips) /\ Len(conn'.trips) \in Nat
        /\ \A i \in DOMAIN conn.trips : conn.trips[i].end \in Int
    BY <1>1, DbShape
  <1>3. Len(conn.trips) <= Len(conn'.trips)
    BY <1>2 DEF WriteEffect, TripsWritten
  <1> SUFFICES ASSUME NEW i \in DOMAIN conn.trips
               PROVE  /\ conn'.trips[i].start = conn.trips[i].start
                      /\ conn.trips[i].end <= conn'.trips[i].end
                      /\ i < Len(conn.trips) => conn'.trips[i] = conn.trips[i]
    BY <1>2, <1>3
  <1>4. OldTripKept(i)
    BY DEF WriteEffect, TripsWritten
  <1>5. CASE conn'.trips[i] = conn.trips[i]
    BY <1>2, <1>5
  <1>6. CASE /\ i = currenttrip /\ time_insert = clock
             /\ conn'.trips[i].start = conn.trips[i].start
             /\ conn'.trips[i].end = time_insert
    <2>1. conn.trips[i].end <= clock
      BY <1>1, <1>2 DEF IInv, TripTimesInv, LastEnd
    <2>2. i = Len(conn.trips)
      BY <1>2, <1>6 DEF IInv, CurrentTripIsNewest, NoTrip, Unfiled
    <2> QED
      BY <1>2, <1>6, <2>1, <2>2
  <1> QED
    BY <1>4, <1>5, <1>6 DEF OldTripKept

LEMMA TripTimesWritten ==
  ASSUME TypeOK, IInv, WriteEffect
  PROVE  TripTimesInv(conn'.trips, LastEnd) /\ LastEnd' = LastEnd /\ clock' = clock
  <1>1. /\ conn \in Databases(Columns) /\ conn' \in Databases(Columns)
        /\ clock \in Nat /\ time_insert \in Int
    BY DEF TypeOK, WriteEffect
  <1>2. /\ DOMAIN conn.trips = 1..Len(conn.trips) /\ Len(conn.trips) \in Nat
        /\ DOMAIN conn'.trips = 1..Len(conn'.trips) /\ Len(conn'.trips) \in Nat
        /\ \A i \in DOMAIN conn.trips : conn.trips[i].end \in Int /\ conn.trips[i].start \in Int
    BY <1>1, DbShape
  <1>3. LastEnd' = LastEnd /\ clock' = clock /\ LastEnd \in Int /\ LastEnd >= -1
    BY <1>1 DEF WriteEffect, LastEnd
  <1>4. Reliable(time_insert) => time_insert = LastEnd
    BY <1>1 DEF WriteEffect, IInv, TimeInv, LastEnd, Reliable
  <1>5. TripTimesInv(conn.trips, LastEnd)
    BY DEF IInv
  \* The trips that were there.
  <1>6. ASSUME NEW i \in DOMAIN conn.trips
        PROVE  /\ conn'.trips[i].start = conn.trips[i].start
               /\ conn'.trips[i].end <= LastEnd
               /\ StartsBy(conn'.trips[i], clock)
               /\ conn'.trips[i].end # NoEnd => StartsBy(conn'.trips[i], conn'.trips[i].end)
               /\ \A j \in DOMAIN conn.trips :
                    i < j /\ Reliable(conn.trips[j].start)
                      => conn'.trips[i].end <= conn.trips[j].start
    <2>1. CASE conn'.trips[i] = conn.trips[i]
      BY <1>5, <2>1 DEF TripTimesInv
    <2>2. CASE /\ i = currenttrip /\ time_insert = clock /\ pc # "dbus"
               /\ conn'.trips[i].start = conn.trips[i].start
               /\ conn'.trips[i].end = time_insert
      <3>1. i = Len(conn.trips)
        BY <1>2, <2>2 DEF IInv, CurrentTripIsNewest, NoTrip, Unfiled
      <3> QED
        BY <1>1, <1>2, <1>5, <2>2, <3>1 DEF TripTimesInv, StartsBy, LastEnd
    <2> QED
      BY <2>1, <2>2 DEF WriteEffect, TripsWritten, OldTripKept
  <1>7. CASE Len(conn'.trips) = Len(conn.trips)
    BY <1>2, <1>3, <1>6, <1>7 DEF TripTimesInv
  <1>8. CASE /\ Len(conn'.trips) = Len(conn.trips) + 1
             /\ conn'.trips[Len(conn.trips) + 1] = [start |-> time_insert, end |-> NoEnd]
    <2> DEFINE n == Len(conn.trips) + 1
    <2>1. /\ conn'.trips[n].start = time_insert /\ conn'.trips[n].end = NoEnd
          /\ StartsBy(conn'.trips[n], clock)
      BY <1>1, <1>3, <1>4, <1>8 DEF StartsBy, LastEnd
    <2>2. \A i \in DOMAIN conn.trips :
            Reliable(conn'.trips[n].start) => conn'.trips[i].end <= conn'.trips[n].start
      BY <1>4, <1>6, <2>1
    <2>3. \A i \in DOMAIN conn'.trips : i \in DOMAIN conn.trips \/ i = n
      BY <1>2, <1>8
    <2>4. \A i \in DOMAIN conn.trips : i # n /\ i < n
      BY <1>2
    <2>5. NoEnd <= LastEnd
      BY <1>3 DEF NoEnd
    <2> HIDE DEF n
    <2>6. ASSUME NEW i \in DOMAIN conn'.trips
          PROVE  /\ conn'.trips[i].end <= LastEnd
                 /\ StartsBy(conn'.trips[i], clock)
                 /\ conn'.trips[i].end # NoEnd
                      => StartsBy(conn'.trips[i], conn'.trips[i].end)
                 /\ \A j \in DOMAIN conn'.trips :
                      i < j /\ Reliable(conn'.trips[j].start)
                        => conn'.trips[i].end <= conn'.trips[j].start
      <3>1. CASE i \in DOMAIN conn.trips
        BY <1>6, <2>2, <2>3, <3>1
      <3>2. CASE i = n
        <4>1. \A j \in DOMAIN conn'.trips : ~(n < j)
          BY <1>2, <1>8 DEF n
        <4> QED
          BY <2>1, <2>5, <3>2, <4>1
      <3> QED
        BY <2>3, <3>1, <3>2
    <2> QED
      BY <1>3, <2>6 DEF TripTimesInv
  <1> QED
    BY <1>3, <1>7, <1>8 DEF WriteEffect, TripsWritten

\* What the end of the process does to the trips in the file.
LEMMA GoneTrips ==
  ASSUME TypeOK, IInv, GoneEffect
  PROVE  /\ DOMAIN disk'.trips = DOMAIN disk.trips
         /\ \A i \in DOMAIN disk.trips :
              /\ disk'.trips[i].start = disk.trips[i].start
              /\ disk.trips[i].end <= disk'.trips[i].end
              /\ i < Len(disk.trips) => disk'.trips[i] = disk.trips[i]
         /\ TripTimesInv(disk'.trips, clock)
  <1>1. /\ disk \in Databases(Columns) /\ disk' \in Databases(Columns) /\ clock \in Nat
        /\ Len(disk'.trips) = Len(disk.trips)
    BY DEF TypeOK, GoneEffect
  <1>2. /\ DOMAIN disk.trips = 1..Len(disk.trips) /\ Len(disk.trips) \in Nat
        /\ DOMAIN disk'.trips = DOMAIN disk.trips
        /\ \A i \in DOMAIN disk.trips : disk.trips[i].end \in Int /\ disk.trips[i].start \in Int
    BY <1>1, DbShape
  <1>3. /\ TripTimesInv(disk.trips, LastEnd)
        /\ LastEnd \in Int /\ LastEnd <= clock
    BY <1>1 DEF IInv, DiskInv, LastEnd
  <1>4. ASSUME NEW i \in DOMAIN disk.trips
        PROVE  /\ disk'.trips[i].start = disk.trips[i].start
               /\ disk.trips[i].end <= disk'.trips[i].end
               /\ i < Len(disk.trips) => disk'.trips[i] = disk.trips[i]
               /\ disk'.trips[i].end <= clock
               /\ StartsBy(disk'.trips[i], clock)
               /\ disk'.trips[i].end # NoEnd => StartsBy(disk'.trips[i], disk'.trips[i].end)
               /\ \A j \in DOMAIN disk.trips :
                    i < j /\ Reliable(disk.trips[j].start)
                      => disk'.trips[i].end <= disk.trips[j].start
    <2>1. CASE disk'.trips[i] = disk.trips[i]
      BY <1>1, <1>2, <1>3, <2>1 DEF TripTimesInv
    <2>2. CASE /\ i = Len(disk.trips)
               /\ disk'.trips[i].start = disk.trips[i].start
               /\ disk'.trips[i].end = clock
      BY <1>1, <1>2, <1>3, <2>2 DEF TripTimesInv, StartsBy
    <2> QED
      BY <2>1, <2>2 DEF GoneEffect
  <1> QED
    BY <1>2, <1>4 DEF TripTimesInv

LEMMA TripTimesStep ==
  ASSUME TypeOK, IInv, [Next]_vars
  PROVE  TripTimesInv(conn.trips, LastEnd)'
  <1>1. /\ conn \in Databases(Columns) /\ disk \in Databases(Columns)
        /\ TripTimesInv(conn.trips, LastEnd)
    BY DEF TypeOK, IInv
  <1>2. CASE conn'.trips = conn.trips
    BY <1>1, <1>2, LastEndGrows, TripTimesLater DEF TripTimesInv, StartsBy
  <1>3. CASE WriteEffect
    BY <1>3, TripTimesWritten DEF TripTimesInv, StartsBy
  <1>4. CASE GoneEffect
    <2>1. conn' = disk' /\ LastEnd' = clock /\ clock' = clock
      BY <1>4 DEF GoneEffect, LastEnd
    <2> QED
      BY <1>4, <2>1, GoneTrips DEF TripTimesInv, StartsBy
  <1>5. EndRound \/ Flush => conn'.trips = conn.trips
    BY EndStep DEF CommitEffect
  <1>6. Quiet => conn' = conn
    BY QuietStep DEF Frozen
  <1> QED
    BY <1>2, <1>3, <1>4, <1>5, <1>6, OtherStep, Kinds

-----------------------------------------------------------------------------
(* Rows.                                                                   *)

\* The row a write may add, of either table, is of this round; it goes to the
\* newest trip.
LEMMA WrittenRow ==
  ASSUME TypeOK, IInv, WriteEffect
  PROVE  /\ pc # "dbus" => time_insert = clock
         /\ currenttrip \notin {NoTrip, Unfiled} =>
              currenttrip = Len(conn.trips) /\ currenttrip \in DOMAIN conn.trips
         /\ currenttrip' \notin {NoTrip, Unfiled} =>
              /\ currenttrip' \in DOMAIN conn'.trips /\ currenttrip' >= Len(conn.trips)
              /\ StartsBy(conn'.trips[currenttrip'], clock)
  <1>1. conn \in Databases(Columns) /\ conn' \in Databases(Columns)
    BY DEF TypeOK, WriteEffect
  <1>2. /\ DOMAIN conn.trips = 1..Len(conn.trips) /\ Len(conn.trips) \in Nat
        /\ DOMAIN conn'.trips = 1..Len(conn'.trips) /\ Len(conn'.trips) \in Nat
    BY <1>1, DbShape
  <1>3. pc # "dbus" => time_insert = clock
    BY WriteInTransaction DEF WriteEffect
  <1>4. currenttrip \notin {NoTrip, Unfiled} =>
          currenttrip = Len(conn.trips) /\ currenttrip \in DOMAIN conn.trips
    BY <1>2 DEF IInv, CurrentTripIsNewest, Unfiled
  <1>5. currenttrip' \notin {NoTrip, Unfiled} =>
          currenttrip' \in DOMAIN conn'.trips /\ currenttrip' >= Len(conn.trips)
    BY <1>2, <1>4 DEF WriteEffect, TripsWritten
  <1> QED
    BY <1>3, <1>4, <1>5, TripTimesWritten DEF TripTimesInv

BeforeRow == IF pc \in {"dbus", "signal", "clear", "query", "spin", "record"}
             THEN clock - 1 ELSE clock
BeforeFix == IF pc \in {"dbus", "signal", "clear", "query", "spin", "record", "update", "gps"}
             THEN clock - 1 ELSE clock

LEMMA BoundsGrow ==
  ASSUME TypeOK, IInv, [Next]_vars
  PROVE  /\ BeforeRow \in Int /\ BeforeRow' \in Int /\ BeforeRow <= BeforeRow'
         /\ BeforeFix \in Int /\ BeforeFix' \in Int /\ BeforeFix <= BeforeFix'
  <1>1. clock \in Nat
    BY DEF TypeOK
  <1>2. CASE Quiet
    BY <1>1, <1>2, QuietStep DEF Frozen, BeforeRow, BeforeFix
  <1>3. CASE WriteEffect
    BY <1>1, <1>3 DEF WriteEffect, BeforeRow, BeforeFix
  <1>4. CASE EndRound \/ Flush
    BY <1>1, <1>4, EndStep DEF BeforeRow, BeforeFix
  <1>5. CASE GoneEffect
    BY <1>1, <1>5 DEF GoneEffect, BeforeRow, BeforeFix
  <1>6. CASE Start \/ BeginRound \/ Begin \/ UNCHANGED vars
    BY <1>1, <1>6, OtherStep DEF BeforeRow, BeforeFix
  <1> QED
    BY <1>2, <1>3, <1>4, <1>5, <1>6, Kinds

\* But for a write and the end of the process, a step leaves the tables the
\* connection sees, and is not the one out of "update".
LEMMA SameTables ==
  ASSUME TypeOK, IInv, [Next]_vars
  PROVE  \/ Writing /\ WriteEffect
         \/ (Close \/ Crash) /\ GoneEffect
         \/ /\ conn'.trips = conn.trips /\ conn'.obd = conn.obd /\ conn'.gps = conn.gps
            /\ pc = "update" =>
                 pc' = "update" /\ currenttrip' = currenttrip /\ conn' = conn
            /\ clock <= clock'
            /\ \/ disk' = disk /\ (conn' = conn)
               \/ disk' = conn' /\ pc \in {"tail", "flush"}
            /\ pc' \in {"begin", "close"} \/ UNCHANGED refused
  <1>1. clock \in Nat
    BY DEF TypeOK
  <1>2. CASE Quiet
    BY <1>1, <1>2, QuietStep DEF Frozen
  <1>4. CASE EndRound \/ Flush
    BY <1>1, <1>4, EndStep DEF CommitEffect
  <1>6. CASE Start \/ BeginRound \/ Begin \/ UNCHANGED vars
    BY <1>1, <1>6, OtherStep
  <1> QED
    BY <1>2, <1>4, <1>6, Kinds

LEMMA ObdStep ==
  ASSUME TypeOK, IInv, [Next]_vars
  PROVE  ObdInv'
  <1>1. /\ conn \in Databases(Columns) /\ disk \in Databases(Columns) /\ clock \in Nat
    BY DEF TypeOK
  <1>2. /\ \A r \in conn.obd : r.time \in Int /\ r.trip \in TripIds
        /\ \A r \in disk.obd : r.time \in Int /\ r.trip \in TripIds
        /\ \A i \in DOMAIN conn.trips : conn.trips[i].end \in Int
        /\ \A i \in DOMAIN disk.trips : disk.trips[i].end \in Int
    BY <1>1, DbShape
  <1>3. \A r \in conn.obd :
          /\ r.time <= BeforeRow
          /\ r.trip # NoTrip =>
               /\ r.trip \in DOMAIN conn.trips
               /\ StartsBy(conn.trips[r.trip], r.time)
               /\ \/ r.time <= conn.trips[r.trip].end
                  \/ pc = "update" /\ r.trip = currenttrip /\ conn.locked
    BY DEF IInv, ObdInv, BeforeRow
  <1>4. /\ BeforeRow \in Int /\ BeforeRow' \in Int /\ BeforeRow <= BeforeRow'
    BY BoundsGrow
  <1> SUFFICES ASSUME NEW r \in conn'.obd
               PROVE  /\ r.time <= BeforeRow'
                      /\ r.trip # NoTrip =>
                           /\ r.trip \in DOMAIN conn'.trips
                           /\ StartsBy(conn'.trips[r.trip], r.time)
                           /\ \/ r.time <= conn'.trips[r.trip].end
                              \/ pc' = "update" /\ r.trip = currenttrip' /\ conn'.locked
    BY DEF ObdInv, BeforeRow, StartsBy
  <1>5. CASE Writing /\ WriteEffect
    <2>1. CASE r \in conn.obd
      <3>1. r.time <= BeforeRow'
        BY <1>2, <1>3, <1>4, <2>1
      <3>2. ASSUME r.trip # NoTrip
            PROVE  /\ r.trip \in DOMAIN conn.trips /\ r.trip \in DOMAIN conn'.trips
                   /\ StartsBy(conn'.trips[r.trip], r.time)
                   /\ conn.trips[r.trip].end <= conn'.trips[r.trip].end
                   /\ conn'.trips[r.trip].end \in Int
        <4>1. conn' \in Databases(Columns)
          BY <1>5 DEF WriteEffect
        <4> QED
          BY <1>3, <1>5, <2>1, <3>2, <4>1, WrittenTrips, DbShape DEF StartsBy
      <3>3. ASSUME r.trip # NoTrip, pc = "update", r.trip = currenttrip, conn.locked
            PROVE  r.time <= conn'.trips[r.trip].end
        <4>1. conn'.trips[r.trip].end = clock
          BY <1>5, <3>2, <3>3, KeepTripCloses
        <4>2. r.time <= clock
          BY <1>3, <2>1, <3>3 DEF BeforeRow
        <4> QED
          BY <4>1, <4>2
      <3> QED
        BY <1>2, <1>3, <2>1, <3>1, <3>2, <3>3
    <2>2. CASE r \notin conn.obd
      <3>1. /\ pc = "record" /\ pc' = "update" /\ clock' = clock
            /\ r = [time |-> time_insert, trip |-> currenttrip', cols |-> bound]
            /\ currenttrip' # Unfiled
            /\ conn' # conn
        BY <1>5, <2>2 DEF WriteEffect, ObdWritten
      <3>2. conn'.locked
        BY <1>5, <3>1 DEF WriteEffect
      <3>3. r.time = clock /\ r.trip = currenttrip' /\ BeforeRow' = clock
        BY <1>5, <3>1, WrittenRow DEF BeforeRow
      <3> QED
        BY <1>1, <1>5, <3>1, <3>2, <3>3, WrittenRow
    <2> QED
      BY <2>1, <2>2
  <1>6. CASE (Close \/ Crash) /\ GoneEffect
    <2>1. conn' = disk' /\ r \in disk.obd /\ r \in conn.obd
      BY <1>6 DEF GoneEffect, IInv, PendingInv
    <2>2. r.time <= BeforeRow'
      BY <1>2, <1>3, <1>4, <2>1
    <2>3. r.trip # NoTrip =>
            /\ r.trip \in DOMAIN disk.trips
            /\ StartsBy(disk.trips[r.trip], r.time)
            /\ r.time <= disk.trips[r.trip].end
      BY <2>1 DEF IInv, DiskInv, Journal!ObdWithinTrips, Journal!StartsBy,
                  Journal!Reliable, StartsBy, Reliable
    <2>4. disk' \in Databases(Columns)
      BY <1>6 DEF GoneEffect
    <2>5. \A i \in DOMAIN disk'.trips : disk'.trips[i].end \in Int
      BY <2>4, DbShape
    <2> QED
      BY <1>2, <1>6, <2>1, <2>2, <2>3, <2>5, GoneTrips DEF StartsBy
  <1>7. CASE /\ conn'.trips = conn.trips /\ conn'.obd = conn.obd
             /\ pc = "update" =>
                  pc' = "update" /\ currenttrip' = currenttrip /\ conn' = conn
    <2>1. r \in conn.obd /\ r.time <= BeforeRow'
      BY <1>2, <1>3, <1>4, <1>7
    <2> QED
      BY <1>3, <1>7, <2>1
  <1> QED
    BY <1>5, <1>6, <1>7, SameTables

LEMMA GpsStep ==
  ASSUME TypeOK, IInv, [Next]_vars
  PROVE  GpsInv'
  <1>1. /\ conn \in Databases(Columns) /\ disk \in Databases(Columns) /\ clock \in Nat
    BY DEF TypeOK
  <1>2. \A r \in conn.gps : r.time \in Int /\ r.trip \in TripIds
    BY <1>1, DbShape
  <1>3. \A r \in conn.gps :
          /\ r.time <= BeforeFix
          /\ r.trip \notin {NoTrip, Unfiled} =>
               r.trip \in DOMAIN conn.trips /\ StartsBy(conn.trips[r.trip], r.time)
    BY DEF IInv, GpsInv, BeforeFix
  <1>4. /\ BeforeFix \in Int /\ BeforeFix' \in Int /\ BeforeFix <= BeforeFix'
    BY BoundsGrow
  <1> SUFFICES ASSUME NEW r \in conn'.gps
               PROVE  /\ r.time <= BeforeFix'
                      /\ r.trip \notin {NoTrip, Unfiled} =>
                           r.trip \in DOMAIN conn'.trips /\ StartsBy(conn'.trips[r.trip], r.time)
    BY DEF GpsInv, BeforeFix, StartsBy
  <1>5. CASE Writing /\ WriteEffect
    <2>1. CASE r \in conn.gps
      BY <1>2, <1>3, <1>4, <1>5, <2>1, WrittenTrips DEF StartsBy
    <2>2. CASE r \notin conn.gps
      <3>1. /\ pc = "gps" /\ pc' = "tail" /\ clock' = clock
            /\ r = [time |-> time_insert, trip |-> currenttrip]
        BY <1>5, <2>2 DEF WriteEffect, GpsWritten
      <3>2. r.time = clock /\ r.trip = currenttrip /\ BeforeFix' = clock
        BY <1>5, <3>1, WrittenRow DEF BeforeFix
      <3>3. currenttrip \notin {NoTrip, Unfiled} =>
              /\ currenttrip \in DOMAIN conn.trips
              /\ StartsBy(conn.trips[currenttrip], clock)
        BY <1>5, WrittenRow DEF IInv, TripTimesInv
      <3> QED
        BY <1>1, <1>5, <3>2, <3>3, WrittenTrips DEF StartsBy
    <2> QED
      BY <2>1, <2>2
  <1>6. CASE (Close \/ Crash) /\ GoneEffect
    <2>1. conn' = disk' /\ r \in disk.gps /\ r \in conn.gps
      BY <1>6 DEF GoneEffect, IInv, PendingInv
    <2>2. r.trip \notin {NoTrip, Unfiled} =>
            r.trip \in DOMAIN disk.trips /\ StartsBy(disk.trips[r.trip], r.time)
      BY <2>1 DEF IInv, DiskInv, Journal!GpsAfterStarts, Journal!StartsBy,
                  Journal!Reliable, StartsBy, Reliable
    <2> QED
      BY <1>2, <1>3, <1>4, <1>6, <2>1, <2>2, GoneTrips DEF StartsBy
  <1>7. CASE conn'.trips = conn.trips /\ conn'.gps = conn.gps
    BY <1>2, <1>3, <1>4, <1>7
  <1> QED
    BY <1>5, <1>6, <1>7, SameTables

-----------------------------------------------------------------------------
(* The file.                                                               *)

LEMMA DiskStep ==
  ASSUME TypeOK, IInv, [Next]_vars
  PROVE  DiskInv'
  <1>1. /\ conn \in Databases(Columns) /\ disk \in Databases(Columns)
        /\ disk' \in Databases(Columns)
    BY NextType DEF TypeOK
  <1>2. /\ TripTimesInv(disk.trips, LastEnd)
        /\ Journal!ObdWithinTrips(disk.trips, disk.obd)
        /\ Journal!GpsAfterStarts(disk.trips, disk.gps)
    BY DEF IInv, DiskInv
  <1>3. CASE disk' = disk
    <2>1. TripTimesInv(disk.trips, LastEnd)'
      BY <1>1, <1>2, <1>3, LastEndGrows, TripTimesLater DEF TripTimesInv, StartsBy
    <2> QED
      BY <1>2, <1>3, <2>1 DEF DiskInv, Journal!ObdWithinTrips, Journal!GpsAfterStarts,
         Journal!StartsBy, Journal!Reliable
  <1>4. CASE /\ disk'.trips = conn.trips /\ disk'.obd = conn.obd /\ disk'.gps = conn.gps
             /\ pc \in {"tail", "flush"}
    <2>1. TripTimesInv(conn.trips, LastEnd)
      BY DEF IInv
    <2>2. TripTimesInv(disk.trips, LastEnd)'
      BY <1>1, <1>4, <2>1, LastEndGrows, TripTimesLater DEF TripTimesInv, StartsBy
    <2>3. \A r \in conn.obd : r.trip # NoTrip =>
            /\ r.trip \in DOMAIN conn.trips
            /\ StartsBy(conn.trips[r.trip], r.time)
            /\ r.time <= conn.trips[r.trip].end
      BY <1>4 DEF IInv, ObdInv
    <2>4. \A r \in conn.gps : r.trip \notin {NoTrip, Unfiled} =>
            r.trip \in DOMAIN conn.trips /\ StartsBy(conn.trips[r.trip], r.time)
      BY DEF IInv, GpsInv
    <2>5. Journal!ObdWithinTrips(disk'.trips, disk'.obd)
      BY <1>4, <2>3 DEF Journal!ObdWithinTrips, Journal!StartsBy, Journal!Reliable,
         StartsBy, Reliable
    <2>6. Journal!GpsAfterStarts(disk'.trips, disk'.gps)
      BY <1>4, <2>4 DEF Journal!GpsAfterStarts, Journal!StartsBy, Journal!Reliable,
         StartsBy, Reliable
    <2> QED
      BY <2>2, <2>5, <2>6 DEF DiskInv, Journal!ObdWithinTrips, Journal!GpsAfterStarts,
         Journal!StartsBy, Journal!Reliable
  <1>5. CASE GoneEffect
    <2>1. LastEnd' = clock' /\ clock' = clock
      BY <1>5 DEF GoneEffect, LastEnd
    <2>2. TripTimesInv(disk.trips, LastEnd)'
      BY <1>5, <2>1, GoneTrips DEF TripTimesInv, StartsBy
    <2>3. /\ \A r \in disk.obd : r.time \in Int
          /\ \A i \in DOMAIN disk.trips : disk.trips[i].end \in Int
          /\ \A i \in DOMAIN disk'.trips : disk'.trips[i].end \in Int
      BY <1>1, DbShape
    <2>4. Journal!ObdWithinTrips(disk'.trips, disk'.obd)
      BY <1>2, <1>5, <2>3, GoneTrips DEF GoneEffect, Journal!ObdWithinTrips,
         Journal!StartsBy, Journal!Reliable
    <2>5. Journal!GpsAfterStarts(disk'.trips, disk'.gps)
      BY <1>2, <1>5, GoneTrips DEF GoneEffect, Journal!GpsAfterStarts,
         Journal!StartsBy, Journal!Reliable
    <2> QED
      BY <2>2, <2>4, <2>5 DEF DiskInv, Journal!ObdWithinTrips, Journal!GpsAfterStarts,
         Journal!StartsBy, Journal!Reliable
  <1>6. WriteEffect => disk' = disk
    BY DEF WriteEffect
  <1> QED
    BY <1>3, <1>4, <1>5, <1>6, SameTables

\* The rows that are pending are newer than those in the file.
LEMMA PendingStep ==
  ASSUME TypeOK, IInv, [Next]_vars
  PROVE  PendingInv'
  <1>1. /\ conn \in Databases(Columns) /\ disk \in Databases(Columns) /\ clock \in Nat
        /\ conn' \in Databases(Columns) /\ disk' \in Databases(Columns)
    BY NextType DEF TypeOK
  <1>2. /\ Len(conn.trips) \in Nat /\ DOMAIN conn.trips = 1..Len(conn.trips)
        /\ Len(disk.trips) \in Nat /\ DOMAIN disk.trips = 1..Len(disk.trips)
        /\ Len(conn'.trips) \in Nat
        /\ \A i \in DOMAIN conn.trips : conn.trips[i].end \in Int
        /\ \A i \in DOMAIN disk.trips : disk.trips[i].end \in Int
        /\ \A i \in DOMAIN conn'.trips : conn'.trips[i].end \in Int
        /\ \A i \in DOMAIN disk'.trips : disk'.trips[i].end \in Int
        /\ \A r \in disk.obd : r.time \in Int
        /\ \A r \in disk.gps : r.time \in Int
    BY <1>1, DbShape
  <1>3. PendingInv
    BY DEF IInv
  <1>4. CASE disk' = conn'
    BY <1>2, <1>4 DEF PendingInv
  <1>5. CASE disk' = disk /\ conn' = conn
    BY <1>3, <1>5 DEF PendingInv
  <1>6. CASE Writing /\ WriteEffect
    <2>1. disk' = disk
      BY <1>6 DEF WriteEffect
    <2>2. /\ Len(disk.trips) <= Len(conn'.trips)
          /\ \A i \in DOMAIN disk.trips :
               /\ conn'.trips[i].start = disk.trips[i].start
               /\ disk.trips[i].end <= conn'.trips[i].end
               /\ i < Len(disk.trips) => conn'.trips[i] = disk.trips[i]
      <3>1. Len(disk.trips) <= Len(conn.trips) /\ Len(conn.trips) <= Len(conn'.trips)
        BY <1>3, <1>6, WrittenTrips DEF PendingInv
      <3>2. ASSUME NEW i \in DOMAIN disk.trips
            PROVE  /\ conn'.trips[i].start = disk.trips[i].start
                   /\ disk.trips[i].end <= conn'.trips[i].end
                   /\ i < Len(disk.trips) => conn'.trips[i] = disk.trips[i]
        <4>1. i \in DOMAIN conn.trips
          BY <1>2, <3>1
        <4>2. i \in DOMAIN conn'.trips
          BY <1>6, <4>1, WrittenTrips
        <4> QED
          BY <1>2, <1>3, <1>6, <3>1, <4>1, <4>2, WrittenTrips DEF PendingInv
      <3> QED
        BY <1>2, <3>1, <3>2
    <2>3. ASSUME NEW r \in conn'.obd \ disk.obd
          PROVE  /\ \A s \in disk.obd : s.time < r.time
                 /\ r.trip # NoTrip => r.trip >= Len(disk.trips)
      <3>1. CASE r \in conn.obd
        BY <1>3, <3>1 DEF PendingInv
      <3>2. CASE r \notin conn.obd
        <4>1. /\ pc = "record" /\ currenttrip' # Unfiled
              /\ r = [time |-> time_insert, trip |-> currenttrip', cols |-> bound]
          BY <1>6, <3>2 DEF WriteEffect, ObdWritten
        <4>2. r.time = clock /\ r.trip = currenttrip'
          BY <1>6, <4>1, WrittenRow
        <4>3. \A s \in disk.obd : s.time <= clock - 1
          BY <1>3, <4>1 DEF PendingInv, IInv, ObdInv
        <4>4. r.trip # NoTrip =>
                /\ currenttrip' \in DOMAIN conn'.trips /\ r.trip >= Len(conn.trips)
                /\ Len(conn.trips) >= Len(disk.trips)
          BY <1>3, <1>6, <4>1, <4>2, WrittenRow DEF PendingInv
        <4>5. \A i \in DOMAIN conn'.trips : i \in Int
          BY <1>1, DbShape
        <4> QED
          BY <1>1, <1>2, <4>2, <4>3, <4>4, <4>5
      <3> QED
        BY <3>1, <3>2
    <2>4. ASSUME NEW r \in conn'.gps \ disk.gps
          PROVE  /\ \A s \in disk.gps : s.time < r.time
                 /\ r.trip \notin {NoTrip, Unfiled} => r.trip >= Len(disk.trips)
      <3>1. CASE r \in conn.gps
        BY <1>3, <3>1 DEF PendingInv
      <3>2. CASE r \notin conn.gps
        <4>1. pc = "gps" /\ r = [time |-> time_insert, trip |-> currenttrip]
          BY <1>6, <3>2 DEF WriteEffect, GpsWritten
        <4>2. r.time = clock /\ r.trip = currenttrip
          BY <1>6, <4>1, WrittenRow
        <4>3. \A s \in disk.gps : s.time <= clock - 1
          BY <1>3, <4>1 DEF PendingInv, IInv, GpsInv
        <4>4. r.trip \notin {NoTrip, Unfiled} =>
                r.trip = Len(conn.trips) /\ Len(conn.trips) >= Len(disk.trips)
          BY <1>3, <1>6, <4>2, WrittenRow DEF PendingInv
        <4> QED
          BY <1>1, <1>2, <4>2, <4>3, <4>4
      <3> QED
        BY <3>1, <3>2
    <2>5. disk.obd \subseteq conn'.obd /\ disk.gps \subseteq conn'.gps
      BY <1>3, <1>6 DEF PendingInv, WriteEffect, ObdWritten, GpsWritten
    <2> QED
      BY <2>1, <2>2, <2>3, <2>4, <2>5 DEF PendingInv
  <1>7. GoneEffect => disk' = conn'
    BY DEF GoneEffect
  <1> QED
    BY <1>4, <1>5, <1>6, <1>7, SameTables

\* The counter is ahead of the oldest pending row.
LEMMA LossStep ==
  ASSUME TypeOK, IInv, [Next]_vars
  PROVE  LossInv'
  <1> DEFINE pending == (conn.obd \ disk.obd) \cup (conn.gps \ disk.gps)
  <1>1. /\ conn \in Databases(Columns) /\ clock \in Nat /\ transactioncount \in Nat
        /\ time_insert \in Int
    BY BaseType DEF TypeOK
  <1>2. \A r \in pending : r.time \in Int
    BY <1>1, DbShape
  <1>3. LossInv
    BY DEF IInv
  <1>4. CASE disk' = conn'
    BY <1>4 DEF LossInv
  <1>5. CASE Quiet
    BY <1>1, <1>2, <1>3, <1>5, QuietStep DEF Frozen, LossInv
  <1>6. CASE Start \/ BeginRound \/ Begin \/ UNCHANGED vars
    <2>1. UNCHANGED <<disk, conn, refused, transactioncount>>
      BY <1>6, OtherStep
    <2>2. CASE pc = "top" /\ pc' = "dbus" /\ clock' = clock + 1
      BY <1>1, <1>2, <1>3, <2>1, <2>2 DEF LossInv
    <2>3. CASE pc = "off"
      <3>1. conn = disk
        BY <2>3 DEF IInv, TransactionInv
      <3> QED
        BY <2>1, <3>1 DEF LossInv
    <2>4. CASE /\ UNCHANGED clock
               /\ pc' = pc \/ (pc = "begin" /\ pc' = "top")
      BY <1>3, <2>1, <2>4 DEF LossInv
    <2> QED
      BY <1>6, <2>2, <2>3, <2>4, OtherStep
  <1>7. CASE EndRound \/ Flush
    BY <1>1, <1>2, <1>3, <1>7, EndStep DEF LossInv, CommitEffect
  <1>8. CASE Writing /\ WriteEffect
    <2>1. /\ UNCHANGED <<disk, refused, clock, transactioncount>>
          /\ pc \notin {"top", "begin"} /\ pc' \notin {"top", "begin"}
      BY <1>8 DEF WriteEffect
    <2>2. \A r \in conn'.obd \ conn.obd : r.time = clock
      BY <1>8, WrittenRow DEF WriteEffect, ObdWritten
    <2>3. \A r \in conn'.gps \ conn.gps : r.time = clock
      BY <1>8, WrittenRow DEF WriteEffect, GpsWritten
    <2> QED
      BY <1>1, <1>3, <2>1, <2>2, <2>3 DEF LossInv
  <1>9. GoneEffect => disk' = conn'
    BY DEF GoneEffect
  <1> QED
    BY <1>4, <1>5, <1>6, <1>7, <1>8, <1>9, Kinds

-----------------------------------------------------------------------------
(* The columns of a row.                                                   *)

LEMMA BindingStep ==
  ASSUME TypeOK, IInv, [Next]_vars
  PROVE  BindingInv'
  <1> USE DEF dbVars, tripVars, obdVars, devVars, sigVars, outVars, loopVars
  <1>1. /\ BindingInv /\ Columns \in Nat /\ col \in 0..Columns
        /\ bound \in [1..Columns -> Int]
        /\ pc \in {"signal", "clear", "query", "record"} => time_insert = clock
    BY ConstantsAssumption DEF IInv, TypeOK, TimeInv
  <1>2. CASE QueryColumn
    <2>1. PICK s \in Statuses :
            /\ obdstatus' = s
            /\ IF s = "success"
               THEN /\ bound' = [bound EXCEPT ![col + 1] = time_insert]
                    /\ col' = col + 1
                    /\ pc' = pc
               ELSE /\ UNCHANGED <<bound, col>>
                    /\ pc' = "record"
      BY <1>2 DEF QueryColumn
    <2>2. pc = "query" /\ col < Columns /\ UNCHANGED clock
      BY <1>2 DEF QueryColumn
    <2>3. CASE s = "success"
      <3>1. \A c \in 1..(col + 1) : bound'[c] = clock
        BY <1>1, <2>1, <2>2, <2>3 DEF BindingInv
      <3> QED
        BY <2>1, <2>2, <2>3, <3>1 DEF BindingInv
    <2>4. CASE s # "success"
      BY <2>1, <2>2, <2>4 DEF BindingInv
    <2> QED
      BY <2>3, <2>4
  <1>3. CASE QueryDone
    BY <1>1, <1>3 DEF QueryDone, BindingInv
  <1>4. CASE BeginRound
    BY <1>4 DEF BeginRound, BindingInv
  <1>5. CASE ClearSignal \/ NoStartSignal
    BY <1>1, <1>5 DEF ClearSignal, NoStartSignal, AfterSignal, BindingInv
  <1>6. CASE /\ UNCHANGED <<col, bound, obdstatus, clock>>
             /\ pc' = pc \/ pc' \notin {"dbus", "query", "record"}
             /\ pc' \in {"signal", "clear"} => pc' = pc \/ pc \in {"dbus", "signal"}
    BY <1>1, <1>6 DEF BindingInv
  <1>7. CASE Writing
    BY <1>6, <1>7 DEF Writing, DBusStart, HonourStart, RecordSample, RecordNothing,
                      KeepTrip, GpsFix
  <1>8. CASE SamplesDone \/ ClockFails \/ QuerySpins \/ DBusDone \/ RecordError \/ GpsNothing \/ GpsReconnect
    BY <1>6, <1>8 DEF SamplesDone, ClockFails, QuerySpins, DBusDone, RecordError, GpsNothing,
                      GpsReconnect
  <1>9. CASE EndRound \/ Flush \/ Begin \/ Start
    BY <1>6, <1>9 DEF EndRound, Flush, Begin, Start
  <1>10. CASE Outside
    BY <1>6, <1>10 DEF Outside, ExitSignal, StartSignal, SendMessage, GpsdDies, Hold, LetGo
  <1>11. CASE Close \/ Crash
    BY <1>11 DEF Close, Crash, Gone, BindingInv
  <1>12. CASE UNCHANGED vars
    BY <1>6, <1>12 DEF vars
  <1> QED
    BY <1>2, <1>3, <1>4, <1>5, <1>7, <1>8, <1>9, <1>10, <1>11, <1>12, KindsOfStep DEF Quiet

LEMMA RowsStep ==
  ASSUME TypeOK, IInv, [Next]_vars
  PROVE  RowsOfOneRound'
  <1>1. RowsOfOneRound /\ BindingInv /\ disk.obd \subseteq conn.obd
    BY DEF IInv, PendingInv
  <1>2. CASE Writing /\ WriteEffect
    <2>1. ASSUME NEW r \in conn'.obd, r \notin conn.obd
          PROVE  \A c \in 1..Columns : r.cols[c] = r.time
      <3>1. /\ pc = "record" /\ obdstatus = "success"
            /\ r = [time |-> time_insert, trip |-> currenttrip', cols |-> bound]
        BY <1>2, <2>1 DEF WriteEffect, ObdWritten
      <3>2. time_insert = clock
        BY <1>2, <3>1, WrittenRow
      <3> QED
        BY <1>1, <3>1, <3>2 DEF BindingInv
    <2> QED
      BY <1>1, <2>1 DEF RowsOfOneRound
  <1>3. CASE conn'.obd \subseteq conn.obd
    BY <1>1, <1>3 DEF RowsOfOneRound
  <1>4. GoneEffect => conn'.obd \subseteq conn.obd
    BY <1>1 DEF GoneEffect
  <1> QED
    BY <1>2, <1>3, <1>4, SameTables

-----------------------------------------------------------------------------
(* The theorems.                                                           *)

LEMMA InitInv == Init => IInv
  <1> SUFFICES ASSUME Init PROVE IInv
    OBVIOUS
  <1>1. /\ disk = EmptyDb /\ conn = EmptyDb /\ ~intx /\ ~refused /\ pc = "off"
        /\ currenttrip = Unfiled /\ ~ontrip /\ clock = 0
    BY DEF Init
  <1>2. /\ disk.trips = <<>> /\ disk.obd = {} /\ disk.gps = {} /\ ~disk.locked
        /\ conn.trips = <<>> /\ conn.obd = {} /\ conn.gps = {} /\ ~conn.locked
    BY <1>1 DEF EmptyDb
  <1>3. DOMAIN conn.trips = {} /\ Len(conn.trips) = 0 /\ DOMAIN disk.trips = {}
        /\ Len(disk.trips) = 0
    BY <1>2
  <1>4. TransactionInv /\ CurrentTripIsNewest /\ TimeInv
    BY <1>1, <1>2, <1>3 DEF TransactionInv, CurrentTripIsNewest, TimeInv, Unfiled, Init
  <1>5. TripTimesInv(conn.trips, LastEnd) /\ OpenTripInv
    BY <1>3 DEF TripTimesInv, OpenTripInv
  <1>6. ObdInv /\ GpsInv /\ PendingInv /\ LossInv /\ RowsOfOneRound
    BY <1>2, <1>3 DEF ObdInv, GpsInv, PendingInv, LossInv, RowsOfOneRound
  <1>7. DiskInv
    BY <1>2, <1>3 DEF DiskInv, TripTimesInv, Journal!ObdWithinTrips, Journal!GpsAfterStarts
  <1>8. BindingInv
    BY <1>1 DEF BindingInv
  <1> QED
    BY <1>4, <1>5, <1>6, <1>7, <1>8 DEF IInv

LEMMA NextInv ==
  ASSUME TypeOK, IInv, [Next]_vars
  PROVE  IInv'
  BY TransactionStep, NewestStep, TimeStep, TripTimesStep, OpenTripStep, ObdStep, GpsStep,
     DiskStep, PendingStep, LossStep, BindingStep, RowsStep
  DEF IInv

\* The invariant is inductive: it holds in every state the logger, its crashes
\* and restarts included, can reach.
THEOREM Inductive == Spec => []IInv
  <1>1. TypeOK /\ IInv /\ [Next]_vars => IInv'
    BY NextInv
  <1> QED
    BY InitInv, <1>1, TypeCorrect, PTL DEF Spec

\* The trip that is running is the newest one, or was refused.
THEOREM NewestTrip == Spec => []CurrentTripIsNewest
  <1>1. IInv => CurrentTripIsNewest
    BY DEF IInv
  <1> QED
    BY <1>1, Inductive, PTL

\* No row mixes values read in different rounds.
THEOREM WholeRows == Spec => []RowsOfOneRound
  <1>1. IInv => RowsOfOneRound
    BY DEF IInv
  <1> QED
    BY <1>1, Inductive, PTL

\* However the loop is left, the file then has every row taken so far, unless
\* the last COMMIT was refused.
THEOREM NothingLostOnExit == Spec => []SavedOnExit
  <1>1. IInv => SavedOnExit
    BY DEF IInv, TransactionInv, SavedOnExit
  <1> QED
    BY <1>1, Inductive, PTL

\* Unless a COMMIT was refused a crash loses less than BaseTransactionCount
\* rounds.
THEOREM CrashLosesLittle == Spec => []LossBounded
  <1>1. TypeOK /\ IInv => LossBounded
    <2> SUFFICES ASSUME TypeOK, IInv PROVE LossBounded
      OBVIOUS
    <2>1. /\ clock \in Nat /\ transactioncount \in 0 .. BaseTransactionCount - 1
          /\ conn \in Databases(Columns)
      BY DEF TypeOK
    <2>2. \A r \in conn.obd \cup conn.gps : r.time \in Int
      BY <2>1, DbShape
    <2>3. ~refused => \A r \in (conn.obd \ disk.obd) \cup (conn.gps \ disk.gps) :
                        r.time + transactioncount >= clock
      BY <2>1, <2>2 DEF IInv, LossInv
    <2> QED
      BY <2>1, <2>2, <2>3, BaseType DEF LossBounded
  <1> QED
    BY <1>1, TypeCorrect, Inductive, PTL

\* What is in the file is always well formed.
LEMMA FileWellFormed ==
  ASSUME IInv
  PROVE  Journal!WellFormed(disk.trips, disk.obd, disk.gps)
  BY DEF IInv, DiskInv, OpenTripInv, TripTimesInv, Reliable, StartsBy, Journal!WellFormed,
     Journal!TripsInOrder, Journal!Reliable, Journal!StartsBy

\* The logger implements the journal: a reader of the file sees it grow, trip
\* by trip and sample by sample, whatever happens to the writer.
THEOREM ImplementsJournal == Spec => KeepsJournal
  <1>1. Init => Journal!Init
    BY DEF Init, EmptyDb, Journal!Init
  <1>2. ASSUME TypeOK, IInv, IInv', [Next]_vars
        PROVE  [Journal!Publish]_(Journal!jvars)
    <2>1. Journal!WellFormed(disk'.trips, disk'.obd, disk'.gps)
      <3>1. /\ \A i \in DOMAIN disk'.trips : disk'.trips[i].end # NoEnd
            /\ TripTimesInv(disk.trips, LastEnd)'
            /\ Journal!ObdWithinTrips(disk'.trips, disk'.obd)
            /\ Journal!GpsAfterStarts(disk'.trips, disk'.gps)
        BY <1>2 DEF IInv, OpenTripInv, DiskInv, Journal!ObdWithinTrips,
           Journal!GpsAfterStarts, Journal!StartsBy, Journal!Reliable
      <3> QED
        BY <3>1 DEF TripTimesInv, Reliable, StartsBy, Journal!WellFormed,
           Journal!TripsInOrder, Journal!Reliable, Journal!StartsBy
    <2>2. CASE disk' = disk
      BY <2>2 DEF Journal!jvars
    <2>3. CASE disk'.trips = conn.trips /\ disk'.obd = conn.obd /\ disk'.gps = conn.gps
      BY <1>2, <2>1, <2>3 DEF IInv, PendingInv, Journal!Publish, Journal!TripsGrow,
         Journal!ObdGrows, Journal!GpsGrows
    <2>4. CASE GoneEffect
      BY <1>2, <2>1, <2>4, GoneTrips DEF GoneEffect, Journal!Publish, Journal!TripsGrow,
         Journal!ObdGrows, Journal!GpsGrows
    <2> QED
      BY <1>2, <2>2, <2>3, <2>4, SameTables DEF WriteEffect
  <1> QED
    BY <1>1, <1>2, TypeCorrect, Inductive, PTL DEF Spec, KeepsJournal, Journal!Spec
=============================================================================
