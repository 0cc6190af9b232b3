------------------------------- MODULE TripDb -------------------------------
(***************************************************************************)
(* The trip, obd and gps tables as the logger's one SQLite connection sees *)
(* them, and the statements that change them: starttrip() and updatetrip() *)
(* of logger/tripdb.c and the two prepared inserts of logger/main.c.       *)
(*                                                                         *)
(* A database is a record:                                                 *)
(*   trips   the trip table.  tripid is an INTEGER PRIMARY KEY and nothing *)
(*           deletes a trip, so the row of tripid i is trips[i];           *)
(*   obd     the rows of the obd table: the round's time, the trip they    *)
(*           are filed under, and for each column the round its value was  *)
(*           read in;                                                      *)
(*   gps     the rows of the gps table (the position itself is left out);  *)
(*   locked  whether the open transaction has SQLite's write lock.  The    *)
(*           file itself (nobody's transaction) has it FALSE.              *)
(*                                                                         *)
(* SQLite is external.  What the model takes from it: a transaction opened *)
(* by BEGIN asks for the write lock at its first write; database.c waits   *)
(* one millisecond for it, so while another process (a reader converting   *)
(* the log, the repair tool) holds the file that write may be refused;     *)
(* once the lock is held no write of the transaction is refused.  A full   *)
(* disk or an I/O error is not modelled.                                   *)
(***************************************************************************)
EXTENDS Integers, Sequences

VARIABLE busy     \* another process is holding the database

NoEnd   == -1     \* trip.end before its first update: "end REAL DEFAULT -1"
NoTrip  == -1     \* what starttrip() returns when SQLite refuses the insert
Unfiled == 0      \* currenttrip before any starttrip(); no trip has this id

EmptyDb == [trips |-> <<>>, obd |-> {}, gps |-> {}, locked |-> FALSE]

Trips == [start: Int, end: Int]
TripIds == Nat \cup {NoTrip}
ObdRows(columns) == [time: Int, trip: TripIds, cols: [1..columns -> Int]]
GpsRows == [time: Int, trip: TripIds]
Databases(columns) == [trips: Seq(Trips), obd: SUBSET ObdRows(columns),
                       gps: SUBSET GpsRows, locked: BOOLEAN]

-----------------------------------------------------------------------------
(* A write yields the set of databases it may leave behind.                *)

Refused(db) == IF busy /\ ~db.locked THEN {db} ELSE {}

Unlocked(db) == [db EXCEPT !.locked = FALSE]

\* starttrip: the new database with the value the function returns.
StartTripIgnoresError(db, time) ==
  {[db |-> [db EXCEPT !.trips = Append(@, [start |-> time, end |-> NoEnd]),
                      !.locked = TRUE],
    id |-> Len(db.trips) + 1]}
    \cup {[db |-> d, id |-> Len(d.trips) + 1] : d \in Refused(db)}

StartTrip(db, time) ==
  {[db |-> [db EXCEPT !.trips = Append(@, [start |-> time, end |-> NoEnd]),
                      !.locked = TRUE],
    id |-> Len(db.trips) + 1]}
    \cup {[db |-> d, id |-> NoTrip] : d \in Refused(db)}

\* updatetrip: UPDATE trip SET end=time WHERE tripid=id, which matches no row
\* while nothing has been started but takes the write lock all the same.
UpdateTrip(db, id, time) ==
  IF id = NoTrip THEN {db}
  ELSE {[db EXCEPT !.trips = [i \in DOMAIN @ |->
                                IF i = id THEN [@[i] EXCEPT !.end = time]
                                          ELSE @[i]],
                   !.locked = TRUE]}
         \cup Refused(db)

InsertObd(db, row) == {[db EXCEPT !.obd = @ \cup {row}, !.locked = TRUE]}
                        \cup Refused(db)

InsertGps(db, row) == {[db EXCEPT !.gps = @ \cup {row}, !.locked = TRUE]}
                        \cup Refused(db)
=============================================================================
