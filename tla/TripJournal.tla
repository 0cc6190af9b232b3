---------------------------- MODULE TripJournal ----------------------------
(***************************************************************************)
(* What the database file promises whoever reads it while, or after, the   *)
(* logger writes it (the csv, gpx and kml converters, the analysis tool):  *)
(* an append-only journal of trips and samples.  A reader never sees a     *)
(* trip without an end, a sample outside its trip or under a trip that is  *)
(* not there; what it has seen once it sees again, except that the newest  *)
(* trip may have grown; and what is new is newer than all it has seen.     *)
(* Crashes, restarts and refused commits of the writer do not show.        *)
(***************************************************************************)
EXTENDS Integers, Sequences

CONSTANTS
  NoEnd, NoTrip, Unfiled,   \* as in TripDb
  UnreliableStarts          \* start times the writer does not answer for

VARIABLES trips, obd, gps

jvars == <<trips, obd, gps>>

Reliable(start) == start \notin UnreliableStarts

StartsBy(trip, time) == Reliable(trip.start) => trip.start <= time

\* Every trip is ended, and ends no earlier than it starts and no later than
\* the next one starts.
TripsInOrder(ts) ==
  \A i \in DOMAIN ts :
    /\ ts[i].end # NoEnd
    /\ StartsBy(ts[i], ts[i].end)
    /\ \A j \in DOMAIN ts :
         i < j /\ Reliable(ts[j].start) => ts[i].end <= ts[j].start

\* Every row of the obd table lies within the trip it is filed under.
ObdWithinTrips(ts, rows) ==
  \A r \in rows : r.trip # NoTrip =>
    /\ r.trip \in DOMAIN ts
    /\ StartsBy(ts[r.trip], r.time)
    /\ r.time <= ts[r.trip].end

\* A position may be filed under no trip, or under one that has ended.
GpsAfterStarts(ts, rows) ==
  \A r \in rows : r.trip \notin {NoTrip, Unfiled} =>
    /\ r.trip \in DOMAIN ts
    /\ StartsBy(ts[r.trip], r.time)

WellFormed(ts, os, gs) ==
  TripsInOrder(ts) /\ ObdWithinTrips(ts, os) /\ GpsAfterStarts(ts, gs)

\* No trip is rewritten but the newest, and that one only grows.
TripsGrow ==
  /\ Len(trips) <= Len(trips')
  /\ \A i \in DOMAIN trips :
       /\ trips'[i].start = trips[i].start
       /\ trips[i].end <= trips'[i].end
       /\ i < Len(trips) => trips'[i] = trips[i]

\* A new sample is later than every old one and goes to the newest of the old
\* trips or to a new one.
ObdGrows ==
  /\ obd \subseteq obd'
  /\ \A r \in obd' \ obd :
       /\ \A s \in obd : s.time < r.time
       /\ r.trip # NoTrip => r.trip >= Len(trips)

GpsGrows ==
  /\ gps \subseteq gps'
  /\ \A r \in gps' \ gps :
       /\ \A s \in gps : s.time < r.time
       /\ r.trip \notin {NoTrip, Unfiled} => r.trip >= Len(trips)

Init == trips = <<>> /\ obd = {} /\ gps = {}

Publish ==
  /\ WellFormed(trips', obd', gps')
  /\ TripsGrow /\ ObdGrows /\ GpsGrows

Spec == Init /\ [][Publish]_jvars
=============================================================================
