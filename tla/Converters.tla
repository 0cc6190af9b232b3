----------------------------- MODULE Converters -----------------------------
(***************************************************************************)
(* The programs that turn a log into something else, which may run while   *)
(* it is being written: csv/obdgpscsv.c, gpx/obd2gpx.c and kml/.  The log  *)
(* is the journal of TripJournal.                                          *)
(*                                                                         *)
(* SQLite is external.  A statement that is being stepped keeps the file   *)
(* as it was at its first step, and no commit gets through meanwhile; the  *)
(* first step, on the other hand, is refused (SQLITE_BUSY) when it comes   *)
(* in the middle of a commit: no tool waits, and every one takes that for  *)
(* the end of the rows.  A position is the time it is for; a value is told *)
(* from another by the row it is in.  What is printed is left out except   *)
(* for its rows and the tags around them.                                  *)
(***************************************************************************)
EXTENDS TripJournal, FiniteSets

CONSTANTS
  Tools,       \* which of "csv", "gpx" and "kml"
  Times,       \* when trips start and end and rows are logged
  Logs,        \* the logs there may be when a tool is started
  MaxTrips,    \* bound: trips in the log
  MaxPublish   \* bound: commits

ASSUME ConvAssumption ==
  /\ Tools \subseteq {"csv", "gpx", "kml"} /\ Times \subseteq Int
  /\ NoTrip = -1 /\ Unfiled = 0 /\ NoEnd \notin Times
  /\ MaxTrips \in Nat /\ MaxPublish \in Nat

Rows == [time : Times, trip : Int]

ASSUME LogAssumption ==
  \A l \in Logs :
    /\ l.trips \in Seq([start : Times, end : Times]) /\ l.obd \subseteq Rows /\ l.gps \subseteq Rows
    /\ WellFormed(l.trips, l.obd, l.gps)

VARIABLES
  tool,       \* the one that runs
  conv,       \* "idle", "rows" of a statement are read, "max", "draw" (kml only), "done"
  rest,       \* csv, gpx: the rows still to come
  ahead,      \* kml: the trips still to come
  lines,      \* csv: what was written
  track,      \* gpx: what was written, points and tags
  currtrip,   \* gpx
  folder,     \* kml: which one is being written
  graphs,     \* kml: what was written
  maxof,      \* kml: the rows that MAX() ranged over
  refused,    \* history: a first step was refused
  published   \* how many commits there were

outVars  == <<lines, track, graphs>>
convVars == <<tool, conv, rest, ahead, outVars, currtrip, folder, maxof, refused>>

\* A statement is being stepped.
Active == conv \in {"rows", "max", "draw"}

ConvInit ==
  /\ \E l \in Logs : trips = l.trips /\ obd = l.obd /\ gps = l.gps
  /\ tool \in Tools /\ conv = "idle" /\ rest = {} /\ ahead = {}
  /\ lines = {} /\ track = <<>> /\ currtrip = -1
  /\ folder = 1 /\ graphs = {} /\ maxof = {}
  /\ refused = FALSE /\ published = 0

-----------------------------------------------------------------------------
(* The writer: a commit brings at most a row to each table.                *)

OneMoreRow(rows) == {rows} \cup {rows \cup {[time |-> t, trip |-> k]} : t \in Times, k \in -1..MaxTrips}

TripsLonger ==
  \/ UNCHANGED trips
  \/ \E i \in DOMAIN trips, t \in Times : trips' = [trips EXCEPT ![i].end = t]
  \/ /\ Len(trips) < MaxTrips
     /\ \E s, t \in Times : trips' = Append(trips, [start |-> s, end |-> t])

Commit ==
  /\ ~Active /\ conv # "done" /\ published < MaxPublish
  /\ published' = published + 1
  /\ TripsLonger /\ obd' \in OneMoreRow(obd) /\ gps' \in OneMoreRow(gps)
  /\ jvars' # jvars
  /\ Publish
  /\ UNCHANGED convVars

-----------------------------------------------------------------------------
(* csv: one statement over the obd table, the trips and positions joined   *)
(* by their times.                                                         *)

Refuse(next) ==
  /\ conv' = next /\ refused' = TRUE
  /\ UNCHANGED <<rest, ahead, currtrip, maxof>>

FirstStep(rows) ==
  /\ conv' = "rows" /\ rest' = rows
  /\ UNCHANGED <<ahead, currtrip, maxof, refused>>

JoinedWithoutEnd(row) == {i \in DOMAIN trips : trips[i].start < row.time}

\* trip ON obd.time>trip.start AND obd.time<trip.end
Joined(row) == {i \in DOMAIN trips : trips[i].start < row.time /\ row.time < trips[i].end}

CsvStart ==
  /\ tool = "csv" /\ conv = "idle"
  /\ FirstStep(obd) \/ Refuse("done")
  /\ UNCHANGED <<jvars, tool, outVars, folder, published>>

\* What a row of the obd table gives: a line for every trip joined to it.  The other
\* LEFT JOIN, with the positions of the same time, is left out: that a row has one
\* line is said of the join with the trips only.
Lines(r) == {[row |-> r, trip |-> i] : i \in IF Joined(r) = {} THEN {Unfiled} ELSE Joined(r)}

CsvRow ==
  /\ tool = "csv" /\ conv = "rows"
  /\ \E r \in rest :
       /\ \A s \in rest : r.time <= s.time
       /\ lines' = lines \cup Lines(r)
       /\ rest' = rest \ {r}
  /\ UNCHANGED <<jvars, tool, conv, ahead, track, graphs, currtrip, folder, maxof, refused, published>>

CsvEnd ==
  /\ tool = "csv" /\ conv = "rows" /\ rest = {}
  /\ conv' = "done"
  /\ UNCHANGED <<jvars, tool, rest, ahead, outVars, currtrip, folder, maxof, refused, published>>

-----------------------------------------------------------------------------
(* gpx: the positions by trip and time, each trip a track.                 *)

EndTag      == [tag |-> "end", trip |-> NoTrip, time |-> 0]
StartTag(k) == [tag |-> "start", trip |-> k, time |-> 0]
Point(r)    == [tag |-> "point", trip |-> r.trip, time |-> r.time]

GpxStart ==
  /\ tool = "gpx" /\ conv = "idle"
  /\ FirstStep(gps) \/ Refuse("rows")
  /\ UNCHANGED <<jvars, tool, outVars, folder, published>>

ByTime(r, s) == r.time <= s.time

\* ORDER BY trip,time
Before(r, s) == r.trip < s.trip \/ (r.trip = s.trip /\ r.time <= s.time)

\* The tags between two positions.
Tags(r) ==
  IF currtrip = r.trip THEN <<>>
  ELSE IF currtrip > -1 THEN <<EndTag, StartTag(r.trip)>> ELSE <<StartTag(r.trip)>>

GpxRow ==
  /\ tool = "gpx" /\ conv = "rows"
  /\ \E r \in rest :
       /\ \A s \in rest : Before(r, s)
       /\ track' = track \o Append(Tags(r), Point(r))
       /\ currtrip' = r.trip
       /\ rest' = rest \ {r}
  /\ UNCHANGED <<jvars, tool, conv, ahead, lines, graphs, folder, maxof, refused, published>>

\* gpx_endtrip(), whether there was a trip or not.
GpxEnd ==
  /\ tool = "gpx" /\ conv = "rows" /\ rest = {}
  /\ track' = Append(track, EndTag)
  /\ conv' = "done"
  /\ UNCHANGED <<jvars, tool, rest, ahead, lines, graphs, currtrip, folder, maxof, refused, published>>

-----------------------------------------------------------------------------
(* kml: the same statement over the trips for every folder, and inside its *)
(* loop one or two statements for the graph of each trip.                  *)

Folders == <<"justgps", "height", "color", "color", "height", "height", "color">>

NextFolder ==
  /\ folder' = folder + 1
  /\ conv' = IF folder = Len(Folders) THEN "done" ELSE "idle"

KmlFolder ==
  /\ tool = "kml" /\ conv = "idle"
  /\ \/ /\ conv' = "rows" /\ ahead' = DOMAIN trips
        /\ UNCHANGED <<folder, refused>>
     \/ /\ NextFolder /\ refused' = TRUE
        /\ UNCHANGED ahead
  /\ UNCHANGED <<jvars, tool, rest, outVars, currtrip, maxof, published>>

HasPositions(k) == Cardinality({g \in gps : g.trip = k}) >= 2

IsNext(k) == k \in ahead /\ \A j \in ahead : k <= j

\* What a graph begins with.
GraphBegins == IF Folders[folder] = "justgps" THEN "draw" ELSE "max"

\* The next trip: one with less than two positions is left out.
KmlTrip ==
  /\ tool = "kml" /\ conv = "rows"
  /\ \E k \in ahead :
       /\ IsNext(k)
       /\ IF HasPositions(k) THEN conv' = GraphBegins /\ UNCHANGED ahead
                            ELSE ahead' = ahead \ {k} /\ UNCHANGED conv
  /\ UNCHANGED <<jvars, tool, rest, outVars, currtrip, folder, maxof, refused, published>>

ObdOf(k) == {r \in obd : r.trip = k}

\* SELECT MAX() FROM obd WHERE trip=
KmlMax ==
  /\ tool = "kml" /\ conv = "max"
  /\ \E k \in ahead : IsNext(k) /\ maxof' = ObdOf(k)
  /\ conv' = "draw"
  /\ UNCHANGED <<jvars, tool, rest, ahead, outVars, currtrip, folder, refused, published>>

\* The rows of a graph: gpsposvel(), kmlvalueheight(), kmlvalueheightcolor().
DrawnOfAnyTrip(kind, k) ==
  IF kind = "justgps"
  THEN {g.time : g \in {g \in gps : g.trip = k /\ trips[k].start < g.time /\ g.time < trips[k].end}}
  ELSE {r.time : r \in {r \in obd : \E g \in gps : g.time = r.time /\ (kind = "height" => g.trip = k)}}

Drawn(kind, k) ==
  IF kind = "justgps"
  THEN {g.time : g \in {g \in gps : g.trip = k /\ trips[k].start < g.time /\ g.time < trips[k].end}}
  ELSE {r.time : r \in {r \in ObdOf(k) : \E g \in gps : g.time = r.time /\ (kind = "height" => g.trip = k)}}

KmlDraw ==
  /\ tool = "kml" /\ conv = "draw"
  /\ \E k \in ahead :
       /\ IsNext(k)
       /\ graphs' = graphs \cup
            {[folder |-> folder, trip |-> k, start |-> trips[k].start, end |-> trips[k].end,
              points |-> Drawn(Folders[folder], k), maxof |-> maxof]}
       /\ ahead' = ahead \ {k}
  /\ conv' = "rows"
  /\ UNCHANGED <<jvars, tool, rest, lines, track, currtrip, folder, maxof, refused, published>>

KmlEnd ==
  /\ tool = "kml" /\ conv = "rows" /\ ahead = {}
  /\ NextFolder
  /\ UNCHANGED <<jvars, tool, rest, ahead, outVars, currtrip, maxof, refused, published>>

Convert == CsvStart \/ CsvRow \/ CsvEnd \/ GpxStart \/ GpxRow \/ GpxEnd
             \/ KmlFolder \/ KmlTrip \/ KmlMax \/ KmlDraw \/ KmlEnd

ConvNext == Commit \/ Convert

allConvVars == <<jvars, convVars, published>>
ConvSpec == ConvInit /\ [][ConvNext]_allConvVars

-----------------------------------------------------------------------------
(* What should hold.                                                       *)

ConvTypeOK ==
  /\ trips \in Seq([start : Times, end : Times]) /\ obd \subseteq Rows /\ gps \subseteq Rows
  /\ tool \in Tools /\ conv \in {"idle", "rows", "max", "draw", "done"}
  /\ rest \subseteq Rows /\ ahead \subseteq DOMAIN trips
  /\ lines \subseteq [row : Rows, trip : Nat]
  /\ track \in Seq([tag : {"start", "end", "point"}, trip : Int, time : Int])
  /\ currtrip \in Int
  /\ folder \in 1 .. Len(Folders) + 1
  /\ \A g \in graphs : g.folder \in DOMAIN Folders /\ g.trip \in DOMAIN trips
  /\ maxof \subseteq Rows /\ refused \in BOOLEAN /\ published \in 0..MaxPublish

AllReliable == \A i \in DOMAIN trips : Reliable(trips[i].start)

\* The join by times gives one line for a row, although trips follow each other
\* without a gap and a row may be logged at the very end of one.
CsvOneLinePerRow == AllReliable => \A l, m \in lines : l.row = m.row => l = m

\* The trip a line is given is the one its row is filed under, or none.
CsvTripIsOwn ==
  AllReliable => \A l \in lines : l.trip = Unfiled \/ l.row.trip \in {NoTrip, l.trip}

\* Once it is done, and was not refused, every row of the log as it was is there,
\* whether it has a trip or not.
CsvComplete ==
  (tool = "csv" /\ conv = "done" /\ ~refused) => {l.row : l \in lines} = obd

\* What csv writes is every row once, under its own trip, as far as the join with the
\* trips goes.
CsvRight == CsvOneLinePerRow /\ CsvTripIsOwn /\ CsvComplete

\* A position is inside the track of its trip, and a trip has one track: however
\* rows of no trip or of an earlier one lie between the others.
Opens(s, p) ==
  /\ s < p /\ track[s].tag = "start" /\ track[s].trip = track[p].trip
  /\ \A i \in s+1 .. p : track[i].tag = "point"

GpxTracks ==
  /\ \A p \in DOMAIN track :
       track[p].tag = "point" /\ track[p].trip # NoTrip => \E s \in 1 .. p : Opens(s, p)
  /\ \A i, j \in DOMAIN track :
       track[i].tag = "start" /\ track[i] = track[j] => i = j

\* The tags nest, if there is a position that belongs to a trip.
GpxNests ==
  (tool = "gpx" /\ conv = "done" /\ currtrip > -1) =>
    /\ \A i \in DOMAIN track : track[i].tag = "end" =>
         \E s \in 1 .. i-1 : track[s].tag = "start" /\ \A j \in s+1 .. i-1 : track[j].tag = "point"
    /\ \A i, j \in DOMAIN track : i < j /\ track[i].tag = "start" /\ track[j].tag = "start" =>
         \E e \in i .. j : track[e].tag = "end"

\* gpx writes one well-formed track for each trip, with its positions.
GpxRight == GpxTracks /\ GpxNests

\* A graph is scaled by the maximum of what it shows: though the maximum and the
\* rows are read by two statements and the log may be growing.
KmlScaled ==
  \A g \in graphs : Folders[g.folder] # "justgps" => g.points \subseteq {r.time : r \in g.maxof}

\* What is drawn of a trip lies within the times that are written at its ends.
KmlWithinTrip ==
  \A g \in graphs : Reliable(g.start) => \A t \in g.points : g.start <= t /\ t <= g.end

\* A graph of kml is of one trip as the log had it at one time.
KmlRight == KmlScaled /\ KmlWithinTrip
=============================================================================
