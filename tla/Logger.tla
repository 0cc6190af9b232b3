------------------------------- MODULE Logger -------------------------------
(***************************************************************************)
(* obdgpslogger's main loop (logger/main.c) and the database it writes,    *)
(* with what surrounds it: signals that arrive between any two steps,      *)
(* D-Bus messages, an ECU that answers or not, a gpsd that comes and goes, *)
(* other processes holding the database, a crash at any point and the next *)
(* start on the file it left.                                              *)
(*                                                                         *)
(* One round of the loop is                                                *)
(*   top -> dbus -> signal [-> clear] -> query -> record -> update -> gps  *)
(*       -> tail -> top ...                                                *)
(* or from query to spin, for ever; leaving the loop goes through flush    *)
(* and close to off.  Each step is the code between two points where       *)
(* something else can interfere.                                           *)
(*                                                                         *)
(* Time is counted in rounds: gettimeofday at the top of a round reads one *)
(* more than the round before.  A wall clock that is set back while        *)
(* logging is not modelled.                                                *)
(***************************************************************************)
EXTENDS TripDb

CONSTANTS
  Columns,          \* obdnumcols-1: commands the car supports and the user asked for
  Samples,          \* the -c option: rounds per run of the program, -1 for no limit
  TRANSACTIONTIME,  \* seconds between commits (8 in the code)
  SamplesPerSecond, \* the -a option; 0 is "as fast as possible"
  GpsRetry,         \* gpsd is tried again when more than this has passed (10)
  GarbageTimes,     \* what the uninitialised time_insert may hold
  MaxStarts,        \* bound: how often the program is started
  MaxDisturbances   \* bound: how often the outside interferes in all

ASSUME ConstantsAssumption ==
  /\ Columns \in Nat
  /\ Samples \in Nat \cup {-1}
  /\ TRANSACTIONTIME \in Nat \ {0}
  /\ SamplesPerSecond \in Nat
  /\ GpsRetry \in Nat
  /\ GarbageTimes \subseteq Int /\ GarbageTimes # {}
  /\ MaxStarts \in Nat /\ MaxDisturbances \in Nat

VARIABLES
  \* the database
  disk,              \* what is in the file
  conn,              \* what this process's connection sees
  intx,              \* a transaction is open
  refused,           \* the last COMMIT was refused, its rows are still pending
  leaked,            \* a refused INSERT of starttrip() is still unfinished
  \* main()
  pc, samplecount, time_insert, currenttrip, ontrip, transactioncount,
  obdstatus, col, bound,  \* col is i; bound[c] the round column c was last bound in
  serial,            \* obd_serial_port is open
  gps,               \* gpsdata: "down" NULL, "up" connected, "lost" gpsd has gone
  time_lastgpscheck,
  receive_exitsignal, sig_starttrip,
  \* outside the process
  dbus,              \* messages on the bus connection
  clock, starts, disturbances

dbVars   == <<disk, conn, intx, refused, leaked>>
tripVars == <<currenttrip, ontrip>>
obdVars  == <<obdstatus, col, bound>>
devVars  == <<serial, gps, time_lastgpscheck>>
sigVars  == <<receive_exitsignal, sig_starttrip>>
outVars  == <<busy, disturbances>>
loopVars == <<samplecount, time_insert, transactioncount, clock, starts>>
vars == <<dbVars, pc, tripVars, obdVars, devVars, sigVars, dbus, outVars, loopVars>>

Statuses == {"success", "nodata", "error"}   \* OBD_SUCCESS, the others, OBD_ERROR
NoStatus == "none"
Messages == {"startTrip", "other"}

BaseTransactionCount ==
  TRANSACTIONTIME * (IF SamplesPerSecond = 0 THEN 10 ELSE SamplesPerSecond)

-----------------------------------------------------------------------------
(* Writing, committing, starting and stopping.                             *)

\* A statement that leaves the connection seeing db: kept in the transaction,
\* or (autocommit) in the file at once.
Write(db) ==
  IF intx THEN /\ conn' = db
               /\ disk' = disk
          ELSE /\ conn' = Unlocked(db)
               /\ disk' = Unlocked(db)

\* starttrip() returns without finalizing an INSERT that SQLite refused.
Leak(id) == leaked' = (leaked \/ id = NoTrip)

\* COMMIT gives up after a millisecond if another process is reading the file,
\* and at once while a statement of its own is unfinished; the transaction then
\* stays open with its rows and its lock.
Commit ==
  /\ \/ /\ ~leaked
        /\ disk' = Unlocked(conn)
        /\ conn' = Unlocked(conn)
        /\ intx' = FALSE /\ refused' = FALSE
     \/ /\ leaked \/ (busy /\ conn.locked)
        /\ refused' = TRUE
        /\ UNCHANGED <<disk, conn, intx>>
  /\ UNCHANGED leaked

\* The process is gone: what was not in the file is lost, as are its variables.
Gone ==
  /\ pc' = "off"
  /\ intx' = FALSE /\ refused' = FALSE /\ leaked' = FALSE
  /\ samplecount' = 0 /\ time_insert' = clock /\ transactioncount' = 0
  /\ currenttrip' = Unfiled /\ ontrip' = FALSE
  /\ obdstatus' = NoStatus /\ col' = 0 /\ bound' = [c \in 1..Columns |-> 0]
  /\ serial' = FALSE /\ gps' = "down" /\ time_lastgpscheck' = 0
  /\ receive_exitsignal' = FALSE /\ sig_starttrip' = FALSE
  /\ dbus' = <<>>
  /\ UNCHANGED <<outVars, clock, starts>>

Init ==
  /\ disk = EmptyDb /\ conn = EmptyDb /\ intx = FALSE /\ refused = FALSE
  /\ leaked = FALSE
  /\ pc = "off"
  /\ samplecount = 0 /\ time_insert = 0 /\ transactioncount = 0
  /\ currenttrip = Unfiled /\ ontrip = FALSE
  /\ obdstatus = NoStatus /\ col = 0 /\ bound = [c \in 1..Columns |-> 0]
  /\ serial = FALSE /\ gps = "down" /\ time_lastgpscheck = 0
  /\ receive_exitsignal = FALSE /\ sig_starttrip = FALSE
  /\ dbus = <<>> /\ busy = FALSE /\ disturbances = 0
  /\ clock = 0 /\ starts = 0

\* main() up to the loop: it needs the car or gpsd to go on, and time_insert
\* is left uninitialised.
Start ==
  /\ pc = "off" /\ starts < MaxStarts
  /\ starts' = starts + 1
  /\ serial' \in BOOLEAN /\ gps' \in {"down", "up"}
  /\ serial' \/ gps' = "up"
  /\ pc' = "top" /\ samplecount' = Samples
  /\ time_insert' \in GarbageTimes
  /\ conn' = disk /\ intx' = TRUE
  /\ UNCHANGED <<disk, refused, leaked, tripVars, obdVars, time_lastgpscheck, sigVars,
                 dbus, outVars, transactioncount, clock>>

-----------------------------------------------------------------------------
(* One round.                                                              *)

MoreSamples == samplecount = -1 \/ samplecount > 0

CountSample == samplecount' = IF samplecount = -1 THEN -1 ELSE samplecount - 1

\* obdstatus is declared without a value in the loop: with no column to query
\* it is tested as it is.
BeginRoundForgetsSignal ==
  /\ pc = "top" /\ MoreSamples
  /\ CountSample
  /\ clock' = clock + 1
  /\ col' = 0
  /\ obdstatus' \in IF Columns = 0 THEN Statuses ELSE {NoStatus}
  /\ sig_starttrip' = FALSE
  /\ pc' = "dbus"
  /\ UNCHANGED <<dbVars, tripVars, bound, devVars, receive_exitsignal, dbus, outVars,
                 time_insert, transactioncount, starts>>

BeginRound ==
  /\ pc = "top" /\ MoreSamples
  /\ CountSample
  /\ clock' = clock + 1
  /\ col' = 0
  /\ obdstatus' \in IF Columns = 0 THEN Statuses ELSE {NoStatus}
  /\ pc' = "dbus"
  /\ UNCHANGED <<dbVars, tripVars, bound, devVars, sigVars, dbus, outVars,
                 time_insert, transactioncount, starts>>

SamplesDone ==
  /\ pc = "top" /\ ~MoreSamples
  /\ pc' = "flush"
  /\ UNCHANGED <<dbVars, tripVars, obdVars, devVars, sigVars, dbus, outVars, loopVars>>

\* gettimeofday fails at either end of the round: break.
ClockFails ==
  /\ \/ pc = "top" /\ MoreSamples /\ CountSample
     \/ pc = "tail" /\ UNCHANGED samplecount
  /\ pc' = "flush"
  /\ UNCHANGED <<dbVars, tripVars, obdVars, devVars, sigVars, dbus, outVars,
                 time_insert, transactioncount, clock, starts>>

\* A startTrip message read from the bus; time_insert is the previous round's.
DBusStart ==
  /\ pc = "dbus" /\ dbus # <<>> /\ Head(dbus) = "startTrip"
  /\ dbus' = Tail(dbus)
  /\ IF ontrip THEN UNCHANGED <<disk, conn, leaked, tripVars>>
     ELSE \E s \in StartTrip(conn, time_insert) :
            /\ Write(s.db)
            /\ currenttrip' = s.id /\ ontrip' = TRUE /\ Leak(s.id)
  /\ UNCHANGED <<intx, refused, pc, obdVars, devVars, sigVars, outVars, loopVars>>

\* Any other message reads as "no message" and ends the draining.
DBusDone ==
  /\ pc = "dbus"
  /\ \/ dbus = <<>> /\ UNCHANGED dbus
     \/ dbus # <<>> /\ Head(dbus) # "startTrip" /\ dbus' = Tail(dbus)
  /\ time_insert' = clock
  /\ pc' = "signal"
  /\ UNCHANGED <<dbVars, tripVars, obdVars, devVars, sigVars, outVars,
                 samplecount, transactioncount, clock, starts>>

AfterSignal == IF serial THEN "query" ELSE "update"

\* The whole of "if(sig_starttrip)" but its last line, which is ClearSignal.
HonourStartKeepsOldTripOpen ==
  /\ pc = "signal" /\ sig_starttrip
  /\ \E s \in StartTrip(conn, time_insert) :
       /\ Write(s.db)
       /\ currenttrip' = s.id /\ Leak(s.id)
  /\ ontrip' = TRUE
  /\ pc' = "clear"
  /\ UNCHANGED <<intx, refused, obdVars, devVars, sigVars, dbus, outVars, loopVars>>

HonourStart ==
  /\ pc = "signal" /\ sig_starttrip
  /\ \E d \in IF ontrip THEN UpdateTrip(conn, currenttrip, time_insert) ELSE {conn} :
       \E s \in StartTrip(d, time_insert) :
         /\ Write(s.db)
         /\ currenttrip' = s.id /\ Leak(s.id)
  /\ ontrip' = TRUE
  /\ pc' = "clear"
  /\ UNCHANGED <<intx, refused, obdVars, devVars, sigVars, dbus, outVars, loopVars>>

\* A SIGUSR1 caught since HonourStart is forgotten here.
ClearSignal ==
  /\ pc = "clear"
  /\ sig_starttrip' = FALSE
  /\ pc' = AfterSignal
  /\ UNCHANGED <<dbVars, tripVars, obdVars, devVars, receive_exitsignal, dbus, outVars,
                 loopVars>>

NoStartSignal ==
  /\ pc = "signal" /\ ~sig_starttrip
  /\ pc' = AfterSignal
  /\ UNCHANGED <<dbVars, tripVars, obdVars, devVars, sigVars, dbus, outVars, loopVars>>

\* One getobdvalue().  A value is bound to its column; anything but success
\* ends the querying and leaves the columns bound so far as they are.
QueryColumnNoBreak ==
  /\ pc = "query" /\ col < Columns
  /\ col' = col + 1
  /\ \E s \in Statuses :
       /\ obdstatus' = s
       /\ bound' = IF s = "success" THEN [bound EXCEPT ![col + 1] = time_insert]
                                    ELSE bound
  /\ UNCHANGED <<dbVars, pc, tripVars, devVars, sigVars, dbus, outVars, loopVars>>

QueryColumn ==
  /\ pc = "query" /\ col < Columns
  /\ \E s \in Statuses :
       /\ obdstatus' = s
       /\ IF s = "success"
          THEN /\ bound' = [bound EXCEPT ![col + 1] = time_insert]
               /\ col' = col + 1
               /\ pc' = pc
          ELSE /\ UNCHANGED <<bound, col>>
               /\ pc' = "record"
  /\ UNCHANGED <<dbVars, tripVars, devVars, sigVars, dbus, outVars, loopVars>>

\* The reply has a line of at most three characters: getobdbytes() goes round its
\* parsing loop for ever (ElmLink follows the line itself), and so does the program.
QuerySpins ==
  /\ pc = "query" /\ col < Columns
  /\ pc' = "spin"
  /\ UNCHANGED <<dbVars, tripVars, obdVars, devVars, sigVars, dbus, outVars, loopVars>>

QueryDone ==
  /\ pc = "query" /\ col = Columns
  /\ pc' = "record"
  /\ UNCHANGED <<dbVars, tripVars, obdVars, devVars, sigVars, dbus, outVars, loopVars>>

\* The engine answers: a trip is running from here on, and the row goes to it.
RecordSample ==
  /\ pc = "record" /\ obdstatus = "success"
  /\ \E s \in IF ontrip THEN {[db |-> conn, id |-> currenttrip]}
              ELSE StartTrip(conn, time_insert) :
       /\ \E d \in InsertObd(s.db, [time |-> time_insert, trip |-> s.id,
                                    cols |-> bound]) : Write(d)
       /\ currenttrip' = s.id /\ Leak(s.id)
  /\ ontrip' = TRUE
  /\ pc' = "update"
  /\ UNCHANGED <<intx, refused, obdVars, devVars, sigVars, dbus, outVars, loopVars>>

\* The serial line is broken: leave the loop at the end of the round.
RecordError ==
  /\ pc = "record" /\ obdstatus = "error"
  /\ receive_exitsignal' = TRUE
  /\ pc' = "update"
  /\ UNCHANGED <<dbVars, tripVars, obdVars, devVars, sig_starttrip, dbus, outVars, loopVars>>

\* The engine has desisted: stop the trip.
RecordNothing ==
  /\ pc = "record" /\ obdstatus \notin {"success", "error"}
  /\ IF ontrip THEN \E d \in UpdateTrip(conn, currenttrip, time_insert) : Write(d)
               ELSE UNCHANGED <<disk, conn>>
  /\ ontrip' = FALSE
  /\ pc' = "update"
  /\ UNCHANGED <<intx, refused, leaked, currenttrip, obdVars, devVars, sigVars, dbus, outVars,
                 loopVars>>

\* "Constantly update the trip", whether or not one is running.
KeepTrip ==
  /\ pc = "update"
  /\ \E d \in UpdateTrip(conn, currenttrip, time_insert) : Write(d)
  /\ pc' = "gps"
  /\ UNCHANGED <<intx, refused, leaked, tripVars, obdVars, devVars, sigVars, dbus, outVars,
                 loopVars>>

\* A position fix is filed under currenttrip, running, ended or 0.  While
\* gpsd is gone its socket stays readable and getgpsposition never returns.
GpsFix ==
  /\ pc = "gps" /\ gps = "up"
  /\ \E d \in InsertGps(conn, [time |-> time_insert, trip |-> currenttrip]) : Write(d)
  /\ pc' = "tail"
  /\ UNCHANGED <<intx, refused, leaked, tripVars, obdVars, devVars, sigVars, dbus, outVars,
                 loopVars>>

GpsNothing ==
  /\ pc = "gps"
  /\ \/ gps = "up"
     \/ gps = "down" /\ time_insert - time_lastgpscheck <= GpsRetry
  /\ pc' = "tail"
  /\ UNCHANGED <<dbVars, tripVars, obdVars, devVars, sigVars, dbus, outVars, loopVars>>

GpsReconnect ==
  /\ pc = "gps" /\ gps = "down" /\ time_insert - time_lastgpscheck > GpsRetry
  /\ gps' \in {"down", "up"}
  /\ time_lastgpscheck' = time_insert
  /\ pc' = "tail"
  /\ UNCHANGED <<dbVars, tripVars, obdVars, serial, sigVars, dbus, outVars, loopVars>>

\* The bottom of the loop: an exit signal breaks; every
\* BaseTransactionCount-th round commits and begins again.
EndRoundNoReset ==
  /\ pc = "tail"
  /\ IF receive_exitsignal
     THEN /\ pc' = "flush"
          /\ UNCHANGED <<dbVars, transactioncount>>
     ELSE /\ transactioncount' = transactioncount + 1
          /\ IF transactioncount' = BaseTransactionCount
             THEN /\ Commit
                  /\ pc' = "begin"
             ELSE /\ UNCHANGED dbVars
                  /\ pc' = "top"
  /\ UNCHANGED <<tripVars, obdVars, devVars, sigVars, dbus, outVars, samplecount,
                 time_insert, clock, starts>>

EndRoundOffByOne ==
  /\ pc = "tail"
  /\ IF receive_exitsignal
     THEN /\ pc' = "flush"
          /\ UNCHANGED <<dbVars, transactioncount>>
     ELSE /\ transactioncount' = (transactioncount + 1) % (BaseTransactionCount + 1)
          /\ IF transactioncount' = 0
             THEN /\ Commit
                  /\ pc' = "begin"
             ELSE /\ UNCHANGED dbVars
                  /\ pc' = "top"
  /\ UNCHANGED <<tripVars, obdVars, devVars, sigVars, dbus, outVars, samplecount,
                 time_insert, clock, starts>>

EndRound ==
  /\ pc = "tail"
  /\ IF receive_exitsignal
     THEN /\ pc' = "flush"
          /\ UNCHANGED <<dbVars, transactioncount>>
     ELSE /\ transactioncount' = (transactioncount + 1) % BaseTransactionCount
          /\ IF transactioncount' = 0
             THEN /\ Commit
                  /\ pc' = "begin"
             ELSE /\ UNCHANGED dbVars
                  /\ pc' = "top"
  /\ UNCHANGED <<tripVars, obdVars, devVars, sigVars, dbus, outVars, samplecount,
                 time_insert, clock, starts>>

\* BEGIN; it fails, harmlessly, when the COMMIT before it was refused.
Begin ==
  /\ pc = "begin"
  /\ intx' = TRUE
  /\ pc' = "top"
  /\ UNCHANGED <<disk, conn, refused, leaked, tripVars, obdVars, devVars, sigVars, dbus, outVars,
                 loopVars>>

-----------------------------------------------------------------------------
(* Leaving.                                                                *)

\* The last COMMIT, outside the loop.
FlushSkipped ==
  /\ pc = "flush"
  /\ pc' = "close"
  /\ UNCHANGED <<dbVars, tripVars, obdVars, devVars, sigVars, dbus, outVars, loopVars>>

Flush ==
  /\ pc = "flush"
  /\ Commit
  /\ pc' = "close"
  /\ UNCHANGED <<tripVars, obdVars, devVars, sigVars, dbus, outVars, loopVars>>

\* updatetrip after the COMMIT, the process's last write; then close and exit,
\* which rolls back a transaction a refused COMMIT left open.
Close ==
  /\ pc = "close"
  /\ \E d \in IF ontrip THEN UpdateTrip(conn, currenttrip, time_insert) ELSE {conn} :
       /\ disk' = IF intx THEN disk ELSE Unlocked(d)
       /\ conn' = disk'
  /\ Gone

\* SIGKILL, a signal without a handler, a power cut: SQLite's journal brings
\* the file back to the last commit.
Crash ==
  /\ pc # "off"
  /\ conn' = disk
  /\ UNCHANGED disk
  /\ Gone

-----------------------------------------------------------------------------
(* The outside.                                                            *)

Disturb == /\ disturbances < MaxDisturbances
           /\ disturbances' = disturbances + 1

\* SIGINT or SIGTERM, and SIGUSR1, caught by the handlers.
ExitSignal ==
  /\ pc # "off" /\ Disturb
  /\ receive_exitsignal' = TRUE
  /\ UNCHANGED <<dbVars, pc, tripVars, obdVars, devVars, sig_starttrip, dbus, busy,
                 loopVars>>

StartSignal ==
  /\ pc # "off" /\ Disturb
  /\ sig_starttrip' = TRUE
  /\ UNCHANGED <<dbVars, pc, tripVars, obdVars, devVars, receive_exitsignal, dbus,
                 busy, loopVars>>

SendMessage ==
  /\ pc # "off" /\ Disturb
  /\ \E m \in Messages : dbus' = Append(dbus, m)
  /\ UNCHANGED <<dbVars, pc, tripVars, obdVars, devVars, sigVars, busy, loopVars>>

GpsdDies ==
  /\ gps = "up" /\ Disturb
  /\ gps' = "lost"
  /\ UNCHANGED <<dbVars, pc, tripVars, obdVars, serial, time_lastgpscheck, sigVars,
                 dbus, busy, loopVars>>

\* Another process takes hold of the database, and lets it go.
Hold ==
  /\ ~busy /\ Disturb
  /\ busy' = TRUE
  /\ UNCHANGED <<dbVars, pc, tripVars, obdVars, devVars, sigVars, dbus, loopVars>>

LetGo ==
  /\ busy
  /\ busy' = FALSE
  /\ UNCHANGED <<dbVars, pc, tripVars, obdVars, devVars, sigVars, dbus, disturbances,
                 loopVars>>

\* What the program does by itself, once started.
Step ==
  \/ BeginRound \/ SamplesDone \/ ClockFails
  \/ DBusStart \/ DBusDone
  \/ HonourStart \/ ClearSignal \/ NoStartSignal
  \/ QueryColumn \/ QuerySpins \/ QueryDone
  \/ RecordSample \/ RecordError \/ RecordNothing
  \/ KeepTrip
  \/ GpsFix \/ GpsNothing \/ GpsReconnect
  \/ EndRound \/ Begin
  \/ Flush \/ Close

Outside ==
  ExitSignal \/ StartSignal \/ SendMessage \/ GpsdDies \/ Hold \/ LetGo

Next == Start \/ Step \/ Crash \/ Outside

Spec == Init /\ [][Next]_vars

\* The program is scheduled, a serial read gives up after OBDCOMM_TIMEOUT and
\* SQLite after its busy timeout.  Two calls may not return, and nothing is assumed
\* of them: getgpsposition once gpsd has gone, and a query that spins.
FairSpec == Spec /\ WF_vars(Step)

-----------------------------------------------------------------------------
(* What should hold.                                                       *)

Labels == {"off", "top", "dbus", "signal", "clear", "query", "spin", "record",
           "update", "gps", "tail", "begin", "flush", "close"}

\* Types of every variable, the transaction counter within its period included.
TypeOK ==
  /\ disk \in Databases(Columns) /\ conn \in Databases(Columns)
  /\ intx \in BOOLEAN /\ refused \in BOOLEAN /\ leaked \in BOOLEAN
  /\ pc \in Labels
  /\ samplecount \in Nat \cup {-1}
  /\ time_insert \in Int
  /\ currenttrip \in TripIds /\ ontrip \in BOOLEAN
  /\ transactioncount \in 0 .. BaseTransactionCount - 1
  /\ obdstatus \in Statuses \cup {NoStatus}
  /\ col \in 0 .. Columns
  /\ bound \in [1..Columns -> Int]
  /\ serial \in BOOLEAN /\ gps \in {"down", "up", "lost"}
  /\ time_lastgpscheck \in Int
  /\ receive_exitsignal \in BOOLEAN /\ sig_starttrip \in BOOLEAN
  /\ dbus \in Seq(Messages) /\ busy \in BOOLEAN
  /\ clock \in Nat /\ starts \in Nat /\ disturbances \in Nat

\* The file is a journal of whole trips (see TripJournal), whatever is refused,
\* signalled or cut short: transactions end only between rounds, and a round
\* leaves no trip without an end and no sample outside its trip.
Journal == INSTANCE TripJournal WITH
  UnreliableStarts <- GarbageTimes,
  trips <- disk.trips, obd <- disk.obd, gps <- disk.gps

KeepsJournal == Journal!Spec

\* "Commit transactions once every this many seconds": unless another process
\* made SQLite refuse a commit, a crash takes with it no sample older than
\* BaseTransactionCount rounds, the one in progress included.
LossBounded ==
  ~refused => \A r \in (conn.obd \ disk.obd) \cup (conn.gps \ disk.gps) :
                 clock - r.time < BaseTransactionCount

\* A row mixes no values of different rounds, although the insert statement
\* keeps its old bindings when the querying of a round breaks off half way.
RowsOfOneRound ==
  \A r \in conn.obd : \A c \in 1..Columns : r.cols[c] = r.time

\* Leaving the loop for whatever reason writes every sample taken so far,
\* unless the last COMMIT was refused.
SavedOnExit ==
  pc = "close" /\ ~refused => disk = conn

\* "Not Fatal: couldn't commit transaction": a refused COMMIT only delays its
\* rows.  When the loop is left and nobody holds the database, they are written.
RefusalNotFatal ==
  [][pc = "flush" /\ pc' = "close" /\ ~busy => disk' = Unlocked(conn)]_vars

\* A trip that is running is the newest of the table, or has no row at all
\* because SQLite refused it; no other trip can still be written to.
CurrentTripIsNewest ==
  /\ currenttrip \in {NoTrip, Unfiled, Len(conn.trips)}
  /\ ontrip => currenttrip # Unfiled

Rounds == 0 .. MaxStarts * Samples

\* "Exit on ctrl+c or SIGTERM": the program is gone before a second round
\* begins after the signal, unless a query never comes back.
ExitSignalObeyed ==
  \A t \in Rounds :
    (pc # "off" /\ receive_exitsignal /\ clock = t)
      ~> (pc = "spin" \/ (pc = "off" /\ clock <= t + 1))

\* The same as long as gpsd, once connected, does not go away.
ExitSignalObeyedWithGpsd ==
  \A t \in Rounds :
    (pc # "off" /\ receive_exitsignal /\ clock = t)
      ~> (pc = "spin" \/ gps = "lost" \/ (pc = "off" /\ clock <= t + 1))

\* "Start a trip on USR1": a trip that starts in the round the signal came in
\* or in the next, even if one was running and even if the flag is cleared
\* while a second signal comes in; unless the program ends first, gpsd dies, a
\* query never comes back or SQLite refuses the trip.
StartSignalObeyed ==
  \A t \in Rounds :
    (pc # "off" /\ sig_starttrip /\ clock = t)
      ~> \/ \E i \in DOMAIN conn.trips : conn.trips[i].start \in t .. t + 1
         \/ clock <= t + 1 /\ (pc = "off" \/ currenttrip = NoTrip)
         \/ gps = "lost" \/ pc = "spin"

\* Both signals are obeyed in the round they come in or in the next, but in the
\* two calls that do not return (gpscomm.c:56, obdserial.c:761).
SignalsObeyed == ExitSignalObeyedWithGpsd /\ StartSignalObeyed

\* "If they're on a trip, and the engine has desisted, stop the trip": a trip
\* that was stopped is not changed while no trip is running.
StoppedTripStays ==
  [][pc # "off" /\ pc' # "off" /\ ~ontrip /\ ~ontrip' => conn'.trips = conn.trips]_vars

-----------------------------------------------------------------------------
(* The inductive invariant behind the safety properties, in parts.         *)

Reliable(start) == start \notin GarbageTimes
StartsBy(trip, time) == Reliable(trip.start) => trip.start <= time

\* A transaction is open in the loop; without the lock nothing is pending.
TransactionInv ==
  /\ ~disk.locked
  /\ ~conn.locked => conn = disk
  /\ pc = "off" => conn = disk /\ ~intx /\ ~refused /\ ~ontrip /\ currenttrip = Unfiled
  /\ pc \in {"begin", "close"} => intx = refused /\ (refused \/ ~conn.locked)
  /\ pc \notin {"off", "begin", "close"} => intx

\* time_insert is the round's clock but between BeginRound and DBusDone, and
\* before the first round.
TimeInv ==
  /\ pc = "dbus" => time_insert \in GarbageTimes \/ time_insert = clock - 1
  /\ pc \notin {"off", "dbus"} =>
       \/ time_insert = clock
       \/ pc \in {"top", "flush", "close"} /\ time_insert \in GarbageTimes /\ ~ontrip

\* Ends lie between their trip's start, the next one's start and the clock.
TripTimesInv(trips, now) ==
  \A i \in DOMAIN trips :
    /\ trips[i].end <= now
    /\ StartsBy(trips[i], clock)
    /\ trips[i].end # NoEnd => StartsBy(trips[i], trips[i].end)
    /\ \A j \in DOMAIN trips :
         i < j /\ Reliable(trips[j].start) => trips[i].end <= trips[j].start

LastEnd == IF pc = "dbus" THEN clock - 1 ELSE clock

\* A trip without an end is the running one, started in this very round.
OpenTripInv ==
  /\ \A i \in DOMAIN disk.trips : disk.trips[i].end # NoEnd
  /\ \A i \in DOMAIN conn.trips : conn.trips[i].end = NoEnd =>
       /\ i = Len(conn.trips) /\ currenttrip = i
       /\ ontrip /\ conn.locked
       /\ pc \in {"dbus", "signal", "clear", "query", "spin", "record", "update"}

\* An obd row lies in its trip, if KeepTrip has brought the end up to it.
ObdInv ==
  \A r \in conn.obd :
    /\ r.time <= IF pc \in {"dbus", "signal", "clear", "query", "spin", "record"}
                 THEN clock - 1 ELSE clock
    /\ r.trip # NoTrip =>
         /\ r.trip \in DOMAIN conn.trips
         /\ StartsBy(conn.trips[r.trip], r.time)
         /\ \/ r.time <= conn.trips[r.trip].end
            \/ pc = "update" /\ r.trip = currenttrip /\ conn.locked

GpsInv ==
  \A r \in conn.gps :
    /\ r.time <= IF pc \in {"dbus", "signal", "clear", "query", "spin", "record", "update",
                            "gps"}
                 THEN clock - 1 ELSE clock
    /\ r.trip \notin {NoTrip, Unfiled} =>
         r.trip \in DOMAIN conn.trips /\ StartsBy(conn.trips[r.trip], r.time)

\* What a commit now would publish is a step of the journal.
PendingInv ==
  /\ Len(disk.trips) <= Len(conn.trips)
  /\ \A i \in DOMAIN disk.trips :
       /\ conn.trips[i].start = disk.trips[i].start
       /\ disk.trips[i].end <= conn.trips[i].end
       /\ i < Len(disk.trips) => conn.trips[i] = disk.trips[i]
  /\ disk.obd \subseteq conn.obd /\ disk.gps \subseteq conn.gps
  /\ \A r \in conn.obd \ disk.obd :
       /\ \A s \in disk.obd : s.time < r.time
       /\ r.trip # NoTrip => r.trip >= Len(disk.trips)
  /\ \A r \in conn.gps \ disk.gps :
       /\ \A s \in disk.gps : s.time < r.time
       /\ r.trip \notin {NoTrip, Unfiled} => r.trip >= Len(disk.trips)

\* What is in the file is well formed by itself, as a restart will find it.
DiskInv ==
  /\ TripTimesInv(disk.trips, LastEnd)
  /\ Journal!ObdWithinTrips(disk.trips, disk.obd)
  /\ Journal!GpsAfterStarts(disk.trips, disk.gps)

\* transactioncount counts the rounds since the last COMMIT.
LossInv ==
  ~refused => \A r \in (conn.obd \ disk.obd) \cup (conn.gps \ disk.gps) :
    r.time + transactioncount >= IF pc \in {"top", "begin"} THEN clock + 1 ELSE clock

\* When a row is recorded each of its columns has been bound in this round.
BindingInv ==
  /\ pc \in {"dbus", "signal", "clear"} => col = 0
  /\ pc = "query" => \A c \in 1..col : bound[c] = clock
  /\ pc = "record" /\ obdstatus = "success" => \A c \in 1..Columns : bound[c] = clock

IInv ==
  /\ TransactionInv /\ CurrentTripIsNewest /\ TimeInv
  /\ TripTimesInv(conn.trips, LastEnd) /\ OpenTripInv
  /\ ObdInv /\ GpsInv /\ DiskInv /\ PendingInv /\ LossInv
  /\ BindingInv /\ RowsOfOneRound
=============================================================================
