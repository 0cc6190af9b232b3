# obdgpslogger in TLA+

obdgpslogger samples a car through an ELM327 adapter and a position through
gpsd, and writes both, grouped in trips, to an SQLite file that other programs
of the suite convert, draw, analyse and repair. This directory models the parts
of it in which the order of things matters, checks the models with TLC and
proves the most important facts about them with TLAPS. Paths below are relative
to the repository; `logger/main.c` stands for `src/logger/main.c`, and so on.

Contents: 1 the system · 2 modules and how they map to the code · 3 runs ·
4 fairness · 5 proofs · 6 only model-checked · 7 where code and words disagree,
and what else was seen · 8 not modelled · 9 plan.

## 1. The system

### Components

| component | state it keeps | operations | hard behaviour | what makes it correct | here |
|---|---|---|---|---|---|
| **logger: main loop** `logger/main.c` | current trip and whether one is running, sample and transaction counters, signal flags, a prepared insert with its bindings | one round: drain D-Bus, honour SIGUSR1, query the columns, insert, move the trip's end, position, commit every 8 s, look at the exit flag | signals between any two steps; trips started from three places and stopped from three; a crash between commits; bindings that outlive a round | the file is always a journal of whole trips; a row is of one round; a signal is obeyed | `Logger` |
| **logger: database layer** `tripdb.c obddb.c gpsdb.c database.c` | the connection's open transaction, unfinished statements | starttrip, updatetrip, insert, BEGIN, COMMIT | SQLITE_BUSY with 1 ms of patience; a statement left unfinished refuses every later COMMIT | a refusal loses no more than it says | `TripDb`, `Logger` |
| **logger: gpsd client** `gpscomm.c` | connection or none, last try | connect, reconnect, next fix | gpsd goes away: its socket stays readable | a missing gpsd does not stop the logging | `Logger` |
| **logger: D-Bus** `obddbus.c` | the queue of the bus connection | take the next message; emit signals | messages queue up between rounds | a start is honoured once | `Logger` |
| **logger: ECU table** `ecudb.c` | a table nobody writes | getecuid | – | – | not modelled |
| **obdcomm: exchange** `obdserial.c` | the port and its flags | start-up commands, write a request, read to a prompt, parse, close | replies later than the timeout stay in the line; lines of any length; an adapter pulled out | a value belongs to the PID it is filed under, and is not older than the timeouts explain | `ElmLink` |
| **obdcomm: baud rate** `obdserial.c:205–340` | the rate of the port, the adapter's, the best so far | guess, ATBRT, ATBRD, read the greeting, go back | both ends change their rates, and one goes back by a timer | port and adapter do not lose each other | `BaudRate` |
| **obdcomm: capabilities** `supportedcommands.c` | an ordered list of PIDs | walk the bitmaps, guess, search | a bitmap claimed and never answered | ordered, of this car, complete when nothing went wrong | `ElmLink` |
| **obdinfo** `obdservicecommands.c …` | constant tables | bytes to floating point | – | the formulas of SAE J1979 | not modelled |
| **conf** `obdconfigfile.c` | the user's configuration file | read, write | – | what is written reads back | not modelled |
| **sim: ELM327** `sim/mainloop.cc obdsim.cc` | settings, the last line, frozen frames, delays of the ECUs | poll generators, read a line, AT commands, modes 1–4, prompt | several ECUs in the order of their delays within one timeout; codes that change between polls; frames that fill up | who is asked when; frames tell the truth; the prompt comes in time | `Sim` |
| **sim: ports** `simport.cc fdsimport.cc socketsimport.cc …` | a line buffer, a connection or none, the echo flag | accept, read a line, write | a line buffer that outlives a client and a read; clients that come while another is served | the lines returned are the bytes read, whole and in order; a client that waits is answered, or dropped | `SimPort` |
| **sim: generators** `sim/generators/*` | replay position, random state, a GUI | one value, codes, clear, idle | – | – | arbitrary answers in `Sim` |
| **repair** `repair/*` | the log itself | fill in trip ends, file rows under trips, indices, ecu column | every statement refusable; killed between two; run again on what is left | rows only under trips they are in; ends never changed | `Repair` |
| **gui** `gui/loggerhandler.cpp maindisplay.fl` | the logger as a child process, a pipe, a line buffer, the state of its buttons | Go, read what the logger says, Stop, notice its end, quit | a pipe that fills up or is closed on a writer; waiting for a child that does not leave; a launch that fails half way | never two loggers, none left behind; stopping returns | `GuiLogger`, over `Logger` |
| **ftdipty** `ftdipty/ftdipty.c` | two descriptors, a file with the name of the pty | copy both ways, create and remove the file | short writes; several bridges with one file | a reply comes whole to who waits for it; the file names a bridge that runs | `FtdiPty` |
| **csv, gpx, kml converters** `csv/ gpx/ kml/` | one running statement and its cursor | read rows, join by times, open and close tags | a log that grows between two statements; rows of no trip; refused statements | every row once, under its own trip; tags nest; a graph fits its scale | `Converters`, over `TripJournal` |
| **analysis, livekml** | none | read one snapshot and format it | – | what they may rely on is `TripJournal` | its promise only |
| **vendored SQLite** `libs/sqlite3` | the file | transactions, locks, snapshots | – | external; what is used is in `TripDb` and `Converters` | external |

### How they interact

The logger talks to the adapter (or to the simulator, over a pty or a socket,
or through `ftdipty`) in strict request and reply; to gpsd by a stream of
reports; to the rest of the desktop by D-Bus; and to its user, its shell and the
GUI by signals. The GUI also reads what it says, through a pipe. All other
programs meet it only in the database file: readers at any time while it is
being written, `obdlogrepair` normally afterwards. SQLite's lock is the only
thing they share, and the logger waits a millisecond for it.

### Hazards

`PROJECT.json` lists them line by line with the properties that would catch
each. In short:

- *logger*: trips started and stopped from several places and surviving in
  variables after they have ended (main.c:472, 486, 528, 553); refusals by
  SQLite that are not fatal, or are (tripdb.c:65, main.c:649); the transaction
  counter (main.c:625); stale bindings (main.c:516); a signal between a test and
  its reset (main.c:495); calls that may never return (gpscomm.c:56,
  obdserial.c:761).
- *obdcomm*: late replies (obdserial.c:110, 202), loops with one way out
  (obdserial.c:115, 231, 761), rates that one end takes back (obdserial.c:283,
  327), the ordered list with its early exit (supportedcommands.c:163).
- *sim*: ECU delays as deltas (obdsim.cc:176, mainloop.cc:344), frames and a
  count that is reset (mainloop.cc:272, 434, 443, 446), the line buffer, its
  clients and its old bytes (fdsimport.cc:52, 64, 101).
- *gui, ftdipty, converters*: the child and its pipe (loggerhandler.cpp,
  maindisplay.fl), the bytes and the file of ftdipty, statements over a log that
  grows (obdgpscsv.c, obdgpx, obdgpskml.c).
- *repair*: refused or killed half way (obdrepair.c:121, 186, 268).

Where a property has to except part of what makes a line hazardous (a last COMMIT
that is refused, an adapter that never answers, a killed bridge), the entry has a
note that says which part no property covers. The models contain it all the same.

Some more are known, and mostly covered by the models too, but are not on the
list: a message that is not a start ends the draining of D-Bus for this round
(main.c:468); a reply longer than the buffer (obdserial.c:97); a car
that sets the last bit of every bitmap (supportedcommands.c:163); the flags of
the port after an upgrade that was not asked for (obdserial.c:312).

## 2. Modules and how they map to the code

| module | what it is | extends |
|---|---|---|
| `TripDb` | the three tables and the statements that change them | – |
| `TripJournal` | abstract: what the file promises its readers | – |
| `Logger` | main loop, database layer, gpsd, D-Bus, signals, crash, restart; refines `TripJournal` | `TripDb` |
| `GuiLogger` | composition: the window, the pipe and the logger as its child; refines `Logger` | `Logger` |
| `Converters` | the csv, gpx and kml converters over a log that grows | `TripJournal` |
| `ElmLink` | one run of the program seen from the serial line | – |
| `BaudRate` | the rates of the port and of the adapter | – |
| `Sim` | the simulated ELM327 | – |
| `SimPort` | its port and the clients that come and go | – |
| `FtdiPty` | the bridge between an FTDI chip and a pty | – |
| `Repair` | obdlogrepair | – |
| `MCLogger`, `MCElmLink`, `MCSim`, `MCRepair`, `MCGui` | constants for TLC that a cfg cannot write; `MCSim` also what a run is about | the above |
| `MCParts` | `SimPort`, `BaudRate`, `FtdiPty`, `Converters`, each at its instance | the four |
| `LoggerProofs`, `LoggerSteps`, `LoggerSafety`, `ElmLinkProofs`, `SimProofs`, `RepairProofs`, `GuiProofs`, `PartsProofs` | theorems and proofs | the above |

Next to some definitions stands a second one that differs by a small, plausible
mistake (`EndRoundNoReset`, `QueryColumnNoBreak`, `FreezesWhenFull`, …). The
specifications do not use them; put in the place of the real one each makes a
run fail, which is how we know that the property of that run bites.
`PROJECT.json` ("mutants") says which breaks which.

### TripDb

A database is a record of the trips (a sequence, its index the rowid), the rows
of `obd` and `gps`, and whether this connection holds the write lock. An
operator for a statement (`StartTrip`, `UpdateTrip`, `InsertObd`, `InsertGps`)
returns the *set* of databases it may leave: a statement that has to take the
lock while another process holds the file may be refused (`Refused`), one that
is made in a transaction that already writes may not. `starttrip()` returns -1
(`NoTrip`) when it is refused, and the loop files rows under that.

### Logger

The variable `pc` names the point of the loop that is next:

    off -> top -> dbus -> signal [-> clear] -> query -> record -> update -> gps
        -> tail [-> begin] -> top -> ... -> flush -> close -> off

Without a serial port a round goes from `signal` straight to `update`. From
`query` there is also `spin`, which nothing leaves but a crash.

| actions | code |
|---|---|
| `Start` | main() up to the loop, its first BEGIN included; a failing adapter or gpsd is a choice |
| `BeginRound`, `SamplesDone`, `ClockFails` | the loop's test and gettimeofday |
| `DBusStart`, `DBusDone` | main.c:468: messages up to the first that is no start |
| `HonourStart`, `ClearSignal`, `NoStartSignal` | main.c:486–495; the test, the work and the reset of the flag are separate steps, a second signal may come in between |
| `QueryColumn`, `QueryDone` | the querying, one column a step, broken off at a status that is not success |
| `QuerySpins` | a query that never comes back: getobdbytes on a short line (obdserial.c:761, as in `ElmLink`) |
| `RecordSample`, `RecordError`, `RecordNothing` | main.c:516–551: the insert and what starts or stops a trip |
| `KeepTrip` | main.c:553, updatetrip in every round |
| `GpsFix`, `GpsNothing`, `GpsReconnect` | the position |
| `EndRound`, `Begin` | main.c:617–646: exit flag, transaction counter, COMMIT, and the BEGIN after it |
| `Flush`, `Close`, `Gone`, `Crash` | leaving, normally and otherwise |
| `ExitSignal`, `StartSignal`, `SendMessage`, `GpsdDies`, `Hold`, `LetGo` | the outside, between any two steps |

`disk` is what a reader of the file would see, `conn` what the connection sees;
they differ by the open transaction. A bound value is represented by the round
in which it was bound (`bound`), so that a row that mixes rounds is visible.
Time is counted in rounds; the wall clock is not set back.

`leaked` is the statement `starttrip()` forgets to finalize when its INSERT is
refused. It makes every later COMMIT of the connection fail. The properties that
mention commits have an exception for the time after a refused COMMIT
(`refused`), and `logger_refused` shows the exception to be wider than it ought
to be (section 7).

### TripJournal

Three variables, and one action `Publish`, which appends: no trip without an
end, none rewritten but the newest, which only grows; every row inside the trip
it is filed under; everything new later than everything old. `Logger` implements
it with `trips`, `obd`, `gps` read from `disk` (`Journal == INSTANCE TripJournal
WITH …`): a commit publishes, everything else stutters, and a crash is no step
at all, because it only loses what nobody has seen. Starts that a D-Bus message
makes out of uninitialised memory are the `UnreliableStarts` the writer does not
answer for.

### GuiLogger

The window is single-threaded: `window` is where it is, `idle` in `Fl::run`, then
the three points of the destructor of `loggerhandler` at which the child may be
doing anything: before the pipe is closed, before the signal, and waiting.

| actions | code |
|---|---|
| `Launched` | the child's main() up to its loop, exits included, with what it may say there |
| `Runs`, `Exits` | each step of `Logger`, with a line written where the code prints one; a full pipe blocks it |
| `SpeaksToNobody` | SIGPIPE: the pipe was closed and there is no handler |
| `Dies`, `Disturbed` | crashes, and `Logger`'s own outside |
| `Go` | the button, pipe() and fork(), which may fail |
| `Pulse` | the idle callback: one read, and every whole line of `mLinebuf`; not the terminator that it writes one byte past a full `mLinebuf` (loggerhandler.cpp:206) |
| `NoticeEnd` | the idle callback finding that the child has gone |
| `Stop`, `Quit`, `ClosePipes`, `Kill`, `Wait` | the buttons and the destructor; SIGINT before the handlers are installed ends the child at once |

Every action leaves `Logger`'s variables to an action of `Logger` or alone, so
that the composition refines `Logger` (`StaysALogger`), and through it the
journal. Trip buttons exist but are hidden in `maindisplay.fl`; `starttrip` and
`endtrip` of the handler are never called.

### ElmLink

Requests are numbered, and every line of a reply carries the number of its
request, so that the age and owner of a value are visible. A line is a value of
a PID, other text, at most three characters ("short"), NO DATA, or the prompt:
the distinctions the parser makes. `Startup` is the sequence of commands that
opens the port; `phase` goes `open -> caps [-> guess] -> round -> closed`.

| actions | code |
|---|---|
| `Send`, `SendFails` | appendserialbuffer/write; blindcmd reads all the same |
| `Read`, `TimeOut` | readserialdata: one read of any length, its test for a prompt at the end, its look at the clock, which throws away what this read returned |
| `Opened`, `Close` | openserial's commands; closeserial's ATZ, whose reply nobody waits for |
| `Spins`, `Status`, `Answer` | the parsing loop of getobdvalue |
| `GotMap`, `GotGuess` | getobdcapabilities and its fallback |
| `GotValue` | one column of a round, as in main.c |
| `Respond`, `Unplug` | the adapter and the car, external: in order, at any time later |

The initial states include the reply to the closing ATZ of an earlier run, still
in the line, and an adapter with half a command in its buffer.

### Sim

One turn of `main_loop` is `idle -> poll -> read -> answer | ecus -> reply`.
`Idle` gives the generators their time (codes change, a generator may say
leave), `Poll` freezes frames, `ReadLine` takes a line or repeats the last,
`At…` and `Answer…` are the branches, `SkipEcu`/`AskEcu`/`AllAsked` the loop
over `ecudelays`, `Reply` the wait, the reply and the prompt. `SortPlaces`,
`Deltas` are `ecudelay_order`; `SortSorts` in `MCSim` compares the sort with
`SortedPlaces`, its definition, for all delays of the instance.

A frame carries which set of codes it was frozen under. The history `sets` counts
these sets where they *change*, outside the program: when a client clears codes,
and when a generator drops those it had, whether or not it has new ones at once.
What the polls can know of it is less: `seen` is the set at the last poll, and
`missed` says that an ECU's codes went and came back between two polls while it
had frames, until a poll sees it without codes. So a frame of a fault that is gone
is visible, and so is why.

The number of a frame is any integer: `%x` reads into an int, and mainloop.cc:272
tests it from above only. With a negative one the reply has what lies in front of
`ff` (`Stray`, a value or none), or the program ends (`AnswerFaults`).

### Repair

`Start` enters the passes `ends -> column -> file -> index -> ecu`. Each action
is one SQL statement and has a refused branch, since the tool sets no busy
timeout and looks at few results; `Killed` may happen anywhere, the log stays as
it is and another run may start. Times are in hundredths of a second, as the
"- 0.01" of the code wants. SQL's NULL is a value of its own (`NullEnd`), which
`sqlite3_column_double` reads as 0 (`EndRead`).

### SimPort

A byte carries the client it comes from and the number of its line, so that a
line made of two clients' bytes is visible. `ReadLine` is one call of
`readLine()`: accept if there is no connection, one `read()` of what there is
room for, the echo, the first line of `readbuf` and the `memmove`. `Answer` is
one `writeData()`; `Writes` of them make an answer, and each looks for a
connection of its own when there is none. `Connect`, `Send`, `Leave` are the
clients, external. `got` and `taken` are history: all the bytes read and where
in them the returned lines are.

`memmove` moves the rest of the buffer to its front and leaves the last cells as
they were. These old bytes are in the model: `readbuf` is what counts as read,
`behind` the cells behind it, and `strstr` goes over both, up to the first NUL. A
line that ends in old bytes makes `readbuf_pos` negative (`infront`); the next
`read()` then begins in `lastread`, which lies in front of `readbuf`. What the
properties say of such lines is said by `LinesAreRead`, which is false from the
first of them on, and by `LongLinesFirst`: they come only after a line that was
taken out when it and all that was read came to more than the buffer.

### BaudRate

`at` is the place in openserial() and what it calls: `open [-> guess] -> reset
[-> brt -> brd -> reply -> elm ...] -> opened`. An action of the program is what
happens up to the next read. `Fail` is the `modifybaud(previousrate)` of a failed
attempt, `Modified` that function's refusal of rates it does not know. The
adapter is external, from the datasheet's ATBRD as the comments of the code
describe it: `AnswerBrd`, `GoBack` after its time. The histories `agreed`,
`raced`, `blind` name the ways in which the two lose each other, which the
properties have as exceptions: they were apart from the start, the final "\r"
came too late, or a failed attempt "restored" a rate that nobody had.

### FtdiPty

The loop of one bridge, `PtyToChip` and `ChipToPty` in turn, each a `read` and a
`write` whose result nobody looks at; the application and the adapter at its two
ends, external; and the file with the name of the pty, over any number of
bridges (`Launch`, `IsKilled`, `Fails`, `Unlink`).

### Converters

The log is `TripJournal`'s, and `Commit` is its `Publish`: what the logger
promises is what the converters get. `Csv…`, `Gpx…`, `Kml…` are the statements
and loops of the three programs, one row or one graph at a time. A statement in
progress keeps its snapshot (SQLite, external); between two, anything may be
committed; a first step may be refused, which the code takes for no rows.

### MCParts

These four do not interact with each other, nor, beyond what their own models
contain, with the rest. `MCParts` is their disjoint union: the first state chooses
which one runs, the others rest in a state with nothing to do. Each has in it the
fairness of its own specification.

## 3. Runs

All with two workers; distinct states in the last column.

| run | bounds | checks | states |
|---|---|---|---|
| `logger_restart` | 2 columns, 2 rounds, 2 lives, commit period 2, 2 disturbances | `TypeOK`, `RowsOfOneRound`, `SavedOnExit`, `CurrentTripIsNewest`, `KeepsJournal` | 2 573 792 |
| `logger_rounds` | 1 column, 3 rounds, 1 life, commit period 2, 2 disturbances, fair | `LossBounded`, `SignalsObeyed` | 202 694 |
| `link` | 3 cars, bitmaps of 2 PIDs, 2 columns, 2 rounds, 1 refusal, fair | `TypeOK`, `RowsOfTheirPids`, `AgeBounded`, `CapabilitiesRight`, `ReadingEnds` | 860 467 |
| `sim` | 3 ECUs; about frames: all in time, one with codes, 2 frames, 2 codes, 3 lines, 3 changes, frame numbers from -1 to 1; about times: delays of 50 or 250, 2 lines, 1 change; fair | `TypeOK`, `FramesTellTheCodes`, `CodesAreFrozen`, `ServedFramesAreCurrent`, `PromptInTime`, `EarlyEcusAsked`, `FrozenStaysFrozen`, `LeavesWhenTold` | 537 846 |
| `repair` | logs of up to 2 trips and 3 rows, 2 runs of the tool | `TypeOK`, `NothingMisfiled`, `RunCompletes`, `EndedTripsKept` | 4 143 240 |
| `gui` | 1 column, 1 round, commit period 1, 2 launches, 3 disturbances of which one is kept for each kill, a pipe of 1 line and a buffer of 2, fair | `GuiTypeOK`, `NoLoggerLeftBehind`, `StaysALogger`, `StopReturns`, `WindowReads` | 112 980 |
| `parts` | 2 clients with 3 and 2 scripts and a buffer of 5 bytes; 4 rates of which the port has 3, 2 to guess, 3 to try; 2 bridges, 2 requests of 2 bytes, replies of 3; 6 logs, 3 times, 1 commit; fair | `PartsTypeOK`, `LinesAreRight`, `PoliteAreAnswered`, `RatesAgree`, `OpeningEnds`, `FileNamesABridge`, `RepliesComeWhole`, `RequestsAreAnswered`, `CsvRight`, `GpxRight`, `KmlRight` | 308 854 |
| `logger_stopped` | 3 rounds, no disturbance | violates `StoppedTripStays` | 800 |
| `logger_gpsd` | 2 rounds, 2 disturbances, fair | violates `ExitSignalObeyed` | 4 067 |
| `logger_refused` | 1 round, 2 disturbances | violates `RefusalNotFatal` | 4 623 |
| `link_short` | 1 column, 1 round, fair | violates `ShortLinesHandled` | 422 117 |
| `repair_ends` | as `repair`, 1 run | violates `EndsAreFixed` | 635 828 |

A run that ends in a violation stops early; its number depends on the
scheduling of the workers. Several of the properties are the conjunction of
named parts that say one thing of one component (`CapabilitiesRight`,
`SignalsObeyed`, `RunCompletes`, `WindowReads`, `LinesAreRight`, `RatesAgree`,
`CsvRight`, `GpxRight`, `KmlRight`); the parts are defined and explained next
to each other in the module.

What the passing runs show:

- *logger_restart*: whatever comes in between, crashes and a second life on the
  file of the first included, rows are whole, what was logged is in the file
  when the program leaves, a running trip is the newest, and readers see a
  journal. Two columns are needed for a row to be able to mix rounds; two lives
  for rows and trips to have to follow those of another process.
- *logger_rounds*: three rounds are more than a commit period of two, so that
  the counter wraps, is reset and counts on; two disturbances allow a second
  signal while the first is being handled, or a signal and a holder of the file.
- *link*: the three cars are one with two bitmaps, one that claims nothing and
  has to be guessed, one whose second bitmap is claimed and never answered. Any
  reply may be late, so that one is read for any later request; two rounds let a
  value of the first be read in the second.
- *sim*: the first state chooses what a run is about (`MCSim`). *Frames*: three
  changes of the codes are more than there are frames, so that they fill up, are
  kept, and are cleared; a change may replace the codes by as many others, in one
  call of the generator or by a client's mode 04 and a call after it, which no poll
  sees; three lines allow to clear, to ask for codes and to ask for a frame.
  *Times*: every mix of two delays, below and above the default timeout of 200;
  `ATST` raises it to 300 so that a slow ECU comes in and the deltas of equal and
  different delays add up.
- *repair*: every combination of columns and indices that some version of the
  logger has left, trips with and without ends; a second run meets whatever a
  refused or killed first one left.
- *gui*: a pipe of one line blocks the logger in every round and a buffer of two
  is full whenever an empty line is in front; Stop, Quit, Go and the child's own
  end meet in every order; the second launch finds what the first left. The
  journal is checked through `StaysALogger`, the refinement.
- *parts*: `port`: lines sent at once and one by one, with "\r" and "\r\n", a
  client that leaves in the middle of a line, one that fills the buffer. With five
  bytes both things happen: up to three lines, of both clients and with leftovers
  in front of them, are taken before any old byte is, and old bytes are returned
  after lines that are too long for the rest;
  `baud`: every request and target, -1 and 0 and a rate the port does not know
  among them, an adapter at any rate, and each answer at each attempt; `bridge`:
  two bridges share the file, writes may be cut anywhere; `conv`: logs with
  trips that touch, rows at their very ends, rows of no trip and of 0, positions
  still filed under a trip that has ended, and a commit at each place a statement
  is not in progress.

`CHECK_DEADLOCK FALSE` is in every configuration because every model has runs
that end: the program has left for the last time, the simulator has stopped,
the tool has run as often as it may, the window is closed, the conversion done.

Bounds, all constants of the models: `MaxStarts`, `Samples`, `MaxDisturbances`
(Logger, GuiLogger); `MaxRounds`, `MaxRefusals`, `LastGuess`, `PidsPerMap`
(ElmLink); `MaxCodes`, `MaxLines`, `MaxChanges`, `MaxFrames` (Sim); `MaxTrips`,
`MaxRuns` (Repair); `PipeSize`, `LineBuf` (GuiLogger); `Clients`, `Scripts`,
`BufSize`, `Writes` (SimPort); `Rates`, `Guesses`, `Speeds` (BaudRate);
`MaxAsked`, `RequestSize`, `ReplySize`, `PtySize` (FtdiPty); `MaxTrips`,
`MaxPublish`, `Times`, `Logs` (Converters). `Samples`, `PidsPerMap`, `LastGuess`,
`MaxFrames`, `LineBuf`, `BufSize`, `Guesses` and `Speeds` are constants or
options of the code itself, made small.

## 4. Fairness

- *Logger*, `WF(Step)`: the program is scheduled; a serial read returns after
  OBDCOMM_TIMEOUT, SQLite after its busy timeout. Nothing is assumed of the
  outside; in particular whoever holds the file need never let go. Two calls need
  not return, and fairness does not make them: `getgpsposition` after gpsd has
  gone (`GpsNothing` and `GpsFix` are disabled then, finding 2), and any query
  (`QuerySpins`, after which no step of the program is enabled, finding 4). A
  weakly fair `Step` may choose either; `SignalsObeyed` names both.
- *ElmLink*, `WF(Program)`: the loop of `readserialdata` ends, at the latest,
  when it looks at the clock. The adapter need never answer. `ReadingEnds` still
  needs the code's timeout: a read that does not look at the clock unless it has
  got something does not end.
- *Sim*, `WF(Next)`: the port is read without waiting and each `select()` has a
  timeout. Generators change and lines come only as often as the bounds allow.
- *GuiLogger*, `WF(child = "running" /\ Child)`, `WF(Window)`: the child is
  scheduled as above, with the same two calls that need not return, and FLTK calls
  the idle callback over and over. Nobody has to press a button. A
  write to a full pipe is disabled, not unfair: that stopping returns needs the
  window to close its end first.
- *SimPort*, `WF(Port)`: the simulator's main loop calls `readLine()` until it
  ends. No client has to send or leave.
- *BaudRate*, `WF(Opening)`, `WF(Adapter)`: the program runs on, and an adapter
  at the port's rate answers ATBRD. This is an assumption about the adapter that
  the code makes too (obdserial.c:231 has no timeout); `OpeningEnds` excepts the
  cases in which it cannot hold.
- *FtdiPty*, `WF(MyLoop)`, `WF(AdapterReplies)`, `WF(Hear)`: both reads of the
  loop have timeouts; the adapter answers a request that came whole, and the
  application reads what there is.
- *Repair*, *Converters*: safety only.

## 5. Proofs

For all values of the constants that satisfy `ConstantsAssumption`,
`LinkAssumption`, `SimAssumption`, `RepairAssumption`, `GuiAssumption`,
`PortAssumption`, `BaudAssumption`, `BridgeAssumption`, `ConvAssumption`,
`LogAssumption` and, for the parts side by side, `RestAssumption`. These only say of what kind the constants are (naturals,
positive where the code divides or counts from one, non-empty where something is
chosen, subsets of what they are parts of); `MaxCodes` is at most 9: nine codes
fit the buffer of mode 03; and the logs a converter starts on are well formed in
the sense of `TripJournal`; the values of a part that rests are among its
constants (`RestAssumption`). The runs evaluate them. 11 389 obligations in all,
none left open.

| module | theorem | says |
|---|---|---|
| `LoggerProofs` | `TypeCorrect` | `Spec => []TypeOK` |
| `LoggerSafety` | `Inductive` | `Spec => []IInv` |
| | `WholeRows` | `RowsOfOneRound`, for any number of columns |
| | `NewestTrip` | `CurrentTripIsNewest` |
| | `NothingLostOnExit` | `SavedOnExit` |
| | `CrashLosesLittle` | `LossBounded`, for every commit period |
| | `ImplementsJournal` | `Spec => KeepsJournal`: the refinement of `TripJournal` |
| `GuiProofs` | `WindowRunsLogger` | `GuiSpec => StaysALogger`: the composition refines `Logger` |
| | `WindowKeepsJournal` | `GuiSpec => KeepsJournal` |
| | `WindowInductive` | `GuiSpec => []GuiInv` |
| | `WindowLeavesNothing` | `NoLoggerLeftBehind`, for any pipe and buffer |
| | `WindowTypes` | `GuiTypeOK` |
| `ElmLinkProofs` | `LinkInductive` | `Spec => []LinkInv` |
| | `ValuesOfTheirPids`, `LateByTimeouts` | `RowsOfTheirPids`, `AgeBounded` |
| | `CapabilitiesInductive` | `Spec => [](LinkInv /\ FindInv)` |
| | `CapabilitiesHold`, `LinkTypes` | `CapabilitiesRight`, for any car, wishes and size of bitmap; `TypeOK` |
| `SimProofs` | `SimTypes`, `SimInvariant` | `TypeOK`, `SimInv` |
| | `SimFrames`, `SimCodesFrozen`, `SimFrozen` | `FramesTellTheCodes`, `CodesAreFrozen`, `FrozenStaysFrozen` |
| | `SimPrompt`, `SimEarlyEcus` | `PromptInTime`, `EarlyEcusAsked`, for any number of ECUs |
| | `SimServesCurrent` | `ServedFramesAreCurrent`, with its three exceptions |
| `RepairProofs` | `RepairTypes`, `RepairInvariant` | `TypeOK`, `RepairInv` |
| | `RepairFiles`, `RepairKeepsEnds` | `NothingMisfiled`, `EndedTripsKept` |
| | `RepairProgress`, `RepairCompletes` | `ProgressInv`; `RunCompletes`, for any log |
| `PartsProofs` | `BaudTypesHold`, `BridgeTypesHold`, `ConvTypesHold` | types of `BaudRate`, `FtdiPty` and `Converters` |
| | `PartsTypesHold` | `PartsSpec => []PartsTypeOK`: the parts side by side |
| | `PortTypesHold`, `LinesTileHolds` | types of `SimPort`; `LinesTileTheInput`: until old bytes are returned, for any clients, reads and buffer size |
| | `LinesAreRightHolds` | all of `LinesAreRight`: until then, and that it takes a long line (`LongLinesFirst`), for any clients, bursts and buffer size |
| | `PortFollowsHolds`, `BestIsAgreedHolds`, `KnownRateHolds`, `RatesAgreeHolds` | `RatesAgree` and its parts, for any rates and lists |
| | `FileNamesABridgeHolds` | `FileNamesABridge`, for any number of bridges |
| | `RepliesComeWholeHolds` | `RepliesComeWhole`, for any sizes |
| | `CsvOneLineHolds`, `CsvTripIsOwnHolds`, `CsvCompleteHolds`, `CsvRightHolds` | `CsvRight` and its parts, for any log |
| | `KmlScaledHolds`, `KmlWithinTripHolds`, `KmlRightHolds` | `KmlRight` and its parts, for any log |
| | `GpxRightHolds` | `GpxRight`, for any log |

**Logger.** None of the safety properties is inductive. That rows are whole
needs to know what the statement is still bound to at each `pc` (`BindingInv`,
`ObdInv`). That a crash takes little needs the transaction counter to be the age
of the oldest pending row (`LossInv`), and that needs the transaction to be
open everywhere but at `begin` and `close`, unless the COMMIT before was
refused (`TransactionInv`). The refinement
needs most: that `disk` is itself well formed (`DiskInv`), that what is pending
is newer than all of it and under its newest trip or a later one (`PendingInv`),
and that *at the points where a commit can happen* every trip has an end and
every row lies within its trip (`TripTimesInv`, `OpenTripInv`, `GpsInv`, with
`TimeInv` for the clock). Between the insert and `KeepTrip` the last is false,
which is why the invariant speaks of `pc`, and why a COMMIT in the middle of a
round would break the journal. `LoggerProofs` has the types, `LoggerSteps` one
lemma per action or group of actions and part of the invariant, `LoggerSafety`
puts them together and proves the refinement step by step: the few actions that
change `disk` publish, all others stutter.

**GuiLogger.** Every step of the composition is a step of `Logger` or leaves its
variables alone, so that all that was proved of the logger holds under the
window. `GuiInv` says at each point of the window's life what the child can be
doing: the child runs exactly while the logger's `pc` is not `off`, the window
has a handler exactly while there is a child, and while it waits the child is no
longer being launched. The types follow with it; those of the pipe need that a
line that is written fits what is left of it.

**ElmLink.** The heart is `OrderInv`: the numbers of the requests in what is in
the line and then in what is still to be answered ascend, a prompt after the
lines of its reply and before those of the next. With it `DebtInv` says that the oldest reply still on
its way is behind by no more requests than reads have timed out, plus one if an
earlier run left its ATZ; a timeout is the only step that lets the distance
grow. `RowInv` carries both from the buffer to the row.
The capabilities need the opposite, what is *in* the replies. That the list is of
this car and ascends is `CapsInv`: no PID is asked for that is not beyond all that
are in it. That it is complete after an undisturbed exchange is `ExchangeInv`
(what is on its way and in the buffer is one whole reply, a value or a bitmap in
it if and only if the car has one) with `FoundInv` (all wished PIDs of the chain
up to the bitmap asked for are in the list, or all that answered so far when
guessing). That the wished PIDs of a bitmap are a sorted list at all is an induction
over the set (see below).

**Sim.** `FramesTellTheCodes` says of each ECU that the count, the last count
polled and the frames agree, and that the counted frames are of the set of codes
the last poll met, or that the ECU's codes have changed unseen (`missed`): a poll
that freezes adds a frame of the set it meets, which is the set of the poll before
unless there was such a change. `OrderInv` says that `ecudelays` is the table of differences of some order of the
ECUs by delay, so that up to the first ECU that is too slow the deltas added so
far are the delay of the last one asked. From it `TurnsInv` says of the ECUs
considered so far that each whose delay is within the timeout has been asked at
exactly that delay. Behind an ECU that is left out every other is as slow or
slower, which is why the delta that is not added (mainloop.cc:344) harms none of
those in time; those behind it that are slow may be asked too early (finding 8).
`ServesInv` is about frames: a reply to mode 02 begins empty, and while it is put
together no poll comes in between.

**Repair.** A row within a trip's time means that the trip already has an end
(a trip without one ends at -1 or at NULL, read as 0, before any row), so
filling in an end never takes a filed row out of its trip; `FillEnds` leaves
every end that is there alone. That a run *completes* needs `ProgressInv`, which
goes through its passes as long as nothing is refused: before a row is filed all
ends are filled in (`EndsDone`); in each table whose column was added, the rows of
all trips looked at so far have theirs (`RowsDone`); the columns and indices before
the place the loops are at are there (`SchemaDone`), and all at the end
(`SchemaIsCurrent`).

**SimPort.** Four parts. That the cells of the buffer are `readbuf` and `behind`,
and that there is nothing in `readbuf` when `readbuf_pos` is negative, holds
whatever is returned (`BufferTypes`). The next two hold until old bytes are
returned. `BufferInv` says that the buffer is the end of what was read and that
the lines returned lie before it, each from where the one before ended
(`PlacesInv`). A read appends the same bytes to both; a line that is taken moves
the border to its end, and what `memmove` keeps is the rest (`SameEnds`). Nothing
else touches the buffer, whoever connects, sends or leaves. The fourth,
`LongInv`, gives `LongLinesFirst`: as long as all lines were short, no old byte
before the first NUL can end a line, because the cells that a line and its read
did not use are still NUL.
Whose bytes are in a line is a matter of two orders. Clients are accepted in the
order they come, and only the one connected is read, so that what was read is
sorted by client (`OrderInv`); and of each client, what was read and what is on the
wire is one stream in which bytes of different lines have a "\r" between them
(`StreamInv`). How far the port is behind (`LagBounded`) is a sum over clients: the
lines in the buffer, on the wire of the client that is connected and the one being
answered are no more than the credit of those before it, the answers that strayed,
and what it has asked and not been answered (`LagInv`). It has to be said when a
client is *accepted*, not when it leaves, since its lines stay in the buffer. The
credit is the number of pairs of a client and a line it may send early (`Early`),
so that it grows by a union of finite sets; a sum by recursion could not be
reasoned about.

**BaudRate.** `BaudInv` follows the rates through an attempt. `AttemptInv` says
which entry of the lists each place uses; `AdapterInv` what the adapter can be
at, its old rate or the one it tries, and that the port is there before it waits
for the greeting; `BackInv` that an attempt that began with
both at one rate leaves the port at the rate the adapter goes back to, unless
`blind`; `BestInv` that the best rate so far is the one both have; `ToldInv`
that a rate the program was told is one it can restore.

**FtdiPty.** Replies come whole because there is only one thing under way at a
time: `OneUnderWay` says that either a request or one reply is between the two
ends, and that what the application has heard, what the pty and what the chip
hold are, in this order, the bytes of one reply (`GoesOn`). Then there is always
room for what the chip has, and the short write that would lose some of it
cannot happen.

**Converters.** `ConvInv` has for the log what `TripJournal` says of it
(`LogInv`), for csv that the lines written and the rows to come are the table,
each line with a trip the join gives it (`CsvInv`), and for kml that a graph and
the maximum it is scaled by are of one snapshot (`KmlInv`), since the outer
statement is in progress all the while. That a row joins at most one trip comes
from the journal: trips do not overlap, and both comparisons are strict. For gpx,
`GpxInv` says that the rows to come are of no trip before the one whose track is
open and that this track is the last and has only positions so far (`IsOpen`); what
is written before it is tidy: each trip has started once, each position lies in a
track, each end closes one and between two starts there is an end (`Tidy`). It is
kept tag by tag (`AddStart`, `AddPoint`, `AddEnd`), a row being at most three.

**Parts side by side.** `MCParts` runs one part while the others rest. A step of
the whole is a step of each part or leaves it as it is, and a part at rest is in
a state that satisfies its invariant, so that each keeps its own.

**Inductions over data.** The library's induction theorems cannot be used here.
Where an induction is needed the proof takes the least number for which the claim
fails (`WFMin` on the naturals) and shows that it does not; what is recursive is
then unfolded once. So it is with the sorted list of a set (ElmLink), with
`FlattenSeq`, which puts the replies of the ECUs one behind the other (Sim), and
with the first line that the window cannot parse (`SelectInSeq`, GuiLogger).
`Ascending` of `ElmLink` says what the sorted list is rather than how it is made,
since no fact about the library's sort is in the prover's library.

## 6. Only model-checked

- Liveness (`SignalsObeyed`, `ReadingEnds`, `LeavesWhenTold`, `StopReturns`,
  `WindowReads`, `PoliteAreAnswered`, `OpeningEnds`, `RequestsAreAnswered`): the
  prover does not reason about fairness.
- That the sort of `ecudelay_order` sorts (`SortSorts`): an induction over its
  two loops. The proofs take the order from `SortedPlaces`, its definition.

Every invariant that a passing run checks is also the statement of a theorem.

## 7. Where the code and its words disagree, and what else was seen

Each of the first five has a run whose counterexample is short enough to be read.

1. **A stopped trip goes on growing** (`logger_stopped`). main.c:542 stops the
   trip when the engine has desisted, but main.c:553 moves the end of
   `currenttrip` in every round, whether a trip is running or not: parked time
   is added to the trip.
2. **An exit signal is not obeyed when gpsd has gone** (`logger_gpsd`). The
   loop of gpscomm.c:56 never leaves a socket at end of file; main.c:618 is
   never reached again.
3. **A refused start of a trip is fatal** (`logger_refused`). tripdb.c:65
   returns without finalizing the statement, and SQLite refuses all COMMITs
   while one is unfinished: the rows of the whole run are rolled back at exit.
4. **Short lines are not handled** (`link_short`). The `continue` at
   obdserial.c:761 goes back to a loop whose `line` has not moved on. A logger
   that is in it looks at no signal any more, and a window that stops it waits for
   ever.
5. **The end of the wrong trip** (`repair_ends`). obdrepair.c:191 takes the
   trip *before* the one being mended, so that it ends before it starts, or
   never.

Four more disagreements have no run of their own. Each is a property defined in the
module, next to those that hold, and TLC refutes it in seconds when it takes the
place of the properties in `MCSim.cfg` or `MCParts.cfg`:

6. **A frame that is not counted is told** (`ServedFramesAreCounted`).
   mainloop.cc:272 compares a number that counts from 0 with `<=` to the "Current
   number of frozen frames" (obdsim.h:99), and clearing resets the count but not the
   frames: what is told may be the frame of codes that are gone.
   `ServedFramesAreCurrent` has to except this number.
7. **A frame without a new error** (`FramesForNewErrors`). mainloop.cc:445 says
   "Getting here means there's some new errors"; two codes of which one goes get
   there too.
8. **Slow ECUs asked too early** (`AskedWhenDue`). The delta of an ECU that is left
   out is not counted (mainloop.cc:344–348), so that a slower one behind it is asked
   before the delay that obdsim.h:102 says it takes: of several ECUs of 250 ms under
   a timeout of 200, the second is asked at once. To the ECUs in time it is harmless
   (`EarlyEcusAsked`).
9. **Old bytes returned as a line** (`LineEndsAreRead`). `memmove` at
   fdsimport.cc:101 leaves old bytes behind the end of the buffer, `strstr` at line
   88 finds their "\r": a "\n" that comes after a line that filled the buffer gets
   the rest of that line returned a second time, `readbuf_pos` becomes negative
   (line 102), and what is read next is lost in front of the buffer. `LinesAreRight`
   holds until then and says when it may happen first.

Other things were seen while modelling, of which the repository says nothing one
way or the other. The models contain them, and the properties have them as
exceptions, named where there is one:

- *logger*: main.c:472 gives `starttrip` a `time_insert` that this round has not
  set yet: the previous round's, or in the first round whatever was on the stack
  (`UnreliableStarts`).
- *baud rate*: with target 0 a first attempt that fails "restores" the rate -1,
  that is, none, and with a guessed rate 9600 (`blind`). The "\r" that keeps the
  new rate has 500 ms, the wait for what comes before it a second (`raced`).
- *sim*: codes that go and come back to the same number between two polls keep the
  frames of those that went (`missed`); a negative frame number is let through and
  reads in front of the frames (mainloop.cc:272).
- *sim's port*: one line is returned for each read, so that the port stays
  behind a client that sends several at once (`LagBounded`); an answer that finds
  no connection goes to whoever comes next (`strays`); the buffer is not emptied
  when a client leaves, and a full one reads as an end of file and drops the
  client after it too (`LeftoversInFront`, `Waits`); writing to a client that has
  left may raise SIGPIPE, which ends the simulator (`killed`).
- *gui*: a window that is stopped while gpsd has gone, or a query does not come
  back, waits for ever (`StopReturns`); an empty line from the logger, which it prints for a rate it
  does not know, ends the parsing of all that follows, so that "Starting…" stays
  and the pipe fills up (`Stuck`); what the logger says last is not read; closing
  the pipe before the signal lets SIGPIPE come first, which costs up to a commit
  period of rows.
- *ftdipty*: the bridge that leaves removes the file whosever name it has, and a
  bridge that is killed leaves it (`cut`).
- *converters*: SQLITE_BUSY at a first step is an empty result (`refused`); the
  joins compare strictly, so that rows at the very start or end of a trip have
  none in csv; gpx closes a track that was never opened when there is none.
- *logger, again*: a last COMMIT that is refused only because another process holds
  the file at that moment loses the rows since the one before (`SavedOnExit`
  excepts it; finding 3 is about a file that nobody holds any more).
- *repair*: rows left unfiled when it is killed after adding the column stay so,
  because the next run finds the column and does not look (obdrepair.c:268).

## 8. Not modelled

- Characters: formatting of requests, parsing of hexadecimal, headers, spaces
  and line feeds. A line is what the parser makes of it.
- Floating point: conversions of values, statistics, coordinates.
- Option parsing, daemonising, the layout of the user interface, printing.
- A reply longer than the 4 kB buffer, lines joined by colons, the readers of
  error codes; read errors while the rate is being changed.
- In the simulator's port, what the echo sends back, which may end in old bytes too,
  and a `read()` that would begin in front of `lastread`.
- The join of csv with the positions (obdgpscsv.c:220): `CsvRight` is about the
  join with the trips.
- A wall clock that is set back, a full disk, a corrupted file, a failing
  `prepare`.
- Creation of tables. The models start from a file with its tables.
- The operating systems' ports (Windows; the Bluetooth port has the code of the
  socket's) and the generators' data, which `Sim` takes as arbitrary.
- obdinfo, conf, the ECU table (nobody writes it), the analysis tools and livekml:
  tables, formulas and formatting without a state of their own.
- SQLite itself, most of the repository's lines: vendored, and external here.

## 9. Plan

Written, in this order: `TripDb`, `TripJournal`, `Logger` and its proofs (what
the suite is for); `ElmLink` and its proofs (where the values come from); `Sim`
and its proofs (the other end of the line); `Repair` and its proofs (what is
done about bad files); `GuiLogger` (the logger as somebody's child) and
`SimPort`, `BaudRate`, `FtdiPty`, `Converters` with `PartsProofs`.

Next:

- That the loops of `ecudelay_order` sort: `SortedPlaces` from the loops' steps,
  by the least counterexample over their counters.
- That a window's logger is read and stops as long as it speaks: the safety part
  of `WindowReads` and `StopReturns`, a bound on what is in the pipe when.
- A composition of `ElmLink` with the simulator in place of its external
  adapter: `Sim`'s replies through `SimPort` as `ElmLink`'s line.
