----------------------------- MODULE GuiLogger -----------------------------
(***************************************************************************)
(* obdgui with the logger as its child (gui/loggerhandler.cpp and the      *)
(* callbacks of gui/maindisplay.fl), composed with Logger: every step of   *)
(* the child is a step of Logger, which here has to write what it says     *)
(* into a pipe that may be full, or closed, and which is launched, told to *)
(* stop and waited for by the window.                                      *)
(*                                                                         *)
(* The pipe carries whole lines: "value" (name=number, which the window    *)
(* shows), "text", and "blank", an empty line.  With a target rate that    *)
(* the port cannot do, openserial() says one (obdserial.c:248, 322).       *)
(* stderr, which the window only appends to a log, and the messages about  *)
(* refused statements are left out.  The buttons that start and end a trip *)
(* are hidden in maindisplay.fl: nobody can press them, and the window     *)
(* sends no SIGUSR1 or SIGUSR2.                                            *)
(***************************************************************************)
EXTENDS Logger, SequencesExt

CONSTANTS
  PipeSize,   \* lines the pipe holds before a writer blocks
  LineBuf     \* lines mLinebuf holds (4096 bytes in the code)

ASSUME GuiAssumption == PipeSize \in Nat \ {0} /\ LineBuf \in Nat \ {0}

VARIABLES
  window,    \* "idle" in Fl::run, "closing", "killing", "waiting" in ~loggerhandler, "gone"
  quitting,  \* the destructor was called by ~OBDUI
  mUIState,  \* "stopped", "starting", "started"
  mLH,       \* "none" NULL, "unusable" or "usable": mUsable
  mStarted,
  mLinebuf,
  child,     \* "none", "launching" before the loop, "running" in it, "zombie" not waited for
  readable,  \* the window holds the pipe's end
  out        \* what is in the pipe

windowVars == <<window, quitting, mUIState, mLH, mStarted, mLinebuf>>
pipeVars   == <<readable, out>>
guiVars    == <<windowVars, child, pipeVars>>

SaidLines == {"value", "text", "blank"}

GuiInit ==
  /\ Init
  /\ window = "idle" /\ quitting = FALSE
  /\ mUIState = "stopped" /\ mLH = "none" /\ mStarted = FALSE /\ mLinebuf = <<>>
  /\ child = "none" /\ readable = FALSE /\ out = <<>>

-----------------------------------------------------------------------------
(* The child.  stdout is not buffered, so a line is a write, which blocks  *)
(* while the pipe is full.                                                 *)

Say(line) ==
  /\ readable /\ Len(out) < PipeSize
  /\ out' = Append(out, line)
  /\ UNCHANGED readable

SayNothing == UNCHANGED pipeVars

\* main() up to the loop; the signal handlers are installed at its very end.
Launched ==
  /\ child = "launching"
  /\ \/ Start /\ child' = "running"
     \/ UNCHANGED vars /\ child' = "zombie"      \* exit(1)
  /\ SayNothing \/ Say("text") \/ Say("blank")
  /\ UNCHANGED windowVars

SpeakingStep ==
  \/ QueryColumn /\ IF obdstatus' = "success" THEN Say("value") ELSE SayNothing
  \/ RecordSample /\ IF ontrip THEN SayNothing ELSE Say("text")
  \/ RecordNothing /\ IF ontrip THEN Say("text") ELSE SayNothing
  \/ GpsFix /\ Say("value")
  \/ GpsReconnect /\ IF gps' = "up" THEN Say("text") ELSE SayNothing

SilentStep ==
  \/ BeginRound \/ SamplesDone \/ ClockFails
  \/ DBusStart \/ DBusDone
  \/ HonourStart \/ ClearSignal \/ NoStartSignal
  \/ QuerySpins \/ QueryDone \/ RecordError \/ KeepTrip \/ GpsNothing
  \/ EndRound \/ Begin \/ Flush

Runs ==
  /\ child = "running"
  /\ SpeakingStep \/ (SilentStep /\ SayNothing)
  /\ UNCHANGED <<windowVars, child>>

Exits ==
  /\ child = "running"
  /\ Close
  /\ child' = "zombie"
  /\ UNCHANGED <<windowVars, pipeVars>>

\* Where the next thing the child does may be to say something.
Speaks ==
  \/ pc = "query" /\ col < Columns
  \/ pc = "record" /\ obdstatus = "success" /\ ~ontrip
  \/ pc = "record" /\ obdstatus = "nodata" /\ ontrip
  \/ pc = "gps" /\ gps = "up"
  \/ pc = "gps" /\ gps = "down" /\ time_insert - time_lastgpscheck > GpsRetry

\* SIGPIPE, for which there is no handler.
SpeaksToNobody ==
  /\ ~readable
  /\ \/ child = "running" /\ Speaks /\ Crash
     \/ child = "launching" /\ UNCHANGED vars
  /\ child' = "zombie"
  /\ UNCHANGED <<windowVars, pipeVars>>

Child == Launched \/ Runs \/ Exits \/ SpeaksToNobody

Dies ==
  /\ child = "running"
  /\ Crash
  /\ child' = "zombie"
  /\ UNCHANGED <<windowVars, pipeVars>>

\* What else may happen to the child, one disturbance kept back for each kill.
Disturbed ==
  /\ SendMessage \/ GpsdDies \/ Hold \/ LetGo
  /\ disturbances' <= MaxDisturbances - MaxStarts
  /\ UNCHANGED guiVars

-----------------------------------------------------------------------------
(* The window.                                                             *)

\* "Go"; pipe() or fork() may fail.
Go ==
  /\ window = "idle" /\ mLH = "none" /\ mUIState = "stopped"
  /\ starts < MaxStarts
  /\ \/ mLH' = "usable" /\ child' = "launching" /\ readable' = TRUE
     \/ mLH' = "unusable" /\ UNCHANGED <<child, readable>>
  /\ mUIState' = "starting"
  /\ mStarted' = FALSE /\ mLinebuf' = <<>> /\ out' = <<>>
  /\ UNCHANGED <<vars, window, quitting>>

\* What pulse() can make lines of: it stops for good at an empty one.
ParsedValues(lines) ==
  SubSeq(lines, 1, IF \E i \in DOMAIN lines : lines[i] # "value"
                   THEN SelectInSeq(lines, LAMBDA l : l # "value") - 1
                   ELSE Len(lines))

Parsed(lines) ==
  SubSeq(lines, 1, IF Contains(lines, "blank")
                   THEN SelectInSeq(lines, LAMBDA l : l = "blank") - 1
                   ELSE Len(lines))

FirstOf(a, b) == a

SmallerOf(a, b) == IF a < b THEN a ELSE b

\* One read(), as much as there is and fits; then every line that is there.  The
\* terminator that pulse() writes behind a full mLinebuf is left out: the byte there
\* is zero anyhow.
ReadPipe ==
  LET n     == SmallerOf(Len(out), LineBuf - Len(mLinebuf))
      lines == mLinebuf \o SubSeq(out, 1, n)
      seen  == Parsed(lines)
  IN /\ out' = SubSeq(out, n + 1, Len(out))
     /\ mLinebuf' = SubSeq(lines, Len(seen) + 1, Len(lines))
     /\ mStarted' = (mStarted \/ Contains(seen, "value"))
     /\ mUIState' = IF mUIState = "starting" /\ mStarted' THEN "started" ELSE mUIState

Pulse ==
  /\ window = "idle" /\ mLH = "usable" /\ child # "zombie"
  /\ ReadPipe
  /\ UNCHANGED <<vars, window, quitting, mLH, child, readable>>

\* checkRunning() has found the child gone, or there never was one: the
\* destructor returns at once and what is still in the pipe is never read.
NoticeEnd ==
  /\ window = "idle"
  /\ \/ mLH = "usable" /\ child = "zombie"
     \/ mLH = "unusable"
  /\ mLH' = "none" /\ child' = "none" /\ readable' = FALSE /\ out' = <<>>
  /\ mUIState' = "stopped"
  /\ UNCHANGED <<vars, window, quitting, mStarted, mLinebuf>>

\* "Stop": the button is not active while the logger is starting.
Stop ==
  /\ window = "idle" /\ mLH = "usable" /\ mUIState = "started"
  /\ window' = "closing"
  /\ UNCHANGED <<vars, quitting, mUIState, mLH, mStarted, mLinebuf, child, pipeVars>>

Quit ==
  /\ window = "idle"
  /\ quitting' = TRUE
  /\ window' = IF mLH = "usable" THEN "closing" ELSE "gone"
  /\ UNCHANGED <<vars, mUIState, mLH, mStarted, mLinebuf, child, pipeVars>>

\* The destructor: close the pipes, kill -INT, wait.
ClosePipesLater ==
  /\ window = "closing"
  /\ window' = "killing"
  /\ UNCHANGED <<vars, quitting, mUIState, mLH, mStarted, mLinebuf, child, pipeVars>>

ClosePipes ==
  /\ window = "closing"
  /\ readable' = FALSE /\ out' = <<>>
  /\ window' = "killing"
  /\ UNCHANGED <<vars, quitting, mUIState, mLH, mStarted, mLinebuf, child>>

KillSetsFlag ==
  /\ window = "killing"
  /\ receive_exitsignal' = TRUE
  /\ UNCHANGED <<dbVars, pc, tripVars, obdVars, devVars, sig_starttrip, dbus, outVars,
                 loopVars, child>>
  /\ window' = "waiting"
  /\ UNCHANGED <<quitting, mUIState, mLH, mStarted, mLinebuf, pipeVars>>

Kill ==
  /\ window = "killing"
  /\ \/ child = "running" /\ ExitSignal /\ UNCHANGED child
     \/ child = "launching" /\ child' = "zombie" /\ UNCHANGED vars
     \/ child = "zombie" /\ UNCHANGED <<vars, child>>
  /\ window' = "waiting"
  /\ UNCHANGED <<quitting, mUIState, mLH, mStarted, mLinebuf, pipeVars>>

WaitNoHang ==
  /\ window = "waiting"
  /\ child' = "none"
  /\ mLH' = "none" /\ mUIState' = "stopped"
  /\ window' = IF quitting THEN "gone" ELSE "idle"
  /\ UNCHANGED <<vars, quitting, mStarted, mLinebuf, pipeVars>>

Wait ==
  /\ window = "waiting" /\ child = "zombie"
  /\ child' = "none"
  /\ mLH' = "none" /\ mUIState' = "stopped"
  /\ window' = IF quitting THEN "gone" ELSE "idle"
  /\ UNCHANGED <<vars, quitting, mStarted, mLinebuf, pipeVars>>

Window == Pulse \/ NoticeEnd \/ ClosePipes \/ Kill \/ Wait

GuiNext == Child \/ Dies \/ Disturbed \/ Window \/ Go \/ Stop \/ Quit

GuiSpec == GuiInit /\ [][GuiNext]_<<vars, guiVars>>

\* Fl::run calls the idle callback over and over; the child as in Logger, once it
\* has come to its loop: what is before that may wait for ever (obdserial.c:231).
GuiFairSpec ==
  /\ GuiSpec
  /\ WF_<<vars, guiVars>>(child = "running" /\ Child)
  /\ WF_<<vars, guiVars>>(Window)

-----------------------------------------------------------------------------
(* What should hold.                                                       *)

\* Types, and the child's place in its life as the logger's pc shows it.
GuiTypeOK ==
  /\ window \in {"idle", "closing", "killing", "waiting", "gone"}
  /\ quitting \in BOOLEAN
  /\ mUIState \in {"stopped", "starting", "started"}
  /\ mLH \in {"none", "unusable", "usable"}
  /\ mStarted \in BOOLEAN
  /\ mLinebuf \in Seq(SaidLines) /\ Len(mLinebuf) <= LineBuf
  /\ child \in {"none", "launching", "running", "zombie"}
  /\ readable \in BOOLEAN
  /\ out \in Seq(SaidLines) /\ Len(out) <= PipeSize

\* Whatever the window does to its child, at whatever moment, is something
\* that Logger allows: what is known of the logger is known of it here.
StaysALogger == Spec

\* A window that says it is stopped, and one that is gone, has left no logger
\* behind: none that runs, none that will, and none that is not waited for.
\* So that there are never two of them on one log file.
NoLoggerLeftBehind ==
  (mUIState = "stopped" \/ window = "gone") => pc = "off" /\ child = "none"

\* Stopping returns although the child may be writing to a pipe that is full, or
\* never have come to its loop: unless gpsd has gone or a query of the logger never
\* comes back, when it does not look at the signal and the window hangs with it.
StopReturns ==
  (window \in {"closing", "killing", "waiting"})
    ~> (window \in {"idle", "gone"} \/ gps = "lost" \/ pc = "spin")

\* An empty line at the front of the buffer is never passed.
Stuck == mLinebuf # <<>> /\ Head(mLinebuf) = "blank"

\* "Once logger is running": the first value it says ends "Starting...".
StartingEnds ==
  (window = "idle" /\ mUIState = "starting" /\ Contains(out, "value"))
    ~> (window # "idle" \/ mUIState # "starting" \/ Stuck)

\* The window keeps the pipe from filling up, so that the logger logs on.
PipeIsEmptied ==
  (window = "idle" /\ Len(out) = PipeSize) ~> (window # "idle" \/ Len(out) < PipeSize \/ Stuck)

\* The window reads what its logger says, up to an empty line.
WindowReads == StartingEnds /\ PipeIsEmptied

\* The inductive invariant: each point of the window's and of the child's
\* life with what the other one can be doing then.
GuiInv ==
  /\ (child = "running") = (pc # "off")
  /\ (mLH = "usable") = (child # "none")
  /\ (mUIState = "stopped") = (mLH = "none")
  /\ window \in {"closing", "killing", "waiting"} => mLH = "usable"
  /\ window = "waiting" => child # "launching"
  /\ window = "gone" => mLH # "usable"
=============================================================================
