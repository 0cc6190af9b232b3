----------------------------- MODULE GuiProofs -----------------------------
(***************************************************************************)
(* Theorems about GuiLogger: the window's child is Logger's logger, so     *)
(* that what is proved of it in LoggerSafety holds under the window too;   *)
(* and a window that is stopped has left nothing running.                  *)
(***************************************************************************)
EXTENDS GuiLogger, LoggerSafety, SequenceTheorems, WellFoundedInduction

\* Every step of the composition is a step of the logger or none.
LEMMA GuiSteps == [GuiNext]_<<vars, guiVars>> => [Next]_vars
  <1> SUFFICES ASSUME [GuiNext]_<<vars, guiVars>> PROVE [Next]_vars
    OBVIOUS
  <1>1. CASE Launched
    BY <1>1 DEF Launched, Next
  <1>2. CASE Runs
    <2>1. SpeakingStep \/ SilentStep
      BY <1>2 DEF Runs
    <2> QED
      BY <2>1 DEF SpeakingStep, SilentStep, Next, Step
  <1>3. CASE Exits
    BY <1>3 DEF Exits, Next, Step
  <1>4. CASE SpeaksToNobody
    BY <1>4 DEF SpeaksToNobody, Next
  <1>5. CASE Dies
    BY <1>5 DEF Dies, Next
  <1>6. CASE Disturbed
    BY <1>6 DEF Disturbed, Next, Outside
  <1>7. CASE Window
    BY <1>7 DEF Window, Pulse, NoticeEnd, ClosePipes, Kill, Wait, Next, Outside
  <1>8. CASE Go \/ Stop \/ Quit
    BY <1>8 DEF Go, Stop, Quit
  <1>9. CASE UNCHANGED <<vars, guiVars>>
    BY <1>9
  <1> QED
    BY <1>1, <1>2, <1>3, <1>4, <1>5, <1>6, <1>7, <1>8, <1>9 DEF GuiNext, Child

\* Whatever the window does to its child, and whenever, is something Logger
\* allows (loggerhandler.cpp: fork, kill, the closed pipes).
THEOREM WindowRunsLogger == GuiSpec => StaysALogger
  <1>1. GuiInit => Init
    BY DEF GuiInit
  <1> QED
    BY <1>1, GuiSteps, PTL DEF GuiSpec, StaysALogger, Spec

\* So the file a window's logger writes, stopped by the button, by SIGPIPE or
\* by leaving the window, is the journal that its readers rely on.
THEOREM WindowKeepsJournal == GuiSpec => KeepsJournal
  BY WindowRunsLogger, ImplementsJournal DEF StaysALogger

-----------------------------------------------------------------------------

\* The child's steps while it is in the loop keep it there.
LEMMA StaysInLoop ==
  ASSUME SpeakingStep \/ SilentStep, pc # "off"
  PROVE  pc' # "off"
  <1>1. CASE SpeakingStep
    BY <1>1 DEF SpeakingStep, QueryColumn, RecordSample, RecordNothing, GpsFix,
       GpsReconnect
  <1>2. CASE BeginRound \/ SamplesDone \/ ClockFails \/ DBusStart \/ DBusDone
    BY <1>2 DEF BeginRound, SamplesDone, ClockFails, DBusStart, DBusDone
  <1>3. CASE HonourStart \/ ClearSignal \/ NoStartSignal
    BY <1>3 DEF HonourStart, ClearSignal, NoStartSignal, AfterSignal
  <1>4. CASE QuerySpins \/ QueryDone \/ RecordError \/ KeepTrip \/ GpsNothing
    BY <1>4 DEF QuerySpins, QueryDone, RecordError, KeepTrip, GpsNothing
  <1>5. CASE EndRound \/ Begin \/ Flush
    BY <1>5 DEF EndRound, Begin, Flush
  <1> QED
    BY <1>1, <1>2, <1>3, <1>4, <1>5 DEF SilentStep

\* GuiInv is inductive.
LEMMA GuiInvStep == GuiInv /\ [GuiNext]_<<vars, guiVars>> => GuiInv'
  <1> SUFFICES ASSUME GuiInv, [GuiNext]_<<vars, guiVars>> PROVE GuiInv'
    OBVIOUS
  <1> USE DEF GuiInv
  <1>1. CASE Launched
    <2>1. UNCHANGED windowVars /\ child = "launching"
      BY <1>1 DEF Launched
    <2>2. \/ pc' = "top" /\ child' = "running"
          \/ pc' = pc /\ child' = "zombie"
      BY <1>1 DEF Launched, Start, vars
    <2> QED
      BY <2>1, <2>2 DEF windowVars
  <1>2. CASE Runs
    <2>1. pc # "off" /\ (SpeakingStep \/ SilentStep)
      BY <1>2 DEF Runs
    <2>2. pc' # "off"
      BY <2>1, StaysInLoop
    <2> QED
      BY <1>2, <2>1, <2>2 DEF Runs, windowVars
  <1>3. CASE Exits \/ Dies
    BY <1>3 DEF Exits, Dies, Close, Crash, Gone, windowVars
  <1>4. CASE SpeaksToNobody
    <2>1. UNCHANGED windowVars /\ child' = "zombie" /\ pc' = "off"
      BY <1>4 DEF SpeaksToNobody, Crash, Gone, vars
    <2>2. child \in {"running", "launching"}
      BY <1>4 DEF SpeaksToNobody
    <2> QED
      BY <2>1, <2>2 DEF windowVars
  <1>5. CASE Disturbed
    BY <1>5 DEF Disturbed, SendMessage, GpsdDies, Hold, LetGo, guiVars, windowVars
  <1>6. CASE Pulse \/ NoticeEnd \/ ClosePipes
    BY <1>6 DEF Pulse, ReadPipe, NoticeEnd, ClosePipes, vars
  <1>7. CASE Kill
    <2>1. pc' = pc /\ window = "killing" /\ window' = "waiting"
      BY <1>7 DEF Kill, ExitSignal, vars
    <2>2. \/ child' = child /\ child # "launching"
          \/ child = "launching" /\ child' = "zombie"
      BY <1>7 DEF Kill
    <2> QED
      BY <1>7, <2>1, <2>2 DEF Kill
  <1>8. CASE Wait
    BY <1>8 DEF Wait, vars
  <1>9. CASE Go \/ Stop \/ Quit
    BY <1>9 DEF Go, Stop, Quit, vars
  <1>10. CASE UNCHANGED <<vars, guiVars>>
    BY <1>10 DEF vars, guiVars, windowVars
  <1> QED
    BY <1>1, <1>2, <1>3, <1>4, <1>5, <1>6, <1>7, <1>8, <1>9, <1>10
       DEF GuiNext, Child, Window

\* The window and its child are where GuiInv says, at every moment.
THEOREM WindowInductive == GuiSpec => []GuiInv
  <1>1. GuiInit => GuiInv
    BY DEF GuiInit, Init, GuiInv
  <1> QED
    BY <1>1, GuiInvStep, PTL DEF GuiSpec

\* A window that shows "Go", and one that has been left, has no logger that
\* runs, is about to, or has not been waited for (~loggerhandler, checkLogger).
THEOREM WindowLeavesNothing == GuiSpec => []NoLoggerLeftBehind
  <1>1. GuiInv => NoLoggerLeftBehind
    BY DEF GuiInv, NoLoggerLeftBehind
  <1> QED
    BY <1>1, WindowInductive, PTL

-----------------------------------------------------------------------------
(* Types, and that neither the pipe nor the line buffer is overfull.       *)

\* What has been said stays in bounds: the child waits for room in the pipe.
LEMMA SayTyped ==
  ASSUME GuiTypeOK, NEW line \in SaidLines, Say(line) \/ SayNothing
  PROVE  out' \in Seq(SaidLines) /\ Len(out') <= PipeSize /\ readable' \in BOOLEAN
  <1>1. CASE Say(line)
    <2>1. out' = Append(out, line) /\ readable' = readable /\ Len(out) < PipeSize
      BY <1>1 DEF Say
    <2>2. out' \in Seq(SaidLines) /\ Len(out') = Len(out) + 1
      BY <2>1, AppendProperties DEF GuiTypeOK
    <2>3. Len(out) \in Nat /\ PipeSize \in Nat
      BY GuiAssumption, LenProperties DEF GuiTypeOK
    <2> QED
      BY <2>1, <2>2, <2>3 DEF GuiTypeOK
  <1>2. CASE SayNothing
    BY <1>2 DEF SayNothing, pipeVars, GuiTypeOK
  <1> QED
    BY <1>1, <1>2

LEMMA SpeaksOrNot ==
  SpeakingStep \/ (SilentStep /\ SayNothing) => \E line \in SaidLines : Say(line) \/ SayNothing
  BY DEF SpeakingStep, SaidLines

\* What pulse() leaves in its buffer is the end of what was there.
LEMMA RestOfLines ==
  ASSUME NEW lines \in Seq(SaidLines)
  PROVE  /\ SubSeq(lines, Len(Parsed(lines)) + 1, Len(lines)) \in Seq(SaidLines)
         /\ Len(SubSeq(lines, Len(Parsed(lines)) + 1, Len(lines))) <= Len(lines)
  <1> DEFINE blank == {i \in 1..Len(lines) : lines[i] = "blank"}
  <1>1. Len(lines) \in Nat /\ \A i \in 1..Len(lines) : lines[i] \in SaidLines
    BY LenProperties, ElementOfSeq
  <1>2. \E last \in 0..Len(lines) : Parsed(lines) = SubSeq(lines, 1, last)
    <2>1. CASE Contains(lines, "blank")
      <3>1. blank # {} /\ blank \in SUBSET Nat
        BY <1>1, <2>1 DEF Contains
      <3>2. IsWellFoundedOn(OpToRel(<, Nat), Nat)
        BY NatLessThanWellFounded
      <3>3. PICK x \in blank : \A y \in blank : <<y, x>> \notin OpToRel(<, Nat)
        BY <3>1, <3>2, WFMin
      <3>4. \A y \in blank : x <= y
        <4> TAKE y \in blank
        <4>1. x \in Nat /\ y \in Nat /\ <<y, x>> \in Nat \X Nat
          BY <3>1
        <4>2. ~(y < x)
          BY <3>3, <4>1 DEF OpToRel
        <4> QED
          BY <4>1, <4>2
      <3>5. Min(blank) \in blank
        BY <3>4 DEF Min
      <3>6. SelectInSeq(lines, LAMBDA l : l = "blank") = Min(blank)
        BY <3>1 DEF SelectInSeq
      <3>7. Min(blank) - 1 \in 0..Len(lines)
        BY <1>1, <3>5
      <3> QED
        BY <2>1, <3>6, <3>7 DEF Parsed
    <2>2. CASE ~Contains(lines, "blank")
      BY <1>1, <2>2 DEF Parsed
    <2> QED
      BY <2>1, <2>2
  <1>3. PICK last \in 0..Len(lines) : Parsed(lines) = SubSeq(lines, 1, last)
    BY <1>2
  <1>4. Len(Parsed(lines)) \in Nat
    <2>1. \A i \in 1..last : lines[i] \in SaidLines
      BY <1>1
    <2> QED
      BY <1>3, <2>1, SubSeqProperties, LenProperties
  <1>5. \A i \in Len(Parsed(lines)) + 1 .. Len(lines) : lines[i] \in SaidLines
    BY <1>1, <1>4
  <1>6. /\ SubSeq(lines, Len(Parsed(lines)) + 1, Len(lines)) \in Seq(SaidLines)
        /\ Len(SubSeq(lines, Len(Parsed(lines)) + 1, Len(lines)))
             = IF Len(Parsed(lines)) + 1 <= Len(lines)
                 THEN Len(lines) - (Len(Parsed(lines)) + 1) + 1 ELSE 0
    BY <1>1, <1>4, <1>5, SubSeqProperties
  <1> QED
    BY <1>1, <1>4, <1>6

\* One read() takes what is in the pipe and fits, no more.
LEMMA ReadTyped ==
  ASSUME GuiTypeOK, ReadPipe
  PROVE  /\ out' \in Seq(SaidLines) /\ Len(out') <= PipeSize
         /\ mLinebuf' \in Seq(SaidLines) /\ Len(mLinebuf') <= LineBuf
  <1> DEFINE n == SmallerOf(Len(out), LineBuf - Len(mLinebuf))
             lines == mLinebuf \o SubSeq(out, 1, n)
  <1>1. /\ Len(out) \in Nat /\ Len(mLinebuf) \in Nat /\ PipeSize \in Nat /\ LineBuf \in Nat
        /\ Len(mLinebuf) <= LineBuf /\ Len(out) <= PipeSize
        /\ \A i \in 1..Len(out) : out[i] \in SaidLines
    BY GuiAssumption, LenProperties, ElementOfSeq DEF GuiTypeOK
  <1>2. n \in Nat /\ n <= Len(out) /\ Len(mLinebuf) + n <= LineBuf
    BY <1>1 DEF SmallerOf
  <1> HIDE DEF n
  <1>3. SubSeq(out, 1, n) \in Seq(SaidLines) /\ Len(SubSeq(out, 1, n)) = n
    <2>1. \A i \in 1..n : out[i] \in SaidLines
      BY <1>1, <1>2
    <2> QED
      BY <1>2, <2>1, SubSeqProperties
  <1>4. /\ SubSeq(out, n + 1, Len(out)) \in Seq(SaidLines)
        /\ Len(SubSeq(out, n + 1, Len(out))) <= Len(out)
    <2>1. \A i \in n + 1 .. Len(out) : out[i] \in SaidLines
      BY <1>1, <1>2
    <2>2. /\ SubSeq(out, n + 1, Len(out)) \in Seq(SaidLines)
          /\ Len(SubSeq(out, n + 1, Len(out)))
               = IF n + 1 <= Len(out) THEN Len(out) - (n + 1) + 1 ELSE 0
      BY <1>1, <1>2, <2>1, SubSeqProperties
    <2> QED
      BY <1>1, <1>2, <2>2
  <1>5. lines \in Seq(SaidLines) /\ Len(lines) = Len(mLinebuf) + n
    BY <1>3, ConcatProperties DEF GuiTypeOK
  <1> HIDE DEF lines
  <1>6. /\ out' = SubSeq(out, n + 1, Len(out))
        /\ mLinebuf' = SubSeq(lines, Len(Parsed(lines)) + 1, Len(lines))
    BY DEF ReadPipe, n, lines
  <1>7. mLinebuf' \in Seq(SaidLines) /\ Len(mLinebuf') <= Len(lines) /\ Len(mLinebuf') \in Nat
    BY <1>5, <1>6, RestOfLines, LenProperties
  <1>8. Len(out') <= PipeSize
    <2>1. Len(out') \in Nat /\ Len(out') <= Len(out)
      BY <1>4, <1>6, LenProperties
    <2> QED
      BY <1>1, <2>1
  <1> QED
    BY <1>1, <1>2, <1>4, <1>5, <1>6, <1>7, <1>8

LEMMA EmptyFits ==
  \A s : s = <<>> => s \in Seq(SaidLines) /\ Len(s) <= PipeSize /\ Len(s) <= LineBuf
  <1>1. 0 <= PipeSize /\ 0 <= LineBuf
    BY GuiAssumption
  <1>2. <<>> \in Seq(SaidLines) /\ Len(<<>>) = 0
    BY EmptySeq
  <1> QED
    BY <1>1, <1>2

LEMMA GuiTypeStep == GuiTypeOK /\ [GuiNext]_<<vars, guiVars>> => GuiTypeOK'
  <1> SUFFICES ASSUME GuiTypeOK, [GuiNext]_<<vars, guiVars>> PROVE GuiTypeOK'
    OBVIOUS
  <1>1. ASSUME NEW line \in SaidLines, Say(line) \/ SayNothing, UNCHANGED windowVars,
               child' \in {"none", "launching", "running", "zombie"}
        PROVE  GuiTypeOK'
    <2>1. out' \in Seq(SaidLines) /\ Len(out') <= PipeSize /\ readable' \in BOOLEAN
      BY <1>1, SayTyped
    <2> QED
      BY <1>1, <2>1 DEF GuiTypeOK, windowVars
  <1>2. CASE Launched
    <2>1. \E line \in SaidLines : Say(line) \/ SayNothing
      BY <1>2 DEF Launched, SaidLines
    <2> QED
      BY <1>1, <1>2, <2>1 DEF Launched
  <1>3. CASE Runs
    BY <1>1, <1>3, SpeaksOrNot DEF Runs, guiVars, GuiTypeOK
  <1>4. CASE Exits \/ Dies \/ SpeaksToNobody
    <2>1. child' = "zombie" /\ UNCHANGED <<windowVars, pipeVars>>
      BY <1>4 DEF Exits, Dies, SpeaksToNobody
    <2> QED
      BY <2>1 DEF windowVars, pipeVars, GuiTypeOK
  <1>5. CASE Disturbed \/ UNCHANGED <<vars, guiVars>>
    BY <1>5 DEF Disturbed, guiVars, windowVars, pipeVars, GuiTypeOK
  <1>6. CASE Pulse
    <2>1. /\ out' \in Seq(SaidLines) /\ Len(out') <= PipeSize
          /\ mLinebuf' \in Seq(SaidLines) /\ Len(mLinebuf') <= LineBuf
      BY <1>6, ReadTyped DEF Pulse
    <2>2. UNCHANGED <<window, quitting, mLH, child, readable>>
      BY <1>6 DEF Pulse
    <2>3. mStarted' \in BOOLEAN /\ mUIState' \in {"stopped", "starting", "started"}
      BY <1>6 DEF Pulse, ReadPipe, Contains, GuiTypeOK
    <2> QED
      BY <2>1, <2>2, <2>3 DEF GuiTypeOK
  <1>7. CASE NoticeEnd \/ ClosePipes
    <2>1. out' \in Seq(SaidLines) /\ Len(out') <= PipeSize
      BY <1>7, EmptyFits DEF NoticeEnd, ClosePipes
    <2>2. mLinebuf' = mLinebuf
      BY <1>7 DEF NoticeEnd, ClosePipes
    <2> QED
      BY <1>7, <2>1, <2>2 DEF NoticeEnd, ClosePipes, GuiTypeOK
  <1>8. CASE Stop \/ Quit \/ Wait
    <2>1. out' = out /\ mLinebuf' = mLinebuf
      BY <1>8 DEF Stop, Quit, Wait, pipeVars
    <2> QED
      BY <1>8, <2>1 DEF Stop, Quit, Wait, pipeVars, GuiTypeOK
  <1>9. CASE Kill
    <2>1. /\ window' = "waiting" /\ child' \in {child, "zombie"}
          /\ UNCHANGED <<quitting, mUIState, mLH, mStarted, mLinebuf, pipeVars>>
      BY <1>9 DEF Kill
    <2> QED
      BY <2>1 DEF pipeVars, GuiTypeOK
  <1>10. CASE Go
    <2>1. /\ out' \in Seq(SaidLines) /\ Len(out') <= PipeSize
          /\ mLinebuf' \in Seq(SaidLines) /\ Len(mLinebuf') <= LineBuf
      BY <1>10, EmptyFits DEF Go
    <2> QED
      BY <1>10, <2>1 DEF Go, GuiTypeOK
  <1> QED
    BY <1>2, <1>3, <1>4, <1>5, <1>6, <1>7, <1>8, <1>9, <1>10 DEF GuiNext, Child, Window

\* Every reachable state of the window is well typed, and neither the pipe nor
\* mLinebuf ever holds more than there is room for.
THEOREM WindowTypes == GuiSpec => []GuiTypeOK
  <1>1. GuiInit => GuiTypeOK
    <2>1. GuiInit => /\ out \in Seq(SaidLines) /\ Len(out) <= PipeSize
                     /\ mLinebuf \in Seq(SaidLines) /\ Len(mLinebuf) <= LineBuf
      BY EmptyFits DEF GuiInit
    <2> QED
      BY <2>1 DEF GuiInit, GuiTypeOK
  <1> QED
    BY <1>1, GuiTypeStep, PTL DEF GuiSpec
=============================================================================
