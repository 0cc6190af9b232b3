-------------------------------- MODULE Sim --------------------------------
(***************************************************************************)
(* obdsim, the simulated ELM327 and the ECUs behind it: main_loop(), the   *)
(* freeze frames, the AT commands (sim/mainloop.cc) and the order in which *)
(* the ECUs answer (sim/obdsim.cc).                                        *)
(*                                                                         *)
(* One turn of the loop is idle -> poll -> read [-> answer | ecus -> reply]*)
(* and back.  A generator changes its mind only while it is idle; the      *)
(* client sends any line it likes at any turn.  Characters, the headers'   *)
(* layout and the values of PIDs are left out: a reply is the sequence of  *)
(* who answered, and when, in milliseconds from the request.               *)
(***************************************************************************)
EXTENDS Integers, Sequences, FiniteSets, SequencesExt

CONSTANTS
  EcuCount,         \* ecu_count: generators given on the command line
  Delays,           \* what --customdelay may give, in milliseconds
  Coded,            \* the ECUs whose generator has geterrorcodes
  MaxFrames,        \* OBDSIM_MAXFREEZEFRAMES (5)
  DefaultTimeout,   \* ELM_TIMEOUT (200 ms)
  Lines,            \* the lines the client may send
  MaxCodes,         \* bound: trouble codes of an ECU; nine fit the buffer of mode 03
  MaxLines,         \* bound: lines the client sends
  MaxChanges        \* bound: how often the codes of an ECU change by themselves

Ecus == 1..EcuCount

Flags == {"echo", "linefeed", "headers", "spaces", "dlc"}

AllLines ==
  [cmd : {"blank", "exit", "garbage", "atunknown", "atask", "atreset", "codes",
          "clear", "modeonly", "unknownpid", "othermode"}]
    \cup [cmd : {"atset"}, flag : Flags, on : BOOLEAN]
    \cup [cmd : {"attimeout"}, ms : Nat]
    \cup [cmd : {"frozen"}, frame : Int]       \* %x reads into an int: may be negative
    \cup [cmd : {"live"}, counted : BOOLEAN]   \* counted: a third value is given

ASSUME SimAssumption ==
  /\ EcuCount \in Nat \ {0}
  /\ Delays \subseteq Nat /\ Delays # {}
  /\ Coded \subseteq Ecus
  /\ MaxFrames \in Nat \ {0} /\ DefaultTimeout \in Nat
  /\ Lines \subseteq AllLines
  /\ MaxCodes \in 0..9 /\ MaxLines \in Nat /\ MaxChanges \in Nat

VARIABLES
  pc,            \* "idle", "poll", "read", "answer", "ecus", "reply" or "stopped"
  mustexit, previousline, line,
  flags, e_timeout,           \* of struct simsettings
  portEcho,                   \* mEcho of the port
  customdelay, ecudelays,     \* per ECU; who answers when, as deltas
  lasterrorcount, ffcount, ff,
  \* the request under way
  asked,         \* i, the place in ecudelays
  accumulated, ecu_replycount,
  turns,         \* the ECUs asked: when, and whether they had data
  replies,       \* the other lines of the reply
  waited,        \* milliseconds until the prompt
  \* outside
  codes,         \* trouble codes the generators report now, -1 on error
  lines, changes,
  \* history
  sets,          \* per ECU, one more each time the codes it had are gone
  seen,          \* sets when the ECU was last polled
  missed         \* its codes went and came between two polls, and no poll saw none since

controlVars  == <<pc, mustexit, previousline, line>>
settingVars  == <<flags, e_timeout, portEcho>>
delayVars    == <<customdelay, ecudelays>>
frameVars    == <<lasterrorcount, ffcount, ff, seen, missed>>
replyVars    == <<asked, accumulated, ecu_replycount, turns, replies, waited>>
outsideVars  == <<codes, sets, lines, changes>>
vars == <<controlVars, settingVars, delayVars, frameVars, replyVars, outsideVars>>

NoLine  == [cmd |-> "none"]
Blank   == [cmd |-> "blank"]
Garbage == [cmd |-> "garbage"]   \* also what previousline starts as

\* A frozen frame: the set of codes it belongs to, how many they were, and
\* whether the PID asked about had a value.  All zero until it is stored.
NeverStored == [set |-> 0, codes |-> 0, data |-> FALSE]

\* What is in front of ff and was never a frame.
Stray == [set |-> -1, codes |-> 0, data |-> FALSE]

DefaultFlags == [f \in Flags |-> f \in {"echo", "linefeed", "spaces"}]

\* Lines of a reply that are not a value of mode 01: from the adapter itself (0),
\* or an ECU's codes or frozen frame.
Says(text)          == [ecu |-> 0, says |-> text, frame |-> NeverStored]
SaysCodes(e)        == [ecu |-> e, says |-> "codes", frame |-> NeverStored]
SaysFrame(e, frame) == [ecu |-> e, says |-> "frame", frame |-> frame]

-----------------------------------------------------------------------------
(* The order in which the ECUs answer, once, before the loop.              *)

\* The pairs of places the two loops of the sort compare, in their order.
PlacePairs ==
  SetToSortSeq({p \in Ecus \X Ecus : p[1] < p[2]},
               LAMBDA p, q : p[1] < q[1] \/ (p[1] = q[1] /\ p[2] < q[2]))

\* What the sort does ...
SortPlaces(delay) ==
  LET SwapIfSlower(places, p) ==
        IF delay[places[p[1]]] > delay[places[p[2]]]
          THEN [places EXCEPT ![p[1]] = places[p[2]], ![p[2]] = places[p[1]]]
          ELSE places
  IN  FoldLeft(SwapIfSlower, [i \in Ecus |-> i], PlacePairs)

\* ... and what the loop relies on: who is at which place, the slower later.
SortedPlaces(delay) ==
  {place \in Bijection(Ecus, Ecus) :
     \A i, j \in Ecus : i < j => delay[place[i]] <= delay[place[j]]}

DeltasFromFirst(delay, place) ==
  [i \in Ecus |-> [ecu |-> place[i],
                   delay |-> IF i = 1 THEN delay[place[i]]
                             ELSE delay[place[i]] - delay[place[1]]]]

\* Each delay is counted from the ECU before.
Deltas(delay, place) ==
  [i \in Ecus |-> [ecu |-> place[i],
                   delay |-> IF i = 1 THEN delay[place[i]]
                             ELSE delay[place[i]] - delay[place[i - 1]]]]

Init ==
  /\ pc = "idle" /\ mustexit = FALSE /\ previousline = Garbage /\ line = NoLine
  /\ flags = DefaultFlags /\ e_timeout = DefaultTimeout /\ portEcho = flags["echo"]
  /\ customdelay \in [Ecus -> Delays]
  /\ \E place \in SortedPlaces(customdelay) : ecudelays = Deltas(customdelay, place)
  /\ lasterrorcount = [e \in Ecus |-> 0] /\ ffcount = [e \in Ecus |-> 0]
  /\ ff = [e \in Ecus |-> [f \in 0..MaxFrames - 1 |-> NeverStored]]
  /\ sets = [e \in Ecus |-> 1] /\ seen = sets /\ missed = [e \in Ecus |-> FALSE]
  /\ asked = 0 /\ accumulated = 0 /\ ecu_replycount = 0
  /\ turns = <<>> /\ replies = <<>> /\ waited = 0
  /\ codes = [e \in Ecus |-> 0] /\ lines = 0 /\ changes = 0

-----------------------------------------------------------------------------
(* A turn of the loop up to its line.                                      *)

\* The codes the ECUs E had, if any, are gone.
CodesGo(E) == sets' = [e \in Ecus |-> IF e \in E /\ codes[e] > 0 THEN sets[e] + 1 ELSE sets[e]]

\* What the generators do: the codes of one may change, and within one call those
\* it had may go and others come; one may want to leave (its window was closed,
\* geterrorcodes then reports -1).
GeneratorsRun ==
  \/ UNCHANGED <<mustexit, codes, sets, changes>>
  \/ /\ changes < MaxChanges
     /\ changes' = changes + 1
     /\ \E e \in Coded :
          \/ /\ \E n \in 0..MaxCodes :
                  /\ codes' = [codes EXCEPT ![e] = n]
                  /\ CodesGo({e}) \/ (n > 0 /\ UNCHANGED sets)
             /\ UNCHANGED mustexit
          \/ /\ mustexit' = TRUE
             /\ codes' = [codes EXCEPT ![e] = -1]
             /\ UNCHANGED sets

IdleForever ==
  /\ pc = "idle"
  /\ pc' = "poll"
  /\ GeneratorsRun
  /\ UNCHANGED <<previousline, line, settingVars, delayVars, frameVars, replyVars, lines>>

Idle ==
  /\ pc = "idle" /\ ~mustexit
  /\ pc' = "poll"
  /\ GeneratorsRun
  /\ UNCHANGED <<previousline, line, settingVars, delayVars, frameVars, replyVars, lines>>

DropsNever(e) == FALSE

\* The frames of e are dropped when it has no codes any more.
Drops(e) == e \in Coded /\ codes[e] = 0

FreezesWhenFull(e) == e \in Coded /\ codes[e] \notin {0, lasterrorcount[e]}

FreezesWhenMore(e) ==
  e \in Coded /\ codes[e] > lasterrorcount[e] /\ ffcount[e] < MaxFrames

\* New codes are frozen while there is room.
Freezes(e) ==
  /\ e \in Coded
  /\ codes[e] \notin {0, lasterrorcount[e]}
  /\ ffcount[e] < MaxFrames

NewestFrame(e) == IF ffcount[e] = 0 THEN 0 ELSE ffcount[e] - 1

\* The frame that is free.
FreeFrame(e) == ffcount[e]

\* obdsim_freezeframes() over all ECUs; has says whose PID has a value.
Poll ==
  /\ pc = "poll"
  /\ \E has \in SUBSET {e \in Ecus : Freezes(e)} :
       ff' = [e \in Ecus |->
                IF Freezes(e)
                  THEN [ff[e] EXCEPT ![FreeFrame(e)] =
                          [set |-> sets[e], codes |-> codes[e], data |-> e \in has]]
                  ELSE ff[e]]
  /\ ffcount' = [e \in Ecus |-> IF Drops(e) THEN 0
                                ELSE IF Freezes(e) THEN ffcount[e] + 1 ELSE ffcount[e]]
  /\ lasterrorcount' = [e \in Ecus |-> IF Drops(e) \/ Freezes(e) THEN codes[e]
                                       ELSE lasterrorcount[e]]
  /\ seen' = sets
  /\ missed' = [e \in Ecus |-> /\ ~(e \in Coded /\ codes[e] = 0)
                               /\ missed[e] \/ (ffcount[e] > 0 /\ sets[e] # seen[e])]
  /\ pc' = "read"
  /\ UNCHANGED <<mustexit, previousline, line, settingVars, delayVars, replyVars, outsideVars>>

ReadNothing ==
  /\ pc = "read" /\ pc' = "idle"
  /\ UNCHANGED <<mustexit, previousline, line, settingVars, delayVars, frameVars,
                 replyVars, outsideVars>>

\* A blank line stands for the line before it.
ReadLine ==
  /\ pc = "read" /\ lines < MaxLines
  /\ lines' = lines + 1
  /\ \E l \in Lines :
       /\ line' = IF l = Blank THEN previousline ELSE l
       /\ previousline' = line'
  /\ replies' = <<>> /\ waited' = 0
  /\ IF line'.cmd = "exit"
       THEN pc' = "idle" /\ mustexit' = TRUE
       ELSE /\ pc' = IF line'.cmd = "live" THEN "ecus" ELSE "answer"
            /\ UNCHANGED mustexit
  /\ UNCHANGED <<settingVars, delayVars, frameVars, asked, accumulated,
                 ecu_replycount, turns, codes, sets, changes>>

\* What the loop declares in its body does not outlive a turn.
RequestDone ==
  /\ line' = NoLine /\ turns' = <<>>
  /\ asked' = 0 /\ accumulated' = 0 /\ ecu_replycount' = 0

-----------------------------------------------------------------------------
(* AT commands: nothing to wait for but the pause of a reset, which is not *)
(* counted here.                                                           *)

AtReply(text) ==
  /\ pc = "answer" /\ pc' = "idle"
  /\ replies' = <<Says(text)>>
  /\ RequestDone
  /\ UNCHANGED <<mustexit, previousline, delayVars, frameVars, waited, outsideVars>>

\* ATI, AT@1, ATRV, ATDP, and what sets nothing that is modelled here (ATSP,
\* ATAT, ATCV, AT@3); whatever is not recognised gets a question mark.
AtAsk ==
  /\ line.cmd \in {"atask", "atunknown"}
  /\ AtReply(IF line.cmd = "atask" THEN "text" ELSE "?")
  /\ UNCHANGED settingVars

\* ATE, ATL, ATH, ATS, ATD with a digit
AtSet ==
  /\ line.cmd = "atset"
  /\ AtReply("OK")
  /\ flags' = [flags EXCEPT ![line.flag] = line.on]
  /\ portEcho' = IF line.flag = "echo" THEN line.on ELSE portEcho
  /\ UNCHANGED e_timeout

\* ATST: four milliseconds a step, 00 for the default
AtTimeout ==
  /\ line.cmd = "attimeout"
  /\ AtReply("OK")
  /\ e_timeout' = IF line.ms = 0 THEN DefaultTimeout ELSE line.ms
  /\ UNCHANGED <<flags, portEcho>>

\* ATZ, ATWS, ATD
AtReset ==
  /\ line.cmd = "atreset"
  /\ AtReply("text")
  /\ flags' = DefaultFlags /\ e_timeout' = DefaultTimeout
  /\ portEcho' = flags'["echo"]

-----------------------------------------------------------------------------
(* OBD requests.                                                           *)

Answer(rs) ==
  /\ pc = "answer" /\ pc' = "reply"
  /\ replies' = rs
  /\ UNCHANGED <<mustexit, previousline, line, settingVars, delayVars, frameVars,
                 asked, accumulated, ecu_replycount, turns, waited, lines, changes>>

\* Mode 03 and 07: three codes a line, nothing from an ECU without codes.
CodeLines(e) ==
  IF e \in Coded /\ codes[e] > 0
    THEN [j \in 1..((codes[e] + 2) \div 3) |-> SaysCodes(e)]
    ELSE <<>>

AnswerCodes ==
  /\ line.cmd = "codes"
  /\ Answer(FlattenSeq([e \in Ecus |-> CodeLines(e)]))
  /\ UNCHANGED <<codes, sets>>

\* Mode 04: what a generator makes of it is its own affair, and so is whether
\* it succeeds; the frames stay until the next poll.
AnswerClear ==
  /\ line.cmd = "clear"
  /\ Answer(<<Says("OK")>>)
  /\ \E cleared \in SUBSET Coded :
       /\ codes' = [e \in Ecus |-> IF e \in cleared THEN 0 ELSE codes[e]]
       /\ CodesGo(cleared)

ServesStored(e, frame) == frame < MaxFrames

\* Mode 02: an ECU tells the frame with this number if it has come so far.  Both
\* tests are from above: they let a negative number through.
Serves(e, frame) == frame < MaxFrames /\ frame <= ffcount[e]

\* The frame of that number; for a negative one, whatever is in front of ff, a
\* value for the ECUs in strays and none for the others.
FrameAt(e, frame, strays) ==
  IF frame < 0 THEN [Stray EXCEPT !.data = e \in strays] ELSE ff[e][frame]

FrozenLines(e, strays) ==
  IF Serves(e, line.frame) /\ FrameAt(e, line.frame, strays).data
    THEN <<SaysFrame(e, FrameAt(e, line.frame, strays))>>
    ELSE <<>>

AnswerFrozen ==
  /\ line.cmd = "frozen"
  /\ \E strays \in {S \in SUBSET Ecus : line.frame < 0 \/ S = {}} :
       Answer(FlattenSeq([e \in Ecus |-> FrozenLines(e, strays)]))
  /\ UNCHANGED <<codes, sets>>

\* A number far enough below zero is no place of the program at all.
AnswerFaults ==
  /\ pc = "answer" /\ line.cmd = "frozen" /\ line.frame < 0
  /\ pc' = "stopped"
  /\ UNCHANGED <<mustexit, previousline, line, settingVars, delayVars, frameVars,
                 replyVars, outsideVars>>

\* A line that does not parse, a mode or a PID that is not known; another mode
\* with a known PID gets no lines.
AnswerOther ==
  /\ line.cmd \in {"garbage", "modeonly", "unknownpid", "othermode"}
  /\ Answer(IF line.cmd = "othermode" THEN <<>> ELSE <<Says("?")>>)
  /\ UNCHANGED <<codes, sets>>

TimesOutAlone(i) == ecudelays[i].delay > e_timeout

TimesOut(i) == accumulated + ecudelays[i].delay > e_timeout

\* Mode 01: the ECU at place i is left out when it would be too late ...
SkipEcu ==
  /\ pc = "ecus" /\ asked < EcuCount /\ TimesOut(asked + 1)
  /\ asked' = asked + 1
  /\ UNCHANGED <<controlVars, settingVars, delayVars, frameVars, accumulated,
                 ecu_replycount, turns, replies, waited, outsideVars>>

\* ... and is waited for otherwise.  It may have no value for the PID, or a
\* generator that cannot go on, which ends the request.
AskEcu ==
  /\ pc = "ecus" /\ asked < EcuCount /\ ~TimesOut(asked + 1)
  /\ asked' = asked + 1
  /\ accumulated' = accumulated + ecudelays[asked + 1].delay
  /\ ecu_replycount' = ecu_replycount + 1
  /\ \/ /\ \E has \in BOOLEAN :
             turns' = Append(turns, [ecu |-> ecudelays[asked + 1].ecu,
                                     at |-> accumulated', data |-> has])
        /\ UNCHANGED <<pc, mustexit>>
     \/ /\ mustexit' = TRUE /\ pc' = "reply"
        /\ UNCHANGED turns
  /\ UNCHANGED <<previousline, line, settingVars, delayVars, frameVars, replies,
                 waited, outsideVars>>

AllAsked ==
  /\ pc = "ecus" /\ asked = EcuCount
  /\ pc' = "reply"
  /\ UNCHANGED <<mustexit, previousline, line, settingVars, delayVars, frameVars,
                 replyVars, outsideVars>>

\* The rest of the timeout, unless every ECU has replied and the client said
\* how many it expects; NO DATA if there is nothing else; the prompt.
WaitsOut ==
  ecu_replycount < EcuCount \/ (line.cmd = "live" /\ ~line.counted)

HasReply == replies # <<>> \/ \E i \in DOMAIN turns : turns[i].data

Reply ==
  /\ pc = "reply" /\ pc' = "idle"
  /\ waited' = IF WaitsOut THEN accumulated + (e_timeout - accumulated)
                           ELSE accumulated
  /\ replies' = IF HasReply THEN replies ELSE <<Says("NO DATA")>>
  /\ RequestDone
  /\ UNCHANGED <<mustexit, previousline, settingVars, delayVars, frameVars, outsideVars>>

Stop ==
  /\ pc = "idle" /\ mustexit
  /\ pc' = "stopped"
  /\ UNCHANGED <<mustexit, previousline, line, settingVars, delayVars, frameVars,
                 replyVars, outsideVars>>

Next ==
  \/ Idle \/ Poll \/ ReadNothing \/ ReadLine
  \/ AtAsk \/ AtSet \/ AtTimeout \/ AtReset
  \/ AnswerCodes \/ AnswerClear \/ AnswerFrozen \/ AnswerFaults
  \/ AnswerOther
  \/ SkipEcu \/ AskEcu \/ AllAsked \/ Reply \/ Stop

Spec == Init /\ [][Next]_vars

\* The loop is scheduled, and nothing in it blocks: the port is read without
\* waiting and every select() has a timeout.
FairSpec == Spec /\ WF_vars(Next)

-----------------------------------------------------------------------------
(* Properties.                                                             *)

Frames == [set : Nat, codes : Int, data : BOOLEAN]

ControlTypes ==
  /\ pc \in {"idle", "poll", "read", "answer", "ecus", "reply", "stopped"}
  /\ mustexit \in BOOLEAN
  /\ previousline \in Lines \cup {Garbage} /\ line \in Lines \cup {Garbage, NoLine}

SettingTypes == flags \in [Flags -> BOOLEAN] /\ e_timeout \in Nat /\ portEcho \in BOOLEAN

DelayTypes ==
  /\ customdelay \in [Ecus -> Delays]
  /\ ecudelays \in [Ecus -> [ecu : Ecus, delay : Nat]]

FrameTypes ==
  /\ lasterrorcount \in [Ecus -> -1..MaxCodes]
  /\ ffcount \in [Ecus -> 0..MaxFrames]
  /\ ff \in [Ecus -> [0..MaxFrames - 1 -> Frames]]
  /\ seen \in [Ecus -> Nat] /\ missed \in [Ecus -> BOOLEAN]

RequestTypes ==
  /\ asked \in 0..EcuCount /\ accumulated \in Nat /\ ecu_replycount \in 0..asked
  /\ turns \in Seq([ecu : Ecus, at : Nat, data : BOOLEAN])
  /\ waited \in Nat

OutsideTypes ==
  /\ codes \in [Ecus -> -1..MaxCodes] /\ sets \in [Ecus -> Nat]
  /\ lines \in 0..MaxLines /\ changes \in 0..MaxChanges

\* Every variable has its type; in particular no frame is ever counted that has
\* no place in ff, which a request for it would read (obdsim_freezeframes).
TypeOK ==
  /\ ControlTypes /\ SettingTypes /\ DelayTypes
  /\ FrameTypes /\ RequestTypes /\ OutsideTypes

\* The counted frames of an ECU all belong to the codes it had at the last poll,
\* each was frozen because their number had changed, and the newest tells the
\* number the poll last acted on (obdsim_freezeframes).  The polls see numbers
\* only: codes that went and came back between two of them leave the frames of
\* those that went, and missed says for which ECUs that is so.
FramesTellTheCodes ==
  \A e \in Ecus :
    /\ \A f \in 0..ffcount[e] - 1 :
         /\ ff[e][f].set = seen[e] \/ missed[e]
         /\ ff[e][f].codes # 0
         /\ f > 0 => ff[e][f].codes # ff[e][f - 1].codes
    /\ lasterrorcount[e] = IF ffcount[e] = 0 THEN 0 ELSE ff[e][ffcount[e] - 1].codes

\* When the client's line is read, an ECU that has codes has a frame for them:
\* no change of their number goes unnoticed while there is room.
CodesAreFrozen ==
  pc = "read" =>
    \A e \in Coded :
      codes[e] # 0 => \/ ffcount[e] = MaxFrames
                      \/ ffcount[e] > 0 /\ ff[e][ffcount[e] - 1].codes = codes[e]

\* A frame that is counted is never overwritten: the client that asks for it
\* twice is told the same, until the codes are cleared.
FrozenStaysFrozen ==
  [][\A e \in Ecus : \A f \in 0..ffcount[e] - 1 : ff'[e][f] = ff[e][f]]_vars

\* No request takes longer than the timeout (ATST), however many ECUs there are
\* and however slow they are (main_loop).
PromptInTime == accumulated <= e_timeout /\ waited <= e_timeout

\* An ECU whose delay is within the timeout is asked, once, and after exactly
\* its delay, whatever the delays of the others: the sort, the deltas and the
\* skipping of slow ECUs agree (ecudelay_order and main_loop).  Of the slow ones
\* themselves, which may be asked too early, it says nothing (AskedWhenDue).
EarlyEcusAsked ==
  pc = "reply" /\ line.cmd = "live" /\ ~mustexit =>
    \A e \in Ecus : customdelay[e] <= e_timeout =>
      \E i \in DOMAIN turns :
        /\ turns[i].ecu = e /\ turns[i].at = customdelay[e]
        /\ \A j \in DOMAIN turns : turns[j].ecu = e => j = i

\* Told to leave, by EXIT, by a generator or by a value that cannot be had, the
\* simulator leaves, whatever it is doing.
LeavesWhenTold == mustexit ~> pc = "stopped"

\* A frame that is told in mode 02 is one of the codes the ECU had when the line
\* was read, with three exceptions, each by its own cause: codes that went and
\* came back unseen, a number one too high (ServedFramesAreCounted), and a
\* negative one (main_loop).
ServedFramesAreCurrent ==
  pc = "reply" =>
    \A i \in DOMAIN replies : replies[i].says = "frame" =>
      \/ replies[i].frame.set = seen[replies[i].ecu]
      \/ missed[replies[i].ecu]
      \/ line.frame = ffcount[replies[i].ecu]
      \/ line.frame < 0

\* obdsim.h calls ffcount the "Current number of frozen frames", and frames count
\* from 0: no frame is told that is not counted.  main_loop compares with <=.
ServedFramesAreCounted ==
  pc = "reply" =>
    \A i \in DOMAIN replies : replies[i].says = "frame" /\ line.frame >= 0 =>
      line.frame < ffcount[replies[i].ecu]

\* "This ECU takes this long to respond, ms" (obdsim.h, of customdelay): whoever is
\* asked is asked that long after the request.  The delta of an ECU that is left
\* out is not counted for those behind it (main_loop).
AskedWhenDue == \A i \in DOMAIN turns : turns[i].at = customdelay[turns[i].ecu]

\* A frame is frozen for new codes only: "Getting here means there's some new
\* errors" (obdsim_freezeframes).  Codes of which some go bring the poll there too.
FramesForNewErrors ==
  [][\A e \in Coded : ffcount'[e] > ffcount[e] /\ codes[e] > 0 =>
       codes[e] > lasterrorcount[e] \/ sets[e] # seen[e]]_vars

\* What the proofs are by.  The ECUs are in the order of their delays:
OrderInv ==
  \E place \in SortedPlaces(customdelay) : ecudelays = Deltas(customdelay, place)

\* a request is timed from nothing on;
TimeInv ==
  /\ accumulated <= e_timeout /\ waited <= e_timeout
  /\ pc \notin {"ecus", "reply"} => accumulated = 0 /\ asked = 0 /\ turns = <<>>
  /\ pc \in {"answer", "ecus", "reply"} => waited = 0

\* of the ECUs considered so far, those in time were asked on time, and when the
\* last one was in time it is the one the accumulated time stands at;
AskedOnTime(i) ==
  customdelay[ecudelays[i].ecu] <= e_timeout =>
    /\ \E t \in DOMAIN turns : /\ turns[t].ecu = ecudelays[i].ecu
                               /\ turns[t].at = customdelay[ecudelays[i].ecu]
    /\ i = asked => accumulated = customdelay[ecudelays[i].ecu]

AskingOrAsked == pc = "ecus" \/ (pc = "reply" /\ line.cmd = "live" /\ ~mustexit)

TurnsInv ==
  /\ AskingOrAsked => \A i \in 1..asked : AskedOnTime(i)
  /\ AskingOrAsked /\ pc = "reply" => asked = EcuCount
  /\ \A t \in DOMAIN turns : \E i \in 1..asked : turns[t].ecu = ecudelays[i].ecu
  /\ \A t, u \in DOMAIN turns : turns[t].ecu = turns[u].ecu => t = u
  /\ asked = 0 => accumulated = 0

\* and the port echoes what the settings say.
EchoInv == portEcho = flags["echo"]

\* A request for values starts with no lines, and adds none that tell a frame.
ServesInv == ServedFramesAreCurrent /\ (pc = "ecus" => replies = <<>>)

SimInv == /\ TypeOK /\ FramesTellTheCodes /\ OrderInv
          /\ TimeInv /\ TurnsInv /\ EchoInv
=============================================================================
