------------------------------ MODULE ElmLink ------------------------------
(***************************************************************************)
(* The exchange between the logger and its ELM327 adapter: opening the     *)
(* port, asking the car what it can tell, then round after round of one    *)
(* value per column (obdcomm/obdserial.c, obdcomm/supportedcommands.c and  *)
(* the loop of logger/main.c that calls them).                             *)
(*                                                                         *)
(* Requests carry no identifier.  The program writes one, reads until what *)
(* it has ends in a prompt, and gives up after OBDCOMM_TIMEOUT; the answer *)
(* it gave up on still comes, and the next read finds it.  The line keeps  *)
(* order and loses nothing, but it may hold anything back: a read returns  *)
(* any prefix of what is on its way.                                       *)
(*                                                                         *)
(* Characters are left out.  A reply is a sequence of tokens, its lines    *)
(* and its prompt:                                                         *)
(*   value   a line with mode and PID that parse, numbered by its request; *)
(*   text    a line that does not parse: a version, an echoed command;     *)
(*   short   a line of at most three characters: OK, an echoed ATZ;        *)
(*   nodata  NO DATA, UNABLE TO CONNECT, or ?                              *)
(* The bitmap in the reply to PID 0, 0x20, ... is what the car claims.     *)
(* The baud rate and lines joined by colons are not modelled.              *)
(***************************************************************************)
EXTENDS Integers, Sequences, FiniteSets, SequencesExt

CONSTANTS
  Cars,          \* records [claims, answers]: PIDs in its bitmaps, PIDs it answers
  Wishlist,      \* PIDs the user asked for (all of them by default)
  Named,         \* PIDs that have a column in obdcmds_mode1
  PidsPerMap,    \* PIDs in one bitmap (0x20)
  LastGuess,     \* the last PID asked for when guessing (0x51)
  MaxRounds,     \* bound: rounds of the main loop (the -c option)
  MaxRefusals    \* bound: how often the car has no data for a PID it answers

ASSUME LinkAssumption ==
  /\ \A car \in Cars : car.claims \subseteq Nat \ {0} /\ car.answers \subseteq Nat
  /\ Wishlist \subseteq Nat \ {0} /\ Named \subseteq Nat \ {0}
  /\ PidsPerMap \in Nat \ {0} /\ LastGuess \in Nat
  /\ MaxRounds \in Nat /\ MaxRefusals \in Nat

VARIABLES
  \* the program
  phase,        \* "open", "caps", "guess", "round" or "closed"
  pos,          \* the command of Startup, bitmap or guessed PID that is next; in
                \* a round, the column queried last
  io,           \* the request under way: none, reading, its reply or its failure
  buf,          \* retbuf
  sent,         \* requests written so far
  caps,         \* the list of struct obdcapabilities
  row, rows,    \* values bound in this round, and the rows of full rounds
  rounds,
  \* the line, the adapter and the car
  toAdapter, toPc, echo, partial, plugged, car,
  \* what went wrong, for the properties
  timeouts, leftover, refusals

progVars == <<phase, pos, caps, row, rows, rounds>>
ioVars   == <<io, buf, sent>>
elmVars  == <<echo, partial, plugged, car>>
oddVars  == <<timeouts, leftover, refusals>>
vars == <<progVars, ioVars, toAdapter, toPc, elmVars, oddVars>>

\* Commands: a PID of mode 1, or one of these.
ATZ     == -1
ATE0    == -2
ATset   == -3
Garbled == -4

\* openserial() after the baud rate: reset, a partly written command flushed
\* by 0100, echo off, linefeeds and spaces off (ATL0, ATS0), 0100 again.
Startup == <<ATZ, 0, ATE0, ATset, ATset, 0>>

Line(kind, pid, n) == [kind |-> kind, pid |-> pid, n |-> n]
Prompt(n) == Line("prompt", 0, n)

Least(S) == CHOOSE x \in S : \A y \in S : x <= y

-----------------------------------------------------------------------------
(* Parsing a reply: getobdbytes() from the first strstr on.                *)

IsAnswerAnyPid(t, pid) == t.kind = "value"

IsAnswer(t, pid) == t.kind = "value" /\ t.pid = pid

NoData == \E i \in DOMAIN buf : buf[i].kind = "nodata"

NoLines == \A i \in DOMAIN buf : buf[i].kind = "prompt"

Answers(pid) == {i \in DOMAIN buf : IsAnswer(buf[i], pid)}

\* `continue` does not move on from a short line: the loop never ends.
Spins(pid) ==
  ~NoData /\ \E i \in DOMAIN buf :
    buf[i].kind = "short" /\ \A j \in Answers(pid) : i < j

Status(pid) ==
  IF io = "failed" \/ NoLines THEN "error"
  ELSE IF ~NoData /\ Answers(pid) # {} THEN "success"
  ELSE "nodata"

\* The first line that parses as an answer.
Answer(pid) == buf[Least(Answers(pid))]

-----------------------------------------------------------------------------
(* The capabilities.                                                       *)

\* The members of S in their order, as the loop over a bitmap comes to them.
Ascending(S) ==
  CHOOSE s \in [1..Cardinality(S) -> S] :
    ToSet(s) = S /\ \A i, j \in DOMAIN s : i < j => s[i] < s[j]

\* The bits of one bitmap: PID map+1 is the highest.
MapPidsBothEnds(map) == map .. map + PidsPerMap

MapPids(map) == map + 1 .. map + PidsPerMap

Claimed(map) == car.claims \cap MapPids(map)

\* isobdcapabilitysupported: the search stops at the first greater PID.
IsSupported(pid) ==
  \E i \in DOMAIN caps : caps[i] = pid /\ \A j \in 1..i : caps[j] <= pid

\* cmdlist of main(), which goes through obdcmds_mode1 in the order of PIDs.
Columns == {pid \in Named : IsSupported(pid)}

ColumnsAfter(pid) == {q \in Columns : q > pid}

\* The command the program is about to write, or has written.
Cmd == CASE phase = "open"  -> Startup[pos]
         [] phase = "caps"  -> pos
         [] phase = "guess" -> pos
         [] phase = "round" -> Least(ColumnsAfter(pos))

\* A round of main() ends, or a phase goes on to the rounds.
NextRound ==
  /\ phase' = "round" /\ pos' = 0 /\ row' = <<>>

-----------------------------------------------------------------------------
(* The program.                                                            *)

Init ==
  /\ phase = "open" /\ pos = 1 /\ caps = <<0>> /\ row = <<>> /\ rows = {} /\ rounds = 0
  /\ io = "none" /\ buf = <<>> /\ sent = 0
  /\ toAdapter = <<>>
  \* closeserial() of an earlier run does not wait for the reply to its ATZ
  /\ \/ leftover = 0 /\ toPc = <<>>
     \/ leftover = 1 /\ toPc = <<Line("text", 0, 0), Prompt(0)>>
  /\ echo \in BOOLEAN /\ partial \in BOOLEAN /\ plugged = TRUE /\ car \in Cars
  /\ timeouts = 0 /\ refusals = 0

AskingOnceMore == \/ phase \in {"open", "caps", "guess"}
                  \/ phase = "round" /\ rounds <= MaxRounds /\ Columns # {}

Asking == \/ phase \in {"open", "caps", "guess"}
          \/ phase = "round" /\ rounds < MaxRounds /\ Columns # {}

Send ==
  /\ io = "none" /\ Asking
  /\ sent' = sent + 1
  /\ toAdapter' = Append(toAdapter, [cmd |-> Cmd, n |-> sent'])
  /\ io' = "reading" /\ buf' = <<>>
  /\ UNCHANGED <<progVars, toPc, elmVars, oddVars>>

\* The write fails once the device is gone; blindcmd() reads all the same.
SendFails ==
  /\ io = "none" /\ Asking /\ ~plugged
  /\ io' = IF phase = "open" THEN "reading" ELSE "failed"
  /\ buf' = <<>>
  /\ UNCHANGED <<progVars, sent, toAdapter, toPc, elmVars, oddVars>>

\* A read that stops at any prompt, not only at one that is the last it has.
ReadStopsAnywhere ==
  /\ io = "reading"
  /\ \E k \in 1..Len(toPc) :
       /\ buf' = buf \o SubSeq(toPc, 1, k)
       /\ toPc' = SubSeq(toPc, k + 1, Len(toPc))
       /\ io' = "reply"
  /\ UNCHANGED <<progVars, sent, toAdapter, elmVars, oddVars>>

\* One read() of readserialdata, and whether it ends the reading.
Read ==
  /\ io = "reading"
  /\ \E k \in 1..Len(toPc) :
       /\ buf' = buf \o SubSeq(toPc, 1, k)
       /\ toPc' = SubSeq(toPc, k + 1, Len(toPc))
       /\ io' = IF toPc[k].kind = "prompt" THEN "reply" ELSE "reading"
  /\ UNCHANGED <<progVars, sent, toAdapter, elmVars, oddVars>>

\* The clock is looked at after each read, of something or of nothing: what
\* that read returned is lost, even if it ended in a prompt.
TimeOutOnlyAfterData ==
  /\ io = "reading"
  /\ \E k \in 1..Len(toPc) : toPc' = SubSeq(toPc, k + 1, Len(toPc))
  /\ io' = "failed" /\ buf' = <<>>
  /\ timeouts' = timeouts + 1
  /\ UNCHANGED <<progVars, sent, toAdapter, elmVars, leftover, refusals>>

TimeOut ==
  /\ io = "reading"
  /\ \E k \in 0..Len(toPc) : toPc' = SubSeq(toPc, k + 1, Len(toPc))
  /\ io' = "failed" /\ buf' = <<>>
  /\ timeouts' = timeouts + 1
  /\ UNCHANGED <<progVars, sent, toAdapter, elmVars, leftover, refusals>>

Finished == io \in {"reply", "failed"}

Done == io' = "none" /\ buf' = <<>> /\ UNCHANGED <<sent, toAdapter, toPc, elmVars, oddVars>>

\* blindcmd(): whatever came of it, on to the next.
Opened ==
  /\ phase = "open" /\ Finished
  /\ IF pos < Len(Startup) THEN pos' = pos + 1 /\ UNCHANGED phase
                           ELSE pos' = 0 /\ phase' = "caps"
  /\ Done
  /\ UNCHANGED <<caps, row, rows, rounds>>

\* One bitmap of getobdcapabilities().  A car that claims nothing at all is
\* asked PID by PID; a failure keeps what has been found.
GotMap ==
  /\ phase = "caps" /\ Finished /\ ~Spins(pos)
  /\ IF Status(pos) # "success" THEN NextRound /\ UNCHANGED caps
     ELSE IF pos = 0 /\ Claimed(0) = {}
     THEN phase' = "guess" /\ pos' = 1 /\ UNCHANGED <<caps, row>>
     ELSE /\ caps' = caps \o Ascending(Claimed(pos) \cap Wishlist)
          /\ IF pos + PidsPerMap \in car.claims
             THEN pos' = pos + PidsPerMap /\ UNCHANGED <<phase, row>>
             ELSE NextRound
  /\ Done
  /\ UNCHANGED <<rows, rounds>>

\* One PID of getobdcapabilities_guess(); a failure is not looked at.
GotGuess ==
  /\ phase = "guess" /\ Finished /\ ~Spins(pos)
  /\ caps' = IF Status(pos) = "success" /\ pos \in Wishlist THEN Append(caps, pos) ELSE caps
  /\ IF pos < LastGuess THEN pos' = pos + 1 /\ UNCHANGED <<phase, row>>
                        ELSE NextRound
  /\ Done
  /\ UNCHANGED <<rows, rounds>>

\* One column of a round: no data ends the round, a failure the rounds.
GotValue ==
  /\ phase = "round" /\ Finished /\ ~Spins(Cmd)
  /\ CASE Status(Cmd) = "error" ->
            NextRound /\ rounds' = MaxRounds /\ UNCHANGED rows
       [] Status(Cmd) = "nodata" ->
            NextRound /\ rounds' = rounds + 1 /\ UNCHANGED rows
       [] Status(Cmd) = "success" ->
            LET bound == Append(row, [pid |-> Cmd, by |-> sent, got |-> Answer(Cmd)])
            IN IF ColumnsAfter(Cmd) # {}
               THEN pos' = Cmd /\ row' = bound /\ UNCHANGED <<phase, rows, rounds>>
               ELSE NextRound /\ rounds' = rounds + 1 /\ rows' = rows \cup {bound}
  /\ Done
  /\ UNCHANGED caps

\* closeserial(): ATZ, and no wait for its reply.
Close ==
  /\ phase = "round" /\ io = "none" /\ ~Asking
  /\ phase' = "closed"
  /\ sent' = sent + 1
  /\ toAdapter' = Append(toAdapter, [cmd |-> ATZ, n |-> sent'])
  /\ UNCHANGED <<pos, caps, row, rows, rounds, io, buf, toPc, elmVars, oddVars>>

-----------------------------------------------------------------------------
(* The adapter, external: it answers in the order of the requests.         *)

Echo(cmd, n) ==
  IF ~echo THEN <<>> ELSE <<Line(IF cmd = ATZ THEN "short" ELSE "text", 0, n)>>

Body(cmd, n) ==
  CASE cmd = ATZ             -> {Line("text", 0, n)}
    [] cmd \in {ATE0, ATset} -> {Line("short", 0, n)}
    [] cmd = Garbled         -> {Line("nodata", 0, n)}
    [] OTHER -> (IF cmd \in car.answers THEN {Line("value", cmd, n)} ELSE {})
                  \cup (IF cmd \notin car.answers \/ refusals < MaxRefusals
                        THEN {Line("nodata", 0, n)} ELSE {})

Reply(cmd, n, line) == Echo(cmd, n) \o <<line, Prompt(n)>>

Respond ==
  /\ plugged /\ toAdapter # <<>>
  /\ LET n == Head(toAdapter).n
         cmd == IF partial THEN Garbled ELSE Head(toAdapter).cmd
     IN /\ \E line \in Body(cmd, n) :
             /\ toPc' = toPc \o Reply(cmd, n, line)
             /\ refusals' = IF cmd \in car.answers /\ line.kind = "nodata"
                            THEN refusals + 1 ELSE refusals
        /\ echo' = (cmd = ATZ \/ (echo /\ cmd # ATE0))
  /\ toAdapter' = Tail(toAdapter)
  /\ partial' = FALSE
  /\ UNCHANGED <<progVars, ioVars, plugged, car, timeouts, leftover>>

Unplug ==
  /\ plugged
  /\ plugged' = FALSE
  /\ UNCHANGED <<progVars, ioVars, toAdapter, toPc, echo, partial, car, oddVars>>

Program == \/ Send \/ SendFails \/ Read \/ TimeOut
           \/ Opened \/ GotMap \/ GotGuess \/ GotValue \/ Close

Next == Program \/ Respond \/ Unplug

Spec == Init /\ [][Next]_vars

\* The loop of readserialdata ends, at the latest, when it looks at the clock.
FairSpec == Spec /\ WF_vars(Program)

-----------------------------------------------------------------------------
(* What should hold.                                                       *)

Kinds == {"value", "text", "short", "nodata", "prompt"}
Tokens == [kind : Kinds, pid : Nat, n : Nat]
Requests == [cmd : -4..-1 \cup Nat, n : Nat]
Cells == [pid : Nat, by : Nat, got : Tokens]

ExchangeTypeOK ==
  /\ phase \in {"open", "caps", "guess", "round", "closed"} /\ pos \in Nat
  /\ phase = "open" => pos \in DOMAIN Startup
  /\ io \in {"none", "reading", "reply", "failed"}
  /\ buf \in Seq(Tokens) /\ toPc \in Seq(Tokens)
  /\ sent \in Nat /\ rounds \in 0..MaxRounds
  /\ row \in Seq(Cells) /\ rows \subseteq Seq(Cells)
  /\ toAdapter \in Seq(Requests)
  /\ echo \in BOOLEAN /\ partial \in BOOLEAN /\ plugged \in BOOLEAN /\ car \in Cars
  /\ timeouts \in Nat /\ leftover \in {0, 1} /\ refusals \in 0..MaxRefusals

\* Types of every variable.
TypeOK == ExchangeTypeOK /\ caps \in Seq(Nat)

\* getobdvalue never takes the late reply to one command for the value of
\* another: a row has the car's answer for each column and nothing else.
RowsOfTheirPids ==
  \A r \in rows :
    /\ \A i \in DOMAIN r : r[i].got.pid = r[i].pid
    /\ {r[i].pid : i \in DOMAIN r} = Columns

\* A reply is behind its request by no more requests than reads have timed
\* out since the port was opened, plus the reply an earlier run left.
AgeBounded ==
  \A r \in rows : \A i \in DOMAIN r : r[i].by - r[i].got.n <= timeouts + leftover

\* "They're stored in order": the list ascends, so that the early exit of
\* isobdcapabilitysupported finds every PID of it.
CapsInOrder ==
  \A i, j \in DOMAIN caps : i < j => caps[i] < caps[j]

\* The program logs no column the car did not claim or answer.
CapsOfTheCar ==
  \A i \in DOMAIN caps : caps[i] \in {0} \cup (Wishlist \cap (car.claims \cup car.answers))

\* When nothing was late or refused, every wished PID of the car's chain of
\* bitmaps is logged, or every one it answers if it claims none.
Reachable == {pid \in car.claims :
                \A m \in 1..pid - 1 : m % PidsPerMap = 0 => m \in car.claims /\ m \in car.answers}

Expected == IF Claimed(0) = {} THEN car.answers \cap 1..LastGuess ELSE Reachable

Undisturbed == plugged /\ timeouts = 0 /\ leftover = 0 /\ refusals = 0

CapsComplete ==
  phase \in {"round", "closed"} /\ Undisturbed /\ 0 \in car.answers
    => Expected \cap Wishlist \subseteq ToSet(caps)

\* The capabilities are a list that can be searched, of this car, and all of it.
CapabilitiesRight == CapsInOrder /\ CapsOfTheCar /\ CapsComplete

\* Reading ends, whatever the adapter does.
ReadingEnds == io = "reading" ~> io # "reading"

\* "We gracefully handle these lines": whatever lines a reply has, the
\* program goes on from it.
ShortLinesHandled == Finished ~> io = "none"

-----------------------------------------------------------------------------
(* The inductive invariant behind RowsOfTheirPids and AgeBounded.          *)

Debt == timeouts + leftover

\* Replies come in the order of their requests, a prompt after its lines.
OrderInv ==
  /\ \A i \in DOMAIN toPc : toPc[i].n <= sent
  /\ \A i, j \in DOMAIN toPc : i < j =>
       toPc[i].n <= toPc[j].n /\ (toPc[i].kind = "prompt" => toPc[i].n < toPc[j].n)
  /\ \A i \in DOMAIN toAdapter : toAdapter[i].n <= sent
  /\ \A i \in DOMAIN toPc : \A j \in DOMAIN toAdapter : toPc[i].n < toAdapter[j].n
  /\ \A i, j \in DOMAIN toAdapter : i < j => toAdapter[i].n < toAdapter[j].n

\* The oldest request whose prompt may not have been read yet.
Oldest == sent - Debt + IF io = "reading" THEN 0 ELSE 1

\* What is on its way, or has just been read, is that recent.
DebtInv ==
  phase # "closed" =>
    /\ \A i \in DOMAIN toPc : toPc[i].n >= Oldest
    /\ \A i \in DOMAIN toAdapter : toAdapter[i].n >= Oldest
    /\ \A i \in DOMAIN buf : buf[i].n >= sent - Debt

\* A row under construction has the columns queried so far.
RowInv ==
  /\ phase \notin {"round", "closed"} => rows = {}
  /\ phase = "round" => {row[i].pid : i \in DOMAIN row} = {q \in Columns : q <= pos}
  /\ phase = "round" /\ (io # "none" \/ Columns # {}) => ColumnsAfter(pos) # {}
  /\ phase = "round" /\ io # "none" => rounds < MaxRounds
  /\ \A i \in DOMAIN row :
       row[i].got.pid = row[i].pid /\ row[i].by - row[i].got.n <= Debt

LinkInv == ExchangeTypeOK /\ OrderInv /\ DebtInv /\ RowInv /\ RowsOfTheirPids /\ AgeBounded

-----------------------------------------------------------------------------
(* The inductive invariant behind CapabilitiesRight.                       *)

\* No PID is asked for that is in the list already, and only a car that answers
\* a PID sends a value for it.
CapsInv ==
  /\ caps \in Seq(Nat) /\ CapsInOrder /\ CapsOfTheCar
  /\ phase = "open" => caps = <<0>>
  /\ phase = "caps" => \A i \in DOMAIN caps : caps[i] <= pos
  /\ phase = "guess" => \A i \in DOMAIN caps : caps[i] < pos
  /\ \A i \in DOMAIN toPc : toPc[i].kind = "value" => toPc[i].pid \in car.answers
  /\ \A i \in DOMAIN buf : buf[i].kind = "value" => buf[i].pid \in car.answers

\* A reply ends in its only prompt; to a PID the car answers it has the answer,
\* and to any other it has not.
WholeReply(s) ==
  /\ s # <<>> /\ \A i \in DOMAIN s : s[i].kind = "prompt" <=> i = Len(s)
  /\ phase # "open" =>
       IF pos \in car.answers
         THEN /\ \E i \in DOMAIN s : IsAnswer(s[i], pos)
              /\ \A i \in DOMAIN s : s[i].kind # "nodata"
         ELSE \A i \in DOMAIN s : ~IsAnswer(s[i], pos)

\* When nothing was late or refused there is one request under way or one reply,
\* all of it still to be read, some of it, or nothing; and only the first request
\* was garbled.
Exchange ==
  /\ io # "failed"
  /\ io = "none" => toAdapter = <<>> /\ toPc = <<>>
  /\ io = "reading" =>
       \/ toPc = <<>> /\ buf = <<>> /\ toAdapter = <<[cmd |-> Cmd, n |-> sent]>>
       \/ toPc # <<>> /\ WholeReply(buf \o toPc) /\ toAdapter = <<>> /\ ~partial
  /\ io = "reply" => WholeReply(buf) /\ toAdapter = <<>> /\ toPc = <<>> /\ ~partial
  /\ partial => phase = "open" /\ pos = 1

ExchangeInv == Undisturbed /\ phase \in {"open", "caps", "guess"} => Exchange

\* The list has what is wished for of the bitmaps, or guesses, up to here.
FoundInv ==
  Undisturbed /\ 0 \in car.answers =>
    /\ phase = "caps" =>
         /\ pos % PidsPerMap = 0 /\ (pos > 0 => Claimed(0) # {})
         /\ \A pid \in Reachable \cap Wishlist : pid <= pos => pid \in ToSet(caps)
    /\ phase = "guess" =>
         /\ Claimed(0) = {}
         /\ \A pid \in car.answers \cap Wishlist : pid < pos => pid \in ToSet(caps)

FindInv == CapsInv /\ ExchangeInv /\ FoundInv /\ CapsComplete
=============================================================================
