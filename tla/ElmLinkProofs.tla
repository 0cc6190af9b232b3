--------------------------- MODULE ElmLinkProofs ---------------------------
(***************************************************************************)
(* Proofs about ElmLink for every car, every choice of columns and any     *)
(* number of rounds: how late a value may be, and whose value it is.       *)
(***************************************************************************)
EXTENDS ElmLink, TLAPS, SequenceTheorems, FiniteSetTheorems, WellFoundedInduction

\* A set of numbers that is not empty has a least member.
LEMMA LeastIsLeast ==
  ASSUME NEW S \in SUBSET Nat, S # {}
  PROVE  Least(S) \in S /\ \A y \in S : Least(S) <= y
  <1>1. IsWellFoundedOn(OpToRel(<, Nat), Nat)
    BY NatLessThanWellFounded
  <1>2. PICK x \in S : \A y \in S : <<y, x>> \notin OpToRel(<, Nat)
    BY <1>1, WFMin
  <1>3. \A y \in S : x <= y
    <2> TAKE y \in S
    <2>1. x \in Nat /\ y \in Nat /\ <<y, x>> \in Nat \X Nat
      OBVIOUS
    <2>2. ~(y < x)
      BY <1>2, <2>1 DEF OpToRel
    <2> QED
      BY <2>1, <2>2
  <1> QED
    BY <1>3 DEF Least

\* The columns are PIDs, and a round starts before all of them.
LEMMA ColumnsArePids ==
  /\ Columns \subseteq Nat \ {0}
  /\ \A pid : ColumnsAfter(pid) \subseteq Nat
  /\ ColumnsAfter(0) = Columns
  <1>1. Named \subseteq Nat \ {0}
    BY LinkAssumption DEF LinkAssumption
  <1>2. Columns \subseteq Nat \ {0}
    BY <1>1 DEF Columns
  <1>3. \A pid : ColumnsAfter(pid) \subseteq Nat
    BY <1>2 DEF ColumnsAfter
  <1>4. \A q \in Columns : q > 0
    BY <1>2
  <1> QED
    BY <1>2, <1>3, <1>4 DEF ColumnsAfter

Commands == -4..-1 \cup Nat

\* The program has a command to write, and in a round it is the next column.
LEMMA CmdIsCommand ==
  ASSUME ExchangeTypeOK, phase # "closed", phase = "round" => ColumnsAfter(pos) # {}
  PROVE  /\ Cmd \in Commands
         /\ phase = "round" => /\ Cmd \in ColumnsAfter(pos)
                               /\ \A q \in ColumnsAfter(pos) : Cmd <= q
  <1>1. CASE phase = "open"
    <2>1. pos \in 1..6
      BY <1>1 DEF ExchangeTypeOK, Startup
    <2>2. Startup[pos] \in Commands
      BY <2>1 DEF Startup, Commands, ATZ, ATE0, ATset
    <2> QED
      BY <1>1, <2>2 DEF Cmd
  <1>2. CASE phase = "round"
    <2>1. /\ Least(ColumnsAfter(pos)) \in ColumnsAfter(pos)
          /\ \A q \in ColumnsAfter(pos) : Least(ColumnsAfter(pos)) <= q
      BY <1>2, ColumnsArePids, LeastIsLeast
    <2>2. Cmd = Least(ColumnsAfter(pos))
      BY <1>2 DEF Cmd
    <2>3. Cmd \in Nat
      BY <2>1, <2>2, ColumnsArePids
    <2> QED
      BY <2>1, <2>2, <2>3 DEF Commands
  <1>3. CASE phase \in {"caps", "guess"}
    BY <1>3 DEF Cmd, Commands, ExchangeTypeOK
  <1> QED
    BY <1>1, <1>2, <1>3 DEF ExchangeTypeOK

\* A successful reply has a line with the PID that was asked for.
LEMMA AnswerIsOfPid ==
  ASSUME ExchangeTypeOK, NEW pid, Status(pid) = "success"
  PROVE  /\ Answer(pid) \in Tokens
         /\ Answer(pid).pid = pid
         /\ \E i \in DOMAIN buf : Answer(pid) = buf[i]
         /\ io # "failed"
  <1>1. Answers(pid) # {} /\ io # "failed"
    BY DEF Status
  <1>2. DOMAIN buf = 1..Len(buf) /\ Len(buf) \in Nat /\ \A i \in DOMAIN buf : buf[i] \in Tokens
    BY LenProperties, ElementOfSeq DEF ExchangeTypeOK
  <1>3. Answers(pid) \subseteq DOMAIN buf /\ Answers(pid) \in SUBSET Nat
    BY <1>2 DEF Answers
  <1>4. Least(Answers(pid)) \in Answers(pid)
    BY <1>1, <1>3, LeastIsLeast
  <1> QED
    BY <1>1, <1>2, <1>3, <1>4 DEF Answer, Answers, IsAnswer

-----------------------------------------------------------------------------
(* Types.                                                                  *)

\* A prefix may be taken off what is on its way.
LEMMA TakenApart ==
  ASSUME NEW s \in Seq(Tokens), NEW k \in 0..Len(s)
  PROVE  /\ SubSeq(s, 1, k) \in Seq(Tokens) /\ Len(SubSeq(s, 1, k)) = k
         /\ \A i \in 1..k : SubSeq(s, 1, k)[i] = s[i]
         /\ SubSeq(s, k + 1, Len(s)) \in Seq(Tokens)
         /\ Len(SubSeq(s, k + 1, Len(s))) = Len(s) - k
         /\ \A i \in 1..Len(s) - k : SubSeq(s, k + 1, Len(s))[i] = s[k + i]
  <1>1. Len(s) \in Nat /\ \A i \in 1..Len(s) : s[i] \in Tokens
    BY LenProperties, ElementOfSeq
  <1>2. k \in Int /\ k + 1 \in Int /\ Len(s) \in Int
    BY <1>1
  <1>3. \A i \in 1..k : s[i] \in Tokens
    BY <1>1
  <1>4. \A i \in k + 1..Len(s) : s[i] \in Tokens
    BY <1>1
  <1>5. /\ SubSeq(s, 1, k) \in Seq(Tokens)
        /\ Len(SubSeq(s, 1, k)) = IF 1 <= k THEN k - 1 + 1 ELSE 0
        /\ \A i \in 1..k - 1 + 1 : SubSeq(s, 1, k)[i] = s[1 + i - 1]
    BY <1>2, <1>3, SubSeqProperties
  <1>6. /\ SubSeq(s, k + 1, Len(s)) \in Seq(Tokens)
        /\ Len(SubSeq(s, k + 1, Len(s))) =
             IF k + 1 <= Len(s) THEN Len(s) - (k + 1) + 1 ELSE 0
        /\ \A i \in 1..Len(s) - (k + 1) + 1 : SubSeq(s, k + 1, Len(s))[i] = s[k + 1 + i - 1]
    BY <1>2, <1>4, SubSeqProperties
  <1> QED
    BY <1>1, <1>2, <1>5, <1>6

\* Short sequences, element by element.
LEMMA Pairs ==
  ASSUME NEW S, NEW a \in S, NEW b \in S
  PROVE  <<a, b>> \in Seq(S) /\ Len(<<a, b>>) = 2 /\ <<a, b>>[1] = a /\ <<a, b>>[2] = b
  OBVIOUS

\* The same, of an echo and two tokens.
LEMMA Triples ==
  ASSUME NEW S, NEW a \in S, NEW b \in S, NEW c \in S
  PROVE  /\ <<a>> \o <<b, c>> \in Seq(S) /\ Len(<<a>> \o <<b, c>>) = 3
         /\ (<<a>> \o <<b, c>>)[1] = a /\ (<<a>> \o <<b, c>>)[2] = b
         /\ (<<a>> \o <<b, c>>)[3] = c
  <1>1. <<b, c>> \in Seq(S) /\ <<a>> \in Seq(S) /\ Len(<<a>>) = 1 /\ Len(<<b, c>>) = 2
    OBVIOUS
  <1>2. /\ <<a>> \o <<b, c>> \in Seq(S)
        /\ Len(<<a>> \o <<b, c>>) = Len(<<a>>) + Len(<<b, c>>)
        /\ \A i \in 1..Len(<<a>>) + Len(<<b, c>>) : (<<a>> \o <<b, c>>)[i] =
             IF i <= Len(<<a>>) THEN <<a>>[i] ELSE <<b, c>>[i - Len(<<a>>)]
    BY <1>1, ConcatProperties
  <1> QED
    BY <1>1, <1>2

\* What the adapter sends in answer to one command.
LEMMA ReplyTokens ==
  ASSUME ExchangeTypeOK, NEW cmd, NEW n \in Nat, NEW line \in Body(cmd, n)
  PROVE  LET reply == Reply(cmd, n, line) IN
         /\ reply \in Seq(Tokens) /\ Len(reply) \in {2, 3}
         /\ \A i \in 1..Len(reply) :
              reply[i].n = n /\ (reply[i].kind = "prompt" => i = Len(reply))
  <1> DEFINE reply == Reply(cmd, n, line)
  <1>0. reply = Echo(cmd, n) \o <<line, Prompt(n)>>
    BY DEF Reply
  <1> HIDE DEF reply
  <1>1. car.answers \subseteq Nat
    BY LinkAssumption DEF LinkAssumption, ExchangeTypeOK
  <1>2. line \in Tokens /\ line.n = n /\ line.kind # "prompt"
    <2>1. CASE cmd = ATZ
      BY <2>1 DEF Body, Line, Tokens, Kinds
    <2>2. CASE cmd # ATZ /\ cmd \in {ATE0, ATset}
      BY <2>2 DEF Body, Line, Tokens, Kinds
    <2>3. CASE cmd # ATZ /\ cmd \notin {ATE0, ATset} /\ cmd = Garbled
      BY <2>3 DEF Body, Line, Tokens, Kinds
    <2>4. CASE cmd # ATZ /\ cmd \notin {ATE0, ATset} /\ cmd # Garbled
      <3>1. \/ cmd \in car.answers /\ line = Line("value", cmd, n)
            \/ line = Line("nodata", 0, n)
        BY <2>4 DEF Body
      <3> QED
        BY <1>1, <3>1 DEF Line, Tokens, Kinds
    <2> QED
      BY <2>1, <2>2, <2>3, <2>4
  <1>3. Prompt(n) \in Tokens /\ Prompt(n).n = n
    BY DEF Prompt, Line, Tokens, Kinds
  <1>4. \/ Echo(cmd, n) = <<>>
        \/ \E e \in Tokens : Echo(cmd, n) = <<e>> /\ e.n = n /\ e.kind # "prompt"
    BY DEF Echo, Line, Tokens, Kinds
  <1>5. CASE Echo(cmd, n) = <<>>
    <2>1. <<line, Prompt(n)>> \in Seq(Tokens)
      BY <1>2, <1>3, Pairs
    <2>2. reply = <<line, Prompt(n)>>
      BY <1>0, <1>5, <2>1, ConcatEmptySeq
    <2>3. /\ Len(<<line, Prompt(n)>>) = 2
          /\ <<line, Prompt(n)>>[1] = line /\ <<line, Prompt(n)>>[2] = Prompt(n)
      BY <1>2, <1>3, Pairs
    <2>4. Len(reply) = 2 /\ reply[1] = line /\ reply[2] = Prompt(n)
      BY <2>2, <2>3
    <2>5. reply \in Seq(Tokens)
      BY <2>1, <2>2
    <2>6. ASSUME NEW i \in 1..2 PROVE reply[i].n = n /\ (reply[i].kind = "prompt" => i = 2)
      BY <1>2, <1>3, <2>4
    <2> QED
      BY <2>4, <2>5, <2>6 DEF reply
  <1>6. ASSUME NEW e \in Tokens, Echo(cmd, n) = <<e>>, e.n = n, e.kind # "prompt"
        PROVE  /\ reply \in Seq(Tokens) /\ Len(reply) \in {2, 3}
               /\ \A i \in 1..Len(reply) :
                    reply[i].n = n /\ (reply[i].kind = "prompt" => i = Len(reply))
    <2>1. /\ reply \in Seq(Tokens) /\ Len(reply) = 3
          /\ reply[1] = e /\ reply[2] = line /\ reply[3] = Prompt(n)
      BY <1>0, <1>2, <1>3, <1>6, Triples
    <2> QED
      BY <1>2, <1>3, <1>6, <2>1
  <1> QED
    BY <1>4, <1>5, <1>6 DEF reply

\* Every step keeps the types.
LEMMA TypeStep ==
  ASSUME ExchangeTypeOK, RowInv, Next
  PROVE  ExchangeTypeOK'
  <1> USE DEF ExchangeTypeOK
  <1>0. <<>> \in Seq(Cells) /\ 0 \in Nat /\ 1 \in Nat /\ pos + 1 \in Nat
    OBVIOUS
  <1>1. CASE Send
    <2>1. Cmd \in Commands
      BY <1>1, CmdIsCommand DEF Send, Asking, RowInv
    <2>2. [cmd |-> Cmd, n |-> sent'] \in Requests
      BY <1>1, <2>1 DEF Send, Requests, Commands
    <2>3. toAdapter' \in Seq(Requests)
      BY <1>1, <2>2, AppendProperties DEF Send
    <2> QED
      BY <1>1, <2>3 DEF Send, progVars, elmVars, oddVars
  <1>2. CASE SendFails
    BY <1>2 DEF SendFails, progVars, elmVars, oddVars
  <1>3. CASE Read
    <2>1. PICK k \in 1..Len(toPc) :
            /\ buf' = buf \o SubSeq(toPc, 1, k)
            /\ toPc' = SubSeq(toPc, k + 1, Len(toPc))
            /\ io' = IF toPc[k].kind = "prompt" THEN "reply" ELSE "reading"
      BY <1>3 DEF Read
    <2>2. k \in 0..Len(toPc)
      BY <2>1, LenProperties
    <2>3. SubSeq(toPc, 1, k) \in Seq(Tokens) /\ toPc' \in Seq(Tokens)
      BY <2>1, <2>2, TakenApart
    <2>4. buf' \in Seq(Tokens)
      BY <2>1, <2>3, ConcatProperties
    <2> QED
      BY <1>3, <2>1, <2>3, <2>4 DEF Read, progVars, elmVars, oddVars
  <1>4. CASE TimeOut
    <2>1. PICK k \in 0..Len(toPc) : toPc' = SubSeq(toPc, k + 1, Len(toPc))
      BY <1>4 DEF TimeOut
    <2>2. toPc' \in Seq(Tokens)
      BY <2>1, TakenApart
    <2> QED
      BY <1>4, <2>2 DEF TimeOut, progVars, elmVars
  <1>5. CASE Opened
    <2>1. Len(Startup) = 6 /\ DOMAIN Startup = 1..6
      BY DEF Startup
    <2> QED
      BY <1>5, <2>1 DEF Opened, Done, elmVars, oddVars
  <1>6. CASE GotMap
    <2>1. pos + PidsPerMap \in Nat
      BY LinkAssumption DEF LinkAssumption
    <2>2. \/ NextRound
          \/ phase' = "guess" /\ pos' = 1 /\ row' = row
          \/ phase' = "caps" /\ pos' = pos + PidsPerMap /\ row' = row
      BY <1>6 DEF GotMap
    <2>3. phase' \in {"guess", "caps", "round"} /\ pos' \in Nat /\ row' \in Seq(Cells)
      BY <1>0, <2>1, <2>2 DEF NextRound
    <2> QED
      BY <1>6, <2>3 DEF GotMap, Done, elmVars, oddVars
  <1>7. CASE GotGuess
    <2>1. \/ NextRound
          \/ phase' = "guess" /\ pos' = pos + 1 /\ row' = row
      BY <1>7 DEF GotGuess
    <2>2. phase' \in {"guess", "round"} /\ pos' \in Nat /\ row' \in Seq(Cells)
      BY <1>0, <2>1 DEF NextRound
    <2> QED
      BY <1>7, <2>2 DEF GotGuess, Done, elmVars, oddVars
  <1>8. CASE GotValue
    <2>1. /\ phase = "round" /\ Finished /\ io # "none" /\ Done /\ caps' = caps
      BY <1>8 DEF GotValue, Finished
    <2> rounds + 1 \in 0..MaxRounds
      BY <2>1, LinkAssumption DEF LinkAssumption, RowInv
    <2>2. Cmd \in ColumnsAfter(pos) /\ Cmd \in Nat
      BY <2>1, CmdIsCommand, ColumnsArePids DEF RowInv
    <2>3. Status(Cmd) \in {"error", "nodata", "success"}
      BY DEF Status
    <2>4. CASE Status(Cmd) = "error"
      <3>1. NextRound /\ rounds' = MaxRounds /\ rows' = rows
        BY <1>8, <2>4 DEF GotValue
      <3> QED
        BY <2>1, <3>1, LinkAssumption, <1>0 DEF LinkAssumption, NextRound, Done, elmVars, oddVars
    <2>5. CASE Status(Cmd) = "nodata"
      <3>1. NextRound /\ rounds' = rounds + 1 /\ rows' = rows
        BY <1>8, <2>5 DEF GotValue
      <3> QED
        BY <2>1, <3>1, LinkAssumption, <1>0 DEF LinkAssumption, NextRound, Done, elmVars, oddVars
    <2>6. CASE Status(Cmd) = "success"
      <3> DEFINE cell == [pid |-> Cmd, by |-> sent, got |-> Answer(Cmd)]
                 bound == Append(row, cell)
      <3>1. \/ pos' = Cmd /\ row' = bound /\ phase' = phase /\ rows' = rows /\ rounds' = rounds
            \/ NextRound /\ rounds' = rounds + 1 /\ rows' = rows \cup {bound}
        BY <1>8, <2>6 DEF GotValue
      <3>2. cell \in Cells
        BY <2>2, <2>6, AnswerIsOfPid DEF Cells
      <3>3. bound \in Seq(Cells)
        BY <3>2, AppendProperties
      <3> HIDE DEF bound
      <3>4. CASE pos' = Cmd /\ row' = bound /\ phase' = phase /\ rows' = rows /\ rounds' = rounds
        BY <2>1, <2>2, <3>3, <3>4 DEF Done, elmVars, oddVars
      <3>5. CASE NextRound /\ rounds' = rounds + 1 /\ rows' = rows \cup {bound}
        <4>1. rows' \subseteq Seq(Cells)
          BY <3>3, <3>5
        <4> QED
          BY <1>0, <2>1, <3>5, <4>1 DEF NextRound, Done, elmVars, oddVars
      <3> QED
        BY <3>1, <3>4, <3>5
    <2> QED
      BY <2>3, <2>4, <2>5, <2>6
  <1>9. CASE Close
    <2>1. [cmd |-> ATZ, n |-> sent'] \in Requests
      BY <1>9 DEF Close, Requests, ATZ
    <2>2. toAdapter' \in Seq(Requests)
      BY <1>9, <2>1, AppendProperties DEF Close
    <2> QED
      BY <1>9, <2>2 DEF Close, elmVars, oddVars
  <1>10. CASE Respond
    <2>1. toAdapter # <<>> /\ toAdapter' = Tail(toAdapter)
      BY <1>10 DEF Respond
    <2>2. Head(toAdapter) \in Requests /\ toAdapter' \in Seq(Requests)
      BY <2>1, HeadTailProperties
    <2> DEFINE n == Head(toAdapter).n
               cmd == IF partial THEN Garbled ELSE Head(toAdapter).cmd
    <2>3. PICK line \in Body(cmd, n) :
            /\ toPc' = toPc \o Reply(cmd, n, line)
            /\ refusals' = IF cmd \in car.answers /\ line.kind = "nodata"
                           THEN refusals + 1 ELSE refusals
      BY <1>10 DEF Respond
    <2>4. n \in Nat
      BY <2>2 DEF Requests
    <2>5. echo' \in BOOLEAN
      BY <1>10 DEF Respond
    <2> HIDE DEF n, cmd
    <2>6. toPc' \in Seq(Tokens)
      <3>1. Reply(cmd, n, line) \in Seq(Tokens)
        BY <2>4, ReplyTokens
      <3> QED
        BY <2>3, <3>1, ConcatProperties
    <2>7. refusals' \in 0..MaxRefusals
      <3>1. CASE cmd \in car.answers /\ line.kind = "nodata"
        <4>1. cmd \in Nat
          BY <3>1, LinkAssumption DEF LinkAssumption
        <4>2. cmd # ATZ /\ cmd \notin {ATE0, ATset} /\ cmd # Garbled
          BY <4>1 DEF ATZ, ATE0, ATset, Garbled
        <4>3. refusals < MaxRefusals \/ line = Line("value", cmd, n)
          BY <3>1, <4>2 DEF Body
        <4>4. refusals < MaxRefusals
          BY <3>1, <4>3 DEF Line
        <4> QED
          BY <2>3, <3>1, <4>4, LinkAssumption DEF LinkAssumption
      <3>2. CASE ~(cmd \in car.answers /\ line.kind = "nodata")
        BY <2>3, <3>2
      <3> QED
        BY <3>1, <3>2
    <2>8. partial' = FALSE /\ UNCHANGED <<progVars, ioVars, plugged, car, timeouts, leftover>>
      BY <1>10 DEF Respond
    <2> QED
      BY <2>2, <2>5, <2>6, <2>7, <2>8 DEF progVars, ioVars
  <1>11. CASE Unplug
    BY <1>11 DEF Unplug, progVars, ioVars, oddVars
  <1> QED
    BY <1>1, <1>2, <1>3, <1>4, <1>5, <1>6, <1>7, <1>8, <1>9, <1>10, <1>11 DEF Next, Program

-----------------------------------------------------------------------------
(* The order of the line.  A step writes a request, takes a prefix of what *)
(* has arrived, answers the oldest request, or leaves the line alone.      *)

\* The line at its two ends, element by element.
LEMMA LineElements ==
  ASSUME ExchangeTypeOK
  PROVE  /\ sent \in Nat /\ Len(toPc) \in Nat /\ Len(toAdapter) \in Nat /\ Len(buf) \in Nat
         /\ DOMAIN toPc = 1..Len(toPc) /\ DOMAIN toAdapter = 1..Len(toAdapter)
         /\ DOMAIN buf = 1..Len(buf)
         /\ \A i \in 1..Len(toPc) : toPc[i] \in Tokens /\ toPc[i].n \in Nat
         /\ \A i \in 1..Len(toAdapter) : toAdapter[i] \in Requests /\ toAdapter[i].n \in Nat
         /\ \A i \in 1..Len(buf) : buf[i] \in Tokens /\ buf[i].n \in Nat
  <1>1. toPc \in Seq(Tokens) /\ toAdapter \in Seq(Requests) /\ buf \in Seq(Tokens)
    BY DEF ExchangeTypeOK
  <1>2. \A i \in 1..Len(toPc) : toPc[i] \in Tokens
    BY <1>1, ElementOfSeq
  <1>3. \A i \in 1..Len(toAdapter) : toAdapter[i] \in Requests
    BY <1>1, ElementOfSeq
  <1>4. \A i \in 1..Len(buf) : buf[i] \in Tokens
    BY <1>1, ElementOfSeq
  <1>5. \A tok \in Tokens : tok.n \in Nat
    BY DEF Tokens
  <1>6. \A req \in Requests : req.n \in Nat
    BY DEF Requests
  <1> QED
    BY <1>1, <1>2, <1>3, <1>4, <1>5, <1>6, LenProperties DEF ExchangeTypeOK

Writes(cmd) ==
  /\ sent' = sent + 1
  /\ toAdapter' = Append(toAdapter, [cmd |-> cmd, n |-> sent'])
  /\ toPc' = toPc

Takes(k) ==
  /\ toPc' = SubSeq(toPc, k + 1, Len(toPc))
  /\ UNCHANGED <<sent, toAdapter>>

Sends(cmd, n, line) ==
  /\ toAdapter # <<>> /\ n = Head(toAdapter).n /\ line \in Body(cmd, n)
  /\ toPc' = toPc \o Reply(cmd, n, line)
  /\ toAdapter' = Tail(toAdapter)
  /\ sent' = sent

\* Each line is as long as the step leaves it.
LEMMA AfterWrites ==
  ASSUME ExchangeTypeOK, NEW cmd \in Commands, Writes(cmd)
  PROVE  /\ DOMAIN toAdapter' = 1..Len(toAdapter) + 1
         /\ \A i \in 1..Len(toAdapter) : toAdapter'[i] = toAdapter[i]
         /\ toAdapter'[Len(toAdapter) + 1].n = sent + 1
  <1> DEFINE req == [cmd |-> cmd, n |-> sent']
  <1>1. req \in Requests /\ req.n = sent + 1
    BY DEF Writes, Requests, Commands, ExchangeTypeOK
  <1>2. toAdapter \in Seq(Requests) /\ toAdapter' = Append(toAdapter, req)
    BY DEF Writes, ExchangeTypeOK
  <1> HIDE DEF req
  <1>3. /\ Append(toAdapter, req) \in Seq(Requests)
        /\ Len(Append(toAdapter, req)) = Len(toAdapter) + 1
        /\ \A i \in 1..Len(toAdapter) : Append(toAdapter, req)[i] = toAdapter[i]
        /\ Append(toAdapter, req)[Len(toAdapter) + 1] = req
    BY <1>1, <1>2, AppendProperties
  <1>4. DOMAIN toAdapter' = 1..Len(toAdapter')
    BY <1>2, <1>3, LenProperties
  <1> QED
    BY <1>1, <1>2, <1>3, <1>4

\* What is left after a read.
LEMMA AfterTakes ==
  ASSUME ExchangeTypeOK, NEW k \in 0..Len(toPc), Takes(k)
  PROVE  /\ DOMAIN toPc' = 1..Len(toPc) - k
         /\ \A i \in 1..Len(toPc) - k : toPc'[i] = toPc[k + i]
  <1>1. toPc \in Seq(Tokens) /\ toPc' = SubSeq(toPc, k + 1, Len(toPc))
    BY DEF Takes, ExchangeTypeOK
  <1>2. toPc' \in Seq(Tokens) /\ Len(toPc') = Len(toPc) - k
    BY <1>1, TakenApart
  <1> QED
    BY <1>1, <1>2, TakenApart, LenProperties

\* What is on its way after an answer.
LEMMA AfterSends ==
  ASSUME ExchangeTypeOK, NEW cmd, NEW n, NEW line, Sends(cmd, n, line)
  PROVE  /\ n \in Nat /\ Len(toAdapter) >= 1 /\ n = toAdapter[1].n
         /\ DOMAIN toAdapter' = 1..Len(toAdapter) - 1
         /\ \A i \in 1..Len(toAdapter) - 1 : toAdapter'[i] = toAdapter[i + 1]
         /\ \E l \in {2, 3} :
              /\ DOMAIN toPc' = 1..Len(toPc) + l
              /\ \A i \in 1..Len(toPc) : toPc'[i] = toPc[i]
              /\ \A i \in Len(toPc) + 1..Len(toPc) + l :
                   /\ toPc'[i].n = n
                   /\ toPc'[i].kind = "prompt" => i = Len(toPc) + l
  <1>1. toPc \in Seq(Tokens) /\ toAdapter \in Seq(Requests) /\ toAdapter # <<>>
    BY DEF Sends, ExchangeTypeOK
  <1>2. /\ Head(toAdapter) = toAdapter[1] /\ Tail(toAdapter) \in Seq(Requests)
        /\ Len(Tail(toAdapter)) = Len(toAdapter) - 1 /\ Len(toAdapter) >= 1
        /\ \A i \in 1..Len(Tail(toAdapter)) : Tail(toAdapter)[i] = toAdapter[i + 1]
    BY <1>1, HeadTailProperties, EmptySeq, LenProperties
  <1>3. n = toAdapter[1].n /\ n \in Nat
    BY <1>2, LineElements DEF Sends
  <1>4. /\ DOMAIN toAdapter' = 1..Len(toAdapter) - 1
        /\ \A i \in 1..Len(toAdapter) - 1 : toAdapter'[i] = toAdapter[i + 1]
    BY <1>2, LenProperties DEF Sends
  <1> DEFINE reply == Reply(cmd, n, line)
  <1>5. line \in Body(cmd, n) /\ toPc' = toPc \o reply
    BY DEF Sends
  <1>6. /\ reply \in Seq(Tokens) /\ Len(reply) \in {2, 3}
        /\ \A i \in 1..Len(reply) :
             reply[i].n = n /\ (reply[i].kind = "prompt" => i = Len(reply))
    BY <1>3, <1>5, ReplyTokens
  <1> HIDE DEF reply
  <1>7. /\ toPc' \in Seq(Tokens) /\ Len(toPc') = Len(toPc) + Len(reply)
        /\ \A i \in 1..Len(toPc) + Len(reply) :
             toPc'[i] = IF i <= Len(toPc) THEN toPc[i] ELSE reply[i - Len(toPc)]
    BY <1>1, <1>5, <1>6, ConcatProperties
  <1>8. DOMAIN toPc' = 1..Len(toPc) + Len(reply) /\ Len(toPc) \in Nat
    BY <1>1, <1>7, LenProperties
  <1>9. \A i \in 1..Len(toPc) : toPc'[i] = toPc[i]
    BY <1>6, <1>7, <1>8
  <1>10. ASSUME NEW i \in Len(toPc) + 1..Len(toPc) + Len(reply)
         PROVE  /\ toPc'[i].n = n
                /\ toPc'[i].kind = "prompt" => i = Len(toPc) + Len(reply)
    <2>1. i - Len(toPc) \in 1..Len(reply) /\ toPc'[i] = reply[i - Len(toPc)]
      BY <1>6, <1>7, <1>8
    <2> QED
      BY <1>6, <1>8, <2>1
  <1> QED
    BY <1>2, <1>3, <1>4, <1>6, <1>8, <1>9, <1>10

\* A new request is younger than everything there is.
LEMMA OrderWrites ==
  ASSUME ExchangeTypeOK, OrderInv, NEW cmd \in Commands, Writes(cmd)
  PROVE  OrderInv'
  <1>1. /\ DOMAIN toAdapter' = 1..Len(toAdapter) + 1
        /\ \A i \in 1..Len(toAdapter) : toAdapter'[i] = toAdapter[i]
        /\ toAdapter'[Len(toAdapter) + 1].n = sent + 1
    BY AfterWrites
  <1>2. toPc' = toPc /\ sent' = sent + 1
    BY DEF Writes
  <1>3. \A i \in DOMAIN toPc' : toPc'[i].n <= sent'
    BY <1>2, LineElements DEF OrderInv
  <1>4. \A i, j \in DOMAIN toPc' : i < j =>
          /\ toPc'[i].n <= toPc'[j].n
          /\ toPc'[i].kind = "prompt" => toPc'[i].n < toPc'[j].n
    BY <1>2 DEF OrderInv
  <1>5. \A i \in DOMAIN toAdapter' : i \in 1..Len(toAdapter) \/ i = Len(toAdapter) + 1
    BY <1>1, LineElements
  <1>6. \A i \in DOMAIN toAdapter' : toAdapter'[i].n <= sent'
    BY <1>1, <1>2, <1>5, LineElements DEF OrderInv
  <1>7. \A i \in DOMAIN toPc' : \A j \in DOMAIN toAdapter' : toPc'[i].n < toAdapter'[j].n
    BY <1>1, <1>2, <1>5, LineElements DEF OrderInv
  <1>8. \A i, j \in DOMAIN toAdapter' : i < j => toAdapter'[i].n < toAdapter'[j].n
    <2> TAKE i, j \in DOMAIN toAdapter'
    <2> HAVE i < j
    <2>1. i \in 1..Len(toAdapter)
      BY <1>1, LineElements
    <2>2. CASE j \in 1..Len(toAdapter)
      BY <1>1, <2>1, <2>2, LineElements DEF OrderInv
    <2>3. CASE j = Len(toAdapter) + 1
      BY <1>1, <2>1, <2>3, LineElements DEF OrderInv
    <2> QED
      BY <1>5, <2>2, <2>3
  <1> QED
    BY <1>3, <1>4, <1>6, <1>7, <1>8 DEF OrderInv

\* A read takes from the front.
LEMMA OrderTakes ==
  ASSUME ExchangeTypeOK, OrderInv, NEW k \in 0..Len(toPc), Takes(k)
  PROVE  OrderInv'
  <1>1. /\ DOMAIN toPc' = 1..Len(toPc) - k
        /\ \A i \in 1..Len(toPc) - k : toPc'[i] = toPc[k + i]
    BY AfterTakes
  <1>2. toAdapter' = toAdapter /\ sent' = sent
    BY DEF Takes
  <1>3. \A i \in DOMAIN toPc' : k + i \in DOMAIN toPc /\ i \in Int
    BY <1>1, LineElements
  <1>4. \A i \in DOMAIN toPc' : toPc'[i].n <= sent'
    BY <1>1, <1>2, <1>3 DEF OrderInv
  <1>5. \A i, j \in DOMAIN toPc' : i < j =>
          /\ toPc'[i].n <= toPc'[j].n
          /\ toPc'[i].kind = "prompt" => toPc'[i].n < toPc'[j].n
    <2> TAKE i, j \in DOMAIN toPc'
    <2> HAVE i < j
    <2>1. k + i < k + j
      BY <1>3
    <2> QED
      BY <1>1, <1>3, <2>1 DEF OrderInv
  <1>6. \A i \in DOMAIN toPc' : \A j \in DOMAIN toAdapter' : toPc'[i].n < toAdapter'[j].n
    BY <1>1, <1>2, <1>3 DEF OrderInv
  <1> QED
    BY <1>2, <1>4, <1>5, <1>6 DEF OrderInv

\* The adapter answers the oldest request, after all it has answered.
LEMMA OrderSends ==
  ASSUME ExchangeTypeOK, OrderInv, NEW cmd, NEW n, NEW line, Sends(cmd, n, line)
  PROVE  OrderInv'
  <1>1. /\ n \in Nat /\ Len(toAdapter) >= 1 /\ n = toAdapter[1].n
        /\ DOMAIN toAdapter' = 1..Len(toAdapter) - 1
        /\ \A i \in 1..Len(toAdapter) - 1 : toAdapter'[i] = toAdapter[i + 1]
    BY AfterSends
  <1>2. PICK l \in {2, 3} :
          /\ DOMAIN toPc' = 1..Len(toPc) + l
          /\ \A i \in 1..Len(toPc) : toPc'[i] = toPc[i]
          /\ \A i \in Len(toPc) + 1..Len(toPc) + l :
               /\ toPc'[i].n = n
               /\ toPc'[i].kind = "prompt" => i = Len(toPc) + l
    BY AfterSends
  <1>3. sent' = sent
    BY DEF Sends
  <1>4. 1 \in DOMAIN toAdapter /\ \A i \in DOMAIN toAdapter' : i + 1 \in DOMAIN toAdapter /\ i \in Int /\ 1 < i + 1
    BY <1>1, LineElements
  <1>5. \A i \in DOMAIN toPc' : i \in 1..Len(toPc) \/ i \in Len(toPc) + 1..Len(toPc) + l
    BY <1>2, LineElements
  <1>6. n <= sent /\ \A i \in 1..Len(toPc) : toPc[i].n < n
    BY <1>1, <1>4, LineElements DEF OrderInv
  <1>7. \A i \in DOMAIN toAdapter' : n < toAdapter'[i].n
    BY <1>1, <1>4 DEF OrderInv
  <1>8. \A i \in DOMAIN toPc' : toPc'[i].n <= sent'
    BY <1>2, <1>3, <1>5, <1>6, LineElements DEF OrderInv
  <1>9. \A i, j \in DOMAIN toPc' : i < j =>
          /\ toPc'[i].n <= toPc'[j].n
          /\ toPc'[i].kind = "prompt" => toPc'[i].n < toPc'[j].n
    <2> TAKE i, j \in DOMAIN toPc'
    <2> HAVE i < j
    <2>1. CASE j \in 1..Len(toPc)
      <3>1. i \in 1..Len(toPc)
        BY <1>2, <2>1, LineElements
      <3> QED
        BY <1>2, <2>1, <3>1, LineElements DEF OrderInv
    <2>2. CASE i \in 1..Len(toPc) /\ j \in Len(toPc) + 1..Len(toPc) + l
      BY <1>1, <1>2, <1>6, <2>2, LineElements
    <2>3. CASE i \in Len(toPc) + 1..Len(toPc) + l /\ j \in Len(toPc) + 1..Len(toPc) + l
      <3>1. i # Len(toPc) + l
        BY <1>2, <2>3, LineElements
      <3> QED
        BY <1>1, <1>2, <2>3, <3>1
    <2> QED
      BY <1>5, <2>1, <2>2, <2>3, LineElements
  <1>10. \A i \in DOMAIN toAdapter' : toAdapter'[i].n <= sent'
    BY <1>1, <1>3, <1>4 DEF OrderInv
  <1>11. \A i \in DOMAIN toPc' : \A j \in DOMAIN toAdapter' : toPc'[i].n < toAdapter'[j].n
    <2> TAKE i \in DOMAIN toPc'
    <2> TAKE j \in DOMAIN toAdapter'
    <2>1. n < toAdapter'[j].n /\ toAdapter'[j].n \in Nat
      BY <1>1, <1>4, <1>7, LineElements
    <2>2. toPc'[i].n <= n /\ toPc'[i].n \in Nat
      BY <1>1, <1>2, <1>5, <1>6, LineElements
    <2> QED
      BY <1>1, <2>1, <2>2
  <1>12. \A i, j \in DOMAIN toAdapter' : i < j => toAdapter'[i].n < toAdapter'[j].n
    <2> TAKE i, j \in DOMAIN toAdapter'
    <2> HAVE i < j
    <2>1. i + 1 < j + 1
      BY <1>4
    <2> QED
      BY <1>1, <1>4, <2>1 DEF OrderInv
  <1> QED
    BY <1>8, <1>9, <1>10, <1>11, <1>12 DEF OrderInv

\* The adapter answers one request.
LEMMA RespondSends ==
  ASSUME Respond
  PROVE  \E cmd, n, line : Sends(cmd, n, line)
  <1> DEFINE n == Head(toAdapter).n
             cmd == IF partial THEN Garbled ELSE Head(toAdapter).cmd
  <1>1. PICK line \in Body(cmd, n) : toPc' = toPc \o Reply(cmd, n, line)
    BY DEF Respond
  <1>2. toAdapter # <<>> /\ toAdapter' = Tail(toAdapter) /\ sent' = sent
    BY DEF Respond, ioVars
  <1>3. Sends(cmd, n, line)
    BY <1>1, <1>2 DEF Sends
  <1> QED
    BY <1>3

\* What each step does to the line.
LEMMA LineEffects ==
  ASSUME ExchangeTypeOK, RowInv, Next
  PROVE  \/ \E cmd \in Commands : Writes(cmd) /\ (Send \/ Close)
         \/ \E k \in 0..Len(toPc) : Takes(k) /\ (Read \/ TimeOut)
         \/ \E cmd, n, line : Sends(cmd, n, line) /\ Respond
         \/ UNCHANGED <<sent, toAdapter, toPc>>
  <1>1. CASE Send
    <2>1. Cmd \in Commands
      BY <1>1, CmdIsCommand DEF Send, Asking, RowInv
    <2>2. Writes(Cmd)
      BY <1>1 DEF Send, Writes
    <2> QED
      BY <1>1, <2>1, <2>2
  <1>2. CASE Close
    <2>1. Writes(ATZ) /\ ATZ \in Commands
      BY <1>2 DEF Close, Writes, ATZ, Commands
    <2> QED
      BY <1>2, <2>1
  <1>3. CASE Read
    <2>1. PICK k \in 1..Len(toPc) : toPc' = SubSeq(toPc, k + 1, Len(toPc))
      BY <1>3 DEF Read
    <2>2. UNCHANGED <<sent, toAdapter>>
      BY <1>3 DEF Read
    <2>3. k \in 0..Len(toPc)
      BY <2>1, LineElements
    <2>4. Takes(k)
      BY <2>1, <2>2 DEF Takes
    <2> QED
      BY <1>3, <2>3, <2>4
  <1>4. CASE TimeOut
    <2>1. PICK k \in 0..Len(toPc) : toPc' = SubSeq(toPc, k + 1, Len(toPc))
      BY <1>4 DEF TimeOut
    <2>2. Takes(k)
      BY <1>4, <2>1 DEF TimeOut, Takes
    <2> QED
      BY <1>4, <2>2
  <1>5. CASE Respond
    BY <1>5, RespondSends
  <1>6. CASE SendFails \/ Opened \/ GotMap \/ GotGuess \/ GotValue \/ Unplug
    BY <1>6 DEF SendFails, Opened, GotMap, GotGuess, GotValue, Done, Unplug, ioVars
  <1> QED
    BY <1>1, <1>2, <1>3, <1>4, <1>5, <1>6 DEF Next, Program

\* The order of the line is kept.
LEMMA OrderStep ==
  ASSUME ExchangeTypeOK, RowInv, OrderInv, Next
  PROVE  OrderInv'
  <1>1. ASSUME UNCHANGED <<sent, toAdapter, toPc>> PROVE OrderInv'
    BY <1>1 DEF OrderInv
  <1> QED
    BY <1>1, LineEffects, OrderWrites, OrderTakes, OrderSends

-----------------------------------------------------------------------------
(* How late a reply may be.                                                *)

\* A reading that ends in a prompt has used up every older request.
LEMMA DebtRead ==
  ASSUME ExchangeTypeOK, OrderInv, DebtInv, phase # "closed", Read
  PROVE  DebtInv'
  <1>1. PICK k \in 1..Len(toPc) :
          /\ buf' = buf \o SubSeq(toPc, 1, k)
          /\ toPc' = SubSeq(toPc, k + 1, Len(toPc))
          /\ io' = IF toPc[k].kind = "prompt" THEN "reply" ELSE "reading"
    BY DEF Read
  <1>2. io = "reading" /\ UNCHANGED <<sent, toAdapter, phase, timeouts, leftover>>
    BY DEF Read, progVars, oddVars
  <1>3. k \in 0..Len(toPc) /\ Takes(k)
    BY <1>1, <1>2, LineElements DEF Takes
  <1>4. /\ DOMAIN toPc' = 1..Len(toPc) - k
        /\ \A i \in 1..Len(toPc) - k : toPc'[i] = toPc[k + i]
    BY <1>3, AfterTakes
  <1>5. Debt \in Nat /\ Debt' = Debt /\ sent' = sent /\ Oldest = sent - Debt
    BY <1>2 DEF Debt, Oldest, ExchangeTypeOK
  <1>6. /\ \A i \in DOMAIN toPc : toPc[i].n >= sent - Debt
        /\ \A i \in DOMAIN toAdapter : toAdapter[i].n >= sent - Debt
        /\ \A i \in DOMAIN buf : buf[i].n >= sent - Debt
    BY <1>5 DEF DebtInv
  <1>7. ASSUME NEW i \in DOMAIN buf' PROVE buf'[i].n >= sent - Debt
    <2>1. /\ SubSeq(toPc, 1, k) \in Seq(Tokens) /\ Len(SubSeq(toPc, 1, k)) = k
          /\ \A j \in 1..k : SubSeq(toPc, 1, k)[j] = toPc[j]
      BY <1>3, TakenApart DEF ExchangeTypeOK
    <2>2. buf \in Seq(Tokens)
      BY DEF ExchangeTypeOK
    <2> DEFINE got == SubSeq(toPc, 1, k)
    <2> HIDE DEF got
    <2>3. /\ buf \o got \in Seq(Tokens) /\ Len(buf \o got) = Len(buf) + k
          /\ \A j \in 1..Len(buf) + k :
               (buf \o got)[j] = IF j <= Len(buf) THEN buf[j] ELSE got[j - Len(buf)]
      BY <2>1, <2>2, ConcatProperties DEF got
    <2>4. i \in 1..Len(buf) + k
      BY <1>1, <1>7, <2>3, LenProperties DEF got
    <2>5. CASE i <= Len(buf)
      <3>1. buf'[i] = buf[i] /\ i \in DOMAIN buf
        BY <1>1, <2>3, <2>4, <2>5, LineElements DEF got
      <3> QED
        BY <1>6, <3>1
    <2>6. CASE ~(i <= Len(buf))
      <3>1. i - Len(buf) \in 1..k /\ i - Len(buf) \in DOMAIN toPc
        BY <1>3, <2>4, <2>6, LineElements
      <3>2. buf'[i] = toPc[i - Len(buf)]
        BY <1>1, <2>1, <2>3, <2>4, <2>6, <3>1 DEF got
      <3> QED
        BY <1>6, <3>1, <3>2
    <2> QED
      BY <2>5, <2>6
  <1>8. \A i \in DOMAIN toPc' : k + i \in DOMAIN toPc /\ toPc'[i] = toPc[k + i] /\ k < k + i
    BY <1>3, <1>4, LineElements
  <1>9. CASE toPc[k].kind = "prompt"
    <2>1. Oldest' = sent - Debt + 1
      BY <1>1, <1>5, <1>9 DEF Oldest
    <2>2. k \in DOMAIN toPc /\ toPc[k].n \in Nat /\ toPc[k].n >= sent - Debt
      BY <1>1, <1>6, LineElements
    <2>3. \A i \in DOMAIN toPc' : toPc[k].n < toPc'[i].n /\ toPc'[i].n \in Nat
      BY <1>8, <1>9, <2>2, LineElements DEF OrderInv
    <2>4. \A i \in DOMAIN toAdapter : toPc[k].n < toAdapter[i].n /\ toAdapter[i].n \in Nat
      BY <2>2, LineElements DEF OrderInv
    <2>5. sent \in Nat /\ Debt \in Nat /\ toAdapter' = toAdapter
      BY <1>2, <1>5, LineElements
    <2>6. \A i \in DOMAIN toPc' : toPc'[i].n >= Oldest'
      BY <2>1, <2>2, <2>3, <2>5
    <2>7. \A i \in DOMAIN toAdapter' : toAdapter'[i].n >= Oldest'
      BY <2>1, <2>2, <2>4, <2>5
    <2> QED
      BY <1>5, <1>7, <2>6, <2>7 DEF DebtInv
  <1>10. CASE toPc[k].kind # "prompt"
    <2>1. Oldest' = sent - Debt
      BY <1>1, <1>5, <1>10, LineElements DEF Oldest
    <2> QED
      BY <1>2, <1>5, <1>6, <1>7, <1>8, <2>1 DEF DebtInv
  <1> QED
    BY <1>9, <1>10

\* A port that is closed stays closed, and the debt is never paid back.
LEMMA PhasesAndDebt ==
  ASSUME ExchangeTypeOK, Next
  PROVE  /\ Debt \in Nat /\ Debt' \in Nat /\ Debt <= Debt'
         /\ ~TimeOut => Debt' = Debt
         /\ phase' # "closed" => phase # "closed"
  <1>1. timeouts \in Nat /\ leftover \in Nat
    BY DEF ExchangeTypeOK
  <1>2. leftover' = leftover /\ (timeouts' = timeouts \/ (TimeOut /\ timeouts' = timeouts + 1))
    BY DEF Next, Program, Send, SendFails, Read, TimeOut, Opened, GotMap, GotGuess, GotValue,
           Close, Respond, Unplug, Done, oddVars
  <1>3. \/ phase' = phase
        \/ Opened \/ GotMap \/ GotGuess \/ GotValue \/ Close
    BY DEF Next, Program, Send, SendFails, Read, TimeOut, Respond, Unplug, progVars
  <1>4. Opened \/ GotMap \/ GotGuess \/ GotValue \/ Close => phase # "closed"
    BY DEF Opened, GotMap, GotGuess, GotValue, Close
  <1> QED
    BY <1>1, <1>2, <1>3, <1>4 DEF Debt

\* Nothing on its way is older than the debt allows.
LEMMA DebtStep ==
  ASSUME ExchangeTypeOK, RowInv, OrderInv, DebtInv, Next, phase' # "closed"
  PROVE  DebtInv'
  <1>1. /\ Debt \in Nat /\ Debt' \in Nat /\ Debt <= Debt' /\ phase # "closed"
        /\ ~TimeOut => Debt' = Debt
    BY PhasesAndDebt
  <1>2. /\ \A i \in DOMAIN toPc : toPc[i].n >= Oldest
        /\ \A i \in DOMAIN toAdapter : toAdapter[i].n >= Oldest
        /\ \A i \in DOMAIN buf : buf[i].n >= sent - Debt
    BY <1>1 DEF DebtInv
  <1>3. Oldest \in Int /\ Oldest <= sent - Debt + 1 /\ (io # "reading" => Oldest = sent - Debt + 1)
    BY <1>1, LineElements DEF Oldest
  <1>4. Len(<<>>) = 0 /\ DOMAIN <<>> = {}
    OBVIOUS
  <1>5. CASE Send
    <2>1. Cmd \in Commands /\ Writes(Cmd)
      BY <1>5, CmdIsCommand DEF Send, Asking, RowInv, Writes
    <2>2. ~TimeOut
      BY <1>5 DEF Send, TimeOut
    <2>3. Debt' = Debt /\ buf' = <<>> /\ io' = "reading" /\ io = "none" /\ toPc' = toPc
          /\ sent' = sent + 1
      BY <1>1, <1>5, <2>2 DEF Send
    <2>4. Oldest' = sent - Debt + 1
      BY <1>1, <2>3, LineElements DEF Oldest
    <2>5. /\ DOMAIN toAdapter' = 1..Len(toAdapter) + 1
          /\ \A i \in 1..Len(toAdapter) : toAdapter'[i] = toAdapter[i]
          /\ toAdapter'[Len(toAdapter) + 1].n = sent + 1
      BY <2>1, AfterWrites
    <2>6. \A i \in DOMAIN toAdapter' : toAdapter'[i].n >= Oldest'
      BY SMTT(20), <1>1, <1>2, <1>3, <2>3, <2>4, <2>5, LineElements
    <2> QED
      BY <1>2, <1>3, <1>4, <2>3, <2>4, <2>6 DEF DebtInv
  <1>6. CASE SendFails
    <2>1. ~TimeOut
      BY <1>6 DEF SendFails, TimeOut
    <2>2. /\ Debt' = Debt /\ buf' = <<>> /\ io = "none"
          /\ UNCHANGED <<sent, toAdapter, toPc>>
      BY <1>1, <1>6, <2>1 DEF SendFails
    <2>3. Oldest' \in Int /\ Oldest' <= Oldest
      BY <1>1, <1>3, <2>2, LineElements DEF Oldest
    <2>4. \A i \in DOMAIN toPc' : toPc'[i].n >= Oldest'
      BY <1>2, <1>3, <2>2, <2>3, LineElements
    <2>5. \A i \in DOMAIN toAdapter' : toAdapter'[i].n >= Oldest'
      BY <1>2, <1>3, <2>2, <2>3, LineElements
    <2> QED
      BY <1>4, <2>2, <2>4, <2>5 DEF DebtInv
  <1>7. CASE Read
    BY <1>1, <1>7, DebtRead
  <1>8. CASE TimeOut
    <2>1. PICK k \in 0..Len(toPc) : toPc' = SubSeq(toPc, k + 1, Len(toPc))
      BY <1>8 DEF TimeOut
    <2>2. UNCHANGED <<sent, toAdapter, leftover>> /\ timeouts' = timeouts + 1
          /\ io = "reading" /\ io' = "failed" /\ buf' = <<>>
      BY <1>8 DEF TimeOut
    <2>3. Takes(k)
      BY <2>1, <2>2 DEF Takes
    <2>4. Debt' = Debt + 1
      BY <2>2 DEF Debt, ExchangeTypeOK
    <2>5. Oldest' = Oldest
      BY <1>1, <2>2, <2>4, LineElements DEF Oldest
    <2>6. /\ DOMAIN toPc' = 1..Len(toPc) - k
          /\ \A i \in 1..Len(toPc) - k : toPc'[i] = toPc[k + i]
      BY <2>3, AfterTakes
    <2>7. \A i \in DOMAIN toPc' : k + i \in DOMAIN toPc /\ toPc'[i] = toPc[k + i]
      BY <2>6, LineElements
    <2> QED
      BY <1>2, <1>4, <2>2, <2>5, <2>7 DEF DebtInv
  <1>9. CASE Opened \/ GotMap \/ GotGuess \/ GotValue
    <2>1. Done /\ Finished
      BY <1>9 DEF Opened, GotMap, GotGuess, GotValue
    <2>2. ~TimeOut
      BY <2>1 DEF TimeOut, Finished
    <2>3. /\ Debt' = Debt /\ buf' = <<>> /\ io # "reading" /\ io' = "none"
          /\ UNCHANGED <<sent, toAdapter, toPc>>
      BY <1>1, <2>1, <2>2 DEF Done, Finished
    <2>4. Oldest' = Oldest
      BY <2>3 DEF Oldest
    <2> QED
      BY <1>2, <1>4, <2>3, <2>4 DEF DebtInv
  <1>10. CASE Close
    BY <1>10 DEF Close
  <1>11. CASE Respond
    <2>1. ~TimeOut
      BY <1>11 DEF Respond, TimeOut, oddVars, ExchangeTypeOK
    <2>2. Debt' = Debt /\ UNCHANGED <<buf, io, sent>>
      BY <1>1, <1>11, <2>1 DEF Respond, ioVars
    <2>3. Oldest' = Oldest
      BY <2>2 DEF Oldest
    <2>4. PICK cmd, n, line : Sends(cmd, n, line)
      BY <1>11, RespondSends
    <2>5. /\ n \in Nat /\ Len(toAdapter) >= 1 /\ n = toAdapter[1].n
          /\ DOMAIN toAdapter' = 1..Len(toAdapter) - 1
          /\ \A i \in 1..Len(toAdapter) - 1 : toAdapter'[i] = toAdapter[i + 1]
      BY <2>4, AfterSends
    <2>6. PICK l \in {2, 3} :
            /\ DOMAIN toPc' = 1..Len(toPc) + l
            /\ \A i \in 1..Len(toPc) : toPc'[i] = toPc[i]
            /\ \A i \in Len(toPc) + 1..Len(toPc) + l : toPc'[i].n = n
      BY <2>4, AfterSends
    <2>7. n >= Oldest
      <3>1. 1 \in DOMAIN toAdapter
        BY <2>5, LineElements
      <3> QED
        BY <1>2, <2>5, <3>1
    <2>8. \A i \in DOMAIN toPc' : i \in DOMAIN toPc \/ i \in Len(toPc) + 1..Len(toPc) + l
      BY <2>6, LineElements
    <2>9. \A i \in DOMAIN toPc' : toPc'[i].n >= Oldest
      BY <1>2, <2>6, <2>7, <2>8, LineElements
    <2>10. \A i \in DOMAIN toAdapter' : i + 1 \in DOMAIN toAdapter
      BY <2>5, LineElements
    <2>11. \A i \in DOMAIN toAdapter' : toAdapter'[i].n >= Oldest
      BY <1>2, <2>5, <2>10
    <2> QED
      BY <1>2, <2>2, <2>3, <2>9, <2>11 DEF DebtInv
  <1>12. CASE Unplug
    BY <1>1, <1>2, <1>12 DEF Unplug, DebtInv, Debt, Oldest, progVars, ioVars, oddVars
  <1> QED
    BY <1>5, <1>6, <1>7, <1>8, <1>9, <1>10, <1>11, <1>12 DEF Next, Program

-----------------------------------------------------------------------------
(* Rows.                                                                   *)

\* While the capabilities stay, so do the columns.
LEMMA SameColumns ==
  ASSUME caps' = caps
  PROVE  /\ Columns' = Columns
         /\ pos' = pos => ColumnsAfter(pos)' = ColumnsAfter(pos)
  BY DEF Columns, ColumnsAfter, IsSupported

\* A round starts before the first column.
LEMMA NewRound ==
  ASSUME NextRound, io' = "none"
  PROVE  /\ row' = <<>> /\ phase' = "round" /\ pos' = 0
         /\ {row'[i].pid : i \in DOMAIN row'} = {q \in Columns' : q <= pos'}
         /\ Columns' # {} => ColumnsAfter(pos)' # {}
  <1>1. row' = <<>> /\ phase' = "round" /\ pos' = 0
    BY DEF NextRound
  <1>2. Columns' \subseteq Nat \ {0}
    BY LinkAssumption DEF LinkAssumption, Columns
  <1>3. {q \in Columns' : q <= 0} = {} /\ \A q \in Columns' : q > 0
    <2>1. \A q \in Columns' : q \in Nat /\ q # 0
      BY <1>2
    <2>2. \A q \in Columns' : q > 0 /\ ~(q <= 0)
      BY <2>1
    <2> QED
      BY <2>2
  <1>4. DOMAIN <<>> = {}
    OBVIOUS
  <1>5. ColumnsAfter(pos)' = Columns'
    BY <1>1, <1>3 DEF ColumnsAfter
  <1> QED
    BY <1>1, <1>3, <1>4, <1>5

\* A cell was asked for and answered by numbered requests.
LEMMA CellAges ==
  ASSUME ExchangeTypeOK
  PROVE  /\ \A i \in DOMAIN row : row[i].by - row[i].got.n \in Int
         /\ \A r \in rows : \A i \in DOMAIN r : r[i].by - r[i].got.n \in Int
  <1>1. ASSUME NEW cell \in Cells PROVE cell.by - cell.got.n \in Int
    <2>1. cell.by \in Nat /\ cell.got \in Tokens
      BY DEF Cells
    <2>2. cell.got.n \in Nat
      BY <2>1 DEF Tokens
    <2> QED
      BY <2>1, <2>2
  <1>2. ASSUME NEW r \in Seq(Cells), NEW i \in DOMAIN r PROVE r[i] \in Cells
    BY ElementOfSeq, LenProperties
  <1>3. row \in Seq(Cells) /\ rows \subseteq Seq(Cells)
    BY DEF ExchangeTypeOK
  <1> QED
    BY <1>1, <1>2, <1>3

\* A step that does not touch the program's own state keeps its rows.
LEMMA RowsKept ==
  ASSUME ExchangeTypeOK, RowInv, RowsOfTheirPids, AgeBounded, Next,
         UNCHANGED progVars, io' # "none" => io # "none" \/ Asking
  PROVE  RowInv' /\ RowsOfTheirPids' /\ AgeBounded'
  <1>1. UNCHANGED <<phase, pos, caps, row, rows, rounds>>
    BY DEF progVars
  <1>2. Columns' = Columns /\ ColumnsAfter(pos)' = ColumnsAfter(pos)
    BY <1>1, SameColumns
  <1>3. Debt \in Nat /\ Debt' \in Nat /\ Debt <= Debt'
    BY PhasesAndDebt
  <1>4. phase = "round" /\ Asking => rounds < MaxRounds /\ Columns # {}
    BY DEF Asking
  <1>5. /\ \A i \in DOMAIN row : row[i].by - row[i].got.n \in Int
        /\ \A r \in rows : \A i \in DOMAIN r : r[i].by - r[i].got.n \in Int
    BY CellAges
  <1>6. \A i \in DOMAIN row : row[i].by - row[i].got.n <= Debt'
    BY <1>3, <1>5 DEF RowInv
  <1>7. RowInv'
    BY <1>1, <1>2, <1>4, <1>6 DEF RowInv
  <1>8. AgeBounded'
    <2> SUFFICES ASSUME NEW r \in rows, NEW i \in DOMAIN r
                 PROVE  r[i].by - r[i].got.n <= Debt'
      BY <1>1 DEF AgeBounded, Debt
    <2>1. r[i].by - r[i].got.n \in Int
      BY <1>5
    <2> QED
      BY <1>3, <2>1 DEF AgeBounded, Debt
  <1>9. RowsOfTheirPids'
    BY <1>1, <1>2 DEF RowsOfTheirPids
  <1> QED
    BY <1>7, <1>8, <1>9

\* A value is bound for the next column, and is not too old.
LEMMA RowWithValue ==
  ASSUME ExchangeTypeOK, RowInv, DebtInv, phase = "round", io # "none",
         Status(Cmd) = "success",
         NEW bound, bound = Append(row, [pid |-> Cmd, by |-> sent, got |-> Answer(Cmd)])
  PROVE  /\ {bound[i].pid : i \in DOMAIN bound} = {q \in Columns : q <= Cmd}
         /\ \A i \in DOMAIN bound :
              bound[i].got.pid = bound[i].pid /\ bound[i].by - bound[i].got.n <= Debt
  <1> DEFINE cell == [pid |-> Cmd, by |-> sent, got |-> Answer(Cmd)]
  <1>1. /\ Cmd \in ColumnsAfter(pos) /\ Cmd \in Nat /\ Cmd \in Columns /\ pos < Cmd
        /\ \A q \in ColumnsAfter(pos) : Cmd <= q
    BY CmdIsCommand, ColumnsArePids DEF RowInv, ColumnsAfter
  <1>2. PICK i \in DOMAIN buf : Answer(Cmd) = buf[i] /\ Answer(Cmd) \in Tokens /\ Answer(Cmd).pid = Cmd
    BY AnswerIsOfPid
  <1>3. Answer(Cmd).n \in Nat /\ Answer(Cmd).n >= sent - Debt
    BY <1>2, LineElements DEF DebtInv
  <1>4. cell \in Cells /\ cell.pid = Cmd /\ cell.got.pid = Cmd /\ cell.by - cell.got.n <= Debt
    <2>1. cell \in Cells
      BY <1>1, <1>2, LineElements DEF Cells
    <2>2. Debt \in Int
      BY DEF Debt, ExchangeTypeOK
    <2> QED
      BY <1>2, <1>3, <2>1, <2>2, LineElements
  <1>5. row \in Seq(Cells) /\ bound = Append(row, cell)
    BY DEF ExchangeTypeOK
  <1> HIDE DEF cell
  <1>6. /\ DOMAIN bound = 1..Len(row) + 1 /\ DOMAIN row = 1..Len(row) /\ Len(row) \in Nat
        /\ \A j \in 1..Len(row) : bound[j] = row[j]
        /\ bound[Len(row) + 1] = cell
    BY <1>4, <1>5, AppendProperties, LenProperties
  <1>7. \A j \in DOMAIN bound : j \in DOMAIN row \/ j = Len(row) + 1
    BY <1>6
  <1>8. \A j \in DOMAIN bound :
          bound[j].got.pid = bound[j].pid /\ bound[j].by - bound[j].got.n <= Debt
    BY <1>4, <1>6, <1>7 DEF RowInv
  <1>9. {row[j].pid : j \in DOMAIN row} = {q \in Columns : q <= pos}
    BY DEF RowInv
  <1>10. {bound[j].pid : j \in DOMAIN bound} = {row[j].pid : j \in DOMAIN row} \cup {Cmd}
    <2>1. ASSUME NEW j \in DOMAIN bound
          PROVE  bound[j].pid \in {row[m].pid : m \in DOMAIN row} \cup {Cmd}
      BY <1>4, <1>6, <1>7
    <2>2. ASSUME NEW j \in DOMAIN row PROVE row[j].pid \in {bound[m].pid : m \in DOMAIN bound}
      BY <1>6
    <2>3. Cmd \in {bound[m].pid : m \in DOMAIN bound}
      BY <1>4, <1>6
    <2> QED
      BY <2>1, <2>2, <2>3
  <1>11. {q \in Columns : q <= pos} \cup {Cmd} = {q \in Columns : q <= Cmd}
    <2>1. pos \in Nat /\ Columns \subseteq Nat
      BY ColumnsArePids DEF ExchangeTypeOK
    <2>2. ASSUME NEW q \in Columns PROVE (q <= Cmd) <=> (q <= pos \/ q = Cmd)
      <3>1. CASE q <= pos
        BY <1>1, <2>1, <3>1
      <3>2. CASE ~(q <= pos)
        <4>1. q \in ColumnsAfter(pos)
          BY <2>1, <3>2 DEF ColumnsAfter
        <4>2. Cmd <= q /\ q \in Nat
          BY <1>1, <2>1, <4>1
        <4> QED
          BY <1>1, <3>2, <4>2
      <3> QED
        BY <3>1, <3>2
    <2> QED
      BY <1>1, <2>2
  <1> QED
    BY <1>8, <1>9, <1>10, <1>11

\* A value, or none, ends a column, a round, or the rounds.
LEMMA RowValue ==
  ASSUME ExchangeTypeOK, RowInv, DebtInv, RowsOfTheirPids, AgeBounded, Next, GotValue
  PROVE  RowInv' /\ RowsOfTheirPids' /\ AgeBounded'
  <1>1. /\ phase = "round" /\ io # "none" /\ io' = "none" /\ caps' = caps
        /\ timeouts' = timeouts /\ leftover' = leftover
    BY DEF GotValue, Finished, Done, oddVars
  <1>2. Columns' = Columns /\ Debt' = Debt
    BY <1>1, SameColumns DEF Debt
  <1>3. rows' = rows => RowsOfTheirPids' /\ AgeBounded'
    BY <1>2 DEF RowsOfTheirPids, AgeBounded, Debt
  <1>4. DOMAIN <<>> = {}
    OBVIOUS
  <1>5. NextRound => RowInv'
    BY <1>1, <1>4, NewRound DEF RowInv
  <1>6. Status(Cmd) \in {"error", "nodata", "success"}
    BY DEF Status
  <1>7. CASE Status(Cmd) = "error"
    <2>1. NextRound /\ rows' = rows
      BY <1>7 DEF GotValue
    <2> QED
      BY <1>3, <1>5, <2>1
  <1>8. CASE Status(Cmd) = "nodata"
    <2>1. NextRound /\ rows' = rows
      BY <1>8 DEF GotValue
    <2> QED
      BY <1>3, <1>5, <2>1
  <1>9. CASE Status(Cmd) = "success"
    <2> DEFINE bound == Append(row, [pid |-> Cmd, by |-> sent, got |-> Answer(Cmd)])
    <2>1. /\ {bound[i].pid : i \in DOMAIN bound} = {q \in Columns : q <= Cmd}
          /\ \A i \in DOMAIN bound :
               bound[i].got.pid = bound[i].pid /\ bound[i].by - bound[i].got.n <= Debt
      BY <1>1, <1>9, RowWithValue
    <2>2. \/ /\ ColumnsAfter(Cmd) # {} /\ pos' = Cmd /\ row' = bound
             /\ UNCHANGED <<phase, rows, rounds>>
          \/ ColumnsAfter(Cmd) = {} /\ NextRound /\ rows' = rows \cup {bound}
      BY <1>9 DEF GotValue
    <2> HIDE DEF bound
    <2>3. CASE /\ ColumnsAfter(Cmd) # {} /\ pos' = Cmd /\ row' = bound
               /\ UNCHANGED <<phase, rows, rounds>>
      <3>1. ColumnsAfter(pos)' # {}
        BY <1>2, <2>3 DEF ColumnsAfter
      <3>2. {row'[i].pid : i \in DOMAIN row'} = {q \in Columns' : q <= pos'}
        BY <1>2, <2>1, <2>3
      <3>3. \A i \in DOMAIN row' :
              row'[i].got.pid = row'[i].pid /\ row'[i].by - row'[i].got.n <= Debt'
        BY <1>2, <2>1, <2>3
      <3>4. RowInv'
        BY <1>1, <2>3, <3>1, <3>2, <3>3 DEF RowInv
      <3> QED
        BY <1>3, <2>3, <3>4
    <2>4. CASE ColumnsAfter(Cmd) = {} /\ NextRound /\ rows' = rows \cup {bound}
      <3>1. Cmd \in Nat
        BY <1>1, CmdIsCommand, ColumnsArePids DEF RowInv
      <3>2. {q \in Columns : q <= Cmd} = Columns
        <4>1. \A q \in Columns : q \in Nat /\ ~(q > Cmd)
          BY <2>4, ColumnsArePids DEF ColumnsAfter
        <4> QED
          BY <3>1, <4>1
      <3>3. {bound[i].pid : i \in DOMAIN bound} = Columns'
        BY <1>2, <2>1, <3>2
      <3>4. RowsOfTheirPids'
        BY <1>2, <2>1, <2>4, <3>3 DEF RowsOfTheirPids
      <3>5. AgeBounded'
        BY <1>2, <2>1, <2>4 DEF AgeBounded, Debt
      <3> QED
        BY <1>5, <2>4, <3>4, <3>5
    <2> QED
      BY <2>2, <2>3, <2>4
  <1> QED
    BY <1>6, <1>7, <1>8, <1>9

\* Rows are made of the values that were asked for.
LEMMA RowStep ==
  ASSUME ExchangeTypeOK, RowInv, DebtInv, RowsOfTheirPids, AgeBounded, Next
  PROVE  RowInv' /\ RowsOfTheirPids' /\ AgeBounded'
  <1>1. CASE Send \/ SendFails \/ Read \/ TimeOut \/ Respond \/ Unplug
    <2>1. UNCHANGED progVars
      BY <1>1 DEF Send, SendFails, Read, TimeOut, Respond, Unplug
    <2>2. io' # "none" => io # "none" \/ Asking
      BY <1>1 DEF Send, SendFails, Read, TimeOut, Respond, Unplug, ioVars
    <2> QED
      BY <2>1, <2>2, RowsKept
  <1>2. CASE Opened \/ GotMap \/ GotGuess
    <2>1. /\ phase \notin {"round", "closed"} /\ rows' = rows /\ rows = {}
          /\ io' = "none" /\ timeouts' = timeouts /\ leftover' = leftover
      BY <1>2 DEF Opened, GotMap, GotGuess, Done, oddVars, RowInv
    <2>2. NextRound \/ (phase' # "round" /\ row' = row)
      BY <1>2, <2>1 DEF Opened, GotMap, GotGuess
    <2>3. DOMAIN <<>> = {} /\ Debt' = Debt
      BY <2>1 DEF Debt
    <2>4. CASE NextRound
      BY <2>1, <2>3, <2>4, NewRound DEF RowInv, RowsOfTheirPids, AgeBounded
    <2>5. CASE phase' # "round" /\ row' = row
      BY <2>1, <2>3, <2>5 DEF RowInv, RowsOfTheirPids, AgeBounded
    <2> QED
      BY <2>2, <2>4, <2>5
  <1>3. CASE GotValue
    BY <1>3, RowValue
  <1>4. CASE Close
    <2>1. /\ phase' = "closed"
          /\ UNCHANGED <<caps, row, rows, timeouts, leftover>>
      BY <1>4 DEF Close, oddVars
    <2>2. Columns' = Columns /\ Debt' = Debt
      BY <2>1, SameColumns DEF Debt
    <2> QED
      BY <2>1, <2>2 DEF RowInv, RowsOfTheirPids, AgeBounded, Debt
  <1> QED
    BY <1>1, <1>2, <1>3, <1>4 DEF Next, Program

-----------------------------------------------------------------------------
(* The theorems.                                                           *)

\* The port starts with at most the reply an earlier run did not wait for.
LEMMA InitLink == Init => LinkInv
  <1> SUFFICES ASSUME Init PROVE LinkInv
    OBVIOUS
  <1>1. toPc \in Seq(Tokens) /\ leftover \in {0, 1}
    <2>1. Line("text", 0, 0) \in Tokens /\ Prompt(0) \in Tokens
      BY DEF Line, Prompt, Tokens, Kinds
    <2>2. <<Line("text", 0, 0), Prompt(0)>> \in Seq(Tokens) /\ <<>> \in Seq(Tokens)
      BY <2>1, Pairs, EmptySeq
    <2> QED
      BY <2>2 DEF Init
  <1>2. ExchangeTypeOK
    <2>1. <<>> \in Seq(Tokens) /\ <<>> \in Seq(Cells) /\ <<>> \in Seq(Requests)
      OBVIOUS
    <2>2. pos \in DOMAIN Startup
      BY DEF Init, Startup
    <2>3. 0 \in 0..MaxRounds /\ 0 \in 0..MaxRefusals
      BY LinkAssumption DEF LinkAssumption
    <2> QED
      BY <1>1, <2>1, <2>2, <2>3 DEF Init, ExchangeTypeOK
  <1>3. OrderInv /\ DebtInv
    BY DEF Init, OrderInv, DebtInv, Oldest, Debt, Line, Prompt
  <1>4. RowInv /\ RowsOfTheirPids /\ AgeBounded
    BY DEF Init, RowInv, RowsOfTheirPids, AgeBounded
  <1> QED
    BY <1>2, <1>3, <1>4 DEF LinkInv

\* Every step keeps the inductive invariant.
LEMMA StepLink == LinkInv /\ [Next]_vars => LinkInv'
  <1> SUFFICES ASSUME LinkInv, [Next]_vars PROVE LinkInv'
    OBVIOUS
  <1> USE DEF LinkInv
  <1>1. CASE Next
    <2>1. ExchangeTypeOK' /\ OrderInv'
      BY <1>1, TypeStep, OrderStep
    <2>2. DebtInv'
      <3>1. CASE phase' # "closed"
        BY <1>1, <3>1, DebtStep
      <3>2. CASE phase' = "closed"
        BY <3>2 DEF DebtInv
      <3> QED
        BY <3>1, <3>2
    <2>3. RowInv' /\ RowsOfTheirPids' /\ AgeBounded'
      <3>1. CASE DebtInv
        BY <1>1, <3>1, RowStep
      <3> QED
        BY <3>1
    <2> QED
      BY <2>1, <2>2, <2>3
  <1>2. CASE UNCHANGED vars
    <2>1. /\ UNCHANGED <<phase, pos, caps, row, rows, rounds, io, buf, sent, toAdapter, toPc>>
          /\ UNCHANGED <<echo, partial, plugged, car, timeouts, leftover, refusals>>
      BY <1>2 DEF vars, progVars, ioVars, elmVars, oddVars
    <2>2. Debt' = Debt /\ Oldest' = Oldest
      BY <2>1 DEF Debt, Oldest
    <2>3. Columns' = Columns /\ ColumnsAfter(pos)' = ColumnsAfter(pos)
      BY <2>1, SameColumns
    <2>4. ExchangeTypeOK'
      BY <2>1 DEF ExchangeTypeOK
    <2>5. OrderInv'
      BY <2>1 DEF OrderInv
    <2>6. DebtInv'
      BY <2>1, <2>2 DEF DebtInv
    <2>7. RowInv'
      BY <2>1, <2>2, <2>3 DEF RowInv
    <2>8. RowsOfTheirPids'
      BY <2>1, <2>3 DEF RowsOfTheirPids
    <2>9. AgeBounded'
      BY <2>1, <2>2 DEF AgeBounded, Debt
    <2> QED
      BY <2>4, <2>5, <2>6, <2>7, <2>8, <2>9
  <1> QED
    BY <1>1, <1>2

\* The exchange keeps its order and its debt, for every car, every choice of
\* columns and any number of rounds (openserial, getobdbytes, main).
THEOREM LinkInductive == Spec => []LinkInv
  BY InitLink, StepLink, PTL DEF Spec

\* No row has the reply to one command as the value of another: getobdbytes
\* looks at the PID of each line, however late the line is.
THEOREM ValuesOfTheirPids == Spec => []RowsOfTheirPids
  <1>1. LinkInv => RowsOfTheirPids
    BY DEF LinkInv
  <1> QED
    BY <1>1, LinkInductive, PTL

\* A value is older than its request by no more requests than there were
\* timeouts, and one for the reply left by an earlier run (readserialdata).
THEOREM LateByTimeouts == Spec => []AgeBounded
  <1>1. LinkInv => AgeBounded
    BY DEF LinkInv
  <1> QED
    BY <1>1, LinkInductive, PTL

-----------------------------------------------------------------------------
(* The list of capabilities.                                               *)

InOrder(s, S) ==
  /\ s \in [1..Cardinality(S) -> S] /\ ToSet(s) = S
  /\ \A i, j \in DOMAIN s : i < j => s[i] < s[j]

\* A set of PIDs can be put in order.
LEMMA OrderExists ==
  ASSUME NEW n \in Nat, NEW S \in SUBSET (1..n)
  PROVE  \E s : InOrder(s, S)
  <1> DEFINE Bad == {k \in Nat : \E R \in SUBSET (1..k) : ~ \E s : InOrder(s, R)}
  <1> SUFFICES ASSUME Bad # {} PROVE FALSE
    OBVIOUS
  <1>1. Least(Bad) \in Bad /\ \A k \in Bad : Least(Bad) <= k
    BY LeastIsLeast
  <1>2. PICK k \in Nat : k \in Bad /\ \A j \in Bad : k <= j
    BY <1>1
  <1>3. PICK R \in SUBSET (1..k) : ~ \E s : InOrder(s, R)
    BY <1>2
  <1> HIDE DEF Bad
  <1>4. CASE k = 0
    <2>1. 1..0 = {}
      OBVIOUS
    <2>2. R = {} /\ Cardinality(R) = 0
      <3>1. R = {}
        BY <1>4, <2>1
      <3> QED
        BY <3>1, FS_EmptySet
    <2> DEFINE s == [i \in 1..0 |-> 0]
    <2>3. InOrder(s, R)
      BY <2>1, <2>2 DEF InOrder, ToSet
    <2> QED
      BY <1>3, <2>3
  <1>5. CASE k # 0 /\ k \notin R
    <2>1. k - 1 \in Nat /\ R \in SUBSET (1..(k - 1)) /\ ~(k <= k - 1)
      BY <1>5
    <2>2. k - 1 \in Bad
      BY <1>3, <2>1 DEF Bad
    <2> QED
      BY <1>2, <2>1, <2>2
  <1>6. CASE k # 0 /\ k \in R
    <2> DEFINE T == R \ {k}
    <2>1. k - 1 \in Nat /\ T \in SUBSET (1..(k - 1)) /\ ~(k <= k - 1)
      BY <1>6
    <2>2. PICK t : InOrder(t, T)
      <3>1. k - 1 \notin Bad
        BY <1>2, <2>1
      <3> QED
        BY <2>1, <3>1 DEF Bad
    <2> DEFINE c == Cardinality(T)
    <2>3. IsFiniteSet(T) /\ c \in Nat
      <3>1. IsFiniteSet(1..(k - 1))
        BY <2>1, FS_Interval
      <3>2. IsFiniteSet(T)
        BY <2>1, <3>1, FS_Subset
      <3> QED
        BY <3>2, FS_CardinalityType
    <2>4. Cardinality(R) = c + 1
      <3>1. Cardinality(T \cup {k}) = c + 1
        BY <2>3, FS_AddElement
      <3>2. T \cup {k} = R
        BY <1>6
      <3> QED
        BY <3>1, <3>2
    <2>5. /\ t \in [1..c -> T] /\ ToSet(t) = T
          /\ \A i, j \in 1..c : i < j => t[i] < t[j]
      BY <2>2 DEF InOrder
    <2>6. \A i \in 1..c : t[i] \in Int /\ t[i] < k /\ t[i] \in R
      <3>1. \A x \in T : x \in R /\ x \in Int /\ x < k
        BY <2>1
      <3> QED
        BY <2>5, <3>1
    <2> HIDE DEF T, c
    <2> DEFINE s == [i \in 1..c + 1 |-> IF i = c + 1 THEN k ELSE t[i]]
    <2>7. \A i \in 1..c + 1 : i = c + 1 \/ i \in 1..c
      BY <2>3
    <2>8. 1..c \subseteq 1..c + 1 /\ c + 1 \in 1..c + 1 /\ c + 1 \notin 1..c
      BY <2>3
    <2>9. s \in [1..c + 1 -> R]
      BY <1>6, <2>6, <2>7
    <2>10. ToSet(s) = R
      <3>1. ASSUME NEW x \in R PROVE \E i \in 1..c + 1 : s[i] = x
        <4>1. CASE x = k
          BY <2>8, <4>1
        <4>2. CASE x # k
          <5>1. PICK i \in 1..c : t[i] = x
            BY <2>5, <4>2 DEF ToSet, T
          <5> QED
            BY <2>8, <5>1
        <4> QED
          BY <4>1, <4>2
      <3> QED
        BY <2>9, <3>1 DEF ToSet
    <2>11. ASSUME NEW i \in 1..c + 1, NEW j \in 1..c + 1, i < j PROVE s[i] < s[j]
      <3>1. i \in 1..c
        BY <2>3, <2>11
      <3>2. CASE j = c + 1
        BY <2>6, <2>8, <3>1, <3>2
      <3>3. CASE j # c + 1
        BY <2>5, <2>7, <2>8, <2>11, <3>1, <3>3
      <3> QED
        BY <3>2, <3>3
    <2>12. InOrder(s, R)
      BY <2>4, <2>9, <2>10, <2>11 DEF InOrder
    <2> QED
      BY <1>3, <2>12
  <1> QED
    BY <1>4, <1>5, <1>6

LEMMA AscendingInOrder ==
  ASSUME NEW n \in Nat, NEW S \in SUBSET (1..n)
  PROVE  /\ Ascending(S) \in Seq(S) /\ ToSet(Ascending(S)) = S
         /\ \A i, j \in DOMAIN Ascending(S) : i < j => Ascending(S)[i] < Ascending(S)[j]
  <1>1. \E s \in [1..Cardinality(S) -> S] :
          ToSet(s) = S /\ \A i, j \in DOMAIN s : i < j => s[i] < s[j]
    BY OrderExists DEF InOrder
  <1>2. /\ Ascending(S) \in [1..Cardinality(S) -> S] /\ ToSet(Ascending(S)) = S
        /\ \A i, j \in DOMAIN Ascending(S) : i < j => Ascending(S)[i] < Ascending(S)[j]
    BY <1>1 DEF Ascending
  <1>3. Cardinality(S) \in Nat
    <2>1. IsFiniteSet(1..n)
      BY FS_Interval
    <2> QED
      BY <2>1, FS_Subset, FS_CardinalityType
  <1> QED
    BY <1>2, <1>3, IsASeq

\* What a list has after another was put at its end.
LEMMA ListExtended ==
  ASSUME NEW s \in Seq(Nat), NEW t \in Seq(Nat)
  PROVE  /\ s \o t \in Seq(Nat)
         /\ ToSet(s \o t) = ToSet(s) \cup ToSet(t)
         /\ \A i \in DOMAIN (s \o t) :
              \/ i \in DOMAIN s /\ (s \o t)[i] = s[i]
              \/ i > Len(s) /\ i - Len(s) \in DOMAIN t /\ (s \o t)[i] = t[i - Len(s)]
  <1>1. /\ s \o t \in Seq(Nat) /\ Len(s \o t) = Len(s) + Len(t)
        /\ \A i \in 1..Len(s) + Len(t) :
             (s \o t)[i] = IF i <= Len(s) THEN s[i] ELSE t[i - Len(s)]
    BY ConcatProperties
  <1>2. /\ Len(s) \in Nat /\ Len(t) \in Nat /\ DOMAIN s = 1..Len(s) /\ DOMAIN t = 1..Len(t)
        /\ DOMAIN (s \o t) = 1..Len(s) + Len(t)
    BY <1>1, LenProperties
  <1>3. \A i \in DOMAIN (s \o t) :
          \/ i \in DOMAIN s /\ (s \o t)[i] = s[i]
          \/ i > Len(s) /\ i - Len(s) \in DOMAIN t /\ (s \o t)[i] = t[i - Len(s)]
    BY <1>1, <1>2
  <1>4. \A i \in DOMAIN s : i \in DOMAIN (s \o t) /\ (s \o t)[i] = s[i]
    BY <1>1, <1>2
  <1>5. \A i \in DOMAIN t : Len(s) + i \in DOMAIN (s \o t) /\ (s \o t)[Len(s) + i] = t[i]
    <2> TAKE i \in DOMAIN t
    <2>1. /\ Len(s) + i \in 1..Len(s) + Len(t) /\ ~(Len(s) + i <= Len(s))
          /\ (Len(s) + i) - Len(s) = i
      BY <1>2
    <2> QED
      BY <1>1, <1>2, <2>1
  <1>6. ToSet(s \o t) = ToSet(s) \cup ToSet(t)
    <2> DEFINE st == s \o t
    <2>1. \A i \in DOMAIN st : st[i] \in ToSet(s) \cup ToSet(t)
      BY <1>3 DEF ToSet
    <2>2. \A i \in DOMAIN s : s[i] \in {st[j] : j \in DOMAIN st}
      BY <1>4
    <2>3. \A i \in DOMAIN t : t[i] \in {st[j] : j \in DOMAIN st}
      BY <1>5
    <2> HIDE DEF st
    <2>4. ToSet(st) = ToSet(s) \cup ToSet(t)
      BY <2>1, <2>2, <2>3 DEF ToSet
    <2> QED
      BY <2>4 DEF st
  <1> QED
    BY <1>1, <1>3, <1>6

\* Two lists that ascend, one above the other.
LEMMA ListAscends ==
  ASSUME NEW s \in Seq(Nat), NEW t \in Seq(Nat),
         \A i, j \in DOMAIN s : i < j => s[i] < s[j],
         \A i, j \in DOMAIN t : i < j => t[i] < t[j],
         \A i \in DOMAIN s : \A j \in DOMAIN t : s[i] < t[j]
  PROVE  \A i, j \in DOMAIN (s \o t) : i < j => (s \o t)[i] < (s \o t)[j]
  <1> DEFINE st == s \o t
  <1>1. /\ Len(s) \in Nat /\ DOMAIN s = 1..Len(s)
        /\ \A i \in DOMAIN st :
             \/ i \in DOMAIN s /\ st[i] = s[i]
             \/ i > Len(s) /\ i - Len(s) \in DOMAIN t /\ st[i] = t[i - Len(s)]
    BY ListExtended, LenProperties
  <1>2. \A i \in DOMAIN st : i \in Int
    BY ListExtended, LenProperties
  <1> HIDE DEF st
  <1> SUFFICES ASSUME NEW i \in DOMAIN st, NEW j \in DOMAIN st, i < j PROVE st[i] < st[j]
    BY DEF st
  <1>3. CASE j \in DOMAIN s /\ st[j] = s[j]
    <2>1. i \in DOMAIN s /\ st[i] = s[i]
      BY <1>1, <1>2, <1>3
    <2> QED
      BY <1>3, <2>1
  <1>4. CASE j > Len(s) /\ j - Len(s) \in DOMAIN t /\ st[j] = t[j - Len(s)]
    <2>1. CASE i \in DOMAIN s /\ st[i] = s[i]
      BY <1>4, <2>1
    <2>2. CASE i > Len(s) /\ i - Len(s) \in DOMAIN t /\ st[i] = t[i - Len(s)]
      <3>1. i - Len(s) < j - Len(s)
        BY <1>1, <1>2
      <3> QED
        BY <1>4, <2>2, <3>1
    <2> QED
      BY <1>1, <2>1, <2>2
  <1> QED
    BY <1>1, <1>3, <1>4

\* The answer is the one line of a reply that tells anything.
LEMMA ReplyTells ==
  ASSUME ExchangeTypeOK, NEW cmd, NEW n \in Nat, NEW line \in Body(cmd, n)
  PROVE  LET reply == Reply(cmd, n, line) IN
         /\ reply[Len(reply)].kind = "prompt"
         /\ \E i \in 1..Len(reply) : reply[i] = line
         /\ \A i \in 1..Len(reply) : reply[i].kind \in {"value", "nodata"} => reply[i] = line
         /\ line.kind = "value" => cmd \in car.answers /\ line.pid = cmd
         /\ line.kind # "prompt" /\ line \in Tokens
  <1> DEFINE reply == Reply(cmd, n, line)
  <1>0. reply = Echo(cmd, n) \o <<line, Prompt(n)>>
    BY DEF Reply
  <1> HIDE DEF reply
  <1>1. car.answers \subseteq Nat
    BY LinkAssumption DEF LinkAssumption, ExchangeTypeOK
  <1>2. /\ line \in Tokens /\ line.kind # "prompt"
        /\ line.kind = "value" => cmd \in car.answers /\ line.pid = cmd
    <2>1. CASE cmd = ATZ
      BY <2>1 DEF Body, Line, Tokens, Kinds
    <2>2. CASE cmd # ATZ /\ cmd \in {ATE0, ATset}
      BY <2>2 DEF Body, Line, Tokens, Kinds
    <2>3. CASE cmd # ATZ /\ cmd \notin {ATE0, ATset} /\ cmd = Garbled
      BY <2>3 DEF Body, Line, Tokens, Kinds
    <2>4. CASE cmd # ATZ /\ cmd \notin {ATE0, ATset} /\ cmd # Garbled
      <3>1. \/ cmd \in car.answers /\ line = Line("value", cmd, n)
            \/ line = Line("nodata", 0, n)
        BY <2>4 DEF Body
      <3> QED
        BY <1>1, <3>1 DEF Line, Tokens, Kinds
    <2> QED
      BY <2>1, <2>2, <2>3, <2>4
  <1>3. Prompt(n) \in Tokens /\ Prompt(n).kind = "prompt"
    BY DEF Prompt, Line, Tokens, Kinds
  <1>4. \/ Echo(cmd, n) = <<>>
        \/ \E e \in Tokens : Echo(cmd, n) = <<e>> /\ e.kind \in {"text", "short"}
    BY DEF Echo, Line, Tokens, Kinds
  <1>5. CASE Echo(cmd, n) = <<>>
    <2>1. <<line, Prompt(n)>> \in Seq(Tokens)
      BY <1>2, <1>3, Pairs
    <2>2. reply = <<line, Prompt(n)>>
      BY <1>0, <1>5, <2>1, ConcatEmptySeq
    <2>3. /\ Len(<<line, Prompt(n)>>) = 2
          /\ <<line, Prompt(n)>>[1] = line /\ <<line, Prompt(n)>>[2] = Prompt(n)
      BY <1>2, <1>3, Pairs
    <2>4. Len(reply) = 2 /\ reply[1] = line /\ reply[2] = Prompt(n)
      BY <2>2, <2>3
    <2> QED
      BY <1>2, <1>3, <2>4 DEF reply
  <1>6. ASSUME NEW e \in Tokens, Echo(cmd, n) = <<e>>, e.kind \in {"text", "short"}
        PROVE  /\ reply[Len(reply)].kind = "prompt"
               /\ \E i \in 1..Len(reply) : reply[i] = line
               /\ \A i \in 1..Len(reply) :
                    reply[i].kind \in {"value", "nodata"} => reply[i] = line
    <2>1. /\ Len(reply) = 3
          /\ reply[1] = e /\ reply[2] = line /\ reply[3] = Prompt(n)
      BY <1>0, <1>2, <1>3, <1>6, Triples
    <2> QED
      BY <1>2, <1>3, <1>6, <2>1
  <1> QED
    BY <1>2, <1>4, <1>5, <1>6 DEF reply

OfTheCar(s) == \A i \in DOMAIN s : s[i].kind = "value" => s[i].pid \in car.answers

\* Only what the car answers is ever on the line.
LEMMA TokensStep ==
  ASSUME ExchangeTypeOK, OfTheCar(toPc), OfTheCar(buf), Next
  PROVE  car' = car /\ OfTheCar(toPc)' /\ OfTheCar(buf)'
  <1>1. car' = car
    BY DEF Next, Program, Send, SendFails, Read, TimeOut, Opened, GotMap, GotGuess, GotValue,
           Close, Respond, Unplug, Done, elmVars
  <1>2. ASSUME NEW k \in 0..Len(toPc), toPc' = SubSeq(toPc, k + 1, Len(toPc))
        PROVE  OfTheCar(toPc)'
    <2>1. /\ toPc' \in Seq(Tokens) /\ Len(toPc') = Len(toPc) - k
          /\ \A i \in 1..Len(toPc) - k : toPc'[i] = toPc[k + i]
      BY <1>2, TakenApart DEF ExchangeTypeOK
    <2>2. DOMAIN toPc' = 1..Len(toPc) - k /\ \A i \in DOMAIN toPc' : k + i \in DOMAIN toPc
      BY <2>1, LenProperties, LineElements
    <2> QED
      BY <1>1, <2>1, <2>2 DEF OfTheCar
  <1>3. ASSUME buf' = <<>> PROVE OfTheCar(buf)'
    BY <1>3 DEF OfTheCar
  <1>4. CASE Read
    <2>1. PICK k \in 1..Len(toPc) : /\ buf' = buf \o SubSeq(toPc, 1, k)
                                    /\ toPc' = SubSeq(toPc, k + 1, Len(toPc))
      BY <1>4 DEF Read
    <2>2. k \in 0..Len(toPc)
      BY <2>1, LineElements
    <2> DEFINE got == SubSeq(toPc, 1, k)
    <2>3. got \in Seq(Tokens) /\ Len(got) = k /\ \A i \in 1..k : got[i] = toPc[i]
      BY <2>2, TakenApart DEF ExchangeTypeOK
    <2> HIDE DEF got
    <2>4. /\ buf \o got \in Seq(Tokens) /\ Len(buf \o got) = Len(buf) + k
          /\ \A j \in 1..Len(buf) + k :
               (buf \o got)[j] = IF j <= Len(buf) THEN buf[j] ELSE got[j - Len(buf)]
      BY <2>3, ConcatProperties DEF ExchangeTypeOK
    <2>5. ASSUME NEW i \in DOMAIN buf', buf'[i].kind = "value" PROVE buf'[i].pid \in car.answers
      <3>1. i \in 1..Len(buf) + k
        BY <2>1, <2>4, LenProperties DEF got
      <3>2. CASE i <= Len(buf)
        <4>1. buf'[i] = buf[i] /\ i \in DOMAIN buf
          BY <2>1, <2>4, <3>1, <3>2, LineElements DEF got
        <4> QED
          BY <2>5, <4>1 DEF OfTheCar
      <3>3. CASE ~(i <= Len(buf))
        <4>1. i - Len(buf) \in 1..k /\ i - Len(buf) \in DOMAIN toPc
          BY <2>1, <3>1, <3>3, LineElements
        <4>2. buf'[i] = toPc[i - Len(buf)]
          BY <2>1, <2>3, <2>4, <3>1, <3>3, <4>1 DEF got
        <4> QED
          BY <2>5, <4>1, <4>2 DEF OfTheCar
      <3> QED
        BY <3>2, <3>3
    <2> QED
      BY <1>1, <1>2, <2>1, <2>2, <2>5 DEF OfTheCar
  <1>5. CASE TimeOut
    BY <1>1, <1>2, <1>3, <1>5 DEF TimeOut
  <1>6. CASE Respond
    <2>1. toAdapter # <<>> /\ buf' = buf
      BY <1>6 DEF Respond, ioVars
    <2>2. Head(toAdapter) \in Requests
      BY <2>1, HeadTailProperties DEF ExchangeTypeOK
    <2> DEFINE n == Head(toAdapter).n
               cmd == IF partial THEN Garbled ELSE Head(toAdapter).cmd
    <2>3. PICK line \in Body(cmd, n) : toPc' = toPc \o Reply(cmd, n, line)
      BY <1>6 DEF Respond
    <2>4. n \in Nat
      BY <2>2 DEF Requests
    <2> HIDE DEF n, cmd
    <2> DEFINE reply == Reply(cmd, n, line)
    <2>5. /\ reply \in Seq(Tokens) /\ Len(reply) \in {2, 3}
          /\ \A i \in 1..Len(reply) : reply[i].kind = "value" => reply[i].pid \in car.answers
      BY <2>4, ReplyTokens, ReplyTells
    <2> HIDE DEF reply
    <2>6. /\ toPc \o reply \in Seq(Tokens) /\ Len(toPc \o reply) = Len(toPc) + Len(reply)
          /\ \A i \in 1..Len(toPc) + Len(reply) : (toPc \o reply)[i] =
               IF i <= Len(toPc) THEN toPc[i] ELSE reply[i - Len(toPc)]
      BY <2>5, ConcatProperties DEF ExchangeTypeOK
    <2>7. ASSUME NEW i \in DOMAIN toPc', toPc'[i].kind = "value" PROVE toPc'[i].pid \in car.answers
      <3>1. i \in 1..Len(toPc) + Len(reply)
        BY <2>3, <2>6, LenProperties DEF reply
      <3>2. CASE i <= Len(toPc)
        <4>1. toPc'[i] = toPc[i] /\ i \in DOMAIN toPc
          BY <2>3, <2>6, <3>1, <3>2, LineElements DEF reply
        <4> QED
          BY <2>7, <4>1 DEF OfTheCar
      <3>3. CASE ~(i <= Len(toPc))
        <4>1. i - Len(toPc) \in 1..Len(reply) /\ toPc'[i] = reply[i - Len(toPc)]
          BY <2>3, <2>5, <2>6, <3>1, <3>3, LineElements DEF reply
        <4> QED
          BY <2>5, <2>7, <4>1
      <3> QED
        BY <3>2, <3>3
    <2> QED
      BY <1>1, <2>1, <2>7 DEF OfTheCar
  <1>7. CASE Send \/ SendFails
    <2>1. toPc' = toPc /\ buf' = <<>>
      BY <1>7 DEF Send, SendFails
    <2> QED
      BY <1>1, <1>3, <2>1 DEF OfTheCar
  <1>8. CASE Opened \/ GotMap \/ GotGuess \/ GotValue
    <2>1. toPc' = toPc /\ buf' = <<>>
      BY <1>8 DEF Opened, GotMap, GotGuess, GotValue, Done
    <2> QED
      BY <1>1, <1>3, <2>1 DEF OfTheCar
  <1>9. CASE Close \/ Unplug
    <2>1. toPc' = toPc /\ buf' = buf
      BY <1>9 DEF Close, Unplug, ioVars
    <2> QED
      BY <1>1, <2>1 DEF OfTheCar
  <1> QED
    BY <1>4, <1>5, <1>6, <1>7, <1>8, <1>9 DEF Next, Program

\* A bitmap's PIDs go at the end of the list, all of them above the others.
LEMMA MapListed ==
  ASSUME ExchangeTypeOK, CapsInv, phase = "caps"
  PROVE  LET new == Ascending(Claimed(pos) \cap Wishlist) IN
         /\ caps \o new \in Seq(Nat)
         /\ ToSet(caps \o new) = ToSet(caps) \cup (Claimed(pos) \cap Wishlist)
         /\ \A i, j \in DOMAIN (caps \o new) : i < j => (caps \o new)[i] < (caps \o new)[j]
         /\ \A i \in DOMAIN (caps \o new) :
              /\ (caps \o new)[i] \in {0} \cup (Wishlist \cap (car.claims \cup car.answers))
              /\ (caps \o new)[i] <= pos + PidsPerMap
  <1> DEFINE bits == Claimed(pos) \cap Wishlist
             new == Ascending(bits)
             top == pos + PidsPerMap
  <1>1. /\ pos \in Nat /\ PidsPerMap \in Nat /\ top \in Nat /\ pos <= top
        /\ caps \in Seq(Nat) /\ car.claims \subseteq Nat \ {0}
    BY LinkAssumption DEF LinkAssumption, ExchangeTypeOK, CapsInv
  <1>2. bits \in SUBSET (1..top) /\ \A x \in bits : pos < x /\ x <= top /\ x \in Nat
    BY <1>1 DEF Claimed, MapPids
  <1>3. bits \subseteq Wishlist \cap car.claims
    BY DEF Claimed
  <1> HIDE DEF bits, top
  <1>4. /\ new \in Seq(bits) /\ ToSet(new) = bits
        /\ \A i, j \in DOMAIN new : i < j => new[i] < new[j]
    BY <1>1, <1>2, AscendingInOrder
  <1> HIDE DEF new
  <1>5. \A i \in DOMAIN new : new[i] \in bits
    BY <1>4 DEF ToSet
  <1>6. new \in Seq(Nat)
    <2>1. Len(new) \in Nat /\ DOMAIN new = 1..Len(new) /\ new \in [1..Len(new) -> bits]
      BY <1>4, LenProperties
    <2>2. new \in [1..Len(new) -> Nat]
      BY <1>2, <2>1
    <2> QED
      BY <2>1, <2>2, IsASeq
  <1>7. \A i \in DOMAIN caps : caps[i] \in Nat /\ caps[i] <= pos
    BY <1>1, LenProperties, ElementOfSeq DEF CapsInv
  <1>8. \A i \in DOMAIN caps : \A j \in DOMAIN new : caps[i] < new[j]
    <2> TAKE i \in DOMAIN caps
    <2> TAKE j \in DOMAIN new
    <2>1. caps[i] \in Nat /\ caps[i] <= pos /\ new[j] \in Nat /\ pos < new[j]
      BY <1>2, <1>5, <1>7
    <2> QED
      BY <1>1, <2>1
  <1>9. \A i, j \in DOMAIN (caps \o new) : i < j => (caps \o new)[i] < (caps \o new)[j]
    BY <1>1, <1>4, <1>6, <1>8, ListAscends DEF CapsInv, CapsInOrder
  <1>10. /\ caps \o new \in Seq(Nat) /\ ToSet(caps \o new) = ToSet(caps) \cup bits
         /\ \A i \in DOMAIN (caps \o new) :
              \/ i \in DOMAIN caps /\ (caps \o new)[i] = caps[i]
              \/ i - Len(caps) \in DOMAIN new /\ (caps \o new)[i] = new[i - Len(caps)]
    BY <1>1, <1>4, <1>6, ListExtended
  <1>11. \A i \in DOMAIN (caps \o new) :
           /\ (caps \o new)[i] \in {0} \cup (Wishlist \cap (car.claims \cup car.answers))
           /\ (caps \o new)[i] <= top
    <2> TAKE i \in DOMAIN (caps \o new)
    <2>1. CASE i \in DOMAIN caps /\ (caps \o new)[i] = caps[i]
      BY <1>1, <1>7, <2>1 DEF CapsInv, CapsOfTheCar
    <2>2. CASE i - Len(caps) \in DOMAIN new /\ (caps \o new)[i] = new[i - Len(caps)]
      BY <1>2, <1>3, <1>5, <2>2
    <2> QED
      BY <1>10, <2>1, <2>2
  <1> QED
    BY <1>9, <1>10, <1>11 DEF bits, new, top

\* A PID that was guessed goes at the end of the list.
LEMMA GuessListed ==
  ASSUME ExchangeTypeOK, CapsInv, phase = "guess", pos \in Wishlist, pos \in car.answers
  PROVE  /\ Append(caps, pos) \in Seq(Nat)
         /\ ToSet(Append(caps, pos)) = ToSet(caps) \cup {pos}
         /\ \A i, j \in DOMAIN Append(caps, pos) :
              i < j => Append(caps, pos)[i] < Append(caps, pos)[j]
         /\ \A i \in DOMAIN Append(caps, pos) :
              /\ Append(caps, pos)[i] \in {0} \cup (Wishlist \cap (car.claims \cup car.answers))
              /\ Append(caps, pos)[i] < pos + 1
  <1> DEFINE new == <<pos>>
  <1>1. pos \in Nat /\ caps \in Seq(Nat) /\ new \in Seq(Nat)
    BY DEF ExchangeTypeOK, CapsInv
  <1>2. DOMAIN new = {1} /\ new[1] = pos /\ ToSet(new) = {pos}
    BY DEF ToSet
  <1>3. Append(caps, pos) = caps \o new
    BY <1>1, AppendIsConcat
  <1> HIDE DEF new
  <1>4. \A i \in DOMAIN caps : caps[i] \in Nat /\ caps[i] < pos
    BY <1>1, LenProperties, ElementOfSeq DEF CapsInv
  <1>5. \A i, j \in DOMAIN (caps \o new) : i < j => (caps \o new)[i] < (caps \o new)[j]
    <2>1. \A i, j \in DOMAIN caps : i < j => caps[i] < caps[j]
      BY DEF CapsInv, CapsInOrder
    <2>2. \A i, j \in DOMAIN new : ~(i < j)
      BY <1>2
    <2>3. \A i \in DOMAIN caps : \A j \in DOMAIN new : caps[i] < new[j]
      BY <1>2, <1>4
    <2> QED
      BY <1>1, <2>1, <2>2, <2>3, ListAscends
  <1>6. /\ caps \o new \in Seq(Nat) /\ ToSet(caps \o new) = ToSet(caps) \cup {pos}
        /\ \A i \in DOMAIN (caps \o new) :
             \/ i \in DOMAIN caps /\ (caps \o new)[i] = caps[i]
             \/ (caps \o new)[i] = pos
    BY <1>1, <1>2, ListExtended
  <1>7. \A i \in DOMAIN (caps \o new) :
          /\ (caps \o new)[i] \in {0} \cup (Wishlist \cap (car.claims \cup car.answers))
          /\ (caps \o new)[i] < pos + 1
    <2> TAKE i \in DOMAIN (caps \o new)
    <2>1. CASE i \in DOMAIN caps /\ (caps \o new)[i] = caps[i]
      BY <1>1, <1>4, <2>1 DEF CapsInv, CapsOfTheCar
    <2>2. CASE (caps \o new)[i] = pos
      BY <1>1, <2>2
    <2> QED
      BY <1>6, <2>1, <2>2
  <1> QED
    BY <1>3, <1>5, <1>6, <1>7

\* The list stays one that can be searched, of what this car claims or answers.
LEMMA CapsStep ==
  ASSUME ExchangeTypeOK, CapsInv, Next
  PROVE  CapsInv'
  <1>1. car' = car /\ OfTheCar(toPc)' /\ OfTheCar(buf)'
    BY TokensStep DEF CapsInv, OfTheCar
  <1>2. CapsInv' <=>
          /\ caps' \in Seq(Nat) /\ CapsInOrder' /\ CapsOfTheCar'
          /\ phase' = "open" => caps' = <<0>>
          /\ phase' = "caps" => \A i \in DOMAIN caps' : caps'[i] <= pos'
          /\ phase' = "guess" => \A i \in DOMAIN caps' : caps'[i] < pos'
    BY <1>1 DEF CapsInv, OfTheCar
  <1>3. caps \in Seq(Nat) /\ pos \in Nat /\ \A i \in DOMAIN caps : caps[i] \in Nat
    BY LenProperties, ElementOfSeq DEF ExchangeTypeOK, CapsInv
  <1>4. ASSUME caps' = caps PROVE caps' \in Seq(Nat) /\ CapsInOrder' /\ CapsOfTheCar'
    BY <1>1, <1>4 DEF CapsInv, CapsInOrder, CapsOfTheCar
  <1>5. CASE Send \/ SendFails \/ Read \/ TimeOut \/ Respond \/ Unplug
    <2>1. phase' = phase /\ pos' = pos /\ caps' = caps
      BY <1>5 DEF Send, SendFails, Read, TimeOut, Respond, Unplug, progVars
    <2>2. /\ phase' = "open" => caps' = <<0>>
          /\ phase' = "caps" => \A i \in DOMAIN caps' : caps'[i] <= pos'
          /\ phase' = "guess" => \A i \in DOMAIN caps' : caps'[i] < pos'
      BY <2>1 DEF CapsInv
    <2> QED
      BY <1>2, <1>4, <2>1, <2>2
  <1>6. CASE GotValue \/ Close
    <2>1. caps' = caps
      BY <1>6 DEF GotValue, Close
    <2>2. phase' \in {"round", "closed"}
      <3>1. CASE GotValue
        <4>1. Status(Cmd) \in {"error", "nodata", "success"}
          BY DEF Status
        <4>2. phase = "round" /\ (phase' = phase \/ NextRound)
          BY <3>1, <4>1 DEF GotValue
        <4> QED
          BY <4>2 DEF NextRound
      <3>2. CASE Close
        BY <3>2 DEF Close
      <3> QED
        BY <1>6, <3>1, <3>2
    <2> QED
      BY <1>2, <1>4, <2>1, <2>2
  <1>7. CASE Opened
    <2>1. /\ caps' = caps /\ caps = <<0>>
          /\ phase' = "open" \/ (phase' = "caps" /\ pos' = 0)
      BY <1>7 DEF Opened, CapsInv
    <2>2. DOMAIN caps' = {1} /\ caps'[1] = 0
      BY <2>1
    <2> QED
      BY <1>2, <1>4, <2>1, <2>2
  <1>8. CASE GotMap
    <2> DEFINE new == Ascending(Claimed(pos) \cap Wishlist)
    <2>1. /\ phase = "caps"
          /\ \/ NextRound /\ caps' = caps
             \/ phase' = "guess" /\ pos' = 1 /\ pos = 0 /\ caps' = caps
             \/ /\ caps' = caps \o new
                /\ (pos' = pos + PidsPerMap /\ phase' = phase) \/ NextRound
      BY <1>8 DEF GotMap
    <2>2. /\ caps \o new \in Seq(Nat)
          /\ \A i, j \in DOMAIN (caps \o new) : i < j => (caps \o new)[i] < (caps \o new)[j]
          /\ \A i \in DOMAIN (caps \o new) :
               /\ (caps \o new)[i] \in {0} \cup (Wishlist \cap (car.claims \cup car.answers))
               /\ (caps \o new)[i] <= pos + PidsPerMap
      BY <2>1, MapListed
    <2> HIDE DEF new
    <2>3. CASE NextRound /\ caps' = caps
      BY <1>2, <1>4, <2>3 DEF NextRound
    <2>4. CASE phase' = "guess" /\ pos' = 1 /\ pos = 0 /\ caps' = caps
      <3>1. \A i \in DOMAIN caps' : caps'[i] < pos'
        BY <1>3, <2>1, <2>4 DEF CapsInv
      <3> QED
        BY <1>2, <1>4, <2>4, <3>1
    <2>5. CASE caps' = caps \o new /\ ((pos' = pos + PidsPerMap /\ phase' = phase) \/ NextRound)
      <3>1. caps' \in Seq(Nat) /\ CapsInOrder' /\ CapsOfTheCar'
        BY <1>1, <2>2, <2>5 DEF CapsInOrder, CapsOfTheCar
      <3> QED
        BY <1>2, <2>1, <2>2, <2>5, <3>1 DEF NextRound
    <2> QED
      BY <2>1, <2>3, <2>4, <2>5
  <1>9. CASE GotGuess
    <2>1. /\ phase = "guess"
          /\ (phase' = phase /\ pos' = pos + 1) \/ NextRound
          /\ \/ caps' = caps
             \/ Status(pos) = "success" /\ pos \in Wishlist /\ caps' = Append(caps, pos)
      BY <1>9 DEF GotGuess
    <2>2. CASE caps' = caps
      <3>1. phase' = "guess" => \A i \in DOMAIN caps' : caps'[i] < pos'
        BY <1>3, <2>1, <2>2 DEF CapsInv, NextRound
      <3> QED
        BY <1>2, <1>4, <2>1, <2>2, <3>1 DEF NextRound
    <2>3. CASE Status(pos) = "success" /\ pos \in Wishlist /\ caps' = Append(caps, pos)
      <3>1. pos \in car.answers
        <4>1. Answers(pos) # {}
          BY <2>3 DEF Status
        <4> QED
          BY <4>1 DEF Answers, IsAnswer, CapsInv
      <3>2. /\ caps' \in Seq(Nat)
            /\ \A i, j \in DOMAIN caps' : i < j => caps'[i] < caps'[j]
            /\ \A i \in DOMAIN caps' :
                 /\ caps'[i] \in {0} \cup (Wishlist \cap (car.claims \cup car.answers))
                 /\ caps'[i] < pos + 1
        BY <2>1, <2>3, <3>1, GuessListed
      <3>3. CapsInOrder' /\ CapsOfTheCar'
        BY <1>1, <3>2 DEF CapsInOrder, CapsOfTheCar
      <3> QED
        BY <1>2, <2>1, <3>2, <3>3 DEF NextRound
    <2> QED
      BY <2>1, <2>2, <2>3
  <1> QED
    BY <1>5, <1>6, <1>7, <1>8, <1>9 DEF Next, Program

-----------------------------------------------------------------------------
(* The exchange while the capabilities are read and nothing goes wrong.    *)

\* Three sequences in a row.
LEMMA Regrouped ==
  ASSUME NEW a \in Seq(Tokens), NEW b \in Seq(Tokens), NEW c \in Seq(Tokens)
  PROVE  (a \o b) \o c = a \o (b \o c)
  BY ConcatAssociative

\* What a read takes from the line it puts behind what there was.
LEMMA ReadMoves ==
  ASSUME ExchangeTypeOK, NEW k \in 1..Len(toPc),
         buf' = buf \o SubSeq(toPc, 1, k), toPc' = SubSeq(toPc, k + 1, Len(toPc))
  PROVE  /\ buf' \o toPc' = buf \o toPc
         /\ k = Len(toPc) => toPc' = <<>> /\ buf' = buf \o toPc
         /\ k # Len(toPc) => toPc' # <<>>
  <1>1. buf \in Seq(Tokens) /\ toPc \in Seq(Tokens) /\ Len(toPc) \in Nat /\ k \in 0..Len(toPc)
    BY LenProperties DEF ExchangeTypeOK
  <1> DEFINE got == SubSeq(toPc, 1, k)
             rest == SubSeq(toPc, k + 1, Len(toPc))
  <1>2. got \in Seq(Tokens) /\ rest \in Seq(Tokens) /\ Len(rest) = Len(toPc) - k
    BY <1>1, TakenApart
  <1>3. got \o rest = toPc
    <2>1. 1 \in 1..Len(toPc) + 1 /\ k \in 1 - 1..Len(toPc) /\ Len(toPc) \in k..Len(toPc)
      BY <1>1
    <2>2. got \o rest = SubSeq(toPc, 1, Len(toPc))
      BY <1>1, <2>1, ConcatAdjacentSubSeq
    <2> QED
      BY <1>1, <2>2, SubSeqFull
  <1> HIDE DEF got, rest
  <1>4. (buf \o got) \o rest = buf \o (got \o rest)
    <2>1. buf \in Seq(Tokens) /\ got \in Seq(Tokens) /\ rest \in Seq(Tokens)
      BY <1>1, <1>2
    <2> QED
      BY <2>1, Regrouped
  <1>5. buf' \o toPc' = buf \o toPc
    BY <1>3, <1>4 DEF got, rest
  <1>6. CASE k = Len(toPc)
    <2>1. rest = <<>>
      BY <1>1, <1>2, <1>6, EmptySeq
    <2>2. toPc' = <<>> /\ buf' \o <<>> = buf \o toPc
      BY <1>5, <2>1 DEF rest
    <2>3. buf' \in Seq(Tokens)
      BY <1>1, <1>2, ConcatProperties DEF got
    <2>4. buf' \o <<>> = buf'
      BY <2>3, ConcatEmptySeq
    <2> QED
      BY <1>5, <1>6, <2>2, <2>4
  <1>7. CASE k # Len(toPc)
    <2>1. Len(rest) # 0
      BY <1>1, <1>2, <1>7
    <2>2. rest # <<>>
      BY <2>1, EmptySeq
    <2> QED
      BY <1>5, <1>7, <2>2 DEF rest
  <1> QED
    BY <1>6, <1>7, <1>5

\* Whatever was not late or refused before cannot become so.
LEMMA StaysUndisturbed ==
  ASSUME ExchangeTypeOK, Next, Undisturbed'
  PROVE  Undisturbed /\ ~TimeOut /\ ~Unplug /\ ~SendFails /\ refusals' = 0
  <1>1. timeouts \in Nat /\ refusals \in Nat
    BY DEF ExchangeTypeOK
  <1>2. CASE Respond
    <2>1. refusals' = refusals \/ refusals' = refusals + 1
      BY <1>2 DEF Respond
    <2>2. UNCHANGED <<plugged, timeouts, leftover>>
      BY <1>2 DEF Respond
    <2>3. ~TimeOut /\ ~Unplug /\ ~SendFails
      BY <1>1, <1>2, <2>2 DEF TimeOut, Unplug, SendFails, Undisturbed
    <2> QED
      BY <1>1, <2>1, <2>2, <2>3 DEF Undisturbed
  <1>3. CASE ~Respond
    <2>1. ~TimeOut
      BY <1>1 DEF TimeOut, Undisturbed
    <2>2. ~Unplug
      BY DEF Unplug, Undisturbed
    <2>3. UNCHANGED <<plugged, oddVars>>
      BY <1>3, <2>1, <2>2 DEF Next, Program, Send, SendFails, Read, Opened, GotMap, GotGuess,
                             GotValue, Close, Done, elmVars
    <2>4. ~SendFails
      BY <2>3 DEF SendFails, Undisturbed
    <2> QED
      BY <2>1, <2>2, <2>3, <2>4 DEF Undisturbed, oddVars
  <1> QED
    BY <1>2, <1>3

\* The adapter's answer to the one request under way is a whole reply.
LEMMA RespondWhole ==
  ASSUME ExchangeTypeOK, Respond, refusals' = 0, phase \in {"open", "caps", "guess"},
         toAdapter = <<[cmd |-> Cmd, n |-> sent]>>, toPc = <<>>, buf = <<>>,
         partial => phase = "open"
  PROVE  toPc' # <<>> /\ WholeReply(buf \o toPc)' /\ toAdapter' = <<>>
  <1> DEFINE cmd == IF partial THEN Garbled ELSE Cmd
  <1>1. toAdapter # <<>> /\ Head(toAdapter) = [cmd |-> Cmd, n |-> sent] /\ Tail(toAdapter) = <<>>
    OBVIOUS
  <1>2. /\ toAdapter' = <<>> /\ buf' = buf /\ phase' = phase /\ pos' = pos /\ car' = car
        /\ sent \in Nat /\ refusals \in Nat /\ pos \in Nat
    BY <1>1 DEF Respond, ioVars, progVars, ExchangeTypeOK
  <1>3. PICK line \in Body(cmd, sent) :
          /\ toPc' = toPc \o Reply(cmd, sent, line)
          /\ refusals' = IF cmd \in car.answers /\ line.kind = "nodata"
                         THEN refusals + 1 ELSE refusals
    BY <1>1 DEF Respond
  <1> DEFINE reply == Reply(cmd, sent, line)
  <1> HIDE DEF cmd
  <1>4. /\ reply \in Seq(Tokens) /\ Len(reply) \in {2, 3}
        /\ \A i \in 1..Len(reply) : reply[i].kind = "prompt" => i = Len(reply)
    BY <1>2, <1>3, ReplyTokens
  <1>5. /\ reply[Len(reply)].kind = "prompt"
        /\ \E i \in 1..Len(reply) : reply[i] = line
        /\ \A i \in 1..Len(reply) : reply[i].kind \in {"value", "nodata"} => reply[i] = line
        /\ line.kind = "value" => cmd \in car.answers /\ line.pid = cmd
    BY <1>2, <1>3, ReplyTells
  <1> HIDE DEF reply
  <1>6. DOMAIN reply = 1..Len(reply) /\ toPc' = reply /\ buf' \o toPc' = reply
    <2>1. toPc' = <<>> \o reply /\ buf' = <<>>
      BY <1>2, <1>3 DEF reply
    <2>2. toPc' = reply
      BY <1>4, <2>1, ConcatEmptySeq
    <2> QED
      BY <1>4, <2>1, <2>2, ConcatEmptySeq, LenProperties
  <1>7. reply # <<>> /\ \A i \in DOMAIN reply : reply[i].kind = "prompt" <=> i = Len(reply)
    <2>1. reply # <<>>
      BY <1>4, EmptySeq
    <2> QED
      BY <1>4, <1>5, <1>6, <2>1
  <1>8. ASSUME phase # "open", pos \in car.answers
        PROVE  /\ \E i \in DOMAIN reply : IsAnswer(reply[i], pos)
               /\ \A i \in DOMAIN reply : reply[i].kind # "nodata"
    <2>1. cmd = pos
      BY <1>8 DEF cmd, Cmd
    <2>2. cmd # ATZ /\ cmd \notin {ATE0, ATset} /\ cmd # Garbled
      BY <1>2, <2>1 DEF ATZ, ATE0, ATset, Garbled
    <2>3. line.kind # "nodata"
      BY <1>2, <1>3, <1>8, <2>1
    <2>4. line = Line("value", cmd, sent)
      BY <1>3, <2>2, <2>3 DEF Body, Line
    <2>5. line.kind = "value" /\ line.pid = pos
      BY <2>1, <2>4 DEF Line
    <2> QED
      BY <1>5, <1>6, <2>3, <2>5 DEF IsAnswer
  <1>9. ASSUME phase # "open", pos \notin car.answers
        PROVE  \A i \in DOMAIN reply : ~IsAnswer(reply[i], pos)
    <2>1. cmd = pos
      BY <1>9 DEF cmd, Cmd
    <2> QED
      BY <1>5, <1>6, <1>9, <2>1 DEF IsAnswer
  <1>10. WholeReply(buf \o toPc)'
    BY <1>2, <1>6, <1>7, <1>8, <1>9 DEF WholeReply, IsAnswer
  <1> QED
    BY <1>2, <1>6, <1>7, <1>10

\* One request or one reply at a time.
LEMMA ExchangeStep ==
  ASSUME ExchangeTypeOK, ExchangeInv, Next
  PROVE  ExchangeInv'
  <1> SUFFICES ASSUME Undisturbed', phase' \in {"open", "caps", "guess"}
               PROVE  Exchange'
    BY DEF ExchangeInv
  <1>1. Undisturbed /\ ~TimeOut /\ ~Unplug /\ ~SendFails /\ refusals' = 0
    BY StaysUndisturbed
  <1>2. ~Close
    BY DEF Close
  <1>3. CASE GotValue
    <2>1. Status(Cmd) \in {"error", "nodata", "success"}
      BY DEF Status
    <2>2. phase = "round" /\ (phase' = phase \/ NextRound)
      BY <1>3, <2>1 DEF GotValue
    <2> QED
      BY <2>2 DEF NextRound
  <1>5. CASE Send \/ Read \/ Respond
    <2>1. /\ phase' = phase /\ pos' = pos /\ caps' = caps /\ car' = car
          /\ phase \in {"open", "caps", "guess"} /\ Exchange
      <3>1. phase' = phase /\ pos' = pos /\ caps' = caps /\ car' = car
        BY <1>5 DEF Send, Read, Respond, progVars, elmVars
      <3> QED
        BY <1>1, <3>1 DEF ExchangeInv
    <2>2. Cmd' = Cmd
      BY <2>1 DEF Cmd
    <2>3. CASE Send
      <3>1. /\ io = "none" /\ io' = "reading" /\ buf' = <<>> /\ toPc' = toPc /\ partial' = partial
            /\ toAdapter' = Append(toAdapter, [cmd |-> Cmd, n |-> sent'])
        BY <2>3 DEF Send, elmVars
      <3>2. toAdapter = <<>> /\ toPc = <<>> /\ (partial => phase = "open" /\ pos = 1)
        BY <2>1, <3>1 DEF Exchange
      <3>3. Append(<<>>, [cmd |-> Cmd, n |-> sent']) = <<[cmd |-> Cmd, n |-> sent']>>
        OBVIOUS
      <3>4. toAdapter' = <<[cmd |-> Cmd', n |-> sent']>>
        BY <2>2, <3>1, <3>2, <3>3
      <3> QED
        BY <2>1, <3>1, <3>2, <3>4 DEF Exchange
    <2>4. CASE Read
      <3>1. PICK k \in 1..Len(toPc) :
              /\ buf' = buf \o SubSeq(toPc, 1, k)
              /\ toPc' = SubSeq(toPc, k + 1, Len(toPc))
              /\ io' = IF toPc[k].kind = "prompt" THEN "reply" ELSE "reading"
        BY <2>4 DEF Read
      <3>2. io = "reading" /\ toAdapter' = toAdapter /\ partial' = partial
        BY <2>4 DEF Read, elmVars
      <3>3. /\ buf \in Seq(Tokens) /\ toPc \in Seq(Tokens)
            /\ Len(buf) \in Nat /\ Len(toPc) \in Nat /\ k \in Nat /\ 1 <= k /\ k <= Len(toPc)
        BY LineElements DEF ExchangeTypeOK
      <3>4. toPc # <<>>
        BY <3>3, EmptySeq
      <3> DEFINE all == buf \o toPc
      <3>5. WholeReply(all) /\ toAdapter = <<>> /\ ~partial
        BY <2>1, <3>2, <3>4 DEF Exchange
      <3>6. /\ all \in Seq(Tokens) /\ Len(all) = Len(buf) + Len(toPc)
            /\ Len(buf) + k \in DOMAIN all /\ all[Len(buf) + k] = toPc[k]
        <4>1. /\ all \in Seq(Tokens) /\ Len(all) = Len(buf) + Len(toPc)
              /\ \A i \in 1..Len(buf) + Len(toPc) :
                   all[i] = IF i <= Len(buf) THEN buf[i] ELSE toPc[i - Len(buf)]
          BY <3>3, ConcatProperties
        <4>2. /\ Len(buf) + k \in 1..Len(buf) + Len(toPc) /\ ~(Len(buf) + k <= Len(buf))
              /\ (Len(buf) + k) - Len(buf) = k
          BY <3>3
        <4>3. DOMAIN all = 1..Len(all)
          BY <4>1, LenProperties
        <4> HIDE DEF all
        <4> QED
          BY <4>1, <4>2, <4>3
      <3> HIDE DEF all
      <3>7. toPc[k].kind = "prompt" <=> k = Len(toPc)
        <4>1. all[Len(buf) + k].kind = "prompt" <=> Len(buf) + k = Len(all)
          BY <3>5, <3>6 DEF WholeReply
        <4> QED
          BY <3>3, <3>6, <4>1
      <3>8. /\ buf' \o toPc' = all
            /\ k = Len(toPc) => toPc' = <<>> /\ buf' = all
            /\ k # Len(toPc) => toPc' # <<>>
        BY <3>1, ReadMoves DEF all
      <3>9. CASE k = Len(toPc)
        <4>1. io' = "reply" /\ toPc' = <<>> /\ buf' = all
          BY <3>1, <3>7, <3>8, <3>9
        <4>2. WholeReply(buf)'
          BY <2>1, <3>5, <4>1 DEF WholeReply, IsAnswer
        <4> QED
          BY <3>2, <3>5, <4>1, <4>2 DEF Exchange
      <3>10. CASE k # Len(toPc)
        <4>1. io' = "reading" /\ toPc' # <<>> /\ buf' \o toPc' = all
          BY <3>1, <3>7, <3>8, <3>10
        <4>2. WholeReply(buf \o toPc)'
          BY <2>1, <3>5, <4>1 DEF WholeReply, IsAnswer
        <4> QED
          BY <3>2, <3>5, <4>1, <4>2 DEF Exchange
      <3> QED
        BY <3>9, <3>10
    <2>5. CASE Respond
      <3>1. toAdapter # <<>> /\ partial' = FALSE /\ io' = io
        BY <2>5 DEF Respond, ioVars
      <3>2. /\ io = "reading" /\ toPc = <<>> /\ buf = <<>>
            /\ toAdapter = <<[cmd |-> Cmd, n |-> sent]>> /\ (partial => phase = "open")
        BY <2>1, <3>1, LineElements DEF Exchange, ExchangeTypeOK
      <3>3. toPc' # <<>> /\ WholeReply(buf \o toPc)' /\ toAdapter' = <<>>
        BY <1>1, <2>1, <2>5, <3>2, RespondWhole
      <3> QED
        BY <3>1, <3>2, <3>3 DEF Exchange
    <2> QED
      BY <1>5, <2>3, <2>4, <2>5
  <1>6. CASE Opened \/ GotMap \/ GotGuess
    <2>1. /\ phase \in {"open", "caps", "guess"} /\ Finished
          /\ io' = "none" /\ buf' = <<>> /\ toAdapter' = toAdapter /\ toPc' = toPc
          /\ partial' = partial
      BY <1>6 DEF Opened, GotMap, GotGuess, Done, elmVars
    <2>2. Exchange
      BY <1>1, <2>1 DEF ExchangeInv
    <2>3. toAdapter = <<>> /\ toPc = <<>> /\ ~partial
      BY <2>1, <2>2 DEF Exchange, Finished
    <2> QED
      BY <2>1, <2>3 DEF Exchange
  <1> QED
    BY <1>1, <1>2, <1>3, <1>5, <1>6 DEF Next, Program

\* Then a bitmap or a guess succeeds if the car answers it, and only then.
LEMMA StatusTells ==
  ASSUME Exchange, phase \in {"caps", "guess"}, Finished
  PROVE  Status(pos) = "success" <=> pos \in car.answers
  <1>1. io = "reply" /\ WholeReply(buf)
    BY DEF Exchange, Finished
  <1>2. CASE pos \in car.answers
    <2>1. /\ \E i \in DOMAIN buf : IsAnswer(buf[i], pos)
          /\ \A i \in DOMAIN buf : buf[i].kind # "nodata"
      BY <1>1, <1>2 DEF WholeReply
    <2>2. ~NoData /\ Answers(pos) # {}
      BY <2>1 DEF NoData, Answers
    <2>3. ~NoLines
      BY <2>1 DEF NoLines, IsAnswer
    <2> QED
      BY <1>1, <1>2, <2>2, <2>3 DEF Status
  <1>3. CASE pos \notin car.answers
    <2>1. Answers(pos) = {}
      BY <1>1, <1>3 DEF WholeReply, Answers
    <2> QED
      BY <1>3, <2>1 DEF Status
  <1> QED
    BY <1>2, <1>3

-----------------------------------------------------------------------------
(* What has been found of what the car can tell.                           *)

\* Bitmaps are asked for by multiples of their size.
LEMMA NextMap ==
  ASSUME NEW p \in Nat, NEW N \in Nat \ {0}, p % N = 0
  PROVE  (p + N) % N = 0
  <1> DEFINE q == p \div N
  <1>1. q \in Nat /\ p = N * q
    OBVIOUS
  <1> HIDE DEF q
  <1>2. p + N = N * (q + 1) /\ q + 1 \in Nat
    BY <1>1
  <1>3. \A m \in Nat : (N * m) % N = 0
    OBVIOUS
  <1> QED
    BY <1>2, <1>3

\* Everything reachable and wished for is in the list once a bitmap was added.
LEMMA MapCovers ==
  ASSUME ExchangeTypeOK, CapsInv, phase = "caps",
         \A pid \in Reachable \cap Wishlist : pid <= pos => pid \in ToSet(caps),
         NEW pid \in Reachable \cap Wishlist, pid <= pos + PidsPerMap
  PROVE  pid \in ToSet(caps \o Ascending(Claimed(pos) \cap Wishlist))
  <1>1. pos \in Nat /\ pid \in car.claims /\ pid \in Nat /\ PidsPerMap \in Nat
    BY LinkAssumption DEF LinkAssumption, Reachable, ExchangeTypeOK
  <1>2. CASE pid <= pos
    BY <1>2, MapListed
  <1>3. CASE ~(pid <= pos)
    <2>1. pid \in Claimed(pos)
      BY <1>1, <1>3 DEF Claimed, MapPids
    <2> QED
      BY <2>1, MapListed
  <1> QED
    BY <1>2, <1>3

\* A PID beyond a bitmap that the car does not have, or does not answer for,
\* cannot be reached.
LEMMA BeyondLastMap ==
  ASSUME ExchangeTypeOK, NEW m \in Nat \ {0}, m % PidsPerMap = 0,
         m \notin car.claims \/ m \notin car.answers,
         NEW pid \in Reachable
  PROVE  pid <= m
  <1>1. pid \in Nat
    BY LinkAssumption DEF LinkAssumption, Reachable, ExchangeTypeOK
  <1>2. SUFFICES ASSUME ~(pid <= m) PROVE FALSE
    OBVIOUS
  <1>3. m \in 1..pid - 1
    BY <1>1, <1>2
  <1> QED
    BY <1>3 DEF Reachable

\* Each bitmap or guess adds all of its own.
LEMMA FoundStep ==
  ASSUME ExchangeTypeOK, CapsInv, ExchangeInv, FoundInv, CapsComplete, Next
  PROVE  FoundInv' /\ CapsComplete'
  <1> SUFFICES ASSUME Undisturbed', 0 \in car'.answers
               PROVE  FoundInv' /\ CapsComplete'
    BY DEF FoundInv, CapsComplete
  <1>1. Undisturbed
    BY StaysUndisturbed
  <1>2. car' = car
    BY TokensStep DEF CapsInv, OfTheCar
  <1>3. 0 \in car.answers /\ Claimed(0)' = Claimed(0) /\ Reachable' = Reachable /\ Expected' = Expected
    BY <1>2 DEF Claimed, Reachable, Expected, MapPids
  <1>4. /\ pos \in Nat /\ PidsPerMap \in Nat \ {0} /\ LastGuess \in Nat
        /\ Wishlist \subseteq Nat \ {0} /\ car.answers \subseteq Nat
        /\ car.claims \subseteq Nat \ {0} /\ Reachable \subseteq Nat \ {0}
    BY LinkAssumption DEF LinkAssumption, Reachable, ExchangeTypeOK
  <1>5. /\ phase = "caps" =>
             /\ pos % PidsPerMap = 0 /\ (pos > 0 => Claimed(0) # {})
             /\ \A pid \in Reachable \cap Wishlist : pid <= pos => pid \in ToSet(caps)
        /\ phase = "guess" =>
             /\ Claimed(0) = {}
             /\ \A pid \in car.answers \cap Wishlist : pid < pos => pid \in ToSet(caps)
        /\ phase \in {"round", "closed"} => Expected \cap Wishlist \subseteq ToSet(caps)
    BY <1>1, <1>3 DEF FoundInv, CapsComplete
  <1>6. (FoundInv' /\ CapsComplete') <=>
          /\ phase' \in {"round", "closed"} => Expected \cap Wishlist \subseteq ToSet(caps')
          /\ phase' = "caps" =>
               /\ pos' % PidsPerMap = 0 /\ (pos' > 0 => Claimed(0) # {})
               /\ \A pid \in Reachable \cap Wishlist : pid <= pos' => pid \in ToSet(caps')
          /\ phase' = "guess" =>
               /\ Claimed(0) = {}
               /\ \A pid \in car.answers \cap Wishlist : pid < pos' => pid \in ToSet(caps')
    BY <1>2, <1>3 DEF FoundInv, CapsComplete
  <1>7. CASE Send \/ SendFails \/ Read \/ TimeOut \/ Respond \/ Unplug
    <2>1. phase' = phase /\ pos' = pos /\ caps' = caps
      BY <1>7 DEF Send, SendFails, Read, TimeOut, Respond, Unplug, progVars
    <2> QED
      BY <1>5, <1>6, <2>1
  <1>8. CASE GotValue \/ Close
    <2>1. phase = "round" /\ caps' = caps
      BY <1>8 DEF GotValue, Close
    <2>2. phase' \in {"round", "closed"}
      <3>1. CASE GotValue
        <4>1. Status(Cmd) \in {"error", "nodata", "success"}
          BY DEF Status
        <4>2. phase' = phase \/ NextRound
          BY <3>1, <4>1 DEF GotValue
        <4> QED
          BY <2>1, <4>2 DEF NextRound
      <3>2. CASE Close
        BY <3>2 DEF Close
      <3> QED
        BY <1>8, <3>1, <3>2
    <2> QED
      BY <1>5, <1>6, <2>1, <2>2
  <1>9. CASE Opened
    <2>1. \/ phase' = "open"
          \/ phase' = "caps" /\ pos' = 0
      BY <1>9 DEF Opened
    <2>2. 0 % PidsPerMap = 0 /\ \A pid \in Reachable \cap Wishlist : ~(pid <= 0)
      <3>1. 0 % PidsPerMap = 0
        BY LinkAssumption
      <3>2. \A pid \in Reachable \cap Wishlist : pid \in Nat \ {0}
        BY <1>4
      <3> QED
        BY <1>4, <3>1, <3>2
    <2>3. phase' \notin {"round", "closed", "guess"}
      BY <2>1
    <2>4. phase' = "caps" => pos' = 0
      BY <2>1
    <2>5. phase' = "caps" =>
            /\ pos' % PidsPerMap = 0 /\ ~(pos' > 0)
            /\ \A pid \in Reachable \cap Wishlist : ~(pid <= pos')
      BY <2>2, <2>4
    <2> QED
      BY <1>6, <2>3, <2>5
  <1>10. CASE GotMap
    <2> DEFINE new == Ascending(Claimed(pos) \cap Wishlist)
    <2>1. phase = "caps" /\ Finished
      BY <1>10 DEF GotMap
    <2>2. Status(pos) = "success" <=> pos \in car.answers
      BY <1>1, <2>1, StatusTells DEF ExchangeInv
    <2>3. CASE pos \notin car.answers
      <3>1. NextRound /\ caps' = caps
        BY <1>10, <2>2, <2>3 DEF GotMap
      <3>2. pos \in Nat \ {0} /\ pos > 0
        BY <1>3, <1>4, <2>3
      <3>3. Expected = Reachable
        BY <1>5, <2>1, <3>2 DEF Expected
      <3>4. \A pid \in Reachable : pid <= pos
        BY <1>5, <2>1, <2>3, <3>2, BeyondLastMap
      <3>5. Expected \cap Wishlist \subseteq ToSet(caps')
        BY <1>5, <2>1, <3>1, <3>3, <3>4
      <3> QED
        BY <1>6, <3>1, <3>5 DEF NextRound
    <2>4. CASE pos \in car.answers /\ pos = 0 /\ Claimed(0) = {}
      <3>1. phase' = "guess" /\ pos' = 1 /\ caps' = caps
        BY <1>10, <2>2, <2>4 DEF GotMap
      <3>2. \A pid \in car.answers \cap Wishlist : ~(pid < 1)
        BY <1>4
      <3>3. \A pid \in car.answers \cap Wishlist : pid < pos' => pid \in ToSet(caps')
        BY <3>1, <3>2
      <3>4. phase' # "caps" /\ phase' \notin {"round", "closed"} /\ Claimed(0) = {}
        BY <2>4, <3>1
      <3> QED
        BY <1>6, <3>3, <3>4
    <2>5. CASE pos \in car.answers /\ ~(pos = 0 /\ Claimed(0) = {})
      <3>1. /\ caps' = caps \o new
            /\ \/ pos + PidsPerMap \in car.claims /\ phase' = phase /\ pos' = pos + PidsPerMap
               \/ pos + PidsPerMap \notin car.claims /\ NextRound
        BY <1>10, <2>2, <2>5 DEF GotMap
      <3>2. Claimed(0) # {}
        BY <1>4, <1>5, <2>1, <2>5
      <3>3. \A pid \in Reachable \cap Wishlist : pid <= pos + PidsPerMap => pid \in ToSet(caps')
        BY <1>5, <2>1, <3>1, MapCovers
      <3>4. pos + PidsPerMap \in Nat \ {0} /\ (pos + PidsPerMap) % PidsPerMap = 0
        <4>1. pos % PidsPerMap = 0
          BY <1>5, <2>1
        <4>2. (pos + PidsPerMap) % PidsPerMap = 0
          BY <1>4, <4>1, NextMap
        <4> QED
          BY <1>4, <4>2
      <3> HIDE DEF new
      <3>5. CASE pos + PidsPerMap \in car.claims /\ phase' = phase /\ pos' = pos + PidsPerMap
        BY <1>6, <2>1, <3>2, <3>3, <3>4, <3>5
      <3>6. CASE pos + PidsPerMap \notin car.claims /\ NextRound
        <4>1. \A pid \in Reachable : pid <= pos + PidsPerMap
          BY <3>4, <3>6, BeyondLastMap
        <4>2. Expected \cap Wishlist \subseteq ToSet(caps')
          BY <3>2, <3>3, <4>1 DEF Expected
        <4> QED
          BY <1>6, <3>6, <4>2 DEF NextRound
      <3> QED
        BY <3>1, <3>5, <3>6
    <2> QED
      BY <2>3, <2>4, <2>5
  <1>11. CASE GotGuess
    <2>1. phase = "guess" /\ Finished
      BY <1>11 DEF GotGuess
    <2>2. Status(pos) = "success" <=> pos \in car.answers
      BY <1>1, <2>1, StatusTells DEF ExchangeInv
    <2>3. /\ caps' = IF pos \in car.answers /\ pos \in Wishlist THEN Append(caps, pos) ELSE caps
          /\ \/ pos < LastGuess /\ phase' = phase /\ pos' = pos + 1
             \/ ~(pos < LastGuess) /\ NextRound
      BY <1>11, <2>2 DEF GotGuess
    <2>4. ASSUME NEW pid \in car.answers \cap Wishlist, pid < pos + 1
          PROVE  pid \in ToSet(caps')
      <3>1. CASE pid = pos
        BY <2>1, <2>3, <3>1, GuessListed
      <3>2. CASE pid # pos
        <4>1. pid \in ToSet(caps)
          BY <1>4, <1>5, <2>1, <2>4, <3>2
        <4> QED
          BY <2>1, <2>3, <4>1, GuessListed
      <3> QED
        BY <3>1, <3>2
    <2>5. CASE pos < LastGuess /\ phase' = phase /\ pos' = pos + 1
      BY <1>5, <1>6, <2>1, <2>4, <2>5
    <2>6. CASE ~(pos < LastGuess) /\ NextRound
      <3>1. \A pid \in car.answers \cap 1..LastGuess : pid < pos + 1
        BY <1>4, <2>6
      <3>2. Expected \cap Wishlist \subseteq ToSet(caps')
        BY <1>5, <2>1, <2>4, <3>1 DEF Expected
      <3> QED
        BY <1>6, <2>6, <3>2 DEF NextRound
    <2> QED
      BY <2>3, <2>5, <2>6
  <1> QED
    BY <1>7, <1>8, <1>9, <1>10, <1>11 DEF Next, Program

\* Before anything is asked, everything is as it should be.
LEMMA InitFind == Init => FindInv
  <1> SUFFICES ASSUME Init PROVE FindInv
    OBVIOUS
  <1>1. CapsInv
    <2>1. caps = <<0>> /\ DOMAIN caps = {1} /\ caps[1] = 0 /\ caps \in Seq(Nat)
      BY DEF Init
    <2>2. CapsInOrder /\ CapsOfTheCar
      BY <2>1 DEF CapsInOrder, CapsOfTheCar
    <2>3. phase = "open" /\ buf = <<>>
      BY DEF Init
    <2>4. \A i \in DOMAIN toPc : toPc[i].kind # "value"
      BY DEF Init, Line, Prompt
    <2> QED
      BY <2>1, <2>2, <2>3, <2>4 DEF CapsInv
  <1>2. ExchangeInv
    BY DEF Init, ExchangeInv, Undisturbed, Exchange
  <1>3. FoundInv /\ CapsComplete
    BY DEF Init, FoundInv, CapsComplete
  <1> QED
    BY <1>1, <1>2, <1>3 DEF FindInv

\* Every step keeps the list right.
LEMMA StepFind == LinkInv /\ FindInv /\ [Next]_vars => FindInv'
  <1> SUFFICES ASSUME LinkInv, FindInv, [Next]_vars PROVE FindInv'
    OBVIOUS
  <1>1. CASE Next
    BY <1>1, CapsStep, ExchangeStep, FoundStep DEF LinkInv, FindInv
  <1>2. CASE UNCHANGED vars
    <2>1. /\ UNCHANGED <<phase, pos, caps, row, rows, rounds, io, buf, sent, toAdapter, toPc>>
          /\ UNCHANGED <<echo, partial, plugged, car, timeouts, leftover, refusals>>
      BY <1>2 DEF vars, progVars, ioVars, elmVars, oddVars
    <2>2. CapsInv'
      BY <2>1 DEF FindInv, CapsInv, CapsInOrder, CapsOfTheCar
    <2>3. Cmd' = Cmd
      BY <2>1, SameColumns DEF Cmd
    <2>4. ExchangeInv'
      BY <2>1, <2>3 DEF FindInv, ExchangeInv, Undisturbed, Exchange, WholeReply, IsAnswer
    <2>5. Claimed(0)' = Claimed(0) /\ Reachable' = Reachable /\ Expected' = Expected
      BY <2>1 DEF Claimed, Reachable, Expected, MapPids
    <2>6. FoundInv' /\ CapsComplete'
      BY <2>1, <2>5 DEF FindInv, FoundInv, CapsComplete, Undisturbed
    <2> QED
      BY <2>2, <2>4, <2>6 DEF FindInv
  <1> QED
    BY <1>1, <1>2

\* The list of capabilities, and the exchange that fills it, keep what makes the
\* list right, for every car, wish and size of bitmap (getobdcapabilities,
\* getobdcapabilities_guess).
THEOREM CapabilitiesInductive == Spec => [](LinkInv /\ FindInv)
  <1>1. Init => LinkInv /\ FindInv
    BY InitLink, InitFind
  <1>2. LinkInv /\ FindInv /\ [Next]_vars => (LinkInv /\ FindInv)'
    BY StepLink, StepFind
  <1> QED
    BY <1>1, <1>2, PTL DEF Spec

\* The list of capabilities is in order, of this car, and when nothing was late
\* or refused it has every PID the user wished for that can be found.
THEOREM CapabilitiesHold == Spec => []CapabilitiesRight
  <1>1. LinkInv /\ FindInv => CapabilitiesRight
    BY DEF FindInv, CapsInv, CapabilitiesRight
  <1> QED
    BY <1>1, CapabilitiesInductive, PTL

\* Every variable of the exchange has its type, the list of capabilities too.
THEOREM LinkTypes == Spec => []TypeOK
  <1>1. LinkInv /\ FindInv => TypeOK
    BY DEF LinkInv, FindInv, CapsInv, TypeOK
  <1> QED
    BY <1>1, CapabilitiesInductive, PTL

=============================================================================
