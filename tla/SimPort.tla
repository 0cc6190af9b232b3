------------------------------ MODULE SimPort ------------------------------
(***************************************************************************)
(* The port of obdsim on which its clients come and go: FDSimPort with the *)
(* connections of SocketSimPort (BluetoothSimPort has the same; on a pty   *)
(* the clients follow one another on a single fd).  The main loop calls    *)
(* readLine() over and over, and answers the line it returns.              *)
(*                                                                         *)
(* A byte is a record: the client it came from, the number of the line it  *)
(* belongs to, and whether it is text, "\r" or "\n".  Left out are a       *)
(* failing accept(), an answer that does not fit the client's window, and  *)
(* what the client is sent (an echo may end in old bytes too).             *)
(*                                                                         *)
(* In the object lastread lies in front of readbuf, and portname, a text   *)
(* without "\r", behind it.  readbuf_pos may become negative; read() then   *)
(* begins in lastread, whose text nobody needs any more.  Not followed is  *)
(* a read() that would begin in front of lastread.                         *)
(***************************************************************************)
EXTENDS Integers, Sequences, FiniteSets

CONSTANTS
  Clients,    \* in the order they connect: the numbers from 1
  Scripts,    \* per client, the sequences of "char", "cr" and "lf" it may be about to send
  Bursts,     \* per client, how many lines it may send without waiting for the answers
  BufSize,    \* sizeof(readbuf)
  Writes,     \* how often writeData() is called for an answer, the prompt last
  Echo        \* getEcho()

ASSUME PortAssumption ==
  /\ Clients \subseteq Nat \ {0}
  /\ \A c \in Clients : Scripts[c] \subseteq Seq({"char", "cr", "lf"})
  /\ Bursts \subseteq [Clients -> Nat \ {0}]
  /\ BufSize \in Nat \ {0} /\ Writes \in Nat \ {0} /\ Echo \in BOOLEAN

NoClient == 0
Bytes == [from : Clients, line : Nat, what : {"char", "cr", "lf"}]
Nul   == [from |-> NoClient, line |-> 0, what |-> "nul"]

VARIABLES
  fd,        \* the client the port is connected to, or NoClient
  readbuf,   \* its first readbuf_pos bytes, none if that is negative
  behind,    \* the rest of it: nothing yet, or old bytes
  infront,   \* -readbuf_pos if that is negative, or 0
  towrite,   \* how many writes of the answer are left; 0: readLine() is next
  killed,    \* by SIGPIPE
  backlog,   \* the clients that connected and were not accepted yet
  came,      \* the clients that connected
  left,      \* the clients that closed their end
  wire,      \* per client, the bytes sent and not read
  todo,      \* per client, what it will send
  burst,     \* per client, how many lines it sends without waiting
  asked,     \* per client, the lines it has sent
  answers,   \* per client, the answers it has got
  got,       \* history: all bytes read
  taken,     \* history: where in got the lines are that readLine() returned, and
             \* how much of it there was
  strays     \* history: answers that went to a client accepted only for them

portState  == <<fd, readbuf, behind, infront, towrite, killed>>
clientVars == <<came, left, wire, todo, burst, asked>>
histVars   == <<got, taken, strays>>
portVars   == <<portState, backlog, clientVars, answers, histVars>>

EndsLineLf(b) == b.what = "lf"

EndsLine(b) == b.what = "cr"

IsText(b) == b.what = "char"

IsSeparator(b) == b.what \in {"cr", "lf"}

PortInit ==
  /\ fd = NoClient /\ towrite = 0 /\ killed = FALSE
  /\ readbuf = <<>> /\ behind = [i \in 1..BufSize |-> Nul] /\ infront = 0
  /\ backlog = <<>> /\ came = {} /\ left = {}
  /\ wire = [c \in Clients |-> <<>>]
  /\ todo \in {t \in [Clients -> UNION {Scripts[c] : c \in Clients}] :
                 \A c \in Clients : t[c] \in Scripts[c]}
  /\ burst \in Bursts
  /\ asked = [c \in Clients |-> 0] /\ answers = [c \in Clients |-> 0]
  /\ got = <<>> /\ taken = <<>> /\ strays = 0

-----------------------------------------------------------------------------
(* The clients. *)

Connect(c) ==
  /\ c \notin came /\ \A b \in Clients : b < c => b \in came
  /\ came' = came \cup {c} /\ backlog' = Append(backlog, c)
  /\ UNCHANGED <<portState, left, wire, todo, burst, asked, answers, histVars>>

Open(c) == (fd = c \/ \E i \in DOMAIN backlog : backlog[i] = c) /\ c \notin left

\* A client begins a line when less than burst of its lines are unanswered.
Send(c) ==
  /\ Open(c) /\ todo[c] # <<>>
  /\ LET what == Head(todo[c]) IN
       /\ what # "lf" => asked[c] - answers[c] < burst[c]
       /\ wire' = [wire EXCEPT ![c] = Append(@, [from |-> c, line |-> asked[c], what |-> what])]
       /\ asked' = [asked EXCEPT ![c] = IF what = "cr" THEN @ + 1 ELSE @]
  /\ todo' = [todo EXCEPT ![c] = Tail(@)]
  /\ UNCHANGED <<portState, backlog, came, left, burst, answers, histVars>>

Leave(c) ==
  /\ Open(c)
  /\ left' = left \cup {c}
  /\ UNCHANGED <<portState, backlog, came, wire, todo, burst, asked, answers, histVars>>

-----------------------------------------------------------------------------
(* The port. *)

CloseConnection ==
  /\ fd' = NoClient
  /\ UNCHANGED <<readbuf, behind, infront, towrite, killed, wire, got, taken>>

\* write() to a client that has left may yet succeed, fail, or raise SIGPIPE.
Written(c) ==
  \/ fd' = c /\ UNCHANGED killed
  \/ c \in left /\ fd' = NoClient /\ UNCHANGED killed
  \/ c \in left /\ fd' = c /\ killed' = TRUE

\* The string at readbuf ends at the first NUL.
InString(cells, i) == i \in DOMAIN cells /\ \A j \in 1..i : cells[j] # Nul

\* The first line of the string ends at cr, and all separators up to end go with it.
IsLineToLast(cells, cr, end) ==
  /\ cr \in 1..end /\ InString(cells, end)
  /\ EndsLine(cells[cr]) /\ \A i \in DOMAIN cells : i > cr => ~EndsLine(cells[i])
  /\ \A i \in cr..end : IsSeparator(cells[i])
  /\ end + 1 \in DOMAIN cells => ~IsSeparator(cells[end + 1])

IsLine(cells, cr, end) ==
  /\ cr \in 1..end /\ InString(cells, end)
  /\ EndsLine(cells[cr]) /\ \A i \in 1..cr - 1 : ~EndsLine(cells[i])
  /\ \A i \in cr..end : IsSeparator(cells[i])
  /\ end + 1 \in DOMAIN cells => ~IsSeparator(cells[end + 1])

\* memmove(): what stays in readbuf, and the whole of it, whose last cells are
\* the ones that were there before.
Rest(buf, end) == SubSeq(buf, end + 1, Len(buf))

Moved(cells, end) ==
  [i \in 1..BufSize |-> IF i + end <= BufSize THEN cells[i + end] ELSE cells[i]]

\* The first line of what is in readbuf now: buf read by this and earlier read()s,
\* and rest behind it, which the search for "\r" does not tell from it.
TakeLine(buf, rest, lack) ==
  LET cells == buf \o rest
  IN \/ /\ \A i \in DOMAIN cells : EndsLine(cells[i]) => ~InString(cells, i)
        /\ readbuf' = buf /\ behind' = rest /\ infront' = lack
        /\ UNCHANGED <<towrite, taken>>
     \/ \E cr, end \in DOMAIN cells :
          /\ IsLine(cells, cr, end)
          /\ readbuf' = Rest(buf, end)
          /\ behind' = [i \in 1..BufSize - Len(readbuf') |->
                          Moved(cells, end)[Len(readbuf') + i]]
          /\ infront' = lack + (IF end > Len(buf) THEN end - Len(buf) ELSE 0)
          /\ towrite' = Writes
          /\ LET before == Len(got) - Len(readbuf) + infront
             IN taken' = Append(taken, [first |-> before + 1, last |-> before + cr,
                                        end |-> before + end, read |-> Len(got')])

\* What a read() may ask for.
RoomOfAll == BufSize

Room == BufSize - Len(readbuf) + infront

\* readLine() for the client that is connected.
ReadFrom(c) ==
  LET n    == IF Len(wire[c]) < Room THEN Len(wire[c]) ELSE Room
      some == SubSeq(wire[c], 1, n)
      lost == IF n < infront THEN n ELSE infront   \* in lastread
  IN \/ /\ Room = 0 \/ (c \in left /\ n = 0)       \* read() returns 0 for either
        /\ CloseConnection
     \/ /\ c \in left                              \* the connection was reset
        /\ CloseConnection
     \/ /\ Room > 0 /\ n = 0 /\ c \notin left
        /\ fd' = c
        /\ UNCHANGED <<readbuf, behind, infront, towrite, killed, wire, got, taken>>
     \/ /\ n > 0
        /\ wire' = [wire EXCEPT ![c] = SubSeq(@, n + 1, Len(@))]
        /\ got' = got \o some
        /\ IF Echo THEN Written(c) ELSE fd' = c /\ UNCHANGED killed
        /\ TakeLine(readbuf \o SubSeq(some, lost + 1, n),
                    SubSeq(behind, n - lost + 1, Len(behind)), infront - lost)

ReadLine ==
  /\ towrite = 0 /\ ~killed /\ infront <= BufSize
  /\ \/ fd # NoClient /\ ReadFrom(fd) /\ UNCHANGED backlog
     \/ /\ fd = NoClient /\ backlog # <<>>         \* tryConnection()
        /\ ReadFrom(Head(backlog)) /\ backlog' = Tail(backlog)
  /\ UNCHANGED <<came, left, todo, burst, asked, answers, strays>>

\* One writeData() of the answer, which looks for a client if there is none.
Answered(c) == answers' = IF towrite = 1 THEN [answers EXCEPT ![c] = @ + 1] ELSE answers

Answer ==
  /\ towrite > 0 /\ ~killed
  /\ \/ fd # NoClient /\ Written(fd) /\ Answered(fd) /\ UNCHANGED <<backlog, strays>>
     \/ /\ fd = NoClient /\ backlog # <<>>
        /\ Written(Head(backlog)) /\ backlog' = Tail(backlog)
        /\ Answered(Head(backlog)) /\ strays' = strays + 1
     \/ fd = NoClient /\ backlog = <<>> /\ UNCHANGED <<fd, killed, backlog, answers, strays>>
  /\ towrite' = towrite - 1
  /\ UNCHANGED <<readbuf, behind, infront, clientVars, got, taken>>

Port == ReadLine \/ Answer
PortNext == Port \/ \E c \in Clients : Connect(c) \/ Send(c) \/ Leave(c)

\* The main loop calls readLine() until it ends.
PortSpec == PortInit /\ [][PortNext]_portVars /\ WF_portVars(Port)

-----------------------------------------------------------------------------
(* What should hold.                                                       *)

PortTypeOK ==
  /\ fd \in Clients \cup {NoClient}
  /\ readbuf \in Seq(Bytes) /\ Len(readbuf) <= BufSize
  /\ behind \in Seq(Bytes \cup {Nul}) /\ Len(readbuf) + Len(behind) = BufSize
  /\ infront \in Nat /\ (infront > 0 => readbuf = <<>>)
  /\ towrite \in 0..Writes /\ killed \in BOOLEAN
  /\ backlog \in Seq(Clients)
  /\ came \subseteq Clients /\ left \subseteq Clients
  /\ wire \in [Clients -> Seq(Bytes)]
  /\ todo \in [Clients -> Seq({"char", "cr", "lf"})]
  /\ burst \in Bursts
  /\ asked \in [Clients -> Nat] /\ answers \in [Clients -> Nat]
  /\ got \in Seq(Bytes) /\ strays \in Nat
  /\ taken \in Seq([first : Nat, last : Nat, end : Nat, read : Nat])

\* "Read a line from the virtual port" (fdsimport.h): what readLine() returns as
\* a line, and takes out of readbuf, had been read.  It may be old bytes that
\* memmove() left behind the end, when their "\r" or "\n" is the next one found.
IsRead(k) == taken[k].end <= taken[k].read

LinesAreRead == \A k \in DOMAIN taken : IsRead(k)

\* In particular the "\r" that ends a line was read: nobody's line is cut short by one
\* that is old.
LineEndsAreRead == \A k \in DOMAIN taken : taken[k].last <= taken[k].read

\* It needs a line before that ended, and was taken out, when more than BufSize
\* bytes were in use, those it had and those that were read with it: old bytes
\* are left by no other.
IsShort(k) ==
  (taken[k].end - taken[k].first + 1) + (taken[k].read - taken[k].first + 1) <= BufSize

LongLinesFirst ==
  \A k \in DOMAIN taken : ~IsRead(k) => \E j \in 1..k - 1 : ~IsShort(j)

\* As long as that has not happened, and however the bytes were cut into reads and
\* whoever sent them: the lines that were returned and the bytes still in readbuf
\* are all that was read, in order; each line is the bytes up to one "\r", and
\* only separators go missing.
LinesTileTheInput ==
  LinesAreRead =>
    /\ Len(readbuf) <= Len(got)
    /\ readbuf = SubSeq(got, Len(got) - Len(readbuf) + 1, Len(got))
    /\ \A k \in DOMAIN taken :
         /\ taken[k].first = IF k = 1 THEN 1 ELSE taken[k - 1].end + 1
         /\ EndsLine(got[taken[k].last])
         /\ \A i \in taken[k].first .. taken[k].last - 1 : ~EndsLine(got[i])
         /\ \A i \in taken[k].last .. taken[k].end : ~IsText(got[i])
    /\ Len(got) - Len(readbuf) = IF taken = <<>> THEN 0 ELSE taken[Len(taken)].end

\* A line is one client's line, whole; all that may come before it is what
\* clients before it left unfinished.
LeftoversInFront ==
  LinesAreRead =>
    \A k \in DOMAIN taken : \A i \in taken[k].first .. taken[k].last :
      LET last == got[taken[k].last]
      IN IsText(got[i]) => got[i].from < last.from \/ got[i].line = last.line

\* How many lines the port is behind its clients after a read is what clients
\* sent without waiting, or were answered without asking.
LinesIn(buf) == Cardinality({i \in DOMAIN buf : EndsLine(buf[i])})

\* The lines a client may have sent before the one it waits for, numbered.
Early(who) == UNION {{c} \X (1 .. burst[c] - 1) : c \in who}

LagBounded == LinesAreRead => LinesIn(readbuf) <= Cardinality(Early(came)) + strays

\* What readLine() returns is the lines of its clients, in order and not too late,
\* until it returns old bytes, which is after a long line only.
LinesAreRight == LongLinesFirst /\ LinesTileTheInput /\ LeftoversInFront /\ LagBounded

\* A client that waits for its answers gets one for every line, unless it is
\* dropped because readbuf is full, the port was killed by SIGPIPE, or old bytes
\* were returned as a line, by which what is read later may be lost.
Waits(c) == fd = c /\ burst[c] = 1 /\ asked[c] > answers[c]

PoliteAreAnswered ==
  \A c \in Clients : Waits(c) ~> (~Waits(c) \/ killed \/ ~LinesAreRead)
=============================================================================
