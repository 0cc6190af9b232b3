---------------------------- MODULE PartsProofs ----------------------------
(***************************************************************************)
(* What holds of SimPort, BaudRate, FtdiPty and Converters for all their   *)
(* constants.                                                              *)
(***************************************************************************)
EXTENDS MCParts, FunctionTheorems, FiniteSetTheorems, SequenceTheorems, TLAPS

\* A sequence behind another, one more at its end.
LEMMA AppendedBehind ==
  ASSUME NEW S, NEW t \in Seq(S), NEW s \in Seq(S), NEW x \in S
  PROVE  t \o Append(s, x) = Append(t \o s, x)
  <1>1. <<x>> \in Seq(S) /\ t \o s \in Seq(S)
    BY ConcatProperties
  <1>2. Append(s, x) = s \o <<x>>
    BY AppendIsConcat
  <1>3. Append(t \o s, x) = (t \o s) \o <<x>>
    BY <1>1, AppendIsConcat
  <1>4. (t \o s) \o <<x>> = t \o (s \o <<x>>)
    BY <1>1, ConcatAssociative
  <1> QED
    BY <1>2, <1>3, <1>4

\* The two halves of a sequence that is cut after k elements.
LEMMA Halves ==
  ASSUME NEW S, NEW q \in Seq(S), NEW k \in 0 .. Len(q)
  PROVE  /\ SubSeq(q, 1, k) \in Seq(S) /\ Len(SubSeq(q, 1, k)) = k
         /\ \A i \in 1 .. k : SubSeq(q, 1, k)[i] = q[i]
         /\ SubSeq(q, k + 1, Len(q)) \in Seq(S)
         /\ Len(SubSeq(q, k + 1, Len(q))) = Len(q) - k
         /\ \A i \in 1 .. Len(q) - k : SubSeq(q, k + 1, Len(q))[i] = q[k + i]
  <1>1. \A i \in 1 .. Len(q) : q[i] \in S
    BY LenProperties
  <1>2. Len(q) \in Nat /\ k \in Int
    BY LenProperties
  <1>3. \A i \in 1 .. k : q[i] \in S
    BY <1>1, <1>2
  <1>4. \A i \in k + 1 .. Len(q) : q[i] \in S
    BY <1>1, <1>2
  <1>5. /\ SubSeq(q, 1, k) \in Seq(S)
        /\ Len(SubSeq(q, 1, k)) = IF 1 <= k THEN k - 1 + 1 ELSE 0
        /\ \A i \in 1 .. k - 1 + 1 : SubSeq(q, 1, k)[i] = q[1 + i - 1]
    BY <1>2, <1>3, SubSeqProperties
  <1>6. /\ SubSeq(q, k + 1, Len(q)) \in Seq(S)
        /\ Len(SubSeq(q, k + 1, Len(q))) = IF k + 1 <= Len(q) THEN Len(q) - (k + 1) + 1 ELSE 0
        /\ \A i \in 1 .. Len(q) - (k + 1) + 1 : SubSeq(q, k + 1, Len(q))[i] = q[k + 1 + i - 1]
    BY <1>2, <1>4, SubSeqProperties
  <1> QED
    BY <1>2, <1>5, <1>6

-----------------------------------------------------------------------------
(* SimPort.  Only a read touches the buffer and what was read; the rest of *)
(* the port and its clients have their types by themselves.                *)

ClientTypes ==
  /\ fd \in Clients \cup {NoClient}
  /\ towrite \in 0..Writes /\ killed \in BOOLEAN
  /\ backlog \in Seq(Clients)
  /\ came \subseteq Clients /\ left \subseteq Clients
  /\ wire \in [Clients -> Seq(Bytes)]
  /\ todo \in [Clients -> Seq({"char", "cr", "lf"})]
  /\ burst \in Bursts
  /\ asked \in [Clients -> Nat] /\ answers \in [Clients -> Nat]
  /\ strays \in Nat

Places == [first : Nat, last : Nat, end : Nat, read : Nat]
Cells  == Bytes \cup {Nul}

BufferTypes ==
  /\ readbuf \in Seq(Bytes) /\ Len(readbuf) <= BufSize /\ Len(readbuf) <= Len(got)
  /\ behind \in Seq(Cells) /\ Len(readbuf) + Len(behind) = BufSize
  /\ infront \in Nat /\ (infront > 0 => readbuf = <<>>)
  /\ got \in Seq(Bytes) /\ taken \in Seq(Places)

\* Where the lines lie that were returned: before what is still in readbuf.
PlacesInv ==
  \A k \in 1 .. Len(taken) :
    /\ 1 <= taken[k].first /\ taken[k].first <= taken[k].last /\ taken[k].last <= taken[k].end
    /\ taken[k].end <= Len(got) - Len(readbuf)

\* What holds of the buffer as long as no old bytes were returned.
BufferInv == BufferTypes /\ LinesAreRead /\ infront = 0 /\ LinesTileTheInput /\ PlacesInv

LEMMA PortTypesSplit == ClientTypes /\ BufferTypes => PortTypeOK
  BY DEF PortTypeOK, ClientTypes, BufferTypes, Places, Cells

\* Two sequences, one behind the other.
LEMMA OneBehindAny ==
  ASSUME NEW S, NEW s \in Seq(S), NEW t \in Seq(S)
  PROVE  /\ s \o t \in Seq(S) /\ Len(s) \in Nat /\ Len(t) \in Nat
         /\ Len(s \o t) = Len(s) + Len(t)
         /\ DOMAIN s = 1 .. Len(s) /\ DOMAIN t = 1 .. Len(t)
         /\ DOMAIN (s \o t) = 1 .. Len(s) + Len(t)
         /\ \A i \in 1 .. Len(s) : (s \o t)[i] = s[i]
         /\ \A i \in 1 .. Len(t) : (s \o t)[Len(s) + i] = t[i]
  <1>1. /\ s \o t \in Seq(S) /\ Len(s \o t) = Len(s) + Len(t)
        /\ \A i \in 1 .. Len(s) + Len(t) :
             (s \o t)[i] = IF i <= Len(s) THEN s[i] ELSE t[i - Len(s)]
    BY ConcatProperties
  <1>2. /\ Len(s) \in Nat /\ Len(t) \in Nat /\ DOMAIN s = 1 .. Len(s) /\ DOMAIN t = 1 .. Len(t)
        /\ DOMAIN (s \o t) = 1 .. Len(s \o t)
    BY <1>1, LenProperties
  <1> DEFINE u == s \o t
  <1>3. \A i \in 1 .. Len(s) : u[i] = s[i]
    <2> HIDE DEF u
    <2> SUFFICES ASSUME NEW i \in 1 .. Len(s) PROVE u[i] = s[i]
      OBVIOUS
    <2>1. i \in 1 .. Len(s) + Len(t) /\ i <= Len(s)
      BY <1>2
    <2> QED
      BY <1>1, <2>1 DEF u
  <1>4. \A i \in 1 .. Len(t) : u[Len(s) + i] = t[i]
    <2> HIDE DEF u
    <2> SUFFICES ASSUME NEW i \in 1 .. Len(t) PROVE u[Len(s) + i] = t[i]
      OBVIOUS
    <2>1. /\ Len(s) + i \in 1 .. Len(s) + Len(t) /\ ~(Len(s) + i <= Len(s))
          /\ (Len(s) + i) - Len(s) = i
      BY <1>2
    <2> QED
      BY <1>1, <2>1 DEF u
  <1> QED
    BY <1>1, <1>2, <1>3, <1>4

LEMMA OneBehindOther ==
  ASSUME NEW s \in Seq(Bytes), NEW t \in Seq(Bytes)
  PROVE  /\ s \o t \in Seq(Bytes) /\ Len(s) \in Nat /\ Len(t) \in Nat
         /\ Len(s \o t) = Len(s) + Len(t)
         /\ DOMAIN s = 1 .. Len(s) /\ DOMAIN t = 1 .. Len(t)
         /\ DOMAIN (s \o t) = 1 .. Len(s) + Len(t)
         /\ \A i \in 1 .. Len(s) : (s \o t)[i] = s[i]
         /\ \A i \in 1 .. Len(t) : (s \o t)[Len(s) + i] = t[i]
  BY OneBehindAny

\* A sequence that is cut, put together again.
LEMMA CutAndJoined ==
  ASSUME NEW q \in Seq(Bytes), NEW k \in 0 .. Len(q)
  PROVE  q = SubSeq(q, 1, k) \o SubSeq(q, k + 1, Len(q))
  <1> DEFINE s == SubSeq(q, 1, k)  t == SubSeq(q, k + 1, Len(q))  u == s \o t
  <1>1. /\ s \in Seq(Bytes) /\ Len(s) = k /\ \A i \in 1 .. k : s[i] = q[i]
        /\ t \in Seq(Bytes) /\ Len(t) = Len(q) - k /\ \A i \in 1 .. Len(q) - k : t[i] = q[k + i]
    BY Halves
  <1> HIDE DEF s, t
  <1>2. /\ u \in Seq(Bytes) /\ Len(u) = Len(s) + Len(t)
        /\ \A i \in 1 .. Len(s) : u[i] = s[i] /\ \A j \in 1 .. Len(t) : u[Len(s) + j] = t[j]
    BY <1>1, OneBehindOther
  <1>3. \A j \in 1 .. Len(t) : u[Len(s) + j] = t[j]
    BY <1>1, OneBehindOther
  <1> HIDE DEF u
  <1>4. Len(q) \in Nat /\ Len(u) = Len(q)
    BY <1>1, <1>2, LenProperties
  <1>5. ASSUME NEW i \in 1 .. Len(q) PROVE u[i] = q[i]
    <2>1. CASE i <= k
      BY <1>1, <1>2, <1>4, <2>1
    <2>2. CASE i > k
      <3>1. i - k \in 1 .. Len(q) - k /\ k + (i - k) = i
        BY <1>4, <2>2
      <3>2. t[i - k] = q[i]
        BY <1>1, <3>1
      <3>3. u[i] = t[i - k]
        BY <1>1, <1>3, <3>1
      <3> QED
        BY <3>2, <3>3
    <2> QED
      BY <1>4, <2>1, <2>2
  <1>6. u = q
    BY <1>2, <1>4, <1>5, SeqEqual
  <1> QED
    BY <1>6 DEF u, s, t

\* What a read makes of the object: buf of bytes read, old behind them, and lack
\* bytes missing in front.
Brought(some, buf, old, lack) ==
  /\ buf \in Seq(Bytes) /\ old \in Seq(Cells) /\ Len(buf) + Len(old) = BufSize
  /\ lack \in Nat /\ (lack > 0 => buf = <<>>)
  /\ Len(buf) <= Len(got) + Len(some)
  /\ infront = 0 => buf = readbuf \o some /\ lack = 0
  /\ (\A i \in DOMAIN behind : behind[i] = Nul) => \A i \in DOMAIN old : old[i] = Nul

LEMMA ReadInto ==
  ASSUME BufferTypes, NEW some \in Seq(Bytes), NEW n \in Nat, Len(some) = n, n > 0, n <= Room,
         NEW lost, lost = IF n < infront THEN n ELSE infront
  PROVE  Brought(some, readbuf \o SubSeq(some, lost + 1, n),
                 SubSeq(behind, n - lost + 1, Len(behind)), infront - lost)
  <1> DEFINE more == SubSeq(some, lost + 1, n)
             buf  == readbuf \o more
             old == SubSeq(behind, n - lost + 1, Len(behind))
             lack == infront - lost
  <1>1. /\ readbuf \in Seq(Bytes) /\ behind \in Seq(Cells) /\ infront \in Nat
        /\ Len(readbuf) \in Nat /\ Len(behind) \in Nat /\ Len(got) \in Nat
        /\ Len(readbuf) + Len(behind) = BufSize /\ Len(readbuf) <= Len(got)
        /\ infront > 0 => readbuf = <<>>
    BY LenProperties DEF BufferTypes
  <1>2. infront > 0 => Len(readbuf) = 0
    BY <1>1
  <1>3. BufSize \in Nat /\ n <= BufSize - Len(readbuf) + infront
    BY PortAssumption DEF Room
  <1>4. /\ lost \in Nat /\ lost \in 0 .. Len(some) /\ lost <= infront /\ n - lost \in 0 .. Len(behind)
        /\ lack \in Nat /\ lack <= infront /\ (lack > 0 => n - lost = 0) /\ (infront = 0 => lost = 0)
    BY <1>1, <1>2, <1>3
  <1>5. more \in Seq(Bytes) /\ Len(more) = n - lost
    BY <1>4, Halves
  <1>6. /\ old \in Seq(Cells) /\ Len(old) = Len(behind) - (n - lost)
        /\ \A i \in 1 .. Len(behind) - (n - lost) : old[i] = behind[(n - lost) + i]
    BY <1>1, <1>4, Halves
  <1>7. infront = 0 => more = some
    <2> SUFFICES ASSUME infront = 0 PROVE more = some
      OBVIOUS
    <2>1. lost + 1 = 1 /\ SubSeq(some, 1, Len(some)) = some
      BY <1>4, SubSeqFull
    <2> QED
      BY <2>1
  <1> HIDE DEF more, lack
  <1>8. buf \in Seq(Bytes) /\ Len(buf) = Len(readbuf) + (n - lost)
    <2>1. buf \in Seq(Bytes) /\ Len(buf) = Len(readbuf) + Len(more)
      BY <1>1, <1>5, OneBehindOther
    <2> HIDE DEF buf
    <2> QED
      BY <1>5, <2>1
  <1>9. lack > 0 => buf = <<>>
    <2> SUFFICES ASSUME lack > 0 PROVE buf = <<>>
      OBVIOUS
    <2>1. Len(buf) = 0
      BY <1>1, <1>2, <1>4, <1>8 DEF lack
    <2> QED
      BY <1>8, <2>1, EmptySeq
  <1>10. Len(buf) + Len(old) = BufSize /\ Len(buf) <= Len(got) + Len(some)
    <2> HIDE DEF buf, old
    <2> DEFINE d == n - lost
    <2>1. /\ d \in Nat /\ d <= Len(some) /\ d <= Len(behind) /\ Len(some) \in Nat
      BY <1>1, <1>4
    <2>2. Len(buf) = Len(readbuf) + d /\ Len(old) = Len(behind) - d
      BY <1>6, <1>8
    <2> HIDE DEF d
    <2>3. Len(readbuf) + Len(behind) = BufSize /\ Len(readbuf) <= Len(got)
      BY <1>1
    <2>4. Len(readbuf) \in Nat /\ Len(behind) \in Nat /\ Len(got) \in Nat
      BY <1>1
    <2> QED
      BY <2>1, <2>2, <2>3, <2>4
  <1>11. infront = 0 => buf = readbuf \o some /\ lack = 0
    <2>1. infront = 0 => buf = readbuf \o some
      BY <1>7
    <2>2. infront = 0 => lack = 0
      <3> HIDE DEF buf, old
      <3>1. lack \in Nat /\ lack <= infront
        BY <1>4
      <3> QED
        BY <3>1
    <2> QED
      BY <2>1, <2>2
  <1>12. (\A i \in DOMAIN behind : behind[i] = Nul) => \A i \in DOMAIN old : old[i] = Nul
    <2> HIDE DEF old, buf
    <2>1. DOMAIN behind = 1 .. Len(behind) /\ DOMAIN old = 1 .. Len(behind) - (n - lost)
      BY <1>1, <1>6, LenProperties
    <2>2. \A i \in 1 .. Len(behind) - (n - lost) : (n - lost) + i \in 1 .. Len(behind)
      BY <1>1, <1>4
    <2> QED
      BY <1>6, <2>1, <2>2
  <1> HIDE DEF buf, old
  <1>13. Brought(some, buf, old, lack)
    BY <1>4, <1>6, <1>8, <1>9, <1>10, <1>11, <1>12 DEF Brought
  <1> QED
    BY <1>13 DEF buf, more, old, lack

\* What a read brings: no more than there is room for.
LEMMA ReadBrings ==
  ASSUME ClientTypes, BufferTypes, NEW c \in Clients, ReadFrom(c)
  PROVE  \/ UNCHANGED <<readbuf, behind, infront, got, taken, wire, towrite>>
         \/ \E some \in Seq(Bytes), more \in Seq(Bytes) :
              /\ Len(some) <= Room /\ wire[c] = some \o more
              /\ wire' = [wire EXCEPT ![c] = more] /\ got' = got \o some
              /\ \E buf, old, lack : Brought(some, buf, old, lack) /\ TakeLine(buf, old, lack)
  <1> DEFINE n    == IF Len(wire[c]) < Room THEN Len(wire[c]) ELSE Room
             some == SubSeq(wire[c], 1, n)
             more == SubSeq(wire[c], n + 1, Len(wire[c]))
             lost == IF n < infront THEN n ELSE infront
  <1>1. \/ UNCHANGED <<readbuf, behind, infront, got, taken, wire, towrite>>
        \/ /\ n > 0 /\ wire' = [wire EXCEPT ![c] = more] /\ got' = got \o some
           /\ TakeLine(readbuf \o SubSeq(some, lost + 1, n),
                       SubSeq(behind, n - lost + 1, Len(behind)), infront - lost)
    BY DEF ReadFrom, CloseConnection
  <1>2. ASSUME n > 0
        PROVE  /\ some \in Seq(Bytes) /\ Len(some) <= Room /\ more \in Seq(Bytes)
               /\ wire[c] = some \o more /\ Len(some) = n /\ n \in Nat /\ n <= Room
    <2>1. wire[c] \in Seq(Bytes) /\ n \in Nat /\ n \in 0 .. Len(wire[c]) /\ n <= Room
      <3>1. wire[c] \in Seq(Bytes)
        BY DEF ClientTypes
      <3>2. Len(wire[c]) \in Nat /\ Room \in Int
        BY <3>1, PortAssumption, LenProperties DEF Room, BufferTypes
      <3> QED
        BY <1>2, <3>1, <3>2
    <2> HIDE DEF n
    <2> QED
      BY <2>1, Halves, CutAndJoined
  <1> HIDE DEF n, some, more
  <1>3. ASSUME n > 0
        PROVE  Brought(some, readbuf \o SubSeq(some, lost + 1, n),
                       SubSeq(behind, n - lost + 1, Len(behind)), infront - lost)
    <2>1. /\ some \in Seq(Bytes) /\ Len(some) = n /\ n \in Nat /\ n <= Room
      BY <1>2, <1>3
    <2>2. lost = IF n < infront THEN n ELSE infront
      OBVIOUS
    <2> HIDE DEF lost
    <2> QED
      BY <1>3, <2>1, <2>2, ReadInto
  <1> QED
    BY <1>1, <1>2, <1>3

\* The cells of readbuf: bytes that were read, and the rest behind them.
LEMMA CellsOf ==
  ASSUME NEW buf \in Seq(Bytes), NEW old \in Seq(Cells)
  PROVE  LET cells == buf \o old
         IN /\ cells \in Seq(Cells) /\ Len(buf) \in Nat /\ Len(old) \in Nat
            /\ DOMAIN buf = 1 .. Len(buf) /\ DOMAIN old = 1 .. Len(old)
            /\ DOMAIN cells = 1 .. Len(buf) + Len(old)
            /\ \A i \in 1 .. Len(buf) : cells[i] = buf[i] /\ cells[i] # Nul
            /\ \A i \in 1 .. Len(old) : cells[Len(buf) + i] = old[i]
  <1>1. buf \in Seq(Cells)
    BY SeqDef DEF Cells
  <1>2. \A i \in 1 .. Len(buf) : buf[i] # Nul
    <2> TAKE i \in 1 .. Len(buf)
    <2>1. buf[i] \in Bytes
      BY ElementOfSeq
    <2>2. NoClient \notin Clients
      BY PortAssumption DEF NoClient
    <2> QED
      BY <2>1, <2>2 DEF Bytes, Nul
  <1> QED
    BY <1>1, <1>2, OneBehindAny

\* What of a sequence lies behind its first bytes, if it is as long.
LEMMA RestOf ==
  ASSUME NEW buf \in Seq(Bytes), NEW e \in Nat \ {0}
  PROVE  /\ Rest(buf, e) \in Seq(Bytes) /\ Len(buf) \in Nat
         /\ Len(Rest(buf, e)) = IF e <= Len(buf) THEN Len(buf) - e ELSE 0
         /\ e >= Len(buf) => Rest(buf, e) = <<>>
  <1>1. Len(buf) \in Nat
    BY LenProperties
  <1>2. CASE e <= Len(buf)
    <2>1. e \in 0 .. Len(buf)
      BY <1>1, <1>2
    <2> DEFINE r == SubSeq(buf, e + 1, Len(buf))
    <2>2. r \in Seq(Bytes) /\ Len(r) = Len(buf) - e
      BY <2>1, Halves
    <2> HIDE DEF r
    <2>3. e >= Len(buf) => r = <<>>
      BY <1>1, <1>2, <2>2, EmptySeq
    <2> QED
      BY <1>1, <1>2, <2>2, <2>3 DEF Rest, r
  <1>3. CASE e > Len(buf)
    <2>1. Rest(buf, e) = <<>>
      BY <1>1, <1>3 DEF Rest
    <2> QED
      BY <1>1, <1>3, <2>1
  <1> QED
    BY <1>1, <1>2, <1>3

\* The buffer keeps its types, whatever bytes a line is made of.
LEMMA TakeTypes ==
  ASSUME BufferTypes, NEW some \in Seq(Bytes), got' = got \o some,
         NEW buf, NEW old, NEW lack, Brought(some, buf, old, lack), TakeLine(buf, old, lack)
  PROVE  BufferTypes'
  <1> DEFINE cells == buf \o old
  <1>1. /\ buf \in Seq(Bytes) /\ old \in Seq(Cells) /\ Len(buf) + Len(old) = BufSize
        /\ lack \in Nat /\ (lack > 0 => buf = <<>>) /\ Len(buf) <= Len(got) + Len(some)
    BY DEF Brought
  <1>2. got' \in Seq(Bytes) /\ Len(got') = Len(got) + Len(some) /\ Len(got) \in Nat /\ Len(some) \in Nat
    BY OneBehindOther DEF BufferTypes
  <1>3. /\ cells \in Seq(Cells) /\ Len(buf) \in Nat /\ Len(old) \in Nat
        /\ DOMAIN cells = 1 .. BufSize
    BY <1>1, CellsOf
  <1>4. BufSize \in Nat /\ taken \in Seq(Places)
    BY PortAssumption DEF BufferTypes
  <1>5. Len(readbuf) \in Nat /\ Len(readbuf) <= Len(got) /\ infront \in Nat
    BY LenProperties DEF BufferTypes
  <1> HIDE DEF cells
  <1>6. CASE readbuf' = buf /\ behind' = old /\ infront' = lack /\ UNCHANGED taken
    BY <1>1, <1>2, <1>3, <1>4, <1>6 DEF BufferTypes
  <1>7. ASSUME NEW cr \in DOMAIN cells, NEW end \in DOMAIN cells, IsLine(cells, cr, end),
               readbuf' = Rest(buf, end),
               behind' = [i \in 1..BufSize - Len(readbuf') |-> Moved(cells, end)[Len(readbuf') + i]],
               infront' = lack + (IF end > Len(buf) THEN end - Len(buf) ELSE 0),
               LET before == Len(got) - Len(readbuf) + infront
               IN taken' = Append(taken, [first |-> before + 1, last |-> before + cr,
                                          end |-> before + end, read |-> Len(got')])
        PROVE  BufferTypes'
    <2> DEFINE before == Len(got) - Len(readbuf) + infront
               new == [first |-> before + 1, last |-> before + cr,
                       end |-> before + end, read |-> Len(got')]
    <2>1. cr \in Nat \ {0} /\ end \in Nat \ {0}
      BY <1>3, <1>4
    <2>2. /\ readbuf' \in Seq(Bytes) /\ Len(readbuf') = IF end <= Len(buf) THEN Len(buf) - end ELSE 0
          /\ (end >= Len(buf) => readbuf' = <<>>)
      BY <1>1, <1>7, <2>1, RestOf
    <2>3. Len(readbuf') \in Nat /\ Len(readbuf') <= Len(buf) /\ Len(buf) <= BufSize
      BY <1>1, <1>3, <2>1, <2>2
    <2>4. behind' \in Seq(Cells) /\ Len(behind') = BufSize - Len(readbuf')
      <3> DEFINE m == BufSize - Len(readbuf')  moved == Moved(cells, end)
      <3>1. m \in Nat
        BY <1>4, <2>3, <1>1, <1>3
      <3>2. ASSUME NEW i \in 1 .. m PROVE moved[Len(readbuf') + i] \in Cells
        <4> DEFINE p == Len(readbuf') + i
        <4>1. p \in 1 .. BufSize /\ p \in Nat
          BY <1>4, <2>3
        <4> HIDE DEF p
        <4>2. moved[p] = IF p + end <= BufSize THEN cells[p + end] ELSE cells[p]
          BY <4>1 DEF Moved
        <4>3. \A q \in 1 .. BufSize : cells[q] \in Cells
          <5>1. \A q \in 1 .. Len(cells) : cells[q] \in Cells
            BY <1>3, LenProperties
          <5>2. DOMAIN cells = 1 .. Len(cells)
            BY <1>3, LenProperties
          <5> QED
            BY <1>3, <5>1, <5>2
        <4>4. p + end <= BufSize => p + end \in 1 .. BufSize
          BY <1>4, <2>1, <4>1
        <4>5. moved[p] \in Cells
          BY <4>1, <4>2, <4>3, <4>4
        <4> QED
          BY <4>5 DEF p
      <3> HIDE DEF m, moved
      <3>3. behind' \in [1 .. m -> Cells]
        BY <1>7, <3>2 DEF m, moved
      <3>4. behind' \in Seq(Cells)
        BY <3>1, <3>3, SeqDef
      <3>5. DOMAIN behind' = 1 .. m /\ DOMAIN behind' = 1 .. Len(behind') /\ Len(behind') \in Nat
        BY <3>3, <3>4, LenProperties
      <3>6. Len(behind') = m
        BY <3>1, <3>5
      <3> QED
        BY <3>4, <3>6 DEF m
    <2>5. infront' \in Nat /\ (infront' > 0 => readbuf' = <<>>)
      <3>1. lack > 0 => Len(buf) = 0
        BY <1>1
      <3>2. infront' > 0 => end >= Len(buf)
        BY <1>1, <1>3, <1>7, <2>1, <3>1
      <3>3. infront' \in Nat
        BY <1>1, <1>3, <1>7, <2>1
      <3> QED
        BY <2>2, <3>2, <3>3
    <2>6. new \in Places
      <3>1. before \in Nat /\ Len(got') \in Nat
        BY <1>2, <1>5
      <3>2. before + 1 \in Nat /\ before + cr \in Nat /\ before + end \in Nat
        BY <2>1, <3>1
      <3> HIDE DEF before
      <3> QED
        BY <3>1, <3>2 DEF Places
    <2>7. taken' \in Seq(Places)
      <3>1. taken' = Append(taken, new)
        BY <1>7
      <3> HIDE DEF new
      <3> QED
        BY <1>4, <2>6, <3>1, AppendProperties
    <2>8. Len(readbuf') <= BufSize /\ Len(readbuf') <= Len(got') /\ Len(readbuf') + Len(behind') = BufSize
      <3>1. Len(readbuf') \in Nat /\ Len(buf) \in Nat /\ Len(got') \in Nat /\ Len(buf) <= Len(got')
        BY <1>1, <1>2, <1>3, <2>3
      <3> QED
        BY <1>4, <2>3, <2>4, <3>1
    <2> QED
      BY <1>2, <2>2, <2>4, <2>5, <2>7, <2>8 DEF BufferTypes
  <1> QED
    <2>1. TakeLine(buf, old, lack)
      OBVIOUS
    <2> QED
      BY <1>6, <1>7, <2>1, Zenon DEF TakeLine, cells

-----------------------------------------------------------------------------
(* Without old bytes.  A line is then one of the bytes that were read: the *)
(* search ends before it comes to what is behind them.                     *)

IsLineOf(buf, cr, end) ==
  /\ cr <= end /\ EndsLine(buf[cr])
  /\ \A i \in DOMAIN buf : i < cr => ~EndsLine(buf[i])
  /\ \A i \in DOMAIN buf : cr < i /\ i <= end => ~IsText(buf[i])

TakeClean(buf) ==
  \/ (\A i \in DOMAIN buf : ~EndsLine(buf[i])) /\ readbuf' = buf /\ UNCHANGED <<towrite, taken>>
  \/ \E cr, end \in DOMAIN buf :
       /\ IsLineOf(buf, cr, end) /\ readbuf' = Rest(buf, end) /\ towrite' = Writes
       /\ LET before == Len(got) - Len(readbuf)
          IN taken' = Append(taken, [first |-> before + 1, last |-> before + cr,
                                     end |-> before + end, read |-> Len(got')])

\* What a line adds to those that were returned, and where the old bytes begin.
LEMMA LineTaken ==
  ASSUME BufferTypes, NEW some \in Seq(Bytes), got' = got \o some, infront = 0,
         NEW buf, NEW old, NEW lack, Brought(some, buf, old, lack),
         NEW cr \in DOMAIN (buf \o old), NEW end \in DOMAIN (buf \o old),
         LET before == Len(got) - Len(readbuf) + infront
         IN taken' = Append(taken, [first |-> before + 1, last |-> before + cr,
                                    end |-> before + end, read |-> Len(got')])
  PROVE  LET K == Len(taken) + 1  before == Len(got) - Len(readbuf)
         IN /\ taken' \in Seq(Places) /\ Len(taken) \in Nat /\ Len(taken') = K
            /\ DOMAIN taken = 1 .. Len(taken) /\ DOMAIN taken' = 1 .. K
            /\ taken'[K] = [first |-> before + 1, last |-> before + cr,
                            end |-> before + end, read |-> Len(got')]
            /\ \A k \in 1 .. Len(taken) : taken'[k] = taken[k]
            /\ before \in Nat /\ Len(buf) \in Nat /\ Len(got') = before + Len(buf)
            /\ cr \in Nat \ {0} /\ end \in Nat \ {0}
  <1> DEFINE K == Len(taken) + 1  before == Len(got) - Len(readbuf)
             new == [first |-> before + 1, last |-> before + cr,
                     end |-> before + end, read |-> Len(got')]
  <1>1. buf \in Seq(Bytes) /\ old \in Seq(Cells) /\ buf = readbuf \o some
    BY DEF Brought
  <1>2. DOMAIN (buf \o old) = 1 .. Len(buf) + Len(old) /\ Len(buf) \in Nat /\ Len(old) \in Nat
    BY <1>1, CellsOf
  <1>3. cr \in Nat \ {0} /\ end \in Nat \ {0}
    BY <1>2
  <1>4. /\ got \in Seq(Bytes) /\ readbuf \in Seq(Bytes) /\ taken \in Seq(Places)
        /\ Len(readbuf) <= Len(got)
    BY DEF BufferTypes
  <1>5. /\ Len(got') = Len(got) + Len(some) /\ Len(buf) = Len(readbuf) + Len(some)
        /\ Len(got) \in Nat /\ Len(some) \in Nat /\ Len(readbuf) \in Nat
    BY <1>1, <1>4, OneBehindOther
  <1>6. before \in Nat /\ Len(got') = before + Len(buf) /\ Len(got') \in Nat
    BY <1>4, <1>5
  <1>7. taken' = Append(taken, new)
    <2>1. Len(got) - Len(readbuf) + infront = before
      BY <1>4, <1>5
    <2> DEFINE place == Len(got) - Len(readbuf) + infront
    <2>2. taken' = Append(taken, [first |-> place + 1, last |-> place + cr,
                                  end |-> place + end, read |-> Len(got')])
      OBVIOUS
    <2>3. place = before
      BY <2>1
    <2> HIDE DEF place, before
    <2> QED
      BY <2>2, <2>3
  <1>8. new \in Places
    <2>1. before + 1 \in Nat /\ before + cr \in Nat /\ before + end \in Nat
      BY <1>3, <1>6
    <2> HIDE DEF before
    <2> QED
      BY <1>6, <2>1 DEF Places
  <1> HIDE DEF new
  <1>9. /\ taken' \in Seq(Places) /\ Len(taken) \in Nat /\ Len(taken') = K
        /\ taken'[K] = new /\ \A k \in 1 .. Len(taken) : taken'[k] = taken[k]
    BY <1>4, <1>7, <1>8, AppendProperties, LenProperties
  <1>10. DOMAIN taken = 1 .. Len(taken) /\ DOMAIN taken' = 1 .. K
    BY <1>4, <1>9, LenProperties
  <1> QED
    BY <1>2, <1>3, <1>6, <1>9, <1>10 DEF new

\* A line of old bytes is among those returned for good.
LEMMA TakenStay ==
  ASSUME BufferTypes, taken' = taken \/ \E e \in Places : taken' = Append(taken, e), LinesAreRead'
  PROVE  LinesAreRead
  <1> SUFFICES ASSUME NEW k \in DOMAIN taken PROVE IsRead(k)
    BY DEF LinesAreRead
  <1>1. taken \in Seq(Places) /\ k \in 1 .. Len(taken) /\ Len(taken) \in Nat
    BY LenProperties DEF BufferTypes
  <1>2. k \in DOMAIN taken' /\ taken'[k] = taken[k]
    <2>1. CASE taken' = taken
      BY <2>1
    <2>2. ASSUME NEW e \in Places, taken' = Append(taken, e)
          PROVE  k \in DOMAIN taken' /\ taken'[k] = taken[k]
      <3>1. /\ taken' \in Seq(Places) /\ Len(taken') = Len(taken) + 1
            /\ \A i \in 1 .. Len(taken) : taken'[i] = taken[i]
        BY <1>1, <2>2, AppendProperties
      <3>2. DOMAIN taken' = 1 .. Len(taken) + 1
        BY <3>1, LenProperties
      <3> QED
        BY <1>1, <3>1, <3>2
    <2> QED
      BY <2>1, <2>2
  <1> QED
    BY <1>2 DEF LinesAreRead, IsRead

\* A read adds one line to those that were returned, or none.
LEMMA TakeAppends ==
  ASSUME BufferTypes, NEW some \in Seq(Bytes), got' = got \o some,
         NEW buf, NEW old, NEW lack, Brought(some, buf, old, lack), TakeLine(buf, old, lack)
  PROVE  taken' = taken \/ \E e \in Places : taken' = Append(taken, e)
  <1> DEFINE cells == buf \o old  before == Len(got) - Len(readbuf) + infront
             new(cr, end) == [first |-> before + 1, last |-> before + cr,
                              end |-> before + end, read |-> Len(got')]
  <1>1. DOMAIN cells = 1 .. Len(buf) + Len(old) /\ Len(buf) \in Nat /\ Len(old) \in Nat
    BY CellsOf DEF Brought
  <1>2. Len(got') \in Nat /\ before \in Nat
    <2>1. Len(got') \in Nat /\ Len(got) \in Nat /\ Len(readbuf) \in Nat
      BY OneBehindOther, LenProperties DEF BufferTypes
    <2> QED
      BY <2>1 DEF BufferTypes
  <1>3. taken' = taken \/ \E cr, end \in DOMAIN cells : taken' = Append(taken, new(cr, end))
    BY DEF TakeLine
  <1> HIDE DEF cells, before
  <1>4. \A cr, end \in DOMAIN cells : new(cr, end) \in Places
    <2> SUFFICES ASSUME NEW cr \in DOMAIN cells, NEW end \in DOMAIN cells
                 PROVE  new(cr, end) \in Places
      OBVIOUS
    <2>1. before + 1 \in Nat /\ before + cr \in Nat /\ before + end \in Nat
      BY <1>1, <1>2
    <2> QED
      BY <1>2, <2>1 DEF Places
  <1> HIDE DEF new
  <1> QED
    BY <1>3, <1>4

\* With no old bytes returned, the line that is taken is one of what was read.
LEMMA CleanTake ==
  ASSUME BufferInv, NEW some \in Seq(Bytes), got' = got \o some, LinesAreRead',
         NEW buf, NEW old, NEW lack, Brought(some, buf, old, lack), TakeLine(buf, old, lack)
  PROVE  buf = readbuf \o some /\ TakeClean(buf) /\ infront' = 0
  <1> DEFINE cells == buf \o old
  <1>1. /\ BufferTypes /\ infront = 0 /\ buf \in Seq(Bytes) /\ old \in Seq(Cells)
        /\ buf = readbuf \o some /\ lack = 0
    BY DEF Brought, BufferInv
  <1>2. /\ Len(buf) \in Nat /\ Len(old) \in Nat /\ DOMAIN buf = 1 .. Len(buf)
        /\ DOMAIN cells = 1 .. Len(buf) + Len(old)
        /\ \A i \in 1 .. Len(buf) : cells[i] = buf[i] /\ cells[i] # Nul
    BY <1>1, CellsOf
  <1> HIDE DEF cells
  <1>3. CASE /\ \A i \in DOMAIN cells : EndsLine(cells[i]) => ~InString(cells, i)
             /\ readbuf' = buf /\ behind' = old /\ infront' = lack
             /\ UNCHANGED <<towrite, taken>>
    <2>1. ASSUME NEW i \in DOMAIN buf PROVE ~EndsLine(buf[i])
      <3>1. i \in DOMAIN cells /\ cells[i] = buf[i] /\ \A j \in 1 .. i : j \in 1 .. Len(buf)
        BY <1>2
      <3>2. InString(cells, i)
        BY <1>2, <3>1 DEF InString
      <3> QED
        BY <1>3, <3>1, <3>2
    <2> QED
      BY <1>1, <1>3, <2>1 DEF TakeClean
  <1>4. ASSUME NEW cr \in DOMAIN cells, NEW end \in DOMAIN cells, IsLine(cells, cr, end),
               readbuf' = Rest(buf, end),
               infront' = lack + (IF end > Len(buf) THEN end - Len(buf) ELSE 0),
               towrite' = Writes,
               LET before == Len(got) - Len(readbuf) + infront
               IN taken' = Append(taken, [first |-> before + 1, last |-> before + cr,
                                          end |-> before + end, read |-> Len(got')])
        PROVE  TakeClean(buf) /\ infront' = 0
    <2>0. PICK K : K = Len(taken) + 1
      OBVIOUS
    <2> DEFINE before == Len(got) - Len(readbuf)
               new == [first |-> before + 1, last |-> before + cr,
                       end |-> before + end, read |-> Len(got')]
    <2>1. /\ DOMAIN taken' = 1 .. K /\ taken'[K] = new /\ Len(taken) \in Nat
          /\ before \in Nat /\ Len(got') = before + Len(buf)
          /\ cr \in Nat \ {0} /\ end \in Nat \ {0}
      <3>1. /\ DOMAIN taken' = 1 .. Len(taken) + 1 /\ taken'[Len(taken) + 1] = new
            /\ Len(taken) \in Nat /\ before \in Nat /\ Len(got') = before + Len(buf)
            /\ cr \in Nat \ {0} /\ end \in Nat \ {0}
        BY <1>1, <1>4, LineTaken DEF cells
      <3> HIDE DEF new, before
      <3> QED
        BY <2>0, <3>1
    <2>2. end <= Len(buf)
      <3>1. IsRead(K)'
        <4>1. K \in 1 .. K
          BY <2>0, <2>1
        <4> QED
          BY <2>1, <4>1 DEF LinesAreRead
      <3>2. new.end <= new.read
        BY <2>1, <3>1 DEF IsRead
      <3>3. before + end <= before + Len(buf)
        BY <2>1, <3>2
      <3> HIDE DEF before
      <3>4. before \in Nat /\ end \in Nat /\ Len(buf) \in Nat
        BY <1>2, <2>1
      <3> QED
        BY <3>3, <3>4
    <2>3. cr \in 1 .. end /\ cr \in DOMAIN buf /\ end \in DOMAIN buf
      BY <1>2, <1>4, <2>1, <2>2 DEF IsLine
    <2>4. IsLineOf(buf, cr, end)
      <3>1. EndsLine(cells[cr]) /\ cells[cr] = buf[cr] /\ cr <= end
        BY <1>2, <1>4, <2>3 DEF IsLine
      <3>2. ASSUME NEW i \in DOMAIN buf, i < cr PROVE ~EndsLine(buf[i])
        <4>1. i \in 1 .. cr - 1 /\ cells[i] = buf[i]
          BY <1>2, <2>1, <3>2
        <4> QED
          BY <1>4, <4>1 DEF IsLine
      <3>3. ASSUME NEW i \in DOMAIN buf, cr < i, i <= end PROVE ~IsText(buf[i])
        <4>1. i \in cr .. end /\ cells[i] = buf[i]
          BY <1>2, <2>1, <3>3
        <4>2. IsSeparator(cells[i])
          BY <1>4, <4>1 DEF IsLine
        <4> QED
          BY <4>1, <4>2 DEF IsSeparator, IsText
      <3> QED
        BY <3>1, <3>2, <3>3 DEF IsLineOf
    <2>5. infront' = 0
      BY <1>1, <1>2, <1>4, <2>1, <2>2
    <2>6. taken' = Append(taken, new)
      <3>1. Len(got) - Len(readbuf) + infront = before
        <4>1. Len(got) - Len(readbuf) \in Int
          BY <2>1
        <4> QED
          BY <1>1, <4>1
      <3> DEFINE place == Len(got) - Len(readbuf) + infront
      <3>2. taken' = Append(taken, [first |-> place + 1, last |-> place + cr,
                                    end |-> place + end, read |-> Len(got')])
        BY <1>4
      <3>3. place = before
        BY <3>1
      <3> HIDE DEF place, before
      <3> QED
        BY <3>2, <3>3
    <2> QED
      BY <1>4, <2>3, <2>4, <2>5, <2>6 DEF TakeClean
  <1>5. TakeClean(buf) /\ infront' = 0
    <2>1. TakeLine(buf, old, lack)
      OBVIOUS
    <2> QED
      BY <1>3, <1>4, <2>1, Zenon DEF TakeLine, cells
  <1> QED
    BY <1>1, <1>5

\* The same bytes, counted from the front of the buffer or of all that was read.
LEMMA Buffered ==
  ASSUME BufferInv, NEW some \in Seq(Bytes), Len(some) <= Room, got' = got \o some
  PROVE  LET buf == readbuf \o some  before == Len(got) - Len(readbuf)
         IN /\ before \in Nat
            /\ buf \in Seq(Bytes) /\ Len(buf) <= BufSize
            /\ got' \in Seq(Bytes) /\ Len(got') = before + Len(buf)
            /\ \A i \in 1 .. Len(buf) : got'[before + i] = buf[i]
            /\ \A i \in 1 .. before : got'[i] = got[i]
  <1> DEFINE buf == readbuf \o some  before == Len(got) - Len(readbuf)
  <1>1. /\ readbuf \in Seq(Bytes) /\ got \in Seq(Bytes) /\ Len(readbuf) <= Len(got)
        /\ Len(readbuf) \in Nat /\ Len(got) \in Nat /\ Len(some) \in Nat /\ infront = 0
    BY LenProperties DEF BufferInv, BufferTypes, LinesTileTheInput
  <1>2. before \in Nat /\ before <= Len(got)
    BY <1>1
  <1>3. /\ buf \in Seq(Bytes) /\ Len(buf) = Len(readbuf) + Len(some)
        /\ \A i \in 1 .. Len(readbuf) + Len(some) :
             buf[i] = IF i <= Len(readbuf) THEN readbuf[i] ELSE some[i - Len(readbuf)]
    BY <1>1, ConcatProperties
  <1>4. /\ got' \in Seq(Bytes) /\ Len(got') = Len(got) + Len(some)
        /\ \A i \in 1 .. Len(got) + Len(some) :
             got'[i] = IF i <= Len(got) THEN got[i] ELSE some[i - Len(got)]
    BY <1>1, ConcatProperties
  <1>5. \A i \in 1 .. Len(readbuf) : readbuf[i] = got[before + i]
    <2>1. \A i \in 1 .. Len(got) - before : SubSeq(got, before + 1, Len(got))[i] = got[before + i]
      BY <1>1, <1>2, Halves
    <2>2. readbuf = SubSeq(got, before + 1, Len(got)) /\ Len(got) - before = Len(readbuf)
      BY <1>1 DEF BufferInv, LinesTileTheInput
    <2>3. ASSUME NEW i \in 1 .. Len(readbuf) PROVE readbuf[i] = got[before + i]
      <3> DEFINE front == SubSeq(got, before + 1, Len(got))
      <3>1. front[i] = got[before + i]
        BY <2>1, <2>2
      <3> HIDE DEF front
      <3> QED
        BY <2>2, <3>1 DEF front
    <2> QED
      BY <2>3
  <1>6. Len(buf) <= BufSize
    BY <1>1, <1>3, PortAssumption DEF Room
  <1> HIDE DEF buf
  <1>7. ASSUME NEW i \in 1 .. Len(buf) PROVE got'[before + i] = buf[i]
    <2>0. i \in Nat /\ i <= Len(readbuf) + Len(some) /\ before + Len(readbuf) = Len(got)
      BY <1>1, <1>3
    <2>1. CASE i <= Len(readbuf)
      <3>1. buf[i] = readbuf[i] /\ readbuf[i] = got[before + i]
        BY <1>1, <1>3, <1>5, <2>0, <2>1
      <3>2. before + i \in 1 .. Len(got)
        BY <1>1, <1>2, <2>0, <2>1
      <3>3. got'[before + i] = got[before + i]
        BY <1>1, <1>4, <3>2
      <3> QED
        BY <3>1, <3>3
    <2>2. CASE i > Len(readbuf)
      BY <1>1, <1>3, <1>4, <2>2
    <2> QED
      BY <1>1, <1>3, <2>1, <2>2
  <1>8. \A i \in 1 .. before : got'[i] = got[i]
    BY <1>1, <1>2, <1>4
  <1> QED
    BY <1>1, <1>2, <1>3, <1>4, <1>6, <1>7, <1>8 DEF buf

\* A line that was returned stays where it is.
LinesTile(k) ==
  /\ taken[k].first = IF k = 1 THEN 1 ELSE taken[k - 1].end + 1
  /\ EndsLine(got[taken[k].last])
  /\ \A i \in taken[k].first .. taken[k].last - 1 : ~EndsLine(got[i])
  /\ \A i \in taken[k].last .. taken[k].end : ~IsText(got[i])

LEMMA TakenTypes ==
  ASSUME BufferTypes, NEW k \in 1 .. Len(taken)
  PROVE  taken[k].first \in Nat /\ taken[k].last \in Nat /\ taken[k].end \in Nat
  <1>1. taken[k] \in Places
    BY ElementOfSeq DEF BufferTypes
  <1> QED
    BY <1>1 DEF Places

LEMMA LinesStay ==
  ASSUME BufferInv, NEW before \in Nat, before = Len(got) - Len(readbuf),
         \A i \in 1 .. before : got'[i] = got[i],
         NEW k \in 1 .. Len(taken), taken'[k] = taken[k], k # 1 => taken'[k - 1] = taken[k - 1]
  PROVE  LinesTile(k)'
  <1>1. /\ taken[k].first \in Nat /\ taken[k].last \in Nat /\ taken[k].end \in Nat
        /\ 1 <= taken[k].first /\ taken[k].first <= taken[k].last /\ taken[k].last <= taken[k].end
        /\ taken[k].end <= before
    BY TakenTypes DEF BufferInv, PlacesInv
  <1>2. LinesTile(k)
    <2>1. k \in DOMAIN taken
      BY LenProperties DEF BufferInv, BufferTypes
    <2> QED
      BY <2>1 DEF BufferInv, LinesTileTheInput, LinesTile
  <1>3. got'[taken[k].last] = got[taken[k].last]
    BY <1>1
  <1>4. ASSUME NEW i \in taken[k].first .. taken[k].last - 1 PROVE got'[i] = got[i]
    <2>1. i \in 1 .. before
      BY <1>1
    <2> QED
      BY <2>1
  <1>5. ASSUME NEW i \in taken[k].last .. taken[k].end PROVE got'[i] = got[i]
    <2>1. i \in 1 .. before
      BY <1>1
    <2> QED
      BY <2>1
  <1>6. (\A i \in taken[k].first .. taken[k].last - 1 : ~EndsLine(got[i]))'
    BY <1>2, <1>4 DEF LinesTile, EndsLine
  <1>7. (\A i \in taken[k].last .. taken[k].end : ~IsText(got[i]))'
    BY <1>2, <1>5 DEF LinesTile, IsText
  <1> QED
    BY <1>2, <1>3, <1>6, <1>7 DEF LinesTile, EndsLine

\* Of two sequences with the same end.
LEMMA SameEnds ==
  ASSUME NEW S, NEW p \in Seq(S), NEW q \in Seq(S), NEW d \in Nat,
         Len(q) = d + Len(p), \A i \in 1 .. Len(p) : q[d + i] = p[i],
         NEW e \in 0 .. Len(p)
  PROVE  SubSeq(p, e + 1, Len(p)) = SubSeq(q, (d + e) + 1, Len(q))
  <1> DEFINE k == d + e
  <1>1. Len(p) \in Nat /\ k \in 0 .. Len(q) /\ Len(q) - k = Len(p) - e
    BY LenProperties
  <1>2. \A i \in 1 .. Len(p) - e : q[k + i] = p[e + i]
    <2> SUFFICES ASSUME NEW i \in 1 .. Len(p) - e PROVE q[k + i] = p[e + i]
      OBVIOUS
    <2>1. e + i \in 1 .. Len(p) /\ k + i = d + (e + i)
      BY <1>1
    <2> QED
      BY <2>1
  <1> HIDE DEF k
  <1> DEFINE s == SubSeq(p, e + 1, Len(p))  t == SubSeq(q, k + 1, Len(q))
  <1>3. s \in Seq(S) /\ Len(s) = Len(p) - e /\ \A i \in 1 .. Len(p) - e : s[i] = p[e + i]
    BY Halves
  <1>4. t \in Seq(S) /\ Len(t) = Len(q) - k /\ \A i \in 1 .. Len(q) - k : t[i] = q[k + i]
    BY <1>1, Halves
  <1> HIDE DEF s, t
  <1>5. s = t
    <2>1. Len(s) = Len(t) /\ \A i \in 1 .. Len(s) : s[i] = t[i]
      BY <1>1, <1>2, <1>3, <1>4
    <2> QED
      BY <1>3, <1>4, <2>1, SeqEqual
  <1> QED
    BY <1>5 DEF s, t, k

\* Of places counted from before a buffer and from its start.
LEMMA Shifted ==
  ASSUME NEW b \in Nat, NEW lo \in Nat, NEW hi \in Nat, NEW n \in Nat, 1 <= lo, hi <= n,
         NEW i \in b + lo .. b + hi
  PROVE  i - b \in 1 .. n /\ lo <= i - b /\ i - b <= hi /\ b + (i - b) = i
  OBVIOUS

LEMMA ShiftedBelow ==
  ASSUME NEW b \in Nat, NEW cr \in Nat, NEW n \in Nat, cr <= n, NEW i \in b + 1 .. b + cr - 1
  PROVE  i - b \in 1 .. n /\ i - b < cr /\ b + (i - b) = i
  OBVIOUS

LEMMA InOrder ==
  ASSUME NEW b \in Nat, NEW cr \in Nat, NEW e \in Nat, 1 <= cr, cr <= e
  PROVE  /\ 1 <= b + 1 /\ b + 1 <= b + cr /\ b + cr <= b + e
         /\ \A m \in Nat : m <= b => m <= b + e
  OBVIOUS

LEMMA LastOf ==
  ASSUME NEW n \in Nat, n # 0, NEW k \in Nat, k = n + 1
  PROVE  n \in 1 .. n /\ k - 1 = n /\ k # 1
  OBVIOUS

\* The buffer stays the end of what was read, whether it gives up a line or not.
LEMMA TakeKeepsAt ==
  ASSUME BufferInv, NEW before \in Nat, before = Len(got) - Len(readbuf),
         NEW buf \in Seq(Bytes), Len(buf) <= BufSize,
         NEW all \in Seq(Bytes), Len(all) = before + Len(buf),
         \A i \in 1 .. Len(buf) : all[before + i] = buf[i],
         \A i \in 1 .. before : all[i] = got[i],
         got' = all, TakeClean(buf), BufferTypes', LinesAreRead', infront' = 0,
         NEW K \in Nat, K = Len(taken) + 1
  PROVE  BufferInv'
  <1>2. /\ Len(buf) \in Nat /\ DOMAIN buf = 1 .. Len(buf)
        /\ taken \in Seq(Places) /\ Len(taken) \in Nat
        /\ DOMAIN taken = 1 .. Len(taken)
    BY LenProperties DEF BufferInv, BufferTypes
  <1>3. before = IF taken = <<>> THEN 0 ELSE taken[Len(taken)].end
    BY DEF BufferInv, LinesTileTheInput
  <1>5. \A k \in 1 .. Len(taken) : taken[k].end <= before
    BY DEF BufferInv, PlacesInv
  <1>6. \A e \in 0 .. Len(buf) :
          SubSeq(buf, e + 1, Len(buf)) = SubSeq(all, (before + e) + 1, Len(all))
    BY SameEnds
  <1>7. CASE readbuf' = buf /\ UNCHANGED taken
    <2>2. ASSUME NEW k \in 1 .. Len(taken) PROVE LinesTile(k)'
      BY <1>7, LinesStay
    <2>3. SubSeq(buf, 1, Len(buf)) = buf
      BY SubSeqFull
    <2>4. readbuf' = SubSeq(all, Len(all) - Len(readbuf') + 1, Len(all))
      <3>1. SubSeq(buf, 0 + 1, Len(buf)) = SubSeq(all, (before + 0) + 1, Len(all))
        BY <1>2, <1>6
      <3>2. (before + 0) + 1 = Len(all) - Len(buf) + 1
        BY <1>2
      <3>3. buf = SubSeq(all, Len(all) - Len(buf) + 1, Len(all))
        <4> HIDE <1>7
        <4> DEFINE a1 == (before + 0) + 1   a2 == Len(all) - Len(buf) + 1
        <4>1. a1 = a2
          BY <3>2
        <4>2. SubSeq(buf, 1, Len(buf)) = SubSeq(all, a1, Len(all))
          BY <3>1
        <4> HIDE DEF a1, a2
        <4>3. buf = SubSeq(all, a2, Len(all))
          BY <2>3, <4>1, <4>2
        <4> QED
          BY <4>3 DEF a2
      <3> QED
        BY <1>7, <3>3
    <2>5. Len(all) - Len(readbuf') = before /\ Len(readbuf') <= Len(all)
      BY <1>2, <1>7
    <2>6. LinesTileTheInput'
      BY <1>2, <1>3, <1>7, <2>2, <2>4, <2>5 DEF LinesTileTheInput, LinesTile
    <2>7. PlacesInv'
      BY <1>7, <2>5 DEF BufferInv, PlacesInv
    <2> QED
      BY <2>6, <2>7 DEF BufferInv
  <1>8. ASSUME NEW cr \in DOMAIN buf, NEW e \in DOMAIN buf, IsLineOf(buf, cr, e),
               readbuf' = Rest(buf, e),
               taken' = Append(taken, [first |-> before + 1, last |-> before + cr,
                                       end |-> before + e, read |-> Len(got')])
        PROVE  BufferInv'
    <2> DEFINE new == [first |-> before + 1, last |-> before + cr,
                       end |-> before + e, read |-> Len(got')]
    <2>1. /\ cr \in 1 .. Len(buf) /\ e \in 1 .. Len(buf) /\ cr <= e
          /\ EndsLine(buf[cr]) /\ \A i \in DOMAIN buf : i < cr => ~EndsLine(buf[i])
          /\ \A i \in DOMAIN buf : cr < i /\ i <= e => ~IsText(buf[i])
      BY <1>2, <1>8 DEF IsLineOf
    <2>0. e \in 0 .. Len(buf) /\ e \in Nat /\ cr \in Nat
      BY <1>2, <2>1
    <2>2. readbuf' \in Seq(Bytes) /\ Len(readbuf') = Len(buf) - e
      <3> DEFINE r == SubSeq(buf, e + 1, Len(buf))
      <3>1. r \in Seq(Bytes) /\ Len(r) = Len(buf) - e
        BY <2>0, Halves
      <3>2. readbuf' = r
        BY <1>8 DEF Rest
      <3> HIDE DEF r
      <3> QED
        BY <3>1, <3>2
    <2>3. Len(all) - Len(readbuf') = before + e /\ Len(readbuf') <= Len(all)
      BY <1>2, <2>1, <2>2
    <2>4. new \in Places
      <3>1. before + 1 \in Nat /\ before + cr \in Nat /\ before + e \in Nat /\ Len(got') \in Nat
        BY <2>0, <2>3, LenProperties
      <3> QED
        BY <3>1 DEF Places
    <2>5. /\ taken' \in Seq(Places) /\ Len(taken') = K
          /\ DOMAIN taken' = 1 .. K
          /\ taken'[K] = new /\ \A k \in 1 .. Len(taken) : taken'[k] = taken[k]
      <3>0. taken' = Append(taken, new)
        BY <1>8
      <3> HIDE DEF new
      <3>1. /\ taken' \in Seq(Places) /\ Len(taken') = K
            /\ taken'[K] = new /\ \A k \in 1 .. Len(taken) : taken'[k] = taken[k]
        BY <1>2, <2>4, <3>0, AppendProperties
      <3> QED
        BY <1>2, <3>1, LenProperties
    <2>7. readbuf' = SubSeq(all, Len(all) - Len(readbuf') + 1, Len(all))
      <3>1. SubSeq(buf, e + 1, Len(buf)) = SubSeq(all, (before + e) + 1, Len(all))
        BY <1>6, <2>0
      <3> QED
        BY <1>8, <2>3, <3>1 DEF Rest
    <2>8. ASSUME NEW k \in 1 .. Len(taken) PROVE LinesTile(k)'
      <3>1. k # 1 => k - 1 \in 1 .. Len(taken)
        BY <1>2
      <3> QED
        BY <2>5, <3>1, LinesStay
    <2>9. LinesTile(K)'
      <3>1. new.first = IF K = 1 THEN 1 ELSE taken'[K - 1].end + 1
        <4>1. CASE taken = <<>>
          BY <1>3, <4>1
        <4>2. CASE taken # <<>>
          <5>0. Len(taken) # 0
            BY <1>2, <4>2, EmptySeq
          <5>1. Len(taken) \in 1 .. Len(taken) /\ K - 1 = Len(taken) /\ K # 1
            BY <1>2, <5>0, LastOf
          <5> QED
            BY <1>3, <2>5, <4>2, <5>1
        <4> QED
          BY <4>1, <4>2
      <3>2. EndsLine(all[new.last])
        BY <2>1
      <3>3. ASSUME NEW i \in new.first .. new.last - 1 PROVE ~EndsLine(all[i])
        <4> DEFINE place == i - before
        <4>1. place \in 1 .. Len(buf) /\ place < cr /\ before + place = i
          <5>1. cr <= Len(buf) /\ i \in before + 1 .. before + cr - 1
            BY <2>1
          <5> QED
            BY SMTT(20), <1>2, <2>0, <5>1, ShiftedBelow
        <4> HIDE DEF place
        <4>2. all[i] = buf[place]
          BY <4>1
        <4>3. ~EndsLine(buf[place])
          BY <1>2, <2>1, <4>1
        <4> QED
          BY <4>2, <4>3
      <3>4. ASSUME NEW i \in new.last .. new.end PROVE ~IsText(all[i])
        <4> DEFINE place == i - before
        <4>1. place \in 1 .. Len(buf) /\ cr <= place /\ place <= e /\ before + place = i
          <5>1. 1 <= cr /\ e <= Len(buf) /\ i \in before + cr .. before + e
            BY <2>1
          <5> QED
            BY <1>2, <2>0, <5>1, Shifted
        <4> HIDE DEF place
        <4>2. all[i] = buf[place]
          BY <4>1
        <4>3. place = cr \/ cr < place
          BY <2>0, <4>1
        <4>4. CASE place = cr
          <5>1. ~IsText(buf[cr])
            BY <2>1 DEF EndsLine, IsText
          <5> QED
            BY <4>2, <4>4, <5>1
        <4>5. CASE cr < place
          <5>1. place \in DOMAIN buf
            BY <1>2, <4>1
          <5>2. ~IsText(buf[place])
            BY <2>1, <4>1, <4>5, <5>1
          <5> QED
            BY <4>2, <5>2
        <4> QED
          BY <4>3, <4>4, <4>5
      <3> HIDE DEF new
      <3> QED
        BY <2>5, <3>1, <3>2, <3>3, <3>4 DEF LinesTile, EndsLine, IsText
    <2>10. ASSUME NEW k \in 1 .. K PROVE LinesTile(k)'
      <3>1. k = K \/ k \in 1 .. Len(taken)
        BY <1>2
      <3>2. CASE k = K
        BY <2>9, <3>2 DEF LinesTile, EndsLine, IsText
      <3>3. CASE k \in 1 .. Len(taken)
        BY <2>8, <3>3
      <3> QED
        BY <3>1, <3>2, <3>3
    <2>11. taken' # <<>> /\ taken'[Len(taken')].end = before + e
      BY <1>2, <2>5, EmptySeq
    <2>12. LinesTileTheInput'
      <3> HIDE DEF new
      <3> QED
        BY <2>3, <2>5, <2>7, <2>10, <2>11 DEF LinesTileTheInput, LinesTile
    <2>13. PlacesInv'
      <3> SUFFICES ASSUME NEW k \in 1 .. K
                   PROVE  /\ 1 <= taken'[k].first /\ taken'[k].first <= taken'[k].last
                          /\ taken'[k].last <= taken'[k].end /\ taken'[k].end <= before + e
        BY <2>3, <2>5 DEF PlacesInv
      <3>1. CASE k = K
        <4>1. taken'[k] = new
          BY <2>5, <3>1
        <4>2. /\ 1 <= new.first /\ new.first <= new.last
              /\ new.last <= new.end /\ new.end <= before + e
          <5>1. new.first = before + 1 /\ new.last = before + cr /\ new.end = before + e
            OBVIOUS
          <5>2. 1 <= cr /\ cr <= e
            BY <1>2, <2>1
          <5>3. /\ 1 <= before + 1 /\ before + 1 <= before + cr
                /\ before + cr <= before + e
            BY <2>0, <5>2, InOrder
          <5> HIDE DEF new
          <5> QED
            BY <5>1, <5>3
        <4> QED
          BY <4>1, <4>2
      <3>2. CASE k # K
        <4>1. k \in 1 .. Len(taken)
          BY <1>2, <3>2
        <4>2. taken'[k] = taken[k] /\ taken[k].end \in Nat
          BY <2>5, <4>1, TakenTypes DEF BufferInv
        <4>3. /\ 1 <= taken[k].first /\ taken[k].first <= taken[k].last
              /\ taken[k].last <= taken[k].end
          BY <4>1 DEF BufferInv, PlacesInv
        <4>4. taken[k].end <= before + e
          <5>1. taken[k].end <= before
            BY <1>5, <4>1
          <5>2. 1 <= cr /\ cr <= e
            BY <1>2, <2>1
          <5> QED
            BY <2>0, <4>2, <5>1, <5>2, InOrder
        <4> QED
          BY <4>2, <4>3, <4>4
      <3> QED
        BY <3>1, <3>2
    <2> QED
      BY <2>12, <2>13 DEF BufferInv
  <1> QED
    BY <1>7, <1>8 DEF TakeClean

LEMMA TakeKeeps ==
  ASSUME BufferInv, NEW some \in Seq(Bytes), Len(some) <= Room, got' = got \o some,
         TakeClean(readbuf \o some), BufferTypes', LinesAreRead', infront' = 0
  PROVE  BufferInv'
  <1> DEFINE buf == readbuf \o some  before == Len(got) - Len(readbuf)
  <1>1. /\ before \in Nat /\ buf \in Seq(Bytes) /\ Len(buf) <= BufSize
        /\ got' \in Seq(Bytes) /\ Len(got') = before + Len(buf)
        /\ \A i \in 1 .. Len(buf) : got'[before + i] = buf[i]
        /\ \A i \in 1 .. before : got'[i] = got[i]
    BY Buffered
  <1>2. TakeClean(buf) /\ before = Len(got) - Len(readbuf)
    OBVIOUS
  <1>3. Len(taken) + 1 \in Nat
    BY LenProperties DEF BufferInv, BufferTypes
  <1> HIDE DEF buf, before
  <1> QED
    BY <1>1, <1>2, <1>3, TakeKeepsAt

LEMMA BufferKept ==
  ASSUME UNCHANGED <<readbuf, behind, infront, got, taken>>
  PROVE  BufferTypes' = BufferTypes /\ LinesAreRead' = LinesAreRead /\ BufferInv' = BufferInv
  BY DEF BufferInv, BufferTypes, LinesTileTheInput, PlacesInv, LinesAreRead, IsRead

\* Nothing was read yet.
LEMMA EmptyBuffer ==
  ASSUME readbuf = <<>>, behind = [i \in 1..BufSize |-> Nul], infront = 0, got = <<>>, taken = <<>>
  PROVE  BufferTypes /\ LinesAreRead /\ \A i \in DOMAIN behind : behind[i] = Nul
  <1>1. behind \in [1 .. BufSize -> Cells] /\ BufSize \in Nat
    BY PortAssumption DEF Cells
  <1>2. behind \in Seq(Cells)
    BY <1>1, SeqDef
  <1>3. DOMAIN behind = 1 .. BufSize /\ DOMAIN behind = 1 .. Len(behind) /\ Len(behind) \in Nat
    BY <1>1, <1>2, LenProperties
  <1>4. Len(behind) = BufSize
    BY <1>1, <1>3
  <1>5. BufferTypes
    BY <1>1, <1>2, <1>4 DEF BufferTypes
  <1> QED
    BY <1>5 DEF LinesAreRead

LEMMA PortInitially == PortInit => ClientTypes /\ BufferTypes /\ BufferInv
  <1> SUFFICES ASSUME PortInit PROVE ClientTypes /\ BufferTypes /\ BufferInv
    OBVIOUS
  <1>1. todo \in [Clients -> Seq({"char", "cr", "lf"})]
    BY PortAssumption DEF PortInit
  <1>2. ClientTypes
    <2>1. wire \in [Clients -> Seq(Bytes)] /\ backlog \in Seq(Clients)
      BY DEF PortInit
    <2>2. asked \in [Clients -> Nat] /\ answers \in [Clients -> Nat] /\ strays \in Nat
      BY DEF PortInit
    <2>3. fd \in Clients \cup {NoClient} /\ towrite \in 0 .. Writes
      BY PortAssumption DEF PortInit
    <2> QED
      BY <1>1, <2>1, <2>2, <2>3 DEF PortInit, ClientTypes
  <1>3. BufferTypes /\ LinesAreRead
    BY EmptyBuffer DEF PortInit
  <1>4. LinesTileTheInput
    <2>1. SubSeq(got, Len(got) - Len(readbuf) + 1, Len(got)) = <<>>
      BY DEF PortInit
    <2> QED
      BY <2>1 DEF PortInit, LinesTileTheInput
  <1>5. PlacesInv
    BY DEF PortInit, PlacesInv
  <1> QED
    BY <1>2, <1>3, <1>4, <1>5 DEF BufferInv, PortInit

\* A read, of the client that is connected or of the next one.
LEMMA ReadKeeps ==
  ASSUME ClientTypes, BufferTypes, ReadLine
  PROVE  /\ ClientTypes' /\ BufferTypes' /\ (LinesAreRead' => LinesAreRead)
         /\ BufferInv /\ LinesAreRead' => BufferInv'
  <1>1. PICK c \in Clients : ReadFrom(c) /\ backlog' \in Seq(Clients)
    <2>1. CASE fd # NoClient /\ ReadFrom(fd) /\ UNCHANGED backlog
      BY <2>1 DEF ClientTypes
    <2>2. CASE fd = NoClient /\ backlog # <<>> /\ ReadFrom(Head(backlog)) /\ backlog' = Tail(backlog)
      BY <2>2, HeadTailProperties DEF ClientTypes
    <2> QED
      BY <2>1, <2>2 DEF ReadLine
  <1>2. fd' \in Clients \cup {NoClient} /\ killed' \in BOOLEAN
    BY <1>1 DEF ClientTypes, ReadFrom, CloseConnection, Written
  <1>3. /\ UNCHANGED <<came, left, todo, burst, asked, answers, strays>>
    BY DEF ReadLine
  <1>4. CASE UNCHANGED <<readbuf, behind, infront, got, taken, wire, towrite>>
    BY <1>1, <1>2, <1>3, <1>4, BufferKept DEF ClientTypes
  <1>5. ASSUME NEW some \in Seq(Bytes), NEW more \in Seq(Bytes), Len(some) <= Room,
               wire' = [wire EXCEPT ![c] = more], got' = got \o some,
               NEW buf, NEW old, NEW lack, Brought(some, buf, old, lack), TakeLine(buf, old, lack)
        PROVE  /\ ClientTypes' /\ BufferTypes' /\ (LinesAreRead' => LinesAreRead)
               /\ BufferInv /\ LinesAreRead' => BufferInv'
    <2>1. towrite' \in 0 .. Writes
      <3>1. towrite' = towrite \/ towrite' = Writes
        BY <1>5 DEF TakeLine
      <3> QED
        BY <3>1, PortAssumption DEF ClientTypes
    <2>2. wire' \in [Clients -> Seq(Bytes)]
      BY <1>5 DEF ClientTypes
    <2>3. ClientTypes'
      BY <1>1, <1>2, <1>3, <2>1, <2>2 DEF ClientTypes
    <2>4. BufferTypes'
      BY <1>5, TakeTypes
    <2>5. LinesAreRead' => LinesAreRead
      BY <1>5, TakeAppends, TakenStay
    <2>6. ASSUME BufferInv, LinesAreRead' PROVE BufferInv'
      <3>1. TakeClean(readbuf \o some) /\ infront' = 0
        BY <1>5, <2>6, CleanTake
      <3> QED
        BY <1>5, <2>4, <2>6, <3>1, TakeKeeps
    <2> QED
      BY <2>3, <2>4, <2>5, <2>6
  <1>6. \/ UNCHANGED <<readbuf, behind, infront, got, taken, wire, towrite>>
        \/ \E some \in Seq(Bytes), more \in Seq(Bytes) :
             /\ Len(some) <= Room /\ wire[c] = some \o more
             /\ wire' = [wire EXCEPT ![c] = more] /\ got' = got \o some
             /\ \E buf, old, lack : Brought(some, buf, old, lack) /\ TakeLine(buf, old, lack)
    BY <1>1, ReadBrings
  <1> QED
    BY <1>4, <1>5, <1>6

LEMMA AnswerKeeps ==
  ASSUME ClientTypes, Answer
  PROVE  ClientTypes'
  <1> DEFINE Turn(c) == c \in Clients /\ Written(c) /\ Answered(c)
  <1>1. \/ \E c \in Clients : Turn(c) /\ UNCHANGED <<backlog, strays>>
        \/ \E c \in Clients : Turn(c) /\ backlog' \in Seq(Clients) /\ strays' \in Nat
        \/ UNCHANGED <<fd, killed, backlog, answers, strays>>
    <2>1. CASE fd # NoClient /\ Written(fd) /\ Answered(fd) /\ UNCHANGED <<backlog, strays>>
      BY <2>1 DEF ClientTypes
    <2>2. CASE /\ fd = NoClient /\ backlog # <<>>
               /\ Written(Head(backlog)) /\ backlog' = Tail(backlog)
               /\ Answered(Head(backlog)) /\ strays' = strays + 1
      BY <2>2, HeadTailProperties DEF ClientTypes
    <2> QED
      BY <2>1, <2>2 DEF Answer
  <1>2. towrite' \in 0 .. Writes
    BY PortAssumption DEF Answer, ClientTypes
  <1>3. ASSUME NEW c \in Clients, Turn(c)
        PROVE  /\ fd' \in Clients \cup {NoClient} /\ killed' \in BOOLEAN
               /\ answers' \in [Clients -> Nat]
    <2>1. fd' \in Clients \cup {NoClient} /\ killed' \in BOOLEAN
      BY <1>3 DEF Written, ClientTypes
    <2>2. answers' \in [Clients -> Nat]
      <3>1. CASE towrite = 1
        BY <1>3, <3>1 DEF Answered, ClientTypes
      <3>2. CASE towrite # 1
        BY <1>3, <3>2 DEF Answered, ClientTypes
      <3> QED
        BY <3>1, <3>2
    <2> QED
      BY <2>1, <2>2
  <1> HIDE DEF Turn
  <1> QED
    BY <1>1, <1>2, <1>3 DEF Answer, ClientTypes, clientVars

LEMMA ClientsKeep ==
  ASSUME ClientTypes, NEW c \in Clients, Connect(c) \/ Send(c) \/ Leave(c)
  PROVE  ClientTypes'
  <1>1. CASE Connect(c)
    <2>1. backlog' \in Seq(Clients)
      BY <1>1, AppendProperties DEF Connect, ClientTypes
    <2> QED
      BY <1>1, <2>1 DEF Connect, ClientTypes, portState, histVars
  <1>2. CASE Send(c)
    <2>1. todo[c] \in Seq({"char", "cr", "lf"}) /\ todo[c] # <<>>
      BY <1>2 DEF Send, ClientTypes
    <2>2. Head(todo[c]) \in {"char", "cr", "lf"} /\ Tail(todo[c]) \in Seq({"char", "cr", "lf"})
      BY <2>1, HeadTailProperties
    <2>3. todo' \in [Clients -> Seq({"char", "cr", "lf"})]
      BY <1>2, <2>2 DEF Send, ClientTypes
    <2>4. asked' \in [Clients -> Nat]
      BY <1>2 DEF Send, ClientTypes
    <2>5. wire' \in [Clients -> Seq(Bytes)]
      <3> DEFINE b == [from |-> c, line |-> asked[c], what |-> Head(todo[c])]
      <3>1. b \in Bytes /\ wire[c] \in Seq(Bytes)
        BY <2>2 DEF Bytes, ClientTypes
      <3>2. Append(wire[c], b) \in Seq(Bytes)
        <4> HIDE DEF b
        <4> QED
          BY <3>1, AppendProperties
      <3> QED
        BY <1>2, <3>2 DEF Send, ClientTypes
    <2> QED
      BY <1>2, <2>3, <2>4, <2>5 DEF Send, ClientTypes, portState, histVars
  <1>3. CASE Leave(c)
    BY <1>3 DEF Leave, ClientTypes, portState, histVars
  <1> QED
    BY <1>1, <1>2, <1>3

LEMMA PortKeeps ==
  ASSUME ClientTypes, BufferTypes, [PortNext]_portVars
  PROVE  /\ ClientTypes' /\ BufferTypes' /\ (LinesAreRead' => LinesAreRead)
         /\ BufferInv /\ LinesAreRead' => BufferInv'
  <1>1. CASE ReadLine
    BY <1>1, ReadKeeps
  <1>2. CASE Answer
    <2>1. UNCHANGED <<readbuf, behind, infront, got, taken>>
      BY <1>2 DEF Answer
    <2> QED
      BY <1>2, <2>1, AnswerKeeps, BufferKept
  <1>3. ASSUME NEW c \in Clients, Connect(c) \/ Send(c) \/ Leave(c)
        PROVE  /\ ClientTypes' /\ BufferTypes' /\ (LinesAreRead' => LinesAreRead)
               /\ BufferInv /\ LinesAreRead' => BufferInv'
    <2>1. UNCHANGED <<readbuf, behind, infront, got, taken>>
      BY <1>3 DEF Connect, Send, Leave, portState, histVars
    <2> QED
      BY <1>3, <2>1, ClientsKeep, BufferKept
  <1>4. CASE UNCHANGED portVars
    BY <1>4, BufferKept DEF portVars, portState, clientVars, histVars, ClientTypes
  <1> QED
    BY <1>1, <1>2, <1>3, <1>4 DEF PortNext, Port

\* What a port keeps for ever, and what it keeps as long as no old bytes are
\* returned as a line.
PortInv == ClientTypes /\ BufferTypes /\ (LinesAreRead => BufferInv)

LEMMA PortAlways == PortSpec => []PortInv
  <1>1. PortInit => PortInv
    BY PortInitially DEF PortInv
  <1>2. PortInv /\ [PortNext]_portVars => PortInv'
    BY PortKeeps DEF PortInv
  <1> QED
    BY <1>1, <1>2, PTL DEF PortSpec

\* The buffer of readLine() never holds more than it can, not even with old bytes
\* in it; and all else of the port and its clients is what it should be.
THEOREM PortTypesHold == PortSpec => []PortTypeOK
  <1>1. PortInv => PortTypeOK
    BY PortTypesSplit DEF PortInv
  <1> QED
    BY <1>1, PortAlways, PTL

\* For any number of clients, whatever they send, however it is cut into reads and
\* however large the buffer is: until readLine() returns old bytes as a line (which
\* LongLinesFirst says when it cannot), the lines that were returned and what is in
\* the buffer are all that was read, in order.
THEOREM LinesTileHolds == PortSpec => []LinesTileTheInput
  <1>1. PortInv => LinesTileTheInput
    BY DEF PortInv, BufferInv, LinesTileTheInput
  <1> QED
    BY <1>1, PortAlways, PTL

-----------------------------------------------------------------------------
(* The lines of SimPort.  Clients follow one another, so do the lines of   *)
(* each, and the port is no more of them behind than clients sent without  *)
(* waiting or were answered without asking.                                *)

Waiting  == {backlog[i] : i \in DOMAIN backlog}
Accepted == came \ Waiting

\* Bytes of a client that are of different lines have the end of a line between
\* them.
Kept(s) ==
  \A i, j \in DOMAIN s : i < j /\ s[i].from = s[j].from =>
    s[i].line = s[j].line \/ \E m \in i .. j - 1 : EndsLine(s[m])

\* A byte of line n of client c may follow.
MayFollow(s, c, n) ==
  \A i \in DOMAIN s : s[i].from = c => s[i].line = n \/ \E m \in i .. Len(s) : EndsLine(s[m])

OrderInv ==
  /\ \A b \in came, d \in Clients : d < b => d \in came
  /\ Waiting \subseteq came
  /\ \A a \in Accepted, w \in Waiting : a < w
  /\ \A i, j \in DOMAIN backlog : i < j => backlog[i] < backlog[j]
  /\ fd # NoClient => fd \in Accepted
  /\ \A i \in DOMAIN got : got[i].from \in Accepted /\ (fd # NoClient => got[i].from <= fd)
  /\ \A i, j \in DOMAIN got : i < j => got[i].from <= got[j].from

Flows(s, w, c, n) ==
  (\A i \in DOMAIN w : w[i].from = c) /\ Kept(s \o w) /\ MayFollow(s \o w, c, n)

StreamInv == \A c \in Clients : Flows(got, wire[c], c, asked[c])

Credit(who) == Cardinality(Early(who))

\* What is in readbuf when a client is accepted is not more than the credit of
\* those before it; from then on a line that is answered allows it another one.
Behind(c) ==
  LinesIn(readbuf) + LinesIn(wire[c]) + (IF towrite > 0 THEN 1 ELSE 0)
    <= Credit(Accepted \ {c}) + strays + asked[c] - answers[c]

LagInv ==
  /\ IsFiniteSet(Early(came))
  /\ \A c \in Clients : asked[c] - answers[c] <= burst[c]
  /\ \A c \in Clients \ Accepted : answers[c] = 0 /\ asked[c] = LinesIn(wire[c])
  /\ LinesIn(readbuf) <= Credit(Accepted) + strays
  /\ fd # NoClient => Behind(fd)

\* The lines of a sequence of bytes, and of it with one byte more.
LEMMA LinesCounted ==
  ASSUME NEW s \in Seq(Bytes)
  PROVE  /\ IsFiniteSet({i \in DOMAIN s : EndsLine(s[i])}) /\ LinesIn(s) \in Nat
         /\ (\A i \in DOMAIN s : ~EndsLine(s[i])) => LinesIn(s) = 0
         /\ (\E i \in DOMAIN s : EndsLine(s[i])) => LinesIn(s) >= 1
  <1> DEFINE ends == {i \in DOMAIN s : EndsLine(s[i])}
  <1>1. IsFiniteSet(DOMAIN s)
    <2>1. DOMAIN s = 1 .. Len(s) /\ Len(s) \in Int
      BY LenProperties
    <2> QED
      BY <2>1, FS_Interval
  <1>2. IsFiniteSet(ends)
    BY <1>1, FS_Subset
  <1>3. Cardinality(ends) \in Nat /\ (Cardinality(ends) = 0 <=> ends = {})
    BY <1>2, FS_CardinalityType, FS_EmptySet
  <1>4. LinesIn(s) = Cardinality(ends)
    BY DEF LinesIn
  <1>5. (\A i \in DOMAIN s : ~EndsLine(s[i])) <=> ends = {}
    OBVIOUS
  <1> HIDE DEF ends
  <1> QED
    BY <1>2, <1>3, <1>4, <1>5 DEF ends

LEMMA LinesWithOneMore ==
  ASSUME NEW s \in Seq(Bytes), NEW b \in Bytes
  PROVE  LinesIn(Append(s, b)) = LinesIn(s) + (IF EndsLine(b) THEN 1 ELSE 0)
  <1> DEFINE u == Append(s, b)  n == Len(s)
             ends(q) == {i \in DOMAIN q : EndsLine(q[i])}
  <1>1. /\ n \in Nat /\ DOMAIN s = 1 .. n /\ DOMAIN u = 1 .. n + 1
        /\ (\A i \in 1 .. n : u[i] = s[i]) /\ u[n + 1] = b
    BY AppendProperties, LenProperties
  <1>2. IsFiniteSet(ends(s))
    BY LinesCounted
  <1> HIDE DEF u, n
  <1>3. ends(u) = IF EndsLine(b) THEN ends(s) \cup {n + 1} ELSE ends(s)
    <2>1. \A i \in 1 .. n + 1 : i \in 1 .. n \/ i = n + 1
      BY <1>1
    <2> QED
      BY <1>1, <2>1
  <1>4. n + 1 \notin ends(s)
    BY <1>1
  <1> HIDE DEF ends
  <1>5. Cardinality(ends(s) \cup {n + 1}) = Cardinality(ends(s)) + 1 /\ Cardinality(ends(s)) \in Nat
    BY <1>2, <1>4, FS_AddElement, FS_CardinalityType
  <1>6. LinesIn(s) = Cardinality(ends(s)) /\ LinesIn(u) = Cardinality(ends(u))
    BY DEF LinesIn, ends
  <1>7. LinesIn(u) = LinesIn(s) + (IF EndsLine(b) THEN 1 ELSE 0)
    BY <1>3, <1>5, <1>6
  <1> QED
    BY <1>7 DEF u

LEMMA LinesOfBoth ==
  ASSUME NEW s \in Seq(Bytes), NEW t \in Seq(Bytes)
  PROVE  LinesIn(s \o t) = LinesIn(s) + LinesIn(t)
  <1> DEFINE u == s \o t  n == Len(s)
             ends(q) == {i \in DOMAIN q : EndsLine(q[i])}
             moved == {n + i : i \in ends(t)}
             f == [i \in ends(t) |-> n + i]
  <1>1. /\ n \in Nat /\ Len(t) \in Nat /\ DOMAIN s = 1 .. n /\ DOMAIN t = 1 .. Len(t)
        /\ DOMAIN u = 1 .. n + Len(t)
        /\ \A i \in 1 .. n : u[i] = s[i]
    BY OneBehindOther
  <1>2. \A i \in 1 .. Len(t) : u[n + i] = t[i]
    BY OneBehindOther
  <1>3. IsFiniteSet(ends(s)) /\ IsFiniteSet(ends(t))
    BY LinesCounted
  <1> HIDE DEF u, n
  <1>4. ends(u) = ends(s) \cup moved
    <2>1. \A i \in 1 .. n + Len(t) : i \in 1 .. n \/ (i - n \in 1 .. Len(t) /\ n + (i - n) = i)
      BY <1>1
    <2>2. ASSUME NEW i \in ends(u) PROVE i \in ends(s) \cup moved
      <3>1. i \in 1 .. n + Len(t) /\ EndsLine(u[i])
        BY <1>1
      <3>2. CASE i \in 1 .. n
        BY <1>1, <3>1, <3>2
      <3>3. CASE i - n \in 1 .. Len(t) /\ n + (i - n) = i
        BY <1>1, <1>2, <3>1, <3>3
      <3> QED
        BY <2>1, <3>1, <3>2, <3>3
    <2>3. ASSUME NEW i \in ends(s) PROVE i \in ends(u)
      BY <1>1
    <2>4. ASSUME NEW i \in ends(t) PROVE n + i \in ends(u)
      BY <1>1, <1>2
    <2> QED
      BY <2>2, <2>3, <2>4
  <1>5. ends(s) \cap moved = {}
    BY <1>1
  <1>6. f \in Bijection(ends(t), moved)
    <2>1. \A i \in ends(t) : i \in Nat
      BY <1>1
    <2>2. f \in [ends(t) -> moved]
      OBVIOUS
    <2>3. \A i, j \in ends(t) : f[i] = f[j] => i = j
      BY <1>1, <2>1
    <2>4. \A k \in moved : \E i \in ends(t) : f[i] = k
      OBVIOUS
    <2> HIDE DEF f, moved, ends
    <2> QED
      BY <2>2, <2>3, <2>4 DEF Bijection, Injection, Surjection, IsInjective
  <1> HIDE DEF ends, moved, f
  <1>7. ExistsBijection(ends(t), moved)
    BY <1>6 DEF ExistsBijection
  <1>8. IsFiniteSet(moved) /\ Cardinality(moved) = Cardinality(ends(t))
    BY <1>3, <1>7, FS_Bijection
  <1>9. /\ Cardinality(ends(s) \cup moved)
             = Cardinality(ends(s)) + Cardinality(moved) - Cardinality(ends(s) \cap moved)
        /\ Cardinality(ends(s)) \in Nat /\ Cardinality(ends(t)) \in Nat
    BY <1>3, <1>8, FS_Union, FS_CardinalityType
  <1>10. Cardinality(ends(s) \cap moved) = 0
    BY <1>5, FS_EmptySet
  <1>11. /\ LinesIn(s) = Cardinality(ends(s)) /\ LinesIn(t) = Cardinality(ends(t))
         /\ LinesIn(u) = Cardinality(ends(u))
    BY DEF LinesIn, ends
  <1>12. LinesIn(u) = LinesIn(s) + LinesIn(t)
    BY <1>4, <1>8, <1>9, <1>10, <1>11
  <1> QED
    BY <1>12 DEF u

\* A line that is taken is gone, with those that may lie in its separators.
LEMMA LinesOfRest ==
  ASSUME NEW buf \in Seq(Bytes), NEW cr \in DOMAIN buf, NEW end \in DOMAIN buf,
         IsLineOf(buf, cr, end)
  PROVE  Rest(buf, end) \in Seq(Bytes) /\ LinesIn(Rest(buf, end)) + 1 <= LinesIn(buf)
  <1> DEFINE s == SubSeq(buf, 1, end)  t == SubSeq(buf, end + 1, Len(buf))
  <1>1. cr \in 1 .. end /\ end \in 0 .. Len(buf) /\ EndsLine(buf[cr])
    BY LenProperties DEF IsLineOf
  <1>2. /\ s \in Seq(Bytes) /\ Len(s) = end /\ \A i \in 1 .. end : s[i] = buf[i]
        /\ t \in Seq(Bytes) /\ buf = s \o t
    <2>1. /\ s \in Seq(Bytes) /\ Len(s) = end /\ \A i \in 1 .. end : s[i] = buf[i]
          /\ t \in Seq(Bytes)
      BY <1>1, Halves
    <2> QED
      BY <1>1, <2>1, CutAndJoined
  <1> HIDE DEF s, t
  <1>3. \E i \in DOMAIN s : EndsLine(s[i])
    BY <1>1, <1>2, LenProperties
  <1>4. LinesIn(buf) = LinesIn(s) + LinesIn(t) /\ LinesIn(s) \in Nat /\ LinesIn(t) \in Nat
    BY <1>2, LinesOfBoth, LinesCounted
  <1>5. LinesIn(s) >= 1
    BY <1>2, <1>3, LinesCounted
  <1> QED
    BY <1>2, <1>4, <1>5 DEF Rest, t

\* One byte more of the client whose turn it is.
LEMMA KeptWithOneMore ==
  ASSUME NEW s \in Seq(Bytes), NEW c, NEW n \in Int, NEW b \in Bytes, b.from = c, b.line = n,
         Kept(s), MayFollow(s, c, n)
  PROVE  /\ Kept(Append(s, b))
         /\ MayFollow(Append(s, b), c, IF EndsLine(b) THEN n + 1 ELSE n)
  <1> DEFINE u == Append(s, b)  k == Len(s)  next == IF EndsLine(b) THEN n + 1 ELSE n
  <1>1. /\ k \in Nat /\ DOMAIN s = 1 .. k /\ DOMAIN u = 1 .. k + 1 /\ Len(u) = k + 1
        /\ (\A i \in 1 .. k : u[i] = s[i]) /\ u[k + 1] = b
    BY AppendProperties, LenProperties
  <1>2. \A i \in 1 .. k : s[i].from = c => s[i].line = n \/ \E m \in i .. k : EndsLine(s[m])
    BY <1>1 DEF MayFollow
  <1> HIDE DEF u, k
  <1>3. ASSUME NEW i \in 1 .. k, u[i].from = c
        PROVE  u[i].line = n \/ \E m \in i .. k : EndsLine(u[m])
    <2>1. s[i].line = n \/ \E m \in i .. k : EndsLine(s[m])
      BY <1>1, <1>2, <1>3
    <2>2. ASSUME NEW m \in i .. k PROVE m \in 1 .. k
      BY <1>1
    <2> QED
      BY <1>1, <2>1, <2>2
  <1>4. Kept(u)
    <2> SUFFICES ASSUME NEW i \in 1 .. k + 1, NEW j \in 1 .. k + 1, i < j, u[i].from = u[j].from
                 PROVE  u[i].line = u[j].line \/ \E m \in i .. j - 1 : EndsLine(u[m])
      BY <1>1 DEF Kept
    <2>1. i \in 1 .. k
      BY <1>1
    <2>2. CASE j \in 1 .. k
      <3>1. s[i].line = s[j].line \/ \E m \in i .. j - 1 : EndsLine(s[m])
        BY <1>1, <2>1, <2>2 DEF Kept
      <3>2. ASSUME NEW m \in i .. j - 1 PROVE m \in 1 .. k
        BY <1>1, <2>1, <2>2
      <3> QED
        BY <1>1, <2>1, <2>2, <3>1, <3>2
    <2>3. CASE j = k + 1
      <3>1. u[i].from = c /\ u[j].line = n /\ j - 1 = k
        BY <1>1, <2>3
      <3> QED
        BY <1>3, <2>1, <3>1
    <2> QED
      BY <1>1, <2>2, <2>3
  <1>5. MayFollow(u, c, next)
    <2> SUFFICES ASSUME NEW i \in 1 .. k + 1, u[i].from = c
                 PROVE  u[i].line = next \/ \E m \in i .. k + 1 : EndsLine(u[m])
      BY <1>1 DEF MayFollow
    <2>1. CASE EndsLine(b)
      <3>1. k + 1 \in i .. k + 1 /\ EndsLine(u[k + 1])
        BY <1>1, <2>1
      <3> QED
        BY <3>1
    <2>2. CASE ~EndsLine(b)
      <3>1. CASE i = k + 1
        BY <1>1, <2>2, <3>1
      <3>2. CASE i \in 1 .. k
        <4>1. u[i].line = n \/ \E m \in i .. k : EndsLine(u[m])
          BY <1>3, <3>2
        <4>2. \A m \in i .. k : m \in i .. k + 1
          BY <1>1, <3>2
        <4> QED
          BY <2>2, <4>1, <4>2
      <3> QED
        BY <1>1, <3>1, <3>2
    <2> QED
      BY <2>1, <2>2
  <1> QED
    BY <1>4, <1>5 DEF u

LEMMA KeptInFront ==
  ASSUME NEW s \in Seq(Bytes), NEW t \in Seq(Bytes), Kept(s \o t)
  PROVE  Kept(s)
  <1> DEFINE u == s \o t  n == Len(s)
  <1>1. /\ n \in Nat /\ Len(t) \in Nat /\ DOMAIN s = 1 .. n /\ DOMAIN u = 1 .. n + Len(t)
        /\ \A i \in 1 .. n : u[i] = s[i]
    BY OneBehindOther
  <1>2. Kept(u)
    OBVIOUS
  <1> HIDE DEF u, n
  <1> SUFFICES ASSUME NEW i \in 1 .. n, NEW j \in 1 .. n, i < j, s[i].from = s[j].from
               PROVE  s[i].line = s[j].line \/ \E m \in i .. j - 1 : EndsLine(s[m])
    BY <1>1 DEF Kept
  <1>3. i \in DOMAIN u /\ j \in DOMAIN u /\ u[i] = s[i] /\ u[j] = s[j]
    BY <1>1
  <1>4. u[i].line = u[j].line \/ \E m \in i .. j - 1 : EndsLine(u[m])
    BY <1>2, <1>3 DEF Kept
  <1>5. ASSUME NEW m \in i .. j - 1 PROVE u[m] = s[m]
    <2>1. m \in 1 .. n
      BY <1>1
    <2> QED
      BY <1>1, <2>1
  <1> QED
    BY <1>3, <1>4, <1>5

\* Bytes of another client do not matter to what is to come of client d.
LEMMA KeptAround ==
  ASSUME NEW g \in Seq(Bytes), NEW x \in Seq(Bytes), NEW w \in Seq(Bytes), NEW d, NEW n,
         \A i \in DOMAIN x : x[i].from # d, \A i \in DOMAIN w : w[i].from = d,
         Kept(g \o x), Kept(g \o w), MayFollow(g \o w, d, n)
  PROVE  Kept((g \o x) \o w) /\ MayFollow((g \o x) \o w, d, n)
  <1> DEFINE s == g \o x  v == g \o w  r == s \o w
             a == Len(g)  l == Len(x)  e == Len(w)
             At(p) == IF p <= a THEN p ELSE p + l
  <1>1. /\ s \in Seq(Bytes) /\ a \in Nat /\ l \in Nat /\ Len(s) = a + l
        /\ DOMAIN x = 1 .. l /\ DOMAIN s = 1 .. a + l
        /\ \A i \in 1 .. a : s[i] = g[i]
    BY OneBehindOther
  <1>2. \A i \in 1 .. l : s[a + i] = x[i]
    BY OneBehindOther
  <1>3. /\ e \in Nat /\ DOMAIN w = 1 .. e /\ DOMAIN v = 1 .. a + e /\ Len(v) = a + e
        /\ \A i \in 1 .. a : v[i] = g[i]
    BY OneBehindOther
  <1>4. \A i \in 1 .. e : v[a + i] = w[i]
    BY OneBehindOther
  <1> HIDE DEF s
  <1>5. /\ DOMAIN r = 1 .. a + l + e /\ Len(r) = a + l + e
        /\ \A i \in 1 .. a + l : r[i] = s[i]
    <2>1. /\ DOMAIN r = 1 .. Len(s) + e /\ Len(r) = Len(s) + e
          /\ \A i \in 1 .. Len(s) : r[i] = s[i]
      BY <1>1, OneBehindOther
    <2> HIDE DEF r, a, l, e
    <2> QED
      BY <1>1, <2>1
  <1>6. \A i \in 1 .. e : r[a + l + i] = w[i]
    BY <1>1, OneBehindOther
  <1>7. Kept(s) /\ Kept(v) /\ MayFollow(v, d, n)
    BY DEF s
  <1> HIDE DEF v, r, a, l, e
  <1>8. ASSUME NEW p \in 1 .. a + e
        PROVE  At(p) \in 1 .. a + l + e /\ r[At(p)] = v[p]
    <2>1. CASE p <= a
      <3>1. p \in 1 .. a /\ p \in 1 .. a + l /\ At(p) = p
        BY <1>1, <1>3, <2>1
      <3>2. r[p] = s[p] /\ s[p] = g[p] /\ v[p] = g[p]
        BY <1>1, <1>3, <1>5, <3>1
      <3> QED
        BY <1>1, <1>3, <3>1, <3>2
    <2>2. CASE p > a
      <3>1. p - a \in 1 .. e /\ a + (p - a) = p /\ a + l + (p - a) = p + l /\ At(p) = p + l
        BY <1>1, <1>3, <2>2
      <3>2. v[p] = w[p - a] /\ r[p + l] = w[p - a]
        BY <1>4, <1>6, <3>1
      <3> QED
        BY <1>1, <1>3, <3>1, <3>2
    <2> QED
      BY <1>1, <2>1, <2>2
  <1>9. \A p, q \in 1 .. a + e : p < q => At(p) < At(q)
    BY <1>1, <1>3
  <1>10. ASSUME NEW i \in 1 .. a + l + e
         PROVE  (\E p \in 1 .. a + e : i = At(p)) \/ (i \in 1 .. a + l /\ r[i].from # d)
    <2>1. CASE i <= a
      <3>1. i \in 1 .. a + e /\ At(i) = i
        BY <1>1, <1>3, <2>1
      <3> QED
        BY <3>1
    <2>2. CASE i > a + l
      <3>1. i - l \in 1 .. a + e /\ ~(i - l <= a) /\ (i - l) + l = i
        BY <1>1, <1>3, <2>2
      <3> QED
        BY <3>1
    <2>3. CASE i > a /\ i <= a + l
      <3>1. i - a \in 1 .. l /\ a + (i - a) = i /\ i \in 1 .. a + l
        BY <1>1, <1>3, <2>3
      <3>2. r[i] = x[i - a]
        BY <1>2, <1>5, <3>1
      <3> QED
        BY <1>1, <3>1, <3>2
    <2> QED
      BY <1>1, <1>3, <2>1, <2>2, <2>3
  <1>11. Kept(r)
    <2> SUFFICES ASSUME NEW i \in 1 .. a + l + e, NEW j \in 1 .. a + l + e, i < j,
                        r[i].from = r[j].from
                 PROVE  r[i].line = r[j].line \/ \E m \in i .. j - 1 : EndsLine(r[m])
      BY <1>5 DEF Kept
    <2>1. CASE j <= a + l
      <3>1. i \in 1 .. a + l /\ j \in 1 .. a + l
        BY <1>1, <1>3, <2>1
      <3>2. s[i].line = s[j].line \/ \E m \in i .. j - 1 : EndsLine(s[m])
        BY <1>1, <1>5, <1>7, <3>1 DEF Kept
      <3>3. ASSUME NEW m \in i .. j - 1 PROVE m \in 1 .. a + l
        BY <1>1, <3>1
      <3> QED
        BY <1>5, <3>1, <3>2, <3>3
    <2>2. CASE j > a + l
      <3> DEFINE k == j - (a + l)
      <3>1. k \in 1 .. e /\ a + l + k = j
        <4>1. j \in Int /\ a + l \in Nat /\ j <= (a + l) + e
          BY <1>1, <1>3
        <4> HIDE DEF At
        <4> QED
          BY <1>3, <2>2, <4>1
      <3> HIDE DEF k
      <3>2. r[j].from = d
        <4>1. r[j] = w[k]
          BY <1>6, <3>1
        <4> QED
          BY <1>3, <3>1, <4>1
      <3>3. PICK p \in 1 .. a + e : i = At(p)
        BY <1>10, <3>2
      <3>4. PICK q \in 1 .. a + e : j = At(q)
        BY <1>10, <3>2
      <3>5. p < q
        <4>1. At(p) < At(q) /\ p \in Int /\ q \in Int
          BY <1>3, <3>3, <3>4
        <4>2. At(p) \in Int /\ At(q) \in Int
          BY <1>1, <4>1
        <4>3. q < p => At(q) < At(p)
          BY <1>9
        <4> HIDE DEF At
        <4> QED
          BY <4>1, <4>2, <4>3
      <3>6. r[i] = v[p] /\ r[j] = v[q]
        BY <1>8, <3>3, <3>4
      <3>7. v[p].line = v[q].line \/ \E m \in p .. q - 1 : EndsLine(v[m])
        BY <1>3, <1>7, <3>5, <3>6 DEF Kept
      <3>8. ASSUME NEW m \in p .. q - 1 PROVE At(m) \in i .. j - 1 /\ r[At(m)] = v[m]
        <4>1. m \in 1 .. a + e /\ p <= m /\ m < q
          BY <1>1, <1>3
        <4>2. r[At(m)] = v[m] /\ At(m) \in Int /\ At(m) < At(q) /\ (p = m \/ At(p) < At(m))
          BY <1>8, <1>9, <4>1
        <4> HIDE DEF At
        <4> QED
          BY <3>3, <3>4, <4>2
      <3> QED
        BY <3>6, <3>7, <3>8
    <2> QED
      BY <1>1, <2>1, <2>2
  <1>12. MayFollow(r, d, n)
    <2> SUFFICES ASSUME NEW i \in 1 .. a + l + e, r[i].from = d
                 PROVE  r[i].line = n \/ \E m \in i .. a + l + e : EndsLine(r[m])
      BY <1>5 DEF MayFollow
    <2>1. PICK p \in 1 .. a + e : i = At(p)
      BY <1>10
    <2>2. r[i] = v[p]
      BY <1>8, <2>1
    <2>3. v[p].line = n \/ \E m \in p .. a + e : EndsLine(v[m])
      BY <1>3, <1>7, <2>2 DEF MayFollow
    <2>4. ASSUME NEW m \in p .. a + e PROVE At(m) \in i .. a + l + e /\ r[At(m)] = v[m]
      <3>1. m \in 1 .. a + e /\ p <= m
        BY <1>1, <1>3
      <3>2. r[At(m)] = v[m] /\ At(m) \in 1 .. a + l + e /\ (p = m \/ At(p) < At(m))
        BY <1>8, <1>9, <3>1
      <3> HIDE DEF At
      <3> QED
        BY <1>1, <1>3, <2>1, <3>2
    <2> QED
      BY <2>2, <2>3, <2>4
  <1> QED
    BY <1>11, <1>12 DEF r, s

\* The credit of one client more, and of more clients.
LEMMA CreditOfOneMore ==
  ASSUME ClientTypes, NEW S, NEW c \in Clients, c \notin S, IsFiniteSet(Early(S))
  PROVE  /\ IsFiniteSet(Early(S \cup {c})) /\ Credit(S) \in Nat
         /\ Credit(S \cup {c}) = Credit(S) + burst[c] - 1
  <1> DEFINE k == burst[c] - 1  numbers == 1 .. k  own == {c} \X numbers
  <1>1. k \in Nat /\ burst[c] \in Nat
    <2>1. burst[c] \in Nat \ {0}
      BY PortAssumption DEF ClientTypes
    <2> QED
      BY <2>1
  <1>2. Early(S \cup {c}) = Early(S) \cup own /\ Early(S) \cap own = {}
    BY DEF Early
  <1> HIDE DEF k
  <1>3. IsFiniteSet(numbers) /\ Cardinality(numbers) = k
    <2>1. IsFiniteSet(numbers) /\ Cardinality(numbers) = IF 1 > k THEN 0 ELSE k - 1 + 1
      BY <1>1, FS_Interval
    <2> HIDE DEF numbers
    <2> QED
      BY <1>1, <2>1
  <1> HIDE DEF numbers
  <1>4. IsFiniteSet({c}) /\ Cardinality({c}) = 1
    BY FS_Singleton
  <1>5. IsFiniteSet(own) /\ Cardinality(own) = Cardinality({c}) * Cardinality(numbers)
    BY <1>3, <1>4, FS_Product
  <1> HIDE DEF own
  <1>6. Cardinality(own) = k
    BY <1>1, <1>3, <1>4, <1>5
  <1>7. /\ IsFiniteSet(Early(S) \cup own)
        /\ Cardinality(Early(S) \cup own)
             = Cardinality(Early(S)) + Cardinality(own) - Cardinality(Early(S) \cap own)
        /\ Cardinality(Early(S)) \in Nat
    BY <1>5, FS_Union, FS_CardinalityType
  <1>8. Cardinality(Early(S) \cap own) = 0
    BY <1>2, FS_EmptySet
  <1>9. Credit(S) \in Nat /\ Credit(S \cup {c}) = Credit(S) + k
    BY <1>1, <1>2, <1>6, <1>7, <1>8 DEF Credit
  <1> QED
    BY <1>1, <1>2, <1>7, <1>9 DEF k

LEMMA CreditOfMore ==
  ASSUME NEW S, NEW U, S \subseteq U, IsFiniteSet(Early(U))
  PROVE  IsFiniteSet(Early(S)) /\ Credit(S) \in Nat /\ Credit(U) \in Nat /\ Credit(S) <= Credit(U)
  <1>1. Early(S) \subseteq Early(U)
    BY DEF Early
  <1> QED
    BY <1>1, FS_Subset, FS_CardinalityType DEF Credit

\* The client that is served next: the one that is connected, or the first of
\* those that wait.
Turn(c) ==
  \/ fd # NoClient /\ c = fd /\ backlog' = backlog
  \/ fd = NoClient /\ backlog # <<>> /\ c = Head(backlog) /\ backlog' = Tail(backlog)

LEMMA TurnAccepts ==
  ASSUME ClientTypes, OrderInv, NEW c, Turn(c), came' = came
  PROVE  /\ c \in Clients /\ c \in Accepted' /\ Accepted \subseteq Accepted'
         /\ Accepted' \subseteq came /\ Waiting' \subseteq came
         /\ Accepted' \ {c} = Accepted \ {c} /\ (c = fd \/ c \notin Accepted)
         /\ \A a \in Accepted', w \in Waiting' : a < w
         /\ \A i, j \in DOMAIN backlog' : i < j => backlog'[i] < backlog'[j]
         /\ \A i \in DOMAIN got : got[i].from \in Accepted' /\ got[i].from <= c
  <1>1. CASE fd # NoClient /\ c = fd /\ backlog' = backlog
    <2>1. Waiting' = Waiting /\ Accepted' = Accepted
      BY <1>1 DEF Waiting, Accepted
    <2>2. c \in Clients /\ c \in Accepted /\ Accepted \subseteq came
      BY <1>1 DEF ClientTypes, OrderInv, Accepted
    <2> QED
      BY <1>1, <2>1, <2>2 DEF OrderInv
  <1>2. CASE fd = NoClient /\ backlog # <<>> /\ c = Head(backlog) /\ backlog' = Tail(backlog)
    <2> DEFINE n == Len(backlog)
    <2>1. /\ backlog \in Seq(Clients) /\ n \in Nat \ {0} /\ DOMAIN backlog = 1 .. n
          /\ c = backlog[1] /\ c \in Clients
          /\ DOMAIN backlog' = 1 .. n - 1 /\ \A i \in 1 .. n - 1 : backlog'[i] = backlog[i + 1]
      <3>1. backlog \in Seq(Clients) /\ backlog # <<>>
        BY <1>2 DEF ClientTypes
      <3>2. /\ Head(backlog) \in Clients /\ Tail(backlog) \in Seq(Clients)
            /\ Len(Tail(backlog)) = Len(backlog) - 1
            /\ \A i \in 1 .. Len(Tail(backlog)) : Tail(backlog)[i] = backlog[i + 1]
        BY <3>1, HeadTailProperties
      <3>3. n \in Nat \ {0} /\ DOMAIN backlog = 1 .. n
        BY <3>1, LenProperties, EmptySeq
      <3>4. DOMAIN backlog' = 1 .. n - 1
        BY <1>2, <3>2, LenProperties
      <3> QED
        BY <1>2, <3>1, <3>2, <3>3, <3>4
    <2> HIDE DEF n
    <2>2. \A i \in 1 .. n : backlog[i] \in Int
      <3>1. \A i \in 1 .. n : backlog[i] \in Clients
        BY <2>1, ElementOfSeq DEF n
      <3>2. Clients \subseteq Int
        BY PortAssumption
      <3> QED
        BY <3>1, <3>2
    <2>3. \A i \in 2 .. n : c < backlog[i] /\ i - 1 \in 1 .. n - 1 /\ backlog'[i - 1] = backlog[i]
      <3> SUFFICES ASSUME NEW i \in 2 .. n
                   PROVE  c < backlog[i] /\ i - 1 \in 1 .. n - 1 /\ backlog'[i - 1] = backlog[i]
        OBVIOUS
      <3>1. i \in 1 .. n /\ 1 \in 1 .. n /\ 1 < i /\ i - 1 \in 1 .. n - 1 /\ (i - 1) + 1 = i
        BY <2>1
      <3>2. backlog[1] < backlog[i]
        BY <2>1, <3>1 DEF OrderInv
      <3> QED
        BY <2>1, <3>1, <3>2
    <2>4. Waiting = {c} \cup Waiting' /\ c \notin Waiting'
      <3>1. \A i \in 1 .. n : i = 1 \/ i \in 2 .. n
        BY <2>1
      <3>2. \A i \in 1 .. n - 1 : i + 1 \in 2 .. n /\ backlog'[i] = backlog[i + 1]
        BY <2>1
      <3>3. Waiting = {backlog[i] : i \in 1 .. n} /\ Waiting' = {backlog'[i] : i \in 1 .. n - 1}
        BY <2>1 DEF Waiting
      <3>4. 1 \in 1 .. n
        BY <2>1
      <3>5. c \notin Waiting'
        <4> SUFFICES ASSUME NEW i \in 1 .. n - 1 PROVE backlog'[i] # c
          BY <3>3
        <4>1. i + 1 \in 2 .. n /\ backlog'[i] = backlog[i + 1] /\ i + 1 \in 1 .. n
          BY <2>1, <3>2
        <4>2. c < backlog[i + 1] /\ backlog[i + 1] \in Int /\ c \in Int
          BY <2>1, <2>2, <2>3, <3>4, <4>1
        <4> QED
          BY <4>1, <4>2
      <3>6. Waiting' \subseteq Waiting
        <4>1. \A i \in 1 .. n - 1 : i + 1 \in 1 .. n
          BY <2>1
        <4> QED
          BY <2>1, <3>3, <4>1
      <3>7. c \in Waiting
        BY <2>1, <3>3, <3>4
      <3>8. Waiting \subseteq {c} \cup Waiting'
        BY <2>1, <2>3, <3>1, <3>3
      <3> QED
        BY <3>5, <3>6, <3>7, <3>8
    <2>5. \A w \in Waiting' : c < w
      <3>1. Waiting' = {backlog'[i] : i \in 1 .. n - 1}
        BY <2>1 DEF Waiting
      <3>2. \A i \in 1 .. n - 1 : i + 1 \in 2 .. n
        BY <2>1
      <3> QED
        BY <2>1, <2>3, <3>1, <3>2
    <2>6. Accepted' = Accepted \cup {c} /\ c \notin Accepted /\ c \in came
      BY <2>4 DEF Accepted, OrderInv
    <2>7. \A i, j \in DOMAIN backlog' : i < j => backlog'[i] < backlog'[j]
      <3> SUFFICES ASSUME NEW i \in 1 .. n - 1, NEW j \in 1 .. n - 1, i < j
                   PROVE  backlog'[i] < backlog'[j]
        BY <2>1
      <3>1. i + 1 \in 1 .. n /\ j + 1 \in 1 .. n /\ i + 1 < j + 1
        BY <2>1
      <3>2. backlog[i + 1] < backlog[j + 1]
        BY <2>1, <3>1 DEF OrderInv
      <3> QED
        BY <2>1, <3>2
    <2>8. \A i \in DOMAIN got : got[i].from \in Accepted /\ got[i].from < c /\ got[i].from \in Int
      <3>1. \A i \in DOMAIN got : got[i].from \in Accepted /\ got[i].from < c
        BY <2>4 DEF OrderInv
      <3>2. Accepted \subseteq came /\ came \subseteq Clients
        BY DEF Accepted, ClientTypes
      <3>3. Clients \subseteq Int
        BY PortAssumption
      <3> QED
        BY <3>1, <3>2, <3>3
    <2>9. c \in Int
      BY <2>1, PortAssumption
    <2>10. Waiting' \subseteq came /\ Accepted' \subseteq came
      BY <2>4, <2>6 DEF OrderInv, Accepted
    <2>11. \A a \in Accepted', w \in Waiting' : a < w
      BY <2>4, <2>5, <2>6 DEF OrderInv
    <2>12. \A i \in DOMAIN got : got[i].from \in Accepted' /\ got[i].from <= c
      BY <2>6, <2>8, <2>9
    <2> QED
      BY <2>1, <2>6, <2>7, <2>10, <2>11, <2>12
  <1> QED
    BY <1>1, <1>2 DEF Turn

LEMMA ReadTurn ==
  ASSUME ClientTypes, ReadLine
  PROVE  /\ UNCHANGED <<came, left, todo, burst, asked, answers, strays>> /\ towrite = 0
         /\ \E c \in Clients : Turn(c) /\ ReadFrom(c) /\ fd' \in {c, NoClient}
  <1>1. \E c : Turn(c) /\ ReadFrom(c)
    BY DEF ReadLine, Turn
  <1>2. PICK c : Turn(c) /\ ReadFrom(c)
    BY <1>1
  <1>3. c \in Clients
    BY <1>2, HeadTailProperties DEF Turn, ClientTypes
  <1>4. fd' \in {c, NoClient}
    BY <1>2 DEF ReadFrom, CloseConnection, Written
  <1> QED
    BY <1>2, <1>3, <1>4 DEF ReadLine

LEMMA AnswerTurn ==
  ASSUME ClientTypes, Answer
  PROVE  /\ UNCHANGED <<readbuf, got, taken, clientVars>> /\ towrite > 0 /\ towrite' = towrite - 1
         /\ \/ \E c \in Clients : /\ Turn(c) /\ fd' \in {c, NoClient} /\ Answered(c)
                                  /\ strays' = IF c = fd THEN strays ELSE strays + 1
            \/ fd = NoClient /\ UNCHANGED <<fd, backlog, answers, strays>>
  <1>0. NoClient \notin Clients
    BY PortAssumption DEF NoClient
  <1>1. CASE fd # NoClient /\ Written(fd) /\ Answered(fd) /\ UNCHANGED <<backlog, strays>>
    <2>1. fd \in Clients /\ Turn(fd) /\ fd' \in {fd, NoClient}
      BY <1>1 DEF ClientTypes, Turn, Written
    <2> QED
      BY <1>1, <2>1 DEF Answer
  <1>2. CASE /\ fd = NoClient /\ backlog # <<>>
             /\ Written(Head(backlog)) /\ backlog' = Tail(backlog)
             /\ Answered(Head(backlog)) /\ strays' = strays + 1
    <2> DEFINE c == Head(backlog)
    <2>1. c \in Clients /\ Turn(c) /\ fd' \in {c, NoClient} /\ c # fd
      BY <1>0, <1>2, HeadTailProperties DEF ClientTypes, Turn, Written
    <2> HIDE DEF c
    <2>2. Answered(c) /\ strays' = IF c = fd THEN strays ELSE strays + 1
      BY <1>2, <2>1 DEF c
    <2> QED
      BY <2>1, <2>2 DEF Answer
  <1>3. CASE fd = NoClient /\ backlog = <<>> /\ UNCHANGED <<fd, killed, backlog, answers, strays>>
    BY <1>3 DEF Answer
  <1> QED
    BY <1>1, <1>2, <1>3 DEF Answer

\* Clients come in their order and are served in it.
LEMMA ConnectWaits ==
  ASSUME ClientTypes, OrderInv, NEW c \in Clients, Connect(c)
  PROVE  /\ Waiting' = Waiting \cup {c} /\ Accepted' = Accepted /\ c \notin Accepted
         /\ \A a \in came : a < c
         /\ \A i, j \in DOMAIN backlog' : i < j => backlog'[i] < backlog'[j]
  <1> DEFINE n == Len(backlog)
  <1>1. c \notin came /\ came' = came \cup {c} /\ backlog' = Append(backlog, c)
    BY DEF Connect
  <1>2. /\ n \in Nat /\ DOMAIN backlog = 1 .. n /\ DOMAIN backlog' = 1 .. n + 1
        /\ (\A i \in 1 .. n : backlog'[i] = backlog[i]) /\ backlog'[n + 1] = c
    BY <1>1, AppendProperties, LenProperties DEF ClientTypes
  <1> HIDE DEF n
  <1>3. \A i \in 1 .. n + 1 : i \in 1 .. n \/ i = n + 1
    BY <1>2
  <1>4. Waiting' = Waiting \cup {c}
    <2>1. Waiting = {backlog[i] : i \in 1 .. n} /\ Waiting' = {backlog'[i] : i \in 1 .. n + 1}
      BY <1>2 DEF Waiting
    <2>2. n + 1 \in 1 .. n + 1 /\ \A i \in 1 .. n : i \in 1 .. n + 1
      BY <1>2
    <2> QED
      BY <1>2, <1>3, <2>1, <2>2
  <1>5. Waiting \subseteq came /\ Accepted' = Accepted /\ c \notin Accepted
    BY <1>1, <1>4 DEF OrderInv, Accepted
  <1>6. \A a \in came : a < c
    <2> TAKE a \in came
    <2>1. ~(c < a)
      BY <1>1 DEF OrderInv
    <2>2. a # c /\ a \in Clients
      BY <1>1 DEF ClientTypes
    <2>3. Clients \subseteq Int
      BY PortAssumption
    <2>4. a \in Int /\ c \in Int
      BY <2>2, <2>3
    <2> QED
      BY <2>1, <2>2, <2>4
  <1>7. \A i, j \in DOMAIN backlog' : i < j => backlog'[i] < backlog'[j]
    <2> SUFFICES ASSUME NEW i \in 1 .. n + 1, NEW j \in 1 .. n + 1, i < j
                 PROVE  backlog'[i] < backlog'[j]
      BY <1>2
    <2>1. i \in 1 .. n
      BY <1>2
    <2>2. CASE j = n + 1
      <3>1. backlog[i] \in Waiting
        BY <1>2, <2>1 DEF Waiting
      <3> QED
        BY <1>2, <1>5, <1>6, <2>1, <2>2, <3>1
    <2>3. CASE j \in 1 .. n
      <3>1. backlog[i] < backlog[j]
        BY <1>2, <2>1, <2>3 DEF OrderInv
      <3> QED
        BY <1>2, <2>1, <2>3, <3>1
    <2> QED
      BY <1>3, <2>2, <2>3
  <1> QED
    BY <1>4, <1>5, <1>6, <1>7

\* What the conjuncts of OrderInv come to after a step.
LEMMA OrderAfter ==
  ASSUME \A b \in came', d \in Clients : d < b => d \in came',
         Waiting' \subseteq came', \A a \in Accepted', w \in Waiting' : a < w,
         \A i, j \in DOMAIN backlog' : i < j => backlog'[i] < backlog'[j],
         fd' # NoClient => fd' \in Accepted',
         \A i \in DOMAIN got' : got'[i].from \in Accepted' /\ (fd' # NoClient => got'[i].from <= fd'),
         \A i, j \in DOMAIN got' : i < j => got'[i].from <= got'[j].from
  PROVE  OrderInv'
  BY DEF OrderInv, NoClient

LEMMA OrderKeepsRead ==
  ASSUME ClientTypes, BufferInv, OrderInv, StreamInv, ReadLine
  PROVE  OrderInv'
  <1>1. UNCHANGED <<came, asked>>
    BY ReadTurn
  <1>2. PICK c \in Clients : Turn(c) /\ ReadFrom(c) /\ fd' \in {c, NoClient}
    BY ReadTurn
  <1>3. /\ c \in Accepted' /\ Waiting' \subseteq came
        /\ \A a \in Accepted', w \in Waiting' : a < w
        /\ \A i, j \in DOMAIN backlog' : i < j => backlog'[i] < backlog'[j]
        /\ \A i \in DOMAIN got : got[i].from \in Accepted' /\ got[i].from <= c
    BY <1>1, <1>2, TurnAccepts
  <1>4. /\ \A i \in DOMAIN got' : got'[i].from \in Accepted' /\ got'[i].from <= c
        /\ \A i, j \in DOMAIN got' : i < j => got'[i].from <= got'[j].from
    <2>1. CASE got' = got
      BY <1>3, <2>1 DEF OrderInv
    <2>2. ASSUME NEW some \in Seq(Bytes), NEW more \in Seq(Bytes), wire[c] = some \o more,
                 got' = got \o some
          PROVE  /\ \A i \in DOMAIN got' : got'[i].from \in Accepted' /\ got'[i].from <= c
                 /\ \A i, j \in DOMAIN got' : i < j => got'[i].from <= got'[j].from
      <3> DEFINE n == Len(got)  k == Len(some)
      <3>1. /\ n \in Nat /\ k \in Nat /\ DOMAIN got = 1 .. n /\ DOMAIN some = 1 .. k
            /\ DOMAIN got' = 1 .. n + k /\ \A i \in 1 .. n : got'[i] = got[i]
        BY <2>2, OneBehindOther DEF BufferInv, BufferTypes
      <3>2. \A i \in 1 .. k : got'[n + i] = some[i]
        BY <2>2, OneBehindOther DEF BufferInv, BufferTypes
      <3>3. \A i \in 1 .. k : some[i].from = c
        <4>1. \A i \in DOMAIN wire[c] : wire[c][i].from = c
          BY DEF StreamInv, Flows
        <4> DEFINE w == some \o more
        <4>2. w = wire[c]
          BY <2>2
        <4>3. DOMAIN w = 1 .. k + Len(more) /\ Len(more) \in Nat /\ \A i \in 1 .. k : w[i] = some[i]
          BY OneBehindOther
        <4> HIDE DEF w, k
        <4>4. \A i \in 1 .. k : i \in 1 .. k + Len(more)
          BY <3>1, <4>3
        <4> QED
          BY <4>1, <4>2, <4>3, <4>4
      <3> HIDE DEF n, k
      <3>4. \A i \in 1 .. n + k : i \in 1 .. n \/ (i > n /\ got'[i].from = c)
        <4> SUFFICES ASSUME NEW i \in 1 .. n + k, ~(i \in 1 .. n)
                     PROVE  i > n /\ got'[i].from = c
          OBVIOUS
        <4>1. i > n /\ i - n \in 1 .. k /\ n + (i - n) = i
          BY <3>1
        <4>2. got'[n + (i - n)] = some[i - n]
          BY <3>2, <4>1
        <4> QED
          BY <3>3, <4>1, <4>2
      <3>5. c \in Int
        BY PortAssumption
      <3>6. \A i \in 1 .. n + k : got'[i].from \in Accepted' /\ got'[i].from <= c
        <4> SUFFICES ASSUME NEW i \in 1 .. n + k
                     PROVE  got'[i].from \in Accepted' /\ got'[i].from <= c
          OBVIOUS
        <4>1. CASE i \in 1 .. n
          <5>1. got'[i] = got[i] /\ i \in DOMAIN got
            BY <3>1, <4>1
          <5> QED
            BY <1>3, <5>1
        <4>2. CASE got'[i].from = c
          BY <1>3, <3>5, <4>2
        <4> QED
          BY <3>4, <4>1, <4>2
      <3>7. ASSUME NEW i \in 1 .. n + k, NEW j \in 1 .. n + k, i < j
            PROVE  got'[i].from <= got'[j].from
        <4>1. CASE j \in 1 .. n
          <5>1. i \in 1 .. n
            BY <3>1, <3>7, <4>1
          <5> QED
            BY <3>1, <3>7, <4>1, <5>1 DEF OrderInv
        <4>2. CASE got'[j].from = c
          BY <3>6, <4>2
        <4> QED
          BY <3>4, <4>1, <4>2
      <3> QED
        BY <3>1, <3>6, <3>7
    <2> QED
      BY <1>2, <2>1, <2>2, ReadBrings DEF BufferInv
  <1>5. fd' # NoClient => fd' = c
    BY <1>2
  <1>6. \A b \in came', d \in Clients : d < b => d \in came'
    BY <1>1 DEF OrderInv
  <1> QED
    BY <1>1, <1>3, <1>4, <1>5, <1>6, OrderAfter

LEMMA OrderKeeps ==
  ASSUME ClientTypes, BufferInv, OrderInv, StreamInv, PortNext
  PROVE  OrderInv'
  <1>1. CASE ReadLine
    BY <1>1, OrderKeepsRead
  <1>2. CASE Answer
    <2>1. got' = got /\ came' = came
      BY <1>2, AnswerTurn DEF clientVars
    <2>2. CASE fd = NoClient /\ UNCHANGED <<fd, backlog>>
      BY <2>1, <2>2 DEF OrderInv, Waiting, Accepted
    <2>3. ASSUME NEW c \in Clients, Turn(c), fd' \in {c, NoClient} PROVE OrderInv'
      <3>1. /\ c \in Accepted' /\ Waiting' \subseteq came
            /\ \A a \in Accepted', w \in Waiting' : a < w
            /\ \A i, j \in DOMAIN backlog' : i < j => backlog'[i] < backlog'[j]
            /\ \A i \in DOMAIN got : got[i].from \in Accepted' /\ got[i].from <= c
        BY <2>1, <2>3, TurnAccepts
      <3>2. fd' # NoClient => fd' = c
        BY <2>3
      <3>3. /\ \A b \in came', d \in Clients : d < b => d \in came'
            /\ \A i, j \in DOMAIN got' : i < j => got'[i].from <= got'[j].from
        BY <2>1 DEF OrderInv
      <3> QED
        BY <2>1, <3>1, <3>2, <3>3, OrderAfter
    <2> QED
      BY <1>2, <2>2, <2>3, AnswerTurn
  <1>3. ASSUME NEW c \in Clients, Connect(c) PROVE OrderInv'
    <2>1. UNCHANGED <<got, fd>> /\ came' = came \cup {c} /\ \A b \in Clients : b < c => b \in came
      BY <1>3 DEF Connect, portState, histVars
    <2>2. /\ Waiting' = Waiting \cup {c} /\ Accepted' = Accepted
          /\ \A a \in came : a < c
          /\ \A i, j \in DOMAIN backlog' : i < j => backlog'[i] < backlog'[j]
      BY <1>3, ConnectWaits
    <2>3. Waiting' \subseteq came' /\ \A a \in Accepted', w \in Waiting' : a < w
      <3>1. Waiting \subseteq came /\ Accepted \subseteq came
        BY DEF OrderInv, Accepted
      <3>2. \A a \in Accepted, w \in Waiting : a < w
        BY DEF OrderInv
      <3> QED
        BY <2>1, <2>2, <3>1, <3>2
    <2>4. \A b \in came', d \in Clients : d < b => d \in came'
      BY <2>1 DEF OrderInv
    <2>5. /\ fd' # NoClient => fd' \in Accepted'
          /\ \A i \in DOMAIN got' : got'[i].from \in Accepted' /\ (fd' # NoClient => got'[i].from <= fd')
          /\ \A i, j \in DOMAIN got' : i < j => got'[i].from <= got'[j].from
      BY <2>1, <2>2 DEF OrderInv
    <2> QED
      BY <2>2, <2>3, <2>4, <2>5, OrderAfter
  <1>4. ASSUME NEW c \in Clients, Send(c) \/ Leave(c) PROVE OrderInv'
    <2>1. UNCHANGED <<came, backlog, fd, got>>
      BY <1>4 DEF Send, Leave, portState, histVars
    <2> QED
      BY <2>1 DEF OrderInv, Waiting, Accepted
  <1> QED
    BY <1>1, <1>2, <1>3, <1>4 DEF PortNext, Port

\* What was sent and what was read of it remain the same stream.
LEMMA StreamAfter ==
  ASSUME \A c \in Clients : Flows(got', wire'[c], c, asked'[c])
  PROVE  StreamInv'
  BY DEF StreamInv, Flows, Kept, MayFollow, EndsLine

LEMMA StreamKeeps ==
  ASSUME ClientTypes, BufferInv, StreamInv, PortNext
  PROVE  StreamInv'
  <1>0. got \in Seq(Bytes) /\ \A d \in Clients : wire[d] \in Seq(Bytes)
    BY DEF BufferInv, BufferTypes, ClientTypes
  <1>1. CASE UNCHANGED <<got, wire, asked>>
    <2>1. \A c \in Clients : Flows(got', wire'[c], c, asked'[c])
      BY <1>1 DEF StreamInv
    <2> QED
      BY <2>1, StreamAfter
  <1>2. CASE ReadLine
    <2>1. UNCHANGED asked
      BY <1>2, ReadTurn
    <2>2. PICK c \in Clients : ReadFrom(c)
      BY <1>2, ReadTurn
    <2>3. ASSUME NEW some \in Seq(Bytes), NEW more \in Seq(Bytes), wire[c] = some \o more,
                 wire' = [wire EXCEPT ![c] = more], got' = got \o some
          PROVE  StreamInv'
      <3>1. Flows(got, some \o more, c, asked[c])
        BY <2>3 DEF StreamInv
      <3> DEFINE w == some \o more
      <3>2. /\ DOMAIN w = 1 .. Len(some) + Len(more) /\ DOMAIN some = 1 .. Len(some)
            /\ DOMAIN more = 1 .. Len(more) /\ Len(some) \in Nat /\ Len(more) \in Nat
            /\ \A i \in 1 .. Len(some) : w[i] = some[i]
        BY OneBehindOther
      <3>3. \A i \in 1 .. Len(more) : w[Len(some) + i] = more[i]
        BY OneBehindOther
      <3>4. \A i \in DOMAIN w : w[i].from = c
        BY <3>1 DEF Flows
      <3> DEFINE k == Len(some)  l == Len(more)
      <3> HIDE DEF w, k, l
      <3>5. \A i \in 1 .. k : i \in 1 .. k + l /\ \A j \in 1 .. l : k + j \in 1 .. k + l
        BY <3>2 DEF k, l
      <3>6. /\ \A i \in DOMAIN some : some[i].from = c
            /\ \A i \in DOMAIN more : more[i].from = c
        <4>1. ASSUME NEW i \in 1 .. k PROVE some[i].from = c
          BY <3>2, <3>4, <3>5 DEF k, l
        <4>2. ASSUME NEW i \in 1 .. l PROVE more[i].from = c
          <5>1. k + i \in 1 .. k + l
            BY <3>2 DEF k, l
          <5> QED
            BY <3>2, <3>3, <3>4, <5>1 DEF k, l
        <4> QED
          BY <3>2, <4>1, <4>2 DEF k, l
      <3>7. got \o (some \o more) = (got \o some) \o more
        BY <1>0, ConcatAssociative
      <3>8. Kept((got \o some) \o more) /\ MayFollow((got \o some) \o more, c, asked[c])
        BY <3>1, <3>7 DEF Flows
      <3>9. Kept(got \o some)
        <4>1. got \o some \in Seq(Bytes)
          BY <1>0, ConcatProperties
        <4> QED
          BY <3>8, <4>1, KeptInFront
      <3>10. ASSUME NEW d \in Clients PROVE Flows(got', wire'[d], d, asked'[d])
        <4>1. CASE d = c
          <5>1. wire'[d] = more /\ asked'[d] = asked[c]
            BY <2>1, <2>3, <4>1 DEF ClientTypes
          <5> QED
            BY <2>3, <3>6, <3>8, <4>1, <5>1 DEF Flows
        <4>2. CASE d # c
          <5>1. wire'[d] = wire[d] /\ asked'[d] = asked[d]
            BY <2>1, <2>3, <4>2 DEF ClientTypes
          <5>2. Flows(got, wire[d], d, asked[d])
            BY DEF StreamInv
          <5> DEFINE v == wire[d]
          <5>3. v \in Seq(Bytes) /\ \A i \in DOMAIN v : v[i].from = d
            BY <1>0, <5>2 DEF Flows
          <5>4. Kept(got \o v) /\ MayFollow(got \o v, d, asked[d])
            BY <5>2 DEF Flows
          <5>5. \A i \in DOMAIN some : some[i].from # d
            BY <3>6, <4>2
          <5> HIDE DEF v
          <5>6. Kept((got \o some) \o v) /\ MayFollow((got \o some) \o v, d, asked[d])
            BY <1>0, <3>9, <5>3, <5>4, <5>5, KeptAround
          <5> QED
            BY <2>3, <5>1, <5>3, <5>6 DEF Flows, v
        <4> QED
          BY <4>1, <4>2
      <3> QED
        BY <3>10, StreamAfter
    <2>4. CASE UNCHANGED <<got, wire>>
      BY <1>1, <2>1, <2>4
    <2> QED
      BY <2>2, <2>3, <2>4, ReadBrings DEF BufferInv
  <1>3. ASSUME NEW c \in Clients, Send(c) PROVE StreamInv'
    <2> DEFINE b == [from |-> c, line |-> asked[c], what |-> Head(todo[c])]
               next == IF EndsLine(b) THEN asked[c] + 1 ELSE asked[c]
    <2>1. /\ got' = got /\ wire' = [wire EXCEPT ![c] = Append(wire[c], b)]
          /\ asked' = [asked EXCEPT ![c] = next]
      BY <1>3 DEF Send, histVars, EndsLine
    <2>2. b \in Bytes /\ asked[c] \in Int /\ b.from = c /\ b.line = asked[c]
      <3>1. Head(todo[c]) \in {"char", "cr", "lf"}
        BY <1>3, HeadTailProperties DEF Send, ClientTypes
      <3> QED
        BY <3>1 DEF Bytes, ClientTypes
    <2> HIDE DEF b
    <2>3. Flows(got, wire[c], c, asked[c])
      BY DEF StreamInv
    <2> DEFINE s == got \o wire[c]
    <2>4. s \in Seq(Bytes) /\ Kept(s) /\ MayFollow(s, c, asked[c])
      BY <1>0, <2>3, ConcatProperties DEF Flows
    <2>5. got \o Append(wire[c], b) = Append(s, b)
      BY <1>0, <2>2, AppendedBehind
    <2> HIDE DEF s
    <2>6. Kept(Append(s, b)) /\ MayFollow(Append(s, b), c, next)
      BY <2>2, <2>4, KeptWithOneMore
    <2>7. \A i \in DOMAIN Append(wire[c], b) : Append(wire[c], b)[i].from = c
      <3> DEFINE w == wire[c]  u == Append(w, b)  n == Len(w)
      <3>1. /\ n \in Nat /\ DOMAIN w = 1 .. n /\ DOMAIN u = 1 .. n + 1
            /\ (\A i \in 1 .. n : u[i] = w[i]) /\ u[n + 1] = b
        BY <1>0, <2>2, AppendProperties, LenProperties
      <3>2. \A i \in DOMAIN w : w[i].from = c
        BY <2>3 DEF Flows
      <3> HIDE DEF w, u, n
      <3>3. \A i \in 1 .. n + 1 : i \in 1 .. n \/ i = n + 1
        BY <3>1
      <3>4. \A i \in DOMAIN u : u[i].from = c
        BY <2>2, <3>1, <3>2, <3>3
      <3> QED
        BY <3>4 DEF u, w
    <2>8. ASSUME NEW d \in Clients PROVE Flows(got', wire'[d], d, asked'[d])
      <3>1. CASE d = c
        <4>1. wire'[d] = Append(wire[c], b) /\ asked'[d] = next
          BY <2>1, <3>1 DEF ClientTypes
        <4> QED
          BY <2>1, <2>5, <2>6, <2>7, <3>1, <4>1 DEF Flows
      <3>2. CASE d # c
        <4>1. wire'[d] = wire[d] /\ asked'[d] = asked[d]
          BY <2>1, <3>2 DEF ClientTypes
        <4>2. Flows(got, wire[d], d, asked[d])
          BY DEF StreamInv
        <4> QED
          BY <2>1, <4>1, <4>2
      <3> QED
        BY <3>1, <3>2
    <2> QED
      BY <2>8, StreamAfter
  <1>4. CASE Answer
    BY <1>1, <1>4, AnswerTurn DEF clientVars
  <1>5. ASSUME NEW c \in Clients, Connect(c) \/ Leave(c) PROVE StreamInv'
    BY <1>1, <1>5 DEF Connect, Leave, histVars
  <1> QED
    BY <1>2, <1>3, <1>4, <1>5 DEF PortNext, Port

\* What the conjuncts of LagInv come to after a step.
LEMMA LagAfter ==
  ASSUME burst' = burst, IsFiniteSet(Early(came')),
         \A c \in Clients : asked'[c] - answers'[c] <= burst[c],
         \A c \in Clients \ Accepted' : answers'[c] = 0 /\ asked'[c] = LinesIn(wire'[c]),
         LinesIn(readbuf') <= Credit(Accepted') + strays',
         fd' # NoClient =>
           LinesIn(readbuf') + LinesIn(wire'[fd']) + (IF towrite' > 0 THEN 1 ELSE 0)
             <= Credit(Accepted' \ {fd'}) + strays' + asked'[fd'] - answers'[fd']
  PROVE  LagInv'
  BY DEF LagInv, Behind, Credit, Early, LinesIn, EndsLine, NoClient

\* The numbers that LagInv is about.
LEMMA LagNumbers ==
  ASSUME ClientTypes, BufferInv, OrderInv, LagInv
  PROVE  /\ Accepted \subseteq came /\ NoClient \notin Clients
         /\ \A S : S \subseteq came => IsFiniteSet(Early(S)) /\ Credit(S) \in Nat
         /\ LinesIn(readbuf) \in Nat /\ strays \in Nat
         /\ \A c \in Clients : /\ LinesIn(wire[c]) \in Nat /\ asked[c] \in Nat
                               /\ answers[c] \in Nat /\ burst[c] \in Nat \ {0}
  <1>1. \A S : S \subseteq came => IsFiniteSet(Early(S)) /\ Credit(S) \in Nat
    BY CreditOfMore DEF LagInv
  <1>2. LinesIn(readbuf) \in Nat
    BY LinesCounted DEF BufferInv, BufferTypes
  <1>3. \A c \in Clients : LinesIn(wire[c]) \in Nat
    BY LinesCounted DEF ClientTypes
  <1> QED
    BY <1>1, <1>2, <1>3, PortAssumption DEF ClientTypes, Accepted, NoClient

\* When a client is served: what lies in readbuf of those before it is what their
\* credit allowed.
LEMMA TurnBehind ==
  ASSUME ClientTypes, BufferInv, OrderInv, LagInv, NEW c \in Clients, Turn(c), came' = came
  PROVE  LET more == IF c = fd THEN 0 ELSE IF towrite > 0 THEN 1 ELSE 0 IN
         /\ LinesIn(readbuf) <= Credit(Accepted') + strays
         /\ LinesIn(readbuf) + LinesIn(wire[c]) + (IF towrite > 0 THEN 1 ELSE 0)
              <= Credit(Accepted' \ {c}) + strays + more + asked[c] - answers[c]
  <1>1. /\ c \in Accepted' /\ Accepted \subseteq Accepted' /\ Accepted' \subseteq came
        /\ Accepted' \ {c} = Accepted \ {c} /\ (c = fd \/ c \notin Accepted)
    BY TurnAccepts
  <1>2. /\ \A S : S \subseteq came => IsFiniteSet(Early(S)) /\ Credit(S) \in Nat
        /\ LinesIn(readbuf) \in Nat /\ strays \in Nat
        /\ LinesIn(wire[c]) \in Nat /\ asked[c] \in Nat /\ answers[c] \in Nat
        /\ NoClient \notin Clients
    BY LagNumbers
  <1>3. LinesIn(readbuf) <= Credit(Accepted) + strays
    BY DEF LagInv
  <1>4. /\ Credit(Accepted) \in Nat /\ Credit(Accepted') \in Nat
        /\ Credit(Accepted) <= Credit(Accepted')
    BY <1>1, <1>2, CreditOfMore
  <1>5. LinesIn(readbuf) <= Credit(Accepted') + strays
    BY <1>2, <1>3, <1>4
  <1>6. CASE c = fd
    <2>1. Behind(c)
      BY <1>2, <1>6 DEF LagInv
    <2>2. Credit(Accepted \ {c}) \in Nat
      <3>1. Accepted \ {c} \subseteq came
        BY <1>1
      <3> QED
        BY <1>2, <3>1
    <2> DEFINE now == IF towrite > 0 THEN 1 ELSE 0
               others == Credit(Accepted \ {c})
    <2>3. LinesIn(readbuf) + LinesIn(wire[c]) + now <= others + strays + asked[c] - answers[c]
      BY <2>1 DEF Behind
    <2>4. now \in {0, 1}
      OBVIOUS
    <2> HIDE DEF now, others
    <2>5. LinesIn(readbuf) + LinesIn(wire[c]) + now <= others + strays + 0 + asked[c] - answers[c]
      BY <1>2, <2>2, <2>3, <2>4 DEF others
    <2> QED
      BY <1>1, <1>5, <1>6, <2>5 DEF now, others
  <1>7. CASE c # fd
    <2>1. c \in Clients \ Accepted
      BY <1>1, <1>7
    <2>2. answers[c] = 0 /\ asked[c] = LinesIn(wire[c])
      BY <2>1 DEF LagInv
    <2>3. Accepted' \ {c} = Accepted
      BY <1>1, <1>7
    <2> DEFINE now == IF towrite > 0 THEN 1 ELSE 0
    <2>4. now \in {0, 1}
      OBVIOUS
    <2> HIDE DEF now
    <2>5. LinesIn(readbuf) + LinesIn(wire[c]) + now
            <= Credit(Accepted) + strays + now + asked[c] - answers[c]
      BY <1>2, <1>3, <1>4, <2>2, <2>4
    <2> QED
      BY <1>5, <1>7, <2>3, <2>5 DEF now
  <1> QED
    BY <1>6, <1>7

\* What a line taken from the buffer leaves.
LEMMA LinesTaken ==
  ASSUME NEW buf \in Seq(Bytes), TakeClean(buf), towrite = 0
  PROVE  \/ LinesIn(buf) = 0 /\ LinesIn(readbuf') = 0 /\ towrite' = 0
         \/ /\ LinesIn(readbuf') \in Nat /\ LinesIn(readbuf') + 1 <= LinesIn(buf)
            /\ towrite' > 0
  <1>1. CASE /\ \A i \in DOMAIN buf : ~EndsLine(buf[i])
             /\ readbuf' = buf /\ UNCHANGED <<towrite, taken>>
    <2>1. LinesIn(buf) = 0
      BY <1>1, LinesCounted
    <2> QED
      BY <1>1, <2>1
  <1>2. ASSUME NEW cr \in DOMAIN buf, NEW end \in DOMAIN buf, IsLineOf(buf, cr, end),
               readbuf' = Rest(buf, end), towrite' = Writes
        PROVE  LinesIn(readbuf') \in Nat /\ LinesIn(readbuf') + 1 <= LinesIn(buf) /\ towrite' > 0
    <2>1. Rest(buf, end) \in Seq(Bytes) /\ LinesIn(Rest(buf, end)) + 1 <= LinesIn(buf)
      BY <1>2, LinesOfRest
    <2>2. LinesIn(Rest(buf, end)) \in Nat
      BY <2>1, LinesCounted
    <2>3. Writes > 0
      BY PortAssumption
    <2> QED
      BY <1>2, <2>1, <2>2, <2>3
  <1> QED
    BY <1>1, <1>2 DEF TakeClean

LEMMA LagKeepsRead ==
  ASSUME ClientTypes, BufferInv, OrderInv, LagInv, ReadLine, LinesAreRead'
  PROVE  LagInv'
  <1>1. UNCHANGED <<came, burst, asked, answers, strays>> /\ towrite = 0
    BY ReadTurn
  <1>2. PICK c \in Clients : Turn(c) /\ ReadFrom(c) /\ fd' \in {c, NoClient}
    BY ReadTurn
  <1>3. /\ c \in Accepted' /\ Accepted \subseteq Accepted' /\ Accepted' \subseteq came
    BY <1>1, <1>2, TurnAccepts
  <1>4. /\ LinesIn(readbuf) <= Credit(Accepted') + strays
        /\ LinesIn(readbuf) + LinesIn(wire[c])
             <= Credit(Accepted' \ {c}) + strays + asked[c] - answers[c]
    <2> DEFINE more == IF c = fd THEN 0 ELSE IF towrite > 0 THEN 1 ELSE 0
    <2>1. /\ LinesIn(readbuf) <= Credit(Accepted') + strays
          /\ LinesIn(readbuf) + LinesIn(wire[c]) + (IF towrite > 0 THEN 1 ELSE 0)
               <= Credit(Accepted' \ {c}) + strays + more + asked[c] - answers[c]
      BY <1>1, <1>2, TurnBehind
    <2>2. more = 0 /\ (IF towrite > 0 THEN 1 ELSE 0) = 0
      BY <1>1
    <2>3. LinesIn(readbuf) \in Nat /\ LinesIn(wire[c]) \in Nat /\ strays \in Nat
      BY LagNumbers
    <2> HIDE DEF more
    <2>4. Credit(Accepted' \ {c}) \in Nat
      <3>1. Accepted' \ {c} \subseteq came
        BY <1>3
      <3> QED
        BY <3>1, LagNumbers
    <2> QED
      BY <2>1, <2>2, <2>3, <2>4
  <1>5. /\ IsFiniteSet(Early(came)) /\ IsFiniteSet(Early(Accepted' \ {c}))
        /\ Credit(Accepted' \ {c}) \in Nat
        /\ Credit(Accepted') = Credit(Accepted' \ {c}) + burst[c] - 1
    <2>1. Accepted' \ {c} \subseteq came /\ Accepted' = (Accepted' \ {c}) \cup {c}
      BY <1>3
    <2>2. IsFiniteSet(Early(came)) /\ IsFiniteSet(Early(Accepted' \ {c}))
      BY <2>1, LagNumbers DEF LagInv
    <2>3. c \notin Accepted' \ {c}
      OBVIOUS
    <2> QED
      BY <2>1, <2>2, <2>3, CreditOfOneMore
  <1>6. /\ LinesIn(readbuf) \in Nat /\ LinesIn(wire[c]) \in Nat /\ strays \in Nat
        /\ asked[c] \in Nat /\ answers[c] \in Nat /\ burst[c] \in Nat \ {0}
        /\ asked[c] - answers[c] <= burst[c]
    BY LagNumbers DEF LagInv
  <1>7. /\ \A d \in Clients : asked'[d] - answers'[d] <= burst[d]
        /\ \A d \in Clients \ Accepted' : answers'[d] = 0 /\ asked'[d] = LinesIn(wire[d])
    BY <1>1, <1>3 DEF LagInv
  <1>8. CASE UNCHANGED <<readbuf, wire, towrite>>
    <2>1. fd' # NoClient =>
            LinesIn(readbuf') + LinesIn(wire'[fd']) + (IF towrite' > 0 THEN 1 ELSE 0)
              <= Credit(Accepted' \ {fd'}) + strays' + asked'[fd'] - answers'[fd']
      <3> SUFFICES ASSUME fd' = c
                   PROVE  LinesIn(readbuf) + LinesIn(wire[c]) + (IF towrite > 0 THEN 1 ELSE 0)
                            <= Credit(Accepted' \ {c}) + strays + asked[c] - answers[c]
        BY <1>1, <1>2, <1>8
      <3> QED
        BY <1>1, <1>4, <1>6
    <2> QED
      BY <1>1, <1>4, <1>5, <1>7, <1>8, <2>1, LagAfter
  <1>9. ASSUME NEW some \in Seq(Bytes), NEW more \in Seq(Bytes), wire[c] = some \o more,
               wire' = [wire EXCEPT ![c] = more], TakeClean(readbuf \o some)
        PROVE  LagInv'
    <2> DEFINE buf == readbuf \o some
    <2>1. /\ buf \in Seq(Bytes) /\ LinesIn(buf) = LinesIn(readbuf) + LinesIn(some)
          /\ LinesIn(wire[c]) = LinesIn(some) + LinesIn(more)
          /\ LinesIn(some) \in Nat /\ LinesIn(more) \in Nat
      <3>1. readbuf \in Seq(Bytes)
        BY DEF BufferInv, BufferTypes
      <3> QED
        BY <1>9, <3>1, ConcatProperties, LinesOfBoth, LinesCounted
    <2>2. \/ LinesIn(buf) = 0 /\ LinesIn(readbuf') = 0 /\ towrite' = 0
          \/ /\ LinesIn(readbuf') \in Nat /\ LinesIn(readbuf') + 1 <= LinesIn(buf)
             /\ towrite' > 0
      BY <1>1, <1>9, <2>1, LinesTaken
    <2> HIDE DEF buf
    <2>3. wire'[c] = more /\ \A d \in Clients \ Accepted' : wire'[d] = wire[d]
      BY <1>3, <1>9 DEF ClientTypes
    <2> DEFINE now == IF towrite' > 0 THEN 1 ELSE 0
               others == Credit(Accepted' \ {c})
    <2>4. /\ now \in {0, 1} /\ LinesIn(readbuf') \in Nat
          /\ LinesIn(readbuf') + now <= LinesIn(readbuf) + LinesIn(some)
          /\ LinesIn(readbuf') = 0 \/ now = 1
      BY <1>6, <2>1, <2>2
    <2>5. /\ others \in Nat /\ Credit(Accepted') = others + burst[c] - 1
          /\ LinesIn(readbuf) + LinesIn(some) + LinesIn(more) <= others + strays + asked[c] - answers[c]
      BY <1>4, <1>5, <1>6, <2>1
    <2> HIDE DEF now, others
    <2>8. /\ LinesIn(readbuf') + LinesIn(more) + now <= others + strays + asked[c] - answers[c]
          /\ LinesIn(readbuf') <= others + burst[c] - 1 + strays
      <3> DEFINE a == LinesIn(readbuf)  s == LinesIn(some)  m == LinesIn(more)
                 next == LinesIn(readbuf')  all == asked[c]  done == answers[c]  many == burst[c]
      <3>1. /\ a \in Nat /\ s \in Nat /\ m \in Nat /\ next \in Nat /\ all \in Nat /\ done \in Nat
            /\ many \in Nat /\ strays \in Nat /\ others \in Nat /\ now \in {0, 1}
        BY <1>6, <2>1, <2>4, <2>5
      <3>2. next + now <= a + s /\ (next = 0 \/ now = 1) /\ all - done <= many /\ 1 <= many
        BY <1>6, <2>4
      <3>3. a + s + m <= others + strays + all - done
        BY <2>5
      <3> HIDE DEF a, s, m, next, all, done, many
      <3>4. next + m + now <= others + strays + all - done
        BY <3>1, <3>2, <3>3
      <3>5. next <= others + many - 1 + strays
        <4>1. CASE next = 0
          BY <3>1, <3>2, <4>1
        <4>2. CASE now = 1
          BY <3>1, <3>2, <3>4, <4>2
        <4> QED
          BY <3>2, <4>1, <4>2
      <3> QED
        BY <3>4, <3>5 DEF a, s, m, next, all, done, many
    <2>9. LinesIn(readbuf') <= Credit(Accepted') + strays
      BY <2>5, <2>8
    <2>6. fd' # NoClient =>
            LinesIn(readbuf') + LinesIn(wire'[fd']) + (IF towrite' > 0 THEN 1 ELSE 0)
              <= Credit(Accepted' \ {fd'}) + strays' + asked'[fd'] - answers'[fd']
      BY <1>1, <1>2, <2>3, <2>8 DEF now, others
    <2>7. \A d \in Clients \ Accepted' : answers'[d] = 0 /\ asked'[d] = LinesIn(wire'[d])
      BY <1>7, <2>3
    <2> QED
      BY <1>1, <1>5, <1>7, <2>6, <2>7, <2>9, LagAfter
  <1> QED
    <2>1. \/ UNCHANGED <<readbuf, behind, infront, got, taken, wire, towrite>>
          \/ \E some \in Seq(Bytes), more \in Seq(Bytes) :
               /\ Len(some) <= Room /\ wire[c] = some \o more
               /\ wire' = [wire EXCEPT ![c] = more] /\ got' = got \o some
               /\ \E buf, old, lack : Brought(some, buf, old, lack) /\ TakeLine(buf, old, lack)
      BY <1>2, ReadBrings DEF BufferInv
    <2>2. ASSUME NEW some \in Seq(Bytes), got' = got \o some,
                 NEW buf, NEW old, NEW lack, Brought(some, buf, old, lack), TakeLine(buf, old, lack)
          PROVE  TakeClean(readbuf \o some)
      BY <2>2, CleanTake
    <2> QED
      BY <1>8, <1>9, <2>1, <2>2

LEMMA LagKeepsAnswer ==
  ASSUME ClientTypes, BufferInv, OrderInv, LagInv, Answer
  PROVE  LagInv'
  <1>1. /\ UNCHANGED <<readbuf, came, wire, burst, asked>> /\ towrite > 0 /\ towrite' = towrite - 1
    BY AnswerTurn DEF clientVars
  <1>2. IsFiniteSet(Early(came))
    BY DEF LagInv
  <1>3. CASE fd = NoClient /\ UNCHANGED <<fd, backlog, answers, strays>>
    <2>1. Accepted' = Accepted
      BY <1>1, <1>3 DEF Accepted, Waiting
    <2> QED
      BY <1>1, <1>2, <1>3, <2>1, LagAfter DEF LagInv
  <1>4. ASSUME NEW c \in Clients, Turn(c), fd' \in {c, NoClient}, Answered(c),
               strays' = IF c = fd THEN strays ELSE strays + 1
        PROVE  LagInv'
    <2>1. /\ c \in Accepted' /\ Accepted \subseteq Accepted' /\ Accepted' \subseteq came
      BY <1>1, <1>4, TurnAccepts
    <2> DEFINE more == IF c = fd THEN 0 ELSE IF towrite > 0 THEN 1 ELSE 0
    <2>2. /\ LinesIn(readbuf) <= Credit(Accepted') + strays
          /\ LinesIn(readbuf) + LinesIn(wire[c]) + (IF towrite > 0 THEN 1 ELSE 0)
               <= Credit(Accepted' \ {c}) + strays + more + asked[c] - answers[c]
      BY <1>1, <1>4, TurnBehind
    <2>3. strays' = strays + more /\ more \in {0, 1}
      <3>1. strays \in Nat
        BY LagNumbers
      <3> QED
        BY <1>1, <1>4, <3>1
    <2> HIDE DEF more
    <2>4. /\ LinesIn(readbuf) \in Nat /\ LinesIn(wire[c]) \in Nat /\ strays \in Nat
          /\ \A d \in Clients : asked[d] \in Nat /\ answers[d] \in Nat /\ burst[d] \in Nat \ {0}
      BY LagNumbers
    <2>5. Credit(Accepted') \in Nat /\ Credit(Accepted' \ {c}) \in Nat
      <3>1. Accepted' \ {c} \subseteq came
        BY <2>1
      <3> QED
        BY <2>1, <3>1, LagNumbers
    <2>6. /\ answers' \in [Clients -> Nat]
          /\ answers'[c] = answers[c] + (IF towrite = 1 THEN 1 ELSE 0)
          /\ \A d \in Clients : d # c => answers'[d] = answers[d]
      <3>1. answers \in [Clients -> Nat]
        BY DEF ClientTypes
      <3>2. CASE towrite = 1
        <4>1. answers' = [answers EXCEPT ![c] = answers[c] + 1]
          BY <1>4, <3>2 DEF Answered
        <4> QED
          BY <3>1, <3>2, <4>1
      <3>3. CASE towrite # 1
        <4>1. answers' = answers
          BY <1>4, <3>3 DEF Answered
        <4> QED
          BY <3>1, <3>3, <4>1
      <3> QED
        BY <3>2, <3>3
    <2>7. towrite \in Nat
      BY PortAssumption DEF ClientTypes
    <2>8. \A d \in Clients : asked'[d] - answers'[d] <= burst[d]
      <3> TAKE d \in Clients
      <3>1. asked[d] - answers[d] <= burst[d]
        BY DEF LagInv
      <3>2. answers'[d] = answers[d] \/ answers'[d] = answers[d] + 1
        BY <2>4, <2>6
      <3> QED
        BY <1>1, <2>4, <3>1, <3>2
    <2>9. \A d \in Clients \ Accepted' : answers'[d] = 0 /\ asked'[d] = LinesIn(wire'[d])
      <3> TAKE d \in Clients \ Accepted'
      <3>1. d \in Clients \ Accepted /\ d # c
        BY <2>1
      <3> QED
        BY <1>1, <2>6, <3>1 DEF LagInv
    <2>10. LinesIn(readbuf') <= Credit(Accepted') + strays'
      BY <1>1, <2>2, <2>3, <2>4, <2>5
    <2>11. LinesIn(readbuf) + LinesIn(wire[c]) + (IF towrite' > 0 THEN 1 ELSE 0)
             <= Credit(Accepted' \ {c}) + strays' + asked[c] - answers'[c]
      BY <1>1, <2>2, <2>3, <2>4, <2>5, <2>6, <2>7
    <2>12. fd' # NoClient =>
             LinesIn(readbuf') + LinesIn(wire'[fd']) + (IF towrite' > 0 THEN 1 ELSE 0)
               <= Credit(Accepted' \ {fd'}) + strays' + asked'[fd'] - answers'[fd']
      BY <1>1, <1>4, <2>11
    <2> QED
      BY <1>1, <1>2, <2>8, <2>9, <2>10, <2>12, LagAfter
  <1> QED
    BY <1>3, <1>4, AnswerTurn

LEMMA LagKeepsConnect ==
  ASSUME ClientTypes, BufferInv, OrderInv, LagInv, NEW c \in Clients, Connect(c)
  PROVE  LagInv'
  <1>1. /\ UNCHANGED <<fd, readbuf, towrite, wire, burst, asked, answers, strays>>
        /\ came' = came \cup {c} /\ c \notin came
    BY DEF Connect, portState, histVars
  <1>2. Accepted' = Accepted
    BY ConnectWaits
  <1>3. IsFiniteSet(Early(came'))
    BY <1>1, CreditOfOneMore DEF LagInv
  <1> QED
    BY <1>1, <1>2, <1>3, LagAfter DEF LagInv, Behind

LEMMA LagKeepsSend ==
  ASSUME ClientTypes, BufferInv, OrderInv, LagInv, NEW c \in Clients, Send(c)
  PROVE  LagInv'
  <1> DEFINE b == [from |-> c, line |-> asked[c], what |-> Head(todo[c])]
             more == IF EndsLine(b) THEN 1 ELSE 0
  <1>1. /\ UNCHANGED <<fd, readbuf, towrite, backlog, came, burst, answers, strays>>
        /\ wire' = [wire EXCEPT ![c] = Append(wire[c], b)]
        /\ asked' = [asked EXCEPT ![c] = IF EndsLine(b) THEN asked[c] + 1 ELSE asked[c]]
        /\ EndsLine(b) => asked[c] - answers[c] < burst[c]
    BY DEF Send, portState, histVars, EndsLine
  <1>2. b \in Bytes
    <2>1. Head(todo[c]) \in {"char", "cr", "lf"}
      BY HeadTailProperties DEF Send, ClientTypes
    <2> QED
      BY <2>1 DEF Bytes, ClientTypes
  <1> HIDE DEF b
  <1>3. Accepted' = Accepted
    BY <1>1 DEF Accepted, Waiting
  <1>4. /\ Accepted \subseteq came /\ NoClient \notin Clients
        /\ \A S : S \subseteq came => IsFiniteSet(Early(S)) /\ Credit(S) \in Nat
        /\ LinesIn(readbuf) \in Nat /\ strays \in Nat
        /\ \A d \in Clients : /\ LinesIn(wire[d]) \in Nat /\ asked[d] \in Nat
                              /\ answers[d] \in Nat /\ burst[d] \in Nat \ {0}
    BY LagNumbers
  <1>5. LinesIn(Append(wire[c], b)) = LinesIn(wire[c]) + more
    BY <1>2, LinesWithOneMore DEF ClientTypes
  <1>6. \A d \in Clients : /\ LinesIn(wire'[d]) = LinesIn(wire[d]) + (IF d = c THEN more ELSE 0)
                           /\ asked'[d] = asked[d] + (IF d = c THEN more ELSE 0)
    <2> TAKE d \in Clients
    <2>1. CASE d = c
      BY <1>1, <1>4, <1>5, <2>1 DEF ClientTypes
    <2>2. CASE d # c
      <3>1. wire'[d] = wire[d] /\ asked'[d] = asked[d]
        BY <1>1, <2>2 DEF ClientTypes
      <3> QED
        BY <1>4, <2>2, <3>1
    <2> QED
      BY <2>1, <2>2
  <1>7. \A d \in Clients : asked'[d] - answers'[d] <= burst[d]
    <2> TAKE d \in Clients
    <2>1. asked[d] - answers[d] <= burst[d]
      BY DEF LagInv
    <2> QED
      BY <1>1, <1>4, <1>6, <2>1
  <1>8. \A d \in Clients \ Accepted' : answers'[d] = 0 /\ asked'[d] = LinesIn(wire'[d])
    BY <1>1, <1>3, <1>6 DEF LagInv
  <1>9. fd' # NoClient =>
          LinesIn(readbuf') + LinesIn(wire'[fd']) + (IF towrite' > 0 THEN 1 ELSE 0)
            <= Credit(Accepted' \ {fd'}) + strays' + asked'[fd'] - answers'[fd']
    <2> SUFFICES ASSUME fd # NoClient
                 PROVE  LinesIn(readbuf) + LinesIn(wire'[fd]) + (IF towrite > 0 THEN 1 ELSE 0)
                          <= Credit(Accepted \ {fd}) + strays + asked'[fd] - answers[fd]
      BY <1>1, <1>3
    <2>1. fd \in Clients /\ Behind(fd)
      BY DEF ClientTypes, LagInv
    <2>2. Credit(Accepted \ {fd}) \in Nat
      <3>1. Accepted \ {fd} \subseteq came
        BY <1>4
      <3> QED
        BY <1>4, <3>1
    <2> QED
      BY <1>4, <1>6, <2>1, <2>2 DEF Behind
  <1> QED
    BY <1>1, <1>3, <1>7, <1>8, <1>9, LagAfter DEF LagInv

LinesInv == OrderInv /\ StreamInv /\ LagInv

LEMMA LinesInitially == PortInit => LinesInv
  <1> SUFFICES ASSUME PortInit PROVE LinesInv
    OBVIOUS
  <1>1. /\ fd = NoClient /\ readbuf = <<>> /\ towrite = 0 /\ backlog = <<>> /\ came = {}
        /\ got = <<>> /\ strays = 0
        /\ \A c \in Clients : wire[c] = <<>> /\ asked[c] = 0 /\ answers[c] = 0
    BY DEF PortInit
  <1>2. Waiting = {} /\ Accepted = {}
    BY <1>1 DEF Waiting, Accepted
  <1>3. OrderInv
    BY <1>1, <1>2 DEF OrderInv
  <1>4. got \o <<>> = <<>>
    BY <1>1
  <1>5. StreamInv
    BY <1>1, <1>4 DEF StreamInv, Flows, Kept, MayFollow
  <1>6. LinesIn(<<>>) = 0
    <2>1. <<>> \in Seq(Bytes) /\ DOMAIN <<>> = {}
      OBVIOUS
    <2>2. (\A i \in DOMAIN <<>> : ~EndsLine(<<>>[i])) => LinesIn(<<>>) = 0
      BY <2>1, LinesCounted
    <2> QED
      BY <2>1, <2>2
  <1>7. Early({}) = {}
    BY DEF Early
  <1>8. IsFiniteSet(Early(came)) /\ Credit(Accepted) = 0
    BY <1>1, <1>2, <1>7, FS_EmptySet DEF Credit
  <1>9. \A c \in Clients : asked[c] - answers[c] <= burst[c]
    <2>1. burst \in [Clients -> Nat \ {0}]
      BY PortAssumption DEF PortInit
    <2> QED
      BY <1>1, <2>1
  <1>10. LagInv
    BY <1>1, <1>2, <1>6, <1>8, <1>9 DEF LagInv
  <1> QED
    BY <1>3, <1>5, <1>10 DEF LinesInv

LEMMA LinesUnmoved ==
  ASSUME LinesInv,
         UNCHANGED <<fd, readbuf, towrite, backlog, came, wire, burst, asked, answers, strays, got>>
  PROVE  LinesInv'
  <1>1. Accepted' = Accepted /\ Waiting' = Waiting
    BY DEF Accepted, Waiting
  <1>2. OrderInv'
    BY <1>1 DEF LinesInv, OrderInv
  <1>3. StreamInv'
    <2>1. \A c \in Clients : Flows(got', wire'[c], c, asked'[c])
      BY DEF LinesInv, StreamInv
    <2> QED
      BY <2>1, StreamAfter
  <1>4. LagInv'
    <2>1. IsFiniteSet(Early(came'))
      BY DEF LinesInv, LagInv
    <2> QED
      BY <1>1, <2>1, LagAfter DEF LinesInv, LagInv, Behind
  <1> QED
    BY <1>2, <1>3, <1>4 DEF LinesInv

LEMMA LinesKeep ==
  ASSUME ClientTypes, BufferInv, LinesInv, [PortNext]_portVars, LinesAreRead'
  PROVE  LinesInv'
  <1>1. CASE ReadLine
    BY <1>1, OrderKeeps, StreamKeeps, LagKeepsRead DEF LinesInv, PortNext, Port
  <1>2. CASE Answer
    BY <1>2, OrderKeeps, StreamKeeps, LagKeepsAnswer DEF LinesInv, PortNext, Port
  <1>3. ASSUME NEW c \in Clients, Connect(c) PROVE LinesInv'
    BY <1>3, OrderKeeps, StreamKeeps, LagKeepsConnect DEF LinesInv, PortNext
  <1>4. ASSUME NEW c \in Clients, Send(c) PROVE LinesInv'
    BY <1>4, OrderKeeps, StreamKeeps, LagKeepsSend DEF LinesInv, PortNext
  <1>5. ASSUME NEW c \in Clients, Leave(c) PROVE LinesInv'
    BY <1>5, LinesUnmoved DEF Leave, portState, histVars
  <1>6. CASE UNCHANGED portVars
    BY <1>6, LinesUnmoved DEF portVars, portState, clientVars, histVars
  <1> QED
    BY <1>1, <1>2, <1>3, <1>4, <1>5, <1>6 DEF PortNext, Port

LEMMA LinesAlways == PortSpec => [](LinesAreRead => LinesInv)
  <1>1. PortInit => (LinesAreRead => LinesInv)
    BY LinesInitially
  <1>2. PortInv /\ (LinesAreRead => LinesInv) /\ [PortNext]_portVars => (LinesAreRead => LinesInv)'
    <2> SUFFICES ASSUME PortInv, LinesAreRead => LinesInv, [PortNext]_portVars, LinesAreRead'
                 PROVE  LinesInv'
      OBVIOUS
    <2>1. ClientTypes /\ BufferTypes /\ (LinesAreRead => BufferInv)
      BY DEF PortInv
    <2>2. LinesAreRead
      BY <2>1, PortKeeps
    <2> QED
      BY <2>1, <2>2, LinesKeep
  <1> QED
    BY <1>1, <1>2, PortAlways, PTL DEF PortSpec

-----------------------------------------------------------------------------
(* When old bytes are returned.  Before the first long line there are none *)
(* behind the bytes that were read: the cells there are as they were when  *)
(* the object was made.                                                    *)

LongInv ==
  /\ LongLinesFirst
  /\ (\A k \in DOMAIN taken : IsShort(k)) => infront = 0 /\ \A i \in DOMAIN behind : behind[i] = Nul

LEMMA LongKept ==
  ASSUME LongInv, UNCHANGED <<behind, infront, taken>> PROVE LongInv'
  BY DEF LongInv, LongLinesFirst, IsShort, IsRead

\* A line that ends before the first NUL, where only NULs are behind what was
\* read, is one of what was read; if it was short, nothing of it stays behind.
LEMMA ShortLeavesNone ==
  ASSUME NEW buf \in Seq(Bytes), NEW old \in Seq(Cells), Len(buf) + Len(old) = BufSize,
         \A i \in DOMAIN old : old[i] = Nul,
         NEW cr, NEW end \in Nat \ {0}, end \in DOMAIN (buf \o old), IsLine(buf \o old, cr, end)
  PROVE  /\ end <= Len(buf)
         /\ end + Len(buf) <= BufSize =>
              \A i \in 1 .. BufSize - (Len(buf) - end) :
                Moved(buf \o old, end)[(Len(buf) - end) + i] = Nul
  <1> DEFINE cells == buf \o old
  <1>1. /\ Len(buf) \in Nat /\ Len(old) \in Nat /\ DOMAIN old = 1 .. Len(old)
        /\ DOMAIN cells = 1 .. Len(buf) + Len(old)
        /\ \A i \in 1 .. Len(old) : cells[Len(buf) + i] = old[i]
    BY CellsOf
  <1> HIDE DEF cells
  <1>2. \A i \in 1 .. Len(old) : cells[Len(buf) + i] = Nul
    BY <1>1
  <1>3. end <= Len(buf)
    <2> SUFFICES ASSUME end > Len(buf) PROVE FALSE
      BY <1>1
    <2>1. Len(buf) + 1 \in 1 .. end /\ 1 \in 1 .. Len(old)
      BY <1>1 DEF cells
    <2>2. cells[Len(buf) + 1] = Nul
      BY <1>2, <2>1
    <2>3. InString(cells, end)
      BY DEF IsLine, cells
    <2> QED
      BY <2>1, <2>2, <2>3 DEF InString
  <1>4. ASSUME end + Len(buf) <= BufSize, NEW i \in 1 .. BufSize - (Len(buf) - end)
        PROVE  Moved(cells, end)[(Len(buf) - end) + i] = Nul
    <2> DEFINE p == (Len(buf) - end) + i
    <2>1. p \in 1 .. BufSize /\ p + end = Len(buf) + i /\ i \in Nat \ {0}
      BY <1>1, <1>3, PortAssumption
    <2>2. Moved(cells, end)[p] = IF p + end <= BufSize THEN cells[p + end] ELSE cells[p]
      <3> HIDE DEF p
      <3> QED
        BY <2>1 DEF Moved
    <2>3. CASE p + end <= BufSize
      <3>1. i \in 1 .. Len(old)
        BY <1>1, <2>1, <2>3
      <3>2. cells[Len(buf) + i] = Nul
        BY <1>2, <3>1
      <3> QED
        BY <2>1, <2>2, <2>3, <3>2
    <2>4. CASE p + end > BufSize
      <3>1. p - Len(buf) \in 1 .. Len(old) /\ Len(buf) + (p - Len(buf)) = p
        BY <1>1, <1>3, <1>4, <2>1, <2>4
      <3>2. cells[p] = Nul
        BY <1>2, <3>1
      <3>3. ~(p + end <= BufSize)
        BY <1>1, <2>1, <2>4
      <3> QED
        BY <2>2, <3>2, <3>3
    <2> QED
      BY <1>1, <2>1, <2>3, <2>4, PortAssumption
  <1> QED
    BY <1>3, <1>4 DEF cells

LEMMA TakeLong ==
  ASSUME BufferTypes, LongInv, NEW some \in Seq(Bytes), got' = got \o some,
         NEW buf, NEW old, NEW lack, Brought(some, buf, old, lack), TakeLine(buf, old, lack)
  PROVE  LongInv'
  <1> DEFINE cells == buf \o old
             AllShort == \A k \in DOMAIN taken : IsShort(k)
  <1>1. /\ buf \in Seq(Bytes) /\ old \in Seq(Cells) /\ Len(buf) + Len(old) = BufSize
        /\ AllShort => infront = 0 /\ lack = 0 /\ \A i \in DOMAIN old : old[i] = Nul
    BY DEF Brought, LongInv
  <1>2. CASE behind' = old /\ infront' = lack /\ UNCHANGED taken
    <2>1. AllShort' <=> AllShort
      BY <1>2 DEF IsShort
    <2>2. LongLinesFirst'
      BY <1>2 DEF LongInv, LongLinesFirst, IsShort, IsRead
    <2> QED
      BY <1>1, <1>2, <2>1, <2>2 DEF LongInv
  <1>3. ASSUME NEW cr \in DOMAIN cells, NEW end \in DOMAIN cells, IsLine(cells, cr, end),
               readbuf' = Rest(buf, end),
               behind' = [i \in 1..BufSize - Len(readbuf') |-> Moved(cells, end)[Len(readbuf') + i]],
               infront' = lack + (IF end > Len(buf) THEN end - Len(buf) ELSE 0),
               LET before == Len(got) - Len(readbuf) + infront
               IN taken' = Append(taken, [first |-> before + 1, last |-> before + cr,
                                          end |-> before + end, read |-> Len(got')])
        PROVE  LongInv'
    <2>0. PICK K : K = Len(taken) + 1
      OBVIOUS
    <2>1. /\ taken \in Seq(Places) /\ Len(taken) \in Nat /\ DOMAIN taken = 1 .. Len(taken)
          /\ DOMAIN taken' = 1 .. K /\ \A k \in 1 .. Len(taken) : taken'[k] = taken[k]
      <3>1. \E e \in Places : taken' = Append(taken, e)
        <4> DEFINE before == Len(got) - Len(readbuf) + infront
                   new == [first |-> before + 1, last |-> before + cr,
                           end |-> before + end, read |-> Len(got')]
        <4>1. cr \in Nat /\ end \in Nat
          <5>1. DOMAIN cells = 1 .. Len(buf) + Len(old) /\ Len(buf) \in Nat /\ Len(old) \in Nat
            BY <1>1, CellsOf
          <5> HIDE DEF cells
          <5> QED
            BY <1>3, <5>1
        <4>2. Len(got') \in Nat /\ before \in Nat
          <5>1. Len(got') \in Nat /\ Len(got) \in Nat /\ Len(readbuf) \in Nat
            BY OneBehindOther, LenProperties DEF BufferTypes
          <5> QED
            BY <5>1 DEF BufferTypes
        <4> HIDE DEF before
        <4>3. before + 1 \in Nat /\ before + cr \in Nat /\ before + end \in Nat
          BY <4>1, <4>2
        <4>4. new \in Places
          BY <4>2, <4>3 DEF Places
        <4>5. taken' = Append(taken, new)
          BY <1>3 DEF before
        <4> QED
          BY <4>4, <4>5
      <3>2. PICK e \in Places : taken' = Append(taken, e)
        BY <3>1
      <3>3. taken \in Seq(Places)
        BY DEF BufferTypes
      <3>4. /\ taken' \in Seq(Places) /\ Len(taken') = K
            /\ \A k \in 1 .. Len(taken) : taken'[k] = taken[k]
        BY <2>0, <3>2, <3>3, AppendProperties
      <3> QED
        BY <2>0, <3>3, <3>4, LenProperties
    <2>2. \A k \in 1 .. Len(taken) :
            /\ k \in 1 .. K /\ (IsShort(k)' <=> IsShort(k)) /\ (IsRead(k)' <=> IsRead(k))
      BY <2>0, <2>1 DEF IsShort, IsRead
    <2>3. K \in 1 .. K /\ K - 1 = Len(taken) /\ \A k \in 1 .. K : k \in 1 .. Len(taken) \/ k = K
      BY <2>0, <2>1
    <2>4. ASSUME AllShort
          PROVE  IsRead(K)' /\ (IsShort(K)' => infront' = 0 /\ \A i \in DOMAIN behind' : behind'[i] = Nul)
      <3> DEFINE before == Len(got) - Len(readbuf)
      <3>1. infront = 0 /\ lack = 0 /\ \A i \in DOMAIN old : old[i] = Nul
        BY <1>1, <2>4
      <3>2. /\ taken'[K] = [first |-> before + 1, last |-> before + cr,
                            end |-> before + end, read |-> Len(got')]
            /\ before \in Nat /\ Len(buf) \in Nat /\ Len(got') = before + Len(buf)
            /\ end \in Nat \ {0}
        <4>1. /\ taken'[Len(taken) + 1] = [first |-> before + 1, last |-> before + cr,
                                            end |-> before + end, read |-> Len(got')]
              /\ before \in Nat /\ Len(buf) \in Nat /\ Len(got') = before + Len(buf)
              /\ end \in Nat \ {0}
          BY <1>3, <3>1, LineTaken
        <4> HIDE DEF before
        <4> QED
          BY <2>0, <4>1
      <3>3. /\ end <= Len(buf)
            /\ end + Len(buf) <= BufSize =>
                 \A i \in 1 .. BufSize - (Len(buf) - end) :
                   Moved(cells, end)[(Len(buf) - end) + i] = Nul
        BY <1>1, <1>3, <3>1, <3>2, ShortLeavesNone
      <3> HIDE DEF cells, before
      <3>4. IsRead(K)'
        <4>1. taken'[K].end = before + end /\ taken'[K].read = before + Len(buf)
          BY <3>2
        <4>2. before + end <= before + Len(buf)
          BY <3>2, <3>3
        <4> QED
          BY <4>1, <4>2 DEF IsRead
      <3>5. Len(readbuf') = Len(buf) - end
        BY <1>1, <1>3, <3>2, <3>3, RestOf
      <3>6. ASSUME IsShort(K)' PROVE infront' = 0 /\ \A i \in DOMAIN behind' : behind'[i] = Nul
        <4>1. end + Len(buf) <= BufSize
          <5>1. /\ taken'[K].end = before + end /\ taken'[K].read = before + Len(buf)
                /\ taken'[K].first = before + 1
            BY <3>2
          <5>2. ((before + end) - (before + 1) + 1) + ((before + Len(buf)) - (before + 1) + 1) <= BufSize
            BY <3>6, <5>1 DEF IsShort
          <5> QED
            BY <3>2, <5>2, PortAssumption
        <4>2. infront' = 0
          BY <1>3, <3>1, <3>2, <3>3
        <4>3. \A i \in 1 .. BufSize - (Len(buf) - end) :
                Moved(cells, end)[(Len(buf) - end) + i] = Nul
          BY <3>3, <4>1
        <4>4. \A i \in DOMAIN behind' : behind'[i] = Nul
          BY <1>3, <3>5, <4>3
        <4> QED
          BY <4>2, <4>4
      <3> QED
        BY <3>4, <3>6
    <2>5. LongLinesFirst'
      <3> SUFFICES ASSUME NEW k \in 1 .. K, ~IsRead(k)'
                   PROVE  \E j \in 1 .. k - 1 : ~IsShort(j)'
        BY <2>1 DEF LongLinesFirst
      <3>1. CASE k \in 1 .. Len(taken)
        <4>1. PICK j \in 1 .. k - 1 : ~IsShort(j)
          BY <2>1, <2>2, <3>1 DEF LongInv, LongLinesFirst
        <4>2. j \in 1 .. Len(taken)
          BY <2>1, <3>1
        <4> QED
          BY <2>2, <4>1, <4>2
      <3>2. CASE k = K
        <4>1. PICK j \in 1 .. Len(taken) : ~IsShort(j)
          BY <2>1, <2>4, <3>2
        <4> QED
          BY <2>2, <2>3, <3>2, <4>1
      <3> QED
        BY <2>3, <3>1, <3>2
    <2>6. ASSUME \A k \in DOMAIN taken' : IsShort(k)'
          PROVE  infront' = 0 /\ \A i \in DOMAIN behind' : behind'[i] = Nul
      <3>1. AllShort
        BY <2>1, <2>2, <2>6
      <3>2. IsShort(K)'
        BY <2>1, <2>3, <2>6
      <3> QED
        BY <2>4, <3>1, <3>2
    <2> QED
      BY <2>5, <2>6 DEF LongInv
  <1> QED
    <2>1. TakeLine(buf, old, lack)
      OBVIOUS
    <2> QED
      BY <1>2, <1>3, <2>1, Zenon DEF TakeLine, cells

LEMMA LongKeeps ==
  ASSUME ClientTypes, BufferTypes, LongInv, [PortNext]_portVars
  PROVE  LongInv'
  <1>1. CASE ReadLine
    <2>1. PICK c \in Clients : ReadFrom(c)
      BY <1>1, ReadTurn
    <2>2. CASE UNCHANGED <<readbuf, behind, infront, got, taken, wire, towrite>>
      BY <2>2, LongKept
    <2>3. ASSUME NEW some \in Seq(Bytes), got' = got \o some,
                 NEW buf, NEW old, NEW lack, Brought(some, buf, old, lack), TakeLine(buf, old, lack)
          PROVE  LongInv'
      BY <2>3, TakeLong
    <2>4. \/ UNCHANGED <<readbuf, behind, infront, got, taken, wire, towrite>>
          \/ \E some \in Seq(Bytes), more \in Seq(Bytes) :
               /\ Len(some) <= Room /\ wire[c] = some \o more
               /\ wire' = [wire EXCEPT ![c] = more] /\ got' = got \o some
               /\ \E buf, old, lack : Brought(some, buf, old, lack) /\ TakeLine(buf, old, lack)
      BY <2>1, ReadBrings
    <2> QED
      BY <2>2, <2>3, <2>4
  <1>2. CASE Answer
    BY <1>2, LongKept DEF Answer
  <1>3. ASSUME NEW c \in Clients, Connect(c) \/ Send(c) \/ Leave(c) PROVE LongInv'
    BY <1>3, LongKept DEF Connect, Send, Leave, portState, histVars
  <1>4. CASE UNCHANGED portVars
    BY <1>4, LongKept DEF portVars, portState, histVars
  <1> QED
    BY <1>1, <1>2, <1>3, <1>4 DEF PortNext, Port

LEMMA LongAlways == PortSpec => []LongInv
  <1>1. PortInit => LongInv
    <2> SUFFICES ASSUME PortInit PROVE LongInv
      OBVIOUS
    <2>1. \A i \in DOMAIN behind : behind[i] = Nul
      BY EmptyBuffer DEF PortInit
    <2> QED
      BY <2>1 DEF PortInit, LongInv, LongLinesFirst
  <1>2. PortInv /\ LongInv /\ [PortNext]_portVars => LongInv'
    BY LongKeeps DEF PortInv
  <1> QED
    BY <1>1, <1>2, PortAlways, PTL DEF PortSpec

\* The line of a client is whole, and only what clients before it left lies in
\* front of it.
LEMMA WholeLines ==
  ASSUME ClientTypes, BufferInv, LinesInv
  PROVE  LeftoversInFront
  <1> SUFFICES ASSUME NEW k \in DOMAIN taken, NEW i \in taken[k].first .. taken[k].last
               PROVE  \/ got[i].from < got[taken[k].last].from
                      \/ got[i].line = got[taken[k].last].line
    BY DEF LeftoversInFront
  <1> DEFINE first == taken[k].first  last == taken[k].last
  <1>1. got \in Seq(Bytes) /\ DOMAIN got = 1 .. Len(got) /\ Len(got) \in Nat /\ Len(readbuf) \in Nat
    BY LenProperties DEF BufferInv, BufferTypes
  <1>2. /\ k \in 1 .. Len(taken) /\ first \in Nat /\ last \in Nat /\ taken[k].end \in Nat
    <2>1. taken \in Seq(Places)
      BY DEF BufferInv, BufferTypes
    <2>2. k \in 1 .. Len(taken) /\ taken[k] \in Places
      BY <2>1, LenProperties
    <2> QED
      BY <2>2 DEF Places
  <1>3. 1 <= first /\ first <= last /\ last <= taken[k].end /\ taken[k].end <= Len(got) - Len(readbuf)
    BY <1>2 DEF BufferInv, PlacesInv
  <1>4. \A m \in first .. last - 1 : ~EndsLine(got[m])
    BY DEF BufferInv, LinesTileTheInput
  <1> HIDE DEF first, last
  <1>5. /\ i \in DOMAIN got /\ last \in DOMAIN got /\ i <= last /\ i \in Nat
        /\ \A m \in i .. last - 1 : m \in first .. last - 1
    <2>1. i \in first .. last
      BY DEF first, last
    <2> QED
      BY <1>1, <1>2, <1>3, <2>1
  <1>6. got[i].from \in Clients /\ got[last].from \in Clients
    <2>1. got[i] \in Bytes /\ got[last] \in Bytes
      BY <1>1, <1>5, LenProperties
    <2> QED
      BY <2>1 DEF Bytes
  <1>7. got[i].from \in Nat /\ got[last].from \in Nat
    BY <1>6, PortAssumption
  <1>8. CASE i = last
    BY <1>8 DEF last
  <1>9. CASE i < last
    <2>1. got[i].from <= got[last].from
      BY <1>5, <1>9 DEF LinesInv, OrderInv
    <2>2. CASE got[i].from = got[last].from
      <3> DEFINE w == wire[got[i].from]
      <3>1. w \in Seq(Bytes) /\ Kept(got \o w)
        BY <1>6 DEF ClientTypes, LinesInv, StreamInv, Flows
      <3> HIDE DEF w
      <3>2. Kept(got)
        BY <1>1, <3>1, KeptInFront
      <3>3. got[i].line = got[last].line \/ \E m \in i .. last - 1 : EndsLine(got[m])
        BY <1>5, <1>9, <2>2, <3>2 DEF Kept
      <3>4. got[i].line = got[last].line
        BY <1>4, <1>5, <3>3
      <3> QED
        BY <3>4 DEF last
    <2>3. CASE got[i].from < got[last].from
      BY <2>3 DEF last
    <2> QED
      BY <1>7, <2>1, <2>2, <2>3
  <1>10. i < last \/ i = last
    BY <1>2, <1>5
  <1> QED
    BY <1>8, <1>9, <1>10

\* For any number of clients, whatever they send, however it is cut into reads,
\* whenever they leave and however large the buffer is.  readLine() returns old
\* bytes as a line only after one that ended when more than BufSize bytes were in
\* use.  Until it does, the lines it returns are the bytes that were read, in order
\* and without a gap; each is a whole line of one client, with nothing in front of
\* it but what clients before left unfinished; and the port is not further behind
\* than clients sent without waiting, or were answered without asking.
THEOREM LinesAreRightHolds == PortSpec => []LinesAreRight
  <1>1. ASSUME PortInv, LinesAreRead => LinesInv, LinesAreRead
        PROVE  LinesTileTheInput /\ LeftoversInFront /\ LagBounded
    <2>0. ClientTypes /\ BufferInv /\ LinesInv
      BY <1>1 DEF PortInv
    <2>1. LinesTileTheInput /\ LeftoversInFront
      BY <2>0, WholeLines DEF BufferInv
    <2>2. LagBounded
      <3>1. Accepted \subseteq came /\ IsFiniteSet(Early(came))
        BY <2>0 DEF LinesInv, LagInv, Accepted
      <3>2. Credit(Accepted) \in Nat /\ Credit(came) \in Nat /\ Credit(Accepted) <= Credit(came)
        BY <3>1, CreditOfMore
      <3>3. LinesIn(readbuf) <= Credit(Accepted) + strays /\ strays \in Nat
        BY <2>0 DEF LinesInv, LagInv, ClientTypes
      <3>4. LinesIn(readbuf) \in Nat
        BY <2>0, LinesCounted DEF BufferInv, BufferTypes
      <3> QED
        BY <3>2, <3>3, <3>4 DEF LagBounded, Credit
    <2> QED
      BY <2>1, <2>2
  <1>2. ~LinesAreRead => LinesTileTheInput /\ LeftoversInFront /\ LagBounded
    BY DEF LinesTileTheInput, LeftoversInFront, LagBounded
  <1>3. PortInv /\ (LinesAreRead => LinesInv) /\ LongInv => LinesAreRight
    BY <1>1, <1>2 DEF LinesAreRight, LongInv
  <1> QED
    BY <1>3, PortAlways, LinesAlways, LongAlways, PTL

-----------------------------------------------------------------------------
(* BaudRate.  A failed attempt leaves traces in three places: the rate of  *)
(* the port, the one the adapter goes back to and the best rate so far.    *)

NotYet  == at \in {"open", "guess", "reset"}
Between == at \in {"brt", "brd", "reply"}

\* attempt is one of Guesses or Speeds whenever it is used as such.
AttemptInv ==
  /\ at \in {"open", "reset"} => attempt = 1
  /\ at = "guess" => attempt \in 1 .. Len(Guesses) + 1
  /\ Between \/ at = "elm" => /\ target # -1
                              /\ target = 0 => attempt \in 1 .. Len(Speeds)
                              /\ target # 0 => attempt = 1

\* Where the adapter is, and where it would go back to.
AdapterInv ==
  /\ ~trying => elm = oldrate
  /\ NotYet => ~trying /\ ~raced /\ ~blind
  /\ reply # "none" => at = "reply"
  /\ at = "reply" /\ reply = "none" => ~trying
  /\ at = "reply" /\ reply = "OK" /\ trying => elm = Rate
  /\ at = "elm" => port = Rate /\ (trying => elm = Rate)

\* The port is at the rate the adapter goes back to.
BackInv == (agreed /\ ~raced /\ ~blind /\ (Between \/ at = "opened")) => port = oldrate

\* Which is the best so far.
BestInv ==
  /\ NotYet \/ (target # 0 /\ at # "opened") => current_best = -1
  /\ current_best # -1 /\ ~raced =>
       /\ current_best \in PortRates /\ oldrate = current_best
       /\ at # "elm" => port = current_best

\* A port whose rate was told is put back to just that rate.
ToldInv ==
  target # 0 /\ baudrate \in PortRates =>
    /\ at # "guess"
    /\ at # "open" => current_baud = baudrate
    /\ at = "reset" \/ Between => port = baudrate
    /\ agreed /\ (Between \/ at = "elm") => oldrate = baudrate
    /\ agreed /\ ~NotYet => ~blind

BaudInv == BaudTypeOK /\ AttemptInv /\ AdapterInv /\ BackInv /\ BestInv /\ ToldInv

LEMMA RatesAndLists ==
  /\ PortRates \subseteq Rates /\ Rates \subseteq Nat \ {0} /\ DefaultBaud \in Rates
  /\ Len(Guesses) \in Nat /\ \A i \in 1 .. Len(Guesses) : Guesses[i] \in PortRates
  /\ Len(Speeds) \in Nat /\ \A i \in 1 .. Len(Speeds) : Speeds[i] \in Rates
  /\ Speeds # <<>> => Len(Speeds) > 0
  /\ Targets \subseteq Rates \cup {-1, 0}
  BY BaudAssumption

\* A rate that is tried is one there is.
LEMMA RateIsOne == BaudInv /\ (Between \/ at = "elm") => Rate \in Rates
  BY RatesAndLists DEF BaudInv, BaudTypeOK, RateTypes, AttemptInv, Rate

LEMMA BaudInitially == BaudInit => BaudInv
  <1> SUFFICES ASSUME BaudInit PROVE BaudInv
    OBVIOUS
  <1> USE RatesAndLists DEF BaudInit, NotYet, Between
  <1>1. RateTypes
    BY DEF RateTypes
  <1>2. FlagTypes
    BY DEF FlagTypes
  <1>3. AttemptInv
    BY DEF AttemptInv
  <1>4. AdapterInv
    BY DEF AdapterInv
  <1>5. BackInv
    BY DEF BackInv
  <1>6. BestInv
    BY DEF BestInv
  <1>7. ToldInv
    BY DEF ToldInv
  <1> QED
    BY <1>1, <1>2, <1>3, <1>4, <1>5, <1>6, <1>7 DEF BaudInv, BaudTypeOK

LEMMA BaudInductive ==
  ASSUME BaudInv, [BaudNext]_baudVars PROVE BaudInv'
  <1> USE RatesAndLists, RateIsOne DEF NotYet, Between, elmVars, argVars, BaudInv, BaudTypeOK
  <1>1. CASE OpenSerial
    <2>1. RateTypes'
      BY <1>1 DEF OpenSerial, Modified, RateTypes, AttemptInv
    <2>2. FlagTypes'
      BY <1>1, Zenon DEF OpenSerial, Modified, FlagTypes
    <2>3. AttemptInv'
      BY <1>1 DEF OpenSerial, Modified, AttemptInv, RateTypes
    <2>4. AdapterInv'
      BY <1>1 DEF OpenSerial, Modified, AdapterInv, RateTypes, Rate
    <2>5. BackInv'
      BY <1>1 DEF OpenSerial, Modified, BackInv, RateTypes, AdapterInv
    <2>6. BestInv'
      BY <1>1 DEF OpenSerial, Modified, BestInv, RateTypes, AttemptInv, AdapterInv
    <2>7. ToldInv'
      BY <1>1 DEF OpenSerial, Modified, ToldInv, RateTypes, AttemptInv, AdapterInv
    <2> QED
      BY <2>1, <2>2, <2>3, <2>4, <2>5, <2>6, <2>7
  <1>2. CASE Guess
    <2>1. RateTypes'
      BY <1>2 DEF Guess, RateTypes, AttemptInv
    <2>2. FlagTypes'
      BY <1>2, Zenon DEF Guess, FlagTypes
    <2>3. AttemptInv'
      BY <1>2 DEF Guess, AttemptInv, RateTypes
    <2>4. AdapterInv'
      BY <1>2 DEF Guess, AdapterInv, RateTypes, Rate
    <2>5. BackInv'
      BY <1>2 DEF Guess, BackInv, RateTypes, AdapterInv
    <2>6. BestInv'
      BY <1>2 DEF Guess, BestInv, RateTypes, AttemptInv, AdapterInv
    <2>7. ToldInv'
      BY <1>2 DEF Guess, ToldInv, RateTypes, AttemptInv, AdapterInv
    <2> QED
      BY <2>1, <2>2, <2>3, <2>4, <2>5, <2>6, <2>7
  <1>3. CASE Reset
    <2>1. RateTypes'
      BY <1>3 DEF Reset, RateTypes, AttemptInv
    <2>2. FlagTypes'
      BY <1>3, Zenon DEF Reset, FlagTypes
    <2>3. AttemptInv'
      BY <1>3 DEF Reset, AttemptInv, RateTypes
    <2>4. AdapterInv'
      BY <1>3 DEF Reset, AdapterInv, RateTypes, Rate
    <2>5. BackInv'
      BY <1>3 DEF Reset, BackInv, RateTypes, AdapterInv
    <2>6. BestInv'
      BY <1>3 DEF Reset, BestInv, RateTypes, AttemptInv, AdapterInv
    <2>7. ToldInv'
      BY <1>3 DEF Reset, ToldInv, RateTypes, AttemptInv, AdapterInv
    <2> QED
      BY <2>1, <2>2, <2>3, <2>4, <2>5, <2>6, <2>7
  <1>4. CASE SendBrt
    <2>1. RateTypes'
      BY <1>4 DEF SendBrt, RateTypes, AttemptInv
    <2>2. FlagTypes'
      BY <1>4, Zenon DEF SendBrt, FlagTypes
    <2>3. AttemptInv'
      BY <1>4 DEF SendBrt, AttemptInv, RateTypes
    <2>4. AdapterInv'
      BY <1>4 DEF SendBrt, AdapterInv, RateTypes, Rate
    <2>5. BackInv'
      BY <1>4 DEF SendBrt, BackInv, RateTypes, AdapterInv
    <2>6. BestInv'
      BY <1>4 DEF SendBrt, BestInv, RateTypes, AttemptInv, AdapterInv
    <2>7. ToldInv'
      BY <1>4 DEF SendBrt, ToldInv, RateTypes, AttemptInv, AdapterInv
    <2> QED
      BY <2>1, <2>2, <2>3, <2>4, <2>5, <2>6, <2>7
  <1>5. CASE SendBrd
    <2>1. RateTypes'
      BY <1>5 DEF SendBrd, Attempted, RateTypes, AttemptInv
    <2>2. FlagTypes'
      BY <1>5, Zenon DEF SendBrd, Attempted, FlagTypes
    <2>3. AttemptInv'
      BY <1>5 DEF SendBrd, Attempted, AttemptInv, RateTypes
    <2>4. AdapterInv'
      BY <1>5 DEF SendBrd, Attempted, AdapterInv, RateTypes, Rate
    <2>5. BackInv'
      BY <1>5 DEF SendBrd, Attempted, BackInv, RateTypes, AdapterInv
    <2>6. BestInv'
      BY <1>5 DEF SendBrd, Attempted, BestInv, RateTypes, AttemptInv, AdapterInv
    <2>7. ToldInv'
      BY <1>5 DEF SendBrd, Attempted, ToldInv, RateTypes, AttemptInv, AdapterInv
    <2> QED
      BY <2>1, <2>2, <2>3, <2>4, <2>5, <2>6, <2>7
  <1>6. CASE ReadReply
    <2>0. IF reply = "?" THEN ~blind' => ~blind /\ Modified(previousrate) = oldrate
                         ELSE UNCHANGED blind
      BY <1>6, Zenon DEF ReadReply, Fail
    <2>1. RateTypes'
      BY <1>6 DEF ReadReply, Attempted, Fail, Modified, previousrate, RateTypes, AttemptInv
    <2>2. FlagTypes'
      BY <1>6, Zenon DEF ReadReply, Attempted, Fail, Modified, previousrate, FlagTypes
    <2>3. AttemptInv'
      BY <1>6 DEF ReadReply, Attempted, Fail, Modified, previousrate, AttemptInv, RateTypes
    <2>4. AdapterInv'
      BY <1>6 DEF ReadReply, Attempted, Fail, Modified, previousrate, AdapterInv, RateTypes, Rate
    <2>5. BackInv'
      BY <1>6, <2>0 DEF ReadReply, Attempted, Fail, Modified, previousrate, BackInv, RateTypes, AdapterInv
    <2>6. BestInv'
      BY <1>6 DEF ReadReply, Attempted, Fail, Modified, previousrate, BestInv, RateTypes, AttemptInv, AdapterInv
    <2>7. ToldInv'
      BY <1>6, <2>0 DEF ReadReply, Attempted, Fail, Modified, previousrate, ToldInv, RateTypes, AttemptInv, AdapterInv
    <2> QED
      BY <2>1, <2>2, <2>3, <2>4, <2>5, <2>6, <2>7
  <1>7. CASE ReadElm
    <2>1. RateTypes'
      BY <1>7 DEF ReadElm, Attempted, RateTypes, AttemptInv
    <2>2. FlagTypes'
      BY <1>7, Zenon DEF ReadElm, Attempted, FlagTypes
    <2>3. AttemptInv'
      BY <1>7 DEF ReadElm, Attempted, AttemptInv, RateTypes
    <2>4. AdapterInv'
      BY <1>7 DEF ReadElm, Attempted, AdapterInv, RateTypes, Rate
    <2>5. BackInv'
      BY <1>7 DEF ReadElm, Attempted, BackInv, RateTypes, AdapterInv
    <2>6. BestInv'
      BY <1>7 DEF ReadElm, Attempted, BestInv, RateTypes, AttemptInv, AdapterInv
    <2>7. ToldInv'
      BY <1>7 DEF ReadElm, Attempted, ToldInv, RateTypes, AttemptInv, AdapterInv
    <2> QED
      BY <2>1, <2>2, <2>3, <2>4, <2>5, <2>6, <2>7
  <1>8. CASE MissElm
    <2>0. ~blind' => ~blind /\ Modified(previousrate) = oldrate
      BY <1>8, Zenon DEF MissElm, Fail
    <2>1. RateTypes'
      BY <1>8 DEF MissElm, Attempted, Fail, Modified, previousrate, RateTypes, AttemptInv
    <2>2. FlagTypes'
      BY <1>8, Zenon DEF MissElm, Attempted, Fail, Modified, previousrate, FlagTypes
    <2>3. AttemptInv'
      BY <1>8 DEF MissElm, Attempted, Fail, Modified, previousrate, AttemptInv, RateTypes
    <2>4. AdapterInv'
      BY <1>8 DEF MissElm, Attempted, Fail, Modified, previousrate, AdapterInv, RateTypes, Rate
    <2>5. BackInv'
      BY <1>8, <2>0 DEF MissElm, Attempted, Fail, Modified, previousrate, BackInv, RateTypes, AdapterInv
    <2>6. BestInv'
      BY <1>8 DEF MissElm, Attempted, Fail, Modified, previousrate, BestInv, RateTypes, AttemptInv, AdapterInv
    <2>7. ToldInv'
      BY <1>8, <2>0 DEF MissElm, Attempted, Fail, Modified, previousrate, ToldInv, RateTypes, AttemptInv, AdapterInv
    <2> QED
      BY <2>1, <2>2, <2>3, <2>4, <2>5, <2>6, <2>7
  <1>9. CASE AnswerBrd
    <2>1. RateTypes'
      BY <1>9 DEF AnswerBrd, RateTypes, AttemptInv
    <2>2. FlagTypes'
      BY <1>9, Zenon DEF AnswerBrd, FlagTypes
    <2>3. AttemptInv'
      BY <1>9 DEF AnswerBrd, AttemptInv, RateTypes
    <2>4. AdapterInv'
      BY <1>9 DEF AnswerBrd, AdapterInv, RateTypes, Rate
    <2>5. BackInv'
      BY <1>9 DEF AnswerBrd, BackInv, RateTypes, AdapterInv
    <2>6. BestInv'
      BY <1>9 DEF AnswerBrd, BestInv, RateTypes, AttemptInv, AdapterInv
    <2>7. ToldInv'
      BY <1>9 DEF AnswerBrd, ToldInv, RateTypes, AttemptInv, AdapterInv
    <2> QED
      BY <2>1, <2>2, <2>3, <2>4, <2>5, <2>6, <2>7
  <1>10. CASE Garble
    <2>1. RateTypes'
      BY <1>10 DEF Garble, RateTypes, AttemptInv
    <2>2. FlagTypes'
      BY <1>10, Zenon DEF Garble, FlagTypes
    <2>3. AttemptInv'
      BY <1>10 DEF Garble, AttemptInv, RateTypes
    <2>4. AdapterInv'
      BY <1>10 DEF Garble, AdapterInv, RateTypes, Rate
    <2>5. BackInv'
      BY <1>10 DEF Garble, BackInv, RateTypes, AdapterInv
    <2>6. BestInv'
      BY <1>10 DEF Garble, BestInv, RateTypes, AttemptInv, AdapterInv
    <2>7. ToldInv'
      BY <1>10 DEF Garble, ToldInv, RateTypes, AttemptInv, AdapterInv
    <2> QED
      BY <2>1, <2>2, <2>3, <2>4, <2>5, <2>6, <2>7
  <1>11. CASE GoBack
    <2>1. RateTypes'
      BY <1>11 DEF GoBack, RateTypes, AttemptInv
    <2>2. FlagTypes'
      BY <1>11, Zenon DEF GoBack, FlagTypes
    <2>3. AttemptInv'
      BY <1>11 DEF GoBack, AttemptInv, RateTypes
    <2>4. AdapterInv'
      BY <1>11 DEF GoBack, AdapterInv, RateTypes, Rate
    <2>5. BackInv'
      BY <1>11 DEF GoBack, BackInv, RateTypes, AdapterInv
    <2>6. BestInv'
      BY <1>11 DEF GoBack, BestInv, RateTypes, AttemptInv, AdapterInv
    <2>7. ToldInv'
      BY <1>11 DEF GoBack, ToldInv, RateTypes, AttemptInv, AdapterInv
    <2> QED
      BY <2>1, <2>2, <2>3, <2>4, <2>5, <2>6, <2>7
  <1>12. CASE UNCHANGED baudVars
    BY <1>12 DEF baudVars, RateTypes, FlagTypes, AttemptInv, AdapterInv, BackInv, BestInv,
       ToldInv, Rate
  <1> QED
    BY <1>1, <1>2, <1>3, <1>4, <1>5, <1>6, <1>7, <1>8, <1>9, <1>10, <1>11, <1>12 DEF BaudNext, Opening, Adapter

LEMMA BaudAlways == BaudSpec => []BaudInv
  BY BaudInitially, BaudInductive, PTL DEF BaudSpec

\* Every variable has its type: the rate of the port is always one that
\* modifybaud() could set, whatever was asked for.
THEOREM BaudTypesHold == BaudSpec => []BaudTypeOK
  <1>1. BaudInv => BaudTypeOK
    BY DEF BaudInv
  <1> QED
    BY <1>1, BaudAlways, PTL

\* Whatever attempt_upgradebaudrate() tried, in which order and how it failed,
\* the port is at the adapter's rate when the adapter has gone back, if a failed
\* attempt put the port back to the rate it had and no "\r" came too late.
THEOREM PortFollowsHolds == BaudSpec => []PortFollowsAdapter
  <1>1. BaudInv => PortFollowsAdapter
    BY DEF BaudInv, BackInv, AdapterInv, PortFollowsAdapter, Between
  <1> QED
    BY <1>1, BaudAlways, PTL

\* The best rate that upgradebaudrate() ends with is one that both sides have.
THEOREM BestIsAgreedHolds == BaudSpec => []BestIsAgreed
  <1>1. BaudInv => BestIsAgreed
    BY DEF BaudInv, BestInv, AdapterInv, BestIsAgreed
  <1> QED
    BY <1>1, BaudAlways, PTL

\* With a rate that was told and a target that is one rate, a failed attempt
\* does put the port back to the rate it had.
THEOREM KnownRateHolds == BaudSpec => []KnownRateNeverBlind
  <1>1. BaudInv => KnownRateNeverBlind
    BY DEF BaudInv, ToldInv, AdapterInv, KnownRateNeverBlind
  <1> QED
    BY <1>1, BaudAlways, PTL

\* So the logger and the adapter do not lose each other in openserial(), but where
\* it sets back to a rate that it was not told, or sends the "\r" too late.
THEOREM RatesAgreeHolds == BaudSpec => []RatesAgree
  BY PortFollowsHolds, BestIsAgreedHolds, KnownRateHolds, PTL DEF RatesAgree

-----------------------------------------------------------------------------
(* FtdiPty: the file.  Whoever it names has created it, so that a bridge   *)
(* which has not cannot leave it behind.                                   *)

FileInv ==
  /\ created \subseteq Bridges /\ bridge \in [Bridges -> {"new", "pty", "chip", "leaving", "gone"}]
  /\ \A b \in created : bridge[b] # "new"
  /\ ptyfile # "none" => ptyfile \in created /\ (Alive(ptyfile) \/ ptyfile \in cut)

LEMMA FileInductive ==
  ASSUME FileInv, [BridgeNext]_bridgeVars PROVE FileInv'
  <1> USE BridgeAssumption DEF FileInv, Alive, Goes, fileVars, appVars, passVars
  <1>1. ASSUME NEW b \in Bridges, Launch(b) PROVE FileInv'
    BY <1>1 DEF Launch
  <1>2. ASSUME NEW b \in Bridges, IsKilled(b) PROVE FileInv'
    BY <1>2 DEF IsKilled
  <1>3. ASSUME NEW b \in Bridges, Fails(b) PROVE FileInv'
    BY <1>3 DEF Fails
  <1>4. ASSUME NEW b \in Bridges, Unlink(b) PROVE FileInv'
    BY <1>4 DEF Unlink
  <1>5. CASE MyLoop
    BY <1>5 DEF MyLoop, PtyToChip, ChipToPty
  <1>6. CASE AdapterReplies \/ Ask \/ Hear \/ GiveUp
    BY <1>6 DEF AdapterReplies, Ask, Hear, GiveUp
  <1>7. CASE UNCHANGED bridgeVars
    BY <1>7 DEF bridgeVars
  <1> QED
    BY <1>1, <1>2, <1>3, <1>4, <1>5, <1>6, <1>7 DEF BridgeNext

\* However many bridges write the file over each other and unlink it at exit
\* (ftdipty.c), it names one that runs or one that was killed.
THEOREM FileNamesABridgeHolds == BridgeSpec => []FileNamesABridge
  <1>1. BridgeInit => FileInv
    BY BridgeAssumption DEF BridgeInit, FileInv
  <1>2. FileInv => FileNamesABridge
    BY DEF FileInv, FileNamesABridge
  <1> QED
    BY <1>1, <1>2, FileInductive, PTL DEF BridgeSpec

-----------------------------------------------------------------------------
(* FtdiPty: the bytes.  As long as nobody gives up, there is one request   *)
(* or one reply under way, and the three places it is spread over follow   *)
(* each other.                                                             *)

LEMMA RequestAndReply ==
  /\ Request \in Seq(1..RequestSize) /\ Len(Request) = RequestSize
  /\ Reply \in Seq(1..ReplySize) /\ Len(Reply) = ReplySize
  /\ \A i \in 1..ReplySize : Reply[i] = i
  /\ RequestSize \in Nat \ {0} /\ ReplySize \in Nat \ {0} /\ PtySize \in Nat \ {0}
  /\ MaxAsked \in Nat
  BY BridgeAssumption DEF Request, Reply

GoesOn(s, h) == \A i \in 1 .. Len(s) : s[i] = h + i

\* Numbers that go on from h over two sequences, p and a, still do when some pass
\* from the front of a to the end of p ...
LEMMA Passed ==
  ASSUME NEW S, NEW p \in Seq(S), NEW a \in Seq(S), NEW h \in Nat, NEW n \in 1 .. Len(a),
         GoesOn(p, h), GoesOn(a, h + Len(p))
  PROVE  LET q == p \o SubSeq(a, 1, n)
             b == SubSeq(a, n + 1, Len(a))
         IN  /\ Len(q) = Len(p) + n /\ Len(b) = Len(a) - n
             /\ GoesOn(q, h) /\ GoesOn(b, h + Len(q))
  <1> DEFINE c == SubSeq(a, 1, n)
             b == SubSeq(a, n + 1, Len(a))
             q == p \o c
  <1>1. Len(p) \in Nat /\ Len(a) \in Nat /\ n \in 0 .. Len(a)
    BY LenProperties
  <1>2. /\ c \in Seq(S) /\ Len(c) = n /\ \A i \in 1 .. n : c[i] = a[i]
        /\ b \in Seq(S) /\ Len(b) = Len(a) - n /\ \A i \in 1 .. Len(a) - n : b[i] = a[n + i]
    BY <1>1, Halves
  <1> HIDE DEF c, b
  <1>4. /\ Len(q) = Len(p) + Len(c)
        /\ \A i \in 1 .. Len(p) + Len(c) : q[i] = IF i <= Len(p) THEN p[i] ELSE c[i - Len(p)]
    BY <1>2, ConcatProperties
  <1> HIDE DEF q
  <1>5. GoesOn(q, h)
    <2> SUFFICES ASSUME NEW i \in 1 .. Len(q) PROVE q[i] = h + i
      BY DEF GoesOn
    <2>0. /\ \A j \in 1 .. Len(p) : p[j] = h + j
          /\ \A j \in 1 .. Len(a) : a[j] = h + Len(p) + j
      BY DEF GoesOn
    <2>1. CASE i <= Len(p)
      <3>1. i \in 1 .. Len(p) /\ q[i] = p[i]
        BY <1>1, <1>2, <1>4, <2>1
      <3> QED
        BY <2>0, <3>1
    <2>2. CASE i > Len(p)
      <3>1. i - Len(p) \in 1 .. n /\ q[i] = c[i - Len(p)]
        BY <1>1, <1>2, <1>4, <2>2
      <3>2. c[i - Len(p)] = a[i - Len(p)] /\ a[i - Len(p)] = h + Len(p) + (i - Len(p))
        <4>1. i - Len(p) \in 1 .. Len(a)
          BY <1>1, <3>1
        <4> QED
          BY <1>2, <2>0, <3>1, <4>1
      <3>3. h + Len(p) + (i - Len(p)) = h + i
        BY <1>1, <1>2, <1>4
      <3> QED
        BY <3>1, <3>2, <3>3
    <2> QED
      BY <1>1, <1>4, <2>1, <2>2
  <1>6. GoesOn(b, h + Len(q))
    BY <1>1, <1>2, <1>4 DEF GoesOn
  <1> QED
    BY <1>2, <1>4, <1>5, <1>6 DEF q, c, b

\* ... or the first of p to the end of what is before it.
LEMMA Taken ==
  ASSUME NEW S, NEW r \in Seq(S), NEW p \in Seq(S), p # <<>>,
         GoesOn(r, 0), GoesOn(p, Len(r))
  PROVE  LET t == Append(r, Head(p))
         IN  /\ Len(t) = Len(r) + 1 /\ Len(Tail(p)) = Len(p) - 1 /\ Head(p) = Len(r) + 1
             /\ GoesOn(t, 0) /\ GoesOn(Tail(p), Len(t))
  <1> DEFINE t == Append(r, Head(p))
             q == Tail(p)
  <1>1. Len(r) \in Nat /\ Len(p) \in Nat \ {0} /\ Head(p) = p[1] /\ Head(p) \in S
    BY LenProperties, HeadTailProperties
  <1>2. /\ Len(t) = Len(r) + 1 /\ t[Len(r) + 1] = Head(p)
        /\ \A i \in 1 .. Len(r) : t[i] = r[i]
    BY <1>1
  <1>3. Len(q) = Len(p) - 1 /\ \A i \in 1 .. Len(q) : q[i] = p[i + 1]
    BY HeadTailProperties
  <1> HIDE DEF t, q
  <1>4. /\ Len(t) = Len(r) + 1 /\ Len(q) = Len(p) - 1 /\ Head(p) = Len(r) + 1
        /\ GoesOn(t, 0) /\ GoesOn(q, Len(t))
    BY <1>1, <1>2, <1>3 DEF GoesOn
  <1> QED
    BY <1>4 DEF t, q

LEMMA TakesFits ==
  ASSUME BridgeTypeOK, NEW n \in 1 .. Len(answered)
  PROVE  /\ Takes(n) \in 0 .. n /\ Takes(n) <= PtySize - Len(inpty)
         /\ Len(inpty) + n <= PtySize => Takes(n) = n
  BY RequestAndReply DEF BridgeTypeOK, Takes

OneUnderWay ==
  /\ towards = <<>> \/ arrived = <<>>
  /\ towards # <<>> \/ arrived # <<>> =>
       asking /\ Len(heard) = 0 /\ Len(inpty) = 0 /\ Len(answered) = 0
  /\ Len(inpty) + Len(answered) > 0 => asking
  /\ Len(heard) + Len(inpty) + Len(answered) <= ReplySize
  /\ GoesOn(heard, 0) /\ GoesOn(inpty, Len(heard)) /\ GoesOn(answered, Len(heard) + Len(inpty))

WholeInv == BridgeTypeOK /\ (ReplySize <= PtySize /\ ~hasty => OneUnderWay)

LEMMA BridgeTypesInductive ==
  ASSUME BridgeTypeOK, [BridgeNext]_bridgeVars PROVE BridgeTypeOK'
  <1> DEFINE S == 1..RequestSize
             P == 1..ReplySize
  <1>0. /\ towards \in Seq(S) /\ arrived \in Seq(S) /\ Request \in Seq(S)
        /\ answered \in Seq(P) /\ inpty \in Seq(P) /\ heard \in Seq(P) /\ Reply \in Seq(P)
        /\ Len(inpty) \in Nat /\ Len(inpty) <= PtySize /\ PtySize \in Nat
    BY RequestAndReply, LenProperties DEF BridgeTypeOK
  <1>1. ASSUME NEW b \in Bridges, Launch(b) \/ IsKilled(b) \/ Fails(b) \/ Unlink(b)
        PROVE  BridgeTypeOK'
    <2>1. /\ bridge' \in [Bridges -> {"new", "pty", "chip", "leaving", "gone"}]
          /\ ptyfile' \in Bridges \cup {"none"} /\ created' \subseteq Bridges
          /\ cut' \subseteq Bridges
      BY <1>1 DEF Launch, IsKilled, Fails, Unlink, BridgeTypeOK, Goes, fileVars
    <2>2. UNCHANGED <<appVars, passVars>>
      BY <1>1 DEF Launch, IsKilled, Fails, Unlink
    <2> QED
      BY <2>1, <2>2 DEF BridgeTypeOK, appVars, passVars
  <1>2. CASE PtyToChip
    <2> PICK k \in 0 .. Len(towards) : /\ arrived' = arrived \o SubSeq(towards, 1, k)
                                       /\ short' = (short \/ k < Len(towards))
      BY <1>2 DEF PtyToChip
    <2> HIDE DEF S, P
    <2>1. SubSeq(towards, 1, k) \in Seq(S)
      BY <1>0, Halves
    <2>2. arrived' \in Seq(S) /\ towards' \in Seq(S)
      BY <1>0, <1>2, <2>1, ConcatProperties DEF PtyToChip
    <2>3. /\ bridge' \in [Bridges -> {"new", "pty", "chip", "leaving", "gone"}]
          /\ short' \in BOOLEAN
      BY <1>2 DEF PtyToChip, Goes, BridgeTypeOK
    <2> QED
      BY <1>2, <2>2, <2>3 DEF PtyToChip, BridgeTypeOK, fileVars, appVars, S
  <1>3. CASE ChipToPty
    <2>0. /\ bridge' \in [Bridges -> {"new", "pty", "chip", "leaving", "gone"}]
          /\ short' \in BOOLEAN
      BY <1>3 DEF ChipToPty, Goes, BridgeTypeOK
    <2>1. CASE UNCHANGED <<inpty, answered>>
      BY <1>3, <2>0, <2>1 DEF ChipToPty, BridgeTypeOK, fileVars, appVars
    <2>2. ASSUME NEW n \in 1 .. Len(answered),
                 inpty' = inpty \o SubSeq(answered, 1, Takes(n)),
                 answered' = SubSeq(answered, n + 1, Len(answered))
          PROVE  BridgeTypeOK'
      <3> DEFINE moved == SubSeq(answered, 1, Takes(n))
      <3>0. Takes(n) \in 0 .. Len(answered) /\ n \in 0 .. Len(answered)
            /\ Takes(n) \in Nat /\ Takes(n) <= PtySize - Len(inpty)
        BY <1>0, TakesFits
      <3> HIDE DEF S, P
      <3>1. moved \in Seq(P) /\ Len(moved) = Takes(n)
        BY <1>0, <3>0, Halves
      <3>2. answered' \in Seq(P)
        BY <1>0, <2>2, <3>0, Halves
      <3>3. inpty' \in Seq(P) /\ Len(inpty') = Len(inpty) + Takes(n)
        <4> HIDE DEF moved
        <4>1. Len(inpty \o moved) = Len(inpty) + Len(moved) /\ inpty \o moved \in Seq(P)
          BY <1>0, <3>1, ConcatProperties
        <4> QED
          BY <2>2, <3>1, <4>1 DEF moved
      <3>4. Len(inpty') <= PtySize
        BY <1>0, <3>0, <3>3
      <3> QED
        BY <1>3, <2>0, <3>2, <3>3, <3>4 DEF ChipToPty, BridgeTypeOK, fileVars, appVars, P
    <2> QED
      BY <1>3, <2>1, <2>2 DEF ChipToPty
  <1>4. CASE AdapterReplies
    <2> HIDE DEF S, P
    <2>1. arrived' \in Seq(S) /\ answered' \in Seq(P)
      BY <1>0, <1>4, ConcatProperties DEF AdapterReplies
    <2> QED
      BY <1>4, <2>1 DEF AdapterReplies, BridgeTypeOK, fileVars, appVars, S, P
  <1>5. CASE Ask
    <2> HIDE DEF S, P
    <2>1. towards' \in Seq(S) /\ heard' \in Seq(P)
      BY <1>0, <1>5, ConcatProperties DEF Ask
    <2>2. requests' \in 0..MaxAsked
      BY <1>5, BridgeAssumption DEF Ask, BridgeTypeOK
    <2> QED
      BY <1>5, <2>1, <2>2 DEF Ask, BridgeTypeOK, fileVars, S, P
  <1>6. CASE Hear
    <2> HIDE DEF S, P
    <2>1. /\ Head(inpty) \in P /\ Tail(inpty) \in Seq(P)
          /\ Len(Tail(inpty)) = Len(inpty) - 1
      BY <1>0, <1>6, HeadTailProperties DEF Hear
    <2>2. heard' \in Seq(P)
      BY <1>0, <1>6, <2>1, AppendProperties DEF Hear
    <2>3. inpty' \in Seq(P) /\ Len(inpty') <= PtySize
      BY <1>0, <1>6, <2>1 DEF Hear
    <2>4. asking' \in BOOLEAN
      BY <1>6 DEF Hear
    <2> QED
      BY <1>6, <2>2, <2>3, <2>4 DEF Hear, BridgeTypeOK, fileVars, P
  <1>7. CASE GiveUp
    BY <1>7 DEF GiveUp, BridgeTypeOK, fileVars, passVars
  <1>8. CASE UNCHANGED bridgeVars
    BY <1>8 DEF bridgeVars, BridgeTypeOK, fileVars, appVars, passVars
  <1> QED
    BY <1>1, <1>2, <1>3, <1>4, <1>5, <1>6, <1>7, <1>8 DEF BridgeNext, MyLoop

LEMMA OneUnderWayInductive ==
  ASSUME BridgeTypeOK, OneUnderWay, ReplySize <= PtySize, ~hasty',
         [BridgeNext]_bridgeVars
  PROVE  OneUnderWay'
  <1>1. ASSUME NEW b \in Bridges, Launch(b) \/ IsKilled(b) \/ Fails(b) \/ Unlink(b)
        PROVE  OneUnderWay'
    BY <1>1 DEF Launch, IsKilled, Fails, Unlink, appVars, passVars, OneUnderWay
  <1>2. CASE PtyToChip
    <2>1. towards' = <<>> /\ (arrived' # <<>> => towards # <<>> \/ arrived # <<>>)
      BY <1>2 DEF PtyToChip, BridgeTypeOK
    <2> QED
      BY <1>2, <2>1 DEF PtyToChip, appVars, OneUnderWay
  <1>3. CASE ChipToPty
    <2>1. CASE UNCHANGED <<inpty, answered>>
      BY <1>3, <2>1 DEF ChipToPty, appVars, OneUnderWay
    <2>2. ASSUME NEW n \in 1 .. Len(answered),
                 inpty' = inpty \o SubSeq(answered, 1, Takes(n)),
                 answered' = SubSeq(answered, n + 1, Len(answered))
          PROVE  OneUnderWay'
      <3>1. Takes(n) = n
        <4>1. Len(heard) + Len(inpty) + Len(answered) <= ReplySize
          BY DEF OneUnderWay
        <4>2. Len(heard) \in Nat /\ Len(inpty) \in Nat /\ Len(answered) \in Nat
          BY DEF BridgeTypeOK
        <4> QED
          BY <4>1, <4>2, TakesFits, RequestAndReply
      <3>2. inpty' = inpty \o SubSeq(answered, 1, n)
        BY <2>2, <3>1
      <3>3. /\ Len(inpty') = Len(inpty) + n /\ Len(answered') = Len(answered) - n
            /\ GoesOn(inpty', Len(heard)) /\ GoesOn(answered', Len(heard) + Len(inpty'))
        <4> DEFINE B == 1..ReplySize
        <4>1. inpty \in Seq(B) /\ answered \in Seq(B) /\ Len(heard) \in Nat
          BY DEF BridgeTypeOK
        <4> HIDE DEF B
        <4>2. GoesOn(inpty, Len(heard)) /\ GoesOn(answered, Len(heard) + Len(inpty))
          BY DEF OneUnderWay
        <4>3. LET q == inpty \o SubSeq(answered, 1, n)
                  b == SubSeq(answered, n + 1, Len(answered))
              IN  /\ Len(q) = Len(inpty) + n /\ Len(b) = Len(answered) - n
                  /\ GoesOn(q, Len(heard)) /\ GoesOn(b, Len(heard) + Len(q))
          BY <4>1, <4>2, Passed
        <4> QED
          BY <2>2, <3>2, <4>3
      <3>4. UNCHANGED <<towards, arrived, heard, asking>>
        BY <1>3 DEF ChipToPty, appVars
      <3>5. /\ Len(heard) \in Nat /\ Len(inpty) \in Nat /\ Len(answered) \in Nat
            /\ Len(answered) > 0
        BY DEF BridgeTypeOK
      <3> QED
        BY <3>3, <3>4, <3>5 DEF OneUnderWay
    <2> QED
      BY <1>3, <2>1, <2>2 DEF ChipToPty
  <1>4. CASE AdapterReplies
    <2>1. arrived # <<>> /\ answered = <<>>
      BY <1>4 DEF AdapterReplies, OneUnderWay, BridgeTypeOK
    <2>2. answered' = Reply /\ arrived' = <<>> /\ UNCHANGED <<towards, heard, inpty, asking>>
      BY <1>4, <2>1, RequestAndReply, ConcatEmptySeq DEF AdapterReplies, appVars
    <2>3. asking /\ Len(heard) = 0 /\ Len(inpty) = 0 /\ towards = <<>>
      BY <2>1 DEF OneUnderWay
    <2> QED
      BY <2>2, <2>3, RequestAndReply DEF OneUnderWay, GoesOn
  <1>5. CASE Ask
    <2>1. Len(inpty) = 0 /\ Len(answered) = 0 /\ arrived = <<>>
      BY <1>5 DEF Ask, OneUnderWay, BridgeTypeOK
    <2> QED
      BY <1>5, <2>1, RequestAndReply DEF Ask, OneUnderWay, GoesOn
  <1>6. CASE Hear
    <2>0. /\ Len(heard) \in Nat /\ Len(inpty) \in Nat \ {0} /\ Len(answered) \in Nat
          /\ inpty # <<>>
      BY <1>6 DEF Hear, BridgeTypeOK
    <2>1. /\ Len(heard') = Len(heard) + 1 /\ Len(inpty') = Len(inpty) - 1
          /\ Head(inpty) = Len(heard) + 1
          /\ GoesOn(heard', 0) /\ GoesOn(inpty', Len(heard'))
      <3> DEFINE B == 1..ReplySize
      <3>1. heard \in Seq(B) /\ inpty \in Seq(B)
        BY DEF BridgeTypeOK
      <3> HIDE DEF B
      <3>2. heard' = Append(heard, Head(inpty)) /\ inpty' = Tail(inpty)
        BY <1>6 DEF Hear
      <3>3. GoesOn(heard, 0) /\ GoesOn(inpty, Len(heard))
        BY DEF OneUnderWay
      <3>4. LET t == Append(heard, Head(inpty))
            IN  /\ Len(t) = Len(heard) + 1 /\ Len(Tail(inpty)) = Len(inpty) - 1
                /\ Head(inpty) = Len(heard) + 1
                /\ GoesOn(t, 0) /\ GoesOn(Tail(inpty), Len(t))
        BY <2>0, <3>1, <3>3, Taken
      <3> QED
        BY <3>2, <3>4
    <2>2. UNCHANGED <<towards, arrived, answered>> /\ towards = <<>> /\ arrived = <<>>
      BY <1>6, <2>0 DEF Hear, OneUnderWay
    <2>3. Len(inpty') + Len(answered') > 0 => asking'
      <3>1. Len(inpty') + Len(answered') > 0 => Head(inpty) # ReplySize
        BY <2>0, <2>1, <2>2, RequestAndReply DEF OneUnderWay
      <3> QED
        BY <1>6, <3>1 DEF Hear
    <2> QED
      BY <2>0, <2>1, <2>2, <2>3 DEF OneUnderWay
  <1>7. CASE GiveUp
    BY <1>7 DEF GiveUp
  <1>8. CASE UNCHANGED bridgeVars
    BY <1>8 DEF bridgeVars, appVars, passVars, OneUnderWay
  <1> QED
    BY <1>1, <1>2, <1>3, <1>4, <1>5, <1>6, <1>7, <1>8 DEF BridgeNext, MyLoop

LEMMA HastyStays == BridgeTypeOK /\ [BridgeNext]_bridgeVars /\ ~hasty' => ~hasty
  BY DEF BridgeNext, Launch, IsKilled, Fails, Unlink, MyLoop, PtyToChip, ChipToPty, AdapterReplies,
     Ask, Hear, GiveUp, bridgeVars, appVars, passVars, BridgeTypeOK

LEMMA WholeInitially == BridgeInit => WholeInv
  <1>1. BridgeInit => BridgeTypeOK
    <2>1. /\ <<>> \in Seq(1..RequestSize) /\ <<>> \in Seq(1..ReplySize)
          /\ Len(<<>>) = 0 /\ 0 \in 0..MaxAsked /\ 0 <= PtySize
      BY RequestAndReply
    <2>2. BridgeInit =>
            /\ bridge \in [Bridges -> {"new", "pty", "chip", "leaving", "gone"}]
            /\ ptyfile \in Bridges \cup {"none"} /\ created \subseteq Bridges /\ cut \subseteq Bridges
      BY DEF BridgeInit
    <2>3. BridgeInit => asking \in BOOLEAN /\ short \in BOOLEAN /\ hasty \in BOOLEAN
      BY DEF BridgeInit
    <2> QED
      BY <2>1, <2>2, <2>3 DEF BridgeInit, BridgeTypeOK
  <1>2. BridgeInit => OneUnderWay
    BY RequestAndReply DEF BridgeInit, OneUnderWay, GoesOn
  <1> QED
    BY <1>1, <1>2 DEF WholeInv

LEMMA WholeKeeps == WholeInv /\ [BridgeNext]_bridgeVars => WholeInv'
  BY BridgeTypesInductive, OneUnderWayInductive, HastyStays DEF WholeInv

LEMMA WholeAlways == BridgeSpec => []WholeInv
  BY WholeInitially, WholeKeeps, PTL DEF BridgeSpec

\* Every variable has its type; the pty never holds more than it can.
THEOREM BridgeTypesHold == BridgeSpec => []BridgeTypeOK
  <1>1. WholeInv => BridgeTypeOK
    BY DEF WholeInv
  <1> QED
    BY <1>1, WholeAlways, PTL

\* However a reply is cut into reads and writes (ftdipty.c, the loop), and though
\* a short write to the pty is not repeated, a reply that fits the pty comes
\* whole to an application that waits for its end.
THEOREM RepliesComeWholeHolds == BridgeSpec => []RepliesComeWhole
  <1>1. WholeInv => RepliesComeWhole
    <2> SUFFICES ASSUME BridgeTypeOK, OneUnderWay PROVE RepliesComeWhole
      BY DEF WholeInv, RepliesComeWhole
    <2> DEFINE s == heard \o inpty \o answered
    <2>1. s \in Seq(1..ReplySize) /\ Len(s) = Len(heard) + Len(inpty) + Len(answered)
      BY ConcatProperties DEF BridgeTypeOK
    <2>2. \A i \in 1 .. Len(s) : s[i] = i
      <3> DEFINE front == heard \o inpty
      <3>1. /\ front \in Seq(1..ReplySize) /\ Len(front) = Len(heard) + Len(inpty)
            /\ \A i \in 1 .. Len(heard) + Len(inpty) :
                 front[i] = IF i <= Len(heard) THEN heard[i] ELSE inpty[i - Len(heard)]
        BY ConcatProperties DEF BridgeTypeOK
      <3>2. \A i \in 1 .. Len(front) + Len(answered) :
              s[i] = IF i <= Len(front) THEN front[i] ELSE answered[i - Len(front)]
        BY <3>1, ConcatProperties DEF BridgeTypeOK
      <3>3. Len(heard) \in Nat /\ Len(inpty) \in Nat /\ Len(answered) \in Nat
        BY DEF BridgeTypeOK
      <3>4. \A i \in 1 .. Len(front) : front[i] = i
        BY <3>1, <3>3 DEF OneUnderWay, GoesOn
      <3>5. \A i \in 1 .. Len(answered) : answered[i] = Len(front) + i
        BY <3>1 DEF OneUnderWay, GoesOn
      <3>6. Len(front) \in Nat /\ Len(s) = Len(front) + Len(answered)
        BY <2>1, <3>1, <3>3
      <3> HIDE DEF front, s
      <3> SUFFICES ASSUME NEW i \in 1 .. Len(s) PROVE s[i] = i
        OBVIOUS
      <3>7. CASE i <= Len(front)
        BY <3>2, <3>3, <3>4, <3>6, <3>7
      <3>8. CASE i > Len(front)
        <4>1. s[i] = answered[i - Len(front)] /\ i - Len(front) \in 1 .. Len(answered)
          BY <3>2, <3>3, <3>6, <3>8
        <4> QED
          BY <3>5, <3>6, <4>1
      <3> QED
        BY <3>6, <3>7, <3>8
    <2> QED
      BY <2>1, <2>2 DEF RepliesComeWhole
  <1> QED
    BY <1>1, WholeAlways, PTL

-----------------------------------------------------------------------------
(* Converters.  The log is well formed at every commit, and there is none  *)
(* while rows are read.                                                    *)

LogInv ==
  /\ trips \in Seq([start : Times, end : Times]) /\ obd \subseteq Rows /\ gps \subseteq Rows
  /\ WellFormed(trips, obd, gps)
  /\ conv \in {"idle", "rows", "max", "draw", "done"}

\* What csv has written is of the log as it still is, and all of it.
CsvInv ==
  /\ lines # {} \/ (tool = "csv" /\ conv # "idle") => tool = "csv" /\ conv \in {"rows", "done"}
  /\ tool = "csv" => rest \subseteq obd
  /\ \A l \in lines : l.row \in obd /\ l \in Lines(l.row)
  /\ tool = "csv" /\ ~refused /\ conv # "idle" =>
       \A r \in obd : r \in rest \/ \E l \in lines : l.row = r
  /\ tool = "csv" /\ ~refused /\ conv = "done" => rest = {}

\* The maximum is the one of the trip that is drawn next, and every graph was
\* right when it was drawn.
GraphOK(g) ==
  /\ Folders[g.folder] # "justgps" => g.points \subseteq {r.time : r \in g.maxof}
  /\ Reliable(g.start) => \A x \in g.points : g.start <= x /\ x <= g.end

KmlInv ==
  /\ ahead \subseteq DOMAIN trips
  /\ conv = "draw" /\ Folders[folder] # "justgps" => \A k \in ahead : IsNext(k) => maxof = ObdOf(k)
  /\ \A g \in graphs : GraphOK(g)

ConvInv == LogInv /\ CsvInv /\ KmlInv

LEMMA TripTimes ==
  ASSUME LogInv, NEW k \in DOMAIN trips
  PROVE  trips[k].start \in Times /\ trips[k].end \in Times
         /\ trips[k].start \in Int /\ trips[k].end \in Int
  <1> DEFINE Trips == [start : Times, end : Times]
  <1>1. trips \in Seq(Trips)
    BY DEF LogInv
  <1>2. trips[k] \in Trips
    <2> HIDE DEF Trips
    <2> QED
      BY <1>1, LenProperties
  <1> QED
    BY <1>2, ConvAssumption

LEMMA ConvInitially == ConvInit => ConvInv
  BY LogAssumption DEF ConvInit, ConvInv, LogInv, CsvInv, KmlInv

\* A commit: types, and nobody reads.
LEMMA CommitKeeps ==
  ASSUME ConvInv, Commit PROVE ConvInv'
  <1> USE DEF ConvInv
  <1>1. trips' \in Seq([start : Times, end : Times])
    <2> DEFINE Trips == [start : Times, end : Times]
    <2>1. trips \in Seq(Trips) /\ TripsLonger
      BY DEF Commit, LogInv
    <2>2. ASSUME NEW i \in DOMAIN trips, NEW x \in Times, trips' = [trips EXCEPT ![i].end = x]
          PROVE  trips' \in Seq(Trips)
      <3>1. [trips[i] EXCEPT !.end = x] \in Trips
        <4>1. trips[i] \in Trips
          <5> HIDE DEF Trips
          <5> QED
            BY <2>1, LenProperties
        <4> QED
          BY <4>1
      <3>2. trips' = [trips EXCEPT ![i] = [trips[i] EXCEPT !.end = x]]
        BY <2>2
      <3> HIDE DEF Trips
      <3> QED
        BY <2>1, <3>1, <3>2
    <2>3. ASSUME NEW x \in Times, NEW y \in Times, trips' = Append(trips, [start |-> x, end |-> y])
          PROVE  trips' \in Seq(Trips)
      <3>1. [start |-> x, end |-> y] \in Trips
        OBVIOUS
      <3> HIDE DEF Trips
      <3> QED
        BY <2>1, <2>3, <3>1
    <2> HIDE DEF Trips
    <2>4. trips' \in Seq(Trips)
      BY <2>1, <2>2, <2>3 DEF TripsLonger
    <2> QED
      BY <2>4 DEF Trips
  <1>2. obd' \subseteq Rows /\ gps' \subseteq Rows
    BY ConvAssumption DEF Commit, OneMoreRow, Rows, LogInv
  <1>3. WellFormed(trips', obd', gps') /\ conv' = conv
    BY DEF Commit, Publish, convVars
  <1>4. LogInv'
    BY <1>1, <1>2, <1>3 DEF LogInv, WellFormed, TripsInOrder, ObdWithinTrips, GpsAfterStarts,
       StartsBy, Reliable
  <1>5. conv = "idle" /\ UNCHANGED <<tool, conv, rest, ahead, lines, graphs, maxof, refused>>
    BY DEF Commit, Active, LogInv, convVars, outVars
  <1>6. obd \subseteq obd' /\ DOMAIN trips \subseteq DOMAIN trips'
    BY <1>1 DEF Commit, Publish, ObdGrows, TripsGrow, LogInv
  <1>7. CsvInv'
    <2>1. lines = {}
      BY <1>5 DEF CsvInv
    <2> QED
      BY <1>5, <1>6, <2>1 DEF CsvInv
  <1>8. KmlInv'
    BY <1>5, <1>6 DEF KmlInv, GraphOK, Reliable
  <1> QED
    BY <1>4, <1>7, <1>8

\* A reader leaves the log alone.
LEMMA ReadersKeepLog ==
  ASSUME ConvInv, Convert PROVE LogInv' /\ UNCHANGED jvars
  <1>1. UNCHANGED jvars
    BY DEF Convert, CsvStart, CsvRow, CsvEnd, GpxStart, GpxRow, GpxEnd, KmlFolder, KmlTrip,
       KmlMax, KmlDraw, KmlEnd
  <1>2. conv' \in {"idle", "rows", "max", "draw", "done"}
    BY DEF Convert, CsvStart, CsvRow, CsvEnd, GpxStart, GpxRow, GpxEnd, KmlFolder, KmlTrip,
       KmlMax, KmlDraw, KmlEnd, FirstStep, Refuse, NextFolder, GraphBegins, ConvInv, LogInv
  <1> QED
    BY <1>1, <1>2 DEF ConvInv, LogInv, jvars, WellFormed, TripsInOrder, ObdWithinTrips,
       GpsAfterStarts, StartsBy, Reliable

LEMMA CsvKeeps ==
  ASSUME ConvInv, Convert PROVE CsvInv'
  <1>0. UNCHANGED <<trips, obd>>
    BY ReadersKeepLog DEF jvars
  <1> USE <1>0 DEF ConvInv
  <1>1. CASE CsvStart
    BY <1>1 DEF CsvStart, FirstStep, Refuse, outVars, CsvInv
  <1>2. CASE CsvRow
    <2> PICK r \in rest : lines' = lines \cup Lines(r) /\ rest' = rest \ {r}
      BY <1>2 DEF CsvRow
    <2>1. r \in obd /\ tool = "csv" /\ conv = "rows" /\ UNCHANGED <<tool, conv, refused>>
      BY <1>2 DEF CsvRow, CsvInv
    <2>2. \A l \in Lines(r) : l.row = r
      BY DEF Lines
    <2>3. \E l \in Lines(r) : l.row = r
      <3>1. PICK i \in IF Joined(r) = {} THEN {Unfiled} ELSE Joined(r) : TRUE
        OBVIOUS
      <3>2. [row |-> r, trip |-> i] \in Lines(r)
        BY <3>1 DEF Lines
      <3> QED
        BY <3>2
    <2>4. \A l \in lines' : l.row \in obd /\ l \in Lines(l.row)
      BY <2>1, <2>2 DEF CsvInv
    <2>5. \A l \in lines' : l.row \in obd' /\ l \in Lines(l.row)'
      BY <2>4 DEF Lines, Joined
    <2> QED
      BY <2>1, <2>3, <2>5 DEF CsvInv
  <1>3. CASE CsvEnd
    BY <1>3 DEF CsvEnd, outVars, CsvInv, Lines, Joined
  <1>4. CASE GpxStart \/ GpxRow \/ GpxEnd
    BY <1>4 DEF GpxStart, GpxRow, GpxEnd, FirstStep, Refuse, outVars, CsvInv
  <1>5. CASE KmlFolder \/ KmlTrip \/ KmlMax \/ KmlDraw \/ KmlEnd
    BY <1>5 DEF KmlFolder, KmlTrip, KmlMax, KmlDraw, KmlEnd, outVars, CsvInv
  <1> QED
    BY <1>1, <1>2, <1>3, <1>4, <1>5 DEF Convert

\* A graph is drawn from the rows the maximum was taken of.
LEMMA DrawnWell ==
  ASSUME ConvInv, conv = "draw", NEW k \in ahead, IsNext(k),
         NEW g, g = [folder |-> folder, trip |-> k, start |-> trips[k].start, end |-> trips[k].end,
                     points |-> Drawn(Folders[folder], k), maxof |-> maxof]
  PROVE  GraphOK(g)
  <1>1. /\ k \in DOMAIN trips /\ k \in Int
        /\ Folders[folder] # "justgps" => maxof = ObdOf(k)
    BY DEF ConvInv, KmlInv, LogInv
  <1>2. /\ g.folder = folder /\ g.start = trips[k].start /\ g.end = trips[k].end
        /\ g.points = Drawn(Folders[folder], k) /\ g.maxof = maxof
    OBVIOUS
  <1>3. CASE Folders[folder] = "justgps"
    <2>1. \A x \in g.points : g.start < x /\ x < g.end
      BY <1>2, <1>3 DEF Drawn
    <2>2. \A x \in g.points : x \in Int /\ g.start \in Int /\ g.end \in Int
      <3>1. trips[k].start \in Int /\ trips[k].end \in Int
        BY <1>1, TripTimes DEF ConvInv
      <3>2. \A x \in g.points : \E p \in gps : x = p.time
        BY <1>2, <1>3 DEF Drawn
      <3>3. \A p \in gps : p.time \in Int
        BY ConvAssumption DEF ConvInv, LogInv, Rows
      <3> QED
        BY <1>2, <3>1, <3>2, <3>3
    <2> QED
      BY <1>2, <1>3, <2>1, <2>2 DEF GraphOK
  <1>4. CASE Folders[folder] # "justgps"
    <2>1. \A x \in g.points : \E r \in ObdOf(k) : x = r.time
      BY <1>2, <1>4 DEF Drawn
    <2>2. \A r \in ObdOf(k) : r \in obd /\ r.trip = k
      BY DEF ObdOf
    <2>3. k # NoTrip
      BY <1>1, ConvAssumption DEF ConvInv, LogInv
    <2>4. \A r \in ObdOf(k) : (Reliable(trips[k].start) => trips[k].start <= r.time)
                               /\ r.time <= trips[k].end
      BY <2>2, <2>3 DEF ConvInv, LogInv, WellFormed, ObdWithinTrips, StartsBy
    <2> QED
      BY <1>1, <1>2, <2>1, <2>4 DEF GraphOK
  <1> QED
    BY <1>3, <1>4

LEMMA KmlKeeps ==
  ASSUME ConvInv, Convert PROVE KmlInv'
  <1>0. UNCHANGED <<trips, obd, gps>>
    BY ReadersKeepLog DEF jvars
  <1> USE <1>0 DEF ConvInv
  <1>1. CASE CsvStart \/ CsvRow \/ CsvEnd \/ GpxStart \/ GpxRow \/ GpxEnd
    BY <1>1 DEF CsvStart, CsvRow, CsvEnd, GpxStart, GpxRow, GpxEnd, FirstStep, Refuse, outVars,
       KmlInv, GraphOK, Reliable
  <1>2. CASE KmlFolder \/ KmlEnd
    BY <1>2 DEF KmlFolder, KmlEnd, NextFolder, outVars, KmlInv, GraphOK, Reliable
  <1>3. CASE KmlTrip
    <2>1. UNCHANGED <<graphs, folder, maxof>> /\ ahead' \subseteq DOMAIN trips
      BY <1>3 DEF KmlTrip, outVars, KmlInv
    <2>2. conv' = "draw" => Folders[folder] = "justgps"
      BY <1>3 DEF KmlTrip, GraphBegins
    <2> QED
      BY <2>1, <2>2 DEF KmlInv, GraphOK, Reliable
  <1>4. CASE KmlMax
    <2> PICK k \in ahead : IsNext(k) /\ maxof' = ObdOf(k)
      BY <1>4 DEF KmlMax
    <2>1. UNCHANGED <<ahead, graphs>>
      BY <1>4 DEF KmlMax, outVars
    <2>2. \A j \in ahead : IsNext(j) => j = k
      BY DEF IsNext, KmlInv, LogInv
    <2>3. \A j \in ahead' : IsNext(j)' => maxof' = ObdOf(j)'
      BY <2>1, <2>2 DEF IsNext, ObdOf
    <2> QED
      BY <2>1, <2>3 DEF KmlInv, GraphOK, Reliable
  <1>5. CASE KmlDraw
    <2> PICK k \in ahead :
          /\ IsNext(k)
          /\ graphs' = graphs \cup
               {[folder |-> folder, trip |-> k, start |-> trips[k].start, end |-> trips[k].end,
                 points |-> Drawn(Folders[folder], k), maxof |-> maxof]}
          /\ ahead' = ahead \ {k}
      BY <1>5 DEF KmlDraw
    <2>1. \A g \in graphs' : GraphOK(g)
      BY <1>5, DrawnWell DEF KmlDraw, KmlInv
    <2>2. conv' = "rows"
      BY <1>5 DEF KmlDraw
    <2> QED
      BY <2>1, <2>2 DEF KmlInv, GraphOK, Reliable
  <1> QED
    BY <1>1, <1>2, <1>3, <1>4, <1>5 DEF Convert

LEMMA ConvKeeps == ConvInv /\ [ConvNext]_allConvVars => ConvInv'
  <1> SUFFICES ASSUME ConvInv, [ConvNext]_allConvVars PROVE ConvInv'
    OBVIOUS
  <1>1. CASE Commit
    BY <1>1, CommitKeeps
  <1>2. CASE Convert
    BY <1>2, ReadersKeepLog, CsvKeeps, KmlKeeps DEF ConvInv
  <1>3. CASE UNCHANGED allConvVars
    BY <1>3 DEF allConvVars, jvars, convVars, outVars, ConvInv, LogInv, CsvInv, KmlInv,
       GraphOK, Reliable, Lines, Joined, IsNext, ObdOf, WellFormed, TripsInOrder,
       ObdWithinTrips, GpsAfterStarts, StartsBy
  <1> QED
    BY <1>1, <1>2, <1>3 DEF ConvNext

LEMMA ConvAlways == ConvSpec => []ConvInv
  BY ConvInitially, ConvKeeps, PTL DEF ConvSpec

\* Trips that follow each other without a gap never share the inside.
LEMMA JoinedOnce ==
  ASSUME LogInv, AllReliable, NEW r \in Rows, NEW i \in Joined(r), NEW j \in Joined(r)
  PROVE  i = j
  <1>1. /\ i \in DOMAIN trips /\ j \in DOMAIN trips /\ i \in Int /\ j \in Int
        /\ trips[i].start < r.time /\ r.time < trips[i].end
        /\ trips[j].start < r.time /\ r.time < trips[j].end
    BY DEF Joined, LogInv
  <1>2. /\ r.time \in Int /\ trips[i].start \in Int /\ trips[i].end \in Int
        /\ trips[j].start \in Int /\ trips[j].end \in Int
    BY <1>1, TripTimes, ConvAssumption DEF Rows
  <1>3. /\ i < j => trips[i].end <= trips[j].start
        /\ j < i => trips[j].end <= trips[i].start
    BY <1>1 DEF LogInv, WellFormed, TripsInOrder, AllReliable
  <1> QED
    BY <1>1, <1>2, <1>3

\* However trips and rows share their times, csv (obdgpscsv.c, the join) writes
\* a row once.
THEOREM CsvOneLineHolds == ConvSpec => []CsvOneLinePerRow
  <1>1. ConvInv => CsvOneLinePerRow
    <2> SUFFICES ASSUME ConvInv, AllReliable, NEW l \in lines, NEW m \in lines, l.row = m.row
                 PROVE  l = m
      BY DEF CsvOneLinePerRow
    <2>1. l \in Lines(l.row) /\ m \in Lines(l.row) /\ l.row \in Rows
      BY DEF ConvInv, CsvInv, LogInv
    <2> QED
      BY <2>1, JoinedOnce DEF Lines, ConvInv
  <1> QED
    BY <1>1, ConvAlways, PTL

\* The trip csv writes for a row is the one the logger filed the row under.
THEOREM CsvTripIsOwnHolds == ConvSpec => []CsvTripIsOwn
  <1>1. ConvInv => CsvTripIsOwn
    <2> SUFFICES ASSUME ConvInv, AllReliable, NEW l \in lines, l.trip # Unfiled,
                        l.row.trip # NoTrip
                 PROVE  l.row.trip = l.trip
      BY DEF CsvTripIsOwn
    <2> DEFINE k == l.row.trip
               i == l.trip
               x == l.row.time
    <2>1. l.row \in obd /\ l.row \in Rows /\ i \in Joined(l.row)
      <3>1. l.row \in obd /\ l \in Lines(l.row)
        BY DEF ConvInv, CsvInv
      <3>2. obd \subseteq Rows
        BY DEF ConvInv, LogInv
      <3> QED
        BY <3>1, <3>2 DEF Lines
    <2>2. i \in DOMAIN trips /\ trips[i].start < x /\ x < trips[i].end
      BY <2>1 DEF Joined
    <2>3. k \in DOMAIN trips /\ trips[k].start <= x /\ x <= trips[k].end
      BY <2>1 DEF ConvInv, LogInv, WellFormed, ObdWithinTrips, StartsBy, AllReliable
    <2>4. /\ x \in Int /\ i \in Int /\ k \in Int
          /\ trips[i].start \in Int /\ trips[i].end \in Int
          /\ trips[k].start \in Int /\ trips[k].end \in Int
      <3>1. x \in Int
        BY <2>1, ConvAssumption DEF Rows
      <3>2. i \in Int /\ k \in Int
        BY <2>2, <2>3 DEF ConvInv, LogInv
      <3> QED
        BY <2>2, <2>3, <3>1, <3>2, TripTimes DEF ConvInv
    <2>5. /\ i < k => trips[i].end <= trips[k].start
          /\ k < i => trips[k].end <= trips[i].start
      BY <2>2, <2>3 DEF ConvInv, LogInv, WellFormed, TripsInOrder, AllReliable
    <2> QED
      BY <2>2, <2>3, <2>4, <2>5
  <1> QED
    BY <1>1, ConvAlways, PTL

\* The outer joins lose no row.
THEOREM CsvCompleteHolds == ConvSpec => []CsvComplete
  <1>1. ConvInv => CsvComplete
    BY DEF ConvInv, CsvInv, CsvComplete
  <1> QED
    BY <1>1, ConvAlways, PTL

\* What csv writes of a log that is a journal is every row once, under its trip.
THEOREM CsvRightHolds == ConvSpec => []CsvRight
  BY CsvOneLineHolds, CsvTripIsOwnHolds, CsvCompleteHolds, PTL DEF CsvRight

\* No graph goes over the maximum that it was scaled by (singleheight.c,
\* heightandcolor.c), whatever is committed in the course of a conversion.
THEOREM KmlScaledHolds == ConvSpec => []KmlScaled
  <1>1. ConvInv => KmlScaled
    BY DEF ConvInv, KmlInv, GraphOK, KmlScaled
  <1> QED
    BY <1>1, ConvAlways, PTL

\* What is drawn of a trip is of its time.
THEOREM KmlWithinTripHolds == ConvSpec => []KmlWithinTrip
  <1>1. ConvInv => KmlWithinTrip
    BY DEF ConvInv, KmlInv, GraphOK, KmlWithinTrip
  <1> QED
    BY <1>1, ConvAlways, PTL

\* A graph of kml is of one trip as the log had it at one time.
THEOREM KmlRightHolds == ConvSpec => []KmlRight
  BY KmlScaledHolds, KmlWithinTripHolds, PTL DEF KmlRight

-----------------------------------------------------------------------------
(* gpx.  A track is written tag by tag: what the positions and the tags    *)
(* that are there already have, they keep.                                 *)

TagTypes == [tag : {"start", "end", "point"}, trip : Int, time : Int]

Starts(t) == {i \in DOMAIN t : t[i].tag = "start"}

\* A trip starts once, and trips start in their order.
StartsOnce(t, c) ==
  /\ \A i \in Starts(t) : -1 < t[i].trip /\ t[i].trip <= c
  /\ \A i, j \in Starts(t) : t[i].trip = t[j].trip => i = j

PointsOpened(t) ==
  \A p \in DOMAIN t : t[p].tag = "point" /\ t[p].trip # NoTrip =>
    \E s \in 1 .. p - 1 : /\ t[s].tag = "start" /\ t[s].trip = t[p].trip
                          /\ \A i \in s + 1 .. p : t[i].tag = "point"

EndsClose(t) ==
  \A i \in DOMAIN t : t[i].tag = "end" =>
    \E s \in 1 .. i - 1 : t[s].tag = "start" /\ \A j \in s + 1 .. i - 1 : t[j].tag = "point"

StartsParted(t) ==
  \A i, j \in Starts(t) : i < j => \E e \in i .. j : t[e].tag = "end"

Tidy(t, c) == StartsOnce(t, c) /\ PointsOpened(t) /\ EndsClose(t) /\ StartsParted(t)

\* The track of trip c is the last, and it has only positions so far.
IsOpen(t, c) ==
  c > -1 => \E s \in Starts(t) : t[s].trip = c /\ \A i \in s + 1 .. Len(t) : t[i].tag = "point"

\* One tag more.
LEMMA TagAdded ==
  ASSUME NEW t \in Seq(TagTypes), NEW x \in TagTypes
  PROVE  LET u == Append(t, x)  n == Len(t) IN
         /\ u \in Seq(TagTypes) /\ n \in Nat /\ Len(u) = n + 1
         /\ DOMAIN t = 1 .. n /\ DOMAIN u = 1 .. n + 1
         /\ \A i \in 1 .. n : u[i] = t[i] /\ t[i] \in TagTypes
         /\ u[n + 1] = x
  <1>1. /\ Append(t, x) \in Seq(TagTypes) /\ Len(Append(t, x)) = Len(t) + 1
        /\ \A i \in 1 .. Len(t) : Append(t, x)[i] = t[i]
        /\ Append(t, x)[Len(t) + 1] = x
    BY AppendProperties
  <1> QED
    BY <1>1, LenProperties, ElementOfSeq

\* What is there already keeps its place.
LEMMA AddKeeps ==
  ASSUME NEW t \in Seq(TagTypes), NEW x \in TagTypes
  PROVE  LET u == Append(t, x)  n == Len(t) IN
         /\ Starts(t) \subseteq 1 .. n
         /\ Starts(u) = Starts(t) \cup (IF x.tag = "start" THEN {n + 1} ELSE {})
         /\ PointsOpened(t) /\ x.tag # "point" => PointsOpened(u)
         /\ EndsClose(t) /\ x.tag # "end" => EndsClose(u)
         /\ StartsParted(t) /\ x.tag # "start" => StartsParted(u)
  <1> DEFINE u == Append(t, x)  n == Len(t)
  <1>1. /\ n \in Nat /\ DOMAIN t = 1 .. n /\ DOMAIN u = 1 .. n + 1
        /\ \A i \in 1 .. n : u[i] = t[i]
        /\ u[n + 1] = x
    BY TagAdded
  <1> HIDE DEF u, n
  <1>2. \A i \in 1 .. n + 1 : i \in 1 .. n \/ i = n + 1
    BY <1>1
  <1>3. \A i \in 1 .. n : i \in 1 .. n + 1
    BY <1>1
  <1>4. /\ Starts(t) \subseteq 1 .. n
        /\ Starts(u) = Starts(t) \cup (IF x.tag = "start" THEN {n + 1} ELSE {})
    BY <1>1, <1>2, <1>3 DEF Starts
  <1>5. ASSUME PointsOpened(t), x.tag # "point" PROVE PointsOpened(u)
    <2> SUFFICES ASSUME NEW p \in 1 .. n, u[p].tag = "point", u[p].trip # NoTrip
                 PROVE  \E s \in 1 .. p - 1 : /\ u[s].tag = "start" /\ u[s].trip = u[p].trip
                                              /\ \A i \in s + 1 .. p : u[i].tag = "point"
      BY <1>1, <1>2, <1>5 DEF PointsOpened
    <2>1. PICK s \in 1 .. p - 1 : /\ t[s].tag = "start" /\ t[s].trip = t[p].trip
                                  /\ \A i \in s + 1 .. p : t[i].tag = "point"
      BY <1>1, <1>5 DEF PointsOpened
    <2>2. s \in 1 .. n /\ \A i \in s + 1 .. p : i \in 1 .. n
      BY <1>1
    <2> QED
      BY <1>1, <2>1, <2>2
  <1>6. ASSUME EndsClose(t), x.tag # "end" PROVE EndsClose(u)
    <2> SUFFICES ASSUME NEW i \in 1 .. n, u[i].tag = "end"
                 PROVE  \E s \in 1 .. i - 1 :
                          u[s].tag = "start" /\ \A j \in s + 1 .. i - 1 : u[j].tag = "point"
      BY <1>1, <1>2, <1>6 DEF EndsClose
    <2>1. PICK s \in 1 .. i - 1 : t[s].tag = "start" /\ \A j \in s + 1 .. i - 1 : t[j].tag = "point"
      BY <1>1, <1>6 DEF EndsClose
    <2>2. s \in 1 .. n /\ \A j \in s + 1 .. i - 1 : j \in 1 .. n
      BY <1>1
    <2> QED
      BY <1>1, <2>1, <2>2
  <1>7. ASSUME StartsParted(t), x.tag # "start" PROVE StartsParted(u)
    <2> SUFFICES ASSUME NEW i \in Starts(t), NEW j \in Starts(t), i < j
                 PROVE  \E e \in i .. j : u[e].tag = "end"
      BY <1>4, <1>7 DEF StartsParted
    <2>1. PICK e \in i .. j : t[e].tag = "end"
      BY <1>7 DEF StartsParted
    <2>2. e \in 1 .. n
      BY <1>1, <1>4
    <2> QED
      BY <1>1, <2>1, <2>2
  <1> QED
    BY <1>4, <1>5, <1>6, <1>7 DEF u, n

\* The end of a trip.
LEMMA AddEnd ==
  ASSUME NEW t \in Seq(TagTypes), NEW c \in Int, StartsOnce(t, c), PointsOpened(t)
  PROVE  LET u == Append(t, EndTag) IN
         /\ u \in Seq(TagTypes) /\ u # <<>> /\ u[Len(u)].tag = "end"
         /\ StartsOnce(u, c) /\ PointsOpened(u)
         /\ c > -1 /\ IsOpen(t, c) /\ Tidy(t, c) => Tidy(u, c)
  <1> DEFINE x == EndTag  u == Append(t, x)  n == Len(t)
  <1>1. x \in TagTypes /\ x.tag = "end"
    BY ConvAssumption DEF EndTag, TagTypes
  <1> HIDE DEF x
  <1>2. /\ u \in Seq(TagTypes) /\ n \in Nat /\ Len(u) = n + 1
        /\ DOMAIN t = 1 .. n /\ DOMAIN u = 1 .. n + 1
        /\ \A i \in 1 .. n : u[i] = t[i]
        /\ u[n + 1] = x
    BY <1>1, TagAdded
  <1>3. /\ Starts(t) \subseteq 1 .. n /\ Starts(u) = Starts(t) /\ PointsOpened(u)
        /\ StartsParted(t) => StartsParted(u)
    BY <1>1, AddKeeps
  <1> HIDE DEF u, n
  <1>4. StartsOnce(u, c)
    BY <1>2, <1>3 DEF StartsOnce
  <1>5. ASSUME c > -1, IsOpen(t, c), EndsClose(t) PROVE EndsClose(u)
    <2> SUFFICES ASSUME NEW i \in 1 .. n + 1, u[i].tag = "end"
                 PROVE  \E s \in 1 .. i - 1 :
                          u[s].tag = "start" /\ \A j \in s + 1 .. i - 1 : u[j].tag = "point"
      BY <1>2 DEF EndsClose
    <2>1. CASE i = n + 1
      <3>1. PICK s \in Starts(t) : \A j \in s + 1 .. Len(t) : t[j].tag = "point"
        BY <1>5 DEF IsOpen
      <3>2. s \in 1 .. n /\ t[s].tag = "start" /\ \A j \in s + 1 .. n : j \in 1 .. n
        BY <1>2, <1>3 DEF Starts
      <3>3. i - 1 = n
        BY <1>2, <2>1
      <3> QED
        BY <1>2, <3>1, <3>2, <3>3 DEF n
    <2>2. CASE i # n + 1
      <3>1. i \in 1 .. n
        BY <1>2, <2>2
      <3>2. PICK s \in 1 .. i - 1 :
              t[s].tag = "start" /\ \A j \in s + 1 .. i - 1 : t[j].tag = "point"
        BY <1>2, <1>5, <3>1 DEF EndsClose
      <3>3. s \in 1 .. n /\ \A j \in s + 1 .. i - 1 : j \in 1 .. n
        BY <1>2, <3>1
      <3> QED
        BY <1>2, <3>2, <3>3
    <2> QED
      BY <2>1, <2>2
  <1>6. u # <<>> /\ u[Len(u)].tag = "end"
    BY <1>1, <1>2, EmptySeq
  <1> QED
    BY <1>2, <1>3, <1>4, <1>5, <1>6 DEF Tidy, u, x

\* The start of a later trip, after the end of the one before.
LEMMA AddStart ==
  ASSUME NEW t \in Seq(TagTypes), NEW c \in Int, NEW k \in Int, c >= -1, c < k, Tidy(t, c),
         c = -1 \/ (t # <<>> /\ t[Len(t)].tag = "end")
  PROVE  LET u == Append(t, StartTag(k)) IN
         u \in Seq(TagTypes) /\ Tidy(u, k) /\ IsOpen(u, k)
  <1> DEFINE x == StartTag(k)  u == Append(t, x)  n == Len(t)
  <1>1. x \in TagTypes /\ x.tag = "start" /\ x.trip = k
    BY DEF StartTag, TagTypes
  <1> HIDE DEF x
  <1>2. /\ u \in Seq(TagTypes) /\ n \in Nat /\ Len(u) = n + 1
        /\ DOMAIN t = 1 .. n /\ DOMAIN u = 1 .. n + 1
        /\ \A i \in 1 .. n : u[i] = t[i] /\ t[i] \in TagTypes
        /\ u[n + 1] = x
    BY <1>1, TagAdded
  <1>3. /\ Starts(t) \subseteq 1 .. n /\ Starts(u) = Starts(t) \cup {n + 1}
        /\ PointsOpened(u) /\ EndsClose(u)
    BY <1>1, AddKeeps DEF Tidy
  <1> HIDE DEF u
  <1>4. \A i \in Starts(t) : /\ u[i] = t[i] /\ i < n + 1 /\ i \in Int /\ t[i].trip \in Int
                             /\ -1 < t[i].trip /\ t[i].trip <= c
    <2> TAKE i \in Starts(t)
    <2>1. i \in 1 .. n /\ u[i] = t[i] /\ t[i].trip \in Int
      BY <1>2, <1>3 DEF TagTypes
    <2> QED
      BY <1>2, <2>1 DEF Tidy, StartsOnce
  <1>5. StartsOnce(u, k)
    <2>1. \A i \in Starts(u) : -1 < u[i].trip /\ u[i].trip <= k
      BY <1>1, <1>2, <1>3, <1>4
    <2>2. \A i \in Starts(t) : u[i].trip # k
      BY <1>4
    <2>3. ASSUME NEW i \in Starts(u), NEW j \in Starts(u), u[i].trip = u[j].trip PROVE i = j
      <3>1. CASE i \in Starts(t) /\ j \in Starts(t)
        BY <1>4, <2>3, <3>1 DEF Tidy, StartsOnce
      <3> QED
        BY <1>1, <1>2, <1>3, <2>2, <2>3, <3>1
    <2> QED
      BY <2>1, <2>3 DEF StartsOnce
  <1>6. StartsParted(u)
    <2> SUFFICES ASSUME NEW i \in Starts(u), NEW j \in Starts(u), i < j
                 PROVE  \E e \in i .. j : u[e].tag = "end"
      BY DEF StartsParted
    <2>1. i \in Starts(t)
      BY <1>2, <1>3, <1>4
    <2>2. CASE j \in Starts(t)
      <3>1. PICK e \in i .. j : t[e].tag = "end"
        BY <2>1, <2>2 DEF Tidy, StartsParted
      <3>2. e \in 1 .. n
        BY <1>2, <1>3, <2>1, <2>2
      <3> QED
        BY <1>2, <3>1, <3>2
    <2>3. CASE j = n + 1
      <3>1. c # -1
        BY <1>4, <2>1
      <3>2. t[n].tag = "end" /\ i \in 1 .. n
        BY <1>3, <2>1, <3>1
      <3>3. n \in 1 .. n /\ n \in i .. j
        BY <1>2, <2>3, <3>2
      <3> QED
        BY <1>2, <3>2, <3>3
    <2> QED
      BY <1>3, <2>2, <2>3
  <1>7. IsOpen(u, k)
    <2>1. n + 1 \in Starts(u) /\ u[n + 1].trip = k /\ \A i \in n + 1 + 1 .. Len(u) : FALSE
      BY <1>1, <1>2, <1>3
    <2> QED
      BY <2>1 DEF IsOpen
  <1> QED
    BY <1>2, <1>3, <1>5, <1>6, <1>7 DEF Tidy, u, x

\* A position of the trip whose track is open, or of none.
LEMMA AddPoint ==
  ASSUME NEW t \in Seq(TagTypes), NEW c \in Int, c >= -1, Tidy(t, c), IsOpen(t, c),
         NEW x \in TagTypes, x.tag = "point", x.trip = c
  PROVE  LET u == Append(t, x) IN
         u \in Seq(TagTypes) /\ Tidy(u, c) /\ IsOpen(u, c)
  <1> DEFINE u == Append(t, x)  n == Len(t)
  <1>2. /\ u \in Seq(TagTypes) /\ n \in Nat /\ Len(u) = n + 1
        /\ DOMAIN t = 1 .. n /\ DOMAIN u = 1 .. n + 1
        /\ \A i \in 1 .. n : u[i] = t[i]
        /\ u[n + 1] = x
    BY TagAdded
  <1>3. /\ Starts(t) \subseteq 1 .. n /\ Starts(u) = Starts(t)
        /\ EndsClose(u) /\ StartsParted(u)
    BY AddKeeps DEF Tidy
  <1> HIDE DEF u
  <1>4. StartsOnce(u, c)
    BY <1>2, <1>3 DEF Tidy, StartsOnce
  <1>5. ASSUME c > -1
        PROVE  \E s \in Starts(u) : /\ s \in 1 .. n /\ u[s].tag = "start" /\ u[s].trip = c
                                    /\ \A i \in s + 1 .. n + 1 : u[i].tag = "point"
    <2>1. PICK s \in Starts(t) : t[s].trip = c /\ \A i \in s + 1 .. n : t[i].tag = "point"
      BY <1>5 DEF IsOpen
    <2>2. s \in 1 .. n /\ t[s].tag = "start"
      BY <1>2, <1>3 DEF Starts
    <2>3. ASSUME NEW i \in s + 1 .. n + 1 PROVE u[i].tag = "point"
      <3>1. i = n + 1 \/ (i \in 1 .. n /\ i \in s + 1 .. n)
        BY <1>2, <2>2
      <3> QED
        BY <1>2, <2>1, <3>1
    <2> QED
      BY <1>2, <1>3, <2>1, <2>2, <2>3
  <1>6. IsOpen(u, c)
    BY <1>2, <1>5 DEF IsOpen
  <1>7. PointsOpened(u)
    <2> SUFFICES ASSUME NEW p \in 1 .. n + 1, u[p].tag = "point", u[p].trip # NoTrip
                 PROVE  \E s \in 1 .. p - 1 : /\ u[s].tag = "start" /\ u[s].trip = u[p].trip
                                              /\ \A i \in s + 1 .. p : u[i].tag = "point"
      BY <1>2 DEF PointsOpened
    <2>1. CASE p = n + 1
      <3>1. c > -1 /\ u[p].trip = c /\ p - 1 = n
        BY <1>2, <2>1, ConvAssumption
      <3> QED
        BY <1>5, <2>1, <3>1
    <2>2. CASE p # n + 1
      <3>1. p \in 1 .. n
        BY <1>2, <2>2
      <3>2. PICK s \in 1 .. p - 1 : /\ t[s].tag = "start" /\ t[s].trip = t[p].trip
                                    /\ \A i \in s + 1 .. p : t[i].tag = "point"
        BY <1>2, <3>1 DEF Tidy, PointsOpened
      <3>3. s \in 1 .. n /\ \A i \in s + 1 .. p : i \in 1 .. n
        BY <1>2, <3>1
      <3> QED
        BY <1>2, <3>1, <3>2, <3>3
    <2> QED
      BY <2>1, <2>2
  <1> QED
    BY <1>2, <1>3, <1>4, <1>6, <1>7 DEF Tidy, u

\* The rows still to come are not of an earlier trip, and the track of the one
\* before them is open.
GpxInv ==
  /\ track \in Seq(TagTypes) /\ currtrip \in Int /\ currtrip >= -1
  /\ tool # "gpx" \/ conv = "idle" => track = <<>> /\ currtrip = -1
  /\ tool = "gpx" => rest \subseteq gps
  /\ tool = "gpx" /\ conv = "rows" =>
       (\A r \in rest : currtrip <= r.trip) /\ IsOpen(track, currtrip)
  /\ StartsOnce(track, currtrip) /\ PointsOpened(track)
  /\ conv # "done" \/ currtrip > -1 => Tidy(track, currtrip)

\* The tags of one position, one behind the other.
LEMMA TagByTag ==
  ASSUME NEW t \in Seq(TagTypes), NEW a \in TagTypes, NEW b \in TagTypes, NEW x \in TagTypes
  PROVE  /\ t \o Append(<<>>, x) = Append(t, x)
         /\ t \o Append(<<a>>, x) = Append(Append(t, a), x)
         /\ t \o Append(<<a, b>>, x) = Append(Append(Append(t, a), b), x)
  <1>1. <<>> \in Seq(TagTypes) /\ <<a>> \in Seq(TagTypes) /\ <<a, b>> \in Seq(TagTypes)
    OBVIOUS
  <1>2. <<a>> = Append(<<>>, a) /\ <<a, b>> = Append(<<a>>, b)
    OBVIOUS
  <1>3. t \o <<>> = t
    BY ConcatEmptySeq
  <1>4. t \o <<a>> = Append(t, a)
    BY <1>1, <1>2, <1>3, AppendedBehind
  <1>5. t \o <<a, b>> = Append(Append(t, a), b)
    BY <1>1, <1>2, <1>4, AppendedBehind
  <1> QED
    BY <1>1, <1>3, <1>4, <1>5, AppendedBehind

\* A position with the tags before it.
LEMMA GpxRowKeeps ==
  ASSUME ConvInv, GpxInv, GpxRow
  PROVE  GpxInv'
  <1>1. PICK r \in rest :
          /\ \A s \in rest : Before(r, s)
          /\ track' = track \o Append(Tags(r), Point(r))
          /\ currtrip' = r.trip
          /\ rest' = rest \ {r}
    BY DEF GpxRow
  <1>2. /\ tool = "gpx" /\ conv = "rows" /\ tool' = tool /\ conv' = conv /\ gps' = gps
        /\ rest \subseteq gps /\ gps \subseteq Rows
    BY DEF GpxRow, jvars, GpxInv, ConvInv, LogInv
  <1>3. /\ r \in Rows /\ r.trip \in Int /\ r.time \in Int /\ currtrip <= r.trip
        /\ \A s \in rest' : r.trip <= s.trip
    <2>1. \A s \in rest : s \in Rows /\ s.trip \in Int /\ s.time \in Int
      BY <1>2, ConvAssumption DEF Rows
    <2>2. currtrip <= r.trip
      BY <1>2 DEF GpxInv
    <2> QED
      BY <1>1, <2>1, <2>2 DEF Before
  <1> DEFINE p == Point(r)  k == r.trip
  <1>4. p \in TagTypes /\ p.tag = "point" /\ p.trip = k
    BY <1>3 DEF Point, TagTypes
  <1>5. /\ track \in Seq(TagTypes) /\ currtrip \in Int /\ currtrip >= -1
        /\ Tidy(track, currtrip) /\ IsOpen(track, currtrip)
    BY <1>2 DEF GpxInv
  <1>6. EndTag \in TagTypes /\ StartTag(k) \in TagTypes
    BY <1>3, ConvAssumption DEF EndTag, StartTag, TagTypes
  <1>7. /\ track' \in Seq(TagTypes) /\ Tidy(track', k) /\ IsOpen(track', k)
    <2> HIDE DEF p
    <2>1. CASE currtrip = k
      <3>1. track' = Append(track, p)
        BY <1>1, <1>4, <1>5, <1>6, <2>1, TagByTag DEF Tags, p
      <3> QED
        BY <1>4, <1>5, <2>1, <3>1, AddPoint
    <2>2. CASE currtrip # k /\ currtrip > -1
      <3> DEFINE ended == Append(track, EndTag)  started == Append(ended, StartTag(k))
      <3>1. track' = Append(started, p)
        BY <1>1, <1>4, <1>5, <1>6, <2>2, TagByTag DEF Tags, p
      <3>2. /\ ended \in Seq(TagTypes) /\ ended # <<>> /\ ended[Len(ended)].tag = "end"
            /\ Tidy(ended, currtrip)
        BY <1>5, <2>2, AddEnd DEF Tidy
      <3> HIDE DEF ended
      <3>3. started \in Seq(TagTypes) /\ Tidy(started, k) /\ IsOpen(started, k) /\ k \in Int /\ k >= -1
        BY <1>3, <1>5, <2>2, <3>2, AddStart
      <3> HIDE DEF started
      <3> QED
        BY <1>4, <3>1, <3>3, AddPoint
    <2>3. CASE currtrip # k /\ ~(currtrip > -1)
      <3> DEFINE started == Append(track, StartTag(k))
      <3>1. track' = Append(started, p)
        BY <1>1, <1>4, <1>5, <1>6, <2>3, TagByTag DEF Tags, p
      <3>2. currtrip = -1 /\ currtrip < k
        BY <1>3, <1>5, <2>3
      <3>3. started \in Seq(TagTypes) /\ Tidy(started, k) /\ IsOpen(started, k) /\ k \in Int /\ k >= -1
        BY <1>3, <1>5, <3>2, AddStart
      <3> HIDE DEF started
      <3> QED
        BY <1>4, <3>1, <3>3, AddPoint
    <2> QED
      BY <2>1, <2>2, <2>3
  <1>8. currtrip' = k /\ k \in Int /\ k >= -1
    BY <1>1, <1>3, <1>5
  <1>9. Tidy(track', currtrip') /\ IsOpen(track', currtrip')
    BY <1>7, <1>8
  <1>10. Tidy(track, currtrip)'
    BY <1>9 DEF Tidy, StartsOnce, PointsOpened, EndsClose, StartsParted, Starts
  <1>11. IsOpen(track, currtrip)'
    BY <1>9 DEF IsOpen, Starts
  <1>12. StartsOnce(track, currtrip)' /\ PointsOpened(track)'
    BY <1>10 DEF Tidy
  <1>13. rest' \subseteq gps' /\ \A s \in rest' : currtrip' <= s.trip
    BY <1>1, <1>2, <1>3, <1>8
  <1> QED
    BY <1>2, <1>7, <1>8, <1>10, <1>11, <1>12, <1>13 DEF GpxInv

\* Nothing else touches the track but its start and its end.
LEMMA GpxKeeps ==
  ASSUME ConvInv, GpxInv, ConvNext
  PROVE  GpxInv'
  <1>1. ASSUME track' = track, currtrip' = currtrip, tool' = tool,
               tool = "gpx" => conv' = conv /\ rest' = rest /\ gps \subseteq gps'
        PROVE  GpxInv'
    <2>1. tool # "gpx" => Tidy(track, currtrip)
      BY DEF GpxInv, Tidy, StartsOnce, PointsOpened, EndsClose, StartsParted, Starts
    <2> QED
      BY <1>1, <2>1 DEF GpxInv, Tidy, StartsOnce, PointsOpened, EndsClose, StartsParted, IsOpen, Starts
  <1>2. CASE Commit
    <2>1. UNCHANGED convVars /\ gps \subseteq gps'
      BY <1>2 DEF Commit, Publish, GpsGrows
    <2> QED
      BY <1>1, <2>1 DEF convVars, outVars
  <1>3. CASE CsvStart \/ CsvRow \/ CsvEnd
    BY <1>1, <1>3 DEF CsvStart, CsvRow, CsvEnd, FirstStep, Refuse, outVars
  <1>4. CASE KmlFolder \/ KmlTrip \/ KmlMax \/ KmlDraw \/ KmlEnd
    BY <1>1, <1>4 DEF KmlFolder, KmlTrip, KmlMax, KmlDraw, KmlEnd, outVars
  <1>5. CASE GpxStart
    <2>1. /\ tool = "gpx" /\ conv = "idle" /\ conv' = "rows" /\ tool' = tool
          /\ track' = track /\ currtrip' = currtrip /\ rest' \in {gps, rest} /\ gps' = gps
      BY <1>5 DEF GpxStart, FirstStep, Refuse, outVars, jvars
    <2>2. track = <<>> /\ currtrip = -1 /\ rest' \subseteq gps
      BY <2>1 DEF GpxInv
    <2>3. ASSUME NEW r \in gps PROVE -1 <= r.trip
      <3>1. r.trip \in {NoTrip, Unfiled} \/ r.trip \in DOMAIN trips
        BY DEF ConvInv, LogInv, WellFormed, GpsAfterStarts
      <3>2. DOMAIN trips \subseteq Nat
        BY LenProperties DEF ConvInv, LogInv
      <3> QED
        BY <3>1, <3>2, ConvAssumption
    <2>4. Tidy(track, currtrip)
      BY <2>1 DEF GpxInv
    <2> QED
      BY <2>1, <2>2, <2>3, <2>4 DEF GpxInv, Tidy, StartsOnce, PointsOpened, EndsClose,
         StartsParted, IsOpen, Starts
  <1>6. CASE GpxRow
    BY <1>6, GpxRowKeeps
  <1>7. CASE GpxEnd
    <2>1. /\ tool = "gpx" /\ conv = "rows" /\ track' = Append(track, EndTag)
          /\ conv' = "done" /\ tool' = tool /\ currtrip' = currtrip /\ rest' = rest /\ gps' = gps
      BY <1>7 DEF GpxEnd, jvars
    <2> DEFINE ended == Append(track, EndTag)
    <2>2. /\ ended \in Seq(TagTypes) /\ StartsOnce(ended, currtrip) /\ PointsOpened(ended)
          /\ currtrip > -1 => Tidy(ended, currtrip)
      BY <2>1, AddEnd DEF GpxInv
    <2> HIDE DEF ended
    <2>3. track' = ended
      BY <2>1 DEF ended
    <2> QED
      BY <2>1, <2>2, <2>3 DEF GpxInv, Tidy, StartsOnce, PointsOpened, EndsClose, StartsParted,
         IsOpen, Starts
  <1> QED
    BY <1>2, <1>3, <1>4, <1>5, <1>6, <1>7 DEF ConvNext, Convert

LEMMA GpxInitially == ConvInit => GpxInv
  <1> SUFFICES ASSUME ConvInit PROVE GpxInv
    OBVIOUS
  <1>1. track = <<>> /\ currtrip = -1 /\ conv = "idle" /\ rest = {}
    BY DEF ConvInit
  <1>2. track \in Seq(TagTypes) /\ DOMAIN track = {}
    BY <1>1
  <1> QED
    BY <1>1, <1>2 DEF GpxInv, Tidy, StartsOnce, PointsOpened, EndsClose, StartsParted, Starts

LEMMA GpxStays == ConvInv /\ GpxInv /\ [ConvNext]_allConvVars => GpxInv'
  <1> SUFFICES ASSUME ConvInv, GpxInv, [ConvNext]_allConvVars PROVE GpxInv'
    OBVIOUS
  <1>1. CASE ConvNext
    BY <1>1, GpxKeeps
  <1>2. CASE UNCHANGED allConvVars
    BY <1>2 DEF allConvVars, jvars, convVars, outVars, GpxInv, Tidy, StartsOnce, PointsOpened,
       EndsClose, StartsParted, IsOpen, Starts
  <1> QED
    BY <1>1, <1>2

LEMMA GpxAlways == ConvSpec => [](ConvInv /\ GpxInv)
  BY GpxStays, ConvInitially, ConvKeeps, GpxInitially, PTL DEF ConvSpec

\* However positions of no trip or of an earlier one lie between the others, a
\* position is inside the one track of its trip (obd2gpx.c, the loop over the
\* rows), and the tags nest.
THEOREM GpxRightHolds == ConvSpec => []GpxRight
  <1>1. GpxInv => GpxTracks
    <2> SUFFICES ASSUME GpxInv PROVE GpxTracks
      OBVIOUS
    <2>1. ASSUME NEW p \in DOMAIN track, track[p].tag = "point", track[p].trip # NoTrip
          PROVE  \E s \in 1 .. p : Opens(s, p)
      <3>1. PICK s \in 1 .. p - 1 : /\ track[s].tag = "start" /\ track[s].trip = track[p].trip
                                    /\ \A i \in s + 1 .. p : track[i].tag = "point"
        BY <2>1 DEF GpxInv, PointsOpened
      <3>2. p \in Int
        BY LenProperties DEF GpxInv
      <3> QED
        BY <3>1, <3>2 DEF Opens
    <2>2. ASSUME NEW i \in DOMAIN track, NEW j \in DOMAIN track, track[i].tag = "start",
                 track[i] = track[j]
          PROVE  i = j
      BY <2>2 DEF GpxInv, StartsOnce, Starts
    <2> QED
      BY <2>1, <2>2 DEF GpxTracks
  <1>2. GpxInv => GpxNests
    <2> SUFFICES ASSUME GpxInv, currtrip > -1 PROVE GpxNests
      BY DEF GpxNests
    <2>1. EndsClose(track) /\ StartsParted(track)
      BY DEF GpxInv, Tidy
    <2> QED
      BY <2>1 DEF GpxNests, EndsClose, StartsParted, Starts
  <1> QED
    BY <1>1, <1>2, GpxAlways, PTL DEF GpxRight

-----------------------------------------------------------------------------
(* The types of the converters.                                            *)

ConvTypes ==
  /\ tool \in Tools /\ rest \subseteq Rows /\ maxof \subseteq Rows
  /\ folder \in 1 .. Len(Folders) + 1 /\ (conv # "done" => folder <= Len(Folders))
  /\ \A g \in graphs : g.folder \in DOMAIN Folders /\ g.trip \in DOMAIN trips
  /\ refused \in BOOLEAN /\ published \in 0 .. MaxPublish

LEMMA SevenFolders == Len(Folders) = 7 /\ DOMAIN Folders = 1 .. 7
  BY DEF Folders

LEMMA ConvTypesKeep ==
  ASSUME ConvInv, ConvTypes, ConvNext
  PROVE  ConvTypes'
  <1> USE SevenFolders
  <1>1. CASE Commit
    <2>1. UNCHANGED convVars /\ published' \in 0 .. MaxPublish
      BY <1>1, ConvAssumption DEF Commit, ConvTypes
    <2>2. DOMAIN trips \subseteq DOMAIN trips'
      <3> DEFINE E == [start : Times, end : Times]
      <3>1. trips \in Seq(E)
        BY DEF ConvInv, LogInv
      <3>2. CASE \E i \in DOMAIN trips, x \in Times : trips' = [trips EXCEPT ![i].end = x]
        BY <3>2
      <3>3. CASE \E s, x \in Times : trips' = Append(trips, [start |-> s, end |-> x])
        <4> PICK s \in Times, x \in Times : trips' = Append(trips, [start |-> s, end |-> x])
          BY <3>3
        <4>1. [start |-> s, end |-> x] \in E
          OBVIOUS
        <4> DEFINE y == [start |-> s, end |-> x]
        <4>2. y \in E /\ trips' = Append(trips, y)
          BY <4>1
        <4> HIDE DEF E, y
        <4>3. Append(trips, y) \in Seq(E) /\ Len(Append(trips, y)) = Len(trips) + 1
          BY <3>1, <4>2, AppendProperties
        <4> QED
          BY <3>1, <4>2, <4>3, LenProperties
      <3> QED
        BY <1>1, <3>2, <3>3 DEF Commit, TripsLonger
    <2> QED
      BY <2>1, <2>2 DEF ConvTypes, convVars, outVars
  <1>2. ASSUME Convert PROVE UNCHANGED jvars /\ obd \subseteq Rows /\ gps \subseteq Rows
    BY <1>2, ReadersKeepLog DEF ConvInv, LogInv
  <1>3. CASE CsvStart \/ CsvRow \/ CsvEnd \/ GpxStart \/ GpxRow \/ GpxEnd
    <2>1. UNCHANGED <<trips, tool, folder, graphs, published, maxof>> /\ rest' \subseteq Rows
          /\ refused' \in BOOLEAN
      BY <1>2, <1>3 DEF Convert, CsvStart, CsvRow, CsvEnd, GpxStart, GpxRow, GpxEnd, FirstStep,
         Refuse, outVars, jvars, ConvTypes
    <2>2. conv # "done"
      BY <1>3 DEF CsvStart, CsvRow, CsvEnd, GpxStart, GpxRow, GpxEnd
    <2> QED
      BY <2>1, <2>2 DEF ConvTypes
  <1>4. CASE KmlFolder \/ KmlEnd
    <2>1. /\ UNCHANGED <<trips, tool, graphs, published, maxof, rest>> /\ refused' \in BOOLEAN
          /\ conv # "done" /\ (NextFolder \/ (conv' = "rows" /\ folder' = folder))
      BY <1>2, <1>4 DEF Convert, KmlFolder, KmlEnd, outVars, jvars, ConvTypes
    <2>2. folder' \in 1 .. 8 /\ (conv' # "done" => folder' <= 7)
      BY <2>1 DEF ConvTypes, NextFolder
    <2> QED
      BY <2>1, <2>2 DEF ConvTypes
  <1>5. CASE KmlTrip \/ KmlMax \/ KmlDraw
    <2>1. UNCHANGED <<trips, tool, folder, published, rest, refused>> /\ conv # "done"
      BY <1>2, <1>5 DEF Convert, KmlTrip, KmlMax, KmlDraw, jvars
    <2>2. maxof' \subseteq Rows
      BY <1>2, <1>5 DEF Convert, KmlTrip, KmlMax, KmlDraw, ObdOf, ConvTypes
    <2>3. \A g \in graphs' : g.folder \in DOMAIN Folders /\ g.trip \in DOMAIN trips
      BY <2>1, <1>5 DEF KmlTrip, KmlMax, KmlDraw, outVars, ConvTypes, ConvInv, KmlInv
    <2> QED
      BY <2>1, <2>2, <2>3 DEF ConvTypes
  <1> QED
    BY <1>1, <1>3, <1>4, <1>5 DEF ConvNext, Convert

LEMMA ConvTypesInitially == ConvInit => ConvTypes
  <1> SUFFICES ASSUME ConvInit PROVE ConvTypes
    OBVIOUS
  <1>1. folder \in 1 .. Len(Folders) + 1 /\ folder <= Len(Folders)
    BY SevenFolders DEF ConvInit
  <1>2. published \in 0 .. MaxPublish
    BY ConvAssumption DEF ConvInit
  <1> QED
    BY <1>1, <1>2 DEF ConvInit, ConvTypes

LEMMA ConvTypesFollow == ConvInv /\ GpxInv /\ ConvTypes => ConvTypeOK
  <1> SUFFICES ASSUME ConvInv, GpxInv, ConvTypes PROVE ConvTypeOK
    OBVIOUS
  <1>1. ASSUME NEW l \in lines PROVE l \in [row : Rows, trip : Nat]
    <2>1. l.row \in Rows /\ l \in Lines(l.row)
      BY DEF ConvInv, CsvInv, LogInv
    <2>2. PICK i \in Joined(l.row) \cup {Unfiled} : l = [row |-> l.row, trip |-> i]
      BY <2>1 DEF Lines
    <2>3. Joined(l.row) \subseteq DOMAIN trips
      BY DEF Joined
    <2>4. DOMAIN trips \subseteq Nat
      BY LenProperties DEF ConvInv, LogInv
    <2> QED
      BY <2>1, <2>2, <2>3, <2>4, ConvAssumption
  <1> QED
    BY <1>1 DEF ConvTypeOK, ConvInv, LogInv, KmlInv, GpxInv, TagTypes, ConvTypes

LEMMA ConvTypesStay == ConvInv /\ ConvTypes /\ [ConvNext]_allConvVars => ConvTypes'
  <1> SUFFICES ASSUME ConvInv, ConvTypes, [ConvNext]_allConvVars PROVE ConvTypes'
    OBVIOUS
  <1>1. CASE ConvNext
    BY <1>1, ConvTypesKeep
  <1>2. CASE UNCHANGED allConvVars
    BY <1>2 DEF allConvVars, jvars, convVars, outVars, ConvTypes
  <1> QED
    BY <1>1, <1>2

\* The state of a conversion is of its type, all along.
THEOREM ConvTypesHold == ConvSpec => []ConvTypeOK
  <1>1. ConvSpec => []ConvTypes
    BY ConvTypesStay, ConvAlways, ConvTypesInitially, PTL DEF ConvSpec
  <1> QED
    BY <1>1, GpxAlways, ConvTypesFollow, PTL

-----------------------------------------------------------------------------
(* The parts side by side: a step of one of them is no step of the others, *)
(* and a part at rest is in a state in which it might be.                  *)

LEMMA EachStepsOrStays ==
  [PartsNext]_partsVars =>
    /\ [PortNext]_portVars /\ [BaudNext]_baudVars
    /\ [BridgeNext]_bridgeVars /\ [ConvNext]_allConvVars
  BY DEF PartsNext, OfPort, OfBaud, OfBridge, OfConv, partsVars

LEMMA PortMayRest == PortRests => ClientTypes /\ BufferTypes
  <1> SUFFICES ASSUME PortRests PROVE ClientTypes /\ BufferTypes
    OBVIOUS
  <1>1. ClientTypes
    <2>1. wire \in [Clients -> Seq(Bytes)] /\ backlog \in Seq(Clients)
      BY DEF PortRests
    <2>2. todo \in [Clients -> Seq({"char", "cr", "lf"})]
      BY DEF PortRests
    <2>3. asked \in [Clients -> Nat] /\ answers \in [Clients -> Nat] /\ strays \in Nat
      BY DEF PortRests
    <2>4. fd \in Clients \cup {NoClient} /\ towrite \in 0 .. Writes /\ burst \in Bursts
      BY PortAssumption, RestAssumption DEF PortRests
    <2> QED
      BY <2>1, <2>2, <2>3, <2>4 DEF PortRests, ClientTypes
  <1>2. BufferTypes
    BY EmptyBuffer DEF PortRests
  <1> QED
    BY <1>1, <1>2

LEMMA BaudMayRest == BaudRests => BaudInv
  <1> SUFFICES ASSUME BaudRests PROVE BaudInv
    OBVIOUS
  <1>0. trying = FALSE /\ agreed = FALSE /\ raced = FALSE /\ blind = FALSE
    BY DEF BaudRests
  <1> USE DEF NotYet, Between
  <1>1. 9600 \in PortRates /\ 9600 \in Rates /\ -1 \in Requests /\ -1 \in Targets
    BY RatesAndLists, RestAssumption
  <1>2. RateTypes
    <2>1. 1 \in 1 .. Len(Guesses) + Len(Speeds) + 2
      BY RatesAndLists
    <2> QED
      BY <1>1, <2>1 DEF BaudRests, RateTypes
  <1>3. FlagTypes
    BY <1>0, Zenon DEF FlagTypes
  <1>4. AttemptInv
    BY DEF BaudRests, AttemptInv
  <1>5. AdapterInv
    BY DEF BaudRests, AdapterInv
  <1>6. BackInv
    BY DEF BaudRests, BackInv
  <1>7. BestInv
    BY DEF BaudRests, BestInv
  <1>8. ToldInv
    BY DEF BaudRests, ToldInv
  <1> QED
    BY <1>2, <1>3, <1>4, <1>5, <1>6, <1>7, <1>8 DEF BaudInv, BaudTypeOK

LEMMA ConvMayRest == ConvRests => ConvInv /\ GpxInv /\ ConvTypes
  <1> SUFFICES ASSUME ConvRests PROVE ConvInv /\ GpxInv /\ ConvTypes
    OBVIOUS
  <1>1. ConvInv
    <2>1. LogInv
      BY DEF ConvRests, LogInv, WellFormed, TripsInOrder, ObdWithinTrips, GpsAfterStarts, StartsBy
    <2>2. CsvInv /\ KmlInv
      BY DEF ConvRests, CsvInv, KmlInv
    <2> QED
      BY <2>1, <2>2 DEF ConvInv
  <1>2. GpxInv
    <2>1. track = <<>> /\ currtrip = -1 /\ tool = "csv" /\ conv = "done"
      BY DEF ConvRests
    <2>2. track \in Seq(TagTypes) /\ DOMAIN track = {}
      BY <2>1
    <2> QED
      BY <2>1, <2>2 DEF GpxInv, Tidy, StartsOnce, PointsOpened, EndsClose, StartsParted, Starts
  <1>3. ConvTypes
    BY RestAssumption, ConvAssumption, SevenFolders DEF ConvRests, ConvTypes
  <1> QED
    BY <1>1, <1>2, <1>3

\* Whatever part works, it and those that rest have their types: the buffers of
\* readLine() and of the pty never hold more than they can, and the port of the
\* logger has only rates that modifybaud() can set.
THEOREM PartsTypesHold == PartsSpec => []PartsTypeOK
  <1> DEFINE PortPart   == ClientTypes /\ BufferTypes
             ConvPart   == ConvInv /\ GpxInv /\ ConvTypes
             EachInv    == PortPart /\ BaudInv /\ WholeInv /\ ConvPart
  <1>1. PartsInit => EachInv
    BY PortInitially, BaudInitially, WholeInitially, ConvInitially, GpxInitially, ConvTypesInitially,
       PortMayRest, BaudMayRest, ConvMayRest DEF PartsInit, BridgeRests
  <1>2. EachInv /\ [PartsNext]_partsVars => EachInv'
    BY EachStepsOrStays, PortKeeps, BaudInductive, WholeKeeps, ConvKeeps, GpxStays, ConvTypesStay
  <1>3. EachInv => PartsTypeOK
    BY PortTypesSplit, ConvTypesFollow DEF BaudInv, WholeInv, PartsTypeOK
  <1> QED
    BY <1>1, <1>2, <1>3, PTL DEF PartsSpec

=============================================================================
