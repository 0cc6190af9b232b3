------------------------------ MODULE FtdiPty ------------------------------
(***************************************************************************)
(* ftdipty: the bridge between an FTDI chip and a pty (ftdipty/ftdipty.c), *)
(* and the file by which it tells other programs the name of the pty.      *)
(*                                                                         *)
(* What passes through is followed for one bridge: an application asks     *)
(* over its pty and reads up to the prompt; the adapter behind the chip    *)
(* answers once the end of a request has come.  Bytes are numbered: a      *)
(* request is 1..RequestSize, a reply 1..ReplySize.  A read from the pty   *)
(* takes all there is: requests are far below the 4096 bytes of buf.       *)
(***************************************************************************)
EXTENDS Integers, Sequences

CONSTANTS
  Bridges,      \* the bridges that are started on this machine, each with a chip
  Mine,         \* the one whose pty the application uses
  RequestSize,
  ReplySize,
  PtySize,      \* bytes the pty holds for the application
  MaxAsked      \* bound: requests

ASSUME BridgeAssumption ==
  /\ Mine \in Bridges /\ "none" \notin Bridges
  /\ RequestSize \in Nat \ {0} /\ ReplySize \in Nat \ {0} /\ PtySize \in Nat \ {0}
  /\ MaxAsked \in Nat

Request == [i \in 1..RequestSize |-> i]
Reply   == [i \in 1..ReplySize |-> i]

VARIABLES
  bridge,   \* per bridge: "new", "pty" or "chip" (what it reads next), "leaving", "gone"
  ptyfile,  \* whose pty OBD_FTDIPTY_DEVICE names, or "none"
  created,  \* created_configfile
  cut,      \* history: bridges that were killed, or could not become a daemon
  towards,  \* what the application wrote and the bridge has not read
  arrived,  \* what came to the adapter since the last end of a request
  answered, \* what the chip has for the bridge
  inpty,    \* what the pty has for the application
  heard,    \* what the application has read of the reply it waits for
  asking,   \* it waits for one
  requests, \* how many it has made
  short,    \* history: the chip took less than it was given
  hasty     \* history: the application gave up waiting

fileVars   == <<ptyfile, created, cut>>
appVars    == <<heard, asking, requests, hasty>>
passVars   == <<towards, arrived, answered, inpty, short>>
bridgeVars == <<bridge, fileVars, appVars, passVars>>

BridgeInit ==
  /\ bridge = [b \in Bridges |-> "new"]
  /\ ptyfile = "none" /\ created = {} /\ cut = {}
  /\ towards = <<>> /\ arrived = <<>> /\ answered = <<>> /\ inpty = <<>>
  /\ heard = <<>> /\ asking = FALSE /\ requests = 0
  /\ short = FALSE /\ hasty = FALSE

Alive(b) == bridge[b] \in {"pty", "chip", "leaving"}
Goes(b, to) == bridge' = [bridge EXCEPT ![b] = to]

-----------------------------------------------------------------------------
(* The life of a bridge. *)

\* main() up to the loop, with or without -c; becoming a daemon may fail.
Launch(b) ==
  /\ bridge[b] = "new"
  /\ \/ ptyfile' = b /\ created' = created \cup {b}
     \/ UNCHANGED <<ptyfile, created>>
  /\ \/ Goes(b, "pty") /\ UNCHANGED cut
     \/ Goes(b, "gone") /\ cut' = cut \cup {b}
  /\ UNCHANGED <<appVars, passVars>>

\* There is no signal handler.
IsKilled(b) ==
  /\ Alive(b)
  /\ Goes(b, "gone") /\ cut' = cut \cup {b}
  /\ UNCHANGED <<ptyfile, created, appVars, passVars>>

Fails(b) ==
  /\ bridge[b] \in {"pty", "chip"}
  /\ Goes(b, "leaving")
  /\ UNCHANGED <<fileVars, appVars, passVars>>

UnlinkIfLast(b) ==
  /\ bridge[b] = "leaving"
  /\ ptyfile' = IF b \in created /\ \A o \in Bridges \ {b} : ~Alive(o) THEN "none" ELSE ptyfile
  /\ Goes(b, "gone")
  /\ UNCHANGED <<created, cut, appVars, passVars>>

\* Whosever name the file has by now.
Unlink(b) ==
  /\ bridge[b] = "leaving"
  /\ ptyfile' = IF b \in created THEN "none" ELSE ptyfile
  /\ Goes(b, "gone")
  /\ UNCHANGED <<created, cut, appVars, passVars>>

-----------------------------------------------------------------------------
(* The loop of Mine. *)

\* What is read from the pty is written to the chip, all of it or a part.
PtyToChipBlocking ==
  /\ bridge[Mine] = "pty" /\ towards # <<>>
  /\ arrived' = arrived \o towards /\ towards' = <<>>
  /\ Goes(Mine, "chip")
  /\ UNCHANGED <<fileVars, appVars, answered, inpty, short>>

PtyToChip ==
  /\ bridge[Mine] = "pty"
  /\ \E k \in 0 .. Len(towards) :
       /\ arrived' = arrived \o SubSeq(towards, 1, k)
       /\ short' = (short \/ k < Len(towards))
  /\ towards' = <<>>
  /\ Goes(Mine, "chip")
  /\ UNCHANGED <<fileVars, appVars, answered, inpty>>

\* What the pty, which does not block, takes of n bytes.
Takes(n) == IF n <= PtySize - Len(inpty) THEN n ELSE PtySize - Len(inpty)

ChipToPtyButLast ==
  /\ bridge[Mine] = "chip"
  /\ \/ \E n \in 1 .. Len(answered) :
          /\ inpty' = inpty \o SubSeq(answered, 1, Takes(n - 1))
          /\ answered' = SubSeq(answered, n + 1, Len(answered))
     \/ answered = <<>> /\ UNCHANGED <<inpty, answered>>
  /\ Goes(Mine, "pty")
  /\ UNCHANGED <<fileVars, appVars, towards, arrived, short>>

ChipToPty ==
  /\ bridge[Mine] = "chip"
  /\ \/ \E n \in 1 .. Len(answered) :
          /\ inpty' = inpty \o SubSeq(answered, 1, Takes(n))
          /\ answered' = SubSeq(answered, n + 1, Len(answered))
     \/ answered = <<>> /\ UNCHANGED <<inpty, answered>>
  /\ Goes(Mine, "pty")
  /\ UNCHANGED <<fileVars, appVars, towards, arrived, short>>

-----------------------------------------------------------------------------
(* The adapter and the application. *)

AdapterReplies ==
  /\ arrived # <<>> /\ arrived[Len(arrived)] = RequestSize
  /\ arrived' = <<>> /\ answered' = answered \o Reply
  /\ UNCHANGED <<bridge, fileVars, appVars, towards, inpty, short>>

Ask ==
  /\ ~asking /\ requests < MaxAsked /\ Alive(Mine)
  /\ towards' = towards \o Request
  /\ asking' = TRUE /\ requests' = requests + 1 /\ heard' = <<>>
  /\ UNCHANGED <<bridge, fileVars, hasty, arrived, answered, inpty, short>>

Hear ==
  /\ asking /\ inpty # <<>>
  /\ heard' = Append(heard, Head(inpty)) /\ inpty' = Tail(inpty)
  /\ asking' = (Head(inpty) # ReplySize)
  /\ UNCHANGED <<bridge, fileVars, requests, hasty, towards, arrived, answered, short>>

GiveUp ==
  /\ asking
  /\ asking' = FALSE /\ hasty' = TRUE
  /\ UNCHANGED <<bridge, fileVars, heard, requests, passVars>>

MyLoop == PtyToChip \/ ChipToPty

BridgeNext ==
  \/ \E b \in Bridges : Launch(b) \/ IsKilled(b) \/ Fails(b) \/ Unlink(b)
  \/ MyLoop \/ AdapterReplies \/ Ask \/ Hear \/ GiveUp

BridgeSpec ==
  /\ BridgeInit /\ [][BridgeNext]_bridgeVars
  /\ WF_bridgeVars(MyLoop) /\ WF_bridgeVars(AdapterReplies) /\ WF_bridgeVars(Hear)

-----------------------------------------------------------------------------
(* What should hold.                                                       *)

BridgeTypeOK ==
  /\ bridge \in [Bridges -> {"new", "pty", "chip", "leaving", "gone"}]
  /\ ptyfile \in Bridges \cup {"none"} /\ created \subseteq Bridges /\ cut \subseteq Bridges
  /\ towards \in Seq(1..RequestSize) /\ arrived \in Seq(1..RequestSize)
  /\ answered \in Seq(1..ReplySize) /\ inpty \in Seq(1..ReplySize) /\ heard \in Seq(1..ReplySize)
  /\ Len(inpty) <= PtySize
  /\ asking \in BOOLEAN /\ requests \in 0..MaxAsked /\ short \in BOOLEAN /\ hasty \in BOOLEAN

\* The file never names a pty that is gone, whichever bridges come and go and
\* write it over each other: unless the bridge it names was killed.
FileNamesABridge == ptyfile # "none" => Alive(ptyfile) \/ ptyfile \in cut

\* Nothing of a reply is lost or comes out of order although writes to a pty
\* that is full are not repeated: the reply fits, and the application waits for
\* its end before it asks again.
RepliesComeWhole ==
  (ReplySize <= PtySize /\ ~hasty) =>
     LET s == heard \o inpty \o answered IN \A i \in DOMAIN s : s[i] = i

\* A request gets its reply.
Serving == bridge[Mine] \in {"pty", "chip"}

RequestsAreAnswered ==
  (asking /\ Serving) ~> (~asking \/ ~Serving \/ short \/ hasty)
=============================================================================
