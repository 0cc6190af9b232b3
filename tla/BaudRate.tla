------------------------------ MODULE BaudRate ------------------------------
(***************************************************************************)
(* openserial(): finding the rate of the adapter, and agreeing with it on  *)
(* a faster one by ATBRD (obdcomm/obdserial.c).  The adapter answers "OK"  *)
(* or "?" at the rate it has; after "OK" it goes to the new rate, says     *)
(* "ELM..." there, and goes back unless a "\r" reaches it within the time  *)
(* ATBRT has set: 500 ms, half of what the port waits for "ELM".           *)
(*                                                                         *)
(* At different rates neither side understands the other: what is read     *)
(* then is nothing, or happens to have a "?" in it.                        *)
(***************************************************************************)
EXTENDS Integers, Sequences

CONSTANTS
  Rates,      \* the rates there are
  PortRates,  \* those modifybaud() knows
  Guesses,    \* guesses[]
  Speeds,     \* speeds[]
  Requests,   \* the baudrate asked for: a rate, -1 for none or 0 for "guess"
  Targets     \* the rate to upgrade to: a rate, -1 for none or 0 for "the best"

\* What openserial() assumes of a port it was told nothing about.
DefaultBaud == 9600

ASSUME BaudAssumption ==
  /\ Rates \subseteq Nat \ {0} /\ PortRates \subseteq Rates /\ DefaultBaud \in Rates
  /\ Guesses \in Seq(PortRates) /\ Speeds \in Seq(Rates)
  /\ Requests \subseteq Rates \cup {-1, 0} /\ Targets \subseteq Rates \cup {-1, 0}

VARIABLES
  at,          \* "open", "guess", "reset", "brt", "brd", "reply", "elm" or "opened"
  port,        \* the rate of the port
  elm,         \* the rate of the adapter
  oldrate,     \* the rate the adapter goes back to
  trying,      \* the adapter is at a new rate and waits for a "\r"
  reply,       \* what the adapter answered to ATBRD, or "none"
  baudrate, target,      \* the parameters of openserial()
  current_baud,
  attempt,     \* which of Guesses or Speeds is tried
  current_best,
  agreed,      \* history: port and adapter had the same rate when the upgrade began
  raced,       \* history: the adapter had gone back when the "\r" came
  blind        \* history: a failed attempt did not set the rate back to the adapter's

elmVars  == <<elm, oldrate, trying>>
argVars  == <<baudrate, target>>
baudVars == <<at, port, elmVars, reply, argVars, current_baud, attempt, current_best,
              agreed, raced, blind>>

BaudInit ==
  /\ at = "open" /\ port \in PortRates
  /\ elm \in Rates /\ oldrate = elm /\ trying = FALSE /\ reply = "none"
  /\ baudrate \in Requests /\ target \in Targets
  /\ current_baud = DefaultBaud /\ attempt = 1 /\ current_best = -1
  /\ agreed = FALSE /\ raced = FALSE /\ blind = FALSE

-----------------------------------------------------------------------------
(* modifybaud() and guessbaudrate(). *)

\* What modifybaud(rate) makes of the port's rate; 0 is Guess.
Modified(rate) == IF rate \in PortRates THEN rate ELSE port

OpenSerial ==
  /\ at = "open"
  /\ port' = Modified(baudrate)
  /\ current_baud' = IF baudrate = -1 \/ baudrate \in PortRates THEN baudrate ELSE DefaultBaud
  /\ at' = IF baudrate = 0 THEN "guess" ELSE "reset"
  /\ UNCHANGED <<elmVars, reply, argVars, attempt, current_best, agreed, raced, blind>>

\* The prompt is seen at the right rate, unless it takes longer than a second.
Guess ==
  /\ at = "guess"
  /\ IF attempt > Len(Guesses)
     THEN /\ at' = "reset" /\ attempt' = 1 /\ UNCHANGED port
     ELSE /\ port' = Guesses[attempt]
          /\ \/ port' = elm /\ at' = "reset" /\ attempt' = 1
             \/ attempt' = attempt + 1 /\ UNCHANGED at
  /\ UNCHANGED <<elmVars, reply, argVars, current_baud, current_best, agreed, raced, blind>>

-----------------------------------------------------------------------------
(* upgradebaudrate() and attempt_upgradebaudrate(). *)

\* ATZ, and what is to be upgraded.
Reset ==
  /\ at = "reset"
  /\ agreed' = (port = elm)
  /\ at' = IF target = -1 \/ (target = 0 /\ Speeds = <<>>) THEN "opened" ELSE "brt"
  /\ UNCHANGED <<port, elmVars, reply, argVars, current_baud, attempt, current_best, raced, blind>>

Rate == IF target = 0 THEN Speeds[attempt] ELSE target

previousrate == IF target = 0 THEN current_best ELSE current_baud

\* The attempt is over: the next one, or the end of openserial().
Attempted ==
  /\ attempt' = attempt + 1
  /\ at' = IF target = 0 /\ attempt < Len(Speeds) THEN "brt" ELSE "opened"

FailKeepingRate ==
  /\ UNCHANGED port
  /\ blind' = (blind \/ Modified(previousrate) # oldrate)
  /\ UNCHANGED <<current_best, raced>>

\* modifybaud(previousrate); return -1.
Fail ==
  /\ port' = Modified(previousrate)
  /\ blind' = (blind \/ Modified(previousrate) # oldrate)
  /\ UNCHANGED <<current_best, raced>>

\* blindcmd(ATBRT): its "\r" is also one that an adapter waits for.
SendBrt ==
  /\ at = "brt"
  /\ at' = "brd"
  /\ IF trying /\ port = elm
     THEN trying' = FALSE /\ oldrate' = elm /\ UNCHANGED elm
     ELSE UNCHANGED elmVars
  /\ UNCHANGED <<port, reply, argVars, current_baud, attempt, current_best, agreed, raced, blind>>

\* ATBRD, a second later: the write may fail.
SendBrd ==
  /\ at = "brd" /\ ~trying
  /\ \/ at' = "reply" /\ UNCHANGED attempt
     \/ Attempted
  /\ UNCHANGED <<port, elmVars, reply, argVars, current_baud, current_best, agreed, raced, blind>>

\* There is no timeout here.
ReadReplyOkOnly ==
  /\ at = "reply" /\ reply = "OK"
  /\ IF Rate \in PortRates
     THEN port' = Rate /\ at' = "elm" /\ UNCHANGED attempt
     ELSE UNCHANGED port /\ Attempted
  /\ reply' = "none"
  /\ UNCHANGED <<elmVars, argVars, current_baud, current_best, agreed, raced, blind>>

ReadReply ==
  /\ at = "reply" /\ reply # "none"
  /\ \/ reply = "OK" /\ Rate \in PortRates
        /\ port' = Rate /\ at' = "elm"
        /\ UNCHANGED <<attempt, current_best, raced, blind>>
     \/ reply = "OK" /\ Rate \notin PortRates
        /\ UNCHANGED <<port, current_best, raced, blind>> /\ Attempted
     \/ reply = "?" /\ Fail /\ Attempted
  /\ reply' = "none"
  /\ UNCHANGED <<elmVars, argVars, current_baud, agreed>>

\* "ELM" is there: the "\r" that follows may come too late.
ReadElm ==
  /\ at = "elm" /\ current_best' = Rate
  /\ IF trying
     THEN trying' = FALSE /\ oldrate' = elm /\ UNCHANGED <<elm, raced>>
     ELSE raced' = TRUE /\ UNCHANGED elmVars
  /\ Attempted
  /\ UNCHANGED <<port, reply, argVars, current_baud, agreed, blind>>

\* Five bytes without "ELM", or none in a second.
MissElm ==
  /\ at = "elm"
  /\ Fail /\ Attempted
  /\ UNCHANGED <<elmVars, reply, argVars, current_baud, agreed>>

-----------------------------------------------------------------------------
(* The adapter. *)

AnswerBrd ==
  /\ at = "reply" /\ reply = "none" /\ port = elm
  /\ \/ reply' = "?" /\ UNCHANGED elmVars
     \/ reply' = "OK" /\ oldrate' = elm /\ elm' = Rate /\ trying' = TRUE
  /\ UNCHANGED <<at, port, argVars, current_baud, attempt, current_best, agreed, raced, blind>>

Garble ==
  /\ at = "reply" /\ reply = "none" /\ port # elm
  /\ reply' = "?"
  /\ UNCHANGED <<at, port, elmVars, argVars, current_baud, attempt, current_best, agreed, raced, blind>>

GoBack ==
  /\ trying
  /\ elm' = oldrate /\ trying' = FALSE
  /\ UNCHANGED <<at, port, oldrate, reply, argVars, current_baud, attempt, current_best,
                 agreed, raced, blind>>

Opening == OpenSerial \/ Guess \/ Reset \/ SendBrt \/ SendBrd \/ ReadReply \/ ReadElm \/ MissElm
Adapter == AnswerBrd \/ GoBack

BaudNext == Opening \/ Adapter \/ Garble

\* The logger runs on, and the adapter answers what it understands.
BaudSpec == BaudInit /\ [][BaudNext]_baudVars /\ WF_baudVars(Opening) /\ WF_baudVars(Adapter)

-----------------------------------------------------------------------------
(* What should hold.                                                       *)

RateTypes ==
  /\ at \in {"open", "guess", "reset", "brt", "brd", "reply", "elm", "opened"}
  /\ port \in PortRates /\ elm \in Rates /\ oldrate \in Rates
  /\ reply \in {"none", "OK", "?"}
  /\ baudrate \in Requests /\ target \in Targets
  /\ current_baud \in PortRates \cup {-1, DefaultBaud}
  /\ attempt \in 1 .. Len(Guesses) + Len(Speeds) + 2
  /\ current_best \in Rates \cup {-1}

FlagTypes == trying \in BOOLEAN /\ agreed \in BOOLEAN /\ raced \in BOOLEAN /\ blind \in BOOLEAN

BaudTypeOK == RateTypes /\ FlagTypes

\* However the attempts went, the port ends up at the adapter's rate, once the
\* adapter has gone back from what it tried: unless a "\r" came too late, or a
\* failed attempt set the port "back" to a rate that was not the adapter's.
PortFollowsAdapter ==
  (agreed /\ ~raced /\ ~blind /\ ~trying /\ at \in {"brt", "brd", "opened"}) => port = elm

\* A rate the upgrade ends with, in particular, is one that both sides have.
BestIsAgreed ==
  (at = "opened" /\ current_best # -1 /\ ~raced /\ ~trying) => port = elm /\ port = current_best

\* Failing is harmless when the logger was told the rate of the port.
KnownRateNeverBlind == (target # 0 /\ baudrate \in PortRates /\ agreed) => ~blind

\* The logger and the adapter do not lose each other over a rate.
RatesAgree == PortFollowsAdapter /\ BestIsAgreed /\ KnownRateNeverBlind

\* The wait for "OK" or "?" has no end of its own, but with an adapter that
\* answers it ends, unless the port and the adapter have lost each other.
OpeningEnds == <>(at = "opened" \/ raced \/ blind \/ (at = "reply" /\ ~agreed))
=============================================================================
