------------------------------- MODULE MCSim -------------------------------
(* Sim on small instances: what a client may say, and about what.  A run is *)
(* about trouble codes and their frames, with ECUs that are all in time, or *)
(* about who answers when, with codes that hardly change.                   *)
EXTENDS Sim

VARIABLE about   \* "frames" or "times"

FrameLines ==
  [cmd : {"blank", "exit", "codes", "clear", "othermode"}]
    \cup [cmd : {"frozen"}, frame : -1..1]

TimeLines ==
  [cmd : {"blank", "exit", "atreset", "atask"}]
    \cup {[cmd |-> "atset", flag |-> "echo", on |-> FALSE]}
    \cup [cmd : {"attimeout"}, ms : {300}]
    \cup [cmd : {"live"}, counted : BOOLEAN]

SimLines == FrameLines \cup TimeLines

\* How many lines and changes there are, and up to how many codes.
FrameBounds == [lines |-> 3, changes |-> 3, codes |-> 2]
TimeBounds  == [lines |-> 2, changes |-> 1, codes |-> 1]

Within(said, bounds) ==
  /\ line' \in said \cup {NoLine, Garbage}
  /\ lines' <= bounds.lines /\ changes' <= bounds.changes
  /\ \A e \in Ecus : codes'[e] <= bounds.codes

InTime == \A e \in Ecus : customdelay[e] <= DefaultTimeout

MCInit ==
  /\ Init
  /\ about \in {"frames", "times"}
  /\ about = "frames" => InTime

MCNext ==
  /\ Next
  /\ \/ about = "frames" /\ Within(FrameLines, FrameBounds)
     \/ about = "times" /\ Within(TimeLines, TimeBounds)
  /\ UNCHANGED about

\* A line beyond these bounds does not come; the loop goes on without one.
MCSpec ==
  /\ MCInit /\ [][MCNext]_<<vars, about>>
  /\ WF_<<vars, about>>(MCNext)

\* The sort of ecudelay_order puts the slower ECU later, for all delays.
ASSUME SortSorts ==
  \A delay \in [Ecus -> Delays] : SortPlaces(delay) \in SortedPlaces(delay)
=============================================================================
