----------------------------- MODULE SimProofs -----------------------------
(***************************************************************************)
(* Proofs about the simulator for any number of ECUs, delays, frames and   *)
(* lines: which frames it keeps, and who is asked, and when.               *)
(***************************************************************************)
EXTENDS Sim, SequenceTheorems, WellFoundedInduction, TLAPS

\* The lines of AT commands that carry a value.
LEMMA LineFields ==
  ASSUME NEW l \in AllLines
  PROVE  /\ l.cmd = "atset" => l.flag \in Flags /\ l.on \in BOOLEAN
         /\ l.cmd = "attimeout" => l.ms \in Nat
  BY DEF AllLines

\* The delays of the order are differences of sorted delays: never negative.
LEMMA DeltasTyped ==
  ASSUME NEW delay \in [Ecus -> Delays], NEW place \in SortedPlaces(delay)
  PROVE  /\ place \in [Ecus -> Ecus]
         /\ Deltas(delay, place) \in [Ecus -> [ecu : Ecus, delay : Nat]]
  <1>1. place \in [Ecus -> Ecus]
    BY DEF SortedPlaces, Bijection, Injection, Surjection, IsInjective
  <1>2. ASSUME NEW i \in Ecus
        PROVE  /\ delay[place[i]] \in Nat
               /\ i # 1 => /\ i - 1 \in Ecus
                           /\ delay[place[i]] - delay[place[i - 1]] \in Nat
    <2>1. \A j \in Ecus : place[j] \in Ecus /\ delay[place[j]] \in Nat
      BY <1>1, SimAssumption
    <2>2. i # 1 => i - 1 \in Ecus
      BY SimAssumption DEF Ecus
    <2>3. i # 1 => delay[place[i - 1]] <= delay[place[i]]
      BY <2>2, SimAssumption DEF SortedPlaces, Ecus
    <2> QED
      BY <2>1, <2>2, <2>3
  <1> QED
    BY <1>1, <1>2 DEF Deltas

-----------------------------------------------------------------------------
(* Which actions touch which variables.                                    *)

LEMMA DelaysAreKept == [Next]_vars => UNCHANGED delayVars
  BY DEF Next, vars, Idle, Poll, ReadNothing, ReadLine, AtAsk, AtSet, AtTimeout, AtReset,
         AtReply, Answer, AnswerCodes, AnswerClear, AnswerFrozen, AnswerFaults,
         AnswerOther, SkipEcu,
         AskEcu, AllAsked, Reply, Stop

LEMMA FramesAreKept == [Next]_vars => Poll \/ UNCHANGED frameVars
  BY DEF Next, vars, Idle, ReadNothing, ReadLine, AtAsk, AtSet, AtTimeout, AtReset,
         AtReply, Answer, AnswerCodes, AnswerClear, AnswerFrozen, AnswerFaults,
         AnswerOther, SkipEcu,
         AskEcu, AllAsked, Reply, Stop

LEMMA SettingsAreKept ==
  [Next]_vars => AtSet \/ AtTimeout \/ AtReset \/ UNCHANGED settingVars
  BY DEF Next, vars, Idle, Poll, ReadNothing, ReadLine, AtAsk, Answer, AnswerCodes,
         AnswerClear, AnswerFrozen, AnswerFaults, AnswerOther, SkipEcu, AskEcu,
         AllAsked, Reply, Stop

\* A request's progress: it is begun with nothing, goes on, or is over.
Requesting == <<asked, accumulated, ecu_replycount, turns>>

LEMMA RequestsChange ==
  [Next]_vars =>
    \/ UNCHANGED Requesting
    \/ SkipEcu \/ AskEcu
    \/ RequestDone /\ pc' = "idle"
  BY DEF Next, vars, Requesting, replyVars, Idle, Poll, ReadNothing, ReadLine, AtAsk, AtSet,
         AtTimeout, AtReset, AtReply, Answer, AnswerCodes, AnswerClear, AnswerFrozen,
         AnswerFaults,
         AnswerOther, AllAsked, Reply, Stop

-----------------------------------------------------------------------------
(* Types.                                                                  *)

LEMMA TypeInit == Init => TypeOK
  <1> SUFFICES ASSUME Init PROVE TypeOK
    OBVIOUS
  <1>1. DelayTypes
    BY DeltasTyped DEF Init, DelayTypes
  <1>2. FrameTypes
    <2>1. 0 \in -1..MaxCodes /\ 0 \in 0..MaxFrames
      BY SimAssumption
    <2> QED
      BY <2>1 DEF Init, FrameTypes, NeverStored, Frames
  <1>3. SettingTypes
    BY SimAssumption DEF Init, DefaultFlags, Flags, SettingTypes
  <1>4. RequestTypes
    BY SimAssumption DEF Init, RequestTypes
  <1>5. ControlTypes
    BY DEF Init, ControlTypes
  <1>6. OutsideTypes
    BY SimAssumption DEF Init, OutsideTypes
  <1> QED
    BY <1>1, <1>2, <1>3, <1>4, <1>5, <1>6 DEF TypeOK

LEMMA ControlStep == TypeOK /\ [Next]_vars => ControlTypes'
  BY DEF TypeOK, ControlTypes, Next, vars, controlVars, Idle, GeneratorsRun, Poll,
         ReadNothing, ReadLine, AtAsk, AtSet, AtTimeout, AtReset, AtReply, RequestDone,
         Answer, AnswerCodes, AnswerClear, AnswerFrozen, AnswerFaults, AnswerOther,
         SkipEcu, AskEcu,
         AllAsked, Reply, Stop

LEMMA SettingStep == TypeOK /\ [Next]_vars => SettingTypes'
  <1> SUFFICES ASSUME TypeOK, [Next]_vars PROVE SettingTypes'
    OBVIOUS
  <1>1. ASSUME AtSet \/ AtTimeout PROVE line \in AllLines
    <2>1. line \notin {Garbage, NoLine}
      BY <1>1 DEF AtSet, AtTimeout, Garbage, NoLine
    <2> QED
      BY <2>1, SimAssumption DEF TypeOK, ControlTypes
  <1>2. CASE AtSet
    <2>1. line.flag \in Flags /\ line.on \in BOOLEAN
      BY <1>1, <1>2, LineFields DEF AtSet
    <2>2. flags' \in [Flags -> BOOLEAN] /\ portEcho' \in BOOLEAN
      BY <1>2, <2>1 DEF AtSet, TypeOK, SettingTypes
    <2>3. e_timeout' \in Nat
      BY <1>2 DEF AtSet, TypeOK, SettingTypes
    <2> QED
      BY <2>2, <2>3 DEF SettingTypes
  <1>3. CASE AtTimeout
    BY <1>1, <1>3, LineFields, SimAssumption DEF AtTimeout, TypeOK, SettingTypes
  <1>4. CASE AtReset
    BY <1>4, SimAssumption DEF AtReset, SettingTypes, DefaultFlags, Flags
  <1>5. CASE UNCHANGED settingVars
    BY <1>5 DEF settingVars, TypeOK, SettingTypes
  <1> QED
    BY <1>2, <1>3, <1>4, <1>5, SettingsAreKept

LEMMA FrameStep == TypeOK /\ [Next]_vars => FrameTypes'
  <1> SUFFICES ASSUME TypeOK, [Next]_vars PROVE FrameTypes'
    OBVIOUS
  <1>1. CASE Poll
    <2>1. ff' \in [Ecus -> [0..MaxFrames - 1 -> Frames]]
      <3>1. PICK has : ff' = [e \in Ecus |->
                IF Freezes(e)
                  THEN [ff[e] EXCEPT ![FreeFrame(e)] =
                          [set |-> sets[e], codes |-> codes[e], data |-> e \in has]]
                  ELSE ff[e]]
        BY <1>1 DEF Poll
      <3>2. ASSUME NEW e \in Ecus
            PROVE  [set |-> sets[e], codes |-> codes[e], data |-> e \in has] \in Frames
        BY DEF TypeOK, OutsideTypes, Frames
      <3> QED
        BY <3>1, <3>2 DEF TypeOK, FrameTypes
    <2>2. ffcount' \in [Ecus -> 0..MaxFrames]
      BY <1>1, SimAssumption DEF Poll, Freezes, Drops, TypeOK, FrameTypes
    <2>3. lasterrorcount' \in [Ecus -> -1..MaxCodes] /\ seen' \in [Ecus -> Nat]
      BY <1>1 DEF Poll, TypeOK, FrameTypes, OutsideTypes
    <2>4. missed' \in [Ecus -> BOOLEAN]
      BY <1>1 DEF Poll, TypeOK, FrameTypes
    <2> QED
      BY <2>1, <2>2, <2>3, <2>4 DEF FrameTypes
  <1>2. CASE UNCHANGED frameVars
    BY <1>2 DEF frameVars, TypeOK, FrameTypes
  <1> QED
    BY <1>1, <1>2, FramesAreKept

LEMMA RequestStep == TypeOK /\ [Next]_vars => RequestTypes'
  <1> SUFFICES ASSUME TypeOK, [Next]_vars PROVE RequestTypes'
    OBVIOUS
  <1>1. waited' \in Nat
    <2>1. CASE Reply
      <3>1. accumulated \in Nat /\ e_timeout \in Nat
        BY DEF TypeOK, RequestTypes, SettingTypes
      <3>2. waited' = accumulated + (e_timeout - accumulated) \/ waited' = accumulated
        BY <2>1 DEF Reply
      <3> QED
        BY <3>1, <3>2
    <2>2. waited' \in {0, waited} \/ Reply
      BY DEF Next, vars, replyVars, Idle, Poll, ReadNothing, ReadLine, AtAsk, AtSet,
             AtTimeout, AtReset, AtReply, Answer, AnswerCodes, AnswerClear,
             AnswerFrozen, AnswerFaults,
             AnswerOther, SkipEcu, AskEcu, AllAsked, Stop
    <2> QED
      BY <2>1, <2>2 DEF TypeOK, RequestTypes
  <1>2. CASE UNCHANGED Requesting
    BY <1>1, <1>2 DEF Requesting, TypeOK, RequestTypes
  <1>3. CASE SkipEcu
    BY <1>1, <1>3, SimAssumption DEF SkipEcu, TypeOK, RequestTypes
  <1>4. CASE AskEcu
    <2>1. asked + 1 \in Ecus
      BY <1>4, SimAssumption DEF AskEcu, Ecus, TypeOK, RequestTypes
    <2>2. accumulated' \in Nat
      BY <1>4, <2>1 DEF AskEcu, TypeOK, RequestTypes, DelayTypes
    <2>3. turns' \in Seq([ecu : Ecus, at : Nat, data : BOOLEAN])
      <3>1. CASE UNCHANGED turns
        BY <3>1 DEF TypeOK, RequestTypes
      <3>2. CASE \E has \in BOOLEAN :
                   turns' = Append(turns, [ecu |-> ecudelays[asked + 1].ecu,
                                           at |-> accumulated', data |-> has])
        BY <3>2, <2>1, <2>2 DEF TypeOK, RequestTypes, DelayTypes
      <3> QED
        BY <1>4, <3>1, <3>2 DEF AskEcu
    <2>4. asked' \in 0..EcuCount /\ ecu_replycount' \in 0..asked'
      BY <1>4, SimAssumption DEF AskEcu, TypeOK, RequestTypes
    <2> QED
      BY <1>1, <2>2, <2>3, <2>4 DEF RequestTypes
  <1>5. CASE RequestDone
    BY <1>1, <1>5, SimAssumption DEF RequestDone, RequestTypes
  <1> QED
    BY <1>2, <1>3, <1>4, <1>5, RequestsChange

LEMMA OutsideStep == TypeOK /\ [Next]_vars => OutsideTypes'
  <1> SUFFICES ASSUME TypeOK, [Next]_vars PROVE OutsideTypes'
    OBVIOUS
  <1>0. ASSUME NEW E, CodesGo(E) PROVE sets' \in [Ecus -> Nat]
    BY <1>0 DEF CodesGo, TypeOK, OutsideTypes
  <1>1. CASE Idle
    <2>1. sets' \in [Ecus -> Nat]
      BY <1>0, <1>1 DEF Idle, GeneratorsRun, TypeOK, OutsideTypes
    <2>2. codes' \in [Ecus -> -1..MaxCodes]
      <3>1. ASSUME NEW e \in Coded, NEW n \in -1..MaxCodes, codes' = [codes EXCEPT ![e] = n]
            PROVE  codes' \in [Ecus -> -1..MaxCodes]
        BY <3>1 DEF TypeOK, OutsideTypes
      <3>2. CASE codes' = codes
        BY <3>2 DEF TypeOK, OutsideTypes
      <3>3. CASE \E e \in Coded : \/ \E n \in 0..MaxCodes : codes' = [codes EXCEPT ![e] = n]
                                 \/ codes' = [codes EXCEPT ![e] = -1]
        <4>1. -1 \in -1..MaxCodes /\ 0..MaxCodes \subseteq -1..MaxCodes
          BY SimAssumption
        <4> QED
          BY <3>1, <3>3, <4>1
      <3> QED
        BY <1>1, <3>2, <3>3 DEF Idle, GeneratorsRun
    <2>3. changes' \in 0..MaxChanges /\ lines' = lines
      BY <1>1, SimAssumption DEF Idle, GeneratorsRun, TypeOK, OutsideTypes
    <2> QED
      BY <2>1, <2>2, <2>3 DEF TypeOK, OutsideTypes
  <1>2. CASE ReadLine
    BY <1>2, SimAssumption DEF ReadLine, TypeOK, OutsideTypes
  <1>3. CASE AnswerClear
    <2>1. codes' \in [Ecus -> -1..MaxCodes]
      BY <1>3, SimAssumption DEF AnswerClear, TypeOK, OutsideTypes
    <2>2. sets' \in [Ecus -> Nat]
      BY <1>0, <1>3 DEF AnswerClear
    <2> QED
      BY <1>3, <2>1, <2>2 DEF AnswerClear, Answer, TypeOK, OutsideTypes
  <1>4. CASE UNCHANGED outsideVars
    BY <1>4 DEF outsideVars, TypeOK, OutsideTypes
  <1>5. Idle \/ ReadLine \/ AnswerClear \/ UNCHANGED outsideVars
    BY DEF Next, vars, outsideVars, Poll, ReadNothing, AtAsk, AtSet, AtTimeout, AtReset,
           AtReply, Answer, AnswerCodes, AnswerFrozen, AnswerFaults, AnswerOther,
           SkipEcu, AskEcu,
           AllAsked, Reply, Stop
  <1> QED
    BY <1>1, <1>2, <1>3, <1>4, <1>5

LEMMA TypeStep == TypeOK /\ [Next]_vars => TypeOK'
  <1> SUFFICES ASSUME TypeOK, [Next]_vars PROVE TypeOK'
    OBVIOUS
  <1>1. DelayTypes'
    BY DelaysAreKept DEF delayVars, TypeOK, DelayTypes
  <1> QED
    BY <1>1, ControlStep, SettingStep, FrameStep, RequestStep, OutsideStep DEF TypeOK

\* Every reachable state is well typed: a frame is only counted that has a place.
THEOREM SimTypes == Spec => []TypeOK
  BY TypeInit, TypeStep, PTL DEF Spec

-----------------------------------------------------------------------------
(* Frozen frames.                                                          *)

\* What a poll leaves of the frames of one ECU.
LEMMA PolledFrames ==
  ASSUME TypeOK, Poll, NEW e \in Ecus
  PROVE  /\ Drops(e) => ffcount'[e] = 0 /\ lasterrorcount'[e] = 0
         /\ Freezes(e) => /\ ffcount'[e] = ffcount[e] + 1
                          /\ lasterrorcount'[e] = codes[e]
                          /\ ff'[e][ffcount[e]].set = sets[e]
                          /\ ff'[e][ffcount[e]].codes = codes[e]
         /\ ~Drops(e) /\ ~Freezes(e) => /\ ffcount'[e] = ffcount[e]
                                        /\ lasterrorcount'[e] = lasterrorcount[e]
         /\ seen'[e] = sets[e]
         /\ ~Drops(e) /\ ffcount[e] > 0 =>
              (sets[e] = seen[e] /\ missed'[e] = missed[e]) \/ missed'[e]
         /\ \A f \in 0..ffcount[e] - 1 : ff'[e][f] = ff[e][f]
  <1>1. PICK has : ff' = [d \in Ecus |->
                IF Freezes(d)
                  THEN [ff[d] EXCEPT ![FreeFrame(d)] =
                          [set |-> sets[d], codes |-> codes[d], data |-> d \in has]]
                  ELSE ff[d]]
    BY DEF Poll
  <1>2. /\ ff[e] \in [0..MaxFrames - 1 -> Frames] /\ ffcount[e] \in 0..MaxFrames
        /\ lasterrorcount[e] \in -1..MaxCodes /\ codes[e] \in -1..MaxCodes
    BY DEF TypeOK, FrameTypes, OutsideTypes
  <1>3. Freezes(e) => /\ ffcount[e] \in 0..MaxFrames - 1
                      /\ codes[e] # 0
    BY <1>2, SimAssumption DEF Freezes
  <1>4. Freezes(e) => ff'[e] = [ff[e] EXCEPT ![ffcount[e]] =
                        [set |-> sets[e], codes |-> codes[e], data |-> e \in has]]
    BY <1>1 DEF FreeFrame
  <1>5. ~Freezes(e) => ff'[e] = ff[e]
    BY <1>1
  <1>6. \A f \in 0..ffcount[e] - 1 : ff'[e][f] = ff[e][f]
    <2>1. ASSUME Freezes(e), NEW f \in 0..ffcount[e] - 1 PROVE ff'[e][f] = ff[e][f]
      <3>1. f # ffcount[e] /\ f \in 0..MaxFrames - 1
        BY <1>2, <2>1, SimAssumption
      <3> QED
        BY <1>2, <1>4, <2>1, <3>1
    <2> QED
      BY <1>5, <2>1
  <1>7. Freezes(e) => /\ ff'[e][ffcount[e]].set = sets[e]
                      /\ ff'[e][ffcount[e]].codes = codes[e]
    <2>1. ASSUME Freezes(e) PROVE ffcount[e] \in DOMAIN ff[e]
      BY <1>2, <1>3, <2>1
    <2> QED
      BY <1>4, <2>1
  <1>8. /\ ffcount'[e] = IF Drops(e) THEN 0
                         ELSE IF Freezes(e) THEN ffcount[e] + 1 ELSE ffcount[e]
        /\ lasterrorcount'[e] = IF Drops(e) \/ Freezes(e) THEN codes[e]
                                ELSE lasterrorcount[e]
        /\ seen'[e] = sets[e]
        /\ missed'[e] = (/\ ~(e \in Coded /\ codes[e] = 0)
                         /\ missed[e] \/ (ffcount[e] > 0 /\ sets[e] # seen[e]))
    BY DEF Poll
  <1>9. Drops(e) <=> e \in Coded /\ codes[e] = 0
    BY DEF Drops
  <1>10. missed[e] \in BOOLEAN
    BY DEF TypeOK, FrameTypes
  <1>11. ~Drops(e) /\ ffcount[e] > 0 =>
           (sets[e] = seen[e] /\ missed'[e] = missed[e]) \/ missed'[e]
    BY <1>8, <1>9, <1>10
  <1> QED
    BY <1>3, <1>6, <1>7, <1>8, <1>9, <1>11

LEMMA FramesInit == Init => FramesTellTheCodes
  BY DEF Init, FramesTellTheCodes

LEMMA FramesStep == TypeOK /\ FramesTellTheCodes /\ [Next]_vars => FramesTellTheCodes'
  <1> SUFFICES ASSUME TypeOK, FramesTellTheCodes, [Next]_vars PROVE FramesTellTheCodes'
    OBVIOUS
  <1>1. CASE UNCHANGED frameVars
    BY <1>1 DEF frameVars, FramesTellTheCodes
  <1>2. CASE Poll
    <2> SUFFICES ASSUME NEW e \in Ecus
                 PROVE  /\ \A f \in 0..ffcount'[e] - 1 :
                             /\ ff'[e][f].set = seen'[e] \/ missed'[e]
                             /\ ff'[e][f].codes # 0
                             /\ f > 0 => ff'[e][f].codes # ff'[e][f - 1].codes
                        /\ lasterrorcount'[e] = IF ffcount'[e] = 0 THEN 0
                                                ELSE ff'[e][ffcount'[e] - 1].codes
      BY DEF FramesTellTheCodes
    <2>1. ffcount[e] \in Nat
      BY SimAssumption DEF TypeOK, FrameTypes
    <2>2. /\ \A f \in 0..ffcount[e] - 1 :
               /\ ff[e][f].set = seen[e] \/ missed[e]
               /\ ff[e][f].codes # 0
               /\ f > 0 => ff[e][f].codes # ff[e][f - 1].codes
          /\ lasterrorcount[e] = IF ffcount[e] = 0 THEN 0 ELSE ff[e][ffcount[e] - 1].codes
      BY DEF FramesTellTheCodes
    <2>3. \A f \in 0..ffcount[e] - 1 : ff'[e][f] = ff[e][f]
      BY <1>2, PolledFrames
    <2>3a. ASSUME ~Drops(e), NEW f \in 0..ffcount[e] - 1
          PROVE  ff[e][f].set = seen'[e] \/ missed'[e]
      <3>1. ffcount[e] > 0
        BY <2>1, <2>3a
      <3>2. seen'[e] = sets[e] /\ ((sets[e] = seen[e] /\ missed'[e] = missed[e]) \/ missed'[e])
        BY <1>2, <2>3a, <3>1, PolledFrames
      <3> QED
        BY <2>2, <2>3a, <3>2
    <2>4. CASE Drops(e)
      <3>1. ffcount'[e] = 0 /\ lasterrorcount'[e] = 0
        BY <1>2, <2>4, PolledFrames
      <3> QED
        BY <3>1
    <2>5. CASE Freezes(e)
      <3>1. /\ ffcount'[e] = ffcount[e] + 1
            /\ lasterrorcount'[e] = codes[e]
            /\ seen'[e] = sets[e]
            /\ ff'[e][ffcount[e]].set = sets[e]
            /\ ff'[e][ffcount[e]].codes = codes[e]
        BY <1>2, <2>5, PolledFrames
      <3>2. codes[e] # 0 /\ codes[e] # lasterrorcount[e]
        BY <2>5 DEF Freezes
      <3>3. ASSUME NEW f \in 0..ffcount'[e] - 1
            PROVE  /\ ff'[e][f].set = seen'[e] \/ missed'[e]
                   /\ ff'[e][f].codes # 0
                   /\ f > 0 => ff'[e][f].codes # ff'[e][f - 1].codes
        <4>1. CASE f = ffcount[e]
          <5>1. f > 0 => /\ ff'[e][f - 1] = ff[e][f - 1]
                         /\ ff[e][f - 1].codes = lasterrorcount[e]
            BY <2>1, <2>2, <2>3, <4>1
          <5> QED
            BY <3>1, <3>2, <4>1, <5>1
        <4>2. CASE f # ffcount[e]
          <5>1. f \in 0..ffcount[e] - 1 /\ (f > 0 => f - 1 \in 0..ffcount[e] - 1)
            BY <2>1, <3>1, <4>2
          <5>2. ff[e][f].set = seen'[e] \/ missed'[e]
            BY <2>5, <2>3a, <5>1 DEF Drops, Freezes
          <5> QED
            BY <2>2, <2>3, <5>1, <5>2
        <4> QED
          BY <4>1, <4>2
      <3>4. ffcount'[e] # 0 /\ ffcount'[e] - 1 = ffcount[e]
        BY <2>1, <3>1
      <3> QED
        BY <3>1, <3>3, <3>4
    <2>6. CASE ~Drops(e) /\ ~Freezes(e)
      <3>1. /\ ffcount'[e] = ffcount[e]
            /\ lasterrorcount'[e] = lasterrorcount[e]
        BY <1>2, <2>6, PolledFrames
      <3>2. \A f \in 0..ffcount[e] - 1 : f > 0 => f - 1 \in 0..ffcount[e] - 1
        BY <2>1
      <3>3. ffcount[e] # 0 => ffcount[e] - 1 \in 0..ffcount[e] - 1
        BY <2>1
      <3>4. \A f \in 0..ffcount[e] - 1 : ff[e][f].set = seen'[e] \/ missed'[e]
        BY <2>6, <2>3a
      <3> QED
        BY <2>2, <2>3, <3>1, <3>2, <3>3, <3>4
    <2> QED
      BY <2>4, <2>5, <2>6
  <1> QED
    BY <1>1, <1>2, FramesAreKept

\* A frame that is counted is never overwritten.
LEMMA FrozenStep ==
  TypeOK /\ [Next]_vars =>
    \A e \in Ecus : \A f \in 0..ffcount[e] - 1 : ff'[e][f] = ff[e][f]
  <1> SUFFICES ASSUME TypeOK, [Next]_vars
               PROVE \A e \in Ecus : \A f \in 0..ffcount[e] - 1 : ff'[e][f] = ff[e][f]
    OBVIOUS
  <1>1. CASE UNCHANGED frameVars
    BY <1>1 DEF frameVars
  <1>2. CASE Poll
    BY <1>2, PolledFrames
  <1> QED
    BY <1>1, <1>2, FramesAreKept

\* The codes a client's line meets have been frozen: what a poll did not act on
\* is what it had acted on before.
LEMMA CodesStep ==
  TypeOK /\ FramesTellTheCodes /\ CodesAreFrozen /\ [Next]_vars => CodesAreFrozen'
  <1> SUFFICES ASSUME TypeOK, FramesTellTheCodes, CodesAreFrozen, [Next]_vars,
                      pc' = "read", NEW e \in Coded, codes'[e] # 0
               PROVE  \/ ffcount'[e] = MaxFrames
                      \/ ffcount'[e] > 0 /\ ff'[e][ffcount'[e] - 1].codes = codes'[e]
    BY DEF CodesAreFrozen
  <1>1. CASE UNCHANGED vars
    BY <1>1 DEF vars, controlVars, frameVars, outsideVars, CodesAreFrozen
  <1>2. CASE Poll
    <2>1. /\ e \in Ecus /\ codes' = codes
          /\ ffcount[e] \in 0..MaxFrames
      BY <1>2, SimAssumption DEF Poll, outsideVars, TypeOK, FrameTypes
    <2>2. ~Drops(e)
      BY <2>1 DEF Drops
    <2>3. CASE Freezes(e)
      <3>1. /\ ffcount'[e] = ffcount[e] + 1
            /\ ff'[e][ffcount[e]].codes = codes[e]
        BY <1>2, <2>1, <2>3, PolledFrames
      <3>2. ffcount'[e] > 0 /\ ffcount'[e] - 1 = ffcount[e]
        BY <2>1, <3>1
      <3> QED
        BY <2>1, <3>1, <3>2
    <2>4. CASE ~Freezes(e)
      <3>1. /\ ffcount'[e] = ffcount[e]
            /\ \A f \in 0..ffcount[e] - 1 : ff'[e][f] = ff[e][f]
        BY <1>2, <2>1, <2>2, <2>4, PolledFrames
      <3>2. codes[e] = lasterrorcount[e] \/ ffcount[e] = MaxFrames
        BY <2>1, <2>4, SimAssumption DEF Freezes
      <3>3. lasterrorcount[e] = IF ffcount[e] = 0 THEN 0 ELSE ff[e][ffcount[e] - 1].codes
        BY <2>1 DEF FramesTellTheCodes
      <3>4. ffcount[e] # 0 => ffcount[e] > 0 /\ ffcount[e] - 1 \in 0..ffcount[e] - 1
        BY <2>1
      <3> QED
        BY <2>1, <3>1, <3>2, <3>3, <3>4
    <2> QED
      BY <2>3, <2>4
  <1>3. Poll \/ UNCHANGED vars
    BY DEF Next, controlVars, Idle, ReadNothing, ReadLine, AtAsk, AtSet, AtTimeout, AtReset,
           AtReply, Answer, AnswerCodes, AnswerClear, AnswerFrozen, AnswerFaults,
           AnswerOther, SkipEcu,
           AskEcu, AllAsked, Reply, Stop
  <1> QED
    BY <1>1, <1>2, <1>3

-----------------------------------------------------------------------------
(* Time.                                                                   *)

\* What the order of the ECUs gives the loop that asks them.
LEMMA PlacesOfEcus ==
  ASSUME TypeOK, OrderInv
  PROVE  /\ \A i \in Ecus : /\ ecudelays[i].ecu \in Ecus
                            /\ customdelay[ecudelays[i].ecu] \in Nat
                            /\ ecudelays[i].delay \in Nat
         /\ \A i, j \in Ecus : ecudelays[i].ecu = ecudelays[j].ecu => i = j
         /\ \A e \in Ecus : \E i \in Ecus : ecudelays[i].ecu = e
         /\ ecudelays[1].delay = customdelay[ecudelays[1].ecu]
         /\ \A i \in Ecus \ {1} :
              /\ ecudelays[i].delay =
                   customdelay[ecudelays[i].ecu] - customdelay[ecudelays[i - 1].ecu]
              /\ customdelay[ecudelays[i - 1].ecu] <= customdelay[ecudelays[i].ecu]
  <1>1. PICK place \in SortedPlaces(customdelay) : ecudelays = Deltas(customdelay, place)
    BY DEF OrderInv
  <1>2. /\ \A i \in Ecus : place[i] \in Ecus
        /\ \A i, j \in Ecus : place[i] = place[j] => i = j
        /\ \A e \in Ecus : \E i \in Ecus : place[i] = e
        /\ \A i, j \in Ecus : i < j => customdelay[place[i]] <= customdelay[place[j]]
    BY DEF SortedPlaces, Bijection, Injection, Surjection, IsInjective
  <1>3. \A i \in Ecus : /\ ecudelays[i].ecu = place[i]
                        /\ ecudelays[i].delay = IF i = 1 THEN customdelay[place[i]]
                             ELSE customdelay[place[i]] - customdelay[place[i - 1]]
    BY <1>1 DEF Deltas
  <1>4. 1 \in Ecus /\ \A i \in Ecus \ {1} : i - 1 \in Ecus /\ i - 1 < i
    BY SimAssumption DEF Ecus
  <1>5. \A i \in Ecus : customdelay[place[i]] \in Nat /\ ecudelays[i].delay \in Nat
    BY <1>2, SimAssumption DEF TypeOK, DelayTypes
  <1>6. \A i \in Ecus : /\ ecudelays[i].ecu \in Ecus
                        /\ customdelay[ecudelays[i].ecu] \in Nat
                        /\ ecudelays[i].delay \in Nat
    BY <1>2, <1>3, <1>5
  <1>7. /\ \A i, j \in Ecus : ecudelays[i].ecu = ecudelays[j].ecu => i = j
        /\ \A e \in Ecus : \E i \in Ecus : ecudelays[i].ecu = e
    <2>1. \A i, j \in Ecus : ecudelays[i].ecu = ecudelays[j].ecu => i = j
      BY <1>2, <1>3
    <2>2. \A e \in Ecus : \E i \in Ecus : ecudelays[i].ecu = e
      BY <1>2, <1>3
    <2> QED
      BY <2>1, <2>2
  <1>8. ecudelays[1].delay = customdelay[ecudelays[1].ecu]
    BY <1>3, <1>4
  <1>9. ASSUME NEW i \in Ecus \ {1}
        PROVE  /\ ecudelays[i].delay =
                    customdelay[ecudelays[i].ecu] - customdelay[ecudelays[i - 1].ecu]
               /\ customdelay[ecudelays[i - 1].ecu] <= customdelay[ecudelays[i].ecu]
    <2>1. i \in Ecus /\ i - 1 \in Ecus /\ i - 1 < i /\ i # 1
      BY <1>4
    <2>2. ecudelays[i].ecu = place[i] /\ ecudelays[i - 1].ecu = place[i - 1]
      BY <1>3, <2>1
    <2>3. ecudelays[i].delay = customdelay[place[i]] - customdelay[place[i - 1]]
      BY <1>3, <2>1
    <2>4. customdelay[place[i - 1]] <= customdelay[place[i]]
      BY <1>2, <2>1
    <2> QED
      BY <2>2, <2>3, <2>4
  <1> QED
    BY <1>6, <1>7, <1>8, <1>9

LEMMA TimeInit == Init => OrderInv /\ TimeInv /\ TurnsInv /\ EchoInv
  <1> SUFFICES ASSUME Init PROVE OrderInv /\ TimeInv /\ TurnsInv /\ EchoInv
    OBVIOUS
  <1>1. OrderInv
    BY DEF Init, OrderInv
  <1>2. TimeInv
    BY SimAssumption DEF Init, TimeInv
  <1>3. TurnsInv
    BY DEF Init, TurnsInv, AskingOrAsked
  <1>4. EchoInv
    BY DEF Init, EchoInv
  <1> QED
    BY <1>1, <1>2, <1>3, <1>4

LEMMA OrderStep == OrderInv /\ [Next]_vars => OrderInv'
  BY DelaysAreKept DEF OrderInv, delayVars

LEMMA EchoStep == TypeOK /\ EchoInv /\ [Next]_vars => EchoInv'
  <1> SUFFICES ASSUME TypeOK, EchoInv, [Next]_vars PROVE EchoInv'
    OBVIOUS
  <1>1. CASE AtSet
    <2>1. flags'["echo"] = IF line.flag = "echo" THEN line.on ELSE flags["echo"]
      BY <1>1 DEF AtSet, TypeOK, SettingTypes, Flags
    <2> QED
      BY <1>1, <2>1 DEF AtSet, EchoInv
  <1>2. CASE AtTimeout
    BY <1>2 DEF AtTimeout, EchoInv
  <1>3. CASE AtReset
    BY <1>3 DEF AtReset, EchoInv
  <1>4. CASE UNCHANGED settingVars
    BY <1>4 DEF settingVars, EchoInv
  <1> QED
    BY <1>1, <1>2, <1>3, <1>4, SettingsAreKept

\* The timeout is not changed in the middle of a request.
LEMMA TimeoutIsKept ==
  [Next]_vars => \/ e_timeout' = e_timeout
                 \/ AtReply("OK") \/ AtReply("text")
  BY SettingsAreKept DEF AtSet, AtTimeout, AtReset, settingVars

LEMMA TimeStep == TypeOK /\ TimeInv /\ [Next]_vars => TimeInv'
  <1> SUFFICES ASSUME TypeOK, TimeInv, [Next]_vars PROVE TimeInv'
    OBVIOUS
  <1>1. /\ accumulated \in Nat /\ waited \in Nat /\ e_timeout \in Nat
        /\ e_timeout' \in Nat /\ EcuCount \in Nat \ {0} /\ asked \in 0..EcuCount
        /\ \A i \in Ecus : ecudelays[i].delay \in Nat
    BY TypeStep, SimAssumption DEF TypeOK, RequestTypes, SettingTypes, DelayTypes
  <1>2. ASSUME NEW text, AtReply(text) PROVE TimeInv'
    <2>1. waited' = 0 /\ RequestDone /\ pc' = "idle"
      BY <1>2 DEF AtReply, TimeInv
    <2> QED
      BY <1>1, <2>1 DEF RequestDone, TimeInv
  <1>3. CASE AskEcu
    <2>1. asked + 1 \in Ecus
      BY <1>1, <1>3 DEF AskEcu, Ecus
    <2>2. accumulated' <= e_timeout
      BY <1>1, <1>3, <2>1 DEF AskEcu, TimesOut
    <2>3. e_timeout' = e_timeout /\ waited' = waited /\ pc' \in {"ecus", "reply"}
      BY <1>3 DEF AskEcu, settingVars
    <2>4. waited = 0
      BY <1>3 DEF AskEcu, TimeInv
    <2> QED
      BY <1>1, <2>2, <2>3, <2>4 DEF TimeInv
  <1>4. CASE Reply
    <2>1. waited' = accumulated + (e_timeout - accumulated) \/ waited' = accumulated
      BY <1>4 DEF Reply
    <2>2. waited' <= e_timeout
      BY <1>1, <2>1 DEF TimeInv
    <2>3. e_timeout' = e_timeout /\ RequestDone /\ pc' = "idle"
      BY <1>4 DEF Reply, settingVars
    <2> QED
      BY <1>1, <2>2, <2>3 DEF RequestDone, TimeInv
  <1>5. CASE SkipEcu \/ AllAsked \/ AnswerFaults
    BY <1>5 DEF SkipEcu, AllAsked, AnswerFaults, TimeInv, controlVars, settingVars,
           replyVars
  <1>6. CASE Idle \/ Poll \/ ReadNothing \/ Stop
    BY <1>6 DEF Idle, Poll, ReadNothing, Stop, TimeInv, settingVars, replyVars
  <1>7. CASE ReadLine
    BY <1>1, <1>7 DEF ReadLine, TimeInv, settingVars
  <1>8. ASSUME NEW rs, Answer(rs) PROVE TimeInv'
    BY <1>8 DEF Answer, TimeInv, settingVars
  <1>9. CASE UNCHANGED vars
    BY <1>9 DEF vars, controlVars, settingVars, replyVars, TimeInv
  <1> QED
    BY <1>2, <1>3, <1>4, <1>5, <1>6, <1>7, <1>8, <1>9
    DEF Next, AtAsk, AtSet, AtTimeout, AtReset, AnswerCodes, AnswerClear, AnswerFrozen,
        AnswerOther

\* The next ECU considered: in time exactly when its own delay is, provided the
\* ones before it are accounted for.
LEMMA NextEcuInTime ==
  ASSUME TypeOK, OrderInv, TurnsInv, pc = "ecus", asked < EcuCount,
         customdelay[ecudelays[asked + 1].ecu] <= e_timeout
  PROVE  accumulated + ecudelays[asked + 1].delay = customdelay[ecudelays[asked + 1].ecu]
  <1>1. asked \in Nat /\ asked + 1 \in Ecus /\ EcuCount \in Nat /\ e_timeout \in Nat
    BY SimAssumption DEF TypeOK, RequestTypes, SettingTypes, Ecus
  <1>2. CASE asked = 0
    <2>1. accumulated = 0
      BY <1>2 DEF TurnsInv
    <2> QED
      BY <1>1, <1>2, <2>1, PlacesOfEcus
  <1>3. CASE asked # 0
    <2>1. asked \in Ecus /\ asked + 1 # 1 /\ (asked + 1) - 1 = asked /\ asked \in 1..asked
      BY <1>1, <1>3 DEF Ecus
    <2>2. /\ ecudelays[asked + 1].delay =
               customdelay[ecudelays[asked + 1].ecu] - customdelay[ecudelays[asked].ecu]
          /\ customdelay[ecudelays[asked].ecu] <= customdelay[ecudelays[asked + 1].ecu]
          /\ customdelay[ecudelays[asked].ecu] \in Nat
          /\ customdelay[ecudelays[asked + 1].ecu] \in Nat
      BY <1>1, <2>1, PlacesOfEcus
    <2>3. customdelay[ecudelays[asked].ecu] <= e_timeout
      BY <1>1, <2>2
    <2>4. AskedOnTime(asked)
      BY <2>1 DEF TurnsInv, AskingOrAsked
    <2>5. accumulated = customdelay[ecudelays[asked].ecu]
      BY <2>3, <2>4 DEF AskedOnTime
    <2> QED
      BY <2>2, <2>5
  <1> QED
    BY <1>2, <1>3

LEMMA TurnsStep ==
  TypeOK /\ OrderInv /\ TimeInv /\ TurnsInv /\ [Next]_vars => TurnsInv'
  <1> SUFFICES ASSUME TypeOK, OrderInv, TimeInv, TurnsInv, [Next]_vars PROVE TurnsInv'
    OBVIOUS
  <1>1. /\ asked \in Nat /\ asked \in 0..EcuCount /\ EcuCount \in Nat \ {0}
        /\ e_timeout \in Nat /\ accumulated \in Nat
        /\ turns \in Seq([ecu : Ecus, at : Nat, data : BOOLEAN])
    BY SimAssumption DEF TypeOK, RequestTypes, SettingTypes
  <1>2. customdelay' = customdelay /\ ecudelays' = ecudelays
    BY DelaysAreKept DEF delayVars
  <1>3. CASE SkipEcu
    <2>1. /\ pc = "ecus" /\ pc' = "ecus" /\ asked < EcuCount /\ asked' = asked + 1
          /\ accumulated' = accumulated /\ turns' = turns /\ e_timeout' = e_timeout
          /\ accumulated + ecudelays[asked + 1].delay > e_timeout
      BY <1>3 DEF SkipEcu, controlVars, settingVars, TimesOut
    <2>2. ~(customdelay[ecudelays[asked + 1].ecu] <= e_timeout)
      <3> SUFFICES ASSUME customdelay[ecudelays[asked + 1].ecu] <= e_timeout PROVE FALSE
        OBVIOUS
      <3>1. accumulated + ecudelays[asked + 1].delay = customdelay[ecudelays[asked + 1].ecu]
        BY <2>1, NextEcuInTime
      <3>2. asked + 1 \in Ecus
        BY <1>1, <2>1 DEF Ecus
      <3>3. /\ customdelay[ecudelays[asked + 1].ecu] \in Nat
            /\ ecudelays[asked + 1].delay \in Nat
        BY <3>2, PlacesOfEcus
      <3> QED
        BY <1>1, <2>1, <3>1, <3>3
    <2>3. \A i \in 1..asked' : AskedOnTime(i)'
      <3> SUFFICES ASSUME NEW i \in 1..asked' PROVE AskedOnTime(i)'
        OBVIOUS
      <3>1. CASE i = asked + 1
        BY <1>2, <2>1, <2>2, <3>1 DEF AskedOnTime
      <3>2. CASE i # asked + 1
        <4>1. i \in 1..asked /\ i # asked'
          BY <1>1, <2>1, <3>2
        <4>2. AskedOnTime(i)
          BY <2>1, <4>1 DEF TurnsInv, AskingOrAsked
        <4> QED
          BY <1>2, <2>1, <4>1, <4>2 DEF AskedOnTime
      <3> QED
        BY <3>1, <3>2
    <2>4. \A t \in DOMAIN turns' : \E i \in 1..asked' : turns'[t].ecu = ecudelays'[i].ecu
      <3>1. 1..asked \subseteq 1..asked'
        BY <1>1, <2>1
      <3> QED
        BY <1>2, <2>1, <3>1 DEF TurnsInv
    <2>5. asked' # 0 /\ ~(pc' = "reply")
      BY <1>1, <2>1
    <2> QED
      BY <2>1, <2>3, <2>4, <2>5 DEF TurnsInv
  <1>4. CASE AskEcu
    <2>1. /\ pc = "ecus" /\ asked < EcuCount /\ asked' = asked + 1
          /\ accumulated' = accumulated + ecudelays[asked + 1].delay
          /\ e_timeout' = e_timeout /\ line' = line
      BY <1>4 DEF AskEcu, settingVars
    <2>2. CASE turns' = turns /\ mustexit' /\ pc' = "reply"
      <3>1. ~AskingOrAsked'
        BY <2>2 DEF AskingOrAsked
      <3>2. 1..asked \subseteq 1..asked' /\ asked' # 0
        BY <1>1, <2>1
      <3>3. \A t \in DOMAIN turns' : \E i \in 1..asked' : turns'[t].ecu = ecudelays'[i].ecu
        BY <1>2, <2>2, <3>2 DEF TurnsInv
      <3> QED
        BY <2>2, <3>1, <3>2, <3>3 DEF TurnsInv
    <2>3. ASSUME NEW has \in BOOLEAN, pc' = pc,
                 turns' = Append(turns, [ecu |-> ecudelays[asked + 1].ecu,
                                         at |-> accumulated', data |-> has])
          PROVE  TurnsInv'
      <3>1. Len(turns) \in Nat /\ DOMAIN turns = 1..Len(turns)
        BY <1>1, LenProperties
      <3>2. /\ DOMAIN turns' = 1..Len(turns) + 1
            /\ \A t \in 1..Len(turns) : turns'[t] = turns[t]
            /\ turns'[Len(turns) + 1] = [ecu |-> ecudelays[asked + 1].ecu,
                                        at |-> accumulated', data |-> has]
        BY <1>1, <2>3, <3>1
      <3>3. /\ turns'[Len(turns) + 1].ecu = ecudelays[asked + 1].ecu
            /\ turns'[Len(turns) + 1].at = accumulated'
        BY <3>2
      <3>4. Len(turns) + 1 \in DOMAIN turns' /\ 1..Len(turns) \subseteq DOMAIN turns'
        BY <3>1, <3>2
      <3>5. asked + 1 \in 1..asked' /\ 1..asked \subseteq 1..asked' /\ asked' # 0
            /\ asked + 1 \in Ecus /\ 1..asked \subseteq Ecus /\ asked + 1 \notin 1..asked
        BY <1>1, <2>1 DEF Ecus
      <3>6. ASSUME NEW i \in 1..asked' PROVE AskedOnTime(i)'
        <4>1. CASE i = asked + 1
          <5> SUFFICES ASSUME customdelay[ecudelays[i].ecu] <= e_timeout
                       PROVE  /\ \E t \in DOMAIN turns' :
                                   /\ turns'[t].ecu = ecudelays[i].ecu
                                   /\ turns'[t].at = customdelay[ecudelays[i].ecu]
                              /\ accumulated' = customdelay[ecudelays[i].ecu]
            BY <1>2, <2>1 DEF AskedOnTime
          <5>1. accumulated' = customdelay[ecudelays[i].ecu]
            BY <2>1, <4>1, NextEcuInTime
          <5> QED
            BY <3>3, <3>4, <4>1, <5>1
        <4>2. CASE i # asked + 1
          <5>1. i \in 1..asked /\ i # asked'
            BY <1>1, <2>1, <4>2
          <5>2. AskedOnTime(i)
            BY <2>1, <5>1 DEF TurnsInv, AskingOrAsked
          <5>3. customdelay[ecudelays[i].ecu] <= e_timeout =>
                  \E t \in DOMAIN turns : /\ turns[t].ecu = ecudelays[i].ecu
                                          /\ turns[t].at = customdelay[ecudelays[i].ecu]
            BY <5>2 DEF AskedOnTime
          <5>4. customdelay[ecudelays[i].ecu] <= e_timeout =>
                  \E t \in DOMAIN turns' : /\ turns'[t].ecu = ecudelays[i].ecu
                                           /\ turns'[t].at = customdelay[ecudelays[i].ecu]
            BY <3>1, <3>2, <3>4, <5>3
          <5> QED
            BY <1>2, <2>1, <5>1, <5>4 DEF AskedOnTime
        <4> QED
          BY <4>1, <4>2
      <3>7. ASSUME NEW t \in DOMAIN turns'
            PROVE  \E i \in 1..asked' : turns'[t].ecu = ecudelays'[i].ecu
        <4>1. CASE t = Len(turns) + 1
          BY <1>2, <3>3, <3>5, <4>1
        <4>2. CASE t # Len(turns) + 1
          <5>1. t \in DOMAIN turns /\ turns'[t] = turns[t]
            BY <3>1, <3>2, <4>2
          <5>2. \E i \in 1..asked : turns[t].ecu = ecudelays[i].ecu
            BY <5>1 DEF TurnsInv
          <5> QED
            BY <1>2, <3>5, <5>1, <5>2
        <4> QED
          BY <4>1, <4>2
      <3>8. ASSUME NEW t \in DOMAIN turns PROVE turns[t].ecu # ecudelays[asked + 1].ecu
        <4>1. PICK i \in 1..asked : turns[t].ecu = ecudelays[i].ecu
          BY DEF TurnsInv
        <4>2. i \in Ecus /\ i # asked + 1
          BY <3>5
        <4> QED
          BY <3>5, <4>1, <4>2, PlacesOfEcus
      <3>9. ASSUME NEW t \in DOMAIN turns', NEW u \in DOMAIN turns',
                   turns'[t].ecu = turns'[u].ecu
            PROVE  t = u
        <4>1. \A v \in DOMAIN turns' : v # Len(turns) + 1 =>
                v \in DOMAIN turns /\ turns'[v] = turns[v]
          BY <3>1, <3>2
        <4>2. CASE t # Len(turns) + 1 /\ u # Len(turns) + 1
          BY <3>9, <4>1, <4>2 DEF TurnsInv
        <4>3. CASE t = Len(turns) + 1 \/ u = Len(turns) + 1
          BY <3>3, <3>8, <3>9, <4>1, <4>3
        <4> QED
          BY <4>2, <4>3
      <3>10. ~(pc' = "reply")
        BY <2>1, <2>3
      <3> QED
        BY <3>5, <3>6, <3>7, <3>9, <3>10 DEF TurnsInv
    <2> QED
      BY <1>4, <2>2, <2>3 DEF AskEcu
  <1>5. CASE RequestDone /\ pc' = "idle"
    BY <1>5 DEF RequestDone, TurnsInv, AskingOrAsked
  <1>6. CASE UNCHANGED Requesting
    <2>1. AskingOrAsked' => \/ AskingOrAsked /\ e_timeout' = e_timeout
                            \/ asked = 0 /\ pc' = "ecus"
      <3>1. CASE UNCHANGED vars
        BY <3>1 DEF vars, controlVars, settingVars, AskingOrAsked
      <3>2. CASE Idle \/ Poll \/ ReadNothing \/ Stop \/ Reply
        BY <3>2 DEF Idle, Poll, ReadNothing, Stop, Reply, AskingOrAsked
      <3>3. CASE ReadLine
        BY <3>3 DEF ReadLine, AskingOrAsked, TimeInv
      <3>4. CASE AtAsk \/ AtSet \/ AtTimeout \/ AtReset
        BY <3>4 DEF AtAsk, AtSet, AtTimeout, AtReset, AtReply, AskingOrAsked
      <3>5. CASE AnswerCodes \/ AnswerClear \/ AnswerFrozen \/ AnswerFaults \/ AnswerOther
        BY <3>5 DEF AnswerCodes, AnswerClear, AnswerFrozen, AnswerFaults, AnswerOther,
               Answer, AskingOrAsked
      <3>6. CASE SkipEcu \/ AskEcu
        BY <1>1, <1>6, <3>6 DEF SkipEcu, AskEcu, Requesting
      <3>7. CASE AllAsked
        BY <3>7 DEF AllAsked, settingVars, AskingOrAsked
      <3> QED
        BY <3>1, <3>2, <3>3, <3>4, <3>5, <3>6, <3>7 DEF Next
    <2>2. AskingOrAsked' /\ pc' = "reply" => asked = EcuCount
      <3>1. CASE UNCHANGED vars
        BY <3>1 DEF vars, controlVars, AskingOrAsked, TurnsInv
      <3>2. CASE Idle \/ Poll \/ ReadNothing \/ ReadLine \/ Stop \/ Reply
        BY <3>2 DEF Idle, Poll, ReadNothing, ReadLine, Stop, Reply
      <3>3. CASE AtAsk \/ AtSet \/ AtTimeout \/ AtReset
        BY <3>3 DEF AtAsk, AtSet, AtTimeout, AtReset, AtReply
      <3>4. CASE AnswerCodes \/ AnswerClear \/ AnswerFrozen \/ AnswerFaults \/ AnswerOther
        BY <3>4 DEF AnswerCodes, AnswerClear, AnswerFrozen, AnswerFaults, AnswerOther,
               Answer, AskingOrAsked
      <3>5. CASE SkipEcu \/ AskEcu
        BY <1>1, <1>6, <3>5 DEF SkipEcu, AskEcu, Requesting
      <3>6. CASE AllAsked
        BY <3>6 DEF AllAsked
      <3> QED
        BY <3>1, <3>2, <3>3, <3>4, <3>5, <3>6 DEF Next
    <2>3. /\ asked' = asked /\ accumulated' = accumulated /\ turns' = turns
      BY <1>6 DEF Requesting
    <2>4. AskingOrAsked' => \A i \in 1..asked' : AskedOnTime(i)'
      <3>1. CASE asked = 0
        BY <2>3, <3>1
      <3>2. CASE AskingOrAsked /\ e_timeout' = e_timeout
        BY <1>2, <2>3, <3>2 DEF TurnsInv, AskedOnTime
      <3> QED
        BY <2>1, <3>1, <3>2
    <2> QED
      BY <1>2, <2>2, <2>3, <2>4 DEF TurnsInv
  <1> QED
    BY <1>3, <1>4, <1>5, <1>6, RequestsChange

-----------------------------------------------------------------------------
(* What holds of every run.                                                *)

\* All of SimInv: the frames kept, the order of the ECUs, the time a request has
\* taken, who was asked, and the echo of the port.
THEOREM SimInvariant == Spec => []SimInv
  <1>1. Init => SimInv
    BY TypeInit, FramesInit, TimeInit DEF SimInv
  <1>2. SimInv /\ [Next]_vars => SimInv'
    BY TypeStep, FramesStep, OrderStep, TimeStep, TurnsStep, EchoStep DEF SimInv
  <1> QED
    BY <1>1, <1>2, PTL DEF Spec

\* The counted frames of an ECU are all of the codes it had at the last poll,
\* unless codes went and came back where no poll could see it.
THEOREM SimFrames == Spec => []FramesTellTheCodes
  <1>1. SimInv => FramesTellTheCodes
    BY DEF SimInv
  <1> QED
    BY <1>1, SimInvariant, PTL

\* Codes have a frame when the client's line is read, while there is room.
THEOREM SimCodesFrozen == Spec => []CodesAreFrozen
  <1>1. Init => CodesAreFrozen
    BY DEF Init, CodesAreFrozen
  <1>2. SimInv /\ CodesAreFrozen /\ [Next]_vars => CodesAreFrozen'
    BY CodesStep DEF SimInv
  <1> QED
    BY <1>1, <1>2, SimInvariant, PTL DEF Spec

\* A counted frame is never overwritten.
THEOREM SimFrozen == Spec => FrozenStaysFrozen
  <1>1. TypeOK /\ [Next]_vars =>
          [\A e \in Ecus : \A f \in 0..ffcount[e] - 1 : ff'[e][f] = ff[e][f]]_vars
    BY FrozenStep
  <1> QED
    BY <1>1, SimTypes, PTL DEF Spec, FrozenStaysFrozen

\* No request takes longer than the timeout, for any number of ECUs and delays.
THEOREM SimPrompt == Spec => []PromptInTime
  <1>1. SimInv => PromptInTime
    BY DEF SimInv, TimeInv, PromptInTime
  <1> QED
    BY <1>1, SimInvariant, PTL

\* Every ECU that is quick enough is asked once, after exactly its own delay.
THEOREM SimEarlyEcus == Spec => []EarlyEcusAsked
  <1>1. SimInv => EarlyEcusAsked
    <2> SUFFICES ASSUME SimInv, pc = "reply", line.cmd = "live", ~mustexit,
                        NEW e \in Ecus, customdelay[e] <= e_timeout
                 PROVE  \E i \in DOMAIN turns :
                          /\ turns[i].ecu = e /\ turns[i].at = customdelay[e]
                          /\ \A j \in DOMAIN turns : turns[j].ecu = e => j = i
      BY DEF EarlyEcusAsked
    <2>1. PICK i \in Ecus : ecudelays[i].ecu = e
      BY PlacesOfEcus DEF SimInv
    <2>2. i \in 1..asked /\ AskingOrAsked
      BY DEF SimInv, TurnsInv, AskingOrAsked, Ecus
    <2>3. AskedOnTime(i)
      BY <2>2 DEF SimInv, TurnsInv
    <2>4. PICK t \in DOMAIN turns : turns[t].ecu = e /\ turns[t].at = customdelay[e]
      BY <2>1, <2>3 DEF AskedOnTime
    <2>5. \A j \in DOMAIN turns : turns[j].ecu = e => j = t
      BY <2>4 DEF SimInv, TurnsInv
    <2> QED
      BY <2>4, <2>5
  <1> QED
    BY <1>1, SimInvariant, PTL

-----------------------------------------------------------------------------
(* The frames that are told.                                               *)

\* A set of numbers that is not empty has a least one: what takes the place of
\* induction below.
LEMMA LeastNumber ==
  ASSUME NEW S \in SUBSET Nat, S # {}
  PROVE  \E x \in S : \A y \in S : x <= y
  <1>1. IsWellFoundedOn(OpToRel(<, Nat), Nat)
    BY NatLessThanWellFounded
  <1>2. PICK x \in S : \A y \in S : <<y, x>> \notin OpToRel(<, Nat)
    BY <1>1, WFMin
  <1>3. \A y \in S : x <= y
    <2> TAKE y \in S
    <2>1. x \in Nat /\ y \in Nat /\ <<y, x>> \in Nat \X Nat
      OBVIOUS
    <2>2. ~(y < x)
      BY <1>2, <2>1 DEF OpToRel
    <2> QED
      BY <2>1, <2>2
  <1> QED
    BY <1>3

\* The sequences so far, one after the other, for the first m of them.
IsFlat(f, seqs, m) ==
  f = [i \in 1..m |-> IF i = 1 THEN seqs[i] ELSE f[i - 1] \o seqs[i]]

LEMMA FlatExists ==
  ASSUME NEW X, NEW n \in Nat, NEW seqs \in [1..n -> Seq(X)], NEW m \in 1..n
  PROVE  \E f : IsFlat(f, seqs, m)
  <1> DEFINE Bad == {k \in 1..n : ~ \E f : IsFlat(f, seqs, k)}
  <1> SUFFICES ASSUME Bad # {} PROVE FALSE
    OBVIOUS
  <1>1. Bad \in SUBSET Nat
    OBVIOUS
  <1>2. PICK k \in Bad : \A j \in Bad : k <= j
    BY <1>1, LeastNumber
  <1>3. k \in 1..n
    OBVIOUS
  <1>4. CASE k = 1
    <2> DEFINE g == [i \in 1..1 |-> seqs[1]]
    <2>1. IsFlat(g, seqs, 1)
      BY DEF IsFlat
    <2> QED
      BY <1>4, <2>1
  <1>5. CASE k # 1
    <2>1. k - 1 \in 1..n /\ ~(k <= k - 1) /\ 1..k = (1..(k - 1)) \cup {k} /\ k \notin 1..(k - 1)
      BY <1>3, <1>5
    <2>2. PICK f : IsFlat(f, seqs, k - 1)
      BY <1>2, <2>1
    <2> DEFINE g == [i \in 1..k |-> IF i = k THEN f[k - 1] \o seqs[k] ELSE f[i]]
    <2>3. ASSUME NEW i \in 1..k
          PROVE  g[i] = IF i = 1 THEN seqs[i] ELSE g[i - 1] \o seqs[i]
      <3>1. CASE i = k
        <4>1. g[k - 1] = f[k - 1] /\ g[k] = f[k - 1] \o seqs[k]
          BY <2>1
        <4> QED
          BY <1>5, <3>1, <4>1
      <3>2. CASE i # k
        <4>1. i \in 1..(k - 1) /\ g[i] = f[i]
          BY <2>1, <3>2
        <4>2. f[i] = IF i = 1 THEN seqs[i] ELSE f[i - 1] \o seqs[i]
          BY <2>2, <4>1 DEF IsFlat
        <4>3. i # 1 => i - 1 \in 1..k /\ i - 1 # k
          BY <1>3, <3>2
        <4> QED
          BY <4>1, <4>2, <4>3
      <3> QED
        BY <3>1, <3>2
    <2>4. IsFlat(g, seqs, k)
      BY <2>3 DEF IsFlat
    <2> QED
      BY <2>4
  <1> QED
    BY <1>4, <1>5

LEMMA FlatTyped ==
  ASSUME NEW X, NEW n \in Nat, NEW seqs \in [1..n -> Seq(X)], NEW f, IsFlat(f, seqs, n),
         NEW m \in 1..n
  PROVE  f[m] \in Seq(X)
  <1> DEFINE Bad == {k \in 1..n : f[k] \notin Seq(X)}
  <1> SUFFICES ASSUME Bad # {} PROVE FALSE
    OBVIOUS
  <1>1. Bad \in SUBSET Nat
    OBVIOUS
  <1>2. PICK k \in Bad : \A j \in Bad : k <= j
    BY <1>1, LeastNumber
  <1>3. k \in 1..n /\ f[k] = IF k = 1 THEN seqs[k] ELSE f[k - 1] \o seqs[k]
    BY DEF IsFlat
  <1>4. CASE k = 1
    BY <1>3, <1>4
  <1>5. CASE k # 1
    <2>1. k - 1 \in 1..n /\ ~(k <= k - 1)
      BY <1>3, <1>5
    <2>2. f[k - 1] \in Seq(X) /\ seqs[k] \in Seq(X)
      BY <1>2, <1>3, <2>1
    <2>3. f[k - 1] \o seqs[k] \in Seq(X)
      BY <2>2, ConcatProperties
    <2> QED
      BY <1>3, <1>5, <2>3
  <1> QED
    BY <1>4, <1>5

\* What is in a flattened sequence was in one of its parts.
LEMMA FlattenedIn ==
  ASSUME NEW X, NEW n \in Nat \ {0}, NEW seqs \in [1..n -> Seq(X)]
  PROVE  FlattenSeq(seqs) \in Seq(X)
  <1>1. seqs \in Seq(Seq(X)) /\ Len(seqs) = n
    BY IsASeq, LenProperties
  <1> DEFINE flat == CHOOSE f : IsFlat(f, seqs, n)
  <1>2. IsFlat(flat, seqs, n)
    <2>1. n \in 1..n
      OBVIOUS
    <2>2. \E f : IsFlat(f, seqs, n)
      BY <2>1, FlatExists
    <2> QED
      BY <2>2
  <1>3. FlattenSeq(seqs) = flat[n]
    BY <1>1 DEF FlattenSeq, IsFlat
  <1> HIDE DEF flat
  <1>4. flat[n] \in Seq(X)
    <2>1. n \in 1..n
      OBVIOUS
    <2> QED
      BY <1>2, <2>1, FlatTyped
  <1> QED
    BY <1>3, <1>4

\* All there is to tell: what the tests on the number let through.
TellableFrames ==
  UNION {{SaysFrame(e, FrameAt(e, line.frame, strays)) : strays \in SUBSET Ecus} :
           e \in {d \in Ecus : Serves(d, line.frame)}}

LEMMA FrozenAnswers ==
  ASSUME TypeOK, AnswerFrozen
  PROVE  replies' \in Seq(TellableFrames)
  <1>1. PICK strays \in SUBSET Ecus :
          replies' = FlattenSeq([e \in Ecus |-> FrozenLines(e, strays)])
    BY DEF AnswerFrozen, Answer
  <1> DEFINE parts == [e \in Ecus |-> FrozenLines(e, strays)]
  <1>2. \A e \in Ecus : parts[e] \in Seq(TellableFrames)
    <2> TAKE e \in Ecus
    <2> DEFINE told == SaysFrame(e, FrameAt(e, line.frame, strays))
    <2>1. CASE Serves(e, line.frame) /\ FrameAt(e, line.frame, strays).data
      <3>1. told \in TellableFrames
        BY <2>1 DEF TellableFrames
      <3>2. <<told>> \in Seq(TellableFrames)
        BY <3>1
      <3> QED
        BY <2>1, <3>2 DEF FrozenLines
    <2>2. CASE ~(Serves(e, line.frame) /\ FrameAt(e, line.frame, strays).data)
      BY <2>2, EmptySeq DEF FrozenLines
    <2> QED
      BY <2>1, <2>2
  <1>3. parts \in [1..EcuCount -> Seq(TellableFrames)]
    BY <1>2 DEF Ecus
  <1>4. FlattenSeq(parts) \in Seq(TellableFrames)
    BY <1>3, FlattenedIn, SimAssumption
  <1> QED
    BY <1>1, <1>4

LEMMA CodeAnswers ==
  ASSUME TypeOK, AnswerCodes
  PROVE  replies' \in Seq({SaysCodes(e) : e \in Ecus})
  <1> DEFINE Texts == {SaysCodes(e) : e \in Ecus}
             parts == [e \in Ecus |-> CodeLines(e)]
  <1>1. \A e \in Ecus : parts[e] \in Seq(Texts)
    <2> TAKE e \in Ecus
    <2>1. CASE e \in Coded /\ codes[e] > 0
      <3> DEFINE k == (codes[e] + 2) \div 3
      <3>1. codes[e] \in Int
        BY SimAssumption DEF TypeOK, OutsideTypes
      <3>2. k \in Nat
        BY <2>1, <3>1
      <3>3. SaysCodes(e) \in Texts
        OBVIOUS
      <3> HIDE DEF k, Texts
      <3>4. [j \in 1..k |-> SaysCodes(e)] \in [1..k -> Texts]
        BY <3>3
      <3>5. [j \in 1..k |-> SaysCodes(e)] \in Seq(Texts)
        BY <3>2, <3>4, IsASeq
      <3> QED
        BY <2>1, <3>5 DEF CodeLines, k
    <2>2. CASE ~(e \in Coded /\ codes[e] > 0)
      BY <2>2, EmptySeq DEF CodeLines
    <2> QED
      BY <2>1, <2>2
  <1>2. parts \in [1..EcuCount -> Seq(Texts)]
    BY <1>1 DEF Ecus
  <1> HIDE DEF Texts
  <1>3. FlattenSeq(parts) \in Seq(Texts)
    BY <1>2, FlattenedIn, SimAssumption
  <1> QED
    BY <1>3 DEF AnswerCodes, Answer, Texts

\* A frame that can be told is of the codes the last poll saw, or one of the three
\* exceptions is its cause.
LEMMA TellableIsCurrent ==
  ASSUME TypeOK, FramesTellTheCodes, line.cmd = "frozen", NEW r \in TellableFrames
  PROVE  \/ r.frame.set = seen[r.ecu]
         \/ missed[r.ecu]
         \/ line.frame = ffcount[r.ecu]
         \/ line.frame < 0
  <1>1. PICK e \in Ecus : /\ Serves(e, line.frame)
                          /\ \E strays : r = SaysFrame(e, FrameAt(e, line.frame, strays))
    BY DEF TellableFrames
  <1>2. line.frame \in Int
    <2>1. line \notin {Garbage, NoLine}
      BY DEF Garbage, NoLine
    <2>2. line \in AllLines
      BY <2>1, SimAssumption DEF TypeOK, ControlTypes
    <2> QED
      BY <2>2 DEF AllLines
  <1>3. ffcount[e] \in Nat /\ line.frame <= ffcount[e]
    BY <1>1, SimAssumption DEF TypeOK, FrameTypes, Serves
  <1>4. r.ecu = e /\ (line.frame >= 0 => r.frame = ff[e][line.frame])
    BY <1>1, <1>2 DEF SaysFrame, FrameAt
  <1>5. CASE line.frame = ffcount[e] \/ line.frame < 0
    BY <1>4, <1>5
  <1>6. CASE line.frame # ffcount[e] /\ ~(line.frame < 0)
    <2>1. line.frame \in 0..ffcount[e] - 1 /\ line.frame >= 0
      BY <1>2, <1>3, <1>6
    <2>2. ff[e][line.frame].set = seen[e] \/ missed[e]
      BY <2>1 DEF FramesTellTheCodes
    <2> QED
      BY <1>4, <2>1, <2>2
  <1> QED
    BY <1>5, <1>6

LEMMA ServesStep ==
  TypeOK /\ FramesTellTheCodes /\ ServesInv /\ [Next]_vars => ServesInv'
  <1> SUFFICES ASSUME TypeOK, FramesTellTheCodes, ServesInv, [Next]_vars PROVE ServesInv'
    OBVIOUS
  <1>1. ASSUME pc' = "reply", NEW L, replies' \in Seq(L), \A r \in L : r.says # "frame"
        PROVE  ServesInv'
    BY <1>1, ElementOfSeq, LenProperties DEF ServesInv, ServedFramesAreCurrent
  <1>2. CASE AnswerFrozen
    <2>1. /\ pc' = "reply" /\ line' = line /\ seen' = seen /\ missed' = missed
          /\ ffcount' = ffcount /\ line.cmd = "frozen"
      BY <1>2 DEF AnswerFrozen, Answer, frameVars
    <2>2. replies' \in Seq(TellableFrames)
      BY <1>2, FrozenAnswers
    <2>3. \A i \in DOMAIN replies' : replies'[i] \in TellableFrames
      BY <2>2, ElementOfSeq, LenProperties
    <2>4. \A i \in DOMAIN replies' : \/ replies'[i].frame.set = seen[replies'[i].ecu]
                                     \/ missed[replies'[i].ecu]
                                     \/ line.frame = ffcount[replies'[i].ecu]
                                     \/ line.frame < 0
      BY <2>1, <2>3, TellableIsCurrent
    <2> QED
      BY <2>1, <2>4 DEF ServesInv, ServedFramesAreCurrent
  <1>3. CASE AnswerCodes
    <2>1. pc' = "reply"
      BY <1>3 DEF AnswerCodes, Answer
    <2>2. \A r \in {SaysCodes(e) : e \in Ecus} : r.says # "frame"
      BY DEF SaysCodes
    <2> QED
      BY <1>1, <1>3, <2>1, <2>2, CodeAnswers
  <1>4. CASE AnswerClear \/ AnswerOther
    <2>1. pc' = "reply" /\ replies' \in {<<Says("OK")>>, <<Says("?")>>, <<>>}
      BY <1>4 DEF AnswerClear, AnswerOther, Answer
    <2>2. \A i \in DOMAIN replies' : replies'[i].says # "frame"
      BY <2>1 DEF Says
    <2> QED
      BY <2>1, <2>2 DEF ServesInv, ServedFramesAreCurrent
  <1>5. CASE SkipEcu \/ AskEcu \/ AllAsked
    <2>1. replies' = replies /\ replies = <<>>
      BY <1>5 DEF SkipEcu, AskEcu, AllAsked, replyVars, ServesInv
    <2> QED
      BY <2>1 DEF ServesInv, ServedFramesAreCurrent
  <1>6. CASE ReadLine
    <2>1. replies' = <<>> /\ pc' # "reply"
      BY <1>6 DEF ReadLine
    <2> QED
      BY <2>1 DEF ServesInv, ServedFramesAreCurrent
  <1>7. CASE \/ Idle \/ Poll \/ ReadNothing \/ AtAsk \/ AtSet \/ AtTimeout \/ AtReset
             \/ AnswerFaults \/ Reply \/ Stop
    <2>1. pc' \notin {"reply", "ecus"}
      BY <1>7 DEF Idle, Poll, ReadNothing, AtAsk, AtSet, AtTimeout, AtReset, AtReply,
                  AnswerFaults, Reply, Stop
    <2> QED
      BY <2>1 DEF ServesInv, ServedFramesAreCurrent
  <1>8. CASE UNCHANGED vars
    BY <1>8 DEF vars, controlVars, frameVars, replyVars, ServesInv, ServedFramesAreCurrent
  <1> QED
    BY <1>2, <1>3, <1>4, <1>5, <1>6, <1>7, <1>8 DEF Next

\* A frame that is told is one of the codes its ECU had when the line was read, but
\* for the three causes the property names, whatever lines the client sends and
\* however many ECUs answer.
THEOREM SimServesCurrent == Spec => []ServedFramesAreCurrent
  <1>1. Init => ServesInv
    BY DEF Init, ServesInv, ServedFramesAreCurrent
  <1>2. SimInv /\ ServesInv /\ [Next]_vars => ServesInv'
    BY ServesStep DEF SimInv
  <1>3. ServesInv => ServedFramesAreCurrent
    BY DEF ServesInv
  <1> QED
    BY <1>1, <1>2, <1>3, SimInvariant, PTL DEF Spec
=============================================================================
