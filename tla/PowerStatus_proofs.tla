------------------------- MODULE PowerStatus_proofs -------------------------
(***************************************************************************)
(* For any readings of the gauge and any max_age_s: the badge follows its   *)
(* readings steadily, and shows no level of a reading older than it may be. *)
(*                                                                         *)
(* The second needs the age of an answer on its way, which is no older than *)
(* what it says: time passes only while none is.                            *)
(***************************************************************************)
EXTENDS PowerStatus, TLAPS

\* Where the variables range, the badge aside.
PowerTypes ==
  /\ poller \in {"unbuilt", "none", "built", "reading", "waiting", "due", "ended"}
  /\ closing \in {"no", "joining", "returned"}
  /\ status \in Statuses /\ age \in 0..Oldest
  /\ answer \in Statuses \union {NoAnswer} /\ answerAge \in 0..Oldest
  /\ silent \in 0..2 /\ basis \in 0..Oldest

\* What an answer says is of a recent reading, or it says no level.
AnswerIsFresh == answer.percent >= 0 => answerAge <= MaxAge

Inv ==
  /\ PowerTypes /\ sinceCharging \in 0..kDischargeConfirmPolls
  /\ BadgeIsSteady /\ BadgeIsFresh /\ AnswerIsFresh
-----------------------------------------------------------------------------
\* A word has two bytes.
LEMMA Bytes == ASSUME NEW w \in Words PROVE w % 256 \in 0..255 /\ w \div 256 \in 0..255
<1>1. w \in Nat /\ w <= 65535
  BY DEF Words
<1> QED
  BY <1>1

LEMMA HighByte ==
  ASSUME NEW a \in 0..255, NEW b \in 0..255 PROVE (a * 256 + b) \div 256 = a
OBVIOUS

\* The gauge's register, whatever is in it, is read as a percentage
\* (X728Ups.read, whose words come the other way round).
LEMMA DecodedIsPercentage ==
  ASSUME NEW reading \in Readings PROVE UpsStatus(reading) \in Statuses
<1>1. reading.word \in Words /\ reading.external \in BOOLEAN
  BY PowerAssumption
<1> DEFINE low == reading.word % 256
           high == reading.word \div 256
<1>2. low \in 0..255 /\ high \in 0..255
  BY <1>1, Bytes
<1>3. DecodeWord(reading.word) = low * 256 + high
  BY DEF DecodeWord
<1> HIDE DEF low, high
<1>4. (low * 256 + high) \div 256 = low
  BY <1>2, HighByte
<1>5. (IF low > 100 THEN 100 ELSE low) \in Levels
  BY <1>2 DEF Levels
<1> QED
  BY <1>1, <1>3, <1>4, <1>5 DEF UpsStatus, Statuses

\* Averages of readings, in sixteenths of a percent, and whole percents.
Sixteenths == 0..1600
Percents == 0..100

\* The running average stays within the scale of the readings: a quarter of
\* the way is never too far, up or down.
LEMMA AverageInScale ==
  ASSUME NEW f \in Averages, NEW reading \in Percents
  PROVE  Filtered(f, reading) \in Sixteenths
<1> USE DEF Averages, Sixteenths, Percents
<1>1. CASE f < 0
  BY <1>1 DEF Filtered
<1>2. CASE f >= 0 /\ reading * 16 - f >= 0
  <2>1. (reading * 16 - f) \div 4 \in 0..(reading * 16 - f)
    BY <1>2
  <2> QED
    BY <2>1, <1>2 DEF Filtered, Quarter
<1>3. CASE f >= 0 /\ reading * 16 - f < 0
  <2>1. (f - reading * 16) \div 4 \in 0..(f - reading * 16)
    BY <1>3
  <2>2. -(reading * 16 - f) = f - reading * 16
    OBVIOUS
  <2>3. Filtered(f, reading) = f - ((f - reading * 16) \div 4)
    BY <2>1, <2>2, <1>3 DEF Filtered, Quarter
  <2> QED
    BY <2>1, <2>3, <1>3
<1> QED
  BY <1>1, <1>2, <1>3

\* A badge's average in whole percents is a percentage.
LEMMA SmoothedInScale ==
  ASSUME NEW f \in Sixteenths PROVE Smoothed(f) \in Percents
BY DEF Smoothed, Sixteenths, Percents

\* A badge with another level and average is a badge.
Readjusted(m, level, average) == [m EXCEPT !.filtered16 = average, !.level = level]

LEMMA ReadjustedBadge ==
  ASSUME NEW m \in Monitors, NEW level \in Levels, NEW average \in Averages
  PROVE  LET n == Readjusted(m, level, average)
         IN  /\ n \in Monitors /\ n.level = level /\ n.filtered16 = average
             /\ n.charge = m.charge /\ n.streak = m.streak
<1> DEFINE n == Readjusted(m, level, average)
<1>1. n \in Monitors
  BY Zenon DEF Monitors, Readjusted
<1>2. n.level = level /\ n.filtered16 = average /\ n.charge = m.charge /\ n.streak = m.streak
  BY DEF Monitors, Readjusted
<1> QED
  BY <1>1, <1>2

Follows(n) ==
  n.level >= 0 => /\ Smoothed(n.filtered16) - n.level < kHysteresisPercent
                  /\ n.level - Smoothed(n.filtered16) < kHysteresisPercent

\* The level after a reading is within the deadband of the average, or both
\* are unknown.
LEMMA LevelFollows ==
  ASSUME NEW m \in Monitors, NEW reading \in Levels, NEW n, n = Level(m, reading)
  PROVE  /\ n \in Monitors /\ n.charge = m.charge /\ n.streak = m.streak
         /\ n.level < 0 <=> n.filtered16 < 0
         /\ n.level < 0 <=> reading < 0
         /\ Follows(n)
<1>1. CASE reading < 0
  <2>1. -1 \in Averages /\ -1 \in Levels
    BY DEF Averages, Levels
  <2>2. n = Readjusted(m, -1, -1)
    BY <1>1 DEF Level, Readjusted
  <2>3. /\ n \in Monitors /\ n.level = -1 /\ n.filtered16 = -1
        /\ n.charge = m.charge /\ n.streak = m.streak
    BY <2>1, <2>2, ReadjustedBadge
  <2>4. Follows(n)
    BY <2>3 DEF Follows
  <2>5. n.level < 0 /\ n.filtered16 < 0
    BY <2>3
  <2> QED
    BY <2>3, <2>4, <2>5, <1>1
<1>2. CASE reading >= 0
  <2> DEFINE average == Filtered(m.filtered16, reading)
             level == IF InsideDeadband(m.level, Smoothed(average)) THEN m.level
                      ELSE Smoothed(average)
  <2>1. m.level \in Levels /\ m.filtered16 \in Averages
    BY DEF Monitors
  <2>2. reading \in Percents
    BY <1>2 DEF Levels, Percents
  <2>3. average \in Sixteenths /\ Smoothed(average) \in Percents
    BY <2>1, <2>2, AverageInScale, SmoothedInScale
  <2>4. n = Readjusted(m, level, average)
    <3>1. ~(reading < 0)
      BY <1>2 DEF Levels
    <3> QED
      BY <3>1, Zenon DEF Level, Readjusted
  <2> HIDE DEF average
  <2>5. /\ level \in Percents
        /\ Smoothed(average) - level < kHysteresisPercent
        /\ level - Smoothed(average) < kHysteresisPercent
    BY <2>1, <2>3 DEF InsideDeadband, kHysteresisPercent, Levels, Percents
  <2> HIDE DEF level
  <2>6. average \in Averages /\ average >= 0 /\ level \in Levels /\ level >= 0
    BY <2>3, <2>5 DEF Averages, Levels, Sixteenths, Percents
  <2>7. /\ n \in Monitors /\ n.level = level /\ n.filtered16 = average
        /\ n.charge = m.charge /\ n.streak = m.streak
    BY <2>4, <2>6, ReadjustedBadge
  <2>8. Follows(n)
    BY <2>5, <2>7 DEF Follows
  <2>9. ~(n.level < 0) /\ ~(n.filtered16 < 0) /\ ~(reading < 0)
    BY <2>6, <2>7, <1>2 DEF Levels, Averages
  <2> QED
    BY <2>7, <2>8, <2>9
<1> QED
  BY <1>1, <1>2 DEF Levels

\* The mark after a reading is what the readings since the last charging one
\* make it.
LEMMA MarkDebounced ==
  ASSUME NEW m \in Monitors, NEW charge \in ChargeStates, NEW since \in 0..2, NEW n,
         m.charge = "charging" <=> since < 2,
         m.charge = "charging" => m.streak = since,
         n = Mark(m, charge)
  PROVE  LET next == IF charge = "charging" THEN 0
                     ELSE IF charge = "discharging" /\ since < 2 THEN since + 1 ELSE since
         IN  /\ n \in Monitors /\ n.level = m.level /\ n.filtered16 = m.filtered16
             /\ n.charge = "charging" <=> next < 2
             /\ n.charge = "charging" => n.streak = next
<1> USE DEF ChargeStates, kDischargeConfirmPolls
<1>1. CASE charge = "charging"
  <2>1. n = [m EXCEPT !.charge = "charging", !.streak = 0]
    BY <1>1 DEF Mark
  <2>2. n \in Monitors
    BY <2>1, Zenon DEF Monitors
  <2> QED
    BY <2>1, <2>2, <1>1 DEF Monitors
<1>2. CASE charge = "discharging" /\ since = 2
  <2>1. n = [m EXCEPT !.charge = "discharging", !.streak = 0]
    BY <1>2 DEF Mark
  <2>2. n \in Monitors
    BY <2>1, Zenon DEF Monitors
  <2> QED
    BY <2>1, <2>2, <1>2 DEF Monitors
<1>3. CASE charge = "discharging" /\ since = 1
  <2>1. m.streak = 1
    BY <1>3
  <2>2. n = [m EXCEPT !.charge = "discharging", !.streak = 0]
    BY <2>1, <1>3 DEF Mark
  <2>3. n \in Monitors
    BY <2>2, Zenon DEF Monitors
  <2> QED
    BY <2>2, <2>3, <1>3 DEF Monitors
<1>4. CASE charge = "discharging" /\ since = 0
  <2>1. m.streak = 0 /\ m.charge = "charging"
    BY <1>4
  <2>2. n = [m EXCEPT !.streak = 1]
    BY <2>1, <1>4 DEF Mark
  <2>3. n \in Monitors
    BY <2>2 DEF Monitors
  <2> QED
    BY <2>1, <2>2, <2>3, <1>4 DEF Monitors
<1>5. CASE charge = "unknown"
  BY <1>5 DEF Mark
<1> QED
  BY <1>1, <1>2, <1>3, <1>4, <1>5

\* One reading of the badge.
LEMMA UpdateSteady ==
  ASSUME BadgeIsSteady, sinceCharging \in 0..kDischargeConfirmPolls,
         NEW level \in -2..100, NEW charge \in ChargeStates, Update(level, charge)
  PROVE  /\ BadgeIsSteady' /\ sinceCharging' \in 0..kDischargeConfirmPolls
         /\ level < 0 => badge'.level < 0
<1> DEFINE m == Level(badge, Clamped(level))
<1>1. Clamped(level) \in Levels /\ (level < 0 => Clamped(level) < 0)
  BY DEF Clamped, Levels
<1>2. /\ m \in Monitors /\ m.charge = badge.charge /\ m.streak = badge.streak
      /\ m.level < 0 <=> m.filtered16 < 0
      /\ m.level < 0 <=> Clamped(level) < 0
      /\ Follows(m)
  BY <1>1, LevelFollows DEF BadgeIsSteady
<1>3. badge' = Mark(m, charge)
  BY DEF Update
<1> HIDE DEF m
<1>4. /\ badge' \in Monitors /\ badge'.level = m.level /\ badge'.filtered16 = m.filtered16
      /\ MarkIsDebounced' /\ sinceCharging' \in 0..kDischargeConfirmPolls
  BY <1>2, <1>3, MarkDebounced
  DEF BadgeIsSteady, MarkIsDebounced, Update, ChargeStates, kDischargeConfirmPolls
<1> QED
  BY <1>1, <1>2, <1>4 DEF BadgeIsSteady, ShownNearAverage, Follows
-----------------------------------------------------------------------------
\* What the badge and an answer on its way do not say, leaves Inv as it is.
LEMMA Undisturbed ==
  ASSUME Inv, UNCHANGED <<answer, answerAge, badgeVars>>, PowerTypes'
  PROVE  Inv'
BY DEF Inv, badgeVars, BadgeIsSteady, ShownNearAverage, MarkIsDebounced, BadgeIsFresh,
       AnswerIsFresh

LEMMA OlderInRange == ASSUME NEW a \in 0..Oldest PROVE Older(a) \in 0..Oldest /\ Older(a) <= a + 1
BY PowerAssumption DEF Older, Oldest

LEMMA NoStatusIsStatus == NoStatus \in Statuses
BY DEF NoStatus, Statuses, Levels

LEMMA InitInv == ASSUME PowerInit PROVE Inv
<1>1. PowerTypes
  BY NoStatusIsStatus, PowerAssumption DEF PowerInit, PowerTypes, Oldest
<1>2. BadgeIsSteady /\ sinceCharging \in 0..kDischargeConfirmPolls
  <2>1. badge \in Monitors
    BY DEF PowerInit, MonitorInit, NewMonitor, Monitors, ChargeStates, Levels, Averages
  <2> QED
    BY <2>1 DEF PowerInit, MonitorInit, NewMonitor, BadgeIsSteady, ShownNearAverage,
                MarkIsDebounced, kDischargeConfirmPolls
<1>3. BadgeIsFresh /\ AnswerIsFresh
  BY DEF PowerInit, MonitorInit, NewMonitor, BadgeIsFresh, AnswerIsFresh, NoAnswer
<1> QED
  BY <1>1, <1>2, <1>3 DEF Inv

\* The server tells a reading only while it is recent.
LEMMA ServeStatusInv == ASSUME Inv, ServeStatus PROVE Inv'
<1> USE DEF Inv, PowerTypes, monitorVars, badgeVars
<1>1. Snapshot \in Statuses /\ (Snapshot # NoStatus => age <= MaxAge)
  BY NoStatusIsStatus, PowerAssumption DEF Snapshot, Oldest
<1>2. answer' = Snapshot /\ answerAge' = IF Snapshot = NoStatus THEN Oldest ELSE age
  BY DEF ServeStatus
<1>3. answerAge' \in 0..Oldest
  BY <1>2, PowerAssumption DEF Oldest
<1>4. PowerTypes'
  BY <1>1, <1>2, <1>3 DEF ServeStatus
<1>5. AnswerIsFresh'
  BY <1>1, <1>2 DEF AnswerIsFresh, NoStatus
<1>6. UNCHANGED <<badge, sinceCharging, silent, basis>>
  BY DEF ServeStatus
<1> QED
  BY <1>4, <1>5, <1>6
  DEF BadgeIsSteady, ShownNearAverage, MarkIsDebounced, BadgeIsFresh

\* What the badge is told of no level is an unknown level (processWork).
LEMMA TakeStatusInv == ASSUME Inv, TakeStatus PROVE Inv'
<1> USE DEF Inv, PowerTypes, monitorVars
<1>1. answer \in Statuses /\ answer.percent \in Levels
  BY DEF TakeStatus, Statuses
<1>2. answer.percent \in -2..100 /\ PiCharge(answer) \in ChargeStates
  BY <1>1 DEF PiCharge, ChargeStates, Levels
<1>3. /\ BadgeIsSteady' /\ sinceCharging' \in 0..kDischargeConfirmPolls
      /\ answer.percent < 0 => badge'.level < 0
  BY <1>2, UpdateSteady DEF TakeStatus
<1>4. PowerTypes'
  BY PowerAssumption DEF TakeStatus, Oldest
<1>5. BadgeIsFresh'
  <2>1. badge'.level \in Levels
    BY <1>3 DEF BadgeIsSteady, Monitors
  <2>2. basis' = answerAge /\ silent' = 0
    BY DEF TakeStatus
  <2>3. CASE answer.percent < 0
    BY <1>3, <2>1, <2>3 DEF BadgeIsFresh, Levels
  <2>4. CASE answer.percent >= 0
    BY <2>2, <2>4, PowerAssumption DEF BadgeIsFresh, AnswerIsFresh
  <2> QED
    BY <1>1, <2>3, <2>4 DEF Levels
<1>6. AnswerIsFresh'
  BY DEF TakeStatus, AnswerIsFresh, NoAnswer
<1> QED
  BY <1>3, <1>4, <1>5, <1>6

LEMMA LoseStatusInv == ASSUME Inv, LoseStatus PROVE Inv'
<1> USE DEF Inv, PowerTypes, monitorVars
<1>1. "unknown" \in ChargeStates
  BY DEF ChargeStates
<1>2. BadgeIsSteady' /\ sinceCharging' \in 0..kDischargeConfirmPolls /\ badge'.level < 0
  BY <1>1, UpdateSteady DEF LoseStatus
<1>3. PowerTypes'
  BY PowerAssumption DEF LoseStatus, Oldest
<1>4. BadgeIsFresh'
  <2>1. badge'.level \in Levels
    BY <1>2 DEF BadgeIsSteady, Monitors
  <2> QED
    BY <1>2, <2>1 DEF BadgeIsFresh, Levels
<1>5. AnswerIsFresh'
  BY DEF LoseStatus, AnswerIsFresh, NoAnswer
<1> QED
  BY <1>2, <1>3, <1>4, <1>5

\* What the badge is based on ages no faster than the silence since.
LEMMA TickInv == ASSUME Inv, Tick PROVE Inv'
<1> USE DEF Inv, PowerTypes
<1>1. Older(age) \in 0..Oldest /\ Older(basis) \in 0..Oldest /\ Older(basis) <= basis + 1
  BY OlderInRange
<1>2. PowerTypes'
  BY <1>1 DEF Tick
<1>3. BadgeIsFresh'
  BY <1>1, PowerAssumption DEF Tick, BadgeIsFresh, Oldest
<1> QED
  BY <1>2, <1>3
  DEF Tick, BadgeIsSteady, ShownNearAverage, MarkIsDebounced, AnswerIsFresh

\* The steps of the poller, of close(), of the gauge and of the network.
Quiet ==
  \/ Build \/ StartPoller \/ ReadReturns \/ ReadRaises \/ Wakes \/ Close \/ Joined
  \/ UpsChanges \/ WifiChanges \/ UNCHANGED vars

LEMMA QuietTypes ==
  ASSUME PowerTypes, Quiet PROVE PowerTypes' /\ UNCHANGED <<answer, answerAge, badgeVars>>
<1> USE DEF PowerTypes, monitorVars, badgeVars
<1>1. CASE Build
  BY <1>1 DEF Build, BuildUps
<1>2. CASE StartPoller
  BY <1>2 DEF StartPoller
<1>3. CASE ReadReturns
  BY <1>3, DecodedIsPercentage, PowerAssumption DEF ReadReturns, Oldest
<1>4. CASE ReadRaises
  BY <1>4 DEF ReadRaises
<1>5. CASE Wakes
  BY <1>5 DEF Wakes
<1>6. CASE Close
  BY <1>6 DEF Close
<1>7. CASE Joined
  BY <1>7 DEF Joined
<1>8. CASE UpsChanges
  BY <1>8 DEF UpsChanges
<1>9. CASE WifiChanges
  BY <1>9 DEF WifiChanges
<1>10. CASE UNCHANGED vars
  BY <1>10 DEF vars
<1> QED
  BY <1>1, <1>2, <1>3, <1>4, <1>5, <1>6, <1>7, <1>8, <1>9, <1>10 DEF Quiet

LEMMA StepInv == ASSUME Inv, [PowerNext]_vars PROVE Inv'
<1>1. CASE Quiet
  <2>1. PowerTypes
    BY DEF Inv
  <2> QED
    BY <2>1, <1>1, QuietTypes, Undisturbed
<1> QED
  BY <1>1, ServeStatusInv, TakeStatusInv, LoseStatusInv, TickInv DEF PowerNext, Quiet
-----------------------------------------------------------------------------
\* Inv holds in every state, whatever the gauge says and however often it and
\* the network fail.
THEOREM Invariance == PowerSpec => []Inv
<1>1. PowerInit => Inv
  BY InitInv
<1>2. Inv /\ [PowerNext]_vars => Inv'
  BY StepInv
<1> QED
  BY <1>1, <1>2, PTL DEF PowerSpec

\* The level shown stays within the deadband of its running average and the
\* charging mark lasts until two discharging readings (update).
THEOREM SteadyBadge == PowerSpec => []BadgeIsSteady
<1>1. Inv => BadgeIsSteady
  BY DEF Inv
<1> QED
  BY <1>1, Invariance, PTL

\* A Stick in touch never shows a level older than max_age_s and the tick
\* since the last exchange (snapshot, processWork).
THEOREM FreshBadge == PowerSpec => []BadgeIsFresh
<1>1. Inv => BadgeIsFresh
  BY DEF Inv
<1> QED
  BY <1>1, Invariance, PTL
=============================================================================
