--------------------------- MODULE BatteryMonitor ---------------------------
(***************************************************************************)
(* src/firmware/sticks3/src/battery_status.cpp: what a battery badge shows  *)
(* of the readings it is given.  The firmware has two such monitors, one    *)
(* for the Stick's own battery and one for the Pi's; a badge here is one of *)
(* them.                                                                    *)
(*                                                                         *)
(* filtered16 is the running average in sixteenths of a percent; -1 stands  *)
(* for no history and for an unknown level.                                 *)
(***************************************************************************)
EXTENDS Integers

VARIABLES
    badge,              \* the BatteryMonitor object
    sinceCharging       \* history: discharging readings since the last charging one, up to
                        \* kDischargeConfirmPolls; that many if there was none

ChargeStates == {"unknown", "charging", "discharging"}

kLowPercent == 15
kHysteresisPercent == 3
kDischargeConfirmPolls == 2

Levels == -1..100
Averages == -1..1600
Monitors == [level : Levels, filtered16 : Averages, charge : ChargeStates, streak : {0, 1}]

NewMonitor == [level |-> -1, filtered16 |-> -1, charge |-> "unknown", streak |-> 0]

(***************************************************************************)
(* update(), the level: C++ divides towards zero.                           *)
(***************************************************************************)
Quarter(x) == IF x >= 0 THEN x \div 4 ELSE -((-x) \div 4)

Clamped(level) == IF level < 0 THEN -1 ELSE IF level > 100 THEN 100 ELSE level

Filtered(filtered16, reading) ==
    IF filtered16 < 0
    THEN reading * 16
    ELSE filtered16 + Quarter(reading * 16 - filtered16)

Smoothed(filtered16) == (filtered16 + 8) \div 16

InsideDeadband(level, smoothed) ==
    /\ level >= 0
    /\ smoothed - level < kHysteresisPercent
    /\ level - smoothed < kHysteresisPercent

(***************************************************************************)
(* update(), the charge mark: entered at once, left after two discharging   *)
(* readings; an unknown one changes neither mark nor count.                 *)
(***************************************************************************)
MarkUnreset(m, charge) ==
    CASE charge = "charging" -> [m EXCEPT !.charge = "charging"]
      [] charge = "discharging" ->
            IF m.charge # "charging" \/ m.streak + 1 >= kDischargeConfirmPolls
            THEN [m EXCEPT !.charge = "discharging", !.streak = 0]
            ELSE [m EXCEPT !.streak = @ + 1]
      [] OTHER -> m

Mark(m, charge) ==
    CASE charge = "charging" -> [m EXCEPT !.charge = "charging", !.streak = 0]
      [] charge = "discharging" ->
            IF m.charge # "charging" \/ m.streak + 1 >= kDischargeConfirmPolls
            THEN [m EXCEPT !.charge = "discharging", !.streak = 0]
            ELSE [m EXCEPT !.streak = @ + 1]
      [] OTHER -> m

Level(m, reading) ==
    IF reading < 0
    THEN [m EXCEPT !.level = -1, !.filtered16 = -1]
    ELSE LET filtered16 == Filtered(m.filtered16, reading)
             smoothed == Smoothed(filtered16)
         IN [m EXCEPT !.filtered16 = filtered16,
                      !.level = IF InsideDeadband(m.level, smoothed) THEN @ ELSE smoothed]

Update(level, charge) ==
    /\ badge' = Mark(Level(badge, Clamped(level)), charge)
    /\ sinceCharging' = CASE charge = "charging" -> 0
                          [] charge = "discharging" /\ sinceCharging < kDischargeConfirmPolls ->
                                sinceCharging + 1
                          [] OTHER -> sinceCharging

Low(m) == m.level >= 0 /\ m.level <= kLowPercent /\ m.charge # "charging"

MonitorInit == badge = NewMonitor /\ sinceCharging = kDischargeConfirmPolls

(***************************************************************************)
(* Properties                                                              *)
(***************************************************************************)

(* However the readings jump, fall out and come back, the level shown stays *)
(* within the deadband of the running average, and is unknown exactly when  *)
(* there is none (update).                                                  *)
ShownNearAverage ==
    /\ badge.level < 0 <=> badge.filtered16 < 0
    /\ badge.level >= 0 => /\ Smoothed(badge.filtered16) - badge.level < kHysteresisPercent
                           /\ badge.level - Smoothed(badge.filtered16) < kHysteresisPercent

(* The charging mark is shown from a charging reading on until two          *)
(* discharging ones have followed with no charging one between them, and a  *)
(* monitor that was never charging does not show it.                        *)
MarkIsDebounced ==
    /\ badge.charge = "charging" <=> sinceCharging < kDischargeConfirmPolls
    /\ badge.charge = "charging" => badge.streak = sinceCharging

BadgeIsSteady == badge \in Monitors /\ ShownNearAverage /\ MarkIsDebounced
=============================================================================
