---------------------------- MODULE PowerStatus ----------------------------
(***************************************************************************)
(* The battery of the Pi from its UPS to the badge on the Stick:            *)
(* src/pifilm/capture/power.py polls the gauge on a thread of its own, the  *)
(* remote server puts the latest reading into /v1/status, and the network   *)
(* task of the Stick (main.cpp) feeds it to a BatteryMonitor.               *)
(*                                                                         *)
(* The clock ticks every ten seconds, the monitor's interval_s.  Ages count *)
(* ticks and stop counting where they no longer matter, so that the model   *)
(* needs no last tick.                                                      *)
(***************************************************************************)
EXTENDS BatteryMonitor

CONSTANTS
    Readings,   \* what the UPS may say: the state-of-charge register as SMBus returns it,
                \* and whether there is external power
    MaxAge      \* max_age_s in ticks; 6 in the code

Words == 0..65535

ASSUME PowerAssumption ==
    /\ Readings \subseteq [word : Words, external : BOOLEAN]
    /\ MaxAge \in Nat \ {0}

VARIABLES
    ups,        \* "ok" if the gauge answers; otherwise it fails, or does not answer at all
    poller,     \* the polling thread
    status,     \* self._status
    age,        \* how long ago it was read
    closing,    \* close(): "no", "joining" the thread, or "returned"
    wifi,       \* the Stick is connected
    answer,     \* an answer to GET /v1/status on its way
    answerAge,  \* how long ago what it says was read
    silent,     \* ticks since the last status exchange was over
    basis       \* how long ago what the badge is based on was read

monitorVars == <<poller, status, age, closing>>
badgeVars == <<badge, sinceCharging, silent, basis>>
vars == <<ups, monitorVars, wifi, answer, answerAge, badgeVars>>

Statuses == [percent : Levels, external : BOOLEAN]
NoStatus == [percent |-> -1, external |-> FALSE]
NoAnswer == [percent |-> -2, external |-> FALSE]
Oldest == MaxAge + 2
Older(a) == IF a = Oldest THEN a ELSE a + 1

PowerInit ==
    /\ MonitorInit
    /\ ups = "ok" /\ poller = "unbuilt" /\ status = NoStatus /\ age = Oldest /\ closing = "no"
    /\ wifi = FALSE /\ answer = NoAnswer /\ answerAge = Oldest /\ silent = 2 /\ basis = Oldest

(***************************************************************************)
(* X728Ups.read: the gauge stores its words the other way round, and may    *)
(* report more than a full battery.                                         *)
(***************************************************************************)
DecodeWord(word) == (word % 256) * 256 + word \div 256

UpsStatus(reading) ==
    LET percent == DecodeWord(reading.word) \div 256
    IN [percent |-> IF percent > 100 THEN 100 ELSE percent, external |-> reading.external]

(***************************************************************************)
(* PowerMonitor                                                            *)
(***************************************************************************)
Monitoring == poller \notin {"unbuilt", "none", "built"}

(* What main makes of --ups: none wanted, one that answers, or its end.     *)
BuildUps(name, bus, pin) ==
    IF name = "none" THEN "none"
    ELSE IF name = "x728" /\ bus /\ pin THEN "built" ELSE "refused"

Build ==
    /\ poller = "unbuilt" /\ closing = "no"
    /\ \E name \in {"none", "x728"}, bus, pin \in BOOLEAN :
        LET built == BuildUps(name, bus, pin)
        IN  /\ poller' = IF built = "refused" THEN poller ELSE built
            /\ closing' = IF built = "refused" THEN "returned" ELSE closing
    /\ UNCHANGED <<ups, status, age, wifi, answer, answerAge, badgeVars>>

StartPoller ==
    /\ poller = "built" /\ closing = "no"
    /\ poller' = "reading"
    /\ UNCHANGED <<ups, status, age, closing, wifi, answer, answerAge, badgeVars>>

(* poll_once: what raises leaves the last reading in place.                 *)
ReadReturns ==
    /\ poller = "reading" /\ ups = "ok"
    /\ \E reading \in Readings : status' = UpsStatus(reading)
    /\ age' = 0
    /\ poller' = "waiting"
    /\ UNCHANGED <<ups, closing, wifi, answer, answerAge, badgeVars>>

ReadRaisesThrough ==
    /\ poller = "reading" /\ ups # "ok"
    /\ poller' = "ended"
    /\ UNCHANGED <<ups, status, age, closing, wifi, answer, answerAge, badgeVars>>

ReadRaises ==
    /\ poller = "reading" /\ ups # "ok"
    /\ poller' = "waiting"
    /\ UNCHANGED <<ups, status, age, closing, wifi, answer, answerAge, badgeVars>>

(* _run: the wait of an interval is cut short by close().                   *)
Wakes ==
    /\ poller = "due" \/ (poller = "waiting" /\ closing # "no")
    /\ poller' = IF closing = "no" THEN "reading" ELSE "ended"
    /\ UNCHANGED <<ups, status, age, closing, wifi, answer, answerAge, badgeVars>>

SnapshotAnyAge == status

Snapshot == IF age > MaxAge THEN NoStatus ELSE status

Close ==
    /\ closing = "no"
    /\ closing' = IF Monitoring THEN "joining" ELSE "returned"
    /\ UNCHANGED <<ups, poller, status, age, wifi, answer, answerAge, badgeVars>>

(* join(timeout=2.0): the thread has ended, or has not within two seconds.  *)
Joined ==
    /\ closing = "joining"
    /\ closing' = "returned"
    /\ UNCHANGED <<ups, poller, status, age, wifi, answer, answerAge, badgeVars>>

(***************************************************************************)
(* GET /v1/status: the server answers with a snapshot while the program     *)
(* runs; the Stick takes what it is told, and takes any other outcome for   *)
(* an unknown level (processWork).                                          *)
(***************************************************************************)
ServeStatus ==
    /\ wifi /\ answer = NoAnswer /\ closing = "no" /\ poller \notin {"unbuilt", "built"}
    /\ answer' = Snapshot
    /\ answerAge' = IF Snapshot = NoStatus THEN Oldest ELSE age
    /\ UNCHANGED <<ups, monitorVars, wifi, badgeVars>>

PiCharge(told) ==
    IF told.percent < 0 THEN "unknown" ELSE IF told.external THEN "charging" ELSE "discharging"

TakeStatus ==
    /\ answer # NoAnswer
    /\ Update(answer.percent, PiCharge(answer))
    /\ basis' = answerAge /\ silent' = 0
    /\ answer' = NoAnswer /\ answerAge' = Oldest
    /\ UNCHANGED <<ups, monitorVars, wifi>>

LoseStatus ==
    /\ wifi \/ answer # NoAnswer
    /\ Update(-1, "unknown")
    /\ basis' = Oldest /\ silent' = 0
    /\ answer' = NoAnswer /\ answerAge' = Oldest
    /\ UNCHANGED <<ups, monitorVars, wifi>>

(***************************************************************************)
(* The gauge, the network and the time.  While it is connected the Stick    *)
(* asks for the status at least once in ten seconds (it is due every half   *)
(* second, and a request gives up after five): a tick finds no answer on    *)
(* its way.                                                                 *)
(***************************************************************************)
UpsChanges ==
    /\ ups' = IF ups = "ok" THEN "failing" ELSE "ok"
    /\ UNCHANGED <<monitorVars, wifi, answer, answerAge, badgeVars>>

WifiChanges ==
    /\ wifi' = ~wifi
    /\ UNCHANGED <<ups, monitorVars, answer, answerAge, badgeVars>>

Tick ==
    /\ wifi => silent # 1
    /\ answer = NoAnswer
    /\ age' = Older(age) /\ basis' = Older(basis)
    /\ silent' = IF silent = 2 THEN 2 ELSE silent + 1
    /\ poller' = IF poller = "waiting" THEN "due" ELSE poller
    /\ UNCHANGED <<ups, status, closing, wifi, answer, answerAge, badge, sinceCharging>>

PowerNext ==
    \/ Build \/ StartPoller \/ ReadReturns \/ ReadRaises \/ Wakes \/ Close \/ Joined
    \/ ServeStatus \/ TakeStatus \/ LoseStatus
    \/ UpsChanges \/ WifiChanges \/ Tick

PowerSpec == PowerInit /\ [][PowerNext]_vars

(***************************************************************************)
(* The threads run and time passes; the gauge answers while it is "ok".     *)
(***************************************************************************)
FairPowerSpec ==
    /\ PowerSpec
    /\ WF_vars(ReadReturns) /\ WF_vars(Wakes) /\ WF_vars(Joined)
    /\ WF_vars(ServeStatus) /\ WF_vars(TakeStatus) /\ SF_vars(Tick)

(***************************************************************************)
(* Properties                                                              *)
(***************************************************************************)

(* While the Stick is in touch, the level on its badge is never based on a  *)
(* reading older than max_age_s and the tick since the last exchange: a     *)
(* gauge that hangs, a program that is gone and a lost answer all turn it   *)
(* into "--%" (snapshot, processWork).                                      *)
BadgeIsFresh == badge.level >= 0 /\ silent < 2 => basis <= MaxAge + silent

(* A gauge that failed for any while and answers again is reported again:   *)
(* nothing it raised has ended the polling thread (poll_once).              *)
RecoveryIsReported ==
    <>[](ups = "ok" /\ Monitoring /\ closing = "no") => []<>(Snapshot # NoStatus)
=============================================================================
