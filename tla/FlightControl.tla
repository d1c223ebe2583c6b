---------------------------- MODULE FlightControl ----------------------------
(***************************************************************************)
(* The flight state machine of the tiny-sky tracker with everything that   *)
(* shares its state: the control task drives the pyro MOSFET and           *)
(* reconfigures the radio, the report task and the console commands send   *)
(* through that radio, the sensor task supplies the trigger, the SAFE pin  *)
(* and the supply voltage belong to the environment.                       *)
(*                                                                         *)
(* Tasks are the routines that schedule_tasks calls one at a time from     *)
(* main, so a routine is one step here.  Of the scheduler this module      *)
(* assumes only what bounds the control task: two passes of it are at most *)
(* MaxGap apart (its interval of 200 ms plus what other routines block).   *)
(* The order of the routines is otherwise arbitrary.                       *)
(***************************************************************************)
EXTENDS Integers, Sx1276

CONSTANTS SafeTime,   \* 1000 * pyro_safe_time
          HoldTime,   \* the 3000 ms the MOSFET stays on
          MaxGap,     \* longest time between two passes of the control task
          ClockMod,   \* millis() counts modulo this (2^32 in the code)
          Horizon     \* bound: real time stops here

ASSUME ConstantsAssumption ==
    /\ SafeTime \in Nat \ {0}
    /\ HoldTime \in Nat \ {0}
    /\ MaxGap   \in Nat \ {0}
    /\ ClockMod \in Nat \ {0}
    /\ Horizon  \in Nat

VARIABLES
    cpu,        \* "running", or "hung" when init_periph found no magnetometer
    bootAt,     \* real time of the last reset, when millis() was 0
    state,      \* AppState::state
    timeout,    \* the static timeout of task_control
    pyro1On,    \* output of the MOSFET pin, 0 or 1
    lastMx,     \* last_mx; only its sign matters: -1, or 0 for "not negative"
    radio,      \* the SX1276
    armSense,   \* arm_sense pin: 0 with the SAFE pin in place
    now         \* real time

\* History, read by no action's guard: when the control task last ran, since
\* when every pass of it saw the SAFE pin pulled, since when the pin has been
\* in place, and when the MOSFET was switched on.
VARIABLES lastPass, outSince, inSince, firedAt

hist == <<lastPass, outSince, inSince, firedAt>>
vars == <<cpu, bootAt, state, timeout, pyro1On, lastMx, radio, armSense, now, hist>>

States == {"SAFE", "ARMED", "FLIGHT", "RECOVERY"}
NoTime == -1

-----------------------------------------------------------------------------
(* The clock *)

millis == (now - bootAt) % ClockMod

\* Mutant of Deadline: the delay is not added.
DeadlineNow(d) == millis

\* Both timers of task_control are a uint32 deadline.
Deadline(d) == (millis + d) % ClockMod

\* Mutant of TimerExpired: the deadline is never met.
TimerNeverExpired == FALSE

TimerExpired == millis >= timeout

-----------------------------------------------------------------------------
(* Start *)

\* What init_hw and init_periph leave: the outputs are low, the radio is in
\* LoRa mode on the channel and asleep, the state is eSAFE, last_mx is 0.
StartRadio == SetFrequencyHz(SetupLoRa(InitRadio), "channel")

Init ==
    /\ cpu \in {"running", "hung"}
    /\ bootAt = 0
    /\ state = "SAFE"
    /\ timeout = 0
    /\ pyro1On = 0
    /\ lastMx = 0
    /\ radio = StartRadio
    /\ armSense \in {0, 1}
    /\ now = 0
    /\ lastPass = 0
    /\ outSince = NoTime
    /\ inSince = IF armSense = 0 THEN 0 ELSE NoTime
    /\ firedAt = NoTime

\* A reset or a brown-out, for instance while the igniter loads the battery,
\* and the start that follows it.
Reset ==
    /\ cpu' \in {"running", "hung"}
    /\ bootAt' = now
    /\ state' = "SAFE"
    /\ timeout' = 0
    /\ pyro1On' = 0
    /\ lastMx' = 0
    /\ radio' = StartRadio
    /\ lastPass' = now
    /\ outSince' = NoTime
    /\ firedAt' = NoTime
    /\ UNCHANGED <<armSense, now, inSince>>

-----------------------------------------------------------------------------
(* The control task *)

\* Mutant of trig: the field must point the other way.
TrigOtherSign == lastMx > 0

trig == lastMx < 0

PinInPlace == armSense = 0

\* A pass of task_control; the history follows what the pass sees.
ControlPass ==
    /\ cpu = "running"
    /\ lastPass' = now
    /\ outSince' = IF PinInPlace THEN NoTime
                   ELSE IF outSince = NoTime THEN now ELSE outSince
    /\ UNCHANGED <<cpu, bootAt, lastMx, armSense, now, inSince>>

\* Mutant of ControlSafe: the MOSFET is left as it is.
ControlSafeKeepsPyro ==
    /\ state = "SAFE"
    /\ IF PinInPlace
       THEN UNCHANGED <<state, timeout>>
       ELSE /\ timeout' = Deadline(SafeTime)
            /\ state' = "ARMED"
    /\ UNCHANGED <<pyro1On, firedAt, radio>>

\* eSAFE keeps the MOSFET off and arms when the pin has been pulled.
ControlSafe ==
    /\ state = "SAFE"
    /\ pyro1On' = 0
    /\ firedAt' = NoTime
    /\ IF PinInPlace
       THEN UNCHANGED <<state, timeout>>
       ELSE /\ timeout' = Deadline(SafeTime)
            /\ state' = "ARMED"
    /\ UNCHANGED radio

\* The pin is back in place.  Only the state changes: the MOSFET waits for
\* the next pass, and the radio keeps the configuration it has.
ControlDisarm ==
    /\ state # "SAFE"
    /\ PinInPlace
    /\ state' = "SAFE"
    /\ UNCHANGED <<timeout, pyro1On, radio, firedAt>>

\* The safe timer expired: silence the radio, send the carrier, unlock.
BeaconRadio == StartTX(SetFrequencyHz(SetupFSK(Sleep(radio)), "cw"))

ControlUnlock ==
    /\ state = "ARMED"
    /\ ~PinInPlace
    /\ TimerExpired
    /\ radio' = BeaconRadio
    /\ state' = "FLIGHT"
    /\ UNCHANGED <<timeout, pyro1On, firedAt>>

\* Mutant of RecoveryRadio: the beacon frequency is kept.
RecoveryRadioOnCw == SetupLoRa(Sleep(radio))

\* The trigger in flight: fire, go back to telemetry on the channel.
RecoveryRadio == SetFrequencyHz(SetupLoRa(Sleep(radio)), "channel")

ControlFire ==
    /\ state = "FLIGHT"
    /\ ~PinInPlace
    /\ trig
    /\ pyro1On' = 1
    /\ timeout' = Deadline(HoldTime)
    /\ radio' = RecoveryRadio
    /\ state' = "RECOVERY"
    /\ firedAt' = now

\* Mutant of ControlCut: the hold time is not waited for.
ControlCutAtOnce ==
    /\ state = "RECOVERY"
    /\ ~PinInPlace
    /\ pyro1On' = 0
    /\ firedAt' = NoTime
    /\ UNCHANGED <<state, timeout, radio>>

\* Mutant of ControlCut: the end of the hold time is not acted upon.
ControlCutNever ==
    /\ state = "RECOVERY"
    /\ ~PinInPlace
    /\ TimerExpired
    /\ UNCHANGED <<state, timeout, pyro1On, firedAt, radio>>

ControlCut ==
    /\ state = "RECOVERY"
    /\ ~PinInPlace
    /\ TimerExpired
    /\ pyro1On' = 0
    /\ firedAt' = NoTime
    /\ UNCHANGED <<state, timeout, radio>>

\* Nothing to do yet: the timer runs, or the trigger has not come.
ControlWait ==
    /\ ~PinInPlace
    /\ \/ state \in {"ARMED", "RECOVERY"} /\ ~TimerExpired
       \/ state = "FLIGHT" /\ ~trig
    /\ UNCHANGED <<state, timeout, pyro1On, radio, firedAt>>

Control ==
    /\ ControlPass
    /\ \/ ControlSafe
       \/ ControlDisarm
       \/ ControlUnlock
       \/ ControlFire
       \/ ControlCut
       \/ ControlWait

-----------------------------------------------------------------------------
(* The other users of the shared state *)

\* task_sensors stores a new magnetometer sample.  The offset that mag_cal,
\* load_cal and rst_cal change only moves its sign, which is arbitrary here.
Sensors ==
    /\ cpu = "running"
    /\ lastMx' \in {-1, 0}
    /\ UNCHANGED <<cpu, bootAt, state, timeout, pyro1On, radio, armSense, now, hist>>

Transmit == StartTX(WriteFIFO(radio))

\* The passes of task_report in which a message is due (every fifth one, once
\* the receiver knows the time) and the state lets it out.
SendTelemetry ==
    /\ cpu = "running"
    /\ state # "FLIGHT"
    /\ radio' = Transmit
    /\ UNCHANGED <<cpu, bootAt, state, timeout, pyro1On, lastMx, armSense, now, hist>>

\* The console commands lora_test and lora_test2, in any state.
LoraTest ==
    /\ cpu = "running"
    /\ radio' = Transmit
    /\ UNCHANGED <<cpu, bootAt, state, timeout, pyro1On, lastMx, armSense, now, hist>>

\* A LoRa packet has left: the chip returns to standby by itself.  The FSK
\* carrier has no packet and no end.
TxDone ==
    /\ radio.mode = "TX" /\ radio.modem = "LORA"
    /\ radio' = SetMode(radio, "STDBY")
    /\ UNCHANGED <<cpu, bootAt, state, timeout, pyro1On, lastMx, armSense, now, hist>>

\* Somebody pulls the SAFE pin or puts it back.
MovePin ==
    /\ armSense' = 1 - armSense
    /\ inSince' = IF armSense' = 0 THEN now ELSE NoTime
    /\ UNCHANGED <<cpu, bootAt, state, timeout, pyro1On, lastMx, radio, now,
                   lastPass, outSince, firedAt>>

Tick ==
    /\ now < Horizon
    /\ cpu = "running" => now - lastPass < MaxGap
    /\ now' = now + 1
    /\ UNCHANGED <<cpu, bootAt, state, timeout, pyro1On, lastMx, radio, armSense, hist>>

Next ==
    \/ Control
    \/ Sensors
    \/ SendTelemetry
    \/ LoraTest
    \/ TxDone
    \/ MovePin
    \/ Reset
    \/ Tick

Spec == Init /\ [][Next]_vars

\* schedule_tasks calls every task again and again (see Scheduler), and real
\* time does not stop.
FairSpec == Spec /\ WF_vars(Control) /\ WF_vars(Tick)

-----------------------------------------------------------------------------
(* Properties *)

TypeOK ==
    /\ cpu \in {"running", "hung"}
    /\ now \in Nat
    /\ bootAt \in Nat
    /\ state \in States
    /\ timeout \in 0..(ClockMod - 1)
    /\ pyro1On \in {0, 1}
    /\ lastMx \in {-1, 0}
    /\ radio \in Radios
    /\ armSense \in {0, 1}
    /\ lastPass \in Nat
    /\ outSince \in Nat \cup {NoTime}
    /\ inSince \in Nat \cup {NoTime}
    /\ firedAt \in Nat \cup {NoTime}

\* The uptime stays below the wrap of millis(), 49.7 days.
NoWrap == Horizon + SafeTime < ClockMod /\ Horizon + HoldTime < ClockMod

\* The MOSFET is switched on only when every pass of the control task during
\* at least the last SafeTime saw the SAFE pin pulled: pyro_safe_time seconds
\* after arming, with the timer restarted by every pass that saw the pin.
FiresOnlyAfterSafeTime ==
    [][pyro1On = 0 /\ pyro1On' = 1 =>
          outSince # NoTime /\ now - outSince >= SafeTime]_vars

\* With the SAFE pin in place for two gaps of the control task, the tracker is
\* in eSAFE with the MOSFET off, wherever in the flight the pin came in: the
\* pass that sees the pin first leaves the MOSFET on, the next one cuts it.
PinInSafe ==
    (armSense = 0 /\ now - inSince > 2 * MaxGap) =>
        (state = "SAFE" /\ pyro1On = 0)

\* No interleaving keeps the igniter on longer than the hold time and two gaps
\* of the control task, a disarm in the middle of the burn included.
BurnBounded == pyro1On = 1 => now - firedAt < HoldTime + 2 * MaxGap

\* In eFLIGHT the carrier is on the air and telemetry cannot replace it; after
\* the ejection the modem is the one the ground can receive, whatever the
\* console commands and the report task did to the radio in between.
RadioMatchesState ==
    /\ state = "FLIGHT" => IsBeacon(radio)
    /\ state = "RECOVERY" => OnChannel(radio)

\* In every state in which task_report hands a message to the radio, the radio
\* is on the channel (radio_frequency), not on the frequency of the CW beacon.
TelemetryOnChannel ==
    cpu = "running" /\ state # "FLIGHT" => OnChannel(radio)

\* An armed tracker that is left alone does not stay armed: it unlocks, unless
\* it is disarmed or reset before.
ArmedEnds ==
    (state = "ARMED" /\ outSince + SafeTime + MaxGap <= Horizon) ~> state # "ARMED"

\* In eFLIGHT with the pin pulled, a trigger that persists ends the flight.
TriggerEjects ==
    []((state = "FLIGHT" /\ [](armSense = 1 /\ lastMx = -1)) => <>(state # "FLIGHT"))

\* The pyro channel as the abstract specification sees it.
phase == CASE state = "SAFE" -> "locked"
           [] state \in {"ARMED", "FLIGHT"} -> "armed"
           [] state = "RECOVERY" -> "spent"

Interlock == INSTANCE PyroInterlock
                 WITH clock <- now, since <- outSince, mosfet <- pyro1On, onAt <- firedAt

\* Whatever the tasks do, the pyro channel keeps the promises of the abstract
\* interlock: one shot per arming, not before SafeTime, held for HoldTime.
ImplementsInterlock == Interlock!Spec
=============================================================================
