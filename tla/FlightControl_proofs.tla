------------------------ MODULE FlightControl_proofs ------------------------
(***************************************************************************)
(* Proofs about FlightControl for every value of its constants.            *)
(*                                                                         *)
(* The inductive invariant has a part that holds whatever the clock does   *)
(* (Base: types, the radio, the order of the recorded times, the pin) and  *)
(* a part about the two timers that needs the uptime to stay below the     *)
(* wrap of millis() (Timers, under NoWrap).                                *)
(***************************************************************************)
EXTENDS FlightControl, TLAPS

USE DEF NoTime, PinInPlace

-----------------------------------------------------------------------------
(* The inductive invariant *)

\* The passes of the control task lie between the reset and now, MaxGap apart
\* while the processor runs.
TimesOrdered ==
    /\ bootAt <= lastPass
    /\ lastPass <= now
    /\ now <= Horizon
    /\ cpu = "running" => now - lastPass <= MaxGap

\* Outside eSAFE the history knows when the tracker was armed.
ArmingKnown ==
    /\ state = "SAFE" <=> outSince = NoTime
    /\ outSince # NoTime => bootAt <= outSince /\ outSince <= lastPass

\* The MOSFET is on only after a shot, in eRECOVERY or on the way to eSAFE.
MosfetKnown ==
    /\ pyro1On = 1 => /\ state \in {"SAFE", "RECOVERY"}
                      /\ firedAt # NoTime
                      /\ bootAt < firedAt
                      /\ firedAt <= lastPass
    /\ pyro1On = 0 => firedAt = NoTime

\* The pin came in after the last pass, or one pass has seen it and the next
\* one is still to come, or it has been acted upon.
PinProgress ==
    armSense = 0 =>
        /\ inSince # NoTime /\ inSince <= now
        /\ \/ lastPass <= inSince
           \/ state = "SAFE" /\ lastPass <= inSince + MaxGap
           \/ state = "SAFE" /\ pyro1On = 0

HungIsSafe == cpu = "hung" => state = "SAFE" /\ pyro1On = 0

Base ==
    /\ TypeOK
    /\ TimesOrdered
    /\ ArmingKnown
    /\ PinProgress
    /\ HungIsSafe
    /\ RadioMatchesState

\* What the deadlines stand for while they run.
Timers ==
    /\ MosfetKnown
    /\ state = "ARMED" => timeout = outSince - bootAt + SafeTime
    /\ state \in {"FLIGHT", "RECOVERY"} => lastPass - outSince >= SafeTime
    /\ state = "RECOVERY" /\ pyro1On = 1 =>
           /\ timeout = firedAt - bootAt + HoldTime
           /\ lastPass < firedAt + HoldTime
    /\ state = "SAFE" /\ pyro1On = 1 => lastPass < firedAt + HoldTime + MaxGap

-----------------------------------------------------------------------------
(* Lemmas about the clock and the radio *)

LEMMA ModRange ==
    ASSUME NEW a \in Int, NEW m \in Nat \ {0}
    PROVE  a % m \in 0..(m - 1)
OBVIOUS

LEMMA ModSmall ==
    ASSUME NEW m \in Nat \ {0}, NEW a \in 0..(m - 1)
    PROVE  a % m = a
OBVIOUS

\* Below the wrap, millis() is the time since the reset and a deadline is the
\* sum it was meant to be.
LEMMA ClockExact ==
    ASSUME NoWrap, TypeOK, TimesOrdered
    PROVE  /\ millis = now - bootAt
           /\ Deadline(SafeTime) = now - bootAt + SafeTime
           /\ Deadline(HoldTime) = now - bootAt + HoldTime
<1>1. now - bootAt \in 0..(ClockMod - 1)
  BY ConstantsAssumption DEF NoWrap, TypeOK, TimesOrdered
<1>2. millis = now - bootAt
  BY <1>1, ModSmall, ConstantsAssumption DEF millis
<1>3. /\ now - bootAt + SafeTime \in 0..(ClockMod - 1)
      /\ now - bootAt + HoldTime \in 0..(ClockMod - 1)
  BY ConstantsAssumption DEF NoWrap, TypeOK, TimesOrdered
<1> QED
  BY <1>2, <1>3, ModSmall, ConstantsAssumption DEF Deadline

LEMMA DeadlineType ==
    ASSUME TypeOK
    PROVE  /\ Deadline(SafeTime) \in 0..(ClockMod - 1)
           /\ Deadline(HoldTime) \in 0..(ClockMod - 1)
<1>1. now - bootAt \in Int
  BY DEF TypeOK
<1>2. millis \in 0..(ClockMod - 1)
  BY <1>1, ModRange, ConstantsAssumption DEF millis
<1>3. millis + SafeTime \in Int /\ millis + HoldTime \in Int
  BY <1>2, ConstantsAssumption
<1> QED
  BY <1>3, ModRange, ConstantsAssumption DEF Deadline

\* What the driver calls of the control task leave in the radio.
LEMMA RadioCalls ==
    ASSUME radio \in Radios
    PROVE  /\ BeaconRadio \in Radios /\ IsBeacon(BeaconRadio)
           /\ RecoveryRadio \in Radios /\ OnChannel(RecoveryRadio)
           /\ Transmit \in Radios
           /\ OnChannel(radio) => OnChannel(Transmit)
           /\ IsBeacon(radio) => IsBeacon(Transmit)
           /\ SetMode(radio, "STDBY") \in Radios
           /\ OnChannel(radio) => OnChannel(SetMode(radio, "STDBY"))
           /\ StartRadio \in Radios
BY DEF Radios, Modes, Modems, Freqs, BeaconRadio, RecoveryRadio, Transmit,
       StartRadio, InitRadio, StartTX, WriteFIFO, Sleep, SetupFSK, SetupLoRa,
       SetFrequencyHz, SetLRMode, SetMode, OnChannel, IsBeacon

-----------------------------------------------------------------------------
(* The part of the invariant that needs nothing of the clock *)

LEMMA BaseInit == Init => Base
<1> SUFFICES ASSUME Init PROVE Base
  OBVIOUS
<1>1. StartRadio \in Radios
  BY DEF Radios, Modes, Modems, Freqs, StartRadio, InitRadio, SetupLoRa,
         SetFrequencyHz, SetLRMode, SetMode
<1>2. TypeOK
  BY <1>1, ConstantsAssumption DEF Init, TypeOK, States
<1> QED
  BY <1>2, ConstantsAssumption
     DEF Init, Base, TimesOrdered, ArmingKnown, PinProgress, HungIsSafe, RadioMatchesState

LEMMA BaseNext == Base /\ [Next]_vars => Base'
<1> SUFFICES ASSUME Base, [Next]_vars PROVE Base'
  OBVIOUS
<1> USE ConstantsAssumption
<1>0. TypeOK /\ radio \in Radios
  BY DEF Base, TypeOK
<1>1. CASE Control
  <2> USE <1>1 DEF Control, ControlPass
  <2>1. TypeOK'
    <3>1. radio' \in Radios
      BY <1>0, RadioCalls DEF ControlSafe, ControlDisarm, ControlUnlock, ControlFire,
                              ControlCut, ControlWait
    <3>2. timeout' \in 0..(ClockMod - 1)
      BY <1>0, DeadlineType DEF TypeOK, ControlSafe, ControlDisarm, ControlUnlock,
                                ControlFire, ControlCut, ControlWait
    <3> QED
      BY <1>0, <3>1, <3>2 DEF TypeOK, States, ControlSafe, ControlDisarm, ControlUnlock,
                              ControlFire, ControlCut, ControlWait
  <2>2. TimesOrdered'
    BY DEF Base, TypeOK, TimesOrdered
  <2>3. ArmingKnown'
    BY DEF Base, TypeOK, States, TimesOrdered, ArmingKnown, ControlSafe, ControlDisarm,
           ControlUnlock, ControlFire, ControlCut, ControlWait
  <2>4. PinProgress'
    BY DEF Base, TypeOK, TimesOrdered, PinProgress, ControlSafe, ControlDisarm,
           ControlUnlock, ControlFire, ControlCut, ControlWait
  <2>5. RadioMatchesState'
    BY <1>0, RadioCalls DEF Base, RadioMatchesState, ControlSafe, ControlDisarm,
           ControlUnlock, ControlFire, ControlCut, ControlWait
  <2> QED
    BY <2>1, <2>2, <2>3, <2>4, <2>5 DEF Base, HungIsSafe
<1>2. CASE Sensors
  BY <1>2 DEF Sensors, Base, TypeOK, TimesOrdered, ArmingKnown, PinProgress, HungIsSafe,
              RadioMatchesState, hist
<1>3. CASE SendTelemetry \/ LoraTest
  <2>1. radio' = Transmit /\ state' = state
    BY <1>3 DEF SendTelemetry, LoraTest
  <2>2. radio' \in Radios /\ RadioMatchesState'
    BY <2>1, <1>0, RadioCalls DEF Base, RadioMatchesState
  <2> QED
    BY <1>3, <2>2 DEF SendTelemetry, LoraTest, Base, TypeOK, TimesOrdered, ArmingKnown,
                      PinProgress, HungIsSafe, hist
<1>4. CASE TxDone
  <2>1. radio' \in Radios /\ RadioMatchesState'
    BY <1>4, <1>0, RadioCalls DEF TxDone, Base, RadioMatchesState, IsBeacon
  <2> QED
    BY <1>4, <2>1 DEF TxDone, Base, TypeOK, TimesOrdered, ArmingKnown, PinProgress,
                      HungIsSafe, hist
<1>5. CASE MovePin
  BY <1>5 DEF MovePin, Base, TypeOK, TimesOrdered, ArmingKnown, PinProgress, HungIsSafe,
              RadioMatchesState
<1>6. CASE Reset
  <2>1. radio' \in Radios
    BY <1>6, <1>0, RadioCalls DEF Reset
  <2> QED
    BY <1>6, <2>1 DEF Reset, Base, TypeOK, States, TimesOrdered, ArmingKnown, PinProgress,
                      HungIsSafe, RadioMatchesState
<1>7. CASE Tick
  BY <1>7 DEF Tick, Base, TypeOK, TimesOrdered, ArmingKnown, PinProgress, HungIsSafe,
              RadioMatchesState, hist
<1>8. CASE UNCHANGED vars
  BY <1>8 DEF vars, hist, Base, TypeOK, TimesOrdered, ArmingKnown, PinProgress, HungIsSafe,
              RadioMatchesState
<1> QED
  BY <1>1, <1>2, <1>3, <1>4, <1>5, <1>6, <1>7, <1>8 DEF Next

\* The first three results hold even across the wrap of the clock.
THEOREM BaseInvariant == Spec => []Base
BY BaseInit, BaseNext, PTL DEF Spec

\* Every reachable state is one the declarations of the code allow: the enum,
\* the uint32 deadline, the pins and the radio keep their ranges.
THEOREM TypeCorrect == Spec => []TypeOK
BY BaseInvariant, PTL DEF Base

\* For every schedule of the tasks and the console, the carrier is on the air
\* in eFLIGHT and the modem is back on the channel in eRECOVERY.
THEOREM RadioMatches == Spec => []RadioMatchesState
BY BaseInvariant, PTL DEF Base

\* For every MaxGap, SafeTime and clock width: two gaps after the SAFE pin came
\* in the tracker is in eSAFE with the MOSFET off.
THEOREM PinIsHeeded == Spec => []PinInSafe
<1>1. Base => PinInSafe
  BY ConstantsAssumption
     DEF Base, TypeOK, TimesOrdered, PinProgress, HungIsSafe, PinInSafe
<1> QED
  BY <1>1, BaseInvariant, PTL

-----------------------------------------------------------------------------
(* The timers, for an uptime below the wrap *)

LEMMA TimersInit == Init => Timers
BY DEF Init, Timers, MosfetKnown

\* One pass of the control task keeps the meaning of the deadlines.
LEMMA TimersControl ==
    ASSUME NoWrap, Base, Timers, Control
    PROVE  Timers'
<1> USE ConstantsAssumption
<1>1. /\ millis = now - bootAt
      /\ Deadline(SafeTime) = now - bootAt + SafeTime
      /\ Deadline(HoldTime) = now - bootAt + HoldTime
  BY ClockExact DEF Base
<1>2. ControlPass
  BY DEF Control
<1>3. CASE ControlSafe
  BY <1>1, <1>2, <1>3 DEF ControlSafe, ControlPass, Base, TypeOK, TimesOrdered,
                          ArmingKnown, Timers, MosfetKnown
<1>4. CASE ControlDisarm
  BY <1>2, <1>4 DEF ControlDisarm, ControlPass, Base, TypeOK, States, TimesOrdered,
                    ArmingKnown, HungIsSafe, Timers, MosfetKnown
<1>5. CASE ControlUnlock
  BY <1>1, <1>2, <1>5 DEF ControlUnlock, ControlPass, TimerExpired, Base, TypeOK,
                          TimesOrdered, ArmingKnown, Timers, MosfetKnown
<1>6. CASE ControlFire
  BY <1>1, <1>2, <1>6 DEF ControlFire, ControlPass, Base, TypeOK, TimesOrdered,
                          ArmingKnown, Timers, MosfetKnown
<1>7. CASE ControlCut
  BY <1>2, <1>7 DEF ControlCut, ControlPass, Base, TypeOK, TimesOrdered,
                    ArmingKnown, Timers, MosfetKnown
<1>8. CASE ControlWait
  BY <1>1, <1>2, <1>8 DEF ControlWait, ControlPass, TimerExpired, Base, TypeOK,
                          TimesOrdered, ArmingKnown, Timers, MosfetKnown
<1> QED
  BY <1>3, <1>4, <1>5, <1>6, <1>7, <1>8 DEF Control

LEMMA TimersNext ==
    ASSUME NoWrap, Base, Timers, [Next]_vars
    PROVE  Timers'
<1>1. CASE Control
  BY <1>1, TimersControl
<1>2. CASE Reset
  BY <1>2 DEF Reset, Timers, MosfetKnown
<1>3. CASE Sensors \/ SendTelemetry \/ LoraTest \/ TxDone \/ MovePin \/ Tick \/ UNCHANGED vars
  <2>1. UNCHANGED <<bootAt, state, timeout, pyro1On, lastPass, outSince, firedAt>>
    BY <1>3 DEF Sensors, SendTelemetry, LoraTest, TxDone, MovePin, Tick, vars, hist
  <2> QED
    BY <2>1 DEF Timers, MosfetKnown
<1> QED
  BY <1>1, <1>2, <1>3 DEF Next

LEMMA TimersInvariant == NoWrap => (Spec => [](Base /\ Timers))
<1> SUFFICES ASSUME NoWrap PROVE Spec => [](Base /\ Timers)
  OBVIOUS
<1>1. Init => Base /\ Timers
  BY BaseInit, TimersInit
<1>2. (Base /\ Timers) /\ [Next]_vars => (Base /\ Timers)'
  BY BaseNext, TimersNext
<1> QED
  BY <1>1, <1>2, PTL DEF Spec

\* Below the wrap of the clock, the igniter is never on for longer than the
\* hold time and two gaps of the control task.
THEOREM BurnIsBounded == NoWrap => (Spec => []BurnBounded)
<1> SUFFICES ASSUME NoWrap PROVE Spec => []BurnBounded
  OBVIOUS
<1>1. Base /\ Timers => BurnBounded
  BY ConstantsAssumption
     DEF Base, TypeOK, TimesOrdered, HungIsSafe, Timers, MosfetKnown, BurnBounded
<1> QED
  BY <1>1, TimersInvariant, PTL

-----------------------------------------------------------------------------
(* The steps of the interlock *)

\* A step that switches the MOSFET on is a shot in eFLIGHT.
LEMMA FireStep ==
    ASSUME NoWrap, Base, Timers, [Next]_vars, pyro1On = 0, pyro1On' = 1
    PROVE  outSince # NoTime /\ now - outSince >= SafeTime
<1>1. Control /\ ControlFire
  BY DEF Next, Control, ControlSafe, ControlDisarm, ControlUnlock, ControlCut, ControlWait,
         Sensors, SendTelemetry, LoraTest, TxDone, MovePin, Reset, Tick, vars
<1> QED
  BY <1>1, ConstantsAssumption
     DEF ControlFire, Base, TypeOK, TimesOrdered, ArmingKnown, Timers

\* For every SafeTime: the MOSFET is switched on only when every pass of the
\* control task saw the SAFE pin pulled for at least that long.
THEOREM FiresAfterSafeTime == NoWrap => (Spec => FiresOnlyAfterSafeTime)
<1> SUFFICES ASSUME NoWrap PROVE Spec => FiresOnlyAfterSafeTime
  OBVIOUS
<1>1. Base /\ Timers /\ [Next]_vars =>
          [pyro1On = 0 /\ pyro1On' = 1 => outSince # NoTime /\ now - outSince >= SafeTime]_vars
  BY FireStep
<1> QED
  BY <1>1, TimersInvariant, PTL DEF Spec, FiresOnlyAfterSafeTime

LEMMA ControlRefines ==
    ASSUME NoWrap, Base, Timers, Control
    PROVE  [Interlock!Next]_(Interlock!avars)
<1> USE ConstantsAssumption
<1>1. millis = now - bootAt
  BY ClockExact DEF Base
<1>2. ControlPass
  BY DEF Control
<1> USE <1>2 DEF ControlPass, Interlock!Next, Interlock!avars, Interlock!NoTime
<1>3. CASE ControlSafe /\ ~PinInPlace
  <2>1. Interlock!Arm
    BY <1>3 DEF ControlSafe, Interlock!Arm, phase, Base, ArmingKnown
  <2> QED
    BY <2>1
<1>4. CASE ControlSafe /\ PinInPlace /\ pyro1On = 1
  <2>1. Interlock!Release
    BY <1>4 DEF ControlSafe, Interlock!Release, phase, Base, ArmingKnown
  <2> QED
    BY <2>1
<1>5. CASE ControlSafe /\ PinInPlace /\ pyro1On = 0
  BY <1>5 DEF ControlSafe, phase, Base, ArmingKnown, Timers, MosfetKnown
<1>6. CASE ControlDisarm
  <2>1. Interlock!Lock
    BY <1>6 DEF ControlDisarm, Interlock!Lock, phase, Base, TypeOK, States
  <2> QED
    BY <2>1
<1>7. CASE ControlUnlock
  BY <1>7 DEF ControlUnlock, phase, Base, ArmingKnown
<1>8. CASE ControlFire
  <2>1. Interlock!Fire
    BY <1>8 DEF ControlFire, Interlock!Fire, phase, Base, TypeOK, TimesOrdered,
                ArmingKnown, Timers
  <2> QED
    BY <2>1
<1>9. CASE ControlCut /\ pyro1On = 1
  <2>1. now - firedAt >= HoldTime
    BY <1>1, <1>9 DEF ControlCut, TimerExpired, Base, TypeOK, TimesOrdered, Timers, MosfetKnown
  <2>2. Interlock!Cut
    BY <1>9, <2>1 DEF ControlCut, Interlock!Cut, phase, Base, ArmingKnown
  <2> QED
    BY <2>2
<1>10. CASE ControlCut /\ pyro1On = 0
  BY <1>10 DEF ControlCut, phase, Base, ArmingKnown, Timers, MosfetKnown
<1>11. CASE ControlWait
  BY <1>11 DEF ControlWait, phase, Base, ArmingKnown
<1>12. pyro1On \in {0, 1}
  BY DEF Base, TypeOK
<1> QED
  BY <1>3, <1>4, <1>5, <1>6, <1>7, <1>8, <1>9, <1>10, <1>11, <1>12 DEF Control

LEMMA StepRefines ==
    ASSUME NoWrap, Base, Timers, [Next]_vars
    PROVE  [Interlock!Next]_(Interlock!avars)
<1>1. CASE Control
  BY <1>1, ControlRefines
<1>2. CASE Reset
  BY <1>2 DEF Reset, Interlock!Next, Interlock!PowerLoss, Interlock!NoTime, phase
<1>3. CASE Tick
  BY <1>3 DEF Tick, hist, Interlock!Next, Interlock!TimePasses, phase
<1>4. CASE Sensors \/ SendTelemetry \/ LoraTest \/ TxDone \/ MovePin \/ UNCHANGED vars
  BY <1>4 DEF Sensors, SendTelemetry, LoraTest, TxDone, MovePin, vars, hist,
              Interlock!avars, phase
<1> QED
  BY <1>1, <1>2, <1>3, <1>4 DEF Next

\* Below the wrap of the clock, the flight control implements the interlock:
\* the initial states map to initial states, every step to a step or a stutter.
THEOREM RefinesInterlock == NoWrap => (Spec => ImplementsInterlock)
<1> SUFFICES ASSUME NoWrap PROVE Spec => Interlock!Spec
  BY DEF ImplementsInterlock
<1>1. Init => Interlock!Init
  BY DEF Init, Interlock!Init, Interlock!NoTime, phase
<1>2. Base /\ Timers /\ [Next]_vars => [Interlock!Next]_(Interlock!avars)
  BY StepRefines
<1> QED
  BY <1>1, <1>2, TimersInvariant, PTL DEF Spec, Interlock!Spec
=============================================================================
