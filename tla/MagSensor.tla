------------------------------ MODULE MagSensor ------------------------------
(***************************************************************************)
(* The magnetometer of tiny-sky, whose sign triggers the ejection: the     *)
(* part of task_sensors that reads it, the driver (mag3110.cpp) on an I2C  *)
(* bus whose transactions may fail, and the calibration of its offset.     *)
(*                                                                         *)
(* The driver measures on demand: a trigger starts one conversion, the     *)
(* next pass that finds it ready reads it and triggers again.  Nothing     *)
(* else triggers.  A failed transaction is reported by i2c.h and ignored   *)
(* by the driver: an axis reads 0, a register reads what was on the stack, *)
(* a write is lost.                                                        *)
(*                                                                         *)
(* The chip and the field around it are external.  Its readings are within *)
(* +-10000 (1000 uT), so that a difference of two fits in an int16.        *)
(***************************************************************************)
EXTENDS Integers, Sequences, FiniteSets, FiniteSetsExt

CONSTANTS Fields,     \* values of the field along the axis of the trigger
          CalPasses,  \* duration of a calibration, in intervals of the task
          MaxErrors,  \* bound: failed transactions in a behaviour
          MaxCommands \* bound: console commands in a behaviour

ASSUME ConstantsAssumption ==
    /\ Fields \subseteq -10000..10000
    /\ CalPasses \in Nat
    /\ MaxErrors \in Nat
    /\ MaxCommands \in Nat

VARIABLES
    field,            \* the field now
    converting,       \* chip: a conversion runs
    continuous,       \* chip: it starts the next one by itself
    ready,            \* chip: DR_STATUS, a sample waits to be read
    sample,           \* chip: the sample
    last_mx,          \* of AppState, its sign: -1, 0 or 1
    mag_x_offset,     \* of gCalibration
    saved,            \* the offset in the flash (see TrackerFlash)
    mag_cal_enabled,
    cal_time,         \* time since mag_cal_start
    cal_count, cal_mx_min, cal_mx_max

\* History: the samples of a calibration, whether it was left alone, whether
\* the last sample that was read was below the offset, whether a trigger was
\* lost after which none followed, and the numbers of failed transactions and
\* of commands.
VARIABLES taken, undisturbed, below, triggerLost, errors, commands

chip == <<converting, continuous, ready, sample>>
cal  == <<mag_cal_enabled, cal_time, cal_count, cal_mx_min, cal_mx_max>>
hist == <<taken, undisturbed, below, triggerLost, errors, commands>>
vars == <<field, chip, last_mx, mag_x_offset, saved, cal, hist>>

-----------------------------------------------------------------------------
(* The world *)

MoveMagnet ==
    /\ field' \in Fields \ {field}
    /\ UNCHANGED <<chip, last_mx, mag_x_offset, saved, cal, hist>>

\* A conversion ends.
Convert ==
    /\ converting
    /\ sample' = field
    /\ ready' = TRUE
    /\ converting' = continuous
    /\ UNCHANGED <<field, continuous, last_mx, mag_x_offset, saved, cal, hist>>

-----------------------------------------------------------------------------
(* The driver *)

\* Mutant of Ready: the bit is not looked at.
ReadyAlways(failed) == {TRUE}

\* dataReady; a status that could not be read is anything.
Ready(failed) == IF failed THEN BOOLEAN ELSE {ready}

\* readAxis: two transactions, between which a running conversion may end.
Joined(high, low) == (high \div 256) * 256 + (low % 256)

ReadAxis(failed) ==
    IF failed THEN {0}
    ELSE {sample} \cup (IF converting THEN {Joined(sample, field)} ELSE {})

\* Mutant of Trigger: no new conversion.
TriggerNot(failed) == UNCHANGED <<converting, continuous, triggerLost>>

\* trigger sets a bit in what it read from CTRL_REG1.  If that was rubbish the
\* chip may be left measuring continuously.
Trigger(failed) ==
    IF "write" \in failed
    THEN /\ triggerLost' = ~converting
         /\ UNCHANGED <<converting, continuous>>
    ELSE /\ triggerLost' = FALSE
         /\ converting' = TRUE
         /\ IF "control" \in failed THEN continuous' \in BOOLEAN ELSE UNCHANGED continuous

\* The transactions of a pass that fail, of those that it makes.
Failures(made) == {f \in SUBSET made : errors + Cardinality(f) <= MaxErrors}

-----------------------------------------------------------------------------
(* The task *)

\* Mutant of Counted: the extremes of the last calibration are still there.
CountedAlways(n) == n > 0

\* The first samples only set the extremes.
Counted(n) == n > 3

Sign(x) == IF x < 0 THEN -1 ELSE IF x = 0 THEN 0 ELSE 1

Middle(min, max) == min + (max - min) \div 2

\* The end of a pass that has read x; time is that since mag_cal_start.
\* cal_count stops at 4, above which no number makes a difference.
Calibrate(x, time) ==
    IF ~mag_cal_enabled THEN UNCHANGED <<cal, mag_x_offset, taken>>
    ELSE LET n   == Min({cal_count + 1, 4})
             min == IF Counted(n) /\ cal_mx_min < x THEN cal_mx_min ELSE x
             max == IF Counted(n) /\ cal_mx_max > x THEN cal_mx_max ELSE x
             end == time >= CalPasses
         IN  /\ cal_mx_min' = min
             /\ cal_mx_max' = max
             /\ cal_time' = IF end THEN 0 ELSE time
             /\ taken' = IF end \/ ~undisturbed' THEN <<>> ELSE Append(taken, sample)
             /\ mag_x_offset' = IF end THEN Middle(min, max) ELSE mag_x_offset
             /\ mag_cal_enabled' = ~end
             /\ cal_count' = IF end THEN 0 ELSE n

\* A pass of task_sensors that finds no data.
PassIdle ==
    \E failed \in Failures({"status"}) :
        /\ FALSE \in Ready("status" \in failed)
        /\ cal_time' = IF mag_cal_enabled THEN Min({cal_time + 1, CalPasses}) ELSE 0
        /\ errors' = errors + Cardinality(failed)
        /\ UNCHANGED <<field, chip, last_mx, mag_x_offset, saved, mag_cal_enabled, cal_count,
                       cal_mx_min, cal_mx_max, taken, undisturbed, below, triggerLost, commands>>

\* A pass that reads: the chip drops its ready bit when all axes were read.
PassReads ==
    \E failed \in Failures({"status", "axis", "others", "control", "write"}) :
        /\ TRUE \in Ready("status" \in failed)
        /\ undisturbed' = (undisturbed /\ "axis" \notin failed /\ ~converting /\ mag_cal_enabled)
        /\ \E v \in ReadAxis("axis" \in failed) :
               /\ last_mx' = Sign(v - mag_x_offset)
               /\ Calibrate(v - mag_x_offset, Min({cal_time + 1, CalPasses}))
        /\ ready' = (ready /\ failed \cap {"axis", "others"} # {})
        /\ Trigger(failed)
        /\ below' = (sample < mag_x_offset)
        /\ errors' = errors + Cardinality(failed)
        /\ UNCHANGED <<field, sample, saved, commands>>

Pass == PassIdle \/ PassReads

-----------------------------------------------------------------------------
(* The console *)

Command ==
    /\ commands < MaxCommands
    /\ commands' = commands + 1

\* mag_cal starts, or starts again: cal_count and the extremes stay.
MagCal ==
    /\ Command
    /\ mag_x_offset' = 0
    /\ mag_cal_enabled' = TRUE
    /\ cal_time' = 0
    /\ taken' = <<>>
    /\ undisturbed' = ~mag_cal_enabled
    /\ UNCHANGED <<field, chip, last_mx, saved, cal_count, cal_mx_min, cal_mx_max, below,
                   triggerLost, errors>>

SaveCal ==
    /\ Command
    /\ saved' = mag_x_offset
    /\ UNCHANGED <<field, chip, last_mx, mag_x_offset, cal, taken, undisturbed, below,
                   triggerLost, errors>>

\* load_cal and rst_cal, also while a calibration runs.
SetOffset(offset) ==
    /\ Command
    /\ mag_x_offset' = offset
    /\ undisturbed' = (undisturbed /\ offset = 0)
    /\ taken' = IF undisturbed' THEN taken ELSE <<>>
    /\ UNCHANGED <<field, chip, last_mx, saved, cal, below, triggerLost, errors>>

LoadCal == SetOffset(saved)
RstCal  == SetOffset(0)

-----------------------------------------------------------------------------
(* Start *)

Init ==
    /\ field \in Fields
    /\ converting = FALSE
    /\ continuous = FALSE
    /\ ready = TRUE
    /\ sample = field
    /\ last_mx = 0
    /\ mag_x_offset = 0
    /\ saved = 0
    /\ mag_cal_enabled = FALSE
    /\ cal_time = 0 /\ cal_count = 0 /\ cal_mx_min = 0 /\ cal_mx_max = 0
    /\ taken = <<>>
    /\ undisturbed = FALSE
    /\ below = FALSE
    /\ triggerLost = FALSE
    /\ errors = 0 /\ commands = 0

\* A reset of the board: init_periph puts the chip into standby, triggers, and
\* beeps for longer than a conversion takes.
Restart ==
    /\ last_mx' = 0
    /\ mag_x_offset' = saved
    /\ mag_cal_enabled' = FALSE
    /\ cal_time' = 0 /\ cal_count' = 0 /\ cal_mx_min' = 0 /\ cal_mx_max' = 0
    /\ taken' = <<>>
    /\ undisturbed' = FALSE
    /\ below' = FALSE
    /\ \E failed \in Failures({"control", "write"}) :
           /\ continuous' \in IF failed = {"control"} THEN BOOLEAN ELSE {FALSE}
           /\ converting' = continuous'
           /\ triggerLost' = ("write" \in failed)
           /\ IF triggerLost' THEN UNCHANGED <<ready, sample>>
              ELSE ready' = TRUE /\ sample' = field
           /\ errors' = errors + Cardinality(failed)
    /\ UNCHANGED <<field, saved, commands>>

Next ==
    \/ MoveMagnet \/ Convert
    \/ Pass
    \/ MagCal \/ SaveCal \/ LoadCal \/ RstCal
    \/ Restart

Spec == Init /\ [][Next]_vars

\* A triggered conversion ends, and the task is called again and again.
FairSpec == Spec /\ WF_vars(Convert) /\ WF_vars(Pass)

-----------------------------------------------------------------------------
(* Properties *)

\* The chain of triggers breaks only where a write was lost: otherwise there is
\* always a conversion that runs or a sample that waits to be read.
StopsOnlyAfterLoss == converting \/ ready \/ triggerLost

\* On a bus without errors a negative last_mx, which fires in eFLIGHT, comes
\* from a sample that was below the offset: no half-read value, and none of a
\* conversion that had not ended.
NoFalseTrigger == errors = 0 /\ last_mx < 0 => below

\* A calibration that nobody disturbed leaves the middle of the samples that
\* were taken since mag_cal, without the first two, which settle; a single
\* sample is its own middle.  Nothing is left of an earlier calibration.
Extremes(s) == {s[i] : i \in (IF Len(s) > 3 THEN 3 ELSE Len(s))..Len(s)}

CalibrationIsRight ==
    [][mag_cal_enabled /\ ~mag_cal_enabled' /\ undisturbed' =>
          LET of == Extremes(Append(taken, sample))
          IN  mag_x_offset' = Middle(Min(of), Max(of))]_vars

\* A field that stays below the offset is seen by the trigger, unless the
\* chain of triggers has been broken.
FieldIsSeen ==
    \A f \in Fields :
        []([](field = f /\ f < mag_x_offset /\ ~triggerLost) => <>(last_mx < 0))
=============================================================================
