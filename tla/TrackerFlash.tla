---------------------------- MODULE TrackerFlash ----------------------------
(***************************************************************************)
(* What tiny-sky keeps in its SPI flash: the calibration in a sector of    *)
(* its own (settings.cpp) and, from the next sector to the end of the      *)
(* chip, the flight log, a plain sequence of records whose end is found    *)
(* again after a restart (storage.cpp).  Power may fail at any time, also  *)
(* in the middle of a write or of an erase.                                *)
(*                                                                         *)
(* The chip is external: erasing sets the bytes of a sector to 16#FF,      *)
(* programming can only clear bits, it takes bytes in the order in which   *)
(* they are sent, a power failure leaves those programmed so far, and the  *)
(* address counts modulo the size of the chip.  The bytes of a record that *)
(* matter are its type and those that may read 16#FF; the others are 0.    *)
(***************************************************************************)
EXTENDS Integers, Sequences, FiniteSets

CONSTANTS SectorSize,  \* 16#1000 bytes in the code
          FlashSize,   \* 16#200000
          Window,      \* bytes that xlog_init reads at a time, 16
          Offsets,     \* values of mag_x_offset that a calibration finds
          MaxLog,      \* bound: log_size
          MaxFailures  \* bound: power failures in a behaviour

ASSUME ConstantsAssumption ==
    /\ SectorSize \in Nat \ {0}
    /\ FlashSize \in Nat /\ FlashSize % SectorSize = 0 /\ FlashSize > 2 * SectorSize
    /\ Window \in 4..SectorSize
    /\ Offsets \subseteq 1..254
    /\ MaxLog \in Nat
    /\ MaxFailures \in Nat

VARIABLES
    flash,         \* the bytes of the chip
    log_size,      \* the static of storage.cpp
    range,         \* <<low, high>> of xlog_init while it runs, then <<>>
    mag_x_offset,  \* of gCalibration, the one field that is calibrated
    mag_cal_enabled,
    flight         \* "safe", "armed" or "ejected", what lets records be logged

\* History: the records logged since the log was erased, what a restore is
\* expected to find, whether the log ever ran past the end of the chip,
\* whether the power ever failed while the log was being erased, and how often
\* it failed.
VARIABLES records, savedOffset, overflowed, eraseTorn, failures

hist == <<records, savedOffset, overflowed, eraseTorn, failures>>
vars == <<flash, log_size, range, mag_x_offset, mag_cal_enabled, flight, hist>>

Blank    == 255
Cells    == 0..(FlashSize - 1)
CalStart == SectorSize
LogStart == 2 * SectorSize
Capacity == FlashSize - LogStart

-----------------------------------------------------------------------------
(* The chip *)

\* Bits are only cleared.  The values in use are 0, powers of two and 16#FF.
Cleared(old, new) == IF old = Blank THEN new
                     ELSE IF new \in {Blank, old} THEN old ELSE 0

\* Programming bytes from address on, page by page.
Programmed(f, address, bytes) ==
    LET at == [i \in 1..Len(bytes) |-> (address + i - 1) % FlashSize]
    IN  [a \in Cells |-> IF \E i \in 1..Len(bytes) : at[i] = a
                         THEN Cleared(f[a], bytes[CHOOSE i \in 1..Len(bytes) : at[i] = a])
                         ELSE f[a]]

\* Erasing the sectors that begin at the given addresses.
Erased(f, starts) ==
    [a \in Cells |-> IF \E s \in starts : a - (s % FlashSize) \in 0..(SectorSize - 1)
                     THEN Blank ELSE f[a]]

-----------------------------------------------------------------------------
(* Start *)

DefaultOffset == 0

\* The power fails and leaves the given contents of the flash.  The start
\* begins with xlog_init, and nothing else runs before it is over.
PowerFails(f) ==
    /\ failures < MaxFailures
    /\ failures' = failures + 1
    /\ flash' = f
    /\ range' = <<LogStart, FlashSize - 1>>
    /\ log_size' = 0
    /\ mag_x_offset' = DefaultOffset
    /\ mag_cal_enabled' = FALSE
    /\ flight' = "safe"

Started == range = <<>>

WindowBlank(a) == \A i \in 0..(Window - 1) : flash[(a + i) % FlashSize] = Blank

\* Mutant of Searching: the loop runs while low < high.
SearchingOffByOne == ~Started /\ range[1] < range[2]

Searching == ~Started /\ range[1] <= range[2]

\* One step of the binary search of xlog_init for the first address whose
\* window is blank.
Search ==
    /\ Searching
    /\ LET low == range[1]  high == range[2]  middle == low + (high - low) \div 2
       IN  range' = IF WindowBlank(middle) THEN <<low, middle - 1>> ELSE <<middle + 1, high>>
    /\ UNCHANGED <<flash, log_size, mag_x_offset, mag_cal_enabled, flight, hist>>

\* Mutant of Restored: the guard byte is not looked at.
RestoredUnguarded == flash[CalStart]

\* AppCalibration::restore: must_be_zero, programmed last, is the guard.
Restored == IF flash[CalStart + 1] # 0 THEN DefaultOffset ELSE flash[CalStart]

\* The end of xlog_init, and the calibration.
Start ==
    /\ ~Started /\ ~Searching
    /\ log_size' = range[1] - LogStart
    /\ range' = <<>>
    /\ mag_x_offset' = Restored
    /\ UNCHANGED <<flash, mag_cal_enabled, flight, hist>>

Init ==
    /\ flash = [a \in Cells |-> Blank]
    /\ log_size = 0
    /\ range = <<>>
    /\ mag_x_offset = DefaultOffset
    /\ mag_cal_enabled = FALSE
    /\ flight = "safe"
    /\ records = {}
    /\ savedOffset = DefaultOffset
    /\ overflowed = FALSE
    /\ eraseTorn = FALSE
    /\ failures = 0

\* Power fails while the flash is idle, also during the start.
Restart ==
    /\ PowerFails(flash)
    /\ UNCHANGED <<records, savedOffset, overflowed, eraseTorn>>

-----------------------------------------------------------------------------
(* The log *)

\* A temperature or a field around -1 gives bytes of 16#FF at the end.
ArmRecord   == <<0, 0, 0, 0, 0, 0, 0, 0>>
BaroRecord  == <<1, 0, 0, 0, 0, 0, 0, Blank>>
MagRecord   == <<2, 0, 0, 0, 0, Blank, Blank, Blank>>
PosRecord   == <<4, 0, 0, 0, 0, 0, 0, 0, 0, 0, 0, 0, 0, 0, 0>>
EjectRecord == <<16, 0, 0, 0, 0>>

\* What may be logged next, and the state it leaves.
Loggable ==
    CASE flight = "safe"  -> {<<ArmRecord, "armed">>}
      [] flight = "armed" -> {<<r, "armed">> : r \in {BaroRecord, MagRecord, PosRecord}}
                             \cup {<<EjectRecord, "ejected">>}
      [] OTHER            -> {<<r, "ejected">> : r \in {BaroRecord, MagRecord, PosRecord}}

\* Mutant of NextAddress: one sector too low, as in xlog_free_space.
NextAddressLow == SectorSize + log_size

NextAddress == LogStart + log_size

\* Mutant of WriteRecord: log_size does not follow.
WriteRecordSameSize(bytes) ==
    /\ log_size + Len(bytes) <= MaxLog
    /\ flash' = Programmed(flash, NextAddress, bytes)
    /\ log_size' = log_size
    /\ records' = records \cup {[at |-> NextAddress, bytes |-> bytes]}
    /\ overflowed' = (overflowed \/ log_size + Len(bytes) > Capacity)

\* What every xlog_ function does with its record.  Nothing checks the room.
WriteRecord(bytes) ==
    /\ log_size + Len(bytes) <= MaxLog
    /\ flash' = Programmed(flash, NextAddress, bytes)
    /\ log_size' = log_size + Len(bytes)
    /\ records' = records \cup {[at |-> NextAddress, bytes |-> bytes]}
    /\ overflowed' = (overflowed \/ log_size + Len(bytes) > Capacity)

Log ==
    \E r \in Loggable :
        /\ WriteRecord(r[1])
        /\ flight' = r[2]
        /\ UNCHANGED <<range, mag_x_offset, mag_cal_enabled, savedOffset, eraseTorn, failures>>

\* Power fails while a record is written.
LogTorn ==
    \E r \in Loggable : \E n \in 1..(Len(r[1]) - 1) :
        /\ log_size + n <= MaxLog
        /\ PowerFails(Programmed(flash, NextAddress, SubSeq(r[1], 1, n)))
        /\ overflowed' = (overflowed \/ log_size + n > Capacity)
        /\ UNCHANGED <<records, savedOffset, eraseTorn>>

\* The SAFE pin goes back.
Disarm ==
    /\ flight # "safe"
    /\ flight' = "safe"
    /\ UNCHANGED <<flash, log_size, range, mag_x_offset, mag_cal_enabled, hist>>

\* Mutant of LogSectors: a log that ends inside a sector keeps its last one.
LogSectorsWhole ==
    {LogStart + k * SectorSize : k \in {n \in 0..log_size : (n + 1) * SectorSize <= log_size}}

\* The sectors that xlog_erase_log erases, one after the other.
LogSectors ==
    {LogStart + k * SectorSize : k \in {n \in 0..log_size : n * SectorSize < log_size}}

\* Console command rst_log.
EraseLog ==
    /\ flash' = Erased(flash, LogSectors)
    /\ log_size' = 0
    /\ records' = {}
    /\ UNCHANGED <<range, mag_x_offset, mag_cal_enabled, flight, savedOffset, overflowed,
                   eraseTorn, failures>>

\* Power fails while the log is erased.
EraseLogTorn ==
    \E n \in 0..(Cardinality(LogSectors) - 1) :
        /\ PowerFails(Erased(flash, {s \in LogSectors : s < LogStart + n * SectorSize}))
        /\ records' = {}
        /\ eraseTorn' = TRUE
        /\ UNCHANGED <<savedOffset, overflowed>>

-----------------------------------------------------------------------------
(* The calibration *)

\* Console command mag_cal.
MagCal ==
    /\ mag_x_offset' = 0
    /\ mag_cal_enabled' = TRUE
    /\ UNCHANGED <<flash, log_size, range, flight, hist>>

\* task_sensors, when the ten seconds of mag_cal are over.
Calibrate ==
    /\ mag_cal_enabled
    /\ mag_x_offset' \in Offsets
    /\ mag_cal_enabled' = FALSE
    /\ UNCHANGED <<flash, log_size, range, flight, hist>>

\* Console command save_cal: the image ends with must_be_zero.
Image == <<mag_x_offset, 0>>

SaveCalibration ==
    /\ flash' = Programmed(Erased(flash, {CalStart}), CalStart, Image)
    /\ savedOffset' = mag_x_offset
    /\ UNCHANGED <<log_size, range, mag_x_offset, mag_cal_enabled, flight, records,
                   overflowed, eraseTorn, failures>>

\* Power fails between the erase and the end of the programming.
SaveTorn ==
    /\ \E n \in 0..(Len(Image) - 1) :
           PowerFails(Programmed(Erased(flash, {CalStart}), CalStart, SubSeq(Image, 1, n)))
    /\ savedOffset' = DefaultOffset
    /\ UNCHANGED <<records, overflowed, eraseTorn>>

\* Console commands load_cal and rst_cal.
LoadCalibration ==
    /\ mag_x_offset' = Restored
    /\ UNCHANGED <<flash, log_size, range, mag_cal_enabled, flight, hist>>

ResetCalibration ==
    /\ mag_x_offset' = DefaultOffset
    /\ UNCHANGED <<flash, log_size, range, mag_cal_enabled, flight, hist>>

-----------------------------------------------------------------------------

\* What main, its tasks and the console do once the start is over.
Program ==
    \/ Log \/ LogTorn \/ Disarm \/ EraseLog \/ EraseLogTorn
    \/ MagCal \/ Calibrate \/ SaveCalibration \/ SaveTorn \/ LoadCalibration \/ ResetCalibration

Next ==
    \/ Restart
    \/ Search \/ Start
    \/ Started /\ Program

Spec == Init /\ [][Next]_vars

-----------------------------------------------------------------------------
(* Properties *)

\* log_size is where the log ends, also after a restart in the middle of a
\* record: behind it the chip is blank, and the last thing before it is log.
\* It fails to be only if an erase was interrupted, which leaves a hole that
\* the search may fall into, or after the log has run past the chip.
EndIsKnown ==
    ~overflowed /\ ~eraseTorn /\ Started =>
        /\ \A a \in NextAddress..(FlashSize - 1) : flash[a] = Blank
        /\ log_size > 0 => \E a \in LogStart..(NextAddress - 1) :
                               flash[a] # Blank /\ a >= NextAddress - Window

\* What was logged stays as it was logged, under the same two exceptions: no
\* later record and no save clears a bit of it.  (Bytes of 16#FF at the end of
\* a record may be taken over by the next one after a restart.)
RecordsIntact ==
    ~overflowed /\ ~eraseTorn =>
        \A r \in records : \A i \in 1..Len(r.bytes) :
            r.bytes[i] # Blank => flash[r.at + i - 1] = r.bytes[i]

\* A restore finds what was saved last, or the defaults if that save did not
\* come to its end, whatever the log does short of running past the chip.
CalibrationKept == ~overflowed => Restored = savedOffset
=============================================================================
