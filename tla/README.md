# Formal models of zinoo

This directory holds TLA+ models of the firmware in this repository, TLC
configurations that check them on small instances, and proofs for the parts
where a small instance is not enough. They are read beside the code: every
definition names what it stands for in a comment, and `PROJECT.json` gives the
lines.

1. [The system](#1-the-system)
2. [The modules](#2-the-modules)
3. [The runs and what they show](#3-the-runs-and-what-they-show)
4. [Fairness](#4-fairness)
5. [The proofs](#5-the-proofs)
6. [Where the program and its documentation differ](#6-where-the-program-and-its-documentation-differ)
7. [What the models leave out](#7-what-the-models-leave-out)
8. [Plan](#8-plan)

## 1. The system

zinoo is a set of trackers and ground stations for high-altitude balloons and
small rockets. The programs share little code; they meet on the air, in UKHAS
telemetry sentences and in commands to a tracker.

### 1.1 tiny-sky (`src/firmware/tiny-sky`)

The newest tracker and the only one that ejects a load by burning a wire; it
is the centre of this work. An STM32F0 without an operating system:

| Part | State | Operations | Meets |
|---|---|---|---|
| flight control (`settings.cpp`, `task_control`) | `state`, `timeout`, the MOSFET pin | one pass every 200 ms: arm, unlock, fire, cut, disarm | the radio, the flight log, `last_mx` of the sensor task, the SAFE pin |
| radio driver (`drivers/sx1276.cpp`) | mode, modem and frequency of the chip | `setupLoRa`, `setupFSK`, `setFrequencyHz`, `writeFIFO`, `startTX`, `sleep` | called by flight control, report and console, none of which knows of the others |
| scheduler (`systick.cpp`, `main.cpp`) | list of tasks with due times | `add_task`, `schedule_tasks`, the tick | calls every task, one at a time |
| USB console (`cdcacm.c`) | transmit queue, `tx_done`, the endpoint | `usb_cdc_write` in main, the completion callback in an interrupt, bus resets | all text output of all tasks |
| queues and GPS port (`ptlib/queue.h`, `serial.h`) | ring buffers, the interrupt enable bit | `push`, `pop`, `putc`, `getc`, the USART interrupt | parser, GPS commands |
| flash (`storage.cpp`, `AppCalibration`) | log with `log_size`, calibration sector | records of five kinds, erase, search of the end at start, save and restore | flight control, sensors, report, console; `util/log-decode.py` reads the copy |
| GPS parser and report (`gps.cpp`, `telemetry.cpp`, `task_report`) | line and checksum, the latest fix, the telemetry | one byte, one sentence, one report | the GPS port on one side, radio and log on the other |
| console (`console.cpp`) | a line buffer | commands that print, calibrate, erase, transmit | everything above |
| magnetometer (`drivers/mag3110.cpp`, `task_sensors`) | the chip's conversion, `last_mx`, the offset and its calibration | trigger, read, trigger again; `mag_cal` | the sign of `last_mx` fires in eFLIGHT |
| GPS configuration (`ublox.cpp`) | what the receiver has of a frame or a line | commands at the start, after five seconds, from the console | the transmit queue, which refuses what does not fit |
| other sensors, indicators | last readings, a LED, a buzzer | register access | the report |

What is hard here: three interrupts (USB, USART, tick) against one main
program that shares plain variables with them; tasks that block each other;
a reset at any moment, with an igniter on; a flash that may lose power in the
middle of a record; a clock that wraps.

### 1.2 The other programs

| Program | State worth a model | What makes it correct |
|---|---|---|
| lora-sky (`Client.ino`, `Status.cpp`) | switches with automatic off, watchdog, message number in EEPROM | a switch goes off in time also without GPS; a message number is not used twice; the balloon is released above an altitude |
| zinoo-liepaja (`main.cpp`, `FSKTransmitter.hh`, `UKHAS.cpp`) | the bit clock interrupt against `transmit`, two-byte counters, the number in EEPROM | what is on the air is one packet, a torn counter does no lasting harm |
| lora-ground (`Server.ino`) | buttons, a display | no state of its own that outlives a pass |
| antenna-rotator (`Rotator.ino`) | one line of text | the duty that was asked for |
| `util/habhub-upload.py` | none: an upload is named by a hash of its sentence, so that repeating it changes nothing | a packet is uploaded |

The other scripts of `util` are batch arithmetic, `eagle` is hardware, and the
libraries under `lib` come from elsewhere (LiquidCrystal, SdFat, PetitFS,
FatFs, `lfs.c`). None of these, lora-ground, the rotator and the uploader has a
model.

## 2. The modules

```
 PyroInterlock (abstract)      TaskTimer (abstract)     SentenceLink (abstract)
       ^ implements                  ^ implements              ^ implements
 FlightControl -- Sx1276       Scheduler                GpsFeed
       ^                             ^                         ^
 MCFlightControl               MCScheduler              MCGpsFeed
 FlightControl_proofs          Scheduler_proofs
                               BoundedFifo (abstract)
 UsbCdc                              ^ implements       TrackerFlash
 UsbCdc_proofs                 RingQueue                TrackerFlash_proofs
                               RingQueue_proofs
 MagSensor                           : the queue of
 MCMagSensor                   UbloxCommands (proofs: RingQueue_proofs)
 MagSensor_proofs              MCUbloxCommands

 LoraSky                       Liepaja
 MCLoraSky                     Liepaja_proofs
 LoraSky_proofs
```

* **FlightControl** is `task_control` with everything that touches what it
  touches. A task runs to its end before the next one starts, so a routine is
  one action: `Control` (one disjunct for each branch of the `switch`),
  `Sensors`, `SendTelemetry`, `LoraTest`. `TxDone`, `MovePin`, `Reset` and
  `Tick` belong to the world. The radio is a record on which **Sx1276** has
  one operator for each driver call, so that `BeaconRadio` and `RecoveryRadio`
  read as the code does. Variables with the name of the code (`state`,
  `timeout`, `pyro1On`) are the code's; `lastPass`, `outSince`, `inSince` and
  `firedAt` are history and no guard reads them.
* **PyroInterlock** says what anybody would want of a pyro channel: one shot
  for one arming, not before the safe time, held for the hold time, locked by
  a loss of power. FlightControl implements it with `phase` read off the
  state.
* **Scheduler** is the linked list of `systick.cpp`, with `insert_task`
  following the links, the default due time 0 of `add_task`, and the tick that
  may come before or after the test that precedes `WFI`. A run takes up to
  `RunTime`, or longer by one of `Overruns`: `buzz_times(4)` blocks 800 ms
  inside the sensor task of 100 ms, and the console task of 50 ms waits 100 ms,
  erases the log or prints all of it. `overrun` is history: by how much such
  runs took too long since a pass last found nothing to do. **TaskTimer** is the
  same without a list: of the pending tasks that are due, the most urgent one.
* **UsbCdc** splits `usb_cdc_write` where the completion interrupt can come:
  after the critical section that fills the queue, after the test of `tx_done`,
  after the critical section of the callback. Bytes are numbered. The endpoint
  and the host are external and do what libopencm3 and the bus do: an endpoint
  holds one packet and refuses a second one, a reset throws it away.
* **RingQueue** is the queue used at both ends. `_size++` and `_size--` are a
  load and a store; between two uses of `_size` the compiler may keep the value
  it has or read it again, and the model allows both. The interrupt is masked
  around main's operations (as in the transmit path of `cdcacm.c`) or it is not
  (the GPS port, `usb_cdc_read`). **BoundedFifo** is what the masked queue
  implements.
* **TrackerFlash** is the chip with the calibration sector and the log. A
  write, a save and an erase each have a variant in which the power fails
  inside, followed by the start that searches the end of the log. The search
  is the code's own binary search, one step for each window that it reads
  (`Search`), and the power may fail between any two of them (`Restart`).
* **GpsFeed** takes sentences byte by byte from a receiver over a line that
  loses bytes, through `decode` and `parseLine` to the fix and the report.
  Bytes have their codes, since the checksum is made of them. **SentenceLink**
  is the same without text: a sentence arrives whole or not at all.

* **MagSensor** is the path from the field to the sign of `last_mx`. A pass of
  the sensor task is one action with the set of its transactions that fail;
  what a failure does is read off the driver: an axis is 0, a register is what
  was on the stack, a write is lost. The chip is external. History remembers
  the samples of a calibration, whether anybody disturbed it, and whether a
  trigger was lost.
* **UbloxCommands** is everything that is sent to the GPS receiver, byte by
  byte: `putc` puts a byte into the queue or loses it, and a reset may come
  after any of them. A `script` is what a task still has to send, with its
  delays. The receiver is external. UBX commands have a length in their header,
  the PUBX one is an NMEA line that ends with its last character. A byte that
  comes behind the one before it is followed (`Follow`); after a hole nothing is
  known (`Drift`): the bytes may be taken for the length, which may be any, for
  data or for the end, and the receiver may look for a start again at any of
  them or at none.
* **LoraSky** is `setup` and `loop` of `Client.ino` with `Status.cpp`. A
  deadline is kept as what is left of it. `Sentence` is the pass that a GPS
  sentence causes, `HearOn` and `HearOff` are commands from the ground,
  `Transmit` sends and saves, `TransmitTorn` is the same with the power failing
  in it. `since` and the sets of numbers are history.
* **Liepaja** splits the loop of `main.cpp` at every step that the timer
  interrupt or a reset can part: the two bytes of `gSeconds` as they are read,
  the two bytes of the number as they are written, and the byte stores of
  `transmit` and its `shiftNew`, which the compiler may order as it likes, since
  only `gSeconds` is volatile. They take less than a tick, so that one falls
  among them at most: `Transmit` does the stores before it, which may be any of
  them, and `StorePending` the others. `pending` has the variables whose last
  store is still to come. Of `txBuffer` and `txLength` the value that `transmit`
  stores first may be in memory at the tick and be read again after it
  (`reread`) or come from a register, and the two bytes of the pointer may be of
  different values (`torn`), so that it leads to any of `Places`.

The modules are joined by what one assumes and another shows. FlightControl
assumes that two passes of the control task are at most `MaxGap` apart;
`InTime` of Scheduler bounds how late a task runs, so that `MaxGap` stands for
the interval of the task, the `MaxLate` of ordinary runs, and the runs that
block. The report of GpsFeed is
`SendTelemetry` of FlightControl and `PosRecord` of TrackerFlash; the lost
bytes of GpsFeed are those that a full RingQueue refuses. `lastMx`, arbitrary
in FlightControl, is what MagSensor computes. UbloxCommands takes the transmit
queue for the BoundedFifo that RingQueue shows it to be when no interrupt
falls into a push; the damage otherwise is the subject of RingQueue.

## 3. The runs and what they show

| Run | Configuration | Shows |
|---|---|---|
| `flight_no_wrap` | `FlightControl.cfg` | `BurnBounded`, `FiresOnlyAfterSafeTime`, `ImplementsInterlock`, `PinInSafe`, `RadioMatchesState`; an armed tracker unlocks (`ArmedEnds`) and a lasting trigger ejects (`TriggerEjects`) |
| `flight_telemetry_channel` | `FlightControlRadio.cfg` | violation: telemetry on the beacon frequency |
| `scheduler` | `Scheduler.cfg` | no task is lost, the list implements TaskTimer, over two wraps; before a due time wraps nobody runs ahead (`NeverAhead`) or waits longer than `MaxLate` and what runs took too long since there was last nothing to do (`InTime`) |
| `usb_tx` | `UsbCdc.cfg` | main and interrupt never both hold a packet, `tx_done` means done, what the host gets is in order, and everything gets there unless a reset threw a packet away |
| `ring` | `RingQueue.cfg` | masked: a FIFO. Not masked: each interrupted operation costs at most one byte, and the queue runs empty: nothing waits with its interrupt off |
| `flash` | `TrackerFlash.cfg` | the end of the log is found again, no record is overwritten, a save is kept or leaves the defaults, with two power failures anywhere |
| `gps_feed` | `GpsFeed.cfg` | one byte lost per sentence, any one, never makes the parser accept what was not sent, costs at most the next sentence, and a valid position is at most one epoch old |
| `gps_altitude` | `GpsFeedAltitude.cfg` | violation: altitude 0 with a valid fix |
| `mag_sensor` | `MagSensor.cfg` | the chain of conversions breaks only with a lost write; on a clean bus `last_mx` is negative only after a sample below the offset; a calibration left alone finds the middle of its samples; a lasting field is seen |
| `gps_commands` | `UbloxCommands.cfg` | a command is lost only when it is torn, or behind a torn one with none between that came through; the airborne mode reaches the receiver unless it is such a command |
| `sky` | `LoraSky.cfg` | no switch is on for longer than its time and a period of the watchdog; the bits that are sent tell the pins; numbers are fresh; the release happens |
| `liepaja` | `Liepaja.cfg` | one packet at a time; a tick inside `transmit` loses it, or at most one of its bytes and the value of the first; numbers never repeat; measurements go on although `gSeconds` is read torn; every packet ends |

Bounds, and why they are enough:

* *Flight.* Only the order of the times matters: a safe time of three units, a
  hold time of two and gaps of two let a pass come early, in time and late
  within every timer, and the horizon of twelve is room for arming, flight,
  burn, disarming in the burn and a reset followed by all of it again. The
  clock does not wrap. The proofs take the bounds away for everything but the
  two liveness properties, and the wrap is allowed where they do not assume
  `NoWrap`.
* *Scheduler.* Four tasks of the program with the relations that matter
  between them: two of equal priority, one that alternates between two
  intervals, one that runs longer than a tick, one of higher priority and a
  short interval. The interval lengths are scaled down; equal and different
  due times, and a due time that wraps before the clock does, all occur.
  Two tasks overrun, by 20, which is longer than every interval, and by 9,
  longer than the shortest: one of each, or the shorter one three times, before
  there is next nothing to do (`MaxOverrun`), and the same again after that.
  `MaxLate` is 12 ticks: three others
  may go first, each with its own pass, its sleep and the catching up after a
  late start. It is what the theorem about `InTime` gives for the ordinary runs
  of these tasks (`MCKeepsUp`).
* *USB.* A queue of three, packets of two: full queue, full and partial
  packets. Twelve bytes go four times around, three resets cover two losses
  in one write and one more after a recovery.
* *Ring.* Capacity three and six bytes, so that both cursors wrap and the
  queue is full, empty and in between when the interrupt comes.
* *Flash.* Sectors of eight bytes and a chip of five, so that the log has
  three sectors and a record crosses a boundary. The window of the search is
  eight: it has to be longer than the run of 16#FF bytes a record may hold
  (here three; in the code sixteen, and no record has more than fourteen bytes
  after its type). A log of 25 bytes is one more than the chip holds. Two
  failures let one happen inside the repair of another or in the search after
  it.
* *GPS.* The receiver has checksums that matter: 00, which a line without a
  star also reports; 05, which its own two digits cancel when the star is
  lost. The line keeps two characters more than the longest sentence, as 99 is
  more than 82. With two bytes lost in a sentence (`MaxLost = 2`) TLC refutes
  `ImplementsLink`: two equal bytes leave the exclusive or as it was.

* *Magnetometer.* A negative and a positive field whose bytes mix to values
  outside of both, a calibration of four passes (the first two samples are
  skipped, the third sets the extremes, the fourth is compared), one failed transaction among any of
  a pass or a start, four commands: two calibrations, with a load or a reset of
  the offset inside.
* *GPS commands.* Commands of three and four bytes: a start, the length (or
  another byte of a line), data in the longer ones, an end, so that each can be
  torn before, at and behind its length. With a queue of five and one byte in
  the registers of the port the longer ones do not fit in twice and are torn
  anywhere. Two console commands on top of those of the start, among them the
  script of three commands with a delay; a reset at any byte.
* *lora-sky.* A watchdog of two ticks, automatic offs shorter than it and equal
  to it and one switch without; a number is saved every second time, and a
  byte counts modulo six, so that the high byte changes within five messages;
  three resets.
* *Liepaja.* Packets of three bytes, so that one is in the middle, and frames
  of two bits: of a frame only the first tick and the last matter. A torn
  pointer leads behind the packet. Bytes count modulo four and the number starts
  at two, so that both its bytes and those of `gSeconds` change together within
  the bounds; an interval of one second, four seconds, four packets, so that the
  later ones find the transmitter as the last one has left it; two resets.

What is not obvious about some properties:

* `PinInSafe` allows *two* gaps: the pass that sees the pin sets eSAFE and
  leaves the MOSFET on, the next one switches it off.
* `StallsOnlyAfterLoss` and `Drains` except a discarded packet, and not for
  convenience: after a reset with a packet in the endpoint nothing sets
  `tx_done` again, and the console stays silent until the board is reset.
* `EndIsKnown` and `RecordsIntact` except a torn erase, which leaves a blank
  hole that the binary search takes for the end, and a log that ran past the
  chip, which wraps around and programs the calibration and its own start.
  A record that ends in 16#FF and is followed by a restart may have these
  bytes taken over by the next one; their value is the same. `EndIsKnown` says
  both that nothing is behind the end and that the end is not too far: the last
  byte of the log lies in the window before it.
* `NeverAhead` and `InTime` end where a due time wraps (49.7 days). From there
  the task whose due time has wrapped is due at every wake-up and is first in
  the list, so that it runs all the time and the others wait until the clock
  wraps as well. `NobodyIsLost` and `ImplementsTaskTimer` hold on.
* `NoFalseTrigger` is about a bus without errors, and must be: an axis that
  could not be read is 0, and 0 minus a positive offset is negative. In eFLIGHT
  one failed transaction fires.
* `FieldIsSeen` excepts a lost trigger: nothing but a read sample triggers, so
  that `last_mx` stays as it is until the board is reset.
* `CalibrationIsRight` asks that nobody touched the offset meanwhile: `load_cal`,
  `rst_cal` and a second `mag_cal` change what the samples are relative to
  (and a second `mag_cal` goes on with the old extremes), and `save_cal` in
  these ten seconds saves 0.
* `LossFollowsTear` does not bound how many commands a tear costs, since
  nothing in the program does: a header that has lost a byte (`ublox.cpp:14-19`)
  takes its length from the next command, which may say thousands. It says where
  a loss can be: once a command has come through, the next ones do until a byte
  is refused again or the board is reset.
* `AirborneModeIsSet` excepts that case: a reset of the board in the middle of a
  frame leaves the receiver, which is not reset, waiting for its rest, and it
  takes the next commands for it. The program asks for the airborne mode once
  and does not look at the answer.
* `SwitchBounded` counts from the last request. Above the release altitude
  every sentence is a request, also after the fix was lost, since the library
  keeps the last position valid: the burst switch then never goes off. The
  release is compiled only into the `balts` builds (`RELEASE_ALTITUDE` in
  lora-sky's `platformio.ini`), and `ReleaseHappens` is about these; the other
  builds have the switches without it.
* `NumbersFresh` has two exceptions, each of which TLC needs: a reset in a
  session that had sent but not saved a number, and a reset between the two
  bytes of a save that changes both. Sixteen is added at a restart, which
  covers all other ones.
* `NumbersNeverRepeat` of Liepaja holds because the high byte is written first:
  with the low byte first (the mutant) a reset in between goes back 256 numbers.
  That a *byte* of the EEPROM is torn is not modelled.
* `DamageBounded` of Liepaja says what a tick in the few instructions of
  `transmit` and `shiftNew` does. It may switch the transmitter off, and the
  packet is lost. Otherwise its bytes are there but one at most, and which one
  depends on the order of the stores: `txShift = *txBuffer++` is a store to each
  of the two, and from the second packet on a tick between them sends 1, 3,
  4, ... The first byte may also be a wrong one, and the last one may be followed
  by what is behind the packet. A tick between the two bytes of the pointer may
  send any bytes of memory behind the first, in a row. `OnePacketAtATime` holds
  even then: the buffer is not filled anew in the meantime.
* `InTime` counts all that runs took too long since there was last nothing to
  do, not the longest of them: two runs that block one after the other do add
  up. It says that this is all, and that it is over at the next pass that finds
  nothing to do.
* `MeasurementsGoOn` allows one interval too many: a torn read of `gSeconds`
  may measure once too early, and the schedule catches up. The bound on seconds
  keeps the model below 65536, where `gSeconds` and the schedule wrap: there the
  program measures in every pass or not at all for up to 18 hours.
* `ImplementsInterlock` below the wrap includes that a burn is not cut before
  the hold time. At the wrap it is: the deadline is in the past at once.

## 4. Fairness

* *Flight:* weak fairness of `Control` and `Tick`. `schedule_tasks` runs the
  first task that is due, a task that returns an interval stays in the list
  (`NobodyIsLost`), and no task waits for ever (`InTime`). Time passes. The
  environment has none: nobody has to pull the pin or stop a reset loop.
* *USB:* weak fairness of main's steps inside `usb_cdc_write`, which have no
  loop that waits, and of `TxComplete` and `SetConfig`: the host that has
  configured the device polls its endpoint. Nothing makes it open a terminal
  and nothing stops it from resetting.
* *Ring:* weak fairness of the rest of a `push` that main has begun, and of
  the transmit interrupt while it is enabled, which the USART raises for as
  long as its register is empty.

* *Magnetometer:* weak fairness of a conversion that runs and of the sensor
  task (`NobodyIsLost`, `InTime` of Scheduler). No transaction has to succeed.
* *GPS commands:* weak fairness of the rest of a script, of the task that sets
  the airborne mode, and of the port, whose interrupt is raised as long as
  there is a byte (`Empties` of RingQueue). Nobody has to type.
* *lora-sky:* time passes and the watchdog, which has its own clock, fires. The
  GPS receiver and the radio owe nothing.
* *Liepaja:* the timer interrupt comes, and the loop, which it wakes, goes on;
  no step of the loop waits for anything.

The runs `scheduler`, `flash` and `gps_feed` have no liveness property.

## 5. The proofs

`tlapm` checks every leaf. What each proof module assumes is the
`ConstantsAssumption` of its system, `UbloxAssumption` for UbloxCommands
(numbers are numbers, sizes are not zero, a
task is added once, the window of the search is longer than a record's run of
blank bytes) and nothing else, except where a theorem names a condition:

| Condition | Theorems | Says | Holds of the program |
|---|---|---|---|
| `NoWrap` | `BurnIsBounded`, `FiresAfterSafeTime`, `RefinesInterlock` | uptime and either delay stay below the width of the clock | for 49 days |
| `Enough` of LoraSky | `NumbersAreFresh` | twice the messages sent and twice `SaveStep` are less than the numbers there are | up to some 32700 messages, with the 16 and 65536 of the code |
| `Enough` of Liepaja | `NumbersAreSentOnce` | packets sent plus 256 for each reset are less than 65536 | as it says |
| `NoTaskEnds` | `NobodyFallsOff` | no task returns the interval 0 | of every task in `main.cpp` |
| `KeepsUp` | `NobodyWaitsLong` | with a share of the processor for each task, which pays for its longest *ordinary* run (`RunTime`) and two ticks in its shortest interval, the shares make no more than the whole; the work of one longest interval of all others fits in `MaxLate` | of the passes that do not block, as long as they are short: with the intervals of `settings.cpp` (50 to 1000 ms) the two ticks take 13% and the runs may take the rest; nobody has measured them here. It would be false of the longest runs there are (`buzz_times(4)` 800 ms at the end of a calibration, in a task of 100 ms; `delay(100)`, `rst_log` and `play_log` in the console task of 50 ms). Those are `Overruns`: the condition says nothing of them, and `InTime` adds them to its bound. An assumption of `MCScheduler`, so that TLC checks it for the tasks of the run |

The invariants that TLC can evaluate were checked on the instance of their run
before they were proved.

**FlightControl_proofs.** The invariants that the runs check are not
inductive. `Base` adds what a step needs:

* `TimesOrdered`: reset, last pass and now are in this order, the last two at
  most `MaxGap` apart. Without it `PinInSafe` would be about passes that
  might never come.
* `ArmingKnown`: outside eSAFE the history knows the arming. It links the
  state of the code with the time at which it was entered.
* `PinProgress`: how far the tracker has come since the pin went in; not yet
  seen, seen by one pass, acted upon. `PinInSafe` is its third case after two
  gaps.
* `HungIsSafe`: a tracker that stopped in its start is in eSAFE.

`Base` is inductive for every clock width, so `TypeCorrect`, `RadioMatches`
and `PinIsHeeded` hold beyond the wrap. `Timers` says what `timeout` means
while a timer runs: real time of the arming, or of the shot, plus the delay.
It is inductive only under `NoWrap` (the uptime and either delay stay below
`ClockMod`), where the modulo of `millis()` and of the deadline can be taken
away (`ModSmall`). From it follow `BurnIsBounded`, `FiresAfterSafeTime` and
`RefinesInterlock`, the last by one step for each action: a pass is `Arm`,
`Fire`, `Cut`, `Lock`, `Release` or a stutter of PyroInterlock.

**UsbCdc_proofs.** The argument is about whose turn it is to send. `Turn`
says that while main is inside the callback the flag is down and the endpoint
is free (`MainsTurn`), that a callback that found nothing to send still has
nothing when it ends, although the interrupt may come before (`EmptyMeansEmpty`:
the queue has not grown, only main fills it), and that a free endpoint, a flag that
is down and main outside the callback only come together after a loss
(`TurnLost`). `UsbTypeCorrect`, `PacketsNeverRefused`, `DoneIsComplete` and
`StallNeedsLoss` follow, for every size of queue and packet.

**LoraSky_proofs.** `SwitchBounded` alone is not inductive. `TimeKept` adds
what is left: while the time of a switch runs, what has passed and what is
left add up to it; afterwards it has been over for no longer than the watchdog
was not fed. Both come from one pass, the one of a sentence, which feeds the
watchdog and looks at the deadlines. `QuietInSetup` is needed because setup
feeds the watchdog without looking at them. `SwitchesAreBounded` holds for all
times, offs of 0 or below included.

**Liepaja_proofs.** The question is what a tick can send while the stores of
`transmit` are under way. `Windows` says that it is one tick at most.
`ShiftIsNew` says that until the new byte is loaded, whatever is left in the
shift register is between two bytes (`AtRest`) or has sent one start bit, so
that it cannot reach its last bit before it is replaced. The least length of a
frame that makes this true is two, which is what `FrameIsLong` takes from the
assumption. `Quiet` says that a packet is filled only while nothing is sent.
`OnlyThisPacketIsSent` follows, for every order of the stores.

`NextMeasurementIsNear` has an invariant of its own. A torn reading is late by
nearly 256 seconds, and in the pass that has it the schedule may go on once too
often; but that happens only in the second in which the low byte has gone
round. So the schedule is one interval ahead of the time, or two intervals
ahead of the last such second (`Ahead`), and the invariant carries from the
first byte that is read to the second (`HalfRead`). `NumbersAreSentOnce` counts
how far a number is on from the first one (`Place`): a word that is torn between
its two bytes, the high one first, is the old number or 255 more than the new
one, so that a reset never goes back, and a reset uses up 256 numbers at
most. `PacketsAreNearlyWhole` says of each variable of the transmitter what it
holds while the stores are under way: the first value that `transmit` stores
there, the last one, or what one tick has made of either (`Filling`). What the
remaining stores make of it, whichever they are (`FilledSends`), is a second
byte from a known place (`Begins`) and a length that is right or one too small
(`Count`). From there on one byte follows the other, and `txBuffer` and
`txLength` tell what is still to come (`Sending`); a packet that is lost leaves
nothing on the air.

**Scheduler_proofs.** What the links give is read by the recursive function
`Nodes`; `NodesAre` shows by the least counterexample that it gives the
sequence that the links follow. `ListInv`: some sequence of tasks, without a
repetition and in order of urgency, is what `first_task` and `next` link, all of
its tasks were added, and the tasks not added yet are due at 0. `InsertKeeps`
is `insert_task`, `RestIs` the removal of the first node. From these,
`ListIsTimer`: every step of the list is one of TaskTimer, for any number of
tasks with any priorities and over any number of wraps. `NobodyFallsOff` adds
that the list has *all* that were added, `NobodyRunsAhead` that below the wrap
no due time is more than an interval ahead of now.

`NobodyWaitsLong` bounds how late a task can be. Looking at one task leads
nowhere: the others may all be late as well, and how far they have caught up is
what matters. The invariant weighs the whole schedule (`Load`). Let *m* be the
least due time. Each due time is at most one longest interval after *m*, and
the processor has done no more by now, `overrun` not counted, than what the due
times have ahead of *m*, each counted with the share of its task (`Ahead`). A run is paid for by the
interval that it adds to its due time (`LoadRuns`); when *m* rises, every due
time loses what is at most the whole (`Later`); a pass that finds nothing to do
comes before *m* (`LoadIdles`), which is why `overrun` may begin anew there. The sleep after a pass, which may outlast the
tick that was missed, is the one that is added to now while the loop sleeps.
Nothing of this looks at priorities. The sums are a recursive function over
`AddOrder`; `TotalLinear`, `TotalMonotone` and `TotalOnly` are what is needed of
them, shown by the least counterexample as well.

**RingQueue_proofs.** While main is masked it works on what it has seen
(`Consistent`); a push takes effect at the store of the size (or in the
interrupt that receives) and a pop when the byte is taken, all other steps
stutter, which gives `MaskedRingIsFifo`. Without the mask, `DamageInv` counts
the harm of *views*: the queue as the size in memory, or the size that main
holds in a register, would give it. `Lost` are the bytes that such a view will
never give, `Bad` the slots in which it gives a byte that is stale or out of
order;
`Fit` bounds both by the number of interrupted operations, with room for the
one that is under way. An interrupt in a push leaves the size main works with
one too large, so that the byte may be written behind the end; `Pushing` is
that case. `HarmIsBounded` holds for every capacity and every reading of the
size that the compiler may choose.

The module goes on with what a bounded FIFO that refuses bytes means to the
receiver at its other end, and extends UbloxCommands beside RingQueue.
`LossFollowsTear` speaks of the end, when nothing is on its way; the invariant
`UbxInv` speaks of every byte that is. The bytes come in the order of the
commands (`InOrder`); behind a byte of a command that is not torn comes the next
one (`NoHoles`); of a torn one a byte is missing that the receiver has not heard
and will not hear (`Holes`), so that it never has all of it. Then the receiver
is in step with the byte that it hears next, or nothing was obeyed since a tear
(`StepOrTear`), and a command of which nothing is on its way any more is obeyed,
torn, or lost since a tear (`PassedIsSettled`). A command that is obeyed puts
the receiver in step again; a reset, which forgets the queue, tears what it
forgets. What the receiver makes of bytes that do not belong together is left
open. `OnlyTearsLose` holds for all lengths of commands and queue and for resets
at any byte.

**TrackerFlash_proofs.** The end of the log is where a window is blank, and
this tells the log from the room behind it because the log has no gap as long
as a window (`Gapless`): a record has a type that is not 16#FF and ends with at
most three bytes that are. This is why `Window` must be at least four. A
torn record is a prefix and keeps this. `Narrowed` is what the search
has found out so far, for any place at which the power fails in it again.
`OnChip` says that the first sector stays blank, since a window that begins in
the last bytes goes on there; `InLog` that no record lies anywhere else than in
the log. `IInv` is the conjunction with the three properties of the run, for
every size of chip, sector and window: `EndOfLogIsFound`, `RecordsStayIntact`,
`CalibrationIsKept`.

**MagSensor_proofs.** Without an error the chip never measures continuously
and no conversion overtakes a sample that waits (`OneShot`). `CalKnown` says
what an undisturbed calibration knows: the offset is 0, the extremes are those
of the samples that count. `ChainBreaksOnlyByLoss`, `TriggerWasMeasured` and,
as an action property, `CalibrationFindsMiddle` follow for every field and
every duration of a calibration.

**UsbCdc and LoraSky, continued.** `BytesStayInOrder`: the bytes in `buf`, at
the endpoint and in the queue, one behind the other (`Pipeline`), have numbers
above what was delivered, each larger than the one before, and without a loss
they are all of them (`Ordered`, `Complete`). `TelemetryTellsPins` is inductive
with the types of the switches. `NumbersAreFresh` bounds the numbers of a
session from what it found in the EEPROM: a session that saves uses up at most
as many numbers unsent as it sends (`SavedUpTo`, `SessionFrom`, `Reach`).

Only model-checked: all liveness properties (fairness and ENABLED are out of
reach of the prover), and `PositionIsFresh`, `ImplementsLink` and
`WholeIsHeard` of GpsFeed, whose parser and checksum are recursive over the
bytes of a line.

## 6. Where the program and its documentation differ

Two of these are runs that must find their violation:

* **Telemetry on the beacon frequency** (`flight_telemetry_channel`). eFLIGHT
  to eSAFE changes only the state. The radio stays in FSK mode on
  `radio_cw_frequency`, and the report sends through it until an ejection or a
  reset.
* **The last valid altitude** (`gps_altitude`; `telemetry.h:13`) is neither
  last nor valid when a report falls between the GGA sentence in which the
  receiver has lost its fix and the GSA sentence that says so: the empty field
  is read as 0.

The others were seen while modelling:

* **The safe time at the wrap.** `settings.h:108` says "seconds after arming".
  The deadline is an absolute `uint32_t`; a tracker armed less than the safe
  time before `millis()` wraps has a deadline that is already over and unlocks
  at its next pass. `FlightControl.cfg` with `ClockMod = 6`, run on
  FlightControl itself, shows it.
* **Free space.** `xlog_free_space` (`storage.cpp:121`) takes the log to start
  one sector earlier than it does.
* **The decoder** (`util/log-decode.py:20`) takes an arm record for five bytes
  instead of eight (`storage.cpp:128`), and does not know the ejection record.
* **The spreading factor.** lora-ground sets 10 and a coding rate of 8
  (`Server.ino:66`), lora-sky sets 11 (`Client.ino:137`).
* **The GPS timeout.** `zinoo-liepaja/src/main.cpp:55` speaks of 30 seconds,
  `kGPSLockTimeout` is 60.
* **The line of the rotator.** A line of forty characters has its terminator
  written behind the buffer (`Rotator.ino:140`).

## 7. What the models leave out

* *Time inside a routine.* A task is a step. The 5 ms waits of the radio set-up
  and the writes to the flash take no time in FlightControl; what they cost
  the other tasks is part of `MaxGap`. A routine that never returns (a flash
  chip that stays busy, an I2C bus that hangs: the waits have no limit) is
  outside of `MaxGap`, and no property of FlightControl holds then.
* *Settings.* `AppSettings::restore` is commented out in the code, so that the
  defaults are the settings; `pyro_hold_time` and `radio_tx_period` are not
  used (3000 ms and every fifth report are in the code).
* *Pin changes between two passes* are not seen by the program, and a pin that
  moves twice between two passes has not moved.
* *The chip.* Programming takes bytes in the order in which they are sent, a
  power failure leaves those before it, and addresses count modulo the size.
  These are assumptions about the part. A chip that is not recognised
  (`log_file_ok` false) logs nothing and is not modelled.
* *Busy waits.* The receiver and the chips on the buses answer or refuse; one
  that does neither stops the program.
* *lora-sky.* The clock and the time slots (a message may be sent at any
  time), voltages, and the decoding of sentences, which is a library.
* *zinoo-liepaja.* The sensors, the error beeps, and the GPS port: it is
  bit-banged in another interrupt, a line without `$` and `*` passes its
  checksum but has no field, and a lost fix keeps the last latitude. A start
  bit that a tick in `transmit` stretches is a start bit.
* *Ranges.* The readings of the magnetometer are within a third of its range,
  so that no difference of two overflows.
* *Raw modes and play_log.* In `gps_raw_mode` 1 the parser gets nothing.
  `play_log` prints faster than the queue empties and loses lines.
* *Values.* In FlightControl the magnetometer is its sign, a position is one byte, voltages and
  temperatures are absent, and the text of a report has no model. Nor do the
  raw modes of the GPS (`gps_raw_mode` 1 hands no bytes to the parser, which
  is a long loss).
* *Counters* (`sentences_ok`, `msg_id` and the like) that nothing reads.

## 8. Plan

In the order of what they protect:

1. Done: FlightControl with PyroInterlock; Scheduler; UsbCdc; RingQueue;
   TrackerFlash; GpsFeed; MagSensor; LoraSky; Liepaja; UbloxCommands; proofs of
   all of them but GpsFeed.
2. **Blocking**: the busy waits under the tasks as a module that says which
   external failure breaks `MaxGap`.
3. **The GPS port of zinoo-liepaja**: the bit-banged receiver against the timer
   interrupt.
4. **Console**: the line editor of `task_console`, and `play_log` against the
   transmit queue, composed with UsbCdc.

To run a model: `tlc -config FlightControl.cfg MCFlightControl.tla`, with the
module of the run from `PROJECT.json`. To check a proof:
`tlapm FlightControl_proofs.tla`.
