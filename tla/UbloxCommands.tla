---------------------------- MODULE UbloxCommands ----------------------------
(***************************************************************************)
(* What tiny-sky tells its GPS receiver (ublox.cpp, console.cpp): commands *)
(* that main, task_gps and the console write byte by byte into the         *)
(* transmit queue of the serial port.  A byte that finds the queue full is *)
(* refused and nobody looks; a reset may come at any byte.  So a header    *)
(* may reach the receiver without its length, or a line without its end,   *)
(* and then the receiver takes what follows for the rest, for as long as   *)
(* whatever it took for the length says.  task_gps asks for the airborne   *)
(* mode only once.                                                         *)
(*                                                                         *)
(* The transmit queue is the abstract one of BoundedFifo, and the          *)
(* registers of the port behind it.                                        *)
(* External: the receiver, which a reset of the board leaves as it is.     *)
(* The specification is UbloxSpec, so that RingQueue can stand beside it.  *)
(***************************************************************************)
EXTENDS Integers, Sequences, FiniteSets

CONSTANTS Lengths,    \* the lengths of the commands, a function of their names
          QueueSize,  \* 64 bytes
          InPort,     \* the bytes that the registers of the port may hold
          MaxConsole, \* bound: console commands
          MaxResets   \* bound: resets

ASSUME UbloxAssumption ==
    /\ DOMAIN Lengths = {"TP5", "NAV5", "PMREQ", "RST", "PUBX", "MSG"}
    /\ \A c \in DOMAIN Lengths : Lengths[c] \in Nat /\ Lengths[c] >= 2
    /\ QueueSize \in Nat \ {0} /\ InPort \in Nat
    /\ MaxConsole \in Nat /\ MaxResets \in Nat

VARIABLES
    script,           \* what the task that runs has still to do
    place,            \* the bytes of its first command that are written
    queue,            \* and port: bytes <<number of the command, name, place>>
    platform_updated,
    frame             \* of the receiver: the command and how much of it is heard

\* History: the number of commands begun, that of the first after a reset and
\* that of the airborne mode; the commands that the receiver has obeyed and
\* those that lost a byte; console commands and resets.
VARIABLES count, first, platform, obeyed, cut, typed, resets

tracker == <<script, place, platform_updated, platform, count, first>>
ubloxVars == <<tracker, queue, frame, obeyed, cut, typed, resets>>

\* The receiver waits for a start, or is in a frame that is no command.
Waiting == <<0, 0>>
Adrift  == <<0, 1>>

Numbers(bytes) == {bytes[i][1] : i \in DOMAIN bytes}

UbloxInit ==
    /\ script = <<"TP5">> /\ place = 0
    /\ queue = <<>> /\ frame = Waiting
    /\ platform_updated = FALSE /\ platform = 0
    /\ count = 0 /\ first = 1
    /\ obeyed = {} /\ cut = {}
    /\ typed = 0 /\ resets = 0

-----------------------------------------------------------------------------
(* The tracker *)

\* The interrupt moves bytes from the queue into the port as soon as it can.
Room == Len(queue) < QueueSize + InPort
Full == Len(queue) >= QueueSize

\* A mutant of LastByte: a command ends a byte too early.
LastByteEarly(command) == place + 2 >= Lengths[command]

LastByte(command) == place + 1 = Lengths[command]

\* gps_send of the next byte of a command.
Send ==
    /\ script # <<>> /\ Head(script) # "delay"
    /\ LET command == Head(script)
           number  == IF place = 0 THEN count + 1 ELSE count
       IN  /\ count' = number
           /\ \/ /\ Room
                 /\ queue' = Append(queue, <<number, command, place + 1>>)
                 /\ UNCHANGED cut
              \/ Full /\ cut' = cut \cup {number} /\ UNCHANGED queue
           /\ IF LastByte(command)
                THEN place' = 0 /\ script' = Tail(script)
                ELSE place' = place + 1 /\ UNCHANGED script
    /\ UNCHANGED <<platform_updated, platform, first, frame, obeyed, typed, resets>>

\* delay(100) is longer than a full queue needs; interrupts go on.
Delay ==
    /\ script # <<>> /\ Head(script) = "delay"
    /\ queue = <<>>
    /\ script' = Tail(script)
    /\ UNCHANGED <<place, platform_updated, platform, count, first, queue, frame,
                   obeyed, cut, typed, resets>>

\* A mutant of NotYet: the mode is never asked for.
NotYetNever == FALSE

NotYet == ~platform_updated

\* task_gps, five seconds after the reset: the command of init_periph is gone.
SetPlatform ==
    /\ script = <<>> /\ NotYet
    /\ first \notin Numbers(queue)
    /\ script' = <<"NAV5">>
    /\ platform_updated' = TRUE /\ platform' = count + 1
    /\ UNCHANGED <<place, count, first, queue, frame, obeyed, cut, typed, resets>>

\* The commands that console_parse sends; delay(10) is no help.
Scripts == {<<"PMREQ">>,                         \* gps_off
            <<"PMREQ", "delay">>,                \* gps_on
            <<"RST">>,                           \* gps_rst, gps_raw2
            <<"PUBX", "delay", "MSG", "MSG">>,   \* gps_raw
            <<"TP5">>,                           \* gps_pps
            <<"NAV5">>}                          \* gps_air, gps_stat, gps_ped, gps_port

Console ==
    /\ script = <<>> /\ typed < MaxConsole
    /\ typed' = typed + 1
    /\ script' \in Scripts
    /\ UNCHANGED <<place, platform_updated, platform, count, first, queue, frame,
                   obeyed, cut, resets>>

\* A reset in the middle of whatever is on its way.
Reset ==
    /\ resets < MaxResets /\ resets' = resets + 1
    /\ cut' = cut \cup Numbers(queue) \cup (IF place > 0 THEN {count} ELSE {})
    /\ script' = <<"TP5">> /\ place' = 0 /\ queue' = <<>>
    /\ platform_updated' = FALSE /\ platform' = 0 /\ first' = count + 1
    /\ UNCHANGED <<count, frame, obeyed, typed>>

-----------------------------------------------------------------------------
(* The receiver *)

Begins(byte) == byte[3] = 1

\* The byte that belongs here: a start, or what follows in the command.
Expected(byte) ==
    IF frame = Waiting THEN Begins(byte) ELSE frame = <<byte[1], byte[3] - 1>>

\* A command that is heard whole is obeyed: its length or the end of its line
\* says that it is over, and its checksum is right.
Follow(byte) ==
    IF byte[3] = Lengths[byte[2]]
      THEN frame' = Waiting /\ obeyed' = obeyed \cup {byte[1]}
      ELSE frame' = <<byte[1], byte[3]>> /\ UNCHANGED obeyed

\* Any other byte: it may be taken for a class, for a length of any size, for
\* data or for the last of them, may look like a start, or make the receiver
\* give up and look for one.  A checksum over it is wrong.
Drift(byte) ==
    /\ \/ frame' \in {Waiting, Adrift}
       \/ Begins(byte) /\ frame' = <<byte[1], 1>>
    /\ UNCHANGED obeyed

\* The port sends a byte.
Hear ==
    /\ queue # <<>>
    /\ queue' = Tail(queue)
    /\ LET byte == Head(queue)
       IN  IF Expected(byte) THEN Follow(byte) ELSE Drift(byte)
    /\ UNCHANGED <<tracker, cut, typed, resets>>

UbloxNext == Send \/ Delay \/ SetPlatform \/ Console \/ Reset \/ Hear

UbloxSpec == UbloxInit /\ [][UbloxNext]_ubloxVars

\* The tasks come round, and the port sends as long as there is something.
FairUbloxSpec ==
    /\ UbloxSpec
    /\ WF_ubloxVars(Send) /\ WF_ubloxVars(Delay) /\ WF_ubloxVars(SetPlatform)
    /\ WF_ubloxVars(Hear)

-----------------------------------------------------------------------------
(* Properties *)

\* From a torn command up to this one nothing was obeyed.
LostSinceTear(number) ==
    \E torn \in cut : torn <= number /\ obeyed \cap (torn .. number) = {}

\* Every command is obeyed, unless it lost a byte or the receiver has not
\* understood anything since one that did: a tear may cost any number of
\* commands behind it, but once a command has come through, the next one
\* does too, until bytes are lost again (console.cpp, gps_send; ublox.cpp,
\* ublox_command).
LossFollowsTear ==
    script = <<>> /\ queue = <<>> =>
        \A number \in 1 .. count : number \in obeyed \/ LostSinceTear(number)

\* The receiver is told of the airborne mode after every reset, unless that
\* command is torn or lost since a tear (settings.cpp, task_gps).
AirborneModeIsSet == []<>(platform \in obeyed \/ LostSinceTear(platform))
=============================================================================
