------------------------------- MODULE Liepaja -------------------------------
(***************************************************************************)
(* The zinoo-liepaja tracker (main.cpp, FSKTransmitter.hh, UKHAS.cpp): one *)
(* loop that measures every few seconds and fills and sends packets, and   *)
(* the timer interrupt that counts seconds and shifts the packet out, one  *)
(* bit at a tick.  Nothing but the processor's byte stores is atomic, and  *)
(* only gSeconds is volatile: the byte stores of transmit and its shiftNew *)
(* may come in any order, the first of two stores to a variable may be     *)
(* left out, and a value may come from a register or be read again.        *)
(*                                                                         *)
(* A tick is longer than a window of a few instructions, so one tick at    *)
(* most falls into it; the stores between which no tick falls are one      *)
(* step.  A byte of a packet is its number and its place in memory, where  *)
(* the packet is at 1, 2, ...; where a pointer leads whose two bytes are   *)
(* of different values depends on the linker, and it may be anywhere.      *)
(***************************************************************************)
EXTENDS Integers, Sequences, FiniteSets

CONSTANTS PacketLength, \* packet.size, which fits in a byte (FString<80>)
          FrameBits,    \* 10: a start bit, 7 of data, 2 stop bits
          Places,       \* where a torn pointer may lead
          Interval,     \* kMeasureInterval
          ByteMod,      \* 256
          Saved,        \* the number in the EEPROM at first
          MaxSeconds,   \* bound: seconds, less than 65536
          MaxSent,      \* bound: packets
          MaxResets     \* bound: resets

ASSUME ConstantsAssumption ==
    /\ PacketLength \in Nat /\ PacketLength >= 2 /\ PacketLength < ByteMod
    /\ Places \subseteq Int
    /\ FrameBits \in Nat /\ FrameBits >= 2
    /\ Interval \in Nat \ {0}
    /\ ByteMod \in Nat \ {0}
    /\ Saved \in 0 .. (ByteMod * ByteMod - 1)
    /\ MaxSeconds \in 0 .. (ByteMod * ByteMod - 1)
    /\ MaxSent \in Nat /\ MaxResets \in Nat

WordMod == ByteMod * ByteMod
Stores == {"txBuffer", "txLength", "active", "txShift", "bitIndex"}
NoByte == <<-1, 0>>
NoHalf == <<1, 0>>

VARIABLES
    pc,        \* of the loop
    half,      \* the byte of gSeconds that the loop has read, and its value
    gSeconds, nextMeasureTime,
    sentenceID,
    eeprom,    \* the two bytes of the number, low and high
    packet     \* the number in the packet that packet.buf holds

\* The transmitter; txBuffer is the place that it points to.  pending has the
\* variables whose last store by transmit is still to come; reread those of them
\* that hold the first value that transmit stored, and may be read again; torn
\* tells whether the loop is between the two bytes of the pointer.
VARIABLES active, txBuffer, txLength, txShift, bitIndex, pending, reread, torn

\* History: whether a tick fell into the window of the loop that is open;
\* whether one fell into the last transmit (torn then stays until the next);
\* the bytes that the packet put on the air;
\* the numbers sent, and whether one was sent twice; and the number of resets.
VARIABLES ticked, raced, air, sent, repeated, resets

clock  == <<gSeconds, nextMeasureTime, half>>
store  == <<sentenceID, eeprom, packet>>
sender == <<active, txBuffer, txLength, txShift, bitIndex>>
window == <<pending, reread, torn, ticked, raced>>
vars == <<pc, clock, store, sender, window, air, sent, repeated, resets>>

Low(w)  == w % ByteMod
High(w) == w \div ByteMod
Word(bytes) == bytes[1] + ByteMod * bytes[2]

-----------------------------------------------------------------------------
(* Reset *)

\* What a reset leaves: the EEPROM.
Boot ==
    /\ pc' = "read" /\ half' = NoHalf
    /\ gSeconds' = 0 /\ nextMeasureTime' = 0
    /\ packet' = -1
    /\ active' = FALSE /\ txBuffer' = 0 /\ txLength' = 0
    /\ txShift' = NoByte /\ bitIndex' = 0
    /\ pending' = {} /\ reread' = {} /\ torn' = FALSE
    /\ ticked' = FALSE /\ raced' = FALSE
    /\ air' = <<>>

Init ==
    /\ pc = "read" /\ half = NoHalf
    /\ gSeconds = 0 /\ nextMeasureTime = 0
    /\ packet = -1
    /\ active = FALSE /\ txBuffer = 0 /\ txLength = 0
    /\ txShift = NoByte /\ bitIndex = 0
    /\ pending = {} /\ reread = {} /\ torn = FALSE
    /\ ticked = FALSE /\ raced = FALSE
    /\ air = <<>>
    /\ eeprom = <<Low(Saved), High(Saved)>> /\ sentenceID = Saved
    /\ sent = {} /\ repeated = FALSE /\ resets = 0

Reset ==
    /\ resets < MaxResets /\ resets' = resets + 1
    /\ Boot
    /\ sentenceID' = Word(eeprom)
    /\ UNCHANGED <<eeprom, sent, repeated>>

-----------------------------------------------------------------------------
(* The timer interrupt *)

\* The loop is between two instructions that a tick should not part.
InWindow == pc \in {"check", "transmitting"}

\* shiftNew and then the start bit.
ShiftNext ==
    /\ txShift' = <<packet, txBuffer>>
    /\ txBuffer' = txBuffer + 1
    /\ txLength' = txLength - 1
    /\ bitIndex' = 1
    /\ UNCHANGED <<active, air>>

\* The byte is on the air when its last stop bit has begun.
ShiftBit ==
    /\ bitIndex' = bitIndex + 1
    /\ air' = IF bitIndex' = FrameBits THEN Append(air, txShift) ELSE air
    /\ UNCHANGED <<active, txBuffer, txLength, txShift>>

\* A mutant of EndPacket: active is left set.
EndPacketNever == UNCHANGED <<sender, air>>

EndPacket ==
    /\ active' = FALSE
    /\ UNCHANGED <<txBuffer, txLength, txShift, bitIndex, air>>

\* A mutant of MoreToSend: the last byte is not counted.
MoreToSendButOne == txLength > 1

MoreToSend == txLength > 0

TransmitterTick ==
    \/ ~active /\ UNCHANGED <<sender, air>>
    \/ active /\ bitIndex = FrameBits /\ MoreToSend /\ ShiftNext
    \/ active /\ bitIndex = FrameBits /\ ~MoreToSend /\ EndPacket
    \/ active /\ bitIndex # FrameBits /\ ShiftBit

\* TIMER1_OVF_vect: a second passes at some of the ticks.
Tick ==
    /\ ~(InWindow /\ ticked)
    /\ gSeconds' \in {gSeconds, gSeconds + 1} \cap (0 .. MaxSeconds)
    /\ TransmitterTick
    /\ ticked' = InWindow
    /\ raced' = (raced \/ pc = "transmitting")
    /\ UNCHANGED <<pc, nextMeasureTime, half, store, pending, reread, torn, sent,
                   repeated, resets>>

-----------------------------------------------------------------------------
(* The loop *)

\* gSeconds is read a byte at a time, in either order.
ReadSeconds ==
    /\ pc = "read" /\ pc' = "check"
    /\ half' \in {<<1, Low(gSeconds)>>, <<2, High(gSeconds)>>}
    /\ UNCHANGED <<gSeconds, nextMeasureTime, store, sender, window, air, sent,
                   repeated, resets>>

SecondsRead == IF half[1] = 1 THEN Word(<<half[2], High(gSeconds)>>)
                              ELSE Word(<<Low(gSeconds), half[2]>>)

\* A mutant of NextTime: the schedule starts anew at each measurement.
NextTimeFromNow == SecondsRead + Interval

NextTime == nextMeasureTime + Interval

Measure ==
    /\ pc = "check" /\ pc' = "poll"
    /\ nextMeasureTime' = IF SecondsRead >= nextMeasureTime THEN NextTime % WordMod
                                                           ELSE nextMeasureTime
    /\ half' = NoHalf /\ ticked' = FALSE
    /\ UNCHANGED <<gSeconds, store, sender, pending, reread, torn, raced, air,
                   sent, repeated, resets>>

\* A mutant of Idle: isBusy is not asked.
IdleAlways == TRUE

Idle == ~active

\* The rest of the pass, when the transmitter is busy: isBusy and transmit both
\* look at active.
StayBusy ==
    /\ pc \in {"poll", "transmit"} /\ ~Idle
    /\ pc' = "read"
    /\ UNCHANGED <<clock, store, sender, window, air, sent, repeated, resets>>

\* makePacket, up to its two writes.
MakePacket ==
    /\ pc = "poll" /\ Idle
    /\ Cardinality(sent) < MaxSent
    /\ packet' = sentenceID
    /\ sentenceID' = (sentenceID + 1) % WordMod
    /\ pc' = "save"
    /\ UNCHANGED <<clock, eeprom, sender, window, air, sent, repeated, resets>>

\* A mutant of FirstByte: the writes in the other order.
FirstByteLow == 1

\* The byte of the number that is written first.
FirstByte == 2

SaveByte(i) == eeprom' = [eeprom EXCEPT ![i] = <<Low(sentenceID), High(sentenceID)>>[i]]

SaveFirst ==
    /\ pc = "save" /\ pc' = "save other"
    /\ SaveByte(FirstByte)
    /\ UNCHANGED <<clock, sentenceID, packet, sender, window, air, sent, repeated, resets>>

SaveSecond ==
    /\ pc = "save other" /\ pc' = "transmit"
    /\ SaveByte(3 - FirstByte)
    /\ UNCHANGED <<clock, sentenceID, packet, sender, window, air, sent, repeated, resets>>

\* The stores of transmit and its shiftNew before the tick, if one falls among
\* them: the last ones to the variables of done, the first ones to those of
\* reread, and perhaps one byte of the pointer.
Transmit ==
    /\ pc = "transmit" /\ ~active
    /\ pc' = "transmitting"
    /\ \E done \in SUBSET Stores :
          /\ pending' = Stores \ done
          /\ reread' \in SUBSET ({"txBuffer", "txLength"} \ done)
          /\ torn' \in {FALSE, "txBuffer" \notin done}
          /\ txBuffer' \in IF "txBuffer" \in done THEN {2}
                           ELSE IF "txBuffer" \in reread' THEN {1}
                           ELSE IF torn' THEN Places ELSE {txBuffer}
          /\ txLength' = IF "txLength" \in done THEN PacketLength - 1
                         ELSE IF "txLength" \in reread' THEN PacketLength ELSE txLength
          /\ active' = ("active" \in done)
          /\ txShift' = IF "txShift" \in done THEN <<packet, 1>> ELSE txShift
          /\ bitIndex' = IF "bitIndex" \in done THEN 0 ELSE bitIndex
    /\ raced' = FALSE
    /\ air' = <<>>
    /\ repeated' = (repeated \/ packet \in sent) /\ sent' = sent \cup {packet}
    /\ UNCHANGED <<clock, store, ticked, resets>>

\* The pointer and the length that the other stores use: those of the registers
\* or of the memory, or the bytes of two pointers.
PointerRead == {1} \cup {p \in {txBuffer} : "txBuffer" \in reread}
                   \cup {p \in Places : torn /\ ticked}

LengthRead == {PacketLength} \cup {n \in {txLength} : "txLength" \in reread}

StorePending ==
    /\ pc = "transmitting" /\ pc' = "read"
    /\ active' = (active \/ "active" \in pending)
    /\ txShift' \in IF "txShift" \in pending THEN {packet} \X PointerRead ELSE {txShift}
    /\ txBuffer' \in IF "txBuffer" \in pending THEN {p + 1 : p \in PointerRead}
                                              ELSE {txBuffer}
    /\ txLength' \in IF "txLength" \in pending THEN {n - 1 : n \in LengthRead}
                                              ELSE {txLength}
    /\ bitIndex' = IF "bitIndex" \in pending THEN 0 ELSE bitIndex
    /\ pending' = {} /\ reread' = {}
    /\ torn' = (torn /\ ticked) /\ ticked' = FALSE
    /\ UNCHANGED <<clock, store, raced, air, sent, repeated, resets>>

Loop == ReadSeconds \/ Measure \/ StayBusy \/ MakePacket \/ SaveFirst \/ SaveSecond
           \/ Transmit \/ StorePending

Next == Loop \/ Tick \/ Reset

Spec == Init /\ [][Next]_vars

\* The timer runs by itself; the loop is woken by it and never waits for more.
FairSpec == Spec /\ WF_vars(Tick) /\ WF_vars(Loop)

-----------------------------------------------------------------------------
(* Properties *)

PacketOver == ~active /\ pc \in {"read", "check"}

\* Every byte that goes out belongs to the packet that the loop handed over:
\* the buffer is not filled anew while it is on the air (main.cpp, isBusy).
OnePacketAtATime == active => \A i \in DOMAIN air : air[i][1] = packet

\* What a packet leaves on the air: all of its bytes in their order, if no
\* tick fell into transmit.  With one the packet may be lost; if it is not, at
\* most one byte is missing in all and only the first can be a wrong one: the
\* others are consecutive, from the second or the third byte of the packet on
\* unless the tick parted the two bytes of the pointer (FSKTransmitter.hh,
\* transmit, shiftNew and tick).
DamageBounded ==
    (PacketOver /\ air # <<>>) =>
        LET place == [i \in DOMAIN air |-> air[i][2]]
        IN  \/ place = [i \in 1 .. PacketLength |-> i]
            \/ /\ raced
               /\ Len(air) \in {PacketLength - 1, PacketLength}
               /\ \A i \in 3 .. Len(air) : place[i] = place[i - 1] + 1
               /\ torn \/ Len(air) = 1 \/ place[2] \in {2, 3}

\* No number is sent twice, although the loop may be reset between any two of
\* its steps and between the two bytes of the number (UKHAS.cpp, makePacket).
NumbersNeverRepeat == ~repeated

\* The next measurement is never more than two intervals away, although
\* gSeconds is read while it changes (main.cpp, loop).
MeasurementsGoOn == nextMeasureTime <= gSeconds + 2 * Interval

\* Every packet ends (FSKTransmitter.hh, tick).
PacketsEnd == active ~> ~active
=============================================================================
