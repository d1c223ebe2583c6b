--------------------------- MODULE Liepaja_proofs ---------------------------
(***************************************************************************)
(* Proofs about Liepaja, for every length of a packet and of its frames:   *)
(* the bytes on the air are those of the packet that the loop handed over, *)
(* in whatever order the stores of transmit come and wherever a tick falls *)
(* between them; a torn reading of the seconds puts the measurements off   *)
(* by one interval at most; and a number is sent once, wherever resets     *)
(* fall, as long as its word is enough.                                    *)
(***************************************************************************)
EXTENDS Liepaja, SequenceTheorems, FiniteSetTheorems, TLAPS

\* The bytes of the packet that is in the buffer, and those behind it.
OfPacket == {packet} \X Int

Types ==
    /\ txBuffer \in Int /\ bitIndex \in 0 .. FrameBits
    /\ pending \subseteq Stores

\* At most one tick falls into a window, and none is open but these two.
Windows ==
    /\ ~InWindow => ~ticked
    /\ pc # "transmitting" => pending = {}

\* The packet is made and saved while nothing is sent.
Quiet == pc \in {"save", "save other", "transmit"} => ~active

\* A transmitter that has ended is between two bytes.
AtRest == ~active => bitIndex \in {0, FrameBits}

\* The byte that is shifted is of this packet, once it is loaded; until then
\* the one tick that there can be has sent no more than a start bit of the
\* byte left from the packet before.
ShiftIsNew ==
    /\ (active \/ pc = "transmitting") /\ "txShift" \notin pending => txShift \in OfPacket
    /\ "txShift" \in pending /\ txShift \notin OfPacket =>
          bitIndex \in {0, FrameBits} \/ (bitIndex = 1 /\ ticked)

AirIsNew == active \/ pc = "transmitting" => air \in Seq(OfPacket)

IInv == Types /\ Windows /\ Quiet /\ AtRest /\ ShiftIsNew /\ AirIsNew

-----------------------------------------------------------------------------
\* The one assumption on constants that the argument needs.
LEMMA FrameIsLong == FrameBits \in Nat /\ FrameBits >= 2
                     /\ 0 \in 0 .. FrameBits /\ 1 \in 0 .. FrameBits
  BY ConstantsAssumption

\* A bit of a frame is followed by one of the frame; the first is not the last.
LEMMA NextBit ==
    ASSUME NEW b \in 0 .. FrameBits, b # FrameBits
    PROVE  /\ b + 1 \in 0 .. FrameBits
           /\ b + 1 = FrameBits => b \notin {0, FrameBits}
           /\ b = 0 => b + 1 = 1
  BY FrameIsLong

\* The place behind one is a place.
LEMMA NextPlace == ASSUME NEW p \in Int PROVE p + 1 \in Int
  OBVIOUS

LEMMA IInvInit == Init => IInv
<1> SUFFICES ASSUME Init PROVE IInv
  OBVIOUS
<1>1. active = FALSE /\ pending = {} /\ pc = "read" /\ ticked = FALSE /\ bitIndex = 0
      /\ txBuffer = 0
  BY DEF Init
<1>2. Types
  BY <1>1, FrameIsLong DEF Types
<1>3. Windows
  BY <1>1 DEF Windows, InWindow
<1>4. Quiet /\ AtRest
  BY <1>1 DEF Quiet, AtRest
<1>5. ShiftIsNew /\ AirIsNew
  BY <1>1, Zenon DEF ShiftIsNew, AirIsNew
<1> QED BY <1>2, <1>3, <1>4, <1>5 DEF IInv

LEMMA ResetKeeps == ASSUME IInv, Reset PROVE IInv'
<1>1. active' = FALSE /\ pending' = {} /\ pc' = "read" /\ ticked' = FALSE /\ bitIndex' = 0
      /\ txBuffer' = 0
  BY DEF Reset, Boot
<1>2. Types'
  BY <1>1, FrameIsLong DEF Types
<1>3. Windows'
  BY <1>1 DEF Windows, InWindow
<1>4. (Quiet /\ AtRest)'
  BY <1>1 DEF Quiet, AtRest
<1>5. (ShiftIsNew /\ AirIsNew)'
  BY <1>1, Zenon DEF ShiftIsNew, AirIsNew
<1> QED BY <1>2, <1>3, <1>4, <1>5 DEF IInv

\* The interrupt, at any of its ticks.
LEMMA TickKeeps == ASSUME IInv, Tick PROVE IInv'
<1> USE FrameIsLong DEF IInv, Types, Windows, Quiet, AtRest, ShiftIsNew, AirIsNew
<1>1. /\ ~(InWindow /\ ticked) /\ ticked' = InWindow
      /\ UNCHANGED <<pc, packet, pending>> /\ OfPacket' = OfPacket
      /\ InWindow' = InWindow
  BY DEF Tick, store, InWindow, OfPacket
<1>2. CASE ~active /\ UNCHANGED <<sender, air>>
  BY <1>1, <1>2 DEF sender, InWindow
<1>3. CASE active /\ ShiftNext /\ bitIndex = FrameBits
  <2>1. Types'
    <3>1. bitIndex' = 1 /\ txBuffer' = txBuffer + 1
      BY <1>3 DEF ShiftNext
    <3>2. bitIndex' \in 0 .. FrameBits
      BY <3>1, FrameIsLong, Zenon
    <3>3. txBuffer' \in Int
      BY <3>1, NextPlace, Zenon
    <3> QED BY <1>1, <3>2, <3>3, Zenon
  <2>2. Windows'
    BY <1>1, <1>3 DEF ShiftNext, InWindow, OfPacket
  <2>3. Quiet'
    BY <1>1, <1>3 DEF ShiftNext, InWindow, OfPacket
  <2>4. AtRest'
    BY <1>1, <1>3 DEF ShiftNext, InWindow, OfPacket
  <2>5. ShiftIsNew'
    BY <1>1, <1>3 DEF ShiftNext, InWindow, OfPacket
  <2>6. AirIsNew'
    BY <1>1, <1>3 DEF ShiftNext, InWindow, OfPacket
  <2> QED BY <2>1, <2>2, <2>3, <2>4, <2>5, <2>6
<1>4. CASE active /\ EndPacket /\ bitIndex = FrameBits
  <2>1. Types'
    BY <1>1, <1>4 DEF EndPacket, InWindow
  <2>2. Windows'
    BY <1>1, <1>4 DEF EndPacket, InWindow
  <2>3. Quiet'
    BY <1>1, <1>4 DEF EndPacket, InWindow
  <2>4. AtRest'
    BY <1>1, <1>4 DEF EndPacket, InWindow
  <2>5. ShiftIsNew'
    BY <1>1, <1>4 DEF EndPacket, InWindow
  <2>6. AirIsNew'
    BY <1>1, <1>4 DEF EndPacket, InWindow
  <2> QED BY <2>1, <2>2, <2>3, <2>4, <2>5, <2>6
<1>5. CASE active /\ ShiftBit /\ bitIndex # FrameBits
  <2>1. /\ bitIndex # FrameBits /\ bitIndex' = bitIndex + 1
        /\ txBuffer' = txBuffer
    BY <1>5 DEF ShiftBit
  <2>2. active' = active /\ txShift' = txShift
    BY <1>5 DEF ShiftBit
  <2>3. Types'
    <3>1. bitIndex' \in 0 .. FrameBits
      BY <2>1, NextBit
    <3> QED BY <1>1, <2>1, <3>1
  <2>4. AirIsNew'
    <3>1. CASE bitIndex' = FrameBits
      <4>1. air' = Append(air, txShift)
        BY <1>5, <3>1 DEF ShiftBit
      <4>2. txShift \in OfPacket
        <5>1. CASE "txShift" \notin pending
          BY <1>5, <5>1
        <5>2. CASE "txShift" \in pending
          <6>1. ~ticked
            BY <1>1, <5>2 DEF InWindow
          <6>2. bitIndex \notin {0, FrameBits}
            BY <2>1, <3>1, NextBit
          <6> QED BY <5>2, <6>1, <6>2
        <5> QED BY <5>1, <5>2
      <4>3. air' \in Seq(OfPacket)
        BY <1>5, <4>1, <4>2, AppendProperties
      <4> QED BY <1>1, <4>3
    <3>2. CASE bitIndex' # FrameBits
      <4>1. air' = air
        BY <1>5, <3>2 DEF ShiftBit
      <4> QED BY <1>1, <1>5, <4>1
    <3> QED BY <3>1, <3>2
  <2>5. ShiftIsNew'
    <3>1. CASE "txShift" \notin pending
      BY <1>1, <1>5, <2>2, <3>1
    <3>2. CASE "txShift" \in pending
      <4>1. ticked' /\ ~ticked
        BY <1>1, <3>2 DEF InWindow
      <4>2. CASE bitIndex = 0
        <5>1. bitIndex' = 1
          BY <2>1, <4>2, NextBit
        <5> QED BY <1>1, <3>2, <4>1, <5>1, Zenon
      <4>3. CASE bitIndex # 0
        BY <1>1, <2>1, <2>2, <3>2, <4>1, <4>3
      <4> QED BY <4>2, <4>3
    <3> QED BY <3>1, <3>2
  <2>6. Windows' /\ Quiet' /\ AtRest'
    BY <1>1, <1>5, <2>2 DEF InWindow
  <2> QED BY <2>3, <2>4, <2>5, <2>6
<1> QED BY <1>2, <1>3, <1>4, <1>5 DEF Tick, TransmitterTick

\* What the other stores may use is a place.
LEMMA PlacesAreInt == \A p \in Places : p \in Int
<1>1. Places \subseteq Int
  BY ConstantsAssumption
<1> QED BY <1>1, Zenon

LEMMA StoredPlace ==
    ASSUME NEW b \in Int, NEW c, c \in {1, 2, b} \/ c \in Places
    PROVE  c \in Int
<1>1. CASE c \in Places
  BY <1>1, PlacesAreInt, Zenon
<1> QED BY <1>1

LEMMA ReadIsPlace == ASSUME txBuffer \in Int, NEW p \in PointerRead PROVE p \in Int
<1>1. p = 1 \/ p = txBuffer \/ p \in Places
  BY DEF PointerRead
<1>2. CASE p \in Places
  BY <1>2, PlacesAreInt, Zenon
<1> QED BY <1>1, <1>2

\* The rest of the stores of transmit.
LEMMA StoreKeeps == ASSUME IInv, StorePending PROVE IInv'
<1> USE FrameIsLong DEF IInv, Types, Windows, Quiet, AtRest, ShiftIsNew, AirIsNew
<1>1. /\ pc = "transmitting" /\ pc' = "read" /\ pending' = {} /\ ~ticked'
      /\ air' = air /\ OfPacket' = OfPacket
      /\ active' = (active \/ "active" \in pending)
      /\ bitIndex' = IF "bitIndex" \in pending THEN 0 ELSE bitIndex
  BY DEF StorePending, store, OfPacket
<1>2. txBuffer' \in Int
  <2>1. CASE "txBuffer" \in pending
    <3>1. PICK p \in PointerRead : txBuffer' = p + 1
      BY <2>1 DEF StorePending
    <3>2. p \in Int
      BY ReadIsPlace, Zenon
    <3> QED BY <3>1, <3>2, NextPlace, Zenon
  <2>2. CASE "txBuffer" \notin pending
    BY <2>2 DEF StorePending
  <2> QED BY <2>1, <2>2
<1>3. txShift' \in OfPacket'
  <2>1. CASE "txShift" \in pending
    <3>1. PICK p \in PointerRead : txShift' = <<packet, p>>
      BY <2>1 DEF StorePending
    <3>2. p \in Int
      BY ReadIsPlace, Zenon
    <3> QED BY <1>1, <3>1, <3>2 DEF OfPacket
  <2>2. CASE "txShift" \notin pending
    BY <1>1, <2>2 DEF StorePending
  <2> QED BY <2>1, <2>2
<1>4. Types'
  BY <1>1, <1>2
<1>5. Windows'
  BY <1>1 DEF InWindow
<1>6. Quiet'
  BY <1>1
<1>7. AtRest'
  BY <1>1
<1>8. ShiftIsNew'
  BY <1>1, <1>3
<1>9. AirIsNew'
  BY <1>1
<1> QED BY <1>4, <1>5, <1>6, <1>7, <1>8, <1>9

\* A step of the loop outside of transmit.
LEMMA LoopKeeps == ASSUME IInv, Loop, ~StorePending PROVE IInv'
<1> USE FrameIsLong DEF IInv, Types, Windows, Quiet, AtRest, ShiftIsNew, AirIsNew
<1>1. CASE ReadSeconds
  BY <1>1 DEF ReadSeconds, store, sender, OfPacket, window, InWindow
<1>2. CASE Measure
  BY <1>2 DEF Measure, store, sender, OfPacket, InWindow
<1>3. CASE StayBusy
  BY <1>3 DEF StayBusy, store, sender, OfPacket, window, InWindow
<1>4. CASE MakePacket
  BY <1>4 DEF MakePacket, Idle, sender, window, InWindow
<1>5. CASE SaveFirst
  BY <1>5 DEF SaveFirst, sender, window, InWindow, OfPacket
<1>6. CASE SaveSecond
  BY <1>6 DEF SaveSecond, sender, window, InWindow, OfPacket
<1>7. CASE Transmit
  <2>1. PICK done \in SUBSET Stores :
          /\ pending' = Stores \ done
          /\ torn' \in {FALSE, "txBuffer" \notin done}
          /\ txBuffer' \in IF "txBuffer" \in done THEN {2}
                           ELSE IF "txBuffer" \in reread' THEN {1}
                           ELSE IF torn' THEN Places ELSE {txBuffer}
          /\ active' = ("active" \in done)
          /\ txShift' = IF "txShift" \in done THEN <<packet, 1>> ELSE txShift
          /\ bitIndex' = IF "bitIndex" \in done THEN 0 ELSE bitIndex
    BY <1>7 DEF Transmit
  <2>2. /\ pc = "transmit" /\ pc' = "transmitting" /\ ~active /\ ticked' = ticked
        /\ air' = <<>> /\ OfPacket' = OfPacket /\ packet' = packet
    BY <1>7 DEF Transmit, store, OfPacket
  <2>3. bitIndex \in {0, FrameBits} /\ bitIndex' \in {0, FrameBits}
    BY <2>1, <2>2
  <2>4. Types'
    <3>1. txBuffer' \in {1, 2, txBuffer} \/ txBuffer' \in Places
      BY <2>1
    <3>2. txBuffer \in Int
      OBVIOUS
    <3>3. txBuffer' \in Int
      BY <3>1, <3>2, StoredPlace, Zenon
    <3>4. bitIndex' = 0 \/ bitIndex' = bitIndex
      BY <2>1
    <3>5. pending' \subseteq Stores
      BY <2>1
    <3>6. 0 \in 0 .. FrameBits /\ bitIndex \in 0 .. FrameBits
      <4>1. 0 \in 0 .. FrameBits
        BY FrameIsLong, Zenon
      <4>2. bitIndex \in 0 .. FrameBits
        OBVIOUS
      <4> QED BY <4>1, <4>2
    <3>7. bitIndex' \in 0 .. FrameBits
      BY <3>4, <3>6, Zenon
    <3> QED BY <3>3, <3>5, <3>7, Zenon
  <2>5. Windows'
    BY <2>2 DEF InWindow
  <2>6. Quiet'
    BY <2>2
  <2>7. AtRest'
    BY <2>3
  <2>8. ShiftIsNew'
    <3>1. "txShift" \notin pending' => txShift' = <<packet, 1>>
      BY <2>1 DEF Stores
    <3>2. <<packet, 1>> \in OfPacket'
      BY <2>2 DEF OfPacket
    <3> QED BY <2>3, <3>1, <3>2
  <2>9. AirIsNew'
    BY <2>2, EmptySeq
  <2> QED BY <2>4, <2>5, <2>6, <2>7, <2>8, <2>9
<1> QED BY <1>1, <1>2, <1>3, <1>4, <1>5, <1>6, <1>7 DEF Loop

LEMMA IInvNext == IInv /\ [Next]_vars => IInv'
<1> SUFFICES ASSUME IInv, [Next]_vars PROVE IInv'
  OBVIOUS
<1>1. CASE StorePending BY <1>1, StoreKeeps
<1>2. CASE Loop /\ ~StorePending BY <1>2, LoopKeeps
<1>3. CASE Tick BY <1>3, TickKeeps
<1>4. CASE Reset BY <1>4, ResetKeeps
<1>5. CASE UNCHANGED vars
  BY <1>5 DEF vars, store, sender, OfPacket, window, IInv, Types, Windows, InWindow, Quiet,
              AtRest, ShiftIsNew, AirIsNew
<1> QED BY <1>1, <1>2, <1>3, <1>4, <1>5 DEF Next

\* What goes out is always of the packet that the buffer holds: main.cpp fills
\* it only when isBusy says no, and no race of transmit and tick lets a byte of
\* the packet before be sent.
THEOREM OnlyThisPacketIsSent == Spec => []OnePacketAtATime
<1>1. IInv => OnePacketAtATime
  BY DEF IInv, AirIsNew, OnePacketAtATime, OfPacket
<1> QED BY <1>1, IInvInit, IInvNext, PTL DEF Spec

-----------------------------------------------------------------------------
(* Numbers and their bytes *)

\* A number is its two bytes.
LEMMA Split ==
    ASSUME NEW w \in Nat
    PROVE  /\ Low(w) \in 0 .. ByteMod - 1 /\ High(w) \in Nat
           /\ Low(w) + ByteMod * High(w) = w
BY ConstantsAssumption DEF Low, High

\* Its bytes are the only two that make it.
LEMMA Unique ==
    ASSUME NEW h \in Nat, NEW k \in Nat, NEW l \in 0 .. ByteMod - 1,
           NEW m \in 0 .. ByteMod - 1, l + ByteMod * h = m + ByteMod * k
    PROVE  l = m /\ h = k
<1> DEFINE b == ByteMod
<1>0. b \in Nat \ {0}
  BY ConstantsAssumption
<1>00. l \in 0 .. b - 1 /\ m \in 0 .. b - 1 /\ l + b * h = m + b * k
  OBVIOUS
<1> HIDE DEF b
<1>1. CASE h = k
  BY <1>0, <1>00, <1>1
<1>2. CASE h < k
  <2>1. b * (k - h) >= b
    BY <1>0, <1>2
  <2> QED
    BY <1>0, <1>00, <1>2, <2>1
<1>3. CASE h > k
  <2>1. b * (h - k) >= b
    BY <1>0, <1>3
  <2> QED
    BY <1>0, <1>00, <1>3, <2>1
<1> QED
  BY <1>1, <1>2, <1>3

\* The next number has the same high byte, or the next one and a low byte of 0.
LEMMA Carry ==
    ASSUME NEW w \in Nat
    PROVE  \/ High(w + 1) = High(w) /\ Low(w + 1) = Low(w) + 1
           \/ High(w + 1) = High(w) + 1 /\ Low(w + 1) = 0 /\ Low(w) = ByteMod - 1
<1>0. ByteMod \in Nat \ {0} /\ w + 1 \in Nat
  BY ConstantsAssumption
<1>1. /\ Low(w) \in 0 .. ByteMod - 1 /\ High(w) \in Nat
      /\ Low(w) + ByteMod * High(w) = w
  BY Split
<1>2. /\ Low(w + 1) \in 0 .. ByteMod - 1 /\ High(w + 1) \in Nat
      /\ Low(w + 1) + ByteMod * High(w + 1) = w + 1
  BY <1>0, Split
<1>3. CASE Low(w) < ByteMod - 1
  <2>1. Low(w) + 1 \in 0 .. ByteMod - 1 /\ (Low(w) + 1) + ByteMod * High(w) = w + 1
    BY <1>0, <1>1, <1>3
  <2> QED
    BY <1>1, <1>2, <2>1, Unique
<1>4. CASE Low(w) = ByteMod - 1
  <2>1. 0 \in 0 .. ByteMod - 1 /\ High(w) + 1 \in Nat
    BY <1>0, <1>1
  <2>2. 0 + ByteMod * (High(w) + 1) = w + 1
    BY <1>0, <1>1, <1>4
  <2> QED
    BY <1>1, <1>2, <1>4, <2>1, <2>2, Unique
<1> QED
  BY <1>0, <1>1, <1>3, <1>4

-----------------------------------------------------------------------------
(* The schedule of the measurements *)

\* A torn reading of gSeconds is too late by nearly ByteMod seconds and may
\* push the schedule ahead by one interval more, but only in the second in
\* which the low byte has gone round: with g seconds the schedule is one
\* interval ahead of them or two ahead of the last such second.
Ahead(g) == \/ nextMeasureTime <= g + Interval
            \/ nextMeasureTime <= ByteMod * High(g) + 2 * Interval

\* Between the two bytes that the loop reads one tick at most has come.
HalfRead == pc = "check" =>
    \E g \in Nat : /\ Ahead(g)
                   /\ half \in {<<1, Low(g)>>, <<2, High(g)>>}
                   /\ gSeconds = g \/ (gSeconds = g + 1 /\ ticked)

TimeInv == /\ gSeconds \in Nat /\ nextMeasureTime \in Nat
           /\ Ahead(gSeconds)
           /\ HalfRead

\* The schedule is not further ahead a second later.
LEMMA AheadLater ==
    ASSUME NEW g \in Nat, nextMeasureTime \in Nat, Ahead(g)
    PROVE  Ahead(g + 1)
<1>1. ByteMod \in Nat \ {0} /\ Interval \in Nat
  BY ConstantsAssumption
<1>2. High(g) \in Nat /\ High(g + 1) \in {High(g), High(g) + 1}
  BY Split, Carry
<1>3. ByteMod * High(g) <= ByteMod * High(g + 1)
  BY <1>1, <1>2
<1>4. ByteMod * High(g) \in Nat /\ ByteMod * High(g + 1) \in Nat
  BY <1>1, <1>2
<1> QED
  BY <1>1, <1>3, <1>4 DEF Ahead

\* What a reading of the two bytes on the two sides of a tick may give.
LEMMA ReadingIs ==
    ASSUME NEW g \in Nat, half \in {<<1, Low(g)>>, <<2, High(g)>>},
           gSeconds \in {g, g + 1}
    PROVE  /\ SecondsRead \in Nat
           /\ \/ SecondsRead <= gSeconds
              \/ /\ SecondsRead = gSeconds + ByteMod - 1
                 /\ gSeconds = g + 1
                 /\ gSeconds = ByteMod * High(gSeconds)
                 /\ ByteMod * High(g) = gSeconds - ByteMod
<1>1. ByteMod \in Nat \ {0} /\ gSeconds \in Nat
  BY ConstantsAssumption
<1>2. /\ Low(g) \in 0 .. ByteMod - 1 /\ High(g) \in Nat
      /\ Low(g) + ByteMod * High(g) = g
      /\ Low(gSeconds) \in 0 .. ByteMod - 1 /\ High(gSeconds) \in Nat
      /\ Low(gSeconds) + ByteMod * High(gSeconds) = gSeconds
  BY <1>1, Split
<1>3. CASE half = <<1, Low(g)>>
  <2>1. SecondsRead = Low(g) + ByteMod * High(gSeconds)
    BY <1>3 DEF SecondsRead, Word
  <2>2. CASE High(gSeconds) = High(g)
    BY <1>1, <1>2, <2>1, <2>2
  <2>3. CASE High(gSeconds) # High(g)
    <3>1. gSeconds = g + 1
      BY <2>3
    <3>2. High(gSeconds) = High(g) + 1 /\ Low(gSeconds) = 0 /\ Low(g) = ByteMod - 1
      BY <2>3, <3>1, Carry
    <3>3. ByteMod * High(gSeconds) = ByteMod * High(g) + ByteMod
      BY <1>1, <1>2, <3>2
    <3>4. gSeconds = ByteMod * High(gSeconds) /\ ByteMod * High(g) = gSeconds - ByteMod
      BY <1>1, <1>2, <3>2, <3>3
    <3>5. SecondsRead = gSeconds + ByteMod - 1
      BY <1>1, <2>1, <3>2, <3>4
    <3> QED
      BY <1>1, <3>1, <3>4, <3>5
  <2> QED
    BY <2>2, <2>3
<1>4. CASE half = <<2, High(g)>>
  <2>1. SecondsRead = Low(gSeconds) + ByteMod * High(g)
    BY <1>4 DEF SecondsRead, Word
  <2>2. High(g) <= High(gSeconds)
    <3>1. High(gSeconds) \in {High(g), High(g) + 1}
      BY Carry
    <3> QED
      BY <1>2, <3>1
  <2>3. ByteMod * High(g) <= ByteMod * High(gSeconds)
    BY <1>1, <1>2, <2>2
  <2> QED
    BY <1>1, <1>2, <2>1, <2>3
<1> QED
  BY <1>3, <1>4

LEMMA MeasureInTime == ASSUME TimeInv, Measure PROVE TimeInv'
<1>1. PICK g \in Nat : /\ Ahead(g)
                       /\ half \in {<<1, Low(g)>>, <<2, High(g)>>}
                       /\ gSeconds = g \/ gSeconds = g + 1
  BY DEF Measure, TimeInv, HalfRead
<1>2. /\ Interval \in Nat \ {0} /\ ByteMod \in Nat \ {0} /\ WordMod \in Nat \ {0}
      /\ gSeconds \in Nat /\ nextMeasureTime \in Nat
  BY ConstantsAssumption DEF TimeInv, WordMod
<1>3. gSeconds' = gSeconds /\ pc' = "poll"
  BY DEF Measure
<1>4. CASE SecondsRead >= nextMeasureTime
  <2>1. nextMeasureTime' = (nextMeasureTime + Interval) % WordMod
    BY <1>4 DEF Measure, NextTime
  <2>2. nextMeasureTime' \in Nat /\ nextMeasureTime' <= nextMeasureTime + Interval
    BY <1>2, <2>1
  <2>3. CASE SecondsRead <= gSeconds
    <3>1. nextMeasureTime' <= gSeconds' + Interval
      BY <1>1, <1>2, <1>3, <1>4, <2>2, <2>3, ReadingIs
    <3> QED
      BY <1>2, <1>3, <2>2, <3>1 DEF TimeInv, Ahead, HalfRead
  <2>4. CASE ~(SecondsRead <= gSeconds)
    <3>1. /\ SecondsRead = gSeconds + ByteMod - 1
          /\ gSeconds = g + 1
          /\ gSeconds = ByteMod * High(gSeconds)
          /\ ByteMod * High(g) = gSeconds - ByteMod
      BY <1>1, <2>4, ReadingIs
    <3>2. nextMeasureTime <= gSeconds + Interval
      <4>1. CASE nextMeasureTime <= g + Interval
        BY <1>2, <3>1, <4>1
      <4>2. CASE nextMeasureTime <= ByteMod * High(g) + 2 * Interval
        BY <1>2, <1>4, <3>1, <4>2
      <4> QED
        BY <1>1, <4>1, <4>2 DEF Ahead
    <3>3. nextMeasureTime' <= gSeconds' + 2 * Interval
      BY <1>2, <1>3, <2>2, <3>2
    <3>4. nextMeasureTime' <= ByteMod * High(gSeconds') + 2 * Interval
      BY <1>3, <3>1, <3>3
    <3> QED
      BY <1>2, <1>3, <2>2, <3>4 DEF TimeInv, Ahead, HalfRead
  <2> QED
    BY <2>3, <2>4
<1>5. CASE ~(SecondsRead >= nextMeasureTime)
  <2>1. nextMeasureTime' = nextMeasureTime
    BY <1>5 DEF Measure
  <2> QED
    BY <1>3, <2>1 DEF TimeInv, Ahead, HalfRead
<1> QED
  BY <1>4, <1>5

LEMMA ReadKeepsTime == ASSUME TimeInv, ReadSeconds PROVE TimeInv'
<1>1. /\ UNCHANGED <<gSeconds, nextMeasureTime>>
      /\ half' \in {<<1, Low(gSeconds)>>, <<2, High(gSeconds)>>}
  BY DEF ReadSeconds
<1> QED
  BY <1>1 DEF TimeInv, Ahead, HalfRead

LEMMA TickKeepsTime == ASSUME TimeInv, Tick PROVE TimeInv'
<1>1. /\ gSeconds' \in {gSeconds, gSeconds + 1}
      /\ UNCHANGED <<pc, nextMeasureTime, half>>
      /\ ~(InWindow /\ ticked) /\ ticked' = InWindow
  BY DEF Tick
<1>2. gSeconds \in Nat /\ gSeconds' \in Nat /\ nextMeasureTime' \in Nat
  BY <1>1 DEF TimeInv
<1>3. Ahead(gSeconds)'
  <2>1. Ahead(gSeconds) /\ Ahead(gSeconds + 1)
    BY <1>2, AheadLater DEF TimeInv
  <2> QED
    BY <1>1, <2>1 DEF Ahead
<1>4. HalfRead'
  <2> SUFFICES ASSUME pc = "check" PROVE HalfRead'
    BY <1>1 DEF HalfRead
  <2>1. ~ticked /\ ticked'
    BY <1>1 DEF InWindow
  <2>2. PICK g \in Nat : /\ Ahead(g)
                         /\ half \in {<<1, Low(g)>>, <<2, High(g)>>}
                         /\ gSeconds = g
    BY <2>1 DEF TimeInv, HalfRead
  <2>3. Ahead(g)' /\ half' \in {<<1, Low(g)>>, <<2, High(g)>>}
    BY <1>1, <2>2 DEF Ahead
  <2>4. gSeconds' = g \/ (gSeconds' = g + 1 /\ ticked')
    BY <1>1, <2>1, <2>2
  <2> QED
    BY <2>3, <2>4 DEF HalfRead
<1> QED
  BY <1>2, <1>3, <1>4 DEF TimeInv

LEMMA TimeNext == TimeInv /\ [Next]_vars => TimeInv'
<1> SUFFICES ASSUME TimeInv, [Next]_vars PROVE TimeInv'
  OBVIOUS
<1>1. CASE ReadSeconds
  BY <1>1, ReadKeepsTime
<1>2. CASE Measure
  BY <1>2, MeasureInTime
<1>3. CASE Tick
  BY <1>3, TickKeepsTime
<1>4. CASE Reset
  <2>1. gSeconds' = 0 /\ nextMeasureTime' = 0 /\ pc' = "read"
    BY <1>4 DEF Reset, Boot
  <2> QED
    BY <2>1, ConstantsAssumption DEF TimeInv, Ahead, HalfRead
<1>5. CASE UNCHANGED <<clock, ticked>> /\ (pc' = pc \/ pc' # "check")
  BY <1>5 DEF clock, TimeInv, Ahead, HalfRead
<1>6. CASE StorePending
  <2>1. UNCHANGED clock /\ pc' = "read"
    BY <1>6 DEF StorePending
  <2> QED
    BY <2>1 DEF clock, TimeInv, Ahead, HalfRead
<1>7. StayBusy \/ MakePacket \/ SaveFirst \/ SaveSecond \/ Transmit
        => UNCHANGED <<clock, ticked>> /\ pc' # "check"
  BY DEF StayBusy, MakePacket, SaveFirst, SaveSecond, Transmit, clock, window
<1>8. UNCHANGED vars => UNCHANGED <<clock, ticked>> /\ pc' = pc
  BY DEF vars, window
<1> QED
  BY <1>1, <1>2, <1>3, <1>4, <1>5, <1>6, <1>7, <1>8 DEF Next, Loop

\* The loop measures on: neither a reading that is torn nor any race of loop,
\* interrupt and reset puts the next measurement more than two intervals off.
THEOREM NextMeasurementIsNear == Spec => []MeasurementsGoOn
<1>1. Init => TimeInv
  <2>1. Init => gSeconds = 0 /\ nextMeasureTime = 0 /\ pc = "read"
    BY DEF Init
  <2> QED
    BY <2>1, ConstantsAssumption DEF TimeInv, Ahead, HalfRead
<1>2. TimeInv => MeasurementsGoOn
  <2> SUFFICES ASSUME TimeInv PROVE nextMeasureTime <= gSeconds + 2 * Interval
    BY DEF MeasurementsGoOn
  <2>1. /\ gSeconds \in Nat /\ nextMeasureTime \in Nat /\ Interval \in Nat
        /\ ByteMod \in Nat
    BY ConstantsAssumption DEF TimeInv
  <2>2. /\ Low(gSeconds) \in Nat /\ High(gSeconds) \in Nat
        /\ Low(gSeconds) + ByteMod * High(gSeconds) = gSeconds
    BY <2>1, Split
  <2>3. ByteMod * High(gSeconds) \in Nat /\ ByteMod * High(gSeconds) <= gSeconds
    BY <2>1, <2>2
  <2> QED
    BY <2>1, <2>3 DEF TimeInv, Ahead
<1> QED
  BY <1>1, <1>2, TimeNext, PTL DEF Spec

-----------------------------------------------------------------------------
(* The numbers of the packets *)

Numbers == 0 .. WordMod - 1

\* How far a number is on from the first one.
Place(n) == IF n >= Saved THEN n - Saved ELSE n - Saved + WordMod

\* The number after one, and how the two are torn when the high byte is
\* written first.
Follow(n) == (n + 1) % WordMod

BytesOf(n) == <<Low(n), High(n)>>
Torn(n)    == <<Low(n), High(Follow(n))>>

Making == pc \in {"save", "save other", "transmit"}

NumberTypes ==
    /\ pc \in {"read", "check", "poll", "save", "save other", "transmit",
              "transmitting"}
    /\ sentenceID \in Numbers
    /\ IsFiniteSet(sent) /\ sent \subseteq Numbers
    /\ Cardinality(sent) <= MaxSent
    /\ Making => Cardinality(sent) < MaxSent /\ packet \in Numbers
    /\ resets \in 0 .. MaxResets

\* The number of the next packet, in memory and in the EEPROM, is on from all
\* those that were sent.  While a packet is made, its own number is that.
Kept ==
    /\ ~Making => /\ eeprom = BytesOf(sentenceID)
                  /\ \A n \in sent : Place(n) < Place(sentenceID)
    /\ Making  => /\ sentenceID = Follow(packet)
                  /\ Place(sentenceID) = Place(packet) + 1
                  /\ \A n \in sent : Place(n) < Place(packet)
    /\ pc = "save"       => eeprom = BytesOf(packet)
    /\ pc = "save other" => eeprom = Torn(packet)
    /\ pc = "transmit"   => eeprom = BytesOf(sentenceID)

\* A number is used up by a packet that was sent or by a reset, which may use
\* up a low byte of them.
Budget(more) == Cardinality(sent) + resets * ByteMod + more

InBudget == Place(sentenceID) <= Budget(IF Making THEN 1 ELSE 0)

NumberInv == NumberTypes /\ Kept /\ InBudget /\ ~repeated

\* The numbers do not go round: the word of a number is long enough for all
\* that are sent and for those that resets skip.
Enough == MaxSent + MaxResets * ByteMod < WordMod

LEMMA WordIsLong ==
    /\ ByteMod \in Nat \ {0} /\ WordMod \in Nat \ {0} /\ WordMod = ByteMod * ByteMod
    /\ Saved \in Numbers /\ MaxSent \in Nat /\ MaxResets \in Nat
  BY ConstantsAssumption DEF WordMod, Numbers

LEMMA FollowIs ==
    ASSUME NEW n \in Numbers
    PROVE  /\ Follow(n) \in Numbers
           /\ Follow(n) = IF n + 1 = WordMod THEN 0 ELSE n + 1
           /\ Place(n) \in Numbers
           /\ Place(n) + 1 < WordMod => Place(Follow(n)) = Place(n) + 1
<1>1. WordMod \in Nat \ {0} /\ Saved \in Numbers
  BY WordIsLong
<1>2. Follow(n) = IF n + 1 = WordMod THEN 0 ELSE n + 1
  BY <1>1 DEF Numbers, Follow
<1> QED
  BY <1>1, <1>2 DEF Numbers, Place

\* Places tell numbers apart.
LEMMA PlaceTells ==
    ASSUME NEW m \in Numbers, NEW n \in Numbers, Place(m) = Place(n)
    PROVE  m = n
  BY WordIsLong DEF Numbers, Place

LEMMA WordOfBytes == ASSUME NEW n \in Numbers PROVE Word(BytesOf(n)) = n
  BY Split, WordIsLong DEF Numbers, Word, BytesOf

LEMMA BytesOfWord ==
    ASSUME NEW l \in 0 .. ByteMod - 1, NEW h \in Nat
    PROVE  BytesOf(Word(<<l, h>>)) = <<l, h>>
<1>1. ByteMod \in Nat \ {0}
  BY WordIsLong
<1> DEFINE w == l + ByteMod * h
<1>2. w \in Nat /\ Word(<<l, h>>) = w
  BY <1>1 DEF Word
<1>3. w = l + ByteMod * h
  OBVIOUS
<1> HIDE DEF w
<1>4. /\ Low(w) \in 0 .. ByteMod - 1 /\ High(w) \in Nat
      /\ Low(w) + ByteMod * High(w) = w
  BY <1>2, Split
<1>5. Low(w) = l /\ High(w) = h
  BY <1>3, <1>4, Unique
<1> QED
  BY <1>2, <1>5 DEF BytesOf

\* The place of a later number.
LEMMA LaterPlace ==
    ASSUME NEW n \in Numbers, NEW d \in Nat, n + d \in Numbers, Place(n) + d < WordMod
    PROVE  Place(n + d) = Place(n) + d
  BY WordIsLong DEF Numbers, Place

\* A reset between the two writes finds the old number, or one that is a low
\* byte further on than the new one.
LEMMA WordOfTorn ==
    ASSUME NEW n \in Numbers
    PROVE  Word(Torn(n)) = n \/ (Word(Torn(n)) = Follow(n) + ByteMod - 1 /\ Word(Torn(n)) \in Numbers)
<1>0. ByteMod \in Nat \ {0} /\ n \in Nat /\ n < WordMod /\ WordMod = ByteMod * ByteMod
  BY WordIsLong DEF Numbers
<1>1. /\ Low(n) \in 0 .. ByteMod - 1 /\ High(n) \in Nat
      /\ Low(n) + ByteMod * High(n) = n
  BY <1>0, Split
<1>2. Word(Torn(n)) = Low(n) + ByteMod * High(Follow(n))
  BY DEF Torn, Word
<1>3. CASE n + 1 = WordMod
  <2>1. Follow(n) = 0
    BY <1>3, FollowIs
  <2>2. 0 \in 0 .. ByteMod - 1 /\ 0 \in Nat /\ 0 + ByteMod * 0 = 0
    BY <1>0
  <2>3. High(0) = 0
    <3>1. /\ Low(0) \in 0 .. ByteMod - 1 /\ High(0) \in Nat
          /\ Low(0) + ByteMod * High(0) = 0
      BY Split
    <3> QED
      BY <2>2, <3>1, Unique
  <2>4. Low(n) = ByteMod - 1
    <3>1. ByteMod - 1 \in 0 .. ByteMod - 1 /\ ByteMod - 1 \in Nat
      BY <1>0
    <3>2. (ByteMod - 1) + ByteMod * (ByteMod - 1) = n
      BY <1>0, <1>3
    <3> QED
      BY <1>1, <3>1, <3>2, Unique
  <2>5. Word(Torn(n)) = ByteMod - 1
    BY <1>0, <1>2, <2>1, <2>3, <2>4
  <2>6. ByteMod - 1 \in 0 .. WordMod - 1
    BY <1>0
  <2> QED
    BY <2>1, <2>5, <2>6, <1>0 DEF Numbers
<1>4. CASE n + 1 # WordMod
  <2>1. Follow(n) = n + 1
    BY <1>4, FollowIs
  <2>2. CASE High(n + 1) = High(n)
    BY <1>1, <1>2, <2>1, <2>2
  <2>3. CASE High(n + 1) # High(n)
    <3>1. High(n + 1) = High(n) + 1 /\ Low(n) = ByteMod - 1
      BY <1>0, <2>3, Carry
    <3>2. ByteMod * High(n + 1) = ByteMod * High(n) + ByteMod
      BY <1>0, <1>1, <3>1
    <3>3. ByteMod * High(n) \in Nat
      BY <1>0, <1>1
    <3>4. ByteMod * High(n + 1) = n + 1
      BY <1>0, <1>1, <3>1, <3>2, <3>3
    <3>5. Word(Torn(n)) = ByteMod - 1 + (n + 1)
      BY <1>2, <2>1, <3>1, <3>4
    <3>6. n + 1 <= WordMod - ByteMod
      <4> DEFINE h == High(n + 1)
      <4>1. h \in Nat /\ ByteMod * h < ByteMod * ByteMod
        BY <1>0, <1>1, <1>4, <3>1, <3>4
      <4> HIDE DEF h
      <4>2. h < ByteMod
        <5>1. CASE h >= ByteMod
          <6>1. ByteMod * (h - ByteMod) >= 0
            BY <1>0, <4>1, <5>1
          <6> QED
            BY <1>0, <4>1, <6>1
        <5> QED
          BY <1>0, <4>1, <5>1
      <4>3. ByteMod * ((ByteMod - 1) - h) >= 0
        BY <1>0, <4>1, <4>2
      <4>4. ByteMod * h <= ByteMod * ByteMod - ByteMod
        BY <1>0, <4>1, <4>3
      <4> QED
        BY <1>0, <3>4, <4>4 DEF h
    <3>7. Word(Torn(n)) \in Numbers
      BY <1>0, <3>5, <3>6 DEF Numbers
    <3> QED
      BY <1>0, <2>1, <3>5, <3>7
  <2> QED
    BY <2>2, <2>3
<1> QED
  BY <1>3, <1>4

\* resets * ByteMod as one number, which a reset lets grow by ByteMod.
LEMMA Skipped ==
    ASSUME NEW r \in Nat
    PROVE  /\ r * ByteMod \in Nat /\ (r + 1) * ByteMod = r * ByteMod + ByteMod
           /\ \A m \in Nat : r <= m => r * ByteMod <= m * ByteMod
<1>1. ByteMod \in Nat
  BY WordIsLong
<1>2. r * ByteMod \in Nat /\ (r + 1) * ByteMod = r * ByteMod + ByteMod
  BY <1>1
<1>3. ASSUME NEW m \in Nat, r <= m PROVE r * ByteMod <= m * ByteMod
  <2>1. PICK d \in Nat : m = r + d
    <3>1. m - r \in Nat /\ m = r + (m - r)
      BY <1>3
    <3> QED
      BY <3>1
  <2>2. m * ByteMod = r * ByteMod + d * ByteMod /\ d * ByteMod \in Nat
    BY <1>1, <2>1
  <2> QED
    BY <1>2, <2>2
<1> QED
  BY <1>2, <1>3

\* Steps that make no number and save none.
LEMMA SameNumbers ==
    ASSUME NumberInv, UNCHANGED <<store, sent, repeated, resets>>,
           ~Making, pc' \in {"read", "check", "poll"}
    PROVE  NumberInv'
  BY DEF NumberInv, NumberTypes, Kept, InBudget, Budget, Making, store, Place, BytesOf

LEMMA MakeKeepsNumbers == ASSUME Enough, NumberInv, MakePacket PROVE NumberInv'
<1> DEFINE card == Cardinality(sent)
           skip == resets * ByteMod
<1>1. /\ pc = "poll" /\ pc' = "save" /\ card < MaxSent /\ packet' = sentenceID
      /\ sentenceID' = Follow(sentenceID)
      /\ UNCHANGED <<eeprom, sent, repeated, resets>>
  BY DEF MakePacket, Follow
<1>2. card \in Nat /\ skip \in Nat /\ skip <= MaxResets * ByteMod
      /\ MaxSent \in Nat /\ MaxResets * ByteMod \in Nat
  <2>1. card \in Nat
    BY FS_CardinalityType DEF NumberInv, NumberTypes
  <2>2. resets \in Nat /\ MaxResets \in Nat /\ resets <= MaxResets /\ MaxSent \in Nat
    <3>1. resets \in 0 .. MaxResets
      BY DEF NumberInv, NumberTypes
    <3> QED
      BY <3>1, WordIsLong
  <2> QED
    BY <2>1, <2>2, Skipped
<1>3. Place(sentenceID) <= card + skip /\ Place(sentenceID) \in Nat
  BY <1>1, <1>2, FollowIs, WordIsLong DEF NumberInv, NumberTypes, InBudget, Budget, Making, Numbers
<1>4. card + MaxResets * ByteMod + 1 < WordMod + 1 /\ WordMod \in Nat
  BY <1>1, <1>2, WordIsLong DEF Enough
<1>5. Place(sentenceID) + 1 < WordMod
  BY <1>1, <1>2, <1>3, WordIsLong DEF Enough
<1>6. sentenceID' \in Numbers /\ Place(sentenceID') = Place(sentenceID) + 1
  BY <1>1, <1>5, FollowIs DEF NumberInv, NumberTypes
<1>7. NumberTypes'
  BY <1>1, <1>6 DEF NumberInv, NumberTypes, Making, Numbers
<1>8. Kept'
  BY <1>1, <1>6 DEF NumberInv, Kept, Making, Place, BytesOf, Follow
<1>9. InBudget'
  <2>1. Place(sentenceID') <= card + skip + 1
    BY <1>2, <1>3, <1>6
  <2> QED
    BY <1>1, <2>1 DEF InBudget, Budget, Making, Place
<1> QED
  BY <1>1, <1>7, <1>8, <1>9 DEF NumberInv

\* A pair with one of its bytes replaced.
LEMMA PairExcept ==
    ASSUME NEW a, NEW b, NEW c
    PROVE  [<<a, b>> EXCEPT ![1] = c] = <<c, b>> /\ [<<a, b>> EXCEPT ![2] = c] = <<a, c>>
  OBVIOUS

LEMMA SavesKeepNumbers == ASSUME NumberInv, SaveFirst \/ SaveSecond PROVE NumberInv'
<1>1. /\ UNCHANGED <<sentenceID, packet, sent, repeated, resets>>
      /\ Making /\ Making'
  BY DEF SaveFirst, SaveSecond, Making
<1>2. /\ pc = "save" /\ pc' = "save other" /\ eeprom' = [eeprom EXCEPT ![2] = High(sentenceID)]
      \/ /\ pc = "save other" /\ pc' = "transmit"
         /\ eeprom' = [eeprom EXCEPT ![1] = Low(sentenceID)]
  <2>1. /\ <<Low(sentenceID), High(sentenceID)>>[2] = High(sentenceID)
        /\ <<Low(sentenceID), High(sentenceID)>>[1] = Low(sentenceID)
    OBVIOUS
  <2>2. 3 - FirstByte = 1 /\ FirstByte = 2
    BY DEF FirstByte
  <2>3. CASE SaveFirst
    BY <2>1, <2>2, <2>3 DEF SaveFirst, SaveByte
  <2>4. CASE SaveSecond
    BY <2>1, <2>2, <2>4 DEF SaveSecond, SaveByte
  <2> QED
    BY <2>3, <2>4
<1>3. sentenceID = Follow(packet)
  BY <1>1 DEF NumberInv, Kept
<1>4. pc' = "save other" => eeprom' = Torn(packet)
  <2>1. pc = "save" => eeprom = <<Low(packet), High(packet)>>
    BY DEF NumberInv, Kept, BytesOf
  <2>2. [<<Low(packet), High(packet)>> EXCEPT ![2] = High(sentenceID)]
           = <<Low(packet), High(sentenceID)>>
    BY PairExcept
  <2> QED
    BY <1>2, <1>3, <2>1, <2>2, Zenon DEF Torn
<1>5. pc' = "transmit" => eeprom' = BytesOf(sentenceID)
  <2>1. pc = "save other" => eeprom = <<Low(packet), High(sentenceID)>>
    BY <1>3 DEF NumberInv, Kept, Torn
  <2>2. [<<Low(packet), High(sentenceID)>> EXCEPT ![1] = Low(sentenceID)]
           = <<Low(sentenceID), High(sentenceID)>>
    BY PairExcept
  <2> QED
    BY <1>2, <2>1, <2>2, Zenon DEF BytesOf
<1>6. Kept'
  BY <1>1, <1>2, <1>4, <1>5 DEF NumberInv, Kept, Making, Place, BytesOf, Torn, Follow
<1>7. NumberTypes' /\ InBudget'
  BY <1>1, <1>2 DEF NumberInv, NumberTypes, InBudget, Budget, Making, Place, Numbers
<1> QED
  BY <1>1, <1>6, <1>7 DEF NumberInv

\* The number that is sent was not sent before, so it counts for itself.
LEMMA TransmitKeepsNumbers == ASSUME NumberInv, Transmit PROVE NumberInv'
<1>1. /\ pc = "transmit" /\ pc' = "transmitting" /\ Making /\ ~Making'
      /\ UNCHANGED <<sentenceID, packet, eeprom, resets>>
      /\ repeated' = (repeated \/ packet \in sent) /\ sent' = sent \cup {packet}
  BY DEF Transmit, store, Making
<1>2. packet \in Numbers /\ IsFiniteSet(sent) /\ Cardinality(sent) < MaxSent /\ sent \subseteq Numbers
  BY <1>1 DEF NumberInv, NumberTypes
<1>3. Place(packet) \in Nat /\ Place(sentenceID) = Place(packet) + 1
  BY <1>1, <1>2, FollowIs, WordIsLong DEF NumberInv, Kept, Numbers
<1>4. packet \notin sent
  <2>1. \A n \in sent : Place(n) < Place(packet)
    BY <1>1 DEF NumberInv, Kept
  <2> QED
    BY <1>3, <2>1
<1>5. ~repeated'
  BY <1>1, <1>4 DEF NumberInv
<1>6. IsFiniteSet(sent') /\ Cardinality(sent') = Cardinality(sent) + 1
  BY <1>1, <1>2, <1>4, FS_AddElement
<1>7. Cardinality(sent) \in Nat /\ MaxSent \in Nat
  BY <1>2, FS_CardinalityType, WordIsLong
<1>8. NumberTypes'
  BY <1>1, <1>2, <1>6, <1>7 DEF NumberInv, NumberTypes, Making, Numbers
<1>9. Kept'
  <2>1. \A n \in sent' : Place(n) < Place(sentenceID)
    <3> TAKE n \in sent'
    <3>1. CASE n \in sent
      <4>1. Place(n) < Place(packet) /\ Place(n) \in Nat
        BY <1>1, <1>2, <3>1, FollowIs, WordIsLong DEF NumberInv, Kept, Numbers
      <4> QED
        BY <1>3, <4>1
    <3>2. CASE n = packet
      BY <1>3, <3>2
    <3> QED
      BY <1>1, <3>1, <3>2
  <2> QED
    BY <1>1, <2>1 DEF NumberInv, Kept, Making, Place, BytesOf
<1>10. InBudget'
  <2>1. Place(sentenceID) <= Cardinality(sent) + resets * ByteMod + 1
    BY <1>1 DEF NumberInv, InBudget, Budget
  <2>2. resets * ByteMod \in Nat
    <3>1. resets \in 0 .. MaxResets /\ MaxResets \in Nat
      BY WordIsLong DEF NumberInv, NumberTypes
    <3>2. resets \in Nat
      BY <3>1
    <3> QED
      BY <3>2, Skipped
  <2>3. Place(sentenceID) <= Cardinality(sent') + resets * ByteMod + 0
    BY <1>3, <1>6, <1>7, <2>1, <2>2
  <2> QED
    BY <1>1, <2>3 DEF InBudget, Budget, Place
<1> QED
  BY <1>5, <1>8, <1>9, <1>10 DEF NumberInv

\* A reset finds the number of the next packet, of the one that is being made,
\* or a later one.
LEMMA ResetKeepsNumbers == ASSUME Enough, NumberInv, Reset PROVE NumberInv'
<1> DEFINE card == Cardinality(sent)
           skip == resets * ByteMod
<1>1. /\ pc' = "read" /\ ~Making'
      /\ resets < MaxResets /\ resets' = resets + 1
      /\ sentenceID' = Word(eeprom)
      /\ UNCHANGED <<eeprom, sent, repeated>>
  BY DEF Reset, Boot, Making
<1>2. /\ ByteMod \in Nat \ {0} /\ WordMod \in Nat \ {0}
      /\ Saved \in 0 .. WordMod - 1 /\ MaxSent \in Nat /\ MaxResets \in Nat
  BY WordIsLong DEF Numbers
<1>3. resets \in Nat /\ resets' \in Nat /\ resets' <= MaxResets
  <2>1. resets \in 0 .. MaxResets
    BY DEF NumberInv, NumberTypes
  <2> QED
    BY <1>1, <1>2, <2>1
<1>4. card \in Nat /\ card <= MaxSent /\ sentenceID \in Numbers /\ sent \subseteq Numbers
  BY FS_CardinalityType DEF NumberInv, NumberTypes
<1>5. /\ skip \in Nat /\ resets' * ByteMod = skip + ByteMod
      /\ resets' * ByteMod <= MaxResets * ByteMod /\ MaxResets * ByteMod \in Nat
  BY <1>1, <1>2, <1>3, Skipped
<1>6. card + skip + ByteMod < WordMod
  BY <1>2, <1>4, <1>5 DEF Enough
\* It is enough to know the number that is found and how far on it is.
<1>7. ASSUME sentenceID' \in Numbers, eeprom = BytesOf(sentenceID'),
             Place(sentenceID') <= card + skip + ByteMod,
             \A n \in sent : Place(n) < Place(sentenceID')
      PROVE  NumberInv'
  <2>1. NumberTypes'
    <3>1. resets' \in 0 .. MaxResets
      BY <1>2, <1>3
    <3>2. Numbers' = Numbers /\ Cardinality(sent)' = Cardinality(sent)
      BY <1>1 DEF Numbers
    <3>3. IsFiniteSet(sent)' /\ sent' \subseteq Numbers /\ Cardinality(sent') <= MaxSent
      BY <1>1 DEF NumberInv, NumberTypes
    <3> QED
      BY <1>1, <1>7, <3>1, <3>2, <3>3 DEF NumberTypes
  <2>2. Kept'
    BY <1>1, <1>7 DEF Kept, Making, Place, BytesOf
  <2>3. InBudget'
    <3>1. Place(sentenceID') <= card + resets' * ByteMod + 0
      <4>1. Place(sentenceID') \in Int
        BY <1>7, FollowIs DEF Numbers
      <4> HIDE DEF card, skip
      <4> QED
        BY <1>2, <1>4, <1>5, <1>7, <4>1
    <3> QED
      BY <1>1, <3>1 DEF InBudget, Budget, Place
  <2> QED
    BY <1>1, <2>1, <2>2, <2>3 DEF NumberInv
<1>8. Place(sentenceID) \in Nat
  BY <1>4, FollowIs DEF Numbers
<1>9. CASE pc \in {"read", "check", "poll", "transmit", "transmitting"}
  <2>1. eeprom = BytesOf(sentenceID) /\ sentenceID' = sentenceID
    <3>1. eeprom = BytesOf(sentenceID)
      BY <1>9 DEF NumberInv, Kept, Making
    <3> QED
      BY <1>1, <1>4, <3>1, WordOfBytes
  <2>2. Place(sentenceID) <= card + skip + ByteMod
    <3>1. Place(sentenceID) <= card + skip + 1 \/ Place(sentenceID) <= card + skip + 0
      BY DEF NumberInv, InBudget, Budget
    <3> QED
      BY <1>2, <1>4, <1>5, <1>8, <3>1
  <2>3. \A n \in sent : Place(n) < Place(sentenceID)
    <3>1. CASE ~Making
      BY <3>1 DEF NumberInv, Kept
    <3>2. CASE Making
      <4>1. packet \in Numbers /\ Place(sentenceID) = Place(packet) + 1
        BY <3>2 DEF NumberInv, NumberTypes, Kept
      <4>2. \A n \in sent : Place(n) < Place(packet) /\ Place(n) \in Int
        <5>1. \A n \in sent : Place(n) < Place(packet)
          BY <3>2 DEF NumberInv, Kept
        <5>2. \A n \in Numbers : Place(n) \in Int
          BY FollowIs DEF Numbers
        <5> QED
          BY <1>4, <5>1, <5>2
      <4>3. Place(packet) \in Int
        BY <4>1, FollowIs DEF Numbers
      <4> QED
        BY <4>1, <4>2, <4>3
    <3> QED
      BY <3>1, <3>2
  <2> QED
    BY <1>4, <1>7, <2>1, <2>2, <2>3
<1>10. CASE pc \in {"save", "save other"}
  <2>1. /\ packet \in Numbers /\ Place(packet) \in Nat
        /\ sentenceID = Follow(packet) /\ Place(sentenceID) = Place(packet) + 1
        /\ \A n \in sent : Place(n) < Place(packet)
    <3>1. Making
      BY <1>10 DEF Making
    <3>2. packet \in Numbers
      BY <3>1 DEF NumberInv, NumberTypes
    <3>3. Place(packet) \in Nat
      BY <3>2, FollowIs DEF Numbers
    <3> QED
      BY <3>1, <3>2, <3>3 DEF NumberInv, Kept
  <2>2. Place(sentenceID) <= card + skip + 1
    BY <1>10 DEF NumberInv, InBudget, Budget, Making
  <2>3. CASE eeprom = BytesOf(packet)
    <3>1. sentenceID' = packet
      BY <1>1, <2>1, <2>3, WordOfBytes
    <3>2. Place(packet) <= card + skip + ByteMod
      BY <1>2, <1>4, <1>5, <2>1, <2>2
    <3> QED
      BY <1>7, <2>1, <2>3, <3>1, <3>2
  <2>4. CASE eeprom = Torn(packet)
    <3>1. eeprom = BytesOf(sentenceID')
      <4>1. /\ Low(packet) \in 0 .. ByteMod - 1 /\ High(sentenceID) \in Nat
            /\ eeprom = <<Low(packet), High(sentenceID)>>
        BY <1>4, <2>1, <2>4, Split DEF Torn, Numbers
      <4> QED
        BY <1>1, <4>1, BytesOfWord
    <3>2. CASE sentenceID' = packet
      <4>1. Place(packet) <= card + skip + ByteMod
        BY <1>2, <1>4, <1>5, <2>1, <2>2
      <4> QED
        BY <1>7, <2>1, <3>1, <3>2, <4>1
    <3>3. CASE sentenceID' = sentenceID + ByteMod - 1 /\ sentenceID' \in Numbers
      <4>1. Place(sentenceID) + (ByteMod - 1) <= card + skip + ByteMod
        BY <1>2, <1>4, <1>5, <1>8, <2>2
      <4>2. Place(sentenceID) + (ByteMod - 1) < WordMod
        BY <1>2, <1>4, <1>5, <1>6, <1>8, <4>1
      <4>3. Place(sentenceID') = Place(sentenceID) + (ByteMod - 1)
        <5>1. ByteMod - 1 \in Nat /\ sentenceID + (ByteMod - 1) = sentenceID'
          BY <1>2, <1>4, <3>3 DEF Numbers
        <5> QED
          BY <1>4, <3>3, <4>2, <5>1, LaterPlace
      <4>4. \A n \in sent : Place(n) < Place(sentenceID')
        <5> TAKE n \in sent
        <5>1. Place(n) \in Nat /\ Place(n) < Place(packet)
          BY <1>4, <2>1, FollowIs DEF Numbers
        <5>2. Place(packet) \in Nat /\ Place(sentenceID) = Place(packet) + 1
          BY <2>1
        <5> QED
          BY <1>2, <4>3, <5>1, <5>2
      <4> QED
        BY <1>7, <3>1, <3>3, <4>1, <4>3, <4>4
    <3> QED
      BY <1>1, <2>1, <2>4, <3>2, <3>3, WordOfTorn
  <2> QED
    <3>1. eeprom = BytesOf(packet) \/ eeprom = Torn(packet)
      BY <1>10 DEF NumberInv, Kept
    <3> QED
      BY <2>3, <2>4, <3>1
<1> QED
  BY <1>9, <1>10 DEF NumberInv, NumberTypes

LEMMA NumberNext == Enough /\ IInv /\ NumberInv /\ [Next]_vars => NumberInv'
<1> SUFFICES ASSUME Enough, IInv, NumberInv, [Next]_vars PROVE NumberInv'
  OBVIOUS
<1>1. CASE Reset
  BY <1>1, ResetKeepsNumbers
<1>2. CASE MakePacket
  BY <1>2, MakeKeepsNumbers
<1>3. CASE SaveFirst \/ SaveSecond
  BY <1>3, SavesKeepNumbers
<1>4. CASE Transmit
  BY <1>4, TransmitKeepsNumbers
\* The transmitter has not begun a packet while the next one is made.
<1>5. StayBusy => pc = "poll"
  BY DEF IInv, Quiet, StayBusy, Idle
<1>6. CASE ReadSeconds \/ Measure \/ StayBusy \/ StorePending
  BY <1>5, <1>6, SameNumbers DEF ReadSeconds, Measure, StayBusy, StorePending, Making
<1>7. CASE UNCHANGED <<pc, store, sent, repeated, resets>>
  BY <1>7 DEF NumberInv, NumberTypes, Kept, InBudget, Budget, Making, store, Place, BytesOf,
              Torn, Follow
<1>8. Tick \/ UNCHANGED vars => UNCHANGED <<pc, store, sent, repeated, resets>>
  BY DEF Tick, vars
<1> QED
  BY <1>1, <1>2, <1>3, <1>4, <1>6, <1>7, <1>8 DEF Next, Loop

LEMMA NumberInit == Init => NumberInv
<1> SUFFICES ASSUME Init PROVE NumberInv
  OBVIOUS
<1>1. /\ pc = "read" /\ ~Making /\ sent = {} /\ resets = 0 /\ ~repeated
      /\ sentenceID = Saved /\ eeprom = BytesOf(Saved)
  BY DEF Init, Making, BytesOf
<1>2. Saved \in Numbers /\ MaxSent \in Nat /\ MaxResets \in Nat /\ ByteMod \in Nat
  BY WordIsLong
<1>3. IsFiniteSet(sent) /\ Cardinality(sent) = 0
  BY <1>1, FS_EmptySet
<1>4. NumberTypes
  BY <1>1, <1>2, <1>3 DEF NumberTypes
<1>5. Kept
  BY <1>1 DEF Kept, Making
<1>6. InBudget
  <2>1. Place(sentenceID) = 0 /\ Budget(0) = 0
    BY <1>1, <1>2, <1>3 DEF Place, Budget, Numbers
  <2> QED
    BY <1>1, <2>1 DEF InBudget
<1> QED
  BY <1>1, <1>4, <1>5, <1>6 DEF NumberInv

\* As long as the word of a number is enough for the packets and the resets, no
\* number is sent twice, wherever the resets fall, between the two bytes of the
\* number too.
THEOREM NumbersAreSentOnce == ASSUME Enough PROVE Spec => []NumbersNeverRepeat
<1>1. NumberInv => NumbersNeverRepeat
  BY DEF NumberInv, NumbersNeverRepeat
<1>2. IInv /\ NumberInv /\ [Next]_vars => NumberInv'
  BY NumberNext
<1> QED
  BY <1>1, <1>2, IInvInit, IInvNext, NumberInit, PTL DEF Spec

-----------------------------------------------------------------------------
(* What a tick inside transmit does to the packet *)

\* The i-th byte of a packet whose second one is at the place of that name:
\* the first may be any, if a tick fell into transmit.
Fits(byte, i, second) ==
    /\ i >= 2 => byte[2] = second + i - 2
    /\ i = 1 /\ ~raced => byte[2] = 1

\* The places where the second byte may be, and how many bytes there may be:
\* those of the packet, unless a tick fell into transmit.
Begins(second) == /\ torn \/ second \in {2, 3}
                  /\ raced \/ second = 2
Count(n)       == n = PacketLength \/ (raced /\ n = PacketLength - 1)

\* While the stores of transmit are under way each variable that it has stored
\* to has that value, or what the one tick has made of it.
Filling ==
    /\ air = <<>>
    /\ raced <=> ticked
    /\ active => "active" \notin pending
    /\ ~active => "active" \in pending \/ raced
    /\ bitIndex \in {0, FrameBits} \/ (raced /\ bitIndex = 1)
    /\ "bitIndex" \notin pending => bitIndex = 0 \/ (raced /\ bitIndex = 1)
    /\ "txShift" \notin pending => txShift[2] = 1 \/ raced
    /\ "txBuffer" \notin pending => txBuffer = 2 \/ (raced /\ txBuffer = 3)
    /\ "txBuffer" \in reread => txBuffer = 1 \/ (raced /\ txBuffer = 2)
    /\ "txLength" \notin pending =>
          txLength = PacketLength - 1 \/ (raced /\ txLength = PacketLength - 2)
    /\ "txLength" \in reread =>
          txLength = PacketLength \/ (raced /\ txLength = PacketLength - 1)

\* Then the bytes go out one after the other; so many have been loaded.
Loaded == Len(air) + (IF bitIndex = FrameBits THEN 0 ELSE 1)

SendingFrom(second) ==
    /\ Begins(second)
    /\ \A i \in 1 .. Len(air) : Fits(air[i], i, second)
    /\ Loaded >= 1 /\ Fits(txShift, Loaded, second)
    /\ txBuffer = second + Loaded - 1
    /\ txLength \in Nat /\ Count(Loaded + txLength)

Sending == \E second \in Int : SendingFrom(second)

\* Between two packets the air has had the last one.
SentFrom(second) ==
    /\ Begins(second)
    /\ \A i \in 1 .. Len(air) : Fits(air[i], i, second)
    /\ DOMAIN air = 1 .. Len(air) /\ Count(Len(air))

Sent == air # <<>> => \E second \in Int : SentFrom(second)

DamageInv ==
    /\ pc = "transmitting" => Filling
    /\ pc # "transmitting" /\ active => Sending
    /\ pc # "transmitting" /\ ~active => Sent

LEMMA LengthIs == PacketLength \in Nat /\ PacketLength >= 2
  BY ConstantsAssumption

\* A byte behind the others.
LEMMA FitsLater ==
    ASSUME NEW S, NEW a \in Seq(S), NEW x \in S, NEW second \in Int,
           \A i \in 1 .. Len(a) : Fits(a[i], i, second), Fits(x, Len(a) + 1, second)
    PROVE  \A i \in 1 .. Len(Append(a, x)) : Fits(Append(a, x)[i], i, second)
<1> DEFINE n == Len(a)
           b == Append(a, x)
<1>1. n \in Nat /\ Len(b) = n + 1
  BY AppendProperties, LenProperties
<1>2. \A i \in 1..n : b[i] = a[i]
  BY AppendProperties
<1>3. b[n + 1] = x
  BY AppendProperties
<1> SUFFICES ASSUME NEW i \in 1..(n + 1) PROVE Fits(b[i], i, second)
  BY <1>1
<1>4. CASE i = n + 1
  BY <1>3, <1>4
<1>5. CASE i # n + 1
  <2>1. i \in 1..n
    BY <1>1, <1>5
  <2> QED
    BY <1>2, <2>1
<1> QED
  BY <1>4, <1>5

\* The stores are done: the packet starts with the byte that is loaded, or it
\* was ended before it began.
LEMMA FilledSends ==
    ASSUME Types, Filling, StorePending
    PROVE  IF active' THEN Sending' ELSE Sent'
<1>1. /\ air' = <<>> /\ raced' = raced /\ torn' = (torn /\ ticked)
      /\ bitIndex' = IF "bitIndex" \in pending THEN 0 ELSE bitIndex
  BY DEF StorePending, Filling
<1>2. Len(air') = 0 /\ bitIndex' # FrameBits /\ Loaded' = 1
  BY <1>1, FrameIsLong DEF Filling, Loaded
<1>3. PacketLength \in Nat /\ PacketLength >= 2
  BY LengthIs
<1>4. txShift'[2] = 1 \/ raced'
  <2>1. CASE "txShift" \in pending
    <3>1. PICK p \in PointerRead : txShift' = <<packet, p>>
      BY <2>1 DEF StorePending
    <3>2. p = 1 \/ raced
      BY DEF PointerRead, Filling
    <3> QED BY <1>1, <3>1, <3>2
  <2>2. CASE "txShift" \notin pending
    BY <1>1, <2>2 DEF StorePending, Filling
  <2> QED BY <2>1, <2>2
<1>5. txBuffer' = 2 \/ (raced' /\ (txBuffer' = 3 \/ (torn' /\ txBuffer' \in Int)))
  <2>1. CASE "txBuffer" \in pending
    <3>1. PICK p \in PointerRead : txBuffer' = p + 1
      BY <2>1 DEF StorePending
    <3>2. CASE p = 1
      BY <3>1, <3>2
    <3>3. CASE "txBuffer" \in reread /\ p = txBuffer
      BY <1>1, <3>1, <3>3 DEF Filling
    <3>4. CASE torn /\ ticked /\ p \in Places
      <4>1. p \in Int
        BY <3>4, PlacesAreInt, Zenon
      <4>2. txBuffer' \in Int
        BY <3>1, <4>1, NextPlace, Zenon
      <4>3. raced' /\ torn'
        BY <1>1, <3>4, Zenon DEF Filling
      <4> QED BY <4>2, <4>3, Zenon
    <3> QED BY <3>2, <3>3, <3>4 DEF PointerRead
  <2>2. CASE "txBuffer" \notin pending
    BY <1>1, <2>2 DEF StorePending, Filling
  <2> QED BY <2>1, <2>2
<1>6. txLength' = PacketLength - 1 \/ (raced' /\ txLength' = PacketLength - 2)
  <2>1. CASE "txLength" \in pending
    <3>1. PICK n \in LengthRead : txLength' = n - 1
      BY <2>1 DEF StorePending
    <3>2. n = PacketLength \/ (raced /\ n = PacketLength - 1)
      BY DEF LengthRead, Filling
    <3> QED BY <1>1, <1>3, <3>1, <3>2
  <2>2. CASE "txLength" \notin pending
    BY <1>1, <2>2 DEF StorePending, Filling
  <2> QED BY <2>1, <2>2
<1>7. txBuffer' \in Int /\ SendingFrom(txBuffer)'
  <2>0. txBuffer' \in Int
    BY <1>5
  <2>1. Begins(txBuffer)'
    BY <1>5 DEF Begins
  <2>2. \A i \in 1 .. Len(air') : Fits(air[i], i, txBuffer)'
    BY <1>2
  <2>3. Loaded' >= 1 /\ Fits(txShift, Loaded, txBuffer)'
    BY <1>2, <1>4 DEF Fits
  <2>4. txBuffer' = txBuffer' + Loaded' - 1
    <3>1. Loaded' = 1
      BY <1>2
    <3>2. \A b \in Int : \A l : l = 1 => b = b + l - 1
      OBVIOUS
    <3> QED BY <2>0, <3>1, <3>2, Zenon
  <2>5. txLength' \in Nat /\ Count(Loaded + txLength)'
    BY <1>2, <1>3, <1>6 DEF Count
  <2> QED BY <2>0, <2>1, <2>2, <2>3, <2>4, <2>5 DEF SendingFrom
<1> QED
  BY <1>1, <1>7 DEF Sending, Sent

\* The one tick that falls into transmit.
LEMMA TickFills == ASSUME Types, Filling, Tick, pc = "transmitting" PROVE Filling'
<1>1. ~ticked /\ ~raced /\ ticked' /\ raced' /\ UNCHANGED <<pending, reread>>
  BY DEF Tick, Filling, InWindow
<1>2. CASE ~active /\ UNCHANGED <<sender, air>>
  BY <1>1, <1>2 DEF Filling, sender
<1>3. CASE active /\ bitIndex = FrameBits /\ ShiftNext
  <2>1. txBuffer' = txBuffer + 1 /\ txLength' = txLength - 1
        /\ bitIndex' = 1 /\ active' = active /\ air' = air
    BY <1>3 DEF ShiftNext
  <2> QED
    BY <1>1, <1>3, <2>1, LengthIs DEF Filling
<1>4. CASE active /\ bitIndex = FrameBits /\ EndPacket
  BY <1>1, <1>4 DEF Filling, EndPacket
<1>5. CASE active /\ bitIndex # FrameBits /\ ShiftBit
  <2>0. bitIndex = 0
    BY <1>1, <1>5 DEF Filling
  <2>1. bitIndex' = 1 /\ UNCHANGED <<active, txBuffer, txLength, txShift>>
    BY <1>5, <2>0 DEF ShiftBit
  <2>2. air' = air
    BY <1>5, <2>1, FrameIsLong DEF ShiftBit
  <2> QED
    BY <1>1, <2>1, <2>2 DEF Filling
<1> QED
  BY <1>2, <1>3, <1>4, <1>5 DEF Tick, TransmitterTick

\* A tick while the packet goes out.
LEMMA TickSends ==
    ASSUME AirIsNew, Types, Sending, active, pc # "transmitting", Tick
    PROVE  IF active' THEN Sending' ELSE Sent'
<1>1. (raced' <=> raced) /\ torn' = torn
  BY DEF Tick
<1>2. PICK second \in Int : SendingFrom(second)
  BY DEF Sending
<1>3. air \in Seq(OfPacket) /\ Len(air) \in Nat
  BY DEF AirIsNew
<1>4. bitIndex \in 0 .. FrameBits /\ FrameBits \in Nat /\ FrameBits >= 2
  BY FrameIsLong DEF Types
<1>5. Begins(second)' <=> Begins(second)
  BY <1>1 DEF Begins
<1>6. CASE bitIndex = FrameBits /\ MoreToSend /\ ShiftNext
  <2>1. txShift'[2] = txBuffer /\ txBuffer' = txBuffer + 1 /\ txLength' = txLength - 1
        /\ bitIndex' = 1 /\ active' = active /\ air' = air
    BY <1>6 DEF ShiftNext
  <2>2. Loaded = Len(air) /\ Loaded' = Len(air) + 1
    BY <1>3, <1>4, <1>6, <2>1 DEF Loaded
  <2>3. Fits(txShift, Loaded, second)'
    BY <1>1, <1>2, <1>3, <2>1, <2>2 DEF SendingFrom, Fits
  <2>4. txBuffer' = second + Loaded' - 1
    BY <1>2, <1>3, <2>1, <2>2 DEF SendingFrom
  <2>5. txLength' \in Nat /\ Loaded' + txLength' = Loaded + txLength /\ Loaded' >= 1
    BY <1>2, <1>3, <1>6, <2>1, <2>2 DEF SendingFrom, MoreToSend
  <2>6. Count(Loaded + txLength)'
    BY <1>1, <1>2, <2>5 DEF SendingFrom, Count
  <2>7. (\A i \in 1 .. Len(air) : Fits(air[i], i, second))'
    BY <1>1, <1>2, <2>1 DEF SendingFrom, Fits
  <2> QED
    BY <1>2, <1>5, <2>1, <2>3, <2>4, <2>5, <2>6, <2>7 DEF Sending, SendingFrom
<1>7. CASE bitIndex = FrameBits /\ ~MoreToSend /\ EndPacket
  <2>1. ~active' /\ air' = air /\ txLength = 0 /\ Loaded = Len(air)
    BY <1>2, <1>3, <1>7 DEF EndPacket, MoreToSend, SendingFrom, Loaded
  <2>2. Count(Len(air))' /\ (DOMAIN air = 1 .. Len(air))'
    BY <1>1, <1>2, <1>3, <2>1 DEF SendingFrom, Count
  <2>3. (\A i \in 1 .. Len(air) : Fits(air[i], i, second))'
    BY <1>1, <1>2, <2>1 DEF SendingFrom, Fits
  <2> QED
    BY <1>2, <1>5, <2>1, <2>2, <2>3 DEF SendingFrom, SentFrom, Sent
<1>8. CASE bitIndex # FrameBits /\ ShiftBit
  <2>1. bitIndex' = bitIndex + 1 /\ UNCHANGED <<active, txBuffer, txLength, txShift>>
    BY <1>8 DEF ShiftBit
  <2>2. Loaded = Len(air) + 1
    BY <1>8 DEF Loaded
  <2>3. Loaded' = Loaded /\ (\A i \in 1 .. Len(air) : Fits(air[i], i, second))'
    <3>1. CASE bitIndex' = FrameBits
      <4>1. air' = Append(air, txShift)
        BY <1>8, <3>1 DEF ShiftBit
      <4> DEFINE S == OfPacket \cup {txShift}
      <4>2. air \in Seq(S) /\ txShift \in S
        BY <1>3
      <4>3. Len(air') = Len(air) + 1
        BY <4>1, <4>2, AppendProperties
      <4>4. \A i \in 1 .. Len(Append(air, txShift)) : Fits(Append(air, txShift)[i], i, second)
        BY <1>2, <2>2, <4>2, FitsLater DEF SendingFrom
      <4> QED
        BY <1>1, <1>3, <2>2, <3>1, <4>1, <4>3, <4>4 DEF Loaded, Fits
    <3>2. CASE bitIndex' # FrameBits
      <4>1. air' = air
        BY <1>8, <3>2 DEF ShiftBit
      <4> QED
        BY <1>1, <1>2, <2>2, <3>2, <4>1 DEF Loaded, SendingFrom, Fits
    <3> QED
      BY <3>1, <3>2
  <2>4. Fits(txShift, Loaded, second)' /\ Count(Loaded + txLength)'
    BY <1>1, <1>2, <2>1, <2>3 DEF SendingFrom, Fits, Count
  <2> QED
    BY <1>2, <1>5, <2>1, <2>3, <2>4 DEF Sending, SendingFrom
<1> QED
  BY <1>6, <1>7, <1>8 DEF Tick, TransmitterTick

\* What neither sends nor fills leaves all of this as it is.
LEMMA SameDamage ==
    ASSUME DamageInv, pc # "transmitting", pc' # "transmitting",
           UNCHANGED <<sender, air, torn>>, raced' <=> raced
    PROVE  DamageInv'
<1>1. Sending => Sending'
  BY DEF Sending, SendingFrom, Begins, Fits, Count, Loaded, sender
<1>2. Sent => Sent'
  BY DEF Sent, SentFrom, Begins, Fits, Count
<1> QED
  BY <1>1, <1>2 DEF DamageInv, sender

\* The stores that come before the tick.
LEMMA TransmitFills == ASSUME IInv, Transmit PROVE Filling'
<1>1. PICK done \in SUBSET Stores :
          /\ pending' = Stores \ done
          /\ reread' \in SUBSET ({"txBuffer", "txLength"} \ done)
          /\ txBuffer' \in IF "txBuffer" \in done THEN {2}
                           ELSE IF "txBuffer" \in reread' THEN {1}
                           ELSE IF torn' THEN Places ELSE {txBuffer}
          /\ txLength' = IF "txLength" \in done THEN PacketLength - 1
                         ELSE IF "txLength" \in reread' THEN PacketLength ELSE txLength
          /\ active' = ("active" \in done)
          /\ txShift' = IF "txShift" \in done THEN <<packet, 1>> ELSE txShift
          /\ bitIndex' = IF "bitIndex" \in done THEN 0 ELSE bitIndex
  BY DEF Transmit
<1>2. air' = <<>> /\ raced' = FALSE /\ ticked' = ticked
  BY DEF Transmit
<1>3. ~ticked
  BY DEF IInv, Windows, InWindow, Transmit
<1>4. /\ "active" \in Stores /\ "bitIndex" \in Stores /\ "txShift" \in Stores
      /\ "txBuffer" \in Stores /\ "txLength" \in Stores
  BY DEF Stores
<1>5. active' => "active" \notin pending'
  BY <1>1
<1>6. ~active' => "active" \in pending'
  BY <1>1, <1>4
<1>7. "bitIndex" \notin pending' => bitIndex' = 0
  BY <1>1, <1>4
<1>11. bitIndex' \in {0, FrameBits}
  BY <1>1 DEF IInv, AtRest, Transmit
<1>8. "txShift" \notin pending' => txShift'[2] = 1
  BY <1>1, <1>4
<1>9. /\ "txBuffer" \notin pending' => txBuffer' = 2
      /\ "txBuffer" \in reread' => txBuffer' = 1
  BY <1>1, <1>4
<1>10. /\ "txLength" \notin pending' => txLength' = PacketLength - 1
       /\ "txLength" \in reread' => txLength' = PacketLength
  BY <1>1, <1>4
<1> QED
  BY <1>2, <1>3, <1>5, <1>6, <1>7, <1>8, <1>9, <1>10, <1>11 DEF Filling

LEMMA DamageNext == IInv /\ DamageInv /\ [Next]_vars => DamageInv'
<1> SUFFICES ASSUME IInv, DamageInv, [Next]_vars PROVE DamageInv'
  OBVIOUS
<1>1. CASE StorePending
  <2>1. pc = "transmitting" /\ pc' = "read"
    BY <1>1 DEF StorePending
  <2>2. IF active' THEN Sending' ELSE Sent'
    BY <1>1, <2>1, FilledSends DEF IInv, DamageInv
  <2> QED
    BY <2>1, <2>2 DEF DamageInv
<1>2. CASE Tick
  <2>1. pc' = pc
    BY <1>2 DEF Tick
  <2>2. CASE pc = "transmitting"
    BY <1>2, <2>1, <2>2, TickFills DEF DamageInv, IInv
  <2>3. CASE pc # "transmitting" /\ active
    <3>1. IF active' THEN Sending' ELSE Sent'
      BY <1>2, <2>3, TickSends DEF DamageInv, IInv
    <3> QED
      BY <2>1, <2>3, <3>1 DEF DamageInv
  <2>4. CASE pc # "transmitting" /\ ~active
    <3>1. UNCHANGED <<sender, air, torn>> /\ (raced' <=> raced)
      BY <1>2, <2>4 DEF Tick, TransmitterTick
    <3> QED
      BY <2>1, <2>4, <3>1, SameDamage
  <2> QED
    BY <2>2, <2>3, <2>4
<1>3. CASE Reset
  <2>1. pc' = "read" /\ active' = FALSE /\ air' = <<>>
    BY <1>3 DEF Reset, Boot
  <2> QED
    BY <2>1 DEF DamageInv, Sent
<1>4. CASE Transmit
  <2>1. pc' = "transmitting"
    BY <1>4 DEF Transmit
  <2> QED
    BY <1>4, <2>1, TransmitFills DEF DamageInv
<1>5. CASE ReadSeconds \/ Measure \/ StayBusy \/ MakePacket \/ SaveFirst \/ SaveSecond
  <2>1. /\ UNCHANGED <<sender, raced, torn, air>>
        /\ pc # "transmitting" /\ pc' # "transmitting"
    BY <1>5 DEF ReadSeconds, Measure, StayBusy, MakePacket, SaveFirst, SaveSecond,
                window
  <2> QED
    BY <2>1, SameDamage
<1>6. CASE UNCHANGED vars
  <2>1. UNCHANGED <<pc, sender, pending, reread, torn, raced, ticked, air>>
    BY <1>6 DEF vars, window
  <2>2. CASE pc = "transmitting"
    BY <2>1, <2>2 DEF DamageInv, Filling, sender
  <2> QED
    BY <2>1, <2>2, SameDamage
<1> QED
  BY <1>1, <1>2, <1>3, <1>4, <1>5, <1>6 DEF Next, Loop

LEMMA DamageIs == IInv /\ DamageInv => DamageBounded
<1> SUFFICES ASSUME IInv, DamageInv, PacketOver, air # <<>> PROVE DamageBounded
  BY DEF DamageBounded
<1>1. PICK second \in Int : SentFrom(second)
  BY DEF DamageInv, PacketOver, Sent
<1> DEFINE place == [i \in DOMAIN air |-> air[i][2]]
<1>2. DOMAIN air = 1 .. Len(air)
  BY <1>1 DEF SentFrom
<1>5. Len(air) \in {PacketLength - 1, PacketLength}
  BY <1>1 DEF SentFrom, Count
<1>6. Len(air) \in Nat
  BY <1>5, LengthIs
<1>3. CASE raced
  <2>1. ASSUME NEW i \in 2 .. Len(air) PROVE place[i] = second + i - 2
    <3>1. i \in 1 .. Len(air) /\ i >= 2
      BY <1>6
    <3>2. place[i] = air[i][2]
      BY <1>2, <3>1
    <3> QED
      BY <1>1, <3>1, <3>2 DEF SentFrom, Fits
  <2>2. \A i \in 3 .. Len(air) : place[i] = place[i - 1] + 1
    <3> TAKE i \in 3 .. Len(air)
    <3>1. i \in 2 .. Len(air) /\ i - 1 \in 2 .. Len(air)
      BY <1>6
    <3>2. place[i] = second + i - 2 /\ place[i - 1] = second + (i - 1) - 2
      BY <2>1, <3>1
    <3> QED
      BY <3>1, <3>2
  <2>3. torn \/ Len(air) = 1 \/ place[2] \in {2, 3}
    <3>1. Len(air) = 1 \/ 2 \in 2 .. Len(air)
      BY <1>5, <1>6, LengthIs
    <3>2. 2 \in 2 .. Len(air) => place[2] = second
      <4>1. 2 \in 2 .. Len(air) => place[2] = second + 2 - 2
        BY <2>1, Zenon
      <4>2. second + 2 - 2 = second
        OBVIOUS
      <4> QED BY <4>1, <4>2, Zenon
    <3> QED
      BY <1>1, <3>1, <3>2 DEF SentFrom, Begins
  <2> QED
    BY <1>3, <1>5, <2>2, <2>3 DEF DamageBounded
<1>4. CASE ~raced
  <2>1. Len(air) = PacketLength /\ second = 2
    BY <1>1, <1>4 DEF SentFrom, Count, Begins
  <2>2. \A i \in 1 .. Len(air) : air[i][2] = i
    BY <1>1, <1>4, <2>1, LengthIs DEF SentFrom, Fits
  <2>3. place = [i \in 1 .. PacketLength |-> i]
    BY <1>2, <2>1, <2>2
  <2> QED
    BY <2>3 DEF DamageBounded
<1> QED
  BY <1>3, <1>4

\* A packet goes out whole and in order, for every length of packets and
\* frames.  With a tick in the middle of transmit, in whatever order its byte
\* stores come and whatever they have in registers, it may be lost; if it is
\* not, it lacks one byte at most, any but its first byte come from consecutive
\* places, and they are its own but for one more behind it, unless the tick
\* parted the bytes of the pointer (FSKTransmitter.hh, transmit and tick).
THEOREM PacketsAreNearlyWhole == Spec => []DamageBounded
<1>1. Init => DamageInv
  BY DEF Init, DamageInv, Sent
<1> QED
  BY <1>1, IInvInit, IInvNext, DamageNext, DamageIs, PTL DEF Spec
=============================================================================
