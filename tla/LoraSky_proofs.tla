--------------------------- MODULE LoraSky_proofs ---------------------------
(***************************************************************************)
(* Proofs about LoraSky, for every value of the automatic offs, of the     *)
(* watchdog and of the other times: no switch is on for longer than its    *)
(* time and one period of the watchdog; the bits of the telemetry tell the *)
(* pins; and message numbers repeat only after a reset that excuses it.    *)
(***************************************************************************)
EXTENDS LoraSky, FiniteSetTheorems, TLAPS

\* The part of the types that the argument about time rests on.
TimeTypes ==
    /\ phase \in {"gps", "lora", "loop"}
    /\ fed \in 0..Watchdog
    /\ pin \in [Switches -> {0, 1}]
    /\ left \in [Switches -> Int]
    /\ since \in [Switches -> Nat]

\* Until the loop runs no pin is driven: feeding the watchdog in lora_setup
\* would otherwise take the argument away.
QuietInSetup == phase # "loop" => \A s \in Switches : pin[s] = 0

\* While the time of a switch runs, what has passed and what is left add up to
\* it.  Afterwards it has been over for no longer than the watchdog was not
\* fed, since the sentence that feeds it also turns the switch off.
TimeKept ==
    \A s \in Switches : Timed(s) /\ pin[s] = 1 =>
        /\ since[s] <= AutoOff[s] + fed
        /\ left[s] >= 0 => since[s] + left[s] = AutoOff[s]

IInv == TimeTypes /\ QuietInSetup /\ TimeKept

LEMMA IInvInit == Init => IInv
  BY ConstantsAssumption DEF Init, IInv, TimeTypes, QuietInSetup, TimeKept, Switches

\* A reset leaves no pin on.
LEMMA BootKeeps == ASSUME Boot PROVE IInv'
  BY ConstantsAssumption DEF Boot, IInv, TimeTypes, QuietInSetup, TimeKept, Switches

LEMMA SentenceKeeps == ASSUME IInv, Sentence PROVE IInv'
<1> DEFINE asked == {s \in {4} : Release(fixValid', high')}
           off   == {s \in Switches \ asked : Expired(s)}
<1>1. /\ phase = "loop" /\ phase' = phase /\ fed' = 0
      /\ pin' = [s \in Switches |-> IF s \in asked THEN 1
                                    ELSE IF s \in off THEN 0 ELSE pin[s]]
      /\ left' = [s \in Switches |-> IF s \in asked THEN AutoOff[s] ELSE left[s]]
      /\ since' = [s \in Switches |-> IF s \in asked \cup off THEN 0 ELSE since[s]]
  BY DEF Sentence, Running, setup
<1> HIDE DEF asked, off
<1>2. TimeTypes'
  BY <1>1, ConstantsAssumption DEF IInv, TimeTypes
<1>3. QuietInSetup'
  BY <1>1 DEF QuietInSetup
<1>4. TimeKept'
  <2> SUFFICES ASSUME NEW s \in Switches, Timed(s), pin'[s] = 1
               PROVE  /\ since'[s] <= AutoOff[s] + fed'
                      /\ left'[s] >= 0 => since'[s] + left'[s] = AutoOff[s]
    BY DEF TimeKept, Timed
  <2>1. AutoOff[s] \in Int /\ AutoOff[s] > 0 /\ left[s] \in Int /\ since[s] \in Nat
    BY ConstantsAssumption DEF Timed, IInv, TimeTypes
  <2>2. CASE s \in asked
    BY <1>1, <2>1, <2>2
  <2>3. CASE s \notin asked
    <3>1. s \notin off
      BY <1>1, <2>3
    <3>2. left[s] >= 0
      BY <2>1, <2>3, <3>1 DEF off, Expired
    <3>3. since[s] + left[s] = AutoOff[s]
      BY <1>1, <2>3, <3>1, <3>2 DEF IInv, TimeKept
    <3> QED
      BY <1>1, <2>1, <2>3, <3>1, <3>2, <3>3
  <2> QED
    BY <2>2, <2>3
<1> QED
  BY <1>2, <1>3, <1>4 DEF IInv

LEMMA HearOnKeeps == ASSUME IInv, NEW c \in Buttons, HearOn(c) PROVE IInv'
<1> DEFINE s == TurnsOn[c]
<1>1. s \in Switches
  <2>1. c \in {1, 2, 3, 5}
    BY DEF HearOn, TurnsOn
  <2> QED
    BY <2>1 DEF TurnsOn, Switches
<1>2. /\ phase = "loop" /\ phase' = phase /\ fed' = fed
      /\ pin' = [pin EXCEPT ![s] = 1]
      /\ left' = [left EXCEPT ![s] = IF Timed(s) THEN AutoOff[s] ELSE -1]
      /\ since' = [since EXCEPT ![s] = 0]
  BY DEF HearOn, Running, setup
<1> HIDE DEF s
<1>3. AutoOff[s] \in Int
  BY <1>1, ConstantsAssumption
<1> QED
  BY <1>1, <1>2, <1>3 DEF IInv, TimeTypes, QuietInSetup, TimeKept, Timed

LEMMA HearOffKeeps == ASSUME IInv, NEW c \in Buttons, HearOff(c) PROVE IInv'
<1> DEFINE s == TurnsOff[c]
<1>1. s \in Switches
  <2>1. c \in {4, 6}
    BY DEF HearOff, TurnsOff
  <2> QED
    BY <2>1 DEF TurnsOff, Switches
<1>2. /\ phase = "loop" /\ phase' = phase /\ fed' = fed /\ left' = left
      /\ pin' = [pin EXCEPT ![s] = 0]
      /\ since' = [since EXCEPT ![s] = 0]
  BY DEF HearOff, Running, setup
<1> HIDE DEF s
<1> QED
  BY <1>1, <1>2 DEF IInv, TimeTypes, QuietInSetup, TimeKept, Timed

LEMMA TickKeeps == ASSUME IInv, Tick PROVE IInv'
<1>1. /\ fed \in Nat /\ fed' = fed + 1 /\ fed' \in 0..Watchdog
      /\ phase' = phase /\ pin' = pin
  BY ConstantsAssumption DEF Tick, IInv, TimeTypes
<1>2. TimeTypes'
  BY <1>1 DEF Tick, IInv, TimeTypes
<1>3. QuietInSetup'
  BY <1>1 DEF IInv, QuietInSetup
<1>4. TimeKept'
  BY <1>1, ConstantsAssumption DEF Tick, IInv, TimeTypes, TimeKept, Timed
<1> QED
  BY <1>2, <1>3, <1>4 DEF IInv

\* Steps that leave the switches and the watchdog alone.
LEMMA IdleKeeps ==
    ASSUME IInv, UNCHANGED <<fed, switches>>, phase' \in {phase, "lora", "loop"},
           phase = "loop" => phase' = "loop"
    PROVE  IInv'
  BY DEF IInv, TimeTypes, QuietInSetup, TimeKept, Timed, switches

\* lora_setup feeds the watchdog, but the loop does not run yet.
LEMMA LoraTryKeeps == ASSUME IInv, LoraTry PROVE IInv'
  BY ConstantsAssumption DEF LoraTry, IInv, TimeTypes, QuietInSetup, TimeKept, Timed, switches

LEMMA IInvNext == IInv /\ [Next]_vars => IInv'
<1> SUFFICES ASSUME IInv, [Next]_vars PROVE IInv'
  OBVIOUS
<1>1. CASE Reset
  BY <1>1, BootKeeps DEF Reset
<1>2. CASE WatchdogResets
  BY <1>2, BootKeeps DEF WatchdogResets
<1>3. CASE GpsAcknowledges
  BY <1>3, IdleKeeps DEF GpsAcknowledges
<1>4. CASE LoraTry
  BY <1>4, LoraTryKeeps
<1>5. CASE Sentence
  BY <1>5, SentenceKeeps
<1>6. CASE \E c \in Buttons : HearOn(c) \/ HearOff(c)
  BY <1>6, HearOnKeeps, HearOffKeeps
<1>7. CASE Transmit
  BY <1>7, IdleKeeps DEF Transmit, setup
<1>8. CASE TransmitTorn
  BY <1>8, BootKeeps DEF TransmitTorn
<1>9. CASE TransmitDone
  BY <1>9, IdleKeeps DEF TransmitDone, setup
<1>10. CASE Tick
  BY <1>10, TickKeeps
<1>11. CASE UNCHANGED vars
  BY <1>11, IdleKeeps DEF vars, setup
<1> QED
  BY <1>1, <1>2, <1>3, <1>4, <1>5, <1>6, <1>7, <1>8, <1>9, <1>10, <1>11 DEF Next

\* Every switch goes off in time, for all times and however sentences, commands
\* and resets fall.
THEOREM SwitchesAreBounded == Spec => []SwitchBounded
<1>1. IInv => SwitchBounded
  BY ConstantsAssumption DEF IInv, TimeTypes, TimeKept, SwitchBounded, Timed
<1> QED
  BY <1>1, IInvInit, IInvNext, PTL DEF Spec

-----------------------------------------------------------------------------
(* The bits of the telemetry *)

\* What a reset leaves: no pin and no bit.
LEMMA BootClears == ASSUME Boot PROVE BitsTellPins'
  BY DEF Boot, BitsTellPins

LEMMA SentenceTells == ASSUME IInv, BitsTellPins, Sentence PROVE BitsTellPins'
<1> DEFINE asked == {s \in {4} : Release(fixValid', high')}
           off   == {s \in Switches \ asked : Expired(s)}
<1>1. /\ pin' = [s \in Switches |-> IF s \in asked THEN 1
                                    ELSE IF s \in off THEN 0 ELSE pin[s]]
      /\ switch_state' = (switch_state \cup asked) \ (off \cap Reported)
  BY DEF Sentence
<1>2. asked \subseteq {4} /\ off \cap asked = {}
  OBVIOUS
<1> HIDE DEF asked, off
<1>3. \A s \in Switches : pin'[s] = 1 => s \in switch_state'
  BY <1>1, <1>2 DEF BitsTellPins
<1>4. \A s \in {1, 2} : s \in switch_state' => pin'[s] = 1
  BY <1>1, <1>2 DEF BitsTellPins, Reported, Switches
<1> QED
  BY <1>3, <1>4 DEF BitsTellPins

LEMMA HearOnTells ==
    ASSUME IInv, BitsTellPins, NEW c \in Buttons, HearOn(c) PROVE BitsTellPins'
<1>1. PICK s \in Switches : /\ pin' = [pin EXCEPT ![s] = 1]
                            /\ switch_state' = switch_state \cup {s}
  <2>1. c \in {1, 2, 3, 5}
    BY DEF HearOn, TurnsOn
  <2>2. TurnsOn[c] \in Switches
    BY <2>1 DEF TurnsOn, Switches
  <2> QED
    BY <2>2 DEF HearOn
<1> QED
  BY <1>1 DEF BitsTellPins, IInv, TimeTypes, Switches

\* Only the camera and the auxiliary can be turned off.
LEMMA HearOffTells ==
    ASSUME IInv, BitsTellPins, NEW c \in Buttons, HearOff(c) PROVE BitsTellPins'
<1>1. PICK s \in Switches : /\ pin' = [pin EXCEPT ![s] = 0]
                            /\ switch_state' = switch_state \ {s}
  <2>1. c \in {4, 6}
    BY DEF HearOff, TurnsOff
  <2>2. TurnsOff[c] \in Switches
    BY <2>1 DEF TurnsOff, Switches
  <2> QED
    BY <2>2 DEF HearOff
<1> QED
  BY <1>1 DEF BitsTellPins, IInv, TimeTypes, Switches

LEMMA TellsNext == IInv /\ BitsTellPins /\ [Next]_vars => BitsTellPins'
<1> SUFFICES ASSUME IInv, BitsTellPins, [Next]_vars PROVE BitsTellPins'
  OBVIOUS
<1>1. CASE Boot
  BY <1>1, BootClears
<1>2. CASE UNCHANGED <<pin, switch_state>>
  BY <1>2 DEF BitsTellPins
<1>3. CASE Sentence
  BY <1>3, SentenceTells
<1>4. CASE \E c \in Buttons : HearOn(c) \/ HearOff(c)
  BY <1>4, HearOnTells, HearOffTells
<1>5. GpsAcknowledges \/ LoraTry \/ Transmit \/ TransmitDone \/ Tick \/ UNCHANGED vars
      => UNCHANGED <<pin, switch_state>>
  BY DEF GpsAcknowledges, LoraTry, Transmit, TransmitDone, Tick, vars, switches
<1>6. Reset \/ WatchdogResets \/ TransmitTorn => Boot
  BY DEF Reset, WatchdogResets, TransmitTorn
<1> QED
  BY <1>1, <1>2, <1>3, <1>4, <1>5, <1>6 DEF Next

\* What a telemetry message says of the switches is true of the pins, although
\* commands, the sentences that turn switches off and resets come at any time.
THEOREM TelemetryTellsPins == Spec => []BitsTellPins
<1>1. Init => BitsTellPins
  BY DEF Init, BitsTellPins
<1> QED
  BY <1>1, IInvInit, IInvNext, TellsNext, PTL DEF Spec

-----------------------------------------------------------------------------
(* The numbers of the messages *)

Numbers == 0 .. NumberMod - 1

\* A number is no further on than this: a session that saves uses up at most
\* as many numbers unsent as it sends.
Reach == 2 * Cardinality(sent) + 2 * SaveStep

\* The EEPROM holds a number, and the one that a session starts from after it
\* has not been reached.
SavedUpTo(e) ==
    /\ e \in Numbers /\ eeprom = Bytes(e)
    /\ e % SaveStep = 0
    /\ e + SaveStep <= Reach
    /\ \A n \in sent : n < e + SaveStep

\* While a session has sent nothing: the EEPROM is as it was found.
Silent == session = "silent" =>
    \/ eeprom = <<>> /\ sent = {} /\ phase # "loop"
    \/ eeprom = Bytes(NumberMod - 1) /\ sent = {}
    \/ \E e \in Numbers : SavedUpTo(e)

\* The numbers of a session lie between two that are saved, and the one before
\* them is saved if the session has saved one.
SessionFrom(b) ==
    /\ b % SaveStep = 0
    /\ msg_id \in Nat /\ b <= msg_id /\ msg_id < b + SaveStep
    /\ 2 * msg_id - b <= Reach
    /\ \A n \in sent : n < msg_id
    /\ session = "saved" => eeprom = Bytes(b) /\ 2 * msg_id - b + SaveStep <= Reach

InLoop == phase = "loop" => \E b \in Numbers : SessionFrom(b)

NumberTypes ==
    /\ session \in {"silent", "unsaved", "saved"}
    /\ phase # "loop" => session = "silent"
    /\ IsFiniteSet(sent) /\ sent \subseteq Nat
    /\ Cardinality(sent) <= MaxSent

NumberInv == ~excused => NumberTypes /\ Silent /\ InLoop /\ ~repeated

\* The numbers do not go round.
Enough == 2 * MaxSent + 2 * SaveStep < NumberMod

LEMMA NumbersAre ==
    /\ SaveStep \in Nat \ {0} /\ ByteMod \in Nat \ {0} /\ MaxSent \in Nat
    /\ NumberMod \in Nat \ {0} /\ NumberMod = ByteMod * ByteMod
  BY ConstantsAssumption DEF NumberMod

LEMMA ReachIs ==
    ASSUME IsFiniteSet(sent)
    PROVE  Cardinality(sent) \in Nat /\ Reach \in Nat
<1>1. Cardinality(sent) \in Nat
  BY FS_CardinalityType
<1> QED
  BY <1>1, NumbersAre DEF Reach

\* What the EEPROM gives back.
LEMMA NumberOfBytes == ASSUME NEW n \in Nat PROVE Number(Bytes(n)) = n
  BY NumbersAre DEF Number, Bytes

\* Blank bytes are the last number.
LEMMA ErasedIs == Erased = Bytes(NumberMod - 1)
<1>1. ByteMod \in Nat \ {0} /\ NumberMod = ByteMod * ByteMod /\ NumberMod - 1 \in Nat
  BY NumbersAre
<1> DEFINE w == NumberMod - 1
           l == w % ByteMod
           h == w \div ByteMod
<1>2. /\ l \in 0 .. ByteMod - 1 /\ h \in Nat /\ l + ByteMod * h = w
  BY <1>1
<1>3. (ByteMod - 1) + ByteMod * (ByteMod - 1) = w
  BY <1>1
<1> HIDE DEF w, l, h
<1>4. CASE h = ByteMod - 1
  BY <1>1, <1>2, <1>3, <1>4 DEF Erased, Bytes, w, l, h
<1>5. CASE h < ByteMod - 1
  <2>1. ByteMod * (ByteMod - 1 - h) >= ByteMod
    BY <1>1, <1>2, <1>5
  <2> QED
    BY <1>1, <1>2, <1>3, <2>1
<1>6. CASE h > ByteMod - 1
  <2>1. ByteMod * (h - (ByteMod - 1)) >= ByteMod
    BY <1>1, <1>2, <1>6
  <2> QED
    BY <1>1, <1>2, <1>3, <2>1
<1> QED
  BY <1>1, <1>2, <1>4, <1>5, <1>6

\* The next number that is saved after one that is.
LEMMA NextSaved ==
    ASSUME NEW b \in Nat, b % SaveStep = 0
    PROVE  /\ (b + SaveStep) % SaveStep = 0
           /\ \A m \in Nat : b < m /\ m < b + SaveStep => m % SaveStep # 0
<1> DEFINE s == SaveStep
<1>1. s \in Nat \ {0} /\ b % s = 0
  BY NumbersAre
<1> HIDE DEF s
<1>2. PICK q \in Nat : b = s * q
  <2>1. b \div s \in Nat /\ b = (b % s) + s * (b \div s)
    BY <1>1
  <2>2. b = s * (b \div s)
    BY <1>1, <2>1
  <2> QED
    BY <2>1, <2>2
<1>3. (b + s) % s = 0
  <2>1. q + 1 \in Nat /\ b + s = s * (q + 1)
    BY <1>1, <1>2
  <2>2. (s * (q + 1)) % s = 0
    BY <1>1, <2>1
  <2> QED
    BY <2>1, <2>2
<1>4. ASSUME NEW m \in Nat, b < m, m < b + s, m % s = 0 PROVE FALSE
  <2>1. PICK p \in Nat : m = s * p
    <3>1. m \div s \in Nat /\ m = (m % s) + s * (m \div s)
      BY <1>1
    <3>2. m = s * (m \div s)
      BY <1>1, <1>4, <3>1
    <3> QED
      BY <3>1, <3>2
  <2>2. CASE p <= q
    <3>1. s * (q - p) >= 0
      BY <1>1, <2>2
    <3> QED
      BY <1>1, <1>2, <1>4, <2>1, <3>1
  <2>3. CASE p > q
    <3>1. s * (p - q - 1) >= 0
      BY <1>1, <2>3
    <3> QED
      BY <1>1, <1>2, <1>4, <2>1, <3>1
  <2> QED
    BY <2>2, <2>3
<1> QED
  BY <1>3, <1>4 DEF s

\* Steps that neither send, save nor restore.
LEMMA SameNumbers ==
    ASSUME NumberInv, UNCHANGED numbers,
           phase' = phase \/ (phase # "loop" /\ phase' # "loop")
    PROVE  NumberInv'
<1> SUFFICES ASSUME ~excused PROVE (NumberTypes /\ Silent /\ InLoop /\ ~repeated)'
  BY DEF NumberInv, numbers
<1>1. UNCHANGED <<msg_id, eeprom, sent, repeated, session, excused>>
  BY DEF numbers
<1>2. NumberTypes' /\ ~repeated'
  BY <1>1 DEF NumberInv, NumberTypes
<1>3. Silent'
  BY <1>1 DEF NumberInv, Silent, SavedUpTo, Reach
<1>4. InLoop'
  BY <1>1 DEF NumberInv, InLoop, SessionFrom, Reach
<1> QED
  BY <1>2, <1>3, <1>4

\* What is in the EEPROM of a session that has saved is good after a reset.
LEMMA SavedIsGood ==
    ASSUME NumberTypes, InLoop, session = "saved"
    PROVE  \E e \in Numbers : SavedUpTo(e)
<1>1. PICK b \in Numbers : SessionFrom(b)
  BY DEF NumberTypes, InLoop
<1>2. /\ b \in Int /\ msg_id \in Int /\ SaveStep \in Nat /\ Reach \in Int
  BY <1>1, NumbersAre, ReachIs DEF SessionFrom, NumberTypes, Numbers
<1>3. b + SaveStep <= Reach /\ \A n \in sent : n < b + SaveStep
  BY <1>1, <1>2 DEF SessionFrom, NumberTypes
<1>4. SavedUpTo(b)
  BY <1>1, <1>3 DEF SessionFrom, SavedUpTo
<1> QED
  BY <1>4

\* A reset between two passes of the loop.
LEMMA RestartKeeps ==
    ASSUME NumberInv, Boot, UNCHANGED <<eeprom, sent, repeated>>,
           excused' = (excused \/ session = "unsaved")
    PROVE  NumberInv'
<1> SUFFICES ASSUME ~excused, session # "unsaved"
             PROVE  (NumberTypes /\ Silent /\ InLoop /\ ~repeated)'
  BY DEF NumberInv
<1>1. phase' = "gps" /\ session' = "silent"
  BY DEF Boot
<1>2. NumberTypes' /\ InLoop' /\ ~repeated'
  BY <1>1 DEF NumberInv, NumberTypes, InLoop
<1>3. \/ eeprom = <<>> /\ sent = {}
      \/ eeprom = Bytes(NumberMod - 1) /\ sent = {}
      \/ \E e \in Numbers : SavedUpTo(e)
  BY SavedIsGood DEF NumberInv, NumberTypes, Silent
<1>4. Silent'
  BY <1>1, <1>3 DEF Silent, SavedUpTo, Reach
<1> QED
  BY <1>2, <1>4

LEMMA BytesAreThere == ASSUME NEW n PROVE Bytes(n) # <<>>
  BY DEF Bytes

\* The session starts: from 1, from behind the blank bytes, or from behind the
\* number that was saved.
LEMMA RestoreKeeps == ASSUME Enough, NumberInv, LoraTry, phase' = "loop" PROVE NumberInv'
<1> SUFFICES ASSUME ~excused PROVE (NumberTypes /\ Silent /\ InLoop /\ ~repeated)'
  BY DEF NumberInv, LoraTry
<1>1. /\ phase = "lora" /\ msg_id' = Restored
      /\ eeprom' = IF eeprom # <<>> THEN eeprom
                   ELSE IF 1 % SaveStep = 0 THEN Bytes(1) ELSE Erased
      /\ UNCHANGED <<sent, repeated, session>>
  BY DEF LoraTry
<1>2. /\ NumberTypes /\ Silent /\ ~repeated /\ session = "silent"
  BY <1>1 DEF NumberInv, NumberTypes
<1>3. /\ SaveStep \in Nat \ {0} /\ MaxSent \in Nat /\ NumberMod \in Nat
      /\ Cardinality(sent) \in Nat /\ Reach \in Nat /\ Reach < NumberMod
  <2>1. Cardinality(sent) \in Nat /\ Reach \in Nat /\ Cardinality(sent) <= MaxSent
    BY <1>2, ReachIs DEF NumberTypes
  <2> QED
    BY <2>1, NumbersAre DEF Enough, Reach
<1>4. NumberTypes' /\ ~repeated' /\ Reach' = Reach /\ session' = "silent"
  BY <1>1, <1>2 DEF NumberTypes, Reach
\* A session that may begin with this number.
<1>5. ASSUME NEW b \in Numbers, b % SaveStep = 0, msg_id' \in Nat, b <= msg_id',
             msg_id' < b + SaveStep, 2 * msg_id' - b <= Reach,
             \A n \in sent : n < msg_id'
      PROVE  InLoop'
  BY <1>1, <1>4, <1>5 DEF InLoop, SessionFrom, Numbers
<1>6. 0 % SaveStep = 0 /\ 0 \in Numbers
  BY <1>3 DEF Numbers
<1>7. sent = {} => Reach = 2 * SaveStep
  BY <1>3, FS_EmptySet DEF Reach
<1>8. CASE eeprom = <<>>
  <2>1. sent = {} /\ msg_id' = 1
    BY <1>1, <1>2, <1>8, BytesAreThere DEF Silent, SavedUpTo, Restored
  <2>2. CASE SaveStep = 1
    <3>1. 1 % SaveStep = 0 /\ 1 \in Numbers
      BY <1>3, <1>7, <2>1, <2>2 DEF Numbers
    <3>2. InLoop'
      <4>1. /\ 1 \in Numbers /\ 1 % SaveStep = 0 /\ msg_id' \in Nat /\ 1 <= msg_id'
            /\ msg_id' < 1 + SaveStep /\ 2 * msg_id' - 1 <= Reach
        BY <1>7, <2>1, <2>2, <3>1
      <4>2. \A n \in sent : n < msg_id'
        BY <2>1
      <4> QED
        BY <1>5, <4>1, <4>2
    <3>3. Silent'
      <4>1. eeprom' = Bytes(1)
        BY <1>1, <1>8, <3>1
      <4>2. 1 \in Numbers' /\ eeprom' = Bytes(1)' /\ (1 % SaveStep)' = 0 /\ 1 + SaveStep <= Reach'
            /\ \A n \in sent' : n < 1 + SaveStep
        BY <1>1, <1>4, <1>7, <2>1, <2>2, <3>1, <4>1 DEF Numbers
      <4>3. SavedUpTo(1)'
        BY <4>2 DEF SavedUpTo
      <4> QED
        BY <3>1, <4>3 DEF Silent, Numbers
    <3> QED
      BY <1>4, <3>2, <3>3
  <2>3. CASE SaveStep # 1
    <3>1. 1 % SaveStep # 0 /\ 1 < SaveStep
      BY <1>3, <2>3
    <3>2. InLoop'
      BY <1>3, <1>5, <1>6, <1>7, <2>1, <3>1
    <3>3. Silent'
      BY <1>1, <1>4, <1>8, <2>1, <3>1, ErasedIs DEF Silent
    <3> QED
      BY <1>4, <3>2, <3>3
  <2> QED
    BY <2>2, <2>3
<1>9. CASE eeprom # <<>>
  <2>1. eeprom' = eeprom /\ msg_id' = (Number(eeprom) + SaveStep) % NumberMod
    BY <1>1, <1>9 DEF Restored
  <2>2. Silent'
    BY <1>1, <1>2, <1>4, <1>9, <2>1 DEF Silent, SavedUpTo
  <2>3. CASE eeprom = Bytes(NumberMod - 1) /\ sent = {}
    <3>1. Number(eeprom) = NumberMod - 1
      BY <1>3, <2>3, NumbersAre, NumberOfBytes
    <3>2. (NumberMod - 1 + SaveStep) % NumberMod = SaveStep - 1
      <4>1. SaveStep - 1 \in Nat /\ SaveStep - 1 < NumberMod
        BY <1>3, <1>7, <2>3
      <4>2. NumberMod - 1 + SaveStep = (SaveStep - 1) + NumberMod
        BY <1>3
      <4> QED
        BY <4>1, <4>2, <1>3
    <3>3. msg_id' = SaveStep - 1
      BY <2>1, <3>1, <3>2
    <3>4. InLoop'
      BY <1>3, <1>5, <1>6, <1>7, <2>3, <3>3
    <3> QED
      BY <1>4, <2>2, <3>4
  <2>4. CASE \E e \in Numbers : SavedUpTo(e)
    <3>1. PICK e \in Numbers : SavedUpTo(e)
      BY <2>4
    <3>2. e \in Nat /\ Number(eeprom) = e /\ e + SaveStep \in 0 .. NumberMod - 1
      BY <1>3, <3>1, NumberOfBytes DEF SavedUpTo, Numbers
    <3>3. msg_id' = e + SaveStep
      BY <1>3, <2>1, <3>2
    <3>4. (e + SaveStep) % SaveStep = 0
      BY <3>1, <3>2, NextSaved DEF SavedUpTo
    <3>5. InLoop'
      <4> DEFINE b == e + SaveStep
      <4>1. b \in Numbers /\ b % SaveStep = 0 /\ b <= Reach /\ \A n \in sent : n < b
        BY <3>1, <3>2, <3>4 DEF SavedUpTo, Numbers
      <4>2. msg_id' = b /\ b \in Nat
        BY <3>3, <4>1 DEF Numbers
      <4> HIDE DEF b
      <4>3. msg_id' \in Nat /\ b <= msg_id' /\ msg_id' < b + SaveStep
        BY <1>3, <4>2
      <4>4. 2 * msg_id' - b <= Reach
        BY <1>3, <4>1, <4>2
      <4> QED
        BY <1>5, <4>1, <4>2, <4>3, <4>4
    <3> QED
      BY <1>4, <2>2, <3>5
  <2> QED
    BY <1>2, <1>9, <2>3, <2>4 DEF Silent
<1> QED
  BY <1>8, <1>9

\* What sending a number means for the history.
LEMMA SendingIs ==
    ASSUME Enough, NumberTypes, ~repeated, Sends, NEW b \in Numbers, SessionFrom(b)
    PROVE  /\ b \in Nat /\ msg_id \in Nat /\ SaveStep \in Nat \ {0}
           /\ Reach \in Nat /\ Reach' = Reach + 2
           /\ NextNumber = msg_id + 1 /\ msg_id + 1 \in Numbers
           /\ sent' \subseteq Nat /\ IsFiniteSet(sent') /\ Cardinality(sent') <= MaxSent
           /\ ~repeated'
           /\ \A n \in sent' : n < msg_id + 1
           /\ Saves => msg_id + 1 = b + SaveStep
           /\ msg_id + 1 = b + SaveStep => Saves
<1>1. /\ b \in Nat /\ msg_id \in Nat /\ SaveStep \in Nat \ {0} /\ MaxSent \in Nat
      /\ NumberMod \in Nat \ {0} /\ b <= msg_id /\ msg_id < b + SaveStep
      /\ 2 * msg_id - b <= Reach
  BY NumbersAre DEF SessionFrom, Numbers
<1>2. /\ sent' = sent \cup {msg_id} /\ Cardinality(sent) < MaxSent
      /\ repeated' = (repeated \/ msg_id \in sent)
  BY DEF Sends
<1>3. /\ IsFiniteSet(sent) /\ sent \subseteq Nat /\ \A n \in sent : n < msg_id
  BY DEF NumberTypes, SessionFrom
<1>4. Cardinality(sent) \in Nat /\ Reach \in Nat
  BY <1>3, ReachIs
<1>5. msg_id \notin sent
  BY <1>1, <1>3
<1>6. IsFiniteSet(sent') /\ Cardinality(sent') = Cardinality(sent) + 1
  BY <1>2, <1>3, <1>5, FS_AddElement
<1>7. Reach' = Reach + 2 /\ Cardinality(sent') <= MaxSent
  BY <1>1, <1>2, <1>4, <1>6 DEF Reach
<1>8. msg_id + 1 < NumberMod
  BY <1>1, <1>2, <1>4 DEF Enough, Reach
<1>9. NextNumber = msg_id + 1 /\ msg_id + 1 \in Numbers
  BY <1>1, <1>8 DEF NextNumber, Numbers
<1>10. sent' \subseteq Nat /\ \A n \in sent' : n < msg_id + 1
  BY <1>1, <1>2, <1>3
<1>11. ~repeated'
  BY <1>2, <1>5
<1>12. b % SaveStep = 0
  BY DEF SessionFrom
<1>13. (b + SaveStep) % SaveStep = 0
       /\ \A m \in Nat : b < m /\ m < b + SaveStep => m % SaveStep # 0
  BY <1>1, <1>12, NextSaved
<1>14. Saves <=> (msg_id + 1) % SaveStep = 0
  BY <1>9 DEF Saves
<1>15. msg_id + 1 = b + SaveStep => Saves
  BY <1>13, <1>14
<1>16. Saves => msg_id + 1 = b + SaveStep
  <2>1. msg_id + 1 \in Nat /\ b < msg_id + 1 /\ msg_id + 1 <= b + SaveStep
    BY <1>1
  <2>2. msg_id + 1 < b + SaveStep => (msg_id + 1) % SaveStep # 0
    BY <1>13, <2>1
  <2>3. Saves => ~(msg_id + 1 < b + SaveStep)
    BY <1>14, <2>2
  <2> QED
    BY <1>1, <2>1, <2>3
<1> QED
  BY <1>1, <1>4, <1>6, <1>7, <1>9, <1>10, <1>11, <1>15, <1>16

\* The number after one that is sent, when it is not saved and when it is.
LEMMA NextInSession ==
    ASSUME NEW b \in Nat, NEW m \in Nat, NEW r \in Nat, SaveStep \in Nat \ {0},
           b <= m, m < b + SaveStep, 2 * m - b <= r
    PROVE  /\ m + 1 # b + SaveStep => b <= m + 1 /\ m + 1 < b + SaveStep
           /\ 2 * (m + 1) - b <= r + 2
           /\ m + 1 = b + SaveStep => (m + 1) + SaveStep <= r + 2
           /\ 2 * m - b + SaveStep <= r => 2 * (m + 1) - b + SaveStep <= r + 2
  OBVIOUS

LEMMA TransmitKeeps == ASSUME Enough, NumberInv, Transmit PROVE NumberInv'
<1> SUFFICES ASSUME ~excused PROVE (NumberTypes /\ Silent /\ InLoop /\ ~repeated)'
  BY DEF NumberInv, Transmit
<1>1. /\ Sends /\ phase = "loop" /\ phase' = phase /\ msg_id' = NextNumber
      /\ eeprom' = IF Saves THEN Bytes(NextNumber) ELSE eeprom
      /\ session' = IF Saves \/ session = "saved" THEN "saved" ELSE "unsaved"
  BY DEF Transmit, Sends, Running, setup
<1>2. NumberTypes /\ InLoop /\ ~repeated
  BY DEF NumberInv
<1>3. PICK b \in Numbers : SessionFrom(b)
  BY <1>1, <1>2 DEF InLoop
<1>4. /\ b \in Nat /\ msg_id \in Nat /\ SaveStep \in Nat \ {0}
      /\ Reach \in Nat /\ Reach' = Reach + 2
      /\ NextNumber = msg_id + 1 /\ msg_id + 1 \in Numbers
      /\ sent' \subseteq Nat /\ IsFiniteSet(sent') /\ Cardinality(sent') <= MaxSent
      /\ ~repeated'
      /\ \A n \in sent' : n < msg_id + 1
      /\ Saves => msg_id + 1 = b + SaveStep
      /\ msg_id + 1 = b + SaveStep => Saves
  BY <1>1, <1>2, <1>3, SendingIs
<1>5. b % SaveStep = 0 /\ (b + SaveStep) % SaveStep = 0
  BY <1>3, <1>4, NextSaved DEF SessionFrom
<1>6. /\ b <= msg_id /\ msg_id < b + SaveStep /\ 2 * msg_id - b <= Reach
      /\ session = "saved" => eeprom = Bytes(b) /\ 2 * msg_id - b + SaveStep <= Reach
  BY <1>3 DEF SessionFrom
<1>7. NumberTypes' /\ ~repeated'
  BY <1>1, <1>4 DEF NumberTypes
<1>8. Silent'
  BY <1>1 DEF Silent
<1>9. msg_id' = msg_id + 1 /\ msg_id' \in Nat
  BY <1>1, <1>4
<1>10. CASE Saves
  <2>1. msg_id' = b + SaveStep /\ eeprom' = Bytes(msg_id')
    BY <1>1, <1>4, <1>9, <1>10
  <2>2. msg_id' % SaveStep = 0 /\ msg_id' \in Numbers
    BY <1>4, <1>5, <1>9, <2>1
  <2>3. msg_id' + SaveStep <= Reach'
    BY <1>4, <1>6, <1>9, <2>1, NextInSession
  <2>4. /\ msg_id' <= msg_id' /\ msg_id' < msg_id' + SaveStep
        /\ 2 * msg_id' - msg_id' <= Reach' /\ 2 * msg_id' - msg_id' + SaveStep <= Reach'
    BY <1>4, <1>9, <2>3
  <2>5. PICK c \in Numbers : c = msg_id'
    BY <2>2
  <2>6. SessionFrom(c)'
    BY <1>4, <1>9, <2>1, <2>2, <2>4, <2>5 DEF SessionFrom
  <2> QED
    BY <1>7, <1>8, <2>6 DEF InLoop, Numbers
<1>11. CASE ~Saves
  <2>1. eeprom' = eeprom /\ session' = IF session = "saved" THEN "saved" ELSE "unsaved"
    BY <1>1, <1>11
  <2>2. b <= msg_id' /\ msg_id' < b + SaveStep /\ 2 * msg_id' - b <= Reach'
    BY <1>4, <1>6, <1>9, <1>11, NextInSession
  <2>3. session' = "saved" => eeprom' = Bytes(b) /\ 2 * msg_id' - b + SaveStep <= Reach'
    BY <1>4, <1>6, <1>9, <2>1, NextInSession
  <2>4. SessionFrom(b)'
    BY <1>4, <1>5, <1>9, <2>2, <2>3 DEF SessionFrom
  <2> QED
    BY <1>7, <1>8, <2>4 DEF InLoop, Numbers
<1> QED
  BY <1>10, <1>11

\* Power fails after a message is sent: it is before the last number that can
\* be restored, or the reset is one that excuses.
LEMMA TornKeeps == ASSUME Enough, NumberInv, TransmitTorn PROVE NumberInv'
<1> SUFFICES ASSUME ~excused, ~excused'
             PROVE  (NumberTypes /\ Silent /\ InLoop /\ ~repeated)'
  <2>1. ~excused' => ~excused
    BY DEF TransmitTorn
  <2> QED
    BY <2>1 DEF NumberInv
<1>1. /\ Sends /\ phase = "loop" /\ phase' = "gps" /\ session' = "silent"
      /\ \/ eeprom' = eeprom /\ session = "saved"
         \/ Saves /\ eeprom' = Bytes(NextNumber)
  BY DEF TransmitTorn, Sends, Running, Boot
<1>2. NumberTypes /\ InLoop /\ ~repeated
  BY DEF NumberInv
<1>3. PICK b \in Numbers : SessionFrom(b)
  BY <1>1, <1>2 DEF InLoop
<1>4. /\ b \in Nat /\ msg_id \in Nat /\ SaveStep \in Nat \ {0}
      /\ Reach \in Nat /\ Reach' = Reach + 2
      /\ NextNumber = msg_id + 1 /\ msg_id + 1 \in Numbers
      /\ sent' \subseteq Nat /\ IsFiniteSet(sent') /\ Cardinality(sent') <= MaxSent
      /\ ~repeated'
      /\ \A n \in sent' : n < msg_id + 1
      /\ Saves => msg_id + 1 = b + SaveStep
  BY <1>1, <1>2, <1>3, SendingIs
<1>5. b % SaveStep = 0 /\ (b + SaveStep) % SaveStep = 0
  BY <1>3, <1>4, NextSaved DEF SessionFrom
<1>6. /\ b <= msg_id /\ msg_id < b + SaveStep /\ 2 * msg_id - b <= Reach
      /\ session = "saved" => eeprom = Bytes(b) /\ 2 * msg_id - b + SaveStep <= Reach
  BY <1>3 DEF SessionFrom
<1>7. NumberTypes' /\ InLoop' /\ ~repeated'
  BY <1>1, <1>4 DEF NumberTypes, InLoop
<1>8. CASE eeprom' = eeprom /\ session = "saved"
  <2>1. eeprom' = Bytes(b) /\ b + SaveStep <= Reach'
    BY <1>4, <1>6, <1>8
  <2>2. \A n \in sent' : n < b + SaveStep
    <3> TAKE n \in sent'
    <3>1. n \in Nat /\ n < msg_id + 1
      BY <1>4
    <3> QED
      BY <1>4, <1>6, <3>1
  <2>3. SavedUpTo(b)'
    BY <1>3, <1>5, <2>1, <2>2 DEF SavedUpTo, Numbers
  <2> QED
    BY <1>3, <1>7, <2>3 DEF Silent, Numbers
<1>9. CASE Saves /\ eeprom' = Bytes(NextNumber)
  <2>1. PICK e \in Numbers : e = msg_id + 1
    BY <1>4
  <2>2. e = b + SaveStep /\ eeprom' = Bytes(e) /\ e % SaveStep = 0 /\ e \in Nat
    BY <1>4, <1>5, <1>9, <2>1
  <2>3. e + SaveStep <= Reach'
    BY <1>4, <1>6, <2>1, <2>2, NextInSession
  <2>4. \A n \in sent' : n < e + SaveStep
    <3> TAKE n \in sent'
    <3>1. n \in Nat /\ n < e
      BY <1>4, <2>1
    <3> QED
      BY <1>4, <2>2, <3>1
  <2>5. SavedUpTo(e)'
    BY <2>1, <2>2, <2>3, <2>4 DEF SavedUpTo, Numbers
  <2> QED
    BY <1>7, <2>1, <2>5 DEF Silent, Numbers
<1> QED
  BY <1>1, <1>8, <1>9

LEMMA NumberNext == Enough /\ NumberInv /\ [Next]_vars => NumberInv'
<1> SUFFICES ASSUME Enough, NumberInv, [Next]_vars PROVE NumberInv'
  OBVIOUS
<1>1. CASE Reset \/ WatchdogResets
  BY <1>1, RestartKeeps DEF Reset, WatchdogResets
<1>2. CASE LoraTry
  <2>1. CASE phase' = "loop"
    BY <1>2, <2>1, RestoreKeeps
  <2>2. CASE phase' # "loop"
    <3>1. UNCHANGED numbers /\ phase' = phase
      BY <1>2, <2>2 DEF LoraTry, numbers
    <3> QED
      BY <3>1, SameNumbers
  <2> QED
    BY <2>1, <2>2
<1>3. CASE Transmit
  BY <1>3, TransmitKeeps
<1>4. CASE TransmitTorn
  BY <1>4, TornKeeps
<1>5. CASE GpsAcknowledges
  BY <1>5, SameNumbers DEF GpsAcknowledges
<1>6. CASE UNCHANGED <<phase, numbers>>
  BY <1>6, SameNumbers
<1>7. Sentence \/ TransmitDone \/ Tick \/ UNCHANGED vars => UNCHANGED <<phase, numbers>>
  BY DEF Sentence, TransmitDone, Tick, vars, setup
<1>8. \A c \in Buttons : HearOn(c) \/ HearOff(c) => UNCHANGED <<phase, numbers>>
  BY DEF HearOn, HearOff, setup
<1> QED
  BY <1>1, <1>2, <1>3, <1>4, <1>5, <1>6, <1>7, <1>8 DEF Next

LEMMA NumberInit == Init => NumberInv
<1> SUFFICES ASSUME Init PROVE NumberInv
  OBVIOUS
<1>1. /\ sent = {} /\ eeprom = <<>> /\ phase = "gps" /\ session = "silent" /\ ~repeated
  BY DEF Init
<1>2. IsFiniteSet(sent) /\ Cardinality(sent) = 0 /\ MaxSent \in Nat
  BY <1>1, FS_EmptySet, NumbersAre
<1> QED
  BY <1>1, <1>2 DEF NumberInv, NumberTypes, Silent, InLoop

\* A message number is used twice only after a reset that excuses it, wherever
\* the resets and failures of power fall, as long as the numbers do not go
\* round; those that sessions leave out are counted.
THEOREM NumbersAreFresh == ASSUME Enough PROVE Spec => []NumbersFresh
<1>1. NumberInv => NumbersFresh
  BY DEF NumberInv, NumbersFresh
<1>2. NumberInv /\ [Next]_vars => NumberInv'
  BY NumberNext
<1> QED
  BY <1>1, <1>2, NumberInit, PTL DEF Spec
=============================================================================
