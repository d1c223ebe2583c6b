------------------------------- MODULE LoraSky -------------------------------
(***************************************************************************)
(* The lora-sky tracker (Client.ino, Status.cpp): four switches that the   *)
(* ground turns on over the radio and that go off by themselves, a release *)
(* of the balloon above an altitude, a watchdog that only a GPS sentence   *)
(* feeds, and message numbers that are kept in EEPROM over resets.         *)
(*                                                                         *)
(* Time is in ticks; a deadline of the code is kept as what is left of it. *)
(* External: the GPS receiver and the library that decodes it, the radio   *)
(* and the commands that it hears, the watchdog.  A reset lets the pins go *)
(* low: they are inputs until they are driven.                             *)
(***************************************************************************)
EXTENDS Integers, FiniteSets

CONSTANTS Buttons,   \* the commands S1 to S6 that the ground sends
          AutoOff,   \* SWITCHn_AUTO_OFF: ticks for each switch, <= 0: never
          SafeTime,  \* RELEASE_SAFETIME
          Watchdog,  \* WDTO_2S
          InitDelay, \* delay(1000) of lora_setup
          SaveStep,  \* 16: a number is saved when it is a multiple
          ByteMod,   \* 256
          MaxSent,   \* bound: messages
          MaxResets  \* bound: resets

Switches == 1..4
NumberMod == ByteMod * ByteMod

ASSUME ConstantsAssumption ==
    /\ Buttons \subseteq 1..6
    /\ AutoOff \in [Switches -> Int]
    /\ SafeTime \in Nat
    /\ Watchdog \in Nat /\ InitDelay \in Nat
    /\ SaveStep \in Nat \ {0}
    /\ ByteMod \in Nat \ {0}
    /\ MaxSent \in Nat /\ MaxResets \in Nat

VARIABLES
    phase,        \* where setup is: "gps", "lora", or "loop"
    fed,          \* ticks since the watchdog was fed
    tries, wait,  \* of lora_setup: tries left, what is left of the delay
    uptime,       \* millis, up to SafeTime
    pin,          \* SWITCHn_PIN
    switch_state, \* of status: the switches whose bit is set
    left,         \* switch_off - millis(), not below -1
    fixValid,
    high,         \* alt >= RELEASE_ALTITUDE
    transmitting, \* lora.mode() is RHModeTx
    msg_id,
    eeprom        \* the two bytes of the number, low and high; <<>> if there is
                  \* no callsign before them

\* History: ticks since a switch that is on was asked for last; the numbers
\* sent; whether one was sent twice; whether this session has sent numbers
\* and has saved one since; whether a reset came where numbers may repeat
\* after it; and the number of resets.
VARIABLES since, sent, repeated, session, excused, resets

numbers  == <<msg_id, eeprom, sent, repeated, session, excused>>
switches == <<pin, switch_state, left, since>>
setup    == <<phase, tries, wait>>
vars == <<setup, fed, uptime, switches, fixValid, high, transmitting, numbers, resets>>

Timed(s) == AutoOff[s] > 0

-----------------------------------------------------------------------------
(* Reset and setup *)

\* What a reset leaves: everything but the EEPROM.
Boot ==
    /\ phase' = "gps" /\ fed' = 0 /\ tries' = 5 /\ wait' = 0 /\ uptime' = 0
    /\ pin' = [s \in Switches |-> 0]
    /\ switch_state' = {}
    /\ left' = [s \in Switches |-> -1]
    /\ since' = [s \in Switches |-> 0]
    /\ fixValid' = FALSE /\ high' = FALSE
    /\ transmitting' = FALSE
    /\ msg_id' = 0
    /\ session' = "silent"

Init ==
    /\ phase = "gps" /\ fed = 0 /\ tries = 5 /\ wait = 0 /\ uptime = 0
    /\ pin = [s \in Switches |-> 0]
    /\ switch_state = {}
    /\ left = [s \in Switches |-> -1]
    /\ since = [s \in Switches |-> 0]
    /\ fixValid = FALSE /\ high = FALSE
    /\ transmitting = FALSE
    /\ msg_id = 0 /\ eeprom = <<>>
    /\ sent = {} /\ repeated = FALSE /\ session = "silent" /\ excused = FALSE
    /\ resets = 0

\* Power fails, or somebody presses the button.
Reset ==
    /\ resets < MaxResets
    /\ resets' = resets + 1
    /\ Boot
    /\ excused' = (excused \/ session = "unsaved")
    /\ UNCHANGED <<eeprom, sent, repeated>>

\* The watchdog: nothing else may happen once its time is over.
WatchdogResets ==
    /\ fed = Watchdog
    /\ resets' = IF resets < MaxResets THEN resets + 1 ELSE resets
    /\ Boot
    /\ excused' = (excused \/ session = "unsaved")
    /\ UNCHANGED <<eeprom, sent, repeated>>

\* gps_setup: the receiver acknowledges the balloon mode.  Reading a hundred
\* lines without it, which would end the wait, takes longer than the watchdog.
GpsAcknowledges ==
    /\ phase = "gps" /\ fed < Watchdog
    /\ phase' = "lora"
    /\ wait' = InitDelay
    /\ UNCHANGED <<tries, fed, uptime, switches, fixValid, high, transmitting, numbers, resets>>

\* Status::restore, in a byte order that put() gives.
Number(bytes) == bytes[1] + ByteMod * bytes[2]
Bytes(n)      == <<n % ByteMod, n \div ByteMod>>
Erased        == <<ByteMod - 1, ByteMod - 1>>

\* Mutant of Restored: it goes on where the last save was.
RestoredExact == IF eeprom = <<>> THEN 1 ELSE Number(eeprom)

Restored == IF eeprom = <<>> THEN 1 ELSE (Number(eeprom) + SaveStep) % NumberMod

\* The delay of a try is over, the watchdog is fed; a fresh EEPROM gets the
\* callsign but no number, since save() skips 1 unless every number is saved.
LoraTry ==
    /\ phase = "lora" /\ wait = 0 /\ fed < Watchdog
    /\ fed' = 0
    /\ tries' = tries - 1
    /\ \/ /\ tries > 1                      \* lora.init failed
          /\ wait' = InitDelay
          /\ UNCHANGED <<phase, msg_id, eeprom>>
       \/ /\ phase' = "loop"
          /\ msg_id' = Restored
          /\ eeprom' = IF eeprom # <<>> THEN eeprom
                       ELSE IF 1 % SaveStep = 0 THEN Bytes(1) ELSE Erased
          /\ UNCHANGED wait
    /\ UNCHANGED <<uptime, switches, fixValid, high, transmitting, sent, repeated, session,
                   excused, resets>>

-----------------------------------------------------------------------------
(* The loop *)

Running == phase = "loop" /\ fed < Watchdog

\* Mutant of Expired: nothing goes off by itself.
ExpiredNever(s) == FALSE

\* now > switch_off, for a switch with an automatic off.
Expired(s) == Timed(s) /\ left[s] < 0

\* Mutant of Release: the altitude is compared the other way round.
ReleaseBelow(fix, above) == fix /\ ~above /\ uptime >= SafeTime

Release(fix, above) == fix /\ above /\ uptime >= SafeTime

\* Mutant of Reported: the bits of the wrong pair are cleared.
ReportedPyro == {3, 4}

\* The switches whose bit goes with the automatic off; the bits of the pyro
\* switches stay.
Reported == {1, 2}

\* A pass of the loop that finds a new sentence: update_location_from_gps and
\* pyro_update.  Above the altitude the burst switch is asked for at every
\* sentence.
Sentence ==
    /\ Running
    /\ fed' = 0
    /\ \/ fixValid' = TRUE /\ high' \in BOOLEAN
       \/ UNCHANGED <<fixValid, high>>     \* no fix: the library keeps the last
    /\ LET asked == {s \in {4} : Release(fixValid', high')}
           off   == {s \in Switches \ asked : Expired(s)}
       IN  /\ pin' = [s \in Switches |-> IF s \in asked THEN 1
                                         ELSE IF s \in off THEN 0 ELSE pin[s]]
           /\ switch_state' = (switch_state \cup asked) \ (off \cap Reported)
           /\ left' = [s \in Switches |-> IF s \in asked THEN AutoOff[s] ELSE left[s]]
           /\ since' = [s \in Switches |-> IF s \in asked \cup off THEN 0 ELSE since[s]]
    /\ UNCHANGED <<setup, uptime, transmitting, numbers, resets>>

\* lora_parse: S1 turns on the burst switch (4), S2 the ignition (3), S3 and S5
\* turn on the camera (2) and the auxiliary (1), S4 and S6 turn these off.
TurnsOn  == [c \in {1, 2, 3, 5} |-> IF c = 5 THEN 1 ELSE 5 - c]
TurnsOff == [c \in {4, 6} |-> IF c = 4 THEN 2 ELSE 1]

\* The radio hears nothing while it transmits.
HearOn(c) ==
    /\ Running /\ ~transmitting
    /\ c \in DOMAIN TurnsOn
    /\ LET s == TurnsOn[c]
       IN  /\ pin' = [pin EXCEPT ![s] = 1]
           /\ switch_state' = switch_state \cup {s}
           /\ left' = [left EXCEPT ![s] = IF Timed(s) THEN AutoOff[s] ELSE -1]
           /\ since' = [since EXCEPT ![s] = 0]
    /\ UNCHANGED <<setup, fed, uptime, fixValid, high, transmitting, numbers, resets>>

HearOff(c) ==
    /\ Running /\ ~transmitting
    /\ c \in DOMAIN TurnsOff
    /\ LET s == TurnsOff[c]
       IN  /\ pin' = [pin EXCEPT ![s] = 0]
           /\ switch_state' = switch_state \ {s}
           /\ since' = [since EXCEPT ![s] = 0]
    /\ UNCHANGED <<setup, fed, uptime, left, fixValid, high, transmitting, numbers, resets>>

NextNumber == (msg_id + 1) % NumberMod

Sends ==
    /\ Running /\ ~transmitting
    /\ Cardinality(sent) < MaxSent
    /\ sent' = sent \cup {msg_id}
    /\ repeated' = (repeated \/ msg_id \in sent)

Saves == NextNumber % SaveStep = 0

\* Our time slot: lora_transmit, the next number, save().
Transmit ==
    /\ Sends
    /\ transmitting' = TRUE
    /\ msg_id' = NextNumber
    /\ eeprom' = IF Saves THEN Bytes(NextNumber) ELSE eeprom
    /\ session' = IF Saves \/ session = "saved" THEN "saved" ELSE "unsaved"
    /\ UNCHANGED <<setup, fed, uptime, switches, fixValid, high, excused, resets>>

\* Power fails after the message is under way: before the save, or inside it,
\* with the low byte written and the high byte not.
TransmitTorn ==
    /\ resets < MaxResets
    /\ resets' = resets + 1
    /\ Sends
    /\ \/ /\ UNCHANGED eeprom
          /\ excused' = (excused \/ session # "saved")
       \/ /\ Saves
          /\ eeprom' = <<Bytes(NextNumber)[1], eeprom[2]>>
          /\ excused' = (excused \/ eeprom' # Bytes(NextNumber))
    /\ Boot

TransmitDone ==
    /\ transmitting
    /\ transmitting' = FALSE
    /\ UNCHANGED <<setup, fed, uptime, switches, fixValid, high, numbers, resets>>

Tick ==
    /\ fed < Watchdog
    /\ fed' = fed + 1
    /\ wait' = IF wait > 0 THEN wait - 1 ELSE 0
    /\ uptime' = IF uptime < SafeTime THEN uptime + 1 ELSE uptime
    /\ left' = [s \in Switches |-> IF left[s] >= 0 THEN left[s] - 1 ELSE left[s]]
    /\ since' = [s \in Switches |-> IF Timed(s) /\ pin[s] = 1 THEN since[s] + 1 ELSE 0]
    /\ UNCHANGED <<phase, tries, pin, switch_state, fixValid, high, transmitting, numbers, resets>>

Next ==
    \/ Reset \/ WatchdogResets
    \/ GpsAcknowledges \/ LoraTry
    \/ Sentence
    \/ \E c \in Buttons : HearOn(c) \/ HearOff(c)
    \/ Transmit \/ TransmitTorn \/ TransmitDone
    \/ Tick

Spec == Init /\ [][Next]_vars

\* Time passes and the watchdog watches.  Nothing else is fair: the receiver
\* may be silent.
FairSpec == Spec /\ WF_vars(Tick) /\ WF_vars(WatchdogResets)

-----------------------------------------------------------------------------
(* Properties *)

\* A switch with an automatic off is on for at most its time and one period of
\* the watchdog after it was asked for last, whether sentences come or not: the
\* off waits for a sentence, and without one the watchdog lets the pin go.
SwitchBounded ==
    \A s \in Switches : Timed(s) /\ pin[s] = 1 => since[s] <= AutoOff[s] + Watchdog

\* What the telemetry says of the switches: of the auxiliary and the camera
\* that they are on, of the pyro switches that they have been since the reset.
BitsTellPins ==
    /\ {s \in Switches : pin[s] = 1} \subseteq switch_state
    /\ \A s \in {1, 2} : s \in switch_state => pin[s] = 1

\* A message number is used twice only after a reset in a session that had sent
\* numbers and not saved one, or inside a save that changes the high byte.
NumbersFresh == repeated => excused

\* Above the altitude, in a loop that keeps running, the balloon is released.
ReleaseHappens ==
    []([](phase = "loop" /\ fixValid /\ high) => <>(pin[4] = 1))
=============================================================================
