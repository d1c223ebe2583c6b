---------------------------- MODULE PyroInterlock ----------------------------
(***************************************************************************)
(* What the tracker promises about its pyrotechnic channel, whatever the   *)
(* tasks, the radio and the console do:                                    *)
(*   - the MOSFET is switched on only by firing, at most once per arming,  *)
(*     and no earlier than SafeTime after the arming;                      *)
(*   - it is switched off only when it has been on for HoldTime, after the *)
(*     channel was locked again, or by a power loss;                       *)
(*   - a power loss locks the channel.                                     *)
(* FlightControl is shown to implement this specification.                 *)
(***************************************************************************)
EXTENDS Integers

CONSTANTS SafeTime,  \* time between arming and the earliest firing
          HoldTime   \* shortest time the MOSFET stays on

VARIABLES clock,     \* real time
          phase,     \* "locked", "armed" or "spent"
          since,     \* time of the arming, NoTime when locked
          mosfet,    \* 1 when the MOSFET is on
          onAt       \* time the MOSFET was switched on, NoTime when off

avars == <<clock, phase, since, mosfet, onAt>>

NoTime == -1

Init == /\ clock = 0
        /\ phase = "locked"
        /\ since = NoTime
        /\ mosfet = 0
        /\ onAt = NoTime

TimePasses == /\ clock' = clock + 1
              /\ UNCHANGED <<phase, since, mosfet, onAt>>

\* Arming starts from a MOSFET that is off, or switches it off.
Arm == /\ phase = "locked"
       /\ phase' = "armed"
       /\ since' = clock
       /\ mosfet' = 0
       /\ onAt' = NoTime
       /\ UNCHANGED clock

Fire == /\ phase = "armed"
        /\ clock - since >= SafeTime
        /\ phase' = "spent"
        /\ mosfet' = 1
        /\ onAt' = clock
        /\ UNCHANGED <<clock, since>>

Cut == /\ phase = "spent"
       /\ mosfet = 1
       /\ clock - onAt >= HoldTime
       /\ mosfet' = 0
       /\ onAt' = NoTime
       /\ UNCHANGED <<clock, phase, since>>

\* Locking does not itself switch the MOSFET off: Release does.
Lock == /\ phase # "locked"
        /\ phase' = "locked"
        /\ since' = NoTime
        /\ UNCHANGED <<clock, mosfet, onAt>>

Release == /\ phase = "locked"
           /\ mosfet = 1
           /\ mosfet' = 0
           /\ onAt' = NoTime
           /\ UNCHANGED <<clock, phase, since>>

PowerLoss == /\ phase' = "locked"
             /\ since' = NoTime
             /\ mosfet' = 0
             /\ onAt' = NoTime
             /\ UNCHANGED clock

Next == \/ TimePasses \/ Arm \/ Fire \/ Cut \/ Lock \/ Release \/ PowerLoss

Spec == Init /\ [][Next]_avars
=============================================================================
