------------------------------ MODULE TaskTimer ------------------------------
(***************************************************************************)
(* What the scheduler of tiny-sky (systick.cpp) promises, without its      *)
(* list: a set of pending tasks, each with the time it is due.  A pass     *)
(* runs the task that is due first, of several the one with the highest    *)
(* priority, and a routine that names an interval stays pending that much  *)
(* later.  After a pass the program sleeps until the next interrupt.       *)
(***************************************************************************)
EXTENDS Integers

CONSTANTS Tasks, Priority, Intervals, RunTime, Overruns, StartTimes, ClockMod, Horizon

VARIABLES pending, due_time, awake, now

vars == <<pending, due_time, awake, now>>

MoreUrgent(t, u) == \/ due_time[t] < due_time[u]
                    \/ due_time[t] = due_time[u] /\ Priority[t] > Priority[u]

Init ==
    /\ pending = {}
    /\ due_time = [t \in Tasks |-> 0]
    /\ awake = TRUE
    /\ now \in StartTimes

Add(t) ==
    /\ t \notin pending
    /\ pending' = pending \cup {t}
    /\ UNCHANGED <<due_time, awake, now>>

Run(t, interval) ==
    /\ awake
    /\ t \in pending
    /\ \A u \in pending : ~MoreUrgent(u, t)
    /\ now % ClockMod >= due_time[t]
    /\ pending' = IF interval = 0 THEN pending \ {t} ELSE pending
    /\ due_time' = [due_time EXCEPT ![t] = (@ + interval) % ClockMod]
    /\ \E more \in Overruns[t] : now' \in (now + more)..(now + more + RunTime[t] + 1)
    /\ awake' = FALSE

NothingDue ==
    /\ awake
    /\ \A t \in pending : now % ClockMod < due_time[t]
    /\ now' \in now..(now + 1)
    /\ awake' = FALSE
    /\ UNCHANGED <<pending, due_time>>

Interrupt ==
    /\ ~awake
    /\ now' \in now..(now + 1)
    /\ awake' = TRUE
    /\ UNCHANGED <<pending, due_time>>

Next ==
    \/ \E t \in Tasks : Add(t)
    \/ \E t \in Tasks : \E interval \in Intervals[t] : Run(t, interval)
    \/ NothingDue
    \/ Interrupt

Spec == Init /\ [][Next]_vars
=============================================================================
