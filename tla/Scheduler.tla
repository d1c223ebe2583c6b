------------------------------ MODULE Scheduler ------------------------------
(***************************************************************************)
(* The cooperative scheduler of tiny-sky (systick.cpp) and the main loop   *)
(* around it (main.cpp): a singly linked list of tasks in the order of     *)
(* their due times, of which one pass runs the first, if it is due.  The   *)
(* loop sleeps after every pass until an interrupt, the millisecond tick   *)
(* at the latest.                                                          *)
(*                                                                         *)
(* One unit of time is a tick.  The routines are those of AppState, here   *)
(* only what the scheduler sees of them: how long one takes and which      *)
(* interval it returns.                                                    *)
(***************************************************************************)
EXTENDS Integers, Sequences, FiniteSets

CONSTANTS Tasks,       \* the elements of timer_tasks
          NoTask,      \* the null pointer
          AddOrder,    \* the order in which main adds the tasks
          Priority,    \* priority of every task
          Intervals,   \* intervals the routine of a task may return
          RunTime,     \* longest ordinary run of the routine of a task
          Overruns,    \* by how much a run may take longer (buzz_times, delay, flash)
          StartTimes,  \* millis() when setup() is done
          MaxLate,     \* what InTime allows
          ClockMod,    \* millis() and due_time count modulo this (2^32)
          MaxOverrun,  \* bound: overruns without a moment of rest
          Horizon      \* bound: time stops here

ASSUME ConstantsAssumption ==
    /\ NoTask \notin Tasks
    /\ IsFiniteSet(Tasks)
    /\ AddOrder \in Seq(Tasks)
    /\ \A i, j \in DOMAIN AddOrder : AddOrder[i] = AddOrder[j] => i = j
    /\ Priority \in [Tasks -> Int]
    /\ Intervals \in [Tasks -> (SUBSET Nat) \ {{}}]
    /\ RunTime \in [Tasks -> Nat]
    /\ Overruns \in [Tasks -> SUBSET Nat]
    /\ StartTimes \subseteq Nat
    /\ MaxLate \in Nat
    /\ ClockMod \in Nat \ {0}
    /\ MaxOverrun \in Nat
    /\ Horizon \in Nat

VARIABLES
    first_task,  \* head of the list
    next,        \* timer_task_t::next of every task
    due_time,    \* timer_task_t::due_time of every task
    added,       \* how many add_task calls main has made
    awake,       \* main is about to call schedule_tasks, not in WFI
    now,         \* real time
    overrun      \* history: by how much the runs since the last pass that had
                 \* nothing to do took longer than RunTime

vars == <<first_task, next, due_time, added, awake, now, overrun>>

Init ==
    /\ first_task = NoTask
    /\ next = [t \in Tasks |-> NoTask]
    /\ due_time = [t \in Tasks |-> 0]
    /\ added = 0
    /\ awake = TRUE
    /\ now \in StartTimes
    /\ overrun = 0

-----------------------------------------------------------------------------
(* The list *)

\* Where k steps along the list that starts at head lead.
Nodes(head, link) ==
    LET node[k \in 0..Cardinality(Tasks)] ==
            IF k = 0 THEN head
            ELSE IF node[k - 1] = NoTask THEN NoTask ELSE link[node[k - 1]]
    IN  node

\* Mutant of GoesBefore: a list that grows at its end.
GoesBeforeNobody(t, due, u) == u = NoTask

\* The node in front of which insert_task stops.
GoesBefore(t, due, u) ==
    \/ u = NoTask
    \/ due_time[u] > due
    \/ due_time[u] = due /\ Priority[u] <= Priority[t]

\* Mutant of Linked: the node before the new one keeps its link.
LinkedOneWay(t, pos, node, link) == [link EXCEPT ![t] = node[pos]]

\* The links once t stands at position pos of the list node.
Linked(t, pos, node, link) ==
    IF pos = 0 THEN [link EXCEPT ![t] = node[0]]
               ELSE [link EXCEPT ![t] = node[pos], ![node[pos - 1]] = t]

\* insert_task into the list that starts at head.
InsertTask(t, due, head, link) ==
    LET node == Nodes(head, link)
        pos  == CHOOSE k \in DOMAIN node :
                    /\ GoesBefore(t, due, node[k])
                    /\ \A j \in 0..(k - 1) : ~GoesBefore(t, due, node[j])
    IN  /\ due_time' = [due_time EXCEPT ![t] = due]
        /\ first_task' = IF pos = 0 THEN t ELSE head
        /\ next' = Linked(t, pos, node, link)

-----------------------------------------------------------------------------
(* The main program *)

millis == now % ClockMod

\* add_task with its default due time, called by main for each task in turn.
AddTask ==
    /\ added < Len(AddOrder)
    /\ added' = added + 1
    /\ InsertTask(AddOrder[added + 1], 0, first_task, next)
    /\ UNCHANGED <<awake, now, overrun>>

\* Mutant of FirstIsDue: the time is not looked at.
FirstIsAlwaysDue == first_task # NoTask

FirstIsDue == first_task # NoTask /\ millis >= due_time[first_task]

\* Mutant of DueNext: the interval counts from the end of the run.
DueNextFromNow(t, interval) == (millis + interval) % ClockMod

\* The next due time counts from the last one, not from the run: no drift.
DueNext(t, interval) == (due_time[t] + interval) % ClockMod

\* A pass that runs the first task and then WFI.  A tick that comes after
\* millis() was read does not end the WFI that follows: one more than the
\* run itself may go by.
RunFirst ==
    /\ added = Len(AddOrder)
    /\ awake
    /\ FirstIsDue
    /\ \E interval \in Intervals[first_task] :
           IF interval > 0
           THEN InsertTask(first_task, DueNext(first_task, interval), next[first_task],
                           [next EXCEPT ![first_task] = NoTask])
           ELSE /\ first_task' = next[first_task]
                /\ next' = [next EXCEPT ![first_task] = NoTask]
                /\ UNCHANGED due_time
    /\ \E ticks \in 0..(RunTime[first_task] + 1), more \in Overruns[first_task] :
           now' = now + ticks + more /\ overrun' = overrun + more
    /\ now' <= Horizon /\ overrun' <= MaxOverrun
    /\ awake' = FALSE
    /\ UNCHANGED added

\* A pass that finds nothing to do, and WFI.
NothingDue ==
    /\ added = Len(AddOrder)
    /\ awake
    /\ ~FirstIsDue
    /\ \E ticks \in 0..1 : now' = now + ticks
    /\ now' <= Horizon
    /\ awake' = FALSE /\ overrun' = 0
    /\ UNCHANGED <<first_task, next, due_time, added>>

\* The tick of the system timer ends WFI.
SysTick ==
    /\ ~awake
    /\ now < Horizon
    /\ now' = now + 1
    /\ awake' = TRUE
    /\ UNCHANGED <<first_task, next, due_time, added, overrun>>

\* So does an interrupt of USB or of the GPS port.
OtherInterrupt ==
    /\ ~awake
    /\ awake' = TRUE
    /\ UNCHANGED <<first_task, next, due_time, added, now, overrun>>

Next == AddTask \/ RunFirst \/ NothingDue \/ SysTick \/ OtherInterrupt

Spec == Init /\ [][Next]_vars

-----------------------------------------------------------------------------
(* Properties *)

List == Nodes(first_task, next)

Listed == {List[k] : k \in DOMAIN List} \ {NoTask}

\* The list ends and holds every task that main added, each once: a task that
\* falls off it would never run again, a cycle would hide the rest.
NobodyIsLost ==
    /\ Listed = {AddOrder[i] : i \in 1..added}
    /\ \A k \in DOMAIN List : List[k] = NoTask <=> k >= added

Timer == INSTANCE TaskTimer WITH pending <- Listed

\* Every pass runs the most urgent task that is due, if there is one, also
\* when the due times have wrapped: the list is no more than a way to find it.
ImplementsTaskTimer == Timer!Spec

\* Neither the clock nor a due time has wrapped yet.
BeforeWrap == \A t \in Tasks : \A i \in Intervals[t] : now + i < ClockMod

\* A task is not run again before its interval is over, until a due time
\* wraps: see the README for what follows then.
NeverAhead ==
    BeforeWrap => \A t \in Listed : \E i \in Intervals[t] : due_time[t] <= now + i

\* No task waits longer than MaxLate for its turn, however the interrupts fall,
\* and by what runs took too long since there was last nothing to do: a run of
\* several intervals is made up for and its delay does not add to that of the
\* next one (systick.cpp, schedule_tasks; settings.cpp, buzz_times).
InTime == BeforeWrap => \A t \in Listed : now - due_time[t] <= MaxLate + overrun

\* The sum of f over the tasks that main adds.
Total(f) ==
    LET sum[k \in 0..Len(AddOrder)] == IF k = 0 THEN 0 ELSE sum[k - 1] + f[AddOrder[k]]
    IN  sum[Len(AddOrder)]

\* The processor keeps up with ordinary runs: task t needs at most share[t] of
\* whole for them and the sleep after each of them, the shares make no more
\* than the whole, and the work of one longest interval of all others fits in
\* MaxLate after a start that is not after latest.
KeepsUp(share, whole, longest, latest) ==
    /\ share \in [Tasks -> Nat] /\ longest \in [Tasks -> Nat]
    /\ whole \in Nat \ {0} /\ latest \in Nat \ {0}
    /\ \A start \in StartTimes : start <= latest
    /\ \A t \in Tasks : \A i \in Intervals[t] :
           0 < i /\ i <= longest[t] /\ whole * (RunTime[t] + 2) <= share[t] * i
    /\ Total(share) <= whole
    /\ \A k \in DOMAIN AddOrder :
           whole * latest
             + Total([u \in Tasks |-> IF u = AddOrder[k] THEN 0 ELSE share[u] * longest[u]])
           < whole * (MaxLate + 1)
=============================================================================
