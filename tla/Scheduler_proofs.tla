--------------------------- MODULE Scheduler_proofs ---------------------------
(***************************************************************************)
(* Proofs about Scheduler, for every set of tasks: the linked list that    *)
(* insert_task and schedule_tasks rebuild is always a sequence of tasks    *)
(* without a repetition, in order of urgency, and so implements the timer  *)
(* that runs the most urgent task; no task falls off it, none is run       *)
(* ahead of its interval, and when the processor keeps up with ordinary    *)
(* runs none waits longer than that and the runs that took too long.       *)
(***************************************************************************)
EXTENDS Scheduler, FiniteSetTheorems, WellFoundedInduction, TLAPS

Last == Cardinality(Tasks)

LEMMA LastIs == Last \in Nat
  BY ConstantsAssumption, FS_CardinalityType DEF Last

\* A set of natural numbers that has a member has a least one.
LEMMA Least ==
    ASSUME NEW S \in SUBSET Nat, S # {}
    PROVE  \E k \in S : \A j \in S : j >= k
<1> DEFINE R == OpToRel(<, Nat)
<1>1. IsWellFoundedOn(R, Nat)
  BY NatLessThanWellFounded
<1>2. PICK k \in S : \A y \in S : ~ (<<y, k>> \in R)
  BY <1>1, WFMin
<1>3. \A x, y \in Nat : <<y, x>> \in R <=> y < x
  BY DEF OpToRel
<1> HIDE DEF R
<1>4. \A j \in S : ~ (j < k)
  BY <1>2, <1>3
<1> QED
  BY <1>4

\* The list L, read from its links.
Follows(L, head, link) ==
    /\ head = IF L = <<>> THEN NoTask ELSE L[1]
    /\ \A i \in DOMAIN L : link[L[i]] = IF i < Len(L) THEN L[i + 1] ELSE NoTask

LEMMA NodesAre ==
    ASSUME NEW L \in Seq(Tasks), NEW head, NEW link, Follows(L, head, link), Len(L) <= Last
    PROVE  Nodes(head, link) = [k \in 0..Last |-> IF k < Len(L) THEN L[k + 1] ELSE NoTask]
<1> DEFINE Step(f) == [k \in 0..Last |-> IF k = 0 THEN head
                                         ELSE IF f[k - 1] = NoTask THEN NoTask ELSE link[f[k - 1]]]
           g == [k \in 0..Last |-> IF k < Len(L) THEN L[k + 1] ELSE NoTask]
           n == Nodes(head, link)
<1>1. g = Step(g)
  <2>1. Last \in Nat /\ Len(L) \in Nat
    BY LastIs
  <2>2. \A i \in 1..Len(L) : L[i] \in Tasks /\ L[i] # NoTask
    BY ConstantsAssumption
  <2>3. ASSUME NEW k \in 0..Last PROVE g[k] = Step(g)[k]
    <3>1. CASE k = 0
      BY <2>1, <3>1 DEF Follows
    <3>2. CASE k # 0 /\ k < Len(L)
      BY <2>1, <2>2, <3>2 DEF Follows
    <3>3. CASE k # 0 /\ k = Len(L)
      BY <2>1, <2>2, <3>3 DEF Follows
    <3>4. CASE k # 0 /\ k > Len(L)
      BY <2>1, <2>2, <3>4 DEF Follows
    <3> QED
      BY <2>1, <3>1, <3>2, <3>3, <3>4
  <2> QED
    BY <2>3
<1>2. n = CHOOSE f : f = Step(f)
  BY DEF Nodes, Last
<1>3. n = Step(n)
  <2> HIDE DEF g, n, Step
  <2> QED
    BY <1>1, <1>2, Zenon
<1> DEFINE D == {k \in 0..Last : n[k] # g[k]}
<1>4. D = {}
  <2> SUFFICES ASSUME D # {} PROVE FALSE
    OBVIOUS
  <2>1. D \in SUBSET Nat
    BY LastIs
  <2>2. PICK k \in D : \A j \in D : j >= k
    BY <2>1, Least
  <2>3. k \in 0..Last /\ k - 1 \notin D
    BY <2>2, LastIs
  <2>4. n[k] = Step(n)[k] /\ g[k] = Step(g)[k]
    BY <1>1, <1>3
  <2>5. k = 0 \/ (k - 1 \in 0..Last /\ n[k - 1] = g[k - 1])
    BY <2>3, LastIs
  <2> HIDE DEF n, g
  <2>6. n[k] = g[k]
    BY <2>3, <2>4, <2>5
  <2> QED
    BY <2>2, <2>6
<1>5. \A k \in 0..Last : n[k] = g[k]
  BY <1>4
<1>6. n = [k \in 0..Last |-> n[k]]
  <2> HIDE DEF n
  <2> QED
    BY <1>3
<1> HIDE DEF n
<1>7. n = g
  BY <1>5, <1>6
<1> QED
  BY <1>7 DEF n

\* Of the tasks of a list each one stands before those that are less urgent.
MoreUrgent(due, t, u) == due[t] < due[u] \/ (due[t] = due[u] /\ Priority[t] > Priority[u])

Ordered(L, due) == \A i, j \in DOMAIN L : i < j => ~MoreUrgent(due, L[j], L[i])

Distinct(L) == \A i, j \in DOMAIN L : L[i] = L[j] => i = j

Elements(L) == {L[i] : i \in DOMAIN L}

\* L is the list of tasks that head, link and due make up.
IsList(L, head, link, due) ==
    L \in Seq(Tasks) /\ Distinct(L) /\ Ordered(L, due) /\ Follows(L, head, link)

\* No list is longer than there are tasks.
LEMMA NotTooLong ==
    ASSUME NEW L \in Seq(Tasks), Distinct(L)
    PROVE  /\ Len(L) \in Nat /\ Len(L) <= Last
           /\ \A t \in Tasks : t \notin Elements(L) => Len(L) < Last
<1>1. IsFiniteSet(1..Len(L)) /\ Cardinality(1..Len(L)) = Len(L) /\ Len(L) \in Nat
  <2>1. \A n \in Nat : IsFiniteSet(1..n) /\ Cardinality(1..n) = n
    <3> TAKE n \in Nat
    <3>1. IsFiniteSet(1..n) /\ Cardinality(1..n) = IF 1 > n THEN 0 ELSE n - 1 + 1
      BY FS_Interval
    <3> QED
      BY <3>1
  <2> QED
    BY <2>1
<1>2. L \in Injection(1..Len(L), Tasks)
  BY DEF Distinct, Injection, IsInjective
<1>3. IsFiniteSet(Tasks)
  BY ConstantsAssumption
<1>4. Len(L) <= Last
  BY <1>1, <1>2, <1>3, FS_Injection DEF Last
<1>5. ASSUME NEW t \in Tasks, t \notin Elements(L) PROVE Len(L) < Last
  <2>1. L \in Injection(1..Len(L), Tasks \ {t})
    BY <1>5 DEF Distinct, Injection, IsInjective, Elements
  <2>2. IsFiniteSet(Tasks \ {t}) /\ Cardinality(Tasks \ {t}) = Last - 1
    BY <1>3, <1>5, FS_RemoveElement DEF Last
  <2>3. Len(L) <= Last - 1
    BY <1>1, <2>1, <2>2, FS_Injection
  <2> QED
    BY <1>1, <2>3, LastIs
<1> QED
  BY <1>1, <1>4, <1>5

\* The list L with t in position p; where the others stood before.
With(L, t, p) ==
    [i \in 1..(Len(L) + 1) |-> IF i <= p THEN L[i] ELSE IF i = p + 1 THEN t ELSE L[i - 1]]

Old(i, p) == IF i <= p THEN i ELSE i - 1

LEMMA OldIs ==
    ASSUME NEW n \in Nat, NEW p \in 0..n
    PROVE  /\ p + 1 \in 1..(n + 1)
           /\ \A i \in 1..(n + 1) : i # p + 1 => Old(i, p) \in 1..n
           /\ \A i, j \in 1..(n + 1) : i # p + 1 /\ j # p + 1 => (Old(i, p) < Old(j, p) <=> i < j)
           /\ \A i, j \in 1..(n + 1) : i # p + 1 /\ j # p + 1 /\ Old(i, p) = Old(j, p) => i = j
           /\ \A k \in 1..n : \E i \in 1..(n + 1) : i # p + 1 /\ Old(i, p) = k
<1>1. ASSUME NEW k \in 1..n PROVE \E i \in 1..(n + 1) : i # p + 1 /\ Old(i, p) = k
  <2>1. CASE k <= p
    BY <2>1 DEF Old
  <2>2. CASE k > p
    <3>1. k + 1 \in 1..(n + 1) /\ k + 1 # p + 1 /\ Old(k + 1, p) = k
      BY <2>2 DEF Old
    <3> QED
      BY <3>1
  <2> QED
    BY <2>1, <2>2
<1> QED
  BY <1>1 DEF Old

LEMMA WithIs ==
    ASSUME NEW L \in Seq(Tasks), NEW t \in Tasks, NEW p \in 0..Len(L), Distinct(L), t \notin Elements(L)
    PROVE  /\ With(L, t, p) \in Seq(Tasks) /\ Len(With(L, t, p)) = Len(L) + 1
           /\ DOMAIN With(L, t, p) = 1..(Len(L) + 1)
           /\ With(L, t, p)[p + 1] = t
           /\ \A i \in 1..(Len(L) + 1) : i # p + 1 => With(L, t, p)[i] = L[Old(i, p)]
           /\ Distinct(With(L, t, p))
           /\ Elements(With(L, t, p)) = Elements(L) \cup {t}
<1> DEFINE W == With(L, t, p)
<1>1. W \in Seq(Tasks) /\ Len(W) = Len(L) + 1 /\ DOMAIN W = 1..(Len(L) + 1) /\ Len(L) \in Nat
  BY DEF With
<1> PICK n \in Nat : n = Len(L)
  BY <1>1
<1>2. W[p + 1] = t
  BY <1>1 DEF With
<1>3. \A i \in 1..(n + 1) : i # p + 1 => W[i] = L[Old(i, p)]
  BY <1>1 DEF With, Old
<1> HIDE DEF W
<1>4. /\ p + 1 \in 1..(n + 1)
      /\ \A i \in 1..(n + 1) : i # p + 1 => Old(i, p) \in 1..n
      /\ \A i, j \in 1..(n + 1) : i # p + 1 /\ j # p + 1 /\ Old(i, p) = Old(j, p) => i = j
      /\ \A k \in 1..n : \E i \in 1..(n + 1) : i # p + 1 /\ Old(i, p) = k
  BY OldIs
<1>5. DOMAIN L = 1..n /\ DOMAIN W = 1..(n + 1)
  BY <1>1
<1>6. \A i \in 1..(n + 1) : i # p + 1 => W[i] \in Elements(L) /\ W[i] # t
  BY <1>3, <1>4, <1>5 DEF Elements
<1>7. Distinct(W)
  <2> SUFFICES ASSUME NEW i \in 1..(n + 1), NEW j \in 1..(n + 1), W[i] = W[j] PROVE i = j
    BY <1>5 DEF Distinct
  <2>1. CASE i = p + 1 \/ j = p + 1
    BY <1>2, <1>6, <2>1
  <2>2. CASE i # p + 1 /\ j # p + 1
    <3>1. L[Old(i, p)] = L[Old(j, p)] /\ Old(i, p) \in DOMAIN L /\ Old(j, p) \in DOMAIN L
      BY <1>3, <1>4, <1>5, <2>2
    <3>2. Old(i, p) = Old(j, p)
      BY <3>1 DEF Distinct
    <3> QED
      BY <1>4, <2>2, <3>2
  <2> QED
    BY <2>1, <2>2
<1>8. Elements(W) \subseteq Elements(L) \cup {t}
  BY <1>2, <1>5, <1>6 DEF Elements
<1>9. t \in Elements(W)
  BY <1>2, <1>4, <1>5 DEF Elements
<1>10. ASSUME NEW k \in 1..n PROVE L[k] \in Elements(W)
  <2>1. PICK i \in 1..(n + 1) : i # p + 1 /\ Old(i, p) = k
    BY <1>4
  <2>2. W[i] = L[k]
    BY <1>3, <2>1
  <2> QED
    BY <1>5, <2>2 DEF Elements
<1>11. Elements(L) \subseteq Elements(W)
  BY <1>5, <1>10 DEF Elements
<1>12. Elements(W) = Elements(L) \cup {t}
  BY <1>8, <1>9, <1>11
<1> QED
  BY <1>1, <1>2, <1>3, <1>7, <1>12 DEF W

\* insert_task keeps a list a list, in the order of urgency.
LEMMA InsertKeeps ==
    ASSUME NEW L, NEW head, NEW link \in [Tasks -> Tasks \cup {NoTask}], NEW t \in Tasks, NEW due \in Int,
           due_time \in [Tasks -> Int],
           IsList(L, head, link, due_time), t \notin Elements(L), InsertTask(t, due, head, link)
    PROVE  /\ \E p \in 0..Len(L) : IsList(With(L, t, p), first_task', next', due_time')
           /\ due_time' = [due_time EXCEPT ![t] = due]
           /\ next' \in [Tasks -> Tasks \cup {NoTask}]
<1> DEFINE node == Nodes(head, link)
           pos == CHOOSE k \in DOMAIN node : /\ GoesBefore(t, due, node[k])
                                             /\ \A j \in 0..(k - 1) : ~GoesBefore(t, due, node[j])
<1>1. L \in Seq(Tasks) /\ Distinct(L) /\ Ordered(L, due_time) /\ Follows(L, head, link)
  BY DEF IsList
<1>2. Len(L) \in Nat /\ Len(L) < Last /\ Last \in Nat
  BY <1>1, NotTooLong, LastIs
<1>3. node = [k \in 0..Last |-> IF k < Len(L) THEN L[k + 1] ELSE NoTask]
  BY <1>1, <1>2, NodesAre
<1>4. /\ due_time' = [due_time EXCEPT ![t] = due]
      /\ first_task' = IF pos = 0 THEN t ELSE head
      /\ next' = Linked(t, pos, node, link)
  BY DEF InsertTask
<1> HIDE DEF node
<1>5. \E k \in 0..Len(L) : /\ GoesBefore(t, due, node[k])
                          /\ \A j \in 0..(k - 1) : ~GoesBefore(t, due, node[j])
  <2> DEFINE S == {k \in 0..Len(L) : GoesBefore(t, due, node[k])}
  <2>1. node[Len(L)] = NoTask
    BY <1>2, <1>3
  <2>2. Len(L) \in S /\ S \in SUBSET Nat
    BY <1>2, <2>1 DEF GoesBefore
  <2>3. PICK k \in S : \A j \in S : j >= k
    BY <2>2, Least
  <2>4. \A j \in 0..(k - 1) : j \notin S /\ j \in 0..Len(L)
    BY <1>2, <2>2, <2>3
  <2> QED
    BY <2>3, <2>4
<1>6. \E k \in DOMAIN node : /\ GoesBefore(t, due, node[k])
                            /\ \A j \in 0..(k - 1) : ~GoesBefore(t, due, node[j])
  <2>1. PICK k \in 0..Len(L) : /\ GoesBefore(t, due, node[k])
                               /\ \A j \in 0..(k - 1) : ~GoesBefore(t, due, node[j])
    BY <1>5
  <2>2. DOMAIN node = 0..Last
    BY <1>3
  <2>3. k \in 0..Last
    BY <1>2
  <2> QED
    BY <2>1, <2>2, <2>3
<1>7. /\ pos \in DOMAIN node /\ GoesBefore(t, due, node[pos])
      /\ \A j \in 0..(pos - 1) : ~GoesBefore(t, due, node[j])
  BY <1>6
<1> HIDE DEF pos
<1>8. PICK p \in 0..Len(L) : p = pos
  <2>1. PICK k \in 0..Len(L) : GoesBefore(t, due, node[k])
    BY <1>5
  <2>2. pos \in 0..Last
    BY <1>3, <1>7
  <2>3. ~(k \in 0..(pos - 1))
    BY <1>7, <2>1
  <2> QED
    BY <1>2, <2>2, <2>3
<1>9. /\ \A i \in 1..p : ~GoesBefore(t, due, L[i])
      /\ p < Len(L) => GoesBefore(t, due, L[p + 1])
  <2>1. ASSUME NEW i \in 1..p PROVE ~GoesBefore(t, due, L[i])
    <3>1. i - 1 \in 0..(pos - 1) /\ i - 1 < Len(L) /\ i - 1 \in 0..Last /\ (i - 1) + 1 = i
      BY <1>2, <1>8
    <3>2. node[i - 1] = L[i]
      BY <1>3, <3>1
    <3> QED
      BY <1>7, <3>1, <3>2
  <2>2. ASSUME p < Len(L) PROVE GoesBefore(t, due, L[p + 1])
    <3>1. node[p] = L[p + 1]
      BY <1>2, <1>3, <2>2
    <3> QED
      BY <1>7, <1>8, <3>1
  <2> QED
    BY <2>1, <2>2
<1> DEFINE W == With(L, t, p)
<1>10. /\ W \in Seq(Tasks) /\ Len(W) = Len(L) + 1 /\ DOMAIN W = 1..(Len(L) + 1) /\ Distinct(W)
       /\ W[p + 1] = t /\ \A i \in 1..(Len(L) + 1) : i # p + 1 => W[i] = L[Old(i, p)]
  BY <1>1, WithIs
<1>11. \A i \in DOMAIN L : L[i] \in Tasks /\ L[i] # t /\ L[i] # NoTask
  BY <1>1, ConstantsAssumption DEF Elements
<1> HIDE DEF W
<1> PICK n \in Nat : n = Len(L)
  BY <1>2
<1>12. DOMAIN L = 1..n /\ DOMAIN W = 1..(n + 1) /\ p \in 0..n /\ Len(W) = n + 1
  BY <1>1, <1>10
<1>13. /\ \A i \in 1..(n + 1) : i # p + 1 => Old(i, p) \in 1..n
       /\ \A i, j \in 1..(n + 1) : i # p + 1 /\ j # p + 1 => (Old(i, p) < Old(j, p) <=> i < j)
  BY <1>12, OldIs
<1>14. \A i \in 1..n : due_time'[L[i]] = due_time[L[i]] /\ due_time'[L[i]] \in Int /\ Priority[L[i]] \in Int
  BY <1>4, <1>11, <1>12, ConstantsAssumption
<1>15. due_time'[t] = due /\ Priority[t] \in Int
  BY <1>4, ConstantsAssumption
<1>16. \A i \in 1..p : ~MoreUrgent(due_time', t, L[i])
  <2> SUFFICES ASSUME NEW i \in 1..p PROVE ~MoreUrgent(due_time', t, L[i])
    OBVIOUS
  <2>1. ~(due_time[L[i]] > due) /\ ~(due_time[L[i]] = due /\ Priority[L[i]] <= Priority[t])
    BY <1>9 DEF GoesBefore
  <2>2. i \in 1..n
    BY <1>12
  <2> QED
    BY <1>14, <1>15, <2>1, <2>2 DEF MoreUrgent
<1>17. \A i \in (p + 1)..n : ~MoreUrgent(due_time', L[i], t)
  <2> SUFFICES ASSUME NEW i \in (p + 1)..n PROVE ~MoreUrgent(due_time', L[i], t)
    OBVIOUS
  <2>1. p + 1 \in 1..n /\ i \in 1..n
    BY <1>12
  <2>2. GoesBefore(t, due, L[p + 1]) /\ L[p + 1] # NoTask
    BY <1>9, <1>11, <1>12, <2>1
  <2>3. ~MoreUrgent(due_time', L[p + 1], t)
    BY <1>14, <1>15, <2>1, <2>2 DEF GoesBefore, MoreUrgent
  <2>4. i = p + 1 \/ ~MoreUrgent(due_time, L[i], L[p + 1])
    <3>1. i = p + 1 \/ p + 1 < i
      BY <1>12
    <3>2. \A j, k \in 1..n : j < k => ~MoreUrgent(due_time, L[k], L[j])
      BY <1>1, <1>12 DEF Ordered
    <3> QED
      BY <2>1, <3>1, <3>2
  <2> QED
    BY <1>14, <1>15, <2>1, <2>3, <2>4 DEF MoreUrgent
<1>18. Ordered(W, due_time')
  <2> SUFFICES ASSUME NEW i \in 1..(n + 1), NEW j \in 1..(n + 1), i < j
               PROVE  ~MoreUrgent(due_time', W[j], W[i])
    BY <1>12 DEF Ordered
  <2>1. CASE i = p + 1
    <3>1. W[i] = t /\ W[j] = L[Old(j, p)] /\ Old(j, p) \in (p + 1)..n
      BY <1>10, <1>12, <1>13, <2>1 DEF Old
    <3> QED
      BY <1>17, <3>1
  <2>2. CASE j = p + 1
    <3>1. W[j] = t /\ W[i] = L[Old(i, p)] /\ Old(i, p) \in 1..p
      BY <1>10, <1>12, <1>13, <2>2 DEF Old
    <3> QED
      BY <1>16, <3>1
  <2>3. CASE i # p + 1 /\ j # p + 1
    <3>1. /\ W[i] = L[Old(i, p)] /\ W[j] = L[Old(j, p)] /\ Old(i, p) < Old(j, p)
          /\ Old(i, p) \in 1..n /\ Old(j, p) \in 1..n
      BY <1>10, <1>12, <1>13, <2>3
    <3>2. ~MoreUrgent(due_time, L[Old(j, p)], L[Old(i, p)])
      BY <1>1, <1>12, <3>1 DEF Ordered
    <3> QED
      BY <1>14, <3>1, <3>2 DEF MoreUrgent
  <2> QED
    BY <2>1, <2>2, <2>3
<1>19. node[p] = (IF p < n THEN L[p + 1] ELSE NoTask) /\ (p > 0 => node[p - 1] = L[p] /\ L[p] \in Tasks)
  <2>1. p \in 0..Last /\ (p > 0 => p - 1 \in 0..Last /\ p - 1 < n /\ (p - 1) + 1 = p /\ p \in 1..n)
    BY <1>2, <1>12
  <2> QED
    BY <1>3, <1>11, <1>12, <2>1
<1>20. /\ next'[t] = IF p < n THEN L[p + 1] ELSE NoTask
       /\ p > 0 => next'[L[p]] = t
       /\ \A u \in Tasks : u # t /\ (p > 0 => u # L[p]) => next'[u] = link[u]
       /\ next' \in [Tasks -> Tasks \cup {NoTask}]
  <2>1. p > 0 => L[p] # t /\ L[p] \in Tasks
    BY <1>11, <1>12
  <2>2. p < n => L[p + 1] \in Tasks
    BY <1>11, <1>12
  <2>3. CASE p = 0
    BY <1>4, <1>8, <1>19, <2>2, <2>3 DEF Linked
  <2>4. CASE p > 0
    BY <1>4, <1>8, <1>19, <2>1, <2>2, <2>4 DEF Linked
  <2> QED
    BY <1>12, <2>3, <2>4
<1>21. /\ \A i \in 1..(n + 1) : i <= p => W[i] = L[i]
       /\ \A i \in 1..(n + 1) : i > p + 1 => W[i] = L[i - 1]
  <2>1. \A i \in 1..(n + 1) : i # p + 1 => W[i] = L[Old(i, p)]
    BY <1>10
  <2>2. \A i \in 1..(n + 1) : (i <= p => i # p + 1 /\ Old(i, p) = i) /\ (i > p + 1 => i # p + 1 /\ Old(i, p) = i - 1)
    BY <1>12 DEF Old
  <2> QED
    BY <2>1, <2>2
<1>22. first_task' = W[1] /\ W # <<>>
  <2>1. 1 \in 1..(n + 1) /\ n + 1 > 0
    BY <1>12
  <2>2. CASE p = 0
    BY <1>4, <1>8, <1>10, <2>1, <2>2, <1>12
  <2>3. CASE p > 0
    <3>1. W[1] = L[1]
      BY <1>12, <1>21, <2>1, <2>3
    <3>2. head = L[1]
      BY <1>1, <1>12, <2>3 DEF Follows
    <3> QED
      BY <1>4, <1>8, <1>12, <2>1, <2>3, <3>1, <3>2
  <2> QED
    BY <1>12, <2>2, <2>3
<1>23. \A k \in 1..n : link[L[k]] = IF k < n THEN L[k + 1] ELSE NoTask
  BY <1>1, <1>12 DEF Follows
<1>24. ASSUME NEW k \in 1..n, k # p
       PROVE  next'[L[k]] = IF k < n THEN L[k + 1] ELSE NoTask
  <2>1. L[k] \in Tasks /\ L[k] # t
    BY <1>11, <1>12
  <2>2. \A i, j \in 1..n : L[i] = L[j] => i = j
    BY <1>1, <1>12 DEF Distinct
  <2>3. p > 0 => p \in 1..n
    BY <1>12
  <2>4. p > 0 => L[k] # L[p]
    BY <1>24, <2>2, <2>3
  <2>5. next'[L[k]] = link[L[k]]
    BY <1>20, <2>1, <2>4
  <2> QED
    BY <1>23, <2>5
<1>25. ASSUME NEW i \in 1..(n + 1)
       PROVE  next'[W[i]] = IF i < n + 1 THEN W[i + 1] ELSE NoTask
  <2>1. CASE i = p + 1
    <3>1. p < n => i + 1 \in 1..(n + 1) /\ i + 1 > p + 1 /\ (i + 1) - 1 = p + 1
      BY <1>12, <2>1
    <3>2. p < n => W[i + 1] = L[p + 1]
      BY <1>21, <3>1
    <3> QED
      BY <1>10, <1>12, <1>20, <2>1, <3>2
  <2>2. CASE i = p
    <3>1. i <= p /\ i < n + 1 /\ p > 0
      BY <1>12, <2>2
    <3>2. W[i] = L[p]
      BY <1>21, <2>2, <3>1
    <3> QED
      BY <1>10, <1>20, <2>2, <3>1, <3>2
  <2>3. CASE i < p
    <3>1. i <= p /\ i + 1 <= p /\ i + 1 \in 1..(n + 1) /\ i \in 1..n /\ i < n /\ i # p /\ i < n + 1
      BY <1>12, <2>3
    <3>2. W[i] = L[i]
      BY <1>21, <3>1
    <3>3. W[i + 1] = L[i + 1]
      BY <1>21, <3>1
    <3>4. next'[L[i]] = L[i + 1]
      BY <1>24, <3>1
    <3> QED
      BY <3>1, <3>2, <3>3, <3>4
  <2>4. CASE i > p + 1
    <3>1. i - 1 \in 1..n /\ i - 1 # p /\ (i - 1) + 1 = i
      BY <1>12, <2>4
    <3>2. W[i] = L[i - 1]
      BY <1>21, <2>4
    <3>3. i < n + 1 => W[i + 1] = L[i]
      <4>1. i < n + 1 => i + 1 \in 1..(n + 1) /\ i + 1 > p + 1 /\ (i + 1) - 1 = i
        BY <1>12, <2>4
      <4> QED
        BY <1>21, <4>1
    <3>4. next'[L[i - 1]] = IF i - 1 < n THEN L[i] ELSE NoTask
      BY <1>24, <3>1
    <3> QED
      BY <1>12, <3>1, <3>2, <3>3, <3>4
  <2> QED
    BY <1>12, <2>1, <2>2, <2>3, <2>4
<1>26. Follows(W, first_task', next')
  BY <1>12, <1>22, <1>25 DEF Follows
<1> QED
  BY <1>4, <1>10, <1>18, <1>20, <1>26 DEF IsList, W

-----------------------------------------------------------------------------
(* The list of the program *)

\* What is reached along the links is what the list has.
Reached(head, link) == {Nodes(head, link)[k] : k \in DOMAIN Nodes(head, link)} \ {NoTask}

LEMMA ReachedIs ==
    ASSUME NEW L, NEW head, NEW link, NEW due \in [Tasks -> Nat], IsList(L, head, link, due)
    PROVE  /\ Reached(head, link) = Elements(L)
           /\ \A k \in DOMAIN Nodes(head, link) : Nodes(head, link)[k] = NoTask <=> k >= Len(L)
           /\ L # <<>> => head = L[1] /\ head \in Elements(L) /\ head \in Tasks
           /\ L = <<>> => head = NoTask
           /\ \A t \in Elements(L) : t \in Tasks /\ ~MoreUrgent(due, t, head)
<1> DEFINE list == Nodes(head, link)
<1>1. L \in Seq(Tasks) /\ Follows(L, head, link) /\ Distinct(L) /\ Ordered(L, due)
  BY DEF IsList
<1>2. Len(L) \in Nat /\ Len(L) <= Last
  BY <1>1, NotTooLong
<1>3. list = [k \in 0..Last |-> IF k < Len(L) THEN L[k + 1] ELSE NoTask]
  BY <1>1, <1>2, NodesAre
<1> HIDE DEF list
<1>4. \A i \in 1..Len(L) : L[i] \in Tasks /\ L[i] # NoTask
  BY <1>1, ConstantsAssumption
<1>5. Reached(head, link) \subseteq Elements(L)
  BY <1>1, <1>2, <1>3 DEF Reached, Elements, list
<1>6. Elements(L) \subseteq Reached(head, link)
  <2> SUFFICES ASSUME NEW i \in 1..Len(L) PROVE L[i] \in Reached(head, link)
    BY <1>1 DEF Elements
  <2>1. i - 1 \in 0..Last /\ i - 1 < Len(L) /\ (i - 1) + 1 = i
    BY <1>2, LastIs
  <2>2. list[i - 1] = L[i] /\ i - 1 \in DOMAIN list
    BY <1>3, <2>1
  <2> QED
    BY <1>4, <2>2 DEF Reached, list
<1>7. \A k \in DOMAIN list : list[k] = NoTask <=> k >= Len(L)
  BY <1>2, <1>3, <1>4, LastIs
<1>8. L # <<>> => head = L[1] /\ 1 \in DOMAIN L /\ head \in Elements(L)
  BY <1>1 DEF Follows, Elements
<1>9. L = <<>> => head = NoTask
  BY <1>1 DEF Follows
<1>10. ASSUME NEW i \in DOMAIN L PROVE L[i] \in Tasks /\ ~MoreUrgent(due, L[i], head)
  <2>1. \A j \in DOMAIN L : 1 < j => ~MoreUrgent(due, L[j], L[1])
    BY <1>1, <1>2 DEF Ordered
  <2>2. i = 1 \/ 1 < i
    BY <1>1, <1>2
  <2>3. L # <<>> /\ head = L[1]
    BY <1>1, <1>2, <1>8
  <2>4. L[i] \in Tasks /\ due[L[i]] \in Int /\ Priority[L[i]] \in Int
    BY <1>1, <1>4, ConstantsAssumption
  <2> QED
    BY <1>10, <2>1, <2>2, <2>3, <2>4 DEF MoreUrgent
<1> QED
  BY <1>4, <1>5, <1>6, <1>7, <1>8, <1>9, <1>10 DEF Elements, list

\* Without its first task a list is a list.
LEMMA RestIs ==
    ASSUME NEW L, NEW head, NEW link \in [Tasks -> Tasks \cup {NoTask}], NEW due, IsList(L, head, link, due),
           L # <<>>
    PROVE  /\ IsList(Tail(L), link[head], [link EXCEPT ![head] = NoTask], due)
           /\ head \notin Elements(Tail(L)) /\ Elements(L) = Elements(Tail(L)) \cup {head}
<1> DEFINE R == Tail(L)
<1>1. L \in Seq(Tasks) /\ Follows(L, head, link) /\ Distinct(L) /\ Ordered(L, due)
  BY DEF IsList
<1>2. PICK n \in Nat : Len(L) = n + 1
  <2>1. Len(L) \in Nat /\ Len(L) # 0
    BY <1>1
  <2>2. Len(L) - 1 \in Nat /\ Len(L) = (Len(L) - 1) + 1
    BY <2>1
  <2> QED
    BY <2>2
<1>3. R \in Seq(Tasks) /\ Len(R) = n /\ DOMAIN R = 1..n /\ \A i \in 1..n : R[i] = L[i + 1]
  BY <1>1, <1>2
<1>4. head = L[1] /\ head \in Tasks /\ DOMAIN L = 1..(n + 1)
  BY <1>1, <1>2 DEF Follows
<1> HIDE DEF R
<1>5. \A i \in 1..n : i + 1 \in 1..(n + 1) /\ i + 1 # 1 /\ 1 \in 1..(n + 1)
  BY <1>2
<1>6. \A i \in 1..n : R[i] # head
  BY <1>1, <1>3, <1>4, <1>5 DEF Distinct
<1>7. Distinct(R)
  <2> SUFFICES ASSUME NEW i \in 1..n, NEW j \in 1..n, R[i] = R[j] PROVE i = j
    BY <1>3 DEF Distinct
  <2>1. L[i + 1] = L[j + 1] /\ i + 1 \in DOMAIN L /\ j + 1 \in DOMAIN L
    BY <1>3, <1>4, <1>5
  <2>2. i + 1 = j + 1
    BY <1>1, <2>1 DEF Distinct
  <2> QED
    BY <2>2
<1>8. Ordered(R, due)
  <2> SUFFICES ASSUME NEW i \in 1..n, NEW j \in 1..n, i < j PROVE ~MoreUrgent(due, R[j], R[i])
    BY <1>3 DEF Ordered
  <2>1. i + 1 < j + 1 /\ i + 1 \in DOMAIN L /\ j + 1 \in DOMAIN L
    BY <1>4, <1>5
  <2>2. ~MoreUrgent(due, L[j + 1], L[i + 1])
    BY <1>1, <2>1 DEF Ordered
  <2> QED
    BY <1>3, <2>2
<1>9. link[head] = IF R = <<>> THEN NoTask ELSE R[1]
  <2>1. link[L[1]] = IF 1 < n + 1 THEN L[1 + 1] ELSE NoTask
    BY <1>1, <1>2, <1>4 DEF Follows
  <2>2. R = <<>> <=> n = 0
    BY <1>3
  <2>3. n # 0 => 1 \in 1..n /\ R[1] = L[1 + 1]
    BY <1>3
  <2> QED
    BY <1>4, <2>1, <2>2, <2>3
<1>10. ASSUME NEW i \in 1..n
       PROVE  [link EXCEPT ![head] = NoTask][R[i]] = IF i < n THEN R[i + 1] ELSE NoTask
  <2>1. R[i] \in Tasks
    BY <1>3
  <2>2. link[L[i + 1]] = IF i + 1 < n + 1 THEN L[(i + 1) + 1] ELSE NoTask
    BY <1>1, <1>2, <1>4, <1>5 DEF Follows
  <2>3. i < n => i + 1 \in 1..n /\ R[i + 1] = L[(i + 1) + 1]
    BY <1>3
  <2> QED
    BY <1>3, <1>6, <2>1, <2>2, <2>3
<1>11. Follows(R, link[head], [link EXCEPT ![head] = NoTask])
  BY <1>3, <1>9, <1>10 DEF Follows
<1>12. head \notin Elements(R)
  BY <1>3, <1>6 DEF Elements
<1>13. Elements(L) = Elements(R) \cup {head}
  <2>1. \A k \in 1..(n + 1) : k = 1 \/ \E i \in 1..n : k = i + 1
    <3> TAKE k \in 1..(n + 1)
    <3>1. k = 1 \/ (k - 1 \in 1..n /\ k = (k - 1) + 1)
      BY <1>2
    <3> QED
      BY <3>1
  <2>2. Elements(L) \subseteq Elements(R) \cup {head}
    <3> SUFFICES ASSUME NEW k \in 1..(n + 1) PROVE L[k] \in Elements(R) \cup {head}
      BY <1>4 DEF Elements
    <3>1. CASE k = 1
      BY <1>4, <3>1
    <3>2. CASE k # 1
      <4>1. PICK i \in 1..n : k = i + 1
        BY <2>1, <3>2
      <4>2. L[k] = R[i]
        BY <1>3, <4>1
      <4> QED
        BY <1>3, <4>2 DEF Elements
    <3> QED
      BY <3>1, <3>2
  <2>3. Elements(R) \cup {head} \subseteq Elements(L)
    BY <1>3, <1>4, <1>5, 1 \in 1..(n + 1) DEF Elements
  <2> QED
    BY <2>2, <2>3
<1> QED
  BY <1>3, <1>7, <1>8, <1>11, <1>12, <1>13 DEF IsList, R

\* There is a list; it holds tasks that were added, and those that were not
\* are due at once.
ListInv ==
    /\ added \in 0..Len(AddOrder) /\ now \in Nat /\ overrun \in Nat
    /\ due_time \in [Tasks -> 0..(ClockMod - 1)] /\ next \in [Tasks -> Tasks \cup {NoTask}]
    /\ \E L : /\ IsList(L, first_task, next, due_time)
              /\ Elements(L) \subseteq {AddOrder[i] : i \in 1..added}
    /\ \A i \in 1..Len(AddOrder) : i > added => due_time[AddOrder[i]] = 0

LEMMA DueIs ==
    ASSUME due_time \in [Tasks -> 0..(ClockMod - 1)]
    PROVE  due_time \in [Tasks -> Nat] /\ due_time \in [Tasks -> Int]
  BY ConstantsAssumption

LEMMA ListInit ==
    ASSUME Init PROVE ListInv
<1>1. IsList(<<>>, first_task, next, due_time) /\ Elements(<<>>) = {}
  BY DEF Init, IsList, Distinct, Ordered, Follows, Elements
<1>2. Len(AddOrder) \in Nat /\ \A i \in 1..Len(AddOrder) : AddOrder[i] \in Tasks
  BY ConstantsAssumption
<1> QED
  BY <1>1, <1>2, ConstantsAssumption DEF Init, ListInv

\* A task that is added was not in the list and was due at once.
LEMMA AddIs ==
    ASSUME ListInv, AddTask
    PROVE  /\ ListInv'
           /\ \E t \in Tasks : /\ t \notin Listed /\ Listed' = Listed \cup {t}
                               /\ t = AddOrder[added + 1]
                               /\ due_time' = due_time
<1> DEFINE t == AddOrder[added + 1]
<1>1. /\ added \in 0..Len(AddOrder) /\ added < Len(AddOrder) /\ added' = added + 1 /\ now' = now
      /\ overrun' = overrun
      /\ InsertTask(t, 0, first_task, next)
      /\ due_time \in [Tasks -> 0..(ClockMod - 1)] /\ due_time \in [Tasks -> Nat] /\ due_time \in [Tasks -> Int]
      /\ next \in [Tasks -> Tasks \cup {NoTask}]
  BY DueIs DEF ListInv, AddTask
<1>2. PICK L : /\ IsList(L, first_task, next, due_time)
               /\ Elements(L) \subseteq {AddOrder[i] : i \in 1..added}
  BY DEF ListInv
<1>3. Len(AddOrder) \in Nat /\ added + 1 \in 1..Len(AddOrder) /\ t \in Tasks
  BY <1>1, ConstantsAssumption
<1>4. \A i \in 1..Len(AddOrder) : AddOrder[i] = t => i = added + 1
  BY <1>3, ConstantsAssumption
<1>5. t \notin Elements(L) /\ due_time[t] = 0
  BY <1>1, <1>2, <1>3, <1>4 DEF ListInv
<1> HIDE DEF t
<1>6. /\ \E p \in 0..Len(L) : IsList(With(L, t, p), first_task', next', due_time')
      /\ due_time' = [due_time EXCEPT ![t] = 0]
      /\ next' \in [Tasks -> Tasks \cup {NoTask}]
  BY <1>1, <1>2, <1>3, <1>5, InsertKeeps
<1>7. PICK p \in 0..Len(L) : IsList(With(L, t, p), first_task', next', due_time')
  BY <1>6
<1>8. Elements(With(L, t, p)) = Elements(L) \cup {t}
  BY <1>2, <1>3, <1>5, WithIs DEF IsList
<1>9. due_time' = due_time
  BY <1>1, <1>3, <1>5, <1>6
<1>10. Listed = Elements(L) /\ Listed' = Elements(With(L, t, p))
  BY <1>1, <1>2, <1>7, <1>9, ReachedIs DEF Listed, List, Reached
<1>11. Elements(With(L, t, p)) \subseteq {AddOrder[i] : i \in 1..added'}
  BY <1>1, <1>2, <1>3, <1>8 DEF t
<1>12. ListInv'
  <2>1. added' \in 0..Len(AddOrder) /\ now' \in Nat /\ overrun' \in Nat
    BY <1>1, <1>3 DEF ListInv
  <2>2. \E K : /\ IsList(K, first_task', next', due_time')
               /\ Elements(K) \subseteq {AddOrder[i] : i \in 1..added'}
    BY <1>7, <1>11
  <2>3. \A i \in 1..Len(AddOrder) : i > added' => due_time'[AddOrder[i]] = 0
    <3>1. \A i \in 1..Len(AddOrder) : i > added => due_time[AddOrder[i]] = 0
      BY DEF ListInv
    <3> QED
      BY <1>1, <1>3, <1>9, <3>1
  <2> QED
    BY <1>1, <1>6, <1>9, <2>1, <2>2, <2>3 DEF ListInv
<1> QED
  BY <1>3, <1>5, <1>8, <1>9, <1>10, <1>12 DEF t

\* What a run takes of the time, and by how much that is too long.
LEMMA RunTakes ==
    ASSUME RunFirst, first_task \in Tasks, now \in Nat, overrun \in Nat
    PROVE  \E ticks \in Nat : \E more \in Overruns[first_task] :
              /\ ticks <= RunTime[first_task] + 1 /\ RunTime[first_task] \in Nat
              /\ more \in Nat
              /\ now' = now + ticks + more /\ overrun' = overrun + more
<1>1. PICK ticks \in 0..(RunTime[first_task] + 1), more \in Overruns[first_task] :
         now' = now + ticks + more /\ overrun' = overrun + more
  BY DEF RunFirst
<1>2. RunTime[first_task] \in Nat /\ Overruns[first_task] \in SUBSET Nat
  BY ConstantsAssumption
<1>3. more \in Nat
  BY <1>2, Zenon
<1>4. ticks \in Nat /\ ticks <= RunTime[first_task] + 1
  BY <1>2
<1> QED
  BY <1>1, <1>2, <1>3, <1>4, Zenon

\* A pass runs the most urgent task of the list, and keeps it if its routine
\* names an interval.
LEMMA RunIs ==
    ASSUME ListInv, RunFirst
    PROVE  /\ ListInv'
           /\ first_task \in Listed /\ first_task \in Tasks
           /\ \A u \in Listed : ~MoreUrgent(due_time, u, first_task)
           /\ \E interval \in Intervals[first_task] :
                 /\ Listed' = IF interval = 0 THEN Listed \ {first_task} ELSE Listed
                 /\ due_time' = IF interval = 0 THEN due_time
                                ELSE [due_time EXCEPT ![first_task] = DueNext(first_task, interval)]
<1> DEFINE t == first_task
           cut == [next EXCEPT ![t] = NoTask]
<1>1. /\ added \in 0..Len(AddOrder) /\ added = Len(AddOrder) /\ added' = added /\ now \in Nat /\ t # NoTask
      /\ due_time \in [Tasks -> 0..(ClockMod - 1)] /\ due_time \in [Tasks -> Nat] /\ due_time \in [Tasks -> Int]
      /\ next \in [Tasks -> Tasks \cup {NoTask}]
  BY DueIs DEF ListInv, RunFirst, FirstIsDue
<1>2. PICK L : /\ IsList(L, t, next, due_time)
               /\ Elements(L) \subseteq {AddOrder[i] : i \in 1..added}
  BY DEF ListInv
<1>3. /\ L # <<>> /\ t \in Elements(L) /\ t \in Tasks /\ Listed = Elements(L)
      /\ \A u \in Listed : ~MoreUrgent(due_time, u, t)
  BY <1>1, <1>2, ReachedIs DEF Listed, List, Reached
<1>4. /\ IsList(Tail(L), next[t], cut, due_time)
      /\ t \notin Elements(Tail(L)) /\ Elements(L) = Elements(Tail(L)) \cup {t}
  BY <1>1, <1>2, <1>3, RestIs
<1>5. cut \in [Tasks -> Tasks \cup {NoTask}]
  BY <1>1, <1>3
<1>6. now' \in Nat /\ overrun' \in Nat
  <2>1. now \in Nat /\ overrun \in Nat /\ first_task \in Tasks
    BY <1>3 DEF ListInv
  <2>2. PICK ticks \in Nat : \E more \in Overruns[t] :
           more \in Nat /\ now' = now + ticks + more /\ overrun' = overrun + more
    BY <2>1, RunTakes, Zenon
  <2>3. PICK more \in Nat : now' = now + ticks + more /\ overrun' = overrun + more
    BY <2>2, Zenon
  <2> HIDE DEF t, cut
  <2> QED
    BY <2>1, <2>3
<1>7. PICK interval \in Intervals[t] :
           IF interval > 0
           THEN InsertTask(t, DueNext(t, interval), next[t], cut)
           ELSE first_task' = next[t] /\ next' = cut /\ UNCHANGED due_time
  BY DEF RunFirst
<1>8. interval \in Nat /\ due_time[t] + interval \in Nat /\ DueNext(t, interval) \in Nat
      /\ DueNext(t, interval) \in 0..(ClockMod - 1)
  <2>1. interval \in Nat /\ due_time[t] + interval \in Nat
    BY <1>1, <1>3, ConstantsAssumption
  <2>2. ClockMod \in Nat \ {0}
    BY ConstantsAssumption
  <2>3. \A x \in Nat : x % ClockMod \in Nat /\ x % ClockMod \in 0..(ClockMod - 1)
    BY <2>2
  <2> QED
    BY <2>1, <2>3 DEF DueNext
<1> HIDE DEF cut
<1>9. CASE interval = 0
  <2>1. first_task' = next[t] /\ next' = cut /\ due_time' = due_time
    BY <1>7, <1>9
  <2>2. Listed' = Elements(Tail(L))
    BY <1>1, <1>4, <2>1, ReachedIs DEF Listed, List, Reached
  <2>3. ListInv'
    BY <1>1, <1>2, <1>4, <1>5, <1>6, <2>1 DEF ListInv
  <2> QED
    BY <1>3, <1>4, <1>9, <2>1, <2>2, <2>3
<1>10. CASE interval > 0
  <2>1. InsertTask(t, DueNext(t, interval), next[t], cut) /\ DueNext(t, interval) \in Int
    BY <1>7, <1>8, <1>10
  <2>2. /\ \E p \in 0..Len(Tail(L)) : IsList(With(Tail(L), t, p), first_task', next', due_time')
        /\ due_time' = [due_time EXCEPT ![t] = DueNext(t, interval)]
        /\ next' \in [Tasks -> Tasks \cup {NoTask}]
    BY <1>1, <1>3, <1>4, <1>5, <2>1, InsertKeeps
  <2>3. PICK p \in 0..Len(Tail(L)) : IsList(With(Tail(L), t, p), first_task', next', due_time')
    BY <2>2
  <2>4. Elements(With(Tail(L), t, p)) = Elements(L)
    BY <1>3, <1>4, WithIs DEF IsList
  <2>5. due_time' \in [Tasks -> Nat] /\ due_time' \in [Tasks -> 0..(ClockMod - 1)]
    BY <1>1, <1>3, <1>8, <2>2
  <2>6. Listed' = Elements(L)
    BY <2>3, <2>4, <2>5, ReachedIs DEF Listed, List, Reached
  <2>7. ListInv'
    BY <1>1, <1>2, <1>6, <2>2, <2>3, <2>4, <2>5 DEF ListInv
  <2> QED
    <3>1. /\ Listed' = IF interval = 0 THEN Listed \ {t} ELSE Listed
          /\ due_time' = IF interval = 0 THEN due_time
                         ELSE [due_time EXCEPT ![t] = DueNext(t, interval)]
      BY <1>3, <1>10, <2>2, <2>6
    <3> QED
      BY <1>3, <2>7, <3>1
<1> QED
  BY <1>8, <1>9, <1>10

LEMMA ListNext ==
    ASSUME ListInv, [Next]_vars PROVE ListInv'
<1>1. CASE AddTask
  BY <1>1, AddIs
<1>2. CASE RunFirst
  BY <1>2, RunIs
<1>3. CASE NothingDue
  <2>1. PICK ticks \in 0..1 : now' = now + ticks
    BY <1>3 DEF NothingDue
  <2>2. now' \in Nat
    BY <2>1 DEF ListInv
  <2> QED
    BY <1>3, <2>2 DEF NothingDue, ListInv
<1>4. CASE SysTick
  <2>1. now' \in Nat
    BY <1>4 DEF SysTick, ListInv
  <2> QED
    BY <1>4, <2>1 DEF SysTick, ListInv
<1>5. CASE OtherInterrupt
  BY <1>5 DEF OtherInterrupt, ListInv
<1>6. CASE UNCHANGED vars
  BY <1>6 DEF vars, ListInv
<1> QED
  BY <1>1, <1>2, <1>3, <1>4, <1>5, <1>6 DEF Next

\* What the list has is due no earlier than its first task.
LEMMA FirstIs ==
    ASSUME ListInv
    PROVE  /\ Listed \subseteq Tasks
           /\ first_task = NoTask => Listed = {}
           /\ first_task # NoTask => /\ first_task \in Listed
                                     /\ \A u \in Listed : due_time[u] >= due_time[first_task]
<1>1. due_time \in [Tasks -> Nat]
  BY DueIs DEF ListInv
<1>2. PICK L : /\ IsList(L, first_task, next, due_time)
               /\ Elements(L) \subseteq {AddOrder[i] : i \in 1..added}
  BY DEF ListInv
<1>3. /\ Listed = Elements(L) /\ \A u \in Listed : u \in Tasks /\ ~MoreUrgent(due_time, u, first_task)
      /\ L # <<>> => first_task \in Elements(L) /\ first_task \in Tasks
      /\ L = <<>> => first_task = NoTask
  BY <1>1, <1>2, ReachedIs DEF Listed, List, Reached
<1>4. first_task = NoTask => L = <<>>
  BY <1>3, ConstantsAssumption
<1>5. Elements(<<>>) = {}
  BY DEF Elements
<1>6. ASSUME first_task # NoTask, NEW u \in Listed PROVE due_time[u] >= due_time[first_task]
  <2>1. first_task \in Tasks
    BY <1>3, <1>6
  <2> QED
    BY <1>1, <1>3, <1>6, <2>1 DEF MoreUrgent
<1> QED
  BY <1>3, <1>4, <1>5, <1>6

-----------------------------------------------------------------------------
(* The list against the timer it implements *)

\* The list is no more than a way to find the most urgent task: for every set
\* of tasks, priorities and intervals, over any number of wraps of the clock.
THEOREM ListIsTimer == Spec => ImplementsTaskTimer
<1>1. Init => Timer!Init
  <2> SUFFICES ASSUME Init PROVE Timer!Init
    OBVIOUS
  <2>1. Listed = {}
    BY ListInit, FirstIs DEF Init
  <2> QED
    BY <2>1 DEF Init, Timer!Init
<1>2. ListInv /\ [Next]_vars => [Timer!Next]_Timer!vars
  <2> SUFFICES ASSUME ListInv, [Next]_vars PROVE Timer!Next \/ UNCHANGED <<Listed, due_time, awake, now>>
    BY DEF Timer!vars
  <2>1. CASE AddTask
    <3>1. PICK t \in Tasks : t \notin Listed /\ Listed' = Listed \cup {t} /\ due_time' = due_time
      BY <2>1, AddIs
    <3>2. Timer!Add(t)
      BY <2>1, <3>1 DEF AddTask, Timer!Add
    <3> QED
      BY <3>1, <3>2 DEF Timer!Next
  <2>2. CASE RunFirst
    <3> DEFINE t == first_task
    <3>1. t \in Listed /\ t \in Tasks /\ \A u \in Listed : ~MoreUrgent(due_time, u, t)
      BY <2>2, RunIs
    <3>2. PICK interval \in Intervals[t] :
             /\ Listed' = IF interval = 0 THEN Listed \ {t} ELSE Listed
             /\ due_time' = IF interval = 0 THEN due_time
                            ELSE [due_time EXCEPT ![t] = DueNext(t, interval)]
      BY <2>2, RunIs
    <3>3. awake /\ ~awake' /\ awake' = FALSE /\ now % ClockMod >= due_time[t]
      BY <2>2 DEF RunFirst, FirstIsDue, millis
    <3>4. \E more \in Overruns[t] : now' \in (now + more)..(now + more + RunTime[t] + 1)
      <4>1. now \in Nat /\ overrun \in Nat
        BY DEF ListInv
      <4>2. PICK ticks \in Nat : \E more \in Overruns[t] :
               /\ ticks <= RunTime[t] + 1 /\ RunTime[t] \in Nat
               /\ more \in Nat /\ now' = now + ticks + more
        BY <2>2, <3>1, <4>1, RunTakes, Zenon
      <4>3. PICK more \in Overruns[t] :
               /\ ticks <= RunTime[t] + 1 /\ RunTime[t] \in Nat
               /\ more \in Nat /\ now' = now + ticks + more
        BY <4>2
      <4>4. now' \in (now + more)..(now + more + RunTime[t] + 1)
        <5> HIDE DEF t
        <5> QED
          BY <4>1, <4>3
      <4> QED
        BY <4>4
    <3>5. due_time' = [due_time EXCEPT ![t] = (@ + interval) % ClockMod]
      <4>1. due_time \in [Tasks -> 0..(ClockMod - 1)] /\ ClockMod \in Nat \ {0}
        BY ConstantsAssumption DEF ListInv
      <4>2. \A x \in 0..(ClockMod - 1) : (x + 0) % ClockMod = x
        BY <4>1
      <4>3. CASE interval = 0
        BY <3>1, <3>2, <4>1, <4>2, <4>3
      <4>4. CASE interval # 0
        BY <3>2, <4>4 DEF DueNext
      <4> QED
        BY <4>3, <4>4
    <3>6. \A u \in Listed : ~Timer!MoreUrgent(u, t)
      BY <3>1 DEF Timer!MoreUrgent, MoreUrgent
    <3>7. Timer!Run(t, interval)
      BY <3>1, <3>2, <3>3, <3>4, <3>5, <3>6 DEF Timer!Run
    <3> QED
      BY <3>1, <3>7 DEF Timer!Next
  <2>3. CASE NothingDue
    <3>1. \A t \in Listed : now % ClockMod < due_time[t]
      <4>1. due_time \in [Tasks -> Nat] /\ now % ClockMod \in Int
        BY DueIs, ConstantsAssumption DEF ListInv
      <4>2. CASE first_task = NoTask
        BY <4>2, FirstIs
      <4>3. CASE first_task # NoTask
        <5>1. ~(now % ClockMod >= due_time[first_task])
          BY <2>3, <4>3 DEF NothingDue, FirstIsDue, millis
        <5> QED
          BY <4>1, <4>3, <5>1, FirstIs
      <4> QED
        BY <4>2, <4>3
    <3>2. now' \in now..(now + 1)
      <4>1. PICK ticks \in 0..1 : now' = now + ticks
        BY <2>3 DEF NothingDue
      <4> QED
        BY <4>1 DEF ListInv
    <3>3. UNCHANGED <<Listed, due_time>>
      BY <2>3 DEF NothingDue, Listed, List
    <3> QED
      BY <2>3, <3>1, <3>2, <3>3 DEF NothingDue, Timer!NothingDue, Timer!Next
  <2>4. CASE SysTick \/ OtherInterrupt
    <3>1. now' \in now..(now + 1)
      BY <2>4 DEF SysTick, OtherInterrupt, ListInv
    <3>2. UNCHANGED <<Listed, due_time>>
      BY <2>4 DEF SysTick, OtherInterrupt, Listed, List
    <3> QED
      BY <2>4, <3>1, <3>2 DEF SysTick, OtherInterrupt, Timer!Interrupt, Timer!Next
  <2>5. CASE UNCHANGED vars
    BY <2>5 DEF vars, Listed, List
  <2> QED
    BY <2>1, <2>2, <2>3, <2>4, <2>5 DEF Next
<1>3. Init => ListInv
  BY ListInit
<1>4. ListInv /\ [Next]_vars => ListInv'
  BY ListNext
<1> QED
  BY <1>1, <1>2, <1>3, <1>4, PTL DEF Spec, ImplementsTaskTimer, Timer!Spec

-----------------------------------------------------------------------------
(* Nobody falls off the list *)

\* No routine of the program ends its task (settings.cpp).
NoTaskEnds == \A t \in Tasks : 0 \notin Intervals[t]

AllInv == ListInv /\ Listed = {AddOrder[i] : i \in 1..added}

\* The list ends after as many tasks as were added.
LEMMA AllIs ==
    ASSUME AllInv PROVE NobodyIsLost
<1>1. due_time \in [Tasks -> Nat] /\ added \in 0..Len(AddOrder)
  BY DueIs DEF AllInv, ListInv
<1>2. PICK L : IsList(L, first_task, next, due_time)
  BY DEF AllInv, ListInv
<1>3. /\ Listed = Elements(L)
      /\ \A k \in DOMAIN List : List[k] = NoTask <=> k >= Len(L)
  BY <1>1, <1>2, ReachedIs DEF Listed, List, Reached
<1>4. Len(L) = added
  <2>1. L \in Seq(Tasks) /\ Distinct(L)
    BY <1>2 DEF IsList
  <2>2. L \in Bijection(1..Len(L), Listed) /\ Len(L) \in Nat
    BY <1>3, <2>1 DEF Distinct, Elements, Bijection, Injection, IsInjective, Surjection
  <2>3. /\ Len(AddOrder) \in Nat /\ added \in Nat
        /\ \A i \in 1..added : AddOrder[i] \in Tasks
        /\ \A i, j \in 1..added : AddOrder[i] = AddOrder[j] => i = j
    <3>1. Len(AddOrder) \in Nat /\ DOMAIN AddOrder = 1..Len(AddOrder)
      BY ConstantsAssumption
    <3>2. \A i \in 1..added : i \in DOMAIN AddOrder
      BY <1>1, <3>1
    <3>3. \A i \in DOMAIN AddOrder : AddOrder[i] \in Tasks
      BY ConstantsAssumption
    <3>4. \A i, j \in DOMAIN AddOrder : AddOrder[i] = AddOrder[j] => i = j
      BY ConstantsAssumption
    <3>5. added \in Nat
      BY <1>1, <3>1
    <3> QED
      BY <3>1, <3>2, <3>3, <3>4, <3>5
  <2> DEFINE f == [i \in 1..added |-> AddOrder[i]]
  <2>4. f \in Bijection(1..added, Listed)
    BY <2>3 DEF AllInv, Bijection, Injection, IsInjective, Surjection
  <2>5. ExistsBijection(1..Len(L), Listed) /\ ExistsBijection(1..added, Listed)
    BY <2>2, <2>4 DEF ExistsBijection
  <2>6. Cardinality(Listed) = Len(L)
    BY <2>2, <2>5, FS_CountingElements
  <2>7. Cardinality(Listed) = added
    BY <2>3, <2>5, FS_CountingElements
  <2> QED
    BY <2>6, <2>7
<1> QED
  BY <1>3, <1>4 DEF NobodyIsLost, AllInv

LEMMA AllInit ==
    ASSUME Init PROVE AllInv
<1>1. Listed = {}
  BY ListInit, FirstIs DEF Init
<1>2. {AddOrder[i] : i \in 1..0} = {}
  OBVIOUS
<1> QED
  BY <1>1, <1>2, ListInit DEF Init, AllInv

LEMMA AllNext ==
    ASSUME NoTaskEnds, AllInv, [Next]_vars PROVE AllInv'
<1>1. ListInv'
  BY ListNext DEF AllInv
<1>2. CASE AddTask
  <2>1. added' = added + 1 /\ added \in Nat
    BY <1>2, ConstantsAssumption DEF AddTask, AllInv, ListInv
  <2>2. Listed' = Listed \cup {AddOrder[added + 1]}
    BY <1>2, AddIs DEF AllInv
  <2>3. \A i : i \in 1..(added + 1) <=> i \in 1..added \/ i = added + 1
    BY <2>1
  <2>4. {AddOrder[i] : i \in 1..(added + 1)} = {AddOrder[i] : i \in 1..added} \cup {AddOrder[added + 1]}
    BY <2>3
  <2> QED
    BY <1>1, <2>1, <2>2, <2>4 DEF AllInv
<1>3. CASE RunFirst
  <2>1. Listed' = Listed
    BY <1>3, RunIs DEF AllInv, NoTaskEnds
  <2>2. added' = added
    BY <1>3 DEF RunFirst
  <2> QED
    BY <1>1, <2>1, <2>2 DEF AllInv
<1>4. CASE NothingDue \/ SysTick \/ OtherInterrupt \/ UNCHANGED vars
  BY <1>1, <1>4 DEF NothingDue, SysTick, OtherInterrupt, vars, AllInv, Listed, List
<1> QED
  BY <1>2, <1>3, <1>4 DEF Next

\* The list ends and holds every task that main added, once: for every set of
\* tasks, in whatever order they are added, over any number of wraps.
THEOREM NobodyFallsOff == NoTaskEnds /\ Spec => []NobodyIsLost
<1>1. Init => AllInv
  BY AllInit
<1>2. NoTaskEnds /\ AllInv /\ [Next]_vars => AllInv'
  BY AllNext
<1>3. AllInv => NobodyIsLost
  BY AllIs
<1>4. NoTaskEnds => NoTaskEnds'
  BY DEF NoTaskEnds
<1> QED
  BY <1>1, <1>2, <1>3, <1>4, PTL DEF Spec

-----------------------------------------------------------------------------
(* No task runs ahead of its interval *)

\* A number below the modulus is its own remainder.
LEMMA ModSmall ==
    ASSUME NEW x \in Nat, x < ClockMod PROVE x % ClockMod = x
<1>1. ClockMod \in Nat \ {0} /\ x \in 0..(ClockMod - 1)
  BY ConstantsAssumption
<1>2. \A m \in Nat \ {0} : \A a \in 0..(m - 1) : a % m = a
  OBVIOUS
<1> QED
  BY <1>1, <1>2

\* Time does not go back, and the wrap does not pass.
LEMMA TimeIs ==
    ASSUME ListInv, [Next]_vars
    PROVE  /\ now \in Nat /\ now' \in Nat /\ now' >= now
           /\ BeforeWrap' => BeforeWrap
<1>1. now \in Nat /\ now' \in Nat
  BY ListNext DEF ListInv
<1>2. now' >= now
  <2>1. CASE RunFirst
    <3>1. first_task \in Tasks /\ overrun \in Nat
      BY <2>1, RunIs DEF ListInv
    <3>2. PICK ticks \in Nat : \E more \in Overruns[first_task] :
             more \in Nat /\ now' = now + ticks + more
      BY <1>1, <2>1, <3>1, RunTakes, Zenon
    <3>3. \A x, y, z \in Nat : x + y + z >= x
      OBVIOUS
    <3> QED
      BY <1>1, <3>2, <3>3, Zenon
  <2>2. CASE NothingDue
    BY <1>1, <2>2 DEF NothingDue
  <2> QED
    BY <1>1, <2>1, <2>2 DEF Next, AddTask, SysTick, OtherInterrupt, vars
<1>3. BeforeWrap' => BeforeWrap
  <2> SUFFICES ASSUME BeforeWrap', NEW u \in Tasks, NEW i \in Intervals[u] PROVE now + i < ClockMod
    BY DEF BeforeWrap
  <2>1. now' + i < ClockMod
    BY DEF BeforeWrap
  <2>2. i \in Nat /\ ClockMod \in Nat
    <3>1. Intervals[u] \in (SUBSET Nat) \ {{}}
      BY ConstantsAssumption
    <3> QED
      BY <3>1, ConstantsAssumption
  <2>3. \A a, b, c, d \in Nat : a >= b /\ a + c < d => b + c < d
    OBVIOUS
  <2> QED
    BY <1>1, <1>2, <2>1, <2>2, <2>3, Zenon
<1> QED
  BY <1>1, <1>2, <1>3

\* Before the wrap a task that runs is due, and the sum of its due time and
\* its interval is what insert_task gets.
LEMMA DueNextIs ==
    ASSUME ListInv, RunFirst, BeforeWrap, NEW interval \in Intervals[first_task]
    PROVE  /\ interval \in Nat /\ due_time[first_task] \in Nat /\ due_time[first_task] <= now
           /\ DueNext(first_task, interval) = due_time[first_task] + interval
<1> PICK t \in Tasks : t = first_task
  BY RunIs
<1>1. interval \in Nat /\ due_time[t] \in Nat /\ now \in Nat /\ ClockMod \in Nat \ {0}
  <2>1. Intervals[t] \in (SUBSET Nat) \ {{}}
    BY ConstantsAssumption
  <2> QED
    BY <2>1, DueIs, ConstantsAssumption DEF ListInv
<1>2. now + interval < ClockMod
  BY DEF BeforeWrap
<1>3. now % ClockMod = now
  BY <1>1, <1>2, ModSmall
<1>4. due_time[t] <= now
  BY <1>3 DEF RunFirst, FirstIsDue, millis
<1>5. due_time[t] + interval \in Nat /\ due_time[t] + interval < ClockMod
  BY <1>1, <1>2, <1>4
<1>6. DueNext(t, interval) = due_time[t] + interval
  BY <1>5, ModSmall DEF DueNext
<1> QED
  BY <1>1, <1>4, <1>6

AheadInv == ListInv /\ NeverAhead

LEMMA AheadNext ==
    ASSUME AheadInv, [Next]_vars PROVE AheadInv'
<1>1. ListInv /\ ListInv'
  BY ListNext DEF AheadInv
<1>2. /\ now \in Nat /\ now' \in Nat /\ due_time \in [Tasks -> Nat] /\ Listed \subseteq Tasks
      /\ \A u \in Tasks : Intervals[u] # {} /\ Intervals[u] \subseteq Nat
  <2>1. \A u \in Tasks : Intervals[u] \in (SUBSET Nat) \ {{}}
    BY ConstantsAssumption
  <2>2. now \in Nat /\ now' \in Nat /\ due_time \in [Tasks -> Nat]
    BY <1>1, DueIs DEF ListInv
  <2>3. \A u \in Tasks : Intervals[u] # {} /\ Intervals[u] \subseteq Nat
    <3> SUFFICES ASSUME NEW u \in Tasks PROVE Intervals[u] # {} /\ Intervals[u] \subseteq Nat
      OBVIOUS
    <3> QED
      BY <2>1
  <2>4. Listed \subseteq Tasks
    BY <1>1, FirstIs
  <2> QED
    BY <2>2, <2>3, <2>4
<1>3. now' >= now
  BY <1>1, TimeIs
<1>4. BeforeWrap' => BeforeWrap
  BY <1>1, TimeIs
<1>5. ASSUME BeforeWrap', NEW u \in Listed, due_time'[u] = due_time[u]
      PROVE  \E i \in Intervals[u] : due_time'[u] <= now' + i
  <2>1. PICK i \in Intervals[u] : due_time[u] <= now + i
    BY <1>4, <1>5 DEF AheadInv, NeverAhead
  <2>2. i \in Nat /\ due_time[u] \in Nat
    BY <1>2
  <2>3. due_time'[u] <= now' + i
    BY <1>2, <1>3, <1>5, <2>1, <2>2
  <2> QED
    BY <2>3
<1>6. CASE AddTask
  <2>1. PICK t \in Tasks : Listed' = Listed \cup {t} /\ t = AddOrder[added + 1] /\ due_time' = due_time
    BY <1>1, <1>6, AddIs
  <2>2. due_time[t] = 0
    <3>1. added \in Nat /\ added < Len(AddOrder) /\ Len(AddOrder) \in Nat
      BY <1>1, <1>6, ConstantsAssumption DEF ListInv, AddTask
    <3>2. added + 1 \in 1..Len(AddOrder) /\ added + 1 > added
      BY <3>1
    <3> QED
      BY <1>1, <2>1, <3>2 DEF ListInv
  <2>3. PICK i \in Intervals[t] : TRUE
    BY <1>2
  <2>4. 0 <= now' + i
    BY <1>2, <2>3
  <2>5. BeforeWrap' => \A u \in Listed' : \E j \in Intervals[u] : due_time'[u] <= now' + j
    BY <1>5, <2>1, <2>2, <2>4
  <2> QED
    BY <1>1, <2>5 DEF AheadInv, NeverAhead
<1>7. CASE RunFirst
  <2> DEFINE t == first_task
  <2>1. t \in Listed /\ t \in Tasks
    BY <1>1, <1>7, RunIs
  <2>2. PICK interval \in Intervals[t] :
           /\ Listed' = IF interval = 0 THEN Listed \ {t} ELSE Listed
           /\ due_time' = IF interval = 0 THEN due_time
                          ELSE [due_time EXCEPT ![t] = DueNext(t, interval)]
    BY <1>1, <1>7, RunIs
  <2>3. \A u \in Listed' : u \in Listed /\ (u # t => due_time'[u] = due_time[u])
    BY <1>2, <2>1, <2>2
  <2>4. t \in Listed' => due_time'[t] = DueNext(t, interval)
    BY <1>2, <2>1, <2>2
  <2>5. ASSUME BeforeWrap' PROVE DueNext(t, interval) <= now' + interval
    <3>1. /\ interval \in Nat /\ due_time[t] \in Nat /\ due_time[t] <= now
          /\ DueNext(t, interval) = due_time[t] + interval
      BY <1>1, <1>4, <1>7, <2>5, DueNextIs
    <3> QED
      BY <1>2, <1>3, <3>1
  <2>6. ASSUME BeforeWrap', NEW u \in Listed' PROVE \E j \in Intervals[u] : due_time'[u] <= now' + j
    <3>1. CASE u = t
      BY <2>4, <2>5, <2>6, <3>1
    <3>2. CASE u # t
      BY <1>5, <2>3, <2>6, <3>2
    <3> QED
      BY <3>1, <3>2
  <2> QED
    BY <1>1, <2>6 DEF AheadInv, NeverAhead
<1>8. CASE NothingDue \/ SysTick \/ OtherInterrupt \/ UNCHANGED vars
  <2>1. Listed' = Listed /\ due_time' = due_time
    BY <1>8 DEF NothingDue, SysTick, OtherInterrupt, vars, Listed, List
  <2>2. BeforeWrap' => \A u \in Listed' : \E j \in Intervals[u] : due_time'[u] <= now' + j
    BY <1>5, <2>1
  <2> QED
    BY <1>1, <2>2 DEF AheadInv, NeverAhead
<1> QED
  BY <1>6, <1>7, <1>8 DEF Next

\* Before a due time wraps no task runs again before its interval is over.
THEOREM NobodyRunsAhead == Spec => []NeverAhead
<1>1. Init => AheadInv
  <2> SUFFICES ASSUME Init PROVE AheadInv
    OBVIOUS
  <2>1. Listed = {}
    BY ListInit, FirstIs DEF Init
  <2> QED
    BY <2>1, ListInit DEF AheadInv, NeverAhead
<1>2. AheadInv /\ [Next]_vars => AheadInv'
  BY AheadNext
<1> QED
  BY <1>1, <1>2, PTL DEF Spec, AheadInv

-----------------------------------------------------------------------------
(* Sums over the tasks *)

\* What holds at 0 and goes on from each number to the next holds up to n.
LEMMA Upward ==
    ASSUME NEW n \in Nat, NEW S, 0 \in S, \A k \in 1..n : k - 1 \in S => k \in S
    PROVE  \A k \in 0..n : k \in S
<1> DEFINE D == {k \in 0..n : k \notin S}
<1>1. D = {}
  <2> SUFFICES ASSUME D # {} PROVE FALSE
    OBVIOUS
  <2>1. D \in SUBSET Nat
    OBVIOUS
  <2>2. PICK k \in D : \A j \in D : j >= k
    <3> HIDE DEF D
    <3> QED
      BY <2>1, Least
  <2>3. k \in 1..n /\ k - 1 \in 0..n /\ k - 1 \notin D
    BY <2>2
  <2>4. k - 1 \in S /\ k \in 1..n
    BY <2>3
  <2>5. k \in S
    BY <2>4
  <2> QED
    BY <2>2, <2>5
<1> QED
  BY <1>1

\* s has the sums of f over the first tasks that main adds.
Sums(f, s) ==
    /\ s \in [0..Len(AddOrder) -> Int]
    /\ s[0] = 0
    /\ \A k \in 1..Len(AddOrder) : s[k] = s[k - 1] + f[AddOrder[k]]

\* AddOrder is a sequence of tasks.
LEMMA OrderIs ==
    Len(AddOrder) \in Nat /\ DOMAIN AddOrder = 1..Len(AddOrder)
    /\ \A k \in 1..Len(AddOrder) : AddOrder[k] \in Tasks
  BY ConstantsAssumption

\* Total is the last of these sums: they exist for every f.
LEMMA TotalIs ==
    ASSUME NEW f \in [Tasks -> Int]
    PROVE  \E s : Sums(f, s) /\ Total(f) = s[Len(AddOrder)]
<1> DEFINE Step(s) == [k \in 0..Len(AddOrder) |-> IF k = 0 THEN 0 ELSE s[k - 1] + f[AddOrder[k]]]
           sum == CHOOSE s : s = Step(s)
           UpTo(n, s) == /\ s \in [0..n -> Int] /\ s[0] = 0
                         /\ \A k \in 1..n : s[k] = s[k - 1] + f[AddOrder[k]]
           S == {n \in Nat : \E s : UpTo(n, s)}
<1> PICK N : N = Len(AddOrder)
  OBVIOUS
<1>1. N \in Nat /\ \A k \in 1..N : f[AddOrder[k]] \in Int
  BY OrderIs
<1>2. 0 \in S
  <2>1. UpTo(0, [k \in 0..0 |-> 0])
    OBVIOUS
  <2> QED
    BY <2>1
<1>3. ASSUME NEW k \in 1..N, k - 1 \in S PROVE k \in S
  <2>1. PICK s : UpTo(k - 1, s)
    BY <1>3
  <2> DEFINE r == [i \in 0..k |-> IF i = k THEN s[k - 1] + f[AddOrder[k]] ELSE s[i]]
  <2>2. k \in Nat /\ k - 1 \in 0..(k - 1) /\ s[k - 1] \in Int /\ f[AddOrder[k]] \in Int
    BY <1>1, <2>1
  <2>3. r \in [0..k -> Int]
    BY <2>1, <2>2
  <2>4. r[0] = 0
    BY <2>1, <2>2
  <2>5. \A i \in 1..k : r[i] = r[i - 1] + f[AddOrder[i]]
    <3> TAKE i \in 1..k
    <3>1. i - 1 \in 0..k /\ i - 1 # k /\ r[i - 1] = s[i - 1]
      BY <2>2
    <3>2. CASE i = k
      BY <2>2, <3>1, <3>2
    <3>3. CASE i # k
      BY <2>1, <2>2, <3>1, <3>3
    <3> QED
      BY <3>2, <3>3
  <2> HIDE DEF r
  <2>6. UpTo(k, r)
    BY <2>3, <2>4, <2>5
  <2> QED
    BY <2>2, <2>6
<1>4. N \in S
  <2> HIDE DEF S
  <2>1. \A k \in 0..N : k \in S
    BY <1>1, <1>2, <1>3, Upward
  <2> QED
    BY <1>1, <2>1
<1>5. PICK s : UpTo(N, s)
  BY <1>4
<1>6. s = Step(s)
  <2>1. \A k \in 0..N : k = 0 \/ k \in 1..N
    BY <1>1
  <2>2. \A k \in 0..N : s[k] = Step(s)[k]
    BY <1>5, <2>1
  <2>3. s = [k \in 0..N |-> s[k]] /\ Step(s) = [k \in 0..N |-> Step(s)[k]]
    BY <1>5
  <2> HIDE DEF Step
  <2> QED
    BY <2>2, <2>3
<1>7. sum = Step(sum)
  <2> HIDE DEF Step
  <2> QED
    BY <1>6, Zenon
<1>8. Total(f) = sum[N]
  BY DEF Total
<1> HIDE DEF sum
<1>9. sum[0] = 0 /\ \A k \in 1..N : sum[k] = sum[k - 1] + f[AddOrder[k]]
  <2>1. \A k \in 0..N : sum[k] = Step(sum)[k]
    BY <1>7
  <2> QED
    BY <1>1, <2>1
<1>10. \A k \in 0..N : sum[k] \in Int
  <2> DEFINE T == {k \in Nat : sum[k] \in Int}
  <2>1. 0 \in T /\ \A k \in 1..N : k - 1 \in T => k \in T
    BY <1>1, <1>9
  <2> HIDE DEF T
  <2>2. \A k \in 0..N : k \in T
    BY <1>1, <2>1, Upward
  <2> QED
    BY <2>2 DEF T
<1>11. sum \in [0..N -> Int]
  <2>1. sum = [k \in 0..N |-> sum[k]]
    BY <1>7
  <2> QED
    BY <1>10, <2>1
<1> QED
  BY <1>8, <1>9, <1>11 DEF Sums

LEMMA TotalType ==
    ASSUME NEW f \in [Tasks -> Int] PROVE Total(f) \in Int
  BY TotalIs, OrderIs DEF Sums

\* What is no less for every task that is added has no less a sum.
LEMMA TotalMonotone ==
    ASSUME NEW f \in [Tasks -> Int], NEW g \in [Tasks -> Int],
           \A k \in DOMAIN AddOrder : f[AddOrder[k]] <= g[AddOrder[k]]
    PROVE  Total(f) <= Total(g)
<1>1. PICK s : Sums(f, s) /\ Total(f) = s[Len(AddOrder)]
  BY TotalIs
<1>2. PICK r : Sums(g, r) /\ Total(g) = r[Len(AddOrder)]
  BY TotalIs
<1> DEFINE S == {k \in 0..Len(AddOrder) : s[k] <= r[k]}
<1>3. 0 \in S
  BY <1>1, <1>2, OrderIs DEF Sums
<1>4. ASSUME NEW k \in 1..Len(AddOrder), k - 1 \in S PROVE k \in S
  <2>1. /\ s[k] = s[k - 1] + f[AddOrder[k]] /\ r[k] = r[k - 1] + g[AddOrder[k]]
        /\ f[AddOrder[k]] <= g[AddOrder[k]] /\ s[k - 1] <= r[k - 1]
    BY <1>1, <1>2, <1>4, OrderIs DEF Sums
  <2>2. /\ s[k - 1] \in Int /\ r[k - 1] \in Int /\ f[AddOrder[k]] \in Int /\ g[AddOrder[k]] \in Int
    BY <1>1, <1>2, <1>4, OrderIs DEF Sums
  <2>3. k \in 0..Len(AddOrder)
    BY OrderIs
  <2> QED
    BY <2>1, <2>2, <2>3
<1>5. Len(AddOrder) \in S
  <2> HIDE DEF S
  <2>1. Len(AddOrder) \in Nat /\ Len(AddOrder) \in 0..Len(AddOrder)
    BY OrderIs
  <2>2. \A k \in 0..Len(AddOrder) : k \in S
    BY <1>3, <1>4, <2>1, Upward
  <2> QED
    BY <2>1, <2>2
<1> QED
  BY <1>1, <1>2, <1>5

\* The sum is linear: a multiple can be taken out of it.
LEMMA TotalLinear ==
    ASSUME NEW f \in [Tasks -> Int], NEW g \in [Tasks -> Int], NEW h \in [Tasks -> Int], NEW c \in Int,
           \A t \in Tasks : f[t] = g[t] + c * h[t]
    PROVE  Total(f) = Total(g) + c * Total(h)
<1>1. PICK s : Sums(f, s) /\ Total(f) = s[Len(AddOrder)]
  BY TotalIs
<1>2. PICK r : Sums(g, r) /\ Total(g) = r[Len(AddOrder)]
  BY TotalIs
<1>3. PICK q : Sums(h, q) /\ Total(h) = q[Len(AddOrder)]
  BY TotalIs
<1> DEFINE S == {k \in 0..Len(AddOrder) : s[k] = r[k] + c * q[k]}
<1>4. 0 \in S
  BY <1>1, <1>2, <1>3, OrderIs DEF Sums
<1>5. ASSUME NEW k \in 1..Len(AddOrder), k - 1 \in S PROVE k \in S
  <2> DEFINE t == AddOrder[k]
  <2>1. /\ s[k] = s[k - 1] + f[t] /\ r[k] = r[k - 1] + g[t] /\ q[k] = q[k - 1] + h[t]
        /\ s[k - 1] = r[k - 1] + c * q[k - 1] /\ t \in Tasks
    BY <1>1, <1>2, <1>3, <1>5, OrderIs DEF Sums
  <2>2. f[t] = g[t] + c * h[t]
    BY <2>1
  <2>3. r[k - 1] \in Int /\ q[k - 1] \in Int /\ g[t] \in Int /\ h[t] \in Int
    BY <1>2, <1>3, <1>5, <2>1, OrderIs DEF Sums
  <2>4. \A a, b, x, y \in Int : (a + c * x) + (b + c * y) = (a + b) + c * (x + y)
    OBVIOUS
  <2> HIDE DEF t
  <2>5. s[k] = r[k] + c * q[k]
    BY <2>1, <2>2, <2>3, <2>4
  <2>6. k \in 0..Len(AddOrder)
    BY OrderIs
  <2> QED
    BY <2>5, <2>6
<1>6. Len(AddOrder) \in S
  <2> HIDE DEF S
  <2>1. Len(AddOrder) \in Nat /\ Len(AddOrder) \in 0..Len(AddOrder)
    BY OrderIs
  <2>2. \A k \in 0..Len(AddOrder) : k \in S
    BY <1>4, <1>5, <2>1, Upward
  <2> QED
    BY <2>1, <2>2
<1> QED
  BY <1>1, <1>2, <1>3, <1>6

LEMMA TotalAdds ==
    ASSUME NEW f \in [Tasks -> Int], NEW g \in [Tasks -> Int], NEW h \in [Tasks -> Int],
           \A t \in Tasks : f[t] = g[t] + h[t]
    PROVE  Total(f) = Total(g) + Total(h)
<1>1. \A t \in Tasks : f[t] = g[t] + 1 * h[t]
  OBVIOUS
<1>2. Total(f) = Total(g) + 1 * Total(h)
  BY <1>1, TotalLinear
<1>3. Total(g) \in Int /\ Total(h) \in Int
  BY TotalType
<1> QED
  BY <1>2, <1>3

\* A sum to which one task alone contributes.
Only(t, e) == [u \in Tasks |-> IF u = t THEN e ELSE 0]

LEMMA TotalOnly ==
    ASSUME NEW p \in DOMAIN AddOrder, NEW e \in Int
    PROVE  Only(AddOrder[p], e) \in [Tasks -> Int] /\ Total(Only(AddOrder[p], e)) = e
<1> DEFINE f == Only(AddOrder[p], e)
<1>1. f \in [Tasks -> Int]
  BY DEF Only
<1>2. PICK s : Sums(f, s) /\ Total(f) = s[Len(AddOrder)]
  BY <1>1, TotalIs
<1> DEFINE S == {k \in 0..Len(AddOrder) : s[k] = IF k < p THEN 0 ELSE e}
<1>3. 0 \in S
  BY <1>2, OrderIs DEF Sums
<1>4. ASSUME NEW k \in 1..Len(AddOrder), k - 1 \in S PROVE k \in S
  <2>1. s[k] = s[k - 1] + f[AddOrder[k]] /\ s[k - 1] = IF k - 1 < p THEN 0 ELSE e
    BY <1>2, <1>4 DEF Sums
  <2>2. f[AddOrder[k]] = IF k = p THEN e ELSE 0
    BY OrderIs, ConstantsAssumption DEF Only
  <2>3. k \in 0..Len(AddOrder) /\ p \in 1..Len(AddOrder)
    BY OrderIs
  <2> HIDE DEF f
  <2> QED
    BY <2>1, <2>2, <2>3, OrderIs
<1>5. Len(AddOrder) \in S
  <2> HIDE DEF S
  <2>1. Len(AddOrder) \in Nat /\ Len(AddOrder) \in 0..Len(AddOrder)
    BY OrderIs
  <2>2. \A k \in 0..Len(AddOrder) : k \in S
    BY <1>3, <1>4, <2>1, Upward
  <2> QED
    BY <2>1, <2>2
<1> QED
  BY <1>1, <1>2, <1>5, OrderIs

LEMMA TotalNone == Total([u \in Tasks |-> 0]) = 0
<1> DEFINE none == [u \in Tasks |-> 0]
<1>1. none \in [Tasks -> Int] /\ \A t \in Tasks : none[t] = none[t] + none[t]
  OBVIOUS
<1> HIDE DEF none
<1>2. Total(none) = Total(none) + Total(none) /\ Total(none) \in Int
  BY <1>1, TotalAdds, TotalType
<1>3. \A x \in Int : x = x + x => x = 0
  OBVIOUS
<1>4. Total(none) = 0
  BY <1>2, <1>3, Zenon
<1> QED
  BY <1>4, Zenon DEF none

-----------------------------------------------------------------------------
(* Nobody waits long *)

\* The work that the due times have ahead of m: each task has done the runs up
\* to its due time.
Ahead(due, m, share) == [t \in Tasks |-> share[t] * (due[t] - m)]

LEMMA AheadType ==
    ASSUME NEW due \in [Tasks -> Int], NEW m \in Int, NEW share \in [Tasks -> Int]
    PROVE  Ahead(due, m, share) \in [Tasks -> Int] /\ Total(Ahead(due, m, share)) \in Int
<1>1. \A t \in Tasks : share[t] * (due[t] - m) \in Int
  OBVIOUS
<1>2. Ahead(due, m, share) \in [Tasks -> Int]
  BY <1>1 DEF Ahead
<1> QED
  BY <1>2, TotalType

\* Counted from d instead of m it is less by what the whole processor does
\* from m to d, at most.
LEMMA Later ==
    ASSUME NEW due \in [Tasks -> Int], NEW share \in [Tasks -> Nat], NEW m \in Int, NEW d \in Int, m <= d,
           NEW whole \in Nat, Total(share) <= whole
    PROVE  whole * m + Total(Ahead(due, m, share)) <= whole * d + Total(Ahead(due, d, share))
<1>1. /\ Ahead(due, m, share) \in [Tasks -> Int] /\ Ahead(due, d, share) \in [Tasks -> Int]
      /\ share \in [Tasks -> Int] /\ m - d \in Int
  BY AheadType
<1>2. Total(share) \in Int /\ Total(Ahead(due, m, share)) \in Int /\ Total(Ahead(due, d, share)) \in Int
  BY <1>1, TotalType
<1>3. \A t \in Tasks : Ahead(due, d, share)[t] = Ahead(due, m, share)[t] + (m - d) * share[t]
  <2>1. \A x, s \in Int : s * (x - d) = s * (x - m) + (m - d) * s
    OBVIOUS
  <2>2. \A t \in Tasks : due[t] \in Int /\ share[t] \in Int
    BY <1>1
  <2> QED
    BY <2>1, <2>2 DEF Ahead
<1>4. Total(Ahead(due, d, share)) = Total(Ahead(due, m, share)) + (m - d) * Total(share)
  BY <1>1, <1>3, TotalLinear
<1>5. \A a, b, x, y, w \in Int : x <= y /\ a <= w /\ w >= 0 => w * x <= w * y + (x - y) * a
  <2> SUFFICES ASSUME NEW a \in Int, NEW x \in Int, NEW y \in Int, NEW w \in Int, x <= y, a <= w
               PROVE  w * x <= w * y + (x - y) * a
    OBVIOUS
  <2>1. w * y + (x - y) * a - w * x = (w - a) * (y - x)
    OBVIOUS
  <2>2. (w - a) * (y - x) >= 0
    BY w - a >= 0, y - x >= 0
  <2>3. w * y \in Int /\ (x - y) * a \in Int /\ w * x \in Int
    OBVIOUS
  <2> QED
    BY <2>1, <2>2, <2>3
<1>6. whole * m <= whole * d + (m - d) * Total(share)
  BY <1>2, <1>5
<1>7. whole * m \in Int /\ whole * d \in Int /\ (m - d) * Total(share) \in Int
  BY <1>2
<1> HIDE DEF Ahead
<1> QED
  BY <1>2, <1>4, <1>6, <1>7

\* Task t is due again i after it was due.
DueAgain(t, i, due, after) ==
    \A u \in Tasks : after[u] = IF u = t THEN due[u] + i ELSE due[u]

\* A task that is due again after i has done its share of i.
LEMMA RunAdds ==
    ASSUME NEW due \in [Tasks -> Int], NEW share \in [Tasks -> Nat], NEW m \in Int,
           NEW p \in DOMAIN AddOrder, NEW i \in Int,
           NEW after \in [Tasks -> Int],
           DueAgain(AddOrder[p], i, due, after)
    PROVE  Total(Ahead(after, m, share)) = Total(Ahead(due, m, share)) + share[AddOrder[p]] * i
<1> DEFINE t == AddOrder[p]
           e == share[t] * i
<1>1. t \in Tasks /\ e \in Int /\ share \in [Tasks -> Int]
  BY OrderIs
<1>2. Only(t, e) \in [Tasks -> Int] /\ Total(Only(t, e)) = e
  BY <1>1, TotalOnly
<1>3. /\ Ahead(due, m, share) \in [Tasks -> Int] /\ Ahead(after, m, share) \in [Tasks -> Int]
      /\ Total(Ahead(due, m, share)) \in Int
  BY <1>1, AheadType
<1>4. \A u \in Tasks : Ahead(after, m, share)[u] = Ahead(due, m, share)[u] + Only(t, e)[u]
  <2> SUFFICES ASSUME NEW u \in Tasks
               PROVE  share[u] * (after[u] - m) = share[u] * (due[u] - m) + Only(t, e)[u]
    BY <1>2 DEF Ahead
  <2>1. \A s, x \in Int : s * ((x + i) - m) = s * (x - m) + s * i
    OBVIOUS
  <2>2. CASE u = t
    BY <1>1, <2>1, <2>2 DEF Only, DueAgain
  <2>3. CASE u # t
    BY <1>1, <2>3 DEF Only, DueAgain
  <2> QED
    BY <2>2, <2>3
<1>5. Total(Ahead(after, m, share)) = Total(Ahead(due, m, share)) + Total(Only(t, e))
  <2> HIDE DEF t, e
  <2> QED
    BY <1>2, <1>3, <1>4, TotalAdds
<1> HIDE DEF t, e
<1>6. Total(Ahead(after, m, share)) = Total(Ahead(due, m, share)) + e
  BY <1>1, <1>2, <1>3, <1>5
<1> QED
  BY <1>6 DEF t, e

\* When the processor has done no more than what the due times are ahead of
\* the least of them, no task is late by more than the rest of the tasks need.
LEMMA LateIs ==
    ASSUME NEW share, NEW whole, NEW longest, NEW latest, KeepsUp(share, whole, longest, latest),
           NEW due \in [Tasks -> Int], NEW m \in Int, NEW time \in Int,
           \A k \in DOMAIN AddOrder : m <= due[AddOrder[k]] /\ due[AddOrder[k]] <= m + longest[AddOrder[k]],
           whole * time <= whole * (m + latest) + Total(Ahead(due, m, share)),
           NEW p \in DOMAIN AddOrder
    PROVE  time - due[AddOrder[p]] <= MaxLate
<1> DEFINE t == AddOrder[p]
           rest == [u \in Tasks |-> IF u = t THEN 0 ELSE share[u] * longest[u]]
           e == share[t] * (due[t] - m)
           bound == [u \in Tasks |-> rest[u] + Only(t, e)[u]]
<1>1. /\ share \in [Tasks -> Nat] /\ longest \in [Tasks -> Nat] /\ whole \in Nat \ {0} /\ latest \in Nat
      /\ share \in [Tasks -> Int] /\ Total(share) <= whole
      /\ whole * latest + Total(rest) < whole * (MaxLate + 1)
      /\ t \in Tasks /\ e \in Int /\ MaxLate \in Int
  <2>1. whole * latest + Total(rest) < whole * (MaxLate + 1)
    BY Zenon DEF KeepsUp
  <2>2. /\ share \in [Tasks -> Nat] /\ longest \in [Tasks -> Nat] /\ whole \in Nat \ {0} /\ latest \in Nat
        /\ Total(share) <= whole
    BY DEF KeepsUp
  <2>3. t \in Tasks /\ MaxLate \in Int
    BY OrderIs, ConstantsAssumption
  <2>4. share \in [Tasks -> Int] /\ e \in Int
    BY <2>2, <2>3
  <2> HIDE DEF t, rest, e
  <2> QED
    BY <2>1, <2>2, <2>3, <2>4
<1>2. rest \in [Tasks -> Int] /\ Only(t, e) \in [Tasks -> Int] /\ Total(Only(t, e)) = e
  <2>1. \A u \in Tasks : share[u] * longest[u] \in Int
    BY <1>1
  <2> QED
    BY <1>1, <2>1, TotalOnly
<1>3. bound \in [Tasks -> Int] /\ Total(bound) = Total(rest) + e /\ Total(rest) \in Int
  <2> HIDE DEF rest, e
  <2>1. bound \in [Tasks -> Int]
    BY <1>2
  <2> QED
    BY <1>2, <2>1, TotalAdds, TotalType
<1>4. Ahead(due, m, share) \in [Tasks -> Int] /\ Total(Ahead(due, m, share)) \in Int
  BY <1>1, AheadType
<1>5. \A k \in DOMAIN AddOrder : Ahead(due, m, share)[AddOrder[k]] <= bound[AddOrder[k]]
  <2> TAKE k \in DOMAIN AddOrder
  <2> DEFINE u == AddOrder[k]
  <2>1. /\ u \in Tasks /\ due[u] \in Int /\ share[u] \in Nat /\ longest[u] \in Nat
        /\ due[u] - m <= longest[u] /\ due[u] - m \in Int
    <3>1. u \in Tasks
      BY OrderIs
    <3>2. m <= due[u] /\ due[u] <= m + longest[u]
      OBVIOUS
    <3> HIDE DEF u
    <3> QED
      BY <1>1, <3>1, <3>2
  <2>2. CASE u = t
    BY <1>1, <2>1, <2>2 DEF Ahead, Only
  <2>3. CASE u # t
    <3>1. \A s \in Nat : \A x, y \in Int : x <= y => s * x <= s * y
      OBVIOUS
    <3>2. share[u] * (due[u] - m) <= share[u] * longest[u]
      BY <2>1, <3>1
    <3>3. bound[u] = share[u] * longest[u]
      BY <1>1, <2>1, <2>3 DEF Only
    <3> HIDE DEF bound
    <3> QED
      BY <2>1, <3>2, <3>3 DEF Ahead
  <2> QED
    BY <2>2, <2>3
<1>6. Total(Ahead(due, m, share)) <= Total(rest) + e
  <2> HIDE DEF bound
  <2>1. Total(Ahead(due, m, share)) <= Total(bound)
    BY <1>3, <1>4, <1>5, TotalMonotone
  <2> HIDE DEF rest, e
  <2> QED
    BY <1>1, <1>3, <1>4, <2>1
<1>7. share[t] <= whole
  <2>1. Only(t, share[t]) \in [Tasks -> Int] /\ Total(Only(t, share[t])) = share[t]
    BY <1>1, TotalOnly
  <2>2. \A k \in DOMAIN AddOrder : Only(t, share[t])[AddOrder[k]] <= share[AddOrder[k]]
    BY <1>1, OrderIs DEF Only
  <2>3. share \in [Tasks -> Int]
    BY <1>1
  <2>4. Total(Only(t, share[t])) <= Total(share) /\ Total(share) \in Int
    BY <2>1, <2>2, <2>3, TotalMonotone, TotalType
  <2> QED
    BY <1>1, <2>1, <2>4
<1>8. e <= whole * (due[t] - m)
  <2>1. due[t] - m \in Nat /\ share[t] \in Nat
    BY <1>1
  <2>2. \A a, b, x \in Nat : a <= b => a * x <= b * x
    OBVIOUS
  <2> QED
    BY <1>1, <1>7, <2>1, <2>2
<1> DEFINE late == time - due[t]
<1>9. whole * late < whole * (MaxLate + 1)
  <2>1. /\ due[t] \in Int /\ whole \in Int
        /\ \A x, y \in Int : whole * (x + y) = whole * x + whole * y
        /\ \A x, y \in Int : whole * (x - y) = whole * x - whole * y
        /\ \A x \in Int : whole * x \in Int
    BY <1>1
  <2>2. /\ whole * late = whole * time - whole * due[t]
        /\ whole * (m + latest) = whole * m + whole * latest
        /\ whole * (due[t] - m) = whole * due[t] - whole * m
    BY <1>1, <2>1
  <2>3. /\ whole * time \in Int /\ whole * due[t] \in Int /\ whole * m \in Int /\ whole * latest \in Int
        /\ whole * (MaxLate + 1) \in Int
    BY <1>1, <2>1
  <2> HIDE DEF rest, e, late
  <2> QED
    BY <1>1, <1>3, <1>4, <1>6, <1>8, <2>2, <2>3
<1>10. late \in Int /\ MaxLate + 1 \in Int /\ whole \in Nat
  BY <1>1
<1> HIDE DEF late
<1>11. late < MaxLate + 1
  <2>1. \A w \in Nat : \A x, y \in Int : y <= x => w * y <= w * x
    OBVIOUS
  <2>2. whole * late \in Int /\ whole * (MaxLate + 1) \in Int
    BY <1>10
  <2> QED
    BY <1>9, <1>10, <2>1, <2>2
<1> QED
  BY <1>1, <1>10, <1>11 DEF late

\* The due times lie together, from some m on, and the processor has done no
\* more by time than what they are ahead of m.
Load(share, whole, longest, latest, due, time) ==
    \E m \in Nat :
        /\ \A k \in DOMAIN AddOrder :
               m <= due[AddOrder[k]] /\ due[AddOrder[k]] <= m + longest[AddOrder[k]]
        /\ whole * time <= whole * (m + latest) + Total(Ahead(due, m, share))

\* Such an m is the least of the due times.
LEMMA LoadFromLeast ==
    ASSUME NEW share, NEW whole, NEW longest, NEW latest, KeepsUp(share, whole, longest, latest),
           NEW due \in [Tasks -> Nat], NEW time \in Int, Load(share, whole, longest, latest, due, time),
           NEW p \in DOMAIN AddOrder, \A k \in DOMAIN AddOrder : due[AddOrder[p]] <= due[AddOrder[k]]
    PROVE  /\ \A k \in DOMAIN AddOrder : due[AddOrder[k]] <= due[AddOrder[p]] + longest[AddOrder[k]]
           /\ whole * time <= whole * (due[AddOrder[p]] + latest) + Total(Ahead(due, due[AddOrder[p]], share))
<1>1. PICK m \in Nat :
         /\ \A k \in DOMAIN AddOrder :
                m <= due[AddOrder[k]] /\ due[AddOrder[k]] <= m + longest[AddOrder[k]]
         /\ whole * time <= whole * (m + latest) + Total(Ahead(due, m, share))
  BY DEF Load
<1>2. PICK d \in Nat : d = due[AddOrder[p]]
  BY OrderIs
<1>3. /\ share \in [Tasks -> Nat] /\ share \in [Tasks -> Int] /\ whole \in Nat /\ latest \in Nat
      /\ Total(share) <= whole /\ longest \in [Tasks -> Nat] /\ due \in [Tasks -> Int]
  <2>1. /\ share \in [Tasks -> Nat] /\ whole \in Nat /\ latest \in Nat
        /\ Total(share) <= whole /\ longest \in [Tasks -> Nat]
    BY DEF KeepsUp
  <2> QED
    BY <2>1
<1>4. m <= d
  BY <1>1, <1>2
<1>5. whole * m + Total(Ahead(due, m, share)) <= whole * d + Total(Ahead(due, d, share))
  BY <1>3, <1>4, Later
<1>6. Total(Ahead(due, m, share)) \in Int /\ Total(Ahead(due, d, share)) \in Int
  BY <1>3, AheadType
<1>7. /\ whole * (m + latest) = whole * m + whole * latest
      /\ whole * (d + latest) = whole * d + whole * latest
      /\ whole * m \in Int /\ whole * d \in Int /\ whole * latest \in Int /\ whole * time \in Int
  <2>1. \A w, x, y \in Int : w * (x + y) = w * x + w * y /\ w * x \in Int
    OBVIOUS
  <2> QED
    BY <1>3, <2>1
<1>8. whole * time <= whole * (d + latest) + Total(Ahead(due, d, share))
  BY <1>1, <1>5, <1>6, <1>7
<1>9. \A k \in DOMAIN AddOrder : due[AddOrder[k]] <= d + longest[AddOrder[k]]
  <2> TAKE k \in DOMAIN AddOrder
  <2>1. due[AddOrder[k]] \in Int /\ longest[AddOrder[k]] \in Int
    BY <1>3, OrderIs
  <2>2. due[AddOrder[k]] <= m + longest[AddOrder[k]]
    BY <1>1
  <2> QED
    BY <1>4, <2>1, <2>2
<1> QED
  BY <1>2, <1>8, <1>9

\* A run pays for itself and for the sleep that follows.
LEMMA LoadRuns ==
    ASSUME NEW share, NEW whole, NEW longest, NEW latest, KeepsUp(share, whole, longest, latest),
           NEW due \in [Tasks -> Nat], NEW time \in Int, Load(share, whole, longest, latest, due, time),
           NEW p \in DOMAIN AddOrder, \A k \in DOMAIN AddOrder : due[AddOrder[p]] <= due[AddOrder[k]],
           NEW i \in Intervals[AddOrder[p]], NEW after \in [Tasks -> Nat],
           DueAgain(AddOrder[p], i, due, after),
           NEW later \in Int, later <= time + (RunTime[AddOrder[p]] + 2)
    PROVE  Load(share, whole, longest, latest, after, later)
<1>1. PICK t \in Tasks : t = AddOrder[p]
  BY OrderIs
<1>2. PICK d \in Nat : d = due[t]
  OBVIOUS
<1>3. /\ share \in [Tasks -> Nat] /\ whole \in Nat /\ latest \in Nat /\ longest \in [Tasks -> Nat]
      /\ i \in Nat /\ i <= longest[t] /\ whole * (RunTime[t] + 2) <= share[t] * i
  <2>1. /\ share \in [Tasks -> Nat] /\ whole \in Nat /\ latest \in Nat /\ longest \in [Tasks -> Nat]
        /\ i <= longest[t] /\ whole * (RunTime[t] + 2) <= share[t] * i
    BY <1>1 DEF KeepsUp
  <2>2. Intervals[t] \in (SUBSET Nat) \ {{}}
    BY ConstantsAssumption
  <2> QED
    BY <1>1, <2>1, <2>2
<1>4. share \in [Tasks -> Int] /\ due \in [Tasks -> Int] /\ after \in [Tasks -> Int]
  BY <1>3
<1>5. /\ \A k \in DOMAIN AddOrder : due[AddOrder[k]] <= d + longest[AddOrder[k]]
      /\ whole * time <= whole * (d + latest) + Total(Ahead(due, d, share))
  BY <1>1, <1>2, LoadFromLeast
<1>6. Total(Ahead(after, d, share)) = Total(Ahead(due, d, share)) + share[t] * i
  <2>1. i \in Int /\ d \in Int
    BY <1>3
  <2>2. Total(Ahead(after, d, share)) = Total(Ahead(due, d, share)) + share[AddOrder[p]] * i
    BY <1>3, <1>4, <2>1, RunAdds
  <2> QED
    BY <1>1, <2>2
<1>7. \A k \in DOMAIN AddOrder : d <= after[AddOrder[k]] /\ after[AddOrder[k]] <= d + longest[AddOrder[k]]
  <2> TAKE k \in DOMAIN AddOrder
  <2>1. PICK u \in Tasks : u = AddOrder[k]
    BY OrderIs
  <2>2. d <= due[u] /\ due[u] <= d + longest[u] /\ due[u] \in Nat /\ longest[u] \in Nat
    BY <1>1, <1>2, <1>3, <1>5, <2>1
  <2>3. after[u] = IF u = t THEN d + i ELSE due[u]
    BY <1>1, <1>2 DEF DueAgain
  <2>4. CASE u = t
    BY <1>3, <2>1, <2>3, <2>4
  <2>5. CASE u # t
    BY <2>1, <2>2, <2>3, <2>5
  <2> QED
    BY <2>4, <2>5
<1>8. whole * later <= whole * (d + latest) + Total(Ahead(after, d, share))
  <2>1. RunTime[t] \in Nat /\ share[t] \in Nat
    BY <1>3, ConstantsAssumption
  <2>2. PICK run \in Nat : run = RunTime[t] + 2
    BY <2>1
  <2>3. \A w \in Nat : \A x, y, z \in Int : x <= y + z => w * x <= w * y + w * z
    <3> SUFFICES ASSUME NEW w \in Nat, NEW x \in Int, NEW y \in Int, NEW z \in Int, x <= y + z
                 PROVE  w * x <= w * y + w * z
      OBVIOUS
    <3>1. \A a, b \in Int : a <= b => w * a <= w * b
      OBVIOUS
    <3>2. w * (y + z) = w * y + w * z
      OBVIOUS
    <3> QED
      BY <3>1, <3>2
  <2>4. whole * later <= whole * time + whole * run
    BY <1>1, <1>3, <2>2, <2>3
  <2>5. \A x, y \in Int : x * y \in Int
    OBVIOUS
  <2>6. /\ whole * later \in Int /\ whole * time \in Int /\ whole * run \in Int /\ share[t] * i \in Int
        /\ whole * (d + latest) \in Int
    BY <1>3, <2>1, <2>5
  <2>7. Total(Ahead(due, d, share)) \in Int
    BY <1>4, AheadType
  <2> QED
    BY <1>3, <1>5, <1>6, <2>2, <2>4, <2>6, <2>7
<1> QED
  BY <1>7, <1>8 DEF Load

\* A pass that finds nothing to do is not late.
LEMMA LoadIdles ==
    ASSUME NEW share, NEW whole, NEW longest, NEW latest, KeepsUp(share, whole, longest, latest),
           NEW due \in [Tasks -> Nat], NEW time \in Int, Load(share, whole, longest, latest, due, time),
           NEW p \in DOMAIN AddOrder, \A k \in DOMAIN AddOrder : due[AddOrder[p]] <= due[AddOrder[k]],
           NEW later \in Int, later <= due[AddOrder[p]] + 1
    PROVE  Load(share, whole, longest, latest, due, later)
<1>1. PICK d \in Nat : d = due[AddOrder[p]]
  BY OrderIs
<1>2. /\ share \in [Tasks -> Nat] /\ whole \in Nat /\ latest \in Nat \ {0} /\ due \in [Tasks -> Int]
  BY DEF KeepsUp
<1>3. \A k \in DOMAIN AddOrder : d <= due[AddOrder[k]] /\ due[AddOrder[k]] <= d + longest[AddOrder[k]]
  BY <1>1, LoadFromLeast
<1>4. Total(Ahead(due, d, share)) >= 0 /\ Total(Ahead(due, d, share)) \in Int
  <2> DEFINE none == [u \in Tasks |-> 0]
  <2>1. none \in [Tasks -> Int] /\ Ahead(due, d, share) \in [Tasks -> Int] /\ share \in [Tasks -> Int]
    BY <1>2, AheadType
  <2>2. \A k \in DOMAIN AddOrder : none[AddOrder[k]] <= Ahead(due, d, share)[AddOrder[k]]
    <3> TAKE k \in DOMAIN AddOrder
    <3>1. PICK u \in Tasks : u = AddOrder[k]
      BY OrderIs
    <3>2. due[u] - d \in Nat /\ share[u] \in Nat
      BY <1>2, <1>3, <3>1
    <3>3. \A x, y \in Nat : 0 <= x * y
      OBVIOUS
    <3> QED
      BY <3>1, <3>2, <3>3 DEF Ahead
  <2>3. Total(none) = 0
    BY TotalNone
  <2> HIDE DEF none
  <2>4. Total(none) <= Total(Ahead(due, d, share)) /\ Total(Ahead(due, d, share)) \in Int
    BY <2>1, <2>2, TotalMonotone, TotalType
  <2> QED
    BY <2>3, <2>4
<1>5. whole * later <= whole * (d + latest)
  <2>1. \A w \in Nat : \A x, y \in Int : x <= y => w * x <= w * y
    OBVIOUS
  <2>2. later <= d + latest /\ d + latest \in Int
    BY <1>1, <1>2
  <2> QED
    BY <1>2, <2>1, <2>2
<1>6. whole * later \in Int /\ whole * (d + latest) \in Int
  BY <1>2
<1>7. whole * later <= whole * (d + latest) + Total(Ahead(due, d, share))
  BY <1>4, <1>5, <1>6
<1> QED
  BY <1>3, <1>7 DEF Load

\* What was not too much work by some time was not by an earlier one.
LEMMA LoadEarlier ==
    ASSUME NEW share, NEW whole \in Nat, NEW longest, NEW latest \in Nat, NEW due \in [Tasks -> Int],
           share \in [Tasks -> Int],
           NEW time \in Int, Load(share, whole, longest, latest, due, time), NEW later \in Int, later <= time
    PROVE  Load(share, whole, longest, latest, due, later)
<1>1. PICK m \in Nat :
         /\ \A k \in DOMAIN AddOrder :
                m <= due[AddOrder[k]] /\ due[AddOrder[k]] <= m + longest[AddOrder[k]]
         /\ whole * time <= whole * (m + latest) + Total(Ahead(due, m, share))
  BY DEF Load
<1>2. whole * later <= whole * time
  <2>1. \A w \in Nat : \A x, y \in Int : x <= y => w * x <= w * y
    OBVIOUS
  <2> QED
    BY <2>1
<1>3. /\ whole * later \in Int /\ whole * time \in Int /\ whole * (m + latest) \in Int
      /\ Total(Ahead(due, m, share)) \in Int
  BY AheadType
<1>4. whole * later <= whole * (m + latest) + Total(Ahead(due, m, share))
  BY <1>1, <1>2, <1>3
<1> QED
  BY <1>1, <1>4 DEF Load

\* What the list knows, and before the wrap the load, not counting what runs
\* took too long; the sleep after a pass may last a tick longer than what has
\* passed.
LateInv(share, whole, longest, latest) ==
    /\ AllInv
    /\ AddOrder # <<>> /\ BeforeWrap =>
           Load(share, whole, longest, latest, due_time,
                (IF awake THEN now ELSE now + 1) - overrun)

LEMMA LateInit ==
    ASSUME NEW share, NEW whole, NEW longest, NEW latest, KeepsUp(share, whole, longest, latest), Init
    PROVE  LateInv(share, whole, longest, latest)
<1>1. AllInv
  BY AllInit
<1>2. /\ share \in [Tasks -> Int] /\ longest \in [Tasks -> Nat] /\ whole \in Nat /\ latest \in Nat
      /\ now <= latest /\ now \in Nat /\ awake /\ due_time = [t \in Tasks |-> 0]
      /\ overrun = 0
  <2>1. /\ share \in [Tasks -> Nat] /\ longest \in [Tasks -> Nat] /\ whole \in Nat /\ latest \in Nat
        /\ now <= latest
    BY DEF KeepsUp, Init
  <2> QED
    BY <2>1, ConstantsAssumption DEF Init
<1>3. \A k \in DOMAIN AddOrder : 0 <= due_time[AddOrder[k]] /\ due_time[AddOrder[k]] <= 0 + longest[AddOrder[k]]
  BY <1>2, OrderIs
<1>4. Total(Ahead(due_time, 0, share)) = 0
  <2>1. Total([t \in Tasks |-> 0]) = 0
    BY TotalNone
  <2>2. \A t \in Tasks : share[t] * (due_time[t] - 0) = 0
    BY <1>2
  <2>3. Ahead(due_time, 0, share) = [t \in Tasks |-> 0]
    BY <2>2 DEF Ahead
  <2> QED
    BY <2>1, <2>3, Zenon
<1>5. whole * now <= whole * (0 + latest)
  <2>1. \A w \in Nat : \A x, y \in Nat : x <= y => w * x <= w * (0 + y)
    OBVIOUS
  <2> QED
    BY <1>2, <2>1
<1>6. whole * (0 + latest) \in Int
  BY <1>2
<1>7. Load(share, whole, longest, latest, due_time, now)
  <2>1. whole * now <= whole * (0 + latest) + Total(Ahead(due_time, 0, share))
    BY <1>4, <1>5, <1>6
  <2>2. 0 \in Nat
    OBVIOUS
  <2> QED
    BY <1>3, <2>1, <2>2, Zenon DEF Load
<1>8. now - overrun = now
  BY <1>2
<1> QED
  BY <1>1, <1>2, <1>7, <1>8, Zenon DEF LateInv

\* Once all tasks are added the first one of the list is the least.
LEMMA FirstOfAll ==
    ASSUME AllInv, AddOrder # <<>>, added = Len(AddOrder)
    PROVE  /\ first_task # NoTask
           /\ \E p \in DOMAIN AddOrder :
                 /\ first_task = AddOrder[p]
                 /\ \A k \in DOMAIN AddOrder : due_time[AddOrder[p]] <= due_time[AddOrder[k]]
<1>1. ListInv /\ Listed = {AddOrder[i] : i \in 1..Len(AddOrder)}
  BY DEF AllInv
<1>2. due_time \in [Tasks -> Nat]
  BY <1>1, DueIs DEF ListInv
<1>3. 1 \in 1..Len(AddOrder)
  BY OrderIs, ConstantsAssumption
<1>4. Listed # {}
  BY <1>1, <1>3
<1>5. first_task # NoTask /\ first_task \in Listed /\ \A u \in Listed : due_time[u] >= due_time[first_task]
  BY <1>1, <1>4, FirstIs
<1>6. PICK p \in 1..Len(AddOrder) : first_task = AddOrder[p]
  BY <1>1, <1>5
<1>7. ASSUME NEW k \in 1..Len(AddOrder) PROVE due_time[AddOrder[p]] <= due_time[AddOrder[k]]
  <2>1. AddOrder[k] \in Listed /\ AddOrder[k] \in Tasks /\ AddOrder[p] \in Tasks
    BY <1>1, OrderIs
  <2> QED
    BY <1>2, <1>5, <1>6, <2>1
<1> QED
  BY <1>5, <1>6, <1>7, OrderIs

LEMMA LateNext ==
    ASSUME NEW share, NEW whole, NEW longest, NEW latest, KeepsUp(share, whole, longest, latest),
           LateInv(share, whole, longest, latest), [Next]_vars
    PROVE  LateInv(share, whole, longest, latest)'
<1> DEFINE KeptUp(due, time) == Load(share, whole, longest, latest, due, time)
<1>1. AllInv /\ ListInv
  BY DEF LateInv, AllInv
<1>2. NoTaskEnds
  <2> SUFFICES ASSUME NEW t \in Tasks, 0 \in Intervals[t] PROVE FALSE
    BY DEF NoTaskEnds
  <2>1. 0 < 0
    BY DEF KeepsUp
  <2> QED
    BY <2>1
<1>3. AllInv' /\ ListInv'
  BY <1>1, <1>2, AllNext DEF AllInv
<1>4. now \in Nat /\ now' \in Nat /\ (BeforeWrap' => BeforeWrap)
  BY <1>1, TimeIs
<1>5. /\ due_time \in [Tasks -> Nat] /\ due_time' \in [Tasks -> Nat] /\ due_time \in [Tasks -> Int]
      /\ share \in [Tasks -> Int] /\ whole \in Nat /\ latest \in Nat
  <2>1. due_time \in [Tasks -> 0..(ClockMod - 1)] /\ (due_time \in [Tasks -> 0..(ClockMod - 1)])'
    BY <1>1, <1>3 DEF ListInv
  <2>2. share \in [Tasks -> Nat] /\ whole \in Nat /\ latest \in Nat
    BY DEF KeepsUp
  <2> QED
    BY <2>1, <2>2, ConstantsAssumption
<1>6. SUFFICES ASSUME AddOrder # <<>>, BeforeWrap'
               PROVE  KeptUp(due_time', (IF awake' THEN now' ELSE now' + 1) - overrun')
  BY <1>3 DEF LateInv
<1>7. KeptUp(due_time, (IF awake THEN now ELSE now + 1) - overrun) /\ BeforeWrap
  BY <1>4, <1>6 DEF LateInv
<1>14. overrun \in Nat
  BY <1>1 DEF ListInv
<1>8. CASE AddTask
  <2>1. due_time' = due_time
    BY <1>1, <1>8, AddIs
  <2>2. now' = now /\ awake' = awake /\ overrun' = overrun
    BY <1>8 DEF AddTask
  <2> QED
    BY <1>7, <2>1, <2>2
<1>9. CASE RunFirst
  <2>1. KeptUp(due_time, now - overrun) /\ awake' = FALSE
    BY <1>7, <1>9 DEF RunFirst
  <2>2. PICK p \in DOMAIN AddOrder :
          /\ first_task = AddOrder[p]
          /\ \A k \in DOMAIN AddOrder : due_time[AddOrder[p]] <= due_time[AddOrder[k]]
    BY <1>1, <1>6, <1>9, FirstOfAll DEF RunFirst
  <2>3. PICK interval \in Intervals[first_task] :
           due_time' = IF interval = 0 THEN due_time
                       ELSE [due_time EXCEPT ![first_task] = DueNext(first_task, interval)]
    BY <1>1, <1>9, RunIs
  <2>4. /\ interval \in Nat /\ due_time[first_task] \in Nat /\ first_task \in Tasks
        /\ DueNext(first_task, interval) = due_time[first_task] + interval
    BY <1>1, <1>7, <1>9, DueNextIs, RunIs
  <2>5. DueAgain(first_task, interval, due_time, due_time')
    <3> SUFFICES ASSUME NEW u \in Tasks
                 PROVE  due_time'[u] = IF u = first_task THEN due_time[u] + interval ELSE due_time[u]
      BY DEF DueAgain
    <3>1. CASE interval = 0
      BY <1>5, <2>3, <2>4, <3>1
    <3>2. CASE interval # 0
      BY <1>5, <2>3, <2>4, <3>2
    <3> QED
      BY <3>1, <3>2
  <2>6. /\ (now' + 1) - overrun' <= (now - overrun) + (RunTime[first_task] + 2)
        /\ overrun' \in Nat
    <3>1. PICK ticks \in Nat : \E more \in Overruns[first_task] :
             /\ ticks <= RunTime[first_task] + 1 /\ RunTime[first_task] \in Nat
             /\ more \in Nat
             /\ now' = now + ticks + more /\ overrun' = overrun + more
      BY <1>4, <1>9, <1>14, <2>4, RunTakes, Zenon
    <3>2. PICK more \in Nat :
             /\ ticks <= RunTime[first_task] + 1 /\ RunTime[first_task] \in Nat
             /\ now' = now + ticks + more /\ overrun' = overrun + more
      BY <3>1, Zenon
    <3> QED
      BY <1>4, <1>14, <3>2
  <2>7. now - overrun \in Int /\ (now' + 1) - overrun' \in Int
    BY <1>4, <1>14, <2>6
  <2>8. KeptUp(due_time', (now' + 1) - overrun')
    BY <1>5, <2>1, <2>2, <2>3, <2>5, <2>6, <2>7, LoadRuns
  <2> QED
    BY <2>1, <2>8
<1>10. CASE NothingDue
  <2>1. /\ KeptUp(due_time, now - overrun) /\ awake' = FALSE /\ due_time' = due_time
        /\ overrun' = 0
    BY <1>7, <1>10 DEF NothingDue
  <2>2. first_task # NoTask /\ added = Len(AddOrder)
    BY <1>1, <1>6, <1>10, FirstOfAll DEF NothingDue
  <2>3. PICK p \in DOMAIN AddOrder :
          /\ first_task = AddOrder[p]
          /\ \A k \in DOMAIN AddOrder : due_time[AddOrder[p]] <= due_time[AddOrder[k]]
    BY <1>1, <1>6, <2>2, FirstOfAll
  <2>4. first_task \in Tasks /\ due_time[first_task] \in Nat
    BY <1>5, <2>3, OrderIs
  <2>5. now % ClockMod = now
    <3>1. PICK i \in Intervals[first_task] : TRUE
      BY <2>4, ConstantsAssumption
    <3>2. i \in Nat /\ now + i < ClockMod
      BY <1>7, <2>4, <3>1, ConstantsAssumption DEF BeforeWrap
    <3>3. now < ClockMod
      BY <1>4, <3>2, ConstantsAssumption
    <3> QED
      BY <1>4, <3>3, ModSmall
  <2>6. now < due_time[first_task]
    BY <1>4, <1>10, <2>2, <2>4, <2>5 DEF NothingDue, FirstIsDue, millis
  <2>7. /\ now' + 1 <= due_time[AddOrder[p]] + 1 /\ now' + 1 \in Int
        /\ now - overrun \in Int /\ (now' + 1) - overrun' = now' + 1
    <3>1. PICK ticks \in 0..1 : now' = now + ticks
      BY <1>10 DEF NothingDue
    <3> QED
      BY <1>4, <1>14, <2>1, <2>3, <2>4, <2>6, <3>1
  <2>8. KeptUp(due_time, now' + 1)
    BY <1>5, <2>1, <2>3, <2>7, LoadIdles
  <2> QED
    BY <2>1, <2>7, <2>8
<1>11. CASE SysTick
  BY <1>7, <1>11 DEF SysTick
<1>12. CASE OtherInterrupt
  <2>1. /\ KeptUp(due_time, (now + 1) - overrun) /\ awake' = TRUE /\ due_time' = due_time
        /\ now' = now /\ overrun' = overrun
    BY <1>7, <1>12 DEF OtherInterrupt
  <2>2. /\ now - overrun \in Int /\ (now + 1) - overrun \in Int
        /\ now - overrun <= (now + 1) - overrun
    BY <1>4, <1>14
  <2>3. KeptUp(due_time, now - overrun)
    BY <1>5, <2>1, <2>2, LoadEarlier
  <2> QED
    BY <2>1, <2>3
<1>13. CASE UNCHANGED vars
  BY <1>7, <1>13 DEF vars
<1> QED
  BY <1>8, <1>9, <1>10, <1>11, <1>12, <1>13 DEF Next

\* The load bounds how late any task of the list is.
LEMMA LateGives ==
    ASSUME NEW share, NEW whole, NEW longest, NEW latest, KeepsUp(share, whole, longest, latest),
           LateInv(share, whole, longest, latest)
    PROVE  InTime
<1> SUFFICES ASSUME BeforeWrap, NEW t \in Listed PROVE now - due_time[t] <= MaxLate + overrun
  BY DEF InTime
<1>1. AllInv /\ ListInv
  BY DEF LateInv, AllInv
<1>2. PICK p \in DOMAIN AddOrder : t = AddOrder[p]
  <2>1. PICK i \in 1..added : t = AddOrder[i]
    BY <1>1 DEF AllInv
  <2>2. i \in DOMAIN AddOrder
    BY <1>1, OrderIs DEF ListInv
  <2> QED
    BY <2>1, <2>2
<1>3. AddOrder # <<>>
  BY <1>2, OrderIs
<1>4. now \in Nat /\ overrun \in Nat /\ due_time \in [Tasks -> Nat] /\ due_time \in [Tasks -> Int]
  BY <1>1, DueIs DEF ListInv
<1>5. Load(share, whole, longest, latest, due_time, now - overrun)
  <2>1. share \in [Tasks -> Int] /\ whole \in Nat /\ latest \in Nat
    <3>1. share \in [Tasks -> Nat] /\ whole \in Nat /\ latest \in Nat
      BY DEF KeepsUp
    <3> QED
      BY <3>1
  <2>2. Load(share, whole, longest, latest, due_time,
             (IF awake THEN now ELSE now + 1) - overrun)
    BY <1>3 DEF LateInv
  <2>3. /\ now - overrun \in Int /\ (now + 1) - overrun \in Int
        /\ now - overrun <= (now + 1) - overrun
    BY <1>4
  <2>4. CASE awake
    BY <2>2, <2>4
  <2>5. CASE ~awake
    <3>1. Load(share, whole, longest, latest, due_time, (now + 1) - overrun)
      BY <2>2, <2>5
    <3> QED
      BY <1>4, <2>1, <2>3, <3>1, LoadEarlier
  <2> QED
    BY <2>4, <2>5
<1>6. PICK m \in Nat :
         /\ \A k \in DOMAIN AddOrder :
                m <= due_time[AddOrder[k]] /\ due_time[AddOrder[k]] <= m + longest[AddOrder[k]]
         /\ whole * (now - overrun) <= whole * (m + latest) + Total(Ahead(due_time, m, share))
  BY <1>5 DEF Load
<1>7. now - overrun \in Int /\ m \in Int
  BY <1>4
<1>8. (now - overrun) - due_time[t] <= MaxLate
  BY <1>2, <1>4, <1>6, <1>7, LateIs
<1>9. due_time[t] \in Int /\ MaxLate \in Int
  BY <1>2, <1>4, OrderIs, ConstantsAssumption
<1>10. \A n, o, d, l \in Int : (n - o) - d <= l => n - d <= l + o
  OBVIOUS
<1>11. now \in Int /\ overrun \in Int
  BY <1>4
<1> QED
  BY <1>8, <1>9, <1>10, <1>11, Zenon

\* When the processor keeps up with ordinary runs, no task waits longer for its
\* turn, before a due time wraps, than MaxLate and by what other runs took too
\* long since there was last nothing to do: for every set of tasks, whatever
\* their priorities, and for any overruns of any of them.
THEOREM NobodyWaitsLong ==
    (\E share, whole, longest, latest : KeepsUp(share, whole, longest, latest)) /\ Spec => []InTime
<1> SUFFICES ASSUME NEW share, NEW whole, NEW longest, NEW latest,
                    KeepsUp(share, whole, longest, latest)
             PROVE  Spec => []InTime
  OBVIOUS
<1> DEFINE Inv == LateInv(share, whole, longest, latest)
<1>1. Init => Inv
  BY LateInit
<1>2. Inv /\ [Next]_vars => Inv'
  BY LateNext
<1>3. Inv => InTime
  BY LateGives
<1> HIDE DEF Inv
<1> QED
  BY <1>1, <1>2, <1>3, PTL DEF Spec
===============================================================================
