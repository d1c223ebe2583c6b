---------------------------- MODULE UsbCdc_proofs ----------------------------
(***************************************************************************)
(* Proofs about the transmit path of the USB console, for every size of    *)
(* the queue and of the packets.                                           *)
(*                                                                         *)
(* The argument is about whose turn it is to send: main while it is inside *)
(* the callback, the interrupt while a packet is in the endpoint, the next *)
(* write when tx_done is set.  Exactly one of them has the turn; only a    *)
(* packet thrown away by the bus loses it.                                 *)
(***************************************************************************)
EXTENDS UsbCdc, SequenceTheorems, TLAPS

\* While main runs the callback, the interrupt has nothing to complete.
MainsTurn ==
    pc \in {"starting", "sending"} => ~tx_done /\ endpoint = <<>>

\* A callback that found the queue empty still finds it so when it ends.
EmptyMeansEmpty ==
    /\ pc # "sending" => buf = <<>>
    /\ pc = "sending" /\ buf = <<>> => tx_queue = <<>>

\* Outside the callback, a free endpoint and a flag that is not set mean that
\* the bus took the turn away.
TurnLost ==
    (pc \in {"idle", "pushed"} /\ ~tx_done /\ endpoint = <<>>) => discarded

Turn ==
    /\ TypeOK
    /\ DoneMeansComplete
    /\ MainsTurn
    /\ EmptyMeansEmpty
    /\ TurnLost

-----------------------------------------------------------------------------
(* The queue operations *)

LEMMA FunctionIsSeq ==
    ASSUME NEW S, NEW n \in Nat, NEW f \in [1..n -> S]
    PROVE  f \in Seq(S) /\ Len(f) = n
OBVIOUS

LEMMA EmptyIffLen ==
    ASSUME NEW S, NEW s \in Seq(S)
    PROVE  s = <<>> <=> Len(s) = 0
BY EmptySeq

LEMMA PacketType ==
    ASSUME TypeOK
    PROVE  /\ NextPacket \in Seq(Nat)
           /\ AfterPacket \in Seq(Nat)
           /\ Len(AfterPacket) <= QueueSize
           /\ NextPacket = <<>> => tx_queue = <<>>
           /\ NextPacket = <<>> => AfterPacket = <<>>
<1> DEFINE k == Smaller(PacketSize, Len(tx_queue))
<1>1. k \in 0..Len(tx_queue) /\ (k = 0 => Len(tx_queue) = 0)
  BY ConstantsAssumption DEF TypeOK, Smaller
<1>a. Len(tx_queue) \in Nat /\ \A i \in 1..Len(tx_queue) : tx_queue[i] \in Nat
  BY DEF TypeOK
<1>2. NextPacket \in Seq(Nat) /\ Len(NextPacket) = k
  <2>1. \A i \in 1..k : tx_queue[i] \in Nat
    BY <1>1, <1>a
  <2> HIDE DEF k
  <2>2. SubSeq(tx_queue, 1, k) \in Seq(Nat) /\ Len(SubSeq(tx_queue, 1, k)) = k
    BY <1>1, <2>1, <1>a, SubSeqProperties, Z3
  <2> QED
    BY <2>2 DEF NextPacket, k
<1>3. AfterPacket \in Seq(Nat) /\ Len(AfterPacket) = Len(tx_queue) - k
  <2>1. \A i \in (k + 1)..Len(tx_queue) : tx_queue[i] \in Nat
    BY <1>1, <1>a
  <2> HIDE DEF k
  <2>2. /\ SubSeq(tx_queue, k + 1, Len(tx_queue)) \in Seq(Nat)
        /\ Len(SubSeq(tx_queue, k + 1, Len(tx_queue))) = Len(tx_queue) - k
    BY <1>1, <2>1, <1>a, SubSeqProperties, Z3
  <2> QED
    BY <2>2 DEF AfterPacket, k
<1>4. NextPacket = <<>> => Len(tx_queue) = 0 /\ Len(AfterPacket) = 0
  <2> HIDE DEF k
  <2> QED
    BY <1>1, <1>2, <1>3, <1>a, EmptyIffLen
<1>5. Len(AfterPacket) <= QueueSize
  <2> HIDE DEF k
  <2> QED
    BY <1>1, <1>3, <1>a, ConstantsAssumption DEF TypeOK
<1> HIDE DEF k
<1> QED
  BY <1>2, <1>3, <1>4, <1>5, EmptyIffLen DEF TypeOK

LEMMA PushType ==
    ASSUME TypeOK, NEW n \in 1..MaxWrite
    PROVE  /\ Pushed(n) \in Nat
           /\ tx_queue \o [i \in 1..Pushed(n) |-> accepted + i] \in Seq(Nat)
           /\ Len(tx_queue \o [i \in 1..Pushed(n) |-> accepted + i]) <= QueueSize
<1>1. Pushed(n) \in Nat /\ Len(tx_queue) + Pushed(n) <= QueueSize
  BY ConstantsAssumption DEF TypeOK, Pushed, Free, Smaller
<1> DEFINE new == [i \in 1..Pushed(n) |-> accepted + i]
<1>2. new \in [1..Pushed(n) -> Nat]
  BY <1>1 DEF TypeOK
<1> HIDE DEF new
<1>3. new \in Seq(Nat) /\ Len(new) = Pushed(n)
  BY <1>1, <1>2, FunctionIsSeq
<1>4. tx_queue \o new \in Seq(Nat) /\ Len(tx_queue \o new) = Len(tx_queue) + Pushed(n)
  BY <1>3, ConcatProperties DEF TypeOK
<1> QED
  BY <1>1, <1>4 DEF new

-----------------------------------------------------------------------------

LEMMA TurnInit == Init => Turn
<1> SUFFICES ASSUME Init PROVE Turn
  OBVIOUS
<1>1. TypeOK
  <2>1. <<>> \in Seq(Nat) /\ Len(<<>>) = 0
    BY EmptySeq
  <2>2. Len(tx_queue) <= QueueSize
    BY <2>1, ConstantsAssumption DEF Init
  <2> QED
    BY <2>1, <2>2 DEF Init, TypeOK
<1>2. DoneMeansComplete /\ MainsTurn /\ EmptyMeansEmpty /\ TurnLost
  BY DEF Init, DoneMeansComplete, MainsTurn, EmptyMeansEmpty, TurnLost
<1> QED
  BY <1>1, <1>2 DEF Turn

LEMMA TurnNext == Turn /\ [Next]_vars => Turn'
<1> SUFFICES ASSUME Turn, [Next]_vars PROVE Turn'
  OBVIOUS
<1> USE DEF Turn, DoneMeansComplete, MainsTurn, EmptyMeansEmpty, TurnLost
<1>0. TypeOK
  OBVIOUS
<1>1. ASSUME NEW n \in 1..MaxWrite, Write(n) PROVE Turn'
  <2>1. TypeOK'
    BY <1>0, <1>1, PushType DEF Write, TypeOK
  <2> QED
    BY <1>1, <2>1 DEF Write
<1>2. CASE TestDone
  BY <1>2 DEF TestDone, TypeOK
<1>3. CASE TakePacket
  BY <1>0, <1>3, PacketType DEF TakePacket, TypeOK
<1>4. CASE SendPacket
  BY <1>4 DEF SendPacket, TypeOK
<1>5. CASE TxComplete
  <2>1. endpoint[Len(endpoint)] \in Nat
    BY <1>0, <1>5 DEF TxComplete, TypeOK
  <2>2. ~tx_done /\ pc \in {"idle", "pushed"} /\ buf = <<>>
    BY <1>5 DEF TxComplete, TypeOK
  <2>3. TypeOK'
    BY <1>0, <1>5, <2>1, PacketType DEF TxComplete, TypeOK
  <2>4. (tx_done' <=> NextPacket = <<>>) /\ endpoint' = NextPacket /\ tx_queue' = AfterPacket
    BY <1>5, <2>2 DEF TxComplete
  <2>5. UNCHANGED <<pc, buf, discarded>>
    BY <1>5 DEF TxComplete
  <2> QED
    <3>1. CASE NextPacket = <<>>
      BY <1>0, <2>2, <2>3, <2>4, <2>5, <3>1, PacketType DEF TypeOK
    <3>2. CASE NextPacket # <<>>
      BY <1>0, <2>2, <2>3, <2>4, <2>5, <3>2, PacketType DEF TypeOK
    <3> QED
      BY <3>1, <3>2
<1>6. CASE BusReset \/ SetConfig
  <2>1. <<>> \in Seq(Nat)
    BY EmptySeq
  <2>2. UNCHANGED <<tx_queue, tx_done, pc, buf>> /\ endpoint' = <<>>
    BY <1>6 DEF BusReset, SetConfig
  <2>3. discarded' <=> (discarded \/ endpoint # <<>>)
    BY <1>6 DEF BusReset, SetConfig
  <2>4. TypeOK'
    <3>1. discarded' \in BOOLEAN /\ cdc_configured' \in BOOLEAN /\ enumerated' \in BOOLEAN
      BY <1>0, <1>6 DEF BusReset, SetConfig, TypeOK
    <3>2. resets' \in Nat /\ UNCHANGED <<accepted, delivered>>
      BY <1>0, <1>6 DEF BusReset, SetConfig, TypeOK
    <3> QED
      BY <1>0, <2>1, <2>2, <3>1, <3>2 DEF TypeOK
  <2> QED
    BY <2>2, <2>3, <2>4
<1>7. CASE ControlLineState
  BY <1>7 DEF ControlLineState, TypeOK
<1>8. CASE UNCHANGED vars
  BY <1>8 DEF vars, device, TypeOK
<1> QED
  BY <1>1, <1>2, <1>3, <1>4, <1>5, <1>6, <1>7, <1>8 DEF Next, Main, Interrupt

THEOREM TurnInvariant == Spec => []Turn
BY TurnInit, TurnNext, PTL DEF Spec

\* For every queue and packet size, the queue never holds more than QUEUE_SIZE
\* bytes and every variable keeps its range.
THEOREM UsbTypeCorrect == Spec => []TypeOK
BY TurnInvariant, PTL DEF Turn

\* Main and interrupt never both send: the endpoint refuses no packet.
THEOREM PacketsNeverRefused == Spec => []NeverRefused
<1>1. Turn => NeverRefused
  BY DEF Turn, MainsTurn, NeverRefused
<1> QED
  BY <1>1, TurnInvariant, PTL

\* tx_done means what the comment of the callback says it means.
THEOREM DoneIsComplete == Spec => []DoneMeansComplete
BY TurnInvariant, PTL DEF Turn

\* Queued text is without a sender only after the bus threw a packet away.
THEOREM StallNeedsLoss == Spec => []StallsOnlyAfterLoss
<1>1. Turn => StallsOnlyAfterLoss
  BY DEF Turn, DoneMeansComplete, TurnLost, StallsOnlyAfterLoss
<1> QED
  BY <1>1, TurnInvariant, PTL
-----------------------------------------------------------------------------
(* The order of the bytes *)

\* Numbers above lo, up to hi, each larger than the ones before it.
Ordered(s, lo, hi) ==
    /\ s \in Seq(Nat)
    /\ \A i \in 1..Len(s) : lo < s[i] /\ s[i] <= hi
    /\ \A i, j \in 1..Len(s) : i < j => s[i] < s[j]

\* All numbers above lo, up to hi.
Complete(s, lo, hi) ==
    /\ Len(s) = hi - lo
    /\ \A i \in 1..Len(s) : s[i] = lo + i

Order ==
    /\ delivered <= accepted
    /\ Ordered(Pipeline, delivered, accepted)
    /\ ~discarded => Complete(Pipeline, delivered, accepted)

\* The numbers behind a packet that was handed over.
LEMMA OrderBehind ==
    ASSUME NEW a \in Seq(Nat), NEW b \in Seq(Nat), NEW lo \in Nat, NEW hi \in Nat,
           Ordered(a \o b, lo, hi)
    PROVE  /\ Ordered(b, lo, hi)
           /\ a # <<>> => /\ a[Len(a)] \in Nat /\ a[Len(a)] <= hi
                          /\ Ordered(b, a[Len(a)], hi)
                          /\ Complete(a \o b, lo, hi) => Complete(b, a[Len(a)], hi)
<1>1. PICK m \in Nat, n \in Nat : m = Len(a) /\ n = Len(b)
  OBVIOUS
<1> DEFINE c == a \o b
<1>2. /\ Len(c) = m + n
      /\ \A i \in 1..m : c[i] = a[i]
      /\ \A i \in 1..n : c[m + i] = b[i]
  <2>1. /\ Len(c) = m + n
        /\ \A i \in 1..(m + n) : c[i] = IF i <= m THEN a[i] ELSE b[i - m]
    BY <1>1, ConcatProperties
  <2> HIDE DEF c
  <2>2. ASSUME NEW i \in 1..n PROVE c[m + i] = b[i]
    <3>1. m + i \in 1..(m + n) /\ ~(m + i <= m) /\ m + i - m = i
      OBVIOUS
    <3> QED
      BY <2>1, <3>1
  <2>3. \A i \in 1..m : i \in 1..(m + n) /\ i <= m
    OBVIOUS
  <2> QED
    BY <2>1, <2>2, <2>3
<1>3. /\ \A i \in 1..(m + n) : lo < c[i] /\ c[i] <= hi
      /\ \A i, j \in 1..(m + n) : i < j => c[i] < c[j]
  BY <1>2 DEF Ordered
<1>4. \A i \in 1..n : b[i] \in Nat
  BY <1>1
<1> HIDE DEF c
<1>5. \A i \in 1..n : lo < b[i] /\ b[i] <= hi
  <2> TAKE i \in 1..n
  <2>1. m + i \in 1..(m + n)
    OBVIOUS
  <2> QED
    BY <1>2, <1>3, <2>1
<1>6. \A i, j \in 1..n : i < j => b[i] < b[j]
  <2> TAKE i, j \in 1..n
  <2>1. m + i \in 1..(m + n) /\ m + j \in 1..(m + n) /\ (i < j => m + i < m + j)
    OBVIOUS
  <2>2. c[m + i] = b[i] /\ c[m + j] = b[j]
    BY <1>2
  <2> QED
    BY <1>3, <2>1, <2>2
<1>7. Ordered(b, lo, hi)
  BY <1>1, <1>5, <1>6, Zenon DEF Ordered
<1>8. ASSUME m # 0
      PROVE  /\ a[m] \in Nat /\ a[m] <= hi /\ Ordered(b, a[m], hi)
             /\ Complete(c, lo, hi) => Complete(b, a[m], hi)
  <2>1. m \in 1..m /\ m \in 1..(m + n) /\ c[m] = a[m] /\ a[m] \in Nat
    BY <1>1, <1>2, <1>8
  <2>2. a[m] <= hi
    BY <1>3, <2>1
  <2>3. \A i \in 1..n : a[m] < b[i]
    <3> TAKE i \in 1..n
    <3>1. m + i \in 1..(m + n) /\ m < m + i
      BY <1>8
    <3>2. c[m] < c[m + i]
      BY <1>3, <2>1, <3>1
    <3> QED
      BY <1>2, <2>1, <3>2
  <2>4. Ordered(b, a[m], hi)
    BY <1>1, <1>5, <1>6, <2>3, Zenon DEF Ordered
  <2>5. ASSUME Complete(c, lo, hi) PROVE Complete(b, a[m], hi)
    <3>1. m + n = hi - lo /\ \A i \in 1..(m + n) : c[i] = lo + i
      <4>1. Len(c) = m + n
        BY <1>2
      <4>2. Len(c) = hi - lo /\ \A i \in 1..Len(c) : c[i] = lo + i
        BY <2>5, Zenon DEF Complete
      <4> QED
        BY <4>1, <4>2
    <3>2. a[m] = lo + m /\ n = hi - a[m]
      <4>1. a[m] = lo + m
        BY <2>1, <3>1, Zenon
      <4>2. \A x, y, k \in Nat : k + x = hi - lo /\ y = lo + k => x = hi - y
        OBVIOUS
      <4> QED
        BY <2>1, <3>1, <4>1, <4>2, Zenon
    <3>3. \A i \in 1..n : b[i] = a[m] + i
      <4> TAKE i \in 1..n
      <4>1. m + i \in 1..(m + n)
        OBVIOUS
      <4>2. b[i] = lo + (m + i)
        BY <1>2, <3>1, <4>1
      <4> QED
        BY <3>2, <4>2
    <3> QED
      BY <1>1, <3>2, <3>3, Zenon DEF Complete
  <2> QED
    BY <2>1, <2>2, <2>4, <2>5
<1>9. a # <<>> => m # 0
  BY <1>1, EmptyIffLen
<1> QED
  BY <1>1, <1>7, <1>8, <1>9, Zenon DEF c

\* The numbers of a write go on where the last one ended.
LEMMA OrderPushed ==
    ASSUME NEW a \in Seq(Nat), NEW lo \in Nat, NEW hi \in Nat, lo <= hi, NEW n \in Nat,
           Ordered(a, lo, hi)
    PROVE  /\ Ordered(a \o [i \in 1..n |-> hi + i], lo, hi + n)
           /\ Complete(a, lo, hi) => Complete(a \o [i \in 1..n |-> hi + i], lo, hi + n)
<1>1. PICK m \in Nat : m = Len(a)
  OBVIOUS
<1> DEFINE b == [i \in 1..n |-> hi + i]
           c == a \o b
<1>2. b \in Seq(Nat) /\ Len(b) = n /\ \A i \in 1..n : b[i] = hi + i
  <2>1. b \in [1..n -> Nat]
    OBVIOUS
  <2> QED
    BY <2>1, FunctionIsSeq
<1> HIDE DEF b
<1>3. /\ c \in Seq(Nat) /\ Len(c) = m + n
      /\ \A i \in 1..(m + n) : c[i] = IF i <= m THEN a[i] ELSE b[i - m]
  BY <1>1, <1>2, ConcatProperties
<1> HIDE DEF c
<1>4. /\ \A i \in 1..m : lo < a[i] /\ a[i] <= hi /\ a[i] \in Nat
      /\ \A i, j \in 1..m : i < j => a[i] < a[j]
  BY <1>1 DEF Ordered
<1>5. \A i \in 1..(m + n) :
         /\ i <= m => i \in 1..m /\ c[i] = a[i]
         /\ ~(i <= m) => c[i] = hi + (i - m)
  <2> TAKE i \in 1..(m + n)
  <2>1. ~(i <= m) => i - m \in 1..n
    OBVIOUS
  <2> QED
    BY <1>2, <1>3, <2>1
<1>6. \A i \in 1..(m + n) : lo < c[i] /\ c[i] <= hi + n
  <2> TAKE i \in 1..(m + n)
  <2>1. CASE i <= m
    BY <1>4, <1>5, <2>1
  <2>2. CASE ~(i <= m)
    BY <1>5, <2>2
  <2> QED
    BY <2>1, <2>2
<1>7. \A i, j \in 1..(m + n) : i < j => c[i] < c[j]
  <2> TAKE i, j \in 1..(m + n)
  <2>1. CASE j <= m
    <3>1. i < j => i <= m
      BY <2>1
    <3> QED
      BY <1>4, <1>5, <2>1, <3>1
  <2>2. CASE ~(j <= m) /\ i <= m
    <3>1. c[i] = a[i] /\ a[i] <= hi /\ a[i] \in Nat /\ c[j] = hi + (j - m)
      BY <1>4, <1>5, <2>2
    <3> QED
      BY <2>2, <3>1
  <2>3. CASE ~(j <= m) /\ ~(i <= m)
    <3>1. c[i] = hi + (i - m) /\ c[j] = hi + (j - m)
      BY <1>5, <2>3
    <3> QED
      BY <3>1
  <2> QED
    BY <2>1, <2>2, <2>3
<1>8. Ordered(c, lo, hi + n)
  BY <1>3, <1>6, <1>7, Zenon DEF Ordered
<1>9. ASSUME Complete(a, lo, hi) PROVE Complete(c, lo, hi + n)
  <2>1. m = hi - lo /\ \A i \in 1..m : a[i] = lo + i
    BY <1>1, <1>9 DEF Complete
  <2>2. m + n = hi + n - lo
    BY <2>1
  <2>3. \A i \in 1..(m + n) : c[i] = lo + i
    <3> TAKE i \in 1..(m + n)
    <3>1. CASE i <= m
      BY <1>5, <2>1, <3>1
    <3>2. CASE ~(i <= m)
      <4>1. c[i] = hi + (i - m)
        BY <1>5, <3>2
      <4> QED
        BY <2>1, <4>1
    <3> QED
      BY <3>1, <3>2
  <2>4. Len(c) = hi + n - lo
    BY <1>3, <2>2
  <2>5. \A i \in 1..Len(c) : c[i] = lo + i
    BY <1>3, <2>3
  <2> QED
    BY <2>4, <2>5 DEF Complete
<1> QED
  BY <1>8, <1>9 DEF b, c

\* A packet and what it leaves are the queue.
LEMMA PacketSplits ==
    ASSUME TypeOK
    PROVE  NextPacket \o AfterPacket = tx_queue
<1>1. PICK m \in Nat : m = Len(tx_queue)
  BY DEF TypeOK
<1>2. PICK k \in 0..m : k = Smaller(PacketSize, Len(tx_queue))
  BY <1>1, ConstantsAssumption DEF Smaller
<1>3. \A i \in 1..m : tx_queue[i] \in Nat
  BY <1>1 DEF TypeOK
<1> DEFINE x == SubSeq(tx_queue, 1, k)
           y == SubSeq(tx_queue, k + 1, m)
<1>4. x \in Seq(Nat) /\ Len(x) = k /\ \A i \in 1..k : x[i] = tx_queue[i]
  <2>1. \A i \in 1..k : tx_queue[i] \in Nat
    BY <1>3
  <2> QED
    BY <2>1, SubSeqProperties, Z3
<1>5. y \in Seq(Nat) /\ Len(y) = m - k /\ \A i \in 1..(m - k) : y[i] = tx_queue[k + i]
  <2>1. \A i \in (k + 1)..m : tx_queue[i] \in Nat
    BY <1>3
  <2> QED
    BY <2>1, SubSeqProperties, Z3
<1>6. NextPacket = x /\ AfterPacket = y
  BY <1>1, <1>2, Zenon DEF NextPacket, AfterPacket
<1> HIDE DEF x, y
<1>7. /\ x \o y \in Seq(Nat) /\ Len(x \o y) = m
      /\ \A i \in 1..m : (x \o y)[i] = IF i <= k THEN x[i] ELSE y[i - k]
  <2>1. /\ x \o y \in Seq(Nat) /\ Len(x \o y) = Len(x) + Len(y)
        /\ \A i \in 1..(Len(x) + Len(y)) :
              (x \o y)[i] = IF i <= Len(x) THEN x[i] ELSE y[i - Len(x)]
    BY <1>4, <1>5, ConcatProperties
  <2>2. k + (m - k) = m
    OBVIOUS
  <2>3. Len(x) = k /\ Len(x) + Len(y) = m
    BY <1>4, <1>5, <2>2
  <2> QED
    BY <2>1, <2>3
<1>8. \A i \in 1..m : (x \o y)[i] = tx_queue[i]
  <2> TAKE i \in 1..m
  <2>1. CASE i <= k
    BY <1>4, <1>7, <2>1
  <2>2. CASE ~(i <= k)
    <3>1. i - k \in 1..(m - k) /\ k + (i - k) = i
      BY <2>2
    <3> QED
      BY <1>5, <1>7, <2>2, <3>1
  <2> QED
    BY <2>1, <2>2
<1> QED
  BY <1>1, <1>6, <1>7, <1>8, SeqEqual DEF TypeOK

LEMMA Associative ==
    ASSUME NEW a \in Seq(Nat), NEW b \in Seq(Nat), NEW c \in Seq(Nat)
    PROVE  (a \o b) \o c = a \o (b \o c)
<1>1. \A S : \A s1, s2, s3 \in Seq(S) : (s1 \o s2) \o s3 = s1 \o (s2 \o s3)
  BY ConcatAssociative
<1> QED
  BY <1>1

LEMMA OrderInit == Init => Order
<1> SUFFICES ASSUME Init PROVE Order
  OBVIOUS
<1>1. <<>> \in Seq(Nat) /\ Len(<<>>) = 0 /\ <<>> \o <<>> = <<>>
  BY EmptySeq, ConcatEmptySeq
<1>2. Pipeline = <<>> /\ delivered = 0 /\ accepted = 0
  BY <1>1 DEF Init, Pipeline
<1>3. Ordered(<<>>, 0, 0) /\ Complete(<<>>, 0, 0)
  BY <1>1 DEF Ordered, Complete
<1> QED
  BY <1>2, <1>3 DEF Order

\* A step that moves bytes along, and no byte out.
LEMMA SamePipeline ==
    ASSUME Order, Pipeline' = Pipeline, UNCHANGED <<accepted, delivered>>,
           discarded' = FALSE => discarded = FALSE, TypeOK
    PROVE  Order'
BY DEF Order, TypeOK

\* A step that throws a packet away.
LEMMA PacketGone ==
    ASSUME Order, TypeOK, UNCHANGED <<accepted, delivered>>,
           NEW a \in Seq(Nat), NEW b \in Seq(Nat), Pipeline = a \o b, Pipeline' = b,
           discarded' <=> discarded \/ a # <<>>
    PROVE  Order'
<1>1. accepted \in Nat /\ delivered \in Nat
  BY DEF TypeOK
<1>2. Ordered(b, delivered, accepted)
  BY <1>1, OrderBehind DEF Order
<1>3. ~discarded' => a = <<>> /\ Complete(Pipeline, delivered, accepted)
  BY DEF Order
<1>4. a = <<>> => a \o b = b
  BY ConcatEmptySeq
<1>5. ~discarded' => Complete(b, delivered, accepted)
  BY <1>3, <1>4
<1> QED
  BY <1>2, <1>5 DEF Order

LEMMA OrderNext == Turn /\ Order /\ [Next]_vars => Order'
<1> SUFFICES ASSUME Turn, Order, [Next]_vars PROVE Order'
  OBVIOUS
<1>0. /\ TypeOK /\ endpoint \in Seq(Nat) /\ buf \in Seq(Nat) /\ tx_queue \in Seq(Nat)
      /\ accepted \in Nat /\ delivered \in Nat
  BY DEF Turn, TypeOK
<1>1. ASSUME NEW n \in 1..MaxWrite, Write(n) PROVE Order'
  <2>1. Pushed(n) \in Nat
    BY <1>0, PushType
  <2> DEFINE new == [i \in 1..Pushed(n) |-> accepted + i]
  <2>2. /\ tx_queue' = tx_queue \o new /\ accepted' = accepted + Pushed(n)
        /\ UNCHANGED <<endpoint, buf, delivered, discarded>>
    BY <1>1 DEF Write
  <2>3. new \in Seq(Nat)
    <3>1. new \in [1..Pushed(n) -> Nat]
      BY <1>0, <2>1
    <3> HIDE DEF new
    <3> QED
      BY <2>1, <3>1, FunctionIsSeq
  <2>4. Pipeline' = Pipeline \o new /\ Pipeline \in Seq(Nat)
    <3> HIDE DEF new
    <3>1. endpoint \o buf \in Seq(Nat)
      BY <1>0, ConcatProperties
    <3>2. (endpoint \o buf) \o (tx_queue \o new) = ((endpoint \o buf) \o tx_queue) \o new
      BY <1>0, <2>3, <3>1, Associative, Zenon
    <3>3. (endpoint \o buf) \o tx_queue \in Seq(Nat)
      BY <1>0, <3>1, ConcatProperties
    <3> QED
      BY <2>2, <3>2, <3>3 DEF Pipeline
  <2>5. delivered <= accepted /\ Ordered(Pipeline, delivered, accepted)
        /\ (~discarded => Complete(Pipeline, delivered, accepted))
    BY DEF Order
  <2>6. /\ Ordered(Pipeline \o new, delivered, accepted + Pushed(n))
        /\ Complete(Pipeline, delivered, accepted) =>
              Complete(Pipeline \o new, delivered, accepted + Pushed(n))
    BY <1>0, <2>1, <2>4, <2>5, OrderPushed
  <2>7. delivered <= accepted + Pushed(n)
    BY <1>0, <2>1, <2>5
  <2> HIDE DEF new
  <2> QED
    BY <2>2, <2>4, <2>5, <2>6, <2>7 DEF Order
<1>2. CASE TestDone \/ ControlLineState \/ UNCHANGED vars
  <2>1. UNCHANGED <<endpoint, buf, tx_queue, accepted, delivered, discarded>>
    BY <1>2 DEF TestDone, ControlLineState, vars, device
  <2>2. Pipeline' = Pipeline
    BY <2>1 DEF Pipeline
  <2> QED
    BY <1>0, <2>1, <2>2, SamePipeline
<1>3. CASE TakePacket
  <2>1. /\ buf' = NextPacket /\ tx_queue' = AfterPacket
        /\ UNCHANGED <<endpoint, accepted, delivered, discarded>>
    BY <1>3 DEF TakePacket
  <2>2. buf = <<>>
    BY <1>3 DEF TakePacket, Turn, EmptyMeansEmpty
  <2>3. NextPacket \in Seq(Nat) /\ AfterPacket \in Seq(Nat) /\ NextPacket \o AfterPacket = tx_queue
    BY <1>0, PacketType, PacketSplits
  <2>4. (endpoint \o NextPacket) \o AfterPacket = endpoint \o tx_queue
    BY <1>0, <2>3, Associative, Zenon
  <2>5. endpoint \o buf = endpoint
    BY <1>0, <2>2, ConcatEmptySeq
  <2>6. Pipeline' = Pipeline
    BY <2>1, <2>4, <2>5 DEF Pipeline
  <2> QED
    BY <1>0, <2>1, <2>6, SamePipeline
<1>4. CASE SendPacket
  <2>1. endpoint = <<>>
    BY <1>4 DEF SendPacket, Turn, MainsTurn
  <2>2. /\ endpoint' = buf /\ buf' = <<>> /\ discarded' = discarded
        /\ UNCHANGED <<tx_queue, accepted, delivered>>
    BY <1>0, <1>4, <2>1 DEF SendPacket, TypeOK
  <2>3. <<>> \o buf = buf /\ buf \o <<>> = buf
    BY <1>0, ConcatEmptySeq
  <2>4. Pipeline' = Pipeline
    BY <2>1, <2>2, <2>3 DEF Pipeline
  <2> QED
    BY <1>0, <2>2, <2>4, SamePipeline
<1>5. CASE TxComplete
  <2>1. /\ endpoint # <<>> /\ delivered' = endpoint[Len(endpoint)]
        /\ endpoint' = NextPacket /\ tx_queue' = AfterPacket
        /\ UNCHANGED <<buf, accepted, discarded>>
    BY <1>5 DEF TxComplete
  <2>2. buf = <<>>
    BY <2>1 DEF Turn, MainsTurn, EmptyMeansEmpty, TypeOK
  <2>3. NextPacket \in Seq(Nat) /\ NextPacket \o AfterPacket = tx_queue
    BY <1>0, PacketType, PacketSplits
  <2>4. Pipeline = endpoint \o tx_queue
    BY <1>0, <2>2, ConcatEmptySeq DEF Pipeline
  <2>5. Pipeline' = tx_queue
    BY <2>1, <2>2, <2>3, ConcatEmptySeq DEF Pipeline
  <2>6. /\ Ordered(endpoint \o tx_queue, delivered, accepted)
        /\ ~discarded => Complete(endpoint \o tx_queue, delivered, accepted)
    BY <2>4 DEF Order
  <2>7. /\ endpoint[Len(endpoint)] <= accepted
        /\ Ordered(tx_queue, endpoint[Len(endpoint)], accepted)
        /\ ~discarded => Complete(tx_queue, endpoint[Len(endpoint)], accepted)
    BY <1>0, <2>1, <2>6, OrderBehind
  <2> QED
    BY <2>1, <2>5, <2>7 DEF Order
<1>6. CASE BusReset \/ SetConfig
  <2>1. /\ endpoint' = <<>> /\ UNCHANGED <<tx_queue, buf, accepted, delivered>>
        /\ discarded' <=> (discarded \/ endpoint # <<>>)
    BY <1>6 DEF BusReset, SetConfig
  <2>2. buf \o tx_queue \in Seq(Nat) /\ Pipeline = endpoint \o (buf \o tx_queue)
    <3>1. buf \o tx_queue \in Seq(Nat)
      BY <1>0, ConcatProperties
    <3>2. (endpoint \o buf) \o tx_queue = endpoint \o (buf \o tx_queue)
      BY <1>0, Associative, Zenon
    <3> QED
      BY <3>1, <3>2, Zenon DEF Pipeline
  <2>3. Pipeline' = buf \o tx_queue
    BY <1>0, <2>1, ConcatEmptySeq DEF Pipeline
  <2> QED
    BY <1>0, <2>1, <2>2, <2>3, PacketGone
<1> QED
  BY <1>1, <1>2, <1>3, <1>4, <1>5, <1>6 DEF Next, Main, Interrupt

LEMMA OrderImplies == TypeOK /\ Order => InOrder
<1> SUFFICES ASSUME TypeOK, Order PROVE InOrder
  OBVIOUS
<1>1. Ordered(Pipeline, delivered, accepted) /\ (~discarded => Len(Pipeline) = accepted - delivered)
  BY DEF Order, Complete
<1>2. PICK n \in Nat : n = Len(Pipeline)
  BY <1>1 DEF Ordered
<1>3. /\ \A i \in 1..n : delivered < Pipeline[i]
      /\ \A i, j \in 1..n : i < j => Pipeline[i] < Pipeline[j]
      /\ \A i \in 1..n : Pipeline[i] \in Nat
  BY <1>1, <1>2 DEF Ordered
<1>4. \A i \in 1..n : Pipeline[i] > delivered
  BY <1>3 DEF TypeOK
<1>5. \A i \in 1..(n - 1) : Pipeline[i] < Pipeline[i + 1]
  <2> TAKE i \in 1..(n - 1)
  <2>1. i \in 1..n /\ i + 1 \in 1..n /\ i < i + 1
    OBVIOUS
  <2> QED
    BY <1>3, <2>1
<1> QED
  BY <1>1, <1>2, <1>4, <1>5, Zenon DEF InOrder

\* What reaches the host is what was accepted, each byte once and in order;
\* only packets that the bus threw away are missing.
THEOREM BytesStayInOrder == Spec => []InOrder
<1>1. Turn => TypeOK
  BY DEF Turn
<1> QED
  BY <1>1, TurnInvariant, OrderInit, OrderNext, OrderImplies, PTL DEF Spec
=============================================================================
