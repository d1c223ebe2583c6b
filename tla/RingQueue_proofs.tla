--------------------------- MODULE RingQueue_proofs ---------------------------
(***************************************************************************)
(* Proofs about RingQueue, for every capacity.  With the interrupt masked  *)
(* around the operations of main, the ring buffer implements a bounded     *)
(* FIFO, whichever side main is on.  Without the mask an interrupt that    *)
(* falls into an operation loses one byte and lets one stale byte through  *)
(* at most.  Then what such a FIFO means to the receiver at its other end: *)
(* of the commands of UbloxCommands none is lost but by a tear.            *)
(***************************************************************************)
EXTENDS RingQueue, UbloxCommands, FiniteSetTheorems, SequenceTheorems, TLAPS

-----------------------------------------------------------------------------
(* Sequences that are given as functions *)

LEMMA IsSeq ==
    ASSUME NEW n \in Nat, NEW f \in [1..n -> Nat]
    PROVE  f \in Seq(Nat) /\ Len(f) = n
  OBVIOUS

LEMMA IsAppend ==
    ASSUME NEW n \in Nat, NEW f \in [1..n -> Nat], NEW g \in [1..(n + 1) -> Nat],
           \A i \in 1..n : g[i] = f[i]
    PROVE  g = Append(f, g[n + 1]) /\ Len(f) = n
<1>1. f \in Seq(Nat) /\ Len(f) = n /\ n + 1 \in Nat
  BY IsSeq
<1>2. g \in Seq(Nat) /\ Len(g) = n + 1 /\ g[n + 1] \in Nat
  BY <1>1, IsSeq
<1>3. /\ Append(f, g[n + 1]) \in Seq(Nat) /\ Len(Append(f, g[n + 1])) = n + 1
      /\ \A i \in 1..n : Append(f, g[n + 1])[i] = f[i]
      /\ Append(f, g[n + 1])[n + 1] = g[n + 1]
  BY <1>1, <1>2, AppendProperties
<1> QED
  BY <1>1, <1>2, <1>3, SeqEqual

LEMMA IsTail ==
    ASSUME NEW n \in Nat, NEW f \in [1..(n + 1) -> Nat], NEW g \in [1..n -> Nat],
           \A i \in 1..n : g[i] = f[i + 1]
    PROVE  g = Tail(f) /\ f # <<>> /\ Head(f) = f[1]
<1>1. f \in Seq(Nat) /\ Len(f) = n + 1 /\ g \in Seq(Nat) /\ Len(g) = n
  BY IsSeq
<1>2. f # <<>>
  BY <1>1
<1>3. Tail(f) \in Seq(Nat) /\ Len(Tail(f)) = n /\ \A i \in 1..n : Tail(f)[i] = f[i + 1]
  BY <1>1, <1>2, HeadTailProperties
<1>4. g = Tail(f)
  BY <1>1, <1>3, SeqEqual
<1> QED
  BY <1>1, <1>2, <1>4

-----------------------------------------------------------------------------
(* The ring *)

\* Slots that are counted from the head.
LEMMA WrapIs ==
    ASSUME NEW h \in Slots, NEW i \in 0..Capacity
    PROVE  /\ Wrap(h + i) \in Slots
           /\ i < Capacity => Wrap(Wrap(h + 1) + i) = Wrap(h + (i + 1))
  BY ConstantsAssumption DEF Slots, Wrap

\* Two of them are different if their counts are.
LEMMA WrapTells ==
    ASSUME NEW h \in Slots, NEW i \in 0..(Capacity - 1), NEW j \in 0..(Capacity - 1), i # j
    PROVE  Wrap(h + i) # Wrap(h + j)
  BY ConstantsAssumption DEF Slots, Wrap

\* A masked operation of main works on what it has seen.
Consistent ==
    /\ pc \in {"idle", "popping", "popped", "shrinking", "pushing", "located", "written",
               "growing", "enabling"}
    /\ _buffer \in [Slots -> Nat] /\ _head \in Slots /\ _size \in 0..Capacity
    /\ accepted \in Nat
    /\ InOperation => size0 = _size
    /\ pc \in {"popping", "popped", "shrinking"} => _size > 0
    /\ pc \in {"pushing", "located", "written", "growing"} => _size < Capacity
    /\ pc = "located" => tail = Wrap(_head + _size)
    /\ pc \in {"written", "growing"} => _buffer[Wrap(_head + _size)] = accepted

MaskedInv == masked => Consistent

LEMMA MaskedInit == Init => MaskedInv
  BY ConstantsAssumption DEF Init, MaskedInv, Consistent, InOperation, Slots

LEMMA MaskedNext == MaskedInv /\ [Next]_vars => MaskedInv'
<1> SUFFICES ASSUME masked, masked', Consistent, [Next]_vars PROVE Consistent'
  <2>1. [Next]_vars => masked' = masked
    BY DEF Next, Main, Interrupt, PopTest, PopTake, PopLoad, PopStore, PushTest, PushLocate,
           PushWrite, PushLoad, PushStore, EnableTX, Receive, Transmit, NothingToTransmit,
           vars, kind
  <2> QED
    BY <2>1 DEF MaskedInv
<1> USE DEF Consistent, InOperation
<1>1. Capacity \in Nat \ {0} /\ Wrap(_head + 1) \in Slots /\ Wrap(_head + _size) \in Slots
  <2>1. 1 \in 0..Capacity /\ _size \in 0..Capacity
    BY ConstantsAssumption
  <2> QED
    BY <2>1, WrapIs, ConstantsAssumption
<1>2. CASE PopTest
  BY <1>2 DEF PopTest, hist
<1>3. CASE PopTake
  BY <1>1, <1>3 DEF PopTake
<1>4. CASE PopLoad
  BY <1>4 DEF PopLoad, hist
<1>5. CASE PopStore
  BY <1>1, <1>5 DEF PopStore, hist
<1>6. CASE PushTest
  BY <1>6 DEF PushTest, hist
<1>7. CASE PushLocate
  BY <1>7 DEF PushLocate, hist
<1>8. CASE PushWrite
  BY <1>1, <1>8 DEF PushWrite
<1>9. CASE PushLoad
  BY <1>9 DEF PushLoad, hist
<1>10. CASE PushStore
  BY <1>1, <1>10 DEF PushStore, hist
<1>11. CASE EnableTX
  BY <1>11 DEF EnableTX, hist
<1>12. CASE Receive
  BY <1>1, <1>12 DEF Receive, MayInterrupt
<1>13. CASE Transmit
  BY <1>1, <1>13 DEF Transmit, MayInterrupt
<1>14. CASE NothingToTransmit
  BY <1>14 DEF NothingToTransmit, hist
<1>15. CASE UNCHANGED vars
  BY <1>15 DEF vars, hist
<1> QED
  BY <1>2, <1>3, <1>4, <1>5, <1>6, <1>7, <1>8, <1>9, <1>10, <1>11, <1>12, <1>13, <1>14, <1>15
     DEF Next, Main, Interrupt

-----------------------------------------------------------------------------
(* Every step is one of the FIFO, or none *)

\* The contents are the slots from the head on.
ContentsFit == /\ Length \in 0..Capacity /\ Contents \in [1..Length -> Nat]
               /\ \A i \in 1..Length : Contents[i] = _buffer[Wrap(_head + (i - 1))]

LEMMA ContentsAre == Consistent => ContentsFit
<1> SUFFICES ASSUME Consistent PROVE ContentsFit
  OBVIOUS
<1>1. Capacity \in Nat \ {0} /\ _size \in 0..Capacity
  BY ConstantsAssumption DEF Consistent
<1>2. Length \in 0..Capacity
  BY <1>1 DEF Length, Consistent
<1>3. \A i \in 1..Length : _head + i - 1 = _head + (i - 1) /\ i - 1 \in 0..Capacity
  BY <1>1, <1>2, ConstantsAssumption DEF Consistent, Slots
<1>4. \A i \in 1..Length : _buffer[Wrap(_head + (i - 1))] \in Nat
  BY <1>2, <1>3, WrapIs DEF Consistent
<1> QED
  BY <1>2, <1>3, <1>4 DEF Contents, ContentsFit

LEMMA ContentsWillBe == Consistent' => ContentsFit'
  BY ContentsAre, PTL

\* Nothing in the queue has changed.
LEMMA SameContents ==
    ASSUME Consistent, Consistent', Length' = Length, _head' = _head,
           \A i \in 0..(Length - 1) : _buffer'[Wrap(_head + i)] = _buffer[Wrap(_head + i)]
    PROVE  Contents' = Contents
<1>1. PICK n \in 0..Capacity : n = Length /\ n = Length'
  BY ContentsAre, ContentsWillBe DEF ContentsFit
<1>2. /\ Contents \in [1..n -> Nat] /\ Contents' \in [1..n -> Nat]
      /\ \A i \in 1..n : Contents[i] = _buffer[Wrap(_head + (i - 1))]
      /\ \A i \in 1..n : Contents'[i] = _buffer'[Wrap(_head + (i - 1))]
  <2>1. /\ Contents' \in [1..Length' -> Nat]
        /\ \A i \in 1..Length' : Contents'[i] = _buffer'[Wrap(_head' + (i - 1))]
    BY ContentsWillBe DEF ContentsFit, Wrap
  <2> QED
    BY <1>1, <2>1, ContentsAre DEF ContentsFit
<1>3. \A i \in 1..n : i - 1 \in 0..(n - 1)
  BY <1>1, ConstantsAssumption
<1>4. \A i \in 1..n : Contents'[i] = Contents[i]
  BY <1>1, <1>2, <1>3
<1> QED
  BY <1>2, <1>4

\* One slot more.
LEMMA OneMore ==
    ASSUME Consistent, Consistent', Length < Capacity, Length' = Length + 1, _head' = _head,
           \A i \in 0..(Length - 1) : _buffer'[Wrap(_head + i)] = _buffer[Wrap(_head + i)]
    PROVE  /\ Contents' = Append(Contents, _buffer'[Wrap(_head + Length)])
           /\ Len(Contents) < Capacity
<1>1. PICK n \in 0..Capacity : n = Length /\ n + 1 = Length'
  BY ContentsAre, ContentsWillBe DEF ContentsFit
<1>2. /\ Contents \in [1..n -> Nat] /\ Contents' \in [1..(n + 1) -> Nat] /\ n \in Nat
      /\ \A i \in 1..n : Contents[i] = _buffer[Wrap(_head + (i - 1))]
      /\ \A i \in 1..(n + 1) : Contents'[i] = _buffer'[Wrap(_head + (i - 1))]
  <2>1. /\ Contents' \in [1..Length' -> Nat]
        /\ \A i \in 1..Length' : Contents'[i] = _buffer'[Wrap(_head' + (i - 1))]
    BY ContentsWillBe DEF ContentsFit, Wrap
  <2> QED
    BY <1>1, <2>1, ContentsAre, ConstantsAssumption DEF ContentsFit
<1>3. \A i \in 1..n : i - 1 \in 0..(n - 1) /\ i \in 1..(n + 1)
  BY <1>2
<1>4. \A i \in 1..n : Contents'[i] = Contents[i]
  BY <1>1, <1>2, <1>3
<1>5. Contents' = Append(Contents, Contents'[n + 1]) /\ Len(Contents) = n
  BY <1>2, <1>4, IsAppend
<1>6. Contents'[n + 1] = _buffer'[Wrap(_head + n)]
  <2>1. n + 1 \in 1..(n + 1) /\ (n + 1) - 1 = n
    BY <1>2
  <2> QED
    BY <1>2, <2>1
<1> QED
  BY <1>1, <1>5, <1>6

\* One slot less.
LEMMA OneLess ==
    ASSUME Consistent, Consistent', Length > 0, Length' = Length - 1,
           _head' = Wrap(_head + 1), _buffer' = _buffer
    PROVE  Contents' = Tail(Contents) /\ Contents # <<>> /\ Head(Contents) = _buffer[_head]
<1>1. PICK n \in Nat : n + 1 = Length /\ n = Length' /\ n + 1 <= Capacity
  <2>1. Length - 1 \in Nat /\ (Length - 1) + 1 = Length /\ Length <= Capacity
    BY ContentsAre, ConstantsAssumption DEF ContentsFit
  <2> QED
    BY <2>1
<1>2. /\ Contents \in [1..(n + 1) -> Nat] /\ Contents' \in [1..n -> Nat]
      /\ \A i \in 1..(n + 1) : Contents[i] = _buffer[Wrap(_head + (i - 1))]
      /\ \A i \in 1..n : Contents'[i] = _buffer[Wrap(Wrap(_head + 1) + (i - 1))]
  <2>1. /\ Contents' \in [1..Length' -> Nat]
        /\ \A i \in 1..Length' : Contents'[i] = _buffer'[Wrap(_head' + (i - 1))]
    BY ContentsWillBe DEF ContentsFit, Wrap
  <2> QED
    BY <1>1, <2>1, ContentsAre DEF ContentsFit
<1>3. \A i \in 1..n : Wrap(Wrap(_head + 1) + (i - 1)) = Wrap(_head + i)
  <2> TAKE i \in 1..n
  <2>1. i - 1 \in 0..Capacity /\ i - 1 < Capacity /\ (i - 1) + 1 = i
    BY <1>1, ConstantsAssumption
  <2>2. Wrap(Wrap(_head + 1) + (i - 1)) = Wrap(_head + ((i - 1) + 1))
    BY <2>1, WrapIs DEF Consistent
  <2> QED
    BY <2>1, <2>2
<1>4. \A i \in 1..n : i + 1 \in 1..(n + 1) /\ (i + 1) - 1 = i
  OBVIOUS
<1>5. \A i \in 1..n : Contents'[i] = Contents[i + 1]
  BY <1>2, <1>3, <1>4
<1>6. Contents' = Tail(Contents) /\ Contents # <<>> /\ Head(Contents) = Contents[1]
  BY <1>2, <1>5, IsTail
<1>7. Contents[1] = _buffer[_head]
  <2>1. 1 \in 1..(n + 1) /\ _head + (1 - 1) = _head /\ Wrap(_head) = _head
    BY ConstantsAssumption DEF Consistent, Slots, Wrap
  <2> QED
    BY <1>2, <2>1
<1> QED
  BY <1>6, <1>7

\* What the FIFO sees; BoundedFifo is instantiated with these.
Queue == IF masked THEN Contents ELSE <<>>
Count == IF ~masked THEN 0 ELSE IF pc \in {"written", "growing"} THEN accepted - 1 ELSE accepted
Last  == IF masked THEN item ELSE 0

FifoPush == /\ Len(Queue) < Capacity /\ Queue' = Append(Queue, Count + 1)
            /\ Count' = Count + 1 /\ Last' = Last
FifoPop  == /\ Queue # <<>> /\ Last' = Head(Queue) /\ Queue' = Tail(Queue)
            /\ Count' = Count
Stutters == Queue' = Queue /\ Count' = Count /\ Last' = Last

LEMMA StepIsFifo == MaskedInv /\ MaskedInv' /\ [Next]_vars => FifoPush \/ FifoPop \/ Stutters
<1> SUFFICES ASSUME MaskedInv, MaskedInv', [Next]_vars PROVE FifoPush \/ FifoPop \/ Stutters
  OBVIOUS
<1>1. masked' = masked
  BY DEF Next, Main, Interrupt, PopTest, PopTake, PopLoad, PopStore, PushTest, PushLocate,
         PushWrite, PushLoad, PushStore, EnableTX, Receive, Transmit, NothingToTransmit,
         vars, kind
<1>2. CASE ~masked
  BY <1>1, <1>2 DEF Stutters, Queue, Count, Last
<1>3. CASE masked
  <2>1. Consistent /\ Consistent'
    BY <1>1, <1>3 DEF MaskedInv
  <2>2. Queue = Contents /\ Queue' = Contents' /\ Last = item /\ Last' = item'
        /\ Count = (IF pc \in {"written", "growing"} THEN accepted - 1 ELSE accepted)
        /\ Count' = (IF pc' \in {"written", "growing"} THEN accepted' - 1 ELSE accepted')
    BY <1>1, <1>3 DEF Queue, Last, Count
  <2>3. /\ Capacity \in Nat \ {0} /\ _size \in 0..Capacity /\ accepted \in Nat /\ _head \in Slots
        /\ Wrap(_head + 0) = _head
    BY <2>1, ConstantsAssumption DEF Consistent, Slots, Wrap
  \* Steps that leave the contents alone.
  <2>4. ASSUME Length' = Length, UNCHANGED <<_buffer, _head>> PROVE Contents' = Contents
    BY <2>1, <2>4, SameContents
  <2>5. CASE UNCHANGED <<_buffer, _size, _head, accepted, item>>
             /\ (pc' \in {"popped", "shrinking"} <=> pc \in {"popped", "shrinking"})
             /\ (pc' \in {"written", "growing"} <=> pc \in {"written", "growing"})
    <3>1. Length' = Length
      BY <2>5 DEF Length
    <3> QED
      BY <2>2, <2>4, <2>5, <3>1 DEF Stutters
  <2>6. CASE PopTake
    <3>1. /\ Length > 0 /\ Length' = Length - 1 /\ _head' = Wrap(_head + 1)
          /\ _buffer' = _buffer /\ item' = _buffer[_head] /\ accepted' = accepted
          /\ pc = "popping" /\ pc' = "popped"
      BY <2>1, <2>6 DEF PopTake, Take, Length, Consistent
    <3> QED
      BY <2>1, <2>2, <3>1, OneLess DEF FifoPop
  <2>7. CASE PopStore
    <3>1. /\ Length' = Length /\ UNCHANGED <<_buffer, _head, accepted, item>>
          /\ pc = "shrinking" /\ pc' = "idle"
      BY <2>1, <2>7 DEF PopStore, hist, Length, Consistent, InOperation
    <3> QED
      BY <2>2, <2>4, <3>1 DEF Stutters
  <2>8. CASE PushWrite
    <3>1. /\ Length = _size /\ Length' = _size /\ _size < Capacity
          /\ _head' = _head /\ item' = item /\ accepted' = accepted + 1
          /\ _buffer' = [_buffer EXCEPT ![Wrap(_head + _size)] = accepted + 1]
          /\ pc = "located" /\ pc' = "written"
      BY <2>1, <2>8 DEF PushWrite, Length, Consistent
    <3>2. \A i \in 0..(_size - 1) : _buffer'[Wrap(_head + i)] = _buffer[Wrap(_head + i)]
      <4> TAKE i \in 0..(_size - 1)
      <4>1. i \in 0..(Capacity - 1) /\ _size \in 0..(Capacity - 1) /\ i # _size /\ i \in 0..Capacity
        BY <2>3, <3>1
      <4>2. Wrap(_head + i) # Wrap(_head + _size) /\ Wrap(_head + i) \in Slots
        BY <2>3, <4>1, WrapTells, WrapIs
      <4> QED
        BY <2>1, <3>1, <4>2 DEF Consistent
    <3>3. Contents' = Contents
      BY <2>1, <3>1, <3>2, SameContents
    <3> QED
      BY <2>2, <2>3, <3>1, <3>3 DEF Stutters
  <2>9. CASE PushStore
    <3>1. /\ Length = _size /\ Length' = Length + 1 /\ Length < Capacity
          /\ UNCHANGED <<_buffer, _head, accepted, item>>
          /\ pc = "growing" /\ pc' = "enabling" /\ _buffer'[Wrap(_head + Length)] = accepted
      BY <2>1, <2>9 DEF PushStore, hist, Length, Consistent, InOperation
    <3>2. Contents' = Append(Contents, accepted) /\ Len(Contents) < Capacity
      BY <2>1, <3>1, OneMore
    <3>3. (accepted - 1) + 1 = accepted
      BY <2>3
    <3> QED
      BY <2>2, <3>1, <3>2, <3>3 DEF FifoPush
  <2>10. CASE Receive
    <3>1. /\ pc' = pc /\ pc \in {"idle", "enabling"}
          /\ Length = _size /\ Length' = Length + 1 /\ Length < Capacity
          /\ UNCHANGED <<_head, item>> /\ accepted' = accepted + 1
          /\ _buffer' = [_buffer EXCEPT ![Wrap(_head + _size)] = accepted + 1]
      BY <1>3, <2>1, <2>10 DEF Receive, MayInterrupt, InOperation, Length, Consistent
    <3>2. /\ \A i \in 0..(Length - 1) : _buffer'[Wrap(_head + i)] = _buffer[Wrap(_head + i)]
          /\ _buffer'[Wrap(_head + Length)] = accepted + 1
      <4>1. _size \in 0..(Capacity - 1) /\ Wrap(_head + _size) \in Slots
        BY <2>3, <3>1, WrapIs
      <4>2. ASSUME NEW i \in 0..(_size - 1)
            PROVE  Wrap(_head + i) # Wrap(_head + _size) /\ Wrap(_head + i) \in Slots
        <5>1. i \in 0..(Capacity - 1) /\ i # _size /\ i \in 0..Capacity
          BY <2>3, <4>1
        <5> QED
          BY <2>3, <4>1, <5>1, WrapTells, WrapIs
      <4> QED
        BY <2>1, <3>1, <4>1, <4>2 DEF Consistent
    <3>3. Contents' = Append(Contents, accepted + 1) /\ Len(Contents) < Capacity
      BY <2>1, <3>1, <3>2, OneMore
    <3> QED
      BY <2>2, <3>1, <3>3 DEF FifoPush
  <2>11. CASE Transmit
    <3>1. /\ pc' = pc /\ pc \in {"idle", "enabling"}
          /\ Length > 0 /\ Length' = Length - 1 /\ _head' = Wrap(_head + 1)
          /\ _buffer' = _buffer /\ item' = _buffer[_head] /\ accepted' = accepted
      BY <1>3, <2>1, <2>11 DEF Transmit, Take, MayInterrupt, InOperation, Length, Consistent
    <3> QED
      BY <2>1, <2>2, <3>1, OneLess DEF FifoPop
  <2>12. PopTest \/ PopLoad \/ PushTest \/ PushLocate \/ PushLoad \/ EnableTX
         \/ NothingToTransmit \/ UNCHANGED vars
            => UNCHANGED <<_buffer, _size, _head, accepted, item>>
               /\ (pc' \in {"popped", "shrinking"} <=> pc \in {"popped", "shrinking"})
               /\ (pc' \in {"written", "growing"} <=> pc \in {"written", "growing"})
    BY DEF PopTest, PopLoad, PushTest, PushLocate, PushLoad, EnableTX, NothingToTransmit, vars, hist
  <2> QED
    BY <2>5, <2>6, <2>7, <2>8, <2>9, <2>10, <2>11, <2>12 DEF Next, Main, Interrupt
<1> QED
  BY <1>2, <1>3

\* With the interrupt masked around the operations of main (cdcacm.c), the ring
\* buffer is a FIFO that is never fuller than its capacity; an operation takes
\* effect in one of its steps.
THEOREM MaskedRingIsFifo == Spec => ImplementsFifo
<1>1. Init => Fifo!Init
  <2> SUFFICES ASSUME Init PROVE Fifo!Init
    OBVIOUS
  <2>1. Length = 0
    BY DEF Init, Length
  <2>2. Contents = <<>>
    BY <2>1 DEF Contents
  <2> QED
    BY <2>2 DEF Init, Fifo!Init
<1>2. MaskedInv /\ MaskedInv' /\ [Next]_vars => [Fifo!Next]_<<Queue, Count, Last>>
  BY StepIsFifo DEF FifoPush, FifoPop, Stutters, Queue, Count, Last, Fifo!Next, Fifo!Push, Fifo!Pop
<1> QED
  BY <1>1, <1>2, MaskedInit, MaskedNext, PTL DEF Spec, ImplementsFifo, Fifo!Spec, Queue, Count, Last

-----------------------------------------------------------------------------
(* The damage that interrupts do to a queue that is not masked *)

\* How far a slot is behind the head h.
Index(h, q) == IF q >= h THEN q - h ELSE q - h + Capacity

\* The byte of a slot is newer than all that come out before it.
Good(h, buf, rec, q) ==
    /\ buf[q] > 0
    /\ \A p \in Slots : Index(h, p) < Index(h, q) => buf[p] < buf[q]
    /\ \A r \in rec : r < buf[q]

\* Of the first n slots those that give a stale byte, and of the first top
\* bytes those that are neither in the first n slots nor received.
Bad(h, buf, rec, n) == {q \in Slots : Index(h, q) < n /\ ~Good(h, buf, rec, q)}

Lost(h, buf, rec, n, top) ==
    {b \in 1..top : /\ b \notin rec
                    /\ \A q \in Slots : Index(h, q) < n /\ Good(h, buf, rec, q) => buf[q] # b}

\* The slots from the n-th to the one before the m-th.
Between(h, n, m) == {q \in Slots : n <= Index(h, q) /\ Index(h, q) < m}

LEMMA CapacityIs == Capacity \in Nat \ {0} /\ MaxBytes \in Nat
  BY ConstantsAssumption

\* Slots and their distances from the head are each other's.
LEMMA IndexIs ==
    ASSUME NEW h \in Slots, NEW q \in Slots
    PROVE  /\ Index(h, q) \in Slots /\ Index(h, q) \in Int /\ Wrap(h + Index(h, q)) = q
           /\ Index(h, h) = 0 /\ (q # h => Index(h, q) > 0)
           /\ Index(h, q) >= 0 /\ Index(h, q) < Capacity
           /\ \A p \in Slots : Index(h, p) = Index(h, q) => p = q
  BY CapacityIs DEF Slots, Index, Wrap

LEMMA PlaceIs ==
    ASSUME NEW h \in Slots, NEW i \in Slots
    PROVE  Wrap(h + i) \in Slots /\ Index(h, Wrap(h + i)) = i
  BY CapacityIs DEF Slots, Index, Wrap

LEMMA IndexLater ==
    ASSUME NEW h \in Slots, NEW q \in Slots
    PROVE  /\ Wrap(h + 1) \in Slots
           /\ q # h => Index(Wrap(h + 1), q) = Index(h, q) - 1
           /\ q = h => Index(Wrap(h + 1), q) = Capacity - 1
  BY CapacityIs DEF Slots, Index, Wrap

\* The sets of damage are finite.
LEMMA Finite ==
    ASSUME NEW h, NEW buf, NEW rec, NEW n, NEW top \in Nat
    PROVE  /\ IsFiniteSet(Lost(h, buf, rec, n, top)) /\ Cardinality(Lost(h, buf, rec, n, top)) \in Nat
           /\ IsFiniteSet(Bad(h, buf, rec, n)) /\ Cardinality(Bad(h, buf, rec, n)) \in Nat
<1>1. IsFiniteSet(1..top) /\ IsFiniteSet(0..(Capacity - 1))
  BY FS_Interval, CapacityIs
<1>2. Lost(h, buf, rec, n, top) \in SUBSET (1..top) /\ Bad(h, buf, rec, n) \in SUBSET (0..(Capacity - 1))
  BY DEF Lost, Bad, Slots
<1>3. IsFiniteSet(Lost(h, buf, rec, n, top)) /\ IsFiniteSet(Bad(h, buf, rec, n))
  BY <1>1, <1>2, FS_Subset
<1> QED
  BY <1>3, FS_CardinalityType

\* A set that is part of another, or of another and one more, counts as much.
LEMMA Part ==
    ASSUME NEW S, IsFiniteSet(S), NEW T, NEW x
    PROVE  /\ Cardinality(S) \in Nat
           /\ T \subseteq S => IsFiniteSet(T) /\ Cardinality(T) <= Cardinality(S)
           /\ T \subseteq S \cup {x} => IsFiniteSet(T) /\ Cardinality(T) <= Cardinality(S) + 1
           /\ x \in S /\ T \subseteq S \ {x} => IsFiniteSet(T) /\ Cardinality(T) + 1 <= Cardinality(S)
<1>1. Cardinality(S) \in Nat
  BY FS_CardinalityType
<1>2. ASSUME T \subseteq S
      PROVE  IsFiniteSet(T) /\ Cardinality(T) <= Cardinality(S)
  BY <1>1, <1>2, FS_Subset
<1>3. ASSUME T \subseteq S \cup {x}
      PROVE  IsFiniteSet(T) /\ Cardinality(T) <= Cardinality(S) + 1
  <2>1. IsFiniteSet(S \cup {x}) /\ Cardinality(S \cup {x}) \in {Cardinality(S), Cardinality(S) + 1}
    BY <1>1, FS_AddElement
  <2>2. IsFiniteSet(T) /\ Cardinality(T) <= Cardinality(S \cup {x})
    BY <1>3, <2>1, FS_Subset
  <2>3. Cardinality(T) \in Nat
    BY <2>2, FS_CardinalityType
  <2> QED
    BY <1>1, <2>1, <2>2, <2>3
<1>4. ASSUME x \in S, T \subseteq S \ {x}
      PROVE  IsFiniteSet(T) /\ Cardinality(T) + 1 <= Cardinality(S)
  <2>1. IsFiniteSet(S \ {x}) /\ Cardinality(S \ {x}) = Cardinality(S) - 1
    BY <1>1, <1>4, FS_RemoveElement
  <2>2. IsFiniteSet(T) /\ Cardinality(T) <= Cardinality(S \ {x})
    BY <1>4, <2>1, FS_Subset
  <2>3. Cardinality(T) \in Nat
    BY <2>2, FS_CardinalityType
  <2> QED
    BY <1>1, <2>1, <2>2, <2>3
<1> QED
  BY <1>1, <1>2, <1>3, <1>4

\* Two sets together count no more than one and the other.
LEMMA Both ==
    ASSUME NEW S, IsFiniteSet(S), NEW T, IsFiniteSet(T), NEW U, U \subseteq S \cup T
    PROVE  Cardinality(U) <= Cardinality(S) + Cardinality(T)
<1>1. /\ IsFiniteSet(S \cup T) /\ IsFiniteSet(S \cap T)
      /\ Cardinality(S \cup T) = Cardinality(S) + Cardinality(T) - Cardinality(S \cap T)
  BY FS_Union, FS_Intersection
<1>2. IsFiniteSet(U) /\ Cardinality(U) <= Cardinality(S \cup T)
  BY <1>1, FS_Subset
<1>3. /\ Cardinality(S) \in Nat /\ Cardinality(T) \in Nat /\ Cardinality(U) \in Nat
      /\ Cardinality(S \cup T) \in Nat /\ Cardinality(S \cap T) \in Nat
  BY <1>1, <1>2, FS_CardinalityType
<1> QED
  BY <1>1, <1>2, <1>3

\* The newest byte of a set that has one, and 0 if the set is empty.
LEMMA NewestIs ==
    ASSUME NEW rec \in SUBSET Nat, \E b \in rec \cup {0} : \A c \in rec : b >= c
    PROVE  /\ Newest(rec) \in rec \cup {0}
           /\ Newest(rec) \in Nat
           /\ \A c \in rec : Newest(rec) >= c
<1>1. /\ Newest(rec) \in rec \cup {0}
      /\ \A c \in rec : Newest(rec) >= c
  BY DEF Newest
<1>2. rec \cup {0} \subseteq Nat
  OBVIOUS
<1>3. Newest(rec) \in Nat
  BY <1>1, <1>2
<1> QED
  BY <1>1, <1>3

\* A byte that is written behind the first n slots does not touch them.
LEMMA WriteKeeps ==
    ASSUME NEW h \in Slots, NEW buf, NEW rec, NEW n \in Int, NEW top \in Nat,
           NEW w \in Slots, n <= Index(h, w), NEW new, \A q \in Slots \ {w} : new[q] = buf[q]
    PROVE  /\ Bad(h, new, rec, n) = Bad(h, buf, rec, n)
           /\ Lost(h, new, rec, n, top) = Lost(h, buf, rec, n, top)
<1>1. \A q \in Slots : Index(h, q) < n => new[q] = buf[q]
  BY IndexIs
<1>2. \A q \in Slots : Index(h, q) \in Int
  BY IndexIs
<1>3. ASSUME NEW q \in Slots, Index(h, q) < n
      PROVE  Good(h, new, rec, q) <=> Good(h, buf, rec, q)
  <2>1. \A p \in Slots : Index(h, p) < Index(h, q) => Index(h, p) < n
    BY <1>2, <1>3
  <2> QED
    BY <1>1, <1>3, <2>1 DEF Good
<1>4. Bad(h, new, rec, n) = Bad(h, buf, rec, n)
  BY <1>3 DEF Bad
<1>5. Lost(h, new, rec, n, top) = Lost(h, buf, rec, n, top)
  BY <1>1, <1>3 DEF Lost
<1> QED
  BY <1>4, <1>5

\* With the head, the slots that were the next become the first.
LEMMA TakeMoves ==
    ASSUME NEW h \in Slots, NEW buf \in [Slots -> Nat], NEW rec \in SUBSET Nat, NEW q \in Slots, q # h,
           NEW rec2, rec2 = rec \/ rec2 = rec \cup {buf[h]},
           Good(h, buf, rec, q)
    PROVE  Good(Wrap(h + 1), buf, rec2, q)
<1>1. Index(h, h) = 0 /\ Index(h, q) > 0 /\ \A p \in Slots : Index(h, p) \in Int /\ Index(h, p) < Capacity
  BY IndexIs
<1>2. Index(h, h) < Index(h, q)
  BY <1>1
<1>3. buf[h] < buf[q]
  BY <1>2 DEF Good
<1>4. buf[q] > 0 /\ \A r \in rec2 : r < buf[q]
  BY <1>3 DEF Good
<1>5. ASSUME NEW p \in Slots, Index(Wrap(h + 1), p) < Index(Wrap(h + 1), q) PROVE buf[p] < buf[q]
  <2>1. Index(Wrap(h + 1), q) = Index(h, q) - 1
    BY IndexLater
  <2>2. CASE p = h
    BY <1>3, <2>2
  <2>3. CASE p # h
    <3>1. Index(Wrap(h + 1), p) = Index(h, p) - 1
      BY <2>3, IndexLater
    <3>2. Index(h, p) < Index(h, q)
      BY <1>1, <1>5, <2>1, <3>1
    <3> QED
      BY <3>2 DEF Good
  <2> QED
    BY <2>2, <2>3
<1> QED
  BY <1>4, <1>5 DEF Good

\* Which of the first slots are the first after the head has moved.
LEMMA TakeShifts ==
    ASSUME NEW h \in Slots, NEW n \in 1..Capacity, NEW q \in Slots
    PROVE  (Index(Wrap(h + 1), q) < n - 1) <=> (Index(h, q) < n /\ q # h)
<1>1. n - 1 < Capacity /\ n - 1 <= Capacity - 1 /\ Index(h, q) \in Int /\ Capacity \in Nat
  BY IndexIs, CapacityIs
<1>2. CASE q = h
  BY <1>1, <1>2, IndexLater
<1>3. CASE q # h
  <2>1. Index(Wrap(h + 1), q) = Index(h, q) - 1
    BY <1>3, IndexLater
  <2> QED
    BY <1>1, <1>3, <2>1
<1> QED
  BY <1>2, <1>3

\* A byte that is taken from the head is in its place or counts as stale.
LEMMA TakeKeeps ==
    ASSUME NEW h \in Slots, NEW buf \in [Slots -> Nat], NEW rec \in SUBSET Nat, NEW old \in Nat,
           NEW top \in Nat, old \in rec \cup {0}, \A c \in rec : old >= c,
           NEW n \in 1..Capacity
    PROVE  LET h2 == Wrap(h + 1)
               rec2 == IF buf[h] > old THEN rec \cup {buf[h]} ELSE rec
               s2 == IF buf[h] > old THEN 0 ELSE 1
           IN  /\ Lost(h2, buf, rec2, n - 1, top) \subseteq Lost(h, buf, rec, n, top)
               /\ s2 + Cardinality(Bad(h2, buf, rec2, n - 1)) <= Cardinality(Bad(h, buf, rec, n))
<1> DEFINE h2 == Wrap(h + 1)
           rec2 == IF buf[h] > old THEN rec \cup {buf[h]} ELSE rec
           s2 == IF buf[h] > old THEN 0 ELSE 1
<1>1. rec2 = rec \/ rec2 = rec \cup {buf[h]}
  OBVIOUS
<1>2. /\ buf[h] > old => rec2 = rec \cup {buf[h]} /\ s2 = 0
      /\ ~(buf[h] > old) => rec2 = rec /\ s2 = 1
  OBVIOUS
<1>3. buf[h] \in Nat
  OBVIOUS
<1>4. \A q \in Slots : (Index(h2, q) < n - 1) <=> (Index(h, q) < n /\ q # h)
  BY TakeShifts
<1> HIDE DEF rec2
<1>5. \A q \in Slots : q # h /\ Good(h, buf, rec, q) => Good(h2, buf, rec2, q)
  BY <1>1, TakeMoves
<1>6. Good(h, buf, rec, h) => buf[h] > old
  <2>1. ASSUME Good(h, buf, rec, h) PROVE buf[h] > 0 /\ \A r \in rec : r < buf[h]
    BY <2>1 DEF Good
  <2>2. ASSUME Good(h, buf, rec, h) PROVE buf[h] > old
    <3>1. CASE old = 0
      BY <2>1, <2>2, <3>1
    <3>2. CASE old \in rec
      BY <2>1, <2>2, <3>2, <1>3
    <3> QED
      BY <3>1, <3>2
  <2> QED
    BY <2>2
<1> HIDE DEF h2, s2
<1>7. Lost(h2, buf, rec2, n - 1, top) \subseteq Lost(h, buf, rec, n, top)
  <2> SUFFICES ASSUME NEW c \in Lost(h2, buf, rec2, n - 1, top) PROVE c \in Lost(h, buf, rec, n, top)
    OBVIOUS
  <2>1. /\ c \in 1..top /\ c \notin rec2 /\ c \notin rec
        /\ \A q \in Slots : Index(h2, q) < n - 1 /\ Good(h2, buf, rec2, q) => buf[q] # c
    BY <1>1 DEF Lost
  <2>2. ASSUME NEW q \in Slots, Index(h, q) < n, Good(h, buf, rec, q) PROVE buf[q] # c
    <3>1. CASE q = h
      BY <1>2, <1>6, <2>1, <2>2, <3>1
    <3>2. CASE q # h
      BY <1>4, <1>5, <2>1, <2>2, <3>2
    <3> QED
      BY <3>1, <3>2
  <2> QED
    BY <2>1, <2>2 DEF Lost
<1>8. s2 + Cardinality(Bad(h2, buf, rec2, n - 1)) <= Cardinality(Bad(h, buf, rec, n))
  <2>1. /\ IsFiniteSet(Bad(h, buf, rec, n)) /\ Cardinality(Bad(h, buf, rec, n)) \in Nat
        /\ Cardinality(Bad(h2, buf, rec2, n - 1)) \in Nat
    BY Finite
  <2>2. Bad(h2, buf, rec2, n - 1) \subseteq Bad(h, buf, rec, n) \ {h}
    BY <1>4, <1>5 DEF Bad
  <2>3. CASE buf[h] > old
    <3>1. Bad(h2, buf, rec2, n - 1) \subseteq Bad(h, buf, rec, n)
      BY <2>2
    <3>2. Cardinality(Bad(h2, buf, rec2, n - 1)) <= Cardinality(Bad(h, buf, rec, n))
      BY <2>1, <3>1, Part
    <3> QED
      BY <1>2, <2>1, <2>3, <3>2
  <2>4. CASE ~(buf[h] > old)
    <3>1. Index(h, h) < n
      BY IndexIs
    <3>2. h \in Bad(h, buf, rec, n)
      BY <1>6, <2>4, <3>1 DEF Bad
    <3>3. Cardinality(Bad(h2, buf, rec2, n - 1)) + 1 <= Cardinality(Bad(h, buf, rec, n))
      BY <2>1, <2>2, <3>2, Part
    <3> QED
      BY <1>2, <2>1, <2>4, <3>3
  <2> QED
    BY <2>3, <2>4
<1> QED
  BY <1>7, <1>8 DEF h2, rec2, s2

\* As many slots lie between two of them as their distance says.
LEMMA BetweenIs ==
    ASSUME NEW h \in Slots, NEW n \in Nat, NEW m \in Nat, n <= m
    PROVE  /\ IsFiniteSet(Between(h, n, m)) /\ Cardinality(Between(h, n, m)) \in Nat
           /\ Cardinality(Between(h, n, m)) <= m - n
<1> DEFINE S == Between(h, n, m)
           f == [q \in S |-> Index(h, q)]
<1>1. \A q \in S : Index(h, q) \in n..(m - 1) /\ q \in Slots
  BY IndexIs DEF Between
<1>2. IsFiniteSet(n..(m - 1)) /\ Cardinality(n..(m - 1)) = m - n
  <2>1. CASE n = m
    <3>1. n..(m - 1) = {}
      BY <2>1
    <3> QED
      BY <2>1, <3>1, FS_EmptySet
  <2>2. CASE n < m
    <3>1. n \in Int /\ m - 1 \in Int /\ ~(n > m - 1) /\ (m - 1) - n + 1 = m - n
      BY <2>2
    <3> QED
      BY <3>1, FS_Interval
  <2> QED
    BY <2>1, <2>2
<1>3. f \in Injection(S, n..(m - 1))
  <2>1. f \in [S -> n..(m - 1)]
    BY <1>1
  <2>2. \A p, q \in S : f[p] = f[q] => p = q
    BY <1>1, IndexIs
  <2> QED
    BY <2>1, <2>2 DEF Injection, IsInjective
<1>5. IsFiniteSet(S) /\ Cardinality(S) <= Cardinality(n..(m - 1))
  BY <1>2, <1>3, FS_Injection
<1> QED
  BY <1>2, <1>5, FS_CardinalityType

\* A queue that counts more of the slots has lost no more, and gives a stale
\* byte for each of the slots added at most.
LEMMA CountMore ==
    ASSUME NEW h \in Slots, NEW buf, NEW rec, NEW n \in Nat, NEW m \in Nat, n <= m, NEW top \in Nat
    PROVE  /\ Lost(h, buf, rec, m, top) \subseteq Lost(h, buf, rec, n, top)
           /\ Cardinality(Bad(h, buf, rec, m)) <= Cardinality(Bad(h, buf, rec, n)) + (m - n)
<1>1. \A q \in Slots : Index(h, q) \in Int
  BY IndexIs
<1>2. Lost(h, buf, rec, m, top) \subseteq Lost(h, buf, rec, n, top)
  BY <1>1 DEF Lost
<1>3. Bad(h, buf, rec, m) \subseteq Bad(h, buf, rec, n) \cup Between(h, n, m)
  BY <1>1 DEF Bad, Between
<1>4. Cardinality(Bad(h, buf, rec, m)) <= Cardinality(Bad(h, buf, rec, n)) + Cardinality(Between(h, n, m))
  BY <1>3, Finite, BetweenIs, Both
<1>5. /\ Cardinality(Bad(h, buf, rec, m)) \in Nat /\ Cardinality(Bad(h, buf, rec, n)) \in Nat
      /\ Cardinality(Between(h, n, m)) \in Nat /\ Cardinality(Between(h, n, m)) <= m - n
  BY Finite, BetweenIs
<1> QED
  BY <1>2, <1>4, <1>5

\* A slot among them that holds the newest byte is none of the stale ones.
LEMMA CountNewest ==
    ASSUME NEW h \in Slots, NEW buf, NEW rec, NEW n \in Nat, NEW m \in Nat, n <= m, NEW top \in Nat,
           NEW w \in Slots, n <= Index(h, w), Index(h, w) < m, Good(h, buf, rec, w), buf[w] = top + 1
    PROVE  /\ Lost(h, buf, rec, m, top + 1) \subseteq Lost(h, buf, rec, n, top)
           /\ Cardinality(Bad(h, buf, rec, m)) + 1 <= Cardinality(Bad(h, buf, rec, n)) + (m - n)
<1>1. \A q \in Slots : Index(h, q) \in Int
  BY IndexIs
<1>2. Lost(h, buf, rec, m, top + 1) \subseteq Lost(h, buf, rec, n, top)
  <2> SUFFICES ASSUME NEW b \in Lost(h, buf, rec, m, top + 1) PROVE b \in Lost(h, buf, rec, n, top)
    OBVIOUS
  <2>1. /\ b \in 1..(top + 1) /\ b \notin rec
        /\ \A q \in Slots : Index(h, q) < m /\ Good(h, buf, rec, q) => buf[q] # b
    BY DEF Lost
  <2>2. b # top + 1
    BY <2>1
  <2>3. b \in 1..top
    BY <2>1, <2>2
  <2>4. \A q \in Slots : Index(h, q) < n => Index(h, q) < m
    BY <1>1
  <2> QED
    BY <2>1, <2>3, <2>4 DEF Lost
<1>3. Bad(h, buf, rec, m) \subseteq Bad(h, buf, rec, n) \cup (Between(h, n, m) \ {w})
  BY <1>1 DEF Bad, Between
<1>4. w \in Between(h, n, m)
  BY DEF Between
<1>5. /\ IsFiniteSet(Between(h, n, m) \ {w})
      /\ Cardinality(Between(h, n, m) \ {w}) + 1 <= Cardinality(Between(h, n, m))
  BY <1>4, BetweenIs, Part
<1>6. Cardinality(Bad(h, buf, rec, m)) <= Cardinality(Bad(h, buf, rec, n)) + Cardinality(Between(h, n, m) \ {w})
  BY <1>3, <1>5, Finite, Both
<1>7. /\ Cardinality(Bad(h, buf, rec, m)) \in Nat /\ Cardinality(Bad(h, buf, rec, n)) \in Nat
      /\ Cardinality(Between(h, n, m)) \in Nat /\ Cardinality(Between(h, n, m)) <= m - n
      /\ Cardinality(Between(h, n, m) \ {w}) \in Nat
  BY <1>5, Finite, BetweenIs, FS_CardinalityType
<1> QED
  BY <1>2, <1>5, <1>6, <1>7

\* One more byte is one more that can be lost.
LEMMA OneMoreLost ==
    ASSUME NEW h, NEW buf, NEW rec, NEW n, NEW top \in Nat
    PROVE  Cardinality(Lost(h, buf, rec, n, top + 1)) <= Cardinality(Lost(h, buf, rec, n, top)) + 1
<1>1. Lost(h, buf, rec, n, top + 1) \subseteq Lost(h, buf, rec, n, top) \cup {top + 1}
  BY DEF Lost
<1> QED
  BY <1>1, Finite, Part

-----------------------------------------------------------------------------
(* The room that the interrupts so far leave for damage *)

\* A queue of the first n slots has done harm for some interrupts less than
\* there were.
Fit(h, buf, rec, s, r, n, top, some) ==
    /\ Cardinality(Lost(h, buf, rec, n, top)) + some <= r
    /\ s + Cardinality(Bad(h, buf, rec, n)) + some <= r

LEMMA FitSlack ==
    ASSUME NEW h, NEW buf, NEW rec, NEW s \in Nat, NEW r \in Nat, NEW n, NEW top \in Nat,
           NEW some \in Int, Fit(h, buf, rec, s, r, n, top, some),
           NEW r2 \in Nat, NEW less \in Int, less <= some + (r2 - r)
    PROVE  Fit(h, buf, rec, s, r2, n, top, less)
  BY Finite DEF Fit

LEMMA FitLost ==
    ASSUME NEW h, NEW buf, NEW rec, NEW s \in Nat, NEW r \in Nat, NEW n, NEW top \in Nat,
           NEW some \in Int, Fit(h, buf, rec, s, r, n, top, some)
    PROVE  Fit(h, buf, rec, s, r + 1, n, top + 1, some)
  BY Finite, OneMoreLost DEF Fit

LEMMA FitWrite ==
    ASSUME NEW h \in Slots, NEW buf, NEW rec, NEW s, NEW r, NEW n \in Int,
           NEW top \in Nat, NEW some, Fit(h, buf, rec, s, r, n, top, some),
           NEW w \in Slots, n <= Index(h, w), NEW new, \A q \in Slots \ {w} : new[q] = buf[q]
    PROVE  Fit(h, new, rec, s, r, n, top, some)
<1>1. Bad(h, new, rec, n) = Bad(h, buf, rec, n)
  BY WriteKeeps
<1>2. Lost(h, new, rec, n, top) = Lost(h, buf, rec, n, top)
  BY WriteKeeps
<1> QED
  BY <1>1, <1>2 DEF Fit

LEMMA FitMore ==
    ASSUME NEW h \in Slots, NEW buf, NEW rec, NEW s \in Nat, NEW r \in Nat, NEW n \in Nat, NEW m \in Nat,
           n < m, NEW top \in Nat, NEW some \in Int, Fit(h, buf, rec, s, r, n, top, some)
    PROVE  Fit(h, buf, rec, s, r, m, top + 1, some - (m - n))
<1>1. /\ Lost(h, buf, rec, m, top) \subseteq Lost(h, buf, rec, n, top)
      /\ Cardinality(Bad(h, buf, rec, m)) <= Cardinality(Bad(h, buf, rec, n)) + (m - n)
  BY CountMore
<1>2. Cardinality(Lost(h, buf, rec, m, top)) <= Cardinality(Lost(h, buf, rec, n, top))
  BY <1>1, Finite, FS_Subset
<1>3. Cardinality(Lost(h, buf, rec, m, top + 1)) <= Cardinality(Lost(h, buf, rec, m, top)) + 1
  BY OneMoreLost
<1>4. /\ Cardinality(Lost(h, buf, rec, m, top + 1)) \in Nat
      /\ Cardinality(Lost(h, buf, rec, m, top)) \in Nat
      /\ Cardinality(Lost(h, buf, rec, n, top)) \in Nat
      /\ Cardinality(Bad(h, buf, rec, m)) \in Nat
      /\ Cardinality(Bad(h, buf, rec, n)) \in Nat
  BY Finite
<1> QED
  BY <1>1, <1>2, <1>3, <1>4 DEF Fit

LEMMA FitNewest ==
    ASSUME NEW h \in Slots, NEW buf, NEW rec, NEW s \in Nat, NEW r \in Nat, NEW n \in Nat, NEW m \in Nat,
           n < m, NEW top \in Nat, NEW some \in Int, Fit(h, buf, rec, s, r, n, top, some),
           NEW w \in Slots, n <= Index(h, w), Index(h, w) < m, Good(h, buf, rec, w), buf[w] = top + 1
    PROVE  Fit(h, buf, rec, s, r, m, top + 1, some - (m - n) + 1)
<1>1. /\ Lost(h, buf, rec, m, top + 1) \subseteq Lost(h, buf, rec, n, top)
      /\ Cardinality(Bad(h, buf, rec, m)) + 1 <= Cardinality(Bad(h, buf, rec, n)) + (m - n)
  BY CountNewest
<1>2. Cardinality(Lost(h, buf, rec, m, top + 1)) <= Cardinality(Lost(h, buf, rec, n, top))
  BY <1>1, Finite, FS_Subset
<1>3. /\ Cardinality(Lost(h, buf, rec, m, top + 1)) \in Nat
      /\ Cardinality(Lost(h, buf, rec, n, top)) \in Nat
      /\ Cardinality(Bad(h, buf, rec, m)) \in Nat
      /\ Cardinality(Bad(h, buf, rec, n)) \in Nat
  BY Finite
<1> QED
  BY <1>1, <1>2, <1>3 DEF Fit

-----------------------------------------------------------------------------
(* The invariant *)

Within(n, top, some) == Fit(_head, _buffer, received, stale, raced, n, top, some)

Bytes == /\ _head \in Slots /\ _size \in 0..Capacity
         /\ accepted \in Nat /\ stale \in Nat /\ raced \in Nat
         /\ _buffer \in [Slots -> 0..accepted]
         /\ received \subseteq 1..accepted
         /\ \E b \in received \cup {0} : \A c \in received : b >= c

\* Main has two views of the size while it pops: each gives a queue.
Popping ==
    /\ pc \in {"popping", "popped", "shrinking"} =>
          role = "rx" /\ size0 \in 1.._size
    /\ pc = "popping" => Within(size0, accepted, 0) /\ Within(_size, accepted, 0)
    /\ pc = "popped" => Within(size0 - 1, accepted, 0) /\ Within(_size - 1, accepted, 0)
    /\ pc = "shrinking" => Within(size0 - 1, accepted, 0)

\* While it pushes, each interrupt leaves the size it works with one too large,
\* and the byte may be written or counted in behind the end.
Pushing ==
    /\ pc \in {"pushing", "located", "written", "growing"} =>
          role = "tx" /\ size0 \in _size..(Capacity - 1)
    /\ pc \in {"located", "written", "growing"} => tail \in Slots /\ Index(_head, tail) >= _size
    /\ pc \in {"located", "written"} => Index(_head, tail) <= size0
    /\ pc \in {"pushing", "located"} => Within(_size, accepted, size0 - _size)
    /\ pc \in {"written", "growing"} =>
          /\ accepted > 0 /\ _buffer[tail] = accepted
          /\ \A q \in Slots \ {tail} : _buffer[q] < accepted
          /\ \A r \in received : r < accepted
          /\ Within(_size, accepted - 1, size0 - _size)
    /\ pc = "growing" /\ Index(_head, tail) > size0 =>
          Within(_size, accepted - 1, size0 - _size + 1)

Steps == {"idle", "popping", "popped", "shrinking", "pushing", "located", "written",
          "growing", "enabling"}

DamageInv ==
    /\ pc \in Steps
    /\ Bytes /\ Popping /\ Pushing
    /\ pc \in {"idle", "enabling"} => Within(_size, accepted, 0)

LEMMA BytesAre ==
    ASSUME Bytes
    PROVE  /\ _head \in Slots /\ _size \in Nat /\ _size <= Capacity /\ Capacity \in Nat \ {0}
           /\ accepted \in Nat /\ stale \in Nat /\ raced \in Nat
           /\ _buffer \in [Slots -> Nat] /\ \A q \in Slots : _buffer[q] <= accepted
           /\ received \in SUBSET Nat /\ \A r \in received : r <= accepted /\ r > 0
  BY CapacityIs DEF Bytes

\* Taking a byte keeps the room that is left.
LEMMA FitTake ==
    ASSUME Bytes, Take(_buffer[_head]), _head' = Wrap(_head + 1), _buffer' = _buffer,
           NEW n \in 1..Capacity, NEW top \in Nat, NEW some \in Int, Within(n, top, some)
    PROVE  Fit(_head', _buffer', received', stale', raced, n - 1, top, some)
<1> DEFINE b == _buffer[_head]
           old == Newest(received)
<1>1. /\ _head \in Slots /\ stale \in Nat /\ raced \in Nat /\ b \in Nat
      /\ _buffer \in [Slots -> Nat] /\ received \in SUBSET Nat
  BY BytesAre
<1>2. old \in received \cup {0} /\ old \in Nat /\ \A c \in received : old >= c
  BY <1>1, NewestIs DEF Bytes
<1>3. /\ received' = IF b > old THEN received \cup {b} ELSE received
      /\ stale' = stale + IF b > old THEN 0 ELSE 1
  BY <1>1 DEF Take
<1> HIDE DEF old
<1>4. /\ Lost(Wrap(_head + 1), _buffer, received', n - 1, top) \subseteq Lost(_head, _buffer, received, n, top)
      /\ (IF b > old THEN 0 ELSE 1) + Cardinality(Bad(Wrap(_head + 1), _buffer, received', n - 1))
             <= Cardinality(Bad(_head, _buffer, received, n))
  BY <1>1, <1>2, <1>3, TakeKeeps
<1>5. /\ Cardinality(Lost(Wrap(_head + 1), _buffer, received', n - 1, top)) \in Nat
      /\ Cardinality(Lost(_head, _buffer, received, n, top)) \in Nat
      /\ Cardinality(Bad(Wrap(_head + 1), _buffer, received', n - 1)) \in Nat
      /\ Cardinality(Bad(_head, _buffer, received, n)) \in Nat
      /\ Cardinality(Lost(Wrap(_head + 1), _buffer, received', n - 1, top))
             <= Cardinality(Lost(_head, _buffer, received, n, top))
  BY <1>4, Finite, FS_Subset
<1>6. /\ Cardinality(Lost(Wrap(_head + 1), _buffer, received', n - 1, top)) + some <= raced
      /\ stale' + Cardinality(Bad(Wrap(_head + 1), _buffer, received', n - 1)) + some <= raced
  BY <1>1, <1>3, <1>4, <1>5 DEF Within, Fit
<1> QED
  BY <1>6 DEF Fit

LEMMA TakeBytes ==
    ASSUME Bytes, Take(_buffer[_head]), _head' = Wrap(_head + 1), _buffer' = _buffer,
           accepted' = accepted, raced' \in Nat, _size' \in 0..Capacity
    PROVE  Bytes'
<1>1. /\ _head \in Slots /\ accepted \in Nat /\ stale \in Nat
      /\ _buffer[_head] \in 0..accepted /\ received \in SUBSET Nat /\ received \subseteq 1..accepted
  BY BytesAre DEF Bytes
<1>2. Newest(received) \in Nat /\ \A c \in received : Newest(received) >= c
  BY <1>1, NewestIs DEF Bytes
<1>3. _head' \in Slots
  BY <1>1, IndexLater
<1>4. CASE _buffer[_head] > Newest(received)
  <2>1. received' = received \cup {_buffer[_head]} /\ stale' = stale
    BY <1>4 DEF Take
  <2>2. received' \subseteq 1..accepted
    <3>1. _buffer[_head] \in 1..accepted
      BY <1>1, <1>2, <1>4
    <3> QED
      BY <1>1, <2>1, <3>1
  <2>3. \A c \in received' : _buffer[_head] >= c
    BY <1>1, <1>2, <1>4, <2>1
  <2> QED
    BY <1>1, <1>3, <2>1, <2>2, <2>3 DEF Bytes
<1>5. CASE ~(_buffer[_head] > Newest(received))
  <2>1. received' = received /\ stale' = stale + 1
    BY <1>5 DEF Take
  <2> QED
    BY <1>1, <1>3, <2>1 DEF Bytes
<1> QED
  BY <1>4, <1>5

-----------------------------------------------------------------------------
(* The steps *)

LEMMA PopTestDamage ==
    ASSUME DamageInv, PopTest PROVE DamageInv'
<1>1. Bytes'
  BY DEF DamageInv, Bytes, PopTest, kind, hist
<1>2. Popping'
  BY BytesAre DEF DamageInv, Popping, Within, PopTest, kind, hist
<1>3. Pushing'
  BY DEF Pushing, PopTest
<1> QED
  BY <1>1, <1>2, <1>3 DEF DamageInv, PopTest, Steps

LEMMA PopTakeDamage ==
    ASSUME DamageInv, PopTake PROVE DamageInv'
<1>1. /\ Bytes /\ role = "rx" /\ size0 \in 1.._size /\ pc = "popping"
      /\ Within(size0, accepted, 0) /\ Within(_size, accepted, 0)
  BY DEF DamageInv, Popping, PopTake
<1>2. /\ Take(_buffer[_head]) /\ _head' = Wrap(_head + 1) /\ pc' = "popped"
      /\ UNCHANGED <<role, _buffer, _size, size0, accepted, raced>>
  BY DEF PopTake, kind
<1>3. Bytes'
  BY <1>1, <1>2, TakeBytes DEF Bytes
<1>4. size0 \in 1..Capacity /\ _size \in 1..Capacity /\ accepted \in Nat
  BY <1>1, BytesAre
<1>5. Fit(_head', _buffer', received', stale', raced, size0 - 1, accepted, 0)
  BY <1>1, <1>2, <1>4, FitTake
<1>6. Fit(_head', _buffer', received', stale', raced, _size - 1, accepted, 0)
  BY <1>1, <1>2, <1>4, FitTake
<1>7. Popping'
  BY <1>1, <1>2, <1>5, <1>6 DEF Popping, Within
<1>8. Pushing'
  BY <1>2 DEF Pushing
<1> QED
  BY <1>2, <1>3, <1>7, <1>8 DEF DamageInv, Steps

LEMMA PopLoadDamage ==
    ASSUME DamageInv, PopLoad PROVE DamageInv'
<1>1. Bytes'
  BY DEF DamageInv, Bytes, PopLoad, kind, hist
<1>2. Popping'
  BY BytesAre DEF DamageInv, Popping, Within, PopLoad, kind, hist
<1>3. Pushing'
  BY DEF Pushing, PopLoad
<1> QED
  BY <1>1, <1>2, <1>3 DEF DamageInv, PopLoad, Steps

LEMMA PopStoreDamage ==
    ASSUME DamageInv, PopStore PROVE DamageInv'
<1>1. Bytes'
  <2>1. size0 \in 1.._size /\ Bytes
    BY DEF DamageInv, Popping, PopStore
  <2>2. size0 - 1 \in 0..Capacity
    BY <2>1, BytesAre
  <2> QED
    BY <2>1, <2>2 DEF Bytes, PopStore, kind, hist
<1>2. Popping'
  BY DEF Popping, PopStore
<1>3. Pushing'
  BY DEF Pushing, PopStore
<1>4. Within(_size, accepted, 0)'
  BY DEF DamageInv, Popping, Within, PopStore, hist
<1> QED
  BY <1>1, <1>2, <1>3, <1>4 DEF DamageInv, PopStore, Steps

LEMMA PushTestDamage ==
    ASSUME DamageInv, PushTest PROVE DamageInv'
<1>1. Bytes'
  BY DEF DamageInv, Bytes, PushTest, kind, hist
<1>2. Popping'
  BY DEF Popping, PushTest
<1>3. Pushing'
  <2>1. /\ Bytes /\ Within(_size, accepted, 0) /\ role = "tx" /\ pc' = "pushing" /\ size0' = _size
        /\ _size < Capacity /\ UNCHANGED <<role, _buffer, _size, _head, hist>>
    BY DEF DamageInv, PushTest, kind
  <2>2. _size - _size = 0 /\ _size \in _size..(Capacity - 1)
    BY <2>1, BytesAre
  <2> QED
    BY <2>1, <2>2 DEF Pushing, Within, hist
<1> QED
  BY <1>1, <1>2, <1>3 DEF DamageInv, PushTest, Steps

LEMMA PushLocateDamage ==
    ASSUME DamageInv, PushLocate PROVE DamageInv'
<1>1. Bytes'
  BY DEF DamageInv, Bytes, PushLocate, kind, hist
<1>2. Popping'
  BY DEF Popping, PushLocate
<1>3. Pushing'
  <2>1. /\ Bytes /\ role = "tx" /\ size0 \in _size..(Capacity - 1)
        /\ Within(_size, accepted, size0 - _size)
    BY DEF DamageInv, Pushing, PushLocate
  <2>2. PICK s \in {size0, _size} : tail' = Wrap(_head + s) /\ size0' = s
    BY DEF PushLocate
  <2>3. pc' = "located" /\ UNCHANGED <<role, _buffer, _size, _head, accepted, raced, stale, received>>
    BY DEF PushLocate, kind, hist
  <2>4. /\ s \in Slots /\ s \in _size..(Capacity - 1) /\ s - _size \in Int /\ size0 - _size \in Int
        /\ s - _size <= size0 - _size /\ size0 - _size = (size0 - _size) + (raced - raced)
    BY <2>1, <2>2, BytesAre DEF Slots
  <2>5. tail' \in Slots /\ Index(_head, tail') = s
    BY <2>1, <2>2, <2>4, BytesAre, PlaceIs
  <2>6. Within(_size, accepted, s - _size)
    BY <2>1, <2>4, BytesAre, Finite DEF Within, Fit
  <2>7. Index(_head, tail') >= _size /\ Index(_head, tail') <= s
    BY <2>4, <2>5, <2>1, BytesAre
  <2> QED
    BY <2>1, <2>2, <2>3, <2>4, <2>5, <2>6, <2>7 DEF Pushing, Within
<1> QED
  BY <1>1, <1>2, <1>3 DEF DamageInv, PushLocate, Steps

LEMMA PushWriteDamage ==
    ASSUME DamageInv, PushWrite PROVE DamageInv'
<1>1. /\ Bytes /\ role = "tx" /\ size0 \in _size..(Capacity - 1)
      /\ tail \in Slots /\ Index(_head, tail) >= _size /\ Index(_head, tail) <= size0
      /\ Within(_size, accepted, size0 - _size)
  BY DEF DamageInv, Pushing, PushWrite
<1>2. /\ _buffer' = [_buffer EXCEPT ![tail] = accepted + 1] /\ accepted' = accepted + 1
      /\ pc' = "written" /\ UNCHANGED <<role, _size, _head, size0, tail, raced, stale, received>>
  BY DEF PushWrite, kind
<1>3. accepted \in Nat /\ accepted' \in Nat /\ accepted' - 1 = accepted /\ _size \in Int
  BY <1>1, <1>2, BytesAre
<1>4. _buffer'[tail] = accepted' /\ \A q \in Slots \ {tail} : _buffer'[q] < accepted'
  BY <1>1, <1>2, <1>3, BytesAre
<1>5. Bytes'
  <2>1. _buffer' \in [Slots -> 0..accepted']
    BY <1>1, <1>2, <1>3 DEF Bytes
  <2>2. received' \subseteq 1..accepted'
    BY <1>1, <1>2, <1>3 DEF Bytes
  <2> QED
    BY <1>1, <1>2, <1>3, <2>1, <2>2 DEF Bytes
<1>6. Popping'
  BY <1>2 DEF Popping
<1>7. \A r \in received : r < accepted'
  BY <1>1, <1>2, <1>3, BytesAre
<1>8. _size <= Index(_head, tail)
  BY <1>1, <1>3, BytesAre, IndexIs
<1>9. Fit(_head, _buffer', received, stale, raced, _size, accepted, size0 - _size)
  BY <1>1, <1>2, <1>3, <1>8, BytesAre, FitWrite DEF Within
<1>10. Pushing'
  BY <1>1, <1>2, <1>3, <1>4, <1>7, <1>9 DEF Pushing, Within
<1> QED
  BY <1>2, <1>5, <1>6, <1>10 DEF DamageInv, Steps

LEMMA PushLoadDamage ==
    ASSUME DamageInv, PushLoad PROVE DamageInv'
<1>1. /\ Bytes /\ role = "tx" /\ size0 \in _size..(Capacity - 1)
      /\ tail \in Slots /\ Index(_head, tail) >= _size /\ Index(_head, tail) <= size0
      /\ accepted > 0 /\ _buffer[tail] = accepted
      /\ \A q \in Slots \ {tail} : _buffer[q] < accepted
      /\ \A r \in received : r < accepted
      /\ Within(_size, accepted - 1, size0 - _size)
  BY DEF DamageInv, Pushing, PushLoad
<1>2. /\ size0' \in {size0, _size} /\ pc' = "growing"
      /\ UNCHANGED <<role, _buffer, _size, _head, tail, accepted, raced, stale, received>>
  BY DEF PushLoad, kind, hist
<1>3. Bytes'
  BY <1>1, <1>2 DEF Bytes
<1>4. Popping'
  BY <1>2 DEF Popping
<1>5. accepted - 1 \in Nat /\ _size \in Int /\ size0 \in Int /\ Index(_head, tail) \in Int
  BY <1>1, BytesAre, IndexIs
<1>6. PICK s \in {size0, _size} : size0' = s
  BY <1>2
<1>7. /\ s \in Int /\ s \in _size..(Capacity - 1)
      /\ s - _size \in Int /\ size0 - _size \in Int /\ s - _size <= (size0 - _size) + (raced - raced)
      /\ Index(_head, tail) > s =>
            s - _size + 1 \in Int /\ s - _size + 1 <= (size0 - _size) + (raced - raced)
  <2>1. size0 >= _size /\ size0 \in Int /\ _size \in Int /\ raced \in Int /\ Index(_head, tail) <= size0
    BY <1>1, <1>5, BytesAre
  <2> QED
    BY <1>1, <1>5, <1>6, <2>1, BytesAre
<1>8. Fit(_head, _buffer, received, stale, raced, _size, accepted - 1, size0 - _size)
  BY <1>1 DEF Within
<1>9. stale \in Nat /\ raced \in Nat
  BY <1>1, BytesAre
<1>10. Fit(_head, _buffer, received, stale, raced, _size, accepted - 1, s - _size)
  BY <1>5, <1>7, <1>8, <1>9, FitSlack
<1>11. Index(_head, tail) > s =>
           Fit(_head, _buffer, received, stale, raced, _size, accepted - 1, s - _size + 1)
  BY <1>5, <1>7, <1>8, <1>9, FitSlack
<1>12. Pushing'
  BY <1>1, <1>2, <1>6, <1>7, <1>10, <1>11 DEF Pushing, Within
<1> QED
  BY <1>2, <1>3, <1>4, <1>12 DEF DamageInv, Steps

LEMMA PushStoreDamage ==
    ASSUME DamageInv, PushStore PROVE DamageInv'
<1>1. /\ Bytes /\ role = "tx" /\ size0 \in _size..(Capacity - 1)
      /\ tail \in Slots /\ Index(_head, tail) >= _size
      /\ accepted > 0 /\ _buffer[tail] = accepted
      /\ \A q \in Slots \ {tail} : _buffer[q] < accepted
      /\ \A r \in received : r < accepted
      /\ Within(_size, accepted - 1, size0 - _size)
      /\ Index(_head, tail) > size0 => Within(_size, accepted - 1, size0 - _size + 1)
  BY DEF DamageInv, Pushing, PushStore
<1>2. /\ _size' = size0 + 1 /\ pc' = "enabling"
      /\ UNCHANGED <<role, _buffer, _head, size0, tail, accepted, raced, stale, received>>
  BY DEF PushStore, kind, hist
<1>3. /\ accepted - 1 \in Nat /\ (accepted - 1) + 1 = accepted /\ _size \in Nat /\ size0 \in Nat
      /\ Index(_head, tail) \in Int /\ _head \in Slots /\ stale \in Nat /\ raced \in Nat
      /\ size0 + 1 \in 0..Capacity /\ size0 + 1 \in Nat /\ _size < size0 + 1
      /\ size0 - _size \in Int /\ size0 - _size + 1 \in Int /\ _size <= Index(_head, tail)
  BY <1>1, BytesAre, IndexIs
<1>4. Bytes'
  BY <1>1, <1>2, <1>3 DEF Bytes
<1>5. Popping' /\ Pushing'
  BY <1>2 DEF Popping, Pushing
<1>6. ASSUME Index(_head, tail) > size0
      PROVE  Fit(_head, _buffer, received, stale, raced, size0 + 1, accepted, 0)
  <2>1. Fit(_head, _buffer, received, stale, raced, _size, accepted - 1, size0 - _size + 1)
    BY <1>1, <1>6 DEF Within
  <2>2. Fit(_head, _buffer, received, stale, raced, size0 + 1, (accepted - 1) + 1,
            (size0 - _size + 1) - ((size0 + 1) - _size))
    BY <1>3, <2>1, FitMore
  <2>3. (size0 - _size + 1) - ((size0 + 1) - _size) = 0
    BY <1>3
  <2> QED
    BY <1>3, <2>2, <2>3
<1>7. ASSUME ~(Index(_head, tail) > size0)
      PROVE  Fit(_head, _buffer, received, stale, raced, size0 + 1, accepted, 0)
  <2>1. Fit(_head, _buffer, received, stale, raced, _size, accepted - 1, size0 - _size)
    BY <1>1 DEF Within
  <2>2. Good(_head, _buffer, received, tail)
    BY <1>1, <1>3 DEF Good
  <2>3. Index(_head, tail) < size0 + 1
    BY <1>3, <1>7
  <2>4. _buffer[tail] = (accepted - 1) + 1
    BY <1>1, <1>3
  <2>5. Fit(_head, _buffer, received, stale, raced, size0 + 1, (accepted - 1) + 1,
            (size0 - _size) - ((size0 + 1) - _size) + 1)
    BY <1>1, <1>3, <2>1, <2>2, <2>3, <2>4, FitNewest
  <2>6. (size0 - _size) - ((size0 + 1) - _size) + 1 = 0
    BY <1>3
  <2> QED
    BY <1>3, <2>5, <2>6
<1>8. Within(_size, accepted, 0)'
  BY <1>2, <1>6, <1>7 DEF Within
<1> QED
  BY <1>2, <1>4, <1>5, <1>8 DEF DamageInv, Steps

LEMMA EnableTXDamage ==
    ASSUME DamageInv, EnableTX PROVE DamageInv'
<1>1. Bytes'
  BY DEF DamageInv, Bytes, EnableTX, kind, hist
<1>2. Popping' /\ Pushing'
  BY DEF Popping, Pushing, EnableTX
<1> QED
  BY <1>1, <1>2 DEF DamageInv, Within, EnableTX, Steps, hist

LEMMA RacedIs ==
    ASSUME Bytes, Raced
    PROVE  /\ raced' \in Nat
           /\ raced' = IF pc \in {"idle", "enabling"} THEN raced ELSE raced + 1
  BY BytesAre DEF Raced, InOperation

LEMMA ReceiveDamage ==
    ASSUME DamageInv, Receive PROVE DamageInv'
<1> DEFINE w == Wrap(_head + _size)
           new == [_buffer EXCEPT ![w] = accepted + 1]
<1>1. /\ Bytes /\ pc \in Steps /\ role = "rx" /\ _size < Capacity /\ Raced
      /\ _buffer' = new /\ _size' = _size + 1 /\ accepted' = accepted + 1
      /\ UNCHANGED <<role, _head, pc, size0, tail, stale, received>>
  BY DEF DamageInv, Receive, kind
<1>2. /\ _head \in Slots /\ _size \in Nat /\ _size \in Slots /\ Capacity \in Nat /\ accepted \in Nat
      /\ stale \in Nat /\ raced \in Nat /\ _buffer \in [Slots -> Nat] /\ received \in SUBSET Nat
  BY <1>1, BytesAre DEF Slots
<1>3. w \in Slots /\ Index(_head, w) = _size
  BY <1>2, PlaceIs
<1>4. raced' \in Nat /\ raced' = IF pc \in {"idle", "enabling"} THEN raced ELSE raced + 1
  BY <1>1, RacedIs
<1>5. Bytes'
  <2>1. new \in [Slots -> 0..(accepted + 1)]
    BY <1>1, <1>2, <1>3 DEF Bytes
  <2>2. received \subseteq 1..(accepted + 1)
    BY <1>1, <1>2 DEF Bytes
  <2>3. _size + 1 \in 0..Capacity
    BY <1>1, <1>2
  <2> QED
    BY <1>1, <1>2, <1>4, <2>1, <2>2, <2>3 DEF Bytes
<1>6. Good(_head, new, received, w) /\ new[w] = accepted + 1
  <2>1. new[w] = accepted + 1 /\ \A q \in Slots \ {w} : new[q] = _buffer[q]
    BY <1>2, <1>3
  <2>2. \A q \in Slots \ {w} : new[q] < accepted + 1
    BY <1>1, <1>2, <2>1, BytesAre
  <2>3. \A r \in received : r < accepted + 1
    BY <1>1, <1>2, BytesAre
  <2>4. Index(_head, w) \in Int
    BY <1>2, <1>3, IndexIs
  <2> HIDE DEF new, w
  <2> QED
    BY <1>2, <2>1, <2>2, <2>3, <2>4 DEF Good
<1>7. ASSUME NEW n \in Int, n <= _size, Within(n, accepted, 0)
      PROVE  Fit(_head, new, received, stale, raced, n, accepted, 0)
  <2>1. n <= Index(_head, w)
    BY <1>3, <1>7
  <2> QED
    BY <1>2, <1>3, <1>7, <2>1, FitWrite DEF Within
<1>8. ASSUME Within(_size, accepted, 0)
      PROVE  Fit(_head, new, received, stale, raced', _size + 1, accepted + 1, 0)
  <2>1. Fit(_head, new, received, stale, raced, _size, accepted, 0)
    <3>1. _size \in Int /\ _size <= _size
      BY <1>2
    <3> QED
      BY <1>7, <1>8, <3>1
  <2>2. /\ _size + 1 \in Nat /\ _size < _size + 1 /\ _size <= Index(_head, w) /\ 0 \in Int
        /\ Index(_head, w) < _size + 1
    BY <1>2, <1>3
  <2> HIDE DEF new, w
  <2>3. Fit(_head, new, received, stale, raced, _size + 1, accepted + 1, 0 - ((_size + 1) - _size) + 1)
    BY <1>2, <1>3, <1>6, <2>1, <2>2, FitNewest
  <2>4. 0 - ((_size + 1) - _size) + 1 = 0
    BY <1>2
  <2>5. Fit(_head, new, received, stale, raced, _size + 1, accepted + 1, 0)
    BY <2>3, <2>4
  <2>6. 0 \in Int /\ 0 <= 0 + (raced' - raced) /\ accepted + 1 \in Nat
    BY <1>2, <1>4
  <2> QED
    BY <1>2, <1>4, <2>5, <2>6, FitSlack
<1>9. ASSUME NEW n \in Int, n <= _size, Within(n, accepted, 0), raced' = raced + 1
      PROVE  Fit(_head, new, received, stale, raced', n, accepted + 1, 0)
  <2>1. Fit(_head, new, received, stale, raced, n, accepted, 0)
    BY <1>7, <1>9
  <2> HIDE DEF new, w
  <2>2. Fit(_head, new, received, stale, raced + 1, n, accepted + 1, 0)
    BY <1>2, <2>1, FitLost
  <2> QED
    BY <1>9, <2>2
<1>10. ASSUME _size > 0, Within(_size - 1, accepted, 0), raced' = raced + 1
      PROVE  Fit(_head, new, received, stale, raced', _size, accepted + 1, 0)
  <2>1. Fit(_head, new, received, stale, raced, _size - 1, accepted, 0)
    <3>1. _size - 1 \in Int /\ _size - 1 <= _size
      BY <1>2
    <3> QED
      BY <1>7, <1>10, <3>1
  <2>2. _size - 1 \in Nat /\ _size - 1 < _size /\ 0 - (_size - (_size - 1)) = -1
    BY <1>2, <1>10
  <2> HIDE DEF new, w
  <2>3. Fit(_head, new, received, stale, raced, _size, accepted + 1, 0 - (_size - (_size - 1)))
    BY <1>2, <2>1, <2>2, FitMore
  <2>4. Fit(_head, new, received, stale, raced, _size, accepted + 1, -1)
    BY <2>2, <2>3
  <2>5. 0 \in Int /\ -1 \in Int /\ 0 <= -1 + (raced' - raced) /\ accepted + 1 \in Nat
    BY <1>2, <1>10
  <2> QED
    BY <1>2, <1>4, <2>4, <2>5, FitSlack
<1> HIDE DEF new, w
<1>11. pc \in {"popping", "popped", "shrinking"} =>
          /\ size0 \in 1.._size /\ size0 \in 1..(_size + 1) /\ raced' = raced + 1
          /\ size0 \in Int /\ size0 - 1 \in Int /\ size0 <= _size /\ size0 - 1 <= _size /\ _size > 0
  BY <1>2, <1>4 DEF DamageInv, Popping
<1>12. pc = "popping" => Within(size0, accepted, 0)' /\ Within(_size, accepted, 0)'
  BY <1>1, <1>8, <1>9, <1>11 DEF DamageInv, Popping, Within
<1>13. pc = "popped" => Within(size0 - 1, accepted, 0)' /\ Within(_size - 1, accepted, 0)'
  <2>1. (_size + 1) - 1 = _size
    BY <1>2
  <2> QED
    BY <1>1, <1>9, <1>10, <1>11, <2>1 DEF DamageInv, Popping, Within
<1>14. pc = "shrinking" => Within(size0 - 1, accepted, 0)'
  BY <1>1, <1>9, <1>11 DEF DamageInv, Popping, Within
<1>15. Popping'
  BY <1>1, <1>11, <1>12, <1>13, <1>14 DEF Popping
<1>16. pc \notin {"pushing", "located", "written", "growing"}
  BY <1>1 DEF DamageInv, Pushing
<1>17. Pushing'
  BY <1>1, <1>16 DEF Pushing
<1>18. pc \in {"idle", "enabling"} => Within(_size, accepted, 0)'
  BY <1>1, <1>8 DEF DamageInv, Within
<1> QED
  BY <1>1, <1>5, <1>15, <1>17, <1>18 DEF DamageInv

LEMMA TransmitDamage ==
    ASSUME DamageInv, Transmit PROVE DamageInv'
<1>1. /\ Bytes /\ pc \in Steps /\ role = "tx" /\ _size > 0 /\ Raced
      /\ Take(_buffer[_head]) /\ _head' = Wrap(_head + 1) /\ _size' = _size - 1 /\ _buffer' = _buffer
      /\ UNCHANGED <<role, pc, size0, tail, accepted>>
  BY DEF DamageInv, Transmit, kind
<1>2. /\ raced' \in Nat /\ raced' = IF pc \in {"idle", "enabling"} THEN raced ELSE raced + 1
  BY <1>1, RacedIs
<1>3. /\ _head \in Slots /\ _size \in 1..Capacity /\ accepted \in Nat /\ raced \in Nat /\ stale \in Nat
      /\ _size \in Nat /\ _size - 1 \in 0..Capacity /\ Capacity \in Nat \ {0}
  BY <1>1, BytesAre
<1>4. Bytes'
  BY <1>1, <1>2, <1>3, TakeBytes
<1>5. stale' \in Nat
  BY <1>4 DEF Bytes
<1>6. ASSUME NEW top \in Nat, NEW some \in Int, Within(_size, top, some)
      PROVE  Fit(_head', _buffer', received', stale', raced, _size - 1, top, some)
  BY <1>1, <1>3, <1>6, FitTake
<1>7. pc \notin {"popping", "popped", "shrinking"}
  BY <1>1 DEF DamageInv, Popping
<1>8. Popping'
  BY <1>1, <1>7 DEF Popping
<1>9. pc \in {"idle", "enabling"} => Within(_size, accepted, 0)'
  <2>1. ASSUME pc \in {"idle", "enabling"} PROVE Within(_size, accepted, 0)'
    <3>1. Fit(_head', _buffer', received', stale', raced, _size - 1, accepted, 0)
      BY <1>3, <1>6, <2>1 DEF DamageInv
    <3> QED
      BY <1>1, <1>2, <2>1, <3>1 DEF Within
  <2> QED
    BY <2>1
<1>10. ASSUME NEW top \in Nat, NEW some \in Int, Within(_size, top, some), raced' = raced + 1
       PROVE  Fit(_head', _buffer', received', stale', raced', _size - 1, top, some + 1)
  <2>1. Fit(_head', _buffer', received', stale', raced, _size - 1, top, some)
    BY <1>6, <1>10
  <2>2. some + 1 \in Int /\ some + 1 <= some + (raced' - raced)
    BY <1>3, <1>10
  <2> QED
    BY <1>2, <1>3, <1>5, <2>1, <2>2, FitSlack
<1>11. ASSUME pc \in {"pushing", "located", "written", "growing"}
       PROVE  /\ raced' = raced + 1 /\ size0 \in _size..(Capacity - 1) /\ size0 \in (_size - 1)..(Capacity - 1)
              /\ size0 - _size \in Int /\ (size0 - _size) + 1 = size0 - (_size - 1)
  <2>1. size0 \in _size..(Capacity - 1)
    BY <1>11 DEF DamageInv, Pushing
  <2>2. raced' = raced + 1
    BY <1>2, <1>11
  <2> QED
    BY <1>3, <2>1, <2>2
<1>12. ASSUME pc \in {"located", "written", "growing"}
       PROVE  /\ tail \in Slots /\ tail # _head /\ Index(_head, tail) \in Int /\ Index(_head, tail) >= _size
              /\ Index(_head', tail) = Index(_head, tail) - 1 /\ Index(_head', tail) >= _size - 1
              /\ _buffer[tail] \in Nat
  <2>1. tail \in Slots /\ Index(_head, tail) >= _size
    BY <1>12 DEF DamageInv, Pushing
  <2>2. Index(_head, tail) \in Int /\ Index(_head, _head) = 0
    BY <1>3, <2>1, IndexIs
  <2>3. tail # _head
    BY <1>3, <2>1, <2>2
  <2>4. Index(_head', tail) = Index(_head, tail) - 1
    BY <1>1, <1>3, <2>1, <2>3, IndexLater
  <2> QED
    BY <1>1, <1>3, <2>1, <2>2, <2>3, <2>4, BytesAre
<1>13. ASSUME pc \in {"located", "written"} PROVE Index(_head', tail) <= size0
  <2>1. Index(_head, tail) <= size0
    BY <1>13 DEF DamageInv, Pushing
  <2> QED
    BY <1>3, <1>11, <1>12, <1>13, <2>1
<1>14. ASSUME pc \in {"pushing", "located"}
       PROVE  Fit(_head', _buffer', received', stale', raced', _size - 1, accepted, size0 - (_size - 1))
  <2>1. Within(_size, accepted, size0 - _size)
    BY <1>14 DEF DamageInv, Pushing
  <2>2. raced' = raced + 1 /\ size0 - _size \in Int /\ (size0 - _size) + 1 = size0 - (_size - 1)
    BY <1>11, <1>14
  <2>3. Fit(_head', _buffer', received', stale', raced', _size - 1, accepted, (size0 - _size) + 1)
    BY <1>3, <1>10, <2>1, <2>2
  <2> QED
    BY <2>2, <2>3
<1>15. ASSUME pc \in {"written", "growing"}
       PROVE  /\ accepted > 0 /\ _buffer[tail] = accepted
              /\ \A q \in Slots \ {tail} : _buffer[q] < accepted
              /\ \A r \in received' : r < accepted
              /\ Fit(_head', _buffer', received', stale', raced', _size - 1, accepted - 1,
                     size0 - (_size - 1))
  <2>1. /\ accepted > 0 /\ _buffer[tail] = accepted /\ accepted - 1 \in Nat
        /\ \A q \in Slots \ {tail} : _buffer[q] < accepted
        /\ \A r \in received : r < accepted
        /\ Within(_size, accepted - 1, size0 - _size)
    BY <1>3, <1>15 DEF DamageInv, Pushing
  <2>2. raced' = raced + 1 /\ size0 - _size \in Int /\ (size0 - _size) + 1 = size0 - (_size - 1)
    BY <1>11, <1>15
  <2>3. Fit(_head', _buffer', received', stale', raced', _size - 1, accepted - 1, (size0 - _size) + 1)
    BY <1>10, <2>1, <2>2
  <2>4. _buffer[_head] < accepted
    BY <1>3, <1>12, <1>15, <2>1
  <2>5. \A r \in received' : r = _buffer[_head] \/ r \in received
    BY <1>1 DEF Take
  <2>6. \A r \in received' : r < accepted
    BY <2>1, <2>4, <2>5
  <2> QED
    BY <2>1, <2>2, <2>3, <2>6
<1>16. ASSUME pc = "growing", Index(_head', tail) > size0
       PROVE  Fit(_head', _buffer', received', stale', raced', _size - 1, accepted - 1,
                  size0 - (_size - 1) + 1)
  <2>1. Index(_head, tail) > size0
    BY <1>3, <1>11, <1>12, <1>16
  <2>2. Within(_size, accepted - 1, size0 - _size + 1) /\ accepted - 1 \in Nat
    BY <1>3, <1>16, <2>1 DEF DamageInv, Pushing
  <2>3. /\ raced' = raced + 1 /\ size0 - _size + 1 \in Int
        /\ (size0 - _size + 1) + 1 = size0 - (_size - 1) + 1
    BY <1>11, <1>16
  <2>4. Fit(_head', _buffer', received', stale', raced', _size - 1, accepted - 1, (size0 - _size + 1) + 1)
    BY <1>10, <2>2, <2>3
  <2> QED
    BY <2>3, <2>4
<1>17. Pushing'
  <2>1. /\ role' = "tx" /\ pc' = pc /\ size0' = size0 /\ tail' = tail /\ accepted' = accepted
        /\ _size' = _size - 1 /\ _buffer' = _buffer
    BY <1>1
  <2> QED
    BY <2>1, <1>11, <1>12, <1>13, <1>14, <1>15, <1>16 DEF Pushing, Within
<1> QED
  BY <1>1, <1>4, <1>8, <1>9, <1>17 DEF DamageInv

LEMMA IdleDamage ==
    ASSUME DamageInv,
           UNCHANGED <<role, _buffer, _size, _head, pc, size0, tail, accepted, raced, stale, received>>
    PROVE  DamageInv'
<1>1. Bytes'
  BY DEF DamageInv, Bytes
<1>2. Popping'
  BY DEF DamageInv, Popping, Within
<1>3. Pushing'
  BY DEF DamageInv, Pushing, Within
<1> QED
  BY <1>1, <1>2, <1>3 DEF DamageInv, Within

LEMMA DamageNext ==
    ASSUME DamageInv, [Next]_vars PROVE DamageInv'
<1>1. CASE Main
  BY <1>1, PopTestDamage, PopTakeDamage, PopLoadDamage, PopStoreDamage, PushTestDamage,
     PushLocateDamage, PushWriteDamage, PushLoadDamage, PushStoreDamage, EnableTXDamage DEF Main
<1>2. CASE Receive
  BY <1>2, ReceiveDamage
<1>3. CASE Transmit
  BY <1>3, TransmitDamage
<1>4. CASE NothingToTransmit
  BY <1>4, IdleDamage DEF NothingToTransmit, kind, hist
<1>5. CASE UNCHANGED vars
  BY <1>5, IdleDamage DEF vars, kind, hist
<1> QED
  BY <1>1, <1>2, <1>3, <1>4, <1>5 DEF Next, Interrupt

LEMMA DamageInit ==
    ASSUME Init PROVE DamageInv
<1>1. /\ _head = 0 /\ _size = 0 /\ accepted = 0 /\ stale = 0 /\ raced = 0 /\ received = {}
      /\ _buffer = [i \in Slots |-> 0] /\ pc = "idle"
  BY DEF Init
<1>2. Bytes
  BY <1>1, CapacityIs DEF Bytes, Slots
<1>3. Popping /\ Pushing
  BY <1>1 DEF Popping, Pushing
<1>4. Within(_size, accepted, 0)
  <2>1. Lost(_head, _buffer, received, 0, 0) = {}
    BY DEF Lost
  <2>2. Bad(_head, _buffer, received, 0) = {}
    BY <1>2, IndexIs DEF Bad, Bytes
  <2>3. Cardinality({}) = 0
    BY FS_EmptySet
  <2> QED
    BY <1>1, <2>1, <2>2, <2>3 DEF Within, Fit
<1> QED
  BY <1>1, <1>2, <1>3, <1>4 DEF DamageInv, Steps

LEMMA DamageIs ==
    ASSUME DamageInv PROVE DamageBounded
<1>1. Bytes /\ _size \in Nat /\ accepted \in Nat /\ stale \in Nat /\ raced \in Nat
  BY BytesAre DEF DamageInv
<1>2. ASSUME NEW n, NEW top \in Nat, NEW some \in Nat, Within(n, top, some)
      PROVE  stale <= raced
  BY <1>1, <1>2, Finite DEF Within, Fit
<1>3. CASE pc \in {"idle", "enabling", "popping"}
  <2>1. Within(_size, accepted, 0)
    BY <1>3 DEF DamageInv, Popping
  <2>2. stale <= raced
    BY <1>1, <1>2, <2>1
  <2>3. ASSUME pc = "idle" PROVE Cardinality(Missing) <= raced
    <3>1. Missing \subseteq Lost(_head, _buffer, received, _size, accepted)
      <4> SUFFICES ASSUME NEW b \in Missing, NEW q \in Slots, Index(_head, q) < _size
                   PROVE  b \in 1..accepted /\ b \notin received /\ _buffer[q] # b
        BY DEF Lost, Missing
      <4>1. Length = _size
        BY <2>3 DEF Length
      <4>2. Index(_head, q) \in Nat /\ Wrap(_head + Index(_head, q)) = q
        BY <1>1, BytesAre, IndexIs
      <4>3. /\ Index(_head, q) + 1 \in 1.._size
            /\ _head + (Index(_head, q) + 1) - 1 = _head + Index(_head, q)
        BY <1>1, <4>2, BytesAre DEF Slots
      <4>4. Contents[Index(_head, q) + 1] = _buffer[q]
        BY <4>1, <4>2, <4>3 DEF Contents
      <4> QED
        BY <4>1, <4>3, <4>4 DEF Missing
    <3>2. Cardinality(Missing) <= Cardinality(Lost(_head, _buffer, received, _size, accepted))
      BY <1>1, <3>1, Finite, Part
    <3>3. Cardinality(Missing) \in Nat
      BY <1>1, <3>1, Finite, FS_Subset, FS_CardinalityType
    <3> QED
      BY <1>1, <2>1, <3>2, <3>3, Finite DEF Within, Fit
  <2> QED
    BY <2>2, <2>3 DEF DamageBounded
<1>4. CASE pc \in {"popped", "shrinking"}
  <2>1. Within(size0 - 1, accepted, 0)
    BY <1>4 DEF DamageInv, Popping
  <2>2. stale <= raced
    BY <1>1, <1>2, <2>1
  <2> QED
    BY <1>4, <2>2 DEF DamageBounded
<1>5. CASE pc \in {"pushing", "located", "written", "growing"}
  <2>1. size0 - _size \in Nat
    BY <1>1, <1>5 DEF DamageInv, Pushing
  <2>2. Within(_size, accepted, size0 - _size) \/ (accepted - 1 \in Nat /\ Within(_size, accepted - 1, size0 - _size))
    BY <1>1, <1>5 DEF DamageInv, Pushing
  <2>3. stale <= raced
    BY <1>1, <1>2, <2>1, <2>2
  <2> QED
    BY <1>5, <2>3 DEF DamageBounded
<1> QED
  BY <1>3, <1>4, <1>5 DEF DamageInv, Steps

\* Without the mask each interrupt inside an operation of main loses one byte at
\* most and lets one stale byte through at most, for every capacity and every
\* interleaving, as the compiled code may read _size once or twice.
THEOREM HarmIsBounded == Spec => []DamageBounded
<1>1. Init => DamageInv
  BY DamageInit
<1>2. DamageInv /\ [Next]_vars => DamageInv'
  BY DamageNext
<1>3. DamageInv => DamageBounded
  BY DamageIs
<1> QED
  BY <1>1, <1>2, <1>3, PTL DEF Spec

-----------------------------------------------------------------------------
(* The commands that go through the transmit queue (UbloxCommands), for all
   lengths of the commands and of the queue.  What is on its way is in the
   order of the commands; behind a byte of a command that is not torn comes
   the next one, and a torn one has a hole, so that the receiver never has
   all of it.  Either the receiver is in step with the byte that it hears
   next, or nothing was obeyed since a tear; and a command of which nothing
   is on its way any more is obeyed, torn or lost since a tear. *)
Names == DOMAIN Lengths
Byte  == Nat \X Names \X Nat

UbxType ==
    /\ count \in Nat /\ place \in Nat /\ frame \in Nat \X Nat
    /\ queue \in Seq(Byte) /\ script \in Seq(Names \cup {"delay"})
    /\ obeyed \subseteq 1..count /\ cut \subseteq 1..count
    /\ place > 0 => /\ script # <<>> /\ Head(script) \in Names
                    /\ place < Lengths[Head(script)] /\ count > 0

\* A byte of a command that has been begun, and of what is written of it.
Written(b) ==
    /\ b[1] \in 1..count /\ b[3] \in 1..Lengths[b[2]]
    /\ b[1] = count /\ place > 0 => b[2] = Head(script) /\ b[3] <= place

\* Byte c comes after b: later in its command, or in a later one.
Follows(b, c) == b[1] < c[1] \/ (b[1] = c[1] /\ b[2] = c[2] /\ b[3] < c[3])

InOrder ==
    /\ \A i \in 1..Len(queue) : Written(queue[i])
    /\ \A i, j \in 1..Len(queue) : i < j => Follows(queue[i], queue[j])

\* The bytes of a command that is not torn are all there, each behind the one
\* before it, and the tracker goes on behind the last.
NoHoles ==
    /\ \A i \in 1..Len(queue) : queue[i][1] \notin cut /\ queue[i][3] < Lengths[queue[i][2]] =>
          IF i = Len(queue)
            THEN queue[i][1] = count /\ queue[i][3] = place
            ELSE queue[i + 1][1] = queue[i][1] /\ queue[i + 1][3] = queue[i][3] + 1
    /\ \A i \in 2..Len(queue) : queue[i][1] \notin cut /\ queue[i][3] > 1 =>
          queue[i - 1][1] = queue[i][1]
    /\ place > 0 /\ count \notin cut /\ queue # <<>> => queue[Len(queue)][1] = count

\* Of a torn command a byte is missing that has not been heard and will not be.
Holes == \A n \in cut : \E p \in Nat \ {0} :
            /\ \A i \in 1..Len(queue) : queue[i][1] = n => queue[i][3] # p /\ p <= Lengths[queue[i][2]]
            /\ frame[1] = n => frame[2] < p
            /\ n = count /\ place > 0 => p <= place

\* Command n is before all that is on its way.
Before(n) == /\ \A i \in 1..Len(queue) : n < queue[i][1]
             /\ place > 0 => n < count

\* What the receiver has of a command was written.
HeardIsWritten ==
    /\ frame[1] <= count /\ (frame[1] > 0 => frame[2] > 0)
    /\ frame[1] = count /\ place > 0 => frame[2] <= place

ObeyedBefore == \A n \in obeyed : Before(n) /\ n \notin cut

\* Nothing of command n is on its way any more.
Passed(n) == /\ \A i \in 1..Len(queue) : n # queue[i][1]
             /\ place > 0 => n # count

PassedIsSettled == \A n \in 1..count :
    Passed(n) => n \in obeyed \/ n \in cut \/ (Before(n) /\ LostSinceTear(n))

\* The byte that the receiver will hear next, if none is refused.
NextNumber == IF queue # <<>> THEN queue[1][1] ELSE IF place > 0 THEN count ELSE count + 1
NextPlace  == IF queue # <<>> THEN queue[1][3] ELSE place + 1

\* The receiver is in step with it, or nothing was obeyed since a tear.
InStep == IF NextPlace = 1 THEN frame = Waiting ELSE frame = <<NextNumber, NextPlace - 1>>

StepOrTear == InStep \/ LostSinceTear(NextNumber)

UbxInv == /\ UbxType /\ InOrder /\ NoHoles /\ Holes /\ HeardIsWritten
          /\ ObeyedBefore /\ PassedIsSettled /\ StepOrTear

-----------------------------------------------------------------------------
\* LostSinceTear of any sets of torn and of obeyed commands.
LostIn(T, O, n) == \E torn \in T : torn <= n /\ O \cap (torn .. n) = {}

\* A tear stays one while only later commands are obeyed, and if nothing
\* later was, it is one for a later command.
LEMMA LostStays ==
    ASSUME NEW T \in SUBSET Nat, NEW O \in SUBSET Nat, NEW U \in SUBSET Nat, NEW P \in SUBSET Nat,
           NEW n \in Nat, NEW m \in Nat, LostIn(T, O, n), n <= m,
           T \subseteq U, \A o \in P : o > m \/ (o \in O /\ o <= n)
    PROVE  LostIn(U, P, m)
<1>1. PICK torn \in T : torn <= n /\ O \cap (torn .. n) = {}
  BY DEF LostIn
<1>2. ASSUME NEW o \in P, o \in torn .. m PROVE FALSE
  BY <1>1, <1>2
<1>3. P \cap (torn .. m) = {} /\ torn <= m /\ torn \in U
  BY <1>1, <1>2
<1> QED
  BY <1>3 DEF LostIn

\* A torn command is such a tear itself.
LEMMA LostSelf ==
    ASSUME NEW T \in SUBSET Nat, NEW O \in SUBSET Nat, NEW n \in T, NEW m \in Nat, n <= m,
           \A o \in O : o < n \/ o > m
    PROVE  LostIn(T, O, m)
<1>1. O \cap (n .. m) = {}
  OBVIOUS
<1> QED
  BY <1>1 DEF LostIn

LEMMA CommandsAre ==
    /\ \A c \in Names : Lengths[c] \in Nat /\ Lengths[c] >= 2
    /\ "delay" \notin Names /\ QueueSize \in Nat \ {0} /\ InPort \in Nat
    /\ <<"TP5">> \in Seq(Names \cup {"delay"}) /\ <<"NAV5">> \in Seq(Names \cup {"delay"})
    /\ Scripts \subseteq Seq(Names \cup {"delay"})
<1>1. Names = {"TP5", "NAV5", "PMREQ", "RST", "PUBX", "MSG"}
  BY UbloxAssumption DEF Names
<1>2. /\ <<"PMREQ">> \in Seq(Names \cup {"delay"})
      /\ <<"PMREQ", "delay">> \in Seq(Names \cup {"delay"})
      /\ <<"RST">> \in Seq(Names \cup {"delay"})
      /\ <<"PUBX", "delay", "MSG", "MSG">> \in Seq(Names \cup {"delay"})
      /\ <<"TP5">> \in Seq(Names \cup {"delay"})
      /\ <<"NAV5">> \in Seq(Names \cup {"delay"})
  BY <1>1
<1>3. Scripts \subseteq Seq(Names \cup {"delay"})
  BY <1>2 DEF Scripts
<1> QED
  BY <1>1, <1>3, UbloxAssumption DEF Names

LEMMA ByteIs ==
    ASSUME NEW b \in Byte
    PROVE  b[1] \in Nat /\ b[2] \in Names /\ b[3] \in Nat /\ Lengths[b[2]] \in Nat /\ Lengths[b[2]] >= 2
  BY CommandsAre DEF Byte

-----------------------------------------------------------------------------
LEMMA UbxStart == UbloxInit => UbxInv
<1> SUFFICES ASSUME UbloxInit PROVE UbxInv
  OBVIOUS
<1>1. /\ script = <<"TP5">> /\ place = 0 /\ queue = <<>> /\ frame = <<0, 0>>
      /\ count = 0 /\ obeyed = {} /\ cut = {}
  BY DEF UbloxInit, Waiting
<1>2. Len(queue) = 0 /\ queue \in Seq(Byte) /\ script \in Seq(Names \cup {"delay"})
  BY <1>1, CommandsAre
<1>3. UbxType
  BY <1>1, <1>2 DEF UbxType
<1>4. InOrder /\ NoHoles
  BY <1>1, <1>2 DEF InOrder, NoHoles
<1>5. Holes /\ HeardIsWritten /\ ObeyedBefore /\ PassedIsSettled
  BY <1>1 DEF Holes, HeardIsWritten, ObeyedBefore, PassedIsSettled
<1>6. StepOrTear
  BY <1>1 DEF StepOrTear, InStep, NextPlace, Waiting
<1> QED
  BY <1>3, <1>4, <1>5, <1>6 DEF UbxInv

\* Steps that touch neither the bytes nor the command that is written.
LEMMA SameUbx ==
    ASSUME UbxInv, UNCHANGED <<count, place, queue, frame, obeyed, cut>>,
           script' \in Seq(Names \cup {"delay"}), place = 0 \/ script' = script
    PROVE  UbxInv'
<1> USE DEF UbxInv
<1>1. UbxType' /\ InOrder'
  BY DEF UbxType, InOrder, Written, Follows
<1>2. NoHoles' /\ Holes' /\ HeardIsWritten'
  BY DEF NoHoles, Holes, HeardIsWritten
<1>3. ObeyedBefore' /\ PassedIsSettled'
  BY DEF ObeyedBefore, PassedIsSettled, Before, Passed, LostSinceTear
<1>4. StepOrTear'
  BY DEF StepOrTear, InStep, NextNumber, NextPlace, LostSinceTear
<1> QED
  BY <1>1, <1>2, <1>3, <1>4

LEMMA QuietSteps ==
    ASSUME UbxInv, Delay \/ SetPlatform \/ Console \/ UNCHANGED ubloxVars
    PROVE  UbxInv'
<1>1. UNCHANGED <<count, place, queue, frame, obeyed, cut>>
  BY DEF Delay, SetPlatform, Console, ubloxVars, tracker
<1>2. CASE Delay
  <2>1. script # <<>> /\ Head(script) = "delay" /\ script' = Tail(script)
    BY <1>2 DEF Delay
  <2>2. place = 0 /\ script' \in Seq(Names \cup {"delay"})
    BY <2>1, CommandsAre DEF UbxInv, UbxType
  <2> QED
    BY <1>1, <2>2, SameUbx
<1>3. CASE SetPlatform \/ Console
  <2>1. script = <<>> /\ (script' = <<"NAV5">> \/ script' \in Scripts)
    BY <1>3 DEF SetPlatform, Console
  <2>2. place = 0
    BY <2>1 DEF UbxInv, UbxType
  <2>3. script' \in Seq(Names \cup {"delay"})
    BY <2>1, CommandsAre
  <2> QED
    BY <1>1, <2>2, <2>3, SameUbx
<1>4. CASE UNCHANGED ubloxVars
  BY <1>1, <1>4, SameUbx DEF ubloxVars, tracker, UbxInv, UbxType
<1> QED
  BY <1>2, <1>3, <1>4

-----------------------------------------------------------------------------
\* What is on the way is not before itself.
LEMMA FrontIs ==
    ASSUME UbxType, InOrder
    PROVE  /\ NextNumber \in Nat /\ NextPlace \in Nat
           /\ \A n \in Nat : (n <= count /\ Before(n)) => n < NextNumber
           /\ NextNumber <= count + 1
           /\ \A i \in 1..Len(queue) : NextNumber <= queue[i][1]
<1>1. CASE queue = <<>>
  BY <1>1 DEF UbxType, NextNumber, NextPlace, Before
<1>2. CASE queue # <<>>
  <2>1. Len(queue) \in Nat /\ 1 \in 1..Len(queue)
    BY <1>2 DEF UbxType
  <2>2. queue[1] \in Byte
    BY <2>1 DEF UbxType
  <2>3. queue[1][1] \in 1..count
    BY <2>1 DEF InOrder, Written
  <2>4. NextNumber = queue[1][1] /\ NextPlace = queue[1][3]
    BY <1>2 DEF NextNumber, NextPlace
  <2>5. ASSUME NEW i \in 1..Len(queue) PROVE queue[1][1] <= queue[i][1]
    <3>1. CASE i = 1
      BY <3>1, <2>3
    <3>2. CASE i # 1
      <4>1. 1 < i
        BY <3>2, <2>1
      <4>2. Follows(queue[1], queue[i])
        BY <2>1, <4>1 DEF InOrder
      <4>3. queue[i][1] \in 1..count
        BY DEF InOrder, Written
      <4> QED
        BY <2>3, <4>2, <4>3 DEF Follows
    <3> QED
      BY <3>1, <3>2
  <2>6. count \in Nat /\ queue[1][3] \in Nat
    BY <2>2, ByteIs DEF UbxType
  <2> QED
    BY <2>1, <2>3, <2>4, <2>5, <2>6 DEF Before
<1> QED
  BY <1>1, <1>2

LEMMA ResetUbx == ASSUME UbxInv, Reset PROVE UbxInv'
<1> DEFINE torn == Numbers(queue) \cup (IF place > 0 THEN {count} ELSE {})
<1>1. /\ cut' = cut \cup torn /\ queue' = <<>> /\ place' = 0
      /\ UNCHANGED <<count, frame, obeyed>> /\ script' = <<"TP5">>
  BY DEF Reset
<1>2. count \in Nat /\ cut \subseteq 1..count /\ obeyed \subseteq 1..count
  BY DEF UbxInv, UbxType
<1>3. torn \subseteq 1..count
  <2>1. \A i \in 1..Len(queue) : queue[i][1] \in 1..count
    BY DEF UbxInv, InOrder, Written
  <2>2. DOMAIN queue = 1..Len(queue)
    BY DEF UbxInv, UbxType
  <2>3. place > 0 => count \in 1..count
    BY DEF UbxInv, UbxType
  <2> QED
    BY <2>1, <2>2, <2>3 DEF Numbers
<1>4. \A n \in Nat : ~Passed(n) => n \in torn
  <2>1. DOMAIN queue = 1..Len(queue)
    BY DEF UbxInv, UbxType
  <2> QED
    BY <2>1 DEF Passed, Numbers
<1>5. \A n \in torn : ~Before(n)
  <2>1. DOMAIN queue = 1..Len(queue)
    BY DEF UbxInv, UbxType
  <2>2. ASSUME NEW i \in DOMAIN queue PROVE ~Before(queue[i][1])
    BY <2>1, <1>2 DEF Before, UbxInv, InOrder, Written
  <2>3. place > 0 => ~Before(count)
    BY <1>2 DEF Before
  <2> QED
    BY <2>2, <2>3 DEF Numbers
<1> HIDE DEF torn
<1>6. Len(queue') = 0 /\ queue' \in Seq(Byte) /\ script' \in Seq(Names \cup {"delay"})
  BY <1>1, CommandsAre
<1>7. cut' \subseteq 1..count /\ cut \subseteq cut'
  BY <1>1, <1>2, <1>3
<1>8. UbxType'
  BY <1>1, <1>2, <1>6, <1>7 DEF UbxInv, UbxType
<1>9. InOrder' /\ NoHoles'
  BY <1>1, <1>6 DEF InOrder, NoHoles
<1>10. Holes'
  <2>1. frame[2] \in Nat
    BY DEF UbxInv, UbxType
  <2>2. frame[2] + 1 \in Nat \ {0} /\ frame[2] < frame[2] + 1
    BY <2>1
  <2>3. \E p \in Nat \ {0} : frame[2] < p
    BY <2>2
  <2> QED
    BY <1>1, <1>6, <2>3 DEF Holes
<1>14. HeardIsWritten'
  BY <1>1 DEF UbxInv, HeardIsWritten
<1>11. ObeyedBefore'
  <2>1. \A n \in obeyed : n \notin cut /\ Before(n)
    BY DEF UbxInv, ObeyedBefore
  <2>2. \A n \in obeyed : n \notin cut'
    BY <1>1, <1>5, <2>1
  <2> QED
    BY <1>1, <1>6, <2>2 DEF ObeyedBefore, Before
<1>12. PassedIsSettled'
  <2> SUFFICES ASSUME NEW n \in 1..count, n \notin obeyed, n \notin cut'
               PROVE  Before(n)' /\ LostSinceTear(n)'
    BY <1>1 DEF PassedIsSettled
  <2>1. Passed(n)
    BY <1>1, <1>4, <1>2
  <2>2. Before(n) /\ LostSinceTear(n)
    BY <1>1, <2>1 DEF UbxInv, PassedIsSettled
  <2>3. Before(n)'
    BY <1>1, <1>6 DEF Before
  <2>4. LostSinceTear(n)'
    BY <1>1, <2>2 DEF LostSinceTear
  <2> QED
    BY <2>3, <2>4
<1>13. StepOrTear'
  <2>1. NextNumber' = count + 1 /\ NextPlace' = 1
    BY <1>1 DEF NextNumber, NextPlace
  <2>2. /\ NextNumber \in Nat /\ NextPlace \in Nat
        /\ \A n \in Nat : (n <= count /\ Before(n)) => n < NextNumber
        /\ NextNumber <= count + 1
    BY FrontIs DEF UbxInv
  <2>3. \A o \in obeyed : o < NextNumber
    BY <1>2, <2>2 DEF UbxInv, ObeyedBefore
  <2>4. cut \in SUBSET Nat /\ cut' \in SUBSET Nat /\ obeyed \in SUBSET Nat /\ count + 1 \in Nat
    BY <1>2, <1>7
  <2>5. CASE LostSinceTear(NextNumber)
    <3>1. LostIn(cut, obeyed, NextNumber)
      BY <2>5 DEF LostSinceTear, LostIn
    <3>2. \A o \in obeyed : o > count + 1 \/ (o \in obeyed /\ o <= NextNumber)
      BY <2>3, <2>2, <2>4
    <3>3. LostIn(cut', obeyed, count + 1)
      BY <2>2, <2>4, <3>1, <3>2, <1>7, LostStays
    <3> QED
      BY <1>1, <2>1, <3>3 DEF StepOrTear, LostSinceTear, LostIn
  <2>6. CASE InStep /\ frame = Waiting
    BY <1>1, <2>1, <2>6 DEF StepOrTear, InStep
  <2>7. CASE InStep /\ frame # Waiting
    <3>1. NextPlace # 1
      BY <2>7 DEF InStep
    <3>2. NextNumber \in torn
      <4>1. CASE queue # <<>>
        <5>1. 1 \in DOMAIN queue
          BY <4>1 DEF UbxInv, UbxType
        <5>2. NextNumber = queue[1][1]
          BY <4>1 DEF NextNumber
        <5> QED
          BY <5>1, <5>2 DEF torn, Numbers
      <4>2. CASE queue = <<>>
        BY <3>1, <4>2 DEF NextNumber, NextPlace, torn, UbxInv, UbxType
      <4> QED
        BY <4>1, <4>2
    <3>3. NextNumber \in cut' /\ NextNumber <= count + 1
      BY <1>1, <3>2, <2>2
    <3>4. \A o \in obeyed : o < NextNumber \/ o > count + 1
      BY <2>3
    <3>5. LostIn(cut', obeyed, count + 1)
      BY <2>4, <3>3, <3>4, LostSelf
    <3> QED
      BY <1>1, <2>1, <3>5 DEF StepOrTear, LostSinceTear, LostIn
  <2> QED
    BY <2>5, <2>6, <2>7 DEF UbxInv, StepOrTear
<1> QED
  BY <1>8, <1>9, <1>10, <1>11, <1>12, <1>13, <1>14 DEF UbxInv

-----------------------------------------------------------------------------
\* The writer: what a call of Send knows of its command.
LEMMA Sending ==
    ASSUME UbxInv, Send
    PROVE  /\ Head(script) \in Names /\ Lengths[Head(script)] \in Nat /\ Lengths[Head(script)] >= 2
           /\ place \in Nat /\ place < Lengths[Head(script)]
           /\ count \in Nat /\ count' = IF place = 0 THEN count + 1 ELSE count
           /\ count' \in Nat /\ count' >= 1 /\ count <= count'
           /\ UNCHANGED <<frame, obeyed>>
           /\ \/ /\ LastByte(Head(script)) /\ place' = 0
                 /\ script' = Tail(script)
              \/ /\ ~LastByte(Head(script)) /\ place' = place + 1 /\ script' = script
           /\ script # <<>> /\ script' \in Seq(Names \cup {"delay"})
<1>1. /\ script # <<>> /\ Head(script) # "delay"
      /\ count' = IF place = 0 THEN count + 1 ELSE count
      /\ UNCHANGED <<frame, obeyed>>
      /\ \/ LastByte(Head(script)) /\ place' = 0 /\ script' = Tail(script)
         \/ ~LastByte(Head(script)) /\ place' = place + 1 /\ script' = script
  BY DEF Send
<1>2. script \in Seq(Names \cup {"delay"}) /\ count \in Nat /\ place \in Nat
  BY DEF UbxInv, UbxType
<1>3. Head(script) \in Names /\ script' \in Seq(Names \cup {"delay"})
  BY <1>1, <1>2
<1>4. Lengths[Head(script)] \in Nat /\ Lengths[Head(script)] >= 2
  BY <1>3, CommandsAre
<1>5. place < Lengths[Head(script)]
  BY <1>2, <1>4 DEF UbxInv, UbxType
<1>6. place > 0 => count > 0
  BY DEF UbxInv, UbxType
<1> QED
  BY <1>1, <1>2, <1>3, <1>4, <1>5, <1>6

\* What was before all on its way still is; only the command that is written
\* may be passed now and was not.
LEMMA AfterSend ==
    ASSUME UbxInv, Send, queue' = queue \/ queue' = Append(queue, <<count', Head(script), place + 1>>)
    PROVE  /\ \A n \in Nat : n <= count /\ Before(n) => Before(n)'
           /\ \A n \in 1..count' : Passed(n)' => n = count' \/ (n \in 1..count /\ Passed(n))
<1> DEFINE b == <<count', Head(script), place + 1>>
<1>1. queue \in Seq(Byte) /\ count \in Nat /\ place \in Nat
  BY DEF UbxInv, UbxType
<1>2. /\ \A i \in 1..Len(queue) : i \in 1..Len(queue') /\ queue'[i] = queue[i]
      /\ \A i \in 1..Len(queue') : i \in 1..Len(queue) \/ queue'[i][1] = count'
  <2>1. CASE queue' = queue
    BY <2>1
  <2>2. CASE queue' = Append(queue, b)
    <3>1. /\ Len(queue') = Len(queue) + 1 /\ Len(queue) \in Nat
          /\ \A i \in 1..Len(queue) : queue'[i] = queue[i]
          /\ queue'[Len(queue) + 1] = b
      BY <1>1, <2>2
    <3>2. b[1] = count'
      OBVIOUS
    <3> HIDE DEF b
    <3> QED
      BY <3>1, <3>2
  <2> QED
    BY <2>1, <2>2
<1>3. /\ count' = IF place = 0 THEN count + 1 ELSE count
      /\ count' \in Nat
  BY <1>1, Sending
<1>4. ASSUME NEW n \in Nat, n <= count, Before(n) PROVE Before(n)'
  <2>1. n < count'
    BY <1>1, <1>3, <1>4 DEF Before
  <2>2. \A i \in 1..Len(queue') : n < queue'[i][1]
    BY <1>2, <1>4, <2>1 DEF Before
  <2> QED
    BY <2>1, <2>2 DEF Before
<1>5. ASSUME NEW n \in 1..count', Passed(n)', n # count' PROVE n \in 1..count /\ Passed(n)
  <2>1. n \in 1..count /\ (place > 0 => n # count)
    BY <1>1, <1>3, <1>5
  <2>2. \A i \in 1..Len(queue) : n # queue[i][1]
    BY <1>2, <1>5 DEF Passed
  <2> QED
    BY <2>1, <2>2 DEF Passed
<1> QED
  BY <1>4, <1>5

\* The next byte to be heard stays the same.
LEMMA FrontStays ==
    ASSUME UbxInv, Send,
           queue' = Append(queue, <<count', Head(script), place + 1>>) \/ (queue # <<>> /\ queue' = queue),
           cut \subseteq cut'
    PROVE  StepOrTear'
<1>1. queue \in Seq(Byte) /\ count \in Nat /\ place \in Nat
  BY DEF UbxInv, UbxType
<1>2. count' = IF place = 0 THEN count + 1 ELSE count
  BY Sending
<1>3. UNCHANGED <<NextNumber, NextPlace>>
  <2>1. CASE queue # <<>>
    <3>1. queue' # <<>> /\ queue'[1] = queue[1]
      BY <1>1, <2>1
    <3> QED
      BY <2>1, <3>1 DEF NextNumber, NextPlace
  <2>2. CASE queue = <<>>
    <3>1. queue' # <<>> /\ queue'[1] = <<count', Head(script), place + 1>>
      BY <1>1, <2>2
    <3>2. queue'[1][1] = count' /\ queue'[1][3] = place + 1
      BY <3>1
    <3> QED
      BY <1>1, <1>2, <2>2, <3>1, <3>2 DEF NextNumber, NextPlace
  <2> QED
    BY <2>1, <2>2
<1>4. UNCHANGED <<frame, obeyed>>
  BY Sending
<1>5. InStep => InStep'
  BY <1>3, <1>4 DEF InStep
<1>6. LostSinceTear(NextNumber) => LostSinceTear(NextNumber)'
  BY <1>3, <1>4 DEF LostSinceTear
<1> QED
  BY <1>5, <1>6 DEF UbxInv, StepOrTear

\* Of what is on its way the bytes before stay written.
LEMMA WrittenStays ==
    ASSUME UbxInv, Send, NEW i \in 1..Len(queue)
    PROVE  /\ queue[i][1] \in 1..count' /\ queue[i][3] \in 1..Lengths[queue[i][2]]
           /\ queue[i][1] = count' => place > 0 /\ count' = count /\ queue[i][2] = Head(script)
                                      /\ queue[i][3] <= place
<1>1. Written(queue[i])
  BY DEF UbxInv, InOrder
<1>2. queue[i][1] \in Nat /\ queue[i][3] \in Nat
  BY ByteIs DEF UbxInv, UbxType
<1>3. count \in Nat /\ place \in Nat /\ count' = IF place = 0 THEN count + 1 ELSE count
  BY Sending
<1> QED
  BY <1>1, <1>2, <1>3 DEF Written

LEMMA SendTypes ==
    ASSUME UbxInv, Send, queue' \in Seq(Byte), cut' \subseteq 1..count'
    PROVE  UbxType' /\ HeardIsWritten'
<1>1. /\ Head(script) \in Names /\ Lengths[Head(script)] \in Nat /\ Lengths[Head(script)] >= 2
      /\ place \in Nat /\ place < Lengths[Head(script)]
      /\ count \in Nat /\ count' = IF place = 0 THEN count + 1 ELSE count
      /\ count' \in Nat /\ count' >= 1 /\ count <= count'
      /\ UNCHANGED <<frame, obeyed>>
      /\ \/ /\ LastByte(Head(script)) /\ place' = 0
            /\ script' = Tail(script)
         \/ /\ ~LastByte(Head(script)) /\ place' = place + 1 /\ script' = script
      /\ script # <<>> /\ script' \in Seq(Names \cup {"delay"})
  BY Sending
<1>2. obeyed' \subseteq 1..count' /\ frame' \in Nat \X Nat
  BY <1>1 DEF UbxInv, UbxType
<1>3. place' > 0 => /\ script' # <<>> /\ Head(script') \in Names
                    /\ place' < Lengths[Head(script')] /\ count' > 0
  BY <1>1 DEF LastByte
<1>4. UbxType'
  BY <1>1, <1>2, <1>3 DEF UbxType
<1>5. frame[1] \in Nat /\ frame[2] \in Nat /\ frame[1] <= count
      /\ (frame[1] = count /\ place > 0 => frame[2] <= place)
  BY DEF UbxInv, UbxType, HeardIsWritten
<1>6. HeardIsWritten'
  <2>1. frame[1] > 0 => frame[2] > 0
    BY DEF UbxInv, HeardIsWritten
  <2>2. frame[1] = count' /\ place' > 0 => frame[2] <= place'
    BY <1>1, <1>5
  <2> QED
    BY <1>1, <1>5, <2>1, <2>2 DEF HeardIsWritten
<1> QED
  BY <1>4, <1>6

\* The hole that a torn command has stays one.
LEMMA HoleStays ==
    ASSUME UbxInv, Send, NEW n \in cut
    PROVE  \E p \in Nat \ {0} :
              /\ \A i \in 1..Len(queue) : queue[i][1] = n => queue[i][3] # p /\ p <= Lengths[queue[i][2]]
              /\ frame'[1] = n => frame'[2] < p
              /\ n = count' /\ place' > 0 => p <= place'
              /\ n = count' => p < place + 1 /\ p <= Lengths[Head(script)]
<1>1. /\ place \in Nat /\ place < Lengths[Head(script)] /\ Lengths[Head(script)] \in Nat
      /\ count \in Nat /\ count' = IF place = 0 THEN count + 1 ELSE count
      /\ UNCHANGED frame /\ (place' = 0 \/ place' = place + 1)
  BY Sending
<1>2. PICK p \in Nat \ {0} :
        /\ \A i \in 1..Len(queue) : queue[i][1] = n => queue[i][3] # p /\ p <= Lengths[queue[i][2]]
        /\ frame[1] = n => frame[2] < p
        /\ n = count /\ place > 0 => p <= place
  BY DEF UbxInv, Holes
<1>3. n \in 1..count
  BY DEF UbxInv, UbxType
<1>4. n = count' => place > 0 /\ n = count
  BY <1>1, <1>3
<1>5. n = count' => p <= place
  BY <1>2, <1>4
<1>6. /\ n = count' /\ place' > 0 => p <= place'
      /\ n = count' => p < place + 1 /\ p <= Lengths[Head(script)]
  BY <1>1, <1>5
<1> QED
  BY <1>1, <1>2, <1>6

LEMMA SendRefused == ASSUME UbxInv, Send, Full, cut' = cut \cup {count'}, queue' = queue PROVE UbxInv'
<1>1. /\ place \in Nat /\ count \in Nat /\ count' \in Nat /\ count' >= 1 /\ count <= count'
      /\ count' = IF place = 0 THEN count + 1 ELSE count
      /\ UNCHANGED <<frame, obeyed>>
      /\ place' = 0 \/ place' = place + 1
  BY Sending
<1>2. queue \in Seq(Byte) /\ obeyed \subseteq 1..count /\ cut \subseteq 1..count
  BY DEF UbxInv, UbxType
<1>3. queue # <<>>
  BY <1>2, CommandsAre DEF Full
<1>4. UbxType' /\ HeardIsWritten'
  <2>1. cut' \subseteq 1..count'
    BY <1>1, <1>2
  <2> QED
    BY <1>2, <2>1, SendTypes
<1>5. InOrder'
  <2>1. ASSUME NEW i \in 1..Len(queue) PROVE Written(queue[i])'
    <3>1. /\ queue[i][1] \in 1..count' /\ queue[i][3] \in 1..Lengths[queue[i][2]]
          /\ queue[i][1] = count' => place > 0 /\ count' = count /\ queue[i][2] = Head(script)
                                     /\ queue[i][3] <= place
      BY WrittenStays
    <3>2. place' > 0 => place' = place + 1 /\ Head(script') = Head(script)
      BY <1>1, Sending
    <3>3. queue[i][3] \in Nat
      BY <1>2, ByteIs
    <3> QED
      BY <1>1, <3>1, <3>2, <3>3 DEF Written
  <2> QED
    BY <2>1 DEF UbxInv, InOrder, Follows
<1>6. NoHoles'
  <2>1. ASSUME NEW i \in 1..Len(queue), queue[i][1] \notin cut'
        PROVE  i = Len(queue) => ~(queue[i][1] = count /\ queue[i][3] = place)
    <3>1. queue[i][3] \in 1..Lengths[queue[i][2]]
      BY DEF UbxInv, InOrder, Written
    <3>2. Lengths[queue[i][2]] \in Nat
      BY <1>2, ByteIs
    <3> QED
      BY <1>1, <2>1, <3>1, <3>2
  <2>2. count' \in cut' /\ cut \subseteq cut'
    OBVIOUS
  <2> QED
    BY <2>1, <2>2 DEF UbxInv, NoHoles
<1>7. Holes'
  <2> SUFFICES ASSUME NEW n \in cut'
               PROVE  \E p \in Nat \ {0} :
                        /\ \A i \in 1..Len(queue') : queue'[i][1] = n => queue'[i][3] # p /\ p <= Lengths[queue'[i][2]]
                        /\ frame'[1] = n => frame'[2] < p
                        /\ n = count' /\ place' > 0 => p <= place'
    BY Zenon DEF Holes
  <2>1. CASE n \in cut
    BY <2>1, HoleStays
  <2>2. CASE n \notin cut
    <3>1. n = count' /\ place + 1 \in Nat \ {0}
      BY <1>1, <2>2
    <3>2. ASSUME NEW i \in 1..Len(queue), queue[i][1] = n
          PROVE  queue[i][3] # place + 1 /\ place + 1 <= Lengths[queue[i][2]]
      <4>1. queue[i][2] = Head(script) /\ queue[i][3] <= place
        BY <3>1, <3>2, WrittenStays
      <4>2. queue[i][3] \in Nat
        BY <1>2, ByteIs
      <4>3. place < Lengths[Head(script)] /\ Lengths[Head(script)] \in Nat
        BY Sending
      <4> QED
        BY <1>1, <4>1, <4>2, <4>3
    <3>3. frame'[1] = n => frame'[2] < place + 1
      <4>1. frame[1] \in Nat /\ frame[2] \in Nat /\ frame[1] <= count
            /\ (frame[1] = count /\ place > 0 => frame[2] <= place)
        BY DEF UbxInv, UbxType, HeardIsWritten
      <4> QED
        BY <1>1, <3>1, <4>1
    <3>4. n = count' /\ place' > 0 => place + 1 <= place'
      BY <1>1
    <3> QED
      BY <3>1, <3>2, <3>3, <3>4
  <2> QED
    BY <2>1, <2>2
<1>8. ObeyedBefore'
  <2>1. ASSUME NEW n \in obeyed PROVE Before(n)' /\ n \notin cut'
    <3>1. n \in Nat /\ n <= count /\ Before(n) /\ n \notin cut
      BY <1>2 DEF UbxInv, ObeyedBefore
    <3>2. n # count'
      BY <1>1, <3>1 DEF Before
    <3> QED
      BY <3>1, <3>2, AfterSend
  <2> QED
    BY <1>1, <2>1 DEF ObeyedBefore
<1>9. PassedIsSettled'
  <2>1. ASSUME NEW n \in 1..count', Passed(n)', n \notin obeyed', n \notin cut'
        PROVE  Before(n)' /\ LostSinceTear(n)'
    <3>1. n \in 1..count /\ Passed(n)
      BY <2>1, AfterSend
    <3>2. Before(n) /\ LostSinceTear(n)
      BY <1>1, <2>1, <3>1 DEF UbxInv, PassedIsSettled
    <3>3. n \in Nat /\ n <= count
      BY <1>1, <3>1
    <3>4. LostSinceTear(n)'
      BY <1>1, <3>2 DEF LostSinceTear
    <3> QED
      BY <3>2, <3>3, <3>4, AfterSend
  <2> QED
    BY <2>1 DEF PassedIsSettled
<1>10. StepOrTear'
  BY <1>3, FrontStays
<1> QED
  BY <1>4, <1>5, <1>6, <1>7, <1>8, <1>9, <1>10 DEF UbxInv

LEMMA SendAccepted ==
    ASSUME UbxInv, Send, cut' = cut, queue' = Append(queue, <<count', Head(script), place + 1>>)
    PROVE  UbxInv'
<1> DEFINE b == <<count', Head(script), place + 1>>
           len == Len(queue)
<1>1. /\ place \in Nat /\ count \in Nat /\ count' \in Nat /\ count' >= 1 /\ count <= count'
      /\ count' = IF place = 0 THEN count + 1 ELSE count
      /\ UNCHANGED <<frame, obeyed>>
      /\ Head(script) \in Names /\ Lengths[Head(script)] \in Nat /\ place < Lengths[Head(script)]
      /\ \/ LastByte(Head(script)) /\ place' = 0
         \/ ~LastByte(Head(script)) /\ place' = place + 1 /\ script' = script
  BY Sending
<1>2. queue \in Seq(Byte) /\ obeyed \subseteq 1..count /\ cut \subseteq 1..count
  BY DEF UbxInv, UbxType
<1>3. b[1] = count' /\ b[2] = Head(script) /\ b[3] = place + 1 /\ b \in Byte
  BY <1>1 DEF Byte
<1>4. /\ Len(queue') = len + 1 /\ len \in Nat /\ queue' \in Seq(Byte)
      /\ \A i \in 1..len : queue'[i] = queue[i]
      /\ queue'[len + 1] = b
      /\ queue' # <<>>
  BY <1>2, <1>3
<1> HIDE DEF b
<1>5. UbxType' /\ HeardIsWritten'
  <2>1. cut' \subseteq 1..count'
    BY <1>1, <1>2
  <2> QED
    BY <1>4, <2>1, SendTypes
<1>6. \A i \in 1..len :
         /\ queue[i][1] \in 1..count' /\ queue[i][3] \in 1..Lengths[queue[i][2]]
         /\ queue[i][1] = count' => place > 0 /\ count' = count /\ queue[i][2] = Head(script)
                                    /\ queue[i][3] <= place
         /\ queue[i][3] \in Nat /\ queue[i][1] \in Nat
  BY <1>2, WrittenStays, ByteIs
<1>7. InOrder'
  <2>1. ASSUME NEW i \in 1..(len + 1) PROVE Written(queue[i])'
    <3>1. CASE i \in 1..len
      <4>1. queue'[i] = queue[i]
        BY <1>4, <3>1
      <4> QED
        BY <1>1, <1>6, <3>1, <4>1 DEF Written
    <3>2. CASE i = len + 1
      <4>1. queue'[i][1] = count' /\ queue'[i][2] = Head(script) /\ queue'[i][3] = place + 1
        BY <1>3, <1>4, <3>2
      <4> QED
        BY <1>1, <4>1 DEF Written
    <3> QED
      BY <1>4, <3>1, <3>2
  <2>2. ASSUME NEW i \in 1..(len + 1), NEW j \in 1..(len + 1), i < j
        PROVE  Follows(queue'[i], queue'[j])
    <3>1. i \in 1..len /\ queue'[i] = queue[i]
      BY <1>4, <2>2
    <3>2. CASE j \in 1..len
      <4>1. queue'[j] = queue[j]
        BY <1>4, <3>2
      <4> QED
        BY <2>2, <3>1, <3>2, <4>1 DEF UbxInv, InOrder
    <3>3. CASE j = len + 1
      <4>1. queue'[j][1] = count' /\ queue'[j][2] = Head(script) /\ queue'[j][3] = place + 1
        BY <1>3, <1>4, <3>3
      <4>2. queue[i][1] < count' \/ (queue[i][2] = Head(script) /\ queue[i][1] = count' /\ queue[i][3] < place + 1)
        BY <1>1, <1>6, <3>1
      <4> QED
        BY <3>1, <4>1, <4>2 DEF Follows
    <3> QED
      BY <1>4, <3>2, <3>3
  <2> QED
    BY <1>4, <2>1, <2>2 DEF InOrder, Follows
<1>8. NoHoles'
  <2>1. ASSUME NEW i \in 1..(len + 1), queue'[i][1] \notin cut, queue'[i][3] < Lengths[queue'[i][2]]
        PROVE  IF i = len + 1
                 THEN queue'[i][1] = count' /\ queue'[i][3] = place'
                 ELSE queue'[i + 1][1] = queue'[i][1] /\ queue'[i + 1][3] = queue'[i][3] + 1
    <3>1. CASE i = len + 1
      BY <1>1, <1>3, <1>4, <2>1, <3>1 DEF LastByte
    <3>2. CASE i = len
      <4>1. queue'[i] = queue[i] /\ i \in 1..len /\ i # len + 1
        BY <1>4, <2>1, <3>2
      <4>2. queue[i][1] = count /\ queue[i][3] = place /\ queue[i][3] >= 1
        BY <1>6, <2>1, <3>2, <4>1 DEF UbxInv, NoHoles
      <4>3. count' = count
        BY <1>1, <4>2
      <4> QED
        BY <1>3, <1>4, <3>2, <4>1, <4>2, <4>3
    <3>3. CASE i \in 1..len /\ i # len
      <4>1. i + 1 \in 1..len /\ i # len + 1
        BY <1>4, <3>3
      <4>2. queue'[i] = queue[i] /\ queue'[i + 1] = queue[i + 1]
        BY <1>4, <3>3, <4>1
      <4> QED
        BY <2>1, <3>3, <4>1, <4>2 DEF UbxInv, NoHoles
    <3> QED
      BY <1>4, <3>1, <3>2, <3>3
  <2>2. ASSUME NEW i \in 2..(len + 1), queue'[i][1] \notin cut, queue'[i][3] > 1
        PROVE  queue'[i - 1][1] = queue'[i][1]
    <3>1. i - 1 \in 1..len /\ queue'[i - 1] = queue[i - 1]
      BY <1>4
    <3>2. CASE i = len + 1
      <4>1. queue'[i][1] = count' /\ queue'[i][3] = place + 1 /\ i - 1 = len
        BY <1>3, <1>4, <3>2
      <4>2. place > 0 /\ count' = count /\ queue # <<>>
        BY <1>1, <1>2, <2>2, <3>1, <4>1
      <4> QED
        BY <2>2, <3>1, <4>1, <4>2 DEF UbxInv, NoHoles
    <3>3. CASE i # len + 1
      <4>1. i \in 2..len /\ queue'[i] = queue[i]
        BY <1>4, <3>3
      <4> QED
        BY <2>2, <3>1, <4>1 DEF UbxInv, NoHoles
    <3> QED
      BY <3>2, <3>3
  <2>3. queue'[Len(queue')][1] = count'
    BY <1>3, <1>4
  <2>4. Len(queue') = len + 1
    BY <1>4
  <2>5. cut' = cut
    OBVIOUS
  <2> HIDE DEF len
  <2> QED
    BY <2>1, <2>2, <2>3, <2>4, <2>5 DEF NoHoles
<1>9. Holes'
  <2> SUFFICES ASSUME NEW n \in cut
               PROVE  \E p \in Nat \ {0} :
                        /\ \A i \in 1..Len(queue') : queue'[i][1] = n => queue'[i][3] # p /\ p <= Lengths[queue'[i][2]]
                        /\ frame'[1] = n => frame'[2] < p
                        /\ n = count' /\ place' > 0 => p <= place'
    BY DEF Holes
  <2>1. PICK p \in Nat \ {0} :
              /\ \A i \in 1..len : queue[i][1] = n => queue[i][3] # p /\ p <= Lengths[queue[i][2]]
              /\ frame'[1] = n => frame'[2] < p
              /\ n = count' /\ place' > 0 => p <= place'
              /\ n = count' => p < place + 1 /\ p <= Lengths[Head(script)]
    BY HoleStays
  <2>2. ASSUME NEW i \in 1..Len(queue'), queue'[i][1] = n
        PROVE  queue'[i][3] # p /\ p <= Lengths[queue'[i][2]]
    <3>1. CASE i = len + 1
      <4>1. queue'[i][1] = count' /\ queue'[i][2] = Head(script) /\ queue'[i][3] = place + 1
        BY <1>3, <1>4, <3>1
      <4> QED
        BY <1>1, <2>1, <2>2, <4>1
    <3>2. CASE i \in 1..len
      BY <1>4, <2>1, <2>2, <3>2
    <3> QED
      BY <1>4, <3>1, <3>2
  <2> QED
    BY <2>1, <2>2
<1>10. ObeyedBefore'
  <2>1. ASSUME NEW n \in obeyed PROVE Before(n)' /\ n \notin cut
    <3>1. n \in Nat /\ n <= count /\ Before(n) /\ n \notin cut
      BY <1>2 DEF UbxInv, ObeyedBefore
    <3> QED
      BY <1>3, <1>4, <3>1, AfterSend DEF b
  <2> QED
    BY <1>1, <2>1 DEF ObeyedBefore
<1>11. PassedIsSettled'
  <2>1. ASSUME NEW n \in 1..count', Passed(n)', n \notin obeyed', n \notin cut'
        PROVE  Before(n)' /\ LostSinceTear(n)'
    <3>1. n # count'
      <4>1. len + 1 \in 1..Len(queue') /\ queue'[len + 1][1] = count'
        BY <1>3, <1>4
      <4> QED
        BY <2>1, <4>1 DEF Passed
    <3>2. n \in 1..count /\ Passed(n)
      BY <2>1, <3>1, AfterSend DEF b
    <3>3. Before(n) /\ LostSinceTear(n)
      BY <1>1, <2>1, <3>2 DEF UbxInv, PassedIsSettled
    <3>4. n \in Nat /\ n <= count
      BY <1>1, <3>2
    <3>5. LostSinceTear(n)'
      BY <1>1, <3>3 DEF LostSinceTear
    <3> QED
      BY <3>3, <3>4, <3>5, AfterSend DEF b
  <2> QED
    BY <2>1 DEF PassedIsSettled
<1>12. StepOrTear'
  BY FrontStays DEF b
<1> QED
  BY <1>5, <1>7, <1>8, <1>9, <1>10, <1>11, <1>12 DEF UbxInv

LEMMA SendUbx == ASSUME UbxInv, Send PROVE UbxInv'
<1>1. \/ cut' = cut /\ queue' = Append(queue, <<count', Head(script), place + 1>>)
      \/ Full /\ cut' = cut \cup {count'} /\ queue' = queue
  BY DEF Send
<1> QED
  BY <1>1, SendAccepted, SendRefused

-----------------------------------------------------------------------------
\* The byte that is heard, and those that are left.
LEMMA Hearing ==
    ASSUME UbxInv, Hear
    PROVE  /\ Len(queue) \in Nat /\ 1 \in 1..Len(queue) /\ queue # <<>>
           /\ Len(queue') = Len(queue) - 1 /\ queue' \in Seq(Byte)
           /\ \A i \in 1..Len(queue') : i + 1 \in 2..Len(queue) /\ queue'[i] = queue[i + 1]
           /\ queue[1] = Head(queue)
           /\ queue[1][1] \in 1..count /\ queue[1][2] \in Names
           /\ queue[1][3] \in 1..Lengths[queue[1][2]]
           /\ Lengths[queue[1][2]] \in Nat /\ Lengths[queue[1][2]] >= 2
           /\ UNCHANGED <<count, place, script, cut>>
           /\ count \in Nat /\ place \in Nat /\ obeyed \subseteq 1..count /\ cut \subseteq 1..count
<1>1. queue # <<>> /\ queue' = Tail(queue) /\ UNCHANGED <<count, place, script, cut>>
  BY DEF Hear, tracker
<1>2. queue \in Seq(Byte) /\ count \in Nat /\ place \in Nat /\ obeyed \subseteq 1..count
      /\ cut \subseteq 1..count
  BY DEF UbxInv, UbxType
<1>3. /\ Len(queue) \in Nat /\ 1 \in 1..Len(queue)
      /\ Len(queue') = Len(queue) - 1 /\ queue' \in Seq(Byte)
      /\ \A i \in 1..Len(queue') : i + 1 \in 2..Len(queue) /\ queue'[i] = queue[i + 1]
      /\ queue[1] = Head(queue) /\ queue[1] \in Byte
  BY <1>1, <1>2
<1>4. queue[1][1] \in 1..count /\ queue[1][3] \in 1..Lengths[queue[1][2]]
  BY <1>3 DEF UbxInv, InOrder, Written
<1>5. queue[1][2] \in Names /\ Lengths[queue[1][2]] \in Nat /\ Lengths[queue[1][2]] >= 2
  BY <1>3, ByteIs
<1> QED
  BY <1>1, <1>2, <1>3, <1>4, <1>5

\* It is followed by what the receiver is in step with, or drifts over it.
LEMMA HeardInStep ==
    ASSUME UbxInv, Hear
    PROVE  /\ NextNumber = queue[1][1] /\ NextPlace = queue[1][3]
           /\ \/ InStep /\ Follow(queue[1])
              \/ LostSinceTear(queue[1][1]) /\ Drift(queue[1])
<1>1. NextNumber = queue[1][1] /\ NextPlace = queue[1][3]
  BY Hearing DEF NextNumber, NextPlace
<1>2. queue[1][1] >= 1 /\ queue[1][3] >= 1 /\ queue[1][1] \in Nat /\ queue[1][3] \in Nat
  BY Hearing
<1>3. frame \in Nat \X Nat /\ (frame[1] > 0 => frame[2] > 0)
  BY DEF UbxInv, UbxType, HeardIsWritten
<1>4. Expected(queue[1]) <=> InStep
  <2>1. CASE frame = <<0, 0>>
    <3>1. frame # <<queue[1][1], queue[1][3] - 1>>
      BY <1>2, <2>1
    <3> QED
      BY <1>1, <1>2, <2>1, <3>1 DEF Expected, InStep, Begins, Waiting
  <2>2. CASE frame # <<0, 0>>
    <3>1. queue[1][3] = 1 => frame # <<queue[1][1], queue[1][3] - 1>>
      BY <1>2, <1>3
    <3> QED
      BY <1>1, <1>2, <2>2, <3>1 DEF Expected, InStep, Begins, Waiting
  <2> QED
    BY <2>1, <2>2
<1>5. IF Expected(queue[1]) THEN Follow(queue[1]) ELSE Drift(queue[1])
  BY Hearing DEF Hear
<1> QED
  BY <1>1, <1>4, <1>5 DEF UbxInv, StepOrTear

\* The receiver after it.
LEMMA FrameThen ==
    ASSUME UbxInv, Hear
    PROVE  \/ /\ InStep /\ queue[1][3] = Lengths[queue[1][2]] /\ frame' = Waiting
              /\ obeyed' = obeyed \cup {queue[1][1]}
           \/ /\ InStep /\ queue[1][3] < Lengths[queue[1][2]]
              /\ frame' = <<queue[1][1], queue[1][3]>> /\ obeyed' = obeyed
           \/ /\ LostSinceTear(queue[1][1]) /\ obeyed' = obeyed
              /\ frame' \in {Waiting, Adrift} \/ (queue[1][3] = 1 /\ frame' = <<queue[1][1], 1>>)
<1>1. queue[1][3] # Lengths[queue[1][2]] => queue[1][3] < Lengths[queue[1][2]]
  BY Hearing
<1>2. CASE InStep /\ Follow(queue[1])
  BY <1>1, <1>2 DEF Follow
<1>3. CASE LostSinceTear(queue[1][1]) /\ Drift(queue[1])
  BY <1>3 DEF Drift, Begins
<1> QED
  BY <1>2, <1>3, HeardInStep

LEMMA HearOrder == ASSUME UbxInv, Hear PROVE InOrder' /\ NoHoles'
<1>1. /\ Len(queue) \in Nat /\ Len(queue') = Len(queue) - 1
      /\ \A i \in 1..Len(queue') : i + 1 \in 2..Len(queue) /\ queue'[i] = queue[i + 1]
      /\ UNCHANGED <<count, place, script, cut>> /\ queue # <<>>
  BY Hearing
<1>2. ASSUME NEW i \in 1..Len(queue') PROVE Written(queue[i])'
  <2>1. i + 1 \in 1..Len(queue) /\ queue'[i] = queue[i + 1]
    BY <1>1
  <2>2. Written(queue[i + 1])
    BY <2>1 DEF UbxInv, InOrder
  <2> QED
    BY <1>1, <2>1, <2>2 DEF Written
<1>3. ASSUME NEW i \in 1..Len(queue'), NEW j \in 1..Len(queue'), i < j
      PROVE  Follows(queue'[i], queue'[j])
  <2>1. /\ i + 1 \in 1..Len(queue) /\ queue'[i] = queue[i + 1]
        /\ j + 1 \in 1..Len(queue) /\ queue'[j] = queue[j + 1] /\ i + 1 < j + 1
    BY <1>1, <1>3
  <2> QED
    BY <2>1 DEF UbxInv, InOrder
<1>4. ASSUME NEW i \in 1..Len(queue'), queue'[i][1] \notin cut, queue'[i][3] < Lengths[queue'[i][2]]
      PROVE  IF i = Len(queue')
               THEN queue'[i][1] = count /\ queue'[i][3] = place
               ELSE queue'[i + 1][1] = queue'[i][1] /\ queue'[i + 1][3] = queue'[i][3] + 1
  <2>1. i + 1 \in 1..Len(queue) /\ queue'[i] = queue[i + 1]
    BY <1>1
  <2>2. CASE i = Len(queue')
    <3>1. i + 1 = Len(queue)
      BY <1>1, <2>2
    <3> QED
      BY <1>4, <2>1, <2>2, <3>1 DEF UbxInv, NoHoles
  <2>3. CASE i # Len(queue')
    <3>1. i + 1 \in 1..Len(queue') /\ i + 1 # Len(queue)
      BY <1>1, <2>3
    <3>2. queue'[i + 1] = queue[(i + 1) + 1]
      BY <1>1, <3>1
    <3> QED
      BY <1>4, <2>1, <2>3, <3>1, <3>2 DEF UbxInv, NoHoles
  <2> QED
    BY <2>2, <2>3
<1>5. ASSUME NEW i \in 2..Len(queue'), queue'[i][1] \notin cut, queue'[i][3] > 1
      PROVE  queue'[i - 1][1] = queue'[i][1]
  <2>1. i \in 1..Len(queue') /\ i - 1 \in 1..Len(queue') /\ (i - 1) + 1 = (i + 1) - 1
    BY <1>1
  <2>2. queue'[i] = queue[i + 1] /\ queue'[i - 1] = queue[(i + 1) - 1] /\ i + 1 \in 2..Len(queue)
    BY <1>1, <2>1
  <2> QED
    BY <1>5, <2>2 DEF UbxInv, NoHoles
<1>6. queue' # <<>> => queue'[Len(queue')] = queue[Len(queue)]
  <2>1. queue' # <<>> => Len(queue') \in 1..Len(queue') /\ Len(queue') + 1 = Len(queue)
    <3>1. queue' \in Seq(Byte)
      BY Hearing
    <3> QED
      BY <1>1, <3>1
  <2> QED
    BY <1>1, <2>1
<1>7. InOrder'
  BY <1>2, <1>3 DEF InOrder, Follows
<1>8. NoHoles'
  <2>1. place > 0 /\ count \notin cut => queue[Len(queue)][1] = count
    BY <1>1 DEF UbxInv, NoHoles
  <2> QED
    BY <1>1, <1>4, <1>5, <1>6, <2>1 DEF NoHoles
<1> QED
  BY <1>7, <1>8

\* What comes behind the byte that is heard is later.
LEMMA RestIsLater ==
    ASSUME UbxInv, Hear
    PROVE  /\ \A i \in 1..Len(queue') :
                 \/ queue[1][1] < queue'[i][1]
                 \/ /\ queue[1][1] = queue'[i][1] /\ queue[1][2] = queue'[i][2]
                    /\ queue[1][3] < queue'[i][3] /\ queue'[i][3] <= Lengths[queue[1][2]]
           /\ queue[1][1] <= NextNumber' /\ NextNumber' \in Nat
           /\ place > 0 /\ queue[1][1] = count => queue[1][3] < Lengths[queue[1][2]]
           /\ \A n \in Nat : Before(n) => Before(n)' /\ n < queue[1][1]
           /\ \A n \in Nat : Passed(n)' /\ n # queue[1][1] => Passed(n)
<1>1. /\ Len(queue) \in Nat /\ Len(queue') = Len(queue) - 1 /\ queue' \in Seq(Byte)
      /\ \A i \in 1..Len(queue') : i + 1 \in 2..Len(queue) /\ queue'[i] = queue[i + 1]
      /\ UNCHANGED <<count, place, script, cut>> /\ queue # <<>> /\ 1 \in 1..Len(queue)
      /\ queue[1][1] \in 1..count /\ count \in Nat /\ place \in Nat
  BY Hearing
<1>2. ASSUME NEW i \in 1..Len(queue')
      PROVE  \/ queue[1][1] < queue'[i][1]
             \/ /\ queue[1][1] = queue'[i][1] /\ queue[1][2] = queue'[i][2]
                /\ queue[1][3] < queue'[i][3] /\ queue'[i][3] <= Lengths[queue[1][2]]
  <2>1. i + 1 \in 1..Len(queue) /\ 1 < i + 1 /\ queue'[i] = queue[i + 1]
    BY <1>1
  <2>2. Follows(queue[1], queue[i + 1])
    BY <1>1, <2>1 DEF UbxInv, InOrder
  <2>3. queue[i + 1][3] \in 1..Lengths[queue[i + 1][2]]
    BY <2>1 DEF UbxInv, InOrder, Written
  <2>4. queue[i + 1] \in Byte
    BY <2>1 DEF UbxInv, UbxType
  <2>5. Lengths[queue[i + 1][2]] \in Nat
    BY <2>4, ByteIs
  <2>6. queue[i + 1][3] <= Lengths[queue[i + 1][2]]
    BY <2>3, <2>5
  <2> QED
    BY <2>1, <2>2, <2>6 DEF Follows
<1>3. queue[1][1] <= NextNumber' /\ NextNumber' \in Nat
  <2>1. CASE queue' # <<>>
    <3>1. 1 \in 1..Len(queue')
      BY <1>1, <2>1
    <3>2. queue'[1] \in Byte
      BY <1>1, <3>1
    <3>3. queue'[1][1] \in Nat
      BY <3>2, ByteIs
    <3> QED
      BY <1>1, <1>2, <2>1, <3>1, <3>3 DEF NextNumber
  <2>2. CASE queue' = <<>>
    BY <1>1, <2>2 DEF NextNumber
  <2> QED
    BY <2>1, <2>2
<1>4. place > 0 /\ queue[1][1] = count => queue[1][3] < Lengths[queue[1][2]]
  <2>1. queue[1][3] \in 1..Lengths[queue[1][2]] /\ Lengths[queue[1][2]] \in Nat
    BY Hearing
  <2>2. Written(queue[1])
    BY <1>1 DEF UbxInv, InOrder
  <2> QED
    BY <1>1, <2>1, <2>2 DEF Written, UbxInv, UbxType
<1>5. ASSUME NEW n \in Nat, Before(n) PROVE Before(n)' /\ n < queue[1][1]
  <2>1. \A i \in 1..Len(queue') : i + 1 \in 1..Len(queue)
    BY <1>1
  <2> QED
    BY <1>1, <1>5, <2>1 DEF Before
<1>6. ASSUME NEW n \in Nat, Passed(n)', n # queue[1][1] PROVE Passed(n)
  <2>1. ASSUME NEW i \in 1..Len(queue), i # 1 PROVE n # queue[i][1]
    <3>1. i - 1 \in 1..Len(queue') /\ (i - 1) + 1 = i
      BY <1>1, <2>1
    <3> QED
      BY <1>1, <1>6, <3>1 DEF Passed
  <2> QED
    BY <1>1, <1>6, <2>1 DEF Passed
<1> QED
  BY <1>2, <1>3, <1>4, <1>5, <1>6

LEMMA HearUbx == ASSUME UbxInv, Hear PROVE UbxInv'
<1>0. PICK n \in Nat, p \in Nat, bytes \in Nat :
        n = queue[1][1] /\ p = queue[1][3] /\ bytes = Lengths[queue[1][2]]
  BY Hearing
<1>1. /\ Len(queue) \in Nat /\ 1 \in 1..Len(queue) /\ queue # <<>>
      /\ Len(queue') = Len(queue) - 1 /\ queue' \in Seq(Byte)
      /\ \A i \in 1..Len(queue') : i + 1 \in 2..Len(queue) /\ queue'[i] = queue[i + 1]
      /\ n \in 1..count /\ p \in 1..bytes /\ bytes \in Nat /\ bytes >= 2
      /\ UNCHANGED <<count, place, script, cut>>
      /\ count \in Nat /\ place \in Nat /\ obeyed \subseteq 1..count /\ cut \subseteq 1..count
  BY <1>0, Hearing
<1>2. /\ \A i \in 1..Len(queue') :
            \/ n < queue'[i][1]
            \/ n = queue'[i][1] /\ p < queue'[i][3] /\ queue'[i][3] <= bytes
      /\ n <= NextNumber' /\ NextNumber' \in Nat
      /\ place > 0 /\ n = count => p < bytes
      /\ \A m \in Nat : Before(m) => Before(m)' /\ m < n
      /\ \A m \in Nat : Passed(m)' /\ m # n => Passed(m)
  BY <1>0, RestIsLater, Zenon
<1>3. \/ InStep /\ p = bytes /\ frame' = Waiting /\ obeyed' = obeyed \cup {n}
      \/ InStep /\ p < bytes /\ frame' = <<n, p>> /\ obeyed' = obeyed
      \/ /\ LostSinceTear(n) /\ obeyed' = obeyed
         /\ frame' \in {Waiting, Adrift} \/ (p = 1 /\ frame' = <<n, 1>>)
  BY <1>0, FrameThen, Zenon
<1>4. IF p = 1 THEN InStep <=> frame = Waiting ELSE InStep <=> frame = <<n, p - 1>>
  BY <1>0, HeardInStep DEF InStep
<1>5. UbxType'
  <2>1. frame' = <<0, 0>> \/ frame' = <<0, 1>> \/ frame' = <<n, p>> \/ frame' = <<n, 1>>
    BY <1>3, Zenon DEF Waiting, Adrift
  <2>2. frame' \in Nat \X Nat
    BY <2>1
  <2>3. obeyed' = obeyed \/ obeyed' = obeyed \cup {n}
    BY <1>3
  <2>4. obeyed' \subseteq 1..count
    BY <1>1, <2>3
  <2> QED
    BY <1>1, <2>2, <2>4 DEF UbxInv, UbxType
<1>6. HeardIsWritten'
  <2>1. Written(queue[1])
    BY <1>1 DEF UbxInv, InOrder
  <2>2. n = count /\ place > 0 => p <= place
    BY <1>0, <2>1 DEF Written
  <2> QED
    BY <1>1, <1>3, <2>2 DEF HeardIsWritten, Waiting, Adrift
<1>7. InOrder' /\ NoHoles'
  BY HearOrder
<1>8. \A o \in obeyed : o < n /\ o \in Nat /\ Before(o)' /\ o \notin cut
  BY <1>1, <1>2 DEF UbxInv, ObeyedBefore
<1>9. ASSUME NEW m \in cut
      PROVE  \E h \in Nat \ {0} :
               /\ \A i \in 1..Len(queue) : queue[i][1] = m => queue[i][3] # h /\ h <= Lengths[queue[i][2]]
               /\ frame[1] = m => frame[2] < h
               /\ m = count /\ place > 0 => h <= place
  BY DEF UbxInv, Holes
<1>10. Holes'
  <2> SUFFICES ASSUME NEW m \in cut
               PROVE  \E h \in Nat \ {0} :
                        /\ \A i \in 1..Len(queue') : queue'[i][1] = m => queue'[i][3] # h /\ h <= Lengths[queue'[i][2]]
                        /\ frame'[1] = m => frame'[2] < h
                        /\ m = count' /\ place' > 0 => h <= place'
    BY <1>1, Zenon DEF Holes
  <2>1. PICK h \in Nat \ {0} :
               /\ \A i \in 1..Len(queue) : queue[i][1] = m => queue[i][3] # h /\ h <= Lengths[queue[i][2]]
               /\ frame[1] = m => frame[2] < h
               /\ m = count /\ place > 0 => h <= place
    BY <1>9, Zenon
  <2>2. \A i \in 1..Len(queue') : queue'[i][1] = m => queue'[i][3] # h /\ h <= Lengths[queue'[i][2]]
    <3> SUFFICES ASSUME NEW i \in 1..Len(queue'), queue'[i][1] = m
                 PROVE  queue'[i][3] # h /\ h <= Lengths[queue'[i][2]]
      OBVIOUS
    <3>1. i + 1 \in 1..Len(queue) /\ queue'[i] = queue[i + 1]
      BY <1>1
    <3> QED
      BY <2>1, <3>1
  <2>3. m = n => p # h
    BY <1>0, <1>1, <2>1
  <2>4. m >= 1 /\ m \in Nat
    BY <1>1
  <2>5. frame'[1] = m => frame'[2] < h
    <3>1. CASE frame' \in {Waiting, Adrift}
      BY <2>4, <3>1 DEF Waiting, Adrift
    <3>2. CASE p = 1 /\ frame' = <<n, 1>>
      BY <2>1, <2>3, <3>2
    <3>3. CASE InStep /\ frame' = <<n, p>>
      <4>1. CASE p = 1
        BY <2>1, <2>3, <3>3, <4>1
      <4>2. CASE p # 1
        <5>1. frame = <<n, p - 1>>
          BY <1>4, <3>3, <4>2
        <5> QED
          BY <1>1, <2>1, <2>3, <3>3, <5>1
      <4> QED
        BY <4>1, <4>2
    <3> QED
      BY <1>3, <3>1, <3>2, <3>3
  <2> QED
    BY <1>1, <2>1, <2>2, <2>5
<1>11. InStep /\ p = bytes => n \notin cut /\ Before(n)'
  <2> SUFFICES ASSUME InStep, p = bytes PROVE n \notin cut /\ Before(n)'
    OBVIOUS
  <2>1. frame = <<n, p - 1>>
    <3> QED
      BY <1>1, <1>4
  <2>2. ASSUME n \in cut PROVE FALSE
    <3>1. PICK h \in Nat \ {0} :
                 /\ \A i \in 1..Len(queue) : queue[i][1] = n => queue[i][3] # h /\ h <= Lengths[queue[i][2]]
                 /\ frame[1] = n => frame[2] < h
      BY <1>9, <2>2
    <3>2. p # h /\ h <= bytes
      BY <1>0, <1>1, <3>1
    <3>3. p - 1 < h
      BY <2>1, <3>1
    <3> QED
      BY <1>1, <3>2, <3>3
  <2>3. \A i \in 1..Len(queue') : n < queue'[i][1]
    <3> SUFFICES ASSUME NEW i \in 1..Len(queue') PROVE n < queue'[i][1]
      OBVIOUS
    <3>1. queue'[i][3] \in Nat
      BY <1>1, ByteIs
    <3> QED
      BY <1>1, <1>2, <3>1
  <2>4. place' > 0 => n < count'
    <3> QED
      BY <1>1, <1>2
  <2> QED
    BY <2>2, <2>3, <2>4 DEF Before
<1>12. ObeyedBefore'
  <2>1. \A o \in obeyed' : o \in obeyed \/ (o = n /\ InStep /\ p = bytes)
    BY <1>3
  <2>2. ASSUME NEW o \in obeyed' PROVE Before(o)' /\ o \notin cut'
    BY <1>1, <1>8, <1>11, <2>1
  <2> QED
    BY <2>2 DEF ObeyedBefore
<1>13. /\ n \in Nat /\ cut \in SUBSET Nat /\ obeyed \in SUBSET Nat /\ obeyed' \in SUBSET Nat
       /\ \A o \in obeyed' : o <= n
  <2>1. obeyed' = obeyed \/ obeyed' = obeyed \cup {n}
    BY <1>3
  <2>2. \A o \in obeyed' : o \in obeyed \/ o = n
    BY <2>1
  <2>3. \A o \in obeyed' : o <= n
    BY <1>8, <2>2
  <2>4. cut \in SUBSET Nat /\ obeyed \in SUBSET Nat /\ obeyed' \in SUBSET Nat
    BY <1>1, <1>5 DEF UbxType
  <2> QED
    BY <2>3, <2>4
<1>14. ASSUME NEW m \in Nat, n <= m, LostSinceTear(n), obeyed' = obeyed PROVE LostSinceTear(m)'
  <2>1. LostIn(cut, obeyed, n)
    BY <1>14 DEF LostSinceTear, LostIn
  <2>2. \A o \in obeyed' : o > m \/ (o \in obeyed /\ o <= n)
    BY <1>13, <1>14
  <2>3. LostIn(cut, obeyed', m)
    BY <1>13, <1>14, <2>1, <2>2, LostStays
  <2> QED
    BY <1>1, <2>3 DEF LostSinceTear, LostIn
<1>15. ASSUME NEW k \in cut, NEW m \in Nat, k <= m, \A o \in obeyed' : o < k PROVE LostSinceTear(m)'
  <2>1. LostIn(cut, obeyed', m)
    BY <1>13, <1>15, LostSelf
  <2> QED
    BY <1>1, <2>1 DEF LostSinceTear, LostIn
\* A command that is not torn goes on behind its byte.
<1>16. ASSUME n \notin cut, p < bytes
       PROVE  ~Passed(n)' /\ NextNumber' = n /\ NextPlace' = p + 1
  <2>1. CASE Len(queue) = 1
    <3>1. n = count /\ p = place
      BY <1>0, <1>1, <1>16, <2>1 DEF UbxInv, NoHoles
    <3>2. queue' = <<>>
      BY <1>1, <2>1
    <3> QED
      BY <1>1, <3>1, <3>2 DEF Passed, NextNumber, NextPlace
  <2>2. CASE Len(queue) # 1
    <3>1. queue[1 + 1][1] = n /\ queue[1 + 1][3] = p + 1
      BY <1>0, <1>1, <1>16, <2>2 DEF UbxInv, NoHoles
    <3>2. 1 \in 1..Len(queue') /\ queue'[1] = queue[1 + 1] /\ queue' # <<>>
      BY <1>1, <2>2
    <3> QED
      BY <3>1, <3>2 DEF Passed, NextNumber, NextPlace
  <2> QED
    BY <2>1, <2>2
<1>17. PassedIsSettled'
  <2> SUFFICES ASSUME NEW m \in 1..count, Passed(m)', m \notin obeyed', m \notin cut
               PROVE  Before(m)' /\ LostSinceTear(m)'
    BY <1>1 DEF PassedIsSettled
  <2>1. CASE m = n
    <3>1. LostSinceTear(n) /\ obeyed' = obeyed
      BY <1>3, <1>16, <2>1
    <3>2. LostSinceTear(n)'
      BY <1>13, <1>14, <3>1
    <3>3. \A i \in 1..Len(queue') : n < queue'[i][1]
      BY <1>2, <2>1 DEF Passed
    <3>4. place' > 0 => n < count'
      BY <1>1, <2>1 DEF Passed
    <3>5. Before(n)'
      BY <3>3, <3>4 DEF Before
    <3> QED
      BY <2>1, <3>2, <3>5
  <2>2. CASE m # n
    <3>1. Passed(m) /\ m \notin obeyed /\ m \in Nat
      BY <1>1, <1>2, <1>3, <2>2
    <3>2. Before(m) /\ LostSinceTear(m)
      BY <2>2, <3>1 DEF UbxInv, PassedIsSettled
    <3>3. m < n /\ Before(m)'
      BY <1>2, <3>1, <3>2
    <3>4. LostIn(cut, obeyed, m)
      BY <3>2 DEF LostSinceTear, LostIn
    <3>5. \A o \in obeyed' : o > m \/ (o \in obeyed /\ o <= m)
      <4>1. \A o \in obeyed' : o \in obeyed \/ o = n
        BY <1>3
      <4> QED
        BY <1>13, <3>1, <3>3, <4>1
    <3>6. LostIn(cut, obeyed', m)
      BY <1>13, <3>1, <3>4, <3>5, LostStays
    <3>7. LostSinceTear(m)'
      BY <1>1, <3>6 DEF LostSinceTear, LostIn
    <3> QED
      BY <3>3, <3>7
  <2> QED
    BY <2>1, <2>2
<1>18. StepOrTear'
  <2>1. CASE LostSinceTear(n) /\ obeyed' = obeyed
    BY <1>2, <1>14, <2>1 DEF StepOrTear
  <2>2. CASE InStep /\ p < bytes /\ frame' = <<n, p>> /\ obeyed' = obeyed
    <3>1. CASE n \in cut
      BY <1>2, <1>8, <1>15, <2>2, <3>1 DEF StepOrTear
    <3>2. CASE n \notin cut
      <4>1. NextNumber' = n /\ NextPlace' = p + 1 /\ p + 1 # 1 /\ (p + 1) - 1 = p
        BY <1>0, <1>1, <1>16, <2>2, <3>2
      <4>2. InStep'
        BY <2>2, <4>1 DEF InStep
      <4> QED
        BY <4>2 DEF StepOrTear
    <3> QED
      BY <3>1, <3>2
  <2>3. CASE InStep /\ p = bytes /\ frame' = Waiting
    <3>1. CASE NextPlace' = 1
      BY <2>3, <3>1 DEF StepOrTear, InStep
    <3>2. CASE NextPlace' # 1
      <4>1. Before(n)'
        BY <1>11, <2>3
      <4>2. NextNumber' \in cut
        <5>1. CASE queue' = <<>>
          <6>1. place > 0 /\ NextNumber' = count /\ n < count
            BY <1>1, <3>2, <4>1, <5>1 DEF NextPlace, NextNumber, Before
          <6>2. queue[Len(queue)][1] = n
            <7>1. Len(queue) = 1
              BY <1>1, <5>1
            <7> QED
              BY <1>0, <7>1
          <6> QED
            BY <1>1, <6>1, <6>2 DEF UbxInv, NoHoles
        <5>2. CASE queue' # <<>>
          <6>1. /\ 1 \in 1..Len(queue') /\ 2 \in 2..Len(queue) /\ queue'[1] = queue[2]
                /\ NextNumber' = queue[2][1] /\ NextPlace' = queue[2][3]
            <7>1. 1 \in 1..Len(queue')
              BY <1>1, <5>2
            <7>2. 1 + 1 \in 2..Len(queue) /\ queue'[1] = queue[1 + 1]
              BY <1>1, <7>1
            <7> QED
              BY <5>2, <7>1, <7>2 DEF NextNumber, NextPlace
          <6>2. queue[2][3] > 1
            <7>1. queue[2][3] \in 1..Lengths[queue[2][2]]
              BY <6>1 DEF UbxInv, InOrder, Written
            <7>2. queue[2] \in Byte
              BY <6>1 DEF UbxInv, UbxType
            <7> QED
              BY <3>2, <6>1, <7>1, <7>2, ByteIs
          <6>3. n < queue[2][1]
            BY <4>1, <6>1 DEF Before
          <6>4. queue[2][1] \notin cut => queue[2 - 1][1] = queue[2][1]
            BY <6>1, <6>2 DEF UbxInv, NoHoles
          <6> QED
            BY <1>0, <1>13, <6>1, <6>3, <6>4
        <5> QED
          BY <5>1, <5>2
      <4>3. n < NextNumber'
        <5>1. CASE queue' = <<>>
          BY <1>1, <3>2, <4>1, <5>1 DEF NextPlace, NextNumber, Before
        <5>2. CASE queue' # <<>>
          <6>1. 1 \in 1..Len(queue')
            BY <1>1, <5>2
          <6> QED
            BY <4>1, <5>2, <6>1 DEF NextNumber, Before
        <5> QED
          BY <5>1, <5>2
      <4>4. \A o \in obeyed' : o < NextNumber'
        BY <1>2, <1>13, <4>3
      <4> QED
        BY <1>2, <1>15, <4>2, <4>4 DEF StepOrTear
    <3> QED
      BY <3>1, <3>2
  <2> QED
    BY <1>3, <2>1, <2>2, <2>3
<1> QED
  BY <1>5, <1>6, <1>7, <1>10, <1>12, <1>17, <1>18 DEF UbxInv

LEMMA UbxStep == UbxInv /\ [UbloxNext]_ubloxVars => UbxInv'
<1> SUFFICES ASSUME UbxInv, UbloxNext \/ UNCHANGED ubloxVars PROVE UbxInv'
  OBVIOUS
<1>1. CASE Send BY <1>1, SendUbx
<1>2. CASE Reset BY <1>2, ResetUbx
<1>3. CASE Hear BY <1>3, HearUbx
<1>4. CASE Delay \/ SetPlatform \/ Console \/ UNCHANGED ubloxVars BY <1>4, QuietSteps
<1> QED
  BY <1>1, <1>2, <1>3, <1>4 DEF UbloxNext

\* A command that is not obeyed is torn or lies behind a torn one with nothing
\* obeyed since (console.cpp, gps_send; ublox.cpp, ublox_command), whatever
\* the receiver makes of bytes that are no command.
THEOREM OnlyTearsLose == UbloxSpec => []LossFollowsTear
<1>1. UbxInv => LossFollowsTear
  <2> SUFFICES ASSUME UbxInv, script = <<>>, queue = <<>>, NEW n \in 1..count, n \notin obeyed
               PROVE  LostSinceTear(n)
    BY DEF LossFollowsTear
  <2>1. place = 0 /\ Len(queue) = 0 /\ n \in Nat /\ cut \in SUBSET Nat /\ obeyed \in SUBSET Nat
    BY DEF UbxInv, UbxType
  <2>2. Passed(n)
    BY <2>1 DEF Passed
  <2>3. n \in cut \/ LostSinceTear(n)
    BY <2>2 DEF UbxInv, PassedIsSettled
  <2>4. CASE n \in cut
    <3>1. \A o \in obeyed : o < n \/ o > n
      BY <2>1
    <3>2. LostIn(cut, obeyed, n)
      BY <2>1, <2>4, <3>1, LostSelf
    <3> QED
      BY <3>2 DEF LostSinceTear, LostIn
  <2> QED
    BY <2>3, <2>4
<1> QED
  BY <1>1, UbxStart, UbxStep, PTL DEF UbloxSpec
=============================================================================
