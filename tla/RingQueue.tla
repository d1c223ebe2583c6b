------------------------------ MODULE RingQueue ------------------------------
(***************************************************************************)
(* The ring buffer of tiny-sky, ptlib/queue.h and its copy in cdcacm.c,    *)
(* between the main program and one interrupt.  In the role "rx" the       *)
(* interrupt pushes what arrives and main pops (getc of the GPS port,      *)
(* usb_cdc_read); in the role "tx" main pushes and the interrupt pops      *)
(* (putc and onTransmitEmpty of the GPS port).                             *)
(*                                                                         *)
(* An operation of main is split where the interrupt can see or disturb    *)
(* it.  _size and _head are plain variables: between its two uses of       *)
(* _size the compiled code may keep the value it has or read it again,     *)
(* and the model allows both.  The interrupt runs to its end, and none of  *)
(* it runs inside an operation of main where masked says so, as it is for  *)
(* the transmit queue of cdcacm.c.                                         *)
(***************************************************************************)
EXTENDS Integers, Sequences, FiniteSets

CONSTANTS Capacity,  \* 128 and 64 bytes in the code
          Roles,     \* roles to look at, of "rx" and "tx"
          Masks,     \* masked and unmasked queues, a subset of BOOLEAN
          MaxBytes   \* bound: bytes accepted in a behaviour

ASSUME ConstantsAssumption ==
    /\ Capacity \in Nat \ {0}
    /\ Roles \subseteq {"rx", "tx"}
    /\ Masks \subseteq BOOLEAN
    /\ MaxBytes \in Nat

VARIABLES
    role,      \* which queue this is
    masked,    \* main disables the interrupt around its operations
    _buffer,   \* slots; bytes are numbered as they go in, 0 is never written
    _size,
    _head,
    pc,        \* where main is in its operation
    size0,     \* the value of _size that main works with
    tail,      \* the local tail of main's push
    txie       \* the interrupt is enabled; a receive interrupt always is

\* History: bytes accepted and the last one taken out; the interrupts that
\* fell into an operation of main, the bytes taken out that nobody put in at
\* that place, and every byte taken out in its place.
VARIABLES accepted, item, raced, stale, received

hist == <<accepted, item, raced, stale, received>>
kind == <<role, masked>>
vars == <<kind, _buffer, _size, _head, pc, size0, tail, txie, hist>>

Slots == 0..(Capacity - 1)

Init ==
    /\ role \in Roles
    /\ masked \in Masks
    /\ _buffer = [i \in Slots |-> 0]
    /\ _size = 0
    /\ _head = 0
    /\ pc = "idle"
    /\ size0 = 0
    /\ tail = 0
    /\ txie = (role = "rx")
    /\ accepted = 0
    /\ item = 0
    /\ raced = 0
    /\ stale = 0
    /\ received = {}

-----------------------------------------------------------------------------
(* Steps common to both sides *)

Wrap(i) == IF i >= Capacity THEN i - Capacity ELSE i

\* A byte that is not newer than all taken out before it is a stale one.
Newest(S) == CHOOSE b \in S \cup {0} : \A c \in S : b >= c

Take(b) ==
    /\ item' = b
    /\ IF b > Newest(received)
       THEN received' = received \cup {b} /\ UNCHANGED stale
       ELSE stale' = stale + 1 /\ UNCHANGED received

-----------------------------------------------------------------------------
(* pop, called by main in the role "rx" *)

\* if (_size > 0)
PopTest ==
    /\ role = "rx" /\ pc = "idle"
    /\ _size > 0
    /\ size0' = _size
    /\ pc' = "popping"
    /\ UNCHANGED <<kind, _buffer, _size, _head, tail, txie, hist>>

\* item = _buffer[_head] and the step of _head, which only main writes.
PopTake ==
    /\ pc = "popping"
    /\ Take(_buffer[_head])
    /\ _head' = Wrap(_head + 1)
    /\ pc' = "popped"
    /\ UNCHANGED <<kind, _buffer, _size, size0, tail, txie, accepted, raced>>

\* _size--, from the old value or from a fresh one.
PopLoad ==
    /\ pc = "popped"
    /\ size0' \in {size0, _size}
    /\ pc' = "shrinking"
    /\ UNCHANGED <<kind, _buffer, _size, _head, tail, txie, hist>>

PopStore ==
    /\ pc = "shrinking"
    /\ _size' = size0 - 1
    /\ pc' = "idle"
    /\ UNCHANGED <<kind, _buffer, _head, size0, tail, txie, hist>>

-----------------------------------------------------------------------------
(* push, called by main in the role "tx", and putc around it *)

\* if (_size < capacity)
PushTest ==
    /\ role = "tx" /\ pc = "idle"
    /\ _size < Capacity
    /\ accepted < MaxBytes
    /\ size0' = _size
    /\ pc' = "pushing"
    /\ UNCHANGED <<kind, _buffer, _size, _head, tail, txie, hist>>

\* tail = _head + _size, from the old _size or from a fresh one.
PushLocate ==
    /\ pc = "pushing"
    /\ \E s \in {size0, _size} : tail' = Wrap(_head + s) /\ size0' = s
    /\ pc' = "located"
    /\ UNCHANGED <<kind, _buffer, _size, _head, txie, hist>>

PushWrite ==
    /\ pc = "located"
    /\ _buffer' = [_buffer EXCEPT ![tail] = accepted + 1]
    /\ accepted' = accepted + 1
    /\ pc' = "written"
    /\ UNCHANGED <<kind, _size, _head, size0, tail, txie, item, raced, stale, received>>

\* _size++, from the old value or from a fresh one.
PushLoad ==
    /\ pc = "written"
    /\ size0' \in {size0, _size}
    /\ pc' = "growing"
    /\ UNCHANGED <<kind, _buffer, _size, _head, tail, txie, hist>>

PushStore ==
    /\ pc = "growing"
    /\ _size' = size0 + 1
    /\ pc' = "enabling"
    /\ UNCHANGED <<kind, _buffer, _head, size0, tail, txie, hist>>

\* putc enables the interrupt after the push.
EnableTX ==
    /\ pc = "enabling"
    /\ txie' = TRUE
    /\ pc' = "idle"
    /\ UNCHANGED <<kind, _buffer, _size, _head, size0, tail, hist>>

-----------------------------------------------------------------------------
(* The interrupt *)

InOperation == pc \notin {"idle", "enabling"}

\* Mutant of MayInterrupt: nothing is masked.
MayAlwaysInterrupt == TRUE

MayInterrupt == masked => ~InOperation

Raced == raced' = IF InOperation THEN raced + 1 ELSE raced

\* Mutant of Receive: the capacity is not looked at.
ReceiveUnchecked ==
    /\ role = "rx"
    /\ MayInterrupt
    /\ accepted < MaxBytes
    /\ _buffer' = [_buffer EXCEPT ![Wrap(_head + _size)] = accepted + 1]
    /\ _size' = _size + 1
    /\ accepted' = accepted + 1
    /\ Raced
    /\ UNCHANGED <<kind, _head, pc, size0, tail, txie, item, stale, received>>

\* onReceived, or one byte of cdcacm_data_rx_cb: a push.  A full queue drops
\* the byte.
Receive ==
    /\ role = "rx"
    /\ MayInterrupt
    /\ _size < Capacity
    /\ accepted < MaxBytes
    /\ _buffer' = [_buffer EXCEPT ![Wrap(_head + _size)] = accepted + 1]
    /\ _size' = _size + 1
    /\ accepted' = accepted + 1
    /\ Raced
    /\ UNCHANGED <<kind, _head, pc, size0, tail, txie, item, stale, received>>

\* Mutant of Transmit: the last byte disables the interrupt as well.
TransmitDisablesEarly ==
    /\ role = "tx"
    /\ MayInterrupt
    /\ _size > 0
    /\ Take(_buffer[_head])
    /\ _head' = Wrap(_head + 1)
    /\ _size' = _size - 1
    /\ txie' = (_size > 2)
    /\ Raced
    /\ UNCHANGED <<kind, _buffer, pc, size0, tail, accepted>>

\* onTransmitEmpty.  usart1_isr looks at the flag of the empty register and
\* not at its enable bit, so a received byte can run this at any time.
Transmit ==
    /\ role = "tx"
    /\ MayInterrupt
    /\ _size > 0
    /\ Take(_buffer[_head])
    /\ _head' = Wrap(_head + 1)
    /\ _size' = _size - 1
    /\ Raced
    /\ UNCHANGED <<kind, _buffer, pc, size0, tail, txie, accepted>>

NothingToTransmit ==
    /\ role = "tx"
    /\ MayInterrupt
    /\ _size = 0
    /\ txie' = FALSE
    /\ UNCHANGED <<kind, _buffer, _size, _head, pc, size0, tail, hist>>

-----------------------------------------------------------------------------

Main == \/ PopTest \/ PopTake \/ PopLoad \/ PopStore
        \/ PushTest \/ PushLocate \/ PushWrite \/ PushLoad \/ PushStore \/ EnableTX

Interrupt == Receive \/ Transmit \/ NothingToTransmit

Next == Main \/ Interrupt

Spec == Init /\ [][Next]_vars

\* Main finishes the push it has begun; an enabled transmit interrupt comes.
FairSpec == /\ Spec
            /\ WF_vars(PushLocate \/ PushWrite \/ PushLoad \/ PushStore \/ EnableTX)
            /\ WF_vars(txie /\ Transmit)

-----------------------------------------------------------------------------
(* Properties *)

\* A pop moves _head before it takes the byte off _size.
Length == IF pc \in {"popped", "shrinking"} THEN _size - 1 ELSE _size

Contents == [i \in 1..Length |-> _buffer[Wrap(_head + i - 1)]]

\* Only a masked queue is seen as a FIFO; the other one is seen as empty.
Fifo == INSTANCE BoundedFifo WITH
            queue <- IF masked THEN Contents ELSE <<>>,
            accepted <- IF ~masked THEN 0
                        ELSE IF pc \in {"written", "growing"} THEN accepted - 1
                        ELSE accepted,
            item <- IF masked THEN item ELSE 0

\* With the interrupt masked around the operations of main the ring buffer is
\* a bounded FIFO, whichever side main is on.
ImplementsFifo == Fifo!Spec

\* Bytes that were accepted and can never come out again.
Missing == {b \in 1..accepted : /\ b \notin received
                                /\ \A i \in 1..Length : Contents[i] # b}

\* Without the mask an interrupt inside an operation does harm, but only that
\* much: each one loses at most one byte and lets at most one stale byte
\* through, and the queue is a FIFO again afterwards.
DamageBounded == /\ stale <= raced
                 /\ pc = "idle" => Cardinality(Missing) <= raced

\* What putc has queued is sent: main, which enables the interrupt after the
\* push, and the interrupt, which switches itself off when it finds nothing,
\* never leave a byte behind without a sender.
Empties == (role = "tx" /\ _size > 0) ~> (_size = 0)
=============================================================================
