------------------------------- MODULE UsbCdc -------------------------------
(***************************************************************************)
(* The transmit path of the USB console of tiny-sky (cdcacm.c).  The main  *)
(* program queues text and, when tx_done says that nothing is on its way,  *)
(* starts the first packet itself; from then on the completion interrupt   *)
(* of each packet starts the next one.  The interrupt can come between any *)
(* two steps of the main program except inside a critical section.         *)
(*                                                                         *)
(* Bytes are numbered in the order in which the queue accepted them.       *)
(* Below usbd_ep_write_packet and above the bus is libopencm3, which is    *)
(* external: an endpoint holds at most one packet and refuses another.     *)
(***************************************************************************)
EXTENDS Integers, Sequences

CONSTANTS QueueSize,   \* QUEUE_SIZE, 128 in the code
          PacketSize,  \* bytes the callback packs, 32 in the code
          MaxWrite,    \* bound: longest text of one usb_cdc_write
          MaxBytes,    \* bound: bytes accepted in a behaviour
          MaxResets    \* bound: resets of the bus in a behaviour

ASSUME ConstantsAssumption ==
    /\ QueueSize  \in Nat \ {0}
    /\ PacketSize \in Nat \ {0}
    /\ MaxWrite   \in Nat \ {0}
    /\ MaxBytes   \in Nat
    /\ MaxResets  \in Nat

VARIABLES
    tx_queue,        \* contents of the queue, oldest first
    tx_done,         \* the flag shared by main and interrupt
    cdc_configured,  \* the terminal is open
    enumerated,      \* the host has configured the device
    endpoint,        \* packet in the endpoint 0x82, <<>> when it is free
    pc,              \* where the main program is in usb_cdc_write
    buf              \* the local buf of a callback run from main

\* History: numbers of the last byte accepted and the last one delivered,
\* whether a packet was thrown away, and the resets of the bus so far.
VARIABLES accepted, delivered, discarded, resets

device == <<tx_queue, tx_done, cdc_configured, enumerated, endpoint, pc, buf>>
vars   == <<device, accepted, delivered, discarded, resets>>

Smaller(a, b) == IF a < b THEN a ELSE b

Init ==
    /\ tx_queue = <<>>
    /\ tx_done = TRUE
    /\ cdc_configured = FALSE
    /\ enumerated = FALSE
    /\ endpoint = <<>>
    /\ pc = "idle"
    /\ buf = <<>>
    /\ accepted = 0
    /\ delivered = 0
    /\ discarded = FALSE
    /\ resets = 0

-----------------------------------------------------------------------------
(* The queue, inside a critical section *)

Free == QueueSize - Len(tx_queue)

\* q_push until the text ends or the queue is full: the rest is dropped.
Pushed(n) == Smaller(n, Free)

\* Mutant of NextPacket: one byte more than is taken off the queue.
NextPacketOneMore == SubSeq(tx_queue, 1, Smaller(PacketSize + 1, Len(tx_queue)))

\* q_pop until the packet is full or the queue is empty.
NextPacket == SubSeq(tx_queue, 1, Smaller(PacketSize, Len(tx_queue)))

AfterPacket == SubSeq(tx_queue, Smaller(PacketSize, Len(tx_queue)) + 1, Len(tx_queue))

-----------------------------------------------------------------------------
(* The main program *)

\* usb_cdc_write up to the end of the critical section.  Without a terminal
\* the text is refused before that, which changes nothing.
Write(n) ==
    /\ pc = "idle"
    /\ cdc_configured
    /\ accepted + Pushed(n) <= MaxBytes
    /\ tx_queue' = tx_queue \o [i \in 1..Pushed(n) |-> accepted + i]
    /\ accepted' = accepted + Pushed(n)
    /\ pc' = "pushed"
    /\ UNCHANGED <<tx_done, cdc_configured, enumerated, endpoint, buf,
                   delivered, discarded, resets>>

\* Mutant of TestDone: the flag is not cleared before the packet is started.
TestDoneKeepsFlag ==
    /\ pc = "pushed"
    /\ pc' = IF tx_done THEN "starting" ELSE "idle"
    /\ UNCHANGED <<tx_queue, tx_done, cdc_configured, enumerated, endpoint, buf,
                   accepted, delivered, discarded, resets>>

\* The flag is tested and cleared outside the critical section.
TestDone ==
    /\ pc = "pushed"
    /\ pc' = IF tx_done THEN "starting" ELSE "idle"
    /\ tx_done' = FALSE
    /\ UNCHANGED <<tx_queue, cdc_configured, enumerated, endpoint, buf,
                   accepted, delivered, discarded, resets>>

\* The critical section of the callback, run from main.
TakePacket ==
    /\ pc = "starting"
    /\ buf' = NextPacket
    /\ tx_queue' = AfterPacket
    /\ pc' = "sending"
    /\ UNCHANGED <<tx_done, cdc_configured, enumerated, endpoint,
                   accepted, delivered, discarded, resets>>

\* Mutant of SendPacket: an empty queue does not raise tx_done again.
SendPacketForgetsDone ==
    /\ pc = "sending"
    /\ endpoint' = IF endpoint = <<>> THEN buf ELSE endpoint
    /\ discarded' = (discarded \/ (buf # <<>> /\ endpoint # <<>>))
    /\ buf' = <<>>
    /\ pc' = "idle"
    /\ UNCHANGED <<tx_queue, tx_done, cdc_configured, enumerated, accepted, delivered, resets>>

\* The end of the callback, run from main: an endpoint that still holds a
\* packet refuses this one, and nobody looks at the result.
SendPacket ==
    /\ pc = "sending"
    /\ endpoint' = IF endpoint = <<>> THEN buf ELSE endpoint
    /\ discarded' = (discarded \/ (buf # <<>> /\ endpoint # <<>>))
    /\ tx_done' = (tx_done \/ buf = <<>>)
    /\ buf' = <<>>
    /\ pc' = "idle"
    /\ UNCHANGED <<tx_queue, cdc_configured, enumerated, accepted, delivered, resets>>

-----------------------------------------------------------------------------
(* The USB interrupt *)

\* Mutant of TxComplete: done is declared as soon as the queue runs empty,
\* with the last packet still in the endpoint.
TxCompleteEarlyDone ==
    /\ enumerated
    /\ endpoint # <<>>
    /\ delivered' = endpoint[Len(endpoint)]
    /\ endpoint' = NextPacket
    /\ tx_queue' = AfterPacket
    /\ tx_done' = (tx_done \/ AfterPacket = <<>>)
    /\ UNCHANGED <<cdc_configured, enumerated, pc, buf, accepted, discarded, resets>>

\* The host took the packet; the callback runs to its end in the interrupt.
\* A zero length packet is never sent: an empty queue raises tx_done.
TxComplete ==
    /\ enumerated
    /\ endpoint # <<>>
    /\ delivered' = endpoint[Len(endpoint)]
    /\ endpoint' = NextPacket
    /\ tx_queue' = AfterPacket
    /\ tx_done' = (tx_done \/ NextPacket = <<>>)
    /\ UNCHANGED <<cdc_configured, enumerated, pc, buf, accepted, discarded, resets>>

\* The host resets the bus, or the cable is pulled: a packet in the endpoint
\* is gone and no completion will come for it.  tx_done and the queue stay.
BusReset ==
    /\ enumerated
    /\ resets < MaxResets
    /\ resets' = resets + 1
    /\ enumerated' = FALSE
    /\ endpoint' = <<>>
    /\ discarded' = (discarded \/ endpoint # <<>>)
    /\ UNCHANGED <<tx_queue, tx_done, cdc_configured, pc, buf, accepted, delivered>>

\* cdcacm_set_config sets the endpoints up, which frees them, and declares
\* the terminal open.
SetConfig ==
    /\ ~enumerated
    /\ enumerated' = TRUE
    /\ cdc_configured' = TRUE
    /\ endpoint' = <<>>
    /\ discarded' = (discarded \/ endpoint # <<>>)
    /\ UNCHANGED <<tx_queue, tx_done, pc, buf, accepted, delivered, resets>>

\* SET_CONTROL_LINE_STATE: a terminal is opened or closed.
ControlLineState ==
    /\ enumerated
    /\ cdc_configured' \in BOOLEAN
    /\ UNCHANGED <<tx_queue, tx_done, enumerated, endpoint, pc, buf,
                   accepted, delivered, discarded, resets>>

-----------------------------------------------------------------------------

Main == \/ \E n \in 1..MaxWrite : Write(n)
        \/ TestDone
        \/ TakePacket
        \/ SendPacket

Interrupt == \/ TxComplete
             \/ BusReset
             \/ SetConfig
             \/ ControlLineState

Next == Main \/ Interrupt

Spec == Init /\ [][Next]_vars

\* The main program leaves usb_cdc_write, and a host that has configured the
\* device keeps asking its endpoint for data; nothing makes it open a terminal.
FairSpec == /\ Spec
            /\ WF_vars(TestDone) /\ WF_vars(TakePacket) /\ WF_vars(SendPacket)
            /\ WF_vars(TxComplete) /\ WF_vars(SetConfig)

-----------------------------------------------------------------------------
(* Properties *)

TypeOK ==
    /\ tx_queue \in Seq(Nat) /\ Len(tx_queue) <= QueueSize
    /\ tx_done \in BOOLEAN
    /\ cdc_configured \in BOOLEAN
    /\ enumerated \in BOOLEAN
    /\ endpoint \in Seq(Nat)
    /\ pc \in {"idle", "pushed", "starting", "sending"}
    /\ buf \in Seq(Nat)
    /\ accepted \in Nat
    /\ delivered \in Nat
    /\ discarded \in BOOLEAN
    /\ resets \in Nat

\* Everything accepted and not yet handed to the host, oldest first.
Pipeline == endpoint \o buf \o tx_queue

\* The endpoint never refuses a packet: at most one of the two callers of the
\* callback has one to send, at a time when the endpoint is free.
NeverRefused == pc = "sending" /\ buf # <<>> => endpoint = <<>>

\* tx_done is what the comment in the callback says: TX is complete.  Nothing
\* is on its way, and what is queued belongs to a write that will start it.
DoneMeansComplete ==
    tx_done => /\ endpoint = <<>>
               /\ buf = <<>>
               /\ pc \in {"idle", "pushed"}
               /\ tx_queue # <<>> => pc = "pushed"

\* Text waits in the queue with nobody to send it only after the bus threw a
\* packet away: the hand-over between main and interrupt never loses the turn.
StallsOnlyAfterLoss ==
    (pc = "idle" /\ tx_queue # <<>> /\ endpoint = <<>>) => discarded

\* What reaches the host is what was accepted, each byte once and in order;
\* only packets thrown away by the bus are missing.
InOrder ==
    /\ \A i \in 1..Len(Pipeline) : Pipeline[i] > delivered
    /\ \A i \in 1..(Len(Pipeline) - 1) : Pipeline[i] < Pipeline[i + 1]
    /\ ~discarded => Len(Pipeline) = accepted - delivered

\* Every accepted byte reaches the host, unless the bus threw a packet away:
\* after that nothing raises tx_done and the console may stay silent.
Drains == \A b \in 1..MaxBytes : (accepted >= b) ~> (delivered >= b \/ discarded)
=============================================================================
