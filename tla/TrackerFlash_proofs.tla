------------------------- MODULE TrackerFlash_proofs -------------------------
(***************************************************************************)
(* Proofs about the flash of tiny-sky, for every size of the chip, of a    *)
(* sector and of the window, and with power failures at any point: the     *)
(* binary search finds the end of the log, no record is overwritten, and a *)
(* saved calibration is kept.                                              *)
(*                                                                         *)
(* The search asks of an address whether the window that begins there is   *)
(* blank.  That tells the log from the room behind it because the log has  *)
(* no gap as long as a window: a record begins with its type and ends with *)
(* at most three bytes of 16#FF.                                           *)
(***************************************************************************)
EXTENDS TrackerFlash, SequenceTheorems, TLAPS

Byte    == 0..255
Records == {ArmRecord, BaroRecord, MagRecord, PosRecord, EjectRecord}

TypeOK ==
    /\ flash \in [Cells -> Byte]
    /\ log_size \in Nat
    /\ ~Started => /\ range = <<range[1], range[2]>>
                   /\ range[1] \in LogStart..FlashSize
                   /\ range[2] \in (LogStart - 1)..(FlashSize - 1)
                   /\ range[1] <= range[2] + 1
    /\ mag_x_offset \in Byte
    /\ savedOffset \in Byte
    /\ records \subseteq [at : Nat, bytes : Records]
    /\ overflowed \in BOOLEAN
    /\ eraseTorn \in BOOLEAN

\* The log ends on the chip, and in front of the calibration nothing is
\* written: there a window that begins at the end of the chip goes on.
OnChip ==
    ~overflowed => /\ log_size <= Capacity
                   /\ \A a \in 0..(SectorSize - 1) : flash[a] = Blank

\* No gap in the log is as long as a window.
Gapless ==
    \A a, c \in LogStart..(FlashSize - 1) :
        c <= a /\ flash[a] # Blank => ~WindowBlank(c)

\* What the search has found out so far.
Narrowed ==
    ~Started => /\ range[1] > LogStart => ~WindowBlank(range[1] - 1)
                /\ range[2] < FlashSize - 1 => WindowBlank(range[2] + 1)

\* Where records are.
InLog == \A r \in records : LogStart <= r.at /\ r.at + Len(r.bytes) <= FlashSize

LogInv ==
    ~overflowed /\ ~eraseTorn => Gapless /\ Narrowed /\ InLog

IInv == TypeOK /\ OnChip /\ LogInv /\ EndIsKnown /\ RecordsIntact /\ CalibrationKept

-----------------------------------------------------------------------------
(* Numbers *)

LEMMA Layout ==
    /\ SectorSize \in Nat /\ SectorSize >= 4 /\ Window \in 4..SectorSize
    /\ FlashSize \in Nat /\ FlashSize > 2 * SectorSize
    /\ CalStart = SectorSize /\ LogStart = 2 * SectorSize
    /\ LogStart \in Nat /\ Capacity = FlashSize - LogStart
    /\ Blank = 255 /\ DefaultOffset = 0
BY ConstantsAssumption DEF CalStart, LogStart, Capacity, Blank, DefaultOffset

LEMMA ModSmall ==
    ASSUME NEW n \in Nat, NEW x \in 0..(n - 1)
    PROVE  x % n = x
OBVIOUS

LEMMA ModOnce ==
    ASSUME NEW n \in Nat, NEW x \in n..(2 * n - 1)
    PROVE  x % n = x - n
OBVIOUS

\* Every address of the log is in the sector that begins at a multiple of the
\* size at or before it.
LEMMA Sector ==
    ASSUME NEW n \in Nat \ {0}, NEW x \in Nat
    PROVE  /\ x \div n \in 0..x
           /\ (x \div n) * n <= x
           /\ x < (x \div n) * n + n
OBVIOUS

-----------------------------------------------------------------------------
(* The records *)

\* A record, or the beginning of one, of m bytes.
RecordLike(b, m) ==
    /\ Len(b) = m
    /\ m \in 1..15
    /\ \A i \in 1..m : b[i] \in Byte
    /\ b[1] # Blank
    /\ \A i, j \in 1..m : i < j /\ b[j] # Blank => b[i] # Blank

\* Every record begins with its type and ends with at most three blank bytes.
LEMMA RecordShape ==
    ASSUME NEW r \in Records
    PROVE  /\ RecordLike(r, Len(r))
           /\ r \in Seq(Byte)
           /\ \E k \in 0..3 : k < Len(r) /\ r[Len(r) - k] # Blank
<1> USE DEF Byte, Blank, RecordLike
<1>1. CASE r = ArmRecord
  BY <1>1 DEF ArmRecord
<1>2. CASE r = BaroRecord
  BY <1>2 DEF BaroRecord
<1>3. CASE r = MagRecord
  BY <1>3 DEF MagRecord
<1>4. CASE r = PosRecord
  BY <1>4 DEF PosRecord
<1>5. CASE r = EjectRecord
  BY <1>5 DEF EjectRecord
<1> QED
  BY <1>1, <1>2, <1>3, <1>4, <1>5 DEF Records

LEMMA PrefixShape ==
    ASSUME NEW r \in Records, NEW m, RecordLike(r, m), NEW n \in 1..m
    PROVE  RecordLike(SubSeq(r, 1, n), n)
<1>1. r \in Seq(Byte) /\ RecordLike(r, m)
  BY RecordShape
<1>2. m \in 1..15 /\ n \in 1..15 /\ n <= m
  BY <1>1 DEF RecordLike
<1> DEFINE b == SubSeq(r, 1, n)
<1>3. Len(b) = n /\ \A i \in 1..n : b[i] = r[i]
  <2>1. \A i \in 1..n : r[i] \in Byte
    BY <1>1, <1>2 DEF RecordLike
  <2> QED
    BY <1>1, <1>2, <2>1, SubSeqProperties, Z3
<1> HIDE DEF b
<1>4. \A i \in 1..n : i \in 1..m
  BY <1>2
<1>5. RecordLike(b, n)
  BY <1>1, <1>2, <1>3, <1>4 DEF RecordLike
<1> QED
  BY <1>5 DEF b

-----------------------------------------------------------------------------
(* The chip *)

LEMMA ClearedType ==
    ASSUME NEW old \in Byte, NEW new \in Byte
    PROVE  /\ Cleared(old, new) \in Byte
           /\ old = Blank => Cleared(old, new) = new
BY DEF Cleared, Byte

LEMMA ProgrammedType ==
    ASSUME NEW f \in [Cells -> Byte], NEW address, NEW b,
           \A i \in 1..Len(b) : b[i] \in Byte
    PROVE  Programmed(f, address, b) \in [Cells -> Byte]
<1> DEFINE at == [i \in 1..Len(b) |-> (address + i - 1) % FlashSize]
           hit(a) == \E i \in 1..Len(b) : at[i] = a
           place(a) == CHOOSE i \in 1..Len(b) : at[i] = a
<1>1. ASSUME NEW a \in Cells, hit(a)
      PROVE  Cleared(f[a], b[place(a)]) \in Byte
  <2>1. place(a) \in 1..Len(b)
    BY <1>1
  <2> QED
    BY <2>1, ClearedType
<1> HIDE DEF hit, place, at
<1>2. [a \in Cells |-> IF hit(a) THEN Cleared(f[a], b[place(a)]) ELSE f[a]] \in [Cells -> Byte]
  BY <1>1
<1> QED
  BY <1>2 DEF Programmed, hit, place, at

\* Programming that does not reach the end of the chip.
LEMMA ProgrammedAt ==
    ASSUME NEW f \in [Cells -> Byte], NEW address \in Nat, NEW b, NEW m \in Nat,
           Len(b) = m, address + m <= FlashSize, NEW a \in Cells
    PROVE  Programmed(f, address, b)[a] =
              IF a \in address..(address + m - 1)
              THEN Cleared(f[a], b[a - address + 1]) ELSE f[a]
<1> DEFINE at == [i \in 1..m |-> (address + i - 1) % FlashSize]
<1>1. \A i \in 1..m : at[i] = address + i - 1
  <2> TAKE i \in 1..m
  <2>1. address + i - 1 \in 0..(FlashSize - 1)
    BY Layout
  <2> QED
    BY <2>1, ModSmall, Layout
<1> HIDE DEF at
<1>2. CASE a \in address..(address + m - 1)
  <2> DEFINE i == CHOOSE i \in 1..m : at[i] = a
  <2>1. a - address + 1 \in 1..m /\ at[a - address + 1] = a
    BY <1>1, <1>2 DEF Cells
  <2>2. i \in 1..m /\ at[i] = a
    BY <2>1
  <2>3. i = a - address + 1
    <3> HIDE DEF i
    <3> QED
      BY <1>1, <2>2
  <2> QED
    BY <1>2, <2>1, <2>3, Zenon DEF Programmed, at
<1>3. CASE a \notin address..(address + m - 1)
  <2>1. ~ \E i \in 1..m : at[i] = a
    BY <1>1, <1>3 DEF Cells
  <2> QED
    BY <1>3, <2>1 DEF Programmed, at
<1> QED
  BY <1>2, <1>3

LEMMA ErasedType ==
    ASSUME NEW f \in [Cells -> Byte], NEW starts
    PROVE  Erased(f, starts) \in [Cells -> Byte]
BY DEF Erased, Byte, Blank

\* The windows of the log, by the addresses behind them.
LEMMA WindowAt ==
    ASSUME TypeOK, NEW c \in LogStart..(FlashSize - 1), NEW i \in 0..(Window - 1)
    PROVE  /\ c + i < FlashSize => (c + i) % FlashSize = c + i
           /\ c + i >= FlashSize => (c + i) % FlashSize \in 0..(SectorSize - 1)
<1>1. c \in Nat /\ i \in Nat /\ i < SectorSize
  BY Layout
<1>2. CASE c + i < FlashSize
  BY <1>1, <1>2, ModSmall, Layout
<1>3. CASE c + i >= FlashSize
  <2>1. c + i \in FlashSize..(2 * FlashSize - 1)
    BY <1>1, <1>3, Layout
  <2>2. (c + i) % FlashSize = c + i - FlashSize
    BY <2>1, ModOnce, Layout
  <2> QED
    BY <1>1, <1>3, <2>2, Layout
<1> QED
  BY <1>1, <1>2, <1>3, Layout

-----------------------------------------------------------------------------
(* Writing a record *)

LEMMA Room ==
    ASSUME log_size \in Nat, NEW m \in Nat, log_size + m <= Capacity
    PROVE  /\ NextAddress \in Nat /\ LogStart <= NextAddress
           /\ NextAddress + m <= FlashSize
           /\ NextAddress = LogStart + log_size
<1>1. LogStart \in Nat /\ FlashSize \in Nat /\ Capacity = FlashSize - LogStart
  BY Layout
<1> QED
  BY <1>1 DEF NextAddress

LEMMA WriteCells ==
    ASSUME TypeOK, NEW b, NEW m \in 1..15, RecordLike(b, m),
           log_size + m <= Capacity, flash' = Programmed(flash, NextAddress, b)
    PROVE  /\ flash' \in [Cells -> Byte]
           /\ \A a \in Cells : flash'[a] =
                 IF a \in NextAddress..(NextAddress + m - 1)
                 THEN Cleared(flash[a], b[a - NextAddress + 1]) ELSE flash[a]
<1>1. \A i \in 1..Len(b) : b[i] \in Byte
  BY Zenon DEF RecordLike
<1>2. NextAddress \in Nat /\ NextAddress + m <= FlashSize
  <2>1. log_size \in Nat
    BY DEF TypeOK
  <2> QED
    BY <2>1, Room
<1>3. flash \in [Cells -> Byte]
  BY DEF TypeOK
<1>4. flash' \in [Cells -> Byte]
  BY <1>1, <1>3, ProgrammedType
<1>5. ASSUME NEW a \in Cells
      PROVE  flash'[a] = IF a \in NextAddress..(NextAddress + m - 1)
                         THEN Cleared(flash[a], b[a - NextAddress + 1]) ELSE flash[a]
  <2>1. Len(b) = m
    BY DEF RecordLike
  <2>2. Programmed(flash, NextAddress, b)[a] =
              IF a \in NextAddress..(NextAddress + m - 1)
              THEN Cleared(flash[a], b[a - NextAddress + 1]) ELSE flash[a]
    BY <1>2, <1>3, <2>1, ProgrammedAt
  <2> QED
    BY <2>2
<1> QED
  BY <1>4, <1>5

\* What writing leaves in front of the log.
LEMMA WriteBelow ==
    ASSUME TypeOK, OnChip, CalibrationKept, ~overflowed,
           NEW b, NEW m \in 1..15, RecordLike(b, m),
           log_size + m <= Capacity, flash' = Programmed(flash, NextAddress, b)
    PROVE  \A a \in 0..(LogStart - 1) : flash'[a] = flash[a]
<1> SUFFICES ASSUME NEW a \in 0..(LogStart - 1) PROVE flash'[a] = flash[a]
  OBVIOUS
<1>1. a \in Cells /\ a < NextAddress /\ NextAddress \in Nat
  <2>1. log_size \in Nat
    BY DEF TypeOK
  <2>2. LogStart \in Nat /\ NextAddress \in Nat /\ LogStart <= NextAddress
    BY <2>1, Room, Layout
  <2> QED
    BY <2>2, Layout DEF Cells
<1>2. a \notin NextAddress..(NextAddress + m - 1)
  BY <1>1
<1> QED
  BY <1>1, <1>2, WriteCells

\* A write puts its bytes behind everything that is not blank.
LEMMA WriteLog ==
    ASSUME TypeOK, EndIsKnown, Started, ~overflowed, ~eraseTorn,
           NEW b, NEW m \in 1..15, RecordLike(b, m),
           log_size + m <= Capacity, flash' = Programmed(flash, NextAddress, b)
    PROVE  /\ \A i \in 1..m : flash'[NextAddress + i - 1] = b[i]
           /\ \A a \in Cells : flash[a] # Blank => flash'[a] = flash[a]
           /\ \A a \in (NextAddress + m)..(FlashSize - 1) : flash'[a] = Blank
<1>1. /\ NextAddress \in Nat /\ NextAddress + m <= FlashSize /\ FlashSize \in Nat
      /\ \A a \in NextAddress..(FlashSize - 1) : a \in Cells /\ flash[a] = Blank
  <2>1. log_size \in Nat
    BY DEF TypeOK
  <2>2. NextAddress \in Nat /\ NextAddress + m <= FlashSize /\ FlashSize \in Nat
    BY <2>1, Room, Layout
  <2>3. \A a \in NextAddress..(FlashSize - 1) : flash[a] = Blank
    BY DEF EndIsKnown
  <2> QED
    BY <2>2, <2>3 DEF Cells
<1>2. ASSUME NEW i \in 1..m PROVE flash'[NextAddress + i - 1] = b[i]
  <2> DEFINE a == NextAddress + i - 1
  <2>1. a \in NextAddress..(NextAddress + m - 1) /\ a - NextAddress + 1 = i
    BY <1>1
  <2>2. a \in Cells /\ flash[a] = Blank
    BY <1>1, <2>1
  <2> HIDE DEF a
  <2>3. flash'[a] = Cleared(flash[a], b[i])
    BY <2>1, <2>2, WriteCells
  <2>4. b[i] \in Byte
    BY DEF RecordLike
  <2>5. Cleared(Blank, b[i]) = b[i]
    BY DEF Cleared
  <2>6. flash'[a] = b[i]
    BY <2>2, <2>3, <2>5
  <2> QED
    BY <2>6 DEF a
<1>3. ASSUME NEW a \in Cells, flash[a] # Blank PROVE flash'[a] = flash[a]
  <2>1. a \notin NextAddress..(NextAddress + m - 1)
    BY <1>1, <1>3
  <2> QED
    BY <2>1, WriteCells
<1>4. ASSUME NEW a \in (NextAddress + m)..(FlashSize - 1) PROVE flash'[a] = Blank
  <2>1. a \in NextAddress..(FlashSize - 1) /\ a \notin NextAddress..(NextAddress + m - 1)
    BY <1>1
  <2> QED
    BY <1>1, <2>1, WriteCells
<1> QED
  BY <1>2, <1>3, <1>4

LEMMA WriteGapless ==
    ASSUME TypeOK, Gapless, EndIsKnown, Started, ~overflowed, ~eraseTorn,
           NEW b, NEW m \in 1..15, RecordLike(b, m),
           log_size + m <= Capacity, flash' = Programmed(flash, NextAddress, b)
    PROVE  Gapless'
<1> DEFINE N == NextAddress
<1>1. /\ \A i \in 1..m : flash'[N + i - 1] = b[i]
      /\ \A a \in Cells : flash[a] # Blank => flash'[a] = flash[a]
      /\ \A a \in (N + m)..(FlashSize - 1) : flash'[a] = Blank
  BY WriteLog
<1>2. /\ N \in Nat /\ N >= LogStart /\ N + m <= FlashSize
      /\ \A a \in LogStart..(N - 1) : flash'[a] = flash[a]
      /\ Window \in Nat /\ Window >= 4 /\ FlashSize \in Nat /\ LogStart \in Nat
  <2>1. /\ N \in Nat /\ N >= LogStart /\ N + m <= FlashSize
        /\ Window \in Nat /\ Window >= 4 /\ FlashSize \in Nat /\ LogStart \in Nat
    BY Room, Layout DEF TypeOK
  <2>2. ASSUME NEW a \in LogStart..(N - 1) PROVE flash'[a] = flash[a]
    <3>1. a \in Cells /\ a \notin N..(N + m - 1)
      BY <2>1 DEF Cells
    <3> QED
      BY <3>1, WriteCells
  <2> QED
    BY <2>1, <2>2
<1>3. /\ b[1] # Blank
      /\ \A i, j \in 1..m : i < j /\ b[j] # Blank => b[i] # Blank
  BY DEF RecordLike
<1>4. log_size > 0 => \E e \in LogStart..(N - 1) : flash[e] # Blank /\ e >= N - Window
  BY DEF EndIsKnown
<1>5. N = LogStart + log_size
  BY DEF NextAddress
<1> HIDE DEF N
<1> SUFFICES ASSUME NEW a \in LogStart..(FlashSize - 1), NEW c \in LogStart..(FlashSize - 1),
                    c <= a, flash'[a] # Blank
             PROVE  \E i \in 0..(Window - 1) : flash'[(c + i) % FlashSize] # Blank
  BY DEF Gapless, WindowBlank
<1>6. ASSUME NEW e \in LogStart..(FlashSize - 1), c <= e, flash[e] # Blank
      PROVE  \E i \in 0..(Window - 1) : flash'[(c + i) % FlashSize] # Blank
  <2>1. PICK i \in 0..(Window - 1) : flash[(c + i) % FlashSize] # Blank
    BY <1>6 DEF Gapless, WindowBlank
  <2>2. (c + i) % FlashSize \in Cells
    BY <1>2, Layout DEF Cells
  <2> QED
    BY <1>1, <2>1, <2>2
<1>7. CASE a < N
  <2>1. flash[a] # Blank
    BY <1>2, <1>7
  <2> QED
    BY <1>6, <2>1
<1>8. CASE a >= N /\ c >= N
  <2>1. a - N + 1 \in 1..m /\ c - N + 1 \in 1..m
    BY <1>1, <1>2, <1>8
  <2>2. flash'[a] = b[a - N + 1] /\ flash'[c] = b[c - N + 1]
    <3>1. N + (a - N + 1) - 1 = a /\ N + (c - N + 1) - 1 = c
      BY <1>2
    <3> QED
      BY <1>1, <2>1, <3>1
  <2>3. flash'[c] # Blank
    <3>1. CASE a = c
      BY <3>1
    <3>2. CASE c < a
      <4>1. c - N + 1 < a - N + 1
        BY <3>2, <1>2
      <4> QED
        BY <1>3, <2>1, <2>2, <4>1
    <3> QED
      BY <3>1, <3>2
  <2>4. (c + 0) % FlashSize = c
    BY <1>2, ModSmall
  <2> QED
    BY <1>2, <2>3, <2>4
<1>9. CASE a >= N /\ c < N /\ \A e \in c..(N - 1) : flash[e] = Blank
  <2>1. PICK e \in LogStart..(N - 1) : flash[e] # Blank /\ e >= N - Window
    BY <1>2, <1>4, <1>5, <1>9 DEF TypeOK
  <2>2. e < c
    BY <1>2, <1>9, <2>1
  <2>3. N - c \in 0..(Window - 1) /\ c + (N - c) = N /\ N \in 0..(FlashSize - 1)
    BY <1>2, <1>9, <2>1, <2>2
  <2>4. flash'[N] # Blank
    <3>1. N + 1 - 1 = N /\ 1 \in 1..m
      BY <1>2
    <3> QED
      BY <1>1, <1>3, <3>1
  <2>5. (c + (N - c)) % FlashSize = N
    BY <1>2, <2>3, ModSmall
  <2> QED
    BY <2>3, <2>4, <2>5
<1>10. CASE \E e \in c..(N - 1) : flash[e] # Blank
  BY <1>2, <1>6, <1>10
<1> QED
  BY <1>2, <1>7, <1>8, <1>9, <1>10

-----------------------------------------------------------------------------
(* Changes that leave the log or the calibration alone *)

LEMMA SameBelow ==
    ASSUME \A a \in 0..(LogStart - 1) : flash'[a] = flash[a]
    PROVE  /\ Restored' = Restored
           /\ \A a \in 0..(SectorSize - 1) : flash'[a] = flash[a]
<1>1. CalStart \in 0..(LogStart - 1) /\ CalStart + 1 \in 0..(LogStart - 1)
  BY Layout
<1>2. flash'[CalStart] = flash[CalStart] /\ flash'[CalStart + 1] = flash[CalStart + 1]
  BY <1>1
<1>3. Restored' = Restored
  BY <1>2, Zenon DEF Restored, CalStart, DefaultOffset
<1>4. \A a \in 0..(SectorSize - 1) : a \in 0..(LogStart - 1)
  BY Layout
<1> QED
  BY <1>3, <1>4

LEMMA SameLog ==
    ASSUME TypeOK, Gapless,
           \A a \in LogStart..(FlashSize - 1) : flash'[a] = flash[a],
           \A a \in 0..(SectorSize - 1) : flash'[a] = flash[a]
    PROVE  Gapless'
<1>1. ASSUME NEW c \in LogStart..(FlashSize - 1), ~WindowBlank(c)
      PROVE  ~WindowBlank(c)'
  <2>1. PICK i \in 0..(Window - 1) : flash[(c + i) % FlashSize] # Blank
    BY <1>1 DEF WindowBlank
  <2>2. \/ (c + i) % FlashSize \in LogStart..(FlashSize - 1)
        \/ (c + i) % FlashSize \in 0..(SectorSize - 1)
    <3>1. /\ c + i < FlashSize => (c + i) % FlashSize = c + i
          /\ c + i >= FlashSize => (c + i) % FlashSize \in 0..(SectorSize - 1)
      BY WindowAt
    <3>2. c + i \in Nat /\ c + i >= LogStart
      BY Layout
    <3> QED
      BY <3>1, <3>2, Layout
  <2>3. flash'[(c + i) % FlashSize] # Blank
    BY <2>1, <2>2
  <2> QED
    BY <2>3 DEF WindowBlank
<1> SUFFICES ASSUME NEW a \in LogStart..(FlashSize - 1), NEW c \in LogStart..(FlashSize - 1),
                    c <= a, flash'[a] # Blank
             PROVE  ~WindowBlank(c)'
  BY DEF Gapless
<1>2. flash[a] # Blank
  OBVIOUS
<1>3. ~WindowBlank(c)
  BY <1>2 DEF Gapless
<1> QED
  BY <1>1, <1>3

LEMMA RestoredType ==
    ASSUME TypeOK
    PROVE  Restored \in Byte
<1>1. CalStart \in Cells /\ flash \in [Cells -> Byte]
  BY Layout DEF TypeOK, Cells
<1> QED
  BY <1>1, Layout DEF Restored, Byte

\* Steps that only concern the calibration in memory, and the SAFE pin.
LEMMA Quiet ==
    ASSUME IInv, mag_x_offset' \in Byte,
           UNCHANGED <<flash, log_size, range, records, savedOffset, overflowed, eraseTorn>>
    PROVE  IInv'
<1>1. TypeOK'
  BY DEF IInv, TypeOK, Started
<1>2. OnChip'
  BY DEF IInv, OnChip
<1>3. LogInv'
  BY DEF IInv, LogInv, Gapless, Narrowed, InLog, WindowBlank, Started
<1>4. EndIsKnown'
  BY DEF IInv, EndIsKnown, NextAddress, Started
<1>5. RecordsIntact' /\ CalibrationKept'
  BY DEF IInv, RecordsIntact, CalibrationKept, Restored
<1> QED
  BY <1>1, <1>2, <1>3, <1>4, <1>5 DEF IInv

\* What holds after every power failure.
LEMMA Failed ==
    ASSUME TypeOK, NEW f \in [Cells -> Byte], PowerFails(f),
           savedOffset' \in Byte, records' \in {records, {}},
           overflowed' \in BOOLEAN, eraseTorn' \in BOOLEAN
    PROVE  TypeOK' /\ ~Started' /\ Narrowed' /\ EndIsKnown' /\ log_size' = 0 /\ flash' = f
<1>1. /\ range' = <<LogStart, FlashSize - 1>> /\ log_size' = 0 /\ flash' = f
      /\ mag_x_offset' = DefaultOffset
  BY DEF PowerFails
<1>2. ~Started'
  BY <1>1 DEF Started
<1>3. range'[1] = LogStart /\ range'[2] = FlashSize - 1 /\ range' = <<range'[1], range'[2]>>
  BY <1>1
<1>4. DefaultOffset \in Byte
  BY Layout DEF Byte
<1>5. LogStart \in LogStart..FlashSize /\ FlashSize - 1 \in (LogStart - 1)..(FlashSize - 1)
      /\ LogStart <= FlashSize - 1 + 1
  BY Layout
<1>6. TypeOK'
  BY <1>1, <1>3, <1>4, <1>5 DEF TypeOK
<1>7. Narrowed'
  BY <1>3, Layout DEF Narrowed
<1>8. EndIsKnown'
  BY <1>2 DEF EndIsKnown
<1> QED
  BY <1>1, <1>2, <1>6, <1>7, <1>8

-----------------------------------------------------------------------------
(* The start *)

LEMMA RestartStep ==
    ASSUME IInv, Restart
    PROVE  IInv'
<1>1. /\ TypeOK /\ flash \in [Cells -> Byte] /\ savedOffset \in Byte
      /\ overflowed \in BOOLEAN /\ eraseTorn \in BOOLEAN
  BY DEF IInv, TypeOK
<1>2. PowerFails(flash) /\ UNCHANGED <<records, savedOffset, overflowed, eraseTorn>>
  BY DEF Restart
<1>3. TypeOK' /\ Narrowed' /\ EndIsKnown' /\ log_size' = 0 /\ flash' = flash
  BY <1>1, <1>2, Failed
<1>4. OnChip'
  BY <1>2, <1>3, Layout DEF IInv, OnChip
<1>5. LogInv'
  BY <1>2, <1>3 DEF IInv, LogInv, Gapless, InLog, WindowBlank
<1>6. RecordsIntact' /\ CalibrationKept'
  BY <1>2, <1>3 DEF IInv, RecordsIntact, CalibrationKept, Restored
<1> QED
  BY <1>3, <1>4, <1>5, <1>6 DEF IInv

\* The search keeps a blank window behind its range and none in front of it.
LEMMA SearchStep ==
    ASSUME IInv, Search
    PROVE  IInv'
<1>0. PICK low, high, middle :
         low = range[1] /\ high = range[2] /\ middle = low + (high - low) \div 2
  OBVIOUS
<1>1. /\ ~Started /\ low <= high
      /\ range' = IF WindowBlank(middle) THEN <<low, middle - 1>> ELSE <<middle + 1, high>>
      /\ UNCHANGED <<flash, log_size, mag_x_offset, records, savedOffset, overflowed, eraseTorn>>
  BY <1>0 DEF Search, Searching, hist
<1>2. low \in LogStart..FlashSize /\ high \in (LogStart - 1)..(FlashSize - 1)
  BY <1>0, <1>1 DEF IInv, TypeOK
<1>3. low <= middle /\ middle <= high /\ middle \in Int
  BY <1>0, <1>1, <1>2, Layout
<1>4. ~Started'
  BY <1>1 DEF Started
<1>5. CASE WindowBlank(middle)
  <2>1. range' = <<low, middle - 1>>
    BY <1>1, <1>5
  <2>2. range'[1] = low /\ range'[2] = middle - 1 /\ range' = <<range'[1], range'[2]>>
    BY <2>1
  <2>3. middle - 1 \in (LogStart - 1)..(FlashSize - 1) /\ low <= middle - 1 + 1
    BY <1>2, <1>3, Layout
  <2>4. middle - 1 + 1 = middle
    BY <1>3
  <2>5. ASSUME ~overflowed, ~eraseTorn PROVE Narrowed'
    <3>1. low > LogStart => ~WindowBlank(low - 1)
      BY <1>0, <1>1, <2>5 DEF IInv, LogInv, Narrowed
    <3> QED
      BY <1>1, <1>5, <2>2, <2>4, <3>1 DEF Narrowed, WindowBlank
  <2>6. TypeOK'
    BY <1>1, <1>2, <2>2, <2>3 DEF IInv, TypeOK
  <2> QED
    BY <2>5, <2>6, <1>1, <1>4
       DEF IInv, OnChip, LogInv, Gapless, InLog, WindowBlank, EndIsKnown, RecordsIntact,
           CalibrationKept, Restored
<1>6. CASE ~WindowBlank(middle)
  <2>1. range' = <<middle + 1, high>>
    BY <1>1, <1>6
  <2>2. range'[1] = middle + 1 /\ range'[2] = high /\ range' = <<range'[1], range'[2]>>
    BY <2>1
  <2>3. middle + 1 \in LogStart..FlashSize /\ middle + 1 <= high + 1
    BY <1>2, <1>3, Layout
  <2>4. middle + 1 - 1 = middle
    BY <1>3
  <2>5. ASSUME ~overflowed, ~eraseTorn PROVE Narrowed'
    <3>1. high < FlashSize - 1 => WindowBlank(high + 1)
      BY <1>0, <1>1, <2>5 DEF IInv, LogInv, Narrowed
    <3>2. ~WindowBlank(range[1] - 1)'
      <4>1. range'[1] - 1 = middle
        BY <1>3, <2>1
      <4> QED
        BY <1>1, <1>6, <4>1 DEF WindowBlank
    <3>3. range'[2] < FlashSize - 1 => WindowBlank(range[2] + 1)'
      BY <1>1, <2>2, <3>1 DEF WindowBlank
    <3> QED
      BY <3>2, <3>3 DEF Narrowed
  <2>6. TypeOK'
    BY <1>1, <1>2, <2>2, <2>3 DEF IInv, TypeOK
  <2> QED
    BY <2>5, <2>6, <1>1, <1>4
       DEF IInv, OnChip, LogInv, Gapless, InLog, WindowBlank, EndIsKnown, RecordsIntact,
           CalibrationKept, Restored
<1> QED
  BY <1>5, <1>6

\* Where the range is empty the log ends.
LEMMA Found ==
    ASSUME IInv, Start, ~overflowed, ~eraseTorn, NEW low, low = range[1]
    PROVE  /\ \A a \in low..(FlashSize - 1) : flash[a] = Blank
           /\ low > LogStart => flash[low - 1] # Blank
<1>1. ~Started /\ range[1] \in LogStart..FlashSize /\ range[2] \in (LogStart - 1)..(FlashSize - 1)
      /\ ~(range[1] <= range[2]) /\ range[1] <= range[2] + 1
  BY DEF Start, Searching, IInv, TypeOK
<1>2. low \in LogStart..FlashSize /\ range[2] + 1 = low
  BY <1>1, Layout
<1>3. /\ low > LogStart => ~WindowBlank(low - 1)
      /\ low < FlashSize => WindowBlank(low)
  <2>1. range[2] < FlashSize - 1 <=> low < FlashSize
    BY <1>1, <1>2, Layout
  <2> QED
    BY <1>1, <1>2, <2>1 DEF IInv, LogInv, Narrowed
<1>4. \A a \in low..(FlashSize - 1) : flash[a] = Blank
  <2> SUFFICES ASSUME NEW a \in low..(FlashSize - 1), flash[a] # Blank PROVE FALSE
    OBVIOUS
  <2>1. /\ low < FlashSize /\ low <= a
        /\ low \in LogStart..(FlashSize - 1) /\ a \in LogStart..(FlashSize - 1)
    BY <1>2, Layout
  <2> QED
    BY <1>3, <2>1 DEF IInv, LogInv, Gapless
<1>5. ASSUME low > LogStart PROVE flash[low - 1] # Blank
  <2> DEFINE c == low - 1
  <2>1. c \in LogStart..(FlashSize - 1)
    BY <1>2, <1>5, Layout
  <2>2. PICK i \in 0..(Window - 1) : flash[(c + i) % FlashSize] # Blank
    BY <1>3, <1>5 DEF WindowBlank
  <2> HIDE DEF c
  <2>3. /\ c + i < FlashSize => (c + i) % FlashSize = c + i
        /\ c + i >= FlashSize => (c + i) % FlashSize \in 0..(SectorSize - 1)
    BY <2>1, WindowAt DEF IInv
  <2>4. \A a \in 0..(SectorSize - 1) : flash[a] = Blank
    BY DEF IInv, OnChip
  <2>5. c + i < FlashSize /\ flash[c + i] # Blank
    BY <2>1, <2>2, <2>3, <2>4, Layout
  <2>6. c + i \notin low..(FlashSize - 1)
    BY <1>4, <2>5
  <2>7. i = 0 /\ c + 0 = c
    BY <1>2, <2>1, <2>5, <2>6, Layout DEF c
  <2> QED
    BY <2>5, <2>7 DEF c
<1> QED
  BY <1>4, <1>5

LEMMA StartStep ==
    ASSUME IInv, Start
    PROVE  IInv'
<1>1. /\ ~Started /\ log_size' = range[1] - LogStart /\ range' = <<>>
      /\ mag_x_offset' = Restored
      /\ UNCHANGED <<flash, records, savedOffset, overflowed, eraseTorn>>
  BY DEF Start, hist
<1> DEFINE low == range[1]
<1>2. low \in LogStart..FlashSize
  BY <1>1 DEF IInv, TypeOK
<1>3. log_size' \in Nat /\ log_size' <= Capacity /\ NextAddress' = low
      /\ (log_size' > 0 => low > LogStart)
  BY <1>1, <1>2, Layout DEF NextAddress, LogStart
<1>4. Started'
  BY <1>1 DEF Started
<1>5. TypeOK'
  <2>1. Restored \in Byte
    BY RestoredType DEF IInv
  <2> QED
    BY <1>1, <1>3, <1>4, <2>1 DEF IInv, TypeOK
<1>6. OnChip'
  BY <1>1, <1>3 DEF IInv, OnChip, Capacity
<1>7. LogInv'
  BY <1>1, <1>4 DEF IInv, LogInv, Gapless, Narrowed, InLog, WindowBlank
<1>8. EndIsKnown'
  <2> SUFFICES ASSUME ~overflowed, ~eraseTorn
               PROVE  /\ \A a \in low..(FlashSize - 1) : flash[a] = Blank
                      /\ low > LogStart => \E a \in LogStart..(low - 1) :
                                              flash[a] # Blank /\ a >= low - Window
    BY <1>1, <1>3 DEF EndIsKnown
  <2>1. /\ \A a \in low..(FlashSize - 1) : flash[a] = Blank
        /\ low > LogStart => flash[low - 1] # Blank
    BY Found
  <2>2. low > LogStart => low - 1 \in LogStart..(low - 1) /\ low - 1 >= low - Window
    BY <1>2, Layout
  <2> QED
    BY <2>1, <2>2
<1>9. RecordsIntact' /\ CalibrationKept'
  BY <1>1 DEF IInv, RecordsIntact, CalibrationKept, Restored
<1> QED
  BY <1>5, <1>6, <1>7, <1>8, <1>9 DEF IInv
-----------------------------------------------------------------------------
(* The log *)

\* Programming keeps the bytes of the chip bytes, also past its end.
LEMMA LogType ==
    ASSUME TypeOK, NEW r \in Records, NEW n \in 1..Len(r)
    PROVE  /\ Programmed(flash, NextAddress, r) \in [Cells -> Byte]
           /\ Programmed(flash, NextAddress, SubSeq(r, 1, n)) \in [Cells -> Byte]
<1>1. flash \in [Cells -> Byte]
  BY DEF TypeOK
<1>2. PICK m \in 1..15 : m = Len(r) /\ RecordLike(r, m)
  BY RecordShape DEF RecordLike
<1>3. \A i \in 1..Len(r) : r[i] \in Byte
  BY <1>2, Zenon DEF RecordLike
<1>4. RecordLike(SubSeq(r, 1, n), n)
  BY <1>2, PrefixShape
<1>5. \A i \in 1..Len(SubSeq(r, 1, n)) : SubSeq(r, 1, n)[i] \in Byte
  BY <1>4, Zenon DEF RecordLike
<1> QED
  BY <1>1, <1>3, <1>5, ProgrammedType

\* The records stay where they are, and the new one stands behind them.
LEMMA LogRecords ==
    ASSUME TypeOK, EndIsKnown, InLog, RecordsIntact, Started, ~overflowed, ~eraseTorn,
           NEW b, NEW m \in 1..15, RecordLike(b, m),
           log_size + m <= Capacity, flash' = Programmed(flash, NextAddress, b)
    PROVE  /\ \A r \in records : \A i \in 1..Len(r.bytes) :
                 r.bytes[i] # Blank => flash'[r.at + i - 1] = r.bytes[i]
           /\ \A i \in 1..m : flash'[NextAddress + i - 1] = b[i]
<1>1. /\ \A i \in 1..m : flash'[NextAddress + i - 1] = b[i]
      /\ \A a \in Cells : flash[a] # Blank => flash'[a] = flash[a]
  BY WriteLog
<1>2. ASSUME NEW r \in records, NEW i \in 1..Len(r.bytes), r.bytes[i] # Blank
      PROVE  flash'[r.at + i - 1] = r.bytes[i]
  <2>1. flash[r.at + i - 1] = r.bytes[i]
    BY <1>2 DEF RecordsIntact
  <2>2. r.bytes \in Records /\ r.at \in Nat
    BY <1>2 DEF TypeOK
  <2>3. PICK n \in 1..15 : n = Len(r.bytes)
    BY <2>2, RecordShape DEF RecordLike
  <2>4. r.at + n <= FlashSize /\ i \in 1..n
    BY <1>2, <2>3 DEF InLog
  <2> HIDE <2>3
  <2>5. r.at + i - 1 \in Cells
    BY <2>2, <2>4, Layout DEF Cells
  <2> QED
    BY <1>1, <1>2, <2>1, <2>5
<1> QED
  BY <1>1, <1>2

LEMMA LogStep ==
    ASSUME IInv, Started, Log
    PROVE  IInv'
<1>1. PICK l \in Loggable :
         /\ WriteRecord(l[1])
         /\ UNCHANGED <<range, mag_x_offset, savedOffset, eraseTorn>>
  BY DEF Log
<1> DEFINE r == l[1]
<1>2. r \in Records
  BY DEF Loggable, Records
<1>3. PICK m \in 1..15 : m = Len(r) /\ RecordLike(r, m)
  BY <1>2, RecordShape DEF RecordLike
<1>4. /\ flash' = Programmed(flash, NextAddress, r) /\ log_size' = log_size + m
      /\ records' = records \cup {[at |-> NextAddress, bytes |-> r]}
      /\ overflowed' = (overflowed \/ log_size + m > Capacity)
  BY <1>1, <1>3 DEF WriteRecord
<1>5. \E k \in 0..3 : k < m /\ r[m - k] # Blank
  BY <1>2, <1>3, RecordShape
<1>6. TypeOK /\ log_size \in Nat /\ log_size' \in Nat /\ NextAddress \in Nat /\ Started'
  BY <1>1, <1>4, Layout DEF IInv, TypeOK, Started, NextAddress
<1> HIDE DEF r
<1>7. TypeOK'
  <2>1. flash' \in [Cells -> Byte]
    <3>1. 1 \in 1..Len(r)
      BY <1>3
    <3> QED
      BY <1>2, <1>4, <1>6, <3>1, LogType
  <2>2. records' \subseteq [at : Nat, bytes : Records]
    BY <1>2, <1>4, <1>6 DEF TypeOK
  <2>3. overflowed' \in BOOLEAN
    BY <1>4, <1>6 DEF TypeOK
  <2> QED
    BY <1>1, <1>6, <2>1, <2>2, <2>3 DEF TypeOK
<1>8. CASE overflowed'
  BY <1>7, <1>8 DEF IInv, OnChip, LogInv, EndIsKnown, RecordsIntact, CalibrationKept
<1>9. CASE ~overflowed'
  <2>1. ~overflowed /\ log_size + m <= Capacity
    <3>1. ~overflowed /\ ~(log_size + m > Capacity)
      BY <1>4, <1>9, Zenon
    <3> QED
      BY <1>6, <3>1, Layout
  <2>2. \A a \in 0..(LogStart - 1) : flash'[a] = flash[a]
    BY <1>3, <1>4, <2>1, WriteBelow DEF IInv
  <2>3. Restored' = Restored /\ \A a \in 0..(SectorSize - 1) : flash'[a] = flash[a]
    BY <2>2, SameBelow
  <2>4. OnChip'
    BY <1>4, <2>1, <2>3 DEF IInv, OnChip, Capacity, LogStart
  <2>5. CalibrationKept'
    BY <1>1, <2>1, <2>3 DEF IInv, CalibrationKept
  <2>6. CASE eraseTorn
    BY <1>1, <1>7, <2>4, <2>5, <2>6 DEF IInv, LogInv, EndIsKnown, RecordsIntact
  <2>7. CASE ~eraseTorn
    <3>1. Gapless /\ InLog /\ EndIsKnown /\ RecordsIntact /\ CalibrationKept
      BY <2>1, <2>7 DEF IInv, LogInv
    <3>2. Gapless'
      BY <1>3, <1>4, <1>6, <2>1, <2>7, <3>1, WriteGapless
    <3>3. Narrowed'
      BY <1>6 DEF Narrowed
    <3>4. /\ NextAddress + m <= FlashSize /\ LogStart <= NextAddress
          /\ NextAddress' = NextAddress + m /\ LogStart \in Nat
      BY <1>4, <1>6, <2>1, Room, Layout DEF NextAddress
    <3>5. InLog'
      <4>1. ASSUME NEW x \in records' PROVE LogStart <= x.at /\ x.at + Len(x.bytes) <= FlashSize
        <5>1. CASE x \in records
          BY <3>1, <5>1 DEF InLog
        <5>2. CASE x = [at |-> NextAddress, bytes |-> r]
          <6>1. x.at = NextAddress /\ Len(x.bytes) = m
            BY <1>3, <5>2
          <6> QED
            BY <3>4, <6>1
        <5> QED
          BY <1>4, <5>1, <5>2
      <4> QED
        BY <4>1 DEF InLog
    <3>6. /\ \A x \in records : \A i \in 1..Len(x.bytes) :
                x.bytes[i] # Blank => flash'[x.at + i - 1] = x.bytes[i]
          /\ \A i \in 1..m : flash'[NextAddress + i - 1] = r[i]
      BY <1>3, <1>4, <1>6, <2>1, <2>7, <3>1, LogRecords
    <3>7. RecordsIntact'
      <4>1. ASSUME NEW x \in records', NEW i \in 1..Len(x.bytes), x.bytes[i] # Blank
            PROVE  flash'[x.at + i - 1] = x.bytes[i]
        <5>1. CASE x \in records
          BY <3>6, <4>1, <5>1
        <5>2. CASE x = [at |-> NextAddress, bytes |-> r]
          <6>1. x.at = NextAddress /\ x.bytes = r /\ i \in 1..m
            BY <1>3, <4>1, <5>2
          <6> QED
            BY <3>6, <6>1
        <5> QED
          BY <1>4, <5>1, <5>2
      <4> QED
        BY <4>1 DEF RecordsIntact
    <3>8. EndIsKnown'
      <4>1. \A a \in (NextAddress + m)..(FlashSize - 1) : flash'[a] = Blank
        BY <1>3, <1>4, <1>6, <2>1, <2>7, <3>1, WriteLog
      <4>2. PICK k \in 0..3 : k < m /\ r[m - k] # Blank
        BY <1>5
      <4>3. PICK e : e = NextAddress + (m - k) - 1
        OBVIOUS
      <4>4. /\ m - k \in 1..m
            /\ e \in LogStart..(NextAddress + m - 1)
            /\ e >= NextAddress + m - Window
            /\ flash'[e] # Blank
        <5>1. m - k \in 1..m
          BY <4>2
        <5>2. flash'[e] # Blank
          BY <3>6, <4>2, <4>3, <5>1
        <5> QED
          BY <1>6, <3>4, <4>2, <4>3, <5>1, <5>2, Layout
      <4>5. /\ \A a \in NextAddress'..(FlashSize - 1) : flash'[a] = Blank
            /\ e \in LogStart..(NextAddress' - 1) /\ e >= NextAddress' - Window
        <5>1. NextAddress' = NextAddress + m
          BY <3>4
        <5>2. \A a \in NextAddress'..(FlashSize - 1) : flash'[a] = Blank
          BY <4>1, <5>1, Zenon
        <5>3. e \in LogStart..(NextAddress' - 1)
          BY <1>6, <4>4, <5>1, Layout
        <5>4. e >= NextAddress' - Window
          BY <1>6, <4>4, <5>1, Layout
        <5> QED
          BY <5>2, <5>3, <5>4
      <4>6. log_size' > 0 => \E a \in LogStart..(NextAddress' - 1) :
                                flash'[a] # Blank /\ a >= NextAddress' - Window
        BY <4>4, <4>5, Zenon
      <4> QED
        BY <4>5, <4>6, Zenon DEF EndIsKnown, Blank
    <3> QED
      BY <1>7, <2>4, <2>5, <3>2, <3>3, <3>5, <3>7, <3>8 DEF IInv, LogInv
  <2> QED
    BY <1>6, <2>6, <2>7
<1> QED
  BY <1>8, <1>9

LEMMA LogTornStep ==
    ASSUME IInv, Started, LogTorn
    PROVE  IInv'
<1>1. PICK l \in Loggable : \E n \in 1..(Len(l[1]) - 1) :
         /\ PowerFails(Programmed(flash, NextAddress, SubSeq(l[1], 1, n)))
         /\ overflowed' = (overflowed \/ log_size + n > Capacity)
         /\ UNCHANGED <<records, savedOffset, eraseTorn>>
  BY DEF LogTorn
<1>2. PICK r \in Records : r = l[1]
  BY DEF Loggable, Records
<1>3. PICK m \in 1..15 : m = Len(r) /\ RecordLike(r, m)
  BY <1>2, RecordShape DEF RecordLike
<1>4. PICK n \in 1..(m - 1) :
         /\ PowerFails(Programmed(flash, NextAddress, SubSeq(r, 1, n)))
         /\ overflowed' = (overflowed \/ log_size + n > Capacity)
         /\ UNCHANGED <<records, savedOffset, eraseTorn>>
  BY <1>1, <1>2, <1>3
<1>5. n \in 1..15 /\ n \in 1..m
  OBVIOUS
<1> DEFINE b == SubSeq(r, 1, n)
<1>6. RecordLike(b, n)
  BY <1>3, <1>5, PrefixShape
<1>7. TypeOK /\ log_size \in Nat
  BY DEF IInv, TypeOK
<1>8. Programmed(flash, NextAddress, b) \in [Cells -> Byte]
  <2>1. n \in 1..Len(r)
    BY <1>3, <1>5
  <2> QED
    BY <1>7, <2>1, LogType
<1> HIDE DEF b
<1>9. /\ TypeOK' /\ Narrowed' /\ EndIsKnown' /\ log_size' = 0
      /\ flash' = Programmed(flash, NextAddress, b)
  <2>1. savedOffset' \in Byte /\ overflowed' \in BOOLEAN /\ eraseTorn' \in BOOLEAN
        /\ records' \in {records, {}} /\ PowerFails(Programmed(flash, NextAddress, b))
    BY <1>4, <1>7 DEF TypeOK, b
  <2> QED
    BY <1>7, <1>8, <2>1, Failed
<1>10. CASE overflowed'
  BY <1>9, <1>10 DEF IInv, OnChip, LogInv, EndIsKnown, RecordsIntact, CalibrationKept
<1>11. CASE ~overflowed'
  <2>1. ~overflowed /\ log_size + n <= Capacity
    <3>1. ~overflowed /\ ~(log_size + n > Capacity)
      BY <1>4, <1>11, Zenon
    <3> QED
      BY <1>7, <3>1, Layout
  <2>2. \A a \in 0..(LogStart - 1) : flash'[a] = flash[a]
    BY <1>5, <1>6, <1>9, <2>1, WriteBelow DEF IInv
  <2>3. Restored' = Restored /\ \A a \in 0..(SectorSize - 1) : flash'[a] = flash[a]
    BY <2>2, SameBelow
  <2>4. OnChip'
    BY <1>9, <2>1, <2>3, Layout DEF IInv, OnChip
  <2>5. CalibrationKept'
    BY <1>4, <2>1, <2>3 DEF IInv, CalibrationKept
  <2>6. CASE eraseTorn
    BY <1>4, <1>9, <2>4, <2>5, <2>6 DEF IInv, LogInv, RecordsIntact
  <2>7. CASE ~eraseTorn
    <3>1. Gapless /\ InLog /\ EndIsKnown /\ RecordsIntact /\ CalibrationKept
      BY <2>1, <2>7 DEF IInv, LogInv
    <3>2. Gapless'
      BY <1>5, <1>6, <1>7, <1>9, <2>1, <2>7, <3>1, WriteGapless
    <3>3. InLog'
      BY <1>4, <3>1 DEF InLog
    <3>4. RecordsIntact'
      <4>1. \A r1 \in records : \A i \in 1..Len(r1.bytes) :
                r1.bytes[i] # Blank => flash'[r1.at + i - 1] = r1.bytes[i]
        BY <1>5, <1>6, <1>7, <1>9, <2>1, <2>7, <3>1, LogRecords
      <4> QED
        BY <1>4, <4>1 DEF RecordsIntact
    <3> QED
      BY <1>9, <2>4, <2>5, <3>2, <3>3, <3>4 DEF IInv, LogInv
  <2> QED
    BY <1>7, <2>6, <2>7 DEF TypeOK
<1> QED
  BY <1>10, <1>11
-----------------------------------------------------------------------------
(* Erasing the log *)

\* Erasing sectors of the log leaves what is in front of it.
LEMMA ErasedBelow ==
    ASSUME NEW f \in [Cells -> Byte], NEW starts \in SUBSET (LogStart..(FlashSize - 1)),
           NEW a \in 0..(LogStart - 1)
    PROVE  Erased(f, starts)[a] = f[a]
<1>1. a \in Cells
  BY Layout DEF Cells
<1>2. ASSUME NEW s \in starts PROVE a - (s % FlashSize) \notin 0..(SectorSize - 1)
  <2>1. s \in 0..(FlashSize - 1) /\ s \in Nat /\ s >= LogStart
    BY Layout
  <2>2. s % FlashSize = s
    BY <2>1, ModSmall, Layout
  <2> QED
    BY <2>1, <2>2, Layout
<1> QED
  BY <1>1, <1>2 DEF Erased

LEMMA LogSectorsOnChip ==
    ASSUME log_size \in Nat, log_size <= Capacity
    PROVE  LogSectors \in SUBSET (LogStart..(FlashSize - 1))
<1> SUFFICES ASSUME NEW k \in 0..log_size, k * SectorSize < log_size
             PROVE  LogStart + k * SectorSize \in LogStart..(FlashSize - 1)
  BY DEF LogSectors
<1>1. k * SectorSize \in Nat
  BY Layout
<1> QED
  BY <1>1, Layout

\* Every address of the log is in one of its sectors.
LEMMA ErasedLog ==
    ASSUME TypeOK, OnChip, ~overflowed, ~eraseTorn, Started, EndIsKnown
    PROVE  \A a \in LogStart..(FlashSize - 1) : Erased(flash, LogSectors)[a] = Blank
<1> SUFFICES ASSUME NEW a \in LogStart..(FlashSize - 1)
             PROVE  Erased(flash, LogSectors)[a] = Blank
  OBVIOUS
<1>1. a \in Cells /\ log_size \in Nat /\ log_size <= Capacity
  BY Layout DEF Cells, TypeOK, OnChip
<1>2. PICK x \in Nat : x = a - LogStart
  BY Layout
<1>3. PICK k \in 0..x : k * SectorSize <= x /\ x < k * SectorSize + SectorSize
  <2>1. SectorSize \in Nat \ {0}
    BY Layout
  <2>2. /\ x \div SectorSize \in 0..x
        /\ (x \div SectorSize) * SectorSize <= x
        /\ x < (x \div SectorSize) * SectorSize + SectorSize
    BY <2>1, Sector
  <2> QED
    BY <2>2, Zenon
<1>4. k * SectorSize \in Nat
  BY Layout
<1>5. CASE k * SectorSize < log_size
  <2>1. PICK s : s = LogStart + k * SectorSize
    OBVIOUS
  <2>2. k \in 0..log_size
    <3>1. k <= k * SectorSize
      BY Layout
    <3> QED
      BY <1>1, <1>4, <1>5, <3>1
  <2>3. s \in LogSectors
    BY <1>5, <2>1, <2>2 DEF LogSectors
  <2>4. s % FlashSize = s
    <3>1. s \in LogStart..(FlashSize - 1)
      BY <1>1, <2>3, LogSectorsOnChip
    <3>2. s \in 0..(FlashSize - 1)
      BY <3>1, Layout
    <3> QED
      BY <3>2, ModSmall, Layout
  <2>5. a - s \in 0..(SectorSize - 1)
    BY <1>2, <1>3, <1>4, <2>1, Layout
  <2> QED
    BY <1>1, <2>3, <2>4, <2>5 DEF Erased
<1>6. CASE ~(k * SectorSize < log_size)
  <2>1. a \in NextAddress..(FlashSize - 1)
    BY <1>1, <1>2, <1>3, <1>4, <1>6, Layout DEF NextAddress
  <2>2. flash[a] = Blank
    BY <2>1 DEF EndIsKnown
  <2> QED
    BY <1>1, <2>2 DEF Erased
<1> QED
  BY <1>5, <1>6

LEMMA EraseLogStep ==
    ASSUME IInv, Started, EraseLog
    PROVE  IInv'
<1>1. /\ flash' = Erased(flash, LogSectors) /\ log_size' = 0 /\ records' = {}
      /\ UNCHANGED <<range, mag_x_offset, savedOffset, overflowed, eraseTorn>>
  BY DEF EraseLog
<1>2. TypeOK /\ flash \in [Cells -> Byte] /\ log_size \in Nat
  BY DEF IInv, TypeOK
<1>3. Started'
  BY <1>1 DEF Started
<1>4. TypeOK'
  BY <1>1, <1>2, <1>3, ErasedType DEF TypeOK
<1>5. CASE overflowed
  BY <1>1, <1>4, <1>5 DEF IInv, OnChip, LogInv, EndIsKnown, RecordsIntact, CalibrationKept
<1>6. CASE ~overflowed
  <2>1. log_size <= Capacity
    BY <1>6 DEF IInv, OnChip
  <2>2. \A a \in 0..(LogStart - 1) : flash'[a] = flash[a]
    BY <1>1, <1>2, <2>1, LogSectorsOnChip, ErasedBelow
  <2>3. Restored' = Restored /\ \A a \in 0..(SectorSize - 1) : flash'[a] = flash[a]
    BY <2>2, SameBelow
  <2>4. OnChip'
    BY <1>1, <1>6, <2>3, Layout DEF IInv, OnChip
  <2>5. CalibrationKept'
    BY <1>1, <1>6, <2>3 DEF IInv, CalibrationKept
  <2>6. RecordsIntact'
    BY <1>1 DEF RecordsIntact
  <2>7. CASE eraseTorn
    BY <1>1, <1>4, <2>4, <2>5, <2>6, <2>7 DEF IInv, LogInv, EndIsKnown
  <2>8. CASE ~eraseTorn
    <3>1. \A a \in LogStart..(FlashSize - 1) : flash'[a] = Blank
      BY <1>1, <1>2, <1>6, <2>8, ErasedLog DEF IInv
    <3>2. Gapless' /\ Narrowed' /\ InLog'
      BY <1>1, <1>3, <3>1 DEF Gapless, Narrowed, InLog
    <3>3. EndIsKnown'
      <4>1. NextAddress' = LogStart
        BY <1>1, Layout DEF NextAddress, LogStart
      <4>2. ~(log_size' > 0)
        BY <1>1
      <4> QED
        BY <3>1, <4>1, <4>2, Zenon DEF EndIsKnown, Blank
    <3> QED
      BY <1>4, <2>4, <2>5, <2>6, <3>2, <3>3 DEF IInv, LogInv
  <2> QED
    BY <1>2, <2>7, <2>8 DEF TypeOK
<1> QED
  BY <1>2, <1>5, <1>6 DEF TypeOK

LEMMA EraseLogTornStep ==
    ASSUME IInv, Started, EraseLogTorn
    PROVE  IInv'
<1>1. PICK n : /\ PowerFails(Erased(flash, {s \in LogSectors : s < LogStart + n * SectorSize}))
               /\ records' = {} /\ eraseTorn' = TRUE
               /\ UNCHANGED <<savedOffset, overflowed>>
  BY DEF EraseLogTorn
<1>2. PICK starts \in SUBSET LogSectors : PowerFails(Erased(flash, starts))
  BY <1>1
<1>3. TypeOK /\ flash \in [Cells -> Byte] /\ log_size \in Nat /\ savedOffset \in Byte
      /\ overflowed \in BOOLEAN
  BY DEF IInv, TypeOK
<1>4. /\ TypeOK' /\ Narrowed' /\ EndIsKnown' /\ log_size' = 0
      /\ flash' = Erased(flash, starts)
  BY <1>1, <1>2, <1>3, ErasedType, Failed
<1>5. CASE overflowed
  BY <1>1, <1>4, <1>5 DEF IInv, OnChip, LogInv, RecordsIntact, CalibrationKept
<1>6. CASE ~overflowed
  <2>1. log_size <= Capacity
    BY <1>6 DEF IInv, OnChip
  <2>2. starts \in SUBSET (LogStart..(FlashSize - 1))
    BY <1>3, <2>1, LogSectorsOnChip
  <2>3. \A a \in 0..(LogStart - 1) : flash'[a] = flash[a]
    BY <1>3, <1>4, <2>2, ErasedBelow
  <2>4. Restored' = Restored /\ \A a \in 0..(SectorSize - 1) : flash'[a] = flash[a]
    BY <2>3, SameBelow
  <2>5. OnChip'
    BY <1>1, <1>4, <1>6, <2>4, Layout DEF IInv, OnChip
  <2>6. CalibrationKept'
    BY <1>1, <1>6, <2>4 DEF IInv, CalibrationKept
  <2> QED
    BY <1>1, <1>4, <2>5, <2>6 DEF IInv, LogInv, RecordsIntact
<1> QED
  BY <1>3, <1>5, <1>6

-----------------------------------------------------------------------------
(* Saving the calibration *)

\* The first m bytes of an image.
ImageLike(b, m) == Len(b) = m /\ \A i \in 1..m : b[i] \in Byte

\* The sector of the calibration after an erase and m bytes of the image.
LEMMA CalibrationWritten ==
    ASSUME TypeOK, NEW b, NEW m \in 0..2, ImageLike(b, m),
           flash' = Programmed(Erased(flash, {CalStart}), CalStart, b)
    PROVE  /\ flash' \in [Cells -> Byte]
           /\ \A a \in Cells \ (CalStart..(LogStart - 1)) : flash'[a] = flash[a]
           /\ m >= 1 => flash'[CalStart] = b[1]
           /\ flash'[CalStart + 1] = IF m = 2 THEN b[2] ELSE Blank
<1>1. PICK g : g = Erased(flash, {CalStart})
  OBVIOUS
<1>2. flash \in [Cells -> Byte] /\ g \in [Cells -> Byte]
  BY <1>1, ErasedType DEF TypeOK
<1>3. /\ CalStart \in Nat /\ CalStart + m <= FlashSize /\ CalStart % FlashSize = CalStart
      /\ CalStart \in Cells /\ CalStart + 1 \in Cells
  <2>1. CalStart \in 0..(FlashSize - 1)
    BY Layout
  <2>2. CalStart % FlashSize = CalStart
    BY <2>1, ModSmall, Layout
  <2> QED
    BY <2>1, <2>2, Layout DEF Cells
<1>4. \A a \in Cells : g[a] = IF a - CalStart \in 0..(SectorSize - 1) THEN Blank ELSE flash[a]
  BY <1>1, <1>3 DEF Erased
<1>5. \A a \in Cells : flash'[a] = IF a \in CalStart..(CalStart + m - 1)
                              THEN Cleared(g[a], b[a - CalStart + 1]) ELSE g[a]
  <2>1. \A a \in Cells : Programmed(g, CalStart, b)[a] =
           IF a \in CalStart..(CalStart + m - 1)
           THEN Cleared(g[a], b[a - CalStart + 1]) ELSE g[a]
    <3>1. m \in Nat /\ Len(b) = m
      BY DEF ImageLike
    <3>2. g \in [Cells -> Byte] /\ CalStart \in Nat /\ CalStart + m <= FlashSize
      BY <1>2, <1>3
    <3> QED
      BY <3>1, <3>2, ProgrammedAt
  <2> QED
    BY <1>1, <2>1
<1>6. flash' \in [Cells -> Byte]
  <2>1. \A i \in 1..Len(b) : b[i] \in Byte
    BY Zenon DEF ImageLike
  <2> QED
    BY <1>1, <1>2, <2>1, ProgrammedType
<1>7. ASSUME NEW a \in Cells \ (CalStart..(LogStart - 1)) PROVE flash'[a] = flash[a]
  <2>1. a \notin CalStart..(CalStart + m - 1) /\ a - CalStart \notin 0..(SectorSize - 1)
    BY Layout DEF Cells
  <2> QED
    BY <1>4, <1>5, <2>1
<1>8. g[CalStart] = Blank /\ g[CalStart + 1] = Blank
  <2>1. CalStart - CalStart \in 0..(SectorSize - 1) /\ CalStart + 1 - CalStart \in 0..(SectorSize - 1)
    BY <1>3, Layout
  <2> QED
    BY <1>3, <1>4, <2>1
<1>9. ASSUME m >= 1 PROVE flash'[CalStart] = b[1]
  <2>1. CalStart \in CalStart..(CalStart + m - 1) /\ CalStart - CalStart + 1 = 1
    BY <1>3, <1>9
  <2>2. flash'[CalStart] = Cleared(Blank, b[1])
    BY <1>3, <1>5, <1>8, <2>1
  <2> QED
    BY <2>2 DEF Cleared
<1>10. flash'[CalStart + 1] = IF m = 2 THEN b[2] ELSE Blank
  <2>1. CASE m = 2
    <3>1. CalStart + 1 \in CalStart..(CalStart + m - 1) /\ CalStart + 1 - CalStart + 1 = 2
      BY <1>3, <2>1
    <3>2. flash'[CalStart + 1] = Cleared(g[CalStart + 1], b[2])
      <4>1. PICK c \in Cells : c = CalStart + 1
        BY <1>3
      <4>2. c \in CalStart..(CalStart + m - 1) /\ c - CalStart + 1 = 2
        BY <1>3, <3>1, <4>1
      <4>3. flash'[c] = Cleared(g[c], b[c - CalStart + 1])
        BY <1>5, <4>2
      <4> QED
        BY <4>1, <4>2, <4>3, Zenon
    <3> QED
      BY <1>8, <2>1, <3>2 DEF Cleared
  <2>2. CASE m # 2
    <3>1. CalStart + 1 \notin CalStart..(CalStart + m - 1)
      BY <1>3, <2>2
    <3> QED
      BY <1>3, <1>5, <1>8, <2>2, <3>1
  <2> QED
    BY <2>1, <2>2
<1> QED
  BY <1>6, <1>7, <1>9, <1>10

\* The log does not notice that the calibration was written.
LEMMA LogUntouched ==
    ASSUME IInv, \A a \in Cells \ (CalStart..(LogStart - 1)) : flash'[a] = flash[a],
           UNCHANGED <<records, overflowed, eraseTorn>>
    PROVE  /\ ~overflowed => \A a \in 0..(SectorSize - 1) : flash'[a] = Blank
           /\ ~overflowed /\ ~eraseTorn => Gapless' /\ InLog'
           /\ RecordsIntact'
           /\ \A a \in LogStart..(FlashSize - 1) : flash'[a] = flash[a]
<1>1. /\ \A a \in LogStart..(FlashSize - 1) : flash'[a] = flash[a]
      /\ \A a \in 0..(SectorSize - 1) : flash'[a] = flash[a]
  <2>1. \A a \in LogStart..(FlashSize - 1) : a \in Cells \ (CalStart..(LogStart - 1))
    BY Layout DEF Cells
  <2>2. \A a \in 0..(SectorSize - 1) : a \in Cells \ (CalStart..(LogStart - 1))
    BY Layout DEF Cells
  <2> QED
    BY <2>1, <2>2
<1>2. ~overflowed => \A a \in 0..(SectorSize - 1) : flash'[a] = Blank
  BY <1>1 DEF IInv, OnChip
<1>3. ASSUME ~overflowed, ~eraseTorn PROVE Gapless' /\ InLog'
  <2>1. Gapless /\ InLog /\ TypeOK
    BY <1>3 DEF IInv, LogInv
  <2>2. Gapless'
    BY <1>1, <2>1, SameLog
  <2>3. InLog'
    BY <2>1 DEF InLog
  <2> QED
    BY <2>2, <2>3
<1>4. ASSUME ~overflowed, ~eraseTorn, NEW r \in records, NEW i \in 1..Len(r.bytes),
             r.bytes[i] # Blank
      PROVE  flash'[r.at + i - 1] = r.bytes[i]
  <2>1. InLog /\ r.bytes \in Records /\ r.at \in Nat
    BY <1>4 DEF IInv, LogInv, TypeOK
  <2>2. flash[r.at + i - 1] = r.bytes[i]
    BY <1>4 DEF IInv, RecordsIntact
  <2>3. PICK n \in 1..15 : n = Len(r.bytes)
    BY <2>1, RecordShape DEF RecordLike
  <2>4. LogStart <= r.at /\ r.at + n <= FlashSize /\ i \in 1..n
    BY <1>4, <2>1, <2>3 DEF InLog
  <2> HIDE <2>3
  <2>5. r.at + i - 1 \in LogStart..(FlashSize - 1)
    BY <2>1, <2>4, Layout
  <2> QED
    BY <1>1, <2>2, <2>5
<1>5. RecordsIntact'
  BY <1>4 DEF RecordsIntact
<1> QED
  BY <1>1, <1>2, <1>3, <1>5

LEMMA SaveCalibrationStep ==
    ASSUME IInv, Started, SaveCalibration
    PROVE  IInv'
<1>1. /\ flash' = Programmed(Erased(flash, {CalStart}), CalStart, Image)
      /\ savedOffset' = mag_x_offset
      /\ UNCHANGED <<log_size, range, mag_x_offset, records, overflowed, eraseTorn>>
  BY DEF SaveCalibration
<1>2. TypeOK /\ mag_x_offset \in Byte /\ 0 \in Byte
  BY DEF IInv, TypeOK, Byte
<1>3. /\ Len(Image) = 2 /\ Image[1] = mag_x_offset /\ Image[2] = 0
      /\ \A i \in 1..2 : Image[i] \in Byte
  BY <1>2 DEF Image
<1>4. /\ flash' \in [Cells -> Byte]
      /\ \A a \in Cells \ (CalStart..(LogStart - 1)) : flash'[a] = flash[a]
      /\ flash'[CalStart] = mag_x_offset
      /\ flash'[CalStart + 1] = 0
  <2>1. PICK m \in 0..2, b \in {Image} : m = 2 /\ b = Image
    OBVIOUS
  <2>2. ImageLike(b, m) /\ b[1] = mag_x_offset /\ b[2] = 0
    BY <1>3, <2>1, Zenon DEF ImageLike
  <2>3. flash' = Programmed(Erased(flash, {CalStart}), CalStart, b)
    BY <1>1, <2>1, Zenon
  <2>4. /\ flash' \in [Cells -> Byte]
        /\ \A a \in Cells \ (CalStart..(LogStart - 1)) : flash'[a] = flash[a]
        /\ m >= 1 => flash'[CalStart] = b[1]
        /\ flash'[CalStart + 1] = IF m = 2 THEN b[2] ELSE Blank
    BY <1>2, <2>2, <2>3, CalibrationWritten
  <2>5. m >= 1
    BY <2>1
  <2> QED
    BY <2>1, <2>2, <2>4, <2>5, Zenon
<1>5. Started'
  BY <1>1 DEF Started
<1>6. TypeOK'
  BY <1>1, <1>2, <1>4, <1>5 DEF TypeOK
<1>7. /\ ~overflowed => \A a \in 0..(SectorSize - 1) : flash'[a] = Blank
      /\ ~overflowed /\ ~eraseTorn => Gapless' /\ InLog'
      /\ RecordsIntact'
      /\ \A a \in LogStart..(FlashSize - 1) : flash'[a] = flash[a]
  BY <1>1, <1>4, LogUntouched
<1>8. OnChip'
  BY <1>1, <1>7 DEF IInv, OnChip, Capacity, LogStart
<1>9. LogInv'
  BY <1>1, <1>5, <1>7 DEF IInv, LogInv, Narrowed
<1>10. EndIsKnown'
  <2> SUFFICES ASSUME ~overflowed, ~eraseTorn
               PROVE  /\ \A a \in NextAddress..(FlashSize - 1) : flash'[a] = Blank
                      /\ log_size > 0 => \E a \in LogStart..(NextAddress - 1) :
                                            flash'[a] # Blank /\ a >= NextAddress - Window
    BY <1>1 DEF EndIsKnown, NextAddress
  <2>1. /\ \A a \in NextAddress..(FlashSize - 1) : flash[a] = Blank
        /\ log_size > 0 => \E a \in LogStart..(NextAddress - 1) :
                              flash[a] # Blank /\ a >= NextAddress - Window
    BY DEF IInv, EndIsKnown
  <2>2. log_size \in Nat /\ log_size <= Capacity
    BY DEF IInv, TypeOK, OnChip
  <2>3. /\ \A a \in NextAddress..(FlashSize - 1) : a \in LogStart..(FlashSize - 1)
        /\ \A a \in LogStart..(NextAddress - 1) : a \in LogStart..(FlashSize - 1)
    BY <2>2, Layout DEF NextAddress
  <2> QED
    BY <1>7, <2>1, <2>3
<1>11. CalibrationKept'
  <2>1. Restored' = mag_x_offset
    BY <1>4, Zenon DEF Restored, CalStart
  <2> QED
    BY <1>1, <2>1 DEF CalibrationKept
<1> QED
  BY <1>6, <1>7, <1>8, <1>9, <1>10, <1>11 DEF IInv

LEMMA SaveTornStep ==
    ASSUME IInv, Started, SaveTorn
    PROVE  IInv'
<1>1. TypeOK /\ mag_x_offset \in Byte /\ 0 \in Byte /\ overflowed \in BOOLEAN
      /\ eraseTorn \in BOOLEAN
  BY DEF IInv, TypeOK, Byte
<1>2. PICK n \in 0..1 :
         PowerFails(Programmed(Erased(flash, {CalStart}), CalStart, SubSeq(Image, 1, n)))
  BY DEF SaveTorn, Image
<1>3. savedOffset' = DefaultOffset /\ UNCHANGED <<records, overflowed, eraseTorn>>
  BY DEF SaveTorn
<1>3a. PICK b : b = SubSeq(Image, 1, n)
  OBVIOUS
<1>4. ImageLike(b, n)
  BY <1>1, <1>3a DEF Image, ImageLike
<1>5. flash' = Programmed(Erased(flash, {CalStart}), CalStart, b)
  BY <1>2, <1>3a DEF PowerFails
<1>6. /\ flash' \in [Cells -> Byte]
      /\ \A a \in Cells \ (CalStart..(LogStart - 1)) : flash'[a] = flash[a]
      /\ flash'[CalStart + 1] = Blank
  <2>1. n \in 0..2 /\ n # 2
    OBVIOUS
  <2>2. /\ flash' \in [Cells -> Byte]
        /\ \A a \in Cells \ (CalStart..(LogStart - 1)) : flash'[a] = flash[a]
        /\ flash'[CalStart + 1] = IF n = 2 THEN b[2] ELSE Blank
    BY <1>1, <1>4, <1>5, <2>1, CalibrationWritten
  <2> QED
    BY <2>1, <2>2
<1>7. TypeOK' /\ Narrowed' /\ EndIsKnown' /\ log_size' = 0
  <2>1. DefaultOffset \in Byte
    BY <1>1, Layout
  <2> QED
    BY <1>1, <1>2, <1>3, <1>3a, <1>5, <1>6, <2>1, Failed
<1>8. /\ ~overflowed => \A a \in 0..(SectorSize - 1) : flash'[a] = Blank
      /\ ~overflowed /\ ~eraseTorn => Gapless' /\ InLog'
      /\ RecordsIntact'
  BY <1>3, <1>6, <1>7, LogUntouched
<1>9. OnChip'
  BY <1>3, <1>7, <1>8, Layout DEF IInv, OnChip
<1>10. LogInv'
  BY <1>3, <1>7, <1>8 DEF LogInv
<1>11. CalibrationKept'
  <2>1. flash'[CalStart + 1] # 0
    BY <1>6, <1>7, Layout
  <2> QED
    BY <1>3, <2>1, Zenon DEF CalibrationKept, Restored, CalStart, DefaultOffset
<1> QED
  BY <1>7, <1>8, <1>9, <1>10, <1>11 DEF IInv

-----------------------------------------------------------------------------
(* The theorems *)

LEMMA IInvInit == Init => IInv
<1> SUFFICES ASSUME Init PROVE IInv
  OBVIOUS
<1>1. /\ flash = [a \in Cells |-> Blank] /\ log_size = 0 /\ range = <<>>
      /\ mag_x_offset = DefaultOffset /\ records = {} /\ savedOffset = DefaultOffset
      /\ overflowed = FALSE /\ eraseTorn = FALSE
  BY DEF Init
<1>2. Started
  BY <1>1 DEF Started
<1>3. TypeOK
  <2>1. DefaultOffset \in Byte /\ Blank \in Byte
    BY Layout DEF Byte
  <2> QED
    <3>1. flash \in [Cells -> Byte]
      BY <1>1, <2>1
    <3> QED
      BY <1>1, <1>2, <2>1, <3>1 DEF TypeOK
<1>4. /\ \A a \in 0..(SectorSize - 1) : flash[a] = Blank
      /\ \A a \in LogStart..(FlashSize - 1) : flash[a] = Blank
      /\ flash[CalStart + 1] = Blank
  BY <1>1, Layout DEF Cells
<1>5. OnChip
  BY <1>1, <1>4, Layout DEF OnChip
<1>6. LogInv
  BY <1>1, <1>2, <1>4 DEF LogInv, Gapless, Narrowed, InLog
<1>7. EndIsKnown
  <2>1. NextAddress = LogStart /\ ~(log_size > 0)
    BY <1>1, Layout DEF NextAddress
  <2> QED
    BY <1>4, <2>1 DEF EndIsKnown
<1>8. RecordsIntact
  BY <1>1 DEF RecordsIntact
<1>9. CalibrationKept
  BY <1>1, <1>4, Layout DEF CalibrationKept, Restored
<1> QED
  BY <1>3, <1>5, <1>6, <1>7, <1>8, <1>9 DEF IInv

LEMMA IInvNext == IInv /\ [Next]_vars => IInv'
<1> SUFFICES ASSUME IInv, [Next]_vars PROVE IInv'
  OBVIOUS
<1>1. TypeOK /\ mag_x_offset \in Byte /\ DefaultOffset \in Byte
  BY Layout DEF IInv, TypeOK, Byte
<1>2. CASE UNCHANGED vars
  BY <1>1, <1>2, Quiet DEF vars, hist
<1>3. CASE Disarm
  BY <1>1, <1>3, Quiet DEF Disarm, hist
<1>4. CASE MagCal
  <2>1. mag_x_offset' \in Byte
    BY <1>1, <1>4, Layout DEF MagCal
  <2> QED
    BY <1>4, <2>1, Quiet DEF MagCal, hist
<1>5. CASE Calibrate
  <2>1. mag_x_offset' \in Byte
    BY <1>5, ConstantsAssumption DEF Calibrate, Byte
  <2> QED
    BY <1>5, <2>1, Quiet DEF Calibrate, hist
<1>6. CASE LoadCalibration
  <2>1. mag_x_offset' \in Byte
    BY <1>1, <1>6, RestoredType DEF LoadCalibration
  <2> QED
    BY <1>6, <2>1, Quiet DEF LoadCalibration, hist
<1>7. CASE ResetCalibration
  <2>1. mag_x_offset' \in Byte
    BY <1>1, <1>7 DEF ResetCalibration
  <2> QED
    BY <1>7, <2>1, Quiet DEF ResetCalibration, hist
<1> QED
  BY <1>2, <1>3, <1>4, <1>5, <1>6, <1>7, RestartStep, SearchStep, StartStep, LogStep,
     LogTornStep, EraseLogStep, EraseLogTornStep, SaveCalibrationStep, SaveTornStep
     DEF Next, Program

THEOREM InvariantHolds == Spec => []IInv
BY IInvInit, IInvNext, PTL DEF Spec

\* The start finds the end of the log: behind it the chip is blank, and the
\* last window before it is not, whatever was cut off in the middle.
THEOREM EndOfLogIsFound == Spec => []EndIsKnown
<1>1. IInv => EndIsKnown
  BY DEF IInv
<1> QED
  BY InvariantHolds, <1>1, PTL

\* No record is overwritten, over any number of restarts.
THEOREM RecordsStayIntact == Spec => []RecordsIntact
<1>1. IInv => RecordsIntact
  BY DEF IInv
<1> QED
  BY InvariantHolds, <1>1, PTL

\* A restore finds the last complete save, or the defaults.
THEOREM CalibrationIsKept == Spec => []CalibrationKept
<1>1. IInv => CalibrationKept
  BY DEF IInv
<1> QED
  BY InvariantHolds, <1>1, PTL
=============================================================================
