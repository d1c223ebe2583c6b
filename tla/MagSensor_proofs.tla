--------------------------- MODULE MagSensor_proofs ---------------------------
(***************************************************************************)
(* Proofs about the magnetometer of tiny-sky, for every field and every    *)
(* duration of a calibration: what triggers the ejection was measured, the *)
(* chain of conversions breaks only with a lost write, and a calibration   *)
(* that nobody disturbed finds the middle of its samples.                  *)
(***************************************************************************)
EXTENDS MagSensor, SequenceTheorems, FiniteSetTheorems, TLAPS

TypeOK ==
    /\ field \in Int /\ sample \in Int
    /\ converting \in BOOLEAN /\ continuous \in BOOLEAN /\ ready \in BOOLEAN
    /\ last_mx \in {-1, 0, 1}
    /\ mag_x_offset \in Int /\ saved \in Int
    /\ mag_cal_enabled \in BOOLEAN
    /\ cal_count \in 0..4 /\ cal_mx_min \in Int /\ cal_mx_max \in Int
    /\ taken \in Seq(Int)
    /\ undisturbed \in BOOLEAN /\ below \in BOOLEAN /\ triggerLost \in BOOLEAN
    /\ errors \in Nat

\* Only a control register read wrongly makes the chip measure continuously;
\* otherwise a sample that waits is not overtaken by a conversion.
OneShot == errors = 0 => ~continuous /\ ~(ready /\ converting)

\* Bounds of the samples that count.
Least(x, s)    == x \in Extremes(s) /\ \A y \in Extremes(s) : x <= y
Greatest(x, s) == x \in Extremes(s) /\ \A y \in Extremes(s) : y <= x

\* What a calibration has found out while nobody disturbs it.
CalKnown ==
    /\ ~mag_cal_enabled => cal_count = 0 /\ taken = <<>>
    /\ mag_cal_enabled /\ undisturbed =>
          /\ mag_x_offset = 0
          /\ cal_count = IF Len(taken) < 4 THEN Len(taken) ELSE 4
          /\ taken # <<>> => Least(cal_mx_min, taken) /\ Greatest(cal_mx_max, taken)

\* What a step that ends an undisturbed calibration finds.
MiddleFound ==
    mag_cal_enabled /\ ~mag_cal_enabled' /\ undisturbed' =>
        LET of == Extremes(Append(taken, sample))
        IN  mag_x_offset' = Middle(Min(of), Max(of))

IInv == TypeOK /\ OneShot /\ CalKnown /\ StopsOnlyAfterLoss /\ NoFalseTrigger

-----------------------------------------------------------------------------
(* Numbers *)

LEMMA Constants == Fields \subseteq Int /\ CalPasses \in Nat
BY ConstantsAssumption

\* A pass without a failed transaction is the empty set of failures.
LEMMA NoFailure ==
    ASSUME NEW n \in Nat, NEW f, IsFiniteSet(f), n + Cardinality(f) = 0
    PROVE  n = 0 /\ f = {}
<1>1. Cardinality(f) \in Nat
  BY FS_CardinalityType
<1>2. n = 0 /\ Cardinality(f) = 0
  BY <1>1
<1> QED
  BY <1>2, FS_EmptySet

LEMMA Finite ==
    /\ IsFiniteSet({"status"})
    /\ IsFiniteSet({"control", "write"})
    /\ IsFiniteSet({"status", "axis", "others", "control", "write"})
<1>1. ASSUME NEW a, NEW S, IsFiniteSet(S) PROVE IsFiniteSet(S \cup {a})
  BY <1>1, FS_AddElement
<1>2. IsFiniteSet({"status"}) /\ IsFiniteSet({"control"})
  BY FS_Singleton
<1>3. IsFiniteSet({"control"} \cup {"write"})
  BY <1>1, <1>2
<1>4. IsFiniteSet((({"control"} \cup {"write"}) \cup {"status"}) \cup {"axis"})
  BY <1>1, <1>3
<1>5. IsFiniteSet(((({"control"} \cup {"write"}) \cup {"status"}) \cup {"axis"}) \cup {"others"})
  BY <1>1, <1>4
<1>6. /\ {"control"} \cup {"write"} = {"control", "write"}
      /\ ((({"control"} \cup {"write"}) \cup {"status"}) \cup {"axis"}) \cup {"others"}
            = {"status", "axis", "others", "control", "write"}
  OBVIOUS
<1> QED
  BY <1>2, <1>3, <1>5, <1>6

LEMMA FailuresType ==
    ASSUME TypeOK, NEW made, IsFiniteSet(made), NEW f \in Failures(made)
    PROVE  IsFiniteSet(f) /\ Cardinality(f) \in Nat /\ errors + Cardinality(f) \in Nat
<1>1. IsFiniteSet(f)
  BY FS_Subset DEF Failures
<1>2. Cardinality(f) \in Nat
  BY <1>1, FS_CardinalityType
<1> QED
  BY <1>1, <1>2 DEF TypeOK

LEMMA MinOfTwo ==
    ASSUME NEW a \in Int, NEW b \in Int
    PROVE  Min({a, b}) = IF a < b THEN a ELSE b
<1> DEFINE m == IF a < b THEN a ELSE b
<1>1. m \in {a, b} /\ \A y \in {a, b} : m <= y
  OBVIOUS
<1>2. \A x \in {a, b} : (\A y \in {a, b} : x <= y) => x = m
  OBVIOUS
<1> QED
  BY <1>1, <1>2 DEF Min

LEMMA LeastIsMin ==
    ASSUME NEW s, NEW x \in Int, Least(x, s), Extremes(s) \subseteq Int
    PROVE  Min(Extremes(s)) = x
<1>1. \A z \in Extremes(s) : (\A y \in Extremes(s) : z <= y) => z = x
  BY DEF Least
<1> QED
  BY <1>1 DEF Least, Min

LEMMA GreatestIsMax ==
    ASSUME NEW s, NEW x \in Int, Greatest(x, s), Extremes(s) \subseteq Int
    PROVE  Max(Extremes(s)) = x
<1>1. \A z \in Extremes(s) : (\A y \in Extremes(s) : z >= y) => z = x
  BY DEF Greatest
<1>2. \A y \in Extremes(s) : x >= y
  BY DEF Greatest
<1> QED
  BY <1>1, <1>2 DEF Greatest, Max

\* One more sample: the first three only replace the extremes.
LEMMA ExtremesAppend ==
    ASSUME NEW s \in Seq(Int), NEW x \in Int
    PROVE  /\ Extremes(Append(s, x)) = IF Len(s) < 3 THEN {x} ELSE Extremes(s) \cup {x}
           /\ Extremes(Append(s, x)) \subseteq Int
<1> DEFINE t == Append(s, x)
<1>1. PICK n \in Nat : n = Len(s)
  OBVIOUS
<1>2. Len(t) = n + 1 /\ t[n + 1] = x /\ \A i \in 1..n : t[i] = s[i]
  BY <1>1
<1>3. \A i \in 1..n : s[i] \in Int
  BY <1>1
<1> HIDE DEF t
<1>4. CASE n < 3
  <2>1. ~(n + 1 > 3)
    BY <1>4
  <2>2. Extremes(t) = {t[i] : i \in (n + 1)..(n + 1)}
    BY <1>2, <2>1, Zenon DEF Extremes
  <2>3. (n + 1)..(n + 1) = {n + 1}
    OBVIOUS
  <2>4. Extremes(t) = {x}
    BY <1>2, <2>2, <2>3
  <2> QED
    BY <1>1, <1>4, <2>4 DEF t
<1>5. CASE n >= 3
  <2>1. Extremes(t) = {t[i] : i \in 3..(n + 1)}
    <3>1. n + 1 > 3
      BY <1>5
    <3> QED
      BY <1>2, <3>1, Zenon DEF Extremes
  <2>2. Extremes(s) = {s[i] : i \in 3..n}
    <3>1. CASE n = 3
      BY <1>1, <3>1 DEF Extremes
    <3>2. CASE n > 3
      BY <1>1, <3>2 DEF Extremes
    <3> QED
      BY <1>5, <3>1, <3>2
  <2>3. \A y : y \in Extremes(t) <=> y \in Extremes(s) \/ y = x
    <3>1. \A i \in 3..n : i \in 3..(n + 1) /\ t[i] = s[i]
      BY <1>2
    <3>2. \A i \in 3..(n + 1) : i \in 3..n \/ i = n + 1
      OBVIOUS
    <3>3. n + 1 \in 3..(n + 1)
      BY <1>5
    <3> QED
      BY <1>2, <2>1, <2>2, <3>1, <3>2, <3>3
  <2>4. Extremes(t) = Extremes(s) \cup {x}
    BY <2>3
  <2>5. Extremes(t) \subseteq Int
    BY <1>3, <2>2, <2>4
  <2> QED
    BY <1>1, <1>5, <2>4, <2>5 DEF t
<1> QED
  BY <1>4, <1>5

LEMMA NextExtremes ==
    ASSUME NEW s \in Seq(Int), NEW x \in Int, NEW lo \in Int, NEW hi \in Int,
           s # <<>> => Least(lo, s) /\ Greatest(hi, s)
    PROVE  /\ Least(IF Len(s) >= 3 /\ lo < x THEN lo ELSE x, Append(s, x))
           /\ Greatest(IF Len(s) >= 3 /\ hi > x THEN hi ELSE x, Append(s, x))
<1>1. Extremes(Append(s, x)) = IF Len(s) < 3 THEN {x} ELSE Extremes(s) \cup {x}
  BY ExtremesAppend
<1>2. CASE Len(s) < 3
  BY <1>1, <1>2 DEF Least, Greatest
<1>3. CASE ~(Len(s) < 3)
  <2>1. Len(s) >= 3 /\ s # <<>>
    BY <1>3
  <2>2. Extremes(s) \cup {x} = Extremes(Append(s, x)) /\ Extremes(Append(s, x)) \subseteq Int
    BY <1>1, <1>3, ExtremesAppend
  <2>3. /\ lo \in Extremes(s) /\ \A y \in Extremes(s) : lo <= y
        /\ hi \in Extremes(s) /\ \A y \in Extremes(s) : y <= hi
    BY <2>1 DEF Least, Greatest
  <2> QED
    BY <2>1, <2>2, <2>3 DEF Least, Greatest
<1> QED
  BY <1>2, <1>3

-----------------------------------------------------------------------------
(* The steps *)

LEMMA IInvInit == Init => IInv
<1> SUFFICES ASSUME Init PROVE IInv
  OBVIOUS
<1>1. TypeOK
  <2>1. field \in Int /\ sample \in Int /\ taken \in Seq(Int)
    BY Constants DEF Init
  <2>2. 0 \in Int /\ 0 \in Nat /\ 0 \in 0..4 /\ 0 \in {-1, 0, 1}
    OBVIOUS
  <2> QED
    BY <2>1, <2>2, Zenon DEF Init, TypeOK
<1> QED
  BY <1>1 DEF Init, IInv, OneShot, CalKnown, StopsOnlyAfterLoss, NoFalseTrigger

\* What neither a pass nor a command changes.
LEMMA CalSame ==
    ASSUME CalKnown, UNCHANGED <<mag_x_offset, cal, taken, undisturbed>>
    PROVE  CalKnown'
<1>1. UNCHANGED <<mag_x_offset, mag_cal_enabled, cal_count, cal_mx_min, cal_mx_max, taken,
                  undisturbed>>
  BY DEF cal
<1> QED
  BY <1>1 DEF CalKnown

LEMMA WorldStep ==
    ASSUME IInv, MoveMagnet \/ Convert
    PROVE  IInv'
<1>1. /\ UNCHANGED <<last_mx, mag_x_offset, saved, mag_cal_enabled, cal_count, cal_mx_min,
                     cal_mx_max, taken, undisturbed, below, triggerLost, errors>>
      /\ UNCHANGED <<mag_x_offset, cal, taken, undisturbed>>
  BY DEF MoveMagnet, Convert, cal, hist
<1>2. CalKnown'
  BY <1>1, CalSame DEF IInv
<1>3. CASE MoveMagnet
  <2>1. field' \in Int /\ UNCHANGED <<converting, continuous, ready, sample>>
    BY <1>3, Constants DEF MoveMagnet, chip
  <2>2. TypeOK'
    BY <1>1, <2>1 DEF IInv, TypeOK
  <2> QED
    BY <1>1, <1>2, <2>1, <2>2 DEF IInv, OneShot, StopsOnlyAfterLoss, NoFalseTrigger
<1>4. CASE Convert
  <2>1. /\ sample' = field /\ ready' = TRUE /\ converting' = continuous
        /\ UNCHANGED <<field, continuous>>
    BY <1>4 DEF Convert
  <2>2. TypeOK'
    BY <1>1, <2>1 DEF IInv, TypeOK
  <2> QED
    BY <1>1, <1>2, <2>1, <2>2 DEF IInv, OneShot, StopsOnlyAfterLoss, NoFalseTrigger
<1> QED
  BY <1>3, <1>4

LEMMA ConsoleStep ==
    ASSUME IInv, MagCal \/ SaveCal \/ LoadCal \/ RstCal
    PROVE  IInv'
<1>1. ASSUME NEW offset \in Int, SetOffset(offset) PROVE IInv'
  <2>1. /\ mag_x_offset' = offset /\ undisturbed' = (undisturbed /\ offset = 0)
        /\ taken' = IF undisturbed' THEN taken ELSE <<>>
        /\ UNCHANGED <<field, converting, continuous, ready, sample, last_mx, saved,
                       mag_cal_enabled, cal_count, cal_mx_min, cal_mx_max, below, triggerLost,
                       errors>>
    BY <1>1 DEF SetOffset, chip, cal
  <2>2. <<>> \in Seq(Int)
    OBVIOUS
  <2>3. TypeOK'
    BY <1>1, <2>1, <2>2 DEF IInv, TypeOK
  <2>4. CalKnown'
    BY <2>1 DEF IInv, CalKnown, TypeOK
  <2> QED
    BY <2>1, <2>3, <2>4 DEF IInv, OneShot, StopsOnlyAfterLoss, NoFalseTrigger
<1>2. CASE LoadCal
  BY <1>1, <1>2 DEF LoadCal, IInv, TypeOK
<1>3. CASE RstCal
  BY <1>1, <1>3 DEF RstCal
<1>4. CASE SaveCal
  <2>1. /\ saved' = mag_x_offset
        /\ UNCHANGED <<field, converting, continuous, ready, sample, last_mx, mag_x_offset,
                       mag_cal_enabled, cal_count, cal_mx_min, cal_mx_max, taken, undisturbed,
                       below, triggerLost, errors>>
        /\ UNCHANGED <<mag_x_offset, cal, taken, undisturbed>>
    BY <1>4 DEF SaveCal, chip, cal
  <2>2. TypeOK'
    BY <2>1 DEF IInv, TypeOK
  <2>3. CalKnown'
    BY <2>1, CalSame DEF IInv
  <2> QED
    BY <2>1, <2>2, <2>3 DEF IInv, OneShot, StopsOnlyAfterLoss, NoFalseTrigger
<1>5. CASE MagCal
  <2>1. /\ mag_x_offset' = 0 /\ mag_cal_enabled' = TRUE /\ taken' = <<>>
        /\ undisturbed' = ~mag_cal_enabled
        /\ UNCHANGED <<field, converting, continuous, ready, sample, last_mx, saved, cal_count,
                       cal_mx_min, cal_mx_max, below, triggerLost, errors>>
    BY <1>5 DEF MagCal, chip
  <2>2. <<>> \in Seq(Int) /\ Len(<<>>) = 0
    OBVIOUS
  <2>3. TypeOK'
    BY <2>1, <2>2 DEF IInv, TypeOK
  <2>4. CalKnown'
    <3>1. mag_cal_enabled' /\ ~(taken' # <<>>) /\ mag_x_offset' = 0 /\ Len(taken') = 0
      BY <2>1, <2>2
    <3>2. undisturbed' => cal_count' = 0
      BY <2>1 DEF IInv, CalKnown
    <3> QED
      BY <3>1, <3>2 DEF CalKnown
  <2> QED
    BY <2>1, <2>3, <2>4 DEF IInv, OneShot, StopsOnlyAfterLoss, NoFalseTrigger
<1> QED
  BY <1>2, <1>3, <1>4, <1>5

LEMMA RestartStep ==
    ASSUME IInv, Restart
    PROVE  IInv'
<1>1. PICK failed \in Failures({"control", "write"}) :
         /\ continuous' \in IF failed = {"control"} THEN BOOLEAN ELSE {FALSE}
         /\ converting' = continuous'
         /\ triggerLost' = ("write" \in failed)
         /\ IF triggerLost' THEN UNCHANGED <<ready, sample>>
            ELSE ready' = TRUE /\ sample' = field
         /\ errors' = errors + Cardinality(failed)
  BY DEF Restart
<1>2. IsFiniteSet({"control", "write"})
  BY Finite
<1>3. IsFiniteSet(failed) /\ errors' \in Nat
  BY <1>1, <1>2, FailuresType DEF IInv
<1>4. errors' = 0 => errors = 0 /\ failed = {}
  BY <1>1, <1>3, NoFailure DEF IInv, TypeOK
<1>5. TypeOK'
  <2>1. continuous' \in BOOLEAN /\ converting' \in BOOLEAN /\ triggerLost' \in BOOLEAN
    <3>1. continuous' \in BOOLEAN
      <4>1. CASE failed = {"control"}
        BY <1>1, <4>1, Zenon
      <4>2. CASE failed # {"control"}
        BY <1>1, <4>2
      <4> QED
        BY <4>1, <4>2
    <3>2. triggerLost' \in BOOLEAN
      <4>1. triggerLost' = ("write" \in failed)
        BY <1>1
      <4> QED
        BY <4>1
    <3> QED
      BY <1>1, <3>1, <3>2, Zenon
  <2>2. ready' \in BOOLEAN /\ sample' \in Int
    BY <1>1, Zenon DEF IInv, TypeOK
  <2>3. <<>> \in Seq(Int)
    OBVIOUS
  <2>4. /\ last_mx' = 0 /\ mag_x_offset' = saved /\ mag_cal_enabled' = FALSE
        /\ cal_count' = 0 /\ cal_mx_min' = 0 /\ cal_mx_max' = 0
        /\ taken' = <<>> /\ undisturbed' = FALSE /\ below' = FALSE
        /\ UNCHANGED <<field, saved>>
    BY DEF Restart
  <2>5. 0 \in Int /\ 0 \in 0..4 /\ 0 \in {-1, 0, 1} /\ field \in Int /\ saved \in Int
    BY DEF IInv, TypeOK
  <2> QED
    BY <1>3, <2>1, <2>2, <2>3, <2>4, <2>5, Zenon DEF TypeOK
<1>6. OneShot'
  BY <1>1, <1>4 DEF IInv, OneShot
<1>7. CalKnown' /\ NoFalseTrigger'
  BY DEF Restart, CalKnown, NoFalseTrigger
<1>8. StopsOnlyAfterLoss'
  BY <1>1 DEF StopsOnlyAfterLoss
<1> QED
  BY <1>5, <1>6, <1>7, <1>8 DEF IInv

LEMMA PassIdleStep ==
    ASSUME IInv, PassIdle
    PROVE  IInv'
<1>1. PICK failed \in Failures({"status"}) :
         /\ errors' = errors + Cardinality(failed)
         /\ UNCHANGED <<field, chip, last_mx, mag_x_offset, saved, mag_cal_enabled, cal_count,
                        cal_mx_min, cal_mx_max, taken, undisturbed, below, triggerLost>>
  BY DEF PassIdle
<1>2. IsFiniteSet({"status"})
  BY Finite
<1>3. IsFiniteSet(failed) /\ errors' \in Nat
  BY <1>1, <1>2, FailuresType DEF IInv
<1>4. errors' = 0 => errors = 0
  BY <1>1, <1>3, NoFailure DEF IInv, TypeOK
<1> QED
  BY <1>1, <1>3, <1>4
     DEF chip, IInv, TypeOK, OneShot, CalKnown, StopsOnlyAfterLoss, NoFalseTrigger
NextCount == Min({cal_count + 1, 4})

\* What one more sample makes of a calibration that nobody disturbed.
LEMMA Sampled ==
    ASSUME IInv, mag_cal_enabled, undisturbed, NEW x \in Int
    PROVE  /\ NextCount = IF Len(Append(taken, x)) < 4 THEN Len(Append(taken, x)) ELSE 4
           /\ Least(IF Counted(NextCount) /\ cal_mx_min < x THEN cal_mx_min ELSE x, Append(taken, x))
           /\ Greatest(IF Counted(NextCount) /\ cal_mx_max > x THEN cal_mx_max ELSE x, Append(taken, x))
<1>1. /\ taken \in Seq(Int) /\ cal_mx_min \in Int /\ cal_mx_max \in Int
      /\ cal_count = IF Len(taken) < 4 THEN Len(taken) ELSE 4
      /\ taken # <<>> => Least(cal_mx_min, taken) /\ Greatest(cal_mx_max, taken)
  BY DEF IInv, TypeOK, CalKnown
<1>2. Len(taken) \in Nat /\ Len(Append(taken, x)) = Len(taken) + 1
  BY <1>1
<1>3. cal_count \in 0..4 /\ NextCount = IF cal_count + 1 < 4 THEN cal_count + 1 ELSE 4
  BY MinOfTwo DEF IInv, TypeOK, NextCount
<1>4. Counted(NextCount) <=> Len(taken) >= 3
  BY <1>1, <1>2, <1>3 DEF Counted
<1>5. NextCount = IF Len(Append(taken, x)) < 4 THEN Len(Append(taken, x)) ELSE 4
  BY <1>1, <1>2, <1>3
<1>6. /\ Least(IF Len(taken) >= 3 /\ cal_mx_min < x THEN cal_mx_min ELSE x, Append(taken, x))
      /\ Greatest(IF Len(taken) >= 3 /\ cal_mx_max > x THEN cal_mx_max ELSE x, Append(taken, x))
  BY <1>1, NextExtremes
<1> QED
  BY <1>4, <1>5, <1>6, Zenon
-----------------------------------------------------------------------------
(* A pass that reads *)

\* Its parts, with the failures f of its transactions and the value v read.
Reads(f, v) ==
    /\ TRUE \in Ready("status" \in f)
    /\ undisturbed' = (undisturbed /\ "axis" \notin f /\ ~converting /\ mag_cal_enabled)
    /\ last_mx' = Sign(v - mag_x_offset)
    /\ Calibrate(v - mag_x_offset, Min({cal_time + 1, CalPasses}))
    /\ ready' = (ready /\ f \cap {"axis", "others"} # {})
    /\ Trigger(f)
    /\ below' = (sample < mag_x_offset)
    /\ errors' = errors + Cardinality(f)
    /\ UNCHANGED <<field, sample, saved>>

LEMMA ReadsExist ==
    ASSUME IInv, PassReads
    PROVE  \E f : \E v \in Int :
              /\ Reads(f, v) /\ v \in ReadAxis("axis" \in f)
              /\ errors' \in Nat /\ (errors' = 0 => errors = 0 /\ f = {})
<1>1. PICK f \in Failures({"status", "axis", "others", "control", "write"}) :
         \E v \in ReadAxis("axis" \in f) : Reads(f, v)
  BY Zenon DEF PassReads, Reads
<1>2. PICK v \in ReadAxis("axis" \in f) : Reads(f, v)
  BY <1>1
<1>3. sample \in Int /\ field \in Int /\ TypeOK
  BY DEF IInv, TypeOK
<1>4. Joined(sample, field) \in Int
  BY <1>3 DEF Joined
<1>5. v \in Int
  BY <1>3, <1>4 DEF ReadAxis
<1>6. IsFiniteSet(f) /\ errors + Cardinality(f) \in Nat /\ errors \in Nat
  BY <1>3, Finite, FailuresType DEF TypeOK
<1>7. errors' = errors + Cardinality(f)
  BY <1>2 DEF Reads
<1>8. errors' = 0 => errors = 0 /\ f = {}
  BY <1>6, <1>7, NoFailure
<1> QED
  BY <1>2, <1>5, <1>6, <1>7, <1>8

\* Without a failure the sample is read as it is.
LEMMA ReadsSample ==
    ASSUME NEW f, NEW v \in ReadAxis("axis" \in f), "axis" \notin f, ~converting
    PROVE  v = sample
BY DEF ReadAxis

LEMMA TriggerType ==
    ASSUME TypeOK, NEW f, Trigger(f)
    PROVE  /\ converting' \in BOOLEAN /\ continuous' \in BOOLEAN /\ triggerLost' \in BOOLEAN
           /\ converting' \/ triggerLost'
           /\ f = {} => continuous' = continuous
BY DEF Trigger, TypeOK

\* The calibration in a pass that reads x after the given time.
LEMMA CalibrateStep ==
    ASSUME IInv, NEW x \in Int, NEW time, Calibrate(x, time),
           undisturbed' => undisturbed /\ mag_cal_enabled /\ x = sample - mag_x_offset
    PROVE  /\ mag_x_offset' \in Int /\ mag_cal_enabled' \in BOOLEAN /\ cal_count' \in 0..4
           /\ cal_mx_min' \in Int /\ cal_mx_max' \in Int /\ taken' \in Seq(Int)
           /\ undisturbed' \in BOOLEAN => CalKnown'
           /\ MiddleFound
<1>1. TypeOK /\ CalKnown
  BY DEF IInv
<1>2. CASE ~mag_cal_enabled
  <2>1. UNCHANGED <<cal, mag_x_offset, taken>>
    BY <1>2 DEF Calibrate
  <2>2. UNCHANGED <<mag_cal_enabled, cal_count, cal_mx_min, cal_mx_max, mag_x_offset, taken>>
    BY <2>1 DEF cal
  <2>3. /\ mag_x_offset' \in Int /\ mag_cal_enabled' \in BOOLEAN /\ cal_count' \in 0..4
        /\ cal_mx_min' \in Int /\ cal_mx_max' \in Int /\ taken' \in Seq(Int)
    BY <1>1, <2>2 DEF TypeOK
  <2>4. CalKnown'
    BY <1>1, <1>2, <2>2 DEF CalKnown
  <2>5. MiddleFound
    BY <1>2 DEF MiddleFound
  <2> QED
    BY <2>3, <2>4, <2>5
<1>3. CASE mag_cal_enabled
  <2> DEFINE n   == NextCount
             min == IF Counted(n) /\ cal_mx_min < x THEN cal_mx_min ELSE x
             max == IF Counted(n) /\ cal_mx_max > x THEN cal_mx_max ELSE x
             end == time >= CalPasses
  <2>1. /\ cal_mx_min' = min
        /\ cal_mx_max' = max
        /\ taken' = IF end \/ ~undisturbed' THEN <<>> ELSE Append(taken, sample)
        /\ mag_x_offset' = IF end THEN Middle(min, max) ELSE mag_x_offset
        /\ mag_cal_enabled' = ~end
        /\ cal_count' = IF end THEN 0 ELSE n
    BY <1>3, Zenon DEF Calibrate, NextCount
  <2>2. n \in 0..4
    BY <1>1, MinOfTwo DEF NextCount, TypeOK
  <2>3. min \in Int /\ max \in Int
    BY <1>1 DEF TypeOK
  <2>4. Middle(min, max) \in Int
    BY <2>3 DEF Middle
  <2>5. <<>> \in Seq(Int) /\ taken \in Seq(Int) /\ sample \in Int /\ mag_x_offset \in Int
    BY <1>1 DEF TypeOK
  <2>6. Append(taken, sample) \in Seq(Int) /\ Append(taken, sample) # <<>>
    <3>1. Append(taken, sample) \in Seq(Int)
      BY <2>5, AppendProperties
    <3>2. Len(Append(taken, sample)) = Len(taken) + 1 /\ Len(taken) \in Nat /\ Len(<<>>) = 0
      BY <2>5
    <3>3. Len(Append(taken, sample)) # Len(<<>>)
      BY <3>2
    <3> QED
      BY <3>1, <3>3, Zenon
  <2>7. undisturbed' =>
           /\ mag_x_offset = 0
           /\ n = IF Len(Append(taken, sample)) < 4 THEN Len(Append(taken, sample)) ELSE 4
           /\ Least(min, Append(taken, sample)) /\ Greatest(max, Append(taken, sample))
    <3> SUFFICES ASSUME undisturbed'
                 PROVE  /\ mag_x_offset = 0
                        /\ n = IF Len(Append(taken, sample)) < 4
                               THEN Len(Append(taken, sample)) ELSE 4
                        /\ Least(min, Append(taken, sample))
                        /\ Greatest(max, Append(taken, sample))
      OBVIOUS
    <3>1. undisturbed /\ mag_x_offset = 0
      BY <1>1, <1>3 DEF CalKnown
    <3>2. x = sample
      BY <2>5, <3>1
    <3> QED
      BY <1>3, <3>1, <3>2, Sampled, Zenon
  <2> HIDE DEF n, min, max, end
  <2>8. mag_cal_enabled' \in BOOLEAN
    BY <2>1, Zenon
  <2>9. undisturbed' \in BOOLEAN => CalKnown'
    BY <2>1, <2>7 DEF CalKnown
  <2>10. ASSUME ~mag_cal_enabled', undisturbed'
         PROVE  LET of == Extremes(Append(taken, sample))
                IN  mag_x_offset' = Middle(Min(of), Max(of))
    <3>1. mag_x_offset' = Middle(min, max)
      BY <2>1, <2>10, Zenon
    <3>2. Extremes(Append(taken, sample)) \subseteq Int
      BY <2>5, ExtremesAppend
    <3>3. Min(Extremes(Append(taken, sample))) = min
      BY <2>3, <2>7, <2>10, <3>2, LeastIsMin
    <3>4. Max(Extremes(Append(taken, sample))) = max
      BY <2>3, <2>7, <2>10, <3>2, GreatestIsMax
    <3> QED
      BY <3>1, <3>3, <3>4, Zenon
  <2>11. MiddleFound
    BY <2>10, Zenon DEF MiddleFound
  <2>12. mag_x_offset' \in Int
    BY <2>1, <2>4, <2>5, Zenon
  <2>13. cal_count' \in 0..4
    <3>1. 0 \in 0..4
      OBVIOUS
    <3> QED
      BY <2>1, <2>2, <3>1, Zenon
  <2>14. cal_mx_min' \in Int /\ cal_mx_max' \in Int
    BY <2>1, <2>3, Zenon
  <2>15. taken' \in Seq(Int)
    BY <2>1, <2>5, <2>6, Zenon
  <2> QED
    BY <2>8, <2>9, <2>11, <2>12, <2>13, <2>14, <2>15
<1> QED
  BY <1>1, <1>2, <1>3 DEF TypeOK
LEMMA PassReadsStep ==
    ASSUME IInv, PassReads
    PROVE  /\ IInv'
           /\ MiddleFound
<1>1. PICK f : \E v \in Int :
         /\ Reads(f, v) /\ v \in ReadAxis("axis" \in f)
         /\ errors' \in Nat /\ (errors' = 0 => errors = 0 /\ f = {})
  BY ReadsExist
<1>2. PICK v \in Int :
         /\ Reads(f, v) /\ v \in ReadAxis("axis" \in f)
         /\ errors' \in Nat /\ (errors' = 0 => errors = 0 /\ f = {})
  BY <1>1
<1>3. /\ undisturbed' = (undisturbed /\ "axis" \notin f /\ ~converting /\ mag_cal_enabled)
      /\ last_mx' = Sign(v - mag_x_offset)
      /\ ready' = (ready /\ f \cap {"axis", "others"} # {})
      /\ Trigger(f)
      /\ below' = (sample < mag_x_offset)
      /\ UNCHANGED <<field, sample, saved>>
  BY <1>2 DEF Reads
<1>4. TypeOK /\ mag_x_offset \in Int /\ sample \in Int
  BY DEF IInv, TypeOK
<1> DEFINE x == v - mag_x_offset
<1>5. x \in Int
  BY <1>4
<1>6. undisturbed' => undisturbed /\ mag_cal_enabled /\ x = sample - mag_x_offset
  BY <1>2, <1>3, ReadsSample
<1>7. Calibrate(x, Min({cal_time + 1, CalPasses}))
  BY <1>2 DEF Reads
<1> HIDE DEF x
<1>8. undisturbed' \in BOOLEAN /\ ready' \in BOOLEAN /\ below' \in BOOLEAN
  <2>1. undisturbed' = (undisturbed /\ "axis" \notin f /\ ~converting /\ mag_cal_enabled)
    BY <1>3
  <2>2. ready' = (ready /\ f \cap {"axis", "others"} # {})
    BY <1>3
  <2>3. below' = (sample < mag_x_offset)
    BY <1>3
  <2>4. undisturbed' \in BOOLEAN
    BY <2>1, Zenon
  <2>5. ready' \in BOOLEAN
    BY <2>2, Zenon
  <2>6. below' \in BOOLEAN
    BY <2>3
  <2> QED
    BY <2>4, <2>5, <2>6
<1>9. /\ mag_x_offset' \in Int /\ mag_cal_enabled' \in BOOLEAN /\ cal_count' \in 0..4
      /\ cal_mx_min' \in Int /\ cal_mx_max' \in Int /\ taken' \in Seq(Int)
      /\ CalKnown'
      /\ MiddleFound
  BY <1>5, <1>6, <1>7, <1>8, CalibrateStep, Zenon
<1>10. /\ converting' \in BOOLEAN /\ continuous' \in BOOLEAN /\ triggerLost' \in BOOLEAN
       /\ converting' \/ triggerLost'
       /\ f = {} => continuous' = continuous
  BY <1>3, <1>4, TriggerType
<1>11. last_mx' \in {-1, 0, 1}
  BY <1>3 DEF Sign
<1>12. TypeOK'
  BY <1>2, <1>3, <1>4, <1>8, <1>9, <1>10, <1>11 DEF TypeOK
<1>13. OneShot'
  BY <1>2, <1>3, <1>10 DEF IInv, OneShot
<1>14. StopsOnlyAfterLoss'
  BY <1>10 DEF StopsOnlyAfterLoss
<1>15. NoFalseTrigger'
  <2> SUFFICES ASSUME errors' = 0, last_mx' < 0 PROVE below'
    BY DEF NoFalseTrigger
  <2>1. errors = 0 /\ f = {}
    BY <1>2
  <2>2. ready
    BY <1>2, <1>4, <2>1 DEF Reads, Ready, TypeOK
  <2>3. ~converting
    BY <2>1, <2>2 DEF IInv, OneShot
  <2>4. v = sample
    BY <1>2, <2>1, <2>3, ReadsSample
  <2>5. last_mx' = Sign(sample - mag_x_offset)
    BY <1>3, <2>4
  <2>6. sample - mag_x_offset < 0
    BY <1>4, <2>5 DEF Sign
  <2>7. sample < mag_x_offset
    BY <1>4, <2>6
  <2>8. below' = (sample < mag_x_offset)
    BY <1>3
  <2> QED
    BY <2>7, <2>8
<1> QED
  BY <1>9, <1>12, <1>13, <1>14, <1>15 DEF IInv

-----------------------------------------------------------------------------
(* The theorems *)

LEMMA IInvNext == IInv /\ [Next]_vars => IInv' /\ [MiddleFound]_vars
<1> SUFFICES ASSUME IInv, [Next]_vars PROVE IInv' /\ MiddleFound
  OBVIOUS
<1>1. CASE UNCHANGED vars
  <2>1. UNCHANGED <<field, converting, continuous, ready, sample, last_mx, mag_x_offset, saved,
                    mag_cal_enabled, cal_count, cal_mx_min, cal_mx_max, taken, undisturbed, below,
                    triggerLost, errors>>
        /\ UNCHANGED <<mag_x_offset, cal, taken, undisturbed>>
    BY <1>1 DEF vars, chip, cal, hist
  <2>2. TypeOK'
    BY <2>1 DEF IInv, TypeOK
  <2>3. CalKnown'
    BY <2>1, CalSame DEF IInv
  <2>4. OneShot' /\ StopsOnlyAfterLoss' /\ NoFalseTrigger'
    BY <2>1 DEF IInv, OneShot, StopsOnlyAfterLoss, NoFalseTrigger
  <2>5. MiddleFound
    BY <2>1 DEF MiddleFound
  <2> QED
    BY <2>2, <2>3, <2>4, <2>5 DEF IInv
<1>2. CASE MoveMagnet \/ Convert
  <2>1. UNCHANGED mag_cal_enabled
    BY <1>2 DEF MoveMagnet, Convert, cal
  <2> QED
    BY <1>2, <2>1, WorldStep DEF MiddleFound
<1>3. CASE PassIdle
  <2>1. UNCHANGED mag_cal_enabled
    BY <1>3 DEF PassIdle
  <2>2. MiddleFound
    BY <2>1 DEF MiddleFound
  <2> QED
    BY <1>3, <2>2, PassIdleStep
<1>4. CASE PassReads
  BY <1>4, PassReadsStep
<1>5. CASE MagCal \/ SaveCal \/ LoadCal \/ RstCal
  <2>1. mag_cal_enabled' \in {mag_cal_enabled, TRUE}
    <3>1. CASE MagCal
      BY <3>1 DEF MagCal
    <3>2. CASE SaveCal
      BY <3>2 DEF SaveCal, cal
    <3>3. CASE LoadCal \/ RstCal
      BY <3>3 DEF LoadCal, RstCal, SetOffset, cal
    <3> QED
      BY <1>5, <3>1, <3>2, <3>3
  <2>2. MiddleFound
    BY <2>1 DEF MiddleFound
  <2> QED
    BY <1>5, <2>2, ConsoleStep
<1>6. CASE Restart
  <2>1. undisturbed' = FALSE
    BY <1>6 DEF Restart
  <2> QED
    BY <1>6, <2>1, RestartStep DEF MiddleFound
<1> QED
  BY <1>1, <1>2, <1>3, <1>4, <1>5, <1>6 DEF Next, Pass

THEOREM InvariantHolds == Spec => []IInv /\ [][MiddleFound]_vars
BY IInvInit, IInvNext, PTL DEF Spec

\* The chain of conversions breaks only with a lost write.
THEOREM ChainBreaksOnlyByLoss == Spec => []StopsOnlyAfterLoss
<1>1. IInv => StopsOnlyAfterLoss
  BY DEF IInv
<1> QED
  BY InvariantHolds, <1>1, PTL

\* What triggers the ejection on a bus without errors was measured.
THEOREM TriggerWasMeasured == Spec => []NoFalseTrigger
<1>1. IInv => NoFalseTrigger
  BY DEF IInv
<1> QED
  BY InvariantHolds, <1>1, PTL

\* A calibration that nobody disturbed finds the middle of its samples.
THEOREM CalibrationFindsMiddle == Spec => CalibrationIsRight
BY InvariantHolds, PTL DEF CalibrationIsRight, MiddleFound
=============================================================================
