--------------------------- MODULE AudioRingProofs ---------------------------
(***************************************************************************)
(* AudioRing for every capacity and every stream length: the offsets never *)
(* overrun, the reader gets the stream in order, the two sides never touch *)
(* the same byte, and the ring implements the bounded byte pipe.           *)
(***************************************************************************)
EXTENDS AudioRing, TLAPS

-----------------------------------------------------------------------------
(* The arithmetic of ring positions. *)

LEMMA ModDef ==
    ASSUME NEW o \in Nat
    PROVE  /\ o % Capacity \in 0..(Capacity - 1)
           /\ o \div Capacity \in Nat
           /\ o = Capacity * (o \div Capacity) + (o % Capacity)
BY RingAssumption

LEMMA ModUnique ==
    ASSUME NEW q \in Nat, NEW r \in 0..(Capacity - 1)
    PROVE  (Capacity * q + r) % Capacity = r
BY RingAssumption

LEMMA MulStrict ==
    ASSUME NEW p \in Nat, NEW q \in Nat, p < q
    PROVE  Capacity * p + Capacity <= Capacity * q
BY RingAssumption

\* The slot of a byte of the first slice of a copy from stream offset o.
LEMMA SlotFirst ==
    ASSUME NEW o \in Nat, NEW i \in Nat, Start(o) + i < Capacity
    PROVE  (o + i) % Capacity = Start(o) + i
<1>1. o + i = Capacity * (o \div Capacity) + (Start(o) + i)
    BY ModDef, RingAssumption DEF Start
<1>2. Start(o) + i \in 0..(Capacity - 1) /\ o \div Capacity \in Nat
    BY ModDef, RingAssumption DEF Start
<1> QED BY <1>1, <1>2, ModUnique

\* The slot of a byte of the second slice.
LEMMA SlotRest ==
    ASSUME NEW o \in Nat, NEW j \in 0..(Capacity - 1)
    PROVE  (o + (Capacity - Start(o)) + j) % Capacity = j
<1> DEFINE q == o \div Capacity
<1>1. q \in Nat /\ o = Capacity * q + Start(o) /\ Start(o) \in 0..(Capacity - 1)
    BY ModDef DEF Start
<1>2. Capacity * (q + 1) = Capacity * q + Capacity
    BY <1>1, RingAssumption
<1>3. o + (Capacity - Start(o)) + j = Capacity * (q + 1) + j
    BY <1>1, <1>2, RingAssumption
<1>4. q + 1 \in Nat
    BY <1>1
<1> HIDE DEF q
<1> QED BY <1>3, <1>4, ModUnique

\* Two bytes less than a ring apart never share a slot.
LEMMA SlotInjective ==
    ASSUME NEW j \in Nat, NEW k \in Nat, j < k, k < j + Capacity
    PROVE  j % Capacity # k % Capacity
<1> SUFFICES ASSUME j % Capacity = k % Capacity PROVE FALSE
    OBVIOUS
<1> DEFINE p == j \div Capacity
           q == k \div Capacity
           r == j % Capacity
<1>1. /\ p \in Nat /\ q \in Nat /\ r \in 0..(Capacity - 1)
      /\ j = Capacity * p + r /\ k = Capacity * q + r
    BY ModDef
<1>2. Capacity * p \in Nat /\ Capacity * q \in Nat
    BY <1>1, RingAssumption
<1> HIDE DEF p, q, r
<1>3. CASE p < q
    BY <1>1, <1>2, <1>3, MulStrict, RingAssumption
<1>4. CASE q < p
    BY <1>1, <1>2, <1>4, MulStrict, RingAssumption
<1>5. CASE p = q
    BY <1>1, <1>5
<1> QED BY <1>1, <1>3, <1>4, <1>5

LEMMA FirstBounds ==
    ASSUME NEW o \in Nat, NEW k \in Nat
    PROVE  /\ First(o, k) \in 0..k
           /\ Start(o) \in 0..(Capacity - 1)
           /\ Start(o) + First(o, k) <= Capacity
           /\ k > First(o, k) => First(o, k) = Capacity - Start(o)
           /\ k > 0 => First(o, k) > 0
BY ModDef, RingAssumption DEF First, Start, Smaller

-----------------------------------------------------------------------------
(* The copies of contiguous slices. *)

LEMMA WrittenType ==
    ASSUME NEW d \in [0..(Capacity - 1) -> Int], NEW from \in Nat,
           NEW at \in Nat, NEW k \in Nat
    PROVE  Written(d, at, k, from) \in [0..(Capacity - 1) -> Int]
BY DEF Written

\* The bytes lo..hi-1 of the stream are in their slots.
InPlace(d, lo, hi) == \A j \in Nat : lo <= j /\ j < hi => d[j % Capacity] = j

\* The k stream bytes from.. belong to the contiguous slots at..
Slots(from, at, k) == \A i \in Nat : i < k => (from + i) % Capacity = at + i

\* A slice that is written where its bytes belong extends the range of bytes
\* that are in place, and overwrites none of those still to be read.
LEMMA SliceFills ==
    ASSUME NEW d \in [0..(Capacity - 1) -> Int], NEW r \in Nat, NEW from \in Nat,
           NEW at \in Nat, NEW k \in Nat, at + k <= Capacity,
           from + k <= r + Capacity,
           Slots(from, at, k), InPlace(d, r, from)
    PROVE  InPlace(Written(d, at, k, from), r, from + k)
<1> SUFFICES ASSUME NEW j \in Nat, r <= j, j < from + k
             PROVE  Written(d, at, k, from)[j % Capacity] = j
    BY DEF InPlace
<1>1. CASE j >= from
    <2> DEFINE i == j - from
    <2>1. i \in Nat /\ i < k /\ j = from + i /\ at + i < Capacity
        BY <1>1, RingAssumption
    <2> HIDE DEF i
    <2>2. j % Capacity = at + i
        BY <2>1 DEF Slots
    <2>3. Written(d, at, k, from)[at + i] = from + i
        BY <2>1, RingAssumption DEF Written
    <2> QED BY <2>1, <2>2, <2>3
<1>2. CASE j < from
    <2> DEFINE slot == j % Capacity
    <2>1. d[slot] = j /\ slot \in 0..(Capacity - 1)
        BY <1>2, ModDef DEF InPlace
    <2>2. ASSUME NEW i \in Nat, i < k
          PROVE  slot # at + i
        <3>1. from + i \in Nat /\ j < from + i /\ from + i < j + Capacity
            BY <2>2, <1>2, RingAssumption
        <3>2. (from + i) % Capacity # slot
            BY <3>1, SlotInjective
        <3> HIDE DEF slot
        <3> QED BY <3>2, <2>2 DEF Slots
    <2> HIDE DEF slot
    <2>3. slot < at \/ slot >= at + k
        <3> SUFFICES ASSUME slot >= at, slot < at + k PROVE FALSE
            BY <2>1, RingAssumption
        <3>1. slot - at \in Nat /\ slot - at < k /\ slot = at + (slot - at)
            BY <2>1, RingAssumption
        <3> QED BY <3>1, <2>2
    <2>4. Written(d, at, k, from)[slot] = d[slot]
        BY <2>1, <2>3, RingAssumption DEF Written
    <2> QED BY <2>1, <2>4 DEF slot
<1> QED BY <1>1, <1>2

LEMMA FunctionIsSeq ==
    ASSUME NEW k \in Nat, NEW f \in [1..k -> Int]
    PROVE  f \in Seq(Int) /\ Len(f) = k
OBVIOUS

LEMMA ExtendedIsSeq ==
    ASSUME NEW d \in [0..(Capacity - 1) -> Int], NEW s \in Seq(Int),
           NEW at \in Nat, NEW k \in Nat, at + k <= Capacity
    PROVE  /\ Extended(s, d, at, k) \in Seq(Int)
           /\ Len(Extended(s, d, at, k)) = Len(s) + k
<1>1. \A i \in 1..(Len(s) + k) :
         (IF i <= Len(s) THEN s[i] ELSE d[at + (i - Len(s)) - 1]) \in Int
    BY RingAssumption
<1>2. Extended(s, d, at, k) \in [1..(Len(s) + k) -> Int]
    BY <1>1 DEF Extended
<1>3. Len(s) + k \in Nat
    OBVIOUS
<1> QED BY <1>2, <1>3, FunctionIsSeq

-----------------------------------------------------------------------------
(* The inductive invariant. *)

PushActive  == pushPC \in {"copyFirst", "copyRest", "store"}
DrainActive == drainPC \in {"copyFirst", "copyRest", "store"}

\* Stream offset up to which the client's bytes are in place.
Filled ==
    CASE pushPC = "copyRest" -> writeOff + First(pWrite, n)
      [] pushPC = "store"    -> writeOff + n
      [] OTHER               -> writeOff

\* Stream offset up to which the reader has copied bytes out.
Emptied ==
    CASE drainPC = "copyRest" -> readOff + First(dRead, Available)
      [] drainPC = "store"    -> dWrite
      [] OTHER                -> readOff

OffsetsInv == readOff <= writeOff /\ writeOff <= readOff + Capacity

PushInv ==
    /\ pushPC # "overrun"
    /\ pushPC # "idle" => /\ pRead <= readOff
                          /\ writeOff <= pRead + Capacity
                          /\ writeOff + len <= StreamLen /\ len > 0
    /\ PushActive => /\ pWrite = writeOff
                     /\ n > 0 /\ n <= len
                     /\ writeOff + n <= pRead + Capacity
    /\ pushPC = "copyRest" => n > First(pWrite, n)

DrainInv ==
    /\ drainPC # "overrun"
    /\ drainPC # "idle" => dRead = readOff
    /\ DrainActive => dRead < dWrite /\ dWrite <= writeOff
    /\ drainPC = "copyRest" => Available > First(dRead, Available)

\* Every byte between the reader and the client's copy is in its slot.
DataInv == InPlace(data, readOff, Filled)

\* The reader has exactly the bytes before its copy.
OutInv == Len(out) = Emptied /\ DrainedInOrder

IInv == TypeOK /\ OffsetsInv /\ PushInv /\ DrainInv /\ DataInv /\ OutInv

-----------------------------------------------------------------------------
LEMMA InitIInv == Init => IInv
BY RingAssumption
   DEF Init, IInv, TypeOK, PushPCs, DrainPCs, OffsetsInv, PushInv, PushActive,
       DrainInv, DrainActive, DataInv, OutInv, DrainedInOrder, Filled, Emptied,
       NoByte

-----------------------------------------------------------------------------
(* The steps of push_available. *)

LEMMA PushLoadReadStep ==
    ASSUME IInv, NEW k \in 1..StreamLen, PushLoadRead(k)
    PROVE  IInv'
<1> USE DEF PushLoadRead, shared, drainVars
<1>1. TypeOK' /\ OffsetsInv' /\ PushInv'
    BY RingAssumption
       DEF IInv, TypeOK, PushPCs, OffsetsInv, PushInv, PushActive
<1>2. DrainInv' /\ OutInv'
    BY DEF IInv, DrainInv, DrainActive, Available, OutInv, DrainedInOrder, Emptied
<1>3. DataInv'
    BY DEF IInv, DataInv, Filled
<1> QED BY <1>1, <1>2, <1>3 DEF IInv

LEMMA PushLoadWriteStep ==
    ASSUME IInv, PushLoadWrite
    PROVE  IInv'
<1> USE DEF PushLoadWrite, shared, drainVars
<1>1. /\ ~Overrun(pRead) /\ Room \in Nat
      /\ Room = 0 \/ (Smaller(len, Room) > 0 /\ Smaller(len, Room) <= len)
      /\ Smaller(len, Room) \in 0..StreamLen
      /\ writeOff + Smaller(len, Room) <= pRead + Capacity
    BY RingAssumption DEF IInv, TypeOK, OffsetsInv, PushInv, Overrun, Room, Smaller
<1>2. TypeOK' /\ OffsetsInv' /\ PushInv'
    BY <1>1, RingAssumption
       DEF IInv, TypeOK, PushPCs, OffsetsInv, PushInv, PushActive
<1>3. DrainInv' /\ OutInv'
    BY DEF IInv, DrainInv, DrainActive, Available, OutInv, DrainedInOrder, Emptied
<1>4. DataInv'
    BY <1>1 DEF IInv, DataInv, Filled
<1> QED BY <1>2, <1>3, <1>4 DEF IInv

LEMMA PushCopyFirstStep ==
    ASSUME IInv, PushCopyFirst
    PROVE  IInv'
<1> DEFINE first == First(pWrite, n)
           at    == Start(pWrite)
<1>1. /\ pushPC = "copyFirst" /\ PushActive /\ pWrite = writeOff
      /\ writeOff \in Nat /\ readOff \in Nat /\ n \in Nat /\ n > 0
      /\ pRead \in Nat /\ pRead <= readOff /\ writeOff + n <= pRead + Capacity
      /\ data \in [0..(Capacity - 1) -> Int]
    BY DEF PushCopyFirst, IInv, TypeOK, PushInv, PushActive
<1>2. /\ first \in 0..n /\ at \in 0..(Capacity - 1)
      /\ at + first <= Capacity /\ at = Start(writeOff)
    BY <1>1, FirstBounds
<1>3. data' = Written(data, at, first, writeOff)
    BY <1>1 DEF PushCopyFirst
<1>4. readOff' = readOff /\ Filled = writeOff /\ Filled' = writeOff + first
    BY <1>1, <1>2 DEF PushCopyFirst, Filled
<1>5. DrainInv' /\ OutInv'
    BY DEF PushCopyFirst, drainVars, IInv, DrainInv, DrainActive, Available, OutInv,
       DrainedInOrder, Emptied
<1> HIDE DEF first, at
<1>6. first \in Nat /\ at \in Nat /\ writeOff + first <= readOff + Capacity
    BY <1>1, <1>2, RingAssumption
<1>7. data' \in [0..(Capacity - 1) -> Int]
    BY <1>1, <1>3, <1>6, WrittenType
<1>8. TypeOK' /\ OffsetsInv' /\ PushInv'
    BY <1>7, RingAssumption
       DEF IInv, TypeOK, PushPCs, OffsetsInv, PushInv, PushActive, PushCopyFirst,
           drainVars
<1>9. Slots(writeOff, at, first)
    BY <1>1, <1>2, <1>6, SlotFirst, RingAssumption DEF Slots
<1>10. InPlace(data, readOff, writeOff)
    BY <1>4 DEF IInv, DataInv
<1>11. DataInv'
    <2>1. InPlace(Written(data, at, first, writeOff), readOff, writeOff + first)
        BY <1>1, <1>2, <1>6, <1>9, <1>10, SliceFills
    <2> QED BY <2>1, <1>3, <1>4 DEF DataInv
<1> QED BY <1>5, <1>8, <1>11 DEF IInv

LEMMA PushCopyRestStep ==
    ASSUME IInv, PushCopyRest
    PROVE  IInv'
<1> DEFINE first == First(pWrite, n)
           rest  == n - first
           from  == writeOff + first
<1>1. /\ pushPC = "copyRest" /\ PushActive /\ pWrite = writeOff
      /\ writeOff \in Nat /\ readOff \in Nat /\ n \in Nat /\ n > 0
      /\ pRead \in Nat /\ pRead <= readOff /\ writeOff + n <= pRead + Capacity
      /\ readOff <= writeOff /\ n > first
      /\ data \in [0..(Capacity - 1) -> Int]
    BY DEF PushCopyRest, IInv, TypeOK, OffsetsInv, PushInv, PushActive
<1>2. /\ first \in 0..n /\ Start(writeOff) \in 0..(Capacity - 1)
      /\ first = Capacity - Start(writeOff)
    BY <1>1, FirstBounds
<1>3. data' = Written(data, 0, rest, from)
    BY <1>1 DEF PushCopyRest
<1>4. readOff' = readOff /\ Filled = from /\ Filled' = writeOff + n
    BY <1>1, <1>2 DEF PushCopyRest, Filled
<1>5. DrainInv' /\ OutInv'
    BY DEF PushCopyRest, drainVars, IInv, DrainInv, DrainActive, Available, OutInv,
       DrainedInOrder, Emptied
<1> HIDE DEF first
<1>6. /\ rest \in Nat /\ from \in Nat /\ 0 + rest <= Capacity
      /\ from + rest <= readOff + Capacity /\ from + rest = writeOff + n
    <2>1. first \in Nat /\ first < n /\ n <= Capacity
        BY <1>1, <1>2, RingAssumption
    <2> QED BY <2>1, <1>1, RingAssumption
<1>7. Slots(from, 0, rest)
    <2> SUFFICES ASSUME NEW i \in Nat, i < rest
                 PROVE  (from + i) % Capacity = 0 + i
        BY DEF Slots
    <2>1. /\ i \in 0..(Capacity - 1) /\ 0 + i = i
          /\ from + i = writeOff + (Capacity - Start(writeOff)) + i
        BY <1>1, <1>2, <1>6, RingAssumption
    <2> QED BY <2>1, <1>1, SlotRest
<1> HIDE DEF rest, from
<1>8. data' \in [0..(Capacity - 1) -> Int]
    BY <1>1, <1>3, <1>6, WrittenType
<1>9. TypeOK' /\ OffsetsInv' /\ PushInv'
    BY <1>8, RingAssumption
       DEF IInv, TypeOK, PushPCs, OffsetsInv, PushInv, PushActive, PushCopyRest,
           drainVars
<1>10. InPlace(data, readOff, from)
    BY <1>4 DEF IInv, DataInv
<1>11. DataInv'
    <2>1. InPlace(Written(data, 0, rest, from), readOff, from + rest)
        BY <1>1, <1>6, <1>7, <1>10, SliceFills
    <2> QED BY <2>1, <1>3, <1>4, <1>6 DEF DataInv
<1> QED BY <1>5, <1>9, <1>11 DEF IInv

LEMMA PushStoreStep ==
    ASSUME IInv, PushStore
    PROVE  IInv'
<1> USE DEF PushStore, PublishedWrite, drainVars
<1>1. TypeOK' /\ OffsetsInv' /\ PushInv'
    BY RingAssumption DEF IInv, TypeOK, PushPCs, OffsetsInv, PushInv, PushActive
<1>2. DrainInv' /\ OutInv'
    BY RingAssumption
       DEF IInv, TypeOK, PushInv, PushActive, DrainInv, DrainActive, Available, OutInv,
           DrainedInOrder, Emptied
<1>3. DataInv'
    BY DEF IInv, DataInv, Filled, PushInv, PushActive
<1> QED BY <1>1, <1>2, <1>3 DEF IInv

-----------------------------------------------------------------------------
(* The steps of drain_available. *)

LEMMA DrainLoadsStep ==
    ASSUME IInv, DrainLoadRead \/ DrainLoadWrite
    PROVE  IInv'
<1> USE DEF DrainLoadRead, DrainLoadWrite, Overrun, shared, pushVars
<1>1. TypeOK' /\ OffsetsInv' /\ PushInv'
    BY RingAssumption
       DEF IInv, TypeOK, DrainPCs, OffsetsInv, PushInv, PushActive, DrainInv
<1>2. DrainInv'
    BY RingAssumption DEF IInv, TypeOK, OffsetsInv, DrainInv, DrainActive
<1>3. DataInv' /\ OutInv'
    BY <1>2 DEF IInv, DataInv, Filled, OutInv, DrainedInOrder, Emptied, DrainInv
<1> QED BY <1>1, <1>2, <1>3 DEF IInv

\* A slice read between the reader and the client's copy continues the stream.
LEMMA SliceContinues ==
    ASSUME NEW d \in [0..(Capacity - 1) -> Int], NEW s \in Seq(Int),
           NEW at \in Nat, NEW k \in Nat, at + k <= Capacity,
           NEW hi \in Nat, Len(s) + k <= hi,
           InOrder(s), Slots(Len(s), at, k), InPlace(d, Len(s), hi)
    PROVE  InOrder(Extended(s, d, at, k))
<1> SUFFICES ASSUME NEW i \in 1..(Len(s) + k)
             PROVE  Extended(s, d, at, k)[i] = i - 1
    BY ExtendedIsSeq DEF InOrder
<1>1. CASE i <= Len(s)
    BY <1>1 DEF Extended, InOrder
<1>2. CASE i > Len(s)
    <2> DEFINE m == i - Len(s) - 1
    <2>1. m \in Nat /\ m < k /\ at + (i - Len(s)) - 1 = at + m /\ Len(s) + m = i - 1
        BY <1>2
    <2>2. Extended(s, d, at, k)[i] = d[at + (i - Len(s)) - 1]
        BY <1>2 DEF Extended
    <2> HIDE DEF m
    <2>3. d[(Len(s) + m) % Capacity] = Len(s) + m
        BY <2>1 DEF InPlace
    <2>4. (Len(s) + m) % Capacity = at + m
        BY <2>1 DEF Slots
    <2> QED BY <2>1, <2>2, <2>3, <2>4
<1> QED BY <1>1, <1>2

LEMMA FilledBounds ==
    ASSUME IInv
    PROVE  Filled \in Int /\ writeOff <= Filled
<1>1. writeOff \in Nat /\ pWrite \in Nat /\ n \in Nat
    BY DEF IInv, TypeOK
<1>2. First(pWrite, n) \in Nat
    BY <1>1, FirstBounds
<1> QED BY <1>1, <1>2 DEF Filled

LEMMA DrainCopyFirstStep ==
    ASSUME IInv, DrainCopyFirst
    PROVE  IInv'
<1> DEFINE k  == First(dRead, Available)
           at == Start(dRead)
<1>1. /\ dRead = readOff /\ readOff \in Nat /\ writeOff \in Nat /\ dWrite \in Nat
      /\ dRead < dWrite /\ dWrite <= writeOff /\ n \in Nat
      /\ out \in Seq(Int) /\ Len(out) = readOff /\ DrainedInOrder
      /\ data \in [0..(Capacity - 1) -> Int]
    BY DEF DrainCopyFirst, IInv, TypeOK, OffsetsInv, DrainInv, DrainActive, OutInv, Emptied
<1>2. Available \in Nat /\ Available = dWrite - dRead
    BY <1>1 DEF Available
<1>3. /\ k \in 0..Available /\ at \in 0..(Capacity - 1)
      /\ at + k <= Capacity /\ at = Start(readOff)
    BY <1>1, <1>2, FirstBounds
<1>4. out' = Extended(out, data, at, k) /\ UNCHANGED <<shared, pushVars, dRead, dWrite>>
    BY DEF DrainCopyFirst
<1>5. DataInv'
    BY <1>4 DEF IInv, DataInv, Filled, shared, pushVars
<1> HIDE DEF k, at
<1>6. k \in Nat /\ at \in Nat /\ Len(out) + k <= writeOff
    BY <1>1, <1>2, <1>3, RingAssumption
<1>7. Slots(Len(out), at, k)
    BY <1>1, <1>3, <1>6, SlotFirst, RingAssumption DEF Slots
<1>8. InPlace(data, Len(out), writeOff)
    <2>1. Filled \in Int /\ writeOff <= Filled
        BY FilledBounds
    <2> QED BY <2>1, <1>1 DEF IInv, DataInv, InPlace
<1>9. out' \in Seq(Int) /\ Len(out') = readOff + k /\ DrainedInOrder'
    <2>1. Extended(out, data, at, k) \in Seq(Int)
          /\ Len(Extended(out, data, at, k)) = readOff + k
        BY <1>1, <1>3, <1>6, ExtendedIsSeq
    <2>2. InOrder(Extended(out, data, at, k))
        BY <1>1, <1>3, <1>6, <1>7, <1>8, SliceContinues DEF DrainedInOrder
    <2> QED BY <2>1, <2>2, <1>1, <1>4 DEF DrainedInOrder
<1>10. TypeOK' /\ OffsetsInv' /\ PushInv' /\ DrainInv'
    BY <1>9 DEF DrainCopyFirst, IInv, TypeOK, DrainPCs, OffsetsInv, PushInv, PushActive,
       DrainInv, DrainActive, Available, shared, pushVars
<1>11. OutInv'
    <2>1. /\ Available' = Available /\ dRead' = dRead /\ readOff' = readOff
          /\ dWrite' = dWrite
        BY <1>4 DEF Available, shared
    <2>2. CASE Available > k
        BY <2>1, <2>2, <1>9 DEF OutInv, Emptied, DrainCopyFirst, k
    <2>3. CASE Available = k
        BY <2>1, <2>3, <1>1, <1>2, <1>9 DEF OutInv, Emptied, DrainCopyFirst, k
    <2> QED BY <2>2, <2>3, <1>2, <1>3
<1> QED BY <1>5, <1>10, <1>11 DEF IInv

LEMMA DrainCopyRestStep ==
    ASSUME IInv, DrainCopyRest
    PROVE  IInv'
<1> DEFINE first == First(dRead, Available)
           k     == Available - first
<1>1. /\ dRead = readOff /\ readOff \in Nat /\ writeOff \in Nat /\ dWrite \in Nat
      /\ readOff <= writeOff /\ writeOff <= readOff + Capacity
      /\ dRead < dWrite /\ dWrite <= writeOff /\ n \in Nat
      /\ out \in Seq(Int) /\ Len(out) = readOff + first /\ DrainedInOrder
      /\ data \in [0..(Capacity - 1) -> Int] /\ Available > first
    BY DEF DrainCopyRest, IInv, TypeOK, OffsetsInv, DrainInv, DrainActive, OutInv, Emptied
<1>2. Available \in Nat /\ Available = dWrite - dRead
    BY <1>1 DEF Available
<1>3. /\ first \in 0..Available /\ Start(readOff) \in 0..(Capacity - 1)
      /\ first = Capacity - Start(readOff)
    BY <1>1, <1>2, FirstBounds
<1>4. out' = Extended(out, data, 0, k) /\ UNCHANGED <<shared, pushVars, dRead, dWrite>>
    BY DEF DrainCopyRest
<1>5. DataInv'
    BY <1>4 DEF IInv, DataInv, Filled, shared, pushVars
<1> HIDE DEF first
<1>6. /\ k \in Nat /\ 0 + k <= Capacity /\ Len(out) + k <= writeOff
      /\ Len(out) + k = dWrite
    <2>1. first \in Nat /\ first < Available /\ Available <= Capacity
        BY <1>1, <1>2, <1>3, RingAssumption
    <2> QED BY <2>1, <1>1, <1>2, RingAssumption
<1> HIDE DEF k
<1>7. Slots(Len(out), 0, k)
    <2> SUFFICES ASSUME NEW i \in Nat, i < k
                 PROVE  (Len(out) + i) % Capacity = 0 + i
        BY DEF Slots
    <2>1. /\ i \in 0..(Capacity - 1) /\ 0 + i = i
          /\ Len(out) + i = readOff + (Capacity - Start(readOff)) + i
        BY <1>1, <1>3, <1>6, RingAssumption
    <2> QED BY <2>1, <1>1, SlotRest
<1>8. InPlace(data, Len(out), writeOff)
    <2>1. Filled \in Int /\ writeOff <= Filled
        BY FilledBounds
    <2>2. first \in Nat /\ readOff <= Len(out)
        BY <1>1, <1>3
    <2> QED BY <2>1, <2>2, <1>1 DEF IInv, DataInv, InPlace
<1>9. out' \in Seq(Int) /\ Len(out') = dWrite /\ DrainedInOrder'
    <2>1. Extended(out, data, 0, k) \in Seq(Int)
          /\ Len(Extended(out, data, 0, k)) = dWrite
        BY <1>1, <1>6, ExtendedIsSeq
    <2>2. InOrder(Extended(out, data, 0, k))
        BY <1>1, <1>6, <1>7, <1>8, SliceContinues DEF DrainedInOrder
    <2> QED BY <2>1, <2>2, <1>4, <1>6 DEF DrainedInOrder
<1>10. TypeOK' /\ OffsetsInv' /\ PushInv' /\ DrainInv'
    BY <1>9 DEF DrainCopyRest, IInv, TypeOK, DrainPCs, OffsetsInv, PushInv, PushActive,
       DrainInv, DrainActive, Available, shared, pushVars
<1>11. OutInv'
    BY <1>9 DEF OutInv, Emptied, DrainCopyRest, shared
<1> QED BY <1>5, <1>10, <1>11 DEF IInv

LEMMA DrainStoreStep ==
    ASSUME IInv, DrainStore
    PROVE  IInv'
<1> USE DEF DrainStore, PublishedRead, pushVars
<1>1. TypeOK' /\ OffsetsInv' /\ PushInv' /\ DrainInv'
    BY RingAssumption
       DEF IInv, TypeOK, DrainPCs, OffsetsInv, PushInv, PushActive, DrainInv, DrainActive
<1>2. OutInv'
    BY DEF IInv, OutInv, DrainedInOrder, Emptied
<1>3. DataInv'
    <2>1. Filled' = Filled /\ readOff \in Nat /\ readOff' \in Nat /\ readOff <= readOff'
        BY DEF IInv, TypeOK, DrainInv, DrainActive, Filled
    <2> QED BY <2>1 DEF IInv, DataInv, InPlace
<1> QED BY <1>1, <1>2, <1>3 DEF IInv

-----------------------------------------------------------------------------
LEMMA StepIInv == IInv /\ [Next]_vars => IInv'
<1> SUFFICES ASSUME IInv, [Next]_vars PROVE IInv'
    OBVIOUS
<1>1. CASE Push
    BY <1>1, PushLoadReadStep, PushLoadWriteStep, PushCopyFirstStep,
       PushCopyRestStep, PushStoreStep DEF Push
<1>2. CASE Drain
    BY <1>2, DrainLoadsStep, DrainCopyFirstStep, DrainCopyRestStep,
       DrainStoreStep DEF Drain
<1>3. CASE UNCHANGED vars
    BY <1>3 DEF vars, shared, pushVars, drainVars, IInv, TypeOK, OffsetsInv, PushInv,
       PushActive, DrainInv, DrainActive, Available, DataInv, Filled, OutInv,
       DrainedInOrder, Emptied
<1> QED BY <1>1, <1>2, <1>3 DEF Next

LEMMA Invariance == Spec => []IInv
BY InitIInv, StepIInv, PTL DEF Spec

\* Offsets, bytes and the locals of both sides stay in their ranges.
THEOREM TypeCorrect == Spec => []TypeOK
BY Invariance, PTL DEF IInv

\* For every capacity and stream neither side ever reports an overrun.
THEOREM NeverOverrun == Spec => []NoOverrun
<1>1. IInv => NoOverrun
    BY DEF IInv, PushInv, DrainInv, NoOverrun
<1> QED BY <1>1, Invariance, PTL

\* For every capacity and stream the reader gets the stream itself.
THEOREM StreamInOrder == Spec => []DrainedInOrder
<1>1. IInv => DrainedInOrder
    BY DEF IInv, OutInv
<1> QED BY <1>1, Invariance, PTL
-----------------------------------------------------------------------------
(* The two sides never touch the same slot. *)

LEMMA PushRangeSlots ==
    ASSUME IInv, NEW s \in PushRange
    PROVE  \E k \in Nat : /\ writeOff <= k /\ k < readOff + Capacity
                          /\ k % Capacity = s
<1>1. /\ writeOff \in Nat /\ readOff \in Nat /\ n \in Nat /\ pRead \in Nat
      /\ PushActive => /\ pWrite = writeOff /\ pRead <= readOff
                       /\ writeOff + n <= pRead + Capacity
    BY DEF IInv, TypeOK, PushInv, PushActive
<1>2. /\ First(writeOff, n) \in 0..n /\ Start(writeOff) \in 0..(Capacity - 1)
      /\ Start(writeOff) + First(writeOff, n) <= Capacity
      /\ n > First(writeOff, n) => First(writeOff, n) = Capacity - Start(writeOff)
    BY <1>1, FirstBounds
<1> DEFINE f  == First(writeOff, n)
           at == Start(writeOff)
<1>3. CASE pushPC = "copyFirst"
    <2>1. s \in at..(at + f - 1) /\ PushActive
        BY <1>1, <1>3 DEF PushRange, PushActive
    <2> HIDE DEF f
    <2>2. f \in 0..n /\ at \in 0..(Capacity - 1) /\ at + f <= Capacity
        BY <1>2 DEF f
    <2> HIDE DEF at
    <2>3. /\ s - at \in Nat /\ s - at < f /\ at + (s - at) = s /\ at + (s - at) < Capacity
          /\ writeOff + (s - at) \in Nat
          /\ writeOff <= writeOff + (s - at)
          /\ writeOff + (s - at) < readOff + Capacity
        BY <1>1, <2>1, <2>2, RingAssumption
    <2>4. (writeOff + (s - at)) % Capacity = s
        BY <1>1, <2>3, SlotFirst DEF at
    <2> QED BY <2>3, <2>4
<1>4. CASE pushPC = "copyRest"
    <2>1. s \in 0..(n - f - 1) /\ PushActive /\ n > f
        BY <1>1, <1>4 DEF PushRange, PushActive, IInv, PushInv
    <2>2. f \in 0..n /\ at \in 0..(Capacity - 1) /\ f = Capacity - at
        BY <1>2, <2>1
    <2>3. readOff <= writeOff
        BY DEF IInv, OffsetsInv
    <2> HIDE DEF f, at
    <2> DEFINE k == writeOff + (Capacity - at) + s
    <2>4. /\ s \in 0..(Capacity - 1) /\ k \in Nat
          /\ writeOff <= k /\ k < readOff + Capacity
        BY <1>1, <2>1, <2>2, <2>3, RingAssumption
    <2>5. k % Capacity = s
        BY <1>1, <2>4, SlotRest DEF at
    <2> HIDE DEF k
    <2> QED BY <2>4, <2>5
<1> QED BY <1>3, <1>4 DEF PushRange

LEMMA DrainRangeSlots ==
    ASSUME IInv, NEW s \in DrainRange
    PROVE  \E j \in Nat : readOff <= j /\ j < writeOff /\ j % Capacity = s
<1>1. /\ readOff \in Nat /\ writeOff \in Nat /\ dWrite \in Nat
      /\ writeOff <= readOff + Capacity
      /\ DrainActive => dRead = readOff /\ dRead < dWrite /\ dWrite <= writeOff
    BY DEF IInv, TypeOK, OffsetsInv, DrainInv, DrainActive
<1>2. DrainActive
    BY DEF DrainRange, DrainActive
<1> DEFINE a  == dWrite - readOff
           f  == First(readOff, a)
           at == Start(readOff)
<1>3. a \in Nat /\ Available = a /\ readOff + a <= writeOff /\ a <= Capacity
    BY <1>1, <1>2, RingAssumption DEF Available
<1>4. /\ f \in 0..a /\ at \in 0..(Capacity - 1) /\ at + f <= Capacity
      /\ a > f => f = Capacity - at
    BY <1>1, <1>3, FirstBounds
<1>5. CASE drainPC = "copyFirst"
    <2>1. s \in at..(at + f - 1)
        BY <1>1, <1>2, <1>3, <1>5 DEF DrainRange
    <2> HIDE DEF a, f, at
    <2>2. /\ s - at \in Nat /\ s - at < f /\ at + (s - at) = s /\ at + (s - at) < Capacity
          /\ readOff + (s - at) \in Nat
          /\ readOff <= readOff + (s - at)
          /\ readOff + (s - at) < writeOff
        BY <1>1, <1>3, <1>4, <2>1, RingAssumption
    <2>3. (readOff + (s - at)) % Capacity = s
        BY <1>1, <2>2, SlotFirst DEF at
    <2> QED BY <2>2, <2>3
<1>6. CASE drainPC = "copyRest"
    <2>1. s \in 0..(a - f - 1)
        BY <1>1, <1>2, <1>3, <1>6 DEF DrainRange
    <2>2. a > f
        BY <1>1, <1>2, <1>3, <1>6 DEF IInv, DrainInv
    <2> HIDE DEF a, f, at
    <2> DEFINE j == readOff + (Capacity - at) + s
    <2>3. /\ s \in 0..(Capacity - 1) /\ j \in Nat
          /\ readOff <= j /\ j < writeOff
        BY <1>1, <1>3, <1>4, <2>1, <2>2, RingAssumption
    <2>4. j % Capacity = s
        BY <1>1, <2>3, SlotRest DEF at
    <2> HIDE DEF j
    <2> QED BY <2>3, <2>4
<1> QED BY <1>5, <1>6 DEF DrainRange

\* For every capacity, no byte is written by one side while the other reads it.
THEOREM NeverDataRace == Spec => []NoDataRace
<1>1. IInv => NoDataRace
    <2> SUFFICES ASSUME IInv, NEW s, s \in PushRange, s \in DrainRange
                 PROVE  FALSE
        BY DEF NoDataRace
    <2>1. PICK k \in Nat : /\ writeOff <= k /\ k < readOff + Capacity
                           /\ k % Capacity = s
        BY PushRangeSlots
    <2>2. PICK j \in Nat : readOff <= j /\ j < writeOff /\ j % Capacity = s
        BY DrainRangeSlots
    <2>3. j < k /\ k < j + Capacity
        BY <2>1, <2>2, RingAssumption DEF IInv, TypeOK
    <2> QED BY <2>1, <2>2, <2>3, SlotInjective
<1> QED BY <1>1, Invariance, PTL

-----------------------------------------------------------------------------
(* The offsets only grow, and the ring implements the byte pipe. *)

LEMMA DifferenceBound ==
    ASSUME NEW a \in Nat, NEW b \in Nat, a <= b + Capacity
    PROVE  a - b <= Capacity
BY RingAssumption

LEMMA StepMonotone ==
    ASSUME IInv, IInv', [Next]_vars
    PROVE  /\ readOff' >= readOff /\ writeOff' >= writeOff
           /\ writeOff' - readOff' <= Capacity
<1>1. /\ readOff \in Nat /\ writeOff \in Nat /\ readOff' \in Nat /\ writeOff' \in Nat
      /\ writeOff' <= readOff' + Capacity
    BY DEF IInv, TypeOK, OffsetsInv
<1>2. readOff' >= readOff /\ writeOff' >= writeOff
    <2>1. CASE PushStore
        BY <1>1, <2>1 DEF PushStore, PublishedWrite, IInv, TypeOK, PushInv, PushActive
    <2>2. CASE DrainStore
        BY <1>1, <2>2 DEF DrainStore, PublishedRead, IInv, TypeOK, DrainInv, DrainActive
    <2>3. CASE UNCHANGED <<readOff, writeOff>>
        BY <1>1, <2>3
    <2>4. PushStore \/ DrainStore \/ UNCHANGED <<readOff, writeOff>>
        BY DEF Next, Push, Drain, PushLoadRead, PushLoadWrite, PushCopyFirst, PushCopyRest,
           DrainLoadRead, DrainLoadWrite, DrainCopyFirst, DrainCopyRest, vars, shared
    <2> QED BY <2>1, <2>2, <2>3, <2>4
<1>3. writeOff' - readOff' <= Capacity
    BY <1>1, DifferenceBound, RingAssumption, Zenon
<1> QED BY <1>2, <1>3

\* For every capacity the offsets never go back and never overtake a full ring.
THEOREM Monotone == Spec => OffsetsMonotone
<1>1. IInv /\ IInv' /\ [Next]_vars
        => [readOff' >= readOff /\ writeOff' >= writeOff
              /\ writeOff' - readOff' <= Capacity]_vars
    BY StepMonotone
<1> QED BY <1>1, Invariance, PTL DEF Spec, OffsetsMonotone

\* What the reader has acknowledged is a prefix of the stream.
LEMMA TakenIsPrefix ==
    ASSUME IInv
    PROVE  [i \in 1..readOff |-> out[i]] = [i \in 1..readOff |-> i - 1]
<1>1. readOff \in Nat /\ readOff <= Len(out) /\ Len(out) \in Nat
    <2>1. readOff \in Nat /\ dRead \in Nat /\ dWrite \in Nat /\ out \in Seq(Int)
        BY DEF IInv, TypeOK
    <2>2. CASE drainPC = "copyRest"
        <3>1. Available \in Nat
            BY <2>1, <2>2 DEF IInv, DrainInv, DrainActive, Available
        <3>2. First(dRead, Available) \in Nat
            <4>1. First(dRead, Available) \in 0..Available
                BY <2>1, <3>1, FirstBounds
            <4> QED BY <4>1, <3>1
        <3> QED BY <2>1, <2>2, <3>2 DEF IInv, OutInv, Emptied
    <2>3. CASE drainPC # "copyRest"
        BY <2>1, <2>3 DEF IInv, OutInv, Emptied, DrainInv, DrainActive
    <2> QED BY <2>2, <2>3
<1>2. \A i \in 1..readOff : out[i] = i - 1
    BY <1>1 DEF IInv, OutInv, DrainedInOrder, InOrder
<1> QED BY <1>2

\* For every capacity and stream the ring implements the bounded byte pipe.
THEOREM RingImplementsStream == Spec => ImplementsStream
<1> DEFINE taken == [i \in 1..readOff |-> out[i]]
<1>1. Init => Stream!StreamInit
    BY DEF Init, Stream!StreamInit
<1>2. ASSUME IInv, IInv', [Next]_vars
      PROVE  [Stream!StreamNext]_(Stream!streamVars)
    <2>1. taken = [i \in 1..readOff |-> i - 1] /\ taken' = [i \in 1..readOff' |-> i - 1]
        <3>1. taken = [i \in 1..readOff |-> i - 1]
            BY <1>2, TakenIsPrefix
        <3>2. (taken = [i \in 1..readOff |-> i - 1])'
            BY <1>2, TakenIsPrefix, PTL
        <3> QED BY <3>1, <3>2
    <2>2. /\ readOff \in Nat /\ writeOff \in Nat /\ readOff' \in Nat
          /\ writeOff' \in 0..StreamLen
          /\ readOff <= writeOff /\ writeOff' <= readOff' + Capacity
          /\ readOff' <= writeOff'
        <3>1. /\ readOff \in Nat /\ writeOff \in Nat /\ readOff <= writeOff
            BY <1>2 DEF IInv, TypeOK, OffsetsInv
        <3>2. /\ readOff' \in Nat /\ writeOff' \in 0..StreamLen
              /\ writeOff' <= readOff' + Capacity /\ readOff' <= writeOff'
            BY <1>2 DEF IInv, TypeOK, OffsetsInv
        <3> QED BY <3>1, <3>2
    <2>3. CASE PushStore
        <3>1. /\ readOff' = readOff /\ writeOff' = writeOff + n
              /\ n \in 1..StreamLen /\ taken' = taken
              /\ writeOff + n <= StreamLen /\ writeOff + n <= readOff + Capacity
            BY <1>2, <2>1, <2>3, RingAssumption
               DEF PushStore, PublishedWrite, IInv, TypeOK, PushInv, PushActive
        <3>2. Len(taken) = readOff
            BY <2>1, <2>2
        <3>3. writeOff + n - readOff <= Capacity
            BY <3>1, <2>2, RingAssumption
        <3>4. Stream!Extend(n)
            BY <3>1, <3>2, <3>3 DEF Stream!Extend
        <3> QED BY <3>1, <3>4 DEF Stream!StreamNext
    <2>4. CASE DrainStore
        <3>1. /\ writeOff' = writeOff /\ readOff' = dWrite
              /\ dWrite - readOff \in 1..StreamLen /\ dWrite <= writeOff
              /\ dWrite \in Nat
            BY <1>2, <2>4, RingAssumption
               DEF DrainStore, PublishedRead, IInv, TypeOK, DrainInv, DrainActive
        <3>2. PICK m \in 1..StreamLen : m = dWrite - readOff
            BY <3>1
        <3>3. readOff' = readOff + m /\ readOff + m <= writeOff /\ Len(taken) = readOff
            BY <2>1, <2>2, <3>1, <3>2
        <3>4. taken' = [i \in 1..(readOff + m) |-> IF i <= readOff
                                                     THEN taken[i] ELSE i - 1]
            BY <2>1, <2>2, <3>3
        <3>5. Stream!Take(m)
            BY <3>1, <3>3, <3>4 DEF Stream!Take
        <3> QED BY <3>5 DEF Stream!StreamNext
    <2>5. CASE UNCHANGED <<readOff, writeOff>>
        BY <2>1, <2>5 DEF Stream!streamVars
    <2>6. PushStore \/ DrainStore \/ UNCHANGED <<readOff, writeOff>>
        BY <1>2 DEF Next, Push, Drain, PushLoadRead, PushLoadWrite, PushCopyFirst,
           PushCopyRest, DrainLoadRead, DrainLoadWrite, DrainCopyFirst, DrainCopyRest,
           vars, shared
    <2> QED BY <2>3, <2>4, <2>5, <2>6
<1> QED BY <1>1, <1>2, Invariance, PTL DEF Spec, ImplementsStream, Stream!StreamSpec
=============================================================================
