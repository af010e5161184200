------------------------------ MODULE AudioRing ------------------------------
(***************************************************************************)
(* SharedAudioRing of rkwhisper-protocol: a single-producer, single-       *)
(* consumer ring of bytes in a memfd mapped by both the client and the     *)
(* daemon.  The client runs push_available, the daemon's reader thread     *)
(* runs drain_available.  The two processes share nothing but the bytes    *)
(* and two 64-bit offsets that only grow; each atomic load and store of an *)
(* offset, and each copy of a contiguous slice, is a step of its own.      *)
(*                                                                         *)
(* Bytes are named by their position in the stream.  The acquire loads and *)
(* release stores make a late load equivalent to an earlier step of the    *)
(* loading side, so interleaving these steps covers the memory model.      *)
(***************************************************************************)
EXTENDS Integers, Sequences

CONSTANTS Capacity,     \* capacity_bytes of the ring
          StreamLen     \* bytes the client sends in all (bounds the model)

ASSUME RingAssumption == Capacity \in Nat \ {0} /\ StreamLen \in Nat

NoByte == -1            \* content of a byte of the fresh memfd

VARIABLES
    readOff, writeOff,  \* the shared AtomicU64 offsets
    data,               \* the shared bytes, a function on 0..Capacity-1
    pushPC,             \* where push_available is
    len,                \* data.len() of the call
    pRead, pWrite,      \* the offsets it loaded
    n,                  \* to_write
    drainPC,            \* where drain_available is
    dRead, dWrite,      \* the offsets it loaded
    out                 \* everything the reader's Vec has received

shared    == <<readOff, writeOff, data>>
pushVars  == <<pushPC, len, pRead, pWrite, n>>
drainVars == <<drainPC, dRead, dWrite, out>>
vars      == <<shared, pushVars, drainVars>>

PushPCs  == {"idle", "loadWrite", "copyFirst", "copyRest", "store", "overrun"}
DrainPCs == {"idle", "loadWrite", "copyFirst", "copyRest", "store", "overrun"}

Smaller(a, b) == IF a <= b THEN a ELSE b

-----------------------------------------------------------------------------
\* Positions in the ring of a copy of k bytes that starts at stream offset o:
\* the slice up to the end of the ring, then the slice from its beginning.
Start(o)    == o % Capacity
First(o, k) == Smaller(k, Capacity - Start(o))

\* copy_from_nonoverlapping of the k stream bytes from.. to ring index at.
Written(d, at, k, from) ==
    [i \in 0..(Capacity - 1) |->
        IF i >= at /\ i < at + k THEN from + (i - at) ELSE d[i]]

\* extend_from_slice of the k bytes at ring index at.
Extended(s, d, at, k) ==
    [i \in 1..(Len(s) + k) |->
        IF i <= Len(s) THEN s[i] ELSE d[at + (i - Len(s)) - 1]]

\* Faulty variants of the definitions below: an off-by-one at a full ring, a
\* write offset counted one too far, and a read offset that is loaded again
\* instead of being the one copied up to.
RoomOffByOne == Capacity + 1 - (writeOff - pRead)
WriteTooFar  == pWrite + n + 1
ReadReloaded == writeOff

\* Room for the client: a full ring leaves none.
Room == Capacity - (writeOff - pRead)

\* The offsets the two sides publish when their copy is complete.
PublishedWrite == pWrite + n
PublishedRead  == dWrite

-----------------------------------------------------------------------------
Init ==
    /\ readOff = 0 /\ writeOff = 0
    /\ data = [i \in 0..(Capacity - 1) |-> NoByte]
    /\ pushPC = "idle" /\ len = 0 /\ pRead = 0 /\ pWrite = 0 /\ n = 0
    /\ drainPC = "idle" /\ dRead = 0 /\ dWrite = 0
    /\ out = <<>>

\* push_available of a slice of k bytes: load the read offset.
PushLoadRead(k) ==
    /\ pushPC = "idle"
    /\ writeOff + k <= StreamLen
    /\ pushPC' = "loadWrite" /\ len' = k /\ pRead' = readOff
    /\ UNCHANGED <<shared, pWrite, n, drainVars>>

\* More bytes are published and not consumed than the ring holds.
Overrun(read) == writeOff - read > Capacity

\* Load the write offset; an overrun is an error, a full ring returns Ok(0),
\* otherwise as much of the slice as fits is to be written.
PushLoadWrite ==
    /\ pushPC = "loadWrite"
    /\ pWrite' = writeOff /\ n' = Smaller(len, Room)
    /\ pushPC' = IF Overrun(pRead) THEN "overrun"
                 ELSE IF Room = 0 THEN "idle" ELSE "copyFirst"
    /\ UNCHANGED <<shared, len, pRead, drainVars>>

PushCopyFirst ==
    /\ pushPC = "copyFirst"
    /\ data' = Written(data, Start(pWrite), First(pWrite, n), pWrite)
    /\ pushPC' = IF n > First(pWrite, n) THEN "copyRest" ELSE "store"
    /\ UNCHANGED <<readOff, writeOff, len, pRead, pWrite, n, drainVars>>

PushCopyRest ==
    /\ pushPC = "copyRest"
    /\ LET first == First(pWrite, n) IN
       data' = Written(data, 0, n - first, pWrite + first)
    /\ pushPC' = "store"
    /\ UNCHANGED <<readOff, writeOff, len, pRead, pWrite, n, drainVars>>

PushStore ==
    /\ pushPC = "store"
    /\ writeOff' = PublishedWrite
    /\ pushPC' = "idle"
    /\ UNCHANGED <<readOff, data, len, pRead, pWrite, n, drainVars>>

-----------------------------------------------------------------------------
\* drain_available: load the read offset, then the write offset.
DrainLoadRead ==
    /\ drainPC = "idle"
    /\ drainPC' = "loadWrite" /\ dRead' = readOff
    /\ UNCHANGED <<shared, pushVars, dWrite, out>>

DrainLoadWrite ==
    /\ drainPC = "loadWrite"
    /\ dWrite' = writeOff
    /\ drainPC' = IF Overrun(dRead) THEN "overrun"
                  ELSE IF writeOff <= dRead THEN "idle" ELSE "copyFirst"
    /\ UNCHANGED <<shared, pushVars, dRead, out>>

Available == dWrite - dRead

DrainCopyFirst ==
    /\ drainPC = "copyFirst"
    /\ out' = Extended(out, data, Start(dRead), First(dRead, Available))
    /\ drainPC' = IF Available > First(dRead, Available) THEN "copyRest"
                                                         ELSE "store"
    /\ UNCHANGED <<shared, pushVars, dRead, dWrite>>

DrainCopyRest ==
    /\ drainPC = "copyRest"
    /\ out' = Extended(out, data, 0, Available - First(dRead, Available))
    /\ drainPC' = "store"
    /\ UNCHANGED <<shared, pushVars, dRead, dWrite>>

DrainStore ==
    /\ drainPC = "store"
    /\ readOff' = PublishedRead
    /\ drainPC' = "idle"
    /\ UNCHANGED <<writeOff, data, pushVars, dRead, dWrite, out>>

-----------------------------------------------------------------------------
Push  == \/ \E k \in 1..StreamLen : PushLoadRead(k)
         \/ PushLoadWrite \/ PushCopyFirst \/ PushCopyRest \/ PushStore
Drain == \/ DrainLoadRead \/ DrainLoadWrite
         \/ DrainCopyFirst \/ DrainCopyRest \/ DrainStore

Next == Push \/ Drain

Spec == Init /\ [][Next]_vars

\* send_audio retries a push that found the ring full, and the reader drains
\* at every signal: both loops keep running.
FairSpec == Spec /\ WF_vars(Push) /\ WF_vars(Drain)

-----------------------------------------------------------------------------
\* Offsets, locals and bytes stay in their ranges.
TypeOK ==
    /\ readOff \in 0..StreamLen /\ writeOff \in 0..StreamLen
    /\ data \in [0..(Capacity - 1) -> Int]
    /\ pushPC \in PushPCs /\ drainPC \in DrainPCs
    /\ len \in 0..StreamLen /\ n \in 0..StreamLen
    /\ pRead \in 0..StreamLen /\ pWrite \in 0..StreamLen
    /\ dRead \in 0..StreamLen /\ dWrite \in 0..StreamLen
    /\ out \in Seq(Int)

\* Neither side ever reports "shared-memory ring overrun" (lib.rs 437, 457):
\* each loads the other's offset before its own, and a stale offset must only
\* make it see less room or fewer bytes.
NoOverrun == pushPC # "overrun" /\ drainPC # "overrun"

InOrder(s) == \A i \in 1..Len(s) : s[i] = i - 1

\* The bytes the reader has copied out are the stream itself, from its first
\* byte, without a gap, a repeat or a byte that a wrapping push overwrote
\* before it was read.
DrainedInOrder == InOrder(out)

\* The ring index ranges of a copy in progress: {} outside the copy steps.
PushRange ==
    CASE pushPC = "copyFirst" ->
            Start(pWrite)..(Start(pWrite) + First(pWrite, n) - 1)
      [] pushPC = "copyRest" ->
            0..(n - First(pWrite, n) - 1)
      [] OTHER -> {}
DrainRange ==
    CASE drainPC = "copyFirst" ->
            Start(dRead)..(Start(dRead) + First(dRead, Available) - 1)
      [] drainPC = "copyRest" ->
            0..(Available - First(dRead, Available) - 1)
      [] OTHER -> {}

\* The two processes never touch the same byte of the mapping at the same
\* time: the plain memory accesses of write_data_slice and data_slice are
\* free of data races although nothing but the offsets orders them.
NoDataRace == PushRange \cap DrainRange = {}

\* The offsets only grow, and what has been written and not read fits.
OffsetsMonotone == [][readOff' >= readOff /\ writeOff' >= writeOff
                        /\ writeOff' - readOff' <= Capacity]_vars

\* The ring implements the bounded byte pipe: a push takes effect at its
\* store of the write offset, a drain at its store of the read offset.
Stream == INSTANCE ByteStream
            WITH pushed <- writeOff,
                 taken  <- [i \in 1..readOff |-> out[i]]
ImplementsStream == Stream!StreamSpec

\* The client's send loop gets the whole stream through the ring, however
\* small the ring is: what one side waits for the other always provides.
EverythingDrained == <>[](Len(out) = StreamLen)
=============================================================================
