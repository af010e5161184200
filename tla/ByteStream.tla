----------------------------- MODULE ByteStream -----------------------------
(***************************************************************************)
(* What the shared-memory audio ring promises to its two ends: a bounded,  *)
(* lossless, ordered pipe of bytes.  The client appends bytes to the       *)
(* stream, the daemon takes the bytes appended so far.  A byte is named by *)
(* its position in the stream, so that a lost, duplicated or reordered     *)
(* byte is a different sequence.                                           *)
(***************************************************************************)
EXTENDS Integers, Sequences

CONSTANTS Capacity,     \* bytes the pipe holds
          StreamLen     \* length of the whole stream (a bound on the client)

VARIABLES pushed,       \* number of bytes appended so far
          taken         \* the bytes handed to the daemon, in order

streamVars == <<pushed, taken>>

StreamInit == pushed = 0 /\ taken = <<>>

\* n more bytes enter the pipe; they fit in what the daemon has not taken.
Extend(n) ==
    /\ pushed + n <= StreamLen
    /\ pushed + n - Len(taken) <= Capacity
    /\ pushed' = pushed + n
    /\ UNCHANGED taken

\* The daemon takes the next n bytes.
Take(n) ==
    /\ Len(taken) + n <= pushed
    /\ taken' = [i \in 1..(Len(taken) + n) |-> IF i <= Len(taken)
                                                  THEN taken[i] ELSE i - 1]
    /\ UNCHANGED pushed

StreamNext == \E n \in 1..StreamLen : Extend(n) \/ Take(n)

StreamSpec == StreamInit /\ [][StreamNext]_streamVars
=============================================================================
