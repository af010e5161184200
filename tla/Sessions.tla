------------------------------ MODULE Sessions -------------------------------
(***************************************************************************)
(* The daemon's side of its connections (handle_connection) and their      *)
(* reader threads (read_live_chunks).  A session submits its job to the    *)
(* model scheduler through a bounded queue that refuses when it is full;   *)
(* after that its reader feeds audio into the bounded chunk queue and the  *)
(* session thread writes to the client what the scheduler puts into the    *)
(* bounded response queue.                                                 *)
(*                                                                         *)
(* One unit of audio is one chunk (512 samples; the last may be shorter).  *)
(* What the job's owner does with the other ends of the queues is in       *)
(* LiveScheduler; "held" says whether that owner still has them.           *)
(***************************************************************************)
EXTENDS Integers, Sequences, FiniteSets

CONSTANTS Sessions,
          MaxChunks,        \* chunks a client sends at most (bounds the model)
          ChunkQueue,       \* client_window_queue_depth
          ResponseQueue,    \* client_response_queue_depth
          JobQueue,         \* model_queue_depth
          Faults            \* what clients may do: "cancel", "bad signal", "leave";
                            \* what else may go wrong: "bad stream", "no thread"

ASSUME SessionsAssumption ==
    /\ {MaxChunks, ChunkQueue, ResponseQueue, JobQueue} \subseteq Nat \ {0}
    /\ Faults \subseteq {"cancel", "bad signal", "leave", "bad stream", "no thread"}

VARIABLES
    phase,      \* the session thread
    reader,     \* its reader thread, with what it returned
    sent,       \* chunks the reader has passed on
    chunkQ,     \* window_tx / window_rx
    respQ,      \* response_tx / response_rx
    heard,      \* what the client has been sent: the last segment, from and
                \* to, and the last speech event
    final,      \* the job's Finished, then the last response to the client
    jobQ        \* job_tx / job_rx of the model

sessionVars == <<phase, reader, sent, chunkQ, respQ, heard, final, jobQ>>

Phases  == {"new", "refused", "live", "joining", "ended", "gone"}
Readers == {"none", "reading", "sending", "completed", "cancelled", "failed"}
Finals  == {"none", "ok", "err", "done", "cancelled", "error"}

\* response_rx exists; the reader thread, and with it window_tx, exists.
Listening(s) == phase[s] \in {"live", "joining"}
Reading(s)   == reader[s] \in {"reading", "sending"}

SessionsInit ==
    /\ phase  = [s \in Sessions |-> "new"]
    /\ reader = [s \in Sessions |-> "none"]
    /\ sent   = [s \in Sessions |-> 0]
    /\ chunkQ = [s \in Sessions |-> <<>>]
    /\ respQ  = [s \in Sessions |-> <<>>]
    /\ heard  = [s \in Sessions |-> [from |-> 0, upTo |-> 0, speech |-> 0]]
    /\ final  = [s \in Sessions |-> "none"]
    /\ jobQ   = <<>>

-----------------------------------------------------------------------------
(* The session thread.                                                     *)

\* try_send succeeds.
JobQueueRoom == Len(jobQ) < JobQueue

\* submit: try_send to the model; a full queue is a BackOff.
Submit(s) ==
    /\ phase[s] = "new"
    /\ IF JobQueueRoom
       THEN /\ phase'  = [phase EXCEPT ![s] = "live"]
            /\ reader' = [reader EXCEPT ![s] = "reading"]
            /\ jobQ'   = Append(jobQ, s)
       ELSE /\ phase' = [phase EXCEPT ![s] = "refused"]
            /\ UNCHANGED <<reader, jobQ>>
    /\ UNCHANGED <<sent, chunkQ, respQ, heard, final>>

\* The job is submitted, but the system has no thread for the reader: the
\* session thread returns, and its ends of the queues go with it.
SpawnFails(s) ==
    /\ "no thread" \in Faults
    /\ phase[s] = "new" /\ JobQueueRoom
    /\ phase' = [phase EXCEPT ![s] = "gone"]
    /\ jobQ'  = Append(jobQ, s)
    /\ UNCHANGED <<reader, sent, chunkQ, respQ, heard, final>>

\* A segment or a speech event goes to the client.
Heard(h, r) ==
    CASE r.kind = "segment" -> [h EXCEPT !.from = r.from, !.upTo = r.to]
      [] r.kind = "speech"  -> [h EXCEPT !.speech = r.at]
      [] OTHER -> h

WriteResponse(s) ==
    /\ phase[s] = "live" /\ respQ[s] # <<>>
    /\ Head(respQ[s]).kind # "finished"
    /\ heard' = [heard EXCEPT ![s] = Heard(@, Head(respQ[s]))]
    /\ respQ' = [respQ EXCEPT ![s] = Tail(@)]
    /\ UNCHANGED <<phase, reader, sent, chunkQ, final, jobQ>>

\* The client has gone: the write fails and the thread returns, dropping
\* response_rx and leaving its reader to itself.
WriteFails(s) ==
    /\ "leave" \in Faults
    /\ phase[s] = "live" /\ respQ[s] # <<>>
    /\ Head(respQ[s]).kind # "finished"
    /\ phase' = [phase EXCEPT ![s] = "gone"]
    /\ respQ' = [respQ EXCEPT ![s] = <<>>]
    /\ UNCHANGED <<reader, sent, chunkQ, heard, final, jobQ>>

\* Finished: nothing more is read from response_rx, and the reader is joined.
TakeFinished(s) ==
    /\ phase[s] = "live" /\ respQ[s] # <<>>
    /\ Head(respQ[s]).kind = "finished"
    /\ final' = [final EXCEPT ![s] = IF Head(respQ[s]).ok THEN "ok" ELSE "err"]
    /\ phase' = [phase EXCEPT ![s] = "joining"]
    /\ respQ' = [respQ EXCEPT ![s] = Tail(@)]
    /\ UNCHANGED <<reader, sent, chunkQ, heard, jobQ>>

\* write_final_response, from what the reader and the job returned.
FinalResponse(read, job) ==
    CASE read = "failed" \/ job = "err" -> "error"
      [] read = "completed" /\ job # "err" -> "done"
      [] read = "cancelled" /\ job # "err" -> "cancelled"

JoinReader(s) ==
    /\ phase[s] = "joining" /\ ~Reading(s)
    /\ final' = [final EXCEPT ![s] = FinalResponse(reader[s], @)]
    /\ phase' = [phase EXCEPT ![s] = "ended"]
    /\ respQ' = [respQ EXCEPT ![s] = <<>>]
    /\ UNCHANGED <<reader, sent, chunkQ, heard, jobQ>>

-----------------------------------------------------------------------------
(* The reader thread.  Its sends wait for room; they fail, and the reader  *)
(* with them, when the job has dropped chunk_rx.                           *)

\* A signal, and enough bytes in the ring for a chunk.
ReadAudio(s) ==
    /\ reader[s] = "reading" /\ sent[s] < MaxChunks
    /\ reader' = [reader EXCEPT ![s] = "sending"]
    /\ UNCHANGED <<phase, sent, chunkQ, respQ, heard, final, jobQ>>

SendChunk(s, held) ==
    /\ reader[s] = "sending"
    /\ held => Len(chunkQ[s]) < ChunkQueue
    /\ IF held
       THEN /\ chunkQ' = [chunkQ EXCEPT ![s] = Append(@, "audio")]
            /\ sent'   = [sent EXCEPT ![s] = @ + 1]
            /\ reader' = [reader EXCEPT ![s] = "reading"]
       ELSE /\ reader' = [reader EXCEPT ![s] = "failed"]
            /\ UNCHANGED <<chunkQ, sent>>
    /\ UNCHANGED <<phase, respQ, heard, final, jobQ>>

\* End of stream, or end of file: the stream is complete.
EndOfStream(s) ==
    /\ reader[s] = "reading"
    /\ reader' = [reader EXCEPT ![s] = "completed"]
    /\ UNCHANGED <<phase, sent, chunkQ, respQ, heard, final, jobQ>>

Cancel(s) ==
    /\ "cancel" \in Faults
    /\ reader[s] = "reading"
    /\ reader' = [reader EXCEPT ![s] = "cancelled"]
    /\ UNCHANGED <<phase, sent, chunkQ, respQ, heard, final, jobQ>>

\* An unknown signal is an error for the job and for the reader.
BadSignal(s, held) ==
    /\ "bad signal" \in Faults
    /\ reader[s] = "reading"
    /\ held => Len(chunkQ[s]) < ChunkQueue
    /\ reader' = [reader EXCEPT ![s] = "failed"]
    /\ chunkQ' = IF held THEN [chunkQ EXCEPT ![s] = Append(@, "error")]
                         ELSE chunkQ
    /\ UNCHANGED <<phase, sent, respQ, heard, final, jobQ>>

\* A read error, a ring with impossible offsets, or an odd number of bytes in
\* the last chunk: an error for the reader alone, the job sees its queue end.
ReaderFails(s) ==
    /\ "bad stream" \in Faults
    /\ reader[s] = "reading"
    /\ reader' = [reader EXCEPT ![s] = "failed"]
    /\ UNCHANGED <<phase, sent, chunkQ, respQ, heard, final, jobQ>>

SessionThread(s) ==
    \/ Submit(s) \/ SpawnFails(s) \/ WriteResponse(s) \/ WriteFails(s)
    \/ TakeFinished(s) \/ JoinReader(s)

ReaderThread(s, held) ==
    \/ ReadAudio(s) \/ SendChunk(s, held)
    \/ EndOfStream(s) \/ Cancel(s) \/ BadSignal(s, held) \/ ReaderFails(s)
=============================================================================
