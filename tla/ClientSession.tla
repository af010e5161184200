---------------------------- MODULE ClientSession ----------------------------
(***************************************************************************)
(* A client of the daemon (rkwhisper-client), from its first sample to the *)
(* last response, composed with the sessions, the scheduler and the        *)
(* workers.  Between the two processes are the shared audio ring, whose    *)
(* contents the client announces with signals, and the socket: signals one *)
(* way, a bounded number of responses the other.  The reader thread drains *)
(* the ring into a buffer and cuts that into chunks (flush_pcm_chunks).  A *)
(* client that has split its session sends and receives at the same time;  *)
(* transcribe_all first sends everything.                                  *)
(***************************************************************************)
EXTENDS LiveProperties

CONSTANTS StreamUnits,      \* length of the audio each client has, in units
          ChunkUnits,       \* units in a chunk (chunk_bytes)
          RingUnits,        \* units the ring holds (RING_DATA_BYTES)
          SocketResponses,  \* responses the socket holds
          Split             \* split() and two threads, or transcribe_all

ASSUME ClientAssumption ==
    /\ {StreamUnits, ChunkUnits, RingUnits, SocketResponses} \subseteq Nat \ {0}
    /\ StreamUnits <= MaxChunks * ChunkUnits
    /\ Split \in BOOLEAN

VARIABLES
    client,     \* what the client's sending half is doing
    pushed,     \* units it has pushed into the ring
    announced,  \* units it had pushed at its last signal
    signals,    \* its signals in the socket
    ring,       \* units in the ring
    pcm,        \* units in the reader's buffer
    closing,    \* the reader is at its final flush
    socket,     \* responses in the socket
    over        \* the client has received the last response

senderVars == <<client, pushed, announced>>
readerVars == <<pcm, closing>>
clientVars == <<senderVars, signals, ring, readerVars, socket, over>>
allVars    == <<vars, clientVars>>

ClientInit ==
    /\ Init
    /\ client    = [s \in Sessions |-> "push"]
    /\ pushed    = [s \in Sessions |-> 0]
    /\ announced = [s \in Sessions |-> 0]
    /\ signals   = [s \in Sessions |-> <<>>]
    /\ ring      = [s \in Sessions |-> 0]
    /\ pcm       = [s \in Sessions |-> 0]
    /\ closing   = [s \in Sessions |-> FALSE]
    /\ socket    = [s \in Sessions |-> <<>>]
    /\ over      = [s \in Sessions |-> FALSE]

-----------------------------------------------------------------------------
(* The client.                                                             *)

\* push_available takes what fits, one unit at least; send_audio repeats a
\* push that found the ring full.
PushAudio(s) ==
    /\ client[s] = "push" /\ pushed[s] < StreamUnits /\ ring[s] < RingUnits
    /\ \E n \in 1..(RingUnits - ring[s]) :
        /\ pushed[s] + n <= StreamUnits
        /\ pushed' = [pushed EXCEPT ![s] = @ + n]
        /\ ring'   = [ring EXCEPT ![s] = @ + n]
    /\ client' = [client EXCEPT ![s] = "signal"]
    /\ UNCHANGED <<vars, announced, signals, readerVars, socket, over>>

Signal(s, signal) == signals' = [signals EXCEPT ![s] = Append(@, signal)]

\* SIGNAL_DATA_READY.
SignalAudio(s) ==
    /\ client[s] = "signal"
    /\ Signal(s, "data")
    /\ announced' = [announced EXCEPT ![s] = pushed[s]]
    /\ client' = [client EXCEPT ![s] = "push"]
    /\ UNCHANGED <<vars, pushed, ring, readerVars, socket, over>>

\* finish, after the last sample or before; cancel; a signal of another kind,
\* from a program that is not this library.
LastSignals ==
    {"end"} \cup (IF "cancel" \in Faults THEN {"cancel"} ELSE {})
            \cup (IF "bad signal" \in Faults THEN {"bad"} ELSE {})

EndAudio(s) ==
    /\ client[s] = "push"
    /\ \E signal \in LastSignals :
        /\ signal = "end" => pushed[s] = StreamUnits
        /\ Signal(s, signal)
        /\ announced' = IF signal = "end" THEN [announced EXCEPT ![s] = pushed[s]]
                                          ELSE announced
    /\ client' = [client EXCEPT ![s] = "ended"]
    /\ UNCHANGED <<vars, pushed, ring, readerVars, socket, over>>

\* The sending half is dropped, or the task that runs send_audio: its end of
\* the socket is shut down without a signal.
DropSender(s) ==
    /\ Split /\ "leave" \in Faults
    /\ client[s] \in {"push", "signal"}
    /\ client' = [client EXCEPT ![s] = "dropped"]
    /\ UNCHANGED <<vars, pushed, announced, signals, ring, readerVars, socket, over>>

\* Whether a thread of the client is in recv_response.
Receives(s) == Split \/ client[s] \in {"ended", "dropped"}

ReceiveResponse(s) ==
    /\ Receives(s) /\ socket[s] # <<>>
    /\ over' = [over EXCEPT ![s] = Head(socket[s]) = "last"]
    /\ socket' = [socket EXCEPT ![s] = Tail(@)]
    /\ UNCHANGED <<vars, senderVars, signals, ring, readerVars>>

Client(s) ==
    \/ PushAudio(s) \/ SignalAudio(s) \/ EndAudio(s) \/ DropSender(s)
    \/ ReceiveResponse(s)

-----------------------------------------------------------------------------
(* read_live_chunks and flush_pcm_chunks.                                  *)

\* drain_available: everything that is in the ring, announced or not (after a
\* variant that takes no more than one chunk at a time).
DrainedOneChunk(s) == IF ring[s] <= ChunkUnits THEN ring[s] ELSE ChunkUnits
Drained(s) == ring[s]

Drain(s) ==
    /\ pcm'  = [pcm EXCEPT ![s] = @ + Drained(s)]
    /\ ring' = [ring EXCEPT ![s] = @ - Drained(s)]

\* There is a chunk to send: a full one, at the end also a shorter one.
Flushes(s) == pcm[s] >= ChunkUnits \/ (closing[s] /\ pcm[s] > 0)

\* The reader waits for its next signal.
Waits(s) == reader[s] = "reading" /\ ~Flushes(s) /\ ~closing[s]

Take(s, signal) ==
    /\ Waits(s) /\ signals[s] # <<>> /\ Head(signals[s]) = signal
    /\ signals' = [signals EXCEPT ![s] = Tail(@)]

ReadData(s) ==
    /\ Take(s, "data") /\ Drain(s)
    /\ UNCHANGED <<vars, senderVars, closing, socket, over>>

ReadEnd(s) ==
    /\ Take(s, "end") /\ Drain(s)
    /\ closing' = [closing EXCEPT ![s] = TRUE]
    /\ UNCHANGED <<vars, senderVars, socket, over>>

\* read returns 0: the rest of the buffer is flushed, the ring is not drained.
ReadEof(s) ==
    /\ Waits(s) /\ client[s] = "dropped" /\ signals[s] = <<>>
    /\ closing' = [closing EXCEPT ![s] = TRUE]
    /\ UNCHANGED <<vars, senderVars, signals, ring, pcm, socket, over>>

FlushChunk(s) ==
    /\ ReadAudio(s) /\ Flushes(s)
    /\ pcm' = [pcm EXCEPT ![s] = IF @ <= ChunkUnits THEN 0 ELSE @ - ChunkUnits]
    /\ UNCHANGED <<senderVars, signals, ring, closing, socket, over>>

\* The rest of the stream, which may be an odd number of bytes.
OddRest(s) == closing[s] /\ pcm[s] \in 1..(ChunkUnits - 1)

ClientReader(s) ==
    \/ ReadData(s) \/ ReadEnd(s) \/ ReadEof(s)
    \/ /\ \/ FlushChunk(s)
          \/ SendChunk(s, Held(s)) /\ UNCHANGED clientVars
          \/ EndOfStream(s) /\ closing[s] /\ ~Flushes(s) /\ UNCHANGED clientVars
          \/ ReaderFails(s) /\ (Waits(s) \/ OddRest(s)) /\ UNCHANGED clientVars
          \/ /\ \/ Cancel(s) /\ Take(s, "cancel")
                \/ BadSignal(s, Held(s)) /\ Take(s, "bad")
             /\ UNCHANGED <<senderVars, ring, readerVars, socket, over>>
       /\ UNCHANGED <<workerVars, schedulerVars>>

-----------------------------------------------------------------------------
(* The session thread at the socket.                                       *)

\* write_response waits for room in the socket.
Written(s, r) ==
    /\ Len(socket[s]) < SocketResponses
    /\ socket' = [socket EXCEPT ![s] = Append(@, r)]
    /\ UNCHANGED <<senderVars, signals, ring, readerVars, over>>

\* A client of this module stays for its last response, and its session has a
\* reader: what is left of the session thread.
ClientThread(s) ==
    /\ \/ Submit(s) /\ UNCHANGED clientVars
       \/ WriteResponse(s) /\ Written(s, "more")
       \/ TakeFinished(s) /\ UNCHANGED clientVars
       \/ JoinReader(s) /\ Written(s, "last")
    /\ UNCHANGED <<workerVars, schedulerVars>>

ClientNext ==
    \/ \E s \in Sessions : Client(s) \/ ClientReader(s) \/ ClientThread(s)
    \/ (\E w \in Workers : Worker(w)) /\ UNCHANGED clientVars
    \/ Scheduler /\ UNCHANGED clientVars

\* Every thread runs, and the scheduler's select is fair, as in LiveScheduler.
ClientSpec ==
    /\ ClientInit /\ [][ClientNext]_allVars
    /\ \A s \in Sessions : /\ WF_allVars(Client(s)) /\ WF_allVars(ClientReader(s))
                           /\ WF_allVars(ClientThread(s))
    /\ \A w \in Workers : WF_vars(Worker(w))
    /\ <>[]RunnableScheduler => []<><<Scheduler>>_vars
    /\ []<>JobBranch    => []<><<SelectJob>>_vars
    /\ []<>ReadyBranch  => []<><<SelectReady>>_vars
    /\ []<>ResultBranch => []<><<SelectResult \/ SelectError>>_vars

-----------------------------------------------------------------------------
Chunks(units) == (units + ChunkUnits - 1) \div ChunkUnits

\* The reader has passed on the client's stream, whatever the sizes of pushes,
\* drains and chunks, and however signals and drains overtake each other: when
\* it reports the stream complete, all that was announced is in the chunks, and
\* of the rest nothing twice.  (What is in the ring without a signal at a bare
\* end of file is lost.)
StreamIsDelivered ==
    \A s \in Sessions :
        /\ sent[s] <= Chunks(pushed[s])
        /\ reader[s] = "completed" => sent[s] >= Chunks(announced[s])

\* A client that ends its stream, in one way or another, has the last response
\* in the end, through every queue on the way there and back: the ring, the
\* chunk queue, the workers, the response queue and the socket.
ClientIsAnswered == <>(\A s \in Sessions : over[s])
=============================================================================
