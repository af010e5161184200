--------------------------- MODULE LiveProperties ----------------------------
(***************************************************************************)
(* What LiveScheduler must get right.                                      *)
(***************************************************************************)
EXTENDS LiveScheduler

-----------------------------------------------------------------------------
(* The tasks that are at the workers or on their way, and their results.   *)

Outstanding ==
    {[place |-> <<"outbox", i>>, item |-> outbox[i].task] :
        i \in {j \in DOMAIN outbox : outbox[j].to = "worker"}}
    \cup {[place |-> <<"inbox", w>>, item |-> inbox[w][1]] :
        w \in {v \in Workers : inbox[v] # <<>>}}
    \cup {[place |-> <<"task", w>>, item |-> task[w][1]] :
        w \in {v \in Workers : task[v] # <<>>}}
    \cup {[place |-> <<"result", i>>, item |-> resultQ[i]] : i \in DOMAIN resultQ}

OutstandingFor(job) == {o \in Outstanding : o.item.job = job.id}

\* What outbox holds for session s, place by place.
Due(s) == [i \in DOMAIN outbox |->
              IF outbox[i].to = "session" /\ outbox[i].session = s
              THEN outbox[i].response ELSE [kind |-> "none"]]

\* What a client that has heard h has heard after 0, 1, ... of the responses rs.
Telling(h, rs) ==
    LET told[i \in 0..Len(rs)] == IF i = 0 THEN h ELSE Heard(told[i - 1], rs[i])
    IN  told

-----------------------------------------------------------------------------
\* Every variable keeps its shape; queues keep their capacity.
TypeOK ==
    /\ \A s \in Sessions :
        /\ phase[s] \in Phases /\ reader[s] \in Readers /\ final[s] \in Finals
        /\ sent[s] \in 0..MaxChunks
        /\ chunkQ[s] \in Seq({"audio", "error"}) /\ Len(chunkQ[s]) <= ChunkQueue
        /\ Len(respQ[s]) <= ResponseQueue
        /\ \A i \in DOMAIN respQ[s] :
              respQ[s][i].kind \in {"segment", "speech", "finished"}
    /\ jobQ \in Seq(Sessions) /\ Len(jobQ) <= JobQueue
    /\ \A w \in Workers : /\ workerPC[w] \in WorkerPCs
                          /\ Len(task[w]) <= 1 /\ Len(inbox[w]) <= 1
    /\ readyQ \in Seq(Workers) /\ Len(readyQ) <= NPU_WORKERS
    /\ Len(resultQ) <= NPU_WORKERS
    /\ pc \in PCs /\ at \in 1..(MaxActive + 1) /\ Len(active) <= MaxActive
    /\ nextId \in Nat \ {0} /\ cursor \in 0..MaxActive

\* The announcement of a worker is never lost or doubled: each worker is
\* starting, or announced once, or about to announce itself, or has one task.
\* An announcement taken without work to give, or work given to a worker that
\* has some, idles an NPU core for good or blocks the scheduler in a send.
OneTokenPerWorker ==
    \A w \in Workers :
        Cardinality({i \in DOMAIN readyQ : readyQ[i] = w})
        + Len(inbox[w]) + Len(task[w])
        + Cardinality({i \in DOMAIN outbox :
                         outbox[i].to = "worker" /\ outbox[i].worker = w})
        = IF workerPC[w] \in {"load", "announce", "stopped"} THEN 0 ELSE 1

\* A client only ever gets text of its own audio, with the time at which that
\* audio was in its stream: after an error left results behind, with several
\* jobs active, and however much of the buffer has been dropped meanwhile.
TextIsOwn ==
    \A s \in Sessions :
        LET Own(r) == r.kind = "segment" => r.session = s /\ r.begin = r.from
        IN  /\ \A i \in DOMAIN respQ[s] : Own(respQ[s][i])
            /\ Listening(s) => \A i \in DOMAIN outbox : Own(Due(s)[i])

\* in_flight and vad_in_flight count what is really outstanding: a job is not
\* declared complete while a worker has something of it, and does not wait for
\* a result that will never come.  (At "clear" the jobs are about to be dropped
\* and the result that failed them is gone.)
InFlightIsExact ==
    /\ TypeOK
    /\ pc # "clear" =>
        LET outstanding == Outstanding IN
        \A i \in DOMAIN active :
            active[i].inFlight + (IF active[i].vadBusy THEN 1 ELSE 0)
                = Cardinality({o \in outstanding : o.item.job = active[i].id})

\* Audio is neither lost nor counted twice between a reader and the buffer of
\* its job: what was dispatched or dropped as silence, what is buffered and
\* what is queued make up what the reader sent.
AudioIsAccounted ==
    \A i \in DOMAIN active :
        LET job == active[i] IN
        job.offset + job.len
            + Cardinality({k \in DOMAIN chunkQ[job.session] :
                             chunkQ[job.session][k] = "audio"})
          = sent[job.session]

\* A session whose job is gone has been told: it never finds its response
\* channel closed ("model scheduler thread exited unexpectedly").
NoOrphans ==
    \A s \in Sessions :
        (phase[s] = "live" /\ ~Held(s)) =>
            \E i \in DOMAIN respQ[s] : respQ[s][i].kind = "finished"

\* The buffer does not move under a VAD window that is at a worker: when the
\* result comes back, its start still names the samples it was computed from,
\* and it is the next one due.
VadResultsFit ==
    \A i \in DOMAIN active : \A o \in OutstandingFor(active[i]) :
        o.item.kind = "vad" =>
            /\ active[i].offset + o.item.start = o.item.from
            /\ active[i].vadDone = o.item.start

\* A window is never empty, never longer than the encoder takes, and never
\* reaches beyond the audio that was received.
WindowsFit ==
    \A o \in Outstanding :
        o.item.kind = "whisper" =>
            /\ o.item.to - o.item.from \in 1..WindowLen
            /\ o.item.to <= sent[o.item.session]

\* With voice detection, speech events go forward in time, the speech that a
\* segment transcribes has been announced before it, and a session that ends
\* well has the text of all the speech that was announced.
SpeechComesFirst ==
    HasVad => \A s \in Sessions :
        LET queued == Telling(heard[s], respQ[s])
            then   == Telling(queued[Len(respQ[s])], Due(s))
            Follows(h, r) == /\ r.kind = "segment" => r.to <= h.speech
                             /\ r.kind = "speech" => h.speech <= r.at
        IN  /\ heard[s].upTo <= heard[s].speech
            /\ \A i \in DOMAIN respQ[s] : Follows(queued[i - 1], respQ[s][i])
            /\ Listening(s) =>
                 \A i \in DOMAIN outbox : Follows(then[i - 1], Due(s)[i])
            /\ final[s] \in {"done", "cancelled"} => heard[s].upTo = heard[s].speech

-----------------------------------------------------------------------------
\* Each session is the transcription of its stream: text in stream order, all
\* of it before "done" or "cancelled".
Promise == INSTANCE Transcription
    WITH Streams   <- Sessions,
         Gaps      <- HasVad,
         accepted  <- sent,
         delivered <- [s \in Sessions |-> [from |-> heard[s].from, to |-> heard[s].upTo]],
         outcome   <- [s \in Sessions |-> IF final[s] \in {"ok", "err"} THEN "none"
                                                                     ELSE final[s]]
ImplementsPromise == Promise!TranscriptionSpec

\* A session that got into the queue comes to an end, whatever the order of
\* chunks, results and announcements, and however small the queues are.
SessionsEnd ==
    \A s \in Sessions : phase[s] = "live" ~> phase[s] \in {"ended", "gone"}

\* The scheduler lets go of every job, also of one whose client has left.
JobsEnd == \A s \in Sessions : Held(s) ~> ~Held(s)
=============================================================================
