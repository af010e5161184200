---------------------------- MODULE LiveScheduler ----------------------------
(***************************************************************************)
(* The model scheduler of rkwhisperd (spawn_model_scheduler, run_live_jobs *)
(* and what they call), composed with the sessions that submit jobs to it  *)
(* and the NPU workers it feeds.                                           *)
(*                                                                         *)
(* The scheduler is one thread.  It interacts with the others only by its  *)
(* channel operations, so a step of it is what it does up to the next one: *)
(* a chunk received, a select branch taken, a message sent.  The messages  *)
(* a step sends wait in outbox and leave it one by one, in order, before   *)
(* the thread goes on: a full response queue stops it there.               *)
(***************************************************************************)
EXTENDS LiveJob, Sessions, NpuWorkers

CONSTANTS MaxActive,        \* max_active_jobs_per_model
          MaxInFlight       \* max_in_flight_windows_per_job

ASSUME SchedulerAssumption == {MaxActive, MaxInFlight} \subseteq Nat \ {0}

VARIABLES
    pc,         \* where run_live_jobs is; "idle" outside of it
    at,         \* the active job being drained
    active,     \* active_jobs
    nextId,     \* next_job_id
    cursor,     \* dispatch_cursor
    outbox      \* messages this step has still to send

schedulerVars == <<pc, at, active, nextId, cursor, outbox>>
vars == <<sessionVars, workerVars, schedulerVars>>

PCs == {"idle", "drainFirst", "select", "drainLast", "clear"}

Init ==
    /\ SessionsInit /\ WorkersInit
    /\ pc = "idle" /\ at = 1 /\ active = <<>>
    /\ nextId = 1 /\ cursor = 0 /\ outbox = <<>>

-----------------------------------------------------------------------------
(* Messages.                                                               *)

ToSession(s, r)   == [to |-> "session", session |-> s, response |-> r]
ToWorker(w, t)    == [to |-> "worker", worker |-> w, task |-> t]
ToSessions(s, rs) == [i \in DOMAIN rs |-> ToSession(s, rs[i])]

Finished(ok, job) == [kind |-> "finished", ok |-> ok,
                      dispatched |-> job.nextWindow, completed |-> job.completed]

\* A send to a session waits for room, and is in vain when it no longer listens.
Respond ==
    /\ outbox # <<>> /\ Head(outbox).to = "session"
    /\ LET s == Head(outbox).session IN
       IF Listening(s)
       THEN /\ Len(respQ[s]) < ResponseQueue
            /\ respQ' = [respQ EXCEPT ![s] = Append(@, Head(outbox).response)]
       ELSE UNCHANGED respQ
    /\ outbox' = Tail(outbox)
    /\ UNCHANGED <<phase, reader, sent, chunkQ, heard, final, jobQ, workerVars,
                   pc, at, active, nextId, cursor>>

\* A send to a worker waits for room in its inbox.
Post ==
    /\ outbox # <<>> /\ Head(outbox).to = "worker"
    /\ LET w == Head(outbox).worker IN
       /\ inbox[w] = <<>>
       /\ inbox' = [inbox EXCEPT ![w] = <<Head(outbox).task>>]
    /\ outbox' = Tail(outbox)
    /\ UNCHANGED <<sessionVars, workerPC, task, readyQ, resultQ,
                   pc, at, active, nextId, cursor>>

\* The thread is at label and has nothing left to send.
At(label) == pc = label /\ outbox = <<>>

-----------------------------------------------------------------------------
(* Job ids: a worker's result finds its job by them.                       *)

\* A faulty variant of the next: all runs number their jobs alike.
SameId == nextId
NextId == nextId + 1

\* blocking_recv: the first job of a run of run_live_jobs.
StartRun ==
    /\ At("idle") /\ jobQ # <<>>
    /\ active' = <<NewJob(nextId, Head(jobQ))>>
    /\ nextId' = NextId
    /\ jobQ' = Tail(jobQ)
    /\ cursor' = 0 /\ at' = 1 /\ pc' = "drainFirst"
    /\ UNCHANGED <<phase, reader, sent, chunkQ, respQ, heard, final,
                   workerVars, outbox>>

-----------------------------------------------------------------------------
(* drain_live_chunks, before the select and after it: job by job, chunk by *)
(* chunk, and at its end the jobs that are complete.                       *)

Draining == (At("drainFirst") \/ At("drainLast")) /\ at <= Len(active)

MaxInFlightPerJob == AtMost(MaxInFlight, NPU_WORKERS)
Drainable(job) == ~job.closed /\ job.inFlight < MaxInFlightPerJob

\* A faulty variant of the next: a chunk replaces what is buffered.
AcceptReplacing(job, chunk) ==
    IF chunk = "audio" THEN [job EXCEPT !.len = 1] ELSE [job EXCEPT !.closed = TRUE]

\* accept_chunk of a chunk or of a reader's error.
AcceptChunk(job, chunk) ==
    IF chunk = "audio" THEN [job EXCEPT !.len = @ + 1]
                       ELSE [job EXCEPT !.closed = TRUE]

DrainChunk ==
    /\ Draining
    /\ LET job == active[at]
           s   == job.session IN
       /\ Drainable(job) /\ chunkQ[s] # <<>>
       /\ chunkQ' = [chunkQ EXCEPT ![s] = Tail(@)]
       /\ active' = [active EXCEPT ![at] = AcceptChunk(@, Head(chunkQ[s]))]
       /\ outbox' = IF Head(chunkQ[s]) = "error"
                    THEN <<ToSession(s, Finished(FALSE, job))>> ELSE <<>>
    /\ UNCHANGED <<phase, reader, sent, respQ, heard, final, jobQ, workerVars,
                   pc, at, nextId, cursor>>

\* The job at at is drained: it is closed when its reader has gone as well.
DrainNext ==
    /\ Draining
    /\ LET job == active[at] IN
       /\ Drainable(job) => chunkQ[job.session] = <<>>
       /\ active' = [active EXCEPT ![at].closed =
                        @ \/ (Drainable(job) /\ ~Reading(job.session))]
    /\ at' = at + 1
    /\ UNCHANGED <<sessionVars, workerVars, pc, nextId, cursor, outbox>>

\* The jobs that stay (after a faulty variant that forgets closed ones).
StillOpen(job)  == ~job.closed
Incomplete(job) == ~IsComplete(job)

\* refresh_speech_state of every job (after the select), remove_completed_jobs,
\* and the test of the while loop.
EndDrain ==
    /\ (At("drainFirst") \/ At("drainLast")) /\ at > Len(active)
    /\ LET jobs == IF pc = "drainLast"
                   THEN [i \in DOMAIN active |-> RefreshSpeechState(active[i])]
                   ELSE active
           done == Kept(jobs, {i \in DOMAIN jobs : IsComplete(jobs[i])})
       IN  /\ active' = Kept(jobs, {i \in DOMAIN jobs : Incomplete(jobs[i])})
           /\ outbox' = [i \in DOMAIN done |->
                           ToSession(done[i].session, Finished(TRUE, done[i]))]
    /\ at' = 1
    /\ pc' = IF active' = <<>> THEN "idle"
             ELSE IF pc = "drainFirst" THEN "select" ELSE "drainFirst"
    /\ UNCHANGED <<sessionVars, workerVars, nextId, cursor>>

-----------------------------------------------------------------------------
(* The branches of the select.                                             *)

\* job_rx: one more active job.
SelectJob ==
    /\ At("select") /\ Len(active) < MaxActive /\ jobQ # <<>>
    /\ active' = Append(active, NewJob(nextId, Head(jobQ)))
    /\ nextId' = NextId
    /\ jobQ' = Tail(jobQ)
    /\ pc' = "drainLast"
    /\ UNCHANGED <<phase, reader, sent, chunkQ, respQ, heard, final, workerVars,
                   at, cursor, outbox>>

\* A faulty variant of the next: a window may leave while a VAD window of its
\* job is at a worker.
HasWindowReadyDuringVad(job) ==
    job.inFlight < MaxInFlightPerJob /\ DispatchPlans(job) # {}

HasWindowReady(job) ==
    /\ job.inFlight < MaxInFlightPerJob
    /\ ~job.vadBusy
    /\ DispatchPlans(job) # {}

\* A faulty variant of the next: the ready branch is open to any job.
AnyActive == active # <<>>

\* has_dispatchable_live_work.
HasDispatchable ==
    \E i \in DOMAIN active : HasVadReady(active[i]) \/ HasWindowReady(active[i])

\* The active job whose turn is k turns from now.
Turn(k) == 1 + ((cursor + k) % Len(active))

\* Whose turn it is: the next job with a VAD window, or else with a window.
Turns(ready) == {k \in 0..(Len(active) - 1) : Turn(k) \in ready}
NextTurn(ready) == CHOOSE k \in Turns(ready) : \A h \in Turns(ready) : k <= h
VadReady     == {i \in DOMAIN active : HasVadReady(active[i])}
WindowReady  == {i \in DOMAIN active : HasWindowReady(active[i])}

DispatchVad(w, k) ==
    LET i == Turn(k) IN
    /\ active' = [active EXCEPT ![i].vadBusy = TRUE]
    /\ outbox' = <<ToWorker(w, VadTask(active[i]))>>
    /\ cursor' = (cursor + k + 1) % Len(active)

DispatchWindow(w, k) ==
    LET i == Turn(k)
        job == active[i]
    IN \E plan \in DispatchPlans(job) :
       /\ active' = [active EXCEPT ![i] = AfterDispatch(job, plan)]
       /\ outbox' = Append(ToSessions(job.session, SpeechEvents(job, plan)),
                           ToWorker(w, WhisperTask(job, plan)))
       /\ cursor' = (cursor + k + 1) % Len(active)

\* ready_rx: dispatch_ready_live_window gives the worker something to do; an
\* announcement it has no use for is lost.
SelectReady ==
    /\ At("select") /\ HasDispatchable /\ readyQ # <<>>
    /\ LET w == Head(readyQ) IN
       CASE VadReady # {} -> DispatchVad(w, NextTurn(VadReady))
         [] VadReady = {} /\ WindowReady # {} ->
                DispatchWindow(w, NextTurn(WindowReady))
         [] OTHER -> UNCHANGED <<active, outbox, cursor>>
    /\ readyQ' = Tail(readyQ)
    /\ pc' = "drainLast"
    /\ UNCHANGED <<sessionVars, workerPC, task, inbox, resultQ, at, nextId>>

AwaitingResults == \E i \in DOMAIN active : active[i].inFlight > 0 \/ active[i].vadBusy

\* What a result does to the job it is for.
ApplyResult(job, r) ==
    IF r.kind = "vad" THEN HandleVadResult(job, r) ELSE HandleResult(job, r)

\* The active job that r is for: the first with its id, if there is one.
Addressee(r) == {i \in DOMAIN active :
                    /\ active[i].id = r.job
                    /\ \A h \in 1..(i - 1) : active[h].id # r.job}

\* result_rx: a result goes to its job, if that is still active.
SelectResult ==
    /\ At("select") /\ AwaitingResults /\ resultQ # <<>>
    /\ Head(resultQ).kind # "error"
    /\ LET r == Head(resultQ)
           for == Addressee(r)
       IN  /\ active' = [i \in DOMAIN active |->
                           IF i \in for THEN ApplyResult(active[i], r) ELSE active[i]]
           /\ outbox' = IF for = {} \/ r.kind = "vad" THEN <<>>
                        ELSE LET job == active[CHOOSE i \in for : TRUE] IN
                             ToSessions(job.session,
                                        SegmentResponses(Deliverable(job, r)))
    /\ resultQ' = Tail(resultQ)
    /\ pc' = "drainLast"
    /\ UNCHANGED <<sessionVars, workerPC, task, inbox, readyQ, at, nextId, cursor>>

\* result_rx: an error ends every active job ...
Failures == [i \in DOMAIN active |->
                ToSession(active[i].session, Finished(FALSE, active[i]))]
SelectError ==
    /\ At("select") /\ AwaitingResults /\ resultQ # <<>>
    /\ Head(resultQ).kind = "error"
    /\ outbox' = Failures
    /\ resultQ' = Tail(resultQ)
    /\ pc' = "clear"
    /\ UNCHANGED <<sessionVars, workerPC, task, inbox, readyQ,
                   at, active, nextId, cursor>>

\* ... and the run: their receivers are dropped with the chunks in them.
Clear ==
    /\ At("clear")
    /\ chunkQ' = [s \in Sessions |->
                    IF \E i \in DOMAIN active : active[i].session = s
                    THEN <<>> ELSE chunkQ[s]]
    /\ active' = <<>>
    /\ pc' = "idle"
    /\ UNCHANGED <<phase, reader, sent, respQ, heard, final, jobQ, workerVars,
                   at, nextId, cursor, outbox>>

\* The 5 ms have passed, or a closed channel yielded None.
SelectSleep ==
    /\ At("select")
    /\ pc' = "drainLast"
    /\ UNCHANGED <<sessionVars, workerVars, at, active, nextId, cursor, outbox>>

-----------------------------------------------------------------------------
\* Someone owns the job of s: its receivers and its response sender exist.
Held(s) ==
    \/ \E i \in DOMAIN jobQ : jobQ[i] = s
    \/ \E i \in DOMAIN active : active[i].session = s
    \/ \E i \in DOMAIN outbox : outbox[i].to = "session" /\ outbox[i].session = s

Session(s) == SessionThread(s) /\ UNCHANGED <<workerVars, schedulerVars>>
Reader(s)  == ReaderThread(s, Held(s)) /\ UNCHANGED <<workerVars, schedulerVars>>
Worker(w)  == WorkerThread(w) /\ UNCHANGED <<sessionVars, schedulerVars>>
Send       == Respond \/ Post
Scheduler  == \/ Send \/ StartRun \/ DrainChunk \/ DrainNext \/ EndDrain
              \/ SelectJob \/ SelectReady \/ SelectResult \/ SelectError \/ Clear
              \/ SelectSleep

\* Every session is over and the scheduler waits for the next job: the daemon
\* idles here.
Quiet ==
    /\ \A s \in Sessions : phase[s] \in {"refused", "ended", "gone"} /\ ~Reading(s)
    /\ At("idle") /\ jobQ = <<>>

Next == \/ \E s \in Sessions : Session(s) \/ Reader(s)
        \/ \E w \in Workers : Worker(w)
        \/ Scheduler
        \/ Quiet /\ UNCHANGED vars

Spec == Init /\ [][Next]_vars

\* When the scheduler and the branches of its select can be taken.  (TLC gets
\* to the same from ENABLED, but would recompute every segment many times.)
RunnableScheduler ==
    IF outbox = <<>> THEN pc # "idle" \/ jobQ # <<>>
    ELSE IF Head(outbox).to = "worker" THEN inbox[Head(outbox).worker] = <<>>
    ELSE \/ ~Listening(Head(outbox).session)
         \/ Len(respQ[Head(outbox).session]) < ResponseQueue
JobBranch    == At("select") /\ Len(active) < MaxActive /\ jobQ # <<>>
ReadyBranch  == At("select") /\ HasDispatchable /\ readyQ # <<>>
ResultBranch == At("select") /\ AwaitingResults /\ resultQ # <<>>

\* Threads that can run do (WF).  Clients read what they are sent and end their
\* streams.  tokio's select polls its branches in random order, so a branch that
\* is ready again and again is taken in the end (SF).
Fairness ==
    /\ \A s \in Sessions : WF_vars(Session(s)) /\ WF_vars(Reader(s))
    /\ \A w \in Workers : WF_vars(Worker(w))
    /\ <>[]RunnableScheduler => []<><<Scheduler>>_vars
    /\ []<>JobBranch    => []<><<SelectJob>>_vars
    /\ []<>ReadyBranch  => []<><<SelectReady>>_vars
    /\ []<>ResultBranch => []<><<SelectResult \/ SelectError>>_vars

FairSpec == Spec /\ Fairness
=============================================================================
