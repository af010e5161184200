----------------------------- MODULE NpuWorkers ------------------------------
(***************************************************************************)
(* The NPU worker threads of a ModelPool (spawn_npu_worker of parallel.rs).*)
(* A worker announces itself in the ready queue, waits for the one task    *)
(* that the holder of its announcement may give it, reports the result and *)
(* announces itself again.  The ready and the result queue have one place  *)
(* per worker, a worker's inbox has one.                                   *)
(***************************************************************************)
EXTENDS Integers, Sequences, FiniteSets

CONSTANTS Workers,          \* 1..NPU_WORKERS
          LoadFailures,     \* whether a worker may fail to initialise
          TaskFailures      \* whether the NPU may fail on a window

ASSUME WorkersAssumption ==
    /\ IsFiniteSet(Workers) /\ Workers # {}
    /\ LoadFailures \in BOOLEAN /\ TaskFailures \in BOOLEAN

VARIABLES
    workerPC,   \* where each thread is
    task,       \* the task it runs, a sequence of at most one
    inbox,      \* job_tx / job_rx of each worker
    readyQ,     \* ready_tx / ready_rx
    resultQ     \* result_tx / result_rx

workerVars == <<workerPC, task, inbox, readyQ, resultQ>>

NPU_WORKERS == Cardinality(Workers)
WorkerPCs   == {"load", "announce", "receive", "run", "stopped"}

WorkersInit ==
    /\ workerPC = [w \in Workers |-> "load"]
    /\ task  = [w \in Workers |-> <<>>]
    /\ inbox = [w \in Workers |-> <<>>]
    /\ readyQ = <<>> /\ resultQ = <<>>

GoTo(w, pc) == workerPC' = [workerPC EXCEPT ![w] = pc]

\* PipelineCtx::load.
Load(w) ==
    /\ workerPC[w] = "load"
    /\ GoTo(w, "announce")
    /\ UNCHANGED <<task, inbox, readyQ, resultQ>>

\* The failure is reported among the results and the thread returns.
LoadFails(w) ==
    /\ LoadFailures /\ workerPC[w] = "load"
    /\ Len(resultQ) < NPU_WORKERS
    /\ resultQ' = Append(resultQ, [kind |-> "error", job |-> 0])
    /\ GoTo(w, "stopped")
    /\ UNCHANGED <<task, inbox, readyQ>>

Announce(w) ==
    /\ workerPC[w] = "announce"
    /\ Len(readyQ) < NPU_WORKERS
    /\ readyQ' = Append(readyQ, w)
    /\ GoTo(w, "receive")
    /\ UNCHANGED <<task, inbox, resultQ>>

ReceiveTask(w) ==
    /\ workerPC[w] = "receive" /\ inbox[w] # <<>>
    /\ task'  = [task EXCEPT ![w] = inbox[w]]
    /\ inbox' = [inbox EXCEPT ![w] = <<>>]
    /\ GoTo(w, "run")
    /\ UNCHANGED <<readyQ, resultQ>>

\* What running task t can return: the transcription of exactly its samples,
\* a speech decision, or an error.
Results(t) ==
    (IF t.kind = "whisper" THEN {t}
     ELSE {[kind |-> "vad", job |-> t.job, start |-> t.start, from |-> t.from,
            speech |-> b] : b \in BOOLEAN})
    \cup (IF TaskFailures THEN {[kind |-> "error", job |-> t.job]} ELSE {})

\* The task ends and its result finds room in the result queue.
ReportResult(w) ==
    /\ workerPC[w] = "run"
    /\ Len(resultQ) < NPU_WORKERS
    /\ \E r \in Results(task[w][1]) : resultQ' = Append(resultQ, r)
    /\ task' = [task EXCEPT ![w] = <<>>]
    /\ GoTo(w, "announce")
    /\ UNCHANGED <<inbox, readyQ>>

WorkerThread(w) ==
    Load(w) \/ LoadFails(w) \/ Announce(w) \/ ReceiveTask(w) \/ ReportResult(w)
=============================================================================
