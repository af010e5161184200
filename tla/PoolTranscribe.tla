--------------------------- MODULE PoolTranscribe ----------------------------
(***************************************************************************)
(* The one-shot path: whole recordings on a ParallelTranscriberPool        *)
(* (parallel.rs), one call after the other on the same pool.  A Whisper    *)
(* call runs two tasks side by side: dispatch_windows hands windows to the *)
(* workers that announce themselves, and collect_ordered_with_callback     *)
(* puts their results in order; an error of either ends both.  A VAD call  *)
(* sends one window at a time, because each needs the model state the one  *)
(* before it left.  What an ended call leaves in the queues or at the      *)
(* workers stays there for the next one.  At last the pool is dropped.     *)
(***************************************************************************)
EXTENDS NpuWorkers, SequencesExt

CONSTANTS MaxCalls,         \* calls on the pool (bounds the model)
          MaxWindows,       \* windows of a recording (bounds the model)
          CallbackFailures  \* whether on_segment may return an error

ASSUME PoolAssumption == /\ {MaxCalls, MaxWindows} \subseteq Nat \ {0}
                         /\ CallbackFailures \in BOOLEAN

VARIABLES
    mode,       \* what the owner of the pool is doing
    call,       \* how many calls it has made
    total,      \* windows of the call: total_windows
    sentOut,    \* windows handed out
    early,      \* pending: results that wait for those before them
    output,     \* full_text, or probs: the windows taken, next = Len(output)
    vadState,   \* state: the call and the number of windows it has seen
    given,      \* windows of each call that went to on_segment, those of the
                \* last result that was in turn: from, to; and, a history
                \* variable, whether all of them were its own
    length,     \* windows each call had
    outcome     \* what each call returned

callVars == <<mode, call, total, sentOut, early, output, vadState, given,
              length, outcome>>
vars == <<workerVars, callVars>>

Calls  == 1..MaxCalls
Modes  == {"idle", "whisper", "failing", "vad", "dropping", "dropped"}

Init ==
    /\ WorkersInit
    /\ mode = "idle" /\ call = 0 /\ total = 0 /\ sentOut = 0
    /\ early = {} /\ output = <<>> /\ vadState = <<0, 0>>
    /\ given   = [c \in Calls |-> [from |-> 0, to |-> 0, own |-> TRUE]]
    /\ length  = [c \in Calls |-> 0]
    /\ outcome = [c \in Calls |-> "none"]

-----------------------------------------------------------------------------
(* A call begins and returns.                                              *)

\* An empty recording has no windows: a Whisper call returns at once, a VAD
\* call after its loop.
BeginCall(kind, n) ==
    /\ mode = "idle" /\ call < MaxCalls
    /\ call' = call + 1
    /\ mode' = kind /\ total' = n
    /\ sentOut' = 0 /\ early' = {} /\ output' = <<>>
    /\ vadState' = <<call + 1, 0>>
    /\ length' = [length EXCEPT ![call + 1] = IF kind = "whisper" THEN n ELSE 0]
    /\ UNCHANGED <<workerVars, given, outcome>>

Return(how) ==
    /\ outcome' = [outcome EXCEPT ![call] = how]
    /\ mode' = "idle" /\ total' = 0 /\ sentOut' = 0
    /\ early' = {} /\ output' = <<>> /\ vadState' = <<0, 0>>
    /\ UNCHANGED <<call, length>>

\* recv returns None: every worker has dropped its sender.
AllStopped == \A w \in Workers : workerPC[w] = "stopped"

-----------------------------------------------------------------------------
(* dispatch_windows.                                                       *)

WhisperTask == [kind |-> "whisper", job |-> 0, index |-> sentOut, call |-> call]

\* A faulty variant of the next: the worker stays announced.
HandOutTwice(t) ==
    /\ sentOut < total /\ readyQ # <<>>
    /\ inbox[Head(readyQ)] = <<>>
    /\ inbox' = [inbox EXCEPT ![Head(readyQ)] = <<t>>]
    /\ sentOut' = sentOut + 1
    /\ UNCHANGED <<workerPC, task, readyQ, resultQ, mode, call, total, early,
                   output, vadState, given, length, outcome>>

\* A worker that has announced itself gets the window that is next.
HandOut(t) ==
    /\ sentOut < total /\ readyQ # <<>>
    /\ inbox[Head(readyQ)] = <<>>
    /\ inbox' = [inbox EXCEPT ![Head(readyQ)] = <<t>>]
    /\ readyQ' = Tail(readyQ)
    /\ sentOut' = sentOut + 1
    /\ UNCHANGED <<workerPC, task, resultQ, mode, call, total, early, output,
                   vadState, given, length, outcome>>

DispatchWindow == mode = "whisper" /\ HandOut(WhisperTask)

\* "all NPU workers stopped".
NoWorker ==
    /\ \/ mode = "whisper" /\ sentOut < total
       \/ mode = "vad" /\ sentOut < total /\ sentOut = Len(output)
    /\ readyQ = <<>> /\ AllStopped
    /\ Return("error")
    /\ UNCHANGED <<workerVars, given>>

-----------------------------------------------------------------------------
(* collect_ordered_with_callback.                                          *)

Collecting == mode = "whisper" /\ Len(output) < total

\* A faulty variant of the next: what has overtaken its turn is not kept.
InsertedAlone(r) == {r}

\* A result takes the place of one with the same index.
Inserted(r) == {q \in early : q.index # r.index} \cup {r}

\* A faulty variant of the next: results are passed on as they come.
AsTheyCome(got) == SetToSeq(got)

\* The windows that are next, in order, as far as they are in.
InOrder(got) ==
    LET Turn(k) == {q \in got : q.index = Len(output) + k - 1}
    IN  [k \in {i \in 1..Cardinality(got) : \A j \in 1..i : Turn(j) # {}} |->
            CHOOSE q \in Turn(k) : TRUE]

\* The first k of the windows ready go to on_segment.  Nothing in a result tells
\* its call, so after an error one of them may be of another call's recording:
\* from then on no stretch of this call's own is counted.
AllOwn(ready, k) == \A i \in 1..k : ready[i].call = call

Given(ready, k) ==
    \/ k = 0 /\ UNCHANGED given
    \/ /\ k > 0
       /\ given' = [given EXCEPT ![call] =
                      IF @.own /\ AllOwn(ready, k)
                      THEN [from |-> ready[1].index, to |-> ready[k].index + 1, own |-> TRUE]
                      ELSE [@ EXCEPT !.own = FALSE]]

TakeResult == resultQ' = Tail(resultQ) /\ UNCHANGED <<workerPC, task, inbox, readyQ>>

CollectWindow ==
    /\ Collecting /\ resultQ # <<>> /\ Head(resultQ).kind = "whisper"
    /\ LET got   == Inserted(Head(resultQ))
           ready == InOrder(got)
       IN  /\ early'  = got \ ToSet(ready)
           /\ output' = output \o ready
           /\ Given(ready, Len(ready))
    /\ TakeResult
    /\ UNCHANGED <<mode, call, total, sentOut, vadState, length, outcome>>

\* on_segment fails on one of the windows that are next: the call ends.
CallbackFails ==
    /\ CallbackFailures
    /\ Collecting /\ resultQ # <<>> /\ Head(resultQ).kind = "whisper"
    /\ LET ready == InOrder(Inserted(Head(resultQ))) IN
       \E k \in DOMAIN ready : Given(ready, k - 1)
    /\ TakeResult
    /\ mode' = "failing"
    /\ UNCHANGED <<call, total, sentOut, early, output, vadState, length, outcome>>

CallbackFailed ==
    /\ mode = "failing"
    /\ Return("error")
    /\ UNCHANGED <<workerVars, given>>

\* A result of the other kind is left over from a call that failed.
SkipResult ==
    /\ \/ Collecting /\ resultQ # <<>> /\ Head(resultQ).kind = "vad"
       \/ /\ mode = "vad" /\ sentOut > Len(output) /\ resultQ # <<>>
          /\ Head(resultQ).kind = "whisper"
    /\ TakeResult
    /\ UNCHANGED callVars

\* The error of a worker, or a closed channel, ends the call.
ResultFails ==
    /\ Collecting \/ (mode = "vad" /\ sentOut > Len(output))
    /\ \/ /\ resultQ # <<>> /\ Head(resultQ).kind = "error"
          /\ TakeResult
       \/ /\ resultQ = <<>> /\ AllStopped
          /\ UNCHANGED workerVars
    /\ Return("error")
    /\ UNCHANGED given

\* try_join waits for both tasks (after a variant that waits for one).
DispatchDone == sentOut = total
BothDone     == sentOut = total /\ Len(output) >= total

WhisperReturns ==
    /\ mode = "whisper" /\ BothDone
    /\ Return("done")
    /\ UNCHANGED <<workerVars, given>>

-----------------------------------------------------------------------------
(* vad_segments_with_config.                                               *)

\* A faulty variant of the next: every window starts from a fresh state.
FreshState == <<call, 0>>
State      == vadState

VadTask == [kind |-> "vad", job |-> 0, start |-> sentOut, from |-> call,
            state |-> State]

VadDue == mode = "vad" /\ sentOut = Len(output)

DispatchVad == VadDue /\ HandOut(VadTask)

CollectVad ==
    /\ mode = "vad" /\ sentOut > Len(output)
    /\ resultQ # <<>> /\ Head(resultQ).kind = "vad"
    /\ LET r == Head(resultQ) IN
       /\ vadState' = <<r.from, r.start + 1>>
       /\ output' = Append(output, [call |-> r.from, index |-> r.start])
    /\ TakeResult
    /\ UNCHANGED <<mode, call, total, sentOut, early, given, length, outcome>>

VadReturns ==
    /\ mode = "vad" /\ Len(output) = total
    /\ Return("done")
    /\ UNCHANGED <<workerVars, given>>

-----------------------------------------------------------------------------
(* Drop: the senders of all inboxes go, then every worker is joined; the   *)
(* receiving ends of the other two queues still exist, but nobody reads.   *)

DropPool ==
    /\ mode = "idle"
    /\ mode' = "dropping"
    /\ UNCHANGED <<workerVars, call, total, sentOut, early, output, vadState,
                   given, length, outcome>>

\* A faulty variant of the next: the senders are dropped after the joins.
StopAfterJoin(w) == mode = "dropped" /\ inbox[w] = <<>>
MayStop(w)       == workerPC[w] = "receive" /\ inbox[w] = <<>>

\* blocking_recv returns None.
StopWorker(w) ==
    /\ mode = "dropping" /\ MayStop(w)
    /\ GoTo(w, "stopped")
    /\ UNCHANGED <<task, inbox, readyQ, resultQ, callVars>>

Joined ==
    /\ mode = "dropping" /\ AllStopped
    /\ mode' = "dropped"
    /\ UNCHANGED <<workerVars, call, total, sentOut, early, output, vadState,
                   given, length, outcome>>

-----------------------------------------------------------------------------
Worker(w) == (WorkerThread(w) /\ UNCHANGED callVars) \/ StopWorker(w)

\* The call in progress.
Running ==
    \/ DispatchWindow \/ NoWorker \/ CollectWindow \/ CallbackFails \/ CallbackFailed
    \/ SkipResult \/ ResultFails \/ WhisperReturns
    \/ DispatchVad \/ CollectVad \/ VadReturns

Next ==
    \/ \E kind \in {"whisper", "vad"}, n \in 0..MaxWindows : BeginCall(kind, n)
    \/ DropPool
    \/ Running \/ Joined
    \/ \E w \in Workers : Worker(w)

\* The threads of the workers are scheduled, and so is the one that runs
\* block_on: it sleeps only when neither of its two tasks can go on.
Spec ==
    /\ Init /\ [][Next]_vars
    /\ \A w \in Workers : WF_vars(Worker(w))
    /\ WF_vars(Running) /\ WF_vars(Joined)

-----------------------------------------------------------------------------
Failed == \E c \in Calls : outcome[c] = "error"

TypeOK ==
    /\ mode \in Modes /\ call \in 0..MaxCalls /\ total \in 0..MaxWindows
    /\ sentOut \in 0..total /\ Len(output) <= MaxWindows
    /\ readyQ \in Seq(Workers) /\ Len(readyQ) <= NPU_WORKERS
    /\ Len(resultQ) <= NPU_WORKERS
    /\ \A w \in Workers : /\ workerPC[w] \in WorkerPCs
                          /\ Len(task[w]) <= 1 /\ Len(inbox[w]) <= 1

\* A worker is announced once, or has one task, or is about to announce itself,
\* also after calls that were ended by an error between the two tasks: no core
\* is lost to the calls that follow, and a hand-out never waits for an inbox.
OneTokenPerWorker ==
    /\ TypeOK
    /\ mode \notin {"dropping", "dropped"} => \A w \in Workers :
        Cardinality({i \in DOMAIN readyQ : readyQ[i] = w})
        + Len(inbox[w]) + Len(task[w])
        = IF workerPC[w] \in {"load", "announce", "stopped"} THEN 0 ELSE 1

\* Until a call has failed, what a call returns is of its own recording, window
\* by window in order, however the workers overtake each other.  (Results carry
\* no call: after an error the next call may take a window of the one before
\* for its own.)
OutputIsOwn ==
    ~Failed => \A i \in DOMAIN output :
        output[i].call = call /\ output[i].index = i - 1

\* Until a call has failed, every VAD window is judged with the model state that
\* the windows before it, all of them and nothing else, have left.
VadStateIsChained ==
    ~Failed => \A w \in Workers : \A t \in ToSet(inbox[w] \o task[w]) :
        t.kind = "vad" => t.state = <<t.from, t.start>>

\* What a call has handed out of its own recording, and how it ended: one that
\* took a window of another call for its own is held to nothing from then on, as
\* if it had failed there.
Heard == [c \in Calls |-> [from |-> given[c].from, to |-> given[c].to]]
Ended == [c \in Calls |-> IF given[c].own \/ outcome[c] = "none" THEN outcome[c]
                          ELSE "error"]

\* Each Whisper call whose results are all its own is the transcription of its
\* recording: the segments of successive windows go to on_segment, and a call
\* that returns Ok has given all of them.  The calls before it may have failed.
\* (A call that takes a window of another for its own can do so only after a
\* failed call, by OutputIsOwn, and is excused.)
Promise == INSTANCE Transcription
    WITH Streams   <- Calls,
         Gaps      <- FALSE,
         accepted  <- length,
         delivered <- Heard,
         outcome   <- Ended
ImplementsPromise == Promise!TranscriptionSpec

\* Every call returns, with windows that fail, a callback that fails and what
\* earlier calls have left in the queues; also when workers fail to load, as
\* long as no other call has failed.  (With both, the stale results and the
\* failed worker's error may fill the result queue: then no worker announces
\* itself any more, and a VAD call waits for that before it reads a result.)
CallsReturn ==
    mode \in {"whisper", "failing", "vad"} ~>
        \/ mode \in {"idle", "dropping"}
        \/ Failed /\ \E w \in Workers : workerPC[w] = "stopped"

\* A pool on which no call has failed can be dropped: no worker waits for room
\* in a queue that nobody reads any more.
PoolCloses == (mode = "dropping" /\ ~Failed) ~> mode = "dropped"
=============================================================================
