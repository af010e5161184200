------------------------------- MODULE LiveJob -------------------------------
(***************************************************************************)
(* ActiveLiveJob (rkwhisperd.rs): what the model scheduler knows of one    *)
(* live transcription, and the decisions it takes from it.  The audio      *)
(* buffer is its length and the position of its first sample in the        *)
(* stream; every other position in a job is relative to the buffer.        *)
(***************************************************************************)
EXTENDS VadSegments, FiniteSets

CONSTANTS HasVad,           \* the pool has a VAD model: vad_config is Some
          WindowLen,        \* samples of a Whisper window (480000)
          SilenceTimeout    \* silence that ends a window (32000)

ASSUME JobAssumption == /\ HasVad \in BOOLEAN
                        /\ WindowLen \in Nat \ {0} /\ SilenceTimeout \in Nat

\* The elements of s at the places in kept, in order: filter, or retain.
Kept(s, kept) ==
    LET upTo[i \in 0..Len(s)] ==
            IF i = 0 THEN <<>>
            ELSE IF i \in kept THEN Append(upTo[i - 1], s[i]) ELSE upTo[i - 1]
    IN  upTo[Len(s)]

NewJob(id, session) ==
    [id |-> id, session |-> session,
     len |-> 0, offset |-> 0,               \* audio_buffer
     closed |-> FALSE,                      \* producer_closed
     vadDone |-> 0, vadBusy |-> FALSE,      \* vad_processed_samples, vad_in_flight
     probs |-> <<>>,
     inFlight |-> 0, nextWindow |-> 0, completed |-> 0,
     pending |-> {},                        \* window indices of pending_results
     nextResult |-> 0]

\* A faulty variant: windows at the workers are forgotten.
IsCompleteEarly(job) == job.closed /\ job.len = 0 /\ ~job.vadBusy

IsComplete(job) == job.closed /\ job.len = 0 /\ job.inFlight = 0 /\ ~job.vadBusy

JobSegments(job) == Segments(job.len, job.probs)

\* refresh_speech_state: silence at the end of the stream is dropped.
RefreshSpeechState(job) ==
    IF /\ HasVad /\ job.len > 0
       /\ JobSegments(job) = <<>>
       /\ job.closed /\ ~job.vadBusy /\ job.vadDone >= job.len
    THEN [job EXCEPT !.offset = @ + job.len, !.len = 0, !.probs = <<>>]
    ELSE job

-----------------------------------------------------------------------------
(* next_dispatch_plan: a plan is the window and the speech in it; a job    *)
(* that has nothing to dispatch has no plan.                               *)

\* The last of the segments before the first that ends beyond a window.
LastFitting(segs) ==
    LET misfits == {i \in 2..Len(segs) : segs[i][2] - segs[1][1] > WindowLen}
    IN  IF misfits = {} THEN Len(segs)
        ELSE (CHOOSE i \in misfits : \A j \in misfits : i <= j) - 1

\* A faulty variant of the next: a long segment is not cut.
UncutEnd(start, end) == end

\* dispatch_end: a full window is cut at its length.
WindowEnd(start, end) == IF end - start >= WindowLen THEN start + WindowLen ELSE end

VadPlans(job) ==
    LET segs == JobSegments(job) IN
    IF segs = <<>> THEN {} ELSE
    LET k       == LastFitting(segs)
        start   == segs[1][1]
        last    == segs[k][2]
        end     == WindowEnd(start, last)
        full    == last - start >= WindowLen
        timeout == job.len - last >= SilenceTimeout
    IN  IF k < Len(segs) \/ full \/ timeout \/ (job.closed /\ job.len > 0)
        THEN {[start |-> start, end |-> end,
               speech |-> [i \in 1..k |-> <<segs[i][1], AtMost(segs[i][2], end)>>]]}
        ELSE {}

\* A faulty variant of the next: the rest of a stream that is shorter than a
\* window is never one.
FullWindowPlans(job) ==
    IF job.len >= WindowLen
    THEN {[start |-> 0, end |-> WindowLen, speech |-> <<>>]}
    ELSE {}

PlainPlans(job) ==
    IF job.len >= WindowLen \/ (job.closed /\ job.len > 0)
    THEN {[start |-> 0, end |-> AtMost(WindowLen, job.len), speech |-> <<>>]}
    ELSE {}

\* The empty set (None) or the one plan (Some).
DispatchPlans(job) == IF HasVad THEN VadPlans(job) ELSE PlainPlans(job)

\* The job after its audio up to plan.end has left for a worker: what
\* dispatch_to_worker drains, shifts and counts.
AfterDispatch(job, plan) ==
    LET later == Kept(job.probs, {i \in DOMAIN job.probs : job.probs[i].start >= plan.end})
    IN
    [job EXCEPT !.len = @ - plan.end, !.offset = @ + plan.end,
                !.probs = [i \in DOMAIN later |->
                             [later[i] EXCEPT !.start = @ - plan.end]],
                !.vadDone = Monus(@, plan.end),
                !.inFlight = @ + 1, !.nextWindow = @ + 1]

\* Where the window starts in the stream: window_start_sec.
WindowBegin(job, plan) == job.offset + plan.start

\* The task for a worker; its samples are named by the session they come from
\* and their range in its stream.
WhisperTask(job, plan) ==
    [kind |-> "whisper", job |-> job.id, index |-> job.nextWindow,
     begin |-> WindowBegin(job, plan), session |-> job.session,
     from |-> job.offset + plan.start, to |-> job.offset + plan.end]

\* A faulty variant of the next: times in the buffer, not in the stream.
SpeechEventsInBuffer(job, plan) ==
    [k \in 1..(2 * Len(plan.speech)) |->
        [kind |-> "speech", at |-> plan.speech[(k + 1) \div 2][2 - (k % 2)]]]

\* SpeechStarted and SpeechEnded of every segment in the window.
SpeechEvents(job, plan) ==
    [k \in 1..(2 * Len(plan.speech)) |->
        [kind |-> "speech",
         at |-> job.offset + plan.speech[(k + 1) \div 2][2 - (k % 2)]]]

-----------------------------------------------------------------------------
(* VAD windows: at most one is at the workers, since each needs the model  *)
(* state that the one before it left.                                      *)

\* A faulty variant of the next: the last, short window never gets its turn.
HasFullVadReady(job) ==
    HasVad /\ ~job.vadBusy /\ job.len - job.vadDone >= VadWindow

HasVadReady(job) ==
    /\ HasVad /\ ~job.vadBusy
    /\ job.vadDone < job.len
    /\ job.len - job.vadDone >= VadWindow \/ job.closed

\* next_vad_job; from names the samples it sends by their place in the stream.
VadTask(job) == [kind |-> "vad", job |-> job.id, start |-> job.vadDone,
                 from |-> job.offset + job.vadDone]

HandleVadResult(job, r) ==
    [job EXCEPT !.vadBusy = FALSE,
                !.vadDone = AtMost(r.start + VadWindow, job.len),
                !.probs   = Append(@, [start |-> r.start, speech |-> r.speech])]

-----------------------------------------------------------------------------
(* handle_result: results wait in pending until those before them are in.  *)

\* A faulty variant of the next: results are passed on as they come.
DeliverAtOnce(job, r) == <<r>>

\* The results that are next in order once r is in, in order.
Deliverable(job, r) ==
    LET got     == job.pending \cup {r}
        Turn(k) == {q \in got : q.index = job.nextResult + k - 1}
    IN  [k \in {i \in 1..Cardinality(got) : \A j \in 1..i : Turn(j) # {}} |->
            CHOOSE q \in Turn(k) : TRUE]

HandleResult(job, r) ==
    LET next == Deliverable(job, r) IN
    [job EXCEPT !.inFlight = Monus(@, 1), !.completed = @ + 1,
                !.pending = (@ \cup {r}) \ {next[k] : k \in DOMAIN next},
                !.nextResult = @ + Len(next)]

\* The responses of handle_result: the text of each window, at the time it was
\* given.  The segments the code sends of a window, none or several one after
\* the other, are one response here, about all of the window.
SegmentResponses(rs) == [i \in DOMAIN rs |->
    [kind |-> "segment", session |-> rs[i].session, begin |-> rs[i].begin,
     from |-> rs[i].from, to |-> rs[i].to]]
=============================================================================
