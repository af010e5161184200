# A verification project for rkwhisper

rkwhisper is a speech-to-text daemon for Rockchip NPUs. Clients stream PCM
audio to `rkwhisperd` through shared memory, one scheduler per model cuts the
streams into windows, a fixed set of NPU worker threads transcribes the
windows, and each client gets its text back in order while it is still
sending. This directory holds TLA+ models of the concurrent core of that
program, TLC configurations that check them, and TLAPS proofs about them.

All paths below are relative to `src/`. `PROJECT.json` maps every definition
to the lines it models.

## The system

| Component | Source | State it keeps | Operations | What makes it correct |
|---|---|---|---|---|
| Shared audio ring | `rkwhisper-protocol/src/lib.rs` 322-513 | bytes in a memfd and two atomic offsets | `push_available` (client), `drain_available` (daemon) | bytes come out once, in order; the two processes never touch the same byte at once |
| Reader thread | `rkwhisper/src/daemon_stream.rs` | its PCM buffer, the chunk queue's sending end | `read_live_chunks`, `flush_pcm_chunks` | every announced chunk is passed on; the job learns how the stream ended |
| Session thread | `rkwhisper/src/bin/rkwhisperd.rs` 124-302 | response queue's receiving end, the reader's join handle | handshake, submit, write responses, final response | one last response; it tells the truth about the session |
| Model scheduler | `rkwhisperd.rs` 684-931 | active jobs, next job id, dispatch cursor | accept jobs, drain chunks, dispatch, take results, fail | every job ends; results find their job; no worker is forgotten |
| Live job | `rkwhisperd.rs` 381-681 | audio buffer and its place in the stream, VAD probabilities, counts, pending results | accept a chunk, plan a window, apply a result | all audio (all speech) is transcribed, in order, at the right time |
| NPU workers | `rkwhisper/src/parallel.rs` 448-515 | the task of each worker | load, announce, run, report | one announcement per worker |
| VAD segmentation | `rkwhisper/src/vad.rs` 152-209 | none | `segments_from_probs` | segments are the padded utterances and do not change once passed |
| Audio windows | `rkwhisper/src/whisper.rs` 177-186, 458-537 | none | `transcription_windows` | windows fit the encoder and cover the speech |
| Client library | `rkwhisper-client/src/lib.rs` | connection, ring | `connect`, `send_audio`, `finish`, `recv_response`, `split`, `transcribe_all` | a client that does its part is answered |
| One-shot pool path | `parallel.rs` 317-445, 517-594 | a pool that is used again and again, and what a call has left in its queues | `transcribe_audio_with_segment_callback`, `vad_segments_with_config`, `Drop` | text of this audio, in order; every call returns; the pool closes |
| Decoding | `whisper.rs` 215-430, 539-612, `decoder.rs`, `suppression.rs` | tokens, the cache and its masks | seek loop, suppression rules, split into segments | each pass advances; no word is lost |
| Beam search | `beam.rs` | beams, each with its tokens and a cache; finished beams | `new`, `step`, `best_result` | the result is one that a single beam could have had |
| Codec and framing | `rkwhisper-protocol/src/lib.rs` 143-286, 570-1001 | the frame a reader is in | frames, messages, fd passing | what is sent is what is read |
| Signal processing | `rkwhisper/src/lib.rs`, `encoder.rs`, `spec.rs` | model buffers | log-mel, resampling, NPU calls | numerics |
| Configuration, start-up | `daemon.rs`, `rkwhisperd.rs` 53-122 | files | checks, loading | what comes up can serve |
| Python bindings | `rkwhisper-python/src/lib.rs` | `done_received` | `recv_response`, iteration | an iterator stops only at the done response |
| Benchmark, packaging | `rkwhisper-bench`, `debian` | - | - | - |

How they interact:

```
 client ---ring---> reader thread --chunk queue--> model scheduler --inbox--> worker
   ^   \--signals-->                                 |  ^  ^                    |
   |                                                 |  |  \---ready queue------|
   socket <--- session thread <--response queue------/  \------result queue-----/
                     \----------job queue (try_send)--->
```

All the queues are bounded. The chunk, response, result, ready and inbox sends
wait for room; the submission of a job does not wait but is refused. The
hard parts are therefore the interleavings of six kinds of threads over
bounded queues, workers that finish out of order, results that outlive their
job, positions that are relative to a buffer which moves, and the ways a
session can be over before its job is. `PROJECT.json` lists these as hazards,
each at its line.

## The modules

| Module | Models | Notes |
|---|---|---|
| `ByteStream` | - | abstract: a byte pipe that holds at most `Capacity` bytes |
| `AudioRing` | the ring | one action per atomic load or store and per slice copy |
| `AudioRingProofs` | - | the theorems about `AudioRing` |
| `VadSegments` | `segments_from_probs` | its loops are recursive functions; also used by `LiveJob` |
| `VadProofs` | - | induction over loops; the shape of the segments, and what becomes of them when more is judged |
| `Windows` | `transcription_windows` | the loop over the segments is a recursive function |
| `MCVad` | the stepping of VAD windows | states what `VadSegments` and `Windows` are for by definitions without loops |
| `RecordingProofs` | - | the theorems about `MCVad` |
| `Decoding` | the seek loop, `TokenSuppressor`, the decoder's cache, `tokens_to_segments` | one action per token; a pass with a beam is one action; the network is external |
| `BeamSearch` | `beam.rs` inside that loop | one action per round; shown to refine `Decoding` |
| `MCDecoding` | - | the windows and options TLC decodes with |
| `DecodingProofs` | - | the theorems about the two |
| `LiveJob` | `ActiveLiveJob` | pure decisions: records in, records out |
| `Sessions` | session and reader threads | variables and actions per session |
| `NpuWorkers` | worker threads and their queues | variables and actions per worker |
| `LiveScheduler` | the scheduler, composed with the three above | the specification `Spec`, and `FairSpec` |
| `Transcription` | - | abstract: what the daemon promises a client |
| `LiveProperties`, `MCLive` | - | properties of `LiveScheduler`, symmetry for TLC |
| `LiveProofs` | - | the theorems about the state of the scheduler, sessions and workers |
| `LiveTextProofs` | - | the theorems about what the clients are told, and the refinement; at its end those about `ClientSession`, and that those about `LiveScheduler` hold with its clients |
| `ClientSession` | the client's two halves, signals, ring and socket, and `read_live_chunks` with its buffer, composed with `LiveScheduler` | the chunks `Sessions` takes for granted are cut here |
| `PoolTranscribe` | the one-shot path over `NpuWorkers`: dispatcher and collector side by side, VAD calls, `Drop` | one pool, successive calls |
| `PoolProofs` | - | the theorems about it |
| `Handshake` | `connect` against the head of `handle_connection`, several clients and one job queue | |
| `Protobuf` | `ProtoInput` and the field writers | functions on sequences of bytes |
| `Messages` | the encoders and decoders of the hello and of all responses | driven by schemas, one row per field |
| `Connection` | one connection byte by byte: the daemon's configuration, frames, the descriptor, refusals, the calls of the Python bindings | either process may die |
| `Conversation` | - | abstract: a connection in whole messages |
| `MCConnection` | - | configurations, hellos and responses for TLC |
| `ConnectionProofs` | - | the theorems about the codec and about `Connection` |

**How state corresponds to code.** Audio is abstracted to positions: in
`LiveScheduler` one unit is one chunk, in `VadSegments` and `Windows` one
sample, in `AudioRing` one byte, each byte named by its position in the
stream. In `Decoding` tokens are numbers in the code's order (text,
EOT, timestamps), and a slot of the cache holds which token of which pass (in a
beam also: which id) was written there. `Connection` does send bytes: there the
conversions are what is at stake. How many values an u64 and an u32 have, and
how long a varint may be (2^64, 2^32 and 10 in the code), are the constants
`Word64`, `Word32` and `MaxGroups`, which TLC gets smaller values for. A buffer is its length and the position of its first sample; a task
carries the range of the stream it is about, so that text can be compared
with the audio it must be of. An action of the scheduler is what the thread
does between two channel operations. The messages it sends in one step wait
in `outbox`, which it empties in order before it goes on: this is where it
blocks in the code (`response_tx.send` is a blocking send, rkwhisperd.rs:673).
`at` is the loop variable of `drain_live_chunks`, `pc` the place in
`run_live_jobs`. The end of a channel is not a variable: a receiver exists as
long as its owner does (`Held`, `Listening`, `Reading`).

Some definitions are preceded by a *faulty variant* with the same parameters,
for instance `RoomOffByOne` before `Room`. Nothing uses them: they are the
mutants that `PROJECT.json` lists. Put in the place of the definition that
follows, TLC finds the property violated that the mutant names.

## The runs

| Run | Question | Instance |
|---|---|---|
| `ring` | Is the ring a bounded byte pipe, free of data races, whatever the interleaving? | capacity 3, 8 bytes: it wraps twice, is full and is empty, and pushes are of every length |
| `vad_segments` | Do the loops of `segments_from_probs` and `vad_audio_windows` compute what they are for? | every stream of decisions up to 21 samples; segments merge, are dropped, are cut, share windows |
| `decoding` | What do the seek loop, the suppressor, the cache, a beam search and the split into segments do with whatever the network answers? | cache of 7 that a pass wraps, up to 3 passes, of up to 5 tokens, greedy or two beams, with or without timestamps |
| `live_fixed` | Two sessions, two workers, no VAD, tasks that fail: order, completeness, conservation of announcements; results of dead jobs | 3 chunks each, window of 2, so there is a full and a short window, finishing in either order |
| `live_vad` | One session with VAD, with workers that may fail to load, a client that may cancel, send an unknown signal or leave, and a reader that may fail | 5 chunks, window of 3, every sequence of decisions; padding, cut windows, silence timeout |
| `live_ends_faults` | Does every session end, and the scheduler let go of every job? | two sessions of one chunk, one worker, failing tasks, clients that leave, readers that fail, sessions that find no thread for a reader |
| `client_split` | Is the stream passed on whatever the sizes of pushes, drains and chunks, and does a client that sends and receives at once get its last response? | VAD; 7 units in chunks of 2 through a ring of 3, queues and socket of size one; the client ends, cancels, sends an unknown signal or drops its sender; its reader may fail |
| `pool` | Do successive calls on a pool get their own results, do they return, does the pool close? | 2 calls of up to 3 windows, Whisper or VAD, 2 workers; workers, windows and callbacks that fail |
| `connection` | Do daemon and client understand each other in whatever pieces the bytes come? | 16 bytes of socket, 11 configurations, 7 hellos (one too large for a frame, one with a negative `sample_format`), four fields of a later version before or after each, 3 responses, either process may die |
| `client_one_shot` | The same for `transcribe_all` | **violated**: see below |
| `live_no_workers` | Does a session end when no worker comes up? | **violated** |
| `handshake` | Does `connect` ever return a session that was refused? | **violated** |

**Bounds.** Every queue has size one (the response queue two in `live_vad`),
the worst case for blocking and, apart from the response and chunk queues, the
default of `daemon.rs` 244-262; longer queues only add slack. Two sessions
suffice for one to disturb the other and two workers for results to overtake.
`MaxChunks` bounds a stream; with a window of two chunks three chunks give
every kind of window. `live_ends_faults` has one chunk for each session, so readers
block on a full chunk queue in `live_fixed`, `live_vad` and `client_split`
only. Job ids are never reused and bounded by the number of
sessions. Sessions and workers are interchangeable, so the safety runs use
symmetry; the liveness runs do not. `ring` and `vad_segments` need no
symmetry. In `decoding` the lengths 64, 16 and 4 of the code and the caches of
400 and 448 are scaled down together, so that a pass can wrap the cache, a
prompt is cut, and the loop ends in each of its ways; `MinRoom` is 0 there
because the code's own margin (16 < 64) makes that check redundant, which must
not hide a wrong budget. `MCRequests` has one window that takes three greedy
passes, one that takes several passes with a beam, one that takes a single pass
of three rounds, so that beams end, fork and overtake each other before the
limit, two that overwrite slots of the cache, greedily and with a beam, and one
with no tokens to spend. In `connection` 20 and 16 bits stand
for 64 and 32: a varint still has up to three bytes, a value just fits or is
cut, and a larger frame than `FrameMax` is refused; messages are longer than
the socket holds, so each is read in pieces, the first one possibly shorter
than the length itself. In `pool` three windows on two workers let a
window overtake two others, and the second call meets what the first has left.
`client_split` has a stream that is no multiple of the chunk and a ring that is
no multiple of either.

**Where a run may stop.** `client_*`, `handshake`, `connection`, `pool`,
`vad_segments` and `decoding` end when
the last client, the pool or the window is done, so deadlock is not checked
there, and `pool`, `connection` and `client_*` have liveness properties instead; `LiveScheduler`
has an explicit `Quiet` step for a daemon that is waiting for clients, and
any other state without a step is reported.

**Fairness.** `FairSpec` assumes that threads that can run do: each session
thread, reader thread and worker (weak fairness), and the scheduler. Clients
read what they are sent and end their streams, or go; `ReaderThread` being fair
says so. This matters at the end of a job too: a client whose job has failed is
told when its stream ends, because the session thread joins the reader
(rkwhisperd.rs:216) before it writes the last response, and the reader waits
for the client's next signal. tokio's `select!` polls its branches in random order, so a branch that is
ready again and again is eventually taken; this is strong fairness of each
branch. It is written with explicit conditions (`JobBranch`, `ReadyBranch`,
`ResultBranch`) because TLC would evaluate all VAD segments many times over
for `ENABLED`. In `connection` the two processes are fair under conditions of
the same kind (`ClientCanMove`, `DaemonCanMove`): no call waits while it can go
on, but neither process needs to die. In `pool` the workers are fair, and so is
the thread that runs `block_on`: it sleeps only when neither of its two tasks
can go on (`Running`), and `Drop` joins as soon as it can (`Joined`). Nobody
has to begin a call or to drop the pool. The 5 ms sleep branch needs no fairness. In `ring` the two
loops run on because `send_audio` repeats a push that found the ring full
and the reader drains at every signal.

## What the properties say

* `NoDataRace`, `DrainedInOrder`, `NoOverrun`, `ImplementsStream`, `EverythingDrained`
  (`AudioRing`): nothing but the order
  of offset stores and slice copies keeps the two processes apart; these state
  what must follow from it.
* `SegmentsAreReference`, `SegmentsAreStable`, `SpeechIsCovered`,
  `WindowsAreFull` (`MCVad`): the loops against definitions by sets. Stability
  is what lets the scheduler recompute segments at every turn after it has
  announced some of them.
* `RoomToGenerate`, `EveryPassAdvances`, `WordsAreKept` (`Decoding`):
  whatever the network answers, a pass starts with its control tokens and room
  left and goes further than the one before; no word is lost or repeated
  between the passes and the segments. What the order of the segments' times is
  depends on the network and is not claimed.
* `AttendsToContext` (`BeamSearch`): the network attends to the newest tokens
  of its own pass and its own beam, as many as the cache holds, also once the
  cache has wrapped: never to a slot of another pass, or of a beam that forked
  off the same parent.
* `ImplementsDecoding` (`BeamSearch`): a search refines the seek loop. However
  the beams fork, end and overtake each other, a pass returns a sequence that
  is admissible token by token and that ends with EOT or has used its tokens,
  which is all the seek loop relies on.
* `OneTokenPerWorker`: the Ready announcement of a worker is a token that
  exists exactly once. A select guard that lets an announcement be taken
  without a task to give (the mutant `AnyActive`) loses it. In `PoolTranscribe` it also
  says that a call that fails between the two tasks leaves every worker usable.
* `InFlightIsExact`, `TextIsOwn`: the scheduler's counts agree with what is
  really at the workers, and text goes to the client whose audio it is of, at
  the right time, although results of failed jobs are still on their way.
* `AudioIsAccounted`: no chunk is lost or counted twice between reader, queue,
  buffer and windows. (That a job is not closed before its last chunks are read
  is in `ImplementsPromise`.)
* `VadResultsFit`: the buffer does not move under a VAD window at a worker.
* `WindowsFit`, `SpeechComesFirst`, `NoOrphans`: windows the encoder takes;
  events and text in order; nobody is left without a `Finished`.
* `ImplementsPromise`: `LiveScheduler` refines `Transcription`: the text of
  successive stretches in stream order, each beginning where the one before
  ended unless VAD leaves something out between them, all of it before `done` or `cancelled`.
* `StreamIsDelivered` (`ClientSession`): what was announced is in the chunks
  when the reader reports the stream complete, though signals and drains
  overtake each other and no size divides another.
* `OutputIsOwn`, `VadStateIsChained`, `ImplementsPromise` (`PoolTranscribe`):
  until a call has failed, results are of the call's own recording and in order,
  and each VAD window is judged with the state its predecessors left. A call
  whose results are its own, also one after failed calls, gives `on_segment`
  successive windows and returns Ok only when it has given every window
  (`Transcription` again).
* `HelloIsUnderstood`, `RingIsShared` (`Connection`): a hello is read as it was
  written, however it was cut up and with fields of a later version in it; the
  session maps the ring whose descriptor came with the first byte.
* `ImplementsConversation`: `Connection` refines `Conversation`, in which whole
  messages are said and heard. None is changed, lost or heard twice, in whatever
  pieces the bytes come, whichever calls of the bindings are mixed and whoever
  dies. The daemon has one last word, unless it dies or gives up right after its
  greeting, and the client takes the conversation for over when it has heard
  that word, or when there will be none.
* `JobsAreServable`: what the scheduler takes for granted of a job is made sure
  of by checks in three other places.
* `SessionsEnd`, `JobsEnd`, `ClientIsAnswered`, `CallsReturn`, `PoolCloses`,
  `ClientLearns`: liveness.

The type invariant of a module with a run of its own is a conjunct of one of
its invariants (`AttendsToContext`, `InFlightIsExact`, `RingIsShared`,
`OneTokenPerWorker` of the pool), or, in `AudioRing`, checked by itself.

**A pool after an error.** Results carry no call, and a call that fails leaves
windows at the workers. The `pool` run shows how far that goes, and what its
properties exclude they exclude for a reason: the call after a failed one
may take a stale window with the same index for its own (`OutputIsOwn` and
`VadStateIsChained` say `~Failed`; `ImplementsPromise` holds a call to nothing
more once it has taken such a window, which the history field `own` of `given`
remembers, and holds it to all it says until then); if a worker has also
failed to load, stale results can fill the result queue, and a VAD call then
waits for an announcement that no worker can make; and `Drop` can wait for a
worker that waits for room in that queue. Nothing in this repository uses a
pool again after an error, and no comment or test says that one could, so these
are limits of the properties and not findings.

## Where the code and what is said of it part

1. **Back-off is not retried.** `connect` documents that a back-off during the
   handshake is retried (rkwhisper-client/src/lib.rs:109). The daemon sends
   `ServerHello` before it submits the job (rkwhisperd.rs:161, 182), so
   `connect` has returned when the back-off arrives, and the caller finds it
   where it expects text. Run `handshake`, property `ConnectRetriesBackOff`.
2. **`transcribe_all` can deadlock.** It sends everything before it reads
   anything. If the stream is longer than the ring (120 s) and the queues hold,
   and the responses fill socket and response queue, the scheduler is blocked
   in a send to this client, which waits for room in the ring; and with the
   scheduler all sessions of the model. Run `client_one_shot`. `client_split`
   shows that reading meanwhile is enough.
3. **No worker, no answer.** An initialisation error is sent to the result
   queue, which is read only while something is in flight
   (rkwhisperd.rs:739). With no worker at all nothing ever is. Run
   `live_no_workers`.

## What is proved

`AudioRingProofs` proves for every `Capacity > 0` and every `StreamLen`, from
`RingAssumption` alone:

| Theorem | States |
|---|---|
| `TypeCorrect` | `Spec => []TypeOK` |
| `NeverOverrun` | `Spec => []NoOverrun` |
| `StreamInOrder` | `Spec => []DrainedInOrder` |
| `NeverDataRace` | `Spec => []NoDataRace` |
| `Monotone` | `Spec => OffsetsMonotone` |
| `RingImplementsStream` | `Spec => ImplementsStream` |

None of the invariants is inductive: each says nothing of the copies of
offsets that the two sides hold while the other moves on. `IInv` adds that, in
named parts:

* `OffsetsInv`: what is written and not read fits (`readOff <= writeOff <=
  readOff + Capacity`).
* `PushInv`: the read offset the client loaded is at most the shared one, and
  what it is about to write fits behind it; its own write offset is current.
* `DrainInv`: the reader's own read offset is current, the write offset it
  loaded is at most the shared one.
* `DataInv`: every stream position from `readOff` to `Filled` is in its slot,
  where `Filled` is as far as the client's copy has got, published or not.
* `OutInv`: the reader has the stream up to `Emptied`, as far as its copy has
  got, and nothing else.

The proof has one lemma per action. The arithmetic of `%` is confined to
lemmas about slots at the head of the module: fewer than `Capacity` successive
positions have different slots, and the two slices of a copy are consecutive
positions. Bytes in place from `readOff` to `Filled` then carry over to what
the reader appends. `NeverDataRace` follows from `IInv` because both ranges
are slots of positions between `readOff` and `readOff + Capacity`, those of
the reader before `writeOff` and those of the client from it on.
`RingImplementsStream` maps a push to its store of the write offset, a drain
to its store of the read offset, and every other step to a stutter.

`DecodingProofs` proves three properties of `Decoding` for every vocabulary,
window, cache and limit that `TokensAssumption` and `LimitsAssumption` admit:
`RoomAlways`, `PassesAdvance` and `OnePass`
(`OnePassWithoutTimestamps`, what the comment at whisper.rs:256 says). Their inductive invariant `IInv`
adds what the properties leave out of the state between passes: while a pass
runs, the prompt is still what `PassPrompt` computes (`PromptInv`); when the
loop is back at its head, the last timestamp has grown with every pass so far
(`SeekInv`); without timestamps the pass has none to offer (`ModeInv`). The
lemmas say that the last timestamp of `accumulated` after a pass is the last
of that pass (`LastTimestampOfConcat`, which needs that a bounded set of
positions has a greatest element) and what a prompt consists of
(`PassPromptType`).

The same module proves that `BeamSpec` implements `Decoding`'s `Spec`
(`BeamImplementsDecoding`), for every beam width that `SizeAssumption` admits;
`SearchAdvances` and `RoomForSearch` carry two of the properties above over to
the search. A round is a stutter of the seek loop and the end of a search is
`GenerateBeam`. The inductive invariant `SearchInv` says what the beams have to
be for that: while a search runs, every live beam has one admissible token per
round and no EOT, every finished beam is admissible and ends with its only EOT,
and there is always a beam to return.

`ContextAlways` proves `AttendsToContext` from those two invariants and
`CacheInv`. Its core is `Holds(state, n, name)`: after `n` tokens, the `j`-th
of the last `T_CACHE` is in the slot `(j - 1) % T_CACHE`. A step of the decoder
keeps it for one token more (`HoldsOneMore`), because tokens less than a cache
apart have slots of their own (`SlotsApart`), and with it the slots that a step
does not mask are the newest tokens, each of them and nothing else
(`HoldsNewest`; when the cache has wrapped this needs that every slot is one of
a recent token, `SlotIsUsed`). `OwnCacheInv` and `BeamCacheInv` say it of the
decoder's own state and of every beam's, by the tokens of that beam: children
of one parent have copies, so what one writes is not in the other's context.

`WordsAlways` proves `WordsAreKept` for all sequences of tokens there are. It
rests on one fact about one round of the loop (`AddTokenKeeps`): the words of
the segments so far and of the run that is open are those of the tokens read.
The operators in the statement are loops themselves; for each of them a lemma says
what one element more does (`OnlyAppend`, `FlatAppend`), and `EverySeq` is the
induction over sequences, stated of a set.

`PoolProofs` proves the safety of `PoolTranscribe` for any number of workers,
calls and windows, from `WorkersAssumption` and `PoolAssumption`:

| Theorem | States |
|---|---|
| `TokensKept` | `Spec => []OneTokenPerWorker` |
| `OutputOwn` | `Spec => []OutputIsOwn` |
| `StatesChained` | `Spec => []VadStateIsChained` |
| `PoolImplementsPromise` | `Spec => ImplementsPromise` |

The parts of its inductive invariant `IInv`:

* `TypeInv`: what the queues, inboxes and tasks hold.
* `TokenInv`: the ready queue names a worker once at most; a worker that is
  announced waits with an empty inbox; one that waits is announced or has a
  task in its inbox. The counts of `OneTokenPerWorker` follow. It holds whether
  or not calls have failed.
* `CallInv`: in a Whisper call whose results are all its own so far, the last
  stretch given to `on_segment` ends where the output does; of later calls
  nothing is known.
* `Numbered`: each Whisper window at a worker, in the result queue or in
  `pending` is of a call that has begun, and of the call in progress only those
  are that it has handed out. With these two parts every step is one of `Transcription` or a stutter, after failed calls too; a call that takes
  a window of another call ends, in the abstraction, as one that failed.
* `OwnInv`: until a call fails, whatever is at a worker, in the result queue or
  in `pending` belongs to the call in progress (`AllMine`), comes after its
  output and before the next window to hand out, and no window is there twice
  (`Apart`). `Apart` is what makes the first part inductive: a window that was
  under way twice would be in the output and under way at once. At the end of a
  call that has given all of its windows the range is empty, so nothing is left
  for the next. `Chained` ties the state of a VAD task to its number.

That `pending` gives out a prefix of consecutive windows (`InOrderIsNext`) rests
on `PrefixIsRange`: a set of positions that is closed downwards is an interval.

`VadProofs` proves of `segments_from_probs` what `LiveScheduler` relies on at
every turn (`SegmentsInOrder`): for decisions at increasing places of audio of
any length, the segments are not empty, lie within the audio and come in order
with a gap between any two. The loops of the module are recursive functions,
and the library's induction theorems cannot be used (they take an operator as a
parameter); what takes their place are two lemmas about a loop of `n` rounds
over a *set* of values: `UpTo`, induction up to a bound, from the
well-foundedness of `<` on `Nat`, and `LoopExists`, that a loop has a result
after each of its rounds. `ScanTyped` and `MergeInOrder` are the invariants of
the two loops. (`DecodingProofs` states the two lemmas again: a module cannot
extend both, as each of `VadSegments` and `Decoding` has its `Segments`.)

`RecordingProofs` proves the four properties of `MCVad` for streams, windows,
pads, thresholds and lengths of any size, from `VadAssumption` and
`WindowsAssumption`:

| Theorem | States |
|---|---|
| `AnnouncedSegmentsStay` | `Spec => SegmentsAreStable` |
| `RecordingIsCovered` | `Spec => []SpeechIsCovered` |
| `RecordingIsPacked` | `Spec => []WindowsAreFull` |
| `SegmentsAreTheReference` | `Spec => []SegmentsAreReference` |

The state of `MCVad` is simple, and so is its inductive invariant `JudgedInv`:
the decisions are of successive windows, each begun within the audio. The work
is in the loops:

* *Stable.* `Grows(before, after)` says that all segments but the last are
  equal and the last neither moved nor shrank. It holds of each loop when audio is
  added (`AudioGrows`) and when a decision is (`DecisionGrows`): more
  audio changes only the last of the raw segments, by the flush at the end
  (`ScanLater`), and merging passes that on (`MergeLater`); one more decision
  adds a raw segment or stretches the last (`ScanOneMore`, `MergeOneMore`).
* *Covered and full.* The invariant of the loop over the segments (`Grouped`)
  is that the windows closed so far fit, come in order and have all the speech
  up to the open group, and that the group fits a window and begins and ends
  with a segment; `MayClose` says of each closed window why it was closed.
  `PiecesFit` is the arithmetic of cutting a stretch every `N_SAMPLES`.
* *The reference.* `Together` of two windows is the absence of a break between
  them (`TogetherIs`), a silence long enough to end an utterance. The invariant
  of the scan (`FoundRuns`) is that the raw segments are the utterances that a
  break has ended, each once and in order, and that the open one runs from the
  first speech after the last break to the newest speech. At the end of the
  stream these are all of them (`RawAreUtterances`). Merging leaves out the
  short ones and keeps the half samples that the others cover with their pads
  (`MergeCovers`), and segments with a gap between any two are just the maximal
  runs of what they cover (`SegmentsAreMaximal`).

`LiveProofs` proves the safety of the scheduler for any number of sessions,
workers and jobs, any sizes of queues, windows and streams, with and without
VAD, load failures, failing tasks, clients that leave, readers that fail and
sessions that find no thread for a reader, from
`SchedulerAssumption`, `SessionsAssumption`, `WorkersAssumption`,
`JobAssumption` and `VadAssumption`:

| Theorem | States |
|---|---|
| `LiveIsTyped` | `Spec => []TypeOK` |
| `LiveWorkersHaveOneToken` | `Spec => []OneTokenPerWorker` |
| `LiveInFlightIsExact` | `Spec => []InFlightIsExact` |
| `LiveAudioIsAccounted` | `Spec => []AudioIsAccounted` |
| `LiveNoOrphans` | `Spec => []NoOrphans` |
| `LiveVadResultsFit` | `Spec => []VadResultsFit` |
| `LiveWindowsFit` | `Spec => []WindowsFit` |

Its inductive invariant is `CoreInv`, and each part needs the ones before it:

* `TypeInv`, `JobsOK`: what queues, tasks and jobs hold. The decisions of a job
  cover a prefix of its buffer, so that `SegmentsInOrder` applies to it, and
  its pending results are windows it has dispatched and not delivered, each once.
* `TokenInv`: a worker that waits is announced, or is being given a task, or has
  one in its inbox, and no two of these. The task is the last message of
  `outbox`, because the scheduler dispatches one at a time.
* `IdInv`: ids are not used twice and a session has one job at most; what is
  outstanding is of an id already given out, so that a new job starts without
  results, although those of failed jobs are still on their way.
* `PhaseInv`: a session that is not yet accepted has nothing anywhere; one that
  has ended reads nothing.
* `AudioInv`: offset, buffer and chunk queue make up what was sent; a job whose
  input is closed has an empty chunk queue unless its reader failed.
* `WorkInv`: outstanding windows of a job are its own and have different
  numbers, from the next result to the next window, and none of them is pending;
  there is one VAD window at most, its start is where VAD stands and the buffer
  has not moved since. This is what makes `VadResultsFit` and `CountInv` inductive.
* `CountInv`: the counts are cardinalities of `OutstandingFor`.
* `EndInv`: a session is queued, active, or has a `Finished` in its queue or in
  the outbox: `NoOrphans` once the outbox is empty.

The proof has one lemma per action and part. Work that moves on, from outbox to
inbox to worker to result queue, keeps its item; the lemmas on `Outstanding`
give a bijection between the work before and after (`Carried`), so that nothing
that is said of the items has to be proved again.

`LiveTextProofs` proves what the clients are told, again for all constants:

| Theorem | States |
|---|---|
| `LiveInvariance` | `Spec => []IInv` |
| `LiveTextIsOwn` | `Spec => []TextIsOwn` |
| `LiveSpeechComesFirst` | `Spec => []SpeechComesFirst` |
| `LiveImplementsPromise` | `Spec => ImplementsPromise` |

`IInv` adds two parts to `CoreInv`:

* `ToldInv`: every response, in a session's queue or in the outbox, is right
  when its turn comes, that is after what the client has heard and the
  responses before it. A segment is then the stretch that follows (with VAD: a
  later one whose speech is announced), and a `Finished` without error finds all of the
  stream heard and the reader at its end.
* `OrderInv`: the windows of a job that are not delivered, pending or
  outstanding, continue what its client *will* have heard once queue and
  outbox are empty, in the order of their numbers, up to where the buffer
  begins; none is missing unless an error result is on its way. That a job is
  complete only when it has heard everything follows from this and
  `InFlightIsExact`: with nothing outstanding and nothing pending the range of numbers is empty,
  so what was told reaches to the end of the buffer.

In the refinement, a reader that sends a chunk takes in audio (`Accept`), a session
thread that writes a segment delivers (`Deliver`), joining the reader ends the
session (`End`), and every other step is a stutter. The proof found one
mistake in the model: the cases of `FinalResponse` overlapped, so that a
failed job whose reader had completed might have been reported as `done`; TLC
takes the first case that holds, as the code does, and had not noticed. The
cases are now disjoint.

The last part of `LiveTextProofs` is about `ClientSession`, where clients with their
two halves, signals, ring and socket take the place of the streams that
`Sessions` takes for granted:

| Theorem | States |
|---|---|
| `ClientImplementsLive` | `ClientSpec => Spec` |
| `ClientGetsPromise` | `ClientSpec => ImplementsPromise` |
| `ClientStreamIsDelivered` | `ClientSpec => []StreamIsDelivered` |

By the first every theorem about `LiveScheduler` holds with these clients, of
which the second is the one that they see. The third holds for streams, rings,
pushes and chunks of any size. It needs `StreamInv`: what was announced is in
the ring only while a signal that drains it is on its way, and nothing is
announced once an end was seen (`SignalInv`); what has left ring and buffer is
in whole chunks until the stream ends, then in as many as that takes
(`CutInv`; a reader that has failed may have lost the one it was sending). That
the sizes need not divide each other is in `Chunks`, the quotient rounded up,
and in the lemma `ChunksBound`.

`ConnectionProofs` proves the codec and the connection for every hello, every
response, every width of the integers and every size of socket and frame:

| Theorem | States |
|---|---|
| `HelloRoundTrip` | `DecodeClientHello` reads what `EncodeClientHello` made as it was, with unknown fields before or after it, or fails if there is no model |
| `ResponseRoundTrip` | `DecodeResponse(EncodeResponse(r)) = Is(r)` for every response |
| `ConnectionInvariant` | `Spec => []IInv` |
| `HelloAlwaysUnderstood` | `Spec => []HelloIsUnderstood` |
| `JobsAlwaysServable` | `Spec => []JobsAreServable` |
| `NothingIsEverMisread` | `Spec => []NothingIsMisread` |
| `RingAlwaysShared` | `Spec => []RingIsShared` |
| `FieldRoundTrip` | `Fields(EncodeField(f)) = Is(<<f>>)` for a field of any number, any wire type and any value: it is read to its last byte, and its value is not taken for anything else |
| `ConnectionIsConversation` | `Spec => ImplementsConversation` |

The assumptions are those the modules name. `WidthAssumption`: the longest varint has
room for an u64, and an u64 is a whole number of u32s, so that a negative i32,
which goes out as an u64 with its sign extended, comes back as itself. `SizeAssumption`: a message made of numbers only is not too
long for its length to be an u64. `HelloAssumption` and `ResponseAssumption`:
what is sent has its Rust type (`IsMessage`, `IsResponse`) and a response fits a
frame; a hello need not, since the client refuses to write one that is too long;
and what a later version adds are fields (`IsField`: any number that has a key,
any of the four wire types, any value) that this one has not in its schema. That
they are skipped is no assumption: `Unknown` says nothing about how they are
read, `FieldRoundTrip` says it, and `HelloRoundTrip` puts the hello beside them. `ConnectionAssumption`: a
frame's length has four bytes, and a socket takes the first four bytes of a
stream at once, without which `recv_response_with_fd` may see a part of them and
fails. TLC evaluates all five on the instance of `connection`.

*The codec.* A lemma for each layer says what a reader finds at a position of a longer
text, whatever follows it: `Varint`, by well-founded induction over the number and with the range
of `Number` for what does not overflow; a field; fields one after the other, so
that `Fields` of two joined texts is that of the one followed by that of the
other; `Assembled`, where the last field of a number counts and the order does
not; and a message within a message. The recursive functions are given their
equations by lemmas on loops at the head of the module (`UpTo`, `LoopExists`),
in which the induction is over a set and not over an operator.

*The connection.* None of its properties is inductive: each speaks of what was
taken and not of what is still under way. `IInv` adds, in named parts:

* `TypesHold`, `ModelsHold`: types, and that a daemon that is up has checked its
  configuration and has loaded the models it offers.
* `UpHolds`: what flows up (`got`, `socket` and `out` in this order) is the rest
  of one encoding of the hello, from its first byte on.
* `DownHolds`: the client has heard a prefix of what was said, and what flows
  down is the frames of the rest, the first of them perhaps read in part. It is
  all of them unless one of the two has gone; then it may break off at any byte.
  So whatever is read is the next frame, and the round trip says what it means.
* `SaidHolds`: a greeting or a refusal comes first, then segments and speech,
  and one last response; the header is of the hello that was sent.
* `FdHolds`: the descriptor goes in with the first byte, and the first read takes
  it because nothing was read before.
* `EndHolds`: the client learns of the end by an error or a done response only
  when all is heard that was said and there will be no more, or the daemon has
  died, and never reads a part of the first four bytes during `connect`.

*The conversation.* `Talk` maps `Connection` to whole messages: the request to
the header, the ends of the client (`stopped`, `raised`, `refused`, ...) to what
it takes them for (`Outcome`), and all that is on the wire to nothing. With
`IInv` each step is a step of `Conversation` or a stutter:

| Step of `Connection` | of `Conversation` |
|---|---|
| `ReadHello` | `Greet` or `Refuse` |
| `Submit` | `Answer`, `GiveUp` (no descriptor or thread for the reader), or a stutter |
| `Respond` | `Answer`, or a stutter |
| `WriteFails` | `FallSilent` |
| `DaemonDies` | `BreakOff` |
| a call that takes a response (`Greeted`, `RecvResponse`, `NextResponse`, ...) | `Hear` |
| `StopIteration` | `Stop` |
| a call that fails (`GreetingFails`, `ResponseFails`) | `Fail` |
| `ClientDies`, a hello that is not sent | `Go` |
| bytes that are written, read or closed, the rest of the daemon | none |

`Hear` is where the work is: that the frame just read is the next message that
was said is `DownHolds` with `ResponseRoundTrip`, and that the request worked on
is the one asked for is `UpHolds` with `HelloRoundTrip`. `Fail` and `Stop` need
`EndHolds`. The refinement says more than `NothingIsMisread`, an invariant of the
proofs (what is heard is a prefix of what was said, an end is an end), which is
therefore proved and not in a run.

Only checked by TLC is liveness (`EverythingDrained`, `SessionsEnd`, `JobsEnd`,
`ClientIsAnswered`, `CallsReturn`, `PoolCloses`, `ClientLearns`): fairness and
`ENABLED` are out of reach of the prover. The three runs that expect a
violation need one behaviour and no proof. Every other property
that a run checks is the statement of a theorem.

## Not modelled

Numerics (log-mel, resampling, encoder, decoder, the VAD model): floating
point and NPU calls. Scores of a beam search: any beam may be the best.
An asynchronous `recv_response` that is cancelled in the middle of a frame.
Conversion of Python arguments and the interpreter lock. Parsing of TOML and
loading of files, the socket file, the
benchmark and packaging: I/O without state of its own. Shutdown: the daemon
has none, its scheduler threads run until the process ends; panics of threads
are not modelled either. A VAD window of 0 samples, which the client may ask
for and the code does not refuse. Several models: their schedulers share nothing.

The text of a window is one response: the code sends the segments of a window
one after the other, none or several (rkwhisperd.rs:672-678), with nothing
between them, and each with the times that the window has given it. What a
session without a thread or descriptor for its reader can do is in
`Connection`, where the client sees it, and, once its job is submitted, in
`Sessions` (`SpawnFails`); in `ClientSession` every session has its reader and
every client stays for its last response.

Audio is lost at a bare end of file, when bytes are in the ring that no signal
announced (daemon_stream.rs:48); the model lets a stream end at any point, so
it counts only what was announced. A client that never ends its stream and
never reads keeps its session open; fairness excludes it.

## Plan

Done: the ring and its proofs; VAD segments and windows and the proofs that
they are what they are for; decoding of a window, the beam search inside it and
the proofs about both; the live path from client to worker and back, with the
reader, the ring and its signals, and the proofs of all that is checked of it
but its liveness; the one-shot pool and its proofs; the connection byte by byte, its codec and
the proofs of both; the abstract promises; the handshake.

Next, in this order:

1. That `Handshake` and `Connection` agree on what `connect` returns.
2. The statistics of the scheduler, and a reader thread that panics.
