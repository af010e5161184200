----------------------------- MODULE PoolProofs ------------------------------
(***************************************************************************)
(* The one-shot pool for every number of workers, calls and windows: no    *)
(* worker's token is lost, a call takes its own windows in order, and the  *)
(* pool implements the promise of a transcription.                         *)
(***************************************************************************)
EXTENDS PoolTranscribe, FiniteSetTheorems, SequenceTheorems,
        WellFoundedInduction, TLAPS

-----------------------------------------------------------------------------
(* The inductive invariant. *)

Numbers      == 0 .. MaxWindows - 1
WhisperTasks == [kind : {"whisper"}, job : {0}, index : Numbers, call : Calls]
VadTasks     == [kind : {"vad"}, job : {0}, start : Numbers, from : Calls,
                 state : (0 .. MaxCalls) \X (0 .. MaxWindows)]
Tasks        == WhisperTasks \cup VadTasks
VadResults   == [kind : {"vad"}, job : {0}, start : Numbers, from : Calls,
                 speech : BOOLEAN]
ErrorResults == [kind : {"error"}, job : {0}]
AllResults   == WhisperTasks \cup VadResults \cup ErrorResults
Outputs      == WhisperTasks \cup [call : Calls, index : Numbers]
Slots        == {<<>>} \cup {<<t>> : t \in Tasks}
Stretches    == [from : Nat, to : Nat, own : BOOLEAN]

WorkersTyped ==
    /\ workerPC \in [Workers -> WorkerPCs]
    /\ task \in [Workers -> Slots] /\ inbox \in [Workers -> Slots]
    /\ readyQ \in Seq(Workers) /\ Len(readyQ) <= NPU_WORKERS
    /\ resultQ \in Seq(AllResults) /\ Len(resultQ) <= NPU_WORKERS

CallTyped ==
    /\ mode \in Modes /\ call \in 0 .. MaxCalls
    /\ total \in 0 .. MaxWindows /\ sentOut \in 0 .. total
    /\ early \in SUBSET WhisperTasks /\ IsFiniteSet(early)
    /\ output \in Seq(Outputs) /\ Len(output) <= MaxWindows
    /\ vadState \in (0 .. MaxCalls) \X (0 .. MaxWindows)
    /\ given \in [Calls -> Stretches]
    /\ length \in [Calls -> 0 .. MaxWindows]
    /\ outcome \in [Calls -> {"none", "done", "error"}]

TypeInv == WorkersTyped /\ CallTyped

\* An announcement is taken back by the hand-out of a task, and a worker that is
\* announced waits with an empty inbox.
Announced(w) == \E i \in DOMAIN readyQ : readyQ[i] = w

TokenInv ==
    /\ \A i, j \in DOMAIN readyQ : readyQ[i] = readyQ[j] => i = j
    /\ \A w \in Workers :
        /\ task[w] # <<>> <=> workerPC[w] = "run"
        /\ inbox[w] # <<>> => workerPC[w] = "receive"
        /\ Announced(w) => workerPC[w] \in {"receive", "stopped"} /\ inbox[w] = <<>>
    /\ mode \notin {"dropping", "dropped"} => \A w \in Workers :
        /\ Announced(w) => workerPC[w] = "receive"
        /\ workerPC[w] = "receive" => Announced(w) \/ inbox[w] # <<>>

\* How far the call in progress is, and that nothing is known of later ones.
CallInv ==
    /\ mode \in {"whisper", "failing", "vad"} =>
        call \in Calls /\ outcome[call] = "none"
    /\ \A c \in Calls : c > call =>
        /\ outcome[c] = "none" /\ length[c] = 0
        /\ given[c] = [from |-> 0, to |-> 0, own |-> TRUE]
    /\ mode = "whisper" =>
        /\ length[call] = total
        /\ given[call].own => given[call].to = Len(output) /\ Len(output) <= total
    /\ mode = "vad" => /\ given[call].to = 0 /\ length[call] = 0
                       /\ Len(output) <= sentOut /\ sentOut <= Len(output) + 1

\* What is under way: the tasks at the workers, the results in the queue and
\* those that wait for their turn.
At(w, t) == inbox[w] = <<t>> \/ task[w] = <<t>>
Sound(i) == resultQ[i].kind # "error"
Num(t)   == IF t.kind = "whisper" THEN t.index ELSE t.start

\* t is a window of the call in progress that is not in its output yet.
Mine(t) ==
    /\ \/ t.kind = "whisper" /\ mode \in {"whisper", "failing"} /\ t.call = call
       \/ t.kind = "vad" /\ mode = "vad" /\ t.from = call
    /\ Len(output) <= Num(t) /\ Num(t) < sentOut

AllMine ==
    /\ Len(output) <= sentOut
    /\ \A w \in Workers, t \in Tasks : At(w, t) => Mine(t)
    /\ \A i \in DOMAIN resultQ : Sound(i) => Mine(resultQ[i])
    /\ \A q \in early : Mine(q)

\* No window is under way twice.
Apart ==
    /\ \A w, v \in Workers, t, u \in Tasks :
        At(w, t) /\ At(v, u) /\ w # v => Num(t) # Num(u)
    /\ \A w \in Workers, t \in Tasks, i \in DOMAIN resultQ :
        At(w, t) /\ Sound(i) => Num(t) # Num(resultQ[i])
    /\ \A w \in Workers, t \in Tasks, q \in early : At(w, t) => Num(t) # Num(q)
    /\ \A i, j \in DOMAIN resultQ :
        Sound(i) /\ Sound(j) /\ i # j => Num(resultQ[i]) # Num(resultQ[j])
    /\ \A i \in DOMAIN resultQ, q \in early : Sound(i) => Num(resultQ[i]) # Num(q)

Chained ==
    /\ mode = "vad" => vadState = <<call, Len(output)>>
    /\ \A w \in Workers, t \in Tasks :
        At(w, t) /\ t.kind = "vad" => t.state = <<t.from, t.start>>

EarlyInv ==
    /\ \A p, q \in early : p.index = q.index => p = q
    /\ early # {} => mode \in {"whisper", "failing"}

\* A window names a call that has begun, and of the call in progress only those
\* that were handed out are under way.
KnownTo(t, c, m, sent) == t.kind = "whisper" =>
    t.call <= c /\ (t.call = c /\ m = "whisper" => t.index < sent)

Known(t)    == KnownTo(t, call, mode, sentOut)
NowKnown(t) == KnownTo(t, call', mode', sentOut')

Numbered ==
    /\ \A w \in Workers, t \in Tasks : At(w, t) => Known(t)
    /\ \A i \in DOMAIN resultQ : Known(resultQ[i])
    /\ \A q \in early : Known(q)

OwnInv == EarlyInv /\ (~Failed => AllMine /\ Apart /\ Chained /\ OutputIsOwn)

IInv == TypeInv /\ TokenInv /\ CallInv /\ Numbered /\ OwnInv

-----------------------------------------------------------------------------
(* What is in a task, a result and the queues. *)

\* The queues have finitely many places.
LEMMA NpuWorkersNat == NPU_WORKERS \in Nat
BY WorkersAssumption, FS_CardinalityType DEF NPU_WORKERS

\* The bounds of the model are positive.
LEMMA MaxTypes == MaxCalls \in Nat \ {0} /\ MaxWindows \in Nat \ {0}
BY PoolAssumption

\* A window of a Whisper call is task, result and output alike.
LEMMA WhisperFields ==
  ASSUME NEW t \in WhisperTasks
  PROVE  /\ t.kind = "whisper" /\ t.job = 0 /\ t.index \in Numbers /\ t.call \in Calls
         /\ t \in Tasks /\ t \in AllResults /\ t \in Outputs
BY DEF WhisperTasks, Tasks, AllResults, Outputs

\* The fields of a VAD task.
LEMMA VadTaskFields ==
  ASSUME NEW t \in VadTasks
  PROVE  /\ t.kind = "vad" /\ t.job = 0 /\ t.start \in Numbers /\ t.from \in Calls
         /\ t \in Tasks
BY DEF VadTasks, Tasks

\* The fields of a VAD result.
LEMMA VadResultFields ==
  ASSUME NEW r \in VadResults
  PROVE  /\ r.kind = "vad" /\ r.start \in Numbers /\ r.from \in Calls
         /\ r \in AllResults
BY DEF VadResults, AllResults

\* An error is a result and has no window.
LEMMA ErrorFields ==
  ASSUME NEW r \in ErrorResults
  PROVE  r.kind = "error" /\ r \in AllResults
BY DEF ErrorResults, AllResults

\* The kind tells what a result is.
LEMMA ResultKinds ==
  ASSUME NEW r \in AllResults
  PROVE  /\ r.kind \in {"whisper", "vad", "error"}
         /\ r.kind = "whisper" => r \in WhisperTasks
         /\ r.kind = "vad" => r \in VadResults
BY WhisperFields, VadResultFields, ErrorFields DEF AllResults

\* The kind tells what a task is.
LEMMA TaskKinds ==
  ASSUME NEW t \in Tasks
  PROVE  /\ t.kind \in {"whisper", "vad"}
         /\ t.kind = "whisper" => t \in WhisperTasks
         /\ t.kind = "vad" => t \in VadTasks
BY WhisperFields, VadTaskFields DEF Tasks

\* A prefix-closed set of positions is an interval.
LEMMA PrefixIsRange ==
  ASSUME NEW m \in Nat, NEW D \in SUBSET (1 .. m),
         \A k \in D : \A j \in 1 .. k : j \in D
  PROVE  \E n \in Nat : D = 1 .. n
<1> DEFINE Out  == {i \in 1 .. m + 1 : i \notin D}
           Less == {ss \in Nat \X Nat : ss[1] < ss[2]}
<1>1. IsWellFoundedOn(Less, Nat)
  BY NatLessThanWellFounded DEF OpToRel
<1>2. Out \subseteq Nat /\ Out # {}
  <2>1. m + 1 \in Out
    OBVIOUS
  <2> QED BY <2>1
<1>3. PICK x \in Out : \A y \in Out : <<y, x>> \notin Less
  <2> HIDE DEF Out, Less
  <2> QED BY <1>1, <1>2, WFMin
<1>4. x \in 1 .. m + 1 /\ x \notin D
  OBVIOUS
<1>5. \A j \in 1 .. x - 1 : j \in D
  <2> SUFFICES ASSUME NEW j \in 1 .. x - 1, j \notin D PROVE FALSE
    OBVIOUS
  <2>1. j \in Out
    BY <1>4
  <2>2. j \in Nat /\ x \in Nat /\ j < x
    BY <1>4
  <2>3. <<j, x>> \in Less
    BY <2>2
  <2> QED BY <2>1, <2>3, <1>3
<1>6. \A k \in D : k \in 1 .. x - 1
  <2> SUFFICES ASSUME NEW k \in D, x <= k PROVE FALSE
    BY <1>4
  <2>1. x \in 1 .. k
    BY <1>4
  <2> QED BY <2>1, <1>4
<1>7. D = 1 .. x - 1 /\ x - 1 \in Nat
  <2>1. D \subseteq 1 .. x - 1 /\ 1 .. x - 1 \subseteq D
    BY <1>5, <1>6
  <2>2. x - 1 \in Nat
    BY <1>4
  <2> QED BY <2>1, <2>2
<1> QED BY <1>7

\* What collect_ordered_with_callback takes out of pending: the windows from
\* next on, each of them one that is in.
LEMMA InOrderIsNext ==
  ASSUME NEW got \in SUBSET WhisperTasks, IsFiniteSet(got)
  PROVE  /\ InOrder(got) \in Seq(got)
         /\ \A k \in 1 .. Len(InOrder(got)) :
              InOrder(got)[k] \in got /\ InOrder(got)[k].index = Len(output) + k - 1
<1> DEFINE Turn(k) == {q \in got : q.index = Len(output) + k - 1}
           D == {i \in 1 .. Cardinality(got) : \A j \in 1 .. i : Turn(j) # {}}
           f == [k \in D |-> CHOOSE q \in Turn(k) : TRUE]
<1>1. InOrder(got) = f
  BY DEF InOrder
<1>2. Cardinality(got) \in Nat
  BY FS_CardinalityType
<1>3. \A k \in D : Turn(k) # {}
  OBVIOUS
<1>4. \A k \in D : f[k] \in got /\ f[k].index = Len(output) + k - 1
  <2> SUFFICES ASSUME NEW k \in D PROVE f[k] \in Turn(k)
    OBVIOUS
  <2> QED BY <1>3
<1>5. PICK n \in Nat : D = 1 .. n
  <2>1. ASSUME NEW k \in D, NEW j \in 1 .. k PROVE j \in D
    <3>1. k \in 1 .. Cardinality(got) /\ \A i \in 1 .. k : Turn(i) # {}
      OBVIOUS
    <3>2. j \in 1 .. Cardinality(got) /\ \A i \in 1 .. j : i \in 1 .. k
      BY <1>2, <3>1
    <3> HIDE DEF Turn
    <3> QED BY <3>1, <3>2
  <2>2. D \in SUBSET (1 .. Cardinality(got))
    OBVIOUS
  <2> HIDE DEF D
  <2> QED BY <1>2, <2>1, <2>2, PrefixIsRange
<1>6. f \in [1 .. n -> got]
  <2>1. f \in [D -> got]
    BY <1>4
  <2> QED BY <2>1, <1>5
<1>7. f \in Seq(got) /\ Len(f) = n
  <2> HIDE DEF f, D
  <2> QED BY <1>6, SeqDef
<1> QED BY <1>1, <1>4, <1>5, <1>7

-----------------------------------------------------------------------------
(* The queues as their steps change them. *)

\* What the next result is and what is left after it.
LEMMA TakeFirst ==
  ASSUME WorkersTyped, resultQ # <<>>
  PROVE  /\ Head(resultQ) = resultQ[1] /\ Head(resultQ) \in AllResults
         /\ 1 \in DOMAIN resultQ
         /\ Tail(resultQ) \in Seq(AllResults) /\ Len(Tail(resultQ)) <= NPU_WORKERS
         /\ DOMAIN Tail(resultQ) = 1 .. Len(resultQ) - 1
         /\ \A i \in DOMAIN Tail(resultQ) :
              i + 1 \in DOMAIN resultQ /\ Tail(resultQ)[i] = resultQ[i + 1]
<1>1. /\ resultQ \in Seq(AllResults) /\ Len(resultQ) <= NPU_WORKERS
      /\ Len(resultQ) \in Nat \ {0}
  BY EmptySeq DEF WorkersTyped
<1>2. /\ Head(resultQ) = resultQ[1] /\ Head(resultQ) \in AllResults
      /\ Tail(resultQ) \in Seq(AllResults) /\ Len(Tail(resultQ)) = Len(resultQ) - 1
      /\ \A i \in 1 .. Len(Tail(resultQ)) : Tail(resultQ)[i] = resultQ[i + 1]
  BY <1>1, HeadTailProperties
<1>3. DOMAIN resultQ = 1 .. Len(resultQ)
      /\ DOMAIN Tail(resultQ) = 1 .. Len(resultQ) - 1
  BY <1>1, <1>2, LenProperties
<1> QED BY <1>1, <1>2, <1>3, NpuWorkersNat

\* A result that finds room comes last.
LEMMA PutLast ==
  ASSUME WorkersTyped, NEW r \in AllResults, Len(resultQ) < NPU_WORKERS
  PROVE  /\ Append(resultQ, r) \in Seq(AllResults)
         /\ Len(Append(resultQ, r)) <= NPU_WORKERS
         /\ DOMAIN Append(resultQ, r) = 1 .. Len(resultQ) + 1
         /\ DOMAIN resultQ = 1 .. Len(resultQ) /\ Len(resultQ) \in Nat
         /\ \A i \in DOMAIN resultQ : Append(resultQ, r)[i] = resultQ[i]
         /\ Append(resultQ, r)[Len(resultQ) + 1] = r
<1>1. resultQ \in Seq(AllResults) /\ Len(resultQ) \in Nat
      /\ DOMAIN resultQ = 1 .. Len(resultQ)
  BY LenProperties DEF WorkersTyped
<1>2. /\ Append(resultQ, r) \in Seq(AllResults)
      /\ Len(Append(resultQ, r)) = Len(resultQ) + 1
      /\ \A i \in 1 .. Len(resultQ) : Append(resultQ, r)[i] = resultQ[i]
      /\ Append(resultQ, r)[Len(resultQ) + 1] = r
  BY <1>1, AppendProperties
<1>3. DOMAIN Append(resultQ, r) = 1 .. Len(resultQ) + 1
  BY <1>2, LenProperties
<1> QED BY <1>1, <1>2, <1>3, NpuWorkersNat

\* The worker that announced itself first is given the task.
LEMMA TakeReady ==
  ASSUME WorkersTyped, readyQ # <<>>
  PROVE  /\ Head(readyQ) = readyQ[1] /\ Head(readyQ) \in Workers
         /\ 1 \in DOMAIN readyQ
         /\ Tail(readyQ) \in Seq(Workers) /\ Len(Tail(readyQ)) <= NPU_WORKERS
         /\ DOMAIN readyQ = 1 .. Len(readyQ) /\ Len(readyQ) \in Nat \ {0}
         /\ DOMAIN Tail(readyQ) = 1 .. Len(readyQ) - 1
         /\ \A i \in DOMAIN Tail(readyQ) :
              i + 1 \in DOMAIN readyQ /\ Tail(readyQ)[i] = readyQ[i + 1]
<1>1. /\ readyQ \in Seq(Workers) /\ Len(readyQ) <= NPU_WORKERS
      /\ Len(readyQ) \in Nat \ {0}
  BY EmptySeq DEF WorkersTyped
<1>2. /\ Head(readyQ) = readyQ[1] /\ Head(readyQ) \in Workers
      /\ Tail(readyQ) \in Seq(Workers) /\ Len(Tail(readyQ)) = Len(readyQ) - 1
      /\ \A i \in 1 .. Len(Tail(readyQ)) : Tail(readyQ)[i] = readyQ[i + 1]
  BY <1>1, HeadTailProperties
<1>3. DOMAIN readyQ = 1 .. Len(readyQ) /\ DOMAIN Tail(readyQ) = 1 .. Len(readyQ) - 1
  BY <1>1, <1>2, LenProperties
<1> QED BY <1>1, <1>2, <1>3, NpuWorkersNat

\* An announcement that finds room comes last.
LEMMA PutReady ==
  ASSUME WorkersTyped, NEW w \in Workers, Len(readyQ) < NPU_WORKERS
  PROVE  /\ Append(readyQ, w) \in Seq(Workers)
         /\ Len(Append(readyQ, w)) <= NPU_WORKERS
         /\ DOMAIN Append(readyQ, w) = 1 .. Len(readyQ) + 1
         /\ DOMAIN readyQ = 1 .. Len(readyQ) /\ Len(readyQ) \in Nat
         /\ \A i \in DOMAIN readyQ : Append(readyQ, w)[i] = readyQ[i]
         /\ Append(readyQ, w)[Len(readyQ) + 1] = w
<1>1. readyQ \in Seq(Workers) /\ Len(readyQ) \in Nat
      /\ DOMAIN readyQ = 1 .. Len(readyQ)
  BY LenProperties DEF WorkersTyped
<1>2. /\ Append(readyQ, w) \in Seq(Workers)
      /\ Len(Append(readyQ, w)) = Len(readyQ) + 1
      /\ \A i \in 1 .. Len(readyQ) : Append(readyQ, w)[i] = readyQ[i]
      /\ Append(readyQ, w)[Len(readyQ) + 1] = w
  BY <1>1, AppendProperties
<1>3. DOMAIN Append(readyQ, w) = 1 .. Len(readyQ) + 1
  BY <1>2, LenProperties
<1> QED BY <1>1, <1>2, <1>3, NpuWorkersNat

\* A worker has at most one task, and the result of a task is typed.
LEMMA SlotFields ==
  ASSUME NEW s \in Slots, s # <<>>
  PROVE  s[1] \in Tasks /\ s = <<s[1]>>
BY DEF Slots

\* A place for a task is empty or holds one.
LEMMA SlotLength ==
  ASSUME NEW s \in Slots
  PROVE  Len(s) = IF s = <<>> THEN 0 ELSE 1
<1>1. CASE s = <<>>
  BY <1>1, EmptySeq
<1>2. CASE s # <<>>
  <2>1. PICK t \in Tasks : s = <<t>>
    BY <1>2 DEF Slots
  <2>2. <<t>> # <<>> /\ Len(<<t>>) = 1
    OBVIOUS
  <2> QED BY <2>1, <2>2
<1> QED BY <1>1, <1>2

\* A task's result is an error or stands for the window of the task.
LEMMA ResultsTyped ==
  ASSUME NEW t \in Tasks, NEW r \in Results(t)
  PROVE  /\ r \in AllResults
         /\ r.kind # "error" => /\ r.kind = t.kind /\ Num(r) = Num(t)
                                /\ t.kind = "whisper" => r = t
                                /\ t.kind = "vad" => r.from = t.from
<1>1. CASE r \in {[kind |-> "error", job |-> t.job]}
  <2>1. t.job = 0
    BY WhisperFields, VadTaskFields DEF Tasks
  <2>2. r \in ErrorResults
    BY <1>1, <2>1 DEF ErrorResults
  <2> QED BY <2>2, ErrorFields
<1>2. CASE r \notin {[kind |-> "error", job |-> t.job]} /\ t.kind = "whisper"
  BY <1>2, TaskKinds, WhisperFields DEF Results
<1>3. CASE r \notin {[kind |-> "error", job |-> t.job]} /\ t.kind # "whisper"
  <2>1. t \in VadTasks /\ t.kind = "vad"
    BY <1>3, TaskKinds
  <2>2. PICK b \in BOOLEAN : r = [kind |-> "vad", job |-> t.job, start |-> t.start,
                                  from |-> t.from, speech |-> b]
    BY <1>3 DEF Results
  <2>3. r \in VadResults
    BY <2>1, <2>2, VadTaskFields DEF VadResults
  <2>4. r.start = t.start /\ r.from = t.from /\ r.kind = "vad"
    BY <2>2
  <2> QED BY <2>1, <2>3, <2>4, VadResultFields DEF Num
<1> QED BY <1>1, <1>2, <1>3

-----------------------------------------------------------------------------
(* Types. *)

\* The task that is handed out next.
LEMMA DispatchedTasks ==
  ASSUME TypeInv, CallInv, sentOut < total
  PROVE  /\ sentOut \in Numbers
         /\ mode = "whisper" => WhisperTask \in WhisperTasks
         /\ mode = "vad" => VadTask \in VadTasks
<1>1. sentOut \in Numbers
  BY MaxTypes DEF TypeInv, CallTyped, Numbers
<1>2. mode \in {"whisper", "vad"} => call \in Calls
  BY DEF CallInv
<1>3. mode = "whisper" => WhisperTask \in WhisperTasks
  BY <1>1, <1>2 DEF WhisperTask, WhisperTasks
<1>4. mode = "vad" => VadTask \in VadTasks
  BY <1>1, <1>2 DEF VadTask, VadTasks, State, TypeInv, CallTyped
<1> QED BY <1>1, <1>3, <1>4

\* A hand-out keeps the types.
LEMMA HandOutTypes ==
  ASSUME TypeInv, NEW t \in Tasks, HandOut(t)
  PROVE  TypeInv'
<1> USE DEF TypeInv, HandOut
<1>1. readyQ # <<>> /\ WorkersTyped
  OBVIOUS
<1>2. /\ Head(readyQ) \in Workers /\ Tail(readyQ) \in Seq(Workers)
      /\ Len(Tail(readyQ)) <= NPU_WORKERS
  BY <1>1, TakeReady
<1>3. WorkersTyped'
  BY <1>1, <1>2 DEF WorkersTyped, Slots, NPU_WORKERS
<1>4. CallTyped'
  BY DEF CallTyped
<1> QED BY <1>3, <1>4

\* The types of what a collected result makes ready and leaves waiting.
LEMMA CollectTypes ==
  ASSUME TypeInv, Collecting, resultQ # <<>>, Head(resultQ).kind = "whisper"
  PROVE  LET got   == Inserted(Head(resultQ))
             ready == InOrder(got)
         IN  /\ got \in SUBSET WhisperTasks /\ IsFiniteSet(got)
             /\ ready \in Seq(got)
             /\ \A k \in 1 .. Len(ready) :
                  ready[k] \in got /\ ready[k].index = Len(output) + k - 1
             /\ got \ ToSet(ready) \in SUBSET WhisperTasks
             /\ IsFiniteSet(got \ ToSet(ready))
             /\ output \o ready \in Seq(Outputs) /\ Len(output \o ready) <= MaxWindows
             /\ Len(output \o ready) = Len(output) + Len(ready)
             /\ Len(ready) \in Nat /\ Len(output) \in Nat /\ DOMAIN ready = 1 .. Len(ready)
<1> DEFINE r == Head(resultQ)
           got == Inserted(r)
           ready == InOrder(got)
<1>1. r \in WhisperTasks
  BY TakeFirst, ResultKinds DEF TypeInv
<1>2. got \in SUBSET WhisperTasks /\ IsFiniteSet(got)
  <2>1. early \in SUBSET WhisperTasks /\ IsFiniteSet(early)
    BY DEF TypeInv, CallTyped
  <2>2. IsFiniteSet({q \in early : q.index # r.index})
    BY <2>1, FS_Subset
  <2>3. IsFiniteSet({q \in early : q.index # r.index} \cup {r})
    BY <2>2, FS_AddElement
  <2> QED BY <1>1, <2>1, <2>3 DEF Inserted
<1> HIDE DEF r, got
<1>3. /\ ready \in Seq(got)
      /\ \A k \in 1 .. Len(ready) :
           ready[k] \in got /\ ready[k].index = Len(output) + k - 1
  BY <1>2, InOrderIsNext
<1> HIDE DEF ready
<1>4. IsFiniteSet(got \ ToSet(ready))
  BY <1>2, FS_Subset
<1>5. ready \in Seq(Outputs) /\ Len(ready) \in Nat /\ DOMAIN ready = 1 .. Len(ready)
  <2>1. got \subseteq Outputs
    BY <1>2, WhisperFields
  <2> QED BY <1>3, <2>1, SeqMonotonic, LenProperties
<1>6. output \in Seq(Outputs) /\ Len(output) \in Nat /\ Len(output) <= MaxWindows
  BY LenProperties DEF TypeInv, CallTyped
<1>7. /\ output \o ready \in Seq(Outputs)
      /\ Len(output \o ready) = Len(output) + Len(ready)
  BY <1>5, <1>6, ConcatProperties
<1>8. Len(output) + Len(ready) <= MaxWindows
  <2>1. CASE Len(ready) = 0
    BY <2>1, <1>6, MaxTypes
  <2>2. CASE Len(ready) # 0
    <3>1. /\ ready[Len(ready)] \in got
          /\ ready[Len(ready)].index = Len(output) + Len(ready) - 1
      BY <2>2, <1>3, <1>5
    <3>2. ready[Len(ready)].index \in Numbers
      BY <3>1, <1>2, WhisperFields
    <3> QED BY <3>1, <3>2, <1>5, <1>6, MaxTypes DEF Numbers
  <2> QED BY <2>1, <2>2
<1>9. got \ ToSet(ready) \in SUBSET WhisperTasks
  BY <1>2
<1> QED BY <1>2, <1>3, <1>4, <1>5, <1>6, <1>7, <1>8, <1>9 DEF r, got, ready

\* What goes to on_segment is a stretch of windows.
LEMMA GivenTyped ==
  ASSUME given \in [Calls -> Stretches],
         NEW ready, NEW k \in Nat,
         k # 0 => ready[1].index \in Nat /\ ready[k].index \in Nat,
         Given(ready, k)
  PROVE  given' \in [Calls -> Stretches]
<1>1. CASE k = 0
  BY <1>1 DEF Given
<1>2. CASE k # 0
  <2> DEFINE g == IF given[call].own /\ AllOwn(ready, k)
                  THEN [from |-> ready[1].index, to |-> ready[k].index + 1, own |-> TRUE]
                  ELSE [given[call] EXCEPT !.own = FALSE]
  <2>1. given' = [given EXCEPT ![call] = g]
    BY <1>2 DEF Given
  <2>2. call \in Calls => g \in Stretches
    <3>1. ASSUME call \in Calls PROVE [given[call] EXCEPT !.own = FALSE] \in Stretches
      BY <3>1 DEF Stretches
    <3>2. [from |-> ready[1].index, to |-> ready[k].index + 1, own |-> TRUE] \in Stretches
      BY <1>2 DEF Stretches
    <3> QED BY <3>1, <3>2
  <2> QED BY <2>1, <2>2
<1> QED BY <1>1, <1>2

\* The end of a call keeps the types.
LEMMA ReturnTypes ==
  ASSUME CallTyped, NEW how \in {"done", "error"}, Return(how), UNCHANGED given
  PROVE  CallTyped'
<1>1. IsFiniteSet({}) /\ <<>> \in Seq(Outputs) /\ Len(<<>>) = 0
  BY FS_EmptySet, EmptySeq
<1>2. 0 \in 0 .. MaxWindows /\ 0 \in 0 .. 0 /\ 0 \in 0 .. MaxCalls /\ 0 <= MaxWindows
  BY MaxTypes
<1>3. outcome' \in [Calls -> {"none", "done", "error"}]
  BY DEF CallTyped, Return
<1> QED BY <1>1, <1>2, <1>3 DEF CallTyped, Return, Modes

\* Steps of the call's own variables keep the types of the workers.
LEMMA WorkersUnchanged ==
  ASSUME WorkersTyped, UNCHANGED workerVars
  PROVE  WorkersTyped'
BY DEF WorkersTyped, workerVars, NPU_WORKERS

\* Taking a result keeps the types of the workers.
LEMMA TakeResultTypes ==
  ASSUME WorkersTyped, resultQ # <<>>, TakeResult
  PROVE  WorkersTyped'
BY TakeFirst DEF WorkersTyped, TakeResult, NPU_WORKERS

\* A worker's own steps keep their types.
LEMMA WorkerTypes ==
  ASSUME WorkersTyped, NEW w \in Workers,
         task[w] # <<>> <=> workerPC[w] = "run",
         WorkerThread(w) \/ (GoTo(w, "stopped") /\ UNCHANGED <<task, inbox, readyQ, resultQ>>)
  PROVE  WorkersTyped'
<1> USE DEF GoTo, WorkerPCs
<1>1. CASE Load(w)
  BY <1>1 DEF Load, WorkersTyped, NPU_WORKERS
<1>2. CASE LoadFails(w)
  <2>1. [kind |-> "error", job |-> 0] \in AllResults
    BY DEF AllResults, ErrorResults
  <2> QED BY <1>2, <2>1, PutLast DEF LoadFails, WorkersTyped, NPU_WORKERS
<1>3. CASE Announce(w)
  BY <1>3, PutReady DEF Announce, WorkersTyped, NPU_WORKERS
<1>4. CASE ReceiveTask(w)
  BY <1>4 DEF ReceiveTask, WorkersTyped, Slots, NPU_WORKERS
<1>5. CASE ReportResult(w) /\ task[w] # <<>>
  <2>1. task[w] \in Slots
    BY DEF WorkersTyped
  <2>2. task[w][1] \in Tasks
    BY <1>5, <2>1, SlotFields
  <2>3. PICK r \in Results(task[w][1]) : resultQ' = Append(resultQ, r)
    BY <1>5 DEF ReportResult
  <2>4. r \in AllResults
    BY <2>2, <2>3, ResultsTyped
  <2> QED BY <1>5, <2>3, <2>4, PutLast DEF ReportResult, WorkersTyped, Slots, NPU_WORKERS
<1>6. CASE GoTo(w, "stopped") /\ UNCHANGED <<task, inbox, readyQ, resultQ>>
  BY <1>6 DEF WorkersTyped, NPU_WORKERS
<1> QED BY <1>1, <1>2, <1>3, <1>4, <1>5, <1>6 DEF WorkerThread, ReportResult

\* Every step keeps the types.
LEMMA TypeStep ==
  ASSUME TypeInv, TokenInv, CallInv, [Next]_vars
  PROVE  TypeInv'
<1> USE DEF TypeInv
<1>1. ASSUME NEW kind \in {"whisper", "vad"}, NEW n \in 0 .. MaxWindows,
             BeginCall(kind, n)
      PROVE  TypeInv'
  <2>1. IsFiniteSet({}) /\ <<>> \in Seq(Outputs) /\ Len(<<>>) = 0
    BY FS_EmptySet, EmptySeq
  <2>2. /\ call \in 0 .. MaxCalls /\ call < MaxCalls
        /\ length \in [Calls -> 0 .. MaxWindows]
    BY <1>1 DEF BeginCall, CallTyped
  <2>3. 0 \in 0 .. n /\ 0 <= MaxWindows /\ 0 \in 0 .. MaxWindows
        /\ call + 1 \in 0 .. MaxCalls
    BY MaxTypes, <2>2
  <2>4. length' \in [Calls -> 0 .. MaxWindows]
    BY <1>1, <2>2, <2>3 DEF BeginCall
  <2>5. CallTyped'
    BY <1>1, <2>1, <2>2, <2>3, <2>4, SMTT(30) DEF BeginCall, CallTyped, Modes
  <2>6. WorkersTyped'
    BY <1>1, WorkersUnchanged DEF BeginCall
  <2> QED BY <2>5, <2>6
<1>2. CASE DropPool \/ Joined
  BY <1>2, WorkersUnchanged DEF DropPool, Joined, CallTyped, Modes
<1>3. CASE DispatchWindow
  <2>1. HandOut(WhisperTask) /\ WhisperTask \in Tasks
    BY <1>3, DispatchedTasks, WhisperFields DEF DispatchWindow, HandOut
  <2> QED BY <2>1, HandOutTypes
<1>4. CASE DispatchVad
  <2>1. HandOut(VadTask) /\ VadTask \in Tasks
    BY <1>4, DispatchedTasks, VadTaskFields DEF DispatchVad, VadDue, HandOut
  <2> QED BY <2>1, HandOutTypes
<1>5. CASE NoWorker \/ CallbackFailed \/ WhisperReturns \/ VadReturns
  BY <1>5, ReturnTypes, WorkersUnchanged
     DEF NoWorker, CallbackFailed, WhisperReturns, VadReturns
<1>6. CASE ResultFails
  <2>1. CallTyped'
    BY <1>6, ReturnTypes DEF ResultFails
  <2>2. WorkersTyped'
    BY <1>6, TakeResultTypes, WorkersUnchanged DEF ResultFails
  <2> QED BY <2>1, <2>2
<1>7. CASE SkipResult
  <2>1. WorkersTyped'
    BY <1>7, TakeResultTypes DEF SkipResult, Collecting
  <2>2. CallTyped'
    BY <1>7 DEF SkipResult, callVars, CallTyped
  <2> QED BY <2>1, <2>2
<1>8. CASE CollectWindow
  <2> DEFINE got   == Inserted(Head(resultQ))
             ready == InOrder(got)
  <2>1. WorkersTyped'
    BY <1>8, TakeResultTypes DEF CollectWindow
  <2>2. /\ early' = got \ ToSet(ready) /\ output' = output \o ready
        /\ Given(ready, Len(ready))
        /\ UNCHANGED <<mode, call, total, sentOut, vadState, length, outcome>>
    BY <1>8 DEF CollectWindow
  <2>3. /\ got \in SUBSET WhisperTasks
        /\ got \ ToSet(ready) \in SUBSET WhisperTasks
        /\ IsFiniteSet(got \ ToSet(ready))
        /\ output \o ready \in Seq(Outputs) /\ Len(output \o ready) <= MaxWindows
        /\ Len(ready) \in Nat
        /\ \A k \in 1 .. Len(ready) : ready[k] \in got
    BY <1>8, CollectTypes DEF CollectWindow
  <2> HIDE DEF got, ready
  <2>4. \A k \in 1 .. Len(ready) : ready[k].index \in Nat
    BY <2>3, WhisperFields DEF Numbers
  <2>5. given' \in [Calls -> Stretches]
    <3>1. Len(ready) # 0 => ready[1].index \in Nat /\ ready[Len(ready)].index \in Nat
      BY <2>3, <2>4
    <3>2. given \in [Calls -> Stretches]
      BY DEF CallTyped
    <3> QED BY <2>2, <2>3, <3>1, <3>2, GivenTyped
  <2>6. CallTyped'
    BY <2>2, <2>3, <2>5 DEF CallTyped
  <2> QED BY <2>1, <2>6
<1>9. CASE CallbackFails
  <2> DEFINE got   == Inserted(Head(resultQ))
             ready == InOrder(got)
  <2>1. WorkersTyped'
    BY <1>9, TakeResultTypes DEF CallbackFails
  <2>2. PICK k \in DOMAIN ready : Given(ready, k - 1)
    BY <1>9 DEF CallbackFails
  <2>3. /\ got \in SUBSET WhisperTasks
        /\ Len(ready) \in Nat /\ DOMAIN ready = 1 .. Len(ready)
        /\ \A i \in 1 .. Len(ready) : ready[i] \in got
    BY <1>9, CollectTypes DEF CallbackFails
  <2> HIDE DEF got, ready
  <2>4. \A i \in 1 .. Len(ready) : ready[i].index \in Nat
    BY <2>3, WhisperFields DEF Numbers
  <2>5. /\ k - 1 \in Nat
        /\ k - 1 # 0 => ready[1].index \in Nat /\ ready[k - 1].index \in Nat
    BY <2>2, <2>3, <2>4
  <2>6. given' \in [Calls -> Stretches]
    BY <2>2, <2>5, GivenTyped DEF CallTyped
  <2>7. CallTyped'
    BY <1>9, <2>6 DEF CallbackFails, CallTyped, Modes
  <2> QED BY <2>1, <2>7
<1>10. CASE CollectVad
  <2>1. WorkersTyped'
    BY <1>10, TakeResultTypes DEF CollectVad
  <2> DEFINE r == Head(resultQ)
  <2>2. r \in VadResults
    BY <1>10, TakeFirst, ResultKinds DEF CollectVad
  <2>3. r.from \in Calls /\ r.start \in Numbers
    BY <2>2, VadResultFields
  <2>4. /\ vadState' = <<r.from, r.start + 1>>
        /\ output' = Append(output, [call |-> r.from, index |-> r.start])
        /\ UNCHANGED <<mode, call, total, sentOut, early, given, length, outcome>>
        /\ sentOut > Len(output)
    BY <1>10 DEF CollectVad
  <2> HIDE DEF r
  <2>5. [call |-> r.from, index |-> r.start] \in Outputs
    BY <2>3 DEF Outputs
  <2>6. /\ Append(output, [call |-> r.from, index |-> r.start]) \in Seq(Outputs)
        /\ Len(Append(output, [call |-> r.from, index |-> r.start])) = Len(output) + 1
        /\ Len(output) \in Nat
    BY <2>5, AppendProperties, LenProperties DEF CallTyped
  <2>7. vadState' \in (0 .. MaxCalls) \X (0 .. MaxWindows)
    BY <2>3, <2>4, MaxTypes DEF Numbers, Calls
  <2>8. Len(output') <= MaxWindows
    BY <2>4, <2>6, MaxTypes DEF CallTyped
  <2>9. CallTyped'
    BY <2>4, <2>6, <2>7, <2>8 DEF CallTyped
  <2> QED BY <2>1, <2>9
<1>11. ASSUME NEW w \in Workers, Worker(w)
       PROVE  TypeInv'
  <2>1. UNCHANGED callVars
    BY <1>11 DEF Worker, StopWorker
  <2>2. CallTyped'
    BY <2>1 DEF callVars, CallTyped
  <2>3. WorkersTyped'
    BY <1>11, WorkerTypes DEF Worker, StopWorker, TokenInv
  <2> QED BY <2>2, <2>3
<1>12. CASE UNCHANGED vars
  BY <1>12, WorkersUnchanged DEF vars, callVars, CallTyped
<1> QED BY <1>1, <1>2, <1>3, <1>4, <1>5, <1>6, <1>7, <1>8, <1>9, <1>10, <1>11, <1>12
        DEF Next, Running

-----------------------------------------------------------------------------
(* One token per worker. *)

\* Steps that neither touch the workers nor end the drop of the pool.
LEMMA TokenUnchanged ==
  ASSUME TokenInv, UNCHANGED <<workerPC, task, inbox, readyQ>>,
         mode \in {"dropping", "dropped"} => mode' \in {"dropping", "dropped"}
  PROVE  TokenInv'
BY DEF TokenInv, Announced

\* A hand-out turns an announcement into a task in the inbox.
LEMMA HandOutTokens ==
  ASSUME TypeInv, TokenInv, NEW t, HandOut(t), mode \in {"whisper", "vad"}
  PROVE  TokenInv'
<1>h. Head(readyQ) \in Workers
  BY TakeReady DEF HandOut, TypeInv
<1>0. PICK h \in Workers : h = Head(readyQ)
  BY <1>h
<1>1. /\ h = readyQ[1] /\ h \in Workers /\ 1 \in DOMAIN readyQ
      /\ DOMAIN readyQ = 1 .. Len(readyQ) /\ Len(readyQ) \in Nat \ {0}
      /\ DOMAIN Tail(readyQ) = 1 .. Len(readyQ) - 1
      /\ \A i \in DOMAIN Tail(readyQ) :
           i + 1 \in DOMAIN readyQ /\ Tail(readyQ)[i] = readyQ[i + 1]
  BY <1>0, TakeReady DEF HandOut, TypeInv
<1>2. /\ readyQ' = Tail(readyQ) /\ inbox' = [inbox EXCEPT ![h] = <<t>>]
      /\ UNCHANGED <<workerPC, task, mode>>
  BY <1>0 DEF HandOut
<1>3. inbox \in [Workers -> Slots]
  BY DEF TypeInv, WorkersTyped
<1>4. inbox'[h] = <<t>> /\ \A w \in Workers : w # h => inbox'[w] = inbox[w]
  BY <1>1, <1>2, <1>3
<1>5. <<t>> # <<>>
  OBVIOUS
<1>6. workerPC[h] = "receive"
  BY <1>1 DEF TokenInv, Announced
<1>7. ~ Announced(h)'
  <2> SUFFICES ASSUME NEW i \in DOMAIN Tail(readyQ), Tail(readyQ)[i] = h PROVE FALSE
    BY <1>2 DEF Announced
  <2>1. i + 1 \in DOMAIN readyQ /\ readyQ[i + 1] = readyQ[1]
    BY <1>1
  <2>2. i + 1 = 1
    BY <1>1, <2>1 DEF TokenInv
  <2> QED BY <1>1, <2>2
<1>8. \A w \in Workers : w # h => (Announced(w)' <=> Announced(w))
  <2> SUFFICES ASSUME NEW w \in Workers, w # h PROVE Announced(w)' <=> Announced(w)
    OBVIOUS
  <2>1. ASSUME Announced(w)' PROVE Announced(w)
    BY <1>1, <1>2, <2>1 DEF Announced
  <2>2. ASSUME Announced(w) PROVE Announced(w)'
    <3>1. PICK i \in DOMAIN readyQ : readyQ[i] = w
      BY <2>2 DEF Announced
    <3>2. i # 1
      BY <1>1, <3>1
    <3>3. i - 1 \in DOMAIN Tail(readyQ) /\ Tail(readyQ)[i - 1] = readyQ[i - 1 + 1]
      BY <1>1, <3>1, <3>2
    <3>4. i - 1 + 1 = i
      BY <1>1
    <3> QED BY <1>2, <3>1, <3>3, <3>4 DEF Announced
  <2> QED BY <2>1, <2>2
<1>9. \A i, j \in DOMAIN readyQ' : readyQ'[i] = readyQ'[j] => i = j
  <2> SUFFICES ASSUME NEW i \in DOMAIN Tail(readyQ), NEW j \in DOMAIN Tail(readyQ),
                      Tail(readyQ)[i] = Tail(readyQ)[j]
               PROVE  i = j
    BY <1>2
  <2>1. i + 1 = j + 1
    BY <1>1 DEF TokenInv
  <2> QED BY <1>1, <2>1
<1> QED BY <1>1, <1>2, <1>4, <1>5, <1>6, <1>7, <1>8, <1>9 DEF TokenInv

\* Only a worker without a task and without an announcement announces itself.
LEMMA AnnounceTokens ==
  ASSUME TypeInv, TokenInv, NEW w \in Workers, Announce(w), UNCHANGED mode
  PROVE  TokenInv'
<1>1. /\ readyQ' = Append(readyQ, w)
      /\ workerPC' = [workerPC EXCEPT ![w] = "receive"]
      /\ UNCHANGED <<task, inbox>> /\ workerPC[w] = "announce"
      /\ workerPC \in [Workers -> WorkerPCs]
  BY DEF Announce, GoTo, TypeInv, WorkersTyped
<1>2. /\ DOMAIN readyQ' = 1 .. Len(readyQ) + 1
      /\ DOMAIN readyQ = 1 .. Len(readyQ) /\ Len(readyQ) \in Nat
      /\ \A i \in DOMAIN readyQ : readyQ'[i] = readyQ[i]
      /\ readyQ'[Len(readyQ) + 1] = w
  BY <1>1, PutReady DEF TypeInv, Announce
<1>3. workerPC'[w] = "receive" /\ \A v \in Workers : v # w => workerPC'[v] = workerPC[v]
  BY <1>1
<1>4. inbox[w] = <<>> /\ task[w] = <<>>
  BY <1>1 DEF TokenInv
<1>5. Announced(w)'
  BY <1>2 DEF Announced
<1>6. \A v \in Workers : v # w => (Announced(v)' <=> Announced(v))
  BY <1>2 DEF Announced
<1>7. ~ Announced(w)
  BY <1>1 DEF TokenInv
<1>8. \A i, j \in DOMAIN readyQ' : readyQ'[i] = readyQ'[j] => i = j
  <2> SUFFICES ASSUME NEW i \in DOMAIN readyQ', NEW j \in DOMAIN readyQ',
                      readyQ'[i] = readyQ'[j]
               PROVE  i = j
    OBVIOUS
  <2>1. CASE i \in DOMAIN readyQ /\ j \in DOMAIN readyQ
    BY <1>2, <2>1 DEF TokenInv
  <2>2. CASE i = Len(readyQ) + 1 \/ j = Len(readyQ) + 1
    <3>1. \A k \in DOMAIN readyQ : readyQ'[k] # w
      BY <1>2, <1>7 DEF Announced
    <3> QED BY <1>2, <2>2, <3>1
  <2> QED BY <1>2, <2>1, <2>2
<1> QED BY <1>1, <1>3, <1>4, <1>5, <1>6, <1>8 DEF TokenInv

\* A worker's own steps keep the tokens.
LEMMA WorkerTokens ==
  ASSUME TypeInv, TokenInv, NEW w \in Workers, Worker(w)
  PROVE  TokenInv'
<1>1. UNCHANGED mode
  BY DEF Worker, StopWorker, callVars
<1>2. workerPC \in [Workers -> WorkerPCs] /\ task \in [Workers -> Slots]
      /\ inbox \in [Workers -> Slots]
  BY DEF TypeInv, WorkersTyped
<1>3. CASE Load(w) \/ LoadFails(w)
  <2>1. /\ UNCHANGED <<task, inbox, readyQ>> /\ workerPC[w] = "load"
        /\ \E pc \in {"announce", "stopped"} : workerPC' = [workerPC EXCEPT ![w] = pc]
    BY <1>3 DEF Load, LoadFails, GoTo
  <2>2. \A v \in Workers : Announced(v)' <=> Announced(v)
    BY <2>1 DEF Announced
  <2>3. workerPC'[w] \in {"announce", "stopped"}
        /\ \A v \in Workers : v # w => workerPC'[v] = workerPC[v]
    BY <1>2, <2>1
  <2> QED BY <1>1, <2>1, <2>2, <2>3 DEF TokenInv
<1>4. CASE Announce(w)
  BY <1>1, <1>4, AnnounceTokens
<1>5. CASE ReceiveTask(w)
  <2>1. /\ workerPC[w] = "receive" /\ inbox[w] # <<>> /\ UNCHANGED readyQ
        /\ workerPC' = [workerPC EXCEPT ![w] = "run"]
        /\ task' = [task EXCEPT ![w] = inbox[w]] /\ inbox' = [inbox EXCEPT ![w] = <<>>]
    BY <1>5 DEF ReceiveTask, GoTo
  <2>2. \A v \in Workers : Announced(v)' <=> Announced(v)
    BY <2>1 DEF Announced
  <2>3. /\ workerPC'[w] = "run" /\ task'[w] # <<>> /\ inbox'[w] = <<>>
        /\ \A v \in Workers : v # w => /\ workerPC'[v] = workerPC[v]
                                       /\ task'[v] = task[v] /\ inbox'[v] = inbox[v]
    BY <1>2, <2>1
  <2>4. ~ Announced(w)
    BY <2>1 DEF TokenInv
  <2> QED BY <1>1, <2>1, <2>2, <2>3, <2>4 DEF TokenInv
<1>6. CASE ReportResult(w)
  <2>1. /\ workerPC[w] = "run" /\ UNCHANGED <<inbox, readyQ>>
        /\ workerPC' = [workerPC EXCEPT ![w] = "announce"]
        /\ task' = [task EXCEPT ![w] = <<>>]
    BY <1>6 DEF ReportResult, GoTo
  <2>2. \A v \in Workers : Announced(v)' <=> Announced(v)
    BY <2>1 DEF Announced
  <2>3. /\ workerPC'[w] = "announce" /\ task'[w] = <<>>
        /\ \A v \in Workers : v # w => workerPC'[v] = workerPC[v] /\ task'[v] = task[v]
    BY <1>2, <2>1
  <2> QED BY <1>1, <2>1, <2>2, <2>3 DEF TokenInv
<1>7. CASE StopWorker(w)
  <2>1. /\ mode = "dropping" /\ workerPC[w] = "receive" /\ inbox[w] = <<>>
        /\ UNCHANGED <<task, inbox, readyQ>>
        /\ workerPC' = [workerPC EXCEPT ![w] = "stopped"]
    BY <1>7 DEF StopWorker, MayStop, GoTo
  <2>2. \A v \in Workers : Announced(v)' <=> Announced(v)
    BY <2>1 DEF Announced
  <2>3. /\ workerPC'[w] = "stopped"
        /\ \A v \in Workers : v # w => workerPC'[v] = workerPC[v]
    BY <1>2, <2>1
  <2> QED BY <1>1, <2>1, <2>2, <2>3 DEF TokenInv
<1> QED BY <1>3, <1>4, <1>5, <1>6, <1>7 DEF Worker, WorkerThread

\* Every step keeps the tokens.
LEMMA TokenStep ==
  ASSUME TypeInv, TokenInv, [Next]_vars
  PROVE  TokenInv'
<1>1. ASSUME NEW kind \in {"whisper", "vad"}, NEW n \in 0 .. MaxWindows,
             BeginCall(kind, n)
      PROVE  TokenInv'
  BY <1>1, TokenUnchanged DEF BeginCall, workerVars
<1>2. CASE DropPool \/ Joined
  BY <1>2, TokenUnchanged DEF DropPool, Joined, workerVars
<1>3. CASE DispatchWindow \/ DispatchVad
  BY <1>3, HandOutTokens DEF DispatchWindow, DispatchVad, VadDue
<1>4. CASE NoWorker \/ CallbackFailed \/ WhisperReturns \/ VadReturns
  BY <1>4, TokenUnchanged
     DEF NoWorker, CallbackFailed, WhisperReturns, VadReturns, Return, workerVars
<1>5. CASE ResultFails
  BY <1>5, TokenUnchanged DEF ResultFails, Collecting, Return, TakeResult, workerVars
<1>6. CASE CollectWindow \/ CallbackFails \/ SkipResult \/ CollectVad
  BY <1>6, TokenUnchanged
     DEF CollectWindow, CallbackFails, SkipResult, CollectVad, Collecting,
         TakeResult, callVars
<1>7. CASE \E w \in Workers : Worker(w)
  BY <1>7, WorkerTokens
<1>8. CASE UNCHANGED vars
  BY <1>8, TokenUnchanged DEF vars, workerVars, callVars
<1> QED BY <1>1, <1>2, <1>3, <1>4, <1>5, <1>6, <1>7, <1>8 DEF Next, Running

-----------------------------------------------------------------------------
(* What is under way is known. *)

\* The number types of the call, for the steps that compare them.
LEMMA CountTypes ==
  ASSUME TypeInv
  PROVE  /\ call \in Nat /\ total \in Nat /\ sentOut \in Nat /\ Len(output) \in Nat
         /\ sentOut <= total /\ DOMAIN output = 1 .. Len(output)
         /\ resultQ \in Seq(AllResults) /\ Len(resultQ) \in Nat
         /\ DOMAIN resultQ = 1 .. Len(resultQ)
         /\ \A i \in DOMAIN resultQ : resultQ[i] \in AllResults
<1>1. /\ call \in 0 .. MaxCalls /\ total \in 0 .. MaxWindows /\ sentOut \in 0 .. total
      /\ output \in Seq(Outputs) /\ resultQ \in Seq(AllResults)
  BY DEF TypeInv, CallTyped, WorkersTyped
<1>2. /\ Len(output) \in Nat /\ DOMAIN output = 1 .. Len(output)
      /\ Len(resultQ) \in Nat /\ DOMAIN resultQ = 1 .. Len(resultQ)
  BY <1>1, LenProperties
<1>3. \A i \in DOMAIN resultQ : resultQ[i] \in AllResults
  BY <1>1, <1>2, ElementOfSeq
<1> QED BY <1>1, <1>2, <1>3, MaxTypes

\* Of the windows that are ready, the call's own are of its recording.
LEMMA ReadyHandedOut ==
  ASSUME TypeInv, Numbered, Collecting, resultQ # <<>>, Head(resultQ).kind = "whisper"
  PROVE  LET ready == InOrder(Inserted(Head(resultQ)))
         IN  \A k \in 1 .. Len(ready) : ready[k].call = call => ready[k].index < total
<1> DEFINE got   == Inserted(Head(resultQ))
           ready == InOrder(got)
<1>1. /\ got \in SUBSET WhisperTasks
      /\ \A k \in 1 .. Len(ready) : ready[k] \in got
  BY CollectTypes
<1>2. Head(resultQ) = resultQ[1] /\ 1 \in DOMAIN resultQ
  BY TakeFirst DEF TypeInv
<1>3. \A q \in got : Known(q)
  BY <1>2 DEF Inserted, Numbered
<1> HIDE DEF got, ready
<1>4. \A q \in got : q.call = call => q.index < sentOut /\ q.index \in Nat
  BY <1>1, <1>3, WhisperFields DEF Known, KnownTo, Collecting, Numbers
<1> SUFFICES ASSUME NEW k \in 1 .. Len(ready), ready[k].call = call
             PROVE  ready[k].index < total
  BY DEF ready, got
<1> QED BY <1>1, <1>4, CountTypes

\* What was known stays known.
LEMMA KnownStays ==
  ASSUME TypeInv, NEW t, t.kind = "whisper" => t.call \in Nat /\ t.index \in Nat,
         Known(t), sentOut' \in Nat,
         \/ call' = call + 1
         \/ call' = call /\ mode' # "whisper"
         \/ call' = call /\ mode' = mode /\ sentOut' >= sentOut
  PROVE  NowKnown(t)
<1>1. call \in Nat /\ sentOut \in Nat
  BY CountTypes
<1> QED BY <1>1 DEF Known, NowKnown, KnownTo

\* What is under way after a step is known then.
LEMMA NumberedLater ==
  ASSUME \A w \in Workers, t \in Tasks : At(w, t)' => NowKnown(t),
         \A i \in DOMAIN resultQ' : NowKnown(resultQ'[i]),
         \A q \in early' : NowKnown(q)
  PROVE  Numbered'
BY DEF Numbered, Known, NowKnown

\* Every step leaves what is under way known.
LEMMA NumberedStep ==
  ASSUME TypeInv, TokenInv, CallInv, Numbered, [Next]_vars
  PROVE  Numbered'
<1> DEFINE Later == /\ sentOut' \in Nat
                    /\ \/ call' = call + 1
                       \/ call' = call /\ mode' # "whisper"
                       \/ call' = call /\ mode' = mode /\ sentOut' >= sentOut
<1>1. ASSUME Later PROVE /\ \A t \in Tasks : Known(t) => NowKnown(t)
                         /\ \A t \in AllResults : Known(t) => NowKnown(t)
  <2>1. \A t \in Tasks \cup AllResults :
          t.kind = "whisper" => t.call \in Nat /\ t.index \in Nat
    BY WhisperFields, TaskKinds, ResultKinds DEF Calls, Numbers
  <2> QED BY <1>1, <2>1, KnownStays
<1>2. early \subseteq AllResults
  BY WhisperFields DEF TypeInv, CallTyped
\* Nothing new comes under way.
<1>3. ASSUME Later, early' \subseteq early,
             \A w \in Workers, t \in Tasks : At(w, t)' => \E v \in Workers : At(v, t),
             \A i \in DOMAIN resultQ' : \E j \in DOMAIN resultQ : resultQ'[i] = resultQ[j]
      PROVE  Numbered'
  <2>1. \A w \in Workers, t \in Tasks : At(w, t)' => NowKnown(t)
    BY <1>1, <1>3 DEF Numbered
  <2>2. \A i \in DOMAIN resultQ' : NowKnown(resultQ'[i])
    <3> SUFFICES ASSUME NEW i \in DOMAIN resultQ' PROVE NowKnown(resultQ'[i])
      OBVIOUS
    <3>1. PICK j \in DOMAIN resultQ : resultQ'[i] = resultQ[j]
      BY <1>3
    <3>2. resultQ[j] \in AllResults /\ Known(resultQ[j])
      BY CountTypes DEF Numbered
    <3>3. NowKnown(resultQ[j])
      BY <1>1, <1>3, <3>2
    <3> QED BY <3>1, <3>3
  <2>3. \A q \in early' : NowKnown(q)
    BY <1>1, <1>2, <1>3 DEF Numbered
  <2> QED BY <2>1, <2>2, <2>3, NumberedLater
<1>4. UNCHANGED <<task, inbox>> =>
        \A w \in Workers, t \in Tasks : At(w, t)' => \E v \in Workers : At(v, t)
  BY DEF At
<1>5. UNCHANGED resultQ =>
        \A i \in DOMAIN resultQ' : \E j \in DOMAIN resultQ : resultQ'[i] = resultQ[j]
  OBVIOUS
<1>6. resultQ # <<>> /\ TakeResult => /\ UNCHANGED <<task, inbox>>
        /\ \A i \in DOMAIN resultQ' : \E j \in DOMAIN resultQ : resultQ'[i] = resultQ[j]
  BY TakeFirst DEF TakeResult, TypeInv
<1>6a. ASSUME Later, early' \subseteq early, resultQ # <<>>, TakeResult
       PROVE  Numbered'
  <2> HIDE DEF Later
  <2>1. UNCHANGED <<task, inbox>>
    BY <1>6, <1>6a
  <2>2. \A w \in Workers, t \in Tasks : At(w, t)' => \E v \in Workers : At(v, t)
    BY <1>4, <2>1
  <2>3. \A i \in DOMAIN resultQ' : \E j \in DOMAIN resultQ : resultQ'[i] = resultQ[j]
    BY <1>6, <1>6a
  <2> QED BY <1>3, <1>6a, <2>2, <2>3
<1>7. UNCHANGED callVars => Later /\ UNCHANGED early
  BY CountTypes DEF callVars
<1>8. ASSUME NEW kind \in {"whisper", "vad"}, NEW n \in 0 .. MaxWindows,
             BeginCall(kind, n)
      PROVE  Numbered'
  BY <1>3, <1>4, <1>5, <1>8 DEF BeginCall, workerVars
<1>9. CASE DropPool \/ Joined
  <2>1. Later /\ UNCHANGED early
    BY <1>9, CountTypes DEF DropPool, Joined
  <2> QED BY <1>3, <1>4, <1>5, <1>9, <2>1 DEF DropPool, Joined, workerVars
<1>10. ASSUME NEW t \in Tasks, HandOut(t), mode \in {"whisper", "vad"},
              t.kind = "whisper" => t.call = call /\ t.index = sentOut
       PROVE  Numbered'
  <2>1. /\ sentOut' = sentOut + 1 /\ inbox' = [inbox EXCEPT ![Head(readyQ)] = <<t>>]
        /\ UNCHANGED <<task, resultQ, mode, call, early>>
    BY <1>10 DEF HandOut
  <2>2. Later
    BY <2>1, CountTypes
  <2>3. NowKnown(t)
    BY <1>10, <2>1, CountTypes DEF NowKnown, KnownTo
  <2> HIDE DEF Later
  <2>4. \A w \in Workers, u \in Tasks : At(w, u)' => NowKnown(u)
    <3> SUFFICES ASSUME NEW w \in Workers, NEW u \in Tasks, At(w, u)' PROVE NowKnown(u)
      OBVIOUS
    <3>1. inbox'[w] = inbox[w] \/ inbox'[w] = <<t>>
      BY <2>1 DEF TypeInv, WorkersTyped
    <3>2. <<u>> = <<t>> => u = t
      OBVIOUS
    <3>3. At(w, u) \/ u = t
      BY <2>1, <3>1, <3>2 DEF At
    <3> QED BY <1>1, <2>2, <2>3, <3>3 DEF Numbered
  <2>5. \A i \in DOMAIN resultQ' : NowKnown(resultQ'[i])
    <3>1. \A i \in DOMAIN resultQ : NowKnown(resultQ[i])
      BY <1>1, <2>2, CountTypes DEF Numbered
    <3> QED BY <2>1, <3>1
  <2>6. \A q \in early' : NowKnown(q)
    BY <1>1, <1>2, <2>1, <2>2 DEF Numbered
  <2> QED BY <2>4, <2>5, <2>6, NumberedLater
<1>11. CASE DispatchWindow
  <2>1. HandOut(WhisperTask) /\ WhisperTask \in Tasks /\ mode = "whisper"
    BY <1>11, DispatchedTasks, WhisperFields DEF DispatchWindow, HandOut
  <2>2. WhisperTask.call = call /\ WhisperTask.index = sentOut
    BY DEF WhisperTask
  <2> QED BY <1>10, <2>1, <2>2
<1>12. CASE DispatchVad
  <2>1. HandOut(VadTask) /\ VadTask \in Tasks /\ mode = "vad"
    BY <1>12, DispatchedTasks, VadTaskFields DEF DispatchVad, VadDue, HandOut
  <2>2. VadTask.kind = "vad"
    BY DEF VadTask
  <2> QED BY <1>10, <2>1, <2>2
<1>13. CASE NoWorker \/ CallbackFailed \/ WhisperReturns \/ VadReturns \/ ResultFails
  <2>1. Later /\ early' = {}
    BY <1>13 DEF NoWorker, CallbackFailed, WhisperReturns, VadReturns, ResultFails, Return
  <2>2. UNCHANGED workerVars \/ (resultQ # <<>> /\ TakeResult)
    BY <1>13 DEF NoWorker, CallbackFailed, WhisperReturns, VadReturns, ResultFails
  <2> HIDE DEF Later
  <2>3. early' \subseteq early
    BY <2>1
  <2>4. CASE UNCHANGED workerVars
    <3>1. UNCHANGED <<task, inbox>> /\ UNCHANGED resultQ
      BY <2>4 DEF workerVars
    <3>2. \A w \in Workers, t \in Tasks : At(w, t)' => \E v \in Workers : At(v, t)
      BY <1>4, <3>1
    <3>3. \A i \in DOMAIN resultQ' : \E j \in DOMAIN resultQ : resultQ'[i] = resultQ[j]
      BY <1>5, <3>1
    <3> QED BY <1>3, <2>1, <2>3, <3>2, <3>3
  <2>5. CASE resultQ # <<>> /\ TakeResult
    BY <1>6a, <2>1, <2>3, <2>5
  <2> QED BY <2>2, <2>4, <2>5
<1>14. CASE SkipResult \/ CallbackFails \/ CollectVad
  <2>1. /\ resultQ # <<>> /\ TakeResult /\ UNCHANGED <<call, sentOut, early>>
        /\ mode' = mode \/ mode' = "failing"
    BY <1>14 DEF SkipResult, CallbackFails, CollectVad, callVars
  <2>2. Later
    BY <2>1, CountTypes
  <2> HIDE DEF Later
  <2>3. early' \subseteq early
    BY <2>1
  <2> QED BY <1>6a, <2>1, <2>2, <2>3
<1>15. CASE CollectWindow
  <2>1. /\ resultQ # <<>> /\ TakeResult /\ UNCHANGED <<call, sentOut, mode>>
        /\ early' \subseteq Inserted(Head(resultQ))
    BY <1>15 DEF CollectWindow
  <2>2. Later
    BY <2>1, CountTypes
  <2>3. /\ Inserted(Head(resultQ)) \subseteq early \cup {resultQ[1]}
        /\ 1 \in DOMAIN resultQ /\ resultQ[1] \in AllResults
    BY <2>1, TakeFirst DEF Inserted, TypeInv
  <2> HIDE DEF Later
  <2>4. \A q \in early' : NowKnown(q)
    BY <1>1, <1>2, <2>1, <2>2, <2>3 DEF Numbered
  <2>5. \A w \in Workers, t \in Tasks : At(w, t)' => NowKnown(t)
    <3>1. \A w \in Workers, t \in Tasks : At(w, t)' => \E v \in Workers : At(v, t)
      BY <1>4, <1>6, <2>1
    <3>2. \A v \in Workers, t \in Tasks : At(v, t) => NowKnown(t)
      BY <1>1, <2>2 DEF Numbered
    <3> QED BY <3>1, <3>2
  <2>6. \A i \in DOMAIN resultQ' : NowKnown(resultQ'[i])
    <3> SUFFICES ASSUME NEW i \in DOMAIN resultQ' PROVE NowKnown(resultQ'[i])
      OBVIOUS
    <3>1. PICK j \in DOMAIN resultQ : resultQ'[i] = resultQ[j]
      BY <1>6, <2>1
    <3>2. NowKnown(resultQ[j])
      BY <1>1, <2>2, CountTypes DEF Numbered
    <3> QED BY <3>1, <3>2
  <2> QED BY <2>4, <2>5, <2>6, NumberedLater
<1>16. ASSUME NEW w \in Workers, Worker(w)
       PROVE  Numbered'
  <2>1. Later /\ UNCHANGED early
    BY <1>7, <1>16 DEF Worker, StopWorker
  <2> HIDE DEF Later
  <2>2. CASE Load(w) \/ Announce(w) \/ StopWorker(w)
    BY <1>3, <1>4, <1>5, <2>1, <2>2 DEF Load, Announce, StopWorker
  <2>3. ASSUME NEW r \in AllResults, Known(r), Len(resultQ) < NPU_WORKERS,
               resultQ' = Append(resultQ, r),
               \A v \in Workers, t \in Tasks : At(v, t)' => At(v, t)
        PROVE  Numbered'
    <3>1. \A i \in DOMAIN resultQ' : /\ resultQ'[i] \in AllResults
                                     /\ Known(resultQ'[i])
      <4>1. /\ DOMAIN resultQ' = 1 .. Len(resultQ) + 1 /\ Len(resultQ) \in Nat
            /\ DOMAIN resultQ = 1 .. Len(resultQ)
            /\ \A i \in DOMAIN resultQ : resultQ'[i] = resultQ[i]
            /\ resultQ'[Len(resultQ) + 1] = r
        BY <2>3, PutLast DEF TypeInv
      <4> SUFFICES ASSUME NEW i \in DOMAIN resultQ'
                   PROVE  resultQ'[i] \in AllResults /\ Known(resultQ'[i])
        OBVIOUS
      <4>2. CASE i = Len(resultQ) + 1
        BY <2>3, <4>1, <4>2
      <4>3. CASE i # Len(resultQ) + 1
        BY <4>1, <4>3, CountTypes DEF Numbered
      <4> QED BY <4>2, <4>3
    <3>2. \A i \in DOMAIN resultQ' : NowKnown(resultQ'[i])
      <4> SUFFICES ASSUME NEW i \in DOMAIN resultQ' PROVE NowKnown(resultQ'[i])
        OBVIOUS
      <4>1. \A t \in AllResults : Known(t) => NowKnown(t)
        BY <1>1, <2>1
      <4>2. PICK t \in AllResults : t = resultQ'[i] /\ Known(t)
        BY <3>1
      <4> QED BY <4>1, <4>2
    <3>3. \A v \in Workers, t \in Tasks : At(v, t)' => NowKnown(t)
      BY <1>1, <2>1, <2>3 DEF Numbered
    <3>4. \A q \in early' : NowKnown(q)
      BY <1>1, <1>2, <2>1 DEF Numbered
    <3> QED BY <3>2, <3>3, <3>4, NumberedLater
  <2>4. CASE LoadFails(w)
    <3>1. /\ [kind |-> "error", job |-> 0] \in AllResults
          /\ Known([kind |-> "error", job |-> 0])
      BY DEF AllResults, ErrorResults, Known, KnownTo
    <3>2. /\ Len(resultQ) < NPU_WORKERS /\ UNCHANGED <<task, inbox>>
          /\ resultQ' = Append(resultQ, [kind |-> "error", job |-> 0])
      BY <2>4 DEF LoadFails
    <3> QED BY <2>3, <3>1, <3>2 DEF At
  <2>5. CASE ReceiveTask(w)
    <3>1. /\ UNCHANGED resultQ /\ task' = [task EXCEPT ![w] = inbox[w]]
          /\ inbox' = [inbox EXCEPT ![w] = <<>>]
      BY <2>5 DEF ReceiveTask
    <3>2. \A v \in Workers, t \in Tasks : At(v, t)' => At(v, t)
      <4> SUFFICES ASSUME NEW v \in Workers, NEW t \in Tasks, At(v, t)' PROVE At(v, t)
        OBVIOUS
      <4>1. /\ task'[v] = IF v = w THEN inbox[w] ELSE task[v]
            /\ inbox'[v] = IF v = w THEN <<>> ELSE inbox[v]
        BY <3>1 DEF TypeInv, WorkersTyped
      <4>2. <<t>> # <<>>
        OBVIOUS
      <4> QED BY <4>1, <4>2 DEF At
    <3> QED BY <1>3, <1>5, <2>1, <3>1, <3>2
  <2>6. CASE ReportResult(w)
    <3>1. /\ workerPC[w] = "run" /\ task' = [task EXCEPT ![w] = <<>>]
          /\ UNCHANGED inbox /\ Len(resultQ) < NPU_WORKERS
      BY <2>6 DEF ReportResult
    <3>2. task[w] # <<>> /\ task[w] \in Slots
      BY <3>1 DEF TokenInv, TypeInv, WorkersTyped
    <3>3. PICK t \in Tasks : task[w] = <<t>> /\ task[w][1] = t
      BY <3>2, SlotFields
    <3>4. PICK r \in Results(t) : resultQ' = Append(resultQ, r)
      BY <2>6, <3>3 DEF ReportResult
    <3>5. /\ r \in AllResults
          /\ r.kind # "error" => r.kind = t.kind /\ (t.kind = "whisper" => r = t)
      BY ResultsTyped
    <3>6. Known(t)
      BY <3>3 DEF Numbered, At
    <3>7. Known(r)
      BY <3>5, <3>6 DEF Known, KnownTo
    <3>8. \A v \in Workers, u \in Tasks : At(v, u)' => At(v, u)
      <4> SUFFICES ASSUME NEW v \in Workers, NEW u \in Tasks, At(v, u)' PROVE At(v, u)
        OBVIOUS
      <4>1. task'[v] = IF v = w THEN <<>> ELSE task[v]
        BY <3>1 DEF TypeInv, WorkersTyped
      <4>2. <<u>> # <<>>
        OBVIOUS
      <4> QED BY <3>1, <4>1, <4>2 DEF At
    <3> QED BY <2>3, <3>1, <3>4, <3>5, <3>7, <3>8
  <2> QED BY <1>16, <2>2, <2>4, <2>5, <2>6 DEF Worker, WorkerThread
<1>17. CASE UNCHANGED vars
  BY <1>3, <1>4, <1>5, <1>7, <1>17 DEF vars, workerVars
<1> QED BY <1>8, <1>9, <1>11, <1>12, <1>13, <1>14, <1>15, <1>16, <1>17 DEF Next, Running

-----------------------------------------------------------------------------
(* The course of a call. *)

\* Only the entry of the call in progress changes: to the stretch given, as long
\* as all of it has been the call's own.
LEMMA GivenFields ==
  ASSUME given \in [Calls -> Stretches], call \in Calls,
         NEW ready, NEW k \in Nat, Given(ready, k)
  PROVE  /\ \A c \in Calls : c # call => given'[c] = given[c]
         /\ k = 0 => given' = given
         /\ k # 0 /\ given[call].own /\ AllOwn(ready, k) =>
              given'[call] = [from |-> ready[1].index, to |-> ready[k].index + 1,
                              own |-> TRUE]
         /\ k # 0 /\ ~ (given[call].own /\ AllOwn(ready, k)) =>
              /\ given'[call].own = FALSE /\ given'[call].from = given[call].from
              /\ given'[call].to = given[call].to
<1> DEFINE g == IF given[call].own /\ AllOwn(ready, k)
                THEN [from |-> ready[1].index, to |-> ready[k].index + 1, own |-> TRUE]
                ELSE [given[call] EXCEPT !.own = FALSE]
<1>1. k # 0 => given' = [given EXCEPT ![call] = g]
  BY DEF Given
<1>2. given[call] \in Stretches
  OBVIOUS
<1>3. k = 0 => given' = given
  BY DEF Given
<1>4. k # 0 => given'[call] = g
  BY <1>1
<1>5. \A c \in Calls : c # call => given'[c] = given[c]
  <2> HIDE DEF g
  <2> QED BY <1>1, <1>3
<1>6. LET h == [given[call] EXCEPT !.own = FALSE]
      IN  h.own = FALSE /\ h.from = given[call].from /\ h.to = given[call].to
  BY <1>2 DEF Stretches
<1> QED BY <1>3, <1>4, <1>5, <1>6

\* A call that returns leaves the entries of later calls alone.
LEMMA ReturnCall ==
  ASSUME TypeInv, CallInv, call \in Calls,
         NEW how \in {"done", "error"}, Return(how), UNCHANGED given
  PROVE  CallInv'
<1>1. \A c \in Calls : c > call => outcome'[c] = outcome[c]
  BY DEF Return, TypeInv, CallTyped, Calls
<1> QED BY <1>1 DEF Return, CallInv

\* Some windows of the call are taken: its place in the recording stays the
\* end of what on_segment has been given.
LEMMA CollectCall ==
  ASSUME TypeInv, CallInv, Numbered, CollectWindow
  PROVE  CallInv'
<1> DEFINE got   == Inserted(Head(resultQ))
           ready == InOrder(got)
<1>1. /\ output' = output \o ready /\ Given(ready, Len(ready)) /\ mode = "whisper"
      /\ UNCHANGED <<mode, call, total, sentOut, length, outcome>>
  BY DEF CollectWindow, Collecting
<1>2. /\ Len(output \o ready) = Len(output) + Len(ready)
      /\ Len(ready) \in Nat /\ Len(output) \in Nat
      /\ \A k \in 1 .. Len(ready) : ready[k].index = Len(output) + k - 1
  BY CollectTypes DEF CollectWindow
<1>7. \A k \in 1 .. Len(ready) : ready[k].call = call => ready[k].index < total
  BY ReadyHandedOut DEF CollectWindow
<1> HIDE DEF got, ready
<1>3. call \in Calls /\ given \in [Calls -> Stretches]
  BY <1>1 DEF CallInv, TypeInv, CallTyped
<1>4. /\ \A c \in Calls : c # call => given'[c] = given[c]
      /\ Len(ready) = 0 => given' = given
      /\ Len(ready) # 0 /\ given[call].own /\ AllOwn(ready, Len(ready)) =>
           given'[call] = [from |-> ready[1].index, to |-> ready[Len(ready)].index + 1,
                           own |-> TRUE]
      /\ Len(ready) # 0 /\ ~ (given[call].own /\ AllOwn(ready, Len(ready))) =>
           given'[call].own = FALSE
  BY <1>1, <1>2, <1>3, GivenFields
<1>5. given'[call].own => given'[call].to = Len(output') /\ Len(output') <= total
  <2>1. CASE Len(ready) = 0
    BY <1>1, <1>2, <1>4, <2>1 DEF CallInv
  <2>2. CASE Len(ready) # 0 /\ given[call].own /\ AllOwn(ready, Len(ready))
    <3>1. Len(ready) \in 1 .. Len(ready)
      BY <1>2, <2>2
    <3>2. ready[Len(ready)].index = Len(output) + Len(ready) - 1
      BY <1>2, <3>1
    <3>3. given'[call].to = ready[Len(ready)].index + 1
      BY <1>4, <2>2
    <3>4. ready[Len(ready)].index < total
      BY <1>7, <2>2, <3>1 DEF AllOwn
    <3>5. total \in Nat
      BY CountTypes
    <3> QED BY <1>1, <1>2, <3>2, <3>3, <3>4, <3>5
  <2>3. CASE Len(ready) # 0 /\ ~ (given[call].own /\ AllOwn(ready, Len(ready)))
    BY <1>4, <2>3
  <2> QED BY <2>1, <2>2, <2>3
<1>6. \A c \in Calls : c > call => c # call
  BY DEF Calls, TypeInv, CallTyped
<1> QED BY <1>1, <1>3, <1>4, <1>5, <1>6 DEF CallInv

\* Every step keeps the course of the call.
LEMMA CallStep ==
  ASSUME TypeInv, CallInv, Numbered, [Next]_vars
  PROVE  CallInv'
<1> USE DEF CallInv
<1>0. /\ call \in 0 .. MaxCalls /\ MaxCalls \in Nat
      /\ given \in [Calls -> Stretches]
      /\ length \in [Calls -> 0 .. MaxWindows] /\ output \in Seq(Outputs)
  BY MaxTypes DEF TypeInv, CallTyped
<1>1. ASSUME NEW kind \in {"whisper", "vad"}, NEW n \in 0 .. MaxWindows,
             BeginCall(kind, n)
      PROVE  CallInv'
  <2>1. /\ mode' = kind /\ call' = call + 1 /\ total' = n /\ sentOut' = 0
        /\ output' = <<>> /\ Len(<<>>) = 0 /\ call < MaxCalls
        /\ length' = [length EXCEPT ![call + 1] = IF kind = "whisper" THEN n ELSE 0]
        /\ UNCHANGED <<given, outcome>>
    BY <1>1 DEF BeginCall
  <2>2. call + 1 \in Calls /\ call + 1 > call
    BY <1>0, <2>1 DEF Calls
  <2>3. /\ outcome[call + 1] = "none"
        /\ given[call + 1] = [from |-> 0, to |-> 0, own |-> TRUE]
    BY <2>2
  <2>4. length'[call + 1] = IF kind = "whisper" THEN n ELSE 0
    BY <1>0, <2>1, <2>2
  <2>5. \A c \in Calls : c > call + 1 => c > call /\ length'[c] = length[c]
    BY <1>0, <2>1 DEF Calls
  <2>6. given[call + 1].to = 0
    BY <2>3
  <2> HIDE DEF CallInv
  <2>7. \A c \in Calls : c > call' => /\ outcome'[c] = "none" /\ length'[c] = 0
                                     /\ given'[c] = [from |-> 0, to |-> 0, own |-> TRUE]
    BY <2>1, <2>5 DEF CallInv
  <2>8. 0 <= 0 /\ 0 <= 0 + 1 /\ 0 <= n
    OBVIOUS
  <2> QED BY <2>1, <2>2, <2>3, <2>4, <2>6, <2>7, <2>8 DEF CallInv
<1>2. CASE DropPool \/ Joined
  BY <1>2 DEF DropPool, Joined
<1>3. CASE DispatchWindow
  BY <1>3 DEF DispatchWindow, HandOut
<1>4. CASE DispatchVad
  <2>1. Len(output) \in Nat
    BY <1>0, LenProperties
  <2> QED BY <1>4, <2>1 DEF DispatchVad, VadDue, HandOut
<1>5. CASE NoWorker \/ CallbackFailed \/ WhisperReturns \/ VadReturns
  <2>1. call \in Calls /\ UNCHANGED given
        /\ \E how \in {"done", "error"} : Return(how)
    BY <1>5 DEF NoWorker, CallbackFailed, WhisperReturns, VadReturns
  <2> HIDE DEF CallInv
  <2> QED BY <2>1, ReturnCall
<1>6. CASE ResultFails
  <2>1. call \in Calls /\ UNCHANGED given /\ Return("error")
    BY <1>6 DEF ResultFails, Collecting
  <2> HIDE DEF CallInv
  <2> QED BY <2>1, ReturnCall
<1>7. CASE SkipResult
  BY <1>7 DEF SkipResult, callVars
<1>8. CASE CollectWindow
  BY <1>8, CollectCall
<1>9. CASE CallbackFails
  <2>1. PICK ready : \E k \in DOMAIN ready : Given(ready, k - 1)
                     /\ ready = InOrder(Inserted(Head(resultQ)))
    BY <1>9 DEF CallbackFails
  <2>2. PICK k \in DOMAIN ready : Given(ready, k - 1)
    BY <2>1
  <2>3. k - 1 \in Nat
    BY <1>9, <2>1, <2>2, CollectTypes DEF CallbackFails
  <2>4. call \in Calls
    BY <1>9 DEF CallbackFails, Collecting
  <2>5. \A c \in Calls : c # call => given'[c] = given[c]
    BY <1>0, <2>2, <2>3, <2>4, GivenFields
  <2>6. \A c \in Calls : c > call => c # call
    BY <1>0 DEF Calls
  <2>7. /\ mode' = "failing" /\ mode = "whisper"
        /\ UNCHANGED <<call, total, sentOut, output, length, outcome>>
    BY <1>9 DEF CallbackFails, Collecting
  <2> QED BY <2>4, <2>5, <2>6, <2>7
<1>10. CASE CollectVad
  <2>1. /\ mode = "vad" /\ sentOut > Len(output)
        /\ UNCHANGED <<mode, call, total, sentOut, given, length, outcome>>
        /\ \E x : output' = Append(output, x)
    BY <1>10 DEF CollectVad
  <2>2. \A x : Len(Append(output, x)) = Len(output) + 1
    BY <1>0
  <2>3. Len(output) \in Nat /\ sentOut \in Nat
    BY <1>0, LenProperties DEF TypeInv, CallTyped
  <2> QED BY <2>1, <2>2, <2>3
<1>11. ASSUME NEW w \in Workers, Worker(w)
       PROVE  CallInv'
  BY <1>11 DEF Worker, StopWorker, callVars
<1>12. CASE UNCHANGED vars
  BY <1>12 DEF vars, callVars
<1> QED BY <1>1, <1>2, <1>3, <1>4, <1>5, <1>6, <1>7, <1>8, <1>9, <1>10, <1>11, <1>12
        DEF Next, Running

-----------------------------------------------------------------------------
(* Until a call fails, what is under way is the call's own. *)

SafeInv == AllMine /\ Apart /\ Chained /\ OutputIsOwn

Item(t) == t \in Tasks \/ (t \in AllResults /\ t.kind # "error")

\* A task or a result that is no error has the number of a window.
LEMMA NumTyped ==
  ASSUME NEW t, Item(t)
  PROVE  Num(t) \in Numbers /\ Num(t) \in Nat
<1>1. t \in WhisperTasks \/ t \in VadTasks \/ t \in VadResults
  BY ResultKinds DEF Tasks, Item
<1>2. Num(t) \in Numbers
  BY <1>1, WhisperFields, VadTaskFields, VadResultFields DEF Num
<1> QED BY <1>2, MaxTypes DEF Numbers

\* A call that fails has failed for good.
LEMMA FailedStays ==
  ASSUME TypeInv, CallInv, [Next]_vars, Failed
  PROVE  Failed'
<1>1. PICK c \in Calls : outcome[c] = "error"
  BY DEF Failed
<1>2. outcome \in [Calls -> {"none", "done", "error"}]
  BY DEF TypeInv, CallTyped
<1>3. UNCHANGED outcome \/ \E how : Return(how) /\ mode \in {"whisper", "failing", "vad"}
  BY DEF Next, Running, BeginCall, DropPool, Joined, DispatchWindow, DispatchVad,
         VadDue, HandOut, NoWorker, CallbackFailed, WhisperReturns, VadReturns,
         ResultFails, SkipResult, CollectWindow, CallbackFails, CollectVad,
         Collecting, Worker, StopWorker, vars, callVars
<1>4. outcome'[c] = "error"
  <2>1. CASE UNCHANGED outcome
    BY <1>1, <2>1
  <2>2. ASSUME NEW how, Return(how), mode \in {"whisper", "failing", "vad"}
        PROVE  outcome'[c] = "error"
    <3>1. outcome[call] = "none" /\ outcome' = [outcome EXCEPT ![call] = how]
      BY <2>2 DEF CallInv, Return
    <3> QED BY <1>1, <1>2, <3>1
  <2> QED BY <1>3, <2>1, <2>2
<1> QED BY <1>4 DEF Failed

\* A call that returns an error has failed.
LEMMA ErrorFails ==
  ASSUME TypeInv, CallInv, mode \in {"whisper", "failing", "vad"}, Return("error")
  PROVE  Failed'
<1>1. outcome'[call] = "error" /\ call \in Calls
  BY DEF Return, TypeInv, CallTyped, CallInv
<1> QED BY <1>1 DEF Failed

\* Nothing is under way.
Quiet ==
    /\ \A w \in Workers, t \in Tasks : ~ At(w, t)
    /\ \A i \in DOMAIN resultQ : ~ Sound(i)

\* A call begins and returns with nothing under way.
LEMMA QuietStep ==
  ASSUME TypeInv, Quiet, UNCHANGED workerVars, early' = {}, output' = <<>>, sentOut' = 0,
         mode' = "vad" => vadState' = <<call', 0>>
  PROVE  SafeInv'
<1>1. Quiet'
  BY DEF Quiet, At, Sound, workerVars
<1>2. Len(output') = 0 /\ DOMAIN output' = {} /\ Len(output') <= sentOut'
  OBVIOUS
<1> QED BY <1>1, <1>2 DEF SafeInv, Quiet, AllMine, Apart, Chained, OutputIsOwn

\* What is under way is of the call in progress and not yet in its output: when
\* there is no such call or all is in, nothing is under way.
LEMMA NothingLeft ==
  ASSUME TypeInv, AllMine,
         mode \notin {"whisper", "failing", "vad"} \/ sentOut <= Len(output)
  PROVE  Quiet
<1>1. ASSUME NEW t, Item(t), Mine(t)
      PROVE  FALSE
  BY <1>1, NumTyped, CountTypes DEF Mine
<1> QED BY <1>1, CountTypes DEF Quiet, AllMine, Sound, Item

\* The window that is handed out is the next one, and everything else under way
\* comes before it.
LEMMA HandOutSafe ==
  ASSUME TypeInv, TokenInv, SafeInv, NEW t \in Tasks, HandOut(t),
         Num(t) = sentOut,
         mode \in {"whisper", "vad"}, t.kind = mode,
         t.kind = "whisper" => t.call = call,
         t.kind = "vad" => t.from = call /\ t.state = <<t.from, t.start>>
  PROVE  SafeInv'
<1>h. Head(readyQ) \in Workers
  BY TakeReady DEF HandOut, TypeInv
<1>0. PICK h \in Workers : h = Head(readyQ)
  BY <1>h
<1>1. /\ inbox' = [inbox EXCEPT ![h] = <<t>>] /\ inbox[h] = <<>>
      /\ sentOut' = sentOut + 1
      /\ UNCHANGED <<task, resultQ, mode, call, early, output, vadState, outcome>>
  BY <1>0 DEF HandOut
<1>2. 1 \in DOMAIN readyQ /\ readyQ[1] = h
  BY <1>0, TakeReady DEF HandOut, TypeInv
<1>3. task[h] = <<>>
  BY <1>2 DEF TokenInv, Announced
<1>4. inbox \in [Workers -> Slots]
  BY DEF TypeInv, WorkersTyped
<1>5. ASSUME NEW w \in Workers, NEW u \in Tasks
      PROVE  At(w, u)' <=> (w = h /\ u = t) \/ (w # h /\ At(w, u))
  <2>1. <<u>> # <<>> /\ (<<t>> = <<u>> <=> t = u)
    OBVIOUS
  <2>2. inbox'[w] = IF w = h THEN <<t>> ELSE inbox[w]
    BY <1>1, <1>4
  <2> QED BY <1>1, <1>3, <2>1, <2>2 DEF At
<1>6. ~ \E u \in Tasks : At(h, u)
  <2>1. \A u : <<u>> # <<>>
    OBVIOUS
  <2> QED BY <1>1, <1>3, <2>1 DEF At
<1>7. /\ \A u : Item(u) /\ Mine(u) => Mine(u)' /\ Num(u) < sentOut
      /\ \A u \in Tasks : Item(u)
      /\ \A i \in DOMAIN resultQ : Sound(i) => Item(resultQ[i])
      /\ \A q \in early : Item(q)
  <2>1. ASSUME NEW u, Item(u), Mine(u) PROVE Mine(u)' /\ Num(u) < sentOut
    BY <1>1, <2>1, CountTypes, NumTyped DEF Mine, Num
  <2>2. early \subseteq Tasks
    BY DEF TypeInv, CallTyped, Tasks
  <2> QED BY <2>1, <2>2, CountTypes DEF Item, Sound
<1>8. Mine(t)' /\ Len(output') <= sentOut'
  BY <1>1, CountTypes DEF Mine, Num, SafeInv, AllMine
<1>9. AllMine'
  BY <1>1, <1>5, <1>7, <1>8 DEF SafeInv, AllMine, Sound
<1>10. \A u : u \in Tasks => Num(u)' = Num(u)
  BY DEF Num
<1>11. Apart'
  <2>1. \A w \in Workers, u \in Tasks : At(w, u) => Num(u) # Num(t)
    BY <1>7, CountTypes DEF SafeInv, AllMine
  <2>2. \A i \in DOMAIN resultQ : Sound(i) => Num(resultQ[i]) # Num(t)
    BY <1>7, CountTypes DEF SafeInv, AllMine
  <2>3. \A q \in early : Num(q) # Num(t)
    BY <1>7, CountTypes DEF SafeInv, AllMine
  <2> QED BY <1>1, <1>5, <2>1, <2>2, <2>3 DEF SafeInv, Apart, Sound, Num
<1>12. Chained'
  BY <1>1, <1>5 DEF SafeInv, Chained
<1>13. OutputIsOwn'
  BY <1>1 DEF SafeInv, OutputIsOwn, Failed
<1> QED BY <1>9, <1>11, <1>12, <1>13 DEF SafeInv

\* A result that joins the queue is an error or the window its worker had.
LEMMA ReportSafe ==
  ASSUME TypeInv, TokenInv, SafeInv, NEW w \in Workers, ReportResult(w),
         UNCHANGED callVars
  PROVE  SafeInv'
<1> DEFINE n == Len(resultQ) + 1
<1>1. /\ workerPC[w] = "run" /\ task' = [task EXCEPT ![w] = <<>>]
      /\ UNCHANGED inbox /\ Len(resultQ) < NPU_WORKERS
  BY DEF ReportResult
<1>2. task[w] # <<>> /\ inbox[w] = <<>> /\ task[w] \in Slots
  BY <1>1 DEF TokenInv, TypeInv, WorkersTyped
<1>3. PICK t \in Tasks : task[w] = <<t>> /\ task[w][1] = t
  BY <1>2, SlotFields
<1>4. PICK r \in Results(t) : resultQ' = Append(resultQ, r)
  BY <1>3 DEF ReportResult
<1>5. /\ r \in AllResults
      /\ r.kind # "error" => /\ r.kind = t.kind /\ Num(r) = Num(t)
                             /\ t.kind = "whisper" => r = t
                             /\ t.kind = "vad" => r.from = t.from
  BY ResultsTyped
<1>6. /\ DOMAIN resultQ' = 1 .. n /\ DOMAIN resultQ = 1 .. n - 1 /\ n \in Nat
      /\ \A i \in DOMAIN resultQ : resultQ'[i] = resultQ[i]
      /\ resultQ'[n] = r
  BY <1>1, <1>4, <1>5, PutLast DEF TypeInv
<1> HIDE DEF n
<1>7. At(w, t)
  BY <1>3 DEF At
<1>8. \A v \in Workers, u \in Tasks : At(v, u)' <=> v # w /\ At(v, u)
  <2> SUFFICES ASSUME NEW v \in Workers, NEW u \in Tasks
               PROVE  At(v, u)' <=> v # w /\ At(v, u)
    OBVIOUS
  <2>1. task'[v] = IF v = w THEN <<>> ELSE task[v]
    BY <1>1 DEF TypeInv, WorkersTyped
  <2>2. <<u>> # <<>>
    OBVIOUS
  <2> QED BY <1>1, <1>2, <2>1, <2>2 DEF At
<1>9. \A u : Mine(u)' <=> Mine(u)
  BY DEF Mine, Num, callVars
<1>10. r.kind # "error" => Mine(r)
  <2>1. Mine(t) /\ t.kind \in {"whisper", "vad"}
    BY <1>7, TaskKinds DEF SafeInv, AllMine
  <2> QED BY <1>5, <2>1 DEF Mine
<1>11. AllMine'
  <2>1. \A i \in DOMAIN resultQ' : Sound(i)' => Mine(resultQ'[i])
    <3> SUFFICES ASSUME NEW i \in DOMAIN resultQ', Sound(i)' PROVE Mine(resultQ'[i])
      OBVIOUS
    <3>1. CASE i \in DOMAIN resultQ
      BY <1>6, <3>1 DEF SafeInv, AllMine, Sound
    <3>2. CASE i = n
      BY <1>6, <1>10, <3>2 DEF Sound
    <3> QED BY <1>6, <3>1, <3>2
  <2> QED BY <1>8, <1>9, <2>1 DEF SafeInv, AllMine, callVars
<1>12. \A i \in DOMAIN resultQ' : Sound(i)' =>
           \/ i \in DOMAIN resultQ /\ Sound(i) /\ Num(resultQ'[i]) = Num(resultQ[i])
           \/ i = n /\ Num(resultQ'[i]) = Num(t)
  BY <1>5, <1>6 DEF Sound
<1>13. \A i \in DOMAIN resultQ : Sound(i) => Num(resultQ[i]) # Num(t)
  BY <1>7 DEF SafeInv, Apart
<1>14. Apart'
  <2>1. \A v \in Workers, u \in Tasks, i \in DOMAIN resultQ' :
          At(v, u)' /\ Sound(i)' => Num(u) # Num(resultQ'[i])
    <3>1. \A v \in Workers, u \in Tasks : At(v, u)' => At(v, u) /\ Num(u) # Num(t)
      BY <1>7, <1>8 DEF SafeInv, Apart
    <3> QED BY <1>12, <3>1 DEF SafeInv, Apart
  <2>2. \A i, j \in DOMAIN resultQ' :
          Sound(i)' /\ Sound(j)' /\ i # j => Num(resultQ'[i]) # Num(resultQ'[j])
    <3> SUFFICES ASSUME NEW i \in DOMAIN resultQ', NEW j \in DOMAIN resultQ',
                        Sound(i)', Sound(j)', i # j
                 PROVE  Num(resultQ'[i]) # Num(resultQ'[j])
      OBVIOUS
    <3>1. CASE i = n \/ j = n
      BY <1>6, <1>12, <1>13, <3>1
    <3>2. CASE i # n /\ j # n
      BY <1>12, <3>2 DEF SafeInv, Apart
    <3> QED BY <3>1, <3>2
  <2>3. \A i \in DOMAIN resultQ', q \in early : Sound(i)' => Num(resultQ'[i]) # Num(q)
    <3>1. \A q \in early : Num(t) # Num(q)
      BY <1>7 DEF SafeInv, Apart
    <3> QED BY <1>12, <3>1 DEF SafeInv, Apart
  <2>4. UNCHANGED early /\ \A u : Num(u)' = Num(u)
    BY DEF callVars, Num
  <2> QED BY <1>8, <2>1, <2>2, <2>3, <2>4 DEF SafeInv, Apart, Num
<1>15. Chained' /\ OutputIsOwn'
  BY <1>8 DEF SafeInv, Chained, OutputIsOwn, Failed, callVars
<1> QED BY <1>11, <1>14, <1>15 DEF SafeInv

\* What is under way does not change where the tasks stay with their workers and
\* nothing but an error joins the results.
LEMMA SameSafe ==
  ASSUME SafeInv, UNCHANGED callVars,
         \A w \in Workers, t \in Tasks : At(w, t)' <=> At(w, t),
         \A i \in DOMAIN resultQ' : Sound(i)' =>
             i \in DOMAIN resultQ /\ Sound(i) /\ resultQ'[i] = resultQ[i]
  PROVE  SafeInv'
<1>1. \A u : (Mine(u)' <=> Mine(u)) /\ Num(u)' = Num(u)
  BY DEF Mine, Num, callVars
<1>2. AllMine'
  BY <1>1 DEF SafeInv, AllMine, callVars, Mine, Num
<1>3. UNCHANGED early
  BY DEF callVars
<1>4. Apart'
  BY <1>3 DEF SafeInv, Apart, Num
<1>5. Chained' /\ OutputIsOwn'
  BY DEF SafeInv, Chained, OutputIsOwn, Failed, callVars
<1> QED BY <1>2, <1>4, <1>5 DEF SafeInv

\* A worker's steps pass on what is under way, or lose it to an error.
LEMMA WorkerSafe ==
  ASSUME TypeInv, TokenInv, SafeInv, NEW w \in Workers, Worker(w)
  PROVE  SafeInv'
<1>1. UNCHANGED callVars
  BY DEF Worker, StopWorker
<1>2. CASE Load(w) \/ Announce(w) \/ StopWorker(w)
  <2>1. UNCHANGED <<task, inbox, resultQ>>
    BY <1>2 DEF Load, Announce, StopWorker
  <2> QED BY <1>1, <2>1, SameSafe DEF At, Sound
<1>3. CASE LoadFails(w)
  <2>1. /\ UNCHANGED <<task, inbox>> /\ Len(resultQ) < NPU_WORKERS
        /\ resultQ' = Append(resultQ, [kind |-> "error", job |-> 0])
    BY <1>3 DEF LoadFails
  <2>2. /\ [kind |-> "error", job |-> 0] \in AllResults
        /\ [kind |-> "error", job |-> 0].kind = "error"
    BY DEF AllResults, ErrorResults
  <2>3. /\ DOMAIN resultQ' = 1 .. Len(resultQ) + 1
        /\ DOMAIN resultQ = 1 .. Len(resultQ) /\ Len(resultQ) \in Nat
        /\ \A i \in DOMAIN resultQ : resultQ'[i] = resultQ[i]
        /\ resultQ'[Len(resultQ) + 1].kind = "error"
    BY <2>1, <2>2, PutLast DEF TypeInv
  <2>4. \A i \in DOMAIN resultQ' : Sound(i)' =>
             i \in DOMAIN resultQ /\ Sound(i) /\ resultQ'[i] = resultQ[i]
    BY <2>3 DEF Sound
  <2> QED BY <1>1, <2>1, <2>4, SameSafe DEF At
<1>4. CASE ReceiveTask(w)
  <2>1. /\ workerPC[w] = "receive" /\ inbox[w] # <<>> /\ UNCHANGED resultQ
        /\ task' = [task EXCEPT ![w] = inbox[w]] /\ inbox' = [inbox EXCEPT ![w] = <<>>]
    BY <1>4 DEF ReceiveTask
  <2>2. task[w] = <<>>
    BY <2>1 DEF TokenInv
  <2>3. ASSUME NEW v \in Workers, NEW u \in Tasks PROVE At(v, u)' <=> At(v, u)
    <3>1. /\ task'[v] = IF v = w THEN inbox[w] ELSE task[v]
          /\ inbox'[v] = IF v = w THEN <<>> ELSE inbox[v]
      BY <2>1 DEF TypeInv, WorkersTyped
    <3>2. <<u>> # <<>>
      OBVIOUS
    <3> QED BY <2>2, <3>1, <3>2 DEF At
  <2> QED BY <1>1, <2>1, <2>3, SameSafe DEF Sound
<1>5. CASE ReportResult(w)
  BY <1>1, <1>5, ReportSafe
<1> QED BY <1>2, <1>3, <1>4, <1>5 DEF Worker, WorkerThread

\* A result leaves the queue: the others move up by one place.
LEMMA TakenResults ==
  ASSUME TypeInv, resultQ # <<>>, TakeResult
  PROVE  /\ 1 \in DOMAIN resultQ /\ Head(resultQ) = resultQ[1]
         /\ \A i \in DOMAIN resultQ' : /\ i + 1 \in DOMAIN resultQ /\ i + 1 # 1
                                       /\ resultQ'[i] = resultQ[i + 1]
         /\ \A i, j \in DOMAIN resultQ' : i # j => i + 1 # j + 1
         /\ \A w, t : At(w, t)' <=> At(w, t)
<1>1. /\ resultQ' = Tail(resultQ) /\ UNCHANGED <<task, inbox>>
  BY DEF TakeResult
<1>2. /\ DOMAIN Tail(resultQ) = 1 .. Len(resultQ) - 1
      /\ \A i \in DOMAIN Tail(resultQ) :
           i + 1 \in DOMAIN resultQ /\ Tail(resultQ)[i] = resultQ[i + 1]
      /\ 1 \in DOMAIN resultQ /\ Head(resultQ) = resultQ[1]
  BY TakeFirst DEF TypeInv
<1>3. Len(resultQ) \in Nat
  BY CountTypes
<1> QED BY <1>1, <1>2, <1>3 DEF At

\* The windows whose turn has come go to the output; those left under way come
\* after them.
LEMMA CollectSafe ==
  ASSUME TypeInv, EarlyInv, SafeInv, CollectWindow
  PROVE  SafeInv'
<1> DEFINE r     == Head(resultQ)
           got   == Inserted(r)
           ready == InOrder(got)
<1>1. /\ mode = "whisper" /\ resultQ # <<>> /\ r.kind = "whisper" /\ TakeResult
      /\ early' = got \ ToSet(ready) /\ output' = output \o ready
      /\ UNCHANGED <<mode, call, total, sentOut, vadState, outcome>>
  BY DEF CollectWindow, Collecting
<1>2. /\ got \in SUBSET WhisperTasks /\ ready \in Seq(got)
      /\ \A k \in 1 .. Len(ready) :
           ready[k] \in got /\ ready[k].index = Len(output) + k - 1
      /\ Len(output \o ready) = Len(output) + Len(ready)
      /\ Len(ready) \in Nat /\ Len(output) \in Nat /\ DOMAIN ready = 1 .. Len(ready)
      /\ output \o ready \in Seq(Outputs)
  BY CollectTypes DEF CollectWindow
<1>3. /\ 1 \in DOMAIN resultQ /\ r = resultQ[1] /\ Sound(1)
      /\ \A i \in DOMAIN resultQ' : /\ i + 1 \in DOMAIN resultQ /\ i + 1 # 1
                                    /\ resultQ'[i] = resultQ[i + 1]
      /\ \A i, j \in DOMAIN resultQ' : i # j => i + 1 # j + 1
      /\ \A w, t : At(w, t)' <=> At(w, t)
  BY <1>1, TakenResults DEF Sound
<1>4. got \subseteq early \cup {r}
  BY DEF Inserted
<1>5. \A q \in got : Mine(q) /\ q.call = call /\ q.kind = "whisper" /\ Num(q) = q.index
  <2>1. \A q \in got : Mine(q)
    BY <1>3, <1>4 DEF SafeInv, AllMine
  <2> QED BY <1>2, <2>1, WhisperFields DEF Mine, Num
<1>6. \A p, q \in got : p.index = q.index => p = q
  BY DEF Inserted, EarlyInv
<1> HIDE DEF r, got, ready
\* What is under way with a number of its own is not among the ready ones.
<1>7. ASSUME NEW u, Item(u), Mine(u), \A q \in got : Num(q) # Num(u)
      PROVE  Mine(u)'
  <2>1. Num(u) \in Nat /\ Len(output) <= Num(u) /\ Num(u) < sentOut
    BY <1>7, NumTyped DEF Mine
  <2>2. Len(output) + Len(ready) <= Num(u)
    <3> SUFFICES ASSUME Num(u) < Len(output) + Len(ready) PROVE FALSE
      BY <1>2, <2>1
    <3>1. PICK k \in 1 .. Len(ready) : k = Num(u) - Len(output) + 1
      BY <1>2, <2>1
    <3>2. ready[k] \in got /\ ready[k].index = Num(u)
      BY <1>2, <2>1, <3>1
    <3> QED BY <1>5, <1>7, <3>2
  <2>3. Len(output') = Len(output) + Len(ready)
    BY <1>1, <1>2
  <2> QED BY <1>1, <1>7, <2>1, <2>2, <2>3 DEF Mine, Num
<1>8. \A t \in Tasks, w \in Workers : At(w, t) => \A q \in got : Num(q) # Num(t)
  BY <1>3, <1>4 DEF SafeInv, Apart
<1>9. \A i \in DOMAIN resultQ' : Sound(i)' =>
        /\ Sound(i + 1) /\ Mine(resultQ'[i]) /\ Item(resultQ'[i])
        /\ \A q \in got : Num(q) # Num(resultQ'[i])
  <2> SUFFICES ASSUME NEW i \in DOMAIN resultQ', Sound(i)'
               PROVE  /\ Sound(i + 1) /\ Mine(resultQ'[i]) /\ Item(resultQ'[i])
                      /\ \A q \in got : Num(q) # Num(resultQ'[i])
    OBVIOUS
  <2>1. i + 1 \in DOMAIN resultQ /\ i + 1 # 1 /\ resultQ'[i] = resultQ[i + 1]
        /\ Sound(i + 1)
    BY <1>3 DEF Sound
  <2>2. Mine(resultQ'[i]) /\ Item(resultQ'[i])
    BY <2>1, CountTypes DEF SafeInv, AllMine, Item, Sound
  <2>3. Num(resultQ[i + 1]) # Num(resultQ[1])
    BY <1>3, <2>1 DEF SafeInv, Apart
  <2>4. \A q \in early : Num(q) # Num(resultQ[i + 1])
    BY <2>1 DEF SafeInv, Apart
  <2> QED BY <1>3, <1>4, <2>1, <2>2, <2>3, <2>4
<1>10. \A q \in early' : q \in got /\ Mine(q)'
  <2> SUFFICES ASSUME NEW q \in got, q \notin ToSet(ready) PROVE Mine(q)'
    BY <1>1
  <2>1. /\ Mine(q) /\ q.kind = "whisper" /\ Num(q) = q.index /\ Num(q) \in Nat
        /\ Len(output) <= Num(q) /\ Num(q) < sentOut /\ q.call = call
    <3>1. q \in Tasks
      BY <1>2, WhisperFields
    <3> QED BY <1>5, <3>1, NumTyped DEF Mine, Item
  <2>2. Len(output) + Len(ready) <= Num(q)
    <3> SUFFICES ASSUME Num(q) < Len(output) + Len(ready) PROVE FALSE
      BY <1>2, <2>1
    <3>1. PICK k \in 1 .. Len(ready) : k = Num(q) - Len(output) + 1
      BY <1>2, <2>1
    <3>2. ready[k] \in got /\ ready[k].index = q.index
      BY <1>2, <2>1, <3>1
    <3>3. ready[k] = q
      BY <1>6, <3>2
    <3>4. q \in ToSet(ready)
      BY <1>2, <3>1, <3>3 DEF ToSet
    <3> QED BY <3>4
  <2>3. Len(output') = Len(output) + Len(ready)
    BY <1>1, <1>2
  <2> QED BY <1>1, <2>1, <2>2, <2>3 DEF Mine, Num
<1>11. AllMine'
  <2>1. \A w \in Workers, t \in Tasks : At(w, t) => Mine(t)'
    BY <1>7, <1>8 DEF SafeInv, AllMine, Item
  <2>2. \A i \in DOMAIN resultQ' : Sound(i)' => Mine(resultQ[i])'
    <3> SUFFICES ASSUME NEW i \in DOMAIN resultQ', Sound(i)' PROVE Mine(resultQ[i])'
      OBVIOUS
    <3>1. PICK u : u = resultQ'[i]
      OBVIOUS
    <3>2. Mine(u)'
      BY <1>7, <1>9, <3>1
    <3> QED BY <3>1, <3>2 DEF Mine, Num
  <2>3. \A w \in Workers, t \in Tasks : At(w, t)' => Mine(t)'
    BY <1>3, <2>1
  <2>4. \A q \in early' : Mine(q)'
    BY <1>10
  <2>5. Len(output') <= sentOut'
    <3>1. CASE Len(ready) = 0
      BY <1>1, <1>2, <3>1 DEF SafeInv, AllMine
    <3>2. CASE Len(ready) # 0
      <4>1. /\ ready[Len(ready)] \in got
            /\ ready[Len(ready)].index = Len(output) + Len(ready) - 1
        BY <1>2, <3>2
      <4>2. Len(output) + Len(ready) - 1 < sentOut
        BY <1>5, <4>1 DEF Mine
      <4> QED BY <1>1, <1>2, <4>2, CountTypes
    <3> QED BY <3>1, <3>2
  <2> QED BY <2>2, <2>3, <2>4, <2>5 DEF AllMine
<1>12. Apart'
  <2>1. \A w \in Workers, t \in Tasks, i \in DOMAIN resultQ' :
          At(w, t) /\ Sound(i)' => Num(t) # Num(resultQ'[i])
    BY <1>3, <1>9 DEF SafeInv, Apart
  <2>2. \A i, j \in DOMAIN resultQ' :
          Sound(i)' /\ Sound(j)' /\ i # j => Num(resultQ'[i]) # Num(resultQ'[j])
    BY <1>3, <1>9 DEF SafeInv, Apart
  <2>3. \A i \in DOMAIN resultQ', q \in early' : Sound(i)' => Num(resultQ'[i]) # Num(q)
    BY <1>9, <1>10
  <2>4. \A w \in Workers, t \in Tasks, q \in early' : At(w, t) => Num(t) # Num(q)
    BY <1>8, <1>10
  <2> QED BY <1>3, <2>1, <2>2, <2>3, <2>4 DEF SafeInv, Apart, Num
<1>13. Chained'
  BY <1>1, <1>3 DEF SafeInv, Chained
<1>14. OutputIsOwn'
  <2> SUFFICES ASSUME ~ Failed, NEW i \in DOMAIN (output \o ready)
               PROVE  /\ (output \o ready)[i].call = call
                      /\ (output \o ready)[i].index = i - 1
    BY <1>1 DEF OutputIsOwn, Failed
  <2>1. i \in 1 .. Len(output) + Len(ready)
    BY <1>2, LenProperties
  <2>2. output \in Seq(Outputs) /\ ready \in Seq(Outputs)
    BY <1>2, WhisperFields, SeqMonotonic DEF TypeInv, CallTyped
  <2>3. (output \o ready)[i] = IF i <= Len(output) THEN output[i]
                                                   ELSE ready[i - Len(output)]
    BY <2>1, <2>2, ConcatProperties
  <2>4. CASE i <= Len(output)
    BY <2>1, <2>3, <2>4, CountTypes DEF SafeInv, OutputIsOwn
  <2>5. CASE ~ (i <= Len(output))
    <3>1. i - Len(output) \in 1 .. Len(ready)
      BY <1>2, <2>1, <2>5
    <3>2. /\ ready[i - Len(output)].index = Len(output) + (i - Len(output)) - 1
          /\ ready[i - Len(output)].call = call
      BY <1>2, <1>5, <3>1
    <3> QED BY <1>2, <2>1, <2>3, <2>5, <3>2
  <2> QED BY <2>4, <2>5
<1> QED BY <1>11, <1>12, <1>13, <1>14 DEF SafeInv

\* A window whose callback fails is gone, the others stay under way.
LEMMA CallbackSafe ==
  ASSUME TypeInv, SafeInv, CallbackFails
  PROVE  SafeInv'
<1>1. /\ mode = "whisper" /\ mode' = "failing" /\ resultQ # <<>> /\ TakeResult
      /\ UNCHANGED <<call, total, sentOut, early, output, vadState, outcome>>
  BY DEF CallbackFails, Collecting
<1>2. /\ \A i \in DOMAIN resultQ' : /\ i + 1 \in DOMAIN resultQ /\ i + 1 # 1
                                    /\ resultQ'[i] = resultQ[i + 1]
      /\ \A i, j \in DOMAIN resultQ' : i # j => i + 1 # j + 1
      /\ \A w, t : At(w, t)' <=> At(w, t)
  BY <1>1, TakenResults
<1>3. \A u : Mine(u) => Mine(u)'
  BY <1>1 DEF Mine, Num
<1>4. \A i \in DOMAIN resultQ' : Sound(i)' <=> Sound(i + 1)
  BY <1>2 DEF Sound
<1>5. AllMine'
  <2>1. \A i \in DOMAIN resultQ' : Sound(i)' => Mine(resultQ[i])'
    <3> SUFFICES ASSUME NEW i \in DOMAIN resultQ', Sound(i)' PROVE Mine(resultQ[i])'
      OBVIOUS
    <3>1. PICK u : u = resultQ'[i]
      OBVIOUS
    <3>2. Mine(u)'
      BY <1>2, <1>3, <1>4, <3>1 DEF SafeInv, AllMine
    <3> QED BY <3>1, <3>2 DEF Mine, Num
  <2>2. \A w \in Workers, t \in Tasks : At(w, t)' => Mine(t)'
    BY <1>2, <1>3 DEF SafeInv, AllMine
  <2>3. (\A q \in early' : Mine(q)') /\ Len(output') <= sentOut'
    BY <1>1, <1>3 DEF SafeInv, AllMine
  <2> QED BY <2>1, <2>2, <2>3 DEF AllMine
<1>6. Apart'
  BY <1>1, <1>2, <1>4 DEF SafeInv, Apart, Num
<1>7. Chained' /\ OutputIsOwn'
  BY <1>1, <1>2 DEF SafeInv, Chained, OutputIsOwn, Failed
<1> QED BY <1>5, <1>6, <1>7 DEF SafeInv

\* A VAD call has one window under way: its result leaves nothing behind.
LEMMA CollectVadSafe ==
  ASSUME TypeInv, CallInv, EarlyInv, SafeInv, CollectVad
  PROVE  SafeInv'
<1> DEFINE r == Head(resultQ)
<1>1. /\ mode = "vad" /\ sentOut > Len(output) /\ resultQ # <<>> /\ r.kind = "vad"
      /\ vadState' = <<r.from, r.start + 1>>
      /\ output' = Append(output, [call |-> r.from, index |-> r.start])
      /\ TakeResult /\ UNCHANGED <<mode, call, total, sentOut, early, outcome>>
  BY DEF CollectVad
<1>2. /\ 1 \in DOMAIN resultQ /\ r = resultQ[1] /\ Sound(1)
      /\ \A i \in DOMAIN resultQ' : /\ i + 1 \in DOMAIN resultQ /\ i + 1 # 1
                                    /\ resultQ'[i] = resultQ[i + 1]
      /\ \A w, t : At(w, t)' <=> At(w, t)
  BY <1>1, TakenResults DEF Sound
<1>3. r \in VadResults /\ Mine(r)
  <2>1. r \in AllResults
    BY <1>2, CountTypes
  <2> QED BY <1>1, <1>2, <2>1, ResultKinds DEF SafeInv, AllMine
<1> HIDE DEF r
<1>4. sentOut = Len(output) + 1
  BY <1>1, CountTypes DEF CallInv
<1>5. \A u : Item(u) /\ Mine(u) => Num(u) = Len(output)
  BY <1>4, NumTyped, CountTypes DEF Mine
<1>6. r.from = call /\ r.start = Len(output) /\ Num(r) = Len(output)
  <2>1. Item(r)
    BY <1>3, VadResultFields DEF Item
  <2> QED BY <1>1, <1>3, <1>5, <2>1 DEF Mine, Num
<1>7. \A w \in Workers, t \in Tasks : ~ At(w, t)
  BY <1>2, <1>5, <1>6 DEF SafeInv, AllMine, Apart, Item
<1>8. \A i \in DOMAIN resultQ' : ~ Sound(i)'
  <2> SUFFICES ASSUME NEW i \in DOMAIN resultQ', Sound(i)' PROVE FALSE
    OBVIOUS
  <2>1. i + 1 \in DOMAIN resultQ /\ i + 1 # 1 /\ Sound(i + 1)
    BY <1>2 DEF Sound
  <2>2. Num(resultQ[i + 1]) = Len(output)
    BY <1>5, <2>1, CountTypes DEF SafeInv, AllMine, Item, Sound
  <2>3. Num(resultQ[i + 1]) # Num(resultQ[1])
    BY <1>2, <2>1 DEF SafeInv, Apart
  <2> QED BY <1>2, <1>6, <2>2, <2>3
<1>9. early' = {}
  BY <1>1 DEF EarlyInv
<1>10. \A w \in Workers, t \in Tasks : ~ At(w, t)'
  BY <1>2, <1>7
<1>12. output \in Seq(Outputs) /\ Len(output) \in Nat
       /\ [call |-> r.from, index |-> r.start] \in Outputs
  BY <1>3, CountTypes, VadResultFields DEF TypeInv, CallTyped, Outputs
<1>13. /\ Len(output') = Len(output) + 1
       /\ \A i \in 1 .. Len(output) : output'[i] = output[i]
       /\ output'[Len(output) + 1] = [call |-> r.from, index |-> r.start]
       /\ DOMAIN output' = 1 .. Len(output) + 1
  BY <1>1, <1>12, AppendProperties, LenProperties
<1>11. AllMine' /\ Apart'
  BY <1>1, <1>4, <1>8, <1>9, <1>10, <1>13 DEF AllMine, Apart
<1>14. Chained'
  BY <1>1, <1>6, <1>10, <1>13 DEF Chained
<1>15. OutputIsOwn'
  <2> SUFFICES ASSUME ~ Failed, NEW i \in 1 .. Len(output) + 1
               PROVE  output'[i].call = call /\ output'[i].index = i - 1
    BY <1>1, <1>13 DEF OutputIsOwn, Failed
  <2>1. CASE i <= Len(output)
    <3>1. i \in DOMAIN output
      BY <2>1, CountTypes
    <3> QED BY <1>13, <2>1, <3>1, CountTypes DEF SafeInv, OutputIsOwn
  <2>2. CASE i = Len(output) + 1
    BY <1>6, <1>12, <1>13, <2>2
  <2> QED BY <1>12, <2>1, <2>2
<1> QED BY <1>11, <1>14, <1>15 DEF SafeInv

\* No two results of the same index wait for their turn.
LEMMA EarlyStep ==
  ASSUME EarlyInv, [Next]_vars
  PROVE  EarlyInv'
<1>1. CASE CollectWindow
  <2>1. /\ early' \subseteq Inserted(Head(resultQ)) /\ mode' = "whisper"
    BY <1>1 DEF CollectWindow, Collecting
  <2>2. \A p, q \in Inserted(Head(resultQ)) : p.index = q.index => p = q
    BY DEF Inserted, EarlyInv
  <2> QED BY <2>1, <2>2 DEF EarlyInv
<1>2. CASE CallbackFails
  BY <1>2 DEF CallbackFails, EarlyInv
<1>3. CASE \/ \E kind \in {"whisper", "vad"}, n \in 0 .. MaxWindows : BeginCall(kind, n)
           \/ NoWorker \/ CallbackFailed \/ WhisperReturns \/ VadReturns \/ ResultFails
  <2>1. early' = {}
    BY <1>3 DEF BeginCall, NoWorker, CallbackFailed, WhisperReturns, VadReturns,
                ResultFails, Return
  <2> QED BY <2>1 DEF EarlyInv
<1>4. CASE DropPool \/ Joined
  BY <1>4 DEF DropPool, Joined, EarlyInv
<1>5. CASE \/ DispatchWindow \/ DispatchVad \/ SkipResult \/ CollectVad
           \/ (\E w \in Workers : Worker(w)) \/ UNCHANGED vars
  <2>1. UNCHANGED <<early, mode>>
    BY <1>5 DEF DispatchWindow, DispatchVad, HandOut, SkipResult, CollectVad, Worker,
                StopWorker, callVars, vars
  <2> QED BY <2>1 DEF EarlyInv
<1> QED BY <1>1, <1>2, <1>3, <1>4, <1>5 DEF Next, Running

\* Every step keeps what is under way the call's own, until the call fails.
LEMMA OwnStep ==
  ASSUME TypeInv, TokenInv, CallInv, OwnInv, [Next]_vars
  PROVE  OwnInv'
<1> SUFFICES ASSUME ~ Failed' PROVE SafeInv'
  BY EarlyStep DEF OwnInv, SafeInv
<1>0. SafeInv /\ EarlyInv
  BY FailedStays DEF OwnInv, SafeInv
<1> HIDE DEF OwnInv
<1>1. ASSUME NEW kind \in {"whisper", "vad"}, NEW n \in 0 .. MaxWindows,
             BeginCall(kind, n)
      PROVE  SafeInv'
  <2>1. Quiet
    BY <1>0, <1>1, NothingLeft DEF BeginCall, SafeInv
  <2> QED BY <1>1, <2>1, QuietStep DEF BeginCall
<1>2. CASE DropPool \/ Joined
  <2>1. /\ mode \in {"idle", "dropping"} /\ mode' \in {"dropping", "dropped"}
        /\ UNCHANGED <<workerVars, call, total, sentOut, early, output, vadState, outcome>>
    BY <1>2 DEF DropPool, Joined
  <2>2. Quiet
    BY <1>0, <2>1, NothingLeft DEF SafeInv
  <2>3. Quiet' /\ early' = {}
    BY <1>0, <2>1, <2>2 DEF Quiet, At, Sound, workerVars, EarlyInv
  <2>4. AllMine' /\ Apart' /\ Chained'
    BY <1>0, <2>1, <2>3 DEF SafeInv, Quiet, AllMine, Apart, Chained
  <2>5. OutputIsOwn'
    BY <1>0, <2>1 DEF SafeInv, OutputIsOwn, Failed
  <2> QED BY <2>4, <2>5 DEF SafeInv
<1>3. CASE DispatchWindow
  <2>1. WhisperTask \in Tasks /\ HandOut(WhisperTask) /\ mode = "whisper"
    BY <1>3, DispatchedTasks, WhisperFields DEF DispatchWindow, HandOut
  <2>2. WhisperTask.kind = "whisper" /\ WhisperTask.call = call
        /\ Num(WhisperTask) = sentOut
    BY DEF WhisperTask, Num
  <2> QED BY <1>0, <2>1, <2>2, HandOutSafe
<1>4. CASE DispatchVad
  <2>1. VadTask \in Tasks /\ HandOut(VadTask) /\ mode = "vad" /\ sentOut = Len(output)
    BY <1>4, DispatchedTasks, VadTaskFields DEF DispatchVad, VadDue, HandOut
  <2>2. /\ VadTask.kind = "vad" /\ VadTask.from = call /\ VadTask.start = sentOut
        /\ VadTask.state = vadState /\ Num(VadTask) = sentOut
    BY DEF VadTask, Num, State
  <2>3. vadState = <<call, sentOut>>
    BY <1>0, <2>1 DEF SafeInv, Chained
  <2> QED BY <1>0, <2>1, <2>2, <2>3, HandOutSafe
<1>5. CASE NoWorker \/ CallbackFailed \/ ResultFails
  <2>1. mode \in {"whisper", "failing", "vad"} /\ Return("error")
    BY <1>5 DEF NoWorker, CallbackFailed, ResultFails, Collecting
  <2> QED BY <2>1, ErrorFails
<1>6. CASE WhisperReturns \/ VadReturns
  <2>1. /\ Return("done") /\ UNCHANGED <<workerVars, given>> /\ total <= Len(output)
    BY <1>6, CountTypes DEF WhisperReturns, BothDone, VadReturns
  <2>2. sentOut <= Len(output)
    BY <2>1, CountTypes
  <2>3. Quiet
    BY <1>0, <2>2, NothingLeft DEF SafeInv
  <2> QED BY <2>1, <2>3, QuietStep DEF Return
<1>7. CASE SkipResult
  <2>1. /\ resultQ # <<>> /\ Head(resultQ).kind \in {"whisper", "vad"}
        /\ \/ mode = "whisper" /\ Head(resultQ).kind = "vad"
           \/ mode = "vad" /\ Head(resultQ).kind = "whisper"
    BY <1>7 DEF SkipResult, Collecting
  <2>2. Head(resultQ) = resultQ[1] /\ 1 \in DOMAIN resultQ
    BY <2>1, TakeFirst DEF TypeInv
  <2>3. Mine(resultQ[1])
    BY <1>0, <2>1, <2>2 DEF SafeInv, AllMine, Sound
  <2> QED BY <2>1, <2>2, <2>3 DEF Mine
<1>8. CASE CollectWindow
  BY <1>0, <1>8, CollectSafe
<1>9. CASE CallbackFails
  BY <1>0, <1>9, CallbackSafe
<1>10. CASE CollectVad
  BY <1>0, <1>10, CollectVadSafe
<1>11. ASSUME NEW w \in Workers, Worker(w)
       PROVE  SafeInv'
  BY <1>0, <1>11, WorkerSafe
<1>12. CASE UNCHANGED vars
  BY <1>0, <1>12, SameSafe DEF vars, workerVars, callVars, At, Sound
<1> QED BY <1>1, <1>2, <1>3, <1>4, <1>5, <1>6, <1>7, <1>8, <1>9, <1>10, <1>11, <1>12
        DEF Next, Running

-----------------------------------------------------------------------------
(* The theorems. *)

\* The inductive invariant holds initially.
LEMMA InitInv == Init => IInv
<1> SUFFICES ASSUME Init PROVE IInv
  OBVIOUS
<1> USE DEF Init, WorkersInit
<1>1. IsFiniteSet({}) /\ Len(<<>>) = 0 /\ DOMAIN <<>> = {}
  BY FS_EmptySet
<1>2. 0 \in 0 .. MaxCalls /\ 0 \in 0 .. MaxWindows /\ 0 <= MaxWindows /\ 0 <= NPU_WORKERS
  BY MaxTypes, NpuWorkersNat
<1>3. <<>> \in Seq(Workers) /\ <<>> \in Seq(AllResults) /\ <<>> \in Seq(Outputs)
  BY EmptySeq
<1>4. WorkersTyped
  BY <1>1, <1>2, <1>3 DEF WorkersTyped, WorkerPCs, Slots
<1>5. CallTyped
  BY <1>1, <1>2, <1>3 DEF CallTyped, Modes, Stretches
<1>6. TokenInv
  BY <1>1 DEF TokenInv, Announced
<1>7. CallInv
  BY DEF CallInv
<1>8. OwnInv
  <2>1. \A t : <<t>> # <<>>
    OBVIOUS
  <2> QED BY <1>1, <2>1 DEF OwnInv, EarlyInv, AllMine, Apart, Chained, OutputIsOwn, At
<1>9. Numbered
  <2>1. \A t : <<t>> # <<>>
    OBVIOUS
  <2> QED BY <1>1, <2>1 DEF Numbered, At
<1> QED BY <1>4, <1>5, <1>6, <1>7, <1>8, <1>9 DEF IInv, TypeInv

\* Every step keeps the inductive invariant.
LEMMA NextInv == IInv /\ [Next]_vars => IInv'
BY TypeStep, TokenStep, CallStep, NumberedStep, OwnStep DEF IInv

\* The inductive invariant always holds.
LEMMA Invariance == Spec => []IInv
BY InitInv, NextInv, PTL DEF Spec

\* The counts of the property, from where the tokens are.
LEMMA TokensCounted == TypeInv /\ TokenInv => OneTokenPerWorker
<1> SUFFICES ASSUME TypeInv, TokenInv PROVE OneTokenPerWorker
  OBVIOUS
<1>1. \A w \in Workers :
        Len(task[w]) = (IF task[w] = <<>> THEN 0 ELSE 1)
        /\ Len(inbox[w]) = (IF inbox[w] = <<>> THEN 0 ELSE 1)
        /\ workerPC[w] \in WorkerPCs
  BY SlotLength DEF TypeInv, WorkersTyped
<1>2. TypeOK
  <2>1. /\ mode \in Modes /\ call \in 0 .. MaxCalls /\ total \in 0 .. MaxWindows
        /\ sentOut \in 0 .. total /\ Len(output) <= MaxWindows
        /\ readyQ \in Seq(Workers) /\ Len(readyQ) <= NPU_WORKERS
        /\ Len(resultQ) <= NPU_WORKERS
    BY DEF TypeInv, WorkersTyped, CallTyped
  <2>2. \A w \in Workers : Len(task[w]) <= 1 /\ Len(inbox[w]) <= 1
    BY <1>1
  <2> QED BY <1>1, <2>1, <2>2 DEF TypeOK
<1>3. ASSUME NEW w \in Workers, mode \notin {"dropping", "dropped"}
      PROVE  Cardinality({i \in DOMAIN readyQ : readyQ[i] = w})
             + Len(inbox[w]) + Len(task[w])
             = IF workerPC[w] \in {"load", "announce", "stopped"} THEN 0 ELSE 1
  <2> DEFINE places == {i \in DOMAIN readyQ : readyQ[i] = w}
  <2>1. Cardinality(places) = IF Announced(w) THEN 1 ELSE 0
    <3>1. CASE Announced(w)
      <4>1. PICK i \in DOMAIN readyQ : readyQ[i] = w
        BY <3>1 DEF Announced
      <4>2. places = {i}
        BY <4>1 DEF TokenInv
      <4> QED BY <3>1, <4>2, FS_Singleton
    <3>2. CASE ~ Announced(w)
      <4>1. places = {}
        BY <3>2 DEF Announced
      <4> QED BY <3>2, <4>1, FS_EmptySet
    <3> QED BY <3>1, <3>2
  <2> HIDE DEF places
  <2>2. Len(inbox[w]) = (IF inbox[w] = <<>> THEN 0 ELSE 1)
        /\ Len(task[w]) = (IF task[w] = <<>> THEN 0 ELSE 1)
        /\ workerPC[w] \in WorkerPCs
    BY <1>1
  <2>3. /\ task[w] # <<>> <=> workerPC[w] = "run"
        /\ inbox[w] # <<>> => workerPC[w] = "receive"
        /\ Announced(w) => workerPC[w] = "receive" /\ inbox[w] = <<>>
        /\ workerPC[w] = "receive" => Announced(w) \/ inbox[w] # <<>>
    BY <1>3 DEF TokenInv
  <2>4. Cardinality(places) + Len(inbox[w]) + Len(task[w])
        = IF workerPC[w] \in {"load", "announce", "stopped"} THEN 0 ELSE 1
    BY <2>1, <2>2, <2>3 DEF WorkerPCs
  <2> QED BY <2>4 DEF places
<1> QED BY <1>2, <1>3 DEF OneTokenPerWorker

\* However calls end, no worker's announcement is lost or doubled: the ready
\* queue, the inboxes and the tasks hold exactly one token of each worker.
THEOREM TokensKept == Spec => []OneTokenPerWorker
BY Invariance, TokensCounted, PTL DEF IInv

\* Until a call fails, collect_ordered_with_callback and the VAD loop take the
\* windows of their own call, each once and in order.
THEOREM OutputOwn == Spec => []OutputIsOwn
<1>1. IInv => OutputIsOwn
  BY DEF IInv, OwnInv, OutputIsOwn
<1> QED BY <1>1, Invariance, PTL

\* Until a call fails, no VAD window skips or repeats a state of the model.
THEOREM StatesChained == Spec => []VadStateIsChained
<1>1. IInv => VadStateIsChained
  <2> SUFFICES ASSUME IInv, ~ Failed, NEW w \in Workers,
                      NEW t \in ToSet(inbox[w] \o task[w]), t.kind = "vad"
               PROVE  t.state = <<t.from, t.start>>
    BY DEF VadStateIsChained
  <2>1. inbox[w] \in Slots /\ task[w] \in Slots /\ Chained
        /\ (task[w] = <<>> \/ inbox[w] = <<>>)
    BY DEF IInv, TypeInv, WorkersTyped, OwnInv, TokenInv
  <2>2. At(w, t) /\ t \in Tasks
    <3>1. inbox[w] \in Seq(Tasks) /\ task[w] \in Seq(Tasks)
      <4>1. \A u \in Tasks : <<u>> \in Seq(Tasks)
        OBVIOUS
      <4>2. \A s \in Slots : s \in Seq(Tasks)
        BY <4>1, EmptySeq DEF Slots
      <4> QED BY <2>1, <4>2
    <3>2. inbox[w] \o task[w] \in {inbox[w], task[w]}
      BY <2>1, <3>1, ConcatEmptySeq
    <3>3. PICK s \in {inbox[w], task[w]} : t \in ToSet(s)
      BY <3>2
    <3>4. s # <<>> /\ s \in Slots
      BY <2>1, <3>3 DEF ToSet
    <3>5. PICK u \in Tasks : s = <<u>>
      BY <3>4 DEF Slots
    <3>6. t = u
      BY <3>3, <3>5 DEF ToSet
    <3> QED BY <3>3, <3>5, <3>6 DEF At
  <2> QED BY <2>1, <2>2 DEF Chained
<1> QED BY <1>1, Invariance, PTL

-----------------------------------------------------------------------------
(* The pool keeps the promise of a transcription for each of its calls. *)

\* The promise spelt out on the variables of the pool.
PromiseInit ==
    /\ length = [c \in Calls |-> 0]
    /\ Heard  = [c \in Calls |-> [from |-> 0, to |-> 0]]
    /\ Ended  = [c \in Calls |-> "none"]

PromiseAccept(c) ==
    /\ length'[c] > length[c] /\ Ended[c] = "none"
    /\ length' = [length EXCEPT ![c] = length'[c]]
    /\ UNCHANGED <<Heard, Ended>>

PromiseDeliver(c) ==
    /\ Heard'[c].from < Heard'[c].to /\ Heard'[c].to <= length[c]
    /\ Heard'[c].from = Heard[c].to /\ Ended[c] = "none"
    /\ Heard' = [Heard EXCEPT ![c] = Heard'[c]]
    /\ UNCHANGED <<length, Ended>>

PromiseEnd(c) ==
    /\ Ended[c] = "none" /\ Ended'[c] \in {"done", "cancelled", "error"}
    /\ Ended'[c] # "error" => Heard[c].to = length[c]
    /\ Ended' = [Ended EXCEPT ![c] = Ended'[c]]
    /\ UNCHANGED <<length, Heard>>

PromiseStep ==
    \/ \E c \in Calls : PromiseAccept(c) \/ PromiseDeliver(c) \/ PromiseEnd(c)
    \/ UNCHANGED <<length, Heard, Ended>>

\* The two ways to write the promise agree.
LEMMA PromiseUnfolds ==
  /\ PromiseInit <=> Promise!TranscriptionInit
  /\ PromiseStep <=> [Promise!TranscriptionNext]_(Promise!transcriptionVars)
<1>1. PromiseInit <=> Promise!TranscriptionInit
  BY DEF PromiseInit, Promise!TranscriptionInit
<1>2. PromiseStep <=> [Promise!TranscriptionNext]_(Promise!transcriptionVars)
  BY DEF PromiseStep, PromiseAccept, PromiseDeliver, PromiseEnd,
         Promise!TranscriptionNext, Promise!transcriptionVars, Promise!Accept,
         Promise!Deliver, Promise!End
<1> QED BY <1>1, <1>2

\* A step that gives nothing, ends nothing and begins nothing is a stutter.
LEMMA HeardUnchanged ==
  ASSUME UNCHANGED <<given, length, outcome>>
  PROVE  PromiseStep
BY DEF PromiseStep, Heard, Ended

\* The end of a call, with all of its recording heard unless it failed or has
\* had windows of another.
LEMMA ReturnEnds ==
  ASSUME TypeInv, CallInv, mode \in {"whisper", "failing", "vad"},
         NEW how \in {"done", "error"}, Return(how), UNCHANGED given,
         how = "done" /\ given[call].own => given[call].to = length[call]
  PROVE  PromiseStep
<1>1. /\ call \in Calls /\ outcome[call] = "none"
      /\ outcome' = [outcome EXCEPT ![call] = how] /\ UNCHANGED length
      /\ outcome \in [Calls -> {"none", "done", "error"}]
  BY DEF CallInv, Return, TypeInv, CallTyped
<1>2. UNCHANGED Heard
  BY DEF Heard
<1>3. outcome'[call] = how /\ \A c \in Calls : c # call => outcome'[c] = outcome[c]
  BY <1>1
<1>4. Ended[call] = "none" /\ Ended'[call] = IF given[call].own THEN how ELSE "error"
  BY <1>1, <1>3 DEF Ended
<1>5. \A c \in Calls : c # call => Ended'[c] = Ended[c]
  BY <1>3 DEF Ended
<1>6. Ended' = [Ended EXCEPT ![call] = Ended'[call]]
  <2>1. Ended = [c \in Calls |-> Ended[c]] /\ Ended' = [c \in Calls |-> Ended'[c]]
    BY DEF Ended
  <2> HIDE DEF Ended
  <2> QED BY <1>1, <1>5, <2>1
<1>7. Heard[call].to = given[call].to
  BY <1>1 DEF Heard
<1>8. PromiseEnd(call)
  BY <1>1, <1>2, <1>4, <1>6, <1>7 DEF PromiseEnd
<1> QED BY <1>1, <1>8 DEF PromiseStep

\* The windows given to on_segment follow those given before, or are no longer
\* counted.
LEMMA StretchIsDelivered ==
  ASSUME TypeInv, CallInv, Collecting,
         NEW ready, NEW k \in Nat, Given(ready, k), UNCHANGED <<length, outcome>>,
         k # 0 => /\ ready[1].index = Len(output)
                  /\ ready[k].index = Len(output) + k - 1
                  /\ ready[k].call = call => ready[k].index < total
  PROVE  PromiseStep
<1>1. /\ call \in Calls /\ outcome[call] = "none" /\ length[call] = total
      /\ given[call].own => given[call].to = Len(output)
      /\ Len(output) \in Nat /\ total \in Nat
      /\ given \in [Calls -> Stretches]
  BY CountTypes DEF CallInv, Collecting, TypeInv, CallTyped
<1>2. /\ \A c \in Calls : c # call => given'[c] = given[c]
      /\ k # 0 /\ given[call].own /\ AllOwn(ready, k) =>
           given'[call] = [from |-> ready[1].index, to |-> ready[k].index + 1,
                           own |-> TRUE]
      /\ k # 0 /\ ~ (given[call].own /\ AllOwn(ready, k)) =>
           /\ given'[call].own = FALSE /\ given'[call].from = given[call].from
           /\ given'[call].to = given[call].to
  BY <1>1, GivenFields
<1>3. Ended' = Ended
  <2>1. \A c \in Calls : Ended'[c] = Ended[c]
    BY <1>1, <1>2 DEF Ended
  <2>2. Ended = [c \in Calls |-> Ended[c]] /\ Ended' = [c \in Calls |-> Ended'[c]]
    BY DEF Ended
  <2> HIDE DEF Ended
  <2> QED BY <2>1, <2>2
<1>4. \A c \in Calls : c # call => Heard'[c] = Heard[c]
  BY <1>2 DEF Heard
<1>5. /\ Heard[call] = [from |-> given[call].from, to |-> given[call].to]
      /\ Heard'[call] = [from |-> given'[call].from, to |-> given'[call].to]
  BY <1>1 DEF Heard
<1>6. Heard = [c \in Calls |-> Heard[c]] /\ Heard' = [c \in Calls |-> Heard'[c]]
  BY DEF Heard
<1>7. CASE k = 0
  BY <1>7, HeardUnchanged DEF Given
<1>8. CASE k # 0 /\ given[call].own /\ AllOwn(ready, k)
  <2>1. ready[k].call = call
    BY <1>8 DEF AllOwn
  <2>2. ready[k].index + 1 = Len(output) + k /\ Len(output) + k <= total
    BY <1>1, <1>8, <2>1
  <2>3. given'[call].from = Len(output) /\ given'[call].to = Len(output) + k
    BY <1>2, <1>8, <2>2
  <2>4. Heard'[call].from = Len(output) /\ Heard'[call].to = Len(output) + k
    BY <1>5, <2>3
  <2>5. Heard[call].to = Len(output)
    BY <1>1, <1>5, <1>8
  <2>6. Heard' = [Heard EXCEPT ![call] = Heard'[call]]
    BY <1>1, <1>4, <1>6
  <2>7. Ended[call] = "none"
    BY <1>1 DEF Ended
  <2>8. PromiseDeliver(call)
    BY <1>1, <1>3, <1>8, <2>2, <2>4, <2>5, <2>6, <2>7 DEF PromiseDeliver
  <2> QED BY <1>1, <2>8 DEF PromiseStep
<1>9. CASE k # 0 /\ ~ (given[call].own /\ AllOwn(ready, k))
  <2>1. Heard'[call] = Heard[call]
    BY <1>2, <1>5, <1>9
  <2>2. Heard' = Heard
    BY <1>4, <1>6, <2>1
  <2> QED BY <1>3, <2>2 DEF PromiseStep
<1> QED BY <1>7, <1>8, <1>9

\* Every step is one of the promise or a stutter.
LEMMA StepIsPromised ==
  ASSUME TypeInv, CallInv, Numbered, [Next]_vars
  PROVE  PromiseStep
<1>0. /\ call \in 0 .. MaxCalls /\ MaxCalls \in Nat
      /\ given \in [Calls -> Stretches]
      /\ length \in [Calls -> 0 .. MaxWindows]
  BY MaxTypes DEF TypeInv, CallTyped
<1>1. ASSUME NEW kind \in {"whisper", "vad"}, NEW n \in 0 .. MaxWindows,
             BeginCall(kind, n)
      PROVE  PromiseStep
  <2>1. /\ length' = [length EXCEPT ![call + 1] = IF kind = "whisper" THEN n ELSE 0]
        /\ UNCHANGED <<given, outcome>> /\ call < MaxCalls
    BY <1>1 DEF BeginCall
  <2>2. call + 1 \in Calls /\ call + 1 > call
    BY <1>0, <2>1 DEF Calls
  <2>3. outcome[call + 1] = "none" /\ length[call + 1] = 0
    BY <2>2 DEF CallInv
  <2>4. CASE kind = "whisper" /\ n > 0
    <3>1. length'[call + 1] = n /\ \A c \in Calls : c # call + 1 => length'[c] = length[c]
      BY <1>0, <2>1, <2>2, <2>4
    <3>2. length' = [length EXCEPT ![call + 1] = length'[call + 1]]
      BY <2>1, <2>4, <3>1
    <3>3. Heard' = Heard /\ Ended' = Ended
      BY <2>1 DEF Heard, Ended
    <3>4. Ended[call + 1] = "none"
      BY <2>2, <2>3 DEF Ended
    <3>5. length'[call + 1] > length[call + 1]
      BY <2>3, <2>4, <3>1
    <3>6. PromiseAccept(call + 1)
      BY <3>2, <3>3, <3>4, <3>5 DEF PromiseAccept
    <3> QED BY <2>2, <3>6 DEF PromiseStep
  <2>5. CASE ~ (kind = "whisper" /\ n > 0)
    <3>0. (IF kind = "whisper" THEN n ELSE 0) = 0
      BY <2>5, MaxTypes
    <3>1. length' = [length EXCEPT ![call + 1] = 0]
      BY <2>1, <3>0
    <3>2. length' = length
      BY <1>0, <2>2, <2>3, <3>1
    <3> QED BY <2>1, <3>2, HeardUnchanged
  <2> QED BY <2>4, <2>5
<1>2. CASE NoWorker \/ CallbackFailed \/ ResultFails
  <2>1. /\ mode \in {"whisper", "failing", "vad"} /\ Return("error") /\ UNCHANGED given
    BY <1>2 DEF NoWorker, CallbackFailed, ResultFails, Collecting
  <2> QED BY <2>1, ReturnEnds
<1>3. CASE WhisperReturns \/ VadReturns
  <2>1. /\ mode \in {"whisper", "vad"} /\ Return("done") /\ UNCHANGED given
    BY <1>3 DEF WhisperReturns, VadReturns
  <2>2. given[call].own => given[call].to = length[call]
    <3>1. CASE WhisperReturns
      BY <3>1, CountTypes DEF WhisperReturns, BothDone, CallInv
    <3>2. CASE VadReturns
      BY <3>2 DEF VadReturns, CallInv
    <3> QED BY <1>3, <3>1, <3>2
  <2> QED BY <2>1, <2>2, ReturnEnds
<1>4. CASE CollectWindow
  <2> DEFINE ready == InOrder(Inserted(Head(resultQ)))
  <2>1. Collecting /\ Given(ready, Len(ready)) /\ UNCHANGED <<length, outcome>>
    BY <1>4 DEF CollectWindow
  <2>2. /\ Len(ready) \in Nat /\ Len(output) \in Nat
        /\ \A k \in 1 .. Len(ready) : ready[k].index = Len(output) + k - 1
        /\ \A k \in 1 .. Len(ready) : ready[k].call = call => ready[k].index < total
    BY <1>4, CollectTypes, ReadyHandedOut DEF CollectWindow
  <2> HIDE DEF ready
  <2>3. Len(ready) # 0 => /\ ready[1].index = Len(output)
                          /\ ready[Len(ready)].index = Len(output) + Len(ready) - 1
                          /\ ready[Len(ready)].call = call =>
                               ready[Len(ready)].index < total
    <3>1. ASSUME Len(ready) # 0
          PROVE  1 \in 1 .. Len(ready) /\ Len(ready) \in 1 .. Len(ready)
                 /\ Len(output) + 1 - 1 = Len(output)
      BY <2>2, <3>1
    <3> QED BY <2>2, <3>1
  <2> QED BY <2>1, <2>2, <2>3, StretchIsDelivered
<1>5. CASE CallbackFails
  <2> DEFINE ready == InOrder(Inserted(Head(resultQ)))
  <2>1. Collecting /\ UNCHANGED <<length, outcome>>
        /\ \E k \in DOMAIN ready : Given(ready, k - 1)
    BY <1>5 DEF CallbackFails
  <2>2. /\ Len(ready) \in Nat /\ Len(output) \in Nat /\ DOMAIN ready = 1 .. Len(ready)
        /\ \A k \in 1 .. Len(ready) : ready[k].index = Len(output) + k - 1
        /\ \A k \in 1 .. Len(ready) : ready[k].call = call => ready[k].index < total
    BY <1>5, CollectTypes, ReadyHandedOut DEF CallbackFails
  <2> HIDE DEF ready
  <2>3. PICK k \in 1 .. Len(ready) : Given(ready, k - 1)
    BY <2>1, <2>2
  <2>4. k - 1 \in Nat
    BY <2>2
  <2>5. k - 1 # 0 => /\ ready[1].index = Len(output)
                     /\ ready[k - 1].index = Len(output) + (k - 1) - 1
                     /\ ready[k - 1].call = call => ready[k - 1].index < total
    <3>1. ASSUME k - 1 # 0
          PROVE  1 \in 1 .. Len(ready) /\ k - 1 \in 1 .. Len(ready)
                 /\ Len(output) + 1 - 1 = Len(output)
      BY <2>2, <3>1
    <3> QED BY <2>2, <3>1
  <2> QED BY <2>1, <2>3, <2>4, <2>5, StretchIsDelivered
<1>6. CASE \/ DropPool \/ Joined \/ DispatchWindow \/ DispatchVad \/ SkipResult
           \/ CollectVad \/ (\E w \in Workers : Worker(w)) \/ UNCHANGED vars
  <2>1. UNCHANGED <<given, length, outcome>>
    BY <1>6 DEF DropPool, Joined, DispatchWindow, DispatchVad, HandOut, SkipResult,
                CollectVad, Worker, StopWorker, callVars, vars
  <2> QED BY <2>1, HeardUnchanged
<1> QED BY <1>1, <1>2, <1>3, <1>4, <1>5, <1>6 DEF Next, Running

\* Whatever happens on the pool, each call whose results are all of its own
\* recording hands the text of successive windows of it to on_segment and returns
\* Ok only when it has given all of them.
THEOREM PoolImplementsPromise == Spec => ImplementsPromise
<1>1. Init => PromiseInit
  BY DEF Init, PromiseInit, Heard, Ended
<1>2. IInv /\ [Next]_vars => PromiseStep
  BY StepIsPromised DEF IInv
<1> QED BY <1>1, <1>2, PromiseUnfolds, Invariance, PTL
        DEF Spec, ImplementsPromise, Promise!TranscriptionSpec
=============================================================================
