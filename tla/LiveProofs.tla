------------------------------ MODULE LiveProofs -----------------------------
(***************************************************************************)
(* The live scheduler for every number of sessions, workers and jobs and   *)
(* every size of its queues.                                               *)
(***************************************************************************)
EXTENDS LiveProperties, VadProofs

-----------------------------------------------------------------------------
(* The values of the variables. *)

Ids == Nat \ {0}
WhisperTasks == [kind : {"whisper"}, job : Ids, index : Nat, begin : Nat,
                 session : Sessions, from : Nat, to : Nat]
VadTasks     == [kind : {"vad"}, job : Ids, start : Nat, from : Nat]
Tasks        == WhisperTasks \cup VadTasks
VadResults   == [kind : {"vad"}, job : Ids, start : Nat, from : Nat,
                 speech : BOOLEAN]
ErrorResults == [kind : {"error"}, job : Nat]
AllResults   == WhisperTasks \cup VadResults \cup ErrorResults
Slots        == {<<>>} \cup {<<t>> : t \in Tasks}

Texts     == [kind : {"segment"}, session : Sessions, begin : Nat, from : Nat,
              to : Nat]
Speeches  == [kind : {"speech"}, at : Nat]
Ends      == [kind : {"finished"}, ok : BOOLEAN, dispatched : Nat, completed : Nat]
Responses == Texts \cup Speeches \cup Ends
Messages  == [to : {"session"}, session : Sessions, response : Responses]
             \cup [to : {"worker"}, worker : Workers, task : Tasks]

Hearings == [from : Nat, upTo : Nat, speech : Nat]

Jobs == [id : Ids, session : Sessions, len : Nat, offset : Nat, closed : BOOLEAN,
         vadDone : Nat, vadBusy : BOOLEAN, probs : Seq(Probs),
         inFlight : Nat, nextWindow : Nat, completed : Nat,
         pending : SUBSET WhisperTasks, nextResult : Nat]

SessionsTyped ==
    /\ phase \in [Sessions -> Phases] /\ reader \in [Sessions -> Readers]
    /\ final \in [Sessions -> Finals] /\ sent \in [Sessions -> 0 .. MaxChunks]
    /\ chunkQ \in [Sessions -> Seq({"audio", "error"})]
    /\ \A s \in Sessions : Len(chunkQ[s]) <= ChunkQueue
    /\ respQ \in [Sessions -> Seq(Responses)]
    /\ \A s \in Sessions : Len(respQ[s]) <= ResponseQueue
    /\ heard \in [Sessions -> Hearings]
    /\ jobQ \in Seq(Sessions) /\ Len(jobQ) <= JobQueue
    /\ \A s \in Sessions : /\ reader[s] = "sending" => sent[s] < MaxChunks
                           /\ reader[s] = "none" => phase[s] \in {"new", "refused", "gone"}

WorkersTyped ==
    /\ workerPC \in [Workers -> WorkerPCs]
    /\ task \in [Workers -> Slots] /\ inbox \in [Workers -> Slots]
    /\ readyQ \in Seq(Workers) /\ Len(readyQ) <= NPU_WORKERS
    /\ resultQ \in Seq(AllResults) /\ Len(resultQ) <= NPU_WORKERS

SchedulerTyped ==
    /\ pc \in PCs /\ at \in 1 .. MaxActive + 1
    /\ active \in Seq(Jobs) /\ Len(active) <= MaxActive
    /\ nextId \in Ids /\ cursor \in 0 .. MaxActive
    /\ outbox \in Seq(Messages)

TypeInv == SessionsTyped /\ WorkersTyped /\ SchedulerTyped

-----------------------------------------------------------------------------
(* The inductive invariant. *)

\* What a job knows of itself: the decisions cover a prefix of its buffer, and
\* the results that wait are windows it has dispatched and not delivered, each
\* of them once.
JobOK(job) ==
    /\ Decisions(job.len, job.probs)
    /\ \A i \in DOMAIN job.probs : job.probs[i].start < job.vadDone
    /\ job.vadDone <= job.len \/ (job.closed /\ job.len = 0)
    /\ job.nextResult <= job.nextWindow
    /\ IsFiniteSet(job.pending)
    /\ \A q \in job.pending : /\ q.session = job.session
                              /\ job.nextResult < q.index /\ q.index < job.nextWindow
    /\ \A p, q \in job.pending : p.index = q.index => p = q

JobsOK == \A i \in DOMAIN active : JobOK(active[i])

\* Announcements and tasks: a worker that waits is announced, or is being given
\* a task, or has one in its inbox.
Announced(w) == \E i \in DOMAIN readyQ : readyQ[i] = w
ForWorker(i) == outbox[i].to = "worker"
Posted(w)    == \E i \in DOMAIN outbox : ForWorker(i) /\ outbox[i].worker = w

TokenInv ==
    /\ \A i, j \in DOMAIN readyQ : readyQ[i] = readyQ[j] => i = j
    /\ \A i \in DOMAIN outbox : ForWorker(i) => i = Len(outbox)
    /\ \A w \in Workers :
        /\ task[w] # <<>> <=> workerPC[w] = "run"
        /\ inbox[w] # <<>> => workerPC[w] = "receive" /\ ~Posted(w)
        /\ Announced(w) => workerPC[w] = "receive" /\ inbox[w] = <<>> /\ ~Posted(w)
        /\ Posted(w) => workerPC[w] = "receive"
        /\ workerPC[w] = "receive" => Announced(w) \/ Posted(w) \/ inbox[w] # <<>>

\* Jobs and sessions are told apart by their ids and belong together.
Queued(s)   == \E k \in DOMAIN jobQ : jobQ[k] = s
Active(s)   == \E i \in DOMAIN active : active[i].session = s
ToldOf(i, s) == outbox[i].to = "session" /\ outbox[i].session = s

IdInv ==
    /\ \A i \in DOMAIN active : active[i].id < nextId
    /\ \A i, j \in DOMAIN active :
        i # j => active[i].id # active[j].id /\ active[i].session # active[j].session
    /\ \A i, j \in DOMAIN jobQ : jobQ[i] = jobQ[j] => i = j
    /\ \A k \in DOMAIN jobQ : ~Active(jobQ[k])
    /\ pc = "idle" => active = <<>>
    /\ \A o \in Outstanding : o.item.job < nextId

\* Where a session is: before its job, with it, and after it.
Fresh(s) ==
    /\ heard[s] = [from |-> 0, upTo |-> 0, speech |-> 0] /\ respQ[s] = <<>>
    /\ ~Active(s)
    /\ \A i \in DOMAIN outbox : ~ToldOf(i, s)

PhaseInv ==
    \A s \in Sessions :
        /\ phase[s] \in {"new", "refused"} =>
            /\ reader[s] = "none" /\ sent[s] = 0 /\ chunkQ[s] = <<>>
            /\ final[s] = "none" /\ Fresh(s) /\ ~Queued(s)
        /\ Queued(s) => Fresh(s)
        /\ phase[s] \in {"live", "gone"} => final[s] = "none"
        /\ phase[s] = "joining" => final[s] \in {"ok", "err"}
        /\ phase[s] = "ended" => final[s] \in {"done", "cancelled", "error"} /\ ~Reading(s)
        /\ ~Listening(s) => respQ[s] = <<>>

\* Audio between a reader and its job.
Audio(s) == Cardinality({k \in DOMAIN chunkQ[s] : chunkQ[s][k] = "audio"})

AudioInv ==
    /\ \A s \in Sessions :
        /\ Queued(s) => Audio(s) = sent[s]
        /\ \A k \in DOMAIN chunkQ[s] : chunkQ[s][k] = "error" => reader[s] = "failed"
    /\ \A i \in DOMAIN active :
        LET job == active[i] IN
        /\ job.offset + job.len + Audio(job.session) = sent[job.session]
        /\ job.closed => /\ ~Reading(job.session)
                         /\ reader[job.session] # "failed" => chunkQ[job.session] = <<>>

\* What the workers have of a job.
Whisper(o) == o.item.kind = "whisper"
Vad(o)     == o.item.kind = "vad"

WhisperOwn(job, t) ==
    /\ t.session = job.session
    /\ job.nextResult <= t.index /\ t.index < job.nextWindow
    /\ \A q \in job.pending : q.index # t.index

VadOwn(job, t) ==
    /\ job.vadBusy /\ t.start = job.vadDone /\ t.start < job.len
    /\ t.from = job.offset + t.start

Sized(t) ==
    /\ t.begin = t.from /\ t.from < t.to /\ t.to - t.from <= WindowLen
    /\ t.to <= sent[t.session]

Suits(job, os) ==
    /\ \A o \in os : /\ Whisper(o) => WhisperOwn(job, o.item)
                     /\ Vad(o) => VadOwn(job, o.item)
    /\ \A o, p \in os :
        /\ Whisper(o) /\ Whisper(p) /\ o.item.index = p.item.index => o = p
        /\ Vad(o) /\ Vad(p) => o = p

WorkInv ==
    /\ IsFiniteSet(Outstanding)
    /\ \A o \in Outstanding : Whisper(o) => Sized(o.item)
    /\ \A i \in DOMAIN active :
        /\ \A q \in active[i].pending : Sized(q)
        /\ Suits(active[i], OutstandingFor(active[i]))

\* What is counted is there.
Counts(job, os) ==
    /\ job.inFlight + (IF job.vadBusy THEN 1 ELSE 0) = Cardinality(os)
    /\ job.vadBusy => \E o \in os : ~Whisper(o)

CountInv ==
    pc # "clear" => \A i \in DOMAIN active :
                        Counts(active[i], OutstandingFor(active[i]))

\* A session without a job has been told, or will be by what is in the outbox.
Finishes(r) == r.kind = "finished"
Ending(s) == \/ \E i \in DOMAIN respQ[s] : Finishes(respQ[s][i])
             \/ \E i \in DOMAIN outbox : ToldOf(i, s) /\ Finishes(outbox[i].response)

EndInv ==
    /\ \A s \in Sessions : phase[s] = "live" => Queued(s) \/ Active(s) \/ Ending(s)
    /\ pc = "clear" => \A i \in DOMAIN active :
        phase[active[i].session] = "live" => Ending(active[i].session)

\* The first of a queue, and what is left after it.
LEMMA Taken ==
  ASSUME NEW S, NEW q \in Seq(S), q # <<>>
  PROVE  /\ Head(q) = q[1] /\ Head(q) \in S /\ 1 \in DOMAIN q
         /\ Tail(q) \in Seq(S) /\ Len(Tail(q)) = Len(q) - 1
         /\ DOMAIN q = 1 .. Len(q) /\ Len(q) \in Nat \ {0}
         /\ DOMAIN Tail(q) = 1 .. Len(q) - 1
         /\ \A i \in DOMAIN Tail(q) : i + 1 \in DOMAIN q /\ Tail(q)[i] = q[i + 1]
<1>1. Len(q) \in Nat \ {0}
  BY EmptySeq
<1>2. /\ Head(q) = q[1] /\ Head(q) \in S
      /\ Tail(q) \in Seq(S) /\ Len(Tail(q)) = Len(q) - 1
      /\ \A i \in 1 .. Len(Tail(q)) : Tail(q)[i] = q[i + 1]
  BY HeadTailProperties
<1>3. DOMAIN q = 1 .. Len(q) /\ DOMAIN Tail(q) = 1 .. Len(q) - 1
  BY <1>1, <1>2, LenProperties
<1> QED BY <1>1, <1>2, <1>3

\* What comes last in a queue.
LEMMA Put ==
  ASSUME NEW S, NEW q \in Seq(S), NEW e \in S
  PROVE  /\ Append(q, e) \in Seq(S) /\ Len(Append(q, e)) = Len(q) + 1
         /\ DOMAIN Append(q, e) = 1 .. Len(q) + 1
         /\ DOMAIN q = 1 .. Len(q) /\ Len(q) \in Nat
         /\ \A i \in DOMAIN q : Append(q, e)[i] = q[i]
         /\ Append(q, e)[Len(q) + 1] = e
         /\ Append(q, e) # <<>>
<1>1. Len(q) \in Nat /\ DOMAIN q = 1 .. Len(q)
  BY LenProperties
<1>2. /\ Append(q, e) \in Seq(S) /\ Len(Append(q, e)) = Len(q) + 1
      /\ \A i \in 1 .. Len(q) : Append(q, e)[i] = q[i]
      /\ Append(q, e)[Len(q) + 1] = e
  BY <1>1, AppendProperties
<1>3. DOMAIN Append(q, e) = 1 .. Len(q) + 1
  BY <1>2, LenProperties
<1>4. Append(q, e) # <<>>
  BY <1>1, <1>2, EmptySeq
<1> QED BY <1>1, <1>2, <1>3, <1>4

\* A function on a first stretch of the numbers is a sequence.
LEMMA SeqOf ==
  ASSUME NEW S, NEW n \in Nat, NEW f \in [1 .. n -> S]
  PROVE  f \in Seq(S) /\ Len(f) = n /\ DOMAIN f = 1 .. n
<1>1. f \in Seq(S) /\ DOMAIN f = 1 .. n
  BY SeqDef
<1> QED BY <1>1, LenProperties

\* A sequence of one.
LEMMA Single ==
  ASSUME NEW S, NEW e \in S
  PROVE  <<e>> \in Seq(S) /\ Len(<<e>>) = 1 /\ DOMAIN <<e>> = 1 .. 1 /\ <<e>>[1] = e
<1>1. <<e>> \in [1 .. 1 -> S]
  OBVIOUS
<1> QED BY <1>1, SeqOf

\* A queue with another element at one of its places.
LEMMA Exchanged ==
  ASSUME NEW S, NEW q \in Seq(S), NEW k \in DOMAIN q, NEW e \in S
  PROVE  /\ [q EXCEPT ![k] = e] \in Seq(S) /\ Len([q EXCEPT ![k] = e]) = Len(q)
         /\ DOMAIN [q EXCEPT ![k] = e] = DOMAIN q
         /\ [q EXCEPT ![k] = e][k] = e
         /\ \A i \in DOMAIN q : i # k => [q EXCEPT ![k] = e][i] = q[i]
<1>1. k \in 1 .. Len(q)
  BY LenProperties
<1>2. [q EXCEPT ![k] = e] \in Seq(S) /\ Len([q EXCEPT ![k] = e]) = Len(q)
  BY <1>1, ExceptSeq
<1> QED BY <1>2

-----------------------------------------------------------------------------
(* The elements that Kept keeps. *)

\* f holds the elements of s at the places in kept up to n; place says where
\* each is from.
Picks(f, place, s, kept, n) ==
    /\ place \in [1 .. Len(f) -> 1 .. n] /\ Len(f) <= n
    /\ \A k \in 1 .. Len(f) : place[k] \in kept /\ f[k] = s[place[k]]
    /\ \A j, k \in 1 .. Len(f) : j < k => place[j] < place[k]
    /\ \A i \in 1 .. n : i \in kept => \E k \in 1 .. Len(f) : place[k] = i

KeptRound(f, s, kept, i) == IF i \in kept THEN Append(f, s[i]) ELSE f

\* One element more, taken or left.
LEMMA PicksOneMore ==
  ASSUME NEW S, NEW s \in Seq(S), NEW kept, NEW i \in 1 .. Len(s),
         NEW f \in Seq(S), NEW place, Picks(f, place, s, kept, i - 1)
  PROVE  /\ KeptRound(f, s, kept, i) \in Seq(S)
         /\ \E p : Picks(KeptRound(f, s, kept, i), p, s, kept, i)
<1>1. Len(f) \in Nat /\ Len(s) \in Nat /\ i \in Nat /\ s[i] \in S
  BY LenProperties, ElementOfSeq
<1>2. CASE i \notin kept
  <2>1. place \in [1 .. Len(f) -> 1 .. i] /\ Len(f) <= i
    <3>1. place \in [1 .. Len(f) -> 1 .. i - 1] /\ Len(f) <= i - 1
      BY DEF Picks
    <3> QED BY <3>1, <1>1
  <2>2. ASSUME NEW h \in 1 .. i, h \in kept PROVE \E k \in 1 .. Len(f) : place[k] = h
    <3>1. h \in 1 .. i - 1
      BY <2>2, <1>1, <1>2
    <3> QED BY <3>1, <2>2 DEF Picks
  <2>3. Picks(f, place, s, kept, i)
    BY <2>1, <2>2 DEF Picks
  <2> QED BY <2>3, <1>2 DEF KeptRound
<1>3. CASE i \in kept
  <2> DEFINE g == Append(f, s[i])
             n == Len(f) + 1
             p == [k \in 1 .. n |-> IF k = n THEN i ELSE place[k]]
  <2>1. /\ g \in Seq(S) /\ Len(g) = n /\ g[n] = s[i]
        /\ \A k \in 1 .. Len(f) : g[k] = f[k]
    BY <1>1, AppendProperties
  <2>2. n \in Nat /\ n <= i /\ n = Len(f) + 1
    BY <1>1 DEF Picks
  <2>12. \A k \in 1 .. Len(f) : k # n /\ k \in 1 .. n
    BY <1>1
  <2>13. \A k \in 1 .. Len(f) : p[k] = place[k]
    <3> HIDE DEF n
    <3> QED BY <2>12
  <2>14. \A k \in 1 .. Len(f) : place[k] \in 1 .. i - 1 /\ place[k] \in kept /\ f[k] = s[place[k]]
    BY DEF Picks
  <2>3. \A k \in 1 .. Len(f) : p[k] = place[k] /\ place[k] \in 1 .. i - 1
                               /\ place[k] \in kept /\ f[k] = s[place[k]]
    BY <2>13, <2>14
  <2>4. p[n] = i
    BY <2>2
  <2>5. p \in [1 .. n -> 1 .. i]
    <3>1. ASSUME NEW k \in 1 .. n
          PROVE  (IF k = n THEN i ELSE place[k]) \in 1 .. i
      <4>1. k = n \/ k \in 1 .. Len(f)
        BY <2>2, <1>1
      <4>2. i \in 1 .. i /\ \A m \in 1 .. i - 1 : m \in 1 .. i
        BY <1>1
      <4> QED BY <4>1, <4>2, <2>14
    <3> QED BY <3>1
  <2> HIDE DEF g, p, n
  <2>6. \A k \in 1 .. n : k = n \/ k \in 1 .. Len(f)
    BY <2>2, <1>1
  <2>7. \A k \in 1 .. n : p[k] \in kept /\ g[k] = s[p[k]]
    BY <2>1, <2>3, <2>4, <2>6, <1>3
  <2>8. ASSUME NEW j \in 1 .. n, NEW k \in 1 .. n, j < k PROVE p[j] < p[k]
    <3>1. j \in 1 .. Len(f)
      BY <2>8, <2>2, <1>1
    <3>2. CASE k = n
      BY <3>1, <3>2, <2>3, <2>4, <1>1
    <3>3. CASE k # n
      <4>1. k \in 1 .. Len(f)
        BY <3>3, <2>6
      <4>2. place[j] < place[k]
        BY <3>1, <4>1, <2>8 DEF Picks
      <4> QED BY <3>1, <4>1, <4>2, <2>3
    <3> QED BY <3>2, <3>3
  <2>9. ASSUME NEW h \in 1 .. i, h \in kept PROVE \E k \in 1 .. n : p[k] = h
    <3>1. CASE h = i
      BY <3>1, <2>2, <2>4, <1>1
    <3>2. CASE h # i
      <4>1. h \in 1 .. i - 1
        BY <3>2, <1>1
      <4>2. PICK k \in 1 .. Len(f) : place[k] = h
        BY <4>1, <2>9 DEF Picks
      <4>3. k \in 1 .. n
        BY <2>2, <1>1
      <4> QED BY <4>2, <4>3, <2>3
    <3> QED BY <3>1, <3>2
  <2>10. Picks(g, p, s, kept, i)
    BY <2>1, <2>2, <2>5, <2>7, <2>8, <2>9 DEF Picks
  <2>11. KeptRound(f, s, kept, i) = g
    BY <1>3 DEF KeptRound, g
  <2> QED BY <2>1, <2>10, <2>11
<1> QED BY <1>2, <1>3

\* Kept keeps what it says, in order.
LEMMA KeptPicks ==
  ASSUME NEW S, NEW s \in Seq(S), NEW kept
  PROVE  /\ Kept(s, kept) \in Seq(S)
         /\ \E place : Picks(Kept(s, kept), place, s, kept, Len(s))
<1> DEFINE n == Len(s)
           step == [i \in 1 .. n |-> [f \in Seq(S) |-> KeptRound(f, s, kept, i)]]
           F(f) == [i \in 0 .. n |-> IF i = 0 THEN <<>>
                                     ELSE IF i \in kept THEN Append(f[i - 1], s[i])
                                          ELSE f[i - 1]]
           upTo == CHOOSE f : f = F(f)
<1>1. n \in Nat /\ \A i \in 1 .. n : s[i] \in S
  BY LenProperties
<1>2. <<>> \in Seq(S)
  BY EmptySeq
<1>3. \A i \in 1 .. n : \A f \in Seq(S) : KeptRound(f, s, kept, i) \in Seq(S)
  BY <1>1, AppendProperties DEF KeptRound
<1>4. step \in Rounds(n, Seq(S))
  BY <1>3 DEF Rounds
<1>5. PICK f : IsLoop(f, n, Seq(S), <<>>, step)
  <2> HIDE DEF n, step
  <2> QED BY <1>1, <1>2, <1>4, LoopExists
<1>6. ASSUME NEW i \in 1 .. n PROVE f[i] = KeptRound(f[i - 1], s, kept, i)
  <2>1. f[i] = step[i][f[i - 1]] /\ f[i - 1] \in Seq(S)
    <3> HIDE DEF step
    <3> QED BY <1>5, <1>1, SMTT(30) DEF IsLoop
  <2> QED BY <2>1
<1>7. f = F(f)
  <2> HIDE DEF step
  <2>1. f \in [0 .. n -> Seq(S)] /\ f[0] = <<>>
    BY <1>5 DEF IsLoop
  <2>2. \A i \in 0 .. n : i # 0 => i \in 1 .. n
    BY <1>1
  <2>3. \A i \in 0 .. n : f[i] = (IF i = 0 THEN <<>>
                                  ELSE IF i \in kept THEN Append(f[i - 1], s[i])
                                       ELSE f[i - 1])
    BY <2>1, <2>2, <1>6 DEF KeptRound
  <2> QED BY <2>1, <2>3
<1>8. upTo = F(upTo)
  BY <1>7
<1> DEFINE D == {i \in 0 .. n : /\ upTo[i] \in Seq(S)
                                /\ \E p : Picks(upTo[i], p, s, kept, i)}
<1> HIDE DEF upTo
<1>9. 0 \in D
  <2>1. upTo[0] = <<>> /\ Len(<<>>) = 0
    BY <1>1, <1>8
  <2>2. Picks(<<>>, <<>>, s, kept, 0)
    BY <2>1 DEF Picks
  <2>3. 0 \in 0 .. n /\ upTo[0] \in Seq(S) /\ \E p : Picks(upTo[0], p, s, kept, 0)
    BY <2>1, <2>2, <1>1, <1>2
  <2> QED BY <2>3
<1>10. ASSUME NEW i \in 1 .. n, i - 1 \in D PROVE i \in D
  <2>1. upTo[i] = KeptRound(upTo[i - 1], s, kept, i)
    <3>1. i \in 0 .. n /\ i # 0
      BY <1>1
    <3> HIDE DEF n
    <3> QED BY <1>8, <3>1 DEF KeptRound
  <2>2. upTo[i - 1] \in Seq(S) /\ \E p : Picks(upTo[i - 1], p, s, kept, i - 1)
    BY <1>10
  <2>3. upTo[i] \in Seq(S) /\ \E p : Picks(upTo[i], p, s, kept, i)
    BY <2>1, <2>2, PicksOneMore
  <2> QED BY <2>3
<1>11. n \in D
  <2>1. \A i \in 0 .. n : i \in D
    <3> HIDE DEF D, n
    <3> QED BY <1>1, <1>9, <1>10, UpTo
  <2> QED BY <2>1, <1>1
<1>12. Kept(s, kept) = upTo[n]
  BY DEF Kept, upTo
<1> QED BY <1>11, <1>12

\* The fields of a job.
LEMMA JobFields ==
  ASSUME NEW job \in Jobs
  PROVE  /\ job.id \in Ids /\ job.session \in Sessions /\ job.len \in Nat
         /\ job.offset \in Nat /\ job.closed \in BOOLEAN /\ job.vadDone \in Nat
         /\ job.vadBusy \in BOOLEAN /\ job.probs \in Seq(Probs) /\ job.inFlight \in Nat
         /\ job.nextWindow \in Nat /\ job.completed \in Nat
         /\ job.pending \in SUBSET WhisperTasks /\ job.nextResult \in Nat
BY DEF Jobs

\* Jobs with other values of some fields.
LEMMA JobFlags ==
  ASSUME NEW job \in Jobs, NEW n \in Nat, NEW b \in BOOLEAN
  PROVE  /\ [job EXCEPT !.len = n] \in Jobs /\ [job EXCEPT !.closed = b] \in Jobs
         /\ [job EXCEPT !.vadBusy = b] \in Jobs
BY DEF Jobs

\* The buffer, emptied.
LEMMA JobBuffer ==
  ASSUME NEW job \in Jobs, NEW m \in Nat, NEW n \in Nat, NEW probs \in Seq(Probs)
  PROVE  [job EXCEPT !.offset = m, !.len = n, !.probs = probs] \in Jobs
BY DEF Jobs

\* The fields a dispatched window changes.
LEMMA JobDispatched ==
  ASSUME NEW job \in Jobs, NEW k \in Nat, NEW l \in Nat, NEW m \in Nat, NEW n \in Nat,
         NEW w \in Nat, NEW probs \in Seq(Probs)
  PROVE  [job EXCEPT !.len = n, !.offset = m, !.probs = probs, !.vadDone = k,
                     !.inFlight = l, !.nextWindow = w] \in Jobs
BY DEF Jobs

\* The fields a decision changes.
LEMMA JobDecided ==
  ASSUME NEW job \in Jobs, NEW k \in Nat, NEW b \in BOOLEAN, NEW probs \in Seq(Probs)
  PROVE  [job EXCEPT !.vadBusy = b, !.vadDone = k, !.probs = probs] \in Jobs
BY DEF Jobs

\* The fields a window's result changes.
LEMMA JobDelivered ==
  ASSUME NEW job \in Jobs, NEW k \in Nat, NEW l \in Nat, NEW n \in Nat,
         NEW pending \in SUBSET WhisperTasks
  PROVE  [job EXCEPT !.inFlight = k, !.completed = l, !.pending = pending,
                     !.nextResult = n] \in Jobs
<1> HIDE DEF WhisperTasks
<1> QED BY DEF Jobs

\* A new job.
LEMMA NewJobOK ==
  ASSUME NEW id \in Ids, NEW s \in Sessions
  PROVE  /\ NewJob(id, s) \in Jobs /\ JobOK(NewJob(id, s))
<1>1. <<>> \in Seq(Probs) /\ {} \in SUBSET WhisperTasks /\ DOMAIN <<>> = {}
  BY EmptySeq
<1>2. IsFiniteSet({})
  BY FS_EmptySet
<1>3. NewJob(id, s) \in Jobs
  <2> HIDE DEF Probs, WhisperTasks
  <2> QED BY <1>1 DEF NewJob, Jobs
<1>4. JobOK(NewJob(id, s))
  <2>1. Decisions(0, <<>>)
    BY <1>1 DEF Decisions
  <2> QED BY <1>1, <1>2, <2>1 DEF NewJob, JobOK
<1> QED BY <1>3, <1>4

\* A chunk more, or the end of the stream.
LEMMA AcceptOK ==
  ASSUME NEW job \in Jobs, JobOK(job), ~job.closed, NEW c
  PROVE  AcceptChunk(job, c) \in Jobs /\ JobOK(AcceptChunk(job, c))
<1>1. job.len \in Nat /\ job.len + 1 \in Nat /\ job.vadDone \in Nat
  BY JobFields
<1>2. AcceptChunk(job, c) \in Jobs
  BY <1>1, JobFlags DEF AcceptChunk
<1>3. Decisions(job.len + 1, job.probs)
  <2>1. \A i \in DOMAIN job.probs : job.probs[i] \in Probs
    BY JobFields, ElementOfSeq, LenProperties
  <2>2. \A i \in DOMAIN job.probs : job.probs[i].start \in Nat
    BY <2>1 DEF Probs
  <2> QED BY <1>1, <2>2 DEF JobOK, Decisions
<1>4. JobOK([job EXCEPT !.len = @ + 1])
  BY <1>1, <1>3 DEF JobOK, Jobs
<1>5. JobOK([job EXCEPT !.closed = TRUE])
  BY <1>1 DEF JobOK, Jobs
<1> QED BY <1>2, <1>4, <1>5 DEF AcceptChunk

\* The end of the stream, if it has been reached.
LEMMA ClosedOK ==
  ASSUME NEW job \in Jobs, JobOK(job), NEW b \in BOOLEAN, job.closed => b
  PROVE  [job EXCEPT !.closed = b] \in Jobs /\ JobOK([job EXCEPT !.closed = b])
<1>1. [job EXCEPT !.closed = b] \in Jobs
  BY DEF Jobs
<1>2. JobOK([job EXCEPT !.closed = b])
  BY DEF JobOK, Jobs
<1> QED BY <1>1, <1>2

\* Silence at the end of the stream is dropped.
LEMMA RefreshOK ==
  ASSUME NEW job \in Jobs, JobOK(job)
  PROVE  /\ RefreshSpeechState(job) \in Jobs /\ JobOK(RefreshSpeechState(job))
         /\ \/ RefreshSpeechState(job) = job
            \/ /\ job.closed /\ ~job.vadBusy
               /\ RefreshSpeechState(job)
                    = [job EXCEPT !.offset = @ + job.len, !.len = 0, !.probs = <<>>]
<1> DEFINE new == [job EXCEPT !.offset = @ + job.len, !.len = 0, !.probs = <<>>]
<1>1. <<>> \in Seq(Probs) /\ DOMAIN <<>> = {}
  BY EmptySeq
<1>2. job.offset + job.len \in Nat /\ 0 \in Nat
  BY JobFields
<1>3. new \in Jobs
  BY <1>1, <1>2, JobBuffer
<1>4. ASSUME job.closed PROVE JobOK(new)
  <2>1. Decisions(0, <<>>)
    BY <1>1 DEF Decisions
  <2> QED BY <1>1, <1>4, <2>1 DEF JobOK, Jobs
<1> HIDE DEF new
<1>5. RefreshSpeechState(job) = job
      \/ (job.closed /\ ~job.vadBusy /\ RefreshSpeechState(job) = new)
  BY DEF RefreshSpeechState, new
<1> QED BY <1>3, <1>4, <1>5 DEF new

\* A plan for job: a window of its buffer that the encoder can take and, with
\* voice detection, the speech in it, which it begins and ends with.
PlanOK(job, plan) ==
    /\ plan.start \in Nat /\ plan.end \in Nat /\ plan.start < plan.end
    /\ plan.end <= job.len /\ plan.end - plan.start <= WindowLen
    /\ InOrder(plan.speech, plan.end)
    /\ HasVad => /\ plan.speech # <<>>
                 /\ plan.speech[Len(plan.speech)][2] = plan.end
    /\ ~HasVad => plan.speech = <<>> /\ plan.start = 0

\* The segments before the first that ends beyond a window.
LEMMA LastFits ==
  ASSUME NEW segs \in Seq(Pairs), segs # <<>>
  PROVE  /\ LastFitting(segs) \in 1 .. Len(segs)
         /\ LastFitting(segs) # 1 => segs[LastFitting(segs)][2] - segs[1][1] <= WindowLen
<1> DEFINE misfits == {i \in 2 .. Len(segs) : segs[i][2] - segs[1][1] > WindowLen}
           First(i) == i \in misfits /\ \A j \in misfits : i <= j
<1>1. Len(segs) \in Nat \ {0}
  BY EmptySeq
<1>2. \A i \in 1 .. Len(segs) : segs[i][1] \in Nat /\ segs[i][2] \in Nat
  BY ElementOfSeq DEF Pairs
<1>3. WindowLen \in Nat
  BY JobAssumption
<1>4. CASE misfits = {}
  <2>1. LastFitting(segs) = Len(segs)
    BY <1>4 DEF LastFitting
  <2>2. Len(segs) # 1 => segs[Len(segs)][2] - segs[1][1] <= WindowLen
    <3> SUFFICES ASSUME Len(segs) # 1 PROVE segs[Len(segs)][2] - segs[1][1] <= WindowLen
      OBVIOUS
    <3>1. Len(segs) \in 2 .. Len(segs) /\ Len(segs) \notin misfits
      <4>1. Len(segs) \in 2 .. Len(segs)
        <5>1. \A n \in Nat \ {0} : n # 1 => n \in 2 .. n
          OBVIOUS
        <5> QED BY <1>1, <5>1
      <4>2. Len(segs) \notin misfits
        BY <1>4
      <4> QED BY <4>1, <4>2
    <3>2. 1 \in 1 .. Len(segs) /\ Len(segs) \in 1 .. Len(segs)
      BY <1>1
    <3>3. segs[1][1] \in Nat /\ segs[Len(segs)][2] \in Nat
      BY <3>2, <1>2
    <3> QED BY <3>1, <3>3, <1>3
  <2> QED BY <2>1, <2>2, <1>1
<1>5. CASE misfits # {}
  <2>1. PICK i : First(i)
    <3> DEFINE Less == {ss \in Nat \X Nat : ss[1] < ss[2]}
    <3>1. IsWellFoundedOn(Less, Nat)
      BY NatLessThanWellFounded DEF OpToRel
    <3>2. misfits \subseteq Nat
      OBVIOUS
    <3>3. PICK i \in misfits : \A j \in misfits : <<j, i>> \notin Less
      <4> HIDE DEF Less, misfits
      <4> QED BY <1>5, <3>1, <3>2, WFMin
    <3>4. ASSUME NEW j \in misfits PROVE i <= j
      <4>1. i \in Nat /\ j \in Nat /\ <<j, i>> \notin Less
        BY <3>2, <3>3, <3>4
      <4> QED BY <4>1
    <3> QED BY <3>3, <3>4
  <2> DEFINE m == CHOOSE k \in misfits : \A j \in misfits : k <= j
  <2>2. First(m)
    <3> HIDE DEF misfits
    <3> QED BY <2>1
  <2>3. LastFitting(segs) = m - 1
    BY <1>5 DEF LastFitting
  <2> HIDE DEF m
  <2>4. m \in 2 .. Len(segs)
    BY <2>2
  <2>5. ASSUME m - 1 # 1 PROVE segs[m - 1][2] - segs[1][1] <= WindowLen
    <3>1. m - 1 \in 2 .. Len(segs) /\ 1 \in 1 .. Len(segs) /\ m - 1 \in 1 .. Len(segs)
      BY <2>4, <2>5, <1>1
    <3>2. m - 1 \notin misfits
      <4>1. m - 1 \in misfits => m <= m - 1
        <5> HIDE DEF misfits
        <5> QED BY <2>2
      <4> QED BY <4>1, <2>4
    <3>3. segs[1][1] \in Nat /\ segs[m - 1][2] \in Nat
      BY <3>1, <1>2
    <3> QED BY <3>1, <3>2, <3>3, <1>3
  <2> QED BY <2>3, <2>4, <2>5, <1>1
<1> QED BY <1>4, <1>5

\* The speech of the first k segments, the last of them cut at end.
LEMMA CutInOrder ==
  ASSUME NEW segs, NEW len \in Nat, InOrder(segs, len), NEW k \in 1 .. Len(segs),
         NEW end \in Nat, \A i \in 1 .. k : segs[i][1] < end,
         \A i \in 1 .. k : i # k => segs[i][2] <= end
  PROVE  InOrder([i \in 1 .. k |-> <<segs[i][1], AtMost(segs[i][2], end)>>], end)
<1> DEFINE cut == [i \in 1 .. k |-> <<segs[i][1], AtMost(segs[i][2], end)>>]
<1>1. segs \in Seq(Pairs) /\ Len(segs) \in Nat /\ DOMAIN segs = 1 .. Len(segs)
  BY LenProperties DEF InOrder
<1>2. ASSUME NEW i \in 1 .. k
      PROVE  /\ segs[i][1] \in Nat /\ segs[i][2] \in Nat /\ segs[i][1] < segs[i][2]
  <2>1. i \in 1 .. Len(segs)
    BY <1>1
  <2>2. segs[i] \in Pairs
    BY <2>1, <1>1, ElementOfSeq
  <2> QED BY <2>1, <2>2, <1>1 DEF InOrder, Fit, Pairs
<1>3. ASSUME NEW i \in 1 .. k
      PROVE  /\ cut[i] \in Pairs /\ cut[i][1] = segs[i][1]
             /\ cut[i][1] < cut[i][2] /\ cut[i][2] <= end /\ cut[i][2] <= segs[i][2]
  <2>1. AtMost(segs[i][2], end) \in Nat /\ AtMost(segs[i][2], end) <= end
        /\ AtMost(segs[i][2], end) <= segs[i][2] /\ segs[i][1] < AtMost(segs[i][2], end)
    BY <1>2 DEF AtMost
  <2>2. cut[i] = <<segs[i][1], AtMost(segs[i][2], end)>>
    OBVIOUS
  <2> QED BY <1>2, <2>1, <2>2 DEF Pairs
<1> HIDE DEF cut
<1>4. k \in Nat /\ cut \in [1 .. k -> Pairs]
  BY <1>1, <1>3 DEF cut
<1>5. cut \in Seq(Pairs) /\ DOMAIN cut = 1 .. k /\ Len(cut) = k
  <2>1. cut \in Seq(Pairs) /\ DOMAIN cut = 1 .. k
    BY <1>4, SeqDef
  <2> QED BY <2>1, <1>4, LenProperties
<1>6. Fit(cut, end)
  BY <1>3, <1>5 DEF Fit
<1>7. ASSUME NEW i \in 1 .. k, NEW j \in 1 .. k, i < j PROVE cut[i][2] < cut[j][1]
  <2>1. segs[i][2] < segs[j][1]
    <3>1. i \in 1 .. Len(segs) /\ j \in 1 .. Len(segs)
      BY <1>1
    <3> QED BY <3>1, <1>7 DEF InOrder
  <2>2. cut[i][2] \in Nat /\ cut[j][1] \in Nat
    BY <1>3 DEF Pairs
  <2>3. cut[i][2] <= segs[i][2] /\ cut[j][1] = segs[j][1] /\ segs[i][2] \in Nat
    BY <1>2, <1>3
  <2> QED BY <2>1, <2>2, <2>3
<1>8. InOrder(cut, end)
  BY <1>5, <1>6, <1>7 DEF InOrder
<1> QED BY <1>8 DEF cut

\* A window is cut at the length of one.
LEMMA WindowEndFits ==
  ASSUME NEW start \in Nat, NEW last \in Nat, start < last
  PROVE  /\ WindowEnd(start, last) \in Nat /\ start < WindowEnd(start, last)
         /\ WindowEnd(start, last) <= last
         /\ WindowEnd(start, last) - start <= WindowLen
         /\ last - start <= WindowLen => WindowEnd(start, last) = last
BY JobAssumption DEF WindowEnd

\* next_dispatch_plan with voice detection.
LEMMA VadPlanOK ==
  ASSUME HasVad, NEW job \in Jobs, JobOK(job), NEW plan \in VadPlans(job)
  PROVE  PlanOK(job, plan)
<1> DEFINE segs  == JobSegments(job)
           k     == LastFitting(segs)
           start == segs[1][1]
           last  == segs[k][2]
           end   == WindowEnd(start, last)
<1>1. job.len \in Nat /\ WindowLen \in Nat \ {0}
  BY JobFields, JobAssumption
<1>2. InOrder(segs, job.len)
  BY <1>1, SegmentsInOrder DEF JobOK, JobSegments
<1>3. segs # <<>>
  BY DEF VadPlans
<1>4. plan = [start |-> start, end |-> end,
              speech |-> [i \in 1 .. k |-> <<segs[i][1], AtMost(segs[i][2], end)>>]]
  BY <1>3 DEF VadPlans
<1> HIDE DEF segs
<1>5. segs \in Seq(Pairs) /\ Len(segs) \in Nat /\ DOMAIN segs = 1 .. Len(segs)
  BY <1>2, LenProperties DEF InOrder
<1>6. k \in 1 .. Len(segs) /\ (k # 1 => last - start <= WindowLen) /\ 1 \in 1 .. Len(segs)
  <2>1. k \in 1 .. Len(segs) /\ (k # 1 => last - start <= WindowLen)
    BY <1>3, <1>5, LastFits
  <2> QED BY <2>1, <1>5
<1> HIDE DEF k
<1>7. ASSUME NEW i \in 1 .. Len(segs)
      PROVE  /\ segs[i][1] \in Nat /\ segs[i][2] \in Nat
             /\ segs[i][1] < segs[i][2] /\ segs[i][2] <= job.len
  <2>1. segs[i] \in Pairs
    BY <1>5, ElementOfSeq
  <2> QED BY <2>1, <1>2, <1>5 DEF InOrder, Fit, Pairs
<1>8. /\ start \in Nat /\ last \in Nat /\ start < last /\ last <= job.len
      /\ \A i \in 1 .. k : i # k => segs[i][2] < segs[k][1]
  <2>1. ASSUME NEW i \in 1 .. k, i # k PROVE segs[i][2] < segs[k][1]
    <3>1. i \in DOMAIN segs /\ k \in DOMAIN segs /\ i < k
      BY <2>1, <1>5, <1>6
    <3> QED BY <3>1, <1>2 DEF InOrder
  <2>2. start < last
    <3>1. CASE k = 1
      BY <3>1, <1>6, <1>7
    <3>2. CASE k # 1
      <4>1. 1 \in 1 .. k /\ segs[1][2] < segs[k][1]
        BY <3>2, <2>1, <1>5, <1>6
      <4> QED BY <4>1, <1>6, <1>7, <1>1
    <3> QED BY <3>1, <3>2
  <2> QED BY <2>1, <2>2, <1>6, <1>7
<1>9. /\ end \in Nat /\ start < end /\ end <= last /\ end - start <= WindowLen
      /\ k # 1 => end = last
  <2> HIDE DEF start, last
  <2> QED BY <1>6, <1>8, WindowEndFits
<1> HIDE DEF end
<1>10. \A i \in 1 .. k : segs[i][1] < end /\ (i # k => segs[i][2] <= end)
  <2> SUFFICES ASSUME NEW i \in 1 .. k
               PROVE  segs[i][1] < end /\ (i # k => segs[i][2] <= end)
    OBVIOUS
  <2>1. i \in 1 .. Len(segs) /\ k \in 1 .. Len(segs)
    BY <1>5, <1>6
  <2>2. CASE i = k
    <3>1. CASE k = 1
      BY <2>2, <3>1, <1>9
    <3>2. CASE k # 1
      BY <2>1, <2>2, <3>2, <1>7, <1>9
    <3> QED BY <3>1, <3>2
  <2>3. CASE i # k
    <3>1. k # 1
      BY <2>1, <2>3
    <3>2. segs[i][1] < segs[i][2] /\ segs[i][2] < segs[k][1] /\ segs[k][1] < segs[k][2]
      BY <2>1, <2>3, <1>7, <1>8
    <3> QED BY <3>1, <3>2, <2>1, <1>7, <1>9
  <2> QED BY <2>2, <2>3
<1>11. InOrder(plan.speech, end)
  <2>1. plan.speech = [i \in 1 .. k |-> <<segs[i][1], AtMost(segs[i][2], end)>>]
    BY <1>4
  <2> QED BY <2>1, <1>1, <1>2, <1>6, <1>9, <1>10, CutInOrder
<1>12. plan.speech # <<>> /\ plan.speech[Len(plan.speech)][2] = end
  <2> DEFINE cut == [i \in 1 .. k |-> <<segs[i][1], AtMost(segs[i][2], end)>>]
  <2>1. plan.speech = cut /\ DOMAIN cut = 1 .. k /\ k \in Nat /\ k \in 1 .. k
    BY <1>4, <1>5, <1>6
  <2>2. cut \in Seq(Pairs)
    BY <2>1, <1>11 DEF InOrder
  <2>3. Len(cut) = k
    BY <2>1, <2>2, LenProperties
  <2>4. cut[k] = <<segs[k][1], AtMost(segs[k][2], end)>>
    BY <2>1
  <2>5. AtMost(segs[k][2], end) = end
    BY <1>8, <1>9 DEF AtMost
  <2> HIDE DEF cut
  <2> QED BY <2>1, <2>2, <2>3, <2>4, <2>5, EmptySeq
<1>13. plan.start = start /\ plan.end = end
  BY <1>4
<1>14. plan.end <= job.len
  BY <1>1, <1>8, <1>9, <1>13
<1> QED BY <1>8, <1>9, <1>11, <1>12, <1>13, <1>14 DEF PlanOK

\* next_dispatch_plan without.
LEMMA PlainPlanOK ==
  ASSUME ~HasVad, NEW job \in Jobs, NEW plan \in PlainPlans(job)
  PROVE  PlanOK(job, plan)
<1>1. job.len \in Nat /\ WindowLen \in Nat \ {0}
  BY JobFields, JobAssumption
<1>2. job.len >= WindowLen \/ (job.closed /\ job.len > 0)
  BY DEF PlainPlans
<1>3. plan.start = 0 /\ plan.end = AtMost(WindowLen, job.len) /\ plan.speech = <<>>
  BY <1>2 DEF PlainPlans
<1>4. /\ plan.end \in Nat /\ 0 < plan.end /\ plan.end <= job.len
      /\ plan.end <= WindowLen
  BY <1>1, <1>2, <1>3 DEF AtMost
<1>5. InOrder(plan.speech, plan.end)
  BY <1>3, EmptySeq DEF InOrder, Fit
<1> QED BY <1>1, <1>3, <1>4, <1>5 DEF PlanOK

\* Every plan is one for its job.
LEMMA DispatchPlanOK ==
  ASSUME NEW job \in Jobs, JobOK(job), NEW plan \in DispatchPlans(job)
  PROVE  PlanOK(job, plan)
BY VadPlanOK, PlainPlanOK DEF DispatchPlans

\* The decisions on the audio that stays, by their places in what is left.
Left(probs, end) ==
    LET later == Kept(probs, {i \in DOMAIN probs : probs[i].start >= end})
    IN  [i \in DOMAIN later |-> [later[i] EXCEPT !.start = @ - end]]

\* They are decisions on what is left.
LEMMA LeftDecisions ==
  ASSUME NEW len \in Nat, NEW end \in Nat, end <= len, NEW probs, Decisions(len, probs),
         NEW done \in Nat, \A i \in DOMAIN probs : probs[i].start < done
  PROVE  /\ Left(probs, end) \in Seq(Probs) /\ Decisions(len - end, Left(probs, end))
         /\ \A i \in DOMAIN Left(probs, end) : Left(probs, end)[i].start < Monus(done, end)
<1> DEFINE kept == {i \in DOMAIN probs : probs[i].start >= end}
           later == Kept(probs, kept)
           left == [i \in DOMAIN later |-> [later[i] EXCEPT !.start = @ - end]]
<1>0. Left(probs, end) = left
  BY DEF Left
<1>1. probs \in Seq(Probs) /\ Len(probs) \in Nat /\ DOMAIN probs = 1 .. Len(probs)
  BY LenProperties DEF Decisions
<1>2. /\ later \in Seq(Probs)
      /\ \E place : Picks(later, place, probs, kept, Len(probs))
  BY <1>1, KeptPicks
<1> HIDE DEF later
<1>3. PICK place : Picks(later, place, probs, kept, Len(probs))
  BY <1>2
<1>4. Len(later) \in Nat /\ DOMAIN later = 1 .. Len(later)
  BY <1>2, LenProperties
<1>5. ASSUME NEW i \in DOMAIN later
      PROVE  /\ place[i] \in DOMAIN probs /\ later[i] = probs[place[i]]
             /\ later[i].start \in Nat /\ later[i].speech \in BOOLEAN
             /\ end <= later[i].start /\ later[i].start < len /\ later[i].start < done
             /\ later[i] \in Probs
  <2>1. place[i] \in kept /\ later[i] = probs[place[i]]
    BY <1>3, <1>4 DEF Picks
  <2>2. place[i] \in DOMAIN probs /\ end <= probs[place[i]].start
    BY <2>1
  <2>3. probs[place[i]] \in Probs
    BY <2>2, <1>1, ElementOfSeq
  <2>4. probs[place[i]].start < len
    BY <2>2 DEF Decisions
  <2> QED BY <2>1, <2>2, <2>3, <2>4 DEF Probs
<1>6. ASSUME NEW i \in DOMAIN later
      PROVE  /\ left[i] \in Probs /\ left[i].start = later[i].start - end
             /\ left[i].start < len - end /\ left[i].start < Monus(done, end)
  <2>1. left[i] = [later[i] EXCEPT !.start = @ - end]
    OBVIOUS
  <2>2. later[i].start - end \in Nat
    BY <1>5
  <2>3. left[i] \in Probs /\ left[i].start = later[i].start - end
    BY <2>1, <2>2, <1>5 DEF Probs
  <2>4. later[i].start - end < len - end /\ later[i].start - end < done - end
    BY <1>5
  <2>5. Monus(done, end) = done - end
    <3>1. later[i].start \in Nat /\ end <= later[i].start /\ later[i].start < done
      BY <1>5
    <3> QED BY <3>1 DEF Monus, AtLeast
  <2> QED BY <2>3, <2>4, <2>5
<1>7. left \in [1 .. Len(later) -> Probs] /\ DOMAIN left = DOMAIN later
  <2>1. DOMAIN left = DOMAIN later
    OBVIOUS
  <2>2. left = [i \in DOMAIN later |-> left[i]]
    OBVIOUS
  <2> QED BY <2>1, <2>2, <1>4, <1>6
<1>8. left \in Seq(Probs)
  BY <1>4, <1>7, SeqOf
<1>9. ASSUME NEW i \in DOMAIN left, NEW j \in DOMAIN left, i < j
      PROVE  left[i].start < left[j].start
  <2>1. place[i] < place[j]
    BY <1>3, <1>4, <1>7, <1>9 DEF Picks
  <2>2. probs[place[i]].start < probs[place[j]].start
    BY <2>1, <1>5, <1>7, <1>9 DEF Decisions
  <2>3. later[i].start < later[j].start
    BY <2>2, <1>5, <1>7
  <2>4. later[i].start \in Nat /\ later[j].start \in Nat
    BY <1>5, <1>7
  <2>5. left[i].start = later[i].start - end /\ left[j].start = later[j].start - end
    BY <1>6, <1>7
  <2> QED BY <2>3, <2>4, <2>5
<1>10. Decisions(len - end, left)
  BY <1>6, <1>7, <1>8, <1>9 DEF Decisions
<1>11. \A i \in DOMAIN left : left[i].start < Monus(done, end)
  BY <1>6, <1>7
<1> HIDE DEF left
<1> QED BY <1>0, <1>8, <1>10, <1>11

\* A window has left for a worker.
LEMMA AfterDispatchOK ==
  ASSUME NEW job \in Jobs, JobOK(job), NEW plan, PlanOK(job, plan)
  PROVE  AfterDispatch(job, plan) \in Jobs /\ JobOK(AfterDispatch(job, plan))
<1> DEFINE left == Left(job.probs, plan.end)
           new == AfterDispatch(job, plan)
<1>1. /\ job.len \in Nat /\ plan.end \in Nat /\ plan.end <= job.len /\ 0 < plan.end
      /\ job.vadDone \in Nat /\ job.offset \in Nat /\ job.inFlight \in Nat
      /\ job.nextWindow \in Nat /\ job.nextResult \in Nat
      /\ job.pending \in SUBSET WhisperTasks
  BY JobFields DEF PlanOK
<1>2. left \in Seq(Probs) /\ Decisions(job.len - plan.end, left)
      /\ \A i \in DOMAIN left : left[i].start < Monus(job.vadDone, plan.end)
  <2>1. Decisions(job.len, job.probs)
        /\ \A i \in DOMAIN job.probs : job.probs[i].start < job.vadDone
    BY DEF JobOK
  <2> QED BY <1>1, <2>1, LeftDecisions
<1>3. new = [job EXCEPT !.len = job.len - plan.end, !.offset = job.offset + plan.end,
                        !.probs = left, !.vadDone = Monus(job.vadDone, plan.end),
                        !.inFlight = job.inFlight + 1, !.nextWindow = job.nextWindow + 1]
  BY DEF AfterDispatch, Left
<1> HIDE DEF left, new
<1>4. /\ job.len - plan.end \in Nat /\ job.offset + plan.end \in Nat
      /\ Monus(job.vadDone, plan.end) \in Nat /\ job.inFlight + 1 \in Nat
      /\ job.nextWindow + 1 \in Nat
  BY <1>1 DEF Monus, AtLeast
<1>5. new \in Jobs
  BY <1>2, <1>3, <1>4, JobDispatched
<1>6. /\ new.len = job.len - plan.end /\ new.probs = left
      /\ new.vadDone = Monus(job.vadDone, plan.end) /\ new.nextWindow = job.nextWindow + 1
      /\ new.nextResult = job.nextResult /\ new.pending = job.pending
      /\ new.session = job.session /\ new.closed = job.closed
  BY <1>3 DEF Jobs
<1>7. new.vadDone <= new.len \/ (new.closed /\ new.len = 0)
  BY <1>1, <1>6 DEF JobOK, Monus, AtLeast
<1>8. \A q \in new.pending : /\ q.session = new.session
                             /\ new.nextResult < q.index /\ q.index < new.nextWindow
  <2> SUFFICES ASSUME NEW q \in job.pending
               PROVE  /\ q.session = job.session
                      /\ job.nextResult < q.index /\ q.index < job.nextWindow + 1
    BY <1>6
  <2>1. q.index \in Nat
    BY <1>1 DEF WhisperTasks
  <2> QED BY <2>1, <1>1 DEF JobOK
<1>9. new.nextResult <= new.nextWindow
  BY <1>1, <1>6 DEF JobOK
<1>10. JobOK(new)
  BY <1>2, <1>6, <1>7, <1>8, <1>9 DEF JobOK
<1> QED BY <1>5, <1>10 DEF new

\* A decision is in.
LEMMA HandleVadResultOK ==
  ASSUME NEW job \in Jobs, JobOK(job), NEW r \in VadResults, VadOwn(job, r)
  PROVE  HandleVadResult(job, r) \in Jobs /\ JobOK(HandleVadResult(job, r))
<1> DEFINE p == [start |-> r.start, speech |-> r.speech]
           probs == Append(job.probs, p)
           done == AtMost(r.start + VadWindow, job.len)
           new == HandleVadResult(job, r)
<1>1. /\ job.len \in Nat /\ job.vadDone \in Nat /\ job.probs \in Seq(Probs)
      /\ r.start \in Nat /\ r.speech \in BOOLEAN /\ VadWindow \in Nat \ {0}
      /\ r.start = job.vadDone /\ r.start < job.len
  BY JobFields, VadAssumption DEF VadResults, VadOwn
<1>2. p \in Probs /\ p.start = r.start
  BY <1>1 DEF Probs
<1>3. done \in Nat /\ r.start < done /\ done <= job.len
  BY <1>1 DEF AtMost
<1>4. new = [job EXCEPT !.vadBusy = FALSE, !.vadDone = done, !.probs = probs]
  BY DEF HandleVadResult
<1> HIDE DEF p, done, new
<1>5. /\ probs \in Seq(Probs) /\ DOMAIN probs = 1 .. Len(job.probs) + 1
      /\ DOMAIN job.probs = 1 .. Len(job.probs) /\ Len(job.probs) \in Nat
      /\ \A i \in DOMAIN job.probs : probs[i] = job.probs[i]
      /\ probs[Len(job.probs) + 1] = p
  BY <1>1, <1>2, Put
<1>6. \A i \in DOMAIN job.probs : /\ job.probs[i].start < r.start
                                  /\ job.probs[i].start \in Nat
  <2>1. \A i \in DOMAIN job.probs : job.probs[i] \in Probs
    BY <1>1, <1>5, ElementOfSeq
  <2> QED BY <2>1, <1>1 DEF JobOK, Probs
<1>7. ASSUME NEW i \in DOMAIN probs
      PROVE  \/ i \in DOMAIN job.probs /\ probs[i] = job.probs[i] /\ probs[i].start < r.start
             \/ i = Len(job.probs) + 1 /\ probs[i].start = r.start
  BY <1>2, <1>5, <1>6
<1> HIDE DEF probs
<1>8. Decisions(job.len, probs) /\ \A i \in DOMAIN probs : probs[i].start < done
  <2>1. ASSUME NEW i \in DOMAIN probs PROVE probs[i].start < job.len /\ probs[i].start < done
    <3>1. CASE i \in DOMAIN job.probs /\ probs[i] = job.probs[i]
      BY <3>1, <1>1, <1>3, <1>6
    <3>2. CASE probs[i].start = r.start
      BY <3>2, <1>1, <1>3
    <3> QED BY <3>1, <3>2, <1>7
  <2>2. ASSUME NEW i \in DOMAIN probs, NEW j \in DOMAIN probs, i < j
        PROVE  probs[i].start < probs[j].start
    <3>1. i \in DOMAIN job.probs /\ probs[i] = job.probs[i] /\ probs[i].start < r.start
      BY <2>2, <1>5, <1>7
    <3>2. CASE j \in DOMAIN job.probs /\ probs[j] = job.probs[j]
      BY <3>1, <3>2, <2>2 DEF JobOK, Decisions
    <3>3. CASE probs[j].start = r.start
      BY <3>1, <3>3
    <3> QED BY <3>2, <3>3, <1>7
  <2> QED BY <2>1, <2>2, <1>5 DEF Decisions
<1>9. new \in Jobs
  BY <1>3, <1>4, <1>5, JobDecided
<1>10. /\ new.len = job.len /\ new.probs = probs
       /\ new.vadDone = done /\ new.nextWindow = job.nextWindow
       /\ new.nextResult = job.nextResult /\ new.pending = job.pending
       /\ new.session = job.session /\ new.closed = job.closed
  BY <1>4 DEF Jobs
<1>11. JobOK(new)
  BY <1>3, <1>8, <1>10 DEF JobOK
<1> QED BY <1>9, <1>11 DEF new

\* A set of first numbers is an interval.
LEMMA PrefixIsRange ==
  ASSUME NEW m \in Nat, NEW D \in SUBSET (1 .. m),
         \A k \in D : \A j \in 1 .. k : j \in D
  PROVE  \E n \in 0 .. m : D = 1 .. n
<1> DEFINE Out  == {i \in 1 .. m + 1 : i \notin D}
           Less == {ss \in Nat \X Nat : ss[1] < ss[2]}
<1>1. IsWellFoundedOn(Less, Nat)
  BY NatLessThanWellFounded DEF OpToRel
<1>2. Out \subseteq Nat /\ Out # {}
  <2>1. m + 1 \in Out
    OBVIOUS
  <2> QED BY <2>1
<1>3. PICK x \in Out : \A y \in Out : <<y, x>> \notin Less
  <2> HIDE DEF Out, Less
  <2> QED BY <1>1, <1>2, WFMin
<1>4. x \in 1 .. m + 1 /\ x \notin D
  OBVIOUS
<1>5. ASSUME NEW j \in 1 .. x - 1 PROVE j \in D
  <2> SUFFICES ASSUME j \notin D PROVE FALSE
    OBVIOUS
  <2>1. j \in Out
    BY <1>4
  <2>2. <<j, x>> \in Less
    BY <1>4
  <2> QED BY <2>1, <2>2, <1>3
<1>6. ASSUME NEW k \in D PROVE k \in 1 .. x - 1
  <2> SUFFICES ASSUME x <= k PROVE FALSE
    BY <1>4
  <2>1. x \in 1 .. k
    BY <1>4
  <2> QED BY <2>1, <1>4
<1>7. D = 1 .. x - 1 /\ x - 1 \in 0 .. m
  <2>1. D \subseteq 1 .. x - 1 /\ 1 .. x - 1 \subseteq D
    BY <1>5, <1>6
  <2>2. x - 1 \in 0 .. m
    BY <1>4
  <2> QED BY <2>1, <2>2
<1> QED BY <1>7

\* next holds windows of got from number a on, in order and without a gap, and
\* as many of them as there are.
NextInOrder(next, got, a) ==
    /\ next \in Seq(got)
    /\ \A k \in 1 .. Len(next) : next[k] \in got /\ next[k].index = a + k - 1
    /\ \A q \in got : q.index = a + Len(next) => q \in {next[k] : k \in DOMAIN next}

\* The results that handle_result passes on are those that are next in order.
LEMMA DeliverableIsNext ==
  ASSUME NEW job \in Jobs, NEW r \in WhisperTasks, IsFiniteSet(job.pending)
  PROVE  NextInOrder(Deliverable(job, r), job.pending \cup {r}, job.nextResult)
<1> DEFINE got == job.pending \cup {r}
           a == job.nextResult
           Having(k) == {q \in got : q.index = a + k - 1}
           D == {i \in 1 .. Cardinality(got) : \A j \in 1 .. i : Having(j) # {}}
           f == [k \in D |-> CHOOSE q \in Having(k) : TRUE]
<1>1. Deliverable(job, r) = f
  BY DEF Deliverable
<1>2. IsFiniteSet(got) /\ Cardinality(got) \in Nat
  BY FS_AddElement, FS_CardinalityType
<1>3. a \in Nat /\ got \in SUBSET WhisperTasks
  BY JobFields
<1>4. ASSUME NEW q \in got PROVE q.index \in Nat
  BY <1>3 DEF WhisperTasks
<1> HIDE DEF got, a
<1>5. \A k \in D : f[k] \in got /\ f[k].index = a + k - 1
  <2> SUFFICES ASSUME NEW k \in D PROVE f[k] \in Having(k)
    OBVIOUS
  <2>1. Having(k) # {}
    OBVIOUS
  <2> QED BY <2>1
<1>6. PICK n \in 0 .. Cardinality(got) : D = 1 .. n
  <2>1. ASSUME NEW k \in D, NEW j \in 1 .. k PROVE j \in D
    <3>1. k \in 1 .. Cardinality(got) /\ \A i \in 1 .. k : Having(i) # {}
      OBVIOUS
    <3>2. j \in 1 .. Cardinality(got) /\ \A i \in 1 .. j : i \in 1 .. k
      BY <1>2, <3>1
    <3> HIDE DEF Having
    <3> QED BY <3>1, <3>2
  <2>2. D \in SUBSET (1 .. Cardinality(got))
    OBVIOUS
  <2> HIDE DEF D
  <2> QED BY <1>2, <2>1, <2>2, PrefixIsRange
<1>7. f \in [1 .. n -> got] /\ n \in Nat
  <2>1. f \in [D -> got]
    BY <1>5
  <2>2. n \in Nat
    BY <1>2
  <2> HIDE DEF f, D
  <2> QED BY <2>1, <2>2, <1>6
<1>8. f \in Seq(got) /\ Len(f) = n /\ DOMAIN f = 1 .. n
  <2> HIDE DEF f, D
  <2> QED BY <1>7, SeqOf
<1>9. \A k \in 1 .. n : f[k] \in got /\ f[k].index = a + k - 1
  BY <1>5, <1>6
<1>10. ASSUME NEW q \in got, q.index = a + n PROVE q \in {f[k] : k \in 1 .. n}
  <2>1. CASE n < Cardinality(got)
    <3>1. n + 1 \in 1 .. Cardinality(got) /\ n + 1 \notin 1 .. n
      BY <1>2, <1>7, <2>1
    <3>2. PICK j \in 1 .. n + 1 : Having(j) = {}
      BY <3>1, <1>6
    <3>3. j \notin 1 .. n
      <4> SUFFICES ASSUME j \in 1 .. n PROVE FALSE
        OBVIOUS
      <4>1. j \in D
        BY <1>6
      <4>2. j \in 1 .. j
        BY <1>7
      <4> QED BY <3>2, <4>1, <4>2
    <3>4. j = n + 1
      BY <3>2, <3>3, <1>7
    <3>5. q \in Having(j)
      BY <1>3, <1>7, <1>10, <3>4
    <3> QED BY <3>2, <3>5
  <2>2. CASE n = Cardinality(got)
    <3> DEFINE range == {f[k] : k \in 1 .. n}
    <3> HIDE DEF f, D
    <3>1. f \in Bijection(1 .. n, range)
      <4>1. f \in [1 .. n -> range]
        <5>1. DOMAIN f = 1 .. n /\ f = [k \in 1 .. n |-> f[k]]
          BY <1>7
        <5> QED BY <5>1
      <4>2. \A i, j \in 1 .. n : f[i] = f[j] => i = j
        <5> SUFFICES ASSUME NEW i \in 1 .. n, NEW j \in 1 .. n, f[i] = f[j] PROVE i = j
          OBVIOUS
        <5>1. a + i - 1 = a + j - 1
          BY <1>9
        <5> QED BY <5>1, <1>3, <1>7
      <4>3. f \in Injection(1 .. n, range)
        BY <4>1, <4>2 DEF Injection, IsInjective
      <4>4. f \in Surjection(1 .. n, range)
        BY <4>1 DEF Surjection
      <4> QED BY <4>3, <4>4 DEF Bijection
    <3>2. IsFiniteSet(1 .. n) /\ Cardinality(1 .. n) = n
      BY <1>7, FS_Interval
    <3> HIDE DEF range
    <3>3. Cardinality(range) = n
      BY <3>1, <3>2, FS_Bijection DEF ExistsBijection
    <3>4. range \in SUBSET got
      BY <1>9 DEF range
    <3>5. range = got
      BY <1>2, <2>2, <3>3, <3>4, FS_Subset
    <3> QED BY <3>5 DEF range
  <2>3. n < Cardinality(got) \/ n = Cardinality(got)
    <3> HIDE DEF D
    <3> QED BY <1>2, <1>6
  <2> HIDE DEF f, D
  <2> QED BY <2>1, <2>2, <2>3
<1> HIDE DEF f, D
<1>11. NextInOrder(f, got, a)
  BY <1>8, <1>9, <1>10 DEF NextInOrder
<1> QED BY <1>1, <1>11 DEF got, a

\* What a result does to its job: it and those that waited for it are passed
\* on, or it waits.
LEMMA HandleResultOK ==
  ASSUME NEW job \in Jobs, JobOK(job), NEW r \in WhisperTasks, WhisperOwn(job, r)
  PROVE  HandleResult(job, r) \in Jobs /\ JobOK(HandleResult(job, r))
<1> DEFINE next  == Deliverable(job, r)
           got   == job.pending \cup {r}
           range == {next[k] : k \in DOMAIN next}
           a     == job.nextResult
           new   == HandleResult(job, r)
<1>1. /\ a \in Nat /\ job.nextWindow \in Nat /\ job.inFlight \in Nat
      /\ job.completed \in Nat /\ got \in SUBSET WhisperTasks
      /\ IsFiniteSet(job.pending)
  BY JobFields DEF JobOK
<1>2. NextInOrder(next, got, a)
  BY <1>1, DeliverableIsNext
<1> HIDE DEF next
<1>3. next \in Seq(got) /\ Len(next) \in Nat /\ DOMAIN next = 1 .. Len(next)
  BY <1>2, LenProperties DEF NextInOrder
<1>4. \A q \in got : /\ q.index \in Nat /\ q.session = job.session
                     /\ a <= q.index /\ q.index < job.nextWindow
  <2> SUFFICES ASSUME NEW q \in got
               PROVE  /\ q.index \in Nat /\ q.session = job.session
                      /\ a <= q.index /\ q.index < job.nextWindow
    OBVIOUS
  <2>1. q.index \in Nat
    BY <1>1 DEF WhisperTasks
  <2>2. CASE q = r
    BY <2>1, <2>2 DEF WhisperOwn
  <2>3. CASE q \in job.pending
    BY <2>1, <2>3, <1>1 DEF JobOK
  <2> QED BY <2>1, <2>2, <2>3
<1>5. \A p, q \in got : p.index = q.index => p = q
  BY DEF JobOK, WhisperOwn
<1>6. new = [job EXCEPT !.inFlight = Monus(job.inFlight, 1), !.completed = job.completed + 1,
                        !.pending = got \ range, !.nextResult = a + Len(next)]
  BY DEF HandleResult, next
<1> HIDE DEF got, new, range, a
<1>7. /\ Monus(job.inFlight, 1) \in Nat /\ job.completed + 1 \in Nat
      /\ a + Len(next) \in Nat /\ got \ range \in SUBSET WhisperTasks
  BY <1>1, <1>3 DEF Monus, AtLeast
<1>8. new \in Jobs
  BY <1>6, <1>7, JobDelivered
<1>9. /\ new.len = job.len /\ new.probs = job.probs /\ new.vadDone = job.vadDone
      /\ new.nextWindow = job.nextWindow /\ new.nextResult = a + Len(next)
      /\ new.pending = got \ range /\ new.session = job.session /\ new.closed = job.closed
  BY <1>6 DEF Jobs
<1>10. a + Len(next) <= job.nextWindow
  <2>1. CASE Len(next) = 0
    BY <2>1, <1>1 DEF JobOK, a
  <2>2. CASE Len(next) # 0
    <3>1. Len(next) \in 1 .. Len(next)
      BY <2>2, <1>3
    <3>2. next[Len(next)] \in got /\ next[Len(next)].index = a + Len(next) - 1
      BY <3>1, <1>2 DEF NextInOrder
    <3>3. next[Len(next)].index < job.nextWindow
      BY <3>2, <1>4
    <3> QED BY <3>2, <3>3, <1>1, <1>3
  <2> QED BY <2>1, <2>2
<1>11. ASSUME NEW q \in got \ range PROVE a + Len(next) < q.index
  <2>1. q.index \in Nat /\ a <= q.index
    BY <1>4
  <2>2. q.index # a + Len(next)
    BY <1>2 DEF NextInOrder, range
  <2>3. ASSUME q.index < a + Len(next) PROVE FALSE
    <3> DEFINE k == q.index - a + 1
    <3>1. k \in 1 .. Len(next) /\ a + k - 1 = q.index
      BY <2>1, <2>3, <1>1, <1>3
    <3> HIDE DEF k
    <3>2. next[k] \in got /\ next[k].index = q.index
      BY <3>1, <1>2 DEF NextInOrder
    <3>3. next[k] = q
      BY <3>2, <1>5
    <3> QED BY <3>1, <3>3, <1>3 DEF range
  <2> QED BY <2>1, <2>2, <2>3, <1>1, <1>3
<1>12. IsFiniteSet(got \ range)
  <2>1. IsFiniteSet(got)
    BY <1>1, FS_AddElement DEF got
  <2> QED BY <2>1, FS_Subset
<1>13. JobOK(new)
  BY <1>4, <1>5, <1>9, <1>10, <1>11, <1>12 DEF JobOK
<1> QED BY <1>8, <1>13 DEF new

-----------------------------------------------------------------------------
(* What is in a task, a result and a message. *)

\* The queues have finitely many places.
LEMMA NpuWorkersNat == NPU_WORKERS \in Nat /\ 0 < NPU_WORKERS
<1>1. IsFiniteSet(Workers) /\ Workers # {}
  BY WorkersAssumption
<1> QED BY <1>1, FS_CardinalityType, FS_EmptySet DEF NPU_WORKERS

\* The limits are positive.
LEMMA LimitTypes ==
  /\ MaxChunks \in Nat \ {0} /\ ChunkQueue \in Nat \ {0} /\ ResponseQueue \in Nat \ {0}
  /\ JobQueue \in Nat \ {0} /\ MaxActive \in Nat \ {0} /\ MaxInFlight \in Nat \ {0}
  /\ WindowLen \in Nat \ {0} /\ VadWindow \in Nat \ {0}
BY SessionsAssumption, SchedulerAssumption, JobAssumption, VadAssumption

\* A Whisper window is task and result alike.
LEMMA WhisperFields ==
  ASSUME NEW t \in WhisperTasks
  PROVE  /\ t.kind = "whisper" /\ t.job \in Ids /\ t.index \in Nat /\ t.begin \in Nat
         /\ t.session \in Sessions /\ t.from \in Nat /\ t.to \in Nat
         /\ t \in Tasks /\ t \in AllResults
BY DEF WhisperTasks, Tasks, AllResults

\* The fields of a VAD task.
LEMMA VadTaskFields ==
  ASSUME NEW t \in VadTasks
  PROVE  t.kind = "vad" /\ t.job \in Ids /\ t.start \in Nat /\ t.from \in Nat /\ t \in Tasks
BY DEF VadTasks, Tasks

\* The fields of a VAD result.
LEMMA VadResultFields ==
  ASSUME NEW r \in VadResults
  PROVE  /\ r.kind = "vad" /\ r.job \in Ids /\ r.start \in Nat /\ r.from \in Nat
         /\ r.speech \in BOOLEAN /\ r \in AllResults
BY DEF VadResults, AllResults

\* An error is a result that may be for no job.
LEMMA ErrorFields ==
  ASSUME NEW r \in ErrorResults
  PROVE  r.kind = "error" /\ r.job \in Nat /\ r \in AllResults
BY DEF ErrorResults, AllResults

\* The kind tells what a result is.
LEMMA ResultKinds ==
  ASSUME NEW r \in AllResults
  PROVE  /\ r.kind \in {"whisper", "vad", "error"} /\ r.job \in Nat
         /\ r.kind = "whisper" => r \in WhisperTasks
         /\ r.kind = "vad" => r \in VadResults
         /\ r.kind = "error" => r \in ErrorResults
BY WhisperFields, VadResultFields, ErrorFields DEF AllResults, Ids

\* The kind tells what a task is.
LEMMA TaskKinds ==
  ASSUME NEW t \in Tasks
  PROVE  /\ t.kind \in {"whisper", "vad"} /\ t.job \in Ids
         /\ t.kind = "whisper" => t \in WhisperTasks
         /\ t.kind = "vad" => t \in VadTasks
BY WhisperFields, VadTaskFields DEF Tasks

\* What is in a slot.
LEMMA SlotFields ==
  ASSUME NEW q \in Slots
  PROVE  /\ q # <<>> => q = <<q[1]>> /\ q[1] \in Tasks
         /\ Len(q) = IF q = <<>> THEN 0 ELSE 1
<1>1. CASE q = <<>>
  BY <1>1, EmptySeq
<1>2. CASE q # <<>>
  <2>1. PICK t \in Tasks : q = <<t>>
    BY <1>2 DEF Slots
  <2>2. q[1] = t
    BY <2>1
  <2>3. Len(q) = 1
    <3>1. q \in Seq({t}) /\ DOMAIN q = 1 .. 1
      BY <2>1, SeqDef
    <3> QED BY <3>1, LenProperties
  <2> QED BY <2>1, <2>2, <2>3, <1>2
<1> QED BY <1>1, <1>2

\* The results a task can have.
LEMMA ResultsTyped ==
  ASSUME NEW t \in Tasks, NEW r \in Results(t)
  PROVE  /\ r \in AllResults /\ r.job = t.job
         /\ \/ r = t /\ t.kind = "whisper" /\ r \in WhisperTasks
            \/ r.kind = "vad" /\ t.kind = "vad" /\ r.start = t.start /\ r.from = t.from
            \/ r.kind = "error"
<1>1. CASE r = t /\ t.kind = "whisper"
  BY <1>1, TaskKinds, WhisperFields
<1>2. ASSUME t.kind = "vad", NEW b \in BOOLEAN,
             r = [kind |-> "vad", job |-> t.job, start |-> t.start, from |-> t.from,
                  speech |-> b]
      PROVE  r \in VadResults /\ r.kind = "vad" /\ r.job = t.job /\ r.start = t.start
             /\ r.from = t.from
  <2>1. t \in VadTasks
    BY <1>2, TaskKinds
  <2> QED BY <1>2, <2>1, VadTaskFields DEF VadResults
<1>3. ASSUME r = [kind |-> "error", job |-> t.job]
      PROVE  r \in ErrorResults /\ r.kind = "error" /\ r.job = t.job
  BY <1>3, TaskKinds DEF ErrorResults, Ids
<1>4. t.kind \in {"whisper", "vad"}
  BY TaskKinds
<1>5. \/ r = t /\ t.kind = "whisper"
      \/ t.kind = "vad" /\ \E b \in BOOLEAN :
            r = [kind |-> "vad", job |-> t.job, start |-> t.start, from |-> t.from, speech |-> b]
      \/ r = [kind |-> "error", job |-> t.job]
  BY <1>4 DEF Results
<1>6. CASE t.kind = "vad" /\ \E b \in BOOLEAN :
            r = [kind |-> "vad", job |-> t.job, start |-> t.start, from |-> t.from, speech |-> b]
  BY <1>2, <1>6, VadResultFields
<1>7. CASE r = [kind |-> "error", job |-> t.job]
  BY <1>3, <1>7, ErrorFields
<1> QED BY <1>1, <1>5, <1>6, <1>7

\* The fields of a message.
LEMMA MessageFields ==
  ASSUME NEW m \in Messages
  PROVE  /\ m.to \in {"session", "worker"}
         /\ m.to = "session" => m.session \in Sessions /\ m.response \in Responses
         /\ m.to = "worker" => m.worker \in Workers /\ m.task \in Tasks
<1> HIDE DEF Responses, Tasks
<1> QED BY DEF Messages

\* A message to a session.
LEMMA ToSessionTyped ==
  ASSUME NEW s \in Sessions, NEW r \in Responses
  PROVE  /\ ToSession(s, r) \in Messages /\ ToSession(s, r).to = "session"
         /\ ToSession(s, r).session = s /\ ToSession(s, r).response = r
<1> HIDE DEF Responses, Tasks
<1> QED BY DEF ToSession, Messages

\* A message to a worker.
LEMMA ToWorkerTyped ==
  ASSUME NEW w \in Workers, NEW t \in Tasks
  PROVE  /\ ToWorker(w, t) \in Messages /\ ToWorker(w, t).to = "worker"
         /\ ToWorker(w, t).worker = w /\ ToWorker(w, t).task = t
<1> HIDE DEF Responses, Tasks
<1> QED BY DEF ToWorker, Messages

\* Messages to a session.
LEMMA ToSessionsTyped ==
  ASSUME NEW s \in Sessions, NEW rs \in Seq(Responses)
  PROVE  /\ ToSessions(s, rs) \in Seq(Messages) /\ Len(ToSessions(s, rs)) = Len(rs)
         /\ DOMAIN ToSessions(s, rs) = 1 .. Len(rs) /\ Len(rs) \in Nat
         /\ \A i \in 1 .. Len(rs) : rs[i] \in Responses
         /\ \A i \in 1 .. Len(rs) : ToSessions(s, rs)[i] = ToSession(s, rs[i])
<1>1. Len(rs) \in Nat /\ DOMAIN rs = 1 .. Len(rs) /\ \A i \in 1 .. Len(rs) : rs[i] \in Responses
  BY LenProperties, ElementOfSeq
<1>2. ToSessions(s, rs) \in [1 .. Len(rs) -> Messages]
  <2>1. \A i \in 1 .. Len(rs) : ToSession(s, rs[i]) \in Messages
    BY <1>1, ToSessionTyped
  <2> QED BY <1>1, <2>1 DEF ToSessions
<1>3. \A i \in 1 .. Len(rs) : ToSessions(s, rs)[i] = ToSession(s, rs[i])
  BY <1>1 DEF ToSessions
<1> QED BY <1>1, <1>2, <1>3, SeqOf

\* The end of a job.
LEMMA FinishedTyped ==
  ASSUME NEW ok \in BOOLEAN, NEW job \in Jobs
  PROVE  /\ Finished(ok, job) \in Responses /\ Finished(ok, job).kind = "finished"
         /\ Finished(ok, job).ok = ok
<1>1. Finished(ok, job) \in Ends
  BY JobFields DEF Finished, Ends
<1> QED BY <1>1 DEF Finished, Responses

\* The kind tells what a response is.
LEMMA ResponseKinds ==
  ASSUME NEW r \in Responses
  PROVE  /\ r.kind \in {"segment", "speech", "finished"}
         /\ r.kind = "segment" => /\ r.session \in Sessions /\ r.begin \in Nat
                                  /\ r.from \in Nat /\ r.to \in Nat
         /\ r.kind = "speech" => r.at \in Nat
         /\ r.kind = "finished" => r.ok \in BOOLEAN
BY DEF Responses, Texts, Speeches, Ends

\* What a client hears.
LEMMA HeardTyped ==
  ASSUME NEW h \in Hearings, NEW r \in Responses
  PROVE  Heard(h, r) \in Hearings
<1>1. CASE r.kind = "segment"
  BY <1>1, ResponseKinds DEF Heard, Hearings
<1>2. CASE r.kind = "speech"
  BY <1>2, ResponseKinds DEF Heard, Hearings
<1>3. CASE r.kind \notin {"segment", "speech"}
  BY <1>3 DEF Heard
<1> QED BY <1>1, <1>2, <1>3

\* The tasks of a job.
LEMMA VadTaskTyped ==
  ASSUME NEW job \in Jobs
  PROVE  VadTask(job) \in VadTasks /\ VadTask(job) \in Tasks
<1>1. VadTask(job) \in VadTasks
  BY JobFields DEF VadTask, VadTasks
<1> QED BY <1>1, VadTaskFields

\* The same of a Whisper window.
LEMMA WhisperTaskTyped ==
  ASSUME NEW job \in Jobs, NEW plan, PlanOK(job, plan)
  PROVE  WhisperTask(job, plan) \in WhisperTasks /\ WhisperTask(job, plan) \in Tasks
<1>1. plan.start \in Nat /\ plan.end \in Nat
  BY DEF PlanOK
<1>2. WhisperTask(job, plan) \in WhisperTasks
  BY <1>1, JobFields DEF WhisperTask, WindowBegin, WhisperTasks
<1> QED BY <1>2, WhisperFields

\* The speech events of a window.
LEMMA SpeechEventsTyped ==
  ASSUME NEW job \in Jobs, NEW plan, PlanOK(job, plan)
  PROVE  /\ SpeechEvents(job, plan) \in Seq(Responses)
         /\ Len(SpeechEvents(job, plan)) = 2 * Len(plan.speech) /\ Len(plan.speech) \in Nat
<1> DEFINE m == Len(plan.speech)
           e == SpeechEvents(job, plan)
<1>1. plan.speech \in Seq(Pairs) /\ m \in Nat /\ job.offset \in Nat
  BY JobFields, LenProperties DEF PlanOK, InOrder
<1>2. ASSUME NEW k \in 1 .. 2 * m PROVE e[k] \in Responses
  <2>1. (k + 1) \div 2 \in 1 .. m /\ 2 - (k % 2) \in {1, 2}
    BY <1>1
  <2>2. plan.speech[(k + 1) \div 2] \in Pairs
    BY <1>1, <2>1, ElementOfSeq
  <2>3. plan.speech[(k + 1) \div 2][2 - (k % 2)] \in Nat
    BY <2>1, <2>2 DEF Pairs
  <2>4. e[k] = [kind |-> "speech",
                at |-> job.offset + plan.speech[(k + 1) \div 2][2 - (k % 2)]]
    BY DEF SpeechEvents
  <2>5. e[k] \in Speeches
    <3> DEFINE place == plan.speech[(k + 1) \div 2][2 - (k % 2)]
    <3>1. job.offset + place \in Nat
      BY <1>1, <2>3
    <3> HIDE DEF place, e
    <3> QED BY <2>4, <3>1 DEF Speeches, place
  <2> QED BY <2>5 DEF Responses
<1>3. e \in [1 .. 2 * m -> Responses]
  <2>1. DOMAIN e = 1 .. 2 * m /\ e = [k \in 1 .. 2 * m |-> e[k]]
    BY DEF SpeechEvents
  <2> QED BY <1>2, <2>1
<1>4. 2 * m \in Nat
  BY <1>1
<1> HIDE DEF e, m
<1> QED BY <1>1, <1>3, <1>4, SeqOf DEF e, m

\* The text of results.
LEMMA SegmentResponsesTyped ==
  ASSUME NEW rs \in Seq(WhisperTasks)
  PROVE  SegmentResponses(rs) \in Seq(Responses) /\ Len(SegmentResponses(rs)) = Len(rs)
<1>1. Len(rs) \in Nat /\ DOMAIN rs = 1 .. Len(rs)
  BY LenProperties
<1>2. \A i \in 1 .. Len(rs) : SegmentResponses(rs)[i] \in Responses
  <2> SUFFICES ASSUME NEW i \in 1 .. Len(rs) PROVE SegmentResponses(rs)[i] \in Responses
    OBVIOUS
  <2>1. rs[i] \in WhisperTasks
    BY <1>1, ElementOfSeq
  <2>2. SegmentResponses(rs)[i] \in Texts
    BY <1>1, <2>1, WhisperFields DEF SegmentResponses, Texts
  <2> QED BY <2>2 DEF Responses
<1>3. SegmentResponses(rs) \in [1 .. Len(rs) -> Responses]
  BY <1>1, <1>2 DEF SegmentResponses
<1> QED BY <1>1, <1>3, SeqOf

-----------------------------------------------------------------------------
(* Whose turn it is. *)

\* Division with rest.
LEMMA ModDef ==
  ASSUME NEW n \in Nat \ {0}, NEW c \in Nat
  PROVE  c % n \in 0 .. n - 1 /\ c \div n \in Nat /\ c = n * (c \div n) + (c % n)
OBVIOUS

\* The rest is the only one.
LEMMA ModUnique ==
  ASSUME NEW n \in Nat \ {0}, NEW q \in Nat, NEW r \in 0 .. n - 1
  PROVE  (n * q + r) % n = r
OBVIOUS

\* Everyone's turn comes.
LEMMA TurnComes ==
  ASSUME active \in Seq(Jobs), cursor \in Nat, NEW i \in DOMAIN active
  PROVE  \E k \in 0 .. Len(active) - 1 : Turn(k) = i
<1> DEFINE n == Len(active)
           q == cursor \div n
           r == cursor % n
<1>1. n \in Nat \ {0} /\ i \in 1 .. n
  BY LenProperties
<1> HIDE DEF n
<1>2. r \in 0 .. n - 1 /\ q \in Nat /\ cursor = n * q + r
  BY <1>1, ModDef
<1> HIDE DEF q, r
<1>3. n * q \in Nat /\ n * (q + 1) = n * q + n /\ q + 1 \in Nat
  BY <1>1, <1>2
<1>4. CASE r <= i - 1
  <2> DEFINE k == i - 1 - r
  <2>1. k \in 0 .. n - 1 /\ cursor + k = n * q + (i - 1) /\ i - 1 \in 0 .. n - 1
    <3>1. n \in Nat /\ i \in Nat /\ r \in Nat /\ n * q \in Nat /\ 1 <= i /\ i <= n
      BY <1>1, <1>2, <1>3
    <3>2. k \in 0 .. n - 1 /\ i - 1 \in 0 .. n - 1
      BY <3>1, <1>4
    <3>3. cursor + k = n * q + (i - 1)
      BY <3>1, <1>2
    <3> QED BY <3>2, <3>3
  <2>2. (cursor + k) % n = i - 1
    <3> HIDE DEF k
    <3> QED BY <1>1, <1>2, <2>1, ModUnique
  <2>3. Turn(k) = i
    <3> HIDE DEF k
    <3> QED BY <1>1, <2>2 DEF Turn, n
  <2> QED BY <2>1, <2>3 DEF n
<1>5. CASE i - 1 < r
  <2> DEFINE k == i - 1 - r + n
  <2>1. k \in 0 .. n - 1 /\ cursor + k = n * (q + 1) + (i - 1) /\ i - 1 \in 0 .. n - 1
    BY <1>1, <1>2, <1>3, <1>5
  <2>2. (cursor + k) % n = i - 1
    <3> HIDE DEF k
    <3> QED BY <1>1, <1>3, <2>1, ModUnique
  <2>3. Turn(k) = i
    <3> HIDE DEF k
    <3> QED BY <1>1, <2>2 DEF Turn, n
  <2> QED BY <2>1, <2>3 DEF n
<1> QED BY <1>1, <1>2, <1>4, <1>5

\* The next turn is that of a job that is ready.
LEMMA NextTurnIsReady ==
  ASSUME SchedulerTyped, NEW ready \in SUBSET (DOMAIN active), ready # {},
         NEW k, k = NextTurn(ready)
  PROVE  /\ Turn(k) \in ready
         /\ (cursor + k + 1) % Len(active) \in 0 .. MaxActive
<1>1. /\ active \in Seq(Jobs) /\ Len(active) <= MaxActive /\ cursor \in Nat
      /\ DOMAIN active = 1 .. Len(active) /\ Len(active) \in Nat \ {0}
      /\ MaxActive \in Nat
  <2>1. active \in Seq(Jobs) /\ Len(active) <= MaxActive /\ cursor \in Nat /\ MaxActive \in Nat
    BY LimitTypes DEF SchedulerTyped
  <2>2. DOMAIN active = 1 .. Len(active) /\ Len(active) \in Nat
    BY <2>1, LenProperties
  <2>3. PICK i : i \in 1 .. Len(active)
    BY <2>2
  <2> QED BY <2>1, <2>2, <2>3
<1> DEFINE T == Turns(ready)
           First(j) == j \in T /\ \A h \in T : j <= h
           Less == {ss \in Nat \X Nat : ss[1] < ss[2]}
<1>2. T \subseteq Nat /\ \A j \in T : Turn(j) \in ready
  BY <1>1 DEF Turns
<1>3. T # {}
  <2>1. PICK i \in ready : TRUE
    OBVIOUS
  <2>2. PICK j \in 0 .. Len(active) - 1 : Turn(j) = i
    BY <1>1, <2>1, TurnComes
  <2> QED BY <2>1, <2>2 DEF Turns
<1> HIDE DEF T
<1>4. PICK j : First(j)
  <2>1. IsWellFoundedOn(Less, Nat)
    BY NatLessThanWellFounded DEF OpToRel
  <2>2. PICK j \in T : \A h \in T : <<h, j>> \notin Less
    <3> HIDE DEF Less
    <3> QED BY <1>2, <1>3, <2>1, WFMin
  <2>3. ASSUME NEW h \in T PROVE j <= h
    <3>1. j \in Nat /\ h \in Nat /\ <<h, j>> \notin Less
      BY <1>2, <2>2
    <3> QED BY <3>1
  <2> QED BY <2>2, <2>3
<1>5. NextTurn(ready) = CHOOSE m \in T : \A h \in T : m <= h
  BY DEF NextTurn, T
<1>6. k \in T
  BY <1>4, <1>5
<1>7. k \in Nat /\ Turn(k) \in ready
  BY <1>2, <1>6
<1>8. (cursor + k + 1) % Len(active) \in 0 .. Len(active) - 1
  <2>1. cursor + k + 1 \in Nat
    BY <1>1, <1>7
  <2> QED BY <1>1, <2>1, ModDef
<1> QED BY <1>1, <1>7, <1>8

\* At most one active job has the id of a result.
LEMMA AddresseeIs ==
  ASSUME active \in Seq(Jobs), NEW r,
         \A i, j \in DOMAIN active : i # j => active[i].id # active[j].id
  PROVE  /\ Addressee(r) = {} => \A i \in DOMAIN active : active[i].id # r.job
         /\ \A i \in DOMAIN active : active[i].id = r.job => Addressee(r) = {i}
         /\ Addressee(r) # {} => \E i \in DOMAIN active : active[i].id = r.job
<1>1. DOMAIN active = 1 .. Len(active) /\ Len(active) \in Nat
  BY LenProperties
<1>2. ASSUME NEW i \in DOMAIN active, active[i].id = r.job PROVE Addressee(r) = {i}
  <2>1. \A h \in 1 .. i - 1 : h \in DOMAIN active /\ h # i
    BY <1>1
  <2>2. i \in Addressee(r)
    BY <1>2, <2>1 DEF Addressee
  <2>3. \A j \in Addressee(r) : j = i
    BY <1>2 DEF Addressee
  <2> QED BY <2>2, <2>3
<1>3. Addressee(r) # {} => \E i \in DOMAIN active : active[i].id = r.job
  BY DEF Addressee
<1> QED BY <1>2, <1>3

-----------------------------------------------------------------------------
(* Every step keeps the types. *)

\* What does not change keeps its type.
LEMMA TypesFrame ==
  /\ SessionsTyped /\ UNCHANGED sessionVars => SessionsTyped'
  /\ WorkersTyped /\ UNCHANGED workerVars => WorkersTyped'
  /\ SchedulerTyped /\ UNCHANGED schedulerVars => SchedulerTyped'
<1>1. SessionsTyped /\ UNCHANGED sessionVars => SessionsTyped'
  BY DEF SessionsTyped, sessionVars, Phases, Readers, Finals
<1>2. WorkersTyped /\ UNCHANGED workerVars => WorkersTyped'
  BY DEF WorkersTyped, workerVars, NPU_WORKERS
<1>3. SchedulerTyped /\ UNCHANGED schedulerVars => SchedulerTyped'
  BY DEF SchedulerTyped, schedulerVars
<1> QED BY <1>1, <1>2, <1>3

\* The session thread.
LEMMA SessionThreadTyped ==
  ASSUME SessionsTyped, NEW s \in Sessions, SessionThread(s)
  PROVE  SessionsTyped'
<1> USE DEF Phases, Readers, Finals
<1>1. /\ phase \in [Sessions -> Phases] /\ reader \in [Sessions -> Readers]
      /\ final \in [Sessions -> Finals]
      /\ respQ \in [Sessions -> Seq(Responses)] /\ heard \in [Sessions -> Hearings]
      /\ jobQ \in Seq(Sessions) /\ Len(jobQ) <= JobQueue
      /\ JobQueue \in Nat /\ ResponseQueue \in Nat
      /\ \A t \in Sessions : Len(respQ[t]) <= ResponseQueue
  BY LimitTypes DEF SessionsTyped
<1>2. CASE Submit(s)
  <2>1. CASE JobQueueRoom
    <3>1. Append(jobQ, s) \in Seq(Sessions) /\ Len(Append(jobQ, s)) <= JobQueue
      <4>1. Len(jobQ) \in Nat
        BY <1>1, LenProperties
      <4> QED BY <1>1, <2>1, <4>1, AppendProperties DEF JobQueueRoom
    <3> QED BY <1>2, <2>1, <3>1 DEF Submit, SessionsTyped
  <2>2. CASE ~JobQueueRoom
    BY <1>2, <2>2 DEF Submit, SessionsTyped
  <2> QED BY <2>1, <2>2
<1> DEFINE q == respQ[s]
<1>3. ASSUME q # <<>>
      PROVE  /\ Head(q) \in Responses /\ Tail(q) \in Seq(Responses)
             /\ Len(Tail(q)) <= ResponseQueue
  <2>1. q \in Seq(Responses) /\ Len(q) <= ResponseQueue
    BY <1>1
  <2> HIDE DEF q
  <2>2. Head(q) \in Responses /\ Tail(q) \in Seq(Responses) /\ Len(q) \in Nat
        /\ Len(Tail(q)) = Len(q) - 1
    BY <1>3, <2>1, Taken
  <2> QED BY <2>1, <2>2, <1>1
<1>4. CASE WriteResponse(s)
  <2>1. Heard(heard[s], Head(q)) \in Hearings
    BY <1>1, <1>3, <1>4, HeardTyped DEF WriteResponse
  <2>2. heard' \in [Sessions -> Hearings] /\ respQ' \in [Sessions -> Seq(Responses)]
        /\ \A t \in Sessions : Len(respQ'[t]) <= ResponseQueue
    <3> HIDE DEF Responses, Hearings
    <3> QED BY <1>1, <1>3, <1>4, <2>1 DEF WriteResponse
  <2> QED BY <1>4, <2>2 DEF WriteResponse, SessionsTyped
<1>5. CASE WriteFails(s)
  <2>1. <<>> \in Seq(Responses) /\ Len(<<>>) = 0
    BY EmptySeq
  <2>2. respQ' \in [Sessions -> Seq(Responses)]
        /\ \A t \in Sessions : Len(respQ'[t]) <= ResponseQueue
    BY <1>1, <1>5, <2>1 DEF WriteFails
  <2> QED BY <1>5, <2>2 DEF WriteFails, SessionsTyped
<1>8. CASE SpawnFails(s)
  <2>1. Len(jobQ) \in Nat /\ Len(jobQ) < JobQueue
    BY <1>1, <1>8, LenProperties DEF SpawnFails, JobQueueRoom
  <2>2. Append(jobQ, s) \in Seq(Sessions) /\ Len(Append(jobQ, s)) <= JobQueue
    BY <1>1, <2>1, AppendProperties
  <2> QED BY <1>8, <2>2 DEF SpawnFails, SessionsTyped
<1>6. CASE TakeFinished(s)
  <2>1. respQ' \in [Sessions -> Seq(Responses)]
        /\ \A t \in Sessions : Len(respQ'[t]) <= ResponseQueue
    BY <1>1, <1>3, <1>6 DEF TakeFinished
  <2> QED BY <1>6, <2>1 DEF TakeFinished, SessionsTyped
<1>7. CASE JoinReader(s)
  <2>1. <<>> \in Seq(Responses) /\ Len(<<>>) = 0
    BY EmptySeq
  <2>2. respQ' \in [Sessions -> Seq(Responses)]
        /\ \A t \in Sessions : Len(respQ'[t]) <= ResponseQueue
    BY <1>1, <1>7, <2>1 DEF JoinReader
  <2>3. FinalResponse(reader[s], final[s]) \in Finals
    <3>1. reader[s] \in {"completed", "cancelled", "failed"}
      BY <1>1, <1>7 DEF JoinReader, Reading, SessionsTyped
    <3>2. CASE reader[s] = "failed" \/ final[s] = "err"
      BY <3>2 DEF FinalResponse
    <3>3. CASE reader[s] # "failed" /\ final[s] # "err"
      BY <3>1, <3>3 DEF FinalResponse
    <3> QED BY <3>2, <3>3
  <2> QED BY <1>1, <1>7, <2>2, <2>3 DEF JoinReader, SessionsTyped
<1> QED BY <1>2, <1>4, <1>5, <1>6, <1>7, <1>8 DEF SessionThread

\* The reader thread.
LEMMA ReaderThreadTyped ==
  ASSUME SessionsTyped, NEW s \in Sessions, NEW held, ReaderThread(s, held)
  PROVE  SessionsTyped'
<1> USE DEF Phases, Readers, Finals
<1>1. /\ reader \in [Sessions -> Readers] /\ sent \in [Sessions -> 0 .. MaxChunks]
      /\ chunkQ \in [Sessions -> Seq({"audio", "error"})]
      /\ \A t \in Sessions : Len(chunkQ[t]) <= ChunkQueue
      /\ MaxChunks \in Nat /\ ChunkQueue \in Nat
  BY LimitTypes DEF SessionsTyped
<1> DEFINE q == chunkQ[s]
<1>2. ASSUME Len(q) < ChunkQueue, NEW c \in {"audio", "error"}
      PROVE  Append(q, c) \in Seq({"audio", "error"}) /\ Len(Append(q, c)) <= ChunkQueue
  <2>1. q \in Seq({"audio", "error"}) /\ Len(q) \in Nat
    BY <1>1, LenProperties
  <2> HIDE DEF q
  <2> QED BY <1>1, <1>2, <2>1, AppendProperties
<1>3. CASE ReadAudio(s)
  BY <1>3 DEF ReadAudio, SessionsTyped
<1>4. CASE SendChunk(s, held)
  <2>1. CASE held
    <3>1. sent' \in [Sessions -> 0 .. MaxChunks]
          /\ chunkQ' \in [Sessions -> Seq({"audio", "error"})]
          /\ \A t \in Sessions : Len(chunkQ'[t]) <= ChunkQueue
      <4>1. sent[s] < MaxChunks /\ sent[s] + 1 \in 0 .. MaxChunks /\ Len(q) < ChunkQueue
        BY <1>1, <1>4, <2>1 DEF SendChunk, SessionsTyped
      <4>2. Append(q, "audio") \in Seq({"audio", "error"}) /\ Len(Append(q, "audio")) <= ChunkQueue
        BY <1>2, <4>1
      <4> QED BY <1>1, <1>4, <2>1, <4>1, <4>2 DEF SendChunk
    <3> QED BY <1>4, <2>1, <3>1 DEF SendChunk, SessionsTyped
  <2>2. CASE ~held
    BY <1>4, <2>2 DEF SendChunk, SessionsTyped
  <2> QED BY <2>1, <2>2
<1>5. CASE EndOfStream(s)
  BY <1>5 DEF EndOfStream, SessionsTyped
<1>6. CASE Cancel(s) \/ ReaderFails(s)
  BY <1>6 DEF Cancel, ReaderFails, SessionsTyped
<1>7. CASE BadSignal(s, held)
  <2>1. chunkQ' \in [Sessions -> Seq({"audio", "error"})]
        /\ \A t \in Sessions : Len(chunkQ'[t]) <= ChunkQueue
    BY <1>1, <1>2, <1>7 DEF BadSignal
  <2> QED BY <1>7, <2>1 DEF BadSignal, SessionsTyped
<1> QED BY <1>3, <1>4, <1>5, <1>6, <1>7 DEF ReaderThread

\* The workers.
LEMMA WorkerThreadTyped ==
  ASSUME WorkersTyped, TokenInv, NEW w \in Workers, WorkerThread(w)
  PROVE  WorkersTyped'
<1> USE DEF WorkerPCs
<1>1. /\ workerPC \in [Workers -> WorkerPCs]
      /\ task \in [Workers -> Slots] /\ inbox \in [Workers -> Slots]
      /\ readyQ \in Seq(Workers) /\ Len(readyQ) <= NPU_WORKERS
      /\ resultQ \in Seq(AllResults) /\ Len(resultQ) <= NPU_WORKERS
      /\ NPU_WORKERS \in Nat /\ Len(readyQ) \in Nat /\ Len(resultQ) \in Nat
  BY NpuWorkersNat, LenProperties DEF WorkersTyped
<1>2. <<>> \in Slots
  BY DEF Slots
<1>3. ASSUME NEW r \in AllResults, Len(resultQ) < NPU_WORKERS,
             resultQ' = Append(resultQ, r)
      PROVE  resultQ' \in Seq(AllResults) /\ Len(resultQ') <= NPU_WORKERS
  BY <1>1, <1>3, AppendProperties
<1>4. NPU_WORKERS' = NPU_WORKERS
  BY DEF NPU_WORKERS
<1>5. CASE Load(w)
  BY <1>1, <1>4, <1>5 DEF Load, GoTo, WorkersTyped
<1>6. CASE LoadFails(w)
  <2>1. [kind |-> "error", job |-> 0] \in AllResults
    BY DEF ErrorResults, AllResults
  <2>2. resultQ' \in Seq(AllResults) /\ Len(resultQ') <= NPU_WORKERS
    BY <1>3, <1>6, <2>1 DEF LoadFails
  <2> QED BY <1>1, <1>4, <1>6, <2>2 DEF LoadFails, GoTo, WorkersTyped
<1>7. CASE Announce(w)
  <2>1. readyQ' \in Seq(Workers) /\ Len(readyQ') <= NPU_WORKERS
    BY <1>1, <1>7, AppendProperties DEF Announce
  <2> QED BY <1>1, <1>4, <1>7, <2>1 DEF Announce, GoTo, WorkersTyped
<1>8. CASE ReceiveTask(w)
  BY <1>1, <1>2, <1>4, <1>8 DEF ReceiveTask, GoTo, WorkersTyped
<1>9. CASE ReportResult(w)
  <2>1. task[w][1] \in Tasks
    BY <1>1, <1>9, SlotFields DEF ReportResult, TokenInv
  <2>2. PICK r \in Results(task[w][1]) : resultQ' = Append(resultQ, r)
    BY <1>9 DEF ReportResult
  <2>3. r \in AllResults
    BY <2>1, <2>2, ResultsTyped
  <2>4. resultQ' \in Seq(AllResults) /\ Len(resultQ') <= NPU_WORKERS
    BY <1>3, <1>9, <2>2, <2>3 DEF ReportResult
  <2> QED BY <1>1, <1>2, <1>4, <1>9, <2>4 DEF ReportResult, GoTo, WorkersTyped
<1> QED BY <1>5, <1>6, <1>7, <1>8, <1>9 DEF WorkerThread

\* A step of the scheduler changes active and outbox.
LEMMA SchedulerTypes ==
  ASSUME SchedulerTyped, active' \in Seq(Jobs), Len(active') <= MaxActive,
         outbox' \in Seq(Messages), pc' \in PCs, at' \in 1 .. MaxActive + 1,
         nextId' \in Ids, cursor' \in 0 .. MaxActive
  PROVE  SchedulerTyped'
BY DEF SchedulerTyped

\* What the scheduler's step begins with.
LEMMA SchedulerValues ==
  ASSUME SchedulerTyped
  PROVE  /\ active \in Seq(Jobs) /\ Len(active) <= MaxActive /\ Len(active) \in Nat
         /\ DOMAIN active = 1 .. Len(active)
         /\ \A i \in DOMAIN active : active[i] \in Jobs /\ active[i].session \in Sessions
         /\ outbox \in Seq(Messages) /\ DOMAIN outbox = 1 .. Len(outbox)
         /\ Len(outbox) \in Nat /\ \A i \in DOMAIN outbox : outbox[i] \in Messages
         /\ pc \in PCs /\ at \in 1 .. MaxActive + 1 /\ nextId \in Nat \ {0}
         /\ nextId + 1 \in Ids /\ cursor \in 0 .. MaxActive /\ MaxActive \in Nat \ {0}
         /\ <<>> \in Seq(Messages)
<1>1. active \in Seq(Jobs) /\ outbox \in Seq(Messages)
  BY DEF SchedulerTyped
<1> HIDE DEF Jobs, Messages
<1>2. /\ Len(active) \in Nat /\ DOMAIN active = 1 .. Len(active)
      /\ \A i \in DOMAIN active : active[i] \in Jobs
      /\ DOMAIN outbox = 1 .. Len(outbox) /\ Len(outbox) \in Nat
      /\ \A i \in DOMAIN outbox : outbox[i] \in Messages
      /\ <<>> \in Seq(Messages)
  BY <1>1, LenProperties, ElementOfSeq, EmptySeq
<1>3. \A i \in DOMAIN active : active[i].session \in Sessions
  BY <1>2, JobFields
<1> QED BY <1>1, <1>2, <1>3, LimitTypes DEF SchedulerTyped, Ids

\* Sends.
LEMMA SendTyped ==
  ASSUME TypeInv, Send
  PROVE  TypeInv'
<1>1. outbox \in Seq(Messages) /\ outbox # <<>>
  BY DEF TypeInv, SchedulerTyped, Send, Respond, Post
<1>2. Head(outbox) \in Messages /\ Tail(outbox) \in Seq(Messages)
  <2> HIDE DEF Messages
  <2> QED BY <1>1, Taken
<1>3. SchedulerTyped'
  BY <1>2 DEF TypeInv, SchedulerTyped, Send, Respond, Post
<1>4. CASE Respond
  <2> DEFINE s == Head(outbox).session
             r == Head(outbox).response
  <2>1. s \in Sessions /\ r \in Responses
    BY <1>2, <1>4, MessageFields DEF Respond
  <2>2. /\ respQ \in [Sessions -> Seq(Responses)] /\ ResponseQueue \in Nat
        /\ \A t \in Sessions : Len(respQ[t]) <= ResponseQueue
    BY LimitTypes DEF TypeInv, SessionsTyped
  <2>3. respQ' = respQ \/ (Len(respQ[s]) < ResponseQueue
                           /\ respQ' = [respQ EXCEPT ![s] = Append(@, r)])
    BY <1>4 DEF Respond
  <2> HIDE DEF s, r
  <2>4. respQ' \in [Sessions -> Seq(Responses)]
        /\ \A t \in Sessions : Len(respQ'[t]) <= ResponseQueue
    <3>1. CASE respQ' = respQ
      BY <2>2, <3>1
    <3>2. CASE Len(respQ[s]) < ResponseQueue /\ respQ' = [respQ EXCEPT ![s] = Append(@, r)]
      <4>1. Append(respQ[s], r) \in Seq(Responses) /\ Len(Append(respQ[s], r)) <= ResponseQueue
        <5>1. respQ[s] \in Seq(Responses)
          BY <2>1, <2>2
        <5>2. Len(Append(respQ[s], r)) = Len(respQ[s]) + 1 /\ Len(respQ[s]) \in Nat
              /\ Append(respQ[s], r) \in Seq(Responses)
          BY <2>1, <5>1, Put
        <5> QED BY <2>2, <3>2, <5>2
      <4> QED BY <2>1, <2>2, <3>2, <4>1
    <3> QED BY <2>3, <3>1, <3>2
  <2>5. SessionsTyped'
    BY <1>4, <2>4 DEF Respond, TypeInv, SessionsTyped
  <2>6. WorkersTyped'
    BY <1>4, TypesFrame DEF Respond, TypeInv
  <2> QED BY <1>3, <2>5, <2>6 DEF TypeInv
<1>5. CASE Post
  <2> DEFINE w == Head(outbox).worker
             t == Head(outbox).task
  <2>1. w \in Workers /\ <<t>> \in Slots
    BY <1>2, <1>5, MessageFields DEF Post, Slots
  <2>2. inbox' = [inbox EXCEPT ![w] = <<t>>]
    BY <1>5 DEF Post
  <2> HIDE DEF w, t
  <2>3. WorkersTyped'
    BY <1>5, <2>1, <2>2 DEF Post, TypeInv, WorkersTyped, NPU_WORKERS
  <2>4. SessionsTyped'
    BY <1>5, TypesFrame DEF Post, TypeInv
  <2> QED BY <1>3, <2>3, <2>4 DEF TypeInv
<1> QED BY <1>4, <1>5 DEF Send

\* The jobs as they are when a drain ends.
Refreshed == IF pc = "drainLast"
             THEN [i \in DOMAIN active |-> RefreshSpeechState(active[i])] ELSE active

\* A drain ends: the incomplete jobs stay, in order, and the sessions of the
\* others are told.
Parted(stay, leave) ==
    /\ Picks(active', stay, Refreshed, {i \in DOMAIN Refreshed : Incomplete(Refreshed[i])},
             Len(active))
    /\ leave \in [DOMAIN outbox' -> DOMAIN active]
    /\ \A j \in DOMAIN outbox' :
        LET job == Refreshed[leave[j]] IN
        IsComplete(job) /\ outbox'[j] = ToSession(job.session, Finished(TRUE, job))
    /\ \A i \in DOMAIN active : IsComplete(Refreshed[i]) => \E j \in DOMAIN outbox' : leave[j] = i

\* The jobs at the end of a drain.
LEMMA RefreshedJobs ==
  ASSUME SchedulerTyped, JobsOK
  PROVE  /\ Refreshed \in Seq(Jobs) /\ DOMAIN Refreshed = DOMAIN active
         /\ Len(Refreshed) = Len(active)
         /\ \A i \in DOMAIN active :
              /\ JobOK(Refreshed[i]) /\ Refreshed[i] \in Jobs
              /\ Refreshed[i] = active[i] \/ Refreshed[i] = RefreshSpeechState(active[i])
              /\ Refreshed[i].id = active[i].id /\ Refreshed[i].session = active[i].session
<1>1. /\ active \in Seq(Jobs) /\ Len(active) \in Nat /\ DOMAIN active = 1 .. Len(active)
      /\ \A i \in DOMAIN active : active[i] \in Jobs
  BY SchedulerValues
<1>2. \A i \in DOMAIN active : /\ RefreshSpeechState(active[i]) \in Jobs
                               /\ JobOK(RefreshSpeechState(active[i]))
  BY <1>1, RefreshOK DEF JobsOK
<1>3. \A i \in DOMAIN active : /\ RefreshSpeechState(active[i]).id = active[i].id
                               /\ RefreshSpeechState(active[i]).session = active[i].session
  BY <1>1 DEF RefreshSpeechState, Jobs
<1>4. CASE pc = "drainLast"
  <2> DEFINE r == [i \in DOMAIN active |-> RefreshSpeechState(active[i])]
  <2>1. Refreshed = r
    BY <1>4 DEF Refreshed
  <2>2. r \in [1 .. Len(active) -> Jobs]
    BY <1>1, <1>2
  <2>3. r \in Seq(Jobs) /\ Len(r) = Len(active) /\ DOMAIN r = DOMAIN active
    <3> HIDE DEF r
    <3> QED BY <1>1, <2>2, SeqOf
  <2>4. \A i \in DOMAIN active : r[i] = RefreshSpeechState(active[i])
    OBVIOUS
  <2> HIDE DEF r
  <2> QED BY <1>2, <1>3, <2>1, <2>3, <2>4
<1>5. CASE pc # "drainLast"
  BY <1>1, <1>5 DEF Refreshed, JobsOK
<1> QED BY <1>4, <1>5

\* What EndDrain does.
LEMMA EndDrainEffect ==
  ASSUME SchedulerTyped, JobsOK, EndDrain
  PROVE  /\ active' \in Seq(Jobs) /\ outbox' \in Seq(Messages)
         /\ \E stay, leave : Parted(stay, leave)
<1> DEFINE good == {i \in DOMAIN Refreshed : Incomplete(Refreshed[i])}
           bad  == {i \in DOMAIN Refreshed : IsComplete(Refreshed[i])}
           done == Kept(Refreshed, bad)
<1>1. /\ Refreshed \in Seq(Jobs) /\ DOMAIN Refreshed = DOMAIN active
      /\ Len(Refreshed) = Len(active) /\ Len(active) \in Nat
      /\ DOMAIN active = 1 .. Len(active)
      /\ \A i \in DOMAIN active : Refreshed[i] \in Jobs
  BY RefreshedJobs, SchedulerValues
<1>2. /\ active' = Kept(Refreshed, good)
      /\ outbox' = [i \in DOMAIN done |-> ToSession(done[i].session, Finished(TRUE, done[i]))]
  BY DEF EndDrain, Refreshed
<1>3. active' \in Seq(Jobs) /\ \E stay : Picks(active', stay, Refreshed, good, Len(active))
  <2> HIDE DEF good
  <2> QED BY <1>1, <1>2, KeptPicks
<1>4. done \in Seq(Jobs) /\ \E leave : Picks(done, leave, Refreshed, bad, Len(active))
  <2> HIDE DEF bad
  <2> QED BY <1>1, KeptPicks
<1> HIDE DEF done
<1>5. Len(done) \in Nat /\ DOMAIN done = 1 .. Len(done)
      /\ \A i \in DOMAIN done : done[i] \in Jobs
  <2> HIDE DEF Jobs
  <2> QED BY <1>4, LenProperties, ElementOfSeq
<1>6. outbox' \in [1 .. Len(done) -> Messages]
  <2>1. \A i \in DOMAIN done : ToSession(done[i].session, Finished(TRUE, done[i])) \in Messages
    BY <1>5, JobFields, FinishedTyped, ToSessionTyped
  <2> QED BY <1>2, <1>5, <2>1
<1>7. outbox' \in Seq(Messages) /\ DOMAIN outbox' = 1 .. Len(done)
  <2> HIDE DEF Messages
  <2> QED BY <1>5, <1>6, SeqOf
<1>8. PICK stay : Picks(active', stay, Refreshed, good, Len(active))
  BY <1>3
<1>9. PICK leave : Picks(done, leave, Refreshed, bad, Len(active))
  BY <1>4
<1>10. leave \in [DOMAIN outbox' -> DOMAIN active]
  BY <1>1, <1>7, <1>9 DEF Picks
<1>11. ASSUME NEW j \in DOMAIN outbox'
       PROVE  /\ IsComplete(Refreshed[leave[j]])
              /\ outbox'[j] = ToSession(Refreshed[leave[j]].session,
                                        Finished(TRUE, Refreshed[leave[j]]))
  <2>1. leave[j] \in bad /\ done[j] = Refreshed[leave[j]]
    <3> HIDE DEF bad
    <3> QED BY <1>7, <1>9 DEF Picks
  <2> QED BY <1>2, <1>5, <1>7, <2>1
<1>12. ASSUME NEW i \in DOMAIN active, IsComplete(Refreshed[i])
       PROVE  \E j \in DOMAIN outbox' : leave[j] = i
  <2>1. i \in bad /\ i \in 1 .. Len(active)
    BY <1>1, <1>12
  <2> HIDE DEF bad
  <2> QED BY <1>7, <1>9, <2>1 DEF Picks
<1>13. Parted(stay, leave)
  BY <1>8, <1>10, <1>11, <1>12 DEF Parted
<1> QED BY <1>3, <1>7, <1>13

\* The active job at place i is given another value.
Replaces(i, job) == i \in DOMAIN active /\ active' = [active EXCEPT ![i] = job]

\* A worker is given a VAD window of the job at i, or the window of a plan of it.
VadSent(w, i) ==
    /\ HasVadReady(active[i]) /\ Replaces(i, [active[i] EXCEPT !.vadBusy = TRUE])
    /\ outbox' = <<ToWorker(w, VadTask(active[i]))>>

WindowSent(w, i, plan) ==
    /\ HasWindowReady(active[i]) /\ plan \in DispatchPlans(active[i])
    /\ Replaces(i, AfterDispatch(active[i], plan))
    /\ outbox' = Append(ToSessions(active[i].session, SpeechEvents(active[i], plan)),
                        ToWorker(w, WhisperTask(active[i], plan)))

\* The ready branch always gives the worker something to do.
LEMMA SelectReadyEffect ==
  ASSUME SchedulerTyped, SelectReady
  PROVE  /\ cursor' \in 0 .. MaxActive
         /\ \E i \in DOMAIN active :
              \/ VadSent(Head(readyQ), i)
              \/ \E plan : WindowSent(Head(readyQ), i, plan)
<1> DEFINE w == Head(readyQ)
           k == NextTurn(VadReady)
           h == NextTurn(WindowReady)
<1>1. VadReady \subseteq DOMAIN active /\ WindowReady \subseteq DOMAIN active
  BY DEF VadReady, WindowReady
<1>2. VadReady # {} \/ WindowReady # {}
  BY DEF SelectReady, HasDispatchable, VadReady, WindowReady
<1>3. CASE VadReady # {}
  <2>1. DispatchVad(w, k)
    BY <1>3 DEF SelectReady
  <2>2. Turn(k) \in VadReady /\ (cursor + k + 1) % Len(active) \in 0 .. MaxActive
    <3> HIDE DEF k
    <3> QED BY <1>1, <1>3, NextTurnIsReady DEF k
  <2> HIDE DEF k, w
  <2>3. cursor' = (cursor + k + 1) % Len(active)
    BY <2>1 DEF DispatchVad
  <2>4. HasVadReady(active[Turn(k)]) /\ Turn(k) \in DOMAIN active
    BY <2>2 DEF VadReady
  <2>5. active' = [active EXCEPT ![Turn(k)] = [active[Turn(k)] EXCEPT !.vadBusy = TRUE]]
    BY <2>1 DEF DispatchVad
  <2>6. outbox' = <<ToWorker(w, VadTask(active[Turn(k)]))>>
    BY <2>1 DEF DispatchVad
  <2>7. VadSent(w, Turn(k))
    BY <2>4, <2>5, <2>6 DEF VadSent, Replaces
  <2> QED BY <2>2, <2>3, <2>4, <2>7 DEF w
<1>4. CASE VadReady = {}
  <2>1. WindowReady # {} /\ DispatchWindow(w, h)
    BY <1>2, <1>4 DEF SelectReady
  <2>2. Turn(h) \in WindowReady /\ (cursor + h + 1) % Len(active) \in 0 .. MaxActive
    <3> HIDE DEF h
    <3> QED BY <1>1, <2>1, NextTurnIsReady DEF h
  <2> HIDE DEF h, w
  <2>3. cursor' = (cursor + h + 1) % Len(active)
    BY <2>1 DEF DispatchWindow
  <2>4. HasWindowReady(active[Turn(h)]) /\ Turn(h) \in DOMAIN active
    BY <2>2 DEF WindowReady
  <2>5. \E plan \in DispatchPlans(active[Turn(h)]) :
          /\ active' = [active EXCEPT ![Turn(h)] = AfterDispatch(active[Turn(h)], plan)]
          /\ outbox' = Append(ToSessions(active[Turn(h)].session,
                                         SpeechEvents(active[Turn(h)], plan)),
                              ToWorker(w, WhisperTask(active[Turn(h)], plan)))
    BY <2>1 DEF DispatchWindow
  <2>6. \E plan : WindowSent(w, Turn(h), plan)
    BY <2>4, <2>5 DEF WindowSent, Replaces
  <2> QED BY <2>2, <2>3, <2>4, <2>6 DEF w
<1> QED BY <1>3, <1>4

\* The result branch hands a result to the one job that it is for.
LEMMA SelectResultEffect ==
  ASSUME SchedulerTyped, SelectResult,
         \A i, j \in DOMAIN active : i # j => active[i].id # active[j].id
  PROVE  LET r == Head(resultQ) IN
         \/ /\ \A i \in DOMAIN active : active[i].id # r.job
            /\ active' = active /\ outbox' = <<>>
         \/ \E i \in DOMAIN active :
              /\ active[i].id = r.job /\ Replaces(i, ApplyResult(active[i], r))
              /\ outbox' = IF r.kind = "vad" THEN <<>>
                           ELSE ToSessions(active[i].session,
                                           SegmentResponses(Deliverable(active[i], r)))
<1> DEFINE r   == Head(resultQ)
           for == Addressee(r)
<1>1. /\ active' = [i \in DOMAIN active |->
                      IF i \in for THEN ApplyResult(active[i], r) ELSE active[i]]
      /\ outbox' = IF for = {} \/ r.kind = "vad" THEN <<>>
                   ELSE LET job == active[CHOOSE i \in for : TRUE] IN
                        ToSessions(job.session, SegmentResponses(Deliverable(job, r)))
  BY DEF SelectResult
<1>2. /\ active \in Seq(Jobs) /\ Len(active) \in Nat /\ DOMAIN active = 1 .. Len(active)
  BY SchedulerValues
<1>3. /\ for = {} => \A i \in DOMAIN active : active[i].id # r.job
      /\ \A i \in DOMAIN active : active[i].id = r.job => for = {i}
      /\ for # {} => \E i \in DOMAIN active : active[i].id = r.job
  <2> HIDE DEF r
  <2> QED BY <1>2, AddresseeIs
<1>4. active = [i \in DOMAIN active |-> active[i]]
  <2>1. active \in [1 .. Len(active) -> Jobs]
    <3> HIDE DEF Jobs
    <3> QED BY <1>2, LenProperties
  <2> QED BY <2>1, <1>2
<1> HIDE DEF r, for
<1>5. CASE for = {}
  BY <1>1, <1>3, <1>4, <1>5 DEF r
<1>6. CASE for # {}
  <2>1. PICK i \in DOMAIN active : active[i].id = r.job /\ for = {i}
    BY <1>3, <1>6
  <2>2. (CHOOSE k \in for : TRUE) = i
    BY <2>1
  <2>3. outbox' = IF r.kind = "vad" THEN <<>>
                  ELSE ToSessions(active[i].session,
                                  SegmentResponses(Deliverable(active[i], r)))
    BY <1>1, <2>1, <2>2
  <2>4. active' = [active EXCEPT ![i] = ApplyResult(active[i], r)]
    BY <1>1, <1>4, <2>1
  <2> QED BY <2>1, <2>3, <2>4 DEF r, Replaces
<1> QED BY <1>5, <1>6

\* The first result is among what is outstanding.
LEMMA HeadIsOutstanding ==
  ASSUME WorkersTyped, resultQ # <<>>
  PROVE  /\ Head(resultQ) \in AllResults /\ Tail(resultQ) \in Seq(AllResults)
         /\ Len(Tail(resultQ)) <= NPU_WORKERS
         /\ \E o \in Outstanding : o.item = Head(resultQ) /\ o.place = <<"result", 1>>
<1>1. resultQ \in Seq(AllResults) /\ Len(resultQ) <= NPU_WORKERS
  BY DEF WorkersTyped
<1>2. /\ Head(resultQ) = resultQ[1] /\ Head(resultQ) \in AllResults /\ 1 \in DOMAIN resultQ
      /\ Tail(resultQ) \in Seq(AllResults) /\ Len(Tail(resultQ)) = Len(resultQ) - 1
      /\ Len(resultQ) \in Nat
  <2> HIDE DEF AllResults
  <2> QED BY <1>1, Taken
<1>3. [place |-> <<"result", 1>>, item |-> resultQ[1]] \in Outstanding
  BY <1>2 DEF Outstanding
<1> QED BY <1>1, <1>2, <1>3, NpuWorkersNat

\* The result that a job is handed is one that it waits for.
LEMMA ResultSuits ==
  ASSUME WorkersTyped, WorkInv, resultQ # <<>>, NEW i \in DOMAIN active,
         active[i].id = Head(resultQ).job
  PROVE  /\ Head(resultQ).kind = "whisper" => WhisperOwn(active[i], Head(resultQ))
         /\ Head(resultQ).kind = "vad" => VadOwn(active[i], Head(resultQ))
<1>1. PICK o \in Outstanding : o.item = Head(resultQ)
  BY HeadIsOutstanding
<1>2. o \in OutstandingFor(active[i])
  BY <1>1 DEF OutstandingFor
<1> QED BY <1>1, <1>2 DEF WorkInv, Suits, Whisper, Vad

\* What a result does to the job it is for.
LEMMA ApplyResultOK ==
  ASSUME WorkersTyped, SchedulerTyped, JobsOK, WorkInv, resultQ # <<>>,
         Head(resultQ).kind # "error", NEW i \in DOMAIN active,
         active[i].id = Head(resultQ).job
  PROVE  /\ ApplyResult(active[i], Head(resultQ)) \in Jobs
         /\ JobOK(ApplyResult(active[i], Head(resultQ)))
<1>1. active[i] \in Jobs /\ JobOK(active[i])
  BY SchedulerValues DEF JobsOK
<1>2. Head(resultQ) \in AllResults
  BY HeadIsOutstanding
<1>3. CASE Head(resultQ).kind = "vad"
  <2>1. Head(resultQ) \in VadResults /\ VadOwn(active[i], Head(resultQ))
    BY <1>2, <1>3, ResultKinds, ResultSuits
  <2> QED BY <1>1, <1>3, <2>1, HandleVadResultOK DEF ApplyResult
<1>4. CASE Head(resultQ).kind = "whisper"
  <2>1. Head(resultQ) \in WhisperTasks /\ WhisperOwn(active[i], Head(resultQ))
    BY <1>2, <1>4, ResultKinds, ResultSuits
  <2> QED BY <1>1, <1>4, <2>1, HandleResultOK DEF ApplyResult
<1> QED BY <1>2, <1>3, <1>4, ResultKinds

\* The jobs after one of them has changed.
LEMMA ReplacedOK ==
  ASSUME SchedulerTyped, JobsOK, NEW i, NEW job \in Jobs, JobOK(job), Replaces(i, job)
  PROVE  /\ active' \in Seq(Jobs) /\ Len(active') = Len(active) /\ JobsOK'
         /\ DOMAIN active' = DOMAIN active /\ active'[i] = job
         /\ \A k \in DOMAIN active : k # i => active'[k] = active[k]
<1>1. active \in Seq(Jobs) /\ i \in DOMAIN active
  BY DEF SchedulerTyped, Replaces
<1>2. /\ active' \in Seq(Jobs) /\ Len(active') = Len(active)
      /\ DOMAIN active' = DOMAIN active /\ active'[i] = job
      /\ \A k \in DOMAIN active : k # i => active'[k] = active[k]
  <2> HIDE DEF Jobs
  <2> QED BY <1>1, Exchanged DEF Replaces
<1>3. \A k \in DOMAIN active' : JobOK(active'[k])
  BY <1>2 DEF JobsOK
<1>4. JobsOK'
  BY <1>3 DEF JobsOK, JobOK, Decisions
<1> QED BY <1>2, <1>4

\* The jobs after one more has come.
LEMMA AppendedOK ==
  ASSUME SchedulerTyped, JobsOK, NEW id \in Ids, NEW s \in Sessions,
         active' = Append(active, NewJob(id, s))
  PROVE  /\ active' \in Seq(Jobs) /\ Len(active') = Len(active) + 1 /\ JobsOK'
         /\ DOMAIN active' = 1 .. Len(active) + 1
         /\ active'[Len(active) + 1] = NewJob(id, s)
         /\ \A k \in DOMAIN active : active'[k] = active[k] /\ k \in DOMAIN active'
<1>1. active \in Seq(Jobs) /\ NewJob(id, s) \in Jobs /\ JobOK(NewJob(id, s))
  BY NewJobOK DEF SchedulerTyped
<1>2. /\ active' \in Seq(Jobs) /\ Len(active') = Len(active) + 1 /\ Len(active) \in Nat
      /\ DOMAIN active' = 1 .. Len(active) + 1 /\ DOMAIN active = 1 .. Len(active)
      /\ active'[Len(active) + 1] = NewJob(id, s)
      /\ \A k \in DOMAIN active : active'[k] = active[k]
  <2> HIDE DEF Jobs
  <2> QED BY <1>1, Put
<1>3. \A k \in DOMAIN active' : k = Len(active) + 1 \/ k \in DOMAIN active
  BY <1>2
<1>4. \A k \in DOMAIN active' : JobOK(active'[k])
  BY <1>1, <1>2, <1>3 DEF JobsOK
<1>5. JobsOK'
  BY <1>4 DEF JobsOK, JobOK, Decisions
<1> QED BY <1>2, <1>5

\* The first job of a run comes where there was none.
LEMMA StartAppends ==
  ASSUME IdInv, StartRun
  PROVE  active = <<>> /\ active' = Append(active, NewJob(nextId, Head(jobQ)))
<1>1. active = <<>> /\ active' = <<NewJob(nextId, Head(jobQ))>>
  BY DEF IdInv, StartRun, At
<1>2. Append(<<>>, NewJob(nextId, Head(jobQ))) = <<NewJob(nextId, Head(jobQ))>>
  OBVIOUS
<1> QED BY <1>1, <1>2

\* A job that is taken from the queue.
LEMMA JobTaken ==
  ASSUME SessionsTyped, SchedulerTyped, JobsOK, jobQ # <<>>,
         active' = Append(active, NewJob(nextId, Head(jobQ))),
         jobQ' = Tail(jobQ), nextId' = NextId, Len(active) < MaxActive,
         UNCHANGED <<phase, reader, sent, chunkQ, respQ, heard, final, outbox>>,
         pc' \in PCs, at' \in 1 .. MaxActive + 1, cursor' \in 0 .. MaxActive
  PROVE  SessionsTyped' /\ SchedulerTyped' /\ JobsOK'
<1>1. jobQ \in Seq(Sessions) /\ Len(jobQ) <= JobQueue /\ JobQueue \in Nat
  BY LimitTypes DEF SessionsTyped
<1>2. /\ Head(jobQ) \in Sessions /\ Tail(jobQ) \in Seq(Sessions)
      /\ Len(Tail(jobQ)) = Len(jobQ) - 1 /\ Len(jobQ) \in Nat
  BY <1>1, Taken
<1>3. SessionsTyped'
  BY <1>1, <1>2 DEF SessionsTyped
<1>4. nextId \in Ids /\ nextId' \in Ids
  BY SchedulerValues DEF NextId, Ids
<1>5. active' \in Seq(Jobs) /\ Len(active') = Len(active) + 1 /\ JobsOK'
  BY <1>2, <1>4, AppendedOK
<1>6. Len(active') <= MaxActive
  BY <1>5, SchedulerValues
<1>7. SchedulerTyped'
  BY <1>4, <1>5, <1>6, SchedulerTypes, SchedulerValues
<1> QED BY <1>3, <1>5, <1>7

\* A chunk is taken by its job.
LEMMA DrainChunkTyped ==
  ASSUME TypeInv, JobsOK, DrainChunk
  PROVE  TypeInv' /\ JobsOK'
<1> DEFINE job == active[at]
           s   == job.session
           c   == Head(chunkQ[s])
<1>1. /\ at \in DOMAIN active /\ job \in Jobs /\ JobOK(job) /\ s \in Sessions
      /\ ~job.closed /\ chunkQ[s] # <<>>
      /\ chunkQ' = [chunkQ EXCEPT ![s] = Tail(chunkQ[s])]
      /\ active' = [active EXCEPT ![at] = AcceptChunk(job, c)]
      /\ outbox' = IF c = "error" THEN <<ToSession(s, Finished(FALSE, job))>> ELSE <<>>
  <2>1. at \in DOMAIN active
    BY SchedulerValues DEF TypeInv, DrainChunk, Draining
  <2> QED BY <2>1, SchedulerValues DEF TypeInv, DrainChunk, Drainable, JobsOK
<1> HIDE DEF job, c
<1>2. /\ chunkQ \in [Sessions -> Seq({"audio", "error"})] /\ ChunkQueue \in Nat
      /\ \A t \in Sessions : Len(chunkQ[t]) <= ChunkQueue
  BY LimitTypes DEF TypeInv, SessionsTyped
<1>3. Tail(chunkQ[s]) \in Seq({"audio", "error"}) /\ Len(Tail(chunkQ[s])) <= ChunkQueue
  <2>1. chunkQ[s] \in Seq({"audio", "error"}) /\ Len(chunkQ[s]) <= ChunkQueue
    BY <1>1, <1>2
  <2>2. Len(Tail(chunkQ[s])) = Len(chunkQ[s]) - 1 /\ Len(chunkQ[s]) \in Nat
        /\ Tail(chunkQ[s]) \in Seq({"audio", "error"})
    <3> HIDE DEF s
    <3> QED BY <1>1, <2>1, Taken
  <2> QED BY <1>2, <2>1, <2>2
<1>4. SessionsTyped'
  <2>1. chunkQ' \in [Sessions -> Seq({"audio", "error"})]
        /\ \A t \in Sessions : Len(chunkQ'[t]) <= ChunkQueue
    <3> HIDE DEF s
    <3> QED BY <1>1, <1>2, <1>3
  <2> QED BY <2>1 DEF TypeInv, SessionsTyped, DrainChunk
<1>5. AcceptChunk(job, c) \in Jobs /\ JobOK(AcceptChunk(job, c))
  BY <1>1, AcceptOK
<1>6. active' \in Seq(Jobs) /\ Len(active') = Len(active) /\ JobsOK'
  BY <1>1, <1>5, ReplacedOK DEF TypeInv, Replaces
<1>7. outbox' \in Seq(Messages)
  <2>1. ToSession(s, Finished(FALSE, job)) \in Messages
    BY <1>1, FinishedTyped, ToSessionTyped
  <2>2. <<ToSession(s, Finished(FALSE, job))>> \in Seq(Messages)
    BY <2>1, Single
  <2>3. <<>> \in Seq(Messages)
    BY EmptySeq
  <2> QED BY <1>1, <2>2, <2>3
<1>8. SchedulerTyped'
  BY <1>6, <1>7, SchedulerValues, SchedulerTypes DEF TypeInv, DrainChunk, Ids
<1>9. WorkersTyped'
  BY TypesFrame DEF TypeInv, DrainChunk
<1> QED BY <1>4, <1>6, <1>8, <1>9 DEF TypeInv

\* A job is drained.
LEMMA DrainNextTyped ==
  ASSUME TypeInv, JobsOK, DrainNext
  PROVE  TypeInv' /\ JobsOK'
<1> DEFINE job == active[at]
           b   == job.closed \/ (Drainable(job) /\ ~Reading(job.session))
<1>1. /\ at \in DOMAIN active /\ job \in Jobs /\ JobOK(job) /\ at <= Len(active)
      /\ active' = [active EXCEPT ![at].closed = b] /\ at' = at + 1
  <2>1. at \in DOMAIN active /\ at <= Len(active)
    BY SchedulerValues DEF TypeInv, DrainNext, Draining
  <2>2. active' = [active EXCEPT ![at].closed = b]
    BY DEF DrainNext
  <2> QED BY <2>1, <2>2, SchedulerValues DEF TypeInv, DrainNext, JobsOK
<1>2. b \in BOOLEAN /\ (job.closed => b)
  BY <1>1, JobFields DEF Drainable, Reading
<1> HIDE DEF b
<1>3. active' = [active EXCEPT ![at] = [job EXCEPT !.closed = b]]
  BY <1>1
<1> HIDE DEF job
<1>4. [job EXCEPT !.closed = b] \in Jobs /\ JobOK([job EXCEPT !.closed = b])
  BY <1>1, <1>2, ClosedOK
<1>5. active' \in Seq(Jobs) /\ Len(active') = Len(active) /\ JobsOK'
  BY <1>1, <1>3, <1>4, ReplacedOK DEF TypeInv, Replaces
<1>6. SchedulerTyped'
  BY <1>1, <1>5, SchedulerValues, SchedulerTypes DEF TypeInv, DrainNext, Ids
<1>7. SessionsTyped' /\ WorkersTyped'
  BY TypesFrame DEF TypeInv, DrainNext
<1> QED BY <1>5, <1>6, <1>7 DEF TypeInv

\* A drain ends.
LEMMA EndDrainTyped ==
  ASSUME TypeInv, JobsOK, EndDrain
  PROVE  TypeInv' /\ JobsOK'
<1>1. /\ active' \in Seq(Jobs) /\ outbox' \in Seq(Messages)
      /\ \E stay, leave : Parted(stay, leave)
  BY EndDrainEffect DEF TypeInv
<1>2. PICK stay, leave : Parted(stay, leave)
  BY <1>1
<1>3. Len(active') <= Len(active) /\ Len(active) <= MaxActive
  BY <1>2 DEF Parted, Picks, TypeInv, SchedulerTyped
<1>4. Len(active') \in Nat /\ DOMAIN active' = 1 .. Len(active')
  <2> HIDE DEF Jobs
  <2> QED BY <1>1, LenProperties
<1>5. \A i \in DOMAIN active' : JobOK(active'[i])
  <2> SUFFICES ASSUME NEW i \in DOMAIN active' PROVE JobOK(active'[i])
    OBVIOUS
  <2>1. stay[i] \in DOMAIN Refreshed /\ active'[i] = Refreshed[stay[i]]
    BY <1>2, <1>4 DEF Parted, Picks
  <2>2. stay[i] \in DOMAIN active
    BY <2>1, RefreshedJobs DEF TypeInv
  <2> QED BY <2>1, <2>2, RefreshedJobs DEF TypeInv
<1>6. JobsOK'
  BY <1>5 DEF JobsOK, JobOK, Decisions
<1>7. SchedulerTyped'
  <2>1. Len(active') <= MaxActive /\ at' \in 1 .. MaxActive + 1 /\ pc' \in PCs
        /\ nextId' \in Ids /\ cursor' \in 0 .. MaxActive
    BY <1>3, <1>4, SchedulerValues DEF TypeInv, EndDrain, PCs, Ids
  <2> QED BY <1>1, <2>1, SchedulerTypes DEF TypeInv
<1>8. SessionsTyped' /\ WorkersTyped'
  BY TypesFrame DEF TypeInv, EndDrain
<1> QED BY <1>6, <1>7, <1>8 DEF TypeInv

\* The two ways in which a job joins the active ones.
LEMMA JoinsTyped ==
  ASSUME TypeInv, JobsOK, IdInv, StartRun \/ SelectJob
  PROVE  TypeInv' /\ JobsOK'
<1>1. CASE StartRun
  <2>1. active = <<>> /\ active' = Append(active, NewJob(nextId, Head(jobQ)))
    BY <1>1, StartAppends
  <2>2. Len(active) = 0 /\ MaxActive \in Nat \ {0}
    BY <2>1, LimitTypes
  <2>3. /\ Len(active) < MaxActive /\ cursor' \in 0 .. MaxActive
        /\ at' \in 1 .. MaxActive + 1 /\ pc' \in PCs
    BY <1>1, <2>2 DEF StartRun, PCs
  <2>4. SessionsTyped' /\ SchedulerTyped' /\ JobsOK'
    BY <1>1, <2>1, <2>3, JobTaken DEF StartRun, TypeInv
  <2>5. WorkersTyped'
    BY <1>1, TypesFrame DEF StartRun, TypeInv
  <2> QED BY <2>4, <2>5 DEF TypeInv
<1>2. CASE SelectJob
  <2>1. cursor' \in 0 .. MaxActive /\ at' \in 1 .. MaxActive + 1 /\ pc' \in PCs
    BY <1>2, SchedulerValues DEF SelectJob, PCs, TypeInv
  <2>2. SessionsTyped' /\ SchedulerTyped' /\ JobsOK'
    BY <1>2, <2>1, JobTaken DEF SelectJob, TypeInv
  <2>3. WorkersTyped'
    BY <1>2, TypesFrame DEF SelectJob, TypeInv
  <2> QED BY <2>2, <2>3 DEF TypeInv
<1> QED BY <1>1, <1>2

\* A worker is given something.
LEMMA SelectReadyTyped ==
  ASSUME TypeInv, JobsOK, SelectReady
  PROVE  TypeInv' /\ JobsOK'
<1>1. /\ readyQ # <<>> /\ readyQ' = Tail(readyQ) /\ pc' = "drainLast"
      /\ UNCHANGED <<sessionVars, workerPC, task, inbox, resultQ, at, nextId>>
  BY DEF SelectReady
<1>2. readyQ \in Seq(Workers) /\ Len(readyQ) <= NPU_WORKERS
  BY DEF TypeInv, WorkersTyped
<1> DEFINE w == Head(readyQ)
<1>3. /\ w \in Workers /\ Tail(readyQ) \in Seq(Workers)
      /\ Len(Tail(readyQ)) = Len(readyQ) - 1 /\ Len(readyQ) \in Nat
  BY <1>1, <1>2, Taken
<1>4. WorkersTyped'
  BY <1>1, <1>2, <1>3, NpuWorkersNat DEF TypeInv, WorkersTyped, NPU_WORKERS
<1>5. SessionsTyped'
  BY <1>1, TypesFrame DEF TypeInv
<1>6. cursor' \in 0 .. MaxActive
  BY SelectReadyEffect DEF TypeInv
<1>7. PICK i \in DOMAIN active : VadSent(w, i) \/ \E plan : WindowSent(w, i, plan)
  BY SelectReadyEffect DEF TypeInv
<1> HIDE DEF w
<1>8. active[i] \in Jobs /\ JobOK(active[i]) /\ active[i].session \in Sessions
  BY SchedulerValues DEF TypeInv, JobsOK
<1>9. SchedulerTyped /\ JobsOK
  BY DEF TypeInv
<1>10. active' \in Seq(Jobs) /\ Len(active') = Len(active) /\ outbox' \in Seq(Messages) /\ JobsOK'
  <2>1. CASE VadSent(w, i)
    <3>1. [active[i] EXCEPT !.vadBusy = TRUE] \in Jobs
      BY <1>8, JobFlags, JobFields
    <3>2. JobOK([active[i] EXCEPT !.vadBusy = TRUE])
      BY <1>8 DEF JobOK, Jobs
    <3>3. Replaces(i, [active[i] EXCEPT !.vadBusy = TRUE])
          /\ outbox' = <<ToWorker(w, VadTask(active[i]))>>
      BY <2>1 DEF VadSent
    <3>4. ToWorker(w, VadTask(active[i])) \in Messages
      BY <1>3, <1>8, VadTaskTyped, ToWorkerTyped
    <3>5. outbox' \in Seq(Messages)
      <4> HIDE DEF Messages
      <4> QED BY <3>3, <3>4, Single
    <3> QED BY <1>9, <3>1, <3>2, <3>3, <3>5, ReplacedOK
  <2>2. ASSUME NEW plan, WindowSent(w, i, plan)
        PROVE  active' \in Seq(Jobs) /\ Len(active') = Len(active)
               /\ outbox' \in Seq(Messages) /\ JobsOK'
    <3>1. PlanOK(active[i], plan)
      BY <1>8, <2>2, DispatchPlanOK DEF WindowSent
    <3>2. AfterDispatch(active[i], plan) \in Jobs /\ JobOK(AfterDispatch(active[i], plan))
      BY <1>8, <3>1, AfterDispatchOK
    <3>3. SpeechEvents(active[i], plan) \in Seq(Responses)
      BY <1>8, <3>1, SpeechEventsTyped
    <3>4. ToSessions(active[i].session, SpeechEvents(active[i], plan)) \in Seq(Messages)
      BY <1>8, <3>3, ToSessionsTyped
    <3>5. ToWorker(w, WhisperTask(active[i], plan)) \in Messages
      BY <1>3, <1>8, <3>1, WhisperTaskTyped, ToWorkerTyped
    <3>6. outbox' \in Seq(Messages)
      <4> HIDE DEF Messages
      <4> QED BY <2>2, <3>4, <3>5, Put DEF WindowSent
    <3> QED BY <1>9, <2>2, <3>2, <3>6, ReplacedOK DEF WindowSent
  <2> QED BY <1>7, <2>1, <2>2
<1>11. SchedulerTyped'
  <2>1. pc' \in PCs /\ at' \in 1 .. MaxActive + 1 /\ nextId' \in Ids
    BY <1>1, <1>9, SchedulerValues DEF PCs, Ids
  <2>2. Len(active') <= MaxActive
    BY <1>9, <1>10, SchedulerValues
  <2> QED BY <1>6, <1>9, <1>10, <2>1, <2>2, SchedulerTypes
<1> QED BY <1>4, <1>5, <1>10, <1>11 DEF TypeInv

\* The results that are next in order are a sequence of windows.
LEMMA DeliverableTyped ==
  ASSUME NEW job \in Jobs, JobOK(job), NEW r \in WhisperTasks
  PROVE  /\ Deliverable(job, r) \in Seq(WhisperTasks)
         /\ SegmentResponses(Deliverable(job, r)) \in Seq(Responses)
<1>1. NextInOrder(Deliverable(job, r), job.pending \cup {r}, job.nextResult)
  BY DeliverableIsNext DEF JobOK
<1>2. job.pending \cup {r} \subseteq WhisperTasks
  BY JobFields
<1>3. Deliverable(job, r) \in Seq(WhisperTasks)
  <2> HIDE DEF WhisperTasks
  <2> QED BY <1>1, <1>2, SeqDef DEF NextInOrder
<1> QED BY <1>3, SegmentResponsesTyped

\* A result is taken.
LEMMA SelectResultTyped ==
  ASSUME TypeInv, JobsOK, IdInv, WorkInv, SelectResult
  PROVE  TypeInv' /\ JobsOK'
<1> DEFINE r == Head(resultQ)
<1>1. /\ resultQ # <<>> /\ r.kind # "error" /\ resultQ' = Tail(resultQ)
      /\ pc' = "drainLast"
      /\ UNCHANGED <<sessionVars, workerPC, task, inbox, readyQ, at, nextId, cursor>>
  BY DEF SelectResult
<1>2. /\ r \in AllResults /\ Tail(resultQ) \in Seq(AllResults)
      /\ Len(Tail(resultQ)) <= NPU_WORKERS
  BY <1>1, HeadIsOutstanding DEF TypeInv
<1>3. WorkersTyped'
  BY <1>1, <1>2 DEF TypeInv, WorkersTyped, NPU_WORKERS
<1>4. SessionsTyped'
  BY <1>1, TypesFrame DEF TypeInv
<1>5. SchedulerTyped /\ WorkersTyped
  BY DEF TypeInv
<1>6. active' \in Seq(Jobs) /\ Len(active') = Len(active) /\ outbox' \in Seq(Messages) /\ JobsOK'
  <2>1. CASE active' = active /\ outbox' = <<>>
    <3>1. JobsOK'
      BY <2>1 DEF JobsOK, JobOK, Decisions
    <3> QED BY <1>5, <2>1, <3>1, SchedulerValues
  <2>2. ASSUME NEW i \in DOMAIN active, active[i].id = r.job,
               Replaces(i, ApplyResult(active[i], r)),
               outbox' = IF r.kind = "vad" THEN <<>>
                         ELSE ToSessions(active[i].session,
                                         SegmentResponses(Deliverable(active[i], r)))
        PROVE  /\ active' \in Seq(Jobs) /\ Len(active') = Len(active)
               /\ outbox' \in Seq(Messages) /\ JobsOK'
    <3>1. ApplyResult(active[i], r) \in Jobs /\ JobOK(ApplyResult(active[i], r))
      BY <1>1, <1>5, <2>2, ApplyResultOK
    <3>2. active[i] \in Jobs /\ JobOK(active[i]) /\ active[i].session \in Sessions
      BY <1>5, SchedulerValues DEF JobsOK
    <3>3. outbox' \in Seq(Messages)
      <4>1. CASE r.kind = "vad"
        BY <1>5, <2>2, <4>1, SchedulerValues
      <4>2. CASE r.kind # "vad"
        <5>1. r \in WhisperTasks
          BY <1>1, <1>2, <4>2, ResultKinds
        <5>2. SegmentResponses(Deliverable(active[i], r)) \in Seq(Responses)
          BY <3>2, <5>1, DeliverableTyped
        <5> QED BY <2>2, <3>2, <4>2, <5>2, ToSessionsTyped
      <4> QED BY <4>1, <4>2
    <3> QED BY <1>5, <2>2, <3>1, <3>3, ReplacedOK
  <2> HIDE DEF r
  <2> QED BY <1>5, <2>1, <2>2, SelectResultEffect DEF r, IdInv
<1>7. SchedulerTyped'
  <2>1. pc' \in PCs /\ at' \in 1 .. MaxActive + 1 /\ nextId' \in Ids /\ cursor' \in 0 .. MaxActive
    BY <1>1, <1>5, SchedulerValues DEF PCs, Ids
  <2>2. Len(active') <= MaxActive
    BY <1>5, <1>6, SchedulerValues
  <2> QED BY <1>5, <1>6, <2>1, <2>2, SchedulerTypes
<1> QED BY <1>3, <1>4, <1>6, <1>7 DEF TypeInv

\* The failures that an error is answered with.
LEMMA FailuresTyped ==
  ASSUME SchedulerTyped
  PROVE  /\ Failures \in Seq(Messages) /\ DOMAIN Failures = DOMAIN active
         /\ \A i \in DOMAIN active :
              Failures[i] = ToSession(active[i].session, Finished(FALSE, active[i]))
<1>1. \A i \in DOMAIN active : ToSession(active[i].session, Finished(FALSE, active[i])) \in Messages
  BY SchedulerValues, FinishedTyped, ToSessionTyped
<1>2. DOMAIN active = 1 .. Len(active) /\ Len(active) \in Nat
  BY SchedulerValues
<1>3. Failures \in [1 .. Len(active) -> Messages]
  BY <1>1, <1>2 DEF Failures
<1>4. \A i \in DOMAIN active :
              Failures[i] = ToSession(active[i].session, Finished(FALSE, active[i]))
  BY DEF Failures
<1>5. Failures \in Seq(Messages) /\ DOMAIN Failures = 1 .. Len(active)
  <2> HIDE DEF Messages
  <2> QED BY <1>2, <1>3, SeqOf
<1> QED BY <1>2, <1>4, <1>5

\* An error is taken, and the jobs are dropped.
LEMMA SelectErrorTyped ==
  ASSUME TypeInv, JobsOK, SelectError
  PROVE  TypeInv' /\ JobsOK'
<1>1. SessionsTyped'
  BY TypesFrame DEF TypeInv, SelectError
<1>2. WorkersTyped'
  <2>1. Tail(resultQ) \in Seq(AllResults) /\ Len(Tail(resultQ)) <= NPU_WORKERS
    BY HeadIsOutstanding DEF TypeInv, SelectError
  <2> QED BY <2>1 DEF TypeInv, SelectError, WorkersTyped, NPU_WORKERS
<1>3. SchedulerTyped'
  <2>1. outbox' \in Seq(Messages)
    BY FailuresTyped DEF TypeInv, SelectError
  <2> QED BY <2>1 DEF TypeInv, SelectError, SchedulerTyped, PCs
<1>4. JobsOK'
  BY DEF SelectError, JobsOK, JobOK, Decisions
<1> QED BY <1>1, <1>2, <1>3, <1>4 DEF TypeInv

\* The jobs are dropped.
LEMMA ClearTyped ==
  ASSUME TypeInv, JobsOK, Clear
  PROVE  TypeInv' /\ JobsOK'
<1>1. SessionsTyped'
  <2>1. <<>> \in Seq({"audio", "error"}) /\ Len(<<>>) = 0 /\ ChunkQueue \in Nat
    BY EmptySeq, LimitTypes
  <2>2. chunkQ' \in [Sessions -> Seq({"audio", "error"})]
        /\ \A t \in Sessions : Len(chunkQ'[t]) <= ChunkQueue
    BY <2>1 DEF Clear, TypeInv, SessionsTyped
  <2> QED BY <2>2 DEF TypeInv, SessionsTyped, Clear
<1>2. WorkersTyped'
  BY TypesFrame DEF TypeInv, Clear
<1>3. SchedulerTyped'
  <2>1. <<>> \in Seq(Jobs) /\ Len(<<>>) = 0 /\ MaxActive \in Nat
    BY EmptySeq, LimitTypes
  <2> QED BY <2>1 DEF TypeInv, Clear, SchedulerTyped, PCs
<1>4. JobsOK'
  BY DEF Clear, JobsOK
<1> QED BY <1>1, <1>2, <1>3, <1>4 DEF TypeInv

\* The jobs are what they were.
LEMMA JobsFrame == JobsOK /\ active' = active => JobsOK'
BY DEF JobsOK, JobOK, Decisions

\* Every step keeps the types and the jobs.
LEMMA TypeStep ==
  ASSUME TypeInv, JobsOK, IdInv, TokenInv, WorkInv, [Next]_vars
  PROVE  TypeInv' /\ JobsOK'
<1>1. ASSUME NEW s \in Sessions, Session(s) PROVE TypeInv' /\ JobsOK'
  BY <1>1, SessionThreadTyped, TypesFrame, JobsFrame DEF Session, TypeInv, schedulerVars
<1>2. ASSUME NEW s \in Sessions, Reader(s) PROVE TypeInv' /\ JobsOK'
  BY <1>2, ReaderThreadTyped, TypesFrame, JobsFrame DEF Reader, TypeInv, schedulerVars
<1>3. ASSUME NEW w \in Workers, Worker(w) PROVE TypeInv' /\ JobsOK'
  BY <1>3, WorkerThreadTyped, TypesFrame, JobsFrame DEF Worker, TypeInv, schedulerVars
<1>4. CASE Send
  BY <1>4, SendTyped, JobsFrame DEF Send, Respond, Post
<1>5. CASE StartRun \/ SelectJob
  BY <1>5, JoinsTyped
<1>6. CASE DrainChunk \/ DrainNext \/ EndDrain
  BY <1>6, DrainChunkTyped, DrainNextTyped, EndDrainTyped
<1>7. CASE SelectReady \/ SelectResult \/ SelectError \/ Clear
  BY <1>7, SelectReadyTyped, SelectResultTyped, SelectErrorTyped, ClearTyped
<1>8. CASE SelectSleep
  <2>1. SessionsTyped' /\ WorkersTyped' /\ JobsOK'
    BY <1>8, TypesFrame, JobsFrame DEF TypeInv, SelectSleep
  <2>2. SchedulerTyped'
    BY <1>8 DEF TypeInv, SelectSleep, SchedulerTyped, PCs
  <2> QED BY <2>1, <2>2 DEF TypeInv
<1>9. CASE UNCHANGED vars
  BY <1>9, TypesFrame, JobsFrame DEF TypeInv, vars, schedulerVars
<1> QED BY <1>1, <1>2, <1>3, <1>4, <1>5, <1>6, <1>7, <1>8, <1>9 DEF Next, Scheduler

-----------------------------------------------------------------------------
(* Announcements and tasks. *)

\* The steps of the scheduler that give no worker anything.
Plain == \/ StartRun \/ DrainChunk \/ DrainNext \/ EndDrain \/ SelectJob
         \/ SelectResult \/ SelectError \/ Clear \/ SelectSleep

\* They leave messages to sessions only.
LEMMA PlainTells ==
  ASSUME TypeInv, JobsOK, IdInv, WorkInv, Plain
  PROVE  /\ outbox = <<>> /\ UNCHANGED <<workerPC, task, inbox, readyQ>>
         /\ \A i \in DOMAIN outbox' : outbox'[i].to = "session"
<1>1. outbox = <<>> /\ UNCHANGED <<workerPC, task, inbox, readyQ>>
  BY DEF Plain, StartRun, DrainChunk, Draining, DrainNext, EndDrain, SelectJob, SelectResult,
         SelectError, Clear, SelectSleep, At, workerVars
<1>2. CASE outbox' = outbox
  BY <1>1, <1>2
<1>3. CASE DrainChunk
  <2> DEFINE job == active[at]
             s   == job.session
  <2>1. at \in DOMAIN active
    BY <1>3, SchedulerValues DEF TypeInv, DrainChunk, Draining
  <2>2. job \in Jobs /\ s \in Sessions
    BY <2>1, SchedulerValues DEF TypeInv
  <2>3. /\ ToSession(s, Finished(FALSE, job)).to = "session"
        /\ ToSession(s, Finished(FALSE, job)) \in Messages
    <3> HIDE DEF s, job
    <3>1. Finished(FALSE, job) \in Responses
      BY <2>2, FinishedTyped
    <3> QED BY <2>2, <3>1, ToSessionTyped
  <2>4. outbox' = <<ToSession(s, Finished(FALSE, job))>> \/ outbox' = <<>>
    BY <1>3 DEF DrainChunk
  <2> HIDE DEF s, job
  <2> DEFINE m == ToSession(s, Finished(FALSE, job))
  <2> HIDE DEF m
  <2>5. \A i \in 1 .. 1 : i = 1
    OBVIOUS
  <2>6. CASE outbox' = <<m>>
    <3>1. DOMAIN outbox' = 1 .. 1 /\ outbox'[1] = m
      BY <2>6
    <3>2. m.to = "session"
      BY <2>3 DEF m
    <3>3. \A i \in DOMAIN outbox' : i = 1
      BY <2>5, <3>1
    <3> QED BY <1>1, <3>1, <3>2, <3>3
  <2>7. CASE outbox' = <<>>
    BY <1>1, <2>7
  <2> QED BY <2>4, <2>6, <2>7 DEF m
<1>4. CASE EndDrain
  <2>1. PICK stay, leave : Parted(stay, leave)
    BY <1>4, EndDrainEffect DEF TypeInv
  <2> SUFFICES ASSUME NEW i \in DOMAIN outbox' PROVE outbox'[i].to = "session"
    BY <1>1
  <2>2. outbox'[i] = ToSession(Refreshed[leave[i]].session, Finished(TRUE, Refreshed[leave[i]]))
    BY <2>1 DEF Parted
  <2> QED BY <2>2 DEF ToSession
<1>5. CASE SelectResult
  <2> DEFINE r == Head(resultQ)
  <2>1. CASE outbox' = <<>>
    BY <1>1, <2>1
  <2>2. ASSUME NEW i \in DOMAIN active, r.kind # "vad",
               outbox' = ToSessions(active[i].session,
                                    SegmentResponses(Deliverable(active[i], r)))
        PROVE  \A k \in DOMAIN outbox' : outbox'[k].to = "session"
    BY <2>2 DEF ToSessions, ToSession
  <2>3. \/ outbox' = <<>>
        \/ \E i \in DOMAIN active :
             /\ r.kind # "vad"
             /\ outbox' = ToSessions(active[i].session,
                                     SegmentResponses(Deliverable(active[i], r)))
    <3> HIDE DEF r
    <3> QED BY <1>5, SelectResultEffect DEF r, TypeInv, IdInv
  <2> QED BY <1>1, <2>1, <2>2, <2>3
<1>6. CASE SelectError
  <2>1. outbox' = Failures
    BY <1>6 DEF SelectError
  <2>2. \A i \in DOMAIN Failures : Failures[i].to = "session"
    BY DEF Failures, ToSession
  <2> QED BY <1>1, <2>1, <2>2
<1>7. \/ outbox' = outbox \/ DrainChunk \/ EndDrain \/ SelectResult \/ SelectError
  BY DEF Plain, StartRun, DrainNext, SelectJob, Clear, SelectSleep
<1> QED BY <1>1, <1>2, <1>3, <1>4, <1>5, <1>6, <1>7

\* A worker that is given a task is sent it last.
LEMMA ReadySends ==
  ASSUME TypeInv, JobsOK, SelectReady, NEW i \in DOMAIN active,
         \/ VadSent(Head(readyQ), i) \/ \E plan : WindowSent(Head(readyQ), i, plan)
  PROVE  /\ outbox = <<>> /\ outbox' # <<>> /\ DOMAIN outbox' = 1 .. Len(outbox')
         /\ Len(outbox') \in Nat \ {0}
         /\ \A k \in DOMAIN outbox' : k # Len(outbox') => outbox'[k].to = "session"
         /\ \E t \in Tasks : /\ outbox'[Len(outbox')] = ToWorker(Head(readyQ), t)
                             /\ outbox'[Len(outbox')].to = "worker"
                             /\ outbox'[Len(outbox')].worker = Head(readyQ)
                             /\ outbox'[Len(outbox')].task = t
                             /\ \/ VadSent(Head(readyQ), i) /\ t = VadTask(active[i])
                                \/ \E plan : /\ WindowSent(Head(readyQ), i, plan)
                                             /\ t = WhisperTask(active[i], plan)
<1> DEFINE w == Head(readyQ)
<1>1. outbox = <<>>
  BY DEF SelectReady, At
<1>2. w \in Workers /\ readyQ # <<>>
  BY Taken DEF SelectReady, TypeInv, WorkersTyped
<1> HIDE DEF w
<1>3. active[i] \in Jobs /\ JobOK(active[i]) /\ active[i].session \in Sessions
  BY SchedulerValues DEF TypeInv, JobsOK
<1>4. CASE VadSent(w, i)
  <2> DEFINE t == VadTask(active[i])
  <2>1. t \in Tasks /\ ToWorker(w, t) \in Messages /\ ToWorker(w, t).to = "worker"
        /\ ToWorker(w, t).worker = w /\ ToWorker(w, t).task = t
    BY <1>2, <1>3, VadTaskTyped, ToWorkerTyped
  <2>2. outbox' = <<ToWorker(w, t)>>
    BY <1>4 DEF VadSent
  <2> HIDE DEF t
  <2>3. DOMAIN outbox' = 1 .. 1 /\ Len(outbox') = 1 /\ outbox'[1] = ToWorker(w, t)
        /\ outbox' # <<>>
    <3> HIDE DEF Messages
    <3> QED BY <2>1, <2>2, Single, EmptySeq
  <2>4. \A k \in 1 .. 1 : k = 1
    OBVIOUS
  <2> QED BY <1>1, <1>4, <2>1, <2>3, <2>4 DEF w, t
<1>5. ASSUME NEW plan, WindowSent(w, i, plan)
      PROVE  /\ outbox' # <<>> /\ DOMAIN outbox' = 1 .. Len(outbox')
             /\ Len(outbox') \in Nat \ {0}
             /\ \A k \in DOMAIN outbox' : k # Len(outbox') => outbox'[k].to = "session"
             /\ \E t \in Tasks : /\ outbox'[Len(outbox')] = ToWorker(w, t)
                                 /\ outbox'[Len(outbox')].to = "worker"
                                 /\ outbox'[Len(outbox')].worker = w
                                 /\ outbox'[Len(outbox')].task = t
                                 /\ t = WhisperTask(active[i], plan)
  <2> DEFINE t == WhisperTask(active[i], plan)
             e == SpeechEvents(active[i], plan)
             q == ToSessions(active[i].session, e)
  <2>1. PlanOK(active[i], plan)
    BY <1>3, <1>5, DispatchPlanOK DEF WindowSent
  <2>2. t \in Tasks /\ ToWorker(w, t) \in Messages /\ ToWorker(w, t).to = "worker"
        /\ ToWorker(w, t).worker = w /\ ToWorker(w, t).task = t
    BY <1>2, <1>3, <2>1, WhisperTaskTyped, ToWorkerTyped
  <2>3. e \in Seq(Responses)
    BY <1>3, <2>1, SpeechEventsTyped
  <2>4. outbox' = Append(q, ToWorker(w, t))
    BY <1>5 DEF WindowSent
  <2> HIDE DEF t, e
  <2>5. q \in Seq(Messages) /\ \A k \in 1 .. Len(q) : q[k].to = "session"
    <3>1. /\ q \in Seq(Messages) /\ Len(q) = Len(e)
          /\ \A k \in 1 .. Len(e) : q[k] = ToSession(active[i].session, e[k])
                                    /\ e[k] \in Responses
      BY <1>3, <2>3, ToSessionsTyped
    <3> HIDE DEF q
    <3> QED BY <1>3, <3>1, ToSessionTyped
  <2> HIDE DEF q
  <2>6. /\ Len(outbox') = Len(q) + 1 /\ DOMAIN outbox' = 1 .. Len(q) + 1
        /\ Len(q) \in Nat /\ DOMAIN q = 1 .. Len(q) /\ \A k \in DOMAIN q : outbox'[k] = q[k]
        /\ outbox'[Len(q) + 1] = ToWorker(w, t) /\ outbox' # <<>>
    <3> HIDE DEF Messages
    <3> QED BY <2>2, <2>4, <2>5, Put
  <2>7. \A k \in 1 .. Len(q) + 1 : k # Len(q) + 1 => k \in 1 .. Len(q)
    BY <2>6
  <2> QED BY <1>1, <2>2, <2>5, <2>6, <2>7 DEF t
<1>6. CASE \E plan : WindowSent(w, i, plan)
  <2>1. PICK plan : WindowSent(w, i, plan)
    BY <1>6
  <2>2. PICK t \in Tasks : /\ outbox'[Len(outbox')] = ToWorker(w, t)
                           /\ outbox'[Len(outbox')].to = "worker"
                           /\ outbox'[Len(outbox')].worker = w
                           /\ outbox'[Len(outbox')].task = t
                           /\ t = WhisperTask(active[i], plan)
    BY <1>5, <2>1
  <2> QED BY <1>1, <1>5, <2>1, <2>2 DEF w
<1> QED BY <1>4, <1>6 DEF w

\* A worker's step.
LEMMA WorkerTokens ==
  ASSUME WorkersTyped, TokenInv, NEW v \in Workers, WorkerThread(v), UNCHANGED outbox
  PROVE  TokenInv'
<1>1. /\ workerPC \in [Workers -> WorkerPCs]
      /\ task \in [Workers -> Slots] /\ inbox \in [Workers -> Slots]
      /\ readyQ \in Seq(Workers) /\ DOMAIN readyQ = 1 .. Len(readyQ) /\ Len(readyQ) \in Nat
  BY LenProperties DEF WorkersTyped
<1>2. CASE Load(v) \/ LoadFails(v)
  <2>1. /\ workerPC[v] = "load" /\ workerPC' \in [Workers -> {"load", "announce", "receive", "run", "stopped"}]
        /\ workerPC'[v] \in {"announce", "stopped"}
        /\ \A w \in Workers : w # v => workerPC'[w] = workerPC[w]
        /\ UNCHANGED <<task, inbox, readyQ, outbox>>
    BY <1>1, <1>2 DEF Load, LoadFails, GoTo, WorkerPCs
  <2> QED BY <2>1 DEF TokenInv, Announced, Posted, ForWorker
<1>3. CASE Announce(v)
  <2>1. /\ workerPC[v] = "announce" /\ workerPC'[v] = "receive"
        /\ \A w \in Workers : w # v => workerPC'[w] = workerPC[w]
        /\ UNCHANGED <<task, inbox, outbox>> /\ readyQ' = Append(readyQ, v)
    BY <1>1, <1>3 DEF Announce, GoTo
  <2>2. /\ DOMAIN readyQ' = 1 .. Len(readyQ) + 1 /\ readyQ'[Len(readyQ) + 1] = v
        /\ \A i \in 1 .. Len(readyQ) : readyQ'[i] = readyQ[i]
    BY <1>1, <2>1, Put
  <2>3. \A i \in 1 .. Len(readyQ) + 1 : i = Len(readyQ) + 1 \/ i \in 1 .. Len(readyQ)
    BY <1>1
  <2>4. \A w \in Workers : w # v => (Announced(w)' <=> Announced(w))
    <3>1. \A i \in 1 .. Len(readyQ) : i \in 1 .. Len(readyQ) + 1
      BY <1>1
    <3> QED BY <1>1, <2>2, <2>3, <3>1 DEF Announced
  <2>5. Announced(v)'
    <3>1. Len(readyQ) + 1 \in 1 .. Len(readyQ) + 1
      BY <1>1
    <3> QED BY <2>2, <3>1 DEF Announced
  <2>6. \A w \in Workers : Posted(w)' <=> Posted(w)
    BY <2>1 DEF Posted, ForWorker
  <2>7. ~Announced(v) /\ ~Posted(v) /\ inbox[v] = <<>> /\ task[v] = <<>>
    BY <2>1 DEF TokenInv
  <2>8. \A i, j \in DOMAIN readyQ' : readyQ'[i] = readyQ'[j] => i = j
    BY <1>1, <2>2, <2>3, <2>7 DEF TokenInv, Announced
  <2>9. \A i \in DOMAIN outbox' : ForWorker(i)' => i = Len(outbox')
    BY <2>1 DEF TokenInv, ForWorker
  <2> QED BY <2>1, <2>4, <2>5, <2>6, <2>7, <2>8, <2>9 DEF TokenInv
<1>4. CASE ReceiveTask(v)
  <2>1. /\ workerPC[v] = "receive" /\ workerPC'[v] = "run" /\ inbox[v] # <<>>
        /\ inbox'[v] = <<>> /\ task'[v] = inbox[v]
        /\ \A w \in Workers : w # v => workerPC'[w] = workerPC[w] /\ inbox'[w] = inbox[w]
                                       /\ task'[w] = task[w]
        /\ UNCHANGED <<readyQ, outbox>>
    BY <1>1, <1>4 DEF ReceiveTask, GoTo
  <2> QED BY <2>1 DEF TokenInv, Announced, Posted, ForWorker
<1>5. CASE ReportResult(v)
  <2>1. /\ workerPC[v] = "run" /\ workerPC'[v] = "announce" /\ task'[v] = <<>>
        /\ \A w \in Workers : w # v => workerPC'[w] = workerPC[w] /\ task'[w] = task[w]
        /\ UNCHANGED <<inbox, readyQ, outbox>>
    BY <1>1, <1>5 DEF ReportResult, GoTo
  <2> QED BY <2>1 DEF TokenInv, Announced, Posted, ForWorker
<1> QED BY <1>2, <1>3, <1>4, <1>5 DEF WorkerThread

\* The rest of the outbox.
LEMMA OutboxRest ==
  ASSUME SchedulerTyped, outbox # <<>>, outbox' = Tail(outbox)
  PROVE  /\ Len(outbox') = Len(outbox) - 1 /\ DOMAIN outbox' = 1 .. Len(outbox) - 1
         /\ Len(outbox) \in Nat \ {0} /\ 1 \in DOMAIN outbox /\ Head(outbox) = outbox[1]
         /\ outbox[1] \in Messages
         /\ \A i \in DOMAIN outbox' : i + 1 \in DOMAIN outbox /\ outbox'[i] = outbox[i + 1]
         /\ \A i \in DOMAIN outbox : i = 1 \/ (i - 1 \in DOMAIN outbox' /\ i = (i - 1) + 1)
<1>1. outbox \in Seq(Messages)
  BY DEF SchedulerTyped
<1>2. /\ Head(outbox) = outbox[1] /\ Head(outbox) \in Messages /\ 1 \in DOMAIN outbox
      /\ Len(outbox') = Len(outbox) - 1 /\ DOMAIN outbox = 1 .. Len(outbox)
      /\ Len(outbox) \in Nat \ {0} /\ DOMAIN outbox' = 1 .. Len(outbox) - 1
      /\ \A i \in DOMAIN outbox' : i + 1 \in DOMAIN outbox /\ outbox'[i] = outbox[i + 1]
  <2> HIDE DEF Messages
  <2> QED BY <1>1, Taken
<1>3. \A i \in 1 .. Len(outbox) : i = 1 \/ (i - 1 \in 1 .. Len(outbox) - 1 /\ i = (i - 1) + 1)
  BY <1>2
<1> QED BY <1>2, <1>3

\* A message leaves the outbox.
LEMMA SendTokens ==
  ASSUME TypeInv, TokenInv, Send
  PROVE  TokenInv'
<1>1. outbox # <<>> /\ outbox' = Tail(outbox) /\ UNCHANGED <<workerPC, task, readyQ>>
  BY DEF Send, Respond, Post, workerVars
<1>2. /\ Len(outbox') = Len(outbox) - 1 /\ DOMAIN outbox' = 1 .. Len(outbox) - 1
      /\ Len(outbox) \in Nat \ {0} /\ 1 \in DOMAIN outbox /\ Head(outbox) = outbox[1]
      /\ outbox[1] \in Messages
      /\ \A i \in DOMAIN outbox' : i + 1 \in DOMAIN outbox /\ outbox'[i] = outbox[i + 1]
      /\ \A i \in DOMAIN outbox : i = 1 \/ (i - 1 \in DOMAIN outbox' /\ i = (i - 1) + 1)
  BY <1>1, OutboxRest DEF TypeInv
<1>3. CASE Respond
  <2>1. ~ForWorker(1) /\ inbox' = inbox
    BY <1>2, <1>3 DEF Respond, workerVars, ForWorker
  <2>2. ASSUME NEW w \in Workers PROVE Posted(w)' <=> Posted(w)
    <3>1. ASSUME NEW i \in DOMAIN outbox, ForWorker(i), outbox[i].worker = w
          PROVE  Posted(w)'
      <4>1. i # 1
        BY <2>1, <3>1
      <4>2. i - 1 \in DOMAIN outbox' /\ outbox'[i - 1] = outbox[i]
        BY <1>2, <4>1
      <4> QED BY <3>1, <4>2 DEF Posted, ForWorker
    <3>2. ASSUME NEW i \in DOMAIN outbox', ForWorker(i)', outbox'[i].worker = w
          PROVE  Posted(w)
      BY <1>2, <3>2 DEF Posted, ForWorker
    <3>3. Posted(w) => Posted(w)'
      BY <3>1 DEF Posted
    <3>4. Posted(w)' => Posted(w)
      BY <3>2 DEF Posted
    <3> QED BY <3>3, <3>4
  <2>3. ASSUME NEW i \in DOMAIN outbox', ForWorker(i)' PROVE i = Len(outbox')
    <3>1. i + 1 = Len(outbox)
      BY <1>2, <2>3 DEF ForWorker, TokenInv
    <3> QED BY <1>2, <3>1
  <2>4. \A w \in Workers : Announced(w)' <=> Announced(w)
    BY <1>1 DEF Announced
  <2> QED BY <1>1, <2>1, <2>2, <2>3, <2>4 DEF TokenInv
<1>4. CASE Post
  <2> DEFINE v == outbox[1].worker
             m == outbox[1].task
  <2>1. ForWorker(1) /\ inbox[v] = <<>> /\ inbox' = [inbox EXCEPT ![v] = <<m>>]
    BY <1>2, <1>4 DEF Post, ForWorker
  <2>2. v \in Workers /\ Posted(v) /\ inbox \in [Workers -> Slots]
    BY <1>2, <2>1, MessageFields DEF ForWorker, Posted, TypeInv, WorkersTyped
  <2>3. Len(outbox) = 1
    BY <1>2, <2>1 DEF TokenInv
  <2>4. DOMAIN outbox' = {} /\ \A i \in DOMAIN outbox : i = 1
    BY <1>2, <2>3
  <2>5. \A w \in Workers : ~Posted(w)' /\ (w # v => ~Posted(w))
    BY <2>4 DEF Posted
  <2>6. \A w \in Workers : Announced(w)' <=> Announced(w)
    BY <1>1 DEF Announced
  <2>7. inbox'[v] = <<m>> /\ <<m>> # <<>> /\ \A w \in Workers : w # v => inbox'[w] = inbox[w]
    <3> HIDE DEF v, m
    <3> QED BY <2>1, <2>2
  <2> HIDE DEF v, m
  <2> QED BY <1>1, <2>2, <2>4, <2>5, <2>6, <2>7 DEF TokenInv
<1> QED BY <1>3, <1>4 DEF Send

\* A worker is given a task for its announcement.
LEMMA ReadyTokens ==
  ASSUME TypeInv, JobsOK, TokenInv, SelectReady
  PROVE  TokenInv'
<1>0. PICK v : v = Head(readyQ)
  OBVIOUS
<1>1. readyQ # <<>> /\ readyQ' = Tail(readyQ) /\ UNCHANGED <<workerPC, task, inbox>>
      /\ outbox = <<>>
  BY DEF SelectReady, At
<1>2. readyQ \in Seq(Workers)
  BY DEF TypeInv, WorkersTyped
<1>3. /\ v = readyQ[1] /\ v \in Workers /\ 1 \in DOMAIN readyQ
      /\ DOMAIN readyQ = 1 .. Len(readyQ) /\ Len(readyQ) \in Nat \ {0}
      /\ DOMAIN readyQ' = 1 .. Len(readyQ) - 1
      /\ \A i \in DOMAIN readyQ' : i + 1 \in DOMAIN readyQ /\ readyQ'[i] = readyQ[i + 1]
  BY <1>0, <1>1, <1>2, Taken
<1>4. PICK a \in DOMAIN active : VadSent(v, a) \/ \E plan : WindowSent(v, a, plan)
  BY <1>0, SelectReadyEffect DEF TypeInv
<1>5. /\ outbox' # <<>> /\ DOMAIN outbox' = 1 .. Len(outbox')
      /\ Len(outbox') \in Nat \ {0}
      /\ \A k \in DOMAIN outbox' : k # Len(outbox') => outbox'[k].to = "session"
      /\ outbox'[Len(outbox')].to = "worker" /\ outbox'[Len(outbox')].worker = v
  BY <1>0, <1>4, ReadySends
<1>6. Announced(v) /\ \A w \in Workers : ~Posted(w)
  BY <1>1, <1>3 DEF Announced, Posted
<1>7. \A i \in DOMAIN readyQ' : readyQ'[i] # v
  <2> SUFFICES ASSUME NEW i \in DOMAIN readyQ' PROVE readyQ[i + 1] # readyQ[1]
    BY <1>3
  <2>1. i + 1 # 1 /\ i + 1 \in DOMAIN readyQ
    BY <1>3
  <2> QED BY <1>3, <2>1 DEF TokenInv
<1>8. ~Announced(v)'
  BY <1>7 DEF Announced
<1>9. ASSUME NEW w \in Workers, w # v PROVE Announced(w)' <=> Announced(w)
  <2>1. ASSUME NEW i \in DOMAIN readyQ, readyQ[i] = w PROVE Announced(w)'
    <3>1. i # 1 /\ i - 1 \in DOMAIN readyQ' /\ (i - 1) + 1 = i
      BY <1>3, <1>9, <2>1
    <3>2. readyQ'[i - 1] = w
      BY <1>3, <2>1, <3>1
    <3> QED BY <3>1, <3>2 DEF Announced
  <2>2. Announced(w) => Announced(w)'
    BY <2>1 DEF Announced
  <2>3. Announced(w)' => Announced(w)
    BY <1>3 DEF Announced
  <2> QED BY <2>2, <2>3
<1>10. \A i \in DOMAIN outbox' : ForWorker(i)' => i = Len(outbox')
  BY <1>5 DEF ForWorker
<1>11. Posted(v)' /\ \A w \in Workers : w # v => ~Posted(w)'
  <2>1. Len(outbox') \in DOMAIN outbox'
    BY <1>5
  <2>2. Posted(v)'
    BY <1>5, <2>1 DEF Posted, ForWorker
  <2>3. \A w \in Workers : w # v => ~Posted(w)'
    BY <1>5, <1>10 DEF Posted
  <2> QED BY <2>2, <2>3
<1>12. \A i, j \in DOMAIN readyQ' : readyQ'[i] = readyQ'[j] => i = j
  <2> SUFFICES ASSUME NEW i \in DOMAIN readyQ', NEW j \in DOMAIN readyQ', readyQ'[i] = readyQ'[j]
               PROVE  i = j
    OBVIOUS
  <2>1. readyQ[i + 1] = readyQ[j + 1] /\ i + 1 \in DOMAIN readyQ /\ j + 1 \in DOMAIN readyQ
    BY <1>3
  <2>2. i + 1 = j + 1
    BY <2>1 DEF TokenInv
  <2> QED BY <1>3, <2>2
<1> QED BY <1>1, <1>3, <1>6, <1>8, <1>9, <1>10, <1>11, <1>12 DEF TokenInv

\* Every step keeps announcements and tasks apart.
LEMMA TokenStep ==
  ASSUME TypeInv, JobsOK, IdInv, TokenInv, WorkInv, [Next]_vars
  PROVE  TokenInv'
<1>1. ASSUME UNCHANGED <<workerVars, outbox>> PROVE TokenInv'
  BY <1>1 DEF TokenInv, Announced, Posted, ForWorker, workerVars
<1>2. ASSUME NEW w \in Workers, Worker(w) PROVE TokenInv'
  BY <1>2, WorkerTokens DEF Worker, schedulerVars, TypeInv
<1>3. CASE Plain
  <2>1. /\ outbox = <<>> /\ UNCHANGED <<workerPC, task, inbox, readyQ>>
        /\ \A i \in DOMAIN outbox' : outbox'[i].to = "session"
    BY <1>3, PlainTells
  <2>2. \A w \in Workers : ~Posted(w) /\ ~Posted(w)'
    BY <2>1 DEF Posted, ForWorker
  <2>3. \A i \in DOMAIN outbox' : ForWorker(i)' => i = Len(outbox')
    BY <2>1 DEF ForWorker
  <2>4. \A w \in Workers : Announced(w)' <=> Announced(w)
    BY <2>1 DEF Announced
  <2> QED BY <2>1, <2>2, <2>3, <2>4 DEF TokenInv
<1> QED BY <1>1, <1>2, <1>3, SendTokens, ReadyTokens
        DEF Next, Scheduler, Plain, Session, Reader, schedulerVars, vars

\* A set whose elements are all the same.
LEMMA AtMostOne ==
  ASSUME NEW S, \A x, y \in S : x = y
  PROVE  IsFiniteSet(S) /\ Cardinality(S) = IF S = {} THEN 0 ELSE 1
<1>1. CASE S = {}
  BY <1>1, FS_EmptySet
<1>2. CASE S # {}
  <2>1. PICK x \in S : TRUE
    BY <1>2
  <2>2. S = {x}
    BY <2>1
  <2> QED BY <2>2, FS_Singleton
<1> QED BY <1>1, <1>2

\* The announcements are counted.
LEMMA TokensAreCounted ==
  ASSUME TypeInv, TokenInv
  PROVE  OneTokenPerWorker
<1> SUFFICES ASSUME NEW w \in Workers
             PROVE  Cardinality({i \in DOMAIN readyQ : readyQ[i] = w})
                    + Len(inbox[w]) + Len(task[w])
                    + Cardinality({i \in DOMAIN outbox :
                                     outbox[i].to = "worker" /\ outbox[i].worker = w})
                    = IF workerPC[w] \in {"load", "announce", "stopped"} THEN 0 ELSE 1
  BY DEF OneTokenPerWorker
<1> DEFINE A == {i \in DOMAIN readyQ : readyQ[i] = w}
           B == {i \in DOMAIN outbox : outbox[i].to = "worker" /\ outbox[i].worker = w}
<1>1. \A x, y \in A : x = y
  BY DEF TokenInv
<1>2. \A x, y \in B : x = y
  BY DEF TokenInv, ForWorker
<1>3. (A # {} <=> Announced(w)) /\ (B # {} <=> Posted(w))
  BY DEF Announced, Posted, ForWorker
<1> HIDE DEF A, B
<1>4. /\ Cardinality(A) = IF Announced(w) THEN 1 ELSE 0
      /\ Cardinality(B) = IF Posted(w) THEN 1 ELSE 0
  BY <1>1, <1>2, <1>3, AtMostOne
<1>5. /\ workerPC[w] \in WorkerPCs /\ inbox[w] \in Slots /\ task[w] \in Slots
  BY DEF TypeInv, WorkersTyped
<1>6. /\ Len(inbox[w]) = IF inbox[w] = <<>> THEN 0 ELSE 1
      /\ Len(task[w]) = IF task[w] = <<>> THEN 0 ELSE 1
  BY <1>5, SlotFields
<1>7. Cardinality(A) + Len(inbox[w]) + Len(task[w]) + Cardinality(B)
        = IF workerPC[w] \in {"load", "announce", "stopped"} THEN 0 ELSE 1
  <2>1. CASE workerPC[w] = "receive"
    <3>1. task[w] = <<>>
      BY <2>1 DEF TokenInv
    <3>2. CASE Announced(w)
      <4>1. inbox[w] = <<>> /\ ~Posted(w)
        BY <3>2 DEF TokenInv
      <4> QED BY <1>4, <1>6, <2>1, <3>1, <3>2, <4>1
    <3>3. CASE ~Announced(w) /\ Posted(w)
      <4>1. inbox[w] = <<>>
        BY <3>3 DEF TokenInv
      <4> QED BY <1>4, <1>6, <2>1, <3>1, <3>3, <4>1
    <3>4. CASE ~Announced(w) /\ ~Posted(w)
      <4>1. inbox[w] # <<>>
        BY <2>1, <3>4 DEF TokenInv
      <4> QED BY <1>4, <1>6, <2>1, <3>1, <3>4, <4>1
    <3> QED BY <3>2, <3>3, <3>4
  <2>2. CASE workerPC[w] # "receive"
    <3>1. ~Announced(w) /\ ~Posted(w) /\ inbox[w] = <<>>
          /\ (task[w] # <<>> <=> workerPC[w] = "run")
      BY <2>2 DEF TokenInv
    <3> QED BY <1>4, <1>5, <1>6, <2>2, <3>1 DEF WorkerPCs
  <2> QED BY <2>1, <2>2
<1> QED BY <1>7 DEF A, B

-----------------------------------------------------------------------------
(* What is outstanding, as it moves from place to place. *)

\* A task moves on unchanged, or as its result.
Becomes(t, r) ==
    \/ r = t
    \/ r.job = t.job /\ r.kind = "error"
    \/ r.job = t.job /\ r.kind = "vad" /\ t.kind = "vad" /\ r.start = t.start /\ r.from = t.from

\* g takes what is outstanding to what is outstanding then.
Carries(g, old, new) ==
    /\ g \in Bijection(old, new) /\ \A o \in old : Becomes(o.item, g[o].item)

Carried(old, new) == \E g : Carries(g, old, new)

Of(os, id) == {o \in os : o.item.job = id}

\* A result is for the job of its task, and text comes of a window only.
LEMMA BecomesFields ==
  ASSUME NEW t, NEW r, Becomes(t, r)
  PROVE  /\ r.job = t.job /\ (r.kind = "whisper" => r = t)
         /\ r.kind = "vad" => t.kind = "vad" /\ r.start = t.start /\ r.from = t.from
         /\ t.kind # "whisper" => r.kind # "whisper"
BY DEF Becomes

\* What belongs to one job is carried with the rest.
LEMMA CarriedOf ==
  ASSUME NEW old, NEW new, Carried(old, new), NEW id
  PROVE  Carried(Of(old, id), Of(new, id))
<1>1. PICK g : Carries(g, old, new)
  BY DEF Carried
<1> DEFINE a == Of(old, id)
           b == Of(new, id)
           h == [o \in a |-> g[o]]
<1>2. /\ g \in [old -> new] /\ \A o \in old : Becomes(o.item, g[o].item)
      /\ \A o, p \in old : g[o] = g[p] => o = p
      /\ \A n \in new : \E o \in old : g[o] = n
  BY <1>1 DEF Carries, Bijection, Injection, Surjection, IsInjective
<1>10. \A o \in old : g[o].item.job = o.item.job
  BY <1>2, BecomesFields
<1>3. a \subseteq old /\ \A o \in a : g[o] \in b /\ h[o] = g[o]
  BY <1>2, <1>10 DEF Of
<1>4. h \in [a -> b]
  BY <1>3
<1>5. ASSUME NEW n \in b PROVE \E o \in a : h[o] = n
  <2>1. PICK o \in old : g[o] = n
    BY <1>2 DEF Of
  <2>2. o.item.job = id
    BY <1>10, <2>1 DEF Of
  <2>3. o \in a
    BY <2>2 DEF Of
  <2> QED BY <1>3, <2>1, <2>3
<1>6. \A o, p \in a : h[o] = h[p] => o = p
  BY <1>2, <1>3
<1>7. \A o \in a : Becomes(o.item, h[o].item)
  BY <1>2, <1>3
<1> HIDE DEF h, a, b
<1>8. h \in Bijection(a, b)
  BY <1>4, <1>5, <1>6 DEF Bijection, Injection, Surjection, IsInjective
<1> QED BY <1>7, <1>8 DEF Carried, Carries, a, b

\* There is as much of it.
LEMMA CarriedCount ==
  ASSUME NEW old, NEW new, Carried(old, new), IsFiniteSet(old)
  PROVE  IsFiniteSet(new) /\ Cardinality(new) = Cardinality(old)
<1>1. PICK g : g \in Bijection(old, new)
  BY DEF Carried, Carries
<1> QED BY <1>1, FS_Bijection DEF ExistsBijection

\* Every item has become one, and every one is what an item has become.
LEMMA CarriedItems ==
  ASSUME NEW old, NEW new, Carried(old, new)
  PROVE  /\ \A o \in old : \E n \in new : Becomes(o.item, n.item)
         /\ \E back \in [new -> old] :
              /\ \A n \in new : Becomes(back[n].item, n.item)
              /\ \A m, n \in new : back[m] = back[n] => m = n
<1>1. PICK g : Carries(g, old, new)
  BY DEF Carried
<1>2. /\ g \in [old -> new] /\ \A o \in old : Becomes(o.item, g[o].item)
      /\ \A o, p \in old : g[o] = g[p] => o = p
      /\ \A n \in new : \E o \in old : g[o] = n
  BY <1>1 DEF Carries, Bijection, Injection, Surjection, IsInjective
<1> DEFINE back == [n \in new |-> CHOOSE o \in old : g[o] = n]
<1>3. \A n \in new : back[n] \in old /\ g[back[n]] = n
  BY <1>2
<1>4. back \in [new -> old]
  BY <1>3
<1>5. \A n \in new : Becomes(back[n].item, n.item)
  BY <1>2, <1>3
<1>6. \A m, n \in new : back[m] = back[n] => m = n
  BY <1>3
<1> HIDE DEF back
<1>7. \A o \in old : \E n \in new : Becomes(o.item, n.item)
  BY <1>2
<1> QED BY <1>4, <1>5, <1>6, <1>7

\* Nothing moves.
LEMMA CarriedSame ==
  ASSUME NEW os
  PROVE  Carried(os, os)
<1> DEFINE g == [o \in os |-> o]
<1>1. g \in Bijection(os, os)
  BY DEF Bijection, Injection, Surjection, IsInjective
<1>2. \A o \in os : Becomes(o.item, g[o].item)
  BY DEF Becomes
<1> HIDE DEF g
<1> QED BY <1>1, <1>2 DEF Carried, Carries

\* One thing moves.
LEMMA CarriedOne ==
  ASSUME NEW o, NEW n, Becomes(o.item, n.item)
  PROVE  Carried({o}, {n})
<1> DEFINE g == [p \in {o} |-> n]
<1>1. g \in Bijection({o}, {n}) /\ \A p \in {o} : Becomes(p.item, g[p].item)
  BY DEF Bijection, Injection, Surjection, IsInjective
<1> HIDE DEF g
<1> QED BY <1>1 DEF Carried, Carries

\* Parts that are carried make up a whole that is.
LEMMA CarriedUnion ==
  ASSUME NEW a, NEW b, NEW c, NEW d, Carried(a, b), Carried(c, d),
         a \cap c = {}, b \cap d = {}
  PROVE  Carried(a \cup c, b \cup d)
<1>1. PICK g : Carries(g, a, b)
  BY DEF Carried
<1>2. PICK h : Carries(h, c, d)
  BY DEF Carried
<1> DEFINE f == [o \in a \cup c |-> IF o \in a THEN g[o] ELSE h[o]]
<1>3. /\ g \in [a -> b] /\ \A o \in a : Becomes(o.item, g[o].item)
      /\ \A o, p \in a : g[o] = g[p] => o = p
      /\ \A n \in b : \E o \in a : g[o] = n
  BY <1>1 DEF Carries, Bijection, Injection, Surjection, IsInjective
<1>4. /\ h \in [c -> d] /\ \A o \in c : Becomes(o.item, h[o].item)
      /\ \A o, p \in c : h[o] = h[p] => o = p
      /\ \A n \in d : \E o \in c : h[o] = n
  BY <1>2 DEF Carries, Bijection, Injection, Surjection, IsInjective
<1>5. /\ \A o \in a : f[o] = g[o] /\ f[o] \in b
      /\ \A o \in c : f[o] = h[o] /\ f[o] \in d /\ o \notin a
  BY <1>3, <1>4
<1>6. f \in [a \cup c -> b \cup d]
  BY <1>5
<1> HIDE DEF f
<1>7. \A o, p \in a \cup c : f[o] = f[p] => o = p
  BY <1>3, <1>4, <1>5
<1>8. \A n \in b \cup d : \E o \in a \cup c : f[o] = n
  BY <1>3, <1>4, <1>5
<1>9. \A o \in a \cup c : Becomes(o.item, f[o].item)
  BY <1>3, <1>4, <1>5
<1>10. f \in Bijection(a \cup c, b \cup d)
  BY <1>6, <1>7, <1>8 DEF Bijection, Injection, Surjection, IsInjective
<1> QED BY <1>9, <1>10 DEF Carried, Carries

-----------------------------------------------------------------------------
(* The places where something is outstanding. *)

OutboxItems(q) == {[place |-> <<"outbox", i>>, item |-> q[i].task] :
                     i \in {j \in DOMAIN q : q[j].to = "worker"}}
SlotItem(name, w, t) == [place |-> <<name, w>>, item |-> t]
SlotItems(name, f) == {SlotItem(name, w, f[w][1]) : w \in {v \in Workers : f[v] # <<>>}}
ResultItems(q) == {[place |-> <<"result", i>>, item |-> q[i]] : i \in DOMAIN q}

\* They are all there are.
LEMMA OutstandingParts ==
  /\ Outstanding = OutboxItems(outbox) \cup SlotItems("inbox", inbox)
                     \cup SlotItems("task", task) \cup ResultItems(resultQ)
  /\ Outstanding' = OutboxItems(outbox') \cup SlotItems("inbox", inbox')
                     \cup SlotItems("task", task') \cup ResultItems(resultQ')
BY DEF Outstanding, OutboxItems, SlotItem, SlotItems, ResultItems

\* A place tells where it is.
LEMMA PlaceNames ==
  ASSUME NEW q, NEW r, NEW name, NEW f
  PROVE  /\ \A o \in OutboxItems(q) : o.place[1] = "outbox"
         /\ \A o \in SlotItems(name, f) : o.place[1] = name
         /\ \A o \in ResultItems(r) : o.place[1] = "result"
BY DEF OutboxItems, SlotItem, SlotItems, ResultItems

\* An outbox without tasks.
LEMMA NoItems ==
  ASSUME NEW q, \A i \in DOMAIN q : q[i].to = "session"
  PROVE  OutboxItems(q) = {}
BY DEF OutboxItems

\* An outbox with one.
LEMMA OneItem ==
  ASSUME NEW q, NEW n \in DOMAIN q, q[n].to = "worker",
         \A i \in DOMAIN q : i # n => q[i].to # "worker"
  PROVE  OutboxItems(q) = {[place |-> <<"outbox", n>>, item |-> q[n].task]}
BY DEF OutboxItems

\* A slot is filled.
LEMMA SlotFilled ==
  ASSUME NEW f \in [Workers -> Slots], NEW w \in Workers, f[w] = <<>>, NEW t, NEW name
  PROVE  /\ SlotItems(name, [f EXCEPT ![w] = <<t>>]) = SlotItems(name, f) \cup {SlotItem(name, w, t)}
         /\ SlotItem(name, w, t) \notin SlotItems(name, f)
<1> DEFINE g == [f EXCEPT ![w] = <<t>>]
<1>1. g[w] = <<t>> /\ g[w] # <<>> /\ g[w][1] = t /\ \A v \in Workers : v # w => g[v] = f[v]
  OBVIOUS
<1>2. SlotItem(name, w, t) \notin SlotItems(name, f)
  BY DEF SlotItem, SlotItems
<1> HIDE DEF g
<1>3. \A o \in SlotItems(name, g) : o \in SlotItems(name, f) \/ o = SlotItem(name, w, t)
  BY <1>1 DEF SlotItems
<1>4. \A o \in SlotItems(name, f) : o \in SlotItems(name, g)
  BY <1>1 DEF SlotItems
<1>5. SlotItem(name, w, t) \in SlotItems(name, g)
  BY <1>1 DEF SlotItems
<1> QED BY <1>2, <1>3, <1>4, <1>5 DEF g

\* A slot is emptied.
LEMMA SlotEmptied ==
  ASSUME NEW f \in [Workers -> Slots], NEW w \in Workers, f[w] # <<>>, NEW name
  PROVE  /\ SlotItems(name, f) = SlotItems(name, [f EXCEPT ![w] = <<>>])
                                   \cup {SlotItem(name, w, f[w][1])}
         /\ SlotItem(name, w, f[w][1]) \notin SlotItems(name, [f EXCEPT ![w] = <<>>])
<1> DEFINE g == [f EXCEPT ![w] = <<>>]
<1>1. g[w] = <<>> /\ \A v \in Workers : v # w => g[v] = f[v]
  OBVIOUS
<1> HIDE DEF g
<1>2. SlotItem(name, w, f[w][1]) \notin SlotItems(name, g)
  BY <1>1 DEF SlotItem, SlotItems
<1>3. \A o \in SlotItems(name, f) : o \in SlotItems(name, g) \/ o = SlotItem(name, w, f[w][1])
  BY <1>1 DEF SlotItems
<1>4. \A o \in SlotItems(name, g) : o \in SlotItems(name, f)
  BY <1>1 DEF SlotItems
<1>5. SlotItem(name, w, f[w][1]) \in SlotItems(name, f)
  BY DEF SlotItems
<1> QED BY <1>2, <1>3, <1>4, <1>5 DEF g

ResultItem(i, r) == [place |-> <<"result", i>>, item |-> r]

\* A result is queued.
LEMMA ResultQueued ==
  ASSUME NEW q \in Seq(AllResults), NEW r \in AllResults
  PROVE  /\ ResultItems(Append(q, r)) = ResultItems(q) \cup {ResultItem(Len(q) + 1, r)}
         /\ ResultItem(Len(q) + 1, r) \notin ResultItems(q)
<1> DEFINE p == Append(q, r)
<1> HIDE DEF AllResults
<1>1. /\ DOMAIN p = 1 .. Len(q) + 1 /\ DOMAIN q = 1 .. Len(q) /\ Len(q) \in Nat
      /\ \A i \in DOMAIN q : p[i] = q[i]
      /\ p[Len(q) + 1] = r
  BY Put
<1> HIDE DEF p
<1>2. /\ Len(q) + 1 \in DOMAIN p /\ Len(q) + 1 \notin DOMAIN q
      /\ \A i \in DOMAIN p : i \in DOMAIN q \/ i = Len(q) + 1
      /\ \A i \in DOMAIN q : i \in DOMAIN p
  BY <1>1
<1>3. \A o \in ResultItems(p) : o \in ResultItems(q) \/ o = ResultItem(Len(q) + 1, r)
  BY <1>1, <1>2 DEF ResultItems, ResultItem
<1>4. \A o \in ResultItems(q) : o \in ResultItems(p)
  BY <1>1, <1>2 DEF ResultItems, ResultItem
<1>5. ResultItem(Len(q) + 1, r) \in ResultItems(p)
  BY <1>1, <1>2 DEF ResultItems, ResultItem
<1>6. ResultItem(Len(q) + 1, r) \notin ResultItems(q)
  BY <1>2 DEF ResultItems, ResultItem
<1> QED BY <1>3, <1>4, <1>5, <1>6 DEF p

\* A result is taken, and the others move up.
LEMMA ResultTaken ==
  ASSUME NEW q \in Seq(AllResults), q # <<>>
  PROVE  /\ Carried(ResultItems(q) \ {ResultItem(1, Head(q))}, ResultItems(Tail(q)))
         /\ ResultItem(1, Head(q)) \in ResultItems(q)
<1> DEFINE p == Tail(q)
           h == Head(q)
<1> HIDE DEF AllResults
<1>1. /\ h = q[1] /\ 1 \in DOMAIN q /\ DOMAIN q = 1 .. Len(q) /\ Len(q) \in Nat \ {0}
      /\ DOMAIN p = 1 .. Len(q) - 1
      /\ \A i \in DOMAIN p : i + 1 \in DOMAIN q /\ p[i] = q[i + 1]
  BY Taken
<1> HIDE DEF p, h
<1> DEFINE a == ResultItems(q) \ {ResultItem(1, h)}
           b == ResultItems(p)
           g == [o \in a |-> ResultItem(o.place[2] - 1, o.item)]
<1>2. ASSUME NEW o \in a
      PROVE  \E i \in DOMAIN p : o = ResultItem(i + 1, p[i]) /\ g[o] = ResultItem(i, p[i])
  <2>1. PICK j \in DOMAIN q : o = ResultItem(j, q[j])
    BY DEF ResultItems, ResultItem
  <2>2. j # 1
    BY <1>1, <2>1
  <2>3. j - 1 \in DOMAIN p /\ (j - 1) + 1 = j
    BY <1>1, <2>2
  <2>4. p[j - 1] = q[j]
    BY <1>1, <2>3
  <2>5. o.place[2] = j /\ o.item = q[j]
    BY <2>1 DEF ResultItem
  <2>6. g[o] = ResultItem(j - 1, q[j])
    BY <2>5
  <2> HIDE DEF a, g
  <2> QED BY <2>1, <2>3, <2>4, <2>6
<1>3. ASSUME NEW i \in DOMAIN p
      PROVE  ResultItem(i + 1, p[i]) \in a /\ g[ResultItem(i + 1, p[i])] = ResultItem(i, p[i])
  <2>1. i + 1 \in DOMAIN q /\ q[i + 1] = p[i] /\ i + 1 # 1 /\ i \in Nat
    BY <1>1
  <2>2. ResultItem(i + 1, p[i]) \in ResultItems(q)
    BY <2>1 DEF ResultItem, ResultItems
  <2>3. ResultItem(i + 1, p[i]) # ResultItem(1, h)
    BY <2>1 DEF ResultItem
  <2>4. ResultItem(i + 1, p[i]).place[2] - 1 = i /\ ResultItem(i + 1, p[i]).item = p[i]
    BY <2>1 DEF ResultItem
  <2> QED BY <2>2, <2>3, <2>4
<1>4. DOMAIN g = a
  OBVIOUS
<1>5. g = [o \in a |-> g[o]]
  OBVIOUS
<1>6. \A i \in DOMAIN p : ResultItem(i, p[i]) \in b
  BY DEF ResultItem, ResultItems
<1>7. \A n \in b : \E i \in DOMAIN p : n = ResultItem(i, p[i])
  BY DEF ResultItem, ResultItems
<1> HIDE DEF a, b, g
<1>8. g \in [a -> b]
  BY <1>2, <1>5, <1>6
<1>9. \A n \in b : \E o \in a : g[o] = n
  BY <1>3, <1>7
<1>10. ASSUME NEW o \in a, NEW m \in a, g[o] = g[m] PROVE o = m
  <2>1. PICK i \in DOMAIN p : o = ResultItem(i + 1, p[i]) /\ g[o] = ResultItem(i, p[i])
    BY <1>2
  <2>2. PICK j \in DOMAIN p : m = ResultItem(j + 1, p[j]) /\ g[m] = ResultItem(j, p[j])
    BY <1>2
  <2>3. i = j
    BY <1>10, <2>1, <2>2 DEF ResultItem
  <2> QED BY <2>1, <2>2, <2>3
<1>11. \A o \in a : Becomes(o.item, g[o].item)
  <2> SUFFICES ASSUME NEW o \in a PROVE Becomes(o.item, g[o].item)
    OBVIOUS
  <2>1. PICK i \in DOMAIN p : o = ResultItem(i + 1, p[i]) /\ g[o] = ResultItem(i, p[i])
    BY <1>2
  <2> QED BY <2>1 DEF ResultItem, Becomes
<1>12. Carried(a, b)
  <2>1. g \in Bijection(a, b)
    BY <1>8, <1>9, <1>10 DEF Bijection, Injection, Surjection, IsInjective
  <2> QED BY <1>11, <2>1 DEF Carried, Carries
<1>13. ResultItem(1, h) \in ResultItems(q)
  BY <1>1 DEF ResultItem, ResultItems
<1> QED BY <1>12, <1>13 DEF a, b, p, h

\* What is outstanding stays so, or becomes what its task results in; a worker
\* that fails to load may add an error for no job.
WorkMoves ==
    /\ IsFiniteSet(Outstanding')
    /\ \A n \in Outstanding' : n.item.job < nextId
    /\ \A n \in Outstanding' : n.item.kind = "whisper" => \E o \in Outstanding : o.item = n.item
    /\ \A id \in Ids : Carried(Of(Outstanding, id), Of(Outstanding', id))

\* When all of it is carried, it moves.
LEMMA CarriedMoves ==
  ASSUME IdInv, WorkInv, Carried(Outstanding, Outstanding')
  PROVE  WorkMoves
<1>1. IsFiniteSet(Outstanding')
  BY CarriedCount DEF WorkInv
<1>2. \A n \in Outstanding' : \E o \in Outstanding : Becomes(o.item, n.item)
  BY CarriedItems
<1>3. \A n \in Outstanding' : n.item.job < nextId
  BY <1>2, BecomesFields DEF IdInv
<1>4. \A n \in Outstanding' : n.item.kind = "whisper" => \E o \in Outstanding : o.item = n.item
  BY <1>2, BecomesFields
<1>5. \A id \in Ids : Carried(Of(Outstanding, id), Of(Outstanding', id))
  BY CarriedOf
<1> QED BY <1>1, <1>3, <1>4, <1>5 DEF WorkMoves

\* When the queues are as they were, nothing moves.
LEMMA NothingMoves ==
  ASSUME IdInv, WorkInv, OutboxItems(outbox') = OutboxItems(outbox),
         inbox' = inbox, task' = task, resultQ' = resultQ
  PROVE  WorkMoves
<1>1. Outstanding' = Outstanding
  BY OutstandingParts
<1>2. Carried(Outstanding, Outstanding')
  BY <1>1, CarriedSame
<1> QED BY <1>2, CarriedMoves

\* One thing moves from a place to another.
LEMMA OneMoves ==
  ASSUME NEW rest, NEW o, NEW n, o \notin rest, n \notin rest, Becomes(o.item, n.item)
  PROVE  Carried(rest \cup {o}, rest \cup {n})
BY CarriedSame, CarriedOne, CarriedUnion

\* A worker's step.
LEMMA WorkerMoves ==
  ASSUME TypeInv, TokenInv, IdInv, WorkInv, NEW w \in Workers, WorkerThread(w),
         UNCHANGED outbox
  PROVE  WorkMoves
<1> DEFINE ob == OutboxItems(outbox)
           ib == SlotItems("inbox", inbox)
           tk == SlotItems("task", task)
           rq == ResultItems(resultQ)
<1>0. /\ inbox \in [Workers -> Slots] /\ task \in [Workers -> Slots]
      /\ resultQ \in Seq(AllResults) /\ nextId \in Nat \ {0}
  BY SchedulerValues DEF TypeInv, WorkersTyped
<1>1. Outstanding = ob \cup ib \cup tk \cup rq
  BY OutstandingParts
<1>2. Outstanding' = ob \cup SlotItems("inbox", inbox') \cup SlotItems("task", task')
                       \cup ResultItems(resultQ')
  BY OutstandingParts
<1>3. /\ \A o \in ob : o.place[1] = "outbox"
      /\ \A o \in ib : o.place[1] = "inbox"
      /\ \A o \in tk : o.place[1] = "task"
      /\ \A o \in rq : o.place[1] = "result"
  BY PlaceNames
<1>4. CASE Load(w) \/ Announce(w)
  BY <1>4, NothingMoves DEF Load, Announce
<1>5. CASE LoadFails(w)
  <2> DEFINE e == [kind |-> "error", job |-> 0]
             n == ResultItem(Len(resultQ) + 1, e)
  <2>1. e \in AllResults
    BY DEF ErrorResults, AllResults
  <2>2. ResultItems(Append(resultQ, e)) = rq \cup {n}
    <3> HIDE DEF e, n
    <3> QED BY <1>0, <2>1, ResultQueued DEF n
  <2>3. n.item = e /\ e.job = 0 /\ e.kind = "error"
    BY DEF ResultItem
  <2>4. inbox' = inbox /\ task' = task /\ resultQ' = Append(resultQ, e)
    BY <1>5 DEF LoadFails
  <2>5. Outstanding' = Outstanding \cup {n}
    <3> HIDE DEF n, e, ob, ib, tk, rq
    <3> QED BY <1>1, <1>2, <2>2, <2>4 DEF ib, tk
  <2> HIDE DEF n, e, ob, ib, tk, rq
  <2>6. IsFiniteSet(Outstanding')
    BY <2>5, FS_AddElement DEF WorkInv
  <2>7. \A m \in Outstanding' : m.item.job < nextId
    BY <1>0, <2>3, <2>5 DEF IdInv
  <2>8. \A m \in Outstanding' : m.item.kind = "whisper" => \E o \in Outstanding : o.item = m.item
    BY <2>3, <2>5
  <2>9. \A id \in Ids : Carried(Of(Outstanding, id), Of(Outstanding', id))
    <3> SUFFICES ASSUME NEW id \in Ids PROVE Of(Outstanding', id) = Of(Outstanding, id)
      BY CarriedSame
    <3>1. id # 0
      BY DEF Ids
    <3> QED BY <2>3, <2>5, <3>1 DEF Of
  <2> QED BY <2>6, <2>7, <2>8, <2>9 DEF WorkMoves
<1>6. CASE ReceiveTask(w)
  <2> DEFINE t == inbox[w][1]
             o == SlotItem("inbox", w, t)
             n == SlotItem("task", w, t)
             rest == ob \cup SlotItems("inbox", inbox') \cup tk \cup rq
  <2>1. /\ inbox[w] # <<>> /\ inbox' = [inbox EXCEPT ![w] = <<>>]
        /\ task' = [task EXCEPT ![w] = inbox[w]] /\ task[w] = <<>> /\ resultQ' = resultQ
    BY <1>6 DEF ReceiveTask, TokenInv
  <2>2. inbox[w] = <<t>>
    BY <1>0, <2>1, SlotFields
  <2>3. ib = SlotItems("inbox", inbox') \cup {o} /\ o \notin SlotItems("inbox", inbox')
    BY <1>0, <2>1, SlotEmptied
  <2>4. SlotItems("task", task') = tk \cup {n} /\ n \notin tk
    <3>1. task' = [task EXCEPT ![w] = <<t>>]
      BY <2>1, <2>2
    <3> HIDE DEF t
    <3>2. /\ SlotItems("task", [task EXCEPT ![w] = <<t>>]) = tk \cup {n} /\ n \notin tk
      BY <1>0, <2>1, SlotFilled
    <3> QED BY <3>1, <3>2
  <2>5. /\ o.place[1] = "inbox" /\ n.place[1] = "task" /\ n.item = o.item
        /\ \A m \in SlotItems("inbox", inbox') : m.place[1] = "inbox"
    BY PlaceNames DEF SlotItem
  <2> HIDE DEF o, n, ob, ib, tk, rq, t
  <2>6. o \notin rest /\ n \notin rest
    BY <1>3, <2>3, <2>4, <2>5
  <2>7. Outstanding = rest \cup {o} /\ Outstanding' = rest \cup {n}
    BY <1>1, <1>2, <2>1, <2>3, <2>4 DEF rq
  <2>8. Becomes(o.item, n.item)
    BY <2>5 DEF Becomes
  <2> HIDE DEF rest
  <2> QED BY <2>6, <2>7, <2>8, OneMoves, CarriedMoves
<1>7. CASE ReportResult(w)
  <2>1. /\ task[w] # <<>> /\ task' = [task EXCEPT ![w] = <<>>] /\ inbox' = inbox
        /\ \E r \in Results(task[w][1]) : resultQ' = Append(resultQ, r)
    BY <1>7 DEF ReportResult, TokenInv
  <2>2. PICK r \in Results(task[w][1]) : resultQ' = Append(resultQ, r)
    BY <2>1
  <2> DEFINE t == task[w][1]
             o == SlotItem("task", w, t)
             n == ResultItem(Len(resultQ) + 1, r)
             rest == ob \cup ib \cup SlotItems("task", task') \cup rq
  <2>3. t \in Tasks
    BY <1>0, <2>1, SlotFields
  <2>4. r \in AllResults /\ Becomes(t, r)
    <3> HIDE DEF t
    <3> QED BY <2>2, <2>3, ResultsTyped DEF Becomes, t
  <2>5. tk = SlotItems("task", task') \cup {o} /\ o \notin SlotItems("task", task')
    BY <1>0, <2>1, SlotEmptied
  <2>6. ResultItems(resultQ') = rq \cup {n} /\ n \notin rq
    BY <1>0, <2>2, <2>4, ResultQueued
  <2>7. /\ o.place[1] = "task" /\ n.place[1] = "result" /\ n.item = r /\ o.item = t
        /\ \A m \in SlotItems("task", task') : m.place[1] = "task"
    BY PlaceNames DEF SlotItem, ResultItem
  <2> HIDE DEF o, n, ob, ib, tk, rq, t
  <2>8. o \notin rest /\ n \notin rest
    BY <1>3, <2>5, <2>6, <2>7
  <2>9. Outstanding = rest \cup {o} /\ Outstanding' = rest \cup {n}
    BY <1>1, <1>2, <2>1, <2>5, <2>6 DEF ib
  <2> HIDE DEF rest
  <2> QED BY <2>4, <2>7, <2>8, <2>9, OneMoves, CarriedMoves
<1> QED BY <1>4, <1>5, <1>6, <1>7 DEF WorkerThread

\* A message leaves the outbox.
LEMMA SendMoves ==
  ASSUME TypeInv, TokenInv, IdInv, WorkInv, Send
  PROVE  WorkMoves
<1>1. outbox # <<>> /\ outbox' = Tail(outbox) /\ UNCHANGED <<workerPC, task, readyQ, resultQ>>
  BY DEF Send, Respond, Post, workerVars
<1>2. /\ Len(outbox') = Len(outbox) - 1 /\ DOMAIN outbox' = 1 .. Len(outbox) - 1
      /\ Len(outbox) \in Nat \ {0} /\ 1 \in DOMAIN outbox /\ Head(outbox) = outbox[1]
      /\ DOMAIN outbox = 1 .. Len(outbox)
      /\ outbox[1] \in Messages
      /\ \A i \in DOMAIN outbox' : i + 1 \in DOMAIN outbox /\ outbox'[i] = outbox[i + 1]
      /\ \A i \in DOMAIN outbox : i = 1 \/ (i - 1 \in DOMAIN outbox' /\ i = (i - 1) + 1)
  BY <1>1, OutboxRest, SchedulerValues DEF TypeInv
<1> DEFINE k == Len(outbox)
           o == [place |-> <<"outbox", k>>, item |-> outbox[k].task]
           ib == SlotItems("inbox", inbox)
           tk == SlotItems("task", task)
           rq == ResultItems(resultQ)
<1>3. /\ Outstanding = OutboxItems(outbox) \cup ib \cup tk \cup rq
      /\ Outstanding' = OutboxItems(outbox') \cup SlotItems("inbox", inbox') \cup tk \cup rq
  BY <1>1, OutstandingParts
<1>4. /\ \A x \in ib : x.place[1] = "inbox"
      /\ \A x \in tk : x.place[1] = "task"
      /\ \A x \in rq : x.place[1] = "result"
  BY PlaceNames
<1>5. /\ \A i \in DOMAIN outbox : i # k => outbox[i].to # "worker"
      /\ k \in DOMAIN outbox
  BY <1>2 DEF TokenInv, ForWorker
<1>6. ASSUME outbox[k].to = "worker" PROVE OutboxItems(outbox) = {o}
  BY <1>5, <1>6, OneItem
<1>7. ASSUME outbox[k].to # "worker" PROVE OutboxItems(outbox) = {}
  BY <1>5, <1>7 DEF OutboxItems
<1>8. CASE Respond
  <2>0. outbox[1].to = "session" /\ inbox' = inbox
    BY <1>2, <1>8 DEF Respond, workerVars
  <2>1. CASE outbox[k].to # "worker"
    <3>1. \A i \in DOMAIN outbox' : outbox'[i].to # "worker"
      BY <1>2, <1>5, <2>1
    <3>2. OutboxItems(outbox') = {}
      BY <3>1 DEF OutboxItems
    <3> QED BY <1>1, <1>7, <2>0, <2>1, <3>2, NothingMoves
  <2>2. CASE outbox[k].to = "worker"
    <3> DEFINE n == [place |-> <<"outbox", k - 1>>, item |-> outbox[k].task]
               rest == ib \cup tk \cup rq
    <3>1. k # 1
      BY <2>0, <2>2
    <3>2. k - 1 \in DOMAIN outbox' /\ outbox'[k - 1] = outbox[k]
      BY <1>2, <1>5, <3>1
    <3>3. \A i \in DOMAIN outbox' : i # k - 1 => outbox'[i].to # "worker"
      <4> SUFFICES ASSUME NEW i \in DOMAIN outbox', i # k - 1 PROVE outbox'[i].to # "worker"
        OBVIOUS
      <4>1. i + 1 \in DOMAIN outbox /\ i + 1 # k /\ outbox'[i] = outbox[i + 1]
        BY <1>2
      <4> QED BY <1>5, <4>1
    <3> HIDE DEF k
    <3>4. OutboxItems(outbox') = {n}
      BY <2>2, <3>2, <3>3, OneItem
    <3>5. o.place[1] = "outbox" /\ n.place[1] = "outbox" /\ o.item = n.item
      OBVIOUS
    <3> HIDE DEF o, n, ib, tk, rq
    <3>6. o \notin rest /\ n \notin rest
      BY <1>4, <3>5
    <3>7. Outstanding = rest \cup {o} /\ Outstanding' = rest \cup {n}
      BY <1>3, <1>6, <2>0, <2>2, <3>4 DEF ib
    <3>8. Becomes(o.item, n.item)
      BY <3>5 DEF Becomes
    <3> HIDE DEF rest
    <3> QED BY <3>6, <3>7, <3>8, OneMoves, CarriedMoves
  <2> QED BY <2>1, <2>2
<1>9. CASE Post
  <2> DEFINE w == outbox[1].worker
             t == outbox[1].task
             n == SlotItem("inbox", w, t)
             rest == ib \cup tk \cup rq
  <2>1. ForWorker(1) /\ outbox[1].to = "worker" /\ inbox[w] = <<>>
        /\ inbox' = [inbox EXCEPT ![w] = <<t>>]
    BY <1>2, <1>9 DEF Post, ForWorker
  <2>2. w \in Workers /\ inbox \in [Workers -> Slots]
    BY <1>2, <2>1, MessageFields DEF TypeInv, WorkersTyped
  <2>3. k = 1
    BY <1>2, <2>1 DEF TokenInv
  <2>4. OutboxItems(outbox') = {}
    <3>1. DOMAIN outbox' = {}
      BY <1>2, <2>3
    <3> QED BY <3>1 DEF OutboxItems
  <2>5. SlotItems("inbox", inbox') = ib \cup {n} /\ n \notin ib
    <3> HIDE DEF w, t
    <3>1. /\ SlotItems("inbox", [inbox EXCEPT ![w] = <<t>>]) = ib \cup {n} /\ n \notin ib
      BY <2>1, <2>2, SlotFilled
    <3> QED BY <2>1, <3>1
  <2>6. o.place[1] = "outbox" /\ n.place[1] = "inbox" /\ o.item = n.item
    BY <2>3 DEF SlotItem
  <2>7. OutboxItems(outbox) = {o}
    BY <1>6, <2>1, <2>3
  <2> HIDE DEF o, n, ib, tk, rq, w, t, k
  <2>8. o \notin rest /\ n \notin rest
    BY <1>4, <2>5, <2>6
  <2>9. Outstanding = rest \cup {o} /\ Outstanding' = rest \cup {n}
    BY <1>3, <2>4, <2>5, <2>7
  <2>10. Becomes(o.item, n.item)
    BY <2>6 DEF Becomes
  <2> HIDE DEF rest
  <2> QED BY <2>8, <2>9, <2>10, OneMoves, CarriedMoves
<1> QED BY <1>8, <1>9 DEF Send

\* A worker is given a task, and no more changes.
LEMMA ReadyAdds ==
  ASSUME TypeInv, JobsOK, SelectReady, NEW i \in DOMAIN active,
         VadSent(Head(readyQ), i) \/ \E plan : WindowSent(Head(readyQ), i, plan)
  PROVE  \E n : /\ Outstanding' = Outstanding \cup {n} /\ n \notin Outstanding
                /\ \/ VadSent(Head(readyQ), i) /\ n.item = VadTask(active[i])
                   \/ \E plan : /\ WindowSent(Head(readyQ), i, plan)
                                /\ n.item = WhisperTask(active[i], plan)
<1>1. /\ outbox = <<>> /\ outbox' # <<>> /\ DOMAIN outbox' = 1 .. Len(outbox')
      /\ Len(outbox') \in Nat \ {0}
      /\ \A k \in DOMAIN outbox' : k # Len(outbox') => outbox'[k].to = "session"
  BY ReadySends
<1>2. PICK u \in Tasks : /\ outbox'[Len(outbox')].to = "worker"
                         /\ outbox'[Len(outbox')].task = u
                         /\ \/ VadSent(Head(readyQ), i) /\ u = VadTask(active[i])
                            \/ \E plan : /\ WindowSent(Head(readyQ), i, plan)
                                         /\ u = WhisperTask(active[i], plan)
  BY ReadySends
<1>3. UNCHANGED <<inbox, task, resultQ>>
  BY DEF SelectReady
<1> DEFINE k == Len(outbox')
           n == [place |-> <<"outbox", k>>, item |-> u]
           rest == SlotItems("inbox", inbox) \cup SlotItems("task", task) \cup ResultItems(resultQ)
<1>4. OutboxItems(outbox) = {}
  BY <1>1, NoItems
<1>5. OutboxItems(outbox') = {n}
  <2>1. k \in DOMAIN outbox' /\ \A j \in DOMAIN outbox' : j # k => outbox'[j].to # "worker"
    BY <1>1
  <2> QED BY <1>2, <2>1, OneItem
<1>6. Outstanding = rest /\ Outstanding' = {n} \cup rest
  BY <1>3, <1>4, <1>5, OutstandingParts
<1>7. n \notin rest
  <2>1. /\ \A o \in SlotItems("inbox", inbox) : o.place[1] = "inbox"
        /\ \A o \in SlotItems("task", task) : o.place[1] = "task"
        /\ \A o \in ResultItems(resultQ) : o.place[1] = "result"
    BY PlaceNames
  <2>2. n.place[1] = "outbox"
    OBVIOUS
  <2> HIDE DEF n
  <2> QED BY <2>1, <2>2
<1> QED BY <1>2, <1>6, <1>7

\* The result that is taken is gone, and no more changes.
LEMMA ResultRemoved ==
  ASSUME TypeInv, JobsOK, IdInv, WorkInv, SelectResult \/ SelectError
  PROVE  /\ ResultItem(1, Head(resultQ)) \in Outstanding
         /\ Carried(Outstanding \ {ResultItem(1, Head(resultQ))}, Outstanding')
<1> DEFINE h == ResultItem(1, Head(resultQ))
           rest == SlotItems("inbox", inbox) \cup SlotItems("task", task)
           a == ResultItems(resultQ) \ {h}
           b == ResultItems(resultQ')
<1>1. /\ outbox = <<>> /\ \A i \in DOMAIN outbox' : outbox'[i].to = "session"
      /\ UNCHANGED <<inbox, task>>
  BY PlainTells DEF Plain
<1>2. resultQ # <<>> /\ resultQ' = Tail(resultQ) /\ resultQ \in Seq(AllResults)
  BY DEF SelectResult, SelectError, TypeInv, WorkersTyped
<1>3. OutboxItems(outbox) = {} /\ OutboxItems(outbox') = {}
  BY <1>1, NoItems
<1>4. Outstanding = rest \cup ResultItems(resultQ) /\ Outstanding' = rest \cup b
  BY <1>1, <1>3, OutstandingParts
<1>5. Carried(a, b) /\ h \in ResultItems(resultQ)
  BY <1>2, ResultTaken
<1>6. /\ \A o \in rest : o.place[1] # "result"
      /\ \A o \in ResultItems(resultQ) : o.place[1] = "result"
      /\ \A o \in b : o.place[1] = "result"
  <2> HIDE DEF h
  <2> QED BY PlaceNames
<1> HIDE DEF h, rest, b
<1>7. Outstanding \ {h} = rest \cup a
  BY <1>4, <1>5, <1>6
<1>8. rest \cap a = {} /\ rest \cap b = {}
  BY <1>6
<1> HIDE DEF a
<1>9. Carried(rest \cup a, rest \cup b)
  BY <1>5, <1>8, CarriedSame, CarriedUnion
<1> QED BY <1>4, <1>5, <1>7, <1>9 DEF h

\* The other steps.
LEMMA WorkStep ==
  ASSUME TypeInv, JobsOK, IdInv, TokenInv, WorkInv, [Next]_vars,
         ~SelectReady, ~SelectResult, ~SelectError
  PROVE  WorkMoves
<1>1. ASSUME UNCHANGED <<workerVars, outbox>> PROVE WorkMoves
  BY <1>1, NothingMoves DEF workerVars
<1>2. ASSUME NEW w \in Workers, Worker(w) PROVE WorkMoves
  BY <1>2, WorkerMoves DEF Worker, schedulerVars
<1>3. CASE Plain
  <2>1. /\ outbox = <<>> /\ UNCHANGED <<workerPC, task, inbox, readyQ>>
        /\ \A i \in DOMAIN outbox' : outbox'[i].to = "session"
    BY <1>3, PlainTells
  <2>2. resultQ' = resultQ
    BY <1>3 DEF Plain, StartRun, DrainChunk, DrainNext, EndDrain, SelectJob, Clear,
                SelectSleep, workerVars
  <2>3. OutboxItems(outbox) = {} /\ OutboxItems(outbox') = {}
    BY <2>1, NoItems
  <2> QED BY <2>1, <2>2, <2>3, NothingMoves
<1> QED BY <1>1, <1>2, <1>3, SendMoves
        DEF Next, Scheduler, Plain, Session, Reader, schedulerVars, vars

-----------------------------------------------------------------------------
(* What a job counts and waits for. *)

\* new has the same work outstanding as job.
SameWork(job, new) ==
    /\ new.id = job.id /\ new.session = job.session
    /\ new.nextResult = job.nextResult /\ new.nextWindow = job.nextWindow
    /\ new.pending = job.pending /\ new.inFlight = job.inFlight
    /\ new.vadBusy = job.vadBusy
    /\ job.vadBusy => /\ new.vadDone = job.vadDone /\ new.offset = job.offset
                      /\ job.len <= new.len

\* Changes that leave a job's work alone.
LEMMA SameWorkKept ==
  ASSUME NEW job \in Jobs, JobOK(job), NEW c, NEW b \in BOOLEAN
  PROVE  /\ SameWork(job, job) /\ SameWork(job, AcceptChunk(job, c))
         /\ SameWork(job, [job EXCEPT !.closed = b])
         /\ SameWork(job, RefreshSpeechState(job))
<1>1. job.len \in Nat /\ job.len <= job.len + 1 /\ job.len <= job.len
  BY JobFields
<1>2. SameWork(job, job)
  BY <1>1 DEF SameWork
<1>3. SameWork(job, [job EXCEPT !.len = @ + 1])
  BY <1>1 DEF SameWork, Jobs
<1>4. \A d \in BOOLEAN : SameWork(job, [job EXCEPT !.closed = d])
  BY <1>1 DEF SameWork, Jobs
<1>5. SameWork(job, AcceptChunk(job, c))
  BY <1>3, <1>4 DEF AcceptChunk
<1>6. SameWork(job, RefreshSpeechState(job))
  <2>1. CASE RefreshSpeechState(job) = job
    BY <1>2, <2>1
  <2>2. CASE /\ ~job.vadBusy
             /\ RefreshSpeechState(job)
                  = [job EXCEPT !.offset = @ + job.len, !.len = 0, !.probs = <<>>]
    BY <2>2 DEF SameWork, Jobs
  <2> QED BY <2>1, <2>2, RefreshOK
<1> QED BY <1>2, <1>4, <1>5, <1>6

\* What suits a job suits it still.
LEMMA SuitsKept ==
  ASSUME NEW job \in Jobs, NEW new \in Jobs, SameWork(job, new),
         NEW os, NEW ns, Carried(os, ns), Suits(job, os)
  PROVE  Suits(new, ns)
<1>1. PICK back \in [ns -> os] :
        /\ \A n \in ns : Becomes(back[n].item, n.item)
        /\ \A m, n \in ns : back[m] = back[n] => m = n
  BY CarriedItems
<1>2. /\ job.len \in Nat /\ new.len \in Nat /\ job.vadDone \in Nat
  BY JobFields
<1>3. ASSUME NEW n \in ns
      PROVE  /\ Whisper(n) => WhisperOwn(new, n.item) /\ back[n].item = n.item
             /\ Vad(n) => VadOwn(new, n.item) /\ Vad(back[n])
  <2>1. back[n] \in os /\ Becomes(back[n].item, n.item)
    BY <1>1
  <2>2. /\ Whisper(back[n]) => WhisperOwn(job, back[n].item)
        /\ Vad(back[n]) => VadOwn(job, back[n].item)
    BY <2>1 DEF Suits
  <2>3. ASSUME Whisper(n) PROVE WhisperOwn(new, n.item) /\ back[n].item = n.item
    <3>1. back[n].item = n.item /\ Whisper(back[n])
      BY <2>1, <2>3, BecomesFields DEF Whisper
    <3> QED BY <2>2, <3>1 DEF WhisperOwn, SameWork
  <2>4. ASSUME Vad(n) PROVE VadOwn(new, n.item) /\ Vad(back[n])
    <3>1. Vad(back[n]) /\ n.item.start = back[n].item.start /\ n.item.from = back[n].item.from
      BY <2>1, <2>4, BecomesFields DEF Vad
    <3>2. /\ job.vadBusy /\ n.item.start = job.vadDone /\ n.item.start < job.len
          /\ n.item.from = job.offset + n.item.start
      BY <2>2, <3>1 DEF VadOwn
    <3> QED BY <1>2, <3>1, <3>2 DEF VadOwn, SameWork
  <2> QED BY <2>3, <2>4
<1>4. ASSUME NEW m \in ns, NEW n \in ns
      PROVE  /\ Whisper(m) /\ Whisper(n) /\ m.item.index = n.item.index => m = n
             /\ Vad(m) /\ Vad(n) => m = n
  <2>1. back[m] \in os /\ back[n] \in os
    BY <1>1
  <2>2. ASSUME Whisper(m), Whisper(n), m.item.index = n.item.index PROVE m = n
    <3>1. Whisper(back[m]) /\ Whisper(back[n]) /\ back[m].item.index = back[n].item.index
      BY <1>3, <2>2 DEF Whisper
    <3> QED BY <1>1, <2>1, <3>1 DEF Suits
  <2>3. ASSUME Vad(m), Vad(n) PROVE m = n
    <3>1. Vad(back[m]) /\ Vad(back[n])
      BY <1>3, <2>3
    <3> QED BY <1>1, <2>1, <3>1 DEF Suits
  <2> QED BY <2>2, <2>3
<1> QED BY <1>3, <1>4 DEF Suits

\* What is counted is counted still.
LEMMA CountsKept ==
  ASSUME NEW job, NEW new, SameWork(job, new),
         NEW os, NEW ns, Carried(os, ns), IsFiniteSet(os), Counts(job, os)
  PROVE  Counts(new, ns)
<1>1. Cardinality(ns) = Cardinality(os)
  BY CarriedCount
<1>2. ASSUME NEW o \in os, ~Whisper(o) PROVE \E n \in ns : ~Whisper(n)
  <2>1. PICK n \in ns : Becomes(o.item, n.item)
    BY CarriedItems
  <2>2. ~Whisper(n)
    BY <1>2, <2>1, BecomesFields DEF Whisper
  <2> QED BY <2>2
<1> QED BY <1>1, <1>2 DEF Counts, SameWork

\* A job that nothing is outstanding of.
LEMMA NewJobWork ==
  ASSUME NEW id, NEW s
  PROVE  Suits(NewJob(id, s), {}) /\ Counts(NewJob(id, s), {})
         /\ NewJob(id, s).id = id /\ NewJob(id, s).session = s /\ NewJob(id, s).pending = {}
BY FS_EmptySet DEF NewJob, Suits, Counts

\* The jobs after a step have the work they had, or are new.
JobsMove ==
    \A i \in DOMAIN active' :
        \/ \E k \in DOMAIN active : SameWork(active[k], active'[i])
        \/ \E s \in Sessions : active'[i] = NewJob(nextId, s)

\* A job has joined the active ones.
LEMMA JoinsAppends ==
  ASSUME TypeInv, JobsOK, IdInv, StartRun \/ SelectJob
  PROVE  /\ Head(jobQ) \in Sessions /\ jobQ # <<>>
         /\ active' = Append(active, NewJob(nextId, Head(jobQ)))
         /\ active' \in Seq(Jobs) /\ Len(active') = Len(active) + 1
         /\ DOMAIN active' = 1 .. Len(active) + 1
         /\ active'[Len(active) + 1] = NewJob(nextId, Head(jobQ))
         /\ \A k \in DOMAIN active : active'[k] = active[k] /\ k \in DOMAIN active'
<1>1. active' = Append(active, NewJob(nextId, Head(jobQ))) /\ jobQ # <<>>
  BY StartAppends DEF StartRun, SelectJob
<1>2. Head(jobQ) \in Sessions /\ nextId \in Ids /\ SchedulerTyped
  BY <1>1, Taken, SchedulerValues DEF TypeInv, SessionsTyped, Ids
<1> QED BY <1>1, <1>2, AppendedOK

\* Steps that give a job no work, and take no result.
LEMMA JobsMoveStep ==
  ASSUME TypeInv, JobsOK, IdInv, [Next]_vars, ~SelectReady, ~SelectResult
  PROVE  JobsMove
<1>1. \A i \in DOMAIN active : active[i] \in Jobs /\ JobOK(active[i])
  BY SchedulerValues DEF TypeInv, JobsOK
<1>2. CASE active' = active
  BY <1>1, <1>2, SameWorkKept DEF JobsMove
<1>3. CASE StartRun \/ SelectJob
  <2>1. \A i \in 1 .. Len(active) + 1 : i = Len(active) + 1 \/ i \in DOMAIN active
    BY SchedulerValues DEF TypeInv
  <2> QED BY <1>1, <1>3, <2>1, JoinsAppends, SameWorkKept DEF JobsMove
<1>4. ASSUME NEW k \in DOMAIN active, NEW new, SameWork(active[k], new),
             active' = [active EXCEPT ![k] = new]
      PROVE  JobsMove
  <2>1. DOMAIN active' = DOMAIN active /\ active'[k] = new
        /\ \A i \in DOMAIN active : i # k => active'[i] = active[i]
    BY <1>4
  <2> QED BY <1>1, <1>4, <2>1, SameWorkKept DEF JobsMove
<1>5. CASE DrainChunk
  <2>1. at \in DOMAIN active
    BY <1>5, SchedulerValues DEF TypeInv, DrainChunk, Draining
  <2>2. PICK c : active' = [active EXCEPT ![at] = AcceptChunk(active[at], c)]
    BY <1>5 DEF DrainChunk
  <2> QED BY <1>1, <1>4, <2>1, <2>2, SameWorkKept
<1>6. CASE DrainNext
  <2>1. at \in DOMAIN active
    BY <1>6, SchedulerValues DEF TypeInv, DrainNext, Draining
  <2>2. PICK b \in BOOLEAN : active' = [active EXCEPT ![at] = [active[at] EXCEPT !.closed = b]]
    <3> DEFINE b == active[at].closed \/ (Drainable(active[at]) /\ ~Reading(active[at].session))
    <3>1. b \in BOOLEAN
      BY <1>1, <2>1, JobFields DEF Drainable, Reading
    <3>2. active' = [active EXCEPT ![at] = [active[at] EXCEPT !.closed = b]]
      BY <1>6 DEF DrainNext
    <3> HIDE DEF b
    <3> QED BY <3>1, <3>2
  <2> QED BY <1>1, <1>4, <2>1, <2>2, SameWorkKept
<1>7. CASE EndDrain
  <2>1. PICK stay, leave : Parted(stay, leave)
    BY <1>7, EndDrainEffect DEF TypeInv
  <2>2. active' \in Seq(Jobs) /\ DOMAIN active' = 1 .. Len(active')
    <3>1. active' \in Seq(Jobs)
      BY <1>7, EndDrainEffect DEF TypeInv
    <3> HIDE DEF Jobs
    <3> QED BY <3>1, LenProperties
  <2>3. ASSUME NEW i \in DOMAIN active'
        PROVE  \E k \in DOMAIN active : SameWork(active[k], active'[i])
    <3>1. stay[i] \in DOMAIN Refreshed /\ active'[i] = Refreshed[stay[i]]
      BY <2>1, <2>2 DEF Parted, Picks
    <3>2. stay[i] \in DOMAIN active
          /\ (Refreshed[stay[i]] = active[stay[i]]
              \/ Refreshed[stay[i]] = RefreshSpeechState(active[stay[i]]))
      BY <3>1, RefreshedJobs DEF TypeInv
    <3> QED BY <1>1, <3>1, <3>2, SameWorkKept
  <2> QED BY <2>3 DEF JobsMove
<1>8. CASE Clear
  BY <1>8 DEF Clear, JobsMove
<1> QED BY <1>2, <1>3, <1>5, <1>6, <1>7, <1>8
        DEF Next, Scheduler, Session, Reader, Worker, schedulerVars, vars, Send, Respond, Post,
            SelectError, SelectSleep

\* One thing more, or less, is outstanding.
LEMMA CountMore ==
  ASSUME NEW os, IsFiniteSet(os), NEW n
  PROVE  /\ IsFiniteSet(os \cup {n}) /\ Cardinality(os) \in Nat
         /\ n \notin os => Cardinality(os \cup {n}) = Cardinality(os) + 1
         /\ IsFiniteSet(os \ {n})
         /\ n \in os => Cardinality(os \ {n}) = Cardinality(os) - 1
BY FS_AddElement, FS_RemoveElement, FS_CardinalityType

\* Less of what suits a job suits it.
LEMMA SuitsLess ==
  ASSUME NEW job, NEW os, NEW rest, rest \subseteq os, Suits(job, os)
  PROVE  Suits(job, rest)
BY DEF Suits

\* A VAD window is dispatched.
LEMMA VadAdded ==
  ASSUME NEW job \in Jobs, HasVadReady(job), NEW os, IsFiniteSet(os), NEW n, n \notin os,
         n.item = VadTask(job), Suits(job, os)
  PROVE  /\ Suits([job EXCEPT !.vadBusy = TRUE], os \cup {n})
         /\ Counts(job, os) => Counts([job EXCEPT !.vadBusy = TRUE], os \cup {n})
<1> DEFINE new == [job EXCEPT !.vadBusy = TRUE]
<1>1. /\ new.id = job.id /\ new.session = job.session /\ new.nextResult = job.nextResult
      /\ new.nextWindow = job.nextWindow /\ new.pending = job.pending /\ new.vadBusy
      /\ new.inFlight = job.inFlight
      /\ new.vadDone = job.vadDone /\ new.len = job.len /\ new.offset = job.offset
  BY DEF Jobs
<1>2. ~job.vadBusy /\ job.vadDone < job.len /\ job.inFlight \in Nat
  BY JobFields DEF HasVadReady
<1>3. /\ n.item.kind = "vad" /\ n.item.start = job.vadDone
      /\ n.item.from = job.offset + job.vadDone
  BY DEF VadTask
<1> HIDE DEF new
<1>4. Vad(n) /\ ~Whisper(n) /\ VadOwn(new, n.item)
  BY <1>1, <1>2, <1>3 DEF Vad, Whisper, VadOwn
<1>5. \A o \in os : ~Vad(o) /\ (Whisper(o) => WhisperOwn(new, o.item))
  BY <1>1, <1>2 DEF Suits, VadOwn, WhisperOwn
<1>6. Suits(new, os \cup {n})
  BY <1>4, <1>5 DEF Suits
<1>7. ASSUME Counts(job, os) PROVE Counts(new, os \cup {n})
  <2>1. job.inFlight = Cardinality(os)
    BY <1>2, <1>7 DEF Counts
  <2>2. Cardinality(os \cup {n}) = Cardinality(os) + 1
    BY CountMore
  <2> QED BY <1>1, <1>4, <2>1, <2>2 DEF Counts
<1> QED BY <1>6, <1>7 DEF new

\* A Whisper window is dispatched.
LEMMA WindowAdded ==
  ASSUME NEW job \in Jobs, JobOK(job), HasWindowReady(job), NEW plan, PlanOK(job, plan),
         NEW os, IsFiniteSet(os), NEW n, n \notin os, n.item = WhisperTask(job, plan),
         \A o \in os : Whisper(o) => o.item.index \in Nat, Suits(job, os)
  PROVE  /\ Suits(AfterDispatch(job, plan), os \cup {n})
         /\ Counts(job, os) => Counts(AfterDispatch(job, plan), os \cup {n})
<1> DEFINE new == AfterDispatch(job, plan)
<1>1. /\ new.id = job.id /\ new.session = job.session /\ new.nextResult = job.nextResult
      /\ new.nextWindow = job.nextWindow + 1 /\ new.pending = job.pending
      /\ new.vadBusy = job.vadBusy /\ new.inFlight = job.inFlight + 1
  BY DEF Jobs, AfterDispatch
<1>2. /\ ~job.vadBusy /\ job.inFlight \in Nat /\ job.nextWindow \in Nat
      /\ job.nextResult \in Nat /\ job.nextResult <= job.nextWindow
      /\ \A q \in job.pending : q.index < job.nextWindow /\ q.index \in Nat
  <2>1. \A q \in job.pending : q \in WhisperTasks
    BY JobFields
  <2> QED BY <2>1, JobFields, WhisperFields DEF HasWindowReady, JobOK
<1>3. /\ n.item.kind = "whisper" /\ n.item.index = job.nextWindow
      /\ n.item.session = job.session
  BY DEF WhisperTask
<1> HIDE DEF new
<1>4. Whisper(n) /\ ~Vad(n) /\ WhisperOwn(new, n.item)
  BY <1>1, <1>2, <1>3 DEF Vad, Whisper, WhisperOwn
<1>5. \A o \in os : ~Vad(o)
  BY <1>2 DEF Suits, VadOwn
<1>6. \A o \in os : Whisper(o) => WhisperOwn(new, o.item) /\ o.item.index < job.nextWindow
  BY <1>1, <1>2 DEF Suits, WhisperOwn
<1>7. Suits(new, os \cup {n})
  BY <1>2, <1>3, <1>4, <1>5, <1>6 DEF Suits
<1>8. ASSUME Counts(job, os) PROVE Counts(new, os \cup {n})
  <2>1. job.inFlight = Cardinality(os)
    BY <1>2, <1>8 DEF Counts
  <2>2. Cardinality(os \cup {n}) = Cardinality(os) + 1
    BY CountMore
  <2> QED BY <1>1, <1>2, <2>1, <2>2 DEF Counts
<1> QED BY <1>7, <1>8 DEF new

\* The result of a VAD window is taken.
LEMMA VadRemoved ==
  ASSUME NEW job \in Jobs, NEW os, IsFiniteSet(os), NEW h \in os, Vad(h), Suits(job, os)
  PROVE  /\ Suits(HandleVadResult(job, h.item), os \ {h})
         /\ Counts(job, os) => Counts(HandleVadResult(job, h.item), os \ {h})
<1> DEFINE new == HandleVadResult(job, h.item)
<1>1. /\ new.id = job.id /\ new.session = job.session /\ new.nextResult = job.nextResult
      /\ new.nextWindow = job.nextWindow /\ new.pending = job.pending /\ ~new.vadBusy
      /\ new.inFlight = job.inFlight
  BY DEF Jobs, HandleVadResult
<1> HIDE DEF new
<1>2. job.vadBusy /\ job.inFlight \in Nat
  BY JobFields DEF Suits, VadOwn
<1>3. \A o \in os \ {h} : ~Vad(o) /\ (Whisper(o) => WhisperOwn(new, o.item))
  BY <1>1 DEF Suits, WhisperOwn
<1>4. Suits(new, os \ {h})
  BY <1>3 DEF Suits
<1>5. ASSUME Counts(job, os) PROVE Counts(new, os \ {h})
  <2>1. job.inFlight + 1 = Cardinality(os)
    BY <1>2, <1>5 DEF Counts
  <2>2. Cardinality(os \ {h}) = Cardinality(os) - 1
    BY CountMore
  <2> QED BY <1>1, <1>2, <2>1, <2>2 DEF Counts
<1> QED BY <1>4, <1>5 DEF new

\* What the result of a Whisper window does to a job.
LEMMA HandledFields ==
  ASSUME NEW job \in Jobs, NEW r
  PROVE  LET next == Deliverable(job, r)
             new  == HandleResult(job, r)
         IN  /\ new.id = job.id /\ new.session = job.session
             /\ new.nextResult = job.nextResult + Len(next)
             /\ new.nextWindow = job.nextWindow /\ new.vadBusy = job.vadBusy
             /\ new.vadDone = job.vadDone /\ new.len = job.len /\ new.offset = job.offset
             /\ new.pending = (job.pending \cup {r}) \ {next[k] : k \in DOMAIN next}
             /\ new.inFlight = Monus(job.inFlight, 1)
             /\ new.closed = job.closed
BY DEF Jobs, HandleResult

\* The result of a Whisper window is taken.
LEMMA WindowRemoved ==
  ASSUME NEW job \in Jobs, JobOK(job), NEW os, IsFiniteSet(os), NEW h \in os, Whisper(h),
         h.item \in WhisperTasks, \A o \in os : Whisper(o) => o.item.index \in Nat,
         Suits(job, os)
  PROVE  /\ Suits(HandleResult(job, h.item), os \ {h})
         /\ Counts(job, os) => Counts(HandleResult(job, h.item), os \ {h})
<1> DEFINE r    == h.item
           next == Deliverable(job, r)
           new  == HandleResult(job, r)
           got  == job.pending \cup {r}
           a    == job.nextResult
<1>1. /\ new.id = job.id /\ new.session = job.session
      /\ new.nextResult = a + Len(next)
      /\ new.nextWindow = job.nextWindow /\ new.vadBusy = job.vadBusy
      /\ new.vadDone = job.vadDone /\ new.len = job.len /\ new.offset = job.offset
      /\ new.pending = got \ {next[k] : k \in DOMAIN next}
      /\ new.inFlight = Monus(job.inFlight, 1)
  BY HandledFields
<1>2. NextInOrder(next, got, a)
  BY DeliverableIsNext DEF JobOK
<1> HIDE DEF next, new
<1>3. /\ next \in Seq(got) /\ Len(next) \in Nat
      /\ \A k \in 1 .. Len(next) : next[k] \in got /\ next[k].index = a + k - 1
  BY <1>2, LenProperties DEF NextInOrder
<1>4. a \in Nat /\ job.inFlight \in Nat
  BY JobFields
<1>5. ASSUME NEW o \in os \ {h}, Whisper(o) PROVE WhisperOwn(new, o.item)
  <2>1. WhisperOwn(job, o.item) /\ o.item.index # r.index /\ o.item.index \in Nat
    BY <1>5 DEF Suits
  <2>2. \A q \in got : q.index # o.item.index
    BY <2>1 DEF WhisperOwn
  <2>3. a + Len(next) <= o.item.index
    <3> SUFFICES ASSUME o.item.index < a + Len(next) PROVE FALSE
      BY <1>3, <1>4, <2>1
    <3> DEFINE k == o.item.index - a + 1
    <3>1. k \in 1 .. Len(next) /\ a + k - 1 = o.item.index
      BY <1>3, <1>4, <2>1 DEF WhisperOwn
    <3> HIDE DEF k
    <3>2. next[k] \in got /\ next[k].index = o.item.index
      BY <1>3, <3>1
    <3> QED BY <2>2, <3>2
  <2> QED BY <1>1, <2>1, <2>2, <2>3 DEF WhisperOwn
<1>6. \A o \in os \ {h} : Vad(o) => VadOwn(new, o.item)
  BY <1>1 DEF Suits, VadOwn
<1>7. Suits(new, os \ {h})
  BY <1>5, <1>6 DEF Suits
<1>8. ASSUME Counts(job, os) PROVE Counts(new, os \ {h})
  <2>1. /\ Cardinality(os \ {h}) = Cardinality(os) - 1 /\ Cardinality(os) \in Nat
        /\ Cardinality(os \ {h}) \in Nat
    BY CountMore
  <2>2. job.inFlight + (IF job.vadBusy THEN 1 ELSE 0) = Cardinality(os)
        /\ (job.vadBusy => \E o \in os : ~Whisper(o))
    BY <1>8 DEF Counts
  <2>3. job.vadBusy => \E o \in os \ {h} : ~Whisper(o)
    BY <2>2
  <2>4. 0 < job.inFlight
    <3>1. CASE job.vadBusy
      <4>1. PICK o \in os \ {h} : ~Whisper(o)
        BY <2>3, <3>1
      <4>2. /\ Cardinality((os \ {h}) \ {o}) = Cardinality(os \ {h}) - 1
            /\ Cardinality((os \ {h}) \ {o}) \in Nat
        <5>1. IsFiniteSet(os \ {h}) /\ IsFiniteSet((os \ {h}) \ {o})
          BY CountMore
        <5> QED BY <4>1, <5>1, CountMore
      <4> QED BY <1>4, <2>1, <2>2, <3>1, <4>2
    <3>2. CASE ~job.vadBusy
      BY <1>4, <2>1, <2>2, <3>2
    <3> QED BY <3>1, <3>2
  <2>5. Monus(job.inFlight, 1) = job.inFlight - 1
    BY <1>4, <2>4 DEF Monus, AtLeast
  <2>6. CASE job.vadBusy
    BY <1>1, <1>4, <2>1, <2>2, <2>3, <2>5, <2>6 DEF Counts
  <2>7. CASE ~job.vadBusy
    BY <1>1, <1>4, <2>1, <2>2, <2>3, <2>5, <2>7 DEF Counts
  <2> QED BY <2>6, <2>7
<1> QED BY <1>7, <1>8 DEF new

\* What is outstanding are tasks and results.
LEMMA OutstandingTyped ==
  ASSUME TypeInv, NEW o \in Outstanding
  PROVE  /\ o.item \in Tasks \cup AllResults /\ o.item.job \in Nat
         /\ Whisper(o) => o.item \in WhisperTasks
<1>1. /\ inbox \in [Workers -> Slots] /\ task \in [Workers -> Slots]
      /\ resultQ \in Seq(AllResults) /\ \A i \in DOMAIN outbox : outbox[i] \in Messages
  BY SchedulerValues DEF TypeInv, WorkersTyped
<1>2. \A i \in DOMAIN resultQ : resultQ[i] \in AllResults
  <2> HIDE DEF AllResults
  <2> QED BY <1>1, LenProperties, ElementOfSeq
<1>3. \A i \in DOMAIN outbox : outbox[i].to = "worker" => outbox[i].task \in Tasks
  BY <1>1, MessageFields
<1>4. \A w \in Workers : /\ inbox[w] # <<>> => inbox[w][1] \in Tasks
                         /\ task[w] # <<>> => task[w][1] \in Tasks
  BY <1>1, SlotFields
<1>5. o.item \in Tasks \cup AllResults
  <2> HIDE DEF Tasks, AllResults
  <2> QED BY <1>2, <1>3, <1>4 DEF Outstanding
<1>6. CASE o.item \in Tasks
  BY <1>6, TaskKinds DEF Whisper, Ids
<1>7. CASE o.item \in AllResults
  BY <1>7, ResultKinds DEF Whisper
<1> QED BY <1>5, <1>6, <1>7

\* What a reader has sent only grows.
LEMMA SentGrows ==
  ASSUME TypeInv, [Next]_vars, NEW s \in Sessions
  PROVE  sent[s] \in Nat /\ sent'[s] \in Nat /\ sent[s] <= sent'[s]
<1>1. sent \in [Sessions -> 0 .. MaxChunks] /\ MaxChunks \in Nat
  BY LimitTypes DEF TypeInv, SessionsTyped
<1>2. CASE sent' = sent
  BY <1>1, <1>2
<1>3. ASSUME NEW r \in Sessions, SendChunk(r, Held(r)), sent' # sent
      PROVE  sent[s] \in Nat /\ sent'[s] \in Nat /\ sent[s] <= sent'[s]
  <2>1. sent' = [sent EXCEPT ![r] = @ + 1]
    BY <1>3 DEF SendChunk
  <2> QED BY <1>1, <2>1
<1> QED BY <1>2, <1>3
        DEF Next, Scheduler, Send, Respond, Post, StartRun, DrainChunk, DrainNext, EndDrain,
            SelectJob, SelectReady, SelectResult, SelectError, Clear, SelectSleep, Session,
            SessionThread, Submit, SpawnFails, WriteResponse, WriteFails, TakeFinished,
            JoinReader, Reader, ReaderThread, ReadAudio, EndOfStream, Cancel, BadSignal,
            ReaderFails, Worker,
            sessionVars, vars

\* A window of received audio stays one.
LEMMA SizedKept ==
  ASSUME TypeInv, [Next]_vars, NEW t \in WhisperTasks, Sized(t)
  PROVE  Sized(t)'
<1>1. t.session \in Sessions /\ t.to \in Nat
  BY WhisperFields
<1>2. sent[t.session] \in Nat /\ sent'[t.session] \in Nat /\ sent[t.session] <= sent'[t.session]
  BY <1>1, SentGrows
<1> QED BY <1>1, <1>2 DEF Sized

\* Work that moves while jobs keep theirs.
LEMMA MovedWork ==
  ASSUME TypeInv, JobsOK, TypeInv', WorkInv, WorkMoves, JobsMove, [Next]_vars
  PROVE  /\ WorkInv'
         /\ (pc # "clear" \/ active' = <<>>) /\ CountInv => CountInv'
<1>1. /\ \A i \in DOMAIN active : active[i] \in Jobs /\ JobOK(active[i])
      /\ \A i \in DOMAIN active' : active'[i] \in Jobs
  <2>1. active' \in Seq(Jobs)
    BY DEF TypeInv, SchedulerTyped
  <2>2. \A i \in DOMAIN active' : active'[i] \in Jobs
    <3> HIDE DEF Jobs
    <3> QED BY <2>1, LenProperties, ElementOfSeq
  <2> QED BY <2>2, SchedulerValues DEF TypeInv, JobsOK
<1>2. \A n \in Outstanding' : Whisper(n) => Sized(n.item)'
  <2> SUFFICES ASSUME NEW n \in Outstanding', Whisper(n) PROVE Sized(n.item)'
    OBVIOUS
  <2>1. PICK o \in Outstanding : o.item = n.item
    BY DEF WorkMoves, Whisper
  <2>2. Whisper(o) /\ Sized(o.item) /\ o.item \in WhisperTasks
    BY <2>1, OutstandingTyped DEF Whisper, WorkInv
  <2>3. PICK t : t = o.item
    OBVIOUS
  <2>4. Sized(t)'
    BY <2>2, <2>3, SizedKept
  <2> QED BY <2>1, <2>3, <2>4
<1>3. ASSUME NEW i \in DOMAIN active', NEW k \in DOMAIN active, SameWork(active[k], active'[i])
      PROVE  /\ \A q \in active'[i].pending : Sized(q)'
             /\ Suits(active'[i], Of(Outstanding', active'[i].id))
             /\ Counts(active[k], Of(Outstanding, active[k].id))
                  => Counts(active'[i], Of(Outstanding', active'[i].id))
  <2> DEFINE job == active[k]
             new == active'[i]
             os  == Of(Outstanding, job.id)
             ns  == Of(Outstanding', job.id)
  <2>1. /\ job \in Jobs /\ new \in Jobs /\ SameWork(job, new) /\ job.id \in Ids
        /\ new.id = job.id /\ new.pending = job.pending
    BY <1>1, <1>3, JobFields DEF SameWork
  <2>2. Carried(os, ns) /\ IsFiniteSet(os)
    <3>1. Carried(os, ns)
      BY <2>1 DEF WorkMoves
    <3>2. os \subseteq Outstanding
      BY DEF Of
    <3> QED BY <3>1, <3>2, FS_Subset DEF WorkInv
  <2>3. Suits(job, os) /\ \A q \in job.pending : Sized(q)
    BY DEF WorkInv, OutstandingFor, Of
  <2>4. \A q \in job.pending : Sized(q)'
    <3>1. job.pending \subseteq WhisperTasks
      BY <2>1, JobFields
    <3> HIDE DEF job
    <3> QED BY <2>3, <3>1, SizedKept
  <2> HIDE DEF job, new, os, ns
  <2>5. Suits(new, ns)
    BY <2>1, <2>2, <2>3, SuitsKept
  <2>6. Counts(job, os) => Counts(new, ns)
    BY <2>1, <2>2, CountsKept
  <2>7. \A q \in new.pending : Sized(q)'
    BY <2>1, <2>4
  <2> QED BY <2>1, <2>5, <2>6, <2>7 DEF job, new, os, ns
<1>4. ASSUME NEW i \in DOMAIN active', NEW s \in Sessions, active'[i] = NewJob(nextId, s)
      PROVE  /\ active'[i].pending = {}
             /\ Suits(active'[i], Of(Outstanding', active'[i].id))
             /\ Counts(active'[i], Of(Outstanding', active'[i].id))
  <2>1. active'[i].id = nextId /\ nextId \in Nat
    BY <1>4, NewJobWork, SchedulerValues DEF TypeInv
  <2>2. Of(Outstanding', active'[i].id) = {}
    <3>1. \A n \in Outstanding' : n.item.job # nextId
      <4> SUFFICES ASSUME NEW n \in Outstanding' PROVE n.item.job # nextId
        OBVIOUS
      <4>1. n.item.job < nextId
        BY DEF WorkMoves
      <4> QED BY <2>1, <4>1
    <3> QED BY <2>1, <3>1 DEF Of
  <2> QED BY <1>4, <2>2, NewJobWork
<1>5. WorkInv'
  <2>1. IsFiniteSet(Outstanding')
    BY DEF WorkMoves
  <2>2. \A i \in DOMAIN active' : /\ \A q \in active'[i].pending : Sized(q)'
                                  /\ Suits(active'[i], Of(Outstanding', active'[i].id))
    BY <1>3, <1>4 DEF JobsMove
  <2> QED BY <1>2, <2>1, <2>2 DEF WorkInv, Of, OutstandingFor, Suits, Sized, Whisper, Vad,
                                  WhisperOwn, VadOwn
<1>6. ASSUME pc # "clear" \/ active' = <<>>, CountInv PROVE CountInv'
  <2>1. CASE active' = <<>>
    BY <2>1 DEF CountInv
  <2>2. CASE pc # "clear"
    <3>1. \A k \in DOMAIN active : Counts(active[k], Of(Outstanding, active[k].id))
      BY <1>6, <2>2 DEF CountInv, Of, OutstandingFor
    <3>2. \A i \in DOMAIN active' : Counts(active'[i], Of(Outstanding', active'[i].id))
      BY <1>3, <1>4, <3>1 DEF JobsMove
    <3> QED BY <3>2 DEF CountInv, Of, OutstandingFor, Counts, Whisper
  <2> QED BY <1>6, <2>1, <2>2
<1> QED BY <1>5, <1>6

\* Places of a queue are finitely many.
LEMMA PlacesAreFinite ==
  ASSUME NEW S, NEW q \in Seq(S), NEW P \in SUBSET (DOMAIN q)
  PROVE  IsFiniteSet(P) /\ Cardinality(P) \in Nat
<1>1. Len(q) \in Nat /\ DOMAIN q = 1 .. Len(q)
  BY LenProperties
<1>2. IsFiniteSet(1 .. Len(q))
  BY <1>1, FS_Interval
<1>3. IsFiniteSet(P)
  BY <1>1, <1>2, FS_Subset
<1> QED BY <1>3, FS_CardinalityType

\* Chunks are counted.
LEMMA AudioNat ==
  ASSUME TypeInv, NEW s \in Sessions
  PROVE  Audio(s) \in Nat
<1>1. chunkQ[s] \in Seq({"audio", "error"})
  BY DEF TypeInv, SessionsTyped
<1>2. {k \in DOMAIN chunkQ[s] : chunkQ[s][k] = "audio"} \in SUBSET (DOMAIN chunkQ[s])
  OBVIOUS
<1> QED BY <1>1, <1>2, PlacesAreFinite DEF Audio

\* A window that is dispatched is one of received audio.
LEMMA DispatchedFits ==
  ASSUME TypeInv, JobsOK, AudioInv, NEW i \in DOMAIN active, NEW plan,
         PlanOK(active[i], plan)
  PROVE  Sized(WhisperTask(active[i], plan))
<1> DEFINE job == active[i]
           s   == job.session
<1>1. job \in Jobs /\ s \in Sessions /\ job.len \in Nat /\ job.offset \in Nat
  BY SchedulerValues, JobFields DEF TypeInv
<1>2. Audio(s) \in Nat /\ sent[s] \in Nat /\ job.offset + job.len + Audio(s) = sent[s]
  BY <1>1, AudioNat, LimitTypes DEF AudioInv, TypeInv, SessionsTyped
<1>3. /\ plan.start \in Nat /\ plan.end \in Nat /\ plan.start < plan.end
      /\ plan.end <= job.len /\ plan.end - plan.start <= WindowLen /\ WindowLen \in Nat
  BY LimitTypes DEF PlanOK
<1>4. LET t == WhisperTask(job, plan) IN
      /\ t.begin = job.offset + plan.start /\ t.from = job.offset + plan.start
      /\ t.to = job.offset + plan.end /\ t.session = s
  BY DEF WhisperTask, WindowBegin
<1> HIDE DEF job, s
<1> QED BY <1>1, <1>2, <1>3, <1>4 DEF Sized, job

\* A task is given to a worker.
LEMMA ReadyWork ==
  ASSUME TypeInv, JobsOK, TypeInv', IdInv, AudioInv, WorkInv, SelectReady
  PROVE  /\ WorkInv' /\ (CountInv => CountInv')
         /\ \A n \in Outstanding' : n.item.job < nextId'
<1>0. [Next]_vars
  BY DEF Next, Scheduler
<1>1. PICK i \in DOMAIN active :
        VadSent(Head(readyQ), i) \/ \E plan : WindowSent(Head(readyQ), i, plan)
  BY SelectReadyEffect DEF TypeInv
<1>2. PICK n : /\ Outstanding' = Outstanding \cup {n} /\ n \notin Outstanding
               /\ \/ VadSent(Head(readyQ), i) /\ n.item = VadTask(active[i])
                  \/ \E plan : /\ WindowSent(Head(readyQ), i, plan)
                               /\ n.item = WhisperTask(active[i], plan)
  BY <1>1, ReadyAdds
<1> DEFINE job == active[i]
           os  == Of(Outstanding, job.id)
<1>3. /\ \A k \in DOMAIN active : active[k] \in Jobs /\ JobOK(active[k])
      /\ nextId' = nextId /\ pc = "select" /\ active \in Seq(Jobs)
  BY SchedulerValues DEF TypeInv, JobsOK, SelectReady, At
<1>4. IsFiniteSet(os) /\ n \notin os /\ Suits(job, os)
      /\ (\A o \in os : Whisper(o) => o.item.index \in Nat)
      /\ (CountInv => Counts(job, os))
  <2>1. os \subseteq Outstanding
    BY DEF Of
  <2>2. IsFiniteSet(os)
    BY <2>1, FS_Subset DEF WorkInv
  <2>3. Suits(job, os)
    BY DEF WorkInv, Of, OutstandingFor
  <2>4. \A o \in os : Whisper(o) => o.item.index \in Nat
    BY <2>1, OutstandingTyped, WhisperFields
  <2>5. CountInv => Counts(job, os)
    BY <1>3 DEF CountInv, Of, OutstandingFor
  <2> QED BY <1>2, <2>1, <2>2, <2>3, <2>4, <2>5
<1>5. \E new \in Jobs :
        /\ Replaces(i, new) /\ n.item.job = job.id /\ new.id = job.id
        /\ new.pending = job.pending
        /\ Suits(new, os \cup {n}) /\ (CountInv => Counts(new, os \cup {n}))
        /\ Whisper(n) => n.item \in WhisperTasks /\ Sized(n.item)
  <2>1. CASE VadSent(Head(readyQ), i) /\ n.item = VadTask(job)
    <3> DEFINE new == [job EXCEPT !.vadBusy = TRUE]
    <3>1. HasVadReady(job) /\ Replaces(i, new)
      BY <2>1 DEF VadSent
    <3>2. Suits(new, os \cup {n}) /\ (CountInv => Counts(new, os \cup {n}))
      <4> HIDE DEF os, job
      <4> QED BY <1>3, <1>4, <2>1, <3>1, VadAdded DEF job
    <3>3. new \in Jobs /\ new.id = job.id /\ new.pending = job.pending
      BY <1>3 DEF Jobs
    <3>4. n.item.job = job.id /\ ~Whisper(n)
      BY <2>1 DEF VadTask, Whisper
    <3> HIDE DEF new, job, os
    <3> QED BY <3>1, <3>2, <3>3, <3>4
  <2>2. ASSUME NEW plan, WindowSent(Head(readyQ), i, plan), n.item = WhisperTask(job, plan)
        PROVE  \E new \in Jobs :
                 /\ Replaces(i, new) /\ n.item.job = job.id /\ new.id = job.id
                 /\ new.pending = job.pending
                 /\ Suits(new, os \cup {n}) /\ (CountInv => Counts(new, os \cup {n}))
                 /\ Whisper(n) => n.item \in WhisperTasks /\ Sized(n.item)
    <3> DEFINE new == AfterDispatch(job, plan)
    <3>1. HasWindowReady(job) /\ Replaces(i, new) /\ PlanOK(job, plan)
      BY <1>3, <2>2, DispatchPlanOK DEF WindowSent
    <3>2. Suits(new, os \cup {n}) /\ (CountInv => Counts(new, os \cup {n}))
      <4> HIDE DEF os, job
      <4> QED BY <1>3, <1>4, <2>2, <3>1, WindowAdded DEF job
    <3>3. new \in Jobs /\ new.id = job.id /\ new.pending = job.pending
      <4>1. new.id = job.id /\ new.pending = job.pending
        BY <1>3 DEF Jobs, AfterDispatch
      <4> QED BY <1>3, <3>1, <4>1, AfterDispatchOK
    <3>4. n.item.job = job.id
      BY <2>2 DEF WhisperTask
    <3>5. n.item \in WhisperTasks /\ Sized(n.item)
      BY <1>3, <2>2, <3>1, DispatchedFits, WhisperTaskTyped
    <3> HIDE DEF new, job, os
    <3> QED BY <3>1, <3>2, <3>3, <3>4, <3>5
  <2> HIDE DEF job, os
  <2> QED BY <1>2, <2>1, <2>2 DEF job
<1>6. PICK new \in Jobs :
        /\ Replaces(i, new) /\ n.item.job = job.id /\ new.id = job.id
        /\ new.pending = job.pending
        /\ Suits(new, os \cup {n}) /\ (CountInv => Counts(new, os \cup {n}))
        /\ Whisper(n) => n.item \in WhisperTasks /\ Sized(n.item)
  BY <1>5
<1>7. /\ DOMAIN active' = DOMAIN active /\ active'[i] = new
      /\ \A k \in DOMAIN active : k # i => active'[k] = active[k]
  <2> HIDE DEF Jobs
  <2> QED BY <1>3, <1>6, Exchanged DEF Replaces
<1>8. Of(Outstanding', job.id) = os \cup {n}
  BY <1>2, <1>6 DEF Of
<1>9. \A k \in DOMAIN active : k # i => Of(Outstanding', active[k].id) = Of(Outstanding, active[k].id)
  BY <1>2, <1>6 DEF Of, IdInv
<1>10. ASSUME NEW k \in DOMAIN active'
       PROVE  /\ \A q \in active'[k].pending : Sized(q)'
              /\ Suits(active'[k], Of(Outstanding', active'[k].id))
              /\ CountInv => Counts(active'[k], Of(Outstanding', active'[k].id))
  <2>0. /\ active'[k].pending = active[k].pending /\ k \in DOMAIN active
    BY <1>6, <1>7
  <2>1. \A q \in active[k].pending : Sized(q)'
    <3>1. active[k].pending \subseteq WhisperTasks /\ \A q \in active[k].pending : Sized(q)
      BY <1>3, <2>0, JobFields DEF WorkInv
    <3> QED BY <1>0, <3>1, SizedKept
  <2>2. CASE k = i
    BY <1>6, <1>7, <1>8, <2>0, <2>1, <2>2
  <2>3. CASE k # i
    <3>1. active'[k] = active[k] /\ Suits(active[k], Of(Outstanding, active[k].id))
          /\ (CountInv => Counts(active[k], Of(Outstanding, active[k].id)))
      BY <1>3, <1>7, <2>0, <2>3 DEF WorkInv, CountInv, Of, OutstandingFor
    <3> QED BY <1>9, <2>0, <2>1, <2>3, <3>1
  <2> QED BY <2>2, <2>3
<1>11. IsFiniteSet(Outstanding')
  BY <1>2, FS_AddElement DEF WorkInv
<1>12. \A m \in Outstanding' : Whisper(m) => Sized(m.item)'
  <2> SUFFICES ASSUME NEW m \in Outstanding', Whisper(m) PROVE Sized(m.item)'
    OBVIOUS
  <2>1. m.item \in WhisperTasks /\ Sized(m.item)
    BY <1>2, <1>6, OutstandingTyped DEF WorkInv
  <2>2. PICK t : t = m.item
    OBVIOUS
  <2>3. Sized(t)'
    BY <1>0, <2>1, <2>2, SizedKept
  <2> QED BY <2>2, <2>3
<1>13. WorkInv'
  BY <1>10, <1>11, <1>12 DEF WorkInv, Of, OutstandingFor, Suits, Sized, Whisper, Vad,
                                  WhisperOwn, VadOwn
<1>14. ASSUME CountInv PROVE CountInv'
  <2>1. \A k \in DOMAIN active' : Counts(active'[k], Of(Outstanding', active'[k].id))
    BY <1>10, <1>14
  <2> QED BY <2>1 DEF CountInv, Of, OutstandingFor, Counts, Whisper
<1>15. \A m \in Outstanding' : m.item.job < nextId'
  <2>1. n.item.job < nextId
    BY <1>6 DEF IdInv
  <2> QED BY <1>2, <1>3, <2>1 DEF IdInv
<1> QED BY <1>13, <1>14, <1>15

\* What is left when h is gone.
LeftOf(h, id) == Of(Outstanding \ {h}, id)

\* One thing is gone, the rest is carried, and the jobs are right about it.
LEMMA AfterRemoval ==
  ASSUME TypeInv, TypeInv', IdInv, WorkInv, [Next]_vars, NEW h,
         Carried(Outstanding \ {h}, Outstanding'), nextId' = nextId,
         \A k \in DOMAIN active' : /\ Suits(active'[k], LeftOf(h, active'[k].id))
                                   /\ \A q \in active'[k].pending : Sized(q)
  PROVE  /\ WorkInv' /\ \A n \in Outstanding' : n.item.job < nextId'
         /\ (\A k \in DOMAIN active' : Counts(active'[k], LeftOf(h, active'[k].id)))
              => CountInv'
<1> DEFINE rest == Outstanding \ {h}
<1>1. \A i \in DOMAIN active' : active'[i] \in Jobs
  <2>1. active' \in Seq(Jobs)
    BY DEF TypeInv, SchedulerTyped
  <2> HIDE DEF Jobs
  <2> QED BY <2>1, LenProperties, ElementOfSeq
<1>2. IsFiniteSet(rest) /\ IsFiniteSet(Outstanding')
  <2>1. IsFiniteSet(rest)
    BY FS_Subset DEF WorkInv
  <2> HIDE DEF rest
  <2> QED BY <2>1, CarriedCount DEF rest
<1>3. \A n \in Outstanding' : \E o \in rest : Becomes(o.item, n.item)
  <2> HIDE DEF rest
  <2> QED BY CarriedItems DEF rest
<1>4. \A n \in Outstanding' : n.item.job < nextId'
  BY <1>3, BecomesFields DEF IdInv
<1>5. \A n \in Outstanding' : Whisper(n) => Sized(n.item)'
  <2> SUFFICES ASSUME NEW n \in Outstanding', Whisper(n) PROVE Sized(n.item)'
    OBVIOUS
  <2>1. PICK o \in rest : Becomes(o.item, n.item)
    BY <1>3
  <2>2. o \in Outstanding /\ o.item = n.item /\ Whisper(o)
    BY <2>1, BecomesFields DEF Whisper
  <2>3. Sized(o.item) /\ o.item \in WhisperTasks
    BY <2>2, OutstandingTyped DEF WorkInv
  <2>4. PICK t : t = o.item
    OBVIOUS
  <2>5. Sized(t)'
    BY <2>3, <2>4, SizedKept
  <2> QED BY <2>2, <2>4, <2>5
<1>6. ASSUME NEW k \in DOMAIN active'
      PROVE  /\ Suits(active'[k], Of(Outstanding', active'[k].id))
             /\ Counts(active'[k], LeftOf(h, active'[k].id))
                  => Counts(active'[k], Of(Outstanding', active'[k].id))
             /\ \A q \in active'[k].pending : Sized(q)'
  <2> DEFINE job == active'[k]
             os  == LeftOf(h, job.id)
             ns  == Of(Outstanding', job.id)
  <2>1. job \in Jobs /\ Suits(job, os) /\ \A q \in job.pending : Sized(q)
    BY <1>1
  <2>2. Carried(os, ns) /\ IsFiniteSet(os)
    <3>1. Carried(os, ns)
      BY CarriedOf DEF LeftOf
    <3>2. os \subseteq rest
      BY DEF Of, LeftOf
    <3> QED BY <1>2, <3>1, <3>2, FS_Subset
  <2>3. \A q \in job.pending : Sized(q)'
    <3>1. job.pending \subseteq WhisperTasks
      BY <2>1, JobFields
    <3> HIDE DEF job
    <3> QED BY <2>1, <3>1, SizedKept
  <2> HIDE DEF job, os, ns
  <2>4. SameWork(job, job)
    BY <2>1, JobFields DEF SameWork
  <2>5. Suits(job, ns) /\ (Counts(job, os) => Counts(job, ns))
    BY <2>1, <2>2, <2>4, SuitsKept, CountsKept
  <2> QED BY <2>3, <2>5 DEF job, os, ns
<1>7. WorkInv'
  <2> HIDE DEF rest
  <2> QED BY <1>2, <1>5, <1>6 DEF WorkInv, Of, OutstandingFor, Suits, Sized, Whisper, Vad,
                              WhisperOwn, VadOwn
<1>8. ASSUME \A k \in DOMAIN active' : Counts(active'[k], LeftOf(h, active'[k].id))
      PROVE  CountInv'
  <2>1. \A k \in DOMAIN active' : Counts(active'[k], Of(Outstanding', active'[k].id))
    BY <1>6, <1>8
  <2> QED BY <2>1 DEF CountInv, Of, OutstandingFor, Counts, Whisper
<1> QED BY <1>4, <1>7, <1>8

\* A result is taken that is not for a job.
LEMMA LeftForOthers ==
  ASSUME NEW h, NEW id, h.item.job # id
  PROVE  LeftOf(h, id) = Of(Outstanding, id)
BY DEF LeftOf, Of

\* An error is taken.
LEMMA ErrorWork ==
  ASSUME TypeInv, TypeInv', JobsOK, IdInv, WorkInv, SelectError
  PROVE  WorkInv' /\ CountInv' /\ \A n \in Outstanding' : n.item.job < nextId'
<1>0. [Next]_vars /\ nextId' = nextId /\ active' = active /\ pc' = "clear"
  BY DEF Next, Scheduler, SelectError
<1> DEFINE h == ResultItem(1, Head(resultQ))
<1>1. Carried(Outstanding \ {h}, Outstanding')
  BY ResultRemoved
<1> HIDE DEF h
<1>2. \A k \in DOMAIN active : /\ Suits(active[k], LeftOf(h, active[k].id))
                               /\ \A q \in active[k].pending : Sized(q)
  <2> SUFFICES ASSUME NEW k \in DOMAIN active
               PROVE  /\ Suits(active[k], LeftOf(h, active[k].id))
                      /\ \A q \in active[k].pending : Sized(q)
    OBVIOUS
  <2>1. LeftOf(h, active[k].id) \subseteq OutstandingFor(active[k])
    BY DEF LeftOf, Of, OutstandingFor
  <2>2. Suits(active[k], OutstandingFor(active[k])) /\ \A q \in active[k].pending : Sized(q)
    BY DEF WorkInv
  <2> QED BY <2>1, <2>2, SuitsLess
<1>3. WorkInv' /\ \A n \in Outstanding' : n.item.job < nextId'
  BY <1>0, <1>1, <1>2, AfterRemoval
<1> QED BY <1>0, <1>3 DEF CountInv

\* A result is taken and handed to its job, if that is still active.
LEMMA ResultWork ==
  ASSUME TypeInv, TypeInv', JobsOK, IdInv, WorkInv, SelectResult
  PROVE  /\ WorkInv' /\ (CountInv => CountInv')
         /\ \A n \in Outstanding' : n.item.job < nextId'
<1>0. [Next]_vars /\ nextId' = nextId /\ pc = "select" /\ resultQ # <<>>
      /\ Head(resultQ).kind # "error"
  BY DEF Next, Scheduler, SelectResult, At
<1>00. PICK r : r = Head(resultQ)
  OBVIOUS
<1> DEFINE h == ResultItem(1, r)
<1>1. Carried(Outstanding \ {h}, Outstanding') /\ h \in Outstanding
  BY <1>00, ResultRemoved
<1>2. h.item = r
  BY DEF ResultItem
<1> HIDE DEF h
<1>3. /\ \A k \in DOMAIN active : active[k] \in Jobs /\ JobOK(active[k])
      /\ active \in Seq(Jobs)
  BY SchedulerValues DEF TypeInv, JobsOK
<1>4. ASSUME NEW k \in DOMAIN active
      PROVE  /\ Suits(active[k], Of(Outstanding, active[k].id))
             /\ \A q \in active[k].pending : Sized(q)
             /\ CountInv => Counts(active[k], Of(Outstanding, active[k].id))
             /\ active[k].id # r.job => LeftOf(h, active[k].id) = Of(Outstanding, active[k].id)
  BY <1>0, <1>2, LeftForOthers DEF WorkInv, CountInv, Of, OutstandingFor
<1>5. CASE active' = active /\ \A i \in DOMAIN active : active[i].id # r.job
  <2>1. \A k \in DOMAIN active : /\ Suits(active[k], LeftOf(h, active[k].id))
                                 /\ \A q \in active[k].pending : Sized(q)
                                 /\ CountInv => Counts(active[k], LeftOf(h, active[k].id))
    BY <1>4, <1>5
  <2> QED BY <1>0, <1>1, <1>5, <2>1, AfterRemoval
<1>6. ASSUME NEW i \in DOMAIN active, active[i].id = r.job,
             Replaces(i, ApplyResult(active[i], r))
      PROVE  /\ WorkInv' /\ (CountInv => CountInv')
             /\ \A n \in Outstanding' : n.item.job < nextId'
  <2> DEFINE job == active[i]
             new == ApplyResult(job, r)
             os  == Of(Outstanding, job.id)
  <2>1. job \in Jobs /\ JobOK(job) /\ Suits(job, os) /\ (CountInv => Counts(job, os))
        /\ \A q \in job.pending : Sized(q)
    BY <1>3, <1>4
  <2>2. h \in os /\ IsFiniteSet(os) /\ (\A o \in os : Whisper(o) => o.item.index \in Nat)
        /\ LeftOf(h, job.id) = os \ {h}
    <3>1. os \subseteq Outstanding
      BY DEF Of
    <3>2. IsFiniteSet(os)
      BY <3>1, FS_Subset DEF WorkInv
    <3>3. \A o \in os : Whisper(o) => o.item.index \in Nat
      BY <3>1, OutstandingTyped, WhisperFields
    <3>4. h \in os
      BY <1>1, <1>2, <1>6 DEF Of
    <3>5. LeftOf(h, job.id) = os \ {h}
      BY DEF LeftOf, Of
    <3> QED BY <3>2, <3>3, <3>4, <3>5
  <2>3. r \in AllResults /\ r.kind \in {"whisper", "vad"}
    BY <1>0, <1>00, HeadIsOutstanding, ResultKinds DEF TypeInv
  <2>4. /\ Suits(new, os \ {h}) /\ (CountInv => Counts(new, os \ {h}))
        /\ new.id = job.id /\ \A q \in new.pending : Sized(q)
    <3>1. CASE r.kind = "vad"
      <4>1. Vad(h) /\ new = HandleVadResult(job, h.item)
        BY <1>2, <3>1 DEF Vad, ApplyResult
      <4>2. new.id = job.id /\ new.pending = job.pending
        BY <2>1, <4>1 DEF HandleVadResult, Jobs
      <4> HIDE DEF new, os, job
      <4> QED BY <2>1, <2>2, <4>1, <4>2, VadRemoved
    <3>2. CASE r.kind = "whisper"
      <4>1. Whisper(h) /\ new = HandleResult(job, h.item)
        BY <1>2, <3>2 DEF Whisper, ApplyResult
      <4>2. h.item \in WhisperTasks /\ Sized(h.item)
        BY <1>1, <4>1, OutstandingTyped DEF WorkInv
      <4> HIDE DEF new, os, job
      <4>3. new.id = job.id /\ new.pending \subseteq job.pending \cup {h.item}
        BY <2>1, <4>1, HandledFields
      <4> QED BY <2>1, <2>2, <4>1, <4>2, <4>3, WindowRemoved
    <3> QED BY <2>3, <3>1, <3>2
  <2>5. new \in Jobs
    BY <1>0, <1>00, <1>6, ApplyResultOK DEF TypeInv
  <2>6. /\ DOMAIN active' = DOMAIN active /\ active'[i] = new
        /\ \A k \in DOMAIN active : k # i => active'[k] = active[k]
    <3> HIDE DEF Jobs, new
    <3> QED BY <1>3, <1>6, <2>5, Exchanged DEF Replaces, new
  <2> HIDE DEF new, os, job
  <2>7. ASSUME NEW k \in DOMAIN active'
        PROVE  /\ Suits(active'[k], LeftOf(h, active'[k].id))
               /\ \A q \in active'[k].pending : Sized(q)
               /\ CountInv => Counts(active'[k], LeftOf(h, active'[k].id))
    <3>1. CASE k = i
      BY <2>2, <2>4, <2>6, <3>1
    <3>2. CASE k # i
      <4>1. k \in DOMAIN active /\ active'[k] = active[k] /\ active[k].id # r.job
        BY <1>6, <2>6, <3>2 DEF IdInv
      <4> QED BY <1>4, <4>1
    <3> QED BY <3>1, <3>2
  <2> QED BY <1>0, <1>1, <2>7, AfterRemoval
<1> HIDE DEF h
<1>7. \/ active' = active /\ \A i \in DOMAIN active : active[i].id # r.job
      \/ \E i \in DOMAIN active : active[i].id = r.job /\ Replaces(i, ApplyResult(active[i], r))
  BY <1>00, SelectResultEffect DEF TypeInv, IdInv
<1> QED BY <1>5, <1>6, <1>7

\* A run ends without its jobs.
LEMMA ClearLeaves ==
  ASSUME [Next]_vars, pc = "clear", pc' # "clear"
  PROVE  active' = <<>>
BY DEF Next, Scheduler, Session, Reader, Worker, schedulerVars, vars, Send, Respond, Post,
       StartRun, DrainChunk, Draining, DrainNext, EndDrain, SelectJob, SelectReady, SelectResult,
       SelectError, Clear, SelectSleep, At

\* Jobs are numbered, now and next.
WorkNumbered == \A o \in Outstanding : o.item.job \in Nat

\* All work outstanding carries a job number.
LEMMA WorkIsNumbered == TypeInv => WorkNumbered
BY OutstandingTyped DEF WorkNumbered

\* So does the work outstanding after a step.
LEMMA WorkStaysNumbered == TypeInv' => \A o \in Outstanding' : o.item.job \in Nat
<1>1. TypeInv' => WorkNumbered'
  BY WorkIsNumbered, PTL
<1> QED BY <1>1 DEF WorkNumbered

\* Every step keeps the work and its count.
LEMMA WorkInvStep ==
  ASSUME TypeInv, TypeInv', JobsOK, TokenInv, IdInv, AudioInv, WorkInv, CountInv, [Next]_vars
  PROVE  WorkInv' /\ CountInv' /\ \A n \in Outstanding' : n.item.job < nextId'
<1>1. CASE SelectReady
  BY <1>1, ReadyWork
<1>2. CASE SelectResult
  BY <1>2, ResultWork
<1>3. CASE SelectError
  BY <1>3, ErrorWork
<1>4. CASE ~SelectReady /\ ~SelectResult /\ ~SelectError
  <2>1. WorkMoves /\ JobsMove
    BY <1>4, WorkStep, JobsMoveStep
  <2>2. WorkInv'
    BY <2>1, MovedWork
  <2>3. nextId \in Nat /\ nextId <= nextId'
    <3>1. nextId \in Nat /\ (nextId' = nextId \/ nextId' = nextId + 1)
      BY SchedulerValues DEF TypeInv, Next, Scheduler, Session, Reader, Worker,
         schedulerVars, vars, Send, Respond, Post, StartRun, DrainChunk, DrainNext, EndDrain,
         SelectJob, SelectReady, SelectResult, SelectError, Clear, SelectSleep, NextId
    <3> QED BY <3>1
  <2>4. \A n \in Outstanding' : n.item.job < nextId'
    <3> SUFFICES ASSUME NEW n \in Outstanding' PROVE n.item.job < nextId'
      OBVIOUS
    <3>1. n.item.job < nextId /\ n.item.job \in Nat
      BY <2>1, WorkStaysNumbered DEF WorkMoves
    <3>2. nextId' \in Nat
      BY DEF TypeInv, SchedulerTyped, Ids
    <3> QED BY <2>3, <3>1, <3>2
  <2>5. CountInv'
    <3>1. CASE pc # "clear"
      BY <2>1, <3>1, MovedWork
    <3>2. CASE pc = "clear" /\ pc' = "clear"
      BY <3>2 DEF CountInv
    <3>3. CASE pc = "clear" /\ pc' # "clear"
      <4>1. active' = <<>>
        BY <3>3, ClearLeaves
      <4> QED BY <2>1, <4>1, MovedWork
    <3> QED BY <3>1, <3>2, <3>3
  <2> QED BY <2>2, <2>4, <2>5
<1> QED BY <1>1, <1>2, <1>3, <1>4

-----------------------------------------------------------------------------
(* Jobs and sessions. *)

\* stay tells which of the active jobs each of the active jobs then was.
Stay(stay) ==
    /\ stay \in [DOMAIN active' -> DOMAIN active]
    /\ \A i, j \in DOMAIN active' : stay[i] = stay[j] => i = j
    /\ \A i \in DOMAIN active' : /\ active'[i].id = active[stay[i]].id
                                 /\ active'[i].session = active[stay[i]].session

\* The jobs keep their places.
LEMMA JobsInPlace ==
  ASSUME DOMAIN active' = DOMAIN active,
         \A i \in DOMAIN active : /\ active'[i].id = active[i].id
                                  /\ active'[i].session = active[i].session
  PROVE  \E stay : Stay(stay)
<1> DEFINE f == [i \in DOMAIN active' |-> i]
<1>1. \A i \in DOMAIN active' : f[i] = i
  OBVIOUS
<1>2. f \in [DOMAIN active' -> DOMAIN active]
  OBVIOUS
<1> HIDE DEF f
<1>3. Stay(f)
  BY <1>1, <1>2 DEF Stay
<1> QED BY <1>3

\* One of the jobs is replaced by another value of it.
LEMMA JobReplaced ==
  ASSUME SchedulerTyped, NEW i, NEW job, Replaces(i, job),
         job.id = active[i].id, job.session = active[i].session
  PROVE  \E stay : Stay(stay)
<1>1. DOMAIN active' = DOMAIN active /\ active'[i] = job
      /\ \A k \in DOMAIN active : k # i => active'[k] = active[k]
  BY DEF Replaces
<1> QED BY <1>1, JobsInPlace

\* What the steps that replace a job replace it by.
LEMMA SelectReplaces ==
  ASSUME TypeInv, JobsOK, IdInv, SelectReady \/ SelectResult
  PROVE  \/ active' = active
         \/ \E i \in DOMAIN active : \E job :
              /\ Replaces(i, job) /\ job.id = active[i].id
              /\ job.session = active[i].session /\ job.closed = active[i].closed
              /\ job.offset + job.len = active[i].offset + active[i].len
<1>1. \A i \in DOMAIN active : active[i] \in Jobs /\ JobOK(active[i])
  BY SchedulerValues DEF TypeInv, JobsOK
<1>2. CASE SelectReady
  <2>1. PICK i \in DOMAIN active : VadSent(Head(readyQ), i)
                                   \/ \E plan : WindowSent(Head(readyQ), i, plan)
    BY <1>2, SelectReadyEffect DEF TypeInv
  <2>2. CASE VadSent(Head(readyQ), i)
    <3>1. Replaces(i, [active[i] EXCEPT !.vadBusy = TRUE])
      BY <2>2 DEF VadSent
    <3>2. [active[i] EXCEPT !.vadBusy = TRUE] \in Jobs
      BY <1>1, JobFlags
    <3>3. ASSUME NEW job \in Jobs, NEW new, new = [job EXCEPT !.vadBusy = TRUE]
          PROVE  /\ new.id = job.id /\ new.session = job.session /\ new.closed = job.closed
                 /\ new.offset + new.len = job.offset + job.len
      BY <3>3 DEF Jobs
    <3> HIDE DEF Jobs
    <3> QED BY <1>1, <3>1, <3>2, <3>3
  <2>3. ASSUME NEW plan, WindowSent(Head(readyQ), i, plan)
        PROVE  \E job :
                 /\ Replaces(i, job) /\ job.id = active[i].id
                 /\ job.session = active[i].session /\ job.closed = active[i].closed
                 /\ job.offset + job.len = active[i].offset + active[i].len
    <3>1. PlanOK(active[i], plan) /\ Replaces(i, AfterDispatch(active[i], plan))
      BY <1>1, <2>3, DispatchPlanOK DEF WindowSent
    <3>2. AfterDispatch(active[i], plan) \in Jobs
      BY <1>1, <3>1, AfterDispatchOK
    <3>3. ASSUME NEW job \in Jobs, NEW new, PlanOK(job, plan), new = AfterDispatch(job, plan)
          PROVE  /\ new.id = job.id /\ new.session = job.session /\ new.closed = job.closed
                 /\ new.offset + new.len = job.offset + job.len
      <4>1. /\ new.id = job.id /\ new.session = job.session /\ new.closed = job.closed
            /\ new.offset = job.offset + plan.end /\ new.len = job.len - plan.end
        BY <3>3 DEF AfterDispatch, Jobs
      <4>2. plan.end \in Nat /\ job.len \in Nat /\ job.offset \in Nat
        BY <3>3, JobFields DEF PlanOK
      <4> QED BY <4>1, <4>2
    <3> HIDE DEF Jobs
    <3> QED BY <1>1, <3>1, <3>2, <3>3
  <2> QED BY <2>1, <2>2, <2>3
<1>3. CASE SelectResult
  <2>1. \/ active' = active
        \/ \E i \in DOMAIN active : /\ active[i].id = Head(resultQ).job
                                    /\ Replaces(i, ApplyResult(active[i], Head(resultQ)))
    BY <1>3, SelectResultEffect DEF TypeInv, IdInv
  <2>2. ASSUME NEW i \in DOMAIN active, active[i].id = Head(resultQ).job,
               Replaces(i, ApplyResult(active[i], Head(resultQ)))
        PROVE  \E job : /\ Replaces(i, job) /\ job.id = active[i].id
                        /\ job.session = active[i].session /\ job.closed = active[i].closed
                        /\ job.offset + job.len = active[i].offset + active[i].len
    <3>1. ASSUME NEW job \in Jobs, NEW r, NEW new, new = ApplyResult(job, r)
          PROVE  /\ new.id = job.id /\ new.session = job.session /\ new.closed = job.closed
                 /\ new.offset + new.len = job.offset + job.len
      <4>1. CASE r.kind = "vad"
        BY <3>1, <4>1 DEF ApplyResult, HandleVadResult, Jobs
      <4>2. CASE r.kind # "vad"
        <5>1. new = HandleResult(job, r)
          BY <3>1, <4>2 DEF ApplyResult
        <5> QED BY <5>1, HandledFields
      <4> QED BY <4>1, <4>2
    <3> HIDE DEF Jobs
    <3> QED BY <1>1, <2>2, <3>1
  <2> QED BY <2>1, <2>2
<1> QED BY <1>2, <1>3

\* The jobs that are active then were active, unless one has just joined.
LEMMA JobsStay ==
  ASSUME TypeInv, JobsOK, IdInv, [Next]_vars, ~StartRun, ~SelectJob
  PROVE  \E stay : Stay(stay)
<1>1. /\ \A i \in DOMAIN active : active[i] \in Jobs /\ JobOK(active[i])
      /\ DOMAIN active = 1 .. Len(active) /\ SchedulerTyped
  BY SchedulerValues DEF TypeInv, JobsOK
<1>2. CASE active' = active
  BY <1>2, JobsInPlace
<1>3. CASE SelectReady \/ SelectResult
  BY <1>1, <1>2, <1>3, SelectReplaces, JobReplaced
<1>4. CASE DrainChunk \/ DrainNext
  <2>1. at \in DOMAIN active
    <3>1. Draining
      BY <1>4 DEF DrainChunk, DrainNext
    <3> QED BY <3>1, SchedulerValues DEF TypeInv, Draining
  <2>2. \E c : active' = [active EXCEPT ![at] = AcceptChunk(active[at], c)]
               \/ active' = [active EXCEPT ![at].closed = c]
    BY <1>4 DEF DrainChunk, DrainNext
  <2>3. DOMAIN active' = DOMAIN active
        /\ \A i \in DOMAIN active : /\ active'[i].id = active[i].id
                                    /\ active'[i].session = active[i].session
    <3>1. ASSUME NEW job \in Jobs, NEW c
          PROVE  /\ AcceptChunk(job, c).id = job.id
                 /\ AcceptChunk(job, c).session = job.session
                 /\ [job EXCEPT !.closed = c].id = job.id
                 /\ [job EXCEPT !.closed = c].session = job.session
      BY DEF AcceptChunk, Jobs
    <3>2. PICK c : active' = [active EXCEPT ![at] = AcceptChunk(active[at], c)]
                   \/ active' = [active EXCEPT ![at] = [active[at] EXCEPT !.closed = c]]
      BY <2>2
    <3> HIDE DEF Jobs
    <3>3. PICK job : active' = [active EXCEPT ![at] = job]
                     /\ job.id = active[at].id /\ job.session = active[at].session
      <4>1. active[at] \in Jobs
        BY <1>1, <2>1
      <4>2. CASE active' = [active EXCEPT ![at] = AcceptChunk(active[at], c)]
        BY <3>1, <4>1, <4>2
      <4>3. CASE active' = [active EXCEPT ![at] = [active[at] EXCEPT !.closed = c]]
        BY <3>1, <4>1, <4>3
      <4> QED BY <3>2, <4>2, <4>3
    <3> QED BY <2>1, <3>3
  <2> QED BY <2>3, JobsInPlace
<1>5. CASE EndDrain
  <2>1. PICK stay, leave : Parted(stay, leave)
    BY <1>1, <1>5, EndDrainEffect
  <2>2. DOMAIN active' = 1 .. Len(active') /\ Len(active') \in Nat
    <3>1. active' \in Seq(Jobs)
      BY <1>1, <1>5, EndDrainEffect
    <3> HIDE DEF Jobs
    <3> QED BY <3>1, LenProperties
  <2>3. /\ stay \in [DOMAIN active' -> DOMAIN active]
        /\ \A i \in DOMAIN active' : active'[i] = Refreshed[stay[i]]
        /\ \A i, j \in DOMAIN active' : i < j => stay[i] < stay[j]
    BY <1>1, <2>1, <2>2 DEF Parted, Picks
  <2>4. \A i, j \in DOMAIN active' : stay[i] = stay[j] => i = j
    <3> SUFFICES ASSUME NEW i \in DOMAIN active', NEW j \in DOMAIN active', stay[i] = stay[j]
                 PROVE  i = j
      OBVIOUS
    <3>1. i < j \/ j < i \/ i = j
      BY <2>2
    <3>2. stay[i] \in Nat /\ stay[j] \in Nat
      BY <1>1, <2>3
    <3> QED BY <2>3, <3>1, <3>2
  <2>5. \A i \in DOMAIN active' : /\ active'[i].id = active[stay[i]].id
                                  /\ active'[i].session = active[stay[i]].session
    BY <1>1, <2>3, RefreshedJobs
  <2>6. Stay(stay)
    BY <2>3, <2>4, <2>5 DEF Stay
  <2> QED BY <2>6
<1>6. CASE Clear
  <2> DEFINE f == [i \in {} |-> i]
  <2>1. active' = <<>> /\ DOMAIN active' = {}
    BY <1>6 DEF Clear
  <2>2. f \in [{} -> DOMAIN active]
    OBVIOUS
  <2> HIDE DEF f
  <2>3. Stay(f)
    BY <2>1, <2>2 DEF Stay
  <2> QED BY <2>3
<1> QED BY <1>2, <1>3, <1>4, <1>5, <1>6
        DEF Next, Scheduler, Session, Reader, Worker, schedulerVars, vars, Send, Respond, Post,
            SelectError, SelectSleep

\* How sessions come into the queue of jobs, and leave it.
LEMMA JobQueueMoves ==
  ASSUME TypeInv, [Next]_vars
  PROVE  /\ \/ jobQ' = jobQ
            \/ (StartRun \/ SelectJob) /\ jobQ # <<>> /\ jobQ' = Tail(jobQ)
            \/ \E s \in Sessions : /\ phase[s] = "new" /\ jobQ' = Append(jobQ, s)
                                   /\ UNCHANGED schedulerVars
         /\ ~StartRun /\ ~SelectJob => nextId' = nextId
<1>1. ASSUME NEW s \in Sessions, Submit(s) \/ SpawnFails(s), UNCHANGED schedulerVars
      PROVE  jobQ' = jobQ \/ (phase[s] = "new" /\ jobQ' = Append(jobQ, s))
  BY <1>1 DEF Submit, SpawnFails
<1> QED BY <1>1
        DEF Next, Scheduler, Send, Respond, Post, StartRun, DrainChunk, DrainNext, EndDrain,
            SelectJob, SelectReady, SelectResult, SelectError, Clear, SelectSleep, Session,
            SessionThread, WriteResponse, WriteFails, TakeFinished, JoinReader,
            Reader, ReaderThread, ReadAudio, SendChunk, EndOfStream, Cancel, BadSignal,
            ReaderFails, Worker,
            sessionVars, schedulerVars, vars

\* What is left of the queue when its first has been taken.
LEMMA QueueRest ==
  ASSUME NEW S, NEW q \in Seq(S), q # <<>>,
         \A i, j \in DOMAIN q : q[i] = q[j] => i = j
  PROVE  /\ \A i, j \in DOMAIN Tail(q) : Tail(q)[i] = Tail(q)[j] => i = j
         /\ \A i \in DOMAIN Tail(q) : Tail(q)[i] # Head(q)
         /\ \A i \in DOMAIN Tail(q) : \E k \in DOMAIN q : q[k] = Tail(q)[i]
<1>1. /\ Head(q) = q[1] /\ 1 \in DOMAIN q /\ DOMAIN q = 1 .. Len(q) /\ Len(q) \in Nat \ {0}
      /\ DOMAIN Tail(q) = 1 .. Len(q) - 1
      /\ \A i \in DOMAIN Tail(q) : i + 1 \in DOMAIN q /\ Tail(q)[i] = q[i + 1]
  BY Taken
<1>2. ASSUME NEW i \in DOMAIN Tail(q), NEW j \in DOMAIN Tail(q), Tail(q)[i] = Tail(q)[j]
      PROVE  i = j
  <2>1. i + 1 = j + 1
    BY <1>1, <1>2
  <2> QED BY <1>1, <2>1
<1>3. ASSUME NEW i \in DOMAIN Tail(q) PROVE Tail(q)[i] # Head(q)
  <2>1. i + 1 # 1 /\ i + 1 \in DOMAIN q
    BY <1>1
  <2> QED BY <1>1, <2>1
<1> QED BY <1>1, <1>2, <1>3

\* The scheduler idles without jobs.
LEMMA IdleStep ==
  ASSUME IdInv, [Next]_vars, pc' = "idle"
  PROVE  active' = <<>>
<1>1. CASE EndDrain
  BY <1>1 DEF EndDrain
<1>2. CASE ~EndDrain
  BY <1>2 DEF IdInv, Next, Scheduler, Session, Reader, Worker, schedulerVars, vars, Send, Respond,
            Post, StartRun, DrainChunk, Draining, DrainNext, SelectJob, SelectReady,
            SelectResult, SelectError, Clear, SelectSleep, At
<1> QED BY <1>1, <1>2

\* Ids and sessions stay apart.
LEMMA IdStep ==
  ASSUME TypeInv, JobsOK, IdInv, PhaseInv, [Next]_vars,
         \A n \in Outstanding' : n.item.job < nextId'
  PROVE  IdInv'
<1>1. /\ jobQ \in Seq(Sessions) /\ DOMAIN jobQ = 1 .. Len(jobQ) /\ Len(jobQ) \in Nat
      /\ nextId \in Nat /\ DOMAIN active = 1 .. Len(active) /\ Len(active) \in Nat
      /\ \A i \in DOMAIN active : active[i].id \in Nat
  <2>1. \A i \in DOMAIN active : active[i] \in Jobs
    BY SchedulerValues DEF TypeInv
  <2>2. \A i \in DOMAIN active : active[i].id \in Nat
    BY <2>1, JobFields DEF Ids
  <2> QED BY <2>2, LenProperties, SchedulerValues DEF TypeInv, SessionsTyped
<1>2. CASE StartRun \/ SelectJob
  <2> DEFINE s == Head(jobQ)
  <2>0. PICK new : new = NewJob(nextId, s)
    OBVIOUS
  <2>1. /\ s \in Sessions /\ jobQ # <<>> /\ jobQ' = Tail(jobQ) /\ nextId' = nextId + 1
        /\ DOMAIN active' = 1 .. Len(active) + 1
        /\ active'[Len(active) + 1] = new
        /\ \A k \in DOMAIN active : active'[k] = active[k]
    BY <1>2, <2>0, JoinsAppends DEF StartRun, SelectJob, NextId
  <2>2. new.id = nextId /\ new.session = s
    BY <2>0, NewJobWork
  <2>3. \A i \in 1 .. Len(active) + 1 : i = Len(active) + 1 \/ i \in 1 .. Len(active)
    BY <1>1
  <2>4. \A i, j \in DOMAIN jobQ : jobQ[i] = jobQ[j] => i = j
    BY DEF IdInv
  <2>5. /\ \A i, j \in DOMAIN jobQ' : jobQ'[i] = jobQ'[j] => i = j
        /\ \A i \in DOMAIN jobQ' : jobQ'[i] # s
        /\ \A i \in DOMAIN jobQ' : \E k \in DOMAIN jobQ : jobQ[k] = jobQ'[i]
    BY <1>1, <2>1, <2>4, QueueRest
  <2>6. ~Active(s)
    <3>1. 1 \in DOMAIN jobQ /\ jobQ[1] = s
      BY <1>1, <2>1, Taken
    <3> QED BY <3>1 DEF IdInv
  <2> HIDE DEF s
  <2>7. \A i \in DOMAIN active' : active'[i].id < nextId'
    <3> SUFFICES ASSUME NEW i \in DOMAIN active' PROVE active'[i].id < nextId'
      OBVIOUS
    <3>1. CASE i = Len(active) + 1
      BY <1>1, <2>1, <2>2, <3>1
    <3>2. CASE i \in DOMAIN active
      <4>1. active[i].id < nextId
        BY <3>2 DEF IdInv
      <4> QED BY <1>1, <2>1, <3>2, <4>1
    <3> QED BY <1>1, <2>1, <2>3, <3>1, <3>2
  <2>8. \A i \in DOMAIN active : active[i].id # nextId /\ active[i].session # s
    <3> SUFFICES ASSUME NEW i \in DOMAIN active
                 PROVE  active[i].id # nextId /\ active[i].session # s
      OBVIOUS
    <3>1. active[i].id < nextId
      BY DEF IdInv
    <3> QED BY <1>1, <2>6, <3>1 DEF Active
  <2>9. \A i, j \in DOMAIN active' :
          i # j => active'[i].id # active'[j].id /\ active'[i].session # active'[j].session
    BY <1>1, <2>1, <2>2, <2>3, <2>8 DEF IdInv
  <2>10. \A k \in DOMAIN jobQ' : \A i \in DOMAIN active' : active'[i].session # jobQ'[k]
    <3> SUFFICES ASSUME NEW k \in DOMAIN jobQ', NEW i \in DOMAIN active',
                        active'[i].session = jobQ'[k]
                 PROVE  FALSE
      OBVIOUS
    <3>1. PICK h \in DOMAIN jobQ : jobQ[h] = jobQ'[k]
      BY <2>5
    <3>2. CASE i = Len(active) + 1
      BY <2>1, <2>2, <2>5, <3>2
    <3>3. CASE i \in DOMAIN active
      BY <2>1, <3>1, <3>3 DEF IdInv, Active
    <3> QED BY <1>1, <2>1, <2>3, <3>2, <3>3
  <2>11. pc' # "idle"
    BY <1>2 DEF StartRun, SelectJob
  <2> QED BY <2>5, <2>7, <2>9, <2>10, <2>11 DEF IdInv, Active
<1>3. CASE ~StartRun /\ ~SelectJob
  <2>1. PICK stay : Stay(stay)
    BY <1>3, JobsStay
  <2>2. nextId' = nextId
    BY <1>3, JobQueueMoves
  <2>3. \A i \in DOMAIN active' : active'[i].id < nextId'
    BY <2>1, <2>2 DEF Stay, IdInv
  <2>4. \A i, j \in DOMAIN active' :
          i # j => active'[i].id # active'[j].id /\ active'[i].session # active'[j].session
    BY <2>1 DEF Stay, IdInv
  <2>5. \A i \in DOMAIN active' : Active(active'[i].session)
    BY <2>1 DEF Stay, Active
  <2>6. /\ \A i, j \in DOMAIN jobQ' : jobQ'[i] = jobQ'[j] => i = j
        /\ \A k \in DOMAIN jobQ' : ~Active(jobQ'[k])
    <3>1. CASE jobQ' = jobQ
      BY <3>1 DEF IdInv
    <3>2. ASSUME NEW s \in Sessions, phase[s] = "new", jobQ' = Append(jobQ, s)
          PROVE  /\ \A i, j \in DOMAIN jobQ' : jobQ'[i] = jobQ'[j] => i = j
                 /\ \A k \in DOMAIN jobQ' : ~Active(jobQ'[k])
      <4>1. ~Active(s) /\ \A k \in DOMAIN jobQ : jobQ[k] # s
        BY <3>2 DEF PhaseInv, Fresh, Queued
      <4>2. /\ DOMAIN jobQ' = 1 .. Len(jobQ) + 1 /\ jobQ'[Len(jobQ) + 1] = s
            /\ \A i \in DOMAIN jobQ : jobQ'[i] = jobQ[i]
        BY <1>1, <3>2, Put
      <4>3. \A i \in 1 .. Len(jobQ) + 1 : i = Len(jobQ) + 1 \/ i \in 1 .. Len(jobQ)
        BY <1>1
      <4> QED BY <1>1, <4>1, <4>2, <4>3 DEF IdInv
    <3> QED BY <1>3, <3>1, <3>2, JobQueueMoves
  <2>7. \A k \in DOMAIN jobQ' : \A i \in DOMAIN active' : active'[i].session # jobQ'[k]
    BY <2>5, <2>6
  <2>8. pc' = "idle" => active' = <<>>
    BY IdleStep
  <2> QED BY <2>3, <2>4, <2>6, <2>7, <2>8 DEF IdInv, Active
<1> QED BY <1>2, <1>3

\* What goes out with a window: its speech events, and then its task.
LEMMA WindowTells ==
  ASSUME NEW i, NEW w \in Workers, NEW plan, active[i] \in Jobs, JobOK(active[i]),
         WindowSent(w, i, plan)
  PROVE  LET e == SpeechEvents(active[i], plan)
             t == WhisperTask(active[i], plan)
         IN  /\ Len(e) \in Nat /\ Len(outbox') = Len(e) + 1
             /\ DOMAIN outbox' = 1 .. Len(e) + 1
             /\ outbox'[Len(e) + 1] = ToWorker(w, t)
             /\ \A k \in 1 .. Len(e) : /\ e[k] \in Responses
                                       /\ outbox'[k] = ToSession(active[i].session, e[k])
             /\ \A k \in DOMAIN outbox' : k = Len(e) + 1 \/ k \in 1 .. Len(e)
<1> DEFINE t == WhisperTask(active[i], plan)
           e == SpeechEvents(active[i], plan)
           q == ToSessions(active[i].session, e)
<1>1. PlanOK(active[i], plan) /\ active[i].session \in Sessions
  BY DispatchPlanOK, JobFields DEF WindowSent
<1>2. t \in Tasks /\ ToWorker(w, t) \in Messages
  BY <1>1, WhisperTaskTyped, ToWorkerTyped
<1>3. e \in Seq(Responses)
  BY <1>1, SpeechEventsTyped
<1>4. outbox' = Append(q, ToWorker(w, t))
  BY DEF WindowSent
<1> HIDE DEF t, e
<1>5. /\ q \in Seq(Messages) /\ Len(q) = Len(e) /\ Len(e) \in Nat
      /\ \A k \in 1 .. Len(e) : q[k] = ToSession(active[i].session, e[k])
                                /\ e[k] \in Responses
  BY <1>1, <1>3, ToSessionsTyped
<1> HIDE DEF q
<1>6. /\ Len(outbox') = Len(q) + 1 /\ DOMAIN outbox' = 1 .. Len(q) + 1
      /\ DOMAIN q = 1 .. Len(q) /\ \A k \in DOMAIN q : outbox'[k] = q[k]
      /\ outbox'[Len(q) + 1] = ToWorker(w, t)
  <2> HIDE DEF Messages
  <2> QED BY <1>2, <1>4, <1>5, Put
<1>7. \A k \in 1 .. Len(e) + 1 : k = Len(e) + 1 \/ k \in 1 .. Len(e)
  BY <1>5
<1> QED BY <1>5, <1>6, <1>7 DEF t, e

\* Only sessions of active jobs are told something.
LEMMA TellsActive ==
  ASSUME TypeInv, JobsOK, IdInv, [Next]_vars, NEW i \in DOMAIN outbox',
         outbox'[i].to = "session"
  PROVE  \/ Active(outbox'[i].session)
         \/ \E j \in DOMAIN outbox : ToldOf(j, outbox'[i].session)
<1>1. /\ \A k \in DOMAIN active : /\ active[k] \in Jobs /\ JobOK(active[k])
                                  /\ active[k].session \in Sessions
      /\ DOMAIN active = 1 .. Len(active)
  BY SchedulerValues DEF TypeInv, JobsOK
<1>2. CASE outbox' = outbox
  BY <1>2 DEF ToldOf
<1>3. CASE Send
  <2>1. outbox # <<>> /\ outbox' = Tail(outbox)
    BY <1>3 DEF Send, Respond, Post
  <2>2. i + 1 \in DOMAIN outbox /\ outbox'[i] = outbox[i + 1]
    BY <2>1, OutboxRest DEF TypeInv
  <2> QED BY <2>2 DEF ToldOf
<1>4. ASSUME NEW k \in DOMAIN active, NEW r, outbox'[i] = ToSession(active[k].session, r)
      PROVE  Active(outbox'[i].session)
  BY <1>4 DEF Active, ToSession
<1>5. CASE DrainChunk
  <2>1. at \in DOMAIN active
    BY <1>5, SchedulerValues DEF TypeInv, DrainChunk, Draining
  <2>2. outbox' = <<ToSession(active[at].session, Finished(FALSE, active[at]))>> \/ outbox' = <<>>
    BY <1>5 DEF DrainChunk
  <2>3. ASSUME NEW m, outbox' = <<m>> PROVE outbox'[i] = m
    BY <2>3
  <2>4. outbox' # <<>>
    OBVIOUS
  <2> QED BY <1>4, <2>1, <2>2, <2>3, <2>4
<1>6. CASE EndDrain
  <2>1. PICK stay, leave : Parted(stay, leave)
    BY <1>6, EndDrainEffect DEF TypeInv
  <2>2. leave[i] \in DOMAIN active
        /\ outbox'[i] = ToSession(Refreshed[leave[i]].session, Finished(TRUE, Refreshed[leave[i]]))
    BY <2>1 DEF Parted
  <2> QED BY <1>4, <2>2, RefreshedJobs DEF TypeInv
<1>7. CASE SelectReady
  <2>1. PICK k \in DOMAIN active : VadSent(Head(readyQ), k)
                                   \/ \E plan : WindowSent(Head(readyQ), k, plan)
    BY <1>7, SelectReadyEffect DEF TypeInv
  <2>2. Head(readyQ) \in Workers
    BY <1>7, Taken DEF SelectReady, TypeInv, WorkersTyped
  <2>3. CASE VadSent(Head(readyQ), k)
    <3>1. outbox' = <<ToWorker(Head(readyQ), VadTask(active[k]))>>
      BY <2>3 DEF VadSent
    <3>2. DOMAIN outbox' = 1 .. 1 /\ outbox'[1].to = "worker"
      BY <3>1 DEF ToWorker
    <3> QED BY <3>2
  <2>4. ASSUME NEW plan, WindowSent(Head(readyQ), k, plan)
        PROVE  Active(outbox'[i].session)
    <3> DEFINE e == SpeechEvents(active[k], plan)
    <3>1. /\ i = Len(e) + 1 \/ i \in 1 .. Len(e)
          /\ outbox'[Len(e) + 1] = ToWorker(Head(readyQ), WhisperTask(active[k], plan))
          /\ \A h \in 1 .. Len(e) : outbox'[h] = ToSession(active[k].session, e[h])
      BY <1>1, <2>2, <2>4, WindowTells
    <3> HIDE DEF e
    <3>2. outbox'[Len(e) + 1].to = "worker"
      BY <3>1 DEF ToWorker
    <3> QED BY <1>4, <3>1, <3>2
  <2> QED BY <2>1, <2>3, <2>4
<1>8. CASE SelectResult
  <2> DEFINE r == Head(resultQ)
  <2>1. \/ outbox' = <<>>
        \/ \E k \in DOMAIN active :
             outbox' = ToSessions(active[k].session, SegmentResponses(Deliverable(active[k], r)))
    <3>1. \/ active' = active /\ outbox' = <<>>
          \/ \E k \in DOMAIN active :
               outbox' = IF r.kind = "vad" THEN <<>>
                         ELSE ToSessions(active[k].session,
                                         SegmentResponses(Deliverable(active[k], r)))
      <4> HIDE DEF r
      <4> QED BY <1>8, SelectResultEffect DEF r, TypeInv, IdInv
    <3> QED BY <3>1
  <2>2. CASE outbox' = <<>>
    BY <2>2
  <2>3. ASSUME NEW k \in DOMAIN active, NEW rs, outbox' = ToSessions(active[k].session, rs)
        PROVE  Active(outbox'[i].session)
    BY <1>4, <2>3 DEF ToSessions
  <2> QED BY <2>1, <2>2, <2>3
<1>9. CASE SelectError
  BY <1>4, <1>9, FailuresTyped DEF SelectError, TypeInv
<1> QED BY <1>2, <1>3, <1>5, <1>6, <1>7, <1>8, <1>9
        DEF Next, Scheduler, Session, Reader, Worker, schedulerVars, vars,
            StartRun, DrainNext, SelectJob, Clear, SelectSleep

\* Nobody touches what the session and its reader have.
Still(s) ==
    /\ phase'[s] = phase[s] /\ reader'[s] = reader[s] /\ sent'[s] = sent[s]
    /\ final'[s] = final[s] /\ heard'[s] = heard[s]

\* Another session's step.
LEMMA OtherSession ==
  ASSUME TypeInv, NEW s \in Sessions, NEW r \in Sessions, r # s,
         SessionThread(r) \/ \E held \in BOOLEAN : ReaderThread(r, held)
  PROVE  Still(s) /\ respQ'[s] = respQ[s] /\ chunkQ'[s] = chunkQ[s]
<1>1. /\ phase \in [Sessions -> Phases] /\ reader \in [Sessions -> Readers]
      /\ final \in [Sessions -> Finals] /\ sent \in [Sessions -> 0 .. MaxChunks]
      /\ chunkQ \in [Sessions -> Seq({"audio", "error"})]
      /\ respQ \in [Sessions -> Seq(Responses)] /\ heard \in [Sessions -> Hearings]
  BY DEF TypeInv, SessionsTyped
<1> HIDE DEF Responses, Hearings, Phases, Readers, Finals
<1>2. CASE Submit(r) \/ SpawnFails(r)
  BY <1>1, <1>2 DEF Submit, SpawnFails, Still
<1>3. CASE WriteResponse(r)
  BY <1>1, <1>3 DEF WriteResponse, Still
<1>4. CASE WriteFails(r)
  BY <1>1, <1>4 DEF WriteFails, Still
<1>5. CASE TakeFinished(r)
  BY <1>1, <1>5 DEF TakeFinished, Still
<1>6. CASE JoinReader(r)
  BY <1>1, <1>6 DEF JoinReader, Still
<1>7. CASE ReadAudio(r) \/ EndOfStream(r) \/ Cancel(r) \/ ReaderFails(r)
  BY <1>1, <1>7 DEF ReadAudio, EndOfStream, Cancel, ReaderFails, Still
<1>8. ASSUME NEW held \in BOOLEAN, SendChunk(r, held)
      PROVE  Still(s) /\ respQ'[s] = respQ[s] /\ chunkQ'[s] = chunkQ[s]
  BY <1>1, <1>8 DEF SendChunk, Still
<1>9. ASSUME NEW held \in BOOLEAN, BadSignal(r, held)
      PROVE  Still(s) /\ respQ'[s] = respQ[s] /\ chunkQ'[s] = chunkQ[s]
  BY <1>1, <1>9 DEF BadSignal, Still
<1> QED BY <1>2, <1>3, <1>4, <1>5, <1>6, <1>7, <1>8, <1>9 DEF SessionThread, ReaderThread

\* What can happen to a session.
LEMMA WhatMoves ==
  ASSUME TypeInv, [Next]_vars, NEW s \in Sessions
  PROVE  \/ SessionThread(s) /\ UNCHANGED <<workerVars, schedulerVars>>
         \/ ReaderThread(s, Held(s)) /\ UNCHANGED <<workerVars, schedulerVars>>
         \/ Respond
         \/ /\ Still(s) /\ respQ'[s] = respQ[s]
            /\ \/ chunkQ'[s] = chunkQ[s]
               \/ /\ DrainChunk /\ active[at].session = s /\ at \in DOMAIN active
                  /\ chunkQ'[s] = Tail(chunkQ[s])
               \/ Clear /\ Active(s) /\ chunkQ'[s] = <<>>
<1>1. CASE Respond
  BY <1>1
<1>2. CASE UNCHANGED sessionVars
  BY <1>2 DEF sessionVars, Still
<1>3. ASSUME NEW r \in Sessions, Session(r) \/ Reader(r)
      PROVE  \/ SessionThread(s) /\ UNCHANGED <<workerVars, schedulerVars>>
             \/ ReaderThread(s, Held(s)) /\ UNCHANGED <<workerVars, schedulerVars>>
             \/ Still(s) /\ respQ'[s] = respQ[s] /\ chunkQ'[s] = chunkQ[s]
  <2>1. CASE r = s
    BY <1>3, <2>1 DEF Session, Reader
  <2>2. CASE r # s
    <3>1. Held(r) \in BOOLEAN
      BY DEF Held
    <3> QED BY <1>3, <2>2, <3>1, OtherSession DEF Session, Reader
  <2> QED BY <2>1, <2>2
<1>4. CASE DrainChunk
  <2>1. at \in DOMAIN active /\ active[at].session \in Sessions
    BY <1>4, SchedulerValues DEF TypeInv, DrainChunk, Draining
  <2>2. chunkQ' = [chunkQ EXCEPT ![active[at].session] = Tail(@)]
        /\ UNCHANGED <<phase, reader, sent, respQ, heard, final>>
    BY <1>4 DEF DrainChunk
  <2>3. chunkQ \in [Sessions -> Seq({"audio", "error"})]
    BY DEF TypeInv, SessionsTyped
  <2>4. Still(s) /\ respQ'[s] = respQ[s]
    BY <2>2 DEF Still
  <2>5. IF active[at].session = s THEN chunkQ'[s] = Tail(chunkQ[s]) ELSE chunkQ'[s] = chunkQ[s]
    BY <2>1, <2>2, <2>3
  <2> QED BY <1>4, <2>1, <2>4, <2>5
<1>5. CASE Clear
  BY <1>5 DEF Clear, Still, Active
<1>6. CASE StartRun \/ SelectJob
  BY <1>6 DEF StartRun, SelectJob, Still
<1>7. \/ UNCHANGED sessionVars \/ Respond \/ DrainChunk \/ Clear \/ StartRun \/ SelectJob
      \/ \E r \in Sessions : Session(r) \/ Reader(r)
  BY DEF Next, Scheduler, Send, Post, DrainNext, EndDrain, SelectReady, SelectResult,
         SelectError, SelectSleep, Worker, vars
<1> QED BY <1>1, <1>2, <1>3, <1>4, <1>5, <1>6, <1>7

\* Who is in the queue then was, or has just submitted his job.
LEMMA QueuedBefore ==
  ASSUME TypeInv, [Next]_vars, NEW s \in Sessions, Queued(s)'
  PROVE  Queued(s) \/ (phase[s] = "new" /\ phase'[s] # "new")
<1>0. jobQ \in Seq(Sessions) /\ DOMAIN jobQ = 1 .. Len(jobQ) /\ Len(jobQ) \in Nat
  BY LenProperties DEF TypeInv, SessionsTyped
<1>1. CASE jobQ' = jobQ
  BY <1>1 DEF Queued
<1>2. CASE jobQ # <<>> /\ jobQ' = Tail(jobQ)
  <2>1. \A i \in DOMAIN jobQ' : i + 1 \in DOMAIN jobQ /\ jobQ'[i] = jobQ[i + 1]
    BY <1>0, <1>2, Taken
  <2> QED BY <2>1 DEF Queued
<1>3. ASSUME NEW r \in Sessions, Submit(r) \/ SpawnFails(r), jobQ' # jobQ
      PROVE  Queued(s) \/ (phase[s] = "new" /\ phase'[s] # "new")
  <2>1. /\ phase[r] = "new" /\ jobQ' = Append(jobQ, r)
        /\ \E p \in {"live", "gone"} : phase' = [phase EXCEPT ![r] = p]
    BY <1>3 DEF Submit, SpawnFails
  <2>2. /\ DOMAIN jobQ' = 1 .. Len(jobQ) + 1 /\ jobQ'[Len(jobQ) + 1] = r
        /\ \A i \in DOMAIN jobQ : jobQ'[i] = jobQ[i]
    BY <1>0, <2>1, Put
  <2>3. \A i \in 1 .. Len(jobQ) + 1 : i = Len(jobQ) + 1 \/ i \in 1 .. Len(jobQ)
    BY <1>0
  <2>4. PICK i \in DOMAIN jobQ' : jobQ'[i] = s
    BY DEF Queued
  <2>5. CASE i = Len(jobQ) + 1
    BY <2>1, <2>2, <2>4, <2>5 DEF TypeInv, SessionsTyped
  <2>6. CASE i \in DOMAIN jobQ
    BY <2>2, <2>4, <2>6 DEF Queued
  <2> QED BY <1>0, <2>2, <2>3, <2>5, <2>6
<1>4. \/ jobQ' = jobQ \/ (jobQ # <<>> /\ jobQ' = Tail(jobQ))
      \/ \E r \in Sessions : Submit(r) \/ SpawnFails(r)
  BY DEF Next, Scheduler, Send, Respond, Post, StartRun, DrainChunk, DrainNext, EndDrain,
         SelectJob, SelectReady, SelectResult, SelectError, Clear, SelectSleep, Session,
         SessionThread, WriteResponse, WriteFails, TakeFinished, JoinReader,
         Reader, ReaderThread, ReadAudio, SendChunk, EndOfStream, Cancel, BadSignal,
         ReaderFails, Worker, sessionVars, schedulerVars, vars
<1> QED BY <1>1, <1>2, <1>3, <1>4

\* Who has an active job then had one, or was first in the queue.
LEMMA ActiveBefore ==
  ASSUME TypeInv, JobsOK, IdInv, [Next]_vars, NEW s, Active(s)'
  PROVE  Active(s) \/ Queued(s)
<1>1. PICK i \in DOMAIN active' : active'[i].session = s
  BY DEF Active
<1>2. CASE StartRun \/ SelectJob
  <2>1. /\ jobQ # <<>> /\ DOMAIN active' = 1 .. Len(active) + 1
        /\ active'[Len(active) + 1] = NewJob(nextId, Head(jobQ))
        /\ \A k \in DOMAIN active : active'[k] = active[k]
        /\ DOMAIN active = 1 .. Len(active) /\ Len(active) \in Nat
    BY <1>2, JoinsAppends, SchedulerValues DEF TypeInv
  <2>2. i = Len(active) + 1 \/ i \in DOMAIN active
    BY <2>1
  <2>3. CASE i = Len(active) + 1
    <3>1. Head(jobQ) = s
      BY <1>1, <2>1, <2>3, NewJobWork
    <3>2. 1 \in DOMAIN jobQ /\ jobQ[1] = Head(jobQ)
      BY <2>1, Taken DEF TypeInv, SessionsTyped
    <3> QED BY <3>1, <3>2 DEF Queued
  <2>4. CASE i \in DOMAIN active
    BY <1>1, <2>1, <2>4 DEF Active
  <2> QED BY <2>2, <2>3, <2>4
<1>3. CASE ~StartRun /\ ~SelectJob
  <2>1. PICK stay : Stay(stay)
    BY <1>3, JobsStay
  <2> QED BY <1>1, <2>1 DEF Stay, Active
<1> QED BY <1>2, <1>3

\* A session whose job nobody has begun stays as it is.
LEMMA FreshStep ==
  ASSUME TypeInv, JobsOK, IdInv, [Next]_vars, NEW s \in Sessions, Fresh(s), ~Active(s)'
  PROVE  Fresh(s)'
<1>1. \A i \in DOMAIN outbox : ~ToldOf(i, s)
  BY DEF Fresh
<1>2. ~Active(s) /\ respQ[s] = <<>> /\ heard[s] = [from |-> 0, upTo |-> 0, speech |-> 0]
  BY DEF Fresh
<1>3. \A i \in DOMAIN outbox' : ~ToldOf(i, s)'
  <2> SUFFICES ASSUME NEW i \in DOMAIN outbox', ToldOf(i, s)' PROVE FALSE
    OBVIOUS
  <2>1. outbox'[i].to = "session" /\ outbox'[i].session = s
    BY DEF ToldOf
  <2> QED BY <1>1, <1>2, <2>1, TellsActive
<1>4. heard'[s] = heard[s] /\ respQ'[s] = <<>>
  <2>1. CASE SessionThread(s)
    BY <1>2, <2>1 DEF SessionThread, Submit, SpawnFails, WriteResponse, WriteFails,
                      TakeFinished, JoinReader, TypeInv, SessionsTyped
  <2>2. CASE ReaderThread(s, Held(s))
    BY <1>2, <2>2 DEF ReaderThread, ReadAudio, SendChunk, EndOfStream, Cancel, BadSignal,
                      ReaderFails
  <2>3. CASE Respond
    <3>1. 1 \in DOMAIN outbox /\ outbox[1] = Head(outbox) /\ outbox[1].to = "session"
          /\ outbox[1].session \in Sessions
      BY <2>3, OutboxRest, MessageFields DEF Respond, TypeInv
    <3>2. outbox[1].session # s
      BY <1>1, <3>1 DEF ToldOf
    <3>3. heard' = heard /\ respQ'[s] = respQ[s]
      BY <2>3, <3>1, <3>2 DEF Respond, TypeInv, SessionsTyped
    <3> QED BY <1>2, <3>3
  <2>4. CASE Still(s) /\ respQ'[s] = respQ[s]
    BY <1>2, <2>4 DEF Still
  <2> QED BY <2>1, <2>2, <2>3, <2>4, WhatMoves
<1> QED BY <1>2, <1>3, <1>4 DEF Fresh, Active

\* Where a session can go.
LEMMA PhaseMoves ==
  ASSUME TypeInv, IdInv, PhaseInv, [Next]_vars, NEW s \in Sessions
  PROVE  /\ phase'[s] \in {"new", "refused"} =>
              /\ phase[s] \in {"new", "refused"} /\ reader'[s] = "none" /\ sent'[s] = 0
              /\ chunkQ'[s] = <<>> /\ final'[s] = "none"
         /\ phase'[s] \in {"live", "gone"} => final'[s] = "none"
         /\ phase'[s] = "joining" => final'[s] \in {"ok", "err"}
         /\ phase'[s] = "ended" => /\ final'[s] \in {"done", "cancelled", "error"}
                                   /\ reader'[s] \notin {"reading", "sending"}
         /\ phase'[s] \notin {"live", "joining"} => respQ'[s] = <<>>
<1>1. /\ phase \in [Sessions -> Phases] /\ reader \in [Sessions -> Readers]
      /\ final \in [Sessions -> Finals] /\ sent \in [Sessions -> 0 .. MaxChunks]
      /\ chunkQ \in [Sessions -> Seq({"audio", "error"})]
      /\ respQ \in [Sessions -> Seq(Responses)]
  BY DEF TypeInv, SessionsTyped
<1>2. /\ phase[s] \in {"new", "refused"} =>
            /\ reader[s] = "none" /\ sent[s] = 0 /\ chunkQ[s] = <<>> /\ final[s] = "none"
            /\ ~Active(s) /\ respQ[s] = <<>>
      /\ phase[s] \in {"live", "gone"} => final[s] = "none"
      /\ phase[s] = "joining" => final[s] \in {"ok", "err"}
      /\ phase[s] = "ended" => /\ final[s] \in {"done", "cancelled", "error"}
                               /\ reader[s] \notin {"reading", "sending"}
      /\ phase[s] \notin {"live", "joining"} => respQ[s] = <<>>
  BY DEF PhaseInv, Fresh, Reading, Listening
<1> HIDE DEF Responses
<1>3. CASE SessionThread(s)
  <2>1. CASE Submit(s) \/ SpawnFails(s)
    BY <1>1, <1>2, <2>1 DEF Submit, SpawnFails
  <2>2. CASE WriteResponse(s)
    BY <1>1, <1>2, <2>2 DEF WriteResponse
  <2>3. CASE WriteFails(s)
    BY <1>1, <1>2, <2>3 DEF WriteFails
  <2>4. CASE TakeFinished(s)
    BY <1>1, <1>2, <2>4 DEF TakeFinished
  <2>5. CASE JoinReader(s)
    <3>1. FinalResponse(reader[s], final[s]) \in {"done", "cancelled", "error"}
      <4>1. reader[s] \in {"completed", "cancelled", "failed"}
        BY <1>1, <2>5 DEF JoinReader, Reading, TypeInv, SessionsTyped, Readers
      <4>2. CASE reader[s] = "failed" \/ final[s] = "err"
        BY <4>2 DEF FinalResponse
      <4>3. CASE reader[s] # "failed" /\ final[s] # "err"
        BY <4>1, <4>3 DEF FinalResponse
      <4> QED BY <4>2, <4>3
    <3> QED BY <1>1, <2>5, <3>1 DEF JoinReader, Reading
  <2> QED BY <1>3, <2>1, <2>2, <2>3, <2>4, <2>5 DEF SessionThread
<1>4. CASE ReaderThread(s, Held(s))
  <2>1. CASE SendChunk(s, Held(s)) \/ BadSignal(s, Held(s))
    BY <1>1, <1>2, <2>1 DEF SendChunk, BadSignal
  <2>2. CASE ReadAudio(s) \/ EndOfStream(s) \/ Cancel(s) \/ ReaderFails(s)
    BY <1>1, <1>2, <2>2 DEF ReadAudio, EndOfStream, Cancel, ReaderFails
  <2> QED BY <1>4, <2>1, <2>2 DEF ReaderThread
<1>5. CASE Respond
  <2>1. UNCHANGED <<phase, reader, sent, chunkQ, final>>
    BY <1>5 DEF Respond
  <2>2. phase[s] \notin {"live", "joining"} => respQ'[s] = respQ[s]
    BY <1>1, <1>5 DEF Respond, Listening
  <2> QED BY <1>2, <2>1, <2>2
<1>6. CASE /\ Still(s) /\ respQ'[s] = respQ[s]
           /\ \/ chunkQ'[s] = chunkQ[s]
              \/ DrainChunk /\ active[at].session = s /\ at \in DOMAIN active
              \/ Clear /\ Active(s) /\ chunkQ'[s] = <<>>
  BY <1>2, <1>6 DEF Still, Active
<1> QED BY <1>3, <1>4, <1>5, <1>6, WhatMoves

\* Sessions stay where their jobs are.
LEMMA PhaseStep ==
  ASSUME TypeInv, JobsOK, IdInv, IdInv', PhaseInv, [Next]_vars
  PROVE  PhaseInv'
<1> SUFFICES ASSUME NEW s \in Sessions
             PROVE  /\ phase'[s] \in {"new", "refused"} =>
                        /\ reader'[s] = "none" /\ sent'[s] = 0 /\ chunkQ'[s] = <<>>
                        /\ final'[s] = "none" /\ Fresh(s)' /\ ~Queued(s)'
                    /\ Queued(s)' => Fresh(s)'
                    /\ phase'[s] \in {"live", "gone"} => final'[s] = "none"
                    /\ phase'[s] = "joining" => final'[s] \in {"ok", "err"}
                    /\ phase'[s] = "ended" => /\ final'[s] \in {"done", "cancelled", "error"}
                                              /\ reader'[s] \notin {"reading", "sending"}
                    /\ phase'[s] \notin {"live", "joining"} => respQ'[s] = <<>>
  BY DEF PhaseInv, Fresh, Queued, Reading, Listening, Active, ToldOf
<1>1. ASSUME phase'[s] \in {"new", "refused"}
      PROVE  Fresh(s)' /\ ~Queued(s)'
  <2>1. phase[s] \in {"new", "refused"}
    BY <1>1, PhaseMoves
  <2>2. Fresh(s) /\ ~Queued(s) /\ ~Active(s)
    BY <2>1 DEF PhaseInv, Fresh
  <2>3. Fresh(s)'
    BY <2>2, ActiveBefore, FreshStep
  <2>4. ASSUME Queued(s)' PROVE FALSE
    <3>1. phase[s] = "new" /\ phase'[s] # "new"
      BY <2>2, <2>4, QueuedBefore
    <3>2. Queued(s)' => phase'[s] # "refused"
      <4>1. jobQ' # jobQ
        BY <2>2, <2>4 DEF Queued
      <4>2. CASE SessionThread(s)
        BY <3>1, <4>1, <4>2 DEF SessionThread, Submit, SpawnFails, WriteResponse, WriteFails,
                                TakeFinished, JoinReader, TypeInv, SessionsTyped
      <4>3. CASE ReaderThread(s, Held(s)) \/ Respond \/ Still(s)
        BY <3>1, <4>3 DEF ReaderThread, ReadAudio, SendChunk, EndOfStream, Cancel, BadSignal,
                          ReaderFails, Respond, Still
      <4> QED BY <4>2, <4>3, WhatMoves
    <3> QED BY <1>1, <2>4, <3>1, <3>2
  <2> QED BY <2>3, <2>4
<1>2. ASSUME Queued(s)' PROVE Fresh(s)'
  <2>1. Fresh(s)
    BY <1>2, QueuedBefore DEF PhaseInv
  <2>2. ~Active(s)'
    BY <1>2 DEF IdInv, Active, Queued
  <2> QED BY <2>1, <2>2, FreshStep
<1> QED BY <1>1, <1>2, PhaseMoves

-----------------------------------------------------------------------------
(* Audio. *)

AudioOf(q) == Cardinality({k \in DOMAIN q : q[k] = "audio"})

ChunkKinds == {"audio", "error"}

\* The audio in a queue that has got one chunk more.
LEMMA AudioQueued ==
  ASSUME NEW q \in Seq(ChunkKinds), NEW c \in ChunkKinds
  PROVE  /\ AudioOf(q) \in Nat
         /\ AudioOf(Append(q, c)) = AudioOf(q) + (IF c = "audio" THEN 1 ELSE 0)
<1> DEFINE P == {k \in DOMAIN q : q[k] = "audio"}
           R == {k \in DOMAIN Append(q, c) : Append(q, c)[k] = "audio"}
<1>1. /\ DOMAIN Append(q, c) = 1 .. Len(q) + 1 /\ DOMAIN q = 1 .. Len(q) /\ Len(q) \in Nat
      /\ \A i \in DOMAIN q : Append(q, c)[i] = q[i] /\ Append(q, c)[Len(q) + 1] = c
  BY Put
<1>0. Append(q, c)[Len(q) + 1] = c
  BY Put
<1>2. IsFiniteSet(P) /\ Cardinality(P) \in Nat
  BY PlacesAreFinite
<1>3. \A i \in 1 .. Len(q) + 1 : i = Len(q) + 1 \/ i \in 1 .. Len(q)
  BY <1>1
<1>4. Len(q) + 1 \notin P /\ \A i \in 1 .. Len(q) : i \in 1 .. Len(q) + 1
  BY <1>1
<1>5. CASE c = "audio"
  <2>1. R = P \cup {Len(q) + 1}
    BY <1>0, <1>1, <1>3, <1>4, <1>5
  <2>2. Cardinality(P \cup {Len(q) + 1}) = Cardinality(P) + 1
    <3> HIDE DEF P
    <3> QED BY <1>2, <1>4, FS_AddElement
  <2> QED BY <1>2, <1>5, <2>1, <2>2 DEF AudioOf
<1>6. CASE c # "audio"
  <2>1. R = P
    BY <1>0, <1>1, <1>3, <1>4, <1>6
  <2>2. AudioOf(Append(q, c)) = Cardinality(R) /\ AudioOf(q) = Cardinality(P)
    BY DEF AudioOf
  <2> HIDE DEF P, R
  <2> QED BY <1>2, <1>6, <2>1, <2>2
<1> QED BY <1>2, <1>5, <1>6 DEF AudioOf

\* The audio in a queue whose first chunk has been taken.
LEMMA AudioTaken ==
  ASSUME NEW q \in Seq(ChunkKinds), q # <<>>
  PROVE  AudioOf(q) = AudioOf(Tail(q)) + (IF Head(q) = "audio" THEN 1 ELSE 0)
<1> DEFINE P == {k \in DOMAIN Tail(q) : Tail(q)[k] = "audio"}
           R == {k \in DOMAIN q : q[k] = "audio"}
           T == {k \in R : k # 1}
           f == [k \in P |-> k + 1]
<1>1. /\ Head(q) = q[1] /\ 1 \in DOMAIN q /\ DOMAIN q = 1 .. Len(q) /\ Len(q) \in Nat \ {0}
      /\ DOMAIN Tail(q) = 1 .. Len(q) - 1 /\ Tail(q) \in Seq(ChunkKinds)
      /\ \A i \in DOMAIN Tail(q) : i + 1 \in DOMAIN q /\ Tail(q)[i] = q[i + 1]
  BY Taken
<1>2. IsFiniteSet(P) /\ Cardinality(P) \in Nat /\ IsFiniteSet(T) /\ IsFiniteSet(R)
  BY <1>1, PlacesAreFinite
<1>3. \A k \in P : k \in Nat /\ k + 1 \in T /\ f[k] = k + 1
  BY <1>1
<1>4. \A k \in T : k - 1 \in P /\ (k - 1) + 1 = k
  <2> SUFFICES ASSUME NEW k \in T PROVE k - 1 \in P /\ (k - 1) + 1 = k
    OBVIOUS
  <2>1. k - 1 \in DOMAIN Tail(q) /\ (k - 1) + 1 = k /\ q[k] = "audio"
    BY <1>1
  <2> QED BY <1>1, <2>1
<1>5. f \in [P -> T]
  BY <1>3
<1> HIDE DEF f, P, T
<1>6. \A j, k \in P : f[j] = f[k] => j = k
  BY <1>3
<1>7. \A k \in T : \E j \in P : f[j] = k
  BY <1>3, <1>4
<1>8. f \in Bijection(P, T)
  BY <1>5, <1>6, <1>7 DEF Bijection, Injection, Surjection, IsInjective
<1>9. Cardinality(T) = Cardinality(P)
  BY <1>2, <1>8, FS_Bijection DEF ExistsBijection
<1>10. CASE Head(q) = "audio"
  <2>1. R = T \cup {1} /\ 1 \notin T
    BY <1>1, <1>10 DEF T
  <2>2. Cardinality(T \cup {1}) = Cardinality(T) + 1
    BY <1>2, <2>1, FS_AddElement
  <2> QED BY <1>9, <1>10, <2>1, <2>2 DEF AudioOf, P
<1>11. CASE Head(q) # "audio"
  <2>1. R = T
    BY <1>1, <1>11 DEF T
  <2>2. AudioOf(Tail(q)) = Cardinality(P) /\ AudioOf(q) = Cardinality(R)
    BY DEF AudioOf, P
  <2> HIDE DEF R
  <2> QED BY <1>2, <1>9, <1>11, <2>1, <2>2
<1> QED BY <1>10, <1>11

\* What a step does to the audio that is on its way to the job of s.
LEMMA AudioMoves ==
  ASSUME TypeInv, PhaseInv, AudioInv, [Next]_vars, NEW s \in Sessions,
         ~(DrainChunk /\ active[at].session = s), ~(Clear /\ Active(s))
  PROVE  /\ sent'[s] - sent[s] = AudioOf(chunkQ'[s]) - AudioOf(chunkQ[s])
         /\ \A k \in DOMAIN chunkQ'[s] : chunkQ'[s][k] = "error" => reader'[s] = "failed"
         /\ ~Reading(s) /\ phase[s] # "new" =>
                reader'[s] = reader[s] /\ chunkQ'[s] = chunkQ[s]
         /\ AudioOf(chunkQ[s]) \in Nat /\ AudioOf(chunkQ'[s]) \in Nat /\ sent[s] \in Nat
         /\ sent'[s] \in Nat
<1> DEFINE q == chunkQ[s]
<1>1. /\ reader \in [Sessions -> Readers] /\ sent \in [Sessions -> 0 .. MaxChunks]
      /\ chunkQ \in [Sessions -> Seq(ChunkKinds)] /\ q \in Seq(ChunkKinds) /\ MaxChunks \in Nat
      /\ sent[s] \in Nat /\ (reader[s] = "none" => phase[s] \in {"new", "refused", "gone"})
  BY LimitTypes DEF TypeInv, SessionsTyped, ChunkKinds
<1>2. AudioOf(q) \in Nat /\ AudioOf(q) - AudioOf(q) = 0 /\ sent[s] - sent[s] = 0
  BY <1>1, AudioQueued DEF ChunkKinds
<1>3. \A k \in DOMAIN q : q[k] = "error" => reader[s] = "failed"
  BY DEF AudioInv
<1>4. CASE SessionThread(s)
  <2>1. sent' = sent /\ chunkQ' = chunkQ
    BY <1>4 DEF SessionThread, Submit, SpawnFails, WriteResponse, WriteFails, TakeFinished,
                JoinReader
  <2>2. reader'[s] = reader[s] \/ phase[s] = "new"
    BY <1>4 DEF SessionThread, Submit, SpawnFails, WriteResponse, WriteFails, TakeFinished,
                JoinReader
  <2>3. phase[s] = "new" => chunkQ[s] = <<>>
    BY DEF PhaseInv
  <2> QED BY <1>1, <1>2, <1>3, <2>1, <2>2, <2>3
<1>5. CASE ReaderThread(s, Held(s))
  <2>1. CASE ReadAudio(s) \/ EndOfStream(s) \/ Cancel(s) \/ ReaderFails(s)
    BY <1>1, <1>2, <1>3, <2>1 DEF ReadAudio, EndOfStream, Cancel, ReaderFails, Reading
  <2>2. CASE SendChunk(s, Held(s))
    <3>1. reader[s] = "sending"
      BY <2>2 DEF SendChunk
    <3>2. CASE Held(s)
      <4>1. sent'[s] = sent[s] + 1 /\ chunkQ'[s] = Append(q, "audio")
        BY <1>1, <2>2, <3>2 DEF SendChunk
      <4>2. AudioOf(chunkQ'[s]) = AudioOf(q) + 1
        BY <1>1, <4>1, AudioQueued DEF ChunkKinds
      <4>3. \A k \in DOMAIN chunkQ'[s] : chunkQ'[s][k] # "error"
        <5>1. \A k \in DOMAIN q : q[k] # "error"
          BY <1>3, <3>1
        <5>2. /\ DOMAIN chunkQ'[s] = 1 .. Len(q) + 1 /\ chunkQ'[s][Len(q) + 1] = "audio"
              /\ \A i \in DOMAIN q : chunkQ'[s][i] = q[i]
              /\ DOMAIN q = 1 .. Len(q) /\ Len(q) \in Nat
          <6> HIDE DEF q
          <6> QED BY <1>1, <4>1, Put DEF ChunkKinds
        <5>3. \A i \in 1 .. Len(q) + 1 : i = Len(q) + 1 \/ i \in 1 .. Len(q)
          BY <5>2
        <5> QED BY <5>1, <5>2, <5>3
      <4> HIDE DEF q
      <4> QED BY <1>1, <1>2, <3>1, <4>1, <4>2, <4>3 DEF Reading, q
    <3>3. CASE ~Held(s)
      BY <1>1, <1>2, <2>2, <3>1, <3>3 DEF SendChunk, Reading
    <3> QED BY <3>2, <3>3
  <2>3. CASE BadSignal(s, Held(s))
    <3>1. reader[s] = "reading" /\ reader'[s] = "failed" /\ sent' = sent
      BY <1>1, <2>3 DEF BadSignal
    <3>2. chunkQ'[s] = q \/ chunkQ'[s] = Append(q, "error")
      BY <1>1, <2>3 DEF BadSignal
    <3>3. AudioOf(chunkQ'[s]) = AudioOf(q)
      <4>1. CASE chunkQ'[s] = q
        BY <4>1
      <4>2. CASE chunkQ'[s] = Append(q, "error")
        <5> HIDE DEF q
        <5>1. AudioOf(Append(q, "error")) = AudioOf(q) + 0
          BY <1>1, AudioQueued DEF ChunkKinds
        <5> QED BY <1>2, <4>2, <5>1
      <4> QED BY <3>2, <4>1, <4>2
    <3> QED BY <1>1, <1>2, <3>1, <3>3 DEF Reading
  <2> QED BY <1>5, <2>1, <2>2, <2>3 DEF ReaderThread
<1>6. CASE Respond
  BY <1>1, <1>2, <1>3, <1>6 DEF Respond
<1>7. CASE Still(s) /\ chunkQ'[s] = chunkQ[s]
  BY <1>1, <1>2, <1>3, <1>7 DEF Still
<1> QED BY <1>4, <1>5, <1>6, <1>7, WhatMoves

\* After the step the audio of job is accounted for.
FitsThen(job) ==
    /\ job.offset + job.len + AudioOf(chunkQ'[job.session]) = sent'[job.session]
    /\ job.closed => /\ reader'[job.session] \notin {"reading", "sending"}
                     /\ reader'[job.session] # "failed" => chunkQ'[job.session] = <<>>

\* new has the audio that job has.
SameAudio(job, new) ==
    /\ new.session = job.session /\ new.closed = job.closed
    /\ new.offset + new.len = job.offset + job.len

\* Nothing else that happens to a job loses or invents audio.
LEMMA SameAudioFits ==
  ASSUME TypeInv, PhaseInv, AudioInv, [Next]_vars, ~Clear,
         NEW i \in DOMAIN active, ~(DrainChunk /\ active[at].session = active[i].session),
         NEW new \in Jobs, SameAudio(active[i], new)
  PROVE  FitsThen(new)
<1> DEFINE s == active[i].session
<1>1. active[i] \in Jobs /\ s \in Sessions /\ Active(s)
  BY SchedulerValues DEF TypeInv, Active
<1>2. /\ active[i].offset \in Nat /\ active[i].len \in Nat
      /\ new.offset \in Nat /\ new.len \in Nat
  BY <1>1, JobFields
<1>3. phase[s] # "new"
  BY <1>1 DEF PhaseInv, Fresh
<1>4. /\ sent'[s] - sent[s] = AudioOf(chunkQ'[s]) - AudioOf(chunkQ[s])
      /\ ~Reading(s) => reader'[s] = reader[s] /\ chunkQ'[s] = chunkQ[s]
      /\ AudioOf(chunkQ[s]) \in Nat /\ AudioOf(chunkQ'[s]) \in Nat /\ sent[s] \in Nat
      /\ sent'[s] \in Nat
  BY <1>1, <1>3, AudioMoves
<1>5. /\ active[i].offset + active[i].len + AudioOf(chunkQ[s]) = sent[s]
      /\ active[i].closed => ~Reading(s) /\ (reader[s] # "failed" => chunkQ[s] = <<>>)
  BY DEF AudioInv, AudioOf, Audio
<1>6. new.session = s /\ new.closed = active[i].closed
      /\ new.offset + new.len = active[i].offset + active[i].len
  BY DEF SameAudio
<1> HIDE DEF s
<1>7. new.offset + new.len + AudioOf(chunkQ'[s]) = sent'[s]
  <2> DEFINE there  == active[i].offset + active[i].len
             here   == new.offset + new.len
             before == AudioOf(chunkQ[s])
             after  == AudioOf(chunkQ'[s])
             had    == sent[s]
             has    == sent'[s]
  <2>1. there + before = had /\ here = there /\ has - had = after - before
    BY <1>4, <1>5, <1>6
  <2>2. {there, before, after, had, has} \subseteq Nat
    BY <1>2, <1>4
  <2> HIDE DEF there, here, before, after, had, has
  <2>3. here + after = has
    BY <2>1, <2>2
  <2> QED BY <2>3 DEF here, after, has
<1> QED BY <1>4, <1>5, <1>6, <1>7 DEF FitsThen, Reading

\* Changes that leave a job's audio alone.
LEMMA SameAudioKept ==
  ASSUME NEW job \in Jobs, JobOK(job)
  PROVE  SameAudio(job, job) /\ SameAudio(job, RefreshSpeechState(job))
<1>1. job.offset \in Nat /\ job.len \in Nat
  BY JobFields
<1>2. CASE RefreshSpeechState(job) = job
  BY <1>2 DEF SameAudio
<1>3. CASE RefreshSpeechState(job) = [job EXCEPT !.offset = @ + job.len, !.len = 0, !.probs = <<>>]
  BY <1>1, <1>3 DEF SameAudio, Jobs
<1> QED BY <1>2, <1>3, RefreshOK DEF SameAudio

\* A chunk is taken into the buffer.
LEMMA DrainChunkAudio ==
  ASSUME TypeInv, JobsOK, AudioInv, DrainChunk, NEW new, new = AcceptChunk(active[at], Head(chunkQ[active[at].session]))
  PROVE  FitsThen(new)
<1> DEFINE job == active[at]
           s   == job.session
           q   == chunkQ[s]
           c   == Head(q)
<1>1. at \in DOMAIN active
  BY SchedulerValues DEF TypeInv, DrainChunk, Draining
<1>2. /\ job \in Jobs /\ s \in Sessions /\ q \in Seq(ChunkKinds) /\ job.offset \in Nat /\ job.len \in Nat
      /\ sent[s] \in Nat /\ chunkQ \in [Sessions -> Seq(ChunkKinds)]
  BY <1>1, SchedulerValues, JobFields, LimitTypes DEF TypeInv, SessionsTyped, ChunkKinds
<1>3. /\ ~job.closed /\ q # <<>> /\ chunkQ'[s] = Tail(q) /\ UNCHANGED <<reader, sent>>
  BY <1>2 DEF DrainChunk, Drainable
<1>4. job.offset + job.len + AudioOf(q) = sent[s]
  BY <1>1 DEF AudioInv, AudioOf, Audio
<1>5. /\ AudioOf(q) = AudioOf(Tail(q)) + (IF c = "audio" THEN 1 ELSE 0)
      /\ AudioOf(Tail(q)) \in Nat /\ c \in ChunkKinds /\ c = q[1] /\ 1 \in DOMAIN q
  <2> HIDE DEF q
  <2>1. Tail(q) \in Seq(ChunkKinds) /\ q[1] = Head(q) /\ Head(q) \in ChunkKinds /\ 1 \in DOMAIN q
    BY <1>2, <1>3, Taken
  <2>2. AudioOf(Tail(q)) \in Nat
    BY <2>1, AudioQueued DEF ChunkKinds
  <2> QED BY <1>2, <1>3, <2>1, <2>2, AudioTaken
<1>6. CASE c = "audio"
  <2>1. new = [job EXCEPT !.len = @ + 1]
    BY <1>6 DEF AcceptChunk
  <2>2. new.session = s /\ new.closed = job.closed /\ new.offset = job.offset /\ new.len = job.len + 1
    BY <1>2, <2>1 DEF Jobs
  <2>3. /\ AudioOf(q) = AudioOf(Tail(q)) + 1 /\ AudioOf(Tail(q)) \in Nat
        /\ job.offset \in Nat /\ job.len \in Nat
    BY <1>2, <1>5, <1>6
  <2> HIDE DEF q, c, job, s
  <2>4. job.offset + (job.len + 1) + AudioOf(Tail(q)) = sent[s]
    BY <1>4, <2>3
  <2>5. new.session = s /\ ~new.closed /\ new.offset = job.offset /\ new.len = job.len + 1
    BY <1>3, <2>2
  <2>6. new.offset + new.len + AudioOf(chunkQ'[s]) = sent'[s]
    BY <1>3, <2>4, <2>5
  <2> QED BY <2>5, <2>6 DEF FitsThen
<1>7. CASE c # "audio"
  <2>1. new = [job EXCEPT !.closed = TRUE]
    BY <1>7 DEF AcceptChunk
  <2>2. new.session = s /\ new.closed /\ new.offset = job.offset /\ new.len = job.len
    BY <1>2, <2>1 DEF Jobs
  <2>3. reader[s] = "failed"
    BY <1>2, <1>5, <1>7 DEF AudioInv, ChunkKinds
  <2>4. AudioOf(q) = AudioOf(Tail(q)) /\ chunkQ'[s] = Tail(q)
    <3>1. AudioOf(q) = AudioOf(Tail(q)) + 0
      BY <1>5, <1>7
    <3>2. AudioOf(Tail(q)) + 0 = AudioOf(Tail(q))
      BY <1>5
    <3> QED BY <1>3, <3>1, <3>2
  <2>5. sent'[s] = sent[s] /\ reader'[s] = "failed"
    BY <1>3, <2>3
  <2> HIDE DEF q, c, job, s
  <2>6. new.offset + new.len + AudioOf(chunkQ'[s]) = sent'[s]
    BY <1>4, <2>2, <2>4, <2>5
  <2> QED BY <2>2, <2>5, <2>6 DEF FitsThen
<1> QED BY <1>6, <1>7

\* A job is closed when nothing is left for it.
LEMMA DrainNextAudio ==
  ASSUME TypeInv, JobsOK, AudioInv, DrainNext, NEW new,
         new = [active[at] EXCEPT !.closed = @ \/ (Drainable(active[at]) /\ ~Reading(active[at].session))]
  PROVE  FitsThen(new)
<1> DEFINE job == active[at]
           s   == job.session
<1>1. at \in DOMAIN active
  BY SchedulerValues DEF TypeInv, DrainNext, Draining
<1>2. job \in Jobs
  BY <1>1, SchedulerValues DEF TypeInv
<1>3. /\ new.session = s /\ new.offset = job.offset /\ new.len = job.len
      /\ new.closed <=> job.closed \/ (Drainable(job) /\ ~Reading(s))
  BY <1>2 DEF Jobs
<1>4. /\ job.offset + job.len + AudioOf(chunkQ[s]) = sent[s]
      /\ job.closed => ~Reading(s) /\ (reader[s] # "failed" => chunkQ[s] = <<>>)
  BY <1>1 DEF AudioInv, AudioOf, Audio
<1>5. UNCHANGED <<reader, sent, chunkQ>> /\ (Drainable(job) => chunkQ[s] = <<>>)
  BY DEF DrainNext, sessionVars
<1> HIDE DEF job
<1> QED BY <1>3, <1>4, <1>5 DEF FitsThen, Reading

\* The audio of every job, whatever the step.
LEMMA JobsAudio ==
  ASSUME TypeInv, TypeInv', JobsOK, IdInv, PhaseInv, AudioInv, [Next]_vars,
         NEW i \in DOMAIN active'
  PROVE  FitsThen(active'[i])
<1>1. /\ \A k \in DOMAIN active : active[k] \in Jobs /\ JobOK(active[k])
                                  /\ active[k].session \in Sessions
      /\ DOMAIN active = 1 .. Len(active) /\ Len(active) \in Nat
  BY SchedulerValues DEF TypeInv, JobsOK
<1>2. active'[i] \in Jobs
  <2>1. active' \in Seq(Jobs)
    BY DEF TypeInv, SchedulerTyped
  <2> HIDE DEF Jobs
  <2> QED BY <2>1, LenProperties, ElementOfSeq
<1>3. ASSUME ~Clear, ~DrainChunk, NEW k \in DOMAIN active, SameAudio(active[k], active'[i])
      PROVE  FitsThen(active'[i])
  BY <1>2, <1>3, SameAudioFits
<1>4. CASE Clear
  BY <1>4 DEF Clear
<1>5. CASE StartRun \/ SelectJob
  <2>1. /\ jobQ # <<>> /\ DOMAIN active' = 1 .. Len(active) + 1
        /\ active'[Len(active) + 1] = NewJob(nextId, Head(jobQ))
        /\ \A k \in DOMAIN active : active'[k] = active[k]
        /\ Head(jobQ) \in Sessions
    BY <1>5, JoinsAppends
  <2>2. i = Len(active) + 1 \/ i \in DOMAIN active
    BY <1>1, <2>1
  <2>3. UNCHANGED <<sent, chunkQ, reader>> /\ ~Clear /\ ~DrainChunk
    BY <1>5 DEF StartRun, SelectJob, Clear, DrainChunk, Draining, At
  <2>4. CASE i = Len(active) + 1
    <3> DEFINE s == Head(jobQ)
    <3>1. 1 \in DOMAIN jobQ /\ jobQ[1] = s
      BY <2>1, Taken DEF TypeInv, SessionsTyped
    <3>2. AudioOf(chunkQ[s]) = sent[s]
      BY <2>1, <3>1 DEF AudioInv, Queued, Audio, AudioOf
    <3>3. sent[s] \in Nat
      BY <2>1, LimitTypes DEF TypeInv, SessionsTyped
    <3> HIDE DEF s
    <3>4. /\ NewJob(nextId, s).session = s /\ NewJob(nextId, s).offset = 0
          /\ NewJob(nextId, s).len = 0 /\ NewJob(nextId, s).closed = FALSE
      BY DEF NewJob
    <3> QED BY <2>1, <2>3, <2>4, <3>2, <3>3, <3>4 DEF FitsThen, s
  <2>5. CASE i \in DOMAIN active
    BY <1>1, <1>3, <2>1, <2>3, <2>5, SameAudioKept
  <2> QED BY <2>2, <2>4, <2>5
<1>6. CASE DrainChunk
  <2>1. at \in DOMAIN active
    BY <1>6, SchedulerValues DEF TypeInv, DrainChunk, Draining
  <2>2. PICK new : new = AcceptChunk(active[at], Head(chunkQ[active[at].session]))
    OBVIOUS
  <2>3. DOMAIN active' = DOMAIN active /\ active'[at] = new
        /\ \A k \in DOMAIN active : k # at => active'[k] = active[k]
    BY <1>6, <2>1, <2>2 DEF DrainChunk
  <2>4. CASE i = at
    BY <1>6, <2>2, <2>3, <2>4, DrainChunkAudio
  <2>5. CASE i # at
    <3>1. active[i].session # active[at].session /\ active'[i] = active[i] /\ i \in DOMAIN active
      BY <2>1, <2>3, <2>5 DEF IdInv
    <3>2. ~Clear
      BY <1>6 DEF Clear, DrainChunk, Draining, At
    <3> QED BY <1>1, <1>2, <3>1, <3>2, SameAudioFits, SameAudioKept
  <2> QED BY <2>4, <2>5
<1>7. CASE DrainNext
  <2>1. at \in DOMAIN active
    BY <1>7, SchedulerValues DEF TypeInv, DrainNext, Draining
  <2>2. PICK new : new = [active[at] EXCEPT !.closed = @ \/ (Drainable(active[at]) /\ ~Reading(active[at].session))]
    OBVIOUS
  <2>3. DOMAIN active' = DOMAIN active /\ active'[at] = new
        /\ \A k \in DOMAIN active : k # at => active'[k] = active[k]
    BY <1>7, <2>1, <2>2 DEF DrainNext
  <2>4. CASE i = at
    BY <1>7, <2>2, <2>3, <2>4, DrainNextAudio
  <2>5. CASE i # at
    <3>1. active'[i] = active[i] /\ i \in DOMAIN active
      BY <2>3, <2>5
    <3>2. ~Clear /\ ~DrainChunk
      BY <1>7 DEF Clear, DrainChunk, DrainNext, Draining, At, vars
    <3> QED BY <1>1, <1>3, <3>1, <3>2, SameAudioKept
  <2> QED BY <2>4, <2>5
<1>8. ASSUME ~Clear, ~DrainChunk, ~DrainNext, ~StartRun, ~SelectJob
      PROVE  FitsThen(active'[i])
  <2>1. CASE active' = active
    BY <1>1, <1>3, <1>8, <2>1, SameAudioKept
  <2>2. CASE SelectReady \/ SelectResult
    <3>1. CASE active' = active
      BY <2>1, <3>1
    <3>2. ASSUME NEW k \in DOMAIN active, NEW job, Replaces(k, job),
                 job.id = active[k].id, job.session = active[k].session,
                 job.closed = active[k].closed,
                 job.offset + job.len = active[k].offset + active[k].len
          PROVE  FitsThen(active'[i])
      <4>1. DOMAIN active' = DOMAIN active /\ active'[k] = job
            /\ \A h \in DOMAIN active : h # k => active'[h] = active[h]
        BY <3>2 DEF Replaces
      <4>2. CASE i = k
        BY <1>3, <1>8, <3>2, <4>1, <4>2 DEF SameAudio
      <4>3. CASE i # k
        BY <1>1, <1>3, <1>8, <4>1, <4>3, SameAudioKept
      <4> QED BY <4>2, <4>3
    <3> QED BY <2>2, <3>1, <3>2, SelectReplaces
  <2>3. CASE EndDrain
    <3>1. PICK stay, leave : Parted(stay, leave)
      BY <2>3, EndDrainEffect DEF TypeInv
    <3>2. DOMAIN active' = 1 .. Len(active')
      <4>1. active' \in Seq(Jobs)
        BY DEF TypeInv, SchedulerTyped
      <4> HIDE DEF Jobs
      <4> QED BY <4>1, LenProperties
    <3>3. stay[i] \in DOMAIN active /\ active'[i] = Refreshed[stay[i]]
      BY <1>1, <3>1, <3>2 DEF Parted, Picks
    <3>4. Refreshed[stay[i]] = active[stay[i]] \/ Refreshed[stay[i]] = RefreshSpeechState(active[stay[i]])
      BY <3>3, RefreshedJobs DEF TypeInv
    <3> QED BY <1>1, <1>3, <1>8, <3>3, <3>4, SameAudioKept
  <2>4. active' = active \/ SelectReady \/ SelectResult \/ EndDrain
    BY <1>8 DEF Next, Scheduler, Session, Reader, Worker, schedulerVars, vars, Send, Respond, Post,
        SelectError, SelectSleep
  <2> QED BY <2>1, <2>2, <2>3, <2>4
<1> QED BY <1>4, <1>5, <1>6, <1>7, <1>8

\* Audio stays accounted for.
LEMMA AudioStep ==
  ASSUME TypeInv, TypeInv', JobsOK, IdInv, IdInv', PhaseInv, AudioInv, [Next]_vars
  PROVE  AudioInv'
<1>1. ASSUME NEW s \in Sessions
      PROVE  /\ Queued(s)' => AudioOf(chunkQ'[s]) = sent'[s]
             /\ \A k \in DOMAIN chunkQ'[s] : chunkQ'[s][k] = "error" => reader'[s] = "failed"
  <2>1. CASE ~(DrainChunk /\ active[at].session = s) /\ ~(Clear /\ Active(s))
    <3>1. /\ sent'[s] - sent[s] = AudioOf(chunkQ'[s]) - AudioOf(chunkQ[s])
          /\ \A k \in DOMAIN chunkQ'[s] : chunkQ'[s][k] = "error" => reader'[s] = "failed"
          /\ AudioOf(chunkQ[s]) \in Nat /\ AudioOf(chunkQ'[s]) \in Nat /\ sent[s] \in Nat
          /\ sent'[s] \in Nat
      BY <2>1, AudioMoves
    <3>2. ASSUME Queued(s)' PROVE AudioOf(chunkQ[s]) = sent[s]
      <4>1. CASE Queued(s)
        BY <4>1 DEF AudioInv, AudioOf, Audio
      <4>2. CASE phase[s] = "new"
        <5>1. chunkQ[s] = <<>> /\ sent[s] = 0
          BY <4>2 DEF PhaseInv
        <5>2. AudioOf(<<>>) = 0
          <6>1. {k \in DOMAIN <<>> : <<>>[k] = "audio"} = {}
            OBVIOUS
          <6> QED BY <6>1, FS_EmptySet DEF AudioOf
        <5> QED BY <5>1, <5>2
      <4> QED BY <3>2, <4>1, <4>2, QueuedBefore
    <3> QED BY <3>1, <3>2
  <2>2. CASE DrainChunk /\ active[at].session = s
    <3>1. at \in DOMAIN active
      BY <2>2, SchedulerValues DEF TypeInv, DrainChunk, Draining
    <3>2. chunkQ[s] \in Seq(ChunkKinds) /\ chunkQ \in [Sessions -> Seq(ChunkKinds)]
      BY DEF TypeInv, SessionsTyped, ChunkKinds
    <3>3. chunkQ[s] # <<>> /\ chunkQ'[s] = Tail(chunkQ[s]) /\ reader' = reader
      BY <2>2, <3>2 DEF DrainChunk
    <3>4. \A k \in DOMAIN chunkQ'[s] : k + 1 \in DOMAIN chunkQ[s] /\ chunkQ'[s][k] = chunkQ[s][k + 1]
      BY <3>2, <3>3, Taken
    <3>5. ~Queued(s)'
      <4>1. jobQ' = jobQ /\ Active(s)
        BY <2>2, <3>1 DEF DrainChunk, Active
      <4> QED BY <4>1 DEF IdInv, Queued
    <3> QED BY <3>3, <3>4, <3>5 DEF AudioInv
  <2>3. CASE Clear /\ Active(s)
    <3>1. chunkQ'[s] = <<>> /\ jobQ' = jobQ
      BY <2>3 DEF Clear, Active
    <3>2. ~Queued(s)'
      BY <2>3, <3>1 DEF IdInv, Queued
    <3> QED BY <3>1, <3>2
  <2> QED BY <2>1, <2>2, <2>3
<1>2. \A i \in DOMAIN active' : FitsThen(active'[i])
  BY JobsAudio
<1> QED BY <1>1, <1>2 DEF AudioInv, FitsThen, Audio, AudioOf, Queued, Reading

-----------------------------------------------------------------------------
(* The end of a session. *)

\* The scheduler goes on when its messages have gone.
LEMMA OutboxMoves ==
  ASSUME [Next]_vars
  PROVE  /\ outbox' = outbox \/ outbox = <<>> \/ Send
         /\ Send => outbox # <<>> /\ outbox' = Tail(outbox)
BY DEF Next, Scheduler, Session, Reader, Worker, schedulerVars, vars, Send, Respond, Post,
       StartRun, DrainChunk, Draining, DrainNext, EndDrain, SelectJob, SelectReady, SelectResult,
       SelectError, Clear, SelectSleep, At

\* What a session is still to be told is told when its turn comes.
LEMMA RespondDelivers ==
  ASSUME TypeInv, Respond, NEW s \in Sessions, Listening(s)
  PROVE  /\ \A i \in DOMAIN respQ[s] : i \in DOMAIN respQ'[s] /\ respQ'[s][i] = respQ[s][i]
         /\ \A i \in DOMAIN outbox : ToldOf(i, s) =>
              \/ \E k \in DOMAIN respQ'[s] : respQ'[s][k] = outbox[i].response
              \/ \E j \in DOMAIN outbox' : outbox'[j] = outbox[i]
<1> DEFINE m == outbox[1]
           q == respQ[s]
<1>1. /\ 1 \in DOMAIN outbox /\ Head(outbox) = m /\ m \in Messages /\ m.to = "session"
      /\ \A i \in DOMAIN outbox' : i + 1 \in DOMAIN outbox /\ outbox'[i] = outbox[i + 1]
      /\ \A i \in DOMAIN outbox : i = 1 \/ (i - 1 \in DOMAIN outbox' /\ i = (i - 1) + 1)
  BY OutboxRest DEF Respond, TypeInv
<1>2. m.session \in Sessions /\ m.response \in Responses
  BY <1>1, MessageFields
<1>3. q \in Seq(Responses) /\ respQ \in [Sessions -> Seq(Responses)]
  BY DEF TypeInv, SessionsTyped
<1>4. IF m.session = s THEN respQ'[s] = Append(q, m.response) ELSE respQ'[s] = q
  <2> HIDE DEF Messages, Responses
  <2> QED BY <1>1, <1>2, <1>3 DEF Respond
<1>5. /\ DOMAIN Append(q, m.response) = 1 .. Len(q) + 1 /\ DOMAIN q = 1 .. Len(q) /\ Len(q) \in Nat
      /\ \A i \in DOMAIN q : Append(q, m.response)[i] = q[i]
      /\ Append(q, m.response)[Len(q) + 1] = m.response
  <2> HIDE DEF q, m, Responses
  <2> QED BY <1>2, <1>3, Put
<1>6. \A i \in 1 .. Len(q) : i \in 1 .. Len(q) + 1
  BY <1>5
<1>7. \A i \in DOMAIN respQ[s] : i \in DOMAIN respQ'[s] /\ respQ'[s][i] = respQ[s][i]
  BY <1>4, <1>5, <1>6
<1>8. ASSUME NEW i \in DOMAIN outbox, ToldOf(i, s)
      PROVE  \/ \E k \in DOMAIN respQ'[s] : respQ'[s][k] = outbox[i].response
             \/ \E j \in DOMAIN outbox' : outbox'[j] = outbox[i]
  <2>1. CASE i = 1
    <3>1. m.session = s
      BY <1>8, <2>1 DEF ToldOf
    <3>2. Len(q) + 1 \in DOMAIN respQ'[s] /\ respQ'[s][Len(q) + 1] = m.response
      <4>1. Len(q) + 1 \in 1 .. Len(q) + 1
        BY <1>5
      <4> QED BY <1>4, <1>5, <3>1, <4>1
    <3> QED BY <2>1, <3>2
  <2>2. CASE i # 1
    <3>1. i - 1 \in DOMAIN outbox' /\ outbox'[i - 1] = outbox[i]
      BY <1>1, <2>2
    <3> QED BY <3>1
  <2> QED BY <2>1, <2>2
<1> QED BY <1>7, <1>8

\* The end of a session is not lost on its way.
LEMMA EndingKept ==
  ASSUME TypeInv, [Next]_vars, NEW s \in Sessions, phase[s] = "live", phase'[s] = "live",
         Ending(s)
  PROVE  Ending(s)'
<1>1. CASE Respond
  <2>1. Listening(s)
    BY DEF Listening
  <2> QED BY <1>1, <2>1, RespondDelivers DEF Ending, ToldOf, Finishes
<1>2. CASE ~Respond
  <2>1. ASSUME NEW i \in DOMAIN respQ[s], Finishes(respQ[s][i])
        PROVE  \E k \in DOMAIN respQ'[s] : Finishes(respQ'[s][k])
    <3>1. CASE respQ'[s] = respQ[s]
      BY <2>1, <3>1
    <3>2. CASE SessionThread(s)
      <4>1. CASE WriteResponse(s)
        <5>1. respQ[s] \in Seq(Responses) /\ respQ \in [Sessions -> Seq(Responses)]
          BY DEF TypeInv, SessionsTyped
        <5> HIDE DEF Responses
        <5>2. respQ[s] # <<>> /\ respQ'[s] = Tail(respQ[s]) /\ ~Finishes(Head(respQ[s]))
          BY <4>1, <5>1 DEF WriteResponse, Finishes
        <5>3. /\ Head(respQ[s]) = respQ[s][1] /\ DOMAIN respQ[s] = 1 .. Len(respQ[s])
              /\ Len(respQ[s]) \in Nat \ {0} /\ DOMAIN respQ'[s] = 1 .. Len(respQ[s]) - 1
              /\ \A k \in DOMAIN respQ'[s] : respQ'[s][k] = respQ[s][k + 1]
          BY <5>1, <5>2, Taken
        <5>4. i # 1
          BY <2>1, <5>2, <5>3
        <5>5. i - 1 \in DOMAIN respQ'[s] /\ (i - 1) + 1 = i
          BY <5>3, <5>4
        <5> QED BY <2>1, <5>3, <5>5
      <4>2. CASE \/ Submit(s) \/ SpawnFails(s) \/ WriteFails(s)
                 \/ TakeFinished(s) \/ JoinReader(s)
        <5>1. phase \in [Sessions -> Phases]
          BY DEF TypeInv, SessionsTyped
        <5> QED BY <4>2, <5>1 DEF Submit, SpawnFails, WriteFails, TakeFinished, JoinReader
      <4> QED BY <3>2, <4>1, <4>2 DEF SessionThread
    <3>3. CASE ReaderThread(s, Held(s))
      <4>1. respQ' = respQ
        BY <3>3 DEF ReaderThread, ReadAudio, SendChunk, EndOfStream, Cancel, BadSignal,
                    ReaderFails
      <4> QED BY <2>1, <4>1
    <3> QED BY <1>2, <3>1, <3>2, <3>3, WhatMoves
  <2>2. ASSUME NEW i \in DOMAIN outbox, ToldOf(i, s), Finishes(outbox[i].response)
        PROVE  \E k \in DOMAIN outbox' : ToldOf(k, s)' /\ Finishes(outbox'[k].response)
    <3>1. CASE outbox' = outbox
      BY <2>2, <3>1 DEF ToldOf
    <3>2. CASE Send
      <4>1. /\ outbox # <<>> /\ outbox' = Tail(outbox) /\ Head(outbox).to = "worker"
        BY <1>2, <3>2 DEF Send, Post
      <4>2. /\ Head(outbox) = outbox[1]
            /\ \A h \in DOMAIN outbox' : h + 1 \in DOMAIN outbox /\ outbox'[h] = outbox[h + 1]
            /\ \A h \in DOMAIN outbox : h = 1 \/ (h - 1 \in DOMAIN outbox' /\ h = (h - 1) + 1)
        BY <4>1, OutboxRest DEF TypeInv
      <4>3. i # 1
        BY <2>2, <4>1, <4>2 DEF ToldOf
      <4>4. i - 1 \in DOMAIN outbox' /\ outbox'[i - 1] = outbox[i]
        BY <4>2, <4>3
      <4> QED BY <2>2, <4>4 DEF ToldOf
    <3>3. outbox # <<>>
      OBVIOUS
    <3> QED BY <3>1, <3>2, <3>3, OutboxMoves
  <2> QED BY <2>1, <2>2 DEF Ending
<1> QED BY <1>1, <1>2

\* A session whose job is dropped as complete is told so.
LEMMA ActiveNext ==
  ASSUME TypeInv, JobsOK, IdInv, [Next]_vars, NEW s \in Sessions, Active(s), ~Active(s)', ~Clear
  PROVE  Ending(s)'
<1>1. PICK i \in DOMAIN active : active[i].session = s
  BY DEF Active
<1>2. CASE EndDrain
  <2>1. PICK stay, leave : Parted(stay, leave)
    BY <1>2, EndDrainEffect DEF TypeInv
  <2>2. DOMAIN active' = 1 .. Len(active') /\ DOMAIN active = 1 .. Len(active)
    <3>1. active' \in Seq(Jobs)
      BY <1>2, EndDrainEffect DEF TypeInv
    <3> HIDE DEF Jobs
    <3> QED BY <3>1, LenProperties, SchedulerValues DEF TypeInv
  <2>3. /\ DOMAIN Refreshed = DOMAIN active /\ Refreshed[i] \in Jobs
        /\ Refreshed[i].session = s /\ \A k \in DOMAIN active : Refreshed[k].session = active[k].session
    BY <1>1, RefreshedJobs DEF TypeInv
  <2>4. CASE IsComplete(Refreshed[i])
    <3>1. PICK j \in DOMAIN outbox' : leave[j] = i
      BY <2>1, <2>4 DEF Parted
    <3>2. outbox'[j] = ToSession(s, Finished(TRUE, Refreshed[i]))
      BY <2>1, <2>3, <3>1 DEF Parted
    <3>3. outbox'[j].to = "session" /\ outbox'[j].session = s /\ outbox'[j].response.kind = "finished"
      BY <3>2 DEF ToSession, Finished
    <3> QED BY <3>3 DEF Ending, ToldOf, Finishes
  <2>5. CASE ~IsComplete(Refreshed[i])
    <3>1. i \in {k \in DOMAIN Refreshed : Incomplete(Refreshed[k])}
      BY <2>3, <2>5 DEF Incomplete
    <3>2. PICK k \in DOMAIN active' : stay[k] = i
      BY <2>1, <2>2, <3>1 DEF Parted, Picks
    <3>3. active'[k] = Refreshed[i]
      BY <2>1, <2>2, <3>2 DEF Parted, Picks
    <3> QED BY <2>3, <3>2, <3>3 DEF Active
  <2> QED BY <2>4, <2>5
<1>3. CASE StartRun \/ SelectJob
  BY <1>1, <1>3, JoinsAppends DEF Active
<1>4. CASE ~EndDrain /\ ~StartRun /\ ~SelectJob
  <2>1. CASE active' = active
    BY <1>1, <2>1 DEF Active
  <2>2. CASE SelectReady \/ SelectResult
    <3>1. ASSUME NEW k \in DOMAIN active, NEW job, Replaces(k, job), job.session = active[k].session
          PROVE  Active(s)'
      BY <1>1, <3>1 DEF Replaces, Active
    <3> QED BY <2>1, <2>2, <3>1, SelectReplaces
  <2>3. CASE DrainChunk \/ DrainNext
    <3>1. at \in DOMAIN active /\ active[at] \in Jobs
      <4>1. Draining
        BY <2>3 DEF DrainChunk, DrainNext
      <4> QED BY <4>1, SchedulerValues DEF TypeInv, Draining
    <3>2. ASSUME NEW job \in Jobs, NEW c
          PROVE  /\ AcceptChunk(job, c).session = job.session
                 /\ [job EXCEPT !.closed = c].session = job.session
      BY DEF AcceptChunk, Jobs
    <3>3. \E c : active' = [active EXCEPT ![at] = AcceptChunk(active[at], c)]
                 \/ active' = [active EXCEPT ![at] = [active[at] EXCEPT !.closed = c]]
      BY <2>3 DEF DrainChunk, DrainNext
    <3> HIDE DEF Jobs
    <3>4. \E job : active' = [active EXCEPT ![at] = job] /\ job.session = active[at].session
      BY <3>1, <3>2, <3>3
    <3> QED BY <1>1, <3>1, <3>4 DEF Active
  <2> QED BY <1>4, <2>1, <2>2, <2>3
          DEF Next, Scheduler, Session, Reader, Worker, schedulerVars, vars, Send, Respond, Post,
              SelectError, SelectSleep
<1> QED BY <1>2, <1>3, <1>4

\* Whose job leaves the queue has an active one.
LEMMA QueuedNext ==
  ASSUME TypeInv, JobsOK, IdInv, [Next]_vars, NEW s \in Sessions, Queued(s)
  PROVE  Queued(s)' \/ Active(s)'
<1>0. PICK k \in DOMAIN jobQ : jobQ[k] = s
  BY DEF Queued
<1>1. jobQ \in Seq(Sessions) /\ DOMAIN jobQ = 1 .. Len(jobQ) /\ Len(jobQ) \in Nat
  BY LenProperties DEF TypeInv, SessionsTyped
<1>2. CASE jobQ' = jobQ
  BY <1>0, <1>2 DEF Queued
<1>3. CASE (StartRun \/ SelectJob) /\ jobQ # <<>> /\ jobQ' = Tail(jobQ)
  <2>1. /\ Head(jobQ) = jobQ[1] /\ DOMAIN jobQ' = 1 .. Len(jobQ) - 1
        /\ \A i \in DOMAIN jobQ' : jobQ'[i] = jobQ[i + 1]
    BY <1>1, <1>3, Taken
  <2>2. CASE k = 1
    <3>1. /\ DOMAIN active' = 1 .. Len(active) + 1 /\ Len(active) \in Nat
          /\ active'[Len(active) + 1] = NewJob(nextId, s)
      BY <1>0, <1>3, <2>1, <2>2, JoinsAppends, SchedulerValues DEF TypeInv
    <3>2. Len(active) + 1 \in DOMAIN active'
      BY <3>1
    <3> QED BY <3>1, <3>2, NewJobWork DEF Active
  <2>3. CASE k # 1
    <3>1. k - 1 \in DOMAIN jobQ' /\ (k - 1) + 1 = k
      BY <1>1, <2>1, <2>3
    <3> QED BY <1>0, <2>1, <3>1 DEF Queued
  <2> QED BY <2>2, <2>3
<1>4. ASSUME NEW r \in Sessions, jobQ' = Append(jobQ, r) PROVE Queued(s)'
  <2>1. /\ DOMAIN jobQ' = 1 .. Len(jobQ) + 1 /\ \A i \in DOMAIN jobQ : jobQ'[i] = jobQ[i]
    BY <1>1, <1>4, Put
  <2>2. k \in 1 .. Len(jobQ) + 1
    BY <1>1
  <2> QED BY <1>0, <2>1, <2>2 DEF Queued
<1> QED BY <1>2, <1>3, <1>4, JobQueueMoves

\* Who becomes live has his job in the queue.
LEMMA BecomesLive ==
  ASSUME TypeInv, [Next]_vars, NEW s \in Sessions, phase[s] # "live", phase'[s] = "live"
  PROVE  phase[s] = "new" /\ Queued(s)' /\ UNCHANGED schedulerVars
<1>1. phase \in [Sessions -> Phases] /\ jobQ \in Seq(Sessions)
  BY DEF TypeInv, SessionsTyped
<1>2. CASE SessionThread(s) /\ UNCHANGED <<workerVars, schedulerVars>>
  <2>1. Submit(s)
    BY <1>1, <1>2 DEF SessionThread, SpawnFails, WriteResponse, WriteFails, TakeFinished,
                      JoinReader
  <2>2. phase[s] = "new" /\ jobQ' = Append(jobQ, s)
    BY <1>1, <2>1 DEF Submit
  <2>3. Len(jobQ) + 1 \in DOMAIN jobQ' /\ jobQ'[Len(jobQ) + 1] = s
    <3>1. /\ DOMAIN jobQ' = 1 .. Len(jobQ) + 1 /\ Len(jobQ) \in Nat
          /\ jobQ'[Len(jobQ) + 1] = s
      BY <1>1, <2>2, Put
    <3> QED BY <3>1
  <2> QED BY <1>2, <2>2, <2>3 DEF Queued
<1>3. CASE ReaderThread(s, Held(s)) \/ Respond \/ Still(s)
  BY <1>3 DEF ReaderThread, ReadAudio, SendChunk, EndOfStream, Cancel, BadSignal, ReaderFails,
              Respond, Still
<1> QED BY <1>2, <1>3, WhatMoves

\* Nobody is left without an end.
LEMMA EndStep ==
  ASSUME TypeInv, JobsOK, IdInv, PhaseInv, EndInv, [Next]_vars
  PROVE  EndInv'
<1>1. ASSUME NEW s \in Sessions, phase'[s] = "live"
      PROVE  Queued(s)' \/ Active(s)' \/ Ending(s)'
  <2>1. CASE phase[s] # "live"
    BY <1>1, <2>1, BecomesLive
  <2>2. CASE phase[s] = "live" /\ Ending(s)
    BY <1>1, <2>2, EndingKept
  <2>3. CASE Queued(s)
    BY <2>3, QueuedNext
  <2>4. CASE phase[s] = "live" /\ Active(s)
    <3>1. CASE ~Clear
      BY <2>4, <3>1, ActiveNext
    <3>2. CASE Clear
      <4>1. Ending(s)
        BY <2>4, <3>2 DEF EndInv, Active, Clear, At
      <4> QED BY <1>1, <2>4, <4>1, EndingKept
    <3> QED BY <3>1, <3>2
  <2> QED BY <2>1, <2>2, <2>3, <2>4 DEF EndInv
<1>2. ASSUME pc' = "clear", NEW i \in DOMAIN active', phase'[active'[i].session] = "live"
      PROVE  \E s \in Sessions : s = active'[i].session /\ Ending(s)'
  <2>1. CASE SelectError
    <3>0. PICK s : s = active[i].session
      OBVIOUS
    <3>1. active' = active /\ outbox' = Failures
      BY <2>1 DEF SelectError
    <3>2. /\ s \in Sessions /\ i \in DOMAIN Failures
          /\ Failures[i] = ToSession(s, Finished(FALSE, active[i]))
      BY <1>2, <3>0, <3>1, FailuresTyped, SchedulerValues DEF TypeInv
    <3>3. outbox'[i].to = "session" /\ outbox'[i].session = s /\ outbox'[i].response.kind = "finished"
      BY <3>1, <3>2 DEF ToSession, Finished
    <3>4. Ending(s)'
      BY <3>1, <3>2, <3>3 DEF Ending, ToldOf, Finishes
    <3> QED BY <3>0, <3>1, <3>2, <3>4
  <2>2. CASE ~SelectError
    <3>1. pc = "clear" /\ active' = active
      BY <1>2, <2>2 DEF Next, Scheduler, Session, Reader, Worker, schedulerVars, vars, Send,
         Respond, Post, StartRun, DrainChunk, Draining, DrainNext, EndDrain, SelectJob,
         SelectReady, SelectResult, Clear, SelectSleep, At
    <3>2. PICK s \in Sessions : s = active[i].session
      BY <1>2, <3>1, SchedulerValues DEF TypeInv
    <3>3. Active(s) /\ phase[s] # "new"
      BY <1>2, <3>1, <3>2 DEF Active, PhaseInv, Fresh
    <3>4. phase[s] = "live"
      BY <1>2, <3>1, <3>2, <3>3, BecomesLive
    <3>5. Ending(s)
      BY <1>2, <3>1, <3>2, <3>4 DEF EndInv
    <3> QED BY <1>2, <3>1, <3>2, <3>4, <3>5, EndingKept
  <2> QED BY <2>1, <2>2
<1> QED BY <1>1, <1>2 DEF EndInv, Queued, Active, Ending, ToldOf

-----------------------------------------------------------------------------
(* The invariant and what it says. *)

CoreInv == /\ TypeInv /\ JobsOK /\ TokenInv /\ IdInv /\ PhaseInv /\ AudioInv
           /\ WorkInv /\ CountInv /\ EndInv

\* Nothing is queued, outstanding or active at first.
LEMMA InitCore == Init => CoreInv
<1> SUFFICES ASSUME Init PROVE CoreInv
  OBVIOUS
<1> USE DEF Init, SessionsInit, WorkersInit
<1>1. <<>> \in Seq(Responses) /\ <<>> \in Seq({"audio", "error"}) /\ <<>> \in Seq(Sessions)
      /\ <<>> \in Seq(Workers) /\ <<>> \in Seq(AllResults) /\ <<>> \in Seq(Jobs)
      /\ <<>> \in Seq(Messages) /\ Len(<<>>) = 0 /\ DOMAIN <<>> = {}
  BY EmptySeq
<1>2. [from |-> 0, upTo |-> 0, speech |-> 0] \in Hearings
  BY DEF Hearings
<1>3. SessionsTyped
  <2> HIDE DEF Responses, Hearings
  <2> QED BY <1>1, <1>2, LimitTypes DEF SessionsTyped, Phases, Readers, Finals
<1>4. WorkersTyped
  <2>1. <<>> \in Slots
    BY DEF Slots
  <2> HIDE DEF AllResults, Slots
  <2> QED BY <1>1, <2>1, NpuWorkersNat DEF WorkersTyped, WorkerPCs
<1>5. SchedulerTyped
  <2> HIDE DEF Jobs, Messages
  <2> QED BY <1>1, LimitTypes DEF SchedulerTyped, PCs, Ids
<1>6. JobsOK
  BY DEF JobsOK
<1>7. TokenInv
  BY DEF TokenInv, Announced, Posted, ForWorker
<1>8. Outstanding = {}
  BY DEF Outstanding
<1>9. IdInv
  BY <1>8 DEF IdInv, Active
<1>10. PhaseInv
  BY DEF PhaseInv, Fresh, Active, Queued, ToldOf, Reading, Listening
<1>11. AudioInv
  BY DEF AudioInv, Queued
<1>12. WorkInv /\ CountInv
  BY <1>8, FS_EmptySet DEF WorkInv, CountInv
<1>13. EndInv
  BY DEF EndInv
<1> QED BY <1>3, <1>4, <1>5, <1>6, <1>7, <1>9, <1>10, <1>11, <1>12, <1>13 DEF CoreInv, TypeInv

\* Every step keeps it.
LEMMA StepCore == CoreInv /\ [Next]_vars => CoreInv'
<1> SUFFICES ASSUME CoreInv, [Next]_vars PROVE CoreInv'
  OBVIOUS
<1>0. TypeInv /\ JobsOK /\ TokenInv /\ IdInv /\ PhaseInv /\ AudioInv /\ WorkInv /\ CountInv /\ EndInv
  BY DEF CoreInv
<1>1. TypeInv' /\ JobsOK'
  BY <1>0, TypeStep
<1>2. TokenInv'
  BY <1>0, TokenStep
<1>3. WorkInv' /\ CountInv' /\ \A n \in Outstanding' : n.item.job < nextId'
  BY <1>0, <1>1, WorkInvStep
<1>4. IdInv'
  BY <1>0, <1>3, IdStep
<1>5. PhaseInv'
  BY <1>0, <1>4, PhaseStep
<1>6. AudioInv'
  BY <1>0, <1>1, <1>4, AudioStep
<1>7. EndInv'
  BY <1>0, EndStep
<1> QED BY <1>1, <1>2, <1>3, <1>4, <1>5, <1>6, <1>7 DEF CoreInv

\* The invariant holds in every state of every run of the scheduler.
THEOREM CoreHolds == Spec => []CoreInv
BY InitCore, StepCore, PTL DEF Spec

\* Every variable of the scheduler, its sessions and its workers keeps its
\* shape, and every queue its capacity: TypeOK.
THEOREM LiveIsTyped == Spec => []TypeOK
<1>1. CoreInv => TypeOK
  <2> SUFFICES ASSUME CoreInv PROVE TypeOK
    OBVIOUS
  <2>1. SessionsTyped /\ WorkersTyped /\ SchedulerTyped
    BY DEF CoreInv, TypeInv
  <2>2. ASSUME NEW s \in Sessions, NEW i \in DOMAIN respQ[s]
        PROVE  respQ[s][i].kind \in {"segment", "speech", "finished"}
    <3>1. respQ[s][i] \in Responses
      <4>1. respQ[s] \in Seq(Responses)
        BY <2>1 DEF SessionsTyped
      <4> HIDE DEF Responses
      <4> QED BY <4>1, LenProperties, ElementOfSeq
    <3> QED BY <3>1, ResponseKinds
  <2>3. ASSUME NEW w \in Workers PROVE Len(task[w]) <= 1 /\ Len(inbox[w]) <= 1
    <3>1. task[w] \in Slots /\ inbox[w] \in Slots
      BY <2>1 DEF WorkersTyped
    <3>2. \A q \in Slots : Len(q) <= 1
      BY SlotFields
    <3> QED BY <3>1, <3>2
  <2> HIDE DEF Responses, Jobs
  <2> QED BY <2>1, <2>2, <2>3 DEF TypeOK, SessionsTyped, WorkersTyped, SchedulerTyped, Ids
<1> QED BY <1>1, CoreHolds, PTL

\* The announcement of a worker is never lost or doubled: OneTokenPerWorker.
THEOREM LiveWorkersHaveOneToken == Spec => []OneTokenPerWorker
<1>1. CoreInv => OneTokenPerWorker
  BY TokensAreCounted DEF CoreInv
<1> QED BY <1>1, CoreHolds, PTL

\* in_flight and vad_in_flight count what is outstanding: InFlightIsExact.
THEOREM LiveInFlightIsExact == Spec => []InFlightIsExact
<1>1. CoreInv /\ TypeOK => InFlightIsExact
  BY DEF CoreInv, CountInv, Counts, OutstandingFor, InFlightIsExact
<1> QED BY <1>1, CoreHolds, LiveIsTyped, PTL

\* Audio is neither lost nor counted twice: AudioIsAccounted.
THEOREM LiveAudioIsAccounted == Spec => []AudioIsAccounted
<1>1. CoreInv => AudioIsAccounted
  BY DEF CoreInv, AudioInv, Audio, AudioIsAccounted
<1> QED BY <1>1, CoreHolds, PTL

\* A session whose job is gone has been told: NoOrphans.
THEOREM LiveNoOrphans == Spec => []NoOrphans
<1>1. CoreInv => NoOrphans
  BY DEF CoreInv, EndInv, Queued, Active, Ending, ToldOf, Finishes, Held, NoOrphans
<1> QED BY <1>1, CoreHolds, PTL

\* The buffer does not move under a VAD window: VadResultsFit.
THEOREM LiveVadResultsFit == Spec => []VadResultsFit
<1>1. CoreInv => VadResultsFit
  <2> SUFFICES ASSUME CoreInv, NEW i \in DOMAIN active, NEW o \in OutstandingFor(active[i]),
                      o.item.kind = "vad"
               PROVE  /\ active[i].offset + o.item.start = o.item.from
                      /\ active[i].vadDone = o.item.start
    BY DEF VadResultsFit
  <2> QED BY DEF CoreInv, WorkInv, Suits, VadOwn, Vad
<1> QED BY <1>1, CoreHolds, PTL

\* A window is one of received audio that the encoder takes: WindowsFit.
THEOREM LiveWindowsFit == Spec => []WindowsFit
<1>1. CoreInv => WindowsFit
  <2> SUFFICES ASSUME CoreInv, NEW o \in Outstanding, o.item.kind = "whisper"
               PROVE  /\ o.item.to - o.item.from \in 1 .. WindowLen
                      /\ o.item.to <= sent[o.item.session]
    BY DEF WindowsFit
  <2>1. Sized(o.item)
    BY DEF CoreInv, WorkInv, Whisper
  <2>2. o.item.from \in Nat /\ o.item.to \in Nat
    BY OutstandingTyped, WhisperFields DEF CoreInv, Whisper
  <2> QED BY <2>1, <2>2, LimitTypes DEF Sized
<1> QED BY <1>1, CoreHolds, PTL
=============================================================================
