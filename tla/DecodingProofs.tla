--------------------------- MODULE DecodingProofs ---------------------------
(***************************************************************************)
(* Decoding for every vocabulary, cache and limit: a pass always has room, *)
(* the loop makes progress whatever the network answers, and without       *)
(* timestamps it makes one pass.  For every width: the beam search is such *)
(* a pass, so that all this holds with the search in the loop.  Then what  *)
(* the caches of the decoder and of the beams hold, and that no word is    *)
(* lost on the way from the tokens to the segments.                        *)
(***************************************************************************)
EXTENDS BeamSearch, SequenceTheorems, WellFoundedInduction, TLAPS

-----------------------------------------------------------------------------
(* Loops, as in VadProofs. *)

\* What holds at first and is kept by each round holds after every round.
LEMMA UpTo ==
  ASSUME NEW n \in Nat, NEW D, 0 \in D, \A i \in 1 .. n : i - 1 \in D => i \in D
  PROVE  \A i \in 0 .. n : i \in D
<1> DEFINE Out  == {i \in 0 .. n : i \notin D}
           Less == {ss \in Nat \X Nat : ss[1] < ss[2]}
<1>1. IsWellFoundedOn(Less, Nat)
  BY NatLessThanWellFounded DEF OpToRel
<1>2. SUFFICES ASSUME Out # {} PROVE FALSE
  OBVIOUS
<1>3. Out \subseteq Nat
  OBVIOUS
<1>4. PICK x \in Out : \A y \in Out : <<y, x>> \notin Less
  <2> HIDE DEF Out, Less
  <2> QED BY <1>1, <1>2, <1>3, WFMin
<1>5. x \in 1 .. n /\ x \notin D /\ x - 1 \in 0 .. n
  OBVIOUS
<1>6. x - 1 \in Out
  BY <1>5
<1>7. <<x - 1, x>> \in Less
  BY <1>5
<1> QED BY <1>4, <1>6, <1>7

\* The results of a loop of n rounds that starts from a.
IsLoop(f, n, V, a, step) ==
    /\ f \in [0 .. n -> V] /\ f[0] = a
    /\ \A i \in 1 .. n : f[i] = step[i][f[i - 1]]

Rounds(n, V) == [1 .. n -> [V -> V]]

\* A loop has a result after each of its rounds.
LEMMA LoopExists ==
  ASSUME NEW n \in Nat, NEW V, NEW a \in V, NEW step \in Rounds(n, V)
  PROVE  \E f : IsLoop(f, n, V, a, step)
<1> USE DEF Rounds
<1> DEFINE Loop(k) == {f \in [0 .. k -> V] :
                          f[0] = a /\ \A i \in 1 .. k : f[i] = step[i][f[i - 1]]}
           D == {k \in 0 .. n : Loop(k) # {}}
<1>1. 0 \in D
  <2>1. [i \in 0 .. 0 |-> a] \in Loop(0)
    OBVIOUS
  <2> QED BY <2>1
<1>2. ASSUME NEW k \in 1 .. n, k - 1 \in D PROVE k \in D
  <2>1. PICK f \in Loop(k - 1) : TRUE
    BY <1>2
  <2>2. f \in [0 .. k - 1 -> V] /\ f[0] = a
        /\ \A i \in 1 .. k - 1 : f[i] = step[i][f[i - 1]]
    BY <2>1
  <2> DEFINE g == [i \in 0 .. k |-> IF i = k THEN step[k][f[k - 1]] ELSE f[i]]
  <2>3. f[k - 1] \in V /\ k \in 1 .. n
    BY <2>2
  <2>4. step[k][f[k - 1]] \in V
    BY <2>3
  <2>5. g \in [0 .. k -> V]
    BY <2>2, <2>4
  <2>6. g[0] = a
    BY <2>2
  <2>7. ASSUME NEW i \in 1 .. k PROVE g[i] = step[i][g[i - 1]]
    <3>1. CASE i = k
      <4>1. g[i] = step[k][f[k - 1]] /\ g[i - 1] = f[k - 1]
        BY <3>1
      <4> QED BY <4>1, <3>1
    <3>2. CASE i # k
      <4>1. g[i] = f[i] /\ g[i - 1] = f[i - 1] /\ i \in 1 .. k - 1
        BY <3>2
      <4> QED BY <4>1, <2>2
    <3> QED BY <3>1, <3>2
  <2>8. g \in Loop(k)
    <3> HIDE DEF g
    <3> QED BY <2>5, <2>6, <2>7
  <2> QED BY <2>8, SMTT(30)
<1>3. n \in D
  <2>1. \A k \in 0 .. n : k \in D
    <3> HIDE DEF D
    <3> QED BY <1>1, <1>2, UpTo
  <2> QED BY <2>1
<1>4. PICK f \in Loop(n) : TRUE
  BY <1>3
<1> QED BY <1>4 DEF IsLoop

-----------------------------------------------------------------------------
(* The last timestamp of a sequence of tokens. *)

\* A bounded set of positions has a greatest element.
LEMMA GreatestExists ==
  ASSUME NEW n \in Nat, NEW S \in SUBSET (1 .. n), S # {}
  PROVE  \E i \in S : \A j \in S : j <= i
<1> DEFINE T == {n - i : i \in S}
           Less == {ss \in Nat \X Nat : ss[1] < ss[2]}
<1>1. IsWellFoundedOn(Less, Nat)
  BY NatLessThanWellFounded DEF OpToRel
<1>2. T \subseteq Nat /\ T # {}
  <2>1. \A i \in S : n - i \in Nat
    OBVIOUS
  <2> QED BY <2>1
<1>3. PICK x \in T : \A y \in T : <<y, x>> \notin Less
  <2> HIDE DEF T, Less
  <2> QED BY <1>1, <1>2, WFMin
<1>4. PICK i \in S : x = n - i
  OBVIOUS
<1>5. \A j \in S : <<n - j, n - i>> \notin Less
  BY <1>3, <1>4
<1>6. \A j \in S : n - j \in Nat
  OBVIOUS
<1>7. \A j \in S : ~ (n - j < n - i)
  BY <1>5, <1>6
<1> QED BY <1>7

TimestampsAt(s) == {i \in DOMAIN s : IsTimestamp(s[i])}
Newest(s) == CHOOSE i \in TimestampsAt(s) : \A j \in TimestampsAt(s) : j <= i

LEMMA NewestIsLast ==
  ASSUME NEW s \in Seq(Tokens), TimestampsAt(s) # {}
  PROVE  /\ Newest(s) \in TimestampsAt(s)
         /\ \A j \in TimestampsAt(s) : j <= Newest(s)
         /\ LastTimestamp(s) = s[Newest(s)] - TimestampBegin
         /\ LastTimestamp(s) \in Nat
<1>1. TimestampsAt(s) \subseteq 1 .. Len(s) /\ Len(s) \in Nat
  BY DEF TimestampsAt
<1>2. \E i \in TimestampsAt(s) : \A j \in TimestampsAt(s) : j <= i
  BY <1>1, GreatestExists
<1>3. /\ Newest(s) \in TimestampsAt(s)
      /\ \A j \in TimestampsAt(s) : j <= Newest(s)
  BY <1>2 DEF Newest
<1>4. LastTimestamp(s) = s[Newest(s)] - TimestampBegin
  BY DEF LastTimestamp, Newest, TimestampsAt
<1>5. s[Newest(s)] \in Tokens /\ IsTimestamp(s[Newest(s)])
  BY <1>3 DEF TimestampsAt
<1>6. s[Newest(s)] - TimestampBegin \in Nat
  BY <1>5, TokensAssumption DEF Tokens, IsTimestamp, TimestampBegin
<1> QED BY <1>3, <1>4, <1>6

LEMMA LastTimestampType ==
  ASSUME NEW s \in Seq(Tokens)
  PROVE  /\ LastTimestamp(s) \in Int /\ LastTimestamp(s) >= NoTimestamp
         /\ LastTimestamp(s) # NoTimestamp <=> TimestampsAt(s) # {}
<1>1. CASE TimestampsAt(s) = {}
  BY <1>1 DEF LastTimestamp, TimestampsAt, NoTimestamp
<1>2. CASE TimestampsAt(s) # {}
  BY <1>2, NewestIsLast DEF NoTimestamp
<1> QED BY <1>1, <1>2

\* What a pass appends decides the seek point, if it has a timestamp.
LEMMA LastTimestampOfConcat ==
  ASSUME NEW s \in Seq(Tokens), NEW t \in Seq(Tokens), LastTimestamp(t) # NoTimestamp
  PROVE  LastTimestamp(s \o t) = LastTimestamp(t)
<1> DEFINE u == s \o t
<1>1. /\ u \in Seq(Tokens) /\ Len(u) = Len(s) + Len(t)
      /\ \A i \in 1 .. Len(u) : u[i] = IF i <= Len(s) THEN s[i] ELSE t[i - Len(s)]
  BY ConcatProperties
<1>2. Len(s) \in Nat /\ Len(t) \in Nat /\ DOMAIN u = 1 .. Len(u) /\ DOMAIN t = 1 .. Len(t)
  BY <1>1
<1> HIDE DEF u
<1>3. TimestampsAt(t) # {}
  BY LastTimestampType
<1>4. /\ Newest(t) \in 1 .. Len(t) /\ IsTimestamp(t[Newest(t)])
      /\ \A j \in TimestampsAt(t) : j <= Newest(t)
      /\ LastTimestamp(t) = t[Newest(t)] - TimestampBegin
  BY <1>2, <1>3, NewestIsLast DEF TimestampsAt
<1>5. /\ Len(s) + Newest(t) \in 1 .. Len(u)
      /\ u[Len(s) + Newest(t)] = t[Newest(t)]
  BY <1>1, <1>2, <1>4
<1>6. Len(s) + Newest(t) \in TimestampsAt(u)
  BY <1>2, <1>4, <1>5 DEF TimestampsAt
<1>7. /\ Newest(u) \in 1 .. Len(u) /\ IsTimestamp(u[Newest(u)])
      /\ Newest(u) >= Len(s) + Newest(t)
      /\ LastTimestamp(u) = u[Newest(u)] - TimestampBegin
  <2>1. /\ Newest(u) \in TimestampsAt(u)
        /\ \A j \in TimestampsAt(u) : j <= Newest(u)
        /\ LastTimestamp(u) = u[Newest(u)] - TimestampBegin
    BY <1>1, <1>6, NewestIsLast
  <2> QED BY <1>2, <1>4, <1>6, <2>1 DEF TimestampsAt
<1>8. u[Newest(u)] = t[Newest(u) - Len(s)] /\ Newest(u) - Len(s) \in 1 .. Len(t)
  BY <1>1, <1>2, <1>4, <1>7
<1>9. Newest(u) - Len(s) <= Newest(t)
  BY <1>2, <1>4, <1>7, <1>8 DEF TimestampsAt
<1>10. Newest(u) - Len(s) = Newest(t)
  BY <1>2, <1>4, <1>7, <1>8, <1>9
<1> QED BY <1>4, <1>7, <1>8, <1>10 DEF u

-----------------------------------------------------------------------------
(* The prompt of a pass. *)

LEMMA BasePromptType ==
  BasePrompt \in Seq(Tokens) /\ Len(BasePrompt) \in {3, 4}
<1> DEFINE n == IF notimestamps THEN 4 ELSE 3
<1>1. n \in {3, 4} /\ Control \in Tokens
  BY TokensAssumption DEF Control, EOT, Tokens
<1>2. BasePrompt = [i \in 1 .. n |-> Control]
  BY DEF BasePrompt
<1> HIDE DEF n
<1>3. BasePrompt \in Seq(Tokens) /\ Len(BasePrompt) = n
  BY <1>1, <1>2
<1> QED BY <1>1, <1>3

Kept == IF Len(accumulated) > Budget THEN Budget ELSE Len(accumulated)
Context == SubSeq(accumulated, Len(accumulated) - Kept + 1, Len(accumulated))

LEMMA PassPromptType ==
  ASSUME accumulated \in Seq(Tokens)
  PROVE  /\ PassPrompt = BasePrompt \o Context
         /\ Context \in Seq(Tokens) /\ PassPrompt \in Seq(Tokens)
         /\ Kept \in 0 .. Len(accumulated) /\ Len(Context) = Kept
         /\ Len(PassPrompt) = Len(BasePrompt) + Kept
         /\ Len(PassPrompt) + Reserve <= T_CACHE
         /\ \A k \in 1 .. Kept : Context[k] = accumulated[Len(accumulated) - Kept + k]
<1>1. BasePrompt \in Seq(Tokens) /\ Len(BasePrompt) \in {3, 4}
  BY BasePromptType
<1>2. Budget \in Nat /\ Budget + Len(BasePrompt) + Reserve = T_CACHE
  <2>1. T_CACHE \in Nat /\ Reserve \in Nat /\ T_CACHE > Reserve + 4
    BY LimitsAssumption
  <2>2. T_CACHE - (Len(BasePrompt) + Reserve) > 0
    <3> DEFINE n == Len(BasePrompt)
    <3>1. n = 3 \/ n = 4
      BY <1>1
    <3> HIDE DEF n
    <3>2. T_CACHE - (n + Reserve) > 0
      BY <2>1, <3>1
    <3> QED BY <3>2 DEF n
  <2>3. Budget = T_CACHE - (Len(BasePrompt) + Reserve)
    BY <2>2 DEF Budget
  <2> QED BY <1>1, <2>1, <2>2, <2>3
<1>3. Len(accumulated) \in Nat
  OBVIOUS
<1>4. Kept \in 0 .. Len(accumulated) /\ Kept <= Budget
  BY <1>2, <1>3 DEF Kept
<1>5. /\ Context \in Seq(Tokens) /\ Len(Context) = Kept
      /\ \A k \in 1 .. Kept : Context[k] = accumulated[Len(accumulated) - Kept + k]
  <2>1. \A i \in (Len(accumulated) - Kept + 1) .. Len(accumulated) : accumulated[i] \in Tokens
    BY <1>3, <1>4
  <2>2. /\ Context \in Seq(Tokens)
        /\ Len(Context) = IF Len(accumulated) - Kept + 1 <= Len(accumulated)
                          THEN Len(accumulated) - (Len(accumulated) - Kept + 1) + 1 ELSE 0
        /\ \A k \in 1 .. Len(accumulated) - (Len(accumulated) - Kept + 1) + 1 :
             Context[k] = accumulated[(Len(accumulated) - Kept + 1) + k - 1]
    BY <1>3, <1>4, <2>1, SubSeqProperties DEF Context
  <2>3. Len(Context) = Kept
    BY <1>3, <1>4, <2>2
  <2>4. \A k \in 1 .. Kept : Context[k] = accumulated[Len(accumulated) - Kept + k]
    BY <1>3, <1>4, <2>2
  <2> QED BY <2>2, <2>3, <2>4
<1>6. PassPrompt = BasePrompt \o Context
  BY DEF PassPrompt, Context, Kept
<1>7. PassPrompt \in Seq(Tokens) /\ Len(PassPrompt) = Len(BasePrompt) + Kept
  BY <1>1, <1>5, <1>6, ConcatProperties
<1>8. Len(PassPrompt) + Reserve <= T_CACHE
  <2> DEFINE b == Len(BasePrompt)
             p == Len(PassPrompt)
  <2>1. b \in Nat /\ Reserve \in Nat /\ T_CACHE \in Nat /\ Kept \in Nat /\ Budget \in Nat
    BY <1>1, <1>2, <1>3, <1>4, LimitsAssumption
  <2>2. p = b + Kept /\ Budget + b + Reserve = T_CACHE /\ Kept <= Budget
    BY <1>2, <1>4, <1>7
  <2> HIDE DEF b, p
  <2>3. p + Reserve <= T_CACHE
    BY <2>1, <2>2
  <2> QED BY <2>3 DEF p
<1> QED BY <1>4, <1>5, <1>6, <1>7, <1>8

-----------------------------------------------------------------------------
(* The inductive invariant. *)

TokensInv ==
  /\ max_new_tokens \in Nat /\ beam \in BOOLEAN /\ notimestamps \in BOOLEAN
  /\ accumulated \in Seq(Tokens) /\ prompt \in Seq(Tokens) /\ generated \in Seq(Tokens)
  /\ pass \in Nat /\ pc \in {"seek", "generate", "done", "failed"}

PromptInv == pc = "generate" => prompt = PassPrompt

\* Every pass that led to another moved the last timestamp.
SeekInv ==
  /\ pc = "generate" => pass >= 1
  /\ pc = "seek" /\ pass >= 1 => LastTimestamp(accumulated) >= pass - 1
  /\ pc = "generate" /\ pass >= 2 => LastTimestamp(accumulated) >= pass - 2

\* Without timestamps there are none to go on from.
ModeInv ==
  notimestamps =>
    /\ \A i \in DOMAIN generated : ~IsTimestamp(generated[i])
    /\ pass <= 1 /\ (pc = "seek" => pass = 0)

IInv == TokensInv /\ PromptInv /\ SeekInv /\ ModeInv

LEMMA InitIInv == Init => IInv
<1> SUFFICES ASSUME Init PROVE IInv
  OBVIOUS
<1>1. << >> \in Seq(Tokens)
  OBVIOUS
<1> QED BY <1>1, RequestsAssumption DEF Init, IInv, TokensInv, PromptInv, SeekInv, ModeInv

LEMMA StartPassKeepsIInv == IInv /\ StartPass => IInv'
<1> SUFFICES ASSUME IInv, StartPass PROVE IInv'
  OBVIOUS
<1> USE DEF IInv, StartPass, request
<1>1. PassPrompt \in Seq(Tokens) /\ PassPrompt' = PassPrompt
  BY PassPromptType DEF TokensInv, PassPrompt, Budget, BasePrompt
<1>2. TokensInv'
  BY <1>1 DEF TokensInv
<1>3. PromptInv'
  BY <1>1 DEF PromptInv
<1>4. LastTimestamp(accumulated)' = LastTimestamp(accumulated) /\ pass \in Nat
  BY DEF TokensInv
<1>5. SeekInv'
  BY <1>4 DEF SeekInv
<1>6. ModeInv'
  BY DEF ModeInv, TokensInv
<1> QED BY <1>2, <1>3, <1>5, <1>6

\* What a token of the pass does to the pass.
LEMMA GeneratedStays ==
  ASSUME IInv, pc = "generate", NEW t \in Allowed(generated), NEW s,
         s = IF t = EOT THEN generated ELSE Append(generated, t)
  PROVE  /\ s \in Seq(Tokens)
         /\ notimestamps => \A i \in DOMAIN s : ~IsTimestamp(s[i])
<1> USE DEF IInv, TokensInv
<1>1. t \in Tokens /\ (notimestamps => ~IsTimestamp(t))
  BY DEF Allowed
<1>2. CASE s = generated
  BY <1>2 DEF ModeInv
<1>3. CASE s = Append(generated, t)
  <2>1. /\ s \in Seq(Tokens) /\ Len(s) = Len(generated) + 1
        /\ \A i \in 1 .. Len(generated) : s[i] = generated[i]
        /\ s[Len(generated) + 1] = t
    BY <1>1, <1>3, AppendProperties
  <2>2. ASSUME notimestamps, NEW i \in DOMAIN s PROVE ~IsTimestamp(s[i])
    <3>1. Len(generated) \in Nat /\ i \in 1 .. Len(generated) + 1
      BY <2>1
    <3>2. CASE i = Len(generated) + 1
      BY <1>1, <2>1, <2>2, <3>2
    <3>3. CASE i \in 1 .. Len(generated)
      BY <2>1, <2>2, <3>3 DEF ModeInv
    <3> QED BY <3>1, <3>2, <3>3
  <2> QED BY <2>1, <2>2
<1> QED BY <1>2, <1>3

\* What a pass leaves is what the loop goes on from.
LEMMA EndPassKeepsIInv ==
  ASSUME IInv, pc = "generate", NEW s \in Seq(Tokens), EndPass(s), generated' = s,
         UNCHANGED <<request, prompt, pass>>,
         notimestamps => \A i \in DOMAIN s : ~IsTimestamp(s[i])
  PROVE  IInv'
<1> USE DEF IInv, request
<1>1. accumulated' = accumulated \o s /\ accumulated' \in Seq(Tokens)
  BY ConcatProperties DEF EndPass, TokensInv
<1>2. pc' \in {"seek", "done"} /\ (pc' = "seek" => Continues(s))
  BY DEF EndPass
<1>3. TokensInv'
  BY <1>1, <1>2 DEF TokensInv
<1>4. PromptInv'
  BY <1>2 DEF PromptInv
<1>5. SeekInv'
  <2> SUFFICES ASSUME pc' = "seek" PROVE LastTimestamp(accumulated') >= pass - 1
    BY <1>2 DEF SeekInv
  <2>1. /\ LastTimestamp(s) # NoTimestamp
        /\ LastTimestamp(accumulated) < LastTimestamp(s)
    BY <1>2 DEF Continues
  <2>2. LastTimestamp(accumulated') = LastTimestamp(s)
    BY <1>1, <2>1, LastTimestampOfConcat DEF TokensInv
  <2>3. /\ LastTimestamp(s) \in Int /\ LastTimestamp(s) >= NoTimestamp
        /\ LastTimestamp(accumulated) \in Int
    BY LastTimestampType DEF TokensInv
  <2>4. pass \in Nat /\ pass >= 1 /\ (pass >= 2 => LastTimestamp(accumulated) >= pass - 2)
    BY DEF SeekInv, TokensInv
  <2> QED BY <2>1, <2>2, <2>3, <2>4 DEF NoTimestamp
<1>6. ModeInv'
  <2> SUFFICES ASSUME notimestamps
               PROVE  /\ \A i \in DOMAIN s : ~IsTimestamp(s[i])
                      /\ pass <= 1 /\ pc' # "seek"
    BY DEF ModeInv
  <2>1. LastTimestamp(s) = NoTimestamp
    BY LastTimestampType DEF TimestampsAt
  <2> QED BY <1>2, <2>1 DEF Continues, ModeInv
<1> QED BY <1>3, <1>4, <1>5, <1>6

LEMMA GenerateKeepsIInv == IInv /\ Generate => IInv'
<1> SUFFICES ASSUME IInv, Generate PROVE IInv'
  OBVIOUS
<1> PICK t \in Allowed(generated) :
       LET s == IF t = EOT THEN generated ELSE Append(generated, t) IN
       IF t = EOT \/ ~GoesOn(s)
       THEN EndPass(s) /\ generated' = s /\ UNCHANGED cache
       ELSE /\ generated' = s
            /\ cache' = DecoderStep(cache, <<pass, Len(prompt) + Len(s)>>)
            /\ UNCHANGED <<accumulated, pc>>
  BY DEF Generate
<1> DEFINE s == IF t = EOT THEN generated ELSE Append(generated, t)
<1>1. /\ pc = "generate" /\ UNCHANGED <<request, prompt, pass>>
      /\ generated' = s /\ (EndPass(s) \/ UNCHANGED <<accumulated, pc>>)
  BY DEF Generate
<1>2. /\ s \in Seq(Tokens)
      /\ notimestamps => \A i \in DOMAIN s : ~IsTimestamp(s[i])
  BY <1>1, GeneratedStays
<1> HIDE DEF s
<1>3. CASE UNCHANGED <<accumulated, pc>>
  <2> USE DEF IInv, request
  <2>1. TokensInv'
    BY <1>1, <1>2, <1>3 DEF TokensInv
  <2>2. PromptInv'
    BY <1>1, <1>3 DEF PromptInv, PassPrompt, Budget, BasePrompt
  <2>3. SeekInv'
    BY <1>1, <1>3 DEF SeekInv
  <2>4. ModeInv'
    BY <1>1, <1>2, <1>3 DEF ModeInv
  <2> QED BY <2>1, <2>2, <2>3, <2>4
<1>4. CASE EndPass(s)
  BY <1>1, <1>2, <1>4, EndPassKeepsIInv
<1> QED BY <1>1, <1>3, <1>4

LEMMA GenerateBeamKeepsIInv == IInv /\ GenerateBeam => IInv'
<1> SUFFICES ASSUME IInv, GenerateBeam PROVE IInv'
  OBVIOUS
<1> DEFINE s == generated'
<1>1. /\ pc = "generate" /\ EndPass(s) /\ UNCHANGED <<request, prompt, pass>>
      /\ s \in BeamResults
  BY DEF GenerateBeam
<1>2. PICK n \in 1 .. max_new_tokens : s \in [1 .. n -> Tokens]
  BY <1>1 DEF BeamResults
<1>3. n \in Nat
  BY <1>2 DEF IInv, TokensInv
<1>4. s \in Seq(Tokens)
  BY <1>2, <1>3
<1>5. notimestamps => \A i \in DOMAIN s : ~IsTimestamp(s[i])
  BY <1>1 DEF BeamResults, Searched, Allowed
<1> HIDE DEF s
<1> QED BY <1>1, <1>4, <1>5, EndPassKeepsIInv DEF s

\* The other steps only end the loop.
LEMMA EndKeepsIInv == IInv /\ (GiveUp \/ StepFails \/ UNCHANGED vars) => IInv'
<1> SUFFICES ASSUME IInv, GiveUp \/ StepFails \/ UNCHANGED vars PROVE IInv'
  OBVIOUS
<1>1. /\ UNCHANGED <<max_new_tokens, beam, notimestamps, accumulated, prompt, generated, pass>>
      /\ pc' \in {"done", "failed"} \/ pc' = pc
  BY DEF GiveUp, StepFails, vars, request
<1>2. TokensInv'
  BY <1>1 DEF IInv, TokensInv
<1>3. PromptInv'
  BY <1>1 DEF IInv, PromptInv, PassPrompt, Budget, BasePrompt
<1>4. SeekInv'
  BY <1>1 DEF IInv, SeekInv
<1>5. ModeInv'
  BY <1>1 DEF IInv, ModeInv
<1> QED BY <1>2, <1>3, <1>4, <1>5 DEF IInv

THEOREM InductiveInvariant == Spec => []IInv
<1>1. IInv /\ [Next]_vars => IInv'
  BY StartPassKeepsIInv, GenerateKeepsIInv, GenerateBeamKeepsIInv, EndKeepsIInv DEF Next
<1> QED BY InitIInv, <1>1, PTL DEF Spec

-----------------------------------------------------------------------------
\* Every pass of the seek loop (whisper.rs:264) after the first began past the
\* point the one before had reached, whatever the network answers.
THEOREM PassesAdvance == Spec => []EveryPassAdvances
<1>1. IInv => EveryPassAdvances
  BY DEF IInv, SeekInv, EveryPassAdvances
<1> QED BY InductiveInvariant, <1>1, PTL

\* With options.notimestamps the seek loop makes one pass (whisper.rs:258).
THEOREM OnePass == Spec => []OnePassWithoutTimestamps
<1>1. IInv => OnePassWithoutTimestamps
  BY DEF IInv, ModeInv, OnePassWithoutTimestamps
<1> QED BY InductiveInvariant, <1>1, PTL

\* A prompt keeps the control tokens, takes the newest tokens of earlier passes
\* and leaves the room that whisper.rs:265 promises.
THEOREM RoomAlways == Spec => []RoomToGenerate
<1>1. IInv => RoomToGenerate
  <2> SUFFICES ASSUME IInv, pc = "generate"
               PROVE  /\ Len(prompt) + Reserve <= T_CACHE
                      /\ IsPrefix(BasePrompt, prompt)
                      /\ IsSuffix(SubSeq(prompt, Len(BasePrompt) + 1, Len(prompt)), accumulated)
    BY DEF RoomToGenerate
  <2>1. accumulated \in Seq(Tokens) /\ prompt = PassPrompt
    BY DEF IInv, TokensInv, PromptInv
  <2>2. BasePrompt \in Seq(Tokens) /\ Context \in Seq(Tokens) /\ prompt \in Seq(Tokens)
    BY <2>1, BasePromptType, PassPromptType
  <2>3. /\ prompt = BasePrompt \o Context /\ Len(Context) = Kept
        /\ Kept \in 0 .. Len(accumulated) /\ Len(prompt) = Len(BasePrompt) + Kept
        /\ \A k \in 1 .. Kept : Context[k] = accumulated[Len(accumulated) - Kept + k]
    BY <2>1, PassPromptType
  <2>4. Len(prompt) + Reserve <= T_CACHE
    BY <2>1, PassPromptType
  <2>5. IsPrefix(BasePrompt, prompt)
    <3>1. Len(BasePrompt) \in Nat /\ Len(BasePrompt) <= Len(prompt)
      BY <2>2, <2>3
    <3>2. SubSeq(prompt, 1, Len(BasePrompt)) = SubSeq(BasePrompt, 1, Len(BasePrompt))
      BY <2>2, <2>3, <3>1, SubSeqOfConcat1
    <3> QED BY <3>1, <3>2 DEF IsPrefix
  <2>6. SubSeq(prompt, Len(BasePrompt) + 1, Len(prompt)) = Context
    <3>1. Len(BasePrompt) \in Nat /\ Len(Context) \in Nat /\ Len(prompt) = Len(BasePrompt) + Len(Context)
      BY <2>2, <2>3
    <3>2. SubSeq(prompt, Len(BasePrompt) + 1, Len(prompt)) = SubSeq(Context, 1, Len(Context))
      BY <2>2, <2>3, <3>1, SubSeqOfConcat2
    <3> QED BY <2>2, <3>2, SubSeqFull
  <2>7. IsSuffix(Context, accumulated)
    <3> DEFINE c == Reverse(Context)
               a == Reverse(accumulated)
    <3>1. /\ c \in Seq(Tokens) /\ Len(c) = Kept
          /\ \A i \in 1 .. Kept : c[i] = Context[Kept - i + 1]
      BY <2>2, <2>3 DEF Reverse
    <3>2. /\ a \in Seq(Tokens) /\ Len(a) = Len(accumulated)
          /\ \A i \in 1 .. Len(accumulated) : a[i] = accumulated[Len(accumulated) - i + 1]
      BY <2>1 DEF Reverse
    <3> HIDE DEF c, a
    <3>3. \A i \in 1 .. Kept : c[i] = a[i]
      <4> SUFFICES ASSUME NEW i \in 1 .. Kept PROVE c[i] = a[i]
        OBVIOUS
      <4>1. Kept - i + 1 \in 1 .. Kept /\ i \in 1 .. Len(accumulated)
        BY <2>1, <2>3
      <4>2. c[i] = accumulated[Len(accumulated) - Kept + (Kept - i + 1)]
        BY <2>3, <3>1, <4>1
      <4>3. Len(accumulated) - Kept + (Kept - i + 1) = Len(accumulated) - i + 1
        BY <2>1, <2>3
      <4> QED BY <3>2, <4>1, <4>2, <4>3
    <3>4. SubSeq(c, 1, Kept) = SubSeq(a, 1, Kept)
      <4>1. Kept \in Nat /\ Kept <= Len(accumulated) /\ Len(accumulated) \in Nat
        BY <2>1, <2>3
      <4>2. /\ SubSeq(c, 1, Kept) = [i \in 1 .. Kept |-> c[i]]
            /\ SubSeq(a, 1, Kept) = [i \in 1 .. Kept |-> a[i]]
        BY <3>1, <3>2, <4>1
      <4> QED BY <3>3, <4>2
    <3> QED BY <2>3, <3>1, <3>2, <3>4 DEF IsSuffix, IsPrefix, c, a
  <2> QED BY <2>4, <2>5, <2>6, <2>7
<1> QED BY InductiveInvariant, <1>1, PTL

-----------------------------------------------------------------------------
(* The beam search inside the loop. *)

\* Tokens a beam may have while it is searched on.
Path(s) ==
  /\ s \in Seq(Tokens)
  /\ \A i \in DOMAIN s : s[i] \in Allowed(SubSeq(s, 1, i - 1)) /\ s[i] # EOT

\* A path and one token more.
LEMMA PathAppend ==
  ASSUME NEW s, Path(s), NEW t \in Allowed(s)
  PROVE  /\ Append(s, t) \in Seq(Tokens)
         /\ Len(Append(s, t)) = Len(s) + 1 /\ Append(s, t)[Len(s) + 1] = t
         /\ \A i \in 1 .. Len(s) : Append(s, t)[i] = s[i] /\ s[i] # EOT
         /\ \A i \in DOMAIN Append(s, t) :
              Append(s, t)[i] \in Allowed(SubSeq(Append(s, t), 1, i - 1))
<1> DEFINE u == Append(s, t)
<1>1. s \in Seq(Tokens) /\ t \in Tokens /\ Len(s) \in Nat
  BY DEF Path, Allowed
<1>2. /\ u \in Seq(Tokens) /\ Len(u) = Len(s) + 1 /\ u[Len(s) + 1] = t
      /\ \A i \in 1 .. Len(s) : u[i] = s[i]
  BY <1>1, AppendProperties
<1>3. DOMAIN s = 1 .. Len(s) /\ DOMAIN u = 1 .. Len(u)
  BY <1>1, <1>2
<1> HIDE DEF u
<1>4. ASSUME NEW i \in 1 .. Len(s) + 1
      PROVE  SubSeq(u, 1, i - 1) = SubSeq(s, 1, i - 1)
  <2>1. i - 1 \in 0 .. Len(s)
    BY <1>1
  <2>2. \A k \in 1 .. i - 1 : u[k] = s[k]
    BY <1>1, <1>2, <2>1
  <2> QED BY <1>1, <1>2, <2>1, <2>2
<1>5. SubSeq(s, 1, Len(s)) = s
  BY <1>1, SubSeqFull
<1>6. ASSUME NEW i \in DOMAIN u
      PROVE  u[i] \in Allowed(SubSeq(u, 1, i - 1))
  <2>1. i \in 1 .. Len(s) + 1
    BY <1>2, <1>3
  <2>2. CASE i = Len(s) + 1
    <3>1. SubSeq(u, 1, i - 1) = s
      BY <1>1, <1>4, <1>5, <2>1, <2>2
    <3> QED BY <1>2, <2>2, <3>1
  <2>3. CASE i \in 1 .. Len(s)
    BY <1>2, <1>3, <1>4, <2>1, <2>3 DEF Path
  <2> QED BY <1>1, <2>1, <2>2, <2>3
<1> QED BY <1>2, <1>3, <1>6 DEF u, Path

LEMMA PathGrows ==
  ASSUME NEW s, Path(s), NEW t \in Allowed(s), t # EOT
  PROVE  Path(Append(s, t)) /\ Len(Append(s, t)) = Len(s) + 1
<1> DEFINE u == Append(s, t)
<1>1. /\ u \in Seq(Tokens) /\ Len(u) = Len(s) + 1 /\ u[Len(s) + 1] = t
      /\ \A i \in 1 .. Len(s) : u[i] = s[i] /\ s[i] # EOT
      /\ \A i \in DOMAIN u : u[i] \in Allowed(SubSeq(u, 1, i - 1))
  BY PathAppend
<1>2. Len(s) \in Nat
  BY DEF Path
<1> HIDE DEF u
<1>3. \A i \in DOMAIN u : u[i] # EOT
  <2> SUFFICES ASSUME NEW i \in DOMAIN u PROVE u[i] # EOT
    OBVIOUS
  <2>1. i \in 1 .. Len(s) \/ i = Len(s) + 1
    BY <1>1, <1>2
  <2> QED BY <1>1, <2>1
<1> QED BY <1>1, <1>3 DEF Path, u

LEMMA PathEnds ==
  ASSUME NEW s, Path(s), NEW t \in Allowed(s), t = EOT,
         max_new_tokens \in Nat, Len(s) < max_new_tokens
  PROVE  Append(s, t) \in BeamResults
<1> DEFINE u == Append(s, t)
<1>1. /\ u \in Seq(Tokens) /\ Len(u) = Len(s) + 1 /\ u[Len(s) + 1] = t
      /\ \A i \in 1 .. Len(s) : u[i] = s[i] /\ s[i] # EOT
      /\ \A i \in DOMAIN u : u[i] \in Allowed(SubSeq(u, 1, i - 1))
  BY PathAppend
<1>2. Len(s) \in Nat
  BY DEF Path
<1> HIDE DEF u
<1>3. Len(u) \in 1 .. max_new_tokens /\ u \in [1 .. Len(u) -> Tokens]
  BY <1>1, <1>2
<1>4. \A i \in DOMAIN u : u[i] = EOT => i = Len(u)
  <2> SUFFICES ASSUME NEW i \in DOMAIN u, i # Len(u) PROVE u[i] # EOT
    OBVIOUS
  <2>1. i \in 1 .. Len(s)
    BY <1>1, <1>2
  <2> QED BY <1>1, <2>1
<1>5. Searched(u)
  BY <1>1, <1>4 DEF Searched
<1> QED BY <1>3, <1>5 DEF BeamResults, u

LEMMA PathIsUsedUp ==
  ASSUME NEW s, Path(s), max_new_tokens \in Nat \ {0}, Len(s) = max_new_tokens
  PROVE  s \in BeamResults
<1>1. Len(s) \in 1 .. max_new_tokens /\ s \in [1 .. Len(s) -> Tokens]
  BY DEF Path
<1>2. Searched(s)
  BY DEF Path, Searched
<1> QED BY <1>1, <1>2 DEF BeamResults

-----------------------------------------------------------------------------
(* The search as an invariant. *)

\* Live beams are paths of one length, the number of rounds; the finished ones
\* are results.
SearchInv ==
  /\ max_new_tokens \in Nat
  /\ pc = "generate" /\ beam =>
       /\ max_new_tokens > 0 /\ rounds \in 0 .. max_new_tokens
       /\ \A b \in beams : Path(b.tokens) /\ Len(b.tokens) = rounds
       /\ \A b \in finished : b.tokens \in BeamResults

LEMMA InitSearchInv == BeamInit => SearchInv
  BY RequestsAssumption DEF BeamInit, Init, SearchInv

LEMMA NewSearchKeeps == SearchInv /\ NewSearch => SearchInv'
<1> SUFFICES ASSUME SearchInv, NewSearch PROVE SearchInv'
  OBVIOUS
<1>1. /\ max_new_tokens' = max_new_tokens /\ beam' = beam
      /\ pc' = IF max_new_tokens > 0 THEN "generate" ELSE "done"
  BY DEF NewSearch, StartPass, request
<1>2. /\ beams' = IF beam THEN {[tokens |-> <<>>, state |-> cache']} ELSE {}
      /\ finished' = {} /\ rounds' = 0
  BY DEF NewSearch
<1>3. Path(<<>>)' /\ Len(<<>>) = 0
  BY DEF Path
<1>4. \A b \in beams' : b.tokens = <<>>
  BY <1>2
<1>5. \A b \in beams' : Path(b.tokens)' /\ Len(b.tokens) = 0
  BY <1>3, <1>4
<1> QED BY <1>1, <1>2, <1>5 DEF SearchInv

LEMMA StepBeamsKeeps == SearchInv /\ StepBeams => SearchInv'
<1> SUFFICES ASSUME SearchInv, StepBeams PROVE SearchInv'
  OBVIOUS
<1>1. /\ pc = "generate" /\ beam /\ rounds < max_new_tokens
      /\ rounds' = rounds + 1 /\ UNCHANGED vars
  BY DEF StepBeams, Searching
<1>2. UNCHANGED <<max_new_tokens, notimestamps, pc, beam>>
  BY <1>1 DEF vars, request
<1>3. /\ max_new_tokens \in Nat /\ max_new_tokens > 0 /\ rounds \in 0 .. max_new_tokens
      /\ \A b \in beams : Path(b.tokens) /\ Len(b.tokens) = rounds
      /\ \A b \in finished : b.tokens \in BeamResults
  BY <1>1 DEF SearchInv
<1>4. PICK best \in [1 .. Size -> Candidates] :
        /\ beams' = Children({c \in Range(best) : ~IsLast(c[2])})
        /\ finished' = finished \cup Children({c \in Range(best) : IsLast(c[2])})
  BY DEF StepBeams
<1>5. ASSUME NEW c \in Range(best)
      PROVE  /\ c[1] \in beams /\ c[2] \in Allowed(c[1].tokens)
             /\ Child(c[1], c[2]).tokens = Append(c[1].tokens, c[2])
  <2>1. c \in Candidates
    BY DEF Range
  <2> QED BY <2>1 DEF Candidates, Child
<1>6. ASSUME NEW b \in beams' PROVE Path(b.tokens) /\ Len(b.tokens) = rounds + 1
  <2>1. PICK c \in Range(best) : ~IsLast(c[2]) /\ b = Child(c[1], c[2])
    BY <1>4 DEF Children
  <2>2. /\ b.tokens = Append(c[1].tokens, c[2]) /\ c[2] \in Allowed(c[1].tokens)
        /\ c[2] # EOT /\ Path(c[1].tokens) /\ Len(c[1].tokens) = rounds
    BY <1>3, <1>5, <2>1 DEF IsLast
  <2> QED BY <2>2, PathGrows
<1>7. ASSUME NEW b \in finished' PROVE b.tokens \in BeamResults
  <2>1. CASE b \in finished
    BY <1>3, <2>1
  <2>2. CASE b \notin finished
    <3>1. PICK c \in Range(best) : IsLast(c[2]) /\ b = Child(c[1], c[2])
      BY <1>4, <2>2 DEF Children
    <3>2. /\ b.tokens = Append(c[1].tokens, c[2]) /\ c[2] \in Allowed(c[1].tokens)
          /\ c[2] = EOT /\ Path(c[1].tokens) /\ Len(c[1].tokens) < max_new_tokens
      BY <1>1, <1>3, <1>5, <3>1 DEF IsLast
    <3> QED BY <1>3, <3>2, PathEnds
  <2> QED BY <2>1, <2>2
<1>8. BeamResults' = BeamResults /\ \A s : Path(s)' <=> Path(s)
  BY <1>2 DEF BeamResults, Searched, Path, Allowed
<1>9. rounds' \in 0 .. max_new_tokens
  BY <1>1, <1>3
<1> QED BY <1>1, <1>2, <1>3, <1>6, <1>7, <1>8, <1>9 DEF SearchInv

\* After the other steps there is no search, or it stands still.
LEMMA OthersKeep ==
  SearchInv /\ (EndSearch \/ GiveUp \/ Generate \/ StepFails \/ UNCHANGED searchVars)
    => SearchInv'
<1> SUFFICES ASSUME SearchInv,
                    EndSearch \/ GiveUp \/ Generate \/ StepFails \/ UNCHANGED searchVars
             PROVE  SearchInv'
  OBVIOUS
<1>1. CASE EndSearch \/ GiveUp \/ StepFails
  <2>1. max_new_tokens' = max_new_tokens /\ pc' # "generate"
    BY <1>1 DEF EndSearch, EndPass, GiveUp, StepFails, request
  <2> QED BY <2>1 DEF SearchInv
<1>2. CASE Generate
  <2>1. ~beam /\ beam' = beam /\ max_new_tokens' = max_new_tokens
    BY <1>2 DEF Generate, request
  <2> QED BY <2>1 DEF SearchInv
<1>3. CASE UNCHANGED searchVars
  <2>1. UNCHANGED <<max_new_tokens, notimestamps, pc, beam, beams, finished, rounds>>
    BY <1>3 DEF searchVars, vars, request, beamVars
  <2> QED BY <2>1 DEF SearchInv, BeamResults, Searched, Path, Allowed
<1> QED BY <1>1, <1>2, <1>3

\* What the search gives the loop is what Decoding admits.
LEMMA EndSearchIsAPass == SearchInv /\ EndSearch => GenerateBeam
<1> SUFFICES ASSUME SearchInv, EndSearch PROVE GenerateBeam
  OBVIOUS
<1>1. /\ pc = "generate" /\ beam /\ ~Searching
      /\ UNCHANGED <<request, prompt, cache, pass>>
  BY DEF EndSearch
<1>2. PICK b \in beams \cup finished : generated' = b.tokens /\ EndPass(b.tokens)
  BY DEF EndSearch
<1>3. b.tokens \in BeamResults
  <2>1. CASE b \in finished
    BY <1>1, <2>1 DEF SearchInv
  <2>2. CASE b \in beams
    <3>1. /\ max_new_tokens \in Nat \ {0} /\ rounds \in 0 .. max_new_tokens
          /\ Path(b.tokens) /\ Len(b.tokens) = rounds
      BY <1>1, <2>2 DEF SearchInv
    <3>2. rounds = max_new_tokens
      BY <1>1, <2>2, <3>1 DEF Searching
    <3> QED BY <3>1, <3>2, PathIsUsedUp
  <2> QED BY <2>1, <2>2
<1> QED BY <1>1, <1>2, <1>3 DEF GenerateBeam

\* The search of beam.rs gives transcribe_window_samples (whisper.rs:298-312) a
\* sequence that is admissible token by token and ends with EOT or has used all
\* its tokens: the seek loop cannot tell it from a single path.
THEOREM BeamImplementsDecoding == BeamSpec => ImplementsDecoding
<1>1. BeamInit => Init
  BY DEF BeamInit
<1>2. SearchInv /\ [BeamNext]_searchVars => SearchInv'
  BY NewSearchKeeps, StepBeamsKeeps, OthersKeep DEF BeamNext
<1>3. SearchInv /\ [BeamNext]_searchVars => [Next]_vars
  <2> SUFFICES ASSUME SearchInv, [BeamNext]_searchVars PROVE [Next]_vars
    OBVIOUS
  <2>1. CASE NewSearch
    BY <2>1 DEF NewSearch, Next
  <2>2. CASE StepBeams
    BY <2>2 DEF StepBeams
  <2>3. CASE EndSearch
    BY <2>3, EndSearchIsAPass DEF Next
  <2>4. CASE (GiveUp \/ Generate) \/ StepFails
    BY <2>4 DEF Next
  <2>5. CASE UNCHANGED searchVars
    BY <2>5 DEF searchVars
  <2> QED BY <2>1, <2>2, <2>3, <2>4, <2>5 DEF BeamNext
<1> QED BY InitSearchInv, <1>1, <1>2, <1>3, PTL DEF BeamSpec, Spec, ImplementsDecoding

\* Whatever the network answers, greedy or with a beam, each pass of the seek
\* loop (whisper.rs:264) after the first began past the point the one before
\* had reached.
THEOREM SearchAdvances == BeamSpec => []EveryPassAdvances
  BY BeamImplementsDecoding, PassesAdvance DEF ImplementsDecoding

\* Each prompt keeps the control tokens, takes the newest tokens of earlier
\* passes and leaves the room that whisper.rs:265 promises.
THEOREM RoomForSearch == BeamSpec => []RoomToGenerate
  BY BeamImplementsDecoding, RoomAlways DEF ImplementsDecoding

-----------------------------------------------------------------------------
(* The slots of the cache. *)

LEMMA CacheIsThere == T_CACHE \in Nat \ {0} /\ Slots = 0 .. T_CACHE - 1
  BY LimitsAssumption DEF Slots

LEMMA SlotDef ==
  ASSUME NEW j \in Nat
  PROVE  /\ j % T_CACHE \in Slots /\ j \div T_CACHE \in Nat
         /\ j = T_CACHE * (j \div T_CACHE) + (j % T_CACHE)
  BY LimitsAssumption DEF Slots

LEMMA SlotUnique ==
  ASSUME NEW q \in Nat, NEW r \in Slots
  PROVE  (T_CACHE * q + r) % T_CACHE = r /\ T_CACHE * q + r \in Nat
<1>1. (T_CACHE * q + r) % T_CACHE = r
  BY CacheIsThere
<1>2. T_CACHE * q + r \in Nat
  BY CacheIsThere
<1> QED BY <1>1, <1>2

\* Tokens less than a cache apart have slots of their own.
LEMMA SlotsApart ==
  ASSUME NEW j \in Nat, NEW k \in Nat, j < k, k < j + T_CACHE
  PROVE  j % T_CACHE # k % T_CACHE
<1> SUFFICES ASSUME j % T_CACHE = k % T_CACHE PROVE FALSE
  OBVIOUS
<1> DEFINE p == j \div T_CACHE
           q == k \div T_CACHE
           r == j % T_CACHE
<1>1. /\ p \in Nat /\ q \in Nat /\ r \in Slots
      /\ j = T_CACHE * p + r /\ k = T_CACHE * q + r
  BY SlotDef
<1>2. \A x, y \in Nat : /\ T_CACHE * x \in Nat
                        /\ x < y => T_CACHE * x + T_CACHE <= T_CACHE * y
  BY CacheIsThere
<1> HIDE DEF p, q, r
<1>3. /\ T_CACHE * p \in Nat /\ T_CACHE * q \in Nat
      /\ p < q => T_CACHE * p + T_CACHE <= T_CACHE * q
      /\ q < p => T_CACHE * q + T_CACHE <= T_CACHE * p
  BY <1>1, <1>2
<1>4. r \in Nat /\ T_CACHE \in Nat
  BY <1>1, CacheIsThere
<1>5. CASE p = q
  BY <1>1, <1>5
<1>6. CASE p # q
  <2> DEFINE P == T_CACHE * p
             Q == T_CACHE * q
  <2>1. P \in Nat /\ Q \in Nat /\ j = P + r /\ k = Q + r
        /\ (P + T_CACHE <= Q \/ Q + T_CACHE <= P)
    BY <1>1, <1>3, <1>6
  <2> HIDE DEF P, Q
  <2> QED BY <1>4, <2>1
<1> QED BY <1>5, <1>6

\* In each slot a token was written that is among the last T_CACHE.
LEMMA SlotIsUsed ==
  ASSUME NEW n \in Nat, n >= T_CACHE, NEW i \in Slots, i # n % T_CACHE
  PROVE  \E j \in n - T_CACHE + 1 .. n - 1 : j \in Nat /\ i = j % T_CACHE
<1> DEFINE q == n \div T_CACHE
           r == n % T_CACHE
           P == T_CACHE * q
<1>1. q \in Nat /\ r \in Slots /\ n = P + r
  BY SlotDef
<1>2. P \in Nat /\ (q - 1 \in Nat => T_CACHE * (q - 1) = P - T_CACHE)
  <2> HIDE DEF q
  <2> QED BY <1>1, CacheIsThere
<1>3. q # 0
  <2>1. q = 0 => P = 0
    BY CacheIsThere
  <2> HIDE DEF P, q, r
  <2> QED BY <1>1, <2>1, CacheIsThere
<1>4. q - 1 \in Nat
  <2> HIDE DEF q
  <2> QED BY <1>1, <1>3
<1>5. CASE i < r
  <2>1. (P + i) % T_CACHE = i
    <3> HIDE DEF q
    <3> QED BY <1>1, SlotUnique
  <2>2. P + i \in n - T_CACHE + 1 .. n - 1 /\ P + i \in Nat
    <3> HIDE DEF P, r
    <3> QED BY <1>1, <1>2, <1>5, CacheIsThere
  <2> QED BY <2>1, <2>2
<1>6. CASE i > r
  <2>1. (T_CACHE * (q - 1) + i) % T_CACHE = i /\ T_CACHE * (q - 1) + i \in Nat
    <3> HIDE DEF q
    <3> QED BY <1>4, SlotUnique
  <2>2. T_CACHE * (q - 1) + i = P - T_CACHE + i
    BY <1>2, <1>4
  <2>3. P - T_CACHE + i \in n - T_CACHE + 1 .. n - 1
    <3> HIDE DEF P, r, q
    <3> QED BY <1>1, <1>2, <1>6, CacheIsThere
  <2> DEFINE x == T_CACHE * (q - 1) + i
  <2>4. x % T_CACHE = i /\ x \in Nat /\ x \in n - T_CACHE + 1 .. n - 1
    BY <2>1, <2>2, <2>3
  <2> HIDE DEF x
  <2> QED BY <2>4
<1> QED
  <2>1. i < r \/ i > r
    <3> HIDE DEF r
    <3>1. i # r
      BY DEF r
    <3> QED BY <1>1, <3>1, CacheIsThere
  <2> QED BY <1>5, <1>6, <2>1

-----------------------------------------------------------------------------
(* What a decoder's state holds. *)

\* After n tokens, called name[1] .. name[n]: each slot has the newest of those
\* that were written there.
Holds(state, n, name) ==
  /\ DOMAIN state.past = Slots /\ state.pos = n
  /\ \A j \in 1 .. n : j + T_CACHE > n => state.past[(j - 1) % T_CACHE] = name[j]

LEMMA HoldsOneMore ==
  ASSUME NEW n \in Nat, NEW name, NEW state, Holds(state, n, name)
  PROVE  Holds(DecoderStep(state, name[n + 1]), n + 1, name)
<1> DEFINE next == DecoderStep(state, name[n + 1])
<1>1. DOMAIN state.past = Slots /\ state.pos = n
      /\ \A j \in 1 .. n : j + T_CACHE > n => state.past[(j - 1) % T_CACHE] = name[j]
  BY DEF Holds
<1>2. /\ next.past = [state.past EXCEPT ![n % T_CACHE] = name[n + 1]]
      /\ next.pos = n + 1
  BY <1>1 DEF DecoderStep
<1>3. n % T_CACHE \in Slots
  BY SlotDef
<1>4. DOMAIN next.past = Slots /\ next.past[n % T_CACHE] = name[n + 1]
      /\ \A i \in Slots : i # n % T_CACHE => next.past[i] = state.past[i]
  BY <1>1, <1>2, <1>3
<1> HIDE DEF next
<1>5. ASSUME NEW j \in 1 .. n + 1, j + T_CACHE > n + 1
      PROVE  next.past[(j - 1) % T_CACHE] = name[j]
  <2>1. CASE j = n + 1
    <3>1. j - 1 = n
      BY <2>1
    <3> QED BY <1>4, <2>1, <3>1
  <2>2. CASE j # n + 1
    <3>1. j \in 1 .. n /\ j - 1 \in Nat /\ j + T_CACHE > n /\ j - 1 < n /\ n < (j - 1) + T_CACHE
      BY <1>5, <2>2, CacheIsThere
    <3>2. (j - 1) % T_CACHE # n % T_CACHE
      BY <3>1, SlotsApart
    <3>3. (j - 1) % T_CACHE \in Slots
      BY <3>1, SlotDef
    <3> QED BY <1>1, <1>4, <3>1, <3>2, <3>3
  <2> QED BY <2>1, <2>2
<1> QED BY <1>2, <1>4, <1>5 DEF Holds, next

\* What is held are the newest tokens, as many as there is room for beside the
\* next, and that is what the network attends to.
LEMMA HoldsNewest ==
  ASSUME NEW n \in Nat, NEW name, NEW state, Holds(state, n, name)
  PROVE  /\ {state.past[i] : i \in Retained(state)}
              = {name[k] : k \in (IF n >= T_CACHE THEN n - T_CACHE + 2 ELSE 1) .. n}
         /\ Attended(state) = Retained(state) \cup {state.pos % T_CACHE}
<1> DEFINE oldest == IF n >= T_CACHE THEN n - T_CACHE + 2 ELSE 1
<1>1. state.pos = n
      /\ \A j \in 1 .. n : j + T_CACHE > n => state.past[(j - 1) % T_CACHE] = name[j]
  BY DEF Holds
<1>2. /\ Retained(state) = {i \in Slots : i # n % T_CACHE /\ (n >= T_CACHE \/ i < n)}
      /\ Attended(state) = {i \in Slots : n >= T_CACHE \/ i <= n}
  BY <1>1 DEF Retained, Attended
<1>3. n % T_CACHE \in Slots
  BY SlotDef
<1>4. \A j \in Nat : j < T_CACHE => j % T_CACHE = j
  BY CacheIsThere
<1>5. Attended(state) = Retained(state) \cup {n % T_CACHE}
  <2>1. CASE n >= T_CACHE
    BY <1>2, <1>3, <2>1
  <2>2. CASE n < T_CACHE
    <3>1. n % T_CACHE = n
      BY <1>4, <2>2
    <3> QED BY <1>2, <1>3, <2>2, <3>1, CacheIsThere
  <2> QED BY <2>1, <2>2, CacheIsThere
<1>6. ASSUME NEW k \in oldest .. n
      PROVE  \E i \in Retained(state) : state.past[i] = name[k]
  <2>1. k \in 1 .. n /\ k - 1 \in Nat /\ k + T_CACHE > n /\ k - 1 < n /\ n < (k - 1) + T_CACHE
    BY <1>6, CacheIsThere
  <2>2. (k - 1) % T_CACHE \in Slots /\ (k - 1) % T_CACHE # n % T_CACHE
    BY <2>1, SlotDef, SlotsApart
  <2>3. n >= T_CACHE \/ (k - 1) % T_CACHE < n
    <3>1. CASE n < T_CACHE
      <4>1. (k - 1) % T_CACHE = k - 1
        BY <1>4, <2>1, <3>1, CacheIsThere
      <4> QED BY <2>1, <4>1
    <3> QED BY <3>1, CacheIsThere
  <2>4. (k - 1) % T_CACHE \in Retained(state)
    BY <1>2, <2>2, <2>3
  <2> QED BY <1>1, <2>1, <2>4
<1>7. ASSUME NEW i \in Retained(state)
      PROVE  \E k \in oldest .. n : state.past[i] = name[k]
  <2>1. i \in Slots /\ i # n % T_CACHE /\ (n >= T_CACHE \/ i < n)
    BY <1>2
  <2>2. PICK j \in Nat : i = j % T_CACHE /\ j + 1 \in oldest .. n /\ j + 1 + T_CACHE > n
    <3>1. CASE n >= T_CACHE
      <4>1. PICK j \in n - T_CACHE + 1 .. n - 1 : j \in Nat /\ i = j % T_CACHE
        BY <2>1, <3>1, SlotIsUsed
      <4>2. j + 1 \in oldest .. n /\ j + 1 + T_CACHE > n
        BY <3>1, <4>1, CacheIsThere
      <4> QED BY <4>1, <4>2
    <3>2. CASE n < T_CACHE
      <4>1. i \in Nat /\ i < T_CACHE /\ i < n
        BY <2>1, <3>2, CacheIsThere
      <4>2. i = i % T_CACHE
        BY <1>4, <4>1
      <4>3. i + 1 \in oldest .. n /\ i + 1 + T_CACHE > n
        BY <3>2, <4>1, CacheIsThere
      <4> QED BY <4>1, <4>2, <4>3
    <3> QED BY <3>1, <3>2, CacheIsThere
  <2>3. j + 1 \in 1 .. n /\ (j + 1) - 1 = j
    BY <2>2, CacheIsThere
  <2> QED BY <1>1, <2>2, <2>3
<1> QED BY <1>1, <1>5, <1>6, <1>7

-----------------------------------------------------------------------------
(* The cache through a pass. *)

CacheStates == [past : [Slots -> (0 .. MaxPasses) \X Nat], pos : Nat]

LEMMA DecoderStepType ==
  ASSUME NEW state \in CacheStates, NEW token \in (0 .. MaxPasses) \X Nat
  PROVE  DecoderStep(state, token) \in CacheStates
<1>1. state.pos \in Nat /\ state.past \in [Slots -> (0 .. MaxPasses) \X Nat]
  BY DEF CacheStates
<1>2. [state.past EXCEPT ![state.pos % T_CACHE] = token] \in [Slots -> (0 .. MaxPasses) \X Nat]
  BY <1>1
<1> QED BY <1>1, <1>2 DEF DecoderStep, CacheStates

\* The tokens of a pass in the order in which they are fed: m of the prompt, and
\* those of a beam with what they are.
Fed(p, m, text) ==
  [k \in Nat |-> IF k <= m THEN <<p, k>> ELSE <<p, k, text[k - m]>>]

\* What is written in the cache stands for the tokens of the prompt.
LEMMA PrimeHolds ==
  ASSUME NEW n \in Nat, NEW k \in 0 .. MaxPasses, NEW old
  PROVE  /\ Prime(Reset(old), n, k) \in CacheStates
         /\ Holds(Prime(Reset(old), n, k), n, Fed(k, n, <<>>))
<1> DEFINE V == CacheStates
           a == NewState
           step == [i \in 1 .. n |-> [v \in V |-> DecoderStep(v, <<k, i>>)]]
           F(primed) == [i \in 0 .. n |-> IF i = 0 THEN a ELSE DecoderStep(primed[i - 1], <<k, i>>)]
           primed == CHOOSE f : f = F(f)
           name == Fed(k, n, <<>>)
<1>1. \A i \in 1 .. n : <<k, i>> \in (0 .. MaxPasses) \X Nat
  OBVIOUS
<1>2. a \in V
  BY LimitsAssumption DEF NewState, Nothing, CacheStates
<1>3. \A i \in 1 .. n : \A v \in V : DecoderStep(v, <<k, i>>) \in V
  BY <1>1, DecoderStepType
<1>4. step \in Rounds(n, V)
  <2> HIDE DEF V
  <2> QED BY <1>3 DEF Rounds
<1>5. PICK f : IsLoop(f, n, V, a, step)
  <2> HIDE DEF V, a, step
  <2> QED BY <1>2, <1>4, LoopExists
<1>6. f = F(f)
  <2>1. ASSUME NEW i \in 1 .. n PROVE f[i] = DecoderStep(f[i - 1], <<k, i>>)
    <3>1. f[i] = step[i][f[i - 1]] /\ f[i - 1] \in V
      <4> HIDE DEF V, step
      <4> QED BY <1>5 DEF IsLoop
    <3> HIDE DEF V
    <3> QED BY <3>1
  <2>2. f \in [0 .. n -> V] /\ f[0] = a
    <3> HIDE DEF V, a, step
    <3> QED BY <1>5 DEF IsLoop
  <2> HIDE DEF V, a, step
  <2> QED BY <2>1, <2>2
<1>7. primed = F(primed)
  BY <1>6
<1>8. Prime(Reset(old), n, k) = primed[n]
  BY DEF Prime, Reset
<1> HIDE DEF primed
<1>9. primed[0] = a /\ \A i \in 1 .. n : primed[i] = DecoderStep(primed[i - 1], <<k, i>>)
  <2> HIDE DEF a
  <2> QED BY <1>7
<1>10. \A i \in 1 .. n : name[i] = <<k, i>>
  BY DEF Fed
<1> DEFINE D == {i \in 0 .. n : primed[i] \in V /\ Holds(primed[i], i, name)}
<1>11. 0 \in D
  <2>1. Holds(a, 0, name)
    BY DEF Holds, NewState
  <2> HIDE DEF V, a
  <2> QED BY <1>2, <1>9, <2>1
<1>12. ASSUME NEW i \in 1 .. n, i - 1 \in D PROVE i \in D
  <2> HIDE DEF name, a
  <2>1. primed[i] = DecoderStep(primed[i - 1], <<k, i>>)
    BY <1>9
  <2>2. primed[i] \in V
    <3> HIDE DEF V
    <3> QED BY <1>3, <1>12, <2>1
  <2>3. i - 1 \in Nat /\ (i - 1) + 1 = i
    OBVIOUS
  <2>4. Holds(DecoderStep(primed[i - 1], name[(i - 1) + 1]), (i - 1) + 1, name)
    <3> HIDE DEF V
    <3> QED BY <1>12, <2>3, HoldsOneMore
  <2>5. Holds(primed[i], i, name)
    BY <1>10, <2>1, <2>3, <2>4
  <2> HIDE DEF V
  <2> QED BY <2>2, <2>5
<1>13. n \in D
  <2>1. \A i \in 0 .. n : i \in D
    <3> HIDE DEF D
    <3> QED BY <1>11, <1>12, UpTo
  <2> QED BY <2>1
<1> HIDE DEF V
<1> QED BY <1>8, <1>13 DEF V, name

\* The decoder's own state, greedy or before the first round of a search.
OwnCacheInv ==
  /\ cache \in CacheStates /\ pass <= MaxPasses
  /\ pc = "generate" =>
       Holds(cache, Len(prompt) + Len(generated), Fed(pass, Len(prompt) + Len(generated), <<>>))

\* The limit on the tokens of a pass.
LimitInv ==
  /\ Len(generated) <= max_new_tokens
  /\ pc = "generate" => Len(generated) < max_new_tokens

\* The states of the beams.
BeamCacheInv ==
  pc = "generate" =>
    \A b \in beams : beam /\ Holds(b.state, Len(prompt) + Len(b.tokens), Fed(pass, Len(prompt), b.tokens))

CacheInv == OwnCacheInv /\ LimitInv /\ BeamCacheInv

LEMMA InitCacheInv == BeamInit => CacheInv
<1> SUFFICES ASSUME BeamInit PROVE CacheInv
  OBVIOUS
<1>1. cache = NewState /\ pass = 0 /\ pc = "seek" /\ generated = <<>> /\ max_new_tokens \in Nat
  BY RequestsAssumption DEF BeamInit, Init
<1>2. NewState \in CacheStates
  BY LimitsAssumption DEF NewState, Nothing, CacheStates
<1> QED BY <1>1, <1>2, LimitsAssumption DEF CacheInv, OwnCacheInv, LimitInv, BeamCacheInv

LEMMA NewSearchKeepsCache == IInv /\ IInv' /\ CacheInv /\ NewSearch => CacheInv'
<1> SUFFICES ASSUME IInv, IInv', CacheInv, NewSearch PROVE CacheInv'
  OBVIOUS
<1> DEFINE n == Len(PassPrompt)
<1>1. /\ pass' = pass + 1 /\ prompt' = PassPrompt /\ generated' = <<>>
      /\ cache' = Prime(Reset(cache), n, pass + 1)
      /\ max_new_tokens' = max_new_tokens
      /\ pc' = IF max_new_tokens > 0 THEN "generate" ELSE "done"
      /\ pass < MaxPasses
  BY DEF NewSearch, StartPass, request, MayStart
<1>2. n \in Nat /\ pass + 1 \in 0 .. MaxPasses /\ max_new_tokens \in Nat
  <2>1. PassPrompt \in Seq(Tokens)
    BY PassPromptType DEF IInv, TokensInv
  <2> QED BY <1>1, <2>1, LimitsAssumption DEF IInv, TokensInv
<1>3. cache' \in CacheStates /\ Holds(cache', n, Fed(pass + 1, n, <<>>))
  <2> HIDE DEF n
  <2> QED BY <1>1, <1>2, PrimeHolds
<1>4. Len(prompt') = n /\ Len(generated') = 0 /\ n + 0 = n
  BY <1>1, <1>2
<1> HIDE DEF n
<1>5. OwnCacheInv'
  BY <1>1, <1>2, <1>3, <1>4 DEF OwnCacheInv, CacheStates, Slots
<1>6. LimitInv'
  BY <1>1, <1>2, <1>4 DEF LimitInv
<1>7. BeamCacheInv'
  <2>1. ASSUME NEW b \in beams' PROVE b.tokens = <<>> /\ b.state = cache' /\ beam'
    BY DEF NewSearch, StartPass, request
  <2> QED BY <1>1, <1>3, <1>4, <2>1 DEF BeamCacheInv, Holds, Slots
<1> QED BY <1>5, <1>6, <1>7 DEF CacheInv

LEMMA GenerateKeepsCache == IInv /\ CacheInv /\ Generate /\ UNCHANGED beamVars => CacheInv'
<1> SUFFICES ASSUME IInv, CacheInv, Generate, UNCHANGED beamVars PROVE CacheInv'
  OBVIOUS
<1> PICK t \in Allowed(generated) :
       LET s == IF t = EOT THEN generated ELSE Append(generated, t) IN
       IF t = EOT \/ ~GoesOn(s)
       THEN EndPass(s) /\ generated' = s /\ UNCHANGED cache
       ELSE /\ generated' = s
            /\ cache' = DecoderStep(cache, <<pass, Len(prompt) + Len(s)>>)
            /\ UNCHANGED <<accumulated, pc>>
  BY DEF Generate
<1> DEFINE s == IF t = EOT THEN generated ELSE Append(generated, t)
<1>1. /\ pc = "generate" /\ UNCHANGED <<max_new_tokens, beam, prompt, pass, beams>>
      /\ generated' = s
      /\ \/ EndPass(s) /\ UNCHANGED cache
         \/ /\ t # EOT /\ GoesOn(s) /\ UNCHANGED pc
            /\ cache' = DecoderStep(cache, <<pass, Len(prompt) + Len(s)>>)
  BY DEF Generate, request, beamVars
<1>2. /\ generated \in Seq(Tokens) /\ t \in Tokens /\ max_new_tokens \in Nat
      /\ prompt \in Seq(Tokens) /\ pass \in Nat
  BY DEF IInv, TokensInv, Allowed
<1>3. /\ Len(generated) \in Nat /\ Len(prompt) \in Nat
      /\ s = generated \/ (s = Append(generated, t) /\ Len(s) = Len(generated) + 1)
      /\ t # EOT => Len(s) = Len(generated) + 1
  BY <1>2
<1> HIDE DEF s
<1>4. Len(s) <= max_new_tokens
  BY <1>1, <1>2, <1>3 DEF CacheInv, LimitInv
<1>5. CASE EndPass(s) /\ UNCHANGED cache
  <2>1. pc' # "generate"
    BY <1>5 DEF EndPass
  <2> QED BY <1>1, <1>4, <1>5, <2>1 DEF CacheInv, OwnCacheInv, LimitInv, BeamCacheInv, CacheStates, Slots
<1>6. CASE /\ t # EOT /\ GoesOn(s) /\ UNCHANGED pc
           /\ cache' = DecoderStep(cache, <<pass, Len(prompt) + Len(s)>>)
  <2> DEFINE n == Len(prompt) + Len(generated)
             name == Fed(pass, n, <<>>)
             more == Fed(pass, n + 1, <<>>)
  <2>1. n \in Nat /\ Len(prompt) + Len(s) = n + 1
    BY <1>3, <1>6
  <2>2. Holds(cache, n, name) /\ cache \in CacheStates /\ pass \in 0 .. MaxPasses
    BY <1>1, <1>2 DEF CacheInv, OwnCacheInv
  <2>3. (\A k \in 1 .. n : name[k] = more[k]) /\ more[n + 1] = <<pass, n + 1>>
    <3> HIDE DEF n
    <3> QED BY <2>1 DEF Fed
  <2> HIDE DEF n, name, more
  <2>4. Holds(cache, n, more)
    BY <2>2, <2>3 DEF Holds
  <2>5. Holds(cache', n + 1, more)
    BY <1>6, <2>1, <2>3, <2>4, HoldsOneMore
  <2>6. cache' \in CacheStates
    BY <1>6, <2>1, <2>2, DecoderStepType
  <2>7. Len(prompt') + Len(generated') = n + 1 /\ pass' = pass
    BY <1>1, <2>1
  <2>8. OwnCacheInv'
    BY <2>2, <2>5, <2>6, <2>7 DEF OwnCacheInv, CacheStates, Slots, more
  <2>9. LimitInv'
    BY <1>1, <1>4, <1>6 DEF LimitInv, GoesOn
  <2>10. BeamCacheInv'
    BY <1>1, <1>6 DEF CacheInv, BeamCacheInv
  <2> QED BY <2>8, <2>9, <2>10 DEF CacheInv
<1> QED BY <1>1, <1>5, <1>6

LEMMA StepBeamsKeepsCache == IInv /\ SearchInv /\ CacheInv /\ StepBeams => CacheInv'
<1> SUFFICES ASSUME IInv, SearchInv, CacheInv, StepBeams PROVE CacheInv'
  OBVIOUS
<1>1. /\ UNCHANGED <<max_new_tokens, beam, prompt, pass, pc, generated, cache>>
      /\ pc = "generate" /\ beam
  BY DEF StepBeams, vars, request
<1>2. OwnCacheInv' /\ LimitInv'
  BY <1>1 DEF CacheInv, OwnCacheInv, LimitInv, CacheStates, Slots
<1>3. PICK best \in [1 .. Size -> Candidates] :
        beams' = Children({c \in Range(best) : ~IsLast(c[2])})
  BY DEF StepBeams
<1>4. ASSUME NEW d \in beams'
      PROVE  Holds(d.state, Len(prompt) + Len(d.tokens), Fed(pass, Len(prompt), d.tokens))
  <2>1. PICK c \in Range(best) : ~IsLast(c[2]) /\ d = Child(c[1], c[2])
    BY <1>3 DEF Children
  <2>2. c \in Candidates
    BY <2>1 DEF Range
  <2> DEFINE b == c[1]
             t == c[2]
             m == Len(prompt)
             n == m + Len(b.tokens)
             name == Fed(pass, m, b.tokens)
             more == Fed(pass, m, Append(b.tokens, t))
  <2>3. b \in beams /\ t \in Tokens
    BY <2>2 DEF Candidates, Allowed
  <2>4. b.tokens \in Seq(Tokens) /\ m \in Nat /\ Len(b.tokens) \in Nat
    BY <1>1, <2>3 DEF SearchInv, Path, IInv, TokensInv
  <2>5. Holds(b.state, n, name)
    BY <1>1, <2>3 DEF CacheInv, BeamCacheInv
  <2>6. /\ d.tokens = Append(b.tokens, t)
        /\ d.state = DecoderStep(b.state, <<pass, n + 1, t>>)
    BY <2>1 DEF Child, StateAfter
  <2>7. /\ Len(d.tokens) = Len(b.tokens) + 1 /\ d.tokens[Len(b.tokens) + 1] = t
        /\ \A k \in 1 .. Len(b.tokens) : d.tokens[k] = b.tokens[k]
    BY <2>3, <2>4, <2>6, AppendProperties
  <2> HIDE DEF b, t
  <2>8. (\A k \in 1 .. n : name[k] = more[k]) /\ more[n + 1] = <<pass, n + 1, t>>
    <3> DEFINE u == d.tokens
    <3>1. \A k \in 1 .. n : k <= m \/ k - m \in 1 .. Len(b.tokens)
      BY <2>4
    <3>2. n \in Nat /\ ~(n + 1 <= m) /\ (n + 1) - m = Len(b.tokens) + 1
      BY <2>4
    <3>3. more = Fed(pass, m, u)
      BY <2>6
    <3>4. /\ \A k \in 1 .. Len(b.tokens) : u[k] = b.tokens[k]
          /\ u[Len(b.tokens) + 1] = t
      BY <2>7
    <3> HIDE DEF n, u, m
    <3>5. ASSUME NEW k \in 1 .. n PROVE name[k] = more[k]
      <4>1. k \in Nat /\ (k <= m \/ k - m \in 1 .. Len(b.tokens))
        BY <3>1, <3>2
      <4>2. name[k] = (IF k <= m THEN <<pass, k>> ELSE <<pass, k, b.tokens[k - m]>>)
        BY <4>1 DEF Fed
      <4>3. more[k] = (IF k <= m THEN <<pass, k>> ELSE <<pass, k, u[k - m]>>)
        BY <3>3, <4>1 DEF Fed
      <4> QED BY <3>4, <4>1, <4>2, <4>3
    <3>6. more[n + 1] = <<pass, n + 1, t>>
      BY <3>2, <3>3, <3>4 DEF Fed
    <3> QED BY <3>5, <3>6
  <2>9. n \in Nat /\ m + Len(d.tokens) = n + 1
    BY <2>4, <2>7
  <2> HIDE DEF n, name, more, m
  <2>10. Holds(b.state, n, more)
    BY <2>5, <2>8 DEF Holds
  <2>11. Holds(d.state, n + 1, more)
    BY <2>6, <2>8, <2>9, <2>10, HoldsOneMore
  <2> QED BY <2>6, <2>9, <2>11 DEF m, more
<1>5. BeamCacheInv'
  BY <1>1, <1>4 DEF BeamCacheInv, Holds, Slots
<1> QED BY <1>2, <1>5 DEF CacheInv

LEMMA OthersKeepCache ==
  IInv /\ SearchInv /\ CacheInv
       /\ (EndSearch \/ (GiveUp /\ UNCHANGED beamVars) \/ StepFails \/ UNCHANGED searchVars) => CacheInv'
<1> SUFFICES ASSUME IInv, SearchInv, CacheInv,
                    EndSearch \/ (GiveUp /\ UNCHANGED beamVars) \/ StepFails \/ UNCHANGED searchVars
             PROVE  CacheInv'
  OBVIOUS
<1> USE DEF CacheInv, OwnCacheInv, LimitInv, BeamCacheInv, CacheStates, Slots
<1>1. CASE EndSearch
  <2>1. /\ UNCHANGED <<max_new_tokens, cache, pass>> /\ pc' # "generate"
        /\ generated' \in BeamResults
    BY <1>1, EndSearchIsAPass DEF EndSearch, request, EndPass, GenerateBeam
  <2>2. Len(generated') <= max_new_tokens
    <3>1. PICK n \in 1 .. max_new_tokens : generated' \in [1 .. n -> Tokens]
      BY <2>1 DEF BeamResults
    <3>2. n \in Nat /\ max_new_tokens \in Nat
      BY <3>1 DEF IInv, TokensInv
    <3>3. Len(generated') = n
      BY <3>1, <3>2
    <3> QED BY <3>1, <3>2, <3>3
  <2> QED BY <2>1, <2>2
<1>2. CASE GiveUp \/ StepFails
  <2>1. UNCHANGED <<max_new_tokens, cache, pass, generated>> /\ pc' # "generate"
    BY <1>2 DEF GiveUp, StepFails, request
  <2> QED BY <2>1
<1>3. CASE UNCHANGED searchVars
  <2>1. UNCHANGED <<max_new_tokens, beam, prompt, pass, pc, generated, cache, beams>>
    BY <1>3 DEF searchVars, vars, request, beamVars
  <2> QED BY <2>1
<1> QED BY <1>1, <1>2, <1>3

\* The network attends to the newest tokens of its own pass and its own beam, as
\* many as the cache holds beside the one being fed, whatever the length of the
\* prompt and however often the cache has wrapped: the clones that beam.rs makes
\* of a WhisperDecoderState never share a slot.
THEOREM ContextAlways == BeamSpec => []AttendsToContext
<1>1. BeamSpec => []IInv
  BY BeamImplementsDecoding, InductiveInvariant DEF ImplementsDecoding
<1>2. SearchInv /\ [BeamNext]_searchVars => SearchInv'
  BY NewSearchKeeps, StepBeamsKeeps, OthersKeep DEF BeamNext
<1>3. IInv /\ IInv' /\ SearchInv /\ CacheInv /\ [BeamNext]_searchVars => CacheInv'
  <2> SUFFICES ASSUME IInv, IInv', SearchInv, CacheInv, [BeamNext]_searchVars PROVE CacheInv'
    OBVIOUS
  <2>1. CASE NewSearch
    BY <2>1, NewSearchKeepsCache
  <2>2. CASE StepBeams
    BY <2>2, StepBeamsKeepsCache
  <2>3. CASE Generate /\ UNCHANGED beamVars
    BY <2>3, GenerateKeepsCache
  <2>4. CASE EndSearch \/ (GiveUp /\ UNCHANGED beamVars) \/ StepFails \/ UNCHANGED searchVars
    BY <2>4, OthersKeepCache
  <2> QED BY <2>1, <2>2, <2>3, <2>4 DEF BeamNext
<1>4. IInv /\ SearchInv /\ CacheInv => AttendsToContext
  <2> SUFFICES ASSUME IInv, SearchInv, CacheInv PROVE AttendsToContext
    OBVIOUS
  <2>1. TypeOK
    BY LimitsAssumption DEF IInv, TokensInv, CacheInv, OwnCacheInv, LimitInv, CacheStates, TypeOK
  <2>2. ASSUME pc = "generate"
        PROVE  Attends(cache, NewestTokens(Len(prompt) + Len(generated), <<>>))
    <3> DEFINE n == Len(prompt) + Len(generated)
               name == Fed(pass, n, <<>>)
               oldest == IF n >= T_CACHE THEN n - T_CACHE + 2 ELSE 1
    <3>1. n \in Nat /\ Holds(cache, n, name)
      BY <2>2 DEF CacheInv, OwnCacheInv, IInv, TokensInv
    <3>2. /\ {cache.past[i] : i \in Retained(cache)} = {name[k] : k \in oldest .. n}
          /\ Attended(cache) = Retained(cache) \cup {cache.pos % T_CACHE}
      <4> HIDE DEF n, name
      <4> QED BY <3>1, HoldsNewest
    <3>3. oldest \in Nat
      BY <3>1, CacheIsThere
    <3>4. NewestTokens(n, <<>>) = {name[k] : k \in oldest .. n}
      <4>1. \A k \in oldest .. n : name[k] = <<pass, k>> /\ k <= n - Len(<<>>)
        <5> HIDE DEF n, oldest
        <5> QED BY <3>1, <3>3 DEF Fed
      <4>2. NewestTokens(n, <<>>) = {IF k <= n - Len(<<>>) THEN <<pass, k>>
                                     ELSE <<pass, k, <<>>[k - (n - Len(<<>>))]>> : k \in oldest .. n}
        BY DEF NewestTokens
      <4> HIDE DEF n, name, oldest
      <4> QED BY <4>1, <4>2
    <3> QED BY <3>2, <3>4 DEF Attends
  <2>3. ASSUME pc = "generate", NEW b \in beams
        PROVE  Attends(b.state, NewestTokens(Len(prompt) + Len(b.tokens), b.tokens))
    <3> DEFINE m == Len(prompt)
               n == m + Len(b.tokens)
               name == Fed(pass, m, b.tokens)
               oldest == IF n >= T_CACHE THEN n - T_CACHE + 2 ELSE 1
    <3>1. beam /\ Holds(b.state, n, name)
      BY <2>3 DEF CacheInv, BeamCacheInv
    <3>2. n \in Nat /\ m \in Nat /\ Len(b.tokens) \in Nat /\ n - Len(b.tokens) = m
      BY <2>3, <3>1 DEF SearchInv, Path, IInv, TokensInv
    <3>3. /\ {b.state.past[i] : i \in Retained(b.state)} = {name[k] : k \in oldest .. n}
          /\ Attended(b.state) = Retained(b.state) \cup {b.state.pos % T_CACHE}
      <4> HIDE DEF n, name
      <4> QED BY <3>1, <3>2, HoldsNewest
    <3>4. oldest \in Nat
      BY <3>2, CacheIsThere
    <3>5. NewestTokens(n, b.tokens) = {name[k] : k \in oldest .. n}
      <4>1. \A k \in oldest .. n :
              name[k] = IF k <= m THEN <<pass, k>> ELSE <<pass, k, b.tokens[k - m]>>
        <5> HIDE DEF n, oldest, m
        <5> QED BY <3>2, <3>4 DEF Fed
      <4>2. NewestTokens(n, b.tokens) = {IF k <= m THEN <<pass, k>>
                                         ELSE <<pass, k, b.tokens[k - m]>> : k \in oldest .. n}
        <5> HIDE DEF n, m
        <5> QED BY <3>2 DEF NewestTokens, oldest
      <4> HIDE DEF n, name, oldest, m
      <4> QED BY <4>1, <4>2
    <3> QED BY <3>3, <3>5 DEF Attends
  <2> QED BY <2>1, <2>2, <2>3 DEF AttendsToContext
<1> QED BY InitSearchInv, InitCacheInv, <1>1, <1>2, <1>3, <1>4, PTL DEF BeamSpec

-----------------------------------------------------------------------------
(* Operators on sequences that are loops. *)

\* What holds of no tokens and is kept by one more holds of all sequences.
LEMMA EverySeq ==
  ASSUME NEW V, NEW D, <<>> \in D,
         \A s \in Seq(V) : \A x \in V : s \in D => Append(s, x) \in D
  PROVE  \A s \in Seq(V) : s \in D
<1> SUFFICES ASSUME NEW s \in Seq(V) PROVE s \in D
  OBVIOUS
<1> DEFINE n == Len(s)
           E == {i \in 0 .. n : SubSeq(s, 1, i) \in D}
<1>1. n \in Nat /\ SubSeq(s, 1, n) = s
  BY SubSeqFull, LenProperties
<1>2. 0 \in E
  <2>1. SubSeq(s, 1, 0) = <<>>
    BY SubSeqEmpty
  <2>2. 0 \in 0 .. n
    BY <1>1
  <2> HIDE DEF n
  <2> QED BY <2>1, <2>2
<1>3. ASSUME NEW i \in 1 .. n, i - 1 \in E PROVE i \in E
  <2>1. i - 1 \in 0 .. n /\ SubSeq(s, 1, i - 1) \in D /\ s[i] \in V /\ i \in 0 .. n
    BY <1>1, <1>3, LenProperties
  <2>2. SubSeq(s, 1, i - 1) \in Seq(V)
    <3>1. \A k \in 1 .. i - 1 : s[k] \in V
      BY <1>1, LenProperties
    <3> QED BY <2>1, <3>1, SubSeqProperties
  <2>3. SubSeq(s, 1, i) = SubSeq(s, 1, i - 1) \o <<s[i]>>
    <3>1. 1 \in 1 .. Len(s) /\ i \in 1 .. Len(s)
      BY <1>1
    <3> QED BY <3>1, SubSeqRecursiveSecond
  <2>4. SubSeq(s, 1, i) = Append(SubSeq(s, 1, i - 1), s[i])
    BY <2>1, <2>2, <2>3, AppendIsConcat
  <2> HIDE DEF n
  <2> QED BY <2>1, <2>2, <2>4
<1>4. \A i \in 0 .. n : i \in E
  <2> HIDE DEF E, n
  <2> QED BY <1>1, <1>2, <1>3, UpTo
<1>5. n \in 0 .. n
  BY <1>1
<1> HIDE DEF n
<1> QED BY <1>1, <1>4, <1>5

\* Loops that take the same steps come to the same.
LEMMA LoopsAgree ==
  ASSUME NEW n \in Nat, NEW V, NEW a, NEW step, NEW f, NEW g,
         f[0] = a, g[0] = a,
         \A i \in 1 .. n : f[i] = step[i][f[i - 1]], \A i \in 1 .. n : g[i] = step[i][g[i - 1]]
  PROVE  \A i \in 0 .. n : f[i] = g[i]
<1> DEFINE D == {i \in 0 .. n : f[i] = g[i]}
<1>1. 0 \in D
  OBVIOUS
<1>2. ASSUME NEW i \in 1 .. n, i - 1 \in D PROVE i \in D
  BY <1>2
<1>3. \A i \in 0 .. n : i \in D
  <2> HIDE DEF D
  <2> QED BY <1>1, <1>2, UpTo
<1> QED BY <1>3

OnlyStep(kept, x, some) == IF x \in some THEN Append(kept, x) ELSE kept

LEMMA OnlyIsLoop ==
  ASSUME NEW V, NEW s \in Seq(V), NEW some
  PROVE  \E f : /\ f \in [0 .. Len(s) -> Seq(V)] /\ f[0] = <<>>
                /\ \A i \in 1 .. Len(s) : f[i] = OnlyStep(f[i - 1], s[i], some)
                /\ Only(s, some) = f[Len(s)]
<1> DEFINE n == Len(s)
           W == Seq(V)
           step == [i \in 1 .. n |-> [v \in W |-> OnlyStep(v, s[i], some)]]
           F(only) == [i \in 0 .. n |-> IF i = 0 THEN <<>> ELSE
                         IF s[i] \in some THEN Append(only[i - 1], s[i]) ELSE only[i - 1]]
           only == CHOOSE f : f = F(f)
<1>1. n \in Nat /\ \A i \in 1 .. n : s[i] \in V
  BY LenProperties
<1>2. <<>> \in W
  BY EmptySeq
<1>3. \A i \in 1 .. n : \A v \in W : OnlyStep(v, s[i], some) \in W
  BY <1>1, AppendProperties DEF OnlyStep
<1>4. step \in Rounds(n, W)
  <2> HIDE DEF W
  <2> QED BY <1>3 DEF Rounds
<1>5. PICK f : IsLoop(f, n, W, <<>>, step)
  <2> HIDE DEF W, step, n
  <2> QED BY <1>1, <1>2, <1>4, LoopExists
<1>6. f \in [0 .. n -> W] /\ f[0] = <<>> /\ \A i \in 1 .. n : f[i] = OnlyStep(f[i - 1], s[i], some)
  <2>1. f \in [0 .. n -> W] /\ f[0] = <<>> /\ \A i \in 1 .. n : f[i] = step[i][f[i - 1]]
    <3> HIDE DEF W, step, n
    <3> QED BY <1>5 DEF IsLoop
  <2>2. ASSUME NEW i \in 1 .. n PROVE f[i] = OnlyStep(f[i - 1], s[i], some)
    <3>1. f[i - 1] \in W
      <4> HIDE DEF W
      <4> QED BY <1>1, <2>1
    <3> HIDE DEF W
    <3> QED BY <2>1, <3>1
  <2> HIDE DEF W, step, n
  <2> QED BY <2>1, <2>2
<1>7. f = F(f)
  <2>1. ASSUME NEW i \in 0 .. n
        PROVE  f[i] = IF i = 0 THEN <<>> ELSE
                        IF s[i] \in some THEN Append(f[i - 1], s[i]) ELSE f[i - 1]
    <3>1. i = 0 \/ i \in 1 .. n
      BY <1>1
    <3> HIDE DEF W, n
    <3> QED BY <1>6, <3>1 DEF OnlyStep
  <2> HIDE DEF W, n
  <2> QED BY <1>6, <2>1
<1>8. only = F(only)
  BY <1>7
<1>9. Only(s, some) = only[n]
  BY DEF Only
<1> HIDE DEF only
<1>10. only[0] = <<>> /\ \A i \in 1 .. n : only[i] = OnlyStep(only[i - 1], s[i], some)
  <2>1. \A i \in 0 .. n : only[i] = IF i = 0 THEN <<>> ELSE
                            IF s[i] \in some THEN Append(only[i - 1], s[i]) ELSE only[i - 1]
    <3> HIDE DEF n
    <3> QED BY <1>8
  <2>2. 0 \in 0 .. n /\ \A i \in 1 .. n : i \in 0 .. n /\ i # 0
    BY <1>1
  <2> HIDE DEF n
  <2> QED BY <2>1, <2>2 DEF OnlyStep
<1>11. \A i \in 0 .. n : only[i] = f[i]
  <2> DEFINE D == {i \in 0 .. n : only[i] = f[i]}
  <2>1. 0 \in D
    BY <1>1, <1>6, <1>10
  <2>2. ASSUME NEW i \in 1 .. n, i - 1 \in D PROVE i \in D
    <3> HIDE DEF W, n
    <3> QED BY <2>2, <1>6, <1>10
  <2>3. \A i \in 0 .. n : i \in D
    <3> HIDE DEF D, n
    <3> QED BY <1>1, <2>1, <2>2, UpTo
  <2> QED BY <2>3
<1>12. only[n] = f[n]
  BY <1>1, <1>11
<1> HIDE DEF n, W
<1>13. Only(s, some) = f[n]
  BY <1>9, <1>12
<1> QED BY <1>6, <1>13 DEF n, W

LEMMA OnlyEmpty == \A some : Only(<<>>, some) = <<>>
<1> SUFFICES ASSUME NEW some PROVE Only(<<>>, some) = <<>>
  OBVIOUS
<1> DEFINE e == <<>>
<1>1. e \in Seq(Nat) /\ Len(e) = 0
  BY EmptySeq
<1> HIDE DEF e
<1>2. PICK f : /\ f \in [0 .. Len(e) -> Seq(Nat)] /\ f[0] = <<>>
               /\ \A i \in 1 .. Len(e) : f[i] = OnlyStep(f[i - 1], e[i], some)
               /\ Only(e, some) = f[Len(e)]
  BY <1>1, OnlyIsLoop
<1> QED BY <1>1, <1>2 DEF e

LEMMA OnlyAppend ==
  ASSUME NEW V, NEW s \in Seq(V), NEW x \in V, NEW some
  PROVE  /\ Only(s, some) \in Seq(V)
         /\ Only(Append(s, x), some) = OnlyStep(Only(s, some), x, some)
<1> DEFINE u == Append(s, x)
           n == Len(s)
<1>1. /\ u \in Seq(V) /\ n \in Nat /\ Len(u) = n + 1 /\ u[n + 1] = x
      /\ \A i \in 1 .. n : u[i] = s[i]
  BY AppendProperties, LenProperties
<1>2. PICK f : /\ f \in [0 .. n -> Seq(V)] /\ f[0] = <<>>
               /\ \A i \in 1 .. n : f[i] = OnlyStep(f[i - 1], s[i], some)
               /\ Only(s, some) = f[n]
  BY OnlyIsLoop, SMTT(30)
<1> HIDE DEF u
<1>3. PICK g : /\ g[0] = <<>>
               /\ \A i \in 1 .. Len(u) : g[i] = OnlyStep(g[i - 1], u[i], some)
               /\ Only(u, some) = g[Len(u)]
  BY <1>1, OnlyIsLoop
<1> HIDE DEF n
<1> DEFINE D == {i \in 0 .. n : f[i] = g[i]}
<1>4. 0 \in D
  BY <1>1, <1>2, <1>3, SMTT(30)
<1>5. ASSUME NEW i \in 1 .. n, i - 1 \in D PROVE i \in D
  <2>1. i \in 1 .. Len(u) /\ u[i] = s[i]
    BY <1>1
  <2> QED BY <1>2, <1>3, <1>5, <2>1
<1>6. \A i \in 0 .. n : i \in D
  <2> HIDE DEF D
  <2> QED BY <1>1, <1>4, <1>5, UpTo
<1>7. f[n] = g[n] /\ f[n] \in Seq(V)
  BY <1>1, <1>2, <1>6
<1>8. n + 1 \in 1 .. Len(u) /\ (n + 1) - 1 = n
  BY <1>1
<1>9. g[n + 1] = OnlyStep(g[n], x, some)
  BY <1>1, <1>3, <1>8
<1> QED BY <1>1, <1>2, <1>3, <1>7, <1>9 DEF u

LEMMA OnlyConcat ==
  ASSUME NEW V, NEW s \in Seq(V), NEW some
  PROVE  \A t \in Seq(V) : Only(s \o t, some) = Only(s, some) \o Only(t, some)
<1> DEFINE D == {t \in Seq(V) : Only(s \o t, some) = Only(s, some) \o Only(t, some)}
<1>1. \A t \in Seq(V) : Only(t, some) \in Seq(V)
  <2> SUFFICES ASSUME NEW t \in Seq(V) PROVE Only(t, some) \in Seq(V)
    OBVIOUS
  <2> QED BY OnlyIsLoop, LenProperties
<1>2. <<>> \in D
  BY <1>1, OnlyEmpty, ConcatEmptySeq, EmptySeq
<1>3. ASSUME NEW t \in Seq(V), NEW x \in V, t \in D PROVE Append(t, x) \in D
  <2> DEFINE os == Only(s, some)
             ot == Only(t, some)
  <2>1. os \in Seq(V) /\ ot \in Seq(V) /\ Only(s \o t, some) = os \o ot
        /\ s \o t \in Seq(V) /\ Append(t, x) \in Seq(V)
    BY <1>1, <1>3, ConcatProperties, AppendProperties
  <2>2. s \o Append(t, x) = Append(s \o t, x)
    <3>1. <<x>> \in Seq(V) /\ Append(t, x) = t \o <<x>>
      BY AppendIsConcat
    <3>2. Append(s \o t, x) = (s \o t) \o <<x>>
      BY <2>1, AppendIsConcat
    <3> QED BY <3>1, <3>2, ConcatAssociative
  <2>3. Only(s \o Append(t, x), some) = OnlyStep(Only(s \o t, some), x, some)
    <3> DEFINE st == s \o t
    <3>1. st \in Seq(V)
      BY <2>1
    <3> HIDE DEF st
    <3>2. Only(Append(st, x), some) = OnlyStep(Only(st, some), x, some)
      BY <3>1, OnlyAppend
    <3> QED BY <2>2, <3>2 DEF st
  <2>4. Only(Append(t, x), some) = OnlyStep(ot, x, some)
    BY OnlyAppend
  <2> HIDE DEF os, ot
  <2>5. OnlyStep(os \o ot, x, some) = os \o OnlyStep(ot, x, some)
    <3>1. CASE x \in some
      <4>1. <<x>> \in Seq(V) /\ Append(ot, x) = ot \o <<x>> /\ os \o ot \in Seq(V)
        BY <2>1, AppendIsConcat, ConcatProperties
      <4>2. Append(os \o ot, x) = (os \o ot) \o <<x>>
        BY <4>1, AppendIsConcat
      <4>3. Append(os \o ot, x) = os \o Append(ot, x)
        BY <2>1, <4>1, <4>2, ConcatAssociative, SMTT(30)
      <4> QED BY <3>1, <4>3 DEF OnlyStep
    <3>2. CASE x \notin some
      BY <3>2 DEF OnlyStep
    <3> QED BY <3>1, <3>2
  <2> QED BY <2>1, <2>3, <2>4, <2>5 DEF os, ot
<1>4. \A t \in Seq(V) : t \in D
  <2> HIDE DEF D
  <2> QED BY <1>2, <1>3, EverySeq
<1> QED BY <1>4

\* Nothing is left of a sequence that has none of some, and only of such a one.
LEMMA OnlyNone ==
  ASSUME NEW V, NEW some
  PROVE  \A s \in Seq(V) : Only(s, some) = <<>> <=> \A i \in DOMAIN s : s[i] \notin some
<1> DEFINE D == {s \in Seq(V) : Only(s, some) = <<>> <=> \A i \in DOMAIN s : s[i] \notin some}
<1>1. <<>> \in D
  BY OnlyEmpty, EmptySeq
<1>2. ASSUME NEW s \in Seq(V), NEW x \in V, s \in D PROVE Append(s, x) \in D
  <2> DEFINE u == Append(s, x)
             n == Len(s)
  <2>1. /\ u \in Seq(V) /\ n \in Nat /\ DOMAIN s = 1 .. n /\ DOMAIN u = 1 .. n + 1
        /\ u[n + 1] = x /\ \A i \in 1 .. n : u[i] = s[i]
    BY AppendProperties, LenProperties
  <2>2. Only(u, some) = OnlyStep(Only(s, some), x, some) /\ Only(s, some) \in Seq(V)
    BY OnlyAppend
  <2> HIDE DEF u, n
  <2>3. CASE x \in some
    <3>1. Only(u, some) # <<>>
      BY <2>2, <2>3, AppendProperties DEF OnlyStep
    <3>2. n + 1 \in DOMAIN u
      BY <2>1
    <3> QED BY <2>1, <2>3, <3>1, <3>2 DEF u
  <2>4. CASE x \notin some
    <3>1. Only(u, some) = Only(s, some)
      BY <2>2, <2>4 DEF OnlyStep
    <3>2. (\A i \in DOMAIN u : u[i] \notin some) <=> (\A i \in DOMAIN s : s[i] \notin some)
      <4>1. \A i \in 1 .. n + 1 : i = n + 1 \/ i \in 1 .. n
        BY <2>1
      <4>2. \A i \in 1 .. n : i \in 1 .. n + 1
        BY <2>1
      <4> QED BY <2>1, <2>4, <4>1, <4>2
    <3> QED BY <1>2, <2>1, <3>1, <3>2 DEF u
  <2> QED BY <2>3, <2>4
<1>3. \A s \in Seq(V) : s \in D
  <2> HIDE DEF D
  <2> QED BY <1>1, <1>2, EverySeq
<1> QED BY <1>3

LEMMA OnlyType ==
  ASSUME NEW V, NEW s \in Seq(V), NEW some
  PROVE  Only(s, some) \in Seq(V)
  BY OnlyIsLoop, LenProperties

-----------------------------------------------------------------------------
(* FlattenSeq. *)

LEMMA FlatIsLoop ==
  ASSUME NEW V, NEW ss \in Seq(Seq(V)), ss # <<>>
  PROVE  \E f : /\ f \in [1 .. Len(ss) -> Seq(V)] /\ f[1] = ss[1]
                /\ \A i \in 2 .. Len(ss) : f[i] = f[i - 1] \o ss[i]
                /\ FlattenSeq(ss) = f[Len(ss)]
<1> DEFINE n == Len(ss)
           W == Seq(V)
           step == [i \in 1 .. n |-> [v \in W |-> v \o ss[i]]]
           F(flat) == [i \in 1 .. n |-> IF i = 1 THEN ss[i] ELSE flat[i - 1] \o ss[i]]
           flat == CHOOSE f : f = F(f)
<1>1. n \in Nat \ {0} /\ \A i \in 1 .. n : ss[i] \in W
  BY EmptySeq, LenProperties
<1>2. <<>> \in W
  BY EmptySeq
<1>3. \A i \in 1 .. n : \A v \in W : v \o ss[i] \in W
  BY <1>1, ConcatProperties
<1>4. step \in Rounds(n, W)
  <2> HIDE DEF W
  <2> QED BY <1>3 DEF Rounds
<1>5. PICK g : IsLoop(g, n, W, <<>>, step)
  <2> HIDE DEF W, step, n
  <2> QED BY <1>1, <1>2, <1>4, LoopExists
<1>6. g \in [0 .. n -> W] /\ g[0] = <<>> /\ \A i \in 1 .. n : g[i] = g[i - 1] \o ss[i]
  <2>1. g \in [0 .. n -> W] /\ g[0] = <<>> /\ \A i \in 1 .. n : g[i] = step[i][g[i - 1]]
    <3> HIDE DEF W, step, n
    <3> QED BY <1>5 DEF IsLoop
  <2>2. ASSUME NEW i \in 1 .. n PROVE g[i] = g[i - 1] \o ss[i]
    <3>1. g[i - 1] \in W
      <4>1. i - 1 \in 0 .. n
        BY <1>1
      <4> HIDE DEF W, n, step
      <4> QED BY <2>1, <4>1
    <3> HIDE DEF W
    <3> QED BY <2>1, <3>1
  <2> HIDE DEF W, step, n
  <2> QED BY <2>1, <2>2
<1> DEFINE f == [i \in 1 .. n |-> g[i]]
<1>7. f \in [1 .. n -> W] /\ f[1] = ss[1] /\ \A i \in 2 .. n : f[i] = f[i - 1] \o ss[i]
  <2>1. g[1] = ss[1]
    <3>1. 1 \in 1 .. n /\ 1 - 1 = 0 /\ ss[1] \in Seq(V)
      BY <1>1
    <3>2. g[1] = <<>> \o ss[1]
      BY <1>6, <3>1
    <3> QED BY <3>1, <3>2, ConcatEmptySeq
  <2> HIDE DEF W, n
  <2>2. f \in [1 .. n -> W] /\ f[1] = ss[1]
    BY <1>1, <1>6, <2>1
  <2>3. ASSUME NEW i \in 2 .. n PROVE f[i] = f[i - 1] \o ss[i]
    <3>1. i \in 1 .. n /\ i - 1 \in 1 .. n
      BY <1>1
    <3> QED BY <1>6, <3>1
  <2> QED BY <2>2, <2>3
<1> HIDE DEF f
<1>8. f = F(f)
  <2>1. ASSUME NEW i \in 1 .. n PROVE f[i] = IF i = 1 THEN ss[i] ELSE f[i - 1] \o ss[i]
    <3>1. i = 1 \/ i \in 2 .. n
      BY <1>1
    <3> HIDE DEF W, n
    <3> QED BY <1>7, <3>1
  <2> HIDE DEF W, n
  <2> QED BY <1>7, <2>1
<1>9. flat = F(flat)
  BY <1>8
<1>10. FlattenSeq(ss) = flat[n]
  BY <1>1 DEF FlattenSeq
<1> HIDE DEF flat
<1>11. \A i \in 1 .. n : flat[i] = IF i = 1 THEN ss[i] ELSE flat[i - 1] \o ss[i]
  <2> HIDE DEF n
  <2> QED BY <1>9
<1> DEFINE D == {i \in 0 .. n : i = 0 \/ flat[i] = f[i]}
<1>12. 0 \in D
  BY <1>1
<1>13. ASSUME NEW i \in 1 .. n, i - 1 \in D PROVE i \in D
  <2>1. CASE i = 1
    <3> HIDE DEF W, n
    <3> QED BY <1>7, <1>11, <2>1
  <2>2. CASE i # 1
    <3>1. i \in 2 .. n /\ i - 1 # 0
      BY <1>1, <2>2
    <3>2. flat[i - 1] = f[i - 1]
      BY <1>13, <3>1
    <3> HIDE DEF W, n
    <3>3. f[i] = f[i - 1] \o ss[i]
      BY <1>7, <3>1
    <3>4. flat[i] = flat[i - 1] \o ss[i]
      BY <1>11, <2>2
    <3>5. flat[i] = f[i]
      BY <3>2, <3>3, <3>4
    <3> QED BY <1>1, <3>5
  <2> QED BY <2>1, <2>2
<1>14. \A i \in 0 .. n : i \in D
  <2> HIDE DEF D, n
  <2> QED BY <1>1, <1>12, <1>13, UpTo
<1>15. flat[n] = f[n]
  BY <1>1, <1>14
<1> HIDE DEF n, W
<1> QED BY <1>7, <1>10, <1>15 DEF n, W

LEMMA FlatAppend ==
  ASSUME NEW V, NEW ss \in Seq(Seq(V)), NEW s \in Seq(V)
  PROVE  /\ FlattenSeq(ss) \in Seq(V)
         /\ FlattenSeq(Append(ss, s)) = FlattenSeq(ss) \o s
<1> DEFINE u == Append(ss, s)
           n == Len(ss)
           W == Seq(V)
<1>1. /\ u \in Seq(W) /\ u # <<>> /\ n \in Nat /\ Len(u) = n + 1 /\ u[n + 1] = s
      /\ \A i \in 1 .. n : u[i] = ss[i]
  <2> HIDE DEF W
  <2>1. ss \in Seq(W) /\ s \in W
    BY DEF W
  <2> QED BY <2>1, AppendProperties, LenProperties
<1>2. FlattenSeq(<<>>) = <<>> /\ <<>> \in Seq(V) /\ <<>> \o s = s
  BY EmptySeq, ConcatEmptySeq DEF FlattenSeq
<1> HIDE DEF u
<1>3. PICK g : /\ g \in [1 .. Len(u) -> W] /\ g[1] = u[1]
               /\ \A i \in 2 .. Len(u) : g[i] = g[i - 1] \o u[i]
               /\ FlattenSeq(u) = g[Len(u)]
  BY <1>1, FlatIsLoop
<1>4. CASE ss = <<>>
  <2>1. n = 0
    BY <1>4
  <2>2. FlattenSeq(u) = s
    <3> HIDE DEF n
    <3> QED BY <1>1, <1>3, <2>1
  <2> QED BY <1>2, <1>4, <2>2 DEF u
<1>5. CASE ss # <<>>
  <2>1. PICK f : /\ f \in [1 .. n -> W] /\ f[1] = ss[1]
                 /\ \A i \in 2 .. n : f[i] = f[i - 1] \o ss[i]
                 /\ FlattenSeq(ss) = f[n]
    BY <1>5, FlatIsLoop
  <2>2. n \in Nat \ {0}
    BY <1>5, EmptySeq
  <2> HIDE DEF n, W
  <2> DEFINE D == {i \in 0 .. n : i = 0 \/ f[i] = g[i]}
  <2>3. 0 \in D
    BY <2>2
  <2>4. ASSUME NEW i \in 1 .. n, i - 1 \in D PROVE i \in D
    <3>1. CASE i = 1
      BY <1>1, <1>3, <2>1, <3>1
    <3>2. CASE i # 1
      <4>1. i \in 2 .. n /\ i \in 2 .. Len(u) /\ i - 1 # 0 /\ u[i] = ss[i]
        BY <1>1, <3>2
      <4>2. f[i - 1] = g[i - 1]
        BY <2>4, <4>1
      <4>3. f[i] = f[i - 1] \o ss[i]
        BY <2>1, <4>1
      <4>4. g[i] = g[i - 1] \o u[i]
        BY <1>3, <4>1
      <4>5. f[i] = g[i]
        BY <4>1, <4>2, <4>3, <4>4
      <4> QED BY <2>2, <4>5
    <3> QED BY <3>1, <3>2
  <2>5. \A i \in 0 .. n : i \in D
    <3> HIDE DEF D
    <3> QED BY <1>1, <2>3, <2>4, UpTo
  <2>6. f[n] = g[n] /\ f[n] \in W
    BY <2>1, <2>2, <2>5
  <2>7. n + 1 \in 2 .. Len(u) /\ (n + 1) - 1 = n
    BY <1>1, <2>2
  <2>8. g[n + 1] = g[n] \o s
    BY <1>1, <1>3, <2>7
  <2> QED BY <1>1, <1>3, <2>1, <2>6, <2>8 DEF u, W
<1> QED BY <1>4, <1>5

-----------------------------------------------------------------------------
(* tokens_to_segments. *)

Pieces == [start : Nat, end : Nat, tokens : Seq(Tokens)]
Scans  == [segs : Seq(Pieces), current : Seq(Tokens), start : Nat]

Texts(segs) == [i \in DOMAIN segs |-> segs[i].tokens]
InTime(segs) == \A i \in DOMAIN segs : segs[i].start <= segs[i].end

\* The tokens of a scan that are not time stamps.
Heard(st) == FlattenSeq(Texts(st.segs)) \o st.current

LEMMA WordsAreText == \A t \in Tokens : t \in Words => ~IsTimestamp(t)
  BY TokensAssumption DEF Words, IsTimestamp, TimestampBegin, Tokens

LEMMA TextsType ==
  ASSUME NEW segs \in Seq(Pieces)
  PROVE  Texts(segs) \in Seq(Seq(Tokens)) /\ FlattenSeq(Texts(segs)) \in Seq(Tokens)
<1>1. Len(segs) \in Nat /\ DOMAIN segs = 1 .. Len(segs) /\ \A i \in 1 .. Len(segs) : segs[i] \in Pieces
  BY LenProperties
<1>2. \A i \in 1 .. Len(segs) : segs[i].tokens \in Seq(Tokens)
  BY <1>1 DEF Pieces
<1>3. Texts(segs) \in Seq(Seq(Tokens))
  BY <1>1, <1>2 DEF Texts
<1>4. <<>> \in Seq(Tokens)
  BY EmptySeq
<1> QED BY <1>3, <1>4, FlatAppend

LEMMA PieceAppended ==
  ASSUME NEW segs \in Seq(Pieces), InTime(segs), NEW piece \in Pieces, piece.start <= piece.end
  PROVE  /\ Append(segs, piece) \in Seq(Pieces) /\ InTime(Append(segs, piece))
         /\ FlattenSeq(Texts(Append(segs, piece))) = FlattenSeq(Texts(segs)) \o piece.tokens
<1> DEFINE u == Append(segs, piece)
           n == Len(segs)
<1>1. /\ u \in Seq(Pieces) /\ n \in Nat /\ Len(u) = n + 1 /\ u[n + 1] = piece
      /\ \A i \in 1 .. n : u[i] = segs[i]
      /\ DOMAIN u = 1 .. n + 1 /\ DOMAIN segs = 1 .. n
  BY AppendProperties, LenProperties
<1>2. Texts(segs) \in Seq(Seq(Tokens)) /\ piece.tokens \in Seq(Tokens) /\ Texts(u) \in Seq(Seq(Tokens))
  BY <1>1, TextsType DEF Pieces
<1>3. Len(Texts(segs)) = n /\ \A i \in 1 .. n : Texts(segs)[i] = segs[i].tokens
  BY <1>1 DEF Texts
<1> HIDE DEF u, n
<1>4. Len(Texts(u)) = n + 1 /\ \A i \in 1 .. n + 1 : Texts(u)[i] = u[i].tokens
  BY <1>1 DEF Texts
<1>5. Texts(u) = Append(Texts(segs), piece.tokens)
  <2> DEFINE W == Seq(Tokens)
             a == Texts(segs)
             b == piece.tokens
             v == Append(a, b)
             w == Texts(u)
  <2>1. a \in Seq(W) /\ b \in W /\ w \in Seq(W) /\ Len(a) = n
    BY <1>2, <1>3
  <2>2. \A i \in 1 .. n : a[i] = w[i]
    BY <1>1, <1>3, <1>4
  <2>3. w[n + 1] = b /\ Len(w) = n + 1
    BY <1>1, <1>4
  <2> HIDE DEF W, a, b, w
  <2>4. /\ v \in Seq(W) /\ Len(v) = n + 1 /\ v[n + 1] = b
        /\ \A i \in 1 .. n : v[i] = a[i]
    BY <2>1, AppendProperties
  <2> HIDE DEF v
  <2>5. ASSUME NEW i \in 1 .. n + 1 PROVE v[i] = w[i]
    <3>1. i \in 1 .. n \/ i = n + 1
      BY <1>1
    <3> QED BY <2>2, <2>3, <2>4, <3>1
  <2>6. v = w
    BY <2>1, <2>3, <2>4, <2>5, SeqEqual
  <2> QED BY <2>6 DEF v, w, a, b
<1>6. InTime(u)
  <2>1. \A i \in 1 .. n + 1 : i \in 1 .. n \/ i = n + 1
    BY <1>1
  <2> QED BY <1>1, <2>1 DEF InTime
<1> QED BY <1>1, <1>2, <1>5, <1>6, FlatAppend DEF u

\* One token more is heard once, if it is a word, and no other with it.
LEMMA AddTokenKeeps ==
  ASSUME NEW st \in Scans, InTime(st.segs), NEW t \in Tokens
  PROVE  /\ AddToken(st, t) \in Scans /\ InTime(AddToken(st, t).segs)
         /\ Only(Heard(AddToken(st, t)), Words) = OnlyStep(Only(Heard(st), Words), t, Words)
<1> DEFINE flat == FlattenSeq(Texts(st.segs))
           next == AddToken(st, t)
<1>1. st.segs \in Seq(Pieces) /\ st.current \in Seq(Tokens) /\ st.start \in Nat
  BY DEF Scans
<1>2. flat \in Seq(Tokens) /\ Heard(st) = flat \o st.current /\ Heard(st) \in Seq(Tokens)
  BY <1>1, TextsType, ConcatProperties DEF Heard
<1>3. CASE ~IsTimestamp(t)
  <2>1. next = [st EXCEPT !.current = Append(@, t)]
    BY <1>3 DEF AddToken
  <2>2. next.segs = st.segs /\ next.current = Append(st.current, t) /\ next \in Scans
    <3>1. Append(st.current, t) \in Seq(Tokens)
      BY <1>1, AppendProperties
    <3> QED BY <2>1, <3>1 DEF Scans
  <2>3. Heard(next) = Append(Heard(st), t)
    <3> DEFINE c == st.current
               h == Heard(st)
    <3>1. c \in Seq(Tokens) /\ h \in Seq(Tokens) /\ h = flat \o c /\ flat \in Seq(Tokens)
      BY <1>1, <1>2
    <3>2. Heard(next) = flat \o Append(c, t)
      BY <2>2 DEF Heard
    <3> HIDE DEF flat, next, c, h
    <3>3. <<t>> \in Seq(Tokens) /\ Append(c, t) = c \o <<t>> /\ Append(h, t) = h \o <<t>>
      BY <3>1, AppendIsConcat
    <3>4. (flat \o c) \o <<t>> = flat \o (c \o <<t>>)
      BY <3>1, <3>3, ConcatAssociative
    <3> QED BY <3>1, <3>2, <3>3, <3>4 DEF h
  <2> DEFINE h == Heard(st)
  <2>4. h \in Seq(Tokens) /\ Heard(next) = Append(h, t)
    BY <1>2, <2>3
  <2> HIDE DEF next, h
  <2>5. Only(Heard(next), Words) = OnlyStep(Only(h, Words), t, Words)
    BY <2>4, OnlyAppend
  <2> QED BY <1>1, <2>2, <2>5 DEF next, h
<1>4. CASE IsTimestamp(t)
  <2> DEFINE ts == t - TimestampBegin
             piece == Segment(st.start, ts, st.current)
  <2>1. ts \in Nat /\ t \notin Words
    BY <1>4, TokensAssumption, WordsAreText DEF Tokens, IsTimestamp, TimestampBegin
  <2>2. /\ next.segs = IF IsBlank(st.current) THEN st.segs ELSE Append(st.segs, piece)
        /\ next.current = <<>> /\ next.start = ts
        /\ next = [segs |-> next.segs, current |-> next.current, start |-> next.start]
    BY <1>4 DEF AddToken
  <2>3. OnlyStep(Only(Heard(st), Words), t, Words) = Only(Heard(st), Words)
    BY <2>1 DEF OnlyStep
  <2>4. piece \in Pieces /\ piece.start <= piece.end /\ piece.tokens = st.current
    <3> HIDE DEF ts
    <3> QED BY <1>1, <2>1 DEF Segment, LaterOf, Pieces
  <2>5. Heard(next) = FlattenSeq(Texts(next.segs)) \o <<>> /\ <<>> \in Seq(Tokens)
    BY <2>2, EmptySeq DEF Heard
  <2> HIDE DEF next, piece, ts
  <2>6. CASE IsBlank(st.current)
    <3>1. next.segs = st.segs /\ Heard(next) = flat
      BY <1>2, <2>2, <2>5, <2>6, ConcatEmptySeq
    <3>2. Only(st.current, Words) = <<>>
      BY <1>1, <2>6, OnlyNone DEF IsBlank
    <3>3. Only(Heard(st), Words) = Only(flat, Words) \o Only(st.current, Words)
      <4> HIDE DEF flat
      <4> QED BY <1>1, <1>2, OnlyConcat
    <3>4. Only(Heard(st), Words) = Only(flat, Words)
      <4>1. Only(flat, Words) \in Seq(Tokens)
        BY <1>2, OnlyType
      <4> HIDE DEF flat
      <4> QED BY <3>2, <3>3, <4>1, ConcatEmptySeq
    <3>5. next \in Scans
      <4>1. next.segs \in Seq(Pieces) /\ next.current \in Seq(Tokens) /\ next.start \in Nat
        BY <1>1, <2>1, <2>2, <2>5, <3>1
      <4> QED BY <2>2, <4>1 DEF Scans
    <3> QED BY <2>3, <3>1, <3>4, <3>5 DEF next
  <2>7. CASE ~IsBlank(st.current)
    <3>1. next.segs = Append(st.segs, piece)
      BY <2>2, <2>7
    <3>2. /\ next.segs \in Seq(Pieces) /\ InTime(next.segs)
          /\ FlattenSeq(Texts(next.segs)) = Heard(st)
      BY <1>1, <1>2, <2>4, <3>1, PieceAppended
    <3>3. Heard(next) = Heard(st)
      BY <1>2, <2>5, <3>2, ConcatEmptySeq
    <3>4. next \in Scans
      <4>1. next.segs \in Seq(Pieces) /\ next.current \in Seq(Tokens) /\ next.start \in Nat
        BY <2>1, <2>2, <2>5, <3>2
      <4> QED BY <2>2, <4>1 DEF Scans
    <3> QED BY <2>3, <3>2, <3>3, <3>4 DEF next
  <2> QED BY <2>6, <2>7
<1> QED BY <1>3, <1>4

Start == [segs |-> <<>>, current |-> <<>>, start |-> 0]

LEMMA ScanIsLoop ==
  ASSUME NEW s \in Seq(Tokens)
  PROVE  \E f : /\ f \in [0 .. Len(s) -> {st \in Scans : InTime(st.segs)}] /\ f[0] = Start
                /\ \A i \in 1 .. Len(s) : f[i] = AddToken(f[i - 1], s[i])
                /\ Scan(s) = f[Len(s)]
<1> DEFINE n == Len(s)
           W == {st \in Scans : InTime(st.segs)}
           a == Start
           step == [i \in 1 .. n |-> [v \in W |-> AddToken(v, s[i])]]
           F(after) == [i \in 0 .. n |-> IF i = 0 THEN a ELSE AddToken(after[i - 1], s[i])]
           after == CHOOSE f : f = F(f)
<1>1. n \in Nat /\ \A i \in 1 .. n : s[i] \in Tokens
  BY LenProperties
<1>2. a \in W
  <2>1. <<>> \in Seq(Pieces) /\ <<>> \in Seq(Tokens)
    BY EmptySeq
  <2> QED BY <2>1 DEF Start, Scans, InTime
<1>3. \A i \in 1 .. n : \A v \in W : AddToken(v, s[i]) \in W
  BY <1>1, AddTokenKeeps
<1>4. step \in Rounds(n, W)
  <2> HIDE DEF W
  <2> QED BY <1>3 DEF Rounds
<1>5. PICK f : IsLoop(f, n, W, a, step)
  <2> HIDE DEF W, a, step, n
  <2> QED BY <1>1, <1>2, <1>4, LoopExists
<1>6. f \in [0 .. n -> W] /\ f[0] = a /\ \A i \in 1 .. n : f[i] = AddToken(f[i - 1], s[i])
  <2>1. f \in [0 .. n -> W] /\ f[0] = a /\ \A i \in 1 .. n : f[i] = step[i][f[i - 1]]
    <3> HIDE DEF W, a, step, n
    <3> QED BY <1>5 DEF IsLoop
  <2>2. ASSUME NEW i \in 1 .. n PROVE f[i] = AddToken(f[i - 1], s[i])
    <3>1. f[i - 1] \in W
      <4>1. i - 1 \in 0 .. n
        BY <1>1
      <4> HIDE DEF W, n, step, a
      <4> QED BY <2>1, <4>1
    <3> HIDE DEF W, a
    <3> QED BY <2>1, <3>1
  <2> HIDE DEF W, a, step, n
  <2> QED BY <2>1, <2>2
<1>7. f = F(f)
  <2>1. ASSUME NEW i \in 0 .. n PROVE f[i] = IF i = 0 THEN a ELSE AddToken(f[i - 1], s[i])
    <3>1. i = 0 \/ i \in 1 .. n
      BY <1>1
    <3> HIDE DEF W, n, a
    <3> QED BY <1>6, <3>1
  <2> HIDE DEF W, n, a
  <2> QED BY <1>6, <2>1
<1>8. after = F(after)
  BY <1>7
<1>9. Scan(s) = after[n]
  BY DEF Scan, Start
<1> HIDE DEF after
<1>10. after[0] = a /\ \A i \in 1 .. n : after[i] = AddToken(after[i - 1], s[i])
  <2>1. \A i \in 0 .. n : after[i] = IF i = 0 THEN a ELSE AddToken(after[i - 1], s[i])
    <3> HIDE DEF n, a
    <3> QED BY <1>8
  <2>2. 0 \in 0 .. n /\ \A i \in 1 .. n : i \in 0 .. n /\ i # 0
    BY <1>1
  <2> HIDE DEF n, a
  <2> QED BY <2>1, <2>2
<1>11. after[n] = f[n]
  <2> DEFINE D == {i \in 0 .. n : after[i] = f[i]}
  <2>1. 0 \in D
    BY <1>1, <1>6, <1>10
  <2>2. ASSUME NEW i \in 1 .. n, i - 1 \in D PROVE i \in D
    <3> HIDE DEF W, n, a
    <3> QED BY <2>2, <1>6, <1>10
  <2>3. \A i \in 0 .. n : i \in D
    <3> HIDE DEF D, n
    <3> QED BY <1>1, <2>1, <2>2, UpTo
  <2> QED BY <1>1, <2>3
<1> HIDE DEF n, W, a
<1>12. Scan(s) = f[n]
  BY <1>9, <1>11
<1> QED BY <1>6, <1>12 DEF n, W, a

LEMMA ScanKeepsWords ==
  ASSUME NEW s \in Seq(Tokens)
  PROVE  /\ Scan(s) \in Scans /\ InTime(Scan(s).segs)
         /\ Only(Heard(Scan(s)), Words) = Only(s, Words)
<1> DEFINE n == Len(s)
<1>1. PICK f : /\ f \in [0 .. n -> {st \in Scans : InTime(st.segs)}] /\ f[0] = Start
               /\ \A i \in 1 .. n : f[i] = AddToken(f[i - 1], s[i])
               /\ Scan(s) = f[n]
  BY ScanIsLoop
<1>2. PICK g : /\ g[0] = <<>>
               /\ \A i \in 1 .. n : g[i] = OnlyStep(g[i - 1], s[i], Words)
               /\ Only(s, Words) = g[n]
  BY OnlyIsLoop
<1>3. n \in Nat /\ \A i \in 1 .. n : s[i] \in Tokens
  BY LenProperties
<1> HIDE DEF n
<1> DEFINE D == {i \in 0 .. n : Only(Heard(f[i]), Words) = g[i]}
<1>4. 0 \in D
  <2>1. Texts(<<>>) = <<>> /\ FlattenSeq(<<>>) = <<>>
    BY DEF Texts, FlattenSeq
  <2>2. Heard(Start) = <<>>
    <3>1. <<>> \o <<>> = <<>>
      OBVIOUS
    <3> QED BY <2>1, <3>1 DEF Heard, Start
  <2> QED BY <1>1, <1>2, <1>3, <2>2, OnlyEmpty
<1>5. ASSUME NEW i \in 1 .. n, i - 1 \in D PROVE i \in D
  <2>1. i - 1 \in 0 .. n /\ i \in 0 .. n
    BY <1>3
  <2>2. f[i - 1] \in Scans /\ InTime(f[i - 1].segs) /\ s[i] \in Tokens
    BY <1>1, <1>3, <2>1
  <2>3. Only(Heard(f[i]), Words) = OnlyStep(Only(Heard(f[i - 1]), Words), s[i], Words)
    BY <1>1, <2>2, AddTokenKeeps
  <2> QED BY <1>2, <1>5, <2>1, <2>3
<1>6. \A i \in 0 .. n : i \in D
  <2> HIDE DEF D
  <2> QED BY <1>3, <1>4, <1>5, UpTo
<1>7. n \in 0 .. n
  BY <1>3
<1> QED BY <1>1, <1>2, <1>6, <1>7

LEMMA SegmentsKeepWords ==
  ASSUME NEW s \in Seq(Tokens), window_end \in Nat
  PROVE  /\ InTime(Segments(s))
         /\ Only(FlattenSeq(Texts(Segments(s))), Words) = Only(s, Words)
<1> DEFINE st == Scan(s)
           flushed == FlushFinal(st)
           text == Only(s, 0 .. EOT)
           piece == Segment(st.start, window_end, st.current)
<1>1. /\ st \in Scans /\ InTime(st.segs)
      /\ Only(Heard(st), Words) = Only(s, Words)
  BY ScanKeepsWords
<1>2. st.segs \in Seq(Pieces) /\ st.current \in Seq(Tokens) /\ st.start \in Nat
  BY <1>1 DEF Scans
<1>3. Segments(s) = IF flushed = <<>> /\ ~IsBlank(text)
                    THEN <<Segment(0, window_end, text)>> ELSE flushed
  BY DEF Segments
<1>4. flushed = IF st.current = <<>> THEN st.segs ELSE Append(st.segs, piece)
  BY DEF FlushFinal
<1> HIDE DEF st, flushed, text
<1>5. InTime(flushed) /\ FlattenSeq(Texts(flushed)) = Heard(st)
  <2>1. CASE st.current = <<>>
    <3>1. FlattenSeq(Texts(st.segs)) \in Seq(Tokens)
      BY <1>2, TextsType
    <3> QED BY <1>1, <1>4, <2>1, <3>1, ConcatEmptySeq DEF Heard
  <2>2. CASE st.current # <<>>
    <3>1. piece \in Pieces /\ piece.start <= piece.end /\ piece.tokens = st.current
      BY <1>2 DEF Segment, LaterOf, Pieces
    <3> HIDE DEF piece
    <3> QED BY <1>1, <1>2, <1>4, <2>2, <3>1, PieceAppended DEF Heard
  <2> QED BY <2>1, <2>2
<1>6. flushed = <<>> => IsBlank(text)
  <2> SUFFICES ASSUME flushed = <<>> PROVE IsBlank(text)
    OBVIOUS
  <2>1. Only(s, Words) = <<>>
    <3>1. Texts(<<>>) = <<>> /\ FlattenSeq(<<>>) = <<>>
      BY DEF Texts, FlattenSeq
    <3> QED BY <1>1, <1>5, <3>1, OnlyEmpty
  <2>2. \A i \in DOMAIN s : s[i] \notin Words
    BY <2>1, OnlyNone
  <2>3. s \in Seq(Tokens \ Words)
    <3>1. Len(s) \in Nat /\ DOMAIN s = 1 .. Len(s) /\ s \in [1 .. Len(s) -> Tokens]
      BY LenProperties
    <3>2. s \in [1 .. Len(s) -> Tokens \ Words]
      BY <2>2, <3>1
    <3> QED BY <3>1, <3>2
  <2>4. text \in Seq(Tokens \ Words)
    BY <2>3, OnlyType DEF text
  <2>5. DOMAIN text = 1 .. Len(text) /\ \A i \in 1 .. Len(text) : text[i] \in Tokens \ Words
    BY <2>4, LenProperties
  <2> QED BY <2>5 DEF IsBlank
<1> QED BY <1>1, <1>3, <1>5, <1>6

\* No word that a pass produced is lost, repeated or put out of its place by
\* tokens_to_segments (whisper.rs:539), whatever sequence the network answers
\* with and whatever is blank; and no segment ends before it starts.
THEOREM WordsAlways == BeamSpec => []WordsAreKept
<1> DEFINE Inv == IInv /\ window_end \in Nat
<1>1. Init => window_end \in Nat
  BY RequestsAssumption DEF Init
<1>2. window_end \in Nat /\ [Next]_vars => (window_end \in Nat)'
  BY DEF Next, StartPass, GiveUp, Generate, GenerateBeam, StepFails, request, vars
<1>3. IInv /\ window_end \in Nat => WordsAreKept
  <2> SUFFICES ASSUME IInv, window_end \in Nat PROVE WordsAreKept
    OBVIOUS
  <2>1. accumulated \in Seq(Tokens)
    BY DEF IInv, TokensInv
  <2> QED BY <2>1, SegmentsKeepWords DEF WordsAreKept, Texts, InTime
<1>4. Spec => []WordsAreKept
  BY InductiveInvariant, <1>1, <1>2, <1>3, PTL DEF Spec
<1> QED BY <1>4, BeamImplementsDecoding DEF ImplementsDecoding
===============================================================================
