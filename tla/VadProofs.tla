------------------------------ MODULE VadProofs ------------------------------
(***************************************************************************)
(* The segments of segments_from_probs, for every stream of decisions: in  *)
(* order, apart, not empty and within the audio.  Before that, what every  *)
(* proof about a loop needs: induction and recursion up to a bound.        *)
(***************************************************************************)
EXTENDS VadSegments, FiniteSetTheorems, SequenceTheorems,
        WellFoundedInduction, TLAPS

-----------------------------------------------------------------------------
(* Loops. *)

\* What holds at first and is kept by each round holds after every round.
LEMMA UpTo ==
  ASSUME NEW n \in Nat, NEW D, 0 \in D, \A i \in 1 .. n : i - 1 \in D => i \in D
  PROVE  \A i \in 0 .. n : i \in D
<1> DEFINE Out  == {i \in 0 .. n : i \notin D}
           Less == {ss \in Nat \X Nat : ss[1] < ss[2]}
<1>1. IsWellFoundedOn(Less, Nat)
  BY NatLessThanWellFounded DEF OpToRel
<1>2. SUFFICES ASSUME Out # {} PROVE FALSE
  OBVIOUS
<1>3. Out \subseteq Nat
  OBVIOUS
<1>4. PICK x \in Out : \A y \in Out : <<y, x>> \notin Less
  <2> HIDE DEF Out, Less
  <2> QED BY <1>1, <1>2, <1>3, WFMin
<1>5. x \in 1 .. n /\ x \notin D /\ x - 1 \in 0 .. n
  OBVIOUS
<1>6. x - 1 \in Out
  BY <1>5
<1>7. <<x - 1, x>> \in Less
  BY <1>5
<1> QED BY <1>4, <1>6, <1>7

\* The results of a loop of n rounds that starts from a.
IsLoop(f, n, V, a, step) ==
    /\ f \in [0 .. n -> V] /\ f[0] = a
    /\ \A i \in 1 .. n : f[i] = step[i][f[i - 1]]

Rounds(n, V) == [1 .. n -> [V -> V]]

\* A loop has a result after each of its rounds.
LEMMA LoopExists ==
  ASSUME NEW n \in Nat, NEW V, NEW a \in V, NEW step \in Rounds(n, V)
  PROVE  \E f : IsLoop(f, n, V, a, step)
<1> USE DEF Rounds
<1> DEFINE Loop(k) == {f \in [0 .. k -> V] :
                          f[0] = a /\ \A i \in 1 .. k : f[i] = step[i][f[i - 1]]}
           D == {k \in 0 .. n : Loop(k) # {}}
<1>1. 0 \in D
  <2>1. [i \in 0 .. 0 |-> a] \in Loop(0)
    OBVIOUS
  <2> QED BY <2>1
<1>2. ASSUME NEW k \in 1 .. n, k - 1 \in D PROVE k \in D
  <2>1. PICK f \in Loop(k - 1) : TRUE
    BY <1>2
  <2>2. f \in [0 .. k - 1 -> V] /\ f[0] = a
        /\ \A i \in 1 .. k - 1 : f[i] = step[i][f[i - 1]]
    BY <2>1
  <2> DEFINE g == [i \in 0 .. k |-> IF i = k THEN step[k][f[k - 1]] ELSE f[i]]
  <2>3. f[k - 1] \in V /\ k \in 1 .. n
    BY <2>2
  <2>4. step[k][f[k - 1]] \in V
    BY <2>3
  <2>5. g \in [0 .. k -> V]
    BY <2>2, <2>4
  <2>6. g[0] = a
    BY <2>2
  <2>7. ASSUME NEW i \in 1 .. k PROVE g[i] = step[i][g[i - 1]]
    <3>1. CASE i = k
      <4>1. g[i] = step[k][f[k - 1]] /\ g[i - 1] = f[k - 1]
        BY <3>1
      <4> QED BY <4>1, <3>1
    <3>2. CASE i # k
      <4>1. g[i] = f[i] /\ g[i - 1] = f[i - 1] /\ i \in 1 .. k - 1
        BY <3>2
      <4> QED BY <4>1, <2>2
    <3> QED BY <3>1, <3>2
  <2>8. g \in Loop(k)
    <3> HIDE DEF g
    <3> QED BY <2>5, <2>6, <2>7
  <2> QED BY <2>8, SMTT(30)
<1>3. n \in D
  <2>1. \A k \in 0 .. n : k \in D
    <3> HIDE DEF D
    <3> QED BY <1>1, <1>2, UpTo
  <2> QED BY <2>1
<1>4. PICK f \in Loop(n) : TRUE
  BY <1>3
<1> QED BY <1>4 DEF IsLoop

-----------------------------------------------------------------------------
(* The loop over the probabilities. *)

Probs == [start : Nat, speech : BOOLEAN]
Pairs == Nat \X Nat

\* The decisions so far on audio of length len: windows in order that start
\* within the audio.
Decisions(len, probs) ==
    /\ probs \in Seq(Probs)
    /\ \A i \in DOMAIN probs : probs[i].start < len
    /\ \A i, j \in DOMAIN probs : i < j => probs[i].start < probs[j].start

Scans == [raw : Seq(Pairs), start : Nat \cup {Closed}, last : Nat]

\* A step of the scan goes from scan state to scan state.
LEMMA ScanTyped ==
  ASSUME NEW len \in Nat, NEW s \in Scans, NEW p \in Probs
  PROVE  ScanStep(s, p, len) \in Scans
<1> USE VadAssumption DEF Scans, Probs
<1>1. AtMost(p.start + VadWindow, len) \in Nat
  BY DEF AtMost
<1>2. CASE p.speech
  BY <1>1, <1>2 DEF ScanStep
<1>3. CASE ~p.speech /\ s.start # Closed
  <2>1. <<s.start, s.last>> \in Pairs
    BY <1>3 DEF Pairs
  <2>2. Append(s.raw, <<s.start, s.last>>) \in Seq(Pairs)
    BY <2>1, AppendProperties
  <2> QED BY <1>3, <2>2 DEF ScanStep
<1>4. CASE ~p.speech /\ s.start = Closed
  BY <1>4 DEF ScanStep
<1> QED BY <1>2, <1>3, <1>4

\* The scan as the loop that it is.
LEMMA ScanIsLoop ==
  ASSUME NEW len \in Nat, NEW probs \in Seq(Probs)
  PROVE  \E scan \in [0 .. Len(probs) -> Scans] :
           /\ scan[0] = [raw |-> <<>>, start |-> Closed, last |-> 0]
           /\ \A i \in 1 .. Len(probs) : scan[i] = ScanStep(scan[i - 1], probs[i], len)
           /\ Scan(len, probs) = scan[Len(probs)]
<1> DEFINE n == Len(probs)
           a == [raw |-> <<>>, start |-> Closed, last |-> 0]
           step == [i \in 1 .. n |-> [s \in Scans |-> ScanStep(s, probs[i], len)]]
           F(f) == [i \in 0 .. n |-> IF i = 0 THEN a ELSE ScanStep(f[i - 1], probs[i], len)]
           scan == CHOOSE f : f = F(f)
<1>1. n \in Nat /\ \A i \in 1 .. n : probs[i] \in Probs
  BY LenProperties
<1>2. a \in Scans
  BY EmptySeq DEF Scans
<1>3. step \in [1 .. n -> [Scans -> Scans]]
  BY <1>1, ScanTyped
<1>4. PICK f : IsLoop(f, n, Scans, a, step)
  <2> HIDE DEF n, a, step
  <2> QED BY <1>1, <1>2, <1>3, LoopExists DEF Rounds
<1>5. ASSUME NEW i \in 1 .. n PROVE f[i] = ScanStep(f[i - 1], probs[i], len)
  <2>1. f[i] = step[i][f[i - 1]] /\ f[i - 1] \in Scans
    BY <1>4, <1>1, SMTT(30) DEF IsLoop
  <2> QED BY <2>1
<1>6. f = F(f)
  BY <1>4, <1>5 DEF IsLoop
<1>7. scan = F(scan)
  BY <1>6
<1>8. \A i \in 0 .. n : scan[i] \in Scans
  <2> DEFINE D == {i \in 0 .. n : scan[i] \in Scans}
  <2> HIDE DEF scan, a
  <2>1. 0 \in D
    BY <1>7, <1>1, <1>2
  <2>2. ASSUME NEW i \in 1 .. n, i - 1 \in D PROVE i \in D
    <3>1. scan[i] = ScanStep(scan[i - 1], probs[i], len)
      BY <1>7
    <3>2. scan[i - 1] \in Scans /\ probs[i] \in Probs
      BY <2>2, <1>1
    <3>3. scan[i] \in Scans
      BY <3>1, <3>2, ScanTyped
    <3> QED BY <3>3
  <2>3. \A i \in 0 .. n : i \in D
    <3> HIDE DEF D, n
    <3> QED BY <1>1, <2>1, <2>2, UpTo
  <2> QED BY <2>3
<1>9. Scan(len, probs) = scan[n]
  BY DEF Scan
<1>10. scan \in [0 .. n -> Scans] /\ scan[0] = a
       /\ \A i \in 1 .. n : scan[i] = ScanStep(scan[i - 1], probs[i], len)
  <2> HIDE DEF scan, a
  <2> QED BY <1>7, <1>8, <1>1
<1> QED BY <1>9, <1>10

\* Stretches of the audio, none of them empty.
Fit(pairs, len) == \A i \in DOMAIN pairs : pairs[i][1] < pairs[i][2] /\ pairs[i][2] <= len

\* A pair that fits is appended to pairs that fit.
LEMMA AppendFits ==
  ASSUME NEW len \in Nat, NEW pairs \in Seq(Pairs), Fit(pairs, len),
         NEW a \in Nat, NEW b \in Nat, a < b, b <= len
  PROVE  /\ Append(pairs, <<a, b>>) \in Seq(Pairs)
         /\ Fit(Append(pairs, <<a, b>>), len)
         /\ Len(Append(pairs, <<a, b>>)) = Len(pairs) + 1
         /\ \A i \in 1 .. Len(pairs) : Append(pairs, <<a, b>>)[i] = pairs[i]
         /\ Append(pairs, <<a, b>>)[Len(pairs) + 1] = <<a, b>>
<1> DEFINE p == <<a, b>>
           q == Append(pairs, p)
<1>1. p \in Pairs /\ p[1] = a /\ p[2] = b
  BY DEF Pairs
<1> HIDE DEF p
<1>2. /\ q \in Seq(Pairs) /\ Len(q) = Len(pairs) + 1
      /\ \A i \in 1 .. Len(pairs) : q[i] = pairs[i]
      /\ q[Len(pairs) + 1] = p
  BY <1>1, AppendProperties
<1> HIDE DEF q
<1>3. DOMAIN q = 1 .. Len(pairs) + 1 /\ DOMAIN pairs = 1 .. Len(pairs)
      /\ Len(pairs) \in Nat
  BY <1>2, LenProperties
<1>4. ASSUME NEW i \in DOMAIN q PROVE q[i][1] < q[i][2] /\ q[i][2] <= len
  <2>1. CASE i = Len(pairs) + 1
    BY <2>1, <1>1, <1>2
  <2>2. CASE i # Len(pairs) + 1
    BY <2>2, <1>2, <1>3 DEF Fit
  <2> QED BY <2>1, <2>2
<1> QED BY <1>2, <1>4 DEF Fit, p, q

\* What the scan has found after i probabilities: stretches that fit, the open
\* one beginning at or before the last of them and ending in its window.
ScanFits(s, i, len, probs) ==
    /\ Fit(s.raw, len)
    /\ s.start # Closed => /\ i > 0 /\ s.start <= probs[i].start
                           /\ s.start < s.last /\ s.last <= len
                           /\ s.last <= probs[i].start + VadWindow

LEMMA ScanFound ==
  ASSUME NEW len \in Nat, NEW probs, Decisions(len, probs)
  PROVE  Scan(len, probs) \in Scans /\ ScanFits(Scan(len, probs), Len(probs), len, probs)
<1> DEFINE n == Len(probs)
<1>1. /\ probs \in Seq(Probs) /\ n \in Nat /\ DOMAIN probs = 1 .. n
      /\ \A i \in 1 .. n : probs[i] \in Probs /\ probs[i].start < len
      /\ \A i, j \in 1 .. n : i < j => probs[i].start < probs[j].start
  BY LenProperties DEF Decisions
<1>2. PICK scan \in [0 .. n -> Scans] :
         /\ scan[0] = [raw |-> <<>>, start |-> Closed, last |-> 0]
         /\ \A i \in 1 .. n : scan[i] = ScanStep(scan[i - 1], probs[i], len)
         /\ Scan(len, probs) = scan[n]
  BY <1>1, ScanIsLoop
<1> DEFINE D == {i \in 0 .. n : ScanFits(scan[i], i, len, probs)}
<1>3. 0 \in D
  BY <1>1, <1>2 DEF ScanFits, Fit
<1>4. ASSUME NEW i \in 1 .. n, i - 1 \in D PROVE ScanFits(scan[i], i, len, probs)
  <2> DEFINE s == scan[i - 1]
             p == probs[i]
  <2>1. s \in Scans /\ p \in Probs /\ p.start < len /\ ScanFits(s, i - 1, len, probs)
        /\ scan[i] = ScanStep(s, p, len)
    BY <1>1, <1>2, <1>4
  <2>2. s.start # Closed => s.start < p.start
    <3> SUFFICES ASSUME s.start # Closed PROVE s.start < p.start
      OBVIOUS
    <3>1. i - 1 \in 1 .. n /\ s.start <= probs[i - 1].start
      BY <2>1 DEF ScanFits
    <3>2. probs[i - 1].start < p.start
      BY <3>1, <1>1
    <3>3. probs[i - 1].start \in Nat /\ p.start \in Nat /\ s.start \in Nat
      BY <2>1, <3>1, <1>1 DEF Probs, Scans
    <3> QED BY <3>1, <3>2, <3>3
  <2> HIDE DEF s, p
  <2>3. CASE p.speech
    <3> DEFINE last == AtMost(p.start + VadWindow, len)
    <3>1. last \in Nat /\ p.start < last /\ last <= len /\ last <= p.start + VadWindow
      BY <2>1, VadAssumption DEF AtMost, Probs
    <3>2. /\ scan[i].raw = s.raw /\ scan[i].last = last
          /\ scan[i].start = IF s.start = Closed THEN p.start ELSE s.start
      BY <2>1, <2>3 DEF ScanStep, Scans
    <3> QED BY <3>1, <3>2, <2>1, <2>2 DEF ScanFits, s, p, Scans, Probs
  <2>4. CASE ~p.speech /\ s.start # Closed /\ Monus(p.start, s.last) >= MinSilence
    <3>1. scan[i].raw = Append(s.raw, <<s.start, s.last>>) /\ scan[i].start = Closed
      BY <2>1, <2>4 DEF ScanStep, Scans
    <3>2. s.raw \in Seq(Pairs) /\ s.start \in Nat /\ s.last \in Nat
      BY <2>1, <2>4 DEF Scans
    <3>3. Fit(s.raw, len) /\ s.start < s.last /\ s.last <= len
      BY <2>1, <2>4 DEF ScanFits
    <3>4. Fit(scan[i].raw, len)
      BY <3>1, <3>2, <3>3, AppendFits
    <3> QED BY <3>1, <3>4 DEF ScanFits
  <2>5. CASE ~p.speech /\ ~(s.start # Closed /\ Monus(p.start, s.last) >= MinSilence)
    <3>1. scan[i] = s
      BY <2>1, <2>5 DEF ScanStep
    <3>2. s.start # Closed => s.last <= p.start + VadWindow
      <4> SUFFICES ASSUME s.start # Closed PROVE s.last <= p.start + VadWindow
        OBVIOUS
      <4>1. i - 1 \in 1 .. n /\ s.last <= probs[i - 1].start + VadWindow
        BY <2>1 DEF ScanFits
      <4>2. probs[i - 1].start < p.start
        BY <4>1, <1>1 DEF p
      <4>3. probs[i - 1].start \in Nat /\ p.start \in Nat /\ s.last \in Nat
        BY <2>1, <4>1, <1>1 DEF Probs, Scans
      <4> QED BY <4>1, <4>2, <4>3, VadAssumption, SMTT(30)
    <3> QED BY <3>1, <3>2, <2>1, <2>2 DEF ScanFits, p, Scans, Probs
  <2> QED BY <2>3, <2>4, <2>5
<1>5. ScanFits(scan[n], n, len, probs)
  <2>1. \A i \in 1 .. n : i - 1 \in D => i \in D
    BY <1>4
  <2>2. \A i \in 0 .. n : i \in D
    <3> HIDE DEF D, n
    <3> QED BY <1>1, <1>3, <2>1, UpTo
  <2> QED BY <2>2, <1>1
<1>6. n \in 0 .. n
  BY <1>1
<1> HIDE DEF n
<1> QED BY <1>2, <1>5, <1>6 DEF n

\* The raw segments are stretches of the audio.
LEMMA RawSegmentsFit ==
  ASSUME NEW len \in Nat, NEW probs, Decisions(len, probs)
  PROVE  RawSegments(len, probs) \in Seq(Pairs) /\ Fit(RawSegments(len, probs), len)
<1> DEFINE s == Scan(len, probs)
           n == Len(probs)
<1>1. s \in Scans /\ ScanFits(s, n, len, probs)
  BY ScanFound
<1> HIDE DEF s
<1>2. CASE s.start = Closed
  BY <1>1, <1>2 DEF RawSegments, ScanFits, Scans, s
<1>3. CASE s.start # Closed
  <2>1. OpenSegment(s, len) = <<s.start, s.last>>
    BY <1>1, <1>3 DEF OpenSegment, AtLeast, ScanFits, Scans
  <2>2. RawSegments(len, probs) = Append(s.raw, <<s.start, s.last>>)
    BY <1>3, <2>1 DEF RawSegments, s
  <2>3. s.raw \in Seq(Pairs) /\ s.start \in Nat /\ s.last \in Nat
    BY <1>1, <1>3 DEF Scans
  <2>4. Fit(s.raw, len) /\ s.start < s.last /\ s.last <= len
    BY <1>1, <1>3 DEF ScanFits
  <2> QED BY <2>2, <2>3, <2>4, AppendFits
<1> QED BY <1>2, <1>3

-----------------------------------------------------------------------------
(* The loop over the raw segments. *)

\* Segments are stretches of the audio, in order, with a gap between any two.
InOrder(segs, len) ==
    /\ segs \in Seq(Pairs) /\ Fit(segs, len)
    /\ \A i, j \in DOMAIN segs : i < j => segs[i][2] < segs[j][1]

\* One raw segment more.
MergeRound(segs, r, len) == IF LongEnough(r) THEN MergeStep(segs, r, len) ELSE segs

\* A raw segment that touches the last segment, and where it begins and ends.
PadFrom(r)      == Monus(r[1], SpeechPad)
PadTo(r, len)   == AtMost(r[2] + SpeechPad, len)
Joins(segs, r)  == Len(segs) > 0 /\ PadFrom(r) <= segs[Len(segs)][2]

\* segs with its last end moved to e.
Stretched(segs, next, e) ==
    /\ next \in Seq(Pairs) /\ Len(next) = Len(segs)
    /\ \A i \in 1 .. Len(segs) : i # Len(segs) => next[i] = segs[i]
    /\ next[Len(segs)][1] = segs[Len(segs)][1] /\ next[Len(segs)][2] = e

\* A raw segment extends the last segment, or is appended.
LEMMA MergeShape ==
  ASSUME NEW len \in Nat, NEW segs \in Seq(Pairs), NEW r \in Pairs, LongEnough(r)
  PROVE  /\ Joins(segs, r) =>
              Stretched(segs, MergeRound(segs, r, len),
                        AtLeast(segs[Len(segs)][2], PadTo(r, len)))
         /\ ~Joins(segs, r) =>
              MergeRound(segs, r, len) = Append(segs, <<PadFrom(r), PadTo(r, len)>>)
<1> DEFINE n == Len(segs)
<1>1. n \in Nat /\ \A i \in 1 .. n : /\ segs[i] \in Pairs /\ segs[i][1] \in Nat
                                     /\ segs[i][2] \in Nat
  BY LenProperties DEF Pairs
<1>2. CASE Joins(segs, r)
  <2> DEFINE e == AtLeast(segs[n][2], PadTo(r, len))
             q == [segs EXCEPT ![n] = <<segs[n][1], e>>]
  <2>1. MergeRound(segs, r, len) = [segs EXCEPT ![n][2] = e]
    BY <1>2 DEF MergeRound, MergeStep, Joins, PadFrom, PadTo
  <2>2. n \in 1 .. n
    BY <1>1, <1>2 DEF Joins
  <2>3. [segs[n] EXCEPT ![2] = e] = <<segs[n][1], e>>
    <3>1. PICK a \in Nat, b \in Nat : segs[n] = <<a, b>>
      BY <1>1, <2>2, SMTT(30) DEF Pairs
    <3>2. [<<a, b>> EXCEPT ![2] = e] = <<a, e>>
      OBVIOUS
    <3> QED BY <3>1, <3>2
  <2>4. [segs EXCEPT ![n][2] = e] = q
    <3> HIDE DEF e
    <3> QED BY <2>3
  <2>5. e \in Nat
    <3>1. r[2] \in Nat /\ SpeechPad \in Nat /\ segs[n][2] \in Nat
      BY <1>1, <2>2, VadAssumption DEF Pairs
    <3> QED BY <3>1 DEF AtLeast, AtMost, PadTo
  <2> DEFINE last == <<segs[n][1], e>>
  <2>6. last \in Pairs /\ last[1] = segs[n][1] /\ last[2] = e
    BY <1>1, <2>2, <2>5 DEF Pairs
  <2> HIDE DEF e, last
  <2>7. /\ q \in Seq(Pairs) /\ Len(q) = n
        /\ \A i \in 1 .. n : q[i] = IF i = n THEN last ELSE segs[i]
    BY <1>1, <2>2, <2>6, ExceptSeq DEF last
  <2> HIDE DEF q
  <2>8. Stretched(segs, q, e)
    BY <2>2, <2>6, <2>7 DEF Stretched
  <2> QED BY <1>2, <2>1, <2>4, <2>8 DEF q, e, last
<1>3. CASE ~Joins(segs, r)
  BY <1>3 DEF MergeRound, MergeStep, Joins, PadFrom, PadTo
<1> QED BY <1>2, <1>3

\* The segments stay in order.
LEMMA MergeInOrder ==
  ASSUME NEW len \in Nat, NEW segs, InOrder(segs, len),
         NEW r \in Pairs, r[1] < r[2], r[2] <= len
  PROVE  InOrder(MergeRound(segs, r, len), len)
<1> DEFINE from == PadFrom(r)
           to   == PadTo(r, len)
           n    == Len(segs)
<1>1. r[1] \in Nat /\ r[2] \in Nat /\ SpeechPad \in Nat
  BY VadAssumption DEF Pairs
<1>2. from \in Nat /\ to \in Nat /\ from < to /\ to <= len
  BY <1>1 DEF Monus, AtMost, AtLeast, PadFrom, PadTo
<1>3. /\ segs \in Seq(Pairs) /\ n \in Nat /\ DOMAIN segs = 1 .. n
      /\ \A i \in 1 .. n : /\ segs[i] \in Pairs /\ segs[i][1] \in Nat
                           /\ segs[i][2] \in Nat
  BY LenProperties DEF InOrder, Pairs
<1>0. /\ \A i \in 1 .. n : segs[i][1] < segs[i][2] /\ segs[i][2] <= len
      /\ \A i, j \in 1 .. n : i < j => segs[i][2] < segs[j][1]
  BY <1>3 DEF InOrder, Fit
<1>4. CASE ~LongEnough(r)
  BY <1>4 DEF MergeRound
<1>5. CASE LongEnough(r) /\ Joins(segs, r)
  <2> DEFINE e == AtLeast(segs[n][2], to)
             q == MergeRound(segs, r, len)
  <2>1. n \in 1 .. n
    BY <1>3, <1>5 DEF Joins
  <2>2. e \in Nat /\ segs[n][2] <= e /\ e <= len /\ segs[n][1] < e
    BY <1>2, <1>3, <2>1 DEF AtLeast, InOrder, Fit
  <2>3. Stretched(segs, q, e)
    BY <1>3, <1>5, MergeShape
  <2> HIDE DEF e, q
  <2>4. /\ q \in Seq(Pairs) /\ DOMAIN q = 1 .. n
        /\ \A i \in 1 .. n : i # n => q[i] = segs[i]
        /\ q[n][1] = segs[n][1] /\ q[n][2] = e
    BY <2>3, LenProperties DEF Stretched
  <2>5. Fit(q, len)
    BY <1>0, <1>3, <2>2, <2>4 DEF Fit
  <2>6. ASSUME NEW i \in 1 .. n, NEW j \in 1 .. n, i < j
        PROVE  q[i][2] < q[j][1]
    <3>1. i # n /\ q[i] = segs[i] /\ segs[i][2] < segs[j][1]
      <4>1. i < n
        BY <2>6, <1>3
      <4>2. segs[i][2] < segs[j][1]
        BY <2>6, <1>0
      <4> QED BY <4>1, <4>2, <2>4
    <3>2. q[j][1] = segs[j][1]
      BY <2>4
    <3> QED BY <3>1, <3>2
  <2>7. InOrder(q, len)
    BY <2>4, <2>5, <2>6 DEF InOrder
  <2> QED BY <2>7 DEF q
<1>6. CASE LongEnough(r) /\ ~Joins(segs, r)
  <2> DEFINE q == Append(segs, <<from, to>>)
  <2>1. MergeRound(segs, r, len) = q
    BY <1>3, <1>6, MergeShape
  <2> HIDE DEF from, to
  <2>2. Fit(segs, len)
    BY DEF InOrder
  <2>3. /\ q \in Seq(Pairs) /\ Fit(q, len) /\ Len(q) = n + 1
        /\ \A i \in 1 .. n : q[i] = segs[i]
        /\ q[n + 1] = <<from, to>>
    BY <2>2, <1>2, <1>3, AppendFits
  <2> HIDE DEF q
  <2>4. DOMAIN q = 1 .. n + 1
    BY <2>3, LenProperties
  <2>5. ASSUME NEW i \in 1 .. n + 1, NEW j \in 1 .. n + 1, i < j
        PROVE  q[i][2] < q[j][1]
    <3>1. i \in 1 .. n /\ q[i] = segs[i]
      BY <2>3, <2>5, <1>3
    <3>2. CASE j # n + 1
      <4>1. j \in 1 .. n /\ q[j] = segs[j]
        BY <3>2, <2>3, <1>3
      <4> QED BY <3>1, <4>1, <2>5, <1>0
    <3>3. CASE j = n + 1
      <4>1. q[j][1] = from /\ segs[n][2] < from
        BY <3>1, <3>3, <2>3, <1>2, <1>3, <1>6 DEF Joins, from
      <4>2. segs[i][2] <= segs[n][2]
        <5>1. CASE i = n
          BY <5>1, <3>1, <1>3
        <5>2. CASE i # n
          <6>1. segs[i][2] < segs[n][1] /\ segs[n][1] < segs[n][2]
            <7>1. n \in 1 .. n /\ i < n
              <8>1. i \in 1 .. n /\ n \in Nat
                BY <3>1, <1>3
              <8> HIDE DEF n
              <8> QED BY <8>1, <5>2
            <7> QED BY <7>1, <3>1, <1>0
          <6> QED BY <6>1, <3>1, <1>3
        <5> QED BY <5>1, <5>2
      <4> QED BY <3>1, <4>1, <4>2, <1>2, <1>3, SMTT(30)
    <3> QED BY <3>2, <3>3
  <2> QED BY <2>1, <2>3, <2>4, <2>5 DEF InOrder
<1> QED BY <1>4, <1>5, <1>6

\* The segments after each raw segment.
LEMMA MergeIsLoop ==
  ASSUME NEW len \in Nat, NEW raw \in Seq(Pairs), Fit(raw, len)
  PROVE  \E merged :
           /\ \A i \in 0 .. Len(raw) : InOrder(merged[i], len)
           /\ merged[0] = <<>>
           /\ \A i \in 1 .. Len(raw) : merged[i] = MergeRound(merged[i - 1], raw[i], len)
           /\ Merged(len, raw) = merged[Len(raw)]
<1> DEFINE n == Len(raw)
           V == {segs \in Seq(Pairs) : InOrder(segs, len)}
           step == [i \in 1 .. n |-> [segs \in V |-> MergeRound(segs, raw[i], len)]]
           F(f) == [i \in 0 .. n |-> IF i = 0 THEN <<>>
                                     ELSE IF LongEnough(raw[i])
                                          THEN MergeStep(f[i - 1], raw[i], len)
                                          ELSE f[i - 1]]
           merged == CHOOSE f : f = F(f)
<1>1. /\ n \in Nat
      /\ \A i \in 1 .. n : raw[i] \in Pairs /\ raw[i][1] < raw[i][2] /\ raw[i][2] <= len
  BY LenProperties DEF Fit
<1>2. <<>> \in V
  BY EmptySeq DEF InOrder, Fit
<1>3. ASSUME NEW i \in 1 .. n, NEW segs \in V PROVE MergeRound(segs, raw[i], len) \in V
  <2>1. InOrder(MergeRound(segs, raw[i], len), len)
    BY <1>1, MergeInOrder
  <2> QED BY <2>1 DEF InOrder
<1>4. step \in Rounds(n, V)
  <2> HIDE DEF V
  <2> QED BY <1>3 DEF Rounds
<1>5. PICK f : IsLoop(f, n, V, <<>>, step)
  <2> HIDE DEF n, V, step
  <2> QED BY <1>1, <1>2, <1>4, LoopExists
<1>6. ASSUME NEW i \in 1 .. n PROVE f[i] = MergeRound(f[i - 1], raw[i], len)
  <2>1. f[i] = step[i][f[i - 1]] /\ f[i - 1] \in V
    <3> HIDE DEF V, step
    <3> QED BY <1>5, <1>1 DEF IsLoop
  <2> HIDE DEF V
  <2> QED BY <2>1
<1>7. f = F(f)
  <2> HIDE DEF V, step
  <2> QED BY <1>5, <1>6 DEF IsLoop, MergeRound
<1>8. merged = F(merged)
  BY <1>7
<1> DEFINE D == {i \in 0 .. n : merged[i] \in V}
<1> HIDE DEF merged
<1>9. 0 \in D
  <2> HIDE DEF V
  <2> QED BY <1>1, <1>2, <1>8
<1>10. ASSUME NEW i \in 1 .. n, i - 1 \in D PROVE i \in D
  <2>1. merged[i] = MergeRound(merged[i - 1], raw[i], len)
    <3>1. i \in 0 .. n /\ i # 0
      BY <1>1
    <3> HIDE DEF n
    <3> QED BY <1>8, <3>1 DEF MergeRound
  <2>2. merged[i] \in V
    <3> HIDE DEF V
    <3> QED BY <2>1, <1>3, <1>10
  <2> QED BY <2>2
<1>11. \A i \in 0 .. n : i \in D
  <2> HIDE DEF D, n
  <2> QED BY <1>1, <1>9, <1>10, UpTo
<1>12. Merged(len, raw) = merged[n]
  BY DEF Merged, merged
<1>13. merged[0] = <<>> /\ \A i \in 1 .. n : merged[i] = MergeRound(merged[i - 1], raw[i], len)
  BY <1>1, <1>8, SMTT(30) DEF MergeRound
<1> QED BY <1>11, <1>12, <1>13

\* What segments_from_probs returns, whatever was decided.
THEOREM SegmentsInOrder ==
  ASSUME NEW len \in Nat, NEW probs, Decisions(len, probs)
  PROVE  InOrder(Segments(len, probs), len)
<1> DEFINE raw == RawSegments(len, probs)
<1>1. raw \in Seq(Pairs) /\ Fit(raw, len) /\ Len(raw) \in 0 .. Len(raw)
  BY RawSegmentsFit, LenProperties
<1>2. InOrder(Merged(len, raw), len)
  <2> HIDE DEF raw
  <2> QED BY <1>1, MergeIsLoop
<1> QED BY <1>2 DEF Segments

-----------------------------------------------------------------------------
(* More audio and more decisions. *)

\* The segments later on: those before the last are what they were, and the
\* last has not moved or become shorter.
Grows(segs, next) ==
    /\ Len(segs) <= Len(next)
    /\ \A i \in 1 .. Len(segs) - 1 : next[i] = segs[i]
    /\ segs # <<>> => /\ next[Len(segs)][1] = segs[Len(segs)][1]
                      /\ next[Len(segs)][2] >= segs[Len(segs)][2]

LEMMA GrowsSame ==
  ASSUME NEW segs \in Seq(Pairs)
  PROVE  Grows(segs, segs)
<1>1. Len(segs) \in Nat /\ (segs # <<>> => Len(segs) \in 1 .. Len(segs))
      /\ \A i \in 1 .. Len(segs) : segs[i][2] \in Nat
  BY LenProperties, EmptySeq DEF Pairs
<1> QED BY <1>1 DEF Grows

LEMMA GrowsAppend ==
  ASSUME NEW segs \in Seq(Pairs), NEW p \in Pairs
  PROVE  Grows(segs, Append(segs, p))
<1> DEFINE n == Len(segs)
           q == Append(segs, p)
<1>1. n \in Nat /\ (segs # <<>> => n \in 1 .. n)
      /\ \A i \in 1 .. n : segs[i][2] \in Nat
  BY LenProperties, EmptySeq DEF Pairs
<1>2. Len(q) = n + 1 /\ \A i \in 1 .. n : q[i] = segs[i]
  BY AppendProperties
<1> HIDE DEF q
<1>3. \A i \in 1 .. n - 1 : i \in 1 .. n
  BY <1>1
<1> QED BY <1>1, <1>2, <1>3 DEF Grows, q

LEMMA GrowsStretched ==
  ASSUME NEW segs \in Seq(Pairs), segs # <<>>, NEW e \in Nat, segs[Len(segs)][2] <= e,
         NEW next, Stretched(segs, next, e)
  PROVE  Grows(segs, next)
<1>1. Len(segs) \in Nat /\ Len(segs) \in 1 .. Len(segs)
      /\ \A i \in 1 .. Len(segs) : segs[i][2] \in Nat
  BY LenProperties, EmptySeq DEF Pairs
<1>2. \A i \in 1 .. Len(segs) - 1 : i \in 1 .. Len(segs) /\ i # Len(segs)
  BY <1>1
<1> QED BY <1>1, <1>2 DEF Grows, Stretched

\* What a raw segment turns into is a stretch of the audio.
LEMMA PadFits ==
  ASSUME NEW len \in Nat, NEW r \in Pairs, r[1] < r[2], r[2] <= len
  PROVE  /\ PadFrom(r) \in Nat /\ PadTo(r, len) \in Nat
         /\ PadFrom(r) < PadTo(r, len) /\ PadTo(r, len) <= len
         /\ <<PadFrom(r), PadTo(r, len)>> \in Pairs
<1>1. r[1] \in Nat /\ r[2] \in Nat /\ SpeechPad \in Nat
  BY VadAssumption DEF Pairs
<1>2. /\ PadFrom(r) \in Nat /\ PadTo(r, len) \in Nat
      /\ PadFrom(r) < PadTo(r, len) /\ PadTo(r, len) <= len
  BY <1>1 DEF Monus, AtMost, AtLeast, PadFrom, PadTo
<1> QED BY <1>2 DEF Pairs

\* One raw segment more.
LEMMA MergeGrows ==
  ASSUME NEW len \in Nat, NEW segs \in Seq(Pairs),
         NEW r \in Pairs, r[1] < r[2], r[2] <= len
  PROVE  Grows(segs, MergeRound(segs, r, len))
<1>1. CASE ~LongEnough(r)
  BY <1>1, GrowsSame DEF MergeRound
<1>2. CASE LongEnough(r) /\ Joins(segs, r)
  <2> DEFINE e == AtLeast(segs[Len(segs)][2], PadTo(r, len))
  <2>1. Len(segs) \in 1 .. Len(segs) /\ segs # <<>>
    BY <1>2, LenProperties, EmptySeq DEF Joins
  <2>2. segs[Len(segs)][2] \in Nat
    BY <2>1, LenProperties DEF Pairs
  <2>3. e \in Nat /\ segs[Len(segs)][2] <= e
    <3>1. PadTo(r, len) \in Nat
      BY PadFits
    <3> QED BY <2>2, <3>1 DEF AtLeast
  <2>4. Stretched(segs, MergeRound(segs, r, len), e)
    BY <1>2, MergeShape
  <2> HIDE DEF e
  <2> QED BY <2>1, <2>3, <2>4, GrowsStretched
<1>3. CASE LongEnough(r) /\ ~Joins(segs, r)
  <2>1. MergeRound(segs, r, len) = Append(segs, <<PadFrom(r), PadTo(r, len)>>)
    BY <1>3, MergeShape
  <2> QED BY <2>1, PadFits, GrowsAppend
<1> QED BY <1>1, <1>2, <1>3

\* The last raw segment is longer than it was.
LEMMA MergeLonger ==
  ASSUME NEW len \in Nat, NEW segs \in Seq(Pairs),
         NEW a \in Nat, NEW b \in Nat, NEW c \in Nat, a < b, b <= c, c <= len
  PROVE  Grows(MergeRound(segs, <<a, b>>, len), MergeRound(segs, <<a, c>>, len))
<1> DEFINE r == <<a, b>>
           t == <<a, c>>
           n == Len(segs)
<1>1. /\ r \in Pairs /\ r[1] = a /\ r[2] = b
      /\ t \in Pairs /\ t[1] = a /\ t[2] = c
  BY DEF Pairs
<1> HIDE DEF r, t
<1>2. /\ r[1] < r[2] /\ r[2] <= len /\ t[1] < t[2] /\ t[2] <= len
      /\ PadFrom(r) = PadFrom(t) /\ (Joins(segs, r) <=> Joins(segs, t))
  BY <1>1 DEF PadFrom, Joins
<1>3. PadTo(r, len) <= PadTo(t, len) /\ PadTo(r, len) \in Nat /\ PadTo(t, len) \in Nat
  BY <1>1, VadAssumption DEF PadTo, AtMost
<1>4. CASE ~LongEnough(r)
  <2>1. MergeRound(segs, r, len) = segs
    BY <1>4 DEF MergeRound
  <2> QED BY <1>1, <1>2, <2>1, MergeGrows DEF r, t
<1>5. CASE LongEnough(r)
  <2>1. LongEnough(t)
    BY <1>1, <1>5, VadAssumption DEF LongEnough, Monus, AtLeast
  <2>2. n \in Nat /\ \A i \in 1 .. n : segs[i][2] \in Nat
    BY LenProperties DEF Pairs
  <2> DEFINE q == MergeRound(segs, r, len)
             w == MergeRound(segs, t, len)
  <2>3. CASE Joins(segs, r)
    <3>1. /\ Stretched(segs, q, AtLeast(segs[n][2], PadTo(r, len)))
          /\ Stretched(segs, w, AtLeast(segs[n][2], PadTo(t, len)))
      BY <1>1, <1>2, <1>5, <2>1, <2>3, MergeShape
    <3> HIDE DEF q, w
    <3>2. n \in 1 .. n
      BY <2>2, <2>3 DEF Joins
    <3>3. segs[n][2] \in Nat
      BY <2>2, <3>2
    <3>4. AtLeast(segs[n][2], PadTo(r, len)) <= AtLeast(segs[n][2], PadTo(t, len))
      BY <1>3, <3>3 DEF AtLeast
    <3>5. \A i \in 1 .. n - 1 : i \in 1 .. n /\ i # n
      BY <2>2
    <3>6. Len(q) = n /\ Len(w) = n /\ (\A i \in 1 .. n - 1 : w[i] = q[i])
          /\ w[n][1] = q[n][1] /\ w[n][2] >= q[n][2]
      BY <1>3, <3>1, <3>3, <3>4, <3>5 DEF Stretched, AtLeast
    <3> HIDE DEF n
    <3>7. Grows(q, w)
      BY <2>2, <3>6 DEF Grows
    <3> QED BY <3>7 DEF q, w, r, t
  <2>4. CASE ~Joins(segs, r)
    <3> DEFINE from == PadFrom(r)
               u == <<from, PadTo(r, len)>>
               v == <<from, PadTo(t, len)>>
    <3>1. q = Append(segs, u) /\ w = Append(segs, v)
      BY <1>1, <1>2, <1>5, <2>1, <2>4, MergeShape
    <3>2. /\ u \in Pairs /\ u[1] = from /\ u[2] = PadTo(r, len)
          /\ v \in Pairs /\ v[1] = from /\ v[2] = PadTo(t, len)
      BY <1>1, <1>2, PadFits
    <3> HIDE DEF from, u, v, q, w
    <3>3. /\ Len(q) = n + 1 /\ Len(w) = n + 1 /\ q[n + 1] = u /\ w[n + 1] = v
          /\ \A i \in 1 .. n : q[i] = segs[i] /\ w[i] = segs[i]
      BY <3>1, <3>2, AppendProperties
    <3>4. (n + 1) - 1 = n /\ n + 1 <= n + 1
      BY <2>2
    <3>5. Grows(q, w)
      BY <1>3, <3>2, <3>3, <3>4 DEF Grows
    <3> QED BY <3>5 DEF q, w, r, t
  <2> QED BY <2>3, <2>4
<1> QED BY <1>4, <1>5

\* A raw segment at the end of the others is merged last.
LEMMA MergeOneMore ==
  ASSUME NEW len \in Nat, NEW raw \in Seq(Pairs), Fit(raw, len),
         NEW a \in Nat, NEW b \in Nat, a < b, b <= len
  PROVE  Merged(len, Append(raw, <<a, b>>)) = MergeRound(Merged(len, raw), <<a, b>>, len)
<1> DEFINE r == <<a, b>>
           q == Append(raw, r)
           n == Len(raw)
<1>1. /\ q \in Seq(Pairs) /\ Fit(q, len) /\ Len(q) = n + 1
      /\ \A i \in 1 .. n : q[i] = raw[i]
      /\ q[n + 1] = r
  BY AppendFits
<1>2. n \in Nat
  BY LenProperties
<1> HIDE DEF r, q
<1>3. PICK f : /\ f[0] = <<>>
               /\ \A i \in 1 .. n : f[i] = MergeRound(f[i - 1], raw[i], len)
               /\ Merged(len, raw) = f[n]
  BY MergeIsLoop
<1>4. PICK g : /\ g[0] = <<>>
               /\ \A i \in 1 .. n + 1 : g[i] = MergeRound(g[i - 1], q[i], len)
               /\ Merged(len, q) = g[n + 1]
  BY <1>1, MergeIsLoop
<1> DEFINE D == {i \in 0 .. n : g[i] = f[i]}
<1>5. 0 \in D
  BY <1>2, <1>3, <1>4
<1>6. ASSUME NEW i \in 1 .. n, i - 1 \in D PROVE i \in D
  <2>1. i \in 1 .. n + 1 /\ i \in 0 .. n
    BY <1>2
  <2>2. g[i] = MergeRound(g[i - 1], q[i], len) /\ g[i - 1] = f[i - 1] /\ q[i] = raw[i]
    BY <1>1, <1>4, <1>6, <2>1
  <2> QED BY <1>3, <2>1, <2>2
<1>7. \A i \in 0 .. n : i \in D
  <2> HIDE DEF D, n
  <2> QED BY <1>2, <1>5, <1>6, UpTo
<1>8. g[n] = f[n]
  BY <1>2, <1>7
<1>9. n + 1 \in 1 .. n + 1 /\ (n + 1) - 1 = n
  BY <1>2
<1>10. g[n + 1] = MergeRound(g[n], r, len)
  <2>1. g[n + 1] = MergeRound(g[(n + 1) - 1], q[n + 1], len)
    BY <1>4, <1>9
  <2> QED BY <1>1, <1>9, <2>1
<1> QED BY <1>3, <1>4, <1>8, <1>10 DEF q, r

\* A decision at the end of the others is scanned last.
LEMMA ScanOneMore ==
  ASSUME NEW len \in Nat, NEW probs \in Seq(Probs), NEW p \in Probs
  PROVE  Scan(len, Append(probs, p)) = ScanStep(Scan(len, probs), p, len)
<1> DEFINE q == Append(probs, p)
           n == Len(probs)
           a == [raw |-> <<>>, start |-> Closed, last |-> 0]
<1>1. /\ q \in Seq(Probs) /\ Len(q) = n + 1 /\ n \in Nat
      /\ \A i \in 1 .. n : q[i] = probs[i]
      /\ q[n + 1] = p
  BY AppendProperties, LenProperties
<1> HIDE DEF q, a
<1>2. PICK f \in [0 .. n -> Scans] :
        /\ f[0] = a
        /\ \A i \in 1 .. n : f[i] = ScanStep(f[i - 1], probs[i], len)
        /\ Scan(len, probs) = f[n]
  BY ScanIsLoop DEF a
<1>3. PICK g \in [0 .. n + 1 -> Scans] :
        /\ g[0] = a
        /\ \A i \in 1 .. n + 1 : g[i] = ScanStep(g[i - 1], q[i], len)
        /\ Scan(len, q) = g[n + 1]
  <2>1. \E g \in [0 .. Len(q) -> Scans] :
           /\ g[0] = a
           /\ \A i \in 1 .. Len(q) : g[i] = ScanStep(g[i - 1], q[i], len)
           /\ Scan(len, q) = g[Len(q)]
    BY <1>1, ScanIsLoop DEF a
  <2>2. Len(q) = n + 1
    BY <1>1
  <2> QED BY <2>1, <2>2
<1> DEFINE D == {i \in 0 .. n : g[i] = f[i]}
<1>4. 0 \in D
  BY <1>1, <1>2, <1>3
<1>5. ASSUME NEW i \in 1 .. n, i - 1 \in D PROVE i \in D
  <2>1. i \in 1 .. n + 1 /\ i \in 0 .. n
    BY <1>1
  <2>2. g[i] = ScanStep(g[i - 1], q[i], len) /\ g[i - 1] = f[i - 1] /\ q[i] = probs[i]
    BY <1>1, <1>3, <1>5, <2>1
  <2> QED BY <1>2, <2>1, <2>2
<1>6. \A i \in 0 .. n : i \in D
  <2> HIDE DEF D, n
  <2> QED BY <1>1, <1>4, <1>5, UpTo
<1>7. g[n] = f[n]
  BY <1>1, <1>6
<1>8. n + 1 \in 1 .. n + 1 /\ (n + 1) - 1 = n
  BY <1>1
<1>9. g[n + 1] = ScanStep(g[n], p, len)
  <2>1. g[n + 1] = ScanStep(g[(n + 1) - 1], q[n + 1], len)
    BY <1>3, <1>8
  <2> QED BY <1>1, <1>8, <2>1
<1> QED BY <1>2, <1>3, <1>7, <1>9 DEF q

\* A decision more, on a window that starts after the others.
LEMMA DecisionGrows ==
  ASSUME NEW len \in Nat, NEW probs, Decisions(len, probs),
         NEW p \in Probs, p.start < len, \A i \in DOMAIN probs : probs[i].start < p.start
  PROVE  Grows(Segments(len, probs), Segments(len, Append(probs, p)))
<1> DEFINE s == Scan(len, probs)
           t == Scan(len, Append(probs, p))
           raw == s.raw
           n == Len(probs)
<1>1. probs \in Seq(Probs) /\ n \in Nat /\ DOMAIN probs = 1 .. n
  BY LenProperties DEF Decisions
<1>2. s \in Scans /\ ScanFits(s, n, len, probs)
  BY ScanFound
<1>3. t = ScanStep(s, p, len)
  BY <1>1, ScanOneMore
<1> HIDE DEF s, t
<1>4. raw \in Seq(Pairs) /\ Fit(raw, len)
  BY <1>2 DEF ScanFits, Scans
<1>5. ASSUME s.start # Closed
      PROVE  /\ s.start \in Nat /\ s.last \in Nat /\ s.start < s.last /\ s.last <= len
             /\ s.last <= p.start + VadWindow
  <2>1. n \in DOMAIN probs /\ s.start < s.last /\ s.last <= len
        /\ s.last <= probs[n].start + VadWindow
    BY <1>1, <1>2, <1>5 DEF ScanFits
  <2>2. probs[n].start < p.start
    BY <2>1
  <2>3. probs[n] \in Probs
    BY <1>1, <2>1
  <2>4. probs[n].start \in Nat /\ p.start \in Nat /\ s.start \in Nat /\ s.last \in Nat
    BY <1>2, <1>5, <2>3 DEF Probs, Scans
  <2> QED BY <2>1, <2>2, <2>4, VadAssumption
<1>6. RawSegments(len, probs) = IF s.start = Closed THEN raw ELSE Append(raw, <<s.start, s.last>>)
  BY <1>5 DEF RawSegments, OpenSegment, AtLeast, s
<1>7. \A u : t = u => RawSegments(len, Append(probs, p)) =
         IF u.start = Closed THEN u.raw ELSE Append(u.raw, OpenSegment(u, len))
  BY DEF RawSegments, t
<1> DEFINE segs == Merged(len, raw)
<1>8. InOrder(segs, len) /\ segs \in Seq(Pairs)
  <2>1. Len(raw) \in 0 .. Len(raw)
    BY <1>4, LenProperties
  <2> HIDE DEF raw
  <2>2. InOrder(segs, len)
    BY <1>4, <2>1, MergeIsLoop
  <2> QED BY <2>2 DEF InOrder
<1>9. \A a, b \in Nat : a < b /\ b <= len =>
        Merged(len, Append(raw, <<a, b>>)) = MergeRound(segs, <<a, b>>, len)
  BY <1>4, MergeOneMore
<1>10. \A a, b \in Nat : a < b /\ b <= len => Grows(segs, MergeRound(segs, <<a, b>>, len))
  <2> TAKE a, b \in Nat
  <2> HAVE a < b /\ b <= len
  <2> DEFINE r == <<a, b>>
  <2>1. r \in Pairs /\ r[1] < r[2] /\ r[2] <= len
    BY DEF Pairs
  <2> HIDE DEF r, segs
  <2>2. Grows(segs, MergeRound(segs, r, len))
    BY <1>8, <2>1, MergeGrows
  <2> QED BY <2>2 DEF r
<1> HIDE DEF raw, segs
<1> DEFINE last == AtMost(p.start + VadWindow, len)
<1>11. p.start \in Nat /\ last \in Nat /\ p.start < last /\ last <= len
       /\ (s.start # Closed => s.last <= last)
  BY <1>5, VadAssumption DEF AtMost, Probs
<1> HIDE DEF last
<1>12. CASE p.speech /\ s.start = Closed
  <2>1. t.raw = raw /\ t.start = p.start /\ t.last = last
    BY <1>2, <1>3, <1>12 DEF ScanStep, Scans, raw, last
  <2>2. OpenSegment(t, len) = <<p.start, last>> /\ t.start # Closed
    BY <1>11, <2>1 DEF OpenSegment, AtLeast, Closed
  <2>3. RawSegments(len, Append(probs, p)) = Append(raw, <<p.start, last>>)
    BY <1>7, <2>1, <2>2
  <2> QED BY <1>6, <1>9, <1>10, <1>11, <1>12, <2>3 DEF Segments, segs
<1>13. CASE p.speech /\ s.start # Closed
  <2>1. t.raw = raw /\ t.start = s.start /\ t.last = last
    BY <1>2, <1>3, <1>13 DEF ScanStep, Scans, raw, last
  <2>2. s.start < last
    BY <1>5, <1>11, <1>13
  <2>3. OpenSegment(t, len) = <<s.start, last>> /\ t.start # Closed
    BY <1>5, <1>11, <1>13, <2>1, <2>2 DEF OpenSegment, AtLeast
  <2>4. RawSegments(len, Append(probs, p)) = Append(raw, <<s.start, last>>)
    BY <1>7, <2>1, <2>3
  <2>5. Merged(len, Append(raw, <<s.start, last>>)) = MergeRound(segs, <<s.start, last>>, len)
    BY <1>5, <1>9, <1>11, <1>13, <2>2
  <2>6. Merged(len, Append(raw, <<s.start, s.last>>))
          = MergeRound(segs, <<s.start, s.last>>, len)
    BY <1>5, <1>9, <1>13
  <2>7. Grows(MergeRound(segs, <<s.start, s.last>>, len),
              MergeRound(segs, <<s.start, last>>, len))
    <3> DEFINE a == s.start
               b == s.last
    <3>1. a \in Nat /\ b \in Nat /\ a < b /\ b <= last /\ last \in Nat /\ last <= len
      BY <1>5, <1>11, <1>13
    <3> HIDE DEF a, b
    <3>2. Grows(MergeRound(segs, <<a, b>>, len), MergeRound(segs, <<a, last>>, len))
      BY <1>8, <3>1, MergeLonger
    <3> QED BY <3>2 DEF a, b
  <2> QED BY <1>6, <1>13, <2>4, <2>5, <2>6, <2>7 DEF Segments
<1>14. CASE ~p.speech
  <2>1. CASE s.start # Closed /\ Monus(p.start, s.last) >= MinSilence
    <3>1. t.raw = Append(raw, <<s.start, s.last>>) /\ t.start = Closed
      BY <1>2, <1>3, <1>14, <2>1 DEF ScanStep, Scans, raw
    <3>2. RawSegments(len, Append(probs, p)) = RawSegments(len, probs)
      BY <1>6, <1>7, <2>1, <3>1
    <3> QED BY <1>5, <1>6, <1>8, <1>9, <2>1, <3>2, SegmentsInOrder, GrowsSame DEF Segments, InOrder
  <2>2. CASE ~(s.start # Closed /\ Monus(p.start, s.last) >= MinSilence)
    <3>1. t = s
      BY <1>3, <1>14, <2>2 DEF ScanStep
    <3>2. RawSegments(len, Append(probs, p)) = RawSegments(len, probs)
      BY <1>7, <3>1 DEF RawSegments, s
    <3> QED BY <3>2, SegmentsInOrder, GrowsSame DEF Segments, InOrder
  <2> QED BY <2>1, <2>2
<1> QED BY <1>12, <1>13, <1>14

\* Audio that is longer by a sample does not change decisions on full windows.
LEMMA ScanLater ==
  ASSUME NEW len \in Nat, NEW probs \in Seq(Probs),
         \A i \in DOMAIN probs : probs[i].start + VadWindow <= len
  PROVE  Scan(len + 1, probs) = Scan(len, probs)
<1> DEFINE n == Len(probs)
           a == [raw |-> <<>>, start |-> Closed, last |-> 0]
<1>1. n \in Nat /\ DOMAIN probs = 1 .. n /\ len + 1 \in Nat
      /\ \A i \in 1 .. n : probs[i].start \in Nat
  <2>1. n \in Nat /\ DOMAIN probs = 1 .. n /\ \A i \in 1 .. n : probs[i] \in Probs
    BY LenProperties
  <2> QED BY <2>1 DEF Probs
<1> HIDE DEF a
<1>2. PICK f : /\ f[0] = a
               /\ \A i \in 1 .. n : f[i] = ScanStep(f[i - 1], probs[i], len)
               /\ Scan(len, probs) = f[n]
  BY ScanIsLoop DEF a
<1>3. PICK g : /\ g[0] = a
               /\ \A i \in 1 .. n : g[i] = ScanStep(g[i - 1], probs[i], len + 1)
               /\ Scan(len + 1, probs) = g[n]
  BY <1>1, ScanIsLoop DEF a
<1> DEFINE D == {i \in 0 .. n : g[i] = f[i]}
<1>4. 0 \in D
  BY <1>1, <1>2, <1>3
<1>5. ASSUME NEW i \in 1 .. n, i - 1 \in D PROVE i \in D
  <2>1. AtMost(probs[i].start + VadWindow, len + 1) = AtMost(probs[i].start + VadWindow, len)
    <3> DEFINE e == probs[i].start + VadWindow
    <3>1. e \in Nat /\ e <= len
      BY <1>1, VadAssumption
    <3> HIDE DEF e
    <3>2. AtMost(e, len + 1) = AtMost(e, len)
      BY <3>1 DEF AtMost
    <3> QED BY <3>2 DEF e
  <2>2. \A s : ScanStep(s, probs[i], len + 1) = ScanStep(s, probs[i], len)
    BY <2>1 DEF ScanStep
  <2> QED BY <1>1, <1>2, <1>3, <1>5, <2>2
<1>6. \A i \in 0 .. n : i \in D
  <2> HIDE DEF D, n
  <2> QED BY <1>1, <1>4, <1>5, UpTo
<1> QED BY <1>1, <1>2, <1>3, <1>6

\* The same segments, but that the last may have ended with the audio and go on.
Later(segs, next, len) ==
    /\ Len(next) = Len(segs)
    /\ \A i \in 1 .. Len(segs) - 1 : next[i] = segs[i]
    /\ segs # <<>> => LET n == Len(segs) IN
         /\ next[n][1] = segs[n][1]
         /\ \/ next[n] = segs[n]
            \/ segs[n][2] = len /\ next[n][2] = len + 1

LEMMA MergeLaterStep ==
  ASSUME NEW len \in Nat, NEW segs, InOrder(segs, len), NEW next, InOrder(next, len + 1),
         Later(segs, next, len), NEW r \in Pairs, r[1] < r[2], r[2] <= len
  PROVE  Later(MergeRound(segs, r, len), MergeRound(next, r, len + 1), len)
<1> DEFINE n == Len(segs)
           to == PadTo(r, len)
           more == PadTo(r, len + 1)
           from == PadFrom(r)
<1>1. /\ len + 1 \in Nat /\ segs \in Seq(Pairs) /\ next \in Seq(Pairs) /\ n \in Nat
      /\ Len(next) = n /\ (segs # <<>> <=> n > 0)
      /\ \A i \in 1 .. n : /\ segs[i] \in Pairs /\ segs[i][2] \in Nat /\ segs[i][2] <= len
                           /\ next[i] \in Pairs /\ next[i][2] \in Nat
  <2>1. /\ segs \in Seq(Pairs) /\ next \in Seq(Pairs) /\ Len(next) = n /\ n \in Nat
        /\ DOMAIN segs = 1 .. n /\ DOMAIN next = 1 .. n
    BY LenProperties DEF InOrder, Later
  <2>2. segs # <<>> <=> n > 0
    BY <2>1, EmptySeq
  <2>3. \A i \in 1 .. n : segs[i] \in Pairs /\ next[i] \in Pairs /\ segs[i][2] <= len
    BY <2>1 DEF InOrder, Fit
  <2> QED BY <2>1, <2>2, <2>3, SMTT(30) DEF Pairs
<1>2. r[1] \in Nat /\ r[2] \in Nat /\ SpeechPad \in Nat
  BY VadAssumption DEF Pairs
<1>3. /\ from \in Nat /\ to \in Nat /\ more \in Nat /\ from < len /\ to <= len
      /\ (more = to \/ (to = len /\ more = len + 1))
      /\ <<from, to>> \in Pairs /\ <<from, more>> \in Pairs
  BY <1>2 DEF PadFrom, PadTo, Monus, AtMost, AtLeast, Pairs
<1>4. n > 0 => /\ n \in 1 .. n /\ next[n][1] = segs[n][1]
               /\ next[n] = segs[n] \/ (segs[n][2] = len /\ next[n][2] = len + 1)
  BY <1>1 DEF Later
<1>5. Joins(segs, r) <=> Joins(next, r)
  BY <1>1, <1>3, <1>4 DEF Joins
<1>6. CASE ~LongEnough(r)
  BY <1>6 DEF MergeRound
<1> DEFINE q == MergeRound(segs, r, len)
           w == MergeRound(next, r, len + 1)
<1>7. CASE LongEnough(r) /\ Joins(segs, r)
  <2>1. /\ Stretched(segs, q, AtLeast(segs[n][2], to))
        /\ Stretched(next, w, AtLeast(next[n][2], more))
    BY <1>1, <1>5, <1>7, MergeShape
  <2>2. n \in 1 .. n /\ segs # <<>>
    BY <1>1, <1>7 DEF Joins
  <2> HIDE DEF q, w, to, more, from
  <2>3. /\ q \in Seq(Pairs) /\ w \in Seq(Pairs) /\ Len(q) = n /\ Len(w) = n
        /\ q[n][1] = segs[n][1] /\ q[n][2] = AtLeast(segs[n][2], to)
        /\ w[n][1] = next[n][1] /\ w[n][2] = AtLeast(next[n][2], more)
        /\ \A i \in 1 .. n : i # n => q[i] = segs[i] /\ w[i] = next[i]
    BY <1>1, <2>1 DEF Stretched
  <2>4. \/ w[n][2] = q[n][2]
        \/ q[n][2] = len /\ w[n][2] = len + 1
    <3> DEFINE a == segs[n][2]
               b == next[n][2]
    <3>1. a \in Nat /\ b \in Nat /\ a <= len /\ (b = a \/ (a = len /\ b = len + 1))
      BY <1>1, <1>4, <2>2
    <3>2. q[n][2] = AtLeast(a, to) /\ w[n][2] = AtLeast(b, more)
      BY <2>3
    <3> HIDE DEF a, b
    <3> QED BY <1>3, <3>1, <3>2 DEF AtLeast
  <2>5. q[n] \in Pairs /\ w[n] \in Pairs /\ w[n][1] = q[n][1]
    BY <1>4, <2>2, <2>3
  <2>6. w[n][2] = q[n][2] => w[n] = q[n]
    <3>1. q[n] = <<q[n][1], q[n][2]>> /\ w[n] = <<w[n][1], w[n][2]>>
      BY <2>5 DEF Pairs
    <3> QED BY <2>5, <3>1
  <2>7. \A i \in 1 .. n - 1 : w[i] = q[i]
    <3> TAKE i \in 1 .. n - 1
    <3>1. i \in 1 .. n /\ i # n
      BY <1>1
    <3>2. next[i] = segs[i]
      BY DEF Later
    <3> QED BY <2>3, <3>1, <3>2
  <2> HIDE DEF n
  <2> QED BY <2>3, <2>4, <2>5, <2>6, <2>7 DEF Later, q, w
<1>8. CASE LongEnough(r) /\ ~Joins(segs, r)
  <2> DEFINE u == <<from, to>>
             v == <<from, more>>
  <2>1. q = Append(segs, u) /\ w = Append(next, v)
    BY <1>1, <1>5, <1>8, MergeShape
  <2>2. u \in Pairs /\ v \in Pairs /\ u[1] = from /\ v[1] = from /\ u[2] = to /\ v[2] = more
    BY <1>3
  <2> HIDE DEF q, w, u, v
  <2>3. /\ q \in Seq(Pairs) /\ Len(q) = n + 1 /\ Len(w) = n + 1
        /\ q[n + 1] = u /\ w[n + 1] = v
        /\ \A i \in 1 .. n : q[i] = segs[i] /\ w[i] = next[i]
    BY <1>1, <2>1, <2>2, AppendProperties
  <2>4. ASSUME NEW i \in 1 .. n PROVE next[i] = segs[i]
    <3>1. CASE i = n
      <4>1. segs[n][2] < from /\ from < len
        BY <1>1, <1>3, <1>8, <3>1 DEF Joins
      <4>2. segs[n][2] # len
        BY <1>1, <1>3, <3>1, <4>1
      <4> QED BY <1>1, <1>4, <3>1, <4>2
    <3>2. CASE i # n
      <4>1. i \in 1 .. n - 1
        BY <1>1, <3>2
      <4> QED BY <4>1 DEF Later
    <3> QED BY <3>1, <3>2
  <2>5. v = u \/ (u[2] = len /\ v[2] = len + 1)
    BY <1>3, <2>2 DEF u, v
  <2>6. (n + 1) - 1 = n
    BY <1>1
  <2>7. Later(q, w, len)
    <3> HIDE DEF n
    <3> QED BY <2>2, <2>3, <2>4, <2>5, <2>6 DEF Later
  <2> QED BY <2>7 DEF q, w
<1> QED BY <1>6, <1>7, <1>8

LEMMA MergeLater ==
  ASSUME NEW len \in Nat, NEW raw \in Seq(Pairs), Fit(raw, len)
  PROVE  Grows(Merged(len, raw), Merged(len + 1, raw))
<1> DEFINE n == Len(raw)
<1>1. n \in Nat /\ DOMAIN raw = 1 .. n /\ len + 1 \in Nat
      /\ \A i \in 1 .. n : /\ raw[i] \in Pairs /\ raw[i][1] < raw[i][2]
                           /\ raw[i][2] \in Nat /\ raw[i][2] <= len
  BY LenProperties DEF Pairs, Fit
<1>2. Fit(raw, len + 1)
  BY <1>1 DEF Fit
<1>3. PICK f : /\ \A i \in 0 .. n : InOrder(f[i], len)
               /\ f[0] = <<>>
               /\ \A i \in 1 .. n : f[i] = MergeRound(f[i - 1], raw[i], len)
               /\ Merged(len, raw) = f[n]
  BY MergeIsLoop
<1>4. PICK g : /\ \A i \in 0 .. n : InOrder(g[i], len + 1)
               /\ g[0] = <<>>
               /\ \A i \in 1 .. n : g[i] = MergeRound(g[i - 1], raw[i], len + 1)
               /\ Merged(len + 1, raw) = g[n]
  BY <1>1, <1>2, MergeIsLoop
<1> DEFINE D == {i \in 0 .. n : Later(f[i], g[i], len)}
<1>5. 0 \in D
  BY <1>1, <1>3, <1>4, EmptySeq DEF Later
<1>6. ASSUME NEW i \in 1 .. n, i - 1 \in D PROVE i \in D
  <2>1. i \in 0 .. n /\ i - 1 \in 0 .. n
    BY <1>1
  <2>2. InOrder(f[i - 1], len) /\ InOrder(g[i - 1], len + 1) /\ Later(f[i - 1], g[i - 1], len)
    BY <1>3, <1>4, <1>6, <2>1
  <2>3. Later(MergeRound(f[i - 1], raw[i], len), MergeRound(g[i - 1], raw[i], len + 1), len)
    BY <1>1, <2>2, MergeLaterStep
  <2> QED BY <1>3, <1>4, <2>1, <2>3
<1>7. \A i \in 0 .. n : i \in D
  <2> HIDE DEF D, n
  <2> QED BY <1>1, <1>5, <1>6, UpTo
<1>8. n \in 0 .. n /\ Later(f[n], g[n], len) /\ InOrder(f[n], len)
  BY <1>1, <1>3, <1>7
<1> DEFINE segs == f[n]
           next == g[n]
<1>9. Grows(segs, next)
  <2>1. Later(segs, next, len) /\ segs \in Seq(Pairs)
    BY <1>8 DEF InOrder
  <2> HIDE DEF segs, next
  <2>2. Len(segs) \in Nat /\ (segs # <<>> => Len(segs) \in 1 .. Len(segs))
        /\ \A i \in 1 .. Len(segs) : segs[i][2] \in Nat
    BY <2>1, LenProperties, EmptySeq DEF Pairs
  <2>3. ASSUME segs # <<>>
        PROVE  /\ next[Len(segs)][1] = segs[Len(segs)][1]
               /\ next[Len(segs)][2] >= segs[Len(segs)][2]
    BY <2>1, <2>2, <2>3 DEF Later
  <2> QED BY <2>1, <2>2, <2>3 DEF Later, Grows
<1> QED BY <1>3, <1>4, <1>9

\* A sample more, when all windows judged so far are full.
LEMMA AudioGrows ==
  ASSUME NEW len \in Nat, NEW probs, Decisions(len, probs),
         \A i \in DOMAIN probs : probs[i].start + VadWindow <= len
  PROVE  Grows(Segments(len, probs), Segments(len + 1, probs))
<1> DEFINE raw == RawSegments(len, probs)
<1>1. raw \in Seq(Pairs) /\ Fit(raw, len)
  BY RawSegmentsFit
<1>2. RawSegments(len + 1, probs) = raw
  <2>1. Scan(len + 1, probs) = Scan(len, probs)
    BY ScanLater DEF Decisions
  <2> QED BY <2>1 DEF RawSegments, OpenSegment
<1> HIDE DEF raw
<1>3. Grows(Merged(len, raw), Merged(len + 1, raw))
  BY <1>1, MergeLater
<1> QED BY <1>2, <1>3 DEF Segments, raw
=============================================================================
