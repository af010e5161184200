---------------------------- MODULE RecordingProofs --------------------------
(***************************************************************************)
(* MCVad's properties, for every recording and every stream of decisions:  *)
(* the segments are the padded utterances; those that the scheduler has    *)
(* announced stay what they are; the windows of transcription_windows fit  *)
(* the encoder, come in order, leave no speech out, and none is closed     *)
(* before it has to be.                                                    *)
(***************************************************************************)
EXTENDS MCVad, VadProofs

-----------------------------------------------------------------------------
(* Sequences of windows. *)

\* Windows that the encoder takes, one after the other, up to a sample.
Packed(ws, upTo) ==
    /\ ws \in Seq(Pairs)
    /\ \A i \in DOMAIN ws : /\ ws[i][1] < ws[i][2] /\ ws[i][2] <= upTo
                            /\ ws[i][2] - ws[i][1] <= N_SAMPLES
    /\ \A i \in DOMAIN ws : i - 1 \in DOMAIN ws => ws[i - 1][2] <= ws[i][1]

InWindow(ws, x) == \E i \in DOMAIN ws : ws[i][1] <= x /\ x < ws[i][2]

\* The windows of a stretch.
Within(ws, from, to) ==
    /\ Packed(ws, to)
    /\ \A i \in DOMAIN ws : from <= ws[i][1]
    /\ \A x \in from .. to - 1 : InWindow(ws, x)

\* A stretch cut every N_SAMPLES: all of it, and nothing but it.
LEMMA PiecesFit ==
  ASSUME NEW from \in Nat, NEW to \in Nat, from <= to
  PROVE  Within(Pieces(from, to), from, to)
<1> DEFINE c == N_SAMPLES
           m == to - from + c - 1
           n == m \div c
           ps == Pieces(from, to)
           s(i) == from + (i - 1) * c
<1>1. c \in Nat \ {0}
  BY WindowsAssumption
<1>2. m \in Nat /\ n \in Nat /\ n * c <= m /\ m < n * c + c
  BY <1>1
<1>3. \A k \in Nat : k * c \in Nat /\ (k + 1) * c = k * c + c
  BY <1>1
<1>4. \A k, l \in Nat : k <= l => k * c <= l * c
  BY <1>1
<1>5. ASSUME NEW i \in 1 .. n PROVE s(i) \in Nat /\ s(i) < to /\ s(i + 1) = s(i) + c
  <2>1. i - 1 \in Nat /\ n - 1 \in Nat /\ i - 1 <= n - 1 /\ i + 1 - 1 = i
    BY <1>2
  <2>2. (i - 1) * c <= (n - 1) * c /\ (i - 1) * c \in Nat
    BY <1>3, <1>4, <2>1
  <2>3. n * c = (n - 1) * c + c /\ i * c = (i - 1) * c + c
    <3>1. (n - 1) + 1 = n /\ (i - 1) + 1 = i
      BY <1>2
    <3> HIDE DEF n, c
    <3> QED BY <1>3, <2>1, <3>1
  <2> QED BY <1>1, <1>2, <2>1, <2>2, <2>3
<1>6. /\ ps = [i \in 1 .. n |-> <<s(i), IF s(i) + c <= to THEN s(i) + c ELSE to>>]
  BY DEF Pieces
<1>7. \A k \in Nat : s(k + 1) = from + k * c
  <2> TAKE k \in Nat
  <2>1. (k + 1) - 1 = k
    OBVIOUS
  <2> HIDE DEF c
  <2> QED BY <2>1
<1> HIDE DEF s, n, m, c, ps
<1>8. ASSUME NEW i \in 1 .. n
      PROVE  /\ ps[i] \in Pairs /\ ps[i][1] = s(i) /\ from <= s(i)
             /\ ps[i][2] = (IF s(i) + c <= to THEN s(i) + c ELSE to)
             /\ s(i) < ps[i][2] /\ ps[i][2] <= to /\ ps[i][2] - s(i) <= c
  <2>1. s(i) \in Nat /\ s(i) < to
    BY <1>5
  <2>2. ps[i] = <<s(i), IF s(i) + c <= to THEN s(i) + c ELSE to>>
    BY <1>6
  <2>3. from <= s(i)
    <3>1. i - 1 \in Nat
      BY <1>2
    <3> QED BY <1>3, <3>1 DEF s
  <2> QED BY <1>1, <2>1, <2>2, <2>3 DEF Pairs
<1>9. ps \in Seq(Pairs) /\ Len(ps) = n /\ DOMAIN ps = 1 .. n
  <2>1. ps \in [1 .. n -> Pairs]
    BY <1>6, <1>8
  <2> QED BY <1>2, <2>1
<1>10. ASSUME NEW i \in 1 .. n, i - 1 \in 1 .. n PROVE ps[i - 1][2] <= ps[i][1]
  <2>1. s(i - 1) + c = s(i) /\ s(i) < to /\ s(i) \in Nat
    <3>1. i - 1 + 1 = i
      OBVIOUS
    <3> QED BY <1>5, <1>10, <3>1
  <2> QED BY <1>8, <1>10, <2>1
<1>11. ASSUME NEW x \in from .. to - 1
       PROVE  \E i \in 1 .. n : ps[i][1] <= x /\ x < ps[i][2]
  <2> DEFINE k == (x - from) \div c
  <2>1. k \in Nat /\ k * c <= x - from /\ x - from < k * c + c
    BY <1>1
  <2> HIDE DEF k
  <2>2. k < n
    <3> SUFFICES ASSUME n <= k PROVE FALSE
      BY <1>2, <2>1
    <3>1. n * c <= k * c /\ k * c \in Nat /\ n * c \in Nat
      BY <1>2, <1>3, <1>4, <2>1
    <3> QED BY <1>1, <1>2, <2>1, <3>1 DEF m
  <2>3. k + 1 \in 1 .. n /\ s(k + 1) = from + k * c
    <3>1. k + 1 \in 1 .. n
      BY <1>2, <2>1, <2>2
    <3> QED BY <2>1, <3>1, <1>7
  <2>4. s(k + 1) <= x /\ x < s(k + 1) + c
    BY <1>1, <1>3, <2>1, <2>3
  <2> QED BY <1>8, <2>3, <2>4
<1> QED BY <1>8, <1>9, <1>10, <1>11 DEF Within, Packed, InWindow, c, ps

\* q is ws and one more window.
AddsOne(q, ws, w) ==
    /\ Len(q) = Len(ws) + 1
    /\ \A i \in DOMAIN q : \/ i \in DOMAIN ws /\ q[i] = ws[i]
                           \/ i = Len(ws) + 1 /\ q[i] = w
    /\ \A i \in DOMAIN ws : i \in DOMAIN q /\ q[i] = ws[i]
    /\ Len(ws) + 1 \in DOMAIN q /\ q[Len(ws) + 1] = w

\* One more window after the others.
LEMMA AppendPacked ==
  ASSUME NEW upTo \in Nat, NEW ws, Packed(ws, upTo),
         NEW a \in Nat, NEW b \in Nat, upTo <= a, a < b, b - a <= N_SAMPLES
  PROVE  Packed(Append(ws, <<a, b>>), b) /\ AddsOne(Append(ws, <<a, b>>), ws, <<a, b>>)
<1> DEFINE p == <<a, b>>
           q == Append(ws, p)
           n == Len(ws)
<1>1. p \in Pairs /\ p[1] = a /\ p[2] = b
  BY DEF Pairs
<1> HIDE DEF p
<1>2. ws \in Seq(Pairs) /\ n \in Nat /\ DOMAIN ws = 1 .. n
      /\ \A i \in 1 .. n : ws[i][1] \in Nat /\ ws[i][2] \in Nat
  BY LenProperties DEF Packed, Pairs
<1>3. /\ q \in Seq(Pairs) /\ Len(q) = n + 1 /\ DOMAIN q = 1 .. n + 1
      /\ \A i \in 1 .. n : q[i] = ws[i]
      /\ q[n + 1] = p
  BY <1>1, <1>2, AppendProperties, LenProperties
<1> HIDE DEF q
<1>4. ASSUME NEW i \in 1 .. n + 1
      PROVE  q[i][1] < q[i][2] /\ q[i][2] <= b /\ q[i][2] - q[i][1] <= N_SAMPLES
  <2>1. CASE i = n + 1
    BY <1>1, <1>3, <2>1
  <2>2. CASE i \in 1 .. n
    <3>1. ws[i][1] < ws[i][2] /\ ws[i][2] <= upTo /\ ws[i][2] - ws[i][1] <= N_SAMPLES
      BY <1>2, <2>2 DEF Packed
    <3> QED BY <1>2, <1>3, <2>2, <3>1
  <2> QED BY <1>2, <2>1, <2>2
<1>5. ASSUME NEW i \in 1 .. n + 1, i - 1 \in 1 .. n + 1 PROVE q[i - 1][2] <= q[i][1]
  <2>1. CASE i = n + 1
    BY <1>1, <1>2, <1>3, <1>5, <2>1, SMTT(30) DEF Packed
  <2>2. CASE i \in 1 .. n
    <3>1. i - 1 \in 1 .. n
      BY <1>2, <1>5, <2>2
    <3> QED BY <1>2, <1>3, <2>2, <3>1 DEF Packed
  <2> QED BY <1>2, <2>1, <2>2
<1>6. Packed(q, b)
  BY <1>3, <1>4, <1>5 DEF Packed
<1>7. AddsOne(q, ws, p)
  BY <1>2, <1>3 DEF AddsOne
<1> QED BY <1>6, <1>7 DEF q, p

\* The windows of a stretch after the others.
LEMMA ConcatPacked ==
  ASSUME NEW upTo \in Nat, NEW ws, Packed(ws, upTo),
         NEW from \in Nat, NEW to \in Nat, upTo <= from, from <= to,
         NEW ps, Within(ps, from, to)
  PROVE  /\ Packed(ws \o ps, to)
         /\ \A i \in DOMAIN (ws \o ps) :
               \/ i \in DOMAIN ws /\ (ws \o ps)[i] = ws[i]
               \/ \E k \in DOMAIN ps : (ws \o ps)[i] = ps[k]
         /\ \A x \in Nat : InWindow(ws, x) \/ InWindow(ps, x) => InWindow(ws \o ps, x)
<1> DEFINE q == ws \o ps
           n == Len(ws)
           m == Len(ps)
<1>1. ws \in Seq(Pairs) /\ n \in Nat /\ DOMAIN ws = 1 .. n
      /\ \A i \in 1 .. n : ws[i][1] \in Nat /\ ws[i][2] \in Nat
  BY LenProperties DEF Packed, Pairs
<1>2. ps \in Seq(Pairs) /\ m \in Nat /\ DOMAIN ps = 1 .. m
      /\ \A i \in 1 .. m : ps[i][1] \in Nat /\ ps[i][2] \in Nat
  BY LenProperties DEF Within, Packed, Pairs
<1>3. /\ q \in Seq(Pairs) /\ Len(q) = n + m /\ DOMAIN q = 1 .. n + m
      /\ \A i \in 1 .. n : q[i] = ws[i]
      /\ \A i \in 1 .. m : q[n + i] = ps[i]
  <2>1. q \in Seq(Pairs) /\ Len(q) = n + m
        /\ \A i \in 1 .. n + m : q[i] = IF i <= n THEN ws[i] ELSE ps[i - n]
    BY <1>1, <1>2, ConcatProperties
  <2>2. \A i \in 1 .. m : n + i \in 1 .. n + m /\ ~(n + i <= n) /\ n + i - n = i
    BY <1>1, <1>2
  <2>3. \A i \in 1 .. n : i \in 1 .. n + m /\ i <= n
    BY <1>1, <1>2
  <2>4. DOMAIN q = 1 .. n + m
    BY <2>1, LenProperties
  <2>5. \A i \in 1 .. n : q[i] = ws[i]
    BY <2>1, <2>3
  <2>6. \A i \in 1 .. m : q[n + i] = ps[i]
    <3> TAKE i \in 1 .. m
    <3> DEFINE k == n + i
    <3>1. k \in 1 .. n + m /\ ~(k <= n) /\ k - n = i
      BY <2>2
    <3> HIDE DEF k, q
    <3>2. q[k] = ps[i]
      BY <2>1, <3>1
    <3> QED BY <3>2 DEF k
  <2> QED BY <2>1, <2>4, <2>5, <2>6
<1> HIDE DEF q
<1>4. \A i \in 1 .. n + m : i \in 1 .. n \/ (i - n \in 1 .. m /\ q[i] = ps[i - n])
  <2> TAKE i \in 1 .. n + m
  <2>1. CASE i <= n
    BY <1>1, <2>1
  <2>2. CASE i > n
    <3>1. i - n \in 1 .. m /\ n + (i - n) = i
      BY <1>1, <1>2, <2>2
    <3> QED BY <1>3, <3>1
  <2> QED BY <1>1, <2>1, <2>2
<1>5. ASSUME NEW i \in 1 .. n + m
      PROVE  q[i][1] < q[i][2] /\ q[i][2] <= to /\ q[i][2] - q[i][1] <= N_SAMPLES
  <2>1. CASE i \in 1 .. n
    <3>1. ws[i][1] < ws[i][2] /\ ws[i][2] <= upTo /\ ws[i][2] - ws[i][1] <= N_SAMPLES
      BY <1>1, <2>1 DEF Packed
    <3> QED BY <1>1, <1>3, <2>1, <3>1
  <2>2. CASE i - n \in 1 .. m /\ q[i] = ps[i - n]
    BY <1>2, <2>2 DEF Within, Packed
  <2> QED BY <1>4, <2>1, <2>2
<1>6. ASSUME NEW i \in 1 .. n + m, i - 1 \in 1 .. n + m PROVE q[i - 1][2] <= q[i][1]
  <2>1. CASE i \in 1 .. n
    <3>1. i - 1 \in 1 .. n
      BY <1>1, <1>6, <2>1
    <3> QED BY <1>1, <1>3, <2>1, <3>1 DEF Packed
  <2>2. CASE i = n + 1
    <3>1. i - 1 \in 1 .. n /\ i - n \in 1 .. m /\ q[i] = ps[i - n]
      BY <1>1, <1>2, <1>4, <1>6, <2>2
    <3>2. q[i - 1] = ws[i - 1] /\ ws[i - 1][2] <= upTo /\ ws[i - 1][2] \in Nat
      BY <1>1, <1>3, <3>1 DEF Packed
    <3>3. from <= ps[i - n][1] /\ ps[i - n][1] \in Nat
      BY <1>2, <3>1 DEF Within
    <3> QED BY <3>1, <3>2, <3>3
  <2>3. CASE i > n + 1
    <3> DEFINE k == i - n
    <3>1. k \in 1 .. m /\ k - 1 \in 1 .. m /\ n + k = i /\ n + (k - 1) = i - 1
      BY <1>1, <1>2, <2>3
    <3>2. q[i] = ps[k] /\ q[i - 1] = ps[k - 1]
      BY <1>3, <3>1
    <3> HIDE DEF k
    <3> QED BY <1>2, <3>1, <3>2 DEF Within, Packed
  <2> QED BY <1>1, <2>1, <2>2, <2>3
<1>7. Packed(q, to)
  BY <1>3, <1>5, <1>6 DEF Packed
<1>8. ASSUME NEW x \in Nat, InWindow(ws, x) \/ InWindow(ps, x) PROVE InWindow(q, x)
  <2>1. CASE InWindow(ws, x)
    <3>1. PICK i \in 1 .. n : ws[i][1] <= x /\ x < ws[i][2]
      BY <1>1, <2>1 DEF InWindow
    <3>2. i \in 1 .. n + m /\ q[i] = ws[i]
      BY <1>1, <1>2, <1>3
    <3> QED BY <1>3, <3>1, <3>2 DEF InWindow
  <2>2. CASE InWindow(ps, x)
    <3>1. PICK i \in 1 .. m : ps[i][1] <= x /\ x < ps[i][2]
      BY <1>2, <2>2 DEF InWindow
    <3>2. n + i \in 1 .. n + m /\ q[n + i] = ps[i]
      BY <1>1, <1>2, <1>3
    <3> QED BY <1>3, <3>1, <3>2 DEF InWindow
  <2> QED BY <1>8, <2>1, <2>2
<1> QED BY <1>1, <1>2, <1>3, <1>4, <1>7, <1>8 DEF q

-----------------------------------------------------------------------------
(* The loop over the segments. *)

Groups == [windows : Seq(Pairs), start : Nat \cup {NoGroup}, end : Nat, speech : Nat]

\* A round of the loop goes from group state to group state.
LEMMA TakeTyped ==
  ASSUME NEW g \in Groups, NEW seg \in Pairs, seg[1] < seg[2]
  PROVE  TakeSegment(g, seg) \in Groups
<1>1. seg[1] \in Nat /\ seg[2] \in Nat
  BY DEF Pairs
<1>2. Flush(g) \in Seq(Pairs)
  <2>1. CASE g.start = NoGroup
    BY <2>1 DEF Flush, Groups
  <2>2. CASE g.start # NoGroup
    <3>1. <<g.start, g.end>> \in Pairs
      BY <2>2 DEF Groups, Pairs
    <3> QED BY <2>2, <3>1, AppendProperties DEF Flush, Groups
  <2> QED BY <2>1, <2>2
<1>3. Pieces(seg[1], seg[2]) \in Seq(Pairs)
  <2>1. seg[1] <= seg[2]
    BY <1>1
  <2>2. Within(Pieces(seg[1], seg[2]), seg[1], seg[2])
    BY <1>1, <2>1, PiecesFit
  <2> QED BY <2>2 DEF Within, Packed
<1>4. Flush(g) \o Pieces(seg[1], seg[2]) \in Seq(Pairs)
  BY <1>2, <1>3, ConcatProperties
<1>5. TakeLong(g, seg) \in Groups
  BY <1>4 DEF TakeLong, Groups
<1>6. TakeShort(g, seg) \in Groups
  <2> DEFINE open == IF Overflows(g, seg)
                     THEN [g EXCEPT !.windows = Flush(g), !.start = NoGroup, !.speech = 0]
                     ELSE g
  <2>1. open \in Groups
    BY <1>2 DEF Groups
  <2>2. TakeShort(g, seg) = [open EXCEPT !.start  = IF @ = NoGroup THEN seg[1] ELSE @,
                                         !.end    = seg[2],
                                         !.speech = @ + (seg[2] - seg[1])]
    BY DEF TakeShort
  <2> HIDE DEF open
  <2>3. open.speech + (seg[2] - seg[1]) \in Nat
    BY <1>1, <2>1 DEF Groups
  <2> QED BY <1>1, <2>1, <2>2, <2>3 DEF Groups
<1> QED BY <1>5, <1>6 DEF TakeSegment

\* The groups as the loop makes them.
LEMMA GroupsAreLoop ==
  ASSUME NEW segs \in Seq(Pairs), NEW len, Fit(segs, len)
  PROVE  \E group \in [0 .. Len(segs) -> Groups] :
           /\ group[0] = [windows |-> <<>>, start |-> NoGroup, end |-> 0, speech |-> 0]
           /\ \A i \in 1 .. Len(segs) : group[i] = TakeSegment(group[i - 1], segs[i])
           /\ VadAudioWindows(segs) = Flush(group[Len(segs)])
<1> DEFINE n == Len(segs)
           a == [windows |-> <<>>, start |-> NoGroup, end |-> 0, speech |-> 0]
           step == [i \in 1 .. n |-> [g \in Groups |-> TakeSegment(g, segs[i])]]
           F(f) == [i \in 0 .. n |-> IF i = 0 THEN a ELSE TakeSegment(f[i - 1], segs[i])]
           group == CHOOSE f : f = F(f)
<1>1. n \in Nat /\ \A i \in 1 .. n : segs[i] \in Pairs /\ segs[i][1] < segs[i][2]
  BY LenProperties DEF Fit
<1>2. a \in Groups
  BY EmptySeq DEF Groups
<1>3. step \in [1 .. n -> [Groups -> Groups]]
  BY <1>1, TakeTyped
<1>4. PICK f : IsLoop(f, n, Groups, a, step)
  <2> HIDE DEF n, a, step
  <2> QED BY <1>1, <1>2, <1>3, LoopExists DEF Rounds
<1>5. ASSUME NEW i \in 1 .. n PROVE f[i] = TakeSegment(f[i - 1], segs[i])
  <2>1. f[i] = step[i][f[i - 1]] /\ f[i - 1] \in Groups
    <3> HIDE DEF step, a
    <3> QED BY <1>4, <1>1 DEF IsLoop
  <2> QED BY <2>1
<1>6. f = F(f)
  <2> HIDE DEF step, a
  <2> QED BY <1>4, <1>5 DEF IsLoop
<1>7. group = F(group)
  BY <1>6
<1>8. \A i \in 0 .. n : group[i] \in Groups
  <2> DEFINE D == {i \in 0 .. n : group[i] \in Groups}
  <2> HIDE DEF group, a
  <2>1. 0 \in D
    BY <1>7, <1>1, <1>2
  <2>2. ASSUME NEW i \in 1 .. n, i - 1 \in D PROVE i \in D
    <3>1. group[i] = TakeSegment(group[i - 1], segs[i])
      BY <1>7
    <3>2. group[i - 1] \in Groups /\ segs[i] \in Pairs /\ segs[i][1] < segs[i][2]
      BY <2>2, <1>1
    <3>3. group[i] \in Groups
      BY <3>1, <3>2, TakeTyped
    <3> QED BY <3>3
  <2>3. \A i \in 0 .. n : i \in D
    <3> HIDE DEF D, n
    <3> QED BY <1>1, <2>1, <2>2, UpTo
  <2> QED BY <2>3
<1>9. VadAudioWindows(segs) = Flush(group[n])
  BY DEF VadAudioWindows
<1>10. group \in [0 .. n -> Groups] /\ group[0] = a
       /\ \A i \in 1 .. n : group[i] = TakeSegment(group[i - 1], segs[i])
  <2> HIDE DEF group, a
  <2>1. group = [i \in 0 .. n |-> group[i]]
    BY <1>7
  <2>2. group[0] = a
    BY <1>1, <1>7
  <2>3. \A i \in 1 .. n : group[i] = TakeSegment(group[i - 1], segs[i])
    BY <1>1, <1>7
  <2> QED BY <1>8, <2>1, <2>2, <2>3
<1> QED BY <1>9, <1>10

\* A window is a piece of a long segment, or whole segments that could not have
\* been one more: MCVad's words for it, of any segments.
Piece(w, segs) == \E i \in DOMAIN segs :
                      Long(segs[i]) /\ segs[i][1] <= w[1] /\ w[2] <= segs[i][2]
Whole(w, segs) ==
    \E i \in DOMAIN segs : \E j \in i .. Len(segs) :
        /\ w = <<segs[i][1], segs[j][2]>>
        /\ \A k \in i .. j : ~Long(segs[k])
        /\ j < Len(segs) => Long(segs[j + 1]) \/ segs[j + 1][2] - w[1] > N_SAMPLES
AllFull(ws, segs) == \A i \in DOMAIN ws : Piece(ws[i], segs) \/ Whole(ws[i], segs)

\* The end of the last of k segments.
EndAt(segs, k) == IF k = 0 THEN 0 ELSE segs[k][2]

\* The open group: whole segments up to the k-th, which still fit a window.
OpenGroup(g, segs, k) ==
    /\ g.start \in Nat /\ g.end = segs[k][2]
    /\ g.start < g.end /\ g.end - g.start <= N_SAMPLES
    /\ g.speech <= g.end - g.start
    /\ \E i \in 1 .. k : g.start = segs[i][1] /\ \A j \in i .. k : ~Long(segs[j])

\* The windows and the group after k segments.
Grouped(g, segs, k) ==
    /\ Packed(g.windows, IF g.start = NoGroup THEN EndAt(segs, k) ELSE g.start)
    /\ AllFull(g.windows, segs)
    /\ \A j \in 1 .. k : \A x \in segs[j][1] .. segs[j][2] - 1 :
          InWindow(g.windows, x) \/ (g.start # NoGroup /\ g.start <= x /\ x < g.end)
    /\ g.start = NoGroup => g.speech = 0
    /\ g.start # NoGroup => k > 0 /\ OpenGroup(g, segs, k)

\* A group may be closed before the next segment.
MayClose(g, segs, k) ==
    g.start # NoGroup /\ k < Len(segs) =>
        Long(segs[k + 1]) \/ segs[k + 1][2] - g.start > N_SAMPLES

\* The windows when the group is closed.
LEMMA FlushFits ==
  ASSUME NEW len \in Nat, NEW segs, InOrder(segs, len), NEW k \in 0 .. Len(segs),
         NEW g \in Groups, Grouped(g, segs, k), MayClose(g, segs, k)
  PROVE  /\ Packed(Flush(g), EndAt(segs, k))
         /\ AllFull(Flush(g), segs)
         /\ \A j \in 1 .. k : \A x \in segs[j][1] .. segs[j][2] - 1 : InWindow(Flush(g), x)
<1> DEFINE n == Len(segs)
<1>1. /\ segs \in Seq(Pairs) /\ n \in Nat /\ DOMAIN segs = 1 .. n
      /\ \A i \in 1 .. n : segs[i][1] \in Nat /\ segs[i][2] \in Nat
  BY LenProperties DEF InOrder, Pairs
<1>2. CASE g.start = NoGroup
  <2>1. Flush(g) = g.windows
    BY <1>2 DEF Flush
  <2> QED BY <1>2, <2>1 DEF Grouped
<1>3. CASE g.start # NoGroup
  <2> DEFINE ws == g.windows
             w == <<g.start, g.end>>
             q == Append(ws, w)
  <2>1. Flush(g) = q
    BY <1>3 DEF Flush
  <2>2. k \in 1 .. n /\ OpenGroup(g, segs, k) /\ Packed(ws, g.start) /\ EndAt(segs, k) = g.end
    BY <1>1, <1>3 DEF Grouped, EndAt, OpenGroup
  <2>3. g.start \in Nat /\ g.end \in Nat /\ g.start < g.end /\ g.end - g.start <= N_SAMPLES
    BY <1>1, <2>2 DEF OpenGroup
  <2>4. Packed(q, g.end) /\ AddsOne(q, ws, w)
    <3> DEFINE a == g.start
               b == g.end
    <3>1. a \in Nat /\ b \in Nat /\ a <= a /\ a < b /\ b - a <= N_SAMPLES /\ Packed(ws, a)
      BY <2>2, <2>3
    <3> HIDE DEF a, b, ws
    <3>2. Packed(Append(ws, <<a, b>>), b) /\ AddsOne(Append(ws, <<a, b>>), ws, <<a, b>>)
      BY <3>1, AppendPacked
    <3> QED BY <3>2 DEF a, b
  <2>5. Whole(w, segs)
    <3>1. PICK i \in 1 .. k : g.start = segs[i][1] /\ \A j \in i .. k : ~Long(segs[j])
      BY <2>2 DEF OpenGroup
    <3>2. i \in 1 .. n /\ k \in i .. n /\ w = <<segs[i][1], segs[k][2]>> /\ w[1] = g.start
      BY <1>1, <2>2, <3>1 DEF OpenGroup
    <3>3. k < n => Long(segs[k + 1]) \/ segs[k + 1][2] - w[1] > N_SAMPLES
      BY <1>3, <3>2 DEF MayClose
    <3> QED BY <1>1, <3>1, <3>2, <3>3 DEF Whole
  <2>6. AllFull(q, segs)
    BY <2>4, <2>5 DEF Grouped, AllFull, AddsOne
  <2>7. ASSUME NEW j \in 1 .. k, NEW x \in segs[j][1] .. segs[j][2] - 1 PROVE InWindow(q, x)
    <3>1. InWindow(ws, x) \/ (g.start <= x /\ x < g.end)
      BY DEF Grouped
    <3>2. CASE InWindow(ws, x)
      BY <2>4, <3>2 DEF InWindow, AddsOne
    <3>3. CASE g.start <= x /\ x < g.end
      <4>1. w[1] = g.start /\ w[2] = g.end
        OBVIOUS
      <4> HIDE DEF w
      <4> QED BY <2>4, <3>3, <4>1 DEF InWindow, AddsOne
    <3> QED BY <3>1, <3>2, <3>3
  <2> HIDE DEF q
  <2> QED BY <2>1, <2>2, <2>4, <2>6, <2>7
<1> QED BY <1>2, <1>3

\* Segments lie one after the other.
LEMMA NextSegment ==
  ASSUME NEW len \in Nat, NEW segs, InOrder(segs, len), NEW k \in 1 .. Len(segs)
  PROVE  /\ segs[k] \in Pairs /\ segs[k][1] \in Nat /\ segs[k][2] \in Nat
         /\ segs[k][1] < segs[k][2] /\ EndAt(segs, k) = segs[k][2]
         /\ EndAt(segs, k - 1) \in Nat /\ EndAt(segs, k - 1) <= segs[k][1]
         /\ k > 1 => segs[k - 1][2] \in Nat /\ segs[k - 1][2] < segs[k][1]
<1>1. Len(segs) \in Nat /\ DOMAIN segs = 1 .. Len(segs)
      /\ \A i \in 1 .. Len(segs) : /\ segs[i] \in Pairs /\ segs[i][1] < segs[i][2]
                                   /\ segs[i][1] \in Nat /\ segs[i][2] \in Nat
  BY LenProperties DEF InOrder, Fit, Pairs
<1>2. CASE k = 1
  BY <1>1, <1>2 DEF EndAt
<1>3. CASE k > 1
  <2>1. k - 1 \in 1 .. Len(segs) /\ k - 1 < k /\ k - 1 # 0 /\ k # 0
    BY <1>1, <1>3
  <2>2. segs[k - 1][2] < segs[k][1]
    BY <1>1, <2>1 DEF InOrder
  <2> QED BY <1>1, <2>1, <2>2 DEF EndAt
<1> QED BY <1>1, <1>2, <1>3

\* Windows up to a sample are windows up to a later one.
LEMMA PackedLater ==
  ASSUME NEW a \in Nat, NEW b \in Nat, a <= b, NEW ws, Packed(ws, a)
  PROVE  Packed(ws, b)
<1>1. \A i \in DOMAIN ws : ws[i][2] \in Nat /\ ws[i][2] <= a
  BY LenProperties DEF Packed, Pairs
<1>2. \A i \in DOMAIN ws : ws[i][2] <= b
  BY <1>1
<1> QED BY <1>2 DEF Packed

\* A round with a segment that is longer than a window.
LEMMA LongStep ==
  ASSUME NEW len \in Nat, NEW segs, InOrder(segs, len), NEW k \in 1 .. Len(segs),
         NEW g \in Groups, Grouped(g, segs, k - 1), Long(segs[k])
  PROVE  Grouped(TakeLong(g, segs[k]), segs, k)
<1> DEFINE from == segs[k][1]
           to == segs[k][2]
           ws == Flush(g)
           ps == Pieces(from, to)
           h == TakeLong(g, segs[k])
<1>1. /\ from \in Nat /\ to \in Nat /\ from <= to
      /\ EndAt(segs, k) = to /\ EndAt(segs, k - 1) \in Nat /\ EndAt(segs, k - 1) <= from
  BY NextSegment
<1>2. Len(segs) \in Nat /\ DOMAIN segs = 1 .. Len(segs)
  BY LenProperties DEF InOrder
<1>3. k - 1 \in 0 .. Len(segs) /\ (k - 1) + 1 = k
  BY <1>2
<1>4. MayClose(g, segs, k - 1)
  BY <1>3 DEF MayClose
<1>5. /\ Packed(ws, EndAt(segs, k - 1)) /\ AllFull(ws, segs)
      /\ \A j \in 1 .. k - 1 : \A x \in segs[j][1] .. segs[j][2] - 1 : InWindow(ws, x)
  BY <1>3, <1>4, FlushFits
<1>6. Within(ps, from, to)
  BY <1>1, PiecesFit
<1>7. /\ h.windows = ws \o ps /\ h.start = NoGroup
      /\ h.speech = IF g.start = NoGroup THEN g.speech ELSE 0
  BY DEF TakeLong
<1> HIDE DEF ws, ps, from, to, h
<1>8. /\ Packed(ws \o ps, to)
      /\ \A i \in DOMAIN (ws \o ps) : \/ i \in DOMAIN ws /\ (ws \o ps)[i] = ws[i]
                                      \/ \E l \in DOMAIN ps : (ws \o ps)[i] = ps[l]
      /\ \A x \in Nat : InWindow(ws, x) \/ InWindow(ps, x) => InWindow(ws \o ps, x)
  BY <1>1, <1>5, <1>6, ConcatPacked
<1>9. AllFull(h.windows, segs)
  <2>1. ASSUME NEW l \in DOMAIN ps PROVE Piece(ps[l], segs)
    <3>1. from <= ps[l][1] /\ ps[l][2] <= to
      BY <1>6 DEF Within, Packed
    <3> QED BY <1>2, <3>1 DEF Piece, from, to
  <2> QED BY <1>5, <1>7, <1>8, <2>1 DEF AllFull
<1>10. ASSUME NEW j \in 1 .. k, NEW x \in segs[j][1] .. segs[j][2] - 1
       PROVE  InWindow(h.windows, x)
  <2>1. x \in Nat
    <3>1. j \in 1 .. Len(segs)
      BY <1>2
    <3>2. segs[j][1] \in Nat
      BY <3>1, NextSegment
    <3> QED BY <3>2
  <2>2. CASE j = k
    <3>1. x \in from .. to - 1
      BY <2>2 DEF from, to
    <3> QED BY <1>6, <1>7, <1>8, <2>1, <3>1 DEF Within
  <2>3. CASE j \in 1 .. k - 1
    BY <1>5, <1>7, <1>8, <2>1, <2>3
  <2> QED BY <1>2, <2>2, <2>3
<1>11. h.speech = 0
  BY <1>7 DEF Grouped
<1> QED BY <1>1, <1>7, <1>8, <1>9, <1>10, <1>11 DEF Grouped, h

\* Speech of a group and of the segment after it is within the two.
LEMMA SpeechWithin ==
  ASSUME NEW start \in Nat, NEW end \in Nat, NEW speech \in Nat,
         NEW from \in Nat, NEW to \in Nat,
         start < end, end < from, from < to, speech <= end - start
  PROVE  start < to /\ speech + (to - from) <= to - start /\ speech + (to - from) \in Nat
         /\ to - start \in Nat
OBVIOUS

\* A group that has no room for a segment may be closed before it: its speech
\* is no longer than the group, so either of the two overflows is the first.
LEMMA OverflowCloses ==
  ASSUME NEW len \in Nat, NEW segs, InOrder(segs, len), NEW k \in 1 .. Len(segs),
         NEW g \in Groups, Grouped(g, segs, k - 1), Overflows(g, segs[k])
  PROVE  MayClose(g, segs, k - 1)
<1>1. segs[k][1] \in Nat /\ segs[k][2] \in Nat /\ segs[k][1] < segs[k][2]
      /\ (k > 1 => segs[k - 1][2] \in Nat /\ segs[k - 1][2] < segs[k][1])
  BY NextSegment
<1>2. Len(segs) \in Nat
  BY LenProperties DEF InOrder
<1>3. k - 1 > 0 /\ OpenGroup(g, segs, k - 1) /\ g.start # NoGroup
  BY DEF Overflows, Grouped
<1>4. g.start \in Nat /\ g.end \in Nat /\ g.speech \in Nat
      /\ g.speech <= g.end - g.start /\ g.end < segs[k][1]
  BY <1>1, <1>2, <1>3 DEF OpenGroup, Groups
<1>5. N_SAMPLES \in Nat
  BY WindowsAssumption
<1>6. segs[k][2] - g.start > N_SAMPLES
  <2> DEFINE st == g.start
             en == g.end
             sp == g.speech
             fr == segs[k][1]
             to == segs[k][2]
  <2>1. /\ st \in Nat /\ en \in Nat /\ sp \in Nat /\ fr \in Nat /\ to \in Nat
        /\ st < en /\ en < fr /\ fr < to /\ sp <= en - st
    BY <1>1, <1>3, <1>4 DEF OpenGroup
  <2>2. to - st > N_SAMPLES \/ sp + (to - fr) > N_SAMPLES
    BY DEF Overflows
  <2> HIDE DEF st, en, sp, fr, to
  <2>3. sp + (to - fr) <= to - st /\ sp + (to - fr) \in Nat /\ to - st \in Nat
    BY <2>1, SpeechWithin
  <2>4. to - st > N_SAMPLES
    BY <1>5, <2>2, <2>3
  <2> QED BY <2>4 DEF st, to
<1>7. (k - 1) + 1 = k
  BY <1>2
<1> QED BY <1>6, <1>7 DEF MayClose

\* The group that a short segment finds: the old one, or none.
Open(g, seg) ==
    IF Overflows(g, seg)
    THEN [g EXCEPT !.windows = Flush(g), !.start = NoGroup, !.speech = 0]
    ELSE g

LEMMA OpenFits ==
  ASSUME NEW len \in Nat, NEW segs, InOrder(segs, len), NEW k \in 1 .. Len(segs),
         NEW g \in Groups, Grouped(g, segs, k - 1)
  PROVE  /\ Open(g, segs[k]) \in Groups /\ Grouped(Open(g, segs[k]), segs, k - 1)
         /\ ~Overflows(Open(g, segs[k]), segs[k])
<1> DEFINE h == [g EXCEPT !.windows = Flush(g), !.start = NoGroup, !.speech = 0]
<1>1. CASE ~Overflows(g, segs[k])
  BY <1>1 DEF Open
<1>2. CASE Overflows(g, segs[k])
  <2>1. Open(g, segs[k]) = h
    BY <1>2 DEF Open
  <2>2. MayClose(g, segs, k - 1)
    BY <1>2, OverflowCloses
  <2>3. k - 1 \in 0 .. Len(segs)
    BY LenProperties DEF InOrder
  <2>4. /\ Packed(Flush(g), EndAt(segs, k - 1)) /\ AllFull(Flush(g), segs)
        /\ \A j \in 1 .. k - 1 :
              \A x \in segs[j][1] .. segs[j][2] - 1 : InWindow(Flush(g), x)
    BY <2>2, <2>3, FlushFits
  <2>5. h \in Groups /\ h.windows = Flush(g) /\ h.start = NoGroup /\ h.speech = 0
    BY <2>4 DEF Groups, Packed
  <2> HIDE DEF h
  <2>6. Grouped(h, segs, k - 1)
    BY <2>4, <2>5 DEF Grouped
  <2>7. ~Overflows(h, segs[k])
    BY <2>5 DEF Overflows
  <2> QED BY <2>1, <2>5, <2>6, <2>7
<1> QED BY <1>1, <1>2

\* A round with a segment that fits a window.
LEMMA ShortStep ==
  ASSUME NEW len \in Nat, NEW segs, InOrder(segs, len), NEW k \in 1 .. Len(segs),
         NEW g \in Groups, Grouped(g, segs, k - 1), ~Long(segs[k])
  PROVE  Grouped(TakeShort(g, segs[k]), segs, k)
<1> DEFINE from == segs[k][1]
           to == segs[k][2]
           o == Open(g, segs[k])
           h == TakeShort(g, segs[k])
<1>1. /\ from \in Nat /\ to \in Nat /\ from < to /\ EndAt(segs, k) = to
      /\ EndAt(segs, k - 1) \in Nat /\ EndAt(segs, k - 1) <= from
      /\ k > 1 => segs[k - 1][2] \in Nat /\ segs[k - 1][2] < from
  BY NextSegment
<1>2. Len(segs) \in Nat /\ k \in Nat /\ k > 0
  BY LenProperties DEF InOrder
<1>3. o \in Groups /\ Grouped(o, segs, k - 1) /\ ~Overflows(o, segs[k])
  BY OpenFits
<1>4. h = [o EXCEPT !.start  = IF @ = NoGroup THEN from ELSE @,
                    !.end    = to,
                    !.speech = @ + (to - from)]
  BY DEF TakeShort, Open
<1>5. to - from <= N_SAMPLES /\ N_SAMPLES \in Nat
  BY <1>1, WindowsAssumption DEF Long
<1> HIDE DEF o, h
<1>6. /\ h.start = (IF o.start = NoGroup THEN from ELSE o.start)
      /\ h.end = to /\ h.speech = o.speech + (to - from) /\ h.windows = o.windows
  BY <1>3, <1>4 DEF Groups
<1>7. CASE o.start = NoGroup
  <2>1. h.start = from /\ o.speech = 0 /\ h.start # NoGroup /\ h.speech = to - from
    BY <1>1, <1>3, <1>6, <1>7 DEF Grouped, NoGroup
  <2>2. Packed(h.windows, from)
    <3>1. Packed(o.windows, EndAt(segs, k - 1))
      BY <1>3, <1>7 DEF Grouped
    <3> HIDE DEF from, to
    <3> QED BY <1>1, <1>6, <3>1, PackedLater
  <2>3. AllFull(h.windows, segs)
    BY <1>3, <1>6 DEF Grouped
  <2>4. OpenGroup(h, segs, k)
    <3>1. k \in 1 .. k /\ h.start = segs[k][1] /\ \A j \in k .. k : ~Long(segs[j])
      BY <1>2, <2>1
    <3> QED BY <1>1, <1>5, <1>6, <2>1, <3>1 DEF OpenGroup
  <2>5. ASSUME NEW j \in 1 .. k, NEW x \in segs[j][1] .. segs[j][2] - 1
        PROVE  InWindow(h.windows, x) \/ (h.start <= x /\ x < h.end)
    <3>1. CASE j = k
      BY <1>1, <1>6, <2>1, <3>1
    <3>2. CASE j \in 1 .. k - 1
      BY <1>3, <1>6, <1>7, <3>2 DEF Grouped
    <3> QED BY <1>2, <3>1, <3>2
  <2> QED BY <1>2, <2>1, <2>2, <2>3, <2>4, <2>5 DEF Grouped, h
<1>8. CASE o.start # NoGroup
  <2>1. /\ k - 1 > 0 /\ OpenGroup(o, segs, k - 1) /\ Packed(o.windows, o.start)
        /\ h.start = o.start /\ h.start # NoGroup
    BY <1>3, <1>6, <1>8 DEF Grouped
  <2>2. /\ o.start \in Nat /\ o.end \in Nat /\ o.speech \in Nat /\ o.start < o.end
        /\ o.end < from /\ o.speech <= o.end - o.start
    BY <1>1, <1>2, <1>3, <2>1 DEF OpenGroup, Groups
  <2>3. to - o.start <= N_SAMPLES
    BY <1>1, <1>3, <1>5, <1>8, <2>2 DEF Overflows
  <2>4. OpenGroup(h, segs, k)
    <3>1. PICK i \in 1 .. k - 1 : o.start = segs[i][1] /\ \A j \in i .. k - 1 : ~Long(segs[j])
      BY <2>1 DEF OpenGroup
    <3>2. i \in 1 .. k /\ h.start = segs[i][1] /\ \A j \in i .. k : ~Long(segs[j])
      <4>1. \A j \in i .. k : j = k \/ j \in i .. k - 1
        BY <1>2
      <4> QED BY <1>2, <2>1, <3>1, <4>1
    <3>3. h.end = segs[k][2] /\ h.end = to /\ h.start = o.start
          /\ h.speech = o.speech + (to - from)
      BY <1>6, <2>1
    <3>4. h.start \in Nat /\ h.start < h.end /\ h.end - h.start <= N_SAMPLES
          /\ h.speech <= h.end - h.start
      <4> HIDE DEF from, to
      <4>1. o.start < to /\ o.speech + (to - from) <= to - o.start
        BY <1>1, <2>2, SpeechWithin
      <4> QED BY <2>2, <2>3, <3>3, <4>1
    <3> QED BY <3>2, <3>3, <3>4 DEF OpenGroup
  <2>5. ASSUME NEW j \in 1 .. k, NEW x \in segs[j][1] .. segs[j][2] - 1
        PROVE  InWindow(h.windows, x) \/ (h.start <= x /\ x < h.end)
    <3>1. CASE j = k
      <4>1. x \in Nat /\ from <= x /\ x < to
        BY <1>1, <3>1
      <4> HIDE DEF from, to
      <4>2. h.start <= x /\ x < h.end
        BY <1>1, <1>6, <2>1, <2>2, <4>1, SMTT(30)
      <4> QED BY <4>2
    <3>2. CASE j \in 1 .. k - 1
      <4>1. InWindow(o.windows, x) \/ (o.start <= x /\ x < o.end)
        BY <1>3, <3>2 DEF Grouped
      <4>2. x \in Int
        <5>1. j \in 1 .. Len(segs)
          BY <1>2, <3>2
        <5>2. segs[j][1] \in Nat /\ segs[j][2] \in Nat
          BY <5>1, NextSegment
        <5> QED BY <5>2
      <4> QED BY <1>1, <1>6, <2>1, <2>2, <4>1, <4>2, SMTT(30)
    <3> QED BY <1>2, <3>1, <3>2
  <2>6. AllFull(h.windows, segs) /\ Packed(h.windows, h.start)
    BY <1>3, <1>6, <2>1 DEF Grouped
  <2> QED BY <1>2, <2>1, <2>4, <2>5, <2>6 DEF Grouped, h
<1> QED BY <1>7, <1>8

-----------------------------------------------------------------------------
(* All the windows. *)

\* The windows of segments in order: they fit, they are full, and all speech is
\* in one of them.
LEMMA VadWindowsFit ==
  ASSUME NEW len \in Nat, NEW segs, InOrder(segs, len), segs # <<>>
  PROVE  /\ Packed(VadAudioWindows(segs), len) /\ AllFull(VadAudioWindows(segs), segs)
         /\ \A j \in 1 .. Len(segs) :
               \A x \in segs[j][1] .. segs[j][2] - 1 : InWindow(VadAudioWindows(segs), x)
<1> DEFINE n == Len(segs)
<1>1. segs \in Seq(Pairs) /\ n \in Nat /\ DOMAIN segs = 1 .. n /\ Fit(segs, len)
  BY LenProperties DEF InOrder
<1>2. PICK group \in [0 .. n -> Groups] :
        /\ group[0] = [windows |-> <<>>, start |-> NoGroup, end |-> 0, speech |-> 0]
        /\ \A i \in 1 .. n : group[i] = TakeSegment(group[i - 1], segs[i])
        /\ VadAudioWindows(segs) = Flush(group[n])
  BY <1>1, GroupsAreLoop
<1> DEFINE D == {i \in 0 .. n : Grouped(group[i], segs, i)}
<1>3. 0 \in D
  <2>1. Packed(<<>>, EndAt(segs, 0))
    BY EmptySeq DEF Packed
  <2>2. AllFull(<<>>, segs)
    BY EmptySeq DEF AllFull
  <2> QED BY <1>1, <1>2, <2>1, <2>2 DEF Grouped
<1>4. ASSUME NEW i \in 1 .. n, i - 1 \in D PROVE i \in D
  <2>1. i \in 1 .. Len(segs) /\ i - 1 \in 0 .. n /\ group[i - 1] \in Groups
        /\ Grouped(group[i - 1], segs, i - 1)
    BY <1>1, <1>2, <1>4
  <2>2. group[i] = TakeSegment(group[i - 1], segs[i])
    BY <1>2
  <2>3. Long(segs[i]) <=> segs[i][2] - segs[i][1] > N_SAMPLES
    BY DEF Long
  <2>4. Grouped(group[i], segs, i)
    <3>1. CASE Long(segs[i])
      <4>1. Grouped(TakeLong(group[i - 1], segs[i]), segs, i)
        BY <2>1, <3>1, LongStep
      <4> QED BY <2>2, <2>3, <3>1, <4>1 DEF TakeSegment
    <3>2. CASE ~Long(segs[i])
      <4>1. Grouped(TakeShort(group[i - 1], segs[i]), segs, i)
        BY <2>1, <3>2, ShortStep
      <4> QED BY <2>2, <2>3, <3>2, <4>1 DEF TakeSegment
    <3> QED BY <3>1, <3>2
  <2> QED BY <2>4, <1>1
<1>5. \A i \in 0 .. n : i \in D
  <2> HIDE DEF D, n
  <2> QED BY <1>1, <1>3, <1>4, UpTo
<1>6. n \in 0 .. Len(segs) /\ group[n] \in Groups /\ Grouped(group[n], segs, n)
  <2>1. n \in 0 .. n
    BY <1>1
  <2> QED BY <1>2, <1>5, <2>1
<1>7. MayClose(group[n], segs, n)
  BY <1>1 DEF MayClose
<1>8. /\ Packed(VadAudioWindows(segs), EndAt(segs, n))
      /\ AllFull(VadAudioWindows(segs), segs)
      /\ \A j \in 1 .. n : \A x \in segs[j][1] .. segs[j][2] - 1 :
            InWindow(VadAudioWindows(segs), x)
  <2> HIDE DEF D, n
  <2>1. /\ Packed(Flush(group[n]), EndAt(segs, n)) /\ AllFull(Flush(group[n]), segs)
        /\ \A j \in 1 .. n : \A x \in segs[j][1] .. segs[j][2] - 1 :
              InWindow(Flush(group[n]), x)
    BY <1>6, <1>7, FlushFits
  <2> QED BY <1>2, <2>1
<1>9. EndAt(segs, n) \in Nat /\ EndAt(segs, n) <= len
  <2>1. n # 0 /\ n \in 1 .. n
    BY <1>1, EmptySeq
  <2>2. EndAt(segs, n) = segs[n][2] /\ segs[n][2] \in Nat
    BY <2>1, NextSegment
  <2> QED BY <1>1, <2>1, <2>2 DEF Fit
<1>10. Packed(VadAudioWindows(segs), len)
  <2> HIDE DEF n
  <2> QED BY <1>8, <1>9, PackedLater
<1> QED BY <1>8, <1>10

-----------------------------------------------------------------------------
(* The decisions that MCVad's recorder takes. *)

\* A decision for each window so far, at the window's first sample, and none
\* before its window has begun, nor, while audio is arriving, before it is full.
JudgedInv ==
    /\ audioLen \in Nat
    /\ ended \in BOOLEAN
    /\ probs \in Seq(Probs)
    /\ ~ended => Due <= audioLen
    /\ \A i \in DOMAIN probs : probs[i].start = (i - 1) * VadWindow /\ probs[i].start < audioLen

LEMMA JudgedInductive == Spec => []JudgedInv
<1>1. Init => JudgedInv
  <2>1. Len(<<>>) = 0 /\ 0 * VadWindow = 0
    BY EmptySeq, VadAssumption
  <2> SUFFICES ASSUME Init PROVE JudgedInv
    OBVIOUS
  <2>2. audioLen = 0 /\ ended = FALSE /\ probs = <<>>
    BY DEF Init
  <2>3. Due = 0
    BY <2>1, <2>2 DEF Due
  <2>4. probs \in Seq(Probs) /\ DOMAIN probs = {}
    BY <2>2, EmptySeq
  <2>5. audioLen \in Nat /\ Due <= audioLen
    BY <2>2, <2>3
  <2>6. ended \in BOOLEAN
    BY <2>2
  <2>7. \A i \in DOMAIN probs : probs[i].start = (i - 1) * VadWindow /\ probs[i].start < audioLen
    BY <2>4
  <2> QED BY <2>4, <2>5, <2>6, <2>7 DEF JudgedInv
<1>2. JudgedInv /\ [Next]_vadVars => JudgedInv'
  <2> SUFFICES ASSUME JudgedInv, [Next]_vadVars PROVE JudgedInv'
    OBVIOUS
  <2> USE DEF JudgedInv
  <2>0. \A i \in DOMAIN probs : probs[i].start \in Nat
    <3>1. \A i \in DOMAIN probs : probs[i] \in Probs
      BY LenProperties
    <3> QED BY <3>1 DEF Probs
  <2>1. CASE AddAudio
    <3>1. audioLen' = audioLen + 1 /\ probs' = probs /\ ended' = ended /\ Due' = Due
      BY <2>1 DEF AddAudio, Due
    <3>2. \A i \in DOMAIN probs : probs[i].start < audioLen + 1
      BY <2>0
    <3>3. Due \in Nat
      BY LenProperties, VadAssumption DEF Due
    <3> QED BY <3>1, <3>2, <3>3
  <2>2. CASE EndAudio
    BY <2>2 DEF EndAudio, Due
  <2>3. CASE JudgeWindow
    <3>1. PICK b \in BOOLEAN : probs' = Append(probs, [start |-> Due, speech |-> b])
      BY <2>3 DEF JudgeWindow
    <3> DEFINE d == [start |-> Due, speech |-> b]
               n == Len(probs)
    <3>2. n \in Nat /\ DOMAIN probs = 1 .. n /\ audioLen' = audioLen
      BY <2>3, LenProperties DEF JudgeWindow
    <3>3. Due \in Nat /\ Due < audioLen
      BY <2>3, <3>2, VadAssumption DEF JudgeWindow, Due
    <3>4. d \in Probs /\ d.start = Due
      BY <3>3 DEF Probs
    <3> HIDE DEF d
    <3>5. /\ probs' \in Seq(Probs) /\ DOMAIN probs' = 1 .. n + 1
          /\ \A i \in 1 .. n : probs'[i] = probs[i]
          /\ probs'[n + 1] = d
      BY <3>1, <3>2, <3>4, AppendProperties, LenProperties DEF d
    <3>6. (n + 1) - 1 = n
      BY <3>2
    <3>7. d.start = ((n + 1) - 1) * VadWindow
      BY <3>4, <3>6 DEF Due
    <3>8. ASSUME NEW i \in 1 .. n + 1
          PROVE  probs'[i].start = (i - 1) * VadWindow /\ probs'[i].start < audioLen
      <4>1. CASE i = n + 1
        BY <3>3, <3>4, <3>5, <3>7, <4>1
      <4>2. CASE i \in 1 .. n
        BY <3>2, <3>5, <4>2
      <4> QED BY <3>2, <4>1, <4>2
    <3>9. ~ended' => Due' <= audioLen'
      <4>1. ended' = ended /\ (Due + VadWindow <= audioLen \/ ended)
        BY <2>3 DEF JudgeWindow
      <4>2. Len(probs') = n + 1 /\ (n + 1) * VadWindow = n * VadWindow + VadWindow
        BY <3>2, <3>5, VadAssumption, LenProperties
      <4>3. Due' = Due + VadWindow
        BY <4>2 DEF Due
      <4> QED BY <3>2, <4>1, <4>3
    <3>10. ended' \in BOOLEAN
      BY <2>3 DEF JudgeWindow
    <3> QED BY <3>2, <3>5, <3>8, <3>9, <3>10
  <2>4. CASE UNCHANGED vadVars
    BY <2>4 DEF vadVars, Due
  <2> QED BY <2>1, <2>2, <2>3, <2>4 DEF Next
<1> QED BY <1>1, <1>2, PTL DEF Spec

\* They are decisions as segments_from_probs gets them, so the segments are in
\* order.
LEMMA JudgedDecide ==
  ASSUME JudgedInv
  PROVE  Decisions(audioLen, probs) /\ InOrder(SegsNow, audioLen)
<1>1. \A i, j \in Nat : i < j => i * VadWindow < j * VadWindow
  BY VadAssumption
<1>2. DOMAIN probs = 1 .. Len(probs) /\ Len(probs) \in Nat
  BY LenProperties DEF JudgedInv
<1>3. ASSUME NEW i \in DOMAIN probs, NEW j \in DOMAIN probs, i < j
      PROVE  probs[i].start < probs[j].start
  <2>1. i - 1 \in Nat /\ j - 1 \in Nat /\ i - 1 < j - 1
    BY <1>2, <1>3
  <2>2. (i - 1) * VadWindow < (j - 1) * VadWindow
    BY <1>1, <2>1
  <2> QED BY <2>2 DEF JudgedInv
<1>4. Decisions(audioLen, probs)
  BY <1>3 DEF JudgedInv, Decisions
<1> QED BY <1>4, SegmentsInOrder DEF JudgedInv, SegsNow

\* More audio and more decisions change no segment but the last, which neither
\* moves nor shrinks: a segment that has been announced and dispatched is not
\* taken back or stretched when the scheduler computes the segments anew.
THEOREM AnnouncedSegmentsStay == Spec => SegmentsAreStable
<1> DEFINE Stay == Grows(Segments(audioLen, probs), Segments(audioLen', probs'))
<1>1. ASSUME JudgedInv, [Next]_vadVars PROVE [Stay]_vadVars
  <2>1. audioLen \in Nat /\ Decisions(audioLen, probs) /\ probs \in Seq(Probs)
    BY <1>1, JudgedDecide DEF JudgedInv
  <2>2. DOMAIN probs = 1 .. Len(probs) /\ Len(probs) \in Nat
    BY <2>1, LenProperties
  <2>3. CASE AddAudio
    <3>1. audioLen' = audioLen + 1 /\ probs' = probs /\ ~ended
      BY <2>3 DEF AddAudio
    <3>2. ASSUME NEW i \in DOMAIN probs PROVE probs[i].start + VadWindow <= audioLen
      <4>1. \A k, l \in Nat : k <= l => k * VadWindow <= l * VadWindow
        BY VadAssumption
      <4>2. \A k \in Nat : (k + 1) * VadWindow = k * VadWindow + VadWindow
        BY VadAssumption
      <4>3. i - 1 \in Nat /\ (i - 1) + 1 = i /\ i \in Nat /\ i <= Len(probs)
        BY <2>2
      <4>4. i * VadWindow = (i - 1) * VadWindow + VadWindow
        BY <4>2, <4>3
      <4>5. i * VadWindow <= Due /\ Due <= audioLen
        BY <1>1, <2>2, <3>1, <4>1, <4>3 DEF Due, JudgedInv
      <4>6. probs[i].start = (i - 1) * VadWindow
        BY <1>1 DEF JudgedInv
      <4>7. i * VadWindow \in Nat /\ Due \in Nat
        BY <2>2, <4>3, VadAssumption DEF Due
      <4> QED BY <2>1, <4>4, <4>5, <4>6, <4>7
    <3> QED BY <2>1, <3>1, <3>2, AudioGrows
  <2>4. CASE EndAudio
    <3>1. audioLen' = audioLen /\ probs' = probs
      BY <2>4 DEF EndAudio
    <3>2. Segments(audioLen, probs) \in Seq(Pairs)
      BY <2>1, SegmentsInOrder DEF InOrder
    <3> QED BY <3>1, <3>2, GrowsSame
  <2>5. CASE JudgeWindow
    <3>1. PICK b \in BOOLEAN : probs' = Append(probs, [start |-> Due, speech |-> b])
      BY <2>5 DEF JudgeWindow
    <3> DEFINE d == [start |-> Due, speech |-> b]
    <3>2. Due \in Nat /\ Due < audioLen /\ audioLen' = audioLen
      BY <2>2, <2>5, VadAssumption DEF JudgeWindow, Due
    <3>3. d \in Probs /\ d.start = Due
      BY <3>2 DEF Probs
    <3> HIDE DEF d
    <3>4. ASSUME NEW i \in DOMAIN probs PROVE probs[i].start < d.start
      <4>1. \A k, l \in Nat : k < l => k * VadWindow < l * VadWindow
        BY VadAssumption
      <4>2. i - 1 \in Nat /\ i - 1 < Len(probs)
        BY <2>2
      <4>3. (i - 1) * VadWindow < Due
        BY <2>2, <4>1, <4>2 DEF Due
      <4> QED BY <1>1, <3>3, <4>3 DEF JudgedInv
    <3>5. Grows(Segments(audioLen, probs), Segments(audioLen, Append(probs, d)))
      BY <2>1, <3>2, <3>3, <3>4, DecisionGrows
    <3> QED BY <3>1, <3>2, <3>5 DEF d
  <2>6. CASE UNCHANGED vadVars
    BY <2>6
  <2> QED BY <1>1, <2>3, <2>4, <2>5, <2>6 DEF Next
<1>2. Stay <=> LET segs == Segments(audioLen, probs)
                   next == Segments(audioLen', probs')
               IN  /\ Len(segs) <= Len(next)
                   /\ \A i \in 1 .. (Len(segs) - 1) : next[i] = segs[i]
                   /\ segs # <<>> => /\ next[Len(segs)][1] = segs[Len(segs)][1]
                                     /\ next[Len(segs)][2] >= segs[Len(segs)][2]
  BY DEF Grows
<1> QED BY <1>1, <1>2, JudgedInductive, PTL DEF Spec, SegmentsAreStable

\* Every window of a recording is one the encoder takes, not empty, no longer
\* than N_SAMPLES, within the audio and after the one before it; and every
\* sample of speech, or of the whole audio when there are no segments, is in
\* one of them: no speech is left out of the transcription.
THEOREM RecordingIsCovered == Spec => []SpeechIsCovered
<1>1. ASSUME JudgedInv PROVE SpeechIsCovered
  <2> DEFINE segs == SegsNow
             wins == TranscriptionWindows(audioLen, segs)
             wanted == IF segs = <<>> THEN 0 .. (audioLen - 1)
                       ELSE UNION {segs[i][1] .. (segs[i][2] - 1) : i \in DOMAIN segs}
  <2>1. audioLen \in Nat /\ InOrder(segs, audioLen)
    BY <1>1, JudgedDecide DEF JudgedInv
  <2>2. segs \in Seq(Pairs) /\ DOMAIN segs = 1 .. Len(segs)
        /\ \A i \in DOMAIN segs : segs[i][1] \in Nat /\ segs[i][2] \in Nat
    BY <2>1, LenProperties DEF InOrder, Pairs
  <2> HIDE DEF segs
  <2>3. Packed(wins, audioLen) /\ \A x \in wanted : InWindow(wins, x)
    <3>1. CASE segs = <<>>
      <4>1. wins = Pieces(0, audioLen)
        BY <3>1 DEF TranscriptionWindows, FixedAudioWindows
      <4>2. Within(Pieces(0, audioLen), 0, audioLen)
        <5>1. 0 \in Nat /\ 0 <= audioLen
          BY <2>1
        <5> QED BY <2>1, <5>1, PiecesFit
      <4> QED BY <3>1, <4>1, <4>2 DEF Within
    <3>2. CASE segs # <<>>
      <4>1. wins = VadAudioWindows(segs)
        BY <3>2 DEF TranscriptionWindows
      <4> HIDE DEF wins
      <4>2. /\ Packed(wins, audioLen)
            /\ \A j \in 1 .. Len(segs) :
                  \A x \in segs[j][1] .. segs[j][2] - 1 : InWindow(wins, x)
        BY <2>1, <3>2, <4>1, VadWindowsFit
      <4> QED BY <2>2, <3>2, <4>2
    <3> QED BY <3>1, <3>2
  <2> HIDE DEF wins
  <2>4. /\ wins \in Seq(Pairs) /\ DOMAIN wins = 1 .. Len(wins) /\ Len(wins) \in Nat
        /\ \A i \in DOMAIN wins : wins[i][1] \in Nat /\ wins[i][2] \in Nat
    BY <2>3, LenProperties DEF Packed, Pairs
  <2>5. ASSUME NEW i \in DOMAIN wins
        PROVE  /\ wins[i][2] - wins[i][1] \in 1 .. N_SAMPLES
               /\ wins[i][1] >= 0 /\ wins[i][2] <= audioLen
               /\ i > 1 => wins[i - 1][2] <= wins[i][1]
    <3>1. /\ wins[i][1] < wins[i][2] /\ wins[i][2] <= audioLen
          /\ wins[i][2] - wins[i][1] <= N_SAMPLES
      BY <2>3 DEF Packed
    <3>2. ASSUME i > 1 PROVE wins[i - 1][2] <= wins[i][1]
      <4>1. i - 1 \in DOMAIN wins
        BY <2>4, <3>2
      <4> QED BY <2>3, <4>1 DEF Packed
    <3>3. wins[i][2] - wins[i][1] \in 1 .. N_SAMPLES
      BY <2>4, <3>1, WindowsAssumption
    <3> QED BY <2>4, <3>1, <3>2, <3>3
  <2>6. wanted \subseteq UNION {wins[i][1] .. (wins[i][2] - 1) : i \in DOMAIN wins}
    <3> SUFFICES ASSUME NEW x \in wanted
                 PROVE  \E i \in DOMAIN wins : x \in wins[i][1] .. (wins[i][2] - 1)
      OBVIOUS
    <3>1. x \in Int
      <4>1. CASE segs = <<>>
        BY <2>1, <4>1
      <4>2. CASE segs # <<>>
        BY <2>2, <4>2
      <4> QED BY <4>1, <4>2
    <3>2. PICK i \in DOMAIN wins : wins[i][1] <= x /\ x < wins[i][2]
      BY <2>3 DEF InWindow
    <3>3. x \in wins[i][1] .. (wins[i][2] - 1)
      BY <2>4, <3>1, <3>2
    <3> QED BY <3>3
  <2> QED BY <2>5, <2>6 DEF SpeechIsCovered, wins, wanted, segs
<1> QED BY <1>1, JudgedInductive, PTL

\* A window is a piece of a segment longer than a window, or it goes from the
\* start of a segment to the end of one and has no room for the next: none is
\* closed too early or cut in the middle of speech.
THEOREM RecordingIsPacked == Spec => []WindowsAreFull
<1>1. ASSUME JudgedInv PROVE WindowsAreFull
  <2> DEFINE segs == SegsNow
             wins == TranscriptionWindows(audioLen, segs)
  <2>1. audioLen \in Nat /\ InOrder(segs, audioLen)
    BY <1>1, JudgedDecide DEF JudgedInv
  <2>2. ASSUME segs # <<>> PROVE AllFull(wins, segs)
    <3>1. wins = VadAudioWindows(segs)
      BY <2>2 DEF TranscriptionWindows
    <3> HIDE DEF segs, wins
    <3> QED BY <2>1, <2>2, <3>1, VadWindowsFit
  <2> QED BY <2>2 DEF WindowsAreFull, AllFull, Piece, Whole
<1> QED BY <1>1, JudgedInductive, PTL

-----------------------------------------------------------------------------
(* Utterances, as the scan finds them. *)

\* A window of silence that ends an utterance: it starts MinSilence or more
\* after the last speech before it.
Break(k) ==
    /\ k \in DOMAIN probs /\ k \notin Speech
    /\ \E h \in Speech : /\ h < k /\ \A g \in Speech : g < k => g <= h
                         /\ probs[k].start - EndOf(h) >= MinSilence

BreakIn(i, j) == \E k \in i .. j : Break(k)

\* Windows come one after the other.
LEMMA Timing ==
  ASSUME JudgedInv
  PROVE  /\ Len(probs) \in Nat /\ DOMAIN probs = 1 .. Len(probs) /\ Speech \subseteq 1 .. Len(probs)
         /\ \A i \in 1 .. Len(probs) :
               /\ probs[i] \in Probs /\ probs[i].start \in Nat /\ EndOf(i) \in Nat
               /\ probs[i].start < EndOf(i) /\ EndOf(i) <= audioLen
         /\ \A i, j \in 1 .. Len(probs) : i < j =>
               EndOf(i) <= probs[j].start /\ probs[i].start < probs[j].start
<1>1. /\ Len(probs) \in Nat /\ DOMAIN probs = 1 .. Len(probs) /\ audioLen \in Nat
      /\ \A i \in 1 .. Len(probs) : probs[i] \in Probs
  BY LenProperties DEF JudgedInv
<1>2. Speech \subseteq 1 .. Len(probs)
  BY <1>1 DEF Speech
<1>3. ASSUME NEW i \in 1 .. Len(probs)
      PROVE  /\ probs[i].start \in Nat /\ EndOf(i) \in Nat /\ EndOf(i) <= probs[i].start + VadWindow
             /\ probs[i].start < EndOf(i) /\ EndOf(i) <= audioLen
  <2>1. probs[i].start \in Nat /\ probs[i].start < audioLen
    BY <1>1 DEF Probs, JudgedInv
  <2> QED BY <1>1, <2>1, VadAssumption DEF EndOf, AtMost
<1>4. ASSUME NEW i \in 1 .. Len(probs), NEW j \in 1 .. Len(probs), i < j
      PROVE  probs[i].start + VadWindow <= probs[j].start
  <2>1. \A k, l \in Nat : k <= l => k * VadWindow <= l * VadWindow
    BY VadAssumption
  <2>2. \A k \in Nat : (k + 1) * VadWindow = k * VadWindow + VadWindow
    BY VadAssumption
  <2>3. i - 1 \in Nat /\ (i - 1) + 1 = i /\ i \in Nat /\ j - 1 \in Nat /\ i <= j - 1
    BY <1>1, <1>4
  <2>4. i * VadWindow = (i - 1) * VadWindow + VadWindow /\ i * VadWindow <= (j - 1) * VadWindow
    BY <2>1, <2>2, <2>3
  <2>5. probs[i].start = (i - 1) * VadWindow /\ probs[j].start = (j - 1) * VadWindow
    BY <1>1 DEF JudgedInv
  <2> QED BY <2>4, <2>5
<1>5. ASSUME NEW i \in 1 .. Len(probs), NEW j \in 1 .. Len(probs), i < j
      PROVE  EndOf(i) <= probs[j].start /\ probs[i].start < probs[j].start
  <2>1. /\ probs[i].start \in Nat /\ EndOf(i) \in Nat /\ EndOf(i) <= probs[i].start + VadWindow
        /\ probs[j].start \in Nat
    BY <1>3
  <2> QED BY <1>4, <1>5, <2>1, VadAssumption, SMTT(30)
<1> QED BY <1>1, <1>2, <1>3, <1>5

\* Together is the absence of a break.
LEMMA TogetherIs ==
  ASSUME JudgedInv, NEW i \in 1 .. Len(probs), NEW j \in 1 .. Len(probs)
  PROVE  Together(i, j) <=> ~BreakIn(i, j)
<1>1. /\ DOMAIN probs = 1 .. Len(probs) /\ Len(probs) \in Nat /\ Speech \subseteq 1 .. Len(probs)
      /\ \A k \in 1 .. Len(probs) : probs[k].start \in Nat /\ EndOf(k) \in Nat
  BY Timing
<1>2. \A k \in i .. j : k \in 1 .. Len(probs)
  BY <1>1
<1>3. \A k \in i .. j, h \in Speech :
        probs[k].start - EndOf(h) < MinSilence <=> ~(probs[k].start - EndOf(h) >= MinSilence)
  <2> TAKE k \in i .. j, h \in Speech
  <2>1. probs[k].start \in Nat /\ EndOf(h) \in Nat /\ MinSilence \in Nat
    BY <1>1, <1>2, VadAssumption
  <2> QED BY <2>1
<1> QED BY <1>1, <1>2, <1>3 DEF Together, BreakIn, Break

\* The speech windows from i to j are an utterance.
Utterance(i, j) ==
    /\ i <= j /\ Together(i, j)
    /\ \A h \in Speech : (h < i => ~Together(h, i)) /\ (h > j => ~Together(j, h))

LEMMA UtteranceIs ==
  ASSUME JudgedInv, NEW i \in Speech, NEW j \in Speech
  PROVE  Utterance(i, j) <=>
            /\ i <= j /\ ~BreakIn(i, j)
            /\ \A h \in Speech : (h < i => BreakIn(h, i)) /\ (h > j => BreakIn(j, h))
<1>1. Speech \subseteq 1 .. Len(probs)
  BY Timing
<1>2. \A k, l \in Speech : Together(k, l) <=> ~BreakIn(k, l)
  BY <1>1, TogetherIs
<1> QED BY <1>2 DEF Utterance

Stretch(i, j) == <<probs[i].start, EndOf(j)>>

\* An utterance that a break before the m-th window has ended.
Ended(i, j, m) == Utterance(i, j) /\ \E b \in 1 .. m : j < b /\ Break(b)

\* The utterance that is open after m windows, from a to l so far.
OpenRun(s, m, a, l) ==
    /\ a \in Speech /\ l \in Speech /\ a <= l /\ l <= m
    /\ s.start = probs[a].start /\ s.last = EndOf(l)
    /\ \A h \in Speech : h <= m => h <= l
    /\ ~BreakIn(a, m)
    /\ \A h \in Speech : h < a => BreakIn(h, a)

\* The utterances that have ended, each once and in order.
EndedRuns(raw, m) ==
    /\ \A k \in DOMAIN raw : \E i, j \in Speech : Ended(i, j, m) /\ raw[k] = Stretch(i, j)
    /\ \A i, j \in Speech : Ended(i, j, m) => \E k \in DOMAIN raw : raw[k] = Stretch(i, j)
    /\ \A k, l \in DOMAIN raw : k < l => raw[k][1] < raw[l][1]

\* What the scan has found after m windows: the utterances that have ended, and
\* the open one, if there is speech after the last break.
FoundRuns(s, m) ==
    /\ EndedRuns(s.raw, m)
    /\ s.start # Closed => \E a, l \in Speech : OpenRun(s, m, a, l)
    /\ s.start = Closed => \A h \in Speech : h <= m => \E b \in 1 .. m : h < b /\ Break(b)

\* The open utterance is the only one that has begun and not ended.
LEMMA OpenIsOnly ==
  ASSUME JudgedInv, NEW m \in 0 .. Len(probs), NEW s, NEW a \in Speech, NEW l \in Speech,
         OpenRun(s, m, a, l), NEW i \in Speech, NEW j \in Speech, Utterance(i, j), j <= m
  PROVE  Ended(i, j, m) \/ (i = a /\ j = l)
<1>1. Len(probs) \in Nat /\ Speech \subseteq 1 .. Len(probs)
  BY Timing
<1>2. /\ i \in Nat /\ j \in Nat /\ a \in Nat /\ l \in Nat /\ m \in Nat
      /\ i > 0 /\ j > 0 /\ a > 0 /\ j <= l /\ a <= l /\ l <= m
  BY <1>1 DEF OpenRun
<1>3. /\ i <= j /\ ~BreakIn(i, j)
      /\ \A h \in Speech : (h < i => BreakIn(h, i)) /\ (h > j => BreakIn(j, h))
  BY UtteranceIs
<1>4. ~BreakIn(a, m) /\ \A h \in Speech : h < a => BreakIn(h, a)
  BY DEF OpenRun
<1>5. CASE j < a
  <2>1. PICK b \in j .. a : Break(b)
    BY <1>4, <1>5 DEF BreakIn
  <2>2. b # j
    BY <2>1 DEF Break
  <2>3. b \in 1 .. m /\ j < b
    BY <1>2, <2>1, <2>2
  <2> QED BY <2>1, <2>3 DEF Ended
<1>6. CASE a <= j
  <2>1. j = l
    <3> SUFFICES ASSUME j < l PROVE FALSE
      BY <1>2
    <3>1. PICK b \in j .. l : Break(b)
      BY <1>3 DEF BreakIn
    <3>2. b \in a .. m
      BY <1>2, <1>6, <3>1
    <3> QED BY <1>4, <3>1, <3>2 DEF BreakIn
  <2>2. ~(i < a)
    <3> SUFFICES ASSUME i < a PROVE FALSE
      OBVIOUS
    <3>1. PICK b \in i .. a : Break(b)
      BY <1>4 DEF BreakIn
    <3>2. b \in i .. j
      BY <1>2, <1>6, <3>1
    <3> QED BY <1>3, <3>1, <3>2 DEF BreakIn
  <2>3. ~(a < i)
    <3> SUFFICES ASSUME a < i PROVE FALSE
      OBVIOUS
    <3>1. PICK b \in a .. i : Break(b)
      BY <1>3 DEF BreakIn
    <3>2. b \in a .. m
      BY <1>2, <1>3, <2>1, <3>1
    <3> QED BY <1>4, <3>1, <3>2 DEF BreakIn
  <2> QED BY <1>2, <2>1, <2>2, <2>3
<1> QED BY <1>2, <1>5, <1>6

\* An open utterance after which a break comes before any speech is one.
LEMMA OpenIsUtterance ==
  ASSUME JudgedInv, NEW m \in 0 .. Len(probs), NEW s, NEW a \in Speech, NEW l \in Speech,
         OpenRun(s, m, a, l), \A h \in Speech : h > l => BreakIn(l, h)
  PROVE  Utterance(a, l) /\ Stretch(a, l) \in Pairs /\ Stretch(a, l) = <<s.start, s.last>>
         /\ s.start \in Nat /\ s.last \in Nat /\ s.start < s.last
<1>1. /\ Len(probs) \in Nat /\ Speech \subseteq 1 .. Len(probs)
      /\ \A i \in 1 .. Len(probs) : /\ probs[i].start \in Nat /\ EndOf(i) \in Nat
                                    /\ probs[i].start < EndOf(i)
      /\ \A i, j \in 1 .. Len(probs) : i < j => EndOf(i) <= probs[j].start
  BY Timing
<1>2. ~BreakIn(a, l)
  <2> SUFFICES ASSUME NEW b \in a .. l, Break(b) PROVE FALSE
    BY DEF BreakIn
  <2>1. b \in a .. m
    BY <1>1 DEF OpenRun
  <2> QED BY <2>1 DEF OpenRun, BreakIn
<1>3. Utterance(a, l)
  BY <1>2, UtteranceIs DEF OpenRun
<1>4. probs[a].start \in Nat /\ EndOf(l) \in Nat /\ probs[a].start < EndOf(l)
  <2>1. a \in 1 .. Len(probs) /\ l \in 1 .. Len(probs) /\ (a = l \/ a < l)
    BY <1>1 DEF OpenRun
  <2>2. CASE a = l
    BY <1>1, <2>1, <2>2
  <2>3. CASE a < l
    <3>1. EndOf(a) <= probs[l].start
      BY <1>1, <2>1, <2>3
    <3> QED BY <1>1, <2>1, <3>1
  <2> QED BY <2>1, <2>2, <2>3
<1> QED BY <1>3, <1>4 DEF Stretch, Pairs, OpenRun

\* When the open utterance ends it comes after those that had ended before.
LEMMA OpenIsLast ==
  ASSUME JudgedInv, NEW m \in 0 .. Len(probs), NEW s, FoundRuns(s, m),
         NEW a \in Speech, NEW l \in Speech, OpenRun(s, m, a, l), NEW k \in DOMAIN s.raw
  PROVE  s.raw[k][1] < s.start
<1>1. /\ Len(probs) \in Nat /\ Speech \subseteq 1 .. Len(probs)
      /\ \A i, j \in 1 .. Len(probs) : i < j => probs[i].start < probs[j].start
  BY Timing
<1>2. PICK i \in Speech, j \in Speech : Ended(i, j, m) /\ s.raw[k] = Stretch(i, j)
  BY DEF FoundRuns, EndedRuns
<1>3. PICK b \in 1 .. m : j < b /\ Break(b)
  BY <1>2 DEF Ended
<1>4. i <= j
  BY <1>2 DEF Ended, Utterance
<1>5. b < a
  <2> SUFFICES ASSUME a <= b PROVE FALSE
    BY <1>1, <1>3
  <2>1. b \in a .. m
    BY <1>1, <1>3
  <2> QED BY <1>3, <2>1 DEF OpenRun, BreakIn
<1>6. i \in 1 .. Len(probs) /\ a \in 1 .. Len(probs) /\ i < a
  BY <1>1, <1>3, <1>4, <1>5
<1> QED BY <1>1, <1>2, <1>6 DEF Stretch, OpenRun

\* One window more: speech begins an utterance or goes on with it.
LEMMA SpeechStep ==
  ASSUME JudgedInv, NEW m \in 1 .. Len(probs), NEW s \in Scans, FoundRuns(s, m - 1),
         probs[m].speech
  PROVE  FoundRuns(ScanStep(s, probs[m], audioLen), m)
<1> DEFINE t == ScanStep(s, probs[m], audioLen)
<1>1. /\ Len(probs) \in Nat /\ DOMAIN probs = 1 .. Len(probs) /\ Speech \subseteq 1 .. Len(probs)
      /\ \A i \in 1 .. Len(probs) : probs[i].start \in Nat
  BY Timing
<1>2. m \in Speech /\ ~Break(m) /\ m \in Nat /\ \A k \in m .. m : k = m
  BY <1>1 DEF Speech, Break
<1>3. /\ t.raw = s.raw /\ t.last = EndOf(m)
      /\ t.start = IF s.start = Closed THEN probs[m].start ELSE s.start
  BY DEF ScanStep, Scans, EndOf
<1> HIDE DEF t
<1>4. \A i, j \in Speech : Ended(i, j, m) <=> Ended(i, j, m - 1)
  <2>1. \A b \in 1 .. m : b = m \/ b \in 1 .. m - 1
    BY <1>2
  <2>2. \A b \in 1 .. m - 1 : b \in 1 .. m
    BY <1>2
  <2> QED BY <1>2, <2>1, <2>2 DEF Ended
<1>5. t.start # Closed
  <2>1. probs[m].start # Closed
    BY <1>1 DEF Closed
  <2> QED BY <1>3, <2>1
<1>6. EndedRuns(t.raw, m)
  BY <1>3, <1>4 DEF FoundRuns, EndedRuns
<1>7. CASE s.start = Closed
  <2>1. ~BreakIn(m, m)
    BY <1>2 DEF BreakIn
  <2>2. ASSUME NEW h \in Speech, h < m PROVE BreakIn(h, m)
    <3>1. h <= m - 1
      BY <1>1, <1>2, <2>2
    <3>2. PICK b \in 1 .. m - 1 : h < b /\ Break(b)
      BY <1>7, <3>1 DEF FoundRuns, EndedRuns
    <3>3. b \in h .. m
      BY <1>1, <1>2, <3>2
    <3> QED BY <3>2, <3>3 DEF BreakIn
  <2>3. OpenRun(t, m, m, m)
    <3>1. t.start = probs[m].start /\ t.last = EndOf(m) /\ m <= m
      BY <1>2, <1>3, <1>7
    <3> QED BY <1>2, <2>1, <2>2, <3>1 DEF OpenRun
  <2>4. \E a, l \in Speech : OpenRun(t, m, a, l)
    BY <1>2, <2>3
  <2> QED BY <1>5, <1>6, <2>4 DEF FoundRuns, t
<1>8. CASE s.start # Closed
  <2>1. PICK a \in Speech, l \in Speech : OpenRun(s, m - 1, a, l)
    BY <1>8 DEF FoundRuns, EndedRuns
  <2>2. a <= m
    BY <1>1, <1>2, <2>1 DEF OpenRun
  <2>3. ~BreakIn(a, m)
    <3> SUFFICES ASSUME NEW b \in a .. m, Break(b) PROVE FALSE
      BY DEF BreakIn
    <3>1. b \in a .. m - 1
      BY <1>1, <1>2
    <3> QED BY <2>1, <3>1 DEF OpenRun, BreakIn
  <2>4. OpenRun(t, m, a, m)
    <3>1. t.start = probs[a].start /\ t.last = EndOf(m) /\ m <= m
      BY <1>2, <1>3, <1>8, <2>1 DEF OpenRun
    <3>2. \A h \in Speech : h < a => BreakIn(h, a)
      BY <2>1 DEF OpenRun
    <3> QED BY <1>2, <2>2, <2>3, <3>1, <3>2 DEF OpenRun
  <2>5. \E b, k \in Speech : OpenRun(t, m, b, k)
    BY <1>2, <2>4
  <2> QED BY <1>5, <1>6, <2>5 DEF FoundRuns, t
<1> QED BY <1>7, <1>8 DEF t

\* A silent window that ends the open utterance.
LEMMA CloseStep ==
  ASSUME JudgedInv, NEW m \in 1 .. Len(probs), NEW s \in Scans, FoundRuns(s, m - 1),
         ~probs[m].speech, s.start # Closed, Monus(probs[m].start, s.last) >= MinSilence
  PROVE  FoundRuns(ScanStep(s, probs[m], audioLen), m)
<1> DEFINE t == ScanStep(s, probs[m], audioLen)
           n == Len(s.raw)
           p == <<s.start, s.last>>
<1>1. /\ Len(probs) \in Nat /\ DOMAIN probs = 1 .. Len(probs) /\ Speech \subseteq 1 .. Len(probs)
      /\ \A i \in 1 .. Len(probs) : probs[i].start \in Nat /\ EndOf(i) \in Nat
      /\ \A i, j \in 1 .. Len(probs) : i < j => EndOf(i) <= probs[j].start
  BY Timing
<1>2. m \notin Speech /\ m \in Nat /\ m - 1 \in 0 .. Len(probs)
      /\ \A h \in Speech : h <= m => h <= m - 1 /\ h < m
  BY <1>1 DEF Speech
<1>3. t.raw = Append(s.raw, p) /\ t.start = Closed
  BY DEF ScanStep, Scans
<1>4. PICK a \in Speech, l \in Speech : OpenRun(s, m - 1, a, l)
  BY DEF FoundRuns, EndedRuns
<1>5. l \in 1 .. Len(probs) /\ l < m /\ \A g \in Speech : g < m => g <= l
  BY <1>1, <1>2, <1>4 DEF OpenRun
<1>6. Break(m)
  <2>1. EndOf(l) \in Nat /\ probs[m].start \in Nat /\ EndOf(l) <= probs[m].start /\ s.last = EndOf(l)
    BY <1>1, <1>4, <1>5 DEF OpenRun
  <2>2. probs[m].start - EndOf(l) >= MinSilence
    BY <2>1 DEF Monus, AtLeast
  <2> QED BY <1>1, <1>2, <1>5, <2>2 DEF Break
<1>7. \A h \in Speech : h > l => BreakIn(l, h)
  <2> SUFFICES ASSUME NEW h \in Speech, h > l PROVE BreakIn(l, h)
    OBVIOUS
  <2>1. m < h
    BY <1>1, <1>2, <1>5
  <2>2. m \in l .. h
    BY <1>1, <1>2, <1>5, <2>1
  <2> QED BY <1>6, <2>2 DEF BreakIn
<1>8. Utterance(a, l) /\ Stretch(a, l) = p /\ p \in Pairs
  BY <1>2, <1>4, <1>7, OpenIsUtterance
<1>9. Ended(a, l, m)
  BY <1>2, <1>5, <1>6, <1>8 DEF Ended
<1>10. \A i, j \in Speech : Ended(i, j, m - 1) => Ended(i, j, m)
  <2>1. \A b \in 1 .. m - 1 : b \in 1 .. m
    BY <1>2
  <2> QED BY <2>1 DEF Ended
<1>11. ASSUME NEW i \in Speech, NEW j \in Speech, Ended(i, j, m)
       PROVE  Ended(i, j, m - 1) \/ (i = a /\ j = l)
  <2>1. j <= m - 1
    BY <1>1, <1>2, <1>11 DEF Ended
  <2> QED BY <1>2, <1>4, <1>11, <2>1, OpenIsOnly DEF Ended
<1>12. p[1] = s.start /\ \A k \in DOMAIN s.raw : s.raw[k][1] < s.start
  BY <1>2, <1>4, OpenIsLast
<1> HIDE DEF p, t
<1>13. /\ n \in Nat /\ DOMAIN s.raw = 1 .. n /\ DOMAIN t.raw = 1 .. n + 1
       /\ \A k \in 1 .. n : t.raw[k] = s.raw[k]
       /\ t.raw[n + 1] = p
  <2>1. s.raw \in Seq(Pairs)
    BY DEF Scans
  <2> QED BY <1>3, <1>8, <2>1, AppendProperties, LenProperties
<1> HIDE DEF n
<1>14. \A k \in 1 .. n + 1 : k = n + 1 \/ k \in 1 .. n
  BY <1>13
<1>15. \A k \in 1 .. n : k \in 1 .. n + 1
  BY <1>13
<1>16. n + 1 \in 1 .. n + 1
  BY <1>13
<1>17. ASSUME NEW k \in DOMAIN t.raw
       PROVE  \E i, j \in Speech : Ended(i, j, m) /\ t.raw[k] = Stretch(i, j)
  <2>1. CASE k = n + 1
    BY <1>8, <1>9, <1>13, <2>1
  <2>2. CASE k \in 1 .. n
    <3>1. PICK i \in Speech, j \in Speech : Ended(i, j, m - 1) /\ s.raw[k] = Stretch(i, j)
      BY <1>13, <2>2 DEF FoundRuns, EndedRuns
    <3> QED BY <1>10, <1>13, <2>2, <3>1
  <2> QED BY <1>13, <1>14, <2>1, <2>2
<1>18. ASSUME NEW i \in Speech, NEW j \in Speech, Ended(i, j, m)
       PROVE  \E k \in DOMAIN t.raw : t.raw[k] = Stretch(i, j)
  <2>1. CASE Ended(i, j, m - 1)
    <3>1. PICK k \in DOMAIN s.raw : s.raw[k] = Stretch(i, j)
      BY <2>1 DEF FoundRuns, EndedRuns
    <3> QED BY <1>13, <1>15, <3>1
  <2>2. CASE i = a /\ j = l
    BY <1>8, <1>13, <1>16, <2>2
  <2> QED BY <1>11, <1>18, <2>1, <2>2
<1>19. ASSUME NEW k \in DOMAIN t.raw, NEW h \in DOMAIN t.raw, k < h
       PROVE  t.raw[k][1] < t.raw[h][1]
  <2>1. k \in 1 .. n
    BY <1>13, <1>19
  <2>2. CASE h = n + 1
    BY <1>12, <1>13, <2>1, <2>2
  <2>3. CASE h \in 1 .. n
    BY <1>13, <1>19, <2>1, <2>3 DEF FoundRuns, EndedRuns
  <2> QED BY <1>13, <1>14, <2>2, <2>3
<1>20. ASSUME NEW h \in Speech, h <= m PROVE \E b \in 1 .. m : h < b /\ Break(b)
  <2>1. m \in 1 .. m /\ h < m
    BY <1>2, <1>20
  <2> QED BY <1>6, <2>1
<1> QED BY <1>3, <1>17, <1>18, <1>19, <1>20 DEF FoundRuns, EndedRuns, t

\* A silent window that changes nothing.
LEMMA SilentStep ==
  ASSUME JudgedInv, NEW m \in 1 .. Len(probs), NEW s \in Scans, FoundRuns(s, m - 1),
         ~probs[m].speech, ~(s.start # Closed /\ Monus(probs[m].start, s.last) >= MinSilence)
  PROVE  FoundRuns(ScanStep(s, probs[m], audioLen), m)
<1>1. /\ Len(probs) \in Nat /\ DOMAIN probs = 1 .. Len(probs) /\ Speech \subseteq 1 .. Len(probs)
      /\ \A i \in 1 .. Len(probs) : probs[i].start \in Nat /\ EndOf(i) \in Nat
      /\ \A i, j \in 1 .. Len(probs) : i < j => EndOf(i) <= probs[j].start
  BY Timing
<1>2. m \notin Speech /\ m \in Nat /\ m - 1 \in 0 .. Len(probs)
      /\ \A h \in Speech : h <= m => h <= m - 1 /\ h < m
  BY <1>1 DEF Speech
<1>3. ScanStep(s, probs[m], audioLen) = s
  BY DEF ScanStep
<1>4. /\ \A b \in 1 .. m - 1 : b \in 1 .. m
      /\ \A b \in 1 .. m : b = m \/ b \in 1 .. m - 1
  BY <1>2
<1>5. \A i, j \in Speech : Ended(i, j, m - 1) => Ended(i, j, m)
  BY <1>4 DEF Ended
<1>6. CASE s.start = Closed
  <2>1. ASSUME NEW i \in Speech, NEW j \in Speech, Ended(i, j, m) PROVE Ended(i, j, m - 1)
    <3>1. PICK b \in 1 .. m : j < b /\ Break(b)
      BY <2>1 DEF Ended
    <3>2. j <= m - 1
      BY <1>1, <1>2, <3>1
    <3>3. \E c \in 1 .. m - 1 : j < c /\ Break(c)
      BY <1>6, <3>2 DEF FoundRuns, EndedRuns
    <3> QED BY <2>1, <3>3 DEF Ended
  <2>2. \A h \in Speech : h <= m => \E b \in 1 .. m : h < b /\ Break(b)
    BY <1>2, <1>4, <1>6 DEF FoundRuns, EndedRuns
  <2> QED BY <1>3, <1>5, <1>6, <2>1, <2>2 DEF FoundRuns, EndedRuns
<1>7. CASE s.start # Closed
  <2>1. PICK a \in Speech, l \in Speech : OpenRun(s, m - 1, a, l)
    BY <1>7 DEF FoundRuns, EndedRuns
  <2>2. l \in 1 .. Len(probs) /\ l < m /\ a <= m - 1 /\ \A g \in Speech : g < m => g <= l
    BY <1>1, <1>2, <2>1 DEF OpenRun
  <2>3. ~Break(m)
    <3> SUFFICES ASSUME Break(m) PROVE FALSE
      OBVIOUS
    <3>1. PICK h \in Speech : /\ h < m /\ \A g \in Speech : g < m => g <= h
                              /\ probs[m].start - EndOf(h) >= MinSilence
      BY DEF Break
    <3>2. h = l
      BY <1>1, <2>2, <3>1
    <3>3. EndOf(l) \in Nat /\ probs[m].start \in Nat /\ s.last = EndOf(l)
          /\ EndOf(l) <= probs[m].start
      BY <1>1, <2>1, <2>2 DEF OpenRun
    <3>4. Monus(probs[m].start, s.last) >= MinSilence
      BY <3>1, <3>2, <3>3 DEF Monus, AtLeast
    <3> QED BY <1>7, <3>4
  <2>4. \A i, j \in Speech : Ended(i, j, m) => Ended(i, j, m - 1)
    BY <1>4, <2>3 DEF Ended
  <2>5. OpenRun(s, m, a, l)
    <3>1. ~BreakIn(a, m)
      <4> SUFFICES ASSUME NEW b \in a .. m, Break(b) PROVE FALSE
        BY DEF BreakIn
      <4>1. b \in a .. m - 1
        BY <1>1, <1>2, <2>3
      <4> QED BY <2>1, <4>1 DEF OpenRun, BreakIn
    <3>2. l <= m /\ \A h \in Speech : h <= m => h <= l
      BY <1>1, <1>2, <2>2
    <3> QED BY <2>1, <3>1, <3>2 DEF OpenRun
  <2> QED BY <1>3, <1>5, <1>7, <2>4, <2>5 DEF FoundRuns, EndedRuns
<1> QED BY <1>6, <1>7

\* The raw segments are the utterances, each once and in order.
LEMMA RawAreUtterances ==
  ASSUME JudgedInv
  PROVE  /\ \A k \in DOMAIN RawSegments(audioLen, probs) : \E i, j \in Speech :
               Utterance(i, j) /\ RawSegments(audioLen, probs)[k] = Stretch(i, j)
         /\ \A i, j \in Speech : Utterance(i, j) =>
               \E k \in DOMAIN RawSegments(audioLen, probs) :
                  RawSegments(audioLen, probs)[k] = Stretch(i, j)
         /\ \A k, l \in DOMAIN RawSegments(audioLen, probs) : k < l =>
               RawSegments(audioLen, probs)[k][1] < RawSegments(audioLen, probs)[l][1]
<1> DEFINE n == Len(probs)
           raw == RawSegments(audioLen, probs)
<1>1. /\ n \in Nat /\ DOMAIN probs = 1 .. n /\ Speech \subseteq 1 .. n
      /\ audioLen \in Nat /\ probs \in Seq(Probs)
  BY Timing DEF JudgedInv
<1>2. PICK scan \in [0 .. n -> Scans] :
         /\ scan[0] = [raw |-> <<>>, start |-> Closed, last |-> 0]
         /\ \A i \in 1 .. n : scan[i] = ScanStep(scan[i - 1], probs[i], audioLen)
         /\ Scan(audioLen, probs) = scan[n]
  BY <1>1, ScanIsLoop
<1> DEFINE D == {m \in 0 .. n : FoundRuns(scan[m], m)}
<1>3. 0 \in D
  <2>1. \A i, j : ~Ended(i, j, 0)
    BY DEF Ended
  <2>2. \A h \in Speech : ~(h <= 0)
    BY <1>1
  <2>3. FoundRuns(scan[0], 0)
    BY <1>2, <2>1, <2>2, EmptySeq DEF FoundRuns, EndedRuns
  <2> QED BY <1>1, <2>3
<1>4. ASSUME NEW m \in 1 .. n, m - 1 \in D PROVE m \in D
  <2>1. m - 1 \in 0 .. n /\ scan[m - 1] \in Scans /\ FoundRuns(scan[m - 1], m - 1)
        /\ scan[m] = ScanStep(scan[m - 1], probs[m], audioLen)
    BY <1>1, <1>2, <1>4
  <2>2. CASE probs[m].speech
    BY <2>1, <2>2, SpeechStep
  <2>3. CASE /\ ~probs[m].speech /\ scan[m - 1].start # Closed
             /\ Monus(probs[m].start, scan[m - 1].last) >= MinSilence
    BY <2>1, <2>3, CloseStep
  <2>4. CASE ~probs[m].speech /\ ~(/\ scan[m - 1].start # Closed
                                   /\ Monus(probs[m].start, scan[m - 1].last) >= MinSilence)
    BY <2>1, <2>4, SilentStep
  <2> QED BY <2>2, <2>3, <2>4
<1>5. \A m \in 0 .. n : m \in D
  <2> HIDE DEF D, n
  <2> QED BY <1>1, <1>3, <1>4, UpTo
<1> DEFINE s == scan[n]
<1>6. s \in Scans /\ FoundRuns(s, n) /\ Scan(audioLen, probs) = s /\ n \in 0 .. n
  BY <1>1, <1>2, <1>5
<1> HIDE DEF s
<1>7. CASE s.start = Closed
  <2>1. raw = s.raw
    BY <1>6, <1>7 DEF RawSegments
  <2>2. \A h \in Speech : h <= n
    BY <1>1
  <2>3. \A i, j \in Speech : Utterance(i, j) <=> Ended(i, j, n)
    BY <1>6, <1>7, <2>2 DEF FoundRuns, EndedRuns, Ended
  <2> HIDE DEF raw
  <2>4. /\ \A k \in DOMAIN raw : \E i, j \in Speech : Utterance(i, j) /\ raw[k] = Stretch(i, j)
        /\ \A i, j \in Speech : Utterance(i, j) => \E k \in DOMAIN raw : raw[k] = Stretch(i, j)
        /\ \A k, l \in DOMAIN raw : k < l => raw[k][1] < raw[l][1]
    BY <1>6, <2>1, <2>3 DEF FoundRuns, EndedRuns
  <2> QED BY <2>4 DEF raw
<1>8. CASE s.start # Closed
  <2>1. PICK a \in Speech, l \in Speech : OpenRun(s, n, a, l)
    BY <1>6, <1>8 DEF FoundRuns, EndedRuns
  <2>2. \A h \in Speech : h <= n /\ ~(h > l)
    BY <1>1, <2>1 DEF OpenRun
  <2> DEFINE p == <<s.start, s.last>>
             w == Len(s.raw)
  <2>3. /\ Utterance(a, l) /\ Stretch(a, l) = p /\ p \in Pairs
        /\ s.start \in Nat /\ s.last \in Nat /\ s.start < s.last
    BY <1>6, <2>1, <2>2, OpenIsUtterance
  <2>4. raw = Append(s.raw, p)
    <3>1. OpenSegment(s, audioLen) = p
      BY <2>3 DEF OpenSegment, AtLeast
    <3> QED BY <1>6, <1>8, <3>1 DEF RawSegments
  <2>5. \A i, j \in Speech : Utterance(i, j) => Ended(i, j, n) \/ (i = a /\ j = l)
    BY <1>6, <2>1, <2>2, OpenIsOnly
  <2>6. p[1] = s.start /\ \A k \in DOMAIN s.raw : s.raw[k][1] < s.start
    BY <1>6, <2>1, OpenIsLast
  <2> HIDE DEF p, raw
  <2>7. /\ w \in Nat /\ DOMAIN s.raw = 1 .. w /\ DOMAIN raw = 1 .. w + 1
        /\ \A k \in 1 .. w : raw[k] = s.raw[k]
        /\ raw[w + 1] = p
    <3>1. s.raw \in Seq(Pairs)
      BY <1>6 DEF Scans
    <3> QED BY <2>3, <2>4, <3>1, AppendProperties, LenProperties
  <2> HIDE DEF w
  <2>8. /\ \A k \in 1 .. w + 1 : k = w + 1 \/ k \in 1 .. w
        /\ \A k \in 1 .. w : k \in 1 .. w + 1
        /\ w + 1 \in 1 .. w + 1
    BY <2>7
  <2>9. ASSUME NEW k \in DOMAIN raw
        PROVE  \E i, j \in Speech : Utterance(i, j) /\ raw[k] = Stretch(i, j)
    <3>1. CASE k = w + 1
      BY <2>3, <2>7, <3>1
    <3>2. CASE k \in 1 .. w
      <4>1. PICK i \in Speech, j \in Speech : Ended(i, j, n) /\ s.raw[k] = Stretch(i, j)
        BY <1>6, <2>7, <3>2 DEF FoundRuns, EndedRuns
      <4> QED BY <2>7, <3>2, <4>1 DEF Ended
    <3> QED BY <2>7, <2>8, <3>1, <3>2
  <2>10. ASSUME NEW i \in Speech, NEW j \in Speech, Utterance(i, j)
         PROVE  \E k \in DOMAIN raw : raw[k] = Stretch(i, j)
    <3>1. CASE Ended(i, j, n)
      <4>1. PICK k \in DOMAIN s.raw : s.raw[k] = Stretch(i, j)
        BY <1>6, <3>1 DEF FoundRuns, EndedRuns
      <4> QED BY <2>7, <2>8, <4>1
    <3>2. CASE i = a /\ j = l
      BY <2>3, <2>7, <2>8, <3>2
    <3> QED BY <2>5, <2>10, <3>1, <3>2
  <2>11. ASSUME NEW k \in DOMAIN raw, NEW h \in DOMAIN raw, k < h PROVE raw[k][1] < raw[h][1]
    <3>1. k \in 1 .. w
      BY <2>7, <2>11
    <3>2. CASE h = w + 1
      BY <2>6, <2>7, <3>1, <3>2
    <3>3. CASE h \in 1 .. w
      BY <1>6, <2>7, <2>11, <3>1, <3>3 DEF FoundRuns, EndedRuns
    <3> QED BY <2>7, <2>8, <3>2, <3>3
  <2> QED BY <2>9, <2>10, <2>11 DEF raw
<1> QED BY <1>7, <1>8

-----------------------------------------------------------------------------
(* Segments, as merging leaves them. *)

\* A half sample of a padded raw segment, and of a segment.
Padded(r, len, x) == 2 * PadFrom(r) <= x /\ x <= 2 * PadTo(r, len)
InSegments(segs, x) == \E i \in DOMAIN segs : 2 * segs[i][1] <= x /\ x <= 2 * segs[i][2]

\* One raw segment more is covered, and nothing else; the last segment begins
\* where it did, or with the raw segment.
LEMMA MergeCovers ==
  ASSUME NEW len \in Nat, NEW segs, InOrder(segs, len),
         NEW r \in Pairs, r[1] < r[2], r[2] <= len, LongEnough(r),
         segs # <<>> => segs[Len(segs)][1] <= PadFrom(r)
  PROVE  /\ \A x \in Int : InSegments(MergeRound(segs, r, len), x) <=>
                              InSegments(segs, x) \/ Padded(r, len, x)
         /\ LET next == MergeRound(segs, r, len) IN
            \/ next[Len(next)][1] = PadFrom(r)
            \/ segs # <<>> /\ next[Len(next)][1] = segs[Len(segs)][1]
<1> DEFINE n == Len(segs)
           from == PadFrom(r)
           to == PadTo(r, len)
           next == MergeRound(segs, r, len)
<1>1. /\ segs \in Seq(Pairs) /\ n \in Nat /\ DOMAIN segs = 1 .. n
      /\ \A i \in 1 .. n : segs[i][1] \in Nat /\ segs[i][2] \in Nat
      /\ (segs # <<>> <=> n > 0)
  BY LenProperties, EmptySeq DEF InOrder, Pairs
<1>2. from \in Nat /\ to \in Nat /\ from < to /\ <<from, to>> \in Pairs
  BY PadFits
<1>3. CASE Joins(segs, r)
  <2> DEFINE a == segs[n][1]
             b == segs[n][2]
             e == AtLeast(b, to)
  <2>1. n \in 1 .. n /\ a \in Nat /\ b \in Nat /\ segs # <<>> /\ a <= from /\ from <= b
    BY <1>1, <1>3 DEF Joins
  <2>2. /\ next \in Seq(Pairs) /\ Len(next) = n
        /\ \A i \in 1 .. n : i # n => next[i] = segs[i]
        /\ next[n][1] = a /\ next[n][2] = e
    BY <1>1, <1>3, MergeShape DEF Stretched
  <2> HIDE DEF next, a, b, from, to
  <2>3. DOMAIN next = 1 .. n
    BY <2>2, LenProperties
  <2>4. ASSUME NEW x \in Int
        PROVE  2 * a <= x /\ x <= 2 * e <=>
               (2 * a <= x /\ x <= 2 * b) \/ (2 * from <= x /\ x <= 2 * to)
    BY <1>2, <2>1 DEF AtLeast
  <2> HIDE DEF e, n
  <2>5. ASSUME NEW x \in Int
        PROVE  InSegments(next, x) <=> InSegments(segs, x) \/ Padded(r, len, x)
    <3>1. Padded(r, len, x) <=> 2 * from <= x /\ x <= 2 * to
      BY DEF Padded, from, to
    <3>2. InSegments(next, x) <=>
             \/ \E i \in 1 .. n : i # n /\ 2 * segs[i][1] <= x /\ x <= 2 * segs[i][2]
             \/ 2 * a <= x /\ x <= 2 * e
      BY <2>1, <2>2, <2>3 DEF InSegments
    <3>3. InSegments(segs, x) <=>
             \/ \E i \in 1 .. n : i # n /\ 2 * segs[i][1] <= x /\ x <= 2 * segs[i][2]
             \/ 2 * a <= x /\ x <= 2 * b
      BY <1>1, <2>1 DEF InSegments, a, b
    <3> QED BY <2>1, <2>4, <3>1, <3>2, <3>3, <1>2
  <2> QED BY <2>1, <2>2, <2>5 DEF next, a, n
<1>4. CASE ~Joins(segs, r)
  <2> DEFINE p == <<from, to>>
  <2>1. next = Append(segs, p)
    BY <1>1, <1>4, MergeShape
  <2>2. p \in Pairs /\ p[1] = from /\ p[2] = to
    BY <1>2
  <2> HIDE DEF p, next
  <2>3. /\ Len(next) = n + 1 /\ DOMAIN next = 1 .. n + 1
        /\ \A i \in 1 .. n : next[i] = segs[i]
        /\ next[n + 1] = p
    BY <1>1, <2>1, <2>2, AppendProperties, LenProperties
  <2>4. /\ \A i \in 1 .. n + 1 : i = n + 1 \/ i \in 1 .. n
        /\ \A i \in 1 .. n : i \in 1 .. n + 1
        /\ n + 1 \in 1 .. n + 1
    BY <1>1
  <2> HIDE DEF n, from, to
  <2>5. ASSUME NEW x \in Int
        PROVE  InSegments(next, x) <=> InSegments(segs, x) \/ Padded(r, len, x)
    <3>1. Padded(r, len, x) <=> 2 * p[1] <= x /\ x <= 2 * p[2]
      BY <2>2 DEF Padded, from, to
    <3> QED BY <1>1, <2>3, <2>4, <3>1 DEF InSegments
  <2> QED BY <2>2, <2>3, <2>5 DEF next, from
<1> QED BY <1>3, <1>4

\* The segments cover what the raw segments that are long enough do, padded.
LEMMA MergedCovers ==
  ASSUME NEW len \in Nat, NEW raw \in Seq(Pairs), Fit(raw, len),
         \A i, j \in DOMAIN raw : i < j => raw[i][1] < raw[j][1], NEW x \in Int
  PROVE  InSegments(Merged(len, raw), x) <=>
            \E i \in DOMAIN raw : LongEnough(raw[i]) /\ Padded(raw[i], len, x)
<1> DEFINE n == Len(raw)
           Cover(segs, k) ==
              /\ \A y \in Int : InSegments(segs, y) <=>
                    \E i \in 1 .. k : LongEnough(raw[i]) /\ Padded(raw[i], len, y)
              /\ segs # <<>> => \E i \in 1 .. k : segs[Len(segs)][1] = PadFrom(raw[i])
<1>1. /\ n \in Nat /\ DOMAIN raw = 1 .. n
      /\ \A i \in 1 .. n : /\ raw[i] \in Pairs /\ raw[i][1] \in Nat
                           /\ raw[i][1] < raw[i][2] /\ raw[i][2] <= len
  BY LenProperties DEF Pairs, Fit
<1>2. PICK f : /\ \A i \in 0 .. n : InOrder(f[i], len)
               /\ f[0] = <<>>
               /\ \A i \in 1 .. n : f[i] = MergeRound(f[i - 1], raw[i], len)
               /\ Merged(len, raw) = f[n]
  BY MergeIsLoop
<1> DEFINE D == {k \in 0 .. n : Cover(f[k], k)}
<1>3. 0 \in D
  <2>1. \A y \in Int : ~InSegments(<<>>, y)
    BY EmptySeq DEF InSegments
  <2>2. \A i : ~(i \in 1 .. 0)
    OBVIOUS
  <2> QED BY <1>1, <1>2, <2>1, <2>2
<1>4. ASSUME NEW k \in 1 .. n, k - 1 \in D PROVE k \in D
  <2> DEFINE segs == f[k - 1]
             r == raw[k]
             next == f[k]
  <2>1. k \in 0 .. n /\ k - 1 \in 0 .. n /\ InOrder(segs, len) /\ Cover(segs, k - 1)
        /\ next = MergeRound(segs, r, len) /\ r \in Pairs /\ r[1] < r[2] /\ r[2] <= len
    BY <1>1, <1>2, <1>4
  <2>2. /\ \A i \in 1 .. k : i = k \/ i \in 1 .. k - 1
        /\ \A i \in 1 .. k - 1 : i \in 1 .. k /\ i \in 1 .. n /\ i < k
        /\ k \in 1 .. k
    BY <1>1
  <2>3. segs # <<>> => segs[Len(segs)][1] <= PadFrom(r)
    <3> SUFFICES ASSUME segs # <<>> PROVE segs[Len(segs)][1] <= PadFrom(r)
      OBVIOUS
    <3>1. PICK i \in 1 .. k - 1 : segs[Len(segs)][1] = PadFrom(raw[i])
      BY <2>1
    <3>2. i \in 1 .. n /\ raw[i][1] < r[1] /\ raw[i][1] \in Nat /\ r[1] \in Nat
      BY <1>1, <2>2
    <3>3. \A a, b \in Nat : a < b => Monus(a, SpeechPad) <= Monus(b, SpeechPad)
      BY VadAssumption DEF Monus, AtLeast
    <3>4. PadFrom(raw[i]) <= PadFrom(r)
      BY <3>2, <3>3 DEF PadFrom
    <3> QED BY <3>1, <3>4
  <2> HIDE DEF segs, r, next
  <2>4. CASE ~LongEnough(r)
    <3>1. next = segs
      BY <2>1, <2>4 DEF MergeRound
    <3>2. Cover(next, k)
      BY <2>1, <2>2, <2>4, <3>1 DEF r
    <3> QED BY <2>1, <3>2 DEF next
  <2>5. CASE LongEnough(r)
    <3>1. /\ \A y \in Int : InSegments(next, y) <=> InSegments(segs, y) \/ Padded(r, len, y)
          /\ \/ next[Len(next)][1] = PadFrom(r)
             \/ segs # <<>> /\ next[Len(next)][1] = segs[Len(segs)][1]
      BY <2>1, <2>3, <2>5, MergeCovers
    <3>2. ASSUME NEW y \in Int
          PROVE  InSegments(next, y) <=>
                    \E i \in 1 .. k : LongEnough(raw[i]) /\ Padded(raw[i], len, y)
      BY <2>1, <2>2, <2>5, <3>1 DEF r
    <3>3. next # <<>> => \E i \in 1 .. k : next[Len(next)][1] = PadFrom(raw[i])
      BY <2>1, <2>2, <3>1 DEF r
    <3>4. Cover(next, k)
      BY <3>2, <3>3
    <3> QED BY <2>1, <3>4 DEF next
  <2> QED BY <2>4, <2>5
<1>5. \A k \in 0 .. n : k \in D
  <2> HIDE DEF D, n
  <2> QED BY <1>1, <1>3, <1>4, UpTo
<1>6. Cover(f[n], n)
  <2>1. n \in D
    <3>1. n \in 0 .. n
      BY <1>1
    <3> HIDE DEF D, n
    <3> QED BY <1>5, <3>1
  <2> QED BY <2>1
<1> QED BY <1>1, <1>2, <1>6

\* Segments in order are the maximal stretches of what they cover.
LEMMA SegmentsAreMaximal ==
  ASSUME NEW len \in Nat, NEW segs, InOrder(segs, len),
         NEW covered, \A x \in Int : x \in covered <=> InSegments(segs, x)
  PROVE  {segs[i] : i \in DOMAIN segs} =
            {s \in {a \in 0 .. len : 2 * a \in covered /\ (2 * a - 1) \notin covered}
                   \X {b \in 0 .. len : 2 * b \in covered /\ (2 * b + 1) \notin covered} :
                s[1] <= s[2] /\ 2 * s[1] .. 2 * s[2] \subseteq covered}
<1> DEFINE n == Len(segs)
           Begins == {a \in 0 .. len : 2 * a \in covered /\ (2 * a - 1) \notin covered}
           Ends == {b \in 0 .. len : 2 * b \in covered /\ (2 * b + 1) \notin covered}
           Maximal == {s \in Begins \X Ends : s[1] <= s[2] /\ 2 * s[1] .. 2 * s[2] \subseteq covered}
<1>1. /\ n \in Nat /\ DOMAIN segs = 1 .. n
      /\ \A i \in 1 .. n : /\ segs[i] \in Pairs /\ segs[i][1] \in Nat /\ segs[i][2] \in Nat
                           /\ segs[i][1] < segs[i][2] /\ segs[i][2] <= len
                           /\ segs[i] = <<segs[i][1], segs[i][2]>>
      /\ \A i, j \in 1 .. n : i < j => segs[i][2] < segs[j][1]
  <2>1. /\ segs \in Seq(Pairs) /\ Fit(segs, len)
        /\ \A i, j \in DOMAIN segs : i < j => segs[i][2] < segs[j][1]
    BY DEF InOrder
  <2>2. n \in Nat /\ DOMAIN segs = 1 .. n /\ \A i \in 1 .. n : segs[i] \in Pairs
    BY <2>1, LenProperties, ElementOfSeq
  <2>3. \A p \in Pairs : p[1] \in Nat /\ p[2] \in Nat /\ p = <<p[1], p[2]>>
    BY DEF Pairs
  <2>4. \A i \in 1 .. n : segs[i][1] < segs[i][2] /\ segs[i][2] <= len
    BY <2>1, <2>2 DEF Fit
  <2> HIDE DEF n
  <2> QED BY <2>1, <2>2, <2>3, <2>4
<1> DEFINE From(i) == segs[i][1]
           To(i) == segs[i][2]
<1>2. \A x \in Int : x \in covered <=> \E i \in 1 .. n : 2 * From(i) <= x /\ x <= 2 * To(i)
  BY <1>1 DEF InSegments
<1>3. /\ \A i \in 1 .. n : From(i) \in Nat /\ To(i) \in Nat /\ From(i) < To(i) /\ To(i) <= len
      /\ \A i, j \in 1 .. n : i < j => To(i) < From(j)
      /\ \A i, j \in 1 .. n : i < j \/ i = j \/ j < i
  BY <1>1
<1> HIDE DEF From, To, n
<1>4. ASSUME NEW i \in 1 .. n
      PROVE  From(i) \in Begins /\ To(i) \in Ends /\ 2 * From(i) .. 2 * To(i) \subseteq covered
  <2>1. From(i) \in Nat /\ To(i) \in Nat /\ From(i) < To(i) /\ To(i) <= len
    BY <1>3
  <2>2. 2 * From(i) \in covered /\ 2 * To(i) \in covered
    BY <1>2, <2>1
  <2>3. \A x \in 2 * From(i) .. 2 * To(i) : x \in covered
    BY <1>2, <2>1
  <2>4. 2 * From(i) - 1 \notin covered
    <3> SUFFICES ASSUME 2 * From(i) - 1 \in covered PROVE FALSE
      OBVIOUS
    <3>1. PICK j \in 1 .. n : 2 * From(j) <= 2 * From(i) - 1 /\ 2 * From(i) - 1 <= 2 * To(j)
      BY <1>2, <2>1
    <3>2. From(j) \in Nat /\ To(j) \in Nat /\ From(j) < To(j)
      BY <1>3
    <3>3. j # i /\ (j < i => To(j) < From(i)) /\ (i < j => To(i) < From(j))
      BY <1>3, <2>1, <3>1
    <3>4. CASE j < i
      BY <2>1, <3>1, <3>2, <3>3, <3>4
    <3>5. CASE i < j
      BY <2>1, <3>1, <3>2, <3>3, <3>5
    <3> QED BY <1>3, <3>3, <3>4, <3>5
  <2>5. 2 * To(i) + 1 \notin covered
    <3> SUFFICES ASSUME 2 * To(i) + 1 \in covered PROVE FALSE
      OBVIOUS
    <3>1. PICK j \in 1 .. n : 2 * From(j) <= 2 * To(i) + 1 /\ 2 * To(i) + 1 <= 2 * To(j)
      BY <1>2, <2>1
    <3>2. From(j) \in Nat /\ To(j) \in Nat /\ From(j) < To(j)
      BY <1>3
    <3>3. j # i /\ (j < i => To(j) < From(i)) /\ (i < j => To(i) < From(j))
      BY <1>3, <2>1, <3>1
    <3>4. CASE j < i
      BY <2>1, <3>1, <3>2, <3>3, <3>4
    <3>5. CASE i < j
      BY <2>1, <3>1, <3>2, <3>3, <3>5
    <3> QED BY <1>3, <3>3, <3>4, <3>5
  <2> QED BY <2>1, <2>2, <2>3, <2>4, <2>5
<1>5. ASSUME NEW a \in Begins PROVE \E i \in 1 .. n : a = From(i)
  <2>1. a \in Nat /\ 2 * a \in covered /\ 2 * a - 1 \notin covered
    OBVIOUS
  <2>2. PICK i \in 1 .. n : 2 * From(i) <= 2 * a /\ 2 * a <= 2 * To(i)
    BY <1>2, <2>1
  <2>3. From(i) \in Nat /\ To(i) \in Nat
    BY <1>3
  <2>4. ~(2 * From(i) <= 2 * a - 1 /\ 2 * a - 1 <= 2 * To(i))
    BY <1>2, <2>1
  <2>5. a = From(i)
    BY <2>1, <2>2, <2>3, <2>4
  <2> QED BY <2>5
<1>6. ASSUME NEW b \in Ends PROVE \E i \in 1 .. n : b = To(i)
  <2>1. b \in Nat /\ 2 * b \in covered /\ 2 * b + 1 \notin covered
    OBVIOUS
  <2>2. PICK i \in 1 .. n : 2 * From(i) <= 2 * b /\ 2 * b <= 2 * To(i)
    BY <1>2, <2>1
  <2>3. From(i) \in Nat /\ To(i) \in Nat
    BY <1>3
  <2>4. ~(2 * From(i) <= 2 * b + 1 /\ 2 * b + 1 <= 2 * To(i))
    BY <1>2, <2>1
  <2>5. b = To(i)
    BY <2>1, <2>2, <2>3, <2>4
  <2> QED BY <2>5
<1>7. ASSUME NEW i \in 1 .. n, NEW j \in 1 .. n, From(i) <= To(j),
             2 * From(i) .. 2 * To(j) \subseteq covered
      PROVE  i = j
  <2>1. /\ From(i) \in Nat /\ To(i) \in Nat /\ From(i) < To(i)
        /\ From(j) \in Nat /\ To(j) \in Nat /\ From(j) < To(j)
    BY <1>3
  <2>2. ~(j < i)
    BY <1>3, <1>7, <2>1
  <2>3. ~(i < j)
    <3> SUFFICES ASSUME i < j PROVE FALSE
      OBVIOUS
    <3>1. To(i) < From(j)
      BY <1>3
    <3>2. 2 * To(i) + 1 \in 2 * From(i) .. 2 * To(j)
      BY <2>1, <3>1
    <3>3. 2 * To(i) + 1 \in covered
      BY <1>7, <3>2
    <3> QED BY <1>4, <3>3
  <2> QED BY <1>3, <2>2, <2>3
<1>8. {segs[i] : i \in 1 .. n} \subseteq Maximal
  <2> SUFFICES ASSUME NEW i \in 1 .. n PROVE segs[i] \in Maximal
    OBVIOUS
  <2>1. segs[i] = <<From(i), To(i)>> /\ From(i) <= To(i)
    BY <1>1, <1>3 DEF From, To, n
  <2> HIDE DEF Begins, Ends
  <2> QED BY <1>4, <2>1
<1>9. Maximal \subseteq {segs[i] : i \in 1 .. n}
  <2> SUFFICES ASSUME NEW a \in Begins, NEW b \in Ends, a <= b, 2 * a .. 2 * b \subseteq covered
               PROVE  \E i \in 1 .. n : <<a, b>> = segs[i]
    <3> HIDE DEF Begins, Ends
    <3> QED OBVIOUS
  <2> HIDE DEF Begins, Ends
  <2>1. PICK i \in 1 .. n : a = From(i)
    BY <1>5
  <2>2. PICK j \in 1 .. n : b = To(j)
    BY <1>6
  <2>3. i = j
    BY <1>7, <2>1, <2>2
  <2>4. segs[i] = <<From(i), To(i)>>
    BY <1>1 DEF From, To, n
  <2> QED BY <2>1, <2>2, <2>3, <2>4
<1> QED BY <1>1, <1>8, <1>9 DEF n

\* segments_from_probs returns the maximal stretches of padded utterances, each
\* once and in order, with a gap between any two of them: what the loops with
\* their open segment, their last speech and their merging in place compute is
\* the definition that has none of them.
THEOREM SegmentsAreTheReference == Spec => []SegmentsAreReference
<1>1. ASSUME JudgedInv PROVE SegmentsAreReference
  <2> DEFINE segs == Segments(audioLen, probs)
             raw == RawSegments(audioLen, probs)
  <2>1. audioLen \in Nat /\ Decisions(audioLen, probs) /\ InOrder(segs, audioLen)
    BY <1>1, JudgedDecide DEF JudgedInv, SegsNow
  <2>2. /\ raw \in Seq(Pairs) /\ Fit(raw, audioLen)
        /\ \A i, j \in DOMAIN raw : i < j => raw[i][1] < raw[j][1]
    BY <1>1, <2>1, RawSegmentsFit, RawAreUtterances
  <2>3. \A u : u \in Utterances <=> \E k \in DOMAIN raw : u = raw[k]
    <3>1. \A u : u \in Utterances <=> \E i, j \in Speech : Utterance(i, j) /\ u = Stretch(i, j)
      <4>1. Utterances = {<<probs[r[1]].start, EndOf(r[2])>> :
                             r \in {q \in Speech \X Speech : Utterance(q[1], q[2])}}
        BY DEF Utterances, Utterance
      <4>2. \A u : u \in Utterances <=>
               \E i, j \in Speech : Utterance(i, j) /\ u = <<probs[i].start, EndOf(j)>>
        <5> TAKE u
        <5>1. ASSUME u \in Utterances
              PROVE  \E i, j \in Speech : Utterance(i, j) /\ u = <<probs[i].start, EndOf(j)>>
          <6>1. PICK q \in Speech \X Speech :
                  Utterance(q[1], q[2]) /\ u = <<probs[q[1]].start, EndOf(q[2])>>
            BY <4>1, <5>1
          <6> QED BY <6>1
        <5>2. ASSUME NEW i \in Speech, NEW j \in Speech, Utterance(i, j),
                     u = <<probs[i].start, EndOf(j)>>
              PROVE  u \in Utterances
          <6> DEFINE q == <<i, j>>
          <6>1. q \in Speech \X Speech /\ q[1] = i /\ q[2] = j
            OBVIOUS
          <6> HIDE DEF q
          <6>2. Utterance(q[1], q[2]) /\ u = <<probs[q[1]].start, EndOf(q[2])>>
            BY <5>2, <6>1
          <6> QED BY <4>1, <6>1, <6>2
        <5> QED BY <5>1, <5>2
      <4> QED BY <4>2 DEF Stretch
    <3> QED BY <1>1, <3>1, RawAreUtterances
  <2>4. \A k \in DOMAIN raw : /\ raw[k] \in Pairs /\ raw[k][1] \in Nat /\ raw[k][2] \in Nat
                              /\ raw[k][1] < raw[k][2] /\ raw[k][2] <= audioLen
    BY <2>2, LenProperties DEF Fit, Pairs
  <2> HIDE DEF raw, segs
  <2>5. \A k \in DOMAIN raw : LongEnough(raw[k]) <=> raw[k][2] - raw[k][1] >= MinSpeech
    BY <2>4 DEF LongEnough, Monus, AtLeast
  <2>6. ASSUME NEW x \in Int PROVE x \in Covered <=> InSegments(segs, x)
    <3>1. InSegments(segs, x) <=>
             \E k \in DOMAIN raw : LongEnough(raw[k]) /\ Padded(raw[k], audioLen, x)
      BY <2>1, <2>2, MergedCovers DEF Segments, segs, raw
    <3>2. ASSUME NEW k \in DOMAIN raw
          PROVE  Padded(raw[k], audioLen, x) <=>
                    x \in 2 * AtLeast(raw[k][1] - SpeechPad, 0)
                          .. 2 * AtMost(raw[k][2] + SpeechPad, audioLen)
      <4>1. PadFrom(raw[k]) \in Nat /\ PadTo(raw[k], audioLen) \in Nat
        BY <2>1, <2>4, PadFits
      <4>2. /\ PadFrom(raw[k]) = AtLeast(raw[k][1] - SpeechPad, 0)
            /\ PadTo(raw[k], audioLen) = AtMost(raw[k][2] + SpeechPad, audioLen)
        BY DEF PadFrom, PadTo, Monus
      <4> QED BY <4>1, <4>2 DEF Padded
    <3>3. x \in Covered <=>
             \E u \in Utterances : /\ u[2] - u[1] >= MinSpeech
                                   /\ x \in 2 * AtLeast(u[1] - SpeechPad, 0)
                                            .. 2 * AtMost(u[2] + SpeechPad, audioLen)
      BY DEF Covered
    <3>4. x \in Covered <=>
             \E k \in DOMAIN raw : /\ raw[k][2] - raw[k][1] >= MinSpeech
                                   /\ x \in 2 * AtLeast(raw[k][1] - SpeechPad, 0)
                                            .. 2 * AtMost(raw[k][2] + SpeechPad, audioLen)
      BY <2>3, <3>3
    <3> QED BY <2>5, <3>1, <3>2, <3>4
  <2>7. {segs[i] : i \in DOMAIN segs} = Reference
    BY <2>1, <2>6, SegmentsAreMaximal DEF Reference
  <2>8. \A i \in 1 .. (Len(segs) - 1) : segs[i][2] < segs[i + 1][1]
    <3> TAKE i \in 1 .. (Len(segs) - 1)
    <3>1. i \in DOMAIN segs /\ i + 1 \in DOMAIN segs /\ i < i + 1
      BY <2>1, LenProperties DEF InOrder
    <3> QED BY <2>1, <3>1 DEF InOrder
  <2> QED BY <2>7, <2>8 DEF SegmentsAreReference, segs
<1> QED BY <1>1, JudgedInductive, PTL
==============================================================================
