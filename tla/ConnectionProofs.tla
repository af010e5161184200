-------------------------- MODULE ConnectionProofs ---------------------------
(***************************************************************************)
(* Proofs about messages and a connection, for every hello and response,   *)
(* every width of the integers, every size of the socket and of a frame.   *)
(*                                                                         *)
(* The first half is about the codec: a varint, a field and a message are  *)
(* read as what they were written from, whatever is known of the bytes     *)
(* around them, so that a hello and a response survive the round trip.     *)
(* The second is about the two processes: ConnectionInvariant says where   *)
(* the bytes of each frame are, and with the round trip everything that    *)
(* Connection.cfg checks as an invariant follows.                          *)
(***************************************************************************)
EXTENDS Connection, SequenceTheorems, WellFoundedInduction, TLAPS

-----------------------------------------------------------------------------
(* Loops. *)

\* What holds at first and is kept by each round holds after every round.
LEMMA UpTo ==
  ASSUME NEW n \in Nat, NEW D, 0 \in D, \A i \in 1 .. n : i - 1 \in D => i \in D
  PROVE  \A i \in 0 .. n : i \in D
<1> DEFINE Out  == {i \in 0 .. n : i \notin D}
           Less == {ss \in Nat \X Nat : ss[1] < ss[2]}
<1>1. IsWellFoundedOn(Less, Nat)
  BY NatLessThanWellFounded DEF OpToRel
<1>2. SUFFICES ASSUME Out # {} PROVE FALSE
  OBVIOUS
<1>3. Out \subseteq Nat
  OBVIOUS
<1>4. PICK x \in Out : \A y \in Out : <<y, x>> \notin Less
  <2> HIDE DEF Out, Less
  <2> QED BY <1>1, <1>2, <1>3, WFMin
<1>5. x \in 1 .. n /\ x \notin D /\ x - 1 \in 0 .. n
  OBVIOUS
<1>6. x - 1 \in Out
  BY <1>5
<1>7. <<x - 1, x>> \in Less
  BY <1>5
<1> QED BY <1>4, <1>6, <1>7

\* The results of a loop of n rounds that starts from a.
IsLoop(f, n, V, a, step) ==
    /\ f \in [0 .. n -> V] /\ f[0] = a
    /\ \A i \in 1 .. n : f[i] = step[i][f[i - 1]]

Rounds(n, V) == [1 .. n -> [V -> V]]

\* A loop has a result after each of its rounds.
LEMMA LoopExists ==
  ASSUME NEW n \in Nat, NEW V, NEW a \in V, NEW step \in Rounds(n, V)
  PROVE  \E f : IsLoop(f, n, V, a, step)
<1> USE DEF Rounds
<1> DEFINE Loop(k) == {f \in [0 .. k -> V] :
                          f[0] = a /\ \A i \in 1 .. k : f[i] = step[i][f[i - 1]]}
           D == {k \in 0 .. n : Loop(k) # {}}
<1>1. 0 \in D
  <2>1. [i \in 0 .. 0 |-> a] \in Loop(0)
    OBVIOUS
  <2> QED BY <2>1
<1>2. ASSUME NEW k \in 1 .. n, k - 1 \in D PROVE k \in D
  <2>1. PICK f \in Loop(k - 1) : TRUE
    BY <1>2
  <2>2. f \in [0 .. k - 1 -> V] /\ f[0] = a
        /\ \A i \in 1 .. k - 1 : f[i] = step[i][f[i - 1]]
    BY <2>1
  <2> DEFINE g == [i \in 0 .. k |-> IF i = k THEN step[k][f[k - 1]] ELSE f[i]]
  <2>3. f[k - 1] \in V /\ k \in 1 .. n
    BY <2>2
  <2>4. step[k][f[k - 1]] \in V
    BY <2>3
  <2>5. g \in [0 .. k -> V]
    BY <2>2, <2>4
  <2>6. g[0] = a
    BY <2>2
  <2>7. ASSUME NEW i \in 1 .. k PROVE g[i] = step[i][g[i - 1]]
    <3>1. CASE i = k
      <4>1. g[i] = step[k][f[k - 1]] /\ g[i - 1] = f[k - 1]
        BY <3>1
      <4> QED BY <4>1, <3>1
    <3>2. CASE i # k
      <4>1. g[i] = f[i] /\ g[i - 1] = f[i - 1] /\ i \in 1 .. k - 1
        BY <3>2
      <4> QED BY <4>1, <2>2
    <3> QED BY <3>1, <3>2
  <2>8. g \in Loop(k)
    <3> HIDE DEF g
    <3> QED BY <2>5, <2>6, <2>7
  <2>9. Loop(k) # {}
    <3> HIDE DEF g, Loop
    <3> QED BY <2>8
  <2>10. k \in 0 .. n
    OBVIOUS
  <2> HIDE DEF Loop
  <2> QED BY <2>9, <2>10
<1>3. n \in D
  <2>1. \A k \in 0 .. n : k \in D
    <3> HIDE DEF D
    <3> QED BY <1>1, <1>2, UpTo
  <2> QED BY <2>1
<1>4. PICK f \in Loop(n) : TRUE
  BY <1>3
<1> QED BY <1>4 DEF IsLoop

-----------------------------------------------------------------------------
(* Widths. *)

\* What the numbers of groups hold.
LEMMA Holding ==
  /\ GroupsHold[0] = 1
  /\ \A k \in 1 .. MaxGroups : GroupsHold[k] = 128 * GroupsHold[k - 1]
  /\ \A k \in 0 .. MaxGroups : GroupsHold[k] \in Nat
<1> USE WidthAssumption
<1> DEFINE step == [i \in 1 .. MaxGroups |-> [v \in Nat |-> 128 * v]]
           F(f) == [k \in 0 .. MaxGroups |-> IF k = 0 THEN 1 ELSE 128 * f[k - 1]]
           room == CHOOSE f : f = F(f)
<1>1. PICK f : IsLoop(f, MaxGroups, Nat, 1, step)
  <2>1. step \in Rounds(MaxGroups, Nat) /\ MaxGroups \in Nat
    BY DEF Rounds
  <2> HIDE DEF step
  <2> QED BY <2>1, LoopExists
<1>2. f = F(f)
  <2>1. ASSUME NEW i \in 1 .. MaxGroups PROVE f[i] = 128 * f[i - 1]
    <3>1. f[i] = step[i][f[i - 1]] /\ f[i - 1] \in Nat
      <4> HIDE DEF step
      <4> QED BY <1>1 DEF IsLoop
    <3> QED BY <3>1
  <2> QED BY <1>1, <2>1 DEF IsLoop
<1>3. room = F(room)
  BY <1>2
<1>4. GroupsHold = room
  BY DEF GroupsHold
<1> HIDE DEF room
<1>5. GroupsHold[0] = 1 /\ \A k \in 1 .. MaxGroups : GroupsHold[k] = 128 * GroupsHold[k - 1]
  BY <1>3, <1>4
<1>6. \A k \in 0 .. MaxGroups : k \in {m \in 0 .. MaxGroups : GroupsHold[m] \in Nat}
  <2> DEFINE D == {m \in 0 .. MaxGroups : GroupsHold[m] \in Nat}
  <2>1. 0 \in D
    BY <1>5
  <2>2. ASSUME NEW i \in 1 .. MaxGroups, i - 1 \in D PROVE i \in D
    BY <1>5, <2>2
  <2> HIDE DEF D
  <2>3. \A i \in 0 .. MaxGroups : i \in D
    BY <2>1, <2>2, UpTo
  <2> QED BY <2>3 DEF D
<1> QED BY <1>5, <1>6

LEMMA Widths ==
  /\ Word64 \in Nat /\ Word32 \in Nat /\ MaxGroups \in Nat \ {0}
  /\ Word32 >= 16 /\ Word64 >= 128 /\ Word32 <= Word64 /\ Word64 <= GroupsHold[MaxGroups]
  /\ Word64 % Word32 = 0
  /\ U32 \subseteq U64 /\ U64 \subseteq Nat /\ 0 .. 127 \subseteq U64
<1>1. {Word64, Word32, MaxGroups} \subseteq Nat /\ Word32 >= 16 /\ Word64 >= 128
      /\ Word32 <= Word64 /\ Word64 <= GroupsHold[MaxGroups] /\ Word64 % Word32 = 0
  BY WidthAssumption
<1>2. MaxGroups # 0
  BY <1>1, Holding
<1> QED BY <1>1, <1>2 DEF U32, U64

-----------------------------------------------------------------------------
(* Varints. *)

\* A recursion over the numbers below a bound that descends has a result.
LEMMA VarintStep ==
  \A n \in U64 : Varint[n] = IF GoesOn(n) THEN <<(n % 128) + 128>> \o Varint[n \div 128] ELSE <<n>>
<1> DEFINE V == Seq(Byte)
           W == [U64 -> V]
           next(g, n) == IF GoesOn(n) THEN <<(n % 128) + 128>> \o g[n \div 128] ELSE <<n>>
           a == [n \in U64 |-> <<>>]
           step == [i \in 1 .. Word64 |-> [g \in W |-> [g EXCEPT ![i - 1] = next(g, i - 1)]]]
           F(g) == [n \in U64 |-> next(g, n)]
<1>1. Word64 \in Nat /\ U64 = 0 .. Word64 - 1
  BY Widths DEF U64
<1>2. ASSUME NEW n \in U64 PROVE GoesOn(n) => n \div 128 \in 0 .. n - 1 /\ n \div 128 \in U64
  BY <1>1 DEF GoesOn
<1>3. ASSUME NEW g \in W, NEW n \in U64 PROVE next(g, n) \in V
  <2>1. CASE GoesOn(n)
    <3>1. g[n \div 128] \in Seq(Byte)
      BY <1>2, <2>1
    <3>2. (n % 128) + 128 \in Byte
      BY <1>1 DEF Byte
    <3>3. <<(n % 128) + 128>> \in Seq(Byte)
      BY <3>2
    <3> QED BY <2>1, <3>1, <3>3, ConcatProperties
  <2>2. CASE ~GoesOn(n)
    <3>1. n \in Byte
      BY <1>1, <2>2 DEF Byte, GoesOn
    <3> QED BY <2>2, <3>1
  <2> QED BY <2>1, <2>2
<1>4. a \in W
  BY EmptySeq
<1>5. step \in Rounds(Word64, W)
  <2> SUFFICES ASSUME NEW i \in 1 .. Word64, NEW g \in W
               PROVE  [g EXCEPT ![i - 1] = next(g, i - 1)] \in W
    BY DEF Rounds
  <2>1. i - 1 \in U64
    BY <1>1
  <2>2. next(g, i - 1) \in V
    BY <1>3, <2>1
  <2> HIDE DEF next, V
  <2> QED BY <2>1, <2>2
<1>6. PICK f : IsLoop(f, Word64, W, a, step)
  <2> HIDE DEF W, a, step
  <2> QED BY <1>1, <1>4, <1>5, LoopExists
<1>7. f \in [0 .. Word64 -> W] /\ \A i \in 1 .. Word64 : f[i] = [f[i - 1] EXCEPT ![i - 1] = next(f[i - 1], i - 1)]
  <2>1. f \in [0 .. Word64 -> W] /\ \A i \in 1 .. Word64 : f[i] = step[i][f[i - 1]] /\ f[i - 1] \in W
    <3> HIDE DEF step, W
    <3> QED BY <1>1, <1>6 DEF IsLoop
  <2> HIDE DEF W, next
  <2> QED BY <2>1
\* After i rounds the results below i are what they are to be.
<1>8. \A i \in 0 .. Word64 : i \in {k \in 0 .. Word64 : \A n \in 0 .. k - 1 : f[k][n] = next(f[k], n)}
  <2> DEFINE D == {k \in 0 .. Word64 : \A n \in 0 .. k - 1 : f[k][n] = next(f[k], n)}
  <2>1. 0 \in D
    BY <1>1
  <2>2. ASSUME NEW i \in 1 .. Word64, i - 1 \in D PROVE i \in D
    <3> SUFFICES ASSUME NEW n \in 0 .. i - 1 PROVE f[i][n] = next(f[i], n)
      OBVIOUS
    <3>1. f[i - 1] \in W /\ f[i] \in W
      <4> HIDE DEF W
      <4> QED BY <1>1, <1>7
    <3>2. \A m \in 0 .. i - 2 : f[i][m] = f[i - 1][m]
      <4> HIDE DEF next
      <4>1. f[i] = [f[i - 1] EXCEPT ![i - 1] = next(f[i - 1], i - 1)]
        BY <1>7
      <4>2. \A m \in 0 .. i - 2 : m \in U64 /\ m # i - 1
        BY <1>1
      <4> QED BY <4>1, <4>2, <3>1
    <3>3. f[i][n] = next(f[i - 1], n)
      <4>1. CASE n = i - 1
        <5>1. n \in U64
          BY <1>1
        <5> HIDE DEF next
        <5> QED BY <1>1, <1>7, <3>1, <4>1, <5>1
      <4>2. CASE n # i - 1
        <5>1. n \in 0 .. i - 2
          BY <4>2
        <5>2. f[i - 1][n] = next(f[i - 1], n)
          BY <2>2, <5>1
        <5> QED BY <3>2, <5>1, <5>2
      <4> QED BY <4>1, <4>2
    <3>4. GoesOn(n) => f[i][n \div 128] = f[i - 1][n \div 128]
      <4>1. n \in U64
        BY <1>1
      <4>2. ASSUME GoesOn(n) PROVE n \div 128 \in 0 .. i - 2
        BY <1>2, <4>1, <4>2
      <4> QED BY <3>2, <4>2
    <3> QED BY <3>3, <3>4
  <2> HIDE DEF D
  <2>3. \A i \in 0 .. Word64 : i \in D
    BY <1>1, <2>1, <2>2, UpTo
  <2> QED BY <2>3 DEF D
<1> DEFINE g == f[Word64]
<1>9. g = F(g)
  <2>1. g \in W /\ \A n \in 0 .. Word64 - 1 : g[n] = next(g, n)
    <3> HIDE DEF W, next
    <3> QED BY <1>1, <1>7, <1>8
  <2> HIDE DEF g, next
  <2>2. g = [n \in U64 |-> next(g, n)]
    BY <1>1, <2>1
  <2> QED BY <2>2
<1> DEFINE v == CHOOSE h : h = F(h)
<1>10. v = F(v)
  <2> HIDE DEF F, g
  <2> QED BY <1>9
<1>11. Varint = v
  BY DEF Varint
<1> HIDE DEF v
<1> QED BY <1>10, <1>11

\* The number that groups make, from the last to the first.
LEMMA NumberIs ==
  ASSUME NEW s \in Seq(Byte)
  PROVE  \E g \in [1 .. Len(s) + 1 -> Nat] :
            /\ g[Len(s) + 1] = 0 /\ g[1] = Number(s)
            /\ \A i \in 1 .. Len(s) : g[i] = (s[i] % 128) + 128 * g[i + 1]
<1> DEFINE n == Len(s)
           step == [k \in 1 .. n |-> [v \in Nat |-> (s[n + 1 - k] % 128) + 128 * v]]
           F(g) == [i \in 1 .. n + 1 |-> IF i > n THEN 0 ELSE (s[i] % 128) + 128 * g[i + 1]]
           h == CHOOSE g : g = F(g)
<1>1. n \in Nat /\ \A i \in 1 .. n : s[i] \in Nat /\ s[i] % 128 \in Nat
  <2>1. n \in Nat /\ \A i \in 1 .. n : s[i] \in Byte
    BY ElementOfSeq, LenProperties
  <2>2. \A x \in Byte : x \in Nat /\ x % 128 \in Nat
    BY DEF Byte
  <2> QED BY <2>1, <2>2
<1>2. step \in Rounds(n, Nat)
  BY <1>1 DEF Rounds
<1>3. PICK f : IsLoop(f, n, Nat, 0, step)
  <2> HIDE DEF step, n
  <2> QED BY <1>1, <1>2, LoopExists
<1>4. f \in [0 .. n -> Nat] /\ f[0] = 0
      /\ \A k \in 1 .. n : f[k] = (s[n + 1 - k] % 128) + 128 * f[k - 1]
  <2>1. f \in [0 .. n -> Nat] /\ f[0] = 0 /\ \A k \in 1 .. n : f[k] = step[k][f[k - 1]] /\ f[k - 1] \in Nat
    <3> HIDE DEF step, n
    <3> QED BY <1>1, <1>3, SMTT(20) DEF IsLoop
  <2> QED BY <2>1
<1> DEFINE g == [i \in 1 .. n + 1 |-> f[n + 1 - i]]
<1>5. g \in [1 .. n + 1 -> Nat] /\ g[n + 1] = 0
      /\ \A i \in 1 .. n : g[i] = (s[i] % 128) + 128 * g[i + 1]
  <2>1. \A i \in 1 .. n + 1 : n + 1 - i \in 0 .. n /\ g[i] = f[n + 1 - i]
    BY <1>1
  <2>2. ASSUME NEW i \in 1 .. n PROVE g[i] = (s[i] % 128) + 128 * g[i + 1]
    <3>1. n + 1 - i \in 1 .. n /\ n + 1 - (n + 1 - i) = i /\ n + 1 - (i + 1) = (n + 1 - i) - 1
          /\ i + 1 \in 1 .. n + 1 /\ i \in 1 .. n + 1
      BY <1>1
    <3>2. g[i] = f[n + 1 - i] /\ g[i + 1] = f[n + 1 - (i + 1)]
      BY <2>1, <3>1
    <3> DEFINE k == n + 1 - i
    <3>3. f[k] = (s[n + 1 - k] % 128) + 128 * f[k - 1]
      BY <1>4, <3>1
    <3> QED BY <3>1, <3>2, <3>3
  <2>3. g[n + 1] = f[0] /\ n + 1 \in 1 .. n + 1
    BY <1>1, <2>1
  <2>4. g \in [1 .. n + 1 -> Nat]
    BY <1>4, <2>1
  <2> HIDE DEF g
  <2> QED BY <1>4, <2>2, <2>3, <2>4
<1>6. g = F(g)
  <2> HIDE DEF g
  <2> QED BY <1>1, <1>5
<1>7. h = F(h)
  <2> HIDE DEF g
  <2> QED BY <1>6
<1>8. Number(s) = h[1]
  BY DEF Number
<1>9. h = [i \in 1 .. n + 1 |-> h[i]] /\ h[n + 1] = 0
      /\ \A i \in 1 .. n : h[i] = (s[i] % 128) + 128 * h[i + 1]
  <2> HIDE DEF h
  <2> QED BY <1>1, <1>7
<1>10. \A k \in 0 .. n : k \in {m \in 0 .. n : h[n + 1 - m] \in Nat}
  <2> DEFINE D == {m \in 0 .. n : h[n + 1 - m] \in Nat}
  <2> HIDE DEF h
  <2>1. 0 \in D
    BY <1>1, <1>9
  <2>2. ASSUME NEW k \in 1 .. n, k - 1 \in D PROVE k \in D
    <3>1. n + 1 - k \in 1 .. n /\ (n + 1 - k) + 1 = n + 1 - (k - 1)
      BY <1>1
    <3>2. h[n + 1 - (k - 1)] \in Nat
      BY <2>2
    <3>3. h[n + 1 - k] = (s[n + 1 - k] % 128) + 128 * h[n + 1 - (k - 1)]
      BY <1>9, <3>1
    <3>4. s[n + 1 - k] % 128 \in Nat
      BY <1>1, <3>1
    <3>5. h[n + 1 - k] \in Nat
      <4> DEFINE digit == s[n + 1 - k] % 128
                 rest  == h[n + 1 - (k - 1)]
      <4> HIDE DEF digit, rest
      <4>1. digit \in Nat /\ rest \in Nat
        BY <3>2, <3>4 DEF digit, rest
      <4>2. digit + 128 * rest \in Nat
        BY <4>1
      <4> QED BY <3>3, <4>2 DEF digit, rest
    <3>6. k \in 0 .. n
      OBVIOUS
    <3> QED BY <3>5, <3>6
  <2>3. \A i \in 0 .. n : i \in D
    <3> HIDE DEF D, n
    <3> QED BY <1>1, <2>1, <2>2, UpTo
  <2> QED BY <2>3 DEF D
<1>11. h \in [1 .. n + 1 -> Nat]
  <2> HIDE DEF h
  <2> SUFFICES ASSUME NEW i \in 1 .. n + 1 PROVE h[i] \in Nat
    BY <1>9
  <2>1. n + 1 - i \in 0 .. n /\ n + 1 - (n + 1 - i) = i
    BY <1>1
  <2> QED BY <1>10, <2>1
<1> HIDE DEF h
<1> QED BY <1>8, <1>9, <1>11

\* One more byte before the others.
LEMMA NumberCons ==
  ASSUME NEW s \in Seq(Byte), NEW b \in Byte
  PROVE  Number(<<b>> \o s) = (b % 128) + 128 * Number(s) /\ Number(s) \in Nat
<1> DEFINE t == <<b>> \o s
           n == Len(s)
<1>1. t \in Seq(Byte) /\ Len(t) = n + 1 /\ n \in Nat /\ t[1] = b
      /\ \A i \in 1 .. n : t[i + 1] = s[i] /\ i + 1 \in 1 .. Len(t)
  <2>1. <<b>> \in Seq(Byte) /\ Len(<<b>>) = 1
    OBVIOUS
  <2> QED BY <2>1, ConcatProperties
<1> HIDE DEF t
<1>2. PICK g \in [1 .. n + 1 -> Nat] :
            /\ g[n + 1] = 0 /\ g[1] = Number(s)
            /\ \A i \in 1 .. n : g[i] = (s[i] % 128) + 128 * g[i + 1]
  BY NumberIs
<1>3. PICK h \in [1 .. Len(t) + 1 -> Nat] :
            /\ h[Len(t) + 1] = 0 /\ h[1] = Number(t)
            /\ \A i \in 1 .. Len(t) : h[i] = (t[i] % 128) + 128 * h[i + 1]
  <2>1. t \in Seq(Byte)
    BY <1>1
  <2> QED BY ONLY <2>1, NumberIs
<1>4. \A k \in 0 .. n : k \in {m \in 0 .. n : h[n + 2 - m] = g[n + 1 - m]}
  <2> DEFINE D == {m \in 0 .. n : h[n + 2 - m] = g[n + 1 - m]}
  <2>1. 0 \in D
    BY <1>1, <1>2, <1>3
  <2>2. ASSUME NEW k \in 1 .. n, k - 1 \in D PROVE k \in D
    <3> DEFINE i == n + 1 - k
    <3>1. i \in 1 .. n /\ i + 1 = n + 1 - (k - 1) /\ i + 1 = n + 2 - k /\ (i + 1) + 1 = n + 2 - (k - 1)
      BY <1>1
    <3>2. h[n + 2 - (k - 1)] = g[n + 1 - (k - 1)]
      BY <2>2
    <3> HIDE DEF i
    <3>3. h[i + 1] = (t[i + 1] % 128) + 128 * h[(i + 1) + 1] /\ t[i + 1] = s[i]
      BY <1>1, <1>3, <3>1
    <3>4. g[i] = (s[i] % 128) + 128 * g[i + 1]
      BY <1>2, <3>1
    <3>5. h[i + 1] = g[i]
      <4>1. h[(i + 1) + 1] = g[i + 1]
        BY <3>1, <3>2
      <4> DEFINE rest == g[i + 1]
                 byte == s[i]
      <4>2. h[i + 1] = (byte % 128) + 128 * rest
        BY <3>3, <4>1
      <4>3. g[i] = (byte % 128) + 128 * rest
        BY <3>4
      <4> HIDE DEF rest, byte
      <4> QED BY <4>2, <4>3
    <3> QED BY <3>1, <3>5 DEF i
  <2>3. \A i \in 0 .. n : i \in D
    <3> HIDE DEF D, n
    <3> QED BY <1>1, <2>1, <2>2, UpTo
  <2> QED BY <2>3 DEF D
<1>5. h[2] = g[1]
  <2>1. n \in 0 .. n /\ n + 2 - n = 2 /\ n + 1 - n = 1
    BY <1>1
  <2> QED BY <1>4, <2>1
<1>6. h[1] = (t[1] % 128) + 128 * h[2]
  BY <1>1, <1>3
<1> QED BY <1>1, <1>2, <1>3, <1>5, <1>6 DEF t

\* A varint of so many bytes: all but the last go on, and they make the number.
Shape(v, n) ==
    /\ v \in Seq(Byte) /\ Len(v) \in 1 .. MaxGroups
    /\ v[Len(v)] < 128 /\ \A i \in 1 .. Len(v) - 1 : v[i] >= 128
    /\ Number(v) = n

LEMMA VarintShape ==
  \A n \in U64 : Shape(Varint[n], n) /\ (n < 128 => Varint[n] = <<n>>)
<1> DEFINE D == {k \in 0 .. MaxGroups : k >= 1 =>
                   \A n \in U64 : n < GroupsHold[k] => Shape(Varint[n], n) /\ Len(Varint[n]) <= k}
<1>1. MaxGroups \in Nat /\ MaxGroups >= 1 /\ U64 \subseteq Nat
      /\ (\A k \in 0 .. MaxGroups : GroupsHold[k] \in Nat)
      /\ (\A k \in 1 .. MaxGroups : GroupsHold[k] = 128 * GroupsHold[k - 1])
  BY Widths, Holding
<1>2. ASSUME NEW n \in U64, n < 128 PROVE Shape(Varint[n], n) /\ Varint[n] = <<n>>
  <2>1. Varint[n] = <<n>>
    <3>1. ~GoesOn(n)
      BY <1>1, <1>2 DEF GoesOn
    <3> QED BY <3>1, VarintStep
  <2>2. n \in Byte /\ n % 128 = n
    BY <1>1, <1>2 DEF Byte
  <2>3. <<n>> \in Seq(Byte) /\ Len(<<n>>) = 1 /\ <<n>>[1] = n
    BY <2>2
  <2>4. Number(<<n>>) = n
    <3>1. <<>> \in Seq(Byte) /\ Len(<<>>) = 0 /\ <<n>> \o <<>> = <<n>>
      BY <2>3, ConcatEmptySeq, EmptySeq
    <3>2. Number(<<>>) = 0
      <4>1. PICK g \in [1 .. Len(<<>>) + 1 -> Nat] : g[Len(<<>>) + 1] = 0 /\ g[1] = Number(<<>>)
        BY <3>1, NumberIs
      <4> QED BY <3>1, <4>1
    <3>3. Number(<<n>> \o <<>>) = (n % 128) + 128 * Number(<<>>)
      BY <2>2, <3>1, NumberCons
    <3> QED BY <1>1, <2>2, <3>1, <3>2, <3>3
  <2> QED BY <1>1, <1>2, <2>1, <2>3, <2>4 DEF Shape
<1>3. 0 \in D
  BY <1>1
<1>4. ASSUME NEW k \in 1 .. MaxGroups, k - 1 \in D PROVE k \in D
  <2> SUFFICES ASSUME NEW n \in U64, n < GroupsHold[k]
               PROVE  Shape(Varint[n], n) /\ Len(Varint[n]) <= k
    OBVIOUS
  <2>1. CASE n < 128
    <3>1. Len(<<n>>) = 1 /\ 1 <= k
      OBVIOUS
    <3>2. Shape(Varint[n], n) /\ Varint[n] = <<n>>
      BY <1>2, <2>1
    <3> QED BY <3>1, <3>2
  <2>2. CASE n >= 128
    <3> DEFINE m == n \div 128
               b == (n % 128) + 128
               w == Varint[m]
               v == Varint[n]
    <3>1. m \in Nat /\ n = 128 * m + (n % 128) /\ n % 128 \in 0 .. 127 /\ m >= 1 /\ n \in Nat
      BY <1>1, <2>2
    <3>2. m \in U64
      BY <3>1, Widths DEF U64
    <3>3. m < GroupsHold[k - 1] /\ k - 1 \in 0 .. MaxGroups
      <4>1. GroupsHold[k] = 128 * GroupsHold[k - 1] /\ k - 1 \in 0 .. MaxGroups /\ GroupsHold[k - 1] \in Nat
        BY <1>1
      <4> QED BY <3>1, <4>1
    <3>4. k - 1 >= 1
      BY <3>1, <3>3, Holding
    <3>5. Shape(w, m) /\ Len(w) <= k - 1
      BY <1>4, <3>2, <3>3, <3>4
    <3>6. v = <<b>> \o w
      BY <1>1, <2>2, VarintStep DEF GoesOn
    <3>7. b \in Byte /\ b % 128 = n % 128 /\ b >= 128
      BY <3>1 DEF Byte
    <3> HIDE DEF b, w, v, m
    <3>8. w \in Seq(Byte) /\ Len(w) \in 1 .. MaxGroups /\ <<b>> \in Seq(Byte) /\ Len(<<b>>) = 1 /\ <<b>>[1] = b
      BY <3>5, <3>7 DEF Shape
    <3>9. v \in Seq(Byte) /\ Len(v) = Len(w) + 1 /\ v[1] = b
          /\ \A i \in 2 .. Len(w) + 1 : v[i] = w[i - 1]
      BY <3>6, <3>8, ConcatProperties
    <3>10. Number(v) = n
      <4>1. Number(w) = m
        BY <3>5 DEF Shape
      <4>2. Number(v) = (b % 128) + 128 * Number(w)
        BY <3>6, <3>7, <3>8, NumberCons
      <4> QED BY <3>1, <3>7, <4>1, <4>2
    <3>11. Len(v) \in 1 .. MaxGroups /\ Len(v) <= k
      BY <1>1, <3>5, <3>8, <3>9
    <3>12. v[Len(v)] < 128
      <4>1. v[Len(v)] = w[Len(w)]
        BY <3>8, <3>9
      <4> QED BY <3>5, <4>1 DEF Shape
    <3>13. \A i \in 1 .. Len(v) - 1 : v[i] >= 128
      <4> SUFFICES ASSUME NEW i \in 1 .. Len(v) - 1 PROVE v[i] >= 128
        OBVIOUS
      <4>1. CASE i = 1
        BY <3>7, <3>9, <4>1
      <4>2. CASE i # 1
        <5>1. i \in 2 .. Len(w) + 1 /\ i - 1 \in 1 .. Len(w) - 1
          BY <3>8, <3>9, <4>2
        <5> QED BY <3>5, <3>9, <5>1 DEF Shape
      <4> QED BY <4>1, <4>2
    <3>14. Shape(v, n)
      BY <3>9, <3>10, <3>11, <3>12, <3>13 DEF Shape
    <3> QED BY <3>11, <3>14 DEF v
  <2> QED BY <1>1, <2>1, <2>2
<1>5. \A k \in 0 .. MaxGroups : k \in D
  <2> HIDE DEF D
  <2> QED BY <1>1, <1>3, <1>4, UpTo
<1> SUFFICES ASSUME NEW n \in U64 PROVE Shape(Varint[n], n) /\ (n < 128 => Varint[n] = <<n>>)
  OBVIOUS
<1>6. n < GroupsHold[MaxGroups] /\ MaxGroups \in D
  <2>1. n \in 0 .. Word64 - 1
    BY DEF U64
  <2>2. MaxGroups \in 0 .. MaxGroups /\ GroupsHold[MaxGroups] \in Nat
    BY <1>1
  <2> HIDE DEF D
  <2> QED BY <1>5, <2>1, <2>2, Widths
<1> QED BY <1>1, <1>2, <1>6

-----------------------------------------------------------------------------
(* Reading. *)

LEMMA IsSome == \A v : Is(v) # Fails /\ Is(v)[1] = v
<1> SUFFICES ASSUME NEW v PROVE Is(v) # Fails /\ Is(v)[1] = v
  OBVIOUS
<1>1. Len(<<v>>) = 1 /\ Len(<<>>) = 0
  OBVIOUS
<1> QED BY <1>1 DEF Is, Fails

LEMMA ByteIs == \A b \in Byte : b \in Nat /\ b < 256
BY DEF Byte

\* The bytes x come in y after the first off.
Within(y, off, x) ==
    /\ off + Len(x) <= Len(y)
    /\ \A i \in 1 .. Len(x) : y[off + i] = x[i]

\* The last byte of the varint at pos.
EndsAt(y, pos, e) ==
    /\ e \in pos .. (pos + MaxGroups - 1) /\ e <= Len(y)
    /\ y[e] < 128 /\ \A p \in pos .. e - 1 : y[p] >= 128

\* A varint that ends is read.
LEMMA VarintReads ==
  ASSUME NEW y \in Seq(Byte), NEW pos \in 1 .. Len(y) + 1, NEW e, EndsAt(y, pos, e)
  PROVE  VarintAt(y, pos) = Is([value |-> AsU64(Number(SubSeq(y, pos, e))), next |-> e + 1])
<1> DEFINE ends == {p \in DOMAIN y : p \in pos .. (pos + MaxGroups - 1) /\ y[p] < 128}
<1>1. DOMAIN y = 1 .. Len(y) /\ Len(y) \in Nat /\ MaxGroups \in Nat
      /\ \A p \in 1 .. Len(y) : y[p] \in Nat
  <2>1. \A p \in 1 .. Len(y) : y[p] \in Byte
    BY ElementOfSeq
  <2> QED BY <2>1, LenProperties, Widths, ByteIs
<1>2. e \in ends /\ ends \subseteq Int
  BY <1>1 DEF EndsAt
<1>3. \A p \in ends : e <= p
  <2> SUFFICES ASSUME NEW p \in ends, p < e PROVE FALSE
    BY <1>1, <1>2
  <2>1. p \in pos .. e - 1 /\ y[p] \in Nat
    BY <1>1, <1>2
  <2> QED BY <2>1 DEF EndsAt
<1>4. Min(ends) = e
  <2> HIDE DEF ends
  <2>1. Min(ends) \in ends /\ \A p \in ends : Min(ends) <= p
    BY <1>2, <1>3 DEF Min
  <2> DEFINE m == Min(ends)
  <2>2. m \in ends /\ m <= e /\ e <= m
    BY <1>2, <1>3, <2>1
  <2>3. m \in Int /\ e \in Int
    BY <1>2, <2>2
  <2> HIDE DEF m
  <2>4. m = e
    BY <2>2, <2>3
  <2> QED BY <2>4 DEF m
<1>5. VarintAt(y, pos) = IF ends = {} THEN Fails
                         ELSE Is([value |-> AsU64(Number(SubSeq(y, pos, Min(ends)))), next |-> Min(ends) + 1])
  BY DEF VarintAt
<1> HIDE DEF ends
<1> QED BY <1>2, <1>4, <1>5

\* What has been read was there.
LEMMA VarintEnds ==
  ASSUME NEW y \in Seq(Byte), NEW pos \in 1 .. Len(y) + 1, VarintAt(y, pos) # Fails
  PROVE  \E e \in pos .. Len(y) : EndsAt(y, pos, e)
<1> DEFINE ends == {p \in DOMAIN y : p \in pos .. (pos + MaxGroups - 1) /\ y[p] < 128}
<1>1. DOMAIN y = 1 .. Len(y) /\ Len(y) \in Nat /\ MaxGroups \in Nat
      /\ \A p \in 1 .. Len(y) : y[p] \in Nat
  <2>1. \A p \in 1 .. Len(y) : y[p] \in Byte
    BY ElementOfSeq
  <2> QED BY <2>1, LenProperties, Widths, ByteIs
<1>2. ends # {}
  BY DEF VarintAt
<1>3. PICK e \in ends : \A p \in ends : e <= p
  <2>1. ends \subseteq Nat
    BY <1>1
  <2> DEFINE Less == {ss \in Nat \X Nat : ss[1] < ss[2]}
  <2>2. IsWellFoundedOn(Less, Nat)
    BY NatLessThanWellFounded DEF OpToRel
  <2>3. PICK e \in ends : \A p \in ends : <<p, e>> \notin Less
    <3> HIDE DEF ends, Less
    <3> QED BY <1>2, <2>1, <2>2, WFMin
  <2>4. ASSUME NEW p \in ends PROVE e <= p
    <3>1. p \in Nat /\ e \in Nat
      BY <2>1
    <3>2. p < e => <<p, e>> \in Less
      BY <3>1
    <3> QED BY <2>3, <3>1, <3>2
  <2> QED BY <2>4
<1>4. e \in pos .. (pos + MaxGroups - 1) /\ e \in 1 .. Len(y) /\ y[e] < 128
  BY <1>1
<1>5. ASSUME NEW p \in pos .. e - 1 PROVE y[p] >= 128
  <2>1. p \notin ends
    <3>1. p < e
      BY <1>1, <1>4
    <3>2. p \in ends => e <= p
      BY <1>3
    <3> HIDE DEF ends
    <3> QED BY <1>1, <1>4, <3>1, <3>2
  <2>2. p \in pos .. (pos + MaxGroups - 1) /\ p \in 1 .. Len(y)
    BY <1>1, <1>4
  <2> QED BY <1>1, <2>1, <2>2
<1> QED BY <1>4, <1>5 DEF EndsAt

\* The number is one of the width and what follows is still of the bytes.
LEMMA VarintTyped ==
  ASSUME NEW y \in Seq(Byte), NEW pos \in 1 .. Len(y) + 1, VarintAt(y, pos) # Fails
  PROVE  \E v \in U64 : \E q \in pos + 1 .. Len(y) + 1 :
            VarintAt(y, pos) = Is([value |-> v, next |-> q])
<1>1. PICK e \in pos .. Len(y) : EndsAt(y, pos, e)
  BY VarintEnds
<1>2. VarintAt(y, pos) = Is([value |-> AsU64(Number(SubSeq(y, pos, e))), next |-> e + 1])
  BY <1>1, VarintReads
<1>3. SubSeq(y, pos, e) \in Seq(Byte)
  <2>1. \A i \in pos .. e : y[i] \in Byte
    BY ElementOfSeq, LenProperties
  <2> QED BY <2>1, LenProperties, SubSeqProperties
<1>4. Number(SubSeq(y, pos, e)) \in Nat
  <2> DEFINE s == SubSeq(y, pos, e)
  <2>1. s \in Seq(Byte) /\ 0 \in Byte
    BY <1>3 DEF Byte
  <2> HIDE DEF s
  <2>2. Number(s) \in Nat
    BY <2>1, NumberCons
  <2> QED BY <2>2 DEF s
<1>5. AsU64(Number(SubSeq(y, pos, e))) \in U64
  <2> DEFINE k == Number(SubSeq(y, pos, e))
  <2> HIDE DEF k
  <2>1. k \in Nat
    BY <1>4 DEF k
  <2>2. k % Word64 \in 0 .. Word64 - 1
    <3>1. Word64 \in Nat /\ Word64 > 0
      BY Widths
    <3> QED BY <2>1, <3>1
  <2>3. AsU64(k) \in U64
    BY <2>2 DEF AsU64, U64
  <2> QED BY <2>3 DEF k
<1>6. e + 1 \in pos + 1 .. Len(y) + 1
  BY LenProperties
<1> QED BY <1>2, <1>5, <1>6

\* A varint is read where it was put.
LEMMA VarintFound ==
  ASSUME NEW y \in Seq(Byte), NEW pos \in 1 .. Len(y) + 1, NEW n \in U64,
         Within(y, pos - 1, Varint[n])
  PROVE  VarintAt(y, pos) = Is([value |-> n, next |-> pos + Len(Varint[n])])
<1> DEFINE v == Varint[n]
           e == pos + Len(v) - 1
<1>1. v \in Seq(Byte) /\ Len(v) \in 1 .. MaxGroups
      /\ v[Len(v)] < 128 /\ (\A i \in 1 .. Len(v) - 1 : v[i] >= 128) /\ Number(v) = n
  BY VarintShape DEF Shape
<1>2. pos - 1 + Len(v) <= Len(y) /\ \A i \in 1 .. Len(v) : y[pos - 1 + i] = v[i]
  BY DEF Within
<1> HIDE DEF v
<1>3. Len(y) \in Nat /\ MaxGroups \in Nat /\ Len(v) \in Nat
  BY <1>1, LenProperties, Widths
<1>4. e \in pos .. (pos + MaxGroups - 1) /\ e <= Len(y)
  BY <1>1, <1>2, <1>3
<1>5. y[e] < 128
  <2>1. Len(v) \in 1 .. Len(v) /\ pos - 1 + Len(v) = e
    BY <1>1, <1>3
  <2> QED BY <1>1, <1>2, <2>1
<1>6. \A p \in pos .. e - 1 : y[p] >= 128
  <2> SUFFICES ASSUME NEW p \in pos .. e - 1 PROVE y[p] >= 128
    OBVIOUS
  <2>1. p - pos + 1 \in 1 .. Len(v) - 1 /\ pos - 1 + (p - pos + 1) = p
    BY <1>1, <1>3
  <2>2. y[pos - 1 + (p - pos + 1)] = v[p - pos + 1] /\ v[p - pos + 1] >= 128
    BY <1>1, <1>2, <2>1
  <2> QED BY <2>1, <2>2
<1>7. VarintAt(y, pos) = Is([value |-> AsU64(Number(SubSeq(y, pos, e))), next |-> e + 1])
  <2>1. EndsAt(y, pos, e)
    BY <1>4, <1>5, <1>6 DEF EndsAt
  <2> HIDE DEF e
  <2> QED BY <2>1, VarintReads
<1>8. SubSeq(y, pos, e) = v
  <2> DEFINE s == SubSeq(y, pos, e)
  <2>1. \A i \in pos .. e : y[i] \in Byte
    BY <1>3, <1>4, ElementOfSeq
  <2>2. s \in Seq(Byte) /\ Len(s) = Len(v) /\ \A i \in 1 .. Len(v) : s[i] = y[pos + i - 1]
    <3>1. pos \in Int /\ e \in Int /\ pos <= e /\ e - pos + 1 = Len(v)
      BY <1>3, <1>4
    <3> HIDE DEF e
    <3> QED BY <2>1, <3>1, SubSeqProperties
  <2> HIDE DEF s
  <2>3. \A i \in 1 .. Len(s) : s[i] = v[i]
    <3> SUFFICES ASSUME NEW i \in 1 .. Len(s) PROVE s[i] = v[i]
      OBVIOUS
    <3>1. pos + i - 1 = pos - 1 + i /\ i \in 1 .. Len(v)
      BY <1>3, <2>2
    <3> QED BY <1>2, <2>2, <3>1
  <2>4. s = v
    BY <1>1, <2>2, <2>3, SeqEqual
  <2> QED BY <2>4 DEF s
<1>9. AsU64(n) = n
  <2>1. n \in 0 .. Word64 - 1 /\ Word64 \in Nat
    BY Widths DEF U64
  <2> QED BY <2>1 DEF AsU64
<1>10. e + 1 = pos + Len(v)
  BY <1>3
<1> QED BY <1>1, <1>7, <1>8, <1>9, <1>10 DEF v

\* What is read at pos of x is read after the first off bytes of y, as x is.
Moved(r, off) == Is([value |-> r[1].value, next |-> off + r[1].next])

LEMMA VarintLocal ==
  ASSUME NEW x \in Seq(Byte), NEW y \in Seq(Byte), NEW off \in Nat, Within(y, off, x),
         NEW pos \in 1 .. Len(x) + 1, VarintAt(x, pos) # Fails
  PROVE  VarintAt(y, off + pos) = Moved(VarintAt(x, pos), off)
<1>1. PICK e \in pos .. Len(x) : EndsAt(x, pos, e)
  BY VarintEnds
<1>2. VarintAt(x, pos) = Is([value |-> AsU64(Number(SubSeq(x, pos, e))), next |-> e + 1])
  BY <1>1, VarintReads
<1>3. Len(x) \in Nat /\ Len(y) \in Nat /\ MaxGroups \in Nat /\ off + Len(x) <= Len(y)
      /\ (\A i \in 1 .. Len(x) : y[off + i] = x[i])
  BY LenProperties, Widths DEF Within
<1>4. off + e \in (off + pos) .. (off + pos + MaxGroups - 1) /\ off + e <= Len(y)
      /\ off + pos \in 1 .. Len(y) + 1 /\ e \in 1 .. Len(x)
  BY <1>1, <1>3 DEF EndsAt
<1>5. y[off + e] < 128
  BY <1>1, <1>3, <1>4 DEF EndsAt
<1>6. ASSUME NEW p \in (off + pos) .. (off + e) - 1 PROVE y[p] >= 128
  <2>1. p - off \in pos .. e - 1 /\ p - off \in 1 .. Len(x) /\ off + (p - off) = p
    BY <1>3, <1>4
  <2>2. y[off + (p - off)] = x[p - off] /\ x[p - off] >= 128
    BY <1>1, <1>3, <2>1 DEF EndsAt
  <2> QED BY <2>1, <2>2
<1>7. VarintAt(y, off + pos)
        = Is([value |-> AsU64(Number(SubSeq(y, off + pos, off + e))), next |-> off + e + 1])
  <2>1. EndsAt(y, off + pos, off + e)
    BY <1>4, <1>5, <1>6 DEF EndsAt
  <2> QED BY <1>4, <2>1, VarintReads
<1>8. SubSeq(y, off + pos, off + e) = SubSeq(x, pos, e)
  <2> DEFINE s == SubSeq(y, off + pos, off + e)
             t == SubSeq(x, pos, e)
  <2>1. s \in Seq(Byte) /\ Len(s) = e - pos + 1
        /\ (\A i \in 1 .. e - pos + 1 : s[i] = y[off + pos + i - 1])
    <3>1. \A i \in off + pos .. off + e : y[i] \in Byte
      BY <1>3, <1>4, ElementOfSeq
    <3>2. off + pos \in Int /\ off + e \in Int /\ off + pos <= off + e
          /\ (off + e) - (off + pos) + 1 = e - pos + 1
      BY <1>4
    <3> QED BY <3>1, <3>2, SubSeqProperties, SMTT(20)
  <2>2. t \in Seq(Byte) /\ Len(t) = e - pos + 1
        /\ (\A i \in 1 .. e - pos + 1 : t[i] = x[pos + i - 1])
    <3>1. \A i \in pos .. e : x[i] \in Byte
      BY <1>3, <1>4, ElementOfSeq
    <3>2. pos \in Int /\ e \in Int /\ pos <= e
      BY <1>4
    <3> QED BY <3>1, <3>2, SubSeqProperties
  <2> HIDE DEF s, t
  <2>3. ASSUME NEW i \in 1 .. Len(s) PROVE s[i] = t[i]
    <3>1. i \in 1 .. e - pos + 1
      BY <2>1
    <3>2. off + pos + i - 1 = off + (pos + i - 1) /\ pos + i - 1 \in 1 .. Len(x)
      <4> DEFINE m == Len(x)
      <4>1. m \in Nat /\ pos \in 1 .. m + 1 /\ e \in 1 .. m /\ i \in Nat /\ i >= 1 /\ i <= e - pos + 1
        BY <1>3, <1>4, <3>1
      <4> HIDE DEF m
      <4>2. pos + i - 1 \in 1 .. m
        BY <4>1
      <4>3. off + pos + i - 1 = off + (pos + i - 1)
        BY <4>1
      <4> QED BY <4>2, <4>3 DEF m
    <3> QED BY <1>3, <2>1, <2>2, <3>1, <3>2
  <2>4. s = t
    BY <2>1, <2>2, <2>3, SeqEqual
  <2> QED BY <2>4 DEF s, t
<1>9. off + e + 1 = off + (e + 1)
  BY <1>4
<1> DEFINE v == AsU64(Number(SubSeq(x, pos, e)))
<1>10. VarintAt(x, pos) = Is([value |-> v, next |-> e + 1])
       /\ VarintAt(y, off + pos) = Is([value |-> v, next |-> off + (e + 1)])
  BY <1>2, <1>7, <1>8, <1>9
<1> HIDE DEF v
<1> QED BY <1>10, IsSome DEF Moved

\* As many bytes as are asked for.
LEMMA BytesRead ==
  ASSUME NEW x \in Seq(Byte), NEW pos \in 1 .. Len(x) + 1, NEW n \in Nat,
         pos + n <= Len(x) + 1
  PROVE  /\ BytesAt(x, pos, n) = Is([value |-> SubSeq(x, pos, pos + n - 1), next |-> pos + n])
         /\ SubSeq(x, pos, pos + n - 1) \in Seq(Byte)
         /\ Len(SubSeq(x, pos, pos + n - 1)) = n
         /\ \A i \in 1 .. n : SubSeq(x, pos, pos + n - 1)[i] = x[pos + i - 1]
<1> DEFINE e == pos + n - 1
<1>1. Len(x) \in Nat /\ e \in Int /\ e <= Len(x) /\ pos \in Int /\ e - pos + 1 = n
  BY LenProperties
<1>2. BytesAt(x, pos, n) = Is([value |-> SubSeq(x, pos, e), next |-> pos + n])
  BY <1>1 DEF BytesAt
<1>3. \A i \in pos .. e : x[i] \in Byte
  BY <1>1, ElementOfSeq
<1> HIDE DEF e
<1>4. /\ SubSeq(x, pos, e) \in Seq(Byte)
      /\ Len(SubSeq(x, pos, e)) = IF pos <= e THEN e - pos + 1 ELSE 0
      /\ \A i \in 1 .. e - pos + 1 : SubSeq(x, pos, e)[i] = x[pos + i - 1]
  BY <1>1, <1>3, SubSeqProperties
<1>5. Len(SubSeq(x, pos, e)) = n
  BY <1>1, <1>4
<1> QED BY <1>1, <1>2, <1>4, <1>5 DEF e

LEMMA BytesAreThere ==
  ASSUME NEW x \in Seq(Byte), NEW pos \in 1 .. Len(x) + 1, NEW n \in Nat,
         BytesAt(x, pos, n) # Fails
  PROVE  pos + n <= Len(x) + 1
<1>1. ~(pos + n - 1 > Len(x))
  BY DEF BytesAt
<1> QED BY <1>1, LenProperties

LEMMA BytesLocal ==
  ASSUME NEW x \in Seq(Byte), NEW y \in Seq(Byte), NEW off \in Nat, Within(y, off, x),
         NEW pos \in 1 .. Len(x) + 1, NEW n \in Nat, BytesAt(x, pos, n) # Fails
  PROVE  BytesAt(y, off + pos, n) = Moved(BytesAt(x, pos, n), off)
<1> DEFINE s == SubSeq(x, pos, pos + n - 1)
           t == SubSeq(y, off + pos, off + pos + n - 1)
<1>1. Len(x) \in Nat /\ Len(y) \in Nat /\ pos + n <= Len(x) + 1 /\ off + Len(x) <= Len(y)
      /\ (\A i \in 1 .. Len(x) : y[off + i] = x[i])
  BY BytesAreThere, LenProperties DEF Within
<1>2. BytesAt(x, pos, n) = Is([value |-> s, next |-> pos + n]) /\ s \in Seq(Byte) /\ Len(s) = n
      /\ (\A i \in 1 .. n : s[i] = x[pos + i - 1])
  BY <1>1, BytesRead
<1>3. off + pos \in 1 .. Len(y) + 1 /\ off + pos + n <= Len(y) + 1
  BY <1>1
<1>4. BytesAt(y, off + pos, n) = Is([value |-> t, next |-> off + pos + n]) /\ t \in Seq(Byte) /\ Len(t) = n
      /\ (\A i \in 1 .. n : t[i] = y[off + pos + i - 1])
  BY <1>3, BytesRead
<1> HIDE DEF s, t
<1>5. ASSUME NEW i \in 1 .. Len(s) PROVE s[i] = t[i]
  <2>1. i \in 1 .. n
    BY <1>2
  <2>2. off + pos + i - 1 = off + (pos + i - 1) /\ pos + i - 1 \in 1 .. Len(x)
    BY <1>1, <2>1
  <2> QED BY <1>1, <1>2, <1>4, <2>1, <2>2
<1>6. s = t
  BY <1>2, <1>4, <1>5, SeqEqual
<1>7. off + pos + n = off + (pos + n)
  BY <1>1
<1> QED BY <1>2, <1>4, <1>6, <1>7, IsSome DEF Moved

\* What has been read at pos lies in the bytes.
LEMMA DelimitedIs ==
  ASSUME NEW x \in Seq(Byte), NEW pos \in 1 .. Len(x) + 1, DelimitedAt(x, pos) # Fails
  PROVE  \E n \in U64 : \E q \in pos + 1 .. Len(x) + 1 :
           /\ VarintAt(x, pos) = Is([value |-> n, next |-> q])
           /\ DelimitedAt(x, pos) = BytesAt(x, q, n)
<1>1. VarintAt(x, pos) # Fails
  BY DEF DelimitedAt
<1>2. PICK n \in U64, q \in pos + 1 .. Len(x) + 1 : VarintAt(x, pos) = Is([value |-> n, next |-> q])
  BY <1>1, VarintTyped
<1>3. DelimitedAt(x, pos) = BytesAt(x, q, n)
  BY <1>1, <1>2, IsSome DEF DelimitedAt
<1> QED BY <1>2, <1>3

LEMMA DelimitedLocal ==
  ASSUME NEW x \in Seq(Byte), NEW y \in Seq(Byte), NEW off \in Nat, Within(y, off, x),
         NEW pos \in 1 .. Len(x) + 1, DelimitedAt(x, pos) # Fails
  PROVE  DelimitedAt(y, off + pos) = Moved(DelimitedAt(x, pos), off)
<1>1. PICK n \in U64, q \in pos + 1 .. Len(x) + 1 :
           /\ VarintAt(x, pos) = Is([value |-> n, next |-> q])
           /\ DelimitedAt(x, pos) = BytesAt(x, q, n)
  BY DelimitedIs
<1>2. VarintAt(y, off + pos) = Is([value |-> n, next |-> off + q])
  <2> DEFINE v == [value |-> n, next |-> q]
  <2>1. v.value = n /\ v.next = q
    OBVIOUS
  <2> HIDE DEF v
  <2>2. VarintAt(x, pos) = Is(v)
    BY <1>1 DEF v
  <2>3. VarintAt(x, pos) # Fails /\ VarintAt(x, pos)[1] = v
    BY <2>2, IsSome
  <2>4. VarintAt(y, off + pos) = Moved(VarintAt(x, pos), off)
    BY <2>3, VarintLocal
  <2> QED BY <2>1, <2>3, <2>4 DEF Moved
<1>3. DelimitedAt(y, off + pos) = BytesAt(y, off + q, n)
  BY <1>2, IsSome DEF DelimitedAt
<1>4. n \in Nat /\ q \in 1 .. Len(x) + 1
  BY Widths, LenProperties
<1> QED BY <1>1, <1>3, <1>4, BytesLocal

LEMMA BytesNext ==
  ASSUME NEW x \in Seq(Byte), NEW pos \in 1 .. Len(x) + 1, NEW n \in Nat,
         BytesAt(x, pos, n) # Fails
  PROVE  \E v : BytesAt(x, pos, n) = Is([value |-> v, next |-> pos + n])
                /\ pos + n \in pos .. Len(x) + 1
<1>1. pos + n <= Len(x) + 1
  BY BytesAreThere
<1>2. pos + n \in pos .. Len(x) + 1
  BY <1>1, LenProperties
<1> QED BY <1>1, <1>2, BytesRead

\* Whatever the wire type, what is read is where it was and moves with it.
LEMMA ContentLocal ==
  ASSUME NEW x \in Seq(Byte), NEW pos \in 1 .. Len(x) + 1, NEW wire, ContentAt(x, pos, wire) # Fails
  PROVE  /\ \E v : \E q \in pos .. Len(x) + 1 : ContentAt(x, pos, wire) = Is([value |-> v, next |-> q])
         /\ \A y \in Seq(Byte), off \in Nat : Within(y, off, x) =>
               ContentAt(y, off + pos, wire) = Moved(ContentAt(x, pos, wire), off)
<1>1. CASE wire = 0
  <2>1. \A y, p : ContentAt(y, p, wire) = VarintAt(y, p)
    BY <1>1 DEF ContentAt
  <2>2. PICK v \in U64, q \in pos + 1 .. Len(x) + 1 : VarintAt(x, pos) = Is([value |-> v, next |-> q])
    BY <2>1, VarintTyped
  <2>3. q \in pos .. Len(x) + 1
    OBVIOUS
  <2>4. \E v1 : \E q1 \in pos .. Len(x) + 1 : ContentAt(x, pos, wire) = Is([value |-> v1, next |-> q1])
    BY <2>1, <2>2, <2>3
  <2>5. ASSUME NEW y \in Seq(Byte), NEW off \in Nat, Within(y, off, x)
        PROVE  ContentAt(y, off + pos, wire) = Moved(ContentAt(x, pos, wire), off)
    <3>1. VarintAt(x, pos) # Fails
      BY <2>1
    <3>2. VarintAt(y, off + pos) = Moved(VarintAt(x, pos), off)
      BY <2>5, <3>1, VarintLocal
    <3> QED BY <2>1, <3>2
  <2> QED BY <2>4, <2>5
<1>2. CASE wire = 1
  <2>1. \A y, p : ContentAt(y, p, wire) = BytesAt(y, p, 8)
    BY <1>2 DEF ContentAt
  <2>2. BytesAt(x, pos, 8) # Fails /\ 8 \in Nat
    BY <2>1
  <2>3. PICK v : BytesAt(x, pos, 8) = Is([value |-> v, next |-> pos + 8]) /\ pos + 8 \in pos .. Len(x) + 1
    BY <2>2, BytesNext
  <2>4. \E v1 : \E q1 \in pos .. Len(x) + 1 : ContentAt(x, pos, wire) = Is([value |-> v1, next |-> q1])
    BY <2>1, <2>3
  <2>5. ASSUME NEW y \in Seq(Byte), NEW off \in Nat, Within(y, off, x)
        PROVE  ContentAt(y, off + pos, wire) = Moved(ContentAt(x, pos, wire), off)
    <3>1. BytesAt(y, off + pos, 8) = Moved(BytesAt(x, pos, 8), off)
      BY <2>2, <2>5, BytesLocal
    <3> QED BY <2>1, <3>1
  <2> QED BY <2>4, <2>5
<1>3. CASE wire = 2
  <2>1. \A y, p : ContentAt(y, p, wire) = DelimitedAt(y, p)
    BY <1>3 DEF ContentAt
  <2>2. PICK n \in U64, q \in pos + 1 .. Len(x) + 1 : DelimitedAt(x, pos) = BytesAt(x, q, n)
    BY <2>1, DelimitedIs
  <2>3. n \in Nat /\ q \in 1 .. Len(x) + 1
    BY Widths, LenProperties
  <2>4. PICK v : BytesAt(x, q, n) = Is([value |-> v, next |-> q + n]) /\ q + n \in q .. Len(x) + 1
    BY <2>1, <2>2, <2>3, BytesNext
  <2>5. q + n \in pos .. Len(x) + 1
    BY <2>4, LenProperties
  <2>6. \E v1 : \E q1 \in pos .. Len(x) + 1 : ContentAt(x, pos, wire) = Is([value |-> v1, next |-> q1])
    BY <2>1, <2>2, <2>4, <2>5
  <2>7. ASSUME NEW y \in Seq(Byte), NEW off \in Nat, Within(y, off, x)
        PROVE  ContentAt(y, off + pos, wire) = Moved(ContentAt(x, pos, wire), off)
    <3>1. DelimitedAt(x, pos) # Fails
      BY <2>1
    <3>2. DelimitedAt(y, off + pos) = Moved(DelimitedAt(x, pos), off)
      BY <2>7, <3>1, DelimitedLocal
    <3> QED BY <2>1, <3>2
  <2> QED BY <2>6, <2>7
<1>4. CASE wire = 5
  <2>1. \A y, p : ContentAt(y, p, wire) = BytesAt(y, p, 4)
    BY <1>4 DEF ContentAt
  <2>2. BytesAt(x, pos, 4) # Fails /\ 4 \in Nat
    BY <2>1
  <2>3. PICK v : BytesAt(x, pos, 4) = Is([value |-> v, next |-> pos + 4]) /\ pos + 4 \in pos .. Len(x) + 1
    BY <2>2, BytesNext
  <2>4. \E v1 : \E q1 \in pos .. Len(x) + 1 : ContentAt(x, pos, wire) = Is([value |-> v1, next |-> q1])
    BY <2>1, <2>3
  <2>5. ASSUME NEW y \in Seq(Byte), NEW off \in Nat, Within(y, off, x)
        PROVE  ContentAt(y, off + pos, wire) = Moved(ContentAt(x, pos, wire), off)
    <3>1. BytesAt(y, off + pos, 4) = Moved(BytesAt(x, pos, 4), off)
      BY <2>2, <2>5, BytesLocal
    <3> QED BY <2>1, <3>1
  <2> QED BY <2>4, <2>5
<1>5. CASE wire \notin {0, 1, 2, 5}
  BY <1>5 DEF ContentAt
<1> QED BY <1>1, <1>2, <1>3, <1>4, <1>5

\* A field is read after its key.
FieldOf(key, content) ==
    Is([value |-> [field |-> AsU32(key \div 8), wire |-> key % 8, value |-> content[1].value],
        next  |-> content[1].next])

LEMMA FieldIs ==
  ASSUME NEW y, NEW pos, NEW k, NEW q, VarintAt(y, pos) = Is([value |-> k, next |-> q]),
         ContentAt(y, q, k % 8) # Fails
  PROVE  FieldAt(y, pos) = FieldOf(k, ContentAt(y, q, k % 8))
<1> DEFINE c == ContentAt(y, q, k % 8)
<1>1. VarintAt(y, pos) # Fails /\ VarintAt(y, pos)[1].value = k /\ VarintAt(y, pos)[1].next = q
  BY IsSome
<1>2. c # Fails
  OBVIOUS
<1> QED BY <1>1, <1>2 DEF FieldAt, FieldOf

LEMMA FieldParts ==
  ASSUME NEW x \in Seq(Byte), NEW pos \in 1 .. Len(x) + 1, FieldAt(x, pos) # Fails
  PROVE  \E k \in U64 : \E q \in pos + 1 .. Len(x) + 1 :
            /\ VarintAt(x, pos) = Is([value |-> k, next |-> q])
            /\ ContentAt(x, q, k % 8) # Fails
<1>1. VarintAt(x, pos) # Fails
  BY DEF FieldAt
<1>2. PICK k \in U64, q \in pos + 1 .. Len(x) + 1 : VarintAt(x, pos) = Is([value |-> k, next |-> q])
  BY <1>1, VarintTyped
<1>3. ContentAt(x, q, k % 8) # Fails
  <2>1. VarintAt(x, pos)[1].value = k /\ VarintAt(x, pos)[1].next = q
    BY <1>2, IsSome
  <2> QED BY <1>1, <2>1 DEF FieldAt
<1> QED BY <1>2, <1>3

LEMMA FieldLocal ==
  ASSUME NEW x \in Seq(Byte), NEW pos \in 1 .. Len(x) + 1, FieldAt(x, pos) # Fails
  PROVE  /\ \E v : \E q \in pos + 1 .. Len(x) + 1 : FieldAt(x, pos) = Is([value |-> v, next |-> q])
         /\ \A y \in Seq(Byte), off \in Nat : Within(y, off, x) =>
               FieldAt(y, off + pos) = Moved(FieldAt(x, pos), off)
<1>1. PICK k \in U64, q \in pos + 1 .. Len(x) + 1 :
            VarintAt(x, pos) = Is([value |-> k, next |-> q]) /\ ContentAt(x, q, k % 8) # Fails
  BY FieldParts
<1>2. q \in 1 .. Len(x) + 1
  BY LenProperties
<1>3. PICK v : \E p \in q .. Len(x) + 1 : ContentAt(x, q, k % 8) = Is([value |-> v, next |-> p])
  <2> DEFINE w == k % 8
  <2>1. ContentAt(x, q, w) # Fails
    BY <1>1
  <2> HIDE DEF w
  <2>2. \E v1 : \E p1 \in q .. Len(x) + 1 : ContentAt(x, q, w) = Is([value |-> v1, next |-> p1])
    BY <1>2, <2>1, ContentLocal, ZenonT(40)
  <2> QED BY <2>2 DEF w
<1>7. PICK p \in q .. Len(x) + 1 : ContentAt(x, q, k % 8) = Is([value |-> v, next |-> p])
  BY <1>3
<1> DEFINE f == [field |-> AsU32(k \div 8), wire |-> k % 8, value |-> v]
<1>4. FieldAt(x, pos) = Is([value |-> f, next |-> p])
  BY <1>1, <1>7, FieldIs, IsSome DEF FieldOf
<1>5. p \in pos + 1 .. Len(x) + 1
  BY LenProperties
<1>6. ASSUME NEW y \in Seq(Byte), NEW off \in Nat, Within(y, off, x)
      PROVE  FieldAt(y, off + pos) = Moved(FieldAt(x, pos), off)
  <2>1. VarintAt(y, off + pos) = Is([value |-> k, next |-> off + q])
    <3>1. VarintAt(x, pos) = Is([value |-> k, next |-> q]) /\ VarintAt(x, pos) # Fails
      BY <1>1, IsSome
    <3>2. VarintAt(y, off + pos) = Moved(VarintAt(x, pos), off)
      BY <1>6, <3>1, VarintLocal
    <3> QED BY <3>1, <3>2, IsSome DEF Moved
  <2>2. ContentAt(y, off + q, k % 8) = Is([value |-> v, next |-> off + p])
    BY <1>1, <1>2, <1>6, <1>7, ContentLocal, IsSome, SMTT(20) DEF Moved
  <2>3. FieldAt(y, off + pos) = Is([value |-> f, next |-> off + p])
    <3> DEFINE c == ContentAt(y, off + q, k % 8)
               w == [value |-> v, next |-> off + p]
    <3>1. w.value = v /\ w.next = off + p
      OBVIOUS
    <3> HIDE DEF w
    <3>2. c # Fails /\ c[1] = w
      BY <2>2, IsSome DEF w
    <3>3. FieldAt(y, off + pos) = FieldOf(k, c)
      BY <2>1, <3>2, FieldIs
    <3> HIDE DEF c
    <3> QED BY <3>1, <3>2, <3>3 DEF FieldOf
  <2> HIDE DEF f
  <2> QED BY <1>4, <2>3, IsSome DEF Moved
<1> HIDE DEF f
<1> QED BY <1>4, <1>5, <1>6

-----------------------------------------------------------------------------
(* The fields of a message. *)

\* The values of the fields that can be read, and sequences of them.
FieldValues(x) == {FieldAt(x, p)[1].value : p \in 1 .. Len(x)}
Readings(x)    == {Fails} \cup {Is(l) : l \in Seq(FieldValues(x))}

\* What is read from pos on when g is what is read from later positions on.
ReadFrom(x, g, pos) ==
    IF pos > Len(x) THEN Is(<<>>)
    ELSE IF FieldAt(x, pos) = Fails THEN Fails
    ELSE IF g[FieldAt(x, pos)[1].next] = Fails THEN Fails
    ELSE Is(<<FieldAt(x, pos)[1].value>> \o g[FieldAt(x, pos)[1].next][1])

LEMMA FieldAdvances ==
  ASSUME NEW x \in Seq(Byte), NEW pos \in 1 .. Len(x), FieldAt(x, pos) # Fails
  PROVE  /\ FieldAt(x, pos)[1].next \in pos + 1 .. Len(x) + 1
         /\ FieldAt(x, pos)[1].value \in FieldValues(x)
<1>1. pos \in 1 .. Len(x) + 1
  BY LenProperties
<1>2. PICK v : \E q \in pos + 1 .. Len(x) + 1 : FieldAt(x, pos) = Is([value |-> v, next |-> q])
  BY <1>1, FieldLocal
<1> QED BY <1>2, IsSome DEF FieldValues

\* One more field before a reading is a reading.
LEMMA ReadingTyped ==
  ASSUME NEW x \in Seq(Byte), NEW g \in [1 .. Len(x) + 1 -> Readings(x)], NEW pos \in 1 .. Len(x) + 1
  PROVE  ReadFrom(x, g, pos) \in Readings(x)
<1>1. CASE pos > Len(x)
  <2>1. <<>> \in Seq(FieldValues(x))
    BY EmptySeq
  <2> QED BY <1>1, <2>1 DEF ReadFrom, Readings
<1>2. CASE ~(pos > Len(x)) /\ FieldAt(x, pos) = Fails
  BY <1>2 DEF ReadFrom, Readings
<1>3. CASE ~(pos > Len(x)) /\ FieldAt(x, pos) # Fails
  <2> DEFINE v == FieldAt(x, pos)[1].value
             q == FieldAt(x, pos)[1].next
  <2>1. q \in 1 .. Len(x) + 1 /\ v \in FieldValues(x)
    <3>1. pos \in 1 .. Len(x) /\ Len(x) \in Nat
      BY <1>3, LenProperties
    <3>2. q \in pos + 1 .. Len(x) + 1 /\ v \in FieldValues(x)
      BY <1>3, <3>1, FieldAdvances
    <3> QED BY <3>1, <3>2
  <2>2. ReadFrom(x, g, pos) = IF g[q] = Fails THEN Fails ELSE Is(<<v>> \o g[q][1])
    BY <1>3 DEF ReadFrom
  <2> HIDE DEF v, q
  <2>3. g[q] \in Readings(x)
    BY <2>1
  <2>4. CASE g[q] = Fails
    BY <2>2, <2>4 DEF Readings
  <2>5. CASE g[q] # Fails
    <3>1. PICK l \in Seq(FieldValues(x)) : g[q] = Is(l)
      BY <2>3, <2>5 DEF Readings
    <3>2. <<v>> \in Seq(FieldValues(x))
      BY <2>1
    <3>3. <<v>> \o l \in Seq(FieldValues(x))
      BY <3>2, ConcatProperties
    <3> QED BY <2>2, <2>5, <3>1, <3>3, IsSome DEF Readings
  <2> QED BY <2>4, <2>5
<1> QED BY <1>1, <1>2, <1>3

LEMMA FieldsFrom ==
  ASSUME NEW x \in Seq(Byte)
  PROVE  \E g \in [1 .. Len(x) + 1 -> Readings(x)] :
            /\ \A pos \in 1 .. Len(x) + 1 : g[pos] = ReadFrom(x, g, pos)
            /\ Fields(x) = g[1]
<1> DEFINE n == Len(x) + 1
           W == [1 .. n -> Readings(x)]
           a == [pos \in 1 .. n |-> Fails]
           step == [i \in 1 .. n |->
                      [g \in W |-> [g EXCEPT ![n + 1 - i] = ReadFrom(x, g, n + 1 - i)]]]
           F(g) == [pos \in 1 .. Len(x) + 1 |-> ReadFrom(x, g, pos)]
<1>1. n \in Nat /\ n = Len(x) + 1 /\ n >= 1
  BY LenProperties
<1>2. a \in W
  BY DEF Readings
<1>3. step \in Rounds(n, W)
  <2> SUFFICES ASSUME NEW i \in 1 .. n, NEW g \in W
               PROVE  [g EXCEPT ![n + 1 - i] = ReadFrom(x, g, n + 1 - i)] \in W
    BY DEF Rounds
  <2> DEFINE p == n + 1 - i
  <2>1. p \in 1 .. n
    BY <1>1
  <2> HIDE DEF p
  <2>2. ReadFrom(x, g, p) \in Readings(x)
    BY <2>1, ReadingTyped
  <2>3. [g EXCEPT ![p] = ReadFrom(x, g, p)] \in W
    BY <2>1, <2>2
  <2> QED BY <2>3 DEF p
<1>4. PICK f : IsLoop(f, n, W, a, step)
  <2> HIDE DEF W, a, step, n
  <2> QED BY <1>1, <1>2, <1>3, LoopExists
<1>5. f \in [0 .. n -> W] /\ \A i \in 1 .. n :
        f[i] = [f[i - 1] EXCEPT ![n + 1 - i] = ReadFrom(x, f[i - 1], n + 1 - i)]
  <2>1. f \in [0 .. n -> W] /\ \A i \in 1 .. n : f[i] = step[i][f[i - 1]] /\ f[i - 1] \in W
    <3> HIDE DEF step, W, n
    <3>1. \A i \in 1 .. n : i - 1 \in 0 .. n
      BY <1>1
    <3>2. f \in [0 .. n -> W] /\ \A i \in 1 .. n : f[i] = step[i][f[i - 1]]
      BY <1>4 DEF IsLoop
    <3> QED BY <3>1, <3>2
  <2> HIDE DEF W, n
  <2> QED BY <2>1
\* After k rounds the last k results are what they are to be.
<1> DEFINE D == {k \in 0 .. n : \A p \in n + 1 - k .. n : f[k][p] = ReadFrom(x, f[k], p)}
<1>6. 0 \in D
  <2>1. n + 1 - 0 > n
    BY <1>1
  <2> HIDE DEF n
  <2> QED BY <1>1, <2>1
<1>7. ASSUME NEW i \in 1 .. n, i - 1 \in D PROVE i \in D
  <2> DEFINE old == f[i - 1]
             new == f[i]
             p == n + 1 - i
  <2>1. old \in W /\ new \in W
    <3> HIDE DEF W, n
    <3> QED BY <1>1, <1>5
  <2>2. new = [old EXCEPT ![p] = ReadFrom(x, old, p)]
    BY <1>5
  <2>3. p \in 1 .. n /\ n + 1 - (i - 1) = p + 1
    BY <1>1
  <2>4. \A m \in p + 1 .. n : old[m] = ReadFrom(x, old, m)
    <3>1. i - 1 \in D
      BY <1>7
    <3> QED BY <2>3, <3>1
  <2> HIDE DEF old, new, p
  <2>5. \A m \in p + 1 .. n : new[m] = old[m]
    <3> HIDE DEF n
    <3>1. \A m \in p + 1 .. n : m \in 1 .. n /\ m # p
      BY <1>1, <2>3
    <3> QED BY <2>1, <2>2, <3>1
  <2>6. new[p] = ReadFrom(x, old, p)
    <3> HIDE DEF n
    <3> QED BY <2>1, <2>2, <2>3
  <2>7. ASSUME NEW m \in p .. n PROVE ReadFrom(x, old, m) = ReadFrom(x, new, m)
    <3>1. CASE m > Len(x) \/ FieldAt(x, m) = Fails
      BY <3>1 DEF ReadFrom
    <3>2. CASE ~(m > Len(x)) /\ FieldAt(x, m) # Fails
      <4> DEFINE q == FieldAt(x, m)[1].next
      <4>1. m \in 1 .. Len(x)
        BY <1>1, <2>3, <3>2
      <4>2. q \in m + 1 .. n
        BY <1>1, <3>2, <4>1, FieldAdvances
      <4> HIDE DEF q
      <4>3. q \in p + 1 .. n
        BY <1>1, <2>3, <4>1, <4>2
      <4>4. new[q] = old[q]
        BY <2>5, <4>3
      <4> QED BY <3>2, <4>4 DEF ReadFrom, q
    <3> QED BY <3>1, <3>2
  <2>8. ASSUME NEW m \in p .. n PROVE new[m] = ReadFrom(x, new, m)
    <3> HIDE DEF n
    <3>1. CASE m = p
      BY <2>6, <2>7, <3>1
    <3>2. CASE m # p
      <4>1. m \in p + 1 .. n
        BY <1>1, <2>3, <3>2
      <4> QED BY <2>4, <2>5, <2>7, <4>1
    <3> QED BY <3>1, <3>2
  <2> QED BY <1>1, <2>8 DEF new, p
<1>8. n \in D
  <2>1. \A k \in 0 .. n : k \in D
    <3> HIDE DEF D, n
    <3> QED BY <1>1, <1>6, <1>7, UpTo
  <2> QED BY <1>1, <2>1
<1> DEFINE g == f[n]
<1>9. g \in W /\ \A p \in 1 .. n : g[p] = ReadFrom(x, g, p)
  <2>1. g \in W
    <3> HIDE DEF W, n
    <3> QED BY <1>1, <1>5
  <2>2. n + 1 - n = 1
    BY <1>1
  <2> QED BY <1>8, <2>1, <2>2
<1> HIDE DEF g
<1>10. g = F(g)
  <2>1. g = [pos \in 1 .. Len(x) + 1 |-> g[pos]]
    BY <1>9
  <2> QED BY <1>9, <2>1
<1> DEFINE h == CHOOSE h : h = F(h)
<1>11. h = F(h)
  BY <1>10
<1>12. Fields(x) = h[1]
  BY DEF Fields, ReadFrom
<1> HIDE DEF h
<1>13. \A p \in 1 .. n : h[p] = ReadFrom(x, h, p)
  BY <1>11
\* The same results, from the last.
<1> DEFINE E == {k \in 0 .. n : \A p \in n + 1 - k .. n : h[p] = g[p]}
<1>14. 0 \in E
  <2>1. n + 1 - 0 > n
    BY <1>1
  <2> HIDE DEF n
  <2> QED BY <1>1, <2>1
<1>15. ASSUME NEW i \in 1 .. n, i - 1 \in E PROVE i \in E
  <2> DEFINE p == n + 1 - i
  <2>1. p \in 1 .. n /\ n + 1 - (i - 1) = p + 1
    BY <1>1
  <2>2. \A m \in p + 1 .. n : h[m] = g[m]
    <3>1. i - 1 \in E
      BY <1>15
    <3> QED BY <2>1, <3>1
  <2> HIDE DEF p
  <2>3. ReadFrom(x, h, p) = ReadFrom(x, g, p)
    <3>1. CASE p > Len(x) \/ FieldAt(x, p) = Fails
      BY <3>1 DEF ReadFrom
    <3>2. CASE ~(p > Len(x)) /\ FieldAt(x, p) # Fails
      <4> DEFINE q == FieldAt(x, p)[1].next
      <4>1. p \in 1 .. Len(x)
        BY <1>1, <2>1, <3>2
      <4>2. q \in p + 1 .. n
        BY <1>1, <3>2, <4>1, FieldAdvances
      <4> HIDE DEF q
      <4>3. h[q] = g[q]
        BY <2>2, <4>2
      <4> QED BY <3>2, <4>3 DEF ReadFrom, q
    <3> QED BY <3>1, <3>2
  <2>4. h[p] = g[p]
    BY <1>9, <1>13, <2>1, <2>3
  <2>5. \A m \in p .. n : h[m] = g[m]
    <3> SUFFICES ASSUME NEW m \in p .. n, m # p PROVE h[m] = g[m]
      BY <2>4
    <3>1. m \in p + 1 .. n
      BY <1>1, <2>1
    <3> QED BY <2>2, <3>1
  <2> QED BY <1>1, <2>5 DEF p
<1>16. n \in E
  <2>1. \A k \in 0 .. n : k \in E
    <3> HIDE DEF E, n
    <3> QED BY <1>1, <1>14, <1>15, UpTo
  <2> QED BY <1>1, <2>1
<1>17. h[1] = g[1]
  <2>1. n + 1 - n = 1 /\ 1 \in 1 .. n
    BY <1>1
  <2> QED BY <1>16, <2>1
<1> QED BY <1>9, <1>12, <1>17

\* The messages that can be read are read one after the other.
LEMMA FieldsConcat ==
  ASSUME NEW x \in Seq(Byte), NEW y \in Seq(Byte), Fields(x) # Fails, Fields(y) # Fails
  PROVE  Fields(x \o y) = Is(Fields(x)[1] \o Fields(y)[1])
<1> DEFINE z == x \o y
           m == Len(x)
           n == Len(y)
<1>1. z \in Seq(Byte) /\ Len(z) = m + n /\ m \in Nat /\ n \in Nat
      /\ \A i \in 1 .. m + n : z[i] = IF i <= m THEN x[i] ELSE y[i - m]
  BY ConcatProperties, LenProperties
<1> HIDE DEF z
<1>2. Within(z, 0, x) /\ Within(z, m, y)
  <2>1. \A i \in 1 .. m : z[0 + i] = x[i]
    BY <1>1
  <2>2. ASSUME NEW i \in 1 .. n PROVE z[m + i] = y[i]
    <3>1. m + i \in 1 .. m + n /\ ~(m + i <= m) /\ m + i - m = i
      BY <1>1
    <3> QED BY <1>1, <3>1
  <2> QED BY <1>1, <2>1, <2>2 DEF Within
<1>3. PICK gx \in [1 .. m + 1 -> Readings(x)] :
           (\A pos \in 1 .. m + 1 : gx[pos] = ReadFrom(x, gx, pos)) /\ Fields(x) = gx[1]
  BY FieldsFrom
<1>4. PICK gy \in [1 .. n + 1 -> Readings(y)] :
           (\A pos \in 1 .. n + 1 : gy[pos] = ReadFrom(y, gy, pos)) /\ Fields(y) = gy[1]
  BY FieldsFrom
<1>5. PICK gz \in [1 .. Len(z) + 1 -> Readings(z)] :
           (\A pos \in 1 .. Len(z) + 1 : gz[pos] = ReadFrom(z, gz, pos)) /\ Fields(z) = gz[1]
  BY <1>1, FieldsFrom
\* What is read in y is read there.
<1> DEFINE D == {k \in 0 .. n + 1 : \A p \in n + 2 - k .. n + 1 : gy[p] # Fails => gz[m + p] = gy[p]}
<1>6. 0 \in D
  BY <1>1
<1>7. ASSUME NEW k \in 1 .. n + 1, k - 1 \in D PROVE k \in D
  <2> DEFINE p == n + 2 - k
  <2>1. p \in 1 .. n + 1 /\ n + 2 - (k - 1) = p + 1
    BY <1>1
  <2>2. \A j \in p + 1 .. n + 1 : gy[j] # Fails => gz[m + j] = gy[j]
    <3>1. k - 1 \in D
      BY <1>7
    <3> QED BY <2>1, <3>1
  <2> HIDE DEF p
  <2>3. ASSUME gy[p] # Fails PROVE gz[m + p] = gy[p]
    <3>1. gy[p] = ReadFrom(y, gy, p) /\ gz[m + p] = ReadFrom(z, gz, m + p)
      <4>1. m + p \in 1 .. Len(z) + 1
        BY <1>1, <2>1
      <4> QED BY <1>4, <1>5, <2>1, <4>1
    <3>2. CASE p > n
      <4>1. m + p > Len(z)
        BY <1>1, <2>1, <3>2
      <4> QED BY <3>1, <3>2, <4>1 DEF ReadFrom
    <3>3. CASE ~(p > n)
      <4>1. p \in 1 .. n /\ ~(m + p > Len(z))
        BY <1>1, <2>1, <3>3
      <4>2. FieldAt(y, p) # Fails
        BY <2>3, <3>1, <3>3 DEF ReadFrom
      <4> DEFINE q == FieldAt(y, p)[1].next
                 v == FieldAt(y, p)[1].value
      <4>3. q \in p + 1 .. n + 1
        BY <4>1, <4>2, FieldAdvances
      <4>4. FieldAt(z, m + p) = Is([value |-> v, next |-> m + q])
        <5>1. p \in 1 .. Len(y) + 1
          BY <1>1, <4>1
        <5>2. FieldAt(z, m + p) = Moved(FieldAt(y, p), m)
          BY <1>1, <1>2, <4>2, <5>1, FieldLocal
        <5> QED BY <5>2 DEF Moved
      <4> HIDE DEF q, v
      <4>5. gy[p] = IF gy[q] = Fails THEN Fails ELSE Is(<<v>> \o gy[q][1])
        BY <3>1, <3>3, <4>2 DEF ReadFrom, q, v
      <4>6. gz[m + p] = IF gz[m + q] = Fails THEN Fails ELSE Is(<<v>> \o gz[m + q][1])
        <5> DEFINE d == [value |-> v, next |-> m + q]
        <5>1. FieldAt(z, m + p) = Is(d) /\ d.value = v /\ d.next = m + q
          BY <4>4
        <5> HIDE DEF d
        <5>2. FieldAt(z, m + p) # Fails /\ FieldAt(z, m + p)[1] = d
          BY <5>1, IsSome
        <5> QED BY <3>1, <4>1, <5>1, <5>2 DEF ReadFrom
      <4>7. gy[q] # Fails
        BY <2>3, <4>5
      <4>8. gz[m + q] = gy[q]
        BY <2>2, <4>3, <4>7
      <4> QED BY <4>5, <4>6, <4>8
    <3> QED BY <3>2, <3>3
  <2>4. ASSUME NEW j \in p .. n + 1, gy[j] # Fails PROVE gz[m + j] = gy[j]
    <3>1. CASE j = p
      BY <2>3, <2>4, <3>1
    <3>2. CASE j # p
      <4>1. j \in p + 1 .. n + 1
        BY <1>1, <2>1, <3>2
      <4> QED BY <2>2, <2>4, <4>1
    <3> QED BY <3>1, <3>2
  <2> QED BY <1>1, <2>4 DEF p
<1>8. \A k \in 0 .. n + 1 : k \in D
  <2>1. n + 1 \in Nat
    BY <1>1
  <2> HIDE DEF D
  <2> QED BY <1>6, <1>7, <2>1, UpTo
<1>9. gz[m + 1] = gy[1]
  <2>2. n + 1 \in 0 .. n + 1 /\ n + 2 - (n + 1) = 1 /\ 1 \in 1 .. n + 1
    BY <1>1
  <2>3. n + 1 \in D
    <3> HIDE DEF D
    <3> QED BY <1>8, <2>2
  <2>1. n + 1 \in D /\ n + 2 - (n + 1) = 1 /\ 1 \in 1 .. n + 1
    BY <2>2, <2>3
  <2> QED BY <1>4, <2>1
<1> DEFINE ly == Fields(y)[1]
<1>10. gz[m + 1] = Is(ly) /\ ly \in Seq(FieldValues(y))
  <2>1. gy[1] \in Readings(y) /\ gy[1] # Fails
    <3>1. 1 \in 1 .. n + 1
      BY <1>1
    <3> QED BY <1>4, <3>1
  <2>2. PICK l \in Seq(FieldValues(y)) : gy[1] = Is(l)
    BY <2>1 DEF Readings
  <2> QED BY <1>4, <1>9, <2>2, IsSome
<1> HIDE DEF ly
\* What is read in x is read before that.
<1> DEFINE E == {k \in 0 .. m + 1 : \A p \in m + 2 - k .. m + 1 : gx[p] # Fails => gz[p] = Is(gx[p][1] \o ly)}
<1>11. 0 \in E
  BY <1>1
<1>12. ASSUME NEW k \in 1 .. m + 1, k - 1 \in E PROVE k \in E
  <2> DEFINE p == m + 2 - k
  <2>1. p \in 1 .. m + 1 /\ m + 2 - (k - 1) = p + 1
    BY <1>1
  <2>2. \A j \in p + 1 .. m + 1 : gx[j] # Fails => gz[j] = Is(gx[j][1] \o ly)
    <3>1. k - 1 \in E
      BY <1>12
    <3> QED BY <2>1, <3>1
  <2> HIDE DEF p
  <2>3. ASSUME gx[p] # Fails PROVE gz[p] = Is(gx[p][1] \o ly)
    <3>1. gx[p] = ReadFrom(x, gx, p)
      BY <1>3, <2>1
    <3>2. CASE p > m
      <4>1. p = m + 1
        BY <1>1, <2>1, <3>2
      <4>2. gx[p] = Is(<<>>)
        BY <3>1, <3>2 DEF ReadFrom
      <4>3. <<>> \o ly = ly
        BY <1>10, ConcatEmptySeq
      <4> QED BY <1>10, <4>1, <4>2, <4>3, IsSome
    <3>3. CASE ~(p > m)
      <4>1. p \in 1 .. m /\ ~(p > Len(z)) /\ p \in 1 .. Len(z) + 1 /\ 0 + p = p
        BY <1>1, <2>1, <3>3
      <4>2. FieldAt(x, p) # Fails
        BY <2>3, <3>1, <3>3 DEF ReadFrom
      <4> DEFINE q == FieldAt(x, p)[1].next
                 v == FieldAt(x, p)[1].value
      <4>3. q \in p + 1 .. m + 1 /\ 0 + q = q /\ v \in FieldValues(x)
        <5>1. q \in p + 1 .. m + 1 /\ v \in FieldValues(x)
          BY <4>1, <4>2, FieldAdvances
        <5> QED BY <1>1, <2>1, <5>1
      <4>4. FieldAt(z, p) = Is([value |-> v, next |-> q])
        <5>1. p \in 1 .. Len(x) + 1
          BY <1>1, <4>1
        <5>2. FieldAt(z, 0 + p) = Moved(FieldAt(x, p), 0)
          BY <1>1, <1>2, <4>2, <5>1, FieldLocal
        <5> QED BY <4>1, <4>3, <5>2 DEF Moved
      <4> HIDE DEF q, v
      <4>5. gx[p] = IF gx[q] = Fails THEN Fails ELSE Is(<<v>> \o gx[q][1])
        BY <3>1, <3>3, <4>2 DEF ReadFrom, q, v
      <4>6. gz[p] = ReadFrom(z, gz, p)
        BY <1>5, <4>1
      <4>7. gz[p] = IF gz[q] = Fails THEN Fails ELSE Is(<<v>> \o gz[q][1])
        BY <4>1, <4>4, <4>6, IsSome DEF ReadFrom
      <4>8. gx[q] # Fails
        BY <2>3, <4>5
      <4>9. gz[q] = Is(gx[q][1] \o ly)
        BY <2>2, <4>3, <4>8
      <4>10. <<v>> \o (gx[q][1] \o ly) = (<<v>> \o gx[q][1]) \o ly
        <5> DEFINE S == FieldValues(x) \cup FieldValues(y)
        <5>1. gx[q] \in Readings(x)
          <6>1. q \in 1 .. m + 1
            BY <1>1, <4>1, <4>3
          <6> QED BY <1>3, <6>1
        <5>2. PICK l \in Seq(FieldValues(x)) : gx[q] = Is(l)
          BY <4>8, <5>1 DEF Readings
        <5>3. gx[q][1] = l
          BY <5>2, IsSome
        <5>4. l \in Seq(S)
          BY <5>2, SeqMonotonic
        <5>5. ly \in Seq(S)
          BY <1>10, SeqMonotonic
        <5>6. <<v>> \in Seq(S)
          BY <4>3
        <5> HIDE DEF S
        <5>7. (<<v>> \o l) \o ly = <<v>> \o (l \o ly)
          BY <5>4, <5>5, <5>6, ConcatAssociative
        <5> QED BY <5>3, <5>7
      <4> QED BY <4>5, <4>7, <4>8, <4>9, <4>10, IsSome
    <3> QED BY <3>2, <3>3
  <2>4. ASSUME NEW j \in p .. m + 1, gx[j] # Fails PROVE gz[j] = Is(gx[j][1] \o ly)
    <3>1. CASE j = p
      BY <2>3, <2>4, <3>1
    <3>2. CASE j # p
      <4>1. j \in p + 1 .. m + 1
        BY <1>1, <2>1, <3>2
      <4> QED BY <2>2, <2>4, <4>1
    <3> QED BY <3>1, <3>2
  <2> QED BY <1>1, <2>4 DEF p
<1>13. \A k \in 0 .. m + 1 : k \in E
  <2>1. m + 1 \in Nat
    BY <1>1
  <2> HIDE DEF E
  <2> QED BY <1>11, <1>12, <2>1, UpTo
<1>14. gz[1] = Is(gx[1][1] \o ly)
  <2>2. m + 1 \in 0 .. m + 1 /\ m + 2 - (m + 1) = 1 /\ 1 \in 1 .. m + 1
    BY <1>1
  <2>3. m + 1 \in E
    <3> HIDE DEF E
    <3> QED BY <1>13, <2>2
  <2>1. m + 1 \in E /\ m + 2 - (m + 1) = 1 /\ 1 \in 1 .. m + 1
    BY <2>2, <2>3
  <2> QED BY <1>3, <2>1
<1> QED BY <1>3, <1>5, <1>14 DEF z, ly

LEMMA FieldsEmpty == Fields(<<>>) = Is(<<>>)
<1>1. <<>> \in Seq(Byte) /\ Len(<<>>) = 0
  BY EmptySeq
<1>2. PICK g \in [1 .. Len(<<>>) + 1 -> Readings(<<>>)] :
            (\A pos \in 1 .. Len(<<>>) + 1 : g[pos] = ReadFrom(<<>>, g, pos)) /\ Fields(<<>>) = g[1]
  BY <1>1, FieldsFrom
<1>3. g[1] = ReadFrom(<<>>, g, 1)
  BY <1>1, <1>2
<1> QED BY <1>1, <1>2, <1>3 DEF ReadFrom

\* The reading of a message is a sequence.
LEMMA FieldsTyped ==
  ASSUME NEW x \in Seq(Byte), Fields(x) # Fails
  PROVE  Fields(x)[1] \in Seq(FieldValues(x)) /\ Fields(x) = Is(Fields(x)[1])
<1>1. PICK g \in [1 .. Len(x) + 1 -> Readings(x)] : Fields(x) = g[1]
  BY FieldsFrom
<1>2. g[1] \in Readings(x)
  BY <1>1, LenProperties
<1>3. PICK l \in Seq(FieldValues(x)) : Fields(x) = Is(l)
  BY <1>1, <1>2 DEF Readings
<1> QED BY <1>3, IsSome

\* A message of one field.
LEMMA FieldsOne ==
  ASSUME NEW x \in Seq(Byte), NEW v, Len(x) > 0, FieldAt(x, 1) = Is([value |-> v, next |-> Len(x) + 1])
  PROVE  Fields(x) = Is(<<v>>)
<1>1. PICK g \in [1 .. Len(x) + 1 -> Readings(x)] :
            (\A pos \in 1 .. Len(x) + 1 : g[pos] = ReadFrom(x, g, pos)) /\ Fields(x) = g[1]
  BY FieldsFrom
<1>2. g[1] = ReadFrom(x, g, 1) /\ g[Len(x) + 1] = ReadFrom(x, g, Len(x) + 1) /\ Len(x) \in Nat
  BY <1>1, LenProperties
<1>3. g[Len(x) + 1] = Is(<<>>)
  BY <1>2 DEF ReadFrom
<1>4. g[1] = Is(<<v>> \o <<>>)
  <2>1. ~(1 > Len(x)) /\ FieldAt(x, 1) # Fails /\ FieldAt(x, 1)[1].next = Len(x) + 1 /\ FieldAt(x, 1)[1].value = v
    BY <1>2, IsSome
  <2> QED BY <1>2, <1>3, <2>1, IsSome DEF ReadFrom
<1>5. <<v>> \o <<>> = <<v>>
  <2>1. <<v>> \in Seq({v})
    OBVIOUS
  <2> QED BY <2>1, ConcatEmptySeq
<1> QED BY <1>1, <1>4, <1>5

LEMMA WithinConcat ==
  ASSUME NEW x \in Seq(Byte), NEW y \in Seq(Byte)
  PROVE  /\ x \o y \in Seq(Byte) /\ Len(x \o y) = Len(x) + Len(y)
         /\ Len(x) \in Nat /\ Len(y) \in Nat
         /\ Within(x \o y, 0, x) /\ Within(x \o y, Len(x), y)
<1> DEFINE z == x \o y
           m == Len(x)
           n == Len(y)
<1>1. z \in Seq(Byte) /\ Len(z) = m + n /\ m \in Nat /\ n \in Nat
      /\ \A i \in 1 .. m + n : z[i] = IF i <= m THEN x[i] ELSE y[i - m]
  BY ConcatProperties, LenProperties
<1> HIDE DEF z
<1>2. \A i \in 1 .. m : z[0 + i] = x[i]
  BY <1>1
<1>3. ASSUME NEW i \in 1 .. n PROVE z[m + i] = y[i]
  <2>1. m + i \in 1 .. m + n /\ ~(m + i <= m) /\ m + i - m = i
    BY <1>1
  <2> QED BY <1>1, <2>1
<1>4. Within(z, 0, x) /\ Within(z, m, y)
  BY <1>1, <1>2, <1>3 DEF Within
<1> QED BY <1>1, <1>4 DEF z

LEMMA WithinTrans ==
  ASSUME NEW x \in Seq(Byte), NEW y \in Seq(Byte), NEW z \in Seq(Byte), NEW off \in Nat, NEW o \in Nat,
         Within(z, off, y), Within(y, o, x)
  PROVE  Within(z, off + o, x)
<1>1. Len(x) \in Nat /\ Len(y) \in Nat /\ Len(z) \in Nat
  BY LenProperties
<1>2. off + Len(y) <= Len(z) /\ o + Len(x) <= Len(y)
      /\ (\A i \in 1 .. Len(y) : z[off + i] = y[i]) /\ (\A i \in 1 .. Len(x) : y[o + i] = x[i])
  BY DEF Within
<1>3. ASSUME NEW i \in 1 .. Len(x) PROVE z[off + o + i] = x[i]
  <2>1. o + i \in 1 .. Len(y) /\ off + o + i = off + (o + i)
    BY <1>1, <1>2
  <2> QED BY <1>2, <2>1
<1>4. off + o + Len(x) <= Len(z)
  BY <1>1, <1>2
<1> QED BY <1>3, <1>4 DEF Within

-----------------------------------------------------------------------------
(* The fields that are written. *)

FieldNumbers == 1 .. 15

\* What a field is when it is read.
Field(n, w, v) == [field |-> n, wire |-> w, value |-> v]

LEMMA KeyIs ==
  ASSUME NEW n \in FieldNumbers, NEW w \in 0 .. 7
  PROVE  LET k == n * 8 + w IN
         k \in U64 /\ Varint[k] = <<k>> /\ k \in Byte /\ k % 8 = w /\ AsU32(k \div 8) = n
<1> DEFINE k == n * 8 + w
<1>1. k \in 0 .. 127 /\ k % 8 = w /\ k \div 8 = n
  BY DEF FieldNumbers
<1>2. AsU32(n) = n
  <2>1. n \in Nat /\ n < 16
    BY DEF FieldNumbers
  <2>2. n % Word32 = n
    BY <2>1, Widths
  <2> QED BY <2>2 DEF AsU32
<1> HIDE DEF k
<1>3. k \in U64 /\ k \in Byte
  BY <1>1, Widths DEF Byte
<1>4. Varint[k] = <<k>>
  BY <1>1, <1>3, VarintShape
<1> QED BY <1>1, <1>2, <1>3, <1>4 DEF k

\* A field whose content is read to the end is all that is read.
LEMMA KeyThen ==
  ASSUME NEW n \in FieldNumbers, NEW w \in 0 .. 7, NEW rest \in Seq(Byte), NEW v,
         LET e == Varint[n * 8 + w] \o rest IN
            ContentAt(e, 2, w) = Is([value |-> v, next |-> Len(e) + 1])
  PROVE  LET e == Varint[n * 8 + w] \o rest IN
         /\ e \in Seq(Byte) /\ Len(e) = 1 + Len(rest)
         /\ FieldAt(e, 1) = Is([value |-> Field(n, w, v), next |-> Len(e) + 1])
         /\ Fields(e) = Is(<<Field(n, w, v)>>)
<1> DEFINE k == n * 8 + w
           e == Varint[k] \o rest
<1>1. k \in U64 /\ Varint[k] = <<k>> /\ k \in Byte /\ k % 8 = w /\ AsU32(k \div 8) = n
  BY KeyIs
<1>2. ContentAt(e, 2, w) = Is([value |-> v, next |-> Len(e) + 1])
  OBVIOUS
<1> HIDE DEF k
<1>3. Varint[k] \in Seq(Byte) /\ Len(Varint[k]) = 1
  BY <1>1
<1>4. e \in Seq(Byte) /\ Len(e) = 1 + Len(rest) /\ Within(e, 0, Varint[k]) /\ Len(rest) \in Nat
  BY <1>3, WithinConcat
<1> HIDE DEF e
<1>5. VarintAt(e, 1) = Is([value |-> k, next |-> 2])
  <2>1. 1 \in 1 .. Len(e) + 1 /\ 1 - 1 = 0 /\ 1 + 1 = 2
    BY <1>4
  <2>2. VarintAt(e, 1) = Is([value |-> k, next |-> 1 + Len(Varint[k])])
    BY <1>1, <1>4, <2>1, VarintFound
  <2> QED BY <1>3, <2>1, <2>2
<1>6. FieldAt(e, 1) = FieldOf(k, ContentAt(e, 2, w))
  <2>1. ContentAt(e, 2, k % 8) # Fails
    BY <1>1, <1>2, IsSome
  <2> QED BY <1>1, <1>5, <2>1, FieldIs
<1>7. FieldAt(e, 1) = Is([value |-> Field(n, w, v), next |-> Len(e) + 1])
  BY <1>1, <1>2, <1>6, IsSome DEF FieldOf, Field
<1>8. Fields(e) = Is(<<Field(n, w, v)>>)
  <2> DEFINE f == Field(n, w, v)
  <2> HIDE DEF f
  <2>1. FieldAt(e, 1) = Is([value |-> f, next |-> Len(e) + 1]) /\ Len(e) > 0
    BY <1>4, <1>7 DEF f
  <2>2. Fields(e) = Is(<<f>>)
    BY <1>4, <2>1, FieldsOne
  <2> QED BY <2>2 DEF f
<1> QED BY <1>4, <1>7, <1>8 DEF e, k

LEMMA VarintFieldIs ==
  ASSUME NEW n \in FieldNumbers, NEW v \in U64
  PROVE  /\ FieldVarint(n, v) \in Seq(Byte) /\ Len(FieldVarint(n, v)) <= 1 + MaxGroups
         /\ Fields(FieldVarint(n, v)) = Is(<<Field(n, 0, v)>>)
<1> DEFINE k == n * 8 + 0
           r == Varint[v]
           e == Varint[k] \o r
<1>1. r \in Seq(Byte) /\ Len(r) \in 1 .. MaxGroups /\ Len(r) \in Nat
  BY VarintShape, LenProperties DEF Shape
<1>2. k \in U64 /\ Varint[k] = <<k>> /\ k \in Byte /\ k = n * 8
  <2>1. 0 \in 0 .. 7 /\ n * 8 + 0 = n * 8
    BY DEF FieldNumbers
  <2>2. k \in U64 /\ Varint[k] = <<k>> /\ k \in Byte
    BY <2>1, KeyIs
  <2> QED BY <2>1, <2>2
<1>3. e = FieldVarint(n, v)
  BY <1>2 DEF FieldVarint
<1>4. Varint[k] \in Seq(Byte) /\ Len(Varint[k]) = 1
  <2> HIDE DEF k
  <2> QED BY <1>2
<1>5. e \in Seq(Byte) /\ Len(e) = 1 + Len(r) /\ Within(e, 1, r)
  <2> HIDE DEF k, r
  <2> QED BY <1>1, <1>4, WithinConcat
<1>6. VarintAt(e, 2) = Is([value |-> v, next |-> Len(e) + 1])
  <2> HIDE DEF e
  <2>1. 2 \in 1 .. Len(e) + 1 /\ 2 - 1 = 1 /\ 2 + Len(r) = Len(e) + 1
    BY <1>1, <1>5
  <2>2. VarintAt(e, 2) = Is([value |-> v, next |-> 2 + Len(r)])
    BY <1>5, <2>1, VarintFound
  <2> QED BY <2>1, <2>2
<1>7. ContentAt(e, 2, 0) = Is([value |-> v, next |-> Len(e) + 1])
  <2> HIDE DEF e
  <2> QED BY <1>6 DEF ContentAt
<1>8. Fields(e) = Is(<<Field(n, 0, v)>>)
  <2>1. 0 \in 0 .. 7
    OBVIOUS
  <2> HIDE DEF r
  <2> QED BY <1>1, <1>7, <2>1, KeyThen
<1>9. Len(e) <= 1 + MaxGroups
  <2>1. MaxGroups \in Nat
    BY Widths
  <2> HIDE DEF e, r
  <2> QED BY <1>1, <1>5, <2>1
<1> HIDE DEF e
<1> QED BY <1>3, <1>5, <1>8, <1>9

LEMMA FixedFieldIs ==
  ASSUME NEW n \in FieldNumbers, NEW four \in Seq(Byte), Len(four) = 4
  PROVE  /\ FieldFixed32(n, four) \in Seq(Byte) /\ Len(FieldFixed32(n, four)) = 5
         /\ Fields(FieldFixed32(n, four)) = Is(<<Field(n, 5, four)>>)
<1> DEFINE k == n * 8 + 5
           e == Varint[k] \o four
<1>1. k \in U64 /\ Varint[k] = <<k>> /\ k \in Byte
  BY KeyIs
<1>2. e = FieldFixed32(n, four)
  BY DEF FieldFixed32
<1>3. Varint[k] \in Seq(Byte) /\ Len(Varint[k]) = 1
  <2> HIDE DEF k
  <2> QED BY <1>1
<1>4. e \in Seq(Byte) /\ Len(e) = 5 /\ Within(e, 1, four)
  <2> HIDE DEF k
  <2>1. e \in Seq(Byte) /\ Len(e) = 1 + Len(four) /\ Within(e, 1, four)
    BY <1>3, WithinConcat
  <2> HIDE DEF e
  <2> QED BY <2>1
<1>5. BytesAt(e, 2, 4) = Is([value |-> four, next |-> Len(e) + 1])
  <2> HIDE DEF e
  <2> DEFINE s == SubSeq(e, 2, 2 + 4 - 1)
  <2>1. 2 \in 1 .. Len(e) + 1 /\ 2 + 4 <= Len(e) + 1 /\ 2 + 4 = Len(e) + 1
    BY <1>4
  <2>2. BytesAt(e, 2, 4) = Is([value |-> s, next |-> 2 + 4]) /\ s \in Seq(Byte) /\ Len(s) = 4
        /\ (\A i \in 1 .. 4 : s[i] = e[2 + i - 1])
    BY <1>4, <2>1, BytesRead, ZenonT(40)
  <2> HIDE DEF s
  <2>3. \A i \in 1 .. 4 : e[1 + i] = four[i] /\ 2 + i - 1 = 1 + i
    BY <1>4 DEF Within
  <2>4. s = four
    <3>1. \A i \in 1 .. Len(s) : s[i] = four[i]
      BY <2>2, <2>3
    <3> QED BY <2>2, <3>1, SeqEqual
  <2> QED BY <2>1, <2>2, <2>4
<1>6. ContentAt(e, 2, 5) = Is([value |-> four, next |-> Len(e) + 1])
  <2> HIDE DEF e
  <2> QED BY <1>5 DEF ContentAt
<1>7. Fields(e) = Is(<<Field(n, 5, four)>>)
  <2>1. 5 \in 0 .. 7
    OBVIOUS
  <2> QED BY <1>6, <2>1, KeyThen
<1> HIDE DEF e
<1> QED BY <1>2, <1>4, <1>7

LEMMA MessageFieldIs ==
  ASSUME NEW n \in FieldNumbers, NEW b \in Seq(Byte), Len(b) \in U64
  PROVE  LET e == FieldMessage(n, b) IN
         /\ e \in Seq(Byte) /\ Len(e) > Len(b)
         /\ Fields(e) = Is(<<Field(n, 2, b)>>)
         /\ FieldAt(e, 1) = Is([value |-> Field(n, 2, b), next |-> Len(e) + 1])
<1> DEFINE k == n * 8 + 2
           l == Varint[Len(b)]
           r == l \o b
           e == Varint[k] \o r
<1>1. l \in Seq(Byte) /\ Len(l) \in Nat
  BY VarintShape, LenProperties DEF Shape
<1>2. k \in U64 /\ Varint[k] = <<k>> /\ k \in Byte
  BY KeyIs
<1>3. Varint[k] \in Seq(Byte) /\ Len(Varint[k]) = 1
  <2> HIDE DEF k
  <2> QED BY <1>2
<1>4. r \in Seq(Byte) /\ Len(r) = Len(l) + Len(b) /\ Len(b) \in Nat /\ Within(r, 0, l) /\ Within(r, Len(l), b)
  <2> HIDE DEF l
  <2> QED BY <1>1, WithinConcat
<1>5. e = FieldMessage(n, b)
  <2>1. FieldMessage(n, b) = (Varint[k] \o l) \o b
    BY DEF FieldMessage
  <2> DEFINE kk == Varint[k]
  <2>2. kk \in Seq(Byte) /\ l \in Seq(Byte) /\ b \in Seq(Byte)
    BY <1>1, <1>3
  <2> HIDE DEF l, kk
  <2>3. (kk \o l) \o b = kk \o (l \o b)
    BY <2>2, ConcatAssociative
  <2> QED BY <2>1, <2>3 DEF kk
<1>6. e \in Seq(Byte) /\ Len(e) = 1 + Len(l) + Len(b) /\ Within(e, 1, l) /\ Within(e, 1 + Len(l), b)
  <2> HIDE DEF r, k
  <2>1. e \in Seq(Byte) /\ Len(e) = 1 + Len(r) /\ Within(e, 1, r)
    BY <1>3, <1>4, WithinConcat
  <2> HIDE DEF e, l
  <2>2. Within(e, 1 + 0, l) /\ Within(e, 1 + Len(l), b)
    BY <1>1, <1>4, <2>1, WithinTrans
  <2> QED BY <1>1, <1>4, <2>1, <2>2
<1> DEFINE q == 2 + Len(l)
<1>7. VarintAt(e, 2) = Is([value |-> Len(b), next |-> q])
  <2> HIDE DEF e
  <2>1. 2 \in 1 .. Len(e) + 1 /\ 2 - 1 = 1
    BY <1>1, <1>4, <1>6
  <2> QED BY <1>6, <2>1, VarintFound
<1>8. BytesAt(e, q, Len(b)) = Is([value |-> b, next |-> Len(e) + 1])
  <2> HIDE DEF e, l
  <2> DEFINE s == SubSeq(e, q, q + Len(b) - 1)
  <2>1. q \in 1 .. Len(e) + 1 /\ q + Len(b) <= Len(e) + 1 /\ q + Len(b) = Len(e) + 1
    BY <1>1, <1>4, <1>6
  <2>2. BytesAt(e, q, Len(b)) = Is([value |-> s, next |-> q + Len(b)]) /\ s \in Seq(Byte) /\ Len(s) = Len(b)
        /\ (\A i \in 1 .. Len(b) : s[i] = e[q + i - 1])
    BY <1>4, <1>6, <2>1, BytesRead
  <2> HIDE DEF s
  <2>3. \A i \in 1 .. Len(b) : e[1 + Len(l) + i] = b[i] /\ q + i - 1 = 1 + Len(l) + i
    BY <1>1, <1>4, <1>6 DEF Within
  <2>4. s = b
    <3>1. \A i \in 1 .. Len(s) : s[i] = b[i]
      BY <2>2, <2>3
    <3> QED BY <2>2, <3>1, SeqEqual
  <2> QED BY <2>1, <2>2, <2>4
<1>9. ContentAt(e, 2, 2) = Is([value |-> b, next |-> Len(e) + 1])
  <2> HIDE DEF e
  <2>1. DelimitedAt(e, 2) = BytesAt(e, q, Len(b))
    BY <1>7, IsSome DEF DelimitedAt
  <2> QED BY <1>8, <2>1 DEF ContentAt
<1>10. Fields(e) = Is(<<Field(n, 2, b)>>) /\ FieldAt(e, 1) = Is([value |-> Field(n, 2, b), next |-> Len(e) + 1])
  <2>1. 2 \in 0 .. 7
    OBVIOUS
  <2> HIDE DEF r
  <2> QED BY <1>4, <1>9, <2>1, KeyThen
<1>11. Len(e) > Len(b)
  BY <1>1, <1>4, <1>6
<1> HIDE DEF e
<1> QED BY <1>5, <1>6, <1>10, <1>11

-----------------------------------------------------------------------------
(* The fields of an encoded message. *)

\* A reading has the fields F of the numbers S and no others.
Lists(l, S, F) ==
    /\ \A i \in DOMAIN l : \E n \in S : l[i] = F[n]
    /\ \A n \in S : \E i \in DOMAIN l : l[i] = F[n]

\* What is read of the fields up to k.
Read(x, S, F, k) ==
    /\ x \in Seq(Byte) /\ Fields(x) # Fails
    /\ \E l \in Seq({F[n] : n \in S}) : Fields(x) = Is(l) /\ Lists(l, {n \in S : n <= k}, F)

LEMMA ReadMore ==
  ASSUME NEW S, S \subseteq 1 .. MaxField, NEW F, NEW k \in 1 .. MaxField, NEW x, NEW y,
         Read(x, S, F, k - 1), k \in S, y \in Seq(Byte), Fields(y) = Is(<<F[k]>>)
  PROVE  Read(x \o y, S, F, k)
<1> DEFINE V == {F[n] : n \in S}
<1>1. PICK l \in Seq(V) : Fields(x) = Is(l) /\ Lists(l, {n \in S : n <= k - 1}, F)
  BY DEF Read
<1>2. x \in Seq(Byte) /\ Fields(x) # Fails /\ Fields(y) # Fails /\ Fields(x)[1] = l /\ Fields(y)[1] = <<F[k]>>
  BY <1>1, IsSome DEF Read
<1>3. Fields(x \o y) = Is(l \o <<F[k]>>)
  BY <1>2, FieldsConcat
<1>4. x \o y \in Seq(Byte)
  BY <1>2, ConcatProperties
<1> DEFINE m == l \o <<F[k]>>
<1>5. m \in Seq(V) /\ Len(m) = Len(l) + 1 /\ Len(l) \in Nat
      /\ (\A i \in 1 .. Len(l) : m[i] = l[i]) /\ m[Len(l) + 1] = F[k]
  <2> DEFINE o == <<F[k]>>
  <2>1. o \in Seq(V) /\ Len(o) = 1 /\ o[1] = F[k] /\ l \in Seq(V)
    BY <1>1
  <2> HIDE DEF V, o
  <2>2. l \o o \in Seq(V) /\ Len(l \o o) = Len(l) + Len(o)
        /\ \A i \in 1 .. Len(l) + Len(o) : (l \o o)[i] = IF i <= Len(l) THEN l[i] ELSE o[i - Len(l)]
    BY <2>1, ConcatProperties
  <2>3. Len(l) \in Nat
    BY <2>1, LenProperties
  <2>4. m = l \o o
    BY DEF o
  <2> HIDE DEF m
  <2>5. \A i \in 1 .. Len(l) : m[i] = l[i]
    BY <2>1, <2>2, <2>3, <2>4
  <2>6. m[Len(l) + 1] = o[1]
    BY <2>1, <2>2, <2>3, <2>4
  <2> QED BY <2>1, <2>2, <2>3, <2>4, <2>5, <2>6
<1>6. Lists(m, {n \in S : n <= k}, F)
  <2>1. DOMAIN m = 1 .. Len(l) + 1 /\ DOMAIN l = 1 .. Len(l)
    <3> HIDE DEF m
    <3> QED BY <1>5, LenProperties
  <2> HIDE DEF m
  <2>2. ASSUME NEW i \in DOMAIN m PROVE \E n \in {n \in S : n <= k} : m[i] = F[n]
    <3>1. CASE i = Len(l) + 1
      BY <1>5, <3>1
    <3>2. CASE i # Len(l) + 1
      <4>1. i \in DOMAIN l /\ m[i] = l[i]
        BY <1>5, <2>1, <3>2
      <4>2. PICK n \in {n \in S : n <= k - 1} : l[i] = F[n]
        BY <1>1, <4>1 DEF Lists
      <4> QED BY <4>1, <4>2
    <3> QED BY <3>1, <3>2
  <2>3. ASSUME NEW n \in S, n <= k PROVE \E i \in DOMAIN m : m[i] = F[n]
    <3>1. CASE n = k
      <4>1. Len(l) + 1 \in DOMAIN m
        BY <1>5, <2>1
      <4> QED BY <1>5, <3>1, <4>1
    <3>2. CASE n # k
      <4>1. n \in {o \in S : o <= k - 1}
        BY <2>3, <3>2
      <4>2. PICK i \in DOMAIN l : l[i] = F[n]
        BY <1>1, <4>1 DEF Lists
      <4>3. i \in DOMAIN m /\ m[i] = F[n]
        BY <1>5, <2>1, <4>2
      <4> QED BY <4>3
    <3> QED BY <3>1, <3>2
  <2> QED BY <2>2, <2>3 DEF Lists
<1> HIDE DEF m
<1>7. Fields(x \o y) = Is(m) /\ Fields(x \o y) # Fails
  BY <1>3, IsSome DEF m
<1> QED BY <1>4, <1>5, <1>6, <1>7 DEF Read

\* Joined as a loop.
IsJoined(j, f) ==
    /\ j \in [0 .. MaxField -> Seq(Byte)] /\ j[0] = <<>> /\ Joined(f) = j[MaxField]
    /\ \A n \in 1 .. MaxField : j[n] = IF n \in DOMAIN f THEN j[n - 1] \o f[n] ELSE j[n - 1]

LEMMA JoinedIs ==
  ASSUME NEW f, \A n \in DOMAIN f : n \in 1 .. MaxField /\ f[n] \in Seq(Byte)
  PROVE  \E j : IsJoined(j, f)
<1> DEFINE step == [n \in 1 .. MaxField |-> [x \in Seq(Byte) |-> IF n \in DOMAIN f THEN x \o f[n] ELSE x]]
           G(j) == [n \in 0 .. MaxField |->
                       CASE n = 0               -> <<>>
                         [] n \in DOMAIN f      -> j[n - 1] \o f[n]
                         [] OTHER               -> j[n - 1]]
           h == CHOOSE j : j = G(j)
<1>1. MaxField \in Nat
  BY DEF MaxField
<1>2. step \in Rounds(MaxField, Seq(Byte)) /\ <<>> \in Seq(Byte)
  <2>1. ASSUME NEW n \in 1 .. MaxField, NEW x \in Seq(Byte)
        PROVE  (IF n \in DOMAIN f THEN x \o f[n] ELSE x) \in Seq(Byte)
    BY ConcatProperties
  <2> QED BY <2>1, EmptySeq DEF Rounds
<1>3. PICK j : IsLoop(j, MaxField, Seq(Byte), <<>>, step)
  <2> HIDE DEF step
  <2> QED BY <1>1, <1>2, LoopExists
<1>4. j \in [0 .. MaxField -> Seq(Byte)] /\ j[0] = <<>>
      /\ \A n \in 1 .. MaxField : j[n] = IF n \in DOMAIN f THEN j[n - 1] \o f[n] ELSE j[n - 1]
  <2>1. j \in [0 .. MaxField -> Seq(Byte)] /\ j[0] = <<>>
        /\ \A n \in 1 .. MaxField : j[n] = step[n][j[n - 1]] /\ j[n - 1] \in Seq(Byte)
    <3> HIDE DEF step
    <3>1. \A n \in 1 .. MaxField : n - 1 \in 0 .. MaxField
      BY <1>1
    <3> QED BY <1>3, <3>1 DEF IsLoop
  <2> QED BY <2>1
<1>5. j = G(j)
  <2>1. ASSUME NEW n \in 0 .. MaxField
        PROVE  j[n] = CASE n = 0               -> <<>>
                        [] n \in DOMAIN f      -> j[n - 1] \o f[n]
                        [] OTHER               -> j[n - 1]
    <3>1. CASE n = 0
      <4>1. 0 \notin DOMAIN f
        OBVIOUS
      <4> QED BY <1>4, <3>1, <4>1
    <3>2. CASE n # 0
      <4>1. n \in 1 .. MaxField
        BY <1>1, <3>2
      <4>2. j[n] = IF n \in DOMAIN f THEN j[n - 1] \o f[n] ELSE j[n - 1]
        BY <1>4, <4>1
      <4> QED BY <3>2, <4>2
    <3> QED BY <3>1, <3>2
  <2> QED BY <1>4, <2>1
<1>6. h = G(h)
  BY <1>5
<1>7. Joined(f) = h[MaxField]
  BY DEF Joined
<1>8. h[0] = <<>> /\ \A n \in 1 .. MaxField : h[n] = IF n \in DOMAIN f THEN h[n - 1] \o f[n] ELSE h[n - 1]
  <2> HIDE DEF h
  <2>1. 0 \in 0 .. MaxField /\ 0 \notin DOMAIN f
    BY <1>1
  <2>2. h[0] = <<>>
    BY <1>6, <2>1
  <2>3. ASSUME NEW n \in 1 .. MaxField PROVE h[n] = IF n \in DOMAIN f THEN h[n - 1] \o f[n] ELSE h[n - 1]
    <3>1. n \in 0 .. MaxField /\ n # 0
      BY <1>1
    <3> QED BY <1>6, <3>1
  <2> QED BY <2>2, <2>3
<1> HIDE DEF h
<1>9. \A n \in 0 .. MaxField : n \in {m \in 0 .. MaxField : h[m] = j[m]}
  <2> DEFINE D == {m \in 0 .. MaxField : h[m] = j[m]}
  <2>1. 0 \in D
    BY <1>1, <1>4, <1>8
  <2>2. ASSUME NEW i \in 1 .. MaxField, i - 1 \in D PROVE i \in D
    <3>1. i \in 0 .. MaxField /\ h[i - 1] = j[i - 1]
      BY <1>1, <2>2
    <3> QED BY <1>4, <1>8, <3>1
  <2> HIDE DEF D
  <2>3. \A i \in 0 .. MaxField : i \in D
    BY <1>1, <2>1, <2>2, UpTo
  <2> QED BY <2>3 DEF D
<1>10. h[MaxField] = j[MaxField]
  BY <1>1, <1>9
<1> QED BY <1>4, <1>7, <1>10 DEF IsJoined

\* All fields of a message are read, and nothing else.
LEMMA JoinedRead ==
  ASSUME NEW S, \A n \in S : n \in 1 .. MaxField, NEW f, DOMAIN f = S, NEW F,
         \A n \in S : f[n] \in Seq(Byte) /\ Fields(f[n]) = Is(<<F[n]>>)
  PROVE  /\ Joined(f) \in Seq(Byte)
         /\ \E l \in Seq({F[n] : n \in S}) : Fields(Joined(f)) = Is(l) /\ Lists(l, S, F)
<1>1. MaxField \in Nat
  BY DEF MaxField
<1>12. \A n \in DOMAIN f : n \in 1 .. MaxField /\ f[n] \in Seq(Byte)
  OBVIOUS
<1>13. PICK j : IsJoined(j, f)
  BY <1>12, JoinedIs
<1>2. /\ j \in [0 .. MaxField -> Seq(Byte)] /\ j[0] = <<>> /\ Joined(f) = j[MaxField]
      /\ \A n \in 1 .. MaxField : j[n] = IF n \in S THEN j[n - 1] \o f[n] ELSE j[n - 1]
  BY <1>13 DEF IsJoined
<1> DEFINE D == {k \in 0 .. MaxField : Read(j[k], S, F, k)}
<1>3. 0 \in D
  <2> DEFINE l == <<>>
  <2>1. l \in Seq({F[n] : n \in S}) /\ DOMAIN l = {}
    OBVIOUS
  <2>2. {n \in S : n <= 0} = {}
    <3> SUFFICES ASSUME NEW n \in S, n <= 0 PROVE FALSE
      OBVIOUS
    <3> QED OBVIOUS
  <2>3. Lists(l, {n \in S : n <= 0}, F)
    BY <2>1, <2>2 DEF Lists
  <2> HIDE DEF l
  <2>4. Fields(j[0]) = Is(l) /\ Fields(j[0]) # Fails
    BY <1>2, FieldsEmpty, IsSome DEF l
  <2>5. j[0] \in Seq(Byte) /\ 0 \in 0 .. MaxField
    BY <1>1, <1>2
  <2>6. Read(j[0], S, F, 0)
    BY <2>1, <2>3, <2>4, <2>5 DEF Read
  <2> QED BY <2>5, <2>6
<1>4. ASSUME NEW k \in 1 .. MaxField, k - 1 \in D PROVE k \in D
  <2>1. Read(j[k - 1], S, F, k - 1) /\ k \in 0 .. MaxField
    BY <1>1, <1>4
  <2>2. CASE k \in S
    <3>1. Read(j[k - 1] \o f[k], S, F, k)
      BY <2>1, <2>2, ReadMore
    <3> QED BY <1>2, <2>1, <2>2, <3>1
  <2>3. CASE k \notin S
    <3>0. ASSUME NEW n \in S PROVE n <= k <=> n <= k - 1
      BY <1>1, <2>3
    <3>1. {n \in S : n <= k} = {n \in S : n <= k - 1}
      BY <3>0
    <3>2. Read(j[k - 1], S, F, k)
      BY <2>1, <3>1 DEF Read
    <3> QED BY <1>2, <2>1, <2>3, <3>2
  <2> QED BY <2>2, <2>3
<1>5. MaxField \in D
  <2>1. \A k \in 0 .. MaxField : k \in D
    <3> HIDE DEF D
    <3> QED BY <1>1, <1>3, <1>4, UpTo
  <2> QED BY <1>1, <2>1
<1>6. {n \in S : n <= MaxField} = S
  <2>1. \A n \in S : n <= MaxField
    BY <1>1
  <2> QED BY <2>1
<1> QED BY <1>2, <1>5, <1>6 DEF Read

LEMMA Times == \A k, b \in Nat : k >= 1 => (k - 1) * b + b = k * b /\ (k - 1) * b \in Nat
OBVIOUS

\* Fields of numbers make a message whose length is an u64.
LEMMA JoinedShort ==
  ASSUME NEW S, \A n \in S : n \in 1 .. MaxField, NEW f, DOMAIN f = S,
         \A n \in S : f[n] \in Seq(Byte) /\ Len(f[n]) <= MaxGroups + 5
  PROVE  Len(Joined(f)) \in U64
<1> DEFINE B == MaxGroups + 5
<1>1. MaxField \in Nat /\ B \in Nat /\ MaxField * B < Word64 /\ Word64 \in Nat
  BY Widths, SizeAssumption DEF MaxField
<1>12. \A n \in DOMAIN f : n \in 1 .. MaxField /\ f[n] \in Seq(Byte)
  OBVIOUS
<1>13. PICK j : IsJoined(j, f)
  BY <1>12, JoinedIs
<1>2. /\ j \in [0 .. MaxField -> Seq(Byte)] /\ j[0] = <<>> /\ Joined(f) = j[MaxField]
      /\ \A n \in 1 .. MaxField : j[n] = IF n \in S THEN j[n - 1] \o f[n] ELSE j[n - 1]
  BY <1>13 DEF IsJoined
<1> DEFINE D == {k \in 0 .. MaxField : Len(j[k]) <= k * B}
<1>3. 0 \in D
  <2>1. Len(j[0]) = 0 /\ 0 * B = 0
    BY <1>1, <1>2
  <2> QED BY <1>1, <2>1
<1>4. ASSUME NEW k \in 1 .. MaxField, k - 1 \in D PROVE k \in D
  <2>1. k - 1 \in 0 .. MaxField /\ k \in 0 .. MaxField /\ Len(j[k - 1]) <= (k - 1) * B
    BY <1>1, <1>4
  <2>2. j[k - 1] \in Seq(Byte) /\ Len(j[k - 1]) \in Nat
    BY <1>2, <2>1, LenProperties
  <2>3. (k - 1) * B + B = k * B /\ (k - 1) * B \in Nat
    <3>1. k \in Nat /\ k >= 1 /\ B \in Nat
      BY <1>1
    <3> HIDE DEF B
    <3> QED BY <3>1, Times
  <2>4. CASE k \in S
    <3>1. Len(j[k - 1] \o f[k]) = Len(j[k - 1]) + Len(f[k]) /\ Len(f[k]) \in Nat
      BY <2>2, <2>4, ConcatProperties, LenProperties
    <3>2. Len(f[k]) <= B
      BY <2>4
    <3> HIDE DEF B
    <3> DEFINE c == k * B
               d == (k - 1) * B
    <3>3. c = d + B /\ d \in Nat /\ Len(j[k - 1]) <= d
      BY <2>1, <2>3
    <3> HIDE DEF c, d
    <3>4. Len(j[k - 1]) + Len(f[k]) <= c
      <4> DEFINE u == Len(j[k - 1])
                 w == Len(f[k])
      <4>1. u \in Nat /\ w \in Nat /\ B \in Nat /\ d \in Nat /\ c = d + B /\ u <= d /\ w <= B
        BY <1>1, <2>2, <3>1, <3>2, <3>3
      <4> HIDE DEF u, w
      <4>2. u + w <= c
        BY <4>1
      <4> QED BY <4>2 DEF u, w
    <3> QED BY <1>2, <2>1, <2>4, <3>1, <3>4 DEF c
  <2>5. CASE k \notin S
    <3> HIDE DEF B
    <3> DEFINE c == k * B
               d == (k - 1) * B
    <3>3. c = d + B /\ d \in Nat /\ Len(j[k - 1]) <= d
      BY <2>1, <2>3
    <3> HIDE DEF c, d
    <3>4. Len(j[k - 1]) <= c
      BY <1>1, <2>2, <3>3
    <3> QED BY <1>2, <2>1, <2>5, <3>4 DEF c
  <2> QED BY <2>4, <2>5
<1>5. MaxField \in D
  <2>1. \A k \in 0 .. MaxField : k \in D
    <3> HIDE DEF D
    <3> QED BY <1>1, <1>3, <1>4, UpTo
  <2> QED BY <1>1, <2>1
<1>6. Len(Joined(f)) <= MaxField * B /\ Len(Joined(f)) \in Nat
  <2>1. j[MaxField] \in Seq(Byte)
    BY <1>1, <1>2
  <2> QED BY <1>2, <1>5, <2>1, LenProperties
<1> QED BY <1>1, <1>6 DEF U64

-----------------------------------------------------------------------------
(* What a decoder makes of the fields it reads. *)

LEMMA MaxIs ==
  ASSUME NEW n \in Nat, NEW G, G \subseteq 1 .. n, G # {}
  PROVE  Max(G) \in G
<1> DEFINE D == {k \in 0 .. n : \/ \A x \in G : x > k
                               \/ \E x \in G : x <= k /\ \A y \in G : y <= k => x >= y}
<1>1. 0 \in D
  OBVIOUS
<1>2. ASSUME NEW k \in 1 .. n, k - 1 \in D PROVE k \in D
  <2>1. CASE k \in G
    <3>1. \A y \in G : y <= k => k >= y
      OBVIOUS
    <3> QED BY <2>1, <3>1
  <2>2. CASE k \notin G
    <3>1. \A x \in G : (x <= k <=> x <= k - 1) /\ (x > k <=> x > k - 1)
      BY <2>2
    <3> QED BY <1>2, <3>1
  <2> QED BY <2>1, <2>2
<1>3. n \in D
  <2>1. \A k \in 0 .. n : k \in D
    <3> HIDE DEF D
    <3> QED BY <1>1, <1>2, UpTo
  <2> QED BY <2>1
<1>4. \E x \in G : \A y \in G : x >= y
  <2>1. \A x \in G : x <= n /\ ~(x > n)
    OBVIOUS
  <2>2. \E x \in G : x <= n /\ \A y \in G : y <= n => x >= y
    BY <1>3, <2>1
  <2> QED BY <2>1, <2>2
<1> QED BY <1>4 DEF Max

\* The fields that are read tell the message, whatever else is among them.
LEMMA AssembledIs ==
  ASSUME NEW schema, NEW default, NEW m, NEW V, NEW l \in Seq(V), NEW values,
         m = [name \in DOMAIN default |-> m[name]],
         DOMAIN values = Known(schema, l),
         \A i \in Known(schema, l) : values[i] = Is(m[schema[l[i].field].name]),
         \A name \in DOMAIN default :
            \/ m[name] = default[name]
            \/ \E i \in Known(schema, l) : schema[l[i].field].name = name
  PROVE  Assembled(schema, default, l, values) = Is(m)
<1> DEFINE Given(name) == {i \in DOMAIN values : schema[l[i].field].name = name}
<1>1. ~ \E i \in DOMAIN values : values[i] = Fails
  BY IsSome
<1>2. Assembled(schema, default, l, values) =
        Is([name \in DOMAIN default |->
              IF Given(name) = {} THEN default[name] ELSE values[Max(Given(name))][1]])
  BY <1>1 DEF Assembled
<1>3. ASSUME NEW name \in DOMAIN default
      PROVE  (IF Given(name) = {} THEN default[name] ELSE values[Max(Given(name))][1]) = m[name]
  <2>1. CASE Given(name) = {}
    BY <2>1
  <2>2. CASE Given(name) # {}
    <3>1. Given(name) \subseteq 1 .. Len(l) /\ Len(l) \in Nat
      BY LenProperties DEF Known
    <3>2. Max(Given(name)) \in Given(name)
      <4> DEFINE G == Given(name)
      <4>1. G \subseteq 1 .. Len(l) /\ G # {}
        BY <2>2, <3>1
      <4> HIDE DEF G
      <4>2. Max(G) \in G
        BY <3>1, <4>1, MaxIs
      <4> QED BY <4>2 DEF G
    <3> DEFINE i == Max(Given(name))
    <3>3. i \in DOMAIN values /\ schema[l[i].field].name = name
      BY <3>2
    <3> HIDE DEF i
    <3>4. values[i][1] = m[name]
      BY <3>3, IsSome
    <3> QED BY <2>2, <3>4 DEF i
  <2> QED BY <2>1, <2>2
<1> HIDE DEF Given
<1>4. [name \in DOMAIN default |->
              IF Given(name) = {} THEN default[name] ELSE values[Max(Given(name))][1]]
      = [name \in DOMAIN default |-> m[name]]
  BY <1>3
<1> QED BY <1>2, <1>4

-----------------------------------------------------------------------------
(* Schemas. *)

ScalarKinds == {"u32", "i32", "u64", "bool", "float", "text"}

\* Field numbers are small, and no two fields are the same part.
IsSchema(schema) ==
    /\ \A n \in DOMAIN schema : n \in 1 .. MaxField /\ schema[n].kind \in ScalarKinds \cup {"audio", "vad"}
    /\ \A n1, n2 \in DOMAIN schema : schema[n1].name = schema[n2].name => n1 = n2

LEMMA SchemaBy ==
  ASSUME NEW schema, NEW number,
         \A n \in DOMAIN schema : /\ n \in 1 .. MaxField
                                  /\ schema[n].kind \in ScalarKinds \cup {"audio", "vad"}
                                  /\ number[schema[n].name] = n
  PROVE  IsSchema(schema)
<1>1. ASSUME NEW n1 \in DOMAIN schema, NEW n2 \in DOMAIN schema, schema[n1].name = schema[n2].name
      PROVE  n1 = n2
  <2>1. number[schema[n1].name] = n1 /\ number[schema[n2].name] = n2
    OBVIOUS
  <2> QED BY <1>1, <2>1
<1> QED BY <1>1 DEF IsSchema

LEMMA AudioIsSchema ==
  /\ IsSchema(AudioSchema) /\ DOMAIN AudioSchema = 1 .. 3
  /\ \A n \in DOMAIN AudioSchema : AudioSchema[n].kind \in {"u32", "i32"}
<1> DEFINE number == [sample_rate |-> 1, channels |-> 2, sample_format |-> 3]
<1>1. DOMAIN AudioSchema = 1 .. 3
  BY DEF AudioSchema
<1>2. AudioSchema[1] = Part("u32", "sample_rate") /\ AudioSchema[2] = Part("u32", "channels")
      /\ AudioSchema[3] = Part("i32", "sample_format")
  BY DEF AudioSchema
<1>3. \A n \in DOMAIN AudioSchema : /\ n \in 1 .. MaxField
                                    /\ AudioSchema[n].kind \in {"u32", "i32"}
                                    /\ number[AudioSchema[n].name] = n
  BY <1>1, <1>2 DEF Part, MaxField
<1>4. IsSchema(AudioSchema)
  <2> HIDE DEF number
  <2>1. \A n \in DOMAIN AudioSchema : AudioSchema[n].kind \in ScalarKinds \cup {"audio", "vad"}
    BY <1>3 DEF ScalarKinds
  <2> QED BY <1>3, <2>1, SchemaBy
<1> QED BY <1>1, <1>3, <1>4

LEMMA VadIsSchema ==
  /\ IsSchema(VadSchema) /\ DOMAIN VadSchema = 1 .. 5
  /\ \A n \in DOMAIN VadSchema : VadSchema[n].kind \in {"float", "u32", "u64"}
<1> DEFINE number == [threshold |-> 1, min_speech_ms |-> 2, min_silence_ms |-> 3, speech_pad_ms |-> 4,
                      window_samples |-> 5]
<1>1. DOMAIN VadSchema = 1 .. 5
  BY DEF VadSchema
<1>2. VadSchema[1] = Part("float", "threshold") /\ VadSchema[2] = Part("u32", "min_speech_ms")
      /\ VadSchema[3] = Part("u32", "min_silence_ms") /\ VadSchema[4] = Part("u32", "speech_pad_ms")
      /\ VadSchema[5] = Part("u64", "window_samples")
  BY DEF VadSchema
<1>3. \A n \in DOMAIN VadSchema : /\ n \in 1 .. MaxField
                                  /\ VadSchema[n].kind \in {"float", "u32", "u64"}
                                  /\ number[VadSchema[n].name] = n
  BY <1>1, <1>2 DEF Part, MaxField
<1>4. IsSchema(VadSchema)
  <2> HIDE DEF number
  <2>1. \A n \in DOMAIN VadSchema : VadSchema[n].kind \in ScalarKinds \cup {"audio", "vad"}
    BY <1>3 DEF ScalarKinds
  <2> QED BY <1>3, <2>1, SchemaBy
<1> QED BY <1>1, <1>3, <1>4

LEMMA HelloIsSchema ==
  /\ IsSchema(HelloSchema) /\ DOMAIN HelloSchema = 1 .. 11 \ {2}
  /\ Names(HelloSchema) = {"model", "lang", "task", "max_new_tokens", "beam_size", "notimestamps",
                           "suppress_tokens", "audio_format", "vad", "client_id"}
  /\ HelloSchema[1] = Part("text", "model") /\ HelloSchema[6] = Part("u64", "beam_size")
<1> DEFINE number == [model |-> 1, lang |-> 3, task |-> 4, max_new_tokens |-> 5, beam_size |-> 6,
                      notimestamps |-> 7, suppress_tokens |-> 8, audio_format |-> 9, vad |-> 10,
                      client_id |-> 11]
<1>1. DOMAIN HelloSchema = 1 .. 11 \ {2}
  BY DEF HelloSchema
<1>2. HelloSchema[1] = Part("text", "model") /\ HelloSchema[3] = Part("text", "lang")
      /\ HelloSchema[4] = Part("text", "task") /\ HelloSchema[5] = Part("u64", "max_new_tokens")
      /\ HelloSchema[6] = Part("u64", "beam_size") /\ HelloSchema[7] = Part("bool", "notimestamps")
      /\ HelloSchema[8] = Part("text", "suppress_tokens")
      /\ HelloSchema[9] = Part("audio", "audio_format") /\ HelloSchema[10] = Part("vad", "vad")
      /\ HelloSchema[11] = Part("text", "client_id")
  BY DEF HelloSchema
<1>3. DOMAIN HelloSchema = {1, 3, 4, 5, 6, 7, 8, 9, 10, 11}
  BY <1>1
<1>4. ASSUME NEW n \in DOMAIN HelloSchema
      PROVE  /\ n \in 1 .. MaxField
             /\ HelloSchema[n].kind \in ScalarKinds \cup {"audio", "vad"}
             /\ number[HelloSchema[n].name] = n
  <2>1. n \in 1 .. MaxField
    BY <1>3 DEF MaxField
  <2>2. HelloSchema[n].kind \in ScalarKinds \cup {"audio", "vad"}
    BY <1>2, <1>3 DEF Part, ScalarKinds
  <2>3. number[HelloSchema[n].name] = n
    BY <1>2, <1>3 DEF Part
  <2> QED BY <2>1, <2>2, <2>3
<1>5. IsSchema(HelloSchema)
  <2> HIDE DEF number
  <2> QED BY <1>4, SchemaBy
<1>6. Names(HelloSchema) = {"model", "lang", "task", "max_new_tokens", "beam_size", "notimestamps",
                            "suppress_tokens", "audio_format", "vad", "client_id"}
  <2> DEFINE N == {"model", "lang", "task", "max_new_tokens", "beam_size", "notimestamps",
                   "suppress_tokens", "audio_format", "vad", "client_id"}
  <2>1. \A n \in DOMAIN HelloSchema : HelloSchema[n].name \in N
    BY <1>2, <1>3 DEF Part
  <2>2. ASSUME NEW name \in N PROVE \E n \in DOMAIN HelloSchema : HelloSchema[n].name = name
    <3>1. number[name] \in DOMAIN HelloSchema /\ HelloSchema[number[name]].name = name
      BY <1>2, <1>3 DEF Part
    <3> QED BY <3>1
  <2> HIDE DEF N
  <2>3. Names(HelloSchema) = N
    BY <2>1, <2>2 DEF Names
  <2> QED BY <2>3 DEF N
<1> QED BY <1>1, <1>2, <1>5, <1>6

LEMMA ResponseIsSchema ==
  /\ DOMAIN ResponseSchemas = 1 .. 7 /\ DOMAIN ResponseKinds = 1 .. 7
  /\ \A t \in 1 .. 7 : IsSchema(ResponseSchemas[t])
  /\ \A t, u \in 1 .. 7 : ResponseKinds[t] = ResponseKinds[u] => t = u
<1>1. DOMAIN ResponseSchemas = 1 .. 7 /\ DOMAIN ResponseKinds = 1 .. 7
  BY DEF ResponseSchemas, ResponseKinds
<1>2. \A t, u \in 1 .. 7 : ResponseKinds[t] = ResponseKinds[u] => t = u
  <2> DEFINE tag == [server_hello |-> 1, segment |-> 2, done |-> 3, error |-> 4, cancelled |-> 5,
                     back_off |-> 6, speech |-> 7]
  <2>1. \A t \in 1 .. 7 : tag[ResponseKinds[t]] = t
    BY DEF ResponseKinds
  <2> HIDE DEF tag
  <2> QED BY <2>1
<1>3. IsSchema(ResponseSchemas[1])
  <2> DEFINE s == ResponseSchemas[1]
             number == [audio_format |-> 1, ring_capacity_bytes |-> 2, ring_header_bytes |-> 3]
  <2>1. DOMAIN s = {1, 2, 3} /\ s[1] = Part("audio", "audio_format")
        /\ s[2] = Part("u64", "ring_capacity_bytes") /\ s[3] = Part("u32", "ring_header_bytes")
    BY DEF ResponseSchemas
  <2> HIDE DEF s
  <2>2. \A n \in DOMAIN s : /\ n \in 1 .. MaxField
                            /\ s[n].kind \in ScalarKinds \cup {"audio", "vad"}
                            /\ number[s[n].name] = n
    BY <2>1 DEF Part, MaxField, ScalarKinds
  <2> HIDE DEF number
  <2>3. IsSchema(s)
    BY <2>2, SchemaBy
  <2> QED BY <2>3 DEF s
<1>4. IsSchema(ResponseSchemas[2])
  <2> DEFINE s == ResponseSchemas[2]
             number == [text |-> 1, begin |-> 2, end |-> 3]
  <2>1. DOMAIN s = {1, 2, 3} /\ s[1] = Part("text", "text")
        /\ s[2] = Part("float", "begin") /\ s[3] = Part("float", "end")
    BY DEF ResponseSchemas
  <2> HIDE DEF s
  <2>2. \A n \in DOMAIN s : /\ n \in 1 .. MaxField
                            /\ s[n].kind \in ScalarKinds \cup {"audio", "vad"}
                            /\ number[s[n].name] = n
    BY <2>1 DEF Part, MaxField, ScalarKinds
  <2> HIDE DEF number
  <2>3. IsSchema(s)
    BY <2>2, SchemaBy
  <2> QED BY <2>3 DEF s
<1>5. IsSchema(ResponseSchemas[3])
  <2> DEFINE s == ResponseSchemas[3]
             number == [audio_s |-> 1, rtf |-> 2]
  <2>1. DOMAIN s = {1, 2} /\ s[1] = Part("float", "audio_s") /\ s[2] = Part("float", "rtf")
    BY DEF ResponseSchemas
  <2> HIDE DEF s
  <2>2. \A n \in DOMAIN s : /\ n \in 1 .. MaxField
                            /\ s[n].kind \in ScalarKinds \cup {"audio", "vad"}
                            /\ number[s[n].name] = n
    BY <2>1 DEF Part, MaxField, ScalarKinds
  <2> HIDE DEF number
  <2>3. IsSchema(s)
    BY <2>2, SchemaBy
  <2> QED BY <2>3 DEF s
<1>6. IsSchema(ResponseSchemas[4])
  <2> DEFINE s == ResponseSchemas[4]
             number == [error |-> 1]
  <2>1. DOMAIN s = {1} /\ s[1] = Part("text", "error")
    BY DEF ResponseSchemas
  <2> HIDE DEF s
  <2>2. \A n \in DOMAIN s : /\ n \in 1 .. MaxField
                            /\ s[n].kind \in ScalarKinds \cup {"audio", "vad"}
                            /\ number[s[n].name] = n
    BY <2>1 DEF Part, MaxField, ScalarKinds
  <2> HIDE DEF number
  <2>3. IsSchema(s)
    BY <2>2, SchemaBy
  <2> QED BY <2>3 DEF s
<1>7. IsSchema(ResponseSchemas[5])
  <2> DEFINE s == ResponseSchemas[5]
             number == [audio_s |-> 1, rtf |-> 2, windows_dispatched |-> 3, windows_completed |-> 4]
  <2>1. DOMAIN s = {1, 2, 3, 4} /\ s[1] = Part("float", "audio_s") /\ s[2] = Part("float", "rtf")
        /\ s[3] = Part("u64", "windows_dispatched") /\ s[4] = Part("u64", "windows_completed")
    BY DEF ResponseSchemas
  <2> HIDE DEF s
  <2>2. \A n \in DOMAIN s : /\ n \in 1 .. MaxField
                            /\ s[n].kind \in ScalarKinds \cup {"audio", "vad"}
                            /\ number[s[n].name] = n
    BY <2>1 DEF Part, MaxField, ScalarKinds
  <2> HIDE DEF number
  <2>3. IsSchema(s)
    BY <2>2, SchemaBy
  <2> QED BY <2>3 DEF s
<1>8. IsSchema(ResponseSchemas[6])
  <2> DEFINE s == ResponseSchemas[6]
             number == [reason |-> 1, retry_after_ms |-> 2]
  <2>1. DOMAIN s = {1, 2} /\ s[1] = Part("text", "reason") /\ s[2] = Part("u32", "retry_after_ms")
    BY DEF ResponseSchemas
  <2> HIDE DEF s
  <2>2. \A n \in DOMAIN s : /\ n \in 1 .. MaxField
                            /\ s[n].kind \in ScalarKinds \cup {"audio", "vad"}
                            /\ number[s[n].name] = n
    BY <2>1 DEF Part, MaxField, ScalarKinds
  <2> HIDE DEF number
  <2>3. IsSchema(s)
    BY <2>2, SchemaBy
  <2> QED BY <2>3 DEF s
<1>9. IsSchema(ResponseSchemas[7])
  <2> DEFINE s == ResponseSchemas[7]
             number == [type |-> 1, timestamp |-> 2]
  <2>1. DOMAIN s = {1, 2} /\ s[1] = Part("u64", "type") /\ s[2] = Part("float", "timestamp")
    BY DEF ResponseSchemas
  <2> HIDE DEF s
  <2>2. \A n \in DOMAIN s : /\ n \in 1 .. MaxField
                            /\ s[n].kind \in ScalarKinds \cup {"audio", "vad"}
                            /\ number[s[n].name] = n
    BY <2>1 DEF Part, MaxField, ScalarKinds
  <2> HIDE DEF number
  <2>3. IsSchema(s)
    BY <2>2, SchemaBy
  <2> QED BY <2>3 DEF s
<1>10. ASSUME NEW t \in 1 .. 7 PROVE IsSchema(ResponseSchemas[t])
  <2>1. t \in {1, 2, 3, 4, 5, 6, 7}
    OBVIOUS
  <2> QED BY <1>3, <1>4, <1>5, <1>6, <1>7, <1>8, <1>9, <2>1
<1> QED BY <1>1, <1>2, <1>10

-----------------------------------------------------------------------------
(* Numbers, texts and floats. *)

\* What a part of a message is in its field.
Content(kind, v) ==
    CASE kind = "bool"  -> IF v THEN 1 ELSE 0
      [] kind = "i32"   -> AsU64(v)
      [] kind = "audio" -> EncodeAudioFormat(v)
      [] kind = "vad"   -> EncodeVadOptions(v)
      [] OTHER          -> v

LEMMA NumberFits == (\A v \in U32 : AsU32(v) = v) /\ U32 \subseteq U64 /\ {0, 1} \subseteq U64
<1>1. \A v \in U32 : v \in Nat /\ v < Word32
  BY Widths DEF U32
<1>2. ASSUME NEW v \in U32 PROVE AsU32(v) = v
  <2>1. v \in Nat /\ v < Word32 /\ Word32 \in Nat
    BY <1>1, Widths
  <2>2. v % Word32 = v
    BY <2>1
  <2> QED BY <2>2 DEF AsU32
<1>3. 0 \in 0 .. 127 /\ 1 \in 0 .. 127
  OBVIOUS
<1> QED BY <1>2, <1>3, Widths

\* The remainder is the only one.
LEMMA RemainderIs ==
  ASSUME NEW w \in Nat, NEW q \in Int, NEW r \in 0 .. w - 1, NEW x \in Int, x = w * q + r
  PROVE  x % w = r
<1>1. w > 0 /\ r \in Int /\ r >= 0 /\ r < w
  OBVIOUS
<1> DEFINE p == x \div w
           s == x % w
<1>2. p \in Int /\ s \in Int /\ 0 <= s /\ s < w /\ x = w * p + s
  BY <1>1
<1> HIDE DEF p, s
<1>3. w * (p - q) = r - s
  BY <1>1, <1>2
<1>4. CASE p - q >= 1
  <2>1. w * (p - q) >= w
    BY <1>1, <1>2, <1>4
  <2> QED BY <1>1, <1>2, <1>3, <2>1
<1>5. CASE p - q <= -1
  <2>1. w * (p - q) <= -w
    BY <1>1, <1>2, <1>5
  <2> QED BY <1>1, <1>2, <1>3, <2>1
<1>6. CASE p - q = 0
  <2>1. w * (p - q) = 0
    BY <1>1, <1>6
  <2> QED BY <1>1, <1>2, <1>3, <2>1 DEF s
<1>7. p - q >= 1 \/ p - q <= -1 \/ p - q = 0
  BY <1>2
<1> QED BY <1>4, <1>5, <1>6, <1>7

\* An i32 comes back from the u64 it is extended to.
LEMMA SignedFits == \A v \in I32 : AsU64(v) \in U64 /\ AsI32(AsU64(v)) = v
<1> SUFFICES ASSUME NEW v \in I32 PROVE AsU64(v) \in U64 /\ AsI32(AsU64(v)) = v
  OBVIOUS
<1> DEFINE h == Word32 \div 2
           k == Word64 \div Word32
           u == v % Word64
<1>1. /\ Word32 \in Nat /\ Word64 \in Nat /\ Word32 >= 16 /\ Word32 <= Word64
      /\ Word64 % Word32 = 0
  BY Widths
<1>2. h \in Nat /\ 2 * h <= Word32 /\ h < Word32
  BY <1>1
<1>3. k \in Int /\ Word64 = Word32 * k
  BY <1>1
<1>4. v \in Int /\ -h <= v /\ v < h
  BY <1>1 DEF I32
<1>5. AsU64(v) = u /\ AsU32(u) = u % Word32
      /\ AsI32(u) = AsU32(u) - IF AsU32(u) < h THEN 0 ELSE Word32
  BY DEF AsU64, AsU32, AsI32
<1>6. CASE v >= 0
  <2>1. v \in 0 .. Word64 - 1 /\ v = Word64 * 0 + v
    BY <1>1, <1>2, <1>4, <1>6
  <2>2. u = v
    BY <1>1, <1>4, <2>1, RemainderIs
  <2>3. v \in 0 .. Word32 - 1 /\ v = Word32 * 0 + v
    BY <1>1, <1>2, <1>4, <1>6
  <2>4. u % Word32 = v
    BY <1>1, <1>4, <2>2, <2>3, RemainderIs
  <2> HIDE DEF h, u
  <2> QED BY <1>4, <1>5, <2>1, <2>2, <2>4 DEF U64
<1>7. CASE v < 0
  <2> DEFINE r == v + Word32
             l == v + Word64
  <2>1. /\ r \in 0 .. Word32 - 1 /\ l \in 0 .. Word64 - 1 /\ ~(r < h) /\ r - Word32 = v
        /\ r \in Int /\ l \in Int
    BY <1>1, <1>2, <1>4, <1>7
  <2>2. v = Word64 * (-1) + l
    BY <1>1, <1>4
  <2>3. u = l
    BY <1>1, <1>4, <2>1, <2>2, RemainderIs
  <2>4. l = Word32 * (k - 1) + r
    <3> HIDE DEF k
    <3>1. Word32 * (k - 1) = Word32 * k - Word32
      BY <1>1, <1>3
    <3> QED BY <1>1, <1>3, <1>4, <3>1
  <2>5. k - 1 \in Int
    BY <1>3
  <2> DEFINE q == k - 1
  <2>6. q \in Int /\ l = Word32 * q + r /\ r \in 0 .. Word32 - 1 /\ Word32 \in Nat \ {0}
    BY <1>1, <2>1, <2>4, <2>5
  <2> HIDE DEF h, k, u, r, l, q
  <2>7. l % Word32 = r
    BY <2>6, RemainderIs
  <2> QED BY <1>5, <2>1, <2>3, <2>7 DEF U64
<1> QED BY <1>4, <1>6, <1>7

LEMMA TextIsBytes ==
  ASSUME NEW v \in Seq(0 .. 127)
  PROVE  v \in Seq(Byte) /\ IsUtf8(v)
<1>1. Len(v) \in Nat /\ DOMAIN v = 1 .. Len(v) /\ v \in [1 .. Len(v) -> 0 .. 127]
  BY LenProperties
<1>2. \A i \in 1 .. Len(v) : v[i] \in 0 .. 127
  BY <1>1
<1>3. \A i \in 1 .. Len(v) : v[i] \in Byte /\ v[i] < 128
  <2>1. \A b \in 0 .. 127 : b \in Byte /\ b < 128
    BY DEF Byte
  <2> QED BY <1>2, <2>1
<1>4. v \in [1 .. Len(v) -> Byte]
  BY <1>1, <1>3
<1> QED BY <1>1, <1>3, <1>4, SeqDef DEF IsUtf8

LEMMA FloatIsBytes ==
  ASSUME NEW v \in [1 .. 4 -> Byte]
  PROVE  v \in Seq(Byte) /\ Len(v) = 4
<1>1. v \in Seq(Byte)
  BY SeqDef
<1>2. Len(v) \in Nat /\ DOMAIN v = 1 .. Len(v) /\ DOMAIN v = 1 .. 4
  BY <1>1, LenProperties
<1>3. Len(v) >= 4
  <2>1. 4 \in 1 .. Len(v)
    BY <1>2
  <2> QED BY <1>2, <2>1
<1>4. Len(v) <= 4
  <2> DEFINE n == Len(v)
  <2>1. n \in 1 .. 4
    BY <1>2, <1>3
  <2> HIDE DEF n
  <2>2. n <= 4
    BY <2>1
  <2> QED BY <2>2 DEF n
<1> QED BY <1>1, <1>2, <1>3, <1>4

LEMMA ScalarIs ==
  ASSUME NEW n \in 1 .. MaxField, NEW kind \in ScalarKinds, NEW v, IsScalar(kind, v)
  PROVE  /\ Scalar(n, kind, v) \in Seq(Byte)
         /\ Fields(Scalar(n, kind, v)) = Is(<<Field(n, Wire(kind), Content(kind, v))>>)
         /\ kind # "text" => Len(Scalar(n, kind, v)) <= MaxGroups + 5
         /\ ScalarValue(kind, Content(kind, v)) = Is(v)
<1>1. n \in FieldNumbers
  BY DEF MaxField, FieldNumbers
<1>2. MaxGroups \in Nat
  BY Widths
<1>3. CASE kind = "u32"
  <2>1. v \in U32 /\ v \in U64 /\ AsU32(v) = v
    BY <1>3, NumberFits DEF IsScalar
  <2>2. Scalar(n, kind, v) = FieldVarint(n, v) /\ Content(kind, v) = v /\ Wire(kind) = 0
        /\ ScalarValue(kind, v) = Is(AsU32(v))
    BY <1>3 DEF Scalar, Content, Wire, ScalarValue
  <2>3. FieldVarint(n, v) \in Seq(Byte) /\ Len(FieldVarint(n, v)) <= 1 + MaxGroups
         /\ Fields(FieldVarint(n, v)) = Is(<<Field(n, 0, v)>>)
    BY <1>1, <2>1, VarintFieldIs
  <2>4. Len(FieldVarint(n, v)) <= MaxGroups + 5
    BY <1>2, <2>3, LenProperties
  <2> QED BY <2>1, <2>2, <2>3, <2>4
<1>8. CASE kind = "i32"
  <2> DEFINE u == AsU64(v)
  <2>1. u \in U64 /\ AsI32(u) = v
    BY <1>8, SignedFits DEF IsScalar
  <2>2. Scalar(n, kind, v) = FieldVarint(n, u) /\ Content(kind, v) = u /\ Wire(kind) = 0
        /\ ScalarValue(kind, u) = Is(AsI32(u))
    BY <1>8 DEF Scalar, Content, Wire, ScalarValue
  <2> HIDE DEF u
  <2>3. FieldVarint(n, u) \in Seq(Byte) /\ Len(FieldVarint(n, u)) <= 1 + MaxGroups
         /\ Fields(FieldVarint(n, u)) = Is(<<Field(n, 0, u)>>)
    BY <1>1, <2>1, VarintFieldIs
  <2>4. Len(FieldVarint(n, u)) <= MaxGroups + 5
    BY <1>2, <2>3, LenProperties
  <2> QED BY <2>1, <2>2, <2>3, <2>4, <1>8
<1>4. CASE kind = "u64"
  <2>1. v \in U64
    BY <1>4 DEF IsScalar
  <2>2. Scalar(n, kind, v) = FieldVarint(n, v) /\ Content(kind, v) = v /\ Wire(kind) = 0
        /\ ScalarValue(kind, v) = Is(v)
    BY <1>4 DEF Scalar, Content, Wire, ScalarValue
  <2>3. FieldVarint(n, v) \in Seq(Byte) /\ Len(FieldVarint(n, v)) <= 1 + MaxGroups
         /\ Fields(FieldVarint(n, v)) = Is(<<Field(n, 0, v)>>)
    BY <1>1, <2>1, VarintFieldIs
  <2>4. Len(FieldVarint(n, v)) <= MaxGroups + 5
    BY <1>2, <2>3, LenProperties
  <2> QED BY <2>1, <2>2, <2>3, <2>4
<1>5. CASE kind = "bool"
  <2> DEFINE b == IF v THEN 1 ELSE 0
  <2>1. v \in BOOLEAN
    BY <1>5 DEF IsScalar
  <2>2. b \in U64 /\ (b # 0) = v
    BY <2>1, NumberFits
  <2>3. Scalar(n, kind, v) = FieldVarint(n, b) /\ Content(kind, v) = b /\ Wire(kind) = 0
    BY <1>5 DEF Scalar, Content, Wire
  <2> HIDE DEF b
  <2>4. FieldVarint(n, b) \in Seq(Byte) /\ Len(FieldVarint(n, b)) <= 1 + MaxGroups
         /\ Fields(FieldVarint(n, b)) = Is(<<Field(n, 0, b)>>)
    BY <1>1, <2>2, VarintFieldIs
  <2>5. Len(FieldVarint(n, b)) <= MaxGroups + 5
    BY <1>2, <2>4, LenProperties
  <2>6. ScalarValue(kind, b) = Is(b # 0)
    BY <1>5 DEF ScalarValue
  <2> QED BY <2>2, <2>3, <2>4, <2>5, <2>6
<1>6. CASE kind = "float"
  <2>1. v \in Seq(Byte) /\ Len(v) = 4
    BY <1>6, FloatIsBytes DEF IsScalar
  <2>2. Scalar(n, kind, v) = FieldFixed32(n, v) /\ Content(kind, v) = v /\ Wire(kind) = 5
        /\ ScalarValue(kind, v) = Is(v)
    BY <1>6 DEF Scalar, Content, Wire, ScalarValue
  <2>3. FieldFixed32(n, v) \in Seq(Byte) /\ Len(FieldFixed32(n, v)) = 5
         /\ Fields(FieldFixed32(n, v)) = Is(<<Field(n, 5, v)>>)
    BY <1>1, <2>1, FixedFieldIs
  <2>4. Len(FieldFixed32(n, v)) <= MaxGroups + 5
    BY <1>2, <2>3
  <2> QED BY <2>1, <2>2, <2>3, <2>4
<1>7. CASE kind = "text"
  <2>1. v \in Seq(Byte) /\ IsUtf8(v) /\ Len(v) \in U64
    BY <1>7, TextIsBytes DEF IsScalar
  <2>2. Scalar(n, kind, v) = FieldMessage(n, v) /\ Content(kind, v) = v /\ Wire(kind) = 2
        /\ ScalarValue(kind, v) = Is(v)
    BY <1>7, <2>1 DEF Scalar, Content, Wire, ScalarValue
  <2>3. FieldMessage(n, v) \in Seq(Byte)
         /\ Fields(FieldMessage(n, v)) = Is(<<Field(n, 2, v)>>)
    BY <1>1, <2>1, MessageFieldIs
  <2> QED BY <1>7, <2>1, <2>2, <2>3
<1> QED BY <1>3, <1>4, <1>5, <1>6, <1>7, <1>8 DEF ScalarKinds

-----------------------------------------------------------------------------
(* Structs. *)

LEMMA PartsOfField ==
  \A n, w, v : Field(n, w, v).field = n /\ Field(n, w, v).wire = w /\ Field(n, w, v).value = v
BY DEF Field

LEMMA AudioRoundTrip ==
  ASSUME NEW format, IsAudioFormat(format)
  PROVE  /\ EncodeAudioFormat(format) \in Seq(Byte) /\ Len(EncodeAudioFormat(format)) \in U64
         /\ DecodeAudioFormat(EncodeAudioFormat(format)) = Is(format)
<1> DEFINE S == DOMAIN AudioSchema
           Name(n) == AudioSchema[n].name
           f == [n \in S |-> Scalar(n, AudioSchema[n].kind, format[AudioSchema[n].name])]
           b == EncodeAudioFormat(format)
<1>15. PICK F : \A n \in S : F[n] = Field(n, 0, Content(AudioSchema[n].kind, format[Name(n)]))
  <2>1. \A n \in S : [k \in S |-> Field(k, 0, Content(AudioSchema[k].kind, format[Name(k)]))][n]
                       = Field(n, 0, Content(AudioSchema[n].kind, format[Name(n)]))
    OBVIOUS
  <2> QED BY <2>1
<1>1. S \subseteq 1 .. MaxField /\ (\A n \in S : n \in 1 .. MaxField)
  BY AudioIsSchema DEF MaxField
<1>2. ASSUME NEW n \in S
      PROVE  /\ ScalarValue(AudioSchema[n].kind, Content(AudioSchema[n].kind, format[Name(n)]))
                    = Is(format[Name(n)])
             /\ f[n] \in Seq(Byte) /\ Fields(f[n]) = Is(<<F[n]>>) /\ Len(f[n]) <= MaxGroups + 5
  <2> DEFINE v == format[Name(n)]
             k == AudioSchema[n].kind
  <2>1. k \in {"u32", "i32"} /\ IsScalar(k, v)
    BY AudioIsSchema DEF IsAudioFormat
  <2>3. Wire(k) = 0 /\ k # "text" /\ k \in ScalarKinds
    BY <2>1 DEF Wire, ScalarKinds
  <2>4. f[n] = Scalar(n, k, v) /\ F[n] = Field(n, 0, Content(k, v))
    BY <1>15
  <2> HIDE DEF v, k
  <2>5. Scalar(n, k, v) \in Seq(Byte) /\ Fields(Scalar(n, k, v)) = Is(<<Field(n, Wire(k), Content(k, v))>>)
        /\ Len(Scalar(n, k, v)) <= MaxGroups + 5 /\ ScalarValue(k, Content(k, v)) = Is(v)
    BY <1>1, <2>1, <2>3, ScalarIs, ZenonT(40)
  <2> QED BY <2>3, <2>4, <2>5 DEF v, k
<1>3. b = Joined(f)
  BY DEF EncodeAudioFormat
<1>4. DOMAIN f = S
      /\ \A n \in S : F[n] = Field(n, 0, Content(AudioSchema[n].kind, format[Name(n)]))
  BY <1>15
<1> HIDE DEF f, b
<1>5. Joined(f) \in Seq(Byte) /\ Len(Joined(f)) \in U64
      /\ \E l \in Seq({F[n] : n \in S}) : Fields(Joined(f)) = Is(l) /\ Lists(l, S, F)
  <2> HIDE DEF S
  <2> QED BY <1>1, <1>2, <1>4, JoinedRead, JoinedShort
<1>6. PICK l \in Seq({F[n] : n \in S}) : Fields(Joined(f)) = Is(l) /\ Lists(l, S, F)
  BY <1>5
<1>7. l \in Seq({F[n] : n \in S}) /\ Fields(b) = Is(l) /\ Lists(l, S, F)
  BY <1>3, <1>6
<1> DEFINE values == [i \in Known(AudioSchema, l) |->
                          ScalarValue(AudioSchema[l[i].field].kind, l[i].value)]
<1>8. DecodeAudioFormat(b) = Assembled(AudioSchema, NoFormat, l, values)
  BY <1>7, IsSome DEF DecodeAudioFormat
<1>9. ASSUME NEW i \in Known(AudioSchema, l)
      PROVE  values[i] = Is(format[AudioSchema[l[i].field].name])
  <2>1. i \in DOMAIN l
    BY DEF Known
  <2>2. PICK n \in S : l[i] = F[n]
    BY <1>7, <2>1 DEF Lists
  <2>3. l[i].field = n /\ l[i].value = Content(AudioSchema[n].kind, format[Name(n)])
    BY <1>4, <2>2, PartsOfField
  <2>4. ScalarValue(AudioSchema[n].kind, l[i].value) = Is(format[Name(n)])
    BY <1>2, <2>3
  <2> QED BY <2>3, <2>4
<1>10. DOMAIN NoFormat = Names(AudioSchema)
  <2>1. DOMAIN NoFormat = {"sample_rate", "channels", "sample_format"}
    BY DEF NoFormat
  <2>2. AudioSchema[1].name = "sample_rate" /\ AudioSchema[2].name = "channels"
        /\ AudioSchema[3].name = "sample_format" /\ S = {1, 2, 3}
    BY DEF AudioSchema, Part
  <2> QED BY <2>1, <2>2 DEF Names
<1>11. \A name \in DOMAIN NoFormat : \E i \in Known(AudioSchema, l) : AudioSchema[l[i].field].name = name
  <2> SUFFICES ASSUME NEW name \in Names(AudioSchema)
               PROVE  \E i \in Known(AudioSchema, l) : AudioSchema[l[i].field].name = name
    BY <1>10
  <2>1. PICK n \in S : AudioSchema[n].name = name
    BY DEF Names
  <2>2. PICK i \in DOMAIN l : l[i] = F[n]
    BY <1>7 DEF Lists
  <2>3. l[i].field = n /\ l[i].wire = 0
    BY <1>4, <2>2, PartsOfField
  <2>4. Wire(AudioSchema[n].kind) = 0
    BY AudioIsSchema DEF Wire
  <2>5. i \in Known(AudioSchema, l)
    BY <2>2, <2>3, <2>4 DEF Known
  <2> QED BY <2>1, <2>3, <2>5
<1>12. format = [name \in DOMAIN NoFormat |-> format[name]]
  BY <1>10 DEF IsAudioFormat, IsRecordOf
<1>13. DOMAIN values = Known(AudioSchema, l)
  OBVIOUS
<1> HIDE DEF values
<1>14. Assembled(AudioSchema, NoFormat, l, values) = Is(format)
  BY <1>7, <1>9, <1>11, <1>12, <1>13, AssembledIs
<1> QED BY <1>3, <1>5, <1>8, <1>14 DEF b

LEMMA VadRoundTrip ==
  ASSUME NEW vad, IsVadOptions(vad)
  PROVE  /\ EncodeVadOptions(vad) \in Seq(Byte) /\ Len(EncodeVadOptions(vad)) \in U64
         /\ DecodeVadOptions(EncodeVadOptions(vad)) = Is(vad)
<1> DEFINE S == {m \in DOMAIN VadSchema : vad[VadSchema[m].name] # <<>>}
           Name(n) == VadSchema[n].name
           Kind(n) == VadSchema[n].kind
           f == [n \in S |-> Scalar(n, VadSchema[n].kind, vad[VadSchema[n].name][1])]
           b == EncodeVadOptions(vad)
<1>15. PICK F : \A n \in S : F[n] = Field(n, Wire(Kind(n)), vad[Name(n)][1])
  <2>1. \A n \in S : [k \in S |-> Field(k, Wire(Kind(k)), vad[Name(k)][1])][n]
                       = Field(n, Wire(Kind(n)), vad[Name(n)][1])
    OBVIOUS
  <2> QED BY <2>1
<1>1. \A n \in S : n \in 1 .. MaxField /\ n \in DOMAIN VadSchema
  BY VadIsSchema DEF MaxField
<1>2. ASSUME NEW n \in S
      PROVE  /\ ScalarValue(Kind(n), vad[Name(n)][1]) = vad[Name(n)]
             /\ f[n] \in Seq(Byte) /\ Fields(f[n]) = Is(<<F[n]>>) /\ Len(f[n]) <= MaxGroups + 5
  <2> DEFINE v == vad[Name(n)][1]
             k == Kind(n)
  <2>1. k \in {"float", "u32", "u64"} /\ IsScalar(k, v) /\ vad[Name(n)] = <<v>>
    BY <1>1, VadIsSchema DEF IsVadOptions
  <2>2. f[n] = Scalar(n, k, v) /\ F[n] = Field(n, Wire(k), v)
    BY <1>15
  <2> HIDE DEF v, k, f
  <2>3. Content(k, v) = v /\ k # "text" /\ k \in ScalarKinds
    BY <2>1 DEF Content, ScalarKinds
  <2>4. Scalar(n, k, v) \in Seq(Byte) /\ Fields(Scalar(n, k, v)) = Is(<<Field(n, Wire(k), v)>>)
        /\ Len(Scalar(n, k, v)) <= MaxGroups + 5 /\ ScalarValue(k, v) = Is(v)
    BY <1>1, <2>1, <2>3, ScalarIs
  <2>5. ScalarValue(k, v) = <<v>>
    BY <2>4 DEF Is
  <2> QED BY <2>1, <2>2, <2>4, <2>5 DEF v, k
<1>3. b = Joined(f)
  BY DEF EncodeVadOptions
<1>4. DOMAIN f = S /\ \A n \in S : F[n] = Field(n, Wire(Kind(n)), vad[Name(n)][1])
  BY <1>15
<1> HIDE DEF f, b
<1>5. Joined(f) \in Seq(Byte) /\ Len(Joined(f)) \in U64
      /\ \E l \in Seq({F[n] : n \in S}) : Fields(Joined(f)) = Is(l) /\ Lists(l, S, F)
  <2>1. S \subseteq 1 .. MaxField
    BY <1>1
  <2>2. DOMAIN f = S /\ (\A n \in S : n \in 1 .. MaxField)
        /\ \A n \in S : f[n] \in Seq(Byte) /\ Fields(f[n]) = Is(<<F[n]>>)
    BY <1>1, <1>2, <1>4
  <2>3. \A n \in S : f[n] \in Seq(Byte) /\ Len(f[n]) <= MaxGroups + 5
    BY <1>2
  <2> HIDE DEF S
  <2>4. Joined(f) \in Seq(Byte) /\ \E l \in Seq({F[n] : n \in S}) : Fields(Joined(f)) = Is(l) /\ Lists(l, S, F)
    BY <2>2, JoinedRead
  <2>5. Len(Joined(f)) \in U64
    BY <2>2, <2>3, JoinedShort
  <2> QED BY <2>4, <2>5
<1>6. PICK l \in Seq({F[n] : n \in S}) : Fields(Joined(f)) = Is(l) /\ Lists(l, S, F)
  BY <1>5
<1>7. l \in Seq({F[n] : n \in S}) /\ Fields(b) = Is(l) /\ Lists(l, S, F)
  BY <1>3, <1>6
<1> DEFINE values == [i \in Known(VadSchema, l) |-> Is(ScalarValue(VadSchema[l[i].field].kind, l[i].value))]
<1>8. DecodeVadOptions(b) = Assembled(VadSchema, NoVad, l, values)
  BY <1>7, IsSome DEF DecodeVadOptions
<1>9. ASSUME NEW i \in Known(VadSchema, l)
      PROVE  values[i] = Is(vad[VadSchema[l[i].field].name])
  <2>1. i \in DOMAIN l
    BY DEF Known
  <2>2. PICK n \in S : l[i] = F[n]
    BY <1>7, <2>1 DEF Lists
  <2>3. l[i].field = n /\ l[i].value = vad[Name(n)][1]
    BY <1>4, <2>2, PartsOfField
  <2>4. ScalarValue(Kind(n), vad[Name(n)][1]) = vad[Name(n)]
    BY <1>2
  <2> QED BY <2>3, <2>4
<1>10. DOMAIN NoVad = Names(VadSchema) /\ \A name \in Names(VadSchema) : NoVad[name] = <<>>
  BY DEF NoVad
<1>11. ASSUME NEW name \in DOMAIN NoVad
       PROVE  \/ vad[name] = NoVad[name]
              \/ \E i \in Known(VadSchema, l) : VadSchema[l[i].field].name = name
  <2>1. PICK n \in DOMAIN VadSchema : VadSchema[n].name = name
    BY <1>10 DEF Names
  <2>2. CASE vad[name] = <<>>
    BY <1>10, <2>2
  <2>3. CASE vad[name] # <<>>
    <3>1. n \in S
      BY <2>1, <2>3
    <3>2. PICK i \in DOMAIN l : l[i] = F[n]
      BY <1>7, <3>1 DEF Lists
    <3>3. l[i].field = n /\ l[i].wire = Wire(Kind(n))
      BY <1>4, <3>1, <3>2, PartsOfField
    <3>4. i \in Known(VadSchema, l)
      BY <2>1, <3>2, <3>3 DEF Known
    <3> QED BY <2>1, <3>3, <3>4
  <2> QED BY <2>2, <2>3
<1>12. vad = [name \in DOMAIN NoVad |-> vad[name]]
  BY <1>10 DEF IsVadOptions, IsRecordOf
<1>13. DOMAIN values = Known(VadSchema, l)
  OBVIOUS
<1> HIDE DEF values
<1>14. Assembled(VadSchema, NoVad, l, values) = Is(vad)
  BY <1>7, <1>9, <1>11, <1>12, <1>13, AssembledIs
<1> QED BY <1>3, <1>5, <1>8, <1>14 DEF b

-----------------------------------------------------------------------------
(* Messages. *)

\* The field of a part of a message.
FieldIn(schema, m, n) ==
    Field(n, Wire(schema[n].kind), Content(schema[n].kind, m[schema[n].name]))

\* Fields that give all parts of a message, and fields that are unknown.
Tells(schema, l, m) ==
    /\ \A i \in Known(schema, l) : l[i] = FieldIn(schema, m, l[i].field)
    /\ \A n \in DOMAIN schema : \E i \in DOMAIN l : l[i] = FieldIn(schema, m, n)

\* How a part is decoded.
Decoded(kind, v) ==
    CASE kind = "audio" -> DecodeAudioFormat(v)
      [] kind = "vad"   -> DecodeVadOptions(v)
      [] OTHER          -> ScalarValue(kind, v)

\* How a part is encoded.
Encoded(n, kind, v) ==
    CASE kind = "audio" -> FieldMessage(n, EncodeAudioFormat(v))
      [] kind = "vad"   -> FieldMessage(n, EncodeVadOptions(v))
      [] OTHER          -> Scalar(n, kind, v)

LEMMA PartIs ==
  ASSUME NEW schema, NEW m, IsSchema(schema), IsMessage(schema, m), NEW n \in DOMAIN schema
  PROVE  LET k == schema[n].kind  v == m[schema[n].name] IN
         /\ Encoded(n, k, v) \in Seq(Byte) /\ Fields(Encoded(n, k, v)) = Is(<<FieldIn(schema, m, n)>>)
         /\ Decoded(k, Content(k, v)) = Is(v)
<1> DEFINE k == schema[n].kind
           v == m[schema[n].name]
<1>1. n \in 1 .. MaxField /\ n \in FieldNumbers /\ k \in ScalarKinds \cup {"audio", "vad"}
  BY DEF IsSchema, MaxField, FieldNumbers
<1>2. /\ k = "audio" => IsAudioFormat(v)
      /\ k = "vad" => IsVadOptions(v)
      /\ k # "audio" /\ k # "vad" => IsScalar(k, v)
  BY DEF IsMessage
<1>3. FieldIn(schema, m, n) = Field(n, Wire(k), Content(k, v))
  BY DEF FieldIn
<1> HIDE DEF k, v
<1>4. CASE k = "audio"
  <2>1. IsAudioFormat(v) /\ Encoded(n, k, v) = FieldMessage(n, EncodeAudioFormat(v))
        /\ Content(k, v) = EncodeAudioFormat(v) /\ Wire(k) = 2
        /\ Decoded(k, EncodeAudioFormat(v)) = DecodeAudioFormat(EncodeAudioFormat(v))
    BY <1>2, <1>4 DEF Encoded, Content, Wire, Decoded
  <2> DEFINE b == EncodeAudioFormat(v)
  <2>2. b \in Seq(Byte) /\ Len(b) \in U64 /\ DecodeAudioFormat(b) = Is(v)
    BY <2>1, AudioRoundTrip
  <2> HIDE DEF b
  <2>3. FieldMessage(n, b) \in Seq(Byte) /\ Fields(FieldMessage(n, b)) = Is(<<Field(n, 2, b)>>)
    BY <1>1, <2>2, MessageFieldIs
  <2> QED BY <1>3, <2>1, <2>2, <2>3 DEF b, k, v
<1>5. CASE k = "vad"
  <2>1. IsVadOptions(v) /\ Encoded(n, k, v) = FieldMessage(n, EncodeVadOptions(v))
        /\ Content(k, v) = EncodeVadOptions(v) /\ Wire(k) = 2
        /\ Decoded(k, EncodeVadOptions(v)) = DecodeVadOptions(EncodeVadOptions(v))
    BY <1>2, <1>5 DEF Encoded, Content, Wire, Decoded
  <2> DEFINE b == EncodeVadOptions(v)
  <2>2. b \in Seq(Byte) /\ Len(b) \in U64 /\ DecodeVadOptions(b) = Is(v)
    BY <2>1, VadRoundTrip
  <2> HIDE DEF b
  <2>3. FieldMessage(n, b) \in Seq(Byte) /\ Fields(FieldMessage(n, b)) = Is(<<Field(n, 2, b)>>)
    BY <1>1, <2>2, MessageFieldIs
  <2> QED BY <1>3, <2>1, <2>2, <2>3 DEF b, k, v
<1>6. CASE k \in ScalarKinds
  <2>0. k # "audio" /\ k # "vad"
    BY <1>6 DEF ScalarKinds
  <2>1. IsScalar(k, v) /\ Encoded(n, k, v) = Scalar(n, k, v)
        /\ Decoded(k, Content(k, v)) = ScalarValue(k, Content(k, v))
    BY <1>2, <2>0 DEF Encoded, Decoded
  <2>2. Scalar(n, k, v) \in Seq(Byte)
         /\ Fields(Scalar(n, k, v)) = Is(<<Field(n, Wire(k), Content(k, v))>>)
         /\ ScalarValue(k, Content(k, v)) = Is(v)
    BY <1>1, <1>6, <2>1, ScalarIs
  <2> QED BY <1>3, <2>1, <2>2 DEF k, v
<1> QED BY <1>1, <1>4, <1>5, <1>6

\* An encoded message tells all of it.
LEMMA MessageTells ==
  ASSUME NEW schema, NEW m, IsSchema(schema), IsMessage(schema, m)
  PROVE  LET b == EncodeMessage(schema, m) IN
         b \in Seq(Byte) /\ Fields(b) # Fails /\ Tells(schema, Fields(b)[1], m)
<1> DEFINE S == DOMAIN schema
           f == [n \in S |-> Encoded(n, schema[n].kind, m[schema[n].name])]
           b == EncodeMessage(schema, m)
<1>15. PICK F : \A n \in S : F[n] = FieldIn(schema, m, n)
  <2>1. \A n \in S : [k \in S |-> FieldIn(schema, m, k)][n] = FieldIn(schema, m, n)
    OBVIOUS
  <2> QED BY <2>1
<1>1. \A n \in S : n \in 1 .. MaxField
  BY DEF IsSchema
<1>2. \A n \in S : f[n] \in Seq(Byte) /\ Fields(f[n]) = Is(<<F[n]>>)
  BY <1>15, PartIs
<1>3. b = Joined(f)
  BY DEF EncodeMessage, Encoded
<1>4. DOMAIN f = S /\ \A n \in S : F[n] = FieldIn(schema, m, n)
  BY <1>15
<1> HIDE DEF f, b
<1>5. b \in Seq(Byte) /\ \E l \in Seq({F[n] : n \in S}) : Fields(b) = Is(l) /\ Lists(l, S, F)
  <2> HIDE DEF S
  <2> QED BY <1>1, <1>2, <1>3, <1>4, JoinedRead
<1>6. PICK l \in Seq({F[n] : n \in S}) : Fields(b) = Is(l) /\ Lists(l, S, F)
  BY <1>5
<1>7. Fields(b) # Fails /\ Fields(b)[1] = l /\ Lists(l, S, F)
  BY <1>6, IsSome
<1>8. \A i \in Known(schema, l) : l[i] = FieldIn(schema, m, l[i].field)
  <2> SUFFICES ASSUME NEW i \in Known(schema, l) PROVE l[i] = FieldIn(schema, m, l[i].field)
    OBVIOUS
  <2>1. PICK n \in S : l[i] = F[n]
    BY <1>7 DEF Known, Lists
  <2>2. l[i] = FieldIn(schema, m, n) /\ l[i].field = n
    BY <1>4, <2>1 DEF FieldIn, Field
  <2> QED BY <2>2
<1>9. \A n \in S : \E i \in DOMAIN l : l[i] = FieldIn(schema, m, n)
  <2> SUFFICES ASSUME NEW n \in S PROVE \E i \in DOMAIN l : l[i] = FieldIn(schema, m, n)
    OBVIOUS
  <2>1. PICK i \in DOMAIN l : l[i] = F[n]
    BY <1>7 DEF Lists
  <2>2. F[n] = FieldIn(schema, m, n)
    BY <1>4
  <2> QED BY <2>1, <2>2
<1> QED BY <1>5, <1>7, <1>8, <1>9 DEF b, Tells

\* What tells a message is decoded to it.
LEMMA ToldIsDecoded ==
  ASSUME NEW schema, NEW m, NEW default, IsSchema(schema), IsMessage(schema, m),
         DOMAIN default = Names(schema),
         NEW b \in Seq(Byte), Fields(b) # Fails, Tells(schema, Fields(b)[1], m)
  PROVE  DecodeMessage(schema, default, b) = Is(m)
<1> DEFINE V == FieldValues(b)
           l == Fields(b)[1]
<1>1. l \in Seq(V) /\ Fields(b) = Is(l)
  BY FieldsTyped
<1>2. Tells(schema, l, m)
  OBVIOUS
<1> HIDE DEF V, l
<1> DEFINE values == [i \in Known(schema, l) |-> Decoded(schema[l[i].field].kind, l[i].value)]
<1>3. DecodeMessage(schema, default, b) = Assembled(schema, default, l, values)
  BY <1>1, IsSome DEF DecodeMessage, Decoded
<1>4. ASSUME NEW i \in Known(schema, l) PROVE values[i] = Is(m[schema[l[i].field].name])
  <2> DEFINE n == l[i].field
  <2>1. n \in DOMAIN schema
    BY DEF Known
  <2>2. l[i].value = Content(schema[n].kind, m[schema[n].name])
    <3>1. l[i] = FieldIn(schema, m, n)
      BY <1>2 DEF Tells
    <3> QED BY <3>1, PartsOfField DEF FieldIn
  <2>3. values[i] = Decoded(schema[n].kind, l[i].value)
    OBVIOUS
  <2> HIDE DEF n, values
  <2>4. Decoded(schema[n].kind, Content(schema[n].kind, m[schema[n].name])) = Is(m[schema[n].name])
    BY <2>1, PartIs
  <2> QED BY <2>2, <2>3, <2>4 DEF n
<1>5. ASSUME NEW name \in DOMAIN default
      PROVE  \E i \in Known(schema, l) : schema[l[i].field].name = name
  <2>1. PICK n \in DOMAIN schema : schema[n].name = name
    BY DEF Names
  <2>2. PICK i \in DOMAIN l : l[i] = FieldIn(schema, m, n)
    BY <1>2 DEF Tells
  <2>3. l[i].field = n /\ l[i].wire = Wire(schema[n].kind)
    BY <2>2 DEF FieldIn, Field
  <2>4. i \in Known(schema, l)
    BY <2>2, <2>3 DEF Known
  <2> QED BY <2>1, <2>3, <2>4
<1>6. m = [name \in DOMAIN default |-> m[name]] /\ DOMAIN values = Known(schema, l)
  BY DEF IsMessage, IsRecordOf
<1> HIDE DEF values
<1>7. Assembled(schema, default, l, values) = Is(m)
  BY <1>1, <1>4, <1>5, <1>6, AssembledIs
<1> QED BY <1>3, <1>7

\* Fields that are not known, before or after, change nothing.
LEMMA UnknownIsSkipped ==
  ASSUME NEW schema, NEW m, NEW V, NEW W, NEW l \in Seq(V), NEW u \in Seq(W),
         Tells(schema, l, m), Known(schema, u) = {}
  PROVE  Tells(schema, u \o l, m) /\ Tells(schema, l \o u, m)
<1> DEFINE X == V \cup W
<1>1. l \in Seq(X) /\ u \in Seq(X)
  <2>1. l \in [1 .. Len(l) -> V] /\ u \in [1 .. Len(u) -> W] /\ Len(l) \in Nat /\ Len(u) \in Nat
    BY LenProperties
  <2>2. l \in [1 .. Len(l) -> X] /\ u \in [1 .. Len(u) -> X]
    BY <2>1
  <2> QED BY <2>1, <2>2, SeqDef
<1>2. \A i \in DOMAIN u : ~(u[i].field \in DOMAIN schema /\ u[i].wire = Wire(schema[u[i].field].kind))
  BY DEF Known
<1> HIDE DEF X
<1>3. ASSUME NEW a \in Seq(X), NEW b \in Seq(X),
             \/ a = l /\ b = u
             \/ a = u /\ b = l
      PROVE  Tells(schema, a \o b, m)
  <2> DEFINE z == a \o b
             p == Len(a)
             q == Len(b)
  <2>1. z \in Seq(X) /\ Len(z) = p + q /\ (\A i \in 1 .. p + q : z[i] = IF i <= p THEN a[i] ELSE b[i - p])
    BY ConcatProperties
  <2>2. p \in Nat /\ q \in Nat /\ DOMAIN a = 1 .. p /\ DOMAIN b = 1 .. q
    BY LenProperties
  <2>3. DOMAIN z = 1 .. p + q
    BY <2>1, LenProperties
  <2> HIDE DEF z, p, q
  <2>4. ASSUME NEW i \in DOMAIN z
        PROVE  (\E j \in DOMAIN l : z[i] = l[j]) \/ (\E j \in DOMAIN u : z[i] = u[j])
    <3>1. CASE i <= p
      <4>1. i \in DOMAIN a /\ z[i] = a[i]
        BY <2>1, <2>2, <2>3, <3>1
      <4> QED BY <1>3, <4>1
    <3>2. CASE ~(i <= p)
      <4>1. i - p \in DOMAIN b /\ z[i] = b[i - p]
        BY <2>1, <2>2, <2>3, <3>2
      <4> QED BY <1>3, <4>1
    <3> QED BY <3>1, <3>2
  <2>5. ASSUME NEW j \in DOMAIN l PROVE \E i \in DOMAIN z : z[i] = l[j]
    <3>1. CASE a = l
      <4>1. j \in DOMAIN z /\ z[j] = l[j]
        BY <2>1, <2>2, <2>3, <3>1
      <4> QED BY <4>1
    <3>2. CASE b = l
      <4>0. j \in 1 .. q
        BY <2>2, <3>2
      <4>1. p + j \in DOMAIN z /\ ~(p + j <= p) /\ p + j - p = j
        BY <2>2, <2>3, <4>0
      <4> DEFINE k == p + j
      <4>2. k \in DOMAIN z /\ ~(k <= p) /\ k - p = j
        BY <2>2, <4>0, <4>1
      <4> HIDE DEF k
      <4>3. z[k] = b[k - p]
        BY <2>1, <2>3, <4>2
      <4> QED BY <3>2, <4>2, <4>3
    <3> QED BY <1>3, <3>1, <3>2
  <2>6. ASSUME NEW i \in Known(schema, z) PROVE z[i] = FieldIn(schema, m, z[i].field)
    <3>1. i \in DOMAIN z /\ z[i].field \in DOMAIN schema /\ z[i].wire = Wire(schema[z[i].field].kind)
      BY DEF Known
    <3>2. PICK j \in DOMAIN l : z[i] = l[j]
      BY <1>2, <2>4, <3>1
    <3>3. j \in Known(schema, l)
      BY <3>1, <3>2 DEF Known
    <3> QED BY <3>2, <3>3 DEF Tells
  <2>7. ASSUME NEW n \in DOMAIN schema PROVE \E i \in DOMAIN z : z[i] = FieldIn(schema, m, n)
    <3>1. PICK j \in DOMAIN l : l[j] = FieldIn(schema, m, n)
      BY DEF Tells
    <3>2. PICK i \in DOMAIN z : z[i] = l[j]
      BY <2>5
    <3> QED BY <3>1, <3>2
  <2> QED BY <2>6, <2>7 DEF Tells, z
<1> QED BY <1>1, <1>3

-----------------------------------------------------------------------------
(* Fields of another version: any number, and every wire type that is skipped. *)

\* The rest of a text is read as it is.
LEMMA RestIsRead ==
  ASSUME NEW e \in Seq(Byte), NEW off \in Nat, NEW b \in Seq(Byte), Within(e, off, b),
         off + Len(b) = Len(e)
  PROVE  BytesAt(e, off + 1, Len(b)) = Is([value |-> b, next |-> Len(e) + 1])
<1> DEFINE p == off + 1
           n == Len(b)
           s == SubSeq(e, p, p + n - 1)
<1>1. n \in Nat /\ Len(e) \in Nat /\ off + n = Len(e)
  BY LenProperties
<1>2. \A i \in 1 .. n : e[off + i] = b[i]
  BY DEF Within
<1> HIDE DEF n
<1>3. p \in 1 .. Len(e) + 1 /\ p + n <= Len(e) + 1 /\ p + n = Len(e) + 1
  BY <1>1
<1>4. \A i \in 1 .. n : p + i - 1 = off + i
  BY <1>1
<1> HIDE DEF p
<1>5. /\ BytesAt(e, p, n) = Is([value |-> s, next |-> p + n]) /\ s \in Seq(Byte) /\ Len(s) = n
      /\ \A i \in 1 .. n : s[i] = e[p + i - 1]
  BY <1>1, <1>3, BytesRead, ZenonT(40)
<1> HIDE DEF s
<1>6. s = b
  <2>1. \A i \in 1 .. Len(s) : s[i] = b[i]
    BY <1>2, <1>4, <1>5
  <2>2. Len(s) = Len(b)
    BY <1>5 DEF n
  <2> QED BY <1>5, <2>1, <2>2, SeqEqual
<1>7. BytesAt(e, p, n) = Is([value |-> b, next |-> Len(e) + 1])
  BY <1>3, <1>5, <1>6
<1> QED BY <1>7 DEF n, p

\* A key of any length and a content that is read to the end are a field.
LEMMA KeyedField ==
  ASSUME NEW n \in U32, NEW w \in 0 .. 7, n * 8 + w \in U64, NEW rest \in Seq(Byte), NEW v,
         LET key == Varint[n * 8 + w]
             e   == key \o rest
         IN  ContentAt(e, Len(key) + 1, w) = Is([value |-> v, next |-> Len(e) + 1])
  PROVE  LET e == Varint[n * 8 + w] \o rest
         IN  e \in Seq(Byte) /\ Fields(e) = Is(<<Field(n, w, v)>>)
<1> DEFINE k   == n * 8 + w
           key == Varint[k]
           e   == key \o rest
           p   == Len(key)
<1>1. k \in U64 /\ k % 8 = w /\ k \div 8 = n /\ AsU32(n) = n
  <2>0. n \in Nat
    BY Widths
  <2>1. k % 8 = w /\ k \div 8 = n
    BY <2>0
  <2>2. AsU32(n) = n
    BY NumberFits
  <2> QED BY <2>1, <2>2
<1>2. ContentAt(e, p + 1, w) = Is([value |-> v, next |-> Len(e) + 1])
  OBVIOUS
<1> HIDE DEF k
<1>3. key \in Seq(Byte) /\ p \in Nat /\ p >= 1
  BY <1>1, VarintShape, LenProperties DEF Shape
<1>4. e \in Seq(Byte) /\ Len(e) = p + Len(rest) /\ Len(rest) \in Nat /\ Within(e, 0, key)
  <2> HIDE DEF key
  <2> QED BY <1>3, WithinConcat
<1>5. VarintAt(e, 1) = Is([value |-> k, next |-> p + 1])
  <2> HIDE DEF e
  <2>1. 1 \in 1 .. Len(e) + 1 /\ 1 - 1 = 0 /\ 1 + p = p + 1
    BY <1>3, <1>4
  <2>2. VarintAt(e, 1) = Is([value |-> k, next |-> 1 + p])
    BY <1>1, <1>4, <2>1, VarintFound
  <2> QED BY <2>1, <2>2
<1> HIDE DEF e, key
<1> DEFINE f == Field(n, w, v)
<1>6. FieldAt(e, 1) = Is([value |-> f, next |-> Len(e) + 1])
  <2>1. ContentAt(e, p + 1, k % 8) = Is([value |-> v, next |-> Len(e) + 1])
    BY <1>1, <1>2
  <2>2. FieldAt(e, 1) = FieldOf(k, ContentAt(e, p + 1, k % 8))
    BY <1>5, <2>1, IsSome, FieldIs
  <2> QED BY <1>1, <2>1, <2>2, IsSome DEF FieldOf, Field
<1>7. Fields(e) = Is(<<f>>)
  <2> HIDE DEF f
  <2>1. Len(e) > 0
    BY <1>3, <1>4
  <2> QED BY <1>4, <1>6, <2>1, FieldsOne
<1> QED BY <1>4, <1>7 DEF e, key, k

\* What EncodeField makes of any field that can be skipped Fields reads as that
\* field, also when it has a number or a wire type that no message of this
\* version has (ProtoInput::skip).
THEOREM FieldRoundTrip ==
  ASSUME NEW f, IsField(f)
  PROVE  EncodeField(f) \in Seq(Byte) /\ Fields(EncodeField(f)) = Is(<<f>>)
<1> DEFINE n == f.field
           w == f.wire
           v == f.value
           k == n * 8 + w
           key == Varint[k]
           p == Len(key)
<1>1. f = Field(n, w, v) /\ n \in U32 /\ k \in U64
  BY DEF IsField, Field
<1>2. w \in 0 .. 7
  BY DEF IsField
<1>3. key \in Seq(Byte) /\ p \in Nat /\ p >= 1
  <2> HIDE DEF k
  <2> QED BY <1>1, VarintShape, LenProperties DEF Shape
<1>4. ASSUME NEW b \in Seq(Byte)
      PROVE  LET e == key \o b
             IN  /\ e \in Seq(Byte) /\ Len(e) = p + Len(b) /\ Len(b) \in Nat /\ Within(e, p, b)
                 /\ BytesAt(e, p + 1, Len(b)) = Is([value |-> b, next |-> Len(e) + 1])
  <2> DEFINE e == key \o b
  <2> HIDE DEF key
  <2>1. e \in Seq(Byte) /\ Len(e) = p + Len(b) /\ Len(b) \in Nat /\ Within(e, p, b)
    BY <1>3, WithinConcat
  <2> HIDE DEF e
  <2>2. BytesAt(e, p + 1, Len(b)) = Is([value |-> b, next |-> Len(e) + 1])
    BY <1>3, <2>1, RestIsRead
  <2> QED BY <2>1, <2>2 DEF e
<1>0. ASSUME NEW b \in Seq(Byte), NEW x,
             LET e == key \o b IN ContentAt(e, p + 1, w) = Is([value |-> x, next |-> Len(e) + 1])
      PROVE  key \o b \in Seq(Byte) /\ Fields(key \o b) = Is(<<Field(n, w, x)>>)
  BY <1>0, <1>1, <1>2, KeyedField, ZenonT(40)
<1>10. w = 0 => k = n * 8
  <2>1. n \in Nat
    BY <1>1, Widths
  <2> HIDE DEF n
  <2> QED BY <2>1
<1>11. /\ w = 0 => EncodeField(f) = Varint[n * 8] \o Varint[v]
       /\ w = 1 => EncodeField(f) = Varint[n * 8 + 1] \o v
       /\ w = 2 => EncodeField(f) = Varint[n * 8 + 2] \o Varint[Len(v)] \o v
       /\ w = 5 => EncodeField(f) = Varint[n * 8 + 5] \o v
  <2>1. /\ w = 0 => EncodeField(f) = FieldVarint(n, v)
        /\ w = 1 => EncodeField(f) = FieldFixed64(n, v)
        /\ w = 2 => EncodeField(f) = FieldMessage(n, v)
        /\ w = 5 => EncodeField(f) = FieldFixed32(n, v)
    <3>1. ASSUME f.wire = 0 PROVE EncodeField(f) = FieldVarint(n, v)
      BY <3>1 DEF EncodeField
    <3>2. ASSUME f.wire = 1 PROVE EncodeField(f) = FieldFixed64(n, v)
      BY <3>2 DEF EncodeField
    <3>3. ASSUME f.wire = 2 PROVE EncodeField(f) = FieldMessage(n, v)
      BY <3>3 DEF EncodeField
    <3>4. ASSUME f.wire = 5 PROVE EncodeField(f) = FieldFixed32(n, v)
      BY <3>4 DEF EncodeField
    <3> QED BY <3>1, <3>2, <3>3, <3>4
  <2>2. /\ FieldVarint(n, v) = Varint[n * 8] \o Varint[v]
        /\ FieldMessage(n, v) = Varint[n * 8 + 2] \o Varint[Len(v)] \o v
        /\ FieldFixed32(n, v) = Varint[n * 8 + 5] \o v
        /\ FieldFixed64(n, v) = Varint[n * 8 + 1] \o v
    BY DEF FieldVarint, FieldMessage, FieldFixed32, FieldFixed64
  <2> QED BY <2>1, <2>2
<1>12. /\ w = 0 => EncodeField(f) = key \o Varint[v]
       /\ w \in {1, 5} => EncodeField(f) = key \o v
       /\ w = 2 => EncodeField(f) = key \o Varint[Len(v)] \o v
  <2> HIDE DEF n, v, w
  <2>1. ASSUME w = 0 PROVE EncodeField(f) = key \o Varint[v]
    BY <1>10, <1>11, <2>1
  <2>2. ASSUME w = 1 PROVE EncodeField(f) = key \o v
    BY <1>11, <2>2
  <2>3. ASSUME w = 2 PROVE EncodeField(f) = key \o Varint[Len(v)] \o v
    BY <1>11, <2>3
  <2>4. ASSUME w = 5 PROVE EncodeField(f) = key \o v
    BY <1>11, <2>4
  <2> QED BY <2>1, <2>2, <2>3, <2>4
<1>13. \/ w = 0 /\ v \in U64
       \/ w = 1 /\ v \in [1 .. 8 -> Byte]
       \/ w = 2 /\ v \in Seq(Byte) /\ Len(v) \in U64
       \/ w = 5 /\ v \in [1 .. 4 -> Byte]
  BY DEF IsField
<1> HIDE DEF key, p, k, n, w, v
<1>5. CASE w = 0 /\ v \in U64
  <2> DEFINE r == Varint[v]
             e == key \o r
  <2>1. r \in Seq(Byte) /\ Len(r) \in Nat
    BY <1>5, VarintShape, LenProperties DEF Shape
  <2>2. e \in Seq(Byte) /\ Len(e) = p + Len(r) /\ Within(e, p, r)
    BY <1>4, <2>1
  <2> HIDE DEF e
  <2>3. VarintAt(e, p + 1) = Is([value |-> v, next |-> Len(e) + 1])
    <3> HIDE DEF r
    <3> DEFINE pos == p + 1
    <3>1. pos \in 1 .. Len(e) + 1 /\ pos - 1 = p /\ pos + Len(r) = Len(e) + 1
      BY <1>3, <2>1, <2>2
    <3> HIDE DEF pos
    <3>2. Within(e, pos - 1, Varint[v])
      BY <2>2, <3>1 DEF r
    <3>3. VarintAt(e, pos) = Is([value |-> v, next |-> pos + Len(Varint[v])])
      BY <1>5, <2>2, <3>1, <3>2, VarintFound
    <3> QED BY <3>1, <3>3 DEF pos, r
  <2>4. ContentAt(e, p + 1, w) = Is([value |-> v, next |-> Len(e) + 1])
    BY <1>5, <2>3 DEF ContentAt
  <2>5. e \in Seq(Byte) /\ Fields(e) = Is(<<Field(n, w, v)>>)
    BY <1>0, <2>1, <2>4 DEF e
  <2>7. EncodeField(f) = e
    BY <1>5, <1>12 DEF e
  <2> QED BY <1>1, <2>5, <2>7
<1>6. ASSUME w \in {1, 5}, v \in [1 .. (IF w = 1 THEN 8 ELSE 4) -> Byte]
      PROVE  EncodeField(f) \in Seq(Byte) /\ Fields(EncodeField(f)) = Is(<<f>>)
  <2> DEFINE m == IF w = 1 THEN 8 ELSE 4
             e == key \o v
  <2>1. v \in Seq(Byte) /\ Len(v) = m
    BY <1>6, SeqDef, LenProperties
  <2>2. BytesAt(e, p + 1, m) = Is([value |-> v, next |-> Len(e) + 1])
    BY <1>4, <2>1
  <2> HIDE DEF e
  <2>3. ContentAt(e, p + 1, w) = Is([value |-> v, next |-> Len(e) + 1])
    BY <1>6, <2>2 DEF ContentAt
  <2>4. e \in Seq(Byte) /\ Fields(e) = Is(<<Field(n, w, v)>>)
    BY <1>0, <2>1, <2>3 DEF e
  <2>5. EncodeField(f) = e
    BY <1>6, <1>12 DEF e
  <2> QED BY <1>1, <2>4, <2>5
<1>7. CASE w = 2 /\ v \in Seq(Byte) /\ Len(v) \in U64
  <2> DEFINE l == Varint[Len(v)]
             b == l \o v
             e == key \o b
             q == p + Len(l)
  <2>1. l \in Seq(Byte) /\ Len(l) \in Nat
    BY <1>7, VarintShape, LenProperties DEF Shape
  <2>2. b \in Seq(Byte) /\ Len(b) = Len(l) + Len(v) /\ Len(v) \in Nat /\ Within(b, 0, l) /\ Within(b, Len(l), v)
    <3> HIDE DEF l
    <3> QED BY <1>7, <2>1, WithinConcat
  <2> HIDE DEF b
  <2>3. e \in Seq(Byte) /\ Len(e) = p + Len(b) /\ Within(e, p, b)
    BY <1>4, <2>2
  <2> HIDE DEF e
  <2>4. Within(e, p + 0, l) /\ Within(e, q, v)
    BY <1>3, <1>7, <2>1, <2>2, <2>3, WithinTrans
  <2>5. Within(e, p, l) /\ q \in Nat /\ q + Len(v) = Len(e) /\ p + 1 + Len(l) = q + 1
    <3> HIDE DEF l
    <3> QED BY <1>3, <2>1, <2>2, <2>3, <2>4
  <2>6. VarintAt(e, p + 1) = Is([value |-> Len(v), next |-> q + 1])
    <3> HIDE DEF l, q
    <3> DEFINE pos == p + 1
    <3>1. pos \in 1 .. Len(e) + 1 /\ pos - 1 = p /\ pos + Len(l) = q + 1
      BY <1>3, <2>1, <2>2, <2>3, <2>5
    <3> HIDE DEF pos
    <3>2. Within(e, pos - 1, Varint[Len(v)])
      BY <2>5, <3>1 DEF l
    <3>3. VarintAt(e, pos) = Is([value |-> Len(v), next |-> pos + Len(Varint[Len(v)])])
      BY <1>7, <2>3, <3>1, <3>2, VarintFound
    <3> QED BY <3>1, <3>3 DEF pos, l
  <2>7. BytesAt(e, q + 1, Len(v)) = Is([value |-> v, next |-> Len(e) + 1])
    <3> HIDE DEF q
    <3> QED BY <1>7, <2>3, <2>4, <2>5, RestIsRead
  <2>8. ContentAt(e, p + 1, w) = Is([value |-> v, next |-> Len(e) + 1])
    <3> HIDE DEF q
    <3>1. DelimitedAt(e, p + 1) = BytesAt(e, q + 1, Len(v))
      BY <2>6, IsSome DEF DelimitedAt
    <3> QED BY <1>7, <2>7, <3>1 DEF ContentAt
  <2>9. e \in Seq(Byte) /\ Fields(e) = Is(<<Field(n, w, v)>>)
    BY <1>0, <2>2, <2>8 DEF e
  <2>10. EncodeField(f) = e
    <3>1. EncodeField(f) = (key \o l) \o v
      BY <1>7, <1>12
    <3> HIDE DEF l
    <3>2. (key \o l) \o v = key \o (l \o v)
      BY <1>3, <1>7, <2>1, ConcatAssociative, SMTT(20)
    <3> QED BY <3>1, <3>2 DEF e, b
  <2> QED BY <1>1, <2>9, <2>10
<1>8. CASE w = 1 /\ v \in [1 .. 8 -> Byte]
  BY <1>6, <1>8
<1>9. CASE w = 5 /\ v \in [1 .. 4 -> Byte]
  BY <1>6, <1>9
<1> QED BY <1>5, <1>7, <1>8, <1>9, <1>13

-----------------------------------------------------------------------------
(* A hello. *)

\* What EncodeClientHello makes of any hello, with fields of a later version
\* before or after it, DecodeClientHello reads as that hello, unless it names no
\* model.
THEOREM HelloRoundTrip ==
  ASSUME NEW h, IsMessage(HelloSchema, h), NEW default, DOMAIN default = Names(HelloSchema),
         NEW more \in Seq(Byte), Fields(more) # Fails, Known(HelloSchema, Fields(more)[1]) = {},
         NEW body \in {EncodeClientHello(h), more \o EncodeClientHello(h),
                       EncodeClientHello(h) \o more}
  PROVE  /\ body \in Seq(Byte)
         /\ DecodeClientHello(body, default) = IF h.model = <<>> THEN Fails ELSE Is(h)
<1> DEFINE b == EncodeClientHello(h)
<1>1. b \in Seq(Byte) /\ Fields(b) # Fails /\ Tells(HelloSchema, Fields(b)[1], h)
  BY HelloIsSchema, MessageTells DEF EncodeClientHello
<1> HIDE DEF b
<1>2. Fields(b)[1] \in Seq(FieldValues(b)) /\ Fields(more)[1] \in Seq(FieldValues(more))
  BY <1>1, FieldsTyped
<1>3. more \o b \in Seq(Byte) /\ b \o more \in Seq(Byte)
  BY <1>1, ConcatProperties
<1>4. Fields(more \o b) = Is(Fields(more)[1] \o Fields(b)[1])
  BY <1>1, FieldsConcat
<1>5. Fields(b \o more) = Is(Fields(b)[1] \o Fields(more)[1])
  BY <1>1, FieldsConcat
<1>6. /\ Tells(HelloSchema, Fields(more)[1] \o Fields(b)[1], h)
      /\ Tells(HelloSchema, Fields(b)[1] \o Fields(more)[1], h)
  BY <1>1, <1>2, UnknownIsSkipped
<1>7. Fields(more \o b) # Fails /\ Tells(HelloSchema, Fields(more \o b)[1], h)
      /\ Fields(b \o more) # Fails /\ Tells(HelloSchema, Fields(b \o more)[1], h)
  BY <1>4, <1>5, <1>6, IsSome
<1>8. body \in {b, more \o b, b \o more}
  BY DEF b
<1>9. body \in Seq(Byte) /\ Fields(body) # Fails /\ Tells(HelloSchema, Fields(body)[1], h)
  BY <1>1, <1>3, <1>7, <1>8
<1>10. DecodeMessage(HelloSchema, default, body) = Is(h)
  BY <1>9, HelloIsSchema, ToldIsDecoded
<1>11. DecodeClientHello(body, default) = IF h.model = <<>> THEN Fails ELSE Is(h)
  BY <1>10, IsSome DEF DecodeClientHello
<1> QED BY <1>9, <1>11

LEMMA TagIs ==
  ASSUME NEW r, NEW n \in DOMAIN ResponseKinds, r.kind = ResponseKinds[n]
  PROVE  TagOf(r) = n
<1>1. \A t \in DOMAIN ResponseKinds : ResponseKinds[t] = r.kind => t = n
  BY ResponseIsSchema
<1> QED BY <1>1 DEF TagOf

\* What EncodeResponse makes of any response DecodeResponse reads as that response.
THEOREM ResponseRoundTrip ==
  ASSUME NEW r, IsResponse(r)
  PROVE  EncodeResponse(r) \in Seq(Byte) /\ DecodeResponse(EncodeResponse(r)) = Is(r)
<1>1. PICK n \in DOMAIN ResponseKinds :
            /\ r = [kind |-> ResponseKinds[n], body |-> r.body]
            /\ IsMessage(ResponseSchemas[n], r.body)
            /\ Len(EncodeMessage(ResponseSchemas[n], r.body)) \in U64
            /\ r.kind = "speech" => r.body.type \in {1, 2}
  BY DEF IsResponse
<1> DEFINE schema == ResponseSchemas[n]
           b == EncodeMessage(schema, r.body)
           e == FieldMessage(n, b)
<1>2. r.kind = ResponseKinds[n] /\ TagOf(r) = n
  <2>1. r.kind = ResponseKinds[n]
    BY <1>1
  <2> QED BY <2>1, TagIs
<1>3. EncodeResponse(r) = e
  BY <1>2 DEF EncodeResponse
<1>4. IsSchema(schema) /\ n \in 1 .. 7 /\ n \in FieldNumbers
  BY ResponseIsSchema DEF FieldNumbers
<1>5. b \in Seq(Byte) /\ Fields(b) # Fails /\ Tells(schema, Fields(b)[1], r.body)
  <2> HIDE DEF schema
  <2>1. IsMessage(schema, r.body)
    BY <1>1 DEF schema
  <2> QED BY <1>4, <2>1, MessageTells
<1>6. Len(b) \in U64 /\ IsMessage(schema, r.body)
  BY <1>1
<1>7. DecodeMessage(schema, EmptyBody(schema), b) = Is(r.body)
  <2>1. DOMAIN EmptyBody(schema) = Names(schema)
    BY DEF EmptyBody
  <2> HIDE DEF schema, b
  <2> QED BY <1>4, <1>5, <1>6, <2>1, ToldIsDecoded
<1>8. e \in Seq(Byte) /\ FieldAt(e, 1) = Is([value |-> Field(n, 2, b), next |-> Len(e) + 1])
  <2> HIDE DEF b
  <2> QED BY <1>4, <1>5, <1>6, MessageFieldIs
<1> HIDE DEF e, b
<1>9. DecodeResponse(e) = Is(r)
  <2> DEFINE f == FieldAt(e, 1)
  <2>1. f # Fails /\ f[1].value.wire = 2 /\ f[1].value.field = n /\ f[1].value.value = b
    BY <1>8, IsSome, PartsOfField
  <2>2. DecodeResponse(e) =
          LET body == DecodeMessage(ResponseSchemas[n], EmptyBody(ResponseSchemas[n]), b)
              kind == ResponseKinds[n]
          IN  IF body = Fails \/ (kind = "speech" /\ body[1].type \notin {1, 2}) THEN Fails
              ELSE Is([kind |-> kind, body |-> body[1]])
    BY <2>1 DEF DecodeResponse
  <2>3. DecodeResponse(e) =
          IF Is(r.body) = Fails \/ (ResponseKinds[n] = "speech" /\ Is(r.body)[1].type \notin {1, 2}) THEN Fails
          ELSE Is([kind |-> ResponseKinds[n], body |-> Is(r.body)[1]])
    BY <1>7, <2>2
  <2>4. Is(r.body) # Fails /\ Is(r.body)[1] = r.body
    BY IsSome
  <2>5. ~(ResponseKinds[n] = "speech" /\ r.body.type \notin {1, 2})
    BY <1>1, <1>2
  <2>6. DecodeResponse(e) = Is([kind |-> ResponseKinds[n], body |-> r.body])
    BY <2>3, <2>4, <2>5
  <2> QED BY <1>1, <2>6
<1> QED BY <1>3, <1>8, <1>9

-----------------------------------------------------------------------------
(* Frames. *)

LEMMA Digits ==
  ASSUME NEW n \in Nat
  PROVE  /\ n = (n % 256) + 256 * (n \div 256)
         /\ n % 256 \in 0 .. 255 /\ n \div 256 \in Nat
OBVIOUS

LEMMA Le32Is ==
  ASSUME NEW n \in Nat, n \div 16777216 < 256
  PROVE  Le32(n) \in Seq(Byte) /\ Len(Le32(n)) = 4 /\ LengthOf(Le32(n)) = n
<1> DEFINE a == n % 256
           q == n \div 256
           b == q % 256
           p == q \div 256
           c == p % 256
           o == p \div 256
<1>1. n = a + 256 * q /\ a \in 0 .. 255 /\ q \in Nat
  BY Digits
<1>2. q = b + 256 * p /\ b \in 0 .. 255 /\ p \in Nat
  <2> HIDE DEF q
  <2> QED BY <1>1, Digits
<1>3. p = c + 256 * o /\ c \in 0 .. 255 /\ o \in Nat
  <2> HIDE DEF p
  <2> QED BY <1>2, Digits
<1>4. n \div 65536 = p
  BY SMT
<1>5. n \div 16777216 = o
  BY SMT
<1>6. o % 256 = o /\ o \in 0 .. 255
  <2>1. o < 256
    BY <1>5
  <2> HIDE DEF o
  <2> QED BY <1>3, <2>1
<1>7. Le32(n) = <<a, b, c, o>>
  <2>1. (n \div 65536) % 256 = c /\ (n \div 16777216) % 256 = o
    BY <1>4, <1>5, <1>6
  <2> QED BY <2>1 DEF Le32
<1> HIDE DEF a, b, c, o, p, q
<1>8. <<a, b, c, o>> \in Seq(Byte) /\ Len(<<a, b, c, o>>) = 4
  <2>1. a \in Byte /\ b \in Byte /\ c \in Byte /\ o \in Byte
    BY <1>1, <1>2, <1>3, <1>6 DEF Byte
  <2> QED BY <2>1
<1>9. LengthOf(<<a, b, c, o>>) = n
  <2>1. LengthOf(<<a, b, c, o>>) = a + 256 * b + 65536 * c + 16777216 * o
    BY SMT DEF LengthOf
  <2>2. n = a + 256 * b + 65536 * c + 16777216 * o
    BY <1>1, <1>2, <1>3, SMT
  <2> QED BY <2>1, <2>2
<1> QED BY <1>7, <1>8, <1>9

\* The lengths that a frame can have.
LEMMA ShortIs ==
  ASSUME NEW n \in Nat, n <= FrameMax
  PROVE  n \div 16777216 < 256
<1>1. FrameMax \in Nat /\ FrameMax \div 16777216 < 256
  BY ConnectionAssumption
<1> QED BY <1>1, SMT

\* The bytes of x are those of f, as far as both go.
Agree(x, f) == \A j \in 1 .. Len(x) : j <= Len(f) => x[j] = f[j]

LEMMA FrameIs ==
  ASSUME NEW body \in Seq(Byte), Len(body) <= FrameMax
  PROVE  /\ Framed(body) \in Seq(Byte) /\ Len(Framed(body)) = 4 + Len(body) /\ Len(body) \in Nat
         /\ Within(Framed(body), 4, body)
         /\ \A x \in Seq(Byte) : Len(x) >= 4 /\ Agree(x, Framed(body)) => LengthOf(x) = Len(body)
<1> DEFINE f == Framed(body)
           h == Le32(Len(body))
<1>1. Len(body) \in Nat
  BY LenProperties
<1>2. h \in Seq(Byte) /\ Len(h) = 4 /\ LengthOf(h) = Len(body)
  BY <1>1, ShortIs, Le32Is
<1> HIDE DEF h
<1>3. f = h \o body
  BY DEF Framed, h
<1> HIDE DEF f
<1>4. f \in Seq(Byte) /\ Len(f) = Len(h) + Len(body) /\ Within(f, 0, h) /\ Within(f, Len(h), body)
  BY <1>2, <1>3, WithinConcat
<1>5. ASSUME NEW x \in Seq(Byte), Len(x) >= 4, Agree(x, f) PROVE LengthOf(x) = Len(body)
  <2>1. Len(x) \in Nat
    BY LenProperties
  <2>2. ASSUME NEW j \in 1 .. 4 PROVE x[j] = h[j]
    <3>1. j \in 1 .. Len(x) /\ j <= Len(f)
      BY <1>1, <1>2, <1>4, <1>5, <2>1
    <3>2. x[j] = f[j]
      BY <1>5, <3>1 DEF Agree
    <3>3. f[0 + j] = h[j] /\ 0 + j = j
      BY <1>2, <1>4 DEF Within
    <3> QED BY <3>2, <3>3
  <2>3. x[1] = h[1] /\ x[2] = h[2] /\ x[3] = h[3] /\ x[4] = h[4]
    BY <2>2
  <2>4. LengthOf(x) = LengthOf(h)
    BY <2>3 DEF LengthOf
  <2> QED BY <1>2, <2>4
<1>6. f \in Seq(Byte) /\ Len(f) = 4 + Len(body) /\ Within(f, 4, body)
  BY <1>2, <1>4
<1> QED BY <1>1, <1>5, <1>6 DEF f

\* A frame that has been received is the one that was sent.
LEMMA FrameReceived ==
  ASSUME NEW body \in Seq(Byte), Len(body) <= FrameMax, NEW x \in Seq(Byte), Agree(x, Framed(body)),
         Len(x) >= 4, Len(x) = 4 + LengthOf(x)
  PROVE  x = Framed(body) /\ SubSeq(x, 5, Len(x)) = body
<1> DEFINE f == Framed(body)
<1>1. f \in Seq(Byte) /\ Len(f) = 4 + Len(body) /\ Within(f, 4, body) /\ Len(body) \in Nat
      /\ LengthOf(x) = Len(body)
  BY FrameIs
<1>2. Agree(x, f)
  OBVIOUS
<1> HIDE DEF f
<1>3. x = f
  <2>1. Len(x) = Len(f)
    BY <1>1
  <2>2. \A i \in 1 .. Len(x) : x[i] = f[i]
    BY <1>2, <2>1, LenProperties DEF Agree
  <2> QED BY <1>1, <2>1, <2>2, SeqEqual
<1>4. SubSeq(f, 5, Len(f)) = body
  <2> DEFINE n == Len(body)
             s == SubSeq(f, 5, 5 + n - 1)
  <2>1. 5 \in 1 .. Len(f) + 1 /\ 5 + n <= Len(f) + 1 /\ 5 + n - 1 = Len(f)
    BY <1>1
  <2>2. s \in Seq(Byte) /\ Len(s) = n /\ (\A i \in 1 .. n : s[i] = f[5 + i - 1])
    BY <1>1, <2>1, BytesRead
  <2> HIDE DEF s
  <2>3. \A i \in 1 .. n : f[4 + i] = body[i] /\ 5 + i - 1 = 4 + i
    BY <1>1 DEF Within
  <2>4. s = body
    <3>1. \A i \in 1 .. Len(s) : s[i] = body[i]
      BY <2>2, <2>3
    <3> QED BY <2>2, <3>1, SeqEqual
  <2> QED BY <2>1, <2>4 DEF s
<1> QED BY <1>3, <1>4 DEF f

-----------------------------------------------------------------------------
(* Bytes on their way. *)

\* A sequence is cut in two.
LEMMA Cutting ==
  ASSUME NEW s \in Seq(Byte), NEW n \in 0 .. Len(s)
  PROVE  /\ SubSeq(s, 1, n) \in Seq(Byte) /\ Len(SubSeq(s, 1, n)) = n
         /\ SubSeq(s, n + 1, Len(s)) \in Seq(Byte) /\ Len(SubSeq(s, n + 1, Len(s))) = Len(s) - n
         /\ SubSeq(s, 1, n) \o SubSeq(s, n + 1, Len(s)) = s
<1> DEFINE a == SubSeq(s, 1, 1 + n - 1)
           m == Len(s) - n
           b == SubSeq(s, n + 1, n + 1 + m - 1)
<1>1. Len(s) \in Nat /\ m \in Nat /\ n \in Nat /\ n <= Len(s)
  BY LenProperties
<1>2. a \in Seq(Byte) /\ Len(a) = n /\ \A i \in 1 .. n : a[i] = s[1 + i - 1]
  <2>1. 1 \in 1 .. Len(s) + 1 /\ 1 + n <= Len(s) + 1
    BY <1>1
  <2> QED BY <1>1, <2>1, BytesRead
<1>3. b \in Seq(Byte) /\ Len(b) = m /\ \A i \in 1 .. m : b[i] = s[n + 1 + i - 1]
  <2>1. n + 1 \in 1 .. Len(s) + 1 /\ n + 1 + m <= Len(s) + 1
    BY <1>1
  <2> QED BY <1>1, <2>1, BytesRead
<1>4. a = SubSeq(s, 1, n) /\ b = SubSeq(s, n + 1, Len(s))
  <2>1. 1 + n - 1 = n /\ n + 1 + m - 1 = Len(s)
    BY <1>1
  <2> QED BY <2>1
<1> HIDE DEF a, b
<1>5. a \o b \in Seq(Byte) /\ Len(a \o b) = n + m
      /\ \A i \in 1 .. n + m : (a \o b)[i] = IF i <= n THEN a[i] ELSE b[i - n]
  BY <1>2, <1>3, ConcatProperties
<1> DEFINE z == a \o b
<1>6. z \in Seq(Byte) /\ Len(z) = n + m /\ \A i \in 1 .. n + m : z[i] = IF i <= n THEN a[i] ELSE b[i - n]
  BY <1>5
<1> HIDE DEF z
<1>7. n + m = Len(s)
  BY <1>1
<1>8. ASSUME NEW i \in 1 .. Len(s) PROVE z[i] = s[i]
  <2>1. CASE i <= n
    <3>1. i \in 1 .. n /\ 1 + i - 1 = i
      BY <2>1
    <3> QED BY <1>2, <1>6, <1>7, <2>1, <3>1
  <2>2. CASE ~(i <= n)
    <3>1. i - n \in 1 .. m /\ n + 1 + (i - n) - 1 = i
      BY <1>1, <2>2
    <3> DEFINE k == i - n
    <3>2. b[k] = s[n + 1 + k - 1]
      BY <1>3, <3>1
    <3>3. z[i] = b[k]
      BY <1>6, <1>7, <2>2
    <3> QED BY <3>1, <3>2, <3>3
  <2> QED BY <2>1, <2>2
<1>9. z = s
  <2>1. Len(z) = Len(s) /\ \A i \in 1 .. Len(z) : z[i] = s[i]
    BY <1>6, <1>7, <1>8
  <2> QED BY <1>6, <2>1, SeqEqual
<1> QED BY <1>1, <1>2, <1>3, <1>4, <1>9 DEF z

\* What is there, in the order in which it was written.
Flow(g, s, o) == (g \o s) \o o

LEMMA FlowIs ==
  ASSUME NEW g \in Seq(Byte), NEW s \in Seq(Byte), NEW o \in Seq(Byte)
  PROVE  /\ Flow(g, s, o) \in Seq(Byte) /\ Len(Flow(g, s, o)) = Len(g) + Len(s) + Len(o)
         /\ Len(g) \in Nat /\ Len(s) \in Nat /\ Len(o) \in Nat
         /\ Within(Flow(g, s, o), 0, g) /\ Within(Flow(g, s, o), Len(g), s)
         /\ Within(Flow(g, s, o), 0, g \o s)
         /\ g \o s \in Seq(Byte) /\ Len(g \o s) = Len(g) + Len(s)
<1> DEFINE a == g \o s
           z == a \o o
<1>1. a \in Seq(Byte) /\ Len(a) = Len(g) + Len(s) /\ Within(a, 0, g) /\ Within(a, Len(g), s)
      /\ Len(g) \in Nat /\ Len(s) \in Nat
  BY WithinConcat
<1> HIDE DEF a
<1>2. z \in Seq(Byte) /\ Len(z) = Len(a) + Len(o) /\ Within(z, 0, a) /\ Len(o) \in Nat
  BY <1>1, WithinConcat
<1> HIDE DEF z
<1>3. Within(z, 0 + 0, g)
  BY <1>1, <1>2, WithinTrans
<1>4. Within(z, 0 + Len(g), s)
  BY <1>1, <1>2, WithinTrans
<1>5. 0 + 0 = 0 /\ 0 + Len(g) = Len(g)
  BY <1>1
<1> QED BY <1>1, <1>2, <1>3, <1>4, <1>5 DEF z, a, Flow

LEMMA Associative == \A a, b, c \in Seq(Byte) : (a \o b) \o c = a \o (b \o c)
<1> SUFFICES ASSUME NEW a \in Seq(Byte), NEW b \in Seq(Byte), NEW c \in Seq(Byte)
             PROVE  (a \o b) \o c = a \o (b \o c)
  OBVIOUS
<1>1. a \in Seq(Byte) /\ b \in Seq(Byte) /\ c \in Seq(Byte)
  OBVIOUS
<1> QED BY <1>1, ConcatAssociative

\* The operator of sequences, for the provers to leave as it is.
Glued(a, b) == a \o b

LEMMA GluedIs ==
  /\ \A a, b \in Seq(Byte) : Glued(a, b) \in Seq(Byte)
  /\ \A a, b, c \in Seq(Byte) : Glued(Glued(a, b), c) = Glued(a, Glued(b, c))
<1>1. \A a, b \in Seq(Byte) : Glued(a, b) \in Seq(Byte)
  BY ConcatProperties DEF Glued
<1>2. \A a, b, c \in Seq(Byte) : Glued(Glued(a, b), c) = Glued(a, Glued(b, c))
  BY Associative DEF Glued
<1> QED BY <1>1, <1>2

\* Where the bytes are cut does not matter.
LEMMA FlowRegroups ==
  \A g, s, a, b \in Seq(Byte) : /\ Flow(g, s \o a, b) = Flow(g, s, a \o b)
                                /\ Flow(g \o a, b, s) = Flow(g, a \o b, s)
<1>1. \A g, s, o : Flow(g, s, o) = Glued(Glued(g, s), o)
  BY DEF Flow, Glued
<1>2. \A g, s, a, b \in Seq(Byte) :
           /\ Flow(g, Glued(s, a), b) = Flow(g, s, Glued(a, b))
           /\ Flow(Glued(g, a), b, s) = Flow(g, Glued(a, b), s)
  <2> SUFFICES ASSUME NEW g \in Seq(Byte), NEW s \in Seq(Byte),
                      NEW a \in Seq(Byte), NEW b \in Seq(Byte)
               PROVE  /\ Flow(g, Glued(s, a), b) = Flow(g, s, Glued(a, b))
                      /\ Flow(Glued(g, a), b, s) = Flow(g, Glued(a, b), s)
    OBVIOUS
  <2>1. Glued(Glued(g, s), a) = Glued(g, Glued(s, a)) /\ Glued(Glued(g, a), b) = Glued(g, Glued(a, b))
    BY GluedIs
  <2>2. Glued(g, s) \in Seq(Byte)
    BY GluedIs
  <2>3. Glued(Glued(Glued(g, s), a), b) = Glued(Glued(g, s), Glued(a, b))
    BY <2>2, GluedIs
  <2> QED BY <1>1, <2>1, <2>3
<1> QED BY <1>2 DEF Glued

\* Bytes that are written or read are still there.
LEMMA FlowKept ==
  ASSUME NEW g \in Seq(Byte), NEW s \in Seq(Byte), NEW o \in Seq(Byte)
  PROVE  /\ \A n \in 0 .. Len(o) :
               Flow(g, s \o SubSeq(o, 1, n), SubSeq(o, n + 1, Len(o))) = Flow(g, s, o)
         /\ \A n \in 0 .. Len(s) :
               Flow(g \o SubSeq(s, 1, n), SubSeq(s, n + 1, Len(s)), o) = Flow(g, s, o)
<1>1. ASSUME NEW n \in 0 .. Len(o)
      PROVE  Flow(g, s \o SubSeq(o, 1, n), SubSeq(o, n + 1, Len(o))) = Flow(g, s, o)
  <2>1. PICK a \in Seq(Byte), b \in Seq(Byte) :
             a = SubSeq(o, 1, n) /\ b = SubSeq(o, n + 1, Len(o)) /\ a \o b = o
    <3>1. /\ SubSeq(o, 1, n) \in Seq(Byte) /\ SubSeq(o, n + 1, Len(o)) \in Seq(Byte)
          /\ SubSeq(o, 1, n) \o SubSeq(o, n + 1, Len(o)) = o
      BY Cutting
    <3> QED BY <3>1
  <2>2. Flow(g, s \o a, b) = Flow(g, s, a \o b)
    BY FlowRegroups
  <2> QED BY <2>1, <2>2
<1>2. ASSUME NEW n \in 0 .. Len(s)
      PROVE  Flow(g \o SubSeq(s, 1, n), SubSeq(s, n + 1, Len(s)), o) = Flow(g, s, o)
  <2>1. PICK a \in Seq(Byte), b \in Seq(Byte) :
             a = SubSeq(s, 1, n) /\ b = SubSeq(s, n + 1, Len(s)) /\ a \o b = s
    <3>1. /\ SubSeq(s, 1, n) \in Seq(Byte) /\ SubSeq(s, n + 1, Len(s)) \in Seq(Byte)
          /\ SubSeq(s, 1, n) \o SubSeq(s, n + 1, Len(s)) = s
      BY Cutting
    <3> QED BY <3>1
  <2>2. Flow(g \o a, b, o) = Flow(g, a \o b, o)
    BY FlowRegroups
  <2> QED BY <2>1, <2>2
<1> QED BY <1>1, <1>2

-----------------------------------------------------------------------------
(* What is said, as a stream of bytes. *)

Answers  == {ServerHello, OfHello, OfDaemon, BackOff} \cup MoreResponses \cup LastResponses
Frame(r) == Framed(EncodeResponse(r))

LEMMA FrameOf ==
  ASSUME NEW r \in Answers
  PROVE  /\ Frame(r) \in Seq(Byte) /\ Len(Frame(r)) \in Nat /\ Len(Frame(r)) >= 4
         /\ EncodeResponse(r) \in Seq(Byte) /\ Len(EncodeResponse(r)) <= FrameMax
         /\ Len(Frame(r)) = 4 + Len(EncodeResponse(r))
         /\ DecodeResponse(EncodeResponse(r)) = Is(r)
<1>1. IsResponse(r) /\ Len(EncodeResponse(r)) <= FrameMax
  BY ResponseAssumption DEF Answers
<1> DEFINE e == EncodeResponse(r)
<1>2. e \in Seq(Byte) /\ DecodeResponse(e) = Is(r)
  BY <1>1, ResponseRoundTrip
<1>3. Len(e) <= FrameMax
  BY <1>1
<1> HIDE DEF e
<1>4. Framed(e) \in Seq(Byte) /\ Len(Framed(e)) = 4 + Len(e) /\ Len(e) \in Nat
  BY <1>2, <1>3, FrameIs
<1>5. Frame(r) = Framed(e)
  BY DEF Frame, e
<1> QED BY <1>2, <1>3, <1>4, <1>5 DEF e

\* T holds the frames of s one after the other; the first i of them end at c[i].
IsStream(T, c, s) ==
    /\ T \in Seq(Byte) /\ c \in [0 .. Len(s) -> Nat] /\ c[0] = 0 /\ c[Len(s)] = Len(T)
    /\ \A i \in 1 .. Len(s) : c[i] = c[i - 1] + Len(Frame(s[i])) /\ Within(T, c[i - 1], Frame(s[i]))

\* Of the stream of s, x may come after the first h frames, or is all that comes.
Coming(s, h, x) == \E T : \E c : IsStream(T, c, s) /\ Within(T, c[h], x)
AllComing(s, h, x) ==
    \E T : \E c : IsStream(T, c, s) /\ Within(T, c[h], x) /\ c[h] + Len(x) = Len(T)

LEMMA NothingComes == AllComing(<<>>, 0, <<>>)
<1> DEFINE c == [i \in 0 .. 0 |-> 0]
<1>1. Len(<<>>) = 0 /\ <<>> \in Seq(Byte)
  OBVIOUS
<1>2. c \in [0 .. Len(<<>>) -> Nat] /\ c[0] = 0 /\ c[Len(<<>>)] = Len(<<>>)
  BY <1>1
<1> HIDE DEF c
<1>3. IsStream(<<>>, c, <<>>)
  BY <1>1, <1>2 DEF IsStream
<1>4. Within(<<>>, c[0], <<>>) /\ c[0] + Len(<<>>) = Len(<<>>)
  BY <1>1, <1>2 DEF Within
<1> QED BY <1>3, <1>4 DEF AllComing

LEMMA AllIsComing ==
  ASSUME NEW s, NEW h, NEW x, AllComing(s, h, x)
  PROVE  Coming(s, h, x)
BY DEF AllComing, Coming

LEMMA Beyond ==
  ASSUME NEW n \in Nat, NEW m \in Nat, NEW o \in Nat
  PROVE  /\ o + (n + m) = (o + n) + m
         /\ \A i \in 1 .. n + m : ~(i <= n) => i - n \in 1 .. m /\ o + i = (o + n) + (i - n)
OBVIOUS

\* One more response is said.
LEMMA ComingSaid ==
  ASSUME NEW s \in Seq(Answers), NEW h \in 0 .. Len(s), NEW x \in Seq(Byte), AllComing(s, h, x),
         NEW r \in Answers
  PROVE  AllComing(Append(s, r), h, x \o Frame(r))
<1> DEFINE f == Frame(r)
           n == Len(s)
           t == Append(s, r)
<1>1. f \in Seq(Byte) /\ Len(f) \in Nat
  BY FrameOf
<1>2. PICK T, c : IsStream(T, c, s) /\ Within(T, c[h], x) /\ c[h] + Len(x) = Len(T)
  BY DEF AllComing
<1>3. n \in Nat /\ t \in Seq(Answers) /\ Len(t) = n + 1 /\ t[n + 1] = r /\ \A i \in 1 .. n : t[i] = s[i]
  BY AppendProperties, LenProperties
<1>4. T \in Seq(Byte) /\ c \in [0 .. n -> Nat] /\ c[0] = 0 /\ c[n] = Len(T)
      /\ \A i \in 1 .. n : c[i] = c[i - 1] + Len(Frame(s[i])) /\ Within(T, c[i - 1], Frame(s[i]))
  BY <1>2 DEF IsStream
<1> DEFINE U == T \o f
           d == [i \in 0 .. n + 1 |-> IF i = n + 1 THEN c[n] + Len(f) ELSE c[i]]
<1>5. U \in Seq(Byte) /\ Len(U) = Len(T) + Len(f) /\ Within(U, 0, T) /\ Within(U, Len(T), f)
  <2> HIDE DEF f
  <2> QED BY <1>1, <1>4, WithinConcat
<1> HIDE DEF U, f, t
<1>6. d \in [0 .. n + 1 -> Nat] /\ d[n + 1] = c[n] + Len(f) /\ \A i \in 0 .. n : d[i] = c[i]
  BY <1>1, <1>3, <1>4
<1> HIDE DEF d
<1>7. \A i \in 1 .. n : Frame(s[i]) \in Seq(Byte)
  <2>1. \A i \in 1 .. n : s[i] \in Answers
    BY ElementOfSeq
  <2> QED BY <2>1, FrameOf
<1>8. ASSUME NEW i \in 1 .. n + 1
      PROVE  d[i] = d[i - 1] + Len(Frame(t[i])) /\ Within(U, d[i - 1], Frame(t[i]))
  <2>1. CASE i = n + 1
    <3>1. i - 1 = n /\ n \in 0 .. n /\ t[i] = r
      BY <1>3, <2>1
    <3>2. d[i - 1] = c[n] /\ d[i] = c[n] + Len(f) /\ c[n] = Len(T)
      BY <1>4, <1>6, <2>1, <3>1
    <3> QED BY <1>5, <3>1, <3>2 DEF f
  <2>2. CASE i # n + 1
    <3>1. i \in 1 .. n /\ i \in 0 .. n /\ i - 1 \in 0 .. n
      BY <1>3, <2>2
    <3>2. d[i] = c[i] /\ d[i - 1] = c[i - 1] /\ t[i] = s[i] /\ c[i - 1] \in Nat
      BY <1>3, <1>4, <1>6, <3>1
    <3>3. c[i] = c[i - 1] + Len(Frame(s[i])) /\ Within(T, c[i - 1], Frame(s[i]))
      BY <1>4, <3>1
    <3> DEFINE y == Frame(s[i])
               o == c[i - 1]
    <3>4. y \in Seq(Byte) /\ o \in Nat /\ Within(T, o, y)
      BY <1>7, <3>1, <3>2, <3>3
    <3> HIDE DEF y, o
    <3>5. Within(U, 0 + o, y) /\ 0 + o = o
      BY <1>4, <1>5, <3>4, WithinTrans
    <3> QED BY <3>2, <3>3, <3>5 DEF y, o
  <2> QED BY <2>1, <2>2
<1>9. IsStream(U, d, t)
  <2>1. d[0] = 0 /\ d[n + 1] = Len(U)
    BY <1>3, <1>4, <1>5, <1>6
  <2> QED BY <1>3, <1>5, <1>6, <1>8, <2>1 DEF IsStream
<1> DEFINE y == x \o f
           o == c[h]
<1>10. y \in Seq(Byte) /\ Len(y) = Len(x) + Len(f) /\ Len(x) \in Nat
       /\ \A i \in 1 .. Len(x) + Len(f) : y[i] = IF i <= Len(x) THEN x[i] ELSE f[i - Len(x)]
  BY <1>1, ConcatProperties, LenProperties
<1>11. o \in Nat /\ d[h] = o /\ o + Len(x) = Len(T) /\ Within(T, o, x) /\ Len(T) \in Nat
  BY <1>2, <1>4, <1>6, LenProperties
<1> HIDE DEF y, o
<1>12. ASSUME NEW i \in 1 .. Len(y) PROVE U[o + i] = y[i]
  <2>1. CASE i <= Len(x)
    <3>1. i \in 1 .. Len(x) /\ o + i \in 1 .. Len(T) /\ 0 + (o + i) = o + i
      BY <1>10, <1>11, <2>1
    <3>2. T[o + i] = x[i] /\ U[0 + (o + i)] = T[o + i]
      BY <1>5, <1>11, <3>1 DEF Within
    <3> QED BY <1>10, <2>1, <3>1, <3>2
  <2>2. CASE ~(i <= Len(x))
    <3> DEFINE k == i - Len(x)
    <3>1. k \in 1 .. Len(f) /\ o + i = Len(T) + k
      <4>1. i \in 1 .. Len(x) + Len(f) /\ o + Len(x) = Len(T)
        BY <1>10, <1>11
      <4>2. i - Len(x) \in 1 .. Len(f) /\ o + i = (o + Len(x)) + (i - Len(x))
        BY <1>1, <1>10, <1>11, <2>2, <4>1, Beyond
      <4> QED BY <4>1, <4>2
    <3>2. y[i] = f[k]
      BY <1>10, <2>2
    <3> HIDE DEF k
    <3>3. U[Len(T) + k] = f[k]
      BY <1>5, <3>1 DEF Within
    <3> QED BY <3>1, <3>2, <3>3
  <2> QED BY <2>1, <2>2
<1>13. o + Len(y) = Len(U)
  <2>1. o + (Len(x) + Len(f)) = (o + Len(x)) + Len(f)
    BY <1>1, <1>10, <1>11, Beyond
  <2>2. o + Len(x) = Len(T) /\ Len(y) = Len(x) + Len(f) /\ Len(U) = Len(T) + Len(f)
    BY <1>5, <1>10, <1>11
  <2> QED BY <2>1, <2>2
<1>14. Within(U, o, y)
  <2>1. o + Len(y) <= Len(U)
    BY <1>5, <1>13, LenProperties
  <2> QED BY <1>12, <2>1 DEF Within
<1>15. AllComing(t, h, y)
  BY <1>9, <1>11, <1>13, <1>14 DEF AllComing
<1> QED BY <1>15 DEF t, y, f

\* The last bytes are lost.
LEMMA ComingLost ==
  ASSUME NEW s \in Seq(Answers), NEW h \in 0 .. Len(s), NEW x \in Seq(Byte), NEW y \in Seq(Byte),
         Within(x, 0, y), Coming(s, h, x)
  PROVE  Coming(s, h, y)
<1>1. PICK T, c : IsStream(T, c, s) /\ Within(T, c[h], x)
  BY DEF Coming
<1>2. T \in Seq(Byte) /\ c[h] \in Nat
  BY <1>1 DEF IsStream
<1> DEFINE o == c[h]
<1>3. o \in Nat /\ Within(T, o, x)
  BY <1>1, <1>2
<1> HIDE DEF o
<1>4. Within(T, o + 0, y) /\ o + 0 = o
  BY <1>2, <1>3, WithinTrans
<1>5. Within(T, o, y)
  BY <1>4
<1> QED BY <1>1, <1>5 DEF Coming, o

\* The bytes that come are those of the next frame, and all of it comes if all comes.
LEMMA ComingFirst ==
  ASSUME NEW s \in Seq(Answers), NEW h \in 0 .. Len(s), NEW x \in Seq(Byte), Coming(s, h, x), h # Len(s)
  PROVE  /\ Agree(x, Frame(s[h + 1])) /\ s[h + 1] \in Answers
         /\ AllComing(s, h, x) => Len(x) >= Len(Frame(s[h + 1]))
<1>0. Len(s) \in Nat /\ h + 1 \in 1 .. Len(s) /\ (h + 1) - 1 = h
  BY LenProperties
<1> DEFINE f == Frame(s[h + 1])
<1>1. s[h + 1] \in Answers
  BY <1>0, ElementOfSeq
<1>2. f \in Seq(Byte) /\ Len(f) \in Nat
  BY <1>1, FrameOf
<1> HIDE DEF f
<1>3. ASSUME NEW T, NEW c, IsStream(T, c, s), Within(T, c[h], x)
      PROVE  Agree(x, f) /\ c[h] + Len(f) <= Len(T) /\ c[h] \in Nat /\ Len(T) \in Nat
  <2>1. Within(T, c[h], f) /\ c[h] \in Nat /\ T \in Seq(Byte)
    BY <1>0, <1>3 DEF IsStream, f
  <2> DEFINE o == c[h]
  <2>2. Within(T, o, f) /\ Within(T, o, x)
    BY <1>3, <2>1
  <2> HIDE DEF o
  <2>3. ASSUME NEW j \in 1 .. Len(x), j <= Len(f) PROVE x[j] = f[j]
    <3>1. j \in 1 .. Len(f)
      BY <1>2, <2>3, LenProperties
    <3> QED BY <2>2, <3>1 DEF Within
  <2>4. o + Len(f) <= Len(T)
    BY <2>2 DEF Within
  <2> QED BY <2>1, <2>3, <2>4, LenProperties DEF Agree, o
<1>4. Agree(x, f)
  BY <1>3 DEF Coming
<1>5. ASSUME AllComing(s, h, x) PROVE Len(x) >= Len(f)
  <2>1. PICK T, c : IsStream(T, c, s) /\ Within(T, c[h], x) /\ c[h] + Len(x) = Len(T)
    BY <1>5 DEF AllComing
  <2>2. c[h] + Len(f) <= Len(T) /\ c[h] \in Nat /\ Len(T) \in Nat /\ c[h] + Len(x) = Len(T)
    BY <1>3, <2>1
  <2> DEFINE o == c[h]
  <2>3. o + Len(f) <= o + Len(x) /\ o \in Nat /\ Len(x) \in Nat
    BY <2>2, LenProperties
  <2> HIDE DEF o
  <2> QED BY <1>2, <2>3
<1> QED BY <1>1, <1>4, <1>5 DEF f

\* After the last frame nothing comes.
LEMMA ComingEnd ==
  ASSUME NEW s \in Seq(Answers), NEW x \in Seq(Byte), Coming(s, Len(s), x)
  PROVE  Len(x) = 0
<1>1. PICK T, c : IsStream(T, c, s) /\ Within(T, c[Len(s)], x)
  BY DEF Coming
<1>2. c[Len(s)] = Len(T) /\ T \in Seq(Byte)
  BY <1>1 DEF IsStream
<1>3. Len(T) + Len(x) <= Len(T)
  BY <1>1, <1>2 DEF Within
<1> QED BY <1>2, <1>3, LenProperties

\* A frame is taken.
LEMMA ComingHeard ==
  ASSUME NEW s \in Seq(Answers), NEW h \in 0 .. Len(s), h # Len(s), NEW x \in Seq(Byte)
  PROVE  /\ Coming(s, h, Frame(s[h + 1]) \o x) => Coming(s, h + 1, x)
         /\ AllComing(s, h, Frame(s[h + 1]) \o x) => AllComing(s, h + 1, x)
<1>0. Len(s) \in Nat /\ h + 1 \in 1 .. Len(s) /\ (h + 1) - 1 = h /\ h + 1 \in 0 .. Len(s)
  BY LenProperties
<1> DEFINE f == Frame(s[h + 1])
           y == f \o x
<1>1. s[h + 1] \in Answers
  BY <1>0, ElementOfSeq
<1>2. f \in Seq(Byte) /\ Len(f) \in Nat
  BY <1>1, FrameOf
<1> HIDE DEF f
<1>3. y \in Seq(Byte) /\ Len(y) = Len(f) + Len(x) /\ Within(y, Len(f), x) /\ Len(x) \in Nat
  BY <1>2, WithinConcat
<1> HIDE DEF y
<1>4. ASSUME NEW T, NEW c, IsStream(T, c, s), Within(T, c[h], y)
      PROVE  Within(T, c[h + 1], x) /\ (c[h] + Len(y) = Len(T) => c[h + 1] + Len(x) = Len(T))
  <2>1. c[h + 1] = c[h] + Len(f) /\ c[h] \in Nat /\ T \in Seq(Byte)
    BY <1>0, <1>4 DEF IsStream, f
  <2> DEFINE o == c[h]
  <2>2. o \in Nat /\ Within(T, o, y)
    BY <1>4, <2>1
  <2> HIDE DEF o
  <2>3. Within(T, o + Len(f), x)
    BY <1>2, <1>3, <2>1, <2>2, WithinTrans
  <2>4. c[h + 1] = o + Len(f)
    BY <2>1 DEF o
  <2>5. o + Len(y) = Len(T) => (o + Len(f)) + Len(x) = Len(T)
    BY <1>2, <1>3, <2>2
  <2> QED BY <2>3, <2>4, <2>5 DEF o
<1>5. ASSUME Coming(s, h, y) PROVE Coming(s, h + 1, x)
  BY <1>4, <1>5 DEF Coming
<1>6. ASSUME AllComing(s, h, y) PROVE AllComing(s, h + 1, x)
  BY <1>4, <1>6 DEF AllComing
<1> QED BY <1>5, <1>6 DEF y, f

-----------------------------------------------------------------------------
(* The inductive invariant.  NothingIsMisread alone is not: that what is read is *)
(* what was said takes that the bytes on their way (read, in the socket and to   *)
(* be written) are what is left of the frames of what was said; that nothing is  *)
(* misread at the end takes that the daemon goes only once all it said is sent.   *)

Flowing(w) == Flow(got[w], socket[w], out[w])

\* Each variable has its type; what is said and heard are answers.
TypesHold ==
    /\ TypeOK
    /\ config \in Configs /\ hello \in Hellos /\ doneSeen \in BOOLEAN
    /\ out \in [Ways -> Seq(Byte)] /\ socket \in [Ways -> Seq(Byte)] /\ got \in [Ways -> Seq(Byte)]
    /\ closed \in [Ways -> BOOLEAN]
    /\ said \in Seq(Answers) /\ heard \in Seq(Answers)

\* A daemon that is up has a configuration that is valid and loads.
ModelsHold == models # {} => Valid(config) /\ Loads(config) /\ models = ToSet(config.models)

\* What goes up is what the client meant.
UpHolds ==
    /\ closed["up"] => client \in {"unsent", "dead"}
    /\ client \in {"new", "unsent"} => Flowing("up") = <<>>
    /\ client \notin {"new", "unsent"} =>
          \E body \in Encodings : Len(body) <= FrameMax /\ Within(Framed(body), 0, Flowing("up"))

\* What the daemon has said goes with where it is: greetings first, then segments
\* and speech, and one last response.
SaidHolds ==
    /\ daemon \in {"starting", "exited", "reading"} => said = <<>>
    /\ daemon \in {"greeted", "live", "detached"} => header # <<>>
    /\ header # <<>> =>
          /\ said # <<>> /\ said[1] = ServerHello
          /\ header = <<Header(hello)>> /\ ValidHello(hello) /\ hello.model \in models
    /\ header = <<>> /\ said # <<>> =>
          said \in {<<OfHello>>, <<OfDaemon>>} /\ daemon \in {"leaving", "left", "dead"}
    /\ daemon = "greeted" => Len(said) = 1
    /\ \A i \in 2 .. Len(said) :
          i < Len(said) \/ daemon = "live" => said[i].kind \in {"segment", "speech"}
    /\ said = <<OfHello>> =>
          client \in {"unsent", "dead"} \/ ~ValidHello(hello) \/ hello.model \notin models

\* The descriptor goes with the first byte, and the first read takes it.
FdHolds ==
    /\ fd = "none" <=> header = <<>>
    /\ fd = "sent" => heard = <<>> /\ got["down"] = <<>> /\ socket["down"] = <<>>
    /\ fd = "socket" => got["down"] = <<>>
    /\ fd # "lost"
    /\ client = "session" => fd = "client" /\ attached = <<RingBytes>> /\ heard # <<>>

\* What goes down is what was said and not yet heard: all of it, unless one of
\* the two has gone.
DownHolds ==
    /\ daemon \in {"left", "dead"} => out["down"] = <<>>
    /\ closed["down"] => daemon \in {"left", "dead"}
    /\ Len(heard) <= Len(said) /\ \A i \in 1 .. Len(heard) : heard[i] = said[i]
    /\ Coming(said, Len(heard), Flowing("down"))
    /\ daemon # "dead" /\ (client \in {"greeting", "session"} \/ daemon \in {"starting", "reading", "greeted", "live"}) =>
          AllComing(said, Len(heard), Flowing("down"))
    /\ Len(heard) < Len(said) => Len(got["down"]) <= Len(Frame(said[Len(heard) + 1]))

\* The client learns of the end only when the daemon has come to it.
EndHolds ==
    /\ client \in {"new", "unsent", "greeting"} => heard = <<>> /\ doneSeen = FALSE
    /\ client = "greeting" =>
          /\ got["down"] = <<>> \/ Len(got["down"]) >= 4
          /\ got["down"] = <<>> => socket["down"] = <<>> \/ Len(socket["down"]) >= 4
    /\ client \in {"raised", "refused"} => daemon = "dead" \/ (heard = said /\ daemon \in Closing)
    /\ doneSeen \/ client = "stopped" =>
          /\ heard = said /\ daemon \in Closing
          /\ heard # <<>> /\ heard[Len(heard)].kind = "done"

IInv ==
    /\ TypesHold /\ ModelsHold /\ UpHolds /\ SaidHolds /\ FdHolds /\ DownHolds /\ EndHolds

-----------------------------------------------------------------------------
(* What the invariant says of what is read. *)

LEMMA Basics ==
  ASSUME IInv
  PROVE  /\ Len(said) \in Nat /\ Len(heard) \in 0 .. Len(said) /\ Len(heard) \in Nat
         /\ said \in Seq(Answers) /\ heard \in Seq(Answers)
         /\ \A w \in Ways :
              /\ out[w] \in Seq(Byte) /\ socket[w] \in Seq(Byte) /\ got[w] \in Seq(Byte)
              /\ Len(out[w]) \in Nat /\ Len(socket[w]) \in Nat /\ Len(got[w]) \in Nat
              /\ Len(socket[w]) <= SocketBytes
              /\ Flowing(w) \in Seq(Byte) /\ Within(Flowing(w), 0, got[w])
              /\ Len(Flowing(w)) = Len(got[w]) + Len(socket[w]) + Len(out[w])
         /\ out \in [Ways -> Seq(Byte)] /\ socket \in [Ways -> Seq(Byte)] /\ got \in [Ways -> Seq(Byte)]
         /\ closed \in [Ways -> BOOLEAN]
         /\ "up" \in Ways /\ "down" \in Ways
<1>1. TypesHold /\ DownHolds
  BY DEF IInv
<1>2. said \in Seq(Answers) /\ heard \in Seq(Answers) /\ Len(heard) <= Len(said)
  BY <1>1 DEF TypesHold, DownHolds
<1>3. Len(said) \in Nat /\ Len(heard) \in 0 .. Len(said) /\ Len(heard) \in Nat
  BY <1>2, LenProperties
<1>4. /\ out \in [Ways -> Seq(Byte)] /\ socket \in [Ways -> Seq(Byte)] /\ got \in [Ways -> Seq(Byte)]
      /\ closed \in [Ways -> BOOLEAN] /\ \A w \in Ways : Len(socket[w]) <= SocketBytes
  BY <1>1 DEF TypesHold, TypeOK
<1>5. ASSUME NEW w \in Ways
      PROVE  /\ out[w] \in Seq(Byte) /\ socket[w] \in Seq(Byte) /\ got[w] \in Seq(Byte)
             /\ Len(out[w]) \in Nat /\ Len(socket[w]) \in Nat /\ Len(got[w]) \in Nat
             /\ Flowing(w) \in Seq(Byte) /\ Within(Flowing(w), 0, got[w])
             /\ Len(Flowing(w)) = Len(got[w]) + Len(socket[w]) + Len(out[w])
  <2>1. out[w] \in Seq(Byte) /\ socket[w] \in Seq(Byte) /\ got[w] \in Seq(Byte)
    BY <1>4
  <2> QED BY <2>1, FlowIs DEF Flowing
<1>6. "up" \in Ways /\ "down" \in Ways
  BY DEF Ways
<1> QED BY <1>2, <1>3, <1>4, <1>5, <1>6

\* What has been read of the next frame is a part of it.
LEMMA GotIsNext ==
  ASSUME IInv, Len(heard) # Len(said)
  PROVE  LET r == said[Len(heard) + 1]
             g == got["down"]
         IN  /\ r \in Answers /\ Len(heard) + 1 \in 1 .. Len(said)
             /\ Agree(g, Frame(r)) /\ Len(g) <= Len(Frame(r))
             /\ Len(g) >= 4 => LengthOf(g) = Len(EncodeResponse(r))
<1> DEFINE n == Len(heard) + 1
           r == said[n]
           g == got["down"]
           f == Frame(r)
<1>1. /\ g \in Seq(Byte) /\ Len(g) \in Nat /\ Len(heard) \in 0 .. Len(said) /\ Len(said) \in Nat
      /\ Flowing("down") \in Seq(Byte) /\ Within(Flowing("down"), 0, g) /\ said \in Seq(Answers)
  BY Basics
<1>2. DownHolds
  BY DEF IInv
<1>3. Coming(said, Len(heard), Flowing("down")) /\ (Len(heard) < Len(said) => Len(g) <= Len(f))
  BY <1>2 DEF DownHolds
<1>4. r \in Answers /\ Agree(Flowing("down"), f)
  BY <1>1, <1>3, ComingFirst
<1>5. n \in 1 .. Len(said) /\ Len(g) <= Len(f)
  BY <1>1, <1>3
<1>6. f \in Seq(Byte) /\ EncodeResponse(r) \in Seq(Byte) /\ Len(EncodeResponse(r)) <= FrameMax
  BY <1>4, FrameOf
<1>7. Agree(g, f)
  <2> DEFINE F == Flowing("down")
  <2>1. F \in Seq(Byte) /\ Within(F, 0, g) /\ Agree(F, f)
    BY <1>1, <1>4
  <2> HIDE DEF F, g, f, n, r
  <2>2. Len(F) \in Nat /\ Len(g) \in Nat /\ Len(g) <= Len(F)
    <3>1. 0 + Len(g) <= Len(F)
      BY <2>1 DEF Within
    <3>2. Len(g) \in Nat
      BY <1>1 DEF g
    <3> QED BY <2>1, <3>1, <3>2, LenProperties
  <2>3. \A j \in 1 .. Len(g) : j \in 1 .. Len(F) /\ F[0 + j] = g[j] /\ 0 + j = j
    BY <2>1, <2>2 DEF Within
  <2> QED BY <2>1, <2>3 DEF Agree
<1>8. Len(g) >= 4 => LengthOf(g) = Len(EncodeResponse(r))
  BY <1>1, <1>6, <1>7, FrameIs DEF Frame
<1> QED BY <1>4, <1>5, <1>7, <1>8

\* Nothing is on its way when all has been heard.
LEMMA NothingLeft ==
  ASSUME IInv, Len(heard) = Len(said)
  PROVE  /\ got["down"] = <<>> /\ socket["down"] = <<>> /\ out["down"] = <<>>
         /\ Len(got["down"]) = 0 /\ Len(socket["down"]) = 0 /\ Len(out["down"]) = 0
<1>1. DownHolds
  BY DEF IInv
<1>2. Coming(said, Len(said), Flowing("down"))
  BY <1>1 DEF DownHolds
<1>3. Len(Flowing("down")) = 0
  BY <1>2, Basics, ComingEnd
<1>4. /\ Len(got["down"]) = 0 /\ Len(socket["down"]) = 0 /\ Len(out["down"]) = 0
      /\ got["down"] \in Seq(Byte) /\ socket["down"] \in Seq(Byte) /\ out["down"] \in Seq(Byte)
  BY <1>3, Basics
<1>5. \A x \in Seq(Byte) : Len(x) = 0 => x = <<>>
  BY EmptySeq
<1> QED BY <1>4, <1>5

\* A frame that has been received is the next one, and decodes to what was said.
LEMMA ReceivedIsNext ==
  ASSUME IInv, Received("down")
  PROVE  LET r == said[Len(heard) + 1]
         IN  /\ Len(heard) # Len(said) /\ r \in Answers /\ Len(heard) + 1 \in 1 .. Len(said)
             /\ got["down"] = Frame(r) /\ ReceivedResponse = {Is(r)} /\ Len(got["down"]) >= 4
<1> DEFINE r == said[Len(heard) + 1]
           g == got["down"]
           e == EncodeResponse(r)
<1>1. Len(g) >= 4 /\ Len(g) = 4 + LengthOf(g)
  BY DEF Received
<1>2. Len(heard) # Len(said)
  BY <1>1, NothingLeft
<1>3. r \in Answers /\ Agree(g, Frame(r)) /\ g \in Seq(Byte) /\ Len(heard) + 1 \in 1 .. Len(said)
  BY <1>2, GotIsNext, Basics
<1>4. e \in Seq(Byte) /\ Len(e) <= FrameMax /\ DecodeResponse(e) = Is(r)
  BY <1>3, FrameOf
<1>5. g = Framed(e) /\ SubSeq(g, 5, Len(g)) = e
  BY <1>1, <1>3, <1>4, FrameReceived DEF Frame
<1>6. ReceivedResponse = {Is(r)}
  BY <1>4, <1>5 DEF ReceivedResponse, Body
<1> QED BY <1>1, <1>2, <1>3, <1>5, <1>6 DEF Frame

\* The client's read fails only at the end.
LEMMA ReadsToTheEnd ==
  ASSUME IInv, client \in {"greeting", "session"}, ReadFails("down")
  PROVE  daemon = "dead" \/ (heard = said /\ daemon = "left")
<1>1. Len(got["down"]) \in Nat /\ got["down"] \in Seq(Byte) /\ said \in Seq(Answers) /\ heard \in Seq(Answers)
      /\ Len(heard) \in 0 .. Len(said) /\ Len(said) \in Nat
  BY Basics
<1>2. ~Cut("down")
  <2> SUFFICES ASSUME client = "greeting", Len(got["down"]) \in 1 .. 3 PROVE FALSE
    BY DEF Cut
  <2>1. got["down"] = <<>> \/ Len(got["down"]) >= 4
    BY DEF IInv, EndHolds
  <2>2. got["down"] = <<>> => Len(got["down"]) = 0
    OBVIOUS
  <2> DEFINE n == Len(got["down"])
  <2>3. n \in 1 .. 3 /\ (n = 0 \/ n >= 4)
    BY <2>1, <2>2
  <2> HIDE DEF n
  <2> QED BY <2>3
<1>3. ~TooLong("down")
  <2> SUFFICES ASSUME Len(got["down"]) = 4, LengthOf(got["down"]) > FrameMax PROVE FALSE
    BY DEF TooLong
  <2>1. Len(heard) # Len(said)
    BY NothingLeft
  <2>2. LengthOf(got["down"]) = Len(EncodeResponse(said[Len(heard) + 1])) /\ said[Len(heard) + 1] \in Answers
    BY <2>1, GotIsNext
  <2>3. Len(EncodeResponse(said[Len(heard) + 1])) <= FrameMax
    BY <2>2, FrameOf
  <2>4. Len(EncodeResponse(said[Len(heard) + 1])) \in Nat /\ FrameMax \in Nat
    BY <2>2, FrameOf, LenProperties, ConnectionAssumption
  <2> QED BY <2>2, <2>3, <2>4
<1>4. Eof("down")
  BY <1>2, <1>3 DEF ReadFails
<1>5. daemon \in {"left", "dead"} /\ out["down"] = <<>> /\ socket["down"] = <<>> /\ ~Received("down")
  BY <1>4 DEF Eof, IInv, DownHolds
<1>6. ASSUME daemon = "left" PROVE Len(heard) = Len(said)
  <2> SUFFICES ASSUME Len(heard) # Len(said) PROVE FALSE
    OBVIOUS
  <2> DEFINE r == said[Len(heard) + 1]
             g == got["down"]
  <2>1. r \in Answers /\ Agree(g, Frame(r)) /\ Len(g) <= Len(Frame(r))
        /\ (Len(g) >= 4 => LengthOf(g) = Len(EncodeResponse(r)))
    BY GotIsNext
  <2>2. AllComing(said, Len(heard), Flowing("down"))
    BY <1>5, <1>6 DEF IInv, DownHolds
  <2>3. Len(Flowing("down")) >= Len(Frame(r))
    <3>1. Coming(said, Len(heard), Flowing("down")) /\ Flowing("down") \in Seq(Byte)
      BY Basics DEF IInv, DownHolds
    <3> QED BY <1>1, <2>2, <3>1, ComingFirst
  <2>4. Len(Flowing("down")) = Len(g)
    <3>1. Len(out["down"]) = 0 /\ Len(socket["down"]) = 0
      BY <1>5
    <3> QED BY <1>1, <3>1, Basics
  <2>5. Len(Frame(r)) = 4 + Len(EncodeResponse(r)) /\ Len(Frame(r)) >= 4 /\ Len(Frame(r)) \in Nat
    BY <2>1, FrameOf
  <2>6. Len(g) = Len(Frame(r)) /\ Len(g) >= 4
    BY <1>1, <2>1, <2>3, <2>4, <2>5
  <2>7. Len(g) = 4 + LengthOf(g)
    BY <2>1, <2>5, <2>6
  <2> QED BY <1>5, <2>6, <2>7 DEF Received
<1>7. ASSUME Len(heard) = Len(said) PROVE heard = said
  <2>1. \A i \in 1 .. Len(heard) : heard[i] = said[i]
    BY DEF IInv, DownHolds
  <2> QED BY <1>1, <1>7, <2>1, SeqEqual
<1> QED BY <1>5, <1>6, <1>7

\* The daemon reads what the client meant.
LEMMA HelloIsRead ==
  ASSUME IInv, NEW body \in Encodings
  PROVE  /\ body \in Seq(Byte)
         /\ DecodeClientHello(body, DefaultHello) = IF hello.model = <<>> THEN Fails ELSE Is(hello)
<1>1. hello \in Hellos
  BY DEF IInv, TypesHold
<1>2. IsMessage(HelloSchema, hello) /\ IsMessage(HelloSchema, DefaultHello)
  BY <1>1, HelloAssumption
<1>3. DOMAIN DefaultHello = Names(HelloSchema)
  <2>1. IsRecordOf(HelloSchema, DefaultHello)
    BY <1>2 DEF IsMessage
  <2>2. DefaultHello = [name \in Names(HelloSchema) |-> DefaultHello[name]]
    BY <2>1 DEF IsRecordOf
  <2> DEFINE h == DefaultHello
  <2>3. h = [name \in Names(HelloSchema) |-> h[name]]
    BY <2>2
  <2> HIDE DEF h
  <2>4. DOMAIN h = Names(HelloSchema)
    BY <2>3
  <2> QED BY <2>4 DEF h
<1>4. CASE \E f \in Unknown : body \in {EncodeField(f) \o EncodeClientHello(hello),
                                       EncodeClientHello(hello) \o EncodeField(f)}
  <2>0. PICK f \in Unknown : body \in {EncodeField(f) \o EncodeClientHello(hello),
                                      EncodeClientHello(hello) \o EncodeField(f)}
    BY <1>4
  <2> DEFINE more == EncodeField(f)
  <2>1. body \in {EncodeClientHello(hello), more \o EncodeClientHello(hello),
                  EncodeClientHello(hello) \o more}
    BY <2>0
  <2>2. more \in Seq(Byte) /\ Fields(more) # Fails /\ Known(HelloSchema, Fields(more)[1]) = {}
    <3>1. IsField(f) /\ Known(HelloSchema, <<f>>) = {}
      BY HelloAssumption
    <3>2. more \in Seq(Byte) /\ Fields(more) = Is(<<f>>)
      BY <3>1, FieldRoundTrip
    <3> QED BY <3>1, <3>2, IsSome
  <2> HIDE DEF more
  <2> QED BY <1>2, <1>3, <2>1, <2>2, HelloRoundTrip
<1>5. CASE body = EncodeClientHello(hello)
  <2>1. <<>> \in Seq(Byte) /\ Fields(<<>>) # Fails /\ Known(HelloSchema, Fields(<<>>)[1]) = {}
    <3>1. Fields(<<>>) = Is(<<>>)
      BY FieldsEmpty
    <3>2. Fields(<<>>) # Fails /\ Fields(<<>>)[1] = <<>>
      BY <3>1, IsSome
    <3>3. Known(HelloSchema, <<>>) = {}
      BY DEF Known
    <3> QED BY <3>2, <3>3
  <2> QED BY <1>2, <1>3, <1>5, <2>1, HelloRoundTrip
<1> QED BY <1>4, <1>5 DEF Encodings

\* What is received from the client is what it sent, and the read fails only if
\* nobody will send.
LEMMA UpIsMeant ==
  ASSUME IInv, daemon = "reading"
  PROVE  /\ ReadFails("up") => client \in {"unsent", "dead"}
         /\ Received("up") => Body("up") \in Encodings
<1>1. UpHolds /\ TypesHold
  BY DEF IInv
<1> DEFINE g == got["up"]
<1>2. g \in Seq(Byte) /\ Len(g) \in Nat /\ Len(Flowing("up")) = Len(g) + Len(socket["up"]) + Len(out["up"])
      /\ Len(socket["up"]) \in Nat /\ Len(out["up"]) \in Nat /\ Within(Flowing("up"), 0, g)
      /\ Flowing("up") \in Seq(Byte)
  BY Basics
<1>3. ASSUME Len(g) >= 4
      PROVE  \E body \in Encodings : /\ body \in Seq(Byte) /\ Len(body) <= FrameMax
                                     /\ Agree(g, Framed(body)) /\ LengthOf(g) = Len(body)
  <2>1. client \notin {"new", "unsent"}
    <3> SUFFICES ASSUME Flowing("up") = <<>> PROVE FALSE
      BY <1>1 DEF UpHolds
    <3>1. Len(Flowing("up")) = 0
      OBVIOUS
    <3> DEFINE a == Len(g)
               b == Len(socket["up"])
               c == Len(out["up"])
    <3>2. a + b + c = 0 /\ a \in Nat /\ b \in Nat /\ c \in Nat /\ a >= 4
      BY <1>2, <1>3, <3>1
    <3> HIDE DEF a, b, c
    <3> QED BY <3>2
  <2>2. PICK body \in Encodings : Len(body) <= FrameMax /\ Within(Framed(body), 0, Flowing("up"))
    BY <1>1, <2>1 DEF UpHolds
  <2>3. body \in Seq(Byte)
    BY HelloIsRead
  <2>4. Framed(body) \in Seq(Byte)
    BY <2>2, <2>3, FrameIs
  <2> DEFINE f == Framed(body)
             F == Flowing("up")
  <2>5. f \in Seq(Byte) /\ F \in Seq(Byte) /\ Within(f, 0, F) /\ Within(F, 0, g)
    BY <1>2, <2>2, <2>4
  <2> HIDE DEF f, F
  <2>6. Within(f, 0 + 0, g) /\ 0 + 0 = 0
    BY <1>2, <2>5, WithinTrans
  <2>7. Agree(g, f)
    <3>1. \A j \in 1 .. Len(g) : f[0 + j] = g[j] /\ 0 + j = j
      BY <1>2, <2>6 DEF Within
    <3> QED BY <3>1 DEF Agree
  <2>8. Agree(g, Framed(body))
    BY <2>7 DEF f
  <2>9. LengthOf(g) = Len(body)
    BY <1>2, <1>3, <2>2, <2>3, <2>8, FrameIs
  <2> QED BY <2>2, <2>3, <2>8, <2>9
<1>4. ~TooLong("up")
  <2> SUFFICES ASSUME Len(g) = 4, LengthOf(g) > FrameMax PROVE FALSE
    BY DEF TooLong
  <2>1. PICK body \in Encodings : body \in Seq(Byte) /\ Len(body) <= FrameMax /\ LengthOf(g) = Len(body)
    BY <1>3
  <2>2. Len(body) \in Nat /\ FrameMax \in Nat
    BY <2>1, LenProperties, ConnectionAssumption
  <2> QED BY <2>1, <2>2
<1>5. ReadFails("up") => client \in {"unsent", "dead"}
  <2>1. ~Cut("up")
    BY DEF Cut
  <2> QED BY <1>1, <1>4, <2>1 DEF ReadFails, Eof, UpHolds
<1>6. ASSUME Received("up") PROVE Body("up") \in Encodings
  <2>1. Len(g) >= 4 /\ Len(g) = 4 + LengthOf(g)
    BY <1>6 DEF Received
  <2>2. PICK body \in Encodings : body \in Seq(Byte) /\ Len(body) <= FrameMax /\ Agree(g, Framed(body))
    BY <1>3, <2>1
  <2>3. SubSeq(g, 5, Len(g)) = body
    BY <1>2, <2>1, <2>2, FrameReceived
  <2> QED BY <2>2, <2>3 DEF Body
<1> QED BY <1>5, <1>6

-----------------------------------------------------------------------------
(* The steps: each keeps every part of the invariant. *)

LEMMA InitHolds == Init => IInv
<1> SUFFICES ASSUME Init PROVE IInv
  OBVIOUS
<1>1. /\ config \in Configs /\ daemon = "starting" /\ models = {} /\ header = <<>> /\ said = <<>>
      /\ client = "new" /\ hello \in Hellos /\ heard = <<>> /\ doneSeen = FALSE /\ fd = "none"
      /\ out = [w \in Ways |-> <<>>] /\ socket = [w \in Ways |-> <<>>] /\ got = [w \in Ways |-> <<>>]
      /\ closed = [w \in Ways |-> FALSE]
  BY DEF Init
<1>2. <<>> \in Seq(Byte) /\ Len(<<>>) = 0 /\ <<>> \in Seq(Answers)
  OBVIOUS
<1>3. \A w \in Ways : out[w] = <<>> /\ socket[w] = <<>> /\ got[w] = <<>> /\ ~closed[w]
  BY <1>1
<1>4. "up" \in Ways /\ "down" \in Ways
  BY DEF Ways
<1>5. /\ out \in [Ways -> Seq(Byte)] /\ socket \in [Ways -> Seq(Byte)] /\ got \in [Ways -> Seq(Byte)]
      /\ closed \in [Ways -> BOOLEAN]
  BY <1>1, <1>2
<1>6. (<<>> \o <<>>) \o <<>> = <<>>
  BY <1>2, ConcatEmptySeq
<1>7. \A w \in Ways : Flowing(w) = <<>>
  BY <1>3, <1>6 DEF Flowing, Flow
<1>8. TypesHold
  <2>1. \A w \in Ways : Len(socket[w]) <= SocketBytes
    BY <1>2, <1>3, ConnectionAssumption
  <2>2. \A w \in Ways : /\ Len(socket[w]) <= SocketBytes
                        /\ \A bytes \in {out[w], socket[w], got[w]} : bytes \in Seq(0..255)
    BY <1>5, <2>1 DEF Byte
  <2>3. TypeOK
    BY <1>1, <2>2 DEF TypeOK
  <2> QED BY <1>1, <1>2, <1>5, <2>3 DEF TypesHold
<1>9. UpHolds
  BY <1>1, <1>3, <1>4, <1>7 DEF UpHolds
<1>10. SaidHolds
  <2>1. \A i \in 2 .. Len(said) : FALSE
    BY <1>1, <1>2
  <2>2. said # <<OfHello>>
    <3>1. Len(<<OfHello>>) = 1
      OBVIOUS
    <3> QED BY <1>1, <1>2, <3>1
  <2> QED BY <1>1, <2>1, <2>2 DEF SaidHolds
<1>11. DownHolds
  <2>1. AllComing(said, Len(heard), Flowing("down"))
    BY <1>1, <1>2, <1>4, <1>7, NothingComes
  <2>2. Coming(said, Len(heard), Flowing("down"))
    BY <2>1, AllIsComing
  <2>3. Len(heard) <= Len(said) /\ ~(Len(heard) < Len(said)) /\ \A i \in 1 .. Len(heard) : FALSE
    BY <1>1, <1>2
  <2> QED BY <1>1, <1>3, <1>4, <2>1, <2>2, <2>3 DEF DownHolds
<1>12. EndHolds
  BY <1>1 DEF EndHolds
<1>13. FdHolds /\ ModelsHold
  BY <1>1 DEF FdHolds, ModelsHold
<1> QED BY <1>8, <1>9, <1>10, <1>11, <1>12, <1>13 DEF IInv

-----------------------------------------------------------------------------
LEMMA MinOfTwo ==
  ASSUME NEW a \in Int, NEW b \in Int
  PROVE  Min({a, b}) \in {a, b} /\ Min({a, b}) <= a /\ Min({a, b}) <= b
<1>1. \E x \in {a, b} : \A y \in {a, b} : x <= y
  OBVIOUS
<1> DEFINE P(x) == x \in {a, b} /\ \A y \in {a, b} : x <= y
<1>2. \E x : P(x)
  BY <1>1
<1>3. P(CHOOSE x : P(x))
  BY <1>2
<1>4. Min({a, b}) = CHOOSE x \in {a, b} : \A y \in {a, b} : x <= y
  BY DEF Min
<1>5. Min({a, b}) \in {a, b} /\ \A y \in {a, b} : Min({a, b}) <= y
  BY <1>1, <1>4
<1> QED BY <1>5

\* What a write leaves on its way.
LEMMA Written ==
  ASSUME IInv, NEW w \in Ways, WriteSome(w)
  PROVE  LET n == WhatFits(w)
         IN  /\ n \in 1 .. Len(out[w]) /\ Len(socket[w]) + n <= SocketBytes
             /\ n = Len(out[w]) \/ Len(socket[w]) + n = SocketBytes
             /\ out' \in [Ways -> Seq(Byte)] /\ socket' \in [Ways -> Seq(Byte)] /\ got' = got
             /\ Len(socket'[w]) = Len(socket[w]) + n
             /\ \A v \in Ways : v # w => out'[v] = out[v] /\ socket'[v] = socket[v]
             /\ \A v \in Ways : Flowing(v)' = Flowing(v)
<1> DEFINE n == WhatFits(w)
           a == SubSeq(out[w], 1, n)
           b == SubSeq(out[w], n + 1, Len(out[w]))
<1>1. /\ out[w] \in Seq(Byte) /\ socket[w] \in Seq(Byte) /\ got[w] \in Seq(Byte)
      /\ Len(out[w]) \in Nat /\ Len(socket[w]) \in Nat
      /\ out \in [Ways -> Seq(Byte)] /\ socket \in [Ways -> Seq(Byte)]
  BY Basics
<1>2. /\ n > 0 /\ socket' = [socket EXCEPT ![w] = socket[w] \o a] /\ out' = [out EXCEPT ![w] = b]
      /\ got' = got
  BY DEF WriteSome, wireVars
<1>3. SocketBytes \in Nat
  BY ConnectionAssumption
<1>4. /\ n \in 1 .. Len(out[w]) /\ Len(socket[w]) + n <= SocketBytes
      /\ n = Len(out[w]) \/ Len(socket[w]) + n = SocketBytes
  <2> DEFINE p == Len(out[w])
             q == Len(socket[w])
             m == SocketBytes - q
  <2>1. p \in Nat /\ q \in Nat /\ m \in Int
    BY <1>1, <1>3
  <2>2. n = Min({p, m})
    BY DEF WhatFits
  <2> HIDE DEF n, p
  <2>3. n \in {p, m} /\ n <= p /\ n <= m
    <3> HIDE DEF m
    <3>1. p \in Int /\ m \in Int
      BY <2>1
    <3>2. Min({p, m}) \in {p, m} /\ Min({p, m}) <= p /\ Min({p, m}) <= m
      BY <3>1, MinOfTwo
    <3> QED BY <2>2, <3>2
  <2>4. n > 0
    BY <1>2
  <2> HIDE DEF q
  <2>5. n \in 1 .. p /\ q + n <= SocketBytes /\ (n = p \/ q + n = SocketBytes)
    BY <1>3, <2>1, <2>3, <2>4
  <2> QED BY <2>5 DEF p, q
<1> HIDE DEF n
<1>5. a \in Seq(Byte) /\ Len(a) = n /\ b \in Seq(Byte)
  <2>1. n \in 0 .. Len(out[w])
    BY <1>1, <1>4
  <2> QED BY <1>1, <2>1, Cutting
<1>6. Flow(got[w], socket[w] \o a, b) = Flow(got[w], socket[w], out[w])
  <2>1. n \in 0 .. Len(out[w])
    BY <1>1, <1>4
  <2> QED BY <1>1, <2>1, FlowKept
<1> HIDE DEF a, b
<1>7. socket[w] \o a \in Seq(Byte) /\ Len(socket[w] \o a) = Len(socket[w]) + n
  BY <1>1, <1>5, ConcatProperties
<1>8. /\ out' \in [Ways -> Seq(Byte)] /\ socket' \in [Ways -> Seq(Byte)]
      /\ out'[w] = b /\ socket'[w] = socket[w] \o a
      /\ \A v \in Ways : v # w => out'[v] = out[v] /\ socket'[v] = socket[v]
  BY <1>1, <1>2, <1>5, <1>7
<1>9. ASSUME NEW v \in Ways PROVE Flowing(v)' = Flowing(v)
  <2>1. CASE v = w
    BY <1>2, <1>6, <1>8, <2>1 DEF Flowing
  <2>2. CASE v # w
    BY <1>2, <1>8, <2>2 DEF Flowing
  <2> QED BY <2>1, <2>2
<1> QED BY <1>2, <1>4, <1>7, <1>8, <1>9 DEF n

LEMMA WriteKeeps == ASSUME IInv, NEW w \in Ways, WriteSome(w) PROVE IInv'
<1> DEFINE n == WhatFits(w)
<1>1. /\ n \in 1 .. Len(out[w]) /\ Len(socket[w]) + n <= SocketBytes
      /\ n = Len(out[w]) \/ Len(socket[w]) + n = SocketBytes
      /\ out' \in [Ways -> Seq(Byte)] /\ socket' \in [Ways -> Seq(Byte)] /\ got' = got
      /\ Len(socket'[w]) = Len(socket[w]) + n
      /\ \A v \in Ways : v # w => out'[v] = out[v] /\ socket'[v] = socket[v]
      /\ \A v \in Ways : Flowing(v)' = Flowing(v)
  BY Written
<1> HIDE DEF n
<1>2. /\ UNCHANGED <<config, daemon, models, header, said, client, api, hello, attached, heard, doneSeen, closed>>
      /\ fd' = IF w = "down" /\ fd = "sent" THEN "socket" ELSE fd
  BY DEF WriteSome, daemonVars, clientVars
<1>3. TypesHold /\ ModelsHold /\ UpHolds /\ SaidHolds /\ FdHolds /\ DownHolds /\ EndHolds
  BY DEF IInv
<1>4. "up" \in Ways /\ "down" \in Ways /\ got \in [Ways -> Seq(Byte)]
      /\ \A v \in Ways : Len(socket[v]) <= SocketBytes
  BY Basics
<1>5. TypesHold'
  <2>1. \A v \in Ways : Len(socket'[v]) <= SocketBytes
    BY <1>1, <1>4
  <2>2. \A v \in Ways : /\ Len(socket'[v]) <= SocketBytes
                        /\ \A bytes \in {out'[v], socket'[v], got'[v]} : bytes \in Seq(0..255)
    BY <1>1, <1>4, <2>1 DEF Byte
  <2>3. TypeOK'
    BY <1>2, <1>3, <2>2 DEF TypesHold, TypeOK
  <2> QED BY <1>1, <1>2, <1>3, <2>3 DEF TypesHold
<1>6. ModelsHold'
  BY <1>2, <1>3 DEF ModelsHold
<1>7. UpHolds'
  <2>1. Encodings' = Encodings /\ Flowing("up")' = Flowing("up")
    BY <1>1, <1>2, <1>4 DEF Encodings
  <2> QED BY <1>2, <1>3, <2>1 DEF UpHolds
<1>8. SaidHolds'
  BY <1>2, <1>3 DEF SaidHolds
<1>9. FdHolds'
  <2>1. fd' = "sent" => socket'["down"] = socket["down"]
    BY <1>1, <1>2, <1>4
  <2> QED BY <1>1, <1>2, <1>3, <2>1 DEF FdHolds
<1>10. DownHolds'
  <2>1. daemon \in {"left", "dead"} => out'["down"] = <<>>
    <3> SUFFICES ASSUME daemon \in {"left", "dead"} PROVE out'["down"] = <<>>
      OBVIOUS
    <3>1. out["down"] = <<>>
      BY <1>3 DEF DownHolds
    <3>2. w # "down"
      <4> SUFFICES ASSUME w = "down" PROVE FALSE
        OBVIOUS
      <4>1. n \in 1 .. 0
        <5>1. Len(<<>>) = 0
          OBVIOUS
        <5> QED BY <1>1, <3>1, <5>1
      <4> QED BY <4>1
    <3> QED BY <1>1, <1>4, <3>1, <3>2
  <2>2. Flowing("down")' = Flowing("down")
    BY <1>1, <1>4
  <2> QED BY <1>1, <1>2, <1>3, <2>1, <2>2 DEF DownHolds
<1>11. EndHolds'
  <2>1. ASSUME client = "greeting", got["down"] = <<>>
        PROVE  socket'["down"] = <<>> \/ Len(socket'["down"]) >= 4
    <3>1. socket["down"] = <<>> \/ Len(socket["down"]) >= 4
      BY <1>3, <2>1 DEF EndHolds
    <3>2. CASE w # "down"
      BY <1>1, <1>4, <3>1, <3>2
    <3> SUFFICES ASSUME w = "down" PROVE socket'["down"] = <<>> \/ Len(socket'["down"]) >= 4
      BY <3>2
    <3> DEFINE q == Len(socket["down"])
               p == Len(out["down"])
    <3>3. q \in Nat /\ p \in Nat /\ n \in 1 .. p /\ Len(socket'["down"]) = q + n
          /\ (n = p \/ q + n = SocketBytes) /\ SocketBytes >= 4 /\ SocketBytes \in Nat
      BY <1>1, <1>4, Basics, ConnectionAssumption
    <3>4. q >= 4 \/ (q = 0 /\ p >= 4)
      <4>1. CASE socket["down"] = <<>>
        <5>1. q = 0 /\ Len(got["down"]) = 0
          BY <2>1, <4>1
        <5>2. Len(heard) # Len(said)
          <6> SUFFICES ASSUME Len(heard) = Len(said) PROVE FALSE
            OBVIOUS
          <6>1. p = 0
            BY NothingLeft
          <6> HIDE DEF p
          <6> QED BY <3>3, <6>1
        <5>3. daemon # "dead"
          <6> SUFFICES ASSUME daemon = "dead" PROVE FALSE
            OBVIOUS
          <6>1. out["down"] = <<>>
            BY <1>3 DEF DownHolds
          <6>2. p = 0
            BY <6>1
          <6> HIDE DEF p
          <6> QED BY <3>3, <6>2
        <5>4. AllComing(said, Len(heard), Flowing("down")) /\ Coming(said, Len(heard), Flowing("down"))
          BY <1>3, <2>1, <5>3 DEF DownHolds
        <5>5. Len(Flowing("down")) >= Len(Frame(said[Len(heard) + 1])) /\ said[Len(heard) + 1] \in Answers
          BY <5>2, <5>4, Basics, ComingFirst
        <5>6. Len(Frame(said[Len(heard) + 1])) >= 4 /\ Len(Frame(said[Len(heard) + 1])) \in Nat
          BY <5>5, FrameOf
        <5>7. Len(Flowing("down")) = p
          <6>1. Len(Flowing("down")) = Len(got["down"]) + q + p
            BY Basics
          <6> HIDE DEF p, q
          <6> QED BY <3>3, <5>1, <6>1
        <5>8. p >= 4
          <6> HIDE DEF p
          <6> QED BY <3>3, <5>5, <5>6, <5>7
        <5> QED BY <5>1, <5>8
      <4>2. CASE Len(socket["down"]) >= 4
        BY <4>2
      <4> QED BY <3>1, <4>1, <4>2
    <3> HIDE DEF q, p
    <3>5. q + n >= 4
      BY <3>3, <3>4
    <3> QED BY <3>3, <3>5
  <2> QED BY <1>1, <1>2, <1>3, <2>1 DEF EndHolds
<1> QED BY <1>5, <1>6, <1>7, <1>8, <1>9, <1>10, <1>11 DEF IInv

LEMMA LengthIs == ASSUME NEW x \in Seq(Byte), Len(x) >= 4 PROVE LengthOf(x) \in Nat
<1>1. Len(x) \in Nat
  BY LenProperties
<1>2. 1 \in 1 .. Len(x) /\ 2 \in 1 .. Len(x) /\ 3 \in 1 .. Len(x) /\ 4 \in 1 .. Len(x)
  BY <1>1
<1>3. x[1] \in Byte /\ x[2] \in Byte /\ x[3] \in Byte /\ x[4] \in Byte
  BY <1>2, ElementOfSeq
<1> DEFINE a == x[1]
           b == x[2]
           c == x[3]
           d == x[4]
<1>4. a \in Byte /\ b \in Byte /\ c \in Byte /\ d \in Byte
  BY <1>3
<1>5. LengthOf(x) = a + 256 * b + 65536 * c + 16777216 * d
  BY DEF LengthOf
<1> HIDE DEF a, b, c, d
<1>6. a \in Nat /\ b \in Nat /\ c \in Nat /\ d \in Nat
  BY <1>4 DEF Byte
<1>7. a + 256 * b + 65536 * c + 16777216 * d \in Nat
  BY <1>6, SMT
<1> QED BY <1>5, <1>7

\* What a read leaves on its way.
LEMMA ReadOf ==
  ASSUME IInv, NEW w \in Ways, ReadSome(w)
  PROVE  /\ Wanted(w) \in Int
         /\ \E n \in 1 .. Len(socket[w]) :
               /\ n <= Wanted(w) /\ (n = Len(socket[w]) \/ n = Wanted(w))
               /\ Len(got'[w]) = Len(got[w]) + n /\ Len(socket'[w]) <= Len(socket[w])
         /\ got' \in [Ways -> Seq(Byte)] /\ socket' \in [Ways -> Seq(Byte)] /\ out' = out
         /\ \A v \in Ways : v # w => got'[v] = got[v] /\ socket'[v] = socket[v]
         /\ \A v \in Ways : Flowing(v)' = Flowing(v) /\ Len(socket'[v]) <= Len(socket[v])
<1> DEFINE n == Min({Len(socket[w]), Wanted(w)})
           a == SubSeq(socket[w], 1, n)
           b == SubSeq(socket[w], n + 1, Len(socket[w]))
<1>1. /\ out[w] \in Seq(Byte) /\ socket[w] \in Seq(Byte) /\ got[w] \in Seq(Byte)
      /\ Len(got[w]) \in Nat /\ Len(socket[w]) \in Nat
      /\ got \in [Ways -> Seq(Byte)] /\ socket \in [Ways -> Seq(Byte)]
      /\ \A v \in Ways : Len(socket[v]) \in Nat
  BY Basics
<1>2. /\ n > 0 /\ got' = [got EXCEPT ![w] = got[w] \o a] /\ socket' = [socket EXCEPT ![w] = b]
      /\ out' = out
  BY DEF ReadSome
<1>3. Wanted(w) \in Int
  <2>1. CASE Len(got[w]) < 4
    BY <1>1, <2>1 DEF Wanted
  <2>2. CASE ~(Len(got[w]) < 4)
    <3>1. LengthOf(got[w]) \in Nat
      BY <1>1, <2>2, LengthIs
    <3> QED BY <1>1, <2>2, <3>1 DEF Wanted
  <2> QED BY <2>1, <2>2
<1>4. n \in 1 .. Len(socket[w]) /\ n <= Wanted(w) /\ (n = Len(socket[w]) \/ n = Wanted(w))
  <2> DEFINE p == Len(socket[w])
             m == Wanted(w)
  <2>1. p \in Int /\ m \in Int /\ n = Min({p, m}) /\ n > 0 /\ p \in Nat
    BY <1>1, <1>2, <1>3
  <2> HIDE DEF n, p, m
  <2>2. Min({p, m}) \in {p, m} /\ Min({p, m}) <= p /\ Min({p, m}) <= m
    BY <2>1, MinOfTwo
  <2>3. n \in 1 .. p /\ n <= m /\ (n = p \/ n = m)
    BY <2>1, <2>2
  <2> QED BY <2>3 DEF p, m
<1> HIDE DEF n
<1>5. n \in 0 .. Len(socket[w])
  BY <1>1, <1>4
<1>6. a \in Seq(Byte) /\ Len(a) = n /\ b \in Seq(Byte) /\ Len(b) = Len(socket[w]) - n
  BY <1>1, <1>5, Cutting
<1>7. Flow(got[w] \o a, b, out[w]) = Flow(got[w], socket[w], out[w])
  BY <1>1, <1>5, FlowKept
<1> HIDE DEF a, b
<1>8. got[w] \o a \in Seq(Byte) /\ Len(got[w] \o a) = Len(got[w]) + n
  BY <1>1, <1>6, ConcatProperties
<1>9. /\ got' \in [Ways -> Seq(Byte)] /\ socket' \in [Ways -> Seq(Byte)]
      /\ got'[w] = got[w] \o a /\ socket'[w] = b
      /\ \A v \in Ways : v # w => got'[v] = got[v] /\ socket'[v] = socket[v]
  BY <1>1, <1>2, <1>6, <1>8
<1>10. Len(got'[w]) = Len(got[w]) + n /\ Len(socket'[w]) <= Len(socket[w])
  <2>1. Len(b) <= Len(socket[w])
    <3> DEFINE p == Len(socket[w])
    <3>1. Len(b) = p - n /\ p \in Nat /\ n \in 0 .. p
      BY <1>1, <1>5, <1>6
    <3> HIDE DEF p
    <3>2. Len(b) <= p
      BY <3>1
    <3> QED BY <3>2 DEF p
  <2> QED BY <1>8, <1>9, <2>1
<1>11. ASSUME NEW v \in Ways PROVE Flowing(v)' = Flowing(v) /\ Len(socket'[v]) <= Len(socket[v])
  <2>1. CASE v = w
    BY <1>2, <1>7, <1>9, <1>10, <2>1 DEF Flowing
  <2>2. CASE v # w
    <3>1. Flowing(v)' = Flowing(v) /\ socket'[v] = socket[v]
      BY <1>2, <1>9, <2>2 DEF Flowing
    <3>2. Len(socket[v]) <= Len(socket[v])
      BY <1>1
    <3> QED BY <3>1, <3>2
  <2> QED BY <2>1, <2>2
<1> QED BY <1>2, <1>3, <1>4, <1>9, <1>10, <1>11

LEMMA ReadKeeps == ASSUME IInv, NEW w \in Ways, ReadSome(w) PROVE IInv'
<1>1. /\ Wanted(w) \in Int
      /\ got' \in [Ways -> Seq(Byte)] /\ socket' \in [Ways -> Seq(Byte)] /\ out' = out
      /\ \A v \in Ways : v # w => got'[v] = got[v] /\ socket'[v] = socket[v]
      /\ \A v \in Ways : Flowing(v)' = Flowing(v) /\ Len(socket'[v]) <= Len(socket[v])
  BY ReadOf
<1>2. PICK n \in 1 .. Len(socket[w]) :
               /\ n <= Wanted(w) /\ (n = Len(socket[w]) \/ n = Wanted(w))
               /\ Len(got'[w]) = Len(got[w]) + n
  BY ReadOf
<1>3. /\ UNCHANGED <<config, daemon, models, header, said, client, api, hello, attached, heard, doneSeen, closed, out>>
      /\ fd' = IF w = "down" /\ fd = "socket" THEN (IF TakesFd(w) THEN "client" ELSE "lost") ELSE fd
      /\ w = "down" => client \in {"greeting", "session"}
  BY DEF ReadSome, daemonVars, clientVars
<1>4. TypesHold /\ ModelsHold /\ UpHolds /\ SaidHolds /\ FdHolds /\ DownHolds /\ EndHolds
  BY DEF IInv
<1>5. "up" \in Ways /\ "down" \in Ways /\ out \in [Ways -> Seq(Byte)]
      /\ \A v \in Ways : Len(socket[v]) <= SocketBytes /\ Len(socket[v]) \in Nat
      /\ Len(socket[w]) \in Nat /\ Len(got[w]) \in Nat /\ got[w] \in Seq(Byte)
  BY Basics
<1>6. TypesHold'
  <2>1. ASSUME NEW v \in Ways PROVE Len(socket'[v]) <= SocketBytes
    <3>1. socket'[v] \in Seq(Byte)
      BY <1>1
    <3>2. Len(socket'[v]) \in Nat /\ SocketBytes \in Nat
      BY <3>1, LenProperties, ConnectionAssumption
    <3> DEFINE x == Len(socket'[v])
               y == Len(socket[v])
    <3>3. x \in Nat /\ y \in Nat /\ x <= y /\ y <= SocketBytes /\ SocketBytes \in Nat
      BY <1>1, <1>5, <3>2
    <3> HIDE DEF x, y
    <3>4. x <= SocketBytes
      BY <3>3
    <3> QED BY <3>4 DEF x
  <2>2. \A v \in Ways : /\ Len(socket'[v]) <= SocketBytes
                        /\ \A bytes \in {out'[v], socket'[v], got'[v]} : bytes \in Seq(0..255)
    BY <1>1, <1>5, <2>1 DEF Byte
  <2>3. fd' \in {"none", "sent", "socket", "client", "lost"}
    BY <1>3, <1>4 DEF TypesHold, TypeOK
  <2>4. TypeOK'
    BY <1>3, <1>4, <2>2, <2>3 DEF TypesHold, TypeOK
  <2> QED BY <1>1, <1>3, <1>4, <2>4 DEF TypesHold
<1>7. ModelsHold'
  BY <1>3, <1>4 DEF ModelsHold
<1>8. UpHolds'
  <2>1. Encodings' = Encodings /\ Flowing("up")' = Flowing("up")
    BY <1>1, <1>3, <1>5 DEF Encodings
  <2> QED BY <1>3, <1>4, <2>1 DEF UpHolds
<1>9. SaidHolds'
  BY <1>3, <1>4 DEF SaidHolds
<1>10. FdHolds'
  <2>1. CASE w # "down"
    <3>1. fd' = fd /\ got'["down"] = got["down"] /\ socket'["down"] = socket["down"]
      BY <1>1, <1>3, <1>5, <2>1
    <3> QED BY <1>3, <1>4, <3>1 DEF FdHolds
  <2>2. CASE w = "down"
    <3>1. fd # "sent"
      <4> SUFFICES ASSUME fd = "sent" PROVE FALSE
        OBVIOUS
      <4>1. socket["down"] = <<>>
        BY <1>4 DEF FdHolds
      <4>2. n \in 1 .. 0
        <5>1. Len(<<>>) = 0
          OBVIOUS
        <5> QED BY <1>2, <2>2, <4>1, <5>1
      <4> QED BY <4>2
    <3>2. fd' \in {fd, "client"} /\ (fd = "socket" => fd' = "client")
      BY <1>3, <1>4, <2>2 DEF FdHolds, TakesFd
    <3> QED BY <1>3, <1>4, <3>1, <3>2 DEF FdHolds
  <2> QED BY <2>1, <2>2
<1>11. DownHolds'
  <2>1. Flowing("down")' = Flowing("down")
    BY <1>1, <1>5
  <2>2. ASSUME Len(heard) < Len(said) PROVE Len(got'["down"]) <= Len(Frame(said[Len(heard) + 1]))
    <3> DEFINE r == said[Len(heard) + 1]
    <3>0. Len(heard) # Len(said)
      BY <2>2, Basics
    <3>1. r \in Answers /\ (Len(got["down"]) >= 4 => LengthOf(got["down"]) = Len(EncodeResponse(r)))
          /\ Len(got["down"]) <= Len(Frame(r))
      BY <3>0, GotIsNext
    <3>2. Len(Frame(r)) = 4 + Len(EncodeResponse(r)) /\ Len(Frame(r)) \in Nat /\ Len(Frame(r)) >= 4
          /\ EncodeResponse(r) \in Seq(Byte)
      BY <3>1, FrameOf
    <3>3. CASE w # "down"
      BY <1>1, <1>5, <3>1, <3>3
    <3> HIDE DEF r
    <3>4. CASE w = "down"
      <4> DEFINE g == Len(got["down"])
                 m == Wanted("down")
                 f == Len(Frame(r))
                 e == Len(EncodeResponse(r))
      <4>1. g \in Nat /\ m \in Int /\ f \in Nat /\ e \in Nat /\ f = 4 + e /\ n \in Nat /\ n <= m
            /\ Len(got'["down"]) = g + n
        BY <1>1, <1>2, <1>5, <3>2, <3>4, LenProperties
      <4>2. m = IF g < 4 THEN 4 - g ELSE 4 + LengthOf(got["down"]) - g
        BY DEF Wanted
      <4>3. g >= 4 => LengthOf(got["down"]) = e
        BY <3>1
      <4> HIDE DEF g, m, f, e
      <4>4. m = IF g < 4 THEN 4 - g ELSE 4 + e - g
        BY <4>1, <4>2, <4>3
      <4>5. g + n <= f
        BY <4>1, <4>4
      <4> QED BY <4>1, <4>5 DEF f, r
    <3> QED BY <3>3, <3>4 DEF r
  <2> QED BY <1>3, <1>4, <2>1, <2>2 DEF DownHolds
<1>12. EndHolds'
  <2>1. ASSUME client = "greeting"
        PROVE  /\ got'["down"] = <<>> \/ Len(got'["down"]) >= 4
               /\ got'["down"] = <<>> => socket'["down"] = <<>> \/ Len(socket'["down"]) >= 4
    <3>1. /\ got["down"] = <<>> \/ Len(got["down"]) >= 4
          /\ got["down"] = <<>> => socket["down"] = <<>> \/ Len(socket["down"]) >= 4
      BY <1>4, <2>1 DEF EndHolds
    <3>2. CASE w # "down"
      <4>1. got'["down"] = got["down"] /\ socket'["down"] = socket["down"]
        BY <1>1, <1>5, <3>2
      <4> QED BY <3>1, <4>1
    <3>3. CASE w = "down"
      <4> DEFINE g == Len(got["down"])
                 q == Len(socket["down"])
                 m == Wanted("down")
      <4>1. g \in Nat /\ m \in Int /\ q \in Nat /\ n \in 1 .. q /\ (n = q \/ n = m) /\ Len(got'["down"]) = g + n
        BY <1>1, <1>2, <1>5, <3>3
      <4>2. m = IF g < 4 THEN 4 - g ELSE 4 + LengthOf(got["down"]) - g
        BY DEF Wanted
      <4>3. g >= 4 \/ (g = 0 /\ (q = 0 \/ q >= 4))
        <5>1. Len(<<>>) = 0
          OBVIOUS
        <5> QED BY <3>1, <5>1
      <4> HIDE DEF g, m, q
      <4>4. g + n >= 4
        BY <4>1, <4>2, <4>3
      <4>5. Len(got'["down"]) >= 4
        BY <4>1, <4>4
      <4>6. got'["down"] # <<>>
        <5> SUFFICES ASSUME got'["down"] = <<>> PROVE FALSE
          OBVIOUS
        <5>1. Len(got'["down"]) = 0
          OBVIOUS
        <5> QED BY <4>1, <4>4, <5>1
      <4> QED BY <4>5, <4>6
    <3> QED BY <3>2, <3>3
  <2> QED BY <1>3, <1>4, <2>1 DEF EndHolds
<1> QED BY <1>6, <1>7, <1>8, <1>9, <1>10, <1>11, <1>12 DEF IInv

-----------------------------------------------------------------------------
(* The daemon's steps. *)

LEMMA StartKeeps == ASSUME IInv, StartDaemon PROVE IInv'
<1>1. TypesHold /\ ModelsHold /\ UpHolds /\ SaidHolds /\ FdHolds /\ DownHolds /\ EndHolds
  BY DEF IInv
<1>2. /\ daemon = "starting" /\ daemon' \in {"reading", "exited"}
      /\ models' = models \/ (Valid(config) /\ Loads(config) /\ models' = ToSet(config.models))
      /\ UNCHANGED <<config, header, said, client, api, hello, attached, heard, doneSeen,
                     out, socket, got, closed, fd>>
  BY DEF StartDaemon, clientVars, wireVars
<1>3. said = <<>> /\ header = <<>> /\ daemon # "dead"
  BY <1>1, <1>2 DEF SaidHolds
<1>4. TypesHold'
  <2>1. TypeOK'
    BY <1>1, <1>2 DEF TypesHold, TypeOK
  <2> QED BY <1>1, <1>2, <2>1 DEF TypesHold
<1>5. ModelsHold'
  <2>1. CASE models' = models
    BY <1>1, <1>2, <2>1 DEF ModelsHold
  <2>2. CASE Valid(config) /\ Loads(config) /\ models' = ToSet(config.models)
    BY <1>2, <2>2 DEF ModelsHold
  <2> QED BY <1>2, <2>1, <2>2
<1>6. UpHolds'
  <2>1. Encodings' = Encodings /\ Flowing("up")' = Flowing("up")
    BY <1>2 DEF Encodings, Flowing
  <2> QED BY <1>1, <1>2, <2>1 DEF UpHolds
<1>7. SaidHolds'
  <2>1. said # <<OfHello>> /\ \A i \in 2 .. Len(said) : FALSE
    <3>1. Len(<<OfHello>>) = 1 /\ Len(<<>>) = 0
      OBVIOUS
    <3> QED BY <1>3, <3>1
  <2> QED BY <1>2, <1>3, <2>1 DEF SaidHolds
<1>8. FdHolds'
  BY <1>1, <1>2 DEF FdHolds
<1>9. DownHolds'
  <2>1. Flowing("down")' = Flowing("down")
    BY <1>2 DEF Flowing
  <2>2. AllComing(said, Len(heard), Flowing("down"))
    BY <1>1, <1>2 DEF DownHolds
  <2>3. ~closed["down"]
    BY <1>1, <1>2 DEF DownHolds
  <2> QED BY <1>1, <1>2, <2>1, <2>2, <2>3 DEF DownHolds
<1>10. EndHolds'
  <2>1. client \notin {"raised", "refused", "stopped"} /\ ~doneSeen
    BY <1>1, <1>2 DEF EndHolds, Closing
  <2> QED BY <1>1, <1>2, <2>1 DEF EndHolds
<1> QED BY <1>4, <1>5, <1>6, <1>7, <1>8, <1>9, <1>10 DEF IInv

\* A response is said: it follows what is on its way.
LEMMA SayKeeps ==
  ASSUME IInv, NEW r \in Answers, Say(r), daemon \in {"reading", "greeted", "live"}, out["down"] = <<>>,
         daemon' \in {"greeted", "live", "leaving", "detached"},
         UNCHANGED <<config, models, client, api, hello, attached, heard, doneSeen, socket, got, closed>>
  PROVE  /\ TypesHold' <=> TypeOK'
         /\ \A w \in Ways : Len(socket'[w]) <= SocketBytes
                            /\ \A bytes \in {out'[w], socket'[w], got'[w]} : bytes \in Seq(0..255)
         /\ ModelsHold' /\ UpHolds' /\ DownHolds' /\ EndHolds'
         /\ said' = Append(said, r) /\ said' \in Seq(Answers) /\ Len(said') = Len(said) + 1
         /\ said'[Len(said) + 1] = r /\ \A i \in 1 .. Len(said) : said'[i] = said[i]
<1>1. TypesHold /\ ModelsHold /\ UpHolds /\ SaidHolds /\ FdHolds /\ DownHolds /\ EndHolds
  BY DEF IInv
<1>2. /\ out' = [out EXCEPT !["down"] = Frame(r)] /\ said' = Append(said, r)
  BY DEF Say, Frame
<1>3. /\ Len(said) \in Nat /\ Len(heard) \in 0 .. Len(said) /\ Len(heard) \in Nat
      /\ said \in Seq(Answers)
      /\ \A w \in Ways : out[w] \in Seq(Byte) /\ socket[w] \in Seq(Byte) /\ got[w] \in Seq(Byte)
      /\ \A w \in Ways : Len(socket[w]) <= SocketBytes
      /\ Flowing("down") \in Seq(Byte) /\ Len(got["down"]) \in Nat
      /\ out \in [Ways -> Seq(Byte)] /\ socket \in [Ways -> Seq(Byte)] /\ got \in [Ways -> Seq(Byte)]
      /\ "up" \in Ways /\ "down" \in Ways
  BY Basics
<1>4. /\ said' \in Seq(Answers) /\ Len(said') = Len(said) + 1
      /\ said'[Len(said) + 1] = r /\ \A i \in 1 .. Len(said) : said'[i] = said[i]
  BY <1>2, <1>3, AppendProperties
<1>5. Frame(r) \in Seq(Byte) /\ Len(Frame(r)) \in Nat
  BY FrameOf
<1>6. /\ out' \in [Ways -> Seq(Byte)] /\ out'["down"] = Frame(r) /\ out'["up"] = out["up"]
  BY <1>2, <1>3, <1>5
<1>7. TypesHold' <=> TypeOK'
  BY <1>1, <1>4, <1>6 DEF TypesHold
<1>8. \A w \in Ways : Len(socket'[w]) <= SocketBytes
                      /\ \A bytes \in {out'[w], socket'[w], got'[w]} : bytes \in Seq(0..255)
  BY <1>3, <1>6 DEF Byte
<1>9. ModelsHold'
  BY <1>1 DEF ModelsHold
<1>10. UpHolds'
  <2>1. Encodings' = Encodings /\ Flowing("up")' = Flowing("up")
    BY <1>6 DEF Encodings, Flowing
  <2> QED BY <1>1, <2>1 DEF UpHolds
<1>11. DownHolds'
  <2> DEFINE g == got["down"]
             s == socket["down"]
  <2>1. Flowing("down")' = Flowing("down") \o Frame(r)
    <3>1. g \in Seq(Byte) /\ s \in Seq(Byte)
      BY <1>3
    <3>2. g \o s \in Seq(Byte)
      BY <3>1, ConcatProperties
    <3>3. (g \o s) \o <<>> = g \o s
      BY <3>2, ConcatEmptySeq
    <3> QED BY <1>6, <3>3 DEF Flowing, Flow
  <2>2. AllComing(said, Len(heard), Flowing("down"))
    BY <1>1 DEF DownHolds
  <2>3. AllComing(Append(said, r), Len(heard), Flowing("down") \o Frame(r))
    BY <1>3, <2>2, ComingSaid
  <2>4. AllComing(said', Len(heard'), Flowing("down")')
    BY <1>2, <2>1, <2>3
  <2>5. Coming(said', Len(heard'), Flowing("down")')
    BY <2>4, AllIsComing
  <2>6. daemon' \notin {"left", "dead"} /\ closed'["down"] = FALSE
    <3>1. closed["down"] = FALSE
      BY <1>1, <1>3 DEF DownHolds, TypesHold
    <3> QED BY <3>1
  <2>7. Len(heard') <= Len(said') /\ \A i \in 1 .. Len(heard') : heard'[i] = said'[i]
    BY <1>1, <1>3, <1>4 DEF DownHolds
  <2>8. Len(got'["down"]) <= Len(Frame(said'[Len(heard') + 1]))
    <3>1. CASE Len(heard) = Len(said)
      <4>1. Len(got["down"]) = 0 /\ said'[Len(heard) + 1] = r
        BY <1>4, <3>1, NothingLeft
      <4> QED BY <1>5, <4>1
    <3>2. CASE Len(heard) # Len(said)
      <4>1. Len(got["down"]) <= Len(Frame(said[Len(heard) + 1]))
            /\ Len(heard) + 1 \in 1 .. Len(said)
        BY <3>2, GotIsNext
      <4> QED BY <1>4, <4>1
    <3> QED BY <3>1, <3>2
  <2> QED BY <2>4, <2>5, <2>6, <2>7, <2>8 DEF DownHolds
<1>12. EndHolds'
  <2>1. client \notin {"raised", "refused", "stopped"} /\ doneSeen = FALSE
    BY <1>1 DEF EndHolds, Closing, TypesHold
  <2> QED BY <1>1, <2>1 DEF EndHolds
<1> QED BY <1>2, <1>4, <1>7, <1>8, <1>9, <1>10, <1>11, <1>12

\* The kinds of what the session thread says at first.
LEMMA KindsDiffer ==
  /\ ServerHello.kind = "server_hello" /\ OfHello.kind = "error" /\ OfDaemon.kind = "error"
  /\ BackOff.kind = "back_off"
  /\ OfHello # OfDaemon /\ ServerHello # OfHello /\ ServerHello # OfDaemon
  /\ {ServerHello, OfHello, OfDaemon, BackOff} \subseteq Answers
<1>1. /\ ServerHello.kind = "server_hello" /\ OfHello.kind = "error" /\ OfDaemon.kind = "error"
      /\ BackOff.kind = "back_off"
  BY DEF ServerHello, OfHello, OfDaemon, BackOff, Error
<1>2. OfHello.body.error = <<104>> /\ OfDaemon.body.error = <<100>>
  BY DEF OfHello, OfDaemon, Error
<1>3. <<104>>[1] # <<100>>[1]
  OBVIOUS
<1>4. OfHello # OfDaemon
  BY <1>2, <1>3
<1> QED BY <1>1, <1>4 DEF Answers

\* A sequence that gets its first element.
LEMMA FirstSaid ==
  ASSUME NEW r, NEW s, NEW t \in Seq(Answers), s = <<>>, Len(t) = Len(s) + 1, t[Len(s) + 1] = r
  PROVE  t = <<r>> /\ Len(t) = 1 /\ t[1] = r /\ t # <<>> /\ \A i \in 2 .. Len(t) : FALSE
<1>1. Len(s) = 0
  OBVIOUS
<1>2. Len(t) = 1 /\ t[1] = r
  BY <1>1
<1>3. t = <<r>>
  <2>1. t = [i \in 1 .. Len(t) |-> t[i]]
    OBVIOUS
  <2>2. t = [i \in 1 .. 1 |-> r]
    BY <1>2, <2>1
  <2> QED BY <2>2
<1>4. t # <<>>
  <2> SUFFICES ASSUME t = <<>> PROVE FALSE
    OBVIOUS
  <2>1. Len(t) = 0
    OBVIOUS
  <2> QED BY <1>2, <2>1
<1> QED BY <1>2, <1>3, <1>4

LEMMA HelloKeeps == ASSUME IInv, ReadHello PROVE IInv'
<1>1. TypesHold /\ ModelsHold /\ UpHolds /\ SaidHolds /\ FdHolds /\ DownHolds /\ EndHolds
  BY DEF IInv
<1>2. /\ daemon = "reading"
      /\ UNCHANGED <<config, models, client, api, hello, attached, heard, doneSeen, socket, got, closed>>
  BY DEF ReadHello, clientVars
<1>3. said = <<>> /\ header = <<>> /\ fd = "none"
  BY <1>1, <1>2 DEF SaidHolds, FdHolds
<1>4. heard = <<>> /\ Len(heard) = Len(said)
  <2>1. heard \in Seq(Answers) /\ Len(heard) = 0 /\ Len(said) = 0
    BY <1>3, Basics
  <2> QED BY <2>1, EmptySeq
<1>5. got["down"] = <<>> /\ socket["down"] = <<>> /\ out["down"] = <<>>
  BY <1>4, NothingLeft
<1>6. \/ /\ Say(OfHello) /\ daemon' = "leaving" /\ header' = header /\ fd' = fd
         /\ client \in {"unsent", "dead"} \/ ~ValidHello(hello) \/ hello.model \notin models
      \/ Say(OfDaemon) /\ daemon' = "leaving" /\ header' = header /\ fd' = fd
      \/ /\ Say(ServerHello) /\ daemon' = "greeted" /\ fd' = "sent"
         /\ header' = <<Header(hello)>> /\ ValidHello(hello) /\ hello.model \in models
  <2>1. CASE ReadFails("up") /\ Refuse(OfHello)
    BY <1>2, <2>1, UpIsMeant DEF Refuse
  <2>2. CASE Received("up") /\ Answer(DecodeClientHello(Body("up"), DefaultHello))
    <3> DEFINE h == DecodeClientHello(Body("up"), DefaultHello)
    <3>1. Body("up") \in Encodings
      BY <1>2, <2>2, UpIsMeant
    <3>2. h = IF hello.model = <<>> THEN Fails ELSE Is(hello)
      BY <3>1, HelloIsRead
    <3>3. Answer(h)
      BY <2>2
    <3> HIDE DEF h
    <3>4. CASE hello.model = <<>>
      <4>1. hello.model \notin models
        <5> SUFFICES ASSUME hello.model \in models PROVE FALSE
          OBVIOUS
        <5>1. Valid(config) /\ models = ToSet(config.models)
          BY <1>1 DEF ModelsHold
        <5>2. PICK i \in DOMAIN config.models : config.models[i] = hello.model
          BY <5>1 DEF ToSet
        <5> QED BY <3>4, <5>1, <5>2 DEF Valid, IsModelId
      <4>2. Refuse(OfHello)
        BY <3>2, <3>3, <3>4 DEF Answer
      <4> QED BY <4>1, <4>2 DEF Refuse
    <3>5. CASE hello.model # <<>>
      <4>1. h # Fails /\ h[1] = hello
        BY <3>2, <3>5, IsSome
      <4>2. CASE ~ValidHello(hello) \/ hello.model \notin models
        <5>1. Refuse(OfHello)
          BY <3>3, <4>1, <4>2 DEF Answer
        <5> QED BY <4>2, <5>1 DEF Refuse
      <4>3. CASE ~(~ValidHello(hello) \/ hello.model \notin models)
        <5>1. Refuse(OfDaemon) \/ (Say(ServerHello) /\ fd' = "sent" /\ daemon' = "greeted" /\ header' = <<Header(hello)>>)
          BY <3>3, <4>1, <4>3 DEF Answer
        <5> QED BY <4>3, <5>1 DEF Refuse
      <4> QED BY <4>2, <4>3
    <3> QED BY <3>4, <3>5
  <2> QED BY <2>1, <2>2 DEF ReadHello
<1>7. PICK r \in {OfHello, OfDaemon, ServerHello} :
         /\ Say(r) /\ daemon' \in {"leaving", "greeted"} /\ fd' \in {"none", "sent"}
         /\ r = OfHello => /\ daemon' = "leaving" /\ header' = header /\ fd' = fd
                           /\ client \in {"unsent", "dead"} \/ ~ValidHello(hello) \/ hello.model \notin models
         /\ r = OfDaemon => daemon' = "leaving" /\ header' = header /\ fd' = fd
         /\ r = ServerHello => /\ daemon' = "greeted" /\ fd' = "sent"
                               /\ header' = <<Header(hello)>> /\ ValidHello(hello) /\ hello.model \in models
  <2>1. OfHello # OfDaemon /\ ServerHello # OfHello /\ ServerHello # OfDaemon
    BY KindsDiffer
  <2> QED BY <1>3, <1>6, <2>1
<1>8. r \in Answers
  BY KindsDiffer
<1>9. /\ TypesHold' <=> TypeOK'
      /\ \A w \in Ways : Len(socket'[w]) <= SocketBytes
                         /\ \A bytes \in {out'[w], socket'[w], got'[w]} : bytes \in Seq(0..255)
      /\ ModelsHold' /\ UpHolds' /\ DownHolds' /\ EndHolds'
      /\ said' \in Seq(Answers) /\ Len(said') = Len(said) + 1 /\ said'[Len(said) + 1] = r
  BY <1>2, <1>5, <1>7, <1>8, SayKeeps
<1>10. TypesHold'
  <2>1. TypeOK'
    BY <1>1, <1>2, <1>7, <1>9 DEF TypesHold, TypeOK
  <2> QED BY <1>9, <2>1
<1>11. said' = <<r>> /\ Len(said') = 1 /\ said'[1] = r /\ said' # <<>> /\ \A i \in 2 .. Len(said') : FALSE
  <2>1. said = <<>> /\ said' \in Seq(Answers) /\ Len(said') = Len(said) + 1 /\ said'[Len(said) + 1] = r
    BY <1>3, <1>9
  <2> QED BY ONLY <2>1, FirstSaid
<1>12. OfHello # OfDaemon /\ ServerHello # OfHello /\ ServerHello # OfDaemon
  BY KindsDiffer
<1>13. header' = <<>> <=> r # ServerHello
  <2>1. <<Header(hello)>> # <<>>
    BY IsSome DEF Is, Fails
  <2> QED BY <1>3, <1>7, <1>12, <2>1
<1>14. said' = <<OfHello>> => r = OfHello
  BY <1>11
<1>15. SaidHolds'
  <2>1. CASE r = ServerHello
    BY <1>2, <1>7, <1>11, <1>12, <1>13, <1>14, <2>1 DEF SaidHolds
  <2>2. CASE r # ServerHello
    BY <1>2, <1>7, <1>11, <1>12, <1>13, <1>14, <2>2 DEF SaidHolds
  <2> QED BY <2>1, <2>2
<1>16. FdHolds'
  <2>1. client # "session"
    BY <1>1, <1>3 DEF FdHolds
  <2>2. fd' = "none" <=> header' = <<>>
    BY <1>3, <1>7, <1>12, <1>13
  <2> QED BY <1>2, <1>4, <1>5, <1>7, <2>1, <2>2 DEF FdHolds
<1> QED BY <1>9, <1>10, <1>15, <1>16 DEF IInv

\* What SaidHolds says after one more response to an accepted request.
LEMMA MoreSaid ==
  ASSUME IInv, NEW r \in Answers, daemon \in {"greeted", "live"}, Len(said') = Len(said) + 1,
         said' \in Seq(Answers), said'[Len(said) + 1] = r, \A i \in 1 .. Len(said) : said'[i] = said[i],
         UNCHANGED <<header, client, hello, models>>,
         \/ daemon' \in {"leaving", "detached"}
         \/ daemon = "live" /\ daemon' = "live" /\ r \in MoreResponses
  PROVE  SaidHolds'
<1>1. SaidHolds
  BY DEF IInv
<1>2. header # <<>> /\ said # <<>> /\ said[1] = ServerHello /\ header = <<Header(hello)>>
      /\ ValidHello(hello) /\ hello.model \in models
  BY <1>1 DEF SaidHolds
<1>3. Len(said) \in Nat /\ said \in Seq(Answers)
  BY Basics
<1>4. Len(said) >= 1
  <2> SUFFICES ASSUME Len(said) = 0 PROVE FALSE
    BY <1>3
  <2> QED BY <1>2, <1>3, EmptySeq
<1>5. said'[1] = ServerHello
  <2>1. 1 \in 1 .. Len(said)
    BY <1>3, <1>4
  <2> QED BY <1>2, <2>1
<1>6. said' # <<>> /\ said' # <<OfHello>>
  <2>1. Len(said') >= 2
    BY <1>3, <1>4
  <2>2. Len(<<>>) = 0 /\ Len(<<OfHello>>) = 1
    OBVIOUS
  <2> QED BY <2>1, <2>2
<1>7. ASSUME NEW i \in 2 .. Len(said'), i < Len(said') \/ daemon' = "live"
      PROVE  said'[i].kind \in {"segment", "speech"}
  <2>1. CASE i = Len(said) + 1
    <3>1. daemon' = "live"
      BY <1>3, <1>7, <2>1
    <3>2. r \in MoreResponses
      BY <3>1
    <3>3. r.kind \in {"segment", "speech"}
      BY <3>2, ResponseAssumption
    <3> QED BY <2>1, <3>3
  <2>2. CASE i # Len(said) + 1
    <3>1. i \in 2 .. Len(said) /\ i \in 1 .. Len(said)
      BY <1>3, <2>2
    <3>2. i < Len(said) \/ daemon = "live"
      <4>1. CASE daemon = "live"
        BY <4>1
      <4>2. CASE daemon = "greeted"
        <5>1. Len(said) = 1
          BY <1>1, <4>2 DEF SaidHolds
        <5>2. i \in 2 .. 1
          BY <3>1, <5>1
        <5> QED BY <5>2
      <4> QED BY <4>1, <4>2
    <3>3. said[i].kind \in {"segment", "speech"}
      BY <1>1, <3>1, <3>2 DEF SaidHolds
    <3>4. said'[i] = said[i]
      BY <3>1
    <3> QED BY <3>3, <3>4
  <2> QED BY <2>1, <2>2
<1> QED BY <1>2, <1>5, <1>6, <1>7 DEF SaidHolds

\* A response to an accepted request.
LEMMA SayMore ==
  ASSUME IInv, NEW r \in Answers, Say(r), daemon \in {"greeted", "live"}, out["down"] = <<>>,
         \/ daemon' \in {"leaving", "detached"}
         \/ daemon = "live" /\ daemon' = "live" /\ r \in MoreResponses,
         UNCHANGED <<config, models, header, clientVars, socket, got, closed, fd>>
  PROVE  IInv'
<1>1. TypesHold /\ FdHolds
  BY DEF IInv
<1>2. UNCHANGED <<config, models, header, client, api, hello, attached, heard, doneSeen, socket, got, closed, fd>>
  BY DEF clientVars
<1>3. /\ TypesHold' <=> TypeOK'
      /\ \A w \in Ways : Len(socket'[w]) <= SocketBytes
                         /\ \A bytes \in {out'[w], socket'[w], got'[w]} : bytes \in Seq(0..255)
      /\ ModelsHold' /\ UpHolds' /\ DownHolds' /\ EndHolds'
      /\ said' \in Seq(Answers) /\ Len(said') = Len(said) + 1 /\ said'[Len(said) + 1] = r
      /\ \A i \in 1 .. Len(said) : said'[i] = said[i]
  BY <1>2, SayKeeps
<1>4. TypesHold'
  <2>1. TypeOK'
    BY <1>1, <1>2, <1>3 DEF TypesHold, TypeOK
  <2> QED BY <1>3, <2>1
<1>5. SaidHolds'
  BY <1>2, <1>3, MoreSaid
<1>6. FdHolds'
  BY <1>1, <1>2 DEF FdHolds
<1> QED BY <1>3, <1>4, <1>5, <1>6 DEF IInv

LEMMA SubmitKeeps == ASSUME IInv, Submit PROVE IInv'
<1>1. TypesHold /\ ModelsHold /\ UpHolds /\ SaidHolds /\ FdHolds /\ DownHolds /\ EndHolds
  BY DEF IInv
<1>2. /\ daemon = "greeted" /\ out["down"] = <<>>
      /\ UNCHANGED <<config, models, header, clientVars, socket, got, closed, fd>>
      /\ \/ daemon' = "live" /\ UNCHANGED <<out, said>>
         \/ \E r \in {BackOff, OfDaemon} : Say(r) /\ daemon' = "leaving"
         \/ daemon' = "leaving" /\ UNCHANGED <<out, said>>
  BY DEF Submit
<1>3. CASE \E r \in {BackOff, OfDaemon} : Say(r) /\ daemon' = "leaving"
  <2>1. PICK r \in {BackOff, OfDaemon} : Say(r) /\ daemon' = "leaving"
    BY <1>3
  <2>2. r \in Answers
    BY KindsDiffer
  <2> QED BY <1>2, <2>1, <2>2, SayMore
<1>4. CASE daemon' \in {"live", "leaving"} /\ UNCHANGED <<out, said>>
  <2>1. UNCHANGED <<config, models, header, said, client, api, hello, attached, heard, doneSeen,
                    out, socket, got, closed, fd>>
    BY <1>2, <1>4 DEF clientVars
  <2>2. TypesHold'
    <3>1. TypeOK'
      BY <1>1, <1>4, <2>1 DEF TypesHold, TypeOK
    <3> QED BY <1>1, <2>1, <3>1 DEF TypesHold
  <2>3. ModelsHold'
    BY <1>1, <2>1 DEF ModelsHold
  <2>4. UpHolds'
    <3>1. Encodings' = Encodings /\ Flowing("up")' = Flowing("up")
      BY <2>1 DEF Encodings, Flowing
    <3> QED BY <1>1, <2>1, <3>1 DEF UpHolds
  <2>5. SaidHolds'
    <3>1. \A i \in 2 .. Len(said) : FALSE
      <4>1. Len(said) = 1
        BY <1>1, <1>2 DEF SaidHolds
      <4> QED BY <4>1
    <3> QED BY <1>1, <1>2, <1>4, <2>1, <3>1 DEF SaidHolds
  <2>6. FdHolds'
    BY <1>1, <2>1 DEF FdHolds
  <2>7. DownHolds'
    <3>1. Flowing("down")' = Flowing("down")
      BY <2>1 DEF Flowing
    <3> QED BY <1>1, <1>2, <1>4, <2>1, <3>1 DEF DownHolds
  <2>8. EndHolds'
    <3>1. client \notin {"raised", "refused", "stopped"} /\ ~doneSeen
      BY <1>1, <1>2 DEF EndHolds, Closing
    <3> QED BY <1>1, <2>1, <3>1 DEF EndHolds
  <2> QED BY <2>2, <2>3, <2>4, <2>5, <2>6, <2>7, <2>8 DEF IInv
<1> QED BY <1>2, <1>3, <1>4

LEMMA RespondKeeps == ASSUME IInv, Respond PROVE IInv'
<1>1. /\ daemon = "live" /\ out["down"] = <<>>
      /\ UNCHANGED <<config, models, header, clientVars, socket, got, closed, fd>>
      /\ \/ \E r \in MoreResponses : Say(r) /\ daemon' = daemon
         \/ \E r \in LastResponses : Say(r) /\ daemon' = "leaving"
         \/ Say(OfDaemon) /\ daemon' = "detached"
  BY DEF Respond
<1>2. OfDaemon \in Answers /\ MoreResponses \subseteq Answers /\ LastResponses \subseteq Answers
  BY DEF Answers
<1>3. PICK r \in Answers : Say(r) /\ (daemon' \in {"leaving", "detached"} \/ (daemon' = "live" /\ r \in MoreResponses))
  BY <1>1, <1>2
<1> QED BY <1>1, <1>3, SayMore

-----------------------------------------------------------------------------
\* The bytes that were still to be written are lost.
LEMMA Unwritten ==
  ASSUME IInv, NEW w \in Ways, out' = [out EXCEPT ![w] = <<>>], UNCHANGED <<socket, got>>
  PROVE  /\ out' \in [Ways -> Seq(Byte)] /\ out'[w] = <<>> /\ \A v \in Ways : v # w => out'[v] = out[v]
         /\ \A v \in Ways : v # w => Flowing(v)' = Flowing(v)
         /\ Flowing(w)' \in Seq(Byte) /\ Within(Flowing(w), 0, Flowing(w)')
         /\ \A v \in Ways : Len(socket'[v]) <= SocketBytes
                            /\ \A bytes \in {out'[v], socket'[v], got'[v]} : bytes \in Seq(0..255)
<1>1. /\ out[w] \in Seq(Byte) /\ socket[w] \in Seq(Byte) /\ got[w] \in Seq(Byte)
      /\ out \in [Ways -> Seq(Byte)] /\ socket \in [Ways -> Seq(Byte)] /\ got \in [Ways -> Seq(Byte)]
      /\ \A v \in Ways : Len(socket[v]) <= SocketBytes
  BY Basics
<1>2. <<>> \in Seq(Byte)
  OBVIOUS
<1>3. /\ out' \in [Ways -> Seq(Byte)] /\ out'[w] = <<>> /\ \A v \in Ways : v # w => out'[v] = out[v]
  BY <1>1, <1>2
<1>4. \A v \in Ways : v # w => Flowing(v)' = Flowing(v)
  BY <1>3 DEF Flowing
<1>5. Flowing(w)' \in Seq(Byte) /\ Within(Flowing(w), 0, Flowing(w)')
  <2> DEFINE g == got[w]
             s == socket[w]
             o == out[w]
  <2>1. g \o s \in Seq(Byte) /\ Within(Flow(g, s, o), 0, g \o s)
    BY <1>1, FlowIs
  <2>2. (g \o s) \o <<>> = g \o s
    BY <2>1, ConcatEmptySeq
  <2>3. Flowing(w)' = g \o s
    BY <1>3, <2>2 DEF Flowing, Flow
  <2> QED BY <2>1, <2>3 DEF Flowing
<1>6. \A v \in Ways : Len(socket'[v]) <= SocketBytes
                      /\ \A bytes \in {out'[v], socket'[v], got'[v]} : bytes \in Seq(0..255)
  BY <1>1, <1>3 DEF Byte
<1> QED BY <1>3, <1>4, <1>5, <1>6

\* The session thread's last bytes are lost, and it goes, or the daemon does.
LEMMA LostKeeps ==
  ASSUME IInv, out' = [out EXCEPT !["down"] = <<>>],
         UNCHANGED <<config, models, header, said, clientVars, socket, got, fd>>,
         closed' \in [Ways -> BOOLEAN], closed'["up"] = closed["up"],
         \/ /\ daemon' = "leaving" /\ closed' = closed
            /\ client \in {"unsent", "refused", "raised", "stopped", "dead"} /\ out["down"] # <<>>
         \/ daemon' = "dead"
  PROVE  IInv'
<1>1. TypesHold /\ ModelsHold /\ UpHolds /\ SaidHolds /\ FdHolds /\ DownHolds /\ EndHolds
  BY DEF IInv
<1>2. "down" \in Ways /\ "up" \in Ways /\ said \in Seq(Answers) /\ Len(heard) \in 0 .. Len(said)
      /\ Flowing("down") \in Seq(Byte) /\ Len(said) \in Nat
  BY Basics
<1>3. UNCHANGED <<config, models, header, said, client, api, hello, attached, heard, doneSeen, socket, got, fd>>
  BY DEF clientVars
<1>4. /\ out' \in [Ways -> Seq(Byte)] /\ out'["down"] = <<>>
      /\ Flowing("up")' = Flowing("up")
      /\ Flowing("down")' \in Seq(Byte) /\ Within(Flowing("down"), 0, Flowing("down")')
      /\ \A v \in Ways : Len(socket'[v]) <= SocketBytes
                         /\ \A bytes \in {out'[v], socket'[v], got'[v]} : bytes \in Seq(0..255)
  BY <1>2, Unwritten
<1>5. daemon' = "leaving" =>
        daemon \notin {"starting", "exited", "reading", "left", "dead"}
  <2> SUFFICES ASSUME daemon' = "leaving", daemon \in {"starting", "exited", "reading", "left", "dead"} PROVE FALSE
    OBVIOUS
  <2>0. out["down"] # <<>>
    OBVIOUS
  <2>1. daemon \in {"starting", "exited", "reading"}
    BY <1>1, <2>0 DEF DownHolds
  <2>2. said = <<>>
    BY <1>1, <2>1 DEF SaidHolds
  <2>3. Len(said) = 0
    BY <2>2
  <2>4. Len(heard) = Len(said)
    BY <1>2, <2>3
  <2> QED BY <2>0, <2>4, NothingLeft
<1>6. TypesHold'
  <2>1. TypeOK'
    BY <1>1, <1>3, <1>4 DEF TypesHold, TypeOK
  <2> QED BY <1>1, <1>3, <1>4, <2>1 DEF TypesHold
<1>7. ModelsHold'
  BY <1>1, <1>3 DEF ModelsHold
<1>8. UpHolds'
  <2>1. Encodings' = Encodings
    BY <1>3 DEF Encodings
  <2> QED BY <1>1, <1>3, <1>4, <2>1 DEF UpHolds
<1>9. SaidHolds'
  <2>1. header = <<>> /\ said # <<>> => said \in {<<OfHello>>, <<OfDaemon>>}
    BY <1>1 DEF SaidHolds
  <2>2. \A i \in 2 .. Len(said) : i < Len(said) => said[i].kind \in {"segment", "speech"}
    BY <1>1 DEF SaidHolds
  <2> QED BY <1>1, <1>3, <2>1, <2>2 DEF SaidHolds
<1>10. FdHolds'
  BY <1>1, <1>3 DEF FdHolds
<1>11. DownHolds'
  <2>1. Coming(said, Len(heard), Flowing("down"))
    BY <1>1 DEF DownHolds
  <2>2. Coming(said', Len(heard'), Flowing("down")')
    <3>1. Coming(said, Len(heard), Flowing("down")')
      BY <1>2, <1>4, <2>1, ComingLost
    <3> QED BY <1>3, <3>1
  <2>3. closed'["down"] => daemon' \in {"left", "dead"}
    BY <1>1, <1>5 DEF DownHolds
  <2> QED BY <1>1, <1>3, <1>4, <2>2, <2>3 DEF DownHolds
<1>12. EndHolds'
  <2>1. daemon' \in Closing
    BY DEF Closing
  <2>2. client \in {"raised", "refused"} => daemon' = "dead" \/ heard = said
    BY <1>1, <1>5 DEF EndHolds
  <2> QED BY <1>1, <1>3, <2>1, <2>2 DEF EndHolds
<1> QED BY <1>6, <1>7, <1>8, <1>9, <1>10, <1>11, <1>12 DEF IInv

LEMMA WriteFailsKeeps == ASSUME IInv, WriteFails PROVE IInv'
<1>1. closed \in [Ways -> BOOLEAN]
  BY Basics
<1> QED BY <1>1, LostKeeps DEF WriteFails

LEMMA DaemonDiesKeeps == ASSUME IInv, DaemonDies PROVE IInv'
<1>1. closed \in [Ways -> BOOLEAN]
  BY Basics
<1>2. closed' \in [Ways -> BOOLEAN] /\ closed'["up"] = closed["up"]
  BY <1>1, Basics DEF DaemonDies
<1> QED BY <1>2, LostKeeps DEF DaemonDies

LEMMA LeaveKeeps == ASSUME IInv, Leave PROVE IInv'
<1>1. TypesHold /\ ModelsHold /\ UpHolds /\ SaidHolds /\ FdHolds /\ DownHolds /\ EndHolds
  BY DEF IInv
<1>2. /\ daemon \in {"leaving", "detached"} /\ out["down"] = <<>> /\ daemon' = "left"
      /\ closed' = [closed EXCEPT !["down"] = (daemon = "leaving")]
      /\ UNCHANGED <<config, models, header, said, client, api, hello, attached, heard, doneSeen,
                     out, socket, got, fd>>
  BY DEF Leave, SocketClosed, clientVars
<1>3. closed \in [Ways -> BOOLEAN] /\ "up" \in Ways /\ "down" \in Ways
  BY Basics
<1>4. closed' \in [Ways -> BOOLEAN] /\ closed'["up"] = closed["up"]
  BY <1>2, <1>3
<1>5. TypesHold'
  <2>1. TypeOK'
    BY <1>1, <1>2 DEF TypesHold, TypeOK
  <2> QED BY <1>1, <1>2, <1>4, <2>1 DEF TypesHold
<1>6. ModelsHold'
  BY <1>1, <1>2 DEF ModelsHold
<1>7. UpHolds'
  <2>1. Encodings' = Encodings /\ Flowing("up")' = Flowing("up")
    BY <1>2 DEF Encodings, Flowing
  <2> QED BY <1>1, <1>2, <1>4, <2>1 DEF UpHolds
<1>8. SaidHolds'
  BY <1>1, <1>2 DEF SaidHolds
<1>9. FdHolds'
  BY <1>1, <1>2 DEF FdHolds
<1>10. DownHolds'
  <2>1. Flowing("down")' = Flowing("down")
    BY <1>2 DEF Flowing
  <2> QED BY <1>1, <1>2, <2>1 DEF DownHolds
<1>11. EndHolds'
  BY <1>1, <1>2 DEF EndHolds, Closing
<1> QED BY <1>5, <1>6, <1>7, <1>8, <1>9, <1>10, <1>11 DEF IInv

-----------------------------------------------------------------------------
(* The client's steps. *)

LEMMA ConnectKeeps == ASSUME IInv, Connect PROVE IInv'
<1>1. TypesHold /\ ModelsHold /\ UpHolds /\ SaidHolds /\ FdHolds /\ DownHolds /\ EndHolds
  BY DEF IInv
<1>2. /\ client = "new" /\ daemon = "reading"
      /\ UNCHANGED <<config, daemon, models, header, said, api, hello, attached, heard, doneSeen, socket, got, fd>>
  BY DEF Connect, daemonVars
<1>3. /\ out \in [Ways -> Seq(Byte)] /\ socket \in [Ways -> Seq(Byte)] /\ got \in [Ways -> Seq(Byte)]
      /\ closed \in [Ways -> BOOLEAN] /\ "up" \in Ways /\ "down" \in Ways
      /\ \A w \in Ways : Len(socket[w]) <= SocketBytes
  BY Basics
<1>4. PICK body \in Encodings :
         \/ client' = "unsent" /\ closed' = [closed EXCEPT !["up"] = TRUE] /\ out' = out
         \/ /\ client' = "greeting" /\ out' = [out EXCEPT !["up"] = Framed(body)] /\ closed' = closed
            /\ ~(Len(body) > FrameMax)
  BY DEF Connect
<1>5. body \in Seq(Byte) /\ (~(Len(body) > FrameMax) => Len(body) <= FrameMax)
  <2>1. body \in Seq(Byte)
    BY HelloIsRead
  <2> DEFINE n == Len(body)
  <2>2. n \in Nat /\ FrameMax \in Nat
    BY <2>1, LenProperties, ConnectionAssumption
  <2> HIDE DEF n
  <2>3. ~(n > FrameMax) => n <= FrameMax
    BY <2>2
  <2> QED BY <2>1, <2>3 DEF n
<1>6. client' = "greeting" => Framed(body) \in Seq(Byte) /\ Len(body) <= FrameMax
  BY <1>4, <1>5, FrameIs
<1>7. /\ out' \in [Ways -> Seq(Byte)] /\ closed' \in [Ways -> BOOLEAN]
      /\ out'["down"] = out["down"] /\ closed'["down"] = closed["down"]
      /\ client' \in {"unsent", "greeting"}
      /\ client' = "unsent" => out'["up"] = out["up"]
      /\ client' = "greeting" => out'["up"] = Framed(body) /\ closed'["up"] = closed["up"]
  BY <1>3, <1>4, <1>6
<1>8. TypesHold'
  <2>1. \A w \in Ways : Len(socket'[w]) <= SocketBytes
                        /\ \A bytes \in {out'[w], socket'[w], got'[w]} : bytes \in Seq(0..255)
    BY <1>2, <1>3, <1>7 DEF Byte
  <2>2. TypeOK'
    BY <1>1, <1>2, <1>7, <2>1 DEF TypesHold, TypeOK
  <2> QED BY <1>1, <1>2, <1>7, <2>2 DEF TypesHold
<1>9. ModelsHold'
  BY <1>1, <1>2 DEF ModelsHold
<1>10. UpHolds'
  <2>1. Encodings' = Encodings
    BY <1>2 DEF Encodings
  <2>2. Flowing("up") = <<>>
    BY <1>1, <1>2 DEF UpHolds
  <2>3. CASE client' = "unsent"
    <3>1. Flowing("up")' = Flowing("up")
      BY <1>2, <1>7, <2>3 DEF Flowing
    <3> QED BY <2>2, <2>3, <3>1 DEF UpHolds
  <2>4. CASE client' = "greeting"
    <3>1. got["up"] = <<>> /\ socket["up"] = <<>>
      <4>1. Len(Flowing("up")) = 0
        BY <2>2
      <4> DEFINE a == Len(got["up"])
                 b == Len(socket["up"])
                 c == Len(out["up"])
      <4>2. a \in Nat /\ b \in Nat /\ c \in Nat /\ a + b + c = 0
        BY <4>1, Basics
      <4> HIDE DEF a, b, c
      <4>3. a = 0 /\ b = 0
        BY <4>2
      <4>4. Len(got["up"]) = 0 /\ Len(socket["up"]) = 0 /\ got["up"] \in Seq(Byte) /\ socket["up"] \in Seq(Byte)
        BY <1>3, <4>3 DEF a, b
      <4> QED BY <4>4, EmptySeq
    <3>2. Flowing("up")' = Framed(body)
      <4>1. <<>> \in Seq(Byte)
        OBVIOUS
      <4>2. <<>> \o <<>> = <<>> /\ <<>> \o Framed(body) = Framed(body)
        BY <1>6, <2>4, <4>1, ConcatEmptySeq
      <4> QED BY <1>2, <1>7, <2>4, <3>1, <4>2 DEF Flowing, Flow
    <3>3. Within(Framed(body), 0, Framed(body))
      <4> DEFINE f == Framed(body)
      <4>1. Len(f) \in Nat
        BY <1>6, <2>4, LenProperties
      <4> HIDE DEF f
      <4>2. Within(f, 0, f)
        BY <4>1 DEF Within
      <4> QED BY <4>2 DEF f
    <3>4. ~closed'["up"]
      BY <1>1, <1>2, <1>7, <2>4 DEF UpHolds
    <3> QED BY <1>6, <2>1, <2>4, <3>2, <3>3, <3>4 DEF UpHolds
  <2> QED BY <1>7, <2>3, <2>4
<1>11. said = <<>> /\ Len(heard) = Len(said)
  <2>1. said = <<>>
    BY <1>1, <1>2 DEF SaidHolds
  <2>2. Len(said) = 0
    BY <2>1
  <2> QED BY <2>1, <2>2, Basics
<1>12. SaidHolds'
  <2>1. said # <<OfHello>>
    <3>1. Len(<<OfHello>>) = 1 /\ Len(<<>>) = 0
      OBVIOUS
    <3> QED BY <1>11, <3>1
  <2> QED BY <1>1, <1>2, <2>1 DEF SaidHolds
<1>13. FdHolds'
  BY <1>1, <1>2, <1>7 DEF FdHolds
<1>14. DownHolds'
  <2>1. Flowing("down")' = Flowing("down")
    BY <1>2, <1>7 DEF Flowing
  <2> QED BY <1>1, <1>2, <1>7, <2>1 DEF DownHolds
<1>15. EndHolds'
  <2>1. got["down"] = <<>> /\ socket["down"] = <<>>
    BY <1>11, NothingLeft
  <2> QED BY <1>1, <1>2, <1>7, <2>1 DEF EndHolds
<1> QED BY <1>8, <1>9, <1>10, <1>12, <1>13, <1>14, <1>15 DEF IInv

LEMMA ClientDiesKeeps == ASSUME IInv, ClientDies PROVE IInv'
<1>1. TypesHold /\ ModelsHold /\ UpHolds /\ SaidHolds /\ FdHolds /\ DownHolds /\ EndHolds
  BY DEF IInv
<1>2. /\ client \in {"greeting", "session"} /\ daemon # "dead" /\ client' = "dead"
      /\ closed' = [closed EXCEPT !["up"] = TRUE] /\ out' = [out EXCEPT !["up"] = <<>>]
      /\ UNCHANGED <<config, daemon, models, header, said, api, hello, attached, heard, doneSeen, socket, got, fd>>
  BY DEF ClientDies, daemonVars
<1>3. /\ closed \in [Ways -> BOOLEAN] /\ "up" \in Ways /\ "down" \in Ways
      /\ Flowing("up") \in Seq(Byte)
  BY Basics
<1>4. closed' \in [Ways -> BOOLEAN] /\ closed'["down"] = closed["down"]
  BY <1>2, <1>3
<1>5. /\ out' \in [Ways -> Seq(Byte)] /\ out'["down"] = out["down"]
      /\ Flowing("down")' = Flowing("down")
      /\ Flowing("up")' \in Seq(Byte) /\ Within(Flowing("up"), 0, Flowing("up")')
      /\ \A v \in Ways : Len(socket'[v]) <= SocketBytes
                         /\ \A bytes \in {out'[v], socket'[v], got'[v]} : bytes \in Seq(0..255)
  BY <1>2, <1>3, Unwritten
<1>6. TypesHold'
  <2>1. TypeOK'
    BY <1>1, <1>2, <1>5 DEF TypesHold, TypeOK
  <2> QED BY <1>1, <1>2, <1>4, <1>5, <2>1 DEF TypesHold
<1>7. ModelsHold'
  BY <1>1, <1>2 DEF ModelsHold
<1>8. UpHolds'
  <2>1. Encodings' = Encodings
    BY <1>2 DEF Encodings
  <2>2. PICK body \in Encodings : Len(body) <= FrameMax /\ Within(Framed(body), 0, Flowing("up"))
    BY <1>1, <1>2 DEF UpHolds
  <2>3. Framed(body) \in Seq(Byte)
    <3>1. body \in Seq(Byte)
      BY HelloIsRead
    <3> QED BY <2>2, <3>1, FrameIs
  <2> DEFINE f == Framed(body)
             F == Flowing("up")
             G == Flowing("up")'
  <2>4. f \in Seq(Byte) /\ F \in Seq(Byte) /\ G \in Seq(Byte) /\ Within(f, 0, F) /\ Within(F, 0, G)
    BY <1>3, <1>5, <2>2, <2>3
  <2> HIDE DEF f, F, G
  <2>5. Within(f, 0 + 0, G) /\ 0 + 0 = 0
    BY <2>4, WithinTrans
  <2>6. Within(Framed(body), 0, Flowing("up")')
    BY <2>5 DEF f, G
  <2> QED BY <1>2, <2>1, <2>2, <2>6 DEF UpHolds
<1>9. SaidHolds'
  BY <1>1, <1>2 DEF SaidHolds
<1>10. FdHolds'
  BY <1>1, <1>2 DEF FdHolds
<1>11. DownHolds'
  BY <1>1, <1>2, <1>4, <1>5 DEF DownHolds
<1>12. EndHolds'
  BY <1>1, <1>2 DEF EndHolds
<1> QED BY <1>6, <1>7, <1>8, <1>9, <1>10, <1>11, <1>12 DEF IInv

\* The client's call ends: with an error, or at the end of the iteration.
LEMMA StopKeeps ==
  ASSUME IInv, UNCHANGED <<daemonVars, api, hello, attached, heard, doneSeen, wireVars>>,
         client \in {"greeting", "session"},
         \/ /\ client' \in {"raised", "refused"}
            /\ daemon = "dead" \/ (heard = said /\ daemon = "left")
         \/ client' = "stopped" /\ doneSeen
  PROVE  IInv'
<1>1. TypesHold /\ ModelsHold /\ UpHolds /\ SaidHolds /\ FdHolds /\ DownHolds /\ EndHolds
  BY DEF IInv
<1>2. UNCHANGED <<config, daemon, models, header, said, api, hello, attached, heard, doneSeen,
                  out, socket, got, closed, fd>>
  BY DEF daemonVars, wireVars
<1>3. TypesHold'
  <2>1. TypeOK'
    BY <1>1, <1>2 DEF TypesHold, TypeOK
  <2> QED BY <1>1, <1>2, <2>1 DEF TypesHold
<1>4. ModelsHold'
  BY <1>1, <1>2 DEF ModelsHold
<1>5. UpHolds'
  <2>1. Encodings' = Encodings /\ Flowing("up")' = Flowing("up")
    BY <1>2 DEF Encodings, Flowing
  <2> QED BY <1>1, <1>2, <2>1 DEF UpHolds
<1>6. SaidHolds'
  BY <1>1, <1>2 DEF SaidHolds
<1>7. FdHolds'
  BY <1>1, <1>2 DEF FdHolds
<1>8. DownHolds'
  <2>1. Flowing("down")' = Flowing("down")
    BY <1>2 DEF Flowing
  <2> QED BY <1>1, <1>2, <2>1 DEF DownHolds
<1>9. EndHolds'
  BY <1>1, <1>2 DEF EndHolds, Closing
<1> QED BY <1>3, <1>4, <1>5, <1>6, <1>7, <1>8, <1>9 DEF IInv

LEMMA GreetingFailsKeeps == ASSUME IInv, GreetingFails PROVE IInv'
<1>1. client = "greeting" /\ ReadFails("down") /\ client' = "refused"
      /\ UNCHANGED <<daemonVars, api, hello, attached, heard, doneSeen, wireVars>>
  BY DEF GreetingFails
<1>2. daemon = "dead" \/ (heard = said /\ daemon = "left")
  BY <1>1, ReadsToTheEnd
<1> QED BY <1>1, <1>2, StopKeeps

LEMMA ResponseFailsKeeps == ASSUME IInv, ResponseFails PROVE IInv'
<1>1. client = "session" /\ (ReadFails("down") \/ ReceivedResponse = {Fails}) /\ client' = "raised"
      /\ UNCHANGED <<daemonVars, api, hello, attached, heard, doneSeen, wireVars>>
  BY DEF ResponseFails
<1>2. ReceivedResponse # {Fails}
  <2>1. CASE Received("down")
    <3> DEFINE r == said[Len(heard) + 1]
    <3>1. ReceivedResponse = {Is(r)}
      BY <2>1, ReceivedIsNext
    <3>2. Is(r) # Fails
      BY IsSome
    <3> QED BY <3>1, <3>2
  <2>2. CASE ~Received("down")
    BY <2>2 DEF ReceivedResponse
  <2> QED BY <2>1, <2>2
<1>3. daemon = "dead" \/ (heard = said /\ daemon = "left")
  BY <1>1, <1>2, ReadsToTheEnd
<1> QED BY <1>1, <1>3, StopKeeps

LEMMA StopIterationKeeps == ASSUME IInv, StopIteration PROVE IInv'
BY StopKeeps DEF StopIteration

-----------------------------------------------------------------------------
\* A response is taken: it is what was said, and the rest still comes.
LEMMA TakeKeeps ==
  ASSUME IInv, Received("down"), client \in {"greeting", "session"},
         client' \in {"session", "refused", "raised", "stopped"}, doneSeen' \in BOOLEAN,
         heard' = Append(heard, said[Len(heard) + 1]), got' = [got EXCEPT !["down"] = <<>>],
         UNCHANGED <<daemonVars, api, hello, out, socket, closed, fd>>
  PROVE  /\ TypesHold' /\ ModelsHold' /\ UpHolds' /\ SaidHolds' /\ DownHolds'
         /\ got'["down"] = <<>> /\ Len(heard') = Len(heard) + 1
         /\ heard' # <<>> /\ heard'[Len(heard')] = said[Len(heard) + 1]
         /\ Len(heard') = Len(said) => heard' = said
<1> DEFINE h == Len(heard)
           r == said[h + 1]
<1>1. TypesHold /\ ModelsHold /\ UpHolds /\ SaidHolds /\ FdHolds /\ DownHolds /\ EndHolds
  BY DEF IInv
<1>2. UNCHANGED <<config, daemon, models, header, said, api, hello, out, socket, closed, fd>>
  BY DEF daemonVars
<1>3. h # Len(said) /\ r \in Answers /\ h + 1 \in 1 .. Len(said) /\ got["down"] = Frame(r)
  BY ReceivedIsNext
<1>4. /\ Len(said) \in Nat /\ h \in 0 .. Len(said) /\ h \in Nat
      /\ said \in Seq(Answers) /\ heard \in Seq(Answers)
      /\ out \in [Ways -> Seq(Byte)] /\ socket \in [Ways -> Seq(Byte)] /\ got \in [Ways -> Seq(Byte)]
      /\ closed \in [Ways -> BOOLEAN] /\ "up" \in Ways /\ "down" \in Ways
      /\ \A w \in Ways : Len(socket[w]) <= SocketBytes
      /\ out["down"] \in Seq(Byte) /\ socket["down"] \in Seq(Byte)
  BY Basics
<1>5. /\ heard' \in Seq(Answers) /\ Len(heard') = h + 1 /\ heard'[h + 1] = r
      /\ \A i \in 1 .. h : heard'[i] = heard[i]
  BY <1>3, <1>4, AppendProperties
<1>6. <<>> \in Seq(Byte) /\ Len(<<>>) = 0
  OBVIOUS
<1>7. got' \in [Ways -> Seq(Byte)] /\ got'["down"] = <<>> /\ got'["up"] = got["up"]
  BY <1>4, <1>6
<1>8. TypesHold'
  <2>1. \A w \in Ways : Len(socket'[w]) <= SocketBytes
                        /\ \A bytes \in {out'[w], socket'[w], got'[w]} : bytes \in Seq(0..255)
    BY <1>2, <1>4, <1>7 DEF Byte
  <2>2. TypeOK'
    BY <1>1, <1>2, <2>1 DEF TypesHold, TypeOK
  <2> QED BY <1>1, <1>2, <1>5, <1>7, <2>2 DEF TypesHold
<1>9. ModelsHold'
  BY <1>1, <1>2 DEF ModelsHold
<1>10. UpHolds'
  <2>1. Encodings' = Encodings /\ Flowing("up")' = Flowing("up")
    BY <1>2, <1>7 DEF Encodings, Flowing
  <2> QED BY <1>1, <1>2, <2>1 DEF UpHolds
<1>11. SaidHolds'
  BY <1>1, <1>2 DEF SaidHolds
<1>12. \A i \in 1 .. Len(heard') : heard'[i] = said[i]
  <2> SUFFICES ASSUME NEW i \in 1 .. h + 1 PROVE heard'[i] = said[i]
    BY <1>5
  <2>1. CASE i = h + 1
    BY <1>5, <2>1
  <2>2. CASE i # h + 1
    <3>1. i \in 1 .. h
      <4>1. h \in Nat
        BY <1>4
      <4> HIDE DEF h
      <4> QED BY <2>2, <4>1
    <3>2. heard[i] = said[i]
      BY <1>1, <3>1 DEF DownHolds
    <3> QED BY <1>5, <3>1, <3>2
  <2> QED BY <2>1, <2>2
<1>13. DownHolds'
  <2> DEFINE s == socket["down"]
             o == out["down"]
             f == Frame(r)
  <2>1. f \in Seq(Byte) /\ s \in Seq(Byte) /\ o \in Seq(Byte)
    BY <1>3, <1>4, FrameOf
  <2>2. Flowing("down") = f \o (s \o o) /\ Flowing("down")' = s \o o
    <3>1. (f \o s) \o o = f \o (s \o o)
      BY <2>1, Associative
    <3>2. <<>> \o s = s
      BY <2>1, ConcatEmptySeq
    <3> QED BY <1>2, <1>3, <1>7, <3>1, <3>2 DEF Flowing, Flow
  <2>3. s \o o \in Seq(Byte)
    BY <2>1, ConcatProperties
  <2>4. /\ Coming(said, h, Flowing("down")) => Coming(said, h + 1, Flowing("down")')
        /\ AllComing(said, h, Flowing("down")) => AllComing(said, h + 1, Flowing("down")')
    <3> DEFINE x == s \o o
    <3>1. x \in Seq(Byte) /\ Flowing("down") = f \o x /\ Flowing("down")' = x
      BY <2>2, <2>3
    <3> HIDE DEF x, s, o
    <3>2. /\ Coming(said, h, f \o x) => Coming(said, h + 1, x)
          /\ AllComing(said, h, f \o x) => AllComing(said, h + 1, x)
      BY <1>3, <1>4, <3>1, ComingHeard
    <3> QED BY <3>1, <3>2
  <2>5. Coming(said', Len(heard'), Flowing("down")')
    BY <1>1, <1>2, <1>5, <2>4 DEF DownHolds
  <2>6. /\ daemon # "dead"
        /\ client' \in {"greeting", "session"} \/ daemon \in {"starting", "reading", "greeted", "live"}
        => AllComing(said', Len(heard'), Flowing("down")')
    BY <1>1, <1>2, <1>5, <2>4 DEF DownHolds
  <2>7. Len(heard') <= Len(said)
    BY <1>3, <1>4, <1>5
  <2>8. Len(heard') < Len(said) => Len(got'["down"]) <= Len(Frame(said[Len(heard') + 1]))
    <3> SUFFICES ASSUME Len(heard') < Len(said) PROVE Len(got'["down"]) <= Len(Frame(said[Len(heard') + 1]))
      OBVIOUS
    <3>1. Len(heard') + 1 \in 1 .. Len(said)
      <4> DEFINE m == Len(heard')
      <4>1. m \in Nat /\ m < Len(said) /\ Len(said) \in Nat
        BY <1>4, <1>5
      <4> HIDE DEF m
      <4>2. m + 1 \in 1 .. Len(said)
        BY <4>1
      <4> QED BY <4>2 DEF m
    <3>2. said[Len(heard') + 1] \in Answers
      BY <1>4, <3>1, ElementOfSeq
    <3>3. Len(Frame(said[Len(heard') + 1])) \in Nat
      BY <3>2, FrameOf
    <3> QED BY <1>6, <1>7, <3>3
  <2> QED BY <1>1, <1>2, <1>12, <2>5, <2>6, <2>7, <2>8 DEF DownHolds
<1>14. heard' # <<>>
  <2> SUFFICES ASSUME heard' = <<>> PROVE FALSE
    OBVIOUS
  <2>1. Len(heard') = 0
    OBVIOUS
  <2> QED BY <1>4, <1>5, <2>1
<1>15. Len(heard') = Len(said) => heard' = said
  BY <1>4, <1>5, <1>12, SeqEqual
<1> QED BY <1>5, <1>7, <1>8, <1>9, <1>10, <1>11, <1>13, <1>14, <1>15

\* A response that is no segment and no speech is the last, unless it is the first.
LEMMA LastIsSaid ==
  ASSUME IInv, NEW n \in 2 .. Len(said), said[n].kind \notin {"segment", "speech"}
  PROVE  n = Len(said) /\ daemon \in Closing
<1>1. SaidHolds /\ TypesHold
  BY DEF IInv
<1>2. Len(said) \in Nat
  BY Basics
<1>3. ~(n < Len(said) \/ daemon = "live")
  BY <1>1 DEF SaidHolds
<1>4. n = Len(said) /\ daemon # "live"
  BY <1>2, <1>3
<1>5. daemon \notin {"starting", "exited", "reading", "greeted"}
  <2>1. daemon = "greeted" => Len(said) = 1
    BY <1>1 DEF SaidHolds
  <2>2. daemon \in {"starting", "exited", "reading"} => Len(said) = 0
    <3>1. Len(<<>>) = 0
      OBVIOUS
    <3> QED BY <1>1, <3>1 DEF SaidHolds
  <2>3. Len(said) # 0 /\ Len(said) # 1
    BY <1>2
  <2> QED BY <2>1, <2>2, <2>3
<1> QED BY <1>1, <1>4, <1>5 DEF Closing, TypesHold, TypeOK

LEMMA GreetedKeeps == ASSUME IInv, NEW x \in ReceivedResponse, Greeted(x) PROVE IInv'
<1> DEFINE r == said[1]
<1>1. TypesHold /\ ModelsHold /\ UpHolds /\ SaidHolds /\ FdHolds /\ DownHolds /\ EndHolds
  BY DEF IInv
<1>2. Received("down")
  BY DEF ReceivedResponse
<1>3. client = "greeting" /\ heard = <<>> /\ doneSeen = FALSE /\ Len(heard) = 0
  <2>1. client = "greeting" /\ heard = <<>> /\ doneSeen = FALSE
    BY <1>1 DEF Greeted, EndHolds
  <2>2. Len(<<>>) = 0
    OBVIOUS
  <2> QED BY <2>1, <2>2
<1>4. /\ Len(heard) # Len(said) /\ said[Len(heard) + 1] \in Answers
      /\ ReceivedResponse = {Is(said[Len(heard) + 1])} /\ Len(got["down"]) >= 4
  BY <1>2, ReceivedIsNext
<1>5. x = Is(r) /\ Len(heard) + 1 = 1 /\ r \in Answers /\ Len(said) # 0
  BY <1>3, <1>4
<1>6. heard' = Append(heard, said[Len(heard) + 1])
  <2>1. heard' = heard \o <<r>>
    BY <1>5 DEF Greeted, Is
  <2>2. heard' = <<r>> /\ Append(heard, r) = <<r>>
    BY <1>3, <2>1
  <2> QED BY <1>5, <2>2
<1>7. /\ got' = [got EXCEPT !["down"] = <<>>] /\ client' \in {"session", "refused"}
      /\ UNCHANGED <<daemonVars, api, hello, doneSeen, out, socket, closed, fd>>
  BY DEF Greeted
<1>8. /\ TypesHold' /\ ModelsHold' /\ UpHolds' /\ SaidHolds' /\ DownHolds'
      /\ got'["down"] = <<>> /\ Len(heard') = Len(heard) + 1 /\ heard' # <<>>
      /\ Len(heard') = Len(said) => heard' = said
  BY <1>2, <1>3, <1>6, <1>7, TakeKeeps
<1>9. UNCHANGED <<daemon, header, said, fd, socket>>
  BY <1>7 DEF daemonVars
<1>10. x # Fails /\ x[1] = r
  BY <1>5, IsSome
<1>11. IF r.kind = "server_hello" /\ fd = "client"
       THEN client' = "session" /\ attached' = <<r.body.ring_capacity_bytes>>
       ELSE client' = "refused" /\ attached' = attached
  BY <1>10 DEF Greeted
<1>12. said # <<>>
  <2>1. Len(<<>>) = 0
    OBVIOUS
  <2> QED BY <1>5, <2>1
<1>13. header # <<>> => r = ServerHello /\ fd = "client"
  <2> SUFFICES ASSUME header # <<>> PROVE r = ServerHello /\ fd = "client"
    OBVIOUS
  <2>1. r = ServerHello
    BY <1>1 DEF SaidHolds
  <2>2. got["down"] # <<>>
    <3>1. Len(<<>>) = 0 /\ ~(0 >= 4)
      OBVIOUS
    <3> QED BY <1>4, <3>1
  <2>3. fd \notin {"none", "sent", "socket", "lost"}
    BY <1>1, <2>2 DEF FdHolds
  <2> QED BY <1>1, <2>1, <2>3 DEF TypesHold, TypeOK
<1>14. header = <<>> => /\ said \in {<<OfHello>>, <<OfDaemon>>} /\ daemon \in {"leaving", "left", "dead"}
                        /\ r.kind = "error" /\ Len(said) = 1
  <2> SUFFICES ASSUME header = <<>>
               PROVE  /\ said \in {<<OfHello>>, <<OfDaemon>>} /\ daemon \in {"leaving", "left", "dead"}
                      /\ r.kind = "error" /\ Len(said) = 1
    OBVIOUS
  <2>1. said \in {<<OfHello>>, <<OfDaemon>>} /\ daemon \in {"leaving", "left", "dead"}
    BY <1>1, <1>12 DEF SaidHolds
  <2>2. r \in {OfHello, OfDaemon} /\ Len(said) = 1
    BY <2>1
  <2> QED BY <2>1, <2>2, KindsDiffer
<1>15. FdHolds'
  <2>1. fd # "sent" /\ fd # "lost"
    <3>1. header = <<>> => fd = "none"
      BY <1>1 DEF FdHolds
    <3> QED BY <1>13, <3>1
  <2>2. client' = "session" => fd = "client" /\ attached' = <<RingBytes>>
    <3> SUFFICES ASSUME client' = "session" PROVE fd = "client" /\ attached' = <<RingBytes>>
      OBVIOUS
    <3>1. r.kind = "server_hello" /\ fd = "client" /\ attached' = <<r.body.ring_capacity_bytes>>
      BY <1>11
    <3>2. header # <<>>
      BY <1>14, <3>1
    <3>3. r = ServerHello
      BY <1>13, <3>2
    <3>4. ServerHello.body.ring_capacity_bytes = RingBytes
      BY DEF ServerHello
    <3> QED BY <3>1, <3>3, <3>4
  <2> QED BY <1>1, <1>8, <1>9, <2>1, <2>2 DEF FdHolds
<1>16. EndHolds'
  <2>1. ASSUME client' = "refused" PROVE heard' = said /\ daemon \in Closing
    <3>1. header = <<>>
      <4>1. ServerHello.kind = "server_hello"
        BY KindsDiffer
      <4> QED BY <1>11, <1>13, <2>1, <4>1
    <3>2. Len(said) = 1 /\ daemon \in {"leaving", "left", "dead"}
      BY <1>14, <3>1
    <3>3. Len(heard') = 1
      BY <1>3, <1>8
    <3> QED BY <1>8, <3>2, <3>3 DEF Closing
  <2> QED BY <1>3, <1>7, <1>9, <2>1 DEF EndHolds
<1> QED BY <1>8, <1>15, <1>16 DEF IInv

\* A response is taken in a session.
LEMMA SessionTakes ==
  ASSUME IInv, NEW x \in ReceivedResponse, x # Fails, client = "session", NEW how, TakeResponse(x[1], how),
         how \in {"session", "raised", "stopped"}, doneSeen' \in BOOLEAN,
         how = "raised" => ~Returns(x[1]),
         how = "stopped" => x[1].kind = "done",
         doneSeen' => x[1].kind = "done" \/ doneSeen
  PROVE  IInv'
<1> DEFINE n == Len(heard) + 1
           r == said[n]
<1>1. TypesHold /\ ModelsHold /\ UpHolds /\ SaidHolds /\ FdHolds /\ DownHolds /\ EndHolds
  BY DEF IInv
<1>2. Received("down")
  BY DEF ReceivedResponse
<1>3. Len(heard) # Len(said) /\ r \in Answers /\ ReceivedResponse = {Is(r)} /\ n \in 1 .. Len(said)
      /\ Len(got["down"]) >= 4
  BY <1>2, ReceivedIsNext
<1>4. x[1] = r
  BY <1>3, IsSome
<1>5. /\ heard' = Append(heard, r) /\ got' = [got EXCEPT !["down"] = <<>>] /\ client' = how
      /\ UNCHANGED <<daemonVars, api, hello, attached, out, socket, closed, fd>>
  BY <1>4 DEF TakeResponse
<1>6. /\ TypesHold' /\ ModelsHold' /\ UpHolds' /\ SaidHolds' /\ DownHolds'
      /\ got'["down"] = <<>> /\ Len(heard') = Len(heard) + 1 /\ heard' # <<>>
      /\ heard'[Len(heard')] = r
      /\ Len(heard') = Len(said) => heard' = said
  BY <1>2, <1>5, TakeKeeps
<1>7. UNCHANGED <<daemon, header, said, fd, attached>>
  BY <1>5 DEF daemonVars
<1>8. fd = "client" /\ attached = <<RingBytes>> /\ heard # <<>>
  BY <1>1 DEF FdHolds
<1>9. n \in 2 .. Len(said)
  <2>1. Len(heard) \in Nat /\ heard \in Seq(Answers) /\ Len(said) \in Nat
    BY Basics
  <2>2. Len(heard) # 0
    BY <1>8, <2>1, EmptySeq
  <2> QED BY <1>3, <2>1, <2>2
<1>10. FdHolds'
  BY <1>1, <1>6, <1>7, <1>8 DEF FdHolds
<1>11. ~doneSeen
  <2> SUFFICES ASSUME doneSeen PROVE FALSE
    OBVIOUS
  <2>1. heard = said
    BY <1>1 DEF EndHolds
  <2> QED BY <1>3, <2>1
<1>12. r.kind \notin {"segment", "speech"} => heard' = said /\ daemon \in Closing
  <2> SUFFICES ASSUME r.kind \notin {"segment", "speech"} PROVE heard' = said /\ daemon \in Closing
    OBVIOUS
  <2>1. n = Len(said) /\ daemon \in Closing
    BY <1>9, LastIsSaid
  <2> QED BY <1>6, <2>1
<1>13. EndHolds'
  <2>1. how = "raised" => r.kind \notin {"segment", "speech"}
    BY <1>4 DEF Returns
  <2>2. doneSeen' \/ how = "stopped" => r.kind = "done"
    BY <1>4, <1>11
  <2>3. r.kind = "done" => r.kind \notin {"segment", "speech"}
    OBVIOUS
  <2> QED BY <1>5, <1>6, <1>7, <1>12, <2>1, <2>2, <2>3 DEF EndHolds
<1> QED BY <1>6, <1>10, <1>13 DEF IInv

LEMMA DoneIsBoolean == ASSUME IInv PROVE doneSeen \in BOOLEAN
BY DEF IInv, TypesHold

LEMMA RecvKeeps == ASSUME IInv, NEW x \in ReceivedResponse, RecvResponse(x) PROVE IInv'
<1> DEFINE how == IF Returns(x[1]) THEN "session" ELSE "raised"
<1>1. client = "session" /\ x # Fails /\ TakeResponse(x[1], how) /\ doneSeen' = doneSeen
  BY DEF RecvResponse
<1>2. how \in {"session", "raised", "stopped"} /\ (how = "raised" => ~Returns(x[1])) /\ how # "stopped"
  OBVIOUS
<1> HIDE DEF how
<1> QED BY <1>1, <1>2, DoneIsBoolean, SessionTakes

LEMMA NextResponseKeeps == ASSUME IInv, NEW x \in ReceivedResponse, NextResponse(x) PROVE IInv'
<1> DEFINE how == IF Returns(x[1]) THEN "session" ELSE "raised"
<1>1. client = "session" /\ x # Fails /\ TakeResponse(x[1], how) /\ doneSeen' = (x[1].kind = "done")
  BY DEF NextResponse
<1>2. how \in {"session", "raised", "stopped"} /\ (how = "raised" => ~Returns(x[1])) /\ how # "stopped"
  OBVIOUS
<1> HIDE DEF how
<1>3. doneSeen' \in BOOLEAN /\ (doneSeen' => x[1].kind = "done")
  BY <1>1
<1> QED BY <1>1, <1>2, <1>3, SessionTakes

LEMMA AnextKeeps == ASSUME IInv, NEW x \in ReceivedResponse, AnextResponse(x) PROVE IInv'
<1> DEFINE how == IF x[1].kind = "done" THEN "stopped" ELSE IF Returns(x[1]) THEN "session" ELSE "raised"
<1>1. client = "session" /\ x # Fails /\ TakeResponse(x[1], how) /\ doneSeen' = doneSeen
  BY DEF AnextResponse
<1>2. /\ how \in {"session", "raised", "stopped"} /\ (how = "raised" => ~Returns(x[1]))
      /\ how = "stopped" => x[1].kind = "done"
  OBVIOUS
<1> HIDE DEF how
<1> QED BY <1>1, <1>2, DoneIsBoolean, SessionTakes

-----------------------------------------------------------------------------
(* The theorems. *)

\* Each step of the two processes, and the end of either, keeps the invariant.
LEMMA NextKeeps == IInv /\ [Next]_vars => IInv'
<1> SUFFICES ASSUME IInv, [Next]_vars PROVE IInv'
  OBVIOUS
<1>1. ASSUME UNCHANGED vars PROVE IInv'
  <2>1. UNCHANGED <<config, daemon, models, header, said, client, api, hello, attached, heard, doneSeen,
                    out, socket, got, closed, fd>>
    BY <1>1 DEF vars, daemonVars, clientVars, wireVars
  <2>2. Flowing("up")' = Flowing("up") /\ Flowing("down")' = Flowing("down") /\ Encodings' = Encodings
    BY <2>1 DEF Flowing, Encodings
  <2>3. TypesHold' /\ ModelsHold'
    BY <2>1 DEF IInv, TypesHold, TypeOK, ModelsHold
  <2>4. UpHolds' /\ SaidHolds'
    BY <2>1, <2>2 DEF IInv, UpHolds, SaidHolds
  <2>5. FdHolds' /\ DownHolds' /\ EndHolds'
    BY <2>1, <2>2 DEF IInv, FdHolds, DownHolds, EndHolds
  <2> QED BY <2>3, <2>4, <2>5 DEF IInv
<1>2. ASSUME Client PROVE IInv'
  <2>1. CASE Connect
    BY <2>1, ConnectKeeps
  <2>2. CASE GreetingFails
    BY <2>2, GreetingFailsKeeps
  <2>3. CASE StopIteration
    BY <2>3, StopIterationKeeps
  <2>4. CASE ResponseFails
    BY <2>4, ResponseFailsKeeps
  <2>5. CASE \E r \in ReceivedResponse : Greeted(r) \/ RecvResponse(r) \/ NextResponse(r) \/ AnextResponse(r)
    <3>1. PICK r \in ReceivedResponse : Greeted(r) \/ RecvResponse(r) \/ NextResponse(r) \/ AnextResponse(r)
      BY <2>5
    <3>2. CASE Greeted(r)
      BY <3>2, GreetedKeeps
    <3>3. CASE RecvResponse(r)
      BY <3>3, RecvKeeps
    <3>4. CASE NextResponse(r)
      BY <3>4, NextResponseKeeps
    <3>5. CASE AnextResponse(r)
      BY <3>5, AnextKeeps
    <3> QED BY <3>1, <3>2, <3>3, <3>4, <3>5
  <2>6. CASE WriteSome("up")
    BY <2>6, WriteKeeps DEF Ways
  <2>7. CASE ReadSome("down")
    BY <2>7, ReadKeeps DEF Ways
  <2> QED BY <1>2, <2>1, <2>2, <2>3, <2>4, <2>5, <2>6, <2>7 DEF Client
<1>3. ASSUME Daemon PROVE IInv'
  <2>1. CASE StartDaemon
    BY <2>1, StartKeeps
  <2>2. CASE ReadHello
    BY <2>2, HelloKeeps
  <2>3. CASE Submit
    BY <2>3, SubmitKeeps
  <2>4. CASE Respond
    BY <2>4, RespondKeeps
  <2>5. CASE WriteFails
    BY <2>5, WriteFailsKeeps
  <2>6. CASE Leave
    BY <2>6, LeaveKeeps
  <2>7. CASE WriteSome("down")
    BY <2>7, WriteKeeps DEF Ways
  <2>8. CASE ReadSome("up")
    BY <2>8, ReadKeeps DEF Ways
  <2> QED BY <1>3, <2>1, <2>2, <2>3, <2>4, <2>5, <2>6, <2>7, <2>8 DEF Daemon
<1>4. CASE ClientDies
  BY <1>4, ClientDiesKeeps
<1>5. CASE DaemonDies
  BY <1>5, DaemonDiesKeeps
<1> QED BY <1>1, <1>2, <1>3, <1>4, <1>5 DEF Next

\* The inductive invariant holds in every state of a connection.
THEOREM ConnectionInvariant == Spec => []IInv
BY InitHolds, NextKeeps, PTL DEF Spec

\* In every state the header of a request is of what the client asked for, and
\* a hello was refused only if it asks for what the daemon does not have, or
\* will not come (ReadHello and Answer, of handle_connection).
THEOREM HelloAlwaysUnderstood == Spec => []HelloIsUnderstood
<1>1. IInv => HelloIsUnderstood
  <2> SUFFICES ASSUME IInv PROVE HelloIsUnderstood
    OBVIOUS
  <2>1. SaidHolds
    BY DEF IInv
  <2>2. header # <<>> => header[1] = Header(hello)
    BY <2>1 DEF SaidHolds
  <2> QED BY <2>1, <2>2 DEF HelloIsUnderstood, SaidHolds
<1> QED BY <1>1, ConnectionInvariant, PTL

\* In every state a request that was accepted is one that the scheduler can
\* serve (validate_config, validate_client_hello, main).
THEOREM JobsAlwaysServable == Spec => []JobsAreServable
<1>1. IInv => JobsAreServable
  <2> SUFFICES ASSUME IInv, header # <<>>
               PROVE  /\ \A d \in DOMAIN config.depths : config.depths[d] >= 1
                      /\ header[1].model \in Supported \cap Complete
                      /\ header[1].beam_size >= 1
    BY DEF JobsAreServable
  <2>1. header = <<Header(hello)>> /\ ValidHello(hello) /\ hello.model \in models
    BY DEF IInv, SaidHolds
  <2>2. Valid(config) /\ Loads(config) /\ models = ToSet(config.models) /\ config \in Configs
    BY <2>1 DEF IInv, ModelsHold, TypesHold
  <2>3. hello \in Hellos
    BY DEF IInv, TypesHold
  <2>4. IsMessage(HelloSchema, hello)
    BY <2>3, HelloAssumption
  <2>5. header[1].model = hello.model /\ header[1].beam_size = hello.beam_size /\ hello.beam_size \in U64
    <3>1. hello = [name \in Names(HelloSchema) |-> hello[name]]
      BY <2>4 DEF IsMessage, IsRecordOf
    <3>2. DOMAIN hello = Names(HelloSchema)
      <4> DEFINE N == Names(HelloSchema)
                 f == [name \in N |-> hello[name]]
      <4>1. DOMAIN f = N
        OBVIOUS
      <4>2. hello = f
        BY <3>1
      <4> HIDE DEF f
      <4> QED BY <4>1, <4>2
    <3>3. 1 \in DOMAIN HelloSchema /\ 6 \in DOMAIN HelloSchema
          /\ HelloSchema[1] = Part("text", "model") /\ HelloSchema[6] = Part("u64", "beam_size")
      BY HelloIsSchema DEF HelloSchema
    <3>4. HelloSchema[1].name = "model" /\ HelloSchema[6].name = "beam_size" /\ HelloSchema[6].kind = "u64"
      BY <3>3 DEF Part
    <3>5. "model" \in DOMAIN hello /\ "beam_size" \in DOMAIN hello
      BY <3>2, <3>3, <3>4 DEF Names
    <3>6. IsScalar("u64", hello.beam_size)
      BY <2>4, <3>3, <3>4 DEF IsMessage
    <3>7. hello.beam_size \in U64
      BY <3>6 DEF IsScalar
    <3>8. header[1] = Header(hello)
      BY <2>1
    <3> QED BY <3>5, <3>7, <3>8 DEF Header
  <2>6. hello.beam_size >= 1
    <3> DEFINE b == hello.beam_size
    <3>1. b # 0 /\ b \in U64 /\ Word64 \in Nat
      BY <2>1, <2>5, WidthAssumption DEF ValidHello
    <3> HIDE DEF b
    <3>2. b >= 1
      BY <3>1 DEF U64
    <3> QED BY <3>2 DEF b
  <2>7. hello.model \in Supported /\ hello.model \in Complete
    <3>1. PICK i \in DOMAIN config.models : config.models[i] = hello.model
      BY <2>1, <2>2 DEF ToSet
    <3> QED BY <2>1, <2>2, <3>1 DEF Valid, Loads
  <2>8. ASSUME NEW d \in DOMAIN config.depths PROVE config.depths[d] >= 1
    <3>1. config.depths[d] \in Nat
      BY <2>2, ConnectionAssumption
    <3>2. config.depths[d] # 0
      BY <2>2 DEF Valid
    <3> DEFINE b == config.depths[d]
    <3>3. b \in Nat /\ b # 0
      BY <3>1, <3>2
    <3> HIDE DEF b
    <3>4. b >= 1
      BY <3>3
    <3> QED BY <3>4 DEF b
  <2> QED BY <2>5, <2>6, <2>7, <2>8
<1> QED BY <1>1, ConnectionInvariant, PTL

\* A client has its responses in order and unchanged, however they are cut into
\* pieces and whichever calls it mixes; an iterator that stops has had the done
\* response, and an error is raised only when all has been heard that was said,
\* unless the daemon died while it spoke.
NothingIsMisread ==
    /\ IsPrefix(heard, said)
    /\ client = "stopped" => heard = said /\ heard[Len(heard)].kind = "done"
    /\ client \in {"raised", "refused"} => heard = said \/ daemon = "dead"

\* In every state the client has taken what was said, in order and unchanged; an
\* iterator stops only at a done response, and an error only ends what is over.
THEOREM NothingIsEverMisread == Spec => []NothingIsMisread
<1>1. IInv => NothingIsMisread
  <2> SUFFICES ASSUME IInv PROVE NothingIsMisread
    OBVIOUS
  <2>1. DownHolds /\ EndHolds
    BY DEF IInv
  <2>2. Len(heard) \in 0 .. Len(said) /\ Len(said) \in Nat /\ heard \in Seq(Answers) /\ said \in Seq(Answers)
    BY Basics
  <2>3. IsPrefix(heard, said)
    <3>1. Len(heard) <= Len(said) /\ \A i \in 1 .. Len(heard) : heard[i] = said[i]
      BY <2>1 DEF DownHolds
    <3> DEFINE n == Len(heard)
    <3>2. n \in Nat /\ n <= Len(said)
      BY <2>2, LenProperties
    <3>3. SubSeq(said, 1, n) \in Seq(Answers) /\ Len(SubSeq(said, 1, n)) = n
          /\ \A i \in 1 .. n : SubSeq(said, 1, n)[i] = said[i]
      <4>1. \A i \in 1 .. n : i \in 1 .. Len(said)
        <5> HIDE DEF n
        <5> QED BY <2>2, <3>2
      <4> QED BY <2>2, <3>2, <4>1, SubSeqProperties
    <3>4. SubSeq(said, 1, n) = heard
      BY <2>2, <3>1, <3>3, SeqEqual
    <3> QED BY <3>1, <3>4 DEF IsPrefix
  <2> QED BY <2>1, <2>3 DEF NothingIsMisread, EndHolds
<1> QED BY <1>1, ConnectionInvariant, PTL

\* In every state the descriptor of the ring is where it can be received, and a
\* session has it.
THEOREM RingAlwaysShared == Spec => []RingIsShared
<1>1. IInv => RingIsShared
  BY DEF IInv, TypesHold, FdHolds, RingIsShared
<1> QED BY <1>1, ConnectionInvariant, PTL

-----------------------------------------------------------------------------
(* The conversation in whole messages. *)

LEMMA OutcomeIs ==
  /\ \A c \in {"new", "greeting", "session"} : Outcome(c) = "open"
  /\ Outcome("stopped") = "done"
  /\ \A c \in {"raised", "refused"} : Outcome(c) = "error"
  /\ \A c \in {"unsent", "dead"} : Outcome(c) = "gone"
BY DEF Outcome

\* Steps that show in no message.
LEMMA Unseen ==
  ASSUME UNCHANGED <<hello, header, said, heard>>, Outcome(client') = Outcome(client),
         daemon' \in Closing <=> daemon \in Closing, daemon' = "dead" <=> daemon = "dead"
  PROVE  UNCHANGED Talk!conversationVars
<1>1. (daemon \in Closing)' = (daemon \in Closing) /\ (daemon = "dead")' = (daemon = "dead")
  BY DEF Closing
<1>2. Header(hello)' = Header(hello) /\ Outcome(client)' = Outcome(client)
  OBVIOUS
<1> QED BY <1>1, <1>2 DEF Talk!conversationVars

TalkStep == Talk!ConversationNext \/ UNCHANGED Talk!conversationVars

\* The daemon greets or refuses.
LEMMA HelloTalks == ASSUME IInv, IInv', ReadHello PROVE TalkStep
<1>1. /\ daemon = "reading" /\ said = <<>>
      /\ UNCHANGED <<client, hello, heard>>
  BY DEF IInv, SaidHolds, ReadHello, clientVars
<1>2. Header(hello)' = Header(hello) /\ Outcome(client)' = Outcome(client)
  BY <1>1
<1>3. daemon \notin Closing /\ daemon # "dead"
  BY <1>1 DEF Closing
<1>4. \/ \E why \in {OfHello, OfDaemon} : said' = Append(said, why) /\ daemon' = "leaving" /\ header' = header
      \/ \E h : said' = Append(said, ServerHello) /\ daemon' = "greeted" /\ header' = <<Header(h)>>
  BY DEF ReadHello, Answer, Refuse, Say
<1>5. CASE \E why \in {OfHello, OfDaemon} : said' = Append(said, why) /\ daemon' = "leaving" /\ header' = header
  <2>1. PICK why \in {OfHello, OfDaemon} : said' = Append(said, why) /\ daemon' = "leaving" /\ header' = header
    BY <1>5
  <2>2. said' = <<why>>
    BY <1>1, <2>1
  <2>3. (daemon \in Closing)' = TRUE /\ (daemon = "dead")' = (daemon = "dead")
    BY <1>3, <2>1 DEF Closing
  <2>4. Talk!Refuse
    BY <1>1, <1>2, <1>3, <2>1, <2>2, <2>3 DEF Talk!Refuse
  <2> QED BY <2>4 DEF TalkStep, Talk!ConversationNext
<1>6. CASE \E h : said' = Append(said, ServerHello) /\ daemon' = "greeted" /\ header' = <<Header(h)>>
  <2>1. PICK h : said' = Append(said, ServerHello) /\ daemon' = "greeted" /\ header' = <<Header(h)>>
    BY <1>6
  <2>2. said' = <<ServerHello>>
    BY <1>1, <2>1
  <2>3. header' # <<>>
    BY <2>1
  <2>4. header' = <<Header(hello)>>
    BY <1>1, <2>3 DEF IInv, SaidHolds
  <2>5. (daemon \in Closing)' = (daemon \in Closing) /\ (daemon = "dead")' = (daemon = "dead")
    BY <1>3, <2>1 DEF Closing
  <2>6. Talk!Greet
    BY <1>1, <1>2, <1>3, <2>2, <2>4, <2>5 DEF Talk!Greet
  <2> QED BY <2>6 DEF TalkStep, Talk!ConversationNext
<1> QED BY <1>4, <1>5, <1>6

\* It answers, and at last with a parting word.
LEMMA AnswerTalks ==
  ASSUME IInv, daemon \in {"greeted", "live"}, UNCHANGED <<header, clientVars>>,
         NEW r, said' = Append(said, r),
         \/ r \in MoreResponses /\ daemon' = daemon
         \/ r \in LastResponses \cup {BackOff, OfDaemon} /\ daemon' \in {"leaving", "detached"}
  PROVE  TalkStep
<1>1. header # <<>> /\ UNCHANGED <<client, hello, heard, header>>
  BY DEF IInv, SaidHolds, clientVars
<1>2. Header(hello)' = Header(hello) /\ Outcome(client)' = Outcome(client)
  BY <1>1
<1>3. daemon \notin Closing /\ (daemon = "dead")' = (daemon = "dead")
  BY DEF Closing
<1>4. CASE r \in MoreResponses /\ daemon' = daemon
  <2>1. (daemon \in Closing)' = (daemon \in Closing)
    BY <1>4
  <2>2. Talk!Answer
    BY <1>1, <1>2, <1>3, <1>4, <2>1 DEF Talk!Answer
  <2> QED BY <2>2 DEF TalkStep, Talk!ConversationNext
<1>5. CASE r \in LastResponses \cup {BackOff, OfDaemon} /\ daemon' \in {"leaving", "detached"}
  <2>1. (daemon \in Closing)' = TRUE
    BY <1>5 DEF Closing
  <2>2. Talk!Answer
    BY <1>1, <1>2, <1>3, <1>5, <2>1 DEF Talk!Answer
  <2> QED BY <2>2 DEF TalkStep, Talk!ConversationNext
<1> QED BY <1>4, <1>5

LEMMA SubmitTalks == ASSUME IInv, Submit PROVE TalkStep
<1>1. daemon = "greeted" /\ UNCHANGED <<header, clientVars>>
  BY DEF Submit
<1>2. CASE daemon' = "live" /\ UNCHANGED <<out, said>>
  <2>1. UNCHANGED <<hello, header, said, heard, client>> /\ daemon' = "live"
    BY <1>1, <1>2 DEF clientVars
  <2>2. /\ daemon' \in Closing <=> daemon \in Closing
        /\ daemon' = "dead" <=> daemon = "dead"
    BY <1>1, <2>1 DEF Closing
  <2> QED BY <2>1, <2>2, Unseen DEF TalkStep
<1>3. CASE \E r \in {BackOff, OfDaemon} : Say(r) /\ daemon' = "leaving"
  <2>1. PICK r \in {BackOff, OfDaemon} : said' = Append(said, r) /\ daemon' = "leaving"
    BY <1>3 DEF Say
  <2> QED BY <1>1, <2>1, AnswerTalks
<1>4. CASE daemon' = "leaving" /\ UNCHANGED <<out, said>>
  <2>1. UNCHANGED <<hello, header, said, heard, client>>
    BY <1>1, <1>4 DEF clientVars
  <2>2. /\ header # <<>> => said # <<>> /\ said[1] = ServerHello
        /\ header # <<>> /\ Len(said) = 1 /\ said \in Seq(Answers)
    BY <1>1 DEF IInv, SaidHolds, TypesHold
  <2>3. said = <<ServerHello>>
    BY <2>2
  <2>4. /\ daemon \notin Closing /\ (daemon \in Closing)' = TRUE
        /\ (daemon = "dead")' = (daemon = "dead")
    BY <1>1, <1>4 DEF Closing
  <2>5. Header(hello)' = Header(hello) /\ Outcome(client)' = Outcome(client)
    BY <2>1
  <2>6. Talk!GiveUp
    BY <2>1, <2>3, <2>4, <2>5 DEF Talk!GiveUp
  <2> QED BY <2>6 DEF TalkStep, Talk!ConversationNext
<1> QED BY <1>2, <1>3, <1>4 DEF Submit

LEMMA RespondTalks == ASSUME IInv, Respond PROVE TalkStep
<1>1. daemon = "live" /\ UNCHANGED <<header, clientVars>>
  BY DEF Respond
<1>2. \/ \E r \in MoreResponses : said' = Append(said, r) /\ daemon' = daemon
      \/ \E r \in LastResponses \cup {BackOff, OfDaemon} :
            said' = Append(said, r) /\ daemon' \in {"leaving", "detached"}
  BY DEF Respond, Say
<1> QED BY <1>1, <1>2, AnswerTalks

\* It stops when the client has gone, or dies.
LEMMA DaemonEnds == ASSUME IInv, WriteFails \/ Leave \/ DaemonDies PROVE TalkStep
<1>1. UNCHANGED <<header, said, client, hello, heard>>
  BY DEF WriteFails, Leave, DaemonDies, clientVars
<1>2. Header(hello)' = Header(hello) /\ Outcome(client)' = Outcome(client)
  BY <1>1
<1>3. CASE WriteFails
  <2>1. client \in {"unsent", "refused", "raised", "stopped", "dead"} /\ out["down"] # <<>> /\ daemon' = "leaving"
    BY <1>3 DEF WriteFails
  <2>2. daemon # "dead"
    BY <2>1 DEF IInv, DownHolds
  <2>3. (daemon \in Closing)' = TRUE /\ (daemon = "dead")' = (daemon = "dead")
    BY <2>1, <2>2 DEF Closing
  <2>4. Outcome(client) # "open"
    BY <2>1, OutcomeIs
  <2>5. Talk!FallSilent
    BY <1>1, <1>2, <2>3, <2>4 DEF Talk!FallSilent
  <2> QED BY <2>5 DEF TalkStep, Talk!ConversationNext
<1>4. CASE Leave
  <2>1. daemon \in {"leaving", "detached"} /\ daemon' = "left"
    BY <1>4 DEF Leave
  <2>2. /\ daemon' \in Closing <=> daemon \in Closing
        /\ daemon' = "dead" <=> daemon = "dead"
    BY <2>1 DEF Closing
  <2> QED BY <1>1, <2>2, Unseen DEF TalkStep
<1>5. CASE DaemonDies
  <2>1. daemon' = "dead"
    BY <1>5 DEF DaemonDies
  <2>2. (daemon \in Closing)' = TRUE /\ (daemon = "dead")' = TRUE
    BY <2>1 DEF Closing
  <2>3. Talk!BreakOff
    BY <1>1, <1>2, <2>2 DEF Talk!BreakOff
  <2> QED BY <2>3 DEF TalkStep, Talk!ConversationNext
<1> QED BY <1>3, <1>4, <1>5

\* The client hears the next message, and takes the conversation for over only
\* if that was the last.
LEMMA HearTalks ==
  ASSUME IInv, UNCHANGED <<daemonVars, hello>>, client \in {"greeting", "session"},
         Len(heard) # Len(said), heard' = Append(heard, said[Len(heard) + 1]),
         LET r == said[Len(heard) + 1]
         IN  /\ \/ /\ r.kind \in {"segment", "speech"} \/ (heard = <<>> /\ r = ServerHello)
                   /\ client' = "session"
                \/ r.kind = "done" /\ client' \in {"session", "stopped"}
                \/ r.kind \notin {"segment", "speech", "done"} /\ client' \in {"raised", "refused"}
             /\ client' # "session" => heard' = said /\ daemon \in Closing
  PROVE  TalkStep
<1> DEFINE r == said[Len(heard) + 1]
<1>1. UNCHANGED <<daemon, header, said, hello>>
  BY DEF daemonVars
<1>2. /\ Header(hello)' = Header(hello)
      /\ (daemon \in Closing)' = (daemon \in Closing) /\ (daemon = "dead")' = (daemon = "dead")
  BY <1>1
<1>3. Len(heard) < Len(said)
  <2>1. Len(heard) <= Len(said) /\ Len(heard) \in Nat /\ Len(said) \in Nat
    BY Basics DEF IInv, DownHolds
  <2> QED BY <2>1
<1>4. Outcome(client) = "open"
  BY OutcomeIs
<1>5. /\ client' = "session" => Outcome(client') = "open"
      /\ client' = "stopped" => Outcome(client') = "done"
      /\ client' \in {"raised", "refused"} => Outcome(client') = "error"
  BY OutcomeIs
<1>6. /\ \/ /\ r.kind \in {"segment", "speech"} \/ (heard = <<>> /\ r = ServerHello)
            /\ Outcome(client)' = Outcome(client)
         \/ r.kind = "done" /\ Outcome(client)' \in {"open", "done"}
         \/ r.kind \notin {"segment", "speech", "done"} /\ Outcome(client)' = "error"
      /\ Outcome(client)' # "open" => heard' = said' /\ (daemon \in Closing)'
  BY <1>1, <1>4, <1>5
<1>7. heard' = Append(heard, r)
  OBVIOUS
<1> HIDE DEF r
<1>8. Talk!Hear
  BY <1>1, <1>2, <1>3, <1>4, <1>6, <1>7 DEF Talk!Hear, Talk!Over, r
<1> QED BY <1>8 DEF TalkStep, Talk!ConversationNext

LEMMA GreetedTalks == ASSUME IInv, NEW x \in ReceivedResponse, Greeted(x) PROVE TalkStep
<1> DEFINE r == said[1]
<1>1. SaidHolds /\ FdHolds /\ EndHolds /\ TypesHold
  BY DEF IInv
<1>2. Received("down")
  BY DEF ReceivedResponse
<1>3. client = "greeting" /\ heard = <<>> /\ Len(heard) = 0
  <2>1. client = "greeting" /\ heard = <<>>
    BY <1>1 DEF Greeted, EndHolds
  <2>2. Len(<<>>) = 0
    OBVIOUS
  <2> QED BY <2>1, <2>2
<1>4. /\ Len(heard) # Len(said) /\ ReceivedResponse = {Is(said[Len(heard) + 1])} /\ Len(got["down"]) >= 4
  BY <1>2, ReceivedIsNext
<1>5. x = Is(r) /\ Len(heard) + 1 = 1 /\ Len(said) # 0 /\ x # Fails /\ x[1] = r
  BY <1>3, <1>4, IsSome
<1>6. heard' = <<r>> /\ heard' = Append(heard, said[Len(heard) + 1])
  <2>1. heard' = heard \o <<r>>
    BY <1>5 DEF Greeted, Is
  <2>2. heard' = <<r>> /\ Append(heard, r) = <<r>>
    BY <1>3, <2>1
  <2> QED BY <1>5, <2>2
<1>7. UNCHANGED <<daemonVars, hello>>
  BY DEF Greeted
<1>8. IF r.kind = "server_hello" /\ fd = "client" THEN client' = "session" ELSE client' = "refused"
  BY <1>5 DEF Greeted
<1>9. said # <<>>
  <2>1. Len(<<>>) = 0
    OBVIOUS
  <2> QED BY <1>5, <2>1
<1>10. CASE header # <<>>
  <2>1. r = ServerHello
    BY <1>1, <1>10 DEF SaidHolds
  <2>2. got["down"] # <<>>
    <3>1. Len(<<>>) = 0 /\ ~(0 >= 4)
      OBVIOUS
    <3> QED BY <1>4, <3>1
  <2>3. fd = "client"
    BY <1>1, <1>10, <2>2 DEF FdHolds, TypesHold, TypeOK
  <2>4. client' = "session"
    BY <1>8, <2>1, <2>3, KindsDiffer
  <2> QED BY <1>3, <1>4, <1>5, <1>6, <1>7, <2>1, <2>4, HearTalks
<1>11. CASE header = <<>>
  <2>1. said \in {<<OfHello>>, <<OfDaemon>>} /\ daemon \in {"leaving", "left", "dead"}
    BY <1>1, <1>9, <1>11 DEF SaidHolds
  <2>2. r.kind = "error" /\ said = <<r>>
    <3>1. r \in {OfHello, OfDaemon} /\ said = <<r>>
      BY <2>1
    <3> QED BY <3>1, KindsDiffer
  <2>3. client' = "refused" /\ daemon \in Closing /\ heard' = said
    BY <1>6, <1>8, <2>1, <2>2 DEF Closing
  <2> QED BY <1>3, <1>4, <1>5, <1>6, <1>7, <2>2, <2>3, HearTalks
<1> QED BY <1>10, <1>11

LEMMA TakeTalks ==
  ASSUME IInv, NEW x \in ReceivedResponse, x # Fails, client = "session", NEW how, TakeResponse(x[1], how),
         \/ Returns(x[1]) /\ how = "session"
         \/ x[1].kind = "done" /\ how = "stopped"
         \/ ~Returns(x[1]) /\ how = "raised"
  PROVE  TalkStep
<1> DEFINE n == Len(heard) + 1
           r == said[n]
<1>1. FdHolds
  BY DEF IInv
<1>2. Received("down")
  BY DEF ReceivedResponse
<1>3. Len(heard) # Len(said) /\ ReceivedResponse = {Is(r)} /\ n \in 1 .. Len(said)
  BY <1>2, ReceivedIsNext
<1>4. x[1] = r
  BY <1>3, IsSome
<1>5. heard' = Append(heard, r) /\ client' = how /\ UNCHANGED <<daemonVars, hello>>
  BY <1>4 DEF TakeResponse
<1>6. /\ Len(heard) \in Nat /\ heard \in Seq(Answers) /\ Len(said) \in Nat /\ said \in Seq(Answers)
      /\ \A i \in 1 .. Len(heard) : heard[i] = said[i]
  BY Basics DEF IInv, DownHolds
<1>7. n \in 2 .. Len(said)
  <2>1. Len(heard) # 0
    BY <1>1, <1>6, EmptySeq DEF FdHolds
  <2> QED BY <1>3, <1>6, <2>1
<1>8. r.kind \notin {"segment", "speech"} => heard' = said /\ daemon \in Closing
  <2> SUFFICES ASSUME r.kind \notin {"segment", "speech"} PROVE heard' = said /\ daemon \in Closing
    OBVIOUS
  <2>1. n = Len(said) /\ daemon \in Closing
    BY <1>7, LastIsSaid
  <2>2. heard' = said
    <3>1. r \in Answers
      BY <1>3, <1>6, ElementOfSeq
    <3>2. heard' \in Seq(Answers) /\ Len(heard') = Len(said)
      BY <1>5, <1>6, <2>1, <3>1, AppendProperties
    <3>3. \A i \in 1 .. Len(heard') : heard'[i] = said[i]
      BY <1>5, <1>6, <2>1, <3>1, <3>2, AppendProperties
    <3> QED BY <1>6, <3>2, <3>3, SeqEqual
  <2> QED BY <2>1, <2>2
<1>9. /\ \/ r.kind \in {"segment", "speech"} /\ client' = "session"
         \/ r.kind = "done" /\ client' \in {"session", "stopped"}
         \/ r.kind \notin {"segment", "speech", "done"} /\ client' \in {"raised", "refused"}
      /\ client' # "session" => r.kind \notin {"segment", "speech"}
  BY <1>4, <1>5 DEF Returns
<1> QED BY <1>3, <1>5, <1>8, <1>9, HearTalks

\* It gives up, stops, or ends.
LEMMA ClientEnds ==
  ASSUME IInv, GreetingFails \/ StopIteration \/ ResponseFails \/ ClientDies PROVE TalkStep
<1>1. UNCHANGED <<daemon, header, said, hello, heard>> /\ client \in {"greeting", "session"}
  BY DEF GreetingFails, StopIteration, ResponseFails, ClientDies, daemonVars
<1>2. /\ Header(hello)' = Header(hello) /\ Outcome(client) = "open"
      /\ (daemon \in Closing)' = (daemon \in Closing) /\ (daemon = "dead")' = (daemon = "dead")
  BY <1>1, OutcomeIs
<1>3. CASE GreetingFails \/ ResponseFails
  <2>1. Outcome(client)' = "error"
    <3>1. client' \in {"raised", "refused"}
      BY <1>3 DEF GreetingFails, ResponseFails
    <3> QED BY <3>1, OutcomeIs
  <2>2. ReadFails("down")
    <3>1. CASE ReceivedResponse = {Fails}
      <4>1. Received("down")
        BY <3>1 DEF ReceivedResponse
      <4>2. ReceivedResponse = {Is(said[Len(heard) + 1])}
        BY <4>1, ReceivedIsNext
      <4> QED BY <3>1, <4>2, IsSome
    <3> QED BY <1>3, <3>1 DEF GreetingFails, ResponseFails
  <2>3. daemon = "dead" \/ (heard = said /\ daemon = "left")
    BY <1>1, <2>2, ReadsToTheEnd
  <2>4. Talk!Fail
    BY <1>1, <1>2, <2>1, <2>3 DEF Talk!Fail, Talk!Over, Closing
  <2> QED BY <2>4 DEF TalkStep, Talk!ConversationNext
<1>4. CASE StopIteration
  <2>1. doneSeen /\ Outcome(client)' = "done"
    BY <1>4, OutcomeIs DEF StopIteration
  <2>2. heard = said /\ daemon \in Closing /\ heard # <<>> /\ heard[Len(heard)].kind = "done"
    BY <2>1 DEF IInv, EndHolds
  <2>3. Talk!Stop
    BY <1>1, <1>2, <2>1, <2>2 DEF Talk!Stop, Talk!Over
  <2> QED BY <2>3 DEF TalkStep, Talk!ConversationNext
<1>5. CASE ClientDies
  <2>1. Outcome(client)' = "gone"
    BY <1>5, OutcomeIs DEF ClientDies
  <2>2. Talk!Go
    BY <1>1, <1>2, <2>1 DEF Talk!Go
  <2> QED BY <2>2 DEF TalkStep, Talk!ConversationNext
<1> QED BY <1>3, <1>4, <1>5

LEMMA ConnectTalks == ASSUME Connect PROVE TalkStep
<1>1. UNCHANGED <<daemon, header, said, hello, heard>> /\ client = "new" /\ client' \in {"unsent", "greeting"}
  BY DEF Connect, daemonVars
<1>2. CASE client' = "greeting"
  <2>1. Outcome(client') = Outcome(client)
    BY <1>1, <1>2, OutcomeIs
  <2> QED BY <1>1, <2>1, Unseen DEF TalkStep
<1>3. CASE client' = "unsent"
  <2>1. Outcome(client) = "open" /\ Outcome(client)' = "gone"
    BY <1>1, <1>3, OutcomeIs
  <2>2. /\ Header(hello)' = Header(hello)
        /\ (daemon \in Closing)' = (daemon \in Closing) /\ (daemon = "dead")' = (daemon = "dead")
    BY <1>1
  <2>3. Talk!Go
    BY <1>1, <2>1, <2>2 DEF Talk!Go
  <2> QED BY <2>3 DEF TalkStep, Talk!ConversationNext
<1> QED BY <1>1, <1>2, <1>3

\* Every step of a connection is one of the conversation, or shows in no message.
LEMMA NextTalks == IInv /\ IInv' /\ [Next]_vars => TalkStep
<1> SUFFICES ASSUME IInv, IInv', [Next]_vars PROVE TalkStep
  OBVIOUS
<1>1. CASE UNCHANGED vars
  <2>1. UNCHANGED <<daemon, header, said, hello, heard, client>>
    BY <1>1 DEF vars, daemonVars, clientVars
  <2> QED BY <2>1, Unseen DEF TalkStep
<1>2. CASE \E w \in Ways : WriteSome(w) \/ ReadSome(w)
  <2>1. UNCHANGED <<daemon, header, said, hello, heard, client>>
    BY <1>2 DEF WriteSome, ReadSome, daemonVars, clientVars
  <2> QED BY <2>1, Unseen DEF TalkStep
<1>3. CASE StartDaemon
  <2>1. UNCHANGED <<header, said, hello, heard, client>> /\ daemon = "starting" /\ daemon' \in {"reading", "exited"}
    BY <1>3 DEF StartDaemon, clientVars
  <2>2. /\ daemon' \in Closing <=> daemon \in Closing
        /\ daemon' = "dead" <=> daemon = "dead"
    BY <2>1 DEF Closing
  <2> QED BY <2>1, <2>2, Unseen DEF TalkStep
<1>4. CASE \E r \in ReceivedResponse : Greeted(r) \/ RecvResponse(r) \/ NextResponse(r) \/ AnextResponse(r)
  <2>1. PICK x \in ReceivedResponse : Greeted(x) \/ RecvResponse(x) \/ NextResponse(x) \/ AnextResponse(x)
    BY <1>4
  <2>2. CASE Greeted(x)
    BY <2>2, GreetedTalks
  <2>3. CASE RecvResponse(x) \/ NextResponse(x)
    <3>1. client = "session" /\ x # Fails /\ TakeResponse(x[1], IF Returns(x[1]) THEN "session" ELSE "raised")
      BY <2>3 DEF RecvResponse, NextResponse
    <3> QED BY <3>1, TakeTalks
  <2>4. CASE AnextResponse(x)
    <3> DEFINE how == IF x[1].kind = "done" THEN "stopped" ELSE IF Returns(x[1]) THEN "session" ELSE "raised"
    <3>1. client = "session" /\ x # Fails /\ TakeResponse(x[1], how)
      BY <2>4 DEF AnextResponse
    <3>2. \/ Returns(x[1]) /\ how = "session"
          \/ x[1].kind = "done" /\ how = "stopped"
          \/ ~Returns(x[1]) /\ how = "raised"
      OBVIOUS
    <3> HIDE DEF how
    <3> QED BY <3>1, <3>2, TakeTalks
  <2> QED BY <2>1, <2>2, <2>3, <2>4
<1>5. CASE GreetingFails \/ StopIteration \/ ResponseFails \/ ClientDies
  BY <1>5, ClientEnds
<1>6. CASE WriteFails \/ Leave \/ DaemonDies
  BY <1>6, DaemonEnds
<1>7. CASE Connect
  BY <1>7, ConnectTalks
<1>8. CASE ReadHello
  BY <1>8, HelloTalks
<1>9. CASE Submit
  BY <1>9, SubmitTalks
<1>10. CASE Respond
  BY <1>10, RespondTalks
<1> QED BY <1>1, <1>2, <1>3, <1>4, <1>5, <1>6, <1>7, <1>8, <1>9, <1>10 DEF Next, Client, Daemon, Ways

\* The bytes of a connection implement the conversation: the daemon works on the
\* request that was asked for, the client hears each response once, in order and
\* unchanged, and it takes the conversation for over only when it is, or broke off;
\* without its last response it is over only if the daemon died or gave up right
\* after the greeting, for want of a descriptor or a thread (write_frame, read_frame and the calls of the Python bindings).
THEOREM ConnectionIsConversation == Spec => ImplementsConversation
<1>1. Init => Talk!ConversationInit
  <2> SUFFICES ASSUME Init PROVE Talk!ConversationInit
    OBVIOUS
  <2>1. header = <<>> /\ said = <<>> /\ heard = <<>> /\ client = "new" /\ daemon = "starting"
    BY DEF Init
  <2>2. Outcome(client) = "open" /\ (daemon \in Closing) = FALSE /\ (daemon = "dead") = FALSE
    BY <2>1, OutcomeIs DEF Closing
  <2> QED BY <2>1, <2>2 DEF Talk!ConversationInit
<1>2. IInv /\ IInv' /\ [Next]_vars => [Talk!ConversationNext]_(Talk!conversationVars)
  BY NextTalks DEF TalkStep
<1> QED BY <1>1, <1>2, ConnectionInvariant, PTL DEF Spec, ImplementsConversation, Talk!ConversationSpec
=============================================================================
