--------------------------- MODULE LiveTextProofs ----------------------------
(***************************************************************************)
(* Proofs that what the daemon tells its clients is right, for every       *)
(* number of sessions, workers and windows: TextIsOwn, SpeechComesFirst,   *)
(* and that LiveScheduler implements the promise of Transcription.         *)
(*                                                                         *)
(* A client hears what is in the response queue of its session and then    *)
(* what is in the outbox for it.  ToldInv says that each response is right *)
(* when its turn comes; OrderInv that the windows of a job that are still  *)
(* to be delivered, wherever they are, continue what its client will have  *)
(* heard by then, up to where the job's buffer begins.                     *)
(*                                                                         *)
(* The last part is about ClientSession: the path of the audio from the    *)
(* client's samples to the chunks of its reader, for streams, rings,       *)
(* pushes and chunks of every size; and that what is proved of the daemon  *)
(* without its clients holds with them.                                    *)
(***************************************************************************)
EXTENDS ClientSession, LiveProofs

-----------------------------------------------------------------------------
(* What a client has heard after each of a sequence of responses. *)

Things == Responses \cup {[kind |-> "none"]}

\* Nothing but responses can be heard.
LEMMA ThingHeard ==
  ASSUME NEW h \in Hearings, NEW r \in Things
  PROVE  Heard(h, r) \in Hearings
<1>1. CASE r \in Responses
  BY <1>1, HeardTyped
<1>2. CASE r = [kind |-> "none"]
  BY <1>2 DEF Heard
<1> QED BY <1>1, <1>2 DEF Things

\* Telling is the loop that it is.
LEMMA TellingDef ==
  ASSUME NEW h \in Hearings, NEW rs \in Seq(Things)
  PROVE  /\ Telling(h, rs) \in [0 .. Len(rs) -> Hearings]
         /\ Telling(h, rs)[0] = h
         /\ \A i \in 1 .. Len(rs) : /\ Telling(h, rs)[i] = Heard(Telling(h, rs)[i - 1], rs[i])
                                    /\ Telling(h, rs)[i - 1] \in Hearings
                                    /\ Telling(h, rs)[i] \in Hearings
<1> DEFINE n == Len(rs)
           step == [i \in 1 .. n |-> [g \in Hearings |-> Heard(g, rs[i])]]
           F(f) == [i \in 0 .. n |-> IF i = 0 THEN h ELSE Heard(f[i - 1], rs[i])]
           told == CHOOSE f : f = F(f)
<1>1. n \in Nat /\ \A i \in 1 .. n : rs[i] \in Things
  BY LenProperties
<1>3. \A i \in 1 .. n : \A g \in Hearings : Heard(g, rs[i]) \in Hearings
  BY <1>1, ThingHeard
<1>4. step \in Rounds(n, Hearings)
  BY <1>3 DEF Rounds
<1>5. PICK f : IsLoop(f, n, Hearings, h, step)
  <2> HIDE DEF n, step
  <2> QED BY <1>1, <1>4, LoopExists
<1>6. ASSUME NEW i \in 1 .. n PROVE f[i] = Heard(f[i - 1], rs[i])
  <2>1. f[i] = step[i][f[i - 1]] /\ f[i - 1] \in Hearings
    <3> HIDE DEF step
    <3> QED BY <1>5, <1>1 DEF IsLoop
  <2> QED BY <2>1
<1>7. f = F(f)
  <2> HIDE DEF step
  <2>1. f \in [0 .. n -> Hearings] /\ f[0] = h
    BY <1>5 DEF IsLoop
  <2>2. \A i \in 0 .. n : i # 0 => i \in 1 .. n
    BY <1>1
  <2>3. \A i \in 0 .. n : f[i] = (IF i = 0 THEN h ELSE Heard(f[i - 1], rs[i]))
    BY <2>1, <2>2, <1>6
  <2> QED BY <2>1, <2>3
<1>8. told = F(told)
  BY <1>7
<1> DEFINE D == {i \in 0 .. n : told[i] \in Hearings}
<1> HIDE DEF told
<1>9. told[0] = h /\ \A i \in 1 .. n : told[i] = Heard(told[i - 1], rs[i])
  <2>1. \A i \in 1 .. n : i \in 0 .. n /\ i # 0
    BY <1>1
  <2>2. 0 \in 0 .. n
    BY <1>1
  <2> HIDE DEF n
  <2> QED BY <1>8, <2>1, <2>2
<1>10. ASSUME NEW i \in 1 .. n, i - 1 \in D PROVE i \in D
  <2>1. told[i - 1] \in Hearings
    BY <1>10
  <2>2. told[i] \in Hearings
    BY <2>1, <1>3, <1>9
  <2>3. i \in 0 .. n
    BY <1>1
  <2> QED BY <2>2, <2>3
<1>11. \A i \in 0 .. n : told[i] \in Hearings
  <2>0. 0 \in D
    BY <1>9, <1>1
  <2>1. \A i \in 0 .. n : i \in D
    <3> HIDE DEF D, n
    <3> QED BY <1>1, <2>0, <1>10, UpTo
  <2> QED BY <2>1
<1>12. told \in [0 .. n -> Hearings]
  <2> HIDE DEF n
  <2> QED BY <1>8, <1>11
<1>13. Telling(h, rs) = told
  BY DEF Telling, told
<1>14. \A i \in 1 .. n : i - 1 \in 0 .. n /\ i \in 0 .. n
  BY <1>1
<1> HIDE DEF n
<1>15. \A i \in 1 .. n : told[i - 1] \in Hearings /\ told[i] \in Hearings
  BY <1>11, <1>14
<1> QED BY <1>12, <1>13, <1>9, <1>15 DEF n

\* What follows the recursion of Telling is Telling.
LEMMA TellingIs ==
  ASSUME NEW h \in Hearings, NEW rs \in Seq(Things), NEW f, f[0] = h,
         \A i \in 1 .. Len(rs) : f[i] = Heard(f[i - 1], rs[i])
  PROVE  \A i \in 0 .. Len(rs) : Telling(h, rs)[i] = f[i]
<1> DEFINE n == Len(rs)
           D == {i \in 0 .. n : Telling(h, rs)[i] = f[i]}
<1>1. n \in Nat
  BY LenProperties
<1>2. /\ Telling(h, rs)[0] = h
      /\ \A i \in 1 .. n : Telling(h, rs)[i] = Heard(Telling(h, rs)[i - 1], rs[i])
  BY TellingDef
<1>3. 0 \in D
  BY <1>1, <1>2
<1>4. ASSUME NEW i \in 1 .. n, i - 1 \in D PROVE i \in D
  <2>1. i \in 0 .. n
    BY <1>1
  <2> QED BY <1>2, <1>4, <2>1
<1>5. \A i \in 0 .. n : i \in D
  <2> HIDE DEF D, n
  <2> QED BY <1>1, <1>3, <1>4, UpTo
<1> QED BY <1>5

\* The responses of qs after those of ps.
Continues(rs, qs, k) ==
    /\ k \in Nat /\ k + Len(qs) <= Len(rs)
    /\ \A i \in 1 .. Len(qs) : qs[i] = rs[k + i]

\* A client that goes on listening hears the rest.
LEMMA TellingGoesOn ==
  ASSUME NEW h \in Hearings, NEW rs \in Seq(Things), NEW qs \in Seq(Things),
         NEW k, Continues(rs, qs, k)
  PROVE  /\ Telling(h, rs)[k] \in Hearings
         /\ \A i \in 0 .. Len(qs) : Telling(Telling(h, rs)[k], qs)[i] = Telling(h, rs)[k + i]
<1> DEFINE m == Len(qs)
           n == Len(rs)
           f == [i \in 0 .. m |-> Telling(h, rs)[k + i]]
           g == Telling(h, rs)[k]
<1>1. m \in Nat /\ n \in Nat /\ k \in Nat /\ k + m <= n
  BY LenProperties DEF Continues
<1>2. /\ Telling(h, rs) \in [0 .. n -> Hearings]
      /\ \A i \in 1 .. n : Telling(h, rs)[i] = Heard(Telling(h, rs)[i - 1], rs[i])
  BY TellingDef
<1>3. g \in Hearings
  <2>1. k \in 0 .. n
    BY <1>1
  <2> HIDE DEF n
  <2> QED BY <1>2, <2>1
<1>4. f[0] = g
  <2>1. 0 \in 0 .. m /\ k + 0 = k
    BY <1>1
  <2> QED BY <2>1
<1>5. ASSUME NEW i \in 1 .. m PROVE f[i] = Heard(f[i - 1], qs[i])
  <2>1. /\ k + i \in 1 .. n /\ (k + i) - 1 = k + (i - 1)
        /\ i \in 0 .. m /\ i - 1 \in 0 .. m
    BY <1>1
  <2>2. Telling(h, rs)[k + i] = Heard(Telling(h, rs)[k + (i - 1)], rs[k + i])
    <3> HIDE DEF n
    <3> QED BY <1>2, <2>1
  <2>3. qs[i] = rs[k + i]
    BY DEF Continues
  <2>4. f[i] = Telling(h, rs)[k + i] /\ f[i - 1] = Telling(h, rs)[k + (i - 1)]
    BY <2>1
  <2> HIDE DEF f
  <2> QED BY <2>2, <2>3, <2>4
<1>6. \A i \in 0 .. m : Telling(g, qs)[i] = f[i]
  <2> HIDE DEF f, g
  <2> QED BY <1>3, <1>4, <1>5, TellingIs
<1>7. \A i \in 0 .. m : f[i] = Telling(h, rs)[k + i]
  OBVIOUS
<1> HIDE DEF f
<1> QED BY <1>3, <1>6, <1>7

\* What a client that has heard h has heard after all of rs.
EndOf(h, rs) == Telling(h, rs)[Len(rs)]

\* Nothing to hear.
LEMMA EndOfNothing ==
  ASSUME NEW h \in Hearings
  PROVE  EndOf(h, <<>>) = h
<1>1. <<>> \in Seq(Things) /\ Len(<<>>) = 0
  BY EmptySeq
<1>2. Telling(h, <<>>)[0] = h
  BY <1>1, TellingDef
<1> QED BY <1>1, <1>2 DEF EndOf

\* The first response is heard, and then the others.
LEMMA EndOfRest ==
  ASSUME NEW h \in Hearings, NEW rs \in Seq(Things), rs # <<>>
  PROVE  /\ Heard(h, Head(rs)) \in Hearings /\ Head(rs) \in Things /\ Tail(rs) \in Seq(Things)
         /\ EndOf(Heard(h, Head(rs)), Tail(rs)) = EndOf(h, rs)
         /\ \A i \in DOMAIN Tail(rs) :
                Telling(Heard(h, Head(rs)), Tail(rs))[i - 1] = Telling(h, rs)[i]
<1> DEFINE n == Len(rs)
           qs == Tail(rs)
           g == Heard(h, Head(rs))
<1>1. /\ Head(rs) = rs[1] /\ Head(rs) \in Things /\ qs \in Seq(Things) /\ Len(qs) = n - 1
      /\ n \in Nat \ {0} /\ DOMAIN qs = 1 .. n - 1
      /\ \A i \in DOMAIN qs : qs[i] = rs[i + 1]
  BY Taken
<1>2. Continues(rs, qs, 1)
  <2>1. 1 + Len(qs) <= Len(rs)
    BY <1>1
  <2>2. \A i \in 1 .. Len(qs) : qs[i] = rs[1 + i]
    BY <1>1
  <2> QED BY <2>1, <2>2 DEF Continues
<1>3. Telling(h, rs)[1] = g
  <2>1. 1 \in 1 .. n /\ 1 - 1 = 0
    BY <1>1
  <2>2. Telling(h, rs)[0] = h /\ Telling(h, rs)[1] = Heard(Telling(h, rs)[1 - 1], rs[1])
    BY <2>1, TellingDef
  <2> QED BY <1>1, <2>1, <2>2
<1> HIDE DEF n, qs, g
<1>4. /\ Telling(h, rs)[1] \in Hearings
      /\ \A i \in 0 .. Len(qs) : Telling(Telling(h, rs)[1], qs)[i] = Telling(h, rs)[1 + i]
  <2>1. qs \in Seq(Things)
    BY <1>1
  <2> QED BY <1>2, <2>1, TellingGoesOn
<1>5. g \in Hearings /\ \A i \in 0 .. n - 1 : Telling(g, qs)[i] = Telling(h, rs)[1 + i]
  BY <1>1, <1>3, <1>4
<1>6. Telling(g, qs)[n - 1] = Telling(h, rs)[n]
  <2>1. n - 1 \in 0 .. n - 1 /\ 1 + (n - 1) = n
    BY <1>1
  <2> QED BY <1>5, <2>1
<1>7. \A i \in DOMAIN qs : Telling(g, qs)[i - 1] = Telling(h, rs)[i]
  <2>1. \A i \in DOMAIN qs : i - 1 \in 0 .. n - 1 /\ 1 + (i - 1) = i
    BY <1>1
  <2>2. ASSUME NEW i \in DOMAIN qs PROVE Telling(g, qs)[i - 1] = Telling(h, rs)[i]
    <3>1. Telling(g, qs)[i - 1] = Telling(h, rs)[1 + (i - 1)]
      BY <2>1, <1>5
    <3> QED BY <3>1, <2>1
  <2> QED BY <2>2
<1>8. EndOf(g, qs) = EndOf(h, rs)
  BY <1>1, <1>6 DEF EndOf, n
<1> QED BY <1>1, <1>5, <1>7, <1>8 DEF qs, g

\* One response more.
LEMMA EndOfMore ==
  ASSUME NEW h \in Hearings, NEW rs \in Seq(Things), NEW r \in Things
  PROVE  /\ EndOf(h, rs) \in Hearings /\ Append(rs, r) \in Seq(Things)
         /\ EndOf(h, Append(rs, r)) = Heard(EndOf(h, rs), r)
         /\ \A i \in DOMAIN rs : Telling(h, Append(rs, r))[i - 1] = Telling(h, rs)[i - 1]
         /\ Telling(h, Append(rs, r))[Len(rs)] = EndOf(h, rs)
<1> DEFINE n == Len(rs)
           qs == Append(rs, r)
<1>1. /\ qs \in Seq(Things) /\ Len(qs) = n + 1 /\ n \in Nat /\ DOMAIN rs = 1 .. n
      /\ \A i \in DOMAIN rs : qs[i] = rs[i]
      /\ qs[n + 1] = r
  BY Put
<1>2. Continues(qs, rs, 0)
  <2>1. 0 + Len(rs) <= Len(qs)
    BY <1>1
  <2>2. \A i \in 1 .. Len(rs) : rs[i] = qs[0 + i]
    BY <1>1
  <2> QED BY <2>1, <2>2 DEF Continues
<1> HIDE DEF n, qs
<1>3. Telling(h, qs)[0] = h
      /\ \A i \in 1 .. Len(qs) : Telling(h, qs)[i] = Heard(Telling(h, qs)[i - 1], qs[i])
  BY <1>1, TellingDef
<1>4. \A i \in 0 .. Len(rs) : Telling(h, rs)[i] = Telling(h, qs)[0 + i]
  BY <1>1, <1>2, <1>3, TellingGoesOn
<1>5. \A i \in 0 .. n : Telling(h, rs)[i] = Telling(h, qs)[i]
  <2>1. \A i \in 0 .. n : 0 + i = i
    BY <1>1
  <2> QED BY <1>4, <2>1 DEF n
<1>6. \A i \in DOMAIN rs : Telling(h, qs)[i - 1] = Telling(h, rs)[i - 1]
  <2>1. \A i \in DOMAIN rs : i - 1 \in 0 .. n
    BY <1>1
  <2> QED BY <1>5, <2>1
<1>7. Telling(h, qs)[n] = Telling(h, rs)[n]
  <2>1. n \in 0 .. n
    BY <1>1
  <2> QED BY <1>5, <2>1
<1>8. Telling(h, qs)[n + 1] = Heard(Telling(h, qs)[n], r)
  <2>1. n + 1 \in 1 .. Len(qs) /\ (n + 1) - 1 = n
    BY <1>1
  <2>2. Telling(h, qs)[n + 1] = Heard(Telling(h, qs)[(n + 1) - 1], qs[n + 1])
    BY <1>3, <2>1
  <2> QED BY <2>2, <2>1, <1>1
<1>9. Telling(h, rs)[n] \in Hearings
  <2>1. Telling(h, rs) \in [0 .. Len(rs) -> Hearings]
    BY TellingDef
  <2>2. n \in 0 .. Len(rs)
    BY <1>1 DEF n
  <2> QED BY <2>1, <2>2
<1> QED BY <1>1, <1>6, <1>7, <1>8, <1>9 DEF EndOf, n, qs

\* What is no segment and no speech event is not heard.
LEMMA EndOfSilence ==
  ASSUME NEW h \in Hearings, NEW rs \in Seq(Things),
         \A i \in DOMAIN rs : rs[i].kind \notin {"segment", "speech"}
  PROVE  /\ EndOf(h, rs) = h
         /\ \A i \in DOMAIN rs : Telling(h, rs)[i - 1] = h
<1> DEFINE n == Len(rs)
           f == [i \in 0 .. n |-> h]
<1>1. n \in Nat /\ DOMAIN rs = 1 .. n
  BY LenProperties
<1>2. f[0] = h
  BY <1>1
<1>3. ASSUME NEW i \in 1 .. n PROVE f[i] = Heard(f[i - 1], rs[i])
  <2>1. i \in 0 .. n /\ i - 1 \in 0 .. n
    BY <1>1
  <2>2. f[i] = h /\ f[i - 1] = h
    BY <2>1
  <2>3. Heard(h, rs[i]) = h
    BY <1>1 DEF Heard
  <2> QED BY <2>2, <2>3
<1>4. \A i \in 0 .. n : Telling(h, rs)[i] = f[i]
  <2> HIDE DEF f
  <2> QED BY <1>2, <1>3, TellingIs
<1>5. \A i \in 0 .. n : Telling(h, rs)[i] = h
  BY <1>4
<1>6. n \in 0 .. n /\ \A i \in DOMAIN rs : i - 1 \in 0 .. n
  BY <1>1
<1> HIDE DEF n
<1> QED BY <1>5, <1>6 DEF EndOf, n

-----------------------------------------------------------------------------
(* What a client may be told. *)

\* Text up to a is followed by text from b.
Meets(a, b) == IF HasVad THEN a <= b ELSE a = b

\* A client that has heard h has heard all of the n chunks there are.
HeardAll(n, h) == IF HasVad THEN h.upTo = h.speech ELSE h.upTo = n

\* Its reader, which is at rd, reads no more and it has heard everything.
Over(n, rd, h) == rd \notin {"reading", "sending"} /\ HeardAll(n, h)

\* r is right for the client of s that has heard h, when n chunks are read.
Follows(s, n, rd, h, r) ==
    /\ r.kind = "segment" => /\ Meets(h.upTo, r.from) /\ r.from < r.to /\ r.to <= n
                             /\ r.session = s /\ r.begin = r.from
                             /\ HasVad => r.to <= h.speech
    /\ r.kind = "speech" => h.speech <= r.at
    /\ r.kind = "finished" /\ r.ok /\ rd # "failed" => Over(n, rd, h)

\* So are all of rs, one after the other.
Right(s, n, rd, h, rs) ==
    \A i \in DOMAIN rs : Follows(s, n, rd, Telling(h, rs)[i - 1], rs[i])

\* More audio, and another state of the reader while it reads, change nothing.
Reads(n, rd, m, rdNow) ==
    /\ n \in Nat /\ m \in Nat /\ n <= m
    /\ rd \in {"reading", "sending"} \/ (rdNow = rd /\ m = n)

\* What follows then follows now.
LEMMA FollowsStill ==
  ASSUME NEW s, NEW n, NEW rd, NEW m, NEW rdNow, Reads(n, rd, m, rdNow),
         NEW h, NEW r \in Things, Follows(s, n, rd, h, r)
  PROVE  Follows(s, m, rdNow, h, r)
<1>1. CASE rdNow = rd /\ m = n
  BY <1>1
<1>2. CASE rd \in {"reading", "sending"}
  <2>1. r.kind = "segment" => r.to \in Nat
    <3>1. CASE r \in Responses
      BY <3>1, ResponseKinds
    <3>2. CASE r = [kind |-> "none"]
      BY <3>2
    <3> QED BY <3>1, <3>2 DEF Things
  <2>2. r.kind = "segment" => r.to <= m
    BY <1>2, <2>1 DEF Follows, Reads
  <2>3. ~(r.kind = "finished" /\ r.ok)
    BY <1>2 DEF Follows, Over
  <2> QED BY <2>2, <2>3 DEF Follows
<1> QED BY <1>1, <1>2 DEF Reads

\* The same for a sequence.
LEMMA RightStill ==
  ASSUME NEW s, NEW n, NEW rd, NEW m, NEW rdNow, Reads(n, rd, m, rdNow),
         NEW h, NEW rs \in Seq(Things), Right(s, n, rd, h, rs)
  PROVE  Right(s, m, rdNow, h, rs)
<1>1. \A i \in DOMAIN rs : rs[i] \in Things
  BY ElementOfSeq, LenProperties
<1> QED BY <1>1, FollowsStill DEF Right

\* The first is right, and after it the others are.
LEMMA RightRest ==
  ASSUME NEW s, NEW n, NEW rd, NEW h \in Hearings, NEW rs \in Seq(Things), rs # <<>>,
         Right(s, n, rd, h, rs)
  PROVE  /\ Follows(s, n, rd, h, Head(rs))
         /\ Right(s, n, rd, Heard(h, Head(rs)), Tail(rs))
<1> DEFINE g == Heard(h, Head(rs))
           qs == Tail(rs)
<1>1. /\ Head(rs) = rs[1] /\ 1 \in DOMAIN rs
      /\ \A i \in DOMAIN qs : i + 1 \in DOMAIN rs /\ qs[i] = rs[i + 1] /\ i \in Nat
  BY Taken
<1>2. \A i \in DOMAIN qs : Telling(g, qs)[i - 1] = Telling(h, rs)[i]
  BY EndOfRest
<1>3. Telling(h, rs)[0] = h
  BY TellingDef
<1> HIDE DEF g, qs
<1>4. Follows(s, n, rd, h, Head(rs))
  <2>1. Follows(s, n, rd, Telling(h, rs)[1 - 1], rs[1])
    BY <1>1 DEF Right
  <2> QED BY <2>1, <1>1, <1>3
<1>5. ASSUME NEW i \in DOMAIN qs PROVE Follows(s, n, rd, Telling(g, qs)[i - 1], qs[i])
  <2>1. i + 1 \in DOMAIN rs /\ (i + 1) - 1 = i /\ qs[i] = rs[i + 1]
    BY <1>1
  <2>2. Follows(s, n, rd, Telling(h, rs)[(i + 1) - 1], rs[i + 1])
    BY <2>1 DEF Right
  <2> QED BY <2>1, <2>2, <1>2
<1>6. Right(s, n, rd, g, qs)
  BY <1>5 DEF Right
<1> QED BY <1>4, <1>6 DEF g, qs

\* One more, that is right at the end.
LEMMA RightMore ==
  ASSUME NEW s, NEW n, NEW rd, NEW h \in Hearings, NEW rs \in Seq(Things),
         NEW r \in Things, Right(s, n, rd, h, rs), Follows(s, n, rd, EndOf(h, rs), r)
  PROVE  Right(s, n, rd, h, Append(rs, r))
<1> DEFINE qs == Append(rs, r)
<1>1. /\ DOMAIN qs = 1 .. Len(rs) + 1 /\ DOMAIN rs = 1 .. Len(rs) /\ Len(rs) \in Nat
      /\ \A i \in DOMAIN rs : qs[i] = rs[i]
      /\ qs[Len(rs) + 1] = r
  BY Put
<1>2. /\ \A i \in DOMAIN rs : Telling(h, qs)[i - 1] = Telling(h, rs)[i - 1]
      /\ Telling(h, qs)[Len(rs)] = EndOf(h, rs)
  BY EndOfMore
<1> HIDE DEF qs
<1>3. ASSUME NEW i \in DOMAIN qs PROVE Follows(s, n, rd, Telling(h, qs)[i - 1], qs[i])
  <2>1. CASE i \in DOMAIN rs
    BY <2>1, <1>1, <1>2 DEF Right
  <2>2. CASE i = Len(rs) + 1
    <3>1. i - 1 = Len(rs)
      BY <2>2, <1>1
    <3> QED BY <3>1, <2>2, <1>1, <1>2
  <2> QED BY <2>1, <2>2, <1>1
<1> QED BY <1>3 DEF Right, qs

\* A sequence that says nothing is right when its ends are.
LEMMA RightSilence ==
  ASSUME NEW s, NEW n, NEW rd, NEW h \in Hearings, NEW rs \in Seq(Things),
         \A i \in DOMAIN rs : /\ rs[i].kind \notin {"segment", "speech"}
                              /\ rs[i].kind = "finished" /\ rs[i].ok /\ rd # "failed"
                                    => Over(n, rd, h)
  PROVE  Right(s, n, rd, h, rs)
<1>1. \A i \in DOMAIN rs : Telling(h, rs)[i - 1] = h
  BY EndOfSilence
<1> QED BY <1>1 DEF Right, Follows

-----------------------------------------------------------------------------
(* What the outbox holds for a session. *)

DueOf(q, s) == [i \in DOMAIN q |->
                   IF q[i].to = "session" /\ q[i].session = s
                   THEN q[i].response ELSE [kind |-> "none"]]

\* Now and next.
LEMMA DueIs ==
  ASSUME NEW s
  PROVE  Due(s) = DueOf(outbox, s) /\ Due(s)' = DueOf(outbox', s)
BY DEF Due, DueOf

\* It is a sequence of things to hear.
LEMMA DueTyped ==
  ASSUME NEW s, NEW q \in Seq(Messages)
  PROVE  /\ DueOf(q, s) \in Seq(Things) /\ Len(DueOf(q, s)) = Len(q)
         /\ DOMAIN DueOf(q, s) = DOMAIN q /\ DOMAIN q = 1 .. Len(q) /\ Len(q) \in Nat
         /\ \A i \in DOMAIN q :
              DueOf(q, s)[i] = IF q[i].to = "session" /\ q[i].session = s
                               THEN q[i].response ELSE [kind |-> "none"]
<1>1. Len(q) \in Nat /\ DOMAIN q = 1 .. Len(q) /\ \A i \in DOMAIN q : q[i] \in Messages
  BY LenProperties, ElementOfSeq
<1>2. \A i \in DOMAIN q : DueOf(q, s)[i] = IF q[i].to = "session" /\ q[i].session = s
                                           THEN q[i].response ELSE [kind |-> "none"]
  BY DEF DueOf
<1>3. DueOf(q, s) \in [1 .. Len(q) -> Things]
  <2>1. \A i \in DOMAIN q : (IF q[i].to = "session" /\ q[i].session = s
                             THEN q[i].response ELSE [kind |-> "none"]) \in Things
    BY <1>1, MessageFields DEF Things
  <2> QED BY <1>1, <2>1 DEF DueOf
<1> QED BY <1>1, <1>2, <1>3, SeqOf

\* When the first message has left, the rest is due.
LEMMA DueRest ==
  ASSUME NEW s, NEW q \in Seq(Messages), q # <<>>
  PROVE  /\ DueOf(Tail(q), s) = Tail(DueOf(q, s)) /\ DueOf(q, s) # <<>>
         /\ Head(DueOf(q, s)) = IF Head(q).to = "session" /\ Head(q).session = s
                                THEN Head(q).response ELSE [kind |-> "none"]
<1> DEFINE d == DueOf(q, s)
<1>1. /\ Head(q) = q[1] /\ 1 \in DOMAIN q /\ Tail(q) \in Seq(Messages)
      /\ Len(Tail(q)) = Len(q) - 1 /\ Len(q) \in Nat \ {0}
      /\ DOMAIN Tail(q) = 1 .. Len(q) - 1
      /\ \A i \in DOMAIN Tail(q) : i + 1 \in DOMAIN q /\ Tail(q)[i] = q[i + 1]
  BY Taken
<1>2. /\ d \in Seq(Things) /\ Len(d) = Len(q) /\ DOMAIN d = DOMAIN q
      /\ \A i \in DOMAIN q : d[i] = IF q[i].to = "session" /\ q[i].session = s
                                    THEN q[i].response ELSE [kind |-> "none"]
  BY DueTyped
<1>3. /\ DueOf(Tail(q), s) \in Seq(Things) /\ Len(DueOf(Tail(q), s)) = Len(Tail(q))
      /\ \A i \in DOMAIN Tail(q) :
           DueOf(Tail(q), s)[i] = IF Tail(q)[i].to = "session" /\ Tail(q)[i].session = s
                                  THEN Tail(q)[i].response ELSE [kind |-> "none"]
  BY <1>1, DueTyped
<1> HIDE DEF d
<1>4. d # <<>>
  BY <1>1, <1>2, EmptySeq
<1>5. /\ Head(d) = d[1] /\ Tail(d) \in Seq(Things) /\ Len(Tail(d)) = Len(d) - 1
      /\ DOMAIN Tail(d) = 1 .. Len(d) - 1
      /\ \A i \in DOMAIN Tail(d) : Tail(d)[i] = d[i + 1]
  BY <1>2, <1>4, Taken
<1>6. \A i \in 1 .. Len(q) - 1 : DueOf(Tail(q), s)[i] = Tail(d)[i]
  <2> TAKE i \in 1 .. Len(q) - 1
  <2>1. /\ i \in DOMAIN Tail(q) /\ i \in DOMAIN Tail(d) /\ i + 1 \in DOMAIN q
        /\ Tail(q)[i] = q[i + 1]
    BY <1>1, <1>2, <1>5
  <2>2. Tail(d)[i] = d[i + 1]
    BY <2>1, <1>5
  <2> QED BY <2>1, <2>2, <1>2, <1>3
<1>7. DueOf(Tail(q), s) = Tail(d)
  BY <1>1, <1>2, <1>3, <1>5, <1>6, SeqEqual
<1> QED BY <1>1, <1>2, <1>4, <1>5, <1>7 DEF d

-----------------------------------------------------------------------------
(* What has been told to each client, and what is about to be. *)

\* The client of s has heard h, has q still to hear and got fin as its end.
SaidRight(s, n, rd, fin, h, q) ==
    /\ HasVad => h.upTo <= h.speech
    /\ Right(s, n, rd, h, q)
    /\ fin = "ok" /\ rd # "failed" => Over(n, rd, h)
    /\ fin \in {"done", "cancelled"} => HeardAll(n, h)

\* What it will have heard of the response queue, and of the outbox as well.
Soon(s) == EndOf(heard[s], respQ[s])
Told(s) == EndOf(Soon(s), Due(s))

SaidNow(s)  == SaidRight(s, sent[s], reader[s], final[s], heard[s], respQ[s])
DueRight(s) == Listening(s) => Right(s, sent[s], reader[s], Soon(s), Due(s))

ToldInv == \A s \in Sessions : SaidNow(s) /\ DueRight(s)

\* The types of all this, now and next.
LEMMA ToldTypes ==
  ASSUME NEW s \in Sessions
  PROVE  /\ TypeInv =>
              /\ heard[s] \in Hearings /\ respQ[s] \in Seq(Responses) /\ respQ[s] \in Seq(Things)
              /\ Due(s) \in Seq(Things) /\ Soon(s) \in Hearings /\ Told(s) \in Hearings
              /\ sent[s] \in Nat /\ reader[s] \in Readers /\ phase[s] \in Phases
         /\ TypeInv' =>
              /\ heard'[s] \in Hearings /\ respQ'[s] \in Seq(Things)
              /\ Due(s)' \in Seq(Things) /\ Soon(s)' \in Hearings /\ Told(s)' \in Hearings
              /\ sent'[s] \in Nat
<1> HIDE DEF Responses, Messages
<1>1. \A rs \in Seq(Responses) : rs \in Seq(Things)
  <2>1. Responses \subseteq Things
    BY DEF Things
  <2> TAKE rs \in Seq(Responses)
  <2>2. Len(rs) \in Nat /\ DOMAIN rs = 1 .. Len(rs) /\ \A i \in 1 .. Len(rs) : rs[i] \in Things
    BY <2>1, LenProperties, ElementOfSeq
  <2>3. rs \in [1 .. Len(rs) -> Things]
    <3>1. rs \in [1 .. Len(rs) -> Responses]
      BY LenProperties
    <3> QED BY <3>1, <2>1, <2>2
  <2> QED BY <2>2, <2>3, SeqOf
<1>2. ASSUME NEW h \in Hearings, NEW rs \in Seq(Things) PROVE EndOf(h, rs) \in Hearings
  <2>1. [kind |-> "none"] \in Things
    BY DEF Things
  <2> QED BY <2>1, EndOfMore
<1>3. ASSUME TypeInv
      PROVE  /\ heard[s] \in Hearings /\ respQ[s] \in Seq(Responses)
             /\ sent[s] \in Nat /\ reader[s] \in Readers /\ phase[s] \in Phases
             /\ outbox \in Seq(Messages)
  BY <1>3, LimitTypes DEF TypeInv, SessionsTyped, SchedulerTyped
<1>4. ASSUME TypeInv'
      PROVE  /\ heard'[s] \in Hearings /\ respQ'[s] \in Seq(Responses) /\ sent'[s] \in Nat
             /\ outbox' \in Seq(Messages)
  BY <1>4, LimitTypes DEF TypeInv, SessionsTyped, SchedulerTyped
<1>5. ASSUME TypeInv
      PROVE  /\ respQ[s] \in Seq(Things) /\ Due(s) \in Seq(Things)
             /\ Soon(s) \in Hearings /\ Told(s) \in Hearings
  <2>1. respQ[s] \in Seq(Things) /\ Due(s) \in Seq(Things)
    BY <1>1, <1>3, <1>5, DueIs, DueTyped
  <2> QED BY <2>1, <1>2, <1>3, <1>5 DEF Soon, Told
<1>6. ASSUME TypeInv'
      PROVE  /\ respQ'[s] \in Seq(Things) /\ Due(s)' \in Seq(Things)
             /\ Soon(s)' \in Hearings /\ Told(s)' \in Hearings
  <2>1. respQ'[s] \in Seq(Things) /\ Due(s)' \in Seq(Things)
    BY <1>1, <1>4, <1>6, DueIs, DueTyped
  <2>2. EndOf(heard'[s], respQ'[s]) \in Hearings
    BY <2>1, <1>2, <1>4, <1>6
  <2>3. Soon(s)' \in Hearings
    BY <2>2 DEF Soon
  <2>4. EndOf(Soon(s)', Due(s)') \in Hearings
    BY <2>1, <2>3, <1>2
  <2> QED BY <2>1, <2>3, <2>4 DEF Told
<1> QED BY <1>3, <1>4, <1>5, <1>6

\* What ToldInv says of s after a step.
Then(s) == /\ SaidRight(s, sent'[s], reader'[s], final'[s], heard'[s], respQ'[s])
           /\ phase'[s] \in {"live", "joining"} =>
                  Right(s, sent'[s], reader'[s], EndOf(heard'[s], respQ'[s]), DueOf(outbox', s))

\* ToldInv after the step.
LEMMA ThenTold ==
  ASSUME \A s \in Sessions : Then(s)
  PROVE  ToldInv'
<1>1. ASSUME NEW s \in Sessions PROVE SaidNow(s)' /\ DueRight(s)'
  <2>1. Then(s) /\ Due(s)' = DueOf(outbox', s)
    BY DueIs
  <2>2. SaidNow(s)'
    BY <2>1 DEF Then, SaidNow
  <2>3. Soon(s)' = EndOf(heard'[s], respQ'[s])
    BY DEF Soon
  <2>4. DueRight(s)'
    BY <2>1, <2>3 DEF Then, DueRight, Listening
  <2> QED BY <2>2, <2>4
<1> QED BY <1>1 DEF ToldInv

\* A session takes place in its queue, or does not.
LEMMA SubmitTells ==
  ASSUME TypeInv, PhaseInv, ToldInv, NEW s \in Sessions, Submit(s) \/ SpawnFails(s),
         outbox' = outbox
  PROVE  Then(s)
<1>1. /\ phase[s] = "new" /\ Fresh(s) /\ sent[s] = 0 /\ final[s] = "none"
      /\ UNCHANGED <<sent, respQ, heard, final>>
  BY DEF Submit, SpawnFails, PhaseInv
<1>2. heard[s] = [from |-> 0, upTo |-> 0, speech |-> 0] /\ respQ[s] = <<>>
      /\ \A i \in DOMAIN outbox : ~ToldOf(i, s)
  BY <1>1 DEF Fresh
<1>3. heard[s] \in Hearings /\ EndOf(heard[s], <<>>) = heard[s]
  BY ToldTypes, EndOfNothing
<1>4. SaidRight(s, sent'[s], reader'[s], final'[s], heard'[s], respQ'[s])
  BY <1>1, <1>2 DEF SaidRight, Right
<1>5. /\ DueOf(outbox, s) \in Seq(Things)
      /\ \A i \in DOMAIN DueOf(outbox, s) : DueOf(outbox, s)[i].kind = "none"
  <2>1. outbox \in Seq(Messages)
    BY SchedulerValues DEF TypeInv
  <2>2. /\ DueOf(outbox, s) \in Seq(Things) /\ DOMAIN DueOf(outbox, s) = DOMAIN outbox
        /\ \A i \in DOMAIN outbox :
             DueOf(outbox, s)[i] = IF outbox[i].to = "session" /\ outbox[i].session = s
                                   THEN outbox[i].response ELSE [kind |-> "none"]
    BY <2>1, DueTyped
  <2> QED BY <1>2, <2>2 DEF ToldOf
<1>6. Right(s, sent'[s], reader'[s], heard[s], DueOf(outbox, s))
  BY <1>3, <1>5, RightSilence
<1> QED BY <1>1, <1>2, <1>3, <1>4, <1>6 DEF Then

\* A response goes to the client.
LEMMA WriteTells ==
  ASSUME TypeInv, PhaseInv, ToldInv, NEW s \in Sessions, WriteResponse(s), outbox' = outbox
  PROVE  /\ Then(s) /\ EndOf(heard'[s], respQ'[s]) = Soon(s)
         /\ Follows(s, sent[s], reader[s], heard[s], Head(respQ[s]))
<1> DEFINE q == respQ[s]
           h == heard[s]
<1>1. /\ phase[s] = "live" /\ q # <<>> /\ Head(q).kind # "finished"
      /\ heard'[s] = Heard(h, Head(q)) /\ respQ'[s] = Tail(q)
      /\ phase' = phase /\ reader' = reader /\ sent' = sent /\ final' = final
  BY DEF WriteResponse, TypeInv, SessionsTyped
<1>2. h \in Hearings /\ q \in Seq(Things) /\ q \in Seq(Responses)
  BY ToldTypes
<1>3. /\ SaidRight(s, sent[s], reader[s], final[s], h, q)
      /\ Right(s, sent[s], reader[s], EndOf(h, q), DueOf(outbox, s))
  BY <1>1, DueIs DEF ToldInv, SaidNow, DueRight, Listening, Soon
<1>4. final[s] = "none"
  BY <1>1 DEF PhaseInv
<1> HIDE DEF q, h
<1>5. /\ EndOf(Heard(h, Head(q)), Tail(q)) = EndOf(h, q)
      /\ Head(q) \in Things
  BY <1>1, <1>2, EndOfRest
<1>6. /\ Follows(s, sent[s], reader[s], h, Head(q))
      /\ Right(s, sent[s], reader[s], Heard(h, Head(q)), Tail(q))
  <2>1. Right(s, sent[s], reader[s], h, q)
    BY <1>3 DEF SaidRight
  <2> QED BY <1>1, <1>2, <2>1, RightRest
<1>7. HasVad => Heard(h, Head(q)).upTo <= Heard(h, Head(q)).speech
  <2>0. /\ Head(q) \in Responses /\ h.upTo \in Nat /\ h.speech \in Nat
    BY <1>1, <1>2, Taken DEF Hearings
  <2>1. CASE Head(q).kind = "segment"
    BY <2>1, <1>2, <1>6, <2>0 DEF Heard, Follows, Hearings
  <2>2. CASE Head(q).kind = "speech"
    <3>1. Head(q).at \in Nat
      BY <2>0, <2>2, ResponseKinds
    <3>2. Heard(h, Head(q)).upTo = h.upTo /\ Heard(h, Head(q)).speech = Head(q).at
      BY <2>2, <1>2 DEF Heard, Hearings
    <3>3. h.speech <= Head(q).at /\ (HasVad => h.upTo <= h.speech)
      BY <2>2, <1>6, <1>3 DEF Follows, SaidRight
    <3> QED BY <3>1, <3>2, <3>3, <2>0
  <2>3. CASE Head(q).kind = "finished"
    BY <2>3, <1>1
  <2> QED BY <2>0, <2>1, <2>2, <2>3, ResponseKinds
<1>8. SaidRight(s, sent'[s], reader'[s], final'[s], heard'[s], respQ'[s])
  BY <1>1, <1>4, <1>6, <1>7 DEF SaidRight
<1> QED BY <1>1, <1>3, <1>5, <1>6, <1>8 DEF Then, Soon, q, h

\* The client has gone.
LEMMA FailTells ==
  ASSUME TypeInv, PhaseInv, ToldInv, NEW s \in Sessions, WriteFails(s)
  PROVE  Then(s)
<1>1. /\ phase[s] = "live" /\ phase'[s] = "gone" /\ respQ'[s] = <<>>
      /\ reader' = reader /\ sent' = sent /\ heard' = heard /\ final' = final
  BY DEF WriteFails, TypeInv, SessionsTyped
<1>2. SaidRight(s, sent[s], reader[s], final[s], heard[s], respQ[s])
  BY DEF ToldInv, SaidNow
<1> QED BY <1>1, <1>2 DEF Then, SaidRight, Right

\* The job has finished.
LEMMA FinishTells ==
  ASSUME TypeInv, PhaseInv, ToldInv, NEW s \in Sessions, TakeFinished(s), outbox' = outbox
  PROVE  Then(s) /\ EndOf(heard'[s], respQ'[s]) = Soon(s)
<1> DEFINE q == respQ[s]
           h == heard[s]
<1>1. /\ phase[s] = "live" /\ q # <<>> /\ Head(q).kind = "finished"
      /\ final'[s] = (IF Head(q).ok THEN "ok" ELSE "err") /\ respQ'[s] = Tail(q)
      /\ heard' = heard /\ reader' = reader /\ sent' = sent
  BY DEF TakeFinished, TypeInv, SessionsTyped
<1>2. h \in Hearings /\ q \in Seq(Things)
  BY ToldTypes
<1>3. /\ SaidRight(s, sent[s], reader[s], final[s], h, q)
      /\ Right(s, sent[s], reader[s], EndOf(h, q), DueOf(outbox, s))
  BY <1>1, DueIs DEF ToldInv, SaidNow, DueRight, Listening, Soon
<1> HIDE DEF q, h
<1>4. Heard(h, Head(q)) = h
  BY <1>1 DEF Heard
<1>5. EndOf(h, Tail(q)) = EndOf(h, q)
  BY <1>1, <1>2, <1>4, EndOfRest
<1>6. /\ Follows(s, sent[s], reader[s], h, Head(q))
      /\ Right(s, sent[s], reader[s], h, Tail(q))
  <2>1. Right(s, sent[s], reader[s], h, q)
    BY <1>3 DEF SaidRight
  <2> QED BY <1>1, <1>2, <1>4, <2>1, RightRest
<1>7. SaidRight(s, sent'[s], reader'[s], final'[s], heard'[s], respQ'[s])
  BY <1>1, <1>3, <1>6 DEF SaidRight, Follows, h
<1> QED BY <1>1, <1>3, <1>5, <1>7 DEF Then, Soon, q, h

\* The session ends.
LEMMA JoinTells ==
  ASSUME TypeInv, PhaseInv, ToldInv, NEW s \in Sessions, JoinReader(s)
  PROVE  Then(s)
<1>1. /\ phase[s] = "joining" /\ ~Reading(s) /\ phase'[s] = "ended" /\ respQ'[s] = <<>>
      /\ final'[s] = FinalResponse(reader[s], final[s])
      /\ reader' = reader /\ sent' = sent /\ heard' = heard
  BY DEF JoinReader, TypeInv, SessionsTyped
<1>2. SaidRight(s, sent[s], reader[s], final[s], heard[s], respQ[s])
  BY DEF ToldInv, SaidNow
<1>3. final[s] \in {"ok", "err"}
  BY <1>1 DEF PhaseInv
<1>4. reader[s] \in {"completed", "cancelled", "failed"}
  BY <1>1 DEF TypeInv, SessionsTyped, Readers, Reading
<1>5. /\ final'[s] \in {"done", "cancelled", "error"}
      /\ final'[s] # "error" => final[s] = "ok" /\ reader[s] # "failed"
  <2>1. CASE reader[s] = "failed" \/ final[s] = "err"
    BY <1>1, <2>1 DEF FinalResponse
  <2>2. CASE reader[s] # "failed" /\ final[s] = "ok" /\ reader[s] = "completed"
    BY <1>1, <2>2 DEF FinalResponse
  <2>3. CASE reader[s] # "failed" /\ final[s] = "ok" /\ reader[s] = "cancelled"
    BY <1>1, <2>3 DEF FinalResponse
  <2> QED BY <1>3, <1>4, <2>1, <2>2, <2>3
<1> QED BY <1>1, <1>2, <1>5 DEF Then, SaidRight, Right, Over

\* A reader's steps: more audio, or the end of it.
LEMMA ReaderTells ==
  ASSUME TypeInv, TypeInv', PhaseInv, ToldInv, NEW s \in Sessions, ReaderThread(s, Held(s)),
         outbox' = outbox
  PROVE  Then(s) /\ phase' = phase /\ heard' = heard /\ respQ' = respQ /\ final' = final
<1>1. /\ phase' = phase /\ heard' = heard /\ respQ' = respQ /\ final' = final
      /\ reader[s] \in {"reading", "sending"}
      /\ sent' = sent \/ sent' = [sent EXCEPT ![s] = @ + 1]
  BY DEF ReaderThread, ReadAudio, SendChunk, EndOfStream, Cancel, BadSignal, ReaderFails
<1>2. /\ sent[s] \in Nat /\ sent'[s] \in Nat /\ respQ[s] \in Seq(Things)
      /\ Due(s) \in Seq(Things) /\ Soon(s) \in Hearings
  BY ToldTypes
<1>3. sent[s] <= sent'[s]
  BY <1>1, <1>2 DEF TypeInv, SessionsTyped
<1>4. Reads(sent[s], reader[s], sent'[s], reader'[s])
  BY <1>1, <1>2, <1>3 DEF Reads
<1>5. /\ SaidRight(s, sent[s], reader[s], final[s], heard[s], respQ[s])
      /\ Listening(s) => Right(s, sent[s], reader[s], Soon(s), Due(s))
  BY DEF ToldInv, SaidNow, DueRight
<1>6. Right(s, sent'[s], reader'[s], heard[s], respQ[s])
  BY <1>2, <1>4, <1>5, RightStill DEF SaidRight
<1>7. final[s] \notin {"ok", "done", "cancelled"} \/ reader[s] = "failed"
  <2>1. phase[s] # "ended"
    BY <1>1 DEF PhaseInv, Reading
  <2>2. final[s] \notin {"done", "cancelled"}
    BY <2>1, ToldTypes DEF PhaseInv, Phases
  <2> QED BY <1>1, <1>5, <2>2 DEF SaidRight, Over
<1>8. SaidRight(s, sent'[s], reader'[s], final'[s], heard'[s], respQ'[s])
  BY <1>1, <1>5, <1>6, <1>7 DEF SaidRight
<1>9. Listening(s) => Right(s, sent'[s], reader'[s], Soon(s), DueOf(outbox, s))
  BY <1>2, <1>4, <1>5, DueIs, RightStill
<1> QED BY <1>1, <1>8, <1>9 DEF Then, Soon, Listening

-----------------------------------------------------------------------------
(* The order of a job's windows. *)

\* The windows of job that are not delivered yet: those whose results wait, and
\* those among the outstanding work os.
Hand(job, os) == job.pending \cup {o.item : o \in {p \in os : Whisper(p)}}

\* They continue what the client has been told, up to where the buffer begins;
\* none is missing, unless an error is coming.
Order(job, os, told) ==
    /\ \A x, y \in Hand(job, os) : y.index = x.index + 1 => Meets(x.to, y.from)
    /\ \A x \in Hand(job, os) :
        /\ x.index = job.nextResult => Meets(told.upTo, x.from)
        /\ x.index + 1 = job.nextWindow =>
            Meets(x.to, job.offset) /\ (HasVad => x.to = told.speech)
        /\ HasVad => x.to <= told.speech
    /\ job.nextResult = job.nextWindow =>
        Meets(told.upTo, job.offset) /\ (HasVad => told.upTo = told.speech)
    /\ HasVad => told.speech <= job.offset
    /\ \A k \in job.nextResult .. job.nextWindow - 1 :
        (\E x \in Hand(job, os) : x.index = k) \/ (\E o \in os : o.item.kind = "error")

OrderInv == pc # "clear" => \A i \in DOMAIN active :
                Listening(active[i].session) =>
                    Order(active[i], OutstandingFor(active[i]), Told(active[i].session))

\* The windows of a job that are not delivered are windows, and numbered as such.
LEMMA HandTyped ==
  ASSUME NEW job \in Jobs, JobOK(job), NEW os, Suits(job, os),
         \A o \in os : Whisper(o) => o.item \in WhisperTasks
  PROVE  \A x \in Hand(job, os) :
           /\ x \in WhisperTasks /\ x.index \in Nat /\ x.from \in Nat /\ x.to \in Nat
           /\ job.nextResult <= x.index /\ x.index < job.nextWindow /\ x.session = job.session
<1>0. job.nextResult \in Nat /\ job.nextWindow \in Nat /\ job.pending \in SUBSET WhisperTasks
  BY JobFields
<1>1. ASSUME NEW x \in job.pending
      PROVE  /\ x \in WhisperTasks /\ x.index \in Nat
             /\ job.nextResult <= x.index /\ x.index < job.nextWindow /\ x.session = job.session
  BY <1>0, WhisperFields DEF JobOK
<1>2. ASSUME NEW o \in os, Whisper(o)
      PROVE  /\ o.item \in WhisperTasks /\ job.nextResult <= o.item.index
             /\ o.item.index < job.nextWindow /\ o.item.session = job.session
  BY <1>2 DEF Suits, WhisperOwn
<1>3. ASSUME NEW x \in Hand(job, os)
      PROVE  /\ x \in WhisperTasks
             /\ job.nextResult <= x.index /\ x.index < job.nextWindow /\ x.session = job.session
  BY <1>1, <1>2 DEF Hand
<1> QED BY <1>3, WhisperFields

\* What keeps the order of a job.
SameOrder(job, new) ==
    /\ new.id = job.id /\ new.session = job.session
    /\ new.nextResult = job.nextResult /\ new.nextWindow = job.nextWindow
    /\ new.pending = job.pending
    /\ new.offset = job.offset \/ (HasVad /\ job.offset <= new.offset)

\* The order is kept while the work moves on.
LEMMA OrderCarried ==
  ASSUME NEW job \in Jobs, JobOK(job), NEW new \in Jobs, SameOrder(job, new),
         NEW os, NEW ns, Carried(os, ns), Suits(job, os),
         \A o \in os : Whisper(o) => o.item \in WhisperTasks,
         NEW told \in Hearings, Order(job, os, told)
  PROVE  Order(new, ns, told)
<1>1. /\ job.offset \in Nat /\ new.offset \in Nat
      /\ told.upTo \in Nat /\ told.speech \in Nat
  BY JobFields DEF Hearings
<1>2. \A x \in Hand(job, os) : x.to \in Nat
  BY HandTyped
<1>3. ASSUME NEW m, Meets(m, job.offset), m \in Nat PROVE Meets(m, new.offset)
  BY <1>1, <1>3 DEF Meets, SameOrder
<1>4. /\ \A o \in os : \E n \in ns : Becomes(o.item, n.item)
      /\ \A n \in ns : \E o \in os : Becomes(o.item, n.item)
  <2>1. /\ \A o \in os : \E n \in ns : Becomes(o.item, n.item)
        /\ \E back \in [ns -> os] : \A n \in ns : Becomes(back[n].item, n.item)
    BY CarriedItems
  <2>2. PICK back \in [ns -> os] : \A n \in ns : Becomes(back[n].item, n.item)
    BY <2>1
  <2>3. \A n \in ns : back[n] \in os
    BY <2>2
  <2> QED BY <2>1, <2>2, <2>3
<1>5. Hand(new, ns) \subseteq Hand(job, os)
  <2>1. ASSUME NEW n \in ns, Whisper(n) PROVE n.item \in Hand(job, os)
    <3>1. PICK o \in os : Becomes(o.item, n.item)
      BY <1>4
    <3>2. n.item = o.item
      BY <3>1, <2>1, BecomesFields DEF Whisper
    <3>3. Whisper(o)
      BY <3>2, <2>1 DEF Whisper
    <3> QED BY <3>2, <3>3 DEF Hand
  <2>2. new.pending = job.pending
    BY DEF SameOrder
  <2> QED BY <2>1, <2>2 DEF Hand
<1>6. new.nextResult = job.nextResult /\ new.nextWindow = job.nextWindow
  BY DEF SameOrder
<1>7. \A x, y \in Hand(new, ns) : y.index = x.index + 1 => Meets(x.to, y.from)
  BY <1>5 DEF Order
<1>8. ASSUME NEW x \in Hand(new, ns)
      PROVE  /\ x.index = new.nextResult => Meets(told.upTo, x.from)
             /\ x.index + 1 = new.nextWindow =>
                 Meets(x.to, new.offset) /\ (HasVad => x.to = told.speech)
             /\ HasVad => x.to <= told.speech
  BY <1>2, <1>3, <1>5, <1>6 DEF Order
<1>9. new.nextResult = new.nextWindow =>
        Meets(told.upTo, new.offset) /\ (HasVad => told.upTo = told.speech)
  BY <1>1, <1>3, <1>6 DEF Order
<1>10. HasVad => told.speech <= new.offset
  BY <1>1 DEF Order, SameOrder
<1>11. ASSUME NEW k \in new.nextResult .. new.nextWindow - 1
       PROVE  (\E x \in Hand(new, ns) : x.index = k) \/ (\E n \in ns : n.item.kind = "error")
  <2>1. CASE \E o \in os : o.item.kind = "error"
    <3>1. PICK o \in os : o.item.kind = "error"
      BY <2>1
    <3>2. PICK n \in ns : Becomes(o.item, n.item)
      BY <1>4
    <3>3. n.item.kind = "error"
      BY <3>1, <3>2 DEF Becomes
    <3> QED BY <3>3
  <2>2. CASE \E x \in Hand(job, os) : x.index = k
    <3>1. PICK x \in Hand(job, os) : x.index = k
      BY <2>2
    <3>2. CASE x \in job.pending
      BY <3>1, <3>2 DEF Hand, SameOrder
    <3>3. CASE \E o \in os : Whisper(o) /\ o.item = x
      <4>1. PICK o \in os : Whisper(o) /\ o.item = x
        BY <3>3
      <4>2. PICK n \in ns : Becomes(o.item, n.item)
        BY <1>4
      <4>3. n.item = o.item \/ n.item.kind = "error"
        BY <4>1, <4>2 DEF Becomes, Whisper
      <4>4. CASE n.item = o.item
        BY <4>1, <4>4, <3>1 DEF Hand, Whisper
      <4> QED BY <4>3, <4>4
    <3> QED BY <3>1, <3>2, <3>3 DEF Hand
  <2> QED BY <2>1, <2>2, <1>6 DEF Order
<1> QED BY <1>7, <1>8, <1>9, <1>10, <1>11 DEF Order

\* A new job has nothing to deliver.
LEMMA NewOrder ==
  ASSUME NEW id, NEW s, NEW told, told.upTo = 0, told.speech = 0
  PROVE  Order(NewJob(id, s), {}, told)
<1>1. /\ NewJob(id, s).pending = {} /\ NewJob(id, s).nextResult = 0
      /\ NewJob(id, s).nextWindow = 0 /\ NewJob(id, s).offset = 0
  BY DEF NewJob
<1>2. Hand(NewJob(id, s), {}) = {}
  BY <1>1 DEF Hand
<1>3. 0 .. 0 - 1 = {}
  OBVIOUS
<1> QED BY <1>1, <1>2, <1>3 DEF Order, Meets

\* A window that is dispatched continues the ones before it.
LEMMA OrderMore ==
  ASSUME NEW job \in Jobs, JobOK(job), NEW plan, PlanOK(job, plan),
         NEW os, Suits(job, os), \A o \in os : Whisper(o) => o.item \in WhisperTasks,
         NEW n, n.item = WhisperTask(job, plan),
         NEW told \in Hearings, Order(job, os, told),
         NEW now \in Hearings, now.upTo = told.upTo,
         now.speech = IF HasVad THEN job.offset + plan.end ELSE told.speech
  PROVE  Order(AfterDispatch(job, plan), os \cup {n}, now)
<1> DEFINE new == AfterDispatch(job, plan)
           ns == os \cup {n}
           t == n.item
<1>1. /\ new.nextResult = job.nextResult /\ new.nextWindow = job.nextWindow + 1
      /\ new.pending = job.pending /\ new.offset = job.offset + plan.end
  BY DEF Jobs, AfterDispatch
<1>2. /\ job.nextWindow \in Nat /\ job.nextResult \in Nat /\ job.nextResult <= job.nextWindow
      /\ job.offset \in Nat /\ told.upTo \in Nat /\ told.speech \in Nat
      /\ plan.start \in Nat /\ plan.end \in Nat /\ plan.start < plan.end
      /\ ~HasVad => plan.start = 0
  BY JobFields DEF JobOK, Hearings, PlanOK
<1>3. /\ t.kind = "whisper" /\ t.index = job.nextWindow
      /\ t.from = job.offset + plan.start /\ t.to = job.offset + plan.end
  BY DEF WhisperTask
<1> HIDE DEF new, t
<1>4. Hand(new, ns) = Hand(job, os) \cup {t}
  BY <1>1, <1>3 DEF Hand, Whisper, t
<1>5. \A x \in Hand(job, os) :
        /\ x.index \in Nat /\ x.from \in Nat /\ x.to \in Nat
        /\ job.nextResult <= x.index /\ x.index < job.nextWindow
  BY HandTyped
<1>6. \A a \in Nat : Meets(a, job.offset) => Meets(a, t.from)
  BY <1>2, <1>3 DEF Meets
<1>7. ASSUME NEW x \in Hand(new, ns), NEW y \in Hand(new, ns), y.index = x.index + 1
      PROVE  Meets(x.to, y.from)
  <2>1. CASE x \in Hand(job, os) /\ y \in Hand(job, os)
    BY <2>1, <1>7 DEF Order
  <2>2. CASE x \in Hand(job, os) /\ y = t
    <3>1. x.index + 1 = job.nextWindow
      BY <2>2, <1>3, <1>7
    <3> QED BY <3>1, <2>2, <1>5, <1>6 DEF Order
  <2>3. CASE x = t
    <3>1. y.index = job.nextWindow + 1
      BY <2>3, <1>3, <1>7
    <3>2. y # t
      BY <3>1, <1>2, <1>3
    <3>3. y.index \in Nat /\ y.index < job.nextWindow
      BY <3>2, <1>4, <1>5
    <3> QED BY <3>1, <3>3, <1>2
  <2> QED BY <2>1, <2>2, <2>3, <1>4
<1>8. ASSUME NEW x \in Hand(new, ns)
      PROVE  /\ x.index = new.nextResult => Meets(now.upTo, x.from)
             /\ x.index + 1 = new.nextWindow =>
                 Meets(x.to, new.offset) /\ (HasVad => x.to = now.speech)
             /\ HasVad => x.to <= now.speech
  <2>1. CASE x \in Hand(job, os)
    <3>1. x.index + 1 # new.nextWindow
      BY <2>1, <1>1, <1>2, <1>5
    <3>2. x.index = new.nextResult => Meets(now.upTo, x.from)
      BY <2>1, <1>1 DEF Order
    <3>3. HasVad => x.to <= now.speech
      <4>1. HasVad => x.to <= told.speech /\ told.speech <= job.offset
        BY <2>1 DEF Order
      <4> QED BY <4>1, <2>1, <1>2, <1>5
    <3> QED BY <3>1, <3>2, <3>3
  <2>2. CASE x = t
    <3>1. x.index = new.nextResult => Meets(now.upTo, x.from)
      BY <2>2, <1>1, <1>2, <1>3, <1>6 DEF Order
    <3>2. x.to = new.offset /\ Meets(x.to, new.offset) /\ (HasVad => x.to = now.speech)
      BY <2>2, <1>1, <1>2, <1>3 DEF Meets
    <3> QED BY <3>1, <3>2, <1>1, <1>2
  <2> QED BY <2>1, <2>2, <1>4
<1>9. new.nextResult # new.nextWindow
  BY <1>1, <1>2
<1>10. HasVad => now.speech <= new.offset
  BY <1>1, <1>2
<1>11. ASSUME NEW k \in new.nextResult .. new.nextWindow - 1
       PROVE  (\E x \in Hand(new, ns) : x.index = k) \/ (\E o \in ns : o.item.kind = "error")
  <2>1. CASE k = job.nextWindow
    BY <2>1, <1>3, <1>4
  <2>2. CASE k # job.nextWindow
    <3>1. k \in job.nextResult .. job.nextWindow - 1
      BY <2>2, <1>1, <1>2
    <3>2. (\E x \in Hand(job, os) : x.index = k) \/ (\E o \in os : o.item.kind = "error")
      BY <3>1 DEF Order
    <3> QED BY <3>2, <1>4
  <2> QED BY <2>1, <2>2
<1>12. Order(new, ns, now)
  BY <1>7, <1>8, <1>9, <1>10, <1>11 DEF Order
<1> QED BY <1>12 DEF new

\* A VAD window more, or a VAD result less, is no window.
LEMMA OrderOfOthers ==
  ASSUME NEW job \in Jobs, NEW new \in Jobs, SameOrder(job, new), new.offset = job.offset,
         NEW os, NEW n, n.item.kind = "vad", NEW told, Order(job, os, told)
  PROVE  Order(new, os \cup {n}, told) /\ Order(new, os \ {n}, told)
<1>1. Hand(new, os \cup {n}) = Hand(job, os) /\ Hand(new, os \ {n}) = Hand(job, os)
  BY DEF Hand, Whisper, SameOrder
<1>2. /\ (\E o \in os : o.item.kind = "error") <=> (\E o \in os \ {n} : o.item.kind = "error")
      /\ (\E o \in os : o.item.kind = "error") => (\E o \in os \cup {n} : o.item.kind = "error")
  OBVIOUS
<1> QED BY <1>1, <1>2 DEF Order, SameOrder

\* The windows that come next when the result of h is in follow what was told,
\* and each other.
LEMMA NextMeet ==
  ASSUME NEW job \in Jobs, JobOK(job), NEW os, Suits(job, os),
         \A o \in os : Whisper(o) => o.item \in WhisperTasks,
         NEW h \in os, Whisper(h), NEW told, Order(job, os, told),
         NEW next, next = Deliverable(job, h.item)
  PROVE  /\ next \in Seq(WhisperTasks) /\ Len(next) \in Nat /\ DOMAIN next = 1 .. Len(next)
         /\ \A k \in 1 .. Len(next) :
              /\ next[k] \in Hand(job, os) /\ next[k].index = job.nextResult + k - 1
              /\ k = 1 => Meets(told.upTo, next[k].from)
              /\ k # 1 => Meets(next[k - 1].to, next[k].from)
         /\ \A q \in job.pending \cup {h.item} :
              q.index = job.nextResult + Len(next) => q \in {next[k] : k \in DOMAIN next}
<1> DEFINE got == job.pending \cup {h.item}
<1>1. h.item \in WhisperTasks /\ IsFiniteSet(job.pending) /\ job.nextResult \in Nat
  BY JobFields DEF JobOK
<1>2. NextInOrder(next, got, job.nextResult)
  BY <1>1, DeliverableIsNext
<1>3. got \subseteq Hand(job, os) /\ got \subseteq WhisperTasks
  BY <1>1, JobFields DEF Hand
<1> HIDE DEF got
<1>4. /\ next \in Seq(got) /\ Len(next) \in Nat /\ DOMAIN next = 1 .. Len(next)
      /\ \A k \in 1 .. Len(next) : next[k] \in got /\ next[k].index = job.nextResult + k - 1
      /\ \A q \in got : q.index = job.nextResult + Len(next) => q \in {next[k] : k \in DOMAIN next}
  BY <1>2, LenProperties DEF NextInOrder
<1>5. next \in Seq(WhisperTasks)
  <2>1. \A k \in 1 .. Len(next) : next[k] \in WhisperTasks
    BY <1>3, <1>4
  <2>2. next \in [1 .. Len(next) -> WhisperTasks]
    <3>1. next \in [1 .. Len(next) -> got]
      BY <1>4, LenProperties
    <3> QED BY <2>1, <3>1
  <2> QED BY <2>2, <1>4, SeqOf
<1>6. ASSUME NEW k \in 1 .. Len(next)
      PROVE  /\ k = 1 => Meets(told.upTo, next[k].from)
             /\ k # 1 => Meets(next[k - 1].to, next[k].from)
  <2>1. next[k] \in Hand(job, os) /\ next[k].index = job.nextResult + k - 1
    BY <1>3, <1>4
  <2>2. CASE k = 1
    <3>1. next[k].index = job.nextResult
      BY <2>1, <2>2, <1>1
    <3> QED BY <3>1, <2>1, <2>2 DEF Order
  <2>3. CASE k # 1
    <3>1. k - 1 \in 1 .. Len(next)
      BY <2>3, <1>4
    <3>2. next[k - 1] \in Hand(job, os) /\ next[k - 1].index = job.nextResult + (k - 1) - 1
      BY <3>1, <1>3, <1>4
    <3>3. next[k].index = next[k - 1].index + 1
      BY <3>2, <2>1, <1>1
    <3> QED BY <3>2, <3>3, <2>1, <2>3 DEF Order
  <2> QED BY <2>2, <2>3
<1> QED BY <1>3, <1>4, <1>5, <1>6 DEF got

\* Delivering them keeps the order of the others.
LEMMA OrderLess ==
  ASSUME NEW job \in Jobs, JobOK(job), NEW os, Suits(job, os),
         \A o \in os : Whisper(o) => o.item \in WhisperTasks,
         NEW h \in os, Whisper(h), NEW told, Order(job, os, told),
         NEW next, next = Deliverable(job, h.item),
         NEW now, now.speech = told.speech,
         now.upTo = IF Len(next) = 0 THEN told.upTo ELSE next[Len(next)].to
  PROVE  Order(HandleResult(job, h.item), os \ {h}, now)
<1> DEFINE new == HandleResult(job, h.item)
           ns  == os \ {h}
           n   == Len(next)
           a   == job.nextResult
<1>1. /\ new.nextResult = a + n /\ new.nextWindow = job.nextWindow
      /\ new.offset = job.offset
      /\ new.pending = (job.pending \cup {h.item}) \ {next[k] : k \in DOMAIN next}
  BY HandledFields
<1>2. /\ n \in Nat /\ DOMAIN next = 1 .. n
      /\ \A k \in 1 .. n : next[k] \in Hand(job, os) /\ next[k].index = a + k - 1
  BY NextMeet
<1>3. a \in Nat /\ job.nextWindow \in Nat /\ job.nextResult <= job.nextWindow
  BY JobFields DEF JobOK
<1>4. h.item \in Hand(job, os)
  BY DEF Hand
<1> HIDE DEF new
<1>5. Hand(new, ns) \subseteq Hand(job, os)
  BY <1>1, <1>4 DEF Hand
<1>6. n # 0 => next[n] \in Hand(job, os) /\ next[n].index = a + n - 1 /\ now.upTo = next[n].to
  <2>1. n # 0 => n \in 1 .. n
    BY <1>2
  <2> QED BY <2>1, <1>2
<1>7. \A x \in Hand(job, os) : x.index \in Nat
  BY HandTyped
<1> HIDE DEF n, a
<1>8. ASSUME NEW x \in Hand(new, ns)
      PROVE  /\ x.index = new.nextResult => Meets(now.upTo, x.from)
             /\ x.index + 1 = new.nextWindow =>
                 Meets(x.to, new.offset) /\ (HasVad => x.to = now.speech)
             /\ HasVad => x.to <= now.speech
  <2>1. x \in Hand(job, os)
    BY <1>5
  <2>2. x.index + 1 = new.nextWindow => Meets(x.to, new.offset) /\ (HasVad => x.to = now.speech)
    BY <2>1, <1>1 DEF Order
  <2>3. HasVad => x.to <= now.speech
    BY <2>1 DEF Order
  <2>4. ASSUME x.index = new.nextResult PROVE Meets(now.upTo, x.from)
    <3>1. CASE n = 0
      <4>1. x.index = job.nextResult /\ now.upTo = told.upTo
        BY <3>1, <2>4, <1>1, <1>3 DEF n, a
      <4> QED BY <4>1, <2>1 DEF Order
    <3>2. CASE n # 0
      <4>1. x.index = next[n].index + 1
        BY <3>2, <2>4, <1>1, <1>2, <1>3, <1>6
      <4> QED BY <4>1, <3>2, <2>1, <1>6 DEF Order
    <3> QED BY <3>1, <3>2
  <2> QED BY <2>2, <2>3, <2>4
<1>9. ASSUME new.nextResult = new.nextWindow
      PROVE  Meets(now.upTo, new.offset) /\ (HasVad => now.upTo = now.speech)
  <2>1. CASE n = 0
    <3>1. job.nextResult = job.nextWindow /\ now.upTo = told.upTo
      BY <2>1, <1>1, <1>3, <1>9 DEF n, a
    <3> QED BY <3>1, <1>1 DEF Order
  <2>2. CASE n # 0
    <3>1. next[n].index + 1 = job.nextWindow
      BY <2>2, <1>1, <1>2, <1>3, <1>6, <1>9
    <3> QED BY <3>1, <2>2, <1>1, <1>6 DEF Order
  <2> QED BY <2>1, <2>2
<1>10. ASSUME NEW k \in new.nextResult .. new.nextWindow - 1
       PROVE  (\E x \in Hand(new, ns) : x.index = k) \/ (\E o \in ns : o.item.kind = "error")
  <2>0. k \in job.nextResult .. job.nextWindow - 1 /\ a + n <= k
    BY <1>1, <1>2, <1>3 DEF a
  <2>1. CASE \E o \in os : o.item.kind = "error"
    BY <2>1 DEF Whisper
  <2>2. CASE \E x \in Hand(job, os) : x.index = k
    <3>1. PICK x \in Hand(job, os) : x.index = k
      BY <2>2
    <3>2. x \notin {next[j] : j \in DOMAIN next}
      <4>1. ASSUME NEW j \in DOMAIN next PROVE next[j] # x
        <5>1. next[j].index = a + j - 1 /\ j \in 1 .. n
          BY <1>2
        <5> QED BY <5>1, <3>1, <2>0, <1>2, <1>3
      <4> QED BY <4>1
    <3>3. x \in job.pending \/ x = h.item \/ \E o \in ns : Whisper(o) /\ o.item = x
      BY DEF Hand
    <3>4. x \in Hand(new, ns)
      BY <3>2, <3>3, <1>1 DEF Hand
    <3> QED BY <3>1, <3>4
  <2> QED BY <2>0, <2>1, <2>2 DEF Order
<1>11. \A x, y \in Hand(new, ns) : y.index = x.index + 1 => Meets(x.to, y.from)
  BY <1>5 DEF Order
<1>12. HasVad => now.speech <= new.offset
  BY <1>1 DEF Order
<1>13. Order(new, ns, now)
  BY <1>8, <1>9, <1>10, <1>11, <1>12 DEF Order
<1> QED BY <1>13 DEF new

-----------------------------------------------------------------------------
(* What a dispatch and a result tell the client. *)

\* Responses are things to hear.
LEMMA ThingsOf ==
  ASSUME NEW rs \in Seq(Responses)
  PROVE  rs \in Seq(Things)
<1> HIDE DEF Responses
<1>1. Len(rs) \in Nat /\ rs \in [1 .. Len(rs) -> Responses]
  BY LenProperties
<1>2. rs \in [1 .. Len(rs) -> Things]
  BY <1>1 DEF Things
<1> QED BY <1>1, <1>2, SeqOf

\* The text of the windows that come next follows what was told.
LEMMA SegmentsTell ==
  ASSUME NEW job \in Jobs, JobOK(job), NEW os, Suits(job, os),
         \A o \in os : Whisper(o) => o.item \in WhisperTasks,
         NEW h \in os, Whisper(h), NEW told \in Hearings, Order(job, os, told),
         NEW next, next = Deliverable(job, h.item),
         NEW n \in Nat, NEW rd,
         \A x \in Hand(job, os) : x.begin = x.from /\ x.from < x.to /\ x.to <= n
  PROVE  LET rs == SegmentResponses(next) IN
         /\ rs \in Seq(Things) /\ Right(job.session, n, rd, told, rs)
         /\ EndOf(told, rs) \in Hearings
         /\ EndOf(told, rs).speech = told.speech
         /\ EndOf(told, rs).upTo = IF Len(next) = 0 THEN told.upTo ELSE next[Len(next)].to
<1> DEFINE m  == Len(next)
           rs == SegmentResponses(next)
           f  == [k \in 0 .. m |-> IF k = 0 THEN told
                                   ELSE [from |-> next[k].from, upTo |-> next[k].to,
                                         speech |-> told.speech]]
<1>1. /\ next \in Seq(WhisperTasks) /\ m \in Nat /\ DOMAIN next = 1 .. m
      /\ \A k \in 1 .. m : /\ next[k] \in Hand(job, os)
                           /\ k = 1 => Meets(told.upTo, next[k].from)
                           /\ k # 1 => Meets(next[k - 1].to, next[k].from)
  BY NextMeet
<1>2. rs \in Seq(Responses) /\ Len(rs) = m
  BY <1>1, SegmentResponsesTyped
<1>3. rs \in Seq(Things) /\ DOMAIN rs = 1 .. m
  BY <1>2, ThingsOf, LenProperties
<1>4. \A k \in 1 .. m : rs[k] = [kind |-> "segment", session |-> next[k].session,
                                 begin |-> next[k].begin, from |-> next[k].from,
                                 to |-> next[k].to]
  BY <1>1 DEF SegmentResponses
<1> HIDE DEF m, rs
<1>5. /\ told.from \in Nat /\ told.upTo \in Nat /\ told.speech \in Nat
      /\ told = [from |-> told.from, upTo |-> told.upTo, speech |-> told.speech]
  BY DEF Hearings
<1>6. f[0] = told
  BY <1>1
<1>7. \A k \in 1 .. m : /\ f[k] = [from |-> next[k].from, upTo |-> next[k].to,
                                   speech |-> told.speech]
                        /\ k = 1 => f[k - 1] = told
                        /\ k # 1 => f[k - 1] = [from |-> next[k - 1].from,
                                                upTo |-> next[k - 1].to,
                                                speech |-> told.speech]
  <2> TAKE k \in 1 .. m
  <2>1. k \in 0 .. m /\ k - 1 \in 0 .. m /\ k # 0 /\ (k = 1 <=> k - 1 = 0)
    BY <1>1
  <2> QED BY <2>1
<1> HIDE DEF f
<1>8. ASSUME NEW k \in 1 .. m
      PROVE  /\ f[k] = Heard(f[k - 1], rs[k])
             /\ Follows(job.session, n, rd, f[k - 1], rs[k])
  <2>1. PICK g \in {f[k - 1]} : g = f[k - 1]
    OBVIOUS
  <2>2. /\ g = [from |-> g.from, upTo |-> g.upTo, speech |-> told.speech]
        /\ Meets(g.upTo, next[k].from)
    <3>1. CASE k = 1
      BY <3>1, <2>1, <1>1, <1>5, <1>7
    <3>2. CASE k # 1
      <4>1. g = [from |-> next[k - 1].from, upTo |-> next[k - 1].to, speech |-> told.speech]
        BY <3>2, <2>1, <1>7
      <4>2. Meets(next[k - 1].to, next[k].from)
        BY <3>2, <1>1
      <4>3. g.from = next[k - 1].from /\ g.upTo = next[k - 1].to
        BY <4>1
      <4> QED BY <4>1, <4>2, <4>3
    <3> QED BY <3>1, <3>2
  <2>3. PICK x \in {next[k]} : x = next[k]
    OBVIOUS
  <2>4. /\ x \in Hand(job, os) /\ x.session = job.session
        /\ x.begin = x.from /\ x.from < x.to /\ x.to <= n
        /\ HasVad => x.to <= told.speech
    BY <2>3, <1>1, HandTyped DEF Order
  <2>5. rs[k] = [kind |-> "segment", session |-> x.session, begin |-> x.begin,
                 from |-> x.from, to |-> x.to]
    BY <2>3, <1>4
  <2>6. Heard(g, rs[k]) = [from |-> x.from, upTo |-> x.to, speech |-> told.speech]
    <3>1. /\ rs[k].kind = "segment" /\ rs[k].from = x.from /\ rs[k].to = x.to
      BY <2>5
    <3>2. Heard(g, rs[k]) = [g EXCEPT !.from = x.from, !.upTo = x.to]
      BY <3>1 DEF Heard
    <3>3. PICK a, b : g = [from |-> a, upTo |-> b, speech |-> told.speech]
      BY <2>2
    <3>4. [g EXCEPT !.from = x.from, !.upTo = x.to]
            = [from |-> x.from, upTo |-> x.to, speech |-> told.speech]
      <4>1. PICK u : u = [g EXCEPT !.from = x.from]
        OBVIOUS
      <4>2. u = [from |-> x.from, upTo |-> b, speech |-> told.speech]
        BY <3>3, <4>1
      <4>3. [u EXCEPT !.upTo = x.to] = [from |-> x.from, upTo |-> x.to, speech |-> told.speech]
        BY <4>2
      <4>4. [g EXCEPT !.from = x.from, !.upTo = x.to] = [u EXCEPT !.upTo = x.to]
        BY <4>1
      <4> QED BY <4>3, <4>4
    <3> QED BY <3>2, <3>4
  <2>7. Follows(job.session, n, rd, g, rs[k])
    BY <2>2, <2>3, <2>4, <2>5 DEF Follows
  <2>8. f[k] = [from |-> x.from, upTo |-> x.to, speech |-> told.speech]
    BY <2>3, <1>7
  <2> QED BY <2>1, <2>6, <2>7, <2>8
<1>9. \A k \in 0 .. m : Telling(told, rs)[k] = f[k]
  BY <1>2, <1>3, <1>6, <1>8, TellingIs
<1>10. Right(job.session, n, rd, told, rs)
  <2>1. ASSUME NEW k \in DOMAIN rs
        PROVE  Follows(job.session, n, rd, Telling(told, rs)[k - 1], rs[k])
    <3>1. k \in 1 .. m /\ k - 1 \in 0 .. m
      BY <1>1, <1>3
    <3> QED BY <3>1, <1>8, <1>9
  <2> QED BY <2>1 DEF Right
<1>11. EndOf(told, rs) = f[m]
  <2>1. m \in 0 .. m
    BY <1>1
  <2> QED BY <2>1, <1>2, <1>9 DEF EndOf
<1>12. /\ f[m].speech = told.speech
       /\ f[m].upTo = IF m = 0 THEN told.upTo ELSE next[m].to
  <2>1. CASE m = 0
    BY <2>1, <1>6
  <2>2. CASE m # 0
    <3>1. m \in 1 .. m
      BY <2>2, <1>1
    <3>2. f[m] = [from |-> next[m].from, upTo |-> next[m].to, speech |-> told.speech]
      BY <3>1, <1>7
    <3> QED BY <3>2, <2>2
  <2> QED BY <2>1, <2>2
<1>13. EndOf(told, rs) \in Hearings
  <2>1. [kind |-> "none"] \in Things
    BY DEF Things
  <2> QED BY <2>1, <1>3, EndOfMore
<1> QED BY <1>3, <1>10, <1>11, <1>12, <1>13 DEF rs, m

\* The speech events of a window go forward, from what is dispatched already to
\* the end of the window.
LEMMA SpeechGoesOn ==
  ASSUME NEW job \in Jobs, NEW plan, PlanOK(job, plan)
  PROVE  LET e == SpeechEvents(job, plan) IN
         /\ e \in Seq(Responses) /\ Len(e) \in Nat /\ DOMAIN e = 1 .. Len(e)
         /\ \A k \in 1 .. Len(e) : /\ e[k] = [kind |-> "speech", at |-> e[k].at]
                                   /\ e[k].at \in Nat
                                   /\ k = 1 => job.offset <= e[k].at
                                   /\ k # 1 => e[k - 1].at <= e[k].at
                                   /\ k = Len(e) => e[k].at = job.offset + plan.end
         /\ Len(e) = 0 <=> ~HasVad
<1> DEFINE e == SpeechEvents(job, plan)
           m == Len(plan.speech)
           place(k) == plan.speech[(k + 1) \div 2][2 - (k % 2)]
<1>1. /\ e \in Seq(Responses) /\ Len(e) = 2 * m /\ m \in Nat /\ job.offset \in Nat
      /\ plan.end \in Nat
  BY SpeechEventsTyped, JobFields DEF PlanOK
<1>2. DOMAIN e = 1 .. 2 * m
  BY <1>1, LenProperties
<1>3. \A k \in 1 .. 2 * m : e[k] = [kind |-> "speech", at |-> job.offset + place(k)]
  BY DEF SpeechEvents
<1>4. /\ plan.speech \in Seq(Pairs)
      /\ \A i \in 1 .. m : /\ plan.speech[i] \in Pairs
                           /\ plan.speech[i][1] \in Nat /\ plan.speech[i][2] \in Nat
                           /\ plan.speech[i][1] < plan.speech[i][2]
      /\ \A i, j \in 1 .. m : i < j => plan.speech[i][2] < plan.speech[j][1]
  <2>1. plan.speech \in Seq(Pairs) /\ DOMAIN plan.speech = 1 .. m
    BY LenProperties DEF PlanOK, InOrder
  <2>2. \A i \in 1 .. m : plan.speech[i] \in Pairs
    BY <2>1, ElementOfSeq
  <2> QED BY <2>1, <2>2 DEF PlanOK, InOrder, Fit, Pairs
<1>5. ASSUME NEW k \in 1 .. 2 * m
      PROVE  /\ place(k) \in Nat
             /\ k # 1 => place(k - 1) <= place(k)
             /\ k = 2 * m => place(k) = plan.speech[m][2]
  <2>1. CASE \E j \in 1 .. m : k = 2 * j
    <3>1. PICK j \in 1 .. m : k = 2 * j
      BY <2>1
    <3>2. /\ (k + 1) \div 2 = j /\ 2 - (k % 2) = 2
          /\ ((k - 1) + 1) \div 2 = j /\ 2 - ((k - 1) % 2) = 1
          /\ k = 2 * m => j = m
      BY <3>1, <1>1
    <3>3. place(k) = plan.speech[j][2] /\ place(k - 1) = plan.speech[j][1]
      BY <3>2
    <3>4. plan.speech[j][1] \in Nat /\ plan.speech[j][2] \in Nat
          /\ plan.speech[j][1] < plan.speech[j][2]
      BY <1>4
    <3>5. k = 2 * m => place(k) = plan.speech[m][2]
      BY <3>2, <3>3
    <3>6. place(k) \in Nat /\ place(k - 1) <= place(k)
      BY <3>3, <3>4, SMTT(30)
    <3> HIDE DEF place
    <3> QED BY <3>5, <3>6
  <2>2. CASE \E j \in 1 .. m : k = 2 * j - 1
    <3>1. PICK j \in 1 .. m : k = 2 * j - 1
      BY <2>2
    <3>2. (k + 1) \div 2 = j /\ 2 - (k % 2) = 1 /\ k # 2 * m /\ (k = 1 <=> j = 1)
      BY <3>1, <1>1
    <3>3. place(k) = plan.speech[j][1] /\ plan.speech[j][1] \in Nat
      BY <3>2, <1>4
    <3>4. ASSUME k # 1 PROVE place(k - 1) <= place(k)
      <4>1. j - 1 \in 1 .. m /\ j - 1 < j
        BY <3>2, <3>4, <1>1
      <4>2. ((k - 1) + 1) \div 2 = j - 1 /\ 2 - ((k - 1) % 2) = 2
        BY <3>1, <1>1
      <4>3. place(k - 1) = plan.speech[j - 1][2]
        BY <4>2
      <4>4. plan.speech[j - 1][2] < plan.speech[j][1] /\ plan.speech[j - 1][2] \in Nat
        BY <4>1, <1>4
      <4> HIDE DEF place
      <4> QED BY <4>3, <4>4, <3>3
    <3> HIDE DEF place
    <3> QED BY <3>2, <3>3, <3>4
  <2>3. \E j \in 1 .. m : k = 2 * j \/ k = 2 * j - 1
    <3>1. (k + 1) \div 2 \in 1 .. m
          /\ (k = 2 * ((k + 1) \div 2) \/ k = 2 * ((k + 1) \div 2) - 1)
      BY <1>1
    <3> QED BY <3>1
  <2> QED BY <2>1, <2>2, <2>3
<1>6. m # 0 => plan.speech[m][2] = plan.end
  <2>1. plan.speech = <<>> => m = 0
    BY EmptySeq
  <2> QED BY <2>1 DEF PlanOK
<1>7. m = 0 <=> ~HasVad
  <2>1. plan.speech = <<>> <=> m = 0
    BY <1>4, EmptySeq
  <2> QED BY <2>1 DEF PlanOK
<1> HIDE DEF e, m, place
<1>8. ASSUME NEW k \in 1 .. Len(e)
      PROVE  /\ e[k] = [kind |-> "speech", at |-> e[k].at]
             /\ e[k].at \in Nat
             /\ k = 1 => job.offset <= e[k].at
             /\ k # 1 => e[k - 1].at <= e[k].at
             /\ k = Len(e) => e[k].at = job.offset + plan.end
  <2>0. k \in 1 .. 2 * m
    BY <1>1
  <2>1. e[k].at = job.offset + place(k) /\ e[k].kind = "speech" /\ place(k) \in Nat
        /\ e[k] = [kind |-> "speech", at |-> e[k].at]
    <3>1. e[k] = [kind |-> "speech", at |-> job.offset + place(k)]
      BY <2>0, <1>3
    <3>2. place(k) \in Nat
      BY <2>0, <1>5
    <3> QED BY <3>1, <3>2
  <2>2. ASSUME k # 1 PROVE e[k - 1].at <= e[k].at
    <3>1. k - 1 \in 1 .. 2 * m
      BY <1>1, <2>2
    <3>2. e[k - 1].at = job.offset + place(k - 1) /\ place(k - 1) \in Nat
      <4>1. e[k - 1] = [kind |-> "speech", at |-> job.offset + place(k - 1)]
        BY <3>1, <1>3
      <4>2. place(k - 1) \in Nat
        BY <3>1, <1>5
      <4> QED BY <4>1, <4>2
    <3>3. place(k - 1) <= place(k)
      BY <2>0, <2>2, <1>5
    <3> QED BY <3>2, <3>3, <2>1, <1>1
  <2>3. k = Len(e) => e[k].at = job.offset + plan.end
    BY <2>1, <1>1, <1>5, <1>6, SMTT(30)
  <2> QED BY <2>1, <2>2, <2>3, <1>1
<1>9. Len(e) = 0 <=> ~HasVad
  BY <1>1, <1>7
<1> QED BY <1>1, <1>2, <1>8, <1>9 DEF e

\* A client hears of speech beyond what it was told of.
LEMMA SpeechTells ==
  ASSUME NEW job \in Jobs, NEW plan, PlanOK(job, plan), NEW told \in Hearings,
         HasVad => told.speech <= job.offset, NEW s, NEW n, NEW rd
  PROVE  LET e == SpeechEvents(job, plan) IN
         /\ e \in Seq(Things) /\ Right(s, n, rd, told, e)
         /\ EndOf(told, e) \in Hearings /\ EndOf(told, e).upTo = told.upTo
         /\ EndOf(told, e).speech = IF HasVad THEN job.offset + plan.end ELSE told.speech
<1> DEFINE e == SpeechEvents(job, plan)
           m == Len(e)
           f == [k \in 0 .. m |-> IF k = 0 THEN told
                                  ELSE [from |-> told.from, upTo |-> told.upTo,
                                        speech |-> e[k].at]]
<1>1. /\ e \in Seq(Responses) /\ m \in Nat /\ DOMAIN e = 1 .. m
      /\ \A k \in 1 .. m : /\ e[k] = [kind |-> "speech", at |-> e[k].at]
                           /\ e[k].at \in Nat
                           /\ k = 1 => job.offset <= e[k].at
                           /\ k # 1 => e[k - 1].at <= e[k].at
                           /\ k = m => e[k].at = job.offset + plan.end
      /\ m = 0 <=> ~HasVad
  BY SpeechGoesOn
<1>2. e \in Seq(Things)
  BY <1>1, ThingsOf
<1>3. /\ told.from \in Nat /\ told.upTo \in Nat /\ told.speech \in Nat /\ job.offset \in Nat
      /\ told = [from |-> told.from, upTo |-> told.upTo, speech |-> told.speech]
  BY JobFields DEF Hearings
<1> HIDE DEF e, m
<1>4. f[0] = told
  BY <1>1
<1>5. \A k \in 1 .. m : /\ f[k] = [from |-> told.from, upTo |-> told.upTo, speech |-> e[k].at]
                        /\ k = 1 => f[k - 1] = told
                        /\ k # 1 => f[k - 1] = [from |-> told.from, upTo |-> told.upTo,
                                                speech |-> e[k - 1].at]
  <2> TAKE k \in 1 .. m
  <2>1. k \in 0 .. m /\ k - 1 \in 0 .. m /\ k # 0 /\ (k = 1 <=> k - 1 = 0)
    BY <1>1
  <2> QED BY <2>1
<1> HIDE DEF f
<1>6. ASSUME NEW k \in 1 .. m
      PROVE  f[k] = Heard(f[k - 1], e[k]) /\ Follows(s, n, rd, f[k - 1], e[k])
  <2>1. PICK g : g = f[k - 1]
    OBVIOUS
  <2>2. PICK c : /\ g = [from |-> told.from, upTo |-> told.upTo, speech |-> c]
                 /\ c <= e[k].at
    <3>1. CASE k = 1
      <4>1. HasVad
        BY <1>1
      <4>2. told.speech <= e[k].at
        BY <3>1, <4>1, <1>1, <1>3
      <4>3. g = [from |-> told.from, upTo |-> told.upTo, speech |-> told.speech]
        BY <2>1, <3>1, <1>3, <1>5
      <4> QED BY <4>2, <4>3
    <3>2. CASE k # 1
      <4>1. g = [from |-> told.from, upTo |-> told.upTo, speech |-> e[k - 1].at]
        BY <2>1, <3>2, <1>5
      <4>2. e[k - 1].at <= e[k].at
        BY <3>2, <1>1
      <4> QED BY <4>1, <4>2
    <3> QED BY <3>1, <3>2
  <2>3. PICK r, a : r = e[k] /\ a = e[k].at /\ r = [kind |-> "speech", at |-> a]
    BY <1>1
  <2>4. g.speech = c /\ r.kind = "speech" /\ r.at = a
    BY <2>2, <2>3
  <2>5. Heard(g, r) = [g EXCEPT !.speech = a]
    BY <2>4 DEF Heard
  <2>6. [g EXCEPT !.speech = a] = [from |-> told.from, upTo |-> told.upTo, speech |-> a]
    BY <2>2
  <2>7. f[k] = Heard(g, r)
    BY <2>3, <2>5, <2>6, <1>5
  <2>8. Follows(s, n, rd, g, r)
    BY <2>2, <2>3, <2>4 DEF Follows
  <2> QED BY <2>1, <2>3, <2>7, <2>8
<1>7. \A k \in 0 .. m : Telling(told, e)[k] = f[k]
  BY <1>2, <1>4, <1>6, TellingIs DEF m
<1>8. Right(s, n, rd, told, e)
  <2>1. ASSUME NEW k \in DOMAIN e PROVE Follows(s, n, rd, Telling(told, e)[k - 1], e[k])
    <3>1. k \in 1 .. m /\ k - 1 \in 0 .. m
      BY <1>1
    <3> QED BY <3>1, <1>6, <1>7
  <2> QED BY <2>1 DEF Right
<1>9. EndOf(told, e) = f[m]
  <2>1. m \in 0 .. m
    BY <1>1
  <2> QED BY <2>1, <1>7 DEF EndOf, m
<1>10. /\ f[m].upTo = told.upTo
       /\ f[m].speech = IF HasVad THEN job.offset + plan.end ELSE told.speech
  <2>1. CASE m = 0
    BY <2>1, <1>1, <1>4
  <2>2. CASE m # 0
    <3>1. m \in 1 .. m
      BY <2>2, <1>1
    <3>2. f[m] = [from |-> told.from, upTo |-> told.upTo, speech |-> e[m].at]
      BY <3>1, <1>5
    <3>3. e[m].at = job.offset + plan.end /\ HasVad
      BY <3>1, <2>2, <1>1
    <3> QED BY <3>2, <3>3
  <2> QED BY <2>1, <2>2
<1>11. EndOf(told, e) \in Hearings
  <2>1. [kind |-> "none"] \in Things
    BY DEF Things
  <2> QED BY <2>1, <1>2, EndOfMore
<1> QED BY <1>2, <1>8, <1>9, <1>10, <1>11 DEF e

\* What goes to one session is due there, in order, and nowhere else.
LEMMA DueOfOne ==
  ASSUME NEW s \in Sessions, NEW rs \in Seq(Responses), NEW q, q = ToSessions(s, rs)
  PROVE  /\ DueOf(q, s) = rs
         /\ \A u \in Sessions : u # s =>
              \A i \in DOMAIN DueOf(q, u) : DueOf(q, u)[i].kind = "none"
<1>1. /\ q \in Seq(Messages) /\ DOMAIN q = 1 .. Len(rs) /\ Len(q) = Len(rs) /\ Len(rs) \in Nat
      /\ \A i \in 1 .. Len(rs) : rs[i] \in Responses /\ q[i] = ToSession(s, rs[i])
  BY ToSessionsTyped
<1>2. \A i \in 1 .. Len(rs) : q[i].to = "session" /\ q[i].session = s /\ q[i].response = rs[i]
  BY <1>1, ToSessionTyped
<1>3. \A u \in Sessions :
        /\ DueOf(q, u) \in Seq(Things) /\ Len(DueOf(q, u)) = Len(rs)
        /\ DOMAIN DueOf(q, u) = 1 .. Len(rs)
        /\ \A i \in 1 .. Len(rs) :
              DueOf(q, u)[i] = IF q[i].to = "session" /\ q[i].session = u
                               THEN q[i].response ELSE [kind |-> "none"]
  BY <1>1, DueTyped
<1>4. \A i \in 1 .. Len(rs) : DueOf(q, s)[i] = rs[i]
  BY <1>2, <1>3
<1>5. DueOf(q, s) = rs
  <2>1. rs \in Seq(Things)
    BY ThingsOf
  <2> QED BY <2>1, <1>3, <1>4, SeqEqual
<1>6. ASSUME NEW u \in Sessions, u # s, NEW i \in DOMAIN DueOf(q, u)
      PROVE  DueOf(q, u)[i].kind = "none"
  <2>1. DueOf(q, u)[i] = [kind |-> "none"]
    BY <1>2, <1>3, <1>6
  <2> QED BY <2>1
<1> QED BY <1>5, <1>6

\* The events of a window are due before the window itself leaves.
LEMMA DueOfWindow ==
  ASSUME SchedulerTyped', NEW i \in DOMAIN active, NEW w \in Workers, NEW plan,
         active[i] \in Jobs, JobOK(active[i]), WindowSent(w, i, plan)
  PROVE  /\ DueOf(outbox', active[i].session)
              = Append(SpeechEvents(active[i], plan), [kind |-> "none"])
         /\ \A u \in Sessions : u # active[i].session =>
              \A k \in DOMAIN DueOf(outbox', u) : DueOf(outbox', u)[k].kind = "none"
<1> DEFINE e == SpeechEvents(active[i], plan)
           s == active[i].session
           d == Append(e, [kind |-> "none"])
<1>0. s \in Sessions
  BY JobFields
<1>1. /\ Len(e) \in Nat /\ Len(outbox') = Len(e) + 1 /\ DOMAIN outbox' = 1 .. Len(e) + 1
      /\ outbox'[Len(e) + 1] = ToWorker(w, WhisperTask(active[i], plan))
      /\ \A k \in 1 .. Len(e) : e[k] \in Responses /\ outbox'[k] = ToSession(s, e[k])
      /\ \A k \in DOMAIN outbox' : k = Len(e) + 1 \/ k \in 1 .. Len(e)
  BY WindowTells
<1>2. PlanOK(active[i], plan)
  BY DispatchPlanOK DEF WindowSent
<1>3. e \in Seq(Things) /\ DOMAIN e = 1 .. Len(e)
  BY <1>2, SpeechGoesOn, ThingsOf
<1> HIDE DEF e, s
<1>4. /\ outbox'[Len(e) + 1].to = "worker"
      /\ \A k \in 1 .. Len(e) : outbox'[k].to = "session" /\ outbox'[k].session = s
                                /\ outbox'[k].response = e[k]
  <2>1. outbox'[Len(e) + 1].to = "worker"
    BY <1>1 DEF ToWorker
  <2> QED BY <2>1, <1>0, <1>1, ToSessionTyped
<1>5. outbox' \in Seq(Messages)
  BY DEF SchedulerTyped
<1>6. \A u \in Sessions :
        /\ DueOf(outbox', u) \in Seq(Things) /\ Len(DueOf(outbox', u)) = Len(e) + 1
        /\ DOMAIN DueOf(outbox', u) = DOMAIN outbox'
        /\ \A k \in DOMAIN outbox' :
              DueOf(outbox', u)[k] = IF outbox'[k].to = "session" /\ outbox'[k].session = u
                                     THEN outbox'[k].response ELSE [kind |-> "none"]
  BY <1>1, <1>5, DueTyped
<1>7. /\ d \in Seq(Things) /\ Len(d) = Len(e) + 1
      /\ \A k \in 1 .. Len(e) : d[k] = e[k]
      /\ d[Len(e) + 1] = [kind |-> "none"]
  <2>1. [kind |-> "none"] \in Things
    BY DEF Things
  <2> QED BY <2>1, <1>3, Put
<1> HIDE DEF d
<1>8. DueOf(outbox', s) = d
  <2>1. ASSUME NEW k \in 1 .. Len(e) + 1 PROVE DueOf(outbox', s)[k] = d[k]
    <3>1. CASE k \in 1 .. Len(e)
      BY <3>1, <1>0, <1>1, <1>4, <1>6, <1>7
    <3>2. CASE k = Len(e) + 1
      BY <3>2, <1>0, <1>1, <1>4, <1>6, <1>7
    <3> QED BY <3>1, <3>2, <1>1
  <2> QED BY <2>1, <1>0, <1>6, <1>7, SeqEqual
<1>9. ASSUME NEW u \in Sessions, u # s, NEW k \in DOMAIN DueOf(outbox', u)
      PROVE  DueOf(outbox', u)[k].kind = "none"
  <2>1. k \in DOMAIN outbox' /\ (k = Len(e) + 1 \/ k \in 1 .. Len(e))
    BY <1>1, <1>6
  <2>2. DueOf(outbox', u)[k] = [kind |-> "none"]
    BY <2>1, <1>4, <1>6, <1>9
  <2> QED BY <2>2
<1> QED BY <1>8, <1>9 DEF d, e, s

-----------------------------------------------------------------------------
(* What the steps of the scheduler tell the clients. *)

\* What is told to s is that its job is over: nothing is heard.
LEMMA Silence ==
  ASSUME NEW s, NEW n, NEW rd, NEW h \in Hearings, NEW q \in Seq(Messages),
         \A i \in DOMAIN q : q[i].to = "session" /\ q[i].session = s =>
            /\ q[i].response.kind = "finished"
            /\ q[i].response.ok /\ rd # "failed" => Over(n, rd, h)
  PROVE  Right(s, n, rd, h, DueOf(q, s)) /\ EndOf(h, DueOf(q, s)) = h
<1> DEFINE d == DueOf(q, s)
<1>1. /\ d \in Seq(Things) /\ DOMAIN d = DOMAIN q
      /\ \A i \in DOMAIN q : d[i] = IF q[i].to = "session" /\ q[i].session = s
                                    THEN q[i].response ELSE [kind |-> "none"]
  BY DueTyped
<1> HIDE DEF d
<1>2. ASSUME NEW i \in DOMAIN d
      PROVE  /\ d[i].kind \notin {"segment", "speech"}
             /\ d[i].kind = "finished" /\ d[i].ok /\ rd # "failed" => Over(n, rd, h)
  <2>1. CASE q[i].to = "session" /\ q[i].session = s
    BY <2>1, <1>1
  <2>2. CASE ~(q[i].to = "session" /\ q[i].session = s)
    <3>1. d[i] = [kind |-> "none"]
      BY <2>2, <1>1
    <3> QED BY <3>1
  <2> QED BY <2>1, <2>2
<1>3. Right(s, n, rd, h, d)
  BY <1>1, <1>2, RightSilence
<1>4. EndOf(h, d) = h
  BY <1>1, <1>2, EndOfSilence
<1> QED BY <1>3, <1>4 DEF d

\* With an empty outbox all that will be heard is in the response queue.
LEMMA AtRest ==
  ASSUME TypeInv, outbox = <<>>, NEW s \in Sessions
  PROVE  Told(s) = Soon(s) /\ Soon(s) \in Hearings
<1>1. Due(s) \in Seq(Things) /\ Soon(s) \in Hearings
  BY ToldTypes
<1>2. Due(s) = <<>>
  <2>1. outbox \in Seq(Messages) /\ Len(outbox) = 0
    BY EmptySeq
  <2>2. Len(Due(s)) = 0
    <3>1. Due(s) = DueOf(outbox, s) /\ outbox \in Seq(Messages)
      BY DueIs DEF TypeInv, SchedulerTyped
    <3>2. Len(DueOf(outbox, s)) = Len(outbox)
      BY <3>1, DueTyped
    <3> QED BY <3>1, <3>2, <2>1
  <2> QED BY <1>1, <2>2, EmptySeq
<1> QED BY <1>1, <1>2, EndOfNothing DEF Told

\* A job that is complete has delivered everything.
LEMMA CompleteIsOver ==
  ASSUME TypeInv, JobsOK, AudioInv, WorkInv, CountInv, OrderInv, pc # "clear",
         NEW i \in DOMAIN active, IsComplete(Refreshed[i]),
         NEW s, s = active[i].session, Listening(s), reader[s] # "failed"
  PROVE  Over(sent[s], reader[s], Told(s))
<1> DEFINE job == active[i]
           os == OutstandingFor(job)
<1>1. /\ job \in Jobs /\ JobOK(job) /\ s \in Sessions
      /\ Refreshed[i] = job \/ Refreshed[i] = RefreshSpeechState(job)
  BY SchedulerValues, RefreshedJobs DEF TypeInv, JobsOK
<1>2. /\ job.closed /\ job.inFlight = 0 /\ ~job.vadBusy
      /\ ~HasVad => job.len = 0
  BY <1>1 DEF RefreshSpeechState, IsComplete, Jobs
<1>3. Told(s) \in Hearings /\ Order(job, os, Told(s))
  BY <1>1, ToldTypes DEF OrderInv
<1>4. Counts(job, os) /\ IsFiniteSet(os) /\ job.offset + job.len + Audio(s) = sent[s]
      /\ ~Reading(s) /\ chunkQ[s] = <<>>
  <2>1. IsFiniteSet(Outstanding) /\ os \subseteq Outstanding
    BY DEF WorkInv, OutstandingFor
  <2>2. IsFiniteSet(os)
    BY <2>1, FS_Subset
  <2> QED BY <1>2, <2>2 DEF CountInv, AudioInv
<1> HIDE DEF job
<1>5. os = {}
  <2>1. Cardinality(os) = 0
    BY <1>2, <1>4 DEF Counts
  <2> QED BY <2>1, <1>4, FS_EmptySet
<1> HIDE DEF os
<1>6. Hand(job, os) = job.pending
  BY <1>5 DEF Hand
<1>7. job.nextResult = job.nextWindow
  <2>1. job.nextResult \in Nat /\ job.nextWindow \in Nat /\ job.nextResult <= job.nextWindow
        /\ \A q \in job.pending : q.index # job.nextResult
    <3>1. job.pending \in SUBSET WhisperTasks /\ job.nextResult \in Nat
      BY <1>1, JobFields
    <3>2. \A q \in job.pending : q.index \in Nat /\ job.nextResult < q.index
      BY <1>1, <3>1, WhisperFields DEF JobOK
    <3>3. \A q \in job.pending : q.index # job.nextResult
      BY <3>1, <3>2
    <3> QED BY <1>1, <3>3, JobFields DEF JobOK
  <2>2. SUFFICES ASSUME job.nextResult # job.nextWindow PROVE FALSE
    OBVIOUS
  <2>3. job.nextResult \in job.nextResult .. job.nextWindow - 1
    BY <2>1, <2>2
  <2>4. \E x \in job.pending : x.index = job.nextResult
    BY <2>3, <1>3, <1>5, <1>6 DEF Order
  <2> QED BY <2>4, <2>1
<1>8. Meets(Told(s).upTo, job.offset) /\ (HasVad => Told(s).upTo = Told(s).speech)
  BY <1>3, <1>7 DEF Order
<1>9. Audio(s) = 0
  <2>1. {k \in DOMAIN chunkQ[s] : chunkQ[s][k] = "audio"} = {}
    BY <1>4, EmptySeq
  <2> QED BY <2>1, FS_EmptySet DEF Audio
<1>10. HeardAll(sent[s], Told(s))
  <2>1. CASE HasVad
    BY <2>1, <1>8 DEF HeardAll
  <2>2. CASE ~HasVad
    <3>1. Told(s).upTo = job.offset /\ job.len = 0
      BY <2>2, <1>2, <1>8 DEF Meets
    <3>2. job.offset \in Nat
      BY <1>1, JobFields
    <3>3. sent[s] = job.offset
      BY <3>1, <3>2, <1>4, <1>9
    <3> QED BY <2>2, <3>1, <3>3 DEF HeardAll
  <2> QED BY <2>1, <2>2
<1> QED BY <1>4, <1>10 DEF Over, Reading

\* Every step of the scheduler but those that deliver: all it may say to a
\* client is that its job is over.
Delivering == Send \/ SelectReady \/ SelectResult
LEMMA QuietTells ==
  ASSUME TypeInv, TypeInv', JobsOK, IdInv, AudioInv, WorkInv, CountInv, OrderInv,
         Scheduler, ~Delivering, NEW s \in Sessions, Listening(s)
  PROVE  /\ outbox = <<>>
         /\ Right(s, sent[s], reader[s], Soon(s), DueOf(outbox', s))
         /\ EndOf(Soon(s), DueOf(outbox', s)) = Soon(s)
<1>1. Plain /\ ~SelectResult
  BY DEF Scheduler, Delivering, Plain
<1>2. outbox = <<>> /\ Soon(s) \in Hearings /\ Told(s) = Soon(s)
  BY <1>1, PlainTells, AtRest
<1>3. outbox' \in Seq(Messages)
  BY DEF TypeInv, SchedulerTyped
<1> DEFINE IsOver(i) == outbox'[i].to = "session" /\ outbox'[i].session = s =>
                        /\ outbox'[i].response.kind = "finished"
                        /\ outbox'[i].response.ok /\ reader[s] # "failed"
                              => Over(sent[s], reader[s], Soon(s))
<1>4. CASE outbox' = outbox
  <2>1. DOMAIN outbox' = {}
    BY <1>2, <1>4
  <2>2. \A i \in DOMAIN outbox' : IsOver(i)
    BY <2>1
  <2> QED BY <2>2, <1>2, <1>3, Silence
<1>5. CASE DrainChunk
  <2>1. at \in DOMAIN active /\ active[at] \in Jobs /\ active[at].session \in Sessions
    BY <1>5, SchedulerValues DEF TypeInv, DrainChunk, Draining
  <2>2. \/ outbox' = <<>>
        \/ outbox' = <<ToSession(active[at].session, Finished(FALSE, active[at]))>>
    BY <1>5 DEF DrainChunk
  <2>3. PICK r \in Responses : r = Finished(FALSE, active[at]) /\ r.kind = "finished" /\ r.ok = FALSE
    BY <2>1, FinishedTyped
  <2>4. PICK m : m = ToSession(active[at].session, r)
    OBVIOUS
  <2>5. m.response = r
    BY <2>4 DEF ToSession
  <2>6. ASSUME NEW i \in DOMAIN outbox' PROVE IsOver(i)
    <3>1. outbox' = <<m>>
      <4>1. outbox' # <<>>
        OBVIOUS
      <4> QED BY <4>1, <2>2, <2>3, <2>4
    <3>2. outbox'[i] = m
      BY <3>1
    <3> QED BY <3>2, <2>3, <2>5
  <2> QED BY <2>6, <1>2, <1>3, Silence
<1>6. CASE SelectError
  <2>1. /\ DOMAIN outbox' = DOMAIN active
        /\ \A i \in DOMAIN active :
             outbox'[i] = ToSession(active[i].session, Finished(FALSE, active[i]))
    BY <1>6, FailuresTyped DEF TypeInv, SelectError
  <2>2. ASSUME NEW i \in DOMAIN outbox' PROVE IsOver(i)
    <3>1. active[i] \in Jobs /\ active[i].session \in Sessions
      BY <2>1, SchedulerValues DEF TypeInv
    <3>2. PICK r \in Responses : r = Finished(FALSE, active[i]) /\ r.kind = "finished" /\ r.ok = FALSE
      BY <3>1, FinishedTyped
    <3>3. outbox'[i].response = r
      <4>1. outbox'[i] = ToSession(active[i].session, r)
        BY <2>1, <3>2
      <4> QED BY <4>1 DEF ToSession
    <3> QED BY <3>2, <3>3
  <2> QED BY <2>2, <1>2, <1>3, Silence
<1>7. CASE EndDrain
  <2>1. PICK stay, leave : Parted(stay, leave)
    BY <1>7, EndDrainEffect DEF TypeInv
  <2>2. pc # "clear"
    BY <1>7 DEF EndDrain, At
  <2>3. ASSUME NEW i \in DOMAIN outbox', outbox'[i].to = "session", outbox'[i].session = s
        PROVE  /\ outbox'[i].response.kind = "finished"
               /\ outbox'[i].response.ok /\ reader[s] # "failed"
                     => Over(sent[s], reader[s], Soon(s))
    <3>1. PICK k \in DOMAIN active : k = leave[i]
      BY <2>1 DEF Parted
    <3>2. /\ IsComplete(Refreshed[k])
          /\ outbox'[i] = ToSession(Refreshed[k].session, Finished(TRUE, Refreshed[k]))
      BY <2>1, <3>1 DEF Parted
    <3>3. /\ Refreshed[k] \in Jobs /\ Refreshed[k].session = active[k].session
          /\ active[k].session \in Sessions
      BY RefreshedJobs, SchedulerValues DEF TypeInv
    <3>4. PICK r \in Responses : r = Finished(TRUE, Refreshed[k]) /\ r.kind = "finished"
      BY <3>3, FinishedTyped
    <3>5. outbox'[i].response = r /\ outbox'[i].session = active[k].session
      <4>1. outbox'[i] = ToSession(active[k].session, r)
        BY <3>2, <3>3, <3>4
      <4> QED BY <4>1 DEF ToSession
    <3>6. s = active[k].session
      BY <3>5, <2>3
    <3>7. reader[s] # "failed" => Over(sent[s], reader[s], Told(s))
      BY <3>2, <3>6, <2>2, CompleteIsOver
    <3> QED BY <3>4, <3>5, <3>7, <1>2
  <2>4. \A i \in DOMAIN outbox' : IsOver(i)
    BY <2>3
  <2> QED BY <2>4, <1>2, <1>3, Silence
<1>8. \/ outbox' = outbox \/ DrainChunk \/ SelectError \/ EndDrain
  BY <1>1 DEF Plain, StartRun, DrainNext, SelectJob, Clear, SelectSleep
<1> QED BY <1>2, <1>4, <1>5, <1>6, <1>7, <1>8

\* What the client of s will have heard of both queues after a step.
ToldThen(s) == EndOf(EndOf(heard'[s], respQ'[s]), DueOf(outbox', s))

\* That is what it has been told then.
LEMMA ToldThenIs ==
  ASSUME NEW s
  PROVE  Told(s)' = ToldThen(s)
<1>1. Due(s)' = DueOf(outbox', s)
  BY DueIs
<1> QED BY <1>1 DEF Told, Soon, ToldThen

\* A message leaves the outbox: if it reaches the session it is what the session
\* was to be told next.
LEMMA SendTells ==
  ASSUME TypeInv, ToldInv, Send, NEW s \in Sessions
  PROVE  Then(s) /\ (Listening(s) => ToldThen(s) = Told(s))
<1> DEFINE m == Head(outbox)
           d == DueOf(outbox, s)
           q == respQ[s]
           n == sent[s]
           rd == reader[s]
           forS == m.to = "session" /\ m.session = s
           r == m.response
<1>1. /\ outbox # <<>> /\ outbox' = Tail(outbox)
      /\ phase' = phase /\ reader' = reader /\ sent' = sent /\ final' = final /\ heard' = heard
      /\ respQ'[s] = IF forS /\ Listening(s) THEN Append(q, r) ELSE q
  <2>1. CASE Post
    BY <2>1 DEF Post, sessionVars
  <2>2. CASE Respond
    BY <2>2 DEF Respond, TypeInv, SessionsTyped
  <2> QED BY <2>1, <2>2 DEF Send
<1>2. /\ heard[s] \in Hearings /\ q \in Seq(Things) /\ Soon(s) \in Hearings
      /\ d \in Seq(Things) /\ outbox \in Seq(Messages)
  BY ToldTypes, DueIs DEF TypeInv, SchedulerTyped
<1>3. /\ DueOf(outbox', s) = Tail(d) /\ d # <<>>
      /\ Head(d) = IF forS THEN r ELSE [kind |-> "none"]
  BY <1>1, <1>2, DueRest
<1>4. /\ SaidRight(s, n, rd, final[s], heard[s], q)
      /\ Listening(s) => Right(s, n, rd, Soon(s), d)
  BY DueIs DEF ToldInv, SaidNow, DueRight
<1>5. Told(s) = EndOf(Soon(s), d) /\ Soon(s) = EndOf(heard[s], q)
  BY DueIs DEF Told, Soon
<1>6. Listening(s) <=> phase[s] \in {"live", "joining"}
  BY DEF Listening
<1> HIDE DEF d, q, n, rd, forS, r
<1>7. CASE ~Listening(s)
  <2>1. respQ'[s] = q
    BY <1>1, <1>7
  <2> QED BY <1>1, <1>4, <1>6, <1>7, <2>1 DEF Then, n, rd
<1>8. ASSUME Listening(s)
      PROVE  /\ Follows(s, n, rd, Soon(s), Head(d))
             /\ Right(s, n, rd, Heard(Soon(s), Head(d)), Tail(d))
             /\ EndOf(Heard(Soon(s), Head(d)), Tail(d)) = EndOf(Soon(s), d)
             /\ Head(d) \in Things
  BY <1>2, <1>3, <1>4, <1>8, RightRest, EndOfRest
<1>9. CASE Listening(s) /\ forS
  <2>1. Head(d) = r /\ r \in Things /\ respQ'[s] = Append(q, r)
    BY <1>1, <1>3, <1>8, <1>9
  <2>2. EndOf(heard[s], Append(q, r)) = Heard(Soon(s), r)
    BY <2>1, <1>2, <1>5, EndOfMore
  <2>3. Right(s, n, rd, heard[s], Append(q, r))
    <3>1. Right(s, n, rd, heard[s], q) /\ Follows(s, n, rd, EndOf(heard[s], q), r)
      BY <1>4, <1>5, <1>8, <1>9, <2>1 DEF SaidRight
    <3> QED BY <3>1, <2>1, <1>2, RightMore
  <2>4. SaidRight(s, n, rd, final[s], heard[s], Append(q, r))
    BY <1>4, <2>3 DEF SaidRight
  <2>5. Then(s)
    BY <1>1, <1>3, <1>8, <1>9, <2>1, <2>2, <2>4 DEF Then, n, rd
  <2>6. ToldThen(s) = Told(s)
    BY <1>1, <1>3, <1>5, <1>8, <1>9, <2>1, <2>2 DEF ToldThen
  <2> QED BY <2>5, <2>6
<1>10. CASE Listening(s) /\ ~forS
  <2>1. Head(d) = [kind |-> "none"] /\ respQ'[s] = q
    BY <1>1, <1>3, <1>10
  <2>2. Heard(Soon(s), Head(d)) = Soon(s)
    BY <2>1 DEF Heard
  <2>3. Then(s)
    BY <1>1, <1>3, <1>4, <1>5, <1>8, <1>10, <2>1, <2>2 DEF Then, n, rd
  <2>4. ToldThen(s) = Told(s)
    BY <1>1, <1>3, <1>5, <1>8, <1>10, <2>1, <2>2 DEF ToldThen
  <2> QED BY <2>3, <2>4
<1> QED BY <1>7, <1>9, <1>10

\* The scheduler says something to a client that it has told everything.
LEMMA StillTells ==
  ASSUME TypeInv, ToldInv, NEW s \in Sessions, Still(s), respQ'[s] = respQ[s],
         Listening(s) => Right(s, sent[s], reader[s], Soon(s), DueOf(outbox', s))
  PROVE  Then(s) /\ ToldThen(s) = EndOf(Soon(s), DueOf(outbox', s))
<1>1. SaidRight(s, sent[s], reader[s], final[s], heard[s], respQ[s])
  BY DEF ToldInv, SaidNow
<1>2. EndOf(heard'[s], respQ'[s]) = Soon(s)
  BY DEF Still, Soon
<1>3. /\ phase'[s] = phase[s] /\ reader'[s] = reader[s] /\ sent'[s] = sent[s]
      /\ final'[s] = final[s] /\ heard'[s] = heard[s]
  BY DEF Still
<1>4. SaidRight(s, sent'[s], reader'[s], final'[s], heard'[s], respQ'[s])
  BY <1>1, <1>3
<1>5. phase'[s] \in {"live", "joining"} =>
         Right(s, sent'[s], reader'[s], EndOf(heard'[s], respQ'[s]), DueOf(outbox', s))
  BY <1>2, <1>3 DEF Listening
<1> QED BY <1>2, <1>4, <1>5 DEF Then, ToldThen

\* What a worker is given is not for the clients.
LEMMA VadIsNotTold ==
  ASSUME TypeInv, TypeInv', outbox = <<>>, NEW i \in DOMAIN active, NEW w, VadSent(w, i),
         NEW s \in Sessions
  PROVE  /\ Right(s, sent[s], reader[s], Soon(s), DueOf(outbox', s))
         /\ EndOf(Soon(s), DueOf(outbox', s)) = Soon(s)
<1>1. outbox' = <<ToWorker(w, VadTask(active[i]))>>
  BY DEF VadSent
<1>2. \A k \in DOMAIN outbox' : outbox'[k].to # "session"
  <2>1. PICK m : m = ToWorker(w, VadTask(active[i]))
    OBVIOUS
  <2>2. m.to = "worker"
    BY <2>1 DEF ToWorker
  <2> QED BY <1>1, <2>1, <2>2
<1>3. outbox' \in Seq(Messages) /\ Soon(s) \in Hearings
  BY AtRest DEF TypeInv, SchedulerTyped
<1> QED BY <1>2, <1>3, Silence

\* The events of a window are told to the client of its job.
LEMMA WindowIsTold ==
  ASSUME TypeInv, TypeInv', JobsOK, outbox = <<>>, NEW i \in DOMAIN active, NEW w \in Workers,
         NEW plan, WindowSent(w, i, plan), NEW s \in Sessions,
         s = active[i].session /\ HasVad => Soon(s).speech <= active[i].offset
  PROVE  LET now == EndOf(Soon(s), DueOf(outbox', s)) IN
         /\ Right(s, sent[s], reader[s], Soon(s), DueOf(outbox', s)) /\ now \in Hearings
         /\ s # active[i].session => now = Soon(s)
         /\ s = active[i].session =>
              /\ now.upTo = Soon(s).upTo
              /\ now.speech = IF HasVad THEN active[i].offset + plan.end ELSE Soon(s).speech
<1> DEFINE job == active[i]
           e == SpeechEvents(job, plan)
           d == DueOf(outbox', s)
           h == Soon(s)
<1>1. job \in Jobs /\ JobOK(job) /\ PlanOK(job, plan) /\ h \in Hearings
      /\ SchedulerTyped' /\ d \in Seq(Things)
  <2>1. job \in Jobs /\ JobOK(job)
    BY SchedulerValues DEF TypeInv, JobsOK
  <2>2. PlanOK(job, plan)
    BY <2>1, DispatchPlanOK DEF WindowSent
  <2>3. SchedulerTyped' /\ outbox' \in Seq(Messages)
    BY DEF TypeInv, SchedulerTyped
  <2>4. d \in Seq(Things)
    BY <2>3, DueTyped
  <2> QED BY <2>1, <2>2, <2>3, <2>4, AtRest
<1>2. CASE s = job.session
  <2>1. d = Append(e, [kind |-> "none"])
    BY <1>1, <1>2, DueOfWindow
  <2>2. /\ e \in Seq(Things) /\ Right(s, sent[s], reader[s], h, e)
        /\ EndOf(h, e) \in Hearings /\ EndOf(h, e).upTo = h.upTo
        /\ EndOf(h, e).speech = IF HasVad THEN job.offset + plan.end ELSE h.speech
    <3>1. HasVad => h.speech <= job.offset
      BY <1>2
    <3> HIDE DEF job, h
    <3> QED BY <1>1, <3>1, SpeechTells
  <2>3. PICK r : r = [kind |-> "none"]
    OBVIOUS
  <2>4. r \in Things /\ Heard(EndOf(h, e), r) = EndOf(h, e)
        /\ Follows(s, sent[s], reader[s], EndOf(h, e), r)
    BY <2>3 DEF Things, Heard, Follows
  <2> HIDE DEF e, h, d
  <2>5. Right(s, sent[s], reader[s], h, Append(e, r))
    BY <1>1, <2>2, <2>4, RightMore
  <2>6. EndOf(h, Append(e, r)) = EndOf(h, e)
    BY <1>1, <2>2, <2>4, EndOfMore
  <2>7. Right(s, sent[s], reader[s], h, d) /\ EndOf(h, d) = EndOf(h, e)
    BY <2>1, <2>3, <2>5, <2>6
  <2> QED BY <1>2, <2>2, <2>7 DEF h, d
<1>3. CASE s # job.session
  <2>1. \A k \in DOMAIN d : d[k].kind = "none"
    BY <1>1, <1>3, DueOfWindow
  <2> HIDE DEF e, h, d
  <2>2. Right(s, sent[s], reader[s], h, d) /\ EndOf(h, d) = h
    BY <1>1, <2>1, RightSilence, EndOfSilence
  <2> QED BY <1>1, <1>3, <2>2 DEF h, d
<1> QED BY <1>2, <1>3

\* The text of the windows that come next is told to the client of their job.
LEMMA ResultIsTold ==
  ASSUME TypeInv, TypeInv', JobsOK, WorkInv, outbox = <<>>, NEW i \in DOMAIN active,
         NEW h \in Of(Outstanding, active[i].id), Whisper(h),
         NEW next, next = Deliverable(active[i], h.item),
         outbox' = ToSessions(active[i].session, SegmentResponses(next)),
         NEW s \in Sessions,
         s = active[i].session => Order(active[i], Of(Outstanding, active[i].id), Soon(s))
  PROVE  LET now == EndOf(Soon(s), DueOf(outbox', s)) IN
         /\ Right(s, sent[s], reader[s], Soon(s), DueOf(outbox', s)) /\ now \in Hearings
         /\ s # active[i].session => now = Soon(s)
         /\ s = active[i].session =>
              /\ now.speech = Soon(s).speech
              /\ now.upTo = IF Len(next) = 0 THEN Soon(s).upTo ELSE next[Len(next)].to
<1> DEFINE job == active[i]
           os == Of(Outstanding, job.id)
           rs == SegmentResponses(next)
           d == DueOf(outbox', s)
           told == Soon(s)
<1>1. job \in Jobs /\ JobOK(job) /\ told \in Hearings /\ job.session \in Sessions
      /\ sent[s] \in Nat
  BY SchedulerValues, AtRest, ToldTypes DEF TypeInv, JobsOK
<1>2. Suits(job, os) /\ (\A o \in os : Whisper(o) => o.item \in WhisperTasks /\ Sized(o.item))
      /\ \A q \in job.pending : Sized(q)
  BY OutstandingTyped DEF WorkInv, OutstandingFor, Of
<1>3. h.item \in WhisperTasks
  BY <1>2
<1>4. next \in Seq(WhisperTasks) /\ rs \in Seq(Responses)
  <2> HIDE DEF job
  <2> QED BY <1>1, <1>3, DeliverableTyped DEF job
<1>5. d \in Seq(Things)
  <2>1. outbox' \in Seq(Messages)
    BY DEF TypeInv, SchedulerTyped
  <2> QED BY <2>1, DueTyped
<1>6. CASE s = job.session
  <2>1. d = rs
    <3> HIDE DEF job, rs
    <3> QED BY <1>1, <1>4, <1>6, DueOfOne DEF job, rs
  <2>2. \A x \in Hand(job, os) : x.begin = x.from /\ x.from < x.to /\ x.to <= sent[s]
    <3>1. \A x \in Hand(job, os) : Sized(x) /\ x.session = s
      <4>1. \A x \in Hand(job, os) : Sized(x)
        BY <1>2 DEF Hand
      <4>2. \A x \in Hand(job, os) : x.session = job.session
        <5> HIDE DEF job, os
        <5> QED BY <1>1, <1>2, HandTyped
      <4> QED BY <4>1, <4>2, <1>6
    <3> QED BY <3>1 DEF Sized
  <2>3. Order(job, os, told)
    BY <1>6
  <2>4. next = Deliverable(job, h.item) /\ h \in os
    OBVIOUS
  <2>6. Suits(job, os) /\ \A o \in os : Whisper(o) => o.item \in WhisperTasks
    BY <1>2
  <2>7. job \in Jobs /\ JobOK(job) /\ told \in Hearings /\ sent[s] \in Nat
    BY <1>1
  <2> HIDE DEF job, os, told, d
  <2>8. PICK n \in Nat : n = sent[s]
    BY <1>1
  <2>9. PICK rd : rd = reader[s]
    OBVIOUS
  <2>5. /\ Right(job.session, n, rd, told, rs)
        /\ EndOf(told, rs) \in Hearings
        /\ EndOf(told, rs).speech = told.speech
        /\ EndOf(told, rs).upTo = IF Len(next) = 0 THEN told.upTo ELSE next[Len(next)].to
    <3>1. \A x \in Hand(job, os) : x.begin = x.from /\ x.from < x.to /\ x.to <= n
      BY <2>2, <2>8
    <3>2. Right(job.session, n, rd, told, rs)
      BY <2>3, <2>4, <2>6, <2>7, <3>1, SegmentsTell
    <3>3. EndOf(told, rs) \in Hearings
      BY <2>3, <2>4, <2>6, <2>7, <3>1, SegmentsTell
    <3>4. EndOf(told, rs).speech = told.speech
      BY <2>3, <2>4, <2>6, <2>7, <3>1, <3>2, SegmentsTell
    <3>5. EndOf(told, rs).upTo = IF Len(next) = 0 THEN told.upTo ELSE next[Len(next)].to
      <4>1. /\ Len(next) = 0 => EndOf(told, rs).upTo = told.upTo
            /\ Len(next) # 0 => EndOf(told, rs).upTo = next[Len(next)].to
        BY <2>3, <2>4, <2>6, <2>7, <3>1, <3>2, SegmentsTell, Z3T(90)
      <4> QED BY <4>1
    <3> QED BY <3>2, <3>3, <3>4, <3>5
  <2> HIDE DEF rs
  <2> QED BY <1>6, <2>1, <2>5, <2>8, <2>9 DEF d, told, job
<1>7. CASE s # job.session
  <2>1. \A k \in DOMAIN d : d[k].kind = "none"
    <3> HIDE DEF job, rs
    <3> QED BY <1>1, <1>4, <1>7, DueOfOne DEF job, rs
  <2> HIDE DEF d, told
  <2>2. Right(s, sent[s], reader[s], told, d) /\ EndOf(told, d) = told
    BY <1>1, <1>5, <2>1, RightSilence, EndOfSilence
  <2> QED BY <1>1, <1>7, <2>2 DEF d, told, job
<1> QED BY <1>6, <1>7

\* What the client of s has been told stays with it, or has reached it.
Goes(s) == phase[s] # "new" /\ phase'[s] \in {"live", "joining"} =>
               Listening(s) /\ ToldThen(s) = Told(s)

\* Every step but those that deliver tells a client nothing new, but its end.
LEMMA ToldStep ==
  ASSUME TypeInv, TypeInv', JobsOK, IdInv, PhaseInv, AudioInv, WorkInv, CountInv,
         ToldInv, OrderInv, [Next]_vars, ~SelectReady, ~SelectResult, NEW s \in Sessions
  PROVE  Then(s) /\ Goes(s)
<1>0. Listening(s) <=> phase[s] \in {"live", "joining"}
  BY DEF Listening
<1>1. CASE SessionThread(s) /\ UNCHANGED <<workerVars, schedulerVars>>
  <2>1. outbox' = outbox
    BY <1>1 DEF schedulerVars
  <2>2. CASE Submit(s) \/ SpawnFails(s)
    BY <2>1, <2>2, SubmitTells DEF Submit, SpawnFails, Goes
  <2>3. CASE WriteResponse(s)
    <3>1. Then(s) /\ EndOf(heard'[s], respQ'[s]) = Soon(s)
      BY <2>1, <2>3, WriteTells
    <3>2. ToldThen(s) = Told(s)
      BY <2>1, <3>1, DueIs DEF ToldThen, Told
    <3>3. phase' = phase
      BY <2>3 DEF WriteResponse
    <3> QED BY <1>0, <3>1, <3>2, <3>3 DEF Goes
  <2>4. CASE WriteFails(s)
    <3>1. phase'[s] = "gone"
      BY <2>4 DEF WriteFails, TypeInv, SessionsTyped
    <3> QED BY <2>4, <3>1, FailTells DEF Goes
  <2>5. CASE TakeFinished(s)
    <3>1. Then(s) /\ EndOf(heard'[s], respQ'[s]) = Soon(s)
      BY <2>1, <2>5, FinishTells
    <3>2. ToldThen(s) = Told(s)
      BY <2>1, <3>1, DueIs DEF ToldThen, Told
    <3>3. phase[s] = "live"
      BY <2>5 DEF TakeFinished
    <3> QED BY <1>0, <3>1, <3>2, <3>3 DEF Goes
  <2>6. CASE JoinReader(s)
    <3>1. phase'[s] = "ended"
      BY <2>6 DEF JoinReader, TypeInv, SessionsTyped
    <3> QED BY <2>6, <3>1, JoinTells DEF Goes
  <2> QED BY <1>1, <2>2, <2>3, <2>4, <2>5, <2>6 DEF SessionThread
<1>2. CASE ReaderThread(s, Held(s)) /\ UNCHANGED <<workerVars, schedulerVars>>
  <2>1. outbox' = outbox
    BY <1>2 DEF schedulerVars
  <2>2. Then(s) /\ phase' = phase /\ heard' = heard /\ respQ' = respQ
    BY <1>2, <2>1, ReaderTells
  <2>3. ToldThen(s) = Told(s)
    BY <2>1, <2>2, DueIs DEF ToldThen, Told, Soon
  <2> QED BY <1>0, <2>2, <2>3 DEF Goes
<1>3. CASE Send
  <2>1. phase' = phase
    BY <1>3 DEF Send, Respond, Post, sessionVars
  <2> QED BY <1>0, <1>3, <2>1, SendTells DEF Goes
<1>4. CASE Still(s) /\ respQ'[s] = respQ[s] /\ ~Send
  <2>1. phase'[s] = phase[s]
    BY <1>4 DEF Still
  <2>2. CASE outbox' = outbox
    <3>1. DueOf(outbox', s) = Due(s)
      BY <2>2, DueIs
    <3>2. Listening(s) => Right(s, sent[s], reader[s], Soon(s), DueOf(outbox', s))
      BY <3>1 DEF ToldInv, DueRight
    <3>3. Then(s) /\ ToldThen(s) = EndOf(Soon(s), DueOf(outbox', s))
      BY <1>4, <3>2, StillTells
    <3>4. ToldThen(s) = Told(s)
      BY <3>1, <3>3 DEF Told
    <3> QED BY <1>0, <2>1, <3>3, <3>4 DEF Goes
  <2>3. CASE Scheduler /\ ~Delivering
    <3>1. Listening(s) =>
            /\ Right(s, sent[s], reader[s], Soon(s), DueOf(outbox', s))
            /\ EndOf(Soon(s), DueOf(outbox', s)) = Soon(s) /\ outbox = <<>>
      BY <2>3, QuietTells
    <3>2. Then(s) /\ ToldThen(s) = EndOf(Soon(s), DueOf(outbox', s))
      BY <1>4, <3>1, StillTells
    <3>3. Listening(s) => ToldThen(s) = Told(s)
      BY <3>1, <3>2, AtRest
    <3> QED BY <1>0, <2>1, <3>2, <3>3 DEF Goes
  <2>4. outbox' = outbox \/ Scheduler
    BY DEF Next, Session, Reader, Worker, schedulerVars, vars
  <2> QED BY <1>4, <2>2, <2>3, <2>4 DEF Delivering
<1> QED BY <1>1, <1>2, <1>3, <1>4, WhatMoves DEF Send

\* Changes that leave the order of a job alone.
LEMMA SameOrderKept ==
  ASSUME NEW job \in Jobs, JobOK(job), NEW c, NEW b \in BOOLEAN
  PROVE  /\ SameOrder(job, job) /\ SameOrder(job, AcceptChunk(job, c))
         /\ SameOrder(job, [job EXCEPT !.closed = b])
         /\ SameOrder(job, RefreshSpeechState(job))
<1>1. SameOrder(job, job)
  BY DEF SameOrder
<1>2. SameOrder(job, [job EXCEPT !.len = @ + 1])
  BY DEF SameOrder, Jobs
<1>3. \A d \in BOOLEAN : SameOrder(job, [job EXCEPT !.closed = d])
  BY DEF SameOrder, Jobs
<1>4. SameOrder(job, AcceptChunk(job, c))
  BY <1>2, <1>3 DEF AcceptChunk
<1>5. SameOrder(job, RefreshSpeechState(job))
  <2>1. job.offset \in Nat /\ job.len \in Nat
    BY JobFields
  <2>2. CASE RefreshSpeechState(job) = job
    BY <1>1, <2>2
  <2>3. CASE HasVad /\ RefreshSpeechState(job)
                         = [job EXCEPT !.offset = @ + job.len, !.len = 0, !.probs = <<>>]
    <3>1. LET new == [job EXCEPT !.offset = @ + job.len, !.len = 0, !.probs = <<>>] IN
          /\ new.id = job.id /\ new.session = job.session
          /\ new.nextResult = job.nextResult /\ new.nextWindow = job.nextWindow
          /\ new.pending = job.pending /\ new.offset = job.offset + job.len
      BY DEF Jobs
    <3>2. job.offset <= job.offset + job.len
      BY <2>1
    <3> QED BY <2>3, <3>1, <3>2 DEF SameOrder
  <2> QED BY <2>2, <2>3 DEF RefreshSpeechState
<1> QED BY <1>1, <1>3, <1>4, <1>5

\* The jobs after a step have the windows they had, or are new.
JobsOrdered ==
    \A i \in DOMAIN active' :
        \/ \E k \in DOMAIN active : SameOrder(active[k], active'[i])
        \/ (StartRun \/ SelectJob) /\ active'[i] = NewJob(nextId, Head(jobQ))

\* Steps that dispatch no window and take no result.
LEMMA JobsOrderedStep ==
  ASSUME TypeInv, JobsOK, IdInv, [Next]_vars, ~SelectReady, ~SelectResult
  PROVE  JobsOrdered
<1>1. \A i \in DOMAIN active : active[i] \in Jobs /\ JobOK(active[i])
  BY SchedulerValues DEF TypeInv, JobsOK
<1>2. CASE active' = active
  BY <1>1, <1>2, SameOrderKept DEF JobsOrdered
<1>3. CASE StartRun \/ SelectJob
  <2>1. \A i \in 1 .. Len(active) + 1 : i = Len(active) + 1 \/ i \in DOMAIN active
    BY SchedulerValues DEF TypeInv
  <2> QED BY <1>1, <1>3, <2>1, JoinsAppends, SameOrderKept DEF JobsOrdered
<1>4. ASSUME NEW k \in DOMAIN active, NEW new, SameOrder(active[k], new),
             active' = [active EXCEPT ![k] = new]
      PROVE  JobsOrdered
  <2>1. DOMAIN active' = DOMAIN active /\ active'[k] = new
        /\ \A i \in DOMAIN active : i # k => active'[i] = active[i]
    BY <1>4
  <2> QED BY <1>1, <1>4, <2>1, SameOrderKept DEF JobsOrdered
<1>5. CASE DrainChunk
  <2>1. at \in DOMAIN active
    BY <1>5, SchedulerValues DEF TypeInv, DrainChunk, Draining
  <2>2. PICK c : active' = [active EXCEPT ![at] = AcceptChunk(active[at], c)]
    BY <1>5 DEF DrainChunk
  <2> QED BY <1>1, <1>4, <2>1, <2>2, SameOrderKept
<1>6. CASE DrainNext
  <2>1. at \in DOMAIN active
    BY <1>6, SchedulerValues DEF TypeInv, DrainNext, Draining
  <2>2. PICK b \in BOOLEAN : active' = [active EXCEPT ![at] = [active[at] EXCEPT !.closed = b]]
    <3> DEFINE b == active[at].closed \/ (Drainable(active[at]) /\ ~Reading(active[at].session))
    <3>1. b \in BOOLEAN
      BY <1>1, <2>1, JobFields DEF Drainable, Reading
    <3>2. active' = [active EXCEPT ![at] = [active[at] EXCEPT !.closed = b]]
      BY <1>6 DEF DrainNext
    <3> HIDE DEF b
    <3> QED BY <3>1, <3>2
  <2> QED BY <1>1, <1>4, <2>1, <2>2, SameOrderKept
<1>7. CASE EndDrain
  <2>1. PICK stay, leave : Parted(stay, leave)
    BY <1>7, EndDrainEffect DEF TypeInv
  <2>2. active' \in Seq(Jobs) /\ DOMAIN active' = 1 .. Len(active')
    <3>1. active' \in Seq(Jobs)
      BY <1>7, EndDrainEffect DEF TypeInv
    <3> HIDE DEF Jobs
    <3> QED BY <3>1, LenProperties
  <2>3. ASSUME NEW i \in DOMAIN active'
        PROVE  \E k \in DOMAIN active : SameOrder(active[k], active'[i])
    <3>1. stay[i] \in DOMAIN Refreshed /\ active'[i] = Refreshed[stay[i]]
      BY <2>1, <2>2 DEF Parted, Picks
    <3>2. stay[i] \in DOMAIN active
          /\ (Refreshed[stay[i]] = active[stay[i]]
              \/ Refreshed[stay[i]] = RefreshSpeechState(active[stay[i]]))
      BY <3>1, RefreshedJobs DEF TypeInv
    <3> QED BY <1>1, <3>1, <3>2, SameOrderKept
  <2> QED BY <2>3 DEF JobsOrdered
<1>8. CASE Clear
  BY <1>8 DEF Clear, JobsOrdered
<1> QED BY <1>2, <1>3, <1>5, <1>6, <1>7, <1>8
        DEF Next, Scheduler, Session, Reader, Worker, schedulerVars, vars, Send, Respond, Post,
            SelectError, SelectSleep

\* What OrderInv says after a step.
OrderThen ==
    \A j \in DOMAIN active' :
        phase'[active'[j].session] \in {"live", "joining"} =>
            Order(active'[j], Of(Outstanding', active'[j].id), ToldThen(active'[j].session))

\* OrderInv after the step.
LEMMA ThenOrder ==
  ASSUME pc' = "clear" \/ OrderThen
  PROVE  OrderInv'
<1>1. CASE pc' = "clear"
  BY <1>1 DEF OrderInv
<1>2. CASE OrderThen
  BY <1>2 DEF OrderThen, OrderInv, OutstandingFor, Of, ToldThen, Told, Soon, Due, DueOf,
              Listening, Order, Hand, Whisper
<1> QED BY <1>1, <1>2

\* A job that has just begun has nothing to deliver.
LEMMA NewJobOrder ==
  ASSUME TypeInv, JobsOK, IdInv, PhaseInv, WorkMoves, StartRun \/ SelectJob
  PROVE  LET s == Head(jobQ) IN
         Order(NewJob(nextId, s), Of(Outstanding', nextId), ToldThen(s))
<1>1. PICK s \in Sessions : s = Head(jobQ) /\ jobQ # <<>>
  BY JoinsAppends
<1>2. Fresh(s)
  <2>1. 1 \in DOMAIN jobQ /\ jobQ[1] = s
    BY <1>1, Taken DEF TypeInv, SessionsTyped
  <2> QED BY <2>1 DEF PhaseInv, Queued
<1>3. heard' = heard /\ respQ' = respQ /\ outbox' = outbox /\ outbox = <<>>
  BY DEF StartRun, SelectJob, At
<1>4. DueOf(outbox', s) = <<>>
  BY <1>3 DEF DueOf
<1>5. heard[s] \in Hearings
  BY ToldTypes
<1>6. ToldThen(s) = heard[s]
  BY <1>2, <1>3, <1>4, <1>5, EndOfNothing DEF Fresh, ToldThen
<1>7. ToldThen(s).upTo = 0 /\ ToldThen(s).speech = 0
  BY <1>2, <1>6 DEF Fresh
<1>8. Of(Outstanding', nextId) = {}
  BY SchedulerValues DEF TypeInv, WorkMoves, Of
<1> QED BY <1>1, <1>7, <1>8, NewOrder

\* The order is kept by every step that dispatches no window and takes no result.
LEMMA QuietOrder ==
  ASSUME TypeInv, TypeInv', JobsOK, TokenInv, IdInv, PhaseInv, AudioInv, WorkInv, CountInv,
         ToldInv, OrderInv, [Next]_vars, ~SelectReady, ~SelectResult
  PROVE  OrderInv'
<1>1. CASE SelectError
  BY <1>1, ThenOrder DEF SelectError
<1>2. CASE pc = "clear"
  <2>1. pc' = "clear" \/ active' = <<>>
    BY <1>2, ClearLeaves
  <2>2. active' = <<>> => OrderThen
    BY DEF OrderThen
  <2> QED BY <2>1, <2>2, ThenOrder
<1>3. CASE ~SelectError /\ pc # "clear"
  <2>1. WorkMoves /\ JobsOrdered
    BY <1>3, WorkStep, JobsOrderedStep
  <2>2. ASSUME NEW j \in DOMAIN active', phase'[active'[j].session] \in {"live", "joining"}
        PROVE  Order(active'[j], Of(Outstanding', active'[j].id), ToldThen(active'[j].session))
    <3>1. active'[j] \in Jobs
      <4>1. active' \in Seq(Jobs)
        BY DEF TypeInv, SchedulerTyped
      <4> HIDE DEF Jobs
      <4> QED BY <4>1, LenProperties, ElementOfSeq
    <3>2. ASSUME NEW k \in DOMAIN active, SameOrder(active[k], active'[j])
          PROVE  Order(active'[j], Of(Outstanding', active'[j].id), ToldThen(active'[j].session))
      <4>1. PICK job : job = active[k]
        OBVIOUS
      <4>2. PICK new : new = active'[j]
        OBVIOUS
      <4>3. PICK s : s = job.session
        OBVIOUS
      <4>4. job \in Jobs /\ JobOK(job) /\ s \in Sessions /\ job.id \in Ids
        BY <4>1, <4>3, SchedulerValues, JobFields DEF TypeInv, JobsOK
      <4>5. new \in Jobs /\ SameOrder(job, new) /\ new.id = job.id /\ new.session = s
        BY <3>1, <3>2, <4>1, <4>2, <4>3 DEF SameOrder
      <4>6. phase[s] # "new"
        BY <4>1, <4>3, <4>4 DEF PhaseInv, Fresh, Active
      <4>7. Listening(s) /\ ToldThen(s) = Told(s) /\ Told(s) \in Hearings
        BY <2>2, <4>2, <4>4, <4>5, <4>6, ToldStep, ToldTypes DEF Goes
      <4>8. Order(job, Of(Outstanding, job.id), Told(s))
        BY <1>3, <4>1, <4>3, <4>7 DEF OrderInv, OutstandingFor, Of
      <4>9. Suits(job, Of(Outstanding, job.id))
            /\ \A o \in Of(Outstanding, job.id) : Whisper(o) => o.item \in WhisperTasks
        BY <4>1, OutstandingTyped DEF WorkInv, OutstandingFor, Of
      <4>10. Carried(Of(Outstanding, job.id), Of(Outstanding', job.id))
        BY <2>1, <4>4 DEF WorkMoves
      <4>11. PICK told : told = Told(s)
        OBVIOUS
      <4>12. Order(new, Of(Outstanding', job.id), told)
        BY <4>4, <4>5, <4>7, <4>8, <4>9, <4>10, <4>11, OrderCarried
      <4> QED BY <4>2, <4>5, <4>7, <4>11, <4>12
    <3>3. CASE (StartRun \/ SelectJob) /\ active'[j] = NewJob(nextId, Head(jobQ))
      <4>1. NewJob(nextId, Head(jobQ)).id = nextId
            /\ NewJob(nextId, Head(jobQ)).session = Head(jobQ)
        BY NewJobWork
      <4> QED BY <2>1, <3>3, <4>1, NewJobOrder
    <3> QED BY <2>1, <3>2, <3>3 DEF JobsOrdered
  <2> QED BY <2>2, ThenOrder DEF OrderThen
<1> QED BY <1>1, <1>2, <1>3

\* A step that replaces the job at i by new, with os outstanding then, and tells
\* its client alone: what it says is right, and new is in order with it.
TellsOne(i, new, os) ==
    \A s \in Sessions : Listening(s) =>
        LET now == EndOf(Soon(s), DueOf(outbox', s)) IN
        /\ Right(s, sent[s], reader[s], Soon(s), DueOf(outbox', s))
        /\ s # active[i].session => now = Soon(s)
        /\ s = active[i].session => Order(new, os, now)

\* A VAD window is dispatched.
LEMMA VadTellsOne ==
  ASSUME TypeInv, TypeInv', JobsOK, WorkInv, OrderInv, SelectReady,
         NEW i \in DOMAIN active, NEW w, VadSent(w, i), NEW n, n.item = VadTask(active[i]),
         NEW os, os = Of(Outstanding, active[i].id)
  PROVE  TellsOne(i, [active[i] EXCEPT !.vadBusy = TRUE], os \cup {n})
<1>1. PICK job : job = active[i]
  OBVIOUS
<1>2. PICK new : new = [job EXCEPT !.vadBusy = TRUE]
  OBVIOUS
<1>3. job \in Jobs /\ pc # "clear" /\ outbox = <<>>
  BY <1>1, SchedulerValues DEF TypeInv, SelectReady, At
<1>4. new \in Jobs /\ SameOrder(job, new) /\ new.offset = job.offset
  <2>1. new \in Jobs
    BY <1>2, <1>3, JobFlags
  <2>2. /\ new.id = job.id /\ new.session = job.session
        /\ new.nextResult = job.nextResult /\ new.nextWindow = job.nextWindow
        /\ new.pending = job.pending /\ new.offset = job.offset
    BY <1>2, <1>3 DEF Jobs
  <2> QED BY <2>1, <2>2 DEF SameOrder
<1>5. n.item.kind = "vad"
  BY DEF VadTask
<1>6. ASSUME NEW s \in Sessions, Listening(s)
      PROVE  LET now == EndOf(Soon(s), DueOf(outbox', s)) IN
             /\ Right(s, sent[s], reader[s], Soon(s), DueOf(outbox', s))
             /\ s # job.session => now = Soon(s)
             /\ s = job.session => Order(new, os \cup {n}, now)
  <2>1. /\ Right(s, sent[s], reader[s], Soon(s), DueOf(outbox', s))
        /\ EndOf(Soon(s), DueOf(outbox', s)) = Soon(s)
    BY <1>3, VadIsNotTold
  <2>2. PICK told : told = Soon(s)
    OBVIOUS
  <2>3. Told(s) = told
    BY <1>3, <2>2, AtRest
  <2>4. s = job.session => Order(job, os, told)
    BY <1>1, <1>3, <1>6, <2>3 DEF OrderInv, OutstandingFor, Of
  <2>5. s = job.session => Order(new, os \cup {n}, told)
    BY <1>3, <1>4, <1>5, <2>4, OrderOfOthers
  <2> QED BY <2>1, <2>2, <2>5
<1> QED BY <1>1, <1>2, <1>6 DEF TellsOne

\* A window is dispatched, after the events of the speech in it.
LEMMA WindowTellsOne ==
  ASSUME TypeInv, TypeInv', JobsOK, WorkInv, OrderInv, SelectReady,
         NEW i \in DOMAIN active, NEW w \in Workers, NEW plan, WindowSent(w, i, plan),
         NEW n, n.item = WhisperTask(active[i], plan),
         NEW os, os = Of(Outstanding, active[i].id)
  PROVE  TellsOne(i, AfterDispatch(active[i], plan), os \cup {n})
<1>1. PICK job : job = active[i]
  OBVIOUS
<1>3. /\ job \in Jobs /\ JobOK(job) /\ pc # "clear" /\ outbox = <<>>
      /\ PlanOK(job, plan)
  <2>1. job \in Jobs /\ JobOK(job) /\ pc # "clear" /\ outbox = <<>>
    BY <1>1, SchedulerValues DEF TypeInv, JobsOK, SelectReady, At
  <2> QED BY <1>1, <2>1, DispatchPlanOK DEF WindowSent
<1>4. Suits(job, os) /\ \A o \in os : Whisper(o) => o.item \in WhisperTasks
  BY <1>1, OutstandingTyped DEF WorkInv, OutstandingFor, Of
<1>6. ASSUME NEW s \in Sessions, Listening(s)
      PROVE  LET now == EndOf(Soon(s), DueOf(outbox', s)) IN
             /\ Right(s, sent[s], reader[s], Soon(s), DueOf(outbox', s))
             /\ s # job.session => now = Soon(s)
             /\ s = job.session => Order(AfterDispatch(job, plan), os \cup {n}, now)
  <2>2. PICK told : told = Soon(s)
    OBVIOUS
  <2>3. Told(s) = told /\ told \in Hearings
    BY <1>3, <2>2, AtRest
  <2>4. s = job.session => Order(job, os, told)
    BY <1>1, <1>3, <1>6, <2>3 DEF OrderInv, OutstandingFor, Of
  <2>5. s = active[i].session /\ HasVad => Soon(s).speech <= active[i].offset
    BY <1>1, <2>2, <2>4 DEF Order
  <2>6. PICK now : now = EndOf(Soon(s), DueOf(outbox', s))
    OBVIOUS
  <2>7. /\ Right(s, sent[s], reader[s], Soon(s), DueOf(outbox', s)) /\ now \in Hearings
        /\ s # job.session => now = told
        /\ s = job.session =>
              /\ now.upTo = told.upTo
              /\ now.speech = IF HasVad THEN job.offset + plan.end ELSE told.speech
    BY <1>1, <1>3, <2>2, <2>5, <2>6, WindowIsTold
  <2>8. s = job.session => Order(AfterDispatch(job, plan), os \cup {n}, now)
    BY <1>1, <1>3, <1>4, <2>3, <2>4, <2>7, OrderMore
  <2> QED BY <2>2, <2>6, <2>7, <2>8
<1> QED BY <1>1, <1>6 DEF TellsOne

\* A step that tells the client of one job, and gives that job another value.
LEMMA OneIsTold ==
  ASSUME TypeInv, JobsOK, IdInv, WorkInv, ToldInv, OrderInv, SelectReady \/ SelectResult,
         NEW i \in DOMAIN active, NEW new \in Jobs, JobOK(new), Replaces(i, new),
         new.id = active[i].id, new.session = active[i].session,
         NEW os, TellsOne(i, new, os), Suits(new, os),
         \A o \in os : Whisper(o) => o.item \in WhisperTasks,
         Carried(os, Of(Outstanding', new.id)),
         \A k \in DOMAIN active : k # i =>
            Carried(Of(Outstanding, active[k].id), Of(Outstanding', active[k].id))
  PROVE  ToldInv' /\ OrderInv'
<1>1. /\ sessionVars' = sessionVars /\ pc = "select" /\ outbox = <<>>
      /\ \A k \in DOMAIN active : active[k] \in Jobs /\ JobOK(active[k])
                                  /\ active[k].session \in Sessions
      /\ active \in Seq(Jobs)
  BY SchedulerValues DEF TypeInv, JobsOK, SelectReady, SelectResult, At
<1>2. \A s \in Sessions : /\ Still(s) /\ respQ'[s] = respQ[s]
                          /\ phase'[s] \in {"live", "joining"} => Listening(s)
  BY <1>1 DEF sessionVars, Still, Listening
<1>3. ASSUME NEW s \in Sessions
      PROVE  Then(s) /\ ToldThen(s) = EndOf(Soon(s), DueOf(outbox', s))
  BY <1>2, StillTells DEF TellsOne
<1>4. ToldInv'
  BY <1>3, ThenTold
<1>5. /\ DOMAIN active' = DOMAIN active /\ active'[i] = new
      /\ \A k \in DOMAIN active : k # i => active'[k] = active[k]
  <2> HIDE DEF Jobs
  <2> QED BY <1>1, Exchanged DEF Replaces
<1>6. ASSUME NEW j \in DOMAIN active', phase'[active'[j].session] \in {"live", "joining"}
      PROVE  Order(active'[j], Of(Outstanding', active'[j].id), ToldThen(active'[j].session))
  <2>1. CASE j = i
    <3>1. PICK s \in Sessions : s = new.session
      BY <1>1
    <3>2. PICK told : told = ToldThen(s)
      OBVIOUS
    <3>3. Listening(s) /\ told \in Hearings
      <4>1. Listening(s)
        BY <1>2, <1>5, <1>6, <2>1, <3>1
      <4>2. TypeInv'
        BY SelectReadyTyped, SelectResultTyped
      <4>3. Told(s)' \in Hearings
        BY <4>2, ToldTypes
      <4> QED BY <3>2, <4>1, <4>3, ToldThenIs
    <3>4. Order(new, os, told)
      BY <1>3, <3>1, <3>2, <3>3 DEF TellsOne
    <3>5. SameOrder(new, new)
      BY DEF SameOrder
    <3>6. Order(new, Of(Outstanding', new.id), told)
      BY <3>3, <3>4, <3>5, OrderCarried
    <3> QED BY <1>5, <2>1, <3>1, <3>2, <3>6
  <2>2. CASE j # i
    <3>1. PICK job : job = active[j] /\ active'[j] = job /\ j \in DOMAIN active
      BY <1>5, <2>2
    <3>2. PICK s \in Sessions : s = job.session
      BY <1>1, <3>1
    <3>3. Listening(s) /\ s # active[i].session
      BY <1>2, <1>6, <2>2, <3>1, <3>2 DEF IdInv
    <3>4. PICK told : told = ToldThen(s)
      OBVIOUS
    <3>5. told = Soon(s) /\ told = Told(s) /\ told \in Hearings
      BY <1>1, <1>3, <3>3, <3>4, AtRest DEF TellsOne
    <3>6. Order(job, Of(Outstanding, job.id), told)
      BY <1>1, <3>1, <3>2, <3>3, <3>5 DEF OrderInv, OutstandingFor, Of
    <3>7. Suits(job, Of(Outstanding, job.id))
          /\ \A o \in Of(Outstanding, job.id) : Whisper(o) => o.item \in WhisperTasks
      BY <3>1, OutstandingTyped DEF WorkInv, OutstandingFor, Of
    <3>8. job \in Jobs /\ JobOK(job) /\ SameOrder(job, job)
          /\ Carried(Of(Outstanding, job.id), Of(Outstanding', job.id))
      BY <1>1, <2>2, <3>1 DEF SameOrder
    <3>9. Order(job, Of(Outstanding', job.id), told)
      BY <3>5, <3>6, <3>7, <3>8, OrderCarried
    <3> QED BY <3>1, <3>2, <3>4, <3>9
  <2> QED BY <2>1, <2>2
<1>7. OrderThen
  BY <1>6 DEF OrderThen
<1> QED BY <1>4, <1>7, ThenOrder

\* A worker is given something, and the client its speech events.
LEMMA ReadyTells ==
  ASSUME TypeInv, TypeInv', JobsOK, JobsOK', IdInv, WorkInv, WorkInv', ToldInv, OrderInv,
         SelectReady
  PROVE  ToldInv' /\ OrderInv'
<1>1. PICK i \in DOMAIN active :
        VadSent(Head(readyQ), i) \/ \E plan : WindowSent(Head(readyQ), i, plan)
  BY SelectReadyEffect DEF TypeInv
<1>2. PICK n : /\ Outstanding' = Outstanding \cup {n} /\ n \notin Outstanding
               /\ \/ VadSent(Head(readyQ), i) /\ n.item = VadTask(active[i])
                  \/ \E plan : /\ WindowSent(Head(readyQ), i, plan)
                               /\ n.item = WhisperTask(active[i], plan)
  BY <1>1, ReadyAdds
<1>3. PICK w \in Workers : w = Head(readyQ)
  BY Taken DEF TypeInv, WorkersTyped, SelectReady
<1>4. PICK job : job = active[i]
  OBVIOUS
<1>5. PICK os : os = Of(Outstanding, job.id)
  OBVIOUS
<1>6. job \in Jobs /\ JobOK(job) /\ active \in Seq(Jobs)
  BY <1>4, SchedulerValues DEF TypeInv, JobsOK
<1>7. PICK new : /\ Replaces(i, new) /\ new.id = job.id /\ new.session = job.session
                 /\ n.item.job = job.id /\ TellsOne(i, new, os \cup {n})
  <2>1. CASE VadSent(w, i) /\ n.item = VadTask(job)
    <3> DEFINE new == [job EXCEPT !.vadBusy = TRUE]
    <3>1. Replaces(i, new)
      BY <1>4, <2>1 DEF VadSent
    <3>2. new.id = job.id /\ new.session = job.session
      BY <1>6 DEF Jobs
    <3>3. n.item.job = job.id
      BY <2>1 DEF VadTask
    <3>4. TellsOne(i, new, os \cup {n})
      BY <1>4, <1>5, <2>1, VadTellsOne
    <3> HIDE DEF new
    <3> QED BY <3>1, <3>2, <3>3, <3>4
  <2>2. ASSUME NEW plan, WindowSent(w, i, plan), n.item = WhisperTask(job, plan)
        PROVE  \E new : /\ Replaces(i, new) /\ new.id = job.id /\ new.session = job.session
                        /\ n.item.job = job.id /\ TellsOne(i, new, os \cup {n})
    <3> DEFINE new == AfterDispatch(job, plan)
    <3>1. Replaces(i, new)
      BY <1>4, <2>2 DEF WindowSent
    <3>2. new.id = job.id /\ new.session = job.session
      BY <1>6 DEF Jobs, AfterDispatch
    <3>3. n.item.job = job.id
      BY <2>2 DEF WhisperTask
    <3>4. TellsOne(i, new, os \cup {n})
      BY <1>4, <1>5, <2>2, WindowTellsOne
    <3> HIDE DEF new
    <3> QED BY <3>1, <3>2, <3>3, <3>4
  <2> QED BY <1>2, <1>3, <1>4, <2>1, <2>2
<1>8. DOMAIN active' = DOMAIN active /\ active'[i] = new
  BY <1>6, <1>7 DEF Replaces
<1>9. new \in Jobs /\ JobOK(new)
  <2>1. active' \in Seq(Jobs)
    BY DEF TypeInv, SchedulerTyped
  <2>2. \A k \in DOMAIN active' : JobOK(active'[k])
    BY DEF JobsOK, JobOK, Decisions
  <2>3. new \in Jobs
    <3> HIDE DEF Jobs
    <3> QED BY <1>8, <2>1, LenProperties, ElementOfSeq
  <2> QED BY <1>8, <2>2, <2>3
<1>10. Of(Outstanding', new.id) = os \cup {n}
  BY <1>2, <1>5, <1>7 DEF Of
<1>11. Suits(new, os \cup {n}) /\ \A o \in os \cup {n} : Whisper(o) => o.item \in WhisperTasks
  <2>1. Suits(active'[i], Of(Outstanding', active'[i].id))
    BY <1>8 DEF WorkInv, OutstandingFor, Of, Suits, Whisper, Vad, WhisperOwn, VadOwn
  <2>2. \A o \in Outstanding' : Whisper(o) => o.item \in WhisperTasks
    BY <1>2, <1>4, <1>6, OutstandingTyped, WhisperTaskTyped, DispatchPlanOK
       DEF VadTask, Whisper, WindowSent
  <2> QED BY <1>8, <1>10, <2>1, <2>2 DEF Of
<1>12. \A k \in DOMAIN active : k # i =>
          Of(Outstanding', active[k].id) = Of(Outstanding, active[k].id)
  BY <1>2, <1>4, <1>7 DEF Of, IdInv
<1> QED BY <1>4, <1>7, <1>9, <1>10, <1>11, <1>12, CarriedSame, OneIsTold

\* Nothing is said.
LEMMA NothingIsTold ==
  ASSUME TypeInv, outbox = <<>>, outbox' = <<>>, NEW s \in Sessions
  PROVE  /\ Right(s, sent[s], reader[s], Soon(s), DueOf(outbox', s))
         /\ EndOf(Soon(s), DueOf(outbox', s)) = Soon(s)
<1>1. outbox' \in Seq(Messages) /\ Soon(s) \in Hearings
  BY AtRest
<1>2. DOMAIN outbox' = {}
  OBVIOUS
<1> QED BY <1>1, <1>2, Silence

\* A result is taken: of a VAD window, or of one whose text can be delivered now
\* with that of the windows that waited for it, or of no job that is active.
LEMMA ResultTellsOne ==
  ASSUME TypeInv, TypeInv', JobsOK, IdInv, WorkInv, OrderInv, SelectResult,
         NEW i \in DOMAIN active, active[i].id = Head(resultQ).job,
         outbox' = IF Head(resultQ).kind = "vad" THEN <<>>
                   ELSE ToSessions(active[i].session,
                                   SegmentResponses(Deliverable(active[i], Head(resultQ)))),
         NEW h, h = ResultItem(1, Head(resultQ)),
         NEW new, new = ApplyResult(active[i], Head(resultQ)),
         NEW os, os = Of(Outstanding, active[i].id)
  PROVE  /\ TellsOne(i, new, os \ {h}) /\ Suits(new, os \ {h})
         /\ new.id = active[i].id /\ new.session = active[i].session
<1>1. PICK job : job = active[i]
  OBVIOUS
<1>2. PICK r : r = Head(resultQ)
  OBVIOUS
<1>3. /\ job \in Jobs /\ JobOK(job) /\ pc # "clear" /\ outbox = <<>> /\ resultQ # <<>>
      /\ r.kind # "error"
  BY <1>1, <1>2, SchedulerValues DEF TypeInv, JobsOK, SelectResult, At
<1>4. h \in Outstanding /\ h.item = r /\ h \in os
  <2>1. h \in Outstanding /\ h.item = r
    BY <1>2, ResultRemoved DEF ResultItem
  <2> QED BY <1>1, <1>2, <2>1 DEF Of
<1>5. /\ Suits(job, os) /\ IsFiniteSet(os)
      /\ \A o \in os : Whisper(o) => o.item \in WhisperTasks /\ o.item.index \in Nat
  <2>1. Suits(job, os) /\ os \subseteq Outstanding
    BY <1>1 DEF WorkInv, OutstandingFor, Of
  <2>2. IsFiniteSet(os)
    BY <2>1, FS_Subset DEF WorkInv
  <2> QED BY <2>1, <2>2, OutstandingTyped, WhisperFields
<1>6. r \in AllResults /\ r.kind \in {"whisper", "vad"}
  BY <1>2, <1>3, HeadIsOutstanding, ResultKinds DEF TypeInv
<1>7. ASSUME NEW s \in Sessions, Listening(s)
      PROVE  /\ Told(s) = Soon(s) /\ Soon(s) \in Hearings
             /\ s = job.session => Order(job, os, Soon(s))
  <2>1. Told(s) = Soon(s) /\ Soon(s) \in Hearings
    BY <1>3, AtRest
  <2> QED BY <1>1, <1>3, <1>7, <2>1 DEF OrderInv, OutstandingFor, Of
<1>8. CASE r.kind = "vad"
  <2>1. Vad(h) /\ new = HandleVadResult(job, h.item)
    BY <1>1, <1>2, <1>4, <1>8 DEF Vad, ApplyResult
  <2>2. /\ new.id = job.id /\ new.session = job.session
        /\ new.nextResult = job.nextResult /\ new.nextWindow = job.nextWindow
        /\ new.pending = job.pending /\ new.offset = job.offset
    BY <1>3, <2>1 DEF HandleVadResult, Jobs
  <2>3. Suits(new, os \ {h})
    <3>1. Suits(HandleVadResult(job, h.item), os \ {h})
      BY <1>3, <1>4, <1>5, <2>1, VadRemoved
    <3> QED BY <2>1, <3>1
  <2>4. new \in Jobs /\ SameOrder(job, new)
    BY <1>1, <1>2, <1>3, <2>2, ApplyResultOK DEF TypeInv, SameOrder
  <2>5. outbox' = <<>>
    BY <1>2, <1>8
  <2>6. ASSUME NEW s \in Sessions, Listening(s)
        PROVE  LET now == EndOf(Soon(s), DueOf(outbox', s)) IN
               /\ Right(s, sent[s], reader[s], Soon(s), DueOf(outbox', s))
               /\ s # job.session => now = Soon(s)
               /\ s = job.session => Order(new, os \ {h}, now)
    <3>1. /\ Right(s, sent[s], reader[s], Soon(s), DueOf(outbox', s))
          /\ EndOf(Soon(s), DueOf(outbox', s)) = Soon(s)
      BY <1>3, <2>5, NothingIsTold
    <3>2. PICK told : told = Soon(s)
      OBVIOUS
    <3>3. s = job.session => Order(job, os, told)
      BY <1>7, <2>6, <3>2
    <3>4. h.item.kind = "vad"
      BY <1>4, <1>8
    <3>5. s = job.session => Order(new, os \ {h}, told)
      BY <1>3, <2>2, <2>4, <3>3, <3>4, OrderOfOthers
    <3> QED BY <3>1, <3>2, <3>5
  <2> QED BY <1>1, <2>2, <2>3, <2>6 DEF TellsOne
<1>9. CASE r.kind = "whisper"
  <2>1. Whisper(h) /\ new = HandleResult(job, h.item) /\ h.item \in WhisperTasks
    BY <1>1, <1>2, <1>4, <1>5, <1>9 DEF Whisper, ApplyResult
  <2>2. new.id = job.id /\ new.session = job.session
    BY <1>3, <2>1, HandledFields
  <2>3. Suits(new, os \ {h})
    <3>1. Suits(HandleResult(job, h.item), os \ {h})
      BY <1>3, <1>4, <1>5, <2>1, WindowRemoved
    <3> QED BY <2>1, <3>1
  <2>4. PICK next : next = Deliverable(job, h.item)
    OBVIOUS
  <2>5. outbox' = ToSessions(job.session, SegmentResponses(next))
    BY <1>1, <1>2, <1>4, <1>9, <2>4
  <2>6. ASSUME NEW s \in Sessions, Listening(s)
        PROVE  LET now == EndOf(Soon(s), DueOf(outbox', s)) IN
               /\ Right(s, sent[s], reader[s], Soon(s), DueOf(outbox', s))
               /\ s # job.session => now = Soon(s)
               /\ s = job.session => Order(new, os \ {h}, now)
    <3>1. PICK told : told = Soon(s)
      OBVIOUS
    <3>2. PICK now : now = EndOf(Soon(s), DueOf(outbox', s))
      OBVIOUS
    <3>3. told \in Hearings /\ (s = job.session => Order(job, os, told))
      BY <1>7, <2>6, <3>1
    <3>4. s = active[i].session => Order(active[i], Of(Outstanding, active[i].id), Soon(s))
      BY <1>1, <3>1, <3>3
    <3>5. /\ h \in Of(Outstanding, active[i].id) /\ next = Deliverable(active[i], h.item)
          /\ outbox' = ToSessions(active[i].session, SegmentResponses(next))
      BY <1>1, <1>4, <2>4, <2>5
    <3>6. /\ Right(s, sent[s], reader[s], Soon(s), DueOf(outbox', s)) /\ now \in Hearings
          /\ s # job.session => now = told
          /\ s = job.session =>
               /\ now.speech = told.speech
               /\ now.upTo = IF Len(next) = 0 THEN told.upTo ELSE next[Len(next)].to
      BY <1>1, <1>3, <2>1, <3>1, <3>2, <3>4, <3>5, ResultIsTold
    <3>7. s = job.session => Order(new, os \ {h}, now)
      <4>1. CASE s = job.session
        <5>1. /\ now.speech = told.speech
              /\ now.upTo = IF Len(next) = 0 THEN told.upTo ELSE next[Len(next)].to
          BY <3>6, <4>1
        <5>2. Order(HandleResult(job, h.item), os \ {h}, now)
          BY <1>3, <1>4, <1>5, <2>1, <2>4, <3>3, <4>1, <5>1, OrderLess
        <5> QED BY <2>1, <5>2
      <4> QED BY <4>1
    <3> QED BY <3>1, <3>2, <3>6, <3>7
  <2> QED BY <1>1, <2>2, <2>3, <2>6 DEF TellsOne
<1> QED BY <1>6, <1>8, <1>9

\* The same for every result that is taken.
LEMMA ResultTells ==
  ASSUME TypeInv, TypeInv', JobsOK, JobsOK', IdInv, WorkInv, ToldInv, OrderInv, SelectResult
  PROVE  ToldInv' /\ OrderInv'
<1>1. PICK r : r = Head(resultQ)
  OBVIOUS
<1>2. PICK h : h = ResultItem(1, r)
  OBVIOUS
<1>3. Carried(Outstanding \ {h}, Outstanding') /\ h \in Outstanding /\ h.item = r
  BY <1>1, <1>2, ResultRemoved DEF ResultItem
<1>4. \A k \in DOMAIN active :
        /\ active[k] \in Jobs /\ JobOK(active[k])
        /\ Carried(LeftOf(h, active[k].id), Of(Outstanding', active[k].id))
        /\ active[k].id # r.job => LeftOf(h, active[k].id) = Of(Outstanding, active[k].id)
        /\ Suits(active[k], Of(Outstanding, active[k].id))
  <2> SUFFICES ASSUME NEW k \in DOMAIN active
               PROVE  /\ active[k] \in Jobs /\ JobOK(active[k])
                      /\ Carried(LeftOf(h, active[k].id), Of(Outstanding', active[k].id))
                      /\ active[k].id # r.job =>
                            LeftOf(h, active[k].id) = Of(Outstanding, active[k].id)
                      /\ Suits(active[k], Of(Outstanding, active[k].id))
    OBVIOUS
  <2>1. active[k] \in Jobs /\ JobOK(active[k])
    BY SchedulerValues DEF TypeInv, JobsOK
  <2>2. Carried(LeftOf(h, active[k].id), Of(Outstanding', active[k].id))
    BY <1>3, CarriedOf DEF LeftOf
  <2>3. active[k].id # r.job => LeftOf(h, active[k].id) = Of(Outstanding, active[k].id)
    BY <1>3, LeftForOthers
  <2>4. Suits(active[k], Of(Outstanding, active[k].id))
    BY DEF WorkInv, OutstandingFor, Of
  <2> QED BY <2>1, <2>2, <2>3, <2>4
<1>5. \A o \in Outstanding : Whisper(o) => o.item \in WhisperTasks
  BY OutstandingTyped
<1>6. active \in Seq(Jobs) /\ outbox = <<>> /\ pc # "clear"
  BY DEF TypeInv, SchedulerTyped, SelectResult, At
<1>7. CASE active' = active /\ outbox' = <<>> /\ \A k \in DOMAIN active : active[k].id # r.job
  <2>1. PICK i \in DOMAIN active : TRUE
    BY DEF SelectResult, AwaitingResults
  <2>2. PICK job : job = active[i]
    OBVIOUS
  <2>3. PICK os : os = Of(Outstanding, job.id)
    OBVIOUS
  <2>4. Replaces(i, job)
    BY <1>6, <1>7, <2>2 DEF Replaces
  <2>5. TellsOne(i, job, os)
    <3> SUFFICES ASSUME NEW s \in Sessions, Listening(s)
                 PROVE  /\ Right(s, sent[s], reader[s], Soon(s), DueOf(outbox', s))
                        /\ EndOf(Soon(s), DueOf(outbox', s)) = Soon(s)
                        /\ s = job.session => Order(job, os, Soon(s))
      BY <2>2 DEF TellsOne
    <3>1. Told(s) = Soon(s)
      BY <1>6, AtRest
    <3>2. s = job.session => Order(job, os, Soon(s))
      BY <1>6, <2>2, <2>3, <3>1 DEF OrderInv, OutstandingFor, Of
    <3> QED BY <1>6, <1>7, <3>2, NothingIsTold
  <2>6. Suits(job, os) /\ \A o \in os : Whisper(o) => o.item \in WhisperTasks
    BY <1>4, <1>5, <2>2, <2>3 DEF Of
  <2>7. job \in Jobs /\ JobOK(job) /\ Carried(os, Of(Outstanding', job.id))
    BY <1>4, <1>7, <2>2, <2>3
  <2>8. \A k \in DOMAIN active : Carried(Of(Outstanding, active[k].id), Of(Outstanding', active[k].id))
    BY <1>4, <1>7
  <2> QED BY <2>2, <2>4, <2>5, <2>6, <2>7, <2>8, OneIsTold
<1>8. ASSUME NEW i \in DOMAIN active, active[i].id = r.job,
             Replaces(i, ApplyResult(active[i], r)),
             outbox' = IF r.kind = "vad" THEN <<>>
                       ELSE ToSessions(active[i].session,
                                       SegmentResponses(Deliverable(active[i], r)))
      PROVE  ToldInv' /\ OrderInv'
  <2>1. PICK new : new = ApplyResult(active[i], r)
    OBVIOUS
  <2>2. PICK os : os = Of(Outstanding, active[i].id)
    OBVIOUS
  <2>3. /\ TellsOne(i, new, os \ {h}) /\ Suits(new, os \ {h})
        /\ new.id = active[i].id /\ new.session = active[i].session
    BY <1>1, <1>2, <1>8, <2>1, <2>2, ResultTellsOne
  <2>4. Replaces(i, new)
    BY <1>8, <2>1
  <2>5. new \in Jobs /\ JobOK(new)
    BY <1>1, <1>8, <2>1, ApplyResultOK DEF TypeInv, SelectResult
  <2>6. LeftOf(h, active[i].id) = os \ {h}
    BY <2>2 DEF LeftOf, Of
  <2>7. Carried(os \ {h}, Of(Outstanding', new.id))
    BY <1>4, <2>3, <2>6
  <2>8. \A o \in os \ {h} : Whisper(o) => o.item \in WhisperTasks
    BY <1>5, <2>2 DEF Of
  <2>9. \A k \in DOMAIN active : k # i => active[k].id # r.job
    BY <1>8 DEF IdInv
  <2>10. \A k \in DOMAIN active : k # i =>
            Carried(Of(Outstanding, active[k].id), Of(Outstanding', active[k].id))
    BY <1>4, <2>9
  <2>11. PICK left : left = os \ {h}
    OBVIOUS
  <2> QED BY <2>3, <2>4, <2>5, <2>7, <2>8, <2>10, <2>11, OneIsTold
<1> QED BY <1>1, <1>7, <1>8, SelectResultEffect DEF TypeInv, IdInv

-----------------------------------------------------------------------------
(* The invariant holds, and with it what the clients are promised. *)

IInv == CoreInv /\ ToldInv /\ OrderInv

\* Nothing has been said at first.
LEMMA InitTold == Init => ToldInv /\ OrderInv
<1> SUFFICES ASSUME Init PROVE ToldInv /\ OrderInv
  OBVIOUS
<1>1. OrderInv
  BY DEF Init, OrderInv
<1>2. ASSUME NEW s \in Sessions PROVE SaidNow(s) /\ DueRight(s)
  <2>1. /\ heard[s] = [from |-> 0, upTo |-> 0, speech |-> 0] /\ respQ[s] = <<>>
        /\ final[s] = "none" /\ phase[s] = "new"
    BY <1>2 DEF Init, SessionsInit
  <2>2. Right(s, sent[s], reader[s], heard[s], respQ[s])
    BY <2>1 DEF Right
  <2> QED BY <2>1, <2>2 DEF SaidNow, SaidRight, DueRight, Listening
<1> QED BY <1>1, <1>2 DEF ToldInv

\* Every step keeps what clients are told right, and the windows in order.
LEMMA StepTold == IInv /\ [Next]_vars => ToldInv' /\ OrderInv'
<1> SUFFICES ASSUME IInv, [Next]_vars PROVE ToldInv' /\ OrderInv'
  OBVIOUS
<1>1. /\ TypeInv /\ JobsOK /\ TokenInv /\ IdInv /\ PhaseInv /\ AudioInv /\ WorkInv /\ CountInv
      /\ ToldInv /\ OrderInv
  BY DEF IInv, CoreInv
<1>2. CoreInv'
  BY StepCore DEF IInv
<1>3. TypeInv' /\ JobsOK' /\ WorkInv'
  BY <1>2 DEF CoreInv
<1>4. CASE SelectReady
  BY <1>1, <1>3, <1>4, ReadyTells
<1>5. CASE SelectResult
  BY <1>1, <1>3, <1>5, ResultTells
<1>6. CASE ~SelectReady /\ ~SelectResult
  <2>1. OrderInv'
    BY <1>1, <1>3, <1>6, QuietOrder
  <2>2. \A s \in Sessions : Then(s)
    BY <1>1, <1>3, <1>6, ToldStep
  <2> QED BY <2>1, <2>2, ThenTold
<1> QED BY <1>4, <1>5, <1>6

\* The whole invariant holds in every state of every run of the scheduler.
THEOREM LiveInvariance == Spec => []IInv
<1>1. Init => IInv
  BY InitCore, InitTold DEF IInv
<1>2. IInv /\ [Next]_vars => IInv'
  BY StepCore, StepTold DEF IInv
<1> QED BY <1>1, <1>2, PTL DEF Spec

\* Each thing a client hears next follows what it has heard until then.
LEMMA AllFollow ==
  ASSUME TypeInv, ToldInv, NEW s \in Sessions
  PROVE  /\ DOMAIN Due(s) = DOMAIN outbox
         /\ \A i \in DOMAIN respQ[s] :
              Follows(s, sent[s], reader[s], Telling(heard[s], respQ[s])[i - 1], respQ[s][i])
         /\ Listening(s) => \A i \in DOMAIN outbox :
              Follows(s, sent[s], reader[s],
                      Telling(Telling(heard[s], respQ[s])[Len(respQ[s])], Due(s))[i - 1],
                      Due(s)[i])
<1>1. SaidNow(s) /\ DueRight(s)
  BY DEF ToldInv
<1>2. Right(s, sent[s], reader[s], heard[s], respQ[s])
      /\ (Listening(s) => Right(s, sent[s], reader[s], Soon(s), Due(s)))
  BY <1>1 DEF SaidNow, SaidRight, DueRight
<1>3. Soon(s) = Telling(heard[s], respQ[s])[Len(respQ[s])]
  BY DEF Soon, EndOf
<1>4. DOMAIN Due(s) = DOMAIN outbox
  BY DEF Due
<1> QED BY <1>2, <1>3, <1>4 DEF Right

\* The text in a session's queue, and in the outbox for it, is of its own audio
\* and carries the offset at which that audio began: TextIsOwn.
THEOREM LiveTextIsOwn == Spec => []TextIsOwn
<1>1. IInv => TextIsOwn
  <2> SUFFICES ASSUME IInv, NEW s \in Sessions
               PROVE  /\ \A i \in DOMAIN respQ[s] :
                            respQ[s][i].kind = "segment" =>
                                respQ[s][i].session = s /\ respQ[s][i].begin = respQ[s][i].from
                      /\ Listening(s) => \A i \in DOMAIN outbox :
                            Due(s)[i].kind = "segment" =>
                                Due(s)[i].session = s /\ Due(s)[i].begin = Due(s)[i].from
    BY DEF TextIsOwn
  <2>1. TypeInv /\ ToldInv
    BY DEF IInv, CoreInv
  <2> QED BY <2>1, AllFollow DEF Follows
<1> QED BY <1>1, LiveInvariance, PTL

\* With voice detection no text comes before the event of the speech it is of,
\* and at its end a session has had the text of all its speech: SpeechComesFirst.
THEOREM LiveSpeechComesFirst == Spec => []SpeechComesFirst
<1>1. IInv => SpeechComesFirst
  <2> DEFINE In(h, r) == /\ r.kind = "segment" => r.to <= h.speech
                         /\ r.kind = "speech" => h.speech <= r.at
  <2> SUFFICES ASSUME IInv, HasVad, NEW s \in Sessions
               PROVE  /\ heard[s].upTo <= heard[s].speech
                      /\ \A i \in DOMAIN respQ[s] :
                            In(Telling(heard[s], respQ[s])[i - 1], respQ[s][i])
                      /\ Listening(s) => \A i \in DOMAIN outbox :
                            In(Telling(Telling(heard[s], respQ[s])[Len(respQ[s])], Due(s))[i - 1],
                               Due(s)[i])
                      /\ final[s] \in {"done", "cancelled"} => heard[s].upTo = heard[s].speech
    BY DEF SpeechComesFirst
  <2>1. TypeInv /\ ToldInv
    BY DEF IInv, CoreInv
  <2>2. SaidNow(s)
    BY <2>1 DEF ToldInv
  <2>3. heard[s].upTo <= heard[s].speech
        /\ (final[s] \in {"done", "cancelled"} => heard[s].upTo = heard[s].speech)
    BY <2>2 DEF SaidNow, SaidRight, HeardAll
  <2>4. \A n, rd, h, r : Follows(s, n, rd, h, r) => In(h, r)
    BY DEF Follows
  <2> HIDE DEF In
  <2> QED BY <2>1, <2>3, <2>4, AllFollow
<1> QED BY <1>1, LiveInvariance, PTL

-----------------------------------------------------------------------------
(* The scheduler, its sessions and its workers implement the promise of    *)
(* Transcription, which is written out here with what stands for its       *)
(* variables.                                                              *)

\* The stretch whose text the client of a session was sent last, and how the
\* session ended.
Stretches == [s \in Sessions |-> [from |-> heard[s].from, to |-> heard[s].upTo]]
Outcomes  == [s \in Sessions |-> IF final[s] \in {"ok", "err"} THEN "none" ELSE final[s]]

PromiseInit ==
    /\ sent = [s \in Sessions |-> 0]
    /\ Stretches = [s \in Sessions |-> [from |-> 0, to |-> 0]]
    /\ Outcomes = [s \in Sessions |-> "none"]

PromiseAccept(s) ==
    /\ sent'[s] > sent[s] /\ Outcomes[s] = "none"
    /\ sent' = [sent EXCEPT ![s] = sent'[s]]
    /\ UNCHANGED <<Stretches, Outcomes>>

PromiseDeliver(s) ==
    /\ Stretches'[s].from < Stretches'[s].to /\ Stretches'[s].to <= sent[s]
    /\ IF HasVad THEN Stretches'[s].from >= Stretches[s].to
                 ELSE Stretches'[s].from = Stretches[s].to
    /\ Outcomes[s] = "none"
    /\ Stretches' = [Stretches EXCEPT ![s] = Stretches'[s]]
    /\ UNCHANGED <<sent, Outcomes>>

PromiseEnd(s) ==
    /\ Outcomes[s] = "none" /\ Outcomes'[s] \in {"done", "cancelled", "error"}
    /\ (Outcomes'[s] # "error" /\ ~HasVad) => Stretches[s].to = sent[s]
    /\ Outcomes' = [Outcomes EXCEPT ![s] = Outcomes'[s]]
    /\ UNCHANGED <<sent, Stretches>>

PromiseStep ==
    \/ \E s \in Sessions : PromiseAccept(s) \/ PromiseDeliver(s) \/ PromiseEnd(s)
    \/ UNCHANGED <<sent, Stretches, Outcomes>>

\* The two ways to write the promise agree.
LEMMA PromiseUnfolds ==
  /\ PromiseInit <=> Promise!TranscriptionInit
  /\ PromiseStep <=> [Promise!TranscriptionNext]_(Promise!transcriptionVars)
<1>1. PromiseInit <=> Promise!TranscriptionInit
  BY DEF PromiseInit, Stretches, Outcomes, Promise!TranscriptionInit
<1>2. PromiseStep <=> [Promise!TranscriptionNext]_(Promise!transcriptionVars)
  BY DEF PromiseStep, PromiseAccept, PromiseDeliver, PromiseEnd, Stretches, Outcomes,
         Promise!TranscriptionNext, Promise!transcriptionVars, Promise!Accept,
         Promise!Deliver, Promise!End
<1> QED BY <1>1, <1>2

\* A step that the client does not see.
LEMMA Unseen ==
  ASSUME UNCHANGED <<sent, heard, final>>
  PROVE  PromiseStep
BY DEF PromiseStep, Stretches, Outcomes

\* A chunk is taken in.
LEMMA SendIsPromised ==
  ASSUME TypeInv, PhaseInv, NEW s \in Sessions, NEW held, SendChunk(s, held)
  PROVE  PromiseStep
<1>1. CASE ~held
  BY <1>1, Unseen DEF SendChunk
<1>2. CASE held
  <2>1. sent \in [Sessions -> 0 .. MaxChunks] /\ sent[s] \in Nat
    BY LimitTypes DEF TypeInv, SessionsTyped
  <2>2. sent' = [sent EXCEPT ![s] = sent[s] + 1] /\ UNCHANGED <<heard, final>>
    BY <1>2 DEF SendChunk
  <2>3. sent'[s] = sent[s] + 1
    BY <2>1, <2>2
  <2>4. phase[s] \in Phases /\ Reading(s)
    BY DEF SendChunk, Reading, TypeInv, SessionsTyped
  <2>5. final[s] \in {"none", "ok", "err"}
    BY <2>4 DEF PhaseInv, Phases
  <2>6. PromiseAccept(s)
    BY <2>1, <2>2, <2>3, <2>5 DEF PromiseAccept, Stretches, Outcomes
  <2> QED BY <2>6 DEF PromiseStep
<1> QED BY <1>1, <1>2

\* A response goes to the client.
LEMMA WriteIsPromised ==
  ASSUME TypeInv, PhaseInv, ToldInv, NEW s \in Sessions, WriteResponse(s), outbox' = outbox
  PROVE  PromiseStep
<1>1. PICK r : r = Head(respQ[s])
  OBVIOUS
<1>2. PICK h : h = heard[s]
  OBVIOUS
<1>3. /\ phase[s] = "live" /\ respQ[s] # <<>> /\ respQ[s] \in Seq(Responses)
      /\ heard' = [heard EXCEPT ![s] = Heard(h, r)] /\ heard \in [Sessions -> Hearings]
      /\ h \in Hearings /\ UNCHANGED <<sent, final>> /\ final[s] = "none" /\ r.kind # "finished"
  BY <1>1, <1>2 DEF WriteResponse, TypeInv, SessionsTyped, PhaseInv
<1>4. r \in Responses
  <2> HIDE DEF Responses
  <2> QED BY <1>1, <1>3, Taken
<1>5. Follows(s, sent[s], reader[s], h, r)
  BY <1>1, <1>2, WriteTells
<1>6. CASE r.kind = "segment"
  <2>1. h.from \in Nat /\ h.upTo \in Nat /\ r.from \in Nat /\ r.to \in Nat /\ sent[s] \in Nat
    BY <1>3, <1>4, <1>6, ResponseKinds, ToldTypes DEF Hearings
  <2>2. r.from < r.to /\ r.to <= sent[s] /\ Meets(h.upTo, r.from)
    BY <1>5, <1>6 DEF Follows
  <2>3. Heard(h, r) = [h EXCEPT !.from = r.from, !.upTo = r.to]
    BY <1>6 DEF Heard
  <2>4. Heard(h, r).from = r.from /\ Heard(h, r).upTo = r.to
    BY <1>3, <2>3 DEF Hearings
  <2>5. heard'[s] = Heard(h, r) /\ \A u \in Sessions : u # s => heard'[u] = heard[u]
    BY <1>3
  <2>6. /\ Stretches'[s].from = r.from /\ Stretches'[s].to = r.to
        /\ Stretches[s].from = h.from /\ Stretches[s].to = h.upTo
    BY <1>2, <2>4, <2>5 DEF Stretches
  <2>7. Stretches' = [Stretches EXCEPT ![s] = Stretches'[s]]
    <3>1. \A u \in Sessions : u # s => Stretches'[u] = Stretches[u]
      BY <2>5 DEF Stretches
    <3>2. /\ Stretches = [u \in Sessions |-> Stretches[u]]
          /\ Stretches' = [u \in Sessions |-> Stretches'[u]]
      BY DEF Stretches
    <3> QED BY <3>1, <3>2
  <2>8. Outcomes[s] = "none" /\ UNCHANGED Outcomes
    BY <1>3 DEF Outcomes
  <2>9. PromiseDeliver(s)
    BY <1>3, <2>1, <2>2, <2>6, <2>7, <2>8 DEF PromiseDeliver, Meets
  <2> QED BY <2>9 DEF PromiseStep
<1>7. CASE r.kind = "speech"
  <2>1. Heard(h, r) = [h EXCEPT !.speech = r.at]
    BY <1>7 DEF Heard
  <2>2. Heard(h, r).from = h.from /\ Heard(h, r).upTo = h.upTo
    BY <1>3, <2>1 DEF Hearings
  <2>3. \A u \in Sessions : heard'[u].from = heard[u].from /\ heard'[u].upTo = heard[u].upTo
    BY <1>2, <1>3, <2>2
  <2>4. UNCHANGED <<Stretches, Outcomes, sent>>
    BY <1>3, <2>3 DEF Stretches, Outcomes
  <2> QED BY <2>4 DEF PromiseStep
<1> QED BY <1>3, <1>4, <1>6, <1>7, ResponseKinds

\* The job's end is kept for when the reader has ended too.
LEMMA FinishIsUnseen ==
  ASSUME TypeInv, PhaseInv, NEW s \in Sessions, TakeFinished(s)
  PROVE  PromiseStep
<1>1. final \in [Sessions -> Finals] /\ final[s] = "none" /\ UNCHANGED <<sent, heard>>
  BY DEF TakeFinished, PhaseInv, TypeInv, SessionsTyped
<1>2. PICK e \in {"ok", "err"} : final' = [final EXCEPT ![s] = e]
  BY DEF TakeFinished
<1>3. \A u \in Sessions : Outcomes'[u] = Outcomes[u]
  BY <1>1, <1>2 DEF Outcomes
<1>4. UNCHANGED Outcomes
  <2>1. Outcomes = [u \in Sessions |-> Outcomes[u]] /\ Outcomes' = [u \in Sessions |-> Outcomes'[u]]
    BY DEF Outcomes
  <2> QED BY <1>3, <2>1
<1> QED BY <1>1, <1>4 DEF PromiseStep, Stretches

\* The session ends.
LEMMA JoinIsPromised ==
  ASSUME TypeInv, PhaseInv, ToldInv, NEW s \in Sessions, JoinReader(s)
  PROVE  PromiseStep
<1>1. PICK e : e = FinalResponse(reader[s], final[s])
  OBVIOUS
<1>2. /\ final[s] \in {"ok", "err"} /\ reader[s] \in {"none", "completed", "cancelled", "failed"}
      /\ phase[s] = "joining" /\ final \in [Sessions -> Finals]
      /\ final' = [final EXCEPT ![s] = e] /\ UNCHANGED <<sent, heard>>
  BY <1>1 DEF JoinReader, Reading, PhaseInv, TypeInv, SessionsTyped, Readers
<1>3. reader[s] # "none"
  BY <1>2 DEF TypeInv, SessionsTyped
<1>4. /\ e \in {"done", "cancelled", "error"}
      /\ e # "error" => final[s] = "ok" /\ reader[s] # "failed"
  BY <1>1, <1>2, <1>3 DEF FinalResponse
<1>5. e # "error" => HeardAll(sent[s], heard[s])
  BY <1>4 DEF ToldInv, SaidNow, SaidRight, Over
<1>6. Stretches[s].to = heard[s].upTo
  BY DEF Stretches
<1>7. final'[s] = e /\ \A u \in Sessions : u # s => final'[u] = final[u]
  BY <1>2
<1>8. Outcomes[s] = "none" /\ Outcomes'[s] = e
  BY <1>2, <1>4, <1>7 DEF Outcomes
<1>9. Outcomes' = [Outcomes EXCEPT ![s] = Outcomes'[s]]
  <2>1. \A u \in Sessions : u # s => Outcomes'[u] = Outcomes[u]
    BY <1>7 DEF Outcomes
  <2>2. Outcomes = [u \in Sessions |-> Outcomes[u]] /\ Outcomes' = [u \in Sessions |-> Outcomes'[u]]
    BY DEF Outcomes
  <2> QED BY <2>1, <2>2
<1>10. UNCHANGED Stretches
  BY <1>2 DEF Stretches
<1>11. PromiseEnd(s)
  BY <1>2, <1>4, <1>5, <1>6, <1>8, <1>9, <1>10 DEF PromiseEnd, HeardAll
<1> QED BY <1>11 DEF PromiseStep

\* Every step is one of the promise or a stutter.
LEMMA StepIsPromised ==
  ASSUME TypeInv, PhaseInv, ToldInv, [Next]_vars
  PROVE  PromiseStep
<1>1. ASSUME NEW s \in Sessions, Session(s) PROVE PromiseStep
  <2>1. SessionThread(s) /\ outbox' = outbox
    BY <1>1 DEF Session, schedulerVars
  <2>2. CASE Submit(s) \/ SpawnFails(s) \/ WriteFails(s)
    BY <2>2, Unseen DEF Submit, SpawnFails, WriteFails
  <2> QED BY <2>1, <2>2, WriteIsPromised, FinishIsUnseen, JoinIsPromised DEF SessionThread
<1>2. ASSUME NEW s \in Sessions, Reader(s) PROVE PromiseStep
  <2>1. CASE \/ ReadAudio(s) \/ EndOfStream(s) \/ Cancel(s) \/ BadSignal(s, Held(s))
             \/ ReaderFails(s)
    BY <2>1, Unseen DEF ReadAudio, EndOfStream, Cancel, BadSignal, ReaderFails
  <2> QED BY <1>2, <2>1, SendIsPromised DEF Reader, ReaderThread
<1>3. CASE Scheduler \/ (\E w \in Workers : Worker(w)) \/ UNCHANGED vars
  <2>1. UNCHANGED <<sent, heard, final>>
    BY <1>3 DEF Scheduler, Send, Respond, Post, StartRun, DrainChunk, DrainNext, EndDrain,
                SelectJob, SelectReady, SelectResult, SelectError, Clear, SelectSleep,
                Worker, sessionVars, vars
  <2> QED BY <2>1, Unseen
<1> QED BY <1>1, <1>2, <1>3 DEF Next

\* Whatever the scheduler, the workers, the readers and the clients do, each
\* client gets the text of successive stretches of its audio, in order, and a
\* session that does not end in an error has had all of it: ImplementsPromise.
THEOREM LiveImplementsPromise == Spec => ImplementsPromise
<1>1. Init => PromiseInit
  BY DEF Init, SessionsInit, PromiseInit, Stretches, Outcomes
<1>2. IInv /\ [Next]_vars => PromiseStep
  BY StepIsPromised DEF IInv, CoreInv
<1> QED BY <1>1, <1>2, PromiseUnfolds, LiveInvariance, PTL
        DEF Spec, ImplementsPromise, Promise!TranscriptionSpec

-----------------------------------------------------------------------------
(* With its clients the daemon does what it does without them.             *)

\* A step of a client, of the ring or of the socket is none of the daemon's;
\* every other is one that LiveScheduler has.
LEMMA ClientStepIsLive == [ClientNext]_allVars => [Next]_vars
<1> SUFFICES ASSUME [ClientNext]_allVars PROVE [Next]_vars
  OBVIOUS
<1>1. ASSUME NEW s \in Sessions, Client(s) PROVE UNCHANGED vars
  BY <1>1 DEF Client, PushAudio, SignalAudio, EndAudio, DropSender, ReceiveResponse
<1>2. ASSUME NEW s \in Sessions, ClientReader(s) PROVE Reader(s) \/ UNCHANGED vars
  BY <1>2 DEF ClientReader, ReadData, ReadEnd, ReadEof, FlushChunk, Reader, ReaderThread
<1>3. ASSUME NEW s \in Sessions, ClientThread(s) PROVE Session(s)
  BY <1>3 DEF ClientThread, Session, SessionThread
<1>4. CASE \E w \in Workers : Worker(w)
  BY <1>4 DEF Next
<1>5. CASE Scheduler
  BY <1>5 DEF Next
<1>6. CASE UNCHANGED allVars
  BY <1>6 DEF allVars
<1> QED BY <1>1, <1>2, <1>3, <1>4, <1>5, <1>6 DEF ClientNext, Next

\* What is proved of the live scheduler is true of it with these clients.
THEOREM ClientImplementsLive == ClientSpec => Spec
<1>1. ClientInit => Init
  BY DEF ClientInit
<1> QED BY <1>1, ClientStepIsLive, PTL DEF ClientSpec, Spec

-----------------------------------------------------------------------------
(* The way of the audio through ring and buffer into chunks.               *)

ClientStates == {"push", "signal", "ended", "dropped"}
SignalKinds  == {"data", "end", "cancel", "bad"}

ClientTyped ==
    /\ client \in [Sessions -> ClientStates]
    /\ pushed \in [Sessions -> Nat] /\ announced \in [Sessions -> Nat]
    /\ signals \in [Sessions -> Seq(SignalKinds)]
    /\ ring \in [Sessions -> 0 .. RingUnits] /\ pcm \in [Sessions -> Nat]
    /\ closing \in [Sessions -> BOOLEAN]

\* A signal that makes the reader drain the ring is on its way.
Drains(signal)  == signal \in {"data", "end"}
DrainIsDue(s)   == \E i \in DOMAIN signals[s] : Drains(signals[s][i])

\* The signals of s and its client: no more audio is announced after an end
\* has been sent or seen, and what was announced is in the ring only while a
\* drain is due.
SignalInv(s) ==
    /\ announced[s] <= pushed[s]
    /\ announced[s] + ring[s] <= pushed[s] \/ DrainIsDue(s)
    /\ \A i \in DOMAIN signals[s] : signals[s][i] = "end" => client[s] = "ended"
    /\ closing[s] => /\ client[s] \in {"ended", "dropped"}
                     /\ announced[s] + ring[s] <= pushed[s]

\* The chunks the reader of s has cut, the one it is sending included, and the
\* units in them.
Cut(s)      == sent[s] + IF reader[s] = "sending" THEN 1 ELSE 0
CutUnits(s) == pushed[s] - ring[s] - pcm[s]

\* All chunks are full, but for the last one at the end of the stream.  (A
\* reader that failed may have lost the chunk it was sending.)
CutInv(s) ==
    /\ ring[s] + pcm[s] <= pushed[s]
    /\ Cut(s) * ChunkUnits < CutUnits(s) + ChunkUnits
    /\ reader[s] # "failed" => CutUnits(s) <= Cut(s) * ChunkUnits
    /\ reader[s] # "failed" /\ (pcm[s] > 0 \/ ~closing[s]) =>
           CutUnits(s) = Cut(s) * ChunkUnits
    /\ reader[s] = "completed" => closing[s] /\ pcm[s] = 0

StreamInv == ClientTyped /\ \A s \in Sessions : SignalInv(s) /\ CutInv(s)

\* One more chunk.
LEMMA OneMore == \A k \in Nat : /\ k * ChunkUnits \in Nat
                               /\ (k + 1) * ChunkUnits = k * ChunkUnits + ChunkUnits
BY ClientAssumption

\* How many chunks a number of units needs.
LEMMA ChunksBound ==
  ASSUME NEW k \in Nat, NEW n \in Nat
  PROVE  /\ k * ChunkUnits < n + ChunkUnits => k <= Chunks(n)
         /\ n <= k * ChunkUnits => Chunks(n) <= k
<1> DEFINE c == ChunkUnits
           m == n + c - 1
           q == m \div c
<1>1. c \in Nat \ {0}
  BY ClientAssumption
<1>2. m \in Nat /\ q \in Nat /\ q * c <= m /\ m < q * c + c
  BY <1>1
<1>3. ASSUME k * c < n + c PROVE k <= q
  <2>1. k * c < q * c + c
    BY <1>1, <1>2, <1>3
  <2>2. (q + 1) * c = q * c + c
    BY <1>1, <1>2
  <2>3. SUFFICES ASSUME k >= q + 1 PROVE FALSE
    BY <1>2
  <2>4. k * c >= (q + 1) * c
    BY <1>1, <1>2, <2>3
  <2> QED BY <1>1, <1>2, <2>1, <2>2, <2>4
<1>4. ASSUME n <= k * c PROVE q <= k
  <2>1. q * c < k * c + c
    BY <1>1, <1>2, <1>4
  <2>2. (k + 1) * c = k * c + c
    BY <1>1
  <2>3. SUFFICES ASSUME q >= k + 1 PROVE FALSE
    BY <1>2
  <2>4. q * c >= (k + 1) * c
    BY <1>1, <1>2, <2>3
  <2> QED BY <1>1, <1>2, <2>1, <2>2, <2>4
<1> QED BY <1>3, <1>4 DEF Chunks

\* What the invariant says of the stream.
LEMMA StreamInvDelivers == TypeInv /\ StreamInv => StreamIsDelivered
<1> SUFFICES ASSUME TypeInv, StreamInv, NEW s \in Sessions
             PROVE  /\ sent[s] <= Chunks(pushed[s])
                    /\ reader[s] = "completed" => sent[s] >= Chunks(announced[s])
  BY DEF StreamIsDelivered
<1>1. /\ sent[s] \in Nat /\ pushed[s] \in Nat /\ announced[s] \in Nat
      /\ ring[s] \in Nat /\ pcm[s] \in Nat /\ ChunkUnits \in Nat
  BY ClientAssumption, LimitTypes DEF TypeInv, SessionsTyped, StreamInv, ClientTyped
<1>2. SignalInv(s) /\ CutInv(s)
  BY DEF StreamInv
<1> DEFINE n == sent[s]
<1>3. n * ChunkUnits \in Nat /\ n * ChunkUnits <= Cut(s) * ChunkUnits
  <2>1. n * ChunkUnits \in Nat /\ (n + 1) * ChunkUnits = n * ChunkUnits + ChunkUnits
    BY <1>1, OneMore
  <2>2. Cut(s) = n \/ Cut(s) = n + 1
    BY <1>1 DEF Cut
  <2> QED BY <1>1, <2>1, <2>2
<1>4. sent[s] * ChunkUnits < pushed[s] + ChunkUnits
  <2> DEFINE cut == Cut(s) * ChunkUnits
             mine == n * ChunkUnits
  <2>1. cut < pushed[s] - ring[s] - pcm[s] + ChunkUnits
    BY <1>2 DEF CutInv, CutUnits
  <2>2. Cut(s) \in Nat /\ cut \in Nat
    BY <1>1, OneMore DEF Cut
  <2>3. mine \in Nat /\ mine <= cut
    BY <1>3
  <2>4. mine < pushed[s] + ChunkUnits
    <3> HIDE DEF cut, mine
    <3> QED BY <1>1, <2>1, <2>2, <2>3
  <2> QED BY <2>4
<1>5. ASSUME reader[s] = "completed" PROVE announced[s] <= sent[s] * ChunkUnits
  <2>1. Cut(s) = n
    BY <1>1, <1>5 DEF Cut
  <2>2. /\ pushed[s] - ring[s] - pcm[s] <= n * ChunkUnits
        /\ closing[s] /\ pcm[s] = 0 /\ announced[s] + ring[s] <= pushed[s]
    BY <1>2, <1>5, <2>1 DEF CutInv, SignalInv, CutUnits
  <2> QED BY <1>1, <1>3, <2>2
<1> QED BY <1>1, <1>4, <1>5, ChunksBound

-----------------------------------------------------------------------------
(* Steps. *)

\* Nothing of the stream of s has moved.
Unmoved(s) ==
    /\ client'[s] = client[s] /\ pushed'[s] = pushed[s] /\ announced'[s] = announced[s]
    /\ signals'[s] = signals[s] /\ ring'[s] = ring[s] /\ pcm'[s] = pcm[s]
    /\ closing'[s] = closing[s] /\ reader'[s] = reader[s] /\ sent'[s] = sent[s]

StreamOK(s)   == SignalInv(s) /\ CutInv(s)
StreamNext(s) == StreamOK(s)'

LEMMA UnmovedOK ==
  ASSUME NEW s, Unmoved(s), StreamOK(s)
  PROVE  StreamNext(s)
BY DEF Unmoved, StreamOK, StreamNext, SignalInv, CutInv, DrainIsDue, Cut, CutUnits

\* What the variables hold at s.
LEMMA StreamValues ==
  ASSUME NEW s \in Sessions, TypeInv, ClientTyped
  PROVE  /\ client[s] \in ClientStates /\ pushed[s] \in Nat /\ announced[s] \in Nat
         /\ signals[s] \in Seq(SignalKinds) /\ ring[s] \in Nat /\ ring[s] <= RingUnits
         /\ pcm[s] \in Nat /\ closing[s] \in BOOLEAN /\ reader[s] \in Readers
         /\ sent[s] \in Nat /\ ChunkUnits \in Nat \ {0} /\ RingUnits \in Nat \ {0}
         /\ Cut(s) \in Nat /\ Cut(s) * ChunkUnits \in Nat
<1>1. /\ sent[s] \in Nat /\ ChunkUnits \in Nat \ {0} /\ RingUnits \in Nat \ {0}
  BY ClientAssumption, LimitTypes DEF TypeInv, SessionsTyped
<1>2. Cut(s) \in Nat
  BY <1>1 DEF Cut
<1>3. Cut(s) * ChunkUnits \in Nat
  BY <1>2, OneMore
<1> QED BY <1>1, <1>2, <1>3 DEF TypeInv, SessionsTyped, ClientTyped

\* A signal is sent: what was due is due, and so is the new one.
LEMMA SignalSent ==
  ASSUME NEW s \in Sessions, ClientTyped, NEW signal \in SignalKinds,
         Signal(s, signal)
  PROVE  /\ signals' \in [Sessions -> Seq(SignalKinds)]
         /\ \A r \in Sessions : r # s => signals'[r] = signals[r]
         /\ DrainIsDue(s) \/ Drains(signal) => DrainIsDue(s)'
         /\ \A i \in DOMAIN signals'[s] :
                (i \in DOMAIN signals[s] /\ signals'[s][i] = signals[s][i]) \/ signals'[s][i] = signal
<1> DEFINE q == signals[s]
           n == Len(q)
<1>1. q \in Seq(SignalKinds) /\ signals \in [Sessions -> Seq(SignalKinds)]
  BY DEF ClientTyped
<1>2. signals' = [signals EXCEPT ![s] = Append(q, signal)] /\ signals'[s] = Append(q, signal)
  BY <1>1 DEF Signal
<1>3. /\ Append(q, signal) \in Seq(SignalKinds) /\ n \in Nat /\ DOMAIN q = 1 .. n
      /\ DOMAIN Append(q, signal) = 1 .. n + 1 /\ Append(q, signal)[n + 1] = signal
      /\ \A i \in 1 .. n : Append(q, signal)[i] = q[i]
  BY <1>1, AppendProperties, LenProperties
<1>4. ASSUME DrainIsDue(s) \/ Drains(signal) PROVE DrainIsDue(s)'
  BY <1>2, <1>3, <1>4 DEF DrainIsDue
<1>5. \A i \in DOMAIN signals'[s] :
          (i \in DOMAIN signals[s] /\ signals'[s][i] = signals[s][i]) \/ signals'[s][i] = signal
  BY <1>2, <1>3
<1> QED BY <1>1, <1>2, <1>3, <1>4, <1>5

\* A signal is taken: it was there, and the rest stays.
LEMMA SignalTaken ==
  ASSUME NEW s \in Sessions, ClientTyped, NEW signal, Take(s, signal)
  PROVE  /\ signals' \in [Sessions -> Seq(SignalKinds)]
         /\ \A r \in Sessions : r # s => signals'[r] = signals[r]
         /\ \E i \in DOMAIN signals[s] : signals[s][i] = signal
         /\ ~Drains(signal) /\ DrainIsDue(s) => DrainIsDue(s)'
         /\ \A i \in DOMAIN signals'[s] :
                \E k \in DOMAIN signals[s] : signals'[s][i] = signals[s][k]
<1> DEFINE q == signals[s]
<1>1. q \in Seq(SignalKinds) /\ signals \in [Sessions -> Seq(SignalKinds)] /\ q # <<>>
  BY DEF ClientTyped, Take
<1>2. /\ Head(q) = q[1] /\ Tail(q) \in Seq(SignalKinds) /\ DOMAIN q = 1 .. Len(q)
      /\ Len(q) \in Nat \ {0} /\ DOMAIN Tail(q) = 1 .. Len(q) - 1 /\ 1 \in DOMAIN q
      /\ \A i \in DOMAIN Tail(q) : i + 1 \in DOMAIN q /\ Tail(q)[i] = q[i + 1]
  BY <1>1, Taken
<1>3. /\ signals' = [signals EXCEPT ![s] = Tail(q)] /\ signals'[s] = Tail(q)
      /\ q[1] = signal
  BY <1>1, <1>2 DEF Take
<1>4. ASSUME ~Drains(signal), DrainIsDue(s) PROVE DrainIsDue(s)'
  <2>1. PICK k \in DOMAIN q : Drains(q[k])
    BY <1>4 DEF DrainIsDue
  <2>2. k # 1 /\ k - 1 \in DOMAIN Tail(q) /\ Tail(q)[k - 1] = q[k]
    BY <1>2, <1>3, <1>4, <2>1, SMTT(30)
  <2> QED BY <1>3, <2>1, <2>2 DEF DrainIsDue
<1> QED BY <1>1, <1>2, <1>3, <1>4

\* The client puts audio into the ring; it is announced with the next signal.
LEMMA PushStep ==
  ASSUME TypeInv, StreamInv, NEW s \in Sessions, PushAudio(s)
  PROVE  StreamInv'
<1>1. PICK n \in 1 .. RingUnits - ring[s] :
         /\ pushed' = [pushed EXCEPT ![s] = @ + n]
         /\ ring'   = [ring EXCEPT ![s] = @ + n]
  BY DEF PushAudio
<1>2. /\ client[s] = "push" /\ client' = [client EXCEPT ![s] = "signal"]
      /\ UNCHANGED <<vars, announced, signals, pcm, closing>>
  BY DEF PushAudio, readerVars
<1>3. ClientTyped /\ \A r \in Sessions : StreamOK(r)
  BY DEF StreamInv, StreamOK
<1>4. /\ pushed[s] \in Nat /\ ring[s] \in Nat /\ ring[s] <= RingUnits /\ pcm[s] \in Nat
      /\ announced[s] \in Nat /\ RingUnits \in Nat
  BY <1>3, StreamValues
<1>5. n \in Nat /\ ring[s] + n <= RingUnits
  BY <1>1, <1>4
<1>6. ClientTyped'
  BY <1>1, <1>2, <1>3, <1>4, <1>5, SMTT(30) DEF ClientTyped, ClientStates
<1>7. /\ pushed'[s] = pushed[s] + n /\ ring'[s] = ring[s] + n /\ client'[s] = "signal"
      /\ announced'[s] = announced[s] /\ signals'[s] = signals[s] /\ pcm'[s] = pcm[s]
      /\ closing'[s] = closing[s] /\ reader'[s] = reader[s] /\ sent'[s] = sent[s]
  BY <1>1, <1>2, <1>3 DEF ClientTyped, vars, sessionVars
<1>8. \A r \in Sessions : r # s => Unmoved(r)
  BY <1>1, <1>2, <1>3 DEF ClientTyped, vars, sessionVars, Unmoved
<1>9. SignalInv(s) /\ CutInv(s)
  BY <1>3 DEF StreamOK
<1>10. SignalInv(s)'
  BY <1>2, <1>4, <1>5, <1>7, <1>9 DEF SignalInv, DrainIsDue
<1>11. Cut(s)' = Cut(s) /\ CutUnits(s)' = CutUnits(s)
  BY <1>4, <1>5, <1>7 DEF Cut, CutUnits
<1>12. CutInv(s)'
  BY <1>4, <1>5, <1>7, <1>9, <1>11 DEF CutInv
<1> QED BY <1>3, <1>6, <1>8, <1>10, <1>12, UnmovedOK DEF StreamInv, StreamOK, StreamNext

\* Nothing of the cut of s has moved.
CutUnmoved(s) ==
    /\ pushed'[s] = pushed[s] /\ ring'[s] = ring[s] /\ pcm'[s] = pcm[s]
    /\ closing'[s] = closing[s] /\ reader'[s] = reader[s] /\ sent'[s] = sent[s]

LEMMA CutStays ==
  ASSUME NEW s, CutUnmoved(s), CutInv(s)
  PROVE  CutInv(s)'
BY DEF CutUnmoved, CutInv, Cut, CutUnits

\* It announces what it has pushed, ends its stream, or is gone.
LEMMA SignalStep ==
  ASSUME TypeInv, StreamInv, NEW s \in Sessions,
         SignalAudio(s) \/ EndAudio(s) \/ DropSender(s)
  PROVE  StreamInv'
<1>1. ClientTyped /\ \A r \in Sessions : StreamOK(r)
  BY DEF StreamInv, StreamOK
<1>2. SignalInv(s) /\ CutInv(s)
  BY <1>1 DEF StreamOK
<1>3. /\ pushed[s] \in Nat /\ ring[s] \in Nat /\ announced[s] \in Nat /\ ring[s] + pcm[s] <= pushed[s]
      /\ pcm[s] \in Nat
  BY <1>1, <1>2, StreamValues DEF CutInv
<1>4. UNCHANGED <<vars, pushed, ring, pcm, closing>>
  BY DEF SignalAudio, EndAudio, DropSender, readerVars
<1>5. \A r \in Sessions : CutUnmoved(r)
  BY <1>4 DEF CutUnmoved, vars, sessionVars
<1>6. CASE SignalAudio(s)
  <2>1. /\ client[s] = "signal" /\ Signal(s, "data")
        /\ announced' = [announced EXCEPT ![s] = pushed[s]]
        /\ client' = [client EXCEPT ![s] = "push"]
    BY <1>6 DEF SignalAudio
  <2>2. /\ signals' \in [Sessions -> Seq(SignalKinds)]
        /\ \A r \in Sessions : r # s => signals'[r] = signals[r]
        /\ DrainIsDue(s)'
        /\ \A i \in DOMAIN signals'[s] :
                (i \in DOMAIN signals[s] /\ signals'[s][i] = signals[s][i]) \/ signals'[s][i] = "data"
    BY <1>1, <2>1, SignalSent DEF Drains, SignalKinds
  <2>3. ClientTyped'
    BY <1>1, <1>3, <1>4, <2>1, <2>2 DEF ClientTyped, ClientStates
  <2>4. /\ announced'[s] = pushed[s] /\ client'[s] = "push"
    BY <1>1, <2>1 DEF ClientTyped
  <2>5. ~closing[s] /\ \A i \in DOMAIN signals[s] : signals[s][i] # "end"
    BY <1>2, <2>1 DEF SignalInv
  <2>6. SignalInv(s)'
    BY <1>3, <1>4, <2>2, <2>4, <2>5, SMTT(30) DEF SignalInv
  <2>7. \A r \in Sessions : r # s => Unmoved(r)
    BY <1>1, <1>4, <2>1, <2>2 DEF ClientTyped, vars, sessionVars, Unmoved
  <2> QED BY <1>1, <1>2, <1>5, <2>3, <2>6, <2>7, UnmovedOK, CutStays
          DEF StreamInv, StreamOK, StreamNext
<1>7. CASE EndAudio(s)
  <2>1. PICK signal \in LastSignals :
          /\ Signal(s, signal)
          /\ announced' = IF signal = "end" THEN [announced EXCEPT ![s] = pushed[s]]
                                            ELSE announced
    BY <1>7 DEF EndAudio
  <2>2. client[s] = "push" /\ client' = [client EXCEPT ![s] = "ended"]
    BY <1>7 DEF EndAudio
  <2>3. signal \in SignalKinds
    BY DEF LastSignals, SignalKinds
  <2>4. /\ signals' \in [Sessions -> Seq(SignalKinds)]
        /\ \A r \in Sessions : r # s => signals'[r] = signals[r]
        /\ DrainIsDue(s) \/ Drains(signal) => DrainIsDue(s)'
    BY <1>1, <2>1, <2>3, SignalSent
  <2>5. ClientTyped'
    BY <1>1, <1>3, <1>4, <2>1, <2>2, <2>4 DEF ClientTyped, ClientStates
  <2>6. /\ client'[s] = "ended" /\ ~closing[s]
        /\ announced'[s] = IF signal = "end" THEN pushed[s] ELSE announced[s]
    BY <1>1, <1>2, <2>1, <2>2 DEF ClientTyped, SignalInv
  <2>7. signal = "end" => DrainIsDue(s)'
    BY <2>4 DEF Drains
  <2>8. SignalInv(s)'
    BY <1>2, <1>3, <1>4, <2>4, <2>6, <2>7 DEF SignalInv
  <2>9. \A r \in Sessions : r # s => Unmoved(r)
    BY <1>1, <1>4, <2>1, <2>2, <2>4 DEF ClientTyped, vars, sessionVars, Unmoved
  <2> QED BY <1>1, <1>2, <1>5, <2>5, <2>8, <2>9, UnmovedOK, CutStays
          DEF StreamInv, StreamOK, StreamNext
<1>8. CASE DropSender(s)
  <2>1. /\ client[s] \in {"push", "signal"} /\ client' = [client EXCEPT ![s] = "dropped"]
        /\ UNCHANGED <<announced, signals>>
    BY <1>8 DEF DropSender
  <2>2. ClientTyped'
    BY <1>1, <1>4, <2>1 DEF ClientTyped, ClientStates
  <2>3. client'[s] = "dropped" /\ \A i \in DOMAIN signals[s] : signals[s][i] # "end"
    BY <1>1, <1>2, <2>1 DEF ClientTyped, SignalInv
  <2>4. SignalInv(s)'
    BY <1>2, <1>4, <2>1, <2>3 DEF SignalInv, DrainIsDue
  <2>5. \A r \in Sessions : r # s => Unmoved(r)
    BY <1>1, <1>4, <2>1 DEF ClientTyped, vars, sessionVars, Unmoved
  <2> QED BY <1>1, <1>2, <1>5, <2>2, <2>4, <2>5, UnmovedOK, CutStays
          DEF StreamInv, StreamOK, StreamNext
<1> QED BY <1>6, <1>7, <1>8

\* The reader drains the ring: what was announced is then in its buffer.
LEMMA DrainStep ==
  ASSUME TypeInv, StreamInv, NEW s \in Sessions, ReadData(s) \/ ReadEnd(s)
  PROVE  StreamInv'
<1>1. ClientTyped /\ \A r \in Sessions : StreamOK(r)
  BY DEF StreamInv, StreamOK
<1>2. SignalInv(s) /\ CutInv(s)
  BY <1>1 DEF StreamOK
<1>3. PICK signal : Drains(signal) /\ Take(s, signal) /\ (signal = "end" <=> ReadEnd(s))
  <2>1. CASE ReadData(s)
    <3>1. Take(s, "data") /\ ~ReadEnd(s)
      BY <2>1 DEF ReadData, ReadEnd, Take
    <3> QED BY <3>1 DEF Drains
  <2>2. CASE ReadEnd(s)
    <3>1. Take(s, "end")
      BY <2>2 DEF ReadEnd
    <3> QED BY <2>2, <3>1 DEF Drains
  <2> QED BY <2>1, <2>2
<1>4. /\ pcm' = [pcm EXCEPT ![s] = @ + ring[s]] /\ ring' = [ring EXCEPT ![s] = @ - ring[s]]
      /\ UNCHANGED <<vars, client, pushed, announced>>
      /\ closing' = IF ReadEnd(s) THEN [closing EXCEPT ![s] = TRUE] ELSE closing
  BY DEF ReadData, ReadEnd, Drain, Drained, senderVars
<1>5. reader[s] = "reading" /\ ~closing[s]
  BY <1>3 DEF Take, Waits
<1>6. /\ pushed[s] \in Nat /\ ring[s] \in Nat /\ pcm[s] \in Nat /\ announced[s] \in Nat
      /\ RingUnits \in Nat
  BY <1>1, StreamValues
<1>7. /\ signals' \in [Sessions -> Seq(SignalKinds)]
      /\ \A r \in Sessions : r # s => signals'[r] = signals[r]
      /\ \E i \in DOMAIN signals[s] : signals[s][i] = signal
      /\ \A i \in DOMAIN signals'[s] :
                \E k \in DOMAIN signals[s] : signals'[s][i] = signals[s][k]
  BY <1>1, <1>3, SignalTaken
<1>8. ClientTyped'
  <2>1. ring[s] - ring[s] \in 0 .. RingUnits /\ pcm[s] + ring[s] \in Nat
    BY <1>6
  <2>2. pcm' \in [Sessions -> Nat] /\ ring' \in [Sessions -> 0 .. RingUnits]
    BY <1>1, <1>4, <2>1 DEF ClientTyped
  <2>3. closing' \in [Sessions -> BOOLEAN]
    BY <1>1, <1>4 DEF ClientTyped
  <2> QED BY <1>1, <1>4, <1>7, <2>2, <2>3 DEF ClientTyped
<1>9. /\ pcm'[s] = pcm[s] + ring[s] /\ ring'[s] = 0 /\ client'[s] = client[s]
      /\ pushed'[s] = pushed[s] /\ announced'[s] = announced[s]
      /\ reader'[s] = reader[s] /\ sent'[s] = sent[s]
      /\ closing'[s] => signal = "end"
  <2>1. closing'[s] => signal = "end"
    BY <1>1, <1>3, <1>4, <1>5 DEF ClientTyped
  <2>2. ring[s] - ring[s] = 0
    BY <1>6
  <2> QED BY <1>1, <1>4, <2>1, <2>2 DEF ClientTyped, vars, sessionVars
<1>10. \A r \in Sessions : r # s => Unmoved(r)
  BY <1>1, <1>4, <1>7 DEF ClientTyped, vars, sessionVars, Unmoved
<1>11. SignalInv(s)'
  <2>1. \A i \in DOMAIN signals'[s] : signals'[s][i] = "end" => client'[s] = "ended"
    BY <1>2, <1>7, <1>9 DEF SignalInv
  <2>2. closing'[s] => client'[s] = "ended"
    BY <1>2, <1>7, <1>9 DEF SignalInv
  <2>3. announced'[s] + ring'[s] <= pushed'[s] /\ announced'[s] <= pushed'[s]
    BY <1>2, <1>6, <1>9 DEF SignalInv
  <2> QED BY <2>1, <2>2, <2>3 DEF SignalInv
<1>12. Cut(s)' = Cut(s) /\ CutUnits(s)' = CutUnits(s)
  BY <1>6, <1>9 DEF Cut, CutUnits
<1>13. CutInv(s)'
  BY <1>2, <1>5, <1>6, <1>9, <1>12 DEF CutInv
<1> QED BY <1>1, <1>8, <1>10, <1>11, <1>13, UnmovedOK DEF StreamInv, StreamOK, StreamNext

\* The client's end is shut down: what was announced has been drained.
LEMMA EofStep ==
  ASSUME TypeInv, StreamInv, NEW s \in Sessions, ReadEof(s)
  PROVE  StreamInv'
<1>1. ClientTyped /\ \A r \in Sessions : StreamOK(r)
  BY DEF StreamInv, StreamOK
<1>2. SignalInv(s) /\ CutInv(s)
  BY <1>1 DEF StreamOK
<1>3. /\ reader[s] = "reading" /\ client[s] = "dropped" /\ signals[s] = <<>>
      /\ ~closing[s] /\ closing' = [closing EXCEPT ![s] = TRUE]
      /\ UNCHANGED <<vars, client, pushed, announced, signals, ring, pcm>>
  BY DEF ReadEof, Waits, senderVars
<1>4. ~DrainIsDue(s)
  BY <1>3 DEF DrainIsDue
<1>5. ClientTyped'
  BY <1>1, <1>3 DEF ClientTyped
<1>6. closing'[s] = TRUE /\ reader'[s] = reader[s] /\ sent'[s] = sent[s]
  BY <1>1, <1>3 DEF ClientTyped, vars, sessionVars
<1>7. \A r \in Sessions : r # s => Unmoved(r)
  BY <1>1, <1>3 DEF ClientTyped, vars, sessionVars, Unmoved
<1>8. SignalInv(s)'
  BY <1>2, <1>3, <1>4, <1>6 DEF SignalInv, DrainIsDue
<1>9. CutInv(s)'
  BY <1>2, <1>3, <1>6 DEF CutInv, Cut, CutUnits
<1> QED BY <1>1, <1>5, <1>7, <1>8, <1>9, UnmovedOK DEF StreamInv, StreamOK, StreamNext

\* Nothing that SignalInv is about has moved.
SignalsUnmoved(s) ==
    /\ client'[s] = client[s] /\ pushed'[s] = pushed[s] /\ announced'[s] = announced[s]
    /\ ring'[s] = ring[s] /\ closing'[s] = closing[s]
    /\ signals'[s] = signals[s]

LEMMA SignalsStay ==
  ASSUME NEW s, SignalsUnmoved(s), SignalInv(s)
  PROVE  SignalInv(s)'
BY DEF SignalsUnmoved, SignalInv, DrainIsDue

\* A chunk is cut: a full one, or at the end of the stream the rest.
LEMMA FlushStep ==
  ASSUME TypeInv, StreamInv, NEW s \in Sessions, FlushChunk(s)
  PROVE  StreamInv'
<1> DEFINE c == ChunkUnits
           n == sent[s]
           u == CutUnits(s)
<1>1. ClientTyped /\ \A r \in Sessions : StreamOK(r)
  BY DEF StreamInv, StreamOK
<1>2. SignalInv(s) /\ CutInv(s)
  BY <1>1 DEF StreamOK
<1>3. /\ reader[s] = "reading" /\ reader' = [reader EXCEPT ![s] = "sending"]
      /\ sent' = sent
      /\ pcm' = [pcm EXCEPT ![s] = IF @ <= c THEN 0 ELSE @ - c]
      /\ UNCHANGED <<client, pushed, announced, signals, ring, closing>>
  BY DEF FlushChunk, ReadAudio, senderVars
<1>4. pcm[s] >= c \/ (closing[s] /\ pcm[s] > 0)
  BY DEF FlushChunk, Flushes
<1>5. /\ pushed[s] \in Nat /\ ring[s] \in Nat /\ pcm[s] \in Nat /\ n \in Nat
      /\ c \in Nat \ {0}
  BY <1>1, StreamValues
<1>6. ClientTyped'
  BY <1>1, <1>3, <1>5 DEF ClientTyped
<1>7. /\ reader'[s] = "sending" /\ sent'[s] = n
      /\ pcm'[s] = IF pcm[s] <= c THEN 0 ELSE pcm[s] - c
  BY <1>1, <1>3 DEF TypeInv, SessionsTyped, ClientTyped
<1>8. \A r \in Sessions : r # s => Unmoved(r)
  BY <1>1, <1>3 DEF TypeInv, SessionsTyped, ClientTyped, Unmoved
<1>9. SignalInv(s)'
  BY <1>2, <1>3, SignalsStay DEF SignalsUnmoved
<1>10. Cut(s) = n /\ Cut(s)' = n + 1
  BY <1>3, <1>5, <1>7 DEF Cut
<1>11. n * c \in Nat /\ (n + 1) * c = n * c + c
  BY <1>5, OneMore
<1>12. pcm[s] > 0 /\ u = n * c
  BY <1>2, <1>3, <1>4, <1>5, <1>10 DEF CutInv
<1>13. /\ CutUnits(s)' = u + pcm[s] - pcm'[s] /\ u = pushed[s] - ring[s] - pcm[s]
       /\ ring[s] + pcm[s] <= pushed[s]
  BY <1>2, <1>3, <1>5, <1>7 DEF CutUnits, CutInv
<1>14. CutInv(s)'
  <2>1. CASE pcm[s] < c
    <3>1. closing[s] /\ pcm'[s] = 0
      BY <1>4, <1>5, <1>7, <2>1
    <3>2. CutUnits(s)' = n * c + pcm[s]
      BY <1>5, <1>12, <1>13, <1>11, <3>1
    <3>3. CutUnits(s)' <= Cut(s)' * c /\ Cut(s)' * c < CutUnits(s)' + c
      BY <1>5, <1>10, <1>11, <1>12, <2>1, <3>2
    <3> QED BY <1>3, <1>5, <1>7, <1>13, <3>1, <3>3 DEF CutInv
  <2>2. CASE pcm[s] >= c
    <3>1. pcm'[s] = pcm[s] - c /\ pcm'[s] \in Nat
      BY <1>5, <1>7, <2>2
    <3>2. CutUnits(s)' = n * c + c
      BY <1>5, <1>11, <1>12, <1>13, <3>1
    <3>3. CutUnits(s)' = Cut(s)' * c /\ Cut(s)' * c < CutUnits(s)' + c
      BY <1>5, <1>10, <1>11, <3>2
    <3>4. ring'[s] + pcm'[s] <= pushed'[s]
      BY <1>3, <1>5, <1>13, <3>1
    <3>5. CutUnits(s)' <= Cut(s)' * c
      BY <1>5, <1>11, <3>2, <3>3
    <3> QED BY <1>7, <3>3, <3>4, <3>5 DEF CutInv
  <2> QED BY <1>5, <2>1, <2>2
<1> QED BY <1>1, <1>6, <1>8, <1>9, <1>14, UnmovedOK DEF StreamInv, StreamOK, StreamNext

\* The chunk goes to the job, or is lost with the job.
LEMMA SendChunkStep ==
  ASSUME TypeInv, StreamInv, NEW s \in Sessions, NEW held, SendChunk(s, held),
         UNCHANGED clientVars
  PROVE  StreamInv'
<1> DEFINE c == ChunkUnits
           n == sent[s]
<1>1. ClientTyped /\ \A r \in Sessions : StreamOK(r)
  BY DEF StreamInv, StreamOK
<1>2. SignalInv(s) /\ CutInv(s)
  BY <1>1 DEF StreamOK
<1>3. UNCHANGED <<client, pushed, announced, signals, ring, closing, pcm>>
  BY DEF clientVars, senderVars, readerVars
<1>4. /\ reader[s] = "sending"
      /\ \/ sent' = [sent EXCEPT ![s] = @ + 1] /\ reader' = [reader EXCEPT ![s] = "reading"]
         \/ sent' = sent /\ reader' = [reader EXCEPT ![s] = "failed"]
  BY DEF SendChunk
<1>5. /\ pushed[s] \in Nat /\ ring[s] \in Nat /\ pcm[s] \in Nat /\ n \in Nat
      /\ c \in Nat \ {0}
  BY <1>1, StreamValues
<1>6. ClientTyped'
  BY <1>1, <1>3 DEF ClientTyped
<1>7. \/ sent'[s] = n + 1 /\ reader'[s] = "reading"
      \/ sent'[s] = n /\ reader'[s] = "failed"
  BY <1>4 DEF TypeInv, SessionsTyped
<1>8. \A r \in Sessions : r # s => Unmoved(r)
  BY <1>3, <1>4 DEF TypeInv, SessionsTyped, Unmoved
<1>9. SignalInv(s)'
  BY <1>2, <1>3, SignalsStay DEF SignalsUnmoved
<1>10. Cut(s) = n + 1 /\ CutUnits(s)' = CutUnits(s)
  BY <1>3, <1>4 DEF Cut, CutUnits
<1>11. CutInv(s)'
  <2>1. CASE sent'[s] = n + 1 /\ reader'[s] = "reading"
    <3>1. Cut(s)' = Cut(s)
      BY <1>5, <1>10, <2>1 DEF Cut
    <3> QED BY <1>2, <1>3, <1>4, <1>10, <2>1, <3>1 DEF CutInv
  <2>2. CASE sent'[s] = n /\ reader'[s] = "failed"
    <3>1. Cut(s)' = n
      BY <1>5, <2>2 DEF Cut
    <3>2. n * c \in Nat /\ (n + 1) * c = n * c + c
      BY <1>5, OneMore
    <3>3. (n + 1) * c < CutUnits(s) + c /\ ring[s] + pcm[s] <= pushed[s]
      BY <1>2, <1>10 DEF CutInv
    <3>4. CutUnits(s) \in Int
      BY <1>5 DEF CutUnits
    <3>5. n * c < CutUnits(s) + c
      BY <1>5, <3>2, <3>3, <3>4
    <3> QED BY <1>3, <1>10, <2>2, <3>1, <3>3, <3>5 DEF CutInv
  <2> QED BY <1>7, <2>1, <2>2
<1> QED BY <1>1, <1>6, <1>8, <1>9, <1>11, UnmovedOK DEF StreamInv, StreamOK, StreamNext

\* The stream is reported complete: its last chunk has been sent.
LEMMA EndOfStreamStep ==
  ASSUME TypeInv, StreamInv, NEW s \in Sessions, EndOfStream(s), closing[s], ~Flushes(s),
         UNCHANGED clientVars
  PROVE  StreamInv'
<1>1. ClientTyped /\ \A r \in Sessions : StreamOK(r)
  BY DEF StreamInv, StreamOK
<1>2. SignalInv(s) /\ CutInv(s)
  BY <1>1 DEF StreamOK
<1>3. /\ UNCHANGED <<client, pushed, announced, signals, ring, closing, pcm, sent>>
      /\ reader[s] = "reading" /\ reader' = [reader EXCEPT ![s] = "completed"]
  BY DEF clientVars, senderVars, readerVars, EndOfStream
<1>4. ClientTyped'
  BY <1>1, <1>3 DEF ClientTyped
<1>5. reader'[s] = "completed"
  BY <1>3 DEF TypeInv, SessionsTyped
<1>6. \A r \in Sessions : r # s => Unmoved(r)
  BY <1>3 DEF TypeInv, SessionsTyped, Unmoved
<1>7. SignalInv(s)'
  BY <1>2, <1>3, SignalsStay DEF SignalsUnmoved
<1>8. pcm[s] = 0
  BY <1>1, StreamValues DEF Flushes
<1>9. CutInv(s)'
  <2>1. Cut(s)' = Cut(s) /\ CutUnits(s)' = CutUnits(s)
    BY <1>3, <1>5 DEF Cut, CutUnits
  <2> QED BY <1>2, <1>3, <1>5, <1>8, <2>1 DEF CutInv
<1> QED BY <1>1, <1>4, <1>6, <1>7, <1>9, UnmovedOK DEF StreamInv, StreamOK, StreamNext

\* A signal ends the stream at once: what was cut is sent, the rest is dropped.
LEMMA BreakOffStep ==
  ASSUME TypeInv, StreamInv, NEW s \in Sessions, NEW signal \in {"cancel", "bad"},
         Take(s, signal), NEW r \in {"cancelled", "failed"},
         reader' = [reader EXCEPT ![s] = r], sent' = sent,
         UNCHANGED <<client, pushed, announced, ring, pcm, closing>>
  PROVE  StreamInv'
<1>1. ClientTyped /\ \A t \in Sessions : StreamOK(t)
  BY DEF StreamInv, StreamOK
<1>2. SignalInv(s) /\ CutInv(s)
  BY <1>1 DEF StreamOK
<1>3. reader[s] = "reading" /\ ~closing[s] /\ ~Drains(signal)
  BY DEF Take, Waits, Drains
<1>4. /\ signals' \in [Sessions -> Seq(SignalKinds)]
      /\ \A t \in Sessions : t # s => signals'[t] = signals[t]
      /\ DrainIsDue(s) => DrainIsDue(s)'
      /\ \A i \in DOMAIN signals'[s] :
                \E k \in DOMAIN signals[s] : signals'[s][i] = signals[s][k]
  BY <1>1, <1>3, SignalTaken
<1>5. ClientTyped'
  BY <1>1, <1>4 DEF ClientTyped
<1>6. reader'[s] = r
  BY DEF TypeInv, SessionsTyped
<1>7. \A t \in Sessions : t # s => Unmoved(t)
  BY <1>4 DEF TypeInv, SessionsTyped, Unmoved
<1>8. SignalInv(s)'
  BY <1>2, <1>3, <1>4 DEF SignalInv
<1>9. CutInv(s)'
  <2>1. Cut(s)' = Cut(s) /\ CutUnits(s)' = CutUnits(s)
    BY <1>3, <1>6 DEF Cut, CutUnits
  <2> QED BY <1>2, <1>3, <1>6, <2>1 DEF CutInv
<1> QED BY <1>1, <1>5, <1>7, <1>8, <1>9, UnmovedOK DEF StreamInv, StreamOK, StreamNext

\* The reader fails by itself: what it has not cut is lost.
LEMMA ReaderFailsStep ==
  ASSUME TypeInv, StreamInv, NEW s \in Sessions, ReaderFails(s), UNCHANGED clientVars
  PROVE  StreamInv'
<1>1. ClientTyped /\ \A r \in Sessions : StreamOK(r)
  BY DEF StreamInv, StreamOK
<1>2. SignalInv(s) /\ CutInv(s)
  BY <1>1 DEF StreamOK
<1>3. /\ UNCHANGED <<client, pushed, announced, signals, ring, closing, pcm, sent>>
      /\ reader[s] = "reading" /\ reader' = [reader EXCEPT ![s] = "failed"]
  BY DEF clientVars, senderVars, readerVars, ReaderFails
<1>4. ClientTyped'
  BY <1>1, <1>3 DEF ClientTyped
<1>5. reader'[s] = "failed"
  BY <1>3 DEF TypeInv, SessionsTyped
<1>6. \A r \in Sessions : r # s => Unmoved(r)
  BY <1>3 DEF TypeInv, SessionsTyped, Unmoved
<1>7. SignalInv(s)'
  BY <1>2, <1>3, SignalsStay DEF SignalsUnmoved
<1>8. CutInv(s)'
  <2>1. Cut(s)' = Cut(s) /\ CutUnits(s)' = CutUnits(s)
    BY <1>3, <1>5 DEF Cut, CutUnits
  <2> QED BY <1>2, <1>3, <1>5, <2>1 DEF CutInv
<1> QED BY <1>1, <1>4, <1>6, <1>7, <1>8, UnmovedOK DEF StreamInv, StreamOK, StreamNext

\* Everything the client and the reader of a session do.
LEMMA ClientReaderStep ==
  ASSUME TypeInv, StreamInv, NEW s \in Sessions, Client(s) \/ ClientReader(s)
  PROVE  StreamInv'
<1>1. CASE ReceiveResponse(s)
  <2>1. UNCHANGED <<vars, client, pushed, announced, signals, ring, pcm, closing>>
    BY <1>1 DEF ReceiveResponse, senderVars, readerVars
  <2>2. ClientTyped' /\ \A r \in Sessions : Unmoved(r)
    BY <2>1 DEF StreamInv, ClientTyped, Unmoved, vars, sessionVars
  <2> QED BY <2>2, UnmovedOK DEF StreamInv, StreamOK, StreamNext
<1>2. CASE EndOfStream(s) /\ closing[s] /\ ~Flushes(s) /\ UNCHANGED clientVars
  BY <1>2, EndOfStreamStep
<1>3. CASE /\ (Cancel(s) /\ Take(s, "cancel")) \/ (BadSignal(s, Held(s)) /\ Take(s, "bad"))
           /\ UNCHANGED <<senderVars, ring, readerVars, socket, over>>
  <2>1. UNCHANGED <<client, pushed, announced, ring, pcm, closing>> /\ sent' = sent
    BY <1>3 DEF senderVars, readerVars, Cancel, BadSignal
  <2>2. CASE Cancel(s) /\ Take(s, "cancel")
    BY <2>1, <2>2, BreakOffStep DEF Cancel
  <2>3. CASE BadSignal(s, Held(s)) /\ Take(s, "bad")
    BY <2>1, <2>3, BreakOffStep DEF BadSignal
  <2> QED BY <1>3, <2>2, <2>3
<1>4. CASE SendChunk(s, Held(s)) /\ UNCHANGED clientVars
  BY <1>4, SendChunkStep
<1> QED BY <1>1, <1>2, <1>3, <1>4, PushStep, SignalStep, DrainStep, EofStep, FlushStep,
           ReaderFailsStep
        DEF Client, ClientReader

\* The scheduler has only the other ends of a reader's queues.
LEMMA SchedulerLeaves == Scheduler => UNCHANGED <<reader, sent>>
BY DEF Scheduler, Send, Respond, Post, StartRun, DrainChunk, DrainNext, EndDrain, SelectJob,
       SelectReady, SelectResult, SelectError, Clear, SelectSleep, sessionVars

\* A reader begins with its session; nothing else in the daemon touches it.
LEMMA DaemonStep ==
  ASSUME TypeInv, StreamInv, PhaseInv,
         \/ \E s \in Sessions : ClientThread(s)
         \/ (\E w \in Workers : Worker(w)) /\ UNCHANGED clientVars
         \/ Scheduler /\ UNCHANGED clientVars
         \/ UNCHANGED allVars
  PROVE  StreamInv'
<1>1. ClientTyped /\ \A r \in Sessions : StreamOK(r)
  BY DEF StreamInv, StreamOK
<1>2. UNCHANGED <<client, pushed, announced, signals, ring, pcm, closing>>
  BY DEF ClientThread, Written, clientVars, senderVars, readerVars, allVars
<1>3. ClientTyped'
  BY <1>1, <1>2 DEF ClientTyped
<1>4. sent' = sent
  <2>1. CASE \E s \in Sessions : ClientThread(s)
    BY <2>1 DEF ClientThread, Submit, WriteResponse, TakeFinished, JoinReader
  <2>2. CASE \E w \in Workers : Worker(w)
    BY <2>2 DEF Worker, sessionVars
  <2>3. CASE Scheduler
    BY <2>3, SchedulerLeaves
  <2>4. CASE UNCHANGED allVars
    BY <2>4 DEF allVars, vars, sessionVars
  <2> QED BY <2>1, <2>2, <2>3, <2>4
<1>5. \/ reader' = reader
      \/ \E s \in Sessions : reader[s] = "none" /\ reader' = [reader EXCEPT ![s] = "reading"]
  <2>1. ASSUME NEW s \in Sessions, ClientThread(s)
        PROVE  reader' = reader \/ (reader[s] = "none" /\ reader' = [reader EXCEPT ![s] = "reading"])
    <3>1. phase[s] = "new" => reader[s] = "none"
      BY DEF PhaseInv
    <3> QED BY <2>1, <3>1 DEF ClientThread, Submit, WriteResponse, TakeFinished, JoinReader
  <2>2. CASE \E w \in Workers : Worker(w)
    BY <2>2 DEF Worker, sessionVars
  <2>3. CASE Scheduler
    BY <2>3, SchedulerLeaves
  <2>4. CASE UNCHANGED allVars
    BY <2>4 DEF allVars, vars, sessionVars
  <2> QED BY <2>1, <2>2, <2>3, <2>4
<1>6. ASSUME NEW r \in Sessions PROVE StreamNext(r)
  <2>1. CASE reader'[r] = reader[r]
    BY <1>1, <1>2, <1>4, <2>1, UnmovedOK DEF Unmoved
  <2>2. CASE reader[r] = "none" /\ reader'[r] = "reading"
    <3>1. SignalInv(r) /\ CutInv(r)
      BY <1>1 DEF StreamOK
    <3>2. SignalInv(r)'
      BY <1>2, <3>1, SignalsStay DEF SignalsUnmoved
    <3>3. Cut(r)' = Cut(r) /\ CutUnits(r)' = CutUnits(r)
      BY <1>2, <1>4, <2>2 DEF Cut, CutUnits
    <3>4. CutInv(r)'
      BY <1>2, <2>2, <3>1, <3>3 DEF CutInv
    <3> QED BY <3>2, <3>4 DEF StreamOK, StreamNext
  <2> QED BY <1>5, <2>1, <2>2 DEF TypeInv, SessionsTyped
<1> QED BY <1>3, <1>6 DEF StreamInv, StreamOK, StreamNext

-----------------------------------------------------------------------------
(* The stream is delivered.                                                *)

\* Nothing is pushed, announced or cut at first.
LEMMA InitStream == ClientInit => StreamInv
<1> SUFFICES ASSUME ClientInit PROVE StreamInv
  OBVIOUS
<1>1. ChunkUnits \in Nat \ {0} /\ RingUnits \in Nat \ {0} /\ 0 * ChunkUnits = 0
  BY ClientAssumption
<1>2. \A s \in Sessions :
        /\ client[s] = "push" /\ pushed[s] = 0 /\ announced[s] = 0 /\ signals[s] = <<>>
        /\ ring[s] = 0 /\ pcm[s] = 0 /\ closing[s] = FALSE
        /\ reader[s] = "none" /\ sent[s] = 0
  BY DEF ClientInit, Init, SessionsInit
<1>3. ClientTyped
  BY <1>1, EmptySeq DEF ClientInit, ClientTyped, ClientStates
<1>4. ASSUME NEW s \in Sessions PROVE SignalInv(s) /\ CutInv(s)
  <2>1. SignalInv(s)
    BY <1>2 DEF SignalInv
  <2>2. Cut(s) = 0 /\ CutUnits(s) = 0
    BY <1>2 DEF Cut, CutUnits
  <2>3. CutInv(s)
    BY <1>1, <1>2, <2>2 DEF CutInv
  <2> QED BY <2>1, <2>3
<1> QED BY <1>3, <1>4 DEF StreamInv

\* Every step of clients and daemon keeps the invariant.
LEMMA StepStream == CoreInv /\ StreamInv /\ [ClientNext]_allVars => StreamInv'
<1> SUFFICES ASSUME CoreInv, StreamInv, [ClientNext]_allVars PROVE StreamInv'
  OBVIOUS
<1>1. TypeInv /\ PhaseInv
  BY DEF CoreInv
<1> QED BY <1>1, ClientReaderStep, DaemonStep DEF ClientNext

\* However pushes, signals, drains and chunks divide the stream, and however
\* they overtake each other: what a reader has passed on when it reports its
\* stream complete is all that was announced, and nothing twice: StreamIsDelivered.
THEOREM ClientStreamIsDelivered == ClientSpec => []StreamIsDelivered
<1>1. ClientSpec => []CoreInv
  BY ClientImplementsLive, CoreHolds
<1>2. CoreInv /\ StreamInv => StreamIsDelivered
  BY StreamInvDelivers DEF CoreInv
<1> QED BY <1>1, <1>2, InitStream, StepStream, PTL DEF ClientSpec

\* The promise of Transcription is kept with these clients too.
THEOREM ClientGetsPromise == ClientSpec => ImplementsPromise
BY ClientImplementsLive, LiveImplementsPromise
==============================================================================
