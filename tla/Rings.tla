------------------------------- MODULE Rings -------------------------------
(***************************************************************************)
(* Facts about a ring of N entries between a reader's index h and a        *)
(* writer's index t, as the receive buffer of the UART and the event queue *)
(* of the GPIO interrupt keep one: h = t when it is empty, and one entry   *)
(* stays free to tell a full ring from an empty one.                       *)
(***************************************************************************)
EXTENDS Integers, Sequences, SequenceTheorems, TLAPS

(* How many entries are used, and what they hold, oldest first.            *)
RingLen(h, t, N) == (t - h) % N
Place(h, k, N) == (h + k - 1) % N
RingSeq(d, h, t, N) == [k \in 1..RingLen(h, t, N) |-> d[Place(h, k, N)]]

(* A ring, and one that is not full.                                       *)
IsRing(d, h, t, N) ==
    /\ N \in Nat \ {0}
    /\ d = [i \in 0..(N - 1) |-> d[i]]
    /\ h \in 0..(N - 1) /\ t \in 0..(N - 1)
HasRoom(h, t, N) == RingLen(h, t, N) < N - 1

(* One step of an index; storing into one entry.                           *)
Follows(u, i, N) == u = (i + 1) % N
Stored(e, d, i, x) == e = [d EXCEPT ![i] = x]

(* What % is for the numbers the indices of a ring are computed from.      *)
LEMMA Modulus ==
    ASSUME NEW N \in Nat \ {0}, NEW a \in (-N)..(2 * N - 1)
    PROVE  /\ a % N \in 0..(N - 1)
           /\ a < 0 => a % N = a + N
           /\ a \in 0..(N - 1) => a % N = a
           /\ a >= N => a % N = a - N
  OBVIOUS

(* The number of used entries, without %.                                  *)
LEMMA RingLenIs ==
    ASSUME NEW N \in Nat \ {0}, NEW h \in 0..(N - 1), NEW t \in 0..(N - 1)
    PROVE  /\ RingLen(h, t, N) \in 0..(N - 1)
           /\ RingLen(h, t, N) = IF h <= t THEN t - h ELSE t - h + N
           /\ RingLen(h, t, N) = 0 <=> h = t
  <1> DEFINE a == t - h
  <1>1. a \in (-N)..(2 * N - 1) /\ (h <= t <=> a \in 0..(N - 1)) /\ (h <= t <=> ~(a < 0))
    OBVIOUS
  <1>2. a % N = IF h <= t THEN a ELSE a + N
    <2> HIDE DEF a
    <2> QED BY <1>1, Modulus
  <1>3. RingLen(h, t, N) = IF h <= t THEN t - h ELSE t - h + N
    BY <1>2 DEF RingLen
  <1> QED BY <1>3

(* The place of the k-th used entry.                                       *)
LEMMA PlaceIs ==
    ASSUME NEW N \in Nat \ {0}, NEW h \in 0..(N - 1), NEW k \in 1..N
    PROVE  /\ Place(h, k, N) \in 0..(N - 1)
           /\ Place(h, k, N) = IF h + k - 1 < N THEN h + k - 1 ELSE h + k - 1 - N
  <1> DEFINE a == h + k - 1
  <1>1. a \in (-N)..(2 * N - 1) /\ (a < N <=> a \in 0..(N - 1)) /\ (a < N <=> ~(a >= N))
    OBVIOUS
  <1>2. a % N \in 0..(N - 1) /\ a % N = IF a < N THEN a ELSE a - N
    <2> HIDE DEF a
    <2> QED BY <1>1, Modulus
  <1> QED BY <1>2 DEF Place

(* The index after i.                                                      *)
LEMMA SuccessorIs ==
    ASSUME NEW N \in Nat \ {0}, NEW i \in 0..(N - 1)
    PROVE  /\ (i + 1) % N \in 0..(N - 1)
           /\ (i + 1) % N = IF i + 1 < N THEN i + 1 ELSE 0
  <1> DEFINE a == i + 1
  <1>1. a \in (-N)..(2 * N - 1) /\ (a < N <=> a \in 0..(N - 1)) /\ (a < N <=> ~(a >= N))
    OBVIOUS
  <1>2. a % N \in 0..(N - 1) /\ a % N = IF a < N THEN a ELSE a - N
    <2> HIDE DEF a
    <2> QED BY <1>1, Modulus
  <1>3. a - N = 0 \/ a < N
    OBVIOUS
  <1> QED BY <1>2, <1>3

(* The contents of a ring, entry by entry.                                 *)
LEMMA RingSeqIs ==
    ASSUME NEW N \in Nat \ {0}, NEW d, NEW h \in 0..(N - 1), NEW t \in 0..(N - 1)
    PROVE  /\ Len(RingSeq(d, h, t, N)) = RingLen(h, t, N)
           /\ \A k \in 1..RingLen(h, t, N) : RingSeq(d, h, t, N)[k] = d[Place(h, k, N)]
  <1> DEFINE n == RingLen(h, t, N)
             s == RingSeq(d, h, t, N)
             E == {d[Place(h, k, N)] : k \in 1..n}
  <1>1. n \in 0..(N - 1)
    BY RingLenIs
  <1>2. s \in [1..n -> E]
    BY DEF RingSeq
  <1>3. Len(s) = n
    <2> HIDE DEF s, n, E
    <2>1. s \in Seq(E)
      BY <1>1, <1>2, SeqDef
    <2> QED BY <1>1, <1>2, <2>1, LenProperties
  <1> QED BY <1>3 DEF RingSeq

(* They are a sequence of what the ring can hold.                          *)
LEMMA RingSeqIsSeq ==
    ASSUME NEW S, NEW N \in Nat \ {0}, NEW d \in [0..(N - 1) -> S],
           NEW h \in 0..(N - 1), NEW t \in 0..(N - 1)
    PROVE  RingSeq(d, h, t, N) \in Seq(S)
  <1> DEFINE n == RingLen(h, t, N)
             s == RingSeq(d, h, t, N)
  <1>1. n \in 0..(N - 1)
    BY RingLenIs
  <1>2. ASSUME NEW k \in 1..n PROVE d[Place(h, k, N)] \in S
    <2>1. k \in 1..N
      BY <1>1
    <2> HIDE DEF n
    <2> QED BY <2>1, PlaceIs
  <1>3. s \in [1..n -> S]
    BY <1>2 DEF RingSeq
  <1> HIDE DEF s, n
  <1>4. s \in Seq(S)
    BY <1>1, <1>3, SeqDef
  <1> QED BY <1>4 DEF s

(* A ring with nothing in it.                                              *)
LEMMA RingEmpty ==
    ASSUME NEW d, NEW N \in Nat \ {0}, NEW h \in 0..(N - 1)
    PROVE  RingSeq(d, h, h, N) = <<>>
  <1>1. RingLen(h, h, N) = 0
    BY RingLenIs
  <1> QED BY <1>1 DEF RingSeq

(* The writer stores into the entry at t and advances t.                   *)
LEMMA RingPut ==
    ASSUME NEW N, NEW d, NEW h, NEW t, IsRing(d, h, t, N), HasRoom(h, t, N),
           NEW x, NEW e, Stored(e, d, t, x), NEW u, Follows(u, t, N)
    PROVE  /\ RingLen(h, u, N) = RingLen(h, t, N) + 1
           /\ RingSeq(e, h, u, N) = Append(RingSeq(d, h, t, N), x)
  <1> DEFINE S == {d[i] : i \in 0..(N - 1)} \cup {x}
             n == RingLen(h, t, N)
             old == RingSeq(d, h, t, N)
             new == RingSeq(e, h, u, N)
  <1> N \in Nat \ {0} /\ h \in 0..(N - 1) /\ t \in 0..(N - 1)
    BY DEF IsRing
  <1>0. d \in [0..(N - 1) -> S] /\ x \in S
    BY DEF IsRing
  <1> HIDE DEF S
  <1>1. n \in 0..(N - 1) /\ n = IF h <= t THEN t - h ELSE t - h + N
    BY RingLenIs
  <1>2. u \in 0..(N - 1) /\ u = IF t + 1 < N THEN t + 1 ELSE 0
    BY SuccessorIs DEF Follows
  <1>3. RingLen(h, u, N) = IF h <= u THEN u - h ELSE u - h + N
    <2>1. u \in 0..(N - 1)
      BY <1>2
    <2> QED BY <2>1, RingLenIs
  <1>4. RingLen(h, u, N) = n + 1
    <2> HIDE DEF n
    <2>1. n < N - 1
      BY DEF n, HasRoom
    <2> QED BY <1>1, <1>2, <1>3, <2>1
  <1>5. e \in [0..(N - 1) -> S]
    BY <1>0 DEF Stored
  <1>6. old \in Seq(S) /\ Len(old) = n /\ \A k \in 1..n : old[k] = d[Place(h, k, N)]
    BY <1>0, RingSeqIs, RingSeqIsSeq
  <1>7. /\ new \in Seq(S) /\ Len(new) = n + 1
        /\ \A k \in 1..(n + 1) : new[k] = e[Place(h, k, N)]
    <2> HIDE DEF n
    <2>1. new \in Seq(S)
      BY <1>2, <1>5, RingSeqIsSeq
    <2>2. Len(new) = RingLen(h, u, N)
      BY <1>2, RingSeqIs
    <2>3. \A k \in 1..RingLen(h, u, N) : new[k] = e[Place(h, k, N)]
      BY DEF RingSeq
    <2> QED BY <1>4, <2>1, <2>2, <2>3, Zenon
  <1>8. /\ Append(old, x) \in Seq(S) /\ Len(Append(old, x)) = n + 1
        /\ \A k \in 1..n : Append(old, x)[k] = old[k]
        /\ Append(old, x)[n + 1] = x
    <2> HIDE DEF old, n
    <2> QED BY <1>0, <1>6, AppendProperties
  <1>9. ASSUME NEW k \in 1..(n + 1) PROVE new[k] = Append(old, x)[k]
    <2> DEFINE p == Place(h, k, N)
    <2>1. p \in 0..(N - 1) /\ p = IF h + k - 1 < N THEN h + k - 1 ELSE h + k - 1 - N
      <3>1. k \in 1..N
        <4> HIDE DEF n
        <4>1. n < N - 1
          BY DEF n, HasRoom
        <4> QED BY <1>1, <4>1
      <3> HIDE DEF n
      <3> QED BY <3>1, PlaceIs
    <2>2. p = t <=> k = n + 1
      <3> HIDE DEF p, n
      <3> QED BY <1>1, <2>1
    <2>3. e[p] = IF p = t THEN x ELSE d[p]
      <3> HIDE DEF p
      <3> QED BY <1>0, <2>1 DEF Stored
    <2>4. new[k] = e[p]
      BY <1>7
    <2>5. CASE k = n + 1
      <3> HIDE DEF p, n, old, new
      <3> QED BY <1>8, <2>2, <2>3, <2>4, <2>5
    <2>6. CASE k # n + 1
      <3>1. k \in 1..n
        <4> HIDE DEF n
        <4> QED BY <1>1, <2>6
      <3>2. old[k] = d[p]
        BY <1>6, <3>1
      <3> HIDE DEF p, n, old, new
      <3> QED BY <1>8, <2>2, <2>3, <2>4, <2>6, <3>1, <3>2
    <2> QED BY <2>5, <2>6
  <1> HIDE DEF n, old, new
  <1>10. new = Append(old, x)
    BY <1>7, <1>8, <1>9, SeqEqual
  <1> QED BY <1>4, <1>10 DEF n, old, new

(* The reader takes the entry at h and advances h.                         *)
LEMMA RingTake ==
    ASSUME NEW N, NEW d, NEW h, NEW t, IsRing(d, h, t, N), h # t,
           NEW g, Follows(g, h, N)
    PROVE  /\ RingLen(g, t, N) = RingLen(h, t, N) - 1
           /\ RingSeq(d, h, t, N) # <<>>
           /\ RingSeq(d, g, t, N) = Tail(RingSeq(d, h, t, N))
           /\ Head(RingSeq(d, h, t, N)) = d[h]
  <1> DEFINE S == {d[i] : i \in 0..(N - 1)}
             n == RingLen(h, t, N)
             old == RingSeq(d, h, t, N)
             new == RingSeq(d, g, t, N)
  <1> N \in Nat \ {0} /\ h \in 0..(N - 1) /\ t \in 0..(N - 1)
    BY DEF IsRing
  <1>0. d \in [0..(N - 1) -> S]
    BY DEF IsRing
  <1> HIDE DEF S
  <1>1. n \in 1..(N - 1) /\ n = IF h <= t THEN t - h ELSE t - h + N
    <2>1. n \in 0..(N - 1)
      BY RingLenIs
    <2>2. n = IF h <= t THEN t - h ELSE t - h + N
      BY RingLenIs
    <2> HIDE DEF n
    <2> QED BY <2>1, <2>2
  <1>2. g \in 0..(N - 1) /\ g = IF h + 1 < N THEN h + 1 ELSE 0
    BY SuccessorIs DEF Follows
  <1>3. RingLen(g, t, N) = IF g <= t THEN t - g ELSE t - g + N
    <2>1. g \in 0..(N - 1)
      BY <1>2
    <2> QED BY <2>1, RingLenIs
  <1>4. RingLen(g, t, N) = n - 1
    <2> HIDE DEF n
    <2> QED BY <1>1, <1>2, <1>3
  <1>5. old \in Seq(S) /\ Len(old) = n /\ \A k \in 1..n : old[k] = d[Place(h, k, N)]
    BY <1>0, RingSeqIs, RingSeqIsSeq
  <1>6. /\ new \in Seq(S) /\ Len(new) = n - 1
        /\ \A k \in 1..(n - 1) : new[k] = d[Place(g, k, N)]
    <2> HIDE DEF n
    <2>1. new \in Seq(S)
      BY <1>0, <1>2, RingSeqIsSeq
    <2>2. Len(new) = RingLen(g, t, N)
      BY <1>2, RingSeqIs
    <2>3. \A k \in 1..RingLen(g, t, N) : new[k] = d[Place(g, k, N)]
      BY DEF RingSeq
    <2> QED BY <1>4, <2>1, <2>2, <2>3, Zenon
  <1>7. /\ old # <<>> /\ Tail(old) \in Seq(S) /\ Len(Tail(old)) = n - 1
        /\ \A k \in 1..(n - 1) : Tail(old)[k] = old[k + 1]
        /\ Head(old) = old[1]
    <2> HIDE DEF old, n
    <2>1. old # <<>>
      BY <1>1, <1>5
    <2> QED BY <1>5, <2>1, HeadTailProperties
  <1>8. old[1] = d[h]
    <2>1. Place(h, 1, N) = h
      <3>1. 1 \in 1..N
        OBVIOUS
      <3> QED BY <3>1, PlaceIs
    <2> HIDE DEF old, n
    <2> QED BY <1>1, <1>5, <2>1
  <1>9. ASSUME NEW k \in 1..(n - 1) PROVE new[k] = Tail(old)[k]
    <2> DEFINE p == Place(g, k, N)
               q == Place(h, k + 1, N)
    <2>0. k \in 1..N /\ k + 1 \in 1..N /\ k + 1 \in 1..n
      <3> HIDE DEF n
      <3> QED BY <1>1
    <2>1. p = IF g + k - 1 < N THEN g + k - 1 ELSE g + k - 1 - N
      <3> HIDE DEF n
      <3> QED BY <1>2, <2>0, PlaceIs
    <2>2. q = IF h + k < N THEN h + k ELSE h + k - N
      <3> DEFINE m == k + 1
      <3>1. Place(h, m, N) = IF h + m - 1 < N THEN h + m - 1 ELSE h + m - 1 - N
        <4>1. m \in 1..N
          BY <2>0
        <4> HIDE DEF m
        <4> QED BY <4>1, PlaceIs
      <3>2. h + m - 1 = h + k
        <4> HIDE DEF n
        <4> QED BY <2>0
      <3> QED BY <3>1, <3>2
    <2>3. p = q
      <3> HIDE DEF p, q, n
      <3> QED BY <1>2, <2>0, <2>1, <2>2
    <2>4. new[k] = d[p] /\ old[k + 1] = d[q]
      BY <1>5, <1>6, <2>0
    <2> HIDE DEF p, q, n, old, new
    <2> QED BY <1>7, <2>3, <2>4
  <1> HIDE DEF n, old, new
  <1>10. new = Tail(old)
    BY <1>6, <1>7, <1>9, SeqEqual
  <1> QED BY <1>4, <1>7, <1>8, <1>10 DEF n, old, new

(* The entry before the reader's is the one that stays free.               *)
LEMMA RingRoom ==
    ASSUME NEW N, NEW d, NEW h, NEW t, IsRing(d, h, t, N), (t + 1) % N # h
    PROVE  HasRoom(h, t, N)
  <1> DEFINE u == (t + 1) % N
             n == RingLen(h, t, N)
  <1>1. N \in Nat \ {0} /\ h \in 0..(N - 1) /\ t \in 0..(N - 1)
    BY DEF IsRing
  <1>2. u = IF t + 1 < N THEN t + 1 ELSE 0
    BY <1>1, SuccessorIs
  <1>3. n \in 0..(N - 1) /\ n = IF h <= t THEN t - h ELSE t - h + N
    BY <1>1, RingLenIs
  <1>4. u # h
    OBVIOUS
  <1> HIDE DEF u, n
  <1>5. n < N - 1
    BY <1>1, <1>2, <1>3, <1>4
  <1> QED BY <1>5 DEF n, HasRoom

(* Storing into the entry at t, before t is advanced, changes nothing that *)
(* the reader sees.                                                        *)
LEMMA RingStore ==
    ASSUME NEW N, NEW d, NEW h, NEW t, IsRing(d, h, t, N),
           NEW x, NEW e, Stored(e, d, t, x)
    PROVE  IsRing(e, h, t, N) /\ RingSeq(e, h, t, N) = RingSeq(d, h, t, N)
  <1> DEFINE n == RingLen(h, t, N)
  <1>1. N \in Nat \ {0} /\ h \in 0..(N - 1) /\ t \in 0..(N - 1)
    BY DEF IsRing
  <1>2. n \in 0..(N - 1) /\ n = IF h <= t THEN t - h ELSE t - h + N
    BY <1>1, RingLenIs
  <1>3. IsRing(e, h, t, N)
    BY DEF IsRing, Stored
  <1>4. ASSUME NEW k \in 1..n PROVE e[Place(h, k, N)] = d[Place(h, k, N)]
    <2> DEFINE p == Place(h, k, N)
    <2>1. p \in 0..(N - 1) /\ p = IF h + k - 1 < N THEN h + k - 1 ELSE h + k - 1 - N
      <3>1. k \in 1..N
        <4> HIDE DEF n
        <4> QED BY <1>1, <1>2
      <3> QED BY <1>1, <3>1, PlaceIs
    <2>2. p # t
      <3> HIDE DEF p, n
      <3> QED BY <1>1, <1>2, <2>1
    <2> HIDE DEF p
    <2>3. e[p] = d[p]
      BY <2>1, <2>2 DEF IsRing, Stored
    <2> QED BY <2>3 DEF p
  <1>5. RingSeq(e, h, t, N) = RingSeq(d, h, t, N)
    BY <1>4 DEF RingSeq
  <1> QED BY <1>3, <1>5
=============================================================================
