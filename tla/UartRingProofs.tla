--------------------------- MODULE UartRingProofs ---------------------------
(***************************************************************************)
(* Proofs about UartRing: while the ring is not overrun, what the methods  *)
(* return is the stream of received bytes, cut at the places they ask for. *)
(***************************************************************************)
EXTENDS UartRing, Rings

----------------------------------------------------------------------------
(* Sequences.                                                              *)

(* What is received goes to the end of what is buffered and pending.       *)
LEMMA ConcatAppend ==
    ASSUME NEW S, NEW s \in Seq(S), NEW t \in Seq(S), NEW x \in S
    PROVE  s \o Append(t, x) = Append(s \o t, x)
  <1> DEFINE a == s \o Append(t, x)
             b == Append(s \o t, x)
  <1>1. Append(t, x) \in Seq(S) /\ Len(Append(t, x)) = Len(t) + 1 /\ s \o t \in Seq(S)
    OBVIOUS
  <1>2. a \in Seq(S) /\ b \in Seq(S) /\ Len(a) = Len(s) + Len(t) + 1 /\ Len(b) = Len(a)
    BY <1>1
  <1>3. ASSUME NEW k \in 1..Len(a) PROVE a[k] = b[k]
    <2>1. CASE k <= Len(s)
      BY <1>1, <1>2, <2>1
    <2>2. CASE k > Len(s) /\ k <= Len(s) + Len(t)
      BY <1>1, <1>2, <2>2
    <2>3. CASE k = Len(s) + Len(t) + 1
      BY <1>1, <1>2, <2>3
    <2> QED BY <1>2, <2>1, <2>2, <2>3
  <1> HIDE DEF a, b
  <1>4. a = b
    BY <1>2, <1>3, SeqEqual
  <1> QED BY <1>4 DEF a, b

(* Moving the first of t to the end of s changes nothing for the two.      *)
LEMMA ConcatMove ==
    ASSUME NEW S, NEW s \in Seq(S), NEW t \in Seq(S), t # <<>>
    PROVE  Append(s, Head(t)) \o Tail(t) = s \o t
  <1> DEFINE u == Append(s, Head(t))
             v == Tail(t)
             a == u \o v
             b == s \o t
  <1>1. u \in Seq(S) /\ Len(u) = Len(s) + 1 /\ v \in Seq(S) /\ Len(v) = Len(t) - 1
        /\ Len(t) \in Nat \ {0} /\ Len(s) \in Nat
    OBVIOUS
  <1>2. /\ \A k \in 1..Len(s) : u[k] = s[k]
        /\ u[Len(s) + 1] = t[1]
        /\ \A k \in 1..(Len(t) - 1) : v[k] = t[k + 1]
    OBVIOUS
  <1> HIDE DEF u, v
  <1>3. a \in Seq(S) /\ b \in Seq(S) /\ Len(a) = Len(s) + Len(t) /\ Len(b) = Len(a)
    <2>1. a \in Seq(S) /\ Len(a) = Len(u) + Len(v)
      BY <1>1, ConcatProperties
    <2>2. b \in Seq(S) /\ Len(b) = Len(s) + Len(t)
      OBVIOUS
    <2> HIDE DEF a, b
    <2> QED BY <1>1, <2>1, <2>2
  <1>4. ASSUME NEW k \in 1..Len(a) PROVE a[k] = b[k]
    <2>1. CASE k <= Len(s)
      BY <1>1, <1>2, <1>3, <2>1
    <2>2. CASE k = Len(s) + 1
      BY <1>1, <1>2, <1>3, <2>2
    <2>3. CASE k > Len(s) + 1
      <3>1. a[k] = v[k - Len(s) - 1] /\ b[k] = t[k - Len(s)]
        BY <1>1, <1>3, <2>3
      <3>2. k - Len(s) - 1 \in 1..(Len(t) - 1) /\ k - Len(s) - 1 + 1 = k - Len(s)
        BY <1>1, <1>3, <2>3
      <3> QED BY <1>2, <3>1, <3>2
    <2> QED BY <1>1, <1>3, <2>1, <2>2, <2>3
  <1>5. a = b
    <2> HIDE DEF a, b
    <2> QED BY <1>3, <1>4, SeqEqual
  <1> QED BY <1>5 DEF u, v

(* Cutting s \o t after s.                                                 *)
LEMMA ConcatCut ==
    ASSUME NEW S, NEW s \in Seq(S), NEW t \in Seq(S)
    PROVE  /\ Len(s) \in 0..Len(s \o t)
           /\ SubSeq(s \o t, 1, Len(s)) = s
           /\ SubSeq(s \o t, Len(s) + 1, Len(s \o t)) = t
  <1> DEFINE c == s \o t
             a == SubSeq(c, 1, Len(s))
             b == SubSeq(c, Len(s) + 1, Len(c))
  <1>1. c \in Seq(S) /\ Len(c) = Len(s) + Len(t) /\ Len(s) \in Nat /\ Len(t) \in Nat
    OBVIOUS
  <1>2. /\ \A k \in 1..Len(s) : c[k] = s[k]
        /\ \A k \in 1..Len(t) : c[Len(s) + k] = t[k]
    OBVIOUS
  <1> HIDE DEF c
  <1>3. a = s
    <2>1. a \in Seq(S) /\ Len(a) = Len(s) /\ \A k \in 1..Len(s) : a[k] = c[k]
      BY <1>1
    <2> HIDE DEF a
    <2> QED BY <1>2, <2>1, SeqEqual
  <1>4. b = t
    <2>1. b \in Seq(S) /\ Len(b) = Len(t)
      BY <1>1
    <2>2. \A k \in 1..Len(t) : b[k] = c[Len(s) + k]
      BY <1>1
    <2> HIDE DEF b
    <2> QED BY <1>2, <2>1, <2>2, SeqEqual
  <1> QED BY <1>1, <1>3, <1>4 DEF c

----------------------------------------------------------------------------
(* The inductive invariant.                                                *)

Cells == Bytes \cup {Garbage}
Places == {"idle", "search", "pop", "copy", "clear"}

Pending == IF pc = "clear" THEN <<>> ELSE buf \o Contents

Typed ==
    /\ data \in [Indices -> Cells] /\ head \in Indices /\ tail \in Indices
    /\ pc \in Places
    /\ want \in Nat /\ left \in Nat /\ pos \in Nat
    /\ buf \in Seq(Cells)

(* What the method under way is going to take is in the ring: the          *)
(* interrupt only adds, so what was available when a length was chosen     *)
(* still is, and popBuffer copies all of it.                               *)
Progress ==
    /\ pc # "copy" => buf = <<>>
    /\ pc = "clear" => head = 0
    /\ pc = "search" => pos <= bufferDataSize
    /\ pc = "pop" => want <= bufferDataSize
    /\ pc = "copy" => Len(buf) + left = want /\ left <= bufferDataSize

(* The bytes searchCharBuffer has passed are no newlines; the length gets  *)
(* has chosen reaches to the first one.                                    *)
LineFound ==
    /\ pc = "search" => \A k \in 1..pos : (buf \o Contents)[k] # NewLine
    /\ op = "gets" /\ pc \in {"pop", "copy"} =>
          \A k \in 1..want : (buf \o Contents)[k] = NewLine <=> k = want

Inv == Typed /\ Progress /\ LineFound

(* The size is a power of two; that it is at least two is all that matters *)
(* here.                                                                   *)
LEMMA SizeFact == Size \in Nat \ {0, 1}
  BY PowerOfTwoAssumption

(* The ring in a state of the right types.                                 *)
LEMMA RingState ==
    ASSUME Typed
    PROVE  /\ Contents = RingSeq(data, head, tail, Size)
           /\ bufferDataSize = RingLen(head, tail, Size)
           /\ bufferDataSize \in 0..(Size - 1)
           /\ bufferDataSize = 0 <=> head = tail
           /\ Contents \in Seq(Cells) /\ Len(Contents) = bufferDataSize
  <1>1. Contents = RingSeq(data, head, tail, Size)
    BY DEF Contents, bufferDataSize, RingSeq, RingLen, Place
  <1>2. bufferDataSize = RingLen(head, tail, Size)
    BY DEF bufferDataSize, RingLen
  <1>3. Size \in Nat \ {0} /\ head \in 0..(Size - 1) /\ tail \in 0..(Size - 1)
        /\ data \in [0..(Size - 1) -> Cells]
    BY SizeFact DEF Typed, Indices
  <1>4. RingLen(head, tail, Size) \in 0..(Size - 1)
    BY <1>3, RingLenIs
  <1>5. RingLen(head, tail, Size) = 0 <=> head = tail
    BY <1>3, RingLenIs
  <1>6. RingSeq(data, head, tail, Size) \in Seq(Cells)
    BY <1>3, RingSeqIsSeq
  <1>7. Len(RingSeq(data, head, tail, Size)) = RingLen(head, tail, Size)
    BY <1>3, RingSeqIs
  <1> QED BY <1>1, <1>2, <1>4, <1>5, <1>6, <1>7

(* A byte that is received into a ring with room is the last of its        *)
(* contents.                                                               *)
LEMMA RingPush ==
    ASSUME Typed, NEW ch \in Bytes, bufferDataSize < Size - 1,
           Stored(data', data, tail, ch), Follows(tail', tail, Size), head' = head
    PROVE  /\ Contents' = Append(Contents, ch)
           /\ bufferDataSize' = bufferDataSize + 1
  <1>1. IsRing(data, head, tail, Size)
    BY SizeFact DEF Typed, Indices, IsRing
  <1>2. HasRoom(head, tail, Size)
    BY DEF bufferDataSize, RingLen, HasRoom
  <1>3. /\ RingLen(head, tail', Size) = RingLen(head, tail, Size) + 1
        /\ RingSeq(data', head, tail', Size) = Append(RingSeq(data, head, tail, Size), ch)
    BY <1>1, <1>2, RingPut
  <1>4. /\ bufferDataSize' = RingLen(head, tail', Size)
        /\ Contents' = RingSeq(data', head, tail', Size)
    BY DEF bufferDataSize, Contents, RingLen, RingSeq, Place
  <1> QED BY <1>3, <1>4, RingState

(* The byte at head is the first of the contents.                          *)
LEMMA RingPop ==
    ASSUME Typed, head # tail,
           head' = Advanced(head), UNCHANGED <<data, tail>>
    PROVE  /\ Contents # <<>> /\ Head(Contents) = data[head]
           /\ Contents' = Tail(Contents)
           /\ bufferDataSize' = bufferDataSize - 1
  <1>1. IsRing(data, head, tail, Size)
    BY SizeFact DEF Typed, Indices, IsRing
  <1> DEFINE s == RingSeq(data, head, tail, Size)
  <1>2. Follows(head', head, Size)
    BY DEF Advanced, Follows
  <1>3. /\ RingLen(head', tail, Size) = RingLen(head, tail, Size) - 1
        /\ RingSeq(data, head', tail, Size) = Tail(s)
        /\ s # <<>> /\ Head(s) = data[head]
    BY <1>1, <1>2, RingTake
  <1>4. /\ bufferDataSize' = RingLen(head', tail, Size)
        /\ Contents' = RingSeq(data, head', tail, Size)
    BY DEF bufferDataSize, Contents, RingLen, RingSeq, Place
  <1>5. s = Contents /\ bufferDataSize = RingLen(head, tail, Size)
    BY RingState
  <1> HIDE DEF s
  <1> QED BY <1>3, <1>4, <1>5

(* The byte that searchCharBuffer looks at.                                *)
LEMMA RingLook ==
    ASSUME Typed, buf = <<>>, pos < bufferDataSize
    PROVE  (buf \o Contents)[pos + 1] = data[(head + pos) % Size]
  <1>1. Contents \in Seq(Cells) /\ Len(Contents) = bufferDataSize /\ bufferDataSize \in Nat
    BY RingState
  <1>2. buf \o Contents = Contents
    BY <1>1
  <1>3. pos \in Nat /\ pos + 1 \in 1..bufferDataSize
    BY <1>1 DEF Typed
  <1>4. Contents[pos + 1] = data[(head + (pos + 1) - 1) % Size]
    BY <1>3 DEF Contents
  <1>5. head + (pos + 1) - 1 = head + pos
    BY <1>3, SizeFact DEF Typed, Indices
  <1> QED BY <1>2, <1>4, <1>5

(* What the method is looking at or going to return lies within what is    *)
(* buffered and pending.                                                   *)
LEMMA InReach ==
    ASSUME Inv
    PROVE  /\ buf \o Contents \in Seq(Cells)
           /\ Len(buf \o Contents) = Len(buf) + bufferDataSize
           /\ pc = "search" => pos <= Len(buf \o Contents)
           /\ pc \in {"pop", "copy"} => want <= Len(buf \o Contents)
  <1>1. buf \in Seq(Cells) /\ Len(buf) \in Nat
    BY DEF Inv, Typed
  <1>2. Contents \in Seq(Cells) /\ Len(Contents) = bufferDataSize /\ bufferDataSize \in Nat
    BY RingState DEF Inv
  <1>3. /\ buf \o Contents \in Seq(Cells)
        /\ Len(buf \o Contents) = Len(buf) + bufferDataSize
    <2> HIDE DEF Contents, bufferDataSize
    <2> QED BY <1>1, <1>2
  <1>4. pos \in Nat /\ want \in Nat /\ left \in Nat
    BY DEF Inv, Typed
  <1> QED BY <1>1, <1>2, <1>3, <1>4 DEF Inv, Progress

(* The line stays found while bytes are only added behind it.              *)
LEMMA LineKept ==
    ASSUME Inv, UNCHANGED <<pc, op, pos, want>>, pc \in {"search", "pop", "copy"},
           \A k \in 1..Len(buf \o Contents) :
               (buf \o Contents)'[k] = (buf \o Contents)[k]
    PROVE  LineFound'
  <1> DEFINE Q == buf \o Contents
  <1>1. /\ pc = "search" => pos <= Len(Q)
        /\ pc \in {"pop", "copy"} => want <= Len(Q)
        /\ Len(Q) \in Nat
    BY InReach, LenProperties
  <1>2. pos \in Nat /\ want \in Nat
    BY DEF Inv, Typed
  <1>3. ASSUME pc = "search", NEW k \in 1..pos PROVE Q'[k] # NewLine
    <2>1. k \in 1..Len(Q)
      BY <1>1, <1>2, <1>3
    <2>2. Q[k] # NewLine
      BY <1>3 DEF Inv, LineFound
    <2> QED BY <2>1, <2>2
  <1>4. ASSUME op = "gets", pc \in {"pop", "copy"}, NEW k \in 1..want
        PROVE  Q'[k] = NewLine <=> k = want
    <2>1. k \in 1..Len(Q)
      BY <1>1, <1>2, <1>4
    <2>2. Q[k] = NewLine <=> k = want
      BY <1>4 DEF Inv, LineFound
    <2> QED BY <2>1, <2>2
  <1> HIDE DEF Q
  <1> QED BY <1>3, <1>4 DEF LineFound, Q

----------------------------------------------------------------------------
(* The actions: each preserves the invariant, and is a step of the stream  *)
(* or none.                                                                *)

Same == Pending' = Pending /\ result' = result

Interrupted(ch) ==
    \/ Pending' = Append(Pending, ch) /\ result' = result
    \/ Same

LEMMA PushStep ==
    ASSUME Inv, ~MayOverrun, NEW ch \in Bytes, UART_pushBuffer(ch)
    PROVE  Inv' /\ Interrupted(ch)
  <1> USE DEF UART_pushBuffer
  <1>1. Typed'
    <2>1. tail' \in 0..(Size - 1)
      <3>1. tail \in 0..(Size - 1) /\ Size \in Nat \ {0}
        BY SizeFact DEF Inv, Typed, Indices
      <3> QED BY <3>1, SuccessorIs DEF Advanced
    <2> QED BY <2>1 DEF Inv, Typed, Indices, Cells
  <1>2. CASE pc = "clear"
    <2>1. Progress'
      BY <1>2 DEF Inv, Progress
    <2>2. LineFound'
      BY <1>2 DEF LineFound
    <2>3. Same
      BY <1>2 DEF Same, Pending
    <2> QED BY <1>1, <2>1, <2>2, <2>3 DEF Inv, Interrupted
  <1>3. CASE pc # "clear"
    <2>1. /\ Contents' = Append(Contents, ch)
          /\ bufferDataSize' = bufferDataSize + 1
      BY <1>3, RingPush DEF Inv, Stored, Follows, Advanced
    <2>2. buf \in Seq(Cells) /\ Contents \in Seq(Cells) /\ ch \in Cells
          /\ bufferDataSize \in Nat
      BY RingState DEF Inv, Typed, Cells
    <2>3. (buf \o Contents)' = Append(buf \o Contents, ch)
      <3> HIDE DEF Contents
      <3>1. buf \o Append(Contents, ch) = Append(buf \o Contents, ch)
        BY <2>2, ConcatAppend
      <3> QED BY <2>1, <3>1
    <2>4. Progress'
      <3>1. UNCHANGED <<pc, head, pos, want, left, buf>>
        OBVIOUS
      <3>2. pos \in Nat /\ want \in Nat /\ left \in Nat /\ Progress
        BY DEF Inv, Typed
      <3> QED BY <2>1, <2>2, <3>1, <3>2 DEF Progress
    <2>5. LineFound'
      <3>1. CASE pc = "idle"
        BY <3>1 DEF LineFound
      <3>2. CASE pc \in {"search", "pop", "copy"}
        <4>1. \A k \in 1..Len(buf \o Contents) :
                 (buf \o Contents)'[k] = (buf \o Contents)[k]
          BY <2>2, <2>3, InReach, AppendProperties
        <4> QED BY <3>2, <4>1, LineKept
      <3> QED BY <1>3, <3>1, <3>2 DEF Inv, Typed, Places
    <2>6. Pending' = Append(Pending, ch)
      BY <1>3, <2>3 DEF Pending
    <2> QED BY <1>1, <2>4, <2>5, <2>6 DEF Inv, Interrupted
  <1> QED BY <1>2, <1>3

(* A step that leaves the ring and the buffer alone.                       *)
LEMMA RingUntouched ==
    ASSUME Inv, UNCHANGED <<data, head, tail, buf>>
    PROVE  /\ Contents' = Contents /\ bufferDataSize' = bufferDataSize
           /\ pc # "clear" /\ pc' # "clear" => Pending' = Pending
  BY DEF Contents, bufferDataSize, Pending

LEMMA EnterStep ==
    ASSUME Inv, NEW method, method # "gets", NEW len \in Nat, len <= bufferDataSize,
           Enter(method, len)
    PROVE  Inv' /\ Same
  <1> USE DEF Enter, ringVars
  <1>1. Contents' = Contents /\ bufferDataSize' = bufferDataSize /\ Pending' = Pending
    BY RingUntouched
  <1>2. Typed'
    BY DEF Inv, Typed, Places
  <1>3. Progress'
    BY <1>1 DEF Inv, Progress
  <1>4. LineFound'
    BY DEF LineFound
  <1> QED BY <1>1, <1>2, <1>3, <1>4 DEF Inv, Same

(* read, with and without a length, and readpartial choose a length that   *)
(* is available.                                                           *)
LEMMA ReadStep ==
    ASSUME Inv, mrb_read \/ ReadAll \/ mrb_readpartial
    PROVE  Inv' /\ Same
  <1>1. bufferDataSize \in Nat /\ 0..MaxLen \subseteq Nat
    BY RingState, BoundsAssumption DEF Inv
  <1>2. CASE mrb_read
    BY <1>1, <1>2, EnterStep DEF mrb_read
  <1>3. CASE ReadAll
    BY <1>1, <1>3, EnterStep DEF ReadAll
  <1>4. CASE mrb_readpartial
    <2>1. PICK maxlen \in 0..MaxLen :
             Enter("readpartial",
                   IF bufferDataSize < maxlen THEN bufferDataSize ELSE maxlen)
      BY <1>4 DEF mrb_readpartial
    <2> DEFINE len == IF bufferDataSize < maxlen THEN bufferDataSize ELSE maxlen
    <2>2. len \in Nat /\ len <= bufferDataSize /\ Enter("readpartial", len)
      BY <1>1, <2>1
    <2> HIDE DEF len
    <2> QED BY <2>2, EnterStep
  <1> QED BY <1>2, <1>3, <1>4

LEMMA GetsStep ==
    ASSUME Inv, mrb_gets
    PROVE  Inv' /\ Same
  <1> USE DEF mrb_gets, ringVars
  <1>1. Contents' = Contents /\ bufferDataSize' = bufferDataSize /\ Pending' = Pending
    BY RingUntouched
  <1>2. Typed'
    BY DEF Inv, Typed, Places
  <1>3. Progress'
    <2>1. bufferDataSize \in Nat
      BY RingState DEF Inv
    <2> QED BY <1>1, <2>1 DEF Inv, Progress
  <1>4. LineFound'
    BY DEF LineFound
  <1> QED BY <1>1, <1>2, <1>3, <1>4 DEF Inv, Same

LEMMA SearchStep ==
    ASSUME Inv, searchCharBuffer
    PROVE  Inv' /\ Same
  <1> USE DEF searchCharBuffer, ringVars
  <1>1. Contents' = Contents /\ bufferDataSize' = bufferDataSize /\ Pending' = Pending
    BY RingUntouched
  <1>2. Typed'
    BY DEF Inv, Typed, Places, LineLength
  <1>3. bufferDataSize \in Nat /\ pos \in Nat /\ buf = <<>> /\ pc = "search"
    BY RingState DEF Inv, Typed, Progress
  <1>4. \A k \in 1..pos : (buf \o Contents)[k] # NewLine
    BY DEF Inv, LineFound
  <1>5. (buf \o Contents)' = buf \o Contents
    BY <1>1
  <1>6. CASE pos >= bufferDataSize /\ pc' = "idle"
    BY <1>1, <1>2, <1>3, <1>6 DEF Inv, Same, Progress, LineFound
  <1>7. CASE pos < bufferDataSize /\ data[(head + pos) % Size] = NewLine /\ pc' = "pop"
    <2>1. want' = pos + 1
      BY <1>3, <1>7 DEF LineLength
    <2>2. (buf \o Contents)[pos + 1] = NewLine
      BY <1>3, <1>7, RingLook DEF Inv
    <2>3. Progress'
      BY <1>1, <1>3, <1>7, <2>1 DEF Progress
    <2>4. ASSUME NEW k \in 1..want' PROVE (buf \o Contents)'[k] = NewLine <=> k = want'
      <3>1. k \in 1..pos \/ k = pos + 1
        BY <1>3, <2>1
      <3> QED BY <1>3, <1>4, <1>5, <2>1, <2>2, <3>1
    <2>5. LineFound'
      BY <1>7, <2>4 DEF LineFound
    <2> QED BY <1>1, <1>2, <2>3, <2>5 DEF Inv, Same
  <1>8. CASE pos < bufferDataSize /\ data[(head + pos) % Size] # NewLine /\ UNCHANGED pc
    <2>1. pos' = pos + 1
      BY <1>3, <1>8
    <2>2. (buf \o Contents)[pos + 1] # NewLine
      BY <1>3, <1>8, RingLook DEF Inv
    <2>3. Progress'
      BY <1>1, <1>3, <1>8, <2>1 DEF Progress
    <2>4. ASSUME NEW k \in 1..pos' PROVE (buf \o Contents)'[k] # NewLine
      <3>1. k \in 1..pos \/ k = pos + 1
        BY <1>3, <2>1
      <3> QED BY <1>4, <1>5, <2>2, <3>1
    <2>5. LineFound'
      BY <1>3, <1>8, <2>4 DEF LineFound
    <2> QED BY <1>1, <1>2, <2>3, <2>5 DEF Inv, Same
  <1> QED BY <1>6, <1>7, <1>8

(* popBuffer finds at least as much as the method wants.                   *)
LEMMA PopBufferStep ==
    ASSUME Inv, popBuffer
    PROVE  Inv' /\ Same
  <1> USE DEF popBuffer, ringVars
  <1>1. pc = "pop" /\ buf = <<>> /\ buf' = <<>> /\ pc' = "copy"
    BY DEF Inv, Progress
  <1>2. Contents' = Contents /\ bufferDataSize' = bufferDataSize /\ Pending' = Pending
    BY <1>1, RingUntouched
  <1>3. left' = want /\ want \in Nat /\ want <= bufferDataSize
    <2>1. /\ bufferDataSize \in 0..(Size - 1)
          /\ bufferDataSize = 0 <=> head = tail
      BY RingState DEF Inv
    <2>2. want \in Nat /\ want <= bufferDataSize /\ Size \in Nat
      BY <1>1, SizeFact DEF Inv, Typed, Progress
    <2> HIDE DEF bufferDataSize
    <2> QED BY <2>1, <2>2
  <1>4. Typed'
    BY <1>1, <1>3 DEF Inv, Typed, Places
  <1>5. Progress'
    BY <1>1, <1>2, <1>3 DEF Progress
  <1>6. LineFound'
    BY <1>1, <1>2 DEF Inv, LineFound
  <1> QED BY <1>2, <1>4, <1>5, <1>6 DEF Inv, Same

LEMMA PopByteStep ==
    ASSUME Inv, PopByte
    PROVE  Inv' /\ Same
  <1> USE DEF PopByte
  <1>1. /\ pc = "copy" /\ pc' = "copy" /\ left \in Nat \ {0} /\ want \in Nat
        /\ left <= bufferDataSize /\ Len(buf) + left = want
    BY DEF Inv, Typed, Progress
  <1>2. /\ Contents \in Seq(Cells) /\ Len(Contents) = bufferDataSize
        /\ bufferDataSize \in Nat /\ (bufferDataSize = 0 <=> head = tail)
    BY RingState DEF Inv
  <1>3. head # tail
    BY <1>1, <1>2
  <1>4. /\ Contents # <<>> /\ Head(Contents) = data[head]
        /\ Contents' = Tail(Contents)
        /\ bufferDataSize' = bufferDataSize - 1
    BY <1>3, RingPop DEF Inv
  <1>5. buf \in Seq(Cells) /\ Len(buf) \in Nat /\ data[head] \in Cells
    BY DEF Inv, Typed
  <1>6. buf' \in Seq(Cells) /\ Len(buf') = Len(buf) + 1
    BY <1>5
  <1>7. (buf \o Contents)' = buf \o Contents
    <2>1. Append(buf, Head(Contents)) \o Tail(Contents) = buf \o Contents
      BY <1>2, <1>4, <1>5, ConcatMove
    <2> QED BY <1>4, <2>1
  <1>8. Typed'
    <2>1. head' \in 0..(Size - 1)
      <3>1. head \in 0..(Size - 1) /\ Size \in Nat \ {0}
        BY SizeFact DEF Inv, Typed, Indices
      <3> QED BY <3>1, SuccessorIs DEF Advanced
    <2>2. left' \in Nat
      BY <1>1
    <2> QED BY <1>6, <2>1, <2>2 DEF Inv, Typed, Indices
  <1>9. Progress'
    <2>1. left' = left - 1 /\ want' = want
      OBVIOUS
    <2> HIDE DEF PopByte, bufferDataSize
    <2>2. Len(buf') + left' = want'
      BY <1>1, <1>5, <1>6, <2>1
    <2>3. left' <= bufferDataSize'
      <3>1. bufferDataSize' = bufferDataSize - 1
        BY <1>4
      <3> QED BY <1>1, <1>2, <2>1, <3>1
    <2> QED BY <1>1, <2>2, <2>3 DEF Progress
  <1>10. LineFound'
    BY <1>1, <1>7, LineKept
  <1>11. Same
    BY <1>1, <1>7 DEF Same, Pending
  <1> QED BY <1>8, <1>9, <1>10, <1>11 DEF Inv

(* The method returns what it has copied: all it wants, and nothing else.  *)
LEMMA ReturnStep ==
    ASSUME Inv, Return
    PROVE  /\ Inv'
           /\ \E n \in 0..Len(Pending) :
                 /\ result' = SubSeq(Pending, 1, n)
                 /\ Pending' = SubSeq(Pending, n + 1, Len(Pending))
  <1> USE DEF Return, ringVars
  <1>1. pc = "copy" /\ left = 0 /\ pc' = "idle" /\ buf' = <<>>
    OBVIOUS
  <1>2. buf \in Seq(Cells) /\ Len(buf) = want /\ want \in Nat
    BY DEF Inv, Typed, Progress
  <1>3. Contents' = Contents /\ Contents \in Seq(Cells)
    BY RingState DEF Inv, Contents, bufferDataSize
  <1>4. result' = buf
    <2>1. result' = [k \in 1..want |-> buf[k]]
      BY <1>2
    <2>2. buf = [k \in 1..want |-> buf[k]]
      BY <1>2
    <2> QED BY <2>1, <2>2
  <1>5. Pending = buf \o Contents /\ Pending' = Contents
    BY <1>1, <1>3 DEF Pending
  <1>6. /\ Len(buf) \in 0..Len(Pending)
        /\ result' = SubSeq(Pending, 1, Len(buf))
        /\ Pending' = SubSeq(Pending, Len(buf) + 1, Len(Pending))
    BY <1>2, <1>3, <1>4, <1>5, ConcatCut
  <1>7. Inv'
    <2>1. Typed'
      BY <1>1 DEF Inv, Typed, Places
    <2> QED BY <1>1, <2>1 DEF Inv, Progress, LineFound
  <1> QED BY <1>6, <1>7

(* clear_rx_buffer drops what is pending when it stores head; bytes that   *)
(* arrive before it stores tail are dropped too.                           *)
LEMMA ClearStep ==
    ASSUME Inv, ClearHead \/ ClearTail
    PROVE  Inv' /\ Pending' = <<>> /\ UNCHANGED result
  <1>1. 0 \in 0..(Size - 1)
    BY SizeFact
  <1>2. CASE ClearHead
    <2> USE DEF ClearHead
    <2>1. Typed'
      BY <1>1, <1>2 DEF Inv, Typed, Places, Indices
    <2>2. Progress'
      BY <1>2 DEF Inv, Progress
    <2>3. LineFound' /\ Pending' = <<>>
      BY <1>2 DEF LineFound, Pending
    <2> QED BY <1>2, <2>1, <2>2, <2>3 DEF Inv
  <1>3. CASE ClearTail
    <2> USE DEF ClearTail
    <2>1. Typed'
      BY <1>1, <1>3 DEF Inv, Typed, Places, Indices, ClearedTail
    <2>2. Progress' /\ buf' = <<>> /\ pc' = "idle"
      BY <1>3 DEF Inv, Progress
    <2>3. LineFound'
      BY <2>2 DEF LineFound
    <2>4. head' = 0 /\ tail' = 0
      BY <1>3 DEF Inv, Progress, ClearedTail
    <2>5. Contents' = <<>>
      <3>1. RingSeq(data', 0, 0, Size) = <<>>
        BY <1>1, SizeFact, RingEmpty
      <3> QED BY <2>4, <3>1 DEF Contents, bufferDataSize, RingSeq, RingLen, Place
    <2>6. Pending' = <<>>
      BY <2>2, <2>5 DEF Pending
    <2> QED BY <1>3, <2>1, <2>2, <2>3, <2>6 DEF Inv
  <1> QED BY <1>2, <1>3

----------------------------------------------------------------------------
(* The theorems.                                                           *)

LEMMA InvInit == Init => Inv /\ Stream!Init
  <1> SUFFICES ASSUME Init PROVE Inv /\ Stream!Init
    OBVIOUS
  <1> USE DEF Init
  <1>1. Typed
    <2>1. 0 \in 0..(Size - 1)
      BY SizeFact
    <2> QED BY <2>1 DEF Typed, Places, Indices, Cells
  <1>2. Contents = <<>>
    <2>1. RingSeq(data, 0, 0, Size) = <<>> /\ Contents = RingSeq(data, head, tail, Size)
      BY <1>1, SizeFact, RingEmpty, RingState DEF Typed, Indices
    <2> QED BY <2>1
  <1>3. Stream!Init
    BY <1>2 DEF Stream!Init
  <1> QED BY <1>1, <1>3 DEF Inv, Progress, LineFound

(* Every step preserves the invariant and is a step of the stream.         *)
LEMMA StepStream ==
    ASSUME Inv, ~MayOverrun, [Next]_vars
    PROVE  Inv' /\ [Stream!Next]_<<Pending, result>>
  <1>1. ASSUME Same PROVE [Stream!Next]_<<Pending, result>>
    BY <1>1 DEF Same
  <1>2. CASE Interrupt
    <2>1. PICK ch \in Bytes : UART_pushBuffer(ch)
      BY <1>2 DEF Interrupt
    <2>2. Inv' /\ Interrupted(ch)
      BY <2>1, PushStep
    <2> QED BY <1>1, <2>2 DEF Interrupted, Stream!Next, Stream!Receive, Pending
  <1>3. CASE mrb_read \/ ReadAll \/ mrb_readpartial
    BY <1>1, <1>3, ReadStep
  <1>4. CASE mrb_gets
    BY <1>1, <1>4, GetsStep
  <1>5. CASE searchCharBuffer
    BY <1>1, <1>5, SearchStep
  <1>6. CASE popBuffer
    BY <1>1, <1>6, PopBufferStep
  <1>7. CASE PopByte
    BY <1>1, <1>7, PopByteStep
  <1>8. CASE Return
    BY <1>8, ReturnStep DEF Stream!Next, Stream!Read, Pending
  <1>9. CASE ClearHead \/ ClearTail
    BY <1>9, ClearStep DEF Stream!Next, Stream!Clear, Pending
  <1>10. CASE UNCHANGED vars
    <2>1. Inv' /\ Same
      BY <1>10 DEF vars, Inv, Typed, Progress, LineFound, Same, Pending, Contents,
                   bufferDataSize
    <2> QED BY <1>1, <2>1
  <1> QED BY <1>2, <1>3, <1>4, <1>5, <1>6, <1>7, <1>8, <1>9, <1>10 DEF Next

(* The methods return the bytes received, once and in order, for every     *)
(* size of the ring and every interleaving with the interrupt, as long as  *)
(* no byte arrives while the ring is full.                                 *)
THEOREM RingImplementsStream ==
    ASSUME ~MayOverrun
    PROVE  Spec => RingIsStream
  <1>1. Init => Inv /\ Stream!Init
    BY InvInit
  <1>2. Inv /\ [Next]_vars => Inv' /\ [Stream!Next]_<<Pending, result>>
    BY StepStream
  <1> QED BY <1>1, <1>2, PTL DEF Spec, RingIsStream, Stream!Spec, Pending

(* gets returns exactly one line.                                          *)
THEOREM GetsReturnsALine ==
    ASSUME ~MayOverrun
    PROVE  Spec => []GetsIsLine
  <1>1. Init => Inv
    BY InvInit
  <1>2. Inv /\ [Next]_vars => Inv'
    BY StepStream
  <1>3. Inv => GetsIsLine
    <2> SUFFICES ASSUME Inv, op = "gets", pc = "copy", left = 0, NEW k \in 1..want
                 PROVE  k <= Len(buf) /\ (buf[k] = NewLine <=> k = want)
      BY DEF GetsIsLine
    <2>1. Len(buf) = want /\ buf \in Seq(Cells) /\ Contents \in Seq(Cells) /\ want \in Nat
      BY RingState DEF Inv, Typed, Progress
    <2>2. (buf \o Contents)[k] = buf[k]
      BY <2>1
    <2>3. (buf \o Contents)[k] = NewLine <=> k = want
      BY DEF Inv, LineFound
    <2> QED BY <2>1, <2>2, <2>3
  <1> QED BY <1>1, <1>2, <1>3, PTL DEF Spec
=============================================================================
