--------------------- MODULE BrowserPeerTransportProofs ---------------------
(***************************************************************************)
(* The recovery of a connection and its receive queue, for every limit and *)
(* every order of callbacks: nothing of a recovery survives the end of the *)
(* session, a restart in flight is always watched and ends for a cause,    *)
(* and the queue is within its limits and counted right.                   *)
(***************************************************************************)
EXTENDS BrowserPeerTransport, TLAPS, SequenceTheorems,
        WellFoundedInduction, NaturalsInduction

---------------------------------------------------------------------------
(* The bytes of a sequence of packets. *)

LEMMA LeastElement ==
  ASSUME NEW T, T \subseteq Nat, T # {}
  PROVE  \E x \in T : \A y \in T : x <= y
<1>1. PICK x \in T : \A y \in T : ~ (<<y, x>> \in OpToRel(<, Nat))
  BY WFMin, NatLessThanWellFounded
<1>2. ASSUME NEW y \in T PROVE x <= y
  <2>1. ~ (<<y, x>> \in OpToRel(<, Nat))
    BY <1>1
  <2>2. <<y, x>> \in Nat \X Nat
    OBVIOUS
  <2>3. ~ (y < x)
    BY <2>1, <2>2 DEF OpToRel
  <2> QED
    BY <2>3
<1> QED
  BY <1>2

(* h holds the sums of the first m packets, and of fewer. *)
Adds(packets, m, h) ==
  /\ h \in [0 .. m -> Nat]
  /\ h[0] = 0
  /\ \A k \in 1 .. m : h[k] = h[k - 1] + packets[k]

LEMMA SumsExist ==
  ASSUME NEW packets \in Seq(Nat)
  PROVE  \E h : Adds(packets, Len(packets), h)
<1> DEFINE none == {m \in 0 .. Len(packets) : ~ \E h : Adds(packets, m, h)}
<1>1. none = {}
  <2> SUFFICES ASSUME none # {} PROVE FALSE
    OBVIOUS
  <2>1. PICK m \in none : \A j \in none : m <= j
    <3>1. none \subseteq Nat
      OBVIOUS
    <3> HIDE DEF none
    <3> QED
      BY <3>1, LeastElement
  <2>2. m \in 0 .. Len(packets) /\ ~ \E h : Adds(packets, m, h)
    OBVIOUS
  <2>3. CASE m = 0
    <3>1. Adds(packets, 0, [k \in 0 .. 0 |-> 0])
      BY DEF Adds
    <3> QED
      BY <2>2, <2>3, <3>1
  <2>4. CASE m # 0
    <3>1. m \in 1 .. Len(packets) /\ m - 1 \in 0 .. Len(packets) /\ m - 1 < m
      BY <2>2, <2>4
    <3>2. m - 1 \notin none
      BY <2>1, <3>1
    <3>3. PICK h : Adds(packets, m - 1, h)
      BY <3>1, <3>2
    <3> DEFINE g == [k \in 0 .. m |-> IF k = m THEN h[m - 1] + packets[m] ELSE h[k]]
    <3>4. packets[m] \in Nat
      BY <3>1
    <3>5. h[m - 1] \in Nat
      BY <3>1, <3>3 DEF Adds
    <3>6. g \in [0 .. m -> Nat]
      BY <3>1, <3>3, <3>4, <3>5 DEF Adds
    <3>7. ASSUME NEW k \in 1 .. m PROVE g[k] = g[k - 1] + packets[k]
      <4>1. CASE k = m
        BY <3>1, <4>1
      <4>2. CASE k # m
        <5>1. k \in 1 .. m - 1 /\ k - 1 \in 0 .. m - 1
          BY <3>1, <4>2
        <5>2. h[k] = h[k - 1] + packets[k]
          BY <3>3, <5>1 DEF Adds
        <5> QED
          BY <3>1, <4>2, <5>1, <5>2
      <4> QED
        BY <4>1, <4>2
    <3>8. g[0] = 0
      BY <3>1, <3>3 DEF Adds
    <3>9. Adds(packets, m, g)
      <4> HIDE DEF g
      <4> QED
        BY <3>6, <3>7, <3>8 DEF Adds
    <3> QED
      BY <2>2, <3>9
  <2> QED
    BY <2>3, <2>4
<1>2. Len(packets) \in 0 .. Len(packets)
  OBVIOUS
<1> QED
  BY <1>1, <1>2

LEMMA BytesAre ==
  ASSUME NEW packets \in Seq(Nat), NEW n, n = Len(packets),
         NEW h, Adds(packets, n, h)
  PROVE  Bytes(packets) = h[n]
<1> DEFINE next(g, k) == IF k = 0 THEN 0 ELSE g[k - 1] + packets[k]
           goes(g) == g = [k \in 0 .. n |-> next(g, k)]
           sum == CHOOSE g : goes(g)
<1>0. n \in Nat
  OBVIOUS
<1>1. Bytes(packets) = sum[n]
  BY DEF Bytes
<1>2. ASSUME NEW k \in 0 .. n PROVE h[k] = next(h, k)
  <2>1. k = 0 \/ k \in 1 .. n
    BY <1>0
  <2> QED
    BY <2>1 DEF Adds
<1> HIDE DEF sum
<1>3. goes(h)
  <2>1. h = [k \in 0 .. n |-> h[k]]
    BY DEF Adds
  <2> HIDE DEF next
  <2> QED
    BY <1>2, <2>1
<1>4. goes(sum)
  BY <1>3 DEF sum
<1>5. \A k \in 0 .. n : sum[k] = next(sum, k)
  <2> HIDE DEF next
  <2> QED
    BY <1>4
<1> HIDE DEF goes
<1> DEFINE differ == {k \in 0 .. n : sum[k] # h[k]}
<1>6. differ = {}
  <2> SUFFICES ASSUME differ # {} PROVE FALSE
    OBVIOUS
  <2>1. PICK k \in differ : \A j \in differ : k <= j
    <3>1. differ \subseteq Nat
      BY <1>0
    <3> HIDE DEF differ
    <3> QED
      BY <3>1, LeastElement
  <2>2. k \in 0 .. n /\ sum[k] # h[k]
    OBVIOUS
  <2>3. CASE k = 0
    BY <1>2, <1>5, <2>2, <2>3
  <2>4. CASE k # 0
    <3>1. k - 1 \in 0 .. n /\ k - 1 < k
      BY <1>0, <2>2, <2>4
    <3>2. sum[k - 1] = h[k - 1]
      BY <2>1, <3>1
    <3> QED
      BY <1>2, <1>5, <2>2, <2>4, <3>2
  <2> QED
    BY <2>3, <2>4
<1> QED
  BY <1>0, <1>1, <1>6

LEMMA BytesIsNatural ==
  ASSUME NEW packets \in Seq(Nat)
  PROVE  Bytes(packets) \in Nat
<1>1. PICK h : Adds(packets, Len(packets), h)
  BY SumsExist
<1>2. Bytes(packets) = h[Len(packets)]
  BY <1>1, BytesAre
<1>3. Len(packets) \in 0 .. Len(packets)
  OBVIOUS
<1> QED
  BY <1>1, <1>2, <1>3 DEF Adds

LEMMA BytesOfNone == Bytes(<< >>) = 0
<1>1. Adds(<< >>, 0, [k \in 0 .. 0 |-> 0])
  BY DEF Adds
<1>2. << >> \in Seq(Nat) /\ Len(<< >>) = 0
  OBVIOUS
<1> QED
  BY <1>1, <1>2, BytesAre

LEMMA BytesOfMore ==
  ASSUME NEW packets \in Seq(Nat), NEW size \in Nat
  PROVE  Bytes(Append(packets, size)) = Bytes(packets) + size
<1> DEFINE n == Len(packets)
           more == Append(packets, size)
<1>1. PICK h : Adds(packets, n, h)
  BY SumsExist
<1>2. /\ n \in Nat /\ more \in Seq(Nat) /\ Len(more) = n + 1
      /\ more[n + 1] = size /\ \A k \in 1 .. n : more[k] = packets[k]
  OBVIOUS
<1>3. Bytes(packets) = h[n]
  BY <1>1, BytesAre
<1> DEFINE g == [k \in 0 .. n + 1 |-> IF k = n + 1 THEN h[n] + size ELSE h[k]]
<1> HIDE DEF n, more
<1>4. h[n] \in Nat
  BY <1>1, <1>2 DEF Adds
<1>5. g \in [0 .. n + 1 -> Nat] /\ g[0] = 0
  BY <1>1, <1>2, <1>4 DEF Adds
<1>6. ASSUME NEW k \in 1 .. n + 1 PROVE g[k] = g[k - 1] + more[k]
  <2>1. CASE k = n + 1
    BY <1>2, <2>1
  <2>2. CASE k # n + 1
    <3>1. k \in 1 .. n /\ k - 1 \in 0 .. n
      BY <1>2, <2>2
    <3>2. h[k] = h[k - 1] + more[k]
      BY <1>1, <1>2, <3>1 DEF Adds
    <3> QED
      BY <1>2, <2>2, <3>1, <3>2
  <2> QED
    BY <2>1, <2>2
<1>7. Adds(more, n + 1, g)
  <2> HIDE DEF g
  <2> QED
    BY <1>5, <1>6 DEF Adds
<1>8. Bytes(more) = g[n + 1]
  <2> HIDE DEF g
  <2> QED
    BY <1>2, <1>7, BytesAre
<1>9. g[n + 1] = h[n] + size
  BY <1>2
<1> QED
  BY <1>3, <1>8, <1>9 DEF more

(* The i-th packet is taken out. *)
LEMMA BytesOfFewer ==
  ASSUME NEW packets \in Seq(Nat), NEW i \in 1 .. Len(packets),
         NEW fewer \in Seq(Nat), Len(fewer) = Len(packets) - 1,
         \A k \in 1 .. Len(packets) - 1 :
           fewer[k] = IF k < i THEN packets[k] ELSE packets[k + 1]
  PROVE  Bytes(fewer) = Bytes(packets) - packets[i]
<1> DEFINE n == Len(packets)
<1>1. PICK h : Adds(packets, n, h)
  BY SumsExist
<1>2. /\ n \in Nat /\ i \in 1 .. n /\ packets[i] \in Nat
      /\ \A k \in 1 .. n : packets[k] \in Nat
  OBVIOUS
<1>3. Bytes(packets) = h[n]
  BY <1>1, BytesAre
<1>4. \A k \in 1 .. n - 1 : fewer[k] = IF k < i THEN packets[k] ELSE packets[k + 1]
  OBVIOUS
<1>5. \A k \in 1 .. n - 1 : fewer[k] \in Nat
  OBVIOUS
<1> DEFINE g == [k \in 0 .. n - 1 |-> IF k < i THEN h[k] ELSE h[k + 1] - packets[i]]
<1>6. Len(fewer) = n - 1 /\ n - 1 \in Nat
  BY <1>2
<1> HIDE DEF n
<1>7. /\ \A k \in 0 .. n : h[k] \in Nat
      /\ h[0] = 0
      /\ \A k \in 1 .. n : h[k] = h[k - 1] + packets[k]
  BY <1>1 DEF Adds
<1>8. ASSUME NEW k \in 1 .. n - 1 PROVE g[k] = g[k - 1] + fewer[k]
  <2>1. /\ k \in 1 .. n /\ k + 1 \in 1 .. n
        /\ k - 1 \in 0 .. n - 1 /\ k \in 0 .. n - 1
        /\ k - 1 \in 0 .. n /\ k \in 0 .. n /\ k + 1 \in 0 .. n
        /\ k - 1 + 1 = k /\ k + 1 - 1 = k
    BY <1>2
  <2>2. /\ h[k] = h[k - 1] + packets[k] /\ h[k + 1] = h[k] + packets[k + 1]
        /\ h[k - 1] \in Nat /\ h[k] \in Nat /\ h[k + 1] \in Nat
        /\ packets[k] \in Nat /\ packets[k + 1] \in Nat
    <3>1. h[k + 1] = h[k + 1 - 1] + packets[k + 1]
      BY <1>7, <2>1
    <3> QED
      BY <1>2, <1>7, <2>1, <3>1
  <2>3. fewer[k] = (IF k < i THEN packets[k] ELSE packets[k + 1]) /\ fewer[k] \in Nat
    BY <1>4, <1>5
  <2>4. /\ g[k] = IF k < i THEN h[k] ELSE h[k + 1] - packets[i]
        /\ g[k - 1] = IF k - 1 < i THEN h[k - 1] ELSE h[k] - packets[i]
    BY <2>1
  <2> HIDE DEF g
  <2>5. CASE k < i
    BY <1>2, <2>1, <2>2, <2>3, <2>4, <2>5
  <2>6. CASE k = i
    <3>1. /\ fewer[k] = packets[k + 1] /\ g[k] = h[k + 1] - packets[k]
          /\ g[k - 1] = h[k - 1]
      BY <1>2, <2>1, <2>3, <2>4, <2>6
    <3>2. \A a, b, c \in Nat : ((a + b) + c) - b = a + c
      OBVIOUS
    <3>3. h[k + 1] = (h[k - 1] + packets[k]) + packets[k + 1]
      BY <2>2
    <3>4. g[k] = ((h[k - 1] + packets[k]) + packets[k + 1]) - packets[k]
      BY <3>1, <3>3
    <3>5. g[k] = h[k - 1] + packets[k + 1]
      BY <2>2, <3>2, <3>4
    <3> QED
      BY <3>1, <3>5
  <2>7. CASE k > i
    <3>1. /\ fewer[k] = packets[k + 1] /\ g[k] = h[k + 1] - packets[i]
          /\ g[k - 1] = h[k] - packets[i]
      BY <1>2, <2>1, <2>3, <2>4, <2>7
    <3>2. \A a, b, c \in Nat : (a + b) - c = (a - c) + b
      OBVIOUS
    <3>3. g[k - 1] + fewer[k] = (h[k] - packets[i]) + packets[k + 1]
      BY <3>1
    <3>4. g[k] = (h[k] + packets[k + 1]) - packets[i]
      BY <2>2, <3>1
    <3>5. (h[k] + packets[k + 1]) - packets[i] = (h[k] - packets[i]) + packets[k + 1]
      <4>1. h[k] \in Nat /\ packets[k + 1] \in Nat /\ packets[i] \in Nat
        BY <1>2, <2>2
      <4> QED
        BY <3>2, <4>1, Zenon
    <3> QED
      BY <3>3, <3>4, <3>5
  <2> QED
    BY <1>2, <2>1, <2>5, <2>6, <2>7
<1>9. g[0] = 0
  BY <1>2, <1>6, <1>7
<1>10. g \in [0 .. n - 1 -> Int]
  BY <1>2, <1>7
<1>11. \A k \in 0 .. n - 1 : g[k] \in Nat
  <2> HIDE DEF g
  <2> DEFINE low == {k \in 0 .. n - 1 : g[k] \notin Nat}
  <2> SUFFICES ASSUME low # {} PROVE FALSE
    OBVIOUS
  <2>1. PICK k \in low : \A j \in low : k <= j
    <3>1. low \subseteq Nat
      BY <1>6
    <3> HIDE DEF low
    <3> QED
      BY <3>1, LeastElement
  <2>2. k # 0 /\ k \in 0 .. n - 1
    BY <1>9
  <2>3. k \in 1 .. n - 1 /\ k - 1 \in 0 .. n - 1 /\ k - 1 < k
    BY <1>6, <2>2
  <2>4. g[k - 1] \in Nat
    BY <2>1, <2>3
  <2>5. g[k] = g[k - 1] + fewer[k] /\ fewer[k] \in Nat
    BY <1>5, <1>8, <2>3
  <2>6. g[k] \in Nat
    <3>1. \A a, b \in Nat : a + b \in Nat
      OBVIOUS
    <3> QED
      BY <2>4, <2>5, <3>1, Zenon
  <2> QED
    BY <2>6
<1>12. Adds(fewer, n - 1, g)
  <2> HIDE DEF g
  <2> QED
    BY <1>8, <1>9, <1>10, <1>11 DEF Adds
<1>13. Bytes(fewer) = g[n - 1]
  <2> HIDE DEF g
  <2> QED
    BY <1>6, <1>12, BytesAre
<1>14. g[n - 1] = h[n] - packets[i]
  <2>1. n \in 1 .. n /\ n - 1 \in 0 .. n - 1 /\ n - 1 + 1 = n
    BY <1>2
  <2>2. h[n] = h[n - 1] + packets[n] /\ h[n - 1] \in Nat /\ h[n] \in Nat
    BY <1>2, <1>7, <2>1
  <2>3. g[n - 1] = IF n - 1 < i THEN h[n - 1] ELSE h[n] - packets[i]
    BY <2>1
  <2> HIDE DEF g
  <2>4. n - 1 < i => i = n
    BY <1>2
  <2> QED
    BY <1>2, <2>1, <2>2, <2>3, <2>4
<1> QED
  BY <1>3, <1>13, <1>14

LEMMA BytesOfTail ==
  ASSUME NEW packets \in Seq(Nat), packets # << >>
  PROVE  /\ Tail(packets) \in Seq(Nat) /\ Len(Tail(packets)) = Len(packets) - 1
         /\ Bytes(Tail(packets)) = Bytes(packets) - Head(packets)
<1>1. 1 \in 1 .. Len(packets) /\ Head(packets) = packets[1]
  OBVIOUS
<1>2. /\ Tail(packets) \in Seq(Nat) /\ Len(Tail(packets)) = Len(packets) - 1
      /\ \A k \in 1 .. Len(packets) - 1 : Tail(packets)[k] = packets[k + 1]
  OBVIOUS
<1>3. \A k \in 1 .. Len(packets) - 1 :
        Tail(packets)[k] = IF k < 1 THEN packets[k] ELSE packets[k + 1]
  BY <1>2
<1> QED
  BY <1>1, <1>2, <1>3, BytesOfFewer

LEMMA BytesOfRest ==
  ASSUME NEW packets \in Seq(Nat), NEW i \in 1 .. Len(packets)
  PROVE  /\ RemoveAt(packets, i) \in Seq(Nat)
         /\ Len(RemoveAt(packets, i)) = Len(packets) - 1
         /\ Bytes(RemoveAt(packets, i)) = Bytes(packets) - packets[i]
<1> DEFINE rest == RemoveAt(packets, i)
           n == Len(packets)
           front == SubSeq(packets, 1, i - 1)
           back == SubSeq(packets, i + 1, n)
<1>1. n \in Nat /\ i \in 1 .. n /\ rest = front \o back
  BY DEF RemoveAt
<1>2. /\ front \in Seq(Nat) /\ Len(front) = i - 1
      /\ \A k \in 1 .. i - 1 : front[k] = packets[k]
  OBVIOUS
<1>3. /\ back \in Seq(Nat) /\ Len(back) = n - i
      /\ \A k \in 1 .. n - i : back[k] = packets[i + k]
  OBVIOUS
<1> HIDE DEF rest, front, back
<1>4. rest \in Seq(Nat) /\ Len(rest) = n - 1
  <2>1. front \o back \in Seq(Nat) /\ Len(front \o back) = Len(front) + Len(back)
    <3>1. front \in Seq(Nat) /\ back \in Seq(Nat)
      BY <1>2, <1>3
    <3> QED
      BY <3>1
  <2>2. (i - 1) + (n - i) = n - 1
    BY <1>1
  <2> HIDE DEF n
  <2> QED
    BY <1>1, <1>2, <1>3, <2>1, <2>2
<1>5. ASSUME NEW k \in 1 .. n - 1
      PROVE  rest[k] = IF k < i THEN packets[k] ELSE packets[k + 1]
  <2>1. CASE k < i
    <3>1. k \in 1 .. i - 1
      BY <1>1, <2>1
    <3> QED
      BY <1>1, <1>2, <1>3, <2>1, <3>1
  <2>2. CASE ~ (k < i)
    <3>1. k - (i - 1) \in 1 .. n - i /\ i + (k - (i - 1)) = k + 1
      BY <1>1, <2>2
    <3>2. rest[k] = back[k - (i - 1)]
      <4>1. front \in Seq(Nat) /\ back \in Seq(Nat) /\ rest = front \o back
        BY <1>1, <1>2, <1>3
      <4>2. k \in 1 .. Len(front) + Len(back) /\ ~ (k <= Len(front))
        BY <1>1, <1>2, <1>3, <2>2
      <4>3. rest[k] = back[k - Len(front)]
        BY <4>1, <4>2, ConcatProperties
      <4> QED
        BY <1>2, <4>3
    <3> QED
      BY <1>3, <2>2, <3>1, <3>2
  <2> QED
    BY <2>1, <2>2
<1> QED
  BY <1>4, <1>5, BytesOfFewer DEF rest

---------------------------------------------------------------------------
(* What the invariants depend on: the members that say how the session     *)
(* ended, what of a recovery is under way and what is queued.              *)
Members == {"closed", "disconnected", "failed", "peer", "recoveryPending", "heard",
            "restartInFlight", "restartAttempts", "offers", "watchdogs", "watched",
            "received", "receivedBytes", "pendingPackets", "pendingBytes",
            "conversions"}

Shaped(s) ==
  /\ Members \subseteq DOMAIN s
  /\ s.offers \in Nat /\ s.watchdogs \in Nat
  /\ s.watched => s.watchdogs > 0

(* Nothing recovers after the end. *)
QuietEnd(s) == Ended(s) => ~s.restartInFlight /\ ~s.recoveryPending

Watched(s) == s.restartInFlight => s.offers > 0 \/ s.watchdogs > 0

(* Only an overflow fails the transport, and it closes it. *)
FailedIsClosed(s) == s.failed => s.closed

(* The counters of the queue; close() resets them, and leaves the          *)
(* conversions that are under way to release nothing.                      *)
Counted(s) ==
  /\ s.received \in Seq(Nat) /\ s.conversions \in Seq(Nat)
  /\ s.receivedBytes \in Nat /\ s.pendingPackets \in Nat /\ s.pendingBytes \in Nat
  /\ Len(s.received) + s.pendingPackets <= MaxPackets
  /\ s.receivedBytes + s.pendingBytes <= MaxBytes
  /\ s.receivedBytes = Bytes(s.received)
  /\ s.pendingPackets = IF s.closed THEN 0 ELSE Len(s.conversions)
  /\ s.pendingBytes = IF s.closed THEN 0 ELSE Bytes(s.conversions)

Good(s) ==
  Shaped(s) /\ QuietEnd(s) /\ Watched(s) /\ FailedIsClosed(s) /\ Counted(s)

IInv == Good(state)

(* t differs from s in other members only. *)
Unchanged(s, t) ==
  /\ DOMAIN t = DOMAIN s
  /\ t.closed = s.closed /\ t.disconnected = s.disconnected
  /\ t.failed = s.failed /\ t.recoveryPending = s.recoveryPending
  /\ t.restartInFlight = s.restartInFlight
  /\ t.offers = s.offers /\ t.watchdogs = s.watchdogs /\ t.watched = s.watched
  /\ t.received = s.received /\ t.receivedBytes = s.receivedBytes
  /\ t.pendingPackets = s.pendingPackets /\ t.pendingBytes = s.pendingBytes
  /\ t.conversions = s.conversions

(* t has the queue of s. *)
SameQueue(s, t) ==
  /\ t.closed = s.closed
  /\ t.received = s.received /\ t.receivedBytes = s.receivedBytes
  /\ t.pendingPackets = s.pendingPackets /\ t.pendingBytes = s.pendingBytes
  /\ t.conversions = s.conversions

LEMMA SameQueueIsCounted ==
  ASSUME NEW s, NEW t, Counted(s), SameQueue(s, t)
  PROVE  Counted(t)
BY DEF Counted, SameQueue

LEMMA UnchangedIsGood ==
  ASSUME NEW s, NEW t, Good(s), Unchanged(s, t)
  PROVE  Good(t)
<1>1. SameQueue(s, t)
  BY DEF Unchanged, SameQueue
<1>2. Counted(t)
  BY <1>1, SameQueueIsCounted DEF Good
<1> QED
  BY <1>2 DEF Good, Unchanged, Shaped, QuietEnd, Watched, FailedIsClosed, Ended

LEMMA InitialIsGood ==
  ASSUME NEW offerer PROVE Good(NewTransport(offerer))
<1> DEFINE s == NewTransport(offerer)
<1>1. /\ s.received = << >> /\ s.conversions = << >> /\ ~ s.closed
      /\ s.receivedBytes = 0 /\ s.pendingPackets = 0 /\ s.pendingBytes = 0
  BY DEF NewTransport
<1>2. Shaped(s) /\ QuietEnd(s) /\ Watched(s) /\ FailedIsClosed(s)
  BY DEF NewTransport, Shaped, QuietEnd, Watched, FailedIsClosed, Ended, Members
<1> HIDE DEF s
<1>3. Counted(s)
  BY <1>1, BytesOfNone, RecoveryAssumption DEF Counted
<1> QED
  BY <1>2, <1>3 DEF Good, s

---------------------------------------------------------------------------
(* Signaling. *)

LEMMA OpenSignalKeeps ==
  ASSUME NEW s, Members \subseteq DOMAIN s
  PROVE  Unchanged(s, OpenSignal(s))
BY DEF OpenSignal, Unchanged, Members

LEMMA SendSignalKeeps ==
  ASSUME NEW s, NEW signal, Members \subseteq DOMAIN s
  PROVE  Unchanged(s, SendSignal(s, signal))
<1> DEFINE kept == [s EXCEPT !.pendingSignals = Keep(@, signal)]
<1>1. Unchanged(s, kept)
  BY DEF Unchanged, Members
<1>2. Unchanged(kept, OpenSignal(kept))
  BY <1>1, OpenSignalKeeps DEF Unchanged
<1>3. CASE s.signal = "open" \/ s.route # "rtc" \/ s.closed
  BY <1>3 DEF SendSignal, Unchanged
<1>4. CASE ~ (s.signal = "open" \/ s.route # "rtc" \/ s.closed)
  BY <1>1, <1>2, <1>4 DEF SendSignal, Unchanged
<1> QED
  BY <1>3, <1>4

LEMMA ScheduleReconnectKeeps ==
  ASSUME NEW s, Members \subseteq DOMAIN s
  PROVE  Unchanged(s, ScheduleReconnect(s))
BY DEF ScheduleReconnect, Unchanged, Members

LEMMA SetRouteKeeps ==
  ASSUME NEW s, NEW mode \in {"rtc", "relay"}, Members \subseteq DOMAIN s
  PROVE  Unchanged(s, SetRoute(s, mode))
BY DEF SetRoute, Unchanged, Members

---------------------------------------------------------------------------
(* How a recovery ends. *)

(* A cleared recovery leaves nothing to be watched. *)
LEMMA ClearRecoveryClears ==
  ASSUME NEW s, Shaped(s)
  PROVE  /\ Shaped(ClearRecovery(s))
         /\ DOMAIN ClearRecovery(s) = DOMAIN s
         /\ ~ ClearRecovery(s).restartInFlight
         /\ ~ ClearRecovery(s).recoveryPending
         /\ ClearRecovery(s).failed = s.failed
         /\ ClearRecovery(s).closed = s.closed
         /\ SameQueue(s, ClearRecovery(s))
BY DEF ClearRecovery, ClearsRecovery, Shaped, Members, SameQueue

LEMMA ClearRecoveryIsGood ==
  ASSUME NEW s, Shaped(s), FailedIsClosed(s), Counted(s)
  PROVE  Good(ClearRecovery(s))
BY ClearRecoveryClears, SameQueueIsCounted DEF Good, QuietEnd, Watched, FailedIsClosed

LEMMA FailIsGood ==
  ASSUME NEW s, NEW notify, Good(s)
  PROVE  Good(Fail(s, notify))
<1> DEFINE told == IF notify THEN SendSignal(s, "peer-disconnected") ELSE s
           ended == [told EXCEPT !.disconnected = TRUE]
<1>1. Members \subseteq DOMAIN s
  BY DEF Good, Shaped
<1>2. Good(told)
  BY <1>1, SendSignalKeeps, UnchangedIsGood
<1>3. Shaped(ended) /\ FailedIsClosed(ended) /\ SameQueue(told, ended)
  BY <1>2 DEF Good, Shaped, FailedIsClosed, Members, SameQueue
<1>4. Good(ClearRecovery(ended))
  BY <1>2, <1>3, SameQueueIsCounted, ClearRecoveryIsGood DEF Good
<1> QED
  BY <1>4 DEF Fail

LEMMA CloseIsGood ==
  ASSUME NEW s, Shaped(s), Counted(s)
  PROVE  Good(Close(s))
<1> DEFINE cleared == ClearRecovery(s)
<1>1. /\ Shaped(cleared) /\ ~ cleared.restartInFlight /\ ~ cleared.recoveryPending
      /\ Counted(cleared)
  BY ClearRecoveryClears, SameQueueIsCounted
<1> HIDE DEF cleared
<1>2. Close(s) =
        [cleared EXCEPT
           !.closed = TRUE, !.reconnect = FALSE, !.peer = FALSE,
           !.signal = "none", !.relay = "none", !.control = "none",
           !.input = "none", !.connection = "closed", !.ice = "closed",
           !.received = << >>, !.receivedBytes = 0,
           !.pendingPackets = 0, !.pendingBytes = 0]
  BY DEF Close, cleared
<1> DEFINE t == Close(s)
<1>3. Shaped(t) /\ QuietEnd(t) /\ Watched(t) /\ FailedIsClosed(t)
  BY <1>1, <1>2 DEF Shaped, QuietEnd, Watched, FailedIsClosed, Members
<1>4. /\ t.received = << >> /\ t.conversions = cleared.conversions /\ t.closed
      /\ t.receivedBytes = 0 /\ t.pendingPackets = 0 /\ t.pendingBytes = 0
  BY <1>1, <1>2 DEF Shaped, Members
<1> HIDE DEF t
<1>5. Counted(t)
  BY <1>1, <1>4, BytesOfNone, RecoveryAssumption DEF Counted
<1> QED
  BY <1>3, <1>5 DEF Good, t

---------------------------------------------------------------------------
(* Recovery. *)

LEMMA ArmTimerKeeps ==
  ASSUME NEW s, NEW silent, NEW stalled, Members \subseteq DOMAIN s
  PROVE  Unchanged(s, ArmTimer(s, silent, stalled))
BY DEF ArmTimer, Unchanged, Members

(* A watchdog watches whatever restart is in flight. *)
LEMMA ArmWatchdogIsGood ==
  ASSUME NEW s, Shaped(s), QuietEnd(s), FailedIsClosed(s), Counted(s)
  PROVE  Good(ArmWatchdog(s))
<1>1. SameQueue(s, ArmWatchdog(s))
  BY DEF ArmWatchdog, SameQueue, Shaped, Members
<1>2. Counted(ArmWatchdog(s))
  BY <1>1, SameQueueIsCounted
<1> QED
  BY <1>2 DEF ArmWatchdog, Good, Shaped, QuietEnd, Watched, FailedIsClosed, Ended,
              Members

LEMMA RestartIceIsGood ==
  ASSUME NEW s, Good(s)
  PROVE  Good(RestartIce(s))
<1> DEFINE begun == [BeginRestart(s) EXCEPT !.offers = @ + 1]
<1>1. CASE ~ MayRestart(s)
  BY <1>1 DEF RestartIce
<1>2. CASE MayRestart(s) /\ s.restartAttempts >= MaxAttempts
  BY <1>2, FailIsGood DEF RestartIce
<1>3. CASE MayRestart(s) /\ ~ (s.restartAttempts >= MaxAttempts)
  <2>0. Counted(begun)
    <3>1. SameQueue(s, begun)
      BY DEF BeginRestart, SameQueue, Good, Shaped, Members
    <3> QED
      BY <3>1, SameQueueIsCounted DEF Good
  <2>1. Shaped(begun) /\ QuietEnd(begun) /\ Watched(begun) /\ FailedIsClosed(begun)
    BY <1>3 DEF BeginRestart, MayRestart, Good, Shaped, QuietEnd, Watched,
                FailedIsClosed, Ended, Members
  <2>2. Good(OpenSignal(begun))
    <3> HIDE DEF begun
    <3>1. Good(begun) /\ Members \subseteq DOMAIN begun
      BY <2>0, <2>1 DEF Good, Shaped
    <3> QED
      BY <3>1, OpenSignalKeeps, UnchangedIsGood
  <2> QED
    BY <1>3, <2>2 DEF RestartIce
<1> QED
  BY <1>1, <1>2, <1>3

LEMMA RequestRestartIsGood ==
  ASSUME NEW s, Good(s)
  PROVE  Good(RequestRestart(s))
<1> DEFINE begun == BeginRestart(s)
           asked == SendSignal(begun, "ice-restart-request")
<1>1. CASE ~ MayRestart(s)
  BY <1>1 DEF RequestRestart
<1>2. CASE MayRestart(s) /\ s.offerer
  BY <1>2, RestartIceIsGood DEF RequestRestart
<1>3. CASE MayRestart(s) /\ ~ s.offerer /\ s.restartAttempts >= MaxAttempts
  BY <1>3, FailIsGood DEF RequestRestart
<1>4. CASE MayRestart(s) /\ ~ s.offerer /\ ~ (s.restartAttempts >= MaxAttempts)
  <2>1. /\ Shaped(begun) /\ FailedIsClosed(begun)
        /\ ~ Ended(begun)
    BY <1>4 DEF BeginRestart, MayRestart, Good, Shaped, FailedIsClosed, Ended,
                Members
  <2>2. Unchanged(begun, asked)
    BY <2>1, SendSignalKeeps DEF Shaped
  <2>3. Shaped(asked) /\ QuietEnd(asked) /\ FailedIsClosed(asked)
    BY <2>1, <2>2 DEF Unchanged, Shaped, QuietEnd, FailedIsClosed, Ended
  <2>4. Counted(asked)
    <3>1. SameQueue(s, begun)
      BY DEF BeginRestart, SameQueue, Good, Shaped, Members
    <3>2. SameQueue(begun, asked)
      BY <2>2 DEF Unchanged, SameQueue
    <3> QED
      BY <3>1, <3>2, SameQueueIsCounted DEF Good
  <2>5. Good(ArmWatchdog(asked))
    BY <2>3, <2>4, ArmWatchdogIsGood
  <2> QED
    BY <1>4, <2>5 DEF RequestRestart
<1> QED
  BY <1>1, <1>2, <1>3, <1>4

LEMMA ScheduleRecoveryIsGood ==
  ASSUME NEW s, NEW immediate, NEW silent, Good(s)
  PROVE  Good(ScheduleRecovery(s, immediate, silent))
<1> DEFINE stalled == silent /\ Stalled(s)
           pending == [s EXCEPT !.recoveryPending = TRUE]
           waiting == [pending EXCEPT !.snapshots = @ + 1]
           idle == \/ ~ MayRestart(s)
                   \/ \E i \in DOMAIN s.timers : s.timers[i].held
                   \/ ~ (Reports(s, "failed") \/ Reports(s, "disconnected") \/ stalled)
<1>1. CASE idle
  BY <1>1 DEF ScheduleRecovery
<1>2. CASE ~ idle
  <2>0. Counted(pending)
    <3>1. SameQueue(s, pending)
      BY DEF SameQueue, Good, Shaped, Members
    <3> QED
      BY <3>1, SameQueueIsCounted DEF Good
  <2>1. Good(pending)
    BY <1>2, <2>0 DEF MayRestart, Good, Shaped, QuietEnd, Watched, FailedIsClosed,
                      Ended, Members
  <2>2. Members \subseteq DOMAIN pending
    BY <2>1 DEF Good, Shaped
  <2> HIDE DEF pending
  <2>3. Good(RequestRestart(pending))
    BY <2>1, RequestRestartIsGood
  <2>4. Good(ArmTimer(pending, TRUE, stalled))
    BY <2>1, <2>2, ArmTimerKeeps, UnchangedIsGood
  <2>5. Good(waiting)
    BY <2>1, <2>2, UnchangedIsGood DEF Unchanged, Members
  <2>6. \/ ScheduleRecovery(s, immediate, silent) = RequestRestart(pending)
        \/ ScheduleRecovery(s, immediate, silent) = ArmTimer(pending, TRUE, stalled)
        \/ ScheduleRecovery(s, immediate, silent) = waiting
    BY <1>2 DEF ScheduleRecovery, pending
  <2> QED
    BY <2>3, <2>4, <2>5, <2>6
<1> QED
  BY <1>1, <1>2

LEMMA SnapshotTakenIsGood ==
  ASSUME NEW s, Good(s)
  PROVE  Good(SnapshotTaken(s))
<1> DEFINE resumed == [s EXCEPT !.snapshots = @ - 1]
<1>1. Good(resumed)
  BY UnchangedIsGood DEF Unchanged, Good, Shaped, Members
<1>2. Good(ArmTimer(resumed, FALSE, FALSE))
  <2> HIDE DEF resumed
  <2>1. Members \subseteq DOMAIN resumed
    BY <1>1 DEF Good, Shaped
  <2> QED
    BY <1>1, <2>1, ArmTimerKeeps, UnchangedIsGood
<1> QED
  BY <1>1, <1>2 DEF SnapshotTaken

LEMMA DecideRestartIsGood ==
  ASSUME NEW s, NEW failed, NEW progressed, NEW silent, Good(s)
  PROVE  Good(DecideRestart(s, failed, progressed, silent))
BY ScheduleRecoveryIsGood, RequestRestartIsGood DEF DecideRestart

LEMMA TimerExpiresIsGood ==
  ASSUME NEW s, Good(s)
  PROVE  Good(TimerExpires(s))
<1> DEFINE t == Head(s.timers)
           failed == Reports(s, "failed")
           expired == [s EXCEPT !.timers = Unheld(Tail(@))]
           asking == [expired EXCEPT !.checks =
                        Append(@, [failed |-> failed, since |-> t.since])]
<1>1. Good(expired)
  BY UnchangedIsGood DEF Unchanged, Good, Shaped, Members
<1>2. Good(ClearRecovery(expired))
  BY <1>1, ClearRecoveryIsGood DEF Good
<1>3. Good(DecideRestart(expired, failed, t.since, TRUE))
  BY <1>1, DecideRestartIsGood
<1>4. Good(asking)
  BY <1>1, UnchangedIsGood DEF Unchanged, Good, Shaped, Members
<1> HIDE DEF asking
<1>5. \/ TimerExpires(s) = ClearRecovery(expired)
      \/ TimerExpires(s) = DecideRestart(expired, failed, t.since, TRUE)
      \/ TimerExpires(s) = asking
  BY DEF TimerExpires, asking
<1> QED
  BY <1>2, <1>3, <1>4, <1>5

LEMMA CheckTakenIsGood ==
  ASSUME NEW s, NEW progressed, Good(s)
  PROVE  Good(CheckTaken(s, progressed))
<1> DEFINE resumed == [s EXCEPT !.checks = Tail(@)]
<1>1. Good(resumed)
  BY UnchangedIsGood DEF Unchanged, Good, Shaped, Members
<1> QED
  BY <1>1, DecideRestartIsGood DEF CheckTaken

LEMMA OfferMadeIsGood ==
  ASSUME NEW s, Good(s), s.offers > 0
  PROVE  Good(OfferMade(s))
<1> DEFINE made == [s EXCEPT !.offers = @ - 1]
           sent == SendSignal(made, "signal")
<1>1. Shaped(made) /\ QuietEnd(made) /\ FailedIsClosed(made)
  BY DEF Good, Shaped, QuietEnd, FailedIsClosed, Ended, Members
<1>2. Unchanged(made, sent)
  BY <1>1, SendSignalKeeps DEF Shaped
<1>3. Shaped(sent) /\ QuietEnd(sent) /\ FailedIsClosed(sent)
  BY <1>1, <1>2 DEF Unchanged, Shaped, QuietEnd, FailedIsClosed, Ended
<1>4. Counted(sent)
  <2>1. SameQueue(s, made)
    BY DEF SameQueue, Good, Shaped, Members
  <2>2. SameQueue(made, sent)
    BY <1>2 DEF Unchanged, SameQueue
  <2> QED
    BY <2>1, <2>2, SameQueueIsCounted DEF Good
<1> QED
  BY <1>3, <1>4, ArmWatchdogIsGood DEF OfferMade

LEMMA OfferFailsIsGood ==
  ASSUME NEW s, Good(s), s.offers > 0
  PROVE  Good(OfferFails(s))
<1> DEFINE rejected == [s EXCEPT !.offers = @ - 1, !.restartInFlight = FALSE]
<1>0. Counted(rejected)
  <2>1. SameQueue(s, rejected)
    BY DEF SameQueue, Good, Shaped, Members
  <2> QED
    BY <2>1, SameQueueIsCounted DEF Good
<1>1. Good(rejected)
  BY <1>0 DEF Good, Shaped, QuietEnd, Watched, FailedIsClosed, Ended, Members
<1> QED
  BY <1>1, FailIsGood DEF OfferFails

LEMMA WatchdogExpiresIsGood ==
  ASSUME NEW s, Good(s), s.watchdogs > 0
  PROVE  Good(WatchdogExpires(s))
<1> DEFINE expired == [s EXCEPT !.watchdogs = @ - 1, !.watched = FALSE,
                                !.restartInFlight = FALSE]
<1>0. Counted(expired)
  <2>1. SameQueue(s, expired)
    BY DEF SameQueue, Good, Shaped, Members
  <2> QED
    BY <2>1, SameQueueIsCounted DEF Good
<1>1. Good(expired)
  BY <1>0 DEF Good, Shaped, QuietEnd, Watched, FailedIsClosed, Ended, Members
<1>2. Good(ScheduleRecovery(expired, TRUE, TRUE))
  BY <1>1, ScheduleRecoveryIsGood
<1> QED
  BY <1>1, <1>2 DEF WatchdogExpires

LEMMA ConnectionStateChangedIsGood ==
  ASSUME NEW s, Good(s)
  PROVE  Good(ConnectionStateChanged(s))
<1> DEFINE cleared == ClearRecovery(s)
           healthy == [cleared EXCEPT
              !.restartAttempts = 0,
              !.pendingSignals = SelectSeq(@, LAMBDA m : m # "ice-restart-request")]
<1>1. Good(cleared)
  BY ClearRecoveryIsGood DEF Good
<1>2. Good(healthy)
  <2> HIDE DEF cleared
  <2> QED
    BY <1>1, UnchangedIsGood DEF Unchanged, Good, Shaped, Members
<1>3. Good(SendSignal(s, "rtc-failed"))
  BY SendSignalKeeps, UnchangedIsGood DEF Good, Shaped
<1>4. Good(ScheduleRecovery(s, FALSE, FALSE))
  BY ScheduleRecoveryIsGood
<1>5. CASE ~ s.peer \/ s.closed
  BY <1>5 DEF ConnectionStateChanged
<1>6. CASE s.peer /\ ~ s.closed /\ Reports(s, "connected")
  <2>1. ConnectionStateChanged(s) \in {s, healthy}
    BY <1>6 DEF ConnectionStateChanged
  <2> QED
    BY <1>2, <2>1
<1>7. CASE s.peer /\ ~ s.closed /\ ~ Reports(s, "connected")
  BY <1>3, <1>4, <1>7 DEF ConnectionStateChanged
<1> QED
  BY <1>5, <1>6, <1>7

---------------------------------------------------------------------------
(* The receive queue. *)

(* A change of the queue alone leaves the recovery as it was. *)
LEMMA QueueStepIsGood ==
  ASSUME NEW s, NEW t, Good(s), Counted(t), DOMAIN t = DOMAIN s,
         t.closed = s.closed, t.disconnected = s.disconnected,
         t.failed = s.failed, t.recoveryPending = s.recoveryPending,
         t.restartInFlight = s.restartInFlight, t.offers = s.offers,
         t.watchdogs = s.watchdogs, t.watched = s.watched
  PROVE  Good(t)
BY DEF Good, Shaped, QuietEnd, Watched, FailedIsClosed, Ended

(* The numbers behind Counted. *)
LEMMA CountsOf ==
  ASSUME NEW s, Counted(s)
  PROVE  /\ s.received \in Seq(Nat) /\ s.conversions \in Seq(Nat)
         /\ Len(s.received) \in Nat /\ Len(s.conversions) \in Nat
         /\ s.receivedBytes \in Nat /\ s.pendingPackets \in Nat
         /\ s.pendingBytes \in Nat
         /\ s.receivedBytes = Bytes(s.received)
         /\ Len(s.received) + s.pendingPackets <= MaxPackets
         /\ s.receivedBytes + s.pendingBytes <= MaxBytes
         /\ s.closed => s.pendingPackets = 0 /\ s.pendingBytes = 0
         /\ ~ s.closed => /\ s.pendingPackets = Len(s.conversions)
                          /\ s.pendingBytes = Bytes(s.conversions)
<1>1. s.received \in Seq(Nat) /\ s.conversions \in Seq(Nat)
  BY DEF Counted
<1>2. Len(s.received) \in Nat /\ Len(s.conversions) \in Nat
  BY <1>1
<1> QED
  BY <1>1, <1>2 DEF Counted

(* The sums that room in the queue is about. *)
LEMMA Sums ==
  ASSUME NEW n \in Nat, NEW m \in Nat, NEW k \in Nat, NEW limit \in Nat
  PROVE  /\ n + k \in Nat /\ m + k \in Nat
         /\ n + m + k <= limit => (n + k) + m <= limit /\ n + (m + k) <= limit
         /\ n + m <= limit => /\ n + (m - k) + k <= limit
                              /\ n + (m - k) <= limit
                              /\ (n - k) + m <= limit
OBVIOUS

LEMMA CountedWhen ==
  ASSUME NEW s,
         NEW n \in Nat, NEW m \in Nat, NEW b \in Nat, NEW c \in Nat,
         s.received \in Seq(Nat), s.conversions \in Seq(Nat),
         Len(s.received) = n, s.pendingPackets = m,
         s.receivedBytes = b, s.pendingBytes = c,
         n + m <= MaxPackets, b + c <= MaxBytes,
         Bytes(s.received) = b,
         m = IF s.closed THEN 0 ELSE Len(s.conversions),
         c = IF s.closed THEN 0 ELSE Bytes(s.conversions)
  PROVE  Counted(s)
BY DEF Counted

(* There is room for one more packet. *)
Fits(s, size) ==
  /\ Len(s.received) + s.pendingPackets + 1 <= MaxPackets
  /\ s.receivedBytes + s.pendingBytes + size <= MaxBytes

LEMMA EnqueueIsGood ==
  ASSUME NEW s, NEW size \in Nat, Good(s), Fits(s, size)
  PROVE  Good(Enqueue(s, size))
<1> DEFINE t == [s EXCEPT !.received = Append(@, size), !.receivedBytes = @ + size]
<1>1. /\ DOMAIN t = DOMAIN s
      /\ t.received = Append(s.received, size)
      /\ t.receivedBytes = s.receivedBytes + size
      /\ t.pendingPackets = s.pendingPackets /\ t.pendingBytes = s.pendingBytes
      /\ t.conversions = s.conversions
      /\ t.closed = s.closed /\ t.disconnected = s.disconnected
      /\ t.failed = s.failed /\ t.recoveryPending = s.recoveryPending
      /\ t.restartInFlight = s.restartInFlight /\ t.offers = s.offers
      /\ t.watchdogs = s.watchdogs /\ t.watched = s.watched
  BY DEF Good, Shaped, Members
<1>2. Enqueue(s, size) \in {s, t}
  BY DEF Enqueue
<1> HIDE DEF t
<1>3. /\ t.received \in Seq(Nat) /\ Len(t.received) = Len(s.received) + 1
      /\ Bytes(t.received) = Bytes(s.received) + size
  BY <1>1, BytesOfMore DEF Good, Counted
<1>4. Counted(t)
  <2> DEFINE n == Len(s.received)
             m == s.pendingPackets
             b == s.receivedBytes
             c == s.pendingBytes
  <2>1. Counted(s)
    BY DEF Good
  <2>2. /\ n \in Nat /\ m \in Nat /\ b \in Nat /\ c \in Nat
        /\ t.conversions \in Seq(Nat) /\ b = Bytes(s.received)
        /\ m = IF t.closed THEN 0 ELSE Len(t.conversions)
        /\ c = IF t.closed THEN 0 ELSE Bytes(t.conversions)
    BY <1>1, <2>1, CountsOf
  <2>3. n + m + 1 <= MaxPackets /\ b + c + size <= MaxBytes
    BY DEF Fits
  <2>4. /\ t.received \in Seq(Nat) /\ Len(t.received) = n + 1
        /\ t.receivedBytes = b + size /\ Bytes(t.received) = b + size
        /\ t.pendingPackets = m /\ t.pendingBytes = c
    BY <1>1, <1>3, <2>2
  <2> HIDE DEF n, m, b, c
  <2>5. /\ n + 1 \in Nat /\ b + size \in Nat
        /\ n + 1 + m <= MaxPackets /\ b + size + c <= MaxBytes
    BY <2>2, <2>3, Sums, RecoveryAssumption
  <2> QED
    BY <2>2, <2>4, <2>5, CountedWhen
<1>5. Good(t)
  BY <1>1, <1>4, QueueStepIsGood
<1> QED
  BY <1>2, <1>5

LEMMA ReceiveBinaryIsGood ==
  ASSUME NEW s, NEW size \in Nat, NEW blob, Good(s)
  PROVE  Good(ReceiveBinary(s, size, blob))
<1> DEFINE overflown == [s EXCEPT !.failed = TRUE]
           converting == [s EXCEPT !.pendingPackets = @ + 1, !.pendingBytes = @ + size,
                                   !.conversions = Append(@, size)]
<1>1. Good(Close(overflown))
  <2>1. Shaped(overflown) /\ SameQueue(s, overflown)
    BY DEF Good, Shaped, Members, SameQueue
  <2> QED
    BY <2>1, SameQueueIsCounted, CloseIsGood DEF Good
<1>2. ASSUME ~ IsFull(s, size) PROVE Fits(s, size)
  <2> DEFINE n == Len(s.received)
             m == s.pendingPackets
             b == s.receivedBytes
             c == s.pendingBytes
  <2>1. n \in Nat /\ m \in Nat /\ b \in Nat /\ c \in Nat
    BY CountsOf DEF Good
  <2>2. ~ (n + m >= MaxPackets) /\ ~ (size > MaxBytes - b - c)
    BY <1>2 DEF IsFull
  <2> HIDE DEF n, m, b, c
  <2>3. n + m + 1 <= MaxPackets /\ b + c + size <= MaxBytes
    BY <2>1, <2>2, RecoveryAssumption
  <2> QED
    BY <2>3 DEF Fits, n, m, b, c
<1>3. ASSUME Fits(s, size), ~ Ended(s) PROVE Good(converting)
  <2> DEFINE t == converting
  <2>1. /\ DOMAIN t = DOMAIN s
        /\ t.received = s.received /\ t.receivedBytes = s.receivedBytes
        /\ t.pendingPackets = s.pendingPackets + 1
        /\ t.pendingBytes = s.pendingBytes + size
        /\ t.conversions = Append(s.conversions, size)
        /\ t.closed = s.closed /\ t.disconnected = s.disconnected
        /\ t.failed = s.failed /\ t.recoveryPending = s.recoveryPending
        /\ t.restartInFlight = s.restartInFlight /\ t.offers = s.offers
        /\ t.watchdogs = s.watchdogs /\ t.watched = s.watched
    BY DEF Good, Shaped, Members
  <2> HIDE DEF converting
  <2>2. /\ t.conversions \in Seq(Nat) /\ Len(t.conversions) = Len(s.conversions) + 1
        /\ Bytes(t.conversions) = Bytes(s.conversions) + size
    BY <2>1, BytesOfMore DEF Good, Counted
  <2>3. Counted(t)
    <3> DEFINE n == Len(s.received)
               m == s.pendingPackets
               b == s.receivedBytes
               c == s.pendingBytes
    <3>1. Counted(s) /\ ~ s.closed
      BY <1>3 DEF Good, Ended
    <3>2. /\ n \in Nat /\ m \in Nat /\ b \in Nat /\ c \in Nat
          /\ s.received \in Seq(Nat) /\ b = Bytes(s.received)
          /\ m = Len(s.conversions) /\ c = Bytes(s.conversions)
      BY <3>1, CountsOf
    <3>3. n + m + 1 <= MaxPackets /\ b + c + size <= MaxBytes
      BY <1>3 DEF Fits
    <3>4. /\ t.received \in Seq(Nat) /\ Len(t.received) = n /\ ~ t.closed
          /\ t.receivedBytes = b /\ Bytes(t.received) = b
          /\ t.pendingPackets = m + 1 /\ Len(t.conversions) = m + 1
          /\ t.pendingBytes = c + size /\ Bytes(t.conversions) = c + size
      BY <2>1, <2>2, <3>1, <3>2
    <3> HIDE DEF n, m, b, c
    <3>5. /\ m + 1 \in Nat /\ c + size \in Nat
          /\ n + (m + 1) <= MaxPackets /\ b + (c + size) <= MaxBytes
      <4>1. n \in Nat /\ m \in Nat /\ b \in Nat /\ c \in Nat
        BY <3>2
      <4> QED
        BY <3>3, <4>1, Sums, RecoveryAssumption
    <3> QED
      BY <2>2, <3>2, <3>4, <3>5, CountedWhen
  <2> QED
    BY <2>1, <2>3, QueueStepIsGood
<1>4. Fits(s, size) => Good(Enqueue(s, size))
  BY EnqueueIsGood
<1> HIDE DEF converting
<1>5. \/ ReceiveBinary(s, size, blob) = s
      \/ ReceiveBinary(s, size, blob) = Close(overflown)
      \/ /\ ~ IsFull(s, size) /\ ~ Ended(s)
         /\ ReceiveBinary(s, size, blob) \in {converting, Enqueue(s, size)}
  BY DEF ReceiveBinary, converting
<1> QED
  BY <1>1, <1>2, <1>3, <1>4, <1>5

LEMMA ConversionEndsIsGood ==
  ASSUME NEW s, Good(s), NEW i \in DOMAIN s.conversions, NEW fulfilled \in BOOLEAN
  PROVE  Good(ConversionEnds(s, i, fulfilled))
<1> DEFINE size == s.conversions[i]
           rest == RemoveAt(s.conversions, i)
           done == [s EXCEPT !.conversions = RemoveAt(@, i)]
           released == [done EXCEPT !.pendingPackets = @ - 1, !.pendingBytes = @ - size]
<1>1. /\ size \in Nat /\ Bytes(s.conversions) \in Nat
      /\ rest \in Seq(Nat) /\ Len(rest) = Len(s.conversions) - 1
      /\ Bytes(rest) = Bytes(s.conversions) - size /\ Bytes(rest) \in Nat
  <2>1. s.conversions \in Seq(Nat) /\ i \in 1 .. Len(s.conversions)
    BY DEF Good, Counted
  <2>2. /\ rest \in Seq(Nat) /\ Len(rest) = Len(s.conversions) - 1
        /\ Bytes(rest) = Bytes(s.conversions) - size
    BY <2>1, BytesOfRest
  <2> HIDE DEF rest
  <2> QED
    BY <2>1, <2>2, BytesIsNatural
<1>2. /\ DOMAIN done = DOMAIN s
      /\ done.received = s.received /\ done.receivedBytes = s.receivedBytes
      /\ done.pendingPackets = s.pendingPackets /\ done.pendingBytes = s.pendingBytes
      /\ done.conversions = rest
      /\ done.closed = s.closed /\ done.disconnected = s.disconnected
      /\ done.failed = s.failed /\ done.recoveryPending = s.recoveryPending
      /\ done.restartInFlight = s.restartInFlight /\ done.offers = s.offers
      /\ done.watchdogs = s.watchdogs /\ done.watched = s.watched
  BY DEF Good, Shaped, Members
<1>3. \/ s.closed /\ ConversionEnds(s, i, fulfilled) = done
      \/ /\ ~ s.closed
         /\ ConversionEnds(s, i, fulfilled) \in {Enqueue(released, size), released}
  BY DEF ConversionEnds
<1>4. ASSUME s.closed PROVE Good(done)
  <2> HIDE DEF done, rest
  <2>1. Counted(done)
    BY <1>1, <1>2, <1>4 DEF Good, Counted
  <2> QED
    BY <1>2, <2>1, QueueStepIsGood
<1>5. ASSUME ~ s.closed PROVE Good(released) /\ Fits(released, size)
  <2> HIDE DEF done, rest, size
  <2>1. Members \subseteq DOMAIN done
    BY <1>2 DEF Good, Shaped
  <2>2. /\ DOMAIN released = DOMAIN s
        /\ released.received = s.received /\ released.receivedBytes = s.receivedBytes
        /\ released.pendingPackets = s.pendingPackets - 1
        /\ released.pendingBytes = s.pendingBytes - size
        /\ released.conversions = rest
        /\ released.closed = s.closed /\ released.disconnected = s.disconnected
        /\ released.failed = s.failed
        /\ released.recoveryPending = s.recoveryPending
        /\ released.restartInFlight = s.restartInFlight
        /\ released.offers = s.offers
        /\ released.watchdogs = s.watchdogs /\ released.watched = s.watched
    BY <1>2, <2>1 DEF Members
  <2> HIDE DEF released
  <2> DEFINE n == Len(s.received)
             m == s.pendingPackets
             b == s.receivedBytes
             c == s.pendingBytes
  <2>3. Counted(s)
    BY DEF Good
  <2>4. /\ n \in Nat /\ m \in Nat /\ b \in Nat /\ c \in Nat
        /\ s.received \in Seq(Nat) /\ b = Bytes(s.received)
        /\ m = Len(s.conversions) /\ c = Bytes(s.conversions)
        /\ n + m <= MaxPackets /\ b + c <= MaxBytes
    BY <1>5, <2>3, CountsOf
  <2>5. /\ size \in Nat /\ m - 1 \in Nat /\ c - size \in Nat
        /\ Len(rest) = m - 1 /\ Bytes(rest) = c - size
    <3>1. Len(rest) \in Nat
      BY <1>1
    <3> QED
      BY <1>1, <2>4, <3>1
  <2>6. /\ released.received \in Seq(Nat) /\ Len(released.received) = n
        /\ ~ released.closed /\ released.conversions \in Seq(Nat)
        /\ released.receivedBytes = b /\ Bytes(released.received) = b
        /\ released.pendingPackets = m - 1 /\ Len(released.conversions) = m - 1
        /\ released.pendingBytes = c - size
        /\ Bytes(released.conversions) = c - size
    BY <1>1, <1>5, <2>2, <2>4, <2>5
  <2> HIDE DEF n, m, b, c
  <2>7. /\ n + (m - 1) <= MaxPackets /\ b + (c - size) <= MaxBytes
        /\ n + (m - 1) + 1 <= MaxPackets /\ b + (c - size) + size <= MaxBytes
    <3>1. /\ n \in Nat /\ m \in Nat /\ b \in Nat /\ c \in Nat /\ size \in Nat
          /\ n + m <= MaxPackets /\ b + c <= MaxBytes
      BY <2>4, <2>5
    <3> QED
      BY <3>1, Sums, RecoveryAssumption
  <2>8. Counted(released)
    BY <2>4, <2>5, <2>6, <2>7, CountedWhen
  <2>9. Fits(released, size)
    BY <2>6, <2>7 DEF Fits
  <2> QED
    BY <2>2, <2>8, <2>9, QueueStepIsGood
<1>6. ASSUME ~ s.closed PROVE Good(Enqueue(released, size))
  <2> HIDE DEF released, size
  <2> QED
    BY <1>1, <1>5, <1>6, EnqueueIsGood
<1> HIDE DEF done, released, size
<1> QED
  BY <1>3, <1>4, <1>5, <1>6

(* The oldest packet is taken out of the queue. *)
LEMMA PolledIsGood ==
  ASSUME NEW s, Good(s), s.received # << >>
  PROVE  Good([s EXCEPT !.received = Tail(@), !.receivedBytes = @ - Head(s.received)])
<1> DEFINE t == [s EXCEPT !.received = Tail(@),
                          !.receivedBytes = @ - Head(s.received)]
<1>1. /\ DOMAIN t = DOMAIN s
      /\ t.received = Tail(s.received)
      /\ t.receivedBytes = s.receivedBytes - Head(s.received)
      /\ t.pendingPackets = s.pendingPackets /\ t.pendingBytes = s.pendingBytes
      /\ t.conversions = s.conversions
      /\ t.closed = s.closed /\ t.disconnected = s.disconnected
      /\ t.failed = s.failed /\ t.recoveryPending = s.recoveryPending
      /\ t.restartInFlight = s.restartInFlight /\ t.offers = s.offers
      /\ t.watchdogs = s.watchdogs /\ t.watched = s.watched
  BY DEF Good, Shaped, Members
<1> HIDE DEF t
<1>2. s.received \in Seq(Nat)
  BY DEF Good, Counted
<1> DEFINE size == Head(s.received)
           n == Len(s.received)
           m == s.pendingPackets
           b == s.receivedBytes
           c == s.pendingBytes
<1>3. Counted(s) /\ size \in Nat
  BY <1>2 DEF Good
<1>4. /\ n \in Nat /\ m \in Nat /\ b \in Nat /\ c \in Nat
      /\ b = Bytes(s.received)
      /\ t.conversions \in Seq(Nat)
      /\ m = IF t.closed THEN 0 ELSE Len(t.conversions)
      /\ c = IF t.closed THEN 0 ELSE Bytes(t.conversions)
      /\ n + m <= MaxPackets /\ b + c <= MaxBytes
  BY <1>1, <1>3, CountsOf
<1>5. /\ Tail(s.received) \in Seq(Nat) /\ Len(Tail(s.received)) = n - 1
      /\ Bytes(Tail(s.received)) = b - size
  BY <1>2, <1>4, BytesOfTail
<1>6. /\ t.received \in Seq(Nat) /\ Len(t.received) = n - 1
      /\ Bytes(t.received) = b - size /\ t.receivedBytes = b - size
      /\ t.pendingPackets = m /\ t.pendingBytes = c
  BY <1>1, <1>5
<1>7. n - 1 \in Nat /\ b - size \in Nat
  <2>1. Len(t.received) \in Nat /\ Bytes(t.received) \in Nat
    BY <1>6, BytesIsNatural
  <2> QED
    BY <1>6, <2>1
<1> HIDE DEF size, n, m, b, c
<1>8. (n - 1) + m <= MaxPackets /\ (b - size) + c <= MaxBytes
  BY <1>3, <1>4, RecoveryAssumption
<1>9. Counted(t)
  BY <1>4, <1>6, <1>7, <1>8, CountedWhen
<1> QED
  BY <1>1, <1>9, QueueStepIsGood DEF t

LEMMA HeardIsGood ==
  ASSUME NEW s, Good(s)
  PROVE  Good(Heard(s))
<1> DEFINE heard == [s EXCEPT
              !.quiet = FALSE, !.heard = TRUE,
              !.timers = [i \in DOMAIN @ |-> [@[i] EXCEPT !.since = TRUE]],
              !.checks = [i \in DOMAIN @ |-> [@[i] EXCEPT !.since = TRUE]]]
           cleared == ClearRecovery(heard)
           recovered == [cleared EXCEPT !.restartAttempts = 0]
<1>1. Good(heard)
  BY UnchangedIsGood DEF Unchanged, Good, Shaped, Members
<1>2. Good(cleared)
  BY <1>1, ClearRecoveryIsGood DEF Good
<1>3. Good(recovered)
  <2> HIDE DEF cleared
  <2> QED
    BY <1>2, UnchangedIsGood DEF Unchanged, Good, Shaped, Members
<1>4. Heard(s) \in {recovered, heard}
  BY DEF Heard
<1> QED
  BY <1>1, <1>3, <1>4

---------------------------------------------------------------------------
(* How a restart ends. *)

(* A restart that was in flight still is, or the session has ended. *)
Lasts(t) == t.restartInFlight \/ Ended(t)

LEMMA UnchangedLasts ==
  ASSUME NEW s, NEW t, Unchanged(s, t), s.restartInFlight
  PROVE  Lasts(t)
BY DEF Unchanged, Lasts

(* No second recovery begins beside it. *)
LEMMA RestartsWait ==
  ASSUME NEW s, s.restartInFlight
  PROVE  /\ RestartIce(s) = s /\ RequestRestart(s) = s
         /\ \A immediate, silent : ScheduleRecovery(s, immediate, silent) = s
<1>1. ~ MayRestart(s)
  BY DEF MayRestart
<1>2. RestartIce(s) = s /\ RequestRestart(s) = s
  BY <1>1 DEF RestartIce, RequestRestart
<1>3. ASSUME NEW immediate, NEW silent
      PROVE  ScheduleRecovery(s, immediate, silent) = s
  BY <1>1 DEF ScheduleRecovery
<1> QED
  BY <1>2, <1>3

LEMMA DecisionsWait ==
  ASSUME NEW s, NEW failed, NEW progressed, NEW silent, s.restartInFlight
  PROVE  DecideRestart(s, failed, progressed, silent) = s
BY RestartsWait DEF DecideRestart

LEMMA FailEnds ==
  ASSUME NEW s, NEW notify, Good(s)
  PROVE  Ended(Fail(s, notify))
<1> DEFINE told == IF notify THEN SendSignal(s, "peer-disconnected") ELSE s
           ended == [told EXCEPT !.disconnected = TRUE]
<1>1. CASE Ended(s) \/ s.failed
  BY <1>1 DEF Fail, Ended, Good, FailedIsClosed
<1>2. CASE ~ (Ended(s) \/ s.failed)
  <2>1. Members \subseteq DOMAIN told
    BY SendSignalKeeps DEF Good, Shaped, Unchanged
  <2>2. ended.disconnected /\ Members \subseteq DOMAIN ended
    BY <2>1 DEF Members
  <2>3. Ended(ClearRecovery(ended))
    <3> HIDE DEF ended
    <3> QED
      BY <2>2 DEF ClearRecovery, ClearsRecovery, Ended, Members
  <2> QED
    BY <1>2, <2>3 DEF Fail
<1> QED
  BY <1>1, <1>2

LEMMA CloseEnds ==
  ASSUME NEW s, Members \subseteq DOMAIN s
  PROVE  Ended(Close(s))
BY DEF Close, ClearRecovery, ClearsRecovery, Ended, Members

(* A packet that is received takes nothing from the restart, and keeps     *)
(* what is known of the path.                                              *)
LEMMA ReceiveLasts ==
  ASSUME NEW s, NEW size, NEW blob, Members \subseteq DOMAIN s
  PROVE  /\ s.restartInFlight => Lasts(ReceiveBinary(s, size, blob))
         /\ s.heard => ReceiveBinary(s, size, blob).heard
                        \/ Ended(ReceiveBinary(s, size, blob))
<1> DEFINE overflows == [s EXCEPT !.failed = TRUE]
           converts == [s EXCEPT !.pendingPackets = @ + 1, !.pendingBytes = @ + size,
                                 !.conversions = Append(@, size)]
<1>1. Ended(Close(overflows))
  BY CloseEnds DEF Members
<1>2. /\ converts.restartInFlight = s.restartInFlight /\ converts.heard = s.heard
      /\ Enqueue(s, size).restartInFlight = s.restartInFlight
      /\ Enqueue(s, size).heard = s.heard
  BY DEF Enqueue, Members
<1>3. \/ ReceiveBinary(s, size, blob) = s
      \/ ReceiveBinary(s, size, blob) = Close(overflows)
      \/ ReceiveBinary(s, size, blob) = converts
      \/ ReceiveBinary(s, size, blob) = Enqueue(s, size)
  BY DEF ReceiveBinary
<1> HIDE DEF overflows, converts
<1> QED
  BY <1>1, <1>2, <1>3 DEF Lasts

(* handlePeerConnectionState clears it for a packet only. *)
LEMMA ConnectionStateLasts ==
  ASSUME NEW s, Good(s), s.restartInFlight
  PROVE  Lasts(ConnectionStateChanged(s)) \/ ConnectionStateChanged(s).heard
<1> DEFINE healthy == [ClearRecovery(s) EXCEPT
              !.restartAttempts = 0,
              !.pendingSignals = SelectSeq(@, LAMBDA m : m # "ice-restart-request")]
<1>1. s.heard => healthy.heard
  BY DEF ClearRecovery, ClearsRecovery, Good, Shaped, Members
<1>2. Lasts(SendSignal(s, "rtc-failed"))
  BY SendSignalKeeps, UnchangedLasts DEF Good, Shaped
<1>3. ScheduleRecovery(s, FALSE, FALSE) = s /\ Lasts(s)
  BY RestartsWait DEF Lasts
<1>4. \/ ConnectionStateChanged(s) = s
      \/ s.heard /\ ConnectionStateChanged(s) = healthy
      \/ ConnectionStateChanged(s) = SendSignal(s, "rtc-failed")
      \/ ConnectionStateChanged(s) = ScheduleRecovery(s, FALSE, FALSE)
  BY DEF ConnectionStateChanged
<1> HIDE DEF healthy
<1> QED
  BY <1>1, <1>2, <1>3, <1>4

LEMMA HeardHears ==
  ASSUME NEW s, Members \subseteq DOMAIN s
  PROVE  Heard(s).heard
<1> DEFINE heard == [s EXCEPT
              !.quiet = FALSE, !.heard = TRUE,
              !.timers = [i \in DOMAIN @ |-> [@[i] EXCEPT !.since = TRUE]],
              !.checks = [i \in DOMAIN @ |-> [@[i] EXCEPT !.since = TRUE]]]
           recovered == [ClearRecovery(heard) EXCEPT !.restartAttempts = 0]
<1>1. heard.heard
  BY DEF Members
<1>2. recovered.heard
  <2> HIDE DEF heard
  <2> QED
    BY <1>1 DEF ClearRecovery, ClearsRecovery
<1>3. Heard(s) \in {recovered, heard}
  BY DEF Heard
<1> HIDE DEF heard, recovered
<1> QED
  BY <1>1, <1>2, <1>3

(* A recovery timer of the time before it clears it while ICE reports      *)
(* neither a failure nor a disconnection.                                  *)
LEMMA TimerLasts ==
  ASSUME NEW s, Good(s), s.restartInFlight,
         Reports(s, "failed") \/ Reports(s, "disconnected")
  PROVE  Lasts(TimerExpires(s))
<1> DEFINE t == Head(s.timers)
           failed == Reports(s, "failed")
           expired == [s EXCEPT !.timers = Unheld(Tail(@))]
           asking == [expired EXCEPT !.checks =
                        Append(@, [failed |-> failed, since |-> t.since])]
<1>1. expired.restartInFlight /\ asking.restartInFlight
  BY DEF Good, Shaped, Members
<1>2. DecideRestart(expired, failed, t.since, TRUE) = expired
  <2> HIDE DEF expired, failed, t, asking
  <2> QED
    BY <1>1, DecisionsWait
<1>3. \/ TimerExpires(s) = DecideRestart(expired, failed, t.since, TRUE)
      \/ TimerExpires(s) = asking
  <2> HIDE DEF asking
  <2> QED
    BY DEF TimerExpires, asking
<1> HIDE DEF expired, asking
<1> QED
  BY <1>1, <1>2, <1>3 DEF Lasts

LEMMA AwaitsLast ==
  ASSUME NEW s, Good(s), s.restartInFlight
  PROVE  /\ Lasts(SnapshotTaken(s))
         /\ \A progressed : Lasts(CheckTaken(s, progressed))
         /\ Lasts(OfferMade(s))
         /\ s.offers > 0 => Lasts(OfferFails(s))
<1>0. Members \subseteq DOMAIN s
  BY DEF Good, Shaped
<1>1. Lasts(SnapshotTaken(s))
  <2> DEFINE resumed == [s EXCEPT !.snapshots = @ - 1]
  <2>1. resumed.restartInFlight /\ Members \subseteq DOMAIN resumed
    BY <1>0 DEF Members
  <2> HIDE DEF resumed
  <2>2. Lasts(ArmTimer(resumed, FALSE, FALSE)) /\ Lasts(resumed)
    BY <2>1, ArmTimerKeeps, UnchangedLasts DEF Lasts
  <2> QED
    BY <2>2 DEF SnapshotTaken, resumed
<1>2. ASSUME NEW progressed PROVE Lasts(CheckTaken(s, progressed))
  <2> DEFINE resumed == [s EXCEPT !.checks = Tail(@)]
  <2>1. resumed.restartInFlight
    BY <1>0 DEF Members
  <2>2. CheckTaken(s, progressed) =
          DecideRestart(resumed, Head(s.checks).failed, progressed, FALSE)
    BY DEF CheckTaken
  <2> HIDE DEF resumed
  <2>3. DecideRestart(resumed, Head(s.checks).failed, progressed, FALSE) = resumed
    BY <2>1, DecisionsWait
  <2> QED
    BY <2>1, <2>2, <2>3 DEF Lasts
<1>3. Lasts(OfferMade(s))
  <2> DEFINE made == [s EXCEPT !.offers = @ - 1]
             sent == SendSignal(made, "signal")
  <2>1. made.restartInFlight /\ Members \subseteq DOMAIN made
    BY <1>0 DEF Members
  <2>2. sent.restartInFlight /\ Members \subseteq DOMAIN sent
    <3> HIDE DEF made
    <3> QED
      BY <2>1, SendSignalKeeps DEF Unchanged
  <2>3. ArmWatchdog(sent).restartInFlight
    <3> HIDE DEF sent
    <3> QED
      BY <2>2 DEF ArmWatchdog, Members
  <2> QED
    BY <2>3 DEF OfferMade, Lasts
<1>4. ASSUME s.offers > 0 PROVE Lasts(OfferFails(s))
  <2> DEFINE rejected == [s EXCEPT !.offers = @ - 1, !.restartInFlight = FALSE]
  <2>0. Counted(rejected)
    <3>1. SameQueue(s, rejected)
      BY DEF SameQueue, Good, Shaped, Members
    <3> QED
      BY <3>1, SameQueueIsCounted DEF Good
  <2>1. Good(rejected)
    BY <1>4, <2>0 DEF Good, Shaped, QuietEnd, Watched, FailedIsClosed, Ended, Members
  <2>2. Ended(Fail(rejected, TRUE))
    <3> HIDE DEF rejected
    <3> QED
      BY <2>1, FailEnds
  <2> QED
    BY <2>2 DEF OfferFails, Lasts
<1> QED
  BY <1>1, <1>2, <1>3, <1>4

(* What holds after a step that ends no restart, or ends it for a packet.  *)
GoesOn == Lasts(state) \/ state.heard

LEMMA StepGoesOn ==
  ASSUME NEW s, Lasts(s) \/ s.heard, Becomes(s) \/ Fault(s) \/ Event(s)
  PROVE  GoesOn'
BY DEF Becomes, Fault, Event, GoesOn

---------------------------------------------------------------------------
(* One lemma for the steps of each part of the transport. *)

(* Whatever counts a step, a fault or an event, its state is s. *)
LEMMA StateOfStep ==
  ASSUME NEW s, Good(s), Becomes(s) \/ Fault(s) \/ Event(s)
  PROVE  IInv'
BY DEF Becomes, Fault, Event, IInv

LEMMA SignalSteps ==
  ASSUME IInv, SignalOpens \/ SignalBreaks \/ SignalCloses \/ ReconnectTimer
  PROVE  IInv'
<1>0. Good(state)
  BY DEF IInv
<1>1. ASSUME NEW s, Good(s) PROVE Good(FallsBack(s))
  BY <1>1, SetRouteKeeps, UnchangedIsGood DEF FallsBack, Good, Shaped
<1>2. CASE SignalOpens
  <2>1. Good([state EXCEPT !.signal = "open", !.pendingSignals = << >>])
    BY <1>0, UnchangedIsGood DEF Unchanged, Good, Shaped, Members
  <2> QED
    BY <1>2, <2>1, StateOfStep DEF SignalOpens
<1>3. CASE SignalBreaks
  <2>1. Good([state EXCEPT !.signal = "closing"])
    BY <1>0, UnchangedIsGood DEF Unchanged, Good, Shaped, Members
  <2> QED
    BY <1>1, <1>3, <2>1, StateOfStep DEF SignalBreaks
<1>4. CASE SignalCloses
  <2> DEFINE s == [state EXCEPT !.signal = "none"]
  <2>1. Good(s)
    BY <1>0, UnchangedIsGood DEF Unchanged, Good, Shaped, Members
  <2>2. Good(ScheduleReconnect(s))
    BY <2>1, ScheduleReconnectKeeps, UnchangedIsGood DEF Good, Shaped
  <2> QED
    BY <1>1, <1>4, <2>1, <2>2, StateOfStep DEF SignalCloses
<1>5. CASE ReconnectTimer
  <2> DEFINE s == [state EXCEPT !.reconnect = FALSE]
  <2>1. Good(s)
    BY <1>0, UnchangedIsGood DEF Unchanged, Good, Shaped, Members
  <2>2. Good(OpenSignal(s))
    BY <2>1, OpenSignalKeeps, UnchangedIsGood DEF Good, Shaped
  <2> QED
    BY <1>5, <2>2, StateOfStep DEF ReconnectTimer
<1> QED
  BY <1>2, <1>3, <1>4, <1>5

LEMMA RoomSteps ==
  ASSUME IInv, \/ EnsurePeer \/ RouteArrives \/ SignalingFails
               \/ RestartRequestArrives \/ PeerDisconnectedArrives
  PROVE  IInv'
<1>0. Good(state)
  BY DEF IInv
<1>1. CASE EnsurePeer
  <2>1. Good([state EXCEPT !.peer = TRUE])
    BY <1>0, UnchangedIsGood DEF Unchanged, Good, Shaped, Members
  <2> QED
    BY <1>1, <2>1, StateOfStep DEF EnsurePeer
<1>2. CASE RouteArrives
  <2>1. Good(SetRoute(state, "rtc")) /\ Good(SetRoute(state, "relay"))
    BY <1>0, SetRouteKeeps, UnchangedIsGood DEF Good, Shaped
  <2> QED
    BY <1>2, <2>1, StateOfStep DEF RouteArrives
<1>3. CASE SignalingFails
  BY <1>0, <1>3, FailIsGood, StateOfStep DEF SignalingFails
<1>4. CASE RestartRequestArrives
  BY <1>0, <1>4, RestartIceIsGood, StateOfStep DEF RestartRequestArrives
<1>5. CASE PeerDisconnectedArrives
  BY <1>0, <1>5, FailIsGood, StateOfStep DEF PeerDisconnectedArrives
<1> QED
  BY <1>1, <1>2, <1>3, <1>4, <1>5

LEMMA RelaySteps ==
  ASSUME IInv, RelayOpens \/ RelayBreaks \/ RelayPacket
  PROVE  IInv'
<1>0. Good(state)
  BY DEF IInv
<1>1. CASE RelayOpens
  <2> DEFINE s == [state EXCEPT !.relay = "open"]
  <2>1. Good(s)
    BY <1>0, UnchangedIsGood DEF Unchanged, Good, Shaped, Members
  <2>2. Good(FallsBack(s))
    BY <2>1, SetRouteKeeps, UnchangedIsGood DEF FallsBack, Good, Shaped
  <2> QED
    BY <1>1, <2>1, <2>2, StateOfStep DEF RelayOpens
<1>2. CASE RelayBreaks
  <2> DEFINE s == [state EXCEPT !.relay = "none"]
  <2>1. Good(s)
    BY <1>0, UnchangedIsGood DEF Unchanged, Good, Shaped, Members
  <2> QED
    BY <1>2, <2>1, FailIsGood, StateOfStep DEF RelayBreaks
<1>3. CASE RelayPacket
  BY <1>0, <1>3, TransportAssumption, ReceiveBinaryIsGood, StateOfStep DEF RelayPacket
<1> QED
  BY <1>1, <1>2, <1>3

LEMMA PeerSteps ==
  ASSUME IInv, \/ Connects \/ StateChanges \/ ChannelOpens \/ ChannelCloses
               \/ PacketArrives \/ SendTo \/ BecomesQuiet
  PROVE  IInv'
<1>0. Good(state)
  BY DEF IInv
<1>1. CASE Connects
  <2> DEFINE s == [state EXCEPT !.connection = "connected", !.ice = "connected"]
  <2>1. Good(s)
    BY <1>0, UnchangedIsGood DEF Unchanged, Good, Shaped, Members
  <2> QED
    BY <1>1, <2>1, ConnectionStateChangedIsGood, StateOfStep DEF Connects
<1>2. CASE StateChanges
  <2>1. PICK now \in {"new", "connected", "disconnected", "failed"} :
          \/ Event(ConnectionStateChanged([state EXCEPT !.connection = now]))
          \/ Event(ConnectionStateChanged([state EXCEPT !.ice = now]))
    BY <1>2 DEF StateChanges
  <2>2. /\ Good([state EXCEPT !.connection = now])
        /\ Good([state EXCEPT !.ice = now])
    BY <1>0, UnchangedIsGood DEF Unchanged, Good, Shaped, Members
  <2> QED
    BY <2>1, <2>2, ConnectionStateChangedIsGood, StateOfStep
<1>3. CASE ChannelOpens
  <2>1. ASSUME NEW s, Good(s) PROVE Good(ReportReady(s))
    BY <2>1, UnchangedIsGood DEF ReportReady, Unchanged, Good, Shaped, Members
  <2>2. /\ Good([state EXCEPT !.control = "open"])
        /\ Good([state EXCEPT !.input = "open"])
    BY <1>0, UnchangedIsGood DEF Unchanged, Good, Shaped, Members
  <2> QED
    BY <1>3, <2>1, <2>2, StateOfStep DEF ChannelOpens
<1>4. CASE ChannelCloses
  <2>1. ASSUME NEW s, Good(s) PROVE Good(ChannelLost(s))
    BY <2>1, FailIsGood DEF ChannelLost
  <2>2. /\ Good([state EXCEPT !.control = "closed"])
        /\ Good([state EXCEPT !.input = "closed"])
    BY <1>0, UnchangedIsGood DEF Unchanged, Good, Shaped, Members
  <2> QED
    BY <1>4, <2>1, <2>2, StateOfStep DEF ChannelCloses
<1>5. CASE PacketArrives
  <2>1. Good(Heard(state))
    BY <1>0, HeardIsGood
  <2> QED
    BY <1>5, <2>1, TransportAssumption, ReceiveBinaryIsGood, StateOfStep DEF PacketArrives
<1>6. CASE SendTo
  <2>1. Good([state EXCEPT !.sent = TRUE])
    BY <1>0, UnchangedIsGood DEF Unchanged, Good, Shaped, Members
  <2> QED
    BY <1>6, <2>1, StateOfStep DEF SendTo
<1>7. CASE BecomesQuiet
  <2>1. Good([state EXCEPT !.quiet = TRUE])
    BY <1>0, UnchangedIsGood DEF Unchanged, Good, Shaped, Members
  <2> QED
    BY <1>7, <2>1, StateOfStep DEF BecomesQuiet
<1> QED
  BY <1>1, <1>2, <1>3, <1>4, <1>5, <1>6, <1>7

LEMMA LaterSteps ==
  ASSUME IInv, HealthTimer \/ RecoveryTimer \/ Watchdog \/ Resume
  PROVE  IInv'
<1>0. Good(state)
  BY DEF IInv
<1>1. CASE HealthTimer
  BY <1>0, <1>1, ScheduleRecoveryIsGood, StateOfStep DEF HealthTimer
<1>2. CASE RecoveryTimer
  BY <1>0, <1>2, TimerExpiresIsGood, StateOfStep DEF RecoveryTimer
<1>3. CASE Watchdog
  BY <1>0, <1>3, WatchdogExpiresIsGood, StateOfStep DEF Watchdog
<1>4. CASE Snapshot
  BY <1>0, <1>4, SnapshotTakenIsGood, StateOfStep DEF Snapshot
<1>5. CASE Check
  BY <1>0, <1>5, CheckTakenIsGood, StateOfStep DEF Check
<1>6. CASE Offer
  BY <1>0, <1>6, OfferMadeIsGood, OfferFailsIsGood, StateOfStep DEF Offer
<1>7. CASE Convert
  BY <1>0, <1>7, ConversionEndsIsGood, StateOfStep DEF Convert
<1> QED
  BY <1>1, <1>2, <1>3, <1>4, <1>5, <1>6, <1>7 DEF Resume

LEMMA GameSteps ==
  ASSUME IInv, Poll \/ CloseTransport \/ PathChanges
  PROVE  IInv'
<1>0. Good(state)
  BY DEF IInv
<1>1. CASE Poll
  <2>1. Good([state EXCEPT !.received = Tail(@),
                           !.receivedBytes = @ - Head(state.received)])
    BY <1>0, <1>1, PolledIsGood DEF Poll
  <2> QED
    BY <1>1, <2>1, StateOfStep DEF Poll
<1>2. CASE CloseTransport
  BY <1>0, <1>2, CloseIsGood, StateOfStep DEF CloseTransport, Good
<1>3. CASE PathChanges
  BY <1>0, <1>3 DEF PathChanges, IInv
<1> QED
  BY <1>1, <1>2, <1>3

---------------------------------------------------------------------------
(* The theorems. *)

(* No callback, timer or continuation of the transport leaves a restart    *)
(* unwatched or a recovery behind the end of the session.                  *)
THEOREM RecoveryInvariant == Spec => []IInv
<1>1. Init => IInv
  BY InitialIsGood DEF Init, IInv
<1>2. IInv /\ [Next]_vars => IInv'
  <2> SUFFICES ASSUME IInv, [Next]_vars PROVE IInv'
    OBVIOUS
  <2>1. CASE Next
    BY <2>1, SignalSteps, RoomSteps, RelaySteps, PeerSteps, LaterSteps, GameSteps
    DEF Next
  <2>2. CASE UNCHANGED vars
    BY <2>2 DEF vars, IInv
  <2> QED
    BY <2>1, <2>2
<1> QED
  BY <1>1, <1>2, PTL DEF Spec

(* Once the transport is closed or disconnected no recovery is pending and *)
(* no restart in flight, whichever awaits and timers were under way        *)
(* (fail, close, clearPeerRecovery).                                       *)
THEOREM TheEndIsQuiet == Spec => []EndIsQuiet
<1>1. IInv => EndIsQuiet
  BY DEF IInv, Good, QuietEnd, EndIsQuiet
<1> QED
  BY <1>1, RecoveryInvariant, PTL

(* restartInFlight is never left without a watchdog, or an offer that will *)
(* arm one (requestPeerIceRestart, restartPeerIce).                        *)
THEOREM RestartsAreWatched == Spec => []RestartIsWatched
<1>1. IInv => RestartIsWatched
  BY DEF IInv, Good, Watched, RestartIsWatched
<1> QED
  BY <1>1, RecoveryInvariant, PTL

(* The queue of received packets, those still being converted included,    *)
(* stays within its limits, and its counters are the packets and the bytes *)
(* there are, whatever is closed in the middle of a conversion             *)
(* (receiveBinary, enqueueReceived, close, eagler_peer_poll_copy).         *)
THEOREM TheQueueIsCounted == Spec => []QueueIsCounted
<1>1. IInv => QueueIsCounted
  BY DEF IInv, Good, Counted, QueueIsCounted
<1> QED
  BY <1>1, RecoveryInvariant, PTL

(* A restart in flight ends by a packet received since it began, by the    *)
(* end of the session, by a watchdog, or by a recovery timer of the time   *)
(* before it that finds ICE reporting neither a failure nor a              *)
(* disconnection (handlePeerConnectionState, schedulePeerRecovery,         *)
(* restartPeerIce, fail, close, the handler of a packet).                  *)
THEOREM RestartsEndForACause == Spec => RestartEndsForACause
<1> DEFINE Cause ==
      \/ state'.heard \/ Ended(state') \/ Watchdog
      \/ RecoveryTimer /\ ~Reports(state, "failed") /\ ~Reports(state, "disconnected")
<1>1. ASSUME IInv, [Next]_vars, state.restartInFlight
      PROVE  state'.restartInFlight \/ Cause
  <2>0. Good(state) /\ Lasts(state) /\ Members \subseteq DOMAIN state
    BY <1>1 DEF IInv, Good, Shaped, Lasts
  <2>2. ASSUME SignalOpens \/ SignalBreaks \/ SignalCloses \/ ReconnectTimer
        PROVE  GoesOn'
    <3>1. ASSUME NEW s, s.restartInFlight, Members \subseteq DOMAIN s
          PROVE  Lasts(FallsBack(s))
      BY <3>1, SetRouteKeeps, UnchangedLasts DEF FallsBack, Lasts
    <3>2. CASE SignalOpens
      <4>1. Lasts([state EXCEPT !.signal = "open", !.pendingSignals = << >>])
        BY <1>1, <2>0 DEF Lasts, Members
      <4> QED
        BY StepGoesOn, <3>2, <4>1 DEF SignalOpens
    <3>3. CASE SignalBreaks
      <4> DEFINE s == [state EXCEPT !.signal = "closing"]
      <4>1. s.restartInFlight /\ Members \subseteq DOMAIN s
        BY <1>1, <2>0 DEF Members
      <4>2. Lasts(s) /\ Lasts(FallsBack(s))
        <5> HIDE DEF s
        <5> QED
          BY <3>1, <4>1 DEF Lasts
      <4> QED
        BY StepGoesOn, <3>3, <4>2 DEF SignalBreaks
    <3>4. CASE SignalCloses
      <4> DEFINE s == [state EXCEPT !.signal = "none"]
      <4>1. s.restartInFlight /\ Members \subseteq DOMAIN s
        BY <1>1, <2>0 DEF Members
      <4>2. Lasts(ScheduleReconnect(s)) /\ Lasts(FallsBack(s))
        <5> HIDE DEF s
        <5> QED
          BY <3>1, <4>1, ScheduleReconnectKeeps, UnchangedLasts
      <4> QED
        BY StepGoesOn, <3>4, <4>2 DEF SignalCloses
    <3>5. CASE ReconnectTimer
      <4> DEFINE s == [state EXCEPT !.reconnect = FALSE]
      <4>1. s.restartInFlight /\ Members \subseteq DOMAIN s
        BY <1>1, <2>0 DEF Members
      <4>2. Lasts(OpenSignal(s))
        <5> HIDE DEF s
        <5> QED
          BY <4>1, OpenSignalKeeps, UnchangedLasts
      <4> QED
        BY StepGoesOn, <3>5, <4>2 DEF ReconnectTimer
    <3> QED
      BY <2>2, <3>2, <3>3, <3>4, <3>5
  <2>3. ASSUME \/ EnsurePeer \/ RouteArrives \/ SignalingFails
               \/ RestartRequestArrives \/ PeerDisconnectedArrives
        PROVE  GoesOn'
    <3>1. /\ Lasts([state EXCEPT !.peer = TRUE])
          /\ Lasts(SetRoute(state, "rtc")) /\ Lasts(SetRoute(state, "relay"))
      BY <1>1, <2>0, SetRouteKeeps, UnchangedLasts DEF Lasts, Members
    <3>2. Lasts(Fail(state, TRUE)) /\ Lasts(Fail(state, FALSE))
      BY <2>0, FailEnds DEF Lasts
    <3>3. Lasts(RestartIce(state))
      BY <1>1, RestartsWait DEF Lasts
    <3>4. CASE EnsurePeer
      BY StepGoesOn, <3>1, <3>4 DEF EnsurePeer
    <3>5. CASE RouteArrives
      BY StepGoesOn, <3>1, <3>5 DEF RouteArrives
    <3>6. CASE SignalingFails
      BY StepGoesOn, <3>2, <3>6 DEF SignalingFails
    <3>7. CASE RestartRequestArrives
      BY StepGoesOn, <3>3, <3>7 DEF RestartRequestArrives
    <3>8. CASE PeerDisconnectedArrives
      BY StepGoesOn, <3>2, <3>8 DEF PeerDisconnectedArrives
    <3> QED
      BY <2>3, <3>4, <3>5, <3>6, <3>7, <3>8
  <2>4. ASSUME RelayOpens \/ RelayBreaks \/ RelayPacket PROVE GoesOn'
    <3>1. CASE RelayOpens
      <4> DEFINE s == [state EXCEPT !.relay = "open"]
      <4>1. s.restartInFlight /\ Members \subseteq DOMAIN s
        BY <1>1, <2>0 DEF Members
      <4>2. Lasts(s) /\ Lasts(FallsBack(s))
        <5> HIDE DEF s
        <5> QED
          BY <4>1, SetRouteKeeps, UnchangedLasts DEF FallsBack, Lasts
      <4> QED
        BY StepGoesOn, <3>1, <4>2 DEF RelayOpens
    <3>2. CASE RelayBreaks
      <4> DEFINE s == [state EXCEPT !.relay = "none"]
      <4>1. Good(s) /\ s.restartInFlight
        BY <1>1, <2>0, UnchangedIsGood DEF Unchanged, Members
      <4>2. Lasts(s) /\ Lasts(Fail(s, TRUE))
        <5> HIDE DEF s
        <5> QED
          BY <4>1, FailEnds DEF Lasts
      <4> QED
        BY StepGoesOn, <3>2, <4>2 DEF RelayBreaks
    <3>3. CASE RelayPacket
      <4>1. \A size, blob : Lasts(ReceiveBinary(state, size, blob))
        BY <1>1, <2>0, ReceiveLasts
      <4> QED
        BY StepGoesOn, <3>3, <4>1 DEF RelayPacket
    <3> QED
      BY <2>4, <3>1, <3>2, <3>3
  <2>5. ASSUME Connects \/ StateChanges PROVE GoesOn'
    <3>1. ASSUME NEW s, Unchanged(state, s)
          PROVE  Lasts(ConnectionStateChanged(s)) \/ ConnectionStateChanged(s).heard
      BY <1>1, <2>0, <3>1, UnchangedIsGood, ConnectionStateLasts DEF Unchanged
    <3>2. CASE Connects
      <4>1. Unchanged(state, [state EXCEPT !.connection = "connected",
                                           !.ice = "connected"])
        BY <2>0 DEF Unchanged, Members
      <4> QED
        BY StepGoesOn, <3>1, <3>2, <4>1 DEF Connects
    <3>3. CASE StateChanges
      <4>1. PICK now \in {"new", "connected", "disconnected", "failed"} :
              \/ Event(ConnectionStateChanged([state EXCEPT !.connection = now]))
              \/ Event(ConnectionStateChanged([state EXCEPT !.ice = now]))
        BY <3>3 DEF StateChanges
      <4>2. /\ Unchanged(state, [state EXCEPT !.connection = now])
            /\ Unchanged(state, [state EXCEPT !.ice = now])
        BY <2>0 DEF Unchanged, Members
      <4> QED
        BY StepGoesOn, <3>1, <4>1, <4>2
    <3> QED
      BY <2>5, <3>2, <3>3
  <2>6. ASSUME ChannelOpens \/ ChannelCloses PROVE GoesOn'
    <3>1. CASE ChannelOpens
      <4>1. ASSUME NEW s, Unchanged(state, s) PROVE Lasts(ReportReady(s))
        BY <1>1, <2>0, <4>1 DEF ReportReady, Unchanged, Members, Lasts
      <4>2. /\ Unchanged(state, [state EXCEPT !.control = "open"])
            /\ Unchanged(state, [state EXCEPT !.input = "open"])
        BY <2>0 DEF Unchanged, Members
      <4> QED
        BY StepGoesOn, <3>1, <4>1, <4>2 DEF ChannelOpens
    <3>2. CASE ChannelCloses
      <4>1. ASSUME NEW s, Unchanged(state, s) PROVE Lasts(ChannelLost(s))
        BY <1>1, <2>0, <4>1, UnchangedIsGood, UnchangedLasts, FailEnds
        DEF ChannelLost, Lasts
      <4>2. /\ Unchanged(state, [state EXCEPT !.control = "closed"])
            /\ Unchanged(state, [state EXCEPT !.input = "closed"])
        BY <2>0 DEF Unchanged, Members
      <4> QED
        BY StepGoesOn, <3>2, <4>1, <4>2 DEF ChannelCloses
    <3> QED
      BY <2>6, <3>1, <3>2
  <2>7. ASSUME PacketArrives PROVE GoesOn'
    <3>1. Heard(state).heard /\ Members \subseteq DOMAIN Heard(state)
      BY <2>0, HeardHears, HeardIsGood DEF Good, Shaped
    <3>2. \A size : \/ ReceiveBinary(Heard(state), size, FALSE).heard
                    \/ Ended(ReceiveBinary(Heard(state), size, FALSE))
      BY <3>1, ReceiveLasts
    <3> QED
      BY StepGoesOn, <2>7, <3>2 DEF PacketArrives, Lasts
  <2>8. ASSUME SendTo \/ BecomesQuiet PROVE GoesOn'
    <3>1. /\ Lasts([state EXCEPT !.sent = TRUE])
          /\ Lasts([state EXCEPT !.quiet = TRUE])
      BY <1>1, <2>0 DEF Lasts, Members
    <3> QED
      BY StepGoesOn, <2>8, <3>1 DEF SendTo, BecomesQuiet
  <2>9. ASSUME HealthTimer \/ Snapshot \/ Check \/ Offer PROVE GoesOn'
    <3>1. ScheduleRecovery(state, FALSE, TRUE) = state
      BY <1>1, RestartsWait
    <3>2. CASE HealthTimer
      BY <2>0, StepGoesOn, <3>1, <3>2 DEF HealthTimer
    <3>3. CASE Snapshot
      BY <1>1, <2>0, StepGoesOn, <3>3, AwaitsLast DEF Snapshot
    <3>4. CASE Check
      BY <1>1, <2>0, StepGoesOn, <3>4, AwaitsLast DEF Check
    <3>5. CASE Offer
      BY <1>1, <2>0, StepGoesOn, <3>5, AwaitsLast DEF Offer
    <3> QED
      BY <2>9, <3>2, <3>3, <3>4, <3>5
  <2>10. CASE RecoveryTimer
    <3>1. CASE Reports(state, "failed") \/ Reports(state, "disconnected")
      <4>1. Lasts(TimerExpires(state))
        BY <1>1, <2>0, <3>1, TimerLasts
      <4>2. GoesOn'
        BY StepGoesOn, <2>10, <4>1 DEF RecoveryTimer
      <4> QED
        BY <4>2 DEF GoesOn, Lasts
    <3>2. CASE ~ (Reports(state, "failed") \/ Reports(state, "disconnected"))
      BY <2>10, <3>2
    <3> QED
      BY <3>1, <3>2
  <2>11. ASSUME Convert PROVE GoesOn'
    <3>1. ASSUME NEW i, NEW fulfilled
          PROVE  Lasts(ConversionEnds(state, i, fulfilled))
      BY <1>1, <2>0 DEF ConversionEnds, Enqueue, Members, Lasts
    <3> QED
      BY StepGoesOn, <2>11, <3>1 DEF Convert
  <2>12. ASSUME Poll \/ CloseTransport \/ PathChanges PROVE GoesOn'
    <3>1. Lasts([state EXCEPT !.received = Tail(@),
                              !.receivedBytes = @ - Head(state.received)])
      BY <1>1, <2>0 DEF Lasts, Members
    <3>2. Lasts(Close(state))
      BY <2>0, CloseEnds DEF Lasts
    <3>3. CASE Poll
      BY StepGoesOn, <3>1, <3>3 DEF Poll
    <3>4. CASE CloseTransport
      BY StepGoesOn, <3>2, <3>4 DEF CloseTransport
    <3>5. CASE PathChanges
      BY <2>0, <3>5 DEF PathChanges, GoesOn
    <3> QED
      BY <2>12, <3>3, <3>4, <3>5
  <2>13. ASSUME UNCHANGED vars PROVE GoesOn'
    BY <2>0, <2>13 DEF vars, GoesOn
  <2>14. GoesOn' => state'.restartInFlight \/ Cause
    BY DEF GoesOn, Lasts
  <2>15. Watchdog => Cause
    OBVIOUS
  <2> HIDE DEF Cause
  <2> QED
    BY <1>1, <2>2, <2>3, <2>4, <2>5, <2>6, <2>7, <2>8, <2>9, <2>10, <2>11, <2>12,
       <2>13, <2>14, <2>15
    DEF Next, Resume
<1>2. IInv /\ [Next]_vars =>
        [state.restartInFlight /\ ~state'.restartInFlight => Cause]_vars
  BY <1>1
<1> QED
  BY <1>2, RecoveryInvariant, PTL DEF Spec, RestartEndsForACause
=============================================================================
