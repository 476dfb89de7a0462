------------------------- MODULE WriterQueue_proofs -------------------------
(* Theorems about the lock-free ring, for every ring size, batch size,      *)
(* number of producers and number of connection cycles.                     *)
EXTENDS WriterQueue, Integers, SequenceTheorems, TLAPS

N == ringBufferSize

USE SizeAssumption, BatchAssumption, WqBoundAssumption, MayFailAssumption, NoMessageAssumption

-----------------------------------------------------------------------------
(* Arithmetic of the slot index.                                            *)

LEMMA Division ==
    ASSUME NEW i \in Int, NEW m \in Int, m > 0
    PROVE  \E q \in Int : i = m * q + (i % m)
  BY Z3T(30)

LEMMA Quotient ==
    ASSUME NEW i \in Int, NEW m \in Int, m > 0,
           NEW q \in Int, NEW r \in 0 .. m - 1, i = m * q + r
    PROVE  i % m = r
  BY SMTT(30)

LEMMA Products ==
    ASSUME NEW m \in Int, m > 0, NEW k \in Int
    PROVE  /\ m * k \in Int
           /\ m * (k + 1) = m * k + m
           /\ (k >= 1) => (m * k >= m)
           /\ (k <= 0) => (m * k <= 0)
  OBVIOUS

LEMMA Distribute ==
    ASSUME NEW m \in Int, NEW a \in Int, NEW b \in Int
    PROVE  m * b - m * a = m * (b - a)
  OBVIOUS

LEMMA SlotRange == ASSUME NEW i \in Nat PROVE SlotOf(i) \in Slot
  BY DEF SlotOf, Slot

\* Two indices less than a ring apart never share a slot.
LEMMA SlotApart ==
    ASSUME NEW i \in Nat, NEW j \in Nat, i < j, j < i + N
    PROVE  SlotOf(i) # SlotOf(j)
<1> SUFFICES ASSUME i % N = j % N PROVE FALSE
  BY DEF SlotOf, N
<1>1. N \in Int /\ N > 0 /\ i \in Int /\ j \in Int
  BY DEF N
<1>2. PICK a \in Int : i = N * a + (i % N)
  BY <1>1, Division, Zenon
<1>3. PICK b \in Int : j = N * b + (j % N)
  BY <1>1, Division, Zenon
<1> DEFINE r == i % N
           k == b - a
           x == N * a
           y == N * b
           z == N * k
<1>4. r \in Int
  BY <1>1 DEF N
<1>5. i = x + r /\ j = y + r
  BY <1>2, <1>3, Zenon
<1>6. k \in Int
  OBVIOUS
<1>7. x \in Int /\ y \in Int
  BY <1>1, Products, Zenon
<1>8. y - x = z
  BY <1>1, Distribute, Zenon
<1>9. z \in Int /\ ((k >= 1) => (z >= N)) /\ ((k <= 0) => (z <= 0))
  <2> HIDE DEF k
  <2> QED  BY <1>1, <1>6, Products, Zenon
<1> HIDE DEF r, k, x, y, z, N
<1>10. j - i = y - x
  BY <1>1, <1>4, <1>5, <1>7
<1> QED  BY <1>1, <1>6, <1>8, <1>9, <1>10

\* An index and the next one of its slot, one lap later.
LEMMA SlotLap == ASSUME NEW i \in Nat PROVE SlotOf(i + N) = SlotOf(i)
<1>1. N \in Int /\ N > 0 /\ i \in Int /\ i + N \in Int
  BY DEF N
<1> DEFINE r == i % N
<1>2. PICK a \in Int : i = N * a + r
  BY <1>1, Division, Zenon
<1>3. r \in 0 .. N - 1
  BY DEF N
<1> HIDE DEF r, N
<1> DEFINE x == N * a
<1>4. x \in Int /\ N * (a + 1) = x + N
  BY <1>1, Products, Zenon
<1>5. i + N = (x + N) + r
  <2>1. i = x + r
    BY <1>2
  <2> HIDE DEF x
  <2> QED  BY <1>1, <1>3, <1>4, <2>1
<1>6. i + N = N * (a + 1) + r /\ a + 1 \in Int
  BY <1>4, <1>5
<1>7. (i + N) % N = r
  BY <1>1, <1>3, <1>6, Quotient, Zenon
<1> QED  BY <1>7 DEF r, SlotOf, N

\* Inside the window of the ring, slots and indices correspond.
LEMMA WindowSlots ==
    ASSUME NEW t \in Nat, NEW i \in Nat, NEW j \in Nat, i # j,
           t <= i, i < t + N, t <= j, j < t + N
    PROVE  SlotOf(i) # SlotOf(j)
<1>1. N \in Nat
  BY DEF N
<1>2. CASE i < j
  BY <1>1, <1>2, SlotApart
<1>3. CASE j < i
  BY <1>1, <1>3, SlotApart
<1> QED  BY <1>2, <1>3

-----------------------------------------------------------------------------
(* The inductive invariant.                                                 *)

\* The indices in use fit the ring, and the consumer pops only what is claimed.
Window ==
    /\ tail <= head /\ head <= tail + N
    /\ wpc \in {"spin", "clear", "advance"} => tail < head

\* What a producer has loaded; a claim lies in the window.
Loaded ==
    \A p \in Producer :
        /\ phead[p] <= head
        /\ ppc[p] # "idle" => sends[p] >= 1
        /\ ppc[p] = "cas" => phead[p] < tail + N
        /\ Claims(p) => tail <= phead[p] /\ phead[p] < head

\* No two producers claim the same index.
Distinct ==
    \A p, q \in Producer : p # q /\ Claims(p) /\ Claims(q) => phead[p] # phead[q]

\* The slots of unclaimed indices are free.
FreeSlots ==
    \A i \in Nat : head <= i /\ i < tail + N =>
        msg[SlotOf(i)] = NoMessage /\ ~ready[SlotOf(i)]

\* The slot of a claim: empty, then filled, and not ready.
Claimed ==
    \A p \in Producer : Claims(p) =>
        /\ ~ready[SlotOf(phead[p])]
        /\ ppc[p] = "write" => msg[SlotOf(phead[p])] = NoMessage
        /\ ppc[p] = "ready" => msg[SlotOf(phead[p])] # NoMessage

\* The slot the consumer is leaving.
Leaving ==
    /\ wpc = "clear" => msg[SlotOf(tail)] = NoMessage /\ ready[SlotOf(tail)]
    /\ wpc = "advance" => /\ msg[SlotOf(tail)] = NoMessage /\ ~ready[SlotOf(tail)]
                          /\ \A p \in Producer : Claims(p) => phead[p] # tail

\* A ready slot holds a message, unless the consumer has just read it.
ReadyFull ==
    \A s \in Slot : ready[s] => msg[s] # NoMessage \/ (wpc = "clear" /\ s = SlotOf(tail))

\* writerLoop runs only while the writer is started or being stopped, a batch being
\* collected has room for the next message, and cycles to come have no writeLoop.
Lifecycle ==
    /\ wpc # "off" => started \/ \E l \in Link : lpc[l] = "stopping"
    /\ wpc = "spin" => Len(batch) < writerBatchSize
    /\ \A l \in Link : links < l => lpc[l] = "none"

RingInv == WqTypeOK /\ Window /\ Loaded /\ Distinct /\ FreeSlots /\ Claimed
           /\ Leaving /\ ReadyFull /\ Lifecycle

LEMMA RingInit == WqInit => RingInv
<1> SUFFICES ASSUME WqInit PROVE RingInv
  OBVIOUS
<1>1. WqTypeOK
  <2>1. SendCap \in Nat /\ MaxSends \in Nat /\ MaxLinks \in Nat /\ MaxLinks >= 1
    OBVIOUS
  <2>2. /\ msg \in [Slot -> Message \cup {NoMessage}] /\ ready \in [Slot -> BOOLEAN]
        /\ head \in Nat /\ tail \in Nat /\ notEmpty \in BOOLEAN
    BY DEF WqInit
  <2>3. /\ ppc \in [Producer -> ProducerPC] /\ phead \in [Producer -> Nat]
        /\ sends \in [Producer -> 0 .. MaxSends]
    BY <2>1 DEF WqInit, ProducerPC
  <2>4. /\ lpc \in [Link -> LoopPC] /\ watch \in [Link -> 0 .. MaxLinks]
        /\ link \in 0 .. MaxLinks /\ links \in 0 .. MaxLinks
        /\ wconn \in 0 .. MaxLinks
    BY <2>1 DEF WqInit, LoopPC
  <2>5. /\ batch \in Seq(Message) /\ Len(batch) <= writerBatchSize
        /\ sendChan \in Seq(Message) /\ Len(sendChan) <= SendCap
        /\ taken \in Seq(Message)
    BY <2>1 DEF WqInit
  <2> QED  BY <2>2, <2>3, <2>4, <2>5 DEF WqInit, WqTypeOK, WriterPC
<1>2. Window /\ Loaded /\ Distinct /\ Leaving /\ Lifecycle
  BY DEF WqInit, Window, Loaded, Distinct, Leaving, Lifecycle, Claims, N
<1>3. FreeSlots
  BY SlotRange DEF WqInit, FreeSlots
<1>4. Claimed /\ ReadyFull
  BY DEF WqInit, Claimed, ReadyFull, Claims
<1> QED  BY <1>1, <1>2, <1>3, <1>4 DEF RingInv

\* Bounds and types every step below uses.
LEMMA RingFacts ==
    ASSUME RingInv
    PROVE  /\ head \in Nat /\ tail \in Nat /\ N \in Nat /\ N > 0
           /\ SlotOf(head) \in Slot /\ SlotOf(tail) \in Slot
           /\ \A p \in Producer : /\ phead[p] \in Nat /\ SlotOf(phead[p]) \in Slot
                                  /\ sends[p] \in 0 .. MaxSends
                                  /\ ppc[p] \in ProducerPC
           /\ msg \in [Slot -> Message \cup {NoMessage}] /\ ready \in [Slot -> BOOLEAN]
           /\ ppc \in [Producer -> ProducerPC] /\ phead \in [Producer -> Nat]
  BY SlotRange DEF RingInv, WqTypeOK, N

\* Two different claims, or a claim and the tail, lie in different slots.
LEMMA ClaimSlots ==
    ASSUME RingInv
    PROVE  /\ \A p, q \in Producer : p # q /\ Claims(p) /\ Claims(q)
                => SlotOf(phead[p]) # SlotOf(phead[q])
           /\ \A p \in Producer, i \in Nat :
                Claims(p) /\ i # phead[p] /\ tail <= i /\ i < tail + N
                => SlotOf(i) # SlotOf(phead[p])
<1>1. \A p \in Producer : Claims(p) => /\ phead[p] \in Nat /\ tail <= phead[p]
                                      /\ phead[p] < tail + N
  BY RingFacts DEF RingInv, Loaded, Window
<1>2. tail \in Nat
  BY RingFacts
<1>3. \A p, q \in Producer : p # q /\ Claims(p) /\ Claims(q)
                             => SlotOf(phead[p]) # SlotOf(phead[q])
  <2> SUFFICES ASSUME NEW p \in Producer, NEW q \in Producer, p # q, Claims(p),
                      Claims(q)
               PROVE  SlotOf(phead[p]) # SlotOf(phead[q])
    OBVIOUS
  <2>1. phead[p] # phead[q]
    BY DEF RingInv, Distinct
  <2> QED  BY <1>1, <1>2, <2>1, WindowSlots
<1>4. ASSUME NEW p \in Producer, NEW i \in Nat, Claims(p), i # phead[p], tail <= i,
             i < tail + N
      PROVE  SlotOf(i) # SlotOf(phead[p])
  BY <1>1, <1>2, <1>4, WindowSlots
<1> QED  BY <1>3, <1>4

\* A slot claimed by one producer only, as the property states it.
LEMMA RingExclusive == RingInv => SlotExclusive
  BY ClaimSlots DEF RingInv, Claimed, SlotExclusive

-----------------------------------------------------------------------------
(* Steps that leave the ring alone.                                         *)

\* A producer moves between locations at which it claims nothing.
LEMMA ProducerLight ==
    ASSUME RingInv, WqTypeOK', NEW p \in Producer, NEW l \in ProducerPC,
           MoveTo(p, l), l \notin {"write", "ready"}, ~Claims(p),
           UNCHANGED <<ringVars, wrVars, started, lpc, links>>,
           \A q \in Producer \ {p} : phead'[q] = phead[q] /\ sends'[q] = sends[q],
           phead'[p] <= head,
           l = "cas" => phead'[p] < tail + N,
           l # "idle" => sends'[p] >= 1
    PROVE  RingInv'
<1> USE DEF RingInv, ringVars, wrVars
<1>1. \A q \in Producer : ppc'[q] = IF q = p THEN l ELSE ppc[q]
  BY DEF MoveTo, WqTypeOK
<1>2. \A q \in Producer : Claims(q)' => /\ q # p /\ Claims(q) /\ ppc'[q] = ppc[q]
                                       /\ phead'[q] = phead[q]
  BY <1>1 DEF Claims
<1>3. Window' /\ Lifecycle' /\ ReadyFull'
  BY DEF Window, Lifecycle, ReadyFull
<1>4. Loaded'
  BY <1>1, <1>2 DEF Loaded
<1>5. Distinct'
  BY <1>2 DEF Distinct
<1>6. FreeSlots'
  BY DEF FreeSlots
<1>7. Claimed'
  BY <1>2 DEF Claimed
<1>8. Leaving'
  BY <1>2 DEF Leaving
<1> QED  BY <1>3, <1>4, <1>5, <1>6, <1>7, <1>8

\* writerLoop moves between locations at which it has not touched a slot.
LEMMA WriterLight ==
    ASSUME RingInv, WqTypeOK', UNCHANGED <<ringVars, prodVars>>,
           wpc \notin {"clear", "advance"}, wpc' \notin {"clear", "advance"},
           wpc' = "spin" => tail < head /\ Len(batch') < writerBatchSize,
           Lifecycle'
    PROVE  RingInv'
<1> USE DEF RingInv, ringVars, prodVars
<1>1. Window' /\ ReadyFull' /\ FreeSlots' /\ Leaving'
  BY DEF Window, ReadyFull, FreeSlots, Leaving
<1>2. Loaded' /\ Distinct' /\ Claimed'
  BY DEF Loaded, Distinct, Claimed, Claims
<1> QED  BY <1>1, <1>2

\* The writeLoops and the connection touch neither ring nor producers.
LEMMA LinkLight ==
    ASSUME RingInv, WqTypeOK', UNCHANGED <<ringVars, prodVars, wrVars>>, Lifecycle'
    PROVE  RingInv'
<1> USE DEF RingInv, ringVars, prodVars, wrVars
<1>1. Window' /\ ReadyFull' /\ FreeSlots'
  BY DEF Window, ReadyFull, FreeSlots
<1>2. Loaded' /\ Distinct' /\ Claimed' /\ Leaving'
  BY DEF Loaded, Distinct, Claimed, Claims, Leaving
<1> QED  BY <1>1, <1>2

-----------------------------------------------------------------------------
(* Steps on the ring.                                                       *)

\* What a Push leaves alone keeps its type.
LEMMA PushType ==
    ASSUME WqTypeOK, PushFrame,
           head' \in Nat, tail' = tail, notEmpty' \in BOOLEAN,
           msg' \in [Slot -> Message \cup {NoMessage}], ready' \in [Slot -> BOOLEAN],
           ppc' \in [Producer -> ProducerPC], phead' \in [Producer -> Nat]
    PROVE  WqTypeOK'
  BY DEF WqTypeOK, PushFrame, SendFrame, wrVars, lifeVars, fateVars

LEMMA GotoType ==
    ASSUME WqTypeOK, NEW p \in Producer, NEW l \in ProducerPC, MoveTo(p, l)
    PROVE  /\ ppc' \in [Producer -> ProducerPC]
           /\ \A q \in Producer : ppc'[q] = IF q = p THEN l ELSE ppc[q]
  BY DEF WqTypeOK, MoveTo

\* CompareAndSwap claims the index at the head, whose slot is free.
LEMMA ClaimInv ==
    ASSUME RingInv, NEW p \in Producer, CompareAndSwap(p) PROVE RingInv'
<1> USE DEF RingInv
<1>1. CASE head # phead[p]
  <2>1. MoveTo(p, "head") /\ head' = head /\ ppc[p] = "cas"
    BY <1>1 DEF CompareAndSwap
  <2>2. WqTypeOK'
    BY <2>1, GotoType, PushType DEF CompareAndSwap, WqTypeOK, ProducerPC
  <2> QED
    BY <2>1, <2>2, ProducerLight
    DEF CompareAndSwap, PushFrame, SendFrame, ringVars, wrVars, lifeVars, Claims,
        ProducerPC, Loaded
<1>2. CASE head = phead[p]
  <2>1. /\ ppc[p] = "cas" /\ head' = head + 1 /\ MoveTo(p, "write")
        /\ UNCHANGED <<tail, msg, ready, notEmpty, phead, sends, wpc, batch, started, lpc, links>>
    BY <1>2 DEF CompareAndSwap, PushFrame, SendFrame, wrVars, lifeVars
  <2>2. "write" \in ProducerPC /\ head + 1 \in Nat
    BY DEF ProducerPC, WqTypeOK
  <2>3. WqTypeOK'
    BY <2>1, <2>2, GotoType, PushType DEF CompareAndSwap, WqTypeOK
  <2>4. \A q \in Producer : ppc'[q] = IF q = p THEN "write" ELSE ppc[q]
    BY <2>1, <2>2, GotoType
  <2>5. /\ head \in Nat /\ tail \in Nat /\ N \in Nat /\ SlotOf(head) \in Slot
        /\ \A q \in Producer : phead[q] \in Nat
    BY RingFacts
  <2>6. head < tail + N /\ msg[SlotOf(head)] = NoMessage /\ ~ready[SlotOf(head)]
    BY <1>2, <2>1, <2>5 DEF Loaded, FreeSlots
  <2>7. \A q \in Producer : q # p => (Claims(q)' <=> Claims(q))
    BY <2>4 DEF Claims
  <2>8. Window' /\ ReadyFull' /\ Lifecycle'
    BY <2>1, <2>5, <2>6 DEF Window, ReadyFull, Lifecycle
  <2>9. Loaded'
    BY <1>2, <2>1, <2>4, <2>5, <2>6, <2>7 DEF Loaded, Window
  <2>10. Distinct'
    BY <1>2, <2>1, <2>5, <2>7 DEF Distinct, Loaded
  <2>11. FreeSlots'
    BY <2>1, <2>5 DEF FreeSlots
  <2>12. Claimed'
    BY <1>2, <2>1, <2>4, <2>6, <2>7 DEF Claimed
  <2>13. Leaving'
    BY <1>2, <2>1, <2>5, <2>7 DEF Leaving, Window
  <2> QED  BY <2>3, <2>8, <2>9, <2>10, <2>11, <2>12, <2>13
<1> QED  BY <1>1, <1>2

\* WriteSlot fills a slot that nobody else claims and the consumer is not leaving.
LEMMA WriteInv ==
    ASSUME RingInv, NEW p \in Producer, WriteSlot(p) PROVE RingInv'
<1> USE DEF RingInv
<1> DEFINE k == SlotOf(phead[p])
<1>1. /\ ppc[p] = "write" /\ MoveTo(p, "ready") /\ msg' = [msg EXCEPT ![k] = Current(p)]
      /\ UNCHANGED <<head, tail, ready, notEmpty, phead, sends, wpc, batch, started, lpc, links>>
  BY DEF WriteSlot, PushFrame, SendFrame, wrVars, lifeVars
<1>2. /\ head \in Nat /\ tail \in Nat /\ N \in Nat /\ N > 0 /\ k \in Slot
      /\ SlotOf(tail) \in Slot /\ phead[p] \in Nat /\ sends[p] \in 0 .. MaxSends
      /\ \A q \in Producer : phead[q] \in Nat /\ SlotOf(phead[q]) \in Slot
      /\ msg \in [Slot -> Message \cup {NoMessage}]
  BY RingFacts
<1>3. Current(p) \in Message /\ Current(p) # NoMessage
  BY <1>1, <1>2 DEF Current, Message, Loaded
<1>4. "ready" \in ProducerPC
  BY DEF ProducerPC
<1>5. WqTypeOK'
  <2>1. msg' \in [Slot -> Message \cup {NoMessage}]
    BY <1>1, <1>2, <1>3
  <2>2. ppc' \in [Producer -> ProducerPC]
    BY <1>1, <1>4, GotoType
  <2> QED  BY <2>1, <2>2, <1>1, PushType DEF WriteSlot, WqTypeOK
<1>6. \A q \in Producer : ppc'[q] = IF q = p THEN "ready" ELSE ppc[q]
  BY <1>1, <1>4, GotoType
<1>7. Claims(p) /\ \A q \in Producer : Claims(q)' <=> Claims(q)
  BY <1>1, <1>6 DEF Claims
<1>8. \A s \in Slot : msg'[s] = IF s = k THEN Current(p) ELSE msg[s]
  BY <1>1, <1>2
<1>9. ~ready[k] /\ tail <= phead[p] /\ phead[p] < head /\ head <= tail + N
  BY <1>7 DEF Claimed, Loaded, Window
<1> HIDE DEF k
<1>10. Window' /\ Lifecycle' /\ Distinct'
  BY <1>1, <1>7 DEF Window, Lifecycle, Distinct
<1>11. Loaded'
  BY <1>1, <1>6, <1>7 DEF Loaded
<1>12. FreeSlots'
  <2> SUFFICES ASSUME NEW i \in Nat, head <= i, i < tail + N
               PROVE  msg'[SlotOf(i)] = NoMessage /\ ~ready[SlotOf(i)]
    BY <1>1 DEF FreeSlots
  <2>1. SlotOf(i) \in Slot /\ i # phead[p] /\ tail <= i
    BY <1>2, <1>9, SlotRange
  <2>2. SlotOf(i) # k
    BY <1>7, <2>1, ClaimSlots DEF k
  <2> QED  BY <1>8, <2>1, <2>2 DEF FreeSlots
<1>13. Claimed'
  <2> SUFFICES ASSUME NEW q \in Producer, Claims(q)
               PROVE  /\ ~ready[SlotOf(phead[q])]
                      /\ ppc'[q] = "write" => msg'[SlotOf(phead[q])] = NoMessage
                      /\ ppc'[q] = "ready" => msg'[SlotOf(phead[q])] # NoMessage
    BY <1>1, <1>7 DEF Claimed
  <2>1. CASE q = p
    BY <1>2, <1>3, <1>6, <1>8, <1>9, <2>1 DEF k
  <2>2. CASE q # p
    <3>1. SlotOf(phead[q]) # k
      BY <1>7, <2>2, ClaimSlots DEF k
    <3> QED  BY <1>2, <1>6, <1>8, <2>2, <3>1 DEF Claimed
  <2> QED  BY <2>1, <2>2
<1>14. Leaving'
  <2>1. wpc = "clear" => SlotOf(tail) # k
    BY <1>9 DEF Leaving
  <2>2. wpc = "advance" => SlotOf(tail) # k
    <3> SUFFICES ASSUME wpc = "advance" PROVE SlotOf(tail) # k
      OBVIOUS
    <3>1. tail # phead[p] /\ tail < tail + N /\ tail <= tail
      BY <1>2, <1>7 DEF Leaving
    <3> QED  BY <1>2, <1>7, <3>1, ClaimSlots DEF k
  <2> QED  BY <1>1, <1>2, <1>7, <1>8, <2>1, <2>2 DEF Leaving
<1>15. ReadyFull'
  BY <1>1, <1>8, <1>9 DEF ReadyFull
<1> QED  BY <1>5, <1>10, <1>11, <1>12, <1>13, <1>14, <1>15

\* SetReady publishes the slot and gives up the claim.
LEMMA ReadyInv ==
    ASSUME RingInv, NEW p \in Producer, SetReady(p) PROVE RingInv'
<1> USE DEF RingInv
<1> DEFINE k == SlotOf(phead[p])
<1>1. /\ ppc[p] = "ready" /\ MoveTo(p, "signal") /\ ready' = [ready EXCEPT ![k] = TRUE]
      /\ UNCHANGED <<head, tail, msg, notEmpty, phead, sends, wpc, batch, started, lpc, links>>
  BY DEF SetReady, PushFrame, SendFrame, wrVars, lifeVars
<1>2. /\ head \in Nat /\ tail \in Nat /\ N \in Nat /\ N > 0 /\ k \in Slot
      /\ SlotOf(tail) \in Slot /\ phead[p] \in Nat
      /\ \A q \in Producer : phead[q] \in Nat /\ SlotOf(phead[q]) \in Slot
      /\ ready \in [Slot -> BOOLEAN]
  BY RingFacts
<1>3. "signal" \in ProducerPC
  BY DEF ProducerPC
<1>4. WqTypeOK'
  <2>1. ready' \in [Slot -> BOOLEAN]
    BY <1>1, <1>2
  <2>2. ppc' \in [Producer -> ProducerPC]
    BY <1>1, <1>3, GotoType
  <2> QED  BY <2>1, <2>2, <1>1, PushType DEF SetReady, WqTypeOK
<1>5. \A q \in Producer : ppc'[q] = IF q = p THEN "signal" ELSE ppc[q]
  BY <1>1, <1>3, GotoType
<1>6. Claims(p) /\ \A q \in Producer : Claims(q)' <=> (Claims(q) /\ q # p)
  BY <1>1, <1>5 DEF Claims
<1>7. \A s \in Slot : ready'[s] = IF s = k THEN TRUE ELSE ready[s]
  BY <1>1, <1>2
<1>8. msg[k] # NoMessage /\ tail <= phead[p] /\ phead[p] < head /\ head <= tail + N
  BY <1>1, <1>6 DEF Claimed, Loaded, Window
<1> HIDE DEF k
<1>9. Window' /\ Lifecycle' /\ Distinct'
  BY <1>1, <1>6 DEF Window, Lifecycle, Distinct
<1>10. Loaded'
  BY <1>1, <1>5, <1>6 DEF Loaded
<1>11. FreeSlots'
  <2> SUFFICES ASSUME NEW i \in Nat, head <= i, i < tail + N
               PROVE  msg[SlotOf(i)] = NoMessage /\ ~ready'[SlotOf(i)]
    BY <1>1 DEF FreeSlots
  <2>1. SlotOf(i) \in Slot /\ i # phead[p] /\ tail <= i
    BY <1>2, <1>8, SlotRange
  <2>2. SlotOf(i) # k
    BY <1>6, <2>1, ClaimSlots DEF k
  <2> QED  BY <1>7, <2>1, <2>2 DEF FreeSlots
<1>12. Claimed'
  <2> SUFFICES ASSUME NEW q \in Producer, Claims(q), q # p
               PROVE  /\ ~ready'[SlotOf(phead[q])]
                      /\ ppc[q] = "write" => msg[SlotOf(phead[q])] = NoMessage
                      /\ ppc[q] = "ready" => msg[SlotOf(phead[q])] # NoMessage
    BY <1>1, <1>5, <1>6 DEF Claimed
  <2>1. SlotOf(phead[q]) # k
    BY <1>6, ClaimSlots DEF k
  <2> QED  BY <1>2, <1>7, <2>1 DEF Claimed
<1>13. Leaving'
  <2>1. wpc = "advance" => SlotOf(tail) # k
    <3> SUFFICES ASSUME wpc = "advance" PROVE SlotOf(tail) # k
      OBVIOUS
    <3>1. tail # phead[p] /\ tail < tail + N /\ tail <= tail
      BY <1>2, <1>6 DEF Leaving
    <3> QED  BY <1>2, <1>6, <3>1, ClaimSlots DEF k
  <2> QED  BY <1>1, <1>2, <1>6, <1>7, <2>1 DEF Leaving
<1>14. ReadyFull'
  BY <1>1, <1>7, <1>8 DEF ReadyFull
<1> QED  BY <1>4, <1>9, <1>10, <1>11, <1>12, <1>13, <1>14

\* What writerLoop leaves alone keeps its type.
LEMMA WriterType ==
    ASSUME WqTypeOK, WriterFrame,
           head' = head, tail' \in Nat, notEmpty' \in BOOLEAN,
           msg' \in [Slot -> Message \cup {NoMessage}], ready' \in [Slot -> BOOLEAN],
           wpc' \in WriterPC, batch' \in Seq(Message), Len(batch') <= writerBatchSize,
           taken' \in Seq(Message), written' \subseteq Message, lost' \subseteq Message
    PROVE  WqTypeOK'
  BY DEF WqTypeOK, WriterFrame, prodVars, lifeVars

\* PopSlot empties the slot at the tail, which no producer claims.
LEMMA PopInv == ASSUME RingInv, PopSlot PROVE RingInv'
<1> USE DEF RingInv
<1> DEFINE k == SlotOf(tail)
<1>1. /\ wpc = "spin" /\ ready[k] /\ wpc' = "clear"
      /\ batch' = Append(batch, msg[k]) /\ taken' = Append(taken, msg[k])
      /\ msg' = [msg EXCEPT ![k] = NoMessage]
      /\ UNCHANGED <<head, tail, ready, notEmpty, written, lost, ppc, phead, sends,
                     started, lpc, links>>
  BY DEF PopSlot, WriterFrame, prodVars, lifeVars
<1>2. /\ head \in Nat /\ tail \in Nat /\ N \in Nat /\ N > 0 /\ k \in Slot
      /\ \A q \in Producer : phead[q] \in Nat /\ SlotOf(phead[q]) \in Slot
      /\ msg \in [Slot -> Message \cup {NoMessage}]
  BY RingFacts
<1>3. msg[k] \in Message
  BY <1>1, <1>2 DEF ReadyFull
<1>4. WqTypeOK'
  <2>1. batch' \in Seq(Message) /\ Len(batch') <= writerBatchSize
    BY <1>1, <1>3 DEF WqTypeOK, Lifecycle
  <2>2. taken' \in Seq(Message)
    BY <1>1, <1>3 DEF WqTypeOK
  <2>3. msg' \in [Slot -> Message \cup {NoMessage}]
    BY <1>1, <1>2
  <2> QED  BY <1>1, <2>1, <2>2, <2>3, WriterType DEF PopSlot, WqTypeOK, WriterPC
<1>5. \A s \in Slot : msg'[s] = IF s = k THEN NoMessage ELSE msg[s]
  BY <1>1, <1>2
<1>6. \A q \in Producer : Claims(q)' <=> Claims(q)
  BY <1>1 DEF Claims
<1> HIDE DEF k
<1>7. Window' /\ Lifecycle' /\ Distinct' /\ Loaded'
  BY <1>1, <1>6 DEF Window, Lifecycle, Distinct, Loaded
<1>8. FreeSlots'
  <2> SUFFICES ASSUME NEW i \in Nat, head <= i, i < tail + N
               PROVE  msg'[SlotOf(i)] = NoMessage /\ ~ready[SlotOf(i)]
    BY <1>1 DEF FreeSlots
  <2> QED  BY <1>5, SlotRange DEF FreeSlots
<1>9. Claimed'
  <2> SUFFICES ASSUME NEW q \in Producer, Claims(q)
               PROVE  /\ ~ready[SlotOf(phead[q])]
                      /\ ppc[q] = "write" => msg'[SlotOf(phead[q])] = NoMessage
                      /\ ppc[q] = "ready" => msg'[SlotOf(phead[q])] # NoMessage
    BY <1>1, <1>6 DEF Claimed
  <2>1. SlotOf(phead[q]) # k
    BY <1>1 DEF Claimed
  <2> QED  BY <1>2, <1>5, <2>1 DEF Claimed
<1>10. Leaving'
  BY <1>1, <1>2, <1>5 DEF Leaving, k
<1>11. ReadyFull'
  BY <1>1, <1>5 DEF ReadyFull, k
<1> QED  BY <1>4, <1>7, <1>8, <1>9, <1>10, <1>11

LEMMA ClearInv == ASSUME RingInv, ClearReady PROVE RingInv'
<1> USE DEF RingInv
<1> DEFINE k == SlotOf(tail)
<1>1. /\ wpc = "clear" /\ wpc' = "advance" /\ ready' = [ready EXCEPT ![k] = FALSE]
      /\ UNCHANGED <<head, tail, msg, notEmpty, batch, taken, written, lost, ppc,
                     phead, sends, started, lpc, links>>
  BY DEF ClearReady, WriterFrame, prodVars, lifeVars, fateVars
<1>2. /\ head \in Nat /\ tail \in Nat /\ N \in Nat /\ N > 0 /\ k \in Slot
      /\ \A q \in Producer : phead[q] \in Nat /\ SlotOf(phead[q]) \in Slot
      /\ ready \in [Slot -> BOOLEAN]
  BY RingFacts
<1>3. WqTypeOK'
  <2>1. ready' \in [Slot -> BOOLEAN]
    BY <1>1, <1>2
  <2> QED  BY <1>1, <2>1, WriterType DEF ClearReady, WqTypeOK, WriterPC
<1>4. \A s \in Slot : ready'[s] = IF s = k THEN FALSE ELSE ready[s]
  BY <1>1, <1>2
<1>5. \A q \in Producer : Claims(q)' <=> Claims(q)
  BY <1>1 DEF Claims
<1>6. msg[k] = NoMessage /\ ready[k]
  BY <1>1 DEF Leaving
<1>7. \A q \in Producer : Claims(q) => phead[q] # tail
  BY <1>6 DEF Claimed
<1> HIDE DEF k
<1>8. Window' /\ Lifecycle' /\ Distinct' /\ Loaded'
  BY <1>1, <1>5 DEF Window, Lifecycle, Distinct, Loaded
<1>9. FreeSlots'
  <2> SUFFICES ASSUME NEW i \in Nat, head <= i, i < tail + N
               PROVE  msg[SlotOf(i)] = NoMessage /\ ~ready'[SlotOf(i)]
    BY <1>1 DEF FreeSlots
  <2> QED  BY <1>4, SlotRange DEF FreeSlots
<1>10. Claimed'
  BY <1>1, <1>2, <1>4, <1>5 DEF Claimed
<1>11. Leaving'
  BY <1>1, <1>2, <1>4, <1>5, <1>6, <1>7 DEF Leaving, k
<1>12. ReadyFull'
  BY <1>1, <1>4 DEF ReadyFull, k
<1> QED  BY <1>3, <1>8, <1>9, <1>10, <1>11, <1>12

\* StoreTail hands the slot it leaves to the index one lap ahead.
LEMMA AdvanceInv == ASSUME RingInv, StoreTail PROVE RingInv'
<1> USE DEF RingInv
<1>1. /\ wpc = "advance" /\ wpc' = "load" /\ tail' = tail + 1
      /\ UNCHANGED <<head, msg, ready, notEmpty, batch, taken, written, lost, ppc,
                     phead, sends, started, lpc, links>>
  BY DEF StoreTail, WriterFrame, prodVars, lifeVars, fateVars
<1>2. /\ head \in Nat /\ tail \in Nat /\ N \in Nat /\ N > 0
      /\ \A q \in Producer : phead[q] \in Nat
  BY RingFacts
<1>3. WqTypeOK'
  <2>1. tail' \in Nat
    BY <1>1, <1>2
  <2> QED  BY <1>1, <2>1, WriterType DEF StoreTail, WqTypeOK, WriterPC
<1>4. \A q \in Producer : Claims(q)' <=> Claims(q)
  BY <1>1 DEF Claims
<1>5. /\ msg[SlotOf(tail)] = NoMessage /\ ~ready[SlotOf(tail)]
      /\ \A q \in Producer : Claims(q) => phead[q] # tail
  BY <1>1 DEF Leaving
<1>6. Window' /\ Lifecycle' /\ Distinct'
  BY <1>1, <1>2, <1>4 DEF Window, Lifecycle, Distinct
<1>7. Loaded'
  BY <1>1, <1>2, <1>4, <1>5 DEF Loaded
<1>8. FreeSlots'
  <2> SUFFICES ASSUME NEW i \in Nat, head <= i, i < tail + 1 + N
               PROVE  msg[SlotOf(i)] = NoMessage /\ ~ready[SlotOf(i)]
    BY <1>1 DEF FreeSlots
  <2>1. CASE i = tail + N
    <3>1. SlotOf(i) = SlotOf(tail)
      BY <1>2, <2>1, SlotLap
    <3> QED  BY <1>5, <3>1
  <2>2. CASE i # tail + N
    <3>1. i < tail + N
      BY <1>2, <2>2
    <3> QED  BY <3>1 DEF FreeSlots
  <2> QED  BY <2>1, <2>2
<1>9. Claimed' /\ Leaving'
  BY <1>1, <1>4 DEF Claimed, Leaving
<1>10. ReadyFull'
  BY <1>1 DEF ReadyFull
<1> QED  BY <1>3, <1>6, <1>7, <1>8, <1>9, <1>10

-----------------------------------------------------------------------------
(* The remaining steps, by the three light lemmas.                          *)

\* A producer that only moves, or only reads.
LEMMA ReadInv ==
    ASSUME RingInv, NEW p \in Producer,
           CheckStarted(p) \/ LoadHead(p) \/ LoadTail(p) \/ Signal(p)
    PROVE  RingInv'
<1> USE DEF RingInv
<1>1. PICK l \in ProducerPC :
        /\ MoveTo(p, l) /\ l \notin {"write", "ready"} /\ ~Claims(p)
        /\ ppc[p] # "idle"
        /\ l = "cas" => LoadTail(p) /\ ~Full(phead[p], tail)
  BY DEF CheckStarted, LoadHead, LoadTail, Signal, ProducerPC, Claims
<1>2. /\ PushFrame /\ UNCHANGED ringVars /\ notEmpty' \in BOOLEAN
      /\ phead' = phead \/ phead' = [phead EXCEPT ![p] = head]
      /\ l = "cas" => phead' = phead
  BY <1>1 DEF CheckStarted, LoadHead, LoadTail, Signal, WqTypeOK, MoveTo
<1>3. /\ head \in Nat /\ tail \in Nat /\ N \in Nat /\ phead \in [Producer -> Nat]
  BY RingFacts
<1>4. WqTypeOK'
  <2>1. phead' \in [Producer -> Nat]
    BY <1>2, <1>3
  <2> QED  BY <1>1, <1>2, <2>1, GotoType, PushType DEF WqTypeOK, ringVars
<1>5. phead'[p] <= head /\ \A q \in Producer \ {p} : phead'[q] = phead[q]
  BY <1>2, <1>3 DEF Loaded
<1>6. l = "cas" => phead'[p] < tail + N
  BY <1>1, <1>2, <1>3 DEF Full, N
<1>7. sends' = sends /\ sends[p] >= 1 /\ UNCHANGED <<ringVars, wrVars, started, lpc, links>>
  BY <1>1, <1>2 DEF PushFrame, SendFrame, wrVars, lifeVars, Loaded
<1> QED  BY <1>1, <1>4, <1>5, <1>6, <1>7, ProducerLight

LEMMA BeginInv == ASSUME RingInv, NEW p \in Producer, SendBegin(p) PROVE RingInv'
<1> USE DEF RingInv
<1>1. /\ ppc[p] = "idle" /\ sends[p] < MaxSends /\ MoveTo(p, "check")
      /\ sends' = [sends EXCEPT ![p] = @ + 1]
      /\ UNCHANGED <<ringVars, notEmpty, phead, sendChan, wrVars, lifeVars, fateVars>>
  BY DEF SendBegin, SendFrame
<1>2. "check" \in ProducerPC /\ ~Claims(p)
  BY <1>1 DEF ProducerPC, Claims
<1>3. sends' \in [Producer -> 0 .. MaxSends] /\ sends'[p] >= 1
      /\ \A q \in Producer \ {p} : sends'[q] = sends[q]
  BY <1>1 DEF WqTypeOK
<1>4. WqTypeOK'
  BY <1>1, <1>2, <1>3, GotoType DEF WqTypeOK, ringVars, wrVars, lifeVars, fateVars
<1>5. phead'[p] <= head /\ UNCHANGED <<ringVars, wrVars, started, lpc, links>>
  BY <1>1 DEF lifeVars, Loaded
<1> QED  BY <1>1, <1>2, <1>3, <1>4, <1>5, ProducerLight

LEMMA FallbackInv == ASSUME RingInv, NEW p \in Producer, Fallback(p) PROVE RingInv'
<1> USE DEF RingInv
<1>1. /\ ppc[p] = "fallback" /\ MoveTo(p, "idle")
      /\ sendChan' = IF Len(sendChan) < SendCap THEN Append(sendChan, Current(p))
                                                ELSE sendChan
      /\ UNCHANGED <<ringVars, notEmpty, phead, sends, wrVars, lifeVars, fateVars>>
  BY DEF Fallback, SendFrame
<1>2. "idle" \in ProducerPC /\ ~Claims(p) /\ Current(p) \in Message
  <2>1. sends[p] \in 1 .. MaxSends
    BY <1>1 DEF WqTypeOK, Loaded
  <2> QED  BY <1>1, <2>1 DEF ProducerPC, Claims, Current, Message
<1>3. sendChan' \in Seq(Message) /\ Len(sendChan') <= SendCap
  BY <1>1, <1>2 DEF WqTypeOK
<1>4. WqTypeOK'
  BY <1>1, <1>2, <1>3, GotoType DEF WqTypeOK, ringVars, wrVars, lifeVars, fateVars
<1>5. phead'[p] <= head /\ UNCHANGED <<ringVars, wrVars, started, lpc, links>>
  BY <1>1 DEF lifeVars, Loaded
<1> QED  BY <1>1, <1>2, <1>4, <1>5, ProducerLight

\* The steps of writerLoop that do not touch a slot.
LEMMA LoopInv ==
    ASSUME RingInv, Wake \/ WriterExit \/ PopLoad \/ FlushBatch PROVE RingInv'
<1> USE DEF RingInv
<1>1. /\ UNCHANGED <<ringVars, prodVars, started, lpc, links, taken>>
      /\ batch' = batch \/ batch' = <<>>
      /\ wpc \in {"wait", "load", "flush"}
      /\ wpc' \in {"wait", "load", "flush", "off", "spin"}
      /\ wpc' = "spin" => tail < head /\ Len(batch') < writerBatchSize
      /\ notEmpty' \in BOOLEAN /\ WriterFrame
  BY DEF Wake, WriterExit, PopLoad, FlushBatch, WriterFrame, lifeVars, fateVars, WqTypeOK
<1>2. InSeq(batch) \subseteq Message
  BY DEF WqTypeOK, InSeq
<1>3. written' \subseteq Message /\ lost' \subseteq Message
  BY <1>2 DEF Wake, WriterExit, PopLoad, FlushBatch, fateVars, WqTypeOK
<1>4. batch' \in Seq(Message) /\ Len(batch') <= writerBatchSize
  <2>1. CASE batch' = batch
    BY <2>1 DEF WqTypeOK
  <2>2. CASE batch' = <<>>
    <3>1. <<>> \in Seq(Message) /\ Len(<<>>) = 0
      OBVIOUS
    <3> QED  BY <2>2, <3>1
  <2> QED  BY <1>1, <2>1, <2>2
<1>5. WqTypeOK'
  BY <1>1, <1>3, <1>4, WriterType DEF WqTypeOK, ringVars, WriterPC
<1>6. Lifecycle'
  BY <1>1 DEF Lifecycle
<1> QED  BY <1>1, <1>5, <1>6, WriterLight

\* The connection and the writeLoops that leave writerLoop alone.
LEMMA LinkInv ==
    ASSUME RingInv, NEW l \in Link,
           LinkUp \/ LinkDown \/ AddConnection(l) \/ LoopServe(l) \/ LoopLeave(l)
           \/ WriterStopped(l) \/ WriterStop(l)
    PROVE  RingInv'
<1> USE DEF RingInv
<1>1. LoopFrame /\ wpc' = wpc
  BY DEF LinkUp, LinkDown, AddConnection, LoopServe, LoopLeave, WriterStopped,
         WriterStop, runVars
<1>2. /\ link' \in 0 .. MaxLinks /\ links' \in 0 .. MaxLinks
      /\ wconn' \in 0 .. MaxLinks /\ started' \in BOOLEAN /\ done' \in BOOLEAN
      /\ watch' = watch
  <2>1. CASE LinkUp
    <3>1. links + 1 \in 0 .. MaxLinks
      BY <2>1 DEF LinkUp, WqTypeOK
    <3> QED  BY <2>1, <3>1 DEF LinkUp, runVars, WqTypeOK
  <2>2. CASE LinkDown
    BY <2>2 DEF LinkDown, runVars, WqTypeOK
  <2>3. CASE WriterStop(l)
    BY <2>3 DEF WriterStop, linkVars, WqTypeOK
  <2>4. CASE AddConnection(l)
    BY <2>4 DEF AddConnection, runVars, linkVars, WqTypeOK
  <2>5. CASE LoopServe(l) \/ LoopLeave(l) \/ WriterStopped(l)
    BY <2>5 DEF LoopServe, LoopLeave, WriterStopped, runVars, linkVars, WqTypeOK
  <2> QED  BY <2>1, <2>2, <2>3, <2>4, <2>5
<1>3. lpc' \in [Link -> LoopPC]
  BY DEF LinkUp, LinkDown, AddConnection, LoopServe, LoopLeave, WriterStopped,
         WriterStop, WqTypeOK, LoopPC
<1>4. /\ sendChan' \in Seq(Message) /\ Len(sendChan') <= SendCap
      /\ written' \subseteq Message /\ lost' \subseteq Message
  <2>1. CASE LoopServe(l)
    <3>1. /\ sendChan \in Seq(Message) /\ sendChan # <<>> /\ sendChan' = Tail(sendChan)
          /\ Len(sendChan) <= SendCap
      BY <2>1 DEF LoopServe, WqTypeOK
    <3>2. Head(sendChan) \in Message /\ Len(sendChan') <= SendCap
          /\ sendChan' \in Seq(Message)
      BY <3>1
    <3> QED  BY <2>1, <3>2 DEF LoopServe, WqTypeOK
  <2>2. CASE ~LoopServe(l)
    <3>1. UNCHANGED outVars
      BY <2>2 DEF LinkUp, LinkDown, AddConnection, LoopLeave, WriterStopped, WriterStop
    <3> QED  BY <3>1 DEF outVars, WqTypeOK
  <2> QED  BY <2>1, <2>2
<1>5. WqTypeOK'
  BY <1>1, <1>2, <1>3, <1>4 DEF WqTypeOK, LoopFrame, ringVars, prodVars
<1>6. Lifecycle'
  <2>1. wpc' = "spin" => Len(batch') < writerBatchSize
    BY <1>1 DEF LoopFrame, Lifecycle
  <2>2. ASSUME wpc # "off" PROVE started' \/ \E k \in Link : lpc'[k] = "stopping"
    <3>1. started \/ \E k \in Link : lpc[k] = "stopping"
      BY <2>2 DEF Lifecycle
    <3>2. CASE WriterStop(l)
      BY <3>1, <3>2 DEF WriterStop, MuFree, WqTypeOK
    <3>3. CASE ~WriterStop(l)
      <4>1. started' = started
        BY <3>3 DEF LinkUp, LinkDown, AddConnection, LoopServe, LoopLeave,
                    WriterStopped, runVars
      <4>2. CASE started
        BY <4>1, <4>2
      <4>3. ASSUME NEW k \in Link, lpc[k] = "stopping" PROVE lpc'[k] = "stopping"
        <5>1. CASE LinkDown \/ WriterStopped(l) \/ LoopServe(l) \/ LoopLeave(l)
                   \/ AddConnection(l)
          BY <2>2, <4>3, <5>1
          DEF LinkDown, WriterStopped, LoopServe, LoopLeave, AddConnection, WqTypeOK
        <5>2. CASE LinkUp
          <6>1. links + 1 \in Link /\ links < links + 1
            BY <5>2 DEF LinkUp, WqTypeOK, Link
          <6>2. lpc[links + 1] = "none"
            BY <6>1 DEF Lifecycle
          <6> QED  BY <4>3, <5>2, <6>1, <6>2 DEF LinkUp, WqTypeOK
        <5> QED  BY <3>3, <5>1, <5>2
      <4> QED  BY <3>1, <4>2, <4>3
    <3> QED  BY <3>2, <3>3
  <2>3. ASSUME NEW k \in Link, links' < k PROVE lpc'[k] = "none"
    <3>1. links \in Nat /\ links <= links' /\ links' \in Nat /\ k \in Nat
      BY DEF LinkUp, LinkDown, AddConnection, LoopServe, LoopLeave, WriterStopped,
             WriterStop, linkVars, WqTypeOK, Link
    <3>2. lpc[k] = "none"
      BY <2>3, <3>1 DEF Lifecycle
    <3>3. CASE LinkUp
      BY <2>3, <3>1, <3>2, <3>3 DEF LinkUp, WqTypeOK
    <3>4. CASE ~LinkUp
      BY <3>2, <3>4 DEF LinkDown, AddConnection, LoopServe, LoopLeave, WriterStopped,
                        WriterStop, WqTypeOK
    <3> QED  BY <3>3, <3>4
  <2> QED  BY <1>1, <2>1, <2>2, <2>3 DEF Lifecycle
<1> QED  BY <1>1, <1>5, <1>6, LinkLight DEF LoopFrame, wrVars

\* writer.Start finds no writerLoop running when the writer is not started.
LEMMA StartInv == ASSUME RingInv, NEW l \in Link, LoopStart(l) PROVE RingInv'
<1> USE DEF RingInv
<1>1. /\ LoopFrame /\ MuFree /\ lpc[l] = "start"
      /\ lpc' = [lpc EXCEPT ![l] = "serve"] /\ watch' = [watch EXCEPT ![l] = links]
      /\ UNCHANGED <<wconn, link, links, sendChan, written, lost>>
      /\ IF started THEN UNCHANGED <<started, done, wpc>>
                    ELSE started' = TRUE /\ done' = FALSE /\ wpc' = "wait"
  BY DEF LoopStart, outVars
<1>2. started \/ wpc = "off"
  BY <1>1 DEF Lifecycle, MuFree
<1>3. WqTypeOK'
  <2>1. lpc' \in [Link -> LoopPC] /\ watch' \in [Link -> 0 .. MaxLinks]
    BY <1>1 DEF WqTypeOK, LoopPC
  <2>2. started' \in BOOLEAN /\ done' \in BOOLEAN /\ wpc' \in WriterPC
    BY <1>1 DEF WqTypeOK, WriterPC
  <2> QED  BY <1>1, <2>1, <2>2 DEF WqTypeOK, LoopFrame, ringVars, prodVars
<1>4. Lifecycle'
  BY <1>1 DEF Lifecycle, LoopFrame, WqTypeOK, MuFree, Link
<1>5. CASE started
  BY <1>1, <1>3, <1>4, <1>5, LinkLight DEF LoopFrame, wrVars
<1>6. CASE ~started
  BY <1>1, <1>2, <1>3, <1>4, <1>6, WriterLight DEF LoopFrame
<1> QED  BY <1>5, <1>6

-----------------------------------------------------------------------------
(* The theorems.                                                            *)

LEMMA RingStep == RingInv /\ [WqNext]_wqVars => RingInv'
<1> SUFFICES ASSUME RingInv, [WqNext]_wqVars PROVE RingInv'
  OBVIOUS
<1>1. ASSUME NEW p \in Producer, Send(p) PROVE RingInv'
  BY <1>1, ReadInv, BeginInv, FallbackInv, ClaimInv, WriteInv, ReadyInv DEF Send
<1>2. CASE WriterLoop
  BY <1>2, LoopInv, PopInv, ClearInv, AdvanceInv DEF WriterLoop
<1>3. ASSUME NEW l \in Link, WriteLoop(l) PROVE RingInv'
  BY <1>3, LinkInv, StartInv DEF WriteLoop
<1>4. CASE LinkUp \/ LinkDown
  <2>1. 1 \in Link
    BY DEF Link
  <2> QED  BY <1>4, <2>1, LinkInv
<1>5. CASE UNCHANGED wqVars
  <2>1. WqTypeOK'
    BY <1>5 DEF wqVars, ringVars, prodVars, wrVars, lifeVars, fateVars, RingInv, WqTypeOK
  <2>2. Lifecycle'
    BY <1>5 DEF wqVars, wrVars, lifeVars, RingInv, Lifecycle
  <2> QED  BY <1>5, <2>1, <2>2, LinkLight DEF wqVars
<1> QED  BY <1>1, <1>2, <1>3, <1>4, <1>5 DEF WqNext

\* Every reachable state of the send path satisfies the inductive invariant.
THEOREM RingInvariance == WqSpec => []RingInv
  BY RingInit, RingStep, PTL DEF WqSpec

\* The head, the tail, the slots, the batch and the life cycle of the writer keep
\* their types and bounds (lockFreeQueue, highPerfWriter).
THEOREM RingTypeCorrect == WqSpec => []WqTypeOK
<1>1. RingInv => WqTypeOK
  BY DEF RingInv
<1> QED  BY <1>1, RingInvariance, PTL

\* Push never overwrites a queued message and no two producers fill one slot, for
\* every ring size and every number of producers (lockFreeQueue.Push, PopBatch).
THEOREM RingIsExclusive == WqSpec => []SlotExclusive
  BY RingInvariance, RingExclusive, PTL

-----------------------------------------------------------------------------
(* No wake-up is lost.  NoLostWakeup is not inductive: the writer may still be *)
(* flushing, or be off, when the token is put.  What every step keeps is that  *)
(* the token, or a producer on its way to put it, is there in all three.       *)

\* A producer between its CompareAndSwap and its signal.
Pushing == \E p \in Producer : ppc[p] \in {"write", "ready", "signal"}

Wakes ==
    wpc \in {"off", "wait", "flush"} /\ tail < head /\ Len(batch) < writerBatchSize
        => notEmpty \/ Pushing

\* A Push claims its index before it signals, and signals before it returns.
LEMMA SendWakes ==
    ASSUME RingInv, Wakes, NEW p \in Producer, Send(p) PROVE Wakes'
<1>1. UNCHANGED <<wpc, batch>> /\ ppc \in [Producer -> ProducerPC]
  BY DEF RingInv, WqTypeOK, Send, SendBegin, CheckStarted, LoadHead, LoadTail, CompareAndSwap,
         WriteSlot, SetReady, Signal, Fallback, PushFrame, SendFrame, wrVars
<1>2. CASE Signal(p)
  BY <1>2 DEF Signal, Wakes
<1>3. CASE CompareAndSwap(p) /\ head = phead[p]
  <2>1. ppc'[p] = "write"
    BY <1>1, <1>3 DEF CompareAndSwap, MoveTo
  <2> QED  BY <2>1 DEF Wakes, Pushing
<1>4. CASE ~Signal(p) /\ ~(CompareAndSwap(p) /\ head = phead[p])
  <2>1. UNCHANGED <<head, tail, notEmpty>>
    BY <1>4 DEF Send, SendBegin, CheckStarted, LoadHead, LoadTail, CompareAndSwap,
                WriteSlot, SetReady, Fallback, ringVars
  <2>2. PICK l : ppc' = [ppc EXCEPT ![p] = l]
    BY DEF Send, SendBegin, CheckStarted, LoadHead, LoadTail, CompareAndSwap,
           WriteSlot, SetReady, Signal, Fallback, MoveTo
  <2>3. \A q \in Producer : q # p => ppc'[q] = ppc[q]
    BY <1>1, <2>2
  <2>4. ppc[p] \in {"write", "ready", "signal"} => ppc'[p] \in {"ready", "signal"}
    BY <1>1, <1>4 DEF Send, SendBegin, CheckStarted, LoadHead, LoadTail, CompareAndSwap,
                      WriteSlot, SetReady, Fallback, MoveTo
  <2>5. Pushing => Pushing'
    BY <2>3, <2>4 DEF Pushing
  <2> QED  BY <1>1, <2>1, <2>5 DEF Wakes
<1> QED  BY <1>2, <1>3, <1>4

\* writerLoop goes to sleep only on an empty ring, or after a full batch.
LEMMA WriterWakes == ASSUME RingInv, Wakes, WriterLoop PROVE Wakes'
<1>1. UNCHANGED ppc
  BY DEF WriterLoop, Wake, WriterExit, PopLoad, PopSlot, ClearReady, StoreTail, FlushBatch,
         WriterFrame, prodVars
<1>2. CASE Wake \/ PopSlot \/ ClearReady \/ StoreTail
  BY <1>2 DEF Wake, PopSlot, ClearReady, StoreTail, Wakes
<1>3. CASE WriterExit \/ FlushBatch
  BY <1>1, <1>3 DEF WriterExit, FlushBatch, ringVars, Wakes, Pushing
<1>4. CASE PopLoad
  BY <1>4 DEF PopLoad, ringVars, Wakes
<1> QED  BY <1>2, <1>3, <1>4 DEF WriterLoop

\* A connection cycle starts a writerLoop in its wait, and ends none.
LEMMA LinkWakes ==
    ASSUME RingInv, Wakes, LinkUp \/ LinkDown \/ \E l \in Link : WriteLoop(l)
    PROVE  Wakes'
<1>1. UNCHANGED <<head, tail, notEmpty, batch, ppc>>
  BY DEF LinkUp, LinkDown, WriteLoop, AddConnection, LoopStart, LoopServe, LoopLeave,
         WriterStop, WriterStopped, LoopFrame, ringVars, prodVars
<1>2. wpc' = wpc \/ (wpc = "off" /\ wpc' = "wait")
  <2>1. CASE \E l \in Link : LoopStart(l)
    <3>1. ~started => wpc = "off"
      BY <2>1 DEF LoopStart, RingInv, Lifecycle, MuFree
    <3> QED  BY <2>1, <3>1 DEF LoopStart
  <2>2. CASE ~\E l \in Link : LoopStart(l)
    BY <2>2 DEF LinkUp, LinkDown, WriteLoop, AddConnection, LoopServe, LoopLeave,
                WriterStop, WriterStopped, runVars
  <2> QED  BY <2>1, <2>2
<1> QED  BY <1>1, <1>2 DEF Wakes, Pushing

\* writerLoop never sleeps on a message: when no Push is under way and the last batch was
\* not full, a non-empty ring has its token in notEmpty (Push, PopBatch, writerLoop), for
\* every ring and batch size and every number of producers.
THEOREM WakeupIsKept == WqSpec => []NoLostWakeup
<1>1. WqInit => Wakes
  BY DEF WqInit, Wakes
<1>2. RingInv /\ Wakes /\ [WqNext]_wqVars => Wakes'
  <2> SUFFICES ASSUME RingInv, Wakes, [WqNext]_wqVars PROVE Wakes'
    OBVIOUS
  <2>1. CASE UNCHANGED wqVars
    BY <2>1 DEF wqVars, ringVars, prodVars, wrVars, Wakes, Pushing
  <2> QED  BY <2>1, SendWakes, WriterWakes, LinkWakes DEF WqNext
<1>3. Wakes => NoLostWakeup
  BY DEF Wakes, NoLostWakeup, Quiet, Pushing
<1> QED  BY <1>1, <1>2, <1>3, RingInvariance, PTL DEF WqSpec

-----------------------------------------------------------------------------
(* Every message is in one place.  WriteOnce speaks of the end of a message's *)
(* way; the invariant follows it from its producer through the ring or        *)
(* sendChan and through the batch.                                            *)

InRing(m)  == \E s \in Slot : msg[s] = m
InChan(m)  == \E i \in DOMAIN sendChan : sendChan[i] = m
InBatch(m) == wpc \notin {"off", "wait"} /\ \E i \in DOMAIN batch : batch[i] = m

\* No message is twice in the ring, or twice in sendChan.
RingOnce == \A s, t \in Slot : msg[s] = msg[t] /\ msg[s] # NoMessage => s = t
ChanOnce == \A i, j \in DOMAIN sendChan : sendChan[i] = sendChan[j] => i = j

\* No message is in two places.
Apart(m) ==
    /\ InRing(m) => ~InChan(m) /\ ~InBatch(m) /\ m \notin written /\ m \notin lost
    /\ InChan(m) => ~InBatch(m) /\ m \notin written /\ m \notin lost
    /\ InBatch(m) => m \notin written /\ m \notin lost
    /\ m \in written => m \notin lost

\* A message its producer has not handed over yet, and one that is nowhere.
Unsent(p, n) ==
    n > sends[p] \/ (n = sends[p] /\ ppc[p] \notin {"idle", "ready", "signal"})
Nowhere(m) ==
    ~InRing(m) /\ ~InChan(m) /\ ~InBatch(m) /\ m \notin written /\ m \notin lost

Fate ==
    /\ RingOnce /\ ChanOnce
    /\ \A m \in Message : Apart(m)
    /\ \A p \in Producer, n \in 1 .. MaxSends : Unsent(p, n) => Nowhere(<<p, n>>)

\* A step that hands nothing over.
LEMMA StillFate ==
    ASSUME Fate, UNCHANGED <<msg, sendChan, written, lost>>,
           \A m \in Message : InBatch(m)' => InBatch(m),
           \A p \in Producer, n \in 1 .. MaxSends : Unsent(p, n)' => Unsent(p, n)
    PROVE  Fate'
<1>1. \A m \in Message : (InRing(m)' <=> InRing(m)) /\ (InChan(m)' <=> InChan(m))
  BY DEF InRing, InChan
<1>2. \A m \in Message : Apart(m)' /\ (Nowhere(m) => Nowhere(m)')
  BY <1>1 DEF Fate, Apart, Nowhere
<1>3. RingOnce' /\ ChanOnce'
  BY DEF Fate, RingOnce, ChanOnce
<1>4. ASSUME NEW p \in Producer, NEW n \in 1 .. MaxSends, Unsent(p, n)'
      PROVE  Nowhere(<<p, n>>)'
  <2>1. <<p, n>> \in Message /\ Nowhere(<<p, n>>)
    BY <1>4 DEF Fate, Message
  <2> QED  BY <1>2, <2>1
<1> QED  BY <1>2, <1>3, <1>4 DEF Fate

\* Which messages are unsent after a step of producer p.
LEMMA GotoUnsent ==
    ASSUME WqTypeOK, NEW p \in Producer, NEW l \in ProducerPC, MoveTo(p, l), UNCHANGED sends,
           ppc[p] \in {"idle", "ready", "signal"} => l \in {"idle", "ready", "signal"}
    PROVE  \A q \in Producer, n \in 1 .. MaxSends :
             /\ Unsent(q, n)' => Unsent(q, n)
             /\ l \in {"idle", "ready", "signal"} /\ Unsent(q, n)' => <<q, n>> # Current(p)
<1>1. \A q \in Producer : ppc'[q] = IF q = p THEN l ELSE ppc[q]
  BY GotoType
<1>2. \A q \in Producer : sends[q] \in Nat
  BY DEF WqTypeOK
<1> QED  BY <1>1, <1>2 DEF Unsent, Current

\* The message of WriteSlot was nowhere and is in its slot now.
LEMMA WriteFate ==
    ASSUME RingInv, Fate, NEW p \in Producer, WriteSlot(p) PROVE Fate'
<1>1. PICK k \in Slot : k = SlotOf(phead[p])
  BY RingFacts
<1>2. PICK c \in Message : c = Current(p) /\ Unsent(p, sends[p]) /\ c # NoMessage
                           /\ c = <<p, sends[p]>> /\ sends[p] \in 1 .. MaxSends
  BY RingFacts DEF WriteSlot, Current, Unsent, Message, RingInv, Loaded
<1>3. /\ ppc[p] = "write" /\ MoveTo(p, "ready") /\ msg' = [msg EXCEPT ![k] = c]
      /\ UNCHANGED <<sendChan, written, lost, wpc, batch, sends>>
      /\ "ready" \in ProducerPC /\ msg \in [Slot -> Message \cup {NoMessage}]
  BY <1>1, <1>2, RingFacts DEF WriteSlot, PushFrame, SendFrame, wrVars, fateVars, ProducerPC
<1>4. Nowhere(c)
  BY <1>2 DEF Fate
<1>5. \A s \in Slot : msg'[s] = IF s = k THEN c ELSE msg[s]
  BY <1>3
<1>6. \A m \in Message : /\ InRing(m)' => InRing(m) \/ m = c
                         /\ InChan(m)' <=> InChan(m)
                         /\ InBatch(m)' <=> InBatch(m)
  BY <1>3, <1>5 DEF InRing, InChan, InBatch
<1>7. RingOnce' /\ ChanOnce'
  BY <1>3, <1>4, <1>5 DEF Fate, RingOnce, ChanOnce, Nowhere, InRing
<1>8. \A m \in Message : Apart(m)' /\ (m # c /\ Nowhere(m) => Nowhere(m)')
  BY <1>3, <1>4, <1>6 DEF Fate, Apart, Nowhere
<1>9. ASSUME NEW q \in Producer, NEW n \in 1 .. MaxSends, Unsent(q, n)'
      PROVE  Nowhere(<<q, n>>)'
  <2>1. Unsent(q, n) /\ <<q, n>> # c
    BY <1>2, <1>3, <1>9, GotoUnsent DEF RingInv
  <2>2. <<q, n>> \in Message /\ Nowhere(<<q, n>>)
    BY <2>1 DEF Fate, Message
  <2> QED  BY <1>8, <2>1, <2>2
<1> QED  BY <1>7, <1>8, <1>9 DEF Fate

\* So is the message of Fallback, unless sendChan is full.
LEMMA FallbackFate ==
    ASSUME RingInv, Fate, NEW p \in Producer, Fallback(p) PROVE Fate'
<1>1. PICK c \in Message : c = Current(p) /\ Unsent(p, sends[p])
                           /\ c = <<p, sends[p]>> /\ sends[p] \in 1 .. MaxSends
  <2>1. ppc[p] = "fallback"
    BY DEF Fallback
  <2>2. sends[p] \in 1 .. MaxSends
    BY <2>1, RingFacts DEF RingInv, Loaded
  <2>3. Current(p) \in Message /\ Current(p) = <<p, sends[p]>>
    BY <2>2 DEF Current, Message
  <2> QED  BY <2>1, <2>2, <2>3 DEF Unsent
<1>2. /\ ppc[p] = "fallback" /\ MoveTo(p, "idle") /\ "idle" \in ProducerPC
      /\ sendChan' = Append(sendChan, c) \/ sendChan' = sendChan
      /\ UNCHANGED <<msg, written, lost, wpc, batch, sends>>
      /\ sendChan \in Seq(Message)
  BY <1>1 DEF Fallback, SendFrame, ringVars, wrVars, fateVars, ProducerPC, RingInv, WqTypeOK
<1>3. Nowhere(c)
  BY <1>1 DEF Fate
<1>4. /\ \A i \in DOMAIN sendChan' : \/ i \in DOMAIN sendChan /\ sendChan'[i] = sendChan[i]
                                     \/ i = Len(sendChan) + 1 /\ sendChan'[i] = c
  <2>1. ASSUME NEW q \in Seq(Message)
        PROVE  \A i \in DOMAIN Append(q, c) : \/ i \in DOMAIN q /\ Append(q, c)[i] = q[i]
                                              \/ i = Len(q) + 1 /\ Append(q, c)[i] = c
    BY <2>1
  <2> QED  BY <1>2, <2>1
<1>5. \A m \in Message : /\ InRing(m)' <=> InRing(m)
                         /\ InChan(m)' => InChan(m) \/ m = c
                         /\ InBatch(m)' <=> InBatch(m)
  BY <1>2, <1>4 DEF InRing, InChan, InBatch
<1>6. RingOnce' /\ ChanOnce'
  BY <1>2, <1>3, <1>4 DEF Fate, RingOnce, ChanOnce, Nowhere, InChan
<1>7. \A m \in Message : Apart(m)' /\ (m # c /\ Nowhere(m) => Nowhere(m)')
  BY <1>2, <1>3, <1>5 DEF Fate, Apart, Nowhere
<1>8. ASSUME NEW q \in Producer, NEW n \in 1 .. MaxSends, Unsent(q, n)'
      PROVE  Nowhere(<<q, n>>)'
  <2>1. Unsent(q, n) /\ <<q, n>> # c
    BY <1>1, <1>2, <1>8, GotoUnsent DEF RingInv
  <2>2. <<q, n>> \in Message /\ Nowhere(<<q, n>>)
    BY <2>1 DEF Fate, Message
  <2> QED  BY <1>7, <2>1, <2>2
<1> QED  BY <1>6, <1>7, <1>8 DEF Fate

\* The other steps of a producer hand nothing over.
LEMMA SendFate == ASSUME RingInv, Fate, NEW p \in Producer, Send(p) PROVE Fate'
<1>1. CASE WriteSlot(p)
  BY <1>1, WriteFate
<1>2. CASE Fallback(p)
  BY <1>2, FallbackFate
<1>3. CASE SendBegin(p)
  <2>1. /\ UNCHANGED <<msg, sendChan, written, lost, wpc, batch>> /\ MoveTo(p, "check")
        /\ sends' = [sends EXCEPT ![p] = @ + 1] /\ "check" \in ProducerPC
        /\ sends \in [Producer -> 0 .. MaxSends] /\ ppc[p] = "idle"
    BY <1>3 DEF SendBegin, SendFrame, ringVars, wrVars, fateVars, ProducerPC, RingInv, WqTypeOK
  <2>2. \A q \in Producer : /\ ppc'[q] = IF q = p THEN "check" ELSE ppc[q]
                            /\ sends[q] \in Nat /\ sends'[q] = IF q = p THEN sends[q] + 1 ELSE sends[q]
    BY <2>1, GotoType DEF RingInv
  <2>3. \A q \in Producer, n \in 1 .. MaxSends : Unsent(q, n)' => Unsent(q, n)
    BY <2>1, <2>2 DEF Unsent
  <2> QED  BY <2>1, <2>3, StillFate DEF InBatch
<1>4. CASE CheckStarted(p) \/ LoadHead(p) \/ LoadTail(p) \/ CompareAndSwap(p)
           \/ SetReady(p) \/ Signal(p)
  <2>1. /\ UNCHANGED <<msg, sendChan, written, lost, wpc, batch, sends>>
    BY <1>4 DEF CheckStarted, LoadHead, LoadTail, CompareAndSwap, SetReady, Signal,
                PushFrame, SendFrame, ringVars, wrVars, fateVars
  <2>2. PICK l \in ProducerPC :
          /\ MoveTo(p, l)
          /\ ppc[p] \in {"idle", "ready", "signal"} => l \in {"idle", "ready", "signal"}
    BY <1>4 DEF CheckStarted, LoadHead, LoadTail, CompareAndSwap, SetReady, Signal, ProducerPC
  <2>3. \A q \in Producer, n \in 1 .. MaxSends : Unsent(q, n)' => Unsent(q, n)
    BY <2>1, <2>2, GotoUnsent DEF RingInv
  <2> QED  BY <2>1, <2>3, StillFate DEF InBatch
<1> QED  BY <1>1, <1>2, <1>3, <1>4 DEF Send

\* PopSlot moves a message from its slot to the batch.
LEMMA PopFate == ASSUME RingInv, Fate, PopSlot PROVE Fate'
<1>1. PICK k \in Slot : k = SlotOf(tail)
  BY RingFacts
<1>2. PICK c \in Message : c = msg[k]
  BY <1>1, RingFacts DEF PopSlot, RingInv, ReadyFull
<1>3. /\ wpc = "spin" /\ wpc' = "clear" /\ batch' = Append(batch, c)
      /\ msg' = [msg EXCEPT ![k] = NoMessage] /\ msg \in [Slot -> Message \cup {NoMessage}]
      /\ UNCHANGED <<sendChan, written, lost, ppc, sends>>
      /\ batch \in Seq(Message) /\ c # NoMessage
  BY <1>1, <1>2, RingFacts DEF PopSlot, WriterFrame, prodVars, RingInv, WqTypeOK
<1>4. \A s \in Slot : msg'[s] = IF s = k THEN NoMessage ELSE msg[s]
  BY <1>3
<1>5. \A i \in DOMAIN batch' : batch'[i] = c \/ (i \in DOMAIN batch /\ batch'[i] = batch[i])
  <2>1. ASSUME NEW q \in Seq(Message)
        PROVE  \A i \in DOMAIN Append(q, c) : \/ Append(q, c)[i] = c
                                              \/ i \in DOMAIN q /\ Append(q, c)[i] = q[i]
    BY <2>1
  <2> QED  BY <1>3, <2>1
<1>6. \A m \in Message : m # NoMessage
  OBVIOUS
<1>7. \A m \in Message : /\ InRing(m)' => InRing(m) /\ m # c
                         /\ InChan(m)' <=> InChan(m)
                         /\ InBatch(m)' => InBatch(m) \/ m = c
  <2>1. \A m \in Message : InRing(m)' => InRing(m) /\ m # c
    BY <1>2, <1>3, <1>4, <1>6 DEF InRing, Fate, RingOnce
  <2> QED  BY <1>3, <1>5, <2>1 DEF InChan, InBatch
<1>8. InRing(c)
  BY <1>2 DEF InRing
<1>9. RingOnce' /\ ChanOnce'
  BY <1>3, <1>4 DEF Fate, RingOnce, ChanOnce
<1>10. \A m \in Message : Apart(m)' /\ (Nowhere(m) => Nowhere(m)')
  BY <1>3, <1>7, <1>8 DEF Fate, Apart, Nowhere
<1>11. ASSUME NEW q \in Producer, NEW n \in 1 .. MaxSends, Unsent(q, n)'
       PROVE  Nowhere(<<q, n>>)'
  <2>1. Unsent(q, n)
    BY <1>3, <1>11 DEF Unsent
  <2>2. <<q, n>> \in Message /\ Nowhere(<<q, n>>)
    BY <2>1 DEF Fate, Message
  <2> QED  BY <1>10, <2>2
<1> QED  BY <1>9, <1>10, <1>11 DEF Fate

\* FlushBatch writes the batch, or loses it: it holds it no longer.
LEMMA FlushFate == ASSUME RingInv, Fate, FlushBatch PROVE Fate'
<1>1. /\ wpc = "flush" /\ wpc' = "wait"
      /\ UNCHANGED <<msg, sendChan, batch, ppc, sends>>
      /\ \/ written' = written \cup InSeq(batch) /\ lost' = lost
         \/ lost' = lost \cup InSeq(batch) /\ written' = written
  BY DEF FlushBatch, WriterFrame, prodVars, ringVars
<1>2. \A m \in Message : /\ InRing(m)' <=> InRing(m)
                         /\ InChan(m)' <=> InChan(m)
                         /\ ~InBatch(m)'
                         /\ m \in InSeq(batch) <=> InBatch(m)
  BY <1>1 DEF InRing, InChan, InBatch, InSeq
<1>3. RingOnce' /\ ChanOnce'
  BY <1>1 DEF Fate, RingOnce, ChanOnce
<1>4. \A m \in Message : Apart(m)' /\ (Nowhere(m) => Nowhere(m)')
  <2>1. SUFFICES ASSUME NEW m \in Message
                 PROVE  Apart(m)' /\ (Nowhere(m) => Nowhere(m)')
    OBVIOUS
  <2>2. Apart(m)
    BY DEF Fate
  <2>3. CASE written' = written \cup InSeq(batch) /\ lost' = lost
    BY <1>2, <2>2, <2>3 DEF Apart, Nowhere
  <2>4. CASE lost' = lost \cup InSeq(batch) /\ written' = written
    BY <1>2, <2>2, <2>4 DEF Apart, Nowhere
  <2> QED  BY <1>1, <2>3, <2>4
<1>5. ASSUME NEW q \in Producer, NEW n \in 1 .. MaxSends, Unsent(q, n)'
      PROVE  Nowhere(<<q, n>>)'
  <2>1. Unsent(q, n)
    BY <1>1, <1>5 DEF Unsent
  <2>2. <<q, n>> \in Message /\ Nowhere(<<q, n>>)
    BY <2>1 DEF Fate, Message
  <2> QED  BY <1>4, <2>2
<1> QED  BY <1>3, <1>4, <1>5 DEF Fate

\* The other steps of writerLoop move no message, and an empty batch is dropped.
LEMMA WriterFate == ASSUME RingInv, Fate, WriterLoop PROVE Fate'
<1>1. CASE PopSlot
  BY <1>1, PopFate
<1>2. CASE FlushBatch
  BY <1>2, FlushFate
<1>3. CASE Wake \/ WriterExit \/ PopLoad \/ ClearReady \/ StoreTail
  <2>1. /\ UNCHANGED <<msg, sendChan, written, lost, ppc, sends>>
    BY <1>3 DEF Wake, WriterExit, PopLoad, ClearReady, StoreTail, WriterFrame, prodVars,
                ringVars, fateVars
  <2>2. \A m \in Message : InBatch(m)' => InBatch(m)
    <3>1. CASE batch' = batch /\ (wpc' \notin {"off", "wait"} => wpc \notin {"off", "wait"})
      BY <3>1 DEF InBatch
    <3>2. CASE batch' = <<>>
      BY <3>2 DEF InBatch
    <3> QED  BY <1>3, <3>1, <3>2 DEF Wake, WriterExit, PopLoad, ClearReady, StoreTail
  <2>3. \A q \in Producer, n \in 1 .. MaxSends : Unsent(q, n)' => Unsent(q, n)
    BY <2>1 DEF Unsent
  <2> QED  BY <2>1, <2>2, <2>3, StillFate
<1> QED  BY <1>1, <1>2, <1>3 DEF WriterLoop

\* LoopServe writes, or loses, the head of sendChan.
LEMMA ServeFate ==
    ASSUME RingInv, Fate, NEW l \in Link, LoopServe(l) PROVE Fate'
<1>1. /\ sendChan \in Seq(Message) /\ sendChan # <<>> /\ sendChan' = Tail(sendChan)
      /\ UNCHANGED <<msg, wpc, batch, ppc, sends>>
      /\ \/ written' = written \cup {Head(sendChan)} /\ lost' = lost
         \/ lost' = lost \cup {Head(sendChan)} /\ written' = written
  BY DEF LoopServe, LoopFrame, ringVars, prodVars, runVars, RingInv, WqTypeOK
<1>2. PICK c \in Message : c = Head(sendChan)
  BY <1>1
<1>3. /\ \A i \in DOMAIN sendChan' : i \in Nat /\ i + 1 \in DOMAIN sendChan
                                     /\ sendChan'[i] = sendChan[i + 1] /\ i + 1 # 1
      /\ 1 \in DOMAIN sendChan /\ sendChan[1] = c
  <2>1. ASSUME NEW q \in Seq(Message), q # <<>>
        PROVE  /\ \A i \in DOMAIN Tail(q) : i \in Nat /\ i + 1 \in DOMAIN q
                                            /\ Tail(q)[i] = q[i + 1] /\ i + 1 # 1
               /\ 1 \in DOMAIN q /\ q[1] = Head(q)
    BY <2>1
  <2> QED  BY <1>1, <1>2, <2>1
<1>4. RingOnce' /\ ChanOnce'
  <2>1. ASSUME NEW i \in DOMAIN sendChan', NEW j \in DOMAIN sendChan',
               sendChan'[i] = sendChan'[j]
        PROVE  i = j
    <3>1. i + 1 = j + 1 /\ i \in Nat /\ j \in Nat
      BY <1>3, <2>1 DEF Fate, ChanOnce
    <3> QED  BY <3>1
  <2> QED  BY <1>1, <2>1 DEF Fate, RingOnce, ChanOnce
<1>5. \A m \in Message : /\ InRing(m)' <=> InRing(m)
                         /\ InChan(m)' => InChan(m) /\ m # c
                         /\ InBatch(m)' <=> InBatch(m)
  <2>1. \A m \in Message : InChan(m)' => InChan(m) /\ m # c
    BY <1>3 DEF InChan, Fate, ChanOnce
  <2> QED  BY <1>1, <2>1 DEF InRing, InBatch
<1>6. InChan(c)
  BY <1>3 DEF InChan
<1>7. \A m \in Message : Apart(m)' /\ (Nowhere(m) => Nowhere(m)')
  <2>1. SUFFICES ASSUME NEW m \in Message
                 PROVE  Apart(m)' /\ (Nowhere(m) => Nowhere(m)')
    OBVIOUS
  <2>2. Apart(m) /\ Apart(c)
    BY DEF Fate
  <2>3. CASE written' = written \cup {c} /\ lost' = lost
    BY <1>5, <1>6, <2>2, <2>3 DEF Apart, Nowhere
  <2>4. CASE lost' = lost \cup {c} /\ written' = written
    BY <1>5, <1>6, <2>2, <2>4 DEF Apart, Nowhere
  <2> QED  BY <1>1, <1>2, <2>3, <2>4
<1>8. ASSUME NEW q \in Producer, NEW n \in 1 .. MaxSends, Unsent(q, n)'
      PROVE  Nowhere(<<q, n>>)'
  <2>1. Unsent(q, n)
    BY <1>1, <1>8 DEF Unsent
  <2>2. <<q, n>> \in Message /\ Nowhere(<<q, n>>)
    BY <2>1 DEF Fate, Message
  <2> QED  BY <1>7, <2>2
<1> QED  BY <1>4, <1>7, <1>8 DEF Fate

\* The other steps of a connection cycle move no message.
LEMMA LinkFate ==
    ASSUME RingInv, Fate, LinkUp \/ LinkDown \/ \E l \in Link : WriteLoop(l)
    PROVE  Fate'
<1>1. CASE \E l \in Link : LoopServe(l)
  BY <1>1, ServeFate
<1>2. CASE ~\E l \in Link : LoopServe(l)
  <2>1. UNCHANGED <<msg, sendChan, written, lost, ppc, sends, batch>>
    BY <1>2 DEF LinkUp, LinkDown, WriteLoop, AddConnection, LoopStart, LoopLeave,
                WriterStop, WriterStopped, LoopFrame, ringVars, prodVars, outVars
  <2>2. wpc' = wpc \/ wpc' = "wait"
    BY <1>2 DEF LinkUp, LinkDown, WriteLoop, AddConnection, LoopStart, LoopLeave,
                WriterStop, WriterStopped, runVars
  <2>3. \A m \in Message : InBatch(m)' => InBatch(m)
    BY <2>1, <2>2 DEF InBatch
  <2>4. \A q \in Producer, n \in 1 .. MaxSends : Unsent(q, n)' => Unsent(q, n)
    BY <2>1 DEF Unsent
  <2> QED  BY <2>1, <2>3, <2>4, StillFate
<1> QED  BY <1>1, <1>2

\* Every step keeps each message in one place.
LEMMA FateStep == ASSUME RingInv, Fate, [WqNext]_wqVars PROVE Fate'
<1>1. CASE UNCHANGED wqVars
  BY <1>1, StillFate DEF wqVars, ringVars, prodVars, wrVars, fateVars, InBatch, Unsent
<1> QED  BY <1>1, SendFate, WriterFate, LinkFate DEF WqNext

\* What Fate says of a message is what WriteOnce asks for.
LEMMA FateWrites == ASSUME RingInv, Fate PROVE WriteOnce
<1>1. written \subseteq Message /\ lost \subseteq Message
  BY DEF RingInv, WqTypeOK
<1>2. \A m \in Message : m \in Queued => InRing(m) \/ InChan(m) \/ InBatch(m)
  BY DEF Queued, InSeq, InRing, InChan, InBatch
<1> QED  BY <1>1, <1>2 DEF Fate, Apart, WriteOnce

\* No message is written twice, written after it was dropped, or written while a queue
\* still holds it, whatever producers, batches and connection cycles overlap
\* (Peer.Send, flushBatch, writeLoop).
THEOREM WrittenOnce == WqSpec => []WriteOnce
<1>1. WqInit => Fate
  <2> SUFFICES ASSUME WqInit PROVE Fate
    OBVIOUS
  <2>1. \A m \in Message : Nowhere(m)
    BY DEF WqInit, Nowhere, InRing, InChan, InBatch
  <2>2. \A m \in Message : Apart(m)
    BY <2>1 DEF Nowhere, Apart
  <2>3. RingOnce /\ ChanOnce
    BY DEF WqInit, RingOnce, ChanOnce
  <2>4. \A p \in Producer, n \in 1 .. MaxSends : <<p, n>> \in Message
    BY DEF Message
  <2> QED  BY <2>1, <2>2, <2>3, <2>4 DEF Fate
<1>2. RingInv /\ Fate /\ [WqNext]_wqVars => Fate'
  BY FateStep
<1>3. RingInv /\ Fate => WriteOnce
  BY FateWrites
<1> QED  BY <1>1, <1>2, <1>3, RingInvariance, PTL DEF WqSpec

-----------------------------------------------------------------------------
(* The ring implements a bounded FIFO queue.  The claimed indices from the    *)
(* one to take next up to the head are the abstract queue: CompareAndSwap     *)
(* appends to it, PopSlot takes its head, no other step changes it.           *)

\* A filled slot holds the message its producer is sending.
Filled == \A p \in Producer : ppc[p] = "ready" => msg[SlotOf(phead[p])] = Current(p)

\* MessageAt as a function of the index.
Content == [i \in Nat |-> MessageAt(i)]

\* What the abstract queue and the index function are made of.
Contents ==
    /\ NextToTake \in Nat /\ NextToTake <= head /\ tail <= NextToTake
    /\ \A p \in Producer : Claims(p) => NextToTake <= phead[p]
    /\ \A i \in Nat : Content[i] \in Message \cup {NoMessage}
    /\ Waiting = [k \in 1 .. head - NextToTake |-> Content[NextToTake + k - 1]]
    /\ \A p \in Producer : Claims(p) => Content[phead[p]] = Current(p)
    /\ \A i \in Nat : (\A p \in Producer : Claims(p) => phead[p] # i)
                        => Content[i] = msg[SlotOf(i)]

\* A function on 1 .. n is a sequence of length n.
LEMMA FunctionSeq ==
    ASSUME NEW S, NEW n \in Nat, NEW f \in [1 .. n -> S]
    PROVE  f \in Seq(S) /\ Len(f) = n
  OBVIOUS

\* Adding one element, and dropping the first, of such a function.
LEMMA FunctionAppend ==
    ASSUME NEW S, NEW n \in Nat, NEW f \in [1 .. n -> S], NEW g \in [1 .. n + 1 -> S],
           \A k \in 1 .. n : g[k] = f[k]
    PROVE  g = Append(f, g[n + 1])
<1>1. f \in Seq(S) /\ Len(f) = n
  BY FunctionSeq
<1>2. n + 1 \in Nat /\ n + 1 \in 1 .. n + 1 /\ DOMAIN g = 1 .. n + 1
  OBVIOUS
<1>3. PICK c \in S : c = g[n + 1]
  BY <1>2
<1>4. PICK h : h = Append(f, c)
  OBVIOUS
<1>5. /\ h \in Seq(S) /\ Len(h) = n + 1
      /\ \A k \in 1 .. n : h[k] = f[k]
      /\ h[n + 1] = c
  BY <1>1, <1>4
<1>6. h \in [1 .. n + 1 -> S]
  BY <1>2, <1>5
<1>7. ASSUME NEW k \in 1 .. n + 1 PROVE g[k] = h[k]
  <2>1. CASE k = n + 1
    BY <1>3, <1>5, <2>1
  <2>2. CASE k # n + 1
    <3>1. k \in 1 .. n
      BY <2>2
    <3> QED  BY <1>5, <3>1
  <2> QED  BY <2>1, <2>2
<1>8. g = h
  BY <1>6, <1>7
<1> QED  BY <1>3, <1>4, <1>8

LEMMA FunctionTail ==
    ASSUME NEW S, NEW n \in Nat, NEW f \in [1 .. n + 1 -> S], NEW g \in [1 .. n -> S],
           \A k \in 1 .. n : g[k] = f[k + 1]
    PROVE  f # <<>> /\ Head(f) = f[1] /\ g = Tail(f)
<1>1. n + 1 \in Nat
  OBVIOUS
<1>2. f \in Seq(S) /\ Len(f) = n + 1
  BY <1>1, FunctionSeq
<1>3. f # <<>> /\ Head(f) = f[1]
  BY <1>2
<1>4. PICK h : h = Tail(f)
  OBVIOUS
<1>5. h \in Seq(S) /\ Len(h) = n /\ \A k \in 1 .. n : h[k] = f[k + 1]
  BY <1>2, <1>3, <1>4
<1>6. h \in [1 .. n -> S]
  BY <1>5
<1>7. g = h
  BY <1>5, <1>6
<1> QED  BY <1>3, <1>4, <1>7

\* The contents of the ring, read off the invariant.
LEMMA ContentIs == RingInv => Contents
<1> SUFFICES ASSUME RingInv PROVE Contents
  OBVIOUS
<1>1. /\ head \in Nat /\ tail \in Nat
      /\ \A p \in Producer : phead[p] \in Nat
      /\ \A p \in Producer : Claims(p) => tail <= phead[p] /\ phead[p] < head
      /\ tail <= head /\ (wpc \in {"clear", "advance"} => tail < head)
  BY RingFacts DEF RingInv, Window, Loaded
<1>2. ASSUME NEW p \in Producer, Claims(p), wpc \in {"clear", "advance"} PROVE phead[p] # tail
  BY <1>2 DEF RingInv, Leaving, Claimed
<1>3. /\ NextToTake \in Nat /\ NextToTake <= head /\ tail <= NextToTake
      /\ \A p \in Producer : Claims(p) => NextToTake <= phead[p]
  BY <1>1, <1>2 DEF NextToTake
<1>4. ASSUME NEW p \in Producer, Claims(p) PROVE MessageAt(phead[p]) = Current(p)
  <2>1. PICK own : own = {q \in Producer : Claims(q) /\ phead[q] = phead[p]}
    OBVIOUS
  <2>2. own = {p}
    BY <1>4, <2>1 DEF RingInv, Distinct
  <2>3. (CHOOSE q \in own : TRUE) = p
    BY <2>2
  <2> QED  BY <2>1, <2>2, <2>3 DEF MessageAt
<1>5. ASSUME NEW i \in Nat, \A p \in Producer : Claims(p) => phead[p] # i
      PROVE  MessageAt(i) = msg[SlotOf(i)]
  <2>1. {q \in Producer : Claims(q) /\ phead[q] = i} = {}
    BY <1>5
  <2> QED  BY <2>1 DEF MessageAt
<1>6. ASSUME NEW p \in Producer, Claims(p) PROVE Current(p) \in Message
  <2>1. sends[p] \in 1 .. MaxSends
    BY <1>6, RingFacts DEF RingInv, Loaded, Claims
  <2> QED  BY <2>1 DEF Current, Message
<1>7. ASSUME NEW i \in Nat PROVE MessageAt(i) \in Message \cup {NoMessage}
  <2>1. CASE \E p \in Producer : Claims(p) /\ phead[p] = i
    BY <2>1, <1>4, <1>6
  <2>2. CASE \A p \in Producer : Claims(p) => phead[p] # i
    BY <2>2, <1>5, SlotRange DEF RingInv, WqTypeOK
  <2> QED  BY <2>1, <2>2
<1>8. \A i \in Nat : Content[i] = MessageAt(i)
  BY DEF Content
<1>9. \A k \in 1 .. head - NextToTake : NextToTake + k - 1 \in Nat
  BY <1>1, <1>3
<1>10. Waiting = [k \in 1 .. head - NextToTake |-> Content[NextToTake + k - 1]]
  BY <1>8, <1>9 DEF Waiting
<1> QED  BY <1>1, <1>3, <1>4, <1>5, <1>7, <1>8, <1>10 DEF Contents

LEMMA ContentIsNext == ASSUME RingInv' PROVE Contents'
  BY ContentIs, PTL

\* Every step keeps the filled slots: WriteSlot fills its own, PopSlot empties one that
\* no producer claims.
LEMMA FilledStep == ASSUME RingInv, Filled, [WqNext]_wqVars PROVE Filled'
<1>0. /\ ppc \in [Producer -> ProducerPC] /\ phead \in [Producer -> Nat]
      /\ sends \in [Producer -> 0 .. MaxSends] /\ msg \in [Slot -> Message \cup {NoMessage}]
      /\ \A q \in Producer : SlotOf(phead[q]) \in Slot
      /\ SlotOf(tail) \in Slot
  BY RingFacts DEF RingInv, WqTypeOK
<1>1. ASSUME UNCHANGED <<msg, ppc, phead, sends>> PROVE Filled'
  BY <1>1 DEF Filled, Current
<1>2. ASSUME NEW p \in Producer, Send(p) PROVE Filled'
  <2>1. \A q \in Producer : q # p => /\ ppc'[q] = ppc[q] /\ phead'[q] = phead[q]
                                     /\ sends'[q] = sends[q]
    BY <1>0, <1>2 DEF Send, SendBegin, CheckStarted, LoadHead, LoadTail, CompareAndSwap,
                      WriteSlot, SetReady, Signal, Fallback, PushFrame, MoveTo
  <2>2. CASE WriteSlot(p)
    <3>1. /\ ppc[p] = "write" /\ UNCHANGED <<phead, sends>>
          /\ \A s \in Slot : msg'[s] = IF s = SlotOf(phead[p]) THEN Current(p) ELSE msg[s]
      BY <1>0, <2>2 DEF WriteSlot, PushFrame
    <3>2. msg'[SlotOf(phead[p])] = Current(p)
      BY <1>0, <3>1
    <3>3. ASSUME NEW q \in Producer, q # p, ppc'[q] = "ready"
          PROVE  msg'[SlotOf(phead[q])] = Current(q)
      <4>1. SlotOf(phead[q]) # SlotOf(phead[p])
        BY <2>1, <3>1, <3>3, ClaimSlots DEF Claims
      <4> QED  BY <1>0, <2>1, <3>1, <3>3, <4>1 DEF Filled
    <3> QED  BY <3>1, <3>2, <3>3 DEF Filled, Current
  <2>3. CASE ~WriteSlot(p)
    <3>1. msg' = msg /\ ppc'[p] # "ready"
      BY <1>0, <1>2, <2>3
      DEF Send, SendBegin, CheckStarted, LoadHead, LoadTail, CompareAndSwap, SetReady, Signal,
          Fallback, MoveTo, ringVars
    <3> QED  BY <2>1, <3>1 DEF Filled, Current
  <2> QED  BY <2>2, <2>3
<1>3. CASE PopSlot
  <2>1. /\ UNCHANGED <<ppc, phead, sends>> /\ ready[SlotOf(tail)]
        /\ \A s \in Slot : msg'[s] = IF s = SlotOf(tail) THEN NoMessage ELSE msg[s]
    BY <1>0, <1>3 DEF PopSlot, WriterFrame, prodVars
  <2>2. ASSUME NEW q \in Producer, ppc[q] = "ready"
        PROVE  msg'[SlotOf(phead[q])] = Current(q)
    <3>1. SlotOf(phead[q]) # SlotOf(tail)
      BY <2>1, <2>2 DEF RingInv, Claimed, Claims
    <3> QED  BY <1>0, <2>1, <2>2, <3>1 DEF Filled
  <2> QED  BY <2>1, <2>2 DEF Filled, Current
<1>4. CASE WriterLoop /\ ~PopSlot
  BY <1>1, <1>4 DEF WriterLoop, Wake, WriterExit, PopLoad, ClearReady, StoreTail, FlushBatch,
                    WriterFrame, prodVars, ringVars
<1>5. CASE LinkUp \/ LinkDown \/ \E l \in Link : WriteLoop(l)
  BY <1>1, <1>5 DEF LinkUp, LinkDown, WriteLoop, AddConnection, LoopStart, LoopServe, LoopLeave,
                    WriterStop, WriterStopped, LoopFrame, prodVars, ringVars
<1>6. CASE UNCHANGED wqVars
  BY <1>1, <1>6 DEF wqVars, ringVars, prodVars
<1> QED  BY <1>2, <1>3, <1>4, <1>5, <1>6 DEF WqNext

\* A step that leaves every queued index as it was.
LEMMA SameQueue ==
    ASSUME RingInv, RingInv', head' = head, NextToTake' = NextToTake,
           \A i \in Nat : NextToTake <= i /\ i < head => Content'[i] = Content[i]
    PROVE  Waiting' = Waiting
<1>1. Contents /\ Contents'
  BY ContentIs, ContentIsNext
<1>2. head \in Nat /\ NextToTake \in Nat
  BY <1>1, RingFacts DEF Contents
<1>3. \A k \in 1 .. head - NextToTake :
        Content'[NextToTake + k - 1] = Content[NextToTake + k - 1]
  <2> SUFFICES ASSUME NEW k \in 1 .. head - NextToTake
               PROVE  Content'[NextToTake + k - 1] = Content[NextToTake + k - 1]
    OBVIOUS
  <2>1. /\ NextToTake + k - 1 \in Nat /\ NextToTake <= NextToTake + k - 1
        /\ NextToTake + k - 1 < head
    BY <1>2
  <2> QED  BY <2>1
<1>4. /\ Waiting = [k \in 1 .. head - NextToTake |-> Content[NextToTake + k - 1]]
      /\ Waiting' = [k \in 1 .. head - NextToTake |-> Content'[NextToTake + k - 1]]
  BY <1>1 DEF Contents
<1> QED  BY <1>3, <1>4

\* No claim begins or ends and no slot changes.
LEMMA SameClaims ==
    ASSUME RingInv, RingInv', UNCHANGED <<head, msg>>, NextToTake' = NextToTake,
           \A q \in Producer : Claims(q)' <=> Claims(q),
           \A q \in Producer : Claims(q) => phead'[q] = phead[q] /\ sends'[q] = sends[q]
    PROVE  Waiting' = Waiting
<1>1. Contents /\ Contents'
  BY ContentIs, ContentIsNext
<1>2. ASSUME NEW i \in Nat PROVE Content'[i] = Content[i]
  <2>1. CASE \E p \in Producer : Claims(p) /\ phead[p] = i
    <3>1. PICK p \in Producer : Claims(p) /\ phead[p] = i
      BY <2>1
    <3>2. Content[i] = Current(p)
      BY <1>1, <3>1 DEF Contents
    <3>3. Claims(p)' /\ phead'[p] = i
      BY <3>1
    <3>4. Content'[i] = Current(p)'
      BY <1>1, <3>3 DEF Contents
    <3> QED  BY <3>1, <3>2, <3>4 DEF Current
  <2>2. CASE \A p \in Producer : Claims(p) => phead[p] # i
    BY <1>1, <2>2 DEF Contents
  <2> QED  BY <2>1, <2>2
<1> QED  BY <1>2, SameQueue

\* WriteSlot and SetReady: the message of the claim becomes the one in the slot.
LEMMA FillQueue ==
    ASSUME RingInv, RingInv', Filled, NEW p \in Producer, WriteSlot(p) \/ SetReady(p)
    PROVE  Waiting' = Waiting
<1>0. /\ Contents /\ Contents' /\ ppc \in [Producer -> ProducerPC]
      /\ head \in Nat /\ tail \in Nat /\ N \in Nat
      /\ msg \in [Slot -> Message \cup {NoMessage}]
      /\ \A q \in Producer : phead[q] \in Nat
      /\ SlotOf(phead[p]) \in Slot
  BY ContentIs, ContentIsNext, RingFacts
<1>1. UNCHANGED <<head, tail, phead, sends, wpc>> /\ Claims(p)
  BY DEF WriteSlot, SetReady, PushFrame, SendFrame, wrVars, Claims
<1>2. NextToTake' = NextToTake
  BY <1>1 DEF NextToTake
<1>3. \A q \in Producer \ {p} : Claims(q)' <=> Claims(q)
  BY <1>0 DEF WriteSlot, SetReady, MoveTo, Claims
<1>4. ASSUME NEW i \in Nat, NextToTake <= i, i < head PROVE Content'[i] = Content[i]
  <2>0. tail <= i /\ i < tail + N /\ SlotOf(i) \in Slot
    BY <1>0, <1>4, SlotRange DEF Contents, RingInv, Window
  <2>1. CASE i = phead[p]
    <3>1. Content[i] = Current(p)
      BY <1>0, <1>1, <2>1 DEF Contents
    <3>2. CASE WriteSlot(p)
      <4>1. Claims(p)' /\ phead'[p] = i
        BY <1>0, <1>1, <2>1, <3>2 DEF WriteSlot, MoveTo, Claims
      <4>2. Content'[i] = Current(p)'
        BY <1>0, <4>1 DEF Contents
      <4> QED  BY <1>1, <3>1, <4>2 DEF Current
    <3>3. CASE SetReady(p)
      <4>1. ~Claims(p)' /\ msg' = msg /\ ppc[p] = "ready"
        BY <1>0, <3>3 DEF SetReady, MoveTo, Claims
      <4>2. \A q \in Producer : Claims(q)' => phead'[q] # i
        BY <1>1, <1>3, <2>1, <4>1 DEF RingInv, Distinct
      <4>3. Content'[i] = msg[SlotOf(i)]
        BY <1>0, <4>1, <4>2 DEF Contents
      <4> QED  BY <2>1, <3>1, <4>1, <4>3 DEF Filled
    <3> QED  BY <3>2, <3>3
  <2>2. CASE \E q \in Producer \ {p} : Claims(q) /\ phead[q] = i
    <3>1. PICK q \in Producer \ {p} : Claims(q) /\ phead[q] = i
      BY <2>2
    <3>2. Content[i] = Current(q)
      BY <1>0, <3>1 DEF Contents
    <3>3. Claims(q)' /\ phead'[q] = i
      BY <1>1, <1>3, <3>1
    <3>4. Content'[i] = Current(q)'
      BY <1>0, <3>3 DEF Contents
    <3> QED  BY <1>1, <3>2, <3>4 DEF Current
  <2>3. CASE \A q \in Producer : Claims(q) => phead[q] # i
    <3>1. Content[i] = msg[SlotOf(i)]
      BY <1>0, <2>3 DEF Contents
    <3>2. \A q \in Producer : Claims(q)' => phead'[q] # i
      BY <1>1, <1>3, <2>3
    <3>3. Content'[i] = msg'[SlotOf(i)]
      BY <1>0, <3>2 DEF Contents
    <3>4. SlotOf(i) # SlotOf(phead[p])
      BY <1>1, <2>0, <2>3, ClaimSlots
    <3>5. msg'[SlotOf(i)] = msg[SlotOf(i)]
      BY <1>0, <2>0, <3>4 DEF WriteSlot, SetReady
    <3> QED  BY <3>1, <3>3, <3>5
  <2> QED  BY <2>1, <2>2, <2>3
<1> QED  BY <1>1, <1>2, <1>4, SameQueue

\* A successful CompareAndSwap accepts its message.
LEMMA ClaimAccepts ==
    ASSUME RingInv, RingInv', NEW p \in Producer, CompareAndSwap(p), head = phead[p]
    PROVE  Fifo!Accept(Current(p)) /\ Current(p) \in Message
<1>0. /\ Contents /\ Contents' /\ ppc \in [Producer -> ProducerPC]
      /\ head \in Nat /\ tail \in Nat /\ N \in Nat
      /\ NextToTake \in Nat /\ NextToTake <= head /\ tail <= NextToTake
  BY ContentIs, ContentIsNext, RingFacts DEF Contents
<1>1. /\ ppc[p] = "cas" /\ head' = head + 1 /\ UNCHANGED <<tail, msg, phead, sends, wpc, taken>>
      /\ ~Claims(p) /\ Claims(p)'
  BY <1>0 DEF CompareAndSwap, MoveTo, PushFrame, SendFrame, wrVars, fateVars, Claims
<1>2. NextToTake' = NextToTake
  BY <1>1 DEF NextToTake
<1>3. \A q \in Producer \ {p} : Claims(q)' <=> Claims(q)
  BY <1>0 DEF CompareAndSwap, MoveTo, Claims
<1>4. Current(p) \in Message /\ Current(p)' = Current(p)
  <2>1. sends[p] \in 1 .. MaxSends
    BY <1>1, RingFacts DEF RingInv, Loaded
  <2> QED  BY <1>1, <2>1 DEF Current, Message
<1>5. head < tail + N
  BY <1>1 DEF RingInv, Loaded
<1>6. Content'[head] = Current(p)
  BY <1>0, <1>1, <1>4 DEF Contents
<1>7. ASSUME NEW i \in Nat, i < head PROVE Content'[i] = Content[i]
  <2>1. CASE \E q \in Producer : Claims(q) /\ phead[q] = i
    <3>1. PICK q \in Producer : Claims(q) /\ phead[q] = i
      BY <2>1
    <3>2. Content[i] = Current(q)
      BY <1>0, <3>1 DEF Contents
    <3>3. Claims(q)' /\ phead'[q] = i
      BY <1>1, <1>3, <3>1
    <3>4. Content'[i] = Current(q)'
      BY <1>0, <3>3 DEF Contents
    <3> QED  BY <1>1, <3>2, <3>4 DEF Current
  <2>2. CASE \A q \in Producer : Claims(q) => phead[q] # i
    <3>1. \A q \in Producer : Claims(q)' => phead'[q] # i
      BY <1>0, <1>1, <1>3, <1>7, <2>2
    <3> QED  BY <1>0, <1>1, <2>2, <3>1 DEF Contents
  <2> QED  BY <2>1, <2>2
<1>8. PICK n \in Nat, t \in Nat : t = NextToTake /\ n = head - NextToTake
  BY <1>0
<1>9. PICK A, B : A = Content /\ B = Content'
  OBVIOUS
<1>10. /\ Waiting = [k \in 1 .. n |-> A[t + k - 1]]
       /\ Waiting' = [k \in 1 .. n + 1 |-> B[t + k - 1]]
  <2>1. head' - NextToTake' = n + 1
    BY <1>0, <1>1, <1>2, <1>8
  <2>2. Waiting' = [k \in 1 .. head' - NextToTake' |-> Content'[NextToTake' + k - 1]]
    BY <1>0 DEF Contents
  <2>3. Waiting = [k \in 1 .. head - NextToTake |-> Content[NextToTake + k - 1]]
    BY <1>0 DEF Contents
  <2> QED  BY <1>2, <1>8, <1>9, <2>1, <2>2, <2>3
<1>11. /\ \A k \in 1 .. n : B[t + k - 1] = A[t + k - 1]
       /\ B[t + (n + 1) - 1] = Current(p)
       /\ \A i \in Nat : A[i] \in Message \cup {NoMessage} /\ B[i] \in Message \cup {NoMessage}
  <2>1. t + (n + 1) - 1 = head /\ \A k \in 1 .. n : t + k - 1 \in Nat /\ t + k - 1 < head
    BY <1>0, <1>8
  <2>2. \A i \in Nat : A[i] \in Message \cup {NoMessage} /\ B[i] \in Message \cup {NoMessage}
    BY <1>0, <1>9 DEF Contents
  <2> QED  BY <1>6, <1>7, <1>9, <2>1, <2>2
<1>12. PICK f, g : f = [k \in 1 .. n |-> A[t + k - 1]] /\ g = [k \in 1 .. n + 1 |-> B[t + k - 1]]
  OBVIOUS
<1>13. /\ f \in [1 .. n -> Message \cup {NoMessage}] /\ g \in [1 .. n + 1 -> Message \cup {NoMessage}]
       /\ \A k \in 1 .. n : g[k] = f[k]
       /\ g[n + 1] = Current(p)
  <2>1. \A k \in 1 .. n : f[k] = A[t + k - 1] /\ t + k - 1 \in Nat
    BY <1>12
  <2>2. \A k \in 1 .. n + 1 : g[k] = B[t + k - 1] /\ t + k - 1 \in Nat
    BY <1>12
  <2>3. n + 1 \in 1 .. n + 1 /\ \A k \in 1 .. n : k \in 1 .. n + 1
    OBVIOUS
  <2>4. f \in [1 .. n -> Message \cup {NoMessage}] /\ g \in [1 .. n + 1 -> Message \cup {NoMessage}]
    BY <1>11, <1>12, <2>1, <2>2
  <2> QED  BY <1>11, <2>1, <2>2, <2>3, <2>4
<1>14. Len(f) = n /\ g = Append(f, Current(p))
  BY <1>13, FunctionSeq, FunctionAppend
<1>15. Waiting = f /\ Waiting' = g /\ n < N
  BY <1>0, <1>5, <1>8, <1>10, <1>12
<1> QED  BY <1>1, <1>4, <1>14, <1>15 DEF Fifo!Accept, N

\* PopSlot takes the first message of the queue.
LEMMA PopTakes ==
    ASSUME RingInv, RingInv', PopSlot
    PROVE  Fifo!Take
<1>0. /\ Contents /\ Contents' /\ head \in Nat /\ tail \in Nat /\ N \in Nat
      /\ msg \in [Slot -> Message \cup {NoMessage}] /\ SlotOf(tail) \in Slot
      /\ head <= tail + N
  BY ContentIs, ContentIsNext, RingFacts DEF RingInv, Window
<1>1. /\ wpc = "spin" /\ wpc' = "clear" /\ ready[SlotOf(tail)]
      /\ UNCHANGED <<head, tail, ppc, phead, sends>>
      /\ taken' = Append(taken, msg[SlotOf(tail)])
      /\ msg' = [msg EXCEPT ![SlotOf(tail)] = NoMessage]
  BY DEF PopSlot, WriterFrame, prodVars
<1>2. NextToTake = tail /\ NextToTake' = tail + 1 /\ tail < head
  BY <1>1 DEF NextToTake, RingInv, Window
<1>3. \A q \in Producer : Claims(q)' <=> Claims(q)
  BY <1>1 DEF Claims
<1>4. \A q \in Producer : Claims(q) => phead[q] # tail
  BY <1>1 DEF RingInv, Claimed
<1>5. Content[tail] = msg[SlotOf(tail)]
  BY <1>0, <1>4 DEF Contents
<1>6. ASSUME NEW i \in Nat, tail < i, i < head PROVE Content'[i] = Content[i]
  <2>1. CASE \E q \in Producer : Claims(q) /\ phead[q] = i
    <3>1. PICK q \in Producer : Claims(q) /\ phead[q] = i
      BY <2>1
    <3>2. Content[i] = Current(q)
      BY <1>0, <3>1 DEF Contents
    <3>3. Claims(q)' /\ phead'[q] = i
      BY <1>1, <1>3, <3>1
    <3>4. Content'[i] = Current(q)'
      BY <1>0, <3>3 DEF Contents
    <3> QED  BY <1>1, <3>2, <3>4 DEF Current
  <2>2. CASE \A q \in Producer : Claims(q) => phead[q] # i
    <3>1. Content[i] = msg[SlotOf(i)]
      BY <1>0, <2>2 DEF Contents
    <3>2. \A q \in Producer : Claims(q)' => phead'[q] # i
      BY <1>1, <1>3, <2>2
    <3>3. Content'[i] = msg'[SlotOf(i)]
      BY <1>0, <3>2 DEF Contents
    <3>4. i # tail /\ tail <= tail /\ tail < tail + N /\ tail <= i /\ i < tail + N
      BY <1>0, <1>6
    <3>5. SlotOf(i) # SlotOf(tail) /\ SlotOf(i) \in Slot
      BY <1>0, <3>4, WindowSlots, SlotRange
    <3> QED  BY <1>0, <1>1, <3>1, <3>3, <3>5
  <2> QED  BY <2>1, <2>2
<1>7. PICK n \in Nat, t \in Nat : t = tail /\ n = head - (tail + 1)
  BY <1>0, <1>2
<1>8. PICK A, B : A = Content /\ B = Content'
  OBVIOUS
<1>9. PICK f, g : f = [k \in 1 .. n + 1 |-> A[t + k - 1]] /\ g = [k \in 1 .. n |-> B[(t + 1) + k - 1]]
  OBVIOUS
<1>10. Waiting = f /\ Waiting' = g
  <2>1. head - NextToTake = n + 1 /\ head' - NextToTake' = n
    BY <1>0, <1>1, <1>2, <1>7
  <2>2. Waiting' = [k \in 1 .. head' - NextToTake' |-> Content'[NextToTake' + k - 1]]
    BY <1>0 DEF Contents
  <2>3. Waiting = [k \in 1 .. head - NextToTake |-> Content[NextToTake + k - 1]]
    BY <1>0 DEF Contents
  <2> QED  BY <1>2, <1>7, <1>8, <1>9, <2>1, <2>2, <2>3
<1>11. \A i \in Nat : A[i] \in Message \cup {NoMessage} /\ B[i] \in Message \cup {NoMessage}
  BY <1>0, <1>8 DEF Contents
<1>12. /\ f \in [1 .. n + 1 -> Message \cup {NoMessage}] /\ g \in [1 .. n -> Message \cup {NoMessage}]
       /\ f[1] = msg[SlotOf(tail)]
       /\ \A k \in 1 .. n : g[k] = f[k + 1]
  <2>1. \A k \in 1 .. n + 1 : f[k] = A[t + k - 1] /\ t + k - 1 \in Nat
    BY <1>9
  <2>2. \A k \in 1 .. n : /\ g[k] = B[(t + 1) + k - 1] /\ (t + 1) + k - 1 \in Nat
                          /\ (t + 1) + k - 1 = t + (k + 1) - 1
                          /\ t < t + (k + 1) - 1 /\ t + (k + 1) - 1 < head
                          /\ k + 1 \in 1 .. n + 1
    BY <1>0, <1>7, <1>9
  <2>3. f \in [1 .. n + 1 -> Message \cup {NoMessage}] /\ g \in [1 .. n -> Message \cup {NoMessage}]
    BY <1>9, <1>11, <2>1, <2>2
  <2>4. 1 \in 1 .. n + 1 /\ t + 1 - 1 = tail
    BY <1>0, <1>7
  <2>5. f[1] = msg[SlotOf(tail)]
    BY <1>5, <1>8, <2>1, <2>4
  <2>6. ASSUME NEW k \in 1 .. n PROVE g[k] = f[k + 1]
    <3>1. PICK i \in Nat : i = t + (k + 1) - 1
      BY <2>2
    <3>2. tail < i /\ i < head /\ g[k] = B[i] /\ f[k + 1] = A[i]
      BY <1>7, <2>1, <2>2, <3>1
    <3> QED  BY <1>6, <1>8, <3>2
  <2> QED  BY <2>3, <2>5, <2>6
<1>13. f # <<>> /\ Head(f) = f[1] /\ g = Tail(f)
  BY <1>12, FunctionTail
<1> QED  BY <1>1, <1>10, <1>12, <1>13 DEF Fifo!Take

\* Every other step leaves the abstract queue as it was.
LEMMA OtherQueue ==
    ASSUME RingInv, RingInv', Filled, [WqNext]_wqVars, ~PopSlot,
           \A p \in Producer : ~(CompareAndSwap(p) /\ head = phead[p])
    PROVE  Waiting' = Waiting /\ taken' = taken
<1>0. /\ ppc \in [Producer -> ProducerPC] /\ phead \in [Producer -> Nat]
      /\ sends \in [Producer -> 0 .. MaxSends] /\ head \in Nat /\ tail \in Nat
  BY RingFacts DEF RingInv, WqTypeOK
<1>1. ASSUME UNCHANGED <<head, msg, ppc, phead, sends>>, NextToTake' = NextToTake
      PROVE  Waiting' = Waiting
  <2>1. \A q \in Producer : /\ Claims(q)' <=> Claims(q)
                            /\ phead'[q] = phead[q] /\ sends'[q] = sends[q]
    BY <1>1 DEF Claims
  <2> QED  BY <1>1, <2>1, SameClaims
<1>2. ASSUME NEW p \in Producer, Send(p) PROVE Waiting' = Waiting /\ taken' = taken
  <2>1. taken' = taken /\ UNCHANGED <<tail, wpc>>
    BY <1>2 DEF Send, SendBegin, CheckStarted, LoadHead, LoadTail, CompareAndSwap, WriteSlot,
                SetReady, Signal, Fallback, PushFrame, SendFrame, wrVars, fateVars, ringVars
  <2>2. CASE WriteSlot(p) \/ SetReady(p)
    BY <2>1, <2>2, FillQueue
  <2>3. CASE ~(WriteSlot(p) \/ SetReady(p))
    <3>1. UNCHANGED <<head, msg>>
      BY <1>2, <2>3
      DEF Send, SendBegin, CheckStarted, LoadHead, LoadTail, CompareAndSwap, Signal,
          Fallback, PushFrame, ringVars
    <3>2. ~Claims(p) /\ ~Claims(p)'
      BY <1>0, <1>2, <2>3
      DEF Send, SendBegin, CheckStarted, LoadHead, LoadTail, CompareAndSwap, Signal,
          Fallback, Claims, MoveTo
    <3>3. \A q \in Producer : q # p => /\ ppc'[q] = ppc[q] /\ phead'[q] = phead[q]
                                       /\ sends'[q] = sends[q]
      BY <1>0, <1>2 DEF Send, SendBegin, CheckStarted, LoadHead, LoadTail, CompareAndSwap,
                        WriteSlot, SetReady, Signal, Fallback, PushFrame, MoveTo
    <3>4. NextToTake' = NextToTake
      BY <2>1 DEF NextToTake
    <3>5. \A q \in Producer : Claims(q)' <=> Claims(q)
      BY <3>2, <3>3 DEF Claims
    <3>6. \A q \in Producer : Claims(q) => phead'[q] = phead[q] /\ sends'[q] = sends[q]
      BY <3>2, <3>3
    <3> QED  BY <2>1, <3>1, <3>4, <3>5, <3>6, SameClaims
  <2> QED  BY <2>2, <2>3
<1>3. CASE WriterLoop
  <2>1. UNCHANGED <<head, msg, ppc, phead, sends, taken>>
    BY <1>3 DEF WriterLoop, Wake, WriterExit, PopLoad, ClearReady, StoreTail, FlushBatch,
                WriterFrame, prodVars, ringVars, fateVars
  <2>2. NextToTake' = NextToTake
    BY <1>0, <1>3 DEF WriterLoop, Wake, WriterExit, PopLoad, ClearReady, StoreTail, FlushBatch,
                      NextToTake, ringVars
  <2> QED  BY <1>1, <2>1, <2>2
<1>4. CASE LinkUp \/ LinkDown \/ \E l \in Link : WriteLoop(l)
  <2>1. UNCHANGED <<head, tail, msg, ppc, phead, sends, taken>>
    BY <1>4 DEF LinkUp, LinkDown, WriteLoop, AddConnection, LoopStart, LoopServe, LoopLeave,
                WriterStop, WriterStopped, LoopFrame, prodVars, ringVars
  <2>2. wpc \in {"clear", "advance"} <=> wpc' \in {"clear", "advance"}
    <3>1. CASE \E l \in Link : LoopStart(l)
      <4>1. MuFree /\ IF started THEN wpc' = wpc ELSE wpc' = "wait"
        BY <3>1 DEF LoopStart
      <4>2. started \/ wpc = "off"
        BY <4>1 DEF RingInv, Lifecycle, MuFree
      <4> QED  BY <4>1, <4>2
    <3>2. CASE ~\E l \in Link : LoopStart(l)
      <4>1. wpc' = wpc
        BY <1>4, <3>2 DEF LinkUp, LinkDown, WriteLoop, AddConnection, LoopServe, LoopLeave,
                          WriterStop, WriterStopped, runVars
      <4> QED  BY <4>1
    <3> QED  BY <3>1, <3>2
  <2>3. NextToTake' = NextToTake
    BY <2>1, <2>2 DEF NextToTake
  <2> QED  BY <1>1, <2>1, <2>3
<1>5. CASE UNCHANGED wqVars
  <2>1. UNCHANGED <<head, tail, msg, ppc, phead, sends, taken, wpc>>
    BY <1>5 DEF wqVars, ringVars, prodVars, wrVars, fateVars
  <2> QED  BY <1>1, <2>1 DEF NextToTake
<1> QED  BY <1>2, <1>3, <1>4, <1>5 DEF WqNext

\* The ring implements the bounded FIFO queue of BoundedFifo: every message whose slot a
\* CompareAndSwap claimed is handed to writerLoop exactly once and in claim order, and the
\* ring never holds more than ringBufferSize (lockFreeQueue.Push, PopBatch).
THEOREM RingIsFifo == WqSpec => RefinesFifo
<1>1. WqInit => Filled /\ Fifo!Init
  <2> SUFFICES ASSUME WqInit PROVE Filled /\ Fifo!Init
    OBVIOUS
  <2>1. Filled /\ taken = <<>>
    BY DEF WqInit, Filled
  <2>2. head = 0 /\ NextToTake = 0
    BY DEF WqInit, NextToTake
  <2>3. Contents
    BY RingInit, ContentIs
  <2>4. PICK A, f : A = Content /\ f = [k \in 1 .. 0 |-> A[0 + k - 1]]
    OBVIOUS
  <2>5. Waiting = f
    BY <2>2, <2>3, <2>4 DEF Contents
  <2>6. f = <<>>
    BY <2>4
  <2> QED  BY <2>1, <2>5, <2>6 DEF Fifo!Init
<1>2. RingInv /\ Filled /\ [WqNext]_wqVars => Filled'
  BY FilledStep
<1>3. RingInv /\ RingInv' /\ Filled /\ [WqNext]_wqVars => [Fifo!Next]_(Fifo!vars)
  <2> SUFFICES ASSUME RingInv, RingInv', Filled, [WqNext]_wqVars PROVE [Fifo!Next]_(Fifo!vars)
    OBVIOUS
  <2>1. CASE PopSlot
    BY <2>1, PopTakes DEF Fifo!Next
  <2>2. ASSUME NEW p \in Producer, CompareAndSwap(p), head = phead[p] PROVE Fifo!Next
    BY <2>2, ClaimAccepts DEF Fifo!Next
  <2>3. CASE ~PopSlot /\ \A p \in Producer : ~(CompareAndSwap(p) /\ head = phead[p])
    BY <2>3, OtherQueue DEF Fifo!vars
  <2> QED  BY <2>1, <2>2, <2>3
<1> QED  BY <1>1, <1>2, <1>3, RingInvariance, PTL DEF WqSpec, RefinesFifo, Fifo!Spec
=============================================================================
