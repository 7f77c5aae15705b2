--------------------------- MODULE EthRingProofs ---------------------------
(***************************************************************************)
(* The rings of EthDriver stay whole, and no assertion of the driver fails *)
(* before a trouble has come.                                              *)
(*                                                                         *)
(* Both rings are described by distance from the tail, in which they have  *)
(* no seam.  The transmit ring is a row of packets from the tail to the    *)
(* head, of which the engine has the part from dma on.  The receive ring   *)
(* is three arcs: the slots to be refilled, the packets received, and the  *)
(* buffers that are the engine's.                                          *)
(***************************************************************************)
EXTENDS EthDriverProofs

-----------------------------------------------------------------------------
(* The invariants.                                                         *)

TxPos(t, i) == ahead(t.tail, i, TxDescs)

\* The descriptors of the packet that starts at i, by their distance from the tail.
InPacket(t, i, x) == TxPos(t, i) <= TxPos(t, x) /\ TxPos(t, x) < TxPos(t, i) + t.buf[i]

\* Packets lie before the head, do not overlap and leave no gap; the engine has what
\* is between dma and the head.
TxRing(t) ==
    /\ \A i \in starts(t) : TxPos(t, i) + t.buf[i] <= TxPos(t, t.head)
    /\ \A i, j \in starts(t) :
          TxPos(t, i) < TxPos(t, j) => TxPos(t, i) + t.buf[i] <= TxPos(t, j)
    /\ \A x \in TxIndex :
          TxPos(t, x) < TxPos(t, t.head) => \E i \in starts(t) : InPacket(t, i, x)
    /\ TxPos(t, t.dma) <= TxPos(t, t.head)
    /\ t.owned = {x \in TxIndex : TxPos(t, t.dma) <= TxPos(t, x)
                                  /\ TxPos(t, x) < TxPos(t, t.head)}

\* As long as the transmit interrupt is off there is room for the next packet.
Room == ~mask.tx /\ xmit.pc # "kick" => TxPos(tx, tx.head) + PktDescs + 2 <= TxDescs

\* What ag7100_hard_start has read before it took the lock is still so.
Read ==
    /\ xmit.pc = "reap" => xmit.head = tx.head /\ xmit.tail = tx.tail
    /\ xmit.pc \in {"reap", "fill"} => xmit.n >= 1

\* Nobody stops the queue under ag7100_hard_start.
QueueRuns == xmit.pc # "idle" => ~net.stopped

Whole == TxRing(tx) /\ Room /\ Read

TxInv == QueueRuns /\ ("cable" \notin disturbed => Whole)

\* The slots of the receive ring without a buffer.
Missing(r) ==
    IF r.head # r.tail THEN ahead(r.tail, r.head, RxDescs)
    ELSE IF r.tail \in r.buf THEN 0 ELSE RxDescs

RxPos(r, i) == ahead(r.tail, i, RxDescs)

\* The packets received, the ones that the status register misses included.
Got(r) == r.cnt + r.missed

RxShape(r, g) ==
    /\ g + Got(r) <= RxDescs
    /\ r.head = (r.tail + g) % RxDescs
    /\ r.dma = (r.tail + g + Got(r)) % RxDescs
    /\ r.buf = {x \in RxIndex : RxPos(r, x) >= g}
    /\ r.owned = {x \in RxIndex : RxPos(r, x) >= g + Got(r)}

RxRing(r) == RxShape(r, Missing(r))

\* Where a poll is, and what there is to do for it.
PollInv ==
    /\ poll.pc # "idle" => sched
    /\ poll.pc \in {"idle", "status"} /\ Missing(rx) > 0 => "nomem" \in disturbed
    /\ poll.pc = "recv" => \/ rx.cnt > 0 /\ poll.quota > 0
                           \/ poll.got /\ Missing(rx) > 0
    /\ poll.pc = "recv" => Missing(rx) + poll.quota <= RxDescs \/ "nomem" \in disturbed
    /\ poll.pc = "replenish" => Missing(rx) > 0

\* Why a poll is due.
DueInv ==
    /\ oom => "nomem" \in disturbed
    /\ rx.ovf /\ poll.pc = "idle" => Got(rx) > 0 \/ "nomem" \in disturbed
    /\ sched /\ poll.pc = "idle" => Got(rx) > 0 \/ disturbed \cap {"nomem", "watchdog"} # {}
    /\ mask.rx /\ sched => disturbed \cap {"nomem", "watchdog"} # {}

\* Whether there are rings.
AllocInv ==
    /\ ~net.alloc => net.admin = "closed" \/ reset = "open"
    /\ ~net.alloc => ~sched \/ "watchdog" \in disturbed
    /\ net.admin # "up" => "close" \in disturbed
    /\ net.admin = "closed" \/ reset = "open" => ~net.alloc
    /\ ~(net.admin = "closed" /\ reset = "open")

RxInv == PollInv /\ DueInv /\ AllocInv

\* A poll takes no more packets than the ring has slots (64 and 252 as built).
BudgetFits == Weight <= RxDescs


-----------------------------------------------------------------------------
(* Arithmetic on a ring of n.                                              *)

LEMMA ModStays == ASSUME NEW n \in Nat \ {0}, NEW x \in 0 .. n - 1 PROVE x % n = x
OBVIOUS

LEMMA ModDown == ASSUME NEW n \in Nat \ {0}, NEW x \in n .. 2 * n - 1 PROVE x % n = x - n
OBVIOUS

LEMMA ModUp == ASSUME NEW n \in Nat \ {0}, NEW x \in -n .. -1 PROVE x % n = x + n
OBVIOUS

LEMMA AheadIs ==
    ASSUME NEW n \in Nat \ {0}, NEW i \in 0 .. n - 1, NEW j \in 0 .. n - 1
    PROVE  ahead(i, j, n) = IF i <= j THEN j - i ELSE j - i + n
<1>1. CASE i <= j
  <2>1. j - i \in 0 .. n - 1
    BY <1>1
  <2> QED BY <1>1, <2>1, ModStays DEF ahead
<1>2. CASE j < i
  <2>1. j - i \in -n .. -1
    BY <1>2
  <2> QED BY <1>2, <2>1, ModUp DEF ahead
<1> QED BY <1>1, <1>2

\* k steps from i, up to a whole turn.
LEMMA StepsIs ==
    ASSUME NEW n \in Nat \ {0}, NEW i \in 0 .. n - 1, NEW k \in 0 .. n
    PROVE  (i + k) % n = IF i + k < n THEN i + k ELSE i + k - n
<1>1. CASE i + k < n
  <2>1. i + k \in 0 .. n - 1
    BY <1>1
  <2> QED BY <1>1, <2>1, ModStays
<1>2. CASE i + k >= n
  <2>1. i + k \in Int /\ n <= i + k /\ i + k <= 2 * n - 1
    BY <1>2
  <2>2. i + k \in n .. 2 * n - 1
    BY <2>1
  <2>3. (i + k) % n = i + k - n
    BY <2>2, ModDown
  <2> QED BY <1>2, <2>3
<1> QED BY <1>1, <1>2

LEMMA AheadIn ==
    ASSUME NEW n \in Nat \ {0}, NEW i \in 0 .. n - 1, NEW j \in 0 .. n - 1
    PROVE  ahead(i, j, n) \in 0 .. n - 1
BY AheadIs

LEMMA AheadSame ==
    ASSUME NEW n \in Nat \ {0}, NEW t \in 0 .. n - 1, NEW i \in 0 .. n - 1, NEW j \in 0 .. n - 1,
           ahead(t, i, n) = ahead(t, j, n)
    PROVE  i = j
BY AheadIs

LEMMA AheadStep ==
    ASSUME NEW n \in Nat \ {0}, NEW t \in 0 .. n - 1, NEW i \in 0 .. n - 1, NEW k \in Nat,
           ahead(t, i, n) + k < n
    PROVE  /\ (i + k) % n \in 0 .. n - 1
           /\ ahead(t, (i + k) % n, n) = ahead(t, i, n) + k
<1>1. ahead(t, i, n) = IF t <= i THEN i - t ELSE i - t + n
  BY AheadIs
<1>2. ahead(t, i, n) \in Nat /\ k \in 0 .. n
  BY <1>1
<1>3. (i + k) % n = IF i + k < n THEN i + k ELSE i + k - n
  BY <1>2, StepsIs
<1>4. (i + k) % n \in 0 .. n - 1
  BY <1>2, <1>3
<1>5. ahead(t, (i + k) % n, n) =
        IF t <= (i + k) % n THEN ((i + k) % n) - t ELSE ((i + k) % n) - t + n
  BY <1>4, AheadIs
<1> QED BY <1>1, <1>3, <1>4, <1>5

LEMMA AheadAt ==
    ASSUME NEW n \in Nat \ {0}, NEW t \in 0 .. n - 1, NEW k \in 0 .. n - 1
    PROVE  /\ (t + k) % n \in 0 .. n - 1
           /\ ahead(t, (t + k) % n, n) = k
<1>1. ahead(t, t, n) = 0
  BY AheadIs
<1> QED BY <1>1, AheadStep

\* Distances from a point k further on.
LEMMA AheadMoved ==
    ASSUME NEW n \in Nat \ {0}, NEW t \in 0 .. n - 1, NEW i \in 0 .. n - 1, NEW k \in 0 .. n
    PROVE  /\ (t + k) % n \in 0 .. n - 1
           /\ ahead((t + k) % n, i, n) = IF k <= ahead(t, i, n) THEN ahead(t, i, n) - k
                                         ELSE ahead(t, i, n) - k + n
<1>1. ahead(t, i, n) = IF t <= i THEN i - t ELSE i - t + n
  BY AheadIs
<1>2. (t + k) % n = IF t + k < n THEN t + k ELSE t + k - n
  BY StepsIs
<1> DEFINE u == (t + k) % n
<1>3. u \in 0 .. n - 1 /\ u = IF t + k < n THEN t + k ELSE t + k - n
  BY <1>2
<1> HIDE DEF u
<1>4. ahead(u, i, n) = IF u <= i THEN i - u ELSE i - u + n
  BY <1>3, AheadIs
<1>5. ahead(u, i, n) = IF k <= ahead(t, i, n) THEN ahead(t, i, n) - k
                       ELSE ahead(t, i, n) - k + n
  BY <1>1, <1>3, <1>4
<1> QED BY <1>3, <1>5 DEF u

LEMMA AheadBetween ==
    ASSUME NEW n \in Nat \ {0}, NEW t \in 0 .. n - 1, NEW i \in 0 .. n - 1, NEW j \in 0 .. n - 1,
           ahead(t, i, n) <= ahead(t, j, n)
    PROVE  ahead(i, j, n) = ahead(t, j, n) - ahead(t, i, n)
BY AheadIs

-----------------------------------------------------------------------------
(* The transmit ring.                                                      *)

LEMMA TxPosIn ==
    ASSUME NEW t \in TxState, NEW i \in TxIndex
    PROVE  TxPos(t, i) \in 0 .. TxDescs - 1
<1>1. t.tail \in TxIndex
  BY DEF TxState
<1> QED BY <1>1, Sizes, AheadIn DEF TxPos, TxIndex

LEMMA TxPosSame ==
    ASSUME NEW t \in TxState, NEW i \in TxIndex, NEW j \in TxIndex, TxPos(t, i) = TxPos(t, j)
    PROVE  i = j
<1>1. t.tail \in TxIndex
  BY DEF TxState
<1> QED BY <1>1, Sizes, AheadSame DEF TxPos, TxIndex

LEMMA TxPosStep ==
    ASSUME NEW t \in TxState, NEW i \in TxIndex, NEW k \in Nat, TxPos(t, i) + k < TxDescs
    PROVE  (i + k) % TxDescs \in TxIndex /\ TxPos(t, (i + k) % TxDescs) = TxPos(t, i) + k
<1>1. t.tail \in TxIndex
  BY DEF TxState
<1> QED BY <1>1, Sizes, AheadStep DEF TxPos, TxIndex

LEMMA StartsType ==
    ASSUME NEW t \in TxState, NEW i \in starts(t)
    PROVE  i \in TxIndex /\ t.buf[i] \in 1 .. PktDescs
BY Sizes DEF starts, TxState

\* Where ag7100_tx_reap stops: not past the head, not past what the engine has, and
\* not inside a packet.
LEMMA ReapStops ==
    ASSUME NEW t \in TxState, TxRing(t), NEW n, n = reaped(t, t.head, t.tail)
    PROVE  /\ n \in TxIndex
           /\ n <= TxPos(t, t.head) /\ n <= TxPos(t, t.dma)
           /\ \A i \in starts(t) : TxPos(t, i) < n => TxPos(t, i) + t.buf[i] <= n
<1> DEFINE stop == {ahead(t.tail, i, TxDescs) : i \in {s \in starts(t) : unsent(t, s)}}
                   \cup {ahead(t.tail, t.head, TxDescs)}
           H == TxPos(t, t.head)
           M == TxPos(t, t.dma)
<1>1. t.head \in TxIndex /\ t.tail \in TxIndex /\ t.dma \in TxIndex
      /\ t.buf \in [TxIndex -> 0 .. PktDescs]
  BY DEF TxState
<1>2. n \in TxIndex
  BY <1>1, ReapedType
<1>3. n \in stop /\ \A m \in stop : n <= m
  <2>1. stop \subseteq 0 .. TxDescs - 1 /\ stop # {}
    BY <1>1, TxPosIn DEF starts, TxPos
  <2>2. stop \in SUBSET Nat
    BY <2>1, Sizes
  <2>3. n = CHOOSE x \in stop : \A m \in stop : x <= m
    BY DEF reaped
  <2> HIDE DEF stop
  <2>4. \E x \in stop : \A m \in stop : x <= m
    BY <2>1, <2>2, Least
  <2> QED BY <2>3, <2>4
<1>4. n <= H
  BY <1>3 DEF TxPos
<1>5. H \in 0 .. TxDescs - 1 /\ M \in 0 .. TxDescs - 1 /\ M <= H
  BY <1>1, TxPosIn DEF TxRing
<1>6. ASSUME NEW i \in starts(t), unsent(t, i) PROVE n <= TxPos(t, i)
  BY <1>3, <1>6 DEF TxPos
<1>7. n = H \/ \E j \in starts(t) : n = TxPos(t, j)
  BY <1>3 DEF TxPos
<1> HIDE DEF stop
<1>8. n <= M
  <2>1. CASE M = H
    BY <1>4, <2>1
  <2>2. CASE M < H
    <3>1. PICK i \in starts(t) : InPacket(t, i, t.dma)
      BY <1>1, <2>2 DEF TxRing
    <3>2. i \in TxIndex /\ t.buf[i] \in 1 .. PktDescs
      BY StartsType
    <3>3. TxPos(t, i) + t.buf[i] <= H
      BY DEF TxRing
    <3>4. TxPos(t, i) \in 0 .. TxDescs - 1
      BY <3>2, TxPosIn
    <3> DEFINE k == t.buf[i] - 1
    <3>5. k \in Nat /\ TxPos(t, i) + k < TxDescs /\ i + t.buf[i] - 1 = i + k
      BY <1>5, <3>2, <3>3, <3>4, Sizes DEF TxIndex
    <3>6. M <= TxPos(t, i) + k /\ TxPos(t, i) + k < H
      BY <1>5, <3>1, <3>2, <3>3, <3>4, Sizes DEF InPacket
    <3>7. last_ds(t, i) = (i + k) % TxDescs
      BY <3>5 DEF last_ds
    <3> HIDE DEF k
    <3>8. last_ds(t, i) \in TxIndex /\ TxPos(t, last_ds(t, i)) = TxPos(t, i) + k
      BY <3>2, <3>5, <3>7, TxPosStep
    <3>9. last_ds(t, i) \in t.owned
      BY <3>6, <3>8 DEF TxRing
    <3>10. n <= TxPos(t, i)
      BY <1>6, <3>9 DEF unsent
    <3>11. TxPos(t, i) <= M
      BY <3>1 DEF InPacket
    <3>12. n \in Int
      BY <1>2, Sizes DEF TxIndex
    <3> HIDE DEF M
    <3> QED BY <1>5, <3>4, <3>10, <3>11, <3>12
  <2> QED BY <1>5, <2>1, <2>2
<1>9. ASSUME NEW i \in starts(t), TxPos(t, i) < n PROVE TxPos(t, i) + t.buf[i] <= n
  BY <1>7, <1>9 DEF TxRing
<1> QED BY <1>2, <1>4, <1>8, <1>9

\* ag7100_tx_reap takes whole packets off the row.
LEMMA ReapRing ==
    ASSUME NEW t \in TxState, TxRing(t)
    PROVE  LET a == after_reap(t, t.head, t.tail)
           IN  TxRing(a) /\ TxPos(a, a.head) <= TxPos(t, t.head)
<1> DEFINE n == reaped(t, t.head, t.tail)
           a == after_reap(t, t.head, t.tail)
           H == TxPos(t, t.head)
           M == TxPos(t, t.dma)
<1>1. /\ n \in TxIndex /\ n <= H /\ n <= M
      /\ \A i \in starts(t) : TxPos(t, i) < n => TxPos(t, i) + t.buf[i] <= n
  BY ReapStops
<1>2. /\ a.tail = (t.tail + n) % TxDescs /\ a.head = t.head /\ a.dma = t.dma
      /\ a.owned = t.owned
      /\ a.buf = [i \in TxIndex |-> IF TxPos(t, i) < n THEN 0 ELSE t.buf[i]]
  BY <1>1 DEF after_reap, TxState, TxPos
<1>3. t.head \in TxIndex /\ t.tail \in TxIndex /\ t.dma \in TxIndex
  BY DEF TxState
<1> HIDE DEF a, n
<1>4. ASSUME NEW i \in TxIndex
      PROVE  TxPos(a, i) = IF n <= TxPos(t, i) THEN TxPos(t, i) - n
                           ELSE TxPos(t, i) - n + TxDescs
  <2>1. n \in 0 .. TxDescs /\ i \in 0 .. TxDescs - 1 /\ t.tail \in 0 .. TxDescs - 1
        /\ TxDescs \in Nat \ {0}
    BY <1>1, <1>3, Sizes DEF TxIndex
  <2>2. ahead((t.tail + n) % TxDescs, i, TxDescs) =
          IF n <= ahead(t.tail, i, TxDescs) THEN ahead(t.tail, i, TxDescs) - n
          ELSE ahead(t.tail, i, TxDescs) - n + TxDescs
    BY <2>1, AheadMoved
  <2> QED BY <1>2, <2>2 DEF TxPos
<1>5. \A i \in TxIndex : TxPos(t, i) \in 0 .. TxDescs - 1
  BY TxPosIn
<1>6. n \in Int /\ H \in 0 .. TxDescs - 1 /\ M \in 0 .. TxDescs - 1
  BY <1>1, <1>3, <1>5, Sizes DEF TxIndex
<1>7. TxPos(a, a.head) = H - n /\ TxPos(a, a.dma) = M - n
  BY <1>1, <1>2, <1>3, <1>4, <1>6
<1>8. ASSUME NEW i \in starts(a)
      PROVE  /\ i \in starts(t) /\ i \in TxIndex /\ a.buf[i] = t.buf[i] /\ n <= TxPos(t, i)
             /\ TxPos(a, i) = TxPos(t, i) - n
  <2>1. i \in TxIndex /\ a.buf[i] # 0
    BY <1>8 DEF starts
  <2>2. ~(TxPos(t, i) < n) /\ a.buf[i] = t.buf[i]
    BY <1>2, <2>1
  <2>3. n <= TxPos(t, i)
    BY <1>5, <1>6, <2>1, <2>2
  <2> QED BY <1>4, <2>1, <2>2, <2>3 DEF starts
<1>9. ASSUME NEW i \in starts(t), n <= TxPos(t, i)
      PROVE  i \in starts(a)
  <2>1. i \in TxIndex /\ t.buf[i] # 0
    BY DEF starts
  <2>2. ~(TxPos(t, i) < n)
    BY <1>5, <1>6, <1>9, <2>1
  <2> QED BY <1>2, <2>1, <2>2 DEF starts
<1>10. \A i \in starts(t) : t.buf[i] \in Nat
  BY StartsType, Sizes
<1>11. \A i \in starts(a) : TxPos(a, i) + a.buf[i] <= TxPos(a, a.head)
  <2> SUFFICES ASSUME NEW i \in starts(a) PROVE TxPos(a, i) + a.buf[i] <= H - n
    BY <1>7
  <2>1. TxPos(t, i) + t.buf[i] <= H
    BY <1>8 DEF TxRing
  <2> QED BY <1>5, <1>6, <1>8, <1>10, <2>1
<1>12. \A i, j \in starts(a) :
           TxPos(a, i) < TxPos(a, j) => TxPos(a, i) + a.buf[i] <= TxPos(a, j)
  <2> SUFFICES ASSUME NEW i \in starts(a), NEW j \in starts(a), TxPos(a, i) < TxPos(a, j)
               PROVE  TxPos(a, i) + a.buf[i] <= TxPos(a, j)
    OBVIOUS
  <2>1. TxPos(t, i) < TxPos(t, j)
    BY <1>5, <1>6, <1>8
  <2>2. TxPos(t, i) + t.buf[i] <= TxPos(t, j)
    BY <1>8, <2>1 DEF TxRing
  <2> QED BY <1>5, <1>6, <1>8, <1>10, <2>2
<1>13. ASSUME NEW x \in TxIndex, TxPos(a, x) < H - n
       PROVE  n <= TxPos(t, x) /\ TxPos(t, x) < H /\ TxPos(a, x) = TxPos(t, x) - n
  BY <1>4, <1>5, <1>6, <1>13, Sizes
<1>14. \A x \in TxIndex :
           TxPos(a, x) < TxPos(a, a.head) => \E i \in starts(a) : InPacket(a, i, x)
  <2> SUFFICES ASSUME NEW x \in TxIndex, TxPos(a, x) < H - n
               PROVE  \E i \in starts(a) : InPacket(a, i, x)
    BY <1>7
  <2>1. n <= TxPos(t, x) /\ TxPos(t, x) < H /\ TxPos(a, x) = TxPos(t, x) - n
    BY <1>13
  <2>2. PICK i \in starts(t) : InPacket(t, i, x)
    BY <2>1 DEF TxRing
  <2>3. TxPos(t, i) <= TxPos(t, x) /\ TxPos(t, x) < TxPos(t, i) + t.buf[i]
    BY <2>2 DEF InPacket
  <2>4. i \in TxIndex /\ t.buf[i] \in Nat /\ TxPos(t, i) \in Int /\ TxPos(t, x) \in Int
    BY <1>5, <1>10, StartsType
  <2>5. n <= TxPos(t, i)
    BY <1>1, <1>6, <2>1, <2>3, <2>4
  <2>6. i \in starts(a)
    BY <1>9, <2>5
  <2>7. a.buf[i] = t.buf[i] /\ TxPos(a, i) = TxPos(t, i) - n
    BY <1>8, <2>6
  <2>8. InPacket(a, i, x)
    BY <1>6, <2>1, <2>3, <2>4, <2>7 DEF InPacket
  <2> QED BY <2>6, <2>8
<1>15. a.owned = {x \in TxIndex : TxPos(a, a.dma) <= TxPos(a, x)
                                  /\ TxPos(a, x) < TxPos(a, a.head)}
  <2>1. t.owned = {x \in TxIndex : M <= TxPos(t, x) /\ TxPos(t, x) < H}
    BY DEF TxRing
  <2>2. ASSUME NEW x \in TxIndex
        PROVE  M <= TxPos(t, x) /\ TxPos(t, x) < H
                   <=> M - n <= TxPos(a, x) /\ TxPos(a, x) < H - n
    <3>1. TxPos(t, x) \in 0 .. TxDescs - 1
      BY <1>5
    <3> HIDE DEF M, H
    <3> QED BY <1>1, <1>4, <1>6, <3>1, Sizes
  <2> HIDE DEF M, H
  <2> QED BY <1>2, <1>7, <2>1, <2>2
<1>16. M <= H
  BY DEF TxRing
<1>17. TxPos(a, a.dma) <= TxPos(a, a.head) /\ TxPos(a, a.head) <= H
  <2>1. n >= 0
    BY <1>1, Sizes DEF TxIndex
  <2> HIDE DEF M, H
  <2> QED BY <1>6, <1>7, <1>16, <2>1
<1> QED BY <1>11, <1>12, <1>14, <1>15, <1>17 DEF TxRing, a

\* assert(bf->buf_pkt) of ag7100_tx_reap.
LEMMA ReapAsserts ==
    ASSUME NEW t \in TxState, TxRing(t) PROVE reap_asserts(t, t.head, t.tail)
<1> SUFFICES ASSUME t.tail # t.head PROVE t.buf[t.tail] # 0
  BY DEF reap_asserts
<1>1. t.head \in TxIndex /\ t.tail \in TxIndex
  BY DEF TxState
<1>2. TxPos(t, t.tail) = 0 /\ TxPos(t, t.head) > 0
  BY <1>1, Sizes, AheadIs DEF TxPos, TxIndex
<1>3. PICK i \in starts(t) : InPacket(t, i, t.tail)
  BY <1>1, <1>2 DEF TxRing
<1>4. i \in TxIndex /\ TxPos(t, i) \in 0 .. TxDescs - 1
  BY StartsType, TxPosIn
<1>5. TxPos(t, i) = 0
  BY <1>2, <1>3, <1>4 DEF InPacket
<1>6. i = t.tail
  BY <1>1, <1>2, <1>4, <1>5, TxPosSame
<1> QED BY <1>6 DEF starts

\* The descriptors XmitFill fills are the ones from the head on.
LEMMA FillSet ==
    ASSUME NEW t \in TxState, NEW k \in Nat, TxPos(t, t.head) + k < TxDescs, NEW x \in TxIndex
    PROVE  x \in {(t.head + i) % TxDescs : i \in 0 .. k - 1}
               <=> TxPos(t, t.head) <= TxPos(t, x) /\ TxPos(t, x) < TxPos(t, t.head) + k
<1> DEFINE H == TxPos(t, t.head)
<1>1. t.head \in TxIndex
  BY DEF TxState
<1>2. H \in Nat /\ TxPos(t, x) \in Nat /\ H + k < TxDescs
  BY <1>1, TxPosIn, Sizes
<1>3. ASSUME NEW i \in 0 .. k - 1
      PROVE  (t.head + i) % TxDescs \in TxIndex /\ TxPos(t, (t.head + i) % TxDescs) = H + i
  <2>1. i \in Nat /\ H + i < TxDescs
    BY <1>2, Sizes
  <2> QED BY <1>1, <2>1, TxPosStep
<1>4. ASSUME NEW i \in 0 .. k - 1, x = (t.head + i) % TxDescs
      PROVE  H <= TxPos(t, x) /\ TxPos(t, x) < H + k
  BY <1>2, <1>3, <1>4
<1>5. ASSUME H <= TxPos(t, x), TxPos(t, x) < H + k
      PROVE  \E i \in 0 .. k - 1 : x = (t.head + i) % TxDescs
  <2> DEFINE i == TxPos(t, x) - H
  <2>1. i \in 0 .. k - 1 /\ H + i = TxPos(t, x)
    BY <1>2, <1>5
  <2> HIDE DEF i
  <2>2. x = (t.head + i) % TxDescs
    BY <1>3, <2>1, TxPosSame
  <2> QED BY <2>1, <2>2
<1> QED BY <1>4, <1>5

\* A packet is put at the end of the row, where there is room for it.
LEMMA FillRing ==
    ASSUME NEW t \in TxState, TxRing(t), NEW k \in 1 .. PktDescs,
           TxPos(t, t.head) + k < TxDescs,
           NEW D, D = {(t.head + i) % TxDescs : i \in 0 .. k - 1},
           NEW a, a \in TxState, a.tail = t.tail, a.dma = t.dma, a.owned = t.owned \cup D,
           a.head = (t.head + k) % TxDescs, a.buf = [t.buf EXCEPT ![t.head] = k]
    PROVE  D \cap t.owned = {} /\ TxRing(a) /\ TxPos(a, a.head) = TxPos(t, t.head) + k
<1> DEFINE H == TxPos(t, t.head)
           M == TxPos(t, t.dma)
<1>1. t.head \in TxIndex /\ t.dma \in TxIndex /\ t.owned \subseteq TxIndex
      /\ t.buf \in [TxIndex -> 0 .. PktDescs]
  BY DEF TxState
<1>2. \A i : TxPos(a, i) = TxPos(t, i)
  BY DEF TxPos
<1>3. \A i \in TxIndex : TxPos(t, i) \in 0 .. TxDescs - 1
  BY TxPosIn
<1>4. k \in Nat /\ k >= 1 /\ H \in 0 .. TxDescs - 1 /\ M \in 0 .. TxDescs - 1 /\ M <= H
  BY <1>1, <1>3, Sizes DEF TxRing
<1>5. \A x \in TxIndex : x \in D <=> H <= TxPos(t, x) /\ TxPos(t, x) < H + k
  BY <1>4, FillSet
<1>6. TxPos(a, a.head) = H + k
  BY <1>1, <1>2, <1>4, TxPosStep
<1>7. TxPos(a, a.dma) = M
  BY <1>2
<1>8. t.owned = {x \in TxIndex : M <= TxPos(t, x) /\ TxPos(t, x) < H}
  BY DEF TxRing
<1>9. D \subseteq TxIndex
  <2>1. t.head \in Int
    BY <1>1, Sizes DEF TxIndex
  <2>2. ASSUME NEW i \in Int PROVE (t.head + i) % TxDescs \in TxIndex
    <3>1. t.head + i \in Int
      BY <2>1
    <3> QED BY <3>1, TxWraps
  <2> QED BY <2>2
<1>10. ASSUME NEW i \in starts(t)
       PROVE  /\ i \in TxIndex /\ t.buf[i] \in Nat /\ t.buf[i] >= 1
              /\ TxPos(t, i) + t.buf[i] <= H /\ i # t.head /\ a.buf[i] = t.buf[i]
  <2>1. i \in TxIndex /\ t.buf[i] \in Nat /\ t.buf[i] >= 1
    BY StartsType, Sizes
  <2>2. TxPos(t, i) + t.buf[i] <= H
    BY DEF TxRing
  <2>3. i # t.head
    BY <1>3, <1>4, <2>1, <2>2
  <2> QED BY <1>1, <2>1, <2>2, <2>3
<1>11. a.buf[t.head] = k /\ t.head \in starts(a)
  BY <1>1, <1>4 DEF starts
<1>12. starts(a) = starts(t) \cup {t.head}
  <2>1. ASSUME NEW i \in TxIndex, i # t.head PROVE a.buf[i] = t.buf[i]
    BY <1>1, <2>1
  <2> QED BY <1>1, <1>11, <2>1 DEF starts
<1> HIDE DEF M, H
<1>13. \A i \in starts(a) : TxPos(a, i) + a.buf[i] <= TxPos(a, a.head)
  <2> SUFFICES ASSUME NEW i \in starts(a) PROVE TxPos(t, i) + a.buf[i] <= H + k
    BY <1>2, <1>6
  <2>1. CASE i = t.head
    BY <1>4, <1>11, <2>1 DEF H
  <2>2. CASE i \in starts(t)
    BY <1>3, <1>4, <1>10, <2>2
  <2> QED BY <1>12, <2>1, <2>2
<1>14. \A i, j \in starts(a) :
           TxPos(a, i) < TxPos(a, j) => TxPos(a, i) + a.buf[i] <= TxPos(a, j)
  <2> SUFFICES ASSUME NEW i \in starts(a), NEW j \in starts(a), TxPos(t, i) < TxPos(t, j)
               PROVE  TxPos(t, i) + a.buf[i] <= TxPos(t, j)
    BY <1>2
  <2>1. CASE i = t.head
    <3>1. j # t.head
      BY <1>4, <2>1 DEF H
    <3>2. j \in starts(t)
      BY <1>12, <3>1
    <3> QED BY <1>3, <1>4, <1>10, <2>1, <3>2 DEF H
  <2>2. CASE i \in starts(t) /\ j = t.head
    BY <1>10, <2>2 DEF H
  <2>3. CASE i \in starts(t) /\ j \in starts(t)
    BY <1>10, <2>3 DEF TxRing
  <2> QED BY <1>12, <2>1, <2>2, <2>3
<1>15. \A x \in TxIndex :
           TxPos(a, x) < TxPos(a, a.head) => \E i \in starts(a) : InPacket(a, i, x)
  <2> SUFFICES ASSUME NEW x \in TxIndex, TxPos(t, x) < H + k
               PROVE  \E i \in starts(a) : InPacket(a, i, x)
    BY <1>2, <1>6
  <2>1. CASE TxPos(t, x) < H
    <3>1. PICK i \in starts(t) : InPacket(t, i, x)
      BY <2>1 DEF TxRing, H
    <3>2. InPacket(a, i, x)
      BY <1>2, <1>10, <3>1 DEF InPacket
    <3> QED BY <1>12, <3>2
  <2>2. CASE H <= TxPos(t, x)
    <3>1. InPacket(a, t.head, x)
      BY <1>2, <1>11, <2>2 DEF InPacket, H
    <3> QED BY <1>11, <3>1
  <2> QED BY <1>3, <1>4, <2>1, <2>2
<1>16. D \cap t.owned = {}
  BY <1>3, <1>4, <1>5, <1>8
<1>17. a.owned = {x \in TxIndex : M <= TxPos(t, x) /\ TxPos(t, x) < H + k}
  BY <1>3, <1>4, <1>5, <1>8, <1>9
<1>18. M <= H + k
  BY <1>4
<1> QED BY <1>2, <1>6, <1>7, <1>13, <1>14, <1>15, <1>16, <1>17, <1>18 DEF TxRing, H

\* The engine goes on by one descriptor.
LEMMA DmaRing ==
    ASSUME NEW t \in TxState, TxRing(t), t.dma \in t.owned,
           NEW a, a.tail = t.tail, a.head = t.head, a.buf = t.buf,
           a.dma = (t.dma + 1) % TxDescs, a.owned = t.owned \ {t.dma}
    PROVE  TxRing(a) /\ TxPos(a, a.head) = TxPos(t, t.head)
<1> DEFINE H == TxPos(t, t.head)
           M == TxPos(t, t.dma)
<1>1. \A i : TxPos(a, i) = TxPos(t, i)
  BY DEF TxPos
<1>2. t.head \in TxIndex /\ t.dma \in TxIndex
  BY DEF TxState
<1>3. \A i \in TxIndex : TxPos(t, i) \in 0 .. TxDescs - 1
  BY TxPosIn
<1>4. H \in 0 .. TxDescs - 1 /\ M \in 0 .. TxDescs - 1 /\ M < H
  BY <1>2, <1>3 DEF TxRing
<1>5. TxPos(a, a.dma) = M + 1
  <2>1. TxPos(t, t.dma) + 1 < TxDescs
    BY <1>4, Sizes
  <2>2. TxPos(t, (t.dma + 1) % TxDescs) = TxPos(t, t.dma) + 1
    BY <1>2, <2>1, TxPosStep
  <2> QED BY <1>1, <2>2
<1>6. starts(a) = starts(t)
  BY DEF starts
<1>7. \A i, x : InPacket(a, i, x) <=> InPacket(t, i, x)
  BY <1>1 DEF InPacket
<1>8. t.owned = {x \in TxIndex : M <= TxPos(t, x) /\ TxPos(t, x) < H}
  BY DEF TxRing
<1>9. \A x \in TxIndex : TxPos(t, x) = M => x = t.dma
  BY <1>2, TxPosSame
<1> HIDE DEF M, H
<1>10. ASSUME NEW x \in TxIndex
       PROVE  M <= TxPos(t, x) /\ x # t.dma <=> M + 1 <= TxPos(t, x)
  <2>1. x = t.dma <=> TxPos(t, x) = M
    BY <1>9 DEF M
  <2>2. TxPos(t, x) \in 0 .. TxDescs - 1
    BY <1>3
  <2> QED BY <1>4, <2>1, <2>2
<1>11. a.owned = {x \in TxIndex : M + 1 <= TxPos(t, x) /\ TxPos(t, x) < H}
  BY <1>8, <1>10
<1>12. M + 1 <= H
  BY <1>4
<1> QED BY <1>1, <1>5, <1>6, <1>7, <1>11, <1>12 DEF TxRing, H

LEMMA NewRing ==
    ASSUME NEW a, a.tail = 0, a.head = 0, a.dma = 0, a.owned = {}, a.buf = [i \in TxIndex |-> 0]
    PROVE  TxRing(a) /\ TxPos(a, a.head) = 0
<1>1. TxPos(a, 0) = 0
  <2>1. ahead(0, 0, TxDescs) = 0 - 0
    BY Sizes, AheadIs DEF TxIndex
  <2> QED BY <2>1 DEF TxPos
<1>2. starts(a) = {}
  BY DEF starts
<1>3. \A x \in TxIndex : TxPos(a, x) \in 0 .. TxDescs - 1
  BY Sizes, AheadIn DEF TxPos, TxIndex
<1> QED BY <1>1, <1>2, <1>3, Sizes DEF TxRing

LEMMA SameRing ==
    ASSUME NEW t, NEW a, a.tail = t.tail, a.head = t.head, a.buf = t.buf, a.dma = t.dma,
           a.owned = t.owned
    PROVE  (TxRing(a) <=> TxRing(t)) /\ TxPos(a, a.head) = TxPos(t, t.head)
BY DEF TxRing, TxPos, InPacket, starts

LEMMA UnusedIs ==
    ASSUME NEW t \in TxState
    PROVE  ag7100_ndesc_unused(t.head, t.tail) = TxDescs - TxPos(t, t.head)
<1>1. t.head \in TxIndex /\ t.tail \in TxIndex
  BY DEF TxState
<1>2. TxPos(t, t.head) = IF t.tail <= t.head THEN t.head - t.tail
                         ELSE t.head - t.tail + TxDescs
  BY <1>1, Sizes, AheadIs DEF TxPos, TxIndex
<1> QED BY <1>1, <1>2, Sizes DEF ag7100_ndesc_unused, TxIndex

LEMMA QueueRunsKept == ASSUME Typed, QueueRuns, [Next]_vars PROVE QueueRuns'
<1>1. ASSUME UNCHANGED <<xmit, net>> PROVE QueueRuns'
  BY <1>1 DEF QueueRuns
<1>2. ASSUME NEW what, BUG(what) PROVE QueueRuns'
  BY <1>1, <1>2 DEF BUG
<1>3. CASE UNCHANGED vars
  BY <1>1, <1>3 DEF vars
<1>4. ASSUME NEW len \in Lens, HardStart(len) PROVE QueueRuns'
  BY <1>4 DEF HardStart, QueueRuns
<1>5. CASE XmitReap
  <2>1. xmit.pc # "idle"
    BY <1>5 DEF XmitReap
  <2> QED BY <1>2, <1>5, <2>1 DEF XmitReap, QueueRuns
<1>6. CASE XmitFill
  <2>1. xmit.pc # "idle"
    BY <1>6 DEF XmitFill
  <2>2. net' = net
    BY <1>6 DEF XmitFill, BUG
  <2> QED BY <2>1, <2>2 DEF QueueRuns
<1>7. ASSUME xmit'.pc = "idle" PROVE QueueRuns'
  BY <1>7 DEF QueueRuns
<1>8. CASE XmitKick
  BY <1>7, <1>8 DEF XmitKick, NoXmit
<1>9. CASE TxDma \/ TxUnderrun \/ RxDma \/ RxMissed
  BY <1>1, <1>9 DEF TxDma, TxUnderrun, RxDma, RxMissed
<1>10. CASE ag7100_intr
  <2>1. \/ UNCHANGED net
        \/ \E w \in BOOLEAN : net' = [net EXCEPT !.stopped = @ /\ ~w]
    BY <1>10 DEF ag7100_intr, BUG, isr_tx
  <2>2. xmit' = xmit
    BY <1>10 DEF ag7100_intr, BUG
  <2>3. net'.stopped => net.stopped
    BY <2>1 DEF Typed, NetState
  <2> QED BY <2>2, <2>3 DEF QueueRuns
<1>11. CASE PollStart \/ RecvPacket \/ RecvEnd \/ PollAgain \/ PollOom \/ PollEnd
  BY <1>1, <1>2, <1>11 DEF PollStart, RecvPacket, RecvEnd, PollAgain, PollOom, PollEnd
<1>12. CASE PollReplenish
  BY <1>1, <1>2, <1>12 DEF PollReplenish
<1>13. CASE ag7100_oom_timer
  BY <1>1, <1>2, <1>13 DEF ag7100_oom_timer
<1>14. CASE Cable
  BY <1>1, <1>14 DEF Cable
<1>15. CASE CheckLink \/ BeginClose \/ EndClose \/ Open \/ ag7100_tx_timeout \/ ResetStop
            \/ ResetOpen
  <2>1. BhIdle /\ xmit' = xmit
    BY <1>15 DEF CheckLink, BeginClose, EndClose, Open, ag7100_tx_timeout, ResetStop,
                 ResetOpen, BUG
  <2> QED BY <1>7, <2>1 DEF BhIdle
<1> QED BY <1>3, <1>4, <1>5, <1>6, <1>8, <1>9, <1>10, <1>11, <1>12, <1>13, <1>14, <1>15
        DEF Next, Xmit, Poll, Process, Halted

\* While ag7100_hard_start runs the transmit interrupt is off.
LEMMA IntrOff ==
    ASSUME Typed, TxLockless, QueueRuns, "cable" \notin disturbed, xmit.pc # "idle"
    PROVE  ~mask.tx
BY DEF TxLockless, QueueRuns

LEMMA XmitWhole ==
    ASSUME Typed, Typed', TxLockless, QueueRuns, "cable" \notin disturbed, Whole,
           (\E len \in Lens : HardStart(len)) \/ Xmit
    PROVE  Whole' /\ bug' = bug
<1> tx \in TxState /\ xmit \in XmitState /\ mask \in MaskState
  BY DEF Typed
<1>1. ASSUME NEW len \in Lens, HardStart(len) PROVE Whole' /\ bug' = bug
  <2>1. /\ xmit.pc = "idle" /\ UNCHANGED <<tx, mask, bug>>
        /\ xmit'.pc \in {"reap", "fill"} /\ xmit'.n = nds[len]
        /\ xmit'.head = tx.head /\ xmit'.tail = tx.tail
    BY <1>1 DEF HardStart
  <2>2. nds[len] >= 1
    BY Sizes
  <2> QED BY <2>1, <2>2 DEF Whole, Room, Read
<1>2. CASE XmitReap
  <2>1. xmit.pc = "reap" /\ xmit.head = tx.head /\ xmit.tail = tx.tail /\ xmit.n >= 1
    BY <1>2 DEF XmitReap, Whole, Read
  <2>2. reap_asserts(tx, xmit.head, xmit.tail)
    BY <2>1, ReapAsserts DEF Whole
  <2>3. /\ tx' = after_reap(tx, tx.head, tx.tail)
        /\ xmit'.pc = "fill" /\ xmit'.n = xmit.n
        /\ UNCHANGED <<mask, bug>>
    BY <1>2, <2>1, <2>2 DEF XmitReap, NoXmit
  <2>4. TxRing(tx') /\ TxPos(tx', tx'.head) <= TxPos(tx, tx.head)
    BY <2>3, ReapRing DEF Whole
  <2>5. ~mask.tx
    BY <2>1, IntrOff
  <2>6. TxPos(tx, tx.head) + PktDescs + 2 <= TxDescs
    BY <2>1, <2>5 DEF Whole, Room
  <2>7. TxPos(tx', tx'.head) \in Int /\ TxPos(tx, tx.head) \in Int
    <3>1. tx' \in TxState /\ tx.head \in TxIndex /\ tx'.head \in TxIndex
      BY DEF Typed, TxState
    <3> QED BY <3>1, TxPosIn
  <2>8. TxPos(tx', tx'.head) + PktDescs + 2 <= TxDescs
    BY <2>4, <2>6, <2>7, Sizes
  <2> QED BY <2>1, <2>3, <2>4, <2>8 DEF Whole, Room, Read
<1>3. CASE XmitFill
  <2> DEFINE D == {(tx.head + i) % TxDescs : i \in 0 .. xmit.n - 1}
             a == [tx EXCEPT !.buf[tx.head] = xmit.n, !.owned = @ \cup D,
                             !.head = (@ + xmit.n) % TxDescs]
  <2>1. xmit.pc = "fill" /\ xmit.n \in 1 .. PktDescs
    <3>1. xmit.pc = "fill"
      BY <1>3 DEF XmitFill
    <3>2. xmit.n >= 1 /\ xmit.n \in 0 .. PktDescs
      BY <3>1 DEF Whole, Read, XmitState
    <3> QED BY <3>1, <3>2, Sizes
  <2>2. ~mask.tx
    BY <2>1, IntrOff
  <2>3. TxPos(tx, tx.head) + xmit.n < TxDescs
    <3>1. TxPos(tx, tx.head) + PktDescs + 2 <= TxDescs
      BY <2>1, <2>2 DEF Whole, Room
    <3>2. TxPos(tx, tx.head) \in Int
      BY TxPosIn DEF TxState
    <3> QED BY <2>1, <3>1, <3>2, Sizes
  <2>4. /\ a.tail = tx.tail /\ a.dma = tx.dma /\ a.owned = tx.owned \cup D
        /\ a.head = (tx.head + xmit.n) % TxDescs /\ a.buf = [tx.buf EXCEPT ![tx.head] = xmit.n]
    BY DEF TxState
  <2>5. a \in TxState
    <3>1. tx.head \in TxIndex /\ tx.head \in Int
      BY Sizes DEF TxState, TxIndex
    <3>2. ASSUME NEW i \in Int PROVE (tx.head + i) % TxDescs \in TxIndex
      <4>1. tx.head + i \in Int
        BY <3>1
      <4> QED BY <4>1, TxWraps
    <3>3. D \subseteq TxIndex /\ (tx.head + xmit.n) % TxDescs \in TxIndex
      BY <2>1, <3>2
    <3>4. xmit.n \in 0 .. PktDescs
      BY <2>1
    <3> HIDE DEF D
    <3> QED BY <3>1, <3>3, <3>4 DEF TxState
  <2>6. XmitFill <=> /\ Alive /\ xmit.pc = "fill"
                     /\ IF D \cap tx.owned = {}
                        THEN /\ tx' = a
                             /\ xmit' = [NoXmit EXCEPT !.pc = "kick"]
                             /\ UNCHANGED <<rx, mask, net, phy, poll, sched, oom, reset, bug,
                                            disturbed>>
                        ELSE BUG("get_tx_ds: owned by DMA")
    BY DEF XmitFill
  <2> HIDE DEF a
  <2>7. D \cap tx.owned = {} /\ TxRing(a)
    BY <2>1, <2>3, <2>4, <2>5, FillRing DEF Whole
  <2>8. tx' = a /\ xmit'.pc = "kick" /\ bug' = bug
    BY <1>3, <2>6, <2>7 DEF NoXmit
  <2> QED BY <2>7, <2>8 DEF Whole, Room, Read
<1>4. CASE XmitKick
  <2>1. xmit.pc = "kick" /\ xmit'.pc = "idle" /\ tx' = [tx EXCEPT !.run = TRUE]
    BY <1>4 DEF XmitKick, NoXmit
  <2>2. TxRing(tx') /\ TxPos(tx', tx'.head) = TxPos(tx, tx.head)
    <3>1. /\ tx'.tail = tx.tail /\ tx'.head = tx.head /\ tx'.buf = tx.buf
          /\ tx'.dma = tx.dma /\ tx'.owned = tx.owned
      BY <2>1 DEF TxState
    <3> QED BY <3>1, SameRing DEF Whole
  <2>3. ~net.stopped
    BY <2>1 DEF QueueRuns
  <2>4. CASE ag7100_tx_ring_full(tx)
    <3>1. mask' = [mask EXCEPT !.tx = TRUE] /\ bug' = bug
      BY <1>4, <2>3, <2>4 DEF XmitKick, ag7100_handle_tx_full
    <3>2. mask'.tx
      BY <3>1 DEF MaskState
    <3> QED BY <2>1, <2>2, <3>1, <3>2 DEF Whole, Room, Read
  <2>5. CASE ~ag7100_tx_ring_full(tx)
    <3>1. bug' = bug
      BY <1>4, <2>5 DEF XmitKick
    <3>2. ~(TxDescs - TxPos(tx, tx.head) < PktDescs + 2)
      BY <2>5, UnusedIs DEF ag7100_tx_ring_full
    <3>3. TxPos(tx, tx.head) \in Int
      BY TxPosIn DEF TxState
    <3>4. TxPos(tx', tx'.head) + PktDescs + 2 <= TxDescs
      BY <2>2, <3>2, <3>3, Sizes
    <3> QED BY <2>1, <2>2, <3>1, <3>4 DEF Whole, Room, Read
  <2> QED BY <2>4, <2>5
<1> QED BY <1>1, <1>2, <1>3, <1>4 DEF Xmit

LEMMA DmaWhole ==
    ASSUME Typed, Whole, TxDma \/ TxUnderrun \/ RxDma \/ RxMissed PROVE Whole'
<1> tx \in TxState
  BY DEF Typed
<1>1. UNCHANGED <<mask, xmit>>
  BY DEF TxDma, TxUnderrun, RxDma, RxMissed
<1>2. TxRing(tx') /\ TxPos(tx', tx'.head) = TxPos(tx, tx.head)
      /\ tx'.head = tx.head /\ tx'.tail = tx.tail
  <2>1. CASE TxDma
    <3>1. PICK b : tx' = [tx EXCEPT !.owned = @ \ {tx.dma},
                                    !.dma = ag7100_ring_incr(@, TxDescs), !.sent = b]
      BY <2>1 DEF TxDma
    <3>2. /\ tx'.tail = tx.tail /\ tx'.head = tx.head /\ tx'.buf = tx.buf
          /\ tx'.dma = (tx.dma + 1) % TxDescs /\ tx'.owned = tx.owned \ {tx.dma}
      BY <3>1 DEF TxState, ag7100_ring_incr
    <3>3. tx.dma \in tx.owned
      BY <2>1 DEF TxDma
    <3> QED BY <3>2, <3>3, DmaRing DEF Whole
  <2>2. CASE TxUnderrun
    <3>1. tx' = [tx EXCEPT !.run = FALSE]
      BY <2>2 DEF TxUnderrun
    <3>2. /\ tx'.tail = tx.tail /\ tx'.head = tx.head /\ tx'.buf = tx.buf
          /\ tx'.dma = tx.dma /\ tx'.owned = tx.owned
      BY <3>1 DEF TxState
    <3> QED BY <3>2, SameRing DEF Whole
  <2>3. CASE RxDma \/ RxMissed
    BY <2>3 DEF RxDma, RxMissed, Whole
  <2> QED BY <2>1, <2>2, <2>3
<1> QED BY <1>1, <1>2 DEF Whole, Room, Read

LEMMA IntrWhole ==
    ASSUME Typed, Typed', TxLockless, QueueRuns, "cable" \notin disturbed, Whole, ag7100_intr
    PROVE  Whole' /\ (bug' = bug \/ BUG("intr: interrupt while in poll"))
<1> tx \in TxState /\ mask \in MaskState
  BY DEF Typed
<1> DEFINE m == IF isr_rx THEN ag7100_intr_disable_recv(mask) ELSE mask
           one == IF tx.sent > 1 THEN [tx EXCEPT !.sent = @ - 1] ELSE [tx EXCEPT !.sent = 0]
           t == IF isr_tx THEN after_reap(one, tx.head, tx.tail) ELSE tx
           wake == isr_tx /\ net.stopped /\ may_start(t.head, t.tail) /\ net.carrier
<1>1. one \in TxState /\ TxRing(one) /\ one.head = tx.head /\ one.tail = tx.tail
  <2>1. one \in TxState
    BY Sizes DEF TxState, SentMax
  <2>2. /\ one.tail = tx.tail /\ one.head = tx.head /\ one.buf = tx.buf
        /\ one.dma = tx.dma /\ one.owned = tx.owned
    BY DEF TxState
  <2> HIDE DEF one
  <2> QED BY <2>1, <2>2, SameRing DEF Whole
<1>2. t \in TxState /\ TxRing(t)
  <2> HIDE DEF one
  <2>1. tx.head \in TxIndex /\ tx.tail \in TxIndex
    BY DEF TxState
  <2>2. after_reap(one, tx.head, tx.tail) \in TxState
    BY <1>1, <2>1, ReapType
  <2>3. TxRing(after_reap(one, tx.head, tx.tail))
    BY <1>1, ReapRing
  <2> QED BY <2>2, <2>3 DEF Whole
<1>3. reap_asserts(tx, tx.head, tx.tail)
  BY ReapAsserts DEF Whole
<1>4. \/ BUG("intr: interrupt while in poll")
      \/ /\ tx' = t
         /\ mask' = IF wake THEN ag7100_intr_disable_tx(m) ELSE m
         /\ UNCHANGED <<xmit, bug>>
  BY <1>3 DEF ag7100_intr
<1>5. m.tx = mask.tx
  BY DEF ag7100_intr_disable_recv, MaskState
<1>6. ~isr_tx => t = tx
  OBVIOUS
<1> HIDE DEF m, one, t
<1>7. CASE BUG("intr: interrupt while in poll")
  BY <1>7 DEF BUG, Whole, Room, Read
<1>8. CASE /\ tx' = t
           /\ mask' = IF wake THEN ag7100_intr_disable_tx(m) ELSE m
           /\ UNCHANGED <<xmit, bug>>
  <2>1. CASE ~isr_tx
    BY <1>5, <1>6, <1>8, <2>1 DEF Whole, Room, Read
  <2>2. CASE isr_tx
    <3>1. mask.tx /\ xmit.pc = "idle"
      BY <2>2, IntrOff DEF isr_tx
    <3>2. CASE ~wake
      <4>1. mask'.tx
        BY <1>5, <1>8, <3>1, <3>2
      <4> QED BY <1>2, <1>8, <3>1, <4>1 DEF Whole, Room, Read
    <3>3. CASE wake
      <4>1. ag7100_ndesc_unused(t.head, t.tail) >= 4 * PktDescs
        BY <3>3 DEF may_start, AG7100_TX_QSTART_THRESH
      <4>2. TxPos(t, t.head) \in Int
        BY <1>2, TxPosIn DEF TxState
      <4>3. TxDescs - TxPos(t, t.head) >= 4 * PktDescs
        BY <1>2, <4>1, UnusedIs
      <4>4. TxPos(t, t.head) + PktDescs + 2 <= TxDescs
        BY <4>2, <4>3, Sizes
      <4> QED BY <1>2, <1>8, <3>1, <4>4 DEF Whole, Room, Read
    <3> QED BY <3>2, <3>3
  <2> QED BY <2>1, <2>2
<1> QED BY <1>4, <1>7, <1>8

LEMMA StopWhole ==
    ASSUME xmit.pc = "idle", xmit' = xmit, NEW n, ag7100_stop(n) \/ ag7100_open(n)
    PROVE  Whole'
<1>1. /\ tx'.tail = 0 /\ tx'.head = 0 /\ tx'.dma = 0 /\ tx'.owned = {}
      /\ tx'.buf = [i \in TxIndex |-> 0]
  BY DEF ag7100_stop, ag7100_open, NewTx
<1>2. TxRing(tx') /\ TxPos(tx', tx'.head) = 0
  BY <1>1, NewRing
<1>3. 0 + PktDescs + 2 <= TxDescs
  BY EthAssumption
<1> QED BY <1>2, <1>3 DEF Whole, Room, Read

\* The row of packets, the room before the tail and what ag7100_hard_start has read
\* survive every step, if the link has not started the queue of a full ring.
LEMMA WholeKept ==
    ASSUME Typed, TxLockless, QueueRuns, "cable" \notin disturbed, Whole, [Next]_vars
    PROVE  Whole'
<1>1. Typed'
  BY NextTyped
<1>2. ASSUME UNCHANGED <<tx, xmit>>, mask'.tx = mask.tx PROVE Whole'
  BY <1>2 DEF Whole, Room, Read
<1>3. ASSUME NEW what, BUG(what) PROVE Whole'
  BY <1>2, <1>3 DEF BUG
<1>4. CASE UNCHANGED vars
  BY <1>2, <1>4 DEF vars
<1>5. CASE (\E len \in Lens : HardStart(len)) \/ Xmit
  BY <1>1, <1>5, XmitWhole
<1>6. CASE TxDma \/ TxUnderrun \/ RxDma \/ RxMissed
  BY <1>6, DmaWhole
<1>7. CASE ag7100_intr
  BY <1>1, <1>7, IntrWhole
<1>8. CASE PollStart \/ RecvPacket \/ RecvEnd \/ PollAgain \/ PollOom
  BY <1>2, <1>3, <1>8 DEF PollStart, RecvPacket, RecvEnd, PollAgain, PollOom
<1>9. CASE PollReplenish
  BY <1>2, <1>3, <1>9 DEF PollReplenish
<1>10. CASE PollEnd
  <2>1. mask'.tx = mask.tx
    BY <1>10 DEF PollEnd, ag7100_intr_enable_recv, Typed, MaskState
  <2> QED BY <1>2, <1>10, <2>1 DEF PollEnd
<1>11. CASE ag7100_oom_timer
  BY <1>2, <1>3, <1>11 DEF ag7100_oom_timer
<1>12. CASE Cable \/ CheckLink \/ ag7100_tx_timeout \/ BeginClose
  BY <1>2, <1>12 DEF Cable, CheckLink, ag7100_tx_timeout, BeginClose
<1>13. CASE EndClose \/ ResetStop \/ Open \/ ResetOpen
  BY <1>3, <1>13, StopWhole DEF EndClose, ResetStop, Open, ResetOpen, BhIdle
<1> QED BY <1>4, <1>5, <1>6, <1>7, <1>8, <1>9, <1>10, <1>11, <1>12, <1>13
        DEF Next, Poll, Process, Halted

-----------------------------------------------------------------------------
(* No packet is lost, and the engine reads packets only.                   *)

\* The trouble with the link is not undone.
LEMMA CableStays == ASSUME "cable" \in disturbed, [Next]_vars PROVE "cable" \in disturbed'
<1>1. ASSUME disturbed \subseteq disturbed' PROVE "cable" \in disturbed'
  BY <1>1
<1>2. CASE (\E len \in Lens : HardStart(len)) \/ XmitReap \/ XmitKick \/ TxDma \/ TxUnderrun
           \/ RxDma \/ RxMissed \/ Cable
  BY <1>2 DEF HardStart, XmitReap, XmitKick, TxDma, TxUnderrun, RxDma, RxMissed, Cable, BUG
<1>3. CASE XmitFill
  BY <1>3 DEF XmitFill, BUG
<1>4. CASE ag7100_intr
  BY <1>4 DEF ag7100_intr, BUG
<1>5. CASE PollStart \/ RecvPacket \/ RecvEnd \/ PollAgain \/ PollOom \/ PollEnd
  BY <1>5 DEF PollStart, RecvPacket, RecvEnd, PollAgain, PollOom, PollEnd, BUG
<1>6. CASE PollReplenish
  BY <1>6 DEF PollReplenish, BUG
<1>7. CASE ag7100_oom_timer
  BY <1>7 DEF ag7100_oom_timer, BUG
<1>8. CASE CheckLink \/ ag7100_tx_timeout \/ BeginClose \/ EndClose \/ ResetStop \/ ResetOpen
  BY <1>8 DEF CheckLink, ag7100_tx_timeout, BeginClose, EndClose, ResetStop, ResetOpen, BUG
<1>9. CASE Open
  BY <1>9 DEF Open
<1> QED BY <1>2, <1>3, <1>4, <1>5, <1>6, <1>7, <1>8, <1>9
        DEF Next, Xmit, Poll, Process, Halted, vars

\* The behaviours are followed up to that trouble.
CableEnds == "cable" \in Fatal

LEMMA EndsThere ==
    ASSUME CableEnds, "cable" \in disturbed, [Next]_vars PROVE UNCHANGED vars
<1>1. ~Alive
  BY DEF Alive, CableEnds
<1> QED
  BY <1>1 DEF Next, Xmit, Poll, Process, Halted, HardStart, XmitReap, XmitFill, XmitKick,
     TxDma, TxUnderrun, RxDma, RxMissed, ag7100_intr, PollStart, RecvPacket, RecvEnd,
     PollReplenish, PollAgain, PollOom, PollEnd, ag7100_oom_timer, Cable, CheckLink, ag7100_tx_timeout,
     BeginClose, EndClose, Open, ResetStop, ResetOpen, BhIdle

LEMMA InitWhole == ASSUME Init PROVE QueueRuns /\ Whole
<1>1. TxRing(tx) /\ TxPos(tx, tx.head) = 0
  BY NewRing DEF Init, NewTx
<1>2. 0 + PktDescs + 2 <= TxDescs
  BY EthAssumption
<1>3. xmit.pc = "idle"
  BY DEF Init, NoXmit
<1> QED BY <1>1, <1>2, <1>3 DEF QueueRuns, Whole, Room, Read

LEMMA AlwaysTxInv == Spec => []TxInv
<1>1. Init => TxInv
  BY InitWhole DEF TxInv
<1>2. Typed /\ TxLockless /\ TxInv /\ [Next]_vars => TxInv'
  BY QueueRunsKept, WholeKept, CableStays DEF TxInv
<1> QED BY <1>1, <1>2, AlwaysTyped, Lockless, PTL DEF Spec

LEMMA AlwaysWhole == ASSUME CableEnds PROVE Spec => []Whole
<1>1. Init => Whole
  BY InitWhole
<1>2. Typed /\ TxLockless /\ TxInv /\ Whole /\ [Next]_vars => Whole'
  <2> SUFFICES ASSUME Typed, TxLockless, TxInv, Whole, [Next]_vars PROVE Whole'
    OBVIOUS
  <2>1. CASE "cable" \in disturbed
    <3>1. UNCHANGED vars
      BY <2>1, EndsThere
    <3> QED BY <3>1 DEF vars, Whole, Room, Read
  <2>2. CASE "cable" \notin disturbed
    BY <2>2, WholeKept DEF TxInv
  <2> QED BY <2>1, <2>2
<1> QED BY <1>1, <1>2, AlwaysTyped, Lockless, AlwaysTxInv, PTL DEF Spec

\* What a whole ring means for the engine: all it has is part of a packet.
LEMMA WholeHasBuffers ==
    ASSUME Typed, TxRing(tx)
    PROVE  \A d \in tx.owned : \E i \in starts(tx) : ahead(i, d, TxDescs) < tx.buf[i]
<1> SUFFICES ASSUME NEW d \in tx.owned
             PROVE  \E i \in starts(tx) : ahead(i, d, TxDescs) < tx.buf[i]
  OBVIOUS
<1>1. tx \in TxState
  BY DEF Typed
<1>2. d \in TxIndex /\ TxPos(tx, d) < TxPos(tx, tx.head)
  BY DEF TxRing
<1>3. PICK i \in starts(tx) : InPacket(tx, i, d)
  BY <1>2 DEF TxRing
<1>4. i \in TxIndex /\ tx.tail \in TxIndex /\ tx.buf[i] \in Nat
  BY <1>1, StartsType DEF TxState
<1>5. TxPos(tx, i) \in Int /\ TxPos(tx, d) \in Int
  BY <1>1, <1>2, <1>4, TxPosIn
<1>6. TxPos(tx, i) <= TxPos(tx, d) /\ TxPos(tx, d) < TxPos(tx, i) + tx.buf[i]
  BY <1>3 DEF InPacket
<1>7. ahead(i, d, TxDescs) = TxPos(tx, d) - TxPos(tx, i)
  BY <1>2, <1>4, <1>6, Sizes, AheadBetween DEF TxPos, TxIndex
<1>8. ahead(i, d, TxDescs) < tx.buf[i]
  BY <1>4, <1>5, <1>6, <1>7
<1> QED BY <1>8

(***************************************************************************)
(* ag7100_tx_reap comes to every packet in the ring, for rings and packets *)
(* of every size: ag7100_hard_start never lets the head reach the tail.    *)
(***************************************************************************)
THEOREM PacketsKept == ASSUME CableEnds PROVE Spec => []NoPacketLost
<1>1. Whole => NoPacketLost
  BY DEF Whole, TxRing, NoPacketLost, TxPos
<1> QED BY <1>1, AlwaysWhole, PTL

(***************************************************************************)
(* The same whatever is followed: packets can be lost only after           *)
(* ag7100_check_link has started the queue of a full ring.                 *)
(***************************************************************************)
THEOREM PacketsKeptUntilCable == Spec => [](NoPacketLost \/ "cable" \in disturbed)
<1>1. TxInv => NoPacketLost \/ "cable" \in disturbed
  BY DEF TxInv, Whole, TxRing, NoPacketLost, TxPos
<1> QED BY <1>1, AlwaysTxInv, PTL

-----------------------------------------------------------------------------
(* The receive ring.                                                       *)

\* k steps and j more.
LEMMA StepsAdd ==
    ASSUME NEW n \in Nat \ {0}, NEW i \in 0 .. n - 1, NEW k \in Nat, NEW j \in Nat, k + j <= n
    PROVE  (((i + k) % n) + j) % n = (i + k + j) % n
<1>1. k \in 0 .. n /\ k + j \in 0 .. n
  OBVIOUS
<1>2. (i + k) % n = IF i + k < n THEN i + k ELSE i + k - n
  BY <1>1, StepsIs
<1>3. CASE i + k < n
  BY <1>2, <1>3
<1>4. CASE i + k >= n
  <2>1. (i + k) % n = i + k - n
    BY <1>2, <1>4
  <2>2. i + k - n + j \in 0 .. n - 1
    BY <1>1, <1>4
  <2>3. (i + k - n + j) % n = i + k - n + j
    BY <2>2, ModStays
  <2>4. i + (k + j) >= n
    BY <1>4
  <2>5. (i + (k + j)) % n = i + (k + j) - n
    <3> DEFINE s == i + (k + j)
    <3>1. s \in Int /\ n <= s /\ s <= 2 * n - 1
      BY <1>1, <2>4
    <3> HIDE DEF s
    <3>2. s \in n .. 2 * n - 1
      BY <3>1
    <3>3. s % n = s - n
      BY <3>2, ModDown
    <3> QED BY <3>3 DEF s
  <2>6. i + (k + j) = i + k + j /\ i + k - n + j = i + (k + j) - n
    OBVIOUS
  <2> QED BY <2>1, <2>3, <2>5, <2>6
<1> QED BY <1>3, <1>4

LEMMA RxPosIn ==
    ASSUME NEW r \in RxState, NEW i \in RxIndex PROVE RxPos(r, i) \in 0 .. RxDescs - 1
<1>1. r.tail \in RxIndex
  BY DEF RxState
<1> QED BY <1>1, Sizes, AheadIn DEF RxPos, RxIndex

LEMMA RxPosSame ==
    ASSUME NEW r \in RxState, NEW i \in RxIndex, NEW j \in RxIndex, RxPos(r, i) = RxPos(r, j)
    PROVE  i = j
<1>1. r.tail \in RxIndex
  BY DEF RxState
<1> QED BY <1>1, Sizes, AheadSame DEF RxPos, RxIndex

LEMMA RxPosAt ==
    ASSUME NEW r \in RxState, NEW k \in 0 .. RxDescs - 1
    PROVE  (r.tail + k) % RxDescs \in RxIndex /\ RxPos(r, (r.tail + k) % RxDescs) = k
<1>1. r.tail \in RxIndex
  BY DEF RxState
<1> QED BY <1>1, Sizes, AheadAt DEF RxPos, RxIndex

\* How many slots are to be refilled can be told from the ring.
LEMMA MissingIs ==
    ASSUME NEW r \in RxState, NEW g \in 0 .. RxDescs, RxShape(r, g)
    PROVE  Missing(r) = g
<1>1. r.tail \in RxIndex /\ r.tail \in 0 .. RxDescs - 1 /\ RxDescs \in Nat \ {0}
  BY Sizes DEF RxState, RxIndex
<1>2. RxPos(r, r.tail) = 0
  <2>1. ahead(r.tail, r.tail, RxDescs) = r.tail - r.tail
    BY <1>1, AheadIs
  <2> QED BY <1>1, <2>1 DEF RxPos
<1>3. CASE g = 0
  <2>1. r.head = r.tail
    <3>1. (r.tail + g) % RxDescs = r.tail
      <4>1. r.tail + g = r.tail
        BY <1>1, <1>3
      <4> QED BY <1>1, <4>1, ModStays
    <3> QED BY <3>1 DEF RxShape
  <2>2. r.tail \in r.buf
    BY <1>1, <1>2, <1>3 DEF RxShape
  <2> QED BY <1>3, <2>1, <2>2 DEF Missing
<1>4. CASE g = RxDescs
  <2>1. r.head = r.tail
    <3>1. (r.tail + g) % RxDescs = r.tail
      BY <1>1, <1>4, StepsIs
    <3> QED BY <3>1 DEF RxShape
  <2>2. r.tail \notin r.buf
    BY <1>1, <1>2, <1>4 DEF RxShape
  <2> QED BY <1>4, <2>1, <2>2 DEF Missing
<1>5. CASE g \in 1 .. RxDescs - 1
  <2>1. RxPos(r, r.head) = g
    BY <1>5, RxPosAt DEF RxShape
  <2>2. r.head # r.tail
    BY <1>2, <1>5, <2>1
  <2> QED BY <2>1, <2>2 DEF Missing, RxPos
<1> QED BY <1>1, <1>3, <1>4, <1>5

LEMMA MissingIn == ASSUME NEW r \in RxState PROVE Missing(r) \in 0 .. RxDescs
<1>1. ahead(r.tail, r.head, RxDescs) \in 0 .. RxDescs - 1
  BY RxPosIn DEF RxPos, RxState
<1> QED BY <1>1, Sizes DEF Missing

LEMMA GotIn == ASSUME NEW r \in RxState PROVE Got(r) \in Nat /\ (r.cnt > 0 => Got(r) > 0)
BY DEF RxState, Got

\* What the head is at.
LEMMA AtHead ==
    ASSUME NEW r \in RxState, RxRing(r)
    PROVE  /\ r.head \in r.buf <=> Missing(r) < RxDescs
           /\ r.head \in r.buf => (r.head \in r.owned <=> Got(r) = 0)
           /\ Got(r) > 0 => r.head \in r.buf /\ r.head \notin r.owned
           /\ r.owned \subseteq r.buf
<1> DEFINE g == Missing(r)
<1>1. g \in 0 .. RxDescs /\ Got(r) \in Nat /\ RxDescs \in Nat \ {0}
  BY MissingIn, GotIn, Sizes
<1>2. g + Got(r) <= RxDescs
  BY DEF RxRing, RxShape
<1>3. \A x \in RxIndex : /\ RxPos(r, x) \in 0 .. RxDescs - 1
                         /\ x \in r.buf <=> RxPos(r, x) >= g
                         /\ x \in r.owned <=> RxPos(r, x) >= g + Got(r)
  BY RxPosIn DEF RxRing, RxShape
<1>4. r.owned \subseteq RxIndex /\ r.buf \subseteq RxIndex /\ r.head \in RxIndex
  BY DEF RxState
<1>5. g < RxDescs => RxPos(r, r.head) = g
  BY <1>1, RxPosAt DEF RxRing, RxShape
<1> HIDE DEF g
<1>6. r.head \in r.buf <=> g < RxDescs
  BY <1>1, <1>3, <1>4, <1>5
<1>7. r.head \in r.buf => (r.head \in r.owned <=> Got(r) = 0)
  BY <1>1, <1>3, <1>4, <1>5, <1>6
<1>8. Got(r) > 0 => r.head \in r.buf /\ r.head \notin r.owned
  BY <1>1, <1>2, <1>6, <1>7
<1>9. r.owned \subseteq r.buf
  BY <1>1, <1>3, <1>4
<1> QED BY <1>6, <1>7, <1>8, <1>9 DEF g

\* What the engine is at.
LEMMA AtDma ==
    ASSUME NEW r \in RxState, RxRing(r)
    PROVE  r.dma \in r.owned <=> Missing(r) + Got(r) < RxDescs
<1> DEFINE g == Missing(r)
           c == g + Got(r)
<1>1. g \in 0 .. RxDescs /\ Got(r) \in Nat /\ RxDescs \in Nat \ {0}
  BY MissingIn, GotIn, Sizes
<1>2. c \in Nat
  BY <1>1
<1>3. \A x \in RxIndex : /\ RxPos(r, x) \in 0 .. RxDescs - 1
                         /\ x \in r.owned <=> RxPos(r, x) >= c
  BY RxPosIn DEF RxRing, RxShape
<1>4. r.dma \in RxIndex /\ r.tail \in Nat
  BY Sizes DEF RxState, RxIndex
<1>5. r.dma = (r.tail + c) % RxDescs
  <2>1. r.tail + g + Got(r) = r.tail + c
    BY <1>1, <1>4
  <2> QED BY <2>1 DEF RxRing, RxShape
<1> HIDE DEF c
<1>6. c < RxDescs => RxPos(r, r.dma) = c
  <2>1. c < RxDescs => c \in 0 .. RxDescs - 1
    BY <1>1, <1>2
  <2> QED BY <1>5, <2>1, RxPosAt
<1>7. r.dma \in r.owned <=> c < RxDescs
  BY <1>1, <1>2, <1>3, <1>4, <1>6
<1> QED BY <1>7 DEF c

\* A packet is taken at the head.
LEMMA RxTaken ==
    ASSUME NEW r \in RxState, RxRing(r), Got(r) > 0,
           NEW a \in RxState, a.tail = r.tail, a.dma = r.dma, a.owned = r.owned,
           Got(a) = Got(r) - 1, a.buf = r.buf \ {r.head}, a.head = (r.head + 1) % RxDescs
    PROVE  RxRing(a) /\ Missing(a) = Missing(r) + 1
<1> DEFINE g == Missing(r)
<1>1. g \in 0 .. RxDescs /\ Got(r) \in Nat /\ RxDescs \in Nat \ {0}
  BY MissingIn, GotIn, Sizes
<1>2. RxShape(r, g)
  BY DEF RxRing
<1> HIDE DEF g
<1>3. g + Got(r) <= RxDescs /\ g \in 0 .. RxDescs - 1 /\ g + 1 \in 0 .. RxDescs
  BY <1>1, <1>2 DEF RxShape
<1>4. r.tail \in 0 .. RxDescs - 1 /\ r.head \in RxIndex /\ r.buf \subseteq RxIndex
  BY DEF RxState, RxIndex
<1>5. RxPos(r, r.head) = g
  BY <1>2, <1>3, RxPosAt DEF RxShape
<1>6. a.head = (a.tail + (g + 1)) % RxDescs
  <2>1. (((r.tail + g) % RxDescs) + 1) % RxDescs = (r.tail + g + 1) % RxDescs
    BY <1>1, <1>3, <1>4, StepsAdd
  <2>2. r.tail + g + 1 = r.tail + (g + 1)
    BY <1>3, <1>4
  <2> QED BY <1>2, <2>1, <2>2 DEF RxShape
<1>7. a.dma = (a.tail + (g + 1) + Got(a)) % RxDescs
  <2>1. r.tail + (g + 1) + (Got(r) - 1) = r.tail + g + Got(r)
    BY <1>1, <1>3, <1>4
  <2> QED BY <1>2, <2>1 DEF RxShape
<1>8. \A x : RxPos(a, x) = RxPos(r, x)
  BY DEF RxPos
<1>9. \A x \in RxIndex : RxPos(r, x) \in 0 .. RxDescs - 1 /\ (RxPos(r, x) = g => x = r.head)
  BY <1>4, <1>5, RxPosIn, RxPosSame
<1>10. ASSUME NEW x \in RxIndex
       PROVE  RxPos(r, x) >= g /\ x # r.head <=> RxPos(r, x) >= g + 1
  <2>1. x = r.head <=> RxPos(r, x) = g
    BY <1>5, <1>9
  <2>2. RxPos(r, x) \in 0 .. RxDescs - 1
    BY <1>9
  <2> QED BY <1>1, <2>1, <2>2
<1>11. a.buf = {x \in RxIndex : RxPos(a, x) >= g + 1}
  <2>1. r.buf = {x \in RxIndex : RxPos(r, x) >= g}
    BY <1>2 DEF RxShape
  <2> QED BY <1>8, <1>10, <2>1
<1>12. g + 1 + Got(a) = g + Got(r)
  BY <1>1
<1>13. a.owned = {x \in RxIndex : RxPos(a, x) >= g + 1 + Got(a)}
  <2>1. r.owned = {x \in RxIndex : RxPos(r, x) >= g + Got(r)}
    BY <1>2 DEF RxShape
  <2> QED BY <1>8, <1>12, <2>1
<1>14. RxShape(a, g + 1)
  BY <1>3, <1>6, <1>7, <1>11, <1>12, <1>13 DEF RxShape
<1>15. Missing(a) = g + 1
  BY <1>3, <1>14, MissingIs
<1> QED BY <1>14, <1>15 DEF RxRing, g

\* The engine has received a packet.
LEMMA RxReceived ==
    ASSUME NEW r \in RxState, RxRing(r), r.dma \in r.owned,
           NEW a \in RxState, a.tail = r.tail, a.head = r.head, a.buf = r.buf,
           Got(a) = Got(r) + 1, a.owned = r.owned \ {r.dma}, a.dma = (r.dma + 1) % RxDescs
    PROVE  RxRing(a) /\ Missing(a) = Missing(r)
<1> DEFINE g == Missing(r)
           c == g + Got(r)
<1>1. g \in 0 .. RxDescs /\ Got(r) \in Nat /\ RxDescs \in Nat \ {0}
  BY MissingIn, GotIn, Sizes
<1>2. RxShape(r, g)
  BY DEF RxRing
<1>3. c < RxDescs
  BY AtDma
<1> HIDE DEF g
<1>4. r.tail \in 0 .. RxDescs - 1 /\ r.dma \in RxIndex
  BY DEF RxState, RxIndex
<1>5. c \in 0 .. RxDescs - 1 /\ g + Got(a) = c + 1
  BY <1>1, <1>3
<1>6. r.dma = (r.tail + c) % RxDescs /\ r.tail + g + Got(a) = r.tail + c + 1
  <2>1. r.tail + g + Got(r) = r.tail + c /\ r.tail + g + Got(a) = r.tail + c + 1
    BY <1>1, <1>4
  <2> QED BY <1>2, <2>1 DEF RxShape
<1> HIDE DEF c
<1>7. RxPos(r, r.dma) = c
  BY <1>5, <1>6, RxPosAt
<1>8. a.dma = (a.tail + g + Got(a)) % RxDescs
  <2>1. (((r.tail + c) % RxDescs) + 1) % RxDescs = (r.tail + c + 1) % RxDescs
    BY <1>1, <1>4, <1>5, StepsAdd
  <2> QED BY <1>6, <2>1
<1>9. \A x : RxPos(a, x) = RxPos(r, x)
  BY DEF RxPos
<1>10. ASSUME NEW x \in RxIndex
       PROVE  RxPos(r, x) >= c /\ x # r.dma <=> RxPos(r, x) >= c + 1
  <2>1. x = r.dma <=> RxPos(r, x) = c
    BY <1>4, <1>7, RxPosSame
  <2>2. RxPos(r, x) \in 0 .. RxDescs - 1
    BY RxPosIn
  <2> QED BY <1>5, <2>1, <2>2
<1>11. a.owned = {x \in RxIndex : RxPos(a, x) >= g + Got(a)}
  <2>1. r.owned = {x \in RxIndex : RxPos(r, x) >= c}
    BY <1>2 DEF RxShape, c
  <2> QED BY <1>5, <1>9, <1>10, <2>1
<1>12. g + Got(a) <= RxDescs
  BY <1>1, <1>5
<1>13. a.buf = {x \in RxIndex : RxPos(a, x) >= g} /\ a.head = (a.tail + g) % RxDescs
  BY <1>2, <1>9 DEF RxShape
<1>14. RxShape(a, g)
  BY <1>8, <1>11, <1>12, <1>13 DEF RxShape
<1>15. Missing(a) = g
  BY <1>1, <1>14, MissingIs
<1> QED BY <1>14, <1>15 DEF RxRing, g

\* ag7100_rx_replenish has filled k of the slots that are to be refilled.
LEMMA RxRefilled ==
    ASSUME NEW r \in RxState, RxRing(r), NEW k \in 0 .. Missing(r)
    PROVE  LET a == ag7100_rx_replenish(r, k)
           IN  RxRing(a) /\ Missing(a) = Missing(r) - k
<1> DEFINE g == Missing(r)
           S == {(r.tail + i) % RxDescs : i \in 0 .. k - 1}
           a == ag7100_rx_replenish(r, k)
<1>1. g \in 0 .. RxDescs /\ Got(r) \in Nat /\ RxDescs \in Nat \ {0}
  BY MissingIn, GotIn, Sizes
<1>2. RxShape(r, g)
  BY DEF RxRing
<1> HIDE DEF g
<1>3. k \in Nat /\ k <= g /\ k \in 0 .. RxDescs /\ g - k \in 0 .. RxDescs /\ g + Got(r) <= RxDescs
  BY <1>1, <1>2 DEF RxShape, g
<1>4. r.tail \in 0 .. RxDescs - 1 /\ r.buf \subseteq RxIndex /\ r.owned \subseteq RxIndex
  BY DEF RxState, RxIndex
<1>5. /\ a.tail = (r.tail + k) % RxDescs /\ a.head = r.head /\ a.dma = r.dma /\ Got(a) = Got(r)
      /\ a.buf = r.buf \cup S /\ a.owned = r.owned \cup S
  BY DEF ag7100_rx_replenish, RxState, Got
<1>6. a \in RxState
  BY <1>3, ReplenishType
<1> HIDE DEF a
<1>7. a.head = (a.tail + (g - k)) % RxDescs
  <2>1. g - k \in Nat /\ k + (g - k) <= RxDescs /\ r.tail + k + (g - k) = r.tail + g
    BY <1>1, <1>3, <1>4
  <2>2. (((r.tail + k) % RxDescs) + (g - k)) % RxDescs = (r.tail + k + (g - k)) % RxDescs
    BY <1>1, <1>3, <1>4, <2>1, StepsAdd
  <2> QED BY <1>2, <1>5, <2>1, <2>2 DEF RxShape
<1>8. a.dma = (a.tail + (g - k) + Got(a)) % RxDescs
  <2> DEFINE j == g - k + Got(r)
  <2>1. j \in Nat /\ k + j <= RxDescs /\ r.tail + k + j = r.tail + g + Got(r)
    BY <1>1, <1>3, <1>4
  <2>2. a.tail \in Int /\ a.tail + j = a.tail + (g - k) + Got(a)
    BY <1>1, <1>3, <1>5, <1>6, Sizes DEF RxState, RxIndex
  <2> HIDE DEF j
  <2>3. (((r.tail + k) % RxDescs) + j) % RxDescs = (r.tail + k + j) % RxDescs
    BY <1>1, <1>3, <1>4, <2>1, StepsAdd
  <2> QED BY <1>2, <1>5, <2>1, <2>2, <2>3 DEF RxShape
<1>9. ASSUME NEW x \in RxIndex
      PROVE  /\ RxPos(r, x) \in 0 .. RxDescs - 1
             /\ RxPos(a, x) = IF k <= RxPos(r, x) THEN RxPos(r, x) - k
                              ELSE RxPos(r, x) - k + RxDescs
  <2>1. ahead((r.tail + k) % RxDescs, x, RxDescs) =
          IF k <= ahead(r.tail, x, RxDescs) THEN ahead(r.tail, x, RxDescs) - k
          ELSE ahead(r.tail, x, RxDescs) - k + RxDescs
    BY <1>1, <1>3, <1>4, AheadMoved DEF RxIndex
  <2> QED BY <1>5, <2>1, RxPosIn DEF RxPos
<1>10. ASSUME NEW i \in 0 .. k - 1
       PROVE  (r.tail + i) % RxDescs \in RxIndex /\ RxPos(r, (r.tail + i) % RxDescs) = i
  <2>1. i \in 0 .. RxDescs - 1
    BY <1>1, <1>3
  <2> QED BY <2>1, RxPosAt
<1>11. ASSUME NEW x \in RxIndex PROVE x \in S <=> RxPos(r, x) < k
  <2>1. ASSUME NEW i \in 0 .. k - 1, x = (r.tail + i) % RxDescs PROVE RxPos(r, x) < k
    BY <1>3, <1>10, <2>1
  <2>2. ASSUME RxPos(r, x) < k PROVE \E i \in 0 .. k - 1 : x = (r.tail + i) % RxDescs
    <3> DEFINE i == RxPos(r, x)
    <3>1. i \in 0 .. k - 1
      BY <1>3, <1>9, <2>2
    <3>2. x = (r.tail + i) % RxDescs
      <4> HIDE DEF i
      <4>1. RxPos(r, (r.tail + i) % RxDescs) = RxPos(r, x)
        BY <1>10, <3>1 DEF i
      <4> QED BY <1>10, <3>1, <4>1, RxPosSame
    <3> QED BY <3>1, <3>2
  <2> QED BY <2>1, <2>2
<1>12. S \subseteq RxIndex
  BY <1>10
<1> HIDE DEF S
<1>13. ASSUME NEW x \in RxIndex, NEW c \in Nat, k <= c, c <= RxDescs
       PROVE  RxPos(r, x) >= c \/ RxPos(r, x) < k <=> RxPos(a, x) >= c - k
  BY <1>1, <1>3, <1>9, <1>13
<1>14. a.buf = {x \in RxIndex : RxPos(a, x) >= g - k}
  <2>1. r.buf = {x \in RxIndex : RxPos(r, x) >= g}
    BY <1>2 DEF RxShape
  <2>2. \A x \in RxIndex : RxPos(r, x) >= g \/ RxPos(r, x) < k <=> RxPos(a, x) >= g - k
    BY <1>1, <1>3, <1>13
  <2> QED BY <1>5, <1>11, <1>12, <2>1, <2>2
<1>15. a.owned = {x \in RxIndex : RxPos(a, x) >= g - k + Got(a)}
  <2> DEFINE c == g + Got(r)
  <2>1. r.owned = {x \in RxIndex : RxPos(r, x) >= c}
    BY <1>2 DEF RxShape
  <2>2. c \in Nat /\ k <= c /\ c <= RxDescs /\ c - k = g - k + Got(a)
    BY <1>1, <1>3, <1>5
  <2> HIDE DEF c
  <2>3. \A x \in RxIndex : RxPos(r, x) >= c \/ RxPos(r, x) < k <=> RxPos(a, x) >= c - k
    BY <1>13, <2>2
  <2> QED BY <1>5, <1>11, <1>12, <2>1, <2>2, <2>3
<1>16. g - k + Got(a) <= RxDescs
  BY <1>1, <1>3, <1>5
<1>17. RxShape(a, g - k)
  BY <1>7, <1>8, <1>14, <1>15, <1>16 DEF RxShape
<1>18. Missing(a) = g - k
  BY <1>3, <1>6, <1>17, MissingIs
<1> QED BY <1>17, <1>18 DEF RxRing, g, a

\* The loop of ag7100_rx_replenish: its assertions hold if there is a slot to refill,
\* and then it gets to these slots only.
LEMMA RefillCount ==
    ASSUME NEW r \in RxState, RxRing(r)
    PROVE  /\ Missing(r) > 0 => /\ to_refill(r) = Missing(r)
                                /\ \A k \in Nat : replenish_asserts(r, k)
           /\ Missing(r) = 0 => \A k \in Nat : ~replenish_asserts(r, k)
<1> DEFINE g == Missing(r)
<1>1. g \in 0 .. RxDescs /\ Got(r) \in Nat /\ RxDescs \in Nat \ {0}
  BY MissingIn, GotIn, Sizes
<1>2. RxShape(r, g)
  BY DEF RxRing
<1>3. r.head = r.tail => g = 0 \/ g = RxDescs
  BY DEF Missing
<1>4. r.head # r.tail => g = ahead(r.tail, r.head, RxDescs)
  BY DEF Missing
<1> HIDE DEF g
<1>5. ASSUME NEW i \in 0 .. RxDescs - 1
      PROVE  /\ (r.tail + i) % RxDescs \in r.buf <=> i >= g
             /\ (r.tail + i) % RxDescs \in r.owned <=> i >= g + Got(r)
  BY <1>2, RxPosAt DEF RxShape
<1>6. ASSUME g > 0
      PROVE  to_refill(r) = g /\ \A k \in Nat : replenish_asserts(r, k)
  <2>1. to_refill(r) = g
    BY <1>1, <1>3, <1>4, <1>6 DEF to_refill
  <2>2. ASSUME NEW k \in Nat, NEW i \in 0 .. k, i < g
        PROVE  (r.tail + i) % RxDescs \notin r.owned \cup r.buf
    <3>1. i \in 0 .. RxDescs - 1 /\ ~(i >= g) /\ ~(i >= g + Got(r))
      BY <1>1, <2>2
    <3> QED BY <1>5, <3>1
  <2> QED BY <2>1, <2>2 DEF replenish_asserts
<1>7. ASSUME g = 0, NEW k \in Nat PROVE ~replenish_asserts(r, k)
  <2>1. 0 \in 0 .. k /\ 0 \in 0 .. RxDescs - 1 /\ 0 >= g
    BY <1>1, <1>7
  <2>2. 0 < to_refill(r)
    <3>1. CASE r.head = r.tail
      BY <1>1, <3>1 DEF to_refill
    <3>2. CASE r.head # r.tail
      <4>1. r.tail = (r.tail + g) % RxDescs
        <5>1. r.tail + g = r.tail /\ r.tail \in 0 .. RxDescs - 1
          BY <1>7, Sizes DEF RxState, RxIndex
        <5> QED BY <1>1, <5>1, ModStays
      <4> QED BY <1>2, <3>2, <4>1 DEF RxShape
    <3> QED BY <3>1, <3>2
  <2>3. (r.tail + 0) % RxDescs \in r.buf
    BY <1>5, <2>1
  <2> QED BY <2>1, <2>2, <2>3 DEF replenish_asserts
<1> QED BY <1>6, <1>7 DEF g

\* What a refill without a failed assertion does.
LEMMA Refill ==
    ASSUME NEW r \in RxState, RxRing(r), NEW k \in refills(r), replenish_asserts(r, k)
    PROVE  /\ Missing(r) > 0 /\ to_refill(r) = Missing(r) /\ k \in 0 .. Missing(r)
           /\ RxRing(ag7100_rx_replenish(r, k))
           /\ Missing(ag7100_rx_replenish(r, k)) = Missing(r) - k
<1>1. k \in Nat /\ k \in 0 .. to_refill(r)
  BY DEF refills
<1>2. Missing(r) \in 0 .. RxDescs
  BY MissingIn
<1>3. Missing(r) > 0
  BY <1>1, <1>2, RefillCount
<1>4. to_refill(r) = Missing(r)
  BY <1>3, RefillCount
<1>5. k \in 0 .. Missing(r)
  BY <1>1, <1>4
<1> QED BY <1>3, <1>4, <1>5, RxRefilled

LEMMA NewRxRing ==
    ASSUME NEW a \in RxState, a.tail = 0, a.head = 0, a.dma = 0, Got(a) = 0, a.buf = RxIndex,
           a.owned = RxIndex
    PROVE  RxRing(a) /\ Missing(a) = 0
<1>1. RxDescs \in Nat \ {0} /\ 0 \in 0 .. RxDescs - 1
  BY Sizes
<1>2. (0 + 0) % RxDescs = 0 /\ (0 + 0 + 0) % RxDescs = 0
  BY <1>1, ModStays
<1>3. \A x \in RxIndex : RxPos(a, x) >= 0 /\ RxPos(a, x) >= 0 + 0
  BY RxPosIn, <1>1
<1>4. RxShape(a, 0)
  BY <1>1, <1>2, <1>3 DEF RxShape
<1> QED BY <1>1, <1>4, MissingIs DEF RxRing

LEMMA SameRxRing ==
    ASSUME NEW r, NEW a, a.tail = r.tail, a.head = r.head, a.dma = r.dma, Got(a) = Got(r),
           a.buf = r.buf, a.owned = r.owned
    PROVE  (RxRing(a) <=> RxRing(r)) /\ Missing(a) = Missing(r)
BY DEF RxRing, RxShape, RxPos, Missing

LEMMA StopRx ==
    ASSUME NEW n \in NetState, ag7100_stop(n) \/ ag7100_open(n)
    PROVE  /\ rx' \in RxState /\ RxRing(rx') /\ Missing(rx') = 0 /\ rx'.cnt = 0 /\ ~rx'.ovf
           /\ net'.admin = n.admin
           /\ ag7100_stop(n) => ~mask'.rx /\ ~net'.alloc
           /\ ag7100_open(n) => net'.alloc
<1>1. rx' \in {NewRx, [NewRx EXCEPT !.run = FALSE]}
  BY DEF ag7100_stop, ag7100_open
<1>2. /\ rx'.tail = 0 /\ rx'.head = 0 /\ rx'.dma = 0 /\ rx'.cnt = 0 /\ rx'.buf = RxIndex
      /\ Got(rx') = 0
      /\ rx'.owned = RxIndex /\ ~rx'.ovf
  BY <1>1 DEF NewRx, Got
<1>3. rx' \in RxState
  BY <1>1, NewRxType DEF RxState
<1>4. RxRing(rx') /\ Missing(rx') = 0
  BY <1>2, <1>3, NewRxRing
<1>5. ASSUME ag7100_stop(n)
      PROVE  net'.admin = n.admin /\ ~mask'.rx /\ ~net'.alloc
  BY <1>5 DEF ag7100_stop, NetState
<1>6. ASSUME ag7100_open(n) PROVE net'.admin = n.admin /\ net'.alloc
  <2>1. net' = linked([n EXCEPT !.alloc = TRUE])
    BY <1>6 DEF ag7100_open
  <2>2. [n EXCEPT !.alloc = TRUE] \in NetState /\ [n EXCEPT !.alloc = TRUE].alloc
        /\ [n EXCEPT !.alloc = TRUE].admin = n.admin
    BY DEF NetState
  <2> QED BY <2>1, <2>2 DEF linked, NetState
<1> QED BY <1>2, <1>3, <1>4, <1>5, <1>6

\* The effect on the ring of each step that touches it.
LEMMA RxDmaStep ==
    ASSUME Typed, Typed', RxRing(rx), RxDma \/ RxMissed
    PROVE  /\ RxRing(rx') /\ Missing(rx') = Missing(rx)
           /\ rx'.cnt >= rx.cnt /\ Got(rx') >= Got(rx)
           /\ rx'.ovf => rx.ovf \/ Missing(rx) + Got(rx) >= RxDescs
<1> rx \in RxState /\ rx' \in RxState /\ Missing(rx) \in 0 .. RxDescs
  BY MissingIn DEF Typed
<1> rx.cnt \in Nat /\ rx.missed \in Nat /\ Got(rx) \in Nat
  BY GotIn DEF RxState
<1>1. CASE rx.dma \in rx.owned
  <2>1. \/ rx' = [rx EXCEPT !.owned = @ \ {rx.dma}, !.cnt = @ + 1,
                            !.dma = ag7100_ring_incr(@, RxDescs)]
        \/ rx' = [rx EXCEPT !.owned = @ \ {rx.dma}, !.missed = @ + 1,
                            !.dma = ag7100_ring_incr(@, RxDescs)]
    BY <1>1 DEF RxDma, RxMissed
  <2>2. /\ rx'.tail = rx.tail /\ rx'.head = rx.head /\ rx'.buf = rx.buf
        /\ rx'.owned = rx.owned \ {rx.dma}
        /\ rx'.dma = (rx.dma + 1) % RxDescs
    BY <2>1 DEF RxState, ag7100_ring_incr
  <2>3. rx'.ovf = rx.ovf
    BY <2>1 DEF RxState
  <2>4. \/ rx'.cnt = rx.cnt + 1 /\ rx'.missed = rx.missed
        \/ rx'.cnt = rx.cnt /\ rx'.missed = rx.missed + 1
    BY <2>1 DEF RxState
  <2>5. Got(rx') = Got(rx) + 1
    BY <2>4 DEF Got
  <2>6. RxRing(rx') /\ Missing(rx') = Missing(rx)
    BY <1>1, <2>2, <2>5, RxReceived
  <2> QED BY <2>3, <2>4, <2>5, <2>6
<1>2. CASE rx.dma \notin rx.owned
  <2>1. rx' = [rx EXCEPT !.ovf = TRUE, !.run = FALSE]
    BY <1>2 DEF RxDma, RxMissed
  <2>2. /\ rx'.tail = rx.tail /\ rx'.head = rx.head /\ rx'.buf = rx.buf
        /\ rx'.cnt = rx.cnt /\ rx'.missed = rx.missed /\ rx'.owned = rx.owned
        /\ rx'.dma = rx.dma
    BY <2>1 DEF RxState
  <2>3. Got(rx') = Got(rx)
    BY <2>2 DEF Got
  <2>4. RxRing(rx') /\ Missing(rx') = Missing(rx)
    BY <2>2, <2>3, SameRxRing
  <2>5. ~(Missing(rx) + Got(rx) < RxDescs)
    BY <1>2, AtDma
  <2> QED BY <2>2, <2>3, <2>4, <2>5, Sizes
<1> QED BY <1>1, <1>2

LEMMA RecvStep ==
    ASSUME Typed, Typed', RxRing(rx), RecvPacket, rx.head \in rx.buf
    PROVE  RxRing(rx') /\ Missing(rx') = Missing(rx) + 1 /\ rx'.ovf = rx.ovf
<1> rx \in RxState /\ rx' \in RxState
  BY DEF Typed
<1>1. rx.head \notin rx.owned
  BY DEF RecvPacket, more_to_recv
<1>2. rx.cnt \in Nat /\ rx.missed \in Nat /\ Got(rx) \in Nat
  BY GotIn DEF RxState
<1>3. Got(rx) > 0
  <2>1. Got(rx) # 0
    BY <1>1, AtHead
  <2> QED BY <1>2, <2>1
<1>4. PICK c, w : /\ c = IF rx.cnt > 0 THEN rx.cnt - 1 ELSE 0
                  /\ w = IF rx.cnt = 0 /\ rx.missed > 0 THEN rx.missed - 1 ELSE rx.missed
                  /\ rx' = [rx EXCEPT !.cnt = c, !.missed = w, !.buf = @ \ {rx.head},
                                      !.head = ag7100_ring_incr(@, RxDescs)]
  BY DEF RecvPacket
<1>5. /\ rx'.tail = rx.tail /\ rx'.dma = rx.dma /\ rx'.owned = rx.owned
      /\ rx'.cnt = c /\ rx'.missed = w /\ rx'.buf = rx.buf \ {rx.head}
      /\ rx'.head = (rx.head + 1) % RxDescs
  BY <1>4 DEF RxState, ag7100_ring_incr
<1>6. rx'.ovf = rx.ovf
  BY <1>4 DEF RxState
<1>7. Got(rx') = Got(rx) - 1
  BY <1>2, <1>3, <1>4, <1>5 DEF Got
<1> QED BY <1>3, <1>5, <1>6, <1>7, RxTaken

LEMMA EndStep ==
    ASSUME Typed, RxRing(rx), PollEnd
    PROVE  /\ RxRing(rx') /\ Missing(rx') = Missing(rx) /\ ~rx'.ovf
           /\ rx'.cnt = rx.cnt /\ rx'.missed = rx.missed
<1> rx \in RxState
  BY DEF Typed
<1>1. rx' = restarted(rx)
  BY DEF PollEnd
<1>2. /\ rx'.tail = rx.tail /\ rx'.head = rx.head /\ rx'.buf = rx.buf
      /\ rx'.cnt = rx.cnt /\ rx'.missed = rx.missed /\ rx'.owned = rx.owned
      /\ rx'.dma = rx.dma /\ ~rx'.ovf
  BY <1>1 DEF restarted, RxState
<1>3. Got(rx') = Got(rx)
  BY <1>2 DEF Got
<1> QED BY <1>2, <1>3, SameRxRing

\* The three arcs of the receive ring survive every step, troubles included.
LEMMA RxRingKept == ASSUME Typed, RxRing(rx), [Next]_vars PROVE RxRing(rx')
<1>1. Typed'
  BY NextTyped
<1>2. rx \in RxState /\ net \in NetState
  BY DEF Typed
<1>3. CASE (\E len \in Lens : HardStart(len)) \/ XmitReap \/ XmitKick \/ TxDma \/ TxUnderrun
           \/ Cable
  BY <1>3 DEF HardStart, XmitReap, XmitKick, TxDma, TxUnderrun, Cable, BUG
<1>4. CASE XmitFill
  BY <1>4 DEF XmitFill, BUG
<1>5. CASE RxDma \/ RxMissed
  BY <1>1, <1>5, RxDmaStep
<1>6. CASE ag7100_intr
  BY <1>6 DEF ag7100_intr, BUG
<1>7. CASE PollStart \/ RecvEnd \/ PollAgain \/ PollOom
  BY <1>7 DEF PollStart, RecvEnd, PollAgain, PollOom, BUG
<1>8. CASE RecvPacket
  <2>1. CASE rx.head \in rx.buf
    BY <1>1, <1>8, <2>1, RecvStep
  <2>2. CASE rx.head \notin rx.buf
    BY <1>8, <2>2 DEF RecvPacket, BUG
  <2> QED BY <2>1, <2>2
<1>9. CASE PollEnd
  BY <1>9, EndStep
<1>10. ASSUME NEW k \in refills(rx), replenish_asserts(rx, k),
              rx' = ag7100_rx_replenish(rx, k)
       PROVE  RxRing(rx')
  BY <1>2, <1>10, Refill
<1>11. CASE PollReplenish
  BY <1>10, <1>11 DEF PollReplenish, BUG
<1>12. CASE ag7100_oom_timer
  BY <1>10, <1>12 DEF ag7100_oom_timer, BUG
<1>13. CASE CheckLink \/ BeginClose \/ ag7100_tx_timeout
  BY <1>13 DEF CheckLink, BeginClose, ag7100_tx_timeout
<1>14. CASE ResetStop \/ ResetOpen
  BY <1>2, <1>14, StopRx DEF ResetStop, ResetOpen, BUG
<1>15. CASE EndClose \/ Open
  <2>1. [net EXCEPT !.admin = "closed"] \in NetState /\ [net EXCEPT !.admin = "up"] \in NetState
    BY <1>2 DEF NetState
  <2> QED BY <1>15, <2>1, StopRx DEF EndClose, Open, BUG
<1> QED BY <1>3, <1>4, <1>5, <1>6, <1>7, <1>8, <1>9, <1>11, <1>12, <1>13, <1>14, <1>15
        DEF Next, Xmit, Poll, Process, Halted, vars

LEMMA AlwaysRxRing == Spec => []RxRing(rx)
<1>1. Init => RxRing(rx)
  <2> SUFFICES ASSUME Init PROVE RxRing(rx)
    OBVIOUS
  <2>1. rx = NewRx
    BY DEF Init
  <2>2. rx \in RxState
    BY <2>1, NewRxType
  <2>3. Got(rx) = 0
    BY <2>1 DEF NewRx, Got
  <2> QED BY <2>1, <2>2, <2>3, NewRxRing DEF NewRx
<1>2. Typed /\ RxRing(rx) /\ [Next]_vars => RxRing(rx)'
  BY RxRingKept
<1> QED BY <1>1, <1>2, AlwaysTyped, PTL DEF Spec

(***************************************************************************)
(* The engines touch only memory that is theirs: what the transmit engine  *)
(* reads is part of a packet that ag7100_tx_reap has not freed, and the    *)
(* receive engine has a buffer wherever it writes.                         *)
(***************************************************************************)
THEOREM EnginesHaveBuffers == ASSUME CableEnds PROVE Spec => []DmaHasBuffer
<1>1. Typed /\ Whole /\ RxRing(rx) => DmaHasBuffer
  <2> SUFFICES ASSUME Typed, Whole, RxRing(rx) PROVE DmaHasBuffer
    OBVIOUS
  <2>1. rx.owned \subseteq rx.buf
    BY AtHead DEF Typed
  <2> QED BY <2>1, WholeHasBuffers DEF DmaHasBuffer, Whole
<1> QED BY <1>1, AlwaysTyped, AlwaysWhole, AlwaysRxRing, PTL

-----------------------------------------------------------------------------
(* The assertions.                                                         *)

\* An assertion that fails, fails in trouble.
NoNewBug == bug' = bug \/ disturbed' # {} \/ MissedBug'

LEMMA RxInvFrame ==
    ASSUME RxInv, UNCHANGED <<rx, poll, sched, oom, reset>>, mask'.rx = mask.rx,
           net'.alloc = net.alloc, net'.admin = net.admin, disturbed \subseteq disturbed'
    PROVE  RxInv'
<1>1. PollInv'
  BY DEF RxInv, PollInv
<1>2. DueInv'
  BY DEF RxInv, DueInv
<1>3. AllocInv'
  BY DEF RxInv, AllocInv
<1> QED BY <1>1, <1>2, <1>3 DEF RxInv

LEMMA BugInTrouble ==
    ASSUME RxInv, NEW what, BUG(what), disturbed # {} PROVE RxInv' /\ NoNewBug
<1>1. RxInv'
  BY RxInvFrame DEF BUG
<1> QED BY <1>1 DEF BUG, NoNewBug

\* Steps that do not concern the receive path.
LEMMA TxRxInv ==
    ASSUME Typed, Typed', TxLockless, TxInv, RxInv,
           (\E len \in Lens : HardStart(len)) \/ Xmit \/ TxDma \/ TxUnderrun \/ Cable \/ CheckLink
    PROVE  RxInv' /\ NoNewBug
<1>1. CASE (\E len \in Lens : HardStart(len)) \/ XmitReap \/ XmitFill
  <2>1. UNCHANGED <<rx, mask, net, poll, sched, oom, reset, disturbed>>
    <3>1. CASE XmitFill
      BY <3>1 DEF XmitFill, BUG
    <3> QED BY <1>1, <3>1 DEF HardStart, XmitReap, BUG
  <2>2. RxInv'
    BY <2>1, RxInvFrame
  <2>3. NoNewBug
    BY <1>1, <2>1, XmitWhole DEF TxInv, NoNewBug, Xmit
  <2> QED BY <2>2, <2>3
<1>2. CASE XmitKick
  <2>1. UNCHANGED <<rx, poll, sched, oom, reset, disturbed>>
    BY <1>2 DEF XmitKick
  <2>2. mask'.rx = mask.rx /\ net'.alloc = net.alloc /\ net'.admin = net.admin
    <3>1. CASE ag7100_tx_ring_full(tx)
      <4>1. net' = [net EXCEPT !.stopped = TRUE] /\ mask' = [mask EXCEPT !.tx = TRUE]
        BY <1>2, <3>1 DEF XmitKick, ag7100_handle_tx_full
      <4> QED BY <4>1 DEF Typed, NetState, MaskState
    <3>2. CASE ~ag7100_tx_ring_full(tx)
      BY <1>2, <3>2 DEF XmitKick
    <3> QED BY <3>1, <3>2
  <2>3. RxInv'
    BY <2>1, <2>2, RxInvFrame
  <2>4. NoNewBug
    BY <1>2, <2>1, XmitWhole DEF TxInv, NoNewBug, Xmit
  <2> QED BY <2>3, <2>4
<1>3. CASE TxDma \/ TxUnderrun \/ Cable
  <2>1. UNCHANGED <<rx, mask, net, poll, sched, oom, reset, disturbed, bug>>
    BY <1>3 DEF TxDma, TxUnderrun, Cable
  <2> QED BY <2>1, RxInvFrame DEF NoNewBug
<1>4. CASE CheckLink
  <2>1. UNCHANGED <<rx, mask, poll, sched, oom, reset, bug>> /\ disturbed \subseteq disturbed'
        /\ net' = linked(net)
    BY <1>4 DEF CheckLink
  <2>2. net'.alloc = net.alloc /\ net'.admin = net.admin
    BY <2>1 DEF linked, Typed, NetState
  <2> QED BY <2>1, <2>2, RxInvFrame DEF NoNewBug
<1> QED BY <1>1, <1>2, <1>3, <1>4 DEF Xmit

LEMMA RxDmaInv ==
    ASSUME Typed, Typed', RxRing(rx), RxInv, RxDma \/ RxMissed PROVE RxInv' /\ NoNewBug
<1>1. /\ Missing(rx') = Missing(rx) /\ rx'.cnt >= rx.cnt /\ Got(rx') >= Got(rx)
      /\ rx'.ovf => rx.ovf \/ Missing(rx) + Got(rx) >= RxDescs
  BY RxDmaStep
<1>2. UNCHANGED <<mask, net, poll, sched, oom, reset, bug, disturbed>>
  BY DEF RxDma, RxMissed
<1>3. /\ rx.cnt \in Nat /\ rx'.cnt \in Nat /\ Missing(rx) \in 0 .. RxDescs
      /\ Got(rx) \in Nat /\ Got(rx') \in Nat
  BY MissingIn, GotIn DEF Typed, RxState
<1>4. (rx.cnt > 0 => rx'.cnt > 0) /\ (Got(rx) > 0 => Got(rx') > 0)
  BY <1>1, <1>3
<1>5. PollInv'
  BY <1>1, <1>2, <1>4 DEF RxInv, PollInv
<1>6. AllocInv'
  BY <1>2 DEF RxInv, AllocInv
<1>7. rx'.ovf /\ poll.pc = "idle" => Got(rx') > 0 \/ "nomem" \in disturbed
  <2> SUFFICES ASSUME rx'.ovf, poll.pc = "idle", "nomem" \notin disturbed PROVE Got(rx') > 0
    OBVIOUS
  <2>1. CASE rx.ovf
    BY <1>4, <2>1 DEF RxInv, DueInv
  <2>2. CASE Missing(rx) + Got(rx) >= RxDescs
    <3>1. ~(Missing(rx) > 0)
      BY DEF RxInv, PollInv
    <3> QED BY <1>3, <1>4, <2>2, <3>1, Sizes
  <2> QED BY <1>1, <2>1, <2>2
<1>8. DueInv'
  BY <1>2, <1>4, <1>7 DEF RxInv, DueInv
<1> QED BY <1>2, <1>5, <1>6, <1>8 DEF RxInv, NoNewBug

LEMMA IntrInv ==
    ASSUME Typed, Typed', TxLockless, TxInv, RxInv, ag7100_intr PROVE RxInv' /\ NoNewBug
<1> DEFINE m == IF isr_rx THEN ag7100_intr_disable_recv(mask) ELSE mask
           one == IF tx.sent > 1 THEN [tx EXCEPT !.sent = @ - 1] ELSE [tx EXCEPT !.sent = 0]
           t == IF isr_tx THEN after_reap(one, tx.head, tx.tail) ELSE tx
           wake == isr_tx /\ net.stopped /\ may_start(t.head, t.tail) /\ net.carrier
<1>1. \/ BUG("intr: interrupt while in poll") /\ isr_rx /\ (sched \/ ~running)
      \/ BUG("tx_reap: buf_pkt") /\ ~BUG("intr: interrupt while in poll")
      \/ /\ sched' = (sched \/ isr_rx)
         /\ mask' = IF wake THEN ag7100_intr_disable_tx(m) ELSE m
         /\ net' = [net EXCEPT !.stopped = @ /\ ~wake]
         /\ UNCHANGED <<rx, poll, oom, reset, bug, disturbed>>
  BY DEF ag7100_intr, BUG
<1>2. m.rx = (mask.rx /\ ~isr_rx) /\ m \in MaskState
  BY DEF ag7100_intr_disable_recv, Typed, MaskState
<1> HIDE DEF m, wake
<1>3. CASE BUG("intr: interrupt while in poll") /\ isr_rx /\ (sched \/ ~running)
  <2>1. disturbed # {}
    BY <1>3 DEF RxInv, DueInv, AllocInv, running, isr_rx
  <2> QED BY <1>3, <2>1, BugInTrouble
<1>4. CASE BUG("tx_reap: buf_pkt") /\ ~BUG("intr: interrupt while in poll")
  <2>1. CASE disturbed # {}
    BY <1>4, <2>1, BugInTrouble
  <2>2. CASE disturbed = {}
    <3>1. bug' = bug
      BY <1>4, <2>2, IntrWhole DEF TxInv
    <3>2. RxInv'
      BY <1>4, RxInvFrame DEF BUG
    <3> QED BY <3>1, <3>2 DEF NoNewBug
  <2> QED BY <2>1, <2>2
<1>5. CASE /\ sched' = (sched \/ isr_rx)
           /\ mask' = IF wake THEN ag7100_intr_disable_tx(m) ELSE m
           /\ net' = [net EXCEPT !.stopped = @ /\ ~wake]
           /\ UNCHANGED <<rx, poll, oom, reset, bug, disturbed>>
  <2>1. mask'.rx = (mask.rx /\ ~isr_rx)
    BY <1>2, <1>5 DEF ag7100_intr_disable_tx, MaskState
  <2>2. net'.alloc = net.alloc /\ net'.admin = net.admin
    BY <1>5 DEF Typed, NetState
  <2>3. net.alloc
    BY DEF ag7100_intr
  <2>4. PollInv'
    BY <1>5 DEF RxInv, PollInv
  <2>5. AllocInv'
    BY <1>5, <2>2, <2>3 DEF RxInv, AllocInv
  <2>6. sched' /\ poll.pc = "idle" => Got(rx) > 0 \/ disturbed \cap {"nomem", "watchdog"} # {}
    <3>1. CASE sched
      BY <3>1 DEF RxInv, DueInv
    <3>2. CASE isr_rx
      BY <3>2, GotIn DEF RxInv, DueInv, isr_rx, Typed
    <3> QED BY <1>5, <3>1, <3>2
  <2>7. mask'.rx /\ sched' => disturbed \cap {"nomem", "watchdog"} # {}
    BY <1>5, <2>1 DEF RxInv, DueInv
  <2>8. DueInv'
    BY <1>5, <2>6, <2>7 DEF RxInv, DueInv
  <2> QED BY <1>5, <2>4, <2>5, <2>8 DEF RxInv, NoNewBug
<1> QED BY <1>1, <1>3, <1>4, <1>5

LEMMA PollStartInv ==
    ASSUME Typed, BudgetFits, RxInv, PollStart PROVE RxInv' /\ NoNewBug
<1>1. poll.pc = "idle" /\ sched
  BY DEF PollStart, BhIdle
<1>2. CASE ~net.alloc
  <2>1. disturbed # {} /\ BUG("poll: ring freed")
    BY <1>1, <1>2 DEF PollStart, RxInv, AllocInv
  <2> QED BY <2>1, BugInTrouble
<1>3. CASE net.alloc /\ rx.cnt = 0
  <2>1. BUG("recv_packets: PKT_RCVD")
    BY <1>3 DEF PollStart
  <2>2. disturbed # {} \/ Got(rx) > 0
    BY <1>1 DEF RxInv, DueInv
  <2>3. CASE disturbed # {}
    BY <2>1, <2>3, BugInTrouble
  <2>4. CASE Got(rx) > 0
    <3>1. rx.missed > 0
      BY <1>3, <2>4 DEF Got, Typed, RxState
    <3>2. MissedBug'
      BY <2>1, <3>1 DEF BUG, MissedBug
    <3> QED BY <2>1, <3>2, RxInvFrame DEF BUG, NoNewBug
  <2> QED BY <2>2, <2>3, <2>4
<1>4. CASE net.alloc /\ rx.cnt # 0
  <2>1. PICK quota \in 1 .. Weight : poll' = [pc |-> "recv", quota |-> quota, got |-> FALSE]
    BY <1>4 DEF PollStart
  <2>2. UNCHANGED <<rx, mask, net, sched, oom, reset, bug, disturbed>>
    BY <1>4 DEF PollStart
  <2>3. poll'.pc = "recv" /\ poll'.quota = quota
    BY <2>1
  <2>4. rx.cnt > 0 /\ quota > 0
    BY <1>4 DEF Typed, RxState
  <2>5. Missing(rx) + quota <= RxDescs \/ "nomem" \in disturbed
    <3>1. Missing(rx) \in 0 .. RxDescs
      BY MissingIn DEF Typed
    <3>2. Missing(rx) > 0 => "nomem" \in disturbed
      BY <1>1 DEF RxInv, PollInv
    <3>3. quota <= RxDescs
      BY Sizes DEF BudgetFits
    <3> QED BY <3>1, <3>2, <3>3
  <2>6. PollInv'
    BY <1>1, <2>2, <2>3, <2>4, <2>5 DEF PollInv
  <2>7. DueInv'
    BY <2>2, <2>3 DEF RxInv, DueInv
  <2>8. AllocInv'
    BY <2>2 DEF RxInv, AllocInv
  <2> QED BY <2>2, <2>6, <2>7, <2>8 DEF RxInv, NoNewBug
<1> QED BY <1>2, <1>3, <1>4

LEMMA RecvPacketInv ==
    ASSUME Typed, Typed', RxRing(rx), RxInv, RecvPacket PROVE RxInv' /\ NoNewBug
<1>1. poll.pc = "recv" /\ poll.quota > 0 /\ rx.head \notin rx.owned
  BY DEF RecvPacket, more_to_recv
<1>2. poll.quota \in 0 .. Weight /\ Missing(rx) \in 0 .. RxDescs
  BY MissingIn DEF Typed, PollState
<1>3. CASE rx.head \notin rx.buf
  <2>1. ~(Missing(rx) < RxDescs)
    BY <1>3, AtHead DEF Typed
  <2>2. ~(Missing(rx) + poll.quota <= RxDescs)
    BY <1>1, <1>2, <2>1, Sizes
  <2>3. disturbed # {}
    BY <1>1, <2>2 DEF RxInv, PollInv
  <2>4. BUG("recv_packets: skb")
    BY <1>3 DEF RecvPacket
  <2> QED BY <2>3, <2>4, BugInTrouble
<1>4. CASE rx.head \in rx.buf
  <2>1. RxRing(rx') /\ Missing(rx') = Missing(rx) + 1 /\ rx'.ovf = rx.ovf
    BY <1>4, RecvStep
  <2>2. poll' = [poll EXCEPT !.quota = @ - 1, !.got = TRUE]
        /\ UNCHANGED <<mask, net, sched, oom, reset, bug, disturbed>>
    BY <1>4 DEF RecvPacket
  <2>3. poll'.pc = "recv" /\ poll'.quota = poll.quota - 1 /\ poll'.got
    BY <1>1, <2>2 DEF Typed, PollState
  <2>4. Missing(rx') > 0 /\ Missing(rx') + poll'.quota = Missing(rx) + poll.quota
    BY <1>2, <2>1, <2>3, Sizes
  <2>5. PollInv'
    BY <1>1, <2>2, <2>3, <2>4 DEF RxInv, PollInv
  <2>6. DueInv'
    BY <2>2, <2>3 DEF RxInv, DueInv
  <2>7. AllocInv'
    BY <2>2 DEF RxInv, AllocInv
  <2> QED BY <2>2, <2>5, <2>6, <2>7 DEF RxInv, NoNewBug
<1> QED BY <1>3, <1>4

LEMMA RecvEndInv ==
    ASSUME Typed, RxRing(rx), RxInv, RecvEnd PROVE RxInv' /\ NoNewBug
<1>1. poll.pc = "recv" /\ ~more_to_recv
  BY DEF RecvEnd
<1>2. ~(rx.cnt > 0 /\ poll.quota > 0)
  <2>1. rx.cnt > 0 => rx.head \notin rx.owned
    BY AtHead, GotIn DEF Typed
  <2> QED BY <1>1, <2>1 DEF more_to_recv
<1>3. poll.got /\ Missing(rx) > 0
  BY <1>1, <1>2 DEF RxInv, PollInv
<1>4. poll' = [poll EXCEPT !.pc = "replenish"]
      /\ UNCHANGED <<rx, mask, net, sched, oom, reset, bug, disturbed>>
  BY <1>3 DEF RecvEnd
<1>5. poll'.pc = "replenish"
  BY <1>4 DEF Typed, PollState
<1>6. PollInv'
  BY <1>1, <1>3, <1>4, <1>5 DEF RxInv, PollInv
<1>7. DueInv'
  BY <1>4, <1>5 DEF RxInv, DueInv
<1>8. AllocInv'
  BY <1>4 DEF RxInv, AllocInv
<1> QED BY <1>4, <1>6, <1>7, <1>8 DEF RxInv, NoNewBug

LEMMA PollReplenishInv ==
    ASSUME Typed, RxRing(rx), RxInv, PollReplenish PROVE RxInv' /\ NoNewBug
<1>1. poll.pc = "replenish" /\ sched /\ Missing(rx) > 0
  BY DEF PollReplenish, RxInv, PollInv
<1>2. \A k \in refills(rx) : k \in Nat /\ replenish_asserts(rx, k)
  BY <1>1, RefillsType, RefillCount DEF Typed
<1>3. PICK k \in refills(rx) :
          /\ replenish_asserts(rx, k)
          /\ rx' = ag7100_rx_replenish(rx, k)
          /\ poll' = [poll EXCEPT !.pc = "status"]
          /\ disturbed' = IF k < to_refill(rx) THEN disturbed \cup {"nomem"}
                          ELSE IF oom \/ mask.rx THEN disturbed
                          ELSE disturbed \ {"nomem"}
          /\ UNCHANGED <<tx, mask, net, phy, xmit, sched, oom, reset, bug>>
  BY <1>2 DEF PollReplenish
<1>4. to_refill(rx) = Missing(rx) /\ k \in 0 .. Missing(rx) /\ Missing(rx') = Missing(rx) - k
  BY <1>3, Refill DEF Typed
<1>5. poll'.pc = "status"
  BY <1>3 DEF Typed, PollState
<1>6. Missing(rx') > 0 => "nomem" \in disturbed'
  <2>1. Missing(rx) \in 0 .. RxDescs
    BY MissingIn DEF Typed
  <2>2. Missing(rx') > 0 => k < to_refill(rx)
    BY <1>4, <2>1
  <2> QED BY <1>3, <2>2
<1>7. disturbed \ {"nomem"} \subseteq disturbed'
  BY <1>3
<1>8. "nomem" \in disturbed => "nomem" \in disturbed' \/ (~oom /\ ~mask.rx)
  BY <1>3
<1>9. PollInv'
  BY <1>1, <1>3, <1>5, <1>6 DEF PollInv
<1>10. DueInv'
  <2>1. oom => "nomem" \in disturbed'
    BY <1>8 DEF RxInv, DueInv
  <2>2. mask.rx /\ sched => disturbed' \cap {"nomem", "watchdog"} # {}
    BY <1>7, <1>8 DEF RxInv, DueInv
  <2> QED BY <1>3, <1>5, <2>1, <2>2 DEF DueInv
<1>11. AllocInv'
  BY <1>3, <1>7 DEF RxInv, AllocInv
<1> QED BY <1>3, <1>9, <1>10, <1>11 DEF RxInv, NoNewBug

LEMMA PollStatusInv ==
    ASSUME Typed, BudgetFits, RxRing(rx), RxInv, PollAgain \/ PollOom \/ PollEnd
    PROVE  RxInv' /\ NoNewBug
<1>1. poll.pc = "status" /\ sched
  BY DEF PollAgain, PollOom, PollEnd, RxInv, PollInv
<1>2. Missing(rx) \in 0 .. RxDescs /\ poll.quota \in 0 .. Weight
  BY MissingIn DEF Typed, PollState
<1>3. Missing(rx) > 0 => "nomem" \in disturbed
  BY <1>1 DEF RxInv, PollInv
<1>4. CASE PollAgain
  <2>1. rx.cnt > 0 /\ poll.quota > 0 /\ poll' = [poll EXCEPT !.pc = "recv"]
        /\ UNCHANGED <<rx, mask, net, sched, oom, reset, bug, disturbed>>
    BY <1>4 DEF PollAgain
  <2>2. poll'.pc = "recv" /\ poll'.quota = poll.quota
    BY <2>1 DEF Typed, PollState
  <2>3. Missing(rx) + poll.quota <= RxDescs \/ "nomem" \in disturbed
    BY <1>2, <1>3, Sizes DEF BudgetFits
  <2>4. PollInv'
    BY <1>1, <2>1, <2>2, <2>3 DEF PollInv
  <2>5. DueInv'
    BY <2>1, <2>2 DEF RxInv, DueInv
  <2>6. AllocInv'
    BY <2>1 DEF RxInv, AllocInv
  <2> QED BY <2>1, <2>4, <2>5, <2>6 DEF RxInv, NoNewBug
<1>5. CASE PollOom
  <2>1. poll'.pc = "idle" /\ ~sched' /\ UNCHANGED <<rx, mask, net, reset, bug, disturbed>>
    BY <1>5 DEF PollOom, NoPoll
  <2>2. "nomem" \in disturbed
    <3>1. Missing(rx) = RxDescs
      BY <1>5 DEF PollOom, ag7100_rx_ring_full, Missing
    <3> QED BY <1>3, <3>1, Sizes
  <2>3. PollInv'
    BY <2>1, <2>2 DEF PollInv
  <2>4. DueInv'
    BY <2>1, <2>2 DEF DueInv
  <2>5. AllocInv'
    BY <2>1 DEF RxInv, AllocInv
  <2> QED BY <2>1, <2>3, <2>4, <2>5 DEF RxInv, NoNewBug
<1>6. CASE PollEnd
  <2>1. /\ Missing(rx') = Missing(rx) /\ ~rx'.ovf
        /\ rx'.cnt = rx.cnt /\ rx'.missed = rx.missed
    BY <1>6, EndStep
  <2>2. poll'.pc = "idle" /\ UNCHANGED <<net, oom, reset, bug, disturbed>>
    BY <1>6 DEF PollEnd, NoPoll
  <2>3. (rx.cnt > 0 /\ UNCHANGED <<sched, mask>>) \/ ~sched'
    BY <1>6 DEF PollEnd
  <2>4. PollInv'
    BY <1>3, <2>1, <2>2 DEF PollInv
  <2>5. DueInv'
    <3>1. rx.cnt > 0 => Got(rx') > 0
      <4>1. rx.cnt > 0 => Got(rx) > 0
        BY GotIn DEF Typed
      <4> QED BY <2>1, <4>1 DEF Got
    <3> QED BY <2>1, <2>2, <2>3, <3>1 DEF RxInv, DueInv
  <2>6. AllocInv'
    BY <2>2, <2>3 DEF RxInv, AllocInv
  <2> QED BY <2>2, <2>4, <2>5, <2>6 DEF RxInv, NoNewBug
<1> QED BY <1>4, <1>5, <1>6

LEMMA OomInv ==
    ASSUME Typed, RxRing(rx), RxInv, ag7100_oom_timer PROVE RxInv' /\ NoNewBug
<1>1. poll.pc = "idle" /\ oom
  BY DEF ag7100_oom_timer, BhIdle
<1>2. "nomem" \in disturbed
  BY <1>1 DEF RxInv, DueInv
<1>3. ASSUME NEW what, BUG(what) PROVE RxInv' /\ NoNewBug
  BY <1>2, <1>3, BugInTrouble
<1>4. \/ \E what : BUG(what)
      \/ net.alloc /\ UNCHANGED <<tx, mask, net, phy, xmit, poll, reset, bug, disturbed>>
  BY DEF ag7100_oom_timer
<1>5. CASE net.alloc /\ UNCHANGED <<tx, mask, net, phy, xmit, poll, reset, bug, disturbed>>
  <2>1. PollInv'
    BY <1>1, <1>2, <1>5 DEF PollInv
  <2>2. DueInv'
    BY <1>2, <1>5 DEF DueInv
  <2>3. AllocInv'
    BY <1>5 DEF RxInv, AllocInv
  <2> QED BY <1>5, <2>1, <2>2, <2>3 DEF RxInv, NoNewBug
<1> QED BY <1>3, <1>4, <1>5

LEMMA ProcessInv ==
    ASSUME Typed, RxInv, ag7100_tx_timeout \/ Process PROVE RxInv' /\ NoNewBug
<1> net \in NetState
  BY DEF Typed
<1>1. poll.pc = "idle" /\ poll' = poll
  BY DEF ag7100_tx_timeout, Process, BeginClose, EndClose, Open, ResetStop, ResetOpen, BhIdle,
         BUG
<1>2. CASE ag7100_tx_timeout
  <2>1. UNCHANGED <<rx, mask, net, poll, sched, oom, bug, disturbed>> /\ reset' = "pending"
        /\ net.admin = "up" /\ reset = "none"
    BY <1>2 DEF ag7100_tx_timeout, running
  <2>2. PollInv' /\ DueInv'
    BY <2>1 DEF RxInv, PollInv, DueInv
  <2>3. AllocInv'
    BY <2>1 DEF RxInv, AllocInv
  <2> QED BY <2>1, <2>2, <2>3 DEF RxInv, NoNewBug
<1>3. CASE BeginClose
  <2>1. UNCHANGED <<rx, mask, poll, sched, oom, reset, bug>>
        /\ disturbed' = disturbed \cup {"close"} /\ net.admin = "up"
    BY <1>3 DEF BeginClose, running
  <2>2. net'.admin = "closing" /\ net'.alloc = net.alloc
    BY <1>3 DEF BeginClose, NetState
  <2>3. PollInv' /\ DueInv'
    BY <2>1 DEF RxInv, PollInv, DueInv
  <2>4. AllocInv'
    BY <2>1, <2>2 DEF RxInv, AllocInv
  <2> QED BY <2>1, <2>3, <2>4 DEF RxInv, NoNewBug
<1>4. CASE EndClose
  <2>1. net.admin = "closing" /\ ~sched
    BY <1>4 DEF EndClose
  <2>2. "close" \in disturbed
    BY <2>1 DEF RxInv, AllocInv
  <2>3. CASE ~net.alloc
    BY <1>4, <2>2, <2>3, BugInTrouble DEF EndClose
  <2>4. CASE net.alloc
    <3> DEFINE n == [net EXCEPT !.admin = "closed"]
    <3>1. ag7100_stop(n) /\ UNCHANGED <<poll, sched, oom, reset, bug, disturbed>>
      BY <1>4, <2>4 DEF EndClose
    <3>2. n \in NetState /\ n.admin = "closed"
      BY DEF NetState
    <3> HIDE DEF n
    <3>3. /\ Missing(rx') = 0 /\ rx'.cnt = 0 /\ ~rx'.ovf /\ net'.admin = "closed"
          /\ ~mask'.rx /\ ~net'.alloc
      BY <3>1, <3>2, StopRx
    <3>4. reset # "open"
      BY <2>4 DEF RxInv, AllocInv
    <3>5. PollInv'
      BY <1>1, <3>3 DEF PollInv
    <3>6. DueInv'
      BY <1>1, <2>1, <3>1, <3>3 DEF RxInv, DueInv
    <3>7. AllocInv'
      BY <2>1, <2>2, <3>1, <3>3, <3>4 DEF AllocInv
    <3> QED BY <3>1, <3>5, <3>6, <3>7 DEF RxInv, NoNewBug
  <2> QED BY <2>3, <2>4
<1>5. CASE Open
  <2> DEFINE n == [net EXCEPT !.admin = "up"]
  <2>1. ag7100_open(n) /\ UNCHANGED <<poll, sched, oom, reset, bug>> /\ net.admin = "closed"
        /\ disturbed \ {"close"} \subseteq disturbed'
    BY <1>5 DEF Open
  <2>2. n \in NetState /\ n.admin = "up"
    BY DEF NetState
  <2> HIDE DEF n
  <2>3. /\ Missing(rx') = 0 /\ rx'.cnt = 0 /\ ~rx'.ovf /\ net'.admin = "up" /\ net'.alloc
    BY <2>1, <2>2, StopRx
  <2>4. (~sched \/ "watchdog" \in disturbed) /\ reset # "open"
    BY <2>1 DEF RxInv, AllocInv
  <2>5. PollInv'
    BY <1>1, <2>3 DEF PollInv
  <2>6. DueInv'
    BY <1>1, <2>1, <2>3, <2>4 DEF RxInv, DueInv
  <2>7. AllocInv'
    BY <2>1, <2>3, <2>4 DEF AllocInv
  <2> QED BY <2>1, <2>5, <2>6, <2>7 DEF RxInv, NoNewBug
<1>6. CASE ResetStop
  <2>1. reset = "pending"
    BY <1>6 DEF ResetStop
  <2>2. CASE ~net.alloc
    <3>1. disturbed # {}
      BY <2>1, <2>2 DEF RxInv, AllocInv
    <3> QED BY <1>6, <2>2, <3>1, BugInTrouble DEF ResetStop
  <2>3. CASE net.alloc
    <3>1. /\ ag7100_stop(net) /\ UNCHANGED <<poll, sched, oom, bug>> /\ reset' = "open"
          /\ disturbed \subseteq disturbed' /\ (sched => "watchdog" \in disturbed')
      BY <1>6, <2>3 DEF ResetStop
    <3>2. /\ Missing(rx') = 0 /\ rx'.cnt = 0 /\ ~rx'.ovf /\ net'.admin = net.admin
          /\ ~mask'.rx /\ ~net'.alloc
      BY <3>1, StopRx
    <3>3. net.admin # "closed"
      BY <2>3 DEF RxInv, AllocInv
    <3>4. PollInv'
      BY <1>1, <3>2 DEF PollInv
    <3>5. DueInv'
      BY <1>1, <3>1, <3>2 DEF RxInv, DueInv
    <3>6. AllocInv'
      BY <3>1, <3>2, <3>3 DEF RxInv, AllocInv
    <3> QED BY <3>1, <3>4, <3>5, <3>6 DEF RxInv, NoNewBug
  <2> QED BY <2>2, <2>3
<1>7. CASE ResetOpen
  <2>1. /\ ag7100_open(net) /\ UNCHANGED <<poll, sched, oom, bug, disturbed>>
        /\ reset = "open" /\ reset' = "none"
    BY <1>7 DEF ResetOpen
  <2>2. /\ Missing(rx') = 0 /\ rx'.cnt = 0 /\ ~rx'.ovf /\ net'.admin = net.admin /\ net'.alloc
    BY <2>1, StopRx
  <2>3. (~sched \/ "watchdog" \in disturbed) /\ net.admin # "closed"
    BY <2>1 DEF RxInv, AllocInv
  <2>4. PollInv'
    BY <1>1, <2>2 DEF PollInv
  <2>5. DueInv'
    BY <1>1, <2>1, <2>2, <2>3 DEF RxInv, DueInv
  <2>6. AllocInv'
    BY <2>1, <2>2, <2>3 DEF RxInv, AllocInv
  <2> QED BY <2>1, <2>4, <2>5, <2>6 DEF RxInv, NoNewBug
<1> QED BY <1>2, <1>3, <1>4, <1>5, <1>6, <1>7 DEF Process

LEMMA NextRxInv ==
    ASSUME Typed, TxLockless, TxInv, RxRing(rx), BudgetFits, RxInv, [Next]_vars
    PROVE  RxInv' /\ NoNewBug
<1>1. Typed'
  BY NextTyped
<1>2. CASE UNCHANGED vars
  BY <1>2, RxInvFrame DEF vars, NoNewBug
<1>3. CASE (\E len \in Lens : HardStart(len)) \/ Xmit \/ TxDma \/ TxUnderrun \/ Cable
           \/ CheckLink
  BY <1>1, <1>3, TxRxInv
<1>4. CASE RxDma \/ RxMissed
  BY <1>1, <1>4, RxDmaInv
<1>5. CASE ag7100_intr
  BY <1>1, <1>5, IntrInv
<1>6. CASE Poll
  BY <1>1, <1>6, PollStartInv, RecvPacketInv, RecvEndInv, PollReplenishInv, PollStatusInv
     DEF Poll
<1>7. CASE ag7100_oom_timer
  BY <1>7, OomInv
<1>8. CASE ag7100_tx_timeout \/ Process
  BY <1>8, ProcessInv
<1> QED BY <1>2, <1>3, <1>4, <1>5, <1>6, <1>7, <1>8 DEF Next, Halted

LEMMA InitRxInv == ASSUME Init PROVE RxInv
<1>1. rx = NewRx /\ Missing(rx) = 0 /\ rx.cnt = 0 /\ ~rx.ovf
  <2>1. rx = NewRx
    BY DEF Init
  <2>2. Got(rx) = 0
    BY <2>1 DEF NewRx, Got
  <2> QED BY <2>1, <2>2, NewRxType, NewRxRing DEF NewRx
<1>2. poll.pc = "idle" /\ net.admin = "up" /\ net.alloc
  BY DEF Init, NoPoll
<1>3. PollInv
  BY <1>1, <1>2 DEF PollInv
<1>4. DueInv
  BY <1>1, <1>2 DEF Init, DueInv
<1>5. AllocInv
  BY <1>2 DEF Init, AllocInv
<1> QED BY <1>3, <1>4, <1>5 DEF RxInv

\* After BUG() nothing happens.
LEMMA BugIsTheEnd == ASSUME bug # "none", [Next]_vars PROVE UNCHANGED vars
<1>1. ~Alive
  BY DEF Alive
<1> QED
  BY <1>1 DEF Next, Xmit, Poll, Process, Halted, HardStart, XmitReap, XmitFill, XmitKick,
     TxDma, TxUnderrun, RxDma, RxMissed, ag7100_intr, PollStart, RecvPacket, RecvEnd,
     PollReplenish, PollAgain, PollOom, PollEnd, ag7100_oom_timer, Cable, CheckLink, ag7100_tx_timeout,
     BeginClose, EndClose, Open, ResetStop, ResetOpen, BhIdle

(***************************************************************************)
(* No assert() of the driver fails, and no freed ring is used, before the  *)
(* link, a close, a reset or the lack of memory has disturbed it, but for  *)
(* the one on PKT_RCVD, which fails only over a packet that the status     *)
(* register does not count, as the comment before it says: for rings of    *)
(* every size and every interleaving of interrupts, polls, sends and       *)
(* engines.  It needs a budget no larger than the receive ring; with a     *)
(* larger one ag7100_recv_packets takes a slot it has emptied before.      *)
(***************************************************************************)
THEOREM NoAssertionFails == ASSUME BudgetFits PROVE Spec => []AssertionsHold
<1>1. Init => RxInv /\ AssertionsHold
  BY InitRxInv DEF Init, AssertionsHold
<1>2. Typed /\ TxLockless /\ TxInv /\ RxRing(rx) /\ RxInv /\ AssertionsHold /\ [Next]_vars
        => RxInv' /\ AssertionsHold'
  <2> SUFFICES ASSUME Typed, TxLockless, TxInv, RxRing(rx), RxInv, AssertionsHold, [Next]_vars
               PROVE  RxInv' /\ AssertionsHold'
    OBVIOUS
  <2>1. RxInv' /\ NoNewBug
    BY NextRxInv
  <2>2. CASE bug = "none"
    BY <2>1, <2>2 DEF NoNewBug, AssertionsHold
  <2>3. CASE bug # "none"
    BY <2>1, <2>3, BugIsTheEnd DEF vars, AssertionsHold, MissedBug
  <2> QED BY <2>1, <2>2, <2>3
<1> QED BY <1>1, <1>2, AlwaysTyped, Lockless, AlwaysTxInv, AlwaysRxRing, PTL DEF Spec
=============================================================================
