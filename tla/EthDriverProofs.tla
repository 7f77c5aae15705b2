-------------------------- MODULE EthDriverProofs --------------------------
(***************************************************************************)
(* Theorems about EthDriver for rings, packets and budgets of every size.  *)
(***************************************************************************)
EXTENDS EthDriver, WellFoundedInduction, TLAPS

-----------------------------------------------------------------------------
(* Rings.                                                                  *)

LEMMA Sizes ==
    /\ TxDescs \in Nat \ {0}
    /\ RxDescs \in Nat \ {0}
    /\ PktDescs \in Nat \ {0}
    /\ Weight \in Nat \ {0}
    /\ \A len \in Lens : nds[len] \in 1 .. PktDescs
    /\ 0 \in TxIndex /\ 0 \in RxIndex
BY EthAssumption DEF TxIndex, RxIndex

LEMMA Wraps == ASSUME NEW n \in Nat \ {0}, NEW i \in Int PROVE i % n \in 0 .. n - 1
OBVIOUS

LEMMA TxWraps == ASSUME NEW i \in Int PROVE i % TxDescs \in TxIndex
BY Sizes, Wraps DEF TxIndex

LEMMA RxWraps == ASSUME NEW i \in Int PROVE i % RxDescs \in RxIndex
BY Sizes, Wraps DEF RxIndex

\* A set of natural numbers has a least element.
LEMMA Least ==
    ASSUME NEW S \in SUBSET Nat, S # {}
    PROVE  \E n \in S : \A m \in S : n <= m
<1>1. PICK n \in S : \A m \in S : ~(<<m, n>> \in OpToRel(<, Nat))
  BY NatLessThanWellFounded, WFMin
<1>2. \A m \in S : ~(m < n)
  BY <1>1 DEF OpToRel
<1> QED BY <1>2

\* The loop of ag7100_tx_reap goes forward, and not around.
LEMMA ReapedType ==
    ASSUME NEW t, t.buf \in [TxIndex -> 0 .. PktDescs],
           NEW head \in TxIndex, NEW tail \in TxIndex
    PROVE  reaped(t, head, tail) \in TxIndex
<1> DEFINE stop == {ahead(tail, i, TxDescs) : i \in {s \in starts(t) : unsent(t, s)}}
                   \cup {ahead(tail, head, TxDescs)}
<1>1. \A i \in TxIndex : ahead(tail, i, TxDescs) \in TxIndex
  <2> SUFFICES ASSUME NEW i \in TxIndex PROVE (i - tail) % TxDescs \in TxIndex
    BY DEF ahead
  <2>1. i - tail \in Int
    BY Sizes DEF TxIndex
  <2> QED BY <2>1, TxWraps
<1>2. stop \subseteq TxIndex /\ stop # {}
  BY <1>1 DEF starts
<1>3. \E n \in stop : \A m \in stop : n <= m
  <2>1. stop \in SUBSET Nat
    BY <1>2, Sizes DEF TxIndex
  <2> HIDE DEF stop
  <2> QED BY <1>2, <2>1, Least
<1>4. reaped(t, head, tail) = CHOOSE n \in stop : \A m \in stop : n <= m
  BY DEF reaped
<1> HIDE DEF stop
<1> QED BY <1>2, <1>3, <1>4

TxState ==
    [head : TxIndex, tail : TxIndex, buf : [TxIndex -> 0 .. PktDescs],
     owned : SUBSET TxIndex, dma : TxIndex, sent : 0 .. SentMax, run : BOOLEAN]

RxState ==
    [head : RxIndex, tail : RxIndex, buf : SUBSET RxIndex, owned : SUBSET RxIndex,
     dma : RxIndex, cnt : Nat, missed : Nat, ovf : BOOLEAN, run : BOOLEAN]

NetState ==
    [admin : {"up", "closing", "closed"}, alloc : BOOLEAN, carrier : BOOLEAN,
     stopped : BOOLEAN, speed : Speeds]

MaskState == [tx : BOOLEAN, rx : BOOLEAN]

PhyState == Speeds \cup {"down"}

XmitState ==
    [pc : {"idle", "reap", "fill", "kick"}, n : 0 .. PktDescs, head : TxIndex, tail : TxIndex]

PollState ==
    [pc : {"idle", "recv", "replenish", "status"}, quota : 0 .. Weight, got : BOOLEAN]

LEMMA ReapType ==
    ASSUME NEW t \in TxState, NEW head \in TxIndex, NEW tail \in TxIndex
    PROVE  after_reap(t, head, tail) \in TxState
<1> DEFINE n == reaped(t, head, tail)
           sent == IF t.sent > n THEN t.sent - n ELSE 0
           buf == [i \in TxIndex |-> IF ahead(tail, i, TxDescs) < n THEN 0 ELSE t.buf[i]]
<1>1. n \in TxIndex
  BY ReapedType DEF TxState
<1>2. (tail + n) % TxDescs \in TxIndex
  BY <1>1, TxWraps DEF TxIndex
<1>3. sent \in 0 .. SentMax
  BY <1>1, Sizes DEF TxState, SentMax, TxIndex
<1>4. buf \in [TxIndex -> 0 .. PktDescs]
  BY Sizes DEF TxState
<1>5. after_reap(t, head, tail) =
        [t EXCEPT !.tail = (tail + n) % TxDescs, !.sent = sent, !.buf = buf]
  BY <1>1 DEF after_reap
<1> HIDE DEF n, sent, buf
<1> QED BY <1>2, <1>3, <1>4, <1>5 DEF TxState

LEMMA NewTxType == NewTx \in TxState
BY Sizes DEF NewTx, TxState, SentMax

LEMMA NewRxType == NewRx \in RxState
BY Sizes DEF NewRx, RxState

LEMMA ReplenishType ==
    ASSUME NEW r \in RxState, NEW k \in Nat
    PROVE  ag7100_rx_replenish(r, k) \in RxState
<1> DEFINE S == {(r.tail + i) % RxDescs : i \in 0 .. k - 1}
<1>1. \A i \in Int : (r.tail + i) % RxDescs \in RxIndex
  BY RxWraps DEF RxState, RxIndex
<1>2. S \subseteq RxIndex
  BY <1>1
<1>3. (r.tail + k) % RxDescs \in RxIndex
  BY <1>1
<1>4. ag7100_rx_replenish(r, k) =
        [r EXCEPT !.buf = @ \cup S, !.owned = @ \cup S, !.tail = (@ + k) % RxDescs]
  BY DEF ag7100_rx_replenish
<1> HIDE DEF S
<1> QED BY <1>2, <1>3, <1>4 DEF RxState

LEMMA LinkedType == ASSUME phy \in PhyState, NEW n \in NetState PROVE linked(n) \in NetState
BY DEF PhyState, linked, NetState


-----------------------------------------------------------------------------
(* Types, action by action.                                                *)

Typed ==
    /\ tx \in TxState /\ rx \in RxState /\ mask \in MaskState /\ phy \in PhyState
    /\ net \in NetState /\ xmit \in XmitState /\ poll \in PollState
    /\ sched \in BOOLEAN /\ oom \in BOOLEAN /\ reset \in {"none", "pending", "open"}
    /\ bug \in Bugs \cup {"none"} /\ disturbed \in SUBSET AllEvents

LEMMA TypedOK == Typed <=> TypeOK
BY DEF Typed, TypeOK, TxState, RxState, MaskState, PhyState, NetState, XmitState, PollState

LEMMA BugTyped ==
    ASSUME Typed, NEW what \in Bugs, BUG(what) PROVE Typed'
BY DEF Typed, BUG

LEMMA Begun == NoXmit \in XmitState /\ NoPoll \in PollState
BY Sizes DEF NoXmit, NoPoll, XmitState, PollState

LEMMA XmitTyped ==
    ASSUME Typed, (\E len \in Lens : HardStart(len)) \/ Xmit PROVE Typed'
<1>1. ASSUME NEW len \in Lens, HardStart(len) PROVE Typed'
  <2>1. nds[len] \in 0 .. PktDescs
    BY Sizes
  <2>2. xmit' \in XmitState
    BY <1>1, <2>1 DEF HardStart, Typed, XmitState, TxState
  <2> QED BY <1>1, <2>2 DEF HardStart, Typed
<1>2. CASE XmitReap
  <2>1. CASE reap_asserts(tx, xmit.head, xmit.tail)
    <3>1. xmit.head \in TxIndex /\ xmit.tail \in TxIndex /\ xmit.n \in 0 .. PktDescs
      BY DEF Typed, XmitState
    <3>2. tx' \in TxState
      BY <1>2, <2>1, <3>1, ReapType DEF XmitReap, Typed
    <3>3. xmit' \in XmitState
      BY <1>2, <2>1, <3>1, Begun DEF XmitReap, XmitState
    <3> QED BY <1>2, <2>1, <3>2, <3>3 DEF XmitReap, Typed
  <2>2. CASE ~reap_asserts(tx, xmit.head, xmit.tail)
    BY <1>2, <2>2, BugTyped DEF XmitReap, Bugs
  <2> QED BY <2>1, <2>2
<1>3. CASE XmitFill
  <2> DEFINE D == {(tx.head + i) % TxDescs : i \in 0 .. xmit.n - 1}
  <2>1. CASE D \cap tx.owned = {}
    <3>1. tx.head \in Int /\ xmit.n \in 0 .. PktDescs /\ tx.head \in TxIndex
      BY Sizes DEF Typed, XmitState, TxState, TxIndex
    <3>2. \A i \in Int : (tx.head + i) % TxDescs \in TxIndex
      BY <3>1, TxWraps
    <3>3. D \subseteq TxIndex /\ (tx.head + xmit.n) % TxDescs \in TxIndex
      BY <3>1, <3>2, Sizes
    <3>4. /\ tx' = [tx EXCEPT !.buf[tx.head] = xmit.n, !.owned = @ \cup D,
                              !.head = (@ + xmit.n) % TxDescs]
          /\ xmit' = [NoXmit EXCEPT !.pc = "kick"]
          /\ UNCHANGED <<rx, mask, net, phy, poll, sched, oom, reset, bug, disturbed>>
      BY <1>3, <2>1 DEF XmitFill
    <3> HIDE DEF D
    <3>5. tx' \in TxState
      BY <3>1, <3>3, <3>4 DEF TxState, Typed
    <3>6. xmit' \in XmitState
      BY <3>4, Begun DEF XmitState
    <3> QED BY <3>4, <3>5, <3>6 DEF Typed
  <2>2. CASE D \cap tx.owned # {}
    <3>1. BUG("get_tx_ds: owned by DMA")
      BY <1>3, <2>2 DEF XmitFill
    <3> QED BY <3>1, BugTyped DEF Bugs
  <2> QED BY <2>1, <2>2
<1>4. CASE XmitKick
  <2>1. tx' \in TxState
    BY <1>4 DEF XmitKick, Typed, TxState
  <2>2. net' \in NetState /\ mask' \in MaskState /\ bug' \in Bugs \cup {"none"}
    <3>1. CASE ag7100_tx_ring_full(tx)
      <4>1. /\ net' = [net EXCEPT !.stopped = TRUE]
            /\ mask' = [mask EXCEPT !.tx = TRUE]
            /\ bug' \in {"handle_tx_full: stopped", bug}
        BY <1>4, <3>1 DEF XmitKick, ag7100_handle_tx_full
      <4>2. net' \in NetState
        BY <4>1 DEF Typed, NetState
      <4>3. mask' \in MaskState
        BY <4>1 DEF Typed, MaskState
      <4> QED BY <4>1, <4>2, <4>3 DEF Typed, Bugs
    <3>2. CASE ~ag7100_tx_ring_full(tx)
      BY <1>4, <3>2 DEF XmitKick, Typed
    <3> QED BY <3>1, <3>2
  <2> QED BY <1>4, <2>1, <2>2, Begun DEF XmitKick, Typed
<1> QED BY <1>1, <1>2, <1>3, <1>4 DEF Xmit

LEMMA DmaTyped == ASSUME Typed, TxDma \/ TxUnderrun \/ RxDma \/ RxMissed PROVE Typed'
<1>1. CASE TxDma
  <2>1. ag7100_ring_incr(tx.dma, TxDescs) \in TxIndex
    <3>1. tx.dma + 1 \in Int
      BY Sizes DEF Typed, TxState, TxIndex
    <3> QED BY <3>1, TxWraps DEF ag7100_ring_incr
  <2>2. PICK b : /\ b \in 0 .. SentMax
                 /\ tx' = [tx EXCEPT !.owned = @ \ {tx.dma},
                                     !.dma = ag7100_ring_incr(@, TxDescs), !.sent = b]
    <3>1. tx.sent \in 0 .. SentMax /\ (tx.sent < SentMax => tx.sent + 1 \in 0 .. SentMax)
      BY Sizes DEF Typed, TxState, SentMax
    <3> QED BY <1>1, <3>1 DEF TxDma
  <2>3. tx' \in TxState
    BY <2>1, <2>2 DEF Typed, TxState
  <2> QED BY <1>1, <2>3 DEF TxDma, Typed
<1>2. CASE TxUnderrun
  <2>1. tx' \in TxState
    BY <1>2 DEF TxUnderrun, Typed, TxState
  <2> QED BY <1>2, <2>1 DEF TxUnderrun, Typed
<1>3. CASE RxDma
  <2>1. ag7100_ring_incr(rx.dma, RxDescs) \in RxIndex
    <3>1. rx.dma + 1 \in Int
      BY Sizes DEF Typed, RxState, RxIndex
    <3> QED BY <3>1, RxWraps DEF ag7100_ring_incr
  <2>2. rx.cnt + 1 \in Nat
    BY DEF Typed, RxState
  <2>3. rx' \in RxState
    BY <1>3, <2>1, <2>2 DEF RxDma, Typed, RxState
  <2> QED BY <1>3, <2>3 DEF RxDma, Typed
<1>4. CASE RxMissed
  <2>1. ag7100_ring_incr(rx.dma, RxDescs) \in RxIndex
    <3>1. rx.dma + 1 \in Int
      BY Sizes DEF Typed, RxState, RxIndex
    <3> QED BY <3>1, RxWraps DEF ag7100_ring_incr
  <2>2. rx.missed + 1 \in Nat
    BY DEF Typed, RxState
  <2>3. rx' \in RxState
    BY <1>4, <2>1, <2>2 DEF RxMissed, Typed, RxState
  <2> QED BY <1>4, <2>3 DEF RxMissed, Typed
<1> QED BY <1>1, <1>2, <1>3, <1>4

LEMMA IntrTyped == ASSUME Typed, ag7100_intr PROVE Typed'
<1> DEFINE m == IF isr_rx THEN ag7100_intr_disable_recv(mask) ELSE mask
           one == IF tx.sent > 1 THEN [tx EXCEPT !.sent = @ - 1] ELSE [tx EXCEPT !.sent = 0]
           t == IF isr_tx THEN after_reap(one, tx.head, tx.tail) ELSE tx
           wake == isr_tx /\ net.stopped /\ may_start(t.head, t.tail) /\ net.carrier
<1>1. m \in MaskState
  BY DEF Typed, MaskState, ag7100_intr_disable_recv
<1>2. t \in TxState
  <2>1. one \in TxState
    BY Sizes DEF Typed, TxState, SentMax
  <2>2. tx.head \in TxIndex /\ tx.tail \in TxIndex
    BY DEF Typed, TxState
  <2> HIDE DEF one
  <2> QED BY <2>1, <2>2, ReapType DEF Typed
<1>3. \/ BUG("intr: interrupt while in poll")
      \/ BUG("tx_reap: buf_pkt")
      \/ /\ sched' = (sched \/ isr_rx)
         /\ tx' = t
         /\ mask' = IF wake THEN ag7100_intr_disable_tx(m) ELSE m
         /\ net' = [net EXCEPT !.stopped = @ /\ ~wake]
         /\ UNCHANGED <<rx, phy, xmit, poll, oom, reset, bug, disturbed>>
  BY DEF ag7100_intr
<1> HIDE DEF m, one, t, wake
<1>4. CASE /\ sched' = (sched \/ isr_rx)
           /\ tx' = t
           /\ mask' = IF wake THEN ag7100_intr_disable_tx(m) ELSE m
           /\ net' = [net EXCEPT !.stopped = @ /\ ~wake]
           /\ UNCHANGED <<rx, phy, xmit, poll, oom, reset, bug, disturbed>>
  <2>1. mask' \in MaskState
    BY <1>1, <1>4 DEF MaskState, ag7100_intr_disable_tx
  <2>2. net' \in NetState
    BY <1>4 DEF Typed, NetState
  <2> QED BY <1>2, <1>4, <2>1, <2>2 DEF Typed
<1> QED BY <1>3, <1>4, BugTyped DEF Bugs

LEMMA RefillsType == ASSUME Typed, NEW k \in refills(rx) PROVE k \in Nat
BY DEF refills

LEMMA PollTyped == ASSUME Typed, Poll \/ ag7100_oom_timer PROVE Typed'
<1>1. CASE PollStart
  <2>1. CASE net.alloc /\ rx.cnt # 0
    <3>1. PICK quota \in 1 .. Weight : poll' = [pc |-> "recv", quota |-> quota, got |-> FALSE]
      BY <1>1, <2>1 DEF PollStart
    <3>2. quota \in 0 .. Weight
      BY Sizes
    <3>3. poll' \in PollState
      BY <3>1, <3>2 DEF PollState
    <3> QED BY <1>1, <2>1, <3>3 DEF PollStart, Typed
  <2> QED BY <1>1, <2>1, BugTyped DEF PollStart, Bugs
<1>2. CASE RecvPacket
  <2>1. CASE rx.head \in rx.buf
    <3>1. ag7100_ring_incr(rx.head, RxDescs) \in RxIndex
      <4>1. rx.head + 1 \in Int
        BY Sizes DEF Typed, RxState, RxIndex
      <4> QED BY <4>1, RxWraps DEF ag7100_ring_incr
    <3>2. rx' \in RxState
      <4>1. PICK c \in Nat, w \in Nat :
                rx' = [rx EXCEPT !.cnt = c, !.missed = w, !.buf = @ \ {rx.head},
                                 !.head = ag7100_ring_incr(@, RxDescs)]
        <5>1. (IF rx.cnt > 0 THEN rx.cnt - 1 ELSE 0) \in Nat
          BY DEF Typed, RxState
        <5>2. (IF rx.cnt = 0 /\ rx.missed > 0 THEN rx.missed - 1 ELSE rx.missed) \in Nat
          BY DEF Typed, RxState
        <5> QED BY <1>2, <2>1, <5>1, <5>2 DEF RecvPacket
      <4> QED BY <3>1, <4>1 DEF Typed, RxState
    <3>3. poll' \in PollState
      <4>1. poll.quota - 1 \in 0 .. Weight
        <5>1. poll.quota > 0
          BY <1>2 DEF RecvPacket, more_to_recv
        <5>2. poll.quota \in 0 .. Weight
          BY DEF Typed, PollState
        <5> QED BY <5>1, <5>2, Sizes
      <4>2. poll' = [poll EXCEPT !.quota = @ - 1, !.got = TRUE]
        BY <1>2, <2>1 DEF RecvPacket
      <4> QED BY <4>1, <4>2 DEF Typed, PollState
    <3> QED BY <1>2, <2>1, <3>2, <3>3 DEF RecvPacket, Typed
  <2> QED BY <1>2, <2>1, BugTyped DEF RecvPacket, Bugs
<1>3. CASE RecvEnd
  <2>1. CASE poll.got
    <3>1. poll' \in PollState
      BY <1>3, <2>1 DEF RecvEnd, Typed, PollState
    <3> QED BY <1>3, <2>1, <3>1 DEF RecvEnd, Typed
  <2> QED BY <1>3, <2>1, BugTyped DEF RecvEnd, Bugs
<1>4. CASE PollReplenish
  <2>1. PICK k \in refills(rx) :
            \/ /\ rx' = ag7100_rx_replenish(rx, k)
               /\ poll' = [poll EXCEPT !.pc = "status"]
               /\ disturbed' \in {disturbed, disturbed \cup {"nomem"}, disturbed \ {"nomem"}}
               /\ UNCHANGED <<tx, mask, net, phy, xmit, sched, oom, reset, bug>>
            \/ BUG("rx_replenish: owned or filled")
    BY <1>4 DEF PollReplenish
  <2>2. rx' \in RxState \/ BUG("rx_replenish: owned or filled")
    BY <2>1, RefillsType, ReplenishType DEF Typed
  <2>3. poll' \in PollState \/ BUG("rx_replenish: owned or filled")
    BY <2>1 DEF Typed, PollState
  <2>4. disturbed' \in SUBSET AllEvents \/ BUG("rx_replenish: owned or filled")
    BY <2>1 DEF Typed, AllEvents
  <2> QED BY <2>1, <2>2, <2>3, <2>4, BugTyped DEF Typed, Bugs
<1>5. CASE PollAgain
  <2>1. poll' \in PollState
    BY <1>5 DEF PollAgain, Typed, PollState
  <2> QED BY <1>5, <2>1 DEF PollAgain, Typed
<1>6. CASE PollOom
  BY <1>6, Begun DEF PollOom, Typed
<1>7. CASE PollEnd
  <2>1. rx' \in RxState
    BY <1>7 DEF PollEnd, restarted, Typed, RxState
  <2>2. mask' \in MaskState
    BY <1>7 DEF PollEnd, ag7100_intr_enable_recv, Typed, MaskState
  <2>3. sched' \in BOOLEAN
    BY <1>7 DEF PollEnd, Typed
  <2> QED BY <1>7, <2>1, <2>2, <2>3, Begun DEF PollEnd, Typed
<1>8. CASE ag7100_oom_timer
  <2>1. CASE net.alloc
    <3>1. PICK k \in refills(rx) :
              \/ /\ rx' = ag7100_rx_replenish(rx, k)
                 /\ oom' \in BOOLEAN
                 /\ sched' \in BOOLEAN
                 /\ UNCHANGED <<tx, mask, net, phy, xmit, poll, reset, bug, disturbed>>
              \/ BUG("rx_replenish: owned or filled")
      BY <1>8, <2>1 DEF ag7100_oom_timer, ag7100_rx_ring_full
    <3>2. ag7100_rx_replenish(rx, k) \in RxState
      BY RefillsType, ReplenishType DEF Typed
    <3> QED BY <3>1, <3>2, BugTyped DEF Typed, Bugs
  <2> QED BY <1>8, <2>1, BugTyped DEF ag7100_oom_timer, Bugs
<1> QED BY <1>1, <1>2, <1>3, <1>4, <1>5, <1>6, <1>7, <1>8 DEF Poll

LEMMA OpenTyped ==
    ASSUME phy \in PhyState, NEW n \in NetState, ag7100_open(n)
    PROVE  tx' \in TxState /\ rx' \in RxState /\ mask' \in MaskState /\ net' \in NetState
<1>1. [n EXCEPT !.alloc = TRUE] \in NetState
  BY DEF NetState
<1>2. net' \in NetState
  BY <1>1, LinkedType DEF ag7100_open
<1>3. mask' \in MaskState
  BY DEF ag7100_open, MaskState
<1> QED BY <1>2, <1>3, NewTxType, NewRxType DEF ag7100_open

LEMMA StopTyped ==
    ASSUME NEW n \in NetState, ag7100_stop(n)
    PROVE  tx' \in TxState /\ rx' \in RxState /\ mask' \in MaskState /\ net' \in NetState
<1>1. net' \in NetState
  BY DEF ag7100_stop, NetState
<1>2. mask' \in MaskState
  BY DEF ag7100_stop, MaskState
<1>3. tx' \in TxState
  BY NewTxType DEF ag7100_stop, TxState
<1>4. rx' \in RxState
  BY NewRxType DEF ag7100_stop, RxState
<1> QED BY <1>1, <1>2, <1>3, <1>4

LEMMA LinkTyped == ASSUME Typed, Cable \/ CheckLink PROVE Typed'
<1>1. CASE Cable
  BY <1>1 DEF Cable, Typed, PhyState
<1>2. CASE CheckLink
  <2>1. net' \in NetState
    BY <1>2, LinkedType DEF CheckLink, Typed
  <2>2. disturbed' \in SUBSET AllEvents
    BY <1>2 DEF CheckLink, Typed, AllEvents
  <2> QED BY <1>2, <2>1, <2>2 DEF CheckLink, Typed
<1> QED BY <1>1, <1>2

LEMMA ProcessTyped == ASSUME Typed, ag7100_tx_timeout \/ Process PROVE Typed'
<1>1. CASE BeginClose
  <2>1. net' \in NetState
    BY <1>1 DEF BeginClose, Typed, NetState
  <2>2. disturbed' \in SUBSET AllEvents
    BY <1>1 DEF BeginClose, Typed, AllEvents
  <2> QED BY <1>1, <2>1, <2>2 DEF BeginClose, Typed
<1>2. CASE EndClose
  <2>1. CASE net.alloc
    <3>1. [net EXCEPT !.admin = "closed"] \in NetState
      BY DEF Typed, NetState
    <3> QED BY <1>2, <2>1, <3>1, StopTyped DEF EndClose, Typed
  <2> QED BY <1>2, <2>1, BugTyped DEF EndClose, Bugs
<1>3. CASE Open
  <2>1. [net EXCEPT !.admin = "up"] \in NetState
    BY DEF Typed, NetState
  <2>2. disturbed' \in SUBSET AllEvents
    BY <1>3 DEF Open, Typed
  <2> QED BY <1>3, <2>1, <2>2, OpenTyped DEF Open, Typed
<1>4. CASE ag7100_tx_timeout
  BY <1>4 DEF ag7100_tx_timeout, Typed
<1>5. CASE ResetStop
  <2>1. CASE net.alloc
    <3>1. disturbed' \in SUBSET AllEvents
      BY <1>5, <2>1 DEF ResetStop, Typed, AllEvents
    <3> QED BY <1>5, <2>1, <3>1, StopTyped DEF ResetStop, Typed
  <2> QED BY <1>5, <2>1, BugTyped DEF ResetStop, Bugs
<1>6. CASE ResetOpen
  BY <1>6, OpenTyped DEF ResetOpen, Typed
<1> QED BY <1>1, <1>2, <1>3, <1>4, <1>5, <1>6 DEF Process

LEMMA InitTyped == ASSUME Init PROVE Typed
<1>1. mask \in MaskState /\ net \in NetState
  BY DEF Init, MaskState, NetState
<1> QED BY <1>1, NewTxType, NewRxType, Begun DEF Init, Typed, PhyState

LEMMA NextTyped == ASSUME Typed, [Next]_vars PROVE Typed'
<1>1. CASE UNCHANGED vars
  BY <1>1 DEF vars, Typed
<1> QED BY <1>1, XmitTyped, DmaTyped, IntrTyped, PollTyped, LinkTyped, ProcessTyped
        DEF Next, Halted

LEMMA AlwaysTyped == Spec => []Typed
<1>1. Init => Typed
  BY InitTyped
<1>2. Typed /\ [Next]_vars => Typed'
  BY NextTyped
<1> QED BY <1>1, <1>2, PTL DEF Spec

(***************************************************************************)
(* The type invariant: the indices of both rings stay in them whatever the *)
(* driver, the engines and the link do, and for rings of every size.       *)
(***************************************************************************)
THEOREM TypeCorrect == Spec => []TypeOK
<1>1. Typed => TypeOK
  BY TypedOK
<1> QED BY <1>1, AlwaysTyped, PTL

-----------------------------------------------------------------------------
(* The transmit interrupt.                                                 *)

\* The queue is started by nobody but the interrupt, which then goes off, and by the
\* link, which CheckLink notes and the next ag7100_open is after a stop.
LEMMA LocklessKept == ASSUME Typed, TxLockless, [Next]_vars PROVE TxLockless'
<1>1. ASSUME UNCHANGED <<mask, net>>, "cable" \in disturbed => "cable" \in disturbed'
      PROVE  TxLockless'
  BY <1>1 DEF TxLockless
<1>2. ASSUME NEW what, BUG(what) PROVE TxLockless'
  BY <1>1, <1>2 DEF BUG
<1>3. CASE UNCHANGED vars
  BY <1>1, <1>3 DEF vars
<1>4. ASSUME NEW len \in Lens, HardStart(len) PROVE TxLockless'
  BY <1>1, <1>4 DEF HardStart
<1>5. CASE XmitReap
  BY <1>1, <1>2, <1>5 DEF XmitReap
<1>6. CASE XmitFill
  BY <1>1, <1>2, <1>6 DEF XmitFill
<1>7. CASE XmitKick
  <2>1. CASE ag7100_tx_ring_full(tx)
    BY <1>7, <2>1 DEF XmitKick, ag7100_handle_tx_full, TxLockless, Typed, NetState
  <2> QED BY <1>1, <1>7, <2>1 DEF XmitKick
<1>8. CASE TxDma \/ TxUnderrun \/ RxDma \/ RxMissed
  BY <1>1, <1>8 DEF TxDma, TxUnderrun, RxDma, RxMissed
<1>9. CASE ag7100_intr
  <2> DEFINE m == IF isr_rx THEN ag7100_intr_disable_recv(mask) ELSE mask
             one == IF tx.sent > 1 THEN [tx EXCEPT !.sent = @ - 1] ELSE [tx EXCEPT !.sent = 0]
             t == IF isr_tx THEN after_reap(one, tx.head, tx.tail) ELSE tx
             wake == isr_tx /\ net.stopped /\ may_start(t.head, t.tail) /\ net.carrier
  <2>1. \/ BUG("intr: interrupt while in poll")
        \/ BUG("tx_reap: buf_pkt")
        \/ /\ mask' = IF wake THEN ag7100_intr_disable_tx(m) ELSE m
           /\ net' = [net EXCEPT !.stopped = @ /\ ~wake]
           /\ disturbed' = disturbed
    BY <1>9 DEF ag7100_intr
  <2>2. m.tx = mask.tx /\ m \in MaskState
    BY DEF ag7100_intr_disable_recv, Typed, MaskState
  <2> HIDE DEF m, one, t, wake
  <2>3. CASE /\ mask' = IF wake THEN ag7100_intr_disable_tx(m) ELSE m
             /\ net' = [net EXCEPT !.stopped = @ /\ ~wake]
             /\ disturbed' = disturbed
    <3>1. wake => ~mask'.tx
      BY <2>2, <2>3 DEF ag7100_intr_disable_tx, MaskState
    <3>2. ~wake => mask'.tx = mask.tx /\ net'.stopped = net.stopped
      BY <2>2, <2>3 DEF Typed, NetState
    <3> QED BY <2>3, <3>1, <3>2 DEF TxLockless
  <2> QED BY <1>2, <2>1, <2>3
<1>10. CASE PollStart \/ RecvPacket \/ RecvEnd \/ PollAgain \/ PollOom
  BY <1>1, <1>2, <1>10 DEF PollStart, RecvPacket, RecvEnd, PollAgain, PollOom
<1>11. CASE PollReplenish
  BY <1>1, <1>2, <1>11 DEF PollReplenish
<1>12. CASE PollEnd
  <2>1. mask'.tx = mask.tx
    BY <1>12 DEF PollEnd, ag7100_intr_enable_recv, Typed, MaskState
  <2> QED BY <1>12, <2>1 DEF PollEnd, TxLockless
<1>13. CASE ag7100_oom_timer
  BY <1>1, <1>2, <1>13 DEF ag7100_oom_timer
<1>14. CASE Cable \/ ag7100_tx_timeout
  BY <1>1, <1>14 DEF Cable, ag7100_tx_timeout
<1>15. CASE CheckLink
  <2>1. mask' = mask /\ disturbed' = IF mask.tx /\ ~net'.stopped THEN disturbed \cup {"cable"}
                                     ELSE disturbed
    BY <1>15 DEF CheckLink
  <2> QED BY <2>1 DEF TxLockless
<1>16. CASE BeginClose
  <2>1. net'.stopped = net.stopped /\ mask' = mask /\ disturbed \subseteq disturbed'
    BY <1>16 DEF BeginClose, Typed, NetState
  <2> QED BY <2>1 DEF TxLockless
<1>17. ASSUME NEW n, ag7100_stop(n) \/ ag7100_open(n) PROVE TxLockless'
  <2>1. ~mask'.tx
    BY <1>17 DEF ag7100_stop, ag7100_open
  <2> QED BY <2>1 DEF TxLockless
<1>18. CASE EndClose \/ ResetStop
  BY <1>2, <1>17, <1>18 DEF EndClose, ResetStop
<1>19. CASE Open \/ ResetOpen
  BY <1>17, <1>19 DEF Open, ResetOpen
<1> QED BY <1>3, <1>4, <1>5, <1>6, <1>7, <1>8, <1>9, <1>10, <1>11, <1>12, <1>13, <1>14,
           <1>15, <1>16, <1>18, <1>19 DEF Next, Xmit, Poll, Process, Halted

(***************************************************************************)
(* The comment before ag7100_handle_tx_full, for every ring: the transmit  *)
(* interrupt is on only while the queue is stopped, until ag7100_check_link *)
(* starts the queue of a full ring.                                        *)
(***************************************************************************)
THEOREM Lockless == Spec => []TxLockless
<1>1. Init => TxLockless
  BY DEF Init, TxLockless
<1>2. Typed /\ TxLockless /\ [Next]_vars => TxLockless'
  BY LocklessKept
<1> QED BY <1>1, <1>2, AlwaysTyped, PTL DEF Spec

=============================================================================
