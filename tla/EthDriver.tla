----------------------------- MODULE EthDriver -----------------------------
(***************************************************************************)
(* One port of the Ethernet driver (linux/drivers/net/ag7100/ag7100.c), as *)
(* it is built for this board: ap94_defconfig, without CONFIG_AR9100, on   *)
(* one processor and without preemption.                                   *)
(*                                                                         *)
(* Four parties share the state.  Code with bottom halves off, which is    *)
(* ag7100_hard_start, ag7100_poll and the two timers: only one runs at a   *)
(* time, but the poll hands packets to the stack, which may send from      *)
(* there.  The interrupt, which comes between any two of its steps.        *)
(* Processes, which close, open and reset the port, while neither of the   *)
(* others runs.  And the DMA engines, which run all the time.              *)
(*                                                                         *)
(* assert() ends in BUG(), which stops the machine; bug says which one     *)
(* failed.  disturbed is auxiliary: it names the things that have happened *)
(* which the driver is known not to survive.  rx.missed is auxiliary: how  *)
(* many of the packets received the status register does not count, which  *)
(* the driver says of its hardware, and does not survive either.           *)
(*                                                                         *)
(* A definition marked `Faulty' is a plausible bug of the one after it.    *)
(***************************************************************************)
EXTENDS Integers

CONSTANTS
    TxDescs,     \* AG7100_TX_DESC_CNT
    PktDescs,    \* tx_max_desc_per_ds_pkt
    LenPerDs,    \* tx_len_per_ds
    Lens,        \* lengths of the packets to send
    RxDescs,     \* AG7100_RX_DESC_CNT
    Weight,      \* AG7100_NAPI_WEIGHT
    Speeds,      \* what the PHY may report when the link is up
    Events,      \* the troubles that may come, of AllEvents
    Fatal        \* the troubles that end a behaviour, see Alive

AllEvents == {"cable", "close", "watchdog", "nomem", "stress"}

\* The assertions, and the use of a ring that has been freed.
Bugs == {"tx_reap: buf_pkt", "get_tx_ds: owned by DMA", "handle_tx_full: stopped",
         "intr: interrupt while in poll", "recv_packets: PKT_RCVD", "recv_packets: skb",
         "recv_packets: quota", "rx_replenish: owned or filled", "poll: ring freed",
         "oom_timer: ring freed", "stop: ring freed"}

TxIndex == 0 .. TxDescs - 1
RxIndex == 0 .. RxDescs - 1

VARIABLES
    tx,         \* mac_txring, its descriptors and the transmit DMA engine
    rx,         \* mac_rxring, its descriptors and the receive DMA engine
    mask,       \* [tx, rx]: the interrupts that are on in AG7100_DMA_INTR_MASK
    net,        \* what the kernel knows of the device
    phy,        \* "down" or the speed of the link
    xmit,       \* the call of ag7100_hard_start that is running
    poll,       \* the call of ag7100_poll that is running
    sched,      \* __LINK_STATE_RX_SCHED
    oom,        \* mac_oom_timer is pending
    reset,      \* mac_tx_timeout: none, pending, or open (between stop and open)
    bug,        \* the assertion that has failed, or none
    disturbed   \* auxiliary, see above

vars == <<tx, rx, mask, net, phy, xmit, poll, sched, oom, reset, bug, disturbed>>

-----------------------------------------------------------------------------
(* Rings.                                                                  *)

ag7100_ring_incr(i, n) == (i + 1) % n

\* How far j is after i on a ring of n.
ahead(i, j, n) == (j - i) % n

\* A ring with head = tail counts as empty.
ag7100_ndesc_unused(head, tail) ==
    (IF tail > head THEN 0 ELSE TxDescs) + tail - head

ag7100_tx_reap_thresh(r) == ag7100_ndesc_unused(r.head, r.tail) < TxDescs \div 2

\* Faulty: leaves room for nothing.
full_late(r) == ag7100_ndesc_unused(r.head, r.tail) < PktDescs

ag7100_tx_ring_full(r) == ag7100_ndesc_unused(r.head, r.tail) < PktDescs + 2

AG7100_TX_QSTART_THRESH == 4 * PktDescs

\* Faulty: wants more room than there is.
may_start_late(head, tail) == ag7100_ndesc_unused(head, tail) > TxDescs

may_start(head, tail) == ag7100_ndesc_unused(head, tail) >= AG7100_TX_QSTART_THRESH

\* ag7100_get_tx_ds: what goes into the next descriptor.
len_this_ds(len) ==
    IF len <= LenPerDs THEN len
    ELSE IF len <= LenPerDs + 4 THEN LenPerDs - 4 ELSE LenPerDs

\* nds_this_pkt
nds[len \in Nat] == IF len <= LenPerDs THEN 1 ELSE 1 + nds[len - len_this_ds(len)]

ag7100_rx_ring_full(r) == r.head = r.tail /\ r.tail \notin r.buf

ASSUME EthAssumption ==
    /\ PktDescs \in Nat \ {0}
    /\ LenPerDs \in Nat /\ LenPerDs > 4
    /\ TxDescs \in Nat /\ TxDescs >= AG7100_TX_QSTART_THRESH /\ TxDescs >= PktDescs + 2
    /\ Lens \subseteq Nat
    /\ \A len \in Lens : nds[len] \in 1 .. PktDescs
    /\ RxDescs \in Nat \ {0}
    /\ Weight \in Nat \ {0}
    /\ Speeds # {} /\ "down" \notin Speeds
    /\ Events \subseteq AllEvents /\ Fatal \subseteq AllEvents

-----------------------------------------------------------------------------
(* ag7100_tx_reap.  A packet starts at every index with a buffer, and buf  *)
(* says how many descriptors it has.                                       *)

starts(t) == {i \in TxIndex : t.buf[i] # 0}

last_ds(t, i) == (i + t.buf[i] - 1) % TxDescs

\* Faulty: looks at the first descriptor only.
unsent_first(t, i) == i \in t.owned

unsent(t, i) == i \in t.owned \/ last_ds(t, i) \in t.owned

\* The loop stops at the first packet that has not been sent, or at head.
reaped(t, head, tail) ==
    LET stop == {ahead(tail, i, TxDescs) : i \in {s \in starts(t) : unsent(t, s)}}
                \cup {ahead(tail, head, TxDescs)}
    IN  CHOOSE n \in stop : \A m \in stop : n <= m

\* assert(bf->buf_pkt)
reap_asserts(t, head, tail) == tail = head \/ tail \in t.owned \/ t.buf[tail] # 0

\* PKT_SENT is acknowledged once for every descriptor, before the next packet
\* is looked at.  head and tail were read before the loop.
after_reap(t, head, tail) ==
    LET after[n \in TxIndex] ==
            [t EXCEPT !.tail = (tail + n) % TxDescs,
                      !.sent = IF @ > n THEN @ - n ELSE 0,
                      !.buf = [i \in TxIndex |->
                                  IF ahead(tail, i, TxDescs) < n THEN 0 ELSE t.buf[i]]]
    IN  after[reaped(t, head, tail)]

-----------------------------------------------------------------------------
(* Who may run.                                                            *)

NoXmit == [pc |-> "idle", n |-> 0, head |-> 0, tail |-> 0]
NoPoll == [pc |-> "idle", quota |-> 0, got |-> FALSE]

\* Bound: the port is followed no further after a trouble in Fatal.
Alive == bug = "none" /\ disturbed \cap Fatal = {}

BhIdle == Alive /\ xmit.pc = "idle" /\ poll.pc = "idle"

\* netif_running
running == net.admin = "up"

BUG(what) ==
    /\ bug' = what
    /\ UNCHANGED <<tx, rx, mask, net, phy, xmit, poll, sched, oom, reset, disturbed>>

-----------------------------------------------------------------------------
(* Transmission: ag7100_hard_start.                                        *)

\* Called by the queue discipline, also for what the stack sends while the poll
\* hands it a packet.  A packet of a bad length is dropped.
HardStart(len) ==
    /\ Alive /\ xmit.pc = "idle" /\ poll.pc \in {"idle", "recv"}
    /\ running /\ net.alloc /\ ~net.stopped
    /\ xmit' = [pc |-> IF ag7100_tx_reap_thresh(tx) THEN "reap" ELSE "fill",
                n |-> nds[len], head |-> tx.head, tail |-> tx.tail]
    /\ UNCHANGED <<tx, rx, mask, net, phy, poll, sched, oom, reset, bug, disturbed>>

\* The queue is running: there is nothing to wake.
XmitReap ==
    /\ Alive /\ xmit.pc = "reap"
    /\ IF reap_asserts(tx, xmit.head, xmit.tail)
       THEN /\ tx' = after_reap(tx, xmit.head, xmit.tail)
            /\ xmit' = [NoXmit EXCEPT !.pc = "fill", !.n = xmit.n]
            /\ UNCHANGED <<rx, mask, net, phy, poll, sched, oom, reset, bug, disturbed>>
       ELSE BUG("tx_reap: buf_pkt")

\* The first descriptor is given to the DMA engine last: to the engine this is
\* one step.
XmitFill ==
    LET D == {(tx.head + i) % TxDescs : i \in 0 .. xmit.n - 1}
    IN  /\ Alive /\ xmit.pc = "fill"
        /\ IF D \cap tx.owned = {}
           THEN /\ tx' = [tx EXCEPT !.buf[tx.head] = xmit.n, !.owned = @ \cup D,
                                    !.head = (@ + xmit.n) % TxDescs]
                /\ xmit' = [NoXmit EXCEPT !.pc = "kick"]
                /\ UNCHANGED <<rx, mask, net, phy, poll, sched, oom, reset, bug, disturbed>>
           ELSE BUG("get_tx_ds: owned by DMA")

\* The queue stops before the interrupt goes on.
ag7100_handle_tx_full ==
    /\ net' = [net EXCEPT !.stopped = TRUE]
    /\ mask' = [mask EXCEPT !.tx = TRUE]
    /\ bug' = IF net.stopped THEN "handle_tx_full: stopped" ELSE bug

\* The engine is started, and the queue stopped if there may be no room for another.
XmitKick ==
    /\ Alive /\ xmit.pc = "kick"
    /\ xmit' = NoXmit
    /\ tx' = [tx EXCEPT !.run = TRUE]
    /\ IF ag7100_tx_ring_full(tx) THEN ag7100_handle_tx_full ELSE UNCHANGED <<net, mask, bug>>
    /\ UNCHANGED <<rx, phy, poll, sched, oom, reset, disturbed>>

-----------------------------------------------------------------------------
(* The DMA engines, which are hardware.                                    *)

\* The count of packets sent ends here.
SentMax == TxDescs

\* A descriptor has been sent; the count goes up with the last of a packet.
TxDma ==
    /\ Alive /\ tx.run /\ tx.dma \in tx.owned
    /\ tx' = [tx EXCEPT
                !.owned = @ \ {tx.dma},
                !.dma = ag7100_ring_incr(@, TxDescs),
                !.sent = IF @ < SentMax /\ \E i \in starts(tx) : last_ds(tx, i) = tx.dma
                         THEN @ + 1 ELSE @]
    /\ UNCHANGED <<rx, mask, net, phy, xmit, poll, sched, oom, reset, bug, disturbed>>

\* The engine stops at a descriptor that is not its own.
TxUnderrun ==
    /\ Alive /\ tx.run /\ tx.dma \notin tx.owned
    /\ tx' = [tx EXCEPT !.run = FALSE]
    /\ UNCHANGED <<rx, mask, net, phy, xmit, poll, sched, oom, reset, bug, disturbed>>

\* A packet arrives and is counted in AG7100_DMA_RX_STATUS.  Without a free
\* descriptor the engine stops.
RxDma ==
    /\ Alive /\ rx.run
    /\ rx' = IF rx.dma \in rx.owned
             THEN [rx EXCEPT !.owned = @ \ {rx.dma}, !.cnt = @ + 1,
                             !.dma = ag7100_ring_incr(@, RxDescs)]
             ELSE [rx EXCEPT !.ovf = TRUE, !.run = FALSE]
    /\ UNCHANGED <<tx, mask, net, phy, xmit, poll, sched, oom, reset, bug, disturbed>>

\* "NO RX INTR & STATUS REG NOT UPDATED": the same, and the packet is not counted.
RxMissed ==
    /\ Alive /\ "stress" \in Events
    /\ rx.run /\ rx.dma \in rx.owned
    /\ rx' = [rx EXCEPT !.owned = @ \ {rx.dma}, !.missed = @ + 1,
                        !.dma = ag7100_ring_incr(@, RxDescs)]
    /\ UNCHANGED <<tx, mask, net, phy, xmit, poll, sched, oom, reset, bug, disturbed>>

-----------------------------------------------------------------------------
(* The interrupt.                                                          *)

\* Faulty: the transmit interrupt stays on.
tx_on_still(m) == m

ag7100_intr_disable_tx(m) == [m EXCEPT !.tx = FALSE]

\* Faulty: the receive interrupt stays on.
rx_on_still(m) == m

ag7100_intr_disable_recv(m) == [m EXCEPT !.rx = FALSE]

isr_rx == mask.rx /\ (rx.cnt > 0 \/ rx.ovf)
isr_tx == mask.tx /\ tx.sent > 0

\* One call serves both directions.  RX and OVF schedule a poll.  TX reaps, and
\* wakes the queue when there is room again.
ag7100_intr ==
    /\ Alive /\ net.alloc
    /\ isr_rx \/ isr_tx
    /\ LET m == IF isr_rx THEN ag7100_intr_disable_recv(mask) ELSE mask
           one == IF tx.sent > 1 THEN [tx EXCEPT !.sent = @ - 1] ELSE [tx EXCEPT !.sent = 0]
           t == IF isr_tx THEN after_reap(one, tx.head, tx.tail) ELSE tx
           wake == isr_tx /\ net.stopped /\ may_start(t.head, t.tail) /\ net.carrier
       IN  IF isr_rx /\ (sched \/ ~running) THEN BUG("intr: interrupt while in poll")
           ELSE IF isr_tx /\ ~reap_asserts(tx, tx.head, tx.tail) THEN BUG("tx_reap: buf_pkt")
           ELSE /\ sched' = (sched \/ isr_rx)
                /\ tx' = t
                /\ mask' = IF wake THEN ag7100_intr_disable_tx(m) ELSE m
                /\ net' = [net EXCEPT !.stopped = @ /\ ~wake]
                /\ UNCHANGED <<rx, phy, xmit, poll, oom, reset, bug, disturbed>>

-----------------------------------------------------------------------------
(* Reception: ag7100_poll and ag7100_recv_packets.                         *)

\* assert(status & AG7100_RX_STATUS_PKT_RCVD)
PollStart ==
    /\ BhIdle /\ sched
    /\ IF ~net.alloc THEN BUG("poll: ring freed")
       ELSE IF rx.cnt = 0 THEN BUG("recv_packets: PKT_RCVD")
       ELSE /\ \E quota \in 1 .. Weight :
                  poll' = [pc |-> "recv", quota |-> quota, got |-> FALSE]
            /\ UNCHANGED <<tx, rx, mask, net, phy, xmit, sched, oom, reset, bug, disturbed>>

more_to_recv == poll.quota > 0 /\ rx.head \notin rx.owned

\* One packet goes up the stack, counted or not, and PKT_RCVD is acknowledged once.
RecvPacket ==
    /\ Alive /\ xmit.pc = "idle" /\ poll.pc = "recv"
    /\ more_to_recv
    /\ IF rx.head \notin rx.buf THEN BUG("recv_packets: skb")
       ELSE /\ rx' = [rx EXCEPT !.cnt = IF @ > 0 THEN @ - 1 ELSE 0,
                                !.missed = IF rx.cnt = 0 /\ @ > 0 THEN @ - 1 ELSE @,
                                !.buf = @ \ {rx.head},
                                !.head = ag7100_ring_incr(@, RxDescs)]
            /\ poll' = [poll EXCEPT !.quota = @ - 1, !.got = TRUE]
            /\ UNCHANGED <<tx, mask, net, phy, xmit, sched, oom, reset, bug, disturbed>>

\* assert(iquota != quota)
RecvEnd ==
    /\ Alive /\ xmit.pc = "idle" /\ poll.pc = "recv"
    /\ ~more_to_recv
    /\ IF ~poll.got THEN BUG("recv_packets: quota")
       ELSE /\ poll' = [poll EXCEPT !.pc = "replenish"]
            /\ UNCHANGED <<tx, rx, mask, net, phy, xmit, sched, oom, reset, bug, disturbed>>

\* From tail to head, all around if they are the same; it stops when there is no
\* memory, after k buffers.
ag7100_rx_replenish(r, k) ==
    LET S == {(r.tail + i) % RxDescs : i \in 0 .. k - 1}
    IN  [r EXCEPT !.buf = @ \cup S, !.owned = @ \cup S, !.tail = (@ + k) % RxDescs]

to_refill(r) == IF r.head = r.tail THEN RxDescs ELSE ahead(r.tail, r.head, RxDescs)

\* Both assertions of the loop, for the slots it gets to.
replenish_asserts(r, k) ==
    \A i \in 0 .. k : i < to_refill(r) => (r.tail + i) % RxDescs \notin r.owned \cup r.buf

refills(r) == {k \in 0 .. to_refill(r) : k < to_refill(r) => "nomem" \in Events}

PollReplenish ==
    /\ Alive /\ poll.pc = "replenish"
    /\ \E k \in refills(rx) :
          IF replenish_asserts(rx, k)
          THEN /\ rx' = ag7100_rx_replenish(rx, k)
               /\ poll' = [poll EXCEPT !.pc = "status"]
               /\ disturbed' = IF k < to_refill(rx) THEN disturbed \cup {"nomem"}
                               ELSE IF oom \/ mask.rx THEN disturbed
                               ELSE disturbed \ {"nomem"}
               /\ UNCHANGED <<tx, mask, net, phy, xmit, sched, oom, reset, bug>>
          ELSE BUG("rx_replenish: owned or filled")

\* More packets have come and there is quota left.
PollAgain ==
    /\ Alive /\ poll.pc = "status"
    /\ rx.cnt > 0 /\ poll.quota > 0
    /\ poll' = [poll EXCEPT !.pc = "recv"]
    /\ UNCHANGED <<tx, rx, mask, net, phy, xmit, sched, oom, reset, bug, disturbed>>

\* Out of memory: the timer is started, interrupts stay off.
PollOom ==
    /\ Alive /\ poll.pc = "status"
    /\ ~(rx.cnt > 0 /\ poll.quota > 0)
    /\ ag7100_rx_ring_full(rx)
    /\ poll' = NoPoll
    /\ sched' = FALSE
    /\ oom' = TRUE
    /\ UNCHANGED <<tx, rx, mask, net, phy, xmit, reset, bug, disturbed>>

\* Faulty: the engine is not started again after an overflow.
stopped_after_ovf(r) == [r EXCEPT !.ovf = FALSE]

restarted(r) == IF r.ovf THEN [r EXCEPT !.ovf = FALSE, !.run = TRUE] ELSE r

\* Faulty: interrupts are left off.
recv_off_still(m) == m

ag7100_intr_enable_recv(m) == [m EXCEPT !.rx = TRUE]

\* Done, or out of quota and to be polled again.
PollEnd ==
    /\ Alive /\ poll.pc = "status"
    /\ ~(rx.cnt > 0 /\ poll.quota > 0)
    /\ ~ag7100_rx_ring_full(rx)
    /\ poll' = NoPoll
    /\ rx' = restarted(rx)
    /\ IF rx.cnt > 0 THEN UNCHANGED <<sched, mask>>
       ELSE sched' = FALSE /\ mask' = ag7100_intr_enable_recv(mask)
    /\ UNCHANGED <<tx, net, phy, xmit, oom, reset, bug, disturbed>>

ag7100_oom_timer ==
    /\ BhIdle /\ oom
    /\ IF ~net.alloc THEN BUG("oom_timer: ring freed")
       ELSE \E k \in refills(rx) :
          IF replenish_asserts(rx, k)
          THEN LET r == ag7100_rx_replenish(rx, k)
               IN  /\ rx' = r
                   /\ oom' = ag7100_rx_ring_full(r)
                   /\ sched' = (sched \/ (~oom' /\ running))
                   /\ UNCHANGED <<tx, mask, net, phy, xmit, poll, reset, bug, disturbed>>
          ELSE BUG("rx_replenish: owned or filled")

-----------------------------------------------------------------------------
(* The link.                                                               *)

Cable ==
    /\ Alive /\ "cable" \in Events
    /\ phy' \in (Speeds \cup {"down"}) \ {phy}
    /\ UNCHANGED <<tx, rx, mask, net, xmit, poll, sched, oom, reset, bug, disturbed>>

\* ag7100_check_link, called every two seconds and by ag7100_open.
linked(n) ==
    IF phy = "down"
    THEN [n EXCEPT !.carrier = FALSE, !.stopped = @ \/ n.carrier]
    ELSE IF n.carrier /\ n.speed = phy THEN n
    ELSE [n EXCEPT !.carrier = TRUE, !.speed = phy, !.stopped = FALSE]

\* Starting the queue while the ring is full leaves the transmit interrupt on.
CheckLink ==
    /\ BhIdle /\ net.alloc
    /\ linked(net) # net
    /\ net' = linked(net)
    /\ disturbed' = IF mask.tx /\ ~net'.stopped THEN disturbed \cup {"cable"} ELSE disturbed
    /\ UNCHANGED <<tx, rx, mask, phy, xmit, poll, sched, oom, reset, bug>>

-----------------------------------------------------------------------------
(* Opening, closing and the reset after a transmit timeout.                *)

NewTx == [head |-> 0, tail |-> 0, buf |-> [i \in TxIndex |-> 0], owned |-> {},
          dma |-> 0, sent |-> 0, run |-> FALSE]
NewRx == [head |-> 0, tail |-> 0, buf |-> RxIndex, owned |-> RxIndex,
          dma |-> 0, cnt |-> 0, missed |-> 0, ovf |-> FALSE, run |-> TRUE]

\* Rings, hardware, link, interrupts: everything but TX.
ag7100_open(n) ==
    /\ tx' = NewTx /\ rx' = NewRx
    /\ mask' = [tx |-> FALSE, rx |-> TRUE]
    /\ net' = linked([n EXCEPT !.alloc = TRUE])

\* The poll and the out-of-memory timer are left as they are.
ag7100_stop(n) ==
    /\ tx' = [NewTx EXCEPT !.run = FALSE] /\ rx' = [NewRx EXCEPT !.run = FALSE]
    /\ mask' = [tx |-> FALSE, rx |-> FALSE]
    /\ net' = [n EXCEPT !.alloc = FALSE, !.stopped = TRUE, !.carrier = FALSE]

\* dev_close: the device is marked, then a poll is waited for, then it is stopped.
BeginClose ==
    /\ BhIdle /\ "close" \in Events /\ running
    /\ net' = [net EXCEPT !.admin = "closing"]
    /\ disturbed' = disturbed \cup {"close"}
    /\ UNCHANGED <<tx, rx, mask, phy, xmit, poll, sched, oom, reset, bug>>

EndClose ==
    /\ BhIdle /\ net.admin = "closing" /\ ~sched
    /\ IF net.alloc
       THEN /\ ag7100_stop([net EXCEPT !.admin = "closed"])
            /\ UNCHANGED <<phy, xmit, poll, sched, oom, reset, bug, disturbed>>
       ELSE BUG("stop: ring freed")

Open ==
    /\ BhIdle /\ net.admin = "closed"
    /\ ag7100_open([net EXCEPT !.admin = "up"])
    /\ disturbed' = IF reset = "none" /\ ~oom THEN disturbed \ {"close"} ELSE disturbed
    /\ UNCHANGED <<phy, xmit, poll, sched, oom, reset, bug>>

\* dev_watchdog, five seconds after the last packet.
ag7100_tx_timeout ==
    /\ BhIdle /\ "watchdog" \in Events
    /\ running /\ net.carrier /\ net.stopped /\ reset = "none"
    /\ reset' = "pending"
    /\ UNCHANGED <<tx, rx, mask, net, phy, xmit, poll, sched, oom, bug, disturbed>>

\* ag7100_tx_timeout_task, which waits for nobody.
ResetStop ==
    /\ BhIdle /\ reset = "pending"
    /\ IF net.alloc
       THEN /\ ag7100_stop(net)
            /\ reset' = "open"
            /\ disturbed' = IF sched \/ oom THEN disturbed \cup {"watchdog"} ELSE disturbed
            /\ UNCHANGED <<phy, xmit, poll, sched, oom, bug>>
       ELSE BUG("stop: ring freed")

ResetOpen ==
    /\ BhIdle /\ reset = "open"
    /\ ag7100_open(net)
    /\ reset' = "none"
    /\ UNCHANGED <<phy, xmit, poll, sched, oom, bug, disturbed>>

-----------------------------------------------------------------------------
\* BUG() is the end.
Halted == ~Alive /\ UNCHANGED vars

Init ==
    /\ tx = NewTx /\ rx = NewRx
    /\ mask = [tx |-> FALSE, rx |-> TRUE]
    /\ phy \in Speeds
    /\ net = [admin |-> "up", alloc |-> TRUE, carrier |-> TRUE, stopped |-> FALSE, speed |-> phy]
    /\ xmit = NoXmit /\ poll = NoPoll
    /\ sched = FALSE /\ oom = FALSE /\ reset = "none"
    /\ bug = "none" /\ disturbed = {}

Xmit == XmitReap \/ XmitFill \/ XmitKick

Poll == PollStart \/ RecvPacket \/ RecvEnd \/ PollReplenish \/ PollAgain \/ PollOom \/ PollEnd

Process == BeginClose \/ EndClose \/ Open \/ ResetStop \/ ResetOpen

Next ==
    \/ \E len \in Lens : HardStart(len)
    \/ Xmit \/ TxDma \/ TxUnderrun \/ RxDma \/ RxMissed
    \/ ag7100_intr \/ Poll \/ ag7100_oom_timer
    \/ Cable \/ CheckLink \/ ag7100_tx_timeout \/ Process
    \/ Halted

Spec == Init /\ [][Next]_vars

\* The engine sends, interrupts are served, code that has been started runs on, and
\* so do the poll and the reset, whatever is sent before them and from there.
FairSpec ==
    /\ Spec
    /\ WF_vars(TxDma) /\ WF_vars(ag7100_intr)
    /\ WF_vars(Xmit) /\ SF_vars(Poll) /\ SF_vars(ResetOpen)

-----------------------------------------------------------------------------
(* Properties.                                                             *)

TypeOK ==
    /\ tx \in [head : TxIndex, tail : TxIndex, buf : [TxIndex -> 0 .. PktDescs],
               owned : SUBSET TxIndex, dma : TxIndex, sent : 0 .. SentMax, run : BOOLEAN]
    /\ rx \in [head : RxIndex, tail : RxIndex, buf : SUBSET RxIndex,
               owned : SUBSET RxIndex, dma : RxIndex, cnt : Nat, missed : Nat,
               ovf : BOOLEAN, run : BOOLEAN]
    /\ mask \in [tx : BOOLEAN, rx : BOOLEAN]
    /\ phy \in Speeds \cup {"down"}
    /\ net \in [admin : {"up", "closing", "closed"}, alloc : BOOLEAN,
                carrier : BOOLEAN, stopped : BOOLEAN, speed : Speeds]
    /\ xmit \in [pc : {"idle", "reap", "fill", "kick"}, n : 0 .. PktDescs,
                 head : TxIndex, tail : TxIndex]
    /\ poll \in [pc : {"idle", "recv", "replenish", "status"}, quota : 0 .. Weight,
                 got : BOOLEAN]
    /\ sched \in BOOLEAN /\ oom \in BOOLEAN
    /\ reset \in {"none", "pending", "open"}
    /\ bug \in Bugs \cup {"none"}
    /\ disturbed \subseteq AllEvents

\* "Under stress, the following assertion fails": a poll finds packets in the ring,
\* none of which the status register counts.
MissedBug == bug = "recv_packets: PKT_RCVD" /\ rx.missed > 0

\* Every assert() of the driver holds until something happens that the driver is
\* known not to survive: the cable, a close, running out of memory or a reset.  The
\* one assertion its own comment gives up fails only while the ring holds a packet
\* that was missed: when those have gone up the stack behind one that was counted,
\* it holds again.
AssertionsHold == bug # "none" => disturbed # {} \/ MissedBug

\* "The interrupt only touches the ring when Q's stopped => Tx is lockless": the
\* transmit interrupt is on only while the queue is stopped, until the link comes
\* back, or changes its speed, on a full ring.
TxLockless == mask.tx => net.stopped \/ "cable" \in disturbed

\* The same as ag7100.c has it, without the exception: while ag7100_hard_start is in
\* the ring, no interrupt comes to reap it.
InterruptLeavesRing == xmit.pc # "idle" => ~isr_tx

\* What the transmit engine reads belongs to a packet that has not been freed by
\* ag7100_tx_reap, and the receive engine writes into a buffer only.
DmaHasBuffer ==
    /\ \A d \in tx.owned : \E i \in starts(tx) : ahead(i, d, TxDescs) < tx.buf[i]
    /\ rx.owned \subseteq rx.buf

\* Every packet in the ring is between tail and head, where ag7100_tx_reap will come
\* to it: the head never catches up with the tail, as that looks like an empty ring.
NoPacketLost ==
    \A i \in starts(tx) :
        ahead(tx.tail, i, TxDescs) + tx.buf[i] <= ahead(tx.tail, tx.head, TxDescs)

\* A queue that ag7100_handle_tx_full has stopped is woken by the interrupt, if the
\* link stays and the machine does.
QueueRestarts ==
    net.stopped /\ net.carrier
        ~> ~net.stopped \/ ~net.carrier \/ disturbed # {} \/ MissedBug

\* The packet that has arrived in slot i goes up the stack, whatever is sent in the
\* meantime and however small the budget of the poll is, unless the status register
\* misses a packet: that one waits for the next to be counted.
RxDelivered ==
    \A i \in RxIndex :
        i \in rx.buf \ rx.owned ~> i \notin rx.buf \ rx.owned
                                  \/ disturbed # {} \/ rx.missed > 0

\* The receive engine is started again after an overflow, unless the poll that it
\* leads to finds no packet counted: an overflow of packets missed ends in BUG().
RxRestarts == ~rx.run ~> rx.run \/ disturbed # {} \/ MissedBug

=============================================================================
