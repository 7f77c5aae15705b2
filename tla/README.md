# A TLA+ model of the XWR100 router

The repository is the GPL source of the Vizio XWR100 router: a Linux kernel and a
boot loader, some thirty third-party programs, and the router's own programs,
most of which (`rc`, `httpd`, `udhcpdset`, `iptbl`, `libutility`, ...) are present as
object files only. This project models the parts that carry behaviour of the router
itself *and* are there as source: the two DHCP daemons (udhcp 0.9.8 with deep changes
by the manufacturer: the `gemtek_added_SRC` macros, the uptime clock, the handling of
the LAN address, the BOOTP counter), the UPnP gateway device, the IGMP proxy and the
driver of the Ethernet ports.

Paths below are relative to `src/GTK/user/apps/`, except `linux/...`, which is under
`src/`.

## Inventory

| Part | State | Operations | What is hard |
|---|---|---|---|
| LAN DHCP server, `udhcpd-0.9.8` | lease table, configuration, lease file, timeout of the next save | DISCOVER, REQUEST, DECLINE, RELEASE, INFORM; SIGUSR1 (save), SIGUSR2 (reload), SIGTERM; auto save | seconds of ARP probing in the middle of a handler; a bounded table that also holds reservations; the LAN address changed under it; a crash in the middle of a save |
| WAN DHCP client, `udhcpc-0.9.8` | protocol state, T1, T2, lease, timeout, socket mode, BOOTP counter (also in nvram), the interface's address | three timeouts' worth of retries, OFFER, ACK, NAK; SIGUSR1 (renew), SIGUSR2 (release), SIGTERM | timers that move towards the end of the lease; signals in every state; late and foreign messages |
| UPnP gateway, `linuxigd-0.95` | list of port mappings, iptables rules, events of the timer thread, jobs of the thread pool | AddPortMapping, DeletePortMapping, expiry, SIGUSR1 (delete all), SIGTERM, start | four kinds of thread; a job that waits for the mutex with a pointer to memory that a request frees meanwhile; requests served before the state is initialised |
| IGMP proxy, `igmp/` | groups, members and timers of every interface, querier state, kernel memberships, iptables rules | reports, leaves, queries, ageing, stop and start | one packet a second; suppressed and lost answers; another router; a limit on memberships |
| Ethernet driver, `linux/drivers/net/ag7100` | two descriptor rings shared with DMA engines, interrupt mask, queue, poll, timers | transmit, interrupt, poll, out-of-memory timer, link timer, open, close, reset | an interrupt between any two steps; no lock on the transmit ring; counters acknowledged by hand |
| ARP probe, `udhcpd-0.9.8/arpping.c` | none | one probe | takes up to two seconds; its answer is the network's |
| Packet code, `packet.c`, `options.c`, `socket.c` | none | encode, decode, send, receive | bytes; not modelled |
| Buttons and LEDs, `GPIO/` | LED mode, kernel timers, button ticks | timer handlers, `/proc` writes | timers against writers; planned |
| DNS forwarder `dnsmasq/` | forward table and cache | - | candidate |
| Control programs `rc`, `httpd`, `udhcpdset`, `iptbl` | nvram | start, stop and signal the daemons, change the LAN address | object files only: the environment of the models |

The parts do not call each other: one DHCP daemon serves the LAN and the other asks
the provider on the WAN, the gateway and the proxy each own their iptables rules, and
the driver is below all of them. What they share is the nvram, log files and the
control programs, which act through signals, configuration files, `lan_ipaddr` in
nvram, the lease file (read by the web interface) and the client's script. Inside the
gateway and inside the driver there is concurrency: threads around one mutex there,
interrupt, poll, timers, processes and hardware here.

What makes the server correct: one entry per client and per address; an ACK that
leaves the router is in the table for as long as it promises; nobody gets the router's
address or, with an OFFER, somebody else's; a full table or another client's traffic
takes no live lease away; a completed save comes back after a restart; handlers end
and saves happen. The client: no address without a lease and none after its end; no
lease lost early or without having asked; an open socket of the right kind while an
answer is awaited; every lease ends; a network that answers is enough to get one. The
gateway: a port has one owner and changes hands only by being free in between; rules
are those of the list; a mapping goes when its time has come and not before. The
proxy: who wants a group and answers keeps it, what nobody wants goes, rules and
memberships are those of the groups, and somebody always asks. The driver: its
assertions hold, the engines only touch memory that is theirs, no packet is lost or
stuck in a ring, a stopped queue and a stopped engine start again.

`PROJECT.json` lists the hazards behind these, line by line.

## Modules

| Module | Models | Extends |
|---|---|---|
| `LeaseTable` | `leases.c`: the table and the operations on it, as operators on a table value | |
| `DhcpServer` | `dhcpd.c`, `serverpacket.c`, `files.c`, the macros of `gemtek_added_SRC` | `LeaseTable` |
| `DhcpClient` | `dhcpc.c`, `clientpacket.c`, the effect of the script of `script.c` | |
| `PortBook` | abstract: what the gateway promises about ports | |
| `Gateway` | `gatedevice.c`, `pmlist.c`, `main.c`, libupnp's timer thread and thread pool as the gateway uses them | instance of `PortBook` |
| `IgmpProxy` | `igmprt.c`, `igmpv2.c`, and the hosts of the LAN | |
| `EthDriver` | `ag7100.c`, `ag7100.h`, and the DMA engines | |
| `MCDhcpServer`, `MCDhcpClient`, `MCGateway`, `MCIgmpProxy` | constants of the instances for TLC | the module they are named after |
| `LeaseTableProofs`, `DhcpServerProofs`, `DhcpClientProofs`, `GatewayProofs`, `IgmpProxyProofs`, `EthDriverProofs` | theorems | the same |
| `DhcpServerLeaseProofs` | theorems about what the server hands out, keeps and saves | `DhcpServerProofs` |
| `EthRingProofs` | theorems about the two rings and the assertions of the driver | `EthDriverProofs` |

Definitions keep the names of the code. One marked `Faulty` in its comment is a
plausible bug of the definition that follows it: the properties are shown to notice it
(`mutants` in `PROJECT.json`), and no specification uses it.

### DhcpServer

The server is one single-threaded process. Between two packets it is in `select()`
(`job = Idle`). A handler that neither blocks nor can be cut short is one action:
`RequestKnown`, `RequestUnknown` (the three Gemtek macros 007, 009 and 011),
`DeclineMsg`, `ReleaseMsg`, `InformMsg`. Three loops are one action per iteration,
with the loop's state in `job`:

- `sendOffer`, `find_address`, `check_ip`: a DISCOVER. The address is looked up, then
  probed by ARP for up to two seconds, then leased; the clock ticks in between, and
  the LAN address may change. The first scan takes free addresses, the second expired
  ones; when `sendOffer` fails the main loop calls it once more (macro 005).
- `StartWrite`, `write_leases`, `WriteDone`: the lease file is truncated, then
  written entry by entry. `Kill` and `PowerCycle` may come in between.
- `StartLoad`, `read_leases`, `LoadDone`: start and SIGUSR2.

The clock `now` is the uptime (`sys_time`). `blocked` says that the process is still
in `select()` in the very second in which its timeout ends, so that a packet or a
signal of that second is served first: the loop never calls `select()` again once
`timeout_end` is reached.

`out` is what the last step sent. A `send_packet` that fails is an alternative of
every reply. A look-up by hardware address that meets the router's own address turns
that entry into a reservation (`table_after_find`), as the code does, in every
handler.

Environment: any packet of the constant `Packets` may arrive whenever the server is in
`select()`. That includes every delay, loss, duplication and reordering. `SetLan`
changes `lan_ipaddr` and the interface; the server learns of it at the next SIGUSR2 or
start, but `IsLanIPAddr` sees it at once.

### DhcpClient

One action per case of the `switch` on a timeout (`DiscoverTimeout`, `NoOffer`,
`RequestTimeout`, `NoAnswer`, `RenewTimeout`, `RebindTimeout`), per packet
(`IgnoreOffer`, `TakeOffer`, `RecvAck`, `RecvNak`, `RecvOther`) and per signal
(`perform_renew`, `perform_release`, `Stop`). Time is relative: `left` is what is left of
the timeout, `elapsed` the age of the lease held. A timeout that is due is served
before the next second begins: the process is scheduled within the second. `blocked`
is as in the server. The script is modelled by the address it leaves on the interface
and by the arguments it was run with in the last step. `orphan` is auxiliary: the address
that SIGUSR2 during a forced renewal has left on the interface, until the script runs
again.

`Stop` is SIGTERM or a socket that cannot be opened again after a read error; the
interface keeps its address, as no script is run. `Start` brings the BOOTP counter back
from nvram.

### Gateway

Requests, expiry jobs and the main thread hold `DevMutex` for all they do, so each is
one action: `AddPortMapping`, `DeletePortMapping`, `ExpireMapping`,
`DeleteAllPortMappings` (SIGUSR1), `SigTerm`. The timer thread does not take the mutex:
`TimerThreadWorker` moves a due event from its queue to the thread pool (or drops it, if
the pool is full), and the job waits there. The main thread goes through `phase`;
requests are served from `register` on, before `StateTableInit` clears the head of the
list, and until the device is unregistered.

A mapping is a cell of memory and an event points to its cell. A freed cell keeps its
contents, is overwritten, or is handed out again by `AddPortMapping`, and a job that
comes late finds what is there (`Remains`). `CancelMappingExpiration` removes the events
whose *identifier* is in a cell; `pmlist_NewNode` does not initialise that identifier.
`sound` is auxiliary: it stays true while every cancellation has taken away what was to
come for the mappings deleted and nothing else, and no event was dropped or forgotten.
Properties that the code keeps only up to the first inexact cancellation say so by
`sound`; the run `renewed` shows one.

`PortBook` states what the hosts are promised, in terms of ports and clients only.
`ImplementsPortBook` says that the list, mapped to the set of its pairs of port and
client, behaves like it: through stale jobs, reused cells, signals and restarts. It needs
no `sound`.

### IgmpProxy

One pass of the loop of `igmprt.c` is `Timer` (countdowns of groups, querier state and
queries), then what hosts and other routers do in a second (`Second` and the actions of
hosts), then `Recv*`: at most one packet is read per pass. Hosts report when they join,
answer queries within `Response` seconds unless another host does, and announce leaves;
another router asks and may fall silent. They are external, modelled by what IGMPv2
makes of the packets the code handles. Packets are lost, with one assumption: of `RV`
answers in a row one arrives (`unanswered`). The socket buffer is bounded and drops.

A rule is added for every upstream interface, and deleted for `upstream_interface[0]`
only. Copies on the others, which never go, are counted once. `refused` is auxiliary: the
memberships, as pairs of interface and group, that the kernel did not grant when the
group was added.

### EthDriver

One port, on one processor without preemption, as `ap94_defconfig` builds it. The steps
of `ag7100_hard_start` (`HardStart`, `XmitReap`, `XmitFill`, `XmitKick`) and of
`ag7100_poll` (`PollStart`, `RecvPacket`, `RecvEnd`, `PollReplenish`, `PollAgain`,
`PollOom`, `PollEnd`) are cut where the interrupt, the DMA engines or, within the poll, a
send from the stack can come in between and be noticed. `ag7100_intr` is one action: it
runs with interrupts off. `XmitReap` uses the head and tail that `HardStart` read
before, as the code does before it takes the lock. Open, close and reset are cut at the
points where they let others run.

In the ring, `buf[i]` is the number of descriptors of the packet that starts at `i`
and 0 elsewhere; `owned` has the descriptors that belong to the engine. `ahead` is
distance on the ring.

`assert()` stops the machine in this build, so a failed one ends the behaviour and is
noted in `bug`. `disturbed` is auxiliary: it notes four of the five troubles the driver does
not survive in every order (the cable, a close, a reset, a lack of memory), from the
moment they can hurt until they are over. A trouble in `Fatal` ends a behaviour: the reset
frees rings under a running poll, and after the cable the ring may overwrite itself; what
comes then is not worth states.

The fifth trouble is "stress", the case of the comment at `ag7100.c:1354-1378`: a packet is
stored, and "NO RX INTR & STATUS REG NOT UPDATED". `RxDma` stores a packet and counts it in
the status register; `RxMissed` stores it and does not, and `rx.missed` counts what waits
in the ring without having been counted. A later interrupt lets the poll find those packets
too, as `ag7100_recv_packets` goes by the ownership of descriptors; if none comes they wait
until the ring is full, and the poll of the overflow fails the assertion on PKT_RCVD
(1379). `MissedBug` is that failure, the only one that "stress" may lead to.

`PollEnd` is one step for the last look at the status (1527), the acknowledgement of an
overflow and the restart (1551), `netif_rx_complete` (1310) and the switch of the interrupt
(1312). Only the receive engine runs in between, and its steps commute with the switch: an
arrival in that window is the same as one just after it.

## Runs

With two workers `restart`, `gateway` and `igmp` take two to three minutes, the others
less than a minute and a half.

| Run | Result | Question |
|---|---|---|
| `server` | pass, 254k states | six safety properties under every shape of packet |
| `restart` | pass, 2.2M | does a completed save come back, does a save hold every live lease, with reboots and signals at every point, while the router moves onto an address of its old pool: is that ever confirmed to a client |
| `server_live` | pass, 47k | do handlers end and saves happen |
| `client` | pass, 401k | six safety properties under every message and signal, among them that an interface without a lease has no address but an `orphan` |
| `client_live` | pass, 217k | do leases end and does a client get one although every OFFER has BOOTP data |
| `gateway` | pass, 386k | does the list implement the port book, are rules, events and mappings in step, do mappings end in time |
| `igmp` | pass, 1.1M | is a host that wants a group and answers always served, are queries sent whoever else asks, do rules and memberships match, does what nobody wants go |
| `ethernet` | pass, 3.7M | do the rings stay whole and does no assertion fail without a trouble, under interrupts, cable, close, reset and lack of memory |
| `ethernet_live` | pass, 73k | is a stopped queue woken, is every packet delivered, does the receive engine restart, and does no other assertion than that on PKT_RCVD fail, while the status register misses packets |
| `owner`, `renewed`, `replug` | violation | a documented statement the code does not keep, see Findings |

What the less obvious properties say:

- `AckRecorded`: `sendACK` ignores the result of `add_lease`. It still never promises
  what the table does not hold, because the client's entry that every path to `sendACK`
  has found or made is cleared, and thereby free, just before.
- `OfferNotTaken`, `LiveLeaseKept`: a DISCOVER, a probe conflict or a full table never
  costs another client an unexpired entry. The only foreign packet that can is the
  REQUEST of an unknown client for that very address.
- `ReloadComplete`: entries that had expired are in the file with 0 seconds left and
  take slots on reload, but never the slot of a live one.
- `GrantedTimes`: what is granted is between `min_lease` and `lease`, whatever is
  asked for and whatever was left of an earlier offer.
- `HeldWhileValid`, `LostOnlyAtEnd`: T1 and T2 move by half of what is left with every
  unanswered renewal; the waits add up to less than the lease, and the lease is given
  up no earlier than `lease / 14400 + 1` seconds before its end.
- `RenewalTried`: leases of one to four seconds are lost without a REQUEST (T1 and T2
  are too close). From five seconds on one is always sent.
- `LeaseEnds`: with the last comparison off by one the client would send REQUESTs for
  ever in one second.
- `EventsFollowList`: no job will meet freed memory as long as cancellations are exact;
  `ExpiredOnlyWhenDue` and `MappingsExpire` are the two directions of "expires in time".
- `SteadyServed`: the timer of a group is beaten by one answer in `RV` queries although
  reports wait behind other packets, one of which is read per second: the slack in
  `IGMP_GMI` pays for that, up to `QRI - Response + 1` waiting packets.
- `QueriesKeepComing`: the proxy stands back for another router and takes over again;
  the longest silence is `IGMP_OQPI + QI` and the packets that waited before a query.
- `AssertionsHold`: the causes of every BUG of the driver. As long as the status register
  counts every packet, no order of interrupts, polls and sends is one; once it has missed
  one, the assertion on PKT_RCVD may fail, as the driver's comment says, and no other.
- `RxDelivered`, `RxRestarts`: with the same proviso. Packets that were counted go up the
  stack unless others in the ring were missed, and an engine that has stopped is started
  unless the poll has failed that assertion on the way.
- `UnleasedIsDeconfigured`: over all timeouts, NAKs and signals, with the one exception at
  `dhcpc.c:175`.
- `MembershipFollowsGroups`: a group that was added has its membership on every upstream
  interface where the kernel granted it, until the group goes; what was refused is not
  tried again.
- `TxLockless`: the reason why `ag7100_hard_start` may use the ring without a lock, with
  the one exception the code has. `NoPacketLost` and `DmaHasBuffer` are what follows for
  the ring.
- `QueueRestarts`: PKT_SENT is acknowledged once per descriptor although it counts
  packets. No interrupt is swallowed that is needed: a packet is acknowledged before the
  next one is looked at, so one that is left in the ring has yet to be counted.

### Bounds

Server: two clients compete for everything two parties can compete for; two slots
make the table smaller than the pool, so that it can be full of reservations; three
addresses, one of them the router's, make the pool smaller than the demand; `MaxTime`
stops the clock after every entry has been able to expire once more. Times are one to
three seconds, so that they end in every order. `Octet = 8` stands for 256: a subnet of
eight addresses whose first and last are skipped. `restart` has two LAN addresses. The
clients are not symmetric (the packets differ), so no symmetry is used.

Client: leases of 1, 2, 5 and 17 seconds meet every edge of T1, T2 and the slack, and
17 allows several renewals; two transaction identifiers give late answers; `MaxLeft`
bounds how far ignored OFFERs extend the wait, which the code does not.

Gateway: two cells let a freed one be reused by the same and by another mapping while
a third request fails for want of memory; three identifiers (`MaxId`) give an old event,
its successor and one more; two jobs fill the pool (`MaxJobs`); `MaxTime` is 2, enough for
one mapping to end before and one after another. A day has four seconds.

IGMP: one downstream interface with two hosts, so that one can suppress and outlive
the other; one group on two upstream interfaces and room for one membership, so that on
one of them, whichever comes first, it is granted and on the other refused; `QI = QRI = RV = 2` make every timer differ; two packets
fill the buffer. `MaxCopies` bounds what restarts leave behind. The hosts differ in
nothing, but the run checks liveness, so no symmetry is used.

Ethernet: with packets of two descriptors, ten are the smallest transmit ring in which
`ag7100_hard_start` reaps at all before the queue is stopped (half of the ring must be more than
`PktDescs + 2`); it holds four packets, wraps, and stops and starts the queue. Two receive
descriptors reach full and empty rings, and a budget of one or two polls that end by
either. `SentMax`, where the hardware's count of packets sent stops, is the size of the
ring. `ethernet_live` has the same rings, of the troubles the reset and stress, and a budget of one.
`ethernet` leaves out stress, which would make it half as large again (5.9M states, in which all
its properties hold as well).

### Fairness

`server_live` and `client_live` assume weak fairness of the steps the process takes
by itself (it is scheduled, and `select()` returns when its timeout has passed) and, for
the client, of the clock. `client_live` also assumes that a network which answers again
and again does not lose every answer: strong fairness of receiving an OFFER and an ACK.
`gateway` assumes weak fairness of the timer thread and of the pool threads, which the
SDK runs as long as there is work. `igmp` assumes weak fairness of the loop and of hosts
that have been asked. `ethernet_live` assumes weak fairness of the transmit engine, the
interrupt and code that has been started; the poll and the reset need strong fairness,
as a send from the stack may come before each of their steps, and the scheduler gives
softirqs and the work queue their turn all the same. No packet, signal, crash, restart or
cable is fair.

### Findings

- `owner`: the comparison of hardware addresses in `sendOffer` (`serverpacket.c:155`) is
  the wrong way round.
- `renewed`: an expiry that has just become a job cannot be cancelled any more. If its
  mapping is renewed at that moment the new one is put into the same memory, and the job
  deletes it long before its time (`gatedevice.c:1332`).
- `replug`: the link timer starts the queue of a full ring when the link comes back or
  changes its speed, with the transmit interrupt still on (`ag7100.c:874`): the interrupt
  reaps under `ag7100_hard_start`, whose assertions fail, and the head may reach the tail,
  upon which the full ring looks empty and its packets are overwritten.

More differences from comments and documents are visible in the models and have no run
of their own:

- the test against the pool in `read_leases` is commented out (`files.c:316`), so after the
  pool is changed old leases are confirmed outside it (`PoolRespected` is checked with
  one pool only); `update_lease_by_new_ip` may give two entries one address when the
  router changes its subnet (`OneSubnet` in the theorems); a REQUEST of an unknown client
  takes an address reserved for another;
- SIGUSR2 during a forced renewal of the client sends no RELEASE and leaves the interface
  configured, while `README.udhcpc:42-44` has `deconfig` run "when a leases is lost" (it is
  the exception that `UnleasedIsDeconfigured` names); the ACK of a forced
  renewal runs the script with `bound` although the interface is configured
  (`dhcpc.c:651`), and a NAK in REQUESTING is not followed by `deconfig` (`dhcpc.c:664`);
- a mapping that is on the list under a recycled identifier may lose its event to the
  cancellation of another and then never expires (`pmlist.c:38`); mappings added before
  `StateTableInit` are cut off the list with their rules in place;
- in the driver, an interrupt between the two halves of `dev_close` fails the assertion
  at `ag7100.c:1221`, a refill that runs out of memory half-way fails the one at 1414,
  the poll of the out-of-memory timer fails the one at 1379, and the reset frees the
  rings under a scheduled poll (1895);
- the comment before that assertion ends with "Ignore the status register ... So, we go
  ahead and receive the packets.." (`ag7100.c:1375-1377`), but the assertions at 1379 and
  1380 are compiled in (only CONFIG_AR9100 leaves them out): the driver stops instead.

## Theorems

TLAPS proves the following for every value of the constants.

Server (`DhcpServerProofs`): `TypeCorrect`, `NoDuplicateClient`, `NoDuplicateAddress`,
`AcksAreRecorded`, `RouterAddressKept`. Assumptions: `TableAssumption` and `ServerAssumption`
(types of the constants, pools inside the address range, `MinLease <= LeaseTime`).
`NoDuplicateAddress` also assumes `OneSubnet`, without which it is false (see Findings).

None of the invariants is inductive alone. The strengthening is `Inv`: the types,
`Sound(leases)` (one entry per client, an address in every client's entry and, under
`OneSubnet`, one entry per address) and `ScanInPool` (the scan of `find_address` stays in
the pool). "An address in every client's entry" is needed because `clear_lease` clears by
address only if there is one. `LeaseTableProofs` shows that `add_lease`,
`update_lease_by_new_ip` and the look-ups preserve `Sound`, and that the slot `add_lease`
clears is there for it to take: the reason why ACKs are recorded. `DhcpServerProofs` then
has one lemma per action.

What the server hands out, keeps and saves (`DhcpServerLeaseProofs`): `TimesGranted`,
`PoolIsRespected`, `OffersAreFree`, `LiveLeasesAreKept`, `SavesAreComplete`,
`ReloadsAreComplete`. `Inv` is strengthened by `Fit` and `FileFit` (an entry or a record of
a client ends no later than a lease given now would, and its address is in the pool),
`ConfPool`, `ProbeFree` (nothing enters the address under probe into the table, and what
had expired stays so), `WriteProgress` (the file holds the entries before the slot the
writer has come to, and nothing else) and, in one subnet, `FileDistinct` (no two records
for one client or address) and `LoadProgress` (record k is in slot k, the slots after the
last one read are unused). `LiveLeasesAreKept` is an action property. Two lemmas at the
end of `LeaseTableProofs` carry these: `add_lease` leaves every unexpired entry of another
client for another address in its slot, and takes a slot never used before one that has
expired.
The hypotheses are stated with the theorems:

- `OneSubnet`, as above: otherwise an address may have two entries;
- `OnePool`: the pool stays when the router moves. `PoolRespected` is about such instances,
  since a lease is not checked against the pool when it is renewed or loaded;
- `TimesOrdered`: `offer_time` does not exceed `lease`, and the file holds remaining times
  or the clock does not restart. TLC shows a violation with either of them missing: an
  entry that lasts longer than a lease is offered for as long as it lasts.

Client (`DhcpClientProofs`): `TypeCorrect`, `LeaseNotOutlived`, `ListensForAnswers`,
`InterfaceFollowsLease`, `LeaseNotLostEarly`, `NoAddressWithoutLease`,
`RenewalAlwaysTried`. `HeldWhileValid` says how old a lease is; the induction needs
`Timers`, which says when the client will look at it again: age and timeout add up to T1
or T2, and these stay in order and below the lease time. `Renewals` adds, for
`RenewalAlwaysTried`, that T1 is never below half of the lease and that REBINDING is
entered only when T1 has moved.

Gateway (`GatewayProofs`): `TypeCorrect`, `PortsUnique`, `RulesExact`, `EventsExact`,
`NotExpiredEarly` and the refinement `GatewayImplementsPortBook`. The inductive invariant is
the conjunction of the types, the shape of the two lists (`ListShape`), `OneMappingPerPort`,
identifiers of events and jobs that are all different and below the counter (`EventIds`),
times in the future or due (`EventTimes`), `Followed` (under `sound`, each mapping with an
expiry has exactly its event or job and conversely) and `RulesFollowList`. The identifiers
are what makes an exact cancellation exact: under `sound` no other event has the
identifier of a mapping. The refinement rests on `OneMappingPerPort`: a stale job
deletes at most one mapping, whatever it finds in its cell.

IGMP proxy (`IgmpProxyProofs`): `TypeCorrect`, `NoLongSilence`, `RulesBalanced`,
`MembershipExact`, `SteadyHostsServed`. `QueriesKeepComing` becomes inductive with `Quiet`:
`Pending` relates the silence to what is left of the proxy's own interval or of the other
router's presence, and `Waiting` accounts for a query of the other router that still waits
in the buffer, by its place in it.

`SteadyServed` says only that the group is there. Its invariant is `Steady`. For every
steady host there is either a report of its group in the buffer, far enough in front to be
read in time (`Awaited`), or the timer of the group is `Enough`: if all the answers that may
be lost have been, it outlasts the one that is due now and the `Slack` the buffer may
cost; if not, with v queries in vain, timer and silence add up to at least
`Need(v) == (RV - v) * QI + QRI`. A query costs at most QI and adds one to v. Two
corners need more. A querier whose own interval ends QI + 1 seconds after the last query
must have a second to spare (`Danger`). A proxy that stood back for another router
becomes such a querier when `oqp` runs out, since its own interval has stood still; then
either a second is to spare, or the timer of the group was last set before the other
router's query was read, so that at the end of `IGMP_OQPI` less than QRI would be left of
it, which contradicts the sum. `Fresh` covers the report that is read in the very second of a foreign
query. The theorem assumes `Robust`, RV >= 2 and QRI >= 2 (2 and 10 in `igmp.h`): with
RV = 1 TLC finds a violation; that QRI = 1 would fail is not shown, the argument just needs
half of it to be less than all.

Ethernet driver (`EthDriverProofs`): `TypeCorrect`, which needs that the least distance
`ag7100_tx_reap` stops at exists and is on the ring, for rings of every size, and
`Lockless`, the rule behind the lockless transmit path: inductive with the types, since
the only steps that start the queue are the interrupt, which goes off with it, the link
timer, which `disturbed` notes, and `ag7100_open`, which starts with the interrupt off.

The rings (`EthRingProofs`): `PacketsKept`, `PacketsKeptUntilCable`, `EnginesHaveBuffers`,
`NoAssertionFails`. Positions are counted from the tail, where a ring has no seam.
`TxRing`: the packets between tail and head neither overlap nor leave a gap, and the engine
owns exactly what lies between `dma` and the head. `Room`: while the transmit interrupt is
off there is room for the next packet, except where `ag7100_hard_start` has filled the ring
and is about to look; `Read`: the indices it read before it took the lock are still those of
the ring. So the head never reaches the tail. `RxRing`: the receive ring is three arcs,
slots to be refilled (`Missing`), packets received and buffers of the engine; it holds
through every trouble. The packets received are those the status counts and those it
missed (`Got`). `PollInv`, `DueInv` and `AllocInv` say why a poll is due, where it is,
and when there are rings. `CableEnds` ("cable" is in
`Fatal`) is how the run bounds behaviours; `PacketsKeptUntilCable` is the statement without
it. `NoAssertionFails` assumes `BudgetFits`, a budget no larger than the receive ring (64
and 252 as built): with a larger one TLC shows that `ag7100_recv_packets` comes back to a
slot it has emptied. It allows for one failure without a disturbance, `MissedBug`. `TxInv` and `RxInv` were checked on the `ethernet` instance first.

Model-checked only: the liveness properties (`HandlersEnd`, `AutoSaved`, `LeaseEnds`,
`EventuallyBound`, `MappingsExpire`, `UnwantedDropped`, `QueueRestarts`, `RxDelivered`,
`RxRestarts`): liveness under fairness and ENABLED are out of the prover's reach. Every
invariant and action property of the passing runs is a theorem. The type invariants
of `DhcpClient`, `Gateway`, `IgmpProxy` and `EthDriver` are proved and not part of a run.

## Not modelled

DHCP daemons:

- The iptables and `vizio_qos` commands of `add_lease` and `clear_lease`, logs, pid files,
  DHCP options other than lease time, server id, requested address and host name.
- A lease or configuration file that cannot be opened (the handlers then return early),
  and the use of the path of the configuration file when the server was started without
  an argument (`config_path` is then not initialised).
- `max_leases` changed by SIGUSR2: the table is not allocated again. The size is a
  constant here.
- `find_lease_by_chaddr` compares 6 bytes and `clear_lease` 16: a hardware address is one
  value here, as all clients are Ethernet.
- The branch of `sendOffer` for an expired entry of the client itself
  (`serverpacket.c:159-165`) cannot be reached: such an entry is found by hardware
  address first.
- `IsLanIPAddr` is given an address in host order by `find_address`, and in network order
  elsewhere; on this big-endian MIPS they are the same.
- Arithmetic modulo 2^32: expiry times wrap after 136 years of uptime, and `lease * 7` in
  the client for leases over 19 years. A lease time of 0 in an ACK.
- `background()` and `-b` in the client: the process forks, its state does not change.
- The 68 years after which RELEASED would look at its timeout.

Gateway: `RequestConnection` and `ForceTermination`, which write to `ip_forward`; the
read-only Get actions, subscriptions and documents; `configureAllowed = 0`, with which both
port-mapping actions are refused; arguments too long for their fields. `StateTableInit`
clears `pmlist_Head` without `DevMutex` (`gatedevice.c:160`); it is one step between requests
here, while a request that is under way could see the head vanish.

IGMP proxy: the multicast forwarding cache (entries are added with every report and never
deleted), IGMPv3 packets (ignored), groups that `VALID_ADDR` excludes, control messages
other than IP_PKTINFO, signals in the middle of a handler. The loops over the groups of an
interface step to `gp->igmpg_next` after `igmp_group_cleanup` has freed `gp`
(`igmpv2.c:218`, 229, `igmprt.c:649`, 660): `Cleanup` and `RecvLeave` are the passes over all
groups that this gives as long as the freed memory keeps its contents until the next step.

Ethernet driver: the paths of other boards (CONFIG_AR9100, DMA_DEBUG, the S26 header), bus
errors, an allocation that fails in `ag7100_open`, the registers of MAC, PHY and switch,
statistics and `/proc`; the other port.

The rest of the repository is third-party code (kernel, busybox, samba, ppp, iptables,
u-boot and others) or object files; the models cover what the router's own source adds.

## Plan

Done: the modules, runs and theorems above. Left, in this order:

1. An abstract specification of a lease book (grant, extend, end, forget) and
   `DhcpServer` shown to implement it.
2. A composition of the client's view with the server's table over a network that loses,
   duplicates and reorders: what a late DISCOVER (`serverpacket.c:186`) or a duplicated
   ACK (`dhcpc.c:520`) does to "no two clients use one address".
3. The WPS LED and button module (`GPIO/led_wsc.c`, `GPIO/gpio.c`): timers that re-arm
   themselves against writers that delete them.
