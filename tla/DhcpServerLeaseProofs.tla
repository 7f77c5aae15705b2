----------------------- MODULE DhcpServerLeaseProofs -----------------------
(***************************************************************************)
(* Proofs about what the DHCP server hands out, keeps and saves.           *)
(*                                                                         *)
(* The inductive invariant of DhcpServerProofs is strengthened by what the *)
(* clients' entries and the records of the lease file hold (Fit, FileFit), *)
(* by what is known of the address being probed (ProbeFree), and by how    *)
(* far write_leases and read_leases have come (WriteProgress,              *)
(* LoadProgress).                                                          *)
(***************************************************************************)
EXTENDS DhcpServerProofs

PoolAddrs(l) == PoolOf[l].start .. PoolOf[l].end

\* The pool is the same at every LAN address and lies in the router's subnet:
\* the administrator may move the router, but not the pool.
OnePool ==
    \A l, m \in LanAddrs : \A a \in PoolAddrs(l) : {a, rehome(a, m)} \subseteq PoolAddrs(m)

\* An offer is reserved for no longer than a lease (60 seconds and a day unless
\* configured otherwise), and expiry times in the lease file, should it hold
\* them, are those of the running clock.
TimesOrdered == OfferTime <= LeaseTime /\ (Remaining \/ "POWER" \notin Signals)

\* What every client's entry is like: its time is set, it ends no later than a
\* lease given now would, and its address is one of the pool.
FitEntry(y, e) ==
    /\ e >= 1
    /\ TimesOrdered => e <= now + LeaseTime
    /\ OnePool => \A l \in LanAddrs : y \in PoolAddrs(l)

Fit(t) == \A i \in Slots : t[i].chaddr # Blank => FitEntry(t[i].yiaddr, t[i].expires)

\* The same for the records of the lease file.
FitRecord(r) ==
    /\ ~Remaining => r.left >= 1
    /\ TimesOrdered => r.left <= LeaseTime + (IF Remaining THEN 0 ELSE now)
    /\ OnePool => \A l \in LanAddrs : r.yiaddr \in PoolAddrs(l)

FileFit == \A k \in 1 .. Len(file) : FitRecord(file[k])

ConfPool == \E l \in LanAddrs : conf.start = PoolOf[l].start /\ conf.end = PoolOf[l].end

\* write_leases computes the time left with the clock it read at its start.
WriteTimes ==
    job.op = "write" =>
        /\ job.curr <= now
        /\ TimesOrdered => \A i \in Slots : leases[i].chaddr # Blank =>
                               leases[i].expires <= job.curr + LeaseTime

\* A reply that hands out an address hands out one of the pool, for a time in
\* the bounds.
Granted(m) ==
    m.type \in {"OFFER", "ACK"} =>
        /\ TimesOrdered => m.lease \in MinLease .. LeaseTime
        /\ OnePool => m.yiaddr \in conf.start .. conf.end

GrantInv == Fit(leases) /\ FileFit /\ ConfPool /\ WriteTimes /\ \A m \in out : Granted(m)

-----------------------------------------------------------------------------
(* The operations on the table keep the clients' entries fit.              *)

\* The configured pool is the pool of every LAN address, if there is one only.
LEMMA PoolConf ==
    ASSUME TypeOK, ConfPool, OnePool, NEW y \in Nat
    PROVE  y \in conf.start .. conf.end <=> \A l \in LanAddrs : y \in PoolAddrs(l)
<1>1. PICK l \in LanAddrs : conf.start = PoolOf[l].start /\ conf.end = PoolOf[l].end
  BY DEF ConfPool
<1>2. y \in conf.start .. conf.end <=> y \in PoolAddrs(l)
  BY <1>1 DEF PoolAddrs
<1>3. y \in PoolAddrs(l) => \A m \in LanAddrs : y \in PoolAddrs(m)
  BY DEF OnePool
<1> QED BY <1>2, <1>3

\* The zero table has no client's entry.
LEMMA FitZero == Fit(ZeroTable)
  BY DEF Fit, ZeroTable, ZeroLease

\* add_lease keeps the table fit if the new entry is fit or a reservation.
LEMMA FitAdd ==
    ASSUME TypeOK, NEW t, Sound(t), Fit(t), NEW c \in Client \cup {Blank},
           NEW y \in Addr \cup {0}, NEW d \in Int, now + d \in Nat,
           c # Blank => FitEntry(y, now + d)
    PROVE  Fit(add_lease(t, c, y, d, now))
<1> DEFINE r == add_lease(t, c, y, d, now)
           s == add_lease_slot(t, c, y, now)
<1>1. now \in Nat \ {0} /\ t \in Table
  BY DEF TypeOK, Sound
<1>2. /\ \A i \in Slots \ {s} : r[i] \in {t[i], ZeroLease}
      /\ s # NULL => s \in Slots /\ r[s].chaddr = c /\ r[s].yiaddr = y /\ r[s].expires = now + d
  BY <1>1, AddLease
<1>3. ZeroLease.chaddr = Blank
  BY DEF ZeroLease
<1>4. NULL \notin Slots
  BY TableAssumption DEF NULL, Slots
<1> HIDE DEF r, s
<1>5. ASSUME NEW i \in Slots, r[i].chaddr # Blank PROVE FitEntry(r[i].yiaddr, r[i].expires)
  <2>1. CASE i # s
    BY <1>2, <1>3, <1>5, <2>1 DEF Fit
  <2>2. CASE i = s
    BY <1>2, <1>4, <1>5, <2>2
  <2> QED BY <2>1, <2>2
<1> QED BY <1>5 DEF Fit, r

\* A reservation adds no client's entry.
LEMMA FitReserve ==
    ASSUME TypeOK, NEW t, Sound(t), Fit(t), NEW a \in Addr \cup {0}
    PROVE  Fit(reserve_lan(t, a)) /\ Fit(add_lease(t, Blank, a, ConflictTime, now))
<1>1. ConflictTime \in Int /\ now + ConflictTime \in Nat
  BY Times DEF TypeOK
<1> QED BY <1>1, FitAdd DEF reserve_lan

\* find_lease_by_chaddr adds none either.
LEMMA FitFind ==
    ASSUME TypeOK, NEW t, Sound(t), Fit(t), NEW c \in Client
    PROVE  Fit(table_after_find(t, c))
<1> DEFINE s == slot_of_chaddr(t, c)
<1>1. t \in Table
  BY DEF Sound
<1>2. s # NULL => s \in Slots
  BY <1>1, FindLease
<1>3. s # NULL => t[s].yiaddr \in Addr \cup {0}
  BY <1>1, <1>2 DEF Table, Lease
<1>4. table_after_find(t, c) \in {t, reserve_lan(t, t[s].yiaddr)}
      /\ (table_after_find(t, c) # t => s # NULL)
  BY DEF table_after_find
<1> HIDE DEF s
<1> QED BY <1>3, <1>4, FitReserve

\* Writing a host name changes no time and no address.
LEMMA FitName ==
    ASSUME NEW t, Sound(t), Fit(t), NEW s \in Slots, NEW h \in HostName \cup {NoName}
    PROVE  Fit(set_hostname(t, s, h))
<1> DEFINE u == set_hostname(t, s, h)
<1>1. \A i \in Slots : /\ u[i].chaddr = t[i].chaddr
                       /\ u[i].yiaddr = t[i].yiaddr
                       /\ u[i].expires = t[i].expires
  BY SoundName
<1> HIDE DEF u
<1>2. Fit(u)
  BY <1>1 DEF Fit
<1> QED BY <1>2 DEF u

\* Nor do a DECLINE, which makes the entry a reservation, and a RELEASE, which
\* ends it now.
LEMMA FitEnd ==
    ASSUME TypeOK, NEW t, Sound(t), Fit(t), NEW s \in Slots, NEW n \in Nat
    PROVE  /\ Fit([t EXCEPT ![s].chaddr = Blank, ![s].expires = n])
           /\ Fit([t EXCEPT ![s].expires = now])
<1> DEFINE v == [t EXCEPT ![s].chaddr = Blank]
           w == [v EXCEPT ![s].expires = n]
           u == [t EXCEPT ![s].expires = now]
<1>1. now \in Nat \ {0} /\ LeaseTime \in Nat
  BY Times DEF TypeOK
<1>2. \A i \in Slots : t[i] \in Lease
  BY DEF Sound, Table
<1>3. \A i \in Slots : /\ i # s => v[i] = t[i]
                       /\ i = s => v[i] = [t[s] EXCEPT !.chaddr = Blank]
  BY DEF Sound, Table
<1>4. \A i \in Slots : v[i].chaddr # Blank => v[i] = t[i] /\ i # s
  <2> HIDE DEF v
  <2> QED BY <1>2, <1>3 DEF Lease
<1>5. v \in [Slots -> Lease]
  <2>1. \A i \in Slots : v[i] \in Lease
    <3> HIDE DEF v
    <3> QED BY <1>2, <1>3 DEF Lease
  <2> QED BY <2>1 DEF Sound, Table
<1>6. \A i \in Slots : /\ i # s => w[i] = v[i]
                       /\ w[i].chaddr = v[i].chaddr
  <2> HIDE DEF v
  <2> QED BY <1>5 DEF Lease
<1>7. Fit(w)
  <2> HIDE DEF v, w
  <2> QED BY <1>4, <1>6 DEF Fit
<1>8. \A i \in Slots : /\ i # s => u[i] = t[i]
                       /\ i = s => u[i] = [t[s] EXCEPT !.expires = now]
  BY DEF Sound, Table
<1>9. \A i \in Slots : /\ u[i].chaddr = t[i].chaddr
                       /\ u[i].yiaddr = t[i].yiaddr
                       /\ u[i].expires \in {t[i].expires, now}
  <2> HIDE DEF u
  <2> QED BY <1>2, <1>8 DEF Lease
<1>10. Fit(u)
  <2> HIDE DEF u
  <2> QED BY <1>1, <1>9 DEF Fit, FitEntry
<1>11. w = [t EXCEPT ![s].chaddr = Blank, ![s].expires = n]
  OBVIOUS
<1> HIDE DEF w
<1> QED BY <1>7, <1>10, <1>11

\* Moving the table to another LAN address keeps the addresses in the pool.
LEMMA FitUpdate ==
    ASSUME NEW t, Sound(t), Fit(t), NEW l \in LanAddrs
    PROVE  Fit(update_lease_by_new_ip(t, l))
<1> DEFINE r == update_lease_by_new_ip(t, l)
<1>1. \A i \in Slots : t[i] \in Lease
  BY DEF Sound, Table
<1>2. ASSUME NEW i \in Slots
      PROVE  /\ r[i].chaddr = t[i].chaddr
             /\ r[i].expires = t[i].expires
             /\ r[i].yiaddr \in {t[i].yiaddr, rehome(t[i].yiaddr, l)}
  BY <1>1 DEF update_lease_by_new_ip, Lease
<1> HIDE DEF r
<1>3. ASSUME NEW i \in Slots, r[i].chaddr # Blank
      PROVE  FitEntry(r[i].yiaddr, r[i].expires)
  <2>1. FitEntry(t[i].yiaddr, t[i].expires)
    BY <1>2, <1>3 DEF Fit
  <2>2. ASSUME OnePool, NEW m \in LanAddrs PROVE r[i].yiaddr \in PoolAddrs(m)
    <3>1. t[i].yiaddr \in PoolAddrs(l) /\ t[i].yiaddr \in PoolAddrs(m)
      BY <2>1, <2>2 DEF FitEntry
    <3>2. rehome(t[i].yiaddr, l) \in PoolAddrs(l)
      BY <2>2, <3>1 DEF OnePool
    <3>3. rehome(t[i].yiaddr, l) \in PoolAddrs(m)
      BY <2>2, <3>2 DEF OnePool
    <3> QED BY <1>2, <3>1, <3>3
  <2> QED BY <1>2, <2>1, <2>2 DEF FitEntry
<1> QED BY <1>3 DEF Fit, r

-----------------------------------------------------------------------------
(* What is handed out: times between min_lease and lease, addresses of the *)
(* pool.                                                                   *)

\* The lease time of an offer and of an acknowledgement.
LEMMA GrantedTime ==
    ASSUME NEW left \in Nat, left <= LeaseTime, NEW asked \in Nat
    PROVE  /\ offer_lease_time(left, asked) \in MinLease .. LeaseTime
           /\ ack_lease_time(asked) \in MinLease .. LeaseTime
<1>1. LeaseTime \in Nat /\ MinLease \in Nat /\ MinLease <= LeaseTime
  BY ServerAssumption
<1> QED BY <1>1 DEF offer_lease_time, ack_lease_time

\* An entry for an address of the pool that lasts no longer than a lease is fit.
LEMMA NewEntry ==
    ASSUME TypeOK, ConfPool, NEW y \in Addr, OnePool => y \in conf.start .. conf.end,
           NEW d \in Nat, TimesOrdered => d <= LeaseTime
    PROVE  FitEntry(y, now + d)
<1>1. now \in Nat \ {0} /\ LeaseTime \in Nat /\ y \in Nat
  BY Times, TableAssumption DEF TypeOK
<1>2. OnePool => \A l \in LanAddrs : y \in PoolAddrs(l)
  BY <1>1, PoolConf
<1> QED BY <1>1, <1>2 DEF FitEntry

\* The tail of sendOffer.
LEMMA MakeOfferFit ==
    ASSUME IInv, GrantInv, NEW p \in Packets, NEW try \in 1 .. 2, NEW t, Sound(t), Fit(t),
           NEW y \in Addr, OnePool => y \in conf.start .. conf.end,
           NEW left \in Nat, TimesOrdered => left <= LeaseTime,
           make_offer(p, try, t, y, left)
    PROVE  Fit(leases') /\ (\A m \in out' : Granted(m)) /\ job'.op # "write"
<1> DEFINE u == add_lease(t, p.chaddr, y, OfferTime, now)
           m == reply(p, "OFFER", y, offer_lease_time(left, p.ltime))
<1>1. TypeOK /\ ConfPool /\ p.chaddr \in Client /\ p.ltime \in Nat
  BY PacketType DEF IInv, GrantInv
<1>2. OfferTime \in Nat /\ OfferTime \in Int /\ now + OfferTime \in Nat
  BY <1>1, Times DEF TypeOK
<1>3. FitEntry(y, now + OfferTime)
  BY <1>1, <1>2, NewEntry DEF TimesOrdered
<1>4. Fit(u)
  BY <1>1, <1>2, <1>3, FitAdd
<1>5. Granted(m)
  <2>1. m.yiaddr = y /\ m.lease = offer_lease_time(left, p.ltime)
    BY DEF reply
  <2>2. TimesOrdered => m.lease \in MinLease .. LeaseTime
    BY <1>1, <2>1, GrantedTime
  <2> HIDE DEF m
  <2> QED BY <2>1, <2>2 DEF Granted
<1>6. /\ leases' = u
      /\ out' = {m} \/ out' = {}
      /\ job' = Idle \/ job' = Offer(p, 2)
  BY DEF make_offer, offer_failed
<1>7. Idle.op # "write" /\ Offer(p, 2).op # "write"
  BY DEF Offer, Idle
<1> HIDE DEF u, m
<1> QED BY <1>4, <1>5, <1>6, <1>7

\* sendACK.
LEMMA SendACKFit ==
    ASSUME IInv, GrantInv, NEW p \in Packets, NEW t, Sound(t), Fit(t), NEW y \in Addr,
           OnePool => y \in conf.start .. conf.end, NEW s \in Slots, sendACK(p, t, y, s)
    PROVE  Fit(leases') /\ \A m \in out' : Granted(m)
<1> DEFINE time == ack_lease_time(p.ltime)
           u == add_lease(t, p.chaddr, y, time, now)
           m == reply(p, "ACK", y, time)
<1>1. /\ TypeOK /\ ConfPool /\ p.chaddr \in Client /\ p.ltime \in Nat
      /\ p.host \in HostName \cup {NoName}
  BY PacketType DEF IInv, GrantInv
<1>2. time \in MinLease .. LeaseTime /\ MinLease \in Nat /\ LeaseTime \in Nat
  <2>1. 0 \in Nat /\ 0 <= LeaseTime /\ MinLease \in Nat /\ LeaseTime \in Nat
    BY Times
  <2> QED BY <1>1, <2>1, GrantedTime
<1> HIDE DEF time
<1>3. time \in Nat /\ time \in Int /\ time <= LeaseTime /\ now + time \in Nat
  BY <1>1, <1>2 DEF TypeOK
<1>4. FitEntry(y, now + time)
  BY <1>1, <1>3, NewEntry
<1>5. Fit(u) /\ Sound(u)
  <2>1. now \in Nat \ {0}
    BY <1>1 DEF TypeOK
  <2> QED BY <1>1, <1>3, <1>4, <2>1, FitAdd, SoundAdd
<1>6. Granted(m)
  <2>1. m.yiaddr = y /\ m.lease = time
    BY DEF reply
  <2> HIDE DEF m
  <2> QED BY <1>2, <2>1 DEF Granted
<1>7. \/ leases' = set_hostname(u, s, p.host) /\ out' = {m}
      \/ leases' = set_hostname(t, s, p.host) /\ out' = {}
  BY DEF sendACK, time
<1> HIDE DEF u, m
<1>8. Fit(set_hostname(u, s, p.host)) /\ Fit(set_hostname(t, s, p.host))
  BY <1>1, <1>5, FitName
<1> QED BY <1>6, <1>7, <1>8

\* A handler leaves the clock, the configuration and the file alone.
LEMMA HandlerGrant ==
    ASSUME GrantInv, UNCHANGED <<now, conf, file>>, Fit(leases'),
           \A m \in out' : Granted(m), job'.op # "write"
    PROVE  GrantInv'
  BY DEF GrantInv, Fit, FitEntry, FileFit, FitRecord, ConfPool, WriteTimes, Granted, InPool

\* The head of sendOffer: the client's own entry has no more left than a lease.
LEMMA SendOfferGrant ==
    ASSUME IInv, GrantInv, sendOffer
    PROVE  GrantInv'
<1> DEFINE p == job.pkt
           try == job.try
           s == lease_of(leases, p.chaddr)
           t == table_after_find(leases, p.chaddr)
           left == IF lease_expired(t[s], now) THEN LeaseTime ELSE t[s].expires - now
<1>0. TypeOK /\ ConfPool /\ Sound(leases) /\ Fit(leases) /\ now \in Nat
  BY DEF IInv, GrantInv, TypeOK
<1>1. p \in Packets /\ try \in 1 .. 2
  BY DEF sendOffer, IInv, TypeOK, Job, Idle, Down
<1>2. p.chaddr \in Client /\ p.chaddr # Blank /\ p.req \in Addr \cup {0}
  BY <1>1, PacketType, TableAssumption
<1>3. /\ Sound(t)
      /\ s # NULL => /\ t = leases /\ s \in Slots /\ leases[s] \in Lease
                     /\ leases[s].yiaddr \in Addr /\ leases[s].chaddr = p.chaddr
  BY <1>0, <1>2, SoundFind
<1>4. Fit(t)
  BY <1>0, <1>2, FitFind
<1>5. s # NULL => FitEntry(leases[s].yiaddr, leases[s].expires)
  <2> HIDE DEF s, t, p
  <2> QED BY <1>0, <1>2, <1>3 DEF Fit
<1>6. s # NULL => left \in Nat /\ (TimesOrdered => left <= LeaseTime)
  <2> HIDE DEF s, p
  <2> QED BY <1>0, <1>3, <1>5, Times DEF Lease, lease_expired, FitEntry
<1>7. s # NULL => (OnePool => leases[s].yiaddr \in conf.start .. conf.end)
  <2>1. s # NULL => leases[s].yiaddr \in Nat
    BY <1>3, TableAssumption
  <2> HIDE DEF s, p
  <2> QED BY <1>0, <1>5, <2>1, PoolConf DEF FitEntry
<1>8. \/ s # NULL /\ make_offer(p, try, t, t[s].yiaddr, left)
      \/ p.req # 0 /\ InPool(p.req) /\ make_offer(p, try, t, p.req, LeaseTime)
      \/ leases' = t /\ out' = {} /\ job' = Find(p, try, FALSE, conf.start)
  BY DEF sendOffer
<1>9. Fit(leases') /\ (\A m \in out' : Granted(m)) /\ job'.op # "write"
  <2> HIDE DEF p, try, s, t, left
  <2>1. CASE s # NULL /\ make_offer(p, try, t, t[s].yiaddr, left)
    BY <1>1, <1>3, <1>4, <1>6, <1>7, <2>1, MakeOfferFit
  <2>2. CASE p.req # 0 /\ InPool(p.req) /\ make_offer(p, try, t, p.req, LeaseTime)
    <3>1. p.req \in Addr /\ p.req \in conf.start .. conf.end /\ LeaseTime \in Nat
      <4>1. p.req \in Addr /\ p.req \in Nat /\ conf.start \in Nat /\ conf.end \in Nat
        BY <1>0, <1>2, <2>2, TableAssumption DEF TypeOK
      <4> QED BY <2>2, <4>1, Times DEF InPool
    <3>2. LeaseTime <= LeaseTime
      BY <3>1
    <3> QED BY <1>1, <1>3, <1>4, <2>2, <3>1, <3>2, MakeOfferFit
  <2>3. CASE leases' = t /\ out' = {} /\ job' = Find(p, try, FALSE, conf.start)
    BY <1>4, <2>3 DEF Find
  <2> QED BY <1>8, <2>1, <2>2, <2>3
<1>10. UNCHANGED <<now, conf, file>>
  BY DEF sendOffer, Rest
<1> QED BY <1>9, <1>10, HandlerGrant

\* An iteration of find_address, up to the probe.
LEMMA FindAddressGrant ==
    ASSUME IInv, GrantInv, find_address
    PROVE  GrantInv'
<1> DEFINE a == job.addr
<1>1. /\ job \in [op : {"find"}, pkt : Packets, try : 1 .. 2, check_expired : BOOLEAN,
                   addr : Nat, probe : BOOLEAN]
      /\ conf.start <= a
  BY DEF find_address, IInv, TypeOK, Job, Idle, Down, ScanInPool
<1>2. a <= conf.end => a \in Addr
  BY <1>1, TableAssumption DEF IInv, TypeOK
<1>3. /\ out' = {} /\ UNCHANGED <<now, conf, file>>
      /\ \/ leases' = leases
         \/ leases' = add_lease(leases, Blank, a, ConflictTime, now) /\ a <= conf.end
      /\ \/ job' = Find(job.pkt, job.try, TRUE, conf.start)
         \/ job' = Offer(job.pkt, 2)
         \/ job' = Idle
         \/ job' = [job EXCEPT !.addr = a + 1]
         \/ job' = [job EXCEPT !.probe = TRUE]
  BY DEF find_address, offer_failed, reserve_lan, Rest
<1>4. Fit(leases')
  BY <1>2, <1>3, FitReserve DEF IInv, GrantInv
<1>5. job'.op # "write"
  BY <1>1, <1>3 DEF Find, Offer, Idle
<1> QED BY <1>3, <1>4, <1>5, HandlerGrant

\* The answer to the probe: the address is still one of the pool.
LEMMA CheckIpGrant ==
    ASSUME IInv, GrantInv, check_ip
    PROVE  GrantInv'
<1>1. /\ job \in [op : {"find"}, pkt : Packets, try : 1 .. 2, check_expired : BOOLEAN,
                   addr : Nat, probe : BOOLEAN]
      /\ conf.start <= job.addr /\ job.addr <= conf.end
  BY DEF check_ip, IInv, TypeOK, Job, Idle, Down, ScanInPool
<1>2. job.addr \in Addr /\ job.addr \in conf.start .. conf.end
  BY <1>1, TableAssumption DEF IInv, TypeOK
<1>3. /\ UNCHANGED <<now, conf, file>>
      /\ \/ /\ leases' = add_lease(leases, Blank, job.addr, ConflictTime, now)
            /\ out' = {} /\ job' = [job EXCEPT !.addr = job.addr + 1, !.probe = FALSE]
         \/ make_offer(job.pkt, job.try, leases, job.addr, LeaseTime)
  BY DEF check_ip, Rest
<1>4. TypeOK /\ Sound(leases) /\ Fit(leases)
  BY DEF IInv, GrantInv
<1>5. CASE /\ leases' = add_lease(leases, Blank, job.addr, ConflictTime, now)
           /\ out' = {} /\ job' = [job EXCEPT !.addr = job.addr + 1, !.probe = FALSE]
  <2>1. Fit(leases')
    BY <1>2, <1>4, <1>5, FitReserve
  <2>2. job'.op # "write"
    BY <1>1, <1>5
  <2> QED BY <1>3, <1>5, <2>1, <2>2, HandlerGrant
<1>6. CASE make_offer(job.pkt, job.try, leases, job.addr, LeaseTime)
  <2>1. LeaseTime \in Nat /\ LeaseTime <= LeaseTime
    BY Times
  <2>2. job.pkt \in Packets /\ job.try \in 1 .. 2
    BY <1>1
  <2>3. Fit(leases') /\ (\A m \in out' : Granted(m)) /\ job'.op # "write"
    BY <1>2, <1>4, <1>6, <2>1, <2>2, MakeOfferFit
  <2> QED BY <1>3, <2>3, HandlerGrant
<1> QED BY <1>3, <1>5, <1>6

\* REQUEST of a client the table knows: its address is one of the pool, though
\* nothing checks it.
LEMMA RequestKnownGrant ==
    ASSUME IInv, GrantInv, NEW p \in Packets, RequestKnown(p)
    PROVE  GrantInv'
<1> DEFINE s == lease_of(leases, p.chaddr)
           y == leases[s].yiaddr
<1>1. /\ p.chaddr \in Client /\ p.chaddr # Blank /\ p.host \in HostName \cup {NoName}
      /\ Sound(leases) /\ Fit(leases) /\ TypeOK /\ ConfPool
  BY PacketType, TableAssumption DEF IInv, GrantInv
<1>2. s \in Slots /\ leases[s].chaddr = p.chaddr /\ y \in Addr
  BY <1>1, SoundFind DEF RequestKnown
<1>3. OnePool => y \in conf.start .. conf.end
  <2>1. FitEntry(y, leases[s].expires) /\ y \in Nat
    <3> HIDE DEF s
    <3> QED BY <1>1, <1>2, TableAssumption DEF Fit
  <2> HIDE DEF y
  <2> QED BY <1>1, <2>1, PoolConf DEF FitEntry
<1>4. /\ UNCHANGED <<now, conf, file>> /\ job' = Idle
      /\ \/ leases' = set_hostname(leases, s, p.host)
            /\ out' \in {{}, {reply(p, "NAK", 0, 0)}}
         \/ sendACK(p, leases, y, s)
  BY DEF RequestKnown, sendNAK, Ready, Selected
<1>5. job'.op # "write"
  BY <1>4 DEF Idle
<1> HIDE DEF s, y
<1>6. CASE leases' = set_hostname(leases, s, p.host) /\ out' \in {{}, {reply(p, "NAK", 0, 0)}}
  <2>1. Fit(leases')
    BY <1>1, <1>2, <1>6, FitName
  <2>2. \A m \in out' : Granted(m)
    BY <1>6 DEF reply, Granted
  <2> QED BY <1>4, <1>5, <2>1, <2>2, HandlerGrant
<1>7. CASE sendACK(p, leases, y, s)
  <2>1. Fit(leases') /\ \A m \in out' : Granted(m)
    BY <1>1, <1>2, <1>3, <1>7, SendACKFit
  <2> QED BY <1>4, <1>5, <2>1, HandlerGrant
<1> QED BY <1>4, <1>6, <1>7

\* REQUEST of a client the table does not know: the address was found in the
\* pool before it was booked.
LEMMA RequestUnknownGrant ==
    ASSUME IInv, GrantInv, NEW p \in Packets, RequestUnknown(p)
    PROVE  GrantInv'
<1> DEFINE t0 == table_after_find(leases, p.chaddr)
           w == IF p.sid # 0 \/ p.req # 0 THEN p.req ELSE p.ciaddr
           t1 == add_lease(t0, p.chaddr, w, OfferTime, now)
           s == lease_of(t1, p.chaddr)
           nak == reply(p, "NAK", 0, 0)
<1>1. /\ p.chaddr \in Client /\ p.chaddr # Blank /\ p.host \in HostName \cup {NoName}
      /\ w \in Addr \cup {0}
  BY PacketType, TableAssumption
<1>2. /\ now \in Nat \ {0} /\ OfferTime \in Nat /\ OfferTime \in Int /\ now + OfferTime \in Nat
      /\ conf.start \in Nat \ {0} /\ conf.end \in Nat
      /\ TypeOK /\ ConfPool
  <2>1. TypeOK /\ ConfPool
    BY DEF IInv, GrantInv
  <2>2. now \in Nat \ {0} /\ conf.start \in Addr /\ conf.end \in Addr
    BY <2>1 DEF TypeOK
  <2>3. conf.start \in Nat \ {0} /\ conf.end \in Nat
    BY <2>2, TableAssumption
  <2>4. OfferTime \in Nat /\ OfferTime \in Int /\ now + OfferTime \in Nat
    BY <2>2, Times
  <2> QED BY <2>1, <2>2, <2>3, <2>4
<1>3. Sound(t0) /\ Fit(t0)
  BY <1>1, SoundFind, FitFind DEF IInv, GrantInv
<1>4. InPool(w) => w \in Addr /\ w \in conf.start .. conf.end
  <2> HIDE DEF w
  <2>1. w \in Nat
    BY <1>1, TableAssumption
  <2> QED BY <1>1, <1>2, <2>1 DEF InPool
<1>5. InPool(w) => Sound(t1) /\ Fit(t1)
  <2> HIDE DEF t0, w
  <2>1. InPool(w) => FitEntry(w, now + OfferTime)
    BY <1>2, <1>4, NewEntry DEF TimesOrdered
  <2> QED BY <1>1, <1>2, <1>3, <2>1, SoundAdd, FitAdd
<1>6. InPool(w) => Fit(table_after_find(t1, p.chaddr))
  <2> HIDE DEF t1, w
  <2> QED BY <1>1, <1>2, <1>5, FitFind
<1>7. s # NULL /\ InPool(w) => s \in Slots
  <2> HIDE DEF t1, w
  <2> QED BY <1>1, <1>2, <1>5, SoundFind
<1>8. /\ UNCHANGED <<now, conf, file>> /\ job' = Idle
      /\ \/ leases' = t0 /\ out' \in {{}, {nak}}
         \/ InPool(w) /\ leases' \in {t1, table_after_find(t1, p.chaddr)} /\ out' \in {{}, {nak}}
         \/ InPool(w) /\ s # NULL /\ sendACK(p, t1, w, s)
  BY DEF RequestUnknown, sendNAK, Ready, Selected
<1>9. job'.op # "write"
  BY <1>8 DEF Idle
<1>10. Granted(nak)
  BY DEF reply, Granted
<1> HIDE DEF t0, w, t1, s, nak
<1>11. Fit(leases') /\ \A m \in out' : Granted(m)
  <2>1. CASE leases' = t0 /\ out' \in {{}, {nak}}
    BY <1>3, <1>10, <2>1
  <2>2. CASE InPool(w) /\ leases' \in {t1, table_after_find(t1, p.chaddr)} /\ out' \in {{}, {nak}}
    BY <1>5, <1>6, <1>10, <2>2
  <2>3. CASE InPool(w) /\ s # NULL /\ sendACK(p, t1, w, s)
    BY <1>4, <1>5, <1>7, <2>3, SendACKFit
  <2> QED BY <1>8, <2>1, <2>2, <2>3
<1> QED BY <1>8, <1>9, <1>11, HandlerGrant

\* DISCOVER, DECLINE, RELEASE and INFORM.
LEMMA OtherPacketGrant ==
    ASSUME IInv, GrantInv, NEW p \in Packets,
           DiscoverMsg(p) \/ DeclineMsg(p) \/ ReleaseMsg(p) \/ InformMsg(p)
    PROVE  GrantInv'
<1> DEFINE s == lease_of(leases, p.chaddr)
           t == table_after_find(leases, p.chaddr)
           info == reply(p, "INFO", 0, 0)
<1>1. /\ p.chaddr \in Client /\ TypeOK /\ Sound(leases) /\ Fit(leases)
      /\ now + DeclineTime \in Nat
  BY PacketType, Times DEF IInv, GrantInv, TypeOK
<1>2. Fit(t) /\ (s # NULL => s \in Slots)
  BY <1>1, SoundFind, FitFind
<1>3. s # NULL => /\ Fit([leases EXCEPT ![s].chaddr = Blank, ![s].expires = now + DeclineTime])
                  /\ Fit([leases EXCEPT ![s].expires = now])
  BY <1>1, <1>2, FitEnd
<1>4. Granted(info)
  BY DEF reply, Granted
<1>5. UNCHANGED <<now, conf, file>> /\ job = Idle
  BY DEF DiscoverMsg, DeclineMsg, ReleaseMsg, InformMsg, Ready, Selected
<1>6. job' \in {Idle, Offer(p, 1)} /\ out' \in {{}, {info}}
  BY <1>5 DEF DiscoverMsg, DeclineMsg, ReleaseMsg, InformMsg, send_inform
<1>7. job'.op # "write"
  BY <1>6 DEF Idle, Offer
<1>8. \/ leases' = t
      \/ s # NULL /\ leases' = [leases EXCEPT ![s].chaddr = Blank,
                                              ![s].expires = now + DeclineTime]
      \/ s # NULL /\ leases' = [leases EXCEPT ![s].expires = now]
  BY DEF DiscoverMsg, DeclineMsg, ReleaseMsg, InformMsg
<1> HIDE DEF s, t, info
<1>9. Fit(leases') /\ \A m \in out' : Granted(m)
  BY <1>2, <1>3, <1>4, <1>6, <1>8
<1> QED BY <1>5, <1>7, <1>9, HandlerGrant

-----------------------------------------------------------------------------
(* The lease file, signals and the environment.                            *)

\* The writing of the lease file begins.
LEMMA StartWriteGrant ==
    ASSUME IInv, GrantInv, NEW b \in BOOLEAN, StartWrite(b)
    PROVE  GrantInv'
<1>1. /\ job' = Write(1, now, b) /\ file' = <<>> /\ out' = {}
      /\ UNCHANGED <<leases, now, conf>>
  BY DEF StartWrite
<1>2. now \in Nat
  BY DEF IInv, TypeOK
<1>3. job'.curr = now
  BY <1>1 DEF Write
<1>4. WriteTimes'
  <2>1. now <= now
    BY <1>2
  <2> QED BY <1>1, <1>3, <2>1 DEF WriteTimes, GrantInv, Fit, FitEntry
<1>5. FileFit'
  <2>1. 1 .. Len(file') = {}
    BY <1>1
  <2> QED BY <2>1 DEF FileFit
<1> QED BY <1>1, <1>4, <1>5 DEF GrantInv, Fit, FitEntry, ConfPool

\* What write_leases stores of an entry that is fit is fit.
LEMMA WriteLeasesGrant ==
    ASSUME IInv, GrantInv, write_leases
    PROVE  GrantInv'
<1> DEFINE l == leases[job.i]
           r == saved(l, job.curr)
<1>1. /\ job \in [op : {"write"}, i : 1 .. MaxLeases + 1, curr : Nat, quit : BOOLEAN]
      /\ job.i \in Slots
  BY DEF write_leases, IInv, TypeOK, Job, Idle, Down
<1>2. l \in Lease
  BY <1>1 DEF IInv, TypeOK, Table
<1>3. now \in Nat \ {0} /\ LeaseTime \in Nat /\ file \in Seq(Record) /\ job.curr \in Nat
  BY <1>1, Times DEF IInv, TypeOK
<1>4. ASSUME l.chaddr # Blank PROVE FitRecord(r)
  <2>1. FitEntry(l.yiaddr, l.expires)
    BY <1>1, <1>4 DEF GrantInv, Fit
  <2>2. TimesOrdered => l.expires <= job.curr + LeaseTime
    BY <1>1, <1>4 DEF GrantInv, WriteTimes
  <2>3. /\ r.yiaddr = l.yiaddr
        /\ r.left = IF ~Remaining THEN l.expires
                    ELSE IF l.expires < job.curr THEN 0 ELSE l.expires - job.curr
    BY DEF saved
  <2>4. l.expires \in Nat
    BY <1>2 DEF Lease
  <2> HIDE DEF l, r
  <2> QED BY <1>3, <2>1, <2>2, <2>3, <2>4 DEF FitRecord, FitEntry
<1>5. /\ \/ file' = file
         \/ l.chaddr # Blank /\ file' = Append(file, r)
      /\ job' = [job EXCEPT !.i = job.i + 1]
      /\ out' = {} /\ UNCHANGED <<leases, now, conf>>
  BY DEF write_leases
<1> HIDE DEF l, r
<1>6. ASSUME NEW k \in 1 .. Len(file') PROVE FitRecord(file'[k])
  <2>1. CASE file' = file
    BY <2>1 DEF GrantInv, FileFit
  <2>2. CASE l.chaddr # Blank /\ file' = Append(file, r)
    <3>1. k \in 1 .. Len(file) \/ k = Len(file) + 1
      BY <1>3, <2>2
    <3>2. k \in 1 .. Len(file) => file'[k] = file[k]
      BY <1>3, <2>2
    <3>3. k = Len(file) + 1 => file'[k] = r
      BY <1>3, <2>2
    <3> QED BY <1>4, <2>2, <3>1, <3>2, <3>3 DEF GrantInv, FileFit
  <2> QED BY <1>5, <2>1, <2>2
<1>7. FileFit'
  BY <1>5, <1>6 DEF FileFit, FitRecord
<1>8. job'.curr = job.curr /\ job'.op = "write" /\ job.op = "write"
  BY <1>1, <1>5
<1> QED BY <1>5, <1>7, <1>8 DEF GrantInv, Fit, FitEntry, ConfPool, WriteTimes

\* write_leases returns.
LEMMA WriteDoneGrant ==
    ASSUME IInv, GrantInv, WriteDone
    PROVE  GrantInv'
<1>1. /\ job' \in {Idle, Down} /\ leases' \in {leases, ZeroTable} /\ out' = {}
      /\ UNCHANGED <<now, conf, file>>
  BY DEF WriteDone
<1>2. Fit(leases')
  BY <1>1, FitZero DEF GrantInv
<1>3. job'.op # "write"
  BY <1>1 DEF Idle, Down
<1> QED BY <1>1, <1>2, <1>3, HandlerGrant

\* The configuration is read: the pool is that of a LAN address.
LEMMA StartLoadGrant ==
    ASSUME IInv, GrantInv, NEW b \in BOOLEAN, StartLoad(b)
    PROVE  GrantInv'
<1>1. /\ leases' = ZeroTable /\ job' = Load(1, b) /\ out' = {}
      /\ UNCHANGED <<now, file>> /\ lan \in LanAddrs
      /\ conf'.start = PoolOf[lan].start /\ conf'.end = PoolOf[lan].end
  BY DEF StartLoad, ConfOf, IInv, TypeOK
<1>2. ConfPool'
  BY <1>1 DEF ConfPool
<1>3. WriteTimes'
  BY <1>1 DEF WriteTimes, Load
<1>4. Fit(leases')
  BY <1>1, FitZero
<1> QED BY <1>1, <1>2, <1>3, <1>4 DEF GrantInv, Fit, FitEntry, FileFit, FitRecord

\* The entry made of a fit record is fit.
LEMMA ReadLeasesGrant ==
    ASSUME IInv, GrantInv, read_leases
    PROVE  GrantInv'
<1> DEFINE r == file[job.i]
           d == IF Remaining THEN r.left ELSE r.left - now
           s == add_lease_slot(leases, r.chaddr, r.yiaddr, now)
           t == add_lease(leases, r.chaddr, r.yiaddr, d, now)
<1>1. /\ job \in [op : {"load"}, i : Nat \ {0}, reconf : BOOLEAN]
      /\ job.i <= Len(file)
  BY DEF read_leases, IInv, TypeOK, Job, Idle, Down
<1>2. r \in Record /\ FitRecord(r)
  BY <1>1 DEF IInv, TypeOK, GrantInv, FileFit
<1>3. /\ r.chaddr \in Client \cup {Blank} /\ r.yiaddr \in Addr \cup {0}
      /\ r.left \in Nat /\ r.hostname \in HostName \cup {NoName}
  BY <1>2 DEF Record
<1>4. now \in Nat \ {0} /\ leases \in Table /\ LeaseTime \in Nat
  BY Times DEF IInv, TypeOK
<1>5. d \in Int /\ now + d \in Nat
  BY <1>3, <1>4
<1>6. FitEntry(r.yiaddr, now + d)
  <2> HIDE DEF r
  <2> QED BY <1>2, <1>3, <1>4 DEF FitRecord, FitEntry
<1>7. Fit(t) /\ Sound(t)
  <2> HIDE DEF r, d
  <2> QED BY <1>3, <1>4, <1>5, <1>6, FitAdd, SoundAdd DEF IInv, GrantInv
<1>8. s # NULL => s \in Slots
  <2> HIDE DEF r
  <2> QED BY <1>3, <1>4, AddLeaseSlot
<1>9. /\ \/ leases' = t
         \/ s # NULL /\ leases' = set_hostname(t, s, r.hostname)
      /\ \/ job' = [job EXCEPT !.i = Len(file) + 1]
         \/ job' = [job EXCEPT !.i = job.i + 1]
      /\ out' = {} /\ UNCHANGED <<now, conf, file>>
  BY DEF read_leases, Rest
<1>10. Fit(leases')
  <2> HIDE DEF r, s, t
  <2> QED BY <1>3, <1>7, <1>8, <1>9, FitName
<1>11. job'.op # "write"
  BY <1>1, <1>9
<1> QED BY <1>9, <1>10, <1>11, HandlerGrant

\* The end of the loading.
LEMMA LoadDoneGrant ==
    ASSUME IInv, GrantInv, LoadDone
    PROVE  GrantInv'
<1>1. /\ leases' \in {leases, update_lease_by_new_ip(leases, lan)} /\ job' = Idle /\ out' = {}
      /\ UNCHANGED <<now, file>> /\ lan \in LanAddrs
      /\ conf'.start = conf.start /\ conf'.end = conf.end
  BY DEF LoadDone, IInv, TypeOK
<1>2. Fit(leases')
  BY <1>1, FitUpdate DEF IInv, GrantInv
<1>3. WriteTimes'
  BY <1>1 DEF WriteTimes, Idle
<1> QED BY <1>1, <1>2, <1>3 DEF GrantInv, Fit, FitEntry, FileFit, FitRecord, ConfPool

\* Time passes, the LAN address changes: what was fit stays fit.
LEMMA EnvGrant ==
    ASSUME IInv, GrantInv, Tick \/ SetLan
    PROVE  GrantInv'
<1>1. now \in Nat /\ LeaseTime \in Nat /\ file \in Seq(Record)
  BY Times DEF IInv, TypeOK
<1>2. /\ out' = {} /\ UNCHANGED <<leases, job, conf, file>>
      /\ now' \in {now, now + 1}
  BY DEF Tick, SetLan
<1>3. \A i \in Slots : leases[i].expires \in Nat
  BY DEF IInv, TypeOK, Table, Lease
<1>4. Fit(leases)'
  BY <1>1, <1>2, <1>3 DEF GrantInv, Fit, FitEntry
<1>5. ASSUME NEW k \in 1 .. Len(file) PROVE file[k].left \in Nat
  <2>1. file[k] \in Record
    BY <1>1
  <2> QED BY <2>1 DEF Record
<1>6. FileFit'
  BY <1>1, <1>2, <1>5 DEF GrantInv, FileFit, FitRecord
<1>7. WriteTimes'
  <2>1. job.op = "write" => job.curr \in Nat
    BY DEF IInv, TypeOK, Job, Idle, Down
  <2> QED BY <1>1, <1>2, <2>1 DEF GrantInv, WriteTimes
<1> QED BY <1>2, <1>4, <1>6, <1>7 DEF GrantInv, ConfPool

\* The process is killed, the router reboots: with the clock back at its start
\* the records still fit, as they hold the time that was left.
LEMMA DeathGrant ==
    ASSUME IInv, GrantInv, Kill \/ PowerCycle
    PROVE  GrantInv'
<1>1. job' = Down /\ leases' = ZeroTable /\ out' = {} /\ UNCHANGED conf
  BY DEF Kill, PowerCycle
<1>2. Fit(leases)' /\ WriteTimes'
  BY <1>1 DEF Fit, ZeroTable, ZeroLease, WriteTimes, Down
<1>3. FileFit'
  <2>1. CASE Kill
    BY <2>1 DEF Kill, GrantInv, FileFit, FitRecord
  <2>2. CASE PowerCycle
    <3>1. TimesOrdered => Remaining
      BY <2>2 DEF PowerCycle, TimesOrdered
    <3>2. file' = file \/ file' = <<>>
      BY <2>2 DEF PowerCycle
    <3>3. CASE file' = file
      BY <3>1, <3>3 DEF GrantInv, FileFit, FitRecord
    <3>4. CASE file' = <<>>
      <4>1. 1 .. Len(file') = {}
        BY <3>4
      <4> QED BY <4>1 DEF FileFit
    <3> QED BY <3>2, <3>3, <3>4
  <2> QED BY <2>1, <2>2
<1> QED BY <1>1, <1>2, <1>3 DEF GrantInv, ConfPool

\* The server starts with an empty table and an empty file.
LEMMA InitGrant == Init => GrantInv
<1> SUFFICES ASSUME Init PROVE GrantInv
  OBVIOUS
<1>1. Fit(leases)
  BY FitZero DEF Init
<1>2. FileFit
  <2>1. 1 .. Len(file) = {}
    BY DEF Init
  <2> QED BY <2>1 DEF FileFit
<1>3. ConfPool
  BY DEF Init, ConfOf, ConfPool
<1>4. WriteTimes /\ out = {}
  BY DEF Init, WriteTimes, Down
<1> QED BY <1>1, <1>2, <1>3, <1>4 DEF GrantInv

\* Every step keeps the clients' entries and the records fit.
LEMMA NextGrant == Inv /\ GrantInv /\ [Next]_vars => GrantInv'
<1> SUFFICES ASSUME Inv, GrantInv, [Next]_vars PROVE GrantInv'
  OBVIOUS
<1>0. IInv
  BY DEF Inv
<1>1. CASE sendOffer
  BY <1>0, <1>1, SendOfferGrant
<1>2. CASE find_address
  BY <1>0, <1>2, FindAddressGrant
<1>3. CASE check_ip
  BY <1>0, <1>3, CheckIpGrant
<1>4. CASE write_leases
  BY <1>0, <1>4, WriteLeasesGrant
<1>5. CASE WriteDone
  BY <1>0, <1>5, WriteDoneGrant
<1>6. CASE read_leases
  BY <1>0, <1>6, ReadLeasesGrant
<1>7. CASE LoadDone
  BY <1>0, <1>7, LoadDoneGrant
<1>8. CASE \E p \in Packets : PacketMsg(p)
  <2>1. PICK p \in Packets : PacketMsg(p)
    BY <1>8
  <2>2. CASE RequestKnown(p)
    BY <1>0, <2>2, RequestKnownGrant
  <2>3. CASE RequestUnknown(p)
    BY <1>0, <2>3, RequestUnknownGrant
  <2>4. CASE DiscoverMsg(p) \/ DeclineMsg(p) \/ ReleaseMsg(p) \/ InformMsg(p)
    BY <1>0, <2>4, OtherPacketGrant
  <2> QED BY <2>1, <2>2, <2>3, <2>4 DEF PacketMsg
<1>9. CASE AutoSave \/ SigUsr1 \/ SigTerm
  BY <1>0, <1>9, StartWriteGrant DEF AutoSave, SigUsr1, SigTerm
<1>10. CASE Start \/ SigUsr2
  BY <1>0, <1>10, StartLoadGrant DEF Start, SigUsr2
<1>11. CASE Tick \/ SetLan
  BY <1>0, <1>11, EnvGrant
<1>12. CASE Kill \/ PowerCycle
  BY <1>0, <1>12, DeathGrant
<1>13. CASE UNCHANGED vars
  BY <1>13 DEF GrantInv, Fit, FitEntry, FileFit, FitRecord, ConfPool, WriteTimes, Granted, vars
<1> QED BY <1>1, <1>2, <1>3, <1>4, <1>5, <1>6, <1>7, <1>8, <1>9, <1>10, <1>11, <1>12, <1>13
        DEF Next, ServerStep

\* The entries and the records are fit in every state of the server.
LEMMA GrantAlways == Spec => []GrantInv
  BY InitGrant, NextGrant, InvAlways, PTL DEF Spec

\* Every lease time in an OFFER or an ACK lies between min_lease and lease, also
\* the one that is what is left of an earlier entry, through every reload and
\* reboot, when an offer is held no longer than a lease and the file holds
\* remaining times (or the clock never restarts).  Both are needed: an entry
\* that lasts longer than a lease is offered for as long as it lasts.
THEOREM TimesGranted ==
    ASSUME TimesOrdered
    PROVE  Spec => []GrantedTimes
<1>1. GrantInv => GrantedTimes
  BY DEF GrantInv, Granted, GrantedTimes
<1> QED BY <1>1, GrantAlways, PTL

\* Every address in an OFFER or an ACK is in the pool although renewals and
\* the reload of the file do not check it, for a pool that stays when the router
\* moves.
THEOREM PoolIsRespected ==
    ASSUME OnePool
    PROVE  Spec => []PoolRespected
<1>1. GrantInv => PoolRespected
  BY DEF GrantInv, Granted, PoolRespected
<1> QED BY <1>1, GrantAlways, PTL

-----------------------------------------------------------------------------
(* The address being probed.  find_address has looked at the table before  *)
(* the probe; nothing enters the address into the table while it is waited *)
(* for, and what had expired stays expired.                                *)

ProbeFree ==
    OneSubnet /\ job.op = "find" /\ job.probe =>
        \A i \in Slots : leases[i].yiaddr = job.addr => lease_expired(leases[i], now)

\* The probe starts for an address without an unexpired entry.
LEMMA FindAddressProbe ==
    ASSUME IInv, find_address
    PROVE  ProbeFree'
<1> DEFINE a == job.addr
           l == find_lease_by_yiaddr(leases, a)
           next == [job EXCEPT !.addr = a + 1]
           probe == [job EXCEPT !.probe = TRUE]
<1>1. /\ job \in [op : {"find"}, pkt : Packets, try : 1 .. 2, check_expired : BOOLEAN,
                   addr : Nat, probe : BOOLEAN]
      /\ ~job.probe /\ conf.start <= a
  BY DEF find_address, IInv, TypeOK, Job, Idle, Down, ScanInPool
<1>2. leases \in Table /\ a # 0
  <2>1. conf.start \in Nat \ {0} /\ a \in Nat
    BY <1>1, TableAssumption DEF IInv, TypeOK
  <2> QED BY <1>1, <2>1 DEF IInv, TypeOK
<1>3. \/ job' = Find(job.pkt, job.try, TRUE, conf.start)
      \/ job' = Offer(job.pkt, 2)
      \/ job' = Idle
      \/ job' = next
      \/ /\ job' = probe /\ leases' = leases /\ now' = now
         /\ l = NULL \/ lease_expired(leases[l], now)
  BY DEF find_address, offer_failed, Rest
<1>4. ~next.probe /\ probe.addr = a
  BY <1>1
<1>5. ASSUME job' = probe, leases' = leases, now' = now,
             l = NULL \/ lease_expired(leases[l], now)
      PROVE  ProbeFree'
  <2>1. ASSUME OneSubnet, NEW i \in Slots, leases[i].yiaddr = a
        PROVE  lease_expired(leases[i], now)
    <3>1. l # NULL /\ l \in Slots /\ leases[l].yiaddr = a
      BY <1>2, <2>1, FindLease
    <3>2. one_per_address(leases)
      BY <2>1 DEF IInv, Sound
    <3> HIDE DEF a, l
    <3>3. i = l
      BY <1>2, <2>1, <3>1, <3>2 DEF one_per_address
    <3> QED BY <1>5, <3>1, <3>3
  <2> HIDE DEF a, l, probe
  <2> QED BY <1>4, <1>5, <2>1 DEF ProbeFree, lease_expired
<1> HIDE DEF a, l, next, probe
<1> QED BY <1>3, <1>4, <1>5 DEF ProbeFree, Find, Offer, Idle

\* A step after which no address is being probed.
LEMMA NoProbe ==
    ASSUME job'.op # "find" \/ job'.probe = FALSE
    PROVE  ProbeFree'
  BY DEF ProbeFree

\* Every step keeps what is known of the address being probed.
LEMMA NextProbe == Inv /\ ProbeFree /\ [Next]_vars => ProbeFree'
<1> SUFFICES ASSUME Inv, ProbeFree, [Next]_vars PROVE ProbeFree'
  OBVIOUS
<1>0. IInv /\ TypeOK
  BY DEF Inv, IInv
<1>1. CASE sendOffer
  <2>1. job' = Idle \/ job' = Offer(job.pkt, 2) \/ job' = Find(job.pkt, job.try, FALSE, conf.start)
    BY <1>1 DEF sendOffer, make_offer, offer_failed
  <2>4. job'.op # "find" \/ job'.probe = FALSE
    BY <2>1 DEF Idle, Offer, Find
  <2> QED BY <2>4, NoProbe
<1>2. CASE find_address
  BY <1>0, <1>2, FindAddressProbe
<1>3. CASE check_ip
  <2> DEFINE next == [job EXCEPT !.addr = job.addr + 1, !.probe = FALSE]
  <2>1. job' = Idle \/ job' = Offer(job.pkt, 2) \/ job' = next
    BY <1>3 DEF check_ip, make_offer, offer_failed
  <2>2. job \in [op : {"find"}, pkt : Packets, try : 1 .. 2, check_expired : BOOLEAN,
                  addr : Nat, probe : BOOLEAN]
    BY <1>0, <1>3 DEF check_ip, TypeOK, Job, Idle, Down
  <2>3. next.probe = FALSE
    BY <2>2
  <2> HIDE DEF next
  <2>4. job'.op # "find" \/ job'.probe = FALSE
    BY <2>1, <2>3 DEF Idle, Offer
  <2> QED BY <2>4, NoProbe
<1>4. CASE write_leases \/ read_leases
  <2>1. /\ job.op # "find"
        /\ \E i : job' = [job EXCEPT !.i = i]
    BY <1>4 DEF write_leases, read_leases
  <2>2. \/ job \in [op : {"load"}, i : Nat \ {0}, reconf : BOOLEAN]
        \/ job \in [op : {"write"}, i : 1 .. MaxLeases + 1, curr : Nat, quit : BOOLEAN]
    BY <1>0, <1>4 DEF write_leases, read_leases, TypeOK, Job, Idle, Down
  <2>3. job'.op = job.op
    BY <2>1, <2>2
  <2> QED BY <2>1, <2>3, NoProbe
<1>5. CASE WriteDone \/ LoadDone \/ Kill \/ PowerCycle
  <2>1. job' = Idle \/ job' = Down
    BY <1>5 DEF WriteDone, LoadDone, Kill, PowerCycle
  <2>4. job'.op # "find" \/ job'.probe = FALSE
    BY <2>1 DEF Idle, Down
  <2> QED BY <2>4, NoProbe
<1>6. CASE \E p \in Packets : PacketMsg(p)
  <2>1. PICK p \in Packets : PacketMsg(p)
    BY <1>6
  <2>2. job' = Idle \/ job' = Offer(p, 1)
    BY <2>1 DEF PacketMsg, DiscoverMsg, RequestKnown, RequestUnknown, DeclineMsg, ReleaseMsg,
                InformMsg, Ready, Selected
  <2>4. job'.op # "find" \/ job'.probe = FALSE
    BY <2>2 DEF Idle, Offer
  <2> QED BY <2>4, NoProbe
<1>7. CASE AutoSave \/ SigUsr1 \/ SigTerm
  <2>1. \E b : job' = Write(1, now, b)
    BY <1>7 DEF AutoSave, SigUsr1, SigTerm, StartWrite
  <2>4. job'.op # "find" \/ job'.probe = FALSE
    BY <2>1 DEF Write
  <2> QED BY <2>4, NoProbe
<1>8. CASE Start \/ SigUsr2
  <2>1. \E b : job' = Load(1, b)
    BY <1>8 DEF Start, SigUsr2, StartLoad
  <2>4. job'.op # "find" \/ job'.probe = FALSE
    BY <2>1 DEF Load
  <2> QED BY <2>4, NoProbe
<1>9. CASE Tick \/ SetLan \/ UNCHANGED vars
  <2>1. leases' = leases /\ job' = job /\ now' \in {now, now + 1}
    BY <1>9 DEF Tick, SetLan, vars
  <2>2. now \in Nat /\ \A i \in Slots : leases[i].expires \in Nat
    BY <1>0 DEF TypeOK, Table, Lease
  <2> QED BY <2>1, <2>2 DEF ProbeFree, lease_expired
<1> QED BY <1>1, <1>2, <1>3, <1>4, <1>5, <1>6, <1>7, <1>8, <1>9 DEF Next, ServerStep

\* The address being probed has no unexpired entry, in every state.
LEMMA ProbeAlways == Spec => []ProbeFree
<1>1. Init => ProbeFree
  BY DEF Init, ProbeFree, Down
<1> QED BY <1>1, NextProbe, InvAlways, PTL DEF Spec

-----------------------------------------------------------------------------
(* What happens to an unexpired entry.  LiveIn(t, l, i) says that slot i of *)
(* the table t still holds the lease l, if under another host name.        *)

LiveIn(t, l, i) ==
    t[i].chaddr = l.chaddr /\ t[i].yiaddr = l.yiaddr /\ t[i].expires = l.expires

\* add_lease keeps it if it is for another client and another address.
LEMMA LiveAdd ==
    ASSUME TypeOK, NEW t, Sound(t), NEW l, NEW i \in Slots, LiveIn(t, l, i),
           ~lease_expired(l, now), NEW c \in Client \cup {Blank}, l.chaddr # c \/ c = Blank,
           NEW y \in Addr \cup {0}, l.yiaddr # y, NEW d \in Int
    PROVE  LiveIn(add_lease(t, c, y, d, now), l, i)
<1>1. t \in Table /\ now \in Nat \ {0}
  BY DEF Sound, TypeOK
<1>2. ~lease_expired(t[i], now) /\ t[i].yiaddr # y /\ (c # Blank => t[i].chaddr # c)
  BY DEF LiveIn, lease_expired
<1>3. add_lease(t, c, y, d, now)[i] = t[i]
  BY <1>1, <1>2, AddLeaseLive
<1> QED BY <1>3 DEF LiveIn

\* Reserving another address keeps it.
LEMMA LiveReserve ==
    ASSUME TypeOK, NEW t, Sound(t), NEW l, NEW i \in Slots, LiveIn(t, l, i),
           ~lease_expired(l, now), NEW y \in Addr \cup {0}, l.yiaddr # y
    PROVE  LiveIn(add_lease(t, Blank, y, ConflictTime, now), l, i)
<1>1. ConflictTime \in Int
  BY Times
<1> QED BY <1>1, LiveAdd

\* So does find_lease_by_chaddr, which may reserve the router's own address.
LEMMA LiveFind ==
    ASSUME TypeOK, NEW t, Sound(t), NEW l, NEW i \in Slots, LiveIn(t, l, i),
           ~lease_expired(l, now), l.yiaddr # lan, NEW c \in Client
    PROVE  LiveIn(table_after_find(t, c), l, i)
<1>1. lan \in Addr \cup {0}
  BY ServerAssumption DEF TypeOK
<1>2. table_after_find(t, c) \in {t, add_lease(t, Blank, lan, ConflictTime, now)}
  BY DEF table_after_find, IsLanIPAddr, reserve_lan
<1> QED BY <1>1, <1>2, LiveReserve

\* So does writing a host name, into whatever slot.
LEMMA LiveName ==
    ASSUME NEW t, Sound(t), NEW l, NEW i \in Slots, LiveIn(t, l, i),
           NEW s \in Slots, NEW h \in HostName \cup {NoName}
    PROVE  LiveIn(set_hostname(t, s, h), l, i)
  BY SoundName DEF LiveIn

\* The tail of sendOffer, for another client and another address.
LEMMA LiveOffer ==
    ASSUME IInv, NEW t, Sound(t), NEW l, NEW i \in Slots, LiveIn(t, l, i),
           ~lease_expired(l, now), NEW p \in Packets, l.chaddr # p.chaddr,
           NEW y \in Addr, l.yiaddr # y, NEW try, NEW left, make_offer(p, try, t, y, left)
    PROVE  LiveIn(leases', l, i)
<1>1. p.chaddr \in Client /\ OfferTime \in Int /\ TypeOK
  BY PacketType, Times DEF IInv
<1>2. leases' = add_lease(t, p.chaddr, y, OfferTime, now)
  BY DEF make_offer, offer_failed
<1> QED BY <1>1, <1>2, LiveAdd

\* sendACK, for another client and another address.
LEMMA LiveACK ==
    ASSUME IInv, NEW t, Sound(t), NEW l, NEW i \in Slots, LiveIn(t, l, i),
           ~lease_expired(l, now), NEW p \in Packets, l.chaddr # p.chaddr,
           NEW y \in Addr, l.yiaddr # y, NEW s \in Slots, sendACK(p, t, y, s)
    PROVE  LiveIn(leases', l, i)
<1> DEFINE time == ack_lease_time(p.ltime)
           u == add_lease(t, p.chaddr, y, time, now)
<1>1. /\ p.chaddr \in Client /\ p.host \in HostName \cup {NoName} /\ TypeOK
      /\ p.ltime \in Nat /\ now \in Nat \ {0}
  BY PacketType DEF IInv, TypeOK
<1>2. time \in Nat
  <2>1. 0 \in Nat
    OBVIOUS
  <2> QED BY <1>1, <2>1, LeaseTimes
<1> HIDE DEF time
<1>3. LiveIn(u, l, i) /\ Sound(u)
  <2>1. time \in Int /\ now + time \in Nat
    BY <1>1, <1>2
  <2> QED BY <1>1, <2>1, LiveAdd, SoundAdd
<1>4. leases' = set_hostname(u, s, p.host) \/ leases' = set_hostname(t, s, p.host)
  BY DEF sendACK, time
<1> HIDE DEF u
<1> QED BY <1>1, <1>3, <1>4, LiveName

\* In a table with one entry per address, a client's unexpired entry that
\* find_lease_by_chaddr leaves alone is the only one for its address.
LEMMA OnlyHolder ==
    ASSUME NEW t \in Table, one_per_address(t), NEW i \in Slots, NEW y, y # 0,
           t[i].yiaddr = y, NEW r, r = find_lease_by_yiaddr(t, y)
    PROVE  r = i
<1>1. r # NULL /\ r \in Slots /\ t[r].yiaddr = y
  BY FindLease
<1> QED BY <1>1 DEF one_per_address

\* The head of sendOffer makes no offer of an address that somebody else has and
\* that has not expired, and keeps what has not expired of others.
LEMMA SendOfferLive ==
    ASSUME IInv, OneSubnet, sendOffer, NEW i \in Slots, leases[i].chaddr # job.pkt.chaddr,
           ~lease_expired(leases[i], now)
    PROVE  /\ \A m \in out' : m.type = "OFFER" => m.yiaddr # leases[i].yiaddr
           /\ leases[i].yiaddr # lan => LiveIn(leases', leases[i], i)
<1> DEFINE p == job.pkt
           try == job.try
           s == lease_of(leases, p.chaddr)
           q == slot_of_chaddr(leases, p.chaddr)
           t == table_after_find(leases, p.chaddr)
           r == find_lease_by_yiaddr(t, p.req)
           left == IF lease_expired(t[s], now) THEN LeaseTime ELSE t[s].expires - now
           l == leases[i]
<1>0. /\ TypeOK /\ Sound(leases) /\ leases \in Table /\ one_per_address(leases)
      /\ now \in Nat \ {0} /\ lan \in Addr
  BY ServerAssumption DEF IInv, Sound, TypeOK
<1>1. p \in Packets /\ try \in 1 .. 2
  BY DEF sendOffer, IInv, TypeOK, Job, Idle, Down
<1>2. p.chaddr \in Client /\ p.req \in Addr \cup {0}
  BY <1>1, PacketType
<1>3. /\ Sound(t) /\ t \in Table /\ one_per_address(t)
      /\ s # NULL => /\ t = leases /\ s \in Slots /\ leases[s].yiaddr \in Addr
                     /\ leases[s].chaddr = p.chaddr
  <2>1. Sound(t)
    BY <1>0, <1>2, SoundFind
  <2> QED BY <1>0, <1>2, <2>1, SoundFind DEF Sound
<1>4. LiveIn(leases, l, i)
  BY DEF LiveIn
<1>5. LiveIn(t, l, i)
  <2>1. CASE l.yiaddr # lan
    BY <1>0, <1>2, <1>4, <2>1, LiveFind
  <2>2. CASE l.yiaddr = lan
    <3>1. q # NULL => q \in Slots /\ leases[q].chaddr = p.chaddr
      BY <1>0, FindLease
    <3>2. q # NULL => leases[q].yiaddr # lan
      <4>1. lan # 0
        BY <1>0, TableAssumption
      <4> HIDE DEF q, p
      <4> QED BY <1>0, <2>2, <3>1, <4>1 DEF one_per_address, p
    <3>3. t = leases
      BY <3>2 DEF table_after_find, IsLanIPAddr
    <3> QED BY <1>4, <3>3
  <2> QED BY <2>1, <2>2
<1>6. \/ s # NULL /\ make_offer(p, try, t, t[s].yiaddr, left)
      \/ /\ p.req # 0 /\ (r = NULL \/ lease_expired(t[r], now))
         /\ make_offer(p, try, t, p.req, LeaseTime)
      \/ leases' = t /\ out' = {}
  BY DEF sendOffer
<1>7. s # NULL => t[s].yiaddr # l.yiaddr /\ t[s].yiaddr \in Addr
  <2>1. s # NULL => leases[s].yiaddr # 0
    BY <1>3, TableAssumption
  <2> HIDE DEF s, t
  <2> QED BY <1>0, <1>3, <2>1 DEF one_per_address
<1>8. p.req # 0 /\ (r = NULL \/ lease_expired(t[r], now)) => p.req # l.yiaddr
  <2> SUFFICES ASSUME p.req # 0, r = NULL \/ lease_expired(t[r], now), p.req = l.yiaddr
               PROVE  FALSE
    OBVIOUS
  <2>1. t[i].yiaddr = p.req /\ ~lease_expired(t[i], now)
    <3> HIDE DEF t
    <3> QED BY <1>5 DEF LiveIn, lease_expired
  <2>2. r = i
    <3> HIDE DEF t, p
    <3> QED BY <1>3, <2>1, OnlyHolder
  <2>3. r # NULL
    BY <2>2, TableAssumption DEF NULL, Slots
  <2> HIDE DEF t, r
  <2> QED BY <2>1, <2>2, <2>3
<1>9. ASSUME NEW y, NEW x, make_offer(p, try, t, y, x), NEW m \in out'
      PROVE  m.yiaddr = y
  BY <1>9 DEF make_offer, offer_failed, reply
<1> HIDE DEF p, try, s, q, t, r, left, l
<1>10. CASE s # NULL /\ make_offer(p, try, t, t[s].yiaddr, left)
  <2>1. LiveIn(leases', l, i)
    BY <1>1, <1>3, <1>5, <1>7, <1>10, LiveOffer DEF l, p
  <2> QED BY <1>7, <1>9, <1>10, <2>1 DEF l
<1>11. CASE /\ p.req # 0 /\ (r = NULL \/ lease_expired(t[r], now))
            /\ make_offer(p, try, t, p.req, LeaseTime)
  <2>1. p.req \in Addr /\ l.yiaddr # p.req
    BY <1>2, <1>8, <1>11
  <2>2. LiveIn(leases', l, i)
    BY <1>1, <1>3, <1>5, <1>11, <2>1, LiveOffer DEF l, p
  <2> QED BY <1>9, <1>11, <2>1, <2>2 DEF l
<1>12. CASE leases' = t /\ out' = {}
  BY <1>5, <1>12 DEF l
<1> QED BY <1>6, <1>10, <1>11, <1>12

\* The scan of find_address reserves no address but the router's own.
LEMMA FindAddressLive ==
    ASSUME IInv, find_address, NEW i \in Slots, ~lease_expired(leases[i], now),
           leases[i].yiaddr # lan
    PROVE  LiveIn(leases', leases[i], i) /\ out' = {}
<1>1. /\ out' = {}
      /\ leases' \in {leases, add_lease(leases, Blank, lan, ConflictTime, now)}
  BY DEF find_address, offer_failed, reserve_lan, IsLanIPAddr
<1>2. TypeOK /\ Sound(leases) /\ lan \in Addr \cup {0}
  BY ServerAssumption DEF IInv, TypeOK
<1>3. LiveIn(leases, leases[i], i)
  BY DEF LiveIn
<1> QED BY <1>1, <1>2, <1>3, LiveReserve

\* The answer to the probe concerns no unexpired entry.
LEMMA CheckIpLive ==
    ASSUME IInv, OneSubnet, ProbeFree, check_ip, NEW i \in Slots,
           ~lease_expired(leases[i], now)
    PROVE  /\ \A m \in out' : m.yiaddr # leases[i].yiaddr
           /\ leases[i].chaddr # job.pkt.chaddr => LiveIn(leases', leases[i], i)
<1>1. /\ job \in [op : {"find"}, pkt : Packets, try : 1 .. 2, check_expired : BOOLEAN,
                   addr : Nat, probe : BOOLEAN]
      /\ job.probe /\ conf.start <= job.addr /\ job.addr <= conf.end
  BY DEF check_ip, IInv, TypeOK, Job, Idle, Down, ScanInPool
<1>2. job.addr \in Addr /\ job.addr \in Addr \cup {0} /\ job.pkt \in Packets
  BY <1>1, TableAssumption DEF IInv, TypeOK
<1>3. leases[i].yiaddr # job.addr
  BY <1>1 DEF ProbeFree
<1>4. \/ leases' = add_lease(leases, Blank, job.addr, ConflictTime, now) /\ out' = {}
      \/ make_offer(job.pkt, job.try, leases, job.addr, LeaseTime)
  BY DEF check_ip
<1>5. TypeOK /\ Sound(leases)
  BY DEF IInv
<1>6. LiveIn(leases, leases[i], i)
  BY DEF LiveIn
<1>7. CASE leases' = add_lease(leases, Blank, job.addr, ConflictTime, now) /\ out' = {}
  BY <1>2, <1>3, <1>5, <1>6, <1>7, LiveReserve
<1>8. CASE make_offer(job.pkt, job.try, leases, job.addr, LeaseTime)
  <2>1. \A m \in out' : m.yiaddr = job.addr
    BY <1>8 DEF make_offer, offer_failed, reply
  <2>2. leases[i].chaddr # job.pkt.chaddr => LiveIn(leases', leases[i], i)
    BY <1>2, <1>3, <1>5, <1>6, <1>8, LiveOffer
  <2> QED BY <1>3, <2>1, <2>2
<1> QED BY <1>4, <1>7, <1>8

\* REQUEST of another client the table knows: it gets the address of its own entry.
LEMMA RequestKnownLive ==
    ASSUME IInv, OneSubnet, NEW p \in Packets, RequestKnown(p), NEW i \in Slots,
           leases[i].chaddr # p.chaddr, ~lease_expired(leases[i], now)
    PROVE  LiveIn(leases', leases[i], i)
<1> DEFINE s == lease_of(leases, p.chaddr)
           y == leases[s].yiaddr
<1>1. /\ p.chaddr \in Client /\ p.host \in HostName \cup {NoName}
      /\ Sound(leases) /\ one_per_address(leases) /\ TypeOK
  BY PacketType DEF IInv, Sound
<1>2. s \in Slots /\ leases[s].chaddr = p.chaddr /\ y \in Addr /\ y # 0
  <2>1. s \in Slots /\ leases[s].chaddr = p.chaddr /\ y \in Addr
    BY <1>1, SoundFind DEF RequestKnown
  <2> QED BY <2>1, TableAssumption
<1>3. \/ leases' = set_hostname(leases, s, p.host)
      \/ sendACK(p, leases, y, s)
  BY DEF RequestKnown, sendNAK
<1> HIDE DEF s
<1>4. leases[i].yiaddr # y
  BY <1>1, <1>2 DEF one_per_address
<1>5. LiveIn(leases, leases[i], i)
  BY DEF LiveIn
<1>6. CASE leases' = set_hostname(leases, s, p.host)
  BY <1>1, <1>2, <1>5, <1>6, LiveName
<1>7. CASE sendACK(p, leases, y, s)
  BY <1>1, <1>2, <1>4, <1>5, <1>7, LiveACK
<1> QED BY <1>3, <1>6, <1>7

\* REQUEST of another client, which the table does not know: the entry is lost
\* only when its address is the one that is named.
LEMMA RequestUnknownLive ==
    ASSUME IInv, NEW p \in Packets, RequestUnknown(p), NEW i \in Slots,
           leases[i].chaddr # p.chaddr, ~lease_expired(leases[i], now),
           leases[i].yiaddr # lan, leases[i].yiaddr \notin {p.req, p.ciaddr}
    PROVE  LiveIn(leases', leases[i], i)
<1> DEFINE t0 == table_after_find(leases, p.chaddr)
           w == IF p.sid # 0 \/ p.req # 0 THEN p.req ELSE p.ciaddr
           t1 == add_lease(t0, p.chaddr, w, OfferTime, now)
           s == lease_of(t1, p.chaddr)
           l == leases[i]
<1>1. /\ p.chaddr \in Client /\ p.chaddr # Blank /\ p.host \in HostName \cup {NoName}
      /\ w \in Addr \cup {0} /\ l.yiaddr # w
  BY PacketType, TableAssumption
<1>2. /\ now \in Nat \ {0} /\ OfferTime \in Int /\ now + OfferTime \in Nat
      /\ TypeOK /\ Sound(leases)
  BY Times DEF IInv, TypeOK
<1>3. LiveIn(leases, l, i)
  BY DEF LiveIn
<1>4. Sound(t0) /\ LiveIn(t0, l, i)
  BY <1>1, <1>2, <1>3, SoundFind, LiveFind
<1>5. Sound(t1) /\ LiveIn(t1, l, i)
  <2> HIDE DEF t0, w
  <2> QED BY <1>1, <1>2, <1>4, SoundAdd, LiveAdd
<1>6. LiveIn(table_after_find(t1, p.chaddr), l, i)
  <2> HIDE DEF t1
  <2> QED BY <1>1, <1>2, <1>5, LiveFind
<1>7. s # NULL => s \in Slots
  <2> HIDE DEF t1
  <2> QED BY <1>1, <1>2, <1>5, SoundFind
<1>8. \/ leases' \in {t0, t1, table_after_find(t1, p.chaddr)}
      \/ InPool(w) /\ s # NULL /\ sendACK(p, t1, w, s)
  BY DEF RequestUnknown, sendNAK
<1>9. InPool(w) => w \in Addr
  <2>1. conf.start \in Addr /\ conf.start # 0 /\ conf.start \in Nat
    BY <1>2, TableAssumption DEF TypeOK
  <2> HIDE DEF w
  <2> QED BY <1>1, <2>1 DEF InPool
<1> HIDE DEF t0, w, t1, s, l
<1>10. CASE leases' \in {t0, t1, table_after_find(t1, p.chaddr)}
  BY <1>4, <1>5, <1>6, <1>10 DEF l
<1>11. CASE InPool(w) /\ s # NULL /\ sendACK(p, t1, w, s)
  BY <1>1, <1>5, <1>7, <1>9, <1>11, LiveACK DEF l
<1> QED BY <1>8, <1>10, <1>11

\* DISCOVER, DECLINE, RELEASE and INFORM of another client.
LEMMA OtherPacketLive ==
    ASSUME IInv, NEW p \in Packets,
           DiscoverMsg(p) \/ DeclineMsg(p) \/ ReleaseMsg(p) \/ InformMsg(p),
           NEW i \in Slots, leases[i].chaddr # p.chaddr, ~lease_expired(leases[i], now),
           leases[i].yiaddr # lan
    PROVE  LiveIn(leases', leases[i], i)
<1> DEFINE s == lease_of(leases, p.chaddr)
           t == table_after_find(leases, p.chaddr)
           v == [leases EXCEPT ![s].chaddr = Blank]
           w == [v EXCEPT ![s].expires = now + DeclineTime]
           u == [leases EXCEPT ![s].expires = now]
<1>1. p.chaddr \in Client /\ TypeOK /\ Sound(leases) /\ leases \in [Slots -> Lease]
  BY PacketType DEF IInv, Sound, Table
<1>2. LiveIn(leases, leases[i], i)
  BY DEF LiveIn
<1>3. LiveIn(t, leases[i], i)
  BY <1>1, <1>2, LiveFind
<1>4. s # NULL => s \in Slots /\ s # i
  BY <1>1, SoundFind
<1>5. \/ leases' = t
      \/ s # NULL /\ leases' = w
      \/ s # NULL /\ leases' = u
  BY DEF DiscoverMsg, DeclineMsg, ReleaseMsg, InformMsg
<1>6. s # NULL => v[i] = leases[i] /\ DOMAIN v = Slots /\ u[i] = leases[i]
  <2> HIDE DEF s
  <2> QED BY <1>1, <1>4
<1>7. s # NULL => w[i] = leases[i]
  <2> HIDE DEF s, v
  <2> QED BY <1>4, <1>6
<1> HIDE DEF s, t, v, w, u
<1> QED BY <1>3, <1>5, <1>6, <1>7 DEF LiveIn

\* Only sendOffer and check_ip send an OFFER.
LEMMA OfferSent ==
    ASSUME Next, NEW m \in out', m.type = "OFFER"
    PROVE  sendOffer \/ check_ip
<1>1. ASSUME NEW p \in Packets, PacketMsg(p) PROVE FALSE
  <2>1. ASSUME NEW x \in out' PROVE x.type # "OFFER"
    <3>1. CASE DiscoverMsg(p) \/ DeclineMsg(p) \/ ReleaseMsg(p) \/ InformMsg(p)
      BY <2>1, <3>1 DEF DiscoverMsg, DeclineMsg, ReleaseMsg, InformMsg, send_inform, reply
    <3>2. CASE RequestKnown(p)
      <4>1. out' = {} \/ \E y, t : out' = {reply(p, "ACK", y, t)} \/ out' = {reply(p, "NAK", y, t)}
        BY <3>2 DEF RequestKnown, sendNAK, sendACK
      <4> QED BY <2>1, <4>1 DEF reply
    <3>3. CASE RequestUnknown(p)
      <4>1. out' = {} \/ \E y, t : out' = {reply(p, "ACK", y, t)} \/ out' = {reply(p, "NAK", y, t)}
        BY <3>3 DEF RequestUnknown, sendNAK, sendACK
      <4> QED BY <2>1, <4>1 DEF reply
    <3> QED BY <1>1, <3>1, <3>2, <3>3 DEF PacketMsg
  <2> QED BY <2>1
<1>2. ~(find_address \/ write_leases \/ WriteDone \/ read_leases \/ LoadDone)
  BY DEF find_address, offer_failed, write_leases, WriteDone, read_leases, LoadDone
<1>3. ~(AutoSave \/ SigUsr1 \/ SigUsr2 \/ SigTerm \/ Start)
  BY DEF AutoSave, SigUsr1, SigUsr2, SigTerm, Start, StartWrite, StartLoad
<1>4. ~(Tick \/ SetLan \/ Kill \/ PowerCycle)
  BY DEF Tick, SetLan, Kill, PowerCycle
<1> QED BY <1>1, <1>2, <1>3, <1>4 DEF Next, ServerStep

\* No OFFER names an address that the table holds, unexpired, for somebody else,
\* also when the address was looked at seconds before, at the start of its
\* probe.  The LAN stays in one subnet, so that an address has one entry.
THEOREM OffersAreFree ==
    ASSUME OneSubnet
    PROVE  Spec => OfferNotTaken
<1>1. Inv /\ ProbeFree /\ [Next]_vars =>
        [\A m \in out' : m.type = "OFFER" =>
            ~\E i \in Slots : /\ leases[i].yiaddr = m.yiaddr
                              /\ leases[i].chaddr # m.chaddr
                              /\ ~lease_expired(leases[i], now)]_vars
  <2> SUFFICES ASSUME Inv, ProbeFree, Next, NEW m \in out', m.type = "OFFER",
                      NEW i \in Slots, leases[i].yiaddr = m.yiaddr,
                      leases[i].chaddr # m.chaddr, ~lease_expired(leases[i], now)
               PROVE  FALSE
    BY DEF vars
  <2>1. IInv
    BY DEF Inv
  <2>2. CASE sendOffer
    <3>1. m.chaddr = job.pkt.chaddr
      <4>1. out' = {} \/ \E y, left : make_offer(job.pkt, job.try,
                                   table_after_find(leases, job.pkt.chaddr), y, left)
        BY <2>2 DEF sendOffer
      <4>2. out' = {} \/ \E y, left : out' = {reply(job.pkt, "OFFER", y, left)}
        BY <4>1 DEF make_offer, offer_failed
      <4> QED BY <4>2 DEF reply
    <3> QED BY <2>1, <2>2, <3>1, SendOfferLive
  <2>3. CASE check_ip
    BY <2>1, <2>3, CheckIpLive
  <2> QED BY <2>2, <2>3, OfferSent
<1> QED BY <1>1, InvAlways, ProbeAlways, PTL DEF Spec, OfferNotTaken

\* A client's unexpired lease stays in the table, whatever the other clients do,
\* however full the table is and however many addresses are found in conflict:
\* it ends by a packet of the client itself, by a REQUEST for its address of a
\* client the server does not know, by the router's move onto its address, or
\* with the table.
THEOREM LiveLeasesAreKept ==
    ASSUME OneSubnet
    PROVE  Spec => LiveLeaseKept
<1>1. Inv /\ ProbeFree /\ [Next]_vars =>
        [\A i \in Slots :
            LET l == leases[i]
            IN  \/ l.chaddr = Blank
                \/ lease_expired(l, now)
                \/ l.yiaddr = lan
                \/ \E j \in Slots : [leases'[j] EXCEPT !.hostname = l.hostname] = l
                \/ job.op \in {"offer", "find"} /\ job.pkt.chaddr = l.chaddr
                \/ \E p \in Packets : PacketMsg(p) /\ p.chaddr = l.chaddr
                \/ \E p \in Packets : RequestUnknown(p) /\ l.yiaddr \in {p.req, p.ciaddr}
                \/ "load" \in {job.op, job'.op}
                \/ job' = Down]_vars
  <2> SUFFICES ASSUME Inv, ProbeFree, Next, Inv', NEW i \in Slots, leases[i].chaddr # Blank,
                      ~lease_expired(leases[i], now), leases[i].yiaddr # lan,
                      ~(job.op \in {"offer", "find"} /\ job.pkt.chaddr = leases[i].chaddr),
                      ~\E p \in Packets : PacketMsg(p) /\ p.chaddr = leases[i].chaddr,
                      ~\E p \in Packets : /\ RequestUnknown(p)
                                          /\ leases[i].yiaddr \in {p.req, p.ciaddr},
                      "load" \notin {job.op, job'.op}, job' # Down
               PROVE  [leases'[i] EXCEPT !.hostname = leases[i].hostname] = leases[i]
    BY NextInv DEF vars
  <2>0. IInv
    BY DEF Inv
  <2>1. LiveIn(leases', leases[i], i)
    <3>1. CASE sendOffer
      <4>1. leases[i].chaddr # job.pkt.chaddr
        BY <3>1 DEF sendOffer
      <4> QED BY <2>0, <3>1, <4>1, SendOfferLive
    <3>2. CASE find_address
      BY <2>0, <3>2, FindAddressLive
    <3>3. CASE check_ip
      <4>1. leases[i].chaddr # job.pkt.chaddr
        BY <3>3 DEF check_ip
      <4> QED BY <2>0, <3>3, <4>1, CheckIpLive
    <3>4. CASE leases' = leases
      BY <3>4 DEF LiveIn
    <3>5. CASE \E p \in Packets : PacketMsg(p)
      <4>1. PICK p \in Packets : PacketMsg(p)
        BY <3>5
      <4>2. leases[i].chaddr # p.chaddr
        BY <4>1
      <4>3. CASE RequestKnown(p)
        BY <2>0, <4>2, <4>3, RequestKnownLive
      <4>4. CASE RequestUnknown(p)
        BY <2>0, <4>2, <4>4, RequestUnknownLive
      <4>5. CASE DiscoverMsg(p) \/ DeclineMsg(p) \/ ReleaseMsg(p) \/ InformMsg(p)
        BY <2>0, <4>2, <4>5, OtherPacketLive
      <4> QED BY <4>1, <4>3, <4>4, <4>5 DEF PacketMsg
    <3>6. ~(read_leases \/ LoadDone \/ Kill \/ PowerCycle)
      BY DEF read_leases, LoadDone, Kill, PowerCycle
    <3>7. ~(Start \/ SigUsr2)
      BY DEF Start, SigUsr2, StartLoad, Load
    <3>8. write_leases \/ WriteDone \/ Tick \/ SetLan => leases' = leases
      BY DEF write_leases, WriteDone, Tick, SetLan
    <3>9. AutoSave \/ SigUsr1 \/ SigTerm => leases' = leases
      BY DEF AutoSave, SigUsr1, SigTerm, StartWrite
    <3> QED BY <3>1, <3>2, <3>3, <3>4, <3>5, <3>6, <3>7, <3>8, <3>9 DEF Next, ServerStep
  <2>2. leases[i] \in Lease /\ leases'[i] \in Lease
    BY <2>0 DEF Inv, IInv, TypeOK, Table
  <2> QED BY <2>1, <2>2 DEF LiveIn, Lease
<1> QED BY <1>1, InvAlways, ProbeAlways, PTL DEF Spec, LiveLeaseKept

-----------------------------------------------------------------------------
(* The lease file: how far write_leases and read_leases have come.         *)

SameLease(r, l) == r.chaddr = l.chaddr /\ r.yiaddr = l.yiaddr

\* The entries before slot i have been written, and the file holds nothing else.
WriteProgress ==
    job.op = "write" =>
        /\ \A i \in Slots : i < job.i /\ leases[i].chaddr \notin NoWrite \cup {Blank} =>
              \E k \in 1 .. Len(file) : /\ SameLease(file[k], leases[i])
                                        /\ leases[i].expires <= job.curr + file[k].left
        /\ \A k \in 1 .. Len(file) :
              \E i \in Slots : i < job.i /\ SameLease(file[k], leases[i])

\* No two records of the file are for one client or for one address.
FileDistinct ==
    \A j, k \in 1 .. Len(file) :
        file[j].chaddr = file[k].chaddr \/ file[j].yiaddr = file[k].yiaddr => j = k

\* Record k is in slot k, and the slots after the last record read are unused.
LoadProgress ==
    job.op = "load" =>
        /\ job.i <= Len(file) + 1
        /\ job.i <= MaxLeases + 1
        /\ \A k \in Slots :
              IF k < job.i
              THEN /\ SameLease(file[k], leases[k])
                   /\ leases[k].hostname = file[k].hostname
                   /\ leases[k].expires <= now + file[k].left
              ELSE leases[k] = ZeroLease

FileInv == WriteProgress /\ (OneSubnet => FileDistinct /\ LoadProgress)

\* A step that neither reads nor writes.
LEMMA NoFileStep ==
    ASSUME FileInv, job'.op \notin {"write", "load"}, file' \in {file, <<>>}
    PROVE  FileInv'
<1>1. WriteProgress' /\ LoadProgress'
  BY DEF WriteProgress, LoadProgress
<1>2. OneSubnet => FileDistinct'
  <2>1. CASE file' = file
    BY <2>1 DEF FileInv, FileDistinct
  <2>2. CASE file' = <<>>
    <3>1. 1 .. Len(file') = {}
      BY <2>2
    <3> QED BY <3>1 DEF FileDistinct
  <2> QED BY <2>1, <2>2
<1> QED BY <1>1, <1>2 DEF FileInv

\* The file is emptied when writing begins.
LEMMA StartWriteFile ==
    ASSUME IInv, FileInv, NEW b \in BOOLEAN, StartWrite(b)
    PROVE  FileInv'
<1>1. job' = Write(1, now, b) /\ file' = <<>> /\ leases' = leases
  BY DEF StartWrite
<1>2. job'.op = "write" /\ job'.i = 1
  BY <1>1 DEF Write
<1>3. 1 .. Len(file') = {}
  BY <1>1
<1>4. \A i \in Slots : ~(i < 1)
  BY TableAssumption DEF Slots
<1>5. WriteProgress'
  BY <1>2, <1>3, <1>4 DEF WriteProgress
<1>6. FileDistinct' /\ LoadProgress'
  BY <1>2, <1>3 DEF FileDistinct, LoadProgress
<1> QED BY <1>5, <1>6 DEF FileInv

\* An iteration of write_leases: the entry is written if it is a client's, and it
\* is of another client and another address than those before it.
LEMMA WriteLeasesFile ==
    ASSUME IInv, FileInv, write_leases
    PROVE  FileInv'
<1> DEFINE n == job.i
           l == leases[n]
           r == saved(l, job.curr)
           skipped == l.yiaddr = 0 \/ l.chaddr = Blank \/ l.chaddr \in NoWrite
<1>1. /\ job \in [op : {"write"}, i : 1 .. MaxLeases + 1, curr : Nat, quit : BOOLEAN]
      /\ n \in Slots /\ n \in Nat /\ \A i \in Slots : i \in Nat
  BY TableAssumption DEF write_leases, IInv, TypeOK, Job, Idle, Down, Slots
<1>2. l \in Lease /\ file \in Seq(Record) /\ job.curr \in Nat /\ job.op = "write"
  BY <1>1 DEF IInv, TypeOK, Table
<1>3. /\ file' = IF skipped THEN file ELSE Append(file, r)
      /\ job' = [job EXCEPT !.i = n + 1]
      /\ leases' = leases
  BY DEF write_leases
<1>4. job'.op = "write" /\ job'.i = n + 1 /\ job'.curr = job.curr
  BY <1>1, <1>3
<1>5. SameLease(r, l) /\ l.expires <= job.curr + r.left
  <2>1. l.expires \in Nat
    BY <1>2 DEF Lease
  <2>2. /\ r.chaddr = l.chaddr /\ r.yiaddr = l.yiaddr
        /\ r.left = IF ~Remaining THEN l.expires
                    ELSE IF l.expires < job.curr THEN 0 ELSE l.expires - job.curr
    BY DEF saved
  <2> HIDE DEF l, r
  <2> QED BY <1>2, <2>1, <2>2 DEF SameLease
<1>6. l.chaddr \notin NoWrite \cup {Blank} => ~skipped
  <2>1. l.chaddr # Blank => l.yiaddr # 0
    BY <1>1 DEF IInv, Sound, clients_have_address
  <2> QED BY <2>1
<1>7. /\ Len(file) \in Nat
      /\ skipped => Len(file') = Len(file) /\ \A k \in 1 .. Len(file) : file'[k] = file[k]
      /\ ~skipped => /\ Len(file') = Len(file) + 1
                     /\ file'[Len(file) + 1] = r
                     /\ \A k \in 1 .. Len(file) : file'[k] = file[k]
  <2> HIDE DEF skipped, r
  <2> QED BY <1>2, <1>3
<1> HIDE DEF r, skipped, n
<1>8. ASSUME NEW i \in Slots, i < n + 1, leases[i].chaddr \notin NoWrite \cup {Blank}
      PROVE  \E k \in 1 .. Len(file') : /\ SameLease(file'[k], leases[i])
                                        /\ leases[i].expires <= job.curr + file'[k].left
  <2>1. CASE i = n
    <3>1. ~skipped
      BY <1>6, <1>8, <2>1
    <3>2. Len(file) + 1 \in 1 .. Len(file')
      BY <1>7, <3>1
    <3> QED BY <1>5, <1>7, <2>1, <3>1, <3>2
  <2>2. CASE i # n
    <3>1. i < n
      BY <1>1, <1>8, <2>2
    <3>2. PICK k \in 1 .. Len(file) : /\ SameLease(file[k], leases[i])
                                      /\ leases[i].expires <= job.curr + file[k].left
      BY <1>2, <1>8, <3>1 DEF FileInv, WriteProgress, n
    <3>3. k \in 1 .. Len(file') /\ file'[k] = file[k]
      BY <1>7
    <3> QED BY <3>2, <3>3
  <2> QED BY <2>1, <2>2
<1>9. ASSUME NEW k \in 1 .. Len(file)
      PROVE  \E i \in Slots : i < n /\ SameLease(file[k], leases[i])
  BY <1>2 DEF FileInv, WriteProgress, n
<1>10. ASSUME NEW k \in 1 .. Len(file')
       PROVE  \E i \in Slots : i < n + 1 /\ SameLease(file'[k], leases[i])
  <2>1. CASE k \in 1 .. Len(file)
    <3>1. PICK i \in Slots : i < n /\ SameLease(file[k], leases[i])
      BY <1>9, <2>1
    <3>2. i < n + 1 /\ file'[k] = file[k]
      BY <1>1, <1>7, <2>1, <3>1
    <3> QED BY <3>1, <3>2
  <2>2. CASE k \notin 1 .. Len(file)
    <3>1. ~skipped /\ k = Len(file) + 1
      BY <1>7, <2>2
    <3>2. n < n + 1 /\ file'[k] = r
      BY <1>1, <1>7, <3>1
    <3> QED BY <1>1, <1>5, <3>2
  <2> QED BY <2>1, <2>2
<1>11. WriteProgress'
  BY <1>3, <1>4, <1>8, <1>10 DEF WriteProgress
<1>12. ASSUME OneSubnet PROVE FileDistinct'
  <2>1. FileDistinct /\ one_per_client(leases) /\ one_per_address(leases)
    BY <1>12 DEF FileInv, IInv, Sound
  <2>2. ASSUME ~skipped, NEW k \in 1 .. Len(file)
        PROVE  file[k].chaddr # r.chaddr /\ file[k].yiaddr # r.yiaddr
    <3>1. PICK i \in Slots : i < n /\ SameLease(file[k], leases[i])
      BY <1>9
    <3>2. i # n
      BY <1>1, <3>1
    <3>3. leases[i].chaddr # l.chaddr /\ leases[i].yiaddr # l.yiaddr
      BY <1>1, <2>1, <2>2, <3>2 DEF one_per_client, one_per_address, skipped
    <3> QED BY <1>5, <3>1, <3>3 DEF SameLease
  <2>3. CASE skipped
    BY <1>7, <2>1, <2>3 DEF FileDistinct
  <2>4. CASE ~skipped
    <3> SUFFICES ASSUME NEW j \in 1 .. Len(file'), NEW k \in 1 .. Len(file'),
                        file'[j].chaddr = file'[k].chaddr \/ file'[j].yiaddr = file'[k].yiaddr
                 PROVE  j = k
      BY DEF FileDistinct
    <3>1. /\ j \in 1 .. Len(file) \/ j = Len(file) + 1
          /\ k \in 1 .. Len(file) \/ k = Len(file) + 1
      BY <1>7, <2>4
    <3> QED BY <1>7, <2>1, <2>2, <2>4, <3>1 DEF FileDistinct
  <2> QED BY <2>3, <2>4
<1>13. LoadProgress'
  BY <1>4 DEF LoadProgress
<1> QED BY <1>11, <1>12, <1>13 DEF FileInv

\* The table is zeroed when reading begins.
LEMMA StartLoadFile ==
    ASSUME IInv, FileInv, NEW b \in BOOLEAN, StartLoad(b)
    PROVE  FileInv'
<1>1. job' = Load(1, b) /\ leases' = ZeroTable /\ file' = file
  BY DEF StartLoad
<1>2. job'.op = "load" /\ job'.i = 1
  BY <1>1 DEF Load
<1>3. \A i \in Slots : ~(i < 1) /\ leases'[i] = ZeroLease
  BY <1>1, TableAssumption DEF Slots, ZeroTable
<1>4. 1 <= Len(file') + 1 /\ 1 <= MaxLeases + 1
  BY <1>1, TableAssumption DEF IInv, TypeOK
<1>5. LoadProgress'
  BY <1>2, <1>3, <1>4 DEF LoadProgress
<1>6. WriteProgress' /\ (OneSubnet => FileDistinct')
  BY <1>1, <1>2 DEF FileInv, WriteProgress, FileDistinct
<1> QED BY <1>5, <1>6 DEF FileInv

\* A record of read_leases goes into the next slot: no entry is of its client or
\* its address, those before it have been used, if they have expired or not, and
\* the slot itself never was.
LEMMA ReadLeasesFile ==
    ASSUME IInv, GrantInv, FileInv, OneSubnet, read_leases
    PROVE  LoadProgress'
<1> DEFINE n == job.i
           r == file[n]
           c == r.chaddr
           y == r.yiaddr
           d == IF Remaining THEN r.left ELSE r.left - now
           s == add_lease_slot(leases, c, y, now)
           e == [chaddr |-> c, yiaddr |-> y, expires |-> now + d,
                 hostname |-> clear_lease(leases, c, y)[s].hostname]
           t == add_lease(leases, c, y, d, now)
<1>1. /\ job \in [op : {"load"}, i : Nat \ {0}, reconf : BOOLEAN]
      /\ n \in Slots /\ n \in 1 .. Len(file) /\ \A i \in Slots : i \in Nat
  BY TableAssumption DEF read_leases, IInv, TypeOK, Job, Idle, Down, Slots
<1>2. /\ file \in Seq(Record) /\ leases \in [Slots -> Lease] /\ leases \in Table
      /\ now \in Nat \ {0} /\ Len(file) \in Nat
  BY DEF IInv, TypeOK, Table
<1>3. /\ c \in Client /\ c # Blank /\ y \in Addr /\ y # 0 /\ r.left \in Nat
      /\ r.hostname \in HostName \cup {NoName}
  <2>1. r \in Record
    BY <1>1, <1>2
  <2> QED BY <2>1, TableAssumption DEF Record
<1>4. /\ FileDistinct
      /\ \A k \in Slots :
            IF k < n
            THEN /\ SameLease(file[k], leases[k])
                 /\ leases[k].hostname = file[k].hostname
                 /\ leases[k].expires <= now + file[k].left
            ELSE leases[k] = ZeroLease
  BY <1>1 DEF FileInv, LoadProgress
<1>5. ZeroLease.chaddr = Blank /\ ZeroLease.yiaddr = 0 /\ ZeroLease.expires = 0
  BY DEF ZeroLease
<1>6. ASSUME NEW i \in Slots
      PROVE  leases[i].chaddr # c /\ leases[i].yiaddr # y
  <2>1. CASE i < n
    <3>1. i \in 1 .. Len(file) /\ i # n
      BY <1>1, <1>2, <2>1, TableAssumption DEF Slots
    <3>2. file[i].chaddr # file[n].chaddr /\ file[i].yiaddr # file[n].yiaddr
      BY <1>1, <1>4, <3>1 DEF FileDistinct
    <3> QED BY <1>4, <2>1, <3>2 DEF SameLease
  <2>2. CASE ~(i < n)
    <3>1. leases[i].chaddr = Blank /\ leases[i].yiaddr = 0
      BY <1>4, <1>5, <2>2
    <3> HIDE DEF c, y
    <3> QED BY <1>3, <3>1
  <2> QED BY <2>1, <2>2
<1>7. clear_lease(leases, c, y) = leases
  <2> HIDE DEF c, y
  <2> QED BY <1>2, <1>6 DEF clear_lease
<1>8. ASSUME NEW i \in Slots, i < n PROVE leases[i].expires >= 1
  <2>1. i \in 1 .. Len(file)
    BY <1>1, <1>2, <1>8, TableAssumption DEF Slots
  <2>2. file[i].chaddr \in Client
    <3>1. file[i] \in Record
      BY <1>2, <2>1
    <3> QED BY <3>1 DEF Record
  <2>3. leases[i].chaddr # Blank
    BY <1>4, <1>8, <2>2, TableAssumption DEF SameLease
  <2> QED BY <2>3 DEF GrantInv, Fit, FitEntry
<1>9. s = n
  <2>1. leases[n].expires = 0
    <3>1. ~(n < n)
      BY <1>1
    <3> QED BY <1>1, <1>4, <1>5, <3>1
  <2>2. oldest_expired_lease(leases, now) = n
    BY <1>1, <1>2, <1>8, <2>1, OldestUnused
  <2> HIDE DEF c, y
  <2> QED BY <1>3, <1>7, <2>2 DEF add_lease_slot
<1>10. n # NULL
  BY <1>1, TableAssumption DEF NULL, Slots
<1>11. t = [leases EXCEPT ![n] = e]
  <2> HIDE DEF c, y, d, n
  <2>1. t = IF y = 0 THEN leases ELSE IF s = NULL THEN clear_lease(leases, c, y)
            ELSE [clear_lease(leases, c, y) EXCEPT ![s] = e]
    BY DEF add_lease
  <2> HIDE DEF t, e, s
  <2> QED BY <1>3, <1>7, <1>9, <1>10, <2>1
<1>12. leases' = set_hostname(t, n, r.hostname) /\ job' = [job EXCEPT !.i = n + 1]
       /\ now' = now /\ file' = file
  <2>1. /\ IF s = NULL THEN leases' = t /\ job' = [job EXCEPT !.i = Len(file) + 1]
           ELSE /\ leases' = set_hostname(t, s, r.hostname)
                /\ job' = [job EXCEPT !.i = n + 1]
        /\ now' = now /\ file' = file
    BY DEF read_leases, Rest
  <2> HIDE DEF s, t, r, n
  <2> QED BY <1>9, <1>10, <2>1
<1>13. /\ e.chaddr = c /\ e.yiaddr = y /\ e.expires = now + d
       /\ e = [chaddr |-> c, yiaddr |-> y, expires |-> now + d, hostname |-> e.hostname]
  OBVIOUS
<1>14. now + d <= now + r.left
  <2> HIDE DEF r
  <2> QED BY <1>2, <1>3
<1> HIDE DEF t, e, d
<1>15. \A i \in Slots : /\ i # n => leases'[i] = leases[i]
                        /\ i = n => leases'[i] = [e EXCEPT !.hostname = r.hostname]
  <2> HIDE DEF n, r
  <2>1. t \in [Slots -> Lease \cup {e}]
    BY <1>1, <1>2, <1>11 DEF n
  <2> QED BY <1>2, <1>11, <1>12, <2>1 DEF set_hostname
<1>16. /\ leases'[n].chaddr = c /\ leases'[n].yiaddr = y
       /\ leases'[n].hostname = r.hostname /\ leases'[n].expires = now + d
  <2> HIDE DEF r, c, y, n
  <2>1. leases'[n] = [e EXCEPT !.hostname = r.hostname]
    BY <1>1, <1>15 DEF n
  <2> QED BY <1>13, <2>1
<1>17. job'.i = n + 1 /\ job'.op = "load"
  BY <1>1, <1>12
<1>18. n + 1 <= Len(file) + 1 /\ n + 1 <= MaxLeases + 1
  BY <1>1, <1>2, TableAssumption DEF Slots
<1>19. ASSUME NEW k \in Slots
       PROVE  IF k < n + 1
              THEN /\ SameLease(file[k], leases'[k])
                   /\ leases'[k].hostname = file[k].hostname
                   /\ leases'[k].expires <= now + file[k].left
              ELSE leases'[k] = ZeroLease
  <2> HIDE DEF n
  <2>1. CASE k = n
    <3>1. k < n + 1 /\ file[k] = r
      BY <1>1, <2>1 DEF n
    <3> HIDE DEF r
    <3> QED BY <1>14, <1>16, <2>1, <3>1 DEF SameLease, c, y
  <2>2. CASE k # n
    <3>1. k < n + 1 <=> k < n
      BY <1>1, <2>2 DEF n
    <3> QED BY <1>4, <1>15, <2>2, <3>1
  <2> QED BY <2>1, <2>2
<1> QED BY <1>12, <1>17, <1>18, <1>19 DEF LoadProgress

\* Every step keeps the account of the lease file.
LEMMA NextFile == Inv /\ GrantInv /\ FileInv /\ [Next]_vars => FileInv'
<1> SUFFICES ASSUME Inv, GrantInv, FileInv, [Next]_vars PROVE FileInv'
  OBVIOUS
<1>0. IInv /\ TypeOK
  BY DEF Inv, IInv
<1>1. CASE sendOffer
  <2>1. job' = Idle \/ job' = Offer(job.pkt, 2) \/ job' = Find(job.pkt, job.try, FALSE, conf.start)
    BY <1>1 DEF sendOffer, make_offer, offer_failed
  <2>2. job'.op \notin {"write", "load"}
    BY <2>1 DEF Idle, Offer, Find
  <2> QED BY <1>1, <2>2, NoFileStep DEF sendOffer, Rest
<1>2. CASE find_address \/ check_ip
  <2> DEFINE next == [job EXCEPT !.addr = job.addr + 1]
             probe == [job EXCEPT !.probe = TRUE]
             taken == [job EXCEPT !.addr = job.addr + 1, !.probe = FALSE]
  <2>1. \/ job' = Find(job.pkt, job.try, TRUE, conf.start)
        \/ job' = Offer(job.pkt, 2) \/ job' = Idle
        \/ job' = next \/ job' = probe \/ job' = taken
    <3>1. CASE find_address
      BY <3>1 DEF find_address, offer_failed
    <3>2. CASE check_ip
      BY <3>2 DEF check_ip, make_offer, offer_failed
    <3> QED BY <1>2, <3>1, <3>2
  <2>2. job \in [op : {"find"}, pkt : Packets, try : 1 .. 2, check_expired : BOOLEAN,
                  addr : Nat, probe : BOOLEAN]
    <3>1. job.op = "find"
      BY <1>2 DEF find_address, check_ip
    <3> QED BY <1>0, <3>1 DEF TypeOK, Job, Idle, Down
  <2>3. next.op = "find" /\ probe.op = "find" /\ taken.op = "find"
    BY <2>2
  <2> HIDE DEF next, probe, taken
  <2>4. job'.op \notin {"write", "load"}
    BY <2>1, <2>3 DEF Find, Offer, Idle
  <2>5. file' = file
    BY <1>2 DEF find_address, check_ip, Rest
  <2> QED BY <2>4, <2>5, NoFileStep
<1>3. CASE write_leases
  BY <1>0, <1>3, WriteLeasesFile
<1>4. CASE read_leases
  <2>1. job \in [op : {"load"}, i : Nat \ {0}, reconf : BOOLEAN]
    BY <1>0, <1>4 DEF read_leases, TypeOK, Job, Idle, Down
  <2>2. file' = file /\ \E i : job' = [job EXCEPT !.i = i]
    BY <1>4 DEF read_leases, Rest
  <2>3. job'.op = "load"
    BY <2>1, <2>2
  <2>4. WriteProgress' /\ (OneSubnet => FileDistinct')
    BY <2>2, <2>3 DEF FileInv, WriteProgress, FileDistinct
  <2> QED BY <1>0, <1>4, <2>4, ReadLeasesFile DEF FileInv
<1>5. CASE WriteDone \/ LoadDone \/ Kill \/ PowerCycle
  <2>1. job' = Idle \/ job' = Down
    BY <1>5 DEF WriteDone, LoadDone, Kill, PowerCycle
  <2>2. job'.op \notin {"write", "load"}
    BY <2>1 DEF Idle, Down
  <2>3. file' \in {file, <<>>}
    BY <1>5 DEF WriteDone, LoadDone, Kill, PowerCycle
  <2> QED BY <2>2, <2>3, NoFileStep
<1>6. CASE \E p \in Packets : PacketMsg(p)
  <2>1. PICK p \in Packets : PacketMsg(p)
    BY <1>6
  <2>2. file' = file /\ (job' = Idle \/ job' = Offer(p, 1))
    BY <2>1 DEF PacketMsg, DiscoverMsg, RequestKnown, RequestUnknown, DeclineMsg, ReleaseMsg,
                InformMsg, Ready, Selected
  <2>3. job'.op \notin {"write", "load"}
    BY <2>2 DEF Idle, Offer
  <2> QED BY <2>2, <2>3, NoFileStep
<1>7. CASE AutoSave \/ SigUsr1 \/ SigTerm
  BY <1>0, <1>7, StartWriteFile DEF AutoSave, SigUsr1, SigTerm
<1>8. CASE Start \/ SigUsr2
  BY <1>0, <1>8, StartLoadFile DEF Start, SigUsr2
<1>9. CASE Tick \/ SetLan \/ UNCHANGED vars
  <2>1. leases' = leases /\ job' = job /\ file' = file /\ now' \in {now, now + 1}
    BY <1>9 DEF Tick, SetLan, vars
  <2>2. /\ now \in Nat /\ file \in Seq(Record) /\ \A i \in Slots : leases[i].expires \in Nat
        /\ job.op = "load" => job.i \in Nat \ {0}
    BY <1>0 DEF TypeOK, Table, Lease, Job, Idle, Down
  <2>3. ASSUME OneSubnet, job.op = "load", NEW k \in Slots, k < job.i
        PROVE  leases[k].expires <= now' + file[k].left
    <3>1. k \in 1 .. Len(file)
      BY <2>2, <2>3, TableAssumption DEF FileInv, LoadProgress, Slots
    <3>2. file[k].left \in Nat
      <4>1. file[k] \in Record
        BY <2>2, <3>1
      <4> QED BY <4>1 DEF Record
    <3>3. leases[k].expires <= now + file[k].left
      BY <2>3 DEF FileInv, LoadProgress
    <3> QED BY <2>1, <2>2, <3>2, <3>3
  <2>4. OneSubnet => LoadProgress'
    BY <2>1, <2>3 DEF FileInv, LoadProgress
  <2> QED BY <2>1, <2>4 DEF FileInv, WriteProgress, FileDistinct
<1> QED BY <1>1, <1>2, <1>3, <1>4, <1>5, <1>6, <1>7, <1>8, <1>9 DEF Next, ServerStep

\* The account of the lease file is right in every state.
LEMMA FileAlways == Spec => []FileInv
<1>1. Init => FileInv
  <2> SUFFICES ASSUME Init PROVE FileInv
    OBVIOUS
  <2>1. job.op = "down" /\ 1 .. Len(file) = {}
    BY DEF Init, Down
  <2> QED BY <2>1 DEF FileInv, WriteProgress, LoadProgress, FileDistinct
<1> QED BY <1>1, NextFile, InvAlways, GrantAlways, PTL DEF Spec

\* When write_leases is done the file holds every client's entry, with at least
\* the time it has left, for every table and however long the writing took.
THEOREM SavesAreComplete == Spec => []SaveComplete
<1>1. Inv /\ GrantInv /\ FileInv => SaveComplete
  <2> SUFFICES ASSUME Inv, GrantInv, FileInv, job.op = "write", job.i > MaxLeases,
                      NEW i \in Slots, leases[i].chaddr \notin NoWrite \cup {Blank}
               PROVE  \E k \in 1 .. Len(file) :
                          /\ file[k].chaddr = leases[i].chaddr
                          /\ file[k].yiaddr = leases[i].yiaddr
                          /\ leases[i].expires <= now + file[k].left
    BY DEF SaveComplete
  <2>1. TypeOK
    BY DEF Inv, IInv
  <2>2. /\ job.i \in 1 .. MaxLeases + 1 /\ job.curr \in Nat /\ now \in Nat
        /\ file \in Seq(Record) /\ leases[i].expires \in Nat
    BY <2>1 DEF TypeOK, Job, Idle, Down, Table, Lease
  <2>3. i < job.i
    BY <2>2, TableAssumption DEF Slots
  <2>4. PICK k \in 1 .. Len(file) : /\ SameLease(file[k], leases[i])
                                    /\ leases[i].expires <= job.curr + file[k].left
    BY <2>3 DEF FileInv, WriteProgress
  <2>5. file[k].left \in Nat
    <3>1. file[k] \in Record
      BY <2>2
    <3> QED BY <3>1 DEF Record
  <2>6. job.curr <= now
    BY DEF GrantInv, WriteTimes
  <2>7. leases[i].expires <= now + file[k].left
    BY <2>2, <2>4, <2>5, <2>6
  <2> QED BY <2>4, <2>7 DEF SameLease
<1> QED BY <1>1, InvAlways, GrantAlways, FileAlways, PTL

\* Every record read back is in the table with its host name and no more than
\* the time that was saved: neither a later record nor the passing of time
\* pushes it out, also when it was saved as expired, and the table never turns
\* out too small.  The LAN stays in one subnet, so that no two records are for
\* one address.
THEOREM ReloadsAreComplete ==
    ASSUME OneSubnet
    PROVE  Spec => []ReloadComplete
<1>1. Inv /\ FileInv => ReloadComplete
  <2> SUFFICES ASSUME Inv, FileInv, job.op = "load", NEW k \in 1 .. job.i - 1
               PROVE  \E i \in Slots : /\ leases[i].chaddr = file[k].chaddr
                                       /\ leases[i].yiaddr = file[k].yiaddr
                                       /\ leases[i].hostname = file[k].hostname
                                       /\ leases[i].expires <= now + file[k].left
    BY DEF ReloadComplete
  <2>1. job.i \in Nat
    BY DEF Inv, IInv, TypeOK, Job, Idle, Down
  <2>2. LoadProgress
    BY DEF FileInv
  <2>3. k \in Slots /\ k < job.i
    BY <2>1, <2>2, TableAssumption DEF LoadProgress, Slots
  <2> QED BY <2>2, <2>3 DEF LoadProgress, SameLease
<1> QED BY <1>1, InvAlways, FileAlways, PTL
=============================================================================
