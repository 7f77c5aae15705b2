-------------------------- MODULE DhcpServerProofs --------------------------
(***************************************************************************)
(* Proofs about the DHCP server, for every size of the table, every pool,  *)
(* every set of packets and every lease time.                              *)
(*                                                                         *)
(* The inductive invariant is TypeOK with Sound(leases) and ScanInPool:    *)
(* beside the types, one entry per client, an address in every client's    *)
(* entry and, when the LAN stays in one subnet, one entry per address; the *)
(* address find_address looks at is one of the pool.                       *)
(***************************************************************************)
EXTENDS DhcpServer, LeaseTableProofs

\* No two addresses differ in the network part only: moving the table to
\* another LAN address (update_lease_by_new_ip) merges no two of them.
OneSubnet ==
    \A l \in LanAddrs : \A a, b \in Addr : rehome(a, l) = rehome(b, l) => a = b

\* What every operation on the table preserves.
Sound(t) ==
    /\ t \in Table
    /\ one_per_client(t)
    /\ clients_have_address(t)
    /\ OneSubnet => one_per_address(t)

\* The scan of find_address is inside the pool.
ScanInPool ==
    job.op = "find" => conf.start <= job.addr /\ (job.probe => job.addr <= conf.end)

IInv == TypeOK /\ Sound(leases) /\ ScanInPool

-----------------------------------------------------------------------------
(* The operations on the table.                                            *)

\* The table at start is sound.
LEMMA SoundZero == Sound(ZeroTable)
<1>1. ZeroLease \in Lease /\ ZeroLease.chaddr = Blank /\ ZeroLease.yiaddr = 0
  BY DEF ZeroLease, Lease
<1>2. ZeroTable \in Table
  BY <1>1 DEF ZeroTable, Table
<1>3. \A i \in Slots : ZeroTable[i].chaddr = Blank /\ ZeroTable[i].yiaddr = 0
  BY <1>1 DEF ZeroTable
<1> QED BY <1>2, <1>3 DEF Sound, one_per_client, one_per_address, clients_have_address

\* add_lease keeps the table sound.
LEMMA SoundAdd ==
    ASSUME NEW t, Sound(t), NEW c \in Client \cup {Blank}, NEW y \in Addr \cup {0},
           NEW n \in Nat \ {0}, NEW d \in Int, n + d \in Nat
    PROVE  Sound(add_lease(t, c, y, d, n))
<1>1. t \in Table
  BY DEF Sound
<1> QED BY <1>1, AddLeaseKeeps DEF Sound

\* Writing a host name into any slot keeps the table sound.
LEMMA SoundName ==
    ASSUME NEW t, Sound(t), NEW s \in Slots, NEW h \in HostName \cup {NoName}
    PROVE  /\ Sound(set_hostname(t, s, h))
           /\ \A i \in Slots : /\ set_hostname(t, s, h)[i].chaddr = t[i].chaddr
                               /\ set_hostname(t, s, h)[i].yiaddr = t[i].yiaddr
                               /\ set_hostname(t, s, h)[i].expires = t[i].expires
<1> DEFINE u == set_hostname(t, s, h)
<1>1. t \in Table
  BY DEF Sound
<1>2. ASSUME NEW i \in Slots
      PROVE  /\ u[i] \in Lease
             /\ u[i].chaddr = t[i].chaddr
             /\ u[i].yiaddr = t[i].yiaddr
             /\ u[i].expires = t[i].expires
  <2>1. t[i] \in Lease /\ t[s] \in Lease
    BY <1>1 DEF Table
  <2>2. u[i] = IF i = s THEN [t[s] EXCEPT !.hostname = h] ELSE t[i]
    BY <1>1 DEF set_hostname, Table
  <2> QED BY <2>1, <2>2 DEF Lease
<1>3. u \in Table
  BY <1>1, <1>2 DEF set_hostname, Table
<1> HIDE DEF u
<1>4. Sound(u)
  BY <1>2, <1>3 DEF Sound, one_per_client, one_per_address, clients_have_address
<1> QED BY <1>2, <1>4 DEF u

\* Moving the table to another LAN address keeps it sound.
LEMMA SoundUpdate ==
    ASSUME NEW t, Sound(t), NEW l \in LanAddrs
    PROVE  Sound(update_lease_by_new_ip(t, l))
<1> DEFINE r == update_lease_by_new_ip(t, l)
<1>1. t \in Table /\ \A a \in Addr : rehome(a, l) \in Addr
  BY ServerAssumption DEF Sound
<1>2. /\ r \in Table
      /\ one_per_client(t) => one_per_client(r)
      /\ clients_have_address(t) => clients_have_address(r)
      /\ (\A a, b \in Addr : rehome(a, l) = rehome(b, l) => a = b) =>
            (one_per_address(t) => one_per_address(r))
  BY <1>1, UpdateLease
<1> HIDE DEF r
<1>3. Sound(r)
  BY <1>2 DEF Sound, OneSubnet
<1> QED BY <1>3 DEF r

\* The times of the configuration are naturals.
LEMMA Times ==
    /\ LeaseTime \in Nat /\ MinLease \in Nat /\ OfferTime \in Nat
    /\ ConflictTime \in Nat /\ DeclineTime \in Nat /\ AutoTime \in Nat
  BY ServerAssumption

\* Reserving an address keeps the table sound.
LEMMA SoundReserve ==
    ASSUME TypeOK, NEW t, Sound(t), NEW a \in Addr \cup {0}
    PROVE  /\ Sound(reserve_lan(t, a))
           /\ Sound(add_lease(t, Blank, a, ConflictTime, now))
<1>1. now \in Nat \ {0} /\ ConflictTime \in Int /\ now + ConflictTime \in Nat
  BY Times DEF TypeOK
<1> QED BY <1>1, SoundAdd DEF reserve_lan

\* find_lease_by_chaddr keeps the table sound; the slot it returns is the
\* client's and its address is not the router's.
LEMMA SoundFind ==
    ASSUME TypeOK, NEW t, Sound(t), NEW c \in Client
    PROVE  /\ Sound(table_after_find(t, c))
           /\ lease_of(t, c) # NULL =>
                /\ table_after_find(t, c) = t
                /\ lease_of(t, c) \in Slots
                /\ t[lease_of(t, c)] \in Lease
                /\ t[lease_of(t, c)].chaddr = c
                /\ t[lease_of(t, c)].yiaddr \in Addr
                /\ t[lease_of(t, c)].yiaddr # lan
<1> DEFINE s == slot_of_chaddr(t, c)
<1>1. t \in Table /\ clients_have_address(t)
  BY DEF Sound
<1>2. s # NULL => s \in Slots /\ t[s].chaddr = c
  BY <1>1, FindLease
<1>3. c # Blank
  BY TableAssumption
<1>4. s # NULL => t[s] \in Lease /\ t[s].yiaddr \in Addr
  BY <1>1, <1>2, <1>3 DEF Table, Lease, clients_have_address
<1>5. s # NULL => Sound(reserve_lan(t, t[s].yiaddr))
  BY <1>4, SoundReserve
<1>6. /\ lease_of(t, c) = IF s # NULL /\ t[s].yiaddr = lan THEN NULL ELSE s
      /\ table_after_find(t, c) =
            IF s # NULL /\ t[s].yiaddr = lan THEN reserve_lan(t, t[s].yiaddr) ELSE t
  BY DEF lease_of, table_after_find, IsLanIPAddr
<1> HIDE DEF s
<1> QED BY <1>2, <1>4, <1>5, <1>6

-----------------------------------------------------------------------------
(* The packets.                                                            *)

\* A reply built from a packet is a reply.
LEMMA ReplyType ==
    ASSUME TypeOK, NEW p \in Packets, NEW y \in Addr \cup {0}, NEW time \in Nat,
           NEW type \in {"OFFER", "ACK", "NAK", "INFO"}
    PROVE  reply(p, type, y, time) \in Reply
<1>1. p \in Packet /\ conf.server \in Addr
  BY ServerAssumption DEF TypeOK
<1> QED BY <1>1 DEF reply, Reply, Packet

\* What a packet holds.
LEMMA PacketType ==
    ASSUME NEW p \in Packets
    PROVE  /\ p.chaddr \in Client
           /\ p.req \in Addr \cup {0}
           /\ p.ciaddr \in Addr \cup {0}
           /\ p.ltime \in Nat
           /\ p.host \in HostName \cup {NoName}
  BY ServerAssumption DEF Packet

\* The lease times put into replies are naturals.
LEMMA LeaseTimes ==
    ASSUME NEW left \in Nat, NEW asked \in Nat
    PROVE  offer_lease_time(left, asked) \in Nat /\ ack_lease_time(asked) \in Nat
  BY Times DEF offer_lease_time, ack_lease_time

\* The tail of sendOffer.
LEMMA MakeOffer ==
    ASSUME IInv, NEW p \in Packets, NEW try \in 1 .. 2, NEW t, Sound(t),
           NEW y \in Addr, NEW left \in Nat, make_offer(p, try, t, y, left)
    PROVE  /\ Sound(leases') /\ job' \in Job /\ out' \subseteq Reply
           /\ job'.op # "find"
           /\ \A m \in out' : m.type # "ACK"
<1> DEFINE u == add_lease(t, p.chaddr, y, OfferTime, now)
           m == reply(p, "OFFER", y, offer_lease_time(left, p.ltime))
<1>1. now \in Nat \ {0} /\ OfferTime \in Int /\ now + OfferTime \in Nat
  BY Times DEF IInv, TypeOK
<1>2. Sound(u)
  BY <1>1, PacketType, SoundAdd
<1>3. m \in Reply
  <2>1. offer_lease_time(left, p.ltime) \in Nat
    BY PacketType, LeaseTimes
  <2> QED BY <2>1, ReplyType DEF IInv
<1>4. m.type = "OFFER"
  BY DEF reply
<1>5. /\ leases' = u
      /\ out' = {m} \/ out' = {}
      /\ job' = Idle \/ job' = Offer(p, 2)
  BY DEF make_offer, offer_failed
<1>6. /\ Idle \in Job /\ Offer(p, 2) \in Job
      /\ Idle.op # "find" /\ Offer(p, 2).op # "find"
  BY DEF Job, Offer, Idle
<1> HIDE DEF u, m
<1> QED BY <1>2, <1>3, <1>4, <1>5, <1>6

\* sendACK, for a client that has an entry in the table it is called with: the
\* new entry finds a slot.
LEMMA SendACK ==
    ASSUME IInv, NEW p \in Packets, NEW t, Sound(t), NEW y \in Addr,
           NEW s \in Slots, t[s].chaddr = p.chaddr, sendACK(p, t, y, s)
    PROVE  /\ Sound(leases') /\ out' \subseteq Reply
           /\ \A m \in out' : /\ m.yiaddr = y
                              /\ \E i \in Slots : /\ leases'[i].chaddr = m.chaddr
                                                  /\ leases'[i].yiaddr = m.yiaddr
                                                  /\ leases'[i].expires = now + m.lease
<1> DEFINE time == ack_lease_time(p.ltime)
           u == add_lease(t, p.chaddr, y, time, now)
           k == add_lease_slot(t, p.chaddr, y, now)
           m == reply(p, "ACK", y, time)
<1>1. /\ now \in Nat \ {0} /\ time \in Int /\ time \in Nat /\ now + time \in Nat
      /\ t \in Table /\ p.chaddr \in Client /\ p.chaddr # Blank /\ y # 0
  <2>1. time \in Nat
    BY PacketType, LeaseTimes
  <2>2. now \in Nat \ {0}
    BY DEF IInv, TypeOK
  <2>3. t \in Table /\ p.chaddr \in Client /\ p.chaddr # Blank /\ y # 0
    BY PacketType, TableAssumption DEF Sound
  <2> HIDE DEF time
  <2> QED BY <2>1, <2>2, <2>3
<1>2. Sound(u) /\ Sound(set_hostname(u, s, p.host)) /\ Sound(set_hostname(t, s, p.host))
  <2>1. Sound(u)
    BY <1>1, SoundAdd
  <2> HIDE DEF u
  <2> QED BY <2>1, PacketType, SoundName
<1>3. m \in Reply
  BY <1>1, ReplyType DEF IInv
<1>4. m.chaddr = p.chaddr /\ m.yiaddr = y /\ m.lease = time
  BY DEF reply
<1>5. k # NULL
  BY <1>1, AddLeaseSlot
<1>6. k \in Slots /\ u[k].chaddr = p.chaddr /\ u[k].yiaddr = y /\ u[k].expires = now + time
  <2> HIDE DEF time
  <2> QED BY <1>1, <1>5, AddLease
<1>7. \/ leases' = set_hostname(u, s, p.host) /\ out' = {m}
      \/ leases' = set_hostname(t, s, p.host) /\ out' = {}
  BY DEF sendACK
<1> HIDE DEF u, m, time, k
<1>8. CASE leases' = set_hostname(u, s, p.host) /\ out' = {m}
  <2>1. /\ leases'[k].chaddr = u[k].chaddr
        /\ leases'[k].yiaddr = u[k].yiaddr
        /\ leases'[k].expires = u[k].expires
    BY <1>2, <1>6, <1>8, PacketType, SoundName
  <2> QED BY <1>2, <1>3, <1>4, <1>6, <1>8, <2>1
<1> QED BY <1>2, <1>7, <1>8

-----------------------------------------------------------------------------
(* The steps.                                                              *)

Inv == IInv /\ AckRecorded /\ LanNeverAcked

\* A handler leaves the clock, the configuration and the file alone.
LEMMA RestStep ==
    ASSUME IInv, UNCHANGED <<now, conf, lan, file, timeout_end>>, blocked' \in BOOLEAN,
           Sound(leases'), job' \in Job, out' \subseteq Reply,
           job'.op = "find" => conf.start <= job'.addr /\ (job'.probe => job'.addr <= conf.end)
    PROVE  IInv'
  BY DEF IInv, TypeOK, Sound, ScanInPool

\* A step that sends no ACK has nothing to record.
LEMMA NoAck ==
    ASSUME \A m \in out' : m.type # "ACK"
    PROVE  AckRecorded' /\ LanNeverAcked'
  BY DEF AckRecorded, LanNeverAcked

\* The jobs of the DISCOVER handler.
LEMMA OfferJobs ==
    ASSUME NEW p \in Packets, NEW try \in 1 .. 2, NEW chk \in BOOLEAN, NEW a \in Nat
    PROVE  /\ Idle \in Job
           /\ Down \in Job
           /\ Offer(p, try) \in Job
           /\ Find(p, try, chk, a) \in Job
           /\ Idle.op # "find" /\ Offer(p, try).op # "find"
           /\ Find(p, try, chk, a).addr = a /\ Find(p, try, chk, a).probe = FALSE
  BY DEF Job, Offer, Find, Idle

\* The head of sendOffer.
LEMMA SendOfferStep ==
    ASSUME IInv, sendOffer
    PROVE  Inv'
<1> DEFINE p == job.pkt
           try == job.try
           s == lease_of(leases, p.chaddr)
           t == table_after_find(leases, p.chaddr)
           left == IF lease_expired(t[s], now) THEN LeaseTime ELSE t[s].expires - now
<1>1. p \in Packets /\ try \in 1 .. 2
  BY DEF sendOffer, IInv, TypeOK, Job, Idle, Down
<1>2. p.chaddr \in Client /\ p.req \in Addr \cup {0}
  BY <1>1, PacketType
<1>3. /\ Sound(t)
      /\ s # NULL => t = leases /\ leases[s] \in Lease /\ leases[s].yiaddr \in Addr
  BY <1>2, SoundFind DEF IInv
<1>4. s # NULL => left \in Nat
  <2>1. now \in Nat
    BY DEF IInv, TypeOK
  <2> QED BY <1>3, <2>1, Times DEF Lease, lease_expired
<1>5. conf.start \in Nat
  BY TableAssumption DEF IInv, TypeOK
<1>6. \/ s # NULL /\ make_offer(p, try, t, t[s].yiaddr, left)
      \/ p.req # 0 /\ make_offer(p, try, t, p.req, LeaseTime)
      \/ leases' = t /\ out' = {} /\ job' = Find(p, try, FALSE, conf.start)
  BY DEF sendOffer
<1>7. /\ Sound(leases') /\ job' \in Job /\ out' \subseteq Reply
      /\ \A m \in out' : m.type # "ACK"
      /\ job'.op = "find" => conf.start <= job'.addr /\ (job'.probe => job'.addr <= conf.end)
  <2> HIDE DEF p, try, s, t, left
  <2>1. CASE s # NULL /\ make_offer(p, try, t, t[s].yiaddr, left)
    BY <1>1, <1>3, <1>4, <2>1, MakeOffer
  <2>2. CASE p.req # 0 /\ make_offer(p, try, t, p.req, LeaseTime)
    BY <1>1, <1>2, <1>3, <2>2, MakeOffer, Times
  <2>3. CASE leases' = t /\ out' = {} /\ job' = Find(p, try, FALSE, conf.start)
    <3>1. job' \in Job /\ job'.addr = conf.start /\ ~job'.probe
      BY <1>1, <1>5, <2>3, OfferJobs
    <3>2. Sound(leases')
      BY <1>3, <2>3
    <3>3. conf.start <= job'.addr
      BY <1>5, <3>1
    <3> QED BY <2>3, <3>1, <3>2, <3>3
  <2> QED BY <1>6, <2>1, <2>2, <2>3
<1>8. UNCHANGED <<now, conf, lan, file, timeout_end>> /\ blocked' \in BOOLEAN
  BY DEF sendOffer, Rest, IInv, TypeOK
<1> QED BY <1>7, <1>8, RestStep, NoAck DEF Inv

\* An iteration of find_address, up to the probe.
LEMMA FindAddressStep ==
    ASSUME IInv, find_address
    PROVE  Inv'
<1> DEFINE p == job.pkt
           try == job.try
           a == job.addr
           next == [job EXCEPT !.addr = a + 1]
           probe == [job EXCEPT !.probe = TRUE]
<1>1. /\ p \in Packets /\ try \in 1 .. 2 /\ a \in Nat
      /\ next \in Job /\ next.addr = a + 1 /\ ~next.probe
      /\ probe \in Job /\ probe.addr = a
  <2>1. /\ job \in [op : {"find"}, pkt : Packets, try : 1 .. 2, check_expired : BOOLEAN,
                     addr : Nat, probe : BOOLEAN]
        /\ ~job.probe
    BY DEF find_address, IInv, TypeOK, Job, Idle, Down
  <2>2. /\ next \in [op : {"find"}, pkt : Packets, try : 1 .. 2, check_expired : BOOLEAN,
                      addr : Nat, probe : BOOLEAN]
        /\ next.addr = a + 1 /\ ~next.probe
    BY <2>1
  <2>3. /\ probe \in [op : {"find"}, pkt : Packets, try : 1 .. 2, check_expired : BOOLEAN,
                       addr : Nat, probe : BOOLEAN]
        /\ probe.addr = a
    BY <2>1
  <2>4. p \in Packets /\ try \in 1 .. 2 /\ a \in Nat
    BY <2>1
  <2> HIDE DEF p, try, a, next, probe
  <2>5. next \in Job /\ probe \in Job
    BY <2>2, <2>3 DEF Job
  <2> QED BY <2>2, <2>3, <2>4, <2>5
<1>2. conf.start \in Nat /\ conf.end \in Nat /\ conf.start <= a
  BY TableAssumption DEF IInv, TypeOK, ScanInPool, find_address
<1>3. a <= conf.end => a \in Addr
  BY <1>1, <1>2 DEF IInv, TypeOK
<1>4. /\ out' = {}
      /\ \/ /\ leases' = leases
            /\ \/ job' = Find(p, try, TRUE, conf.start)
               \/ job' = IF try = 1 THEN Offer(p, 2) ELSE Idle
               \/ job' = next
               \/ job' = probe /\ a <= conf.end
         \/ /\ leases' = add_lease(leases, Blank, a, ConflictTime, now)
            /\ job' = next
            /\ a <= conf.end
  BY DEF find_address, offer_failed, reserve_lan
<1>5. Sound(leases)
  BY DEF IInv
<1>6. Sound(leases')
  BY <1>3, <1>4, <1>5, SoundReserve DEF IInv
<1>7. /\ job' \in Job
      /\ job'.op = "find" => conf.start <= job'.addr /\ (job'.probe => job'.addr <= conf.end)
  <2> HIDE DEF p, try, a, next, probe
  <2>1. CASE job' = Find(p, try, TRUE, conf.start)
    <3>1. job' \in Job /\ job'.addr = conf.start /\ ~job'.probe
      BY <1>1, <1>2, <2>1, OfferJobs
    <3> QED BY <1>2, <3>1
  <2>2. CASE job' = IF try = 1 THEN Offer(p, 2) ELSE Idle
    <3>1. /\ Idle \in Job /\ Offer(p, 2) \in Job
          /\ Idle.op # "find" /\ Offer(p, 2).op # "find"
      BY <1>1 DEF Job, Offer, Idle
    <3> QED BY <2>2, <3>1
  <2>3. CASE job' = next
    BY <1>1, <1>2, <2>3
  <2>4. CASE job' = probe /\ a <= conf.end
    BY <1>1, <1>2, <2>4
  <2> QED BY <1>4, <2>1, <2>2, <2>3, <2>4
<1>8. UNCHANGED <<now, conf, lan, file, timeout_end>> /\ blocked' \in BOOLEAN
  BY DEF find_address, Rest, IInv, TypeOK
<1>9. out' \subseteq Reply /\ \A m \in out' : m.type # "ACK"
  BY <1>4
<1> QED BY <1>6, <1>7, <1>8, <1>9, RestStep, NoAck DEF Inv

\* The answer to the probe.
LEMMA CheckIpStep ==
    ASSUME IInv, check_ip
    PROVE  Inv'
<1> DEFINE next == [job EXCEPT !.addr = job.addr + 1, !.probe = FALSE]
<1>1. /\ job.pkt \in Packets /\ job.try \in 1 .. 2 /\ job.addr \in Nat
      /\ next \in Job /\ next.addr = job.addr + 1 /\ ~next.probe
  <2>1. job \in [op : {"find"}, pkt : Packets, try : 1 .. 2, check_expired : BOOLEAN,
                  addr : Nat, probe : BOOLEAN]
    BY DEF check_ip, IInv, TypeOK, Job, Idle, Down
  <2>2. /\ next \in [op : {"find"}, pkt : Packets, try : 1 .. 2, check_expired : BOOLEAN,
                      addr : Nat, probe : BOOLEAN]
        /\ next.addr = job.addr + 1 /\ ~next.probe
    <3> DEFINE moved == [job EXCEPT !.addr = job.addr + 1]
    <3>1. /\ moved \in [op : {"find"}, pkt : Packets, try : 1 .. 2, check_expired : BOOLEAN,
                         addr : Nat, probe : BOOLEAN]
          /\ moved.addr = job.addr + 1
      BY <2>1
    <3>2. next = [moved EXCEPT !.probe = FALSE]
      OBVIOUS
    <3> HIDE DEF moved, next
    <3> QED BY <3>1, <3>2
  <2>3. job.pkt \in Packets /\ job.try \in 1 .. 2 /\ job.addr \in Nat
    BY <2>1
  <2> HIDE DEF next
  <2>4. next \in Job
    BY <2>2 DEF Job
  <2> QED BY <2>2, <2>3, <2>4
<1>2. conf.start \in Nat /\ conf.end \in Nat /\ conf.start <= job.addr /\ job.addr <= conf.end
  BY TableAssumption DEF IInv, TypeOK, ScanInPool, check_ip
<1>3. job.addr \in Addr
  BY <1>1, <1>2 DEF IInv, TypeOK
<1>4. Sound(leases)
  BY DEF IInv
<1>5. \/ /\ leases' = add_lease(leases, Blank, job.addr, ConflictTime, now)
         /\ out' = {} /\ job' = next
      \/ make_offer(job.pkt, job.try, leases, job.addr, LeaseTime)
  BY DEF check_ip
<1> HIDE DEF next
<1>6. /\ Sound(leases') /\ job' \in Job /\ out' \subseteq Reply
      /\ \A m \in out' : m.type # "ACK"
      /\ job'.op = "find" => conf.start <= job'.addr /\ (job'.probe => job'.addr <= conf.end)
  <2>1. CASE /\ leases' = add_lease(leases, Blank, job.addr, ConflictTime, now)
             /\ out' = {} /\ job' = next
    <3>1. Sound(leases')
      BY <1>3, <1>4, <2>1, SoundReserve DEF IInv
    <3> QED BY <1>1, <1>2, <2>1, <3>1
  <2>2. CASE make_offer(job.pkt, job.try, leases, job.addr, LeaseTime)
    BY <1>1, <1>3, <1>4, <2>2, MakeOffer, Times
  <2> QED BY <1>5, <2>1, <2>2
<1>7. UNCHANGED <<now, conf, lan, file, timeout_end>> /\ blocked' \in BOOLEAN
  BY DEF check_ip, Rest, IInv, TypeOK
<1> QED BY <1>6, <1>7, RestStep, NoAck DEF Inv

\* REQUEST of a client the table knows.
LEMMA RequestKnownStep ==
    ASSUME IInv, NEW p \in Packets, RequestKnown(p)
    PROVE  Inv'
<1> DEFINE s == lease_of(leases, p.chaddr)
           y == leases[s].yiaddr
<1>1. p.chaddr \in Client /\ p.host \in HostName \cup {NoName} /\ Sound(leases)
  BY PacketType DEF IInv
<1>2. /\ s \in Slots /\ leases[s].chaddr = p.chaddr /\ y \in Addr /\ y # lan
  BY <1>1, SoundFind DEF RequestKnown, IInv
<1>3. Sound(set_hostname(leases, s, p.host))
  BY <1>1, <1>2, SoundName
<1>4. reply(p, "NAK", 0, 0) \in Reply /\ reply(p, "NAK", 0, 0).type = "NAK"
  BY ReplyType DEF IInv, reply
<1>5. \/ leases' = set_hostname(leases, s, p.host)
         /\ out' \in {{}, {reply(p, "NAK", 0, 0)}}
      \/ sendACK(p, leases, y, s)
  BY DEF RequestKnown, sendNAK
<1>6. /\ UNCHANGED <<now, conf, lan, file, timeout_end>> /\ blocked' \in BOOLEAN
      /\ job' = job /\ job = Idle /\ now' = now /\ lan' = lan
  BY DEF RequestKnown, Ready, Selected
<1>7. job' \in Job /\ job'.op # "find"
  BY <1>6 DEF IInv, TypeOK, Idle
<1> HIDE DEF s, y
<1>8. CASE leases' = set_hostname(leases, s, p.host) /\ out' \in {{}, {reply(p, "NAK", 0, 0)}}
  <2>1. out' \subseteq Reply /\ \A m \in out' : m.type # "ACK"
    BY <1>4, <1>8
  <2> QED BY <1>3, <1>6, <1>7, <1>8, <2>1, RestStep, NoAck DEF Inv
<1>9. CASE sendACK(p, leases, y, s)
  <2>1. /\ Sound(leases') /\ out' \subseteq Reply
        /\ \A m \in out' : /\ m.yiaddr = y
                           /\ \E i \in Slots : /\ leases'[i].chaddr = m.chaddr
                                               /\ leases'[i].yiaddr = m.yiaddr
                                               /\ leases'[i].expires = now + m.lease
    BY <1>1, <1>2, <1>9, SendACK
  <2>2. AckRecorded' /\ LanNeverAcked'
    BY <1>2, <1>6, <2>1 DEF AckRecorded, LanNeverAcked
  <2> QED BY <1>6, <1>7, <2>1, <2>2, RestStep DEF Inv
<1> QED BY <1>5, <1>8, <1>9

\* REQUEST of a client the table does not know: the entry just added is the one
\* find_lease_by_chaddr finds, so what is confirmed is not the LAN address.
LEMMA RequestUnknownStep ==
    ASSUME IInv, NEW p \in Packets, RequestUnknown(p)
    PROVE  Inv'
<1> DEFINE t0 == table_after_find(leases, p.chaddr)
           w == IF p.sid # 0 \/ p.req # 0 THEN p.req ELSE p.ciaddr
           t1 == add_lease(t0, p.chaddr, w, OfferTime, now)
           k == add_lease_slot(t0, p.chaddr, w, now)
           s == lease_of(t1, p.chaddr)
           nak == reply(p, "NAK", 0, 0)
<1>1. /\ p.chaddr \in Client /\ p.chaddr # Blank /\ p.host \in HostName \cup {NoName}
      /\ w \in Addr \cup {0}
  BY PacketType, TableAssumption
<1>2. now \in Nat \ {0} /\ OfferTime \in Int /\ now + OfferTime \in Nat
  BY Times DEF IInv, TypeOK
<1>3. Sound(t0) /\ t0 \in Table
  BY <1>1, SoundFind DEF IInv, Sound
<1>4. Sound(t1)
  <2> HIDE DEF t0, w
  <2> QED BY <1>1, <1>2, <1>3, SoundAdd
<1>5. Sound(table_after_find(t1, p.chaddr))
  <2> HIDE DEF t1
  <2> QED BY <1>1, <1>4, SoundFind DEF IInv
<1>6. nak \in Reply /\ nak.type = "NAK"
  BY ReplyType DEF IInv, reply
<1>7. \/ leases' \in {t0, t1, table_after_find(t1, p.chaddr)} /\ out' \in {{}, {nak}}
      \/ k # NULL /\ s # NULL /\ sendACK(p, t1, w, s)
  BY DEF RequestUnknown, sendNAK
<1>8. ASSUME k # NULL, s # NULL
      PROVE  s \in Slots /\ t1[s].chaddr = p.chaddr /\ w \in Addr /\ w # lan
  <2>1. w # 0 /\ \A i \in Slots : t1[i].chaddr = p.chaddr => t1[i].yiaddr = w
    <3> HIDE DEF t0, w
    <3> QED BY <1>1, <1>2, <1>3, <1>8, AddLeaseFound
  <2>2. s \in Slots /\ t1[s].chaddr = p.chaddr /\ t1[s].yiaddr # lan
    <3> HIDE DEF t1
    <3> QED BY <1>1, <1>4, <1>8, SoundFind DEF IInv
  <2> HIDE DEF t0, w, t1, k, s
  <2> QED BY <1>1, <2>1, <2>2
<1>9. /\ UNCHANGED <<now, conf, lan, file, timeout_end>> /\ blocked' \in BOOLEAN
      /\ job' = job /\ job = Idle /\ now' = now /\ lan' = lan
  BY DEF RequestUnknown, Ready, Selected
<1>10. job' \in Job /\ job'.op # "find"
  BY <1>9 DEF IInv, TypeOK, Idle
<1> HIDE DEF t0, w, t1, k, s, nak
<1>11. CASE leases' \in {t0, t1, table_after_find(t1, p.chaddr)} /\ out' \in {{}, {nak}}
  <2>1. out' \subseteq Reply /\ \A m \in out' : m.type # "ACK"
    BY <1>6, <1>11
  <2>2. Sound(leases')
    BY <1>3, <1>4, <1>5, <1>11
  <2> QED BY <1>9, <1>10, <2>1, <2>2, RestStep, NoAck DEF Inv
<1>12. CASE k # NULL /\ s # NULL /\ sendACK(p, t1, w, s)
  <2>1. /\ Sound(leases') /\ out' \subseteq Reply
        /\ \A m \in out' : /\ m.yiaddr = w
                           /\ \E i \in Slots : /\ leases'[i].chaddr = m.chaddr
                                               /\ leases'[i].yiaddr = m.yiaddr
                                               /\ leases'[i].expires = now + m.lease
    BY <1>4, <1>8, <1>12, SendACK
  <2>2. AckRecorded' /\ LanNeverAcked'
    BY <1>8, <1>9, <1>12, <2>1 DEF AckRecorded, LanNeverAcked
  <2> QED BY <1>9, <1>10, <2>1, <2>2, RestStep DEF Inv
<1> QED BY <1>7, <1>11, <1>12

\* Taking an entry from its client, or ending it, keeps the table sound.
LEMMA SoundEnd ==
    ASSUME NEW t, Sound(t), NEW s \in Slots, NEW n \in Nat
    PROVE  /\ Sound([t EXCEPT ![s].chaddr = Blank, ![s].expires = n])
           /\ Sound([t EXCEPT ![s].expires = n])
<1> DEFINE v == [t EXCEPT ![s].chaddr = Blank]
           u == [t EXCEPT ![s].expires = n]
           w == [v EXCEPT ![s].expires = n]
<1>1. t \in Table
  BY DEF Sound
<1>2. /\ v \in Table
      /\ \A i \in Slots : v[i].yiaddr = t[i].yiaddr /\ v[i].chaddr \in {t[i].chaddr, Blank}
  <2>1. \A i \in Slots : t[i] \in Lease
    BY <1>1 DEF Table
  <2>2. \A i \in Slots : v[i] = IF i = s THEN [t[s] EXCEPT !.chaddr = Blank] ELSE t[i]
    BY <1>1 DEF Table
  <2>3. \A i \in Slots : /\ v[i] \in Lease
                         /\ v[i].yiaddr = t[i].yiaddr
                         /\ v[i].chaddr \in {t[i].chaddr, Blank}
    <3> HIDE DEF v
    <3> QED BY <2>1, <2>2 DEF Lease
  <2> QED BY <1>1, <2>3 DEF Table
<1>3. ASSUME NEW f \in Table
      PROVE  /\ [f EXCEPT ![s].expires = n] \in Table
             /\ \A i \in Slots : /\ [f EXCEPT ![s].expires = n][i].yiaddr = f[i].yiaddr
                                 /\ [f EXCEPT ![s].expires = n][i].chaddr = f[i].chaddr
  <2> DEFINE g == [f EXCEPT ![s].expires = n]
  <2>1. \A i \in Slots : f[i] \in Lease
    BY DEF Table
  <2>2. \A i \in Slots : g[i] = IF i = s THEN [f[s] EXCEPT !.expires = n] ELSE f[i]
    BY DEF Table
  <2>3. \A i \in Slots : g[i] \in Lease /\ g[i].yiaddr = f[i].yiaddr /\ g[i].chaddr = f[i].chaddr
    <3> HIDE DEF g
    <3> QED BY <2>1, <2>2 DEF Lease
  <2> QED BY <2>3 DEF Table
<1>4. /\ u \in Table
      /\ \A i \in Slots : u[i].yiaddr = t[i].yiaddr /\ u[i].chaddr = t[i].chaddr
  BY <1>1, <1>3
<1>5. /\ w \in Table
      /\ \A i \in Slots : w[i].yiaddr = t[i].yiaddr /\ w[i].chaddr \in {t[i].chaddr, Blank}
  <2> HIDE DEF v
  <2> QED BY <1>2, <1>3
<1>6. w = [t EXCEPT ![s].chaddr = Blank, ![s].expires = n]
  OBVIOUS
<1> HIDE DEF u, w
<1>7. Sound(u)
  BY <1>4 DEF Sound, one_per_client, one_per_address, clients_have_address
<1>8. Sound(w)
  BY <1>5 DEF Sound, one_per_client, one_per_address, clients_have_address
<1> QED BY <1>6, <1>7, <1>8 DEF u

\* DISCOVER, DECLINE, RELEASE and INFORM.
LEMMA OtherPacketStep ==
    ASSUME IInv, NEW p \in Packets,
           DiscoverMsg(p) \/ DeclineMsg(p) \/ ReleaseMsg(p) \/ InformMsg(p)
    PROVE  Inv'
<1> DEFINE s == lease_of(leases, p.chaddr)
           t == table_after_find(leases, p.chaddr)
           info == reply(p, "INFO", 0, 0)
<1>1. p.chaddr \in Client /\ Sound(leases) /\ now \in Nat /\ now + DeclineTime \in Nat
  BY PacketType, Times DEF IInv, TypeOK
<1>2. Sound(t) /\ (s # NULL => s \in Slots)
  BY <1>1, SoundFind DEF IInv
<1>3. s # NULL => /\ Sound([leases EXCEPT ![s].chaddr = Blank, ![s].expires = now + DeclineTime])
                  /\ Sound([leases EXCEPT ![s].expires = now])
  BY <1>1, <1>2, SoundEnd
<1>4. info \in Reply /\ info.type = "INFO"
  BY ReplyType DEF IInv, reply
<1>5. /\ Idle \in Job /\ Offer(p, 1) \in Job
      /\ Idle.op # "find" /\ Offer(p, 1).op # "find"
  BY DEF Job, Offer, Idle
<1>6. /\ UNCHANGED <<now, conf, lan, file, timeout_end>> /\ blocked' \in BOOLEAN
      /\ job = Idle
  BY DEF DiscoverMsg, DeclineMsg, ReleaseMsg, InformMsg, Ready, Selected
<1>7. job' \in {Idle, Offer(p, 1)} /\ out' \in {{}, {info}}
  BY <1>6 DEF DiscoverMsg, DeclineMsg, ReleaseMsg, InformMsg, send_inform
<1>8. \/ leases' = t
      \/ s # NULL /\ leases' = [leases EXCEPT ![s].chaddr = Blank,
                                              ![s].expires = now + DeclineTime]
      \/ s # NULL /\ leases' = [leases EXCEPT ![s].expires = now]
  BY DEF DiscoverMsg, DeclineMsg, ReleaseMsg, InformMsg
<1> HIDE DEF s, t, info
<1>9. Sound(leases')
  BY <1>2, <1>3, <1>8
<1>10. job' \in Job /\ job'.op # "find" /\ out' \subseteq Reply /\ \A m \in out' : m.type # "ACK"
  BY <1>4, <1>5, <1>7
<1> QED BY <1>6, <1>9, <1>10, RestStep, NoAck DEF Inv

-----------------------------------------------------------------------------
(* The lease file, signals and the environment.                            *)

\* The jobs that work on the lease file.
LEMMA FileJobs ==
    ASSUME NEW i \in Nat \ {0}, NEW b \in BOOLEAN, NEW n \in Nat
    PROVE  /\ Load(i, b) \in Job /\ Load(i, b).op # "find"
           /\ i <= MaxLeases + 1 => Write(i, n, b) \in Job
           /\ Write(i, n, b).op # "find"
<1>1. MaxLeases \in Nat
  BY TableAssumption
<1> QED BY <1>1 DEF Job, Load, Write

\* No work, and no process.
LEMMA RestJobs ==
    /\ Idle \in Job /\ Idle.op # "find"
    /\ Down \in Job /\ Down.op # "find"
  BY DEF Job, Idle, Down

\* A step that sends nothing and does not scan the pool keeps the invariant
\* when it keeps the types and the table sound.
LEMMA QuietStep ==
    ASSUME TypeOK', Sound(leases'), job'.op # "find", out' = {}
    PROVE  Inv'
  BY DEF Inv, IInv, Sound, ScanInPool, AckRecorded, LanNeverAcked

\* The writing of the lease file begins.
LEMMA StartWriteStep ==
    ASSUME IInv, NEW b \in BOOLEAN, StartWrite(b)
    PROVE  Inv'
<1>1. now \in Nat
  BY DEF IInv, TypeOK
<1>2. job' \in Job /\ job'.op # "find"
  <2>1. 1 <= MaxLeases + 1
    BY TableAssumption
  <2> QED BY <1>1, <2>1, FileJobs DEF StartWrite
<1>3. file' \in Seq(Record)
  BY DEF StartWrite
<1>4. TypeOK'
  BY <1>2, <1>3 DEF StartWrite, IInv, TypeOK
<1> QED BY <1>2, <1>4, QuietStep DEF StartWrite, IInv, Sound

\* An iteration of write_leases: what it writes is a record.
LEMMA WriteLeasesStep ==
    ASSUME IInv, write_leases
    PROVE  Inv'
<1> DEFINE l == leases[job.i]
           next == [job EXCEPT !.i = job.i + 1]
<1>1. /\ job \in [op : {"write"}, i : 1 .. MaxLeases + 1, curr : Nat, quit : BOOLEAN]
      /\ job.i \in 1 .. MaxLeases
  BY DEF write_leases, IInv, TypeOK, Job, Idle, Down, Slots
<1>2. next \in [op : {"write"}, i : 1 .. MaxLeases + 1, curr : Nat, quit : BOOLEAN]
  BY <1>1, TableAssumption
<1>3. next \in Job /\ next.op # "find"
  <2> HIDE DEF next
  <2> QED BY <1>2 DEF Job
<1>4. l \in Lease
  BY <1>1 DEF IInv, TypeOK, Table, Slots
<1>5. ASSUME l.yiaddr # 0, l.chaddr # Blank PROVE saved(l, job.curr) \in Record
  BY <1>1, <1>4, <1>5 DEF saved, Record, Lease
<1>6. file \in Seq(Record)
  BY DEF IInv, TypeOK
<1>7. \/ file' = file
      \/ l.yiaddr # 0 /\ l.chaddr # Blank /\ file' = Append(file, saved(l, job.curr))
  BY DEF write_leases
<1>8. file' \in Seq(Record)
  <2> HIDE DEF l
  <2> QED BY <1>5, <1>6, <1>7
<1>9. job' = next
  BY DEF write_leases
<1> HIDE DEF next
<1>10. TypeOK'
  BY <1>3, <1>8, <1>9 DEF write_leases, IInv, TypeOK
<1> QED BY <1>3, <1>9, <1>10, QuietStep DEF write_leases, IInv, Sound

\* write_leases returns.
LEMMA WriteDoneStep ==
    ASSUME IInv, WriteDone
    PROVE  Inv'
<1>1. job' \in Job /\ job'.op # "find"
  BY RestJobs DEF WriteDone
<1>2. Sound(leases') /\ leases' \in Table
  BY SoundZero DEF WriteDone, IInv, Sound
<1>3. timeout_end' \in Nat
  BY Times DEF WriteDone, IInv, TypeOK
<1>4. TypeOK'
  BY <1>1, <1>2, <1>3 DEF WriteDone, IInv, TypeOK
<1> QED BY <1>1, <1>2, <1>4, QuietStep DEF WriteDone

\* The configuration is read and the loading of the lease file begins.
LEMMA StartLoadStep ==
    ASSUME IInv, NEW b \in BOOLEAN, StartLoad(b)
    PROVE  Inv'
<1>1. now \in Nat /\ lan \in LanAddrs /\ conf.server \in Addr
  BY DEF IInv, TypeOK
<1>2. job' \in Job /\ job'.op # "find"
  BY <1>1, FileJobs DEF StartLoad
<1>3. Sound(leases') /\ leases' \in Table
  BY SoundZero DEF StartLoad, Sound
<1>4. /\ conf' = [start |-> PoolOf[lan].start, end |-> PoolOf[lan].end, server |-> conf.server]
      /\ PoolOf[lan].start \in Addr /\ PoolOf[lan].end \in Addr
      /\ PoolOf[lan].start .. PoolOf[lan].end \subseteq Addr
  BY <1>1, ServerAssumption DEF StartLoad, ConfOf
<1>5. conf' \in [start : Addr, end : Addr, server : Addr] /\ conf'.start .. conf'.end \subseteq Addr
  BY <1>1, <1>4
<1>6. timeout_end' \in Nat
  BY <1>1, Times DEF StartLoad
<1>7. TypeOK'
  BY <1>2, <1>3, <1>5, <1>6 DEF StartLoad, IInv, TypeOK
<1> QED BY <1>2, <1>3, <1>7, QuietStep DEF StartLoad

\* A record of read_leases; the expiry time it stores is not negative, with
\* remaining times and with expiry times in the file.
LEMMA ReadLeasesStep ==
    ASSUME IInv, read_leases
    PROVE  Inv'
<1> DEFINE r == file[job.i]
           d == IF Remaining THEN r.left ELSE r.left - now
           s == add_lease_slot(leases, r.chaddr, r.yiaddr, now)
           t == add_lease(leases, r.chaddr, r.yiaddr, d, now)
<1>1. /\ job \in [op : {"load"}, i : Nat \ {0}, reconf : BOOLEAN]
      /\ job.i <= Len(file)
  BY DEF read_leases, IInv, TypeOK, Job, Idle, Down
<1>2. r \in Record
  BY <1>1 DEF IInv, TypeOK
<1>3. /\ r.chaddr \in Client \cup {Blank} /\ r.yiaddr \in Addr \cup {0}
      /\ r.left \in Nat /\ r.hostname \in HostName \cup {NoName}
  BY <1>2 DEF Record
<1>4. now \in Nat \ {0} /\ leases \in Table
  BY DEF IInv, TypeOK
<1>5. d \in Int /\ now + d \in Nat
  BY <1>3, <1>4
<1>6. Sound(t)
  <2> HIDE DEF r, d
  <2> QED BY <1>3, <1>4, <1>5, SoundAdd DEF IInv
<1>7. s # NULL => s \in Slots
  <2> HIDE DEF r
  <2> QED BY <1>3, <1>4, AddLeaseSlot
<1>8. s # NULL => Sound(set_hostname(t, s, r.hostname))
  <2> HIDE DEF r, s, t
  <2> QED BY <1>3, <1>6, <1>7, SoundName
<1>9. /\ Sound(leases')
      /\ \/ job' = [job EXCEPT !.i = Len(file) + 1]
         \/ job' = [job EXCEPT !.i = job.i + 1]
  <2>1. \/ leases' = t /\ job' = [job EXCEPT !.i = Len(file) + 1]
        \/ /\ s # NULL /\ leases' = set_hostname(t, s, r.hostname)
           /\ job' = [job EXCEPT !.i = job.i + 1]
    BY DEF read_leases
  <2> HIDE DEF r, s, t
  <2> QED BY <1>6, <1>8, <2>1
<1>10. job' \in [op : {"load"}, i : Nat \ {0}, reconf : BOOLEAN]
  <2>1. Len(file) \in Nat
    BY DEF IInv, TypeOK
  <2> QED BY <1>1, <1>9, <2>1
<1>11. job' \in Job /\ job'.op # "find"
  BY <1>10 DEF Job
<1>12. out' = {} /\ UNCHANGED <<now, conf, lan, file, timeout_end, blocked>>
  BY DEF read_leases, Rest
<1>13. leases' \in Table
  BY <1>9 DEF Sound
<1>14. TypeOK'
  BY <1>11, <1>12, <1>13 DEF IInv, TypeOK
<1> QED BY <1>9, <1>11, <1>12, <1>14, QuietStep

\* The end of the loading; after SIGUSR2 the table moves to the LAN address.
LEMMA LoadDoneStep ==
    ASSUME IInv, LoadDone
    PROVE  Inv'
<1>1. job' \in Job /\ job'.op # "find"
  BY RestJobs DEF LoadDone
<1>2. lan \in LanAddrs /\ lan \in Addr /\ now \in Nat
  BY ServerAssumption DEF IInv, TypeOK
<1>3. Sound(leases') /\ leases' \in Table
  BY <1>2, SoundUpdate DEF LoadDone, IInv, Sound
<1>4. /\ conf' \in [start : Addr, end : Addr, server : Addr]
      /\ conf'.start .. conf'.end \subseteq Addr
  BY <1>2 DEF LoadDone, IInv, TypeOK
<1>5. timeout_end' \in Nat
  BY <1>2, Times DEF LoadDone, IInv, TypeOK
<1>6. TypeOK'
  BY <1>1, <1>3, <1>4, <1>5 DEF LoadDone, IInv, TypeOK
<1> QED BY <1>1, <1>3, <1>6, QuietStep DEF LoadDone

\* Time passes, the LAN address changes.  The scan of find_address goes on.
LEMMA EnvStep ==
    ASSUME IInv, Tick \/ SetLan
    PROVE  Inv'
<1>1. /\ out' = {} /\ UNCHANGED <<leases, job, conf, file, timeout_end>>
      /\ now' \in Nat \ {0} /\ lan' \in LanAddrs /\ blocked' \in BOOLEAN
  <2>1. now \in Nat \ {0} /\ lan \in LanAddrs /\ blocked \in BOOLEAN
    BY DEF IInv, TypeOK
  <2>2. CASE Tick
    <3>1. blocked' \in BOOLEAN
      BY <2>2, Zenon DEF Tick
    <3> QED BY <2>1, <2>2, <3>1 DEF Tick
  <2>3. CASE SetLan
    BY <2>1, <2>3 DEF SetLan
  <2> QED BY <2>2, <2>3
<1>2. IInv'
  BY <1>1 DEF IInv, TypeOK, Sound, ScanInPool
<1> QED BY <1>1, <1>2, NoAck DEF Inv

\* The process is killed, the router reboots.
LEMMA DeathStep ==
    ASSUME IInv, Kill \/ PowerCycle
    PROVE  Inv'
<1>1. job' \in Job /\ job'.op # "find"
  BY RestJobs DEF Kill, PowerCycle
<1>2. Sound(leases') /\ leases' \in Table
  BY SoundZero DEF Kill, PowerCycle, Sound
<1>3. /\ out' = {} /\ UNCHANGED <<conf, lan>> /\ timeout_end' = 0 /\ blocked' = FALSE
      /\ now' \in Nat \ {0} /\ file' \in Seq(Record)
  <2>1. now \in Nat \ {0} /\ file \in Seq(Record) /\ <<>> \in Seq(Record)
    BY DEF IInv, TypeOK
  <2>2. CASE Kill
    BY <2>1, <2>2 DEF Kill
  <2>3. CASE PowerCycle
    <3>1. file' \in Seq(Record)
      BY <2>1, <2>3, Zenon DEF PowerCycle
    <3>2. /\ out' = {} /\ UNCHANGED <<conf, lan>> /\ timeout_end' = 0 /\ blocked' = FALSE
          /\ now' = 1
      BY <2>3, Zenon DEF PowerCycle
    <3> QED BY <3>1, <3>2
  <2> QED BY <2>2, <2>3
<1>4. TypeOK'
  BY <1>1, <1>2, <1>3 DEF IInv, TypeOK
<1> QED BY <1>1, <1>2, <1>3, <1>4, QuietStep

-----------------------------------------------------------------------------
(* The theorems.                                                           *)

\* The server starts with the invariant.
LEMMA InitInv == Init => Inv
<1> SUFFICES ASSUME Init PROVE Inv
  OBVIOUS
<1>1. job \in Job /\ job.op # "find"
  BY RestJobs DEF Init
<1>2. Sound(leases) /\ leases \in Table
  BY SoundZero DEF Init, Sound
<1>3. lan \in LanAddrs /\ lan \in Addr
  BY ServerAssumption DEF Init
<1>4. /\ conf = [start |-> PoolOf[lan].start, end |-> PoolOf[lan].end, server |-> lan]
      /\ PoolOf[lan].start \in Addr /\ PoolOf[lan].end \in Addr
      /\ PoolOf[lan].start .. PoolOf[lan].end \subseteq Addr
  BY <1>3, ServerAssumption DEF Init, ConfOf
<1>5. conf \in [start : Addr, end : Addr, server : Addr] /\ conf.start .. conf.end \subseteq Addr
  BY <1>3, <1>4
<1>6. /\ now = 1 /\ file = <<>> /\ timeout_end = 0 /\ blocked = FALSE /\ out = {}
  BY DEF Init
<1>7. TypeOK
  <2>1. file \in Seq(Record) /\ out \subseteq Reply /\ blocked \in BOOLEAN
    <3>1. <<>> \in Seq(Record) /\ {} \subseteq Reply /\ FALSE \in BOOLEAN
      OBVIOUS
    <3> QED BY <1>6, <3>1, Zenon
  <2>2. now \in Nat \ {0} /\ timeout_end \in Nat
    BY <1>6
  <2> QED BY <1>1, <1>2, <1>3, <1>5, <2>1, <2>2 DEF TypeOK
<1> QED BY <1>1, <1>2, <1>6, <1>7 DEF Inv, IInv, ScanInPool, AckRecorded, LanNeverAcked

\* Every step of the process, of the clients, of the administrator and of the
\* clock keeps the invariant.
LEMMA NextInv == Inv /\ [Next]_vars => Inv'
<1> SUFFICES ASSUME Inv, [Next]_vars PROVE Inv'
  OBVIOUS
<1>0. IInv
  BY DEF Inv
<1>1. CASE sendOffer
  BY <1>0, <1>1, SendOfferStep
<1>2. CASE find_address
  BY <1>0, <1>2, FindAddressStep
<1>3. CASE check_ip
  BY <1>0, <1>3, CheckIpStep
<1>4. CASE write_leases
  BY <1>0, <1>4, WriteLeasesStep
<1>5. CASE WriteDone
  BY <1>0, <1>5, WriteDoneStep
<1>6. CASE read_leases
  BY <1>0, <1>6, ReadLeasesStep
<1>7. CASE LoadDone
  BY <1>0, <1>7, LoadDoneStep
<1>8. CASE \E p \in Packets : PacketMsg(p)
  <2>1. PICK p \in Packets : PacketMsg(p)
    BY <1>8
  <2>2. CASE RequestKnown(p)
    BY <1>0, <2>2, RequestKnownStep
  <2>3. CASE RequestUnknown(p)
    BY <1>0, <2>3, RequestUnknownStep
  <2>4. CASE DiscoverMsg(p) \/ DeclineMsg(p) \/ ReleaseMsg(p) \/ InformMsg(p)
    BY <1>0, <2>4, OtherPacketStep
  <2> QED BY <2>1, <2>2, <2>3, <2>4 DEF PacketMsg
<1>9. CASE AutoSave \/ SigUsr1 \/ SigTerm
  BY <1>0, <1>9, StartWriteStep DEF AutoSave, SigUsr1, SigTerm
<1>10. CASE Start \/ SigUsr2
  BY <1>0, <1>10, StartLoadStep DEF Start, SigUsr2
<1>11. CASE Tick \/ SetLan
  BY <1>0, <1>11, EnvStep
<1>12. CASE Kill \/ PowerCycle
  BY <1>0, <1>12, DeathStep
<1>13. CASE UNCHANGED vars
  BY <1>13 DEF Inv, IInv, TypeOK, Sound, ScanInPool, AckRecorded, LanNeverAcked, vars
<1> QED BY <1>1, <1>2, <1>3, <1>4, <1>5, <1>6, <1>7, <1>8, <1>9, <1>10, <1>11, <1>12, <1>13
        DEF Next, ServerStep

\* The invariant holds in every state of the server.
LEMMA InvAlways == Spec => []Inv
  BY InitInv, NextInv, PTL DEF Spec

\* Type correctness, for every size of the table and every set of packets.
THEOREM TypeCorrect == Spec => []TypeOK
<1>1. Inv => TypeOK
  BY DEF Inv, IInv
<1> QED BY <1>1, InvAlways, PTL

\* No client ever has two entries in the table, whatever it and the others send,
\* and through every save, reload, crash and reboot.
THEOREM NoDuplicateClient == Spec => []OneLeasePerClient
<1>1. Inv => OneLeasePerClient
  BY DEF Inv, IInv, Sound, OneLeasePerClient
<1> QED BY <1>1, InvAlways, PTL

\* While the LAN stays in one subnet no address is ever in two entries.  The
\* assumption is needed: update_lease_by_new_ip merges two subnets.
THEOREM NoDuplicateAddress ==
    ASSUME OneSubnet
    PROVE  Spec => []OneLeasePerAddress
<1>1. Inv => OneLeasePerAddress
  BY DEF Inv, IInv, Sound, OneLeasePerAddress
<1> QED BY <1>1, InvAlways, PTL

\* Every ACK that leaves the server is in the table, for the time it promises,
\* however small the table is and however it is filled with reservations.
THEOREM AcksAreRecorded == Spec => []AckRecorded
<1>1. Inv => AckRecorded
  BY DEF Inv
<1> QED BY <1>1, InvAlways, PTL

\* The router's own address is never confirmed to a client, also while the
\* address is being changed.
THEOREM RouterAddressKept == Spec => []LanNeverAcked
<1>1. Inv => LanNeverAcked
  BY DEF Inv
<1> QED BY <1>1, InvAlways, PTL
=============================================================================
