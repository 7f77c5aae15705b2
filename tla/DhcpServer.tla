----------------------------- MODULE DhcpServer -----------------------------
(***************************************************************************)
(* The LAN DHCP server (udhcpd-0.9.8: dhcpd.c, serverpacket.c, leases.c,   *)
(* files.c and the Gemtek macros of gemtek_added_SRC) as one single-       *)
(* threaded process: it waits in select() for a packet, a signal or the    *)
(* auto_time timeout and serves one of them to the end.                    *)
(*                                                                         *)
(* The loops that block or that can be cut short by a crash are one action *)
(* per iteration: the address scan of find_address (an ARP probe of two    *)
(* seconds per address), the writing and the reading of the lease file.    *)
(* The clock may advance between any two actions, so the time an address   *)
(* was looked at, before its probe, is not the time it is leased.          *)
(*                                                                         *)
(* The clients are the environment: any packet of Packets may arrive at    *)
(* any moment the server is in select(), which includes every delay,       *)
(* duplication and reordering the network may cause.                       *)
(***************************************************************************)
EXTENDS LeaseTable, Sequences

CONSTANTS
    LanAddrs,      \* addresses the administrator may give the LAN interface
    PoolOf,        \* for each of them the pool [start, end] of the config file
    Packets,       \* DHCP packets clients may send
    Signals,       \* subset of {"USR1", "USR2", "TERM", "KILL", "POWER"}
    NoWrite,       \* clients listed in /tmp/udhcpd.lease.no
    Octet,         \* 256: the last octet of an address is the address % Octet
    LeaseTime, MinLease, OfferTime, ConflictTime, DeclineTime,
    AutoTime,      \* seconds between two writes of the lease file, 0 for never
    Remaining,     \* the lease file holds remaining times, not expiry times
    MaxTime        \* bound: the clock stops here

VARIABLES
    leases,        \* the lease table
    now,           \* sys_time(): seconds since boot
    job,           \* what the process is doing
    conf,          \* server_config: start, end and server (our address)
    lan,           \* nvram lan_ipaddr, also the address of the interface
    file,          \* contents of the lease file
    timeout_end,   \* when the lease file is written next
    blocked,       \* still in select() in the second in which its timeout ends
    out            \* packets sent by the last step

vars == <<leases, now, job, conf, lan, file, timeout_end, blocked, out>>

PacketTypes == {"DISCOVER", "REQUEST", "DECLINE", "RELEASE", "INFORM"}

\* 0 stands for an absent option or a zero field
Packet ==
    [type   : PacketTypes,
     xid    : Nat,
     chaddr : Client,
     req    : Addr \cup {0},          \* DHCP_REQUESTED_IP
     sid    : Addr \cup {0},          \* DHCP_SERVER_ID
     ciaddr : Addr \cup {0},
     ltime  : Nat,                    \* DHCP_LEASE_TIME
     host   : HostName \cup {NoName}] \* DHCP_HOST_NAME

Reply ==
    [type   : {"OFFER", "ACK", "NAK", "INFO"},
     xid    : Nat,
     chaddr : Client,
     yiaddr : Addr \cup {0},
     lease  : Nat,
     sid    : Addr]

Record ==
    [chaddr : Client, yiaddr : Addr, left : Nat, hostname : HostName \cup {NoName}]

ASSUME ServerAssumption ==
    /\ LanAddrs \subseteq Addr
    /\ PoolOf \in [LanAddrs -> [start : Addr, end : Addr]]
    /\ \A l \in LanAddrs : PoolOf[l].start .. PoolOf[l].end \subseteq Addr
    /\ \A l \in LanAddrs, a \in Addr : rehome(a, l) \in Addr
    /\ Packets \subseteq Packet
    /\ Signals \subseteq {"USR1", "USR2", "TERM", "KILL", "POWER"}
    /\ NoWrite \subseteq Client
    /\ Octet \in Nat \ {0}
    /\ {LeaseTime, MinLease, OfferTime, ConflictTime, DeclineTime} \subseteq Nat
    /\ MinLease <= LeaseTime
    /\ AutoTime \in Nat
    /\ Remaining \in BOOLEAN
    /\ MaxTime \in Nat \ {0}

-----------------------------------------------------------------------------
(* What the process is doing.  "offer" is the head of sendOffer, "find" an *)
(* iteration of find_address inside it, "load" and "write" an iteration of *)
(* read_leases and write_leases; "down" is no process at all.              *)

Idle == [op |-> "idle"]
Down == [op |-> "down"]
Offer(p, try) == [op |-> "offer", pkt |-> p, try |-> try]
Find(p, try, chk, a) ==
    [op |-> "find", pkt |-> p, try |-> try, check_expired |-> chk, addr |-> a, probe |-> FALSE]
Load(i, reconf) == [op |-> "load", i |-> i, reconf |-> reconf]
Write(i, curr, quit) == [op |-> "write", i |-> i, curr |-> curr, quit |-> quit]

Job ==
    {Idle, Down}
    \cup [op : {"offer"}, pkt : Packets, try : 1 .. 2]
    \cup [op : {"find"}, pkt : Packets, try : 1 .. 2, check_expired : BOOLEAN, addr : Nat,
          probe : BOOLEAN]
    \cup [op : {"load"}, i : Nat \ {0}, reconf : BOOLEAN]
    \cup [op : {"write"}, i : 1 .. MaxLeases + 1, curr : Nat, quit : BOOLEAN]

\* Every variable has its type: the table, the file and the replies hold addresses
\* of the LAN and times that are not negative, and every job is a step of the code.
TypeOK ==
    /\ leases \in Table
    /\ now \in Nat \ {0}
    /\ job \in Job
    /\ lan \in LanAddrs
    /\ conf \in [start : Addr, end : Addr, server : Addr]
    /\ conf.start .. conf.end \subseteq Addr
    /\ file \in Seq(Record)
    /\ timeout_end \in Nat
    /\ blocked \in BOOLEAN
    /\ out \subseteq Reply

ConfOf(l) == [start |-> PoolOf[l].start, end |-> PoolOf[l].end, server |-> l]

\* Faulty: the end of the pool is not looked at.
FromStart(a) == conf.start <= a

InPool(a) == conf.start <= a /\ a <= conf.end

TimedOut == AutoTime # 0 /\ timeout_end <= now

\* Everything but the table, the job and the output stays.
Rest == UNCHANGED <<now, conf, lan, file, timeout_end, blocked>>

-----------------------------------------------------------------------------
(* Operations on the table that look at the router's own address.          *)

\* Faulty: compares with the address the server was configured with.
IsOurAddr(a) == a = conf.server

IsLanIPAddr(a) == a = lan

\* IsLanIPAddr re-reserves the router's address each time it meets it.
reserve_lan(t, a) == add_lease(t, Blank, a, ConflictTime, now)

\* find_lease_by_chaddr: the slot of c, or NULL when there is none or when its
\* address is the router's own; meeting that address reserves it again.
lease_of(t, c) ==
    LET s == slot_of_chaddr(t, c)
    IN  IF s # NULL /\ IsLanIPAddr(t[s].yiaddr) THEN NULL ELSE s

table_after_find(t, c) ==
    LET s == slot_of_chaddr(t, c)
    IN  IF s # NULL /\ IsLanIPAddr(t[s].yiaddr) THEN reserve_lan(t, t[s].yiaddr) ELSE t

\* strncpy through the pointer `lease': it writes the slot the entry was in
\* before add_lease, wherever the entry is now.
set_hostname(t, s, h) == [t EXCEPT ![s].hostname = h]

-----------------------------------------------------------------------------
(* Packets the server builds.                                              *)

\* Faulty: min_lease is not looked at.
offer_time_unchecked(left, asked) ==
    IF asked = 0 THEN left ELSE IF asked > LeaseTime THEN LeaseTime ELSE asked

\* The lease time of an OFFER: what is left of the client's own entry, or what
\* it asks for, but never more than lease nor less than min_lease.
offer_lease_time(left, asked) ==
    LET t == IF asked = 0 THEN left ELSE IF asked > LeaseTime THEN LeaseTime ELSE asked
    IN  IF t < MinLease THEN LeaseTime ELSE t

ack_lease_time(asked) ==
    IF asked = 0 \/ asked > LeaseTime \/ asked < MinLease THEN LeaseTime ELSE asked

reply(p, type, y, time) ==
    [type |-> type, xid |-> p.xid, chaddr |-> p.chaddr, yiaddr |-> y,
     lease |-> time, sid |-> conf.server]

sendNAK(p, t) ==
    /\ leases' = t
    /\ out' \in {{}, {reply(p, "NAK", 0, 0)}}

send_inform(p) == out' \in {{}, {reply(p, "INFO", 0, 0)}}

\* The packet is sent before the lease is recorded; the result of add_lease is
\* not looked at, and a packet that cannot be sent records nothing.
sendACK(p, t, y, s) ==
    LET time == ack_lease_time(p.ltime)
    IN  \/ /\ leases' = set_hostname(add_lease(t, p.chaddr, y, time, now), s, p.host)
           /\ out' = {reply(p, "ACK", y, time)}
        \/ /\ leases' = set_hostname(t, s, p.host)
           /\ out' = {}

-----------------------------------------------------------------------------
(* DISCOVER.                                                               *)

\* Faulty: sendOffer is called again until it succeeds.
offer_again(p, try, t) ==
    /\ leases' = t
    /\ out' = {}
    /\ job' = Offer(p, 2)

\* sendOffer returned -1: the main loop calls it once more.
offer_failed(p, try, t) ==
    /\ leases' = t
    /\ out' = {}
    /\ job' = IF try = 1 THEN Offer(p, 2) ELSE Idle

\* The tail of sendOffer, once it has an address y to offer.
make_offer(p, try, t, y, left) ==
    LET u == add_lease(t, p.chaddr, y, OfferTime, now)
    IN  \/ /\ add_lease_slot(t, p.chaddr, y, now) # NULL
           /\ leases' = u
           /\ out' = {reply(p, "OFFER", y, offer_lease_time(left, p.ltime))}
           /\ job' = Idle
        \/ offer_failed(p, try, u)    \* no slot, or send_packet fails

\* The head of sendOffer: the client's own entry, the address it asks for if
\* that is in the pool and free or expired, or else a scan of the pool.  The
\* address asked for is offered without an ARP probe, whoever held it before.
sendOffer ==
    /\ job.op = "offer"
    /\ LET p == job.pkt
           s == lease_of(leases, p.chaddr)
           t == table_after_find(leases, p.chaddr)
           r == find_lease_by_yiaddr(t, p.req)
       IN  IF s # NULL
           THEN make_offer(p, job.try, t, t[s].yiaddr,
                    IF lease_expired(t[s], now) THEN LeaseTime ELSE t[s].expires - now)
           ELSE IF /\ p.req # 0
                   /\ InPool(p.req)
                   /\ r = NULL \/ lease_expired(t[r], now)
           THEN make_offer(p, job.try, t, p.req, LeaseTime)
           ELSE /\ leases' = t
                /\ out' = {}
                /\ job' = Find(p, job.try, FALSE, conf.start)
    /\ Rest

\* One iteration of find_address, up to the ARP probe of the address; it is
\* called again with check_expired when the first scan finds nothing.
find_address ==
    /\ job.op = "find"
    /\ ~job.probe
    /\ LET a == job.addr
           l == find_lease_by_yiaddr(leases, a)
           next == [job EXCEPT !.addr = a + 1]
           skip(t) == leases' = t /\ out' = {} /\ job' = next
       IN  \/ /\ a > conf.end
              /\ ~job.check_expired
              /\ job' = Find(job.pkt, job.try, TRUE, conf.start)
              /\ leases' = leases
              /\ out' = {}
           \/ /\ a > conf.end
              /\ job.check_expired
              /\ offer_failed(job.pkt, job.try, leases)
           \/ /\ a <= conf.end
              /\ a % Octet \in {0, Octet - 1}
              /\ skip(leases)
           \/ /\ a <= conf.end
              /\ a % Octet \notin {0, Octet - 1}
              /\ IF IsLanIPAddr(a) THEN skip(reserve_lan(leases, a))
                 ELSE IF l = NULL \/ (job.check_expired /\ lease_expired(leases[l], now))
                 THEN leases' = leases /\ out' = {} /\ job' = [job EXCEPT !.probe = TRUE]
                 ELSE skip(leases)
    /\ Rest

\* The answer to the ARP probe, up to two seconds later: the address belongs to
\* someone and is reserved, or it is offered.
check_ip ==
    /\ job.op = "find"
    /\ job.probe
    /\ \/ /\ leases' = add_lease(leases, Blank, job.addr, ConflictTime, now)
          /\ out' = {}
          /\ job' = [job EXCEPT !.addr = job.addr + 1, !.probe = FALSE]
       \/ make_offer(job.pkt, job.try, leases, job.addr, LeaseTime)
    /\ Rest

-----------------------------------------------------------------------------
(* The main loop: packets.  find_lease_by_chaddr runs before the switch.   *)

\* Faulty: select() is called again although the timeout has passed.
SelectedLate == job = Idle

\* select() returned for a packet or a signal: it was entered before the timeout.
Selected == job = Idle /\ (TimedOut => blocked)

Ready ==
    /\ Selected
    /\ blocked' = FALSE
    /\ UNCHANGED <<now, conf, lan, file, timeout_end>>

DiscoverMsg(p) ==
    /\ Ready
    /\ p.type = "DISCOVER"
    /\ leases' = table_after_find(leases, p.chaddr)
    /\ out' = {}
    /\ job' = Offer(p, 1)

\* REQUEST of a client the table knows: SELECTING, INIT-REBOOT or
\* RENEWING/REBINDING by the options present.  The host name is stored also
\* when the answer is a NAK or nothing.
RequestKnown(p) ==
    /\ Ready
    /\ p.type = "REQUEST"
    /\ lease_of(leases, p.chaddr) # NULL
    /\ LET s == lease_of(leases, p.chaddr)
           y == leases[s].yiaddr
           wanted == IF p.sid # 0 \/ p.req # 0 THEN p.req ELSE p.ciaddr
           named == set_hostname(leases, s, p.host)
       IN  IF p.sid \notin {0, conf.server} THEN leases' = named /\ out' = {}
           ELSE IF wanted = y THEN sendACK(p, leases, y, s)
           ELSE sendNAK(p, named)
    /\ job' = job

\* REQUEST of a client the table does not know: the address it names is leased
\* to it at once if it is in the pool, whoever else the table has it for.
RequestUnknown(p) ==
    /\ Ready
    /\ p.type = "REQUEST"
    /\ lease_of(leases, p.chaddr) = NULL
    /\ LET t0 == table_after_find(leases, p.chaddr)
           wanted == IF p.sid # 0 \/ p.req # 0 THEN p.req ELSE p.ciaddr
           t1 == add_lease(t0, p.chaddr, wanted, OfferTime, now)
           s == lease_of(t1, p.chaddr)
       IN  IF \/ p.sid \notin {0, conf.server}
              \/ p.sid = 0 /\ p.req = 0 /\ p.ciaddr = 0
           THEN leases' = t0 /\ out' = {}
           ELSE IF ~InPool(wanted) THEN sendNAK(p, t0)
           ELSE IF add_lease_slot(t0, p.chaddr, wanted, now) = NULL THEN sendNAK(p, t1)
           ELSE IF s = NULL THEN sendNAK(p, table_after_find(t1, p.chaddr))
           ELSE sendACK(p, t1, wanted, s)
    /\ job' = job

DeclineMsg(p) ==
    /\ Ready
    /\ p.type = "DECLINE"
    /\ LET s == lease_of(leases, p.chaddr)
       IN  leases' = IF s = NULL THEN table_after_find(leases, p.chaddr)
                     ELSE [leases EXCEPT ![s].chaddr = Blank,
                                         ![s].expires = now + DeclineTime]
    /\ out' = {}
    /\ job' = job

ReleaseMsg(p) ==
    /\ Ready
    /\ p.type = "RELEASE"
    /\ LET s == lease_of(leases, p.chaddr)
       IN  leases' = IF s = NULL THEN table_after_find(leases, p.chaddr)
                     ELSE [leases EXCEPT ![s].expires = now]
    /\ out' = {}
    /\ job' = job

InformMsg(p) ==
    /\ Ready
    /\ p.type = "INFORM"
    /\ leases' = table_after_find(leases, p.chaddr)
    /\ send_inform(p)
    /\ job' = job

-----------------------------------------------------------------------------
(* The main loop: the auto_time timeout, signals, and the lease file.      *)

\* write_leases opens the file with "w": what was there is gone.
StartWrite(quit) ==
    /\ job' = Write(1, now, quit)
    /\ file' = <<>>
    /\ blocked' = FALSE
    /\ out' = {}
    /\ UNCHANGED <<leases, now, conf, lan, timeout_end>>

AutoSave == job = Idle /\ TimedOut /\ StartWrite(FALSE)

SigUsr1 == "USR1" \in Signals /\ Selected /\ StartWrite(FALSE)

SigTerm == "TERM" \in Signals /\ Selected /\ StartWrite(TRUE)

\* Faulty: the time left of an expired entry is negative.
saved_unchecked(l, curr) ==
    [chaddr |-> l.chaddr, yiaddr |-> l.yiaddr, hostname |-> l.hostname,
     left |-> l.expires - curr]

\* Faulty: the time left is cut off too early.
saved_short(l, curr) ==
    [chaddr |-> l.chaddr, yiaddr |-> l.yiaddr, hostname |-> l.hostname,
     left |-> IF l.expires <= curr + 1 THEN 0 ELSE l.expires - curr]

\* What write_leases stores of an entry: with `remaining' the time that is left
\* of it, 0 when it has expired.
saved(l, curr) ==
    [chaddr |-> l.chaddr, yiaddr |-> l.yiaddr, hostname |-> l.hostname,
     left |-> IF ~Remaining THEN l.expires
              ELSE IF l.expires < curr THEN 0 ELSE l.expires - curr]

\* Entries without an address, reservations and the clients of udhcpd.lease.no
\* are not written.
write_leases ==
    /\ job.op = "write"
    /\ job.i \in Slots
    /\ LET l == leases[job.i]
       IN  file' = IF l.yiaddr = 0 \/ l.chaddr = Blank \/ l.chaddr \in NoWrite
                   THEN file ELSE Append(file, saved(l, job.curr))
    /\ job' = [job EXCEPT !.i = job.i + 1]
    /\ out' = {}
    /\ UNCHANGED <<leases, now, conf, lan, timeout_end, blocked>>

WriteDone ==
    /\ job.op = "write"
    /\ job.i > MaxLeases
    /\ IF job.quit THEN job' = Down /\ leases' = ZeroTable /\ timeout_end' = 0
                   ELSE job' = Idle /\ leases' = leases /\ timeout_end' = now + AutoTime
    /\ out' = {}
    /\ UNCHANGED <<now, conf, lan, file, blocked>>

\* Start of the process, and SIGUSR2: the configuration is read, the table
\* zeroed and the lease file loaded.  Nothing saves the table first; our own
\* address is read from the interface only after the file.
StartLoad(reconf) ==
    /\ conf' = [ConfOf(lan) EXCEPT !.server = conf.server]
    /\ leases' = ZeroTable
    /\ timeout_end' = IF reconf THEN now + AutoTime ELSE 0
    /\ job' = Load(1, reconf)
    /\ blocked' = FALSE
    /\ out' = {}
    /\ UNCHANGED <<now, lan, file>>

Start == job = Down /\ StartLoad(FALSE)

SigUsr2 == "USR2" \in Signals /\ Selected /\ StartLoad(TRUE)

\* One record of read_leases; the time stored is remaining time, or an expiry
\* time from which the clock is subtracted and to which it is added again.
read_leases ==
    /\ job.op = "load"
    /\ job.i <= Len(file)
    /\ job.i <= MaxLeases
    /\ LET r == file[job.i]
           s == add_lease_slot(leases, r.chaddr, r.yiaddr, now)
           t == add_lease(leases, r.chaddr, r.yiaddr,
                          IF Remaining THEN r.left ELSE r.left - now, now)
       IN  IF s = NULL THEN leases' = t /\ job' = [job EXCEPT !.i = Len(file) + 1]
           ELSE /\ leases' = set_hostname(t, s, r.hostname)
                /\ job' = [job EXCEPT !.i = job.i + 1]
    /\ out' = {}
    /\ Rest

LoadDone ==
    /\ job.op = "load"
    /\ job.i > Len(file) \/ job.i > MaxLeases
    /\ conf' = [conf EXCEPT !.server = lan]
    /\ IF job.reconf
       THEN leases' = update_lease_by_new_ip(leases, lan) /\ timeout_end' = timeout_end
       ELSE leases' = leases /\ timeout_end' = now + AutoTime
    /\ job' = Idle
    /\ out' = {}
    /\ UNCHANGED <<now, lan, file, blocked>>

-----------------------------------------------------------------------------
(* The environment.                                                        *)

Tick ==
    /\ now < MaxTime
    /\ now' = now + 1
    /\ out' = {}
    /\ UNCHANGED <<leases, job, conf, lan, file, timeout_end>>
    /\ blocked' = (job = Idle /\ ~TimedOut /\ TimedOut')

\* The administrator changes the LAN address; the server is told by a signal
\* or a restart, later.
SetLan ==
    /\ lan' \in LanAddrs \ {lan}
    /\ out' = {}
    /\ UNCHANGED <<leases, now, job, conf, file, timeout_end, blocked>>

\* The process dies without saving anything; a file half written stays so.
Kill ==
    /\ "KILL" \in Signals
    /\ job # Down
    /\ job' = Down
    /\ leases' = ZeroTable
    /\ timeout_end' = 0
    /\ blocked' = FALSE
    /\ out' = {}
    /\ UNCHANGED <<now, conf, lan, file>>

\* The router reboots: the clock restarts, and the lease file is there again or,
\* when it is on the RAM disk, gone.
PowerCycle ==
    /\ "POWER" \in Signals
    /\ now > 1
    /\ job' = Down
    /\ leases' = ZeroTable
    /\ timeout_end' = 0
    /\ blocked' = FALSE
    /\ now' = 1
    /\ file' \in {file, <<>>}
    /\ out' = {}
    /\ UNCHANGED <<conf, lan>>

-----------------------------------------------------------------------------
Init ==
    /\ leases = ZeroTable
    /\ now = 1
    /\ job = Down
    /\ lan \in LanAddrs
    /\ conf = ConfOf(lan)
    /\ file = <<>>
    /\ timeout_end = 0
    /\ blocked = FALSE
    /\ out = {}

PacketMsg(p) ==
    \/ DiscoverMsg(p) \/ RequestKnown(p) \/ RequestUnknown(p)
    \/ DeclineMsg(p) \/ ReleaseMsg(p) \/ InformMsg(p)

\* The steps the process takes by itself until it is back in select().
ServerStep ==
    \/ sendOffer \/ find_address \/ check_ip \/ write_leases \/ WriteDone \/ read_leases \/ LoadDone

Next ==
    \/ ServerStep
    \/ \E p \in Packets : PacketMsg(p)
    \/ AutoSave \/ SigUsr1 \/ SigUsr2 \/ SigTerm \/ Start
    \/ Tick \/ SetLan \/ Kill \/ PowerCycle

Spec == Init /\ [][Next]_vars

-----------------------------------------------------------------------------
(* Safety.                                                                 *)

\* However entries are added, moved, stolen, declined or reloaded, the table
\* never has two entries for one client: find_lease_by_chaddr, which stops at
\* the first match (leases.c:191), is never ambiguous.
OneLeasePerClient == one_per_client(leases)

\* The table never has two entries for one address: neither two clients nor a
\* client and a reservation (clear_lease before every insertion, leases.c:24).
OneLeasePerAddress == one_per_address(leases)

\* sendACK ignores the result of add_lease (serverpacket.c:273), yet every ACK
\* that leaves the server is in the table when it leaves, for exactly the time
\* it promises, however full the table is.
AckRecorded ==
    \A m \in out : m.type = "ACK" =>
        \E i \in Slots : /\ leases[i].chaddr = m.chaddr
                         /\ leases[i].yiaddr = m.yiaddr
                         /\ leases[i].expires = now + m.lease

\* The router never confirms its own LAN address to a client, although
\* sendOffer may offer it and add_lease may book it (leases.c:200).
LanNeverAcked == \A m \in out : m.type = "ACK" => m.yiaddr # lan

\* Every address the server hands out is in the configured pool, though
\* neither the reload of the lease file nor the renewal of a known client
\* checks the pool (files.c:316 has the check commented out).
PoolRespected ==
    \A m \in out : m.type \in {"OFFER", "ACK"} => m.yiaddr \in conf.start .. conf.end

\* Every lease time handed out lies between min_lease and lease, whether it
\* comes from the configuration, the client's wish or what is left of an
\* earlier entry (serverpacket.c:191-200, 247-254).
GrantedTimes ==
    \A m \in out : m.type \in {"OFFER", "ACK"} => m.lease \in MinLease .. LeaseTime

\* While the lease file is read back, every record read so far is in the table
\* with its host name and no more time than was saved: a restart loses no saved
\* lease, not even one saved as already expired (files.c:300).
ReloadComplete ==
    job.op = "load" =>
        \A k \in 1 .. job.i - 1 :
            \E i \in Slots : /\ leases[i].chaddr = file[k].chaddr
                             /\ leases[i].yiaddr = file[k].yiaddr
                             /\ leases[i].hostname = file[k].hostname
                             /\ leases[i].expires <= now + file[k].left

\* When write_leases is done, and so before SIGTERM ends the process, the file
\* holds every client entry of the table with at least the time it has left
\* (files.c:223, dhcpd.c:243).
SaveComplete ==
    job.op = "write" /\ job.i > MaxLeases =>
        \A i \in Slots :
            leases[i].chaddr \notin NoWrite \cup {Blank} =>
                \E k \in 1 .. Len(file) :
                    /\ file[k].chaddr = leases[i].chaddr
                    /\ file[k].yiaddr = leases[i].yiaddr
                    /\ leases[i].expires <= now + file[k].left

\* sendOffer never offers an address the table holds, unexpired, for somebody
\* else: "and its not already taken/offered" (serverpacket.c:145), also after
\* seconds of probing and with other addresses reserved meanwhile.
OfferNotTaken ==
    [][\A m \in out' : m.type = "OFFER" =>
          ~\E i \in Slots : /\ leases[i].yiaddr = m.yiaddr
                            /\ leases[i].chaddr # m.chaddr
                            /\ ~lease_expired(leases[i], now)]_vars

\* A client's unexpired entry is changed only by a packet of that client, by a
\* REQUEST of an unknown client for that very address, because the address has
\* become the router's own, or by the end or the reload of the server: never by
\* another client's DISCOVER, a full table, a conflict or a save.
LiveLeaseKept ==
    [][\A i \in Slots :
          LET l == leases[i]
          IN  \/ l.chaddr = Blank
              \/ lease_expired(l, now)
              \/ l.yiaddr = lan
              \/ \E j \in Slots : [leases'[j] EXCEPT !.hostname = l.hostname] = l
              \/ job.op \in {"offer", "find"} /\ job.pkt.chaddr = l.chaddr
              \/ \E p \in Packets : PacketMsg(p) /\ p.chaddr = l.chaddr
              \/ \E p \in Packets : RequestUnknown(p) /\ l.yiaddr \in {p.req, p.ciaddr}
              \/ "load" \in {job.op, job'.op}
              \/ job' = Down]_vars

-----------------------------------------------------------------------------
(* What the documentation says and the code does not do.                   *)

\* "If the client requested an ip address already but the mac address is not
\* itself, do not give it the requested ip address." (serverpacket.c:152)
RequestedOnlyToItsOwner ==
    [][\A m \in out' : m.type = "OFFER" /\ job.op = "offer" /\ m.yiaddr = job.pkt.req =>
          ~\E i \in Slots : leases[i].yiaddr = m.yiaddr /\ leases[i].chaddr # m.chaddr]_vars

-----------------------------------------------------------------------------
(* Liveness.                                                               *)

\* The process is scheduled: a handler under way goes on, and select() returns
\* when its timeout has passed.
FairSpec == Spec /\ WF_vars(ServerStep) /\ WF_vars(AutoSave)

\* Every handler ends and the server is back in select(), or dead: the scan of
\* find_address, repeated for expired leases and for the second sendOffer, does
\* not run for ever.
HandlersEnd == job.op \notin {"idle", "down"} ~> job.op \in {"idle", "down"}

\* Once auto_time has passed the lease file is written, whatever packets arrive,
\* unless SIGUSR2 or the end of the process comes first (dhcpd.c:191-204).
AutoSaved == (job = Idle /\ TimedOut) ~> (job.op \in {"write", "load"} \/ job = Down)
=============================================================================
