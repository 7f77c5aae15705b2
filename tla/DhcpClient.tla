----------------------------- MODULE DhcpClient -----------------------------
(***************************************************************************)
(* The WAN DHCP client (udhcpc-0.9.8: dhcpc.c, clientpacket.c, script.c):  *)
(* one single-threaded process that waits in select() for a packet, a      *)
(* signal or its timeout, and runs a script that configures the interface. *)
(*                                                                         *)
(* Time is relative: `left' is what is left of the timeout, `elapsed' the  *)
(* seconds since the ACK of the lease that is held.  A timeout that is due *)
(* is served before the next second passes.  The network is the            *)
(* environment: any message may arrive whenever the client listens.        *)
(*                                                                         *)
(* A definition marked `Faulty' is a plausible bug of the one after it,    *)
(* used only to show that a property notices it.                           *)
(***************************************************************************)
EXTENDS Integers

CONSTANTS
    Addr,              \* addresses servers may give, non-zero
    Server,            \* addresses of the servers, non-zero
    Xid,               \* transaction identifiers random_xid may return
    LeaseTime,         \* lease times servers may grant
    Messages,          \* messages that may arrive
    Signals,           \* subset of {"USR1", "USR2", "TERM"}
    Request,           \* -r: the address to ask for, or 0
    AbortIfNoLease,    \* -n, without -b
    QuitAfterLease,    \* -q
    MaxLeft            \* bound: the longest timeout an ignored OFFER may extend

VARIABLES
    state,             \* of the protocol, or "EXITED"
    requested_ip, server_addr, xid, packet_num,
    left,              \* timeout - now
    blocked,           \* still in select() in the second in which its timeout ends
    t1, t2, lease,     \* of the last ACK, t1 and t2 as moved by the renewals
    elapsed,           \* now - start, while a lease is held
    listen_mode,
    bootp_cnt_offer,   \* OFFERs with BOOTP data ignored so far
    nvram,             \* bootp_cnt_offer as saved at exit
    ifaddr,            \* the address the script gave the interface, 0 for none
    orphan,            \* auxiliary: what SIGUSR2 during a forced renewal left there, or 0
    sent, script       \* what the last step sent, and the scripts it ran

vars == <<state, requested_ip, server_addr, xid, packet_num, left, blocked, t1, t2, lease,
          elapsed, listen_mode, bootp_cnt_offer, nvram, ifaddr, orphan, sent, script>>

timers == <<t1, t2, lease, elapsed>>
peer == <<requested_ip, server_addr, xid>>
bootp == <<bootp_cnt_offer, nvram>>

\* States in which a lease is held.
Leased == {"BOUND", "RENEWING", "REBINDING", "RENEW_REQUESTED"}

States == Leased \cup {"INIT_SELECTING", "REQUESTING", "RELEASED", "EXITED"}

\* `mine': the hardware address is ours; `bootp': the message has a server name
\* or a boot file; sid and time are 0 when the option is missing.
Message ==
    [type : {"OFFER", "ACK", "NAK"}, xid : Xid, mine : BOOLEAN, yiaddr : Addr,
     sid : Server \cup {0}, time : LeaseTime \cup {0}, bootp : BOOLEAN]

\* What the client sends; `to' is 0 for a broadcast.
Packet ==
    [type : {"DISCOVER", "REQUEST", "RELEASE"}, xid : Xid, req : Addr \cup {0},
     sid : Server \cup {0}, ciaddr : Addr \cup {0}, to : Server \cup {0}]

ASSUME ClientAssumption ==
    /\ Addr \subseteq Nat \ {0}
    /\ Server \subseteq Nat \ {0}
    /\ Xid # {}
    /\ LeaseTime \subseteq Nat \ {0}
    /\ Messages \subseteq Message
    /\ Signals \subseteq {"USR1", "USR2", "TERM"}
    /\ Request \in Addr \cup {0}
    /\ AbortIfNoLease \in BOOLEAN
    /\ QuitAfterLease \in BOOLEAN
    /\ MaxLeft \in Nat

Types ==
    /\ state \in States
    /\ requested_ip \in Addr \cup {0}
    /\ server_addr \in Server \cup {0}
    /\ xid \in Xid
    /\ packet_num \in 0 .. 3
    /\ left \in Nat
    /\ t1 \in Nat /\ t2 \in Nat /\ lease \in Nat /\ elapsed \in Nat
    /\ listen_mode \in {"NONE", "KERNEL", "RAW"}
    /\ bootp_cnt_offer \in 0 .. 1 /\ nvram \in 0 .. 1
    /\ ifaddr \in Addr \cup {0} /\ orphan \in Addr \cup {0}
    /\ sent \subseteq Packet
    /\ script \subseteq {"deconfig", "bound", "renew", "nak"}

\* Every variable has its type: in particular no timeout is ever negative, and at
\* most one OFFER with BOOTP data is counted (dhcpc.c:556).
TypeOK == Types /\ blocked \in BOOLEAN

-----------------------------------------------------------------------------
(* Packets the client sends.                                               *)

send_discover(x, r) ==
    [type |-> "DISCOVER", xid |-> x, req |-> r, sid |-> 0, ciaddr |-> 0, to |-> 0]

send_selecting(x, s, r) ==
    [type |-> "REQUEST", xid |-> x, req |-> r, sid |-> s, ciaddr |-> 0, to |-> 0]

send_renew(x, s, c) ==
    [type |-> "REQUEST", xid |-> x, req |-> 0, sid |-> 0, ciaddr |-> c, to |-> s]

\* A release has an xid of its own.
send_release(x, s, c) ==
    [type |-> "RELEASE", xid |-> x, req |-> c, sid |-> s, ciaddr |-> c, to |-> s]

\* The script configures the interface, or takes its address away; the client
\* waits for it to end.
run_bound(name, a) == script' = {name} /\ ifaddr' = a /\ orphan' = 0
run_deconfig == script' = {"deconfig"} /\ ifaddr' = 0 /\ orphan' = 0
run_nothing == script' = {} /\ UNCHANGED <<ifaddr, orphan>>

change_mode(m) == listen_mode' = m

\* Back to square one: the next loop sends a DISCOVER.
restart ==
    /\ state' = "INIT_SELECTING"
    /\ left' = 0
    /\ packet_num' = 0
    /\ change_mode("RAW")

exit_client ==
    /\ state' = "EXITED"
    /\ nvram' = bootp_cnt_offer
    /\ blocked' = FALSE

-----------------------------------------------------------------------------
(* The timeout.                                                            *)

TimedOut == left = 0 /\ blocked' = FALSE

\* Three DISCOVERs, then a minute of silence.
DiscoverTimeout ==
    /\ state = "INIT_SELECTING"
    /\ TimedOut
    /\ packet_num < 3
    /\ IF packet_num = 0 THEN xid' \in Xid ELSE xid' = xid
    /\ sent' = {send_discover(xid', requested_ip)}
    /\ left' = IF packet_num = 2 THEN 4 ELSE 2
    /\ packet_num' = packet_num + 1
    /\ run_nothing
    /\ UNCHANGED <<state, requested_ip, server_addr, listen_mode, timers, bootp>>

NoOffer ==
    /\ state = "INIT_SELECTING"
    /\ TimedOut
    /\ packet_num = 3
    /\ IF AbortIfNoLease
       THEN exit_client /\ UNCHANGED <<packet_num, left>>
       ELSE packet_num' = 0 /\ left' = 60 /\ UNCHANGED <<state, nvram>>
    /\ sent' = {}
    /\ run_nothing
    /\ UNCHANGED <<peer, listen_mode, timers, bootp_cnt_offer>>

\* Faulty: the interface keeps its address.
NoAnswerKeep ==
    /\ state \in {"RENEW_REQUESTED", "REQUESTING"}
    /\ TimedOut
    /\ packet_num = 3
    /\ run_nothing
    /\ restart
    /\ sent' = {}
    /\ UNCHANGED <<peer, timers, bootp>>

\* Three REQUESTs, of an address offered or of the lease held.
RequestTimeout ==
    /\ state \in {"RENEW_REQUESTED", "REQUESTING"}
    /\ TimedOut
    /\ packet_num < 3
    /\ sent' = {IF state = "RENEW_REQUESTED"
                THEN send_renew(xid, server_addr, requested_ip)
                ELSE send_selecting(xid, server_addr, requested_ip)}
    /\ left' = IF packet_num = 2 THEN 10 ELSE 2
    /\ packet_num' = packet_num + 1
    /\ run_nothing
    /\ UNCHANGED <<state, peer, listen_mode, timers, bootp>>

NoAnswer ==
    /\ state \in {"RENEW_REQUESTED", "REQUESTING"}
    /\ TimedOut
    /\ packet_num = 3
    /\ IF state = "RENEW_REQUESTED" THEN run_deconfig ELSE run_nothing
    /\ restart
    /\ sent' = {}
    /\ UNCHANGED <<peer, timers, bootp>>

\* The time below which a renewal is not tried again.
slack == lease \div 14400 + 1

\* Faulty: T2 is counted from now instead of from the beginning of the lease.
RebindTooLate ==
    /\ state \in {"BOUND", "RENEWING"}
    /\ TimedOut
    /\ change_mode("KERNEL")
    /\ IF t2 - t1 <= slack
       THEN state' = "REBINDING" /\ left' = t2 /\ sent' = {} /\ t1' = t1
       ELSE /\ state' = "RENEWING"
            /\ sent' = {send_renew(xid, server_addr, requested_ip)}
            /\ t1' = (t2 - t1) \div 2 + t1
            /\ left' = t1' - elapsed
    /\ run_nothing
    /\ UNCHANGED <<peer, packet_num, t2, lease, elapsed, bootp>>

\* Faulty: a client whose T1 is over broadcasts at once.
RenewNever ==
    /\ state \in {"BOUND", "RENEWING"}
    /\ TimedOut
    /\ change_mode("KERNEL")
    /\ state' = "REBINDING" /\ left' = t2 - t1 /\ sent' = {} /\ t1' = t1
    /\ run_nothing
    /\ UNCHANGED <<peer, packet_num, t2, lease, elapsed, bootp>>

\* T1 is over: BOUND falls through to RENEWING.
RenewTimeout ==
    /\ state \in {"BOUND", "RENEWING"}
    /\ TimedOut
    /\ change_mode("KERNEL")
    /\ IF t2 - t1 <= slack
       THEN state' = "REBINDING" /\ left' = t2 - t1 /\ sent' = {} /\ t1' = t1
       ELSE /\ state' = "RENEWING"
            /\ sent' = {send_renew(xid, server_addr, requested_ip)}
            /\ t1' = (t2 - t1) \div 2 + t1
            /\ left' = t1' - elapsed
    /\ run_nothing
    /\ UNCHANGED <<peer, packet_num, t2, lease, elapsed, bootp>>

\* Faulty: the lease is given up at T2, and no REQUEST is broadcast.
RebindNever ==
    /\ state = "REBINDING"
    /\ TimedOut
    /\ restart /\ run_deconfig /\ sent' = {}
    /\ UNCHANGED <<peer, timers, bootp>>

\* Faulty: the last second is never reached, its half being none.
RebindAgain ==
    /\ state = "REBINDING"
    /\ TimedOut
    /\ IF lease - t2 < slack
       THEN restart /\ run_deconfig /\ sent' = {} /\ t2' = t2
       ELSE /\ sent' = {send_renew(xid, 0, requested_ip)}
            /\ t2' = (lease - t2) \div 2 + t2
            /\ left' = t2' - elapsed
            /\ run_nothing
            /\ UNCHANGED <<state, packet_num, listen_mode>>
    /\ UNCHANGED <<peer, t1, lease, elapsed, bootp>>

\* T2 is over: renewals are broadcast, and in the end the lease is lost.
RebindTimeout ==
    /\ state = "REBINDING"
    /\ TimedOut
    /\ IF lease - t2 <= slack
       THEN restart /\ run_deconfig /\ sent' = {} /\ t2' = t2
       ELSE /\ sent' = {send_renew(xid, 0, requested_ip)}
            /\ t2' = (lease - t2) \div 2 + t2
            /\ left' = t2' - elapsed
            /\ run_nothing
            /\ UNCHANGED <<state, packet_num, listen_mode>>
    /\ UNCHANGED <<peer, t1, lease, elapsed, bootp>>

Timeout == DiscoverTimeout \/ NoOffer \/ RequestTimeout \/ NoAnswer \/ RenewTimeout
           \/ RebindTimeout

-----------------------------------------------------------------------------
(* Packets.                                                                *)

\* select() waits while there is time left and returns for a packet that came
\* in the second in which the timeout ends.
Waiting ==
    /\ state # "EXITED"
    /\ left > 0 \/ blocked
    /\ blocked' = FALSE

Heard(m) == Waiting /\ listen_mode # "NONE" /\ m.xid = xid

\* The first OFFER with BOOTP data is ignored.
BootpOffer(m) == m.bootp /\ bootp_cnt_offer + 1 < 2

\* Faulty: the count starts over with every OFFER.
IgnoreUncounted(m) ==
    /\ state = "INIT_SELECTING"
    /\ Heard(m)
    /\ m.type = "OFFER" /\ m.mine
    /\ BootpOffer(m)
    /\ left + 2 <= MaxLeft
    /\ bootp_cnt_offer' = 0
    /\ left' = left + 2
    /\ sent' = {}
    /\ run_nothing
    /\ UNCHANGED <<state, peer, packet_num, listen_mode, timers, nvram>>

IgnoreOffer(m) ==
    /\ state = "INIT_SELECTING"
    /\ Heard(m)
    /\ m.type = "OFFER" /\ m.mine
    /\ BootpOffer(m)
    /\ left + 2 <= MaxLeft
    /\ bootp_cnt_offer' = bootp_cnt_offer + 1
    /\ left' = left + 2
    /\ sent' = {}
    /\ run_nothing
    /\ UNCHANGED <<state, peer, packet_num, listen_mode, timers, nvram>>

\* Any other is taken, if it names its server.
TakeOffer(m) ==
    /\ state = "INIT_SELECTING"
    /\ Heard(m)
    /\ m.type = "OFFER" /\ m.mine
    /\ ~BootpOffer(m)
    /\ bootp_cnt_offer' = 0
    /\ IF m.sid # 0
       THEN /\ state' = "REQUESTING"
            /\ server_addr' = m.sid
            /\ requested_ip' = m.yiaddr
            /\ left' = 0
            /\ packet_num' = 0
       ELSE UNCHANGED <<state, server_addr, requested_ip, left, packet_num>>
    /\ sent' = {}
    /\ run_nothing
    /\ UNCHANGED <<xid, listen_mode, timers, nvram>>

Asking == {"RENEW_REQUESTED", "REQUESTING", "RENEWING", "REBINDING"}

\* One hour, when the ACK names no lease time.
DefaultLease == 60 * 60

\* Faulty: the address of the ACK goes to the interface only.
AckOfOther(m) ==
    /\ state \in Asking
    /\ Heard(m)
    /\ m.type = "ACK" /\ m.mine
    /\ lease' = IF m.time = 0 THEN DefaultLease ELSE m.time
    /\ t1' = lease' \div 2
    /\ t2' = (lease' * 7) \div 8
    /\ elapsed' = 0
    /\ left' = t1'
    /\ run_bound(IF state \in {"RENEWING", "REBINDING"} THEN "renew" ELSE "bound", m.yiaddr)
    /\ change_mode("NONE")
    /\ IF QuitAfterLease THEN exit_client ELSE state' = "BOUND" /\ nvram' = nvram
    /\ sent' = {}
    /\ UNCHANGED <<peer, packet_num, bootp_cnt_offer>>

\* Whatever address it carries, an ACK binds the client to it.
RecvAck(m) ==
    /\ state \in Asking
    /\ Heard(m)
    /\ m.type = "ACK" /\ m.mine
    /\ lease' = IF m.time = 0 THEN DefaultLease ELSE m.time
    /\ t1' = lease' \div 2
    /\ t2' = (lease' * 7) \div 8
    /\ elapsed' = 0
    /\ left' = t1'
    /\ requested_ip' = m.yiaddr
    /\ run_bound(IF state \in {"RENEWING", "REBINDING"} THEN "renew" ELSE "bound", m.yiaddr)
    /\ change_mode("NONE")
    /\ IF QuitAfterLease THEN exit_client ELSE state' = "BOUND" /\ nvram' = nvram
    /\ sent' = {}
    /\ UNCHANGED <<server_addr, xid, packet_num, bootp_cnt_offer>>

\* The hardware address of a NAK is not looked at.
RecvNak(m) ==
    /\ state \in Asking
    /\ Heard(m)
    /\ m.type = "NAK"
    /\ IF state # "REQUESTING"
       THEN script' = {"nak", "deconfig"} /\ ifaddr' = 0 /\ orphan' = 0
       ELSE script' = {"nak"} /\ UNCHANGED <<ifaddr, orphan>>
    /\ restart
    /\ requested_ip' = 0
    /\ sent' = {}
    /\ UNCHANGED <<server_addr, xid, timers, bootp>>

Ignored(m) ==
    \/ m.xid # xid
    \/ m.type # "NAK" /\ ~m.mine
    \/ state = "INIT_SELECTING" /\ m.type # "OFFER"
    \/ state \in Asking /\ m.type = "OFFER"

\* Any other packet only makes the loop look at its timeout again.
RecvOther(m) ==
    /\ Waiting
    /\ listen_mode # "NONE"
    /\ Ignored(m)
    /\ sent' = {}
    /\ run_nothing
    /\ UNCHANGED <<state, peer, packet_num, left, listen_mode, timers, bootp>>

Recv(m) == IgnoreOffer(m) \/ TakeOffer(m) \/ RecvAck(m) \/ RecvNak(m) \/ RecvOther(m)

-----------------------------------------------------------------------------
(* Signals, the end of the process and its start.                          *)

\* Faulty: a renewal asked for while nothing is listened to.
RenewDeaf ==
    /\ Waiting
    /\ "USR1" \in Signals
    /\ CASE state \in {"BOUND", "RENEWING", "REBINDING"} ->
              state' = "RENEW_REQUESTED" /\ run_nothing /\ UNCHANGED listen_mode
         [] state = "RENEW_REQUESTED" ->
              state' = "INIT_SELECTING" /\ run_deconfig /\ change_mode("RAW")
         [] state \in {"REQUESTING", "RELEASED"} ->
              state' = "INIT_SELECTING" /\ run_nothing /\ change_mode("RAW")
         [] state = "INIT_SELECTING" -> run_nothing /\ UNCHANGED <<state, listen_mode>>
    /\ packet_num' = 0
    /\ left' = 0
    /\ sent' = {}
    /\ UNCHANGED <<peer, timers, bootp>>

\* SIGUSR1.  REBINDING and RENEWING already listen in kernel mode.
perform_renew ==
    /\ Waiting
    /\ "USR1" \in Signals
    /\ CASE state \in {"BOUND", "RENEWING", "REBINDING"} ->
              /\ state' = "RENEW_REQUESTED"
              /\ IF state = "BOUND" THEN change_mode("KERNEL") ELSE UNCHANGED listen_mode
              /\ run_nothing
         [] state = "RENEW_REQUESTED" ->
              state' = "INIT_SELECTING" /\ run_deconfig /\ change_mode("RAW")
         [] state \in {"REQUESTING", "RELEASED"} ->
              state' = "INIT_SELECTING" /\ run_nothing /\ change_mode("RAW")
         [] state = "INIT_SELECTING" -> run_nothing /\ UNCHANGED <<state, listen_mode>>
    /\ packet_num' = 0
    /\ left' = 0
    /\ sent' = {}
    /\ UNCHANGED <<peer, timers, bootp>>

\* The timeout of RELEASED: 68 years, which do not pass.
Forever == 2147483647

\* SIGUSR2.  A renewal that SIGUSR1 has forced is none of the states that hold a lease.
perform_release ==
    /\ Waiting
    /\ "USR2" \in Signals
    /\ IF state \in {"BOUND", "RENEWING", "REBINDING"}
       THEN (\E x \in Xid : sent' = {send_release(x, server_addr, requested_ip)}) /\ run_deconfig
       ELSE /\ sent' = {} /\ script' = {} /\ ifaddr' = ifaddr
            /\ orphan' = IF state = "RENEW_REQUESTED" THEN ifaddr ELSE orphan
    /\ change_mode("NONE")
    /\ state' = "RELEASED"
    /\ left' = Forever
    /\ UNCHANGED <<peer, packet_num, timers, bootp>>

\* SIGTERM, or a socket that cannot be opened again after an error.
Stop ==
    /\ Waiting
    /\ "TERM" \in Signals \/ listen_mode # "NONE"
    /\ exit_client
    /\ sent' = {}
    /\ run_nothing
    /\ UNCHANGED <<peer, packet_num, left, listen_mode, timers, bootp_cnt_offer>>

\* main() up to its loop; xid is only used once the first DISCOVER has set it.
Start ==
    /\ state = "EXITED"
    /\ state' = "INIT_SELECTING"
    /\ requested_ip' = Request /\ server_addr' = 0 /\ xid' = xid
    /\ packet_num' = 0 /\ left' = 0 /\ blocked' = FALSE
    /\ t1' = 0 /\ t2' = 0 /\ lease' = 0 /\ elapsed' = 0
    /\ change_mode("RAW")
    /\ bootp_cnt_offer' = nvram /\ nvram' = nvram
    /\ sent' = {}
    /\ run_deconfig

Tick ==
    /\ state \notin {"RELEASED", "EXITED"}
    /\ left > 0
    /\ left' = left - 1
    /\ blocked' = (left = 1)
    /\ elapsed' = IF state \in Leased THEN elapsed + 1 ELSE elapsed
    /\ sent' = {}
    /\ run_nothing
    /\ UNCHANGED <<state, peer, packet_num, t1, t2, lease, listen_mode, bootp>>

-----------------------------------------------------------------------------
\* Before the client is started; the interface has no address.
Init ==
    /\ state = "EXITED"
    /\ requested_ip = 0 /\ server_addr = 0 /\ xid \in Xid
    /\ packet_num = 0 /\ left = 0 /\ blocked = FALSE
    /\ t1 = 0 /\ t2 = 0 /\ lease = 0 /\ elapsed = 0
    /\ listen_mode = "NONE"
    /\ bootp_cnt_offer = 0 /\ nvram = 0
    /\ ifaddr = 0 /\ orphan = 0
    /\ sent = {} /\ script = {}

Next ==
    \/ Timeout
    \/ \E m \in Messages : Recv(m)
    \/ perform_renew
    \/ perform_release
    \/ Stop
    \/ Start
    \/ Tick

Spec == Init /\ [][Next]_vars

-----------------------------------------------------------------------------
(* Properties.                                                             *)

\* A client that waits for an answer listens where the answer will come: on the
\* raw socket while the interface has no lease, on the kernel's while it has one;
\* a client that waits for none has no socket open (change_mode, dhcpc.c:111).
ListenMatchesState ==
    listen_mode = CASE state \in {"INIT_SELECTING", "REQUESTING"} -> "RAW"
                    [] state \in {"RENEWING", "REBINDING", "RENEW_REQUESTED"} -> "KERNEL"
                    [] state \in {"BOUND", "RELEASED"} -> "NONE"
                    [] state = "EXITED" -> listen_mode

\* The sum of the timeouts of the three REQUESTs of a forced renewal.
Patience == 2 + 2 + 10

\* The address is given back before its lease is over, whatever renewals were
\* tried (dhcpc.c:468-501); a renewal forced by SIGUSR1 gives up T1 and T2, and
\* may hold the address for less than Patience longer.
HeldWhileValid ==
    /\ state \in {"BOUND", "RENEWING", "REBINDING"} => elapsed < lease
    /\ state = "RENEW_REQUESTED" => elapsed < lease + Patience

\* While a lease is held the interface has the address that the renewals ask for.
ConfiguredAsLeased == state \in Leased => ifaddr = requested_ip

\* Without a lease the interface has no address: "deconfig: This argument is used
\* when udhcpc starts, and when a leases is lost" (README.udhcpc:42-43).  The one
\* exception is SIGUSR2 during a renewal that SIGUSR1 has forced (dhcpc.c:175), which
\* runs no script: that address stays, and no other, until the next script.
UnleasedIsDeconfigured ==
    state \in {"INIT_SELECTING", "REQUESTING", "RELEASED"} => ifaddr = orphan

\* A lease that no NAK and no signal took away is given up only when what is left
\* of it is too short for another REQUEST (dhcpc.c:486-488).
LostOnlyAtEnd ==
    [][(/\ state \in {"BOUND", "RENEWING", "REBINDING"}
        /\ state' = "INIT_SELECTING"
        /\ script' = {"deconfig"}) => (lease - elapsed <= slack)]_vars

\* The shortest lease with a second between T1 and T2 to ask in.
RenewableLease == 5

\* Such a lease is never lost without the client having asked the server that
\* granted it to renew it: T1 is past the half (dhcpc.c:472-484).
RenewalTried ==
    [][(state = "REBINDING" /\ state' = "INIT_SELECTING" /\ lease >= RenewableLease)
          => (t1 > lease \div 2)]_vars

-----------------------------------------------------------------------------
(* Liveness.                                                               *)

\* The process is scheduled and time passes; a network that keeps answering
\* does not lose every answer.
FairSpec ==
    /\ Spec
    /\ WF_vars(Timeout) /\ WF_vars(Tick)
    /\ SF_vars(\E m \in Messages : IgnoreOffer(m) \/ TakeOffer(m))
    /\ SF_vars(\E m \in Messages : RecvAck(m))

\* A lease is renewed, given back or lost: no chain of ever shorter waits keeps
\* the client at an address for ever.
LeaseEnds == (state \in Leased /\ elapsed > 0) ~> (state \notin Leased \/ elapsed = 0)

\* A client without a lease gets one from a network that keeps answering, also
\* when every OFFER carries BOOTP data, unless it is stopped.
EventuallyBound == (state = "INIT_SELECTING") ~> (state \in {"BOUND", "EXITED", "RELEASED"})
=============================================================================
