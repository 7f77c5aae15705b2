----------------------------- MODULE IgmpProxy -----------------------------
(***************************************************************************)
(* The IGMP proxy (igmp/igmprt.c, igmpv2.c) and the hosts of the LAN.      *)
(*                                                                         *)
(* The proxy is one process.  A pass of its loop serves the timers of the  *)
(* downstream interfaces, sleeps for a second, and then reads at most one  *)
(* packet: Timer, what hosts and other routers do in that second, and one  *)
(* of the Recv actions.  Every downstream socket is a raw socket and gets  *)
(* the packets of all interfaces, so that the queues are one, inbox.       *)
(*                                                                         *)
(* Hosts follow the protocol: they report a group when they join it and    *)
(* when they hear a query, unless another host does, and say when they     *)
(* leave.  Packets are lost.                                               *)
(*                                                                         *)
(* A definition marked `Faulty' is a plausible bug of the one after it.    *)
(***************************************************************************)
EXTENDS Integers, Sequences, FiniteSets

CONSTANTS
    Down, Up,         \* downstream interfaces ("br*") and the others
    Main,             \* upstream_interface[0]
    Host, home,       \* hosts, and the interface each is on
    Group,            \* multicast groups other than those VALID_ADDR excludes
    QI, QRI, RV,      \* IGMP_DEF_QI, IGMP_DEF_QRI, IGMP_DEF_RV
    Response,         \* seconds hosts take to answer: a query asks for QRI / 10
    MaxMemberships,   \* memberships a socket may have
    Rivals,           \* downstream interfaces with another multicast router
    Signals,          \* BOOLEAN: the process is stopped and started again
    MaxInbox,         \* packets the socket buffer holds
    MaxCopies         \* bound: copies of a rule that restarts leave behind

ASSUME IgmpAssumption ==
    /\ IsFiniteSet(Down) /\ IsFiniteSet(Up) /\ IsFiniteSet(Host)
    /\ Main \in Up
    /\ home \in [Host -> Down]
    /\ {QI, RV, Response} \subseteq Nat \ {0}
    /\ QRI \in Nat /\ Response <= QRI /\ Response <= QI
    /\ MaxMemberships \in Nat
    /\ Rivals \subseteq Down
    /\ Signals \in BOOLEAN
    /\ MaxInbox \in Nat \ {0}
    /\ MaxCopies \in Nat

VARIABLES
    phase,       \* of the loop: "timer" before igmprt_timer, "sleep" after it
    timer,       \* igmpg_timer of a group on an interface; 0: no such group
    members,     \* igmpg_members of a group on an interface
    isquerier, ti_qi, oqp,   \* of an interface
    joined,      \* memberships <<interface, group>> of igmprt_up_socket
    rules,       \* copies of the FORWARD rule for an interface and a group
    inbox,       \* packets that wait in the socket buffers
    wants,       \* pairs <<host, group>>
    due,         \* seconds within which a host answers a query; 0: none
    silence,     \* auxiliary: passes without a query on an interface
    unanswered,  \* auxiliary: queries since a report for a group was queued
    refused,     \* auxiliary: memberships <<interface, group>> the kernel refused
    left,        \* auxiliary: copies of the rule that earlier processes left
    steady       \* auxiliary: see SteadyServed

table == <<timer, members, joined, rules, refused>>
querier == <<isquerier, ti_qi, oqp>>
lan == <<wants, due, silence, unanswered>>
vars == <<phase, table, querier, inbox, lan, left, steady>>

IGMP_GMI == RV * QI + QRI

IGMP_OQPI == RV * QI + QRI \div 2

present(d, g) == timer[d][g] > 0

-----------------------------------------------------------------------------
(* The hosts of the LAN and the packets between them and the proxy.        *)

Full == Len(inbox) >= MaxInbox

Queue(p) == inbox' = IF Full THEN inbox ELSE Append(inbox, p)

\* What hosts do when there is a query on the interfaces in D.
Hear(D, d2) ==
    /\ d2 \in [Host \X Group -> 0 .. Response]
    /\ \A x \in Host \X Group :
         IF x \in wants /\ home[x[1]] \in D /\ due[x] = 0 THEN d2[x] > 0 ELSE d2[x] = due[x]

More(n) == IF n > RV THEN n ELSE n + 1

\* queries not answered, once there has been one on the interfaces in D
Unanswered(D) ==
    [d \in Down |-> [g \in Group |-> IF d \in D THEN More(unanswered[d][g]) ELSE unanswered[d][g]]]

\* A host reports a group; the packet is queued or lost.
Report(h, g, lost) ==
    IF lost \/ Full THEN UNCHANGED <<inbox, unanswered>>
    ELSE /\ Queue([type |-> "report", host |-> h, group |-> g])
         /\ unanswered' = [unanswered EXCEPT ![home[h]][g] = 0]

Join(h, g) ==
    /\ phase = "sleep"
    /\ <<h, g>> \notin wants
    /\ wants' = wants \cup {<<h, g>>}
    /\ \E lost \in BOOLEAN : Report(h, g, lost)
    /\ UNCHANGED <<phase, table, querier, due, silence, left, steady>>

\* An answer is lost only if the answers to RV - 1 queries are not.  Hosts that
\* hear it give none themselves.
Answer(h, g) ==
    /\ phase = "sleep"
    /\ due[<<h, g>>] > 0
    /\ \E lost \in BOOLEAN, deaf \in SUBSET (Host \ {h}) :
        /\ lost => unanswered[home[h]][g] < RV
        /\ Report(h, g, lost)
        /\ due' = [x \in Host \X Group |->
                     IF x[2] = g /\ home[x[1]] = home[h] /\ x[1] \notin deaf THEN 0 ELSE due[x]]
        /\ steady' = IF Full THEN {} ELSE steady
    /\ UNCHANGED <<phase, table, querier, wants, silence, left>>

Leave(h, g) ==
    /\ phase = "sleep"
    /\ <<h, g>> \in wants
    /\ wants' = wants \ {<<h, g>>}
    /\ due' = [due EXCEPT ![<<h, g>>] = 0]
    /\ \/ Queue([type |-> "leave", host |-> h, group |-> g])
       \/ UNCHANGED inbox
    /\ steady' = steady \ {<<h, g>>}
    /\ UNCHANGED <<phase, table, querier, silence, unanswered, left>>

\* Another router asks; its address may be lower than the proxy's.
RivalQuery(d, lower) ==
    /\ phase = "sleep"
    /\ silence[d] > 0
    /\ Queue([type |-> "query", down |-> d, lower |-> lower])
    /\ \E d2 \in [Host \X Group -> 0 .. Response] : Hear({d}, d2) /\ due' = d2
    /\ silence' = [silence EXCEPT ![d] = 0]
    /\ unanswered' = Unanswered({d})
    /\ UNCHANGED <<phase, table, querier, wants, left, steady>>

\* The second is over: who had to answer within it has done so.
Second ==
    /\ \A x \in Host \X Group : due[x] # 1
    /\ due' = [x \in Host \X Group |-> IF due[x] = 0 THEN 0 ELSE due[x] - 1]

-----------------------------------------------------------------------------
(* The table of groups.                                                    *)

\* Faulty: the rule of a group is left where it is.
keep_rules(R) == rules

\* igmp_group_cleanup: one iptables -D for every group of an interface in R,
\* always for upstream_interface[0].
delete_rules(R) ==
    [u \in Up |-> [g \in Group |->
        LET n == Cardinality({d \in Down : <<d, g>> \in R})
        IN  IF u # Main THEN rules[u][g] ELSE IF rules[u][g] < n THEN 0 ELSE rules[u][g] - n]]

\* The groups in R are gone: the rules are deleted, and the memberships dropped
\* on every upstream interface.
Cleanup(R) ==
    /\ members' = [d \in Down |-> [g \in Group |-> IF <<d, g>> \in R THEN {} ELSE members[d][g]]]
    /\ rules' = delete_rules(R)
    /\ joined' = {x \in joined : \A d \in Down : <<d, x[2]>> \notin R}
    /\ refused' = {x \in refused : \A d \in Down : <<d, x[2]>> \notin R}

\* setsockopt IP_ADD_MEMBERSHIP for the pairs in J, until the socket has all it
\* may have; that it fails is not noticed.
IP_ADD_MEMBERSHIP(J) ==
    \E A \in SUBSET (J \ joined) :
        /\ Cardinality(joined \cup A) <= MaxMemberships \/ A = {}
        /\ A = J \ joined \/ Cardinality(joined \cup A) >= MaxMemberships
        /\ joined' = joined \cup A
        /\ refused' = refused \cup ((J \ joined) \ A)

\* Faulty: a member on upstream_interface[0] only, as with the deletion of rules.
group_add_main(d, g) ==
    IF present(d, g) THEN UNCHANGED <<joined, rules, refused>>
    ELSE /\ IP_ADD_MEMBERSHIP({<<Main, g>>})
         /\ rules' = [u \in Up |-> [rules[u] EXCEPT ![g] = IF u = Main THEN @ + 1 ELSE 1]]

\* igmp_interface_group_add: a rule for every upstream interface.  (Copies that
\* are never deleted are counted once.)
igmp_interface_group_add(d, g) ==
    IF present(d, g) THEN UNCHANGED <<joined, rules, refused>>
    ELSE /\ IP_ADD_MEMBERSHIP({<<u, g>> : u \in Up})
         /\ rules' = [u \in Up |-> [rules[u] EXCEPT ![g] = IF u = Main THEN @ + 1 ELSE 1]]

-----------------------------------------------------------------------------
(* The loop of the proxy.                                                  *)

\* Faulty: does not take over.
timer_querier_idle(d) == FALSE

\* igmprt_timer_querier: nobody has asked for IGMP_OQPI seconds.
igmprt_timer_querier(d) == oqp[d] <= 1

Asks == {d \in Down : isquerier[d] /\ ti_qi[d] <= 1}

\* Faulty: a duty of the querier only.
countdown_querier(d, g) ==
    IF present(d, g) /\ isquerier[d] THEN timer[d][g] - 1 ELSE timer[d][g]

\* igmprt_timer_group
countdown(d, g) == IF present(d, g) THEN timer[d][g] - 1 ELSE 0

Expired == {x \in Down \X Group : present(x[1], x[2]) /\ countdown(x[1], x[2]) = 0}

Timer ==
    /\ phase = "timer"
    /\ phase' = "sleep"
    /\ ti_qi' = [d \in Down |-> IF ~isquerier[d] THEN ti_qi[d]
                               ELSE IF d \in Asks THEN QI ELSE ti_qi[d] - 1]
    /\ oqp' = [d \in Down |-> IF isquerier[d] \/ oqp[d] = 0 THEN oqp[d] ELSE oqp[d] - 1]
    /\ isquerier' = [d \in Down |-> isquerier[d] \/ igmprt_timer_querier(d)]
    /\ timer' = [d \in Down |-> [g \in Group |-> countdown(d, g)]]
    /\ Cleanup(Expired)
    /\ \E d2 \in [Host \X Group -> 0 .. Response] : Hear(Asks, d2) /\ due' = d2
    /\ silence' = [d \in Down |-> IF d \in Asks THEN 0 ELSE silence[d] + 1]
    /\ unanswered' = Unanswered(Asks)
    /\ steady' = {x \in steady : silence'[home[x[1]]] <= QI}
    /\ UNCHANGED <<inbox, wants, left>>

\* More packets wait than there is time to read them in.
Crowded == Len(inbox) > 1 + QRI - Response

\* igmprt_input_thread looks once, without waiting.
Recv ==
    /\ phase = "sleep"
    /\ phase' = "timer"
    /\ Second

RecvNothing ==
    /\ Recv
    /\ inbox = <<>>
    /\ UNCHANGED <<table, querier, inbox, wants, silence, unanswered, left, steady>>

\* a leave of the host still waits
Leaving(x) == \E i \in DOMAIN inbox : inbox[i] = [type |-> "leave", host |-> x[1], group |-> x[2]]

RecvReport ==
    LET p == Head(inbox)
        d == home[p.host]
    IN  /\ Recv
        /\ inbox # <<>>
        /\ p.type = "report"
        /\ inbox' = Tail(inbox)
        /\ igmp_interface_group_add(d, p.group)
        /\ members' = [members EXCEPT ![d][p.group] = @ \cup {p.host}]
        /\ timer' = [timer EXCEPT ![d][p.group] = IGMP_GMI]
        /\ steady' = IF Crowded THEN {}
                     ELSE steady \cup {x \in wants : x = <<p.host, p.group>> /\ ~Leaving(x)}
        /\ UNCHANGED <<querier, wants, silence, unanswered, left>>

\* Faulty: the group goes with whoever leaves.
last_any(h, g) == {x \in Down \X {g} : present(x[1], g)}

\* Groups of an interface without a member that is known but h.
last_member(h, g) == {x \in Down \X {g} : present(x[1], g) /\ members[x[1]][g] \subseteq {h}}

RecvLeave ==
    LET p == Head(inbox)
        R == last_member(p.host, p.group)
        other == [d \in Down |-> [members[d] EXCEPT ![p.group] = @ \ {p.host}]]
    IN  /\ Recv
        /\ inbox # <<>>
        /\ p.type = "leave"
        /\ inbox' = Tail(inbox)
        /\ timer' = [d \in Down |-> [g \in Group |-> IF <<d, g>> \in R THEN 0 ELSE timer[d][g]]]
        /\ IF R = {} THEN members' = other /\ UNCHANGED <<rules, joined, refused>>
           ELSE /\ rules' = delete_rules(R)
                /\ joined' = {x \in joined : x[2] # p.group}
                /\ refused' = {x \in refused : x[2] # p.group}
                /\ members' = [d \in Down |-> [other[d] EXCEPT ![p.group] = IF <<d, p.group>> \in R THEN {} ELSE @]]
        /\ steady' = IF Crowded THEN {} ELSE steady
        /\ UNCHANGED <<querier, wants, silence, unanswered, left>>

\* receive_membership_query: an address lower than ours takes over.
RecvQuery ==
    LET p == Head(inbox)
    IN  /\ Recv
        /\ inbox # <<>>
        /\ p.type = "query"
        /\ inbox' = Tail(inbox)
        /\ oqp' = IF p.lower THEN [oqp EXCEPT ![p.down] = IGMP_OQPI] ELSE oqp
        /\ isquerier' = IF p.lower THEN [isquerier EXCEPT ![p.down] = FALSE] ELSE isquerier
        /\ steady' = IF Crowded THEN {} ELSE steady
        /\ UNCHANGED <<table, ti_qi, wants, silence, unanswered, left>>

\* done, and the start of the next process: the kernel forgets the memberships
\* of the socket, nobody deletes the rules.
Restart ==
    /\ Signals
    /\ phase = "sleep"
    /\ \A g \in Group : rules[Main][g] <= MaxCopies
    /\ phase' = "timer"
    /\ timer' = [d \in Down |-> [g \in Group |-> 0]]
    /\ members' = [d \in Down |-> [g \in Group |-> {}]]
    /\ isquerier' = [d \in Down |-> TRUE]
    /\ ti_qi' = [d \in Down |-> 0]
    /\ joined' = {}
    /\ refused' = {}
    /\ inbox' = <<>>
    /\ left' = rules[Main]
    /\ steady' = {}
    /\ UNCHANGED <<oqp, rules, lan>>

-----------------------------------------------------------------------------
Init ==
    /\ phase = "timer"
    /\ timer = [d \in Down |-> [g \in Group |-> 0]]
    /\ members = [d \in Down |-> [g \in Group |-> {}]]
    /\ isquerier = [d \in Down |-> TRUE]
    /\ ti_qi = [d \in Down |-> 0]
    /\ oqp = [d \in Down |-> 0]
    /\ joined = {}
    /\ rules = [u \in Up |-> [g \in Group |-> 0]]
    /\ refused = {}
    /\ inbox = <<>>
    /\ wants = {}
    /\ due = [x \in Host \X Group |-> 0]
    /\ silence = [d \in Down |-> 0]
    /\ unanswered = [d \in Down |-> [g \in Group |-> 0]]
    /\ left = [g \in Group |-> 0]
    /\ steady = {}

Next ==
    \/ Timer
    \/ RecvNothing \/ RecvReport \/ RecvLeave \/ RecvQuery
    \/ \E h \in Host, g \in Group : Join(h, g) \/ Answer(h, g) \/ Leave(h, g)
    \/ \E d \in Rivals, lower \in BOOLEAN : RivalQuery(d, lower)
    \/ Restart

Spec == Init /\ [][Next]_vars

-----------------------------------------------------------------------------
Packet ==
    [type : {"report", "leave"}, host : Host, group : Group]
    \cup [type : {"query"}, down : Down, lower : BOOLEAN]

\* Every variable has its type.
TypeOK ==
    /\ phase \in {"timer", "sleep"}
    /\ timer \in [Down -> [Group -> 0 .. IGMP_GMI]]
    /\ members \in [Down -> [Group -> SUBSET Host]]
    /\ isquerier \in [Down -> BOOLEAN]
    /\ ti_qi \in [Down -> 0 .. QI]
    /\ oqp \in [Down -> 0 .. IGMP_OQPI]
    /\ joined \subseteq Up \X Group
    /\ rules \in [Up -> [Group -> Nat]]
    /\ refused \subseteq Up \X Group
    /\ inbox \in Seq(Packet) /\ Len(inbox) <= MaxInbox
    /\ wants \subseteq Host \X Group
    /\ due \in [Host \X Group -> 0 .. Response]
    /\ silence \in [Down -> Nat]
    /\ unanswered \in [Down -> [Group -> 0 .. RV + 1]]
    /\ left \in [Group -> Nat]
    /\ steady \subseteq Host \X Group

\* A host whose report has been read keeps its group although up to RV - 1 answers
\* in a row are lost, others suppress its own and others leave, as long as there is
\* a query every QI seconds, from whomever, and no more packets wait than the
\* slack in IGMP_GMI allows: the one packet a second that the loop reads
\* (igmprt.c:1074) is enough to beat the timer of the group (igmpv2.c:211).
SteadyServed == \A x \in steady : present(home[x[1]], x[2])

\* However routers with lower addresses come and go, there is a query on every
\* interface at least every IGMP_OQPI + QI seconds, and as many more as packets can
\* wait before a query: it makes the proxy stand back later than it was sent, and
\* once it takes over again it waits for what was left of its own interval
\* (igmprt.c:916, igmpv2.c:196, 551).
QueriesKeepComing == \A d \in Down : silence[d] < IGMP_OQPI + QI + MaxInbox

\* iptables has one copy of the rule of upstream_interface[0] for every interface
\* that has the group, and those that earlier processes left, through expiries,
\* leaves of members of several interfaces and restarts (igmprt.c:323, 555).
RulesFollowGroups ==
    \A g \in Group : rules[Main][g] = left[g] + Cardinality({d \in Down : present(d, g)})

\* The kernel is a member of no group that no interface has; with one downstream
\* interface it is a member of every group that has been added, on every upstream
\* interface but those on which it refused when the group was added: that is not
\* noticed, and not tried again (igmprt.c:588, 678, igmpv2.c:239).
MembershipFollowsGroups ==
    /\ \A x \in joined : \E d \in Down : present(d, x[2])
    /\ (\A d, e \in Down : d = e) =>
         \A d \in Down, u \in Up, g \in Group : present(d, g) => <<u, g>> \in joined \cup refused

Wanted(g) == \E h \in Host : <<h, g>> \in wants

\* The loop runs, and hosts answer in time.
FairSpec == Spec /\ WF_vars(Timer) /\ WF_vars(RecvNothing \/ RecvReport \/ RecvLeave \/ RecvQuery)
                 /\ WF_vars(\E h \in Host, g \in Group : Answer(h, g))

\* A group that nobody wants any more is deleted in the end, although leaves are
\* lost and reports of those who have left still wait (igmpv2.c:211).
UnwantedDropped ==
    \A d \in Down, g \in Group : (present(d, g) /\ ~Wanted(g)) ~> (~present(d, g) \/ Wanted(g))
=============================================================================
