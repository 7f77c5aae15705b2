-------------------------- MODULE IgmpProxyProofs --------------------------
(***************************************************************************)
(* Theorems about IgmpProxy for every set of interfaces, hosts and groups  *)
(* and all intervals.                                                      *)
(*                                                                         *)
(* QueriesKeepComing speaks of queries that have been sent.  The induction *)
(* needs to know how long ago the queries that still wait in the buffer    *)
(* were sent (Waiting), because they make the proxy stand back when they   *)
(* are read, and what the timers of an interface still allow (Pending).    *)
(*                                                                         *)
(* SteadyServed speaks of the timer of a group.  The induction needs what  *)
(* the timer has to outlast: the reports that wait, the answers that may   *)
(* still be lost and the querier's intervals (Steady).                     *)
(***************************************************************************)
EXTENDS IgmpProxy, FiniteSetTheorems, TLAPS

\* Every packet before a query costs a second, and so does the second that has
\* begun when the timers are yet to be served.
Waiting ==
    \A d \in Down : \A i \in DOMAIN inbox :
        inbox[i].type = "query" /\ inbox[i].down = d =>
            silence[d] + i <= IF phase = "timer" THEN MaxInbox - 1 ELSE MaxInbox

\* Silence so far and what is left of the timer that will end it.
Pending ==
    \A d \in Down :
        IF isquerier[d] THEN silence[d] + ti_qi[d] < IGMP_OQPI + QI + MaxInbox
        ELSE oqp[d] > 0 /\ silence[d] + oqp[d] < IGMP_OQPI + MaxInbox

Having(g) == {d \in Down : present(d, g)}

-----------------------------------------------------------------------------
LEMMA Intervals == IGMP_GMI \in Nat \ {0} /\ IGMP_OQPI \in Nat \ {0}
<1>1. RV * QI \in Nat \ {0}
  <2>1. QI \in Nat /\ RV \in Nat /\ QI >= 1 /\ RV >= 1
    BY IgmpAssumption
  <2> QED BY <2>1
<1>2. QRI \div 2 \in Nat
  BY IgmpAssumption
<1> QED
  BY <1>1, <1>2, IgmpAssumption DEF IGMP_GMI, IGMP_OQPI

LEMMA Numbers ==
    /\ QI \in Nat \ {0}
    /\ RV \in Nat \ {0}
    /\ Response \in Nat \ {0}
    /\ MaxInbox \in Nat \ {0}
    /\ Main \in Up
    /\ home \in [Host -> Down]
    /\ Rivals \subseteq Down
    /\ IsFiniteSet(Down)
BY IgmpAssumption

\* A buffer that is not full takes a packet, one that is does not change.
LEMMA QueueType ==
    ASSUME inbox \in Seq(Packet), Len(inbox) <= MaxInbox, NEW p \in Packet, Queue(p)
    PROVE  inbox' \in Seq(Packet) /\ Len(inbox') <= MaxInbox
BY Numbers DEF Queue, Full

LEMMA ReportType ==
    ASSUME TypeOK, NEW h \in Host, NEW g \in Group, NEW lost \in BOOLEAN, Report(h, g, lost)
    PROVE  /\ inbox' \in Seq(Packet) /\ Len(inbox') <= MaxInbox
           /\ unanswered' \in [Down -> [Group -> 0 .. RV + 1]]
<1>1. [type |-> "report", host |-> h, group |-> g] \in Packet
  BY DEF Packet
<1>2. CASE lost \/ Full
  BY <1>2 DEF Report, TypeOK
<1>3. CASE ~(lost \/ Full)
  <2>1. Queue([type |-> "report", host |-> h, group |-> g])
        /\ unanswered' = [unanswered EXCEPT ![home[h]][g] = 0]
    BY <1>3 DEF Report
  <2>2. inbox' \in Seq(Packet) /\ Len(inbox') <= MaxInbox
    BY <1>1, <2>1, QueueType DEF TypeOK
  <2>3. unanswered' \in [Down -> [Group -> 0 .. RV + 1]]
    BY <2>1, Numbers DEF TypeOK
  <2> QED BY <2>2, <2>3
<1> QED BY <1>2, <1>3

LEMMA TailType ==
    ASSUME inbox \in Seq(Packet), Len(inbox) <= MaxInbox, inbox # <<>>, inbox' = Tail(inbox)
    PROVE  /\ inbox' \in Seq(Packet) /\ Len(inbox') <= MaxInbox
           /\ Head(inbox) \in Packet
BY Numbers

LEMMA HeadPacket ==
    ASSUME NEW p \in Packet
    PROVE  /\ p.type \in {"report", "leave"} => p.host \in Host /\ p.group \in Group
           /\ p.type = "query" => p.down \in Down /\ p.lower \in BOOLEAN
BY DEF Packet

LEMMA UnansweredType ==
    ASSUME TypeOK, NEW STATE D
    PROVE  Unanswered(D) \in [Down -> [Group -> 0 .. RV + 1]]
<1>1. ASSUME NEW n \in 0 .. RV + 1 PROVE More(n) \in 0 .. RV + 1
  BY <1>1, Numbers DEF More
<1> HIDE DEF More
<1> QED BY <1>1 DEF Unanswered, TypeOK

LEMMA DeleteType ==
    ASSUME TypeOK, NEW STATE R
    PROVE  delete_rules(R) \in [Up -> [Group -> Nat]]
<1>1. ASSUME NEW g \in Group PROVE Cardinality({d \in Down : <<d, g>> \in R}) \in Nat
  BY Numbers, FS_Subset, FS_CardinalityType
<1>2. ASSUME NEW u \in Up, NEW g \in Group, NEW n \in Nat
      PROVE  (IF u # Main THEN rules[u][g] ELSE IF rules[u][g] < n THEN 0 ELSE rules[u][g] - n) \in Nat
  BY <1>2 DEF TypeOK
<1> QED BY <1>1, <1>2 DEF delete_rules

-----------------------------------------------------------------------------
(* Types.                                                                  *)

LEMMA TypeInit == Init => TypeOK
BY Intervals, Numbers DEF Init, TypeOK

LEMMA CleanupType ==
    ASSUME TypeOK, NEW STATE R, Cleanup(R)
    PROVE  /\ members' \in [Down -> [Group -> SUBSET Host]]
           /\ rules' \in [Up -> [Group -> Nat]]
           /\ joined' \subseteq Up \X Group
           /\ refused' \subseteq Up \X Group
<1>1. rules' \in [Up -> [Group -> Nat]]
  BY DeleteType DEF Cleanup
<1> QED BY <1>1 DEF Cleanup, TypeOK

LEMMA GroupAddType ==
    ASSUME TypeOK, NEW d \in Down, NEW g \in Group, igmp_interface_group_add(d, g)
    PROVE  /\ rules' \in [Up -> [Group -> Nat]]
           /\ joined' \subseteq Up \X Group
           /\ refused' \subseteq Up \X Group
<1>1. CASE present(d, g)
  BY <1>1 DEF igmp_interface_group_add, TypeOK
<1>2. CASE ~present(d, g)
  <2>1. joined' \subseteq Up \X Group /\ refused' \subseteq Up \X Group
    <3> DEFINE J == {<<u, g>> : u \in Up}
    <3>1. IP_ADD_MEMBERSHIP(J)
      BY <1>2 DEF igmp_interface_group_add
    <3>2. PICK A \in SUBSET (J \ joined) :
            /\ joined' = joined \cup A
            /\ refused' = refused \cup ((J \ joined) \ A)
      BY <3>1 DEF IP_ADD_MEMBERSHIP
    <3>3. J \subseteq Up \X Group
      OBVIOUS
    <3> HIDE DEF J
    <3>4. joined' \subseteq Up \X Group
      BY <3>2, <3>3 DEF TypeOK
    <3>5. refused' \subseteq Up \X Group
      BY <3>2, <3>3 DEF TypeOK
    <3> QED BY <3>4, <3>5
  <2>2. rules' \in [Up -> [Group -> Nat]]
    <3>1. rules \in [Up -> [Group -> Nat]]
      BY DEF TypeOK
    <3>2. rules' = [u \in Up |-> [rules[u] EXCEPT ![g] = IF u = Main THEN @ + 1 ELSE 1]]
      BY <1>2 DEF igmp_interface_group_add
    <3>3. ASSUME NEW u \in Up
          PROVE  [rules[u] EXCEPT ![g] = IF u = Main THEN @ + 1 ELSE 1] \in [Group -> Nat]
      <4>1. rules[u] \in [Group -> Nat]
        BY <3>1
      <4> QED BY <4>1
    <3> QED BY <3>2, <3>3
  <2> QED BY <2>1, <2>2
<1> QED BY <1>1, <1>2

LEMMA SecondType ==
    ASSUME TypeOK, Second
    PROVE  due' \in [Host \X Group -> 0 .. Response]
BY Numbers DEF TypeOK, Second

LEMMA TimerType == TypeOK /\ Timer => TypeOK'
<1> SUFFICES ASSUME TypeOK, Timer PROVE TypeOK'
  OBVIOUS
<1>1. /\ members' \in [Down -> [Group -> SUBSET Host]]
      /\ rules' \in [Up -> [Group -> Nat]]
      /\ joined' \subseteq Up \X Group
      /\ refused' \subseteq Up \X Group
  BY CleanupType DEF Timer
<1>2. timer' \in [Down -> [Group -> 0 .. IGMP_GMI]]
  BY Intervals DEF Timer, TypeOK, countdown, present
<1>3. isquerier' \in [Down -> BOOLEAN]
  BY DEF Timer, TypeOK, igmprt_timer_querier
<1>4. ti_qi' \in [Down -> 0 .. QI]
  BY Numbers DEF Timer, TypeOK, Asks
<1>5. oqp' \in [Down -> 0 .. IGMP_OQPI]
  BY Intervals DEF Timer, TypeOK
<1>6. silence' \in [Down -> Nat]
  BY DEF Timer, TypeOK
<1>7. due' \in [Host \X Group -> 0 .. Response]
  BY DEF Timer, Hear
<1>8. unanswered' \in [Down -> [Group -> 0 .. RV + 1]]
  BY UnansweredType DEF Timer
<1>9. steady' \subseteq Host \X Group
  BY DEF Timer, TypeOK
<1>10. phase' \in {"timer", "sleep"} /\ UNCHANGED <<inbox, wants, left>>
  BY DEF Timer
<1> QED
  BY <1>1, <1>2, <1>3, <1>4, <1>5, <1>6, <1>7, <1>8, <1>9, <1>10 DEF TypeOK

LEMMA RecvType ==
    TypeOK /\ (RecvNothing \/ RecvReport \/ RecvLeave \/ RecvQuery) => TypeOK'
<1> SUFFICES ASSUME TypeOK, RecvNothing \/ RecvReport \/ RecvLeave \/ RecvQuery
             PROVE  TypeOK'
  OBVIOUS
<1>1. phase' \in {"timer", "sleep"} /\ due' \in [Host \X Group -> 0 .. Response]
  BY SecondType DEF RecvNothing, RecvReport, RecvLeave, RecvQuery, Recv
<1>2. CASE RecvNothing
  BY <1>1, <1>2 DEF RecvNothing, TypeOK, table, querier
<1> DEFINE p == Head(inbox)
<1>3. ASSUME inbox # <<>>, inbox' = Tail(inbox)
      PROVE  /\ inbox' \in Seq(Packet) /\ Len(inbox') <= MaxInbox
             /\ p \in Packet
             /\ p.type \in {"report", "leave"} => p.host \in Host /\ p.group \in Group
             /\ p.type = "query" => p.down \in Down /\ p.lower \in BOOLEAN
  <2>1. inbox' \in Seq(Packet) /\ Len(inbox') <= MaxInbox /\ p \in Packet
    BY <1>3, TailType DEF TypeOK
  <2> QED BY <2>1, HeadPacket
<1>4. CASE RecvReport
  <2>1. /\ inbox' \in Seq(Packet) /\ Len(inbox') <= MaxInbox
        /\ p.host \in Host /\ p.group \in Group
    BY <1>3, <1>4 DEF RecvReport
  <2>2. home[p.host] \in Down
    BY <2>1, Numbers
  <2>3. /\ rules' \in [Up -> [Group -> Nat]]
        /\ joined' \subseteq Up \X Group
        /\ refused' \subseteq Up \X Group
    BY <1>4, <2>1, <2>2, GroupAddType DEF RecvReport
  <2>4. members' \in [Down -> [Group -> SUBSET Host]]
    BY <1>4, <2>1, <2>2 DEF RecvReport, TypeOK
  <2>5. timer' \in [Down -> [Group -> 0 .. IGMP_GMI]]
    BY <1>4, <2>1, <2>2, Intervals DEF RecvReport, TypeOK
  <2>6. steady' \subseteq Host \X Group
    BY <1>4 DEF RecvReport, TypeOK
  <2>7. UNCHANGED <<querier, wants, silence, unanswered, left>>
    BY <1>4 DEF RecvReport
  <2> QED BY <1>1, <2>1, <2>3, <2>4, <2>5, <2>6, <2>7 DEF TypeOK, querier
<1>5. CASE RecvLeave
  <2> DEFINE R == last_member(p.host, p.group)
  <2>1. /\ inbox' \in Seq(Packet) /\ Len(inbox') <= MaxInbox
        /\ p.host \in Host /\ p.group \in Group
    BY <1>3, <1>5 DEF RecvLeave
  <2>2. rules' \in [Up -> [Group -> Nat]]
    BY <1>5, DeleteType DEF RecvLeave, TypeOK
  <2>3. joined' \subseteq Up \X Group /\ refused' \subseteq Up \X Group
    BY <1>5 DEF RecvLeave, TypeOK
  <2>4. members' \in [Down -> [Group -> SUBSET Host]]
    <3> DEFINE other == [d \in Down |-> [members[d] EXCEPT ![p.group] = @ \ {p.host}]]
    <3>1. members \in [Down -> [Group -> SUBSET Host]]
      BY DEF TypeOK
    <3>2. other \in [Down -> [Group -> SUBSET Host]]
      BY <3>1
    <3>3. \/ members' = other
          \/ members' = [d \in Down |-> [other[d] EXCEPT ![p.group] =
                                          IF <<d, p.group>> \in R THEN {} ELSE @]]
      BY <1>5 DEF RecvLeave
    <3> HIDE DEF other, R
    <3>4. [d \in Down |-> [other[d] EXCEPT ![p.group] = IF <<d, p.group>> \in R THEN {} ELSE @]]
            \in [Down -> [Group -> SUBSET Host]]
      BY <3>2
    <3> QED BY <3>2, <3>3, <3>4
  <2>5. timer' \in [Down -> [Group -> 0 .. IGMP_GMI]]
    BY <1>5, Intervals DEF RecvLeave, TypeOK
  <2>6. steady' \subseteq Host \X Group
    BY <1>5 DEF RecvLeave, TypeOK
  <2>7. UNCHANGED <<querier, wants, silence, unanswered, left>>
    BY <1>5 DEF RecvLeave
  <2> QED BY <1>1, <2>1, <2>2, <2>3, <2>4, <2>5, <2>6, <2>7 DEF TypeOK, querier
<1>6. CASE RecvQuery
  <2>1. /\ inbox' \in Seq(Packet) /\ Len(inbox') <= MaxInbox
        /\ p.down \in Down
    BY <1>3, <1>6 DEF RecvQuery
  <2>2. oqp' \in [Down -> 0 .. IGMP_OQPI]
    BY <1>6, <2>1, Intervals DEF RecvQuery, TypeOK
  <2>3. isquerier' \in [Down -> BOOLEAN]
    BY <1>6, <2>1 DEF RecvQuery, TypeOK
  <2>4. steady' \subseteq Host \X Group
    BY <1>6 DEF RecvQuery, TypeOK
  <2>5. UNCHANGED <<table, ti_qi, wants, silence, unanswered, left>>
    BY <1>6 DEF RecvQuery
  <2> QED BY <1>1, <2>1, <2>2, <2>3, <2>4, <2>5 DEF TypeOK, table
<1> QED BY <1>2, <1>4, <1>5, <1>6

LEMMA LanType ==
    ASSUME TypeOK, NEW h \in Host, NEW g \in Group, Join(h, g) \/ Answer(h, g) \/ Leave(h, g)
    PROVE  TypeOK'
<1>1. CASE Join(h, g)
  <2>1. PICK lost \in BOOLEAN : Report(h, g, lost)
    BY <1>1 DEF Join
  <2>2. /\ inbox' \in Seq(Packet) /\ Len(inbox') <= MaxInbox
        /\ unanswered' \in [Down -> [Group -> 0 .. RV + 1]]
    BY <2>1, ReportType
  <2>3. wants' \subseteq Host \X Group
    BY <1>1 DEF Join, TypeOK
  <2>4. UNCHANGED <<phase, table, querier, due, silence, left, steady>>
    BY <1>1 DEF Join
  <2> QED BY <2>2, <2>3, <2>4 DEF TypeOK, table, querier
<1>2. CASE Answer(h, g)
  <2>1. PICK lost \in BOOLEAN : Report(h, g, lost)
    BY <1>2 DEF Answer
  <2>2. /\ inbox' \in Seq(Packet) /\ Len(inbox') <= MaxInbox
        /\ unanswered' \in [Down -> [Group -> 0 .. RV + 1]]
    BY <2>1, ReportType
  <2>3. due' \in [Host \X Group -> 0 .. Response]
    BY <1>2, Numbers DEF Answer, TypeOK
  <2>4. steady' \subseteq Host \X Group
    BY <1>2 DEF Answer, TypeOK
  <2>5. UNCHANGED <<phase, table, querier, wants, silence, left>>
    BY <1>2 DEF Answer
  <2> QED BY <2>2, <2>3, <2>4, <2>5 DEF TypeOK, table, querier
<1>3. CASE Leave(h, g)
  <2>1. [type |-> "leave", host |-> h, group |-> g] \in Packet
    BY DEF Packet
  <2>2. inbox' \in Seq(Packet) /\ Len(inbox') <= MaxInbox
    BY <1>3, <2>1, QueueType DEF Leave, TypeOK
  <2>3. due' \in [Host \X Group -> 0 .. Response]
    BY <1>3, Numbers DEF Leave, TypeOK
  <2>4. wants' \subseteq Host \X Group /\ steady' \subseteq Host \X Group
    BY <1>3 DEF Leave, TypeOK
  <2>5. UNCHANGED <<phase, table, querier, silence, unanswered, left>>
    BY <1>3 DEF Leave
  <2> QED BY <2>2, <2>3, <2>4, <2>5 DEF TypeOK, table, querier
<1> QED BY <1>1, <1>2, <1>3

LEMMA RivalType ==
    ASSUME TypeOK, NEW d \in Rivals, NEW lower \in BOOLEAN, RivalQuery(d, lower)
    PROVE  TypeOK'
<1>1. [type |-> "query", down |-> d, lower |-> lower] \in Packet
  BY Numbers DEF Packet
<1>2. inbox' \in Seq(Packet) /\ Len(inbox') <= MaxInbox
  BY <1>1, QueueType DEF RivalQuery, TypeOK
<1>3. due' \in [Host \X Group -> 0 .. Response]
  BY DEF RivalQuery, Hear
<1>4. silence' \in [Down -> Nat]
  BY Numbers DEF RivalQuery, TypeOK
<1>5. unanswered' \in [Down -> [Group -> 0 .. RV + 1]]
  BY UnansweredType DEF RivalQuery
<1>6. UNCHANGED <<phase, table, querier, wants, left, steady>>
  BY DEF RivalQuery
<1> QED BY <1>2, <1>3, <1>4, <1>5, <1>6 DEF TypeOK, table, querier

LEMMA RestartType == TypeOK /\ Restart => TypeOK'
BY Intervals, Numbers DEF Restart, TypeOK, lan

LEMMA TypeStep == TypeOK /\ [Next]_vars => TypeOK'
<1> SUFFICES ASSUME TypeOK, [Next]_vars PROVE TypeOK'
  OBVIOUS
<1>1. CASE Timer
  BY <1>1, TimerType
<1>2. CASE RecvNothing \/ RecvReport \/ RecvLeave \/ RecvQuery
  BY <1>2, RecvType
<1>3. CASE \E h \in Host, g \in Group : Join(h, g) \/ Answer(h, g) \/ Leave(h, g)
  BY <1>3, LanType
<1>4. CASE \E d \in Rivals, lower \in BOOLEAN : RivalQuery(d, lower)
  BY <1>4, RivalType
<1>5. CASE Restart
  BY <1>5, RestartType
<1>6. CASE UNCHANGED vars
  BY <1>6 DEF TypeOK, vars, table, querier, lan
<1> QED BY <1>1, <1>2, <1>3, <1>4, <1>5, <1>6 DEF Next

-----------------------------------------------------------------------------
(* Queries keep coming.                                                    *)

Quiet == Waiting /\ Pending

\* A report or a leave joins the buffer.
LEMMA QueueWaiting ==
    ASSUME TypeOK, Waiting, phase' = phase, UNCHANGED silence,
           NEW p \in Packet, p.type # "query", Queue(p) \/ UNCHANGED inbox
    PROVE  Waiting'
<1>1. CASE inbox' = inbox
  BY <1>1 DEF Waiting
<1>2. CASE inbox' = Append(inbox, p)
  <2> SUFFICES ASSUME NEW d \in Down, NEW i \in DOMAIN inbox',
                      inbox'[i].type = "query", inbox'[i].down = d
               PROVE  silence[d] + i <= IF phase = "timer" THEN MaxInbox - 1 ELSE MaxInbox
    BY DEF Waiting
  <2>1. i \in DOMAIN inbox /\ inbox'[i] = inbox[i]
    <3>1. inbox \in Seq(Packet)
      BY DEF TypeOK
    <3>2. i \in 1 .. Len(inbox) + 1
      BY <1>2, <3>1
    <3>3. i = Len(inbox) + 1 => inbox'[i] = p
      BY <1>2, <3>1
    <3> QED BY <1>2, <3>1, <3>2, <3>3
  <2> QED BY <2>1 DEF Waiting
<1> QED BY <1>1, <1>2 DEF Queue

LEMMA LanQuiet ==
    ASSUME TypeOK, Quiet, NEW h \in Host, NEW g \in Group,
           Join(h, g) \/ Answer(h, g) \/ Leave(h, g)
    PROVE  Quiet'
<1>1. UNCHANGED <<phase, silence, isquerier, ti_qi, oqp>>
  BY DEF Join, Answer, Leave, querier
<1>2. \E p \in Packet : p.type # "query" /\ (Queue(p) \/ UNCHANGED inbox)
  <2> DEFINE r == [type |-> "report", host |-> h, group |-> g]
             l == [type |-> "leave", host |-> h, group |-> g]
  <2>1. r \in Packet /\ l \in Packet /\ r.type # "query" /\ l.type # "query"
    BY DEF Packet
  <2>2. Queue(r) \/ Queue(l) \/ UNCHANGED inbox
    BY DEF Join, Answer, Leave, Report
  <2> HIDE DEF r, l
  <2> QED BY <2>1, <2>2
<1>3. Waiting'
  BY <1>1, <1>2, QueueWaiting DEF Quiet
<1>4. Pending'
  BY <1>1 DEF Quiet, Pending
<1> QED BY <1>3, <1>4 DEF Quiet

LEMMA RivalQuiet ==
    ASSUME TypeOK, Quiet, NEW r \in Rivals, NEW lower \in BOOLEAN, RivalQuery(r, lower)
    PROVE  Quiet'
<1> DEFINE p == [type |-> "query", down |-> r, lower |-> lower]
<1>1. /\ phase = "sleep" /\ phase' = "sleep"
      /\ UNCHANGED <<isquerier, ti_qi, oqp>>
      /\ silence' = [silence EXCEPT ![r] = 0]
      /\ inbox' = inbox \/ (inbox' = Append(inbox, p) /\ Len(inbox) < MaxInbox)
  BY Numbers DEF RivalQuery, querier, Queue, Full, TypeOK
<1>2. /\ r \in Down /\ p.down = r
      /\ silence \in [Down -> Nat] /\ inbox \in Seq(Packet)
      /\ ti_qi \in [Down -> Nat] /\ oqp \in [Down -> Nat]
  BY Numbers DEF TypeOK
<1> HIDE DEF p
<1>3. ASSUME NEW d \in Down PROVE silence'[d] \in Nat /\ silence'[d] <= silence[d]
  BY <1>1, <1>2
<1>4. Waiting'
  <2> SUFFICES ASSUME NEW d \in Down, NEW i \in DOMAIN inbox',
                      inbox'[i].type = "query", inbox'[i].down = d
               PROVE  silence'[d] + i <= MaxInbox
    BY <1>1 DEF Waiting
  <2>1. CASE i \in DOMAIN inbox /\ inbox'[i] = inbox[i]
    <3>1. silence[d] + i <= MaxInbox
      BY <1>1, <2>1 DEF Quiet, Waiting
    <3> QED BY <1>2, <1>3, <2>1, <3>1, Numbers
  <2>2. CASE ~(i \in DOMAIN inbox /\ inbox'[i] = inbox[i])
    <3>1. inbox' = Append(inbox, p) /\ Len(inbox) < MaxInbox
      BY <1>1, <2>2
    <3>2. i = Len(inbox) + 1 /\ inbox'[i] = p
      BY <1>2, <2>2, <3>1
    <3>3. silence'[d] = 0
      BY <1>1, <1>2, <3>2
    <3> QED BY <1>2, <3>1, <3>2, <3>3, Numbers
  <2> QED BY <2>1, <2>2
<1>5. Pending'
  <2> SUFFICES ASSUME NEW d \in Down
               PROVE  IF isquerier[d] THEN silence'[d] + ti_qi[d] < IGMP_OQPI + QI + MaxInbox
                      ELSE oqp[d] > 0 /\ silence'[d] + oqp[d] < IGMP_OQPI + MaxInbox
    BY <1>1 DEF Pending
  <2>1. IF isquerier[d] THEN silence[d] + ti_qi[d] < IGMP_OQPI + QI + MaxInbox
        ELSE oqp[d] > 0 /\ silence[d] + oqp[d] < IGMP_OQPI + MaxInbox
    BY DEF Quiet, Pending
  <2>2. /\ silence[d] \in Nat /\ ti_qi[d] \in Nat /\ oqp[d] \in Nat
        /\ silence'[d] \in Nat /\ silence'[d] <= silence[d]
    BY <1>2, <1>3
  <2> QED BY <2>1, <2>2, Intervals, Numbers
<1> QED BY <1>4, <1>5 DEF Quiet

LEMMA TimerQuiet == TypeOK /\ Quiet /\ Timer => Quiet'
<1> SUFFICES ASSUME TypeOK, Quiet, Timer PROVE Quiet'
  OBVIOUS
<1>1. /\ phase = "timer" /\ phase' = "sleep" /\ UNCHANGED inbox
      /\ \A d \in Down : silence'[d] = IF d \in Asks THEN 0 ELSE silence[d] + 1
  BY DEF Timer
<1>2. /\ silence \in [Down -> Nat] /\ inbox \in Seq(Packet)
      /\ ti_qi \in [Down -> 0 .. QI] /\ oqp \in [Down -> 0 .. IGMP_OQPI]
      /\ isquerier \in [Down -> BOOLEAN]
  BY DEF TypeOK
<1>3. Waiting'
  <2> SUFFICES ASSUME NEW d \in Down, NEW i \in DOMAIN inbox,
                      inbox[i].type = "query", inbox[i].down = d
               PROVE  silence'[d] + i <= MaxInbox
    BY <1>1 DEF Waiting
  <2>1. silence[d] + i <= MaxInbox - 1
    BY <1>1 DEF Quiet, Waiting
  <2>2. silence[d] \in Nat /\ i \in Nat
    BY <1>2
  <2> QED BY <1>1, <2>1, <2>2, Numbers
<1>4. Pending'
  <2> SUFFICES ASSUME NEW d \in Down
               PROVE  IF isquerier'[d] THEN silence'[d] + ti_qi'[d] < IGMP_OQPI + QI + MaxInbox
                      ELSE oqp'[d] > 0 /\ silence'[d] + oqp'[d] < IGMP_OQPI + MaxInbox
    BY DEF Pending
  <2>1. IF isquerier[d] THEN silence[d] + ti_qi[d] < IGMP_OQPI + QI + MaxInbox
        ELSE oqp[d] > 0 /\ silence[d] + oqp[d] < IGMP_OQPI + MaxInbox
    BY DEF Quiet, Pending
  <2>2. silence[d] \in Nat /\ ti_qi[d] \in 0 .. QI /\ oqp[d] \in 0 .. IGMP_OQPI
    BY <1>2
  <2>3. CASE d \in Asks
    <3>1. isquerier'[d] /\ ti_qi'[d] = QI /\ silence'[d] = 0
      BY <1>1, <1>2, <2>3 DEF Timer, Asks
    <3> QED BY <3>1, Intervals, Numbers
  <2>4. CASE isquerier[d] /\ d \notin Asks
    <3>1. isquerier'[d] /\ ti_qi'[d] = ti_qi[d] - 1 /\ silence'[d] = silence[d] + 1
      BY <1>1, <1>2, <2>4 DEF Timer
    <3> QED BY <2>1, <2>2, <2>4, <3>1, Intervals, Numbers
  <2>5. CASE ~isquerier[d]
    <3>1. /\ isquerier'[d] <=> oqp[d] <= 1
          /\ ti_qi'[d] = ti_qi[d]
          /\ oqp'[d] = IF oqp[d] = 0 THEN oqp[d] ELSE oqp[d] - 1
          /\ silence'[d] = silence[d] + 1
      BY <1>1, <1>2, <2>5 DEF Timer, Asks, igmprt_timer_querier
    <3> QED BY <2>1, <2>2, <2>5, <3>1, Intervals, Numbers
  <2> QED BY <2>3, <2>4, <2>5 DEF Asks
<1> QED BY <1>3, <1>4 DEF Quiet

\* The head of the buffer is read, or there is none.
LEMMA RecvQuiet ==
    TypeOK /\ Quiet /\ (RecvNothing \/ RecvReport \/ RecvLeave \/ RecvQuery) => Quiet'
<1> SUFFICES ASSUME TypeOK, Quiet, RecvNothing \/ RecvReport \/ RecvLeave \/ RecvQuery
             PROVE  Quiet'
  OBVIOUS
<1>1. /\ phase = "sleep" /\ phase' = "timer" /\ UNCHANGED <<silence, ti_qi>>
      /\ \/ inbox = <<>> /\ inbox' = inbox
         \/ inbox # <<>> /\ inbox' = Tail(inbox)
  BY DEF RecvNothing, RecvReport, RecvLeave, RecvQuery, Recv, querier
<1>2. /\ silence \in [Down -> Nat] /\ inbox \in Seq(Packet)
      /\ oqp \in [Down -> Int] /\ isquerier \in [Down -> BOOLEAN]
  BY DEF TypeOK
<1>3. Waiting'
  <2> SUFFICES ASSUME NEW d \in Down, NEW i \in DOMAIN inbox',
                      inbox'[i].type = "query", inbox'[i].down = d
               PROVE  silence[d] + i <= MaxInbox - 1
    BY <1>1 DEF Waiting
  <2>1. inbox # <<>> /\ inbox' = Tail(inbox)
    BY <1>1, <1>2
  <2>2. i \in Nat /\ i + 1 \in DOMAIN inbox /\ inbox'[i] = inbox[i + 1]
    BY <1>2, <2>1
  <2>3. silence[d] + (i + 1) <= MaxInbox
    BY <1>1, <2>2 DEF Quiet, Waiting
  <2>4. silence[d] \in Nat
    BY <1>2
  <2> QED BY <2>2, <2>3, <2>4, Numbers
<1>4. Pending'
  <2>1. CASE UNCHANGED <<isquerier, oqp>>
    BY <1>1, <2>1 DEF Quiet, Pending
  <2>2. CASE RecvQuery
    <3> DEFINE p == Head(inbox)
    <3>1. /\ inbox # <<>> /\ p = inbox[1] /\ 1 \in DOMAIN inbox /\ p \in Packet
          /\ p.type = "query"
          /\ oqp' = IF p.lower THEN [oqp EXCEPT ![p.down] = IGMP_OQPI] ELSE oqp
          /\ isquerier' = IF p.lower THEN [isquerier EXCEPT ![p.down] = FALSE] ELSE isquerier
      BY <1>2, <2>2 DEF RecvQuery
    <3>2. p.down \in Down
      BY <3>1, HeadPacket
    <3>3. silence[p.down] + 1 <= MaxInbox /\ silence[p.down] \in Nat
      BY <1>1, <1>2, <3>1, <3>2 DEF Quiet, Waiting
    <3> HIDE DEF p
    <3> SUFFICES ASSUME NEW d \in Down
                 PROVE  IF isquerier'[d] THEN silence[d] + ti_qi[d] < IGMP_OQPI + QI + MaxInbox
                        ELSE oqp'[d] > 0 /\ silence[d] + oqp'[d] < IGMP_OQPI + MaxInbox
      BY <1>1 DEF Pending
    <3>4. CASE p.lower /\ d = p.down
      <4>1. ~isquerier'[d] /\ oqp'[d] = IGMP_OQPI
        BY <1>2, <3>1, <3>4
      <4> QED BY <3>3, <3>4, <4>1, Intervals, Numbers
    <3>5. CASE ~(p.lower /\ d = p.down)
      <4>1. isquerier'[d] = isquerier[d] /\ oqp'[d] = oqp[d]
        BY <1>2, <3>1, <3>2, <3>5
      <4> QED BY <4>1 DEF Quiet, Pending
    <3> QED BY <3>4, <3>5
  <2> QED BY <2>1, <2>2 DEF RecvNothing, RecvReport, RecvLeave, querier
<1> QED BY <1>3, <1>4 DEF Quiet

LEMMA RestartQuiet == TypeOK /\ Quiet /\ Restart => Quiet'
<1> SUFFICES ASSUME TypeOK, Quiet, Restart PROVE Quiet'
  OBVIOUS
<1>1. Waiting'
  BY DEF Restart, Waiting
<1>2. Pending'
  <2> SUFFICES ASSUME NEW d \in Down
               PROVE  silence[d] + 0 < IGMP_OQPI + QI + MaxInbox
    BY DEF Restart, Pending, lan
  <2>1. IF isquerier[d] THEN silence[d] + ti_qi[d] < IGMP_OQPI + QI + MaxInbox
        ELSE oqp[d] > 0 /\ silence[d] + oqp[d] < IGMP_OQPI + MaxInbox
    BY DEF Quiet, Pending
  <2>2. silence[d] \in Nat /\ ti_qi[d] \in Nat /\ oqp[d] \in Nat
    BY DEF TypeOK
  <2> QED BY <2>1, <2>2, Intervals, Numbers
<1> QED BY <1>1, <1>2 DEF Quiet

LEMMA QuietStep == TypeOK /\ Quiet /\ [Next]_vars => Quiet'
<1> SUFFICES ASSUME TypeOK, Quiet, [Next]_vars PROVE Quiet'
  OBVIOUS
<1>1. CASE Timer
  BY <1>1, TimerQuiet
<1>2. CASE RecvNothing \/ RecvReport \/ RecvLeave \/ RecvQuery
  BY <1>2, RecvQuiet
<1>3. CASE \E h \in Host, g \in Group : Join(h, g) \/ Answer(h, g) \/ Leave(h, g)
  BY <1>3, LanQuiet
<1>4. CASE \E d \in Rivals, lower \in BOOLEAN : RivalQuery(d, lower)
  BY <1>4, RivalQuiet
<1>5. CASE Restart
  BY <1>5, RestartQuiet
<1>6. CASE UNCHANGED vars
  BY <1>6 DEF Quiet, Waiting, Pending, vars, table, querier, lan
<1> QED BY <1>1, <1>2, <1>3, <1>4, <1>5, <1>6 DEF Next

LEMMA QuietInit == Init => Quiet
<1> SUFFICES ASSUME Init PROVE Quiet
  OBVIOUS
<1>1. Waiting
  BY DEF Init, Waiting
<1>2. Pending
  BY Intervals, Numbers DEF Init, Pending
<1> QED BY <1>1, <1>2 DEF Quiet

\* Every variable has its type in every reachable state.
THEOREM TypeCorrect == Spec => []TypeOK
BY TypeInit, TypeStep, PTL DEF Spec

\* However many routers with lower addresses come and go, and however long their
\* queries wait to be read, no interface is without a query for longer than
\* IGMP_OQPI + QI seconds and the length of the buffer.
THEOREM NoLongSilence == Spec => []QueriesKeepComing
<1>1. TypeOK /\ Quiet => QueriesKeepComing
  <2> SUFFICES ASSUME TypeOK, Quiet, NEW d \in Down
               PROVE  silence[d] < IGMP_OQPI + QI + MaxInbox
    BY DEF QueriesKeepComing
  <2>1. IF isquerier[d] THEN silence[d] + ti_qi[d] < IGMP_OQPI + QI + MaxInbox
        ELSE oqp[d] > 0 /\ silence[d] + oqp[d] < IGMP_OQPI + MaxInbox
    BY DEF Quiet, Pending
  <2>2. silence[d] \in Nat /\ ti_qi[d] \in Nat /\ oqp[d] \in Nat
    BY DEF TypeOK
  <2> QED BY <2>1, <2>2, Intervals, Numbers
<1> QED BY <1>1, QuietInit, QuietStep, TypeCorrect, PTL DEF Spec

-----------------------------------------------------------------------------
(* Rules and memberships follow the table.                                 *)

\* Deleting the rules of groups that were there keeps the balance.
LEMMA RulesOfDeleted ==
    ASSUME TypeOK, TypeOK', RulesFollowGroups, left' = left,
           NEW STATE R, \A x \in R : x[1] \in Down /\ x[2] \in Group /\ present(x[1], x[2]),
           \A d \in Down, g \in Group : present(d, g)' <=> (present(d, g) /\ <<d, g>> \notin R),
           rules' = delete_rules(R)
    PROVE  RulesFollowGroups'
<1> SUFFICES ASSUME NEW g \in Group
             PROVE  rules'[Main][g] = left[g] + Cardinality(Having(g)')
  BY DEF RulesFollowGroups, Having
<1> DEFINE A == Having(g)
           B == {d \in Down : <<d, g>> \in R}
<1>1. B \subseteq A /\ A \subseteq Down
  BY DEF Having
<1>2. Having(g)' = A \ B
  BY DEF Having
<1>3. IsFiniteSet(A) /\ IsFiniteSet(B)
  BY <1>1, Numbers, FS_Subset
<1>4. A \cap B = B
  BY <1>1
<1>5. Cardinality(A \ B) = Cardinality(A) - Cardinality(B)
  BY <1>3, <1>4, FS_Difference
<1>6. Cardinality(A) \in Nat /\ Cardinality(B) \in Nat /\ Cardinality(B) <= Cardinality(A)
  BY <1>1, <1>3, FS_CardinalityType, FS_Subset
<1>7. rules[Main][g] = left[g] + Cardinality(A) /\ left[g] \in Nat
  BY DEF RulesFollowGroups, Having, TypeOK
<1>8. rules'[Main][g] = IF rules[Main][g] < Cardinality(B) THEN 0 ELSE rules[Main][g] - Cardinality(B)
  BY Numbers DEF delete_rules
<1> HIDE DEF A, B
<1> QED BY <1>2, <1>5, <1>6, <1>7, <1>8

\* A report adds one interface, or none.
LEMMA RulesOfAdded ==
    ASSUME TypeOK, RulesFollowGroups, left' = left,
           NEW e \in Down, NEW k \in Group, igmp_interface_group_add(e, k),
           timer' = [timer EXCEPT ![e][k] = IGMP_GMI]
    PROVE  RulesFollowGroups'
<1>1. /\ \A d \in Down, g \in Group : timer'[d][g] = IF d = e /\ g = k THEN IGMP_GMI ELSE timer[d][g]
      /\ IGMP_GMI > 0
  BY Intervals DEF TypeOK
<1> HIDE DEF IGMP_GMI
<1>2. \A d \in Down, g \in Group : present(d, g)' <=> (present(d, g) \/ (d = e /\ g = k))
  BY <1>1 DEF present
<1> SUFFICES ASSUME NEW g \in Group
             PROVE  rules'[Main][g] = left[g] + Cardinality(Having(g)')
  BY DEF RulesFollowGroups, Having
<1>3. rules[Main][g] = left[g] + Cardinality(Having(g)) /\ left[g] \in Nat
  BY DEF RulesFollowGroups, Having, TypeOK
<1>4. IsFiniteSet(Having(g)) /\ Cardinality(Having(g)) \in Nat
  <2>1. Having(g) \subseteq Down
    BY DEF Having
  <2> QED BY <2>1, Numbers, FS_Subset, FS_CardinalityType
<1>5. CASE present(e, k)
  <2>1. Having(g)' = Having(g)
    BY <1>2, <1>5 DEF Having
  <2>2. rules' = rules
    BY <1>5 DEF igmp_interface_group_add
  <2> QED BY <1>3, <2>1, <2>2
<1>6. CASE ~present(e, k)
  <2>1. rules' = [u \in Up |-> [rules[u] EXCEPT ![k] = IF u = Main THEN @ + 1 ELSE 1]]
    BY <1>6 DEF igmp_interface_group_add
  <2>2. rules[Main] \in [Group -> Nat]
    BY Numbers DEF TypeOK
  <2>3. rules'[Main] = [rules[Main] EXCEPT ![k] = @ + 1]
    BY <2>1, Numbers
  <2>4. CASE g = k
    <3>1. Having(g)' = Having(g) \cup {e} /\ e \notin Having(g)
      BY <1>2, <1>6, <2>4 DEF Having
    <3>2. Cardinality(Having(g) \cup {e}) = Cardinality(Having(g)) + 1
      BY <1>4, <3>1, FS_AddElement
    <3>3. rules'[Main][g] = rules[Main][g] + 1
      BY <2>2, <2>3, <2>4
    <3> QED BY <1>3, <1>4, <3>1, <3>2, <3>3
  <2>5. CASE g # k
    <3>1. Having(g)' = Having(g)
      BY <1>2, <2>5 DEF Having
    <3>2. rules'[Main][g] = rules[Main][g]
      BY <2>2, <2>3, <2>5
    <3> QED BY <1>3, <3>1, <3>2
  <2> QED BY <2>4, <2>5
<1> QED BY <1>5, <1>6

\* The groups of R go, and with them what the kernel knows of them.
LEMMA MembershipOfDeleted ==
    ASSUME TypeOK, MembershipFollowsGroups,
           NEW STATE R, \A x \in R : x[1] \in Down /\ x[2] \in Group,
           \A d \in Down, g \in Group : present(d, g)' <=> (present(d, g) /\ <<d, g>> \notin R),
           joined' = {x \in joined : \A d \in Down : <<d, x[2]>> \notin R},
           refused' = {x \in refused : \A d \in Down : <<d, x[2]>> \notin R}
    PROVE  MembershipFollowsGroups'
<1>1. ASSUME NEW x \in joined' PROVE \E d \in Down : present(d, x[2])'
  <2>1. x \in joined /\ x[2] \in Group /\ \A d \in Down : <<d, x[2]>> \notin R
    BY <1>1 DEF TypeOK
  <2>2. PICK d \in Down : present(d, x[2])
    BY <2>1 DEF MembershipFollowsGroups
  <2> QED BY <2>1, <2>2
<1>2. ASSUME \A d, e \in Down : d = e, NEW d \in Down, NEW u \in Up, NEW g \in Group,
             present(d, g)'
      PROVE  <<u, g>> \in joined' \cup refused'
  <2>1. present(d, g) /\ \A e \in Down : <<e, g>> \notin R
    BY <1>2
  <2>2. <<u, g>> \in joined \cup refused
    BY <1>2, <2>1 DEF MembershipFollowsGroups
  <2> QED BY <2>1, <2>2
<1> QED BY <1>1, <1>2 DEF MembershipFollowsGroups

LEMMA MembershipOfAdded ==
    ASSUME TypeOK, MembershipFollowsGroups,
           NEW e \in Down, NEW k \in Group, igmp_interface_group_add(e, k),
           timer' = [timer EXCEPT ![e][k] = IGMP_GMI]
    PROVE  MembershipFollowsGroups'
<1>1. /\ \A d \in Down, g \in Group : timer'[d][g] = IF d = e /\ g = k THEN IGMP_GMI ELSE timer[d][g]
      /\ IGMP_GMI > 0
  BY Intervals DEF TypeOK
<1> HIDE DEF IGMP_GMI
<1>2. \A d \in Down, g \in Group : present(d, g)' <=> (present(d, g) \/ (d = e /\ g = k))
  BY <1>1 DEF present
<1>3. CASE present(e, k)
  <2>1. \A d \in Down, g \in Group : present(d, g)' <=> present(d, g)
    BY <1>2, <1>3
  <2>2. UNCHANGED <<joined, refused>>
    BY <1>3 DEF igmp_interface_group_add
  <2>3. \A x \in joined : x[2] \in Group
    BY DEF TypeOK
  <2> QED BY <2>1, <2>2, <2>3 DEF MembershipFollowsGroups
<1>4. CASE ~present(e, k)
  <2> DEFINE J == {<<u, k>> : u \in Up}
  <2>1. PICK A \in SUBSET (J \ joined) :
          /\ joined' = joined \cup A
          /\ refused' = refused \cup ((J \ joined) \ A)
    BY <1>4 DEF igmp_interface_group_add, IP_ADD_MEMBERSHIP
  <2>2. (\A x \in J : x[2] = k) /\ (\A u \in Up : <<u, k>> \in J)
    OBVIOUS
  <2>3. \A x \in joined : x[2] \in Group
    BY DEF TypeOK
  <2> HIDE DEF J
  <2>4. ASSUME NEW x \in joined' PROVE \E d \in Down : present(d, x[2])'
    <3>1. CASE x \in joined
      BY <1>2, <2>3, <3>1 DEF MembershipFollowsGroups
    <3>2. CASE x \notin joined
      <4>1. x[2] = k
        BY <2>1, <2>2, <2>4, <3>2
      <4> QED BY <1>2, <4>1
    <3> QED BY <3>1, <3>2
  <2>5. ASSUME \A d, f \in Down : d = f, NEW d \in Down, NEW u \in Up, NEW g \in Group,
               present(d, g)'
        PROVE  <<u, g>> \in joined' \cup refused'
    <3>1. CASE g = k
      <4>1. <<u, k>> \in J
        BY <2>2
      <4> QED BY <2>1, <3>1, <4>1
    <3>2. CASE g # k
      <4>1. present(d, g)
        BY <1>2, <2>5, <3>2
      <4>2. <<u, g>> \in joined \cup refused
        BY <2>5, <4>1 DEF MembershipFollowsGroups
      <4> QED BY <2>1, <4>2
    <3> QED BY <3>1, <3>2
  <2> QED BY <2>4, <2>5 DEF MembershipFollowsGroups
<1> QED BY <1>3, <1>4

Follows == RulesFollowGroups /\ MembershipFollowsGroups

LEMMA TimerFollows == TypeOK /\ TypeOK' /\ Follows /\ Timer => Follows'
<1> SUFFICES ASSUME TypeOK, TypeOK', Follows, Timer PROVE Follows'
  OBVIOUS
<1>1. /\ Cleanup(Expired) /\ left' = left
      /\ \A d \in Down, g \in Group : timer'[d][g] = countdown(d, g) /\ timer[d][g] \in Nat
  BY DEF Timer, TypeOK
<1>2. \A x \in Expired : x[1] \in Down /\ x[2] \in Group /\ present(x[1], x[2])
  BY DEF Expired
<1>3. \A d \in Down, g \in Group : present(d, g)' <=> (present(d, g) /\ <<d, g>> \notin Expired)
  <2> SUFFICES ASSUME NEW d \in Down, NEW g \in Group
               PROVE  present(d, g)' <=> (present(d, g) /\ <<d, g>> \notin Expired)
    OBVIOUS
  <2>1. <<d, g>> \in Expired <=> present(d, g) /\ timer[d][g] - 1 = 0
    BY DEF Expired, countdown
  <2> QED BY <1>1, <2>1 DEF present, countdown
<1> HIDE DEF Expired
<1>4. RulesFollowGroups'
  BY <1>1, <1>2, <1>3, RulesOfDeleted DEF Cleanup, Follows
<1>5. MembershipFollowsGroups'
  BY <1>1, <1>2, <1>3, MembershipOfDeleted DEF Cleanup, Follows
<1> QED BY <1>4, <1>5 DEF Follows

LEMMA RecvFollows ==
    TypeOK /\ TypeOK' /\ Follows /\ (RecvNothing \/ RecvReport \/ RecvLeave \/ RecvQuery) => Follows'
<1> SUFFICES ASSUME TypeOK, TypeOK', Follows, RecvNothing \/ RecvReport \/ RecvLeave \/ RecvQuery
             PROVE  Follows'
  OBVIOUS
<1>1. CASE RecvNothing \/ RecvQuery
  BY <1>1 DEF RecvNothing, RecvQuery, table, Follows, RulesFollowGroups, MembershipFollowsGroups, present
<1> DEFINE p == Head(inbox)
<1>2. ASSUME inbox # <<>>, p.type \in {"report", "leave"}
      PROVE  p.host \in Host /\ p.group \in Group /\ home[p.host] \in Down
  <2>1. p \in Packet
    BY <1>2 DEF TypeOK
  <2> QED BY <1>2, <2>1, HeadPacket, Numbers
<1>3. CASE RecvReport
  <2>1. p.host \in Host /\ p.group \in Group /\ home[p.host] \in Down
    BY <1>2, <1>3 DEF RecvReport
  <2>2. /\ igmp_interface_group_add(home[p.host], p.group)
        /\ timer' = [timer EXCEPT ![home[p.host]][p.group] = IGMP_GMI]
        /\ left' = left
    BY <1>3 DEF RecvReport
  <2> HIDE DEF p
  <2>3. RulesFollowGroups'
    BY <2>1, <2>2, RulesOfAdded DEF Follows
  <2>4. MembershipFollowsGroups'
    BY <2>1, <2>2, MembershipOfAdded DEF Follows
  <2> QED BY <2>3, <2>4 DEF Follows
<1>4. CASE RecvLeave
  <2> DEFINE R == last_member(p.host, p.group)
  <2>1. p.host \in Host /\ p.group \in Group
    BY <1>2, <1>4 DEF RecvLeave
  <2>2. \A x \in R : x[1] \in Down /\ x[2] = p.group /\ present(x[1], x[2])
    BY DEF last_member
  <2>3. /\ left' = left
        /\ timer' = [d \in Down |-> [g \in Group |-> IF <<d, g>> \in R THEN 0 ELSE timer[d][g]]]
        /\ IF R = {} THEN UNCHANGED <<rules, joined, refused>>
           ELSE /\ rules' = delete_rules(R)
                /\ joined' = {x \in joined : x[2] # p.group}
                /\ refused' = {x \in refused : x[2] # p.group}
    BY <1>4 DEF RecvLeave
  <2> HIDE DEF R, p
  <2>4. \A d \in Down, g \in Group : present(d, g)' <=> (present(d, g) /\ <<d, g>> \notin R)
    <3>1. ASSUME NEW d \in Down, NEW g \in Group
          PROVE  timer'[d][g] = IF <<d, g>> \in R THEN 0 ELSE timer[d][g]
      BY <2>3
    <3>2. ASSUME NEW d \in Down, NEW g \in Group
          PROVE  present(d, g)' <=> (present(d, g) /\ <<d, g>> \notin R)
      <4>1. CASE <<d, g>> \in R
        <5>1. timer'[d][g] = 0
          BY <3>1, <4>1
        <5> QED BY <4>1, <5>1 DEF present
      <4>2. CASE <<d, g>> \notin R
        <5>1. timer'[d][g] = timer[d][g]
          BY <3>1, <4>2
        <5> QED BY <4>2, <5>1 DEF present
      <4> QED BY <4>1, <4>2
    <3> QED BY <3>2
  <2>5. CASE R = {}
    <3>1. \A d \in Down, g \in Group : present(d, g)' <=> present(d, g)
      BY <2>4, <2>5
    <3>2. timer' = timer
      BY <2>3, <2>5 DEF TypeOK
    <3> QED
      BY <2>3, <2>5, <3>2 DEF Follows, RulesFollowGroups, MembershipFollowsGroups, present
  <2>6. CASE R # {}
    <3>1. \A g \in Group : (\E d \in Down : <<d, g>> \in R) <=> g = p.group
      <4>1. PICK x \in R : TRUE
        BY <2>6
      <4>2. x \in Down \X {p.group}
        BY <4>1 DEF R, last_member
      <4>3. x = <<x[1], p.group>> /\ x[1] \in Down
        BY <4>2
      <4>4. ASSUME NEW g \in Group, NEW d \in Down, <<d, g>> \in R PROVE g = p.group
        BY <2>2, <4>4
      <4> QED BY <4>1, <4>3, <4>4
    <3>2. \A x \in joined \cup refused : x[2] \in Group
      BY DEF TypeOK
    <3>3. joined' = {x \in joined : \A d \in Down : <<d, x[2]>> \notin R}
      BY <2>3, <2>6, <3>1, <3>2
    <3>4. refused' = {x \in refused : \A d \in Down : <<d, x[2]>> \notin R}
      BY <2>3, <2>6, <3>1, <3>2
    <3>5. \A x \in R : x[1] \in Down /\ x[2] \in Group /\ present(x[1], x[2])
      BY <2>1, <2>2
    <3>6. RulesFollowGroups'
      BY <2>3, <2>4, <2>6, <3>5, RulesOfDeleted DEF Follows
    <3>7. MembershipFollowsGroups'
      BY <2>4, <3>3, <3>4, <3>5, MembershipOfDeleted DEF Follows
    <3> QED BY <3>6, <3>7 DEF Follows
  <2> QED BY <2>5, <2>6
<1> QED BY <1>1, <1>3, <1>4

LEMMA RestartFollows == TypeOK /\ Follows /\ Restart => Follows'
<1> SUFFICES ASSUME TypeOK, Follows, Restart PROVE Follows'
  OBVIOUS
<1>1. \A d \in Down, g \in Group : ~present(d, g)'
  BY DEF Restart, present
<1>2. RulesFollowGroups'
  <2> SUFFICES ASSUME NEW g \in Group
               PROVE  rules'[Main][g] = left'[g] + Cardinality(Having(g)')
    BY DEF RulesFollowGroups, Having
  <2>1. Having(g)' = {}
    BY <1>1 DEF Having
  <2>2. rules'[Main][g] = left'[g] /\ left'[g] \in Nat
    <3>1. left' = rules[Main] /\ rules' = rules
      BY DEF Restart
    <3>2. rules[Main][g] \in Nat
      BY Numbers DEF TypeOK
    <3> QED BY <3>1, <3>2
  <2> QED BY <2>1, <2>2, FS_EmptySet
<1>3. MembershipFollowsGroups'
  BY <1>1 DEF Restart, MembershipFollowsGroups
<1> QED BY <1>2, <1>3 DEF Follows

LEMMA FollowsStep == TypeOK /\ TypeOK' /\ Follows /\ [Next]_vars => Follows'
<1> SUFFICES ASSUME TypeOK, TypeOK', Follows, [Next]_vars PROVE Follows'
  OBVIOUS
<1>1. CASE Timer
  BY <1>1, TimerFollows
<1>2. CASE RecvNothing \/ RecvReport \/ RecvLeave \/ RecvQuery
  BY <1>2, RecvFollows
<1>3. CASE UNCHANGED <<table, left>>
  BY <1>3 DEF Follows, RulesFollowGroups, MembershipFollowsGroups, present, table
<1>4. CASE \E h \in Host, g \in Group : Join(h, g) \/ Answer(h, g) \/ Leave(h, g)
  BY <1>3, <1>4 DEF Join, Answer, Leave
<1>5. CASE \E d \in Rivals, lower \in BOOLEAN : RivalQuery(d, lower)
  BY <1>3, <1>5 DEF RivalQuery
<1>6. CASE Restart
  BY <1>6, RestartFollows
<1>7. CASE UNCHANGED vars
  BY <1>3, <1>7 DEF vars
<1> QED BY <1>1, <1>2, <1>4, <1>5, <1>6, <1>7 DEF Next

LEMMA FollowsInit == Init => Follows
<1> SUFFICES ASSUME Init PROVE Follows
  OBVIOUS
<1>1. \A d \in Down, g \in Group : ~present(d, g)
  BY DEF Init, present
<1>2. \A g \in Group : Having(g) = {} /\ rules[Main][g] = 0 /\ left[g] = 0
  BY <1>1, Numbers DEF Init, Having
<1>3. RulesFollowGroups
  BY <1>2, FS_EmptySet DEF RulesFollowGroups, Having
<1>4. MembershipFollowsGroups
  BY <1>1 DEF Init, MembershipFollowsGroups
<1> QED BY <1>3, <1>4 DEF Follows

\* For any number of downstream interfaces, and whatever expires or leaves on
\* several of them in one step, the copies of the rule of upstream_interface[0] are
\* exactly the interfaces that have the group and the leftovers of restarts.
THEOREM RulesBalanced == Spec => []RulesFollowGroups
<1>1. Follows => RulesFollowGroups
  BY DEF Follows
<1> QED BY <1>1, FollowsInit, FollowsStep, TypeCorrect, PTL DEF Spec

\* The kernel is a member of no group without an interface that has it and, with
\* one downstream interface, of every group on every upstream interface on which
\* it has not refused, for any limit on the memberships of a socket.
THEOREM MembershipExact == Spec => []MembershipFollowsGroups
<1>1. Follows => MembershipFollowsGroups
  BY DEF Follows
<1> QED BY <1>1, FollowsInit, FollowsStep, TypeCorrect, PTL DEF Spec

-----------------------------------------------------------------------------
(* A steady host keeps its group.  Three things buy it time: a report of   *)
(* its group that waits and will be read before the timer of the group     *)
(* runs out (Awaited), or the queries that are still to come, or an answer *)
(* that cannot be lost any more and is due (Enough).  With v queries in    *)
(* vain and a query every QI seconds, Need(v) is the time that must be     *)
(* left when the last query was sent.                                      *)

\* The loss of one answer in a row can be made good, and half of the response
\* interval is less than all of it.  The code has 2 and 10.
Robust == RV >= 2 /\ QRI >= 2

Least(a, b) == IF a <= b THEN a ELSE b

\* Packets that may wait without the buffer being crowded.
Slack == 1 + QRI - Response

\* Queries in vain: u of them unanswered, w seconds left to answer the last one.
Vain(u, w) == IF u < RV THEN u ELSE IF w > 0 THEN RV ELSE RV - 1

Need(v) == (RV - v) * QI + QRI

\* A querier with this silence and timer asks later than QI seconds after the last
\* query.
Danger(s, t) == s >= QI \/ s + t > QI

\* The timer T of a group is enough on an interface that has been silent for s
\* seconds, when q says whether the proxy is querier, t and o are its timers, u
\* and w are as in Vain, and the timers are yet to be served in this pass or not.
Enough(T, s, q, t, o, u, w, yet) ==
    IF Vain(u, w) = RV THEN T >= w + QRI - Response + IF yet THEN 1 ELSE 0
    ELSE /\ T + Least(s, QI) >= Need(Vain(u, w))
         /\ q /\ Danger(s, t) => T + Least(s, QI) > Need(Vain(u, w))
         /\ ~q => T + Least(s, QI) > Need(Vain(u, w)) \/ T - o <= IGMP_GMI - IGMP_OQPI

LEMMA Needs ==
    /\ QRI \in Nat /\ QRI >= Response
    /\ Need(0) = IGMP_GMI
    /\ Need(RV) = QRI
    /\ \A v \in 0 .. RV : Need(v) \in Nat /\ Need(v) <= IGMP_GMI
    /\ \A v \in 0 .. RV - 1 : Need(v + 1) = Need(v) - QI /\ Need(v) >= QI + QRI
    /\ \A v \in 1 .. RV : Need(v) <= IGMP_GMI - QI
<1>1. QRI \in Nat /\ QRI >= Response /\ QI \in Nat /\ QI >= 1 /\ RV \in Nat /\ RV >= 1
  BY IgmpAssumption
<1>2. Need(0) = IGMP_GMI
  BY <1>1 DEF Need, IGMP_GMI
<1>3. Need(RV) = QRI
  BY <1>1 DEF Need
<1>4. ASSUME NEW a \in Nat, NEW b \in Nat, a <= b PROVE a * QI <= b * QI /\ a * QI \in Nat
  BY <1>1, <1>4
<1>5. ASSUME NEW v \in 0 .. RV PROVE Need(v) \in Nat /\ Need(v) <= IGMP_GMI
  <2>1. RV - v \in Nat /\ RV - v <= RV
    BY <1>1
  <2>2. (RV - v) * QI <= RV * QI /\ (RV - v) * QI \in Nat /\ RV * QI \in Nat
    BY <1>1, <1>4, <2>1
  <2> QED BY <1>1, <2>2 DEF Need, IGMP_GMI
<1>6. ASSUME NEW v \in 0 .. RV - 1 PROVE Need(v + 1) = Need(v) - QI /\ Need(v) >= QI + QRI
  <2>1. v \in Int /\ RV - v \in Nat /\ RV - v >= 1
    BY <1>1
  <2>2. (RV - (v + 1)) * QI = (RV - v) * QI - QI
    BY <1>1, <2>1
  <2>3. 1 * QI <= (RV - v) * QI /\ (RV - v) * QI \in Nat
    BY <1>1, <1>4, <2>1
  <2> QED BY <1>1, <2>2, <2>3 DEF Need
<1>7. ASSUME NEW v \in 1 .. RV PROVE Need(v) <= IGMP_GMI - QI
  <2>1. v - 1 \in 0 .. RV - 1 /\ v - 1 \in 0 .. RV /\ (v - 1) + 1 = v
    BY <1>1
  <2>2. Need(v) = Need(v - 1) - QI
    BY <1>6, <2>1
  <2>3. Need(v - 1) <= IGMP_GMI /\ Need(v - 1) \in Nat
    BY <1>5, <2>1
  <2> HIDE DEF Need
  <2> QED BY <1>1, <2>2, <2>3, Intervals
<1> QED BY <1>1, <1>2, <1>3, <1>5, <1>6, <1>7

\* What IGMP_OQPI leaves of IGMP_GMI is less than the response interval.
LEMMA OtherQuerier == ASSUME Robust PROVE IGMP_GMI - IGMP_OQPI < QRI
<1>1. QRI \div 2 >= 1 /\ QRI \div 2 \in Nat /\ QRI \in Nat
  BY IgmpAssumption DEF Robust
<1>2. RV * QI \in Nat
  BY Numbers
<1> QED BY <1>1, <1>2 DEF IGMP_GMI, IGMP_OQPI

LEMMA VainType ==
    ASSUME NEW u \in 0 .. RV + 1, NEW w \in 0 .. Response
    PROVE  /\ Vain(u, w) \in 0 .. RV
           /\ Vain(u, w) = RV <=> u >= RV /\ w > 0
           /\ u < RV => Vain(u, w) = u
BY Numbers DEF Vain

\* The quantities of Enough.
LEMMA EnoughServes ==
    ASSUME NEW T \in 0 .. IGMP_GMI, NEW s \in Nat, NEW q \in BOOLEAN, NEW t \in 0 .. QI, NEW o \in Nat,
           NEW u \in 0 .. RV + 1, NEW w \in 0 .. Response, NEW yet \in BOOLEAN,
           Enough(T, s, q, t, o, u, w, yet)
    PROVE  T >= Slack /\ T >= 1
<1> DEFINE v == Vain(u, w)
<1>1. v \in 0 .. RV /\ (v = RV <=> u >= RV /\ w > 0)
  BY VainType
<1>2. CASE v = RV
  <2>1. T >= w + QRI - Response /\ w >= 1
    <3>1. CASE yet
      BY <1>1, <1>2, <3>1, Needs, Numbers, Intervals DEF Enough
    <3>2. CASE ~yet
      BY <1>1, <1>2, <3>2, Needs, Numbers, Intervals DEF Enough
    <3> QED BY <3>1, <3>2
  <2> QED BY <2>1, Needs, Numbers, Intervals DEF Slack
<1>3. CASE v # RV
  <2>1. T + Least(s, QI) >= Need(v)
    BY <1>3 DEF Enough
  <2>2. v \in 0 .. RV - 1
    BY <1>1, <1>3, Numbers
  <2>3. Need(v) >= QI + QRI /\ Need(v) \in Nat
    BY <1>1, <2>2, Needs
  <2> HIDE DEF v, Need
  <2> QED BY <2>1, <2>3, Needs, Numbers, Intervals DEF Slack, Least
<1> QED BY <1>2, <1>3

\* The timers are served and nobody asks.
LEMMA EnoughTick ==
    ASSUME Robust,
           NEW T \in 0 .. IGMP_GMI, NEW s \in Nat, NEW q \in BOOLEAN, NEW t \in 0 .. QI, NEW o \in Nat,
           NEW u \in 0 .. RV + 1, NEW w \in 0 .. Response,
           Enough(T, s, q, t, o, u, w, TRUE), s + 1 <= QI,
           NEW T2, T2 = T - 1, NEW s2, s2 = s + 1,
           NEW q2 \in BOOLEAN, NEW t2 \in Int, NEW o2 \in Int,
           q => t >= 2 /\ q2 /\ t2 = t - 1,
           ~q => o >= 1 /\ o2 = o - 1 /\ (q2 => o = 1)
    PROVE  Enough(T2, s2, q2, t2, o2, u, w, FALSE)
<1> DEFINE v == Vain(u, w)
<1>1. v \in 0 .. RV
  BY VainType
<1>2. CASE v = RV
  BY <1>2, Needs, Numbers, Intervals DEF Enough
<1>3. CASE v # RV
  <2> DEFINE n == Need(v)
  <2>1. v \in 0 .. RV - 1
    BY <1>1, <1>3, Numbers
  <2>2. n >= QI + QRI /\ n \in Nat
    BY <1>1, <2>1, Needs
  <2>3. Least(s, QI) = s /\ Least(s + 1, QI) = s + 1 /\ QI \in Nat /\ QRI \in Nat
    BY Numbers, Needs DEF Least
  <2>4. /\ T + s >= n
        /\ q /\ Danger(s, t) => T + s > n
        /\ ~q => T + s > n \/ T - o <= IGMP_GMI - IGMP_OQPI
    BY <1>3, <2>3 DEF Enough
  <2>5. T \in Int /\ (T - 1) + (s + 1) = T + s
    OBVIOUS
  <2> HIDE DEF n
  <2>6. q2 /\ Danger(s + 1, t2) => T + s > n
    <3>1. CASE q
      <4>1. Danger(s + 1, t2) => Danger(s, t)
        BY <2>3, <3>1 DEF Danger
      <4> QED BY <2>4, <3>1, <4>1
    <3>2. CASE ~q
      <4> SUFFICES ASSUME q2 PROVE T + s > n
        OBVIOUS
      <4>1. o = 1
        BY <3>2
      <4>2. T - 1 <= IGMP_GMI - IGMP_OQPI => T - 1 < QRI
        BY OtherQuerier, Intervals, <2>3
      <4>3. T - 1 >= QRI
        BY <2>2, <2>3, <2>4, <2>5
      <4> QED BY <2>3, <2>4, <3>2, <4>1, <4>2, <4>3
    <3> QED BY <3>1, <3>2
  <2>7. ~q2 => T + s > n \/ (T - 1) - o2 <= IGMP_GMI - IGMP_OQPI
    <3> SUFFICES ASSUME ~q2 PROVE T + s > n \/ (T - 1) - o2 <= IGMP_GMI - IGMP_OQPI
      OBVIOUS
    <3>1. ~q /\ o2 = o - 1
      OBVIOUS
    <3>2. (T - 1) - o2 = T - o
      BY <2>5, <3>1
    <3> QED BY <2>4, <3>1, <3>2
  <2> QED BY <1>3, <2>3, <2>4, <2>5, <2>6, <2>7 DEF Enough, n
<1> QED BY <1>2, <1>3

\* One more query: the time that is needed shrinks by QI.
LEMMA EnoughQuery ==
    ASSUME NEW T \in 0 .. IGMP_GMI, NEW q \in BOOLEAN, NEW t \in 0 .. QI, NEW o \in Int,
           NEW u \in 0 .. RV + 1, NEW w \in 0 .. Response, Vain(u, w) # RV,
           NEW w2 \in 1 .. Response,
           T >= Need(Vain(u, w)) - QI,
           ~q => T > Need(Vain(u, w)) - QI \/ T - o <= IGMP_GMI - IGMP_OQPI
    PROVE  Enough(T, 0, q, t, o, More(u), w2, FALSE)
<1> DEFINE v == Vain(u, w)
           n == Need(v)
<1>1. v \in 0 .. RV - 1 /\ More(u) \in 0 .. RV + 1 /\ w2 \in 0 .. Response
  BY VainType, Numbers DEF More
<1>2. Need(v + 1) = n - QI /\ Need(RV) = QRI /\ n \in Nat
  <2>1. v \in 0 .. RV
    BY VainType
  <2> HIDE DEF v
  <2> QED BY <1>1, <2>1, Needs
<1>3. \/ More(u) = v + 1 /\ v + 1 < RV
      \/ More(u) >= RV /\ v + 1 = RV
  BY Numbers DEF Vain, More
<1>4. CASE More(u) = v + 1 /\ v + 1 < RV
  <2>1. Vain(More(u), w2) = v + 1 /\ v + 1 # RV
    BY <1>1, <1>4, VainType, Numbers
  <2>2. Least(0, QI) = 0 /\ ~Danger(0, t) /\ T + 0 = T
    BY Numbers DEF Least, Danger
  <2> HIDE DEF n, v
  <2> QED BY <1>2, <2>1, <2>2 DEF Enough, n, v
<1>5. CASE More(u) >= RV /\ v + 1 = RV
  <2>1. Vain(More(u), w2) = RV
    BY <1>1, <1>5, VainType, Numbers
  <2>2. T >= QRI
    BY <1>2, <1>5
  <2>3. T >= w2 + QRI - Response + 0
    BY <2>2, Needs, Numbers, Intervals
  <2> QED BY <2>1, <2>3 DEF Enough
<1> QED BY <1>3, <1>4, <1>5

\* The proxy asks.
LEMMA EnoughAsk ==
    ASSUME NEW T \in 1 .. IGMP_GMI, NEW s \in Nat, NEW t \in 0 .. 1, NEW o \in Nat,
           NEW u \in 0 .. RV + 1, NEW w \in 0 .. Response,
           Enough(T, s, TRUE, t, o, u, w, TRUE), 
           NEW w2 \in 1 .. Response, w > 0 => w2 = w, NEW o2 \in Int
    PROVE  Enough(T - 1, 0, TRUE, QI, o2, More(u), w2, FALSE)
<1> DEFINE v == Vain(u, w)
           n == Need(v)
<1>1. v \in 0 .. RV /\ (v = RV <=> u >= RV /\ w > 0)
  BY VainType
<1>2. CASE v = RV
  <2>1. More(u) \in 0 .. RV + 1 /\ More(u) >= RV /\ w2 = w /\ w > 0
    BY <1>1, <1>2, Numbers DEF More
  <2>2. Vain(More(u), w2) = RV
    BY <2>1, VainType
  <2>3. T >= w + QRI - Response + 1
    BY <1>2 DEF Enough
  <2>4. T - 1 >= w2 + QRI - Response + 0
    BY <2>1, <2>3, Needs, Numbers, Intervals
  <2> QED BY <2>2, <2>4 DEF Enough
<1>3. CASE v # RV
  <2>1. T + Least(s, QI) >= n /\ (Danger(s, t) => T + Least(s, QI) > n)
    BY <1>3 DEF Enough
  <2>2. n \in Nat /\ QI \in Nat /\ T - 1 \in 0 .. IGMP_GMI /\ QI \in 0 .. QI
    BY <1>1, Needs, Numbers, Intervals
  <2> HIDE DEF n
  <2>3. T - 1 >= n - QI
    <3>1. CASE Danger(s, t)
      BY <2>1, <2>2, <3>1 DEF Least
    <3>2. CASE ~Danger(s, t)
      BY <2>1, <2>2, <3>2 DEF Least, Danger
    <3> QED BY <3>1, <3>2
  <2> QED BY <1>3, <2>2, <2>3, EnoughQuery DEF n
<1> QED BY <1>2, <1>3

\* Another router asks.
LEMMA EnoughRival ==
    ASSUME NEW T \in 0 .. IGMP_GMI, NEW s \in Nat, NEW q \in BOOLEAN, NEW t \in 0 .. QI, NEW o \in Nat,
           NEW u \in 0 .. RV + 1, NEW w \in 0 .. Response,
           Enough(T, s, q, t, o, u, w, FALSE), s <= QI,
           NEW w2 \in 1 .. Response, w > 0 => w2 = w
    PROVE  Enough(T, 0, q, t, o, More(u), w2, FALSE)
<1> DEFINE v == Vain(u, w)
           n == Need(v)
<1>1. v \in 0 .. RV /\ (v = RV <=> u >= RV /\ w > 0)
  BY VainType
<1>2. CASE v = RV
  <2>1. More(u) \in 0 .. RV + 1 /\ More(u) >= RV /\ w2 = w /\ w > 0
    BY <1>1, <1>2, Numbers DEF More
  <2>2. Vain(More(u), w2) = RV
    BY <2>1, VainType
  <2>3. T >= w + QRI - Response + 0
    BY <1>2 DEF Enough
  <2> QED BY <2>1, <2>2, <2>3 DEF Enough
<1>3. CASE v # RV
  <2>1. /\ T + s >= n
        /\ ~q => T + s > n \/ T - o <= IGMP_GMI - IGMP_OQPI
    <3>1. Least(s, QI) = s
      BY DEF Least
    <3> QED BY <1>3, <3>1 DEF Enough
  <2>2. n \in Nat /\ QI \in Nat /\ T \in Int
    BY <1>1, Needs, Numbers
  <2> HIDE DEF n
  <2>3. T >= n - QI /\ (T + s > n => T > n - QI)
    BY <2>1, <2>2
  <2>4. ~q => T > n - QI \/ T - o <= IGMP_GMI - IGMP_OQPI
    BY <2>1, <2>3
  <2>5. o \in Int
    OBVIOUS
  <2> QED BY <1>3, <2>3, <2>4, <2>5, EnoughQuery DEF n
<1> QED BY <1>2, <1>3

\* A second passes; an answer that is due in it has been given.
LEMMA EnoughSecond ==
    ASSUME NEW T \in 0 .. IGMP_GMI, NEW s \in Nat, NEW q \in BOOLEAN, NEW t \in 0 .. QI, NEW o \in Nat,
           NEW u \in 0 .. RV + 1, NEW w \in 0 .. Response,
           Enough(T, s, q, t, o, u, w, FALSE), w # 1,
           NEW w2, w2 = IF w = 0 THEN 0 ELSE w - 1
    PROVE  Enough(T, s, q, t, o, u, w2, TRUE)
<1>1. w2 \in 0 .. Response /\ (w2 > 0 <=> w > 0)
  BY Numbers
<1>2. Vain(u, w2) = Vain(u, w)
  BY <1>1 DEF Vain
<1>3. CASE Vain(u, w) = RV
  <2>1. T >= w + QRI - Response + 0 /\ w > 0
    BY <1>3, VainType DEF Enough
  <2>2. T >= w2 + QRI - Response + 1
    BY <2>1, Needs, Numbers, Intervals
  <2> QED BY <1>2, <1>3, <2>2 DEF Enough
<1>4. CASE Vain(u, w) # RV
  BY <1>2, <1>4 DEF Enough
<1> QED BY <1>3, <1>4

\* The proxy stands back.
LEMMA EnoughStandsBack ==
    ASSUME NEW T \in 0 .. IGMP_GMI, NEW s \in Nat, NEW q \in BOOLEAN, NEW t \in 0 .. QI, NEW o \in Nat,
           NEW u \in 0 .. RV + 1, NEW w \in 0 .. Response,
           Enough(T, s, q, t, o, u, w, TRUE)
    PROVE  Enough(T, s, FALSE, t, IGMP_OQPI, u, w, TRUE)
<1>1. T - IGMP_OQPI <= IGMP_GMI - IGMP_OQPI
  BY Intervals
<1> QED BY <1>1 DEF Enough

\* A report is read.
LEMMA EnoughAnew ==
    ASSUME Robust, NEW s \in Nat, NEW q \in BOOLEAN, NEW t \in 0 .. QI, NEW o \in Nat,
           NEW u \in 0 .. RV + 1, NEW w \in 0 .. Response,
           s = 0 /\ ~q => u > 0
    PROVE  Enough(IGMP_GMI, s, q, t, o, u, w, TRUE)
<1> DEFINE v == Vain(u, w)
           n == Need(v)
<1>1. v \in 0 .. RV /\ (u > 0 => v > 0)
  BY Numbers DEF Robust, Vain
<1>2. n \in Nat /\ n <= IGMP_GMI /\ (v > 0 => n <= IGMP_GMI - QI)
  BY <1>1, Needs
<1>3. CASE v = RV
  <2>1. IGMP_GMI - QI >= QRI
    BY <1>2, <1>3, Needs, Numbers
  <2>2. IGMP_GMI >= w + QRI - Response + 1
    BY <2>1, Needs, Numbers, Intervals
  <2> QED BY <1>3, <2>2 DEF Enough
<1>4. CASE v # RV
  <2> DEFINE m == IGMP_GMI
             l == Least(s, QI)
  <2>1. l \in Nat /\ (s > 0 => l > 0) /\ m \in Nat /\ QI \in Nat /\ QI > 0
    BY Numbers, Intervals DEF Least
  <2>2. Danger(s, t) => s > 0
    BY Numbers DEF Danger
  <2> HIDE DEF n, m, l, v
  <2>3. m + l >= n /\ (s > 0 => m + l > n) /\ (v > 0 => m + l > n)
    BY <1>2, <2>1 DEF m
  <2>4. ~q => s > 0 \/ v > 0
    BY <1>1
  <2> QED BY <1>4, <2>2, <2>3, <2>4 DEF Enough, n, m, l, v
<1> QED BY <1>3, <1>4

\* While an answer may be lost it does not matter when it is due.
LEMMA EnoughLost ==
    ASSUME NEW T, NEW s, NEW q, NEW t, NEW o, NEW u \in 0 .. RV + 1, NEW w \in 0 .. Response,
           NEW w2 \in 0 .. Response, NEW yet, u < RV, Enough(T, s, q, t, o, u, w, yet)
    PROVE  Enough(T, s, q, t, o, u, w2, yet)
<1>1. Vain(u, w) = u /\ Vain(u, w2) = u /\ u # RV
  BY Numbers DEF Vain
<1> QED BY <1>1 DEF Enough

\* A report of the group from the interface is the i-th packet that waits.
ReportAt(d, g, i) ==
    /\ i \in DOMAIN inbox
    /\ inbox[i].type = "report"
    /\ inbox[i].group = g
    /\ home[inbox[i].host] = d

\* One waits that is read before the timer runs out, unless the buffer is crowded.
Awaited(d, g) ==
    \E i \in DOMAIN inbox :
        /\ ReportAt(d, g, i)
        /\ IF phase = "timer" THEN timer[d][g] > i ELSE timer[d][g] >= Least(i, Slack)

Covered(d, g, w) ==
    Enough(timer[d][g], silence[d], isquerier[d], ti_qi[d], oqp[d], unanswered[d][g], w, phase = "timer")

Kept(h, g) ==
    /\ <<h, g>> \in wants
    /\ h \in members[home[h]][g]
    /\ ~Leaving(<<h, g>>)
    /\ phase = "sleep" => silence[home[h]] <= QI
    /\ Awaited(home[h], g) \/ Covered(home[h], g, due[<<h, g>>])

AllKept == \A h \in Host, g \in Group : <<h, g>> \in steady => Kept(h, g)

\* When the query is this second's and not the proxy's, it waits, and so does every
\* report that has come after it.
Fresh ==
    \A d \in Down :
        phase = "sleep" /\ silence[d] = 0 /\ ~isquerier[d] =>
            /\ inbox # <<>>
            /\ \A g \in Group : unanswered[d][g] > 0 \/ \E i \in DOMAIN inbox : i > 1 /\ ReportAt(d, g, i)

LEMMA TableType ==
    ASSUME TypeOK, NEW h \in Host, NEW g \in Group
    PROVE  /\ home[h] \in Down
           /\ timer[home[h]][g] \in 0 .. IGMP_GMI
           /\ silence[home[h]] \in Nat
           /\ isquerier[home[h]] \in BOOLEAN
           /\ ti_qi[home[h]] \in 0 .. QI
           /\ oqp[home[h]] \in Nat
           /\ unanswered[home[h]][g] \in 0 .. RV + 1
           /\ due[<<h, g>>] \in 0 .. Response
           /\ inbox \in Seq(Packet)
<1>1. home[h] \in Down
  BY Numbers
<1>2. <<h, g>> \in Host \X Group
  OBVIOUS
<1> QED BY <1>1, <1>2, Intervals DEF TypeOK

LEMMA Queued ==
    ASSUME inbox \in Seq(Packet), NEW p, p \in Packet, Queue(p) \/ UNCHANGED inbox
    PROVE  /\ inbox # <<>> => inbox' # <<>>
           /\ \A i \in DOMAIN inbox : i \in DOMAIN inbox' /\ inbox'[i] = inbox[i]
           /\ \A i \in DOMAIN inbox' : (i \in DOMAIN inbox /\ inbox'[i] = inbox[i]) \/ inbox'[i] = p
<1>1. CASE inbox' = inbox
  BY <1>1
<1>2. CASE inbox' = Append(inbox, p)
  <2>1. /\ Len(inbox') = Len(inbox) + 1
        /\ \A i \in 1 .. Len(inbox) : inbox'[i] = inbox[i]
        /\ inbox'[Len(inbox) + 1] = p
        /\ inbox' \in Seq(Packet)
    BY <1>2
  <2>2. DOMAIN inbox = 1 .. Len(inbox) /\ DOMAIN inbox' = 1 .. Len(inbox) + 1 /\ Len(inbox) \in Nat
    BY <2>1
  <2>3. inbox' # <<>>
    BY <2>1, <2>2
  <2> HIDE <1>2
  <2> QED BY <2>1, <2>2, <2>3
<1> QED BY <1>1, <1>2 DEF Queue

LEMMA QueuedLast ==
    ASSUME inbox \in Seq(Packet), NEW p, p \in Packet, ~Full, Queue(p)
    PROVE  /\ Len(inbox) + 1 \in DOMAIN inbox' /\ inbox'[Len(inbox) + 1] = p
           /\ Len(inbox) \in Nat
           /\ inbox # <<>> => Len(inbox) > 0
BY DEF Queue

LEMMA AwaitedKept ==
    ASSUME inbox \in Seq(Packet), NEW p, p \in Packet, Queue(p) \/ UNCHANGED inbox,
           UNCHANGED <<phase, timer>>, NEW d, NEW g, Awaited(d, g)
    PROVE  Awaited(d, g)'
<1>1. PICK i \in DOMAIN inbox :
         /\ ReportAt(d, g, i)
         /\ IF phase = "timer" THEN timer[d][g] > i ELSE timer[d][g] >= Least(i, Slack)
  BY DEF Awaited
<1>2. i \in DOMAIN inbox' /\ inbox'[i] = inbox[i]
  BY Queued
<1>3. ReportAt(d, g, i)'
  BY <1>1, <1>2 DEF ReportAt
<1> QED BY <1>1, <1>2, <1>3 DEF Awaited

\* A report that joins the buffer now will be read in time.
LEMMA AwaitedAnew ==
    ASSUME TypeOK, NEW h \in Host, NEW g \in Group, phase = "sleep",
           UNCHANGED <<phase, timer>>, ~Full, Queue([type |-> "report", host |-> h, group |-> g]),
           timer[home[h]][g] >= Slack
    PROVE  Awaited(home[h], g)'
<1> DEFINE p == [type |-> "report", host |-> h, group |-> g]
<1>1. p \in Packet /\ p.type = "report" /\ p.host = h /\ p.group = g
  BY DEF Packet
<1>2. PICK i \in Nat : i \in DOMAIN inbox' /\ inbox'[i] = p
  <2>1. inbox \in Seq(Packet) /\ Queue(p)
    BY DEF TypeOK
  <2> HIDE DEF p
  <2>2. Len(inbox) + 1 \in DOMAIN inbox' /\ inbox'[Len(inbox) + 1] = p /\ Len(inbox) \in Nat
    BY <1>1, <2>1, QueuedLast
  <2> QED BY <2>2
<1> HIDE DEF p
<1>3. ReportAt(home[h], g, i)'
  BY <1>1, <1>2 DEF ReportAt
<1>4. timer[home[h]][g] \in 0 .. IGMP_GMI
  BY TableType
<1>5. timer[home[h]][g] \in Int /\ Slack \in Int
  BY <1>4, Needs, Numbers, Intervals DEF Slack
<1>6. timer'[home[h]][g] >= Least(i, Slack)
  BY <1>5 DEF Least
<1>7. phase' # "timer"
  OBVIOUS
<1> QED BY <1>2, <1>3, <1>6, <1>7 DEF Awaited

LEMMA LeavingKept ==
    ASSUME inbox \in Seq(Packet), NEW p, p \in Packet, Queue(p) \/ UNCHANGED inbox, NEW x, ~Leaving(x),
           p # [type |-> "leave", host |-> x[1], group |-> x[2]]
    PROVE  ~Leaving(x)'
<1>1. ASSUME NEW i \in DOMAIN inbox' PROVE inbox'[i] # [type |-> "leave", host |-> x[1], group |-> x[2]]
  <2>1. (i \in DOMAIN inbox /\ inbox'[i] = inbox[i]) \/ inbox'[i] = p
    BY Queued
  <2> QED BY <2>1 DEF Leaving
<1> QED BY <1>1 DEF Leaving

\* Hosts and other routers act: the table and the buffered packets stay.
LEMMA LanKeptOne ==
    ASSUME TypeOK, UNCHANGED <<phase, timer, members>>,
           NEW p, p \in Packet, Queue(p) \/ UNCHANGED inbox,
           NEW h \in Host, NEW g \in Group, Kept(h, g),
           p # [type |-> "leave", host |-> h, group |-> g],
           <<h, g>> \in wants', silence'[home[h]] <= silence[home[h]], silence'[home[h]] \in Nat,
           Covered(home[h], g, due[<<h, g>>])
             => Awaited(home[h], g)' \/ Covered(home[h], g, due[<<h, g>>])'
    PROVE  Kept(h, g)'
<1>1. inbox \in Seq(Packet)
  BY DEF TypeOK
<1>2. ~Leaving(<<h, g>>)'
  <2>1. <<h, g>>[1] = h /\ <<h, g>>[2] = g /\ ~Leaving(<<h, g>>)
    BY DEF Kept
  <2> QED BY <1>1, <2>1, LeavingKept
<1>3. Awaited(home[h], g) => Awaited(home[h], g)'
  BY <1>1, AwaitedKept
<1>4. Awaited(home[h], g)' \/ Covered(home[h], g, due[<<h, g>>])'
  BY <1>3 DEF Kept
<1>5. phase' = "sleep" => silence'[home[h]] <= QI
  <2>1. phase = "sleep" => silence[home[h]] <= QI
    BY DEF Kept
  <2>2. silence[home[h]] \in Nat
    BY TableType
  <2> QED BY <2>1, <2>2, Numbers
<1>6. h \in members'[home[h]][g]
  BY DEF Kept
<1> QED BY <1>2, <1>4, <1>5, <1>6 DEF Kept

\* Somebody joins.
LEMMA JoinKept ==
    ASSUME TypeOK, AllKept, NEW a \in Host, NEW k \in Group, Join(a, k)
    PROVE  AllKept'
<1> SUFFICES ASSUME NEW h \in Host, NEW g \in Group, <<h, g>> \in steady' PROVE Kept(h, g)'
  BY DEF AllKept
<1> DEFINE p == [type |-> "report", host |-> a, group |-> k]
<1>1. /\ phase = "sleep"
      /\ UNCHANGED <<phase, timer, members, isquerier, ti_qi, oqp, due, silence>>
      /\ steady' = steady
      /\ wants' = wants \cup {<<a, k>>}
  BY DEF Join, table, querier
<1>2. Kept(h, g)
  BY <1>1 DEF AllKept
<1>3. PICK lost \in BOOLEAN : Report(a, k, lost)
  BY DEF Join
<1>4. p \in Packet /\ p # [type |-> "leave", host |-> h, group |-> g]
  BY DEF Packet
<1>5. Queue(p) \/ UNCHANGED inbox
  BY <1>3 DEF Report
<1>6. <<h, g>> \in wants'
  BY <1>1, <1>2 DEF Kept
<1>7. silence'[home[h]] <= silence[home[h]] /\ silence'[home[h]] \in Nat
  BY <1>1, TableType
<1>8. ASSUME Covered(home[h], g, due[<<h, g>>])
      PROVE  Awaited(home[h], g)' \/ Covered(home[h], g, due[<<h, g>>])'
  <2>1. CASE ~lost /\ ~Full /\ home[h] = home[a] /\ g = k
    <3>1. timer[home[a]][k] >= Slack
      BY <1>8, <2>1, TableType, EnoughServes DEF Covered
    <3>2. Queue(p)
      BY <1>3, <2>1 DEF Report
    <3> QED BY <1>1, <2>1, <3>1, <3>2, AwaitedAnew
  <2>2. CASE ~(~lost /\ ~Full /\ home[h] = home[a] /\ g = k)
    <3>1. unanswered'[home[h]][g] = unanswered[home[h]][g]
      <4>1. CASE lost \/ Full
        BY <1>3, <4>1 DEF Report
      <4>2. CASE ~(lost \/ Full)
        <5>1. unanswered' = [unanswered EXCEPT ![home[a]][k] = 0]
          BY <1>3, <4>2 DEF Report
        <5>2. home[h] # home[a] \/ g # k
          BY <2>2, <4>2
        <5> QED BY <5>1, <5>2, TableType DEF TypeOK
      <4> QED BY <4>1, <4>2
    <3> QED BY <1>1, <1>8, <3>1 DEF Covered
  <2> QED BY <2>1, <2>2
<1> HIDE DEF p
<1> QED BY <1>1, <1>2, <1>4, <1>5, <1>6, <1>7, <1>8, LanKeptOne

\* Somebody answers for the group of the host or for another one.
LEMMA AnswerKept ==
    ASSUME TypeOK, TypeOK', AllKept, NEW a \in Host, NEW k \in Group, Answer(a, k)
    PROVE  AllKept'
<1> SUFFICES ASSUME NEW h \in Host, NEW g \in Group, <<h, g>> \in steady' PROVE Kept(h, g)'
  BY DEF AllKept
<1> DEFINE p == [type |-> "report", host |-> a, group |-> k]
           x == <<h, g>>
<1>1. /\ phase = "sleep"
      /\ UNCHANGED <<phase, timer, members, isquerier, ti_qi, oqp, wants, silence>>
      /\ steady' = IF Full THEN {} ELSE steady
  BY DEF Answer, table, querier
<1>2. ~Full /\ Kept(h, g)
  BY <1>1 DEF AllKept
<1>3. PICK lost \in BOOLEAN, deaf \in SUBSET (Host \ {a}) :
        /\ lost => unanswered[home[a]][k] < RV
        /\ Report(a, k, lost)
        /\ due' = [y \in Host \X Group |->
                     IF y[2] = k /\ home[y[1]] = home[a] /\ y[1] \notin deaf THEN 0 ELSE due[y]]
  BY DEF Answer
<1>4. p \in Packet /\ p # [type |-> "leave", host |-> h, group |-> g]
  BY DEF Packet
<1>5. Queue(p) \/ UNCHANGED inbox
  BY <1>3 DEF Report
<1>6. x \in wants'
  BY <1>1, <1>2 DEF Kept
<1>7. silence'[home[h]] <= silence[home[h]] /\ silence'[home[h]] \in Nat
  BY <1>1, TableType
<1>8. ASSUME Covered(home[h], g, due[x])
      PROVE  Awaited(home[h], g)' \/ Covered(home[h], g, due[x])'
  <2>1. CASE home[h] = home[a] /\ g = k /\ ~lost
    <3>1. timer[home[a]][k] >= Slack
      BY <1>8, <2>1, TableType, EnoughServes DEF Covered
    <3>2. Queue(p)
      BY <1>2, <1>3, <2>1 DEF Report
    <3> QED BY <1>1, <1>2, <2>1, <3>1, <3>2, AwaitedAnew
  <2>2. CASE home[h] = home[a] /\ g = k /\ lost
    <3>1. unanswered' = unanswered /\ unanswered[home[h]][g] < RV
      BY <1>3, <2>2 DEF Report
    <3>2. due[x] \in 0 .. Response /\ due'[x] \in 0 .. Response /\ unanswered[home[h]][g] \in 0 .. RV + 1
      <4>1. x \in Host \X Group
        OBVIOUS
      <4> QED BY <4>1, TableType DEF TypeOK
    <3> HIDE DEF x
    <3>3. Covered(home[h], g, due'[x])
      BY <1>8, <3>1, <3>2, EnoughLost DEF Covered
    <3> QED BY <1>1, <3>1, <3>3 DEF Covered
  <2>3. CASE ~(home[h] = home[a] /\ g = k)
    <3>1. unanswered'[home[h]][g] = unanswered[home[h]][g]
      <4>1. CASE lost
        BY <1>3, <4>1 DEF Report
      <4>2. CASE ~lost
        <5>1. unanswered' = [unanswered EXCEPT ![home[a]][k] = 0]
          BY <1>2, <1>3, <4>2 DEF Report
        <5> QED BY <2>3, <5>1, TableType DEF TypeOK
      <4> QED BY <4>1, <4>2
    <3>2. due'[x] = due[x]
      BY <1>3, <2>3
    <3> HIDE DEF x
    <3> QED BY <1>1, <1>8, <3>1, <3>2 DEF Covered
  <2> QED BY <2>1, <2>2, <2>3
<1> HIDE DEF p
<1> QED BY <1>1, <1>2, <1>4, <1>5, <1>6, <1>7, <1>8, LanKeptOne

LEMMA LeaveKept ==
    ASSUME TypeOK, AllKept, NEW a \in Host, NEW k \in Group, Leave(a, k)
    PROVE  AllKept'
<1> SUFFICES ASSUME NEW h \in Host, NEW g \in Group, <<h, g>> \in steady' PROVE Kept(h, g)'
  BY DEF AllKept
<1> DEFINE p == [type |-> "leave", host |-> a, group |-> k]
           x == <<h, g>>
<1>1. /\ phase = "sleep"
      /\ UNCHANGED <<phase, timer, members, isquerier, ti_qi, oqp, silence, unanswered>>
      /\ steady' = steady \ {<<a, k>>}
      /\ wants' = wants \ {<<a, k>>}
      /\ due' = [due EXCEPT ![<<a, k>>] = 0]
      /\ Queue(p) \/ UNCHANGED inbox
  BY DEF Leave, table, querier
<1>2. Kept(h, g) /\ x # <<a, k>>
  BY <1>1 DEF AllKept
<1>3. p \in Packet /\ p # [type |-> "leave", host |-> h, group |-> g]
  <2>1. p \in Packet /\ p.host = a /\ p.group = k
    BY DEF Packet
  <2>2. h # a \/ g # k
    BY <1>2
  <2> QED BY <2>1, <2>2
<1>4. x \in wants'
  BY <1>1, <1>2 DEF Kept
<1>5. silence'[home[h]] <= silence[home[h]] /\ silence'[home[h]] \in Nat
  BY <1>1, TableType
<1>6. due'[x] = due[x]
  BY <1>1, <1>2 DEF TypeOK
<1>7. Covered(home[h], g, due[x]) => Covered(home[h], g, due[x])'
  <2> HIDE DEF x
  <2> QED BY <1>1, <1>6 DEF Covered
<1> HIDE DEF p
<1> QED BY <1>1, <1>2, <1>3, <1>4, <1>5, <1>7, LanKeptOne

LEMMA RivalKept ==
    ASSUME TypeOK, TypeOK', AllKept, NEW r \in Rivals, NEW lower \in BOOLEAN, RivalQuery(r, lower)
    PROVE  AllKept'
<1> SUFFICES ASSUME NEW h \in Host, NEW g \in Group, <<h, g>> \in steady' PROVE Kept(h, g)'
  BY DEF AllKept
<1> DEFINE p == [type |-> "query", down |-> r, lower |-> lower]
           x == <<h, g>>
           d == home[h]
<1>1. /\ phase = "sleep"
      /\ UNCHANGED <<phase, timer, members, isquerier, ti_qi, oqp, wants, steady>>
      /\ Queue(p)
      /\ silence' = [silence EXCEPT ![r] = 0]
      /\ unanswered' = Unanswered({r})
      /\ Hear({r}, due')
  BY DEF RivalQuery, table, querier
<1>2. Kept(h, g)
  BY <1>1 DEF AllKept
<1>3. p \in Packet /\ p # [type |-> "leave", host |-> h, group |-> g]
  <2>1. p \in Packet /\ p.type = "query"
    BY Numbers DEF Packet
  <2> QED BY <2>1
<1>4. x \in wants /\ x \in wants'
  BY <1>1, <1>2 DEF Kept
<1>5. d \in Down /\ r \in Down
  BY Numbers
<1>6. silence'[d] = (IF d = r THEN 0 ELSE silence[d]) /\ silence[d] \in Nat
  BY <1>1, <1>5, TableType DEF TypeOK
<1>7. unanswered'[d][g] = IF d = r THEN More(unanswered[d][g]) ELSE unanswered[d][g]
  BY <1>1, <1>5 DEF Unanswered
<1>8. ASSUME Covered(d, g, due[x]) PROVE Covered(d, g, due[x])'
  <2>1. x \in Host \X Group /\ x[1] = h
    OBVIOUS
  <2>2. due'[x] \in 0 .. Response /\ due[x] \in 0 .. Response
    BY <2>1 DEF TypeOK
  <2>3. IF d = r /\ due[x] = 0 THEN due'[x] > 0 ELSE due'[x] = due[x]
    BY <1>1, <1>4, <2>1 DEF Hear
  <2> HIDE DEF x
  <2>4. CASE d # r
    BY <1>1, <1>6, <1>7, <1>8, <2>3, <2>4 DEF Covered
  <2>5. CASE d = r
    <3>1. due'[x] \in 1 .. Response /\ (due[x] > 0 => due'[x] = due[x])
      BY <2>2, <2>3, <2>5
    <3>2. silence[d] <= QI
      BY <1>1, <1>2 DEF Kept
    <3>3. Enough(timer[d][g], silence[d], isquerier[d], ti_qi[d], oqp[d], unanswered[d][g], due[x], FALSE)
      BY <1>1, <1>8 DEF Covered
    <3>4. Enough(timer[d][g], 0, isquerier[d], ti_qi[d], oqp[d], More(unanswered[d][g]), due'[x], FALSE)
      <4>1. /\ timer[d][g] \in 0 .. IGMP_GMI /\ silence[d] \in Nat /\ isquerier[d] \in BOOLEAN
            /\ ti_qi[d] \in 0 .. QI /\ oqp[d] \in Nat /\ unanswered[d][g] \in 0 .. RV + 1
        BY TableType
      <4> HIDE DEF d
      <4> QED BY <2>2, <3>1, <3>2, <3>3, <4>1, EnoughRival
    <3>5. silence'[d] = 0 /\ unanswered'[d][g] = More(unanswered[d][g]) /\ (phase' = "timer") = FALSE
      BY <1>1, <1>6, <1>7, <2>5
    <3>6. Covered(d, g, due[x])' = Enough(timer[d][g], 0, isquerier[d], ti_qi[d], oqp[d],
                                          More(unanswered[d][g]), due'[x], FALSE)
      BY <1>1, <3>5 DEF Covered
    <3> QED BY <3>4, <3>6
  <2> QED BY <2>4, <2>5
<1>9. silence'[d] <= silence[d] /\ silence'[d] \in Nat
  BY <1>6
<1> HIDE DEF p
<1> QED BY <1>1, <1>2, <1>3, <1>4, <1>8, <1>9, LanKeptOne

\* The timers are served.
LEMMA TimerKept ==
    ASSUME Robust, TypeOK, TypeOK', Pending, AllKept, Timer
    PROVE  AllKept'
<1> SUFFICES ASSUME NEW h \in Host, NEW g \in Group, <<h, g>> \in steady' PROVE Kept(h, g)'
  BY DEF AllKept
<1> DEFINE x == <<h, g>>
           d == home[h]
<1>1. /\ phase = "timer" /\ phase' = "sleep"
      /\ UNCHANGED <<inbox, wants>>
      /\ Cleanup(Expired)
      /\ Hear(Asks, due')
      /\ unanswered' = Unanswered(Asks)
      /\ x \in steady /\ silence'[d] <= QI
  BY DEF Timer
<1>2. Kept(h, g)
  BY <1>1 DEF AllKept
<1>3. /\ d \in Down
      /\ timer[d][g] \in 0 .. IGMP_GMI /\ silence[d] \in Nat /\ isquerier[d] \in BOOLEAN
      /\ ti_qi[d] \in 0 .. QI /\ oqp[d] \in Nat /\ unanswered[d][g] \in 0 .. RV + 1
  BY TableType
<1>4. /\ x \in Host \X Group /\ x[1] = h
      /\ due[x] \in 0 .. Response /\ due'[x] \in 0 .. Response
  <2>1. x \in Host \X Group /\ x[1] = h
    OBVIOUS
  <2> QED BY <2>1 DEF TypeOK
<1>5. /\ silence'[d] = IF d \in Asks THEN 0 ELSE silence[d] + 1
      /\ unanswered'[d][g] = IF d \in Asks THEN More(unanswered[d][g]) ELSE unanswered[d][g]
      /\ timer'[d][g] = countdown(d, g)
      /\ ti_qi'[d] = IF ~isquerier[d] THEN ti_qi[d] ELSE IF d \in Asks THEN QI ELSE ti_qi[d] - 1
      /\ oqp'[d] = IF isquerier[d] \/ oqp[d] = 0 THEN oqp[d] ELSE oqp[d] - 1
      /\ isquerier'[d] = (isquerier[d] \/ igmprt_timer_querier(d))
  <2>1. unanswered'[d][g] = IF d \in Asks THEN More(unanswered[d][g]) ELSE unanswered[d][g]
    BY <1>1, <1>3 DEF Unanswered
  <2> HIDE DEF d
  <2> QED BY <1>3, <2>1 DEF Timer
<1>6. IF d \in Asks /\ due[x] = 0 THEN due'[x] > 0 ELSE due'[x] = due[x]
  <2>1. x \in wants
    BY <1>2 DEF Kept
  <2> QED BY <1>1, <1>4, <2>1 DEF Hear
<1> HIDE DEF x, d
<1>7. ASSUME Awaited(d, g) PROVE timer[d][g] >= 2 /\ Awaited(d, g)'
  <2>1. PICK i \in DOMAIN inbox : ReportAt(d, g, i) /\ timer[d][g] > i
    BY <1>1, <1>7 DEF Awaited
  <2>2. i \in Nat /\ i >= 1
    <3>1. inbox \in Seq(Packet)
      BY DEF TypeOK
    <3> QED BY <3>1
  <2>3. timer[d][g] >= 2 /\ timer'[d][g] = timer[d][g] - 1
    BY <1>3, <1>5, <2>1, <2>2, Intervals DEF countdown, present
  <2>4. Slack \in Int
    BY Needs, Numbers DEF Slack
  <2>5. timer'[d][g] >= Least(i, Slack)
    BY <1>3, <2>1, <2>2, <2>3, <2>4, Intervals DEF Least
  <2>6. ReportAt(d, g, i)' /\ i \in DOMAIN inbox'
    BY <1>1, <2>1 DEF ReportAt
  <2> QED BY <1>1, <2>3, <2>5, <2>6 DEF Awaited
<1>8. ASSUME Covered(d, g, due[x]) PROVE Covered(d, g, due[x])'
  <2> DEFINE T == timer[d][g]
             s == silence[d]
             q == isquerier[d]
             t == ti_qi[d]
             o == oqp[d]
             u == unanswered[d][g]
             w == due[x]
  <2>1. Enough(T, s, q, t, o, u, w, TRUE)
    BY <1>1, <1>8 DEF Covered
  <2>2. T >= 1 /\ timer'[d][g] = T - 1
    <3>1. T >= 1
      BY <1>3, <1>4, <2>1, EnoughServes
    <3> QED BY <1>3, <1>5, <3>1, Intervals DEF countdown, present
  <2>3. Covered(d, g, due[x])' = Enough(T - 1, silence'[d], isquerier'[d], ti_qi'[d], oqp'[d],
                                        unanswered'[d][g], due'[x], FALSE)
    BY <1>1, <2>2 DEF Covered
  <2>4. CASE d \in Asks
    <3>1. q /\ t \in 0 .. 1 /\ q = TRUE
      BY <1>3, <2>4 DEF Asks
    <3>2. silence'[d] = 0 /\ isquerier'[d] = TRUE /\ ti_qi'[d] = QI /\ oqp'[d] = o
          /\ unanswered'[d][g] = More(u)
      BY <1>5, <2>4, <3>1
    <3>3. due'[x] \in 1 .. Response /\ (w > 0 => due'[x] = w)
      BY <1>4, <1>6, <2>4
    <3>4. T \in 1 .. IGMP_GMI /\ o \in Int
      BY <1>3, <2>2, Intervals
    <3>5. Enough(T, s, TRUE, t, o, u, w, TRUE)
      BY <2>1, <3>1
    <3>6. Enough(T - 1, 0, TRUE, QI, o, More(u), due'[x], FALSE)
      <4> HIDE DEF T, s, q, t, o, u, w
      <4>1. s \in Nat /\ u \in 0 .. RV + 1 /\ w \in 0 .. Response /\ o \in Nat
        BY <1>3, <1>4 DEF s, u, w, o
      <4> QED BY <3>1, <3>3, <3>4, <3>5, <4>1, EnoughAsk
    <3> QED BY <2>2, <2>3, <3>2, <3>6
  <2>5. CASE d \notin Asks
    <3>1. silence'[d] = s + 1 /\ unanswered'[d][g] = u /\ due'[x] = w /\ s + 1 <= QI
      BY <1>1, <1>5, <1>6, <2>5
    <3>2. q => t >= 2 /\ isquerier'[d] /\ ti_qi'[d] = t - 1
      <4> SUFFICES ASSUME q PROVE t >= 2 /\ isquerier'[d] /\ ti_qi'[d] = t - 1
        OBVIOUS
      <4>1. ~(t <= 1)
        BY <1>3, <2>5 DEF Asks
      <4>2. t >= 2
        BY <1>3, <4>1, Numbers
      <4>3. isquerier'[d]
        BY <1>5
      <4>4. ti_qi'[d] = t - 1
        BY <1>5, <2>5
      <4> QED BY <4>2, <4>3, <4>4
    <3>3. ~q => o >= 1 /\ oqp'[d] = o - 1 /\ (isquerier'[d] <=> o = 1)
      <4> SUFFICES ASSUME ~q PROVE o >= 1 /\ oqp'[d] = o - 1 /\ (isquerier'[d] <=> o = 1)
        OBVIOUS
      <4>1. o > 0
        BY <1>3 DEF Pending
      <4>2. isquerier'[d] <=> o <= 1
        BY <1>5 DEF igmprt_timer_querier
      <4> QED BY <1>3, <1>5, <4>1, <4>2
    <3>4. isquerier'[d] \in BOOLEAN /\ ti_qi'[d] \in Int /\ oqp'[d] \in Int
      <4>1. isquerier'[d] \in BOOLEAN /\ ti_qi'[d] \in 0 .. QI /\ oqp'[d] \in 0 .. IGMP_OQPI
        BY <1>3 DEF TypeOK
      <4> QED BY <4>1, Numbers, Intervals
    <3>5. Enough(T - 1, s + 1, isquerier'[d], ti_qi'[d], oqp'[d], u, w, FALSE)
      <4> DEFINE q2 == isquerier'[d]
                 t2 == ti_qi'[d]
                 o2 == oqp'[d]
                 T2 == T - 1
                 s2 == s + 1
      <4>2. /\ T2 = T - 1 /\ s2 = s + 1
            /\ q2 \in BOOLEAN /\ t2 \in Int /\ o2 \in Int
            /\ q => t >= 2 /\ q2 /\ t2 = t - 1
            /\ ~q => o >= 1 /\ o2 = o - 1 /\ (q2 => o = 1)
        BY <3>2, <3>3, <3>4
      <4>3. s + 1 <= QI
        BY <3>1
      <4> HIDE DEF T, s, q, t, o, u, w, q2, t2, o2, T2, s2
      <4>1. /\ T \in 0 .. IGMP_GMI /\ s \in Nat /\ q \in BOOLEAN /\ t \in 0 .. QI
            /\ u \in 0 .. RV + 1 /\ w \in 0 .. Response /\ o \in Nat
        BY <1>3, <1>4 DEF T, s, q, t, o, u, w
      <4>4. Enough(T2, s2, q2, t2, o2, u, w, FALSE)
        <5>1. CASE q
          BY <2>1, <4>1, <4>2, <4>3, <5>1, EnoughTick
        <5>2. CASE ~q /\ q2
          BY <2>1, <4>1, <4>2, <4>3, <5>2, EnoughTick
        <5>3. CASE ~q /\ ~q2
          <6>1. q = FALSE /\ q2 = FALSE
            BY <4>1, <4>2, <5>3
          <6>2. Enough(T, s, FALSE, t, o, u, w, TRUE)
            BY <2>1, <6>1
          <6>3. Enough(T2, s2, FALSE, t2, o2, u, w, FALSE)
            BY <4>1, <4>2, <4>3, <5>3, <6>2, EnoughTick
          <6> QED BY <6>1, <6>3
        <5> QED BY <5>1, <5>2, <5>3
      <4> QED BY <4>4 DEF q2, t2, o2, T2, s2
    <3> QED BY <2>2, <2>3, <3>1, <3>5
  <2> QED BY <2>4, <2>5
<1>9. Awaited(d, g)' \/ Covered(d, g, due[x])'
  BY <1>2, <1>7, <1>8 DEF Kept, x, d
<1>10. timer[d][g] >= 2
  <2>1. CASE Awaited(d, g)
    BY <1>7, <2>1
  <2>2. CASE Covered(d, g, due[x])
    <3>1. /\ timer'[d][g] \in 0 .. IGMP_GMI /\ silence'[d] \in Nat /\ isquerier'[d] \in BOOLEAN
          /\ ti_qi'[d] \in 0 .. QI /\ oqp'[d] \in 0 .. IGMP_OQPI /\ unanswered'[d][g] \in 0 .. RV + 1
      BY <1>3 DEF TypeOK
    <3>2. oqp'[d] \in Nat
      BY <3>1, Intervals
    <3>3. Enough(timer'[d][g], silence'[d], isquerier'[d], ti_qi'[d], oqp'[d],
                 unanswered'[d][g], due'[x], FALSE)
      BY <1>1, <1>8, <2>2 DEF Covered
    <3>4. timer'[d][g] >= 1
      BY <1>4, <3>1, <3>2, <3>3, EnoughServes
    <3> QED BY <1>3, <1>5, <3>4, Intervals DEF countdown, present
  <2> QED BY <1>2, <2>1, <2>2 DEF Kept, x, d
<1>11. h \in members'[d][g]
  <2>1. <<d, g>> \notin Expired
    <3>1. <<d, g>> \in Expired => present(d, g) /\ countdown(d, g) = 0
      BY DEF Expired
    <3>2. countdown(d, g) # 0
      BY <1>3, <1>10, Intervals DEF countdown, present
    <3> QED BY <3>1, <3>2
  <2> HIDE DEF Expired
  <2>2. members'[d][g] = members[d][g]
    BY <1>1, <1>3, <2>1 DEF Cleanup
  <2> QED BY <1>2, <2>2 DEF Kept, d
<1>12. ~Leaving(<<h, g>>)' /\ <<h, g>> \in wants'
  BY <1>1, <1>2 DEF Kept, Leaving
<1> QED BY <1>1, <1>9, <1>11, <1>12 DEF Kept, x, d

LEMMA TailPackets ==
    ASSUME inbox \in Seq(Packet), inbox # <<>>, inbox' = Tail(inbox)
    PROVE  /\ Len(inbox) \in Nat /\ DOMAIN inbox = 1 .. Len(inbox)
           /\ Head(inbox) = inbox[1]
           /\ \A i \in DOMAIN inbox' : i \in Nat /\ i + 1 \in DOMAIN inbox /\ inbox'[i] = inbox[i + 1]
           /\ \A i \in DOMAIN inbox : i > 1 => i - 1 \in DOMAIN inbox' /\ inbox'[i - 1] = inbox[i]
<1>1. Len(inbox) \in Nat /\ DOMAIN inbox = 1 .. Len(inbox) /\ Len(inbox) >= 1
  OBVIOUS
<1>2. inbox' \in Seq(Packet) /\ Len(inbox') = Len(inbox) - 1 /\ Head(inbox) = inbox[1]
  BY <1>1
<1>3. DOMAIN inbox' = 1 .. Len(inbox) - 1
  BY <1>2
<1>4. \A i \in 1 .. Len(inbox) - 1 : inbox'[i] = inbox[i + 1]
  BY <1>1
<1>5. ASSUME NEW i \in DOMAIN inbox'
      PROVE  i \in Nat /\ i + 1 \in DOMAIN inbox /\ inbox'[i] = inbox[i + 1]
  BY <1>1, <1>3, <1>4
<1>6. ASSUME NEW i \in DOMAIN inbox, i > 1
      PROVE  i - 1 \in DOMAIN inbox' /\ inbox'[i - 1] = inbox[i]
  <2>1. i \in Int /\ i - 1 \in 1 .. Len(inbox) - 1 /\ (i - 1) + 1 = i
    BY <1>1, <1>6
  <2>2. inbox'[i - 1] = inbox[(i - 1) + 1]
    BY <1>4, <2>1
  <2> QED BY <1>3, <2>1, <2>2
<1> QED BY <1>1, <1>2, <1>5, <1>6

LEMMA TailLeaving ==
    ASSUME inbox \in Seq(Packet), inbox # <<>>, inbox' = Tail(inbox), NEW x, ~Leaving(x)
    PROVE  ~Leaving(x)'
<1>1. ASSUME NEW i \in DOMAIN inbox' PROVE inbox'[i] # [type |-> "leave", host |-> x[1], group |-> x[2]]
  <2>1. i + 1 \in DOMAIN inbox /\ inbox'[i] = inbox[i + 1]
    BY TailPackets
  <2> QED BY <2>1 DEF Leaving
<1> QED BY <1>1 DEF Leaving

\* What waits behind the packet that is read comes one second nearer.
LEMMA AwaitedTail ==
    ASSUME inbox \in Seq(Packet), inbox # <<>>, inbox' = Tail(inbox), ~Crowded,
           phase = "sleep", phase' = "timer",
           NEW d, NEW g, NEW i, ReportAt(d, g, i), i > 1,
           timer'[d][g] \in Int, timer'[d][g] >= Least(i, Slack)
    PROVE  Awaited(d, g)'
<1>1. /\ i \in DOMAIN inbox /\ i \in Int /\ i <= Len(inbox) /\ Len(inbox) \in Nat
      /\ i - 1 \in DOMAIN inbox' /\ inbox'[i - 1] = inbox[i]
  BY TailPackets DEF ReportAt
<1>2. Slack \in Int /\ Len(inbox) <= Slack
  <2>1. Slack \in Int
    BY Needs, Numbers DEF Slack
  <2> QED BY <1>1, <2>1 DEF Crowded, Slack
<1>3. Least(i, Slack) = i
  BY <1>1, <1>2 DEF Least
<1>4. timer'[d][g] > i - 1
  BY <1>1, <1>3
<1>5. PICK j \in DOMAIN inbox' : j = i - 1
  BY <1>1
<1>6. ReportAt(d, g, j)'
  BY <1>1, <1>5 DEF ReportAt
<1> QED BY <1>4, <1>5, <1>6 DEF Awaited

\* A second passes for a host whose group the packet, if there is one, does not touch.
LEMMA RecvKeptOne ==
    ASSUME TypeOK, Recv, NEW h \in Host, NEW g \in Group, Kept(h, g),
           UNCHANGED <<silence, unanswered, ti_qi, wants>>,
           timer'[home[h]][g] = timer[home[h]][g],
           h \in members'[home[h]][g],
           \/ isquerier'[home[h]] = isquerier[home[h]] /\ oqp'[home[h]] = oqp[home[h]]
           \/ isquerier'[home[h]] = FALSE /\ oqp'[home[h]] = IGMP_OQPI,
           \/ inbox = <<>> /\ inbox' = inbox
           \/ inbox # <<>> /\ inbox' = Tail(inbox) /\ ~Crowded /\ ~ReportAt(home[h], g, 1)
    PROVE  Kept(h, g)'
<1> DEFINE d == home[h]
           x == <<h, g>>
<1>1. phase = "sleep" /\ phase' = "timer" /\ Second
  BY DEF Recv
<1>2. /\ d \in Down /\ inbox \in Seq(Packet)
      /\ timer[d][g] \in 0 .. IGMP_GMI /\ silence[d] \in Nat /\ isquerier[d] \in BOOLEAN
      /\ ti_qi[d] \in 0 .. QI /\ oqp[d] \in Nat /\ unanswered[d][g] \in 0 .. RV + 1
      /\ due[x] \in 0 .. Response
  BY TableType
<1>3. ~Leaving(x)' /\ x \in wants'
  <2>1. ~Leaving(x) /\ x \in wants
    BY DEF Kept
  <2>2. CASE inbox' = inbox
    BY <2>1, <2>2 DEF Leaving
  <2>3. CASE inbox # <<>> /\ inbox' = Tail(inbox)
    BY <1>2, <2>1, <2>3, TailLeaving
  <2> QED BY <2>1, <2>2, <2>3
<1>4. due[x] # 1 /\ due'[x] = IF due[x] = 0 THEN 0 ELSE due[x] - 1
  <2>1. x \in Host \X Group
    OBVIOUS
  <2> QED BY <1>1, <2>1 DEF Second
<1> HIDE DEF d, x
<1>5. ASSUME Awaited(d, g) PROVE Awaited(d, g)'
  <2>1. PICK i \in DOMAIN inbox : ReportAt(d, g, i) /\ timer[d][g] >= Least(i, Slack)
    BY <1>1, <1>5 DEF Awaited
  <2>2. inbox # <<>>
    BY <2>1
  <2>3. i > 1
    <3>1. i \in Nat /\ i >= 1
      BY <1>2
    <3>2. i # 1
      BY <2>1, <2>2 DEF d
    <3> QED BY <3>1, <3>2
  <2>4. timer'[d][g] = timer[d][g] /\ timer[d][g] \in Int
    BY <1>2, Intervals DEF d
  <2>5. inbox' = Tail(inbox) /\ ~Crowded
    BY <2>2
  <2> QED BY <1>1, <1>2, <2>1, <2>2, <2>3, <2>4, <2>5, AwaitedTail
<1>6. ASSUME Covered(d, g, due[x]) PROVE Covered(d, g, due[x])'
  <2>1. Enough(timer[d][g], silence[d], isquerier[d], ti_qi[d], oqp[d], unanswered[d][g], due[x], FALSE)
    BY <1>1, <1>6 DEF Covered
  <2>2. Enough(timer[d][g], silence[d], isquerier[d], ti_qi[d], oqp[d], unanswered[d][g], due'[x], TRUE)
    BY <1>2, <1>4, <2>1, EnoughSecond
  <2>3. Covered(d, g, due[x])' = Enough(timer[d][g], silence[d], isquerier'[d], ti_qi[d], oqp'[d],
                                        unanswered[d][g], due'[x], TRUE)
    BY <1>1 DEF Covered, d
  <2>4. CASE isquerier'[d] = isquerier[d] /\ oqp'[d] = oqp[d]
    BY <2>2, <2>3, <2>4
  <2>5. CASE isquerier'[d] = FALSE /\ oqp'[d] = IGMP_OQPI
    <3>1. due'[x] \in 0 .. Response
      BY <1>2, <1>4, Numbers
    <3>2. Enough(timer[d][g], silence[d], FALSE, ti_qi[d], IGMP_OQPI, unanswered[d][g], due'[x], TRUE)
      BY <1>2, <2>2, <3>1, EnoughStandsBack
    <3> QED BY <2>3, <2>5, <3>2
  <2> QED BY <2>4, <2>5 DEF d
<1>7. Awaited(d, g)' \/ Covered(d, g, due[x])'
  BY <1>5, <1>6 DEF Kept, d, x
<1> QED BY <1>1, <1>3, <1>7 DEF Kept, d, x

LEMMA HeadType ==
    ASSUME TypeOK, inbox # <<>>
    PROVE  /\ Head(inbox) \in Packet /\ Head(inbox) = inbox[1]
           /\ Head(inbox).type \in {"report", "leave"} =>
                Head(inbox).host \in Host /\ Head(inbox).group \in Group /\ home[Head(inbox).host] \in Down
           /\ Head(inbox).type = "query" => Head(inbox).down \in Down
<1>1. Head(inbox) \in Packet /\ Head(inbox) = inbox[1]
  BY DEF TypeOK
<1> QED BY <1>1, HeadPacket, Numbers

\* A report is read.
LEMMA ReportKept ==
    ASSUME Robust, TypeOK, TypeOK', AllKept, Fresh, RecvReport
    PROVE  AllKept'
<1> SUFFICES ASSUME NEW h \in Host, NEW g \in Group, <<h, g>> \in steady' PROVE Kept(h, g)'
  BY DEF AllKept
<1> DEFINE p == Head(inbox)
           x == <<h, g>>
           d == home[h]
<1>1. /\ Recv /\ inbox # <<>> /\ inbox' = Tail(inbox) /\ p.type = "report"
      /\ members' = [members EXCEPT ![home[p.host]][p.group] = @ \cup {p.host}]
      /\ timer' = [timer EXCEPT ![home[p.host]][p.group] = IGMP_GMI]
      /\ steady' = IF Crowded THEN {}
                   ELSE steady \cup {y \in wants : y = <<p.host, p.group>> /\ ~Leaving(y)}
      /\ UNCHANGED <<isquerier, ti_qi, oqp, wants, silence, unanswered>>
  BY DEF RecvReport, querier
<1>2. p.host \in Host /\ p.group \in Group /\ home[p.host] \in Down /\ p = inbox[1]
  BY <1>1, HeadType
<1>3. d \in Down /\ inbox \in Seq(Packet) /\ due'[x] \in 0 .. Response /\ silence[d] \in Nat
      /\ isquerier[d] \in BOOLEAN /\ ti_qi[d] \in 0 .. QI /\ oqp[d] \in Nat
      /\ unanswered[d][g] \in 0 .. RV + 1
  <2>1. x \in Host \X Group
    OBVIOUS
  <2> QED BY <2>1, TableType DEF TypeOK
<1>4. ~Crowded /\ (x \in steady \/ (x \in wants /\ h = p.host /\ g = p.group /\ ~Leaving(x)))
  BY <1>1
<1>5. phase = "sleep" /\ phase' = "timer"
  BY <1>1 DEF Recv
<1>6. CASE ~(d = home[p.host] /\ g = p.group)
  <2>1. Kept(h, g)
    BY <1>4, <1>6 DEF AllKept
  <2>2. timer'[d][g] = timer[d][g] /\ members'[d][g] = members[d][g]
    BY <1>1, <1>2, <1>3, <1>6 DEF TypeOK
  <2>3. h \in members'[d][g]
    BY <2>1, <2>2 DEF Kept
  <2>4. ~ReportAt(d, g, 1)
    BY <1>2, <1>6 DEF ReportAt
  <2> HIDE DEF p
  <2> QED BY <1>1, <1>4, <2>1, <2>2, <2>3, <2>4, RecvKeptOne
<1>7. CASE d = home[p.host] /\ g = p.group
  <2>1. x \in wants' /\ ~Leaving(x)
    BY <1>1, <1>4 DEF AllKept, Kept
  <2>2. ~Leaving(x)'
    BY <1>1, <1>3, <2>1, TailLeaving
  <2>3. timer'[d][g] = IGMP_GMI /\ members'[d][g] = members[d][g] \cup {p.host}
    BY <1>1, <1>2, <1>7 DEF TypeOK
  <2>4. h \in members'[d][g]
    BY <1>4, <2>3 DEF AllKept, Kept
  <2> HIDE DEF p, x, d
  <2>5. Awaited(d, g)' \/ Covered(d, g, due[x])'
    <3>1. CASE \E i \in DOMAIN inbox : i > 1 /\ ReportAt(d, g, i)
      <4>1. PICK i \in DOMAIN inbox : i > 1 /\ ReportAt(d, g, i)
        BY <3>1
      <4>2. Slack \in Int /\ IGMP_GMI \in Int /\ IGMP_GMI >= Slack
        <5>1. QRI <= IGMP_GMI
          <6>1. RV \in 0 .. RV
            BY Numbers
          <6> QED BY <6>1, Needs
        <5> QED BY <5>1, Needs, Numbers, Intervals DEF Slack
      <4>3. timer'[d][g] >= Least(i, Slack)
        <5>1. i \in Int
          BY <1>3
        <5> QED BY <2>3, <4>2, <5>1 DEF Least
      <4> QED BY <1>1, <1>3, <1>4, <1>5, <2>3, <4>1, <4>2, <4>3, AwaitedTail
    <3>2. CASE ~(\E i \in DOMAIN inbox : i > 1 /\ ReportAt(d, g, i))
      <4>1. silence[d] = 0 /\ ~isquerier[d] => unanswered[d][g] > 0
        BY <1>3, <1>5, <3>2 DEF Fresh
      <4>2. Enough(IGMP_GMI, silence[d], isquerier[d], ti_qi[d], oqp[d], unanswered[d][g], due'[x], TRUE)
        BY <1>3, <4>1, EnoughAnew
      <4>3. Covered(d, g, due[x])' = Enough(IGMP_GMI, silence[d], isquerier[d], ti_qi[d], oqp[d],
                                            unanswered[d][g], due'[x], TRUE)
        BY <1>1, <1>5, <2>3 DEF Covered
      <4> QED BY <4>2, <4>3
    <3> QED BY <3>1, <3>2
  <2> QED BY <1>5, <2>1, <2>2, <2>4, <2>5 DEF Kept, x, d
<1> QED BY <1>6, <1>7

\* A leave is read: it is not that of the host.
LEMMA LeaveReadKept ==
    ASSUME TypeOK, AllKept, RecvLeave
    PROVE  AllKept'
<1> SUFFICES ASSUME NEW h \in Host, NEW g \in Group, <<h, g>> \in steady' PROVE Kept(h, g)'
  BY DEF AllKept
<1> DEFINE p == Head(inbox)
           R == last_member(p.host, p.group)
           other == [e \in Down |-> [members[e] EXCEPT ![p.group] = @ \ {p.host}]]
           d == home[h]
<1>1. /\ Recv /\ inbox # <<>> /\ inbox' = Tail(inbox) /\ p.type = "leave"
      /\ timer' = [e \in Down |-> [k \in Group |-> IF <<e, k>> \in R THEN 0 ELSE timer[e][k]]]
      /\ \/ members' = other
         \/ members' = [e \in Down |-> [other[e] EXCEPT ![p.group] = IF <<e, p.group>> \in R THEN {} ELSE @]]
      /\ steady' = IF Crowded THEN {} ELSE steady
      /\ UNCHANGED <<isquerier, ti_qi, oqp, wants, silence, unanswered>>
  BY DEF RecvLeave, querier
<1>2. p.host \in Host /\ p.group \in Group /\ p = inbox[1] /\ p \in Packet
  BY <1>1, HeadType
<1>3. d \in Down /\ inbox \in Seq(Packet) /\ members[d] \in [Group -> SUBSET Host]
  BY TableType DEF TypeOK
<1>4. ~Crowded /\ Kept(h, g)
  BY <1>1 DEF AllKept
<1>5. h # p.host \/ g # p.group
  <2>1. p = [type |-> "leave", host |-> p.host, group |-> p.group]
    BY <1>1, <1>2 DEF Packet
  <2>2. 1 \in DOMAIN inbox
    BY <1>1, <1>3
  <2>3. inbox[1] # [type |-> "leave", host |-> h, group |-> g]
    BY <1>4, <2>2 DEF Kept, Leaving
  <2> QED BY <1>2, <2>1, <2>3
<1>6. h \in members[d][g]
  BY <1>4 DEF Kept
<1>7. <<d, g>> \notin R
  <2>1. <<d, g>> \in R => g = p.group /\ members[d][g] \subseteq {p.host}
    BY DEF last_member
  <2> QED BY <1>5, <1>6, <2>1
<1> HIDE DEF p, R, d
<1>8. timer'[d][g] = timer[d][g]
  BY <1>1, <1>3, <1>7
<1>9. h \in members'[d][g]
  <2>1. other[d] = [members[d] EXCEPT ![p.group] = @ \ {p.host}]
    BY <1>3
  <2>2. h \in other[d][g] /\ other[d] \in [Group -> SUBSET Host]
    BY <1>2, <1>3, <1>5, <1>6, <2>1
  <2> HIDE DEF other
  <2>3. CASE members' = other
    BY <2>2, <2>3
  <2>4. CASE members' = [e \in Down |-> [other[e] EXCEPT ![p.group] = IF <<e, p.group>> \in R THEN {} ELSE @]]
    <3>1. members'[d] = [other[d] EXCEPT ![p.group] = IF <<d, p.group>> \in R THEN {} ELSE @]
      BY <1>3, <2>4
    <3> QED BY <1>2, <1>7, <2>2, <3>1
  <2> QED BY <1>1, <2>3, <2>4
<1>10. ~ReportAt(d, g, 1)
  BY <1>1, <1>2 DEF ReportAt
<1> QED BY <1>1, <1>4, <1>8, <1>9, <1>10, RecvKeptOne DEF d

\* A query is read: the proxy may stand back.
LEMMA QueryKept ==
    ASSUME TypeOK, AllKept, RecvQuery \/ RecvNothing
    PROVE  AllKept'
<1> SUFFICES ASSUME NEW h \in Host, NEW g \in Group, <<h, g>> \in steady' PROVE Kept(h, g)'
  BY DEF AllKept
<1> DEFINE d == home[h]
<1>1. d \in Down
  BY TableType
<1>2. CASE RecvNothing
  <2>1. /\ Recv /\ inbox = <<>> /\ inbox' = inbox
        /\ UNCHANGED <<timer, members, isquerier, ti_qi, oqp, wants, silence, unanswered, steady>>
    BY <1>2 DEF RecvNothing, table, querier
  <2>2. Kept(h, g)
    BY <2>1 DEF AllKept
  <2>3. h \in members'[d][g]
    BY <2>1, <2>2 DEF Kept
  <2> QED BY <2>1, <2>2, <2>3, RecvKeptOne
<1>3. CASE RecvQuery
  <2> DEFINE p == Head(inbox)
  <2>1. /\ Recv /\ inbox # <<>> /\ inbox' = Tail(inbox) /\ p.type = "query"
        /\ UNCHANGED <<timer, members, ti_qi, wants, silence, unanswered>>
        /\ oqp' = IF p.lower THEN [oqp EXCEPT ![p.down] = IGMP_OQPI] ELSE oqp
        /\ isquerier' = IF p.lower THEN [isquerier EXCEPT ![p.down] = FALSE] ELSE isquerier
        /\ steady' = IF Crowded THEN {} ELSE steady
    BY <1>3 DEF RecvQuery, table
  <2>2. ~Crowded /\ Kept(h, g)
    BY <2>1 DEF AllKept
  <2>3. p.down \in Down /\ p = inbox[1]
    BY <2>1, HeadType
  <2> HIDE DEF p
  <2>4. \/ isquerier'[d] = isquerier[d] /\ oqp'[d] = oqp[d]
        \/ isquerier'[d] = FALSE /\ oqp'[d] = IGMP_OQPI
    <3>1. CASE p.lower /\ p.down = d
      BY <2>1, <2>3, <3>1 DEF TypeOK
    <3>2. CASE ~(p.lower /\ p.down = d)
      BY <1>1, <2>1, <2>3, <3>2 DEF TypeOK
    <3> QED BY <3>1, <3>2
  <2>5. h \in members'[d][g] /\ ~ReportAt(d, g, 1)
    BY <2>1, <2>2, <2>3 DEF Kept, ReportAt
  <2> QED BY <2>1, <2>2, <2>4, <2>5, RecvKeptOne
<1> QED BY <1>2, <1>3

-----------------------------------------------------------------------------
LEMMA FreshReport ==
    ASSUME TypeOK, Fresh, NEW a \in Host, NEW k \in Group, NEW lost \in BOOLEAN, Report(a, k, lost),
           UNCHANGED <<phase, silence, isquerier>>
    PROVE  Fresh'
<1> SUFFICES ASSUME NEW d \in Down, phase = "sleep", silence[d] = 0, ~isquerier[d]
             PROVE  /\ inbox' # <<>>
                    /\ \A g \in Group : \/ unanswered'[d][g] > 0
                                        \/ \E i \in DOMAIN inbox' : i > 1 /\ ReportAt(d, g, i)'
  BY DEF Fresh
<1> DEFINE p == [type |-> "report", host |-> a, group |-> k]
<1>1. /\ inbox # <<>>
      /\ \A g \in Group : unanswered[d][g] > 0 \/ \E i \in DOMAIN inbox : i > 1 /\ ReportAt(d, g, i)
  BY DEF Fresh
<1>2. CASE lost \/ Full
  <2>1. inbox' = inbox /\ unanswered' = unanswered
    BY <1>2 DEF Report
  <2> QED BY <1>1, <2>1 DEF ReportAt
<1>3. CASE ~(lost \/ Full)
  <2>1. Queue(p) /\ unanswered' = [unanswered EXCEPT ![home[a]][k] = 0] /\ inbox \in Seq(Packet)
    BY <1>3 DEF Report, TypeOK
  <2>2. p \in Packet /\ p.type = "report" /\ p.host = a /\ p.group = k
    BY DEF Packet
  <2> HIDE DEF p
  <2>3. PICK j \in Nat : j \in DOMAIN inbox' /\ inbox'[j] = p /\ j > 1
    <3>1. Len(inbox) + 1 \in DOMAIN inbox' /\ inbox'[Len(inbox) + 1] = p
          /\ Len(inbox) \in Nat /\ Len(inbox) > 0
      BY <1>1, <1>3, <2>1, <2>2, QueuedLast
    <3> QED BY <3>1
  <2>4. ASSUME NEW g \in Group
        PROVE  unanswered'[d][g] > 0 \/ \E i \in DOMAIN inbox' : i > 1 /\ ReportAt(d, g, i)'
    <3>1. CASE d = home[a] /\ g = k
      <4>1. ReportAt(d, g, j)'
        BY <2>2, <2>3, <3>1 DEF ReportAt
      <4> QED BY <2>3, <4>1
    <3>2. CASE ~(d = home[a] /\ g = k)
      <4>1. unanswered'[d][g] = unanswered[d][g]
        BY <2>1, <3>2, Numbers DEF TypeOK
      <4>2. ASSUME NEW i \in DOMAIN inbox, i > 1, ReportAt(d, g, i)
            PROVE  i \in DOMAIN inbox' /\ ReportAt(d, g, i)'
        <5>1. i \in DOMAIN inbox' /\ inbox'[i] = inbox[i]
          BY <2>1, <2>2, Queued
        <5> QED BY <4>2, <5>1 DEF ReportAt
      <4> QED BY <1>1, <4>1, <4>2
    <3> QED BY <3>1, <3>2
  <2>5. inbox' # <<>>
    BY <1>1, <2>1, <2>2, Queued
  <2> QED BY <2>4, <2>5
<1> QED BY <1>2, <1>3

LEMMA FreshLeave ==
    ASSUME TypeOK, Fresh, NEW a \in Host, NEW k \in Group, Leave(a, k)
    PROVE  Fresh'
<1> DEFINE p == [type |-> "leave", host |-> a, group |-> k]
<1>1. /\ UNCHANGED <<phase, silence, isquerier, unanswered>> /\ inbox \in Seq(Packet)
      /\ Queue(p) \/ UNCHANGED inbox
  BY DEF Leave, querier, TypeOK
<1>2. p \in Packet
  BY DEF Packet
<1> HIDE DEF p
<1>3. /\ inbox # <<>> => inbox' # <<>>
      /\ \A i \in DOMAIN inbox : i \in DOMAIN inbox' /\ inbox'[i] = inbox[i]
  BY <1>1, <1>2, Queued
<1>4. ASSUME NEW d, NEW g, NEW i \in DOMAIN inbox, ReportAt(d, g, i)
      PROVE  i \in DOMAIN inbox' /\ ReportAt(d, g, i)'
  BY <1>3, <1>4 DEF ReportAt
<1> HIDE DEF ReportAt
<1> QED BY <1>1, <1>3, <1>4 DEF Fresh

LEMMA FreshRival ==
    ASSUME TypeOK, Fresh, NEW r \in Rivals, NEW lower \in BOOLEAN, RivalQuery(r, lower)
    PROVE  Fresh'
<1> DEFINE p == [type |-> "query", down |-> r, lower |-> lower]
<1>1. /\ UNCHANGED <<phase, isquerier>> /\ inbox \in Seq(Packet)
      /\ Queue(p)
      /\ silence' = [silence EXCEPT ![r] = 0]
      /\ unanswered' = Unanswered({r})
  BY DEF RivalQuery, querier, TypeOK
<1>2. p \in Packet
  BY Numbers DEF Packet
<1> HIDE DEF p
<1>3. /\ inbox # <<>> => inbox' # <<>>
      /\ \A i \in DOMAIN inbox : i \in DOMAIN inbox' /\ inbox'[i] = inbox[i]
  BY <1>1, <1>2, Queued
<1>4. inbox' # <<>>
  <2>1. CASE inbox = <<>>
    <3>1. ~Full
      BY <2>1, Numbers DEF Full
    <3> QED BY <1>1, <2>1, <3>1 DEF Queue
  <2> QED BY <1>3, <2>1
<1> SUFFICES ASSUME NEW d \in Down, phase = "sleep", silence'[d] = 0, ~isquerier[d], NEW g \in Group
             PROVE  unanswered'[d][g] > 0 \/ \E i \in DOMAIN inbox' : i > 1 /\ ReportAt(d, g, i)'
  BY <1>1, <1>4 DEF Fresh
<1>5. unanswered'[d][g] = (IF d = r THEN More(unanswered[d][g]) ELSE unanswered[d][g])
      /\ unanswered[d][g] \in 0 .. RV + 1
  BY <1>1 DEF Unanswered, TypeOK
<1>6. CASE d = r
  BY <1>5, <1>6, Numbers DEF More
<1>7. CASE d # r
  <2>1. silence[d] = 0
    BY <1>1, <1>7 DEF TypeOK
  <2>2. unanswered[d][g] > 0 \/ \E i \in DOMAIN inbox : i > 1 /\ ReportAt(d, g, i)
    BY <2>1 DEF Fresh
  <2>3. ASSUME NEW i \in DOMAIN inbox, i > 1, ReportAt(d, g, i)
        PROVE  i \in DOMAIN inbox' /\ ReportAt(d, g, i)'
    BY <1>3, <2>3 DEF ReportAt
  <2> QED BY <1>5, <1>7, <2>2, <2>3
<1> QED BY <1>6, <1>7

LEMMA FreshTimer == ASSUME TypeOK, Timer PROVE Fresh'
<1>1. ASSUME NEW d \in Down, silence'[d] = 0 PROVE isquerier'[d]
  <2>1. silence'[d] = IF d \in Asks THEN 0 ELSE silence[d] + 1
    BY DEF Timer
  <2>2. silence[d] \in Nat
    BY DEF TypeOK
  <2>3. d \in Asks
    BY <1>1, <2>1, <2>2
  <2> QED BY <2>3 DEF Timer, Asks
<1> QED BY <1>1 DEF Fresh

Steady == AllKept /\ Fresh

LEMMA SteadyStep ==
    ASSUME Robust, TypeOK, TypeOK', Quiet, Steady, [Next]_vars
    PROVE  Steady'
<1> USE DEF Steady
<1>1. CASE Timer
  BY <1>1, TimerKept, FreshTimer DEF Quiet
<1>2. CASE RecvNothing \/ RecvReport \/ RecvLeave \/ RecvQuery
  <2>1. AllKept'
    BY <1>2, ReportKept, LeaveReadKept, QueryKept
  <2>2. Fresh'
    BY <1>2 DEF RecvNothing, RecvReport, RecvLeave, RecvQuery, Recv, Fresh
  <2> QED BY <2>1, <2>2
<1>3. CASE \E h \in Host, g \in Group : Join(h, g) \/ Answer(h, g) \/ Leave(h, g)
  <2>1. PICK h \in Host, g \in Group : Join(h, g) \/ Answer(h, g) \/ Leave(h, g)
    BY <1>3
  <2>2. CASE Join(h, g)
    <3>1. PICK lost \in BOOLEAN : Report(h, g, lost)
      BY <2>2 DEF Join
    <3>2. UNCHANGED <<phase, silence, isquerier>>
      BY <2>2 DEF Join, querier
    <3> QED BY <2>2, <3>1, <3>2, JoinKept, FreshReport
  <2>3. CASE Answer(h, g)
    <3>1. PICK lost \in BOOLEAN : Report(h, g, lost)
      BY <2>3 DEF Answer
    <3>2. UNCHANGED <<phase, silence, isquerier>>
      BY <2>3 DEF Answer, querier
    <3> QED BY <2>3, <3>1, <3>2, AnswerKept, FreshReport
  <2>4. CASE Leave(h, g)
    BY <2>4, LeaveKept, FreshLeave
  <2> QED BY <2>1, <2>2, <2>3, <2>4
<1>4. CASE \E d \in Rivals, lower \in BOOLEAN : RivalQuery(d, lower)
  BY <1>4, RivalKept, FreshRival
<1>5. CASE Restart
  BY <1>5 DEF Restart, AllKept, Fresh
<1>6. CASE UNCHANGED vars
  BY <1>6 DEF vars, table, querier, lan, AllKept, Kept, Covered, Awaited, ReportAt, Leaving, Fresh
<1> QED BY <1>1, <1>2, <1>3, <1>4, <1>5, <1>6 DEF Next

\* A steady host keeps its group, whatever the intervals, the number of hosts,
\* interfaces and groups and the size of the buffer, as long as a second query
\* makes good for the loss of an answer (IGMP_DEF_RV is 2) and the response
\* interval exceeds its half (IGMP_DEF_QRI is 10): up to RV - 1 answers in a row
\* are lost, other routers take over and fall silent, and the one packet that the
\* loop reads in a second still comes before the timer of the group.
THEOREM SteadyHostsServed == ASSUME Robust PROVE Spec => []SteadyServed
<1>1. Init => Quiet /\ Steady
  BY QuietInit DEF Init, Steady, AllKept, Fresh
<1>2. TypeOK /\ Steady => SteadyServed
  <2> SUFFICES ASSUME TypeOK, Steady, NEW x \in steady PROVE present(home[x[1]], x[2])
    BY DEF SteadyServed
  <2>1. PICK h \in Host, g \in Group : x = <<h, g>>
    BY DEF TypeOK
  <2>2. Kept(h, g)
    BY <2>1 DEF Steady, AllKept
  <2>3. /\ timer[home[h]][g] \in 0 .. IGMP_GMI /\ inbox \in Seq(Packet)
    BY TableType
  <2>4. CASE Covered(home[h], g, due[<<h, g>>])
    <3>1. timer[home[h]][g] >= 1
      <4>1. (phase = "timer") \in BOOLEAN
        OBVIOUS
      <4> QED BY <2>4, <4>1, TableType, EnoughServes DEF Covered
    <3> QED BY <2>1, <2>3, <3>1, Intervals DEF present
  <2>5. CASE Awaited(home[h], g)
    <3>1. PICK i \in DOMAIN inbox :
            IF phase = "timer" THEN timer[home[h]][g] > i ELSE timer[home[h]][g] >= Least(i, Slack)
      BY <2>5 DEF Awaited
    <3>2. i \in Nat /\ i >= 1 /\ Slack \in Int /\ Slack >= 1
      BY <2>3, Needs, Numbers DEF Slack
    <3> QED BY <2>1, <2>3, <3>1, <3>2, Intervals DEF present, Least
  <2> QED BY <2>2, <2>4, <2>5 DEF Kept
<1>3. TypeOK /\ TypeOK' /\ Quiet /\ Steady /\ [Next]_vars => Steady'
  BY SteadyStep
<1> QED BY <1>1, <1>2, <1>3, QuietStep, TypeCorrect, PTL DEF Spec
=============================================================================
