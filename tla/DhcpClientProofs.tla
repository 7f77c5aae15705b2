-------------------------- MODULE DhcpClientProofs --------------------------
(***************************************************************************)
(* Proofs about the DHCP client, for every lease time, every set of        *)
(* messages and every transaction identifier.                              *)
(*                                                                         *)
(* HeldWhileValid is not inductive: it says how old a lease is, not when   *)
(* the client will look at it again.  Timers adds that: the timeout of a   *)
(* lease ends at T1 or T2 as the renewals have moved them, and both stay   *)
(* below the lease time.                                                   *)
(***************************************************************************)
EXTENDS DhcpClient, TLAPS

\* What the REQUESTs sent so far add to a forced renewal.
Spent == IF packet_num = 3 THEN Patience ELSE 2 * packet_num

Timers ==
    /\ state \in {"BOUND", "RENEWING"} => /\ elapsed + left = t1
                                          /\ t1 <= t2
                                          /\ t2 < lease
    /\ state = "REBINDING" => elapsed + left = t2 /\ t2 < lease
    /\ state = "RENEW_REQUESTED" => elapsed + left < lease + Spent

\* Beside it, the types without `blocked', which is FALSE after every step but Tick.
IInv == Types /\ Timers /\ ListenMatchesState /\ ConfiguredAsLeased

-----------------------------------------------------------------------------
\* What the client sends is a packet.
LEMMA Packets ==
    ASSUME NEW x \in Xid, NEW s \in Server \cup {0}, NEW a \in Addr \cup {0}
    PROVE  /\ send_discover(x, a) \in Packet
           /\ send_selecting(x, s, a) \in Packet
           /\ send_renew(x, s, a) \in Packet
           /\ send_release(x, s, a) \in Packet
  BY DEF send_discover, send_selecting, send_renew, send_release, Packet

\* T1 and T2 of an ACK are in order and below its lease time.
LEMMA AckTimes ==
    ASSUME NEW l \in Nat \ {0}
    PROVE  /\ l \div 2 \in Nat
           /\ (l * 7) \div 8 \in Nat
           /\ l \div 2 <= (l * 7) \div 8
           /\ (l * 7) \div 8 < l
  OBVIOUS

\* Half of the time that is left is never more than it.
LEMMA HalfTime ==
    ASSUME NEW a \in Nat, NEW b \in Nat, a <= b
    PROVE  /\ (b - a) \div 2 + a \in Nat
           /\ a <= (b - a) \div 2 + a
           /\ (b - a) \div 2 + a <= b
           /\ a < b => (b - a) \div 2 + a < b
  OBVIOUS

\* What is left until a time that is not over.
LEMMA Rest ==
    ASSUME NEW a \in Nat, NEW b \in Nat
    PROVE  a + (b - a) = b /\ 0 + b = b
  OBVIOUS

\* The client starts in the invariant.
LEMMA InitInv == Init => IInv
  BY ClientAssumption DEF Init, IInv, Types, States, Leased, Timers, ListenMatchesState, ConfiguredAsLeased

\* The steps of the timeout.
LEMMA DiscoverStep == IInv /\ (DiscoverTimeout \/ NoOffer) => IInv'
<1> SUFFICES ASSUME IInv, DiscoverTimeout \/ NoOffer
             PROVE  IInv'
  OBVIOUS
<1>1. CASE DiscoverTimeout
  <2>1. sent' \subseteq Packet
    BY <1>1, Packets DEF DiscoverTimeout, IInv, Types
  <2>2. Types'
    BY <1>1, <2>1 DEF DiscoverTimeout, TimedOut, run_nothing, timers, bootp, IInv, Types
  <2> QED BY <1>1, <2>2 DEF DiscoverTimeout, IInv, Timers, Leased, ListenMatchesState, ConfiguredAsLeased
<1>2. CASE NoOffer
  <2>1. Types'
    BY <1>2 DEF NoOffer, TimedOut, exit_client, run_nothing, timers, peer, IInv, Types, States
  <2> QED BY <1>2, <2>1 DEF NoOffer, exit_client, IInv, Timers, Leased, ListenMatchesState, ConfiguredAsLeased
<1> QED BY <1>1, <1>2

\* The REQUESTs, and giving up after the third.
LEMMA RequestStep == IInv /\ (RequestTimeout \/ NoAnswer) => IInv'
<1> SUFFICES ASSUME IInv, RequestTimeout \/ NoAnswer
             PROVE  IInv'
  OBVIOUS
<1>1. CASE RequestTimeout
  <2>1. sent' \subseteq Packet
    BY <1>1, Packets DEF RequestTimeout, IInv, Types
  <2>2. Types'
    BY <1>1, <2>1 DEF RequestTimeout, TimedOut, run_nothing, timers, peer, bootp, IInv, Types
  <2>3. Timers'
    BY <1>1 DEF RequestTimeout, TimedOut, timers, IInv, Types, Timers, Spent, Patience
  <2> QED BY <1>1, <2>2, <2>3
          DEF RequestTimeout, run_nothing, peer, IInv, Leased, ListenMatchesState, ConfiguredAsLeased
<1>2. CASE NoAnswer
  <2>1. Types'
    BY <1>2 DEF NoAnswer, TimedOut, restart, change_mode, run_deconfig, run_nothing, timers, peer,
                bootp, IInv, Types, States
  <2> QED BY <1>2, <2>1 DEF NoAnswer, restart, change_mode, IInv, Timers, Leased,
                            ListenMatchesState, ConfiguredAsLeased
<1> QED BY <1>1, <1>2

\* T1 is over: the next timeout ends at the new T1 or at T2.
LEMMA RenewStep == IInv /\ RenewTimeout => IInv'
<1> SUFFICES ASSUME IInv, RenewTimeout
             PROVE  IInv'
  OBVIOUS
<1>0. Types /\ left = 0 /\ elapsed = t1 /\ t1 <= t2 /\ t2 < lease
  BY DEF RenewTimeout, TimedOut, IInv, Types, Timers
<1>1. sent' \subseteq Packet
  BY <1>0, Packets DEF RenewTimeout, Types
<1>2. t1' \in Nat /\ left' \in Nat /\ t1' <= t2
  BY <1>0, HalfTime DEF RenewTimeout, Types
<1>3. Types'
  BY <1>0, <1>1, <1>2 DEF RenewTimeout, TimedOut, change_mode, run_nothing, peer, bootp, Types,
                          States, Leased
<1>4. Timers'
  <2>1. t2' = t2 /\ lease' = lease /\ elapsed' = elapsed
    BY DEF RenewTimeout
  <2>2. \/ state' = "REBINDING" /\ left' = t2 - t1
        \/ state' = "RENEWING" /\ left' = t1' - elapsed
    BY DEF RenewTimeout
  <2>3. CASE state' = "REBINDING"
    <3>1. elapsed' + left' = t2' /\ t2' < lease'
      BY <1>0, <2>1, <2>2, <2>3 DEF Types
    <3> QED BY <2>3, <3>1 DEF Timers
  <2>4. CASE state' = "RENEWING"
    <3>1. elapsed' + left' = t1' /\ t1' <= t2' /\ t2' < lease'
      BY <1>0, <1>2, <2>1, <2>2, <2>4, Rest DEF Types
    <3> QED BY <2>4, <3>1 DEF Timers
  <2> QED BY <2>2, <2>3, <2>4
<1> QED BY <1>3, <1>4 DEF RenewTimeout, change_mode, run_nothing, peer, IInv, Leased,
                          ListenMatchesState, ConfiguredAsLeased

\* T2 is over: the next timeout ends at the new T2, below the lease time.
LEMMA RebindStep == IInv /\ RebindTimeout => IInv'
<1> SUFFICES ASSUME IInv, RebindTimeout
             PROVE  IInv'
  OBVIOUS
<1>0. Types /\ left = 0 /\ elapsed = t2 /\ t2 < lease
  BY DEF RebindTimeout, TimedOut, IInv, Types, Timers
<1>1. sent' \subseteq Packet
  BY <1>0, Packets DEF RebindTimeout, Types
<1>2. t2' \in Nat /\ left' \in Nat /\ t2' < lease
  BY <1>0, HalfTime DEF RebindTimeout, restart, Types
<1>3. Types'
  <2>1. /\ state' \in States /\ packet_num' \in 0 .. 3
        /\ ifaddr' \in Addr \cup {0} /\ orphan' \in Addr \cup {0}
        /\ listen_mode' \in {"NONE", "KERNEL", "RAW"}
        /\ script' \subseteq {"deconfig", "bound", "renew", "nak"}
    BY <1>0 DEF RebindTimeout, restart, change_mode, run_deconfig, run_nothing, Types, States
  <2> QED BY <1>0, <1>1, <1>2, <2>1 DEF RebindTimeout, peer, bootp, Types
<1>4. Timers'
  <2>1. lease' = lease /\ elapsed' = elapsed
    BY DEF RebindTimeout
  <2>2. \/ state' = "INIT_SELECTING"
        \/ state' = "REBINDING" /\ left' = t2' - elapsed
    BY DEF RebindTimeout, restart
  <2>3. CASE state' = "INIT_SELECTING"
    BY <2>3 DEF Timers
  <2>4. CASE state' = "REBINDING"
    <3>1. elapsed' + left' = t2' /\ t2' < lease'
      BY <1>0, <1>2, <2>1, <2>2, <2>4, Rest DEF Types
    <3> QED BY <2>4, <3>1 DEF Timers
  <2> QED BY <2>2, <2>3, <2>4
<1> QED BY <1>3, <1>4 DEF RebindTimeout, restart, change_mode, run_deconfig, run_nothing, peer, IInv,
                          Leased, ListenMatchesState, ConfiguredAsLeased

\* The packets.
LEMMA OfferStep == IInv /\ (\E m \in Messages : IgnoreOffer(m) \/ TakeOffer(m)) => IInv'
<1> SUFFICES ASSUME IInv, NEW m \in Messages, IgnoreOffer(m) \/ TakeOffer(m)
             PROVE  IInv'
  OBVIOUS
<1>0. m.yiaddr \in Addr /\ m.sid \in Server \cup {0}
  BY ClientAssumption DEF Message
<1>1. CASE IgnoreOffer(m)
  <2>1. Types'
    BY <1>1 DEF IgnoreOffer, BootpOffer, run_nothing, peer, timers, IInv, Types
  <2> QED BY <1>1, <2>1 DEF IgnoreOffer, IInv, Timers, Leased, ListenMatchesState, ConfiguredAsLeased
<1>2. CASE TakeOffer(m)
  <2>1. Types'
    BY <1>0, <1>2 DEF TakeOffer, run_nothing, timers, IInv, Types, States
  <2> QED BY <1>2, <2>1 DEF TakeOffer, IInv, Timers, Leased, ListenMatchesState, ConfiguredAsLeased
<1> QED BY <1>1, <1>2

\* An ACK sets T1, T2 and the lease time together, and the address in both places.
LEMMA AckStep == IInv /\ (\E m \in Messages : RecvAck(m)) => IInv'
<1> SUFFICES ASSUME IInv, NEW m \in Messages, RecvAck(m)
             PROVE  IInv'
  OBVIOUS
<1>0. m.yiaddr \in Addr /\ m.time \in Nat
  <2>1. m.yiaddr \in Addr /\ m.time \in LeaseTime \cup {0}
    BY ClientAssumption DEF Message
  <2>2. LeaseTime \cup {0} \subseteq Nat
    BY ClientAssumption
  <2> QED BY <2>1, <2>2
<1>1. lease' \in Nat \ {0}
  BY <1>0 DEF RecvAck, DefaultLease
<1>2. /\ t1' \in Nat /\ t2' \in Nat /\ elapsed' = 0 /\ left' = t1'
      /\ t1' <= t2' /\ t2' < lease'
  BY <1>1, AckTimes DEF RecvAck
<1>3. /\ state' \in {"BOUND", "EXITED"}
      /\ nvram' \in {nvram, bootp_cnt_offer}
      /\ script' \subseteq {"deconfig", "bound", "renew", "nak"}
      /\ listen_mode' = "NONE"
      /\ ifaddr' = m.yiaddr /\ requested_ip' = m.yiaddr /\ orphan' = 0
  BY DEF RecvAck, exit_client, change_mode, run_bound
<1>4. Types'
  BY <1>0, <1>1, <1>2, <1>3 DEF RecvAck, IInv, Types, States, Leased
<1>5. Timers'
  <2>1. elapsed' + left' = t1'
    BY <1>2, Rest
  <2> QED BY <1>2, <1>3, <2>1 DEF Timers
<1> QED BY <1>3, <1>4, <1>5 DEF IInv, Leased, ListenMatchesState, ConfiguredAsLeased

\* A NAK starts over, and any other packet changes nothing.
LEMMA OtherPacketStep == IInv /\ (\E m \in Messages : RecvNak(m) \/ RecvOther(m)) => IInv'
<1> SUFFICES ASSUME IInv, NEW m \in Messages, RecvNak(m) \/ RecvOther(m)
             PROVE  IInv'
  OBVIOUS
<1>1. CASE RecvNak(m)
  <2>1. Types'
    BY <1>1 DEF RecvNak, restart, change_mode, timers, bootp, IInv, Types, States
  <2> QED BY <1>1, <2>1 DEF RecvNak, restart, change_mode, IInv, Timers, Leased, ListenMatchesState,
                            ConfiguredAsLeased
<1>2. CASE RecvOther(m)
  <2>1. Types'
    BY <1>2 DEF RecvOther, run_nothing, peer, timers, bootp, IInv, Types
  <2> QED BY <1>2, <2>1 DEF RecvOther, run_nothing, peer, timers, IInv, Timers, Spent, Leased,
                            ListenMatchesState, ConfiguredAsLeased
<1> QED BY <1>1, <1>2

\* The signals.  A renewal forced by SIGUSR1 starts before the lease is over.
LEMMA RenewSignalStep == IInv /\ perform_renew => IInv'
<1> SUFFICES ASSUME IInv, perform_renew
             PROVE  IInv'
  OBVIOUS
<1>1. /\ state' \in States /\ state' \in {"RENEW_REQUESTED", "INIT_SELECTING"}
      /\ packet_num' = 0 /\ left' = 0
      /\ state' = "RENEW_REQUESTED" => state \in {"BOUND", "RENEWING", "REBINDING"}
      /\ ifaddr' \in {0, ifaddr} /\ orphan' \in {0, orphan}
      /\ state' = "RENEW_REQUESTED" => ifaddr' = ifaddr
      /\ script' \subseteq {"deconfig", "bound", "renew", "nak"}
  BY DEF perform_renew, Waiting, IInv, Types, States, Leased, run_nothing, run_deconfig
<1>2. listen_mode' = IF state' = "RENEW_REQUESTED" THEN "KERNEL" ELSE "RAW"
  BY DEF perform_renew, Waiting, IInv, Types, States, Leased, change_mode, ListenMatchesState
<1>3. Types'
  BY <1>1, <1>2 DEF perform_renew, peer, timers, bootp, IInv, Types
<1>4. Timers'
  BY <1>1 DEF perform_renew, timers, IInv, Types, Timers, Spent, Patience
<1> QED BY <1>1, <1>2, <1>3, <1>4 DEF perform_renew, peer, IInv, Leased, ListenMatchesState,
                                      ConfiguredAsLeased

\* SIGUSR2, and the end of the process.
LEMMA OtherSignalStep == IInv /\ (perform_release \/ Stop) => IInv'
<1> SUFFICES ASSUME IInv, perform_release \/ Stop
             PROVE  IInv'
  OBVIOUS
<1>1. CASE perform_release
  <2>1. sent' \subseteq Packet
    BY <1>1, Packets DEF perform_release, IInv, Types
  <2>2. Types'
    BY <1>1, <2>1 DEF perform_release, run_deconfig, run_nothing, change_mode, Forever, peer, timers,
                      bootp, IInv, Types, States
  <2> QED BY <1>1, <2>2 DEF perform_release, change_mode, IInv, Timers, Leased, ListenMatchesState,
                            ConfiguredAsLeased
<1>2. CASE Stop
  <2>1. Types'
    BY <1>2 DEF Stop, exit_client, run_nothing, peer, timers, IInv, Types, States
  <2> QED BY <1>2, <2>1 DEF Stop, exit_client, IInv, Timers, Leased, ListenMatchesState,
                            ConfiguredAsLeased
<1> QED BY <1>1, <1>2

\* A client that starts holds no lease.
LEMMA StartStep == IInv /\ Start => IInv'
<1> SUFFICES ASSUME IInv, Start
             PROVE  IInv'
  OBVIOUS
<1>1. Types'
  BY ClientAssumption DEF Start, change_mode, run_deconfig, IInv, Types, States
<1> QED BY <1>1 DEF Start, change_mode, IInv, Timers, Leased, ListenMatchesState, ConfiguredAsLeased

\* A second is added to the age of the lease and taken from the timeout.
LEMMA TickStep == IInv /\ Tick => IInv'
<1> SUFFICES ASSUME IInv, Tick
             PROVE  IInv'
  OBVIOUS
<1>0. /\ left \in Nat /\ elapsed \in Nat /\ left > 0 /\ left' = left - 1
      /\ elapsed' = IF state \in Leased THEN elapsed + 1 ELSE elapsed
      /\ UNCHANGED <<state, packet_num, t1, t2, lease>>
  BY DEF Tick, IInv, Types
<1>1. Types'
  BY <1>0 DEF Tick, run_nothing, peer, bootp, IInv, Types
<1>2. Timers'
  BY <1>0 DEF IInv, Types, Timers, Leased, Spent, Patience
<1> QED BY <1>1, <1>2 DEF Tick, run_nothing, peer, IInv, Leased, ListenMatchesState, ConfiguredAsLeased

\* Every step keeps the invariant.
LEMMA NextInv == IInv /\ [Next]_vars => IInv'
<1> SUFFICES ASSUME IInv, [Next]_vars
             PROVE  IInv'
  OBVIOUS
<1>1. CASE Timeout
  BY <1>1, DiscoverStep, RequestStep, RenewStep, RebindStep DEF Timeout
<1>2. CASE \E m \in Messages : Recv(m)
  BY <1>2, OfferStep, AckStep, OtherPacketStep DEF Recv
<1>3. CASE perform_renew \/ perform_release \/ Stop \/ Start \/ Tick
  BY <1>3, RenewSignalStep, OtherSignalStep, StartStep, TickStep
<1>4. CASE UNCHANGED vars
  BY <1>4 DEF vars, IInv, Types, Timers, Spent, ListenMatchesState, ConfiguredAsLeased
<1> QED BY <1>1, <1>2, <1>3, <1>4 DEF Next

\* The invariant holds in every state of the client.
LEMMA InvAlways == Spec => []IInv
  BY InitInv, NextInv, PTL DEF Spec

-----------------------------------------------------------------------------
\* Type correctness, for every set of messages and every lease time: among others
\* no timeout that the renewals compute is negative.
THEOREM TypeCorrect == Spec => []TypeOK
<1>1. Init => blocked \in BOOLEAN
  BY DEF Init
<1>2. Next => blocked' \in BOOLEAN
  <2>1. Timeout => blocked' = FALSE
    BY Zenon DEF Timeout, DiscoverTimeout, NoOffer, RequestTimeout, NoAnswer, RenewTimeout,
                 RebindTimeout, TimedOut
  <2>2. ASSUME NEW m \in Messages
        PROVE  Recv(m) => blocked' = FALSE
    BY Zenon DEF Recv, IgnoreOffer, TakeOffer, RecvAck, RecvNak, RecvOther, Heard, Waiting
  <2>3. perform_renew \/ perform_release \/ Stop \/ Start => blocked' = FALSE
    BY Zenon DEF perform_renew, perform_release, Stop, Start, Waiting
  <2>4. Tick => blocked' \in BOOLEAN
    BY Zenon DEF Tick
  <2> QED BY <2>1, <2>2, <2>3, <2>4, Zenon DEF Next
<1>3. blocked \in BOOLEAN /\ [Next]_vars => (blocked \in BOOLEAN)'
  <2>1. UNCHANGED vars => blocked' = blocked
    BY DEF vars
  <2> QED BY <1>2, <2>1, Zenon
<1>4. IInv /\ blocked \in BOOLEAN => TypeOK
  BY DEF IInv, TypeOK
<1> QED BY <1>1, <1>3, <1>4, InvAlways, PTL DEF Spec

\* An address is given back before its lease is over, and after a forced renewal
\* less than Patience seconds later, for every lease time.
THEOREM LeaseNotOutlived == Spec => []HeldWhileValid
<1>1. IInv => HeldWhileValid
  <2> SUFFICES ASSUME IInv
               PROVE  HeldWhileValid
    OBVIOUS
  <2>1. left \in Nat /\ elapsed \in Nat /\ lease \in Nat /\ t1 \in Nat /\ t2 \in Nat
        /\ packet_num \in 0 .. 3
    BY DEF IInv, Types
  <2>2. state \in {"BOUND", "RENEWING", "REBINDING"} => elapsed < lease
    BY <2>1 DEF IInv, Timers
  <2>3. state = "RENEW_REQUESTED" => elapsed < lease + Patience
    BY <2>1 DEF IInv, Timers, Spent, Patience
  <2> QED BY <2>2, <2>3 DEF HeldWhileValid
<1> QED BY <1>1, InvAlways, PTL

\* The client always listens where the answer it waits for will come.
THEOREM ListensForAnswers == Spec => []ListenMatchesState
<1>1. IInv => ListenMatchesState
  BY DEF IInv
<1> QED BY <1>1, InvAlways, PTL

\* The interface always has the address the held lease is for.
THEOREM InterfaceFollowsLease == Spec => []ConfiguredAsLeased
<1>1. IInv => ConfiguredAsLeased
  BY DEF IInv
<1> QED BY <1>1, InvAlways, PTL

\* A lease is given up by the timers only in its last moments.
THEOREM LeaseNotLostEarly == Spec => LostOnlyAtEnd
<1> DEFINE Early == (/\ state \in {"BOUND", "RENEWING", "REBINDING"}
                     /\ state' = "INIT_SELECTING"
                     /\ script' = {"deconfig"}) => (lease - elapsed <= slack)
<1>1. IInv /\ [Next]_vars => [Early]_vars
  <2> SUFFICES ASSUME IInv, Next,
                      state \in {"BOUND", "RENEWING", "REBINDING"},
                      state' = "INIT_SELECTING",
                      script' = {"deconfig"}
               PROVE  lease - elapsed <= slack
    BY DEF vars
  <2>1. CASE Timeout
    <3>1. RebindTimeout
      BY <2>1 DEF Timeout, DiscoverTimeout, NoOffer, RequestTimeout, NoAnswer, RenewTimeout
    <3>2. lease - t2 <= slack /\ left = 0
      BY <3>1 DEF RebindTimeout, TimedOut
    <3>3. elapsed = t2
      BY <3>1, <3>2 DEF RebindTimeout, IInv, Types, Timers
    <3> QED BY <3>2, <3>3
  <2>2. CASE \E m \in Messages : Recv(m)
    <3> SUFFICES ASSUME NEW m \in Messages, Recv(m)
                 PROVE  FALSE
      BY <2>2
    <3>1. RecvNak(m)
      BY DEF Recv, IgnoreOffer, TakeOffer, RecvAck, RecvOther, exit_client
    <3>2. "nak" \in script'
      BY <3>1 DEF RecvNak
    <3> QED BY <3>2
  <2>3. CASE perform_renew \/ perform_release \/ Stop \/ Start \/ Tick
    BY <2>3 DEF perform_renew, perform_release, Stop, Start, Tick, exit_client
  <2> QED BY <2>1, <2>2, <2>3 DEF Next
<1> QED BY <1>1, InvAlways, PTL DEF Spec, LostOnlyAtEnd

\* An interface without a lease has no address but the one that SIGUSR2 during a
\* forced renewal has left on it.
THEOREM NoAddressWithoutLease == Spec => []UnleasedIsDeconfigured
<1>1. Init => UnleasedIsDeconfigured
  BY DEF Init, UnleasedIsDeconfigured
<1>2. IInv /\ UnleasedIsDeconfigured /\ [Next]_vars => UnleasedIsDeconfigured'
  <2> SUFFICES ASSUME IInv, UnleasedIsDeconfigured, [Next]_vars
               PROVE  UnleasedIsDeconfigured'
    OBVIOUS
  <2>1. CASE Timeout
    BY <2>1 DEF Timeout, DiscoverTimeout, NoOffer, RequestTimeout, NoAnswer, RenewTimeout,
                RebindTimeout, exit_client, run_deconfig, run_nothing, UnleasedIsDeconfigured
  <2>2. CASE \E m \in Messages : Recv(m)
    <3> PICK m \in Messages : Recv(m)
      BY <2>2
    <3> QED BY DEF Recv, IgnoreOffer, TakeOffer, RecvAck, RecvNak, RecvOther, exit_client,
                   run_nothing, UnleasedIsDeconfigured
  <2>3. CASE perform_renew
    <3>1. state \in {"INIT_SELECTING", "REQUESTING", "RELEASED"} \/ state \in Leased
      BY <2>3 DEF perform_renew, Waiting, IInv, Types, States
    <3>2. CASE state \in {"INIT_SELECTING", "REQUESTING", "RELEASED"}
      <4>1. UNCHANGED <<ifaddr, orphan>>
        BY <2>3, <3>2 DEF perform_renew, run_nothing
      <4> QED BY <3>2, <4>1 DEF UnleasedIsDeconfigured
    <3>3. CASE state \in Leased
      <4>1. CASE state = "RENEW_REQUESTED"
        BY <2>3, <4>1 DEF perform_renew, run_deconfig, UnleasedIsDeconfigured
      <4>2. CASE state \in {"BOUND", "RENEWING", "REBINDING"}
        <5>1. state' = "RENEW_REQUESTED"
          BY <2>3, <4>2 DEF perform_renew
        <5> QED BY <5>1 DEF UnleasedIsDeconfigured
      <4> QED BY <3>3, <4>1, <4>2 DEF Leased
    <3> QED BY <3>1, <3>2, <3>3
  <2>4. CASE perform_release
    <3>1. \/ ifaddr' = 0 /\ orphan' = 0
          \/ /\ state \notin {"BOUND", "RENEWING", "REBINDING"} /\ ifaddr' = ifaddr
             /\ orphan' = IF state = "RENEW_REQUESTED" THEN ifaddr ELSE orphan
      BY <2>4 DEF perform_release, run_deconfig
    <3>2. state # "EXITED"
      BY <2>4 DEF perform_release, Waiting
    <3> QED BY <3>1, <3>2 DEF IInv, Types, States, Leased, UnleasedIsDeconfigured
  <2>5. CASE Stop \/ Start \/ Tick
    BY <2>5 DEF Stop, Start, Tick, exit_client, run_deconfig, run_nothing, UnleasedIsDeconfigured
  <2>6. CASE UNCHANGED vars
    BY <2>6 DEF vars, UnleasedIsDeconfigured
  <2> QED BY <2>1, <2>2, <2>3, <2>4, <2>5, <2>6 DEF Next
<1> QED BY <1>1, <1>2, InvAlways, PTL DEF Spec

\* Why a renewal is tried: T1 starts at the half and only grows, T2 does not move
\* before REBINDING, and REBINDING is entered when the two have met.
Renewals ==
    /\ state \in {"BOUND", "RENEWING"} => t2 = (lease * 7) \div 8 /\ t1 >= lease \div 2
    /\ state = "REBINDING" => (lease >= RenewableLease => t1 > lease \div 2)

\* Between T1 and T2 of an ACK there is time for a REQUEST.
LEMMA RenewalGap ==
    ASSUME NEW l \in Nat, l >= 5
    PROVE  (l * 7) \div 8 - l \div 2 > l \div 14400 + 1
  OBVIOUS

\* The T1 of an ACK is no less than the half of its lease.
LEMMA HalfIsHalf ==
    ASSUME NEW l \in Nat
    PROVE  l \div 2 >= l \div 2
  OBVIOUS

\* A lease of RenewableLease seconds or more is never lost before its server was
\* asked to renew it.
THEOREM RenewalAlwaysTried == Spec => RenewalTried
<1>1. Init => Renewals
  BY DEF Init, Renewals
<1>2. IInv /\ Renewals /\ [Next]_vars => Renewals'
  <2> SUFFICES ASSUME IInv, Renewals, [Next]_vars
               PROVE  Renewals'
    OBVIOUS
  <2>1. CASE RenewTimeout
    <3>0. /\ t1 \in Nat /\ t2 \in Nat /\ lease \in Nat /\ t1 <= t2
          /\ t2 = (lease * 7) \div 8 /\ t1 >= lease \div 2
          /\ t2' = t2 /\ lease' = lease
      BY <2>1 DEF RenewTimeout, IInv, Types, Timers, Renewals
    <3>1. CASE t2 - t1 <= slack
      <4>1. state' = "REBINDING" /\ t1' = t1
        BY <2>1, <3>1 DEF RenewTimeout
      <4>2. lease >= 5 => t1 # lease \div 2
        BY <3>0, <3>1, RenewalGap DEF slack
      <4>3. lease >= 5 => t1 > lease \div 2
        BY <3>0, <4>2
      <4> QED BY <3>0, <4>1, <4>3 DEF Renewals, RenewableLease
    <3>2. CASE ~(t2 - t1 <= slack)
      <4>1. state' = "RENEWING" /\ t1' = (t2 - t1) \div 2 + t1
        BY <2>1, <3>2 DEF RenewTimeout
      <4>2. t1' \in Nat /\ t1' >= t1
        BY <3>0, <4>1, HalfTime
      <4>3. t1' >= lease' \div 2
        BY <3>0, <4>2
      <4> QED BY <3>0, <4>1, <4>3 DEF Renewals
    <3> QED BY <3>1, <3>2
  <2>2. CASE RebindTimeout
    BY <2>2 DEF RebindTimeout, restart, Renewals
  <2>3. CASE DiscoverTimeout \/ NoOffer \/ RequestTimeout \/ NoAnswer
    BY <2>3 DEF DiscoverTimeout, NoOffer, RequestTimeout, NoAnswer, restart, exit_client, Renewals
  <2>4. CASE \E m \in Messages : Recv(m)
    <3> PICK m \in Messages : Recv(m)
      BY <2>4
    <3>1. CASE RecvAck(m)
      <4>1. state' \in {"BOUND", "EXITED"} /\ t1' = lease' \div 2 /\ t2' = (lease' * 7) \div 8
        BY <3>1 DEF RecvAck, exit_client
      <4>2. lease' \in Nat
        BY NextInv DEF IInv, Types
      <4>3. t1' >= lease' \div 2
        BY <4>1, <4>2, HalfIsHalf
      <4> QED BY <4>1, <4>3 DEF Renewals
    <3>2. CASE IgnoreOffer(m) \/ TakeOffer(m) \/ RecvNak(m)
      BY <3>2 DEF IgnoreOffer, TakeOffer, RecvNak, restart, Renewals
    <3>3. CASE RecvOther(m)
      BY <3>3 DEF RecvOther, timers, Renewals
    <3> QED BY <3>1, <3>2, <3>3 DEF Recv
  <2>5. CASE perform_renew
    BY <2>5 DEF perform_renew, Waiting, IInv, Types, States, Leased, Renewals
  <2>6. CASE perform_release \/ Stop \/ Start
    BY <2>6 DEF perform_release, Stop, Start, exit_client, Renewals
  <2>7. CASE Tick
    BY <2>7 DEF Tick, Renewals
  <2>8. CASE UNCHANGED vars
    BY <2>8 DEF vars, Renewals
  <2> QED BY <2>1, <2>2, <2>3, <2>4, <2>5, <2>6, <2>7, <2>8 DEF Next, Timeout
<1> DEFINE Tried == (state = "REBINDING" /\ state' = "INIT_SELECTING" /\ lease >= RenewableLease)
                       => (t1 > lease \div 2)
<1>3. Renewals /\ [Next]_vars => [Tried]_vars
  BY DEF Renewals
<1> QED BY <1>1, <1>2, <1>3, InvAlways, PTL DEF Spec, RenewalTried
=============================================================================
