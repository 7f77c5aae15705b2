----------------------------- MODULE LeaseTable -----------------------------
(***************************************************************************)
(* The lease table of the LAN DHCP server (udhcpd-0.9.8/leases.c): a fixed *)
(* array of max_leases slots, each of them a hardware address, an address, *)
(* the time at which the entry expires and a host name.  An entry is free  *)
(* when it is all zero; an entry with a blank hardware address reserves an *)
(* address that must not be handed out (ARP conflict, DECLINE, the         *)
(* router's own address).                                                  *)
(*                                                                         *)
(* The operators take the table t and the time n (sys_time(), the uptime)  *)
(* and return a table or a slot; slot numbers start at 1 and NULL is 0.    *)
(*                                                                         *)
(* A definition marked `Faulty' is a plausible bug of the one after it,    *)
(* used only to show that a property notices it.                           *)
(***************************************************************************)
EXTENDS Integers

CONSTANTS
    Client,       \* hardware addresses of the hosts on the LAN
    Blank,        \* blank_chaddr, the all-zero hardware address
    Addr,         \* IP addresses, as non-zero naturals in host order
    HostName,     \* host names clients send
    NoName,       \* the empty host name
    MaxLeases,    \* server_config.max_leases
    NetSize       \* number of addresses under the LAN netmask

ASSUME TableAssumption ==
    /\ MaxLeases \in Nat \ {0}
    /\ NetSize \in Nat \ {0}
    /\ Addr \subseteq Nat \ {0}
    /\ Blank \notin Client
    /\ NoName \notin HostName

NULL == 0

Slots == 1 .. MaxLeases

Lease ==
    [chaddr   : Client \cup {Blank},
     yiaddr   : Addr \cup {0},
     expires  : Nat,
     hostname : HostName \cup {NoName}]

Table == [Slots -> Lease]

ZeroLease == [chaddr |-> Blank, yiaddr |-> 0, expires |-> 0, hostname |-> NoName]

ZeroTable == [i \in Slots |-> ZeroLease]

\* The first slot of a set of slots: what the loops that return at the first
\* match find.
First(S) == IF S = {} THEN NULL ELSE CHOOSE i \in S : \A j \in S : i <= j

lease_expired(l, n) == l.expires < n

\* Faulty: nothing is cleared.
clear_no_lease(t, c, y) == t

clear_lease(t, c, y) ==
    [i \in Slots |->
        IF (c # Blank /\ t[i].chaddr = c) \/ (y # 0 /\ t[i].yiaddr = y)
        THEN ZeroLease ELSE t[i]]

\* Faulty: the oldest entry, expired or not.
oldest_lease(t, n) == First({i \in Slots : \A j \in Slots : t[i].expires <= t[j].expires})

\* Faulty: the entry that expired last.
newest_expired_lease(t, n) ==
    LET expired == {i \in Slots : lease_expired(t[i], n)}
    IN  First({i \in expired : \A j \in expired : t[i].expires >= t[j].expires})

oldest_expired_lease(t, n) ==
    LET expired == {i \in Slots : lease_expired(t[i], n)}
    IN  First({i \in expired : \A j \in expired : t[i].expires <= t[j].expires})

\* Faulty: the slot is looked for before the old entries are cleared.
slot_before_clearing(t, c, y, n) == IF y = 0 THEN NULL ELSE oldest_expired_lease(t, n)

\* The slot add_lease returns: NULL for the address 0.0.0.0 (the Gemtek guard)
\* and when no entry has expired.
add_lease_slot(t, c, y, n) ==
    IF y = 0 THEN NULL ELSE oldest_expired_lease(clear_lease(t, c, y), n)

\* The table add_lease leaves behind.  The old entries are cleared even when
\* there is no room for the new one; the host name of a reused slot stays.
add_lease(t, c, y, d, n) ==
    LET u == clear_lease(t, c, y)
        s == add_lease_slot(t, c, y, n)
    IN  IF y = 0 THEN t
        ELSE IF s = NULL THEN u
        ELSE [u EXCEPT ![s] = [chaddr |-> c, yiaddr |-> y, expires |-> n + d,
                               hostname |-> u[s].hostname]]

\* Faulty: reservations are not looked at.
find_client_by_yiaddr(t, y) == First({i \in Slots : t[i].yiaddr = y /\ t[i].chaddr # Blank})

find_lease_by_yiaddr(t, y) == First({i \in Slots : t[i].yiaddr = y})

\* The slot whose hardware address is c, before the test for the LAN address.
slot_of_chaddr(t, c) == First({i \in Slots : t[i].chaddr = c})

\* Faulty: the host part is lost.
network_part(a, l) == l - (l % NetSize)

\* The host part is kept, the network part becomes that of the address l.
rehome(a, l) == (l - (l % NetSize)) + (a % NetSize)

update_lease_by_new_ip(t, l) ==
    [i \in Slots |-> IF t[i].yiaddr = 0 THEN t[i]
                     ELSE [t[i] EXCEPT !.yiaddr = rehome(t[i].yiaddr, l)]]

-----------------------------------------------------------------------------
(* What makes the table a table of leases.                                 *)

one_per_client(t) ==
    \A i, j \in Slots : t[i].chaddr # Blank /\ t[i].chaddr = t[j].chaddr => i = j

one_per_address(t) ==
    \A i, j \in Slots : t[i].yiaddr # 0 /\ t[i].yiaddr = t[j].yiaddr => i = j

\* A client's entry always has an address.
clients_have_address(t) == \A i \in Slots : t[i].chaddr # Blank => t[i].yiaddr # 0
=============================================================================
