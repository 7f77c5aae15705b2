---------------------------- MODULE MCDhcpServer ----------------------------
(* Small instances of DhcpServer.  Addresses 9 .. 14 are one subnet of      *)
(* eight, its last octet running from 1 to 6.                               *)
EXTENDS DhcpServer, TLC

CONSTANTS c1, c2

Clients == {c1, c2}

\* the pool 10 .. 12 with the router at 12, inside it
MCLan == {12}
MCPool == [l \in MCLan |-> [start |-> 10, end |-> 12]]
MCAddr == 8 .. 15

packet(type, c, req, sid, ci, lt, h) ==
    [type |-> type, xid |-> 0, chaddr |-> c, req |-> req, sid |-> sid,
     ciaddr |-> ci, ltime |-> lt, host |-> h]

Discovers(C, A) == {packet("DISCOVER", c, a, 0, 0, 0, NoName) : c \in C, a \in A}
Selecting(C, A, L) == {packet("REQUEST", c, a, l, 0, 0, NoName) : c \in C, a \in A, l \in L}
Rebooting(C, A) == {packet("REQUEST", c, a, 0, 0, 0, NoName) : c \in C, a \in A}
Renewing(C, A) == {packet("REQUEST", c, 0, 0, a, 0, NoName) : c \in C, a \in A}
Leaving(C) == {packet(t, c, 0, 0, 0, 0, NoName) : c \in C, t \in {"DECLINE", "RELEASE", "INFORM"}}

\* every shape of packet; 13 is another server and outside the pool; one client
\* asks for lease times below, between and above min_lease and lease
ProtocolPackets ==
    Discovers(Clients, {0, 10, 12}) \cup Selecting(Clients, {0, 10, 12}, MCLan) \cup
    Selecting({c1}, {10}, {13}) \cup Selecting({c2}, {13}, MCLan) \cup
    Rebooting(Clients, {11}) \cup Renewing(Clients, {0, 10}) \cup Leaving(Clients) \cup
    {packet(t, c1, 11, 0, 0, lt, NoName) : t \in {"DISCOVER", "REQUEST"}, lt \in {1, 2, 9}}

\* clients that come and are served, and name themselves
RestartPackets ==
    Discovers({c1}, {0}) \cup Renewing({c1}, {11, 12}) \cup
    {packet("REQUEST", c2, a, 0, 0, 0, c2) : a \in {11, 12}}

\* the router moves within its subnet, onto an address of the pool it had
TwoPools == {10, 12}
TwoPoolsOf == [l \in TwoPools |-> IF l = 10 THEN [start |-> 11, end |-> 12]
                                            ELSE [start |-> 10, end |-> 11]]

LivePackets == Discovers({c1}, {0}) \cup Discovers({c2}, {10}) \cup Leaving({c1})
=============================================================================
