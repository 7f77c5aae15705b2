---------------------------- MODULE MCDhcpClient ----------------------------
(* Small instances of DhcpClient.                                           *)
EXTENDS DhcpClient, TLC

message(type, x, mine, a, s, lt, b) ==
    [type |-> type, xid |-> x, mine |-> mine, yiaddr |-> a, sid |-> s, time |-> lt, bootp |-> b]

Addrs == {10, 11}
Servers == {1}

\* leases around every edge of T1 and T2: too short to renew, the shortest that
\* can be renewed, and long enough for several renewals
Times == {1, 2, 5, 17}

Offers(X, S, B) == {message("OFFER", x, TRUE, 10, s, 0, b) : x \in X, s \in S, b \in B}
Acks(X, A, T) == {message("ACK", x, TRUE, a, 1, lt, FALSE) : x \in X, a \in A, lt \in T}
Naks(X) == {message("NAK", x, FALSE, 10, 1, 0, FALSE) : x \in X}
ForOthers(t) == {message(t, 1, FALSE, 11, 1, 0, FALSE)}

\* every shape of message, with the transaction's identifier and an old one
ProtocolMessages ==
    Offers(Xid, {0, 1}, BOOLEAN) \cup Acks({1}, Addrs, LeaseTime) \cup Acks({2}, {10}, {5})
    \cup Naks(Xid) \cup ForOthers("OFFER") \cup ForOthers("ACK")

\* every OFFER comes with BOOTP data
LiveMessages == Offers({1}, {1}, {TRUE}) \cup Acks({1}, {10}, LeaseTime) \cup Naks({1})
=============================================================================
