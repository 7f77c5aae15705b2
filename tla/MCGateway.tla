----------------------------- MODULE MCGateway -----------------------------
(* Small instances of Gateway.                                              *)
EXTENDS Gateway

\* external port, internal client, internal port, flag and lease duration
tcp(ext, client, dest, enabled, duration) ==
    [ext |-> ext, proto |-> "TCP", client |-> client, dest |-> dest,
     enabled |-> enabled, duration |-> duration]

\* Two requests of one client for one port, which replace each other and go to
\* different internal ports; a second port with the internal port, and so the
\* PORT_FW rules, of the first, for ever; another client's for that second port,
\* switched off, which may expire in the same second as the first.
ManyRequests ==
    {tcp(1, "a", "x", TRUE, 1), tcp(1, "a", "y", TRUE, 2), tcp(2, "a", "x", TRUE, 0),
     tcp(2, "b", "x", FALSE, 1)}

\* one client that renews its only mapping and gives no lease duration
Renewals == {tcp(1, "a", "x", TRUE, 0)}

\* mappings expire every day at two
AtTwo == -2
=============================================================================
