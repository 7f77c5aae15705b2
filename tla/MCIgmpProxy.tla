---------------------------- MODULE MCIgmpProxy ----------------------------
(* Small instances of IgmpProxy.                                            *)
EXTENDS IgmpProxy

CONSTANTS h1, h2

Hosts == {h1, h2}

\* all hosts on one interface
OneLan == [h \in Hosts |-> "br0"]
=============================================================================
