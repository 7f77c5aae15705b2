------------------------------ MODULE PortBook ------------------------------
(***************************************************************************)
(* What the UPnP gateway promises the hosts of the LAN about external      *)
(* ports, without lists, rules, memory or threads.  The book says who has  *)
(* which port.  A port is given only to who has it already or if nobody    *)
(* does, so it changes hands only by being free in between; ports are      *)
(* given and taken back one at a time, except when all are taken back.     *)
(***************************************************************************)
CONSTANTS Port, Client

VARIABLE book   \* pairs <<port, client>>

Claim(p, c) ==
    /\ \A owner \in Client : <<p, owner>> \in book => owner = c
    /\ book' = book \cup {<<p, c>>}

Release(p, c) ==
    /\ <<p, c>> \in book
    /\ book' = book \ {<<p, c>>}

ReleaseAll == book' = {}

Init == book = {}

Next ==
    \/ \E p \in Port, c \in Client : Claim(p, c) \/ Release(p, c)
    \/ ReleaseAll

Spec == Init /\ [][Next]_book
=============================================================================
