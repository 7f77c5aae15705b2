-------------------------- MODULE LeaseTableProofs --------------------------
(* What the operations on the lease table return and preserve, for every   *)
(* size of the table and every set of clients and addresses.               *)
EXTENDS LeaseTable, WellFoundedInduction, TLAPS

\* Every non-empty set of naturals has a least element: what a loop that
\* returns at the first match, or that keeps the smallest value, relies on.
LEMMA LeastNatural ==
    ASSUME NEW S \in SUBSET Nat, S # {}
    PROVE  \E m \in S : \A k \in S : m <= k
<1> DEFINE R == OpToRel(<, Nat)
<1>1. IsWellFoundedOn(R, Nat)
  BY NatLessThanWellFounded
<1>2. \A k, m \in Nat : k < m => <<k, m>> \in R
  BY DEF OpToRel
<1> HIDE DEF R
<1>3. PICK m \in S : \A k \in S : ~(<<k, m>> \in R)
  BY <1>1, WFMin
<1>4. ASSUME NEW k \in S PROVE m <= k
  <2>1. m \in Nat /\ k \in Nat
    OBVIOUS
  <2>2. ~(k < m)
    BY <1>2, <1>3, <2>1, Zenon
  <2> QED BY <2>1, <2>2
<1> QED BY <1>4

\* First returns a member of the set of slots, or NULL when there is none.
LEMMA FirstSlot ==
    ASSUME NEW S \in SUBSET Slots
    PROVE  /\ S = {} => First(S) = NULL
           /\ S # {} => First(S) \in S /\ \A j \in S : First(S) <= j
           /\ First(S) # NULL => First(S) \in S
<1>1. ASSUME S # {} PROVE First(S) \in S /\ \A j \in S : First(S) <= j
  <2>1. S \in SUBSET Nat
    BY TableAssumption DEF Slots
  <2>2. \E i \in S : \A j \in S : i <= j
    BY <1>1, <2>1, LeastNatural
  <2> QED BY <1>1, <2>2 DEF First
<1> QED BY <1>1 DEF First

\* oldest_expired_lease returns NULL exactly when no entry has expired, and
\* otherwise the slot of an expired entry.
LEMMA OldestExpired ==
    ASSUME NEW t \in Table, NEW n \in Nat
    PROVE  /\ oldest_expired_lease(t, n) # NULL =>
                /\ oldest_expired_lease(t, n) \in Slots
                /\ lease_expired(t[oldest_expired_lease(t, n)], n)
           /\ \A i \in Slots : lease_expired(t[i], n) => oldest_expired_lease(t, n) # NULL
<1> DEFINE E == {i \in Slots : lease_expired(t[i], n)}
           M == {i \in E : \A j \in E : t[i].expires <= t[j].expires}
<1>0. oldest_expired_lease(t, n) = First(M)
  BY DEF oldest_expired_lease
<1>1. M \in SUBSET Slots /\ M \subseteq E
  OBVIOUS
<1>2. ASSUME E # {} PROVE M # {}
  <2> DEFINE X == {t[i].expires : i \in E}
  <2>1. \A i \in Slots : t[i].expires \in Nat
    BY DEF Table, Lease
  <2>2. X \in SUBSET Nat /\ X # {}
    BY <1>2, <2>1
  <2>3. PICK m \in X : \A k \in X : m <= k
    BY <2>2, LeastNatural
  <2>4. PICK i \in E : m = t[i].expires
    OBVIOUS
  <2>5. i \in M
    BY <2>3, <2>4
  <2> QED BY <2>5
<1>3. First(M) # NULL => First(M) \in M
  BY <1>1, FirstSlot
<1>4. M # {} => First(M) # NULL
  <2>1. NULL \notin Slots
    BY TableAssumption DEF NULL, Slots
  <2> QED BY <1>1, <2>1, FirstSlot
<1>5. ASSUME NEW i \in Slots, lease_expired(t[i], n) PROVE First(M) # NULL
  BY <1>2, <1>4, <1>5
<1> QED BY <1>0, <1>1, <1>3, <1>5

\* clear_lease keeps entries or zeroes them, and leaves no entry of the client
\* nor of the address it is given.
LEMMA ClearLease ==
    ASSUME NEW t \in Table, NEW c \in Client \cup {Blank}, NEW y \in Addr \cup {0}
    PROVE  /\ clear_lease(t, c, y) \in Table
           /\ \A i \in Slots : clear_lease(t, c, y)[i] \in {t[i], ZeroLease}
           /\ \A i \in Slots : /\ c # Blank => clear_lease(t, c, y)[i].chaddr # c
                               /\ y # 0 => clear_lease(t, c, y)[i].yiaddr # y
           /\ \A i \in Slots : c # Blank /\ t[i].chaddr = c =>
                                  clear_lease(t, c, y)[i] = ZeroLease
<1>1. ZeroLease \in Lease /\ ZeroLease.chaddr = Blank /\ ZeroLease.yiaddr = 0
  BY DEF ZeroLease, Lease
<1> QED BY <1>1, TableAssumption DEF clear_lease, Table

\* The slot add_lease returns: an expired one of the cleared table; there is
\* one whenever the client already had an entry, however full the table is.
LEMMA AddLeaseSlot ==
    ASSUME NEW t \in Table, NEW c \in Client \cup {Blank}, NEW y \in Addr \cup {0},
           NEW n \in Nat \ {0}
    PROVE  /\ add_lease_slot(t, c, y, n) # NULL =>
                 add_lease_slot(t, c, y, n) \in Slots /\ y # 0
           /\ \A i \in Slots : t[i].chaddr = c /\ c # Blank /\ y # 0 =>
                                  add_lease_slot(t, c, y, n) # NULL
<1> DEFINE u == clear_lease(t, c, y)
<1>1. u \in Table
  BY ClearLease
<1>2. add_lease_slot(t, c, y, n) = IF y = 0 THEN NULL ELSE oldest_expired_lease(u, n)
  BY DEF add_lease_slot
<1>3. ASSUME NEW i \in Slots, t[i].chaddr = c, c # Blank, y # 0
      PROVE  oldest_expired_lease(u, n) # NULL
  <2>1. u[i] = ZeroLease
    BY <1>3, ClearLease
  <2>2. lease_expired(u[i], n)
    BY <2>1 DEF lease_expired, ZeroLease
  <2> HIDE DEF u
  <2> QED BY <1>1, <2>2, OldestExpired
<1>4. oldest_expired_lease(u, n) # NULL => oldest_expired_lease(u, n) \in Slots
  <2> HIDE DEF u
  <2> QED BY <1>1, OldestExpired
<1> HIDE DEF u
<1> QED BY <1>2, <1>3, <1>4

\* What add_lease does to the table: every entry but the one it returns is kept
\* or zeroed, no other entry has the client or the address, and the entry it
\* returns is the new lease.
LEMMA AddLease ==
    ASSUME NEW t \in Table, NEW c \in Client \cup {Blank}, NEW y \in Addr \cup {0},
           NEW n \in Nat \ {0}, NEW d \in Int, n + d \in Nat,
           NEW r, r = add_lease(t, c, y, d, n),
           NEW s, s = add_lease_slot(t, c, y, n)
    PROVE  /\ r \in Table
           /\ \A i \in Slots \ {s} :
                 /\ r[i] \in {t[i], ZeroLease}
                 /\ y # 0 => (c # Blank => r[i].chaddr # c) /\ r[i].yiaddr # y
           /\ s # NULL => /\ s \in Slots
                          /\ r[s].chaddr = c
                          /\ r[s].yiaddr = y
                          /\ r[s].expires = n + d
           /\ y = 0 => r = t
<1> DEFINE u == clear_lease(t, c, y)
           e == [chaddr |-> c, yiaddr |-> y, expires |-> n + d, hostname |-> u[s].hostname]
<1>1. /\ u \in Table
      /\ \A i \in Slots : u[i] \in {t[i], ZeroLease}
      /\ \A i \in Slots : (c # Blank => u[i].chaddr # c) /\ (y # 0 => u[i].yiaddr # y)
  BY ClearLease
<1>2. s # NULL => s \in Slots /\ y # 0
  BY AddLeaseSlot
<1>3. r = IF y = 0 THEN t ELSE IF s = NULL THEN u ELSE [u EXCEPT ![s] = e]
  BY DEF add_lease
<1>4. s # NULL => e \in Lease
  BY <1>1, <1>2 DEF Table, Lease
<1>5. y = 0 => s = NULL
  BY DEF add_lease_slot
<1>6. e.chaddr = c /\ e.yiaddr = y /\ e.expires = n + d
  OBVIOUS
<1> HIDE DEF u, e
<1>7. CASE y = 0
  BY <1>3, <1>5, <1>7 DEF Table
<1>8. CASE y # 0 /\ s = NULL
  BY <1>1, <1>3, <1>8 DEF Table
<1>9. CASE y # 0 /\ s # NULL
  BY <1>1, <1>2, <1>3, <1>4, <1>6, <1>9 DEF Table
<1> QED BY <1>7, <1>8, <1>9

\* add_lease keeps the table a table of leases: one entry per client, one per
\* address, and an address in every client's entry.
LEMMA AddLeaseKeeps ==
    ASSUME NEW t \in Table, NEW c \in Client \cup {Blank}, NEW y \in Addr \cup {0},
           NEW n \in Nat \ {0}, NEW d \in Int, n + d \in Nat
    PROVE  /\ add_lease(t, c, y, d, n) \in Table
           /\ one_per_client(t) => one_per_client(add_lease(t, c, y, d, n))
           /\ one_per_address(t) => one_per_address(add_lease(t, c, y, d, n))
           /\ clients_have_address(t) => clients_have_address(add_lease(t, c, y, d, n))
<1> DEFINE r == add_lease(t, c, y, d, n)
           s == add_lease_slot(t, c, y, n)
<1>1. /\ r \in Table
      /\ \A i \in Slots \ {s} :
            /\ r[i] \in {t[i], ZeroLease}
            /\ y # 0 => (c # Blank => r[i].chaddr # c) /\ r[i].yiaddr # y
      /\ s # NULL => s \in Slots /\ r[s].chaddr = c /\ r[s].yiaddr = y
      /\ y = 0 => r = t
  BY AddLease
<1>2. s # NULL => y # 0
  BY AddLeaseSlot
<1>3. ZeroLease.chaddr = Blank /\ ZeroLease.yiaddr = 0
  BY DEF ZeroLease
<1>4. NULL \notin Slots
  BY TableAssumption DEF NULL, Slots
<1> HIDE DEF r, s
<1>5. one_per_client(t) => one_per_client(r)
  BY <1>1, <1>2, <1>3, <1>4 DEF one_per_client
<1>6. one_per_address(t) => one_per_address(r)
  BY <1>1, <1>2, <1>3, <1>4 DEF one_per_address
<1>7. clients_have_address(t) => clients_have_address(r)
  BY <1>1, <1>2, <1>3, <1>4 DEF clients_have_address
<1> QED BY <1>1, <1>5, <1>6, <1>7 DEF r

\* When add_lease finds a slot, whatever entry the client has afterwards is the
\* one just added.
LEMMA AddLeaseFound ==
    ASSUME NEW t \in Table, NEW c \in Client, NEW y \in Addr \cup {0},
           NEW n \in Nat \ {0}, NEW d \in Int, n + d \in Nat,
           add_lease_slot(t, c, y, n) # NULL
    PROVE  /\ y # 0
           /\ \A i \in Slots : add_lease(t, c, y, d, n)[i].chaddr = c =>
                                 add_lease(t, c, y, d, n)[i].yiaddr = y
<1> DEFINE r == add_lease(t, c, y, d, n)
           s == add_lease_slot(t, c, y, n)
<1>1. c \in Client \cup {Blank} /\ c # Blank
  BY TableAssumption
<1>2. /\ \A i \in Slots \ {s} : y # 0 => (c # Blank => r[i].chaddr # c) /\ r[i].yiaddr # y
      /\ s # NULL => s \in Slots /\ r[s].yiaddr = y
  BY <1>1, AddLease
<1>3. s # NULL => y # 0
  BY <1>1, AddLeaseSlot
<1> HIDE DEF r, s
<1>4. s # NULL => y # 0 /\ \A i \in Slots : r[i].chaddr = c => r[i].yiaddr = y
  BY <1>1, <1>2, <1>3
<1> QED BY <1>4 DEF r, s

\* find_lease_by_chaddr and find_lease_by_yiaddr return a slot that matches,
\* or NULL when none does.
LEMMA FindLease ==
    ASSUME NEW t \in Table, NEW c, NEW y
    PROVE  /\ slot_of_chaddr(t, c) # NULL =>
                 slot_of_chaddr(t, c) \in Slots /\ t[slot_of_chaddr(t, c)].chaddr = c
           /\ slot_of_chaddr(t, c) = NULL => \A i \in Slots : t[i].chaddr # c
           /\ find_lease_by_yiaddr(t, y) # NULL =>
                 /\ find_lease_by_yiaddr(t, y) \in Slots
                 /\ t[find_lease_by_yiaddr(t, y)].yiaddr = y
           /\ find_lease_by_yiaddr(t, y) = NULL => \A i \in Slots : t[i].yiaddr # y
<1> DEFINE C == {i \in Slots : t[i].chaddr = c}
           Y == {i \in Slots : t[i].yiaddr = y}
<1>1. slot_of_chaddr(t, c) = First(C) /\ find_lease_by_yiaddr(t, y) = First(Y)
  BY DEF slot_of_chaddr, find_lease_by_yiaddr
<1>2. NULL \notin Slots
  BY TableAssumption DEF NULL, Slots
<1>3. (First(C) # NULL => First(C) \in C) /\ (C # {} => First(C) \in C)
  BY FirstSlot
<1>4. (First(Y) # NULL => First(Y) \in Y) /\ (Y # {} => First(Y) \in Y)
  BY FirstSlot
<1> QED BY <1>1, <1>2, <1>3, <1>4

\* update_lease_by_new_ip keeps one entry per client, and one per address when
\* no two addresses have the same host part: when the table is of one subnet.
LEMMA UpdateLease ==
    ASSUME NEW t \in Table, NEW l, \A a \in Addr : rehome(a, l) \in Addr,
           NEW r, r = update_lease_by_new_ip(t, l)
    PROVE  /\ r \in Table
           /\ one_per_client(t) => one_per_client(r)
           /\ clients_have_address(t) => clients_have_address(r)
           /\ (\A a, b \in Addr : rehome(a, l) = rehome(b, l) => a = b) =>
                 (one_per_address(t) => one_per_address(r))
<1>1. ASSUME NEW i \in Slots
      PROVE  /\ r[i] \in Lease
             /\ r[i].chaddr = t[i].chaddr
             /\ t[i].yiaddr = 0 => r[i].yiaddr = 0
             /\ t[i].yiaddr # 0 => /\ t[i].yiaddr \in Addr
                                   /\ r[i].yiaddr = rehome(t[i].yiaddr, l)
  <2>1. t[i] \in Lease
    BY DEF Table
  <2> QED BY <2>1 DEF update_lease_by_new_ip, Lease
<1>2. r \in Table
  BY <1>1 DEF update_lease_by_new_ip, Table
<1>3. one_per_client(t) => one_per_client(r)
  BY <1>1 DEF one_per_client
<1>4. clients_have_address(t) => clients_have_address(r)
  BY <1>1, TableAssumption DEF clients_have_address
<1>5. ASSUME \A a, b \in Addr : rehome(a, l) = rehome(b, l) => a = b,
             one_per_address(t)
      PROVE  one_per_address(r)
  <2>1. ASSUME NEW i \in Slots, NEW j \in Slots, r[i].yiaddr # 0, r[i].yiaddr = r[j].yiaddr
        PROVE  i = j
    <3>1. t[i].yiaddr # 0 /\ t[j].yiaddr # 0
      BY <1>1, <2>1
    <3>2. t[i].yiaddr = t[j].yiaddr
      BY <1>1, <1>5, <2>1, <3>1
    <3> QED BY <1>5, <3>1, <3>2 DEF one_per_address
  <2> QED BY <2>1 DEF one_per_address
<1> QED BY <1>2, <1>3, <1>4, <1>5

\* add_lease keeps every unexpired entry of another client for another address,
\* in its slot: only an expired entry makes room for the new one.
LEMMA AddLeaseLive ==
    ASSUME NEW t \in Table, NEW c \in Client \cup {Blank}, NEW y \in Addr \cup {0},
           NEW n \in Nat \ {0}, NEW d \in Int, NEW i \in Slots,
           ~lease_expired(t[i], n), t[i].yiaddr # y, c # Blank => t[i].chaddr # c
    PROVE  add_lease(t, c, y, d, n)[i] = t[i]
<1> DEFINE u == clear_lease(t, c, y)
           s == add_lease_slot(t, c, y, n)
           e == [chaddr |-> c, yiaddr |-> y, expires |-> n + d, hostname |-> u[s].hostname]
<1>1. u[i] = t[i] /\ u \in Table
  <2>1. u \in Table
    BY ClearLease
  <2> QED BY <2>1 DEF clear_lease
<1>2. s # NULL => s \in Slots /\ lease_expired(u[s], n)
  <2>1. s = IF y = 0 THEN NULL ELSE oldest_expired_lease(u, n)
    BY DEF add_lease_slot
  <2> HIDE DEF u, s
  <2> QED BY <1>1, <2>1, OldestExpired
<1>3. s # NULL => s # i
  <2> HIDE DEF u, s
  <2> QED BY <1>1, <1>2
<1>4. add_lease(t, c, y, d, n) =
         IF y = 0 THEN t ELSE IF s = NULL THEN u ELSE [u EXCEPT ![s] = e]
  BY DEF add_lease
<1> HIDE DEF u, s, e
<1> QED BY <1>1, <1>3, <1>4 DEF Table

\* Where the entries before slot k have been used and slot k never was, a new
\* entry goes into slot k, whether those before it have expired or not.
LEMMA OldestUnused ==
    ASSUME NEW t \in Table, NEW n \in Nat \ {0}, NEW k \in Slots, t[k].expires = 0,
           \A i \in Slots : i < k => t[i].expires >= 1
    PROVE  oldest_expired_lease(t, n) = k
<1> DEFINE E == {i \in Slots : lease_expired(t[i], n)}
           M == {i \in E : \A j \in E : t[i].expires <= t[j].expires}
<1>0. oldest_expired_lease(t, n) = First(M)
  BY DEF oldest_expired_lease
<1>1. \A i \in Slots : t[i].expires \in Nat /\ i \in Nat
  BY TableAssumption DEF Table, Lease, Slots
<1>2. k \in E
  BY DEF lease_expired
<1>3. k \in M
  BY <1>1, <1>2
<1>4. ASSUME NEW i \in M PROVE i \in Slots /\ ~(i < k)
  <2>1. t[i].expires <= t[k].expires
    BY <1>2
  <2> QED BY <1>1, <2>1
<1>5. M \in SUBSET Slots /\ M # {}
  BY <1>3
<1> HIDE DEF M
<1>6. First(M) \in M /\ First(M) <= k
  BY <1>3, <1>5, FirstSlot
<1> QED BY <1>0, <1>1, <1>4, <1>5, <1>6
=============================================================================
