--------------------------- MODULE GatewayProofs ---------------------------
(***************************************************************************)
(* Theorems about the UPnP gateway, for any number of cells, requests and  *)
(* jobs and any interleaving of its threads.                               *)
(***************************************************************************)
EXTENDS Gateway, FiniteSetTheorems, TLAPS

USE DEF NoEvent

(***************************************************************************)
(* The inductive invariant.                                                *)
(***************************************************************************)

\* The list holds allocated cells.  What only pmlist_Tail leads to excludes a
\* list, and there is none before StateTableInit.
ListShape ==
    /\ \A c \in list : heap[c].live
    /\ orphans # {} => list = {}
    /\ phase = "register" => orphans = {}

\* Ids come from a counter, and a job is no longer in the queue.
EventIds ==
    /\ \A e \in eventQ \cup pool : e.id < lastId
    /\ \A e, f \in eventQ \cup pool : e.id = f.id => e = f
    /\ eventQ \cap pool = {}

\* Nothing is scheduled for the time 0, which means never, and nothing runs early.
EventTimes ==
    /\ \A e \in eventQ \cup pool : e.time > 0
    /\ \A e \in pool : e.time <= now

\* EventsFollowList, with the part about events for every phase.
Followed ==
    sound =>
        /\ orphans = {}
        /\ \A e \in eventQ \cup pool : /\ e.cell \in list
                                       /\ heap[e.cell].eid = e.id
                                       /\ heap[e.cell].due = e.time
        /\ TimerRuns => \A c \in list : heap[c].due # 0 => \E e \in eventQ \cup pool : e.cell = c

Inv == TypeOK /\ ListShape /\ OneMappingPerPort /\ EventIds /\ EventTimes /\ Followed /\ RulesFollowList

Heap == [Cell -> [live : BOOLEAN, m : Requests, eid : NoEvent .. MaxId, due : Nat]]

-----------------------------------------------------------------------------
(***************************************************************************)
(* Operators.                                                              *)
(***************************************************************************)

\* A mapping is scheduled for no time before now (gatedevice.c:1264).
LEMMA ExpiryType ==
    ASSUME NEW m \in Requests, now \in Nat
    PROVE  expirationTime(m) \in Nat
<1>1. /\ m.duration \in Int /\ Default \in Int /\ Day \in Nat \ {0} /\ Soon \in Nat
      /\ -Default < Day
  BY GatewayAssumption DEF Request
<1>2. now % Day \in Nat /\ now % Day < Day
  BY <1>1
<1> DEFINE r == now % Day
<1> HIDE DEF r
<1>3. r \in Nat /\ r < Day
  BY <1>2 DEF r
<1>4. CASE m.duration > 0
  BY <1>1, <1>4 DEF expirationTime
<1>5. CASE ~(m.duration > 0) /\ ~(Default < 0)
  BY <1>1, <1>5 DEF expirationTime
<1>6. CASE ~(m.duration > 0) /\ Default < 0
  <2>1. expirationTime(m) = now + (IF -Default - r < Soon THEN -Default - r + Day ELSE -Default - r)
    BY <1>1, <1>6 DEF expirationTime, r
  <2> QED BY <2>1, <1>1, <1>3, <1>6
<1> QED BY <1>1, <1>4, <1>5, <1>6

\* What freeing does to a cell (pmlist.c:219, gatedevice.c:1224).
LEMMA FreedCell ==
    ASSUME NEW h \in Heap, NEW D, NEW E, NEW c \in Cell
    PROVE  /\ freed(D, E, h)[c].live <=> h[c].live /\ c \notin D
           /\ freed(D, E, h)[c].m = h[c].m
           /\ c \notin D => freed(D, E, h)[c].due = h[c].due
           /\ c \notin D /\ (\A e \in E : e.cell # c) => freed(D, E, h)[c].eid = h[c].eid
BY DEF freed

LEMMA FreedType ==
    ASSUME NEW h \in Heap, NEW D, NEW E, MaxId \in Nat
    PROVE  freed(D, E, h) \in Heap
<1> SUFFICES ASSUME NEW c \in Cell
             PROVE  [live |-> h[c].live /\ c \notin D,
                     m |-> h[c].m,
                     eid |-> IF c \in D \cup {e.cell : e \in E} THEN NoEvent ELSE h[c].eid,
                     due |-> IF c \in D THEN 0 ELSE h[c].due]
                       \in [live : BOOLEAN, m : Requests, eid : NoEvent .. MaxId, due : Nat]
  BY DEF freed, Heap
<1>1. h[c] \in [live : BOOLEAN, m : Requests, eid : NoEvent .. MaxId, due : Nat]
  BY DEF Heap
<1>2. (IF c \in D \cup {e.cell : e \in E} THEN NoEvent ELSE h[c].eid) \in NoEvent .. MaxId
  BY <1>1
<1>3. (IF c \in D THEN 0 ELSE h[c].due) \in Nat
  BY <1>1
<1> QED BY <1>1, <1>2, <1>3

\* Copies is a number, also of cells about to be freed.
LEMMA CopiesType ==
    ASSUME NEW D, D \subseteq Cell, NEW r
    PROVE  IsFiniteSet({c \in D : has_rule(heap[c].m, r)}) /\ Copies(D, r) \in Nat
<1>1. IsFiniteSet({c \in D : has_rule(heap[c].m, r)})
  BY FS_Subset, GatewayAssumption
<1> QED BY <1>1, FS_CardinalityType DEF Copies

\* Taking away the rules of some mappings leaves those of the others: iptables
\* counts the copies that mappings share.
LEMMA CopiesLess ==
    ASSUME NEW l, l \subseteq Cell, NEW D, D \subseteq l, NEW r
    PROVE  less(Copies(l, r), Copies(D, r)) = Copies(l \ D, r)
<1> DEFINE S(X) == {c \in X : has_rule(heap[c].m, r)}
<1>1. /\ IsFiniteSet(S(D)) /\ IsFiniteSet(S(l \ D))
      /\ Copies(l, r) \in Nat /\ Copies(D, r) \in Nat /\ Copies(l \ D, r) \in Nat
  BY CopiesType
<1>2. S(l) = S(D) \cup S(l \ D) /\ S(D) \cap S(l \ D) = {}
  OBVIOUS
<1>3. Cardinality(S(l)) = Cardinality(S(D)) + Cardinality(S(l \ D)) - Cardinality({})
  BY <1>1, <1>2, FS_Union
<1>4. Copies(l, r) = Copies(D, r) + Copies(l \ D, r)
  BY <1>1, <1>3, FS_EmptySet DEF Copies
<1> QED BY <1>1, <1>4 DEF less

-----------------------------------------------------------------------------
(***************************************************************************)
(* AddPortMapping.                                                         *)
(***************************************************************************)

LEMMA AddStep ==
    ASSUME Inv, NEW m \in Requests, AddPortMapping(m)
    PROVE  Inv'
<1> DEFINE D == pmlist_Find(m)
           E == CancelMappingExpiration(D, heap)
           h == freed(D, E, heap)
           due == expirationTime(m)
           timed == due # 0 /\ TimerRuns
           new(c) == [id |-> lastId, time |-> due, cell |-> c]
<1>1. PICK c \in Cell, garbage \in NoEvent .. MaxId :
        /\ ~h[c].live
        /\ pmlist_PushBack(c, list \ D)
        /\ heap' = [h EXCEPT ![c] = [live |-> TRUE, m |-> m, due |-> due,
                                      eid |-> IF timed THEN lastId ELSE garbage]]
        /\ eventQ' = (eventQ \ E) \cup (IF timed THEN {new(c)} ELSE {})
        /\ lastId' = IF timed THEN lastId + 1 ELSE lastId
        /\ rules' = [r \in Rules |-> added(less(rules[r], Copies(D, r)), m, r)]
        /\ sound' = (sound /\ Exact(D, E, pool))
  BY DEF AddPortMapping, new_event
<1>2. /\ lastId < MaxId /\ pmlist_Find_SameExtPort(m) = {}
      /\ phase' = phase /\ pool' = pool /\ now' = now
  BY DEF AddPortMapping
<1>3. /\ heap \in Heap /\ list \subseteq Cell /\ MaxId \in Nat /\ lastId \in 0 .. MaxId /\ now \in Nat
  BY GatewayAssumption DEF Inv, TypeOK, Heap
<1>4. D \subseteq list
  BY DEF pmlist_Find
<1>5. due \in Nat
  BY <1>3, ExpiryType
<1>6. h \in Heap
  BY <1>3, FreedType
<1> HIDE DEF D, E, h, due, timed
<1>7. c \notin list \ D
  <2> SUFFICES ASSUME c \in list, c \notin D PROVE FALSE
    OBVIOUS
  <2>1. heap[c].live
    BY DEF Inv, ListShape
  <2> QED BY <1>1, <1>3, <2>1, FreedCell DEF h
<1>8. /\ heap' \in Heap
      /\ heap'[c] = [live |-> TRUE, m |-> m, due |-> due, eid |-> IF timed THEN lastId ELSE garbage]
      /\ \A x \in Cell : x # c => heap'[x] = h[x]
  <2>1. [live |-> TRUE, m |-> m, due |-> due, eid |-> IF timed THEN lastId ELSE garbage]
          \in [live : BOOLEAN, m : Requests, eid : NoEvent .. MaxId, due : Nat]
    BY <1>3, <1>5
  <2> QED BY <1>1, <1>6, <2>1 DEF Heap
<1>9. /\ heap'[c].live /\ heap'[c].m = m /\ heap'[c].due = due
      /\ timed => heap'[c].eid = lastId
  BY <1>8
<1>10. \A x \in list \ D : /\ heap[x].live => heap'[x].live
                           /\ heap'[x].m = heap[x].m
                           /\ heap'[x].due = heap[x].due
                           /\ (\A e \in E : e.cell # x) => heap'[x].eid = heap[x].eid
  BY <1>3, <1>7, <1>8, FreedCell DEF h, Heap
<1>11. /\ list' \subseteq (list \ D) \cup {c}
       /\ orphans = {} => list' = (list \ D) \cup {c} /\ orphans' = {}
       /\ orphans # {} => list' = list \ D /\ orphans' \subseteq orphans \cup {c}
  BY <1>1 DEF pmlist_PushBack
<1>12. eventQ' \subseteq eventQ \cup {new(c)} /\ (~timed => eventQ' \subseteq eventQ)
  BY <1>1
<1>13. TypeOK'
  <2>1. eventQ' \subseteq Event
    <3>1. new(c) \in Event
      BY <1>3, <1>5 DEF Event
    <3> QED BY <1>12, <3>1 DEF Inv, TypeOK
  <2>2. rules' \in [Rules -> Nat]
    <3> SUFFICES ASSUME NEW r \in Rules
                 PROVE  added(less(rules[r], Copies(D, r)), m, r) \in Nat
      BY <1>1
    <3>1. rules[r] \in Nat /\ Copies(D, r) \in Nat
      BY <1>3, <1>4, CopiesType DEF Inv, TypeOK
    <3> QED BY <3>1 DEF added, less
  <2>3. lastId' \in 0 .. MaxId
    BY <1>1, <1>2, <1>3
  <2>4. sound' \in BOOLEAN
    BY <1>1, Zenon
  <2>5. list' \subseteq Cell /\ orphans' \subseteq Cell
    BY <1>3, <1>11 DEF Inv, TypeOK
  <2> QED BY <1>2, <1>8, <2>1, <2>2, <2>3, <2>4, <2>5 DEF Inv, TypeOK, Heap
<1>14. ListShape'
  <2>1. \A x \in list' : heap'[x].live
    BY <1>9, <1>10, <1>11 DEF Inv, ListShape
  <2>2. orphans' # {} => list' = {}
    BY <1>11 DEF Inv, ListShape
  <2>3. phase' = "register" => orphans' = {}
    BY <1>2, <1>11 DEF Inv, ListShape
  <2> QED BY <2>1, <2>2, <2>3 DEF ListShape
<1>15. OneMappingPerPort'
  <2>1. \A x \in list \ D : ~(heap[x].m.ext = m.ext /\ heap[x].m.proto = m.proto)
    BY <1>2 DEF D, pmlist_Find, pmlist_Find_SameExtPort
  <2> QED BY <1>9, <1>10, <1>11, <2>1 DEF Inv, OneMappingPerPort
<1>16. EventIds'
  <2>1. \A e \in eventQ \cup pool : e.id < lastId
    BY DEF Inv, EventIds
  <2>2. \A e \in eventQ \cup pool : e.id \in Nat
    BY DEF Inv, TypeOK, Event
  <2>3. \A e \in eventQ' \cup pool' : e.id < lastId'
    BY <1>1, <1>2, <1>3, <1>12, <2>1, <2>2
  <2>4. \A e, f \in eventQ' \cup pool' : e.id = f.id => e = f
    <3>1. \A e \in eventQ' \cup pool' : e \in eventQ \cup pool \/ e = new(c)
      BY <1>2, <1>12
    <3>2. \A e \in eventQ \cup pool : e.id # new(c).id
      BY <2>1, <2>2, <1>3
    <3> QED BY <3>1, <3>2 DEF Inv, EventIds
  <2>5. eventQ' \cap pool' = {}
    <3>1. \A e \in pool : e.id # new(c).id
      BY <2>1, <2>2, <1>3
    <3> QED BY <1>2, <1>12, <3>1 DEF Inv, EventIds
  <2> QED BY <2>3, <2>4, <2>5 DEF EventIds
<1>17. EventTimes'
  <2>1. timed => due > 0
    BY <1>5 DEF timed
  <2> QED BY <1>2, <1>12, <2>1 DEF Inv, EventTimes
<1>18. ASSUME sound' PROVE sound /\ Exact(D, E, pool)
  BY <1>1, <1>18, Zenon DEF Inv, TypeOK
<1>19. Followed'
  <2> SUFFICES ASSUME sound'
               PROVE  /\ orphans' = {}
                      /\ \A e \in eventQ' \cup pool' : /\ e.cell \in list'
                                                        /\ heap'[e.cell].eid = e.id
                                                        /\ heap'[e.cell].due = e.time
                      /\ TimerRuns' => \A x \in list' : heap'[x].due # 0 =>
                                                       \E e \in eventQ' \cup pool' : e.cell = x
    BY DEF Followed
  <2>1. sound /\ Exact(D, E, pool)
    BY <1>18
  <2>2. /\ orphans = {}
        /\ \A e \in eventQ \cup pool : e.cell \in list /\ heap[e.cell].eid = e.id /\ heap[e.cell].due = e.time
        /\ TimerRuns => \A x \in list : heap[x].due # 0 => \E e \in eventQ \cup pool : e.cell = x
    BY <2>1 DEF Inv, Followed
  <2>3. orphans' = {} /\ list' = (list \ D) \cup {c}
    BY <1>11, <2>2
  <2>4. \A e \in (eventQ \ E) \cup pool : e.cell \in list \ D /\ \A f \in E : f.cell # e.cell
    BY <2>1, <2>2 DEF Exact
  <2>5. \A e \in (eventQ \ E) \cup pool : /\ e.cell \in list'
                                          /\ heap'[e.cell].eid = e.id
                                          /\ heap'[e.cell].due = e.time
    BY <1>10, <2>2, <2>3, <2>4
  <2>6. timed => /\ new(c).cell \in list'
                 /\ heap'[new(c).cell].eid = new(c).id
                 /\ heap'[new(c).cell].due = new(c).time
    BY <1>9, <2>3
  <2>7. eventQ' \cup pool' = ((eventQ \ E) \cup pool) \cup (IF timed THEN {new(c)} ELSE {})
    BY <1>1, <1>2
  <2>8. ASSUME TimerRuns', NEW x \in list', heap'[x].due # 0
        PROVE  \E e \in eventQ' \cup pool' : e.cell = x
    <3>1. TimerRuns
      BY <1>2, <2>8 DEF TimerRuns
    <3>2. CASE x = c
      <4>1. timed
        BY <1>9, <2>8, <3>1, <3>2 DEF timed
      <4>2. new(c) \in eventQ' \cup pool' /\ new(c).cell = x
        BY <2>7, <3>2, <4>1
      <4> QED BY <4>2
    <3>3. CASE x \in list \ D
      <4>1. PICK e \in eventQ \cup pool : e.cell = x
        BY <1>10, <2>2, <2>8, <3>1, <3>3
      <4>2. e \notin E
        BY <2>1, <3>3, <4>1 DEF Exact
      <4> QED BY <2>7, <4>1, <4>2
    <3> QED BY <2>3, <3>2, <3>3
  <2> QED BY <2>3, <2>5, <2>6, <2>7, <2>8
<1>20. RulesFollowList'
  <2> SUFFICES ASSUME sound', NEW r \in Rules
               PROVE  rules'[r] = Cardinality({x \in list' : has_rule(heap'[x].m, r)})
    BY DEF RulesFollowList, Copies
  <2> DEFINE S == {x \in list \ D : has_rule(heap[x].m, r)}
  <2>1. sound /\ orphans = {} /\ list' = (list \ D) \cup {c}
    BY <1>11, <1>18 DEF Inv, Followed
  <2>2. rules[r] = Copies(list, r)
    BY <2>1 DEF Inv, RulesFollowList
  <2>3. rules'[r] = added(Copies(list \ D, r), m, r)
    BY <1>1, <1>3, <1>4, <2>2, CopiesLess
  <2>4. IsFiniteSet(S) /\ Copies(list \ D, r) \in Nat /\ Cardinality(S) = Copies(list \ D, r)
    BY <1>3, CopiesType DEF Copies
  <2>5. {x \in list' : has_rule(heap'[x].m, r)} = IF has_rule(m, r) THEN S \cup {c} ELSE S
    BY <1>9, <1>10, <2>1
  <2>6. Cardinality(S \cup {c}) = Cardinality(S) + 1
    BY <1>7, <2>4, FS_AddElement
  <2> QED BY <2>3, <2>4, <2>5, <2>6 DEF added
<1> QED BY <1>13, <1>14, <1>15, <1>16, <1>17, <1>19, <1>20 DEF Inv

-----------------------------------------------------------------------------
(***************************************************************************)
(* Deletions on request and by signal.                                     *)
(***************************************************************************)

LEMMA DeleteStep ==
    ASSUME Inv, NEW STATE D, D \subseteq list, Delete(D), list' = list \ D,
           orphans' = orphans \/ orphans' = {},
           phase' = phase \/ (phase = "up" /\ phase' = "closing"),
           pool' = pool, lastId' = lastId, now' = now
    PROVE  Inv'
<1> DEFINE E == CancelMappingExpiration(D, heap)
<1>1. /\ heap' = freed(D, E, heap)
      /\ eventQ' = eventQ \ E
      /\ rules' = [r \in Rules |-> less(rules[r], Copies(D, r))]
      /\ sound' = (sound /\ Exact(D, E, pool))
  BY DEF Delete
<1> HIDE DEF E
<1>2. heap \in Heap /\ list \subseteq Cell /\ D \subseteq Cell /\ MaxId \in Nat
  BY GatewayAssumption DEF Inv, TypeOK, Heap
<1>3. heap' \in Heap
  BY <1>1, <1>2, FreedType
<1>4. \A x \in list \ D : /\ heap[x].live => heap'[x].live
                          /\ heap'[x].m = heap[x].m
                          /\ heap'[x].due = heap[x].due
                          /\ (\A e \in E : e.cell # x) => heap'[x].eid = heap[x].eid
  <2> TAKE x \in list \ D
  <2>1. x \in Cell
    BY <1>2
  <2> QED BY <1>1, <1>2, <2>1, FreedCell
<1>5. TypeOK'
  <2>1. rules' \in [Rules -> Nat]
    <3> SUFFICES ASSUME NEW r \in Rules
                 PROVE  less(rules[r], Copies(D, r)) \in Nat
      BY <1>1
    <3>1. rules[r] \in Nat /\ Copies(D, r) \in Nat
      BY <1>2, CopiesType DEF Inv, TypeOK
    <3> QED BY <3>1 DEF less
  <2>2. sound' \in BOOLEAN
    BY <1>1, Zenon
  <2>3. phase' \in Phases
    BY DEF Inv, TypeOK, Phases
  <2> QED BY <1>1, <1>3, <2>1, <2>2, <2>3 DEF Inv, TypeOK, Heap
<1>6. ListShape'
  BY <1>4 DEF Inv, ListShape
<1>7. OneMappingPerPort'
  BY <1>4 DEF Inv, OneMappingPerPort
<1>8. EventIds' /\ EventTimes'
  BY <1>1 DEF Inv, EventIds, EventTimes
<1>9. ASSUME sound' PROVE sound /\ Exact(D, E, pool)
  BY <1>1, <1>9, Zenon DEF Inv, TypeOK
<1>10. Followed'
  <2> SUFFICES ASSUME sound'
               PROVE  /\ orphans' = {}
                      /\ \A e \in eventQ' \cup pool' : /\ e.cell \in list'
                                                        /\ heap'[e.cell].eid = e.id
                                                        /\ heap'[e.cell].due = e.time
                      /\ TimerRuns' => \A x \in list' : heap'[x].due # 0 =>
                                                       \E e \in eventQ' \cup pool' : e.cell = x
    BY DEF Followed
  <2>1. /\ orphans = {}
        /\ \A e \in eventQ \cup pool : e.cell \in list /\ heap[e.cell].eid = e.id /\ heap[e.cell].due = e.time
        /\ TimerRuns => \A x \in list : heap[x].due # 0 => \E e \in eventQ \cup pool : e.cell = x
    BY <1>9 DEF Inv, Followed
  <2>2. Exact(D, E, pool)
    BY <1>9
  <2>3. \A e \in eventQ' \cup pool' : e.cell \in list' /\ \A f \in E : f.cell # e.cell
    BY <1>1, <2>1, <2>2 DEF Exact
  <2>4. TimerRuns' => TimerRuns
    BY DEF TimerRuns
  <2>5. ASSUME TimerRuns', NEW x \in list', heap'[x].due # 0
        PROVE  \E e \in eventQ' \cup pool' : e.cell = x
    <3>1. PICK e \in eventQ \cup pool : e.cell = x
      BY <1>4, <2>1, <2>4, <2>5
    <3>2. e \notin E
      BY <2>2, <3>1 DEF Exact
    <3> QED BY <1>1, <3>1, <3>2
  <2> QED BY <1>1, <1>4, <2>1, <2>3, <2>5
<1>11. RulesFollowList'
  <2> SUFFICES ASSUME sound', NEW r \in Rules
               PROVE  rules'[r] = Cardinality({x \in list' : has_rule(heap'[x].m, r)})
    BY DEF RulesFollowList, Copies
  <2>1. rules[r] = Copies(list, r)
    BY <1>9 DEF Inv, RulesFollowList
  <2>2. rules'[r] = Copies(list \ D, r)
    BY <1>1, <1>2, <2>1, CopiesLess
  <2>3. {x \in list' : has_rule(heap'[x].m, r)} = {x \in list \ D : has_rule(heap[x].m, r)}
    BY <1>4
  <2> QED BY <2>2, <2>3 DEF Copies
<1> QED BY <1>5, <1>6, <1>7, <1>8, <1>10, <1>11 DEF Inv

LEMMA RequestedDeleteStep ==
    ASSUME Inv, NEW ext, NEW proto, DeletePortMapping(ext, proto)
    PROVE  Inv'
<1>1. PICK t \in pmlist_FindSpecific(ext, proto) : list' = list \ {t} /\ Delete({t})
  BY DEF DeletePortMapping
<1>2. {t} \subseteq list
  BY DEF pmlist_FindSpecific
<1> QED BY <1>1, <1>2, DeleteStep DEF DeletePortMapping

LEMMA DeleteAllStep ==
    ASSUME Inv, DeleteAllPortMappings, phase' = phase \/ (phase = "up" /\ phase' = "closing")
    PROVE  Inv'
<1>1. list' = list \ list /\ orphans' = {} /\ Delete(list)
  BY DEF DeleteAllPortMappings
<1> QED BY <1>1, DeleteStep DEF DeleteAllPortMappings

-----------------------------------------------------------------------------
(***************************************************************************)
(* Expiry.                                                                 *)
(***************************************************************************)

LEMMA TimerStep ==
    ASSUME Inv, TimerThreadWorker
    PROVE  Inv'
<1>1. PICK e \in eventQ :
        /\ is_due(e)
        /\ eventQ' = eventQ \ {e}
        /\ \/ pool' = pool \cup {e} /\ sound' = sound
           \/ pool' = pool /\ sound' = FALSE
  BY DEF TimerThreadWorker
<1>2. UNCHANGED <<phase, list, orphans, heap, lastId, rules, now>>
  BY DEF TimerThreadWorker
<1>3. TypeOK'
  <2>1. sound' \in BOOLEAN
    BY <1>1, Zenon DEF Inv, TypeOK
  <2> QED BY <1>1, <1>2, <2>1 DEF Inv, TypeOK
<1>4. ListShape' /\ OneMappingPerPort'
  BY <1>2 DEF Inv, ListShape, OneMappingPerPort
<1>5. EventIds' /\ EventTimes'
  BY <1>1, <1>2 DEF Inv, EventIds, EventTimes, is_due
<1>6. sound' => sound /\ eventQ' \cup pool' = eventQ \cup pool
  BY <1>1
<1>7. Followed' /\ RulesFollowList'
  BY <1>2, <1>6 DEF Inv, Followed, TimerRuns, RulesFollowList, Copies
<1> QED BY <1>3, <1>4, <1>5, <1>7 DEF Inv

\* As long as cancellations are exact a job finds its mapping where it left it:
\* it deletes that one and the rules it has.
LEMMA JobMeetsItsMapping ==
    ASSUME Inv, NEW job \in pool, ExpireMapping(job)
    PROVE  \E item \in Request, D \in SUBSET list :
              /\ Expired(job, D, item)
              /\ \A x, y \in D : x = y
              /\ sound => D = {job.cell} /\ item = heap[job.cell].m
<1>1. job.cell \in Cell /\ heap \in Heap /\ Requests \subseteq Request
  BY GatewayAssumption DEF Inv, TypeOK, Heap, Event
<1>2. heap[job.cell].m \in Request
  BY <1>1 DEF Heap
<1>3. sound => job.cell \in list /\ heap[job.cell].live
  BY DEF Inv, Followed, ListShape
<1>4. CASE \E item \in Remains(job.cell) : Expired(job, pmlist_Find(item), item)
  <2>1. PICK item \in Remains(job.cell) : Expired(job, pmlist_Find(item), item)
    BY <1>4
  <2>2. item \in Request
    <3>1. CASE heap[job.cell].live
      BY <1>2, <3>1 DEF Remains
    <3>2. CASE ~heap[job.cell].live
      <4>1. PICK b \in BOOLEAN : item = [heap[job.cell].m EXCEPT !.enabled = b]
        BY <3>2 DEF Remains
      <4> QED BY <1>2, <4>1 DEF Request
    <3> QED BY <3>1, <3>2
  <2>3. pmlist_Find(item) \in SUBSET list
    BY DEF pmlist_Find
  <2>4. \A x, y \in pmlist_Find(item) : x = y
    BY DEF Inv, OneMappingPerPort, pmlist_Find
  <2>5. ASSUME sound PROVE item = heap[job.cell].m /\ pmlist_Find(item) = {job.cell}
    <3>1. item = heap[job.cell].m /\ job.cell \in list
      BY <1>3, <2>5 DEF Remains
    <3> QED BY <2>4, <3>1 DEF pmlist_Find
  <2> QED BY <2>1, <2>2, <2>3, <2>4, <2>5
<1>5. CASE ~heap[job.cell].live /\ Expired(job, {}, heap[job.cell].m)
  BY <1>2, <1>3, <1>5
<1> QED BY <1>4, <1>5 DEF ExpireMapping

LEMMA ExpireStep ==
    ASSUME Inv, NEW job \in pool, ExpireMapping(job)
    PROVE  Inv'
<1>1. PICK item \in Request, D \in SUBSET list :
        Expired(job, D, item) /\ (sound => D = {job.cell} /\ item = heap[job.cell].m)
  BY JobMeetsItsMapping
<1> DEFINE h == [heap EXCEPT ![job.cell].eid = NoEvent]
           E == CancelMappingExpiration(D, h)
<1>2. /\ pool' = pool \ {job} /\ list' = list \ D
      /\ heap' = freed(D, E, h)
      /\ eventQ' = eventQ \ E
      /\ rules' = [r \in Rules |-> IF D # {} /\ has_rule(item, r) THEN less(rules[r], 1) ELSE rules[r]]
      /\ sound' = (sound /\ Exact(D, E, pool \ {job}))
      /\ UNCHANGED <<phase, orphans, lastId, now>>
  BY <1>1 DEF Expired
<1>3. heap \in Heap /\ list \subseteq Cell /\ D \subseteq Cell /\ MaxId \in Nat /\ job.cell \in Cell
  BY GatewayAssumption DEF Inv, TypeOK, Heap, Event
<1>4. /\ h \in Heap
      /\ \A x \in Cell : /\ h[x].live = heap[x].live /\ h[x].m = heap[x].m /\ h[x].due = heap[x].due
                         /\ x # job.cell => h[x].eid = heap[x].eid
      /\ h[job.cell].eid = NoEvent
  <2>1. heap[job.cell] \in [live : BOOLEAN, m : Requests, eid : NoEvent .. MaxId, due : Nat]
    BY <1>3 DEF Heap
  <2> QED BY <1>3, <2>1 DEF Heap
<1>5. sound => E = {}
  BY <1>1, <1>4 DEF CancelMappingExpiration
<1> HIDE DEF E, h
<1>6. heap' \in Heap
  BY <1>2, <1>3, <1>4, FreedType
<1>7. \A x \in list \ D : /\ heap[x].live => heap'[x].live
                          /\ heap'[x].m = heap[x].m
                          /\ heap'[x].due = heap[x].due
                          /\ x # job.cell /\ (\A e \in E : e.cell # x) => heap'[x].eid = heap[x].eid
  <2> TAKE x \in list \ D
  <2>1. x \in Cell
    BY <1>3
  <2> QED BY <1>2, <1>4, <2>1, FreedCell
<1>8. TypeOK'
  <2>1. rules' \in [Rules -> Nat]
    BY <1>2 DEF Inv, TypeOK, less
  <2>2. sound' \in BOOLEAN
    BY <1>2, Zenon
  <2> QED BY <1>2, <1>6, <2>1, <2>2 DEF Inv, TypeOK, Heap
<1>9. ListShape'
  BY <1>2, <1>7 DEF Inv, ListShape
<1>10. OneMappingPerPort'
  BY <1>2, <1>7 DEF Inv, OneMappingPerPort
<1>11. EventIds' /\ EventTimes'
  BY <1>2 DEF Inv, EventIds, EventTimes
<1>12. ASSUME sound' PROVE sound /\ Exact(D, E, pool \ {job})
  BY <1>2, <1>12, Zenon DEF Inv, TypeOK
<1>13. Followed'
  <2> SUFFICES ASSUME sound'
               PROVE  /\ orphans' = {}
                      /\ \A e \in eventQ' \cup pool' : /\ e.cell \in list'
                                                        /\ heap'[e.cell].eid = e.id
                                                        /\ heap'[e.cell].due = e.time
                      /\ TimerRuns' => \A x \in list' : heap'[x].due # 0 =>
                                                       \E e \in eventQ' \cup pool' : e.cell = x
    BY DEF Followed
  <2>1. /\ orphans = {}
        /\ \A e \in eventQ \cup pool : e.cell \in list /\ heap[e.cell].eid = e.id /\ heap[e.cell].due = e.time
        /\ TimerRuns => \A x \in list : heap[x].due # 0 => \E e \in eventQ \cup pool : e.cell = x
    BY <1>12 DEF Inv, Followed
  <2>2. D = {job.cell} /\ E = {} /\ Exact(D, E, pool \ {job})
    BY <1>1, <1>5, <1>12
  <2>3. \A e \in eventQ' \cup pool' : e \in eventQ \cup pool /\ e.cell \in list \ D /\ e.cell # job.cell
    BY <1>2, <2>1, <2>2 DEF Exact
  <2>4. TimerRuns' => TimerRuns
    BY <1>2 DEF TimerRuns
  <2>5. ASSUME TimerRuns', NEW x \in list', heap'[x].due # 0
        PROVE  \E e \in eventQ' \cup pool' : e.cell = x
    <3>1. x \in list \ D
      BY <1>2
    <3>2. PICK e \in eventQ \cup pool : e.cell = x
      BY <1>7, <2>1, <2>4, <2>5, <3>1
    <3>3. e # job
      BY <2>2, <3>1, <3>2
    <3> QED BY <1>2, <2>2, <3>2, <3>3
  <2>6. \A e \in eventQ' \cup pool' : /\ e.cell \in list'
                                     /\ heap'[e.cell].eid = e.id
                                     /\ heap'[e.cell].due = e.time
    BY <1>2, <1>7, <2>1, <2>2, <2>3
  <2> QED BY <1>2, <2>1, <2>5, <2>6
<1>14. RulesFollowList'
  <2> SUFFICES ASSUME sound', NEW r \in Rules
               PROVE  rules'[r] = Cardinality({x \in list' : has_rule(heap'[x].m, r)})
    BY DEF RulesFollowList, Copies
  <2>1. rules[r] = Copies(list, r)
    BY <1>12 DEF Inv, RulesFollowList
  <2>2. D = {job.cell} /\ item = heap[job.cell].m
    BY <1>1, <1>12
  <2>3. Copies(D, r) = IF has_rule(item, r) THEN 1 ELSE 0
    <3>1. {c \in D : has_rule(heap[c].m, r)} = IF has_rule(item, r) THEN {job.cell} ELSE {}
      BY <2>2
    <3> QED BY <3>1, FS_Singleton, FS_EmptySet DEF Copies
  <2>4. rules[r] \in Nat
    BY DEF Inv, TypeOK
  <2>5. rules'[r] = less(rules[r], Copies(D, r))
    BY <1>2, <2>2, <2>3, <2>4 DEF less
  <2>6. rules'[r] = Copies(list \ D, r)
    BY <1>3, <2>1, <2>5, CopiesLess
  <2>7. {x \in list' : has_rule(heap'[x].m, r)} = {x \in list \ D : has_rule(heap[x].m, r)}
    BY <1>2, <1>7
  <2> QED BY <2>6, <2>7 DEF Copies
<1> QED BY <1>8, <1>9, <1>10, <1>11, <1>13, <1>14 DEF Inv

-----------------------------------------------------------------------------
(***************************************************************************)
(* The main thread and the clock.                                          *)
(***************************************************************************)

LEMMA TableStep ==
    ASSUME Inv, StateTableInit
    PROVE  Inv'
<1>1. /\ phase' = "up" /\ list' = {} /\ orphans' = orphans \cup list
      /\ sound' = (sound /\ list = {})
      /\ UNCHANGED <<heap, eventQ, pool, lastId, rules, now>>
      /\ TimerRuns
  BY DEF StateTableInit, TimerRuns
<1>2. sound' \in BOOLEAN
  BY <1>1, Zenon
<1>3. ASSUME sound' PROVE sound /\ list' = list
  BY <1>1, <1>3, Zenon DEF Inv, TypeOK
<1>4. TypeOK' /\ ListShape' /\ OneMappingPerPort' /\ EventIds' /\ EventTimes'
  BY <1>1, <1>2 DEF Inv, TypeOK, Phases, ListShape, OneMappingPerPort, EventIds, EventTimes
<1>5. Followed' /\ RulesFollowList'
  BY <1>1, <1>3 DEF Inv, Followed, RulesFollowList, Copies
<1> QED BY <1>4, <1>5 DEF Inv

LEMMA ShutdownStep ==
    ASSUME Inv, ExpirationTimerThreadShutdown
    PROVE  Inv'
<1>1. /\ phase' = "closed" /\ eventQ' = {} /\ heap' = freed({}, eventQ, heap)
      /\ UNCHANGED <<list, orphans, pool, lastId, rules, now, sound>>
  BY DEF ExpirationTimerThreadShutdown
<1>2. heap \in Heap /\ list \subseteq Cell /\ MaxId \in Nat
  BY GatewayAssumption DEF Inv, TypeOK, Heap
<1>3. heap' \in Heap
  BY <1>1, <1>2, FreedType
<1>4. /\ \A x \in Cell : heap[x].live => heap'[x].live
      /\ \A x \in Cell : heap'[x].m = heap[x].m
      /\ \A x \in Cell : heap'[x].due = heap[x].due
      /\ \A x \in Cell : (\A e \in eventQ : e.cell # x) => heap'[x].eid = heap[x].eid
  BY <1>1, <1>2, FreedCell
<1>5. TypeOK'
  BY <1>1, <1>3 DEF Inv, TypeOK, Phases, Heap
<1>6. ListShape' /\ OneMappingPerPort' /\ EventIds' /\ EventTimes'
  <2>1. ListShape' /\ OneMappingPerPort'
    BY <1>1, <1>2, <1>4 DEF Inv, ListShape, OneMappingPerPort
  <2>2. EventIds' /\ EventTimes'
    BY <1>1 DEF Inv, EventIds, EventTimes
  <2> QED BY <2>1, <2>2
<1>7. Followed'
  <2>1. sound => \A e \in pool, f \in eventQ : f.cell # e.cell
    BY DEF Inv, Followed, EventIds
  <2>2. ~TimerRuns'
    BY <1>1 DEF TimerRuns
  <2>3. ASSUME sound, NEW e \in pool
        PROVE  e.cell \in list /\ heap'[e.cell].eid = e.id /\ heap'[e.cell].due = e.time
    <3>1. e.cell \in list /\ heap[e.cell].eid = e.id /\ heap[e.cell].due = e.time
      BY <2>3 DEF Inv, Followed
    <3> QED BY <1>2, <1>4, <2>1, <2>3, <3>1
  <2> QED BY <1>1, <2>2, <2>3 DEF Inv, Followed
<1>8. RulesFollowList'
  <2> SUFFICES ASSUME sound, NEW r \in Rules
               PROVE  rules[r] = Cardinality({x \in list : has_rule(heap'[x].m, r)})
    BY <1>1 DEF RulesFollowList, Copies
  <2>1. {x \in list : has_rule(heap'[x].m, r)} = {x \in list : has_rule(heap[x].m, r)}
    BY <1>2, <1>4
  <2> QED BY <2>1 DEF Inv, RulesFollowList, Copies
<1> QED BY <1>5, <1>6, <1>7, <1>8 DEF Inv

LEMMA EndStep ==
    ASSUME Inv, StateTableInitFails \/ UpnpUnRegisterRootDevice
    PROVE  Inv'
<1>1. phase' = "down" /\ UNCHANGED <<list, orphans, heap, eventQ, pool, lastId, rules, now, sound>>
  BY DEF StateTableInitFails, UpnpUnRegisterRootDevice
<1> QED BY <1>1 DEF Inv, TypeOK, Phases, ListShape, OneMappingPerPort, EventIds, EventTimes,
                    Followed, TimerRuns, RulesFollowList, Copies

LEMMA TickStep ==
    ASSUME Inv, Tick
    PROVE  Inv'
<1>1. now' = now + 1 /\ UNCHANGED <<phase, list, orphans, heap, eventQ, pool, lastId, rules, sound>>
  BY DEF Tick
<1>2. now \in Nat /\ \A e \in pool : e.time \in Nat
  BY DEF Inv, TypeOK, Event
<1>3. EventTimes'
  BY <1>1, <1>2 DEF Inv, EventTimes
<1> QED BY <1>1, <1>2, <1>3 DEF Inv, TypeOK, ListShape, OneMappingPerPort, EventIds,
                               Followed, TimerRuns, RulesFollowList, Copies

-----------------------------------------------------------------------------
(***************************************************************************)
(* The theorems.                                                           *)
(***************************************************************************)

LEMMA InitInv == Init => Inv
<1> SUFFICES ASSUME Init PROVE Inv
  OBVIOUS
<1>1. (CHOOSE m \in Requests : TRUE) \in Requests
  BY GatewayAssumption
<1>2. TypeOK
  BY <1>1, GatewayAssumption DEF Init, TypeOK, Phases
<1>3. \A r : {c \in list : has_rule(heap[c].m, r)} = {}
  BY DEF Init
<1>4. RulesFollowList
  BY <1>3, FS_EmptySet DEF Init, RulesFollowList, Copies
<1> QED BY <1>2, <1>4 DEF Init, Inv, ListShape, OneMappingPerPort, EventIds, EventTimes, Followed

LEMMA NextInv == Inv /\ [Next]_vars => Inv'
<1> SUFFICES ASSUME Inv, [Next]_vars PROVE Inv'
  OBVIOUS
<1>1. CASE \E m \in Requests : AddPortMapping(m) \/ DeletePortMapping(m.ext, m.proto)
  BY <1>1, AddStep, RequestedDeleteStep
<1>2. CASE TimerThreadWorker
  BY <1>2, TimerStep
<1>3. CASE \E job \in pool : ExpireMapping(job)
  BY <1>3, ExpireStep
<1>4. CASE StateTableInit
  BY <1>4, TableStep
<1>5. CASE StateTableInitFails \/ UpnpUnRegisterRootDevice
  BY <1>5, EndStep
<1>6. CASE SigUsr1 \/ SigTerm
  BY <1>6, DeleteAllStep DEF SigUsr1, SigTerm
<1>7. CASE ExpirationTimerThreadShutdown
  BY <1>7, ShutdownStep
<1>8. CASE Tick
  BY <1>8, TickStep
<1>9. CASE UNCHANGED vars
  BY <1>9 DEF vars, Inv, TypeOK, ListShape, OneMappingPerPort, EventIds, EventTimes,
              Followed, TimerRuns, RulesFollowList, Copies
<1> QED BY <1>1, <1>2, <1>3, <1>4, <1>5, <1>6, <1>7, <1>8, <1>9 DEF Next

\* Inv is an invariant: the theorems below are consequences.
THEOREM Invariant == Spec => []Inv
BY InitInv, NextInv, PTL DEF Spec

\* Every variable keeps its type, and events, jobs and lists refer to cells, also
\* when jobs run on freed cells (gatedevice.c:1233).
THEOREM TypeCorrect == Spec => []TypeOK
<1>1. Inv => TypeOK
  BY DEF Inv
<1> QED BY <1>1, Invariant, PTL

\* The list never has two mappings for a port and protocol (gatedevice.c:803): the
\* conflict test is made on a list nothing else than the mutex protects.
THEOREM PortsUnique == Spec => []OneMappingPerPort
<1>1. Inv => OneMappingPerPort
  BY DEF Inv
<1> QED BY <1>1, Invariant, PTL

\* iptables has exactly the rules of the list, as long as every cancellation has
\* been exact (pmlist.c:409, 526).
THEOREM RulesExact == Spec => []RulesFollowList
<1>1. Inv => RulesFollowList
  BY DEF Inv
<1> QED BY <1>1, Invariant, PTL

\* Events and jobs are for mappings on the list, and every mapping that expires
\* has one, as long as every cancellation has been exact (gatedevice.c:1264, 1327).
THEOREM EventsExact == Spec => []EventsFollowList
<1>1. Inv => EventsFollowList
  BY DEF Inv, Followed, EventsFollowList
<1> QED BY <1>1, Invariant, PTL

\* A job deletes a mapping only at the end of that mapping's own lease, as long as
\* every cancellation has been exact (gatedevice.c:1233).
THEOREM NotExpiredEarly == Spec => ExpiredOnlyWhenDue
<1>1. ASSUME Inv, NEW job \in pool, ExpireMapping(job), sound, NEW c \in list \ list'
      PROVE  heap[c].due # 0 /\ heap[c].due <= now
  <2>1. list' = list \ {job.cell}
    BY <1>1, JobMeetsItsMapping DEF Expired
  <2>2. c = job.cell
    BY <2>1
  <2>3. heap[c].due = job.time /\ job.time > 0 /\ job.time <= now /\ job.time \in Nat
    BY <1>1, <2>2 DEF Inv, Followed, EventTimes, TypeOK, Event
  <2> QED BY <2>3
<1>2. Inv /\ [Next]_vars =>
        [\A job \in pool : ExpireMapping(job) /\ sound =>
            \A c \in list \ list' : heap[c].due # 0 /\ heap[c].due <= now]_vars
  BY <1>1
<1> QED BY <1>2, Invariant, PTL DEF Spec, ExpiredOnlyWhenDue

-----------------------------------------------------------------------------
(***************************************************************************)
(* The list implements PortBook.  Every mapping on the list has the port   *)
(* for itself (OneMappingPerPort), so that the entry of a mapping goes     *)
(* when the mapping does.                                                  *)
(***************************************************************************)

owned == {entry(heap[c].m) : c \in list}

LEMMA AddBooked ==
    ASSUME Inv, NEW m \in Requests, AddPortMapping(m)
    PROVE  Book!Next \/ owned' = owned
<1> DEFINE D == pmlist_Find(m)
           E == CancelMappingExpiration(D, heap)
           h == freed(D, E, heap)
<1>1. PICK c \in Cell, garbage \in NoEvent .. MaxId :
        /\ ~h[c].live
        /\ pmlist_PushBack(c, list \ D)
        /\ heap' = [h EXCEPT ![c] = [live |-> TRUE, m |-> m, due |-> expirationTime(m),
                                      eid |-> IF expirationTime(m) # 0 /\ TimerRuns
                                              THEN lastId ELSE garbage]]
  BY DEF AddPortMapping
<1>2. pmlist_Find_SameExtPort(m) = {}
  BY DEF AddPortMapping
<1>3. heap \in Heap /\ list \subseteq Cell /\ MaxId \in Nat
  BY GatewayAssumption DEF Inv, TypeOK, Heap
<1>4. h \in Heap
  BY <1>3, FreedType
<1> HIDE DEF E, h
<1>5. \A x \in Cell : x \in list \ D => heap'[x].m = heap[x].m
  <2> SUFFICES ASSUME NEW x \in Cell, x \in list \ D PROVE heap'[x].m = heap[x].m
    OBVIOUS
  <2>1. h[x].live /\ h[x].m = heap[x].m
    BY <1>3, FreedCell DEF h, Inv, ListShape
  <2> QED BY <1>1, <1>4, <2>1 DEF Heap
<1>6. heap'[c].m = m
  BY <1>1, <1>4 DEF Heap
<1>7. \A x \in D : x \in list /\ entry(heap[x].m) = entry(m)
  BY DEF D, pmlist_Find, entry
<1>8. CASE orphans = {}
  <2>1. list' = (list \ D) \cup {c}
    BY <1>1, <1>8 DEF pmlist_PushBack
  <2>2. owned' = owned \cup {entry(m)}
    <3>1. ASSUME NEW o \in owned' PROVE o \in owned \cup {entry(m)}
      <4>1. PICK x \in list' : o = entry(heap'[x].m)
        BY <3>1 DEF owned
      <4> QED BY <1>3, <1>5, <1>6, <2>1, <4>1 DEF owned
    <3>2. ASSUME NEW o \in owned PROVE o \in owned'
      <4>1. PICK x \in list : o = entry(heap[x].m)
        BY <3>2 DEF owned
      <4>2. CASE x \in D
        <5>1. c \in list' /\ o = entry(heap'[c].m)
          BY <1>6, <1>7, <2>1, <4>1, <4>2
        <5> QED BY <5>1 DEF owned
      <4>3. CASE x \notin D
        <5>1. x \in list' /\ o = entry(heap'[x].m)
          BY <1>3, <1>5, <2>1, <4>1, <4>3
        <5> QED BY <5>1 DEF owned
      <4> QED BY <4>2, <4>3
    <3>3. entry(m) \in owned'
      <4>1. c \in list' /\ entry(m) = entry(heap'[c].m)
        BY <1>6, <2>1
      <4> QED BY <4>1 DEF owned
    <3> QED BY <3>1, <3>2, <3>3
  <2>3. \A owner : <<entry(m)[1], owner>> \in owned => owner = entry(m)[2]
    <3> SUFFICES ASSUME NEW owner, NEW x \in list, <<entry(m)[1], owner>> = entry(heap[x].m)
                 PROVE  owner = entry(m)[2]
      BY DEF owned
    <3>1. heap[x].m.ext = m.ext /\ heap[x].m.proto = m.proto /\ owner = heap[x].m.client
      BY DEF entry
    <3> QED BY <1>2, <3>1 DEF pmlist_Find_SameExtPort, entry
  <2>4. entry(m) = <<entry(m)[1], entry(m)[2]>>
    BY DEF entry
  <2>5. Book!Claim(entry(m)[1], entry(m)[2])
    BY <2>2, <2>3, <2>4 DEF Book!Claim, owned
  <2> QED BY <2>5 DEF Book!Next
<1>9. CASE orphans # {}
  <2>1. list = {} /\ list' = {}
    BY <1>1, <1>9 DEF pmlist_PushBack, Inv, ListShape
  <2> QED BY <2>1 DEF owned
<1> QED BY <1>8, <1>9

LEMMA DropBooked ==
    ASSUME Inv, NEW STATE D, D \subseteq list, list' = list \ D,
           \A x, y \in D : x = y,
           \A x \in Cell : heap'[x].m = heap[x].m
    PROVE  Book!Next \/ owned' = owned
<1>1. heap \in Heap /\ list \subseteq Cell
  BY DEF Inv, TypeOK, Heap
<1>2. CASE D = {}
  BY <1>1, <1>2 DEF owned
<1>3. CASE D # {}
  <2>1. PICK t \in list : D = {t}
    BY <1>3
  <2>2. heap[t].m \in Requests
    BY <1>1 DEF Heap
  <2>3. \A x \in list \ {t} : entry(heap[x].m) # entry(heap[t].m)
    BY DEF Inv, OneMappingPerPort, entry
  <2>4. owned' = owned \ {entry(heap[t].m)}
    BY <1>1, <2>1, <2>3 DEF owned
  <2>5. entry(heap[t].m) = <<entry(heap[t].m)[1], entry(heap[t].m)[2]>>
    BY DEF entry
  <2>6. Book!Release(entry(heap[t].m)[1], entry(heap[t].m)[2])
    BY <2>1, <2>4, <2>5 DEF Book!Release, owned
  <2> QED BY <2>2, <2>6 DEF Book!Next
<1> QED BY <1>2, <1>3

\* What a step does to the list is a step of PortBook or none: no interleaving of
\* requests, expiries and signals gives away a port somebody has
\* (gatedevice.c:803, 1078, 1233, 1347).
THEOREM GatewayImplementsPortBook == Spec => ImplementsPortBook
<1>1. Init => Book!Init
  BY DEF Init, Book!Init
<1>2. Inv /\ [Next]_vars => [Book!Next]_owned
  <2> SUFFICES ASSUME Inv, [Next]_vars PROVE Book!Next \/ owned' = owned
    OBVIOUS
  <2>1. heap \in Heap /\ list \subseteq Cell /\ MaxId \in Nat
    BY GatewayAssumption DEF Inv, TypeOK, Heap
  <2>2. CASE \E m \in Requests : AddPortMapping(m)
    BY <2>2, AddBooked
  <2>3. CASE \E m \in Requests : DeletePortMapping(m.ext, m.proto)
    <3>1. PICK ext, proto : DeletePortMapping(ext, proto)
      BY <2>3
    <3>2. PICK t \in pmlist_FindSpecific(ext, proto) : list' = list \ {t} /\ Delete({t})
      BY <3>1 DEF DeletePortMapping
    <3>3. {t} \subseteq list /\ \A x, y \in {t} : x = y
      BY DEF pmlist_FindSpecific
    <3>4. \A x \in Cell : heap'[x].m = heap[x].m
      BY <2>1, <3>2, FreedCell DEF Delete
    <3> QED BY <3>2, <3>3, <3>4, DropBooked
  <2>4. CASE \E job \in pool : ExpireMapping(job)
    <3>1. PICK job \in pool : ExpireMapping(job)
      BY <2>4
    <3>2. PICK item \in Request, D \in SUBSET list :
            Expired(job, D, item) /\ \A x, y \in D : x = y
      BY <3>1, JobMeetsItsMapping
    <3> DEFINE h == [heap EXCEPT ![job.cell].eid = NoEvent]
    <3>3. job.cell \in Cell
      BY DEF Inv, TypeOK, Event
    <3>4. h \in Heap /\ \A x \in Cell : h[x].m = heap[x].m
      <4>1. heap[job.cell] \in [live : BOOLEAN, m : Requests, eid : NoEvent .. MaxId, due : Nat]
        BY <2>1, <3>3 DEF Heap
      <4> QED BY <2>1, <3>3, <4>1 DEF Heap
    <3>5. list' = list \ D /\ heap' = freed(D, CancelMappingExpiration(D, h), h)
      BY <3>2 DEF Expired
    <3> HIDE DEF h
    <3>6. \A x \in Cell : heap'[x].m = heap[x].m
      BY <3>4, <3>5, FreedCell
    <3>7. D \subseteq list
      OBVIOUS
    <3> QED BY <3>2, <3>5, <3>6, <3>7, DropBooked
  <2>5. CASE list' = {}
    BY <2>5 DEF Book!Next, Book!ReleaseAll, owned
  <2>6. CASE list' = list /\ \A x \in Cell : heap'[x].m = heap[x].m
    BY <2>1, <2>6 DEF owned
  <2>7. SigUsr1 \/ SigTerm \/ StateTableInit => list' = {}
    BY DEF SigUsr1, SigTerm, DeleteAllPortMappings, StateTableInit
  <2>8. ExpirationTimerThreadShutdown => list' = list /\ \A x \in Cell : heap'[x].m = heap[x].m
    BY <2>1, FreedCell DEF ExpirationTimerThreadShutdown
  <2>9. TimerThreadWorker \/ StateTableInitFails \/ UpnpUnRegisterRootDevice \/ Tick \/ UNCHANGED vars
          => list' = list /\ heap' = heap
    BY DEF TimerThreadWorker, StateTableInitFails, UpnpUnRegisterRootDevice, Tick, vars
  <2> QED BY <2>2, <2>3, <2>4, <2>5, <2>6, <2>7, <2>8, <2>9 DEF Next
<1> QED BY <1>1, <1>2, Invariant, PTL DEF Spec, ImplementsPortBook, Book!Spec, owned
=============================================================================
