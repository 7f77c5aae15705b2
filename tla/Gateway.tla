------------------------------ MODULE Gateway ------------------------------
(***************************************************************************)
(* The UPnP internet gateway device (linuxigd-0.95: gatedevice.c, pmlist.c *)
(* and main.c): the list of port mappings, the iptables rules that go with *)
(* it, and the expiry of mappings.                                         *)
(*                                                                         *)
(* Four kinds of thread share this state.  SDK threads serve requests,     *)
(* pool threads run ExpireMapping and the main thread deletes all mappings *)
(* on a signal; each holds DevMutex for all it does, so that each is one   *)
(* action.  The timer thread does not: when an event is due it moves it to *)
(* the thread pool, where its job waits for DevMutex.  In between a        *)
(* request may delete the mapping the job is about.                        *)
(*                                                                         *)
(* A mapping is a malloc'ed cell.  A cell that has been freed keeps its    *)
(* contents, is overwritten, or is handed out again: all of them happen.   *)
(*                                                                         *)
(* The list implements PortBook.                                           *)
(*                                                                         *)
(* A definition marked `Faulty' is a plausible bug of the one after it.    *)
(***************************************************************************)
EXTENDS Integers, FiniteSets

CONSTANTS
    Cell,          \* memory cells for port mappings; bounds their number
    Requests,      \* arguments of AddPortMapping that control points use
    ForwardRules,  \* g_vars.forwardRules
    Default,       \* g_vars.duration: 0 none, > 0 relative, < 0 time of day
    Day, Soon,     \* 24 * 60 * 60 and 60
    MaxJobs,       \* jobs the thread pool holds, run and queued
    Signals,       \* subset of {"USR1", "TERM"}
    MaxId,         \* bound: requests that add are served while ids are left
    MaxTime        \* bound: the clock stops here

NoEvent == -1

\* The remote host and the internal port, which only the rules look at, are
\* one value, dest.
Request ==
    [ext : Nat, proto : STRING, client : STRING, dest : STRING,
     enabled : BOOLEAN, duration : Int]

ASSUME GatewayAssumption ==
    /\ IsFiniteSet(Cell)
    /\ Requests \subseteq Request
    /\ Requests # {}
    /\ ForwardRules \in BOOLEAN
    /\ Default \in Int
    /\ {Day, Soon} \subseteq Nat \ {0}
    /\ -Default < Day
    /\ Soon < Day
    /\ MaxJobs \in Nat \ {0}
    /\ Signals \subseteq {"USR1", "TERM"}
    /\ MaxId \in Nat
    /\ MaxTime \in Nat

VARIABLES
    phase,     \* of the main thread, see Phases
    list,      \* cells on the list that starts at pmlist_Head
    orphans,   \* cells on a list that only pmlist_Tail leads to
    heap,      \* contents of every cell
    eventQ,    \* eventQ of the timer thread, sorted by time
    pool,      \* ExpireMapping jobs that have been started or queued
    lastId,    \* lastEventId of the timer thread
    rules,     \* how many copies of every rule iptables has
    now,       \* time(NULL)
    sound      \* auxiliary: no event has been lost or left behind so far

vars == <<phase, list, orphans, heap, eventQ, pool, lastId, rules, now, sound>>

\* register: requests are served, StateTableInit is yet to run; closing: SIGTERM
\* has deleted the mappings; closed: the timer is shut down; down: no process.
Phases == {"register", "up", "closing", "closed", "down"}

-----------------------------------------------------------------------------
(* Rules of a mapping: DNAT in the PREROUTING chain, which tells external  *)
(* ports apart, and three rules that do not.                               *)

rule(chain, m) ==
    [chain |-> chain, ext |-> IF chain = "PREROUTING" THEN m.ext ELSE 0,
     proto |-> m.proto, client |-> m.client, dest |-> m.dest]

Chains == {"PREROUTING", "PORT_FW nat", "PORT_FW"} \cup (IF ForwardRules THEN {"FORWARD"} ELSE {})

Rules == {rule(chain, m) : chain \in Chains, m \in Requests}

\* pmlist_AddPortMapping and pmlist_DeletePortMapping: the rules they run
\* iptables for.
has_rule(m, r) == m.enabled /\ r = rule(r.chain, m)

\* Copies of a rule that the mappings in D account for.
Copies(D, r) == Cardinality({c \in D : has_rule(heap[c].m, r)})

\* iptables -D removes one copy, if there is one.
less(a, b) == IF a < b THEN 0 ELSE a - b

\* Faulty: a rule that is there already is not added again.
added_once(n, m, r) == IF has_rule(m, r) THEN 1 ELSE n

added(n, m, r) == IF has_rule(m, r) THEN n + 1 ELSE n

-----------------------------------------------------------------------------
(* Searching the list.                                                     *)

\* Faulty: whoever asks may have the port as well.
find_conflict_none(m) == {}

pmlist_Find_SameExtPort(m) ==
    {c \in list : /\ heap[c].m.ext = m.ext
                  /\ heap[c].m.proto = m.proto
                  /\ heap[c].m.client # m.client}

\* Faulty: finds every mapping of the client.
find_client(m) == {c \in list : heap[c].m.client = m.client}

pmlist_Find(m) ==
    {c \in list : /\ heap[c].m.ext = m.ext
                  /\ heap[c].m.proto = m.proto
                  /\ heap[c].m.client = m.client}

pmlist_FindSpecific(ext, proto) ==
    {c \in list : heap[c].m.ext = ext /\ heap[c].m.proto = proto}

-----------------------------------------------------------------------------
(* Events.                                                                 *)

\* When a mapping added now expires: 0 for never.  The time of day is today's
\* if that is a minute away at least, and else tomorrow's.
expirationTime(m) ==
    LET diff == -Default - (now % Day)
    IN  IF m.duration > 0 THEN now + m.duration
        ELSE IF Default = 0 THEN 0
        ELSE IF Default > 0 THEN now + Default
        ELSE now + (IF diff < Soon THEN diff + Day ELSE diff)

\* CancelMappingExpiration for the mappings in D: the events in the queue whose
\* id is in one of the cells, whatever mapping they are for.
CancelMappingExpiration(D, h) == {e \in eventQ : e.id # NoEvent /\ e.id \in {h[c].eid : c \in D}}

\* The cells once D is freed and the events E are: free_expiration_event
\* clears the id in the mapping of the event.  (What remains of the id and the
\* time in a freed cell is never read.)
freed(D, E, h) ==
    [c \in Cell |-> [live |-> h[c].live /\ c \notin D,
                     m |-> h[c].m,
                     eid |-> IF c \in D \cup {e.cell : e \in E} THEN NoEvent ELSE h[c].eid,
                     due |-> IF c \in D THEN 0 ELSE h[c].due]]

\* A deletion of D that cancels E is exact if it takes away all that is to come
\* for the mappings in D, and nothing else.
Exact(D, E, jobs) ==
    /\ \A e \in E : e.cell \in D
    /\ \A e \in (eventQ \ E) \cup jobs : e.cell \notin D

-----------------------------------------------------------------------------
(* Requests.                                                               *)

Serving == phase \in {"register", "up", "closing", "closed"}

TimerRuns == phase \in {"register", "up", "closing"}

\* pmlist_PushBack: at the end of whatever list pmlist_Tail is on.
pmlist_PushBack(c, l) ==
    IF orphans = {} THEN list' = l \cup {c} /\ orphans' = orphans
                    ELSE list' = l /\ orphans' = orphans \cup {c}

\* Faulty: the event has the next id, not the one the mapping is told.
event_preincremented(c, due) == [id |-> lastId + 1, time |-> due, cell |-> c]

\* TimerThreadSchedule: the id also goes back to the mapping.
new_event(c, due) == [id |-> lastId, time |-> due, cell |-> c]

\* Refused with 718 if another client has the port (then nothing changes).  The
\* mapping of the same client is replaced.  pmlist_NewNode leaves the event id
\* as it finds it in the memory; it is set only if an expiry is scheduled.
AddPortMapping(m) ==
    /\ Serving
    /\ lastId < MaxId
    /\ pmlist_Find_SameExtPort(m) = {}
    /\ \E c \in Cell, garbage \in NoEvent .. MaxId :
        LET D == pmlist_Find(m)
            E == CancelMappingExpiration(D, heap)
            h == freed(D, E, heap)
            due == expirationTime(m)
            timed == due # 0 /\ TimerRuns
        IN  /\ ~h[c].live
            /\ timed => garbage = NoEvent
            /\ pmlist_PushBack(c, list \ D)
            /\ heap' = [h EXCEPT ![c] = [live |-> TRUE, m |-> m, due |-> due,
                                         eid |-> IF timed THEN lastId ELSE garbage]]
            /\ eventQ' = (eventQ \ E)
                         \cup (IF timed THEN {new_event(c, due)} ELSE {})
            /\ lastId' = IF timed THEN lastId + 1 ELSE lastId
            /\ rules' = [r \in Rules |-> added(less(rules[r], Copies(D, r)), m, r)]
            /\ sound' = (sound /\ Exact(D, E, pool))
    /\ UNCHANGED <<phase, pool, now>>

\* Free the mappings in D and delete their rules.
Delete(D) ==
    LET E == CancelMappingExpiration(D, heap)
    IN  /\ heap' = freed(D, E, heap)
        /\ eventQ' = eventQ \ E
        /\ rules' = [r \in Rules |-> less(rules[r], Copies(D, r))]
        /\ sound' = (sound /\ Exact(D, E, pool))

\* Only "TCP" and "UDP" are looked for; 714 if there is no such mapping.
DeletePortMapping(ext, proto) ==
    /\ Serving
    /\ proto \in {"TCP", "UDP"}
    /\ \E t \in pmlist_FindSpecific(ext, proto) :
        /\ list' = list \ {t}
        /\ Delete({t})
    /\ UNCHANGED <<phase, orphans, pool, lastId, now>>

-----------------------------------------------------------------------------
(* Expiry.                                                                 *)

\* Faulty: an event fires a second early.
due_early(e) == e.time <= now + 1

is_due(e) == e.time <= now

\* Faulty: two events of one second wait for each other.
head_strict(e) == \A f \in eventQ \ {e} : e.time < f.time

\* The queue is sorted by time.
is_head(e) == \A f \in eventQ : e.time <= f.time

\* The timer thread: the head of the queue, if it is due, becomes a job.  The
\* event is dropped even when the pool refuses the job.
TimerThreadWorker ==
    /\ TimerRuns
    /\ \E e \in eventQ :
        /\ is_head(e)
        /\ is_due(e)
        /\ eventQ' = eventQ \ {e}
        /\ \/ Cardinality(pool) < MaxJobs /\ pool' = pool \cup {e} /\ sound' = sound
           \/ Cardinality(pool) >= MaxJobs /\ pool' = pool /\ sound' = FALSE
    /\ UNCHANGED <<phase, list, orphans, heap, lastId, rules, now>>

\* What a job may find where its mapping was.  malloc's links overwrite the
\* flag of a freed cell; other uses of the memory overwrite all of it.
Remains(c) ==
    IF heap[c].live THEN {heap[c].m}
    ELSE {[heap[c].m EXCEPT !.enabled = b] : b \in BOOLEAN}

\* The job is done and has deleted the mappings in D, with the rules of item.
Expired(job, D, item) ==
    LET h == [heap EXCEPT ![job.cell].eid = NoEvent]
        E == CancelMappingExpiration(D, h)
    IN  /\ pool' = pool \ {job}
        /\ list' = list \ D
        /\ heap' = freed(D, E, h)
        /\ eventQ' = eventQ \ E
        /\ rules' = [r \in Rules |->
                       IF D # {} /\ has_rule(item, r) THEN less(rules[r], 1) ELSE rules[r]]
        /\ sound' = (sound /\ Exact(D, E, pool \ {job}))
        /\ UNCHANGED <<phase, orphans, lastId, now>>

\* A pool thread has DevMutex.  The mapping deleted is the one on the list that
\* has the port and the client found in the cell, if any; its own event is
\* cancelled unless the cell is the job's, whose event id has been reset.
ExpireMapping(job) ==
    /\ phase # "down"
    /\ job \in pool
    /\ \/ \E item \in Remains(job.cell) : Expired(job, pmlist_Find(item), item)
       \/ ~heap[job.cell].live /\ Expired(job, {}, heap[job.cell].m)

-----------------------------------------------------------------------------
(* The main thread.                                                        *)

\* Requests have been served since UpnpRegisterRootDevice.  pmlist_Head is
\* cleared, pmlist_Tail is not.
StateTableInit ==
    /\ phase = "register"
    /\ phase' = "up"
    /\ list' = {}
    /\ orphans' = orphans \cup list
    /\ sound' = (sound /\ list = {})
    /\ UNCHANGED <<heap, eventQ, pool, lastId, rules, now>>

\* The description document cannot be read back: exit.
StateTableInitFails ==
    /\ phase = "register"
    /\ phase' = "down"
    /\ UNCHANGED <<list, orphans, heap, eventQ, pool, lastId, rules, now, sound>>

\* pmlist_FreeList: all that pmlist_Head leads to; the tail is cleared.
DeleteAllPortMappings ==
    /\ list' = {}
    /\ orphans' = {}
    /\ Delete(list)
    /\ UNCHANGED <<pool, lastId, now>>

SigUsr1 ==
    /\ "USR1" \in Signals
    /\ phase = "up"
    /\ DeleteAllPortMappings
    /\ phase' = phase

SigTerm ==
    /\ "TERM" \in Signals
    /\ phase = "up"
    /\ DeleteAllPortMappings
    /\ phase' = "closing"

\* Requests are still served.
ExpirationTimerThreadShutdown ==
    /\ phase = "closing"
    /\ phase' = "closed"
    /\ eventQ' = {}
    /\ heap' = freed({}, eventQ, heap)
    /\ UNCHANGED <<list, orphans, pool, lastId, rules, now, sound>>

UpnpUnRegisterRootDevice ==
    /\ phase = "closed"
    /\ phase' = "down"
    /\ UNCHANGED <<list, orphans, heap, eventQ, pool, lastId, rules, now, sound>>

Tick ==
    /\ now < MaxTime
    /\ now' = now + 1
    /\ UNCHANGED <<phase, list, orphans, heap, eventQ, pool, lastId, rules, sound>>

-----------------------------------------------------------------------------
Init ==
    /\ phase = "register"
    /\ list = {}
    /\ orphans = {}
    /\ heap = [c \in Cell |-> [live |-> FALSE, m |-> CHOOSE m \in Requests : TRUE,
                               eid |-> NoEvent, due |-> 0]]
    /\ eventQ = {}
    /\ pool = {}
    /\ lastId = 0
    /\ rules = [r \in Rules |-> 0]
    /\ now = 0
    /\ sound = TRUE

Next ==
    \/ \E m \in Requests : AddPortMapping(m) \/ DeletePortMapping(m.ext, m.proto)
    \/ TimerThreadWorker
    \/ \E job \in pool : ExpireMapping(job)
    \/ StateTableInit \/ StateTableInitFails
    \/ SigUsr1 \/ SigTerm \/ ExpirationTimerThreadShutdown \/ UpnpUnRegisterRootDevice
    \/ Tick

Spec == Init /\ [][Next]_vars

-----------------------------------------------------------------------------
Event == [id : Nat, time : Nat, cell : Cell]

\* Every variable has its type; events, jobs and the lists refer to cells.
TypeOK ==
    /\ phase \in Phases
    /\ list \subseteq Cell
    /\ orphans \subseteq Cell
    /\ heap \in [Cell -> [live : BOOLEAN, m : Requests, eid : NoEvent .. MaxId, due : Nat]]
    /\ eventQ \subseteq Event
    /\ pool \subseteq Event
    /\ lastId \in 0 .. MaxId
    /\ rules \in [Rules -> Nat]
    /\ now \in Nat
    /\ sound \in BOOLEAN

\* However requests, expiries, stale jobs and signals interleave, the list never
\* has two mappings for one external port and protocol: DeletePortMapping, which
\* stops at the first (pmlist.c:114), and the conflict test agree on its owner.
OneMappingPerPort ==
    \A c, d \in list :
        heap[c].m.ext = heap[d].m.ext /\ heap[c].m.proto = heap[d].m.proto => c = d

\* As long as every cancellation has been exact, iptables holds for every enabled
\* mapping on the list one copy of each of its rules, also of rules it shares with
\* another mapping, and no others (pmlist.c:410, 544).
RulesFollowList == sound => \A r \in Rules : rules[r] = Copies(list, r)

\* As long as every cancellation has been exact, every event and every waiting
\* job is for a mapping that is on the list and knows it by its id, and every
\* mapping with an expiry has one: no job will meet freed memory
\* (gatedevice.c:1240, 1332).
EventsFollowList ==
    sound /\ TimerRuns =>
        /\ \A e \in eventQ \cup pool : /\ e.cell \in list
                                       /\ heap[e.cell].eid = e.id
                                       /\ heap[e.cell].due = e.time
        /\ \A c \in list : heap[c].due # 0 => \E e \in eventQ \cup pool : e.cell = c

\* A job takes away a mapping only when that mapping's own time has come, unless
\* a cancellation has gone wrong before.
ExpiredOnlyWhenDue ==
    [][\A job \in pool : ExpireMapping(job) /\ sound =>
          \A c \in list \ list' : heap[c].due # 0 /\ heap[c].due <= now]_vars

\* The list as a book of who has which port.
entry(m) == <<<<m.ext, m.proto>>, m.client>>

Book == INSTANCE PortBook WITH
    Port <- {entry(m)[1] : m \in Requests},
    Client <- {entry(m)[2] : m \in Requests},
    book <- {entry(heap[c].m) : c \in list}

\* Requests of many hosts, expiries, jobs that meet reused memory, signals and the
\* late StateTableInit take no host's port for another: whatever a step does to
\* the list, it gives one free port, takes one back or takes all back.
ImplementsPortBook == Book!Spec

\* Each kind of thread is scheduled, and gets DevMutex in the end.
FairSpec == Spec /\ WF_vars(TimerThreadWorker) /\ WF_vars(\E job \in pool : ExpireMapping(job))

Overdue(c) == phase = "up" /\ c \in list /\ heap[c].due # 0 /\ heap[c].due <= now

\* A mapping whose time has come is deleted or renewed, as long as every
\* cancellation is exact and the daemon runs.
MappingsExpire == \A c \in Cell : (Overdue(c) /\ sound) ~> (~Overdue(c) \/ ~sound)

-----------------------------------------------------------------------------
(* What the documentation says and the code does not do.                   *)

\* "Port mappings will be automatically removed when they expire."  (CHANGES:45)
\* Not before: not by the job of the mapping they replaced.
KeptUntilDue ==
    [][\A job \in pool : ExpireMapping(job) =>
          \A c \in list \ list' : heap[c].due # 0 /\ heap[c].due <= now]_vars
=============================================================================
