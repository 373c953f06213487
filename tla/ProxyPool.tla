------------------------------ MODULE ProxyPool ------------------------------
(***************************************************************************)
(* The rotating proxy pool (pool.rs): workers follow the loop the module's *)
(* documentation prescribes, lease an exit, dial through it, report the    *)
(* outcome with the same lease.  Leases of several workers overlap, so     *)
(* reports arrive in any order and may be stale.                           *)
(***************************************************************************)
EXTENDS Integers, FiniteSets

CONSTANTS N,         \* entries in the pool
          DeadAfter, \* HealthPolicy::dead_after
          U32Max,    \* where the failure counter saturates (u32::MAX)
          Workers,   \* concurrent users of the pool
          NoLease    \* what a worker holds between two leases

ASSUME PoolAssumption == /\ N \in Nat /\ U32Max \in Nat
                         /\ DeadAfter \in 0..U32Max
                         /\ NoLease \notin Nat /\ IsFiniteSet(Workers)

Proxies == 0..(N - 1)

VARIABLES failures,  \* consecutive failures of each entry
          cursor,    \* where the next scan starts
          lease,     \* the index each worker's Lease carries
          passed,    \* history: who was leased while p was healthy and waited
          revived,   \* history: the entries some report called a success
          fresh,     \* history: leases taken after their entry's last success
          blamed     \* history: entries a fresh lease failed on since then
history == <<passed, revived, fresh, blamed>>
vars == <<failures, cursor, lease, history>>

Init == /\ failures = [p \in Proxies |-> 0]
        /\ cursor = 0
        /\ lease = [w \in Workers |-> NoLease]
        /\ passed = [p \in Proxies |-> {}]
        /\ revived = {} /\ fresh = {} /\ blamed = {}

is_healthy(p) == failures[p] < DeadAfter

\* statuses(): what an observer is told of every entry
Status(p) == IF is_healthy(p) THEN "Healthy" ELSE "Unhealthy"
Dead == {p \in Proxies : Status(p) = "Unhealthy"}

\* (cursor + step) % n, where neither exceeds n
Wrap(i) == IF i < N THEN i ELSE i - N

\* How far a scan that starts at c goes before it meets p.
Dist(c, p) == IF p >= c THEN p - c ELSE p + N - c

FirstHealthy(p) ==
    /\ is_healthy(p)
    /\ \A q \in Proxies : is_healthy(q) => Dist(cursor, p) <= Dist(cursor, q)

\* fault: with everything dead the scan order decides, not the failure count
NextInLine(p) == Proxies = Dead /\ p = cursor
LeastFailed(p) ==
    /\ Proxies = Dead
    /\ \A q \in Proxies : \/ failures[p] < failures[q]
                          \/ failures[p] = failures[q] /\ p <= q

\* Bookkeeping for the properties: p forgets who passed it when its turn comes
\* or it is not in the rotation.
Waited(p, q, healthy) ==
    IF p = q \/ ~healthy THEN {} ELSE passed[p] \union {q}

\* fault: the scan resumes at the entry it just handed out
AcquireInPlace(w) ==
    \E p \in Proxies :
        /\ lease[w] = NoLease
        /\ FirstHealthy(p) \/ LeastFailed(p)
        /\ cursor' = p
        /\ lease' = [lease EXCEPT ![w] = p]
        /\ passed' = [r \in Proxies |-> Waited(r, p, is_healthy(r))]
        /\ fresh' = fresh \union {w}
        /\ UNCHANGED <<failures, revived, blamed>>

\* acquire(): the first healthy entry at or after the cursor, else the first of
\* the least failed ones; an empty pool gives no lease.
acquire(w) ==
    \E p \in Proxies :
        /\ lease[w] = NoLease
        /\ FirstHealthy(p) \/ LeastFailed(p)
        /\ cursor' = Wrap(p + 1)
        /\ lease' = [lease EXCEPT ![w] = p]
        /\ passed' = [r \in Proxies |-> Waited(r, p, is_healthy(r))]
        /\ fresh' = fresh \union {w}
        /\ UNCHANGED <<failures, revived, blamed>>

\* What a success of w's lease means to the properties: the leases still out on
\* that entry are stale from here on.
Revive(w) == /\ revived' = revived \union {lease[w]}
             /\ fresh' = {v \in fresh : lease[v] # lease[w]}
             /\ blamed' = blamed \ {lease[w]}

\* fault: a success only takes one failure back
ForgiveOne(w) ==
    /\ lease[w] # NoLease
    /\ failures' = [failures EXCEPT ![lease[w]] = IF @ = 0 THEN 0 ELSE @ - 1]
    /\ lease' = [lease EXCEPT ![w] = NoLease]
    /\ Revive(w)
    /\ UNCHANGED <<cursor, passed>>

report_success(w) ==
    /\ lease[w] # NoLease
    /\ failures' = [failures EXCEPT ![lease[w]] = 0]
    /\ lease' = [lease EXCEPT ![w] = NoLease]
    /\ Revive(w)
    /\ UNCHANGED <<cursor, passed>>

SaturatingAdd(n) == IF n < U32Max THEN n + 1 ELSE U32Max

report_failure(w) ==
    /\ lease[w] # NoLease
    /\ failures' = [failures EXCEPT ![lease[w]] = SaturatingAdd(@)]
    /\ lease' = [lease EXCEPT ![w] = NoLease]
    /\ passed' = [p \in Proxies |->
                    IF failures'[p] < DeadAfter THEN passed[p] ELSE {}]
    /\ blamed' = IF w \in fresh THEN blamed \union {lease[w]} ELSE blamed
    /\ fresh' = fresh \ {w}
    /\ UNCHANGED <<cursor, revived>>

\* A worker that is cancelled drops its lease and reports nothing.
DropLease(w) ==
    /\ lease[w] # NoLease
    /\ lease' = [lease EXCEPT ![w] = NoLease]
    /\ fresh' = fresh \ {w}
    /\ UNCHANGED <<failures, cursor, passed, revived, blamed>>

Next == \E w \in Workers :
            acquire(w) \/ report_success(w) \/ report_failure(w) \/ DropLease(w)

Spec == Init /\ [][Next]_vars

-----------------------------------------------------------------------------
\* Every lease names an entry of the pool and the cursor stays inside it.
TypeOK == /\ failures \in [Proxies -> 0..U32Max]
          /\ cursor \in 0..N /\ (N > 0 => cursor < N)
          /\ lease \in [Workers -> Proxies \union {NoLease}]
          /\ passed \in [Proxies -> SUBSET Proxies]
          /\ revived \in SUBSET Proxies /\ blamed \in SUBSET Proxies
          /\ fresh \in SUBSET Workers

Leased(w, p) == lease[w] = NoLease /\ lease'[w] = p

\* acquire() is round-robin over the healthy entries: while p is healthy and
\* waits for its turn, no other entry is handed out twice, however reports of
\* overlapping leases kill and revive the others in between.
RotationIsFair ==
    [][\A w \in Workers, p, q \in Proxies :
           Leased(w, q) /\ is_healthy(p) /\ p # q => q \notin passed[p]]_vars

\* A dead exit is dialled only when there is no healthy one, and a lease never
\* changes anyone's health.
DeadIsLastResort ==
    [][\A w \in Workers, p \in Proxies :
           Leased(w, p) => /\ Status(p) = "Unhealthy" => Dead = Proxies
                           /\ failures' = failures]_vars

Holders(p) == Cardinality({w \in Workers : lease[w] = p})

\* With every exit down, probing stays balanced: as long as nothing succeeded,
\* what an entry has failed or may still fail under leases already out is at
\* most one round of all workers ahead of the least failed entry (or of the
\* last healthy count).  The workers may all pile on one exit, but only once.
BalancedProbing ==
    revived = {} =>
        \A p, q \in Proxies :
            \/ failures[p] + Holders(p) < DeadAfter + Cardinality(Workers)
            \/ failures[p] + Holders(p) <= failures[q] + Cardinality(Workers)
            \/ failures[p] = U32Max

\* A success wipes the slate: late failures of leases taken before it cannot by
\* themselves mark the entry dead again, as long as fewer workers share the pool
\* than dead_after + 1 (each of the others holds at most one such lease).
StaleReportsCannotKill ==
    Cardinality(Workers) <= DeadAfter => (Dead \intersect revived) \subseteq blamed
=============================================================================
