----------------------------- MODULE ProxyProofs -----------------------------
(***************************************************************************)
(* Proxies: the pool's promises for every size, threshold and set of       *)
(* workers, and the tunnel through one for every timeout and every reply.  *)
(***************************************************************************)
EXTENDS ProxyPool, ProxyTunnel, FiniteSetTheorems, SequenceTheorems, TLAPS

-----------------------------------------------------------------------------
\* TypeOK holds: every report and lease keeps the counters in their range and the
\* cursor inside the pool.
THEOREM TypeCorrect == Spec => []TypeOK
<1>. USE PoolAssumption
<1>1. Init => TypeOK
  BY SMT DEF Init, TypeOK, Proxies
<1>2. TypeOK /\ [Next]_vars => TypeOK'
  <2>. SUFFICES ASSUME TypeOK, [Next]_vars PROVE TypeOK'
    OBVIOUS
  <2>1. ASSUME NEW w \in Workers, acquire(w) PROVE TypeOK'
    <3>1. PICK p \in Proxies : /\ cursor' = Wrap(p + 1)
                               /\ lease' = [lease EXCEPT ![w] = p]
                               /\ passed' = [r \in Proxies |-> Waited(r, p, is_healthy(r))]
                               /\ fresh' = fresh \union {w}
                               /\ UNCHANGED <<failures, revived, blamed>>
      BY <2>1, Zenon DEF acquire
    <3>2. cursor' \in 0..N /\ (N > 0 => cursor' < N)
      BY <3>1, SMT DEF Wrap, Proxies
    <3>3. \A r \in Proxies : Waited(r, p, is_healthy(r)) \in SUBSET Proxies
      BY <3>1 DEF Waited, TypeOK
    <3>. QED
      BY <3>1, <3>2, <3>3 DEF TypeOK
  <2>2. ASSUME NEW w \in Workers, report_success(w) PROVE TypeOK'
    <3>1. lease[w] \in Proxies
      BY <2>2 DEF report_success, TypeOK
    <3>. QED
      BY <2>2, <3>1, 0 \in 0..U32Max DEF report_success, Revive, TypeOK
  <2>3. ASSUME NEW w \in Workers, report_failure(w) PROVE TypeOK'
    <3>1. lease[w] \in Proxies
      BY <2>3 DEF report_failure, TypeOK
    <3>2. \A n \in 0..U32Max : SaturatingAdd(n) \in 0..U32Max
      BY SMT DEF SaturatingAdd
    <3>3. failures' \in [Proxies -> 0..U32Max]
      BY <2>3, <3>1, <3>2 DEF report_failure, TypeOK
    <3>4. passed' \in [Proxies -> SUBSET Proxies]
      BY <2>3 DEF report_failure, TypeOK
    <3>. QED
      BY <2>3, <3>1, <3>3, <3>4 DEF report_failure, TypeOK
  <2>4. ASSUME NEW w \in Workers, DropLease(w) PROVE TypeOK'
    BY <2>4 DEF DropLease, TypeOK
  <2>5. CASE UNCHANGED vars
    BY <2>5 DEF vars, history, TypeOK
  <2>. QED
    BY <2>1, <2>2, <2>3, <2>4, <2>5 DEF Next
<1>. QED
  BY <1>1, <1>2, PTL DEF Spec

-----------------------------------------------------------------------------
\* Whoever was leased while p waited is now further down the scan than p.
Waiting == \A p, q \in Proxies :
               q \in passed[p] => is_healthy(p) /\ Dist(cursor, p) < Dist(cursor, q)

\* Two entries are never met at the same point of a scan.
LEMMA DistInjective ==
    ASSUME NEW c \in Proxies, NEW p \in Proxies, NEW q \in Proxies, Dist(c, p) = Dist(c, q)
    PROVE  p = q
BY PoolAssumption, SMT DEF Proxies, Dist

\* When the cursor moves past p, an entry further down the scan than p keeps its
\* place relative to all that come after it, and p itself becomes the last one.
LEMMA CursorMoves ==
    ASSUME NEW c \in Proxies, NEW p \in Proxies, NEW r \in Proxies, NEW q \in Proxies,
           Dist(c, p) < Dist(c, r), q = p \/ Dist(c, r) < Dist(c, q)
    PROVE  Dist(Wrap(p + 1), r) < Dist(Wrap(p + 1), q)
BY PoolAssumption, SMT DEF Proxies, Dist, Wrap

\* A lease preserves Waiting.
LEMMA AcquireKeepsWaiting ==
    ASSUME TypeOK, Waiting, NEW w \in Workers, acquire(w)
    PROVE  Waiting'
<1>1. PICK s \in Proxies : /\ FirstHealthy(s) \/ LeastFailed(s)
                           /\ cursor' = Wrap(s + 1)
                           /\ passed' = [r \in Proxies |-> Waited(r, s, is_healthy(r))]
                           /\ failures' = failures
  BY Zenon DEF acquire
<1>2. cursor \in Proxies
  BY PoolAssumption, <1>1, SMT DEF TypeOK, Proxies
<1>. SUFFICES ASSUME NEW p \in Proxies, NEW q \in Proxies, q \in passed'[p]
              PROVE  is_healthy(p)' /\ Dist(cursor', p) < Dist(cursor', q)
  BY DEF Waiting
<1>3. p # s /\ is_healthy(p) /\ (q = s \/ q \in passed[p])
  BY <1>1 DEF Waited
<1>4. FirstHealthy(s)
  BY <1>1, <1>3 DEF LeastFailed, Dead, Status
<1>5. Dist(cursor, s) \in Int /\ Dist(cursor, p) \in Int
  BY <1>2, PoolAssumption, SMT DEF Dist, Proxies
<1>6. Dist(cursor, s) < Dist(cursor, p)
  <2>1. Dist(cursor, s) <= Dist(cursor, p)
    BY <1>3, <1>4 DEF FirstHealthy
  <2>2. Dist(cursor, s) # Dist(cursor, p)
    BY <1>2, <1>3, DistInjective
  <2>. QED
    BY <1>5, <2>1, <2>2, SMT
<1>7. q = s \/ Dist(cursor, p) < Dist(cursor, q)
  BY <1>3 DEF Waiting
<1>8. Dist(Wrap(s + 1), p) < Dist(Wrap(s + 1), q)
  BY <1>2, <1>6, <1>7, CursorMoves
<1>9. is_healthy(p)'
  BY <1>1, <1>3 DEF is_healthy
<1>. QED
  BY <1>1, <1>8, <1>9

\* No report disturbs it: a success only makes entries healthier, and a failure
\* that kills an entry takes it out of the rotation.
LEMMA WaitingInvariant == Spec => []Waiting
<1>1. Init => Waiting
  BY DEF Init, Waiting
<1>2. TypeOK /\ Waiting /\ [Next]_vars => Waiting'
  <2>. SUFFICES ASSUME TypeOK, Waiting, [Next]_vars PROVE Waiting'
    OBVIOUS
  <2>1. ASSUME NEW w \in Workers, acquire(w) PROVE Waiting'
    BY <2>1, AcquireKeepsWaiting
  <2>2. ASSUME NEW w \in Workers, report_success(w) PROVE Waiting'
    <3>1. lease[w] \in Proxies
      BY <2>2 DEF report_success, TypeOK
    <3>2. ASSUME NEW p \in Proxies, is_healthy(p) PROVE is_healthy(p)'
      <4>1. failures'[p] = failures[p] \/ failures'[p] = 0
        BY <2>2, <3>1 DEF report_success, TypeOK
      <4>2. failures[p] \in Nat
        BY PoolAssumption DEF TypeOK
      <4>. QED
        BY <3>2, <4>1, <4>2, PoolAssumption, SMT DEF is_healthy
    <3>. QED
      BY <2>2, <3>2 DEF report_success, Waiting
  <2>3. ASSUME NEW w \in Workers, report_failure(w) PROVE Waiting'
    BY <2>3 DEF report_failure, Waiting, is_healthy
  <2>4. ASSUME NEW w \in Workers, DropLease(w) PROVE Waiting'
    BY <2>4 DEF DropLease, Waiting, is_healthy
  <2>5. CASE UNCHANGED vars
    BY <2>5 DEF vars, history, Waiting, is_healthy
  <2>. QED
    BY <2>1, <2>2, <2>3, <2>4, <2>5 DEF Next
<1>. QED
  BY <1>1, <1>2, TypeCorrect, PTL DEF Spec

\* A worker gets a lease only from its own acquire.
LEMMA LeaseIsAcquired ==
    ASSUME TypeOK, Next, NEW w \in Workers, NEW q \in Proxies, Leased(w, q)
    PROVE  acquire(w) /\ (FirstHealthy(q) \/ LeastFailed(q)) /\ failures' = failures
<1>1. q # NoLease
  BY PoolAssumption DEF Proxies
<1>2. PICK v \in Workers : acquire(v) \/ report_success(v) \/ report_failure(v) \/ DropLease(v)
  BY DEF Next
<1>3. ASSUME lease' = [lease EXCEPT ![v] = NoLease] PROVE FALSE
  BY <1>1, <1>3 DEF Leased, TypeOK
<1>4. acquire(v)
  BY <1>2, <1>3 DEF report_success, report_failure, DropLease
<1>5. PICK p \in Proxies : /\ FirstHealthy(p) \/ LeastFailed(p)
                           /\ lease' = [lease EXCEPT ![v] = p]
                           /\ failures' = failures
  BY <1>4, Zenon DEF acquire
<1>6. v = w /\ p = q
  BY <1>1, <1>5 DEF Leased, TypeOK
<1>. QED
  BY <1>4, <1>5, <1>6

\* RotationIsFair holds: acquire is round-robin over the healthy entries whatever
\* reports arrive in between.
THEOREM RotationHolds == Spec => RotationIsFair
<1>1. TypeOK /\ Waiting /\ [Next]_vars =>
          [\A w \in Workers, p, q \in Proxies :
               Leased(w, q) /\ is_healthy(p) /\ p # q => q \notin passed[p]]_vars
  <2>. SUFFICES ASSUME TypeOK, Waiting, Next, NEW w \in Workers, NEW p \in Proxies,
                       NEW q \in Proxies, Leased(w, q), is_healthy(p), q \in passed[p]
                PROVE  FALSE
    BY DEF vars
  <2>1. FirstHealthy(q) \/ LeastFailed(q)
    BY LeaseIsAcquired
  <2>2. FirstHealthy(q)
    BY <2>1 DEF LeastFailed, Dead, Status
  <2>3. Dist(cursor, q) <= Dist(cursor, p) /\ Dist(cursor, p) < Dist(cursor, q)
    BY <2>2 DEF FirstHealthy, Waiting
  <2>4. Dist(cursor, q) \in Int /\ Dist(cursor, p) \in Int
    BY PoolAssumption, SMT DEF Dist, Proxies, TypeOK
  <2>. QED
    BY <2>3, <2>4, SMT
<1>. QED
  BY <1>1, TypeCorrect, WaitingInvariant, PTL DEF Spec, RotationIsFair

\* DeadIsLastResort holds: acquire hands out a dead entry only when all are dead,
\* and changes no failure count.
THEOREM LastResortHolds == Spec => DeadIsLastResort
<1>1. TypeOK /\ [Next]_vars =>
          [\A w \in Workers, p \in Proxies :
               Leased(w, p) => /\ Status(p) = "Unhealthy" => Dead = Proxies
                               /\ failures' = failures]_vars
  <2>. SUFFICES ASSUME TypeOK, Next, NEW w \in Workers, NEW p \in Proxies, Leased(w, p)
                PROVE  (Status(p) = "Unhealthy" => Dead = Proxies) /\ failures' = failures
    BY DEF vars
  <2>1. (FirstHealthy(p) \/ LeastFailed(p)) /\ failures' = failures
    BY LeaseIsAcquired
  <2>. QED
    BY <2>1 DEF FirstHealthy, LeastFailed, Status
<1>. QED
  BY <1>1, TypeCorrect, PTL DEF Spec, DeadIsLastResort

-----------------------------------------------------------------------------
\* The leases on p that were out when p last succeeded.
Stale(p) == {w \in Workers : lease[w] = p /\ w \notin fresh}

\* Since its last success an unblamed entry failed only under stale leases, and
\* there were never more of those than workers other than the one that succeeded.
StaleBudget == \A p \in revived : p \notin blamed =>
                   failures[p] + Cardinality(Stale(p)) < Cardinality(Workers)

\* A set of stale leases that only shrinks fits in the budget it had.
LEMMA StaleFinite ==
    ASSUME NEW S, S \subseteq Workers
    PROVE  IsFiniteSet(S) /\ Cardinality(S) \in Nat /\ Cardinality(S) <= Cardinality(Workers)
BY PoolAssumption, FS_Subset, FS_CardinalityType

LEMMA BudgetShrinks ==
    ASSUME NEW S, NEW T, S \subseteq T, T \subseteq Workers, NEW n \in Nat,
           n + Cardinality(T) < Cardinality(Workers)
    PROVE  n + Cardinality(S) < Cardinality(Workers)
<1>1. IsFiniteSet(T) /\ Cardinality(T) \in Nat /\ Cardinality(S) \in Nat
  BY StaleFinite
<1>2. Cardinality(S) <= Cardinality(T)
  BY <1>1, FS_Subset
<1>3. Cardinality(Workers) \in Nat
  BY PoolAssumption, FS_CardinalityType
<1>. QED
  BY <1>1, <1>2, <1>3, SMT

\* A success of w starts a budget without w.
LEMMA SuccessKeepsBudget ==
    ASSUME TypeOK, StaleBudget, NEW w \in Workers, report_success(w)
    PROVE  StaleBudget'
<1>. DEFINE l == lease[w]
<1>1. l \in Proxies /\ l # NoLease
  BY DEF report_success, TypeOK
<1>. SUFFICES ASSUME NEW p \in revived', p \notin blamed'
              PROVE  failures'[p] + Cardinality(Stale(p)') < Cardinality(Workers)
  BY DEF StaleBudget
<1>2. CASE p = l
  <2>1. failures'[p] = 0
    BY <1>1, <1>2 DEF report_success, TypeOK
  <2>2. Stale(p)' \subseteq Workers \ {w}
    BY <1>1, <1>2 DEF Stale, report_success, TypeOK
  <2>3. /\ IsFiniteSet(Workers \ {w})
        /\ Cardinality(Workers \ {w}) = Cardinality(Workers) - 1
        /\ Cardinality(Workers) \in Nat
    BY PoolAssumption, FS_RemoveElement, FS_CardinalityType
  <2>4. Cardinality(Stale(p)') <= Cardinality(Workers \ {w}) /\ Cardinality(Stale(p)') \in Nat
    BY <2>2, <2>3, FS_Subset, FS_CardinalityType
  <2>. QED
    BY <2>1, <2>3, <2>4, SMT
<1>3. CASE p # l
  <2>1. p \in revived /\ p \notin blamed /\ failures'[p] = failures[p] /\ failures[p] \in Nat
    BY <1>1, <1>3, PoolAssumption DEF report_success, Revive, TypeOK
  <2>2. p # NoLease
    BY <2>1, PoolAssumption DEF TypeOK, Proxies
  <2>3. Stale(p)' \subseteq Stale(p) /\ Stale(p) \subseteq Workers
    BY <1>3, <2>2 DEF Stale, report_success, Revive, TypeOK
  <2>. QED
    BY <2>1, <2>3, BudgetShrinks DEF StaleBudget
<1>. QED
  BY <1>2, <1>3

\* A failure reported with a stale lease uses up that lease; with a fresh one it
\* is the entry's own.
LEMMA FailureKeepsBudget ==
    ASSUME TypeOK, StaleBudget, NEW w \in Workers, report_failure(w)
    PROVE  StaleBudget'
<1>. DEFINE l == lease[w]
<1>1. l \in Proxies /\ l # NoLease
  BY DEF report_failure, TypeOK
<1>. SUFFICES ASSUME NEW p \in revived', p \notin blamed'
              PROVE  failures'[p] + Cardinality(Stale(p)') < Cardinality(Workers)
  BY DEF StaleBudget
<1>2. p \in revived /\ p \notin blamed /\ p \in Proxies /\ p # NoLease /\ failures[p] \in 0..U32Max
  BY PoolAssumption DEF report_failure, TypeOK, Proxies
<1>3. Stale(p)' = Stale(p) \ {w}
  BY <1>1, <1>2 DEF Stale, report_failure, TypeOK
<1>4. failures[p] + Cardinality(Stale(p)) < Cardinality(Workers)
  BY <1>2 DEF StaleBudget
<1>5. Stale(p) \subseteq Workers
  BY DEF Stale
<1>6. CASE p = l
  <2>1. w \in Stale(p)
    BY <1>6 DEF Stale, report_failure
  <2>2. Cardinality(Stale(p)') = Cardinality(Stale(p)) - 1
    BY <1>3, <1>5, <2>1, StaleFinite, FS_RemoveElement
  <2>3. failures'[p] <= failures[p] + 1 /\ failures'[p] \in Nat
    <3>1. failures'[p] = SaturatingAdd(failures[p])
      BY <1>1, <1>6 DEF report_failure, TypeOK
    <3>. QED
      BY <1>2, <3>1, PoolAssumption, SMT DEF SaturatingAdd
  <2>4. Cardinality(Stale(p)) \in Nat /\ Cardinality(Workers) \in Nat
    BY <1>5, StaleFinite, PoolAssumption, FS_CardinalityType
  <2>5. failures[p] \in Nat
    BY <1>2, PoolAssumption, SMT
  <2>. QED
    BY SMTT(30), <1>4, <2>2, <2>3, <2>4, <2>5, SMT
<1>7. CASE p # l
  <2>1. failures'[p] = failures[p] /\ failures[p] \in Nat
    BY SMTT(30), <1>1, <1>2, <1>7, PoolAssumption DEF report_failure, TypeOK
  <2>. QED
    BY SMTT(30), <1>3, <1>4, <1>5, <2>1, BudgetShrinks
<1>. QED
  BY <1>6, <1>7

\* Taking or dropping a lease makes none stale.
LEMMA LeasesKeepBudget ==
    ASSUME TypeOK, StaleBudget, NEW w \in Workers, acquire(w) \/ DropLease(w)
    PROVE  StaleBudget'
<1>1. failures' = failures /\ revived' = revived /\ blamed' = blamed
  BY DEF acquire, DropLease
<1>. SUFFICES ASSUME NEW p \in revived, p \notin blamed
              PROVE  failures[p] + Cardinality(Stale(p)') < Cardinality(Workers)
  BY <1>1 DEF StaleBudget
<1>2. p \in Proxies /\ p # NoLease /\ failures[p] \in Nat
  BY PoolAssumption DEF TypeOK, Proxies
<1>3. Stale(p)' \subseteq Stale(p) /\ Stale(p) \subseteq Workers
  <2>1. CASE acquire(w)
    <3>1. PICK q \in Proxies : lease' = [lease EXCEPT ![w] = q] /\ fresh' = fresh \union {w}
      BY <2>1, Zenon DEF acquire
    <3>. QED
      BY <3>1 DEF Stale, TypeOK
  <2>2. CASE DropLease(w)
    BY <1>2, <2>2 DEF Stale, DropLease, TypeOK
  <2>. QED
    BY <2>1, <2>2
<1>. QED
  BY <1>2, <1>3, BudgetShrinks DEF StaleBudget

\* StaleReportsCannotKill holds: with no more workers than dead_after, late
\* failures of leases from before a success cannot mark the entry dead again.
THEOREM StaleReportsHold == Spec => []StaleReportsCannotKill
<1>1. Init => StaleBudget
  BY DEF Init, StaleBudget
<1>2. TypeOK /\ StaleBudget /\ [Next]_vars => StaleBudget'
  <2>. SUFFICES ASSUME TypeOK, StaleBudget, [Next]_vars PROVE StaleBudget'
    OBVIOUS
  <2>1. CASE UNCHANGED vars
    BY <2>1 DEF vars, history, StaleBudget, Stale
  <2>. QED
    BY SMTT(30), <2>1, SuccessKeepsBudget, FailureKeepsBudget, LeasesKeepBudget DEF Next
<1>3. TypeOK /\ StaleBudget => StaleReportsCannotKill
  <2>. SUFFICES ASSUME TypeOK, StaleBudget, Cardinality(Workers) <= DeadAfter,
                       NEW p \in Dead, p \in revived, p \notin blamed
                PROVE  FALSE
    BY DEF StaleReportsCannotKill
  <2>1. failures[p] + Cardinality(Stale(p)) < Cardinality(Workers)
    BY DEF StaleBudget
  <2>2. ~(failures[p] < DeadAfter) /\ p \in Proxies
    BY DEF Dead, Status, is_healthy
  <2>3. failures[p] \in Nat /\ DeadAfter \in Nat
    BY <2>2, PoolAssumption DEF TypeOK
  <2>4. Cardinality(Stale(p)) \in Nat /\ Cardinality(Workers) \in Nat
    BY StaleFinite, PoolAssumption, FS_CardinalityType DEF Stale
  <2>. QED
    BY <2>1, <2>2, <2>3, <2>4, SMT
<1>. QED
  BY <1>1, <1>2, <1>3, TypeCorrect, PTL DEF Spec

-----------------------------------------------------------------------------
\* The workers that hold a lease on p are finitely many, and all of them only when
\* nobody is without a lease.
LEMMA HoldersType ==
    ASSUME NEW p \in Proxies
    PROVE  Holders(p) \in Nat /\ Holders(p) <= Cardinality(Workers)
BY StaleFinite DEF Holders

\* A step of w that changes no lease but its own changes nobody's holders but of the
\* entry it lets go or takes.
LEMMA HoldersMove ==
    ASSUME TypeOK, NEW w \in Workers, NEW l \in Proxies \union {NoLease},
           lease' = [lease EXCEPT ![w] = l], NEW p \in Proxies
    PROVE  Holders(p)' = Holders(p) + (IF l = p THEN 1 ELSE 0)
                                    - (IF lease[w] = p THEN 1 ELSE 0)
<1>. DEFINE S == {v \in Workers : lease[v] = p}
            T == {v \in Workers : lease'[v] = p}
<1>1. IsFiniteSet(S) /\ Cardinality(S) \in Nat
  BY StaleFinite
<1>2. w \in S <=> lease[w] = p
  OBVIOUS
<1>3. Holders(p) = Cardinality(S) /\ Holders(p)' = Cardinality(T)
  BY DEF Holders
<1>4. CASE l = p
  <2>1. T = S \union {w}
    BY <1>4 DEF TypeOK
  <2>2. Cardinality(T) = IF w \in S THEN Cardinality(S) ELSE Cardinality(S) + 1
    BY <1>1, <2>1, FS_AddElement, Zenon
  <2>. QED
    BY SMTT(30), <1>1, <1>2, <1>3, <1>4, <2>2, SMT
<1>5. CASE l # p
  <2>1. T = S \ {w}
    BY <1>5 DEF TypeOK
  <2>2. Cardinality(T) = IF w \in S THEN Cardinality(S) - 1 ELSE Cardinality(S)
    BY <1>1, <2>1, FS_RemoveElement, Zenon
  <2>. QED
    BY <1>1, <1>2, <1>3, <1>5, <2>2, SMT
<1>. QED
  BY <1>4, <1>5

\* The numbers the balance is about.
LEMMA BalanceTypes ==
    ASSUME TypeOK
    PROVE  /\ Cardinality(Workers) \in Nat /\ DeadAfter \in Nat /\ U32Max \in Nat
           /\ \A p \in Proxies : failures[p] \in Nat /\ failures[p] <= U32Max
BY PoolAssumption, FS_CardinalityType DEF TypeOK

\* A lease of a healthy entry ends below the threshold and a round of the workers; a
\* lease of a dead one goes to the least failed entry, so a round of all workers is
\* all that it can be ahead.
LEMMA AcquireKeepsBalance ==
    ASSUME TypeOK, BalancedProbing, NEW w \in Workers, acquire(w)
    PROVE  BalancedProbing'
<1>1. PICK s \in Proxies : /\ lease[w] = NoLease
                           /\ FirstHealthy(s) \/ LeastFailed(s)
                           /\ lease' = [lease EXCEPT ![w] = s]
                           /\ failures' = failures /\ revived' = revived
  BY Zenon DEF acquire
<1>. SUFFICES ASSUME revived = {}, NEW p \in Proxies, NEW q \in Proxies
              PROVE  \/ failures[p] + Holders(p)' < DeadAfter + Cardinality(Workers)
                     \/ failures[p] + Holders(p)' <= failures[q] + Cardinality(Workers)
                     \/ failures[p] = U32Max
  BY <1>1 DEF BalancedProbing
<1>2. CASE p = s
  <2>1. Holders(p)' \in Nat /\ Holders(p)' <= Cardinality(Workers)
    BY StaleFinite DEF Holders
  <2>2. failures[s] < DeadAfter \/ failures[s] <= failures[q]
    BY <1>1, BalanceTypes DEF FirstHealthy, is_healthy, LeastFailed
  <2>. QED
    BY <1>2, <2>1, <2>2, BalanceTypes, SMT
<1>3. CASE p # s
  <2>1. NoLease # p
    BY PoolAssumption DEF Proxies
  <2>2. Holders(p)' = Holders(p) + (IF s = p THEN 1 ELSE 0) - (IF lease[w] = p THEN 1 ELSE 0)
    <3>1. s \in Proxies \union {NoLease}
      OBVIOUS
    <3>. QED
      BY ZenonT(30), <1>1, <3>1, HoldersMove, ZenonT(60)
  <2>3. Holders(p)' = Holders(p)
    BY <1>1, <1>3, <2>1, <2>2, HoldersType, SMT
  <2>. QED
    BY <2>3 DEF BalancedProbing
<1>. QED
  BY <1>2, <1>3

\* A failure reported turns a lease that is out into a failure: their sum stays, up
\* to the counter's limit.  A dropped lease only lowers it.
LEMMA ReturnKeepsBalance ==
    ASSUME TypeOK, BalancedProbing, NEW w \in Workers, report_failure(w) \/ DropLease(w)
    PROVE  BalancedProbing'
<1>1. /\ lease[w] \in Proxies /\ revived' = revived
      /\ lease' = [lease EXCEPT ![w] = NoLease]
  BY DEF report_failure, DropLease, TypeOK
<1>. SUFFICES ASSUME revived = {}, NEW p \in Proxies, NEW q \in Proxies
              PROVE  \/ failures'[p] + Holders(p)' < DeadAfter + Cardinality(Workers)
                     \/ failures'[p] + Holders(p)' <= failures'[q] + Cardinality(Workers)
                     \/ failures'[p] = U32Max
  BY <1>1 DEF BalancedProbing
<1>2. \/ failures[p] + Holders(p) < DeadAfter + Cardinality(Workers)
      \/ failures[p] + Holders(p) <= failures[q] + Cardinality(Workers)
      \/ failures[p] = U32Max
  BY DEF BalancedProbing
<1>3. NoLease # p
  BY PoolAssumption DEF Proxies
<1>4. Holders(p)' = Holders(p) - (IF lease[w] = p THEN 1 ELSE 0)
  <2>1. Holders(p)' = Holders(p) + (IF NoLease = p THEN 1 ELSE 0)
                                 - (IF lease[w] = p THEN 1 ELSE 0)
    <3>1. NoLease \in Proxies \union {NoLease}
      OBVIOUS
    <3>. QED
      BY <1>1, <3>1, HoldersMove, Zenon
  <2>. QED
    BY <1>3, <2>1, HoldersType, SMT
<1>5. \A r \in Proxies : failures'[r] \in Nat /\ failures[r] <= failures'[r]
                         /\ failures'[r] <= failures[r] + 1 /\ failures'[r] <= U32Max
  <2>1. \A r \in Proxies : failures'[r] = failures[r] \/ failures'[r] = SaturatingAdd(failures[r])
    BY <1>1 DEF report_failure, DropLease, TypeOK
  <2>. QED
    BY SMTT(30), <2>1, BalanceTypes, SMT DEF SaturatingAdd
<1>6. lease[w] # p => failures'[p] = failures[p]
  BY Zenon, <1>1 DEF report_failure, DropLease, TypeOK
<1>. QED
  BY <1>2, <1>4, <1>5, <1>6, BalanceTypes, HoldersType, SMT

\* BalancedProbing holds: with every exit down, acquire's choice of the least failed
\* entry keeps the failures, reported or still to come, within one round of the
\* workers of each other.
THEOREM ProbingBalanced == Spec => []BalancedProbing
<1>1. Init => BalancedProbing
  <2>. SUFFICES ASSUME Init, NEW p \in Proxies, NEW q \in Proxies
                PROVE  failures[p] + Holders(p) <= failures[q] + Cardinality(Workers)
    BY DEF BalancedProbing
  <2>1. failures[p] = 0 /\ failures[q] = 0
    BY DEF Init
  <2>. QED
    BY <2>1, HoldersType, PoolAssumption, FS_CardinalityType, SMT
<1>2. TypeOK /\ BalancedProbing /\ [Next]_vars => BalancedProbing'
  <2>. SUFFICES ASSUME TypeOK, BalancedProbing, [Next]_vars PROVE BalancedProbing'
    OBVIOUS
  <2>1. ASSUME NEW w \in Workers, report_success(w) PROVE BalancedProbing'
    BY <2>1 DEF report_success, Revive, BalancedProbing
  <2>2. CASE UNCHANGED vars
    BY <2>2 DEF vars, history, BalancedProbing, Holders
  <2>. QED
    BY <2>1, <2>2, AcquireKeepsBalance, ReturnKeepsBalance DEF Next
<1>. QED
  BY <1>1, <1>2, TypeCorrect, PTL DEF Spec

-----------------------------------------------------------------------------
\* Time.
Base == IF Proxied THEN ProxyConnect ELSE TcpConnect

Phases == {"start", "tcp", "socks", "proxyTcp", "proxyTls", "write", "status", "headers",
           "tls", "ws", "done"}

Clocks == /\ phase \in Phases
          /\ route \in {"direct", "socks5", "http", "https"} /\ wss \in BOOLEAN
          /\ now \in Nat /\ deadline \in Nat /\ outer \in Nat /\ readFrom \in Nat
          /\ headers \in Nat

\* Every phase up to the tunnel runs under the one outer deadline, which is set when the
\* clock starts, and every later phase starts no later than the budgets before it allow.
Timely ==
    /\ phase = "start" => now = 0
    /\ phase \in InProxy => Proxied /\ outer = ProxyConnect /\ now <= outer
    /\ phase = "tcp" => ~Proxied /\ deadline = TcpConnect /\ now <= deadline
    /\ phase = "tls" => deadline <= Base + TlsHandshake /\ now <= deadline
    /\ phase = "ws" => deadline <= Base + TlsHandshake + WsHandshake /\ now <= deadline
    /\ Reading => deadline = readFrom + Handshake /\ now <= deadline
    /\ phase = "done" => now <= Base + TlsHandshake + WsHandshake

\* Headers are counted only while they are read, up to the limit.
HeadersCounted ==
    /\ headers <= MaxHeaders
    /\ phase \notin {"headers", "tls", "ws", "done"} => headers = 0
    /\ phase = "headers" => headers < MaxHeaders

TimeInv == Clocks /\ Timely /\ HeadersCounted

\* What follows a phase.
LEMMA AfterFacts ==
    ASSUME Clocks
    PROVE  /\ After("start") = IF route = "direct" THEN "tcp"
                                      ELSE IF route = "socks5" THEN "socks" ELSE "proxyTcp"
           /\ After("proxyTcp") = IF route = "https" THEN "proxyTls" ELSE "write"
           /\ After("proxyTls") = "write" /\ After("write") = "status"
           /\ After("tcp") = IF wss THEN "tls" ELSE "ws"
           /\ After("socks") = IF wss THEN "tls" ELSE "ws"
           /\ After("headers") = IF wss THEN "tls" ELSE "ws"
           /\ After("tls") = "ws" /\ After("ws") = "done"
BY DEF After, Proxied

\* The time each phase is given.
LEMMA BudgetFacts ==
    /\ Budget("tcp") = TcpConnect /\ Budget("tls") = TlsHandshake
    /\ Budget("ws") = WsHandshake
    /\ Budget("done") = ProxyConnect + TlsHandshake + WsHandshake + 1
    /\ \A p \in InProxy : Budget(p) = Handshake
BY DEF Budget, Far, InProxy

\* The first phase is entered at time 0 and sets the outer deadline.
LEMMA StartTimely ==
    ASSUME TimeInv, Start
    PROVE  TimeInv'
<1> USE LimitsAssumption DEF TimeInv, Clocks, Timely, HeadersCounted, Base, Proxied,
        InProxy, Reading, setting, Phases
<1>1. phase = "start" /\ now = 0 /\ headers = 0
      /\ UNCHANGED <<now, headers, route, wss, reply, closes>>
    BY DEF Start
<1>2. CASE Fail("InvalidUrl")
    BY SMTT(30), <1>1, <1>2 DEF Fail, Far
<1>3. CASE Enter(After("start"))
    <2> DEFINE p == After("start")
    <2>1. p = IF route = "direct" THEN "tcp" ELSE IF route = "socks5" THEN "socks" ELSE "proxyTcp"
        BY Zenon, AfterFacts
    <2> HIDE DEF p
    <2>2. /\ phase' = p /\ deadline' = Budget(p) /\ readFrom' = readFrom
          /\ route # "direct" => outer' = ProxyConnect
          /\ route = "direct" => outer' = Far
        <3>1. Enter(p)
            BY <1>3 DEF p
        <3>2. Budget(p) \in Nat /\ p # "status"
            BY Zenon, <2>1, BudgetFacts
        <3> QED
            BY <1>1, <2>1, <3>1, <3>2 DEF Enter
    <2>3. route = "direct" => deadline' = TcpConnect
        BY Zenon, <2>1, <2>2, BudgetFacts
    <2>4. deadline' \in Nat
        BY Zenon, <2>1, <2>2, BudgetFacts
    <2> QED
        BY <1>1, <2>1, <2>2, <2>3, <2>4 DEF Far
<1> QED
    BY Zenon, <1>2, <1>3 DEF Start

\* A failure stops the clock.
LEMMA FailTimely ==
    ASSUME TimeInv, NEW e, Fail(e), phase # "start",
           UNCHANGED <<now, route, wss>>, headers' \in Nat, headers' <= MaxHeaders
    PROVE  TimeInv'
<1> USE LimitsAssumption DEF TimeInv, Clocks, Timely, HeadersCounted, Base, Proxied,
        InProxy, Reading, Phases
<1>1. phase' = "done" /\ deadline' \in Nat /\ outer' \in Nat /\ readFrom' = readFrom
    BY DEF Fail, Far
<1>2. now <= Base + TlsHandshake + WsHandshake
    OBVIOUS
<1> QED
    BY Zenon, <1>1, <1>2

\* A phase that completes hands over no later than its deadline, so the next one ends
\* within the budgets of both.
LEMMA EnterTimely ==
    ASSUME TimeInv, phase \in Opaque \union {"headers"}, Enter(After(phase)),
           UNCHANGED <<now, headers, route, wss>>
    PROVE  TimeInv'
<1> DEFINE p == After(phase)
<1>1. /\ p \in Phases /\ p # "start"
      /\ p \in InProxy => phase \in InProxy /\ phase \notin {"socks", "headers"}
      /\ p # "headers" /\ p # "tcp"
      /\ p = "tls" => phase \in {"tcp", "socks", "headers"}
      /\ p = "ws" => phase \in {"tcp", "socks", "headers", "tls"}
      /\ p = "done" => phase = "ws"
    BY AfterFacts DEF TimeInv, Clocks, Phases, Opaque, InProxy
<1> SUFFICES ASSUME Enter(p) PROVE TimeInv'
    OBVIOUS
<1> HIDE DEF p
<1> USE LimitsAssumption DEF TimeInv, Clocks, Timely, HeadersCounted, Base, Proxied,
        InProxy, Reading, Phases
<1>2. phase # "start"
    BY DEF Opaque
<1>3. /\ phase' = p /\ deadline' = now + Budget(p)
      /\ outer' = IF p \in InProxy THEN outer ELSE Far
      /\ readFrom' = IF p = "status" THEN now ELSE readFrom
    BY SMTT(30), <1>2 DEF Enter
<1>4. CASE p \in InProxy
    <2>1. deadline' = now + Handshake /\ outer' = outer
        BY Zenon, <1>3, <1>4, BudgetFacts
    <2> QED
        BY <1>1, <1>3, <1>4, <2>1
<1>5. CASE p = "tls"
    <2>1. deadline' = now + TlsHandshake /\ now <= Base
        BY Zenon, <1>1, <1>3, <1>5, BudgetFacts
    <2> QED
        BY <1>1, <1>3, <1>5, <2>1 DEF Far
<1>6. CASE p = "ws"
    <2>1. deadline' = now + WsHandshake /\ now <= Base + TlsHandshake
        BY SMTT(30), <1>1, <1>3, <1>6, BudgetFacts
    <2> QED
        BY SMTT(30), <1>1, <1>3, <1>6, <2>1 DEF Far
<1>7. CASE p = "done"
    <2>1. deadline' \in Nat /\ now <= Base + TlsHandshake + WsHandshake
        BY <1>1, <1>3, <1>7, BudgetFacts
    <2> QED
        BY SMTT(30), <1>1, <1>3, <1>7, <2>1 DEF Far
<1> QED
    BY Zenon, <1>1, <1>4, <1>5, <1>6, <1>7

\* Every step keeps the time.
LEMMA NextTimely == TimeInv /\ [TunnelNext]_tunnelVars => TimeInv'
<1> SUFFICES ASSUME TimeInv, [TunnelNext]_tunnelVars PROVE TimeInv'
    OBVIOUS
<1> USE LimitsAssumption
<1>1. CASE Start
    BY <1>1, StartTimely
<1>2. CASE PhaseDone
    BY Zenon, <1>2, EnterTimely DEF PhaseDone, setting
<1>3. CASE PhaseFails
    <2>1. phase # "start" /\ headers' \in Nat /\ headers' <= MaxHeaders
        BY <1>3 DEF PhaseFails, Opaque, TimeInv, Clocks, HeadersCounted
    <2> QED
        BY <1>3, <2>1, FailTimely DEF PhaseFails, setting
<1>4. CASE Expire
    <2>1. phase # "start" /\ headers' \in Nat /\ headers' <= MaxHeaders
        BY SMTT(30), <1>4 DEF Expire, TimeInv, Clocks, HeadersCounted
    <2> QED
        BY Zenon, <1>4, <2>1, FailTimely DEF Expire, setting
<1>5. CASE Tick
    BY <1>5 DEF Tick, Due, setting, TimeInv, Clocks, Timely, HeadersCounted,
                Base, Proxied, InProxy, Reading, Phases
<1>6. CASE Fill \/ TunnelDone \/ UNCHANGED tunnelVars
    BY ZenonT(30), <1>6, ZenonT(60) DEF Fill, TunnelDone, tunnelVars, setting, TimeInv, Clocks,
                       Timely,
                HeadersCounted, Base, Proxied, InProxy, Reading, Phases
<1>7. CASE ReadStatus
    <2>1. phase = "status" /\ headers = 0 /\ UNCHANGED <<now, headers, route, wss>>
        BY <1>7 DEF ReadStatus, setting, TimeInv, HeadersCounted
    <2>2. ASSUME NEW e, Fail(e) PROVE TimeInv'
        BY <2>1, <2>2, FailTimely
    <2>3. CASE phase' = "headers" /\ UNCHANGED <<deadline, outer, result, readFrom>>
        BY <2>1, <2>3 DEF TimeInv, Clocks, Timely, HeadersCounted, Base, Proxied,
                          InProxy, Reading, Phases
    <2> QED
        BY Zenon, <1>7, <2>2, <2>3 DEF ReadStatus
<1>8. CASE ReadHeader
    <2>1. /\ phase = "headers" /\ headers < MaxHeaders
          /\ headers \in Nat /\ UNCHANGED <<now, route, wss>>
        BY <1>8 DEF ReadHeader, setting, TimeInv, Clocks, HeadersCounted
    <2>2. ASSUME NEW e, Fail(e), headers' \in {headers, headers + 1} PROVE TimeInv'
        BY SMTT(30), <2>1, <2>2, FailTimely
    <2>3. CASE /\ headers' = headers + 1 /\ headers + 1 # MaxHeaders
               /\ UNCHANGED <<phase, deadline, outer, result, readFrom>>
        BY <2>1, <2>3 DEF TimeInv, Clocks, Timely, HeadersCounted, Base, Proxied,
                          InProxy, Reading, Phases
    <2>4. \/ Fail("HttpConnect") /\ headers' = headers + 1
          \/ Fail("Io") /\ headers' = headers
          \/ /\ headers' = headers + 1 /\ headers + 1 # MaxHeaders
             /\ UNCHANGED <<phase, deadline, outer, result, readFrom>>
        BY Zenon, <1>8 DEF ReadHeader
    <2> QED
        BY Zenon, <2>2, <2>3, <2>4
<1>9. CASE HeadersEnd
    <2>1. phase = "headers"
        BY <1>9 DEF HeadersEnd
    <2> QED
        BY SMTT(30), <1>9, <2>1, EnterTimely DEF HeadersEnd, setting
<1> QED
    BY SMTT(30), <1>1, <1>2, <1>3, <1>4, <1>5, <1>6, <1>7, <1>8, <1>9 DEF TunnelNext

\* The clock starts with the call.
LEMMA InitTimely == TunnelInit => TimeInv
BY LimitsAssumption DEF TunnelInit, Far, TimeInv, Clocks, Timely, HeadersCounted, Base,
    Proxied, InProxy, Reading, Phases

\* Nobody waits longer in connect_ws than the nested timeouts say, and no proxy can
\* stretch the reading of its reply, for any values of the timeouts and limits.
THEOREM ConnectBounded == TunnelSpec => []BoundedConnect
<1>1. TimeInv => BoundedConnect
    BY LimitsAssumption DEF TimeInv, Clocks, Timely, HeadersCounted, BoundedConnect, Base,
        InProxy, Reading, Proxied, Phases
<1> QED
    BY <1>1, InitTimely, NextTimely, PTL DEF TunnelSpec

-----------------------------------------------------------------------------
\* The reply.
Lines == STRING

Before == {"start", "tcp", "socks", "proxyTcp", "proxyTls", "write", "status"}

\* i lines of the reply have been read, none of them blank, and the rest is in the buffer
\* and on the socket.
ReadUpTo(i) == /\ i \in DOMAIN reply
               /\ \A j \in 1..i : reply[j] # "blank"
               /\ buf \o socket = Suffix(i)

Position ==
    /\ phase = "tcp" => route = "direct"
    /\ phase = "socks" => route = "socks5"
    /\ phase \in Before => buf \o socket = reply
    /\ phase = "headers" => reply[1] = "200" /\ \E i \in Nat : ReadUpTo(i)
    /\ result = "open" => phase = "done"

Streams == reply \in Seq(Lines) /\ buf \in Seq(Lines) /\ socket \in Seq(Lines)

TunnelInv == Clocks /\ Streams /\ Position /\ TunnelIntact

\* A read of the socket loses nothing and changes no order.
LEMMA CutKeeps ==
    ASSUME NEW s \in Seq(Lines), NEW k \in 1..Len(s)
    PROVE  /\ SubSeq(s, 1, k) \in Seq(Lines) /\ SubSeq(s, k + 1, Len(s)) \in Seq(Lines)
           /\ SubSeq(s, 1, k) \o SubSeq(s, k + 1, Len(s)) = s
<1> DEFINE a == SubSeq(s, 1, k)
           b == SubSeq(s, k + 1, Len(s))
<1>1. /\ a \in Seq(Lines) /\ Len(a) = k /\ \A i \in 1..k : a[i] = s[i]
    OBVIOUS
<1>2. /\ b \in Seq(Lines) /\ Len(b) = Len(s) - k
      /\ \A i \in 1..(Len(s) - k) : b[i] = s[k + i]
    OBVIOUS
<1> HIDE DEF a, b
<1>3. Len(s) \in Nat /\ k \in Nat
    OBVIOUS
<1>4. /\ a \o b \in Seq(Lines) /\ Len(a \o b) = Len(s)
      /\ \A i \in 1..Len(s) : (a \o b)[i] = IF i <= k THEN a[i] ELSE b[i - k]
    <2>1. /\ a \o b \in Seq(Lines) /\ Len(a \o b) = Len(a) + Len(b)
          /\ \A i \in 1..Len(a) + Len(b) :
                (a \o b)[i] = IF i <= Len(a) THEN a[i] ELSE b[i - Len(a)]
        BY ZenonT(30), <1>1, <1>2, ConcatProperties, ZenonT(60)
    <2>2. Len(a) + Len(b) = Len(s)
        BY <1>1, <1>2, <1>3
    <2> QED
        BY Zenon, <1>1, <2>1, <2>2
<1>5. \A i \in 1..Len(s) : (a \o b)[i] = s[i]
    BY <1>1, <1>2, <1>3, <1>4
<1>6. a \o b = s
    BY <1>4, <1>5, SeqEqual, Zenon
<1> QED
    BY Zenon, <1>1, <1>2, <1>6 DEF a, b

\* Taking the first line out of the buffer takes it from what is still to come.
LEMMA TailKeeps ==
    ASSUME NEW a \in Seq(Lines), NEW b \in Seq(Lines), a # <<>>
    PROVE  /\ Tail(a) \in Seq(Lines) /\ Len(a \o b) >= 1 /\ Head(a) = (a \o b)[1]
           /\ Tail(a) \o b = SubSeq(a \o b, 2, Len(a \o b))
<1>1. /\ Tail(a) \in Seq(Lines) /\ Len(Tail(a)) = Len(a) - 1 /\ Len(a) >= 1
      /\ \A i \in 1..(Len(a) - 1) : Tail(a)[i] = a[i + 1]
    OBVIOUS
<1>2. Len(a \o b) = Len(a) + Len(b) /\ a \o b \in Seq(Lines)
    OBVIOUS
<1> DEFINE l == Tail(a) \o b
           r == SubSeq(a \o b, 2, Len(a \o b))
<1>3. l \in Seq(Lines) /\ Len(l) = Len(a) + Len(b) - 1
    BY <1>1
<1>4. r \in Seq(Lines) /\ Len(r) = Len(a) + Len(b) - 1
    BY <1>1, <1>2
<1>5. \A i \in 1..(Len(a) + Len(b) - 1) : l[i] = (a \o b)[i + 1]
    BY <1>1, <1>2
<1>6. \A i \in 1..(Len(a) + Len(b) - 1) : r[i] = (a \o b)[i + 1]
    BY <1>1, <1>2
<1> HIDE DEF l, r
<1>7. l = r
    BY Zenon, <1>3, <1>4, <1>5, <1>6, SeqEqual
<1> QED
    BY <1>1, <1>2, <1>7 DEF l, r

\* The rest after i lines, and after one more.
LEMMA SuffixFacts ==
    ASSUME reply \in Seq(Lines), NEW i \in 0..Len(reply)
    PROVE  /\ Suffix(i) \in Seq(Lines) /\ Len(Suffix(i)) = Len(reply) - i
           /\ Len(Suffix(i)) >= 1 =>
                 /\ Suffix(i)[1] = reply[i + 1]
                 /\ SubSeq(Suffix(i), 2, Len(Suffix(i))) = Suffix(i + 1)
<1> DEFINE s == SubSeq(reply, i + 1, Len(reply))
<1>1. /\ s \in Seq(Lines) /\ Len(s) = Len(reply) - i
      /\ \A j \in 1..(Len(reply) - i) : s[j] = reply[i + j]
    OBVIOUS
<1>2. Suffix(i) = s
    BY DEF Suffix
<1> HIDE DEF s
<1>3. ASSUME Len(s) >= 1
      PROVE  SubSeq(s, 2, Len(s)) = Suffix(i + 1)
    <2> DEFINE l == SubSeq(s, 2, Len(s))
               r == SubSeq(reply, i + 2, Len(reply))
    <2>1. l \in Seq(Lines) /\ Len(l) = Len(reply) - i - 1
        BY <1>1, <1>3
    <2>2. r \in Seq(Lines) /\ Len(r) = Len(reply) - i - 1
        BY <1>1, <1>3
    <2>3. \A j \in 1..(Len(reply) - i - 1) : l[j] = reply[i + 1 + j] /\ r[j] = reply[i + 1 + j]
        BY <1>1, <1>3
    <2>4. Suffix(i + 1) = r
        BY DEF Suffix
    <2> HIDE DEF l, r
    <2>5. l = r
        BY <2>1, <2>2, <2>3, SeqEqual, Zenon
    <2> QED
        BY <2>4, <2>5 DEF l
<1> QED
    BY <1>1, <1>2, <1>3

-----------------------------------------------------------------------------
\* A failure ends the call without a tunnel.
LEMMA FailIntact ==
    ASSUME TunnelInv, NEW e \in {"InvalidUrl", "Io", "Timeout", "HttpConnect"}, Fail(e),
           UNCHANGED <<route, reply, closes>>, Streams', Clocks'
    PROVE  TunnelInv'
<1>1. phase' = "done" /\ result' # "open"
    BY DEF Fail
<1> QED
    BY Zenon, <1>1 DEF TunnelInv, Position, Before, TunnelIntact

\* Entering a phase from one that is not reading: the tunnel, where there is one, is as the
\* headers left it.
LEMMA EnterIntact ==
    ASSUME TunnelInv, Clocks', phase \in Opaque \union {"start"},
           Enter(After(phase)),
           UNCHANGED <<route, reply, closes, buf, socket>>
    PROVE  TunnelInv'
<1> DEFINE p == After(phase)
<1>1. /\ p \in Before => phase \in Before
      /\ p # "headers"
      /\ p = "tcp" => route = "direct"
      /\ p = "socks" => route = "socks5"
      /\ p \in {"tls", "ws", "done"} => phase \in {"tls", "ws"} \/ route \in {"direct", "socks5"}
    BY AfterFacts DEF TunnelInv, Clocks, Position, Opaque, Before
<1>2. phase' = p /\ result' = IF p = "done" THEN "open" ELSE result
    BY DEF Enter
<1> HIDE DEF p
<1>3. phase # "done" /\ result # "open"
    BY DEF TunnelInv, Position, Opaque
<1>4. Position' /\ Streams'
    BY <1>1, <1>2, <1>3 DEF TunnelInv, Position, Streams, Before
<1>5. TunnelIntact'
    <2> SUFFICES ASSUME route \in {"http", "https"}, phase' \in {"tls", "ws"} \/ result' = "open"
                 PROVE  TunnelIntact'
        BY SMTT(30) DEF TunnelIntact
    <2>1. phase \in {"tls", "ws"}
        BY <1>1, <1>2, <1>3
    <2> QED
        BY <2>1, Zenon DEF TunnelInv, TunnelIntact, Suffix
<1> QED
    BY SMTT(30), <1>4, <1>5 DEF TunnelInv

\* A read moves lines from the socket to the buffer.
LEMMA FillIntact ==
    ASSUME TunnelInv, Clocks', Fill
    PROVE  TunnelInv'
<1>1. PICK k \in 1..Len(socket) : /\ buf' = SubSeq(socket, 1, k)
                                /\ socket' = SubSeq(socket, k + 1, Len(socket))
    BY DEF Fill
<1>2. buf = <<>> /\ phase \in {"status", "headers"}
      /\ UNCHANGED <<phase, route, reply, closes, result>>
    BY DEF Fill, Reading, setting
<1>3. socket \in Seq(Lines)
    BY DEF TunnelInv, Streams
<1>4. buf' \in Seq(Lines) /\ socket' \in Seq(Lines) /\ buf' \o socket' = socket
    BY <1>1, <1>3, CutKeeps
<1>5. buf \o socket = socket
    BY <1>2, <1>3
<1>6. buf' \o socket' = buf \o socket
    BY <1>4, <1>5
<1>7. Position' /\ Streams'
    BY <1>2, <1>4, <1>6, Zenon DEF TunnelInv, Streams, Position, ReadUpTo, Suffix
<1>8. result # "open"
    BY <1>2 DEF TunnelInv, Position
<1>9. TunnelIntact'
    BY <1>2, <1>8 DEF TunnelIntact
<1> QED
    BY <1>7, <1>9 DEF TunnelInv

\* A line taken from the buffer is the next one of the reply.
LEMMA LineTaken ==
    ASSUME Streams, NEW i \in 0..Len(reply), buf \o socket = Suffix(i), buf # <<>>,
           buf' = Tail(buf), socket' = socket, reply' = reply
    PROVE  /\ i + 1 \in DOMAIN reply /\ Head(buf) = reply[i + 1]
           /\ buf' \o socket' = Suffix(i + 1) /\ Streams'
<1> DEFINE s == buf \o socket
<1>1. /\ buf' \in Seq(Lines) /\ Len(s) >= 1 /\ Head(buf) = s[1]
      /\ buf' \o socket = SubSeq(s, 2, Len(s))
    BY SMTT(30), TailKeeps DEF Streams
<1>2. s = Suffix(i)
    OBVIOUS
<1> HIDE DEF s
<1>3. /\ Len(s) = Len(reply) - i /\ s[1] = reply[i + 1]
      /\ SubSeq(s, 2, Len(s)) = Suffix(i + 1)
    BY SMTT(30), <1>1, <1>2, SuffixFacts DEF Streams
<1>4. Len(reply) \in Nat /\ DOMAIN reply = 1..Len(reply)
    BY DEF Streams
<1>5. i + 1 \in DOMAIN reply /\ Head(buf) = reply[i + 1]
    BY <1>1, <1>3, <1>4
<1>6. buf' \o socket' = Suffix(i + 1)
    BY <1>1, <1>3, Zenon
<1>7. Streams'
    BY <1>1 DEF Streams
<1> QED
    BY <1>5, <1>6, <1>7

\* The status line: only a 200 leads to the headers.
LEMMA StatusIntact ==
    ASSUME TunnelInv, Clocks', ReadStatus
    PROVE  TunnelInv'
<1>1. phase = "status" /\ UNCHANGED <<socket, route, reply, closes>> /\ buf \o socket = reply
      /\ Streams
    BY DEF ReadStatus, setting, TunnelInv, Position, Before
<1>2. ASSUME NEW e \in {"Io", "HttpConnect"}, Fail(e), UNCHANGED buf PROVE TunnelInv'
    <2>1. Streams'
        BY <1>1, <1>2 DEF Streams
    <2> QED
        BY <1>1, <1>2, <2>1, FailIntact
<1>3. CASE buf # <<>> /\ buf' = Tail(buf)
    <2>1. Suffix(0) = reply
        BY SMTT(30), <1>1, SubSeqFull DEF Suffix, Streams
    <2>2. /\ 0 + 1 \in DOMAIN reply /\ Head(buf) = reply[0 + 1]
          /\ buf' \o socket' = Suffix(0 + 1) /\ Streams'
        <3>1. 0 \in 0..Len(reply)
            BY <1>1 DEF Streams
        <3>2. buf \o socket = Suffix(0)
            BY <1>1, <2>1
        <3> QED
            BY SMTT(30), <1>1, <1>3, <3>1, <3>2, LineTaken
    <2>3. CASE Head(buf) = "200" /\ phase' = "headers" /\ UNCHANGED result
        <3>1. reply[1] = "200" /\ 1 \in DOMAIN reply /\ buf' \o socket' = Suffix(1)
            BY <2>2, <2>3
        <3>2. ReadUpTo(1)'
            <4>1. \A j \in 1..1 : reply[j] # "blank"
                BY <3>1
            <4>2. Suffix(1)' = Suffix(1)
                BY <1>1 DEF Suffix
            <4> QED
                BY <1>1, <3>1, <4>1, <4>2 DEF ReadUpTo
        <3>3. result # "open"
            BY <1>1 DEF TunnelInv, Position
        <3>4. Position'
            BY SMTT(30), <1>1, <2>3, <3>1, <3>2, <3>3 DEF Position, Before
        <3>5. TunnelIntact'
            BY <2>3, <3>3 DEF TunnelIntact
        <3> QED
            BY <2>2, <3>4, <3>5 DEF TunnelInv
    <2> QED
        <3>1. ASSUME NEW e \in {"Io", "HttpConnect"}, Fail(e) PROVE TunnelInv'
            BY <1>1, <2>2, <3>1, FailIntact
        <3> QED
            BY Zenon, <2>3, <3>1 DEF ReadStatus, is_ok_status
<1> QED
    BY Zenon, <1>2, <1>3 DEF ReadStatus

\* A header line is one more that is not blank.
LEMMA HeaderIntact ==
    ASSUME TunnelInv, Clocks', ReadHeader
    PROVE  TunnelInv'
<1>0. CASE Fail("Io") /\ UNCHANGED buf
    <2>1. phase = "headers" /\ UNCHANGED <<socket, route, reply, closes>> /\ Streams
        BY DEF ReadHeader, setting, TunnelInv
    <2>2. Streams'
        BY <1>0, <2>1 DEF Streams
    <2> QED
        BY <1>0, <2>1, <2>2, FailIntact
<1> SUFFICES ASSUME buf # <<>>, Head(buf) # "blank", buf' = Tail(buf),
                    Fail("HttpConnect") \/ UNCHANGED <<phase, result>>
             PROVE  TunnelInv'
    BY Zenon, <1>0 DEF ReadHeader
<1>1. /\ phase = "headers" /\ UNCHANGED <<socket, route, reply, closes>> /\ Streams
      /\ buf # <<>> /\ Head(buf) # "blank" /\ buf' = Tail(buf)
      /\ reply[1] = "200" /\ result # "open"
    BY DEF ReadHeader, setting, TunnelInv, Position
<1>2. PICK i \in Nat : ReadUpTo(i)
    BY <1>1 DEF TunnelInv, Position
<1>3. i \in 0..Len(reply) /\ buf \o socket = Suffix(i)
    BY SMTT(30), <1>1, <1>2 DEF ReadUpTo, Streams
<1>4. /\ i + 1 \in DOMAIN reply /\ Head(buf) = reply[i + 1]
      /\ buf' \o socket' = Suffix(i + 1) /\ Streams'
    BY SMTT(30), <1>1, <1>3, LineTaken
<1>5. CASE Fail("HttpConnect")
    BY <1>1, <1>4, <1>5, FailIntact
<1>6. CASE UNCHANGED <<phase, result>>
    <2>1. ReadUpTo(i + 1)'
        <3>1. \A j \in 1..(i + 1) : reply[j] # "blank"
            BY <1>1, <1>2, <1>4 DEF ReadUpTo
        <3>2. Suffix(i + 1)' = Suffix(i + 1)
            BY <1>1 DEF Suffix
        <3> QED
            BY SMTT(30), <1>1, <1>4, <3>1, <3>2 DEF ReadUpTo
    <2>2. \E n \in Nat : ReadUpTo(n)'
        BY SMTT(30), <2>1
    <2>3. Position'
        BY <1>1, <1>6, <2>2 DEF Position, Before
    <2>4. TunnelIntact'
        BY <1>1, <1>6 DEF TunnelIntact
    <2> QED
        BY SMTT(30), <1>4, <2>3, <2>4 DEF TunnelInv
<1> QED
    BY <1>5, <1>6

\* The end of the headers makes the tunnel: what is left is all after the blank line.
LEMMA HeadersEndIntact ==
    ASSUME TunnelInv, Clocks', HeadersEnd
    PROVE  TunnelInv'
<1>1. /\ phase = "headers" /\ UNCHANGED <<socket, route, reply, closes>> /\ Streams
      /\ reply[1] = "200" /\ result # "open"
    BY DEF HeadersEnd, setting, TunnelInv, Position
<1>2. PICK i \in Nat : ReadUpTo(i)
    BY <1>1 DEF TunnelInv, Position
<1>3. i \in 0..Len(reply) /\ buf \o socket = Suffix(i) /\ reply # <<>>
    BY <1>1, <1>2 DEF ReadUpTo, Streams
<1>4. phase' \in {"tls", "ws"} /\ result' = result
    <2>1. After("headers") \in {"tls", "ws"} /\ Enter(After("headers"))
        BY AfterFacts DEF TunnelInv, Clocks, HeadersEnd
    <2> QED
        BY <2>1 DEF Enter
<1>5. Position'
    BY <1>1, <1>4 DEF Position, Before
<1>6. CASE Eof /\ UNCHANGED buf
    <2>1. closes /\ buf \o socket = <<>>
        BY SMTT(30), <1>6 DEF Eof
    <2>2. TunnelIntact'
        BY SMTT(30), <1>1, <1>3, <1>6, <2>1 DEF TunnelIntact
    <2>3. Streams'
        BY <1>1, <1>6 DEF Streams
    <2> QED
        BY <1>5, <2>2, <2>3 DEF TunnelInv
<1>7. CASE buf # <<>> /\ Head(buf) = "blank" /\ buf' = Tail(buf)
    <2>1. /\ i + 1 \in DOMAIN reply /\ Head(buf) = reply[i + 1]
          /\ buf' \o socket' = Suffix(i + 1) /\ Streams'
        BY SMTT(30), <1>1, <1>3, <1>7, LineTaken
    <2>2. Suffix(i + 1)' = Suffix(i + 1)
        BY <1>1 DEF Suffix
    <2>3. reply[i + 1] = "blank" /\ \A j \in 1..((i + 1) - 1) : reply[j] # "blank"
        BY SMTT(30), <1>2, <1>7, <2>1 DEF ReadUpTo
    <2>4. \E n \in DOMAIN reply : /\ reply[n] = "blank"
                                  /\ \A j \in 1..(n - 1) : reply[j] # "blank"
                                  /\ buf' \o socket' = Suffix(n)'
        BY SMTT(30), <2>1, <2>2, <2>3
    <2>5. TunnelIntact'
        BY SMTT(30), <1>1, <1>3, <2>4 DEF TunnelIntact
    <2> QED
        BY SMTT(30), <1>5, <2>1, <2>5 DEF TunnelInv
<1> QED
    BY <1>6, <1>7 DEF HeadersEnd

\* The tunnel stays as it was handed over.
LEMMA NextIntact == TimeInv /\ TunnelInv /\ [TunnelNext]_tunnelVars => TunnelInv'
<1> SUFFICES ASSUME TimeInv, TunnelInv, [TunnelNext]_tunnelVars PROVE TunnelInv'
    OBVIOUS
<1>1. Clocks'
    BY NextTimely DEF TimeInv
<1>2. CASE Start
    <2>1. UNCHANGED <<route, reply, closes, buf, socket>> /\ phase = "start" /\ Streams'
        BY <1>2 DEF Start, setting, TunnelInv, Streams
    <2> QED
        BY SMTT(30), <1>1, <1>2, <2>1, EnterIntact, FailIntact DEF Start
<1>3. CASE PhaseDone
    BY SMTT(30), <1>1, <1>3, EnterIntact DEF PhaseDone, setting
<1>4. CASE PhaseFails \/ Expire
    <2>1. UNCHANGED <<route, reply, closes, buf, socket>> /\ Streams'
        BY <1>4 DEF PhaseFails, Expire, setting, TunnelInv, Streams
    <2> QED
        BY SMTT(30), <1>1, <1>4, <2>1, FailIntact DEF PhaseFails, Expire
<1>5. CASE Tick \/ TunnelDone \/ UNCHANGED tunnelVars
    <2>1. UNCHANGED <<phase, route, wss, reply, closes, buf, socket, result>>
        BY <1>5 DEF Tick, TunnelDone, tunnelVars, setting
    <2> QED
        BY <1>1, <2>1, Zenon DEF TunnelInv, Streams, Position, ReadUpTo, Suffix,
                          TunnelIntact
<1> QED
    BY SMTT(30), <1>1, <1>2, <1>3, <1>4, <1>5, FillIntact, StatusIntact, HeaderIntact, HeadersEndIntact
    DEF TunnelNext

\* A CONNECT tunnel exists only behind a 200, and its first byte is the first one after the
\* blank line, for every reply and however it is cut into reads.
THEOREM TunnelStaysIntact == TunnelSpec => []TunnelIntact
<1>1. TunnelInit => TunnelInv
    <2> SUFFICES ASSUME TunnelInit PROVE TunnelInv
        OBVIOUS
    <2>1. Streams /\ buf = <<>> /\ socket = reply
        BY LimitsAssumption DEF TunnelInit, Streams, Lines
    <2>2. buf \o socket = reply
        BY <2>1 DEF Streams
    <2>3. Clocks
        BY InitTimely DEF TimeInv
    <2> QED
        BY <2>1, <2>2, <2>3 DEF TunnelInit, TunnelInv, Position, TunnelIntact
<1>2. TunnelInv => TunnelIntact
    BY DEF TunnelInv
<1> QED
    BY <1>1, <1>2, InitTimely, NextTimely, NextIntact, PTL DEF TunnelSpec
=============================================================================
