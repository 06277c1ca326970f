---------------------- MODULE PartitionSchedulerProofs ----------------------
(***************************************************************************)
(* Proofs about PartitionScheduler.                                        *)
(*                                                                         *)
(* The selection of a batch is two recursive functions, over the           *)
(* candidates of a page and over the tenants of the window.  UpTo is the   *)
(* induction both need, stated for a set of positions; RecursionExists     *)
(* shows that the functions exist, so that they satisfy their equations.   *)
(***************************************************************************)
EXTENDS PartitionScheduler, FiniteSetTheorems, SequenceTheorems, TLAPS

-----------------------------------------------------------------------------
(* Induction and recursion over positions.                                 *)

\* What holds at 0 and at every position whose predecessor has it holds up to N.
LEMMA UpTo ==
    ASSUME NEW N \in Nat, NEW T, 0 \in T, \A i \in 1..N : i - 1 \in T => i \in T
    PROVE  \A i \in 0..N : i \in T
<1> DEFINE Bad == (0..N) \ T
           R == OpToRel(<, Nat)
<1>1. IsWellFoundedOn(R, Nat)
  BY NatLessThanWellFounded
<1>2. \A m, n \in Nat : m < n => <<m, n>> \in R
  BY DEF OpToRel
<1> HIDE DEF R
<1>3. Bad \subseteq Nat
  OBVIOUS
<1>4. SUFFICES ASSUME Bad # {}
               PROVE  FALSE
  OBVIOUS
<1>5. PICK n \in Bad : \A m \in Bad : ~(<<m, n>> \in R)
  <2> HIDE DEF Bad
  <2> QED
    BY <1>1, <1>3, <1>4, WFMin
<1>6. n \in 1..N /\ n - 1 \in 0..N /\ n \in Nat /\ n - 1 \in Nat
  BY <1>5
<1>7. <<n - 1, n>> \in R
  BY <1>2, <1>6
<1>8. n - 1 \in T
  BY <1>5, <1>6, <1>7
<1> QED
  BY <1>5, <1>6, <1>8

\* A function defined by recursion on positions exists and stays in the set its
\* steps stay in.
LEMMA RecursionExists ==
    ASSUME NEW S, NEW base \in S, NEW N \in Nat, NEW step \in [(1..N) \X S -> S]
    PROVE  \E f \in [0..N -> S] : f[0] = base /\ \A i \in 1..N : f[i] = step[<<i, f[i-1]>>]
<1> DEFINE Good(n) == \E f \in [0..n -> S] : f[0] = base /\ \A i \in 1..n : f[i] = step[<<i, f[i-1]>>]
           T == {n \in 0..N : Good(n)}
<1>1. Good(0)
  <2> DEFINE f == [i \in 0..0 |-> base]
  <2>1. f \in [0..0 -> S] /\ f[0] = base
    OBVIOUS
  <2>2. \A i \in 1..0 : f[i] = step[<<i, f[i-1]>>]
    OBVIOUS
  <2> HIDE DEF f
  <2> QED
    BY <2>1, <2>2
<1>2. ASSUME NEW n \in 1..N, Good(n - 1)
      PROVE  Good(n)
  <2>1. PICK f \in [0..(n-1) -> S] : f[0] = base /\ \A i \in 1..(n-1) : f[i] = step[<<i, f[i-1]>>]
    BY <1>2
  <2> DEFINE x == step[<<n, f[n-1]>>]
             g == [i \in 0..n |-> IF i = n THEN x ELSE f[i]]
  <2>2. x \in S
    OBVIOUS
  <2>3. g \in [0..n -> S]
    <3> HIDE DEF x
    <3> QED
      BY <2>2
  <2>4. g[0] = base
    BY <2>1
  <2>5. \A i \in 1..n : g[i] = step[<<i, g[i-1]>>]
    <3> SUFFICES ASSUME NEW i \in 1..n
                 PROVE  g[i] = step[<<i, g[i-1]>>]
      OBVIOUS
    <3>1. CASE i = n
      <4>1. g[i] = x /\ g[i-1] = f[n-1]
        BY <3>1
      <4> QED
        BY <3>1, <4>1
    <3>2. CASE i # n
      <4>1. i \in 1..(n-1) /\ g[i] = f[i] /\ g[i-1] = f[i-1]
        BY <3>2
      <4> QED
        BY <2>1, <4>1
    <3> QED
      BY <3>1, <3>2
  <2> HIDE DEF g
  <2> QED
    BY <2>3, <2>4, <2>5
<1>3. Good(N)
  <2> HIDE DEF Good
  <2>1. 0 \in T /\ \A i \in 1..N : i - 1 \in T => i \in T
    BY <1>1, <1>2
  <2>2. \A i \in 0..N : i \in T
    <3> HIDE DEF T
    <3> QED
      BY <2>1, UpTo
  <2> QED
    BY <2>2
<1> QED
  BY <1>3

-----------------------------------------------------------------------------
(* Tenants are numbers: a set of them has a least and a greatest member.   *)

\* A non-empty set of tenants has a greatest member, which Max is.
LEMMA MaxIsGreatest ==
    ASSUME NEW S, S \subseteq Tenants, S # {}
    PROVE  Max(S) \in S /\ \A u \in S : u <= Max(S)
<1> DEFINE T == {k \in 0..NTenants : (\E t \in S : t <= k) => \E t \in S : t <= k /\ \A u \in S : u <= k => u <= t}
<1>0. NTenants \in Nat /\ S \subseteq 1..NTenants
  BY SchedulerAssumption DEF Tenants
<1>1. 0 \in T /\ \A i \in 1..NTenants : i - 1 \in T => i \in T
  <2>1. 0 \in T
    BY <1>0
  <2>2. ASSUME NEW i \in 1..NTenants, i - 1 \in T
        PROVE  i \in T
    <3>1. CASE i \in S
      BY <1>0, <3>1
    <3>2. CASE i \notin S
      <4>1. \A t \in S : t <= i <=> t <= i - 1
        BY <1>0, <3>2
      <4> QED
        BY <1>0, <2>2, <4>1
    <3> QED
      BY <3>1, <3>2
  <2> HIDE DEF T
  <2> QED
    BY <2>1, <2>2
<1>2. \A i \in 0..NTenants : i \in T
  <2> HIDE DEF T
  <2> QED
    BY <1>0, <1>1, UpTo
<1>3. \E t \in S : \A u \in S : u <= t
  <2>1. NTenants \in T
    <3> HIDE DEF T
    <3> QED
      BY <1>0, <1>2
  <2>2. \A u \in S : u <= NTenants
    BY <1>0
  <2> QED
    BY <2>1, <2>2
<1>4. \E t \in S : \A u \in S : t >= u
  BY <1>0, <1>3
<1>5. Max(S) \in S /\ \A u \in S : Max(S) >= u
  BY <1>4 DEF Max
<1> QED
  BY <1>0, <1>5

\* A non-empty set of tenants has a least member.
LEMMA LeastTenant ==
    ASSUME NEW S, S \subseteq Tenants, S # {}
    PROVE  \E t \in S : \A u \in S : t <= u
<1> DEFINE R == OpToRel(<, Nat)
<1>0. S \subseteq Nat
  BY SchedulerAssumption DEF Tenants
<1>1. IsWellFoundedOn(R, Nat)
  BY NatLessThanWellFounded
<1>2. \A m, n \in Nat : m < n => <<m, n>> \in R
  BY DEF OpToRel
<1> HIDE DEF R
<1>3. PICK n \in S : \A m \in S : ~(<<m, n>> \in R)
  BY <1>0, <1>1, WFMin
<1>4. ASSUME NEW m \in S
      PROVE  n <= m
  <2>1. m \in Nat /\ n \in Nat /\ ~(m < n)
    BY <1>0, <1>2, <1>3
  <2> QED
    BY <2>1
<1> QED
  BY <1>3, <1>4

-----------------------------------------------------------------------------
(* The invariant.                                                          *)

\* A row without a sweep under way keeps no bounds of an earlier one.
SweepsRest == \A t \in Tenants : tenant[t].sweep.ongoing \/ tenant[t].sweep = NoSweep

\* A queue holds stored Jobs, each once, and finitely many Jobs are stored.
QueuesAreIndexes ==
    /\ \A t \in Tenants : \A i, k \in DOMAIN queue[t] : queue[t][i] = queue[t][k] => i = k
    /\ \A t \in Tenants : \A i \in DOMAIN queue[t] : job[queue[t][i]] # "absent"
    /\ IsFiniteSet({j \in Jobs : job[j] # "absent"})

\* The tenants visited are the eligible ones up to the cursor; once the bound of
\* the round is frozen, nobody beyond it is eligible.
RoundPart ==
    /\ missed = {}
    /\ \A t \in visited : t <= partition.cursor
    /\ \A t \in Eligible : t <= partition.cursor => t \in visited
    /\ partition.upper # NoTenant => \A t \in Eligible : t <= partition.upper

SchedulerInvariant ==
    /\ TypeOK
    /\ StoredRowsAreUsable
    /\ SweepsRest
    /\ QueuesAreIndexes
    /\ QuotaIsKept
    /\ RoundPart

-----------------------------------------------------------------------------
(* The selection is well defined.                                          *)

\* What the visit of a tenant works on, and what the selection works on.
VisitState ==
    [admitted : SUBSET Jobs, remaining : [Accounts -> Int], row : TenantSchedulerState,
     business : Nat, control : Nat]

BatchState ==
    [admitted : SUBSET Jobs, remaining : [Accounts -> Int],
     tenants : [Tenants -> TenantSchedulerState]]

\* A page holds Jobs of its tenant, each once.
LEMMA PageFacts ==
    ASSUME TypeOK, StoredRowsAreUsable, QueuesAreIndexes, NEW t \in Tenants
    PROVE  /\ Len(page(t)) \in Nat /\ page(t) \in Seq(Jobs)
           /\ \A i \in 1..Len(page(t)) : page(t)[i] \in Jobs /\ owner[page(t)[i]] = t
           /\ \A i, k \in 1..Len(page(t)) : page(t)[i] = page(t)[k] => i = k
<1> DEFINE sweep == current_sweep(t)
           lo == sweep.after + 1
           hi == IF sweep_exhausted(t) THEN sweep.upper ELSE sweep.after + MaxRows
<1>1. queue[t] \in Seq(Jobs) /\ Len(queue[t]) \in Nat /\ DOMAIN queue[t] = 1..Len(queue[t])
  BY DEF TypeOK
<1>2. sweep.after \in Nat /\ sweep.upper \in Nat /\ sweep.after <= sweep.upper /\ sweep.upper <= Len(queue[t])
  <2>1. tenant[t].sweep \in [ongoing : BOOLEAN, upper : Nat, after : Nat]
    BY DEF TypeOK, TenantSchedulerState
  <2> QED
    BY <1>1, <2>1 DEF StoredRowsAreUsable, current_sweep
<1>3. MaxRows \in Nat
  BY SchedulerAssumption
<1>4. lo \in Nat /\ hi \in Nat /\ 1 <= lo /\ hi <= Len(queue[t])
  BY <1>2, <1>3 DEF sweep_exhausted
<1>5. page(t) = SubSeq(queue[t], lo, hi)
  BY DEF page
<1> HIDE DEF lo, hi, sweep
<1>6. \A i \in lo..hi : i \in DOMAIN queue[t] /\ queue[t][i] \in Jobs
  <2>1. \A i \in lo..hi : i \in 1..Len(queue[t])
    BY <1>1, <1>4
  <2> QED
    BY <1>1, <2>1
<1>7. /\ page(t) \in Seq(Jobs)
      /\ Len(page(t)) = IF lo <= hi THEN hi - lo + 1 ELSE 0
      /\ \A i \in 1..(hi - lo + 1) : page(t)[i] = queue[t][lo + i - 1]
  BY <1>4, <1>5, <1>6, SubSeqProperties
<1>8. \A i \in 1..Len(page(t)) : lo + i - 1 \in lo..hi /\ page(t)[i] = queue[t][lo + i - 1]
  BY <1>4, <1>7
<1>9. \A i \in 1..Len(page(t)) : page(t)[i] \in Jobs /\ owner[page(t)[i]] = t
  BY <1>6, <1>8 DEF TypeOK
<1>10. ASSUME NEW i \in 1..Len(page(t)), NEW k \in 1..Len(page(t)), page(t)[i] = page(t)[k]
       PROVE  i = k
  <2>1. lo + i - 1 = lo + k - 1
    BY <1>6, <1>8, <1>10 DEF QueuesAreIndexes
  <2> QED
    BY <1>4, <2>1
<1>11. Len(page(t)) \in Nat
  BY <1>4, <1>7
<1> QED
  BY <1>7, <1>9, <1>10, <1>11

\* Considering a candidate keeps a visit what it is.
LEMMA ConsiderTypes ==
    ASSUME NEW s \in VisitState, NEW t \in Tenants, NEW j \in Jobs, NEW eligible, NEW limit
    PROVE  consider(s, t, j, eligible, limit) \in VisitState
<1>1. CASE admissible(s, t, j, limit)
  <2>1. accounts_of[j] \subseteq Accounts /\ admitted_attempt_cost(j) \in {0, 1}
    BY SchedulerAssumption DEF admitted_attempt_cost
  <2>2. s.row.deficit \in Nat /\ (IsBusiness(j) => admitted_attempt_cost(j) <= s.row.deficit)
    BY <1>1 DEF admissible, VisitState, TenantSchedulerState
  <2>3. [s.row EXCEPT !.deficit = IF IsBusiness(j) THEN @ - admitted_attempt_cost(j) ELSE @]
           \in TenantSchedulerState
    BY <2>1, <2>2 DEF VisitState, TenantSchedulerState
  <2>4. [a \in Accounts |-> IF a \in accounts_of[j] THEN s.remaining[a] - 1 ELSE s.remaining[a]]
           \in [Accounts -> Int]
    BY DEF VisitState
  <2>5. admit(s, j) \in VisitState
    BY <2>3, <2>4 DEF admit, VisitState
  <2> QED
    BY <2>5 DEF consider
<1>2. CASE ~admissible(s, t, j, limit)
  BY <1>2 DEF consider
<1> QED
  BY <1>1, <1>2

\* The credited row is a row that still passes the checks; it differs from the
\* stored one in the deficit and the credit mark only.
LEMMA CreditTypes ==
    ASSUME TypeOK, StoredRowsAreUsable, NEW t \in Tenants, NEW eligible
    PROVE  LET r == credit(t, eligible) IN
           /\ r \in TenantSchedulerState
           /\ r.policy = tenant[t].policy /\ r.enrolled = tenant[t].enrolled
           /\ r.deficit <= MaxDeficit /\ tenant[t].deficit <= r.deficit
           /\ r.policy = Unbound => r.deficit = 0
           /\ business_policy(t) = Unbound => r = tenant[t]
           /\ business_policy(t) # Unbound => r.deficit <= tenant[t].deficit + business_policy(t).weight
<1>1. tenant[t] \in TenantSchedulerState /\ tenant[t].deficit \in Nat
  BY DEF TypeOK, TenantSchedulerState
<1>2. business_policy(t) # Unbound => business_policy(t).weight \in Nat /\ tenant[t].policy # Unbound
  BY <1>1, SchedulerAssumption DEF business_policy, TenantSchedulerState, Policy
<1>3. MaxDeficit \in Nat
  BY SchedulerAssumption
<1>4. tenant[t].deficit <= MaxDeficit /\ (tenant[t].policy = Unbound => tenant[t].deficit = 0)
  BY DEF StoredRowsAreUsable
<1> DEFINE w == business_policy(t).weight
           d == IF tenant[t].deficit + w < MaxDeficit THEN tenant[t].deficit + w ELSE MaxDeficit
           r == [tenant[t] EXCEPT !.deficit = d, !.credited = TRUE]
<1>5. CASE credit(t, eligible) = tenant[t]
  BY <1>1, <1>2, <1>4, <1>5
<1>6. CASE credit(t, eligible) # tenant[t]
  <2>1. credit(t, eligible) = r /\ business_policy(t) # Unbound
    BY <1>6 DEF credit
  <2>2. d \in Nat /\ d <= MaxDeficit /\ tenant[t].deficit <= d /\ d <= tenant[t].deficit + w
    BY <1>1, <1>2, <1>3, <1>4, <2>1
  <2> HIDE DEF d, w
  <2>3. /\ r \in TenantSchedulerState /\ r.deficit = d
        /\ r.policy = tenant[t].policy /\ r.enrolled = tenant[t].enrolled
    BY <1>1, <2>2 DEF TenantSchedulerState
  <2> HIDE DEF r
  <2> QED
    BY <1>2, <2>1, <2>2, <2>3 DEF w
<1> QED
  BY <1>5, <1>6

\* Opening a visit gives one.
LEMMA OpenTypes ==
    ASSUME TypeOK, StoredRowsAreUsable, NEW batch \in BatchState, NEW t \in Tenants, NEW eligible
    PROVE  open_visit(batch, t, eligible) \in VisitState
<1>1. credit(t, eligible) \in TenantSchedulerState
  BY CreditTypes
<1> QED
  BY <1>1 DEF open_visit, VisitState, BatchState

\* The visits along a page are defined by their equation.
LEMMA VisitSteps ==
    ASSUME TypeOK, StoredRowsAreUsable, QueuesAreIndexes,
           NEW batch \in BatchState, NEW t \in Tenants, NEW eligible, NEW limit
    PROVE  LET f == visit_steps(batch, t, eligible, limit) IN
           /\ f \in [0..Len(page(t)) -> VisitState]
           /\ f[0] = open_visit(batch, t, eligible)
           /\ \A i \in 1..Len(page(t)) : f[i] = consider(f[i - 1], t, page(t)[i], eligible, limit)
<1> DEFINE N == Len(page(t))
           base == open_visit(batch, t, eligible)
           step == [x \in (1..N) \X VisitState |-> consider(x[2], t, page(t)[x[1]], eligible, limit)]
           F == visit_steps(batch, t, eligible, limit)
           Holds(f) == f = [i \in 0..N |-> IF i = 0 THEN base
                                            ELSE consider(f[i - 1], t, page(t)[i], eligible, limit)]
<1>1. N \in Nat /\ base \in VisitState /\ \A i \in 1..N : page(t)[i] \in Jobs
  BY PageFacts, OpenTypes
<1>2. step \in [(1..N) \X VisitState -> VisitState]
  BY <1>1, ConsiderTypes
<1>3. \A i \in 1..N : \A s \in VisitState :
          step[<<i, s>>] = consider(s, t, page(t)[i], eligible, limit)
  OBVIOUS
<1>4. F = CHOOSE f : Holds(f)
  BY DEF visit_steps
<1> HIDE DEF step, base, F, N
<1>5. PICK f \in [0..N -> VisitState] :
          f[0] = base /\ \A i \in 1..N : f[i] = step[<<i, f[i-1]>>]
  BY <1>1, <1>2, RecursionExists
<1>6. \A i \in 1..N : f[i] = consider(f[i - 1], t, page(t)[i], eligible, limit)
  <2>1. \A i \in 1..N : f[i - 1] \in VisitState
    BY <1>1
  <2> QED
    BY <1>3, <1>5, <2>1
<1>7. Holds(f)
  <2>1. DOMAIN f = 0..N
    OBVIOUS
  <2>2. \A i \in 0..N : i = 0 \/ i \in 1..N
    BY <1>1
  <2> QED
    BY <1>5, <1>6, <2>1, <2>2
<1>8. Holds(F)
  <2> HIDE DEF Holds
  <2> QED
    BY <1>4, <1>7
<1>9. F[0] = base /\ \A i \in 1..N : F[i] = consider(F[i - 1], t, page(t)[i], eligible, limit)
  BY <1>1, <1>8
<1>10. \A i \in 0..N : F[i] \in VisitState
  <2> DEFINE T == {i \in 0..N : F[i] \in VisitState}
  <2>1. 0 \in T
    BY <1>1, <1>9
  <2>2. ASSUME NEW i \in 1..N, i - 1 \in T
        PROVE  i \in T
    BY <1>1, <1>9, <2>2, ConsiderTypes
  <2> HIDE DEF T
  <2>3. \A i \in 0..N : i \in T
    BY <1>1, <2>1, <2>2, UpTo
  <2> QED
    BY <2>3 DEF T
<1>11. F \in [0..N -> VisitState]
  BY <1>8, <1>10
<1> QED
  BY <1>9, <1>11 DEF F, N, base

-----------------------------------------------------------------------------
(* What the selection keeps, candidate by candidate.                       *)

\* The admitted Jobs that cost a unit of an account, and those that start an
\* attempt their tenant has to pay for.
Charged(A, a) == {j \in A : a \in accounts_of[j]}
Starts(A, t) == {j \in A : owner[j] = t /\ IsBusiness(j) /\ job[j] # "resumable"}

\* The quota left is what was available minus what the batch costs.
QuotaLeft(s) ==
    \A a \in Accounts :
        /\ s.remaining[a] >= 0
        /\ s.remaining[a] + Cardinality(Charged(s.admitted, a)) <= available_quota[a]

\* The most credit a tenant can spend in a claim.
Credit(t) == tenant[t].deficit + IF tenant[t].policy = Unbound THEN 0 ELSE tenant[t].policy.weight

\* The row r to store for tenant t once the Jobs of A are admitted.
RowPart(r, t, A) ==
    /\ r.policy = tenant[t].policy /\ r.enrolled = tenant[t].enrolled
    /\ r.deficit <= MaxDeficit
    /\ r.policy = Unbound => r.deficit = 0
    /\ Starts(A, t) # {} => tenant[t].policy # Unbound
    /\ Cardinality(Starts(A, t)) + r.deficit <= Credit(t)

\* The visit s of tenant t that the batch was at.
VisitPart(s, batch, t, eligible) ==
    /\ batch.admitted \subseteq s.admitted
    /\ \A j \in s.admitted \ batch.admitted : j \in eligible /\ owner[j] = t
    /\ IsFiniteSet(s.admitted)
    /\ QuotaLeft(s)
    /\ RowPart(s.row, t, s.admitted)

\* The available quota of an account is a number: finitely many Jobs are claimed.
LEMMA AvailableTypes ==
    ASSUME TypeOK, QueuesAreIndexes
    PROVE  available_quota \in [Accounts -> Int]
<1>1. ASSUME NEW a \in Accounts
      PROVE  available_quota[a] \in Int
  <2> DEFINE C == {j \in Jobs : job[j] = "claimed" /\ a \in accounts_of[j]}
  <2>1. C \subseteq {j \in Jobs : job[j] # "absent"}
    OBVIOUS
  <2>2. IsFiniteSet(C)
    BY <2>1, FS_Subset DEF QueuesAreIndexes
  <2>3. Cardinality(C) \in Nat
    BY <2>2, FS_CardinalityType
  <2>4. limit_value[a] \in Nat
    BY SchedulerAssumption
  <2>5. available_quota[a] = limit_value[a] - Cardinality(C)
    BY DEF available_quota
  <2> HIDE DEF C
  <2> QED
    BY <2>3, <2>4, <2>5
<1> QED
  BY <1>1 DEF available_quota

\* What a tenant can spend is a natural number.
LEMMA CreditIsNat ==
    ASSUME TypeOK, NEW t \in Tenants
    PROVE  Credit(t) \in Nat
<1>1. tenant[t].deficit \in Nat /\ tenant[t].policy \in Policies \cup {Unbound}
  BY DEF TypeOK, TenantSchedulerState
<1>2. \A p \in Policies : p.weight \in Nat
  BY SchedulerAssumption DEF Policy
<1> QED
  BY <1>1, <1>2 DEF Credit

\* One more Job in a finite set counts at most one more.
LEMMA OneMore ==
    ASSUME NEW A, NEW B, NEW j, IsFiniteSet(A), B \subseteq A \cup {j}
    PROVE  IsFiniteSet(B) /\ Cardinality(B) \in Nat /\ Cardinality(A) \in Nat
           /\ Cardinality(B) <= Cardinality(A) + 1
<1>1. IsFiniteSet(A \cup {j}) /\ Cardinality(A \cup {j}) <= Cardinality(A) + 1
  <2>1. /\ IsFiniteSet(A \cup {j})
        /\ Cardinality(A \cup {j}) = IF j \in A THEN Cardinality(A) ELSE Cardinality(A) + 1
    BY FS_AddElement
  <2>2. Cardinality(A) \in Nat
    BY FS_CardinalityType
  <2> QED
    BY <2>1, <2>2
<1>2. IsFiniteSet(B) /\ Cardinality(B) <= Cardinality(A \cup {j})
  BY <1>1, FS_Subset
<1>3. Cardinality(A) \in Nat /\ Cardinality(B) \in Nat /\ Cardinality(A \cup {j}) \in Nat
  BY <1>1, <1>2, FS_CardinalityType
<1> QED
  BY <1>1, <1>2, <1>3

\* Admitting a Job takes its accounts' units from the quota left.
LEMMA AdmitQuota ==
    ASSUME TypeOK, QueuesAreIndexes, NEW s \in VisitState, NEW t \in Tenants, NEW j \in Jobs,
           NEW limit, IsFiniteSet(s.admitted), QuotaLeft(s), admissible(s, t, j, limit)
    PROVE  QuotaLeft(admit(s, j))
<1> DEFINE s2 == admit(s, j)
<1>1. s2.admitted = s.admitted \cup {j}
  BY DEF admit
<1>2. s2.remaining = [a \in Accounts |-> IF a \in accounts_of[j] THEN s.remaining[a] - 1 ELSE s.remaining[a]]
  BY DEF admit
<1> HIDE DEF s2
<1>3. ASSUME NEW a \in Accounts
      PROVE  s2.remaining[a] >= 0 /\ s2.remaining[a] + Cardinality(Charged(s2.admitted, a)) <= available_quota[a]
  <2> DEFINE old == Charged(s.admitted, a)
             new == Charged(s2.admitted, a)
  <2>1. IsFiniteSet(old)
    BY FS_Subset DEF Charged
  <2>2. Cardinality(old) \in Nat /\ s.remaining[a] \in Int /\ available_quota[a] \in Int
    BY <2>1, FS_CardinalityType, AvailableTypes DEF VisitState
  <2>3. s.remaining[a] >= 0 /\ s.remaining[a] + Cardinality(old) <= available_quota[a]
    BY DEF QuotaLeft
  <2>4. CASE a \in accounts_of[j]
    <3>1. new \subseteq old \cup {j}
      BY <1>1 DEF Charged
    <3>2. Cardinality(new) \in Nat /\ Cardinality(new) <= Cardinality(old) + 1
      <4> HIDE DEF old, new
      <4> QED
        BY <2>1, <3>1, OneMore
    <3>3. s2.remaining[a] = s.remaining[a] - 1 /\ s.remaining[a] >= 1
      BY <1>2, <2>4 DEF admissible
    <3> HIDE DEF old, new
    <3>4. s2.remaining[a] >= 0 /\ s2.remaining[a] + Cardinality(new) <= available_quota[a]
      BY <2>2, <2>3, <3>2, <3>3
    <3> QED
      BY <3>4 DEF new
  <2>5. CASE a \notin accounts_of[j]
    <3>1. new = old
      BY <1>1, <2>5 DEF Charged
    <3>2. s2.remaining[a] = s.remaining[a]
      BY <1>2, <2>5
    <3> QED
      BY <2>3, <3>1, <3>2
  <2> QED
    BY <2>4, <2>5
<1> QED
  BY <1>3 DEF QuotaLeft, s2

\* Admitting a Job takes the cost of its attempt from its tenant's credit.
LEMMA AdmitRow ==
    ASSUME TypeOK, NEW s \in VisitState, NEW t \in Tenants, NEW j \in Jobs, owner[j] = t,
           NEW limit, IsFiniteSet(s.admitted), RowPart(s.row, t, s.admitted),
           admissible(s, t, j, limit)
    PROVE  RowPart(admit(s, j).row, t, admit(s, j).admitted)
<1> DEFINE A == s.admitted
           A2 == s.admitted \cup {j}
           r == s.row
           d == IF IsBusiness(j) THEN r.deficit - admitted_attempt_cost(j) ELSE r.deficit
           r2 == [r EXCEPT !.deficit = d]
<1>1. admit(s, j).row = r2 /\ admit(s, j).admitted = A2
  BY DEF admit
<1>2. r \in TenantSchedulerState /\ r.deficit \in Nat
  BY DEF VisitState, TenantSchedulerState
<1>3. r2.policy = r.policy /\ r2.enrolled = r.enrolled /\ r2.deficit = d
  BY <1>2 DEF TenantSchedulerState
<1>4. Credit(t) \in Nat /\ MaxDeficit \in Nat
  BY CreditIsNat, SchedulerAssumption
<1>5. IsFiniteSet(Starts(A, t)) /\ Cardinality(Starts(A, t)) \in Nat
  <2>1. Starts(A, t) \subseteq A
    BY DEF Starts
  <2> QED
    BY <2>1, FS_Subset, FS_CardinalityType
<1>6. /\ r.policy = tenant[t].policy /\ r.enrolled = tenant[t].enrolled
      /\ r.deficit <= MaxDeficit /\ (r.policy = Unbound => r.deficit = 0)
      /\ Starts(A, t) # {} => tenant[t].policy # Unbound
      /\ Cardinality(Starts(A, t)) + r.deficit <= Credit(t)
  BY DEF RowPart
<1>7. CASE IsBusiness(j) /\ job[j] # "resumable"
  <2>1. d = r.deficit - 1 /\ 1 <= r.deficit
    BY <1>7 DEF admissible, admitted_attempt_cost
  <2>2. tenant[t].policy # Unbound
    BY <1>7 DEF admissible, business_policy
  <2>3. Starts(A2, t) \subseteq Starts(A, t) \cup {j}
    BY DEF Starts
  <2>4. Cardinality(Starts(A2, t)) \in Nat /\ Cardinality(Starts(A2, t)) <= Cardinality(Starts(A, t)) + 1
    BY <1>5, <2>3, OneMore
  <2> HIDE DEF d, r2, A2, A, r
  <2>5. d <= MaxDeficit /\ Cardinality(Starts(A2, t)) + d <= Credit(t)
    BY <1>2, <1>4, <1>5, <1>6, <2>1, <2>4
  <2> QED
    BY <1>1, <1>3, <1>6, <2>2, <2>5 DEF RowPart
<1>8. CASE ~(IsBusiness(j) /\ job[j] # "resumable")
  <2>1. d = r.deficit
    BY <1>2, <1>8 DEF admitted_attempt_cost
  <2>2. Starts(A2, t) = Starts(A, t)
    BY <1>8 DEF Starts
  <2> HIDE DEF d, r2, A2, A, r
  <2> QED
    BY <1>1, <1>3, <1>6, <2>1, <2>2 DEF RowPart
<1> QED
  BY <1>7, <1>8

\* Every candidate keeps the visit sound.
LEMMA ConsiderKeeps ==
    ASSUME TypeOK, QueuesAreIndexes, NEW s \in VisitState, NEW t \in Tenants,
           NEW j \in Jobs, owner[j] = t, NEW batch, NEW eligible, NEW limit,
           VisitPart(s, batch, t, eligible)
    PROVE  VisitPart(consider(s, t, j, eligible, limit), batch, t, eligible)
<1>1. CASE j \in eligible /\ admissible(s, t, j, limit)
  <2> DEFINE s2 == admit(s, j)
  <2>1. consider(s, t, j, eligible, limit) = s2
    BY <1>1 DEF consider
  <2>2. s2.admitted = s.admitted \cup {j}
    BY DEF admit
  <2>3. IsFiniteSet(s.admitted) /\ QuotaLeft(s) /\ RowPart(s.row, t, s.admitted)
    BY DEF VisitPart
  <2>4. QuotaLeft(s2) /\ RowPart(s2.row, t, s2.admitted)
    BY <1>1, <2>3, AdmitQuota, AdmitRow
  <2>5. IsFiniteSet(s2.admitted)
    BY <2>2, <2>3, FS_AddElement
  <2> HIDE DEF s2
  <2> QED
    BY <1>1, <2>1, <2>2, <2>4, <2>5 DEF VisitPart
<1>2. CASE ~(j \in eligible /\ admissible(s, t, j, limit))
  BY <1>2 DEF consider
<1> QED
  BY <1>1, <1>2

-----------------------------------------------------------------------------
(* What the selection keeps, tenant by tenant.                             *)

\* The batch b once the tenants up to k have been visited.
BatchPart(b, k, eligible) ==
    /\ IsFiniteSet(b.admitted)
    /\ \A j \in b.admitted : j \in eligible /\ owner[j] <= k
    /\ QuotaLeft(b)
    /\ \A t \in Tenants :
          /\ RowPart(b.tenants[t], t, b.admitted)
          /\ b.tenants[t].sweep \in {tenant[t].sweep, next_job_sweep(t)}

\* The next sweep of a row is within the Jobs there are.
LEMMA NextSweep ==
    ASSUME TypeOK, StoredRowsAreUsable, NEW t \in Tenants
    PROVE  LET sweep == next_job_sweep(t) IN
           /\ sweep \in [ongoing : BOOLEAN, upper : Nat, after : Nat]
           /\ sweep.ongoing \/ sweep = NoSweep
           /\ sweep.after <= sweep.upper /\ sweep.upper <= Len(queue[t])
<1> DEFINE sweep == current_sweep(t)
<1>1. Len(queue[t]) \in Nat
  BY DEF TypeOK
<1>2. tenant[t].sweep \in [ongoing : BOOLEAN, upper : Nat, after : Nat]
  BY DEF TypeOK, TenantSchedulerState
<1>3. /\ sweep \in [ongoing : BOOLEAN, upper : Nat, after : Nat] /\ sweep.ongoing
      /\ sweep.after <= sweep.upper /\ sweep.upper <= Len(queue[t])
  BY <1>1, <1>2 DEF StoredRowsAreUsable, current_sweep
<1>4. MaxRows \in Nat
  BY SchedulerAssumption
<1> HIDE DEF sweep
<1>5. CASE sweep_exhausted(t)
  BY <1>1, <1>5 DEF next_job_sweep, NoSweep
<1>6. CASE ~sweep_exhausted(t)
  <2> DEFINE next == [sweep EXCEPT !.after = @ + MaxRows]
  <2>1. next_job_sweep(t) = next
    BY <1>6 DEF next_job_sweep, sweep
  <2>2. sweep.after + MaxRows < sweep.upper
    BY <1>3, <1>4, <1>6 DEF sweep_exhausted, sweep
  <2>3. sweep.after \in Nat /\ sweep.upper \in Nat /\ sweep.ongoing \in BOOLEAN /\ sweep.after + MaxRows \in Nat
    BY <1>3, <1>4
  <2>4. sweep \in [ongoing : BOOLEAN, upper : Nat, after : Nat]
    BY <1>3
  <2>5. next = [ongoing |-> sweep.ongoing, upper |-> sweep.upper, after |-> sweep.after + MaxRows]
    BY ONLY <2>4
  <2>6. /\ next \in [ongoing : BOOLEAN, upper : Nat, after : Nat] /\ next.ongoing = sweep.ongoing
        /\ next.upper = sweep.upper /\ next.after = sweep.after + MaxRows
    BY <2>3, <2>5
  <2> HIDE DEF next
  <2> QED
    BY <1>1, <1>3, <1>4, <2>1, <2>2, <2>6
<1> QED
  BY <1>5, <1>6

\* The visits along the page keep what the batch had.
LEMMA VisitHolds ==
    ASSUME TypeOK, StoredRowsAreUsable, QueuesAreIndexes,
           NEW batch \in BatchState, NEW t \in Tenants, NEW eligible, NEW limit,
           BatchPart(batch, t - 1, eligible)
    PROVE  \A i \in 0..Len(page(t)) :
               VisitPart(visit_steps(batch, t, eligible, limit)[i], batch, t, eligible)
<1> DEFINE N == Len(page(t))
           f == visit_steps(batch, t, eligible, limit)
           T == {i \in 0..N : VisitPart(f[i], batch, t, eligible)}
<1>1. N \in Nat /\ \A i \in 1..N : page(t)[i] \in Jobs /\ owner[page(t)[i]] = t
  BY PageFacts
<1>2. /\ f \in [0..N -> VisitState] /\ f[0] = open_visit(batch, t, eligible)
      /\ \A i \in 1..N : f[i] = consider(f[i - 1], t, page(t)[i], eligible, limit)
  BY VisitSteps
<1>3. VisitPart(open_visit(batch, t, eligible), batch, t, eligible)
  <2> DEFINE s == open_visit(batch, t, eligible)
  <2>1. s.admitted = batch.admitted /\ s.remaining = batch.remaining /\ s.row = credit(t, eligible)
    BY DEF open_visit
  <2>2. Starts(batch.admitted, t) = {}
    <3>1. \A j \in batch.admitted : owner[j] <= t - 1
      BY DEF BatchPart
    <3>2. t \in Nat /\ \A j \in batch.admitted : owner[j] \in Nat
      BY SchedulerAssumption DEF Tenants, BatchState
    <3>3. \A j \in batch.admitted : owner[j] # t
      BY <3>1, <3>2
    <3> QED
      BY <3>3 DEF Starts
  <2>3. RowPart(credit(t, eligible), t, batch.admitted)
    <3> DEFINE r == credit(t, eligible)
    <3>1. /\ r \in TenantSchedulerState
          /\ r.policy = tenant[t].policy /\ r.enrolled = tenant[t].enrolled
          /\ r.deficit <= MaxDeficit /\ (r.policy = Unbound => r.deficit = 0)
          /\ business_policy(t) = Unbound => r = tenant[t]
          /\ business_policy(t) # Unbound => r.deficit <= tenant[t].deficit + business_policy(t).weight
      BY CreditTypes
    <3>2. Cardinality(Starts(batch.admitted, t)) = 0
      BY <2>2, FS_EmptySet
    <3>3. tenant[t].deficit \in Nat /\ r.deficit \in Nat /\ tenant[t].policy \in Policies \cup {Unbound}
      BY <3>1 DEF TypeOK, TenantSchedulerState
    <3>4. \A p \in Policies : p.weight \in Nat /\ p # Unbound
      BY SchedulerAssumption DEF Policy
    <3> HIDE DEF r
    <3>5. r.deficit <= Credit(t)
      <4>1. CASE business_policy(t) = Unbound
        BY <3>1, <3>3, <3>4, <4>1 DEF Credit
      <4>2. CASE business_policy(t) # Unbound
        <5>1. business_policy(t) = tenant[t].policy
          BY <4>2 DEF business_policy
        <5> QED
          BY <3>1, <3>3, <3>4, <4>2, <5>1 DEF Credit
      <4> QED
        BY <4>1, <4>2
    <3>6. Cardinality(Starts(batch.admitted, t)) + r.deficit <= Credit(t)
      BY <3>2, <3>3, <3>5
    <3> QED
      BY <2>2, <3>1, <3>6 DEF RowPart, r
  <2>4. QuotaLeft(s)
    BY <2>1 DEF BatchPart, QuotaLeft
  <2> HIDE DEF s
  <2>5. VisitPart(s, batch, t, eligible)
    BY <2>1, <2>3, <2>4 DEF VisitPart, BatchPart
  <2> QED
    BY <2>5 DEF s
<1> HIDE DEF f, N
<1>4. 0 \in T
  BY <1>1, <1>2, <1>3
<1>5. ASSUME NEW i \in 1..N, i - 1 \in T
      PROVE  i \in T
  <2>1. f[i - 1] \in VisitState /\ VisitPart(f[i - 1], batch, t, eligible)
    BY <1>1, <1>2, <1>5
  <2>2. VisitPart(f[i], batch, t, eligible)
    BY <1>1, <1>2, <2>1, ConsiderKeeps
  <2> QED
    BY <2>2
<1> HIDE DEF T
<1>6. \A i \in 0..N : i \in T
  BY <1>1, <1>4, <1>5, UpTo
<1> QED
  BY <1>6 DEF T, f, N

\* The visit of a tenant, field by field, and that it gives a batch again.
LEMMA VisitTypes ==
    ASSUME TypeOK, StoredRowsAreUsable, QueuesAreIndexes,
           NEW batch \in BatchState, NEW t \in Tenants, NEW eligible, NEW limit
    PROVE  LET b == visit(batch, t, eligible, limit)
               s == visit_steps(batch, t, eligible, limit)[Len(page(t))]
               r == [s.row EXCEPT !.sweep = next_job_sweep(t)]
           IN  /\ s \in VisitState /\ r \in TenantSchedulerState
               /\ b \in BatchState
               /\ b.admitted = s.admitted /\ b.remaining = s.remaining
               /\ b.tenants = [batch.tenants EXCEPT ![t] = r]
<1> DEFINE s == visit_steps(batch, t, eligible, limit)[Len(page(t))]
           r == [s.row EXCEPT !.sweep = next_job_sweep(t)]
<1>1. s \in VisitState
  BY VisitSteps, PageFacts
<1> HIDE DEF s
<1>2. next_job_sweep(t) \in [ongoing : BOOLEAN, upper : Nat, after : Nat]
  BY NextSweep
<1>3. r \in TenantSchedulerState
  BY <1>1, <1>2 DEF VisitState, TenantSchedulerState
<1>4. visit(batch, t, eligible, limit) =
          [admitted |-> s.admitted, remaining |-> s.remaining, tenants |-> [batch.tenants EXCEPT ![t] = r]]
  BY DEF visit, s
<1> HIDE DEF r
<1>5. [batch.tenants EXCEPT ![t] = r] \in [Tenants -> TenantSchedulerState]
  BY <1>3 DEF BatchState
<1> QED
  BY <1>1, <1>3, <1>4, <1>5 DEF BatchState, VisitState, s, r

\* A visit keeps the batch sound.
LEMMA VisitKeeps ==
    ASSUME TypeOK, StoredRowsAreUsable, QueuesAreIndexes,
           NEW batch \in BatchState, NEW t \in Tenants, NEW eligible, NEW limit,
           BatchPart(batch, t - 1, eligible)
    PROVE  BatchPart(visit(batch, t, eligible, limit), t, eligible)
<1> DEFINE b == visit(batch, t, eligible, limit)
           s == visit_steps(batch, t, eligible, limit)[Len(page(t))]
           r == [s.row EXCEPT !.sweep = next_job_sweep(t)]
<1>1. /\ s \in VisitState /\ r \in TenantSchedulerState
      /\ b.admitted = s.admitted /\ b.remaining = s.remaining
      /\ b.tenants = [batch.tenants EXCEPT ![t] = r]
  BY VisitTypes
<1>2. VisitPart(s, batch, t, eligible)
  BY VisitHolds, PageFacts
<1>3. r.policy = s.row.policy /\ r.enrolled = s.row.enrolled /\ r.deficit = s.row.deficit
      /\ r.sweep = next_job_sweep(t)
  BY <1>1 DEF VisitState, TenantSchedulerState
<1> HIDE DEF b, s, r
<1>4. t \in Nat /\ \A j \in Jobs : owner[j] \in Nat
  BY SchedulerAssumption DEF Tenants
<1>5. \A j \in b.admitted : j \in eligible /\ owner[j] <= t
  <2>1. \A j \in s.admitted : (j \in eligible /\ owner[j] = t) \/ (j \in eligible /\ owner[j] <= t - 1)
    BY <1>2 DEF VisitPart, BatchPart
  <2>2. s.admitted \subseteq Jobs
    BY <1>1 DEF VisitState
  <2> QED
    BY <1>1, <1>4, <2>1, <2>2
<1>6. QuotaLeft(b)
  BY <1>1, <1>2 DEF VisitPart, QuotaLeft
<1>7. ASSUME NEW u \in Tenants
      PROVE  RowPart(b.tenants[u], u, b.admitted) /\ b.tenants[u].sweep \in {tenant[u].sweep, next_job_sweep(u)}
  <2>1. CASE u = t
    <3>1. b.tenants[u] = r
      BY <1>1, <2>1 DEF BatchState
    <3>2. RowPart(s.row, t, s.admitted)
      BY <1>2 DEF VisitPart
    <3>3. RowPart(r, t, s.admitted)
      BY <1>3, <3>2 DEF RowPart
    <3> QED
      BY <1>1, <1>3, <2>1, <3>1, <3>3
  <2>2. CASE u # t
    <3>1. b.tenants[u] = batch.tenants[u]
      BY <1>1, <2>2 DEF BatchState
    <3>2. Starts(s.admitted, u) = Starts(batch.admitted, u)
      BY <1>2, <2>2 DEF VisitPart, Starts
    <3>3. RowPart(batch.tenants[u], u, batch.admitted)
          /\ batch.tenants[u].sweep \in {tenant[u].sweep, next_job_sweep(u)}
      BY DEF BatchPart
    <3> QED
      BY <1>1, <3>1, <3>2, <3>3 DEF RowPart
  <2> QED
    BY <2>1, <2>2
<1>8. IsFiniteSet(b.admitted)
  BY <1>1, <1>2 DEF VisitPart
<1>9. BatchPart(b, t, eligible)
  BY <1>5, <1>6, <1>7, <1>8 DEF BatchPart
<1> QED
  BY <1>9 DEF b

\* The batches along the window are defined by their equation.
LEMMA SelectSteps ==
    ASSUME TypeOK, StoredRowsAreUsable, QueuesAreIndexes, NEW eligible, NEW limit
    PROVE  LET f == select_steps(eligible, limit) IN
           /\ f \in [0..NTenants -> BatchState]
           /\ f[0] = [admitted |-> {}, remaining |-> available_quota, tenants |-> tenant]
           /\ \A t \in 1..NTenants :
                 f[t] = IF t \in window THEN visit(f[t - 1], t, eligible, limit) ELSE f[t - 1]
<1> DEFINE base == [admitted |-> {}, remaining |-> available_quota, tenants |-> tenant]
           next(b, t) == IF t \in window THEN visit(b, t, eligible, limit) ELSE b
           step == [x \in (1..NTenants) \X BatchState |-> next(x[2], x[1])]
           F == select_steps(eligible, limit)
           Holds(f) == f = [t \in 0..NTenants |-> IF t = 0 THEN base ELSE next(f[t - 1], t)]
<1>1. NTenants \in Nat /\ Tenants = 1..NTenants
  BY SchedulerAssumption DEF Tenants
<1>2. base \in BatchState
  BY AvailableTypes DEF BatchState, TypeOK
<1>3. ASSUME NEW t \in 1..NTenants, NEW b \in BatchState
      PROVE  next(b, t) \in BatchState
  <2>1. visit(b, t, eligible, limit) \in BatchState
    BY <1>1, VisitTypes
  <2> QED
    BY <2>1
<1>4. F = CHOOSE f : Holds(f)
  BY DEF select_steps
<1> HIDE DEF next, base, F
<1>5. step \in [(1..NTenants) \X BatchState -> BatchState]
  BY <1>3
<1>6. \A t \in 1..NTenants : \A b \in BatchState : step[<<t, b>>] = next(b, t)
  OBVIOUS
<1> HIDE DEF step
<1>7. NTenants \in Nat
  BY <1>1
<1>8. PICK f \in [0..NTenants -> BatchState] :
          f[0] = base /\ \A i \in 1..NTenants : f[i] = step[<<i, f[i-1]>>]
  BY ONLY <1>2, <1>5, <1>7, RecursionExists
<1>9. \A i \in 1..NTenants : f[i] = next(f[i - 1], i)
  <2>1. \A i \in 1..NTenants : f[i - 1] \in BatchState
    BY <1>1
  <2> QED
    BY <1>6, <1>8, <2>1
<1>10. Holds(f)
  <2>1. DOMAIN f = 0..NTenants
    OBVIOUS
  <2>2. \A i \in 0..NTenants : i = 0 \/ i \in 1..NTenants
    BY <1>1
  <2> QED
    BY <1>8, <1>9, <2>1, <2>2
<1>11. Holds(F)
  <2> HIDE DEF Holds
  <2> QED
    BY <1>4, <1>10
<1>12. F[0] = base /\ \A i \in 1..NTenants : F[i] = next(F[i - 1], i)
  BY <1>1, <1>11
<1>13. \A i \in 0..NTenants : F[i] \in BatchState
  <2> DEFINE T == {i \in 0..NTenants : F[i] \in BatchState}
  <2>1. 0 \in T
    BY <1>1, <1>2, <1>12
  <2>2. ASSUME NEW i \in 1..NTenants, i - 1 \in T
        PROVE  i \in T
    BY <1>1, <1>3, <1>12, <2>2
  <2> HIDE DEF T
  <2>3. \A i \in 0..NTenants : i \in T
    BY <1>1, <2>1, <2>2, UpTo
  <2> QED
    BY <2>3 DEF T
<1>14. F \in [0..NTenants -> BatchState]
  BY <1>11, <1>13
<1> QED
  BY <1>12, <1>14 DEF F, base, next

\* Before anyone is visited, nothing is admitted and the rows are the stored ones.
LEMMA NothingSelected ==
    ASSUME TypeOK, StoredRowsAreUsable, QueuesAreIndexes, QuotaIsKept, NEW eligible
    PROVE  BatchPart([admitted |-> {}, remaining |-> available_quota, tenants |-> tenant], 0, eligible)
<1> DEFINE b == [admitted |-> {}, remaining |-> available_quota, tenants |-> tenant]
<1>1. b.admitted = {} /\ b.remaining = available_quota /\ b.tenants = tenant
  OBVIOUS
<1> HIDE DEF b
<1>2. IsFiniteSet(b.admitted) /\ Cardinality({}) = 0
  BY <1>1, FS_EmptySet
<1>3. QuotaLeft(b)
  <2>1. ASSUME NEW a \in Accounts
        PROVE  b.remaining[a] >= 0 /\ b.remaining[a] + Cardinality(Charged(b.admitted, a)) <= available_quota[a]
    <3>1. Charged(b.admitted, a) = {}
      BY <1>1 DEF Charged
    <3>2. available_quota[a] \in Int /\ available_quota[a] >= 0
      BY AvailableTypes DEF QuotaIsKept
    <3> QED
      BY <1>1, <1>2, <3>1, <3>2
  <2> QED
    BY <2>1 DEF QuotaLeft
<1>4. ASSUME NEW t \in Tenants
      PROVE  RowPart(b.tenants[t], t, b.admitted)
  <2>1. Starts(b.admitted, t) = {}
    BY <1>1 DEF Starts
  <2>2. tenant[t].deficit \in Nat /\ tenant[t].policy \in Policies \cup {Unbound}
    BY DEF TypeOK, TenantSchedulerState
  <2>3. \A p \in Policies : p.weight \in Nat
    BY SchedulerAssumption DEF Policy
  <2>4. tenant[t].deficit <= Credit(t) /\ Credit(t) \in Nat
    BY <2>2, <2>3 DEF Credit
  <2>5. Cardinality(Starts(b.admitted, t)) + tenant[t].deficit <= Credit(t)
    BY <1>2, <2>1, <2>2, <2>4
  <2> QED
    BY <1>1, <2>1, <2>5 DEF RowPart, StoredRowsAreUsable
<1>5. BatchPart(b, 0, eligible)
  BY <1>1, <1>2, <1>3, <1>4 DEF BatchPart
<1> QED
  BY <1>5 DEF b

\* After every tenant the batch is sound.
LEMMA SelectHolds ==
    ASSUME TypeOK, StoredRowsAreUsable, QueuesAreIndexes, QuotaIsKept, NEW eligible, NEW limit
    PROVE  \A k \in 0..NTenants : BatchPart(select_steps(eligible, limit)[k], k, eligible)
<1> DEFINE f == select_steps(eligible, limit)
           T == {k \in 0..NTenants : BatchPart(f[k], k, eligible)}
<1>1. NTenants \in Nat /\ Tenants = 1..NTenants
  BY SchedulerAssumption DEF Tenants
<1>2. /\ f \in [0..NTenants -> BatchState]
      /\ f[0] = [admitted |-> {}, remaining |-> available_quota, tenants |-> tenant]
      /\ \A t \in 1..NTenants :
            f[t] = IF t \in window THEN visit(f[t - 1], t, eligible, limit) ELSE f[t - 1]
  BY SelectSteps
<1> HIDE DEF f
<1>3. 0 \in T
  <2>1. BatchPart(f[0], 0, eligible)
    BY <1>2, NothingSelected
  <2> QED
    BY <1>1, <2>1
<1>4. ASSUME NEW t \in 1..NTenants, t - 1 \in T
      PROVE  t \in T
  <2>1. f[t - 1] \in BatchState /\ BatchPart(f[t - 1], t - 1, eligible) /\ t \in Tenants
    BY <1>1, <1>2, <1>4
  <2>2. CASE t \in window
    <3>1. BatchPart(f[t], t, eligible)
      BY <1>2, <2>1, <2>2, VisitKeeps
    <3> QED
      BY <3>1
  <2>3. CASE t \notin window
    <3>1. f[t] = f[t - 1]
      BY <1>2, <2>3
    <3>2. \A j \in f[t].admitted : owner[j] \in Nat /\ owner[j] <= t - 1
      <4>1. f[t].admitted \subseteq Jobs
        BY <2>1, <3>1 DEF BatchState
      <4>2. \A j \in Jobs : owner[j] \in Nat
        BY SchedulerAssumption DEF Tenants
      <4> QED
        BY <2>1, <3>1, <4>1, <4>2 DEF BatchPart
    <3>3. \A j \in f[t].admitted : owner[j] <= t
      BY <3>2
    <3>4. BatchPart(f[t], t, eligible)
      BY <2>1, <3>1, <3>3 DEF BatchPart
    <3> QED
      BY <3>4
  <2> QED
    BY <2>2, <2>3
<1> HIDE DEF T
<1>5. \A k \in 0..NTenants : k \in T
  BY <1>1, <1>3, <1>4, UpTo
<1> QED
  BY <1>5 DEF T, f

\* What any selection, of whatever Jobs are eligible, gives.
LEMMA SelectFacts ==
    ASSUME TypeOK, StoredRowsAreUsable, QueuesAreIndexes, QuotaIsKept, NEW eligible, NEW limit
    PROVE  select(eligible, limit) \in BatchState /\ BatchPart(select(eligible, limit), NTenants, eligible)
<1>1. NTenants \in 0..NTenants
  BY SchedulerAssumption
<1>2. select_steps(eligible, limit) \in [0..NTenants -> BatchState]
  BY SelectSteps
<1>3. select(eligible, limit) \in BatchState
  BY <1>1, <1>2 DEF select
<1>4. BatchPart(select_steps(eligible, limit)[NTenants], NTenants, eligible)
  BY <1>1, SelectHolds
<1> QED
  BY <1>3, <1>4 DEF select

-----------------------------------------------------------------------------
(* The window.                                                             *)

\* The bound a claim works with is at or above every eligible tenant.
LEMMA BoundCoversEligible ==
    ASSUME TypeOK, RoundPart
    PROVE  /\ tenant_upper_bound \in Tenants \cup {NoTenant}
           /\ \A t \in Eligible : tenant_upper_bound # NoTenant /\ t <= tenant_upper_bound
           /\ InRange = {t \in Eligible : partition.cursor < t}
<1>1. Eligible \subseteq Tenants
  BY DEF Eligible
<1>2. partition.upper \in Tenants \cup {NoTenant}
  BY DEF TypeOK, SchedulerPartitionState
<1>3. Eligible # {} => Max(Eligible) \in Eligible /\ \A t \in Eligible : t <= Max(Eligible)
  BY <1>1, MaxIsGreatest
<1>4. NoTenant \notin Tenants
  BY DEF NoTenant, Tenants
<1>5. /\ tenant_upper_bound \in Tenants \cup {NoTenant}
      /\ \A t \in Eligible : tenant_upper_bound # NoTenant /\ t <= tenant_upper_bound
  BY <1>1, <1>2, <1>3, <1>4 DEF tenant_upper_bound, RoundPart
<1> QED
  BY <1>5 DEF InRange

\* When the range is exhausted the window is all of it; otherwise it is a non-empty
\* part of it, and holds every tenant of the range up to its greatest one.
LEMMA WindowFacts ==
    ASSUME TypeOK, RoundPart
    PROVE  /\ window \subseteq InRange /\ InRange \subseteq Tenants
           /\ range_exhausted => window = InRange
           /\ ~range_exhausted => window # {}
           /\ window # {} => /\ Max(window) \in window
                             /\ \A t \in window : t <= Max(window)
                             /\ \A t \in InRange : t <= Max(window) => t \in window
<1> DEFINE Before(t) == {u \in InRange : u < t}
<1>1. InRange \subseteq Tenants /\ \A t \in InRange : t \in Nat
  BY SchedulerAssumption DEF InRange, Eligible, Tenants
<1>2. IsFiniteSet(InRange)
  <2>1. IsFiniteSet(Tenants)
    BY SchedulerAssumption, FS_Interval DEF Tenants
  <2> QED
    BY <1>1, <2>1, FS_Subset
<1>3. MaxTenants \in Nat /\ MaxTenants > 0
  BY SchedulerAssumption
<1>4. Cardinality(InRange) \in Nat
  BY <1>2, FS_CardinalityType
<1>5. \A t \in InRange : /\ IsFiniteSet(Before(t)) /\ Cardinality(Before(t)) \in Nat
                         /\ Cardinality(Before(t)) < Cardinality(InRange)
  <2> SUFFICES ASSUME NEW t \in InRange
               PROVE  /\ IsFiniteSet(Before(t)) /\ Cardinality(Before(t)) \in Nat
                      /\ Cardinality(Before(t)) < Cardinality(InRange)
    OBVIOUS
  <2>1. Before(t) \subseteq InRange /\ Before(t) # InRange
    BY <1>1
  <2> HIDE DEF Before
  <2>2. IsFiniteSet(Before(t)) /\ Cardinality(Before(t)) <= Cardinality(InRange)
        /\ (Cardinality(Before(t)) = Cardinality(InRange) => Before(t) = InRange)
    BY <1>2, <2>1, FS_Subset
  <2>3. Cardinality(Before(t)) \in Nat
    BY <2>2, FS_CardinalityType
  <2> QED
    BY <1>4, <2>1, <2>2, <2>3
<1>6. window = {t \in InRange : Cardinality(Before(t)) < MaxTenants}
  BY DEF window
<1>7. window \subseteq InRange
  BY <1>6
<1>8. range_exhausted => window = InRange
  <2> HIDE DEF Before
  <2> QED
    BY <1>3, <1>4, <1>5, <1>6 DEF range_exhausted
<1>9. ASSUME ~range_exhausted
      PROVE  window # {}
  <2>1. InRange # {}
    <3>1. Cardinality({}) = 0
      BY FS_EmptySet
    <3> QED
      BY <1>3, <1>9, <3>1 DEF range_exhausted
  <2>2. PICK t \in InRange : \A u \in InRange : t <= u
    BY <1>1, <2>1, LeastTenant
  <2>3. Before(t) = {}
    <3>1. \A u \in InRange : ~(u < t)
      BY <1>1, <2>2
    <3> QED
      BY <3>1
  <2>4. Cardinality(Before(t)) = 0
    BY <2>3, FS_EmptySet
  <2> HIDE DEF Before
  <2> QED
    BY <1>3, <1>6, <2>4
<1>10. ASSUME window # {}
       PROVE  /\ Max(window) \in window /\ \A t \in window : t <= Max(window)
              /\ \A t \in InRange : t <= Max(window) => t \in window
  <2>1. Max(window) \in window /\ \A t \in window : t <= Max(window)
    BY <1>1, <1>7, <1>10, MaxIsGreatest
  <2>2. ASSUME NEW t \in InRange, t <= Max(window)
        PROVE  t \in window
    <3>1. Max(window) \in InRange /\ Cardinality(Before(Max(window))) < MaxTenants
      BY <1>6, <2>1
    <3>2. Before(t) \subseteq Before(Max(window))
      <4>1. \A u \in InRange : u < t => u < Max(window)
        BY <1>1, <2>2, <3>1
      <4> QED
        BY <4>1
    <3> HIDE DEF Before
    <3>3. Cardinality(Before(t)) <= Cardinality(Before(Max(window)))
      BY <1>5, <3>1, <3>2, FS_Subset
    <3>4. Cardinality(Before(t)) < MaxTenants
      BY <1>3, <1>5, <3>1, <3>3
    <3> QED
      BY <1>6, <3>4
  <2> QED
    BY <2>1, <2>2
<1> QED
  BY <1>1, <1>7, <1>8, <1>9, <1>10

-----------------------------------------------------------------------------
(* Steps that leave most of the state alone.                               *)

\* A sequence into which an element is inserted.
LEMMA InsertFacts ==
    ASSUME NEW S, NEW q \in Seq(S), NEW e \in S,
           NEW i \in Nat, 1 <= i, i <= Len(q) + 1
    PROVE  /\ InsertAt(q, i, e) \in Seq(S) /\ Len(InsertAt(q, i, e)) = Len(q) + 1
           /\ \A k \in 1..(Len(q) + 1) :
                 InsertAt(q, i, e)[k] = IF k < i THEN q[k] ELSE IF k = i THEN e ELSE q[k - 1]
<1> DEFINE a == SubSeq(q, 1, i - 1)
           b == SubSeq(q, i, Len(q))
           c == a \o <<e>>
<1>1. Len(q) \in Nat /\ \A k \in 1..Len(q) : q[k] \in S
  OBVIOUS
<1>2. a \in Seq(S) /\ Len(a) = i - 1 /\ \A k \in 1..(i - 1) : a[k] = q[k]
  <2>1. \A k \in 1..(i - 1) : q[k] \in S
    BY <1>1
  <2>2. /\ a \in Seq(S) /\ Len(a) = IF 1 <= i - 1 THEN (i - 1) - 1 + 1 ELSE 0
        /\ \A k \in 1..((i - 1) - 1 + 1) : a[k] = q[1 + k - 1]
    BY <2>1, SubSeqProperties
  <2> HIDE DEF a
  <2> QED
    BY <1>1, <2>2
<1>3. b \in Seq(S) /\ Len(b) = Len(q) - i + 1 /\ \A k \in 1..(Len(q) - i + 1) : b[k] = q[i + k - 1]
  <2>1. \A k \in i..Len(q) : q[k] \in S
    BY <1>1
  <2>2. /\ b \in Seq(S) /\ Len(b) = IF i <= Len(q) THEN Len(q) - i + 1 ELSE 0
        /\ \A k \in 1..(Len(q) - i + 1) : b[k] = q[i + k - 1]
    BY <1>1, <2>1, SubSeqProperties
  <2> HIDE DEF b
  <2> QED
    BY <1>1, <2>2
<1>4. <<e>> \in Seq(S) /\ Len(<<e>>) = 1 /\ <<e>>[1] = e
  OBVIOUS
<1> HIDE DEF a, b
<1>5. /\ c \in Seq(S) /\ Len(c) = i
      /\ \A k \in 1..i : c[k] = IF k <= i - 1 THEN q[k] ELSE e
  <2>1. /\ c \in Seq(S) /\ Len(c) = Len(a) + Len(<<e>>)
        /\ \A k \in 1..(Len(a) + Len(<<e>>)) : c[k] = IF k <= Len(a) THEN a[k] ELSE <<e>>[k - Len(a)]
    BY <1>2, <1>4, ConcatProperties
  <2> HIDE DEF c
  <2> QED
    BY <1>1, <1>2, <1>4, <2>1
<1> HIDE DEF c
<1>6. /\ c \o b \in Seq(S) /\ Len(c \o b) = Len(c) + Len(b)
      /\ \A k \in 1..(Len(c) + Len(b)) : (c \o b)[k] = IF k <= Len(c) THEN c[k] ELSE b[k - Len(c)]
  BY <1>3, <1>5, ConcatProperties
<1>7. InsertAt(q, i, e) = c \o b
  BY DEF InsertAt, a, b, c
<1>8. Len(c \o b) = Len(q) + 1 /\ Len(c) + Len(b) = Len(q) + 1
  BY <1>1, <1>3, <1>5, <1>6
<1>9. ASSUME NEW k \in 1..(Len(q) + 1)
      PROVE  (c \o b)[k] = IF k < i THEN q[k] ELSE IF k = i THEN e ELSE q[k - 1]
  <2>1. CASE k <= i
    BY <1>1, <1>5, <1>6, <1>8, <2>1
  <2>2. CASE ~(k <= i)
    <3>1. (c \o b)[k] = b[k - i] /\ k - i \in 1..(Len(q) - i + 1)
      BY <1>1, <1>5, <1>6, <1>8, <2>2
    <3>2. b[k - i] = q[i + (k - i) - 1] /\ i + (k - i) - 1 = k - 1
      BY <1>3, <3>1
    <3> QED
      BY <1>1, <2>2, <3>1, <3>2
  <2> QED
    BY <2>1, <2>2
<1> QED
  BY <1>6, <1>7, <1>8, <1>9

\* A sequence from which a position is removed.
LEMMA RemoveFacts ==
    ASSUME NEW S, NEW q \in Seq(S), NEW i \in 1..Len(q)
    PROVE  /\ RemoveAt(q, i) \in Seq(S) /\ Len(RemoveAt(q, i)) = Len(q) - 1
           /\ \A k \in 1..(Len(q) - 1) : RemoveAt(q, i)[k] = IF k < i THEN q[k] ELSE q[k + 1]
<1> DEFINE a == SubSeq(q, 1, i - 1)
           b == SubSeq(q, i + 1, Len(q))
<1>1. Len(q) \in Nat /\ \A k \in 1..Len(q) : q[k] \in S
  OBVIOUS
<1>2. a \in Seq(S) /\ Len(a) = i - 1 /\ \A k \in 1..(i - 1) : a[k] = q[k]
  <2>1. \A k \in 1..(i - 1) : q[k] \in S
    BY <1>1
  <2>2. /\ a \in Seq(S) /\ Len(a) = IF 1 <= i - 1 THEN (i - 1) - 1 + 1 ELSE 0
        /\ \A k \in 1..((i - 1) - 1 + 1) : a[k] = q[1 + k - 1]
    BY <2>1, SubSeqProperties
  <2> HIDE DEF a
  <2> QED
    BY <1>1, <2>2
<1>3. b \in Seq(S) /\ Len(b) = Len(q) - i /\ \A k \in 1..(Len(q) - i) : b[k] = q[i + k]
  <2>1. \A k \in (i + 1)..Len(q) : q[k] \in S
    BY <1>1
  <2>2. /\ b \in Seq(S) /\ Len(b) = IF i + 1 <= Len(q) THEN Len(q) - (i + 1) + 1 ELSE 0
        /\ \A k \in 1..(Len(q) - (i + 1) + 1) : b[k] = q[(i + 1) + k - 1]
    BY <1>1, <2>1, SubSeqProperties
  <2> HIDE DEF b
  <2> QED
    BY <1>1, <2>2
<1> HIDE DEF a, b
<1>4. /\ a \o b \in Seq(S) /\ Len(a \o b) = Len(a) + Len(b)
      /\ \A k \in 1..(Len(a) + Len(b)) : (a \o b)[k] = IF k <= Len(a) THEN a[k] ELSE b[k - Len(a)]
  BY <1>2, <1>3, ConcatProperties
<1>5. RemoveAt(q, i) = a \o b
  BY DEF RemoveAt, a, b
<1>6. Len(a) + Len(b) = Len(q) - 1
  BY <1>1, <1>2, <1>3
<1>7. ASSUME NEW k \in 1..(Len(q) - 1)
      PROVE  (a \o b)[k] = IF k < i THEN q[k] ELSE q[k + 1]
  <2>1. CASE k < i
    BY <1>1, <1>2, <1>4, <1>6, <2>1
  <2>2. CASE ~(k < i)
    <3>1. (a \o b)[k] = b[k - (i - 1)] /\ k - (i - 1) \in 1..(Len(q) - i)
      BY <1>1, <1>2, <1>4, <1>6, <2>2
    <3>2. b[k - (i - 1)] = q[i + (k - (i - 1))] /\ i + (k - (i - 1)) = k + 1
      BY <1>3, <3>1
    <3> QED
      BY <1>1, <2>2, <3>1, <3>2
  <2> QED
    BY <2>1, <2>2
<1> QED
  BY <1>4, <1>5, <1>6, <1>7

\* Quota is kept while no Job becomes claimed.
LEMMA QuotaFrame ==
    ASSUME QueuesAreIndexes, TypeOK, QuotaIsKept,
           \A j \in Jobs : job'[j] = "claimed" => job[j] = "claimed"
    PROVE  QuotaIsKept'
<1>1. ASSUME NEW a \in Accounts
      PROVE  available_quota'[a] >= 0
  <2> DEFINE old == {j \in Jobs : job[j] = "claimed" /\ a \in accounts_of[j]}
             new == {j \in Jobs : job'[j] = "claimed" /\ a \in accounts_of[j]}
  <2>1. old \subseteq {j \in Jobs : job[j] # "absent"} /\ new \subseteq old
    OBVIOUS
  <2>2. IsFiniteSet(old)
    BY <2>1, FS_Subset DEF QueuesAreIndexes
  <2>3. available_quota[a] = limit_value[a] - Cardinality(old)
        /\ available_quota'[a] = limit_value[a] - Cardinality(new)
    BY DEF available_quota
  <2>4. available_quota[a] >= 0 /\ limit_value[a] \in Nat
    BY SchedulerAssumption DEF QuotaIsKept
  <2> HIDE DEF old, new
  <2>5. IsFiniteSet(new) /\ Cardinality(new) <= Cardinality(old)
    BY <2>1, <2>2, FS_Subset
  <2>6. Cardinality(new) \in Nat /\ Cardinality(old) \in Nat
    BY <2>2, <2>5, FS_CardinalityType
  <2> QED
    BY <2>3, <2>4, <2>5, <2>6
<1> QED
  BY <1>1 DEF QuotaIsKept

\* A round goes on while nobody becomes eligible.
LEMMA RoundFrame ==
    ASSUME RoundPart, UNCHANGED <<partition, visited, missed>>, Eligible' = Eligible
    PROVE  RoundPart'
  BY DEF RoundPart

\* A row that changes neither its sweep nor its eligibility.
LEMMA AdministrationKeeps ==
    ASSUME SchedulerInvariant, NEW t \in Tenants, NEW r \in TenantSchedulerState,
           tenant' = [tenant EXCEPT ![t] = r],
           UNCHANGED <<partition, version, queue, job, visited, missed>>,
           r.sweep = tenant[t].sweep, r.enrolled = "eligible" <=> tenant[t].enrolled = "eligible",
           r.deficit <= MaxDeficit, r.policy = Unbound => r.deficit = 0
    PROVE  SchedulerInvariant'
<1> USE DEF SchedulerInvariant
<1>1. tenant \in [Tenants -> TenantSchedulerState]
  BY DEF TypeOK
<1>2. \A u \in Tenants : tenant'[u] = IF u = t THEN r ELSE tenant[u]
  BY <1>1
<1>3. TypeOK'
  BY <1>1 DEF TypeOK
<1>4. StoredRowsAreUsable' /\ SweepsRest'
  BY <1>2 DEF StoredRowsAreUsable, SweepsRest
<1>5. QueuesAreIndexes'
  BY DEF QueuesAreIndexes
<1>6. QuotaIsKept'
  BY DEF QuotaIsKept, available_quota
<1>7. Eligible' = Eligible
  BY <1>2 DEF Eligible
<1>8. RoundPart'
  BY <1>7, RoundFrame
<1> QED
  BY <1>3, <1>4, <1>5, <1>6, <1>8

-----------------------------------------------------------------------------
(* The invariant is inductive: administration and Job traffic.             *)

\* An enrollment joins the next round and leaves this one alone.
LEMMA CreateTenantKeeps ==
    ASSUME SchedulerInvariant, NEW t \in Tenants, create_tenant(t)
    PROVE  SchedulerInvariant'
<1> DEFINE r == [tenant[t] EXCEPT !.enrolled = "next_round"]
<1>1. tenant \in [Tenants -> TenantSchedulerState]
  BY DEF SchedulerInvariant, TypeOK
<1>2. /\ r \in TenantSchedulerState /\ r.enrolled = "next_round"
      /\ r.sweep = tenant[t].sweep /\ r.deficit = tenant[t].deficit /\ r.policy = tenant[t].policy
  BY <1>1 DEF TenantSchedulerState
<1>3. tenant' = [tenant EXCEPT ![t] = r]
  BY DEF create_tenant, enrollment
<1> HIDE DEF r
<1>4. tenant[t].enrolled = "absent" /\ UNCHANGED <<partition, version, queue, job, visited, missed>>
  BY DEF create_tenant
<1>5. r.deficit <= MaxDeficit /\ (r.policy = Unbound => r.deficit = 0)
  BY <1>2 DEF SchedulerInvariant, StoredRowsAreUsable
<1> QED
  BY <1>2, <1>3, <1>4, <1>5, AdministrationKeeps

\* Disabling or enabling a tenant keeps the invariant.
LEMMA SetActiveKeeps ==
    ASSUME SchedulerInvariant, NEW t \in Tenants, set_active(t)
    PROVE  SchedulerInvariant'
<1> DEFINE r == [tenant[t] EXCEPT !.active = ~@]
<1>1. tenant \in [Tenants -> TenantSchedulerState]
  BY DEF SchedulerInvariant, TypeOK
<1>2. /\ r \in TenantSchedulerState /\ r.enrolled = tenant[t].enrolled
      /\ r.sweep = tenant[t].sweep /\ r.deficit = tenant[t].deficit /\ r.policy = tenant[t].policy
  BY <1>1 DEF TenantSchedulerState
<1>3. tenant' = [tenant EXCEPT ![t] = r]
  BY DEF set_active
<1> HIDE DEF r
<1>4. UNCHANGED <<partition, version, queue, job, visited, missed>>
  BY DEF set_active
<1>5. r.deficit <= MaxDeficit /\ (r.policy = Unbound => r.deficit = 0)
  BY <1>2 DEF SchedulerInvariant, StoredRowsAreUsable
<1> QED
  BY <1>2, <1>3, <1>4, <1>5, AdministrationKeeps

\* A changed policy forfeits the credit, so the row stays usable.
LEMMA BindKeeps ==
    ASSUME SchedulerInvariant, NEW t \in Tenants, NEW p \in Policies,
           bind_locked_tenant_scheduler_policy(t, p)
    PROVE  SchedulerInvariant'
<1> DEFINE r == [tenant[t] EXCEPT !.policy = p, !.deficit = 0, !.credited = FALSE]
<1>1. tenant \in [Tenants -> TenantSchedulerState]
  BY DEF SchedulerInvariant, TypeOK
<1>2. /\ r \in TenantSchedulerState /\ r.enrolled = tenant[t].enrolled
      /\ r.sweep = tenant[t].sweep /\ r.deficit = 0
  BY <1>1 DEF TenantSchedulerState
<1>3. tenant' = [tenant EXCEPT ![t] = r]
  BY <1>1 DEF bind_locked_tenant_scheduler_policy
<1> HIDE DEF r
<1>4. UNCHANGED <<partition, version, queue, job, visited, missed>>
  BY DEF bind_locked_tenant_scheduler_policy
<1>5. 0 <= MaxDeficit
  BY SchedulerAssumption
<1> QED
  BY <1>2, <1>3, <1>4, <1>5, AdministrationKeeps

\* A Job that is neither created nor settled, nor claimed, stays where it is queued.
LEMMA StandingKeeps ==
    ASSUME SchedulerInvariant, NEW j \in Jobs, NEW standing \in JobStanding,
           job[j] # "absent", standing \notin {"absent", "claimed"},
           job' = [job EXCEPT ![j] = standing],
           UNCHANGED <<partition, version, tenant, queue, visited, missed>>
    PROVE  SchedulerInvariant'
<1> USE DEF SchedulerInvariant
<1>1. job \in [Jobs -> JobStanding]
  BY DEF TypeOK
<1>2. \A k \in Jobs : job'[k] = IF k = j THEN standing ELSE job[k]
  BY <1>1
<1>3. TypeOK'
  BY <1>1 DEF TypeOK
<1>4. StoredRowsAreUsable' /\ SweepsRest'
  BY DEF StoredRowsAreUsable, SweepsRest
<1>5. QueuesAreIndexes'
  <2>1. {k \in Jobs : job'[k] # "absent"} = {k \in Jobs : job[k] # "absent"}
    BY <1>2
  <2>2. \A t \in Tenants : \A i \in DOMAIN queue[t] : queue[t][i] \in Jobs
    BY DEF TypeOK
  <2>3. \A t \in Tenants : \A i \in DOMAIN queue[t] : job'[queue[t][i]] # "absent"
    BY <1>2, <2>2 DEF QueuesAreIndexes
  <2> QED
    BY <2>1, <2>3 DEF QueuesAreIndexes
<1>6. QuotaIsKept'
  BY <1>2, QuotaFrame
<1>7. RoundPart'
  BY RoundFrame DEF Eligible
<1> QED
  BY <1>3, <1>4, <1>5, <1>6, <1>7

\* A Job that parks, comes due or is given up keeps the invariant.
LEMMA ChangeStandingKeeps ==
    ASSUME SchedulerInvariant, NEW j \in Jobs, NEW standing \in {"parked", "due", "resumable"},
           change_standing(j, standing)
    PROVE  SchedulerInvariant'
  BY StandingKeeps DEF change_standing, JobStanding

\* A damaged Job row keeps the invariant.
LEMMA CorruptRowKeeps ==
    ASSUME SchedulerInvariant, NEW j \in Jobs, corrupt_row(j)
    PROVE  SchedulerInvariant'
  BY StandingKeeps DEF corrupt_row, JobStanding

\* A Job comes to or leaves a queue, and the sweep over that queue moves with it.
LEMMA QueueStepKeeps ==
    ASSUME SchedulerInvariant, NEW j \in Jobs, NEW standing \in JobStanding,
           standing # "claimed", NEW q \in Seq(Jobs), NEW sweep,
           sweep \in [ongoing : BOOLEAN, upper : Nat, after : Nat],
           sweep.ongoing \/ sweep = NoSweep,
           sweep.after <= sweep.upper, sweep.upper <= Len(q),
           job' = [job EXCEPT ![j] = standing],
           queue' = [queue EXCEPT ![owner[j]] = q],
           tenant' = [tenant EXCEPT ![owner[j]].sweep = sweep],
           UNCHANGED <<partition, version, visited, missed>>,
           \A i \in DOMAIN q : owner[q[i]] = owner[j],
           \A i, k \in DOMAIN q : q[i] = q[k] => i = k,
           \A i \in DOMAIN q : job'[q[i]] # "absent",
           standing = "absent" \/ job[j] = "absent"
    PROVE  SchedulerInvariant'
<1> USE DEF SchedulerInvariant
<1> DEFINE t == owner[j]
           r == [tenant[t] EXCEPT !.sweep = sweep]
<1>1. /\ job \in [Jobs -> JobStanding] /\ queue \in [Tenants -> Seq(Jobs)]
      /\ tenant \in [Tenants -> TenantSchedulerState] /\ t \in Tenants
  BY SchedulerAssumption DEF TypeOK
<1>2. \A k \in Jobs : job'[k] = IF k = j THEN standing ELSE job[k]
  BY <1>1
<1>3. /\ r \in TenantSchedulerState /\ r.enrolled = tenant[t].enrolled
      /\ r.sweep = sweep /\ r.deficit = tenant[t].deficit /\ r.policy = tenant[t].policy
  BY <1>1 DEF TenantSchedulerState
<1>4. tenant' = [tenant EXCEPT ![t] = r]
  BY <1>1
<1> HIDE DEF r
<1>5. \A u \in Tenants : tenant'[u] = IF u = t THEN r ELSE tenant[u]
  BY <1>1, <1>4
<1>6. \A u \in Tenants : queue'[u] = IF u = t THEN q ELSE queue[u]
  BY <1>1
<1>7. TypeOK'
  <2>1. job' \in [Jobs -> JobStanding] /\ queue' \in [Tenants -> Seq(Jobs)]
        /\ tenant' \in [Tenants -> TenantSchedulerState]
    BY <1>1, <1>3, <1>4
  <2>2. \A u \in Tenants : \A i \in DOMAIN queue'[u] : owner[queue'[u][i]] = u
    BY <1>6 DEF TypeOK
  <2> QED
    BY <2>1, <2>2 DEF TypeOK
<1>8. StoredRowsAreUsable'
  BY <1>3, <1>5, <1>6 DEF StoredRowsAreUsable
<1>9. SweepsRest'
  BY <1>3, <1>5 DEF SweepsRest
<1>10. QueuesAreIndexes'
  <2>1. \A u \in Tenants : \A i, k \in DOMAIN queue'[u] : queue'[u][i] = queue'[u][k] => i = k
    BY <1>6 DEF QueuesAreIndexes
  <2>2. ASSUME NEW u \in Tenants, NEW i \in DOMAIN queue'[u]
        PROVE  job'[queue'[u][i]] # "absent"
    <3>1. CASE u = t
      BY <1>6, <3>1
    <3>2. CASE u # t
      <4>1. queue'[u] = queue[u]
        BY <1>6, <3>2
      <4>2. owner[queue[u][i]] = u /\ queue[u][i] \in Jobs /\ job[queue[u][i]] # "absent"
        BY <1>1, <2>2, <4>1 DEF TypeOK, QueuesAreIndexes
      <4>3. queue[u][i] # j
        BY <3>2, <4>2
      <4> QED
        BY <1>2, <4>1, <4>2, <4>3
    <3> QED
      BY <3>1, <3>2
  <2>3. IsFiniteSet({k \in Jobs : job'[k] # "absent"})
    <3> DEFINE old == {k \in Jobs : job[k] # "absent"}
               new == {k \in Jobs : job'[k] # "absent"}
    <3>1. new \subseteq old \cup {j}
      BY <1>2
    <3>2. IsFiniteSet(old)
      BY DEF QueuesAreIndexes
    <3> HIDE DEF old, new
    <3>3. IsFiniteSet(new)
      BY <3>1, <3>2, OneMore
    <3> QED
      BY <3>3 DEF new
  <2> QED
    BY <2>1, <2>2, <2>3 DEF QueuesAreIndexes
<1>11. QuotaIsKept'
  BY <1>2, QuotaFrame
<1>12. Eligible' = Eligible
  BY <1>3, <1>5 DEF Eligible
<1>13. RoundPart'
  BY <1>12, RoundFrame
<1> QED
  BY <1>7, <1>8, <1>9, <1>10, <1>11, <1>13

\* A Job that commits anywhere in its queue moves the sweep bounds along.
LEMMA CreateJobKeeps ==
    ASSUME SchedulerInvariant, NEW j \in Jobs, NEW standing \in {"parked", "due"},
           create_job(j, standing)
    PROVE  SchedulerInvariant'
<1> USE DEF SchedulerInvariant
<1> DEFINE t == owner[j]
           q == queue[t]
           old == tenant[t].sweep
<1>1. /\ job \in [Jobs -> JobStanding] /\ queue \in [Tenants -> Seq(Jobs)]
      /\ tenant \in [Tenants -> TenantSchedulerState] /\ t \in Tenants
  BY SchedulerAssumption DEF TypeOK
<1>2. q \in Seq(Jobs) /\ Len(q) \in Nat /\ DOMAIN q = 1..Len(q)
  BY <1>1
<1>3. PICK i \in 1..(Len(q) + 1) :
          /\ queue' = [queue EXCEPT ![t] = InsertAt(q, i, j)]
          /\ tenant' = [tenant EXCEPT ![t].sweep = shifted(old, i, 1)]
  <2> DEFINE places == IF LateCommits THEN 1..(Len(q) + 1) ELSE {Len(q) + 1}
  <2>1. places \subseteq 1..(Len(q) + 1)
    BY <1>2
  <2>2. \E i \in places :
            /\ queue' = [queue EXCEPT ![t] = InsertAt(q, i, j)]
            /\ tenant' = [tenant EXCEPT ![t].sweep = shifted(old, i, 1)]
    BY Zenon DEF create_job
  <2> HIDE DEF places
  <2> QED
    BY <2>1, <2>2
<1>4. /\ job[j] = "absent" /\ job' = [job EXCEPT ![j] = standing]
      /\ UNCHANGED <<partition, version, visited, missed>>
  BY DEF create_job
<1> DEFINE q2 == InsertAt(q, i, j)
           sweep == shifted(old, i, 1)
<1>5. /\ q2 \in Seq(Jobs) /\ Len(q2) = Len(q) + 1
      /\ \A k \in 1..(Len(q) + 1) : q2[k] = IF k < i THEN q[k] ELSE IF k = i THEN j ELSE q[k - 1]
  <2> HIDE DEF q
  <2>1. q \in Seq(Jobs) /\ j \in Jobs /\ i \in Nat /\ 1 <= i /\ i <= Len(q) + 1
    BY <1>2
  <2>2. /\ InsertAt(q, i, j) \in Seq(Jobs) /\ Len(InsertAt(q, i, j)) = Len(q) + 1
        /\ \A k \in 1..(Len(q) + 1) :
              InsertAt(q, i, j)[k] = IF k < i THEN q[k] ELSE IF k = i THEN j ELSE q[k - 1]
    BY ONLY <2>1, InsertFacts
  <2> QED
    BY <2>2
<1>6. /\ old \in [ongoing : BOOLEAN, upper : Nat, after : Nat]
      /\ old.ongoing \/ old = NoSweep
      /\ old.after <= old.upper /\ old.upper <= Len(q)
  BY <1>1 DEF TenantSchedulerState, SweepsRest, StoredRowsAreUsable
<1>7. \A k \in DOMAIN q : owner[q[k]] = t /\ q[k] # j /\ job[q[k]] # "absent" /\ q[k] \in Jobs
  BY <1>1, <1>2, <1>4 DEF TypeOK, QueuesAreIndexes
<1>8. \A k, m \in DOMAIN q : q[k] = q[m] => k = m
  BY <1>1 DEF QueuesAreIndexes
<1> HIDE DEF q2, q, old
<1>9. /\ sweep \in [ongoing : BOOLEAN, upper : Nat, after : Nat]
      /\ sweep.ongoing \/ sweep = NoSweep
      /\ sweep.after <= sweep.upper /\ sweep.upper <= Len(q2)
  <2>1. CASE old.ongoing = TRUE
    <3> DEFINE up == moved(old.upper, i, 1)
               af == moved(old.after, i, 1)
    <3>1. up \in Nat /\ af \in Nat /\ af <= up /\ up <= Len(q2)
      BY <1>2, <1>5, <1>6 DEF moved
    <3> HIDE DEF up, af
    <3>2. sweep = [old EXCEPT !.upper = up, !.after = af]
      BY <2>1 DEF shifted, up, af
    <3>3. sweep = [ongoing |-> TRUE, upper |-> up, after |-> af]
      BY <1>6, <2>1, <3>2
    <3> HIDE DEF sweep
    <3>4. sweep.ongoing /\ sweep.upper = up /\ sweep.after = af
      BY <3>3
    <3>5. sweep \in [ongoing : BOOLEAN, upper : Nat, after : Nat]
      BY <3>1, <3>3
    <3> QED
      BY <3>1, <3>4, <3>5
  <2>2. CASE ~(old.ongoing = TRUE)
    <3>1. sweep = NoSweep
      BY <1>6, <2>2 DEF shifted
    <3> HIDE DEF sweep
    <3> QED
      BY <1>2, <1>5, <3>1 DEF NoSweep
  <2> QED
    BY <2>1, <2>2
<1> HIDE DEF sweep
<1>10. DOMAIN q2 = 1..(Len(q) + 1)
  BY <1>2, <1>5
<1>11. \A k \in DOMAIN q2 : k < i \/ k = i \/ (k > i /\ k - 1 \in DOMAIN q)
  BY <1>2, <1>10
<1>12. \A k \in DOMAIN q2 : k < i => k \in DOMAIN q
  BY <1>2, <1>10
<1>13. ASSUME NEW k \in DOMAIN q2
       PROVE  owner[q2[k]] = t /\ (q2[k] = j \/ job[q2[k]] # "absent") /\ q2[k] \in Jobs
  BY <1>5, <1>7, <1>10, <1>11, <1>12
<1>14. ASSUME NEW k \in DOMAIN q2, NEW m \in DOMAIN q2, q2[k] = q2[m]
       PROVE  k = m
  BY <1>2, <1>5, <1>7, <1>8, <1>10, <1>11, <1>12, <1>14
<1>15. \A k \in DOMAIN q2 : job'[q2[k]] # "absent"
  BY <1>1, <1>4, <1>13
<1>16. /\ queue' = [queue EXCEPT ![owner[j]] = q2]
       /\ tenant' = [tenant EXCEPT ![owner[j]].sweep = sweep]
  BY <1>3 DEF q2, sweep
<1>17. standing \in JobStanding /\ standing # "claimed"
  BY DEF JobStanding
<1> QED
  BY <1>4, <1>5, <1>9, <1>13, <1>14, <1>15, <1>16, <1>17, QueueStepKeeps

\* A Job that settles anywhere in its queue moves the sweep bounds along.
LEMMA TerminateJobKeeps ==
    ASSUME SchedulerInvariant, NEW j \in Jobs, terminate_job(j)
    PROVE  SchedulerInvariant'
<1> USE DEF SchedulerInvariant
<1> DEFINE t == owner[j]
           q == queue[t]
           old == tenant[t].sweep
<1>1. /\ job \in [Jobs -> JobStanding] /\ queue \in [Tenants -> Seq(Jobs)]
      /\ tenant \in [Tenants -> TenantSchedulerState] /\ t \in Tenants
  BY SchedulerAssumption DEF TypeOK
<1>2. q \in Seq(Jobs) /\ Len(q) \in Nat /\ DOMAIN q = 1..Len(q)
  BY <1>1
<1>3. PICK i \in DOMAIN q :
          /\ q[i] = j
          /\ queue' = [queue EXCEPT ![t] = RemoveAt(q, i)]
          /\ tenant' = [tenant EXCEPT ![t].sweep = shifted(old, i, -1)]
  BY <1>1, <1>2 DEF terminate_job
<1>4. /\ job' = [job EXCEPT ![j] = "absent"]
      /\ UNCHANGED <<partition, version, visited, missed>>
  BY DEF terminate_job
<1> DEFINE q2 == RemoveAt(q, i)
           sweep == shifted(old, i, -1)
<1>5. /\ q2 \in Seq(Jobs) /\ Len(q2) = Len(q) - 1
      /\ \A k \in 1..(Len(q) - 1) : q2[k] = IF k < i THEN q[k] ELSE q[k + 1]
  BY <1>2, <1>3, RemoveFacts
<1>6. /\ old \in [ongoing : BOOLEAN, upper : Nat, after : Nat]
      /\ old.ongoing \/ old = NoSweep
      /\ old.after <= old.upper /\ old.upper <= Len(q)
  BY <1>1 DEF TenantSchedulerState, SweepsRest, StoredRowsAreUsable
<1>7. \A k \in DOMAIN q : owner[q[k]] = t /\ job[q[k]] # "absent" /\ q[k] \in Jobs
  BY <1>1, <1>2 DEF TypeOK, QueuesAreIndexes
<1>8. \A k, m \in DOMAIN q : q[k] = q[m] => k = m
  BY <1>1 DEF QueuesAreIndexes
<1>9. i \in Nat /\ 1 <= i /\ i <= Len(q)
  BY <1>2
<1> HIDE DEF q2, q, old
<1>10. /\ sweep \in [ongoing : BOOLEAN, upper : Nat, after : Nat]
       /\ sweep.ongoing \/ sweep = NoSweep
       /\ sweep.after <= sweep.upper /\ sweep.upper <= Len(q2)
  <2>1. CASE old.ongoing = TRUE
    <3> DEFINE up == moved(old.upper, i, -1)
               af == moved(old.after, i, -1)
    <3>1. up \in Nat /\ af \in Nat /\ af <= up /\ up <= Len(q2)
      BY <1>2, <1>5, <1>6, <1>9 DEF moved
    <3> HIDE DEF up, af
    <3>2. sweep = [old EXCEPT !.upper = up, !.after = af]
      BY <2>1 DEF shifted, up, af
    <3>3. sweep = [ongoing |-> TRUE, upper |-> up, after |-> af]
      BY <1>6, <2>1, <3>2
    <3> HIDE DEF sweep
    <3>4. sweep.ongoing /\ sweep.upper = up /\ sweep.after = af
      BY <3>3
    <3>5. sweep \in [ongoing : BOOLEAN, upper : Nat, after : Nat]
      BY <3>1, <3>3
    <3> QED
      BY <3>1, <3>4, <3>5
  <2>2. CASE ~(old.ongoing = TRUE)
    <3>1. sweep = NoSweep
      BY <1>6, <2>2 DEF shifted
    <3> HIDE DEF sweep
    <3> QED
      BY <1>2, <1>5, <1>9, <3>1 DEF NoSweep
  <2> QED
    BY <2>1, <2>2
<1> HIDE DEF sweep
<1>11. DOMAIN q2 = 1..(Len(q) - 1)
  BY <1>2, <1>5
<1>12. ASSUME NEW k \in DOMAIN q2
       PROVE  /\ k < i => k \in DOMAIN q /\ q2[k] = q[k]
              /\ ~(k < i) => k + 1 \in DOMAIN q /\ q2[k] = q[k + 1]
  BY <1>2, <1>5, <1>9, <1>11
<1>13. ASSUME NEW k \in DOMAIN q2
       PROVE  owner[q2[k]] = t /\ q2[k] # j /\ job[q2[k]] # "absent" /\ q2[k] \in Jobs
  <2>1. CASE k < i
    BY <1>3, <1>7, <1>8, <1>9, <1>11, <1>12, <2>1
  <2>2. CASE ~(k < i)
    <3>1. k + 1 \in DOMAIN q /\ q2[k] = q[k + 1] /\ k + 1 # i
      BY <1>2, <1>9, <1>11, <1>12, <2>2
    <3> QED
      BY <1>3, <1>7, <1>8, <3>1
  <2> QED
    BY <2>1, <2>2
<1>14. ASSUME NEW k \in DOMAIN q2, NEW m \in DOMAIN q2, q2[k] = q2[m]
       PROVE  k = m
  BY <1>2, <1>8, <1>9, <1>11, <1>12, <1>14
<1>15. \A k \in DOMAIN q2 : job'[q2[k]] # "absent"
  BY <1>1, <1>4, <1>13
<1>16. /\ queue' = [queue EXCEPT ![owner[j]] = q2]
       /\ tenant' = [tenant EXCEPT ![owner[j]].sweep = sweep]
  BY <1>3 DEF q2, sweep
<1>17. "absent" \in JobStanding /\ "absent" # "claimed"
  BY DEF JobStanding
<1> QED
  BY <1>4, <1>5, <1>10, <1>13, <1>14, <1>15, <1>16, <1>17, QueueStepKeeps

-----------------------------------------------------------------------------
(* The invariant is inductive: a claim.                                    *)

\* What a claim accounts for is a sound selection of Jobs that could be claimed.
LEMMA ClaimFacts ==
    ASSUME SchedulerInvariant, NEW limit \in Limits, claim(limit)
    PROVE  \E claimed \in SUBSET Claimable : \E b \in BatchState :
               /\ BatchPart(b, NTenants, claimed) /\ b.admitted = claimed
               /\ job' = [j \in Jobs |-> IF j \in claimed THEN "claimed" ELSE job[j]]
               /\ persist(b.tenants, window)
               /\ version' = 1 - version /\ UNCHANGED queue
<1> USE DEF SchedulerInvariant
<1> DEFINE selected == select(Claimable, limit).admitted
           claimed == {j \in selected : job[j] # "broken"}
           b == select(claimed, limit)
<1>1. /\ b.admitted = claimed
      /\ job' = [j \in Jobs |-> IF j \in claimed THEN "claimed" ELSE job[j]]
      /\ persist(b.tenants, window)
      /\ version' = 1 - version /\ UNCHANGED queue
  BY Zenon DEF claim, settle_actual
<1>2. BatchPart(select(Claimable, limit), NTenants, Claimable)
  BY SelectFacts
<1>3. claimed \subseteq Claimable
  BY <1>2 DEF BatchPart
<1> HIDE DEF claimed
<1>4. b \in BatchState /\ BatchPart(b, NTenants, claimed)
  BY SelectFacts
<1> HIDE DEF b
<1> QED
  BY <1>1, <1>3, <1>4

\* Claimed Jobs stay within the quota.
LEMMA ClaimQuota ==
    ASSUME SchedulerInvariant, NEW b \in BatchState, NEW claimed \in SUBSET Claimable,
           BatchPart(b, NTenants, claimed), b.admitted = claimed,
           job' = [j \in Jobs |-> IF j \in claimed THEN "claimed" ELSE job[j]]
    PROVE  QuotaIsKept'
<1> USE DEF SchedulerInvariant
<1>1. ASSUME NEW a \in Accounts
      PROVE  available_quota'[a] >= 0
  <2> DEFINE old == {j \in Jobs : job[j] = "claimed" /\ a \in accounts_of[j]}
             new == {j \in Jobs : job'[j] = "claimed" /\ a \in accounts_of[j]}
             more == Charged(b.admitted, a)
  <2>1. old \subseteq {j \in Jobs : job[j] # "absent"}
    OBVIOUS
  <2>2. IsFiniteSet(old)
    BY <2>1, FS_Subset DEF QueuesAreIndexes
  <2>3. available_quota[a] = limit_value[a] - Cardinality(old)
        /\ available_quota'[a] = limit_value[a] - Cardinality(new)
    BY DEF available_quota
  <2>4. more \subseteq b.admitted /\ IsFiniteSet(b.admitted)
    BY DEF Charged, BatchPart
  <2>5. IsFiniteSet(more)
    BY <2>4, FS_Subset
  <2>6. new \subseteq old \cup more
    BY DEF Charged
  <2>7. b.remaining[a] >= 0 /\ b.remaining[a] + Cardinality(more) <= available_quota[a]
    BY DEF BatchPart, QuotaLeft
  <2>8. b.remaining[a] \in Int /\ limit_value[a] \in Nat
    BY SchedulerAssumption DEF BatchState
  <2> HIDE DEF old, new, more
  <2>9. /\ IsFiniteSet(old \cup more) /\ IsFiniteSet(old \cap more)
        /\ Cardinality(old \cup more) = Cardinality(old) + Cardinality(more) - Cardinality(old \cap more)
    BY <2>2, <2>5, FS_Union, FS_Intersection
  <2>10. IsFiniteSet(new) /\ Cardinality(new) <= Cardinality(old \cup more)
    BY <2>6, <2>9, FS_Subset
  <2>11. Cardinality(new) \in Nat /\ Cardinality(old) \in Nat /\ Cardinality(more) \in Nat
         /\ Cardinality(old \cup more) \in Nat /\ Cardinality(old \cap more) \in Nat
    BY <2>2, <2>5, <2>9, <2>10, FS_CardinalityType
  <2> QED
    BY <2>3, <2>7, <2>8, <2>9, <2>10, <2>11
<1> QED
  BY <1>1 DEF QuotaIsKept

\* The rows a claim stores, whether or not it ends the round.
LEMMA PersistRows ==
    ASSUME SchedulerInvariant, NEW rows \in [Tenants -> TenantSchedulerState], persist(rows, window)
    PROVE  /\ tenant' \in [Tenants -> TenantSchedulerState]
           /\ \A t \in Tenants :
                 /\ tenant'[t].policy = rows[t].policy /\ tenant'[t].deficit = rows[t].deficit
                 /\ tenant'[t].sweep = rows[t].sweep
           /\ ~range_exhausted => tenant' = rows
<1>1. ASSUME range_exhausted
      PROVE  /\ tenant' \in [Tenants -> TenantSchedulerState]
             /\ \A t \in Tenants :
                   /\ tenant'[t].policy = rows[t].policy /\ tenant'[t].deficit = rows[t].deficit
                   /\ tenant'[t].sweep = rows[t].sweep
  <2> DEFINE row(t) == [rows[t] EXCEPT !.credited = FALSE,
                                       !.enrolled = IF @ = "next_round" THEN "eligible" ELSE @]
  <2>1. tenant' = [t \in Tenants |-> row(t)]
    BY <1>1 DEF persist, begin_round
  <2>2. ASSUME NEW t \in Tenants
        PROVE  /\ row(t) \in TenantSchedulerState
               /\ row(t).policy = rows[t].policy /\ row(t).deficit = rows[t].deficit
               /\ row(t).sweep = rows[t].sweep
    <3>1. rows[t] \in TenantSchedulerState
      OBVIOUS
    <3> QED
      BY <3>1 DEF TenantSchedulerState
  <2> HIDE DEF row
  <2> QED
    BY <2>1, <2>2
<1>2. ASSUME ~range_exhausted
      PROVE  tenant' = rows
  BY <1>2 DEF persist
<1> QED
  BY <1>1, <1>2

\* The round goes on past the window, or the next one begins.
LEMMA PersistRound ==
    ASSUME SchedulerInvariant, NEW rows \in [Tenants -> TenantSchedulerState], persist(rows, window),
           \A t \in Tenants : rows[t].enrolled = tenant[t].enrolled
    PROVE  /\ RoundPart'
           /\ partition' \in SchedulerPartitionState /\ visited' \subseteq Tenants
           /\ partition'.cursor # NoTenant =>
                 partition'.upper # NoTenant /\ partition'.cursor <= partition'.upper
<1> USE DEF SchedulerInvariant
<1>1. /\ window \subseteq InRange /\ InRange \subseteq Tenants
      /\ range_exhausted => window = InRange
      /\ ~range_exhausted => window # {}
      /\ window # {} => /\ Max(window) \in window
                        /\ \A t \in window : t <= Max(window)
                        /\ \A t \in InRange : t <= Max(window) => t \in window
  BY WindowFacts
<1>2. /\ tenant_upper_bound \in Tenants \cup {NoTenant}
      /\ \A t \in Eligible : tenant_upper_bound # NoTenant /\ t <= tenant_upper_bound
      /\ InRange = {t \in Eligible : partition.cursor < t}
  BY BoundCoversEligible
<1>3. Eligible \subseteq Tenants /\ \A t \in Tenants : t \in Nat /\ t # NoTenant /\ 0 < t
  BY SchedulerAssumption DEF Eligible, Tenants, NoTenant
<1>4. partition.cursor \in Nat /\ visited \subseteq Tenants
  BY <1>3 DEF TypeOK, SchedulerPartitionState, NoTenant
<1>5. \A t \in Eligible : t \in visited \/ t \in InRange
  BY <1>2, <1>3, <1>4 DEF RoundPart
<1>6. CASE range_exhausted
  <2>1. /\ partition' = [cursor |-> NoTenant, upper |-> NoTenant] /\ visited' = {}
        /\ missed' = missed \cup (Eligible \ (visited \cup window))
    BY <1>6 DEF persist
  <2>2. missed' = {}
    BY <1>1, <1>5, <1>6, <2>1 DEF RoundPart
  <2>3. partition'.cursor = NoTenant /\ partition'.upper = NoTenant
    BY <2>1
  <2>4. Eligible' \subseteq Tenants
    BY DEF Eligible
  <2>5. \A t \in Eligible' : ~(t <= partition'.cursor)
    BY <1>3, <2>3, <2>4 DEF NoTenant
  <2> QED
    BY <2>1, <2>2, <2>3, <2>5 DEF RoundPart, SchedulerPartitionState
<1>7. CASE ~range_exhausted
  <2> DEFINE m == Max(window)
  <2>1. /\ partition' = [cursor |-> m, upper |-> tenant_upper_bound]
        /\ tenant' = rows /\ visited' = visited \cup window /\ UNCHANGED missed
    BY <1>7 DEF persist
  <2>2. partition'.cursor = m /\ partition'.upper = tenant_upper_bound
    BY <2>1
  <2>3. /\ m \in window /\ m \in InRange /\ m \in Eligible /\ m \in Tenants
        /\ \A t \in window : t <= m
        /\ \A t \in InRange : t <= m => t \in window
    BY <1>1, <1>2, <1>7
  <2> HIDE DEF m
  <2>4. Eligible' = Eligible
    BY <2>1 DEF Eligible
  <2>5. tenant_upper_bound \in Tenants /\ m <= tenant_upper_bound /\ tenant_upper_bound # NoTenant
    BY <1>2, <2>3
  <2>6. visited' \subseteq Tenants
    BY <1>1, <1>4, <2>1
  <2>7. partition.cursor < m
    BY <1>2, <2>3
  <2>8. \A t \in visited' : t <= m
    <3>1. \A t \in visited : t <= partition.cursor /\ t \in Nat
      BY <1>3, <1>4 DEF RoundPart
    <3>2. \A t \in visited : t <= m
      BY <1>3, <1>4, <2>3, <2>7, <3>1
    <3> QED
      BY <2>1, <2>3, <3>2
  <2>9. \A t \in Eligible' : t <= m => t \in visited'
    BY <1>5, <2>1, <2>3, <2>4
  <2>10. \A t \in Eligible' : t <= tenant_upper_bound
    BY <1>2, <2>4
  <2>11. partition' \in SchedulerPartitionState
    BY <2>1, <2>3, <2>5 DEF SchedulerPartitionState
  <2>12. RoundPart'
    BY <2>1, <2>2, <2>8, <2>9, <2>10 DEF RoundPart
  <2> QED
    BY <2>2, <2>5, <2>6, <2>11, <2>12
<1> QED
  BY <1>6, <1>7

\* A claim, with what was really claimed and what it stores, keeps the invariant.
LEMMA ClaimKeeps ==
    ASSUME SchedulerInvariant, NEW limit \in Limits, claim(limit)
    PROVE  SchedulerInvariant'
<1> USE DEF SchedulerInvariant
<1>1. PICK claimed \in SUBSET Claimable : \E b \in BatchState :
          /\ BatchPart(b, NTenants, claimed) /\ b.admitted = claimed
          /\ job' = [j \in Jobs |-> IF j \in claimed THEN "claimed" ELSE job[j]]
          /\ persist(b.tenants, window)
          /\ version' = 1 - version /\ UNCHANGED queue
  BY ClaimFacts
<1>2. PICK b \in BatchState :
          /\ BatchPart(b, NTenants, claimed) /\ b.admitted = claimed
          /\ job' = [j \in Jobs |-> IF j \in claimed THEN "claimed" ELSE job[j]]
          /\ persist(b.tenants, window)
          /\ version' = 1 - version /\ UNCHANGED queue
  BY <1>1
<1>3. b.tenants \in [Tenants -> TenantSchedulerState]
  BY DEF BatchState
<1>4. \A t \in Tenants :
          /\ RowPart(b.tenants[t], t, b.admitted)
          /\ b.tenants[t].sweep \in {tenant[t].sweep, next_job_sweep(t)}
  BY <1>2 DEF BatchPart
<1>5. /\ tenant' \in [Tenants -> TenantSchedulerState]
      /\ \A t \in Tenants :
            /\ tenant'[t].policy = b.tenants[t].policy /\ tenant'[t].deficit = b.tenants[t].deficit
            /\ tenant'[t].sweep = b.tenants[t].sweep
  BY <1>2, <1>3, PersistRows
<1>6. /\ RoundPart'
      /\ partition' \in SchedulerPartitionState /\ visited' \subseteq Tenants
      /\ partition'.cursor # NoTenant =>
            partition'.upper # NoTenant /\ partition'.cursor <= partition'.upper
  <2>1. \A t \in Tenants : b.tenants[t].enrolled = tenant[t].enrolled
    BY <1>4 DEF RowPart
  <2> QED
    BY <1>2, <1>3, <2>1, PersistRound
<1>7. \A j \in claimed : j \in Jobs /\ job[j] \in {"due", "resumable", "broken"}
  BY DEF Claimable
<1>8. \A j \in Jobs : job'[j] = "absent" <=> job[j] = "absent"
  BY <1>2, <1>7
<1>9. TypeOK'
  <2>1. job' \in [Jobs -> JobStanding]
    BY <1>2 DEF TypeOK, JobStanding
  <2>2. version' \in {0, 1}
    BY <1>2 DEF TypeOK
  <2> QED
    BY <1>2, <1>5, <1>6, <2>1, <2>2 DEF TypeOK
<1>10. StoredRowsAreUsable' /\ SweepsRest'
  <2>1. ASSUME NEW t \in Tenants
        PROVE  /\ tenant'[t].deficit <= MaxDeficit
               /\ tenant'[t].policy = Unbound => tenant'[t].deficit = 0
    BY <1>4, <1>5 DEF RowPart
  <2>2. ASSUME NEW t \in Tenants
        PROVE  /\ tenant'[t].sweep.ongoing \/ tenant'[t].sweep = NoSweep
               /\ tenant'[t].sweep.after <= tenant'[t].sweep.upper
               /\ tenant'[t].sweep.upper <= Len(queue[t])
    <3>1. CASE tenant'[t].sweep = tenant[t].sweep
      BY <3>1 DEF SweepsRest, StoredRowsAreUsable
    <3>2. CASE tenant'[t].sweep = next_job_sweep(t)
      BY <3>2, NextSweep
    <3> QED
      BY <1>4, <1>5, <3>1, <3>2
  <2> QED
    BY <1>2, <2>1, <2>2 DEF StoredRowsAreUsable, SweepsRest
<1>11. QueuesAreIndexes'
  <2>1. {j \in Jobs : job'[j] # "absent"} = {j \in Jobs : job[j] # "absent"}
    BY <1>8
  <2>2. \A t \in Tenants : \A i \in DOMAIN queue[t] : queue[t][i] \in Jobs
    BY DEF TypeOK
  <2>3. \A t \in Tenants : \A i \in DOMAIN queue[t] : job'[queue[t][i]] # "absent"
    BY <1>8, <2>2 DEF QueuesAreIndexes
  <2> QED
    BY <1>2, <2>1, <2>3 DEF QueuesAreIndexes
<1>12. QuotaIsKept'
  BY <1>2, ClaimQuota
<1> QED
  BY <1>6, <1>9, <1>10, <1>11, <1>12

-----------------------------------------------------------------------------
(* Settlement: the accounting of a part of the selected Jobs selects it.   *)
(* Two selections are compared candidate by candidate, one in which the    *)
(* Jobs of E are eligible, one in which those of D are, D part of E.       *)

\* Of the candidates in D, none starts an attempt that has to be paid for.
NoStart(D, t) ==
    \A i \in 1..Len(page(t)) :
        page(t)[i] \in D /\ IsBusiness(page(t)[i]) => job[page(t)[i]] = "resumable"

\* The visit u for D has admitted what the visit s for E has of D, and has at least
\* as much of every budget left.
VisitsAgree(s, u, D, t) ==
    /\ u.admitted = s.admitted \cap D
    /\ \A a \in Accounts : s.remaining[a] <= u.remaining[a]
    /\ u.business <= s.business /\ u.control <= s.control
    /\ s.row.deficit <= u.row.deficit \/ NoStart(D, t)

BatchesAgree(a, b, D) ==
    /\ b.admitted = a.admitted \cap D
    /\ \A x \in Accounts : a.remaining[x] <= b.remaining[x]

\* A visit hands on what it has admitted and what it left of the quota.
LEMMA VisitFields ==
    ASSUME NEW batch, NEW t, NEW eligible, NEW limit
    PROVE  LET s == visit_steps(batch, t, eligible, limit)[Len(page(t))]
               b == visit(batch, t, eligible, limit)
           IN  b.admitted = s.admitted /\ b.remaining = s.remaining
  BY DEF visit

\* Considering a candidate admits it or nothing.
LEMMA ConsiderAdmits ==
    ASSUME NEW s \in VisitState, NEW t \in Tenants, NEW j \in Jobs, NEW eligible, NEW limit
    PROVE  /\ consider(s, t, j, eligible, limit).admitted \subseteq s.admitted \cup {j}
           /\ j \in consider(s, t, j, eligible, limit).admitted =>
                 j \in s.admitted \/ (j \in eligible /\ admissible(s, t, j, limit))
  BY DEF consider, admit

\* A candidate is admitted when it is considered or never.
LEMMA AdmittedWhenConsidered ==
    ASSUME TypeOK, StoredRowsAreUsable, QueuesAreIndexes,
           NEW batch \in BatchState, NEW t \in Tenants, NEW eligible, NEW limit,
           BatchPart(batch, t - 1, eligible)
    PROVE  LET f == visit_steps(batch, t, eligible, limit) IN
           \A i \in 1..Len(page(t)) :
               page(t)[i] \in f[Len(page(t))].admitted =>
                   page(t)[i] \in eligible /\ admissible(f[i - 1], t, page(t)[i], limit)
<1> DEFINE N == Len(page(t))
           p == page(t)
           f == visit_steps(batch, t, eligible, limit)
           T == {k \in 0..N :
                    /\ \A i \in 1..N : p[i] \in f[k].admitted => i <= k
                    /\ \A i \in 1..N : p[i] \in f[k].admitted =>
                          p[i] \in eligible /\ admissible(f[i - 1], t, p[i], limit)}
<1>1. /\ N \in Nat /\ \A i \in 1..N : p[i] \in Jobs /\ owner[p[i]] = t
      /\ \A i, k \in 1..N : p[i] = p[k] => i = k
  BY PageFacts
<1>2. /\ f \in [0..N -> VisitState] /\ f[0] = open_visit(batch, t, eligible)
      /\ \A i \in 1..N : f[i] = consider(f[i - 1], t, p[i], eligible, limit)
  BY VisitSteps
<1>3. \A i \in 1..N : p[i] \notin f[0].admitted
  <2>1. f[0].admitted = batch.admitted
    BY <1>2 DEF open_visit
  <2>2. \A j \in batch.admitted : owner[j] <= t - 1
    BY DEF BatchPart
  <2>3. t \in Nat /\ ~(t <= t - 1)
    BY SchedulerAssumption DEF Tenants
  <2> QED
    BY <1>1, <2>1, <2>2, <2>3
<1> HIDE DEF f, p, N
<1>4. 0 \in T
  BY <1>1, <1>3
<1>5. ASSUME NEW k \in 1..N, k - 1 \in T
      PROVE  k \in T
  <2>1. f[k - 1] \in VisitState /\ k - 1 \in 0..N
    BY <1>1, <1>2
  <2>2. /\ \A i \in 1..N : p[i] \in f[k - 1].admitted => i <= k - 1
        /\ \A i \in 1..N : p[i] \in f[k - 1].admitted =>
              p[i] \in eligible /\ admissible(f[i - 1], t, p[i], limit)
    BY <1>5
  <2>3. /\ f[k].admitted \subseteq f[k - 1].admitted \cup {p[k]}
        /\ p[k] \in f[k].admitted =>
              p[k] \in f[k - 1].admitted \/ (p[k] \in eligible /\ admissible(f[k - 1], t, p[k], limit))
    BY <1>1, <1>2, <2>1, ConsiderAdmits
  <2>4. ASSUME NEW i \in 1..N, p[i] \in f[k].admitted
        PROVE  i <= k /\ p[i] \in eligible /\ admissible(f[i - 1], t, p[i], limit)
    <3>1. CASE p[i] \in f[k - 1].admitted
      BY <1>1, <2>2, <3>1
    <3>2. CASE p[i] \notin f[k - 1].admitted
      <4>1. i = k
        BY <1>1, <2>3, <2>4, <3>2
      <4> QED
        BY <1>1, <2>3, <2>4, <3>2, <4>1
    <3> QED
      BY <3>1, <3>2
  <2> QED
    BY <1>1, <2>4
<1> HIDE DEF T
<1>6. \A k \in 0..N : k \in T
  BY <1>1, <1>4, <1>5, UpTo
<1>7. N \in T
  BY <1>1, <1>6
<1>8. \A i \in 1..N : p[i] \in f[N].admitted =>
          p[i] \in eligible /\ admissible(f[i - 1], t, p[i], limit)
  BY <1>7 DEF T
<1> QED
  BY <1>8 DEF f, p, N

\* A Job is admitted in the visit of its own tenant.
LEMMA AdmittedByOwnVisit ==
    ASSUME TypeOK, StoredRowsAreUsable, QueuesAreIndexes, QuotaIsKept, NEW eligible, NEW limit
    PROVE  LET f == select_steps(eligible, limit) IN
           \A j \in f[NTenants].admitted : j \in f[owner[j]].admitted
<1> DEFINE f == select_steps(eligible, limit)
           T == {k \in 0..NTenants : \A j \in f[k].admitted : j \in f[owner[j]].admitted}
<1>1. NTenants \in Nat /\ Tenants = 1..NTenants
  BY SchedulerAssumption DEF Tenants
<1>2. /\ f \in [0..NTenants -> BatchState]
      /\ f[0] = [admitted |-> {}, remaining |-> available_quota, tenants |-> tenant]
      /\ \A t \in 1..NTenants :
            f[t] = IF t \in window THEN visit(f[t - 1], t, eligible, limit) ELSE f[t - 1]
  BY SelectSteps
<1>3. \A k \in 0..NTenants : BatchPart(f[k], k, eligible)
  BY SelectHolds
<1> HIDE DEF f
<1>4. 0 \in T
  <2>1. f[0].admitted = {}
    BY <1>2
  <2> QED
    BY <1>1, <2>1
<1>5. ASSUME NEW k \in 1..NTenants, k - 1 \in T
      PROVE  k \in T
  <2>1. /\ f[k - 1] \in BatchState /\ BatchPart(f[k - 1], k - 1, eligible) /\ k \in Tenants
        /\ \A j \in f[k - 1].admitted : j \in f[owner[j]].admitted
    BY <1>1, <1>2, <1>3, <1>5
  <2>2. CASE k \notin window
    BY <1>2, <2>1, <2>2
  <2>3. CASE k \in window
    <3> DEFINE s == visit_steps(f[k - 1], k, eligible, limit)[Len(page(k))]
    <3>1. f[k] = visit(f[k - 1], k, eligible, limit)
      BY <1>2, <2>3
    <3>2. f[k].admitted = s.admitted
      BY <3>1, VisitFields
    <3>3. VisitPart(s, f[k - 1], k, eligible)
      BY <2>1, VisitHolds, PageFacts
    <3> HIDE DEF s
    <3>4. \A j \in f[k].admitted : j \in f[k - 1].admitted \/ owner[j] = k
      BY <3>2, <3>3 DEF VisitPart
    <3> QED
      BY <2>1, <3>4
  <2> QED
    BY <2>2, <2>3
<1> HIDE DEF T
<1>6. \A k \in 0..NTenants : k \in T
  BY <1>1, <1>4, <1>5, UpTo
<1>7. NTenants \in T
  BY <1>1, <1>6
<1> QED
  BY <1>7 DEF T, f

\* Fewer eligible Jobs earn the same credit, unless none of them needs it.
LEMMA CreditsAgree ==
    ASSUME TypeOK, StoredRowsAreUsable, QueuesAreIndexes, NEW t \in Tenants, NEW E, NEW D, D \subseteq E
    PROVE  credit(t, D) = credit(t, E) \/ NoStart(D, t)
<1> DEFINE Found(X) == \E j \in ToSet(page(t)) \cap X : IsBusiness(j) /\ job[j] # "resumable"
<1>1. Len(page(t)) \in Nat /\ page(t) \in Seq(Jobs)
  BY PageFacts
<1>2. ToSet(page(t)) = {page(t)[i] : i \in 1..Len(page(t))}
  BY <1>1 DEF ToSet
<1>3. ~Found(D) => NoStart(D, t)
  BY <1>2 DEF NoStart
<1>4. Found(D) => Found(E)
  OBVIOUS
<1>5. Found(D) => credit(t, D) = credit(t, E)
  BY <1>4 DEF credit
<1> QED
  BY <1>3, <1>5

\* What is admissible for E is so for D, while the visits agree.
LEMMA AdmissibleForFewer ==
    ASSUME TypeOK, NEW s \in VisitState, NEW u \in VisitState, NEW t \in Tenants, NEW D,
           NEW i \in 1..Len(page(t)), page(t)[i] \in D, page(t)[i] \in Jobs,
           NEW limit \in Nat, IsFiniteSet(s.admitted), VisitsAgree(s, u, D, t),
           admissible(s, t, page(t)[i], limit)
    PROVE  admissible(u, t, page(t)[i], limit)
<1> DEFINE j == page(t)[i]
<1>1. Cardinality(u.admitted) < limit
  <2>1. u.admitted \subseteq s.admitted
    BY DEF VisitsAgree
  <2>2. IsFiniteSet(u.admitted) /\ Cardinality(u.admitted) <= Cardinality(s.admitted)
    BY <2>1, FS_Subset
  <2>3. Cardinality(u.admitted) \in Nat /\ Cardinality(s.admitted) \in Nat
    BY <2>2, FS_CardinalityType
  <2>4. Cardinality(s.admitted) < limit
    BY DEF admissible
  <2> QED
    BY <2>2, <2>3, <2>4
<1>2. IsBusiness(j) => business_policy(t) # Unbound
  BY DEF admissible
<1>3. IF IsBusiness(j) THEN u.business < business_policy(t).burst ELSE u.control < MaxControl
  <2>1. /\ u.business \in Nat /\ s.business \in Nat /\ u.control \in Nat /\ s.control \in Nat
        /\ u.business <= s.business /\ u.control <= s.control
    BY DEF VisitsAgree, VisitState
  <2>2. MaxControl \in Nat
    BY SchedulerAssumption
  <2>3. IsBusiness(j) => business_policy(t).burst \in Nat
    <3>1. business_policy(t) \in Policies \cup {Unbound}
      BY DEF business_policy, TypeOK, TenantSchedulerState
    <3> QED
      BY <1>2, <3>1, SchedulerAssumption DEF Policy
  <2>4. IF IsBusiness(j) THEN s.business < business_policy(t).burst ELSE s.control < MaxControl
    BY DEF admissible
  <2> HIDE DEF j
  <2> QED
    BY <2>1, <2>2, <2>3, <2>4
<1>4. IsBusiness(j) => admitted_attempt_cost(j) <= u.row.deficit
  <2>1. u.row.deficit \in Nat /\ s.row.deficit \in Nat
    BY DEF VisitState, TenantSchedulerState
  <2>2. CASE s.row.deficit <= u.row.deficit
    BY <2>1, <2>2 DEF admissible, admitted_attempt_cost
  <2>3. CASE NoStart(D, t)
    BY <2>1, <2>3 DEF NoStart, admitted_attempt_cost
  <2> QED
    BY <2>2, <2>3 DEF VisitsAgree
<1>5. \A a \in accounts_of[j] : u.remaining[a] >= 1
  <2>1. accounts_of[j] \subseteq Accounts
    BY SchedulerAssumption
  <2>2. \A a \in Accounts : s.remaining[a] \in Int /\ u.remaining[a] \in Int /\ s.remaining[a] <= u.remaining[a]
    BY DEF VisitState, VisitsAgree
  <2>3. \A a \in accounts_of[j] : s.remaining[a] >= 1
    BY DEF admissible
  <2> HIDE DEF j
  <2> QED
    BY <2>1, <2>2, <2>3
<1> QED
  BY <1>1, <1>2, <1>3, <1>4, <1>5 DEF admissible

\* Both visits admit a Job of D, or only the one for E a Job that is not in D.
LEMMA AdmitAgrees ==
    ASSUME NEW s \in VisitState, NEW u \in VisitState, NEW t \in Tenants, NEW D, NEW j \in Jobs,
           VisitsAgree(s, u, D, t)
    PROVE  /\ j \in D => VisitsAgree(admit(s, j), admit(u, j), D, t)
           /\ j \notin D => VisitsAgree(admit(s, j), u, D, t)
<1> DEFINE c == IF IsBusiness(j) THEN admitted_attempt_cost(j) ELSE 0
<1>1. c \in Nat /\ s.row.deficit \in Nat /\ u.row.deficit \in Nat
  BY DEF admitted_attempt_cost, VisitState, TenantSchedulerState
<1>2. ASSUME NEW x \in VisitState
      PROVE  /\ admit(x, j).admitted = x.admitted \cup {j}
             /\ admit(x, j).row.deficit = x.row.deficit - c
             /\ \A a \in Accounts :
                   admit(x, j).remaining[a] =
                       IF a \in accounts_of[j] THEN x.remaining[a] - 1 ELSE x.remaining[a]
             /\ admit(x, j).business = IF IsBusiness(j) THEN x.business + 1 ELSE x.business
             /\ admit(x, j).control = IF IsBusiness(j) THEN x.control ELSE x.control + 1
  <2>1. x.row \in TenantSchedulerState /\ x.row.deficit \in Nat
    BY DEF VisitState, TenantSchedulerState
  <2>2. admit(x, j).row = [x.row EXCEPT !.deficit = IF IsBusiness(j) THEN @ - admitted_attempt_cost(j) ELSE @]
    BY DEF admit
  <2>3. admit(x, j).row.deficit = x.row.deficit - c
    BY <2>1, <2>2 DEF TenantSchedulerState
  <2> QED
    BY <2>3 DEF admit
<1> HIDE DEF c
<1>3. /\ u.admitted = s.admitted \cap D
      /\ \A a \in Accounts : s.remaining[a] <= u.remaining[a] /\ s.remaining[a] \in Int /\ u.remaining[a] \in Int
      /\ u.business <= s.business /\ u.control <= s.control
      /\ u.business \in Nat /\ s.business \in Nat /\ u.control \in Nat /\ s.control \in Nat
      /\ s.row.deficit <= u.row.deficit \/ NoStart(D, t)
  BY DEF VisitsAgree, VisitState
<1> DEFINE s2 == admit(s, j)
           u2 == admit(u, j)
<1>4. /\ s2.admitted = s.admitted \cup {j} /\ u2.admitted = u.admitted \cup {j}
      /\ s2.row.deficit = s.row.deficit - c /\ u2.row.deficit = u.row.deficit - c
      /\ \A a \in Accounts :
            /\ s2.remaining[a] = IF a \in accounts_of[j] THEN s.remaining[a] - 1 ELSE s.remaining[a]
            /\ u2.remaining[a] = IF a \in accounts_of[j] THEN u.remaining[a] - 1 ELSE u.remaining[a]
      /\ s2.business = (IF IsBusiness(j) THEN s.business + 1 ELSE s.business)
      /\ u2.business = (IF IsBusiness(j) THEN u.business + 1 ELSE u.business)
      /\ s2.control = (IF IsBusiness(j) THEN s.control ELSE s.control + 1)
      /\ u2.control = (IF IsBusiness(j) THEN u.control ELSE u.control + 1)
  BY <1>2
<1> HIDE DEF s2, u2
<1>5. /\ \A a \in Accounts : s2.remaining[a] <= u2.remaining[a] /\ s2.remaining[a] <= u.remaining[a]
      /\ u2.business <= s2.business /\ u2.control <= s2.control
      /\ u.business <= s2.business /\ u.control <= s2.control
  BY <1>3, <1>4
<1>6. s.row.deficit <= u.row.deficit => s2.row.deficit <= u2.row.deficit /\ s2.row.deficit <= u.row.deficit
  BY <1>1, <1>4
<1>7. ASSUME j \in D
      PROVE  VisitsAgree(s2, u2, D, t)
  <2>1. u2.admitted = s2.admitted \cap D
    BY <1>3, <1>4, <1>7
  <2> QED
    BY <1>3, <1>5, <1>6, <2>1 DEF VisitsAgree
<1>8. ASSUME j \notin D
      PROVE  VisitsAgree(s2, u, D, t)
  <2>1. u.admitted = s2.admitted \cap D
    BY <1>3, <1>4, <1>8
  <2> QED
    BY <1>3, <1>5, <1>6, <2>1 DEF VisitsAgree
<1> QED
  BY <1>7, <1>8 DEF s2, u2

\* The two visits of a tenant agree to the end of its page, if the one for E admits
\* every candidate in D.
LEMMA VisitAgrees ==
    ASSUME TypeOK, StoredRowsAreUsable, QueuesAreIndexes,
           NEW a \in BatchState, NEW b \in BatchState, NEW t \in Tenants,
           NEW E, NEW D, D \subseteq E, NEW limit \in Nat,
           BatchPart(a, t - 1, E), BatchesAgree(a, b, D),
           \A j \in D : owner[j] = t => j \in visit(a, t, E, limit).admitted
    PROVE  BatchesAgree(visit(a, t, E, limit), visit(b, t, D, limit), D)
<1> DEFINE N == Len(page(t))
           p == page(t)
           f == visit_steps(a, t, E, limit)
           g == visit_steps(b, t, D, limit)
           T == {k \in 0..N : VisitsAgree(f[k], g[k], D, t)}
<1>1. /\ N \in Nat /\ \A i \in 1..N : p[i] \in Jobs /\ owner[p[i]] = t
  BY PageFacts
<1>2. /\ f \in [0..N -> VisitState] /\ f[0] = open_visit(a, t, E)
      /\ \A i \in 1..N : f[i] = consider(f[i - 1], t, p[i], E, limit)
  BY VisitSteps
<1>3. /\ g \in [0..N -> VisitState] /\ g[0] = open_visit(b, t, D)
      /\ \A i \in 1..N : g[i] = consider(g[i - 1], t, p[i], D, limit)
  BY VisitSteps
<1>4. \A i \in 0..N : VisitPart(f[i], a, t, E)
  BY VisitHolds
<1>5. \A i \in 1..N : p[i] \in f[N].admitted => p[i] \in E /\ admissible(f[i - 1], t, p[i], limit)
  BY AdmittedWhenConsidered
<1>6. /\ visit(a, t, E, limit).admitted = f[N].admitted
      /\ visit(a, t, E, limit).remaining = f[N].remaining
      /\ visit(b, t, D, limit).admitted = g[N].admitted
      /\ visit(b, t, D, limit).remaining = g[N].remaining
  BY VisitFields
<1>7. VisitsAgree(open_visit(a, t, E), open_visit(b, t, D), D, t)
  <2>1. credit(t, D) = credit(t, E) \/ NoStart(D, t)
    BY CreditsAgree
  <2>2. credit(t, D).deficit \in Nat /\ credit(t, E).deficit \in Nat
    BY CreditTypes DEF TenantSchedulerState
  <2>3. credit(t, E).deficit <= credit(t, D).deficit \/ NoStart(D, t)
    BY <2>1, <2>2
  <2> QED
    BY <2>3 DEF open_visit, VisitsAgree, BatchesAgree
<1> HIDE DEF f, g, N
<1>8. 0 \in T
  BY <1>1, <1>2, <1>3, <1>7
<1>9. ASSUME NEW k \in 1..N, k - 1 \in T
      PROVE  k \in T
  <2> DEFINE s == f[k - 1]
             u == g[k - 1]
             j == p[k]
  <2>1. s \in VisitState /\ u \in VisitState /\ VisitsAgree(s, u, D, t) /\ IsFiniteSet(s.admitted)
    BY <1>1, <1>2, <1>3, <1>4, <1>9 DEF VisitPart
  <2>2. j \in Jobs /\ f[k] = consider(s, t, j, E, limit) /\ g[k] = consider(u, t, j, D, limit)
    BY <1>1, <1>2, <1>3
  <2>3. j \in D => admissible(s, t, j, limit) /\ admissible(u, t, j, limit)
    <3>1. ASSUME j \in D
          PROVE  admissible(s, t, j, limit)
      BY <1>1, <1>5, <1>6, <3>1
    <3>2. ASSUME j \in D
          PROVE  admissible(u, t, j, limit)
      <4> HIDE DEF s, u
      <4> QED
        BY <2>1, <2>2, <3>1, <3>2, AdmissibleForFewer DEF N
    <3> QED
      BY <3>1, <3>2
  <2> HIDE DEF s, u, j
  <2>4. /\ j \in D => VisitsAgree(admit(s, j), admit(u, j), D, t)
        /\ j \notin D => VisitsAgree(admit(s, j), u, D, t)
    BY <2>1, <2>2, AdmitAgrees
  <2>5. VisitsAgree(f[k], g[k], D, t)
    <3>1. CASE j \in D
      BY <2>2, <2>3, <2>4, <3>1 DEF consider
    <3>2. CASE j \notin D
      BY <2>1, <2>2, <2>4, <3>2 DEF consider
    <3> QED
      BY <3>1, <3>2
  <2> QED
    BY <2>5
<1> HIDE DEF T
<1>10. \A k \in 0..N : k \in T
  BY <1>1, <1>8, <1>9, UpTo
<1>11. N \in T
  BY <1>1, <1>10
<1>12. VisitsAgree(f[N], g[N], D, t)
  BY <1>11 DEF T
<1> QED
  BY <1>6, <1>12 DEF VisitsAgree, BatchesAgree

\* The accounting of any part of a selected batch selects exactly that part.
LEMMA SettlementHolds ==
    ASSUME TypeOK, StoredRowsAreUsable, QueuesAreIndexes, QuotaIsKept
    PROVE  SettlementAgrees
<1> SUFFICES ASSUME NEW limit \in Limits, NEW D \in SUBSET select(Claimable, limit).admitted
             PROVE  select(D, limit).admitted = D
  BY DEF SettlementAgrees, settle_actual
<1> DEFINE E == Claimable
           f == select_steps(E, limit)
           g == select_steps(D, limit)
           T == {k \in 0..NTenants : BatchesAgree(f[k], g[k], D)}
<1>1. NTenants \in Nat /\ Tenants = 1..NTenants /\ limit \in Nat
  BY SchedulerAssumption DEF Tenants
<1>2. /\ f \in [0..NTenants -> BatchState]
      /\ f[0] = [admitted |-> {}, remaining |-> available_quota, tenants |-> tenant]
      /\ \A t \in 1..NTenants : f[t] = IF t \in window THEN visit(f[t - 1], t, E, limit) ELSE f[t - 1]
  BY SelectSteps
<1>3. /\ g \in [0..NTenants -> BatchState]
      /\ g[0] = [admitted |-> {}, remaining |-> available_quota, tenants |-> tenant]
      /\ \A t \in 1..NTenants : g[t] = IF t \in window THEN visit(g[t - 1], t, D, limit) ELSE g[t - 1]
  BY SelectSteps
<1>4. \A k \in 0..NTenants : BatchPart(f[k], k, E)
  BY SelectHolds
<1>5. D \subseteq f[NTenants].admitted
  BY DEF select
<1>6. \A j \in D : j \in f[owner[j]].admitted
  BY <1>5, AdmittedByOwnVisit
<1>7. select(D, limit).admitted = g[NTenants].admitted
  BY DEF select
<1> HIDE DEF E, f, g
<1>8. D \subseteq E
  BY <1>1, <1>4, <1>5 DEF BatchPart
<1>9. 0 \in T
  <2>1. \A a \in Accounts : available_quota[a] \in Int
    BY AvailableTypes
  <2>2. BatchesAgree(f[0], g[0], D)
    BY <1>2, <1>3, <2>1 DEF BatchesAgree
  <2> QED
    BY <1>1, <2>2
<1>10. ASSUME NEW t \in 1..NTenants, t - 1 \in T
       PROVE  t \in T
  <2> DEFINE a == f[t - 1]
             b == g[t - 1]
  <2>1. /\ a \in BatchState /\ b \in BatchState /\ t \in Tenants
        /\ BatchPart(a, t - 1, E) /\ BatchesAgree(a, b, D)
    BY <1>1, <1>2, <1>3, <1>4, <1>10
  <2>2. CASE t \in window
    <3>1. f[t] = visit(a, t, E, limit) /\ g[t] = visit(b, t, D, limit)
      BY <1>2, <1>3, <2>2
    <3>2. \A j \in D : owner[j] = t => j \in visit(a, t, E, limit).admitted
      BY <1>6, <3>1
    <3> HIDE DEF a, b
    <3>3. BatchesAgree(visit(a, t, E, limit), visit(b, t, D, limit), D)
      BY <1>1, <1>8, <2>1, <3>2, VisitAgrees
    <3> QED
      BY <3>1, <3>3
  <2>3. CASE t \notin window
    BY <1>2, <1>3, <2>1, <2>3
  <2> QED
    BY <2>2, <2>3
<1> HIDE DEF T
<1>11. \A k \in 0..NTenants : k \in T
  BY <1>1, <1>9, <1>10, UpTo
<1>12. BatchesAgree(f[NTenants], g[NTenants], D)
  BY <1>1, <1>11 DEF T
<1> QED
  BY <1>5, <1>7, <1>12 DEF BatchesAgree

-----------------------------------------------------------------------------
(* The theorems.                                                           *)

\* A partition without tenants satisfies the invariant.
LEMMA InitHolds == Init => SchedulerInvariant
<1> SUFFICES ASSUME Init
             PROVE  SchedulerInvariant
  OBVIOUS
<1> DEFINE r == [enrolled |-> "absent", active |-> TRUE, policy |-> Unbound,
                 deficit |-> 0, credited |-> FALSE, sweep |-> NoSweep]
<1>1. r \in TenantSchedulerState /\ \A t \in Tenants : tenant[t] = r
  BY DEF Init, TenantSchedulerState, NoSweep
<1>2. \A t \in Tenants : queue[t] = <<>> /\ Len(queue[t]) = 0 /\ DOMAIN queue[t] = {}
  BY DEF Init
<1>3. TypeOK
  <2>1. queue \in [Tenants -> Seq(Jobs)] /\ \A t \in Tenants : \A i \in DOMAIN queue[t] : owner[queue[t][i]] = t
    BY <1>2 DEF Init
  <2>2. tenant \in [Tenants -> TenantSchedulerState]
    BY <1>1 DEF Init
  <2>3. job \in [Jobs -> JobStanding]
    BY DEF Init, JobStanding
  <2>4. /\ partition \in SchedulerPartitionState /\ partition.cursor = NoTenant
        /\ version \in {0, 1} /\ visited \subseteq Tenants
    BY DEF Init, SchedulerPartitionState
  <2> QED
    BY <2>1, <2>2, <2>3, <2>4 DEF TypeOK
<1>4. StoredRowsAreUsable /\ SweepsRest
  <2>1. 0 <= MaxDeficit
    BY SchedulerAssumption
  <2>2. \A t \in Tenants : tenant[t].deficit = 0 /\ tenant[t].sweep = NoSweep
    BY <1>1
  <2>3. NoSweep.upper = 0 /\ NoSweep.after = 0
    BY DEF NoSweep
  <2> QED
    BY <1>2, <2>1, <2>2, <2>3 DEF StoredRowsAreUsable, SweepsRest
<1>5. QueuesAreIndexes
  <2>1. {j \in Jobs : job[j] # "absent"} = {}
    BY DEF Init
  <2> QED
    BY <1>2, <2>1, FS_EmptySet DEF QueuesAreIndexes
<1>6. QuotaIsKept
  <2>1. ASSUME NEW a \in Accounts
        PROVE  available_quota[a] >= 0
    <3>1. {j \in Jobs : job[j] = "claimed" /\ a \in accounts_of[j]} = {}
      BY DEF Init
    <3>2. available_quota[a] = limit_value[a] - 0
      BY <3>1, FS_EmptySet DEF available_quota
    <3> QED
      BY <3>2, SchedulerAssumption
  <2> QED
    BY <2>1 DEF QuotaIsKept
<1>7. RoundPart
  <2>1. Eligible = {}
    BY <1>1 DEF Eligible
  <2> QED
    BY <2>1 DEF RoundPart, Init
<1> QED
  BY <1>3, <1>4, <1>5, <1>6, <1>7 DEF SchedulerInvariant

\* Every step keeps the invariant.
LEMMA StepKeeps == SchedulerInvariant /\ [Next]_vars => SchedulerInvariant'
<1> SUFFICES ASSUME SchedulerInvariant, [Next]_vars
             PROVE  SchedulerInvariant'
  OBVIOUS
<1>1. CASE Claim
  BY <1>1, ClaimKeeps DEF Claim
<1>2. CASE Administration
  BY <1>2, CreateTenantKeeps, SetActiveKeeps, BindKeeps DEF Administration
<1>3. CASE JobTraffic
  <2>1. PICK j \in Jobs :
            \/ terminate_job(j)
            \/ corrupt_row(j)
            \/ \E standing \in {"parked", "due", "resumable"} :
                  change_standing(j, standing) \/ (standing # "resumable" /\ create_job(j, standing))
    BY <1>3 DEF JobTraffic
  <2>2. CASE terminate_job(j)
    BY <2>2, TerminateJobKeeps
  <2>3. CASE corrupt_row(j)
    BY <2>3, CorruptRowKeeps
  <2>4. ASSUME NEW standing \in {"parked", "due", "resumable"}, change_standing(j, standing)
        PROVE  SchedulerInvariant'
    BY <2>4, ChangeStandingKeeps
  <2>5. ASSUME NEW standing \in {"parked", "due", "resumable"}, standing # "resumable",
               create_job(j, standing)
        PROVE  SchedulerInvariant'
    BY <2>5, CreateJobKeeps
  <2> QED
    BY <2>1, <2>2, <2>3, <2>4, <2>5
<1>4. CASE UNCHANGED vars
  BY <1>4 DEF vars, SchedulerInvariant, TypeOK, StoredRowsAreUsable, SweepsRest, QueuesAreIndexes,
              QuotaIsKept, available_quota, RoundPart, Eligible
<1> QED
  BY <1>1, <1>2, <1>3, <1>4 DEF Next

\* The scheduler keeps its invariant, whatever claims, settlements, late commits,
\* damaged rows and policy changes do in between.
THEOREM SchedulerInvariantHolds == Spec => []SchedulerInvariant
  BY InitHolds, StepKeeps, PTL DEF Spec

\* The variables keep their types, and the partition row passes the checks of
\* SchedulerPartitionState::validate.
THEOREM SchedulerTypes == Spec => []TypeOK
<1>1. SchedulerInvariant => TypeOK
  BY DEF SchedulerInvariant
<1> QED
  BY <1>1, SchedulerInvariantHolds, PTL

\* No claim ever stores a fairness row the next one would reject as corrupt.
THEOREM RowsStayUsable == Spec => []StoredRowsAreUsable
<1>1. SchedulerInvariant => StoredRowsAreUsable
  BY DEF SchedulerInvariant
<1> QED
  BY <1>1, SchedulerInvariantHolds, PTL

\* However many Jobs a batch and the earlier ones claim, no account is overdrawn.
THEOREM ClaimsStayWithinQuota == Spec => []QuotaIsKept
<1>1. SchedulerInvariant => QuotaIsKept
  BY DEF SchedulerInvariant
<1> QED
  BY <1>1, SchedulerInvariantHolds, PTL

\* A round visits every tenant eligible in it once, for any number of tenants and
\* any size of the window.
THEOREM RoundsAreComplete == Spec => []RoundsVisitEveryone
<1>1. ASSUME SchedulerInvariant
      PROVE  RoundsVisitEveryone
  <2> USE <1>1 DEF SchedulerInvariant
  <2>1. InRange = {t \in Eligible : partition.cursor < t}
    BY BoundCoversEligible
  <2>2. Eligible \subseteq Tenants /\ (\A t \in Tenants : t \in Nat) /\ visited \subseteq Tenants
    BY SchedulerAssumption DEF Eligible, Tenants, TypeOK
  <2>3. partition.cursor \in Nat
    BY <2>2 DEF TypeOK, SchedulerPartitionState, NoTenant
  <2>4. \A t \in visited : ~(partition.cursor < t)
    BY <2>2, <2>3 DEF RoundPart
  <2>5. \A t \in Eligible : partition.cursor < t \/ t \in visited
    BY <2>2, <2>3 DEF RoundPart
  <2> QED
    BY <2>1, <2>4, <2>5 DEF RoundsVisitEveryone, RoundPart
<1> QED
  BY <1>1, SchedulerInvariantHolds, PTL

\* Every new attempt a claim starts is paid from its tenant's own credit.
THEOREM CreditPaysForAttempts == Spec => AttemptsArePaidFor
<1>1. ASSUME SchedulerInvariant, Next
      PROVE  \A t \in Tenants : PaidFor(t)
  <2>1. CASE Claim
    <3>1. PICK limit \in Limits : claim(limit)
      BY <2>1 DEF Claim
    <3>2. PICK claimed \in SUBSET Claimable : \E b \in BatchState :
              /\ BatchPart(b, NTenants, claimed) /\ b.admitted = claimed
              /\ job' = [j \in Jobs |-> IF j \in claimed THEN "claimed" ELSE job[j]]
              /\ persist(b.tenants, window)
              /\ version' = 1 - version /\ UNCHANGED queue
      BY <1>1, <3>1, ClaimFacts
    <3>3. PICK b \in BatchState :
              /\ BatchPart(b, NTenants, claimed) /\ b.admitted = claimed
              /\ job' = [j \in Jobs |-> IF j \in claimed THEN "claimed" ELSE job[j]]
              /\ persist(b.tenants, window)
      BY <3>2
    <3>4. \A t \in Tenants : tenant'[t].deficit = b.tenants[t].deficit
      BY <1>1, <3>3, PersistRows DEF BatchState
    <3>5. ASSUME NEW t \in Tenants, started(t) # {}
          PROVE  /\ tenant[t].policy # Unbound
                 /\ Cardinality(started(t)) + tenant'[t].deficit
                       <= tenant[t].deficit + tenant[t].policy.weight
      <4>1. started(t) \subseteq Starts(b.admitted, t)
        BY <3>3 DEF Starts, started
      <4>2. Starts(b.admitted, t) \subseteq b.admitted /\ IsFiniteSet(b.admitted)
        BY <3>3 DEF Starts, BatchPart
      <4>3. RowPart(b.tenants[t], t, b.admitted) /\ b.tenants[t].deficit \in Nat
        BY <3>3 DEF BatchPart, BatchState, TenantSchedulerState
      <4>4. IsFiniteSet(Starts(b.admitted, t)) /\ Cardinality(Starts(b.admitted, t)) \in Nat
        BY <4>2, FS_Subset, FS_CardinalityType
      <4>5. IsFiniteSet(started(t)) /\ Cardinality(started(t)) <= Cardinality(Starts(b.admitted, t))
        BY <4>1, <4>4, FS_Subset
      <4>6. Cardinality(started(t)) \in Nat
        BY <4>5, FS_CardinalityType
      <4>7. Starts(b.admitted, t) # {}
        BY <3>5, <4>1
      <4>8. tenant[t].policy # Unbound /\ Cardinality(Starts(b.admitted, t)) + b.tenants[t].deficit <= Credit(t)
        BY <4>3, <4>7 DEF RowPart
      <4>9. Credit(t) = tenant[t].deficit + tenant[t].policy.weight /\ Credit(t) \in Nat
        BY <1>1, <4>8, CreditIsNat DEF Credit, SchedulerInvariant
      <4>10. Cardinality(started(t)) + tenant'[t].deficit <= Credit(t)
        BY <3>4, <4>3, <4>4, <4>5, <4>6, <4>8, <4>9
      <4> QED
        BY <4>8, <4>9, <4>10
    <3> QED
      BY <3>5 DEF PaidFor
  <2>2. CASE Administration \/ JobTraffic
    <3>1. \A j \in Jobs : job'[j] = "claimed" => job[j] = "claimed"
      <4>1. job \in [Jobs -> JobStanding]
        BY <1>1 DEF SchedulerInvariant, TypeOK
      <4>2. CASE Administration
        BY <4>2 DEF Administration, create_tenant, set_active, bind_locked_tenant_scheduler_policy
      <4>3. CASE JobTraffic
        BY <4>1, <4>3 DEF JobTraffic, terminate_job, corrupt_row, change_standing, create_job
      <4> QED
        BY <2>2, <4>2, <4>3
    <3>2. \A t \in Tenants : started(t) = {}
      BY <3>1 DEF started
    <3> QED
      BY <3>2 DEF PaidFor
  <2> QED
    BY <1>1, <2>1, <2>2 DEF Next
<1>2. SchedulerInvariant /\ [Next]_vars => [\A t \in Tenants : PaidFor(t)]_vars
  BY <1>1
<1> QED
  BY <1>2, SchedulerInvariantHolds, PTL DEF Spec, AttemptsArePaidFor

\* Whatever part of a selected batch could really be claimed, settle_actual accounts
\* for exactly that part: it never answers that the claim accounting differs.
THEOREM SettlementAlwaysAgrees == Spec => []SettlementAgrees
<1>1. SchedulerInvariant => SettlementAgrees
  BY SettlementHolds DEF SchedulerInvariant
<1> QED
  BY <1>1, SchedulerInvariantHolds, PTL

====
