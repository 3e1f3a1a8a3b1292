--------------------------- MODULE PlannerProofs ----------------------------
(***************************************************************************)
(* What the planner guarantees for every host, profile and process list.   *)
(*                                                                         *)
(* The properties are about accepted plans, and the last check of          *)
(* BuildPlan only compares CPU sets, so by themselves they are not         *)
(* inductive: that an exclusive cpuset lies in the isolated pool, or that  *)
(* a whole-pool process meets a carved slice, depends on how every         *)
(* assignment was made.  IndInv carries that history along the plan, and   *)
(* FitInv how much of the pool it has used.                                *)
(*                                                                         *)
(* The last part is about the lists of CPUs in which the code keeps what   *)
(* Planner takes to be sets: ListInv follows a list through the operations *)
(* on it, its text and both parsers.                                       *)
(***************************************************************************)
EXTENDS Planner, Topology, CPUList,
        SequenceTheorems, FiniteSetTheorems, WellFoundedInduction, TLAPS

-----------------------------------------------------------------------------
(* Induction and recursion on the natural numbers, with sets and functions  *)
(* where textbooks have predicates: the property to prove is the set of the *)
(* numbers that have it, and the steps of a recursion are functions of the  *)
(* value before.                                                            *)

\* Any nonempty set of natural numbers has a least element.
LEMMA LeastElement ==
  ASSUME NEW T \in SUBSET Nat, T # {}
  PROVE  \E x \in T : \A y \in T : x <= y
<1>1. PICK x \in T : \A y \in T : ~ (<<y, x>> \in OpToRel(<, Nat))
  BY WFMin, NatLessThanWellFounded
<1>2. \A y \in T : y \in Nat /\ x \in Nat /\ ~(y < x)
  BY <1>1 DEF OpToRel
<1>3. QED
  BY <1>2

\* A set that contains 0 and the successor of each of its elements contains
\* every natural number.
LEMMA Induction ==
  ASSUME NEW S \in SUBSET Nat, 0 \in S, \A n \in S : n + 1 \in S
  PROVE  \A n \in Nat : n \in S
<1> SUFFICES ASSUME Nat \ S # {} PROVE FALSE
  OBVIOUS
<1>1. PICK m \in Nat \ S : \A y \in Nat \ S : m <= y
  BY LeastElement
<1>2. m # 0 /\ m - 1 \in Nat /\ ~(m <= m - 1) /\ (m - 1) + 1 = m
  BY <1>1
<1>3. m - 1 \in S
  BY <1>1, <1>2
<1>4. QED
  BY <1>1, <1>2, <1>3

\* f holds the values of the recursion that starts with b and takes n steps.
Computes(f, b, step, n) == f[0] = b /\ \A k \in 1..n : f[k] = step[k][f[k - 1]]

\* The values of a recursion of n steps are of type T when the first is and
\* every step leads from T to T.
LEMMA RecursiveFunction ==
  ASSUME NEW T, NEW b \in T, NEW n \in Nat, NEW step \in [1..n -> [T -> T]]
  PROVE  \E f \in [0..n -> T] : Computes(f, b, step, n)
<1> USE DEF Computes
<1> DEFINE S == {m \in Nat : m <= n => \E f \in [0..m -> T] : Computes(f, b, step, m)}
<1>1. 0 \in S
  <2>1. [k \in 0..0 |-> b] \in [0..0 -> T] /\ Computes([k \in 0..0 |-> b], b, step, 0)
    OBVIOUS
  <2>2. QED
    BY <2>1
<1>2. ASSUME NEW m \in S, m + 1 <= n
      PROVE  \E g \in [0..(m + 1) -> T] : Computes(g, b, step, m + 1)
  <2>1. m \in Nat /\ m <= n
    BY <1>2
  <2>2. PICK f \in [0..m -> T] : Computes(f, b, step, m)
    BY <2>1
  <2>3. f[m] \in T /\ step[m + 1] \in [T -> T]
    BY <1>2, <2>1
  <2> DEFINE g == [k \in 0..(m + 1) |-> IF k <= m THEN f[k] ELSE step[m + 1][f[m]]]
  <2>4. g \in [0..(m + 1) -> T]
    BY <2>1, <2>3
  <2>5. \A k \in 0..m : g[k] = f[k]
    BY <2>1
  <2>6. g[m + 1] = step[m + 1][g[(m + 1) - 1]]
    BY <2>1
  <2>7. \A k \in 1..m : g[k] = step[k][g[k - 1]]
    BY <2>1, <2>2, <2>5
  <2>8. Computes(g, b, step, m + 1)
    BY <2>1, <2>2, <2>5, <2>6, <2>7
  <2>9. QED
    BY <2>4, <2>8
<1>3. \A m \in Nat : m \in S
  <2> HIDE DEF Computes
  <2>1. ASSUME NEW m \in S PROVE m + 1 \in S
    <3>1. m \in Nat /\ m + 1 \in Nat
      OBVIOUS
    <3>2. CASE m + 1 <= n
      BY <1>2, <3>1, <3>2
    <3>3. CASE ~(m + 1 <= n)
      BY <3>1, <3>3
    <3>4. QED
      BY <3>2, <3>3
  <2>2. QED
    BY <1>1, <2>1, Induction
<1>4. QED
  BY <1>3

-----------------------------------------------------------------------------
(* Slices of CPU sets *)

\* A subset of the host's CPUs is finite, and its size a natural number.
LEMMA CPUSetFinite ==
  ASSUME NEW S \in SUBSET CPU
  PROVE  IsFiniteSet(S) /\ Cardinality(S) \in Nat
BY CPUAssumption, FS_Subset, FS_CardinalityType

\* A slice from either end: the CPUs with fewer than n before them in the order R.
Rank(S, R, c) == Cardinality({d \in S : <<d, c>> \in R})
Slice(S, R, n) == {c \in S : Rank(S, R, c) < n}

StrictOrder(S, R) ==
  /\ \A c \in S : <<c, c>> \notin R
  /\ \A c, d, e \in S : (<<c, d>> \in R /\ <<d, e>> \in R) => <<c, e>> \in R
  /\ \A c, d \in S : c # d => (<<c, d>> \in R \/ <<d, c>> \in R)

\* Ranks are natural numbers and follow the order.
LEMMA RankFacts ==
  ASSUME NEW S \in SUBSET CPU, NEW R, StrictOrder(S, R)
  PROVE  /\ \A c \in S : Rank(S, R, c) \in Nat /\ Rank(S, R, c) < Cardinality(S)
         /\ \A c, d \in S : <<c, d>> \in R => Rank(S, R, c) < Rank(S, R, d)
<1> DEFINE Below(c) == {d \in S : <<d, c>> \in R}
<1>1. \A T \in SUBSET S : IsFiniteSet(T) /\ Cardinality(T) \in Nat
  BY CPUSetFinite
<1>2. \A T \in SUBSET S : \A U \in SUBSET T : U # T => Cardinality(U) < Cardinality(T)
  <2>1. ASSUME NEW T \in SUBSET S, NEW U \in SUBSET T, U # T
        PROVE  Cardinality(U) < Cardinality(T)
    <3>1. IsFiniteSet(T) /\ Cardinality(T) \in Nat /\ Cardinality(U) \in Nat
      BY <1>1
    <3>2. Cardinality(U) <= Cardinality(T) /\ Cardinality(U) # Cardinality(T)
      BY <2>1, <3>1, FS_Subset
    <3>3. QED
      BY <3>1, <3>2
  <2>2. QED
    BY <2>1
<1>3. ASSUME NEW c \in S
      PROVE  Rank(S, R, c) \in Nat /\ Rank(S, R, c) < Cardinality(S)
  <2>1. Below(c) \in SUBSET S /\ S \in SUBSET S /\ Below(c) # S
    BY DEF StrictOrder
  <2>2. QED
    BY <1>1, <1>2, <2>1 DEF Rank
<1>4. ASSUME NEW c \in S, NEW d \in S, <<c, d>> \in R
      PROVE  Rank(S, R, c) < Rank(S, R, d)
  <2>1. Below(c) \in SUBSET Below(d) /\ c \in Below(d) /\ c \notin Below(c)
    BY <1>4 DEF StrictOrder
  <2>2. Below(d) \in SUBSET S /\ Below(c) # Below(d)
    BY <2>1
  <2>3. QED
    BY <1>2, <2>1, <2>2 DEF Rank
<1>5. QED
  BY <1>3, <1>4

\* One more is asked for: the slice gains the least element outside it.
LEMMA SliceGrows ==
  ASSUME NEW S \in SUBSET CPU, NEW R, StrictOrder(S, R), NEW n \in Nat,
         n < Cardinality(S), Cardinality(Slice(S, R, n)) = n
  PROVE  Cardinality(Slice(S, R, n + 1)) = n + 1
<1> DEFINE F == Slice(S, R, n)
           T == S \ F
           rank(c) == Rank(S, R, c)
<1>1. /\ \A c \in S : rank(c) \in Nat
      /\ \A c, d \in S : <<c, d>> \in R => rank(c) < rank(d)
  BY RankFacts
<1>2. F \in SUBSET S /\ \A c \in S : c \in F <=> rank(c) < n
  BY DEF Slice
<1>3. IsFiniteSet(F) /\ IsFiniteSet(S) /\ Cardinality(S) \in Nat
  BY <1>2, CPUSetFinite
<1>4. T # {}
  <2>1. F # S
    BY <1>3
  <2>2. QED
    BY <1>2, <2>1
<1> HIDE DEF F
<1>5. PICK m \in T : \A c \in T : rank(m) <= rank(c)
  <2> DEFINE ranks == {rank(c) : c \in T}
  <2>1. ranks \in SUBSET Nat /\ ranks # {}
    BY <1>1, <1>4
  <2>2. PICK r \in ranks : \A q \in ranks : r <= q
    <3> HIDE DEF ranks
    <3>1. QED
      BY <2>1, LeastElement
  <2>3. QED
    BY <2>2
<1>6. {d \in S : <<d, m>> \in R} = F
  <2>1. ASSUME NEW d \in S, <<d, m>> \in R PROVE d \in F
    <3>1. rank(d) < rank(m) /\ rank(d) \in Nat /\ rank(m) \in Nat
      BY <1>1, <1>5, <2>1
    <3>2. d \notin T
      BY <1>5, <3>1
    <3>3. QED
      BY <3>2
  <2>2. ASSUME NEW d \in F PROVE <<d, m>> \in R
    <3>1. d \in S /\ m \in S /\ d # m /\ rank(d) < n /\ ~(rank(m) < n)
      BY <1>2, <1>5
    <3>2. ~(<<m, d>> \in R)
      BY <1>1, <3>1
    <3>3. QED
      BY <3>1, <3>2 DEF StrictOrder
  <2>3. QED
    BY <1>2, <2>1, <2>2
<1>7. rank(m) = n
  BY <1>6 DEF Rank, F
<1>8. Slice(S, R, n + 1) = F \cup {m}
  <2>1. ASSUME NEW c \in S, rank(c) < n + 1, c \notin F PROVE c = m
    <3>1. rank(c) \in Nat /\ rank(c) = n
      BY <1>1, <1>2, <2>1
    <3>2. ~(<<c, m>> \in R) /\ ~(<<m, c>> \in R)
      BY <1>1, <1>5, <1>7, <3>1
    <3>3. QED
      BY <1>5, <3>2 DEF StrictOrder
  <2>2. \A c \in F : c \in S /\ rank(c) < n + 1
    BY <1>1, <1>2
  <2>3. m \in S /\ rank(m) < n + 1
    BY <1>5, <1>7
  <2>4. QED
    BY <2>1, <2>2, <2>3 DEF Slice
<1>9. m \notin F
  BY <1>5
<1>10. Cardinality(F) = n
  BY DEF F
<1>11. Cardinality(F \cup {m}) = Cardinality(F) + 1
  BY <1>3, <1>9, FS_AddElement
<1>12. QED
  BY <1>8, <1>10, <1>11

\* A slice has the length that is asked for, as far as there are CPUs.
LEMMA SliceSize ==
  ASSUME NEW S \in SUBSET CPU, NEW R, StrictOrder(S, R), NEW n \in Nat
  PROVE  /\ n <= Cardinality(S) => Cardinality(Slice(S, R, n)) = n
         /\ Cardinality(S) <= n => Slice(S, R, n) = S
<1>1. Cardinality(S) \in Nat
  BY CPUSetFinite
<1>2. n <= Cardinality(S) => Cardinality(Slice(S, R, n)) = n
  <2> DEFINE P == {k \in Nat : k <= Cardinality(S) => Cardinality(Slice(S, R, k)) = k}
  <2>1. 0 \in P
    <3>1. Slice(S, R, 0) = {}
      BY RankFacts DEF Slice
    <3>2. QED
      BY <3>1, FS_EmptySet
  <2>2. \A k \in P : k + 1 \in P
    BY <1>1, SliceGrows
  <2> HIDE DEF P
  <2>3. P \in SUBSET Nat
    BY DEF P
  <2>4. n \in P
    BY <2>1, <2>2, <2>3, Induction
  <2>5. QED
    BY <2>4 DEF P
<1>3. Cardinality(S) <= n => Slice(S, R, n) = S
  BY <1>1, RankFacts DEF Slice
<1>4. QED
  BY <1>2, <1>3

\* CPUList.Take, and l[len(l)-n:].
LEMMA FirstNSize ==
  ASSUME NEW S \in SUBSET CPU, NEW n \in Nat
  PROVE  /\ n <= Cardinality(S) => Cardinality(FirstN(S, n)) = n
         /\ Cardinality(S) <= n => FirstN(S, n) = S
<1> DEFINE R == {p \in S \X S : p[1] < p[2]}
<1>1. \A c, d \in S : c \in Nat /\ (<<c, d>> \in R <=> c < d)
  BY CPUAssumption
<1>2. StrictOrder(S, R)
  <2> HIDE DEF R
  <2>1. \A c \in S : <<c, c>> \notin R
    BY <1>1
  <2>2. ASSUME NEW c \in S, NEW d \in S
        PROVE  c # d => (<<c, d>> \in R \/ <<d, c>> \in R)
    BY <1>1
  <2>3. ASSUME NEW c \in S, NEW d \in S, NEW e \in S, <<c, d>> \in R, <<d, e>> \in R
        PROVE  <<c, e>> \in R
    <3>1. c \in Nat /\ d \in Nat /\ e \in Nat
      BY <1>1
    <3>2. QED
      BY <1>1, <2>3, <3>1
  <2>4. QED
    BY <2>1, <2>2, <2>3 DEF StrictOrder
<1>3. FirstN(S, n) = Slice(S, R, n)
  <2>1. \A c \in S : {d \in S : d < c} = {d \in S : <<d, c>> \in R}
    BY <1>1
  <2>2. \A c \in S : Cardinality({d \in S : d < c}) = Rank(S, R, c)
    BY <2>1 DEF Rank
  <2>3. QED
    BY <2>2 DEF FirstN, Slice
<1>4. QED
  BY <1>2, <1>3, SliceSize

\* The last n CPUs of a set are n, or all of it.
LEMMA LastNSize ==
  ASSUME NEW S \in SUBSET CPU, NEW n \in Nat
  PROVE  /\ n <= Cardinality(S) => Cardinality(LastN(S, n)) = n
         /\ Cardinality(S) <= n => LastN(S, n) = S
<1> DEFINE R == {p \in S \X S : p[1] > p[2]}
<1>1. \A c, d \in S : c \in Nat /\ (<<c, d>> \in R <=> c > d)
  BY CPUAssumption
<1>2. StrictOrder(S, R)
  <2> HIDE DEF R
  <2>1. \A c \in S : <<c, c>> \notin R
    BY <1>1
  <2>2. ASSUME NEW c \in S, NEW d \in S
        PROVE  c # d => (<<c, d>> \in R \/ <<d, c>> \in R)
    BY <1>1
  <2>3. ASSUME NEW c \in S, NEW d \in S, NEW e \in S, <<c, d>> \in R, <<d, e>> \in R
        PROVE  <<c, e>> \in R
    <3>1. c \in Nat /\ d \in Nat /\ e \in Nat
      BY <1>1
    <3>2. QED
      BY <1>1, <2>3, <3>1
  <2>4. QED
    BY <2>1, <2>2, <2>3 DEF StrictOrder
<1>3. LastN(S, n) = Slice(S, R, n)
  <2>1. \A c \in S : {d \in S : d > c} = {d \in S : <<d, c>> \in R}
    BY <1>1
  <2>2. \A c \in S : Cardinality({d \in S : d > c}) = Rank(S, R, c)
    BY <2>1 DEF Rank
  <2>3. QED
    BY <2>2 DEF LastN, Slice
<1>4. QED
  BY <1>2, <1>3, SliceSize

\* The slices of a nonempty list are nonempty parts of it.
LEMMA LastNNonEmpty ==
  ASSUME NEW S \in SUBSET CPU, S # {}, NEW n \in Nat \ {0}
  PROVE  LastN(S, n) # {} /\ LastN(S, n) \subseteq S
<1>1. LastN(S, n) # {}
  BY LastNSize, CPUSetFinite, FS_EmptySet
<1>2. QED
  BY <1>1 DEF LastN

\* A carve of at least one CPU from a pool that is not empty is not empty.
LEMMA FirstNNonEmpty ==
  ASSUME NEW S \in SUBSET CPU, S # {}, NEW n \in Nat \ {0}
  PROVE  FirstN(S, n) # {} /\ FirstN(S, n) \subseteq S
<1>1. FirstN(S, n) # {}
  BY FirstNSize, CPUSetFinite, FS_EmptySet
<1>2. QED
  BY <1>1 DEF FirstN

-----------------------------------------------------------------------------
(* Type correctness, and the state step 1 leaves *)

\* Past the first step the profile has passed Validate.
ProfileInv == pc \notin {"validate", "error"} => ValidProfile(profile)

\* Which exclusive cpusets step 1 has reserved so far, and what is left.
OverrideInv ==
  /\ pc = "validate" => taken = << >>
  /\ pc \notin {"validate", "error"} =>
       /\ todo \subseteq DOMAIN profile.componentMap
       /\ pc # "overrides" => todo = {}
       /\ DOMAIN taken = {n \in DOMAIN profile.componentMap \ todo : ExclusiveOverride(n)}
       /\ \A n \in DOMAIN taken : taken[n] = Tuning(n).cpus /\ taken[n] \subseteq profile.isolated
       /\ \A m, n \in DOMAIN taken : m # n => Disjoint(taken[m], taken[n])
       /\ workload = profile.isolated \ UNION {taken[n] : n \in DOMAIN taken}

BaseInv == TypeOK /\ ProfileInv /\ OverrideInv

\* What a componentMap lookup returns in a state with a typed profile.
LEMMA TuningType ==
  ASSUME profile \in Profiles, NEW n
  PROVE  /\ Tuning(n).gomaxprocsOverride \in Nat
         /\ Tuning(n).cpus = Unset \/ Tuning(n).cpus \in SUBSET CPU
         /\ Tuning(n).cpus # Unset => n \in DOMAIN profile.componentMap
         /\ Tuning(n).class # Unset => n \in DOMAIN profile.componentMap
BY ProfileAssumption
   DEF Tuning, NoTuning, IsPerformanceProfile, ComponentTuning

\* The class every process is planned with is one of the five.
LEMMA VictimClassType ==
  ASSUME profile \in Profiles, ValidProfile(profile)
  PROVE  VictimClass \in Classes
<1>1. CASE Victim \in DOMAIN profile.componentMap
  BY <1>1 DEF VictimClass, Tuning, ValidProfile, Classes
<1>2. CASE Victim \notin DOMAIN profile.componentMap
  BY <1>2 DEF VictimClass, Tuning, NoTuning, Classes
<1>3. QED
  BY <1>1, <1>2

\* An action that only appends one assignment made of typed parts keeps the
\* plan a sequence of assignments.
LEMMA AppendType ==
  ASSUME NEW p \in Seq(Assignment), NEW x \in Assignment
  PROVE  /\ Append(p, x) \in Seq(Assignment)
         /\ Len(Append(p, x)) = Len(p) + 1
         /\ \A k \in DOMAIN p : Append(p, x)[k] = p[k]
         /\ Append(p, x)[Len(p) + 1] = x
         /\ DOMAIN Append(p, x) = DOMAIN p \cup {Len(p) + 1}
         /\ DOMAIN p = 1..Len(p)
         /\ Len(p) \in Nat
OBVIOUS

\* The assignment Assign appends is a well-typed one.
LEMMA AssignType ==
  ASSUME TypeOK, pc = "workers", Len(plan) < Len(flat),
         ClassOf(Current.comp) \in Classes,
         NEW cpus \in SUBSET CPU, NEW e \in BOOLEAN, NEW s \in Sources,
         NEW rest \in SUBSET CPU, Assign(cpus, e, s, rest)
  PROVE  TypeOK'
<1> DEFINE o == Tuning(Current.comp).gomaxprocsOverride
           x == [comp |-> Current.comp, replica |-> Current.replica,
                 class |-> ClassOf(Current.comp), cpus |-> cpus, exclusive |-> e,
                 gomaxprocs |-> IF o > 0 THEN o ELSE Cardinality(cpus),
                 source |-> s]
<1>1. Len(plan) \in Nat /\ Len(flat) \in Nat /\ flat \in Seq(FlatProcess)
  BY WorkloadAssumption DEF TypeOK
<1>2. Len(plan) + 1 \in 1..Len(flat)
  BY <1>1
<1>3. Current \in FlatProcess
  BY <1>1, <1>2 DEF Current
<1>4. o \in Nat /\ Cardinality(cpus) \in Nat
  BY TuningType, CPUSetFinite DEF TypeOK
<1>5. x.gomaxprocs \in Nat
  BY <1>4
<1>6. x \in Assignment
  BY <1>3, <1>5 DEF Assignment, FlatProcess
<1>7. plan' = Append(plan, x)
  BY DEF Assign
<1>8. plan' \in Seq(Assignment)
  BY <1>6, <1>7, AppendType DEF TypeOK
<1>9. QED
  BY <1>8 DEF TypeOK, Assign

\* The part of the state that OverrideInv speaks of.
LEMMA OverrideStable ==
  ASSUME BaseInv, pc \notin {"validate", "overrides"},
         pc' \notin {"validate", "overrides"}, pc = "error" => pc' = "error",
         UNCHANGED <<profile, todo, taken, workload>>
  PROVE  (ProfileInv /\ OverrideInv)'
<1>1. \A n : ExclusiveOverride(n)' = ExclusiveOverride(n) /\ Tuning(n)' = Tuning(n)
  BY DEF ExclusiveOverride, Tuning
<1>2. QED
  <2>1. ProfileInv /\ OverrideInv
    BY DEF BaseInv
  <2>2. ProfileInv'
    BY <2>1 DEF ProfileInv
  <2>3. OverrideInv'
    <3>1. CASE pc' = "error"
      BY <3>1 DEF OverrideInv
    <3>2. CASE pc' # "error"
      <4>1. /\ todo = {}
            /\ DOMAIN taken = {n \in DOMAIN profile.componentMap : ExclusiveOverride(n)}
            /\ \A n \in DOMAIN taken :
                 taken[n] = Tuning(n).cpus /\ taken[n] \subseteq profile.isolated
            /\ \A m, n \in DOMAIN taken : m # n => Disjoint(taken[m], taken[n])
            /\ workload = profile.isolated \ UNION {taken[n] : n \in DOMAIN taken}
        BY <2>1, <3>2 DEF OverrideInv
      <4>2. QED
        BY <4>1, <1>1 DEF OverrideInv
    <3>3. QED
      BY <3>1, <3>2
  <2>4. QED
    BY <2>2, <2>3

\* A process of an explicit exclusive component finds its cpuset in
\* exclusiveTaken.
LEMMA ExclusiveWasTaken ==
  ASSUME BaseInv, pc = "workers", NEW n,
         ClassOf(n) = "isolated-exclusive", Tuning(n).cpus # Unset
  PROVE  n \in DOMAIN taken
<1>1. n \in DOMAIN profile.componentMap
  BY TuningType DEF BaseInv, TypeOK
<1>2. Tuning(n).class \in Classes
  BY <1>1 DEF BaseInv, ProfileInv, ValidProfile, Tuning
<1>3. Tuning(n).class = "isolated-exclusive"
  BY <1>2, UnsetAssumption DEF ClassOf
<1>4. QED
  BY <1>1, <1>3 DEF BaseInv, OverrideInv, ExclusiveOverride

\* One exclusive cpuset is reserved.
LEMMA TakeOverrideKeeps ==
  ASSUME BaseInv, NEW n \in Names, TakeOverride(n)
  PROVE  BaseInv'
<1>1. Tuning(n).cpus \in SUBSET CPU /\ n \in DOMAIN profile.componentMap
  BY TuningType DEF TakeOverride, ExclusiveOverride, BaseInv, TypeOK
<1>2. (TypeOK /\ ProfileInv)'
  BY <1>1 DEF TakeOverride, BaseInv, TypeOK, ProfileInv
<1>3. \A m : ExclusiveOverride(m)' = ExclusiveOverride(m) /\ Tuning(m)' = Tuning(m)
  BY DEF ExclusiveOverride, Tuning, TakeOverride
<1>4. /\ DOMAIN taken' = DOMAIN taken \cup {n}
      /\ taken'[n] = Tuning(n).cpus
      /\ \A m \in DOMAIN taken : m # n => taken'[m] = taken[m]
      /\ n \notin DOMAIN taken
  BY DEF TakeOverride, BaseInv, OverrideInv
<1>5. DOMAIN taken' = {m \in DOMAIN profile'.componentMap \ todo' : ExclusiveOverride(m)'}
  BY <1>1, <1>3, <1>4 DEF TakeOverride, BaseInv, OverrideInv
<1>6. \A m \in DOMAIN taken' :
        taken'[m] = Tuning(m).cpus' /\ taken'[m] \subseteq profile'.isolated
  BY <1>3, <1>4 DEF TakeOverride, OverrideFits, BaseInv, OverrideInv
<1>7. \A k, m \in DOMAIN taken' : k # m => Disjoint(taken'[k], taken'[m])
  BY <1>4 DEF TakeOverride, OverrideFits, BaseInv, OverrideInv, Disjoint
<1>8. workload' = profile'.isolated \ UNION {taken'[m] : m \in DOMAIN taken'}
  <2>1. workload' = workload \ taken'[n] /\ profile' = profile
    BY <1>4 DEF TakeOverride
  <2>2. workload = profile.isolated \ UNION {taken[m] : m \in DOMAIN taken}
    BY DEF TakeOverride, BaseInv, OverrideInv
  <2>3. UNION {taken'[m] : m \in DOMAIN taken'}
          = (UNION {taken[m] : m \in DOMAIN taken}) \cup taken'[n]
    BY <1>4
  <2>4. QED
    BY <2>1, <2>2, <2>3
<1>9. OverrideInv'
  BY <1>5, <1>6, <1>7, <1>8 DEF TakeOverride, BaseInv, OverrideInv
<1>10. QED
  BY <1>2, <1>9 DEF BaseInv

\* Init and every step keep the types, the validity of the profile and the
\* account of the reserved cpusets.
LEMMA BaseInductive ==
  /\ Init => BaseInv
  /\ BaseInv /\ [Next]_vars => BaseInv'
<1>1. Init => BaseInv
  BY DEF Init, BaseInv, TypeOK, ProfileInv, OverrideInv
<1>2. ASSUME BaseInv, [Next]_vars
      PROVE  BaseInv'
  <2> USE <1>2
  <2>0. /\ TypeOK /\ ProfileInv /\ OverrideInv
        /\ profile \in Profiles /\ IsPerformanceProfile(profile)
        /\ plan \in Seq(Assignment)
    BY ProfileAssumption DEF BaseInv, TypeOK
  <2>1. CASE UNCHANGED vars
    <3>1. \A n : ExclusiveOverride(n)' = ExclusiveOverride(n) /\ Tuning(n)' = Tuning(n)
      BY <2>1 DEF vars, ExclusiveOverride, Tuning
    <3>2. QED
      <4>1. (TypeOK /\ ProfileInv)'
        BY <2>0, <2>1 DEF vars, TypeOK, ProfileInv
      <4>2. OverrideInv'
        BY <2>0, <2>1, <3>1 DEF vars, OverrideInv
      <4>3. QED
        BY <4>1, <4>2 DEF BaseInv
  <2>2. CASE Fail
    BY <2>2 DEF Fail, BaseInv, TypeOK, ProfileInv, OverrideInv
  <2>3. CASE AcceptProfile
    BY <2>3, <2>0 DEF AcceptProfile, BaseInv, TypeOK, ProfileInv, OverrideInv,
                      IsPerformanceProfile
  <2>4. ASSUME NEW n \in Names, SkipOverride(n) \/ TakeOverride(n)
        PROVE  BaseInv'
    <3>1. CASE SkipOverride(n)
      <4>1. \A m : ExclusiveOverride(m)' = ExclusiveOverride(m) /\ Tuning(m)' = Tuning(m)
        BY <3>1 DEF SkipOverride, ExclusiveOverride, Tuning
      <4>2. QED
        BY <3>1, <4>1 DEF SkipOverride, BaseInv, TypeOK, ProfileInv, OverrideInv
    <3>2. QED
      BY <3>1, <2>4, TakeOverrideKeeps
  <2>5. CASE OverridesDone
    <3>1. \A n : ExclusiveOverride(n)' = ExclusiveOverride(n) /\ Tuning(n)' = Tuning(n)
      BY <2>5 DEF OverridesDone, ExclusiveOverride, Tuning
    <3>2. QED
      BY <2>5, <3>1 DEF OverridesDone, BaseInv, TypeOK, ProfileInv, OverrideInv
  <2>6. ASSUME NEW cpus \in SUBSET CPU, NEW e \in BOOLEAN, NEW s \in Sources,
               NEW rest \in SUBSET CPU, NEW cs \in SUBSET Classes,
               AtWorker(cs), Assign(cpus, e, s, rest)
        PROVE  BaseInv'
    <3>1. TypeOK'
      BY <2>6, <2>0, AssignType DEF AtWorker
    <3>2. QED
      BY <3>1, <2>6, OverrideStable DEF Assign, AtWorker, BaseInv
  <2>7. profile.reserved \in SUBSET CPU /\ workload \in SUBSET CPU /\ free \in SUBSET CPU
    BY <2>0 DEF IsPerformanceProfile, TypeOK
  <2>8. CASE AssignReserved
    BY <2>6, <2>7, <2>8 DEF AssignReserved, Classes, Sources
  <2>9. CASE AssignExclusiveOverride
    <3>1. taken[Current.comp] \in SUBSET CPU
      BY <2>0, <2>9, ExclusiveWasTaken DEF AssignExclusiveOverride, AtWorker, TypeOK
    <3>2. QED
      BY <3>1, <2>6, <2>7, <2>9 DEF AssignExclusiveOverride, Classes, Sources
  <2>10. CASE AssignExclusiveCarve
    <3>1. LastN(free, Width(Current)) \in SUBSET CPU
      BY <2>7 DEF LastN
    <3>2. free \ LastN(free, Width(Current)) \in SUBSET CPU
      BY <2>7
    <3>3. QED
      BY <3>1, <3>2, <2>6, <2>10 DEF AssignExclusiveCarve, Classes, Sources
  <2>11. CASE AssignSharedOverride
    <3>1. Tuning(Current.comp).cpus \in SUBSET CPU
      BY <2>0, <2>11, TuningType DEF AssignSharedOverride
    <3>2. QED
      BY <3>1, <2>6, <2>7, <2>11 DEF AssignSharedOverride, Classes, Sources
  <2>12. CASE AssignSharedCarve
    <3>1. FirstN(free, Width(Current)) \in SUBSET CPU
      BY <2>7 DEF FirstN
    <3>2. free \ FirstN(free, Width(Current)) \in SUBSET CPU
      BY <2>7
    <3>3. QED
      BY <3>1, <3>2, <2>6, <2>12 DEF AssignSharedCarve, Classes, Sources
  <2>13. CASE AssignSharedFallback
    BY <2>6, <2>7, <2>13 DEF AssignSharedFallback, Classes, Sources
  <2>14. CASE AssignBestEffort
    BY <2>6, <2>7, <2>14 DEF AssignBestEffort, Classes, Sources
  <2>15. CASE WorkersDone
    BY <2>0, <2>15, OverrideStable DEF WorkersDone, TypeOK, BaseInv
  <2>16. CASE AssignObserver
    <3> DEFINE x == [comp |-> Observer, replica |-> NoReplica, class |-> "reserved",
                     cpus |-> profile.reserved, exclusive |-> FALSE,
                     gomaxprocs |-> Cardinality(profile.reserved),
                     source |-> "reserved"]
    <3>1. x \in Assignment
      BY <2>7, CPUSetFinite, NameAssumption
      DEF Assignment, NoReplica, Classes, Sources
    <3>2. plan' = Append(plan, x)
      BY <2>16 DEF AssignObserver
    <3>3. plan' \in Seq(Assignment)
      BY <3>1, <3>2, <2>0, AppendType
    <3>4. TypeOK'
      BY <2>0, <3>3, <2>16 DEF AssignObserver, TypeOK
    <3>5. QED
      BY <3>4, <2>16, OverrideStable DEF AssignObserver, BaseInv
  <2>17. ASSUME NEW cpus \in SUBSET CPU, NEW s \in Sources,
                pc = "victim", PlaceVictim(cpus, s)
         PROVE  BaseInv'
    <3> DEFINE x == [comp |-> Victim, replica |-> NoReplica, class |-> VictimClass,
                     cpus |-> cpus, exclusive |-> VictimClass = "isolated-exclusive",
                     gomaxprocs |-> Cardinality(cpus), source |-> s]
    <3>1. VictimClass \in Classes
      BY <2>0, <2>17, VictimClassType DEF ProfileInv
    <3>2. x \in Assignment
      BY <3>1, CPUSetFinite, NameAssumption DEF Assignment, NoReplica
    <3>3. plan' = Append(plan, x)
      BY <2>17 DEF PlaceVictim
    <3>4. plan' \in Seq(Assignment)
      BY <3>2, <3>3, <2>0, AppendType
    <3>5. TypeOK'
      BY <2>0, <3>4, <2>17 DEF PlaceVictim, TypeOK
    <3>6. QED
      BY <3>5, <2>17, OverrideStable DEF PlaceVictim, BaseInv
  <2>18. CASE AssignVictimOverride
    <3>1. VictimOverride \in SUBSET CPU
      BY <2>0, TuningType DEF VictimOverride
    <3>2. QED
      BY <3>1, <2>17, <2>18 DEF AssignVictimOverride, Sources
  <2>19. CASE AssignVictimDefault
    <3>1. LastN(Candidate, VictimWidth) \in SUBSET CPU
      BY <2>0 DEF LastN, Candidate, IsPerformanceProfile
    <3>2. QED
      BY <3>1, <2>17, <2>19 DEF AssignVictimDefault, Sources
  <2>20. CASE AcceptPlan
    BY <2>0, <2>20, OverrideStable DEF AcceptPlan, TypeOK, BaseInv
  <2>21. QED
    BY <2>1, <2>2, <2>3, <2>4, <2>5, <2>8, <2>9, <2>10, <2>11, <2>12, <2>13,
       <2>14, <2>15, <2>16, <2>18, <2>19, <2>20
    DEF Next, RejectProfile, RejectOverride, RejectCarve, RejectVictim, RejectPlan
<1>3. QED
  BY <1>1, <1>2

\* Every reachable state of the planner is well typed.
THEOREM TypeCorrect == Spec => []TypeOK
<1>1. Spec => []BaseInv
  BY BaseInductive, PTL DEF Spec
<1>2. BaseInv => TypeOK
  BY DEF BaseInv
<1>3. QED
  BY <1>1, <1>2, PTL

\* Step 1 leaves a workload pool no explicit exclusive cpuset reaches.
THEOREM OverridesAreReserved == Spec => []OverridesReserved
<1>1. Spec => []BaseInv
  BY BaseInductive, PTL DEF Spec
<1>2. BaseInv => OverridesReserved
  BY DEF BaseInv, OverrideInv, OverridesReserved
<1>3. QED
  BY <1>1, <1>2, PTL

-----------------------------------------------------------------------------
(* How every assignment of the plan was made *)

\* How far the plan is at every part of BuildPlan.
LengthInv ==
  /\ pc \in {"validate", "overrides"} => plan = << >>
  /\ pc = "workers" => Len(plan) <= Len(flat)
  /\ pc = "observer" => Len(plan) = Len(flat)
  /\ pc = "victim" => Len(plan) = Len(flat) + 1
  /\ pc \in {"check", "ok"} => Len(plan) = Len(flat) + 2

\* The switch over the class, seen from its result x for the process fp.
WellMade(x, fp) ==
  /\ x.comp = fp.comp /\ x.replica = fp.replica
  /\ x.class = ClassOf(fp.comp)
  /\ x.exclusive <=> x.class = "isolated-exclusive"
  /\ \/ x.class = "reserved" /\ x.source = "reserved" /\ x.cpus = profile.reserved
     \/ /\ x.class = "isolated-exclusive" /\ x.source = "override"
        /\ x.comp \in DOMAIN taken /\ x.cpus = taken[x.comp]
     \/ x.class = "isolated-exclusive" /\ x.source = "back" /\ x.cpus \subseteq workload
     \/ x.class \in {"isolated-shared", "burstable"} /\ x.source = "override"
     \/ /\ x.class \in {"isolated-shared", "burstable"} /\ x.source = "front"
        /\ x.cpus \subseteq workload
     \/ /\ x.class \in {"isolated-shared", "burstable", "best-effort"}
        /\ x.source \in {"fallback", "pool"} /\ x.cpus = workload

WorkerInv ==
  pc # "error" => \A k \in DOMAIN plan : k <= Len(flat) => WellMade(plan[k], flat[k])

\* The two synthetic assignments at the end of the plan.
SyntheticInv ==
  /\ pc \in {"victim", "check", "ok"} =>
       /\ plan[Len(flat) + 1].comp = Observer
       /\ plan[Len(flat) + 1].replica = NoReplica
       /\ plan[Len(flat) + 1].class = "reserved"
       /\ plan[Len(flat) + 1].source = "reserved"
       /\ plan[Len(flat) + 1].exclusive = FALSE
  /\ pc \in {"check", "ok"} =>
       /\ plan[Len(flat) + 2].comp = Victim
       /\ plan[Len(flat) + 2].replica = NoReplica
       /\ plan[Len(flat) + 2].class = VictimClass
       /\ plan[Len(flat) + 2].source \in {"override", "default"}
       /\ plan[Len(flat) + 2].exclusive <=> VictimClass = "isolated-exclusive"
       /\ plan[Len(flat) + 2].cpus = victimCPUs
       /\ victimCPUs # {}
       /\ VictimClass = "isolated-exclusive" => victimCPUs \subseteq profile.isolated

\* The last check has been made.
CheckedInv == pc = "ok" => NoOverlap

PlanInv == LengthInv /\ WorkerInv /\ SyntheticInv /\ CheckedInv /\ CarvesPartitionPool

\* The assignment made for the current process, given what the switch decides.
NewAssignment(cpus, e, s, g) ==
  [comp |-> Current.comp, replica |-> Current.replica, class |-> ClassOf(Current.comp),
   cpus |-> cpus, exclusive |-> e, gomaxprocs |-> g, source |-> s]

\* One process is planned: enough is that its assignment is well made and
\* that a carved slice comes out of freeWorkload.
LEMMA AssignKeeps ==
  ASSUME BaseInv, PlanInv, NEW cs, AtWorker(cs), ClassOf(Current.comp) \in Classes,
         NEW cpus \in SUBSET CPU, NEW e \in BOOLEAN, NEW s \in Sources,
         NEW rest \in SUBSET CPU, Assign(cpus, e, s, rest),
         \A g \in Nat : WellMade(NewAssignment(cpus, e, s, g), Current),
         \/ s \notin {"front", "back"} /\ rest = free
         \/ /\ s \in {"front", "back"}
            /\ cpus \subseteq free /\ cpus # {} /\ rest = free \ cpus
  PROVE  PlanInv'
<1> DEFINE o == Tuning(Current.comp).gomaxprocsOverride
           g == IF o > 0 THEN o ELSE Cardinality(cpus)
           x == [comp |-> Current.comp, replica |-> Current.replica,
                 class |-> ClassOf(Current.comp), cpus |-> cpus, exclusive |-> e,
                 gomaxprocs |-> g, source |-> s]
           N == Len(plan) + 1
<1>1. /\ plan \in Seq(Assignment) /\ flat \in Seq(FlatProcess)
      /\ Len(plan) \in Nat /\ Len(flat) \in Nat /\ Len(plan) < Len(flat)
      /\ pc = "workers" /\ pc' = "workers" /\ free' = rest
      /\ UNCHANGED <<profile, flat, taken, workload, victimCPUs>>
  BY WorkloadAssumption DEF BaseInv, TypeOK, AtWorker, Assign
<1>2. N \in 1..Len(flat) /\ Current = flat[N] /\ Current \in FlatProcess
  BY <1>1 DEF Current
<1>3. g \in Nat
  <2>1. o \in Nat /\ Cardinality(cpus) \in Nat
    BY TuningType, CPUSetFinite DEF BaseInv, TypeOK
  <2>2. QED
    BY <2>1
<1>4. x \in Assignment
  BY <1>2, <1>3 DEF Assignment, FlatProcess
<1>5. /\ plan' = Append(plan, x)
      /\ WellMade(x, Current)
  BY <1>3 DEF Assign, NewAssignment
<1> HIDE DEF x, g
<1>6. /\ Len(plan') = N
      /\ \A k \in DOMAIN plan : plan'[k] = plan[k]
      /\ plan'[N] = x
      /\ DOMAIN plan' = DOMAIN plan \cup {N}
      /\ DOMAIN plan = 1..Len(plan)
  BY <1>1, <1>4, <1>5, AppendType
<1>7. LengthInv'
  BY <1>1, <1>6 DEF LengthInv
<1>8. WorkerInv'
  <2>1. \A k \in DOMAIN plan : k <= Len(flat) => WellMade(plan[k], flat[k])
    BY <1>1 DEF PlanInv, WorkerInv
  <2>2. \A k \in DOMAIN plan' : k <= Len(flat) => WellMade(plan'[k], flat[k])
    BY <2>1, <1>2, <1>5, <1>6
  <2>3. QED
    BY <2>2, <1>1 DEF WorkerInv, WellMade, ClassOf, Tuning, EffectiveDefaultClass
<1>9. SyntheticInv' /\ CheckedInv'
  BY <1>1 DEF SyntheticInv, CheckedInv
<1>10. CarvesPartitionPool'
  <2>0. x.source = s /\ x.cpus = cpus
    BY DEF x
  <2>1. /\ free = workload \ UNION {plan[k].cpus : k \in Carved}
        /\ \A k \in Carved : plan[k].cpus # {} /\ plan[k].cpus \subseteq workload
        /\ \A j, k \in Carved : j # k => Disjoint(plan[j].cpus, plan[k].cpus)
    BY <1>1 DEF PlanInv, CarvesPartitionPool, Carving
  <2>2. N \notin Carved /\ \A k \in Carved : k \in DOMAIN plan
    BY <1>1, <1>6 DEF Carved
  <2>3. CASE s \notin {"front", "back"} /\ rest = free
    <3>1. Carved' = Carved
      BY <2>0, <2>3, <1>1, <1>6 DEF Carved
    <3>2. {plan'[k].cpus : k \in Carved'} = {plan[k].cpus : k \in Carved}
      BY <3>1, <1>6, <2>2
    <3>3. QED
      BY <2>1, <2>2, <2>3, <3>1, <3>2, <1>1, <1>6
      DEF CarvesPartitionPool
  <2>4. CASE /\ s \in {"front", "back"}
             /\ cpus \subseteq free /\ cpus # {} /\ rest = free \ cpus
    <3>1. Carved' = Carved \cup {N}
      BY <2>0, <2>4, <1>1, <1>6 DEF Carved
    <3>2. UNION {plan'[k].cpus : k \in Carved'}
            = (UNION {plan[k].cpus : k \in Carved}) \cup cpus
      BY <3>1, <2>0, <1>6, <2>2
    <3>3. free' = workload' \ UNION {plan'[k].cpus : k \in Carved'}
      BY <3>2, <2>1, <2>4, <1>1
    <3>4. \A k \in Carved' : plan'[k].cpus # {} /\ plan'[k].cpus \subseteq workload'
      BY <3>1, <2>0, <2>1, <2>2, <2>4, <1>1, <1>6
    <3>5. \A k \in Carved : Disjoint(plan[k].cpus, cpus) /\ Disjoint(cpus, plan[k].cpus)
      BY <2>1, <2>4 DEF Disjoint
    <3>6. \A j, k \in Carved' : j # k => Disjoint(plan'[j].cpus, plan'[k].cpus)
      BY <3>1, <3>5, <2>0, <2>1, <2>2, <1>6
    <3>7. QED
      BY <3>3, <3>4, <3>6 DEF CarvesPartitionPool
  <2>5. QED
    BY <2>3, <2>4
<1>11. QED
  BY <1>7, <1>8, <1>9, <1>10 DEF PlanInv

\* Appending one of the two synthetic assignments, which are not carved,
\* leaves the workers' assignments and the account of freeWorkload alone.
LEMMA SyntheticKeeps ==
  ASSUME BaseInv, PlanInv, NEW x \in Assignment, plan' = Append(plan, x),
         pc \in {"observer", "victim"}, pc' \in {"victim", "check"},
         x.source \notin {"front", "back"},
         UNCHANGED <<profile, flat, taken, workload, free>>
  PROVE  /\ WorkerInv' /\ CarvesPartitionPool'
         /\ Len(plan') = Len(plan) + 1
         /\ plan'[Len(plan) + 1] = x
         /\ \A k \in DOMAIN plan : plan'[k] = plan[k]
         /\ DOMAIN plan = 1..Len(plan) /\ Len(plan) \in Nat /\ Len(flat) \in Nat
<1>1. plan \in Seq(Assignment) /\ flat \in Seq(FlatProcess)
  BY WorkloadAssumption DEF BaseInv, TypeOK
<1>2. /\ Len(plan') = Len(plan) + 1
      /\ \A k \in DOMAIN plan : plan'[k] = plan[k]
      /\ plan'[Len(plan) + 1] = x
      /\ DOMAIN plan' = DOMAIN plan \cup {Len(plan) + 1}
      /\ DOMAIN plan = 1..Len(plan)
      /\ Len(plan) \in Nat /\ Len(flat) \in Nat
  BY <1>1, AppendType
<1>3. Len(flat) <= Len(plan)
  <2>1. Len(plan) = Len(flat) \/ Len(plan) = Len(flat) + 1
    BY DEF PlanInv, LengthInv
  <2>2. Len(plan) \in Nat /\ Len(flat) \in Nat
    BY <1>2
  <2>3. QED
    BY <2>1, <2>2
<1>4. WorkerInv'
  <2>1. \A k \in DOMAIN plan' : k <= Len(flat) => WellMade(plan'[k], flat[k])
    BY <1>2, <1>3 DEF PlanInv, WorkerInv
  <2>2. QED
    BY <2>1 DEF WorkerInv, WellMade, ClassOf, Tuning, EffectiveDefaultClass
<1>5. CarvesPartitionPool'
  <2>1. Carved' = Carved
    BY <1>2 DEF Carved
  <2>2. {plan'[k].cpus : k \in Carved'} = {plan[k].cpus : k \in Carved}
    BY <2>1, <1>2 DEF Carved
  <2>3. \A k \in Carved : plan'[k] = plan[k]
    BY <1>2 DEF Carved
  <2>4. QED
    BY <2>1, <2>2, <2>3 DEF PlanInv, CarvesPartitionPool, Carving
<1>6. QED
  BY <1>2, <1>4, <1>5

\* The victim's assignment completes the plan.
LEMMA VictimKeeps ==
  ASSUME BaseInv, PlanInv, pc = "victim",
         NEW cpus \in SUBSET CPU, cpus # {}, NEW s \in {"override", "default"},
         VictimClass = "isolated-exclusive" => cpus \subseteq profile.isolated,
         PlaceVictim(cpus, s)
  PROVE  PlanInv'
<1> DEFINE x == [comp |-> Victim, replica |-> NoReplica, class |-> VictimClass,
                 cpus |-> cpus, exclusive |-> VictimClass = "isolated-exclusive",
                 gomaxprocs |-> Cardinality(cpus), source |-> s]
<1>1. VictimClass \in Classes
  BY VictimClassType DEF BaseInv, TypeOK, ProfileInv
<1>2. x \in Assignment
  BY <1>1, CPUSetFinite, NameAssumption DEF Assignment, NoReplica, Sources
<1>3. /\ plan' = Append(plan, x) /\ pc' = "check" /\ victimCPUs' = cpus
      /\ UNCHANGED <<profile, flat, taken, workload, free>>
  BY DEF PlaceVictim
<1>4. /\ WorkerInv' /\ CarvesPartitionPool'
      /\ Len(plan') = Len(plan) + 1
      /\ plan'[Len(plan) + 1] = x
      /\ \A k \in DOMAIN plan : plan'[k] = plan[k]
      /\ DOMAIN plan = 1..Len(plan) /\ Len(plan) \in Nat /\ Len(flat) \in Nat
  BY <1>2, <1>3, SyntheticKeeps
<1>5. Len(plan) = Len(flat) + 1 /\ Len(flat) + 1 \in DOMAIN plan
  BY <1>4 DEF PlanInv, LengthInv
<1>6. LengthInv'
  BY <1>3, <1>4, <1>5 DEF LengthInv
<1>7. SyntheticInv'
  <2>1. plan'[Len(flat) + 1] = plan[Len(flat) + 1] /\ plan'[Len(flat) + 2] = x
    BY <1>4, <1>5
  <2>2. VictimClass' = VictimClass
    BY <1>3 DEF VictimClass, Tuning
  <2>3. /\ x.comp = Victim /\ x.replica = NoReplica /\ x.class = VictimClass
        /\ x.source = s /\ x.cpus = cpus
        /\ x.exclusive <=> VictimClass = "isolated-exclusive"
    OBVIOUS
  <2> HIDE DEF x
  <2>4. QED
    BY <2>1, <2>2, <2>3, <1>3 DEF PlanInv, SyntheticInv
<1>8. CheckedInv'
  BY <1>3 DEF CheckedInv
<1>9. QED
  BY <1>4, <1>6, <1>7, <1>8 DEF PlanInv

\* Width is never zero, so a carved slice never is empty.
LEMMA WidthPositive ==
  ASSUME NEW fp \in FlatProcess
  PROVE  Width(fp) \in Nat \ {0}
BY DEF Width, FlatProcess

\* Init and every step keep the account of how the plan was made.
LEMMA PlanInductive ==
  /\ Init => PlanInv
  /\ BaseInv /\ PlanInv /\ [Next]_vars => PlanInv'
<1>1. Init => PlanInv
  BY DEF Init, PlanInv, LengthInv, WorkerInv, SyntheticInv, CheckedInv,
         CarvesPartitionPool, Carving
<1>2. ASSUME BaseInv, PlanInv, [Next]_vars
      PROVE  PlanInv'
  <2> USE <1>2
  <2>0. /\ TypeOK /\ ProfileInv /\ OverrideInv
        /\ profile \in Profiles /\ IsPerformanceProfile(profile)
        /\ plan \in Seq(Assignment) /\ flat \in Seq(FlatProcess)
        /\ profile.reserved \in SUBSET CPU /\ workload \in SUBSET CPU
        /\ free \in SUBSET CPU
    BY ProfileAssumption, WorkloadAssumption DEF BaseInv, TypeOK, IsPerformanceProfile
  <2>1. CASE UNCHANGED vars
    <3>1. Carved' = Carved /\ NoOverlap' = NoOverlap /\ VictimClass' = VictimClass
      BY <2>1 DEF vars, Carved, NoOverlap, VictimClass, Tuning
    <3>2. WorkerInv'
      BY <2>1 DEF vars, PlanInv, WorkerInv, WellMade, ClassOf, Tuning,
                  EffectiveDefaultClass
    <3>3. QED
      BY <2>1, <3>1, <3>2 DEF vars, PlanInv, LengthInv, SyntheticInv, CheckedInv,
                              CarvesPartitionPool, Carving
  <2>2. CASE Fail
    BY <2>2 DEF Fail, PlanInv, LengthInv, WorkerInv, SyntheticInv, CheckedInv,
                CarvesPartitionPool, Carving
  <2>3. ASSUME pc \in {"validate", "overrides"}, pc' = "overrides", plan' = plan
        PROVE  PlanInv'
    BY <2>3 DEF PlanInv, LengthInv, WorkerInv, SyntheticInv, CheckedInv,
                CarvesPartitionPool, Carving
  <2>4. CASE AcceptProfile \/ \E n \in Names : SkipOverride(n) \/ TakeOverride(n)
    BY <2>3, <2>4 DEF AcceptProfile, SkipOverride, TakeOverride
  <2>5. CASE OverridesDone
    <3>1. plan' = << >> /\ pc' = "workers" /\ free' = workload'
          /\ Len(plan') = 0 /\ DOMAIN plan' = {} /\ Len(flat') \in Nat
      BY <2>0, <2>5 DEF OverridesDone, PlanInv, LengthInv
    <3>2. Carved' = {}
      BY <3>1 DEF Carved
    <3>3. QED
      BY <3>1, <3>2 DEF PlanInv, LengthInv, WorkerInv, SyntheticInv, CheckedInv,
                        CarvesPartitionPool
  <2>6. ASSUME NEW cs, AtWorker(cs)
        PROVE  Current \in FlatProcess /\ pc = "workers" /\ ClassOf(Current.comp) \in cs
    <3>1. Len(plan) + 1 \in 1..Len(flat)
      BY <2>0, <2>6 DEF AtWorker
    <3>2. QED
      BY <3>1, <2>0, <2>6 DEF AtWorker, Current
  <2>8. CASE AssignReserved
    <3>1. /\ AtWorker({"reserved"}) /\ ClassOf(Current.comp) = "reserved"
          /\ Assign(profile.reserved, FALSE, "reserved", free)
      <4>1. AtWorker({"reserved"}) /\ Assign(profile.reserved, FALSE, "reserved", free)
        BY <2>8 DEF AssignReserved
      <4>2. ClassOf(Current.comp) \in {"reserved"}
        BY <4>1, <2>6
      <4>3. QED
        BY <4>1, <4>2
    <3>2. \A g \in Nat :
            WellMade(NewAssignment(profile.reserved, FALSE, "reserved", g), Current)
      BY <3>1 DEF WellMade, NewAssignment
    <3>3. QED
      BY <3>1, <3>2, <2>0, AssignKeeps DEF Classes, Sources
  <2>9. CASE AssignExclusiveOverride
    <3>1. /\ Current.comp \in DOMAIN taken /\ ClassOf(Current.comp) = "isolated-exclusive"
          /\ taken[Current.comp] \in SUBSET CPU
      BY <2>0, <2>6, <2>9, ExclusiveWasTaken DEF AssignExclusiveOverride, TypeOK
    <3>2. \A g \in Nat :
            WellMade(NewAssignment(taken[Current.comp], TRUE, "override", g), Current)
      BY <3>1 DEF WellMade, NewAssignment
    <3>3. QED
      BY <3>1, <3>2, <2>0, <2>9, AssignKeeps
      DEF AssignExclusiveOverride, Classes, Sources
  <2>11. CASE AssignExclusiveCarve
    <3> DEFINE cpus == LastN(free, Width(Current))
    <3>1. Width(Current) \in Nat \ {0} /\ pc = "workers"
          /\ ClassOf(Current.comp) = "isolated-exclusive"
      BY <2>6, <2>11, WidthPositive DEF AssignExclusiveCarve
    <3>2. free # {}
      BY <3>1, <2>11, FS_EmptySet DEF AssignExclusiveCarve
    <3>3. cpus # {} /\ cpus \subseteq free /\ cpus \in SUBSET CPU
      BY <3>1, <3>2, <2>0, LastNNonEmpty
    <3>4. cpus \subseteq workload /\ free \ cpus \in SUBSET CPU
      BY <3>1, <3>3, <2>0 DEF PlanInv, CarvesPartitionPool, Carving
    <3>5. Assign(cpus, TRUE, "back", free \ cpus) /\ AtWorker({"isolated-exclusive"})
      BY <2>11 DEF AssignExclusiveCarve
    <3> HIDE DEF cpus
    <3>6. \A g \in Nat : WellMade(NewAssignment(cpus, TRUE, "back", g), Current)
      BY <3>1, <3>4 DEF WellMade, NewAssignment
    <3>7. QED
      BY <3>1, <3>3, <3>4, <3>5, <3>6, <2>0, AssignKeeps DEF Classes, Sources
  <2>12. CASE AssignSharedOverride
    <3>1. Tuning(Current.comp).cpus \in SUBSET CPU
      BY <2>0, <2>12, TuningType DEF AssignSharedOverride
    <3>2. ClassOf(Current.comp) \in {"isolated-shared", "burstable"}
      BY <2>6, <2>12 DEF AssignSharedOverride
    <3>3. \A g \in Nat :
            WellMade(NewAssignment(Tuning(Current.comp).cpus, FALSE, "override", g), Current)
      BY <3>2 DEF WellMade, NewAssignment
    <3>4. QED
      BY <3>1, <3>2, <3>3, <2>0, <2>12, AssignKeeps
      DEF AssignSharedOverride, Classes, Sources
  <2>13. CASE AssignSharedCarve
    <3> DEFINE cpus == FirstN(free, Width(Current))
    <3>1. Width(Current) \in Nat \ {0} /\ pc = "workers" /\ free # {}
          /\ ClassOf(Current.comp) \in {"isolated-shared", "burstable"}
      BY <2>6, <2>13, WidthPositive DEF AssignSharedCarve
    <3>2. cpus # {} /\ cpus \subseteq free /\ cpus \in SUBSET CPU
      BY <3>1, <2>0, FirstNNonEmpty
    <3>3. cpus \subseteq workload /\ free \ cpus \in SUBSET CPU
      BY <3>1, <3>2, <2>0 DEF PlanInv, CarvesPartitionPool, Carving
    <3>4. Assign(cpus, FALSE, "front", free \ cpus)
          /\ AtWorker({"isolated-shared", "burstable"})
      BY <2>13 DEF AssignSharedCarve
    <3> HIDE DEF cpus
    <3>5. \A g \in Nat : WellMade(NewAssignment(cpus, FALSE, "front", g), Current)
      BY <3>1, <3>3 DEF WellMade, NewAssignment
    <3>6. QED
      BY <3>1, <3>2, <3>3, <3>4, <3>5, <2>0, AssignKeeps DEF Classes, Sources
  <2>14. CASE AssignSharedFallback
    <3>1. ClassOf(Current.comp) \in {"isolated-shared", "burstable"}
      BY <2>6, <2>14 DEF AssignSharedFallback
    <3>2. \A g \in Nat : WellMade(NewAssignment(workload, FALSE, "fallback", g), Current)
      BY <3>1 DEF WellMade, NewAssignment
    <3>3. QED
      BY <3>1, <3>2, <2>0, <2>14, AssignKeeps DEF AssignSharedFallback, Classes, Sources
  <2>15. CASE AssignBestEffort
    <3>1. ClassOf(Current.comp) \in {"best-effort"}
      BY <2>6, <2>15 DEF AssignBestEffort
    <3>2. \A g \in Nat : WellMade(NewAssignment(workload, FALSE, "pool", g), Current)
      BY <3>1 DEF WellMade, NewAssignment
    <3>3. QED
      BY <3>1, <3>2, <2>0, <2>15, AssignKeeps DEF AssignBestEffort, Classes, Sources
  <2>16. CASE WorkersDone
    <3>1. Carved' = Carved
      BY <2>16 DEF WorkersDone, Carved
    <3>2. WorkerInv'
      BY <2>16 DEF WorkersDone, PlanInv, WorkerInv, WellMade, ClassOf, Tuning,
                   EffectiveDefaultClass
    <3>3. QED
      BY <2>16, <3>1, <3>2 DEF WorkersDone, PlanInv, LengthInv, SyntheticInv,
                               CheckedInv, CarvesPartitionPool, Carving
  <2>17. CASE AssignObserver
    <3> DEFINE x == [comp |-> Observer, replica |-> NoReplica, class |-> "reserved",
                     cpus |-> profile.reserved, exclusive |-> FALSE,
                     gomaxprocs |-> Cardinality(profile.reserved),
                     source |-> "reserved"]
    <3>1. x \in Assignment
      BY <2>0, CPUSetFinite, NameAssumption
      DEF Assignment, NoReplica, Classes, Sources
    <3>2. /\ plan' = Append(plan, x) /\ pc = "observer" /\ pc' = "victim"
          /\ UNCHANGED <<profile, flat, taken, workload, free>>
      BY <2>17 DEF AssignObserver
    <3>3. /\ WorkerInv' /\ CarvesPartitionPool'
          /\ Len(plan') = Len(plan) + 1
          /\ plan'[Len(plan) + 1] = x
          /\ Len(plan) \in Nat /\ Len(flat) \in Nat
      BY <3>1, <3>2, SyntheticKeeps
    <3>4. Len(plan) = Len(flat)
      BY <3>2 DEF PlanInv, LengthInv
    <3>5. LengthInv' /\ SyntheticInv' /\ CheckedInv'
      BY <3>2, <3>3, <3>4 DEF LengthInv, SyntheticInv, CheckedInv
    <3>6. QED
      BY <3>3, <3>5 DEF PlanInv
  <2>18. CASE AssignVictimOverride
    <3>1. VictimOverride \in SUBSET CPU /\ VictimOverride # {}
      BY <2>0, <2>18, TuningType DEF VictimOverride, AssignVictimOverride
    <3>2. VictimClass = "isolated-exclusive" => VictimOverride \subseteq profile.isolated
      <4>1. SUFFICES ASSUME VictimClass = "isolated-exclusive"
                     PROVE  VictimOverride \subseteq profile.isolated
        OBVIOUS
      <4>2. Tuning(Victim).cpus # Unset /\ VictimOverride = Tuning(Victim).cpus
        BY <3>1 DEF VictimOverride
      <4>3. Victim \in DOMAIN profile.componentMap /\ pc = "victim"
        BY <4>2, <2>0, <2>18, TuningType DEF AssignVictimOverride
      <4>4. Tuning(Victim).class = "isolated-exclusive"
        <5>1. Tuning(Victim).class \in Classes
          BY <4>3, <2>0 DEF ProfileInv, ValidProfile, Tuning
        <5>2. QED
          BY <5>1, <4>1, UnsetAssumption DEF VictimClass
      <4>5. Victim \in DOMAIN taken
        BY <4>2, <4>3, <4>4, <2>0 DEF OverrideInv, ExclusiveOverride
      <4>6. QED
        BY <4>2, <4>3, <4>5, <2>0 DEF OverrideInv
    <3>3. QED
      BY <3>1, <3>2, <2>18, VictimKeeps DEF AssignVictimOverride
  <2>19. CASE AssignVictimDefault
    <3>1. Candidate \in SUBSET CPU /\ Candidate \subseteq profile.isolated
      BY <2>0 DEF Candidate, IsPerformanceProfile
    <3>2. Candidate # {}
      BY <2>19, WidthAssumption, FS_EmptySet DEF AssignVictimDefault
    <3>3. /\ LastN(Candidate, VictimWidth) # {}
          /\ LastN(Candidate, VictimWidth) \subseteq Candidate
      BY <3>1, <3>2, WidthAssumption, LastNNonEmpty
    <3>4. QED
      BY <3>1, <3>3, <2>19, VictimKeeps DEF AssignVictimDefault
  <2>20. CASE AcceptPlan
    <3>1. Carved' = Carved /\ NoOverlap' = NoOverlap /\ VictimClass' = VictimClass
      BY <2>20 DEF AcceptPlan, Carved, NoOverlap, VictimClass, Tuning
    <3>2. WorkerInv'
      BY <2>20 DEF AcceptPlan, PlanInv, WorkerInv, WellMade, ClassOf, Tuning,
                   EffectiveDefaultClass
    <3>3. QED
      BY <2>20, <3>1, <3>2 DEF AcceptPlan, PlanInv, LengthInv, SyntheticInv,
                               CheckedInv, CarvesPartitionPool, Carving
  <2>21. QED
    BY <2>1, <2>2, <2>4, <2>5, <2>8, <2>9, <2>11, <2>12, <2>13,
       <2>14, <2>15, <2>16, <2>17, <2>18, <2>19, <2>20
    DEF Next, RejectProfile, RejectOverride, RejectCarve, RejectVictim, RejectPlan
<1>3. QED
  BY <1>1, <1>2

-----------------------------------------------------------------------------
(* What an accepted plan guarantees *)

IndInv == BaseInv /\ PlanInv

\* The inductive invariant.
THEOREM Inductive == Spec => []IndInv
<1>1. Init => IndInv
  BY BaseInductive, PlanInductive DEF IndInv
<1>2. IndInv /\ [Next]_vars => IndInv'
  BY BaseInductive, PlanInductive DEF IndInv
<1>3. QED
  BY <1>1, <1>2, PTL DEF Spec

\* The pieces of an accepted plan: the workers, the observer, the victim.
LEMMA AcceptedPlan ==
  ASSUME IndInv, Accepted
  PROVE  /\ Len(flat) \in Nat /\ DOMAIN flat = 1..Len(flat)
         /\ Len(plan) = Len(flat) + 2 /\ DOMAIN plan = 1..(Len(flat) + 2)
         /\ \A k \in DOMAIN flat : k \in DOMAIN plan /\ WellMade(plan[k], flat[k])
         /\ \A k \in DOMAIN plan : k \in DOMAIN flat \/ k = Len(flat) + 1 \/ k = Len(plan)
         /\ NoOverlap /\ SyntheticInv /\ OverrideInv
         /\ workload \subseteq profile.isolated
         /\ \A n \in DOMAIN taken : taken[n] \subseteq profile.isolated
<1>1. plan \in Seq(Assignment) /\ flat \in Seq(FlatProcess) /\ pc = "ok"
  BY WorkloadAssumption DEF IndInv, BaseInv, TypeOK, Accepted
<1>2. /\ Len(flat) \in Nat /\ DOMAIN flat = 1..Len(flat)
      /\ DOMAIN plan = 1..Len(plan)
  BY <1>1
<1>3. Len(plan) = Len(flat) + 2
  BY <1>1 DEF IndInv, PlanInv, LengthInv
<1>4. \A k \in DOMAIN plan : k <= Len(flat) => WellMade(plan[k], flat[k])
  BY <1>1 DEF IndInv, PlanInv, WorkerInv
<1>5. \A k \in DOMAIN flat : k \in DOMAIN plan /\ k <= Len(flat)
  BY <1>2, <1>3
<1>6. NoOverlap /\ SyntheticInv /\ OverrideInv
  BY <1>1 DEF IndInv, BaseInv, PlanInv, CheckedInv
<1>7. /\ workload = profile.isolated \ UNION {taken[n] : n \in DOMAIN taken}
      /\ \A n \in DOMAIN taken : taken[n] \subseteq profile.isolated
  BY <1>1, <1>6 DEF OverrideInv
<1>8. \A k \in DOMAIN plan : k \in DOMAIN flat \/ k = Len(flat) + 1 \/ k = Len(plan)
  BY <1>2, <1>3
<1>9. QED
  BY <1>2, <1>3, <1>4, <1>5, <1>6, <1>7, <1>8

\* Carving hands every workload CPU out at most once.
THEOREM CarvesPartition == Spec => []CarvesPartitionPool
<1>1. IndInv => CarvesPartitionPool
  BY DEF IndInv, PlanInv
<1>2. QED
  BY <1>1, Inductive, PTL

\* The victim of an accepted plan has CPUs of its own, whatever the profile,
\* the topology and the size of the host.
THEOREM VictimIsIsolated == Spec => []VictimIsolated
<1>1. ASSUME IndInv, Accepted
      PROVE  VictimIsolated
  <2> DEFINE v == Len(plan)
  <2>1. /\ Len(flat) \in Nat /\ v = Len(flat) + 2
        /\ DOMAIN plan = 1..(Len(flat) + 2)
        /\ NoOverlap /\ SyntheticInv /\ pc = "ok"
    BY <1>1, AcceptedPlan DEF Accepted
  <2>2. v \in DOMAIN plan
    BY <2>1
  <2>3. /\ plan[v].comp = Victim /\ plan[v].cpus = victimCPUs /\ victimCPUs # {}
        /\ plan[v].exclusive <=> VictimClass = "isolated-exclusive"
        /\ VictimClass = "isolated-exclusive" => victimCPUs \subseteq profile.isolated
    BY <2>1 DEF SyntheticInv
  <2>4. ASSUME VictimClass = "isolated-exclusive", NEW k \in DOMAIN plan \ {v}
        PROVE  Disjoint(plan[k].cpus, victimCPUs)
    BY <2>1, <2>2, <2>3, <2>4 DEF NoOverlap, Disjoint
  <2>5. QED
    BY <2>3, <2>4 DEF VictimIsolated
<1>2. IndInv => VictimIsolated
  BY <1>1 DEF VictimIsolated
<1>3. QED
  BY <1>2, Inductive, PTL

\* In an accepted plan the exclusive class means alone on isolated CPUs.
THEOREM ExclusiveIsAlone == Spec => []ExclusiveMeansAlone
<1>1. ASSUME IndInv, Accepted, NEW k \in DOMAIN plan,
             plan[k].class = "isolated-exclusive"
      PROVE  /\ plan[k].cpus \subseteq profile.isolated
             /\ \A j \in DOMAIN plan \ {k} : Disjoint(plan[j].cpus, plan[k].cpus)
  <2>0. /\ Len(plan) = Len(flat) + 2 /\ Len(flat) \in Nat
        /\ \A i \in DOMAIN flat : WellMade(plan[i], flat[i])
        /\ k \in DOMAIN flat \/ k = Len(flat) + 1 \/ k = Len(plan)
        /\ NoOverlap /\ SyntheticInv /\ pc = "ok"
        /\ workload \subseteq profile.isolated
        /\ \A n \in DOMAIN taken : taken[n] \subseteq profile.isolated
    BY <1>1, AcceptedPlan DEF Accepted
  <2>1. plan[k].exclusive /\ plan[k].cpus \subseteq profile.isolated
    <3>1. CASE k \in DOMAIN flat
      BY <3>1, <2>0, <1>1 DEF WellMade
    <3>2. CASE k = Len(flat) + 1
      BY <3>2, <2>0, <1>1 DEF SyntheticInv
    <3>3. CASE k = Len(plan)
      BY <3>3, <2>0, <1>1 DEF SyntheticInv
    <3>4. QED
      BY <2>0, <3>1, <3>2, <3>3
  <2>2. QED
    BY <1>1, <2>0, <2>1 DEF NoOverlap, Disjoint
<1>2. IndInv => ExclusiveMeansAlone
  BY <1>1 DEF ExclusiveMeansAlone
<1>3. QED
  BY <1>2, Inductive, PTL

\* In an accepted plan a process without explicit CPUs stays in its pool.
THEOREM PoolsAreRespected == Spec => []PoolsRespected
<1>1. ASSUME IndInv, Accepted, NEW k \in DOMAIN flat, plan[k].source # "override"
      PROVE  IF plan[k].class = "reserved"
             THEN plan[k].cpus = profile.reserved
             ELSE /\ plan[k].cpus \subseteq profile.isolated
                  /\ \A n \in DOMAIN taken : Disjoint(plan[k].cpus, taken[n])
  <2>1. WellMade(plan[k], flat[k]) /\ pc = "ok" /\ OverrideInv
    BY <1>1, AcceptedPlan DEF Accepted
  <2>2. workload = profile.isolated \ UNION {taken[n] : n \in DOMAIN taken}
    BY <2>1 DEF OverrideInv
  <2>3. \/ plan[k].class = "reserved" /\ plan[k].cpus = profile.reserved
        \/ plan[k].class # "reserved" /\ plan[k].cpus \subseteq workload
    BY <1>1, <2>1 DEF WellMade
  <2>4. QED
    BY <2>2, <2>3 DEF Disjoint
<1>2. IndInv => PoolsRespected
  BY <1>1 DEF PoolsRespected
<1>3. QED
  BY <1>2, Inductive, PTL

\* A process on the whole workload pool and a carved exclusive slice are
\* never in one accepted plan.
THEOREM WholePoolExcludes == Spec => []WholePoolExcludesExclusive
<1>1. ASSUME IndInv, Accepted, NEW j \in DOMAIN flat, NEW k \in DOMAIN flat,
             plan[j].source \in {"fallback", "pool"}, plan[k].source = "back"
      PROVE  FALSE
  <2>1. /\ j \in DOMAIN plan /\ k \in DOMAIN plan /\ NoOverlap /\ pc = "ok"
        /\ WellMade(plan[j], flat[j]) /\ WellMade(plan[k], flat[k])
    BY <1>1, AcceptedPlan DEF Accepted
  <2>2. plan[j].cpus = workload /\ plan[k].exclusive
    BY <1>1, <2>1 DEF WellMade
  <2>3. plan[k].cpus # {} /\ plan[k].cpus \subseteq workload
    BY <1>1, <2>1 DEF IndInv, PlanInv, CarvesPartitionPool, Carving, Carved
  <2>4. j # k
    BY <1>1
  <2>5. QED
    BY <2>1, <2>2, <2>3, <2>4 DEF NoOverlap, Disjoint
<1>2. IndInv => WholePoolExcludesExclusive
  BY <1>1 DEF WholePoolExcludesExclusive
<1>3. QED
  BY <1>2, Inductive, PTL
-----------------------------------------------------------------------------
(* Looking a process up *)

\* The launcher plans what Flatten made of a topology it has validated.
PlansTopologies ==
  \A w \in Workloads :
    \E t \in Seq(ProcessSpec(Names, Int)), g \in Nat : ValidTopology(t) /\ w = Flatten(t, g)

\* The replica ids of a component are 0, 1, ... without a gap, each given once.
Numbered(out) ==
  /\ \A k \in DOMAIN out : out[k].replica < NextIndex(out, out[k].comp)
  /\ \A j, k \in DOMAIN out :
       (out[j].comp = out[k].comp /\ out[j].replica = out[k].replica) => j = k

\* One spec takes the next ids of its component, and no others.
LEMMA ExpandNumbered ==
  ASSUME NEW out \in Seq(FlatProcess), Numbered(out),
         NEW p \in ProcessSpec(Names, Int), p.replicas >= 0, p.gomaxprocs >= 0,
         NEW g \in Nat
  PROVE  ExpandSpec(out, p, g) \in Seq(FlatProcess) /\ Numbered(ExpandSpec(out, p, g))
<1> DEFINE R == Replicas(p)
           L == Len(out)
           next == NextIndex(out, p.name)
           P(i) == [comp |-> p.name, replica |-> next + i - 1,
                    gomaxprocs |-> IF g > 0 THEN g ELSE p.gomaxprocs,
                    idealThreads |-> p.idealThreads]
           new == [i \in 1..R |-> P(i)]
           all == out \o new
           Old(n) == {k \in DOMAIN out : out[k].comp = n}
           All(n) == {k \in DOMAIN all : all[k].comp = n}
<1>1. /\ L \in Nat /\ DOMAIN out = 1..L /\ R \in Nat \ {0}
      /\ \A k \in DOMAIN out : out[k] \in FlatProcess
  BY DEF Replicas, ProcessSpec
<1>2. \A n \in Names : /\ Old(n) \subseteq 1..L
                       /\ IsFiniteSet(Old(n)) /\ Cardinality(Old(n)) \in Nat
  <2>1. ASSUME NEW n \in Names
        PROVE  /\ Old(n) \subseteq 1..L
               /\ IsFiniteSet(Old(n)) /\ Cardinality(Old(n)) \in Nat
    <3>1. Old(n) \in SUBSET (1..L) /\ IsFiniteSet(1..L)
      BY <1>1, FS_Interval
    <3>2. IsFiniteSet(Old(n))
      BY <3>1, FS_Subset
    <3>3. QED
      BY <3>1, <3>2, FS_CardinalityType
  <2>2. QED
    BY <2>1
<1>3. p.name \in Names /\ next \in Nat
  BY <1>2 DEF NextIndex, ProcessSpec
<1>4. \A i \in 1..R : P(i) \in FlatProcess /\ P(i).comp = p.name /\ P(i).replica = next + i - 1
  BY <1>1, <1>3 DEF FlatProcess, ProcessSpec
<1>5. new \in Seq(FlatProcess) /\ Len(new) = R
  BY <1>1, <1>4
<1>6. ExpandSpec(out, p, g) = all
  BY DEF ExpandSpec
<1> HIDE DEF R, L, next, P, new
<1>7. /\ all \in Seq(FlatProcess) /\ DOMAIN all = 1..(L + R)
      /\ \A k \in 1..L : all[k] = out[k]
      /\ \A k \in (L + 1)..(L + R) : all[k] = P(k - L)
  <2>1. all \in Seq(FlatProcess) /\ Len(all) = L + R
    BY <1>1, <1>5 DEF L
  <2>2. DOMAIN all = 1..(L + R)
    BY <2>1, <1>1
  <2>3. \A k \in 1..(L + R) : all[k] = IF k <= L THEN out[k] ELSE new[k - L]
    BY <1>1, <1>5 DEF L
  <2>4. \A k \in (L + 1)..(L + R) : all[k] = P(k - L)
    BY <2>3, <1>1 DEF new
  <2>5. \A k \in 1..L : all[k] = out[k]
    BY <2>3, <1>1
  <2>6. QED
    BY <2>1, <2>2, <2>4, <2>5
<1>8. NextIndex(all, p.name) = next + R
  <2>1. All(p.name) = Old(p.name) \cup ((L + 1)..(L + R))
    <3>1. ASSUME NEW k \in All(p.name) PROVE k \in Old(p.name) \cup ((L + 1)..(L + R))
      BY <1>1, <1>7, <3>1
    <3>2. ASSUME NEW k \in Old(p.name) PROVE k \in All(p.name)
      BY <1>1, <1>7, <3>2
    <3>3. ASSUME NEW k \in (L + 1)..(L + R) PROVE k \in All(p.name)
      <4>1. k \in DOMAIN all /\ all[k] = P(k - L) /\ k - L \in 1..R
        BY <1>1, <1>7
      <4>2. QED
        BY <4>1, <1>4
    <3>4. QED
      BY <3>1, <3>2, <3>3
  <2>2. Old(p.name) \cap ((L + 1)..(L + R)) = {}
    BY <1>1, <1>2, <1>3
  <2>3. IsFiniteSet((L + 1)..(L + R)) /\ Cardinality((L + 1)..(L + R)) = R
    BY <1>1, FS_Interval
  <2>4. Cardinality({}) = 0
    BY FS_EmptySet
  <2>5. Cardinality(All(p.name)) = Cardinality(Old(p.name)) + R
    <3>1. /\ IsFiniteSet(Old(p.name)) /\ Cardinality(Old(p.name)) \in Nat
          /\ R \in Nat
      BY <1>1, <1>2, <1>3
    <3> HIDE DEF Old, All
    <3>2. Cardinality(Old(p.name) \cup ((L + 1)..(L + R))) =
            Cardinality(Old(p.name)) + Cardinality((L + 1)..(L + R))
              - Cardinality(Old(p.name) \cap ((L + 1)..(L + R)))
      BY <3>1, <2>3, FS_Union
    <3>3. QED
      <4>1. Cardinality(All(p.name)) = Cardinality(Old(p.name) \cup ((L + 1)..(L + R)))
        BY <2>1
      <4>2. Cardinality(Old(p.name) \cap ((L + 1)..(L + R))) = 0
        BY <2>2, <2>4
      <4>3. QED
        BY <4>1, <4>2, <3>1, <3>2, <2>3
  <2>6. QED
    BY <2>5 DEF NextIndex, next
<1>9. \A n \in Names \ {p.name} : NextIndex(all, n) = NextIndex(out, n)
  <2>1. ASSUME NEW n \in Names \ {p.name} PROVE All(n) = Old(n)
    <3>1. ASSUME NEW k \in All(n) PROVE k \in Old(n)
      <4>1. k \in 1..(L + R) /\ all[k].comp = n
        BY <1>7
      <4>2. k \notin (L + 1)..(L + R)
        <5>1. SUFFICES ASSUME k \in (L + 1)..(L + R) PROVE FALSE
          OBVIOUS
        <5>2. all[k] = P(k - L) /\ k - L \in 1..R
          BY <1>1, <1>7, <5>1
        <5>3. QED
          BY <5>2, <4>1, <1>4, <2>1
      <4>3. k \in 1..L
        BY <4>1, <4>2, <1>1
      <4>4. QED
        BY <4>1, <4>3, <1>1, <1>7
    <3>2. ASSUME NEW k \in Old(n) PROVE k \in All(n)
      BY <1>1, <1>7, <3>2
    <3>3. QED
      BY <3>1, <3>2
  <2>2. QED
    BY <2>1 DEF NextIndex
<1>10. ASSUME NEW k \in DOMAIN all
       PROVE  \/ /\ k \in 1..L /\ all[k] = out[k] /\ all[k].comp \in Names
                 /\ all[k].replica \in Nat /\ all[k].replica < NextIndex(out, all[k].comp)
              \/ /\ k \in (L + 1)..(L + R) /\ all[k].comp = p.name
                 /\ all[k].replica = next + (k - L) - 1
  <2>1. CASE k \in 1..L
    BY <2>1, <1>1, <1>7 DEF Numbered, FlatProcess
  <2>2. CASE k \in (L + 1)..(L + R)
    <3>1. all[k] = P(k - L) /\ k - L \in 1..R
      BY <1>1, <1>7, <2>2
    <3>2. QED
      BY <2>2, <3>1, <1>4
  <2>3. QED
    BY <2>1, <2>2, <1>1, <1>7
<1> HIDE DEF all
<1>11. \A n \in Names : NextIndex(out, n) \in Nat
  BY <1>2 DEF NextIndex
<1>12. ASSUME NEW k \in DOMAIN all PROVE all[k].replica < NextIndex(all, all[k].comp)
  <2>1. CASE /\ k \in (L + 1)..(L + R) /\ all[k].comp = p.name
             /\ all[k].replica = next + (k - L) - 1
    BY <2>1, <1>1, <1>3, <1>8
  <2>2. CASE /\ k \in 1..L /\ all[k].comp \in Names /\ all[k].replica \in Nat
             /\ all[k].replica < NextIndex(out, all[k].comp)
    <3>1. CASE all[k].comp = p.name
      BY <2>2, <3>1, <1>1, <1>3, <1>8 DEF next
    <3>2. CASE all[k].comp # p.name
      BY <2>2, <3>2, <1>9
    <3>3. QED
      BY <3>1, <3>2
  <2>3. QED
    BY <1>10, <2>1, <2>2
<1>13. ASSUME NEW j \in DOMAIN all, NEW k \in DOMAIN all, all[j].comp = all[k].comp,
              all[j].replica = all[k].replica
       PROVE  j = k
  <2>1. CASE j \in 1..L /\ k \in 1..L
    BY <1>1, <1>10, <1>13, <2>1 DEF Numbered
  <2>2. CASE j \in (L + 1)..(L + R) /\ k \in (L + 1)..(L + R)
    BY <1>1, <1>3, <1>10, <1>13, <2>2
  <2>3. ASSUME NEW x \in DOMAIN all, NEW y \in DOMAIN all, x \in 1..L, y \in (L + 1)..(L + R),
               all[x].comp = all[y].comp, all[x].replica = all[y].replica
        PROVE  FALSE
    <3>1. /\ all[y].comp = p.name /\ all[y].replica = next + (y - L) - 1
          /\ all[x].replica \in Nat /\ all[x].replica < NextIndex(out, all[x].comp)
      BY <1>1, <1>10, <2>3
    <3>2. all[x].replica < next
      BY <3>1, <2>3 DEF next
    <3>3. QED
      BY <3>1, <3>2, <2>3, <1>1, <1>3
  <2>4. QED
    BY <1>10, <1>13, <2>1, <2>2, <2>3
<1>14. QED
  BY <1>6, <1>7, <1>12, <1>13 DEF Numbered

\* Every process list that Flatten makes of a valid topology is one the planner
\* is modelled for, and its replica ids are unique (topology.go 71-100).
THEOREM FlattenNumbers ==
  ASSUME NEW t \in Seq(ProcessSpec(Names, Int)), ValidTopology(t), NEW g \in Nat
  PROVE  Flatten(t, g) \in Seq(FlatProcess) /\ Numbered(Flatten(t, g))
<1> DEFINE n == Len(t)
           T == {o \in Seq(FlatProcess) : Numbered(o)}
           step == [k \in 1..n |-> [o \in T |-> ExpandSpec(o, t[k], g)]]
           Outs(out) == [k \in 0..Len(t) |->
                           IF k = 0 THEN << >> ELSE ExpandSpec(out[k - 1], t[k], g)]
<1>1. n \in Nat /\ DOMAIN t = 1..n
  OBVIOUS
<1>2. \A k \in 1..n : /\ t[k] \in ProcessSpec(Names, Int)
                      /\ t[k].replicas >= 0 /\ t[k].gomaxprocs >= 0
  BY <1>1 DEF ValidTopology
<1>3. << >> \in T
  <2>1. << >> \in Seq(FlatProcess) /\ DOMAIN << >> = {}
    OBVIOUS
  <2>2. QED
    BY <2>1 DEF Numbered
<1>4. \A k \in 1..n : \A o \in T : ExpandSpec(o, t[k], g) \in T
  BY <1>2, ExpandNumbered
<1>5. step \in [1..n -> [T -> T]]
  BY <1>4
<1> HIDE DEF T, step, n
<1>6. PICK f \in [0..n -> T] : Computes(f, << >>, step, n)
  <2>1. n \in Nat /\ << >> \in T /\ step \in [1..n -> [T -> T]]
    BY <1>1, <1>3, <1>5
  <2>2. QED
    BY <2>1, RecursiveFunction
<1>7. \A k \in 1..n : f[k] = ExpandSpec(f[k - 1], t[k], g)
  <2>1. ASSUME NEW k \in 1..n PROVE f[k] = ExpandSpec(f[k - 1], t[k], g)
    <3>1. k - 1 \in 0..n
      BY <1>1
    <3>2. f[k - 1] \in T
      BY <1>6, <3>1
    <3>3. QED
      BY <1>6, <3>2 DEF step, Computes
  <2>2. QED
    BY <2>1
<1>8. f = Outs(f)
  <2>1. f = [k \in 0..n |-> f[k]]
    BY <1>6
  <2>2. \A k \in 0..n : f[k] = IF k = 0 THEN << >> ELSE ExpandSpec(f[k - 1], t[k], g)
    BY <1>1, <1>6, <1>7 DEF Computes
  <2>3. QED
    BY <2>1, <2>2 DEF n
<1> DEFINE out == CHOOSE out : out = Outs(out)
<1>9. out = Outs(out)
  BY <1>8
<1>10. Flatten(t, g) = out[n]
  BY DEF Flatten, n
<1> HIDE DEF out
<1>11. \A k \in 0..n : out[k] = IF k = 0 THEN << >> ELSE ExpandSpec(out[k - 1], t[k], g)
  BY <1>9 DEF n
<1> DEFINE S == {k \in Nat : k <= n => out[k] \in T}
<1>12. 0 \in S
  BY <1>1, <1>3, <1>11
<1>13. ASSUME NEW k \in S PROVE k + 1 \in S
  <2>1. SUFFICES ASSUME k + 1 <= n PROVE out[k + 1] \in T
    OBVIOUS
  <2>2. k \in Nat /\ k <= n /\ k + 1 \in 1..n /\ k + 1 \in 0..n /\ (k + 1) - 1 = k
    BY <1>1, <2>1
  <2>3. out[k] \in T /\ out[k + 1] = ExpandSpec(out[k], t[k + 1], g)
    BY <1>11, <2>2
  <2>4. QED
    BY <1>4, <2>2, <2>3
<1>14. n \in S
  <2>1. \A k \in Nat : k \in S
    <3>1. \A k \in S : k + 1 \in S
      BY <1>13
    <3> HIDE DEF S
    <3>2. S \in SUBSET Nat
      BY DEF S
    <3>3. QED
      BY <1>12, <3>1, <3>2, Induction
  <2>2. QED
    BY <1>1, <2>1
<1>15. QED
  BY <1>1, <1>10, <1>14 DEF T

\* In the plan of a topology the launcher has expanded, looking a process up by
\* component and replica id finds the assignment made for that very process
\* (plan.go 325-336, topology.go 71-100).
THEOREM LookupIsOwn ==
  ASSUME PlansTopologies
  PROVE  Spec => []LookupFindsOwn
<1>1. ASSUME IndInv PROVE LookupFindsOwn
  <2> SUFFICES ASSUME Accepted, \A k \in DOMAIN flat : flat[k].comp \notin {Victim, Observer}
               PROVE  /\ \A k \in DOMAIN flat : FindAssignment(flat[k].comp, flat[k].replica) = k
                      /\ FindAssignment(Observer, NoReplica) = Len(plan) - 1
                      /\ FindAssignment(Victim, NoReplica) = Len(plan)
    BY DEF LookupFindsOwn
  <2> DEFINE L == Len(flat)
  <2>1. /\ L \in Nat /\ DOMAIN flat = 1..L
        /\ Len(plan) = L + 2 /\ DOMAIN plan = 1..(L + 2)
        /\ \A k \in DOMAIN flat : WellMade(plan[k], flat[k])
        /\ SyntheticInv /\ pc = "ok"
    BY <1>1, AcceptedPlan DEF Accepted
  <2>2. Numbered(flat) /\ flat \in Seq(FlatProcess)
    <3>1. flat \in Workloads
      BY <1>1 DEF IndInv, BaseInv, TypeOK
    <3>2. PICK t \in Seq(ProcessSpec(Names, Int)), g \in Nat :
            ValidTopology(t) /\ flat = Flatten(t, g)
      BY <3>1 DEF PlansTopologies
    <3>3. QED
      BY <3>2, FlattenNumbers
  <2>3. /\ \A k \in 1..L : /\ plan[k].comp = flat[k].comp /\ plan[k].replica = flat[k].replica
                           /\ plan[k].comp \notin {Victim, Observer}
                           /\ flat[k].replica \in Nat
        /\ plan[L + 1].comp = Observer /\ plan[L + 1].replica = NoReplica
        /\ plan[L + 2].comp = Victim /\ plan[L + 2].replica = NoReplica
    <3>1. \A k \in 1..L : flat[k] \in FlatProcess
      BY <2>1, <2>2
    <3>2. \A k \in 1..L : flat[k].replica \in Nat
      BY <3>1 DEF FlatProcess
    <3>3. \A k \in 1..L : plan[k].comp = flat[k].comp /\ plan[k].replica = flat[k].replica
      BY <2>1 DEF WellMade
    <3>4. \A k \in 1..L : plan[k].comp \notin {Victim, Observer}
      BY <2>1, <3>3
    <3>5. QED
      BY <2>1, <3>2, <3>3, <3>4 DEF SyntheticInv
  <2>4. Victim # Observer /\ \A r \in Nat : r # NoReplica
    BY NameAssumption DEF NoReplica
  <2>5. ASSUME NEW k \in DOMAIN plan, NEW comp, NEW replica, Match(plan[k], comp, replica),
               \A j \in DOMAIN plan : Match(plan[j], comp, replica) => j = k
        PROVE  FindAssignment(comp, replica) = k
    <3> DEFINE hits == {j \in DOMAIN plan : Match(plan[j], comp, replica)}
    <3>1. hits = {k}
      BY <2>5
    <3>2. k <= k
      BY <2>1
    <3>3. (CHOOSE i \in hits : \A j \in hits : i <= j) = k
      BY <3>1, <3>2
    <3>4. QED
      BY <3>1, <3>3 DEF FindAssignment
  <2>6. ASSUME NEW k \in DOMAIN flat
        PROVE  FindAssignment(flat[k].comp, flat[k].replica) = k
    <3>1. k \in 1..L /\ k \in DOMAIN plan
      BY <2>1
    <3>2. Match(plan[k], flat[k].comp, flat[k].replica)
      BY <2>3, <3>1 DEF Match
    <3>3. ASSUME NEW j \in DOMAIN plan, Match(plan[j], flat[k].comp, flat[k].replica)
          PROVE  j = k
      <4>1. plan[j].comp = flat[k].comp /\ plan[j].replica = flat[k].replica
        BY <2>3, <2>4, <3>1, <3>3 DEF Match
      <4>2. j \in 1..L
        BY <2>1, <2>3, <3>1, <4>1
      <4>3. QED
        BY <2>1, <2>2, <2>3, <3>1, <4>1, <4>2 DEF Numbered
    <3>4. QED
      BY <2>5, <3>1, <3>2, <3>3
  <2>7. FindAssignment(Observer, NoReplica) = L + 1
    <3>1. L + 1 \in DOMAIN plan /\ Match(plan[L + 1], Observer, NoReplica)
      BY <2>1, <2>3 DEF Match
    <3>2. ASSUME NEW j \in DOMAIN plan, Match(plan[j], Observer, NoReplica) PROVE j = L + 1
      BY <2>1, <2>3, <2>4, <3>2 DEF Match
    <3>3. QED
      BY <2>5, <3>1, <3>2
  <2>8. FindAssignment(Victim, NoReplica) = L + 2
    <3>1. L + 2 \in DOMAIN plan /\ Match(plan[L + 2], Victim, NoReplica)
      BY <2>1, <2>3 DEF Match
    <3>2. ASSUME NEW j \in DOMAIN plan, Match(plan[j], Victim, NoReplica) PROVE j = L + 2
      BY <2>1, <2>3, <2>4, <3>2 DEF Match
    <3>3. QED
      BY <2>5, <3>1, <3>2
  <2>9. QED
    BY <2>1, <2>6, <2>7, <2>8
<1>2. IndInv => LookupFindsOwn
  BY <1>1
<1>3. QED
  BY <1>2, Inductive, PTL

-----------------------------------------------------------------------------
(* Sums *)

\* The partial sums satisfy their recursion.
LEMMA PartialSumsAre ==
  ASSUME NEW a \in Seq(Nat)
  PROVE  /\ PartialSums(a)[0] = 0
         /\ \A k \in 1..Len(a) : PartialSums(a)[k] = PartialSums(a)[k - 1] + a[k]
         /\ \A k \in 0..Len(a) : PartialSums(a)[k] \in Nat
<1> DEFINE n == Len(a)
           step == [k \in 1..n |-> [x \in Nat |-> x + a[k]]]
           Body(sum) == [k \in 0..Len(a) |-> IF k = 0 THEN 0 ELSE sum[k - 1] + a[k]]
           sum == CHOOSE sum : sum = Body(sum)
<1>1. n \in Nat /\ \A k \in 1..n : a[k] \in Nat
  OBVIOUS
<1>2. step \in [1..n -> [Nat -> Nat]]
  BY <1>1
<1> HIDE DEF n, step
<1>3. PICK f \in [0..n -> Nat] : Computes(f, 0, step, n)
  BY <1>1, <1>2, RecursiveFunction
<1>4. \A k \in 1..n : f[k] = f[k - 1] + a[k]
  <2>1. ASSUME NEW k \in 1..n PROVE f[k] = f[k - 1] + a[k]
    <3>1. k - 1 \in 0..n
      BY <1>1
    <3>2. f[k - 1] \in Nat
      BY <1>3, <3>1
    <3>3. QED
      BY <1>3, <3>2 DEF step, Computes
  <2>2. QED
    BY <2>1
<1>5. f = Body(f)
  <2>1. f = [k \in 0..n |-> f[k]]
    BY <1>3
  <2>2. \A k \in 0..n : f[k] = IF k = 0 THEN 0 ELSE f[k - 1] + a[k]
    BY <1>1, <1>3, <1>4 DEF Computes
  <2>3. QED
    BY <2>1, <2>2 DEF n
<1>6. sum = Body(sum)
  BY <1>5
<1>7. PartialSums(a) = sum
  BY DEF PartialSums
<1> HIDE DEF sum
<1>8. /\ sum[0] = 0 /\ \A k \in 1..n : sum[k] = sum[k - 1] + a[k]
  <2>1. \A k \in 0..n : sum[k] = IF k = 0 THEN 0 ELSE sum[k - 1] + a[k]
    BY <1>6 DEF n
  <2>2. QED
    BY <1>1, <2>1
<1>9. \A k \in 0..n : sum[k] \in Nat
  <2> DEFINE S == {k \in Nat : k <= n => sum[k] \in Nat}
  <2>1. 0 \in S
    BY <1>8
  <2>2. \A k \in S : k + 1 \in S
    <3>1. SUFFICES ASSUME NEW k \in S, k + 1 <= n PROVE sum[k + 1] \in Nat
      OBVIOUS
    <3>2. k \in Nat /\ k <= n /\ k + 1 \in 1..n /\ (k + 1) - 1 = k
      BY <1>1, <3>1
    <3>3. sum[k] \in Nat /\ sum[k + 1] = sum[k] + a[k + 1] /\ a[k + 1] \in Nat
      BY <1>1, <1>8, <3>2
    <3>4. QED
      BY <3>3
  <2> HIDE DEF S
  <2>3. S \in SUBSET Nat
    BY DEF S
  <2>4. \A k \in Nat : k \in S
    BY <2>1, <2>2, <2>3, Induction
  <2>5. QED
    BY <1>1, <2>4 DEF S
<1>10. QED
  BY <1>7, <1>8, <1>9 DEF n

\* They never shrink.
LEMMA PartialSumsGrow ==
  ASSUME NEW a \in Seq(Nat), NEW j \in 0..Len(a)
  PROVE  \A k \in j..Len(a) : PartialSums(a)[j] <= PartialSums(a)[k]
<1> DEFINE n == Len(a)
           S == {d \in Nat : j + d <= n => PartialSums(a)[j] <= PartialSums(a)[j + d]}
<1>1. n \in Nat /\ j \in Nat /\ \A k \in 1..n : a[k] \in Nat
  OBVIOUS
<1>2. /\ \A k \in 1..n : PartialSums(a)[k] = PartialSums(a)[k - 1] + a[k]
      /\ \A k \in 0..n : PartialSums(a)[k] \in Nat
  BY PartialSumsAre
<1>3. 0 \in S
  BY <1>1, <1>2
<1>4. \A d \in S : d + 1 \in S
  <2>1. SUFFICES ASSUME NEW d \in S, j + (d + 1) <= n
                 PROVE  PartialSums(a)[j] <= PartialSums(a)[j + (d + 1)]
    OBVIOUS
  <2>2. /\ d \in Nat /\ j + d <= n /\ j + (d + 1) \in 1..n /\ (j + (d + 1)) - 1 = j + d
        /\ j + d \in 0..n
    BY <1>1, <2>1
  <2>3. /\ PartialSums(a)[j] <= PartialSums(a)[j + d]
        /\ PartialSums(a)[j + (d + 1)] = PartialSums(a)[j + d] + a[j + (d + 1)]
        /\ a[j + (d + 1)] \in Nat /\ PartialSums(a)[j + d] \in Nat /\ PartialSums(a)[j] \in Nat
    BY <1>1, <1>2, <2>2
  <2>4. QED
    BY <2>3
<1> HIDE DEF S, n
<1>5. S \in SUBSET Nat
  BY DEF S
<1>6. \A d \in Nat : d \in S
  BY <1>3, <1>4, <1>5, Induction
<1>7. ASSUME NEW k \in j..n PROVE PartialSums(a)[j] <= PartialSums(a)[k]
  <2>1. k - j \in Nat /\ j + (k - j) = k /\ k <= n
    BY <1>1, <1>7
  <2>2. k - j \in S
    BY <1>6, <2>1
  <2>3. QED
    BY <2>1, <2>2 DEF S
<1>8. QED
  BY <1>7 DEF n

-----------------------------------------------------------------------------
(* The planner refuses exactly what does not fit *)

NoOverride == \A n \in DOMAIN profile.componentMap : profile.componentMap[n].cpus = Unset

Pool == Cardinality(profile.isolated)

\* The first k processes fit into the isolated pool.
Fits(k) ==
  /\ \A j \in 1..k : ClassOf(flat[j].comp) # "best-effort"
  /\ PartialSums(Demands)[k] <= Pool

FitsAll ==
  /\ \A k \in DOMAIN flat : ClassOf(flat[k].comp) # "best-effort"
  /\ PartialSums(Demands)[Len(flat)] + VictimWidth <= Pool

\* The processes planned so far.
Planned == IF Len(plan) < Len(flat) THEN Len(plan) ELSE Len(flat)

\* As long as everything fits, all CPUs come from the reserved pool or are carved,
\* as many as were asked for; once something does not, the victim will find none.
PoolInv ==
  /\ Fits(Planned) =>
       /\ Candidate = free
       /\ Cardinality(free) = Pool - PartialSums(Demands)[Planned]
       /\ \A j \in DOMAIN plan :
            /\ plan[j].source \in {"reserved", "front", "back"}
            /\ plan[j].source = "reserved" => plan[j].cpus = profile.reserved
  /\ ~Fits(Planned) => Candidate = {}

FitInv ==
  (NoOverride /\ ValidProfile(profile)) =>
    /\ pc \in {"workers", "observer", "victim"} => PoolInv
    /\ pc \in {"check", "ok"} => FitsAll /\ NoOverlap
    /\ pc = "error" => ~FitsAll

\* Without explicit cpusets the workload pool is the isolated one.
LEMMA NoOverrideFacts ==
  ASSUME BaseInv, NoOverride, pc \notin {"validate", "overrides", "error"}
  PROVE  /\ \A n : Tuning(n).cpus = Unset
         /\ workload = profile.isolated /\ profile.isolated \in SUBSET CPU
         /\ profile.reserved \in SUBSET CPU /\ profile.reserved \cap profile.isolated = {}
<1>1. \A n : Tuning(n).cpus = Unset
  BY DEF NoOverride, Tuning, NoTuning
<1>2. DOMAIN taken = {}
  BY <1>1 DEF BaseInv, OverrideInv, ExclusiveOverride
<1>3. workload = profile.isolated
  BY <1>2 DEF BaseInv, OverrideInv
<1>4. IsPerformanceProfile(profile) /\ ValidProfile(profile)
  BY ProfileAssumption DEF BaseInv, TypeOK, ProfileInv
<1>5. QED
  BY <1>1, <1>3, <1>4 DEF IsPerformanceProfile, ValidProfile, Disjoint

\* The sums of the demands, and that what fits together fits in part.
LEMMA DemandFacts ==
  ASSUME TypeOK
  PROVE  /\ Len(flat) \in Nat /\ DOMAIN flat = 1..Len(flat) /\ Pool \in Nat
         /\ \A k \in 1..Len(flat) :
              /\ flat[k] \in FlatProcess
              /\ PartialSums(Demands)[k] = PartialSums(Demands)[k - 1]
                   + (IF ClassOf(flat[k].comp) = "reserved" THEN 0 ELSE Width(flat[k]))
         /\ PartialSums(Demands)[0] = 0
         /\ \A k \in 0..Len(flat) : PartialSums(Demands)[k] \in Nat
         /\ \A k \in 0..Len(flat) : FitsAll => Fits(k)
         /\ \A k \in 1..Len(flat) : Fits(k) => Fits(k - 1)
<1>1. /\ Len(flat) \in Nat /\ DOMAIN flat = 1..Len(flat)
      /\ \A k \in 1..Len(flat) : flat[k] \in FlatProcess
  BY WorkloadAssumption DEF TypeOK
<1>2. Pool \in Nat
  <2>1. profile.isolated \in SUBSET CPU
    BY ProfileAssumption DEF TypeOK, IsPerformanceProfile
  <2>2. QED
    BY <2>1, CPUSetFinite DEF Pool
<1>3. /\ DOMAIN Demands = 1..Len(flat)
      /\ \A k \in 1..Len(flat) :
           Demands[k] = IF ClassOf(flat[k].comp) = "reserved" THEN 0 ELSE Width(flat[k])
  BY <1>1 DEF Demands
<1>4. Demands \in Seq(Nat) /\ Len(Demands) = Len(flat)
  <2>1. \A k \in 1..Len(flat) : Demands[k] \in Nat
    BY <1>1, <1>3, WidthPositive
  <2>2. Demands = [k \in 1..Len(flat) |-> Demands[k]]
    BY <1>1 DEF Demands
  <2>3. Demands \in [1..Len(flat) -> Nat]
    BY <2>1, <2>2
  <2>4. QED
    BY <1>1, <2>3
<1> DEFINE sum == PartialSums(Demands)
<1>5. /\ sum[0] = 0
      /\ \A k \in 1..Len(flat) : sum[k] = sum[k - 1] + Demands[k]
      /\ \A k \in 0..Len(flat) : sum[k] \in Nat
  BY <1>4, PartialSumsAre
<1>6. \A j \in 0..Len(flat) : \A k \in j..Len(flat) : sum[j] <= sum[k]
  BY <1>4, PartialSumsGrow
<1> HIDE DEF sum
<1>7. ASSUME NEW k \in 0..Len(flat), FitsAll PROVE Fits(k)
  <2>1. sum[k] <= sum[Len(flat)] /\ sum[k] \in Nat /\ sum[Len(flat)] \in Nat
    BY <1>1, <1>5, <1>6
  <2>2. sum[Len(flat)] + VictimWidth <= Pool
    BY <1>7 DEF FitsAll, sum
  <2>3. sum[k] <= Pool
    BY <1>2, <2>1, <2>2, WidthAssumption
  <2>4. \A j \in 1..k : ClassOf(flat[j].comp) # "best-effort"
    BY <1>1, <1>7 DEF FitsAll
  <2>5. QED
    BY <2>3, <2>4 DEF Fits, sum
<1>8. ASSUME NEW k \in 1..Len(flat), Fits(k) PROVE Fits(k - 1)
  <2>1. k - 1 \in 0..Len(flat) /\ k \in (k - 1)..Len(flat) /\ k \in 0..Len(flat)
    BY <1>1
  <2>2. sum[k - 1] <= sum[k] /\ sum[k - 1] \in Nat /\ sum[k] \in Nat
    BY <1>5, <1>6, <2>1
  <2>3. sum[k] <= Pool
    BY <1>8 DEF Fits, sum
  <2>4. sum[k - 1] <= Pool
    BY <1>2, <2>2, <2>3
  <2>5. \A j \in 1..(k - 1) : ClassOf(flat[j].comp) # "best-effort"
    BY <1>1, <1>8 DEF Fits
  <2>6. QED
    BY <2>4, <2>5 DEF Fits, sum
<1>9. QED
  BY <1>1, <1>2, <1>3, <1>5, <1>7, <1>8 DEF sum

\* The arguments of BuildPlan do not change.
LEMMA ArgumentsStay ==
  ASSUME UNCHANGED <<profile, flat>>
  PROVE  /\ Demands' = Demands /\ Pool' = Pool
         /\ \A n : ClassOf(n)' = ClassOf(n)
         /\ \A k : Fits(k)' <=> Fits(k)
         /\ FitsAll' <=> FitsAll
         /\ NoOverride' <=> NoOverride
         /\ ValidProfile(profile)' <=> ValidProfile(profile)
<1>1. \A n : ClassOf(n)' = ClassOf(n)
  BY DEF ClassOf, Tuning, NoTuning, EffectiveDefaultClass
<1>2. Pool' = Pool
  BY DEF Pool
<1>3. Demands' = Demands
  BY <1>1 DEF Demands, Width
<1>4. \A k : Fits(k)' <=> Fits(k)
  BY <1>1, <1>2, <1>3 DEF Fits
<1>5. FitsAll' <=> FitsAll
  BY <1>1, <1>2, <1>3 DEF FitsAll
<1>6. NoOverride' <=> NoOverride
  BY DEF NoOverride
<1>7. ValidProfile(profile)' <=> ValidProfile(profile)
  BY DEF ValidProfile
<1>8. QED
  BY <1>1, <1>2, <1>3, <1>4, <1>5, <1>6, <1>7

\* One process is planned.
LEMMA AssignFits ==
  ASSUME BaseInv, PlanInv, PoolInv, NEW cs, AtWorker(cs), ClassOf(Current.comp) \in Classes,
         NEW cpus \in SUBSET CPU, NEW e \in BOOLEAN, NEW s \in Sources,
         NEW rest \in SUBSET CPU, Assign(cpus, e, s, rest),
         Fits(Len(plan) + 1) =>
           /\ rest = free \ cpus
           /\ Cardinality(rest) = Pool - PartialSums(Demands)[Len(plan) + 1]
           /\ s \in {"reserved", "front", "back"}
           /\ s = "reserved" => cpus = profile.reserved,
         (Fits(Len(plan)) /\ ~Fits(Len(plan) + 1)) => free \subseteq cpus
  PROVE  PoolInv'
<1> DEFINE n == Len(plan)
           o == Tuning(Current.comp).gomaxprocsOverride
           x == [comp |-> Current.comp, replica |-> Current.replica,
                 class |-> ClassOf(Current.comp), cpus |-> cpus, exclusive |-> e,
                 gomaxprocs |-> IF o > 0 THEN o ELSE Cardinality(cpus),
                 source |-> s]
<1>1. /\ plan \in Seq(Assignment) /\ Len(plan) < Len(flat) /\ Len(plan) \in Nat
      /\ Len(flat) \in Nat /\ pc = "workers" /\ TypeOK
  BY DemandFacts DEF BaseInv, TypeOK, AtWorker
<1>2. /\ plan' = Append(plan, x) /\ free' = rest /\ UNCHANGED <<profile, flat>>
  BY DEF Assign
<1>3. x.cpus = cpus /\ x.source = s
  OBVIOUS
<1> HIDE DEF x
<1>4. /\ DOMAIN plan = 1..n /\ DOMAIN plan' = 1..(n + 1) /\ Len(plan') = n + 1
      /\ plan'[n + 1] = x /\ \A k \in 1..n : plan'[k] = plan[k]
  BY <1>1, <1>2
<1>5. Planned = n /\ Planned' = n + 1
  BY <1>1, <1>2, <1>4 DEF Planned
<1>6. Candidate' = Candidate \ cpus
  <2>1. UNION {plan'[k].cpus : k \in DOMAIN plan'}
          = (UNION {plan[k].cpus : k \in DOMAIN plan}) \cup cpus
    <3>1. \A k \in 1..(n + 1) : k = n + 1 \/ k \in 1..n
      BY <1>1
    <3>2. 1..n \subseteq 1..(n + 1) /\ n + 1 \in 1..(n + 1)
      BY <1>1
    <3>3. QED
      BY <1>3, <1>4, <3>1, <3>2
  <2>2. QED
    BY <1>2, <2>1 DEF Candidate
<1>7. /\ n + 1 \in 1..Len(flat) /\ (n + 1) - 1 = n
  BY <1>1
<1>8. Fits(n + 1) => Fits(n)
  BY <1>1, <1>7, DemandFacts
<1>9. /\ Fits(Planned)' <=> Fits(n + 1)
      /\ Pool' = Pool /\ Demands' = Demands
  BY <1>2, <1>5, ArgumentsStay DEF Fits
<1>10. CASE Fits(n + 1)
  <2>1. /\ Candidate = free
        /\ \A j \in DOMAIN plan :
             /\ plan[j].source \in {"reserved", "front", "back"}
             /\ plan[j].source = "reserved" => plan[j].cpus = profile.reserved
    BY <1>5, <1>8, <1>10 DEF PoolInv
  <2>2. Candidate' = free' /\ Cardinality(free') = Pool' - PartialSums(Demands')[Planned']
    BY <1>2, <1>5, <1>6, <1>9, <1>10, <2>1
  <2>3. ASSUME NEW j \in DOMAIN plan'
        PROVE  /\ plan'[j].source \in {"reserved", "front", "back"}
               /\ plan'[j].source = "reserved" => plan'[j].cpus = profile'.reserved
    <3>1. CASE j = n + 1
      BY <1>2, <1>3, <1>4, <1>10, <3>1
    <3>2. CASE j # n + 1
      <4>1. j \in 1..n
        BY <1>1, <1>4, <2>3, <3>2
      <4>2. QED
        BY <1>2, <1>4, <2>1, <4>1
    <3>3. QED
      BY <3>1, <3>2
  <2>4. QED
    BY <1>9, <1>10, <2>2, <2>3 DEF PoolInv
<1>11. CASE ~Fits(n + 1)
  <2>1. Candidate' = {}
    BY <1>5, <1>6, <1>11 DEF PoolInv
  <2>2. QED
    BY <1>9, <1>11, <2>1 DEF PoolInv
<1>12. QED
  BY <1>10, <1>11

\* A process is given what it asks for from either end of freeWorkload, or what
\* is left of it.
LEMMA CarveFits ==
  ASSUME BaseInv, PlanInv, PoolInv, NEW cs, AtWorker(cs),
         ClassOf(Current.comp) \in Classes \ {"reserved", "best-effort"},
         NEW cpus \in SUBSET CPU, NEW e \in BOOLEAN, NEW s \in {"front", "back"},
         Assign(cpus, e, s, free \ cpus), cpus \subseteq free,
         Width(Current) <= Cardinality(free) => Cardinality(cpus) = Width(Current),
         Cardinality(free) <= Width(Current) => cpus = free
  PROVE  PoolInv'
<1> DEFINE n == Len(plan)
           sum == PartialSums(Demands)
<1>1. /\ n < Len(flat) /\ n \in Nat /\ Len(flat) \in Nat /\ pc = "workers" /\ TypeOK
      /\ free \in SUBSET CPU
  BY DemandFacts DEF BaseInv, TypeOK, AtWorker
<1>2. /\ n + 1 \in 1..Len(flat) /\ n \in 0..Len(flat) /\ n + 1 \in 0..Len(flat)
      /\ (n + 1) - 1 = n
  BY <1>1
<1>3. /\ flat[n + 1] = Current /\ Current \in FlatProcess /\ Width(Current) \in Nat \ {0}
      /\ sum[n + 1] = sum[n] + Width(Current) /\ sum[n] \in Nat /\ sum[n + 1] \in Nat
      /\ Pool \in Nat /\ (Fits(n + 1) => Fits(n))
  BY <1>1, <1>2, DemandFacts, WidthPositive DEF Current
<1>4. Planned = n
  BY <1>1 DEF Planned
<1>5. /\ IsFiniteSet(free) /\ Cardinality(free) \in Nat /\ Cardinality(cpus) \in Nat
      /\ Cardinality(free \ cpus) = Cardinality(free) - Cardinality(cpus)
  <2>1. free \ cpus \in SUBSET CPU /\ cpus = free \cap cpus
    BY <1>1
  <2>2. QED
    BY <1>1, <2>1, CPUSetFinite, FS_Difference
<1> HIDE DEF sum
<1>6. ASSUME Fits(n + 1) PROVE Cardinality(free \ cpus) = Pool - sum[n + 1]
  <2>1. Cardinality(free) = Pool - sum[n]
    BY <1>3, <1>4, <1>6 DEF PoolInv, sum
  <2>2. sum[n + 1] <= Pool
    BY <1>6 DEF Fits, sum
  <2>3. Cardinality(cpus) = Width(Current)
    BY <1>3, <2>1, <2>2
  <2>4. QED
    BY <1>3, <1>5, <2>1, <2>3
<1>7. ASSUME Fits(n), ~Fits(n + 1) PROVE free \subseteq cpus
  <2>1. Cardinality(free) = Pool - sum[n]
    BY <1>4, <1>7 DEF PoolInv, sum
  <2>2. \A j \in 1..(n + 1) : ClassOf(flat[j].comp) # "best-effort"
    <3>1. \A j \in 1..(n + 1) : j = n + 1 \/ j \in 1..n
      BY <1>1
    <3>2. QED
      BY <1>3, <1>7, <3>1 DEF Fits
  <2>3. sum[n + 1] > Pool
    BY <1>3, <1>7, <2>2 DEF Fits, sum
  <2>4. Cardinality(free) <= Width(Current)
    BY <1>3, <1>5, <2>1, <2>3
  <2>5. QED
    BY <2>4
<1>8. free \ cpus \in SUBSET CPU /\ s \in Sources /\ ClassOf(Current.comp) \in Classes
  BY <1>1 DEF Sources
<1>9. QED
  BY <1>6, <1>7, <1>8, AssignFits DEF sum

\* A process on the whole pool takes what the victim would need.
LEMMA WholePoolFits ==
  ASSUME BaseInv, PlanInv, PoolInv, NoOverride, NEW cs, AtWorker(cs),
         ClassOf(Current.comp) \in Classes \ {"reserved"}, NEW s \in {"fallback", "pool"},
         ClassOf(Current.comp) = "best-effort" \/ free = {},
         Assign(workload, FALSE, s, free)
  PROVE  PoolInv'
<1> DEFINE n == Len(plan)
           sum == PartialSums(Demands)
<1>1. /\ n < Len(flat) /\ n \in Nat /\ Len(flat) \in Nat /\ pc = "workers" /\ TypeOK
      /\ free \in SUBSET CPU /\ workload \in SUBSET CPU
  BY DemandFacts DEF BaseInv, TypeOK, AtWorker
<1>2. /\ n + 1 \in 1..Len(flat) /\ n \in 0..Len(flat) /\ n + 1 \in 0..Len(flat)
      /\ (n + 1) - 1 = n
  BY <1>1
<1>3. /\ flat[n + 1] = Current /\ Width(Current) \in Nat \ {0}
      /\ sum[n + 1] = sum[n] + Width(Current) /\ sum[n] \in Nat /\ sum[n + 1] \in Nat
      /\ Pool \in Nat /\ (Fits(n + 1) => Fits(n))
  BY <1>1, <1>2, DemandFacts, WidthPositive DEF Current
<1>4. Planned = n
  BY <1>1 DEF Planned
<1> HIDE DEF sum
<1>5. ~Fits(n + 1)
  <2>1. SUFFICES ASSUME Fits(n + 1) PROVE FALSE
    OBVIOUS
  <2>2. ClassOf(Current.comp) # "best-effort"
    <3>1. n + 1 \in 1..(n + 1)
      BY <1>1
    <3>2. QED
      BY <1>3, <2>1, <3>1 DEF Fits
  <2>3. free = {} /\ Cardinality(free) = Pool - sum[n]
    BY <1>3, <1>4, <2>1, <2>2 DEF PoolInv, sum
  <2>4. Cardinality(free) = 0
    BY <2>3, FS_EmptySet
  <2>5. sum[n + 1] <= Pool
    BY <2>1 DEF Fits, sum
  <2>6. QED
    BY <1>3, <2>3, <2>4, <2>5
<1>6. free \subseteq workload
  BY <1>1 DEF PlanInv, CarvesPartitionPool, Carving
<1>7. s \in Sources /\ ClassOf(Current.comp) \in Classes /\ FALSE \in BOOLEAN
  BY DEF Sources
<1>8. QED
  BY <1>1, <1>5, <1>6, <1>7, AssignFits

\* A victim that finds its CPUs shows that everything fits, and then there is
\* nothing for the last check to object to.
LEMMA VictimFits ==
  ASSUME BaseInv, PlanInv, PoolInv, NoOverride, AssignVictimDefault
  PROVE  FitsAll /\ NoOverlap'
<1> DEFINE L == Len(flat)
           v == LastN(Candidate, VictimWidth)
           x == [comp |-> Victim, replica |-> NoReplica, class |-> VictimClass,
                 cpus |-> v, exclusive |-> VictimClass = "isolated-exclusive",
                 gomaxprocs |-> Cardinality(v), source |-> "default"]
<1>1. /\ pc = "victim" /\ plan' = Append(plan, x) /\ Cardinality(Candidate) >= VictimWidth
  BY DEF AssignVictimDefault, PlaceVictim
<1>2. /\ plan \in Seq(Assignment) /\ Len(plan) = L + 1 /\ L \in Nat /\ TypeOK
      /\ DOMAIN plan = 1..(L + 1) /\ DOMAIN flat = 1..L
  BY <1>1, DemandFacts DEF BaseInv, TypeOK, PlanInv, LengthInv
<1>3. Planned = L
  <2>1. ~(Len(plan) < Len(flat))
    BY <1>2
  <2>2. QED
    BY <2>1 DEF Planned
<1>4. Fits(L)
  <2>1. SUFFICES ASSUME ~Fits(L) PROVE FALSE
    OBVIOUS
  <2>2. Candidate = {}
    BY <1>3, <2>1 DEF PoolInv
  <2>3. QED
    BY <1>1, <2>2, FS_EmptySet, WidthAssumption
<1>5. /\ Candidate = free /\ Cardinality(free) = Pool - PartialSums(Demands)[L]
      /\ \A j \in DOMAIN plan :
           /\ plan[j].source \in {"reserved", "front", "back"}
           /\ plan[j].source = "reserved" => plan[j].cpus = profile.reserved
  BY <1>3, <1>4 DEF PoolInv
<1>6. FitsAll
  <2>1. PartialSums(Demands)[L] \in Nat /\ Pool \in Nat
    BY <1>2, DemandFacts
  <2>2. PartialSums(Demands)[L] + VictimWidth <= Pool
    BY <1>1, <1>5, <2>1, WidthAssumption
  <2>3. QED
    BY <1>2, <1>4, <2>2 DEF FitsAll, Fits
<1>7. x.cpus = v /\ v \subseteq Candidate
  BY DEF LastN
<1> HIDE DEF x, v
<1>8. /\ DOMAIN plan' = 1..(L + 2) /\ plan'[L + 2] = x
      /\ \A k \in 1..(L + 1) : plan'[k] = plan[k]
  BY <1>1, <1>2
<1>9. \A k \in 1..(L + 1) : Disjoint(plan[k].cpus, x.cpus) /\ Disjoint(x.cpus, plan[k].cpus)
  BY <1>2, <1>7 DEF Candidate, Disjoint
<1>10. ASSUME NEW i \in 1..(L + 1), NEW j \in 1..(L + 1), i # j, plan[i].exclusive
       PROVE  Disjoint(plan[i].cpus, plan[j].cpus)
  <2>1. i \in 1..L
    <3>1. plan[L + 1].exclusive = FALSE
      BY <1>1 DEF PlanInv, SyntheticInv
    <3>2. QED
      BY <1>2, <1>10, <3>1
  <2>2. WellMade(plan[i], flat[i])
    BY <1>1, <1>2, <2>1 DEF PlanInv, WorkerInv
  <2>3. plan[i].source = "back" /\ i \in Carved
    BY <1>2, <1>5, <1>10, <2>2 DEF WellMade, Carved
  <2>4. /\ \A k \in Carved : plan[k].cpus \subseteq workload
        /\ \A h, k \in Carved : h # k => Disjoint(plan[h].cpus, plan[k].cpus)
    BY <1>1 DEF PlanInv, CarvesPartitionPool, Carving
  <2>5. CASE plan[j].source = "reserved"
    <3>1. plan[j].cpus = profile.reserved /\ plan[i].cpus \subseteq workload
      BY <1>2, <1>5, <2>3, <2>4, <2>5
    <3>2. profile.reserved \cap workload = {}
      BY <1>1, NoOverrideFacts
    <3>3. QED
      BY <3>1, <3>2 DEF Disjoint
  <2>6. CASE plan[j].source # "reserved"
    <3>1. j \in Carved
      BY <1>2, <1>5, <2>6 DEF Carved
    <3>2. QED
      BY <1>10, <2>3, <2>4, <3>1
  <2>7. QED
    BY <2>5, <2>6
<1>11. ASSUME NEW i \in 1..(L + 2), NEW j \in 1..(L + 2), i # j, plan'[i].exclusive
       PROVE  Disjoint(plan'[i].cpus, plan'[j].cpus)
  <2>1. (i = L + 2 \/ i \in 1..(L + 1)) /\ (j = L + 2 \/ j \in 1..(L + 1))
    BY <1>2
  <2>2. CASE i = L + 2
    BY <1>8, <1>9, <1>11, <2>1, <2>2
  <2>3. CASE j = L + 2
    BY <1>8, <1>9, <1>11, <2>1, <2>3
  <2>4. CASE i \in 1..(L + 1) /\ j \in 1..(L + 1)
    <3>1. plan'[i] = plan[i] /\ plan'[j] = plan[j]
      BY <1>8, <2>4
    <3>2. QED
      BY <1>10, <1>11, <2>4, <3>1
  <2>5. QED
    BY <2>1, <2>2, <2>3, <2>4
<1>12. NoOverlap'
  BY <1>8, <1>11 DEF NoOverlap
<1>13. QED
  BY <1>6, <1>12

\* Each worker's assignment keeps PoolInv.
LEMMA WorkersFit ==
  ASSUME BaseInv, PlanInv, PoolInv, NoOverride, ValidProfile(profile),
         \/ AssignReserved \/ AssignExclusiveOverride \/ AssignExclusiveCarve
         \/ AssignSharedOverride \/ AssignSharedCarve \/ AssignSharedFallback
         \/ AssignBestEffort
  PROVE  PoolInv'
<1>1. /\ pc = "workers" /\ Len(plan) < Len(flat) /\ TypeOK
      /\ free \in SUBSET CPU /\ workload \in SUBSET CPU
  BY DEF BaseInv, TypeOK, AtWorker, AssignReserved, AssignExclusiveOverride,
         AssignExclusiveCarve, AssignSharedOverride, AssignSharedCarve,
         AssignSharedFallback, AssignBestEffort
<1>2. /\ Len(plan) \in Nat /\ Len(plan) + 1 \in 1..Len(flat) /\ Current = flat[Len(plan) + 1]
      /\ Current \in FlatProcess /\ Width(Current) \in Nat \ {0}
      /\ (Len(plan) + 1) - 1 = Len(plan)
  <2>1. Len(plan) \in Nat /\ Len(flat) \in Nat
    BY <1>1, DemandFacts DEF TypeOK
  <2>2. QED
    BY <1>1, <2>1, DemandFacts, WidthPositive DEF Current
<1>3. /\ \A n : Tuning(n).cpus = Unset
      /\ workload = profile.isolated
      /\ profile.reserved \in SUBSET CPU /\ profile.reserved \cap profile.isolated = {}
  BY <1>1, NoOverrideFacts
<1>4. CASE AssignReserved
  <2>1. AtWorker({"reserved"}) /\ Assign(profile.reserved, FALSE, "reserved", free)
    BY <1>4 DEF AssignReserved
  <2>2. ClassOf(Current.comp) = "reserved"
    BY <2>1 DEF AtWorker
  <2>3. free \subseteq workload
    BY <1>1 DEF PlanInv, CarvesPartitionPool, Carving
  <2>4. free = free \ profile.reserved
    BY <1>3, <2>3
  <2>5. PartialSums(Demands)[Len(plan) + 1] = PartialSums(Demands)[Len(plan)]
    <3>1. /\ PartialSums(Demands)[Len(plan) + 1] = PartialSums(Demands)[Len(plan)] + 0
          /\ PartialSums(Demands)[Len(plan)] \in Nat
      BY <1>1, <1>2, <2>2, DemandFacts
    <3>2. QED
      BY <3>1
  <2>6. /\ Planned = Len(plan)
        /\ Fits(Len(plan)) <=> Fits(Len(plan) + 1)
    <3>1. \A j \in 1..(Len(plan) + 1) : j = Len(plan) + 1 \/ j \in 1..Len(plan)
      BY <1>2
    <3>2. 1..Len(plan) \subseteq 1..(Len(plan) + 1)
      BY <1>2
    <3>3. QED
      BY <1>1, <1>2, <2>2, <2>5, <3>1, <3>2 DEF Fits, Planned
  <2>7. Fits(Len(plan) + 1) =>
          Cardinality(free) = Pool - PartialSums(Demands)[Len(plan) + 1]
    BY <2>5, <2>6 DEF PoolInv
  <2>8. ClassOf(Current.comp) \in Classes /\ "reserved" \in Sources /\ FALSE \in BOOLEAN
    BY <2>2 DEF Classes, Sources
  <2>9. QED
    BY <1>1, <1>3, <2>1, <2>4, <2>6, <2>7, <2>8, AssignFits
<1>5. CASE AssignExclusiveOverride \/ AssignSharedOverride
  BY <1>3, <1>5 DEF AssignExclusiveOverride, AssignSharedOverride
<1>6. CASE AssignExclusiveCarve
  <2> DEFINE cpus == LastN(free, Width(Current))
  <2>1. /\ AtWorker({"isolated-exclusive"}) /\ Assign(cpus, TRUE, "back", free \ cpus)
    BY <1>6 DEF AssignExclusiveCarve
  <2>2. ClassOf(Current.comp) \in Classes \ {"reserved", "best-effort"}
    BY <2>1 DEF AtWorker, Classes
  <2>3. /\ Width(Current) <= Cardinality(free) => Cardinality(cpus) = Width(Current)
        /\ Cardinality(free) <= Width(Current) => cpus = free
    BY <1>1, <1>2, LastNSize
  <2>4. cpus \subseteq free /\ cpus \in SUBSET CPU
    BY <1>1 DEF LastN
  <2> HIDE DEF cpus
  <2>5. QED
    BY <2>1, <2>2, <2>3, <2>4, CarveFits
<1>7. CASE AssignSharedCarve
  <2> DEFINE cpus == FirstN(free, Width(Current))
  <2>1. /\ AtWorker({"isolated-shared", "burstable"})
        /\ Assign(cpus, FALSE, "front", free \ cpus)
    BY <1>7 DEF AssignSharedCarve
  <2>2. ClassOf(Current.comp) \in Classes \ {"reserved", "best-effort"}
    BY <2>1 DEF AtWorker, Classes
  <2>3. /\ Width(Current) <= Cardinality(free) => Cardinality(cpus) = Width(Current)
        /\ Cardinality(free) <= Width(Current) => cpus = free
    BY <1>1, <1>2, FirstNSize
  <2>4. cpus \subseteq free /\ cpus \in SUBSET CPU
    BY <1>1 DEF FirstN
  <2> HIDE DEF cpus
  <2>5. QED
    BY <2>1, <2>2, <2>3, <2>4, CarveFits
<1>8. CASE AssignSharedFallback
  <2>1. /\ AtWorker({"isolated-shared", "burstable"}) /\ free = {}
        /\ Assign(workload, FALSE, "fallback", free)
    BY <1>8 DEF AssignSharedFallback
  <2>2. ClassOf(Current.comp) \in Classes \ {"reserved"}
    BY <2>1 DEF AtWorker, Classes
  <2>3. QED
    BY <2>1, <2>2, WholePoolFits
<1>9. CASE AssignBestEffort
  <2>1. AtWorker({"best-effort"}) /\ Assign(workload, FALSE, "pool", free)
    BY <1>9 DEF AssignBestEffort
  <2>2. ClassOf(Current.comp) = "best-effort" /\ "best-effort" \in Classes \ {"reserved"}
    BY <2>1 DEF AtWorker, Classes
  <2>3. QED
    BY <2>1, <2>2, WholePoolFits
<1>10. QED
  BY <1>4, <1>5, <1>6, <1>7, <1>8, <1>9

\* Init and every step keep the account of what fits.
LEMMA FitInductive ==
  /\ Init => FitInv
  /\ IndInv /\ FitInv /\ [Next]_vars => FitInv'
<1>1. Init => FitInv
  BY DEF Init, FitInv
<1>2. ASSUME IndInv, FitInv, [Next]_vars PROVE FitInv'
  <2>0. BaseInv /\ PlanInv /\ TypeOK
    BY <1>2 DEF IndInv, BaseInv
  <2>1. UNCHANGED <<profile, flat>>
    BY <1>2 DEF vars, Next, RejectProfile, AcceptProfile, SkipOverride, TakeOverride,
      RejectOverride, OverridesDone, AssignReserved, AssignExclusiveOverride,
      AssignExclusiveCarve, RejectCarve, AssignSharedOverride, AssignSharedCarve,
      AssignSharedFallback, AssignBestEffort, WorkersDone, AssignObserver,
      AssignVictimOverride, AssignVictimDefault, RejectVictim, AcceptPlan, RejectPlan,
      Fail, Assign, PlaceVictim
  <2>2. SUFFICES ASSUME NoOverride, ValidProfile(profile)
                 PROVE  /\ pc' \in {"workers", "observer", "victim"} => PoolInv'
                        /\ pc' \in {"check", "ok"} => FitsAll /\ NoOverlap'
                        /\ pc' = "error" => ~FitsAll
    BY <2>1, ArgumentsStay DEF FitInv
  <2>3. /\ pc \in {"workers", "observer", "victim"} => PoolInv
        /\ pc \in {"check", "ok"} => FitsAll /\ NoOverlap
        /\ pc = "error" => ~FitsAll
    BY <1>2, <2>2 DEF FitInv
  <2>4. CASE UNCHANGED vars
    <3>1. /\ PoolInv' <=> PoolInv
          /\ NoOverlap' <=> NoOverlap
          /\ pc' = pc
      BY <2>4, <2>1, ArgumentsStay DEF vars, PoolInv, Planned, Candidate, NoOverlap
    <3>2. QED
      BY <2>3, <3>1
  <2>5. CASE RejectProfile
    BY <2>2, <2>5 DEF RejectProfile
  <2>6. CASE AcceptProfile
    BY <2>6 DEF AcceptProfile
  <2>7. ASSUME NEW n \in Names, SkipOverride(n) \/ TakeOverride(n) \/ RejectOverride(n)
        PROVE  pc' = "overrides"
    <3>1. Tuning(n).cpus = Unset
      BY <2>2 DEF NoOverride, Tuning, NoTuning
    <3>2. QED
      BY <2>7, <3>1 DEF SkipOverride, TakeOverride, RejectOverride, ExclusiveOverride
  <2>8. CASE OverridesDone
    <3>1. pc = "overrides" /\ plan' = << >> /\ pc' = "workers" /\ free' = workload
      BY <2>0, <2>8 DEF OverridesDone, PlanInv, LengthInv
    <3>2. workload = profile.isolated
      <4>1. \A n : Tuning(n).cpus = Unset
        BY <2>2 DEF NoOverride, Tuning, NoTuning
      <4>2. DOMAIN taken = {}
        BY <2>0, <3>1, <4>1 DEF BaseInv, OverrideInv, ExclusiveOverride
      <4>3. QED
        BY <2>0, <3>1, <4>2 DEF BaseInv, OverrideInv
    <3>3. Candidate' = profile.isolated /\ DOMAIN plan' = {} /\ Planned' = 0
      <4>1. DOMAIN plan' = {} /\ Len(plan') = 0
        BY <3>1
      <4>2. Len(flat') \in Nat
        BY <2>0, <2>1, DemandFacts
      <4>3. UNION {plan'[k].cpus : k \in DOMAIN plan'} = {}
        BY <4>1
      <4>4. QED
        BY <2>1, <4>1, <4>2, <4>3 DEF Candidate, Planned
    <3>4. /\ PartialSums(Demands)[0] = 0 /\ Pool \in Nat /\ Fits(0)
      <4>1. PartialSums(Demands)[0] = 0 /\ Pool \in Nat
        BY <2>0, DemandFacts
      <4>2. QED
        BY <4>1 DEF Fits
    <3>5. Cardinality(free') = Pool - PartialSums(Demands)[0]
      BY <3>1, <3>2, <3>4 DEF Pool
    <3>6. /\ Fits(Planned)' <=> Fits(0)
          /\ Pool' = Pool /\ Demands' = Demands
      BY <2>1, <3>3, ArgumentsStay DEF Fits
    <3>7. PoolInv'
      BY <3>1, <3>2, <3>3, <3>4, <3>5, <3>6 DEF PoolInv
    <3>8. QED
      BY <3>1, <3>7
  <2>9. CASE \/ AssignReserved \/ AssignExclusiveOverride \/ AssignExclusiveCarve
             \/ AssignSharedOverride \/ AssignSharedCarve \/ AssignSharedFallback
             \/ AssignBestEffort
    <3>1. pc = "workers" /\ pc' = "workers"
      BY <2>9 DEF AtWorker, Assign, AssignReserved, AssignExclusiveOverride,
         AssignExclusiveCarve, AssignSharedOverride, AssignSharedCarve,
         AssignSharedFallback, AssignBestEffort
    <3>2. QED
      BY <2>0, <2>2, <2>3, <2>9, <3>1, WorkersFit
  <2>10. CASE RejectCarve
    <3>1. /\ pc = "workers" /\ pc' = "error" /\ Len(plan) < Len(flat)
          /\ ClassOf(Current.comp) = "isolated-exclusive"
          /\ Cardinality(free) < Width(Current)
      BY <2>10 DEF RejectCarve, AtWorker, Fail
    <3> DEFINE n == Len(plan)
               sum == PartialSums(Demands)
    <3>2. n \in Nat /\ Len(flat) \in Nat /\ free \in SUBSET CPU
      BY <2>0, DemandFacts DEF TypeOK
    <3>3. n + 1 \in 1..Len(flat) /\ n + 1 \in 0..Len(flat) /\ n \in 0..Len(flat)
          /\ (n + 1) - 1 = n
      BY <3>1, <3>2
    <3>4. /\ Current = flat[n + 1] /\ Width(Current) \in Nat /\ Cardinality(free) \in Nat
          /\ sum[n + 1] = sum[n] + Width(Current) /\ sum[n] \in Nat /\ Pool \in Nat
      BY <2>0, <3>1, <3>2, <3>3, DemandFacts, WidthPositive, CPUSetFinite DEF Current
    <3>5. Planned = n
      BY <3>1 DEF Planned
    <3> HIDE DEF sum
    <3>6. ~Fits(n + 1)
      <4>1. SUFFICES ASSUME Fits(n + 1) PROVE FALSE
        OBVIOUS
      <4>2. Fits(n)
        BY <2>0, <3>3, <4>1, DemandFacts
      <4>3. Cardinality(free) = Pool - sum[n]
        BY <2>3, <3>1, <3>5, <4>2 DEF PoolInv, sum
      <4>4. sum[n + 1] <= Pool
        BY <4>1 DEF Fits, sum
      <4>5. QED
        BY <3>1, <3>4, <4>3, <4>4
    <3>7. ~FitsAll
      BY <2>0, <3>3, <3>6, DemandFacts
    <3>8. QED
      BY <3>1, <3>7
  <2>11. CASE WorkersDone
    <3>1. pc = "workers" /\ pc' = "observer" /\ UNCHANGED <<profile, flat, free, plan>>
      BY <2>11 DEF WorkersDone
    <3>2. PoolInv' <=> PoolInv
      BY <3>1, ArgumentsStay DEF PoolInv, Planned, Candidate
    <3>3. QED
      BY <2>3, <3>1, <3>2
  <2>12. CASE AssignObserver
    <3> DEFINE x == [comp |-> Observer, replica |-> NoReplica, class |-> "reserved",
                     cpus |-> profile.reserved, exclusive |-> FALSE,
                     gomaxprocs |-> Cardinality(profile.reserved), source |-> "reserved"]
               L == Len(flat)
    <3>1. /\ pc = "observer" /\ pc' = "victim" /\ plan' = Append(plan, x)
          /\ UNCHANGED <<profile, flat, free>>
      BY <2>12 DEF AssignObserver
    <3>2. x.cpus = profile.reserved /\ x.source = "reserved"
      OBVIOUS
    <3> HIDE DEF x
    <3>3. plan \in Seq(Assignment) /\ Len(plan) = L /\ L \in Nat
      BY <2>0, <3>1, DemandFacts DEF TypeOK, PlanInv, LengthInv
    <3>4. /\ DOMAIN plan = 1..L /\ DOMAIN plan' = 1..(L + 1) /\ Len(plan') = L + 1
          /\ plan'[L + 1] = x /\ \A k \in 1..L : plan'[k] = plan[k]
      BY <3>1, <3>3
    <3>5. Planned' = L /\ Planned = L
      <4>1. ~(Len(plan') < Len(flat')) /\ ~(Len(plan) < Len(flat)) /\ flat' = flat
        BY <3>1, <3>3, <3>4
      <4>2. QED
        BY <4>1 DEF Planned
    <3>6. Candidate' = Candidate
      <4>1. \A k \in 1..(L + 1) : k = L + 1 \/ k \in 1..L
        BY <3>3
      <4>2. 1..L \subseteq 1..(L + 1) /\ L + 1 \in 1..(L + 1)
        BY <3>3
      <4>3. UNION {plan'[k].cpus : k \in DOMAIN plan'}
              = (UNION {plan[k].cpus : k \in DOMAIN plan}) \cup profile.reserved
        BY <3>2, <3>4, <4>1, <4>2
      <4>4. profile.reserved \cap profile.isolated = {}
        BY <2>0, <2>2, <3>1, NoOverrideFacts
      <4>5. QED
        BY <3>1, <4>3, <4>4 DEF Candidate
    <3>7. /\ Fits(Planned)' <=> Fits(Planned)
          /\ Pool' = Pool /\ Demands' = Demands
      BY <2>1, <3>5, ArgumentsStay DEF Fits
    <3>8. ASSUME Fits(Planned), NEW j \in DOMAIN plan'
          PROVE  /\ plan'[j].source \in {"reserved", "front", "back"}
                 /\ plan'[j].source = "reserved" => plan'[j].cpus = profile'.reserved
      <4>1. CASE j = L + 1
        BY <3>1, <3>2, <3>4, <4>1
      <4>2. CASE j # L + 1
        <5>1. j \in 1..L
          BY <3>3, <3>4, <3>8, <4>2
        <5>2. QED
          BY <2>3, <3>1, <3>4, <3>8, <5>1 DEF PoolInv
      <4>3. QED
        BY <4>1, <4>2
    <3>9. PoolInv'
      BY <2>3, <3>1, <3>5, <3>6, <3>7, <3>8 DEF PoolInv
    <3>10. QED
      BY <3>1, <3>9
  <2>13. CASE AssignVictimOverride
    <3>1. Tuning(Victim).cpus = Unset
      BY <2>2 DEF NoOverride, Tuning, NoTuning
    <3>2. QED
      BY <2>13, <3>1 DEF AssignVictimOverride, VictimOverride
  <2>14. CASE AssignVictimDefault
    <3>1. pc = "victim" /\ pc' = "check"
      BY <2>14 DEF AssignVictimDefault, PlaceVictim
    <3>2. QED
      BY <2>0, <2>2, <2>3, <2>14, <3>1, VictimFits
  <2>15. CASE RejectVictim
    <3>1. pc = "victim" /\ pc' = "error" /\ Cardinality(Candidate) < VictimWidth
      BY <2>15 DEF RejectVictim, Fail
    <3>2. Len(plan) = Len(flat) + 1 /\ Len(flat) \in Nat /\ Len(flat) \in 0..Len(flat)
      BY <2>0, <3>1, DemandFacts DEF PlanInv, LengthInv
    <3>3. Planned = Len(flat)
      <4>1. ~(Len(plan) < Len(flat))
        BY <3>2
      <4>2. QED
        BY <4>1 DEF Planned
    <3>4. ~FitsAll
      <4>1. SUFFICES ASSUME FitsAll PROVE FALSE
        OBVIOUS
      <4>2. /\ Fits(Len(flat)) /\ Pool \in Nat
            /\ PartialSums(Demands)[Len(flat)] \in Nat
        BY <2>0, <3>2, <4>1, DemandFacts
      <4>3. Cardinality(Candidate) = Pool - PartialSums(Demands)[Len(flat)]
        BY <2>3, <3>1, <3>3, <4>2 DEF PoolInv
      <4>4. PartialSums(Demands)[Len(flat)] + VictimWidth <= Pool
        BY <4>1 DEF FitsAll
      <4>5. QED
        BY <3>1, <4>2, <4>3, <4>4, WidthAssumption
    <3>5. QED
      BY <3>1, <3>4
  <2>16. CASE AcceptPlan
    <3>1. pc = "check" /\ pc' = "ok" /\ (NoOverlap' <=> NoOverlap)
      BY <2>16 DEF AcceptPlan, NoOverlap
    <3>2. QED
      BY <2>3, <3>1
  <2>17. CASE RejectPlan
    BY <2>3, <2>17 DEF RejectPlan
  <2>18. QED
    BY <1>2, <2>4, <2>5, <2>6, <2>7, <2>8, <2>9, <2>10, <2>11, <2>12, <2>13, <2>14,
       <2>15, <2>16, <2>17 DEF Next
<1>3. QED
  BY <1>1, <1>2

\* Without explicit cpusets BuildPlan is complete: it returns a plan exactly when
\* no process is best-effort and the demands leave the victim its width, whatever
\* the order of classes and widths in the topology (plan.go 150-294).
THEOREM AcceptsWhatFits == Spec => []AcceptsExactlyWhatFits
<1>1. IndInv /\ FitInv => AcceptsExactlyWhatFits
  BY DEF FitInv, FitsAll, NoOverride, Pool, AcceptsExactlyWhatFits, Accepted
<1>2. Spec => []FitInv
  <2>1. Spec => []IndInv /\ Init /\ [][Next]_vars
    BY Inductive DEF Spec
  <2>2. QED
    BY <2>1, FitInductive, PTL
<1>3. QED
  BY <1>1, <1>2, Inductive, PTL

-----------------------------------------------------------------------------
(* CPU lists *)

\* l is the list of the set S: sorted and without duplicates.
ListOf(l, S) ==
  /\ l \in Seq(Nat) /\ Range(l) = S
  /\ \A j, k \in 1..Len(l) : j < k => l[j] < l[k]

Lower(S, c) == {d \in S : d < c}

\* The elements of a list and the places they are at.
LEMMA Places ==
  ASSUME NEW l, NEW S, ListOf(l, S)
  PROVE  /\ Len(l) \in Nat /\ DOMAIN l = 1..Len(l) /\ S \in SUBSET Nat
         /\ l = [j \in 1..Len(l) |-> l[j]]
         /\ \A j \in 1..Len(l) : l[j] \in S /\ l[j] \in Nat
         /\ \A c \in S : \E j \in 1..Len(l) : c = l[j]
         /\ \A j, k \in 1..Len(l) : (l[j] < l[k] <=> j < k) /\ (l[j] = l[k] => j = k)
<1>1. l \in Seq(Nat) /\ Range(l) = S /\ \A j, k \in 1..Len(l) : j < k => l[j] < l[k]
  BY DEF ListOf
<1>2. /\ Len(l) \in Nat /\ DOMAIN l = 1..Len(l) /\ l \in [1..Len(l) -> Nat]
      /\ \A j \in 1..Len(l) : l[j] \in Nat
  BY <1>1
<1>3. /\ \A j \in 1..Len(l) : l[j] \in S
      /\ \A c \in S : \E j \in 1..Len(l) : c = l[j]
  BY <1>1, <1>2 DEF Range
<1>4. \A j, k \in 1..Len(l) : (l[j] < l[k] <=> j < k) /\ (l[j] = l[k] => j = k)
  <2>1. ASSUME NEW j \in 1..Len(l), NEW k \in 1..Len(l)
        PROVE  (l[j] < l[k] <=> j < k) /\ (l[j] = l[k] => j = k)
    <3>1. j \in Nat /\ k \in Nat /\ l[j] \in Nat /\ l[k] \in Nat
      BY <1>2
    <3>2. (j < k => l[j] < l[k]) /\ (k < j => l[k] < l[j])
      BY <1>1
    <3>3. QED
      BY <3>1, <3>2
  <2>2. QED
    BY <2>1
<1>5. QED
  BY <1>2, <1>3, <1>4

\* A prefix of a list is a set of so many elements.
LEMMA PrefixSize ==
  ASSUME NEW l, NEW S, ListOf(l, S), NEW n \in 0..Len(l)
  PROVE  LET P == {l[j] : j \in 1..n} IN IsFiniteSet(P) /\ Cardinality(P) = n
<1> DEFINE P == {l[j] : j \in 1..n}
           f == [j \in 1..n |-> l[j]]
<1>1. n \in Nat /\ \A j \in 1..n : j \in 1..Len(l)
  BY Places
<1>2. \A j, k \in 1..n : f[j] = f[k] => j = k
  BY <1>1, Places
<1>3. f \in Bijection(1..n, P)
  BY <1>2 DEF Bijection, Injection, Surjection, IsInjective
<1>4. ExistsBijection(1..n, P)
  BY <1>3 DEF ExistsBijection
<1>5. IsFiniteSet(P) /\ Cardinality(P) = n
  BY <1>1, <1>4, FS_NatBijection, FS_CountingElements
<1>6. QED
  BY <1>5

\* The k-th element has k-1 before it.
LEMMA ListRanks ==
  ASSUME NEW l, NEW S, ListOf(l, S)
  PROVE  /\ IsFiniteSet(S) /\ Cardinality(S) = Len(l)
         /\ \A k \in 1..Len(l) : Cardinality(Lower(S, l[k])) = k - 1
<1>1. ASSUME NEW k \in 1..Len(l) PROVE Cardinality(Lower(S, l[k])) = k - 1
  <2>1. k - 1 \in 0..Len(l) /\ \A j \in 1..Len(l) : j < k <=> j \in 1..(k - 1)
    BY Places
  <2>2. Lower(S, l[k]) = {l[j] : j \in 1..(k - 1)}
    <3>1. ASSUME NEW d \in Lower(S, l[k]) PROVE d \in {l[j] : j \in 1..(k - 1)}
      <4>1. PICK j \in 1..Len(l) : d = l[j]
        BY Places DEF Lower
      <4>2. j < k
        BY <4>1, Places DEF Lower
      <4>3. QED
        BY <2>1, <4>1, <4>2
    <3>2. ASSUME NEW j \in 1..(k - 1) PROVE l[j] \in Lower(S, l[k])
      <4>1. j \in 1..Len(l) /\ j < k
        BY Places
      <4>2. QED
        BY <4>1, Places DEF Lower
    <3>3. QED
      BY <3>1, <3>2
  <2>3. QED
    BY <2>1, <2>2, PrefixSize
<1>2. IsFiniteSet(S) /\ Cardinality(S) = Len(l)
  <2>1. Len(l) \in 0..Len(l)
    BY Places
  <2>2. S = {l[j] : j \in 1..Len(l)}
    BY Places
  <2>3. QED
    BY <2>1, <2>2, PrefixSize
<1>3. QED
  BY <1>1, <1>2

\* A set has one list.
LEMMA ListIsInts ==
  ASSUME NEW l, NEW S, ListOf(l, S)
  PROVE  l = Ints(S)
<1>1. ASSUME NEW k \in 1..Len(l)
      PROVE  l[k] = CHOOSE c \in S : Cardinality(Lower(S, c)) = k - 1
  <2>1. l[k] \in S /\ Cardinality(Lower(S, l[k])) = k - 1
    BY Places, ListRanks
  <2>2. ASSUME NEW c \in S, Cardinality(Lower(S, c)) = k - 1 PROVE c = l[k]
    <3>1. PICK j \in 1..Len(l) : c = l[j]
      BY Places
    <3>2. Cardinality(Lower(S, l[j])) = j - 1
      BY ListRanks
    <3>3. j - 1 = k - 1 /\ j \in Nat /\ k \in Nat
      BY <2>2, <3>1, <3>2, Places
    <3>4. QED
      BY <3>1, <3>3
  <2>3. QED
    BY <2>1, <2>2
<1>2. Ints(S) = [k \in 1..Len(l) |-> CHOOSE c \in S : Cardinality(Lower(S, c)) = k - 1]
  BY ListRanks DEF Ints, Lower
<1>3. QED
  BY <1>1, <1>2, Places


\* The numbers of lower elements tell the elements of a set apart.
LEMMA LowerSize ==
  ASSUME NEW S \in SUBSET Nat, IsFiniteSet(S), NEW c \in S
  PROVE  /\ Cardinality(Lower(S, c)) \in 0..(Cardinality(S) - 1)
         /\ \A d \in S : c < d => Cardinality(Lower(S, c)) < Cardinality(Lower(S, d))
<1>1. \A T \in SUBSET S : IsFiniteSet(T) /\ Cardinality(T) \in Nat
  BY FS_Subset, FS_CardinalityType
<1>2. ASSUME NEW T \in SUBSET S, NEW U \in SUBSET T, U # T
      PROVE  Cardinality(U) < Cardinality(T)
  <2>1. IsFiniteSet(T) /\ Cardinality(T) \in Nat /\ Cardinality(U) \in Nat
    BY <1>1
  <2>2. Cardinality(U) <= Cardinality(T) /\ Cardinality(U) # Cardinality(T)
    BY <1>2, <2>1, FS_Subset
  <2>3. QED
    BY <2>1, <2>2
<1>3. Cardinality(Lower(S, c)) < Cardinality(S)
  <2>1. Lower(S, c) \in SUBSET S /\ S \in SUBSET S /\ c \notin Lower(S, c)
    BY DEF Lower
  <2>2. QED
    BY <1>2, <2>1
<1>4. ASSUME NEW d \in S, c < d
      PROVE  Cardinality(Lower(S, c)) < Cardinality(Lower(S, d))
  <2>1. /\ Lower(S, d) \in SUBSET S /\ c \in Lower(S, d) /\ c \notin Lower(S, c)
    BY <1>4 DEF Lower
  <2>2. ASSUME NEW e \in Lower(S, c) PROVE e \in Lower(S, d)
    <3>1. e \in S /\ e \in Nat /\ c \in Nat /\ d \in Nat /\ e < c
      BY DEF Lower
    <3>2. QED
      BY <1>4, <3>1 DEF Lower
  <2>3. QED
    BY <1>2, <2>1, <2>2
<1>5. Lower(S, c) \in SUBSET S /\ S \in SUBSET S
  BY DEF Lower
<1>6. Cardinality(Lower(S, c)) \in Nat /\ Cardinality(S) \in Nat
  BY <1>1, <1>5
<1>7. QED
  BY <1>3, <1>4, <1>6

\* A finite set of numbers has a list.
LEMMA IntsIsList ==
  ASSUME NEW S \in SUBSET Nat, IsFiniteSet(S)
  PROVE  ListOf(Ints(S), S)
<1> DEFINE n == Cardinality(S)
           rank == [c \in S |-> Cardinality(Lower(S, c))]
           l == Ints(S)
<1>1. n \in Nat
  BY FS_CardinalityType
<1>2. rank \in [S -> 0..(n - 1)]
  BY LowerSize
<1>3. \A c, d \in S : c < d => rank[c] < rank[d]
  BY LowerSize
<1>4. \A c, d \in S : c \in Nat /\ d \in Nat /\ rank[c] \in Nat /\ rank[d] \in Nat
  BY <1>1, <1>2
<1>5. \A c, d \in S : (rank[c] < rank[d] <=> c < d) /\ (rank[c] = rank[d] => c = d)
  <2> HIDE DEF rank
  <2>1. QED
    BY <1>3, <1>4
<1>6. \A j \in 1..n : \E c \in S : rank[c] = j - 1
  <2>1. IsFiniteSet(0..(n - 1)) /\ Cardinality(0..(n - 1)) = n
    <3>1. 0 \in Int /\ n - 1 \in Int /\ (n - 1) - 0 + 1 = n /\ (0 > n - 1 => n = 0)
      BY <1>1
    <3> HIDE DEF n
    <3>2. QED
      BY <3>1, FS_Interval
  <2>2. rank \in Injection(S, 0..(n - 1))
    BY <1>2, <1>5 DEF Injection, IsInjective
  <2>3. rank \in Surjection(S, 0..(n - 1))
    <3> HIDE DEF rank
    <3>1. QED
      BY <2>1, <2>2, FS_Injection
  <2>4. \A m \in 0..(n - 1) : \E c \in S : rank[c] = m
    BY <2>3 DEF Surjection
  <2>5. \A j \in 1..n : j - 1 \in 0..(n - 1)
    BY <1>1
  <2>6. QED
    BY <2>4, <2>5
<1>7. l = [j \in 1..n |-> CHOOSE c \in S : Cardinality(Lower(S, c)) = j - 1]
  BY DEF Ints, Lower
<1>8. \A j \in 1..n : l[j] \in S /\ rank[l[j]] = j - 1
  <2>1. ASSUME NEW j \in 1..n PROVE l[j] \in S /\ Cardinality(Lower(S, l[j])) = j - 1
    <3>1. l[j] = CHOOSE c \in S : Cardinality(Lower(S, c)) = j - 1
      BY <1>7
    <3>2. \E c \in S : Cardinality(Lower(S, c)) = j - 1
      BY <1>6
    <3> HIDE DEF l
    <3>3. QED
      BY <3>1, <3>2
  <2>2. QED
    BY <2>1
<1>9. l \in Seq(Nat) /\ Len(l) = n /\ DOMAIN l = 1..n
  <2>1. l \in [1..n -> Nat]
    <3>1. \A j \in 1..n : l[j] \in Nat
      BY <1>8
    <3>2. l = [j \in 1..n |-> l[j]]
      BY <1>7
    <3> HIDE DEF l
    <3>3. QED
      BY <3>1, <3>2
  <2> HIDE DEF l, n
  <2>2. QED
    BY <1>1, <2>1
<1> HIDE DEF rank, l, n
<1>10. Range(l) = S
  <2>1. ASSUME NEW c \in S PROVE \E j \in 1..n : l[j] = c
    <3>1. rank[c] + 1 \in 1..n /\ (rank[c] + 1) - 1 = rank[c]
      BY <1>1, <1>2
    <3>2. rank[l[rank[c] + 1]] = rank[c] /\ l[rank[c] + 1] \in S
      BY <1>8, <3>1
    <3>3. QED
      BY <1>5, <3>1, <3>2
  <2>2. \A j \in 1..n : l[j] \in S
    BY <1>8
  <2>3. QED
    BY <1>9, <2>1, <2>2 DEF Range
<1>11. ASSUME NEW j \in 1..n, NEW k \in 1..n, j < k PROVE l[j] < l[k]
  <2>1. rank[l[j]] < rank[l[k]] /\ l[j] \in S /\ l[k] \in S
    BY <1>1, <1>8, <1>11
  <2>2. QED
    BY <1>5, <2>1
<1>12. QED
  BY <1>9, <1>10, <1>11 DEF ListOf, l

\* Sorting a list changes nothing.
LEMMA SortOfList ==
  ASSUME NEW l, NEW S, ListOf(l, S)
  PROVE  sortInts(l) = l
<1>1. ASSUME NEW k \in 1..Len(l) PROVE Cardinality(Before(l, k)) = k - 1
  <2>1. Before(l, k) = 1..(k - 1)
    <3>1. ASSUME NEW m \in 1..Len(l)
          PROVE  (l[m] < l[k] \/ (l[m] = l[k] /\ m < k)) <=> m < k
      <4>1. m \in Nat /\ k \in Nat
        BY Places
      <4>2. QED
        BY <4>1, Places
    <3>2. \A m \in 1..Len(l) : m < k <=> m \in 1..(k - 1)
      BY Places
    <3>3. \A m \in 1..(k - 1) : m \in 1..Len(l)
      BY Places
    <3>4. DOMAIN l = 1..Len(l)
      BY Places
    <3>5. QED
      BY <3>1, <3>2, <3>3, <3>4 DEF Before
  <2>2. k \in Nat /\ k >= 1
    BY Places
  <2>3. QED
    BY <2>1, <2>2, FS_Interval
<1>2. ASSUME NEW j \in 1..Len(l)
      PROVE  (CHOOSE k \in DOMAIN l : Cardinality(Before(l, k)) = j - 1) = j
  <2>1. DOMAIN l = 1..Len(l) /\ Cardinality(Before(l, j)) = j - 1
    BY <1>1, Places
  <2>2. ASSUME NEW k \in 1..Len(l), Cardinality(Before(l, k)) = j - 1 PROVE k = j
    <3>1. k - 1 = j - 1 /\ k \in Nat /\ j \in Nat
      BY <1>1, <2>2, Places
    <3>2. QED
      BY <3>1
  <2>3. QED
    BY <2>1, <2>2
<1>3. sortInts(l) = [j \in 1..Len(l) |-> l[j]]
  BY <1>2, Places DEF sortInts
<1>4. QED
  BY <1>3, Places

\* The elements of a list that are in T, in the order of the list.
LEMMA KeptIsList ==
  ASSUME NEW l, NEW S, ListOf(l, S), NEW T
  PROVE  ListOf(Kept(l, T), S \cap T)
<1> DEFINE P == {k \in DOMAIN l : l[k] \in T}
           p == Ints(P)
           r == Kept(l, T)
<1>1. /\ Len(l) \in Nat /\ DOMAIN l = 1..Len(l)
      /\ \A j \in 1..Len(l) : l[j] \in S /\ l[j] \in Nat
      /\ \A c \in S : \E j \in 1..Len(l) : c = l[j]
      /\ \A j, k \in 1..Len(l) : j < k => l[j] < l[k]
  BY Places
<1>2. P \in SUBSET (1..Len(l)) /\ P \in SUBSET Nat /\ IsFiniteSet(P)
  <2>1. P \in SUBSET (1..Len(l)) /\ IsFiniteSet(1..Len(l))
    BY <1>1, FS_Interval
  <2>2. QED
    BY <2>1, FS_Subset
<1>3. ListOf(p, P)
  BY <1>2, IntsIsList
<1>4. r = [j \in DOMAIN p |-> l[p[j]]]
  BY DEF Kept
<1> HIDE DEF p, r
<1>5. /\ Len(p) \in Nat /\ DOMAIN p = 1..Len(p)
      /\ \A j \in 1..Len(p) : p[j] \in P
      /\ \A k \in P : \E j \in 1..Len(p) : k = p[j]
      /\ \A j, k \in 1..Len(p) : j < k => p[j] < p[k]
  BY <1>3, Places
<1>6. /\ r \in [1..Len(p) -> Nat] /\ Len(r) = Len(p)
      /\ \A j \in 1..Len(p) : r[j] = l[p[j]] /\ l[p[j]] \in T /\ p[j] \in 1..Len(l)
  BY <1>1, <1>4, <1>5
<1>7. r \in Seq(Nat)
  BY <1>5, <1>6
<1>8. Range(r) = S \cap T
  <2>1. ASSUME NEW c \in S \cap T PROVE \E j \in 1..Len(p) : r[j] = c
    <3>1. PICK k \in 1..Len(l) : c = l[k]
      BY <1>1
    <3>2. k \in P
      BY <1>1, <3>1
    <3>3. QED
      BY <1>5, <1>6, <3>1, <3>2
  <2>2. \A j \in 1..Len(p) : r[j] \in S \cap T
    BY <1>1, <1>6
  <2>3. DOMAIN r = 1..Len(p)
    BY <1>6
  <2>4. QED
    BY <2>1, <2>2, <2>3 DEF Range
<1>9. ASSUME NEW j \in 1..Len(r), NEW k \in 1..Len(r), j < k PROVE r[j] < r[k]
  BY <1>1, <1>5, <1>6, <1>9
<1>10. QED
  BY <1>7, <1>8, <1>9 DEF ListOf, r


\* Intersect, Difference and Union are those of the sets.
LEMMA SetOperations ==
  ASSUME NEW l, NEW S, ListOf(l, S), NEW other, NEW T, ListOf(other, T)
  PROVE  /\ ListOf(Intersect(l, other), S \cap T)
         /\ ListOf(Difference(l, other), S \ T)
         /\ ListOf(Union(l, other), S \cup T)
<1>1. Range(l) = S /\ Range(other) = T
  BY DEF ListOf
<1>2. \A c : ContainsCPU(other, c) <=> c \in T
  BY <1>1 DEF ContainsCPU, Range
<1>3. ListOf(Intersect(l, other), S \cap T)
  <2> DEFINE C == {c \in Range(l) : ContainsCPU(other, c)}
  <2>1. S \cap C = S \cap T
    BY <1>1, <1>2
  <2>2. ListOf(Kept(l, C), S \cap T)
    BY <2>1, KeptIsList
  <2>3. sortInts(Kept(l, C)) = Kept(l, C)
    BY <2>2, SortOfList
  <2>4. QED
    BY <2>2, <2>3 DEF Intersect
<1>4. ListOf(Difference(l, other), S \ T)
  <2> DEFINE C == {c \in Range(l) : ~ContainsCPU(other, c)}
  <2>1. S \cap C = S \ T
    BY <1>1, <1>2
  <2>2. ListOf(Kept(l, C), S \ T)
    BY <2>1, KeptIsList
  <2>3. sortInts(Kept(l, C)) = Kept(l, C)
    BY <2>2, SortOfList
  <2>4. QED
    BY <2>2, <2>3 DEF Difference
<1>5. ListOf(Union(l, other), S \cup T)
  <2>1. IsFiniteSet(S) /\ IsFiniteSet(T) /\ S \in SUBSET Nat /\ T \in SUBSET Nat
    BY ListRanks, Places
  <2>2. IsFiniteSet(S \cup T) /\ S \cup T \in SUBSET Nat
    BY <2>1, FS_Union
  <2>3. QED
    BY <1>1, <2>2, IntsIsList DEF Union
<1>6. QED
  BY <1>3, <1>4, <1>5

\* A part of a list is a list.
LEMMA PartOfList ==
  ASSUME NEW l, NEW S, ListOf(l, S), NEW m \in 1..(Len(l) + 1), NEW n \in 0..Len(l),
         m <= n + 1
  PROVE  ListOf(SubSeq(l, m, n), {l[j] : j \in m..n})
<1> DEFINE r == SubSeq(l, m, n)
<1>1. /\ l \in Seq(Nat) /\ Len(l) \in Nat /\ m \in Nat /\ n \in Nat /\ m >= 1
      /\ \A j \in m..n : j \in 1..Len(l)
  BY Places DEF ListOf
<1> DEFINE k == n - m + 1
<1>2. r = [j \in 1..k |-> l[m + j - 1]] /\ k \in Nat
  BY <1>1
<1>3. \A j \in 1..k : m + j - 1 \in m..n /\ m + j - 1 \in 1..Len(l) /\ l[m + j - 1] \in Nat
  <2>1. \A j \in 1..k : m + j - 1 \in m..n
    BY <1>1
  <2>2. QED
    BY <1>1, <2>1, Places
<1>4. \A j \in m..n : j - m + 1 \in 1..k /\ m + (j - m + 1) - 1 = j
  BY <1>1
<1> HIDE DEF r, k
<1>5. /\ r \in [1..k -> Nat] /\ DOMAIN r = 1..k
      /\ r \in Seq(Nat) /\ Len(r) = k
  <2>1. r \in [1..k -> Nat] /\ DOMAIN r = 1..k
    BY <1>2, <1>3
  <2>2. k \in Nat
    BY <1>2
  <2>3. QED
    BY <2>1, <2>2
<1>6. Range(r) = {l[j] : j \in m..n}
  <2>1. ASSUME NEW j \in m..n PROVE \E i \in 1..k : r[i] = l[j]
    <3>1. r[j - m + 1] = l[m + (j - m + 1) - 1] /\ j - m + 1 \in 1..k
      BY <1>2, <1>4
    <3>2. QED
      BY <1>4, <3>1
  <2>2. ASSUME NEW j \in 1..k PROVE \E i \in m..n : r[j] = l[i]
    BY <1>2, <1>3
  <2>3. Range(r) = {r[i] : i \in 1..k}
    BY <1>5 DEF Range
  <2>4. \A x \in Range(r) : x \in {l[j] : j \in m..n}
    BY <2>2, <2>3
  <2>5. \A x \in {l[j] : j \in m..n} : x \in Range(r)
    BY <2>1, <2>3
  <2>6. QED
    BY <2>4, <2>5
<1>7. ASSUME NEW i \in 1..k, NEW j \in 1..k, i < j PROVE r[i] < r[j]
  <2>1. m + i - 1 \in 1..Len(l) /\ m + j - 1 \in 1..Len(l)
    BY <1>3
  <2>2. m + i - 1 < m + j - 1
    <3>1. i \in Nat /\ j \in Nat
      BY <1>2
    <3>2. QED
      BY <1>1, <1>7, <3>1
  <2>3. l[m + i - 1] < l[m + j - 1]
    BY <2>1, <2>2, Places
  <2>4. r[i] = l[m + i - 1] /\ r[j] = l[m + j - 1]
    BY <1>2
  <2>5. QED
    BY <2>3, <2>4
<1>8. QED
  BY <1>5, <1>6, <1>7 DEF ListOf, r

\* Take splits the set into its first n elements and the others.
LEMMA TakeSplits ==
  ASSUME NEW l, NEW S, ListOf(l, S), NEW n \in Nat
  PROVE  /\ ListOf(Taken(l, n), FirstN(S, n))
         /\ ListOf(Remaining(l, n), S \ FirstN(S, n))
<1>1. /\ Len(l) \in Nat /\ sortInts(l) = l
      /\ \A c \in S : \E j \in 1..Len(l) : c = l[j]
      /\ \A j \in 1..Len(l) : l[j] \in S
  BY Places, SortOfList
<1>2. \A j \in 1..Len(l) : l[j] \in FirstN(S, n) <=> j <= n
  <2>1. ASSUME NEW j \in 1..Len(l) PROVE l[j] \in FirstN(S, n) <=> j <= n
    <3>1. Cardinality({d \in S : d < l[j]}) = j - 1
      BY ListRanks DEF Lower
    <3>2. j - 1 < n <=> j <= n
      BY <1>1
    <3>3. QED
      BY <1>1, <3>1, <3>2 DEF FirstN
  <2>2. QED
    BY <2>1
<1>3. FirstN(S, n) \subseteq S
  BY DEF FirstN
<1>4. ListOf(<< >>, {})
  BY DEF ListOf, Range
<1>5. CASE n = 0
  <2>1. Taken(l, n) = << >> /\ Remaining(l, n) = l
    BY <1>5 DEF Taken, Remaining
  <2>2. FirstN(S, n) = {}
    BY <1>1, <1>2, <1>3, <1>5
  <2>3. QED
    BY <1>4, <2>1, <2>2
<1>6. CASE n # 0 /\ n >= Len(l)
  <2>1. Taken(l, n) = l /\ Remaining(l, n) = << >>
    BY <1>1, <1>6 DEF Taken, Remaining
  <2>2. FirstN(S, n) = S
    BY <1>1, <1>2, <1>3, <1>6
  <2>3. QED
    BY <1>4, <2>1, <2>2
<1>7. CASE n # 0 /\ ~(n >= Len(l))
  <2>1. Taken(l, n) = SubSeq(l, 1, n) /\ Remaining(l, n) = SubSeq(l, n + 1, Len(l))
    BY <1>1, <1>7 DEF Taken, Remaining
  <2>2. FirstN(S, n) = {l[j] : j \in 1..n}
    BY <1>1, <1>2, <1>3, <1>7
  <2>3. S \ FirstN(S, n) = {l[j] : j \in (n + 1)..Len(l)}
    BY <1>1, <1>2, <1>3, <1>7
  <2>4. /\ 1 \in 1..(Len(l) + 1) /\ n \in 0..Len(l) /\ 1 <= n + 1
        /\ n + 1 \in 1..(Len(l) + 1) /\ Len(l) \in 0..Len(l) /\ n + 1 <= Len(l) + 1
    BY <1>1, <1>7
  <2>5. ListOf(SubSeq(l, 1, n), {l[j] : j \in 1..n})
    BY <2>4, PartOfList
  <2>6. ListOf(SubSeq(l, n + 1, Len(l)), {l[j] : j \in (n + 1)..Len(l)})
    BY <2>4, PartOfList
  <2>7. QED
    BY <2>1, <2>2, <2>3, <2>5, <2>6
<1>8. QED
  BY <1>5, <1>6, <1>7

\* A slice from the end, and what is before it.
LEMMA EndSplits ==
  ASSUME NEW l, NEW S, ListOf(l, S), NEW n \in 0..Len(l)
  PROVE  /\ ListOf(SubSeq(l, Len(l) - n + 1, Len(l)), LastN(S, n))
         /\ ListOf(SubSeq(l, 1, Len(l) - n), S \ LastN(S, n))
<1> DEFINE k == Len(l) - n
<1>1. /\ Len(l) \in Nat /\ l \in Seq(Nat) /\ n \in Nat
      /\ \A j \in 1..Len(l) : l[j] \in S /\ l[j] \in Nat
      /\ \A c \in S : \E j \in 1..Len(l) : c = l[j]
  BY Places DEF ListOf
<1>2. k \in 0..Len(l) /\ k + 1 \in 1..(Len(l) + 1) /\ Len(l) \in 0..Len(l)
      /\ 1 \in 1..(Len(l) + 1) /\ k + 1 <= Len(l) + 1 /\ 1 <= k + 1
  BY <1>1
<1>3. ASSUME NEW j \in 1..Len(l) PROVE l[j] \in LastN(S, n) <=> k < j
  <2>1. {d \in S : d > l[j]} = {l[i] : i \in (j + 1)..Len(l)}
    <3>1. ASSUME NEW d \in S, d > l[j] PROVE d \in {l[i] : i \in (j + 1)..Len(l)}
      <4>1. PICK i \in 1..Len(l) : d = l[i]
        BY <1>1
      <4>2. l[j] < l[i] /\ i \in Nat /\ j \in Nat
        BY <1>1, <3>1, <4>1
      <4>3. j < i
        BY <4>2, Places
      <4>4. QED
        BY <1>1, <4>1, <4>2, <4>3
    <3>2. ASSUME NEW i \in (j + 1)..Len(l) PROVE l[i] \in S /\ l[i] > l[j]
      <4>1. i \in 1..Len(l) /\ j < i
        BY <1>1
      <4>2. l[j] < l[i] /\ l[i] \in S /\ l[i] \in Nat /\ l[j] \in Nat
        BY <1>1, <4>1, Places
      <4>3. QED
        BY <4>2
    <3>3. QED
      BY <3>1, <3>2
  <2>2. ListOf(SubSeq(l, j + 1, Len(l)), {l[i] : i \in (j + 1)..Len(l)})
    <3>1. j + 1 \in 1..(Len(l) + 1) /\ j + 1 <= Len(l) + 1
      BY <1>1
    <3>2. QED
      BY <1>2, <3>1, PartOfList
  <2>3. Len(SubSeq(l, j + 1, Len(l))) = Len(l) - j
    BY <1>1
  <2>4. Cardinality({d \in S : d > l[j]}) = Len(l) - j
    BY <2>1, <2>2, <2>3, ListRanks
  <2>5. Len(l) - j < n <=> k < j
    BY <1>1
  <2>6. QED
    BY <1>1, <2>4, <2>5 DEF LastN
<1> HIDE DEF k
<1>4. LastN(S, n) = {l[j] : j \in (k + 1)..Len(l)}
  <2>1. LastN(S, n) \subseteq S
    BY DEF LastN
  <2>2. \A j : j \in (k + 1)..Len(l) <=> (j \in 1..Len(l) /\ k < j)
    BY <1>1, <1>2
  <2>3. ASSUME NEW c \in LastN(S, n) PROVE c \in {l[j] : j \in (k + 1)..Len(l)}
    BY <1>1, <1>3, <2>1, <2>2
  <2>4. ASSUME NEW j \in (k + 1)..Len(l) PROVE l[j] \in LastN(S, n)
    BY <1>3, <2>2
  <2>5. QED
    BY <2>3, <2>4
<1>5. S \ LastN(S, n) = {l[j] : j \in 1..k}
  <2>1. \A j : j \in 1..k <=> (j \in 1..Len(l) /\ ~(k < j))
    BY <1>1, <1>2
  <2>2. ASSUME NEW c \in S \ LastN(S, n) PROVE c \in {l[j] : j \in 1..k}
    BY <1>1, <1>3, <2>1
  <2>3. ASSUME NEW j \in 1..k PROVE l[j] \in S \ LastN(S, n)
    BY <1>1, <1>3, <2>1
  <2>4. QED
    BY <2>2, <2>3
<1>6. ListOf(SubSeq(l, k + 1, Len(l)), {l[j] : j \in (k + 1)..Len(l)})
  BY <1>2, PartOfList
<1>7. ListOf(SubSeq(l, 1, k), {l[j] : j \in 1..k})
  BY <1>2, PartOfList
<1>8. QED
  BY <1>4, <1>5, <1>6, <1>7 DEF k

-----------------------------------------------------------------------------
(* The texts String writes *)

Good == {p \in Part : p.kind \in {"one", "range"} /\ ~Malformed(p)}

Consecutive(lo, hi) == [j \in 1..(hi - lo + 1) |-> lo + j - 1]

\* A well-formed part stands for the CPUs from lo to hi, in both parsers.
LEMMA GoodPart ==
  ASSUME NEW p \in Good
  PROVE  /\ p.lo \in Index /\ p.hi \in Index /\ p.lo <= p.hi /\ p.lo \in Nat /\ p.hi \in Nat
         /\ Denotes(p) = p.lo..p.hi
         /\ Expanded(p) = Consecutive(p.lo, p.hi)
<1>1. p \in Part /\ p.kind \in {"one", "range"} /\ ~Malformed(p)
  BY DEF Good
<1>2. NCPU \in Nat
  BY SizeAssumption
<1>3. /\ p.lo \in Index /\ p.hi \in Index /\ p.lo <= p.hi /\ p.lo \in Nat /\ p.hi \in Nat
      /\ p.kind = "one" => p.lo = p.hi
  <2>1. CASE p.kind = "one"
    <3>1. p.lo \in -1..NCPU - 1 /\ p.lo = p.hi /\ ~(p.lo < 0)
      BY <1>1, <2>1 DEF Part, Malformed
    <3>2. QED
      BY <1>2, <3>1 DEF Index
  <2>2. CASE p.kind = "range"
    <3>1. p.lo \in Index /\ p.hi \in -1..NCPU - 1 /\ ~(p.lo > p.hi)
      BY <1>1, <2>2 DEF Part, Malformed
    <3>2. QED
      BY <1>2, <2>2, <3>1 DEF Index
  <2>3. QED
    BY <1>1, <2>1, <2>2
<1>4. Denotes(p) = p.lo..p.hi
  BY <1>1 DEF Denotes
<1>5. Expanded(p) = Consecutive(p.lo, p.hi)
  <2>1. CASE p.kind = "one"
    <3>1. p.hi - p.lo + 1 = 1 /\ p.lo + 1 - 1 = p.lo
      BY <1>3, <2>1
    <3>2. Consecutive(p.lo, p.hi) = [j \in 1..1 |-> p.lo + j - 1]
      BY <3>1 DEF Consecutive
    <3>3. [j \in 1..1 |-> p.lo + j - 1] = <<p.lo>>
      BY <1>3
    <3>4. QED
      BY <2>1, <3>2, <3>3 DEF Expanded
  <2>2. CASE p.kind # "one"
    BY <2>2 DEF Expanded, Consecutive
  <2>3. QED
    BY <2>1, <2>2
<1>6. QED
  BY <1>3, <1>4, <1>5

\* Consecutive numbers, and one more of them.
LEMMA ConsecutiveGrows ==
  ASSUME NEW lo \in Nat, NEW hi \in Nat, lo <= hi
  PROVE  /\ Consecutive(lo, hi) \in Seq(Nat)
         /\ Consecutive(lo, lo) = <<lo>>
         /\ Consecutive(lo, hi + 1) = Consecutive(lo, hi) \o <<hi + 1>>
<1> DEFINE n == hi - lo + 1
           s == Consecutive(lo, hi)
           t == Consecutive(lo, hi + 1)
<1>1. n \in Nat /\ (hi + 1) - lo + 1 = n + 1 /\ lo + (n + 1) - 1 = hi + 1 /\ hi + 1 \in Nat
  OBVIOUS
<1>2. s = [j \in 1..n |-> lo + j - 1] /\ t = [j \in 1..(n + 1) |-> lo + j - 1]
  BY <1>1 DEF Consecutive
<1>3. \A j \in 1..(n + 1) : lo + j - 1 \in Nat
  BY <1>1
<1> HIDE DEF n, s, t
<1>4. s \in Seq(Nat) /\ Len(s) = n /\ t \in Seq(Nat) /\ Len(t) = n + 1
  <2>1. s \in [1..n -> Nat] /\ t \in [1..(n + 1) -> Nat] /\ n + 1 \in Nat
    BY <1>1, <1>2, <1>3
  <2>2. QED
    BY <1>1, <2>1
<1>5. t = Append(s, hi + 1)
  <2>1. /\ Append(s, hi + 1) \in Seq(Nat) /\ Len(Append(s, hi + 1)) = n + 1
        /\ \A j \in 1..n : Append(s, hi + 1)[j] = s[j]
        /\ Append(s, hi + 1)[n + 1] = hi + 1
    BY <1>1, <1>4, AppendProperties
  <2>2. \A j \in 1..n : j \in 1..(n + 1) /\ t[j] = s[j]
    BY <1>1, <1>2
  <2>3. t[n + 1] = hi + 1
    BY <1>1, <1>2
  <2>4. \A j \in 1..(n + 1) : j \in 1..n \/ j = n + 1
    BY <1>1
  <2>5. QED
    BY <1>4, <2>1, <2>2, <2>3, <2>4, SeqEqual
<1>6. Append(s, hi + 1) = s \o <<hi + 1>>
  BY <1>1, <1>4, AppendIsConcat
<1>7. Consecutive(lo, lo) = <<lo>>
  <2>1. lo - lo + 1 = 1 /\ lo + 1 - 1 = lo
    OBVIOUS
  <2>2. Consecutive(lo, lo) = [j \in 1..1 |-> lo + j - 1]
    BY <2>1 DEF Consecutive
  <2>3. [j \in 1..1 |-> lo + j - 1] = <<lo>>
    OBVIOUS
  <2>4. QED
    BY <2>2, <2>3
<1>8. QED
  BY <1>4, <1>5, <1>6, <1>7 DEF s, t

\* out is the recursion of parseCPUSet, over the first m parts.
Outputs(out, t, m) ==
  \A k \in 0..m : out[k] = IF k = 0 THEN << >> ELSE out[k - 1] \o Expanded(t[k])

\* Every part of a well-formed text has its CPUs.
LEMMA GoodTexts ==
  ASSUME NEW t \in Seq(Good)
  PROVE  Len(t) \in Nat /\ \A k \in 1..Len(t) : t[k] \in Good /\ Expanded(t[k]) \in Seq(Nat)
<1>1. Len(t) \in Nat /\ \A k \in 1..Len(t) : t[k] \in Good
  OBVIOUS
<1>2. \A p \in Good : Expanded(p) \in Seq(Nat)
  BY GoodPart, ConsecutiveGrows
<1>3. QED
  BY <1>1, <1>2

\* The recursion of parseCPUSet has a solution, whose last value it returns.
LEMMA ParseRecursion ==
  ASSUME NEW t \in Seq(Good)
  PROVE  \E out : Outputs(out, t, Len(t)) /\ parseCPUSet(t) = out[Len(t)]
<1> DEFINE n == Len(t)
           step == [k \in 1..n |-> [s \in Seq(Nat) |-> s \o Expanded(t[k])]]
           Body(out) == [k \in 0..Len(t) |-> IF k = 0 THEN << >> ELSE out[k - 1] \o Expanded(t[k])]
           out == CHOOSE out : out = Body(out)
<1>1. n \in Nat /\ \A k \in 1..n : Expanded(t[k]) \in Seq(Nat)
  BY GoodTexts
<1>2. step \in [1..n -> [Seq(Nat) -> Seq(Nat)]]
  <2>1. \A k \in 1..n : \A s \in Seq(Nat) : s \o Expanded(t[k]) \in Seq(Nat)
    BY <1>1, ConcatProperties
  <2>2. QED
    BY <2>1
<1> HIDE DEF n, step
<1>3. PICK f \in [0..n -> Seq(Nat)] : Computes(f, << >>, step, n)
  <2>1. << >> \in Seq(Nat)
    OBVIOUS
  <2>2. QED
    BY <1>1, <1>2, <2>1, RecursiveFunction
<1>4. \A k \in 1..n : f[k] = f[k - 1] \o Expanded(t[k])
  <2>1. ASSUME NEW k \in 1..n PROVE f[k] = f[k - 1] \o Expanded(t[k])
    <3>1. k - 1 \in 0..n
      BY <1>1
    <3>2. f[k - 1] \in Seq(Nat)
      BY <1>3, <3>1
    <3>3. QED
      BY <1>3, <3>2 DEF step, Computes
  <2>2. QED
    BY <2>1
<1>5. f = Body(f)
  <2>1. f = [k \in 0..n |-> f[k]]
    BY <1>3
  <2>2. \A k \in 0..n : k # 0 => k \in 1..n
    BY <1>1
  <2>3. \A k \in 0..n : f[k] = IF k = 0 THEN << >> ELSE f[k - 1] \o Expanded(t[k])
    BY <1>3, <1>4, <2>2 DEF Computes
  <2>4. QED
    BY <2>1, <2>3 DEF n
<1>6. out = Body(out)
  BY <1>5
<1>7. parseCPUSet(t) = out[n]
  BY DEF parseCPUSet, n
<1> HIDE DEF out
<1>8. Outputs(out, t, n)
  BY <1>6 DEF Outputs, n
<1>9. QED
  BY <1>7, <1>8 DEF n

\* The recursion determines its values, and they are lists of numbers.
LEMMA OutputsUnique ==
  ASSUME NEW m \in Nat, NEW t, \A k \in 1..m : Expanded(t[k]) \in Seq(Nat),
         NEW f, Outputs(f, t, m), NEW g, Outputs(g, t, m)
  PROVE  f[m] = g[m] /\ f[m] \in Seq(Nat)
<1> DEFINE S == {k \in Nat : k <= m => f[k] = g[k] /\ f[k] \in Seq(Nat)}
<1>1. 0 \in S
  <2>1. 0 \in 0..m
    OBVIOUS
  <2>2. f[0] = << >> /\ g[0] = << >>
    BY <2>1, Zenon DEF Outputs
  <2>3. << >> \in Seq(Nat)
    OBVIOUS
  <2>4. f[0] = g[0] /\ f[0] \in Seq(Nat)
    BY <2>2, <2>3
  <2>5. QED
    BY <2>4
<1>2. ASSUME NEW k \in S PROVE k + 1 \in S
  <2>1. SUFFICES ASSUME k + 1 <= m PROVE f[k + 1] = g[k + 1] /\ f[k + 1] \in Seq(Nat)
    OBVIOUS
  <2>2. k \in Nat /\ k <= m /\ k + 1 \in 0..m /\ k + 1 \in 1..m /\ k + 1 # 0 /\ (k + 1) - 1 = k
    BY <2>1
  <2>3. f[k] = g[k] /\ f[k] \in Seq(Nat)
    BY <2>2
  <2>4. f[k + 1] = f[k] \o Expanded(t[k + 1]) /\ g[k + 1] = g[k] \o Expanded(t[k + 1])
    BY <2>2 DEF Outputs
  <2>5. f[k] \o Expanded(t[k + 1]) \in Seq(Nat)
    BY <2>2, <2>3, ConcatProperties
  <2>6. QED
    BY <2>3, <2>4, <2>5
<1>3. \A k \in Nat : k \in S
  <2>1. \A k \in S : k + 1 \in S
    BY <1>2
  <2> HIDE DEF S
  <2>2. S \in SUBSET Nat
    BY DEF S
  <2>3. QED
    BY <1>1, <2>1, <2>2, Induction
<1>4. QED
  BY <1>3

\* The victim's parser returns a list of numbers.
LEMMA ParseType ==
  ASSUME NEW t \in Seq(Good)
  PROVE  parseCPUSet(t) \in Seq(Nat)
<1>1. PICK f : Outputs(f, t, Len(t)) /\ parseCPUSet(t) = f[Len(t)]
  BY ParseRecursion
<1>2. QED
  BY <1>1, GoodTexts, OutputsUnique

\* Of the empty text it returns the empty list.
LEMMA ParseEmpty == parseCPUSet(<< >>) = << >>
<1>1. << >> \in Seq(Good) /\ Len(<< >>) = 0
  OBVIOUS
<1>2. PICK f : Outputs(f, << >>, 0) /\ parseCPUSet(<< >>) = f[0]
  BY <1>1, ParseRecursion
<1>3. QED
  BY <1>2 DEF Outputs

\* A part that is appended adds its CPUs at the end.
LEMMA ParseAppend ==
  ASSUME NEW t \in Seq(Good), NEW p \in Good
  PROVE  /\ Append(t, p) \in Seq(Good)
         /\ parseCPUSet(Append(t, p)) = parseCPUSet(t) \o Expanded(p)
         /\ Meaning(Append(t, p)) = Meaning(t) \cup Denotes(p)
<1> DEFINE all == Append(t, p)
           n == Len(t)
<1>1. /\ all \in Seq(Good) /\ Len(all) = n + 1 /\ n \in Nat
      /\ \A k \in 1..n : all[k] = t[k] /\ Expanded(t[k]) \in Seq(Nat)
      /\ all[n + 1] = p /\ DOMAIN t = 1..n /\ DOMAIN all = 1..(n + 1)
  BY GoodTexts, AppendProperties
<1>2. PICK f : Outputs(f, t, n) /\ parseCPUSet(t) = f[n]
  BY ParseRecursion
<1>3. PICK g : Outputs(g, all, Len(all)) /\ parseCPUSet(all) = g[Len(all)]
  BY <1>1, ParseRecursion
<1> HIDE DEF all, n
<1>4. Outputs(g, t, n)
  <2>1. \A k \in 0..n : k \in 0..(n + 1) /\ (k # 0 => k \in 1..n)
    BY <1>1
  <2>2. QED
    BY <1>1, <1>3, <2>1 DEF Outputs
<1>5. f[n] = g[n]
  BY <1>1, <1>2, <1>4, OutputsUnique
<1>6. g[n + 1] = g[n] \o Expanded(p)
  <2>1. n + 1 \in 0..(n + 1) /\ n + 1 # 0 /\ (n + 1) - 1 = n
    BY <1>1
  <2>2. QED
    BY <1>1, <1>3, <2>1 DEF Outputs
<1>7. Meaning(all) = Meaning(t) \cup Denotes(p)
  <2>1. ASSUME NEW c \in Meaning(all) PROVE c \in Meaning(t) \cup Denotes(p)
    <3>1. PICK k \in 1..(n + 1) : c \in Denotes(all[k])
      BY <1>1 DEF Meaning
    <3>2. k \in 1..n \/ k = n + 1
      BY <1>1
    <3>3. QED
      BY <1>1, <3>1, <3>2 DEF Meaning
  <2>2. ASSUME NEW c \in Meaning(t) PROVE c \in Meaning(all)
    <3>1. PICK k \in 1..n : c \in Denotes(t[k])
      BY <1>1 DEF Meaning
    <3>2. k \in 1..(n + 1) /\ all[k] = t[k]
      BY <1>1
    <3>3. QED
      BY <1>1, <3>1, <3>2 DEF Meaning
  <2>3. ASSUME NEW c \in Denotes(p) PROVE c \in Meaning(all)
    <3>1. n + 1 \in 1..(n + 1)
      BY <1>1
    <3>2. QED
      BY <1>1, <3>1 DEF Meaning
  <2>4. QED
    BY <2>1, <2>2, <2>3
<1>8. QED
  BY <1>1, <1>2, <1>3, <1>5, <1>6, <1>7 DEF all

-----------------------------------------------------------------------------
(* The inductive invariant of the CPU lists *)

ListIdle ==
  call = "idle" => /\ ListOf(list, meant)
                   /\ text = << >> /\ given = FALSE /\ pos = 1 /\ seen = {}

\* String: the text and the range being built are the list so far.
ListRender ==
  call = "render" =>
    /\ ListOf(list, meant) /\ given = FALSE /\ seen = {}
    /\ text \in Seq(Good)
    /\ pos \in 2..(Len(list) + 1)
    /\ start \in Index /\ prev \in Index /\ start <= prev /\ prev = list[pos - 1]
    /\ parseCPUSet(text) \o Consecutive(start, prev) = SubSeq(list, 1, pos - 1)
    /\ Meaning(text) \cup (start..prev) = {list[j] : j \in 1..(pos - 1)}

\* ParseCPUList: what the parts so far stand for.
ListParse ==
  call = "parse" =>
    /\ text \in Seq(Part) /\ Meaning(text) = meant
    /\ pos \in 1..(Len(text) + 1)
    /\ seen = UNION {Denotes(text[k]) : k \in 1..(pos - 1)}
    /\ ~given => ListOf(list, meant) /\ parseCPUSet(text) = list

ListInv ==
  /\ call \in {"idle", "render", "parse", "error"}
  /\ meant \in SUBSET Index
  /\ ListIdle /\ ListRender /\ ListParse

\* The CPUs of the host are a finite set of natural numbers.
LEMMA IndexFacts ==
  /\ Index \in SUBSET Nat
  /\ \A S \in SUBSET Index : S \in SUBSET Nat /\ IsFiniteSet(S)
<1>1. NCPU \in Nat /\ 0 \in Int /\ NCPU - 1 \in Int
  BY SizeAssumption
<1>2. IsFiniteSet(Index) /\ Index \in SUBSET Nat
  BY <1>1, FS_Interval DEF Index
<1>3. QED
  BY <1>2, FS_Subset

\* A part of any text stands for CPUs of the host.
LEMMA PartFacts ==
  ASSUME NEW p \in Part
  PROVE  /\ Denotes(p) \in SUBSET Index
         /\ p.kind = "blank" => Denotes(p) = {}
         /\ p.kind \in {"one", "range"} /\ ~Malformed(p) =>
              Denotes(p) = (IF p.kind = "one" THEN {p.lo} ELSE p.lo..p.hi)
<1>1. CASE p \in Good
  <2>1. p.lo \in Index /\ p.hi \in Index /\ Denotes(p) = p.lo..p.hi /\ p.lo \in Nat
    BY <1>1, GoodPart
  <2>2. p.lo..p.hi \in SUBSET Index
    BY <2>1, SizeAssumption DEF Index
  <2>3. p.kind = "one" => p.lo = p.hi
    BY DEF Part
  <2>4. p.kind = "one" => p.lo..p.hi = {p.lo}
    BY <2>1, <2>3
  <2>5. p.kind # "blank"
    BY <1>1 DEF Good
  <2>6. QED
    BY <2>1, <2>2, <2>4, <2>5
<1>2. CASE p \notin Good
  <2>1. ~(p.kind \in {"one", "range"} /\ ~Malformed(p))
    BY <1>2 DEF Good
  <2>2. QED
    BY <2>1 DEF Denotes
<1>3. QED
  BY <1>1, <1>2

\* A text stands for CPUs of the host.
LEMMA MeaningFacts ==
  ASSUME NEW t \in Seq(Part)
  PROVE  /\ Meaning(t) \in SUBSET Index
         /\ Meaning(t) = UNION {Denotes(t[k]) : k \in 1..Len(t)}
<1>1. DOMAIN t = 1..Len(t) /\ \A k \in 1..Len(t) : t[k] \in Part
  OBVIOUS
<1>2. QED
  BY <1>1, PartFacts DEF Meaning

\* One CPU longer.
LEMMA NextPlace ==
  ASSUME NEW l, NEW S, ListOf(l, S), NEW k \in 1..Len(l)
  PROVE  /\ SubSeq(l, 1, k) = SubSeq(l, 1, k - 1) \o <<l[k]>>
         /\ {l[j] : j \in 1..k} = {l[j] : j \in 1..(k - 1)} \cup {l[k]}
<1>1. l \in Seq(Nat) /\ k \in Nat /\ k >= 1 /\ Len(l) \in Nat
  BY Places DEF ListOf
<1>2. 1 \in 1..Len(l) /\ k \in 1..Len(l)
  BY <1>1
<1>3. SubSeq(l, 1, k) = SubSeq(l, 1, k - 1) \o <<l[k]>>
  BY <1>1, <1>2, SubSeqRecursiveSecond
<1>4. \A j : j \in 1..k <=> (j \in 1..(k - 1) \/ j = k)
  BY <1>1
<1>5. QED
  BY <1>3, <1>4

\* A range of one CPU, and a range that is one longer.
LEMMA IntervalGrows ==
  ASSUME NEW lo \in Nat, NEW hi \in Nat, lo <= hi
  PROVE  lo..lo = {lo} /\ lo..(hi + 1) = (lo..hi) \cup {hi + 1}
OBVIOUS

-----------------------------------------------------------------------------
\* What String writes of the range being built.
Piece == IF start = prev THEN One(start) ELSE Span(start, prev)

\* What is written of a range is a part that stands for it.
LEMMA PieceIsGood ==
  ASSUME start \in Index, prev \in Index, start <= prev
  PROVE  /\ Piece \in Good /\ Denotes(Piece) = start..prev
         /\ Expanded(Piece) = Consecutive(start, prev)
         /\ Flushed = Append(text, Piece)
<1>1. start \in Nat /\ prev \in Nat /\ start \in -1..NCPU - 1 /\ prev \in -1..NCPU - 1
  BY SizeAssumption DEF Index
<1>2. Piece \in Good /\ Piece.lo = start /\ Piece.hi = prev
  <2>1. CASE start = prev
    <3>1. Piece = [kind |-> "one", lo |-> start, hi |-> start]
      BY <2>1 DEF Piece, One
    <3>2. Piece \in Part /\ ~Malformed(Piece)
      BY <1>1, <3>1 DEF Part, Malformed
    <3>3. QED
      BY <2>1, <3>1, <3>2 DEF Good
  <2>2. CASE start # prev
    <3>1. Piece = [kind |-> "range", lo |-> start, hi |-> prev]
      BY <2>2 DEF Piece, Span
    <3>2. Piece \in Part /\ ~Malformed(Piece)
      BY <1>1, <3>1 DEF Part, Malformed
    <3>3. QED
      BY <3>1, <3>2 DEF Good
  <2>3. QED
    BY <2>1, <2>2
<1>3. Flushed = Append(text, Piece)
  BY DEF Flushed, Piece
<1>4. QED
  BY <1>2, <1>3, GoodPart

\* When a range is written the text is the list so far.
LEMMA FlushedFacts ==
  ASSUME ListInv, call = "render"
  PROVE  /\ Flushed \in Seq(Good)
         /\ parseCPUSet(Flushed) = SubSeq(list, 1, pos - 1)
         /\ Meaning(Flushed) = {list[j] : j \in 1..(pos - 1)}
<1>1. /\ text \in Seq(Good)
      /\ start \in Index /\ prev \in Index /\ start <= prev
      /\ parseCPUSet(text) \o Consecutive(start, prev) = SubSeq(list, 1, pos - 1)
      /\ Meaning(text) \cup (start..prev) = {list[j] : j \in 1..(pos - 1)}
  BY DEF ListInv, ListRender
<1>2. QED
  BY <1>1, PieceIsGood, ParseAppend

\* The invariant holds of any list of CPUs.
LEMMA ListInitial == ListInit => ListInv
<1> SUFFICES ASSUME ListInit PROVE ListInv
  OBVIOUS
<1>1. PICK S \in SUBSET Index : list = Ints(S)
  BY DEF ListInit, Lists
<1>2. ListOf(list, S)
  BY <1>1, IndexFacts, IntsIsList
<1>3. meant = S
  BY <1>2 DEF ListInit, ListOf
<1>4. QED
  BY <1>2, <1>3 DEF ListInit, ListInv, ListIdle, ListRender, ListParse

\* The planner's operations are those of the sets.
LEMMA OperateKeeps ==
  ASSUME ListInv, Operate
  PROVE  ListOf(list', meant') /\ meant' \in SUBSET Index
<1>1. ListOf(list, meant) /\ meant \in SUBSET Index
  BY DEF ListInv, ListIdle, Operate
<1>2. CASE \E other \in Lists :
             \/ list' = Intersect(list, other) /\ meant' = meant \cap Range(other)
             \/ list' = Difference(list, other) /\ meant' = meant \ Range(other)
             \/ list' = Union(list, other) /\ meant' = meant \cup Range(other)
  <2>1. PICK other \in Lists :
             \/ list' = Intersect(list, other) /\ meant' = meant \cap Range(other)
             \/ list' = Difference(list, other) /\ meant' = meant \ Range(other)
             \/ list' = Union(list, other) /\ meant' = meant \cup Range(other)
    BY <1>2
  <2>2. PICK T \in SUBSET Index : other = Ints(T)
    BY DEF Lists
  <2>3. ListOf(other, T)
    BY <2>2, IndexFacts, IntsIsList
  <2>4. Range(other) = T
    BY <2>3 DEF ListOf
  <2>5. /\ ListOf(Intersect(list, other), meant \cap T)
        /\ ListOf(Difference(list, other), meant \ T)
        /\ ListOf(Union(list, other), meant \cup T)
    BY <1>1, <2>3, SetOperations
  <2>6. QED
    BY <1>1, <2>1, <2>4, <2>5
<1>3. CASE \E n \in 0..NCPU :
             LET first == {c \in meant : Cardinality({d \in meant : d < c}) < n}
             IN  \/ list' = Taken(list, n) /\ meant' = first
                 \/ list' = Remaining(list, n) /\ meant' = meant \ first
  <2>1. PICK n \in 0..NCPU :
             \/ list' = Taken(list, n) /\ meant' = FirstN(meant, n)
             \/ list' = Remaining(list, n) /\ meant' = meant \ FirstN(meant, n)
    BY <1>3 DEF FirstN
  <2>2. n \in Nat
    BY SizeAssumption
  <2>3. /\ ListOf(Taken(list, n), FirstN(meant, n))
        /\ ListOf(Remaining(list, n), meant \ FirstN(meant, n))
    BY <1>1, <2>2, TakeSplits
  <2>4. FirstN(meant, n) \in SUBSET meant
    BY DEF FirstN
  <2>5. QED
    BY <1>1, <2>1, <2>3, <2>4
<1>4. QED
  BY <1>2, <1>3 DEF Operate

\* String
LEMMA RenderKeeps ==
  ASSUME ListInv, Render \/ Extend \/ Break
  PROVE  ListInv'
<1>1. ListOf(list, meant) /\ sortInts(list) = list
  BY SortOfList DEF ListInv, ListIdle, ListRender, Render, Extend, Break
<1>2. /\ Len(list) \in Nat /\ list \in Seq(Nat)
      /\ \A j \in 1..Len(list) : list[j] \in Index /\ list[j] \in Nat
  BY <1>1, Places DEF ListOf, ListInv
<1>3. CASE Render
  <2>1. /\ text' = << >> /\ given' = FALSE /\ seen' = {} /\ pos' = 2 /\ call' = "render"
        /\ start' = list[1] /\ prev' = list[1]
        /\ UNCHANGED <<list, meant>>
    BY <1>1, <1>3 DEF Render, ListInv, ListIdle
  <2>2. 1 \in 1..Len(list) /\ 2 \in 2..(Len(list) + 1) /\ 2 - 1 = 1 /\ 1 - 1 = 0
    <3>1. list # << >>
      BY <1>3 DEF Render
    <3>2. QED
      BY <1>2, <3>1
  <2>3. list[1] \in Index /\ list[1] \in Nat /\ list[1] <= list[1]
    BY <1>2, <2>2
  <2>4. parseCPUSet(<< >>) \o Consecutive(list[1], list[1]) = SubSeq(list, 1, 1)
    <3>1. Consecutive(list[1], list[1]) = <<list[1]>>
      BY <2>3, ConsecutiveGrows
    <3>2. SubSeq(list, 1, 1) = SubSeq(list, 1, 0) \o <<list[1]>>
      BY <1>1, <2>2, NextPlace
    <3>3. SubSeq(list, 1, 0) = << >>
      BY SubSeqEmpty
    <3>4. QED
      BY <3>1, <3>2, <3>3, ParseEmpty
  <2>5. Meaning(<< >>) \cup (list[1]..list[1]) = {list[j] : j \in 1..1}
    <3>1. Meaning(<< >>) = {}
      BY DEF Meaning
    <3>2. list[1]..list[1] = {list[1]}
      BY <2>3
    <3>3. {list[j] : j \in 1..1} = {list[1]}
      OBVIOUS
    <3>4. QED
      BY <3>1, <3>2, <3>3
  <2>6. << >> \in Seq(Good)
    OBVIOUS
  <2>7. ListRender'
    BY <1>1, <2>1, <2>2, <2>3, <2>4, <2>5, <2>6 DEF ListRender
  <2>8. QED
    BY <2>1, <2>7 DEF ListInv, ListIdle, ListParse
<1>4. ASSUME Extend \/ Break
      PROVE  /\ given = FALSE /\ seen = {} /\ text \in Seq(Good) /\ parseCPUSet(text) \in Seq(Nat)
             /\ start \in Index /\ prev \in Index /\ start <= prev
             /\ start \in Nat /\ prev \in Nat
             /\ parseCPUSet(text) \o Consecutive(start, prev) = SubSeq(list, 1, pos - 1)
             /\ Meaning(text) \cup (start..prev) = {list[j] : j \in 1..(pos - 1)}
             /\ pos \in 1..Len(list) /\ pos + 1 \in 2..(Len(list) + 1) /\ (pos + 1) - 1 = pos
             /\ list[pos] \in Index /\ list[pos] \in Nat
             /\ SubSeq(list, 1, pos) = SubSeq(list, 1, pos - 1) \o <<list[pos]>>
             /\ {list[j] : j \in 1..pos} = {list[j] : j \in 1..(pos - 1)} \cup {list[pos]}
             /\ call = "render" /\ call' = "render" /\ pos' = pos + 1 /\ prev' = list[pos]
             /\ UNCHANGED <<list, meant, given, seen>>
  <2>1. /\ call = "render" /\ call' = "render" /\ pos' = pos + 1 /\ prev' = list[pos]
        /\ pos <= Len(list)
        /\ UNCHANGED <<list, meant, given, seen>>
    BY <1>1, <1>4 DEF Extend, Break
  <2>2. /\ given = FALSE /\ seen = {} /\ text \in Seq(Good)
        /\ start \in Index /\ prev \in Index /\ start <= prev
        /\ parseCPUSet(text) \o Consecutive(start, prev) = SubSeq(list, 1, pos - 1)
        /\ Meaning(text) \cup (start..prev) = {list[j] : j \in 1..(pos - 1)}
        /\ pos \in 2..(Len(list) + 1)
    BY <2>1 DEF ListInv, ListRender
  <2>3. pos \in 1..Len(list) /\ pos + 1 \in 2..(Len(list) + 1) /\ (pos + 1) - 1 = pos
    BY <1>2, <2>1, <2>2
  <2>4. start \in Nat /\ prev \in Nat /\ parseCPUSet(text) \in Seq(Nat)
    BY <2>2, IndexFacts, ParseType
  <2>5. QED
    BY <1>1, <1>2, <2>1, <2>2, <2>3, <2>4, NextPlace
<1>5. CASE Extend
  <2>1. list[pos] = prev + 1 /\ UNCHANGED <<text, start>>
    BY <1>1, <1>5 DEF Extend
  <2>2. start <= list[pos]
    BY <1>4, <1>5, <2>1
  <2>3. parseCPUSet(text) \o Consecutive(start, list[pos]) = SubSeq(list, 1, pos)
    <3>1. Consecutive(start, prev) \in Seq(Nat)
          /\ Consecutive(start, prev + 1) = Consecutive(start, prev) \o <<prev + 1>>
      BY <1>4, <1>5, ConsecutiveGrows
    <3>2. <<list[pos]>> \in Seq(Nat) /\ parseCPUSet(text) \in Seq(Nat)
      BY <1>4, <1>5
    <3>3. (parseCPUSet(text) \o Consecutive(start, prev)) \o <<list[pos]>>
            = parseCPUSet(text) \o (Consecutive(start, prev) \o <<list[pos]>>)
      BY <3>1, <3>2, ConcatAssociative
    <3>4. QED
      BY <1>4, <1>5, <2>1, <3>1, <3>3
  <2>4. Meaning(text) \cup (start..list[pos]) = {list[j] : j \in 1..pos}
    <3>1. start \in Nat /\ prev \in Nat /\ start <= prev
      BY <1>4, <1>5
    <3>2. start..(prev + 1) = (start..prev) \cup {prev + 1}
      BY <3>1, IntervalGrows
    <3>3. Meaning(text) \cup (start..(prev + 1)) = (Meaning(text) \cup (start..prev)) \cup {prev + 1}
      BY <3>2
    <3>4. QED
      BY <1>4, <1>5, <2>1, <3>3
  <2>5. ListRender'
    <3>1. /\ ListOf(list', meant') /\ given' = FALSE /\ seen' = {} /\ text' \in Seq(Good)
          /\ pos' \in 2..(Len(list') + 1) /\ pos' - 1 = pos
          /\ start' \in Index /\ prev' \in Index /\ start' <= prev' /\ prev' = list'[pos]
      BY <1>1, <1>4, <1>5, <2>1, <2>2
    <3>2. text' = text /\ start' = start /\ prev' = list[pos] /\ list' = list
      BY <1>4, <1>5, <2>1
    <3>3. parseCPUSet(text') \o Consecutive(start', prev') = SubSeq(list', 1, pos)
      BY <2>3, <3>2
    <3>4. Meaning(text') \cup (start'..prev') = {list'[j] : j \in 1..pos}
      BY <2>4, <3>2
    <3>5. QED
      BY <3>1, <3>3, <3>4 DEF ListRender
  <2>6. meant' \in SUBSET Index
    BY <1>4, <1>5 DEF ListInv
  <2>7. QED
    BY <1>4, <1>5, <2>5, <2>6 DEF ListInv, ListIdle, ListParse
<1>6. CASE Break
  <2>1. list[pos] \in Nat
    BY <1>4, <1>6
  <2>2. text' = Flushed /\ start' = list[pos]
    BY <1>1, <1>6 DEF Break
  <2>3. /\ Flushed \in Seq(Good)
        /\ parseCPUSet(Flushed) = SubSeq(list, 1, pos - 1)
        /\ Meaning(Flushed) = {list[j] : j \in 1..(pos - 1)}
    BY <1>4, <1>6, FlushedFacts
  <2>4. parseCPUSet(Flushed) \o Consecutive(list[pos], list[pos]) = SubSeq(list, 1, pos)
    <3>1. Consecutive(list[pos], list[pos]) = <<list[pos]>>
      <4>1. list[pos] <= list[pos]
        BY <2>1
      <4>2. QED
        BY <2>1, <4>1, ConsecutiveGrows
    <3>2. QED
      BY <1>4, <1>6, <2>3, <3>1
  <2>5. Meaning(Flushed) \cup (list[pos]..list[pos]) = {list[j] : j \in 1..pos}
    <3>1. list[pos]..list[pos] = {list[pos]}
      <4>1. list[pos] <= list[pos]
        BY <2>1
      <4>2. QED
        BY <2>1, <4>1, IntervalGrows
    <3>2. QED
      BY <1>4, <1>6, <2>3, <3>1
  <2>6. list[pos] <= list[pos]
    BY <2>1
  <2>7. ListRender'
    BY <1>1, <1>4, <1>6, <2>2, <2>3, <2>4, <2>5, <2>6 DEF ListRender
  <2>8. meant' \in SUBSET Index
    BY <1>4, <1>6 DEF ListInv
  <2>9. QED
    BY <1>4, <1>6, <2>7, <2>8 DEF ListInv, ListIdle, ListParse
<1>7. QED
  BY <1>3, <1>5, <1>6

\* The text that is read back, made by String or given.
LEMMA TextKeeps ==
  ASSUME ListInv, RenderEmpty \/ RenderDone \/ Given
  PROVE  ListInv'
<1> SUFFICES ASSUME TRUE
             PROVE  /\ call' = "parse" /\ meant' \in SUBSET Index
                    /\ text' \in Seq(Part) /\ Meaning(text') = meant'
                    /\ pos' = 1 /\ seen' = {}
                    /\ ~given' => ListOf(list', meant') /\ parseCPUSet(text') = list'
  <2>1. ASSUME text' \in Seq(Part), pos' = 1, seen' = {}
        PROVE  /\ pos' \in 1..(Len(text') + 1)
               /\ seen' = UNION {Denotes(text'[k]) : k \in 1..(pos' - 1)}
    <3>1. Len(text') \in Nat
      BY <2>1
    <3>2. 1..(pos' - 1) = {}
      BY <2>1
    <3>3. QED
      BY <2>1, <3>1, <3>2
  <2>2. QED
    BY <2>1 DEF ListInv, ListIdle, ListRender, ListParse
<1>1. CASE RenderEmpty
  <2>1. /\ call = "idle" /\ list = << >> /\ call' = "parse"
        /\ UNCHANGED <<list, meant, text, given, pos, start, prev, seen>>
    BY <1>1 DEF RenderEmpty
  <2>2. ListOf(list, meant) /\ text = << >> /\ given = FALSE /\ pos = 1 /\ seen = {}
        /\ meant \in SUBSET Index
    BY <2>1 DEF ListInv, ListIdle
  <2>3. meant = {}
    BY <2>1, <2>2 DEF ListOf, Range
  <2>4. Meaning(<< >>) = {} /\ << >> \in Seq(Part)
    BY DEF Meaning
  <2>5. QED
    BY <2>1, <2>2, <2>3, <2>4, ParseEmpty
<1>2. CASE RenderDone
  <2>1. /\ call = "render" /\ pos > Len(list) /\ text' = Flushed
        /\ call' = "parse" /\ pos' = 1
        /\ UNCHANGED <<list, meant, given, seen>>
    BY <1>2 DEF RenderDone
  <2>2. /\ ListOf(list, meant) /\ given = FALSE /\ seen = {} /\ meant \in SUBSET Index
        /\ pos \in 2..(Len(list) + 1)
    BY <2>1 DEF ListInv, ListRender
  <2>3. Len(list) \in Nat /\ list \in Seq(Nat) /\ meant = {list[j] : j \in 1..Len(list)}
    BY <2>2, Places DEF ListOf
  <2>4. pos - 1 = Len(list)
    BY <2>1, <2>2, <2>3
  <2>5. /\ Flushed \in Seq(Good) /\ parseCPUSet(Flushed) = SubSeq(list, 1, Len(list))
        /\ Meaning(Flushed) = meant
    BY <2>1, <2>3, <2>4, FlushedFacts
  <2>6. SubSeq(list, 1, Len(list)) = list
    BY <2>3, SubSeqFull
  <2>7. Flushed \in Seq(Part)
    <3>1. Good \in SUBSET Part
      BY DEF Good
    <3>2. Len(Flushed) \in Nat /\ Flushed \in [1..Len(Flushed) -> Part]
      BY <2>5, <3>1
    <3>3. QED
      BY <3>2
  <2>8. QED
    BY <2>1, <2>2, <2>5, <2>6, <2>7
<1>3. CASE Given
  <2>1. PICK n \in 0..MaxParts : \E t \in [1..n -> Part] : text' = t /\ meant' = Meaning(t)
    BY <1>3 DEF Given
  <2>2. PICK t \in [1..n -> Part] : text' = t /\ meant' = Meaning(t)
    BY <2>1
  <2>3. t \in Seq(Part)
    <3>1. n \in Nat
      BY SizeAssumption
    <3>2. QED
      BY <3>1
  <2>4. Meaning(t) \in SUBSET Index
    BY <2>3, MeaningFacts
  <2>5. /\ call = "idle" /\ given' = TRUE /\ call' = "parse"
        /\ UNCHANGED <<pos, start, prev, seen>>
    BY <1>3 DEF Given
  <2>6. pos = 1 /\ seen = {}
    BY <2>5 DEF ListInv, ListIdle
  <2>7. QED
    BY <2>2, <2>3, <2>4, <2>5, <2>6
<1>4. QED
  BY <1>1, <1>2, <1>3

\* ParseCPUList
LEMMA ParseKeeps ==
  ASSUME ListInv, ParseBlank \/ ParsePart \/ ParseFails \/ ParseDone
  PROVE  ListInv'
<1>1. /\ call = "parse" /\ meant \in SUBSET Index /\ UNCHANGED meant
      /\ text \in Seq(Part) /\ Meaning(text) = meant
      /\ pos \in 1..(Len(text) + 1)
      /\ seen = UNION {Denotes(text[k]) : k \in 1..(pos - 1)}
      /\ ~given => ListOf(list, meant) /\ parseCPUSet(text) = list
  BY DEF ListInv, ListParse, ParseBlank, ParsePart, ParseFails, ParseDone
<1>2. Len(text) \in Nat /\ \A k \in 1..Len(text) : text[k] \in Part
  BY <1>1
<1>3. ASSUME pos <= Len(text), pos' = pos + 1, seen' = seen \cup Denotes(text[pos]),
             UNCHANGED <<call, list, text, given>>
      PROVE  ListInv'
  <2>1. pos' \in 1..(Len(text') + 1) /\ pos' - 1 = pos
    BY <1>1, <1>2, <1>3
  <2>2. \A k : k \in 1..pos <=> (k \in 1..(pos - 1) \/ k = pos)
    BY <1>1, <1>2
  <2>3. {Denotes(text[k]) : k \in 1..pos}
          = {Denotes(text[k]) : k \in 1..(pos - 1)} \cup {Denotes(text[pos])}
    BY <2>2
  <2>4. seen' = UNION {Denotes(text[k]) : k \in 1..pos}
    BY <1>1, <1>3, <2>3
  <2>5. ListParse'
    BY <1>1, <1>3, <2>1, <2>4 DEF ListParse
  <2>6. QED
    BY <1>1, <1>3, <2>5 DEF ListInv, ListIdle, ListRender
<1>4. pos <= Len(text) => text[pos] \in Part
  BY <1>1, <1>2
<1>5. CASE ParseBlank
  <2>1. pos <= Len(text) /\ pos' = pos + 1 /\ text[pos].kind = "blank"
        /\ UNCHANGED <<call, list, text, given, seen>>
    BY <1>5 DEF ParseBlank
  <2>2. Denotes(text[pos]) = {}
    BY <1>4, <2>1, PartFacts
  <2>3. QED
    BY <1>3, <2>1, <2>2
<1>6. CASE ParsePart
  <2>1. /\ pos <= Len(text) /\ pos' = pos + 1
        /\ text[pos].kind \in {"one", "range"} /\ ~Malformed(text[pos])
        /\ seen' = seen \cup (IF text[pos].kind = "one" THEN {text[pos].lo}
                               ELSE text[pos].lo..text[pos].hi)
        /\ UNCHANGED <<call, list, text, given>>
    BY <1>6 DEF ParsePart
  <2>2. Denotes(text[pos]) = (IF text[pos].kind = "one" THEN {text[pos].lo}
                               ELSE text[pos].lo..text[pos].hi)
    BY <1>4, <2>1, PartFacts
  <2>3. seen' = seen \cup Denotes(text[pos])
    BY <2>1, <2>2
  <2>4. QED
    BY <1>3, <2>1, <2>3
<1>7. CASE ParseFails
  <2>1. call' = "error"
    BY <1>7 DEF ParseFails
  <2>2. QED
    BY <1>1, <2>1 DEF ListInv, ListIdle, ListRender, ListParse
<1>8. CASE ParseDone
  <2>1. /\ pos > Len(text) /\ list' = Ints(seen) /\ call' = "idle"
        /\ text' = << >> /\ given' = FALSE /\ pos' = 1 /\ seen' = {}
    BY <1>8 DEF ParseDone, Local
  <2>2. pos - 1 = Len(text)
    BY <1>1, <1>2, <2>1
  <2>3. seen = meant
    BY <1>1, <2>2, MeaningFacts
  <2>4. ListOf(list', meant')
    BY <1>1, <2>1, <2>3, IndexFacts, IntsIsList
  <2>5. QED
    BY <1>1, <2>1, <2>4 DEF ListInv, ListIdle, ListRender, ListParse
<1>9. QED
  BY <1>5, <1>6, <1>7, <1>8

\* Every step keeps the invariant.
LEMMA ListStep == ListInv /\ [ListNext]_listVars => ListInv'
<1> SUFFICES ASSUME ListInv, [ListNext]_listVars PROVE ListInv'
  OBVIOUS
<1>1. CASE Operate
  <2>1. /\ call = "idle" /\ UNCHANGED <<call, text, given, pos, start, prev, seen>>
    BY <1>1 DEF Operate
  <2>2. ListOf(list', meant') /\ meant' \in SUBSET Index
    BY <1>1, OperateKeeps
  <2>3. QED
    BY <2>1, <2>2 DEF ListInv, ListIdle, ListRender, ListParse
<1>2. CASE Render \/ Extend \/ Break
  BY <1>2, RenderKeeps
<1>3. CASE RenderEmpty \/ RenderDone \/ Given
  BY <1>3, TextKeeps
<1>4. CASE ParseBlank \/ ParsePart \/ ParseFails \/ ParseDone
  BY <1>4, ParseKeeps
<1>5. CASE UNCHANGED listVars
  <2>1. UNCHANGED <<call, list, meant, text, given, pos, start, prev, seen>>
    BY <1>5 DEF listVars
  <2>2. (ListIdle => ListIdle') /\ (ListParse => ListParse')
    BY <2>1 DEF ListIdle, ListParse
  <2>3. ListRender => ListRender'
    BY <2>1 DEF ListRender
  <2>4. QED
    BY <2>1, <2>2, <2>3 DEF ListInv
<1>6. QED
  BY <1>1, <1>2, <1>3, <1>4, <1>5 DEF ListNext

\* In every state of String and ParseCPUList the text, the range being built and
\* the CPUs seen so far account for the list (cpulist.go 26-111).
THEOREM ListInvariant == ListSpec => []ListInv
<1>1. ListInit => ListInv
  BY ListInitial
<1>2. ListInv /\ [ListNext]_listVars => ListInv'
  BY ListStep
<1>3. QED
  BY <1>1, <1>2, PTL DEF ListSpec

\* A list is the set it stands for, sorted and without duplicates, after any
\* operations, renderings and parsings (cpulist.go 26-191): on a host of any
\* size, and for texts of any length.
THEOREM ListsAreSets == ListSpec => []ListIsSet
<1>1. ListInv => ListIsSet
  BY ListIsInts DEF ListInv, ListIdle, ListIsSet
<1>2. QED
  BY <1>1, ListInvariant, PTL

\* What the launcher writes into --pinning-cpus the victim's own parser reads
\* back as the same list (chaos-victim/main.go 316-341).
THEOREM VictimReadsTheList == ListSpec => []VictimReadsTheSame
<1>1. ListInv => VictimReadsTheSame
  BY DEF ListInv, ListParse, VictimReadsTheSame
<1>2. QED
  BY <1>1, ListInvariant, PTL

\* The planner may work with sets: on the lists of two sets the operations
\* return the lists of the sets that Planner computes (cpulist.go 125-191), and
\* so does the slice from the end of a list (plan.go 189-190).
THEOREM ListsImplementSets ==
  ASSUME NEW S \in SUBSET Nat, IsFiniteSet(S), NEW T \in SUBSET Nat, IsFiniteSet(T), NEW n \in Nat
  PROVE  /\ Intersect(Ints(S), Ints(T)) = Ints(S \cap T)
         /\ Difference(Ints(S), Ints(T)) = Ints(S \ T)
         /\ Union(Ints(S), Ints(T)) = Ints(S \cup T)
         /\ Taken(Ints(S), n) = Ints(FirstN(S, n))
         /\ Remaining(Ints(S), n) = Ints(S \ FirstN(S, n))
         /\ LET l == Ints(S) IN
            n <= Len(l) =>
              /\ SubSeq(l, Len(l) - n + 1, Len(l)) = Ints(LastN(S, n))
              /\ SubSeq(l, 1, Len(l) - n) = Ints(S \ LastN(S, n))
<1>1. ListOf(Ints(S), S) /\ ListOf(Ints(T), T)
  BY IntsIsList
<1>2. /\ ListOf(Intersect(Ints(S), Ints(T)), S \cap T)
      /\ ListOf(Difference(Ints(S), Ints(T)), S \ T)
      /\ ListOf(Union(Ints(S), Ints(T)), S \cup T)
  BY <1>1, SetOperations
<1>3. /\ ListOf(Taken(Ints(S), n), FirstN(S, n))
      /\ ListOf(Remaining(Ints(S), n), S \ FirstN(S, n))
  BY <1>1, TakeSplits
<1>4. ASSUME NEW l, l = Ints(S), n <= Len(l)
      PROVE  /\ SubSeq(l, Len(l) - n + 1, Len(l)) = Ints(LastN(S, n))
             /\ SubSeq(l, 1, Len(l) - n) = Ints(S \ LastN(S, n))
  <2>1. ListOf(l, S) /\ n \in 0..Len(l)
    BY <1>1, <1>4, Places
  <2>2. /\ ListOf(SubSeq(l, Len(l) - n + 1, Len(l)), LastN(S, n))
        /\ ListOf(SubSeq(l, 1, Len(l) - n), S \ LastN(S, n))
    BY <2>1, EndSplits
  <2>3. QED
    BY <2>2, ListIsInts
<1>5. QED
  BY <1>2, <1>3, <1>4, ListIsInts
=============================================================================
