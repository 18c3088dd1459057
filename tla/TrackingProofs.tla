----------------------------- MODULE TrackingProofs -----------------------------
(* Proofs about the two documents of Provisioning: the months of a pool and the *)
(* logins of a user, for any limits and any number of goroutines.               *)
EXTENDS ProvisioningProofs

-----------------------------------------------------------------------------
(* The newest periods of a set *)

Above(S, p) == {q \in S : q > p}

LEMMA NewestIs == \A S : Newest(S) = {p \in S : Cardinality(Above(S, p)) < PeriodsKept}
BY DEF Newest, Above

LEMMA AboveFinite ==
  ASSUME NEW S, S \subseteq Nat, IsFiniteSet(S), NEW p \in S
  PROVE  /\ IsFiniteSet(Above(S, p)) /\ Cardinality(Above(S, p)) \in Nat
         /\ Cardinality(S) \in Nat /\ Cardinality(Above(S, p)) < Cardinality(S)
<1>0. p \in Nat
  OBVIOUS
<1>1. Above(S, p) \subseteq S
  BY DEF Above
<1>2. ~(p > p)
  BY <1>0
<1>3. Above(S, p) # S
  BY <1>2 DEF Above
<1>4. IsFiniteSet(Above(S, p)) /\ Cardinality(Above(S, p)) \leq Cardinality(S)
      /\ (Cardinality(S) = Cardinality(Above(S, p)) => S = Above(S, p))
  <2>1. Above(S, p) \in SUBSET S
    BY <1>1
  <2> QED
    BY <2>1, FS_Subset
<1>5. Cardinality(Above(S, p)) \in Nat /\ Cardinality(S) \in Nat
  BY <1>4, FS_CardinalityType
<1>6. Cardinality(S) # Cardinality(Above(S, p))
  BY <1>3, <1>4
<1> QED
  BY <1>4, <1>5, <1>6

LEMMA AboveShrinks ==
  ASSUME NEW S, S \subseteq Nat, IsFiniteSet(S), NEW p \in S, NEW q \in S, p < q
  PROVE  Cardinality(Above(S, q)) < Cardinality(Above(S, p))
<1>1. p \in Nat /\ q \in Nat /\ \A x \in S : x \in Nat
  OBVIOUS
<1>2. \A x \in S : x > q => x > p
  BY <1>1
<1>3. Above(S, q) \subseteq Above(S, p)
  BY <1>2 DEF Above
<1>4. q \in Above(S, p)
  BY <1>1 DEF Above
<1>5. q \notin Above(S, q)
  BY <1>1 DEF Above
<1>6. /\ IsFiniteSet(Above(S, p)) /\ Cardinality(Above(S, p)) \in Nat
      /\ IsFiniteSet(Above(S, q)) /\ Cardinality(Above(S, q)) \in Nat
  BY AboveFinite
<1>7. /\ Cardinality(Above(S, q)) \leq Cardinality(Above(S, p))
      /\ Cardinality(Above(S, p)) = Cardinality(Above(S, q)) => Above(S, p) = Above(S, q)
  <2>1. Above(S, q) \in SUBSET Above(S, p)
    BY <1>3
  <2> QED
    BY <1>6, <2>1, FS_Subset
<1>8. Cardinality(Above(S, p)) # Cardinality(Above(S, q))
  BY <1>4, <1>5, <1>7
<1> QED
  BY <1>6, <1>7, <1>8

\* No two elements have as many above them.
LEMMA AboveTellsApart ==
  ASSUME NEW S, S \subseteq Nat, IsFiniteSet(S), NEW p \in S, NEW q \in S,
         Cardinality(Above(S, p)) = Cardinality(Above(S, q))
  PROVE  p = q
<1>1. p \in Nat /\ q \in Nat
  OBVIOUS
<1>2. Cardinality(Above(S, p)) \in Nat
  BY AboveFinite
<1>3. ~(p < q)
  <2> SUFFICES ASSUME p < q PROVE FALSE
    OBVIOUS
  <2>1. Cardinality(Above(S, q)) < Cardinality(Above(S, p))
    BY AboveShrinks
  <2> QED
    BY <1>2, <2>1
<1>4. ~(q < p)
  <2> SUFFICES ASSUME q < p PROVE FALSE
    OBVIOUS
  <2>1. Cardinality(Above(S, p)) < Cardinality(Above(S, q))
    BY AboveShrinks
  <2> QED
    BY <1>2, <2>1
<1> QED
  BY <1>1, <1>3, <1>4

LEMMA KeptInterval ==
  /\ IsFiniteSet(0..(PeriodsKept - 1)) /\ Cardinality(0..(PeriodsKept - 1)) = PeriodsKept
  /\ PeriodsKept \in Nat \ {0}
BY FS_Interval, LimitAssumption

\* The rank of a period among those of a set, as a function on a part of it.
Ranks(S, T) == [p \in T |-> Cardinality(Above(S, p))]

LEMMA RanksInjective ==
  ASSUME NEW S, S \subseteq Nat, IsFiniteSet(S), NEW T, T \subseteq S, NEW n \in Nat,
         \A p \in T : Cardinality(Above(S, p)) < n
  PROVE  /\ Ranks(S, T) \in Injection(T, 0..(n - 1))
         /\ \A p \in T : Ranks(S, T)[p] = Cardinality(Above(S, p))
<1>1. \A p \in T : Ranks(S, T)[p] = Cardinality(Above(S, p))
  BY DEF Ranks
<1>2. ASSUME NEW p \in T
      PROVE  Cardinality(Above(S, p)) \in 0..(n - 1)
  <2>1. Cardinality(Above(S, p)) \in Nat /\ Cardinality(Above(S, p)) < n
    <3>1. p \in S
      OBVIOUS
    <3> QED
      BY <3>1, AboveFinite
  <2> QED
    BY <2>1
<1>3. Ranks(S, T) \in [T -> 0..(n - 1)]
  BY <1>2 DEF Ranks
<1>4. ASSUME NEW p \in T, NEW q \in T, Ranks(S, T)[p] = Ranks(S, T)[q]
      PROVE  p = q
  <2>1. p \in S /\ q \in S /\ Cardinality(Above(S, p)) = Cardinality(Above(S, q))
    BY <1>1, <1>4
  <2> QED
    BY <2>1, AboveTellsApart
<1> QED
  BY <1>1, <1>3, <1>4 DEF Injection, IsInjective

LEMMA NewestRanked ==
  ASSUME NEW S
  PROVE  /\ Newest(S) \subseteq S
         /\ \A p \in Newest(S) : Cardinality(Above(S, p)) < PeriodsKept
         /\ \A p \in S \ Newest(S) : ~(Cardinality(Above(S, p)) < PeriodsKept)
BY NewestIs

LEMMA NewestFits ==
  ASSUME NEW S, S \subseteq Nat, IsFiniteSet(S)
  PROVE  IsFiniteSet(Newest(S)) /\ Cardinality(Newest(S)) \leq PeriodsKept
<1>1. Ranks(S, Newest(S)) \in Injection(Newest(S), 0..(PeriodsKept - 1))
  BY NewestRanked, RanksInjective, LimitAssumption
<1>2. IsFiniteSet(Newest(S)) /\ Cardinality(Newest(S)) \leq Cardinality(0..(PeriodsKept - 1))
  BY <1>1, KeptInterval, FS_Injection
<1> QED
  BY <1>2, KeptInterval

\* Where anything is left out, as many are kept as fit.
LEMMA NewestIsFull ==
  ASSUME NEW S, S \subseteq Nat, IsFiniteSet(S), NEW q \in S \ Newest(S)
  PROVE  Cardinality(Newest(S)) = PeriodsKept
<1> DEFINE n == Cardinality(S)
           Rank(p) == Cardinality(Above(S, p))
<1>1. n \in Nat /\ \A p \in S : Rank(p) \in Nat /\ Rank(p) < n
  <2>1. n \in Nat
    BY FS_CardinalityType
  <2>2. ASSUME NEW p \in S
        PROVE  Rank(p) \in Nat /\ Rank(p) < n
    BY AboveFinite
  <2> QED
    BY <2>1, <2>2
<1>2. Ranks(S, S) \in Injection(S, 0..(n - 1)) /\ \A p \in S : Ranks(S, S)[p] = Rank(p)
  BY <1>1, RanksInjective
<1>3. PeriodsKept \in Nat /\ PeriodsKept \leq Rank(q) /\ Rank(q) < n /\ Rank(q) \in Nat
  BY <1>1, NewestRanked, LimitAssumption
<1>4. IsFiniteSet(0..(n - 1)) /\ Cardinality(0..(n - 1)) = n
  <2>1. n # 0 /\ 0 \in Int /\ n - 1 \in Int
    BY <1>1, <1>3
  <2> HIDE DEF n
  <2>2. Cardinality(0..(n - 1)) = IF 0 > n - 1 THEN 0 ELSE n - 1 - 0 + 1
    BY <2>1, FS_Interval
  <2> QED
    BY <1>1, <2>1, <2>2, FS_Interval
<1>5. Ranks(S, S) \in Surjection(S, 0..(n - 1))
  BY <1>2, <1>4, FS_Injection
<1>6. \A i \in 0..(n - 1) : \E p \in S : Rank(p) = i
  BY <1>2, <1>5 DEF Surjection
<1>7. Ranks(S, Newest(S)) \in Injection(Newest(S), 0..(PeriodsKept - 1))
      /\ \A p \in Newest(S) : Ranks(S, Newest(S))[p] = Rank(p)
  BY NewestRanked, RanksInjective, LimitAssumption
<1>8. ASSUME NEW i \in 0..(PeriodsKept - 1)
      PROVE  \E p \in Newest(S) : Ranks(S, Newest(S))[p] = i
  <2>1. i \in 0..(n - 1) /\ i < PeriodsKept
    <3> HIDE DEF n, Rank
    <3> QED
      BY <1>1, <1>3
  <2>2. PICK p \in S : Rank(p) = i
    BY <1>6, <2>1
  <2>3. p \in Newest(S)
    BY <2>1, <2>2, NewestIs
  <2> QED
    BY <1>7, <2>2, <2>3
<1>9. Ranks(S, Newest(S)) \in Surjection(Newest(S), 0..(PeriodsKept - 1))
  <2>1. Ranks(S, Newest(S)) \in [Newest(S) -> 0..(PeriodsKept - 1)]
    BY <1>7 DEF Injection
  <2> QED
    BY <1>8, <2>1 DEF Surjection
<1> QED
  BY <1>7, <1>9, KeptInterval, FS_Injection

LEMMA NewestAreNewer ==
  ASSUME NEW S, S \subseteq Nat, IsFiniteSet(S), NEW q \in S \ Newest(S), NEW p \in Newest(S)
  PROVE  q < p
<1>1. p \in S /\ Cardinality(Above(S, p)) < PeriodsKept /\ ~(Cardinality(Above(S, q)) < PeriodsKept)
  BY NewestRanked
<1>2. Cardinality(Above(S, p)) \in Nat /\ Cardinality(Above(S, q)) \in Nat
  BY <1>1, AboveFinite
<1>3. ~(p < q)
  <2> SUFFICES ASSUME p < q PROVE FALSE
    OBVIOUS
  <2>1. Cardinality(Above(S, q)) < Cardinality(Above(S, p))
    BY <1>1, AboveShrinks
  <2> QED
    BY <1>1, <1>2, <2>1, LimitAssumption
<1>4. p # q /\ p \in Nat /\ q \in Nat
  BY <1>1
<1> QED
  BY <1>3, <1>4

\* What was left out makes no difference to what is kept of one more.
LEMMA NewestForgets ==
  ASSUME NEW S, S \subseteq Nat, IsFiniteSet(S), NEW x \in Nat
  PROVE  Newest(Newest(S) \union {x}) = Newest(S \union {x})
<1> DEFINE N == Newest(S)
           A == N \union {x}
           B == S \union {x}
<1>1. N \subseteq S /\ IsFiniteSet(N) /\ A \subseteq B /\ A \subseteq Nat /\ B \subseteq Nat
  BY NewestIs, NewestFits
<1>2. IsFiniteSet(A) /\ IsFiniteSet(B)
  BY <1>1, FS_AddElement
<1> HIDE DEF N
<1>3. ASSUME NEW y \in A
      PROVE  Cardinality(Above(A, y)) \leq Cardinality(Above(B, y)) /\ y \in B
             /\ Cardinality(Above(A, y)) \in Nat /\ Cardinality(Above(B, y)) \in Nat
  <2>1. Above(A, y) \subseteq Above(B, y) /\ y \in B
    BY <1>1 DEF Above
  <2> HIDE DEF A, B
  <2> QED
    BY <1>1, <1>2, <2>1, AboveFinite, FS_Subset
<1>4. ASSUME NEW y \in Newest(B)
      PROVE  y \in Newest(A)
  <2>1. y \in B /\ Cardinality(Above(B, y)) < PeriodsKept
    BY NewestIs
  <2>2. y \in A
    <3>1. CASE y = x
      BY <3>1
    <3>2. CASE y \in S
      <4>1. Above(S, y) \subseteq Above(B, y)
        BY DEF Above
      <4>2. IsFiniteSet(Above(B, y)) /\ Cardinality(Above(B, y)) \in Nat
        BY <1>1, <1>2, <2>1, AboveFinite
      <4>3. Cardinality(Above(S, y)) \leq Cardinality(Above(B, y)) /\ Cardinality(Above(S, y)) \in Nat
        BY <3>2, <4>1, <4>2, FS_Subset, AboveFinite
      <4>4. Cardinality(Above(S, y)) < PeriodsKept
        BY <2>1, <4>2, <4>3, LimitAssumption
      <4> QED
        BY <3>2, <4>4, NewestIs DEF N
    <3> QED
      BY <2>1, <3>1, <3>2
  <2>3. Cardinality(Above(A, y)) < PeriodsKept
    BY <1>3, <2>1, <2>2, LimitAssumption
  <2> QED
    BY <2>2, <2>3, NewestIs
<1>5. ASSUME NEW y \in Newest(A)
      PROVE  y \in Newest(B)
  <2>1. y \in A /\ y \in B /\ Cardinality(Above(A, y)) < PeriodsKept
    BY <1>1, NewestIs
  <2>2. CASE Above(A, y) = Above(B, y)
    BY <2>1, <2>2, NewestIs
  <2>3. CASE Above(A, y) # Above(B, y)
    <3>1. PICK q \in B : q > y /\ q \notin A
      BY <1>1, <2>3 DEF Above
    <3>2. q \in S \ Newest(S)
      BY <3>1 DEF N
    <3>3. Cardinality(N) = PeriodsKept
      BY <3>2, NewestIsFull DEF N
    <3>4. \A p \in N : q < p
      BY <3>2, NewestAreNewer DEF N
    <3>5. N \subseteq Above(A, y)
      <4>1. y \in Nat /\ q \in Nat /\ N \subseteq Nat
        BY <1>1, <2>1, <3>1
      <4> QED
        BY <3>1, <3>4, <4>1 DEF Above
    <3>6. IsFiniteSet(Above(A, y)) /\ Cardinality(Above(A, y)) \in Nat
      BY <1>1, <1>2, <2>1, AboveFinite
    <3>7. PeriodsKept \leq Cardinality(Above(A, y))
      BY <3>3, <3>5, <3>6, FS_Subset
    <3> QED
      BY <2>1, <3>6, <3>7, LimitAssumption
  <2> QED
    BY <2>2, <2>3
<1>6. Newest(A) = Newest(B)
  BY <1>4, <1>5
<1> QED
  BY <1>6 DEF N

-----------------------------------------------------------------------------
(* The months of a pool *)

Tracked == {p \in Periods : counted[p] > 0}

\* The document is the newest of all that was counted, and the one goroutine that holds
\* the row has read what is there.
Exact ==
  /\ DOMAIN tracking = Newest(Tracked)
  /\ \A p \in DOMAIN tracking : tracking[p] = counted[p]
  /\ \A r \in Requests : tracks[r].pc = "locked" =>
       tracks[r].document = RecordSignup(tracking, tracks[r].at)
  /\ \A q, r \in Requests : tracks[q].pc = "locked" /\ tracks[r].pc = "locked" => q = r

LEMMA TrackedFinite == Tracked \subseteq Nat /\ IsFiniteSet(Tracked) /\ Periods \subseteq Nat
<1>1. Periods \subseteq Nat /\ IsFiniteSet(Periods)
  BY BoundsAssumption, FS_Interval DEF Periods
<1>2. Tracked \in SUBSET Periods
  BY DEF Tracked
<1> QED
  BY <1>1, <1>2, FS_Subset

LEMMA ExactInit == Init => Exact
<1> SUFFICES ASSUME Init PROVE Exact
  OBVIOUS
<1>1. Tracked = {}
  BY DEF Init, Tracked
<1>2. Newest(Tracked) = {} /\ DOMAIN tracking = {}
  BY <1>1 DEF Newest, Init
<1>3. \A r \in Requests : tracks[r].pc # "locked"
  BY DEF Init
<1> QED
  BY <1>2, <1>3 DEF Exact

\* A goroutine that does not come to hold the row.
LEMMA ExactGoes ==
  ASSUME Shapes, Exact, NEW r \in Requests, NEW t, t.pc # "locked",
         tracks' = [tracks EXCEPT ![r] = t], tracking' = tracking, counted' = counted
  PROVE  Exact'
<1>1. tracks'[r] = t /\ \A q \in Requests : q # r => tracks'[q] = tracks[q]
  BY DEF Shapes, PoolShapes
<1>2. Tracked' = Tracked
  BY DEF Tracked
<1>3. \A q \in Requests : tracks'[q].pc = "locked" => q # r /\ tracks'[q] = tracks[q]
  BY <1>1
<1>4. \A q \in Requests : tracks'[q].pc = "locked" => tracks'[q].document = RecordSignup(tracking', tracks'[q].at)
  <2>1. \A d, p : RecordSignup(d, p)' = RecordSignup(d', p')
    BY DEF RecordSignup, Newest
  <2> QED
    BY <1>3 DEF Exact
<1>5. DOMAIN tracking' = Newest(Tracked)' /\ \A p \in DOMAIN tracking' : tracking'[p] = counted'[p]
  BY <1>2 DEF Exact, Newest
<1>6. \A q, p \in Requests : tracks'[q].pc = "locked" /\ tracks'[p].pc = "locked" => q = p
  BY <1>3 DEF Exact
<1> QED
  BY <1>4, <1>5, <1>6 DEF Exact

LEMMA ExactLock ==
  ASSUME Shapes, Exact, NEW r \in Requests, LockPool(r)
  PROVE  Exact'
<1> DEFINE t == [pc |-> "locked", at |-> tracks[r].at, document |-> RecordSignup(tracking, tracks[r].at)]
<1>1. t.pc = "locked" /\ t.at = tracks[r].at /\ t.document = RecordSignup(tracking, tracks[r].at)
  OBVIOUS
<1> HIDE DEF t
<1>2. tracks' = [tracks EXCEPT ![r] = t] /\ tracks[r].pc = "called" /\ Free(<<"track", r>>)
      /\ tracking' = tracking /\ counted' = counted
  BY DEF LockPool, t
<1>3. tracks'[r] = t /\ \A q \in Requests : q # r => tracks'[q] = tracks[q]
  BY <1>2 DEF Shapes, PoolShapes
<1>4. ASSUME NEW q \in Requests, tracks[q].pc = "locked"
      PROVE  FALSE
  <2>1. "UPDATE" \in Holds(<<"track", q>>) /\ "UPDATE" \in Wants(<<"track", r>>) /\ q # r
    BY <1>2, <1>4, TrackLocks
  <2>2. Conflicts("UPDATE", "UPDATE")
    BY DEF Conflicts
  <2>3. Blocks(<<"track", q>>, <<"track", r>>)
    BY <2>1, <2>2 DEF Blocks
  <2> QED
    BY <1>2, <2>3 DEF Free, Transactions
<1>5. Tracked' = Tracked
  BY <1>2 DEF Tracked
<1>6. \A q \in Requests : tracks'[q].pc = "locked" => q = r
  BY <1>3, <1>4
<1>7. \A q \in Requests : tracks'[q].pc = "locked" => tracks'[q].document = RecordSignup(tracking', tracks'[q].at)
  BY <1>1, <1>2, <1>3, <1>6
<1>8. DOMAIN tracking' = Newest(Tracked)' /\ \A p \in DOMAIN tracking' : tracking'[p] = counted'[p]
  BY <1>2, <1>5 DEF Exact, Newest
<1> QED
  BY <1>6, <1>7, <1>8 DEF Exact

\* The document that is written is the newest of one more, each with its count.
LEMMA RecordIsExact ==
  ASSUME Shapes, Exact, NEW p \in Periods,
         counted' = [counted EXCEPT ![p] = @ + 1], tracking' = RecordSignup(tracking, p)
  PROVE  DOMAIN tracking' = Newest(Tracked') /\ \A q \in DOMAIN tracking' : tracking'[q] = counted'[q]
<1>1. counted \in [Periods -> Nat] /\ DOMAIN tracking = Newest(Tracked)
  BY DEF Shapes, PoolShapes, Exact
<1>2. Tracked' = Tracked \union {p}
  BY <1>1 DEF Tracked
<1>3. Newest(Newest(Tracked) \union {p}) = Newest(Tracked \union {p})
  BY TrackedFinite, NewestForgets
<1>4. DOMAIN tracking' = Newest(Newest(Tracked) \union {p})
  BY <1>1 DEF RecordSignup
<1>5. ASSUME NEW q \in DOMAIN tracking'
      PROVE  tracking'[q] = counted'[q]
  <2>1. q \in Newest(Tracked) \union {p} /\ q \in Periods
    BY <1>4, NewestRanked, <1>1 DEF Tracked
  <2>2. tracking'[q] = (IF q \in DOMAIN tracking THEN tracking[q] ELSE 0) + (IF q = p THEN 1 ELSE 0)
    BY <1>1, <1>4, <1>5 DEF RecordSignup
  <2>3. CASE q \in DOMAIN tracking
    <3>1. tracking[q] = counted[q] /\ counted[q] \in Nat
      BY <1>1, <2>1, <2>3 DEF Exact
    <3> QED
      BY <1>1, <2>1, <2>2, <2>3, <3>1
  <2>4. CASE q \notin DOMAIN tracking
    <3>1. q = p
      BY <1>1, <2>1, <2>4
    <3>2. p \notin Tracked
      <4> SUFFICES ASSUME p \in Tracked PROVE FALSE
        OBVIOUS
      <4>1. Tracked \union {p} = Tracked
        OBVIOUS
      <4> QED
        BY <1>1, <1>3, <1>4, <1>5, <2>4, <3>1, <4>1
    <3>3. counted[p] = 0
      BY <1>1, <3>2 DEF Tracked
    <3> QED
      BY <1>1, <2>2, <2>4, <3>1, <3>3
  <2> QED
    BY <2>3, <2>4
<1> QED
  BY <1>2, <1>3, <1>4, <1>5

LEMMA ExactWrite ==
  ASSUME Shapes, Exact, NEW r \in Requests, WritePool(r)
  PROVE  Exact'
<1>1. /\ tracks[r].pc = "locked" /\ tracks[r].at \in Periods
      /\ tracks' = [tracks EXCEPT ![r] = [pc |-> "ended"]]
      /\ tracking' = RecordSignup(tracking, tracks[r].at)
      /\ counted' = [counted EXCEPT ![tracks[r].at] = @ + 1]
  BY DEF WritePool, Exact, Shapes, PoolShapes, IsTrack
<1>2. DOMAIN tracking' = Newest(Tracked') /\ \A q \in DOMAIN tracking' : tracking'[q] = counted'[q]
  BY <1>1, RecordIsExact
<1>3. \A q \in Requests : tracks'[q].pc # "locked"
  BY <1>1 DEF Exact, Shapes, PoolShapes
<1>4. Newest(Tracked)' = Newest(Tracked')
  BY DEF Newest
<1> QED
  BY <1>2, <1>3, <1>4 DEF Exact

LEMMA ExactStep == Shapes /\ Exact /\ [Next]_vars => Exact'
<1> SUFFICES ASSUME Shapes, Exact, [Next]_vars PROVE Exact'
  OBVIOUS
<1>1. ASSUME tracks' = tracks, tracking' = tracking, counted' = counted
      PROVE  Exact'
  <2>1. DOMAIN tracking' = Newest(Tracked)'
    <3>1. Tracked' = Tracked
      BY <1>1 DEF Tracked
    <3> QED
      BY <1>1, <3>1 DEF Exact, Newest
  <2>2. \A p \in DOMAIN tracking' : tracking'[p] = counted'[p]
    BY <1>1 DEF Exact
  <2>3. \A r \in Requests : tracks'[r].pc = "locked" =>
          tracks'[r].document = RecordSignup(tracking', tracks'[r].at)
    BY <1>1 DEF Exact
  <2>4. \A q, r \in Requests : tracks'[q].pc = "locked" /\ tracks'[r].pc = "locked" => q = r
    BY <1>1 DEF Exact
  <2> QED
    BY <2>1, <2>2, <2>3, <2>4 DEF Exact
<1>2. ASSUME NEW r \in Requests, Commit(r) \/ TrackFails(r) \/ CallTrack(r)
      PROVE  Exact'
  <2>1. PICK t : t.pc # "locked" /\ tracks' = [tracks EXCEPT ![r] = t]
    <3>1. /\ [pc |-> "detached"].pc # "locked" /\ [pc |-> "ended"].pc # "locked"
          /\ [pc |-> "called", at |-> period].pc # "locked"
      OBVIOUS
    <3> QED
      BY <1>2, <3>1 DEF Commit, TrackFails, CallTrack
  <2>2. tracking' = tracking /\ counted' = counted
    BY <1>2 DEF Commit, TrackFails, CallTrack
  <2> QED
    BY <2>1, <2>2, ExactGoes
<1>3. ASSUME NEW r \in Requests,
             \/ Register(r) \/ Statement(r) \/ FindTaken(r) \/ MintSession(r)
             \/ Rollback(r) \/ FailToMint(r) \/ Login(r)
      PROVE  Exact'
  BY <1>1, <1>3 DEF Register, Statement, FindTaken, MintSession, Rollback, FailToMint, Login
<1>4. ASSUME NEW i \in 1..Len(logins), LoginStep(i) \/ LoginTrackFails(i)
      PROVE  Exact'
  BY <1>1, <1>4 DEF LoginStep, LockUser, WriteUser, LoginTrackFails
<1>5. ASSUME Tick \/ UNCHANGED vars
      PROVE  Exact'
  BY <1>1, <1>5 DEF Tick, vars
<1> QED
  BY <1>2, <1>3, <1>4, <1>5, ExactLock, ExactWrite DEF Next, SignupStep, TrackStep

LEMMA ExactDocument ==
  ASSUME Shapes, Exact
  PROVE  PeriodsAreExact /\ Cardinality(DOMAIN tracking) \leq PeriodsKept
<1>1. Tracked \subseteq Nat /\ IsFiniteSet(Tracked)
  BY TrackedFinite
<1>2. DOMAIN tracking = Newest(Tracked) /\ Newest(Tracked) \subseteq Tracked
  BY NewestRanked DEF Exact
<1>3. ASSUME NEW q \in Tracked \ Newest(Tracked)
      PROVE  Cardinality(Newest(Tracked)) = PeriodsKept /\ \A p \in Newest(Tracked) : q < p
  BY <1>1, NewestIsFull, NewestAreNewer
<1>4. \A p \in DOMAIN tracking : tracking[p] = counted[p]
  BY DEF Exact
<1>5. Cardinality(Newest(Tracked)) \leq PeriodsKept
  BY <1>1, NewestFits
<1>6. Tracked = {p \in Periods : counted[p] > 0}
  BY DEF Tracked
<1> QED
  BY <1>2, <1>3, <1>4, <1>5, <1>6 DEF PeriodsAreExact

-----------------------------------------------------------------------------
(* The logins of a user *)

LEMMA FirstOfForgets ==
  ASSUME NEW events \in Seq(Nat), NEW i \in Nat
  PROVE  RecordLogin(FirstOf(events), i) = RecordLogin(events, i)
<1> DEFINE short == <<i>> \o FirstOf(events)
           long == <<i>> \o events
<1>1. FirstOf(events) \in Seq(Nat)
      /\ Len(FirstOf(events)) = (IF Len(events) < LoginsKept THEN Len(events) ELSE LoginsKept)
      /\ \A j \in 1..Len(FirstOf(events)) : FirstOf(events)[j] = events[j]
  BY FirstOfShape
<1>2. /\ short \in Seq(Nat) /\ Len(short) = Len(FirstOf(events)) + 1 /\ short[1] = i
      /\ \A j \in 1..Len(FirstOf(events)) : short[j + 1] = FirstOf(events)[j]
  BY <1>1, PushShape
<1>3. /\ long \in Seq(Nat) /\ Len(long) = Len(events) + 1 /\ long[1] = i
      /\ \A j \in 1..Len(events) : long[j + 1] = events[j]
  BY PushShape
<1> HIDE DEF short, long
<1>4. Len(events) \in Nat /\ LoginsKept \in Nat \ {0}
  BY LimitAssumption
<1>5. /\ FirstOf(short) \in Seq(Nat)
      /\ Len(FirstOf(short)) = (IF Len(short) < LoginsKept THEN Len(short) ELSE LoginsKept)
      /\ \A j \in 1..Len(FirstOf(short)) : FirstOf(short)[j] = short[j]
  BY <1>2, FirstOfShape
<1>6. /\ FirstOf(long) \in Seq(Nat)
      /\ Len(FirstOf(long)) = (IF Len(long) < LoginsKept THEN Len(long) ELSE LoginsKept)
      /\ \A j \in 1..Len(FirstOf(long)) : FirstOf(long)[j] = long[j]
  BY <1>3, FirstOfShape
<1>7. Len(FirstOf(short)) = Len(FirstOf(long))
  BY <1>1, <1>2, <1>3, <1>4, <1>5, <1>6
<1>8. ASSUME NEW j \in 1..Len(FirstOf(short))
      PROVE  FirstOf(short)[j] = FirstOf(long)[j]
  <2>1. FirstOf(short)[j] = short[j] /\ FirstOf(long)[j] = long[j]
    BY <1>5, <1>6, <1>7
  <2>2. CASE j = 1
    BY <1>2, <1>3, <2>1, <2>2
  <2>3. CASE j # 1
    <3>1. j \in Nat /\ j \leq Len(FirstOf(short))
      BY <1>5
    <3>2. j - 1 \in 1..Len(FirstOf(events)) /\ j - 1 \in 1..Len(events) /\ (j - 1) + 1 = j
      BY <1>1, <1>2, <1>4, <1>5, <2>3, <3>1
    <3>3. short[j] = FirstOf(events)[j - 1] /\ long[j] = events[j - 1]
      BY <1>2, <1>3, <3>2
    <3> QED
      BY <1>1, <2>1, <3>2, <3>3
  <2> QED
    BY <2>2, <2>3
<1>9. FirstOf(short) = FirstOf(long)
  <2> HIDE DEF FirstOf
  <2> QED
    BY <1>5, <1>6, <1>7, <1>8, SeqEqual
<1> QED
  BY <1>9 DEF RecordLogin, short, long

\* Of the goroutines of a user one at most holds its row, with what is there read.
Queued ==
  /\ QueuesLoseNothing
  /\ \A i \in 1..Len(logins) : logins[i].pc = "locked" =>
       logins[i].queue = RecordLogin(queues[logins[i].user], i)
  /\ \A i, j \in 1..Len(logins) :
       logins[i].pc = "locked" /\ logins[j].pc = "locked" /\ logins[i].user = logins[j].user => i = j

LEMMA QueuedInit == Init => Queued
<1> SUFFICES ASSUME Init PROVE Queued
  OBVIOUS
<1>1. \A r \in Requests : queues[r] = << >> /\ recorded[r] = << >>
  BY DEF Init
<1>2. FirstOf(<< >>) = << >>
  <2>1. << >> \in Seq(Nat) /\ Len(<< >>) = 0
    OBVIOUS
  <2>2. ASSUME NEW e \in Seq(Nat), Len(e) = 0
        PROVE  FirstOf(e) \in Seq(Nat) /\ Len(FirstOf(e)) = 0
    <3>1. FirstOf(e) \in Seq(Nat) /\ Len(FirstOf(e)) = IF Len(e) < LoginsKept THEN Len(e) ELSE LoginsKept
      BY FirstOfShape
    <3> QED
      BY <2>2, <3>1, LimitAssumption
  <2> HIDE DEF FirstOf
  <2>3. FirstOf(<< >>) \in Seq(Nat) /\ Len(FirstOf(<< >>)) = 0
    BY <2>1, <2>2
  <2> QED
    BY <2>3
<1>3. Len(logins) = 0
  BY DEF Init
<1> QED
  BY <1>1, <1>2, <1>3 DEF Queued, QueuesLoseNothing

\* A goroutine that does not come to hold a row.
LEMMA QueuedGoes ==
  ASSUME UserShapes, Queued, NEW i \in 1..Len(logins), NEW l, l.pc # "locked",
         logins' = [logins EXCEPT ![i] = l], queues' = queues, recorded' = recorded
  PROVE  Queued'
<1>1. Len(logins') = Len(logins) /\ \A j \in 1..Len(logins) : logins'[j] = IF j = i THEN l ELSE logins[j]
  BY DEF UserShapes
<1>2. \A j \in 1..Len(logins') : logins'[j].pc = "locked" => j \in 1..Len(logins) /\ logins'[j] = logins[j]
  BY <1>1
<1>3. QueuesLoseNothing'
  BY DEF Queued, QueuesLoseNothing, FirstOf
<1>4. ASSUME NEW j \in 1..Len(logins'), logins'[j].pc = "locked"
      PROVE  logins'[j].queue = RecordLogin(queues[logins'[j].user], j)
  BY <1>2, <1>4 DEF Queued
<1>5. ASSUME NEW j \in 1..Len(logins'), NEW k \in 1..Len(logins'), logins'[j].pc = "locked",
             logins'[k].pc = "locked", logins'[j].user = logins'[k].user
      PROVE  j = k
  BY <1>2, <1>5 DEF Queued
<1>6. \A j \in 1..Len(logins') : logins'[j].pc = "locked" =>
        logins'[j].queue = RecordLogin(queues'[logins'[j].user], j)
  BY <1>4
<1> QED
  BY <1>3, <1>5, <1>6 DEF Queued

LEMMA QueuedAppends ==
  ASSUME UserShapes, Queued, NEW r \in Requests, logins' = Append(logins, Detached(r)),
         queues' = queues, recorded' = recorded
  PROVE  Queued'
<1>1. Detached(r).pc # "locked" /\ Detached(r) \in LoginStates /\ logins \in Seq(LoginStates)
  BY EndedState DEF Detached, UserShapes
<1>2. Len(logins') = Len(logins) + 1 /\ logins'[Len(logins) + 1] = Detached(r)
      /\ \A j \in 1..Len(logins) : logins'[j] = logins[j]
  BY <1>1
<1>3. \A j \in 1..Len(logins') : logins'[j].pc = "locked" => j \in 1..Len(logins) /\ logins'[j] = logins[j]
  <2> SUFFICES ASSUME NEW j \in 1..Len(logins'), logins'[j].pc = "locked"
               PROVE  j \in 1..Len(logins) /\ logins'[j] = logins[j]
    OBVIOUS
  <2>1. Len(logins) \in Nat
    BY <1>1
  <2>2. j # Len(logins) + 1
    BY <1>1, <1>2
  <2> QED
    BY <1>2, <2>1, <2>2
<1>4. QueuesLoseNothing'
  BY DEF Queued, QueuesLoseNothing, FirstOf
<1>5. \A j \in 1..Len(logins') : logins'[j].pc = "locked" =>
        logins'[j].queue = RecordLogin(queues'[logins'[j].user], j)
  BY <1>3 DEF Queued
<1>6. \A j, k \in 1..Len(logins') :
        logins'[j].pc = "locked" /\ logins'[k].pc = "locked" /\ logins'[j].user = logins'[k].user => j = k
  BY <1>3 DEF Queued
<1> QED
  BY <1>4, <1>5, <1>6 DEF Queued

LEMMA QueuedLock ==
  ASSUME UserShapes, Queued, NEW i \in 1..Len(logins), LockUser(i)
  PROVE  Queued'
<1> DEFINE u == logins[i].user
           l == [user |-> u, pc |-> "locked", queue |-> RecordLogin(queues[u], i)]
<1>1. l.user = u /\ l.pc = "locked" /\ l.queue = RecordLogin(queues[u], i)
  OBVIOUS
<1> HIDE DEF l
<1>2. /\ logins' = [logins EXCEPT ![i] = l] /\ queues' = queues /\ recorded' = recorded
      /\ \A j \in 1..Len(logins) : logins[j].user = u => logins[j].pc # "locked"
  BY DEF LockUser, UserIsFree, l
<1>3. Len(logins') = Len(logins) /\ \A j \in 1..Len(logins) : logins'[j] = IF j = i THEN l ELSE logins[j]
  BY <1>2 DEF UserShapes
<1>4. QueuesLoseNothing'
  BY <1>2 DEF Queued, QueuesLoseNothing, FirstOf
<1>5. ASSUME NEW j \in 1..Len(logins'), logins'[j].pc = "locked"
      PROVE  logins'[j].queue = RecordLogin(queues'[logins'[j].user], j)
  <2>1. CASE j = i
    BY <1>1, <1>2, <1>3, <2>1
  <2>2. CASE j # i
    BY <1>2, <1>3, <1>5, <2>2 DEF Queued
  <2> QED
    BY <2>1, <2>2
<1>6. ASSUME NEW j \in 1..Len(logins'), NEW k \in 1..Len(logins'), logins'[j].pc = "locked",
             logins'[k].pc = "locked", logins'[j].user = logins'[k].user
      PROVE  j = k
  <2>1. CASE j # i /\ k # i
    BY <1>3, <1>6, <2>1 DEF Queued
  <2>2. CASE j = i /\ k # i
    BY <1>1, <1>2, <1>3, <1>6, <2>2
  <2>3. CASE j # i /\ k = i
    BY <1>1, <1>2, <1>3, <1>6, <2>3
  <2> QED
    BY <2>1, <2>2, <2>3
<1> QED
  BY <1>4, <1>5, <1>6 DEF Queued

LEMMA QueuedWrite ==
  ASSUME UserShapes, Queued, NEW i \in 1..Len(logins), WriteUser(i)
  PROVE  Queued'
<1> DEFINE u == logins[i].user
           l == [Detached(u) EXCEPT !.pc = "ended"]
<1>1. u \in Requests /\ i \in Nat
  BY LoginShape
<1>2. l.pc # "locked"
  BY <1>1, EndedState
<1> HIDE DEF l
<1>3. /\ logins[i].pc = "locked" /\ logins' = [logins EXCEPT ![i] = l]
      /\ queues' = [queues EXCEPT ![u] = logins[i].queue]
      /\ recorded' = [recorded EXCEPT ![u] = <<i>> \o @]
  BY DEF WriteUser, l
<1>4. Len(logins') = Len(logins) /\ \A j \in 1..Len(logins) : logins'[j] = IF j = i THEN l ELSE logins[j]
  BY <1>3 DEF UserShapes
<1>5. \A j \in 1..Len(logins') : logins'[j].pc = "locked" =>
        j \in 1..Len(logins) /\ logins'[j] = logins[j] /\ logins[j].user # u
  BY <1>2, <1>3, <1>4 DEF Queued
<1>6. ASSUME NEW r \in Requests
      PROVE  queues'[r] = FirstOf(recorded'[r])
  <2>1. queues \in [Requests -> Seq(Nat)] /\ recorded \in [Requests -> Seq(Nat)]
    BY DEF UserShapes
  <2>2. CASE r = u
    <3>1. queues'[u] = RecordLogin(queues[u], i) /\ recorded'[u] = <<i>> \o recorded[u]
      BY <1>1, <1>3, <2>1 DEF Queued
    <3>2. queues[u] = FirstOf(recorded[u]) /\ recorded[u] \in Seq(Nat)
      BY <1>1, <2>1 DEF Queued, QueuesLoseNothing
    <3>3. RecordLogin(queues[u], i) = RecordLogin(recorded[u], i)
      BY <1>1, <3>2, FirstOfForgets
    <3> QED
      BY <2>2, <3>1, <3>3 DEF RecordLogin
  <2>3. CASE r # u
    BY <1>3, <2>1, <2>3 DEF Queued, QueuesLoseNothing
  <2> QED
    BY <2>2, <2>3
<1>7. QueuesLoseNothing'
  BY <1>6 DEF QueuesLoseNothing, FirstOf
<1>8. ASSUME NEW j \in 1..Len(logins'), logins'[j].pc = "locked"
      PROVE  logins'[j].queue = RecordLogin(queues'[logins'[j].user], j)
  <2>1. j \in 1..Len(logins) /\ logins'[j] = logins[j] /\ logins[j].user # u
    BY <1>5, <1>8
  <2>2. queues'[logins[j].user] = queues[logins[j].user]
    BY <1>3, <2>1, LoginShape DEF UserShapes
  <2> QED
    BY <1>8, <2>1, <2>2 DEF Queued
<1>9. \A j, k \in 1..Len(logins') :
        logins'[j].pc = "locked" /\ logins'[k].pc = "locked" /\ logins'[j].user = logins'[k].user => j = k
  BY <1>5 DEF Queued
<1> QED
  BY <1>7, <1>8, <1>9 DEF Queued

LEMMA QueuedStep == Shapes /\ Queued /\ [Next]_vars => Queued'
<1> SUFFICES ASSUME Shapes, Queued, [Next]_vars PROVE Queued'
  OBVIOUS
<1>0. UserShapes
  BY DEF Shapes
<1>1. ASSUME queues' = queues, recorded' = recorded, logins' = logins
      PROVE  Queued'
  <2>1. QueuesLoseNothing'
    BY <1>1 DEF Queued, QueuesLoseNothing, FirstOf
  <2>2. \A i \in 1..Len(logins') : logins'[i].pc = "locked" =>
          logins'[i].queue = RecordLogin(queues'[logins'[i].user], i)
    BY <1>1 DEF Queued
  <2>3. \A i, j \in 1..Len(logins') :
          logins'[i].pc = "locked" /\ logins'[j].pc = "locked" /\ logins'[i].user = logins'[j].user => i = j
    BY <1>1 DEF Queued
  <2> QED
    BY <2>1, <2>2, <2>3 DEF Queued
<1>2. ASSUME NEW r \in Requests, MintSession(r) \/ Login(r)
      PROVE  Queued'
  BY <1>0, <1>2, QueuedAppends DEF MintSession, Login
<1>3. ASSUME NEW i \in 1..Len(logins), LoginTrackFails(i)
      PROVE  Queued'
  <2> DEFINE l == [Detached(logins[i].user) EXCEPT !.pc = "ended"]
  <2>1. l.pc # "locked"
    BY <1>0, LoginShape, EndedState
  <2> HIDE DEF l
  <2>2. logins' = [logins EXCEPT ![i] = l] /\ queues' = queues /\ recorded' = recorded
    BY <1>3 DEF LoginTrackFails, l
  <2> QED
    BY <1>0, <2>1, <2>2, QueuedGoes
<1>4. ASSUME NEW i \in 1..Len(logins), LoginStep(i)
      PROVE  Queued'
  BY <1>0, <1>4, QueuedLock, QueuedWrite DEF LoginStep
<1>5. ASSUME NEW r \in Requests,
             \/ Register(r) \/ Statement(r) \/ FindTaken(r) \/ Commit(r)
             \/ Rollback(r) \/ FailToMint(r) \/ TrackStep(r) \/ TrackFails(r)
      PROVE  Queued'
  BY <1>1, <1>5 DEF Register, Statement, FindTaken, Commit, Rollback, FailToMint, TrackStep, CallTrack,
                    LockPool, WritePool, TrackFails
<1>6. ASSUME Tick \/ UNCHANGED vars
      PROVE  Queued'
  BY <1>1, <1>6 DEF Tick, vars
<1> QED
  BY <1>2, <1>3, <1>4, <1>5, <1>6 DEF Next, SignupStep

LEMMA QueuesFit ==
  ASSUME UserShapes, Queued, NEW r \in Requests
  PROVE  Len(queues[r]) \leq LoginsKept
<1>1. recorded[r] \in Seq(Nat) /\ queues[r] = FirstOf(recorded[r])
  BY DEF UserShapes, Queued, QueuesLoseNothing
<1>2. Len(recorded[r]) \in Nat /\ LoginsKept \in Nat
  BY <1>1, LimitAssumption
<1> QED
  BY <1>1, <1>2, FirstOfShape

-----------------------------------------------------------------------------
(* The theorems *)

Documents == Accounts /\ Exact /\ Queued

LEMMA DocumentsKept == Spec => []Documents
<1>1. Init => Documents
  BY ShapesInit, BornInit, CountingInit, ExactInit, QueuedInit DEF Documents, Accounts
<1>2. Documents /\ [Next]_vars => Documents'
  BY AccountsStep, ExactStep, QueuedStep DEF Documents, Accounts
<1> QED
  BY <1>1, <1>2, PTL DEF Spec

\* Every variable has its shape and neither document outgrows its limit (Document.Record,
\* Queue.Push), for any limits.
THEOREM TypeCorrect == Spec => []TypeOK
<1>1. Documents => TypeOK
  <2> SUFFICES ASSUME Documents PROVE TypeOK
    OBVIOUS
  <2>1. SignupShapes /\ PoolShapes /\ UserShapes /\ Exact /\ Queued /\ Shapes
    BY DEF Documents, Accounts, Shapes
  <2>2. Cardinality(DOMAIN tracking) \leq PeriodsKept /\ \A r \in Requests : Len(queues[r]) \leq LoginsKept
    BY <2>1, ExactDocument, QueuesFit
  <2>3. Len(Statements) = 6
    BY StatementsAre
  <2> QED
    BY <2>1, <2>2, <2>3 DEF TypeOK, SignupShapes, SignupStates, PoolShapes, UserShapes, LoginStates
<1> QED
  BY <1>1, DocumentsKept, PTL

\* The months kept are the newest that were ever counted, each with all of its signups
\* (UserPoolService.Track), in whatever order the goroutines come and with any of them lost.
THEOREM NoSignupIsLost == Spec => []PeriodsAreExact
<1>1. Documents => PeriodsAreExact
  BY ExactDocument DEF Documents, Accounts
<1> QED
  BY <1>1, DocumentsKept, PTL

\* The queue of a user is the end of all that was recorded of it (UserService.Track).
THEOREM NoLoginIsLost == Spec => []QueuesLoseNothing
<1>1. Documents => QueuesLoseNothing
  BY DEF Documents, Queued
<1> QED
  BY <1>1, DocumentsKept, PTL

=============================================================================
