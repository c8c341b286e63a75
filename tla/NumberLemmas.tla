---------------------------- MODULE NumberLemmas ----------------------------
(***************************************************************************)
(* Least elements: of a family of subsets of a finite set, and of a set of *)
(* numbers.  An induction over data is an argument about a least           *)
(* counterexample, so these carry the inductions of the other modules.     *)
(***************************************************************************)
EXTENDS FiniteSetTheorems, TLAPS

\* A family of subsets of a finite set has a minimal member.
LEMMA LeastSubset ==
    ASSUME NEW S, IsFiniteSet(S), NEW Q, \A T \in Q : T \subseteq S, Q # {}
    PROVE  \E T \in Q : \A U \in Q : U \subseteq T => U = T
<1>1. Q \subseteq FiniteSubsetsOf(S)
  BY FS_Subset DEF FiniteSubsetsOf
<1>2. PICK T \in Q : \A U \in Q : ~ (<<U, T>> \in StrictSubsetOrdering(S))
  BY <1>1, FS_StrictSubsetOrderingWellFounded, WFMin
<1> QED
  BY <1>1, <1>2 DEF StrictSubsetOrdering, FiniteSubsetsOf

\* A finite set of numbers has a largest member,
LEMMA LargestNumber ==
    ASSUME NEW S, IsFiniteSet(S), \A k \in S : k \in Nat, S # {}
    PROVE  \E n \in S : \A m \in S : m <= n
<1> DEFINE Above(k) == {m \in S : k <= m}
           Q == {Above(k) : k \in S}
<1>1. (\A T \in Q : T \subseteq S) /\ Q # {}
  OBVIOUS
<1>2. \A U \in Q : \E k \in S : U = Above(k)
  OBVIOUS
<1>3. \A k \in S : Above(k) \in Q
  OBVIOUS
<1>4. \A k, m \in S : m \in Above(k) <=> k <= m
  OBVIOUS
<1> HIDE DEF Q, Above
<1>5. PICK T \in Q : \A U \in Q : U \subseteq T => U = T
  BY <1>1, LeastSubset
<1>6. PICK n \in S : T = Above(n)
  BY <1>5, <1>2
<1>7. ASSUME NEW m \in S, n < m PROVE FALSE
  <2>1. \A k \in S : m <= k => n <= k
    BY <1>7
  <2>2. n <= n /\ ~(m <= n)
    BY <1>7
  <2>3. Above(m) \subseteq Above(n) /\ Above(m) # Above(n)
    BY <2>1, <2>2, <1>1, <1>3, <1>4
  <2> QED
    BY <1>3, <1>5, <1>6, <2>3
<1> QED
  BY <1>7

\* and a least one.
LEMMA SmallestNumber ==
    ASSUME NEW S, IsFiniteSet(S), \A k \in S : k \in Nat, S # {}
    PROVE  \E n \in S : \A m \in S : n <= m
<1> DEFINE Below(k) == {m \in S : m <= k}
           Q == {Below(k) : k \in S}
<1>1. (\A T \in Q : T \subseteq S) /\ Q # {}
  OBVIOUS
<1>2. \A U \in Q : \E k \in S : U = Below(k)
  OBVIOUS
<1>3. \A k \in S : Below(k) \in Q
  OBVIOUS
<1>4. \A k, m \in S : m \in Below(k) <=> m <= k
  OBVIOUS
<1> HIDE DEF Q, Below
<1>5. PICK T \in Q : \A U \in Q : U \subseteq T => U = T
  BY <1>1, LeastSubset
<1>6. PICK n \in S : T = Below(n)
  BY <1>5, <1>2
<1>7. ASSUME NEW m \in S, m < n PROVE FALSE
  <2>1. \A k \in S : k <= m => k <= n
    BY <1>7
  <2>2. n <= n /\ ~(n <= m)
    BY <1>7
  <2>3. Below(m) \subseteq Below(n) /\ Below(m) # Below(n)
    BY <2>1, <2>2, <1>1, <1>3, <1>4
  <2> QED
    BY <1>3, <1>5, <1>6, <2>3
<1> QED
  BY <1>7

\* What holds of zero, and of a number's successor when it holds of the number,
\* holds of all numbers.
LEMMA CountUp ==
    ASSUME NEW Good, 0 \in Good, \A k \in Nat : k \in Good => k + 1 \in Good
    PROVE  Nat \subseteq Good
<1> SUFFICES ASSUME NEW n \in Nat, n \notin Good PROVE FALSE
  OBVIOUS
<1> DEFINE Bad == {k \in 0..n : k \notin Good}
<1>1. IsFiniteSet(Bad)
  <2>1. IsFiniteSet(0..n) /\ Bad \subseteq 0..n
    BY FS_Interval
  <2> QED
    BY <2>1, FS_Subset
<1>2. n \in Bad /\ \A k \in Bad : k \in Nat
  OBVIOUS
<1>3. PICK k \in Bad : \A m \in Bad : k <= m
  <2> HIDE DEF Bad
  <2> QED
    BY <1>1, <1>2, SmallestNumber
<1>4. k \in Nat /\ k # 0 /\ k <= n /\ k \notin Good
  BY <1>3
<1>5. k - 1 \in Nat /\ (k - 1) + 1 = k
  BY <1>4
<1>6. k - 1 \in Good
  <2>1. CASE k - 1 \in Bad
    BY <1>3, <1>4, <1>5, <2>1
  <2>2. CASE k - 1 \notin Bad
    BY <1>4, <1>5, <2>2
  <2> QED
    BY <2>1, <2>2
<1> QED
  BY <1>4, <1>5, <1>6

=============================================================================
