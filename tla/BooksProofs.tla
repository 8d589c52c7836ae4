------------------------------ MODULE BooksProofs ------------------------------
(***************************************************************************)
(* The books of the account: the credit against payments and messages that *)
(* were paid for, whatever calls, executions and payments overlap; and the *)
(* reports of imports against the table of contacts.                       *)
(***************************************************************************)
EXTENDS EngagementProofs

-----------------------------------------------------------------------------
(* Sums.  SumFunction takes one element of the domain after the other, always
   the one that Pick gives. *)

Pick(s) == CHOOSE x \in s : TRUE
Added1(F, f, s) == IF s = {} THEN 0 ELSE f[Pick(s)] + F[s \ {Pick(s)}]
Sums(F, f, S) == F = [s \in SUBSET S |-> Added1(F, f, s)]

(* What holds of a subset whenever it holds of all smaller ones holds of every
   subset: otherwise take the smallest for which it does not. *)
LEMMA SubsetsBySize ==
  ASSUME NEW S, IsFiniteSet(S), NEW T,
         \A s \in SUBSET S :
           (\A u \in SUBSET S : Cardinality(u) < Cardinality(s) => u \in T) => s \in T
  PROVE  SUBSET S \subseteq T
<1> DEFINE Sizes == {n \in Nat : \E s \in SUBSET S : Cardinality(s) = n /\ s \notin T}
<1> SUFFICES ASSUME NEW s0 \in SUBSET S, s0 \notin T PROVE FALSE
  OBVIOUS
<1>0. \A s \in SUBSET S : Cardinality(s) \in Nat
  BY FS_Subset, FS_CardinalityType
<1>1. Sizes # {}
  BY <1>0
<1>2. PICK n \in Sizes : \A k \in Sizes : ~(<<k, n>> \in OpToRel(<, Nat))
  <2>1. Sizes \subseteq Nat
    OBVIOUS
  <2> HIDE DEF Sizes
  <2> QED BY <1>1, <2>1, WFMin, NatLessThanWellFounded
<1>3. PICK s \in SUBSET S : Cardinality(s) = n /\ s \notin T
  OBVIOUS
<1>4. \A k \in Nat : k < n => k \notin Sizes
  BY <1>2 DEF OpToRel
<1>5. \A u \in SUBSET S : Cardinality(u) < n => u \in T
  BY <1>0, <1>4
<1> QED BY <1>3, <1>5

(* Without one of its elements a subset is smaller. *)
LEMMA SmallerWithout ==
  ASSUME NEW S, IsFiniteSet(S), NEW s \in SUBSET S, NEW a \in s
  PROVE  /\ s \ {a} \in SUBSET S
         /\ Cardinality(s) \in Nat /\ Cardinality(s \ {a}) \in Nat
         /\ Cardinality(s \ {a}) = Cardinality(s) - 1
<1>1. IsFiniteSet(s)
  BY FS_Subset
<1>2. Cardinality(s \ {a}) = Cardinality(s) - 1 /\ IsFiniteSet(s \ {a})
  BY <1>1, FS_RemoveElement
<1> QED BY <1>1, <1>2, FS_CardinalityType

(* What holds of the empty set, and of a set when it does without its pick,
   holds of every subset. *)
LEMMA SubsetsByPick ==
  ASSUME NEW S, IsFiniteSet(S), NEW T, {} \in T,
         \A s \in SUBSET S : s # {} /\ s \ {Pick(s)} \in T => s \in T
  PROVE  SUBSET S \subseteq T
<1>1. ASSUME NEW s \in SUBSET S,
             \A u \in SUBSET S : Cardinality(u) < Cardinality(s) => u \in T
      PROVE  s \in T
  <2>1. CASE s = {}
    BY <2>1
  <2>2. CASE s # {}
    <3>1. Pick(s) \in s
      BY <2>2 DEF Pick
    <3>2. s \ {Pick(s)} \in SUBSET S /\ Cardinality(s \ {Pick(s)}) < Cardinality(s)
      BY <3>1, SmallerWithout
    <3> QED BY <1>1, <2>2, <3>2
  <2> QED BY <2>1, <2>2
<1> QED BY <1>1, SubsetsBySize

(* There is a function that sums up all subsets: one for the subsets with at
   most n elements gives one for those with one more. *)
Small(S, n) == {s \in SUBSET S : Cardinality(s) <= n}
SumsSmall(F, f, S, n) == F = [s \in Small(S, n) |-> Added1(F, f, s)]

(* Taking out the element picked leaves a smaller set. *)
LEMMA SmallerByPick ==
  ASSUME NEW S, IsFiniteSet(S), NEW s \in SUBSET S, s # {}
  PROVE  /\ s \ {Pick(s)} \in SUBSET S /\ Pick(s) \in s
         /\ Cardinality(s) \in Nat /\ Cardinality(s \ {Pick(s)}) \in Nat
         /\ Cardinality(s \ {Pick(s)}) = Cardinality(s) - 1
<1>1. Pick(s) \in s
  BY DEF Pick
<1> QED BY <1>1, SmallerWithout

(* A finite set has a function of the sums of its subsets. *)
LEMMA SumsExist ==
  ASSUME NEW S, IsFiniteSet(S), NEW f
  PROVE  \E F : Sums(F, f, S)
<1> DEFINE Ok(n) == \E F : SumsSmall(F, f, S, n)
           Bad == {n \in Nat : ~Ok(n)}
<1>0. \A s \in SUBSET S : Cardinality(s) \in Nat
  BY FS_Subset, FS_CardinalityType
<1>1. Ok(0)
  <2> DEFINE F == [s \in Small(S, 0) |-> 0]
  <2>1. \A s \in Small(S, 0) : s = {}
    BY <1>0, FS_Subset, FS_EmptySet DEF Small
  <2>2. F = [s \in Small(S, 0) |-> Added1(F, f, s)]
    BY <2>1 DEF Added1
  <2> QED BY <2>2 DEF SumsSmall
<1>2. ASSUME NEW n \in Nat, Ok(n) PROVE Ok(n + 1)
  <2>1. PICK F : SumsSmall(F, f, S, n)
    BY <1>2
  <2> DEFINE G == [s \in Small(S, n + 1) |-> Added1(F, f, s)]
  <2>2. ASSUME NEW s \in Small(S, n + 1), s # {}
        PROVE  s \ {Pick(s)} \in Small(S, n) \cap Small(S, n + 1)
    <3>1. s \in SUBSET S /\ Cardinality(s) <= n + 1
      BY DEF Small
    <3>2. Cardinality(s \ {Pick(s)}) <= n /\ Cardinality(s \ {Pick(s)}) <= n + 1 /\ s \ {Pick(s)} \in SUBSET S
      BY <2>2, <3>1, SmallerByPick
    <3> QED BY <3>2 DEF Small
  <2>3. \A t \in Small(S, n) \cap Small(S, n + 1) : F[t] = G[t]
    BY <2>1 DEF SumsSmall
  <2>4. ASSUME NEW s \in Small(S, n + 1) PROVE Added1(F, f, s) = Added1(G, f, s)
    <3>1. CASE s = {}
      BY <3>1 DEF Added1
    <3>2. CASE s # {}
      <4>1. F[s \ {Pick(s)}] = G[s \ {Pick(s)}]
        BY <2>2, <2>3, <3>2
      <4> HIDE DEF G
      <4> QED BY <3>2, <4>1 DEF Added1
    <3> QED BY <3>1, <3>2
  <2>5. G = [s \in Small(S, n + 1) |-> Added1(G, f, s)]
    BY <2>4
  <2> QED BY <2>5 DEF SumsSmall
<1>3. Bad = {}
  <2> SUFFICES ASSUME Bad # {} PROVE FALSE
    OBVIOUS
  <2>1. PICK n \in Bad : \A k \in Bad : ~(<<k, n>> \in OpToRel(<, Nat))
    <3>1. Bad \subseteq Nat
      OBVIOUS
    <3> HIDE DEF Bad
    <3> QED BY <3>1, WFMin, NatLessThanWellFounded
  <2>2. n \in Nat /\ n # 0
    BY <1>1
  <2>3. n - 1 \in Nat /\ n - 1 < n /\ (n - 1) + 1 = n
    BY <2>2
  <2>4. n - 1 \notin Bad
    BY <2>1, <2>2, <2>3 DEF OpToRel
  <2> QED BY <1>2, <2>3, <2>4
<1>4. Cardinality(S) \in Nat /\ Small(S, Cardinality(S)) = SUBSET S
  BY <1>0, FS_Subset, FS_CardinalityType DEF Small
<1>5. Ok(Cardinality(S))
  BY <1>3, <1>4
<1> QED BY <1>4, <1>5 DEF SumsSmall, Sums

(* SumFunction is such a sum. *)
LEMMA SumIs ==
  ASSUME NEW f, IsFiniteSet(DOMAIN f)
  PROVE  \E F : Sums(F, f, DOMAIN f) /\ SumFunction(f) = F[DOMAIN f]
<1>1. SumFunction(f) = (CHOOSE F : Sums(F, f, DOMAIN f))[DOMAIN f]
  BY DEF SumFunction, SumFunctionOnSet, FoldFunctionOnSet, MapThenFoldSet, Sums, Added1, Pick
<1> QED BY <1>1, SumsExist

(* Its value, and how it changes when one of the numbers does. *)
LEMMA SumChanges ==
  ASSUME NEW S, IsFiniteSet(S), NEW f \in [S -> Int], NEW g \in [S -> Int], NEW a \in S,
         \A x \in S \ {a} : g[x] = f[x]
  PROVE  /\ SumFunction(f) \in Int /\ SumFunction(g) \in Int
         /\ SumFunction(g) = SumFunction(f) + g[a] - f[a]
<1>1. PICK F : Sums(F, f, S) /\ SumFunction(f) = F[S]
  BY SumIs
<1>2. PICK G : Sums(G, g, S) /\ SumFunction(g) = G[S]
  BY SumIs
<1> DEFINE T == {s \in SUBSET S : /\ F[s] \in Int /\ G[s] \in Int
                                   /\ G[s] = F[s] + IF a \in s THEN g[a] - f[a] ELSE 0}
<1>3. {} \in T
  BY <1>1, <1>2 DEF Sums, Added1
<1>4. ASSUME NEW s \in SUBSET S, s # {}, s \ {Pick(s)} \in T PROVE s \in T
  <2> DEFINE x == Pick(s)  r == s \ {Pick(s)}
  <2>1. F[s] = f[x] + F[r] /\ G[s] = g[x] + G[r]
    BY <1>1, <1>2, <1>4 DEF Sums, Added1
  <2>2. x \in s /\ x \in S
    BY <1>4 DEF Pick
  <2>3. f[x] \in Int /\ g[x] \in Int /\ f[a] \in Int /\ g[a] \in Int
    BY <2>2
  <2>4. F[r] \in Int /\ G[r] \in Int /\ G[r] = F[r] + IF a \in r THEN g[a] - f[a] ELSE 0
    BY <1>4
  <2>5. x # a => g[x] = f[x]
    BY <2>2
  <2>6. a \in s <=> a \in r \/ a = x
    BY <2>2
  <2>7. ~(a \in r /\ a = x)
    OBVIOUS
  <2> HIDE DEF x, r
  <2>8. F[s] \in Int /\ G[s] \in Int /\ G[s] = F[s] + IF a \in s THEN g[a] - f[a] ELSE 0
    BY <2>1, <2>3, <2>4, <2>5, <2>6, <2>7
  <2> QED BY <2>8
<1>5. S \in T
  <2> HIDE DEF T
  <2> QED BY <1>3, <1>4, SubsetsByPick
<1> QED BY <1>1, <1>2, <1>5

(* It does not matter which element comes first. *)
LEMMA SumsAny ==
  ASSUME NEW S, IsFiniteSet(S), NEW f \in [S -> Int], NEW F, Sums(F, f, S),
         NEW s, s \subseteq S, NEW x \in s
  PROVE  F[s] = f[x] + F[s \ {x}]
<1> DEFINE T == {u \in SUBSET S : F[u] \in Int /\ \A a \in u : F[u] = f[a] + F[u \ {a}]}
<1>1. ASSUME NEW u \in SUBSET S,
             \A v \in SUBSET S : Cardinality(v) < Cardinality(u) => v \in T
      PROVE  u \in T
  <2>1. CASE u = {}
    BY <2>1 DEF Sums, Added1
  <2>2. CASE u # {}
    <3> DEFINE p == Pick(u)
    <3>1. p \in u /\ F[u] = f[p] + F[u \ {p}]
      BY <2>2 DEF Sums, Added1, Pick
    <3> HIDE DEF p
    <3>2. \A a \in u : u \ {a} \in T
      <4>1. \A a \in u : u \ {a} \in SUBSET S /\ Cardinality(u \ {a}) < Cardinality(u)
        BY SmallerWithout
      <4> QED BY <1>1, <4>1
    <3>3. F[u] \in Int
      <4>1. F[u \ {p}] \in Int /\ f[p] \in Int
        BY <3>1, <3>2
      <4> QED BY <3>1, <4>1
    <3>4. ASSUME NEW a \in u, a # p PROVE F[u] = f[a] + F[u \ {a}]
      <4>1. F[u \ {p}] = f[a] + F[(u \ {p}) \ {a}]
        BY <3>1, <3>2, <3>4
      <4>2. F[u \ {a}] = f[p] + F[(u \ {a}) \ {p}]
        BY <3>1, <3>2, <3>4
      <4>3. (u \ {p}) \ {a} = (u \ {a}) \ {p}
        OBVIOUS
      <4>4. F[(u \ {a}) \ {p}] \in Int
        <5>1. (u \ {a}) \ {p} \in SUBSET S /\ u \ {a} \in SUBSET S
          OBVIOUS
        <5>2. Cardinality((u \ {a}) \ {p}) < Cardinality(u)
          <6>1. /\ Cardinality(u \ {a}) = Cardinality(u) - 1 /\ Cardinality(u) \in Nat
            BY SmallerWithout
          <6>2. /\ Cardinality((u \ {a}) \ {p}) = Cardinality(u \ {a}) - 1
                /\ Cardinality((u \ {a}) \ {p}) \in Nat
            BY <3>1, <3>4, <5>1, SmallerWithout
          <6> QED BY <6>1, <6>2
        <5> QED BY <1>1, <5>1, <5>2
      <4>5. f[a] \in Int /\ f[p] \in Int
        BY <3>1
      <4> DEFINE r == F[(u \ {a}) \ {p}]
      <4>6. F[u] = f[p] + (f[a] + r) /\ F[u \ {a}] = f[p] + r /\ r \in Int
        BY <3>1, <4>1, <4>2, <4>3, <4>4
      <4> HIDE DEF r
      <4>7. f[p] + (f[a] + r) = f[a] + (f[p] + r)
        BY <4>5, <4>6
      <4> QED BY <4>6, <4>7
    <3> QED BY <3>1, <3>3, <3>4
  <2> QED BY <2>1, <2>2
<1>2. s \in T
  <2> HIDE DEF T
  <2> QED BY <1>1, SubsetsBySize
<1> QED BY <1>2

(* Zeros sum up to zero. *)
LEMMA SumOfZeros ==
  ASSUME NEW S, IsFiniteSet(S), NEW f, DOMAIN f = S, \A x \in S : f[x] = 0
  PROVE  SumFunction(f) = 0
<1>1. PICK F : Sums(F, f, S) /\ SumFunction(f) = F[S]
  BY SumIs
<1> DEFINE T == {s \in SUBSET S : F[s] = 0}
<1>2. {} \in T
  BY <1>1 DEF Sums, Added1
<1>3. ASSUME NEW s \in SUBSET S, s # {}, s \ {Pick(s)} \in T PROVE s \in T
  <2>1. F[s] = f[Pick(s)] + F[s \ {Pick(s)}] /\ Pick(s) \in S
    BY <1>1, <1>3 DEF Sums, Added1, Pick
  <2> QED BY <1>3, <2>1
<1>4. S \in T
  <2> HIDE DEF T
  <2> QED BY <1>2, <1>3, SubsetsByPick
<1> QED BY <1>1, <1>4

(* Sums are numbers. *)
LEMMA SumIsInt ==
  ASSUME NEW S, IsFiniteSet(S), NEW f \in [S -> Int]
  PROVE  SumFunction(f) \in Int
<1>1. CASE S = {}
  <2>1. SumFunction(f) = 0
    BY <1>1, SumOfZeros
  <2> QED BY <2>1
<1>2. CASE S # {}
  <2>1. PICK a \in S : TRUE
    BY <1>2
  <2> QED BY <2>1, SumChanges
<1> QED BY <1>1, <1>2

(* Sums of natural numbers are. *)
LEMMA SumIsNat ==
  ASSUME NEW S, IsFiniteSet(S), NEW f \in [S -> Nat]
  PROVE  SumFunction(f) \in Nat
<1>1. PICK F : Sums(F, f, S) /\ SumFunction(f) = F[S]
  BY SumIs
<1> DEFINE T == {s \in SUBSET S : F[s] \in Nat}
<1>2. {} \in T
  BY <1>1 DEF Sums, Added1
<1>3. ASSUME NEW s \in SUBSET S, s # {}, s \ {Pick(s)} \in T PROVE s \in T
  <2>1. F[s] = f[Pick(s)] + F[s \ {Pick(s)}] /\ Pick(s) \in S
    BY <1>1, <1>3 DEF Sums, Added1, Pick
  <2>2. f[Pick(s)] \in Nat /\ F[s \ {Pick(s)}] \in Nat
    BY <1>3, <2>1
  <2> QED BY <2>1, <2>2
<1>4. S \in T
  <2> HIDE DEF T
  <2> QED BY <1>2, <1>3, SubsetsByPick
<1> QED BY <1>1, <1>4

(* With one more number the sum grows by it. *)
LEMMA SumGrows ==
  ASSUME NEW S, IsFiniteSet(S), NEW a, a \notin S, NEW U, U = S \cup {a},
         NEW f \in [S -> Int], NEW g \in [U -> Int], \A x \in S : g[x] = f[x]
  PROVE  /\ SumFunction(f) \in Int /\ SumFunction(g) \in Int
         /\ SumFunction(g) = SumFunction(f) + g[a]
<1>0. IsFiniteSet(S \cup {a})
  BY FS_AddElement
<1>1. PICK F : Sums(F, f, S) /\ SumFunction(f) = F[S]
  BY SumIs
<1>2. PICK G : Sums(G, g, S \cup {a}) /\ SumFunction(g) = G[S \cup {a}]
  BY <1>0, SumIs
<1> DEFINE T == {s \in SUBSET S : F[s] = G[s]}
<1>3. {} \in T
  BY <1>1, <1>2 DEF Sums, Added1
<1>4. ASSUME NEW s \in SUBSET S, s # {}, s \ {Pick(s)} \in T PROVE s \in T
  <2>1. /\ F[s] = f[Pick(s)] + F[s \ {Pick(s)}] /\ Pick(s) \in S
        /\ G[s] = g[Pick(s)] + G[s \ {Pick(s)}]
    BY <1>1, <1>2, <1>4 DEF Sums, Added1, Pick
  <2> QED BY <1>4, <2>1
<1>5. S \in T
  <2> HIDE DEF T
  <2> QED BY <1>3, <1>4, SubsetsByPick
<1>6. SumFunction(f) \in Int /\ SumFunction(g) \in Int
  BY <1>0, SumIsInt
<1>7. G[S \cup {a}] = g[a] + G[(S \cup {a}) \ {a}]
  BY <1>0, <1>2, SumsAny
<1>8. (S \cup {a}) \ {a} = S
  OBVIOUS
<1>9. SumFunction(g) = g[a] + SumFunction(f)
  BY <1>1, <1>2, <1>5, <1>7, <1>8
<1>10. g[a] \in Int
  OBVIOUS
<1> QED BY <1>6, <1>9, <1>10

-----------------------------------------------------------------------------
(* Messages of the API *)

(* Only a call that sends remembers messages it has to pay for. *)
Sender(r) == r.at # "send" => r.took = 0
BillInv ==
  /\ ApiInv /\ Bounds
  /\ \A a \in Callers : Sender(call[a])
  /\ ApiMessagesPaid

(* A call goes on and remembers r.  What is neither paid for nor remembered any
   more is lost by a failure, and is at most what one call may send. *)
LEMMA BillMoves ==
  ASSUME BillInv, ApiInv', Bounds', NEW a \in Callers, NEW r \in CallRecord, Sender(r),
         call' = [call EXCEPT ![a] = r],
         Failures \in Int, Failures' \in Int, Failures' >= Failures,
         NEW lost \in Nat, lost = (apiTried' - apiPaid' - r.took) - (apiTried - apiPaid - call[a].took),
         lost = 0 \/ (lost <= MaxTo /\ Failures' = Failures + 1)
  PROVE  BillInv'
<1> DEFINE f == [x \in Callers |-> call[x].took]
           g == [x \in Callers |-> call'[x].took]
<1>1. /\ call \in [Callers -> CallRecord] /\ call' \in [Callers -> CallRecord]
      /\ apiTried \in Nat /\ apiPaid \in Nat /\ apiTried' \in Nat /\ apiPaid' \in Nat
  BY DEF BillInv, ApiInv, ApiTypes
<1>2. f \in [Callers -> Int] /\ g \in [Callers -> Int]
  BY <1>1 DEF CallRecord
<1>3. f[a] = call[a].took /\ g[a] = r.took /\ \A x \in Callers \ {a} : g[x] = f[x]
  BY <1>1
<1>4. Taking = SumFunction(f) /\ Taking' = SumFunction(g)
  BY DEF Taking
<1>5. IsFiniteSet(Callers)
  BY StoreAssumption
<1> HIDE DEF f, g
<1>6. Taking \in Int /\ Taking' \in Int /\ Taking' = Taking + r.took - call[a].took
  BY <1>2, <1>3, <1>4, <1>5, SumChanges
<1>7. r.took \in Int /\ call[a].took \in Int
  BY <1>1 DEF CallRecord
<1>8. ApiMessagesPaid'
  <2> DEFINE k == Failures  n == Failures'  M == MaxTo
  <2>1. apiPaid + Taking <= apiTried /\ apiTried - apiPaid - Taking <= M * k
    BY DEF BillInv, ApiMessagesPaid
  <2>2. k \in Int /\ n \in Int /\ M \in Nat /\ n >= k /\ (lost = 0 \/ (lost <= M /\ n = k + 1))
    BY StoreAssumption
  <2> HIDE DEF k, n, M
  <2>3. M * n = M * k + M * (n - k) /\ M * (n - k) \in Nat /\ M * k \in Int /\ M * n \in Int
    <3>1. \A d \in Nat : M * d \in Nat /\ M * (k + d) = M * k + M * d
      BY <2>2
    <3>2. n - k \in Nat /\ n = k + (n - k)
      BY <2>2
    <3> QED BY <2>2, <3>1, <3>2
  <2>4. n = k + 1 => M * (n - k) = M
    BY <2>2
  <2>5. lost <= M * (n - k)
    BY <2>2, <2>3, <2>4
  <2>6. apiPaid' + Taking' <= apiTried' /\ apiTried' - apiPaid' - Taking' <= M * n
    <3> DEFINE P == M * k  Q == M * n  R == M * (n - k)
               open == apiTried - apiPaid - Taking  openAfter == apiTried' - apiPaid' - Taking'
    <3>1. P \in Int /\ Q \in Int /\ R \in Int /\ Q = P + R /\ lost <= R
      BY <2>3, <2>5
    <3>2. open \in Int /\ openAfter \in Int /\ openAfter = open + lost /\ 0 <= open
      BY <1>1, <1>6, <1>7, <2>1
    <3>3. open <= P
      BY <2>1
    <3> HIDE DEF P, Q, R, open
    <3>4. 0 <= openAfter /\ openAfter <= Q
      <4> HIDE DEF openAfter
      <4> QED BY <3>1, <3>2, <3>3
    <3>5. openAfter <= M * n
      BY <3>4 DEF Q
    <3> QED BY <1>1, <1>6, <3>4, <3>5
  <2> QED BY <2>6 DEF ApiMessagesPaid, n, M
<1>9. \A x \in Callers : Sender(call'[x])
  BY <1>1 DEF BillInv
<1> QED BY <1>8, <1>9 DEF BillInv

(* Calls of the API and requests on keys. *)
LEMMA BillApi ==
  ASSUME BillInv, ApiInv', ApiNext
  PROVE  BillInv'
<1>0. /\ call \in [Callers -> CallRecord] /\ apiTried \in Nat /\ apiPaid \in Nat
      /\ \A a \in Callers : call[a] \in CallRecord /\ Sender(call[a]) /\ call[a].took \in 0..MaxTo
  BY DEF BillInv, ApiInv, ApiTypes, CallRecord
<1>1. /\ Bounds' /\ Failures \in Int /\ Failures' \in Int /\ Failures' >= Failures
      /\ Fault \/ Crash => Failures' = Failures + 1
  <2>1. Bounds /\ UNCHANGED world /\ Spends
    BY ApiFrame, ApiSpends DEF BillInv, Aside
  <2> QED BY <2>1, FailuresGrow
<1>2. NoCall \in CallRecord /\ Sender(NoCall) /\ NoCall.took = 0
  BY StoreAssumption DEF NoCall, CallRecord, CallSteps, Sender
<1>3. ASSUME NEW a \in Callers, NEW r \in CallRecord, Sender(r), r.took = call[a].took,
             call' = [call EXCEPT ![a] = r], UNCHANGED <<apiTried, apiPaid>>
      PROVE  BillInv'
  <2>1. 0 = (apiTried' - apiPaid' - r.took) - (apiTried - apiPaid - call[a].took) /\ 0 \in Nat
    BY <1>0, <1>3
  <2> QED BY <1>1, <1>3, <2>1, BillMoves
<1>4. ASSUME NEW a \in Callers, call[a].at # "send", call' = [call EXCEPT ![a] = NoCall],
             UNCHANGED <<apiTried, apiPaid>>
      PROVE  BillInv'
  <2>1. call[a].took = 0
    BY <1>0, <1>4 DEF Sender
  <2> QED BY <1>2, <1>3, <1>4, <2>1
<1>5. ASSUME NEW a \in Callers, AskKey(a) PROVE BillInv'
  <2> DEFINE r == [call[a] EXCEPT !.at = "create"]
  <2>1. r \in CallRecord /\ r.took = call[a].took /\ Sender(r)
    BY <1>0, <1>5 DEF CallRecord, CallSteps, Sender, AskKey
  <2>2. call' = [call EXCEPT ![a] = r] /\ UNCHANGED <<apiTried, apiPaid>>
    BY <1>0, <1>5 DEF AskKey, CallGoes
  <2> HIDE DEF r
  <2> QED BY <1>3, <2>1, <2>2
<1>6. ASSUME NEW a \in Callers, NEW k \in Keys, AskRevoke(a, k) PROVE BillInv'
  <2> DEFINE r == [call[a] EXCEPT !.at = "revoke", !.key = k]
  <2>1. r \in CallRecord /\ r.took = call[a].took /\ Sender(r)
    BY <1>0, <1>6 DEF CallRecord, CallSteps, Sender, AskRevoke
  <2>2. call' = [call EXCEPT ![a] = r] /\ UNCHANGED <<apiTried, apiPaid>>
    BY <1>0, <1>6 DEF AskRevoke
  <2> HIDE DEF r
  <2> QED BY <1>3, <2>1, <2>2
<1>7. ASSUME NEW a \in Callers, NEW k \in Keys, NEW n \in 1..MaxTo, CallSms(a, k, n) PROVE BillInv'
  <2> DEFINE r == [at |-> "balance", key |-> k, todo |-> n, took |-> 0]
  <2>1. r \in CallRecord /\ r.took = 0 /\ Sender(r)
    BY StoreAssumption DEF CallRecord, CallSteps, Sender
  <2>2. call' = [call EXCEPT ![a] = r] /\ UNCHANGED <<apiTried, apiPaid>> /\ call[a].at = "idle"
    BY <1>7 DEF CallSms
  <2>3. call[a].took = 0
    BY <1>0, <2>2 DEF Sender
  <2> HIDE DEF r
  <2> QED BY <1>3, <2>1, <2>2, <2>3
<1>8. ASSUME NEW a \in Callers, CheckBalance(a) PROVE BillInv'
  <2>1. call[a].at = "balance" /\ UNCHANGED <<apiTried, apiPaid>>
    BY <1>8 DEF CheckBalance
  <2>2. CASE CallGoes(a, "send")
    <3> DEFINE r == [call[a] EXCEPT !.at = "send"]
    <3>1. r \in CallRecord /\ r.took = call[a].took /\ Sender(r)
      BY <1>0 DEF CallRecord, CallSteps, Sender
    <3>2. call' = [call EXCEPT ![a] = r]
      BY <1>0, <2>2 DEF CallGoes
    <3> HIDE DEF r
    <3> QED BY <1>3, <2>1, <3>1, <3>2
  <2>3. CASE CallEnds(a)
    BY <1>4, <2>1, <2>3 DEF CallEnds
  <2> QED BY <1>8, <2>2, <2>3 DEF CheckBalance
<1>9. ASSUME NEW a \in Callers, SendNext(a) PROVE BillInv'
  <2>1. PICK counted \in {0, 1} :
          /\ apiTried' = apiTried + 1
          /\ call' = [call EXCEPT ![a].todo = @ - 1, ![a].took = @ + counted]
          /\ IF counted = 0 THEN Fault ELSE UNCHANGED left
    BY <1>9 DEF SendNext
  <2>2. call[a].todo > 0 /\ call[a].at = "send" /\ apiPaid' = apiPaid
    BY <1>9 DEF SendNext
  <2> DEFINE r == [call[a] EXCEPT !.todo = @ - 1, !.took = @ + counted]
             lost == 1 - counted
  <2>3. call' = [call EXCEPT ![a] = r]
    BY <1>0, <2>1
  <2>4. r = call'[a]
    BY <1>0, <2>3
  <2>5. r \in CallRecord
    BY <2>4 DEF ApiInv, ApiTypes
  <2>6. r.took = call[a].took + counted /\ r.at = "send"
    BY <1>0, <2>2 DEF CallRecord
  <2> HIDE DEF r
  <2>7. Sender(r)
    BY <2>6 DEF Sender
  <2>8. lost \in Nat /\ lost = (apiTried' - apiPaid' - r.took) - (apiTried - apiPaid - call[a].took)
    BY <1>0, <2>1, <2>2, <2>6
  <2>9. lost = 0 \/ (lost <= MaxTo /\ Failures' = Failures + 1)
    <3>1. MaxTo \in Nat /\ MaxTo # 0
      BY StoreAssumption
    <3>2. CASE counted = 0
      BY <1>1, <2>1, <3>1, <3>2
    <3>3. CASE counted = 1
      BY <3>3
    <3> QED BY <3>2, <3>3
  <2> HIDE DEF lost
  <2> QED BY <1>1, <2>3, <2>5, <2>7, <2>8, <2>9, BillMoves
<1>10. ASSUME NEW a \in Callers, CallFails(a) PROVE BillInv'
  <2>1. /\ call' = [call EXCEPT ![a] = NoCall] /\ UNCHANGED <<apiTried, apiPaid>>
        /\ Fault \/ Crash
    BY <1>10 DEF CallFails, CallEnds
  <2> DEFINE lost == call[a].took
  <2>2. lost \in Nat /\ lost = (apiTried' - apiPaid' - NoCall.took) - (apiTried - apiPaid - call[a].took)
        /\ lost <= MaxTo
    BY <1>0, <1>2, <2>1, StoreAssumption
  <2> HIDE DEF lost
  <2> QED BY <1>1, <1>2, <2>1, <2>2, BillMoves
<1>11. ASSUME NEW a \in Callers, NEW k \in Keys, CreateKey(a, k) PROVE BillInv'
  <2>1. call[a].at # "send" /\ call' = [call EXCEPT ![a] = NoCall] /\ UNCHANGED <<apiTried, apiPaid>>
    BY <1>11 DEF CreateKey, CallEnds
  <2> QED BY <1>4, <2>1
<1>12. ASSUME NEW a \in Callers, RevokeKey(a) PROVE BillInv'
  <2>1. call[a].at # "send" /\ call' = [call EXCEPT ![a] = NoCall] /\ UNCHANGED <<apiTried, apiPaid>>
    BY <1>12 DEF RevokeKey, CallEnds
  <2> QED BY <1>4, <2>1
<1>13. ASSUME NEW a \in Callers, Charge(a) PROVE BillInv'
  <2>1. /\ call' = [call EXCEPT ![a] = NoCall] /\ apiTried' = apiTried
        /\ apiPaid' = apiPaid + call[a].took
    BY <1>13 DEF Charge, CallEnds
  <2>2. 0 \in Nat /\ 0 = (apiTried' - apiPaid' - NoCall.took) - (apiTried - apiPaid - call[a].took)
    BY <1>0, <1>2, <2>1
  <2> QED BY <1>1, <1>2, <2>1, <2>2, BillMoves
<1> QED BY <1>5, <1>6, <1>7, <1>8, <1>9, <1>10, <1>11, <1>12, <1>13 DEF ApiNext, CallStep

(* What the others do: a failure elsewhere only allows more. *)
LEMMA BillElsewhere ==
  ASSUME BillInv, ApiInv', UNCHANGED <<world, call, apiTried, apiPaid>>, Spends
  PROVE  BillInv'
<1>1. /\ Bounds' /\ Failures \in Int /\ Failures' \in Int /\ Failures' >= Failures
  BY FailuresGrow DEF BillInv
<1>2. Taking' = Taking
  BY DEF Taking
<1>3. Taking \in Int
  <2>1. [a \in Callers |-> call[a].took] \in [Callers -> Int]
    BY DEF BillInv, ApiInv, ApiTypes, CallRecord
  <2>2. PICK a \in Callers : TRUE
    BY StoreAssumption
  <2>3. IsFiniteSet(Callers)
    BY StoreAssumption
  <2> QED BY <2>1, <2>2, <2>3, SumChanges DEF Taking
<1>4. ApiMessagesPaid'
  <2> DEFINE open == apiTried - apiPaid - Taking
  <2>1. open \in Int /\ open <= MaxTo * Failures /\ apiPaid + Taking <= apiTried
    BY <1>3 DEF BillInv, ApiInv, ApiTypes, ApiMessagesPaid
  <2>2. MaxTo * Failures <= MaxTo * Failures' /\ MaxTo * Failures \in Int /\ MaxTo * Failures' \in Int
    <3> DEFINE k == Failures  n == Failures'
    <3>1. k \in Int /\ n \in Int /\ n >= k /\ MaxTo \in Nat
      BY <1>1, StoreAssumption
    <3> HIDE DEF k, n
    <3>2. n - k \in Nat /\ n = k + (n - k)
      BY <3>1
    <3>3. \A d \in Nat : MaxTo * d \in Nat /\ MaxTo * (k + d) = MaxTo * k + MaxTo * d
      BY <3>1
    <3>4. MaxTo * k <= MaxTo * n /\ MaxTo * k \in Int /\ MaxTo * n \in Int
      BY <3>1, <3>2, <3>3
    <3> QED BY <3>4 DEF k, n
  <2>3. open' = open
    BY <1>2
  <2> HIDE DEF open
  <2>4. open' <= MaxTo * Failures'
    BY <2>1, <2>2, <2>3
  <2> QED BY <1>2, <2>1, <2>4 DEF ApiMessagesPaid, open
<1> QED BY <1>1, <1>4 DEF BillInv

(* The invariant of messages holds initially, and every step keeps it. *)
LEMMA BillInit == Init => BillInv
<1> SUFFICES ASSUME Init PROVE BillInv
  OBVIOUS
<1>1. ApiInv /\ call = [a \in Callers |-> NoCall] /\ apiTried = 0 /\ apiPaid = 0
  BY ApiInit0 DEF Init, ApiInit
<1>2. Bounds /\ Failures = 0
  <2>1. world \in Worlds
    BY DEF Init, StoreInit
  <2>2. /\ world.faults \in Nat /\ world.crashes \in Nat
        /\ world.requests \in Nat /\ world.deliveries \in Nat
    BY <2>1, StoreAssumption
  <2>3. left = [faults |-> world.faults, crashes |-> world.crashes,
                requests |-> world.requests, deliveries |-> world.deliveries]
    BY DEF Init, StoreInit
  <2> QED BY <2>1, <2>2, <2>3 DEF Bounds, Failures
<1>3. Taking = 0
  <2> DEFINE f == [a \in Callers |-> call[a].took]
  <2>1. DOMAIN f = Callers /\ \A a \in Callers : f[a] = 0
    BY <1>1 DEF NoCall
  <2>2. IsFiniteSet(Callers)
    BY StoreAssumption
  <2> HIDE DEF f
  <2>3. SumFunction(f) = 0
    BY <2>1, <2>2, SumOfZeros
  <2> QED BY <2>3 DEF Taking, f
<1>4. MaxTo * 0 = 0
  BY StoreAssumption
<1>5. \A a \in Callers : Sender(call[a])
  BY <1>1 DEF Sender, NoCall
<1> QED BY <1>1, <1>2, <1>3, <1>4, <1>5 DEF BillInv, ApiMessagesPaid

(* Every step of the account keeps the invariant of API messages. *)
LEMMA BillInductive ==
  ASSUME BillInv, [Next]_vars
  PROVE  BillInv'
<1>1. ApiInv'
  BY ApiInductive DEF BillInv
<1>2. UNCHANGED world
  BY WorldStays
<1>3. ASSUME UNCHANGED apiVars, Spends PROVE BillInv'
  BY <1>1, <1>2, <1>3, BillElsewhere DEF apiVars
<1>4. CASE AutomationsNext
  BY <1>3, <1>4, AutomationsFrame, AutomationsSpend DEF others
<1>5. CASE ImportNext
  BY <1>3, <1>5, ImportFrame, ImportSpends DEF Apart
<1>6. CASE DeliveryNext
  BY <1>3, <1>6, DeliveryFrame, DeliverySpends DEF Beside
<1>7. CASE BookNext
  BY <1>3, <1>7, BookFrame, BookSpends DEF Around
<1>8. CASE ApiNext
  BY <1>1, <1>8, BillApi
<1>9. CASE VisaNext
  BY <1>3, <1>9, VisaFrame, VisaSpends DEF Away
<1>10. CASE Tick \/ UNCHANGED vars
  BY <1>3, <1>10 DEF Tick, vars, others, store, Spends
<1> QED BY <1>4, <1>5, <1>6, <1>7, <1>8, <1>9, <1>10 DEF Next

(* sendSms counts the numbers it handed to a provider, whatever the provider
   answered, and debits them in one statement after the last: however calls
   overlap, and whatever fails, each number is paid for once, about to be, or one
   of the at most MaxTo of a call that failed; and nothing is paid for that was
   not handed over. *)
THEOREM ApiMessagesStayPaid == Spec => []ApiMessagesPaid
<1>1. BillInv => ApiMessagesPaid
  BY DEF BillInv
<1> QED BY <1>1, BillInit, BillInductive, PTL DEF Spec

-----------------------------------------------------------------------------
(* The books *)

(* Until a message is paid for its process knows the node it belongs to.  A job
   that waits, or is yet to be added, has no worker. *)
Placed(e) ==
  /\ mem[e].pc \in {"idle", "found", "add", "load", "send", "pay"} => mem[e].at \in Nodes
  /\ job[e].st \in {"none", "waiting"} => mem[e].pc \in {"idle", "found", "add"}
PlacedInv == LateInv /\ \A e \in Executions : Placed(e)

(* The process of an execution goes on. *)
LEMMA PlacedExecution ==
  ASSUME PlacedInv, LateInv', UNCHANGED world, world \in Worlds, NEW e \in Executions,
         \/ \E i \in DOMAIN events : Listen(e, i)
         \/ \E c \in Contacts : Trigger(e, c)
         \/ CreateRow(e) \/ AddJob(e) \/ FiringDies(e) \/ TakeJob(e) \/ WorkerDies(e)
         \/ WorkerStep(e)
  PROVE  PlacedInv'
<1>0. /\ Placed(e) /\ DOMAIN mem = Executions /\ DOMAIN job = Executions
      /\ IsMem(mem[e]) /\ IsJob(job[e]) /\ 0 \in Nodes /\ Nodes' = Nodes
  BY StoreAssumption DEF PlacedInv, LateInv, Late, Domains, Nodes, Flow
<1> DEFINE Ok == /\ Placed(e)'
                 /\ \A f \in Executions \ {e} : mem'[f] = mem[f] /\ job'[f] = job[f]
<1> USE DEF Placed, IsMem, IsJob, Goto, Rest
<1>1. ASSUME NEW i \in DOMAIN events, Listen(e, i) PROVE Ok
  BY <1>0, <1>1 DEF Listen, Unused
<1>2. ASSUME NEW c \in Contacts, Trigger(e, c) PROVE Ok
  BY <1>0, <1>2 DEF Trigger, Unused
<1>3. ASSUME CreateRow(e) PROVE Ok
  BY <1>0, <1>3 DEF CreateRow
<1>4. ASSUME AddJob(e) PROVE Ok
  BY <1>0, <1>4 DEF AddJob, Added
<1>5. ASSUME FiringDies(e) PROVE Ok
  BY <1>0, <1>5 DEF FiringDies
<1>6. ASSUME TakeJob(e) PROVE Ok
  BY <1>0, <1>6 DEF TakeJob
<1>7. ASSUME WorkerDies(e) PROVE Ok
  BY <1>0, <1>7 DEF WorkerDies
<1>8. ASSUME WorkerStep(e) PROVE Ok
  <2>1. CASE Load(e)
    BY <1>0, <2>1 DEF Load, Loaded
  <2>2. CASE Enter(e)
    BY <1>0, <2>2 DEF Enter, StepOf
  <2>3. CASE Send(e)
    BY <1>0, <2>3 DEF Send, Thrown
  <2>4. CASE Pay(e)
    BY <1>0, <2>4 DEF Pay, Thrown
  <2>5. CASE RecordNode(e)
    BY <1>0, <2>5 DEF RecordNode, Thrown
  <2>6. CASE RecordMessage(e)
    BY <1>0, <2>6 DEF RecordMessage, Thrown
  <2>7. CASE ScheduleRetry(e)
    BY <1>0, <2>7 DEF ScheduleRetry
  <2>8. CASE Requeue(e)
    BY <1>0, <2>8 DEF Requeue, Added
  <2>9. CASE TagContact(e)
    BY <1>0, <2>9 DEF TagContact
  <2>10. CASE Branch(e)
    BY <1>0, <2>10 DEF Branch
  <2>11. CASE Wait(e)
    BY <1>0, <2>11 DEF Wait
  <2>12. CASE Finish(e)
    BY <1>0, <2>12 DEF Finish
  <2>13. CASE Return(e)
    BY <1>0, <2>13 DEF Return, NoJob
  <2>14. CASE Throw(e)
    BY <1>0, <2>14 DEF Throw
  <2>15. CASE MarkFailed(e)
    BY <1>0, <2>15 DEF MarkFailed
  <2> QED BY <1>8, <2>1, <2>2, <2>3, <2>4, <2>5, <2>6, <2>7, <2>8, <2>9, <2>10, <2>11, <2>12, <2>13, <2>14, <2>15 DEF WorkerStep
<1> HIDE DEF Placed, IsMem, IsJob, Goto, Rest, Ok
<1>9. Ok
  BY <1>1, <1>2, <1>3, <1>4, <1>5, <1>6, <1>7, <1>8
<1>10. ASSUME NEW f \in Executions PROVE Placed(f)'
  <2>1. CASE f = e
    BY <1>9, <2>1 DEF Ok
  <2>2. CASE f # e
    BY <1>0, <1>9, <2>2 DEF Ok, PlacedInv, Placed
  <2> QED BY <2>1, <2>2
<1> QED BY <1>10 DEF PlacedInv

(* The rest of a step: no process of an execution moves, and a job that is added
   had none. *)
LEMMA PlacedElsewhere ==
  ASSUME PlacedInv, LateInv', UNCHANGED <<world, mem>>,
         \A e \in Executions : job'[e] = job[e] \/ job[e].st = "none"
  PROVE  PlacedInv'
<1>1. Nodes' = Nodes
  BY DEF Nodes, Flow
<1>2. ASSUME NEW e \in Executions PROVE Placed(e)'
  BY <1>1 DEF PlacedInv, Placed
<1> QED BY <1>2 DEF PlacedInv

(* Every step of the account keeps executions at nodes of their workflow. *)
LEMMA PlacedInductive ==
  ASSUME PlacedInv, world \in Worlds, [Next]_vars
  PROVE  PlacedInv'
<1>1. LateInv' /\ UNCHANGED world
  BY LateInductive, WorldStays DEF PlacedInv
<1>2. ASSUME UNCHANGED <<mem, job>> PROVE PlacedInv'
  BY <1>1, <1>2, PlacedElsewhere
<1>3. CASE AutomationsNext
  <2>1. ASSUME NEW e \in Executions,
               \/ \E i \in DOMAIN events : Listen(e, i)
               \/ \E c \in Contacts : Trigger(e, c)
               \/ CreateRow(e) \/ AddJob(e) \/ FiringDies(e) \/ TakeJob(e) \/ WorkerDies(e)
               \/ WorkerStep(e)
        PROVE  PlacedInv'
    BY <1>1, <2>1, PlacedExecution
  <2>2. ASSUME NEW k \in Runs, CronFires(k) \/ CronDies(k) \/ CronMarks(k) PROVE PlacedInv'
    BY <1>2, <2>2 DEF CronFires, CronDies, CronMarks, executions
  <2>3. ASSUME NEW k \in Runs, NEW e \in Executions, CronCreates(k, e) PROVE PlacedInv'
    BY <1>2, <2>3 DEF CronCreates
  <2>4. ASSUME NEW k \in Runs, CronAdds(k) PROVE PlacedInv'
    <3>1. UNCHANGED mem /\ (job' = Added(cron[k].cur) \/ UNCHANGED job)
      BY <2>4 DEF CronAdds
    <3>2. DOMAIN job = Executions
      BY DEF PlacedInv, LateInv, Domains
    <3>3. \A e \in Executions : job'[e] = job[e] \/ job[e].st = "none"
      BY <3>1, <3>2 DEF Added
    <3> QED BY <1>1, <3>1, <3>3, PlacedElsewhere
  <2>5. ASSUME NEW r \in Clients, Toggle(r) \/ Delete(r) \/ RequestStep(r) PROVE PlacedInv'
    BY <1>2, <2>5 DEF Toggle, Delete, Ask, RequestStep, WriteToggle, WriteDelete, executions
  <2>6. ASSUME NEW d \in 0..MaxDay, SetDate(d) PROVE PlacedInv'
    BY <1>2, <2>6 DEF SetDate, executions
  <2> QED BY <1>3, <2>1, <2>2, <2>3, <2>4, <2>5, <2>6 DEF AutomationsNext, CronStep
<1>4. ASSUME UNCHANGED automationVars PROVE PlacedInv'
  BY <1>2, <1>4 DEF automationVars, executions
<1>5. CASE ImportNext
  BY <1>4, <1>5, ImportFrame DEF Apart
<1>6. CASE DeliveryNext
  BY <1>4, <1>6, DeliveryFrame DEF Beside
<1>7. CASE BookNext
  BY <1>4, <1>7, BookFrame DEF Around
<1>8. CASE ApiNext
  BY <1>4, <1>8, ApiFrame DEF Aside
<1>9. CASE VisaNext
  BY <1>4, <1>9, VisaFrame DEF Away
<1>10. CASE Tick \/ UNCHANGED vars
  BY <1>4, <1>10 DEF Tick, vars
<1> QED BY <1>3, <1>5, <1>6, <1>7, <1>8, <1>9, <1>10 DEF Next

(* What automations paid for, all executions together. *)
Spent == SumFunction([e \in Executions |-> Paid(e)])
ChargedType == charged \in [Executions -> [Nodes -> Nat]]

(* Sums of payments are numbers. *)
LEMMA SpentIsInt ==
  ASSUME ChargedType, world \in Worlds
  PROVE  Spent \in Int /\ IsFiniteSet(Nodes) /\ \A e \in Executions : Paid(e) \in Int
<1>1. IsFiniteSet(Nodes)
  <2>1. Len(Flow.nodes) \in Nat
    BY StoreAssumption DEF Flow
  <2>2. IsFiniteSet(0..Len(Flow.nodes))
    BY <2>1, FS_Interval
  <2> QED BY <2>2 DEF Nodes
<1>2. ASSUME NEW e \in Executions PROVE Paid(e) \in Int
  <2>1. charged[e] \in [Nodes -> Int]
    BY DEF ChargedType
  <2> QED BY <1>1, <2>1, SumIsInt DEF Paid
<1>3. [e \in Executions |-> Paid(e)] \in [Executions -> Int]
  BY <1>2
<1>4. IsFiniteSet(Executions)
  BY StoreAssumption
<1>5. Spent \in Int
  BY <1>3, <1>4, SumIsInt DEF Spent
<1> QED BY <1>1, <1>2, <1>5

(* One more message is paid for. *)
LEMMA SpentOnce ==
  ASSUME ChargedType, world \in Worlds, UNCHANGED world,
         NEW e \in Executions, NEW n \in Nodes, charged' = [charged EXCEPT ![e][n] = @ + 1]
  PROVE  ChargedType' /\ Spent' = Spent + 1
<1>0. Nodes' = Nodes
  BY DEF Nodes, Flow
<1>1. charged' \in [Executions -> [Nodes -> Nat]]
  BY DEF ChargedType
<1>2. ChargedType'
  BY <1>0, <1>1 DEF ChargedType
<1>3. IsFiniteSet(Nodes) /\ IsFiniteSet(Executions)
  BY SpentIsInt, StoreAssumption
<1>4. Paid(e)' = Paid(e) + 1 /\ Paid(e) \in Int
  <2> DEFINE f == charged[e]  g == charged'[e]
  <2>1. f \in [Nodes -> Int] /\ g \in [Nodes -> Int] /\ g[n] = f[n] + 1
        /\ \A x \in Nodes \ {n} : g[x] = f[x]
    BY <1>1 DEF ChargedType
  <2>2. Paid(e) = SumFunction(f) /\ Paid(e)' = SumFunction(g)
    BY DEF Paid
  <2> HIDE DEF f, g
  <2>3. /\ SumFunction(f) \in Int /\ SumFunction(g) \in Int
        /\ SumFunction(g) = SumFunction(f) + g[n] - f[n]
    BY <1>3, <2>1, SumChanges
  <2>4. f[n] \in Int
    BY <2>1
  <2> QED BY <2>1, <2>2, <2>3, <2>4
<1>5. \A x \in Executions \ {e} : Paid(x)' = Paid(x)
  BY DEF Paid, ChargedType
<1> DEFINE F == [x \in Executions |-> Paid(x)]  G == [x \in Executions |-> Paid(x)']
<1>6. F \in [Executions -> Int] /\ F[e] = Paid(e)
  BY SpentIsInt
<1>7. G \in [Executions -> Int] /\ G[e] = Paid(e) + 1 /\ \A x \in Executions \ {e} : G[x] = F[x]
  BY <1>4, <1>5, SpentIsInt
<1>8. Spent = SumFunction(F) /\ Spent' = SumFunction(G)
  BY DEF Spent
<1> HIDE DEF F, G
<1>9. SumFunction(F) \in Int /\ SumFunction(G) = SumFunction(F) + G[e] - F[e]
  BY <1>3, <1>6, <1>7, SumChanges
<1> QED BY <1>2, <1>4, <1>6, <1>7, <1>8, <1>9

(* What the books say should be in the credit and is not. *)
Missing ==
  world.credit + CardAmount * (cards + purchases.bought)
  - UnitCost * Spent - ApiCost * apiPaid - balance
BooksInv ==
  /\ PlacedInv /\ ApiInv /\ PurchasesInv
  /\ ChargedType /\ cards \in Nat
  /\ BooksBalance

(* More is missing when a payment is recorded, less when it is credited; a
   failure between the two leaves it missing. *)
LEMMA MissingBounds ==
  ASSUME NEW A \in Nat, NEW v \in Nat, NEW w \in Nat, NEW k \in Int, NEW l \in Int, l >= k,
         NEW m \in Int, NEW n \in Int, NEW d \in -1..1, n = m + A * d,
         m >= A * v, m <= A * (v + k),
         w = v + d \/ (d = 0 /\ w = v - 1 /\ l = k + 1)
  PROVE  n >= A * w /\ n <= A * (w + l)
<1>1. \A x, y \in Int : A * x \in Int /\ A * (x + y) = A * x + A * y
  OBVIOUS
<1>2. \A x \in Nat : A * x \in Nat
  OBVIOUS
<1>3. CASE w = v + d
  <2>1. A * w = A * v + A * d
    BY <1>1, <1>3
  <2>2. w + l = (v + k) + (d + (l - k)) /\ l - k \in Nat /\ v + k \in Int /\ d \in Int /\ l - k \in Int
    BY <1>3
  <2>3. A * (w + l) = A * (v + k) + (A * d + A * (l - k))
    BY <1>1, <2>2
  <2>4. A * (l - k) \in Nat /\ A * (v + k) \in Int /\ A * d \in Int /\ A * v \in Int
    BY <1>1, <1>2, <2>2
  <2> QED BY <2>1, <2>3, <2>4
<1>4. CASE d = 0 /\ w = v - 1 /\ l = k + 1
  <2>1. w + l = v + k /\ v = w + 1 /\ A * d = 0
    BY <1>4
  <2>2. A * v = A * w + A * 1 /\ A * w \in Int /\ A * 1 = A
    BY <1>1, <2>1
  <2>3. A * (w + l) = A * (v + k) /\ A * (v + k) \in Int
    BY <1>1, <2>1
  <2> QED BY <2>1, <2>2, <2>3
<1> QED BY <1>3, <1>4

(* A step that books x payments and y + z messages, and changes the credit by u
   payments and those messages. *)
LEMMA BooksMove ==
  ASSUME BooksInv, PlacedInv', ApiInv', PurchasesInv', ChargedType', cards' \in Nat,
         UNCHANGED world,
         NEW x \in 0..1, NEW u \in 0..1, NEW y \in Nat, NEW z \in Nat,
         cards' + purchases'.bought = cards + purchases.bought + x,
         Spent' = Spent + y, apiPaid' = apiPaid + z,
         balance' = balance + CardAmount * u - UnitCost * y - ApiCost * z,
         Failures \in Int, Failures' \in Int, Failures' >= Failures,
         \/ VisaAt("credit")' = VisaAt("credit") + x - u
         \/ x = u /\ VisaAt("credit")' = VisaAt("credit") - 1 /\ Failures' = Failures + 1
  PROVE  BooksInv'
<1> DEFINE A == CardAmount  d == x - u  m == Missing  n == Missing'
           v == VisaAt("credit")  w == VisaAt("credit")'  k == Failures  l == Failures'
<1>1. /\ A \in Nat /\ UnitCost \in Nat /\ ApiCost \in Nat /\ world.credit \in Nat /\ world \in Worlds
  BY StoreAssumption DEF PurchasesInv, BooksInv, Bounds
<1>2. /\ Spent \in Int /\ apiPaid \in Int /\ balance \in Int /\ cards + purchases.bought \in Int
  BY <1>1, SpentIsInt DEF BooksInv, ApiInv, ApiTypes, PurchasesInv, Tally
<1>3. m \in Int /\ n \in Int /\ n = m + A * d /\ d \in -1..1
  <2> DEFINE b == cards + purchases.bought  c == world.credit  s == Spent  p == apiPaid  r == balance
             U == UnitCost  C == ApiCost
  <2>1. /\ m = c + A * b - U * s - C * p - r
        /\ n = c + A * (b + x) - U * (s + y) - C * (p + z) - (r + A * u - U * y - C * z)
    BY DEF Missing
  <2>2. /\ b \in Int /\ c \in Int /\ s \in Int /\ p \in Int /\ r \in Int /\ A \in Int /\ U \in Int /\ C \in Int
        /\ x \in Int /\ u \in Int /\ y \in Int /\ z \in Int
    BY <1>1, <1>2
  <2>3. d = x - u /\ d \in -1..1
    OBVIOUS
  <2> HIDE DEF b, c, s, p, r, U, C, A, d, m, n
  <2>4. \A f, g, h \in Int : f * (g + h) = f * g + f * h /\ f * (g - h) = f * g - f * h /\ f * g \in Int
    OBVIOUS
  <2>5. /\ A * (b + x) = A * b + A * x /\ U * (s + y) = U * s + U * y /\ C * (p + z) = C * p + C * z
        /\ A * d = A * x - A * u
        /\ {A * b, A * x, A * u, U * s, U * y, C * p, C * z} \subseteq Int
    BY <2>2, <2>3, <2>4
  <2> QED BY <2>1, <2>2, <2>3, <2>5
<1>4. v \in Nat /\ w \in Nat
  <2>1. IsFiniteSet({q \in Callers : visa[q] = "credit"}) /\ IsFiniteSet({q \in Callers : visa'[q] = "credit"})
    BY FS_Subset, StoreAssumption
  <2> QED BY <2>1, FS_CardinalityType DEF VisaAt
<1>5. k \in Int /\ l \in Int /\ l >= k
  OBVIOUS
<1>6. m >= A * v /\ m <= A * (v + k)
  BY DEF BooksInv, BooksBalance, Missing, Spent
<1>7. w = v + d \/ (d = 0 /\ w = v - 1 /\ l = k + 1)
  BY <1>4
<1>8. n >= A * w /\ n <= A * (w + l)
  <2> HIDE DEF A, d, m, n, v, w, k, l
  <2>1. A \in Nat
    BY <1>1
  <2> QED BY <1>3, <1>4, <1>5, <1>6, <1>7, <2>1, MissingBounds
<1>9. BooksBalance'
  BY <1>8 DEF BooksBalance, Missing, Spent
<1> QED BY <1>9 DEF BooksInv

(* A debit, and nothing else of automations, is about money. *)
LEMMA AutomationsPay ==
  AutomationsNext =>
    \/ UNCHANGED <<balance, charged>>
    \/ \E e \in Executions : mem[e].pc = "pay" /\ Debit(e)
<1> DEFINE Ok == \/ UNCHANGED <<balance, charged>>
                 \/ \E e \in Executions : mem[e].pc = "pay" /\ Debit(e)
<1>1. ASSUME NEW e \in Executions, NEW i \in DOMAIN events, Listen(e, i) PROVE Ok
  BY <1>1 DEF Listen, history
<1>2. ASSUME NEW e \in Executions, NEW c \in Contacts, Trigger(e, c) PROVE Ok
  BY <1>2 DEF Trigger, history
<1>3. ASSUME NEW e \in Executions, CreateRow(e) \/ AddJob(e) \/ FiringDies(e) PROVE Ok
  BY <1>3 DEF CreateRow, AddJob, FiringDies, history
<1>4. ASSUME NEW e \in Executions, TakeJob(e) \/ WorkerDies(e) PROVE Ok
  BY <1>4 DEF TakeJob, WorkerDies, store, history
<1>5. ASSUME NEW e \in Executions, WorkerStep(e) PROVE Ok
  <2>1. CASE Pay(e)
    BY <2>1 DEF Pay
  <2>2. CASE Load(e) \/ Enter(e) \/ Send(e) \/ RecordNode(e) \/ RecordMessage(e)
    BY <2>2 DEF Load, Enter, Send, RecordNode, RecordMessage, history
  <2>3. CASE ScheduleRetry(e) \/ Requeue(e) \/ TagContact(e) \/ Branch(e) \/ Wait(e)
    BY <2>3 DEF ScheduleRetry, Requeue, TagContact, Branch, Wait, history
  <2>4. CASE Finish(e) \/ Return(e) \/ Throw(e) \/ MarkFailed(e)
    BY <2>4 DEF Finish, Return, Throw, MarkFailed, store, history
  <2> QED BY <1>5, <2>1, <2>2, <2>3, <2>4 DEF WorkerStep
<1>6. ASSUME NEW k \in Runs, CronFires(k) \/ CronStep(k) \/ CronDies(k) PROVE Ok
  BY <1>6 DEF CronFires, CronStep, CronCreates, CronAdds, CronMarks, CronDies, store, history
<1>7. ASSUME NEW r \in Clients, Toggle(r) \/ Delete(r) \/ RequestStep(r) PROVE Ok
  BY <1>7 DEF Toggle, Delete, Ask, RequestStep, WriteToggle, WriteDelete, store, history
<1>8. ASSUME NEW d \in 0..MaxDay, SetDate(d) PROVE Ok
  BY <1>8 DEF SetDate, history
<1> QED BY <1>1, <1>2, <1>3, <1>4, <1>5, <1>6, <1>7, <1>8 DEF AutomationsNext

(* Of the webhooks that of card payments books what it adds. *)
LEMMA DeliveryPays ==
  DeliveryNext =>
    \/ UNCHANGED <<balance, cards>>
    \/ balance' = balance + CardAmount /\ cards' = cards + 1
<1> DEFINE Ok == \/ UNCHANGED <<balance, cards>>
                 \/ balance' = balance + CardAmount /\ cards' = cards + 1
<1>1. ASSUME NEW m \in world.messages, ReceiveCard(m) PROVE Ok
  BY <1>1 DEF ReceiveCard
<1>2. ASSUME NEW m \in world.messages, NEW d \in Lanes, NEW c \in Contacts, Receive(d, m, c) PROVE Ok
  BY <1>2 DEF Receive
<1>3. ASSUME NEW d \in Lanes, LaneStep(d) PROVE Ok
  <2>1. CASE EmailWrite(d) \/ BouncedOptOut(d) \/ ResendOpen(d) \/ ResendClick(d) \/ ResendBounce(d)
    BY <2>1 DEF EmailWrite, BouncedOptOut, ResendOpen, ResendClick, ResendBounce
  <2>2. CASE ResendUnsubscribe(d) \/ ResendMark(d) \/ Count(d) \/ Log(d)
    BY <2>2 DEF ResendUnsubscribe, ResendMark, Count, Log
  <2>3. CASE Sms(d) \/ TrackOpen(d) \/ TrackClick(d) \/ TrackUnsubscribe(d)
    BY <2>3 DEF Sms, TrackOpen, TrackClick, TrackUnsubscribe
  <2> QED BY <1>3, <2>1, <2>2, <2>3 DEF LaneStep
<1>4. ASSUME NEW d \in Lanes, LaneFails(d) PROVE Ok
  BY <1>4 DEF LaneFails
<1> HIDE DEF Ok
<1>5. DeliveryNext => Ok
  BY <1>1, <1>2, <1>3, <1>4 DEF DeliveryNext
<1> QED BY <1>5 DEF Ok

(* Of the API only the debit at the end of a call. *)
LEMMA ApiPays ==
  ApiNext =>
    \/ UNCHANGED <<balance, apiPaid>>
    \/ \E a \in Callers : /\ balance' = balance - ApiCost * call[a].took
                           /\ apiPaid' = apiPaid + call[a].took
<1>1. ASSUME NEW a \in Callers, Charge(a)
      PROVE  balance' = balance - ApiCost * call[a].took /\ apiPaid' = apiPaid + call[a].took
  BY <1>1 DEF Charge
<1>2. ASSUME NEW a \in Callers,
             \/ AskKey(a) \/ CallFails(a) \/ RevokeKey(a) \/ CheckBalance(a) \/ SendNext(a)
             \/ \E k \in Keys : CreateKey(a, k) \/ AskRevoke(a, k)
             \/ \E k \in Keys, n \in 1..MaxTo : CallSms(a, k, n)
      PROVE  UNCHANGED <<balance, apiPaid>>
  BY <1>2 DEF AskKey, CallFails, RevokeKey, CheckBalance, SendNext, CreateKey, AskRevoke, CallSms
<1> QED BY <1>1, <1>2 DEF ApiNext, CallStep

(* The step of whoever it is keeps the books. *)
LEMMA BooksInductive ==
  ASSUME BooksInv, [Next]_vars
  PROVE  BooksInv'
<1>1. PlacedInv' /\ ApiInv' /\ PurchasesInv' /\ UNCHANGED world
  BY PlacedInductive, ApiInductive, PurchasesInductive, WorldStays DEF BooksInv, PurchasesInv, Bounds
<1>2. /\ world \in Worlds /\ balance \in Int /\ apiPaid \in Int /\ cards \in Nat /\ Spent \in Int
      /\ CardAmount \in Nat /\ UnitCost \in Nat /\ ApiCost \in Nat
      /\ purchases \in Tally /\ purchases.bought \in Nat
  BY SpentIsInt, StoreAssumption DEF BooksInv, ApiInv, ApiTypes, PurchasesInv, Bounds, Tally
<1>3. VisaAt("credit") \in Int
  <2>1. IsFiniteSet({q \in Callers : visa[q] = "credit"})
    BY FS_Subset, StoreAssumption
  <2> QED BY <2>1, FS_CardinalityType DEF VisaAt
<1>4. Nodes' = Nodes
  BY <1>1 DEF Nodes, Flow
<1>5. ASSUME Spends
      PROVE  Failures \in Int /\ Failures' \in Int /\ Failures' >= Failures
             /\ (Fault \/ Crash => Failures' = Failures + 1)
  BY <1>1, <1>5, FailuresGrow DEF BooksInv, PurchasesInv
<1>6. UNCHANGED charged => ChargedType' /\ Spent' = Spent
  BY <1>4 DEF BooksInv, ChargedType, Spent, Paid
<1>7. UNCHANGED visaVars => VisaAt("credit")' = VisaAt("credit") /\ purchases' = purchases
  BY DEF VisaAt, visaVars
<1>8. CardAmount * 0 = 0 /\ CardAmount * 1 = CardAmount /\ UnitCost * 0 = 0 /\ UnitCost * 1 = UnitCost /\ ApiCost * 0 = 0
  BY <1>2
<1>9. ASSUME Spends, UNCHANGED <<balance, charged, cards, apiPaid, visaVars>> PROVE BooksInv'
  BY <1>1, <1>2, <1>3, <1>5, <1>6, <1>7, <1>8, <1>9, BooksMove
<1>10. CASE AutomationsNext
  <2>1. UNCHANGED <<cards, apiPaid, visaVars>> /\ Spends
    BY <1>10, AutomationsFrame, AutomationsSpend DEF others, deliveryVars, apiVars
  <2>2. CASE UNCHANGED <<balance, charged>>
    BY <1>9, <2>1, <2>2
  <2>3. ASSUME NEW e \in Executions, mem[e].pc = "pay", Debit(e) PROVE BooksInv'
    <3>1. mem[e].at \in Nodes
      BY <2>3 DEF BooksInv, PlacedInv, Placed
    <3>2. /\ balance' = balance - UnitCost
          /\ charged' = [charged EXCEPT ![e][mem[e].at] = @ + 1]
      BY <2>3 DEF Debit
    <3>3. ChargedType' /\ Spent' = Spent + 1
      BY <1>1, <1>2, <3>1, <3>2, SpentOnce DEF BooksInv
    <3>4. balance' = balance + CardAmount * 0 - UnitCost * 1 - ApiCost * 0
      BY <1>2, <1>8, <3>2
    <3> QED BY <1>1, <1>2, <1>3, <1>5, <1>7, <2>1, <3>3, <3>4, BooksMove
  <2> QED BY <1>10, <2>2, <2>3, AutomationsPay
<1>11. CASE ImportNext
  <2>1. UNCHANGED <<balance, charged, cards, apiPaid, visaVars>>
    BY <1>11, ImportFrame DEF Apart, automationVars, history, deliveryVars, apiVars
  <2> QED BY <1>9, <1>11, <2>1, ImportSpends
<1>12. CASE DeliveryNext
  <2>1. UNCHANGED <<charged, apiPaid, visaVars>> /\ Spends
    BY <1>12, DeliveryFrame, DeliverySpends DEF Beside, automationVars, history, apiVars
  <2>2. CASE UNCHANGED <<balance, cards>>
    BY <1>9, <2>1, <2>2
  <2>3. CASE balance' = balance + CardAmount /\ cards' = cards + 1
    <3>1. balance' = balance + CardAmount * 1 - UnitCost * 0 - ApiCost * 0
      BY <1>2, <1>8, <2>3
    <3>2. cards' \in Nat /\ cards' + purchases'.bought = cards + purchases.bought + 1
      BY <1>2, <1>7, <2>1, <2>3
    <3>3. VisaAt("credit")' = VisaAt("credit") + 1 - 1
      BY <1>3, <1>7, <2>1
    <3>4. Spent' = Spent + 0 /\ apiPaid' = apiPaid + 0 /\ ChargedType'
      BY <1>2, <1>6, <2>1
    <3> QED BY <1>1, <1>5, <2>1, <3>1, <3>2, <3>3, <3>4, BooksMove DEF BooksInv
  <2> QED BY <1>12, <2>2, <2>3, DeliveryPays
<1>13. CASE BookNext
  <2>1. UNCHANGED <<balance, charged, cards, apiPaid, visaVars>>
    BY <1>13, BookFrame DEF Around, automationVars, history, deliveryVars, apiVars
  <2> QED BY <1>9, <1>13, <2>1, BookSpends
<1>14. CASE ApiNext
  <2>1. UNCHANGED <<charged, cards, visaVars>> /\ Spends
    BY <1>14, ApiFrame, ApiSpends DEF Aside, automationVars, history, deliveryVars
  <2>2. CASE UNCHANGED <<balance, apiPaid>>
    BY <1>9, <2>1, <2>2
  <2>3. ASSUME NEW a \in Callers, balance' = balance - ApiCost * call[a].took,
               apiPaid' = apiPaid + call[a].took
        PROVE  BooksInv'
    <3> DEFINE z == call[a].took
    <3>1. z \in Nat
      BY StoreAssumption DEF BooksInv, ApiInv, ApiTypes, CallRecord
    <3>2. apiPaid' = apiPaid + z /\ balance' = balance - ApiCost * z
      BY <2>3
    <3> HIDE DEF z
    <3>3. ApiCost * z \in Int
      BY <1>2, <3>1
    <3>4. balance' = balance + CardAmount * 0 - UnitCost * 0 - ApiCost * z
      BY <1>2, <1>8, <3>2, <3>3
    <3>5. Spent' = Spent + 0 /\ ChargedType' /\ cards' \in Nat
          /\ cards' + purchases'.bought = cards + purchases.bought + 0
          /\ VisaAt("credit")' = VisaAt("credit") + 0 - 0
      BY <1>2, <1>3, <1>6, <1>7, <2>1
    <3> QED BY <1>1, <1>5, <2>1, <3>1, <3>2, <3>4, <3>5, BooksMove
  <2> QED BY <1>14, <2>2, <2>3, ApiPays
<1>15. CASE VisaNext
  <2>1. UNCHANGED <<charged, cards, apiPaid>> /\ Spends
    BY <1>15, VisaFrame, VisaSpends DEF Away, automationVars, history, deliveryVars, apiVars
  <2>2. Spent' = Spent + 0 /\ apiPaid' = apiPaid + 0 /\ ChargedType' /\ cards' \in Nat /\ cards' = cards
    BY <1>2, <1>6, <2>1
  <2>3. visa \in [Callers -> VisaSteps] /\ {"idle", "charge", "record", "credit", "invoice"} \subseteq VisaSteps
    BY DEF BooksInv, PurchasesInv, VisaSteps
  <2>4. ASSUME NEW a \in Callers, NEW at \in VisaSteps, VisaGoes(a, at), at # "credit", visa[a] # "credit",
               balance' = balance, purchases'.bought = purchases.bought
        PROVE  BooksInv'
    <3>1. VisaAt("credit")' = VisaAt("credit")
      BY <2>3, <2>4, VisaMoves
    <3>2. balance' = balance + CardAmount * 0 - UnitCost * 0 - ApiCost * 0
      BY <1>2, <1>8, <2>4
    <3>3. cards' + purchases'.bought = cards + purchases.bought + 0
          /\ VisaAt("credit")' = VisaAt("credit") + 0 - 0
      BY <1>2, <1>3, <2>2, <2>4, <3>1
    <3> QED BY <1>1, <1>5, <2>1, <2>2, <3>2, <3>3, BooksMove
  <2>5. ASSUME NEW a \in Callers, AskVisa(a) \/ Invoice(a) PROVE BooksInv'
    <3>1. PICK at \in {"charge", "idle"} :
            VisaGoes(a, at) /\ UNCHANGED <<balance, purchases>> /\ visa[a] # "credit"
      BY <2>5 DEF AskVisa, Invoice
    <3> QED BY <2>3, <2>4, <3>1
  <2>6. ASSUME NEW a \in Callers, ChargeCard(a) PROVE BooksInv'
    <3>1. PICK at \in {"record", "idle"} :
            /\ VisaGoes(a, at) /\ balance' = balance /\ visa[a] # "credit"
            /\ \/ MoneyTaken \/ UNCHANGED purchases
               \/ purchases' = [purchases EXCEPT !.waiting = @ + 1]
      BY <2>6 DEF ChargeCard
    <3>2. purchases'.bought = purchases.bought
      BY <1>2, <3>1 DEF MoneyTaken, Tally
    <3> QED BY <2>3, <2>4, <3>1, <3>2
  <2>7. ASSUME NEW a \in Callers, RecordPayment(a) PROVE BooksInv'
    <3>1. /\ visa[a] = "record" /\ VisaGoes(a, "credit") /\ balance' = balance
          /\ purchases' = [purchases EXCEPT !.bought = @ + 1]
      BY <2>7 DEF RecordPayment
    <3>2. purchases'.bought = purchases.bought + 1
      BY <1>2, <3>1 DEF Tally
    <3>3. VisaAt("credit")' = VisaAt("credit") + 1
      BY <2>3, <3>1, VisaMoves
    <3>4. balance' = balance + CardAmount * 0 - UnitCost * 0 - ApiCost * 0
      BY <1>2, <1>8, <3>1
    <3>5. cards' + purchases'.bought = cards + purchases.bought + 1
          /\ VisaAt("credit")' = VisaAt("credit") + 1 - 0
      BY <1>2, <1>3, <2>2, <3>2, <3>3
    <3> QED BY <1>1, <1>5, <2>1, <2>2, <3>4, <3>5, BooksMove
  <2>8. ASSUME NEW a \in Callers, CreditPayment(a) PROVE BooksInv'
    <3>1. /\ visa[a] = "credit" /\ VisaGoes(a, "invoice") /\ balance' = balance + CardAmount
          /\ UNCHANGED purchases
      BY <2>8 DEF CreditPayment
    <3>2. VisaAt("credit")' = VisaAt("credit") - 1
      BY <2>3, <3>1, VisaMoves
    <3>3. balance' = balance + CardAmount * 1 - UnitCost * 0 - ApiCost * 0
      BY <1>2, <1>8, <3>1
    <3>4. cards' + purchases'.bought = cards + purchases.bought + 0
          /\ VisaAt("credit")' = VisaAt("credit") + 0 - 1
      BY <1>2, <1>3, <2>2, <3>1, <3>2
    <3> QED BY <1>1, <1>5, <2>1, <2>2, <3>3, <3>4, BooksMove
  <2>9. ASSUME NEW a \in Callers, VisaFails(a) PROVE BooksInv'
    <3>1. VisaGoes(a, "idle") /\ UNCHANGED <<balance, purchases>> /\ (Fault \/ Crash)
      BY <2>9 DEF VisaFails
    <3>2. CASE visa[a] # "credit"
      BY <2>3, <2>4, <3>1, <3>2
    <3>3. CASE visa[a] = "credit"
      <4>1. VisaAt("credit")' = VisaAt("credit") - 1
        BY <2>3, <3>1, <3>3, VisaMoves
      <4>2. balance' = balance + CardAmount * 0 - UnitCost * 0 - ApiCost * 0
        BY <1>2, <1>8, <3>1
      <4>3. cards' + purchases'.bought = cards + purchases.bought + 0
        BY <1>2, <2>2, <3>1
      <4>4. Failures' = Failures + 1
        BY <1>5, <2>1, <3>1
      <4> QED BY <1>1, <1>5, <2>1, <2>2, <4>1, <4>2, <4>3, <4>4, BooksMove
    <3> QED BY <3>2, <3>3
  <2>10. CASE BankConfirms
    <3>1. /\ UNCHANGED <<visa, balance>>
          /\ purchases' = [purchases EXCEPT !.waiting = @ - 1, !.taken = @ + 1, !.confirmed = @ + 1]
      BY <2>10 DEF BankConfirms
    <3>2. purchases'.bought = purchases.bought /\ VisaAt("credit")' = VisaAt("credit")
      BY <1>2, <3>1 DEF Tally, VisaAt
    <3>3. balance' = balance + CardAmount * 0 - UnitCost * 0 - ApiCost * 0
      BY <1>2, <1>8, <3>1
    <3>4. cards' + purchases'.bought = cards + purchases.bought + 0
          /\ VisaAt("credit")' = VisaAt("credit") + 0 - 0
      BY <1>2, <1>3, <2>2, <3>2
    <3> QED BY <1>1, <1>5, <2>1, <2>2, <3>3, <3>4, BooksMove
  <2> QED BY <1>15, <2>5, <2>6, <2>7, <2>8, <2>9, <2>10 DEF VisaNext, VisaStep
<1>16. CASE Tick \/ UNCHANGED vars
  <2>1. UNCHANGED <<balance, charged, cards, apiPaid, visaVars>> /\ Spends
    BY <1>16 DEF Tick, vars, store, others, automationVars, history, deliveryVars, apiVars, Spends
  <2> QED BY <1>9, <2>1
<1> QED BY <1>10, <1>11, <1>12, <1>13, <1>14, <1>15, <1>16 DEF Next

(* Initially nothing is booked. *)
LEMMA BooksInit == Init => BooksInv
<1> SUFFICES ASSUME Init PROVE BooksInv
  OBVIOUS
<1>1. ApiInv /\ PurchasesInv /\ LateInv /\ world \in Worlds /\ balance = world.credit /\ world.credit \in Nat
  BY ApiInit0, PurchasesInit, LateInit, StoreAssumption DEF Init, StoreInit
<1>2. /\ mem = [e \in Executions |-> [pc |-> "idle", at |-> 0, tags |-> {}]]
      /\ charged = [e \in Executions |-> [n \in Nodes |-> 0]]
      /\ cards = 0 /\ apiPaid = 0 /\ visa = [a \in Callers |-> "idle"]
      /\ purchases = [taken |-> 0, bought |-> 0, waiting |-> 0, confirmed |-> 0]
  BY DEF Init, AutomationsInit, DeliveryInit, ApiInit, VisaInit
<1>3. PlacedInv
  <2>1. 0 \in Nodes
    BY <1>1, StoreAssumption DEF Nodes, Flow
  <2> QED BY <1>1, <1>2, <2>1 DEF PlacedInv, Placed
<1>4. ChargedType
  BY <1>2 DEF ChargedType
<1>5. Spent = 0
  <2>1. IsFiniteSet(Nodes) /\ IsFiniteSet(Executions)
    BY <1>1, <1>4, SpentIsInt, StoreAssumption
  <2>2. ASSUME NEW e \in Executions PROVE Paid(e) = 0
    <3>1. DOMAIN charged[e] = Nodes /\ \A n \in Nodes : charged[e][n] = 0
      BY <1>2
    <3> QED BY <2>1, <3>1, SumOfZeros DEF Paid
  <2> DEFINE f == [e \in Executions |-> Paid(e)]
  <2>3. DOMAIN f = Executions /\ \A e \in Executions : f[e] = 0
    BY <2>2
  <2> HIDE DEF f
  <2>4. SumFunction(f) = 0
    BY <2>1, <2>3, SumOfZeros
  <2> QED BY <2>4 DEF f, Spent
<1>6. VisaAt("credit") = 0
  <2>1. {a \in Callers : visa[a] = "credit"} = {}
    BY <1>2
  <2> QED BY <2>1, FS_EmptySet DEF VisaAt
<1>7. Failures = 0
  <2>1. world.faults \in Nat /\ world.crashes \in Nat
    BY <1>1, StoreAssumption
  <2>2. left = [faults |-> world.faults, crashes |-> world.crashes,
                requests |-> world.requests, deliveries |-> world.deliveries]
    BY DEF Init, StoreInit
  <2> QED BY <2>1, <2>2 DEF Failures
<1>8. CardAmount * 0 = 0 /\ UnitCost * 0 = 0 /\ ApiCost * 0 = 0
  BY StoreAssumption
<1>9. Missing = 0
  BY <1>1, <1>2, <1>5, <1>8 DEF Missing
<1>10. BooksBalance
  BY <1>6, <1>7, <1>8, <1>9 DEF BooksBalance, Missing, Spent
<1> QED BY <1>1, <1>2, <1>3, <1>4, <1>10 DEF BooksInv

(* deductAutomationCredit and sendSms take from the credit, processVisa and the
   webhook of card payments add to it, each in a statement of its own beside what
   is written of it.  Whatever interleaves, the credit is what it was, plus the
   payments on record, minus the messages paid for, but for payments that were
   recorded and not credited yet; one is never credited only when a failure came
   between the two. *)
THEOREM BooksStayBalanced == Spec => []BooksBalance
<1>1. BooksInv => BooksBalance
  BY DEF BooksInv
<1> QED BY <1>1, BooksInit, BooksInductive, PTL DEF Spec

-----------------------------------------------------------------------------
(* Imports *)

RowTallies == [success : Nat, duplicates : Nat, errors : Nat]
RowsCounted(t) == t.success + t.duplicates + t.errors
ImportRecord ==
  [st : ImportJob, made : Nat, stalled : BOOLEAN, pc : ImportPC, pos : Nat,
   known : SUBSET UNION {KeysOf(d) : d \in Contacts}, tally : RowTallies]

(* What a request on a contact remembers. *)
FormTypes ==
  /\ DOMAIN form = Callers
  /\ \A a \in Callers : IsForm(form[a]) /\ (form[a].at # "idle" => form[a].contact \in Contacts)

(* An import that remembers r has counted as many rows as it has read.  The keys
   it knows are in the table, and unless a call threw so are, under one of their
   keys, the contacts of the rows it has read. *)
Counting == {"read", "row", "report"}
Held == UNION {KeysOf(d) : d \in present}
TakenTo(f, n) == \A i \in 1..n : Rows(f)[i].contact # None => Taken(Rows(f)[i].contact)
Reading(f, r) ==
  /\ r.known \subseteq Held
  /\ r.pc = "row" => r.pos < Total(f)
  /\ r.pc \in Counting => RowsCounted(r.tally) = r.pos /\ r.pos <= Total(f)
  /\ r.pc = "report" => r.pos = Total(f)
  /\ r.pc \in Counting /\ world.faults = left.faults => TakenTo(f, r.pos)
Reported(f) ==
  /\ \A i \in DOMAIN reports[f] : RowsCounted(reports[f][i]) = Total(f)
  /\ reports[f] # <<>> /\ world.faults = left.faults => TakenTo(f, Total(f))

(* What imports under way count as new is not in a report yet. *)
New(r) == IF r.pc \in Counting THEN r.tally.success ELSE 0
UnderWay == SumFunction([f \in Files |-> New(imp[f])])
AddedContacts == Cardinality(present \ world.present)

ImportTypes ==
  /\ Bounds /\ left.faults <= world.faults
  /\ present \subseteq Contacts /\ world.present \subseteq present
  /\ imp \in [Files -> ImportRecord] /\ reports \in [Files -> Seq(RowTallies)]
  /\ IsFiniteSet(Reports)
ImportInv ==
  /\ ImportTypes /\ FormTypes
  /\ \A f \in Files : Reading(f, imp[f]) /\ Reported(f)
  /\ NewReported + UnderWay <= AddedContacts

(* The rows of a file, none if no such file was uploaded, and how many they are. *)
LEMMA RowsOf ==
  ASSUME world \in Worlds, NEW f
  PROVE  /\ Rows(f) \in Seq([contact : Keyed \cup {None}, tags : SUBSET Tags])
         /\ Total(f) \in Nat /\ DOMAIN Rows(f) = 1..Total(f)
<1> DEFINE R == [contact : Keyed \cup {None}, tags : SUBSET Tags]
<1>1. Rows(f) \in Seq(R)
  <2>1. \A g \in DOMAIN world.files : world.files[g] \in Seq(R)
    BY StoreAssumption
  <2>2. <<>> \in Seq(R)
    OBVIOUS
  <2> HIDE DEF R
  <2> QED BY <2>1, <2>2 DEF Rows
<1> QED BY <1>1 DEF Total

(* The table of contacts only grows, and failures only become more. *)
LEMMA TableGrows ==
  ASSUME ImportTypes, UNCHANGED world, Spends, present \subseteq present', present' \subseteq Contacts
  PROVE  /\ Bounds' /\ (left.faults <= world.faults)' /\ (world.present \subseteq present)'
         /\ Held \subseteq Held'
         /\ \A c : Taken(c) => Taken(c)'
         /\ (world.faults = left.faults)' => world.faults = left.faults
         /\ AddedContacts \in Nat /\ AddedContacts' \in Nat /\ AddedContacts <= AddedContacts'
         /\ \A f : Total(f)' = Total(f) /\ Rows(f)' = Rows(f)
<1>1. Bounds'
  BY FailuresGrow DEF ImportTypes
<1>2. world.faults \in Nat
  BY StoreAssumption DEF ImportTypes, Bounds
<1>3. left'.faults <= left.faults /\ left'.faults \in Nat /\ left.faults \in Nat
  BY <1>1 DEF ImportTypes, Bounds, Spends, Fault, Crash, Request, Delivery
<1>4. Held \subseteq Held' /\ \A c : Taken(c) => Taken(c)'
  BY DEF Held, Taken
<1>5. AddedContacts \in Nat /\ AddedContacts' \in Nat /\ AddedContacts <= AddedContacts'
  <2>1. IsFiniteSet((present \ world.present)')
    BY FS_Subset, StoreAssumption
  <2>2. present \ world.present \in SUBSET (present \ world.present)'
    OBVIOUS
  <2> QED BY <2>1, <2>2, FS_Subset, FS_CardinalityType DEF AddedContacts
<1>6. \A f : Total(f)' = Total(f) /\ Rows(f)' = Rows(f)
  BY DEF Total, Rows
<1>7. (left.faults <= world.faults)' /\ ((world.faults = left.faults)' => world.faults = left.faults)
  BY <1>2, <1>3 DEF ImportTypes
<1> QED BY <1>1, <1>4, <1>5, <1>6, <1>7 DEF ImportTypes

(* What holds of an import and of its reports is not lost when it does nothing. *)
LEMMA ReadingStays ==
  ASSUME ImportTypes, UNCHANGED world, Spends, present \subseteq present', present' \subseteq Contacts,
         NEW f \in Files
  PROVE  /\ \A r : Reading(f, r) => Reading(f, r)'
         /\ Reported(f) /\ UNCHANGED reports[f] => Reported(f)'
<1>1. /\ Held \subseteq Held'
      /\ \A c : Taken(c) => Taken(c)'
      /\ (world.faults = left.faults)' => world.faults = left.faults
      /\ Total(f)' = Total(f) /\ Rows(f)' = Rows(f)
  BY TableGrows
<1>2. \A n : TakenTo(f, n) => TakenTo(f, n)'
  BY <1>1 DEF TakenTo
<1> QED BY <1>1, <1>2 DEF Reading, Reported

(* What reports and imports count as new are numbers. *)
LEMMA SumsAreNumbers ==
  ASSUME ImportTypes
  PROVE  /\ [r \in Reports |-> reports[r[1]][r[2]].success] \in [Reports -> Int]
         /\ [f \in Files |-> New(imp[f])] \in [Files -> Int]
         /\ NewReported \in Int /\ UnderWay \in Int
<1>1. ASSUME NEW r \in Reports PROVE reports[r[1]][r[2]].success \in Int
  <2>1. PICK f \in Files : r \in {f} \X DOMAIN reports[f]
    BY DEF Reports
  <2>2. r[1] = f /\ r[2] \in DOMAIN reports[f]
    BY <2>1
  <2>3. reports[f] \in Seq(RowTallies)
    BY DEF ImportTypes
  <2>4. reports[f][r[2]] \in RowTallies
    BY <2>2, <2>3
  <2> QED BY <2>2, <2>4 DEF RowTallies
<1>2. ASSUME NEW f \in Files PROVE New(imp[f]) \in Int
  BY DEF ImportTypes, ImportRecord, RowTallies, New
<1>3. [r \in Reports |-> reports[r[1]][r[2]].success] \in [Reports -> Int]
  BY <1>1
<1>4. [f \in Files |-> New(imp[f])] \in [Files -> Int]
  BY <1>2
<1>5. IsFiniteSet(Files) /\ IsFiniteSet(Reports)
  BY StoreAssumption DEF ImportTypes
<1> QED BY <1>3, <1>4, <1>5, SumIsInt DEF NewReported, UnderWay

(* A step that leaves imports and reports alone, and takes no contact from the table,
   keeps what holds of them. *)
LEMMA ImportElsewhere ==
  ASSUME ImportInv, UNCHANGED <<world, imp, reports>>, Spends, FormTypes',
         present \subseteq present', present' \subseteq Contacts
  PROVE  ImportInv'
<1>1. ImportTypes'
  BY TableGrows DEF ImportInv, ImportTypes, Reports
<1>2. \A f \in Files : (Reading(f, imp[f]) /\ Reported(f))'
  BY ReadingStays DEF ImportInv
<1>3. NewReported' = NewReported /\ UnderWay' = UnderWay
  BY DEF NewReported, Reports, UnderWay
<1>4. (NewReported + UnderWay <= AddedContacts)'
  <2>1. NewReported \in Int /\ UnderWay \in Int
    BY SumsAreNumbers DEF ImportInv
  <2>2. AddedContacts \in Nat /\ AddedContacts' \in Nat /\ AddedContacts <= AddedContacts'
    BY TableGrows DEF ImportInv
  <2> QED BY <1>3, <2>1, <2>2 DEF ImportInv
<1> QED BY <1>1, <1>2, <1>4 DEF ImportInv

(* The import of f goes on and remembers r; its reports stay or get another one. *)
LEMMA ImportMoves ==
  ASSUME ImportInv, UNCHANGED <<world, form>>, Spends,
         present \subseteq present', present' \subseteq Contacts,
         NEW f \in Files, NEW r \in ImportRecord, imp' = [imp EXCEPT ![f] = r],
         Reading(f, r)',
         reports' \in [Files -> Seq(RowTallies)], IsFiniteSet(Reports'), Reported(f)',
         \A g \in Files \ {f} : reports'[g] = reports[g],
         NewReported' \in Int,
         NewReported' + New(r) - NewReported - New(imp[f]) <= AddedContacts' - AddedContacts
  PROVE  ImportInv'
<1>1. imp \in [Files -> ImportRecord] /\ imp' \in [Files -> ImportRecord]
  BY DEF ImportInv, ImportTypes
<1>2. ImportTypes' /\ FormTypes'
  <2>1. FormTypes'
    BY DEF ImportInv, FormTypes, IsForm
  <2>2. /\ Bounds' /\ (left.faults <= world.faults)' /\ (world.present \subseteq present)'
    BY TableGrows DEF ImportInv
  <2> QED BY <1>1, <2>1, <2>2 DEF ImportTypes
<1>3. ASSUME NEW g \in Files PROVE (Reading(g, imp[g]) /\ Reported(g))'
  <2>1. CASE g = f
    BY <1>1, <2>1
  <2>2. CASE g # f
    <3>1. imp'[g] = imp[g] /\ reports'[g] = reports[g] /\ Reading(g, imp[g]) /\ Reported(g)
      BY <1>1, <2>2 DEF ImportInv
    <3> QED BY <3>1, ReadingStays DEF ImportInv
  <2> QED BY <2>1, <2>2
<1>4. (NewReported + UnderWay <= AddedContacts)'
  <2> DEFINE h == [g \in Files |-> New(imp[g])]
             k == [g \in Files |-> New(imp'[g])]
  <2>1. h \in [Files -> Int] /\ NewReported \in Int /\ UnderWay \in Int
    BY SumsAreNumbers DEF ImportInv
  <2>2. k \in [Files -> Int]
    BY <1>1, SMTT(30) DEF ImportRecord, RowTallies, New
  <2>3. h[f] = New(imp[f]) /\ k[f] = New(r) /\ \A g \in Files \ {f} : k[g] = h[g]
    BY <1>1, SMTT(30)
  <2>4. UnderWay = SumFunction(h) /\ UnderWay' = SumFunction(k)
    BY DEF UnderWay, New
  <2> HIDE DEF h, k
  <2>5. UnderWay' = UnderWay + New(r) - New(imp[f]) /\ UnderWay' \in Int
    <3>1. IsFiniteSet(Files)
      BY StoreAssumption
    <3>2. SumFunction(k) \in Int /\ SumFunction(k) = SumFunction(h) + k[f] - h[f]
      BY <2>1, <2>2, <2>3, <3>1, SumChanges, ZenonT(60)
    <3> QED BY <2>3, <2>4, <3>2, SMTT(30)
  <2>6. AddedContacts \in Nat /\ AddedContacts' \in Nat
    BY TableGrows DEF ImportInv
  <2>7. New(r) \in Int /\ New(imp[f]) \in Int
    BY <2>1, <2>2, <2>3
  <2>8. NewReported + UnderWay <= AddedContacts
    BY DEF ImportInv
  <2>9. NewReported' + New(r) - NewReported - New(imp[f]) <= AddedContacts' - AddedContacts
    OBVIOUS
  <2>10. NewReported' \in Int
    OBVIOUS
  <2> DEFINE a == NewReported  b == UnderWay  x == New(r)  y == New(imp[f])
             m == AddedContacts  p == NewReported'  q == UnderWay'  n == AddedContacts'
  <2>11. a + b <= m /\ p + x - a - y <= n - m /\ q = b + x - y
    BY <2>5, <2>8, <2>9
  <2>12. a \in Int /\ b \in Int /\ x \in Int /\ y \in Int
    BY <2>1, <2>7
  <2>13. m \in Int /\ n \in Int /\ p \in Int /\ q \in Int
    BY <2>5, <2>6, <2>10
  <2> HIDE DEF a, b, x, y, m, n, p, q
  <2>14. p + q <= n
    BY <2>11, <2>12, <2>13
  <2> QED BY <2>14 DEF p, q, n
<1> QED BY <1>2, <1>3, <1>4 DEF ImportInv

(* So it is when it writes no report: what it counts as new is what was added. *)
LEMMA ImportReads ==
  ASSUME ImportInv, UNCHANGED <<world, form, reports>>, Spends,
         present \subseteq present', present' \subseteq Contacts,
         NEW f \in Files, NEW r \in ImportRecord, imp' = [imp EXCEPT ![f] = r],
         Reading(f, r)',
         New(r) - New(imp[f]) <= AddedContacts' - AddedContacts
  PROVE  ImportInv'
<1>1. Reports' = Reports /\ NewReported' = NewReported
  BY DEF Reports, NewReported
<1>2. /\ IsFiniteSet(Reports) /\ NewReported \in Int /\ New(imp[f]) \in Int
      /\ reports \in [Files -> Seq(RowTallies)]
  BY SumsAreNumbers DEF ImportInv, ImportTypes
<1>3. Reported(f)'
  BY ReadingStays DEF ImportInv
<1>4. AddedContacts \in Nat /\ AddedContacts' \in Nat
  BY TableGrows DEF ImportInv
<1>5. New(r) \in Int
  BY DEF ImportRecord, RowTallies, New
<1>6. NewReported' + New(r) - NewReported - New(imp[f]) <= AddedContacts' - AddedContacts
  BY <1>1, <1>2, <1>4, <1>5
<1> QED BY <1>1, <1>2, <1>3, <1>6, ImportMoves

(* What an import that reads nothing at the moment remembers does not matter. *)
LEMMA ImportRests ==
  ASSUME ImportInv, UNCHANGED <<world, form, reports, present>>, Spends,
         NEW f \in Files, NEW r \in ImportRecord, imp' = [imp EXCEPT ![f] = r],
         r.known = imp[f].known, r.pc \notin Counting
  PROVE  ImportInv'
<1>1. Reading(f, imp[f]) /\ imp[f] \in ImportRecord
  BY DEF ImportInv, ImportTypes
<1>2. Reading(f, r)'
  BY <1>1 DEF Reading, Counting, Held
<1>3. New(r) = 0 /\ New(imp[f]) \in Nat
  BY <1>1 DEF New, ImportRecord, RowTallies
<1>4. AddedContacts' = AddedContacts /\ AddedContacts \in Nat
  BY TableGrows DEF ImportInv, ImportTypes, AddedContacts
<1>5. New(r) - New(imp[f]) <= AddedContacts' - AddedContacts
  BY <1>3, <1>4
<1>6. present \subseteq present' /\ present' \subseteq Contacts
  BY DEF ImportInv, ImportTypes
<1> QED BY <1>2, <1>5, <1>6, ImportReads

(* An import does not go on reading. *)
LEMMA ImportsLeave ==
  ASSUME ImportInv, NEW f \in Files,
         ImportEnds(f) \/ ImportThrows(f) \/ ImportDies(f)
  PROVE  ImportInv'
<1>0. UNCHANGED <<world, form>> /\ Spends
  BY ImportSpends, ImportFrame DEF ImportNext, ImportStep, Apart, bookVars
<1>1. imp[f] \in ImportRecord
  BY DEF ImportInv, ImportTypes
<1>2. ASSUME NEW x \in ImportJob, NEW m \in Nat, NEW b \in BOOLEAN,
             imp' = [imp EXCEPT ![f] = [imp[f] EXCEPT !.st = x, !.made = m, !.stalled = b, !.pc = "idle"]],
             UNCHANGED <<present, reports>>
      PROVE  ImportInv'
  <2> DEFINE r == [imp[f] EXCEPT !.st = x, !.made = m, !.stalled = b, !.pc = "idle"]
  <2>1. r \in ImportRecord /\ r.known = imp[f].known /\ r.pc \notin Counting
    BY <1>1 DEF ImportRecord, ImportPC, Counting
  <2>2. imp' = [imp EXCEPT ![f] = r]
    BY <1>2
  <2> HIDE DEF r
  <2> QED BY <1>0, <1>2, <2>1, <2>2, ImportRests
<1>3. imp[f].st \in ImportJob /\ imp[f].made \in Nat /\ imp[f].stalled \in BOOLEAN
  BY <1>1 DEF ImportRecord
<1>4. {"waiting", "done", "failed"} \subseteq ImportJob
  BY DEF ImportJob
<1>5. imp \in [Files -> ImportRecord]
  BY DEF ImportInv, ImportTypes
<1>6. CASE ImportEnds(f)
  <2>1. PICK x \in ImportJob : x = "done"
    BY <1>4
  <2>2. imp' = [imp EXCEPT ![f] = [imp[f] EXCEPT !.st = x, !.made = imp[f].made, !.stalled = imp[f].stalled, !.pc = "idle"]]
    BY <1>1, <1>5, <1>6, <2>1 DEF ImportEnds, ImportRecord
  <2>3. UNCHANGED <<present, reports>>
    BY <1>6 DEF ImportEnds
  <2> QED BY <1>2, <1>3, <2>2, <2>3
<1>7. CASE ImportThrows(f)
  <2>1. PICK x \in ImportJob, m \in Nat :
          x = (IF imp[f].made + 1 < Attempts THEN "waiting" ELSE "failed") /\ m = imp[f].made + 1
    BY <1>3, <1>4
  <2>2. imp' = [imp EXCEPT ![f] = [imp[f] EXCEPT !.st = x, !.made = m, !.stalled = imp[f].stalled, !.pc = "idle"]]
    BY <1>1, <1>5, <1>7, <2>1 DEF ImportThrows, ImportRecord
  <2>3. UNCHANGED <<present, reports>>
    BY <1>7 DEF ImportThrows
  <2> QED BY <1>2, <1>3, <2>2, <2>3
<1>8. CASE ImportDies(f)
  <2> DEFINE x == IF imp[f].stalled THEN "failed" ELSE "waiting"
  <2>1. imp' = [imp EXCEPT ![f] = [imp[f] EXCEPT !.st = x, !.made = imp[f].made, !.stalled = TRUE, !.pc = "idle"]]
    BY <1>1, <1>5, <1>8 DEF ImportDies, ImportRecord
  <2>2. x \in ImportJob
    BY <1>4
  <2>3. UNCHANGED <<present, reports>>
    BY <1>8 DEF ImportDies
  <2> HIDE DEF x
  <2> QED BY <1>2, <1>3, <2>1, <2>2, <2>3
<1> QED BY <1>6, <1>7, <1>8

(* An import starts, or reads the keys of a batch. *)
LEMMA ImportBatches ==
  ASSUME ImportInv, NEW f \in Files, TakeFile(f) \/ ReadBatch(f)
  PROVE  ImportInv'
<1>0. UNCHANGED <<world, form, reports, present>> /\ Spends
  <2>1. UNCHANGED <<world, form>> /\ Spends
    BY ImportSpends, ImportFrame DEF ImportNext, ImportStep, Apart, bookVars
  <2> QED BY <2>1 DEF TakeFile, ReadBatch
<1>1. imp[f] \in ImportRecord /\ imp \in [Files -> ImportRecord] /\ Reading(f, imp[f])
  BY DEF ImportInv, ImportTypes
<1>2. present \subseteq present' /\ present' \subseteq Contacts /\ Held' = Held
      /\ AddedContacts' = AddedContacts /\ AddedContacts \in Nat
  BY <1>0, TableGrows DEF ImportInv, ImportTypes, Held, AddedContacts
<1>3. Total(f)' = Total(f) /\ Rows(f)' = Rows(f) /\ Total(f) \in Nat
  BY <1>0, <1>2, TableGrows, RowsOf DEF ImportInv, ImportTypes, Bounds
<1>4. New(imp[f]) \in Nat
  BY <1>1 DEF New, ImportRecord, RowTallies
<1>5. CASE TakeFile(f)
  <2>0. PICK r : r = [imp[f] EXCEPT !.st = "active", !.pc = "read", !.pos = 0, !.tally = NoTally]
    OBVIOUS
  <2>1. imp' = [imp EXCEPT ![f] = r]
    BY <1>1, <1>5, <2>0 DEF TakeFile, ImportRecord
  <2>2. r \in ImportRecord
    BY <1>1, <2>0 DEF ImportRecord, RowTallies, NoTally, ImportPC, ImportJob
  <2>3. r.pc = "read" /\ r.pos = 0 /\ r.tally = NoTally /\ r.known = imp[f].known
    BY <1>1, <2>0 DEF ImportRecord
  <2>4. Reading(f, r)'
    BY <1>1, <1>2, <1>3, <2>3 DEF Reading, RowsCounted, NoTally, TakenTo
  <2>5. New(r) - New(imp[f]) <= AddedContacts' - AddedContacts
    BY <1>2, <1>4, <2>3 DEF New, NoTally, Counting
  <2> QED BY <1>0, <1>2, <2>1, <2>2, <2>4, <2>5, ImportReads
<1>6. ASSUME ReadBatch(f), imp' = [imp EXCEPT ![f].pc = "throw"] PROVE ImportInv'
  <2> DEFINE r == [imp[f] EXCEPT !.pc = "throw"]
  <2>1. imp' = [imp EXCEPT ![f] = r]
    BY <1>1, <1>6
  <2>2. r \in ImportRecord /\ r.known = imp[f].known /\ r.pc \notin Counting
    BY <1>1 DEF ImportRecord, ImportPC, Counting
  <2> HIDE DEF r
  <2> QED BY <1>0, <2>1, <2>2, ImportRests
<1>7. ASSUME imp[f].pc = "read",
             imp' = [imp EXCEPT ![f].pc = IF imp[f].pos < Total(f) THEN "row" ELSE "report",
                                ![f].known = Existing(f)]
      PROVE  ImportInv'
  <2>0. PICK r : r = [imp[f] EXCEPT !.pc = IF imp[f].pos < Total(f) THEN "row" ELSE "report",
                                    !.known = Existing(f)]
    OBVIOUS
  <2>1. imp' = [imp EXCEPT ![f] = r]
    BY <1>1, <1>7, <2>0
  <2>2. Existing(f) \subseteq Held /\ Existing(f) \subseteq UNION {KeysOf(d) : d \in Contacts}
    BY <1>0, <1>2 DEF Existing, Held
  <2>3. r \in ImportRecord
    BY <1>1, <2>0, <2>2 DEF ImportRecord, ImportPC
  <2>4. /\ r.known = Existing(f) /\ r.pos = imp[f].pos /\ r.tally = imp[f].tally
        /\ r.pc = (IF imp[f].pos < Total(f) THEN "row" ELSE "report")
    BY <1>1, <2>0 DEF ImportRecord
  <2>5. imp[f].pos \in Nat /\ RowsCounted(imp[f].tally) = imp[f].pos /\ imp[f].pos <= Total(f)
        /\ (world.faults = left.faults => TakenTo(f, imp[f].pos))
    BY <1>1, <1>7 DEF Reading, Counting, ImportRecord
  <2>6. (world.faults = left.faults)' => TakenTo(f, imp[f].pos)
    BY <1>0, <1>2, <2>5, TableGrows DEF ImportInv
  <2>7. \A n : TakenTo(f, n) => TakenTo(f, n)'
    BY <1>0, <1>3 DEF TakenTo, Taken
  <2>8. Reading(f, r)'
    BY <1>2, <1>3, <2>2, <2>4, <2>5, <2>6, <2>7 DEF Reading
  <2>9. New(r) = New(imp[f])
    BY <1>7, <2>4 DEF New, Counting
  <2>10. New(r) - New(imp[f]) <= AddedContacts' - AddedContacts
    BY <1>2, <1>4, <2>9
  <2> QED BY <1>0, <1>2, <2>1, <2>3, <2>8, <2>10, ImportReads
<1> QED BY <1>5, <1>6, <1>7 DEF ReadBatch

(* A row is counted.  Its keys are known, and it is in the table unless a call
   threw; a contact that is counted as new was added. *)
LEMMA RowCounted ==
  ASSUME ImportInv, NEW f \in Files, imp[f].pc = "row",
         UNCHANGED <<world, form, reports>>, Spends,
         present \subseteq present', present' \subseteq Contacts,
         NEW kind \in {"success", "duplicates", "errors"}, NEW keys, Counted(f, kind, keys),
         keys \subseteq Held',
         NEW c, c = RowOf(f).contact, (world.faults = left.faults)' /\ c # None => Taken(c)',
         kind = "success" => AddedContacts' = AddedContacts + 1
  PROVE  ImportInv'
<1>1. imp[f] \in ImportRecord /\ imp \in [Files -> ImportRecord] /\ Reading(f, imp[f])
  BY DEF ImportInv, ImportTypes
<1>2. /\ AddedContacts \in Nat /\ AddedContacts' \in Nat /\ AddedContacts <= AddedContacts'
      /\ Held \subseteq Held' /\ \A d : Taken(d) => Taken(d)'
      /\ Total(f)' = Total(f) /\ Rows(f)' = Rows(f)
      /\ ((world.faults = left.faults)' => world.faults = left.faults)
  BY TableGrows DEF ImportInv
<1>3. Total(f) \in Nat
  BY RowsOf DEF ImportInv, ImportTypes, Bounds
<1>4. PICK t, p, pc, k :
        /\ t = [imp[f].tally EXCEPT ![kind] = @ + 1] /\ p = imp[f].pos + 1
        /\ pc = (IF (imp[f].pos + 1) % BatchSize = 0 \/ imp[f].pos + 1 = Total(f) THEN "read" ELSE "row")
        /\ k = imp[f].known \cup keys
  OBVIOUS
<1>5. PICK r : r = [imp[f] EXCEPT !.tally = t, !.known = k, !.pos = p, !.pc = pc]
  OBVIOUS
<1>6. imp' = [imp EXCEPT ![f] = r]
  BY <1>1, <1>4, <1>5 DEF Counted, ImportRecord, RowTallies
<1>7. /\ imp[f].pos \in Nat /\ imp[f].pos < Total(f) /\ RowsCounted(imp[f].tally) = imp[f].pos
      /\ (world.faults = left.faults => TakenTo(f, imp[f].pos))
  BY <1>1 DEF Reading, Counting, ImportRecord
<1>8. /\ t \in RowTallies /\ RowsCounted(t) = RowsCounted(imp[f].tally) + 1
      /\ t.success = imp[f].tally.success + (IF kind = "success" THEN 1 ELSE 0)
      /\ imp[f].tally.success \in Nat
  <2>1. imp[f].tally \in RowTallies
    BY <1>1 DEF ImportRecord
  <2> QED BY <1>4, <2>1 DEF RowTallies, RowsCounted
<1>9. k \subseteq Held' /\ k \subseteq UNION {KeysOf(d) : d \in Contacts}
  <2>1. k \subseteq Held'
    BY <1>1, <1>2, <1>4 DEF Reading
  <2> QED BY <2>1 DEF Held
<1>10. p \in Nat /\ p <= Total(f) /\ pc \in {"read", "row"} /\ (pc = "row" => p < Total(f))
  BY <1>3, <1>4, <1>7
<1>11. (world.faults = left.faults)' => TakenTo(f, p)'
  <2> SUFFICES ASSUME (world.faults = left.faults)', NEW i \in 1..p, NEW d, d = Rows(f)[i].contact, d # None
               PROVE  Taken(d)'
    BY <1>2 DEF TakenTo
  <2>1. CASE i \in 1..imp[f].pos
    BY <1>2, <1>7, <2>1 DEF TakenTo
  <2>2. CASE i = p
    BY <1>4, <2>2 DEF RowOf
  <2> QED BY <1>4, <1>7, <2>1, <2>2
<1>12. r \in ImportRecord
  BY <1>1, <1>5, <1>8, <1>9, <1>10 DEF ImportRecord, ImportPC
<1>13. r.tally = t /\ r.known = k /\ r.pos = p /\ r.pc = pc
  BY <1>1, <1>5 DEF ImportRecord
<1>14. RowsCounted(t) = p
  BY <1>4, <1>7, <1>8
<1>15. Reading(f, r)'
  BY <1>2, <1>9, <1>10, <1>11, <1>13, <1>14 DEF Reading
<1>16. New(r) = t.success /\ New(imp[f]) = imp[f].tally.success
  BY <1>10, <1>13 DEF New, Counting
<1>17. New(r) - New(imp[f]) <= AddedContacts' - AddedContacts
  BY <1>2, <1>8, <1>16
<1> QED BY <1>6, <1>12, <1>15, <1>17, ImportReads

(* A contact that was added had no row before: one that has a key in common with
   it is in the table. *)
LEMMA ContactAdded ==
  ASSUME ImportTypes, NEW c \in Keyed, ~Taken(c), present' = present \cup {c}, UNCHANGED world
  PROVE  /\ c \notin present /\ present' \subseteq Contacts
         /\ AddedContacts' = AddedContacts + 1
         /\ KeysOf(c) \subseteq Held' /\ Taken(c)'
<1>1. KeysOf(c) # {} /\ c \in Contacts
  BY DEF Keyed, KeysOf
<1>2. c \notin present
  BY <1>1 DEF Taken
<1>3. present' \subseteq Contacts /\ KeysOf(c) \subseteq Held' /\ Taken(c)'
  BY <1>1 DEF ImportTypes, Held, Taken
<1>4. AddedContacts' = AddedContacts + 1
  <2>1. IsFiniteSet(present \ world.present) /\ c \notin present \ world.present
    BY <1>2, FS_Subset, StoreAssumption DEF ImportTypes
  <2>2. (present \ world.present)' = (present \ world.present) \cup {c}
    BY <1>2 DEF ImportTypes
  <2> QED BY <2>1, <2>2, FS_AddElement DEF AddedContacts
<1> QED BY <1>2, <1>3, <1>4

(* The row an import is at. *)
LEMMA RowType ==
  ASSUME ImportInv, NEW f \in Files, imp[f].pc = "row"
  PROVE  RowOf(f).contact \in Keyed \cup {None} /\ RowOf(f).tags \subseteq Tags
<1>1. /\ Rows(f) \in Seq([contact : Keyed \cup {None}, tags : SUBSET Tags])
      /\ Total(f) \in Nat /\ DOMAIN Rows(f) = 1..Total(f)
  BY RowsOf DEF ImportInv, ImportTypes, Bounds
<1>2. imp[f].pos \in Nat /\ imp[f].pos < Total(f)
  BY DEF ImportInv, ImportTypes, Reading, ImportRecord
<1>3. imp[f].pos + 1 \in DOMAIN Rows(f)
  BY <1>1, <1>2
<1>4. RowOf(f) \in [contact : Keyed \cup {None}, tags : SUBSET Tags]
  <2> DEFINE R == [contact : Keyed \cup {None}, tags : SUBSET Tags]
  <2>1. Rows(f) \in Seq(R) /\ imp[f].pos + 1 \in DOMAIN Rows(f)
    BY <1>1, <1>3
  <2> HIDE DEF R
  <2>2. Rows(f)[imp[f].pos + 1] \in R
    BY <2>1
  <2> QED BY <2>2 DEF R, RowOf
<1> QED BY <1>4

(* A row of processBatch keeps the invariant, whether it is counted as an error, a
   duplicate or a success, and whether or not a concurrent import took the number first. *)
LEMMA ImportRows ==
  ASSUME ImportInv, NEW f \in Files, InvalidRow(f) \/ DuplicateRow(f) \/ NewRow(f)
  PROVE  ImportInv'
<1>0. UNCHANGED <<world, form, reports>> /\ Spends
  <2>1. UNCHANGED <<world, form>> /\ Spends
    BY ImportSpends, ImportFrame DEF ImportNext, ImportStep, Apart, bookVars
  <2> QED BY <2>1 DEF InvalidRow, DuplicateRow, NewRow
<1>1. PICK c : c = RowOf(f).contact
  OBVIOUS
<1>2. imp[f].pc = "row"
  BY DEF InvalidRow, DuplicateRow, NewRow
<1>3. c \in Keyed \cup {None} /\ present \subseteq Contacts /\ ImportTypes
  BY <1>1, <1>2, RowType DEF ImportInv, ImportTypes
<1>4. ASSUME UNCHANGED present, NEW kind \in {"duplicates", "errors"}, Counted(f, kind, {}),
             (world.faults = left.faults)' /\ c # None => Taken(c)
      PROVE  ImportInv'
  <2>1. Taken(c) => Taken(c)'
    BY <1>4 DEF Taken
  <2>2. kind \in {"success", "duplicates", "errors"} /\ kind # "success" /\ {} \subseteq Held'
    BY <1>4
  <2> QED BY <1>0, <1>1, <1>2, <1>3, <1>4, <2>1, <2>2, RowCounted
<1>5. CASE InvalidRow(f)
  BY <1>1, <1>4, <1>5 DEF InvalidRow
<1>6. CASE DuplicateRow(f)
  <2>1. Taken(c)
    <3>1. KeysOf(c) \cap imp[f].known # {} /\ imp[f].known \subseteq Held
      BY <1>1, <1>6 DEF DuplicateRow, Duplicate, ImportInv, Reading
    <3> QED BY <3>1 DEF Held, Taken
  <2>2. UNCHANGED present /\ Counted(f, "duplicates", {})
    BY <1>6 DEF DuplicateRow
  <2> QED BY <1>4, <2>1, <2>2
<1>7. ASSUME NewRow(f), ~Taken(c), present' = present \cup {c}, Counted(f, "success", KeysOf(c))
      PROVE  ImportInv'
  <2>1. c \in Keyed
    BY <1>1, <1>3, <1>7 DEF NewRow
  <2>2. present' \subseteq Contacts /\ AddedContacts' = AddedContacts + 1
        /\ KeysOf(c) \subseteq Held' /\ Taken(c)'
    BY <1>0, <1>3, <1>7, <2>1, ContactAdded
  <2> QED BY <1>0, <1>1, <1>2, <1>7, <2>2, RowCounted
<1>8. ASSUME NewRow(f), UNCHANGED present, Counted(f, "errors", {}),
             IF Taken(c) THEN UNCHANGED left ELSE Fault
      PROVE  ImportInv'
  <2>1. (world.faults = left.faults)' => Taken(c)
    <3>1. ASSUME Fault PROVE (world.faults # left.faults)'
      <4>1. {left.faults, world.faults} \subseteq Nat /\ left.faults <= world.faults
            /\ left \in [faults : Nat, crashes : Nat, requests : Nat, deliveries : Nat]
        BY <1>3, StoreAssumption DEF ImportTypes, Bounds
      <4> QED BY <1>0, <3>1, <4>1 DEF Fault
    <3> QED BY <1>8, <3>1
  <2> QED BY <1>4, <1>8, <2>1
<1>9. CASE NewRow(f)
  BY <1>1, <1>7, <1>8, <1>9 DEF NewRow
<1> QED BY <1>5, <1>6, <1>9

(* With a report more, that of f. *)
LEMMA ReportAdded ==
  ASSUME ImportTypes, NEW f \in Files, NEW t \in RowTallies,
         reports' = [reports EXCEPT ![f] = Append(@, t)]
  PROVE  /\ reports' \in [Files -> Seq(RowTallies)] /\ IsFiniteSet(Reports')
         /\ NewReported' \in Int /\ NewReported' = NewReported + t.success
         /\ \A i \in DOMAIN reports'[f] : \/ i \in DOMAIN reports[f] /\ reports'[f][i] = reports[f][i]
                                         \/ reports'[f][i] = t
<1> DEFINE n == Len(reports[f]) + 1
<1>1. /\ reports \in [Files -> Seq(RowTallies)] /\ IsFiniteSet(Reports)
      /\ reports[f] \in Seq(RowTallies) /\ Len(reports[f]) \in Nat /\ DOMAIN reports[f] = 1..Len(reports[f])
  BY DEF ImportTypes
<1>2. /\ reports'[f] = Append(reports[f], t) /\ reports'[f] \in Seq(RowTallies)
      /\ DOMAIN reports'[f] = 1..n /\ reports'[f][n] = t
      /\ \A i \in DOMAIN reports[f] : reports'[f][i] = reports[f][i]
  BY <1>1
<1>3. reports' \in [Files -> Seq(RowTallies)] /\ \A g \in Files \ {f} : reports'[g] = reports[g]
  BY <1>1, <1>2
<1>4. n \in Nat /\ n \notin DOMAIN reports[f] /\ DOMAIN reports'[f] = DOMAIN reports[f] \cup {n}
  BY <1>1, <1>2
<1>5. PICK m : m = n
  OBVIOUS
<1> HIDE DEF n
<1>6. Reports' = Reports \cup {<<f, m>>}
  <2>1. ASSUME NEW x \in Reports' PROVE x \in Reports \cup {<<f, m>>}
    <3>0. PICK g \in Files : \E j \in DOMAIN reports'[g] : x = <<g, j>>
      BY DEF Reports
    <3>1. PICK i \in DOMAIN reports'[g] : x = <<g, i>>
      BY <3>0
    <3>2. CASE g = f
      BY <1>4, <1>5, <3>1, <3>2 DEF Reports
    <3>3. CASE g # f
      BY <1>3, <3>1, <3>3 DEF Reports
    <3> QED BY <3>2, <3>3
  <2>2. ASSUME NEW x \in Reports PROVE x \in Reports'
    <3>0. PICK g \in Files : \E j \in DOMAIN reports[g] : x = <<g, j>>
      BY DEF Reports
    <3>1. PICK i \in DOMAIN reports[g] : x = <<g, i>>
      BY <3>0
    <3>2. i \in DOMAIN reports'[g]
      BY <1>3, <1>4, <3>1
    <3> QED BY <3>1, <3>2 DEF Reports
  <2>3. <<f, m>> \in Reports'
    BY <1>4, <1>5 DEF Reports
  <2> QED BY <2>1, <2>2, <2>3
<1>7. <<f, m>> \notin Reports
  BY <1>4, <1>5 DEF Reports
<1>8. PICK h : h = [x \in Reports |-> reports[x[1]][x[2]].success]
  OBVIOUS
<1>9. PICK k : k = [x \in Reports' |-> reports'[x[1]][x[2]].success]
  OBVIOUS
<1>10. h \in [Reports -> Int] /\ NewReported = SumFunction(h) /\ NewReported' = SumFunction(k)
  BY <1>8, <1>9, SumsAreNumbers DEF NewReported
<1>11. k[<<f, m>>] = t.success /\ t.success \in Int
  <2>1. <<f, m>> \in Reports' /\ reports'[f][m] = t
    BY <1>2, <1>5, <1>6
  <2>2. k[<<f, m>>] = reports'[f][m].success
    BY <1>9, <2>1
  <2>3. t.success \in Int
    BY DEF RowTallies
  <2> QED BY <2>1, <2>2, <2>3
<1>12. ASSUME NEW x \in Reports PROVE k[x] = h[x]
  <2>0. PICK g \in Files : \E j \in DOMAIN reports[g] : x = <<g, j>>
    BY DEF Reports
  <2>1. PICK i \in DOMAIN reports[g] : x = <<g, i>>
    BY <2>0
  <2>2. reports'[g][i] = reports[g][i]
    BY <1>2, <1>3, <2>1
  <2>3. x \in Reports' /\ k[x] = reports'[g][i].success /\ h[x] = reports[g][i].success
    BY <1>6, <1>8, <1>9, <2>1
  <2> QED BY <2>2, <2>3
<1>13. k \in [Reports \cup {<<f, m>>} -> Int]
  <2>1. \A x \in Reports \cup {<<f, m>>} : k[x] \in Int
    BY <1>10, <1>11, <1>12
  <2>2. \A x \in Reports' : reports'[x[1]][x[2]].success \in Int
    BY <1>6, <1>9, <2>1
  <2>3. k \in [Reports' -> Int]
    BY <1>9, <2>2
  <2> QED BY <1>6, <2>3
<1>14. SumFunction(k) \in Int /\ SumFunction(k) = SumFunction(h) + k[<<f, m>>]
  <2>1. PICK a : a = <<f, m>>
    OBVIOUS
  <2>2. a \notin Reports /\ k \in [Reports \cup {a} -> Int]
    BY <1>7, <1>13, <2>1
  <2>3. PICK S : S = Reports
    OBVIOUS
  <2>4. IsFiniteSet(S) /\ a \notin S /\ h \in [S -> Int] /\ \A x \in S : k[x] = h[x]
    BY <1>1, <1>10, <1>12, <2>2, <2>3
  <2>5. PICK U : U = S \cup {a} /\ k \in [U -> Int]
    BY <2>2, <2>3
  <2>6. SumFunction(k) \in Int /\ SumFunction(k) = SumFunction(h) + k[a]
    BY <2>4, <2>5, SumGrows
  <2> QED BY <2>1, <2>6
<1>15. IsFiniteSet(Reports')
  BY <1>1, <1>6, FS_AddElement
<1> QED BY <1>2, <1>3, <1>4, <1>5, <1>10, <1>11, <1>14, <1>15

(* A report is written of a file that was read to its end. *)
LEMMA ImportReports ==
  ASSUME ImportInv, NEW f \in Files, GenerateReport(f)
  PROVE  ImportInv'
<1>0. UNCHANGED <<world, form, present>> /\ Spends
  <2>1. UNCHANGED <<world, form>> /\ Spends
    BY ImportSpends, ImportFrame DEF ImportNext, ImportStep, Apart, bookVars
  <2> QED BY <2>1 DEF GenerateReport
<1>1. /\ imp[f] \in ImportRecord /\ imp \in [Files -> ImportRecord] /\ imp[f].tally \in RowTallies
      /\ Reading(f, imp[f]) /\ Reported(f) /\ ImportTypes
  BY DEF ImportInv, ImportTypes, ImportRecord
<1>2. ASSUME NEW x \in {"return", "throw"}, imp' = [imp EXCEPT ![f].pc = x]
      PROVE  /\ imp' = [imp EXCEPT ![f] = [imp[f] EXCEPT !.pc = x]]
             /\ [imp[f] EXCEPT !.pc = x] \in ImportRecord
             /\ [imp[f] EXCEPT !.pc = x].known = imp[f].known
             /\ [imp[f] EXCEPT !.pc = x].pc \notin Counting
  BY <1>1, <1>2 DEF ImportRecord, ImportPC, Counting
<1>3. ASSUME imp' = [imp EXCEPT ![f].pc = "throw"], UNCHANGED reports PROVE ImportInv'
  <2>1. PICK r \in ImportRecord : r = [imp[f] EXCEPT !.pc = "throw"]
    BY <1>2, <1>3
  <2>2. imp' = [imp EXCEPT ![f] = r] /\ r.known = imp[f].known /\ r.pc \notin Counting
    BY <1>2, <1>3, <2>1
  <2> QED BY <1>0, <1>3, <2>2, ImportRests
<1>4. ASSUME imp' = [imp EXCEPT ![f].pc = "return"],
             reports' = [reports EXCEPT ![f] = Append(@, imp[f].tally)]
      PROVE  ImportInv'
  <2>1. PICK r \in ImportRecord : r = [imp[f] EXCEPT !.pc = "return"]
    BY <1>2, <1>4
  <2>2. imp' = [imp EXCEPT ![f] = r] /\ r.known = imp[f].known /\ r.pc \notin Counting
    BY <1>2, <1>4, <2>1
  <2>3. PICK t \in RowTallies : t = imp[f].tally
    BY <1>1
  <2>4. /\ reports' \in [Files -> Seq(RowTallies)] /\ IsFiniteSet(Reports')
        /\ NewReported' \in Int /\ NewReported' = NewReported + t.success
        /\ \A i \in DOMAIN reports'[f] : \/ i \in DOMAIN reports[f] /\ reports'[f][i] = reports[f][i]
                                         \/ reports'[f][i] = t
        /\ \A g \in Files \ {f} : reports'[g] = reports[g]
    <3>1. reports' = [reports EXCEPT ![f] = Append(@, t)]
      BY <1>4, <2>3
    <3> QED BY <1>1, <3>1, ReportAdded
  <2>5. imp[f].pc = "report" /\ RowsCounted(t) = Total(f) /\ (world.faults = left.faults => TakenTo(f, Total(f)))
    BY <1>1, <2>3 DEF GenerateReport, Reading, Counting
  <2>6. /\ present \subseteq present' /\ present' \subseteq Contacts /\ Held' = Held
        /\ AddedContacts' = AddedContacts
    BY <1>0, <1>1 DEF ImportTypes, Held, AddedContacts
  <2>7. /\ Total(f)' = Total(f) /\ Rows(f)' = Rows(f) /\ AddedContacts \in Nat
        /\ ((world.faults = left.faults)' => world.faults = left.faults)
    BY <1>0, <1>1, <2>6, TableGrows
  <2>8. \A n : TakenTo(f, n) => TakenTo(f, n)'
    BY <1>0, <2>7 DEF TakenTo, Taken
  <2>9. Reading(f, r)'
    BY <1>1, <2>2, <2>6 DEF Reading, Counting
  <2>10. Reported(f)'
    <3>1. \A i \in DOMAIN reports'[f] : RowsCounted(reports'[f][i]) = Total(f)
      BY <1>1, <2>4, <2>5 DEF Reported
    <3>2. (world.faults = left.faults)' => TakenTo(f, Total(f))'
      BY <2>5, <2>7, <2>8 DEF TakenTo
    <3> QED BY <2>7, <3>1, <3>2 DEF Reported
  <2>11. New(r) = 0 /\ New(imp[f]) = t.success /\ t.success \in Nat
    BY <2>2, <2>3, <2>5 DEF New, Counting, RowTallies
  <2>12. NewReported \in Int
    BY <1>1, SumsAreNumbers
  <2>13. NewReported' + New(r) - NewReported - New(imp[f]) <= AddedContacts' - AddedContacts
    BY <2>4, <2>6, <2>7, <2>11, <2>12
  <2> QED BY <1>0, <2>2, <2>4, <2>6, <2>9, <2>10, <2>13, ImportMoves
<1> QED BY <1>3, <1>4 DEF GenerateReport

(* Requests on contacts: only create adds one. *)
LEMMA BookAdds ==
  ASSUME FormTypes, present \subseteq Contacts, BookNext
  PROVE  FormTypes' /\ present \subseteq present' /\ present' \subseteq Contacts
<1>1. ASSUME NEW a \in Callers, NEW r, form' = [form EXCEPT ![a] = r], IsForm(r),
             r.at # "idle" => r.contact \in Contacts
      PROVE  FormTypes'
  BY <1>1 DEF FormTypes, IsForm
<1>2. ASSUME UNCHANGED form PROVE FormTypes'
  BY <1>2 DEF FormTypes, IsForm
<1>3. IsForm(NoForm) /\ NoForm.at = "idle"
  BY DEF IsForm, NoForm
<1>4. ASSUME NEW a \in Callers, FormEnds(a) PROVE FormTypes'
  BY <1>1, <1>3, <1>4 DEF FormEnds
<1>5. ASSUME NEW a \in Callers, NEW x, form[a].at # "idle", FormGoes(a, x) PROVE FormTypes'
  <2>1. form[a].contact \in Contacts /\ IsForm(form[a]) /\ DOMAIN form = Callers
    BY <1>5 DEF FormTypes
  <2>2. PICK r : r = [form[a] EXCEPT !.at = x]
    OBVIOUS
  <2>3. form' = [form EXCEPT ![a] = r]
    BY <1>5, <2>1, <2>2 DEF FormGoes
  <2>4. IsForm(r) /\ r.contact \in Contacts
    BY <2>1, <2>2 DEF IsForm
  <2> QED BY <1>1, <2>3, <2>4
<1>6. ASSUME NEW a \in Callers, FormStep(a)
      PROVE  FormTypes' /\ present \subseteq present' /\ present' \subseteq Contacts
  <2>1. CASE CreateContact(a)
    <3>1. form[a].at # "idle" /\ form[a].contact \in Contacts
      BY <2>1 DEF CreateContact, FormTypes
    <3>2. FormTypes'
      BY <1>4, <1>5, <2>1, <3>1 DEF CreateContact
    <3> QED BY <2>1, <3>1, <3>2 DEF CreateContact
  <2>2. CASE UpdateContact(a)
    BY <1>5, <2>2 DEF UpdateContact
  <2>3. CASE OptOut(a)
    BY <1>4, <2>3 DEF OptOut
  <2>4. CASE Announce(a)
    BY <1>5, <2>4 DEF Announce
  <2>5. CASE MatchNext(a)
    <3>1. PICK found \in BOOLEAN :
            FormEnds(a) \/ form' = [form EXCEPT ![a].at = "before", ![a].hit = found]
      BY <2>5 DEF MatchNext
    <3>2. form[a].at # "idle" /\ UNCHANGED present
      BY <2>5 DEF MatchNext
    <3>3. form[a].contact \in Contacts /\ IsForm(form[a]) /\ DOMAIN form = Callers
      BY <3>2 DEF FormTypes
    <3>4. PICK r : r = [form[a] EXCEPT !.at = "before", !.hit = found]
      OBVIOUS
    <3>5. IsForm(r) /\ r.contact \in Contacts
      BY <3>3, <3>4 DEF IsForm
    <3>6. form' = [form EXCEPT ![a].at = "before", ![a].hit = found] => form' = [form EXCEPT ![a] = r]
      BY <3>3, <3>4
    <3> QED BY <1>1, <1>4, <3>1, <3>2, <3>5, <3>6
  <2>6. CASE MatchBefore(a)
    BY <1>4, <2>6 DEF MatchBefore
  <2> QED BY <1>6, <2>1, <2>2, <2>3, <2>4, <2>5, <2>6 DEF FormStep
<1>7. ASSUME NEW a \in Callers, NEW op, NEW c \in Contacts, NEW T, AskContact(a, op, c, T)
      PROVE  FormTypes' /\ UNCHANGED present
  <2>1. PICK r : r = [op |-> op, at |-> "write", contact |-> c, hit |-> FALSE,
          tags |-> CASE op = "addTags" -> tags[c] \cup T [] op = "optIn" -> {} [] OTHER -> T,
          added |-> IF op = "addTags" THEN T \ tags[c] ELSE {}]
    OBVIOUS
  <2>2. form' = [form EXCEPT ![a] = r] /\ UNCHANGED present
    BY <1>7, <2>1 DEF AskContact
  <2>3. IsForm(r) /\ r.contact \in Contacts
    BY <2>1 DEF IsForm
  <2> QED BY <1>1, <2>2, <2>3
<1>8. ASSUME NEW a \in Callers, FormFails(a) PROVE FormTypes' /\ UNCHANGED present
  BY <1>4, <1>8 DEF FormFails
<1>9. ASSUME NEW b \in Backends, CountStep(b) \/ CountThrows(b) \/ CountDies(b)
      PROVE  UNCHANGED <<form, present>>
  BY <1>9 DEF CountStep, CountThrows, CountDies, TakeRecalculation, CountMatching, WriteCount
<1>10. CASE JobArrives \/ JobIsLost
  BY <1>2, <1>10 DEF JobArrives, JobIsLost
<1> QED BY <1>2, <1>6, <1>7, <1>8, <1>9, <1>10 DEF BookNext

(* Every step of the system keeps the invariant of the imports. *)
LEMMA ImportInductive == ImportInv /\ [Next]_vars => ImportInv'
<1> SUFFICES ASSUME ImportInv, [Next]_vars PROVE ImportInv'
  OBVIOUS
<1>1. UNCHANGED world /\ present \subseteq Contacts /\ FormTypes
  BY WorldStays DEF ImportInv, ImportTypes
<1>2. ASSUME UNCHANGED <<present, form, imp, reports>>, Spends PROVE ImportInv'
  <2>1. FormTypes'
    BY <1>1, <1>2 DEF FormTypes, IsForm
  <2> QED BY <1>1, <1>2, <2>1, ImportElsewhere
<1>3. CASE AutomationsNext
  BY <1>2, <1>3, AutomationsFrame, AutomationsSpend DEF others, importVars, bookVars
<1>4. CASE ImportNext
  BY <1>4, ImportBatches, ImportRows, ImportReports, ImportsLeave DEF ImportNext, ImportStep
<1>5. CASE DeliveryNext
  BY <1>2, <1>5, DeliveryFrame, DeliverySpends DEF Beside, importVars, bookVars
<1>6. CASE BookNext
  <2>1. UNCHANGED <<imp, reports>>
    BY <1>6, BookFrame DEF Around, importVars
  <2> QED BY <1>1, <1>6, <2>1, BookAdds, BookSpends, ImportElsewhere
<1>7. CASE ApiNext
  BY <1>2, <1>7, ApiFrame, ApiSpends DEF Aside, importVars, bookVars
<1>8. CASE VisaNext
  BY <1>2, <1>8, VisaFrame, VisaSpends DEF Away, importVars, bookVars
<1>9. CASE Tick \/ UNCHANGED vars
  BY <1>2, <1>9 DEF Tick, vars, store, others, importVars, bookVars, Spends
<1> QED BY <1>3, <1>4, <1>5, <1>6, <1>7, <1>8, <1>9 DEF Next

(* It holds before any file is taken. *)
LEMMA ImportInit0 == Init => ImportInv
<1> SUFFICES ASSUME Init PROVE ImportInv
  OBVIOUS
<1>1. /\ world \in Worlds /\ present = world.present
      /\ left = [faults |-> world.faults, crashes |-> world.crashes,
                 requests |-> world.requests, deliveries |-> world.deliveries]
      /\ reports = [f \in Files |-> <<>>] /\ form = [a \in Callers |-> NoForm]
      /\ imp = [f \in Files |->
            [st |-> IF f \in DOMAIN world.files THEN "waiting" ELSE "none", made |-> 0,
             stalled |-> FALSE, pc |-> "idle", pos |-> 0, known |-> {}, tally |-> NoTally]]
  BY DEF Init, StoreInit, ImportInit, BookInit
<1>2. /\ world.present \subseteq Contacts
      /\ {world.faults, world.crashes, world.requests, world.deliveries} \subseteq Nat
  BY <1>1, StoreAssumption
<1>3. FormTypes
  BY <1>1 DEF FormTypes, IsForm, NoForm
<1>4. ASSUME NEW f \in Files
      PROVE  /\ imp[f] \in ImportRecord /\ imp[f].pc = "idle" /\ imp[f].known = {}
             /\ reports[f] = <<>>
  <2>1. (IF f \in DOMAIN world.files THEN "waiting" ELSE "none") \in ImportJob
    BY DEF ImportJob
  <2>2. NoTally \in RowTallies /\ "idle" \in ImportPC
    BY DEF NoTally, RowTallies, ImportPC
  <2> QED BY <1>1, <2>1, <2>2 DEF ImportRecord
<1>5. Reports = {}
  BY <1>4 DEF Reports
<1>6. ImportTypes
  <2>1. imp \in [Files -> ImportRecord] /\ reports \in [Files -> Seq(RowTallies)]
    <3>1. DOMAIN imp = Files /\ imp = [f \in Files |-> imp[f]]
      BY <1>1
    <3> QED BY <1>1, <1>4, <3>1
  <2>2. Bounds /\ left.faults <= world.faults
    BY <1>1, <1>2 DEF Bounds
  <2> QED BY <1>1, <1>2, <1>5, <2>1, <2>2, FS_EmptySet DEF ImportTypes
<1>7. ASSUME NEW f \in Files PROVE Reading(f, imp[f]) /\ Reported(f)
  BY <1>4 DEF Reading, Reported, Counting
<1>8. NewReported + UnderWay <= AddedContacts
  <2>1. NewReported = 0
    BY <1>5, SumOfZeros, FS_EmptySet DEF NewReported
  <2>2. UnderWay = 0
    <3>1. \A f \in Files : New(imp[f]) = 0
      BY <1>4 DEF New, Counting
    <3> QED BY <3>1, SumOfZeros, StoreAssumption DEF UnderWay
  <2>3. AddedContacts \in Nat
    <3>1. present \ world.present = {}
      BY <1>1
    <3> QED BY <3>1, FS_EmptySet DEF AddedContacts
  <2> QED BY <2>1, <2>2, <2>3
<1> QED BY <1>3, <1>6, <1>7, <1>8 DEF ImportInv

(* Whatever imports and requests overlap, and however often a file is retried, the report of
   generateReport counts every row of its file once, the reports count no more new contacts
   than the table got, and unless a call threw every contact of a reported file is in the table. *)
THEOREM ImportsStayAccounted == Spec => []ImportAccounted
<1>1. ImportInv => ImportAccounted
  <2> SUFFICES ASSUME ImportInv PROVE ImportAccounted
    OBVIOUS
  <2>1. ASSUME NEW f \in Files, NEW i \in DOMAIN reports[f]
        PROVE  reports[f][i].success + reports[f][i].duplicates + reports[f][i].errors = Total(f)
    BY DEF ImportInv, Reported, RowsCounted
  <2>2. NewReported <= AddedContacts
    <3>1. NewReported \in Int /\ UnderWay \in Int /\ [f \in Files |-> New(imp[f])] \in [Files -> Int]
      BY SumsAreNumbers DEF ImportInv
    <3>2. UnderWay \in Nat
      <4>1. \A f \in Files : New(imp[f]) \in Nat
        BY DEF ImportInv, ImportTypes, ImportRecord, RowTallies, New
      <4>2. [f \in Files |-> New(imp[f])] \in [Files -> Nat]
        BY <4>1
      <4> QED BY <4>2, SumIsNat, StoreAssumption DEF UnderWay
    <3>3. AddedContacts \in Nat
      <4>1. IsFiniteSet(present \ world.present)
        BY FS_Subset, StoreAssumption DEF ImportInv, ImportTypes
      <4> QED BY <4>1, FS_CardinalityType DEF AddedContacts
    <3> QED BY <3>1, <3>2, <3>3 DEF ImportInv
  <2>3. ASSUME NEW f \in Files, reports[f] # <<>>, world.faults = left.faults,
               NEW i \in DOMAIN Rows(f), Rows(f)[i].contact # None
        PROVE  Taken(Rows(f)[i].contact)
    BY <2>3, RowsOf DEF ImportInv, ImportTypes, Bounds, Reported, TakenTo
  <2> QED BY <2>1, <2>2, <2>3 DEF ImportAccounted, AddedContacts
<1> QED BY <1>1, ImportInit0, ImportInductive, PTL DEF Spec
=============================================================================
