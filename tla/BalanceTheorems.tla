--------------------------- MODULE BalanceTheorems ---------------------------
(***************************************************************************)
(* What the balance of DebtLedger, a sum over the entries in no particular  *)
(* order, comes to when entries are added.  The library's induction         *)
(* theorems take a predicate; the well-foundedness of < on Nat does not, and *)
(* gives induction as the least counterexample.                             *)
(***************************************************************************)
EXTENDS DebtLedger, FiniteSetTheorems, WellFoundedInduction, TLAPS

LEMMA LeastNatural ==
  ASSUME NEW T \in SUBSET Nat, T # {}
  PROVE  \E m \in T : \A k \in T : m <= k
<1> DEFINE R == OpToRel(<, Nat)
<1>1. IsWellFoundedOn(R, Nat)
  BY NatLessThanWellFounded
<1>2. \A x, y \in Nat : <<x, y>> \in R <=> x < y
  BY DEF OpToRel
<1> HIDE DEF R
<1>3. PICK m \in T : \A k \in T : ~(<<k, m>> \in R)
  BY <1>1, WFMin
<1>4. ASSUME NEW k \in T PROVE m <= k
  <2>1. m \in Nat /\ k \in Nat
    OBVIOUS
  <2>2. ~(k < m)
    BY <1>2, <1>3, <2>1
  <2> QED
    BY <2>1, <2>2
<1> QED
  BY <1>4

\* Induction for a set of naturals.
LEMMA SetInduction ==
  ASSUME NEW T, 0 \in T, \A n \in Nat : n \in T => n + 1 \in T
  PROVE  Nat \subseteq T
<1> SUFFICES ASSUME Nat \ T # {} PROVE FALSE
  OBVIOUS
<1>1. PICK m \in Nat \ T : \A k \in Nat \ T : m <= k
  BY LeastNatural
<1>2. m # 0 /\ m - 1 \in Nat
  OBVIOUS
<1>3. m - 1 \in T
  BY <1>1, <1>2
<1>4. (m - 1) + 1 = m
  OBVIOUS
<1> QED
  BY <1>1, <1>2, <1>3, <1>4

-----------------------------------------------------------------------------
(* Sums over a set, taken apart in the order CHOOSE gives *)

First(s) == CHOOSE x \in s : TRUE

SumStep(a, sum, s) == IF s = {} THEN 0 ELSE a[First(s)] + sum[s \ {First(s)}]

\* What the fold of the community modules is the choice of.
Sums(a, sum, S) == sum = [s \in SUBSET S |-> SumStep(a, sum, s)]

IntSums(a, sum, S) == Sums(a, sum, S) /\ sum \in [SUBSET S -> Int]

SumOf(a, S) == (CHOOSE sum : Sums(a, sum, S))[S]

LEMMA FirstIn ==
  ASSUME NEW s, s # {}
  PROVE  First(s) \in s
BY DEF First

LEMMA OneLess ==
  ASSUME NEW s, IsFiniteSet(s), NEW x \in s, NEW n \in Nat, Cardinality(s) <= n + 1
  PROVE  IsFiniteSet(s \ {x}) /\ Cardinality(s \ {x}) <= n
<1>1. /\ IsFiniteSet(s \ {x})
      /\ Cardinality(s \ {x}) = Cardinality(s) - 1
  BY FS_RemoveElement
<1>2. Cardinality(s) \in Nat
  BY FS_CardinalityType
<1> QED
  BY <1>1, <1>2

LEMMA SumsExist ==
  ASSUME NEW S, IsFiniteSet(S), NEW a, \A x \in S : a[x] \in Int
  PROVE  \E sum \in [SUBSET S -> Int] : Sums(a, sum, S)
<1> DEFINE Upto(sum, n) == \A s \in SUBSET S :
             Cardinality(s) <= n => sum[s] = SumStep(a, sum, s)
           T == {n \in Nat : \E sum \in [SUBSET S -> Int] : Upto(sum, n)}
<1>1. \A s \in SUBSET S : IsFiniteSet(s) /\ Cardinality(s) \in Nat
  BY FS_Subset, FS_CardinalityType
<1>2. 0 \in T
  <2> DEFINE sum == [s \in SUBSET S |-> 0]
  <2>1. \A s \in SUBSET S : Cardinality(s) <= 0 => s = {}
    BY <1>1, FS_EmptySet
  <2>2. Upto(sum, 0) /\ sum \in [SUBSET S -> Int]
    BY <2>1 DEF SumStep
  <2> QED
    BY <2>2
<1>3. ASSUME NEW n \in Nat, n \in T PROVE n + 1 \in T
  <2>1. PICK sum \in [SUBSET S -> Int] : Upto(sum, n)
    BY <1>3
  <2> DEFINE next == [s \in SUBSET S |->
                        IF Cardinality(s) <= n THEN sum[s] ELSE SumStep(a, sum, s)]
  <2>2. ASSUME NEW s \in SUBSET S, s # {}
        PROVE  /\ First(s) \in S /\ s \ {First(s)} \in SUBSET S
               /\ a[First(s)] \in Int /\ sum[s \ {First(s)}] \in Int
    BY <2>2, FirstIn
  <2>3. ASSUME NEW s \in SUBSET S PROVE SumStep(a, sum, s) \in Int
    BY <2>2 DEF SumStep
  <2>4. next \in [SUBSET S -> Int]
    BY <2>3
  <2>5. ASSUME NEW s \in SUBSET S, Cardinality(s) <= n + 1
        PROVE  next[s] = SumStep(a, next, s)
    <3>1. CASE s = {}
      BY <2>1, <3>1, <1>1 DEF SumStep
    <3>2. CASE s # {}
      <4> DEFINE rest == s \ {First(s)}
      <4>1. rest \in SUBSET S /\ Cardinality(rest) <= n
        BY <1>1, <2>5, <3>2, FirstIn, OneLess
      <4>2. next[rest] = sum[rest]
        BY <4>1
      <4>3. SumStep(a, next, s) = SumStep(a, sum, s)
        BY <4>2 DEF SumStep
      <4>4. next[s] = SumStep(a, sum, s)
        BY <2>1
      <4> QED
        BY <4>3, <4>4
    <3> QED
      BY <3>1, <3>2
  <2> HIDE DEF next
  <2> QED
    BY <2>4, <2>5
<1> HIDE DEF T
<1>4. Cardinality(S) \in T
  <2>1. Nat \subseteq T
    BY <1>2, <1>3, SetInduction
  <2> QED
    BY <1>1, <2>1
<1>5. PICK sum \in [SUBSET S -> Int] : Upto(sum, Cardinality(S))
  BY <1>4 DEF T
<1>6. \A s \in SUBSET S : Cardinality(s) <= Cardinality(S)
  BY FS_Subset
<1>7. sum = [s \in SUBSET S |-> SumStep(a, sum, s)]
  BY <1>5, <1>6
<1> QED
  BY <1>7 DEF Sums

\* Two sums agree on a set on which what they add up agrees.
LEMMA SumsAgree ==
  ASSUME NEW S, NEW R, NEW a, NEW b, NEW f, NEW g,
         Sums(a, f, S), Sums(b, g, R),
         NEW s, IsFiniteSet(s), s \subseteq S, s \subseteq R,
         \A x \in s : a[x] = b[x]
  PROVE  f[s] = g[s]
<1> DEFINE T == {n \in Nat : \A r \in SUBSET s : Cardinality(r) <= n => f[r] = g[r]}
<1>1. \A r \in SUBSET s : IsFiniteSet(r) /\ Cardinality(r) \in Nat
  BY FS_Subset, FS_CardinalityType
<1>2. \A r \in SUBSET s : f[r] = SumStep(a, f, r) /\ g[r] = SumStep(b, g, r)
  BY DEF Sums
<1>3. 0 \in T
  <2>1. \A r \in SUBSET s : Cardinality(r) <= 0 => r = {}
    BY <1>1, FS_EmptySet
  <2> QED
    BY <1>2, <2>1 DEF SumStep
<1>4. ASSUME NEW n \in Nat, n \in T PROVE n + 1 \in T
  <2>1. ASSUME NEW r \in SUBSET s, Cardinality(r) <= n + 1
        PROVE  f[r] = g[r]
    <3>1. CASE r = {}
      BY <1>2, <3>1 DEF SumStep
    <3>2. CASE r # {}
      <4>1. First(r) \in r
        BY <3>2, FirstIn
      <4>2. r \ {First(r)} \in SUBSET s /\ Cardinality(r \ {First(r)}) <= n
        BY <1>1, <2>1, <4>1, OneLess
      <4>3. f[r \ {First(r)}] = g[r \ {First(r)}]
        BY <1>4, <4>2
      <4> QED
        BY <1>2, <4>1, <4>3 DEF SumStep
    <3> QED
      BY <3>1, <3>2
  <2> QED
    BY <2>1
<1> HIDE DEF T
<1>5. Cardinality(s) \in T
  <2>1. Nat \subseteq T
    BY <1>3, <1>4, SetInduction
  <2> QED
    BY <1>1, <2>1
<1> QED
  BY <1>1, <1>5 DEF T

\* The order does not matter: any element can be taken first.
LEMMA SumsTakeAny ==
  ASSUME NEW S, IsFiniteSet(S), NEW a, \A x \in S : a[x] \in Int,
         NEW f, IntSums(a, f, S)
  PROVE  \A y \in S : f[S] = a[y] + f[S \ {y}]
<1> USE DEF IntSums
<1> DEFINE T == {n \in Nat : \A s \in SUBSET S : Cardinality(s) <= n =>
                   \A x \in s : f[s] = a[x] + f[s \ {x}]}
<1>1. \A s \in SUBSET S : IsFiniteSet(s) /\ Cardinality(s) \in Nat
  BY FS_Subset, FS_CardinalityType
<1>2. \A s \in SUBSET S : f[s] = SumStep(a, f, s)
  BY DEF Sums
<1>3. 0 \in T
  <2>1. \A s \in SUBSET S : Cardinality(s) <= 0 => s = {}
    BY <1>1, FS_EmptySet
  <2> QED
    BY <2>1
<1>4. ASSUME NEW n \in Nat, n \in T PROVE n + 1 \in T
  <2>1. ASSUME NEW s \in SUBSET S, Cardinality(s) <= n + 1, NEW x \in s
        PROVE  f[s] = a[x] + f[s \ {x}]
    <3> DEFINE z == First(s)
    <3>1. z \in s
      BY FirstIn
    <3>2. f[s] = a[z] + f[s \ {z}]
      BY <1>2 DEF SumStep
    <3>3. CASE x = z
      BY <3>2, <3>3
    <3>4. CASE x # z
      <4> HIDE DEF z
      <4>1. /\ s \ {z} \in SUBSET S /\ Cardinality(s \ {z}) <= n
            /\ s \ {x} \in SUBSET S /\ Cardinality(s \ {x}) <= n
        BY <1>1, <2>1, <3>1, OneLess
      <4>2. x \in s \ {z} /\ z \in s \ {x} /\ (s \ {z}) \ {x} = (s \ {x}) \ {z}
        BY <3>1, <3>4
      <4>3. f[s \ {z}] = a[x] + f[(s \ {z}) \ {x}]
        BY <1>4, <4>1, <4>2
      <4>4. f[s \ {x}] = a[z] + f[(s \ {x}) \ {z}]
        BY <1>4, <4>1, <4>2
      <4>5. a[x] \in Int /\ a[z] \in Int /\ f[(s \ {z}) \ {x}] \in Int
        BY <3>1
      <4>6. f[s \ {x}] = a[z] + f[(s \ {z}) \ {x}]
        BY <4>2, <4>4
      <4> QED
        BY <3>2, <4>3, <4>5, <4>6
    <3> QED
      BY <3>3, <3>4
  <2> QED
    BY <2>1
<1> HIDE DEF T
<1>5. Cardinality(S) \in T
  <2>1. Nat \subseteq T
    BY <1>3, <1>4, SetInduction
  <2> QED
    BY <1>1, <2>1
<1> QED
  BY <1>1, <1>5 DEF T

\* The sum of a finite set is an integer, depends on nothing but what is added
\* up, and grows by what a new element adds.
LEMMA SumOfIs ==
  ASSUME NEW S, IsFiniteSet(S), NEW a, \A x \in S : a[x] \in Int
  PROVE  \E f \in [SUBSET S -> Int] : Sums(a, f, S) /\ SumOf(a, S) = f[S]
<1>1. PICK f : Sums(a, f, S) /\ f = (CHOOSE sum : Sums(a, sum, S))
  BY SumsExist
<1>2. PICK g \in [SUBSET S -> Int] : Sums(a, g, S)
  BY SumsExist
<1>3. ASSUME NEW s \in SUBSET S PROVE f[s] = g[s]
  <2>1. IsFiniteSet(s)
    BY FS_Subset
  <2> QED
    BY <1>1, <1>2, <2>1, SumsAgree
<1>4. f = g
  BY <1>1, <1>2, <1>3 DEF Sums
<1> QED
  BY <1>1, <1>2, <1>4 DEF SumOf

LEMMA SumOfAgrees ==
  ASSUME NEW S, IsFiniteSet(S), NEW a, NEW b,
         \A x \in S : a[x] \in Int /\ a[x] = b[x]
  PROVE  SumOf(a, S) = SumOf(b, S)
<1>1. PICK f : Sums(a, f, S) /\ SumOf(a, S) = f[S]
  BY SumOfIs
<1>2. PICK g : Sums(b, g, S) /\ SumOf(b, S) = g[S]
  BY SumOfIs
<1>3. f[S] = g[S]
  BY <1>1, <1>2, SumsAgree
<1> QED
  BY <1>1, <1>2, <1>3

LEMMA SumOfInt ==
  ASSUME NEW S, IsFiniteSet(S), NEW a, \A x \in S : a[x] \in Int
  PROVE  SumOf(a, S) \in Int
<1>1. PICK f \in [SUBSET S -> Int] : SumOf(a, S) = f[S]
  BY SumOfIs
<1> QED
  BY <1>1

LEMMA SumOfRemove ==
  ASSUME NEW S, IsFiniteSet(S), NEW a, \A x \in S : a[x] \in Int, NEW y \in S
  PROVE  SumOf(a, S) = SumOf(a, S \ {y}) + a[y]
<1> DEFINE R == S \ {y}
<1>1. IsFiniteSet(R) /\ R \subseteq S /\ \A x \in R : a[x] \in Int
  BY FS_Subset
<1>2. PICK f \in [SUBSET S -> Int] : Sums(a, f, S) /\ SumOf(a, S) = f[S]
  BY SumOfIs
<1>3. f[S] = a[y] + f[S \ {y}]
  <2>1. IntSums(a, f, S)
    BY <1>2 DEF IntSums
  <2> QED
    BY <2>1, SumsTakeAny
<1> HIDE DEF R
<1>4. PICK g \in [SUBSET R -> Int] : Sums(a, g, R) /\ SumOf(a, R) = g[R]
  BY <1>1, SumOfIs
<1>5. f[R] = g[R]
  BY <1>1, <1>2, <1>4, SumsAgree
<1>6. g[R] \in Int
  OBVIOUS
<1>7. SumOf(a, S) = SumOf(a, R) + a[y]
  BY <1>2, <1>3, <1>4, <1>5, <1>6 DEF R
<1> QED
  BY <1>7 DEF R

LEMMA SumOfAdd ==
  ASSUME NEW S, IsFiniteSet(S), NEW a, \A x \in S : a[x] \in Int,
         NEW y, y \notin S, a[y] \in Int
  PROVE  SumOf(a, S \cup {y}) = SumOf(a, S) + a[y]
<1> DEFINE R == S \cup {y}
<1>1. IsFiniteSet(R)
  BY FS_AddElement
<1>2. \A x \in R : a[x] \in Int
  OBVIOUS
<1>3. R \ {y} = S /\ y \in R
  OBVIOUS
<1> HIDE DEF R
<1>4. SumOf(a, R) = SumOf(a, R \ {y}) + a[y]
  BY <1>1, <1>2, <1>3, SumOfRemove
<1> QED
  BY <1>3, <1>4 DEF R

-----------------------------------------------------------------------------
(* The balance *)

AmountsOf(entries) == [j \in DOMAIN entries |-> entries[j].amount]

LEMMA BalanceIsSum ==
  ASSUME NEW S, S \subseteq DOMAIN ledger
  PROVE  MapThenSumSet(AmountOf, S) = SumOf(AmountsOf(ledger), S)
BY DEF MapThenSumSet, MapThenFoldSet, AmountOf, SumOf, Sums, SumStep, First, AmountsOf

\* A customer without entries owes nothing.
LEMMA EmptyBalance ==
  ASSUME NEW c, EntriesOf(c) = {}
  PROVE  Balance(c) = 0
<1>1. PICK f \in [SUBSET {} -> Int] :
        Sums(AmountsOf(ledger), f, {}) /\ SumOf(AmountsOf(ledger), {}) = f[{}]
  BY FS_EmptySet, SumOfIs
<1>2. f[{}] = 0
  BY <1>1 DEF Sums, SumStep
<1> QED
  BY <1>1, <1>2, BalanceIsSum DEF Balance

LEMMA NewBalanceIsSum ==
  ASSUME NEW S, S \subseteq DOMAIN ledger'
  PROVE  MapThenSumSet(AmountOf, S)' = SumOf(AmountsOf(ledger'), S)
BY DEF MapThenSumSet, MapThenFoldSet, AmountOf, SumOf, Sums, SumStep, First, AmountsOf

LEMMA LedgerTyped ==
  ASSUME LedgerTypeOK
  PROVE  /\ Len(ledger) \in Nat /\ DOMAIN ledger = 1 .. Len(ledger)
         /\ \A j \in DOMAIN ledger : ledger[j] \in Entry /\ AmountsOf(ledger)[j] \in Int
         /\ \A S \in SUBSET DOMAIN ledger : IsFiniteSet(S)
<1>1. Len(ledger) \in Nat /\ DOMAIN ledger = 1 .. Len(ledger)
  BY DEF LedgerTypeOK
<1>2. ASSUME NEW j \in DOMAIN ledger
      PROVE  ledger[j] \in Entry /\ AmountsOf(ledger)[j] \in Int
  <2>1. ledger[j] \in Entry
    BY DEF LedgerTypeOK
  <2>2. AmountsOf(ledger)[j] = ledger[j].amount
    BY DEF AmountsOf
  <2> QED
    BY <2>1, <2>2 DEF Entry
<1>3. IsFiniteSet(1 .. Len(ledger))
  BY <1>1, FS_Interval
<1> QED
  BY <1>1, <1>2, <1>3, FS_Subset

\* The sum of a set of entries that were in the ledger stays what it was.
LEMMA SumIsKept ==
  ASSUME LedgerTypeOK, LedgerTypeOK', NEW S \in SUBSET DOMAIN ledger,
         DOMAIN ledger \subseteq DOMAIN ledger',
         \A j \in DOMAIN ledger : ledger'[j] = ledger[j]
  PROVE  /\ SumOf(AmountsOf(ledger'), S) = SumOf(AmountsOf(ledger), S)
         /\ SumOf(AmountsOf(ledger), S) \in Int
<1>1. IsFiniteSet(S)
  BY LedgerTyped
<1>2. ASSUME NEW j \in S
      PROVE  AmountsOf(ledger')[j] = AmountsOf(ledger)[j] /\ AmountsOf(ledger)[j] \in Int
  <2>1. j \in DOMAIN ledger /\ j \in DOMAIN ledger'
    OBVIOUS
  <2>2. AmountsOf(ledger')[j] = ledger'[j].amount /\ AmountsOf(ledger)[j] = ledger[j].amount
    BY <2>1 DEF AmountsOf
  <2> QED
    BY <2>1, <2>2, LedgerTyped
<1> QED
  BY <1>1, <1>2, SumOfAgrees, SumOfInt

LEMMA InsertEffect ==
  ASSUME LedgerTypeOK, NEW c \in CustomerId, NEW type \in EntryType,
         NEW amount \in Int, NEW session \in Nat,
         Insert(c, type, amount, session)
  PROVE  /\ LedgerTypeOK'
         /\ Len(ledger') = Len(ledger) + 1
         /\ DOMAIN ledger' = DOMAIN ledger \cup {Len(ledger) + 1}
         /\ Len(ledger) + 1 \notin DOMAIN ledger
         /\ \A j \in DOMAIN ledger : ledger'[j] = ledger[j]
         /\ ledger'[Len(ledger) + 1] =
              [customer |-> c, type |-> type, amount |-> amount, session |-> session]
BY DEF LedgerTypeOK, Insert, Entry

LEMMA BalanceKept ==
  ASSUME UNCHANGED ledger, NEW c
  PROVE  Balance(c)' = Balance(c)
<1>1. EntriesOf(c)' = EntriesOf(c) /\ EntriesOf(c) \subseteq DOMAIN ledger
  BY DEF EntriesOf
<1>2. MapThenSumSet(AmountOf, EntriesOf(c)) = SumOf(AmountsOf(ledger), EntriesOf(c))
  BY <1>1, BalanceIsSum
<1>3. MapThenSumSet(AmountOf, EntriesOf(c))' = SumOf(AmountsOf(ledger'), EntriesOf(c)')
  BY <1>1, NewBalanceIsSum
<1> QED
  BY <1>1, <1>2, <1>3 DEF Balance

\* COALESCE(SUM(signed_amount), 0) after an insert: the customer's balance moves
\* by the entry's amount, everybody else's stays.
THEOREM BalanceAfterInsert ==
  ASSUME LedgerTypeOK, NEW c \in CustomerId, NEW type \in EntryType,
         NEW amount \in Int, NEW session \in Nat,
         Insert(c, type, amount, session)
  PROVE  /\ Balance(c) \in Int
         /\ Balance(c)' = Balance(c) + amount
         /\ \A d \in CustomerId \ {c} : Balance(d)' = Balance(d)
<1> DEFINE n == Len(ledger) + 1
<1>1. /\ LedgerTypeOK'
      /\ DOMAIN ledger' = DOMAIN ledger \cup {n} /\ n \notin DOMAIN ledger
      /\ \A j \in DOMAIN ledger : ledger'[j] = ledger[j]
      /\ ledger'[n].customer = c /\ ledger'[n].amount = amount
  <2>1. /\ LedgerTypeOK'
        /\ DOMAIN ledger' = DOMAIN ledger \cup {n} /\ n \notin DOMAIN ledger
        /\ \A j \in DOMAIN ledger : ledger'[j] = ledger[j]
        /\ ledger'[n] =
              [customer |-> c, type |-> type, amount |-> amount, session |-> session]
    BY InsertEffect
  <2> QED
    BY <2>1
<1> HIDE DEF n
<1>2. ASSUME NEW d
      PROVE  /\ EntriesOf(d) \in SUBSET DOMAIN ledger
             /\ EntriesOf(d)' \in SUBSET DOMAIN ledger'
             /\ EntriesOf(d)' = IF d = c THEN EntriesOf(d) \cup {n} ELSE EntriesOf(d)
  BY <1>1 DEF EntriesOf
<1>3. ASSUME NEW d
      PROVE  /\ Balance(d) = SumOf(AmountsOf(ledger), EntriesOf(d))
             /\ Balance(d)' = SumOf(AmountsOf(ledger'), EntriesOf(d)')
  <2>1. Balance(d) = SumOf(AmountsOf(ledger), EntriesOf(d))
    BY <1>2, BalanceIsSum DEF Balance
  <2>2. MapThenSumSet(AmountOf, EntriesOf(d))' = SumOf(AmountsOf(ledger'), EntriesOf(d)')
    BY <1>2, NewBalanceIsSum
  <2> QED
    BY <2>1, <2>2 DEF Balance
<1>4. ASSUME NEW d
      PROVE  /\ SumOf(AmountsOf(ledger'), EntriesOf(d)) = SumOf(AmountsOf(ledger), EntriesOf(d))
             /\ SumOf(AmountsOf(ledger), EntriesOf(d)) \in Int
  BY <1>1, <1>2, SumIsKept
<1>5. SumOf(AmountsOf(ledger'), EntriesOf(c) \cup {n})
        = SumOf(AmountsOf(ledger'), EntriesOf(c)) + amount
  <2> DEFINE a == AmountsOf(ledger')
             S == EntriesOf(c)
  <2>1. IsFiniteSet(S) /\ n \notin S
    BY <1>1, <1>2, LedgerTyped
  <2>2. \A x \in S : a[x] \in Int
    <3> TAKE x \in S
    <3>1. x \in DOMAIN ledger /\ x \in DOMAIN ledger'
      BY <1>1, <1>2
    <3>2. a[x] = ledger'[x].amount /\ AmountsOf(ledger)[x] = ledger[x].amount
      BY <3>1 DEF AmountsOf
    <3> QED
      BY <1>1, <3>1, <3>2, LedgerTyped
  <2>3. a[n] = amount
    BY <1>1 DEF AmountsOf
  <2> HIDE DEF a, S
  <2>4. SumOf(a, S \cup {n}) = SumOf(a, S) + a[n]
    BY <2>1, <2>2, <2>3, SumOfAdd
  <2> QED
    BY <2>3, <2>4 DEF a, S
<1> QED
  BY <1>2, <1>3, <1>4, <1>5

=============================================================================
