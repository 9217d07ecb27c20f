----------------------------- MODULE LimitsProofs -----------------------------
(***************************************************************************)
(* What the harness and the evaluations count and bound: cost, tokens,     *)
(* context and output.  For all values of the constants, and any number of *)
(* trials, a campaign stays within its allocation (CampaignBudget), the    *)
(* loop of a trial within its limits (AgentLoop), its context within the   *)
(* target (ContextCompaction), and the observations of a process within    *)
(* theirs, with every byte accounted for (ProcessSupervisor).  The         *)
(* components share no state; they share the lemmas about sums with which  *)
(* this module begins.                                                     *)
(***************************************************************************)
EXTENDS TrialEvidence, AgentLoop, ContextCompaction, ProcessSupervisor, Integers,
        FiniteSetTheorems, WellFoundedInduction, SequenceTheorems, TLAPS

-----------------------------------------------------------------------------
(* Extrema                                                                 *)

LEMMA MaxOfBounded ==
  ASSUME NEW n \in Nat, NEW S \in SUBSET (0..n), S # {}
  PROVE  Max(S) \in S /\ \A i \in S : i <= Max(S)
<1> DEFINE gaps == {n - i : i \in S}
<1>1. gaps \subseteq Nat /\ gaps # {}
  <2>1. \A i \in S : n - i \in Nat
    OBVIOUS
  <2> QED
    BY <2>1
<1>2. PICK g \in gaps : \A h \in gaps : <<h, g>> \notin OpToRel(<, Nat)
  BY <1>1, NatLessThanWellFounded, WFMin
<1>3. \A h \in gaps : ~(h < g)
  BY <1>1, <1>2 DEF OpToRel
<1>4. PICK m \in S : g = n - m
  OBVIOUS
<1>5. \A i \in S : m >= i
  <2> TAKE i \in S
  <2>1. ~(n - i < n - m)
    BY <1>3, <1>4
  <2> QED
    BY <2>1
<1> QED
  BY <1>5 DEF Max

LEMMA MinOfNaturals ==
  ASSUME NEW S \in SUBSET Nat, S # {}
  PROVE  Min(S) \in S /\ \A i \in S : Min(S) <= i
<1>1. PICK m \in S : \A i \in S : <<i, m>> \notin OpToRel(<, Nat)
  BY NatLessThanWellFounded, WFMin
<1>2. \A i \in S : m <= i
  <2>1. \A i \in S : ~(i < m)
    BY <1>1 DEF OpToRel
  <2> QED
    BY <2>1
<1> QED
  BY <1>2 DEF Min

LEMMA MinOfTwo ==
  ASSUME NEW a \in Int, NEW b \in Int
  PROVE  Min({a, b}) = IF a <= b THEN a ELSE b
BY DEF Min

LEMMA MaxOfTwo ==
  ASSUME NEW a \in Int, NEW b \in Int
  PROVE  Max({a, b}) = IF a >= b THEN a ELSE b
BY DEF Max

-----------------------------------------------------------------------------
(* Sums.  The sum of what f says of the elements of a finite set is the    *)
(* number of its units, so that facts about cardinalities are facts about  *)
(* sums.                                                                   *)
Units(f, S) == UNION {{x} \X (1..f[x]) : x \in S}
SumOver(f, S) == MapThenSumSet(LAMBDA x : f[x], S)

(* Two functions that unfold alike agree: a smallest set on which they     *)
(* differ has an element to take away.                                     *)
LEMMA FoldAgrees ==
  ASSUME NEW S, IsFiniteSet(S), NEW g, NEW h, g[{}] = h[{}],
         \A s \in (SUBSET S) \ {{}} : \E x \in s : g[s \ {x}] = h[s \ {x}] => g[s] = h[s]
  PROVE  g[S] = h[S]
<1> DEFINE apart == {s \in SUBSET S : g[s] # h[s]}
<1>1. SUFFICES ASSUME apart # {} PROVE FALSE
  OBVIOUS
<1>2. apart \subseteq FiniteSubsetsOf(S)
  BY FS_Subset DEF FiniteSubsetsOf
<1>3. PICK s \in apart : \A u \in apart : <<u, s>> \notin StrictSubsetOrdering(S)
  BY <1>1, <1>2, FS_StrictSubsetOrderingWellFounded, WFMin
<1>4. PICK x \in s : g[s \ {x}] = h[s \ {x}] => g[s] = h[s]
  OBVIOUS
<1>5. s \ {x} \subseteq s /\ s \ {x} # s /\ s \ {x} \in SUBSET S
  OBVIOUS
<1>6. <<s \ {x}, s>> \in StrictSubsetOrdering(S)
  BY <1>5 DEF StrictSubsetOrdering
<1>7. s \ {x} \notin apart
  BY <1>3, <1>6
<1> QED
  BY <1>4, <1>5, <1>7

LEMMA UnitsOfOne ==
  ASSUME NEW x, NEW n \in Nat
  PROVE  IsFiniteSet({x} \X (1..n)) /\ Cardinality({x} \X (1..n)) = n
<1>1. IsFiniteSet({x}) /\ Cardinality({x}) = 1
  BY FS_Singleton
<1>2. IsFiniteSet(1..n) /\ Cardinality(1..n) = n
  BY FS_Interval
<1>3. IsFiniteSet({x} \X (1..n)) /\ Cardinality({x} \X (1..n)) = Cardinality({x}) * Cardinality(1..n)
  BY <1>1, <1>2, FS_Product
<1>4. 1 * n = n
  OBVIOUS
<1> QED
  BY <1>1, <1>2, <1>3, <1>4

LEMMA UnitsFinite ==
  ASSUME NEW S, IsFiniteSet(S), NEW f, \A x \in S : f[x] \in Nat
  PROVE  IsFiniteSet(Units(f, S))
<1> DEFINE image == {{x} \X (1..f[x]) : x \in S}
           onto == [x \in S |-> {x} \X (1..f[x])]
<1>1. onto \in Surjection(S, image)
  BY DEF Surjection
<1>2. IsFiniteSet(image)
  BY <1>1, FS_Surjection
<1>3. ASSUME NEW T \in image PROVE IsFiniteSet(T)
  <2>1. PICK x \in S : T = {x} \X (1..f[x])
    OBVIOUS
  <2> QED
    BY <2>1, UnitsOfOne
<1> QED
  BY <1>2, <1>3, FS_UNION DEF Units

(* One element more.                                                       *)
LEMMA UnitsSplit ==
  ASSUME NEW S, IsFiniteSet(S), NEW f, \A x \in S : f[x] \in Nat, NEW x \in S
  PROVE  Cardinality(Units(f, S)) = f[x] + Cardinality(Units(f, S \ {x}))
<1> DEFINE one == {x} \X (1..f[x])
           rest == Units(f, S \ {x})
<1>1. IsFiniteSet(one) /\ Cardinality(one) = f[x]
  BY UnitsOfOne
<1>2. IsFiniteSet(rest)
  <2>1. IsFiniteSet(S \ {x})
    BY FS_RemoveElement
  <2> QED
    BY <2>1, UnitsFinite
<1>3. Units(f, S) = one \cup rest
  BY DEF Units
<1>4. one \cap rest = {}
  BY DEF Units
<1>5. Cardinality(Units(f, S)) = Cardinality(one) + Cardinality(rest) - Cardinality(one \cap rest)
  BY <1>1, <1>2, <1>3, FS_Union
<1>6. Cardinality(one \cap rest) = 0 /\ Cardinality(rest) \in Nat
  BY <1>2, <1>4, FS_EmptySet, FS_CardinalityType
<1> QED
  BY <1>1, <1>5, <1>6

LEMMA SumIsUnits ==
  ASSUME NEW S, IsFiniteSet(S), NEW f, \A x \in S : f[x] \in Nat
  PROVE  SumOver(f, S) = Cardinality(Units(f, S))
<1> DEFINE pick(s) == CHOOSE x \in s : TRUE
           count == [s \in SUBSET S |-> Cardinality(Units(f, s))]
           unfolds(g) == g = [s \in SUBSET S |-> IF s = {} THEN 0 ELSE f[pick(s)] + g[s \ {pick(s)}]]
           sum == CHOOSE g : unfolds(g)
<1>1. count[{}] = 0
  BY FS_EmptySet DEF Units
<1>2. ASSUME NEW s \in SUBSET S, s # {}
      PROVE  pick(s) \in s /\ count[s] = f[pick(s)] + count[s \ {pick(s)}]
  <2>1. pick(s) \in s
    BY <1>2
  <2>2. IsFiniteSet(s)
    BY FS_Subset
  <2> QED
    BY <2>1, <2>2, UnitsSplit
<1>3. unfolds(count)
  BY <1>1, <1>2
<1>4. unfolds(sum)
  <2> HIDE DEF unfolds, count
  <2> QED
    BY <1>3
<1>5. \A s \in (SUBSET S) \ {{}} : \E x \in s : sum[s \ {x}] = count[s \ {x}] => sum[s] = count[s]
  <2> SUFFICES ASSUME NEW s \in (SUBSET S) \ {{}}
               PROVE  sum[s \ {pick(s)}] = count[s \ {pick(s)}] => sum[s] = count[s]
    BY <1>2
  <2> HIDE DEF sum
  <2>1. sum[s] = f[pick(s)] + sum[s \ {pick(s)}]
    BY <1>4
  <2>2. count[s] = f[pick(s)] + count[s \ {pick(s)}]
    BY <1>2
  <2> HIDE DEF count, pick
  <2> QED
    BY <2>1, <2>2
<1>6. sum[{}] = count[{}]
  BY <1>1, <1>4
<1>7. sum[S] = count[S]
  BY <1>5, <1>6, FoldAgrees
<1>8. SumOver(f, S) = sum[S]
  BY DEF SumOver, MapThenSumSet, MapThenFoldSet
<1> QED
  BY <1>7, <1>8

(* The last element of some.                                               *)
LEMMA UnitsLast ==
  ASSUME NEW n \in Nat, NEW w, \A i \in 1..n : w[i] \in Nat, NEW s \in SUBSET (1..n), s # {}
  PROVE  /\ Max(s) \in s
         /\ Cardinality(Units(w, s)) = Cardinality(Units(w, s \ {Max(s)})) + w[Max(s)]
<1>1. Max(s) \in s
  <2>1. s \in SUBSET (0..n)
    OBVIOUS
  <2> QED
    BY <2>1, MaxOfBounded
<1>2. IsFiniteSet(1..n)
  BY FS_Interval
<1>3. IsFiniteSet(s) /\ IsFiniteSet(s \ {Max(s)})
  BY <1>2, FS_Subset
<1>4. \A i \in s : w[i] \in Nat
  OBVIOUS
<1>5. Cardinality(Units(w, s)) = w[Max(s)] + Cardinality(Units(w, s \ {Max(s)}))
  BY <1>1, <1>3, <1>4, UnitsSplit
<1>6. Cardinality(Units(w, s \ {Max(s)})) \in Nat
  BY <1>3, <1>4, UnitsFinite, FS_CardinalityType
<1>7. w[Max(s)] \in Nat
  BY <1>1, <1>4
<1>8. \A a, b \in Nat : a + b = b + a
  OBVIOUS
<1> QED
  BY <1>1, <1>5, <1>6, <1>7, <1>8

(* A fold from the left that adds weights.                                 *)
LEMMA TotalIsUnits ==
  ASSUME NEW seq \in Seq(Nat)
  PROVE  Total(seq) = Cardinality(Units(seq, DOMAIN seq))
<1> DEFINE n == Len(seq)
           count == [s \in SUBSET (1..n) |-> Cardinality(Units(seq, s))]
           unfolds(g) == g = [s \in SUBSET (1..n) |-> IF s = {} THEN 0 ELSE g[s \ {Max(s)}] + seq[Max(s)]]
           sum == CHOOSE g : unfolds(g)
<1>0. n \in Nat /\ DOMAIN seq = 1..n /\ \A i \in 1..n : seq[i] \in Nat
  OBVIOUS
<1>1. count[{}] = 0
  BY FS_EmptySet DEF Units
<1>2. ASSUME NEW s \in SUBSET (1..n), s # {}
      PROVE  Max(s) \in s /\ count[s] = count[s \ {Max(s)}] + seq[Max(s)]
  BY <1>0, <1>2, UnitsLast
<1>3. unfolds(count)
  BY <1>1, <1>2
<1>4. unfolds(sum)
  BY <1>3
<1>5. \A s \in (SUBSET (1..n)) \ {{}} : \E x \in s : sum[s \ {x}] = count[s \ {x}] => sum[s] = count[s]
  <2> SUFFICES ASSUME NEW s \in (SUBSET (1..n)) \ {{}}
               PROVE  sum[s \ {Max(s)}] = count[s \ {Max(s)}] => sum[s] = count[s]
    BY <1>2
  <2> QED
    BY <1>2, <1>4
<1>6. sum[{}] = count[{}]
  BY <1>1, <1>4
<1>7. sum[1..n] = count[1..n]
  <2>1. IsFiniteSet(1..n)
    BY <1>0, FS_Interval
  <2> HIDE DEF sum, count, n
  <2> QED
    BY <1>5, <1>6, <2>1, FoldAgrees
<1>8. Total(seq) = sum[1..n]
  BY <1>0 DEF Total, FoldLeft, MapThenFoldSet
<1> QED
  BY <1>0, <1>7, <1>8

LEMMA TotalType == ASSUME NEW s \in Seq(Nat) PROVE Total(s) \in Nat
<1>1. IsFiniteSet(DOMAIN s) /\ \A i \in DOMAIN s : s[i] \in Nat
  BY FS_Interval
<1> QED
  BY <1>1, TotalIsUnits, UnitsFinite, FS_CardinalityType

LEMMA TotalConcat ==
  ASSUME NEW s \in Seq(Nat), NEW t \in Seq(Nat)
  PROVE  Total(s \o t) = Total(s) + Total(t)
<1> DEFINE m == Len(s)
           k == Len(t)
           whole == Units(s \o t, 1..(m + k))
           front == Units(s, 1..m)
           back == Units(s \o t, (m + 1)..(m + k))
           move == [u \in Units(t, 1..k) |-> <<u[1] + m, u[2]>>]
<1>1. /\ m \in Nat /\ k \in Nat /\ DOMAIN s = 1..m /\ DOMAIN t = 1..k
      /\ s \o t \in Seq(Nat) /\ DOMAIN (s \o t) = 1..(m + k)
      /\ \A i \in 1..m : (s \o t)[i] = s[i] /\ s[i] \in Nat
      /\ \A i \in 1..k : (s \o t)[i + m] = t[i] /\ t[i] \in Nat
  OBVIOUS
<1>2. Total(s \o t) = Cardinality(whole) /\ Total(s) = Cardinality(front)
      /\ Total(t) = Cardinality(Units(t, 1..k))
  BY <1>1, TotalIsUnits
<1>3. 1..(m + k) = (1..m) \cup ((m + 1)..(m + k))
  BY <1>1
<1>4. whole = front \cup back
  <2>1. whole = Units(s \o t, 1..m) \cup back
    BY <1>3 DEF Units
  <2>2. Units(s \o t, 1..m) = front
    BY <1>1 DEF Units
  <2> QED
    BY <2>1, <2>2
<1>5. front \cap back = {}
  BY <1>1 DEF Units
<1>6. IsFiniteSet(front) /\ IsFiniteSet(Units(t, 1..k))
  <2>1. IsFiniteSet(1..m) /\ IsFiniteSet(1..k)
    BY <1>1, FS_Interval
  <2> QED
    BY <1>1, <2>1, UnitsFinite
<1>7. move \in Bijection(Units(t, 1..k), back)
  <2>1. ASSUME NEW u \in Units(t, 1..k) PROVE move[u] \in back
    <3>1. u[1] \in 1..k /\ u[2] \in 1..t[u[1]]
      BY DEF Units
    <3>2. u[1] + m \in (m + 1)..(m + k) /\ u[2] \in 1..(s \o t)[u[1] + m]
      BY <1>1, <3>1
    <3> QED
      BY <3>2 DEF Units
  <2>2. ASSUME NEW u \in Units(t, 1..k), NEW v \in Units(t, 1..k), move[u] = move[v] PROVE u = v
    <3>1. /\ u[1] \in 1..k /\ u = <<u[1], u[2]>>
          /\ v[1] \in 1..k /\ v = <<v[1], v[2]>>
      BY DEF Units
    <3>2. u[1] + m = v[1] + m /\ u[2] = v[2]
      BY <2>2
    <3>3. u[1] = v[1]
      BY <1>1, <3>1, <3>2
    <3> QED
      BY <3>1, <3>2, <3>3
  <2>3. ASSUME NEW w \in back PROVE \E u \in Units(t, 1..k) : move[u] = w
    <3>1. w[1] \in (m + 1)..(m + k) /\ w[2] \in 1..(s \o t)[w[1]] /\ w = <<w[1], w[2]>>
      BY DEF Units
    <3>2. w[1] - m \in 1..k /\ (w[1] - m) + m = w[1]
      BY <1>1, <3>1
    <3>3. w[2] \in 1..t[w[1] - m]
      BY <1>1, <3>1, <3>2
    <3>4. <<w[1] - m, w[2]>> \in Units(t, 1..k)
      BY <3>2, <3>3 DEF Units
    <3> QED
      BY <3>1, <3>2, <3>4
  <2> QED
    BY <2>1, <2>2, <2>3 DEF Bijection, Injection, Surjection, IsInjective
<1>8. IsFiniteSet(back) /\ Cardinality(back) = Cardinality(Units(t, 1..k))
  <2>1. ExistsBijection(Units(t, 1..k), back)
    BY <1>7 DEF ExistsBijection
  <2> QED
    BY <1>6, <2>1, FS_Bijection
<1>9. Cardinality(whole) = Cardinality(front) + Cardinality(back) - 0
  BY <1>4, <1>5, <1>6, <1>8, FS_Union, FS_EmptySet
<1>10. Cardinality(front) \in Nat /\ Cardinality(back) \in Nat
  BY <1>6, <1>8, FS_CardinalityType
<1> QED
  BY <1>2, <1>8, <1>9, <1>10

LEMMA TotalOfOne ==
  /\ Total(<<>>) = 0
  /\ \A n \in Nat : Total(<<n>>) = n
<1>1. Total(<<>>) = 0
  <2>1. <<>> \in Seq(Nat) /\ Units(<<>>, DOMAIN <<>>) = {}
    BY DEF Units
  <2> QED
    BY <2>1, TotalIsUnits, FS_EmptySet
<1>2. ASSUME NEW n \in Nat PROVE Total(<<n>>) = n
  <2>1. <<n>> \in Seq(Nat) /\ Units(<<n>>, DOMAIN <<n>>) = {1} \X (1..n)
    BY DEF Units
  <2> QED
    BY <2>1, TotalIsUnits, UnitsOfOne
<1> QED
  BY <1>1, <1>2

LEMMA TotalAppend ==
  ASSUME NEW s \in Seq(Nat), NEW n \in Nat
  PROVE  Append(s, n) \in Seq(Nat) /\ Total(Append(s, n)) = Total(s) + n
<1>1. Append(s, n) = s \o <<n>> /\ <<n>> \in Seq(Nat) /\ Append(s, n) \in Seq(Nat)
  OBVIOUS
<1> QED
  BY <1>1, TotalConcat, TotalOfOne

(* Where a buffer is cut what is left out and what stays add up.           *)
LEMMA TotalCut ==
  ASSUME NEW s \in Seq(Nat), NEW k \in 1..Len(s)
  PROVE  /\ SubSeq(s, k, Len(s)) \in Seq(Nat) /\ Len(SubSeq(s, k, Len(s))) = Len(s) - k + 1
         /\ Total(s) = Total(SubSeq(s, 1, k - 1)) + Total(SubSeq(s, k, Len(s)))
         /\ Total(SubSeq(s, 1, k - 1)) \in Nat /\ Total(SubSeq(s, k, Len(s))) \in Nat
<1>1. /\ Len(s) \in Nat /\ k \in Int /\ k - 1 \in Int /\ k <= Len(s)
      /\ \A i \in k..Len(s) : s[i] \in Nat
      /\ \A i \in 1..(k - 1) : s[i] \in Nat
  OBVIOUS
<1>2. /\ SubSeq(s, k, Len(s)) \in Seq(Nat) /\ SubSeq(s, 1, k - 1) \in Seq(Nat)
      /\ Len(SubSeq(s, k, Len(s))) = IF k <= Len(s) THEN Len(s) - k + 1 ELSE 0
  BY <1>1, SubSeqProperties
<1>3. SubSeq(s, 1, k - 1) \o SubSeq(s, k, Len(s)) = s
  <2>1. 1 \in 1..(Len(s) + 1) /\ k - 1 \in (1 - 1)..Len(s) /\ Len(s) \in (k - 1)..Len(s) /\ (k - 1) + 1 = k
    BY <1>1
  <2>2. SubSeq(s, 1, k - 1) \o SubSeq(s, (k - 1) + 1, Len(s)) = SubSeq(s, 1, Len(s))
    BY <2>1, ConcatAdjacentSubSeq
  <2> QED
    BY <2>1, <2>2, SubSeqFull
<1> QED
  BY <1>1, <1>2, <1>3, TotalConcat, TotalType

(* Of a buffer: its limits, and the bytes it knows of.                     *)

-----------------------------------------------------------------------------
(* CampaignBudget and TrialEvidence.  A run identity is paid for once, and *)
(* what the budget holds for it covers what the trial costs.  The argument *)
(* is per run identity: the trial that reserved it first is the only one   *)
(* that is paid under it, and nobody else writes its entry.                *)

(* A paid trial has an entry: its stop until it is settled, and then what  *)
(* was recorded.  What is recorded is what was spent, unless a request was *)
(* cut off or a cost is missing.                                           *)
Entry(t) ==
  /\ stage[t] = "settled" => reservations[RunOf[t]] = recorded[t]
  /\ Paid(t) /\ stage[t] # "settled" => reservations[RunOf[t]] = Stop

Books(t) ==
  /\ asked[t] > 0 => stage[t] \in Working \cup {"settled", "kept", "failed"}
  /\ stage[t] = "asking" => asked[t] > 0
  /\ stage[t] = "settled" => known[t]
  /\ known[t] /\ t \notin cut /\ stage[t] # "failed" => recorded[t] = spent[t]

Inv ==
  /\ TypeOK
  /\ OnePaidTrialPerRun
  /\ \A t \in Trials : Entry(t) /\ Books(t)

LEMMA InitInv == ASSUME Init PROVE Inv
BY RunType, CostType
DEF Init, Inv, TypeOK, OnePaidTrialPerRun, Entry, Books, Paid, Working, Stages

(* A step of one trial that leaves the budget alone.                       *)
LEMMA OwnStep ==
  ASSUME Inv, NEW t \in Trials,
         ReadKey(t) \/ Validate(t) \/ Ask(t) \/ Answer(t) \/ Limit(t) \/ TimeOut(t) \/ Fail(t),
         TypeOK'
  PROVE  Inv'
<1> USE RunType, CostType DEF Go, Stages, Working, loop, Charge
<1>1. UNCHANGED reservations /\ (Paid(t)' => Paid(t))
  BY DEF ReadKey, Validate, Ask, Answer, Limit, TimeOut, Fail, Inv, TypeOK, Paid, Books
<1>2. /\ stage'[t] # "settled" /\ stage[t] # "settled"
      /\ \A u \in Trials \ {t} :
           /\ stage'[u] = stage[u] /\ asked'[u] = asked[u] /\ recorded'[u] = recorded[u]
           /\ known'[u] = known[u] /\ spent'[u] = spent[u]
           /\ u \in cut' <=> u \in cut
  BY DEF ReadKey, Validate, Ask, Answer, Limit, TimeOut, Fail, Inv, TypeOK
<1>3. Books(t)'
  BY DEF ReadKey, Validate, Ask, Answer, Limit, TimeOut, Fail, Inv, TypeOK, Books
<1>4. \A u \in Trials : Entry(u)' /\ Books(u)'
  BY <1>1, <1>2, <1>3 DEF Inv, Entry, Books, Paid
<1>5. OnePaidTrialPerRun'
  BY <1>1, <1>2 DEF Inv, OnePaidTrialPerRun, Paid
<1> QED
  BY <1>4, <1>5 DEF Inv

LEMMA TypeStep == ASSUME TypeOK, NEW t \in Trials,
         ReadKey(t) \/ Validate(t) \/ Ask(t) \/ Answer(t) \/ Limit(t) \/ TimeOut(t) \/ Fail(t)
                    \/ Reserve(t) \/ Settle(t)
  PROVE  TypeOK'
<1> USE RunType, CostType DEF Go, Stages, Working, loop, Charge
<1>1. CASE ReadKey(t) \/ Validate(t) \/ Ask(t) \/ Limit(t)
  BY <1>1 DEF ReadKey, Validate, Ask, Limit, TypeOK
<1>2. CASE Answer(t)
  <2>1. PICK price \in Costs, told \in BOOLEAN :
          /\ spent' = [spent EXCEPT ![t] = @ + price] /\ charged' = charged + price
          /\ recorded' = [recorded EXCEPT ![t] = @ + (IF told THEN price ELSE 0)]
          /\ known' = [known EXCEPT ![t] = @ /\ told]
          /\ stage' = [stage EXCEPT ![t] = "working"] \/ stage' = [stage EXCEPT ![t] = "returned"]
    BY <1>2 DEF Answer
  <2>2. price \in Nat /\ (IF told THEN price ELSE 0) \in Nat
    OBVIOUS
  <2>3. spent' \in [Trials -> Nat] /\ charged' \in Nat /\ recorded' \in [Trials -> Nat]
    BY <2>1, <2>2 DEF TypeOK
  <2>4. known' \in [Trials -> BOOLEAN] /\ stage' \in [Trials -> Stages]
    BY <2>1 DEF TypeOK
  <2> QED
    BY <1>2, <2>3, <2>4 DEF Answer, TypeOK
<1>3. CASE TimeOut(t) \/ Fail(t)
  BY <1>3 DEF TimeOut, Fail, TypeOK
<1>4. CASE Reserve(t) \/ Settle(t)
  BY <1>4 DEF Reserve, Settle, TypeOK
<1> QED
  BY <1>1, <1>2, <1>3, <1>4

(* Reserving: nobody has been paid for this run identity before.           *)
LEMMA ReserveStep ==
  ASSUME Inv, NEW t \in Trials, Reserve(t), TypeOK'
  PROVE  Inv'
<1> USE RunType, CostType DEF Go, Stages, Working, loop
<1>1. /\ \A u \in Trials \ {t} : stage'[u] = stage[u]
      /\ UNCHANGED <<asked, recorded, known, spent, charged, cut>>
      /\ stage[t] = "checked" /\ asked[t] = 0
  BY DEF Reserve, Inv, TypeOK, Books
<1>2. CASE stage' = [stage EXCEPT ![t] = "rejected"] /\ UNCHANGED reservations
  BY <1>1, <1>2 DEF Inv, TypeOK, OnePaidTrialPerRun, Paid, Entry, Books
<1>3. CASE /\ reservations[RunOf[t]] = Absent
           /\ reservations' = [reservations EXCEPT ![RunOf[t]] = Stop]
           /\ stage' = [stage EXCEPT ![t] = "working"]
  <2>1. \A u \in Trials : Paid(u) => RunOf[u] # RunOf[t]
    BY <1>3 DEF Inv, TypeOK, Entry
  <2>2. \A u \in Trials \ {t} : (Paid(u)' <=> Paid(u)) /\ (Entry(u) /\ Books(u))
    BY <1>1 DEF Inv, Paid
  <2>3. OnePaidTrialPerRun'
    BY <1>1, <2>1, <2>2 DEF Inv, OnePaidTrialPerRun
  <2>4. Entry(t)' /\ Books(t)'
    BY <1>1, <1>3 DEF Inv, TypeOK, Entry, Books, Paid
  <2>5. \A u \in Trials \ {t} : Entry(u)' /\ Books(u)'
    <3> SUFFICES ASSUME NEW u \in Trials \ {t} PROVE Entry(u)' /\ Books(u)'
      OBVIOUS
    <3>1. Books(u)'
      BY <1>1, <2>2 DEF Books
    <3>2. CASE Paid(u)
      <4>1. RunOf[u] \in RunIds /\ reservations'[RunOf[u]] = reservations[RunOf[u]]
        BY <1>3, <2>1, <3>2 DEF Inv, TypeOK
      <4>2. stage'[u] = stage[u] /\ recorded'[u] = recorded[u] /\ Entry(u)
        BY <1>1, <2>2
      <4> QED
        BY <2>2, <3>1, <3>2, <4>1, <4>2 DEF Entry
    <3>3. CASE ~Paid(u)
      <4>1. stage'[u] = stage[u] /\ stage[u] # "settled" /\ ~Paid(u)'
        BY <1>1, <2>2, <3>3 DEF Paid
      <4> QED
        BY <3>1, <4>1 DEF Entry
    <3> QED
      BY <3>1, <3>2, <3>3
  <2> QED
    BY <2>3, <2>4, <2>5 DEF Inv
<1> QED
  BY <1>2, <1>3 DEF Reserve

(* Settling: the entry is this trial's own.                                *)
LEMMA SettleStep ==
  ASSUME Inv, NEW t \in Trials, Settle(t), TypeOK'
  PROVE  Inv'
<1> USE RunType, CostType DEF Go, Stages, Working, loop
<1>1. /\ \A u \in Trials \ {t} : stage'[u] = stage[u]
      /\ UNCHANGED <<asked, recorded, known, spent, charged, cut>>
      /\ stage[t] = "returned" /\ Paid(t)
  BY DEF Settle, Inv, TypeOK, Paid
<1>2. /\ \A u \in Trials : Paid(u)' <=> Paid(u)
      /\ \A u \in Trials : u # t /\ Paid(u) => RunOf[u] # RunOf[t]
  <2>1. stage'[t] \in {"settled", "kept"}
    BY DEF Settle, Inv, TypeOK
  <2> QED
    BY <1>1, <2>1 DEF Inv, OnePaidTrialPerRun, Paid
<1>3. OnePaidTrialPerRun'
  BY <1>2 DEF Inv, OnePaidTrialPerRun
<1>4. Entry(t)' /\ Books(t)'
  BY <1>1 DEF Settle, Inv, TypeOK, Entry, Books, Paid
<1>5. \A u \in Trials \ {t} : Entry(u)' /\ Books(u)'
  <2> SUFFICES ASSUME NEW u \in Trials \ {t} PROVE Entry(u)' /\ Books(u)'
    OBVIOUS
  <2>1. Books(u)' /\ Entry(u)
    BY <1>1 DEF Inv, Books
  <2>2. CASE Paid(u)
    <3>1. RunOf[u] \in RunIds /\ reservations'[RunOf[u]] = reservations[RunOf[u]]
      BY <1>2, <2>2 DEF Settle, Inv, TypeOK
    <3>2. stage'[u] = stage[u] /\ recorded'[u] = recorded[u] /\ Paid(u)'
      BY <1>1, <1>2, <2>2
    <3> QED
      BY <2>1, <2>2, <3>1, <3>2 DEF Entry
  <2>3. CASE ~Paid(u)
    <3>1. stage'[u] = stage[u] /\ stage[u] # "settled" /\ ~Paid(u)'
      BY <1>1, <1>2, <2>3 DEF Paid
    <3> QED
      BY <2>1, <3>1 DEF Entry
  <2> QED
    BY <2>1, <2>2, <2>3
<1> QED
  BY <1>3, <1>4, <1>5 DEF Inv

LEMMA NextInv == ASSUME Inv, [Next]_vars PROVE Inv'
<1>1. CASE UNCHANGED vars
  BY <1>1 DEF vars, Inv, TypeOK, OnePaidTrialPerRun, Entry, Books, Paid
<1>2. CASE Next
  <2>1. PICK t \in Trials :
          ReadKey(t) \/ Validate(t) \/ Ask(t) \/ Answer(t) \/ Limit(t) \/ TimeOut(t) \/ Fail(t)
                     \/ Reserve(t) \/ Settle(t)
    BY <1>2 DEF Next
  <2>2. TypeOK'
    BY <2>1, TypeStep DEF Inv
  <2> QED
    BY <2>1, <2>2, OwnStep, ReserveStep, SettleStep
<1> QED
  BY <1>1, <1>2

LEMMA Invariant == Spec => []Inv
<1>1. Init => Inv
  BY InitInv
<1>2. Inv /\ [Next]_vars => Inv'
  BY NextInv
<1> QED
  BY <1>1, <1>2, PTL DEF Spec

(* The budget's Ref and the trials' usage stay well-formed.                *)
THEOREM TypeCorrect == Spec => []TypeOK
<1>1. Inv => TypeOK
  BY DEF Inv
<1> QED
  BY <1>1, Invariant, PTL

(* reserve is one Ref.modify that refuses a run identity it has: whatever  *)
(* the number of trials, at most one of them is paid under an identity.    *)
THEOREM PaidOnce == Spec => []OnePaidTrialPerRun
<1>1. Inv => OnePaidTrialPerRun
  BY DEF Inv
<1> QED
  BY <1>1, Invariant, PTL

LEMMA InvCovers == ASSUME Inv PROVE ReservationCovers
<1> SUFFICES ASSUME NEW t \in Trials, Paid(t), t \notin cut,
                    stage[t] = "settled" \/ spent[t] <= Stop
             PROVE  reservations[RunOf[t]] # Absent /\ spent[t] <= reservations[RunOf[t]]
  BY DEF ReservationCovers
<1>1. Entry(t) /\ Books(t) /\ TypeOK
  BY DEF Inv
<1>2. CASE stage[t] = "settled"
  BY <1>1, <1>2, CostType DEF Entry, Books, TypeOK
<1>3. CASE stage[t] # "settled"
  BY <1>1, <1>3, CostType DEF Entry, TypeOK
<1> QED
  BY <1>2, <1>3

(* What reserve sets aside and settle corrects covers what a trial costs,  *)
(* unless its responses crossed its stop or one of them never came back.   *)
THEOREM Covered == Spec => []ReservationCovers
BY InvCovers, Invariant, PTL

-----------------------------------------------------------------------------
(* The allocation.  What the provider charged is the sum of what the       *)
(* trials spent, and what is reserved, settled entries included, stays     *)
(* within the allocation as long as every trial is in order: settling such *)
(* a trial only lowers its entry.                                          *)
InOrder == cut = {} /\ \A t \in Trials : spent[t] <= Stop

Accounts ==
  /\ charged = Cardinality(Units(spent, Trials))
  /\ \A t \in Trials : spent[t] > 0 => asked[t] > 0
  /\ InOrder => ReservedCost <= Maximum

LEMMA ReservedUnits ==
  ASSUME TypeOK
  PROVE  /\ IsFiniteSet(Reserved) /\ \A r \in Reserved : reservations[r] \in Nat
         /\ ReservedCost = Cardinality(Units(reservations, Reserved))
         /\ ReservedCost \in Nat
<1>1. IsFiniteSet(Reserved) /\ \A r \in Reserved : reservations[r] \in Nat
  <2>1. Reserved \in SUBSET RunIds
    BY DEF Reserved
  <2>2. IsFiniteSet(Reserved)
    BY <2>1, CampaignFinite, FS_Subset
  <2> QED
    BY <2>2 DEF Reserved, TypeOK
<1>2. ReservedCost = SumOver(reservations, Reserved)
  BY DEF ReservedCost, SumOver
<1>3. SumOver(reservations, Reserved) = Cardinality(Units(reservations, Reserved))
  BY <1>1, SumIsUnits
<1>4. Cardinality(Units(reservations, Reserved)) \in Nat
  BY <1>1, UnitsFinite, FS_CardinalityType
<1> QED
  BY <1>1, <1>2, <1>3, <1>4

(* The same sum after a step.                                              *)
LEMMA ReservedAfter == ReservedCost' = SumOver(reservations', Reserved')
BY DEF ReservedCost, SumOver, MapThenSumSet, MapThenFoldSet

LEMMA ReservedUnchanged == ASSUME UNCHANGED reservations PROVE UNCHANGED ReservedCost
<1>1. Reserved' = Reserved
  BY DEF Reserved
<1>2. ReservedCost = SumOver(reservations, Reserved)
  BY DEF ReservedCost, SumOver
<1> QED
  BY <1>1, <1>2, ReservedAfter

LEMMA InitAccounts == ASSUME Init PROVE Accounts
<1>1. TypeOK
  BY InitInv DEF Inv
<1>2. Units(spent, Trials) = {} /\ Units(reservations, Reserved) = {}
  BY DEF Init, Units, Reserved
<1>3. ReservedCost = 0 /\ Cardinality(Units(spent, Trials)) = 0
  BY <1>1, <1>2, ReservedUnits, FS_EmptySet
<1> QED
  BY <1>3, CostType DEF Accounts, Init

(* What one trial spends more, the sum is more.                            *)
LEMMA ChargeAdds ==
  ASSUME NEW f \in [Trials -> Nat], NEW g \in [Trials -> Nat], NEW t \in Trials, NEW price \in Nat,
         g[t] = f[t] + price, \A u \in Trials \ {t} : g[u] = f[u]
  PROVE  Cardinality(Units(g, Trials)) = Cardinality(Units(f, Trials)) + price
<1> DEFINE others == Units(f, Trials \ {t})
<1>1. Units(g, Trials \ {t}) = others
  BY DEF Units
<1>2. Cardinality(Units(g, Trials)) = g[t] + Cardinality(others)
  BY <1>1, CampaignFinite, UnitsSplit
<1>3. Cardinality(Units(f, Trials)) = f[t] + Cardinality(others)
  BY CampaignFinite, UnitsSplit
<1>4. Cardinality(others) \in Nat
  <2>1. IsFiniteSet(Trials \ {t})
    BY CampaignFinite, FS_RemoveElement
  <2> QED
    BY <2>1, UnitsFinite, FS_CardinalityType
<1> QED
  BY <1>2, <1>3, <1>4

(* A step that leaves the budget alone: a trial in order after it was in   *)
(* order before it.                                                        *)
LEMMA OwnAccounts ==
  ASSUME Inv, Accounts, NEW t \in Trials,
         ReadKey(t) \/ Validate(t) \/ Ask(t) \/ Answer(t) \/ Limit(t) \/ TimeOut(t) \/ Fail(t),
         TypeOK'
  PROVE  Accounts'
<1> USE RunType, CostType
<1>1. UNCHANGED ReservedCost
  <2>1. UNCHANGED reservations
    BY DEF ReadKey, Validate, Ask, Answer, Limit, TimeOut, Fail
  <2> QED
    BY <2>1, ReservedUnchanged
<1>2. \/ UNCHANGED <<spent, charged>>
      \/ stage[t] = "asking" /\ \E price \in Costs : Charge(t, price)
  BY DEF ReadKey, Validate, Ask, Answer, Limit, TimeOut, Fail, loop
<1>3. /\ \A u \in Trials : asked'[u] >= asked[u]
      /\ cut \subseteq cut'
  BY DEF ReadKey, Validate, Ask, Answer, Limit, TimeOut, Fail, loop, Inv, TypeOK
<1>4. CASE UNCHANGED <<spent, charged>>
  BY <1>1, <1>3, <1>4 DEF Accounts, InOrder, Inv, TypeOK
<1>5. CASE stage[t] = "asking" /\ \E price \in Costs : Charge(t, price)
  <2>1. PICK price \in Nat : spent' = [spent EXCEPT ![t] = @ + price] /\ charged' = charged + price
    BY <1>5 DEF Charge
  <2>2. asked[t] > 0
    BY <1>5 DEF Inv, Books
  <2>3. charged' = Cardinality(Units(spent', Trials))
    <3>1. /\ spent \in [Trials -> Nat] /\ spent' \in [Trials -> Nat]
          /\ spent'[t] = spent[t] + price /\ \A u \in Trials \ {t} : spent'[u] = spent[u]
      BY <2>1 DEF Inv, TypeOK
    <3>2. Cardinality(Units(spent', Trials)) = Cardinality(Units(spent, Trials)) + price
      BY <3>1, ChargeAdds
    <3> QED
      BY <2>1, <3>2 DEF Accounts
  <2>4. \A u \in Trials : spent'[u] >= spent[u] /\ (u # t => spent'[u] = spent[u])
    BY <2>1 DEF Inv, TypeOK
  <2>5. \A u \in Trials : spent'[u] > 0 => asked'[u] > 0
    BY <1>3, <2>2, <2>4 DEF Accounts, Inv, TypeOK
  <2>6. InOrder' => InOrder
    BY <1>3, <2>4 DEF InOrder, Inv, TypeOK
  <2> QED
    BY <1>1, <2>3, <2>5, <2>6 DEF Accounts
<1> QED
  BY <1>2, <1>4, <1>5

LEMMA ReserveAccounts ==
  ASSUME Inv, Accounts, NEW t \in Trials, Reserve(t), TypeOK'
  PROVE  Accounts'
<1> DEFINE r == RunOf[t]
<1>1. UNCHANGED <<asked, spent, charged, cut>> /\ r \in RunIds /\ Stop \in Nat
  BY RunType, CostType DEF Reserve, loop
<1>2. CASE UNCHANGED reservations
  <2>1. UNCHANGED ReservedCost
    BY <1>2, ReservedUnchanged
  <2> QED
    BY <1>1, <2>1 DEF Accounts, InOrder
<1>3. CASE /\ reservations[r] = Absent /\ Stop <= Maximum - ReservedCost
           /\ reservations' = [reservations EXCEPT ![r] = Stop]
  <2>1. /\ r \notin Reserved /\ Reserved' = Reserved \cup {r}
        /\ reservations'[r] = Stop
        /\ \A q \in Reserved : reservations'[q] = reservations[q]
    BY <1>1, <1>3, CostType DEF Reserved, Inv, TypeOK
  <2>2. Reserved' \ {r} = Reserved /\ r \in Reserved'
    BY <2>1
  <2>3. Units(reservations', Reserved) = Units(reservations, Reserved)
    BY <2>1 DEF Units
  <2>4. /\ IsFiniteSet(Reserved') /\ \A q \in Reserved' : reservations'[q] \in Nat
        /\ ReservedCost' = Cardinality(Units(reservations', Reserved'))
    <3>1. IsFiniteSet(Reserved')
      BY <2>1, ReservedUnits, FS_AddElement DEF Inv
    <3>2. \A q \in Reserved' : reservations'[q] \in Nat
      BY DEF Reserved, TypeOK
    <3> QED
      BY <3>1, <3>2, ReservedAfter, SumIsUnits
  <2>5. ReservedCost' = Stop + ReservedCost
    BY <2>1, <2>2, <2>3, <2>4, UnitsSplit, ReservedUnits DEF Inv
  <2>6. ReservedCost' <= Maximum
    BY <1>3, <2>5, ReservedUnits, CostType DEF Inv
  <2> QED
    BY <1>1, <2>6 DEF Accounts, InOrder
<1> QED
  BY <1>2, <1>3 DEF Reserve

LEMMA SettleAccounts ==
  ASSUME Inv, Accounts, NEW t \in Trials, Settle(t), TypeOK'
  PROVE  Accounts'
<1> DEFINE r == RunOf[t]
<1>1. UNCHANGED <<asked, spent, charged, cut>> /\ r \in RunIds
  BY RunType DEF Settle, loop
<1>2. CASE UNCHANGED reservations
  <2>1. UNCHANGED ReservedCost
    BY <1>2, ReservedUnchanged
  <2> QED
    BY <1>1, <2>1 DEF Accounts, InOrder
<1>3. CASE known[t] /\ reservations' = [reservations EXCEPT ![r] = IF @ = Absent THEN @ ELSE recorded[t]]
  <2> SUFFICES ASSUME InOrder PROVE ReservedCost' <= Maximum
    BY <1>1 DEF Accounts, InOrder
  <2>1. reservations[r] = Stop
    BY DEF Settle, Inv, Entry, Paid, Working
  <2>2. recorded[t] = spent[t] /\ spent[t] <= Stop
    BY <1>3 DEF Settle, Inv, Books, InOrder
  <2>3. /\ reservations'[r] = recorded[t]
        /\ \A q \in RunIds \ {r} : reservations'[q] = reservations[q]
    BY <1>1, <1>3, <2>1, CostType DEF Inv, TypeOK
  <2>4. Reserved' = Reserved
    BY <1>1, <2>1, <2>3, CostType DEF Reserved, Inv, TypeOK
  <2>5. \A q \in Reserved : reservations'[q] \in Nat /\ reservations'[q] <= reservations[q]
    BY <2>1, <2>2, <2>3, CostType DEF Reserved, Inv, TypeOK
  <2>6. Units(reservations', Reserved) \subseteq Units(reservations, Reserved)
    <3>1. \A q \in Reserved : 1..reservations'[q] \subseteq 1..reservations[q]
      BY <2>5, ReservedUnits DEF Inv
    <3> QED
      BY <3>1 DEF Units
  <2>7. Cardinality(Units(reservations', Reserved)) <= Cardinality(Units(reservations, Reserved))
    BY <2>6, ReservedUnits, UnitsFinite, FS_Subset DEF Inv
  <2>8. ReservedCost' = Cardinality(Units(reservations', Reserved))
    <3>1. ReservedCost' = SumOver(reservations', Reserved)
      BY <2>4, ReservedAfter
    <3> QED
      BY <2>5, <3>1, ReservedUnits, SumIsUnits DEF Inv
  <2>9. Cardinality(Units(reservations', Reserved)) \in Nat
    BY <2>5, ReservedUnits, UnitsFinite, FS_CardinalityType DEF Inv
  <2> QED
    BY <2>7, <2>8, <2>9, ReservedUnits, CostType DEF Accounts, Inv
<1> QED
  BY <1>2, <1>3 DEF Settle

LEMMA NextAccounts == ASSUME Inv, Accounts, [Next]_vars, TypeOK' PROVE Accounts'
<1>1. CASE UNCHANGED vars
  <2>1. UNCHANGED ReservedCost
    BY <1>1, ReservedUnchanged DEF vars
  <2> QED
    BY <1>1, <2>1 DEF vars, Accounts, InOrder
<1>2. CASE Next
  BY <1>2, OwnAccounts, ReserveAccounts, SettleAccounts DEF Next
<1> QED
  BY <1>1, <1>2

(* What was charged fits in what is reserved: unit by unit, what a trial   *)
(* spent is covered by the entry of its own run identity, which no other   *)
(* paid trial has.                                                         *)
LEMMA ChargedWithinReserved ==
  ASSUME Inv, Accounts, InOrder
  PROVE  charged <= ReservedCost
<1> DEFINE move == [u \in Units(spent, Trials) |-> <<RunOf[u[1]], u[2]>>]
<1>1. ASSUME NEW u \in Units(spent, Trials)
      PROVE  /\ u[1] \in Trials /\ u[2] \in 1..spent[u[1]] /\ u = <<u[1], u[2]>>
             /\ Paid(u[1]) /\ RunOf[u[1]] \in Reserved
             /\ spent[u[1]] <= reservations[RunOf[u[1]]]
  <2>1. u[1] \in Trials /\ u[2] \in 1..spent[u[1]] /\ u = <<u[1], u[2]>>
    BY DEF Units
  <2>2. Paid(u[1])
    BY <2>1 DEF Accounts, Paid, Inv, TypeOK
  <2>3. ReservationCovers
    BY InvCovers
  <2>4. RunOf[u[1]] \in RunIds
    BY <2>1, RunType
  <2> QED
    BY <2>1, <2>2, <2>3, <2>4 DEF ReservationCovers, InOrder, Reserved
<1>2. ASSUME NEW u \in Units(spent, Trials)
      PROVE  move[u] \in Units(reservations, Reserved)
  <2>1. u[2] \in 1..reservations[RunOf[u[1]]]
    BY <1>1, ReservedUnits DEF Inv, TypeOK
  <2> QED
    BY <1>1, <2>1 DEF Units
<1>3. ASSUME NEW u \in Units(spent, Trials), NEW w \in Units(spent, Trials), move[u] = move[w]
      PROVE  u = w
  <2>1. RunOf[u[1]] = RunOf[w[1]] /\ u[2] = w[2]
    BY <1>3
  <2>2. u[1] = w[1]
    BY <1>1, <2>1 DEF Inv, OnePaidTrialPerRun
  <2> QED
    BY <1>1, <2>1, <2>2
<1>4. move \in Injection(Units(spent, Trials), Units(reservations, Reserved))
  BY <1>2, <1>3 DEF Injection, IsInjective
<1>5. IsFiniteSet(Units(reservations, Reserved))
  BY ReservedUnits, UnitsFinite DEF Inv
<1> QED
  BY <1>4, <1>5, FS_Injection, ReservedUnits DEF Accounts, Inv

(* The campaign stays within its allocation: as long as no trial crosses   *)
(* its stop and none is cut off, the provider never charges more than      *)
(* reserve has counted, whatever the trials that run at once.              *)
THEOREM WithinAllocation == Spec => []AllocationHolds
<1>1. Init => Inv /\ Accounts
  BY InitInv, InitAccounts
<1>2. Inv /\ Accounts /\ [Next]_vars => Inv' /\ Accounts'
  <2>1. Inv /\ [Next]_vars => Inv' /\ TypeOK'
    BY NextInv DEF Inv
  <2> QED
    BY <2>1, NextAccounts
<1>3. Inv /\ Accounts => AllocationHolds
  <2> SUFFICES ASSUME Inv, Accounts, InOrder PROVE charged <= Maximum
    BY DEF AllocationHolds, InOrder
  <2>1. charged <= ReservedCost /\ ReservedCost <= Maximum
    BY ChargedWithinReserved DEF Accounts
  <2> QED
    BY <2>1, ReservedUnits, CostType DEF Inv, TypeOK
<1> QED
  BY <1>1, <1>2, <1>3, PTL DEF Spec

-----------------------------------------------------------------------------
(* To the budget, a trial that publishes its evidence is one that does not:*)
(* each step of TrialEvidence is a step of CampaignBudget or leaves it     *)
(* alone.                                                                  *)
THEOREM TrialsImplement == TrialSpec => Spec
<1>1. TrialInit => Init
  BY DEF TrialInit
<1>2. [TrialNext]_trialVars => [Next]_vars
  <2> SUFFICES ASSUME [TrialNext]_trialVars PROVE [Next]_vars
    OBVIOUS
  <2>1. CASE UNCHANGED trialVars
    BY <2>1 DEF trialVars
  <2>2. ASSUME NEW t \in Trials, RunAgent(t) PROVE Next
    BY <2>2 DEF RunAgent, Next
  <2>3. ASSUME NEW t \in Trials, Submit(t) \/ Verify(t) \/ Persist(t) \/ Abandon(t)
        PROVE  UNCHANGED vars
    BY <2>3 DEF Submit, Verify, Persist, LookForDirectory, Claim, WriteTemporary,
                PublishEvidence, Abandon
  <2> QED
    BY <2>1, <2>2, <2>3 DEF TrialNext
<1> QED
  BY <1>1, <1>2, PTL DEF TrialSpec, Spec

(* Hence a run identity is paid for once, however trials publish.          *)
THEOREM TrialsPaidOnce == TrialSpec => []OnePaidTrialPerRun
BY TrialsImplement, PaidOnce, PTL

(* Whoever is behind the claim of an identity is alone there.              *)
Publishing == {"write", "rename", "valid"}

EvidenceInv ==
  /\ step \in [Trials -> Steps]
  /\ evidence \in [RunIds -> Trials \cup {NoTrial}]
  /\ \A t \in Trials : step[t] \in Publishing => RunOf[t] \in claimed
  /\ \A t, u \in Trials :
       step[t] \in Publishing /\ step[u] \in Publishing /\ RunOf[t] = RunOf[u] => t = u
  /\ OutcomeStands

(* A step of a trial's runner that is neither the claim nor the rename and *)
(* gives no trial the claim that had none.                                 *)
LEMMA RunnerStep ==
  ASSUME EvidenceInv, NEW t \in Trials, NEW to \in Steps,
         step' = [step EXCEPT ![t] = to], UNCHANGED <<claimed, evidence>>,
         to # "valid", to \in Publishing => step[t] \in Publishing
  PROVE  EvidenceInv'
BY DEF EvidenceInv, Publishing, OutcomeStands

(* The manifest of a valid outcome is never replaced: the directory is     *)
(* made once, so that one trial at most ever writes below it.              *)
THEOREM EvidenceOfTrials == TrialSpec => []OutcomeStands
<1>1. TrialInit => EvidenceInv
  BY UnpaidType DEF TrialInit, EvidenceInv, Steps, Publishing, OutcomeStands
<1>2. EvidenceInv /\ [TrialNext]_trialVars => EvidenceInv'
  <2> SUFFICES ASSUME EvidenceInv, [TrialNext]_trialVars PROVE EvidenceInv'
    OBVIOUS
  <2>1. CASE UNCHANGED publication
    BY <2>1 DEF publication, EvidenceInv, OutcomeStands
  <2>2. ASSUME NEW t \in Trials, Submit(t) \/ Verify(t) \/ LookForDirectory(t) \/ WriteTemporary(t)
        PROVE  EvidenceInv'
    BY <2>2, RunnerStep DEF Submit, Verify, LookForDirectory, WriteTemporary, StepTo, Steps, Publishing
  <2>3. ASSUME NEW t \in Trials, Abandon(t) PROVE EvidenceInv'
    BY <2>3, RunnerStep DEF Abandon, Steps, Publishing
  <2>4. ASSUME NEW t \in Trials, Claim(t) PROVE EvidenceInv'
    <3>1. CASE RunOf[t] \in claimed
      <4>1. step' = [step EXCEPT ![t] = "refused"] /\ UNCHANGED <<claimed, evidence>>
        BY <2>4, <3>1 DEF Claim, StepTo
      <4> QED
        BY <4>1, RunnerStep DEF Steps, Publishing
    <3>2. CASE RunOf[t] \notin claimed
      <4>1. /\ step' = [step EXCEPT ![t] = "write"] /\ step[t] = "claim"
            /\ claimed' = claimed \cup {RunOf[t]} /\ UNCHANGED evidence
        BY <2>4, <3>2 DEF Claim, StepTo
      <4>2. \A u \in Trials : step[u] \in Publishing => RunOf[u] # RunOf[t]
        BY <3>2 DEF EvidenceInv
      <4> QED
        BY <4>1, <4>2 DEF EvidenceInv, Publishing, Steps, OutcomeStands
    <3> QED
      BY <3>1, <3>2
  <2>5. ASSUME NEW t \in Trials, PublishEvidence(t) PROVE EvidenceInv'
    <3>1. /\ step[t] = "rename" /\ step' = [step EXCEPT ![t] = "valid"]
          /\ evidence' = [evidence EXCEPT ![RunOf[t]] = t] /\ UNCHANGED claimed
      BY <2>5 DEF PublishEvidence, StepTo
    <3>2. \A u \in Trials \ {t} : step[u] \in Publishing => RunOf[u] # RunOf[t]
      BY <3>1 DEF EvidenceInv, Publishing
    <3> QED
      BY <3>1, <3>2, RunType DEF EvidenceInv, Publishing, Steps, OutcomeStands
  <2>6. ASSUME NEW t \in Trials, RunAgent(t) PROVE UNCHANGED publication
    BY <2>6 DEF RunAgent
  <2> QED
    BY <2>1, <2>2, <2>3, <2>4, <2>5, <2>6 DEF TrialNext, Persist, trialVars
<1>3. EvidenceInv => OutcomeStands
  BY DEF EvidenceInv
<1> QED
  BY <1>1, <1>2, <1>3, PTL DEF TrialSpec

-----------------------------------------------------------------------------
(* AgentLoop.  The invariant relates what the loop has been answered, the  *)
(* marks it has made of it and the turn it is in.                          *)

LEMMA EmptyIsSeq == \A S : <<>> \in Seq(S)
OBVIOUS

Tools == {"read", "edit", "check", "submit"}
Marks == {"edit"} \cup Statuses

Seen == transcript \o results

LoopReply ==
  reply \in [out : Nat, total : Nat, cost : Nat, told : BOOLEAN, calls : Seq(Tools), idle : BOOLEAN]

(* Of the candidate that the last mark stands for.                         *)
CheckedNow ==
  \A i \in DOMAIN Seen :
    Seen[i] # "edit" /\ (\A j \in DOMAIN Seen : Seen[j] = "edit" => j < i) => content = checked

LoopTypes == LoopTypeOK /\ LoopReply /\ results \in Seq(Marks)

Tokens ==
  /\ phase \in {"compacting", "requesting"} => ~TokensUsedUp
  /\ phase = "tools" => reply.cost \in ResponseCosts /\ out + reply.out <= MaxOutput
  /\ out < MaxOutput + MaxSummary

Order ==
  /\ phase \in {"compacting", "ready", "requesting", "tools"} => turn < MaxTurns
  /\ phase \notin {"tools", "done"} => results = <<>>
  /\ phase # "done" => ~interrupted

LoopInv == LoopTypes /\ Tokens /\ Order /\ CheckedNow /\ SubmitsWhatPassed /\ LastRequestAnnounced

LEMMA InitLoop == ASSUME LoopInit PROVE LoopInv
<1> USE LimitsPositive, DataTypes DEF LoopInit
<1>1. LoopTypes
  <2>1. NoReply \in [out : Nat, total : Nat, cost : Nat, told : BOOLEAN, calls : Seq(Tools), idle : BOOLEAN]
    BY EmptyIsSeq DEF NoReply
  <2>2. LoopTypeOK /\ results \in Seq(Marks)
    <3>1. costAvailable \in BOOLEAN /\ submitted \in BOOLEAN /\ interrupted \in BOOLEAN
      OBVIOUS
    <3>2. turn \in 0..MaxTurns /\ out \in Nat /\ total \in Nat /\ cost \in Nat /\ billed \in Nat
      OBVIOUS
    <3>3. transcript \in Seq({"edit"} \cup Statuses) /\ results \in Seq(Marks)
      BY EmptyIsSeq
    <3> QED
      BY <3>1, <3>2, <3>3 DEF LoopTypeOK, Phases, Exits
  <2> QED
    BY <2>1, <2>2 DEF LoopTypes, LoopReply
<1>2. Tokens /\ Order /\ SubmitsWhatPassed /\ LastRequestAnnounced
  BY DEF Tokens, Order, SubmitsWhatPassed, LastRequestAnnounced
<1>3. CheckedNow
  BY DEF CheckedNow, Seen
<1> QED
  BY <1>1, <1>2, <1>3 DEF LoopInv

(* What a response holds.                                                  *)
LEMMA RepliesType ==
  ASSUME NEW limit \in Nat, NEW lists \in SUBSET Seq(Tools), NEW r \in Replies(limit, lists)
  PROVE  /\ r \in [out : Nat, total : Nat, cost : Nat, told : BOOLEAN, calls : Seq(Tools), idle : BOOLEAN]
         /\ r.out \in 0..limit /\ r.cost \in ResponseCosts /\ r.calls \in lists
<1>1. PICK o \in 0..limit, i \in Inputs, c \in ResponseCosts, told \in BOOLEAN, list \in lists :
        r = [out |-> o, total |-> i + o, cost |-> c, told |-> told, calls |-> list, idle |-> list = <<>>]
  BY DEF Replies
<1>2. i + o \in Nat /\ o \in Nat /\ c \in Nat /\ (list = <<>>) \in BOOLEAN /\ list \in Seq(Tools)
  BY DataTypes
<1> QED
  BY <1>1, <1>2

LEMMA ClampType ==
  ASSUME LoopTypes, out < MaxOutput
  PROVE  Clamp \in Nat /\ out + Clamp <= MaxOutput
BY LimitsPositive, MinOfTwo DEF Clamp, LoopTypes, LoopTypeOK

LEMMA UsageType ==
  ASSUME LoopTypeOK, NEW r, r.out \in Nat, r.total \in Nat, r.cost \in Nat, r.told \in BOOLEAN,
         AddUsage(r)
  PROVE  /\ out' \in Nat /\ total' \in Nat /\ cost' \in Nat /\ billed' \in Nat
         /\ costAvailable' \in BOOLEAN
<1>1. costAvailable' \in BOOLEAN
  BY Zenon DEF AddUsage, LoopTypeOK
<1> DEFINE told == IF r.told THEN r.cost ELSE 0
<1>2. told \in Nat
  OBVIOUS
<1>3. out' = out + r.out /\ total' = total + r.total /\ cost' = cost + told /\ billed' = billed + r.cost
  BY Zenon DEF AddUsage
<1> HIDE DEF told
<1>4. out' \in Nat /\ total' \in Nat /\ cost' \in Nat /\ billed' \in Nat
  <2>1. out \in Nat /\ total \in Nat /\ cost \in Nat /\ billed \in Nat
    BY DEF LoopTypeOK
  <2>2. \A m, n \in Nat : m + n \in Nat
    OBVIOUS
  <2> QED
    BY <1>2, <1>3, <2>1, <2>2, Zenon
<1> QED
  BY <1>1, <1>4

LEMMA TypesStep == ASSUME LoopInv, LoopNext PROVE LoopTypes'
<1> USE LimitsPositive, DataTypes DEF Phases, Exits
<1>0. LoopTypeOK /\ LoopReply /\ results \in Seq(Marks)
  BY DEF LoopInv, LoopTypes
<1>1. CASE Begin
  <2>1. LoopTypeOK'
    BY <1>0, <1>1 DEF Begin, Return, LoopTypeOK, usage, workspace
  <2> QED
    BY <1>0, <1>1, <2>1 DEF Begin, LoopTypes, LoopReply
<1>2. CASE Summarized
  <2>1. PICK r \in Replies(MaxSummary, {<<>>}) : AddUsage(r)
    BY <1>2 DEF Summarized
  <2>2. r.out \in Nat /\ r.total \in Nat /\ r.cost \in Nat /\ r.told \in BOOLEAN
    <3>1. {<<>>} \in SUBSET Seq(Tools) /\ MaxSummary \in Nat
      BY EmptyIsSeq
    <3>2. r \in [out : Nat, total : Nat, cost : Nat, told : BOOLEAN, calls : Seq(Tools), idle : BOOLEAN]
      BY <3>1, RepliesType
    <3> QED
      BY <3>2
  <2>3. out' \in Nat /\ total' \in Nat /\ cost' \in Nat /\ billed' \in Nat /\ costAvailable' \in BOOLEAN
    BY <1>0, <2>1, <2>2, UsageType DEF LoopTypeOK
  <2> QED
    BY <1>0, <1>2, <2>3 DEF Summarized, LoopTypes, LoopTypeOK, LoopReply, workspace
<1>3. CASE Request
  <2>1. LoopTypeOK'
    BY <1>0, <1>3 DEF Request, Return, LoopTypeOK, usage, workspace
  <2> QED
    BY <1>0, <1>3, <2>1 DEF Request, LoopTypes, LoopReply
<1>4. CASE Respond
  <2>1. LoopReply'
    <3>1. Clamp \in Nat
      BY <1>4, ClampType DEF Respond, LoopInv, Tokens, TokensUsedUp, LoopTypes, LoopTypeOK
    <3> QED
      BY <1>4, <3>1, RepliesType DEF Respond, LoopReply, Tools
  <2> QED
    BY <1>0, <1>4, <2>1 DEF Respond, LoopTypes, LoopTypeOK, usage, workspace
<1>5. CASE RunTool
  <2>1. LoopReply'
    <3>1. reply.calls # <<>> /\ Tail(reply.calls) \in Seq(Tools)
      BY <1>0, <1>5 DEF RunTool, LoopReply
    <3> QED
      BY <1>0, <1>5, <3>1 DEF RunTool, LoopReply
  <2>2. content' \in Contents /\ checked' \in Contents /\ submitted' \in BOOLEAN /\ results' \in Seq(Marks)
    <3>1. Head(reply.calls) \in Tools
      BY <1>0, <1>5 DEF RunTool, LoopReply
    <3>2. \A mark \in Marks : Append(results, mark) \in Seq(Marks)
      BY <1>0
    <3> QED
      BY <1>0, <1>5, <3>1, <3>2 DEF RunTool, LoopTypeOK, workspace, Tools, Marks
  <2> QED
    BY <1>0, <1>5, <2>1, <2>2 DEF RunTool, LoopTypes, LoopTypeOK, usage
<1>6. CASE Decide
  <2>1. out' \in Nat /\ total' \in Nat /\ cost' \in Nat /\ billed' \in Nat /\ costAvailable' \in BOOLEAN
    BY <1>0, <1>6, UsageType DEF Decide, LoopTypeOK, LoopReply
  <2>2. transcript' \in Seq(Marks) /\ LoopReply' /\ results' \in Seq(Marks)
    <3>1. transcript' = transcript \o results
      BY <1>6 DEF Decide
    <3>2. transcript \in Seq(Marks)
      BY <1>0 DEF LoopTypeOK, Marks
    <3>3. reply' = NoReply /\ results' = <<>>
      BY <1>6 DEF Decide
    <3> QED
      BY <1>0, <3>1, <3>2, <3>3, EmptyIsSeq DEF LoopReply, NoReply
  <2>3. turn' \in 0..MaxTurns /\ phase' \in Phases /\ exit' \in Exits /\ (exit' # "none" <=> phase' = "done")
    <3>1. turn \in Nat /\ turn < MaxTurns
      BY <1>0, <1>6 DEF Decide, LoopInv, Order, LoopTypeOK
    <3>2. exit' \in {"token-limit", "cost-unavailable", "cost-limit", "submitted", "model-finished", "none"}
      BY <1>6 DEF Decide, Exit
    <3> QED
      BY <1>6, <3>1, <3>2 DEF Decide
  <2> QED
    BY <1>0, <1>6, <2>1, <2>2, <2>3 DEF Decide, LoopTypes, LoopTypeOK, workspace, Marks
<1>7. CASE LoopTimesOut \/ LoopFails
  <2>1. billed' \in Nat
    <3>1. ChargeLost
      BY <1>7 DEF LoopTimesOut, LoopFails
    <3>2. phase = "tools" \/ phase \in {"compacting", "requesting"} \/ ~Lost
      BY DEF Lost
    <3>3. \/ billed' = billed + reply.cost \/ UNCHANGED billed
          \/ \E c \in ResponseCosts : billed' = billed + c
      BY <3>1, <3>2 DEF ChargeLost
    <3>4. reply.cost \in Nat /\ billed \in Nat
      BY <1>0 DEF LoopReply, LoopTypeOK
    <3> QED
      BY <3>3, <3>4
  <2>2. /\ phase' = "done" /\ exit' \in {"duration-limit", "error"} /\ interrupted' \in BOOLEAN
        /\ UNCHANGED <<turn, out, total, cost, costAvailable, workspace, transcript, guidance, reply, results>>
    <3>1. interrupted' \in BOOLEAN
      <4>1. Lost \in BOOLEAN
        BY DEF Lost
      <4> QED
        BY <1>0, <1>7, <4>1, Zenon DEF LoopTimesOut, LoopFails, LoopTypeOK
    <3> QED
      BY <1>7, <3>1 DEF LoopTimesOut, LoopFails, Return
  <2> QED
    BY <1>0, <2>1, <2>2 DEF LoopTypes, LoopTypeOK, LoopReply, workspace
<1> QED
  BY <1>1, <1>2, <1>3, <1>4, <1>5, <1>6, <1>7 DEF LoopNext

(* Tokens: the limits are looked at before each request, which is clamped. *)
LEMMA TokensStep == ASSUME LoopInv, LoopNext, LoopTypes' PROVE Tokens'
<1> USE LimitsPositive, DataTypes
<1>0. LoopTypeOK /\ LoopReply /\ Tokens /\ LoopTypeOK'
  BY DEF LoopInv, LoopTypes
<1>1. CASE Begin \/ Request
  BY <1>0, <1>1 DEF Begin, Request, Return, Tokens, TokensUsedUp, usage
<1>2. CASE Summarized
  <2>1. PICK r \in Replies(MaxSummary, {<<>>}) : out' = out + r.out
    BY <1>2 DEF Summarized, AddUsage
  <2>2. r.out \in 0..MaxSummary
    <3>1. {<<>>} \in SUBSET Seq(Tools) /\ MaxSummary \in Nat
      BY EmptyIsSeq
    <3> QED
      BY <3>1, RepliesType
  <2>3. phase = "compacting" /\ phase' = "ready"
    BY <1>2 DEF Summarized
  <2> QED
    <3>1. out \in Nat /\ out < MaxOutput
      <4>1. out \in Nat /\ MaxOutput \in Nat
        BY <1>0 DEF LoopTypeOK
      <4>2. ~(out >= MaxOutput)
        BY <1>0, <2>3 DEF Tokens, TokensUsedUp
      <4> QED
        BY <4>1, <4>2
    <3>2. out' < MaxOutput + MaxSummary
      <4>1. \A a, b, c, d \in Nat : a < b /\ c <= d => a + c < b + d
        OBVIOUS
      <4>2. r.out \in Nat /\ r.out <= MaxSummary /\ MaxOutput \in Nat /\ MaxSummary \in Nat
        BY <2>2
      <4> QED
        BY <2>1, <3>1, <4>1, <4>2
    <3> QED
      BY <2>3, <3>2 DEF Tokens
<1>3. CASE Respond
  <2>0. /\ phase = "requesting" /\ phase' = "tools" /\ out' = out /\ total' = total
        /\ reply' \in Replies(Clamp, CallLists)
    BY <1>3 DEF Respond, usage
  <2>1. out < MaxOutput /\ Clamp \in Nat /\ out + Clamp <= MaxOutput
    <3>1. out \in Nat /\ MaxOutput \in Nat
      BY <1>0 DEF LoopTypeOK
    <3>2. ~(out >= MaxOutput)
      BY <1>0, <2>0 DEF Tokens, TokensUsedUp
    <3>3. out < MaxOutput
      BY <3>1, <3>2
    <3> QED
      BY <3>3, ClampType DEF LoopInv
  <2>2. reply'.out \in 0..Clamp /\ reply'.cost \in ResponseCosts
    BY <2>0, <2>1, RepliesType DEF Tools
  <2>3. out' + reply'.out <= MaxOutput /\ out' < MaxOutput + MaxSummary
    <3>1. \A a, b, c, d, e \in Nat : a + c <= b /\ d \in 0..c /\ a < b => a + d <= b /\ a < b + e
      OBVIOUS
    <3>2. out \in Nat
      BY <1>0 DEF LoopTypeOK
    <3>3. MaxOutput \in Nat /\ MaxSummary \in Nat
      OBVIOUS
    <3>4. reply'.out \in Nat
      BY <2>1, <2>2
    <3> QED
      BY <2>0, <2>1, <2>2, <3>1, <3>2, <3>3, <3>4
  <2> QED
    BY <2>0, <2>2, <2>3 DEF Tokens
<1>4. CASE RunTool
  <2>1. reply'.out = reply.out /\ reply'.cost = reply.cost /\ phase = "tools" /\ UNCHANGED <<phase, out>>
    BY <1>0, <1>4 DEF RunTool, LoopReply, usage
  <2> QED
    BY <1>0, <2>1 DEF Tokens
<1>5. CASE Decide
  <2>1. out' = out + reply.out /\ phase = "tools" /\ phase' \in {"check", "done"}
    BY <1>5 DEF Decide, AddUsage
  <2> QED
    <3>1. out \in Nat /\ reply.out \in Nat /\ out + reply.out <= MaxOutput
      BY <1>0, <2>1 DEF Tokens, LoopTypeOK, LoopReply
    <3>2. out' < MaxOutput + MaxSummary
      BY <2>1, <3>1
    <3> QED
      BY <2>1, <3>2 DEF Tokens
<1>6. CASE LoopTimesOut \/ LoopFails
  BY <1>0, <1>6 DEF LoopTimesOut, LoopFails, Return, Tokens
<1> QED
  BY <1>1, <1>2, <1>3, <1>4, <1>5, <1>6 DEF LoopNext

LEMMA OrderStep == ASSUME LoopInv, LoopNext PROVE Order'
<1>1. LoopTypeOK /\ Order
  BY DEF LoopInv, LoopTypes
<1>2. CASE Begin \/ Summarized \/ Request \/ Respond
  BY <1>1, <1>2, LimitsPositive
  DEF Begin, Summarized, Request, Respond, Return, Order, LoopTypeOK
<1>3. CASE RunTool \/ Decide
  <2>1. phase = "tools" /\ UNCHANGED interrupted /\ ~interrupted /\ turn < MaxTurns
    BY <1>1, <1>3 DEF RunTool, Decide, Order
  <2>2. \/ phase' = "tools" /\ UNCHANGED turn
        \/ phase' \in {"check", "done"} /\ results' = <<>>
    BY <1>3, <2>1 DEF RunTool, Decide
  <2> QED
    BY <2>1, <2>2 DEF Order
<1>4. CASE LoopTimesOut \/ LoopFails
  BY <1>1, <1>4 DEF LoopTimesOut, LoopFails, Return, Order
<1> QED
  BY <1>2, <1>3, <1>4 DEF LoopNext

(* The candidate that a check is about is the one there is, until an edit. *)
LEMMA CheckedStep == ASSUME LoopInv, LoopNext PROVE CheckedNow'
<1>0. LoopTypeOK /\ LoopReply /\ results \in Seq(Marks) /\ CheckedNow
  BY DEF LoopInv, LoopTypes
<1>1. transcript \in Seq(Marks)
  BY <1>0 DEF LoopTypeOK, Marks
<1>2. CASE UNCHANGED <<transcript, results, content, checked>>
  BY <1>0, <1>2 DEF CheckedNow, Seen
<1>3. CASE Begin \/ Summarized \/ Request \/ Respond \/ LoopTimesOut \/ LoopFails
  BY <1>2, <1>3 DEF Begin, Summarized, Request, Respond, LoopTimesOut, LoopFails, workspace
<1>4. CASE RunTool
  <2>1. Head(reply.calls) \in Tools
    BY <1>0, <1>4 DEF RunTool, LoopReply
  <2>2. CASE Head(reply.calls) \in {"read", "submit"}
    BY <1>2, <1>4, <2>2 DEF RunTool, workspace
  <2>3. CASE Head(reply.calls) = "check"
    <3>1. checked' = content'
      BY <1>4, <2>3 DEF RunTool
    <3> QED
      BY <3>1 DEF CheckedNow
  <2>4. CASE Head(reply.calls) = "edit"
    <3>1. results' = Append(results, "edit") /\ UNCHANGED transcript
      BY <1>4, <2>4 DEF RunTool
    <3> DEFINE last == Len(Seen) + 1
    <3>2. Seen' = Append(Seen, "edit")
      BY <1>0, <1>1, <3>1 DEF Seen, Marks
    <3>3. Seen \in Seq(Marks)
      BY <1>0, <1>1 DEF Seen
    <3>4. DOMAIN Seen' = 1..last /\ Seen'[last] = "edit"
      BY <3>2, <3>3
    <3> QED
      BY <3>3, <3>4 DEF CheckedNow
  <2> QED
    BY <2>1, <2>2, <2>3, <2>4 DEF Tools
<1>5. CASE Decide
  <2>1. transcript' = transcript \o results /\ results' = <<>> /\ UNCHANGED <<content, checked>>
    BY <1>5 DEF Decide, workspace
  <2>2. Seen' = Seen
    BY <1>0, <1>1, <2>1 DEF Seen
  <2> QED
    BY <1>0, <2>1, <2>2 DEF CheckedNow
<1> QED
  BY <1>3, <1>4, <1>5 DEF LoopNext

(* What the guidance takes for the last check is the last mark of all.     *)
LEMMA FreshMeansChecked ==
  ASSUME LoopInv, phase = "ready", Changed, ~Stale
  PROVE  content = checked
<1> DEFINE n == Len(transcript)
<1>1. transcript \in Seq(Marks) /\ results = <<>>
  BY DEF LoopInv, LoopTypes, LoopTypeOK, Marks, Order
<1>2. Seen = transcript /\ n \in Nat /\ DOMAIN transcript = 1..n
  BY <1>1 DEF Seen
<1>3. /\ Mutations \cup {0} \in SUBSET (0..n) /\ Checks \cup {0} \in SUBSET (0..n)
      /\ Mutations \cup {0} # {} /\ Checks \cup {0} # {}
  BY <1>2 DEF Mutations, Checks
<1>4. \A i \in Mutations : i <= LatestMutation
  BY <1>2, <1>3, MaxOfBounded DEF LatestMutation
<1>5. LatestCheck \in Checks \cup {0} /\ LatestMutation \in Mutations \cup {0}
  BY <1>2, <1>3, MaxOfBounded DEF LatestMutation, LatestCheck
<1>6. LatestCheck # 0 /\ ~(LatestMutation > LatestCheck)
  BY DEF Stale
<1>7. LatestCheck \in Checks
  BY <1>5, <1>6
<1>8. LatestCheck \in DOMAIN transcript /\ transcript[LatestCheck] # "edit"
  BY <1>7 DEF Checks, Mutations
<1>9. ASSUME NEW j \in DOMAIN transcript, transcript[j] = "edit" PROVE j < LatestCheck
  <2>1. j \in Mutations
    BY <1>9 DEF Mutations
  <2>2. j <= LatestMutation /\ j # LatestCheck
    BY <1>4, <1>7, <2>1 DEF Checks
  <2>3. LatestMutation \in Nat /\ LatestCheck \in Nat /\ j \in Nat
    BY <1>2, <1>3, <1>5
  <2> QED
    BY <1>6, <2>2, <2>3
<1> QED
  BY <1>2, <1>8, <1>9 DEF LoopInv, CheckedNow

LEMMA GuidanceStep ==
  ASSUME LoopInv, LoopNext, LoopTypes'
  PROVE  SubmitsWhatPassed' /\ LastRequestAnnounced'
<1>1. CASE Request
  <2>1. PICK estimate \in Estimates : guidance' = Guidance(estimate)
    BY <1>1 DEF Request
  <2>2. phase = "ready" /\ UNCHANGED <<turn, content, checked, transcript>>
    BY <1>1 DEF Request, workspace
  <2>3. Guidance(estimate) = "submit now" => Changed /\ ~Stale /\ Status = "passed"
    BY DEF Guidance
  <2>4. SubmitsWhatPassed'
    <3>1. Status' = Status
      BY <2>2 DEF Status, LatestCheck, Checks, Mutations
    <3>2. guidance' = "submit now" => content = checked /\ Status = "passed"
      BY <2>1, <2>2, <2>3, FreshMeansChecked
    <3> QED
      BY <2>2, <3>1, <3>2 DEF SubmitsWhatPassed
  <2>5. ASSUME turn = MaxTurns - 1
        PROVE  Guidance(estimate) \in {"submit now", "final", "final check"}
    <3>1. Remaining(estimate) = 1
      <4> DEFINE left == (MaxTotal - total) \div estimate
      <4>1. left \in Int
        <5>1. estimate \in Nat /\ estimate > 0 /\ MaxTotal - total \in Int
          <6>1. estimate \in Nat \ {0}
            BY DataTypes
          <6>2. MaxTotal \in Nat /\ total \in Nat
            BY LimitsPositive DEF LoopInv, LoopTypes, LoopTypeOK
          <6> QED
            BY <6>1, <6>2
        <5> QED
          BY <5>1
      <4>2. Max({1, left}) \in Int /\ Max({1, left}) >= 1
        BY <4>1, MaxOfTwo
      <4>3. MaxTurns - turn = 1
        <5>1. MaxTurns \in Nat
          BY LimitsPositive
        <5> QED
          BY <2>5, <5>1
      <4> DEFINE most == Max({1, left})
      <4>4. Remaining(estimate) = Min({MaxTurns - turn, most})
        BY DEF Remaining
      <4>5. most \in Int /\ most >= 1
        BY <4>2
      <4> HIDE DEF most
      <4>6. Min({1, most}) = 1
        <5>1. 1 \in Int
          OBVIOUS
        <5>2. Min({1, most}) = IF 1 <= most THEN 1 ELSE most
          BY <4>5, <5>1, MinOfTwo
        <5> QED
          BY <4>5, <5>2
      <4> QED
        BY <4>3, <4>4, <4>6
    <3> QED
      BY <3>1 DEF Guidance
  <2> QED
    BY <2>1, <2>2, <2>4, <2>5 DEF LastRequestAnnounced
<1>2. ASSUME phase' # "requesting" PROVE SubmitsWhatPassed' /\ LastRequestAnnounced'
  BY <1>2 DEF SubmitsWhatPassed, LastRequestAnnounced
<1>3. ASSUME ~Request PROVE phase' # "requesting"
  BY <1>3 DEF LoopNext, Begin, Summarized, Respond, RunTool, Decide, LoopTimesOut, LoopFails, Return, Lost
<1> QED
  BY <1>1, <1>2, <1>3

LEMMA NextLoop == ASSUME LoopInv, [LoopNext]_loopVars PROVE LoopInv'
<1>1. CASE UNCHANGED loopVars
  <2>1. LoopTypes' /\ Tokens' /\ Order'
    BY <1>1 DEF loopVars, usage, workspace, LoopInv, LoopTypes, LoopTypeOK, LoopReply, Tokens, TokensUsedUp, Order
  <2>2. CheckedNow'
    BY <1>1 DEF loopVars, workspace, LoopInv, CheckedNow, Seen
  <2>3. SubmitsWhatPassed' /\ LastRequestAnnounced'
    BY <1>1 DEF loopVars, workspace, LoopInv, SubmitsWhatPassed, Status, LatestCheck, Checks, Mutations,
                LastRequestAnnounced
  <2> QED
    BY <2>1, <2>2, <2>3 DEF LoopInv
<1>2. CASE LoopNext
  BY <1>2, TypesStep, TokensStep, OrderStep, CheckedStep, GuidanceStep DEF LoopInv
<1> QED
  BY <1>1, <1>2

LEMMA LoopInvariant == LoopSpec => []LoopInv
<1>1. LoopInit => LoopInv
  BY InitLoop
<1>2. LoopInv /\ [LoopNext]_loopVars => LoopInv'
  BY NextLoop
<1> QED
  BY <1>1, <1>2, PTL DEF LoopSpec

(* What AgentLoop.ts keeps of a trial is of its type.                      *)
THEOREM LoopTypesCorrect == LoopSpec => []LoopTypeOK
<1>1. LoopInv => LoopTypeOK
  BY DEF LoopInv, LoopTypes
<1> QED
  BY <1>1, LoopInvariant, PTL

(* The agent is told to submit only what the last check has passed: no     *)
(* edit comes between a check that is the latest mark and the request.     *)
THEOREM SubmissionChecked == LoopSpec => []SubmitsWhatPassed
<1>1. LoopInv => SubmitsWhatPassed
  BY DEF LoopInv
<1> QED
  BY <1>1, LoopInvariant, PTL

(* Whatever its estimate, the last request there is a turn for says so.    *)
THEOREM LastRequestTold == LoopSpec => []LastRequestAnnounced
<1>1. LoopInv => LastRequestAnnounced
  BY DEF LoopInv
<1> QED
  BY <1>1, LoopInvariant, PTL

(* With a clamp per request, and the limits looked at before and after a   *)
(* compaction, the output of a trial stays within one summary of its limit.*)
THEOREM TokensLimited == LoopSpec => LimitsHold
<1>1. LoopInv /\ LoopInv' /\ [LoopNext]_loopVars =>
        [/\ phase' \in {"compacting", "requesting"} /\ phase' # phase => ~TokensUsedUp
         /\ out' < MaxOutput + MaxSummary]_loopVars
  <2> SUFFICES ASSUME LoopInv, LoopInv', LoopNext
               PROVE  /\ phase' \in {"compacting", "requesting"} /\ phase' # phase => ~TokensUsedUp
                      /\ out' < MaxOutput + MaxSummary
    OBVIOUS
  <2>1. out' < MaxOutput + MaxSummary
    BY DEF LoopInv, Tokens
  <2>2. phase' \in {"compacting", "requesting"} /\ phase' # phase => ~TokensUsedUp
    BY DEF LoopNext, Begin, Summarized, Request, Respond, RunTool, Decide, LoopTimesOut, LoopFails, Return
  <2> QED
    BY <2>1, <2>2
<1> QED
  BY <1>1, LoopInvariant, PTL DEF LoopSpec, LimitsHold

(* What the budget of the campaign relies on: each step of the loop is a   *)
(* step of the promise or leaves it alone.                                 *)
LEMMA PromiseKept ==
  ASSUME LoopInv, LoopNext
  PROVE  [Promise!Next]_(Promise!vars)
<1> USE DEF Lost
<1>0. LoopTypeOK /\ LoopReply /\ Order /\ Tokens
  BY DEF LoopInv, LoopTypes
<1>1. CASE Begin
  BY <1>0, <1>1 DEF Begin, Return, usage, Promise!Limit, Promise!Ask, Promise!Next, Promise!vars
<1>2. CASE Summarized
  <2>1. PICK r \in Replies(MaxSummary, {<<>>}) : AddUsage(r)
    BY <1>2 DEF Summarized
  <2>2. r.cost \in ResponseCosts /\ r.told \in BOOLEAN
    <3>1. {<<>>} \in SUBSET Seq(Tools) /\ MaxSummary \in Nat
      BY EmptyIsSeq, LimitsPositive
    <3>2. /\ r \in [out : Nat, total : Nat, cost : Nat, told : BOOLEAN, calls : Seq(Tools), idle : BOOLEAN]
          /\ r.cost \in ResponseCosts
      BY <3>1, RepliesType
    <3> QED
      BY <3>2
  <2>3. phase = "compacting" /\ phase' = "ready" /\ UNCHANGED interrupted
    BY <1>2 DEF Summarized
  <2>4. Promise!Answer
    BY <2>1, <2>2, <2>3 DEF AddUsage, Promise!Answer
  <2> QED
    BY <2>4 DEF Promise!Next
<1>3. CASE Request
  BY <1>0, <1>3 DEF Request, Return, usage, Promise!Limit, Promise!Ask, Promise!Next, Promise!vars
<1>4. CASE Respond \/ RunTool
  BY <1>0, <1>4 DEF Respond, RunTool, usage, Promise!vars
<1>5. CASE Decide
  <2>1. phase = "tools" /\ AddUsage(reply) /\ UNCHANGED interrupted
    BY <1>5 DEF Decide
  <2>2. reply.cost \in ResponseCosts /\ reply.told \in BOOLEAN
    BY <1>0, <2>1 DEF Tokens, LoopReply
  <2>3. \/ phase' = "check" /\ costAvailable' /\ cost' < CostStop
        \/ phase' = "done" /\ exit' # "error"
    <3>1. exit' = Exit
      BY <1>5 DEF Decide
    <3>2. exit' = "none" => phase' = "check" /\ costAvailable' /\ cost' < CostStop
      <4>1. cost' \in Nat /\ CostStop \in Nat
        BY TypesStep, LimitsPositive DEF LoopTypes, LoopTypeOK
      <4>2. exit' = "none" => costAvailable' /\ ~(cost' >= CostStop)
        BY <3>1, Zenon DEF Exit
      <4> QED
        BY <1>5, <4>1, <4>2 DEF Decide
    <3>3. exit' # "none" => phase' = "done" /\ exit' # "error"
      BY <1>5, <3>1 DEF Decide, Exit
    <3> QED
      BY <3>2, <3>3
  <2>4. Promise!Answer
    BY <2>1, <2>2, <2>3 DEF AddUsage, Promise!Answer
  <2> QED
    BY <2>4 DEF Promise!Next
<1>6. CASE LoopTimesOut \/ LoopFails
  <2>1. UNCHANGED <<cost, costAvailable>> /\ phase # "done" /\ phase' = "done"
    BY <1>6 DEF LoopTimesOut, LoopFails, Return
  <2>2. IF Lost THEN \E c \in ResponseCosts : billed' = billed + c ELSE UNCHANGED billed
    <3>1. ChargeLost
      BY <1>6 DEF LoopTimesOut, LoopFails
    <3>2. phase = "tools" => reply.cost \in ResponseCosts
      BY <1>0 DEF Tokens
    <3> QED
      BY <3>1, <3>2 DEF ChargeLost
  <2>3. CASE LoopTimesOut
    <3>1. exit' = "duration-limit" /\ interrupted' = Lost /\ ~interrupted
      BY <1>0, <2>1, <2>3 DEF LoopTimesOut, Return, Order
    <3>2. Promise!TimeOut
      BY <2>1, <2>2, <3>1 DEF Promise!TimeOut, Promise!GiveUp
    <3> QED
      BY <3>2 DEF Promise!Next
  <2>4. CASE LoopFails
    <3>1. exit' = "error" /\ Lost /\ UNCHANGED interrupted
      BY <2>4 DEF LoopFails, Return
    <3>2. Promise!Fail
      BY <2>1, <2>2, <3>1 DEF Promise!Fail, Promise!GiveUp
    <3> QED
      BY <3>2 DEF Promise!Next
  <2> QED
    BY <1>6, <2>3, <2>4
<1> QED
  BY <1>1, <1>2, <1>3, <1>4, <1>5, <1>6 DEF LoopNext

(* The loop refines what the budget takes it to do.                        *)
THEOREM LoopRefines == LoopSpec => ImplementsPromise
<1>1. LoopInit => Promise!Init
  BY DEF LoopInit, Promise!Init, Lost
<1>2. LoopInv /\ [LoopNext]_loopVars => [Promise!Next]_(Promise!vars)
  <2> SUFFICES ASSUME LoopInv, [LoopNext]_loopVars PROVE [Promise!Next]_(Promise!vars)
    OBVIOUS
  <2>1. CASE UNCHANGED loopVars
    BY <2>1 DEF loopVars, usage, Promise!vars, Lost
  <2>2. CASE LoopNext
    BY <2>2, PromiseKept
  <2> QED
    BY <2>1, <2>2
<1> QED
  BY <1>1, <1>2, LoopInvariant, PTL DEF LoopSpec, ImplementsPromise, Promise!Spec

-----------------------------------------------------------------------------
(* ContextCompaction.  A prompt is the task followed by whole turns, in    *)
(* their order and without a gap, behind all that has been summarized; a   *)
(* compaction keeps a suffix that starts with a turn.                      *)

Roles == {"system", "user", "assistant", "tool"}
Msg == [role : Roles, turn : Nat, size : Nat]

(* Of a prompt p: calls and results stand side by side; turns ascend,      *)
(* without a gap up to turn n; and all of them came after the old ones.    *)
Whole(p) ==
  /\ \A i \in DOMAIN p : p[i].role = "tool" =>
       i > 1 /\ p[i - 1].role = "assistant" /\ p[i - 1].turn = p[i].turn
  /\ \A i \in Assistants(p) : i < Len(p) /\ p[i + 1].role = "tool"

Ascending(p) == \A i, j \in Assistants(p) : i < j => p[i].turn < p[j].turn

NoGap(p, n) ==
  \A i \in Assistants(p) :
    p[i].turn \in 1..n /\ \A t \in p[i].turn..n : \E j \in Assistants(p) : p[j].turn = t

After(p, old) == \A i \in Assistants(p), s \in old : s < p[i].turn

Shape(p, n, old) == Whole(p) /\ Ascending(p) /\ NoGap(p, n) /\ After(p, old)

(* The task is at the head of every prompt.                                *)
Task(p) ==
  /\ p \in Seq(Msg) /\ Len(p) >= 2
  /\ p[1] = Fixed[1] /\ p[2] = Fixed[2]

ContextInv ==
  /\ half \in {"prepare", "request"} /\ turns \in Nat
  /\ Task(prompt) /\ summarized \subseteq 1..turns
  /\ Shape(prompt, turns, summarized)

(* A prompt that keeps, behind three other messages, what starts with a    *)
(* turn, is as well formed, and what it drops is older than what it keeps. *)
LEMMA SuffixKeepsShape ==
  ASSUME NEW p \in Seq(Msg), NEW n \in Nat, NEW old \in SUBSET Nat, Shape(p, n, old),
         NEW q \in Assistants(p) \cup {Len(p) + 1}, q >= 3,
         NEW new \in Seq(Msg), Len(new) = Len(p) - q + 4,
         \A j \in 4..Len(new) : new[j] = p[j + q - 4],
         \A j \in 1..3 : new[j].role \in {"system", "user"},
         NEW more \in SUBSET {p[i].turn : i \in {i \in Assistants(p) : i < q}}
  PROVE  Shape(new, n, old \cup more)
<1>1. /\ DOMAIN p = 1..Len(p) /\ DOMAIN new = 1..Len(new) /\ Len(p) \in Nat /\ q \in Nat
      /\ Len(new) \in Nat /\ Len(new) >= 3
  BY DEF Assistants
<1>0. /\ \A j \in 4..Len(new) : j \in Nat /\ j + q - 4 \in 1..Len(p) /\ j + q - 4 >= q
      /\ \A i \in 1..Len(p) : i >= q => i - q + 4 \in 4..Len(new) /\ (i - q + 4) + q - 4 = i
  <2> DEFINE a == Len(p)
             b == Len(new)
  <2>1. a \in Nat /\ q \in Nat /\ q >= 3 /\ b = a - q + 4
    BY <1>1
  <2> HIDE DEF a, b
  <2>2. \A j \in 4..b : j \in Nat /\ j + q - 4 \in 1..a /\ j + q - 4 >= q
    BY <2>1
  <2>3. \A i \in 1..a : i >= q => i - q + 4 \in 4..b /\ (i - q + 4) + q - 4 = i
    BY <2>1
  <2> QED
    BY <2>2, <2>3 DEF a, b
<1>2. ASSUME NEW j \in Assistants(new)
      PROVE  /\ j \in 4..Len(new) /\ j + q - 4 \in Assistants(p) /\ new[j] = p[j + q - 4]
  <2>1. j \in 1..Len(new) /\ new[j].role = "assistant"
    BY <1>1 DEF Assistants
  <2>2. j \in 4..Len(new)
    BY <1>1, <2>1
  <2>3. j + q - 4 \in 1..Len(p)
    BY <1>1, <2>2
  <2> QED
    BY <1>1, <2>1, <2>2, <2>3 DEF Assistants
<1>3. ASSUME NEW i \in Assistants(p), i >= q
      PROVE  i - q + 4 \in Assistants(new) /\ new[i - q + 4] = p[i]
  <2>1. i \in 1..Len(p) /\ p[i].role = "assistant"
    BY <1>1 DEF Assistants
  <2>2. i - q + 4 \in 4..Len(new) /\ (i - q + 4) + q - 4 = i
    BY <1>0, <1>3, <2>1
  <2>3. new[i - q + 4] = p[i]
    BY <2>2
  <2>4. i - q + 4 \in DOMAIN new
    <3>1. DOMAIN new = 1..Len(new) /\ \A x : x \in 4..Len(new) => x \in 1..Len(new)
      BY <1>1
    <3> QED
      BY <2>2, <3>1
  <2> DEFINE x == i - q + 4
  <2>5. x \in DOMAIN new /\ new[x] = p[i]
    BY <2>3, <2>4
  <2> HIDE DEF x
  <2>6. x \in Assistants(new)
    BY <2>1, <2>5 DEF Assistants
  <2> QED
    BY <2>3, <2>6 DEF x
<1>4. Whole(new)
  <2>1. ASSUME NEW j \in DOMAIN new, new[j].role = "tool"
        PROVE  j > 1 /\ new[j - 1].role = "assistant" /\ new[j - 1].turn = new[j].turn
    <3>0. j \in 4..Len(new)
      <4>1. j \in 1..Len(new) /\ j \notin 1..3
        BY <1>1, <2>1
      <4> QED
        BY <1>1, <4>1
    <3>1. new[j] = p[j + q - 4] /\ j + q - 4 \in 1..Len(p)
      BY <1>0, <3>0
    <3>2. /\ p[(j + q - 4) - 1].role = "assistant"
          /\ p[(j + q - 4) - 1].turn = p[j + q - 4].turn
      BY <1>1, <2>1, <3>1 DEF Shape, Whole
    <3>3. j # 4
      <4>1. SUFFICES ASSUME j = 4 PROVE FALSE
        OBVIOUS
      <4>2. p[q].role = "tool" /\ q \in 1..Len(p)
        <5>1. j + q - 4 = q
          <6>1. q \in Int
            BY <1>1
          <6> QED
            BY <4>1, <6>1
        <5> QED
          BY <2>1, <3>1, <5>1
      <4> QED
        BY <1>1, <4>2 DEF Assistants
    <3>4. j - 1 \in 4..Len(new) /\ (j - 1) + q - 4 = (j + q - 4) - 1
      <4>1. q \in Int /\ Len(new) \in Int /\ j \in Int
        BY <1>1, <3>0
      <4>2. \A a, b, c \in Int : a \in 4..b /\ a # 4 => a - 1 \in 4..b /\ (a - 1) + c - 4 = (a + c - 4) - 1
        OBVIOUS
      <4> QED
        BY <3>0, <3>3, <4>1, <4>2
    <3>5. new[j - 1] = p[(j + q - 4) - 1]
      BY <3>4
    <3>6. j > 1
      BY <1>1, <3>0
    <3> QED
      BY <3>1, <3>2, <3>5, <3>6
  <2>2. ASSUME NEW j \in Assistants(new) PROVE j < Len(new) /\ new[j + 1].role = "tool"
    <3>1. j \in 4..Len(new) /\ j + q - 4 \in Assistants(p)
      BY <1>2
    <3>2. j + q - 4 < Len(p) /\ p[(j + q - 4) + 1].role = "tool"
      BY <3>1 DEF Shape, Whole
    <3>3. j < Len(new) /\ j + 1 \in 4..Len(new) /\ (j + 1) + q - 4 = (j + q - 4) + 1
      <4>1. j \in Nat /\ j >= 4 /\ j + q - 4 < Len(p)
        BY <1>0, <3>1, <3>2
      <4>2. j < Len(new)
        BY <1>1, <4>1
      <4>3. \A k, l \in Nat : k >= 4 /\ k < l =>
              k + 1 \in 4..l /\ (k + 1) + q - 4 = (k + q - 4) + 1
        BY <1>1
      <4> QED
        BY <1>1, <4>1, <4>2, <4>3
    <3>4. new[j + 1] = p[(j + q - 4) + 1]
      BY <3>3
    <3> QED
      BY <3>2, <3>3, <3>4
  <2> QED
    BY <2>1, <2>2 DEF Whole
<1>5. Ascending(new)
  <2> SUFFICES ASSUME NEW i \in Assistants(new), NEW j \in Assistants(new), i < j
               PROVE  new[i].turn < new[j].turn
    BY DEF Ascending
  <2>1. i + q - 4 < j + q - 4
    BY <1>1, <1>2
  <2> QED
    BY <1>2, <2>1 DEF Shape, Ascending
<1>6. NoGap(new, n)
  <2> SUFFICES ASSUME NEW i \in Assistants(new)
               PROVE  /\ new[i].turn \in 1..n
                      /\ \A t \in new[i].turn..n : \E j \in Assistants(new) : new[j].turn = t
    BY DEF NoGap
  <2> DEFINE k == i + q - 4
  <2>1. k \in Assistants(p) /\ new[i] = p[k] /\ k >= q /\ k \in Nat
    BY <1>1, <1>2
  <2>2. p[k].turn \in 1..n /\ \A t \in p[k].turn..n : \E j \in Assistants(p) : p[j].turn = t
    BY <2>1 DEF Shape, NoGap
  <2>3. ASSUME NEW t \in p[k].turn..n PROVE \E j \in Assistants(new) : new[j].turn = t
    <3>1. PICK j \in Assistants(p) : p[j].turn = t
      BY <2>2
    <3>2. j >= k
      <4>1. j \in Nat /\ k \in Nat /\ p[j] \in Msg /\ p[k] \in Msg
        BY <1>1, <2>1, <3>1 DEF Assistants
      <4>2. p[j].turn \in Nat /\ p[k].turn \in Nat
        BY <4>1 DEF Msg
      <4>3. p[j].turn >= p[k].turn
        BY <2>2, <3>1, <4>2
      <4>4. j < k => p[j].turn < p[k].turn
        BY <2>1, <3>1 DEF Shape, Ascending
      <4>5. ~(p[j].turn < p[k].turn)
        BY <4>2, <4>3
      <4>6. \A a, b \in Nat : ~(a < b) => a >= b
        OBVIOUS
      <4> HIDE DEF k
      <4> QED
        BY <4>1, <4>4, <4>5, <4>6
    <3>3. j >= q
      BY <1>1, <2>1, <3>2 DEF Assistants
    <3> QED
      BY <1>3, <3>1, <3>3
  <2> QED
    BY <2>1, <2>2, <2>3
<1>7. After(new, old \cup more)
  <2> SUFFICES ASSUME NEW j \in Assistants(new), NEW s \in old \cup more
               PROVE  s < new[j].turn
    BY DEF After
  <2>1. j + q - 4 \in Assistants(p) /\ new[j] = p[j + q - 4] /\ j + q - 4 >= q
    BY <1>1, <1>2
  <2>2. CASE s \in old
    BY <2>1, <2>2 DEF Shape, After
  <2>3. CASE s \in more
    <3>1. PICK i \in Assistants(p) : i < q /\ p[i].turn = s
      BY <2>3
    <3>2. i < j + q - 4
      BY <1>1, <1>2, <2>1, <3>1 DEF Assistants
    <3> QED
      BY <2>1, <3>1, <3>2 DEF Shape, Ascending
  <2> QED
    BY <2>2, <2>3
<1> QED
  BY <1>4, <1>5, <1>6, <1>7 DEF Shape

(* What Prepare keeps is a suffix of the prompt that starts with a turn.   *)
LEMMA FromElements ==
  ASSUME NEW p \in Seq(Msg), NEW i \in 1..(Len(p) + 1)
  PROVE  /\ From(p, i) \in Seq(Msg) /\ Len(From(p, i)) = Len(p) - i + 1
         /\ \A j \in 1..(Len(p) - i + 1) : From(p, i)[j] = p[j + i - 1]
<1>1. i \in Int /\ Len(p) \in Int /\ \A k \in i..Len(p) : p[k] \in Msg
  OBVIOUS
<1>2. /\ SubSeq(p, i, Len(p)) \in Seq(Msg)
      /\ Len(SubSeq(p, i, Len(p))) = IF i <= Len(p) THEN Len(p) - i + 1 ELSE 0
      /\ \A j \in 1..(Len(p) - i + 1) : SubSeq(p, i, Len(p))[j] = p[i + j - 1]
  BY <1>1, SubSeqProperties
<1>3. \A j \in 1..(Len(p) - i + 1) : i + j - 1 = j + i - 1
  OBVIOUS
<1> QED
  BY <1>2, <1>3 DEF From

LEMMA StartOfTurn ==
  ASSUME NEW p \in Seq(Msg)
  PROVE  RecentStart(p) \in Assistants(p) \cup {Len(p) + 1}
<1> DEFINE enough == {i \in DOMAIN p : /\ Size(From(p, i)) >= Keep
                                      /\ \E a \in Assistants(p) : a >= i}
           back == Max(enough \cup {1})
           starts == {a \in Assistants(p) : a >= back} \cup {Len(p) + 1}
<1>0. Assistants(p) \subseteq Nat /\ Len(p) + 1 \in Nat
  BY DEF Assistants
<1>1. starts \in SUBSET Nat /\ starts # {}
  BY <1>0
<1>2. Min(starts) \in starts
  <2> HIDE DEF starts
  <2> QED
    BY <1>1, MinOfNaturals
<1>3. RecentStart(p) = Min(starts)
  BY DEF RecentStart
<1> QED
  BY <1>2, <1>3

LEMMA FitIsSuffix ==
  ASSUME NEW checkpoint, NEW p \in Seq(Msg)
  PROVE  \E i \in Assistants(p) \cup {1, Len(p) + 1} :
           /\ Fit(checkpoint, p) = From(p, i)
           /\ \/ i = Len(p) + 1
              \/ Size(Fixed) + checkpoint.size + Size(From(p, i)) <= Target
<1> DEFINE fits(i) == Size(Fixed) + checkpoint.size + Size(From(p, i)) <= Target
           starts == {i \in Assistants(p) \cup {1} : fits(i)} \cup {Len(p) + 1}
<1>0. Assistants(p) \subseteq Nat /\ 1 \in Nat /\ Len(p) + 1 \in Nat
  BY DEF Assistants
<1>1. starts \in SUBSET Nat /\ starts # {}
  BY <1>0
<1>2. Min(starts) \in starts
  <2> HIDE DEF starts
  <2> QED
    BY <1>1, MinOfNaturals
<1>3. Fit(checkpoint, p) = From(p, Min(starts))
  BY DEF Fit
<1> QED
  BY <1>2, <1>3

EachSize(messages) == [i \in DOMAIN messages |-> messages[i].size]

(* The estimate of a prompt is the sum of its messages'.                   *)
LEMMA SizeIsTotal ==
  ASSUME NEW messages \in Seq(Msg)
  PROVE  EachSize(messages) \in Seq(Nat) /\ Size(messages) = Total(EachSize(messages))
<1> DEFINE n == Len(messages)
           w == EachSize(messages)
           count == [s \in SUBSET (1..n) |-> Cardinality(Units(w, s))]
           unfolds(g) == g = [s \in SUBSET (1..n) |->
                               IF s = {} THEN 0 ELSE g[s \ {Max(s)}] + messages[Max(s)].size]
           sum == CHOOSE g : unfolds(g)
<1>0. n \in Nat /\ DOMAIN messages = 1..n /\ \A i \in 1..n : messages[i] \in Msg
  OBVIOUS
<1>1. w = [i \in 1..n |-> messages[i].size] /\ \A i \in 1..n : w[i] = messages[i].size /\ w[i] \in Nat
  BY <1>0 DEF Msg, EachSize
<1>2. w \in Seq(Nat) /\ DOMAIN w = 1..n
  BY <1>0, <1>1
<1> HIDE DEF w
<1>3. count[{}] = 0
  BY FS_EmptySet DEF Units
<1>4. ASSUME NEW s \in SUBSET (1..n), s # {}
      PROVE  Max(s) \in s /\ count[s] = count[s \ {Max(s)}] + messages[Max(s)].size
  <2>1. /\ Max(s) \in s
        /\ Cardinality(Units(w, s)) = Cardinality(Units(w, s \ {Max(s)})) + w[Max(s)]
    BY <1>0, <1>1, <1>4, UnitsLast
  <2>2. w[Max(s)] = messages[Max(s)].size
    BY <1>1, <2>1
  <2>3. s \ {Max(s)} \in SUBSET (1..n)
    OBVIOUS
  <2> QED
    BY <2>1, <2>2, <2>3
<1>5. unfolds(count)
  BY <1>3, <1>4
<1>6. unfolds(sum)
  <2> HIDE DEF unfolds, count
  <2> QED
    BY <1>5
<1>7. \A s \in (SUBSET (1..n)) \ {{}} : \E x \in s : sum[s \ {x}] = count[s \ {x}] => sum[s] = count[s]
  <2> SUFFICES ASSUME NEW s \in (SUBSET (1..n)) \ {{}}
               PROVE  sum[s \ {Max(s)}] = count[s \ {Max(s)}] => sum[s] = count[s]
    BY <1>4
  <2> QED
    BY <1>4, <1>6
<1>8. sum[{}] = count[{}]
  BY <1>3, <1>6
<1>9. sum[1..n] = count[1..n]
  <2>1. IsFiniteSet(1..n)
    BY <1>0, FS_Interval
  <2> HIDE DEF sum, count, n
  <2> QED
    BY <1>7, <1>8, <2>1, FoldAgrees
<1>10. Size(messages) = sum[1..n]
  BY <1>0 DEF Size, FoldLeft, MapThenFoldSet
<1>11. Total(w) = count[1..n]
  BY <1>0, <1>2, TotalIsUnits
<1> QED
  BY <1>2, <1>9, <1>10, <1>11 DEF w

(* Estimates add up.                                                       *)
LEMMA SizeConcat ==
  ASSUME NEW s \in Seq(Msg), NEW t \in Seq(Msg)
  PROVE  Size(s \o t) = Size(s) + Size(t) /\ Size(s) \in Nat /\ Size(t) \in Nat
<1>1. s \o t \in Seq(Msg)
  OBVIOUS
<1>2. /\ EachSize(s) \in Seq(Nat) /\ EachSize(t) \in Seq(Nat) /\ EachSize(s \o t) \in Seq(Nat)
      /\ Size(s) = Total(EachSize(s)) /\ Size(t) = Total(EachSize(t)) /\ Size(s \o t) = Total(EachSize(s \o t))
  BY <1>1, SizeIsTotal
<1>3. EachSize(s \o t) = EachSize(s) \o EachSize(t)
  <2>1. /\ Len(s) \in Nat /\ Len(t) \in Nat
        /\ DOMAIN s = 1..Len(s) /\ DOMAIN t = 1..Len(t) /\ DOMAIN (s \o t) = 1..(Len(s) + Len(t))
        /\ \A i \in 1..(Len(s) + Len(t)) : (s \o t)[i] = IF i <= Len(s) THEN s[i] ELSE t[i - Len(s)]
    OBVIOUS
  <2>2. Len(EachSize(s)) = Len(s) /\ Len(EachSize(t)) = Len(t) /\ Len(EachSize(s \o t)) = Len(s) + Len(t)
    BY <2>1 DEF EachSize
  <2>3. /\ EachSize(s) \o EachSize(t) \in Seq(Nat) /\ Len(EachSize(s) \o EachSize(t)) = Len(s) + Len(t)
        /\ \A i \in 1..(Len(s) + Len(t)) : (EachSize(s) \o EachSize(t))[i] =
              IF i <= Len(s) THEN EachSize(s)[i] ELSE EachSize(t)[i - Len(s)]
    <3>1. /\ EachSize(s) \o EachSize(t) \in Seq(Nat) /\ Len(EachSize(s) \o EachSize(t)) = Len(EachSize(s)) + Len(EachSize(t))
          /\ \A i \in 1..(Len(EachSize(s)) + Len(EachSize(t))) : (EachSize(s) \o EachSize(t))[i] =
                IF i <= Len(EachSize(s)) THEN EachSize(s)[i] ELSE EachSize(t)[i - Len(EachSize(s))]
      BY <1>2, ConcatProperties
    <3> QED
      BY <2>2, <3>1
  <2>4. ASSUME NEW i \in 1..(Len(s) + Len(t))
        PROVE  EachSize(s \o t)[i] = (EachSize(s) \o EachSize(t))[i]
    <3>1. EachSize(s \o t)[i] = (s \o t)[i].size
      BY <2>1 DEF EachSize
    <3>2. CASE i <= Len(s)
      <4>1. i \in DOMAIN s /\ EachSize(s)[i] = s[i].size
        BY <2>1, <3>2 DEF EachSize
      <4> QED
        BY <2>1, <2>3, <3>1, <3>2, <4>1
    <3>3. CASE ~(i <= Len(s))
      <4>1. i - Len(s) \in DOMAIN t
        BY <2>1, <3>3
      <4>2. EachSize(t)[i - Len(s)] = t[i - Len(s)].size
        BY <4>1 DEF EachSize
      <4> QED
        BY <2>1, <2>3, <3>1, <3>3, <4>2
    <3> QED
      BY <3>2, <3>3
  <2> QED
    BY <1>2, <2>2, <2>3, <2>4, SeqEqual
<1> QED
  BY <1>2, <1>3, TotalConcat, TotalType

LEMMA SizeOfOne ==
  ASSUME NEW m \in Msg
  PROVE  Size(<<m>>) = m.size
<1>1. <<m>> \in Seq(Msg) /\ EachSize(<<m>>) = <<m.size>> /\ m.size \in Nat
  BY DEF EachSize, Msg
<1> QED
  BY <1>1, SizeIsTotal, TotalOfOne

(* What a compaction makes of a prompt.                                    *)
Compacts(p, checkpoint, old, new) ==
  LET start == RecentStart(From(p, 3)) IN
    /\ new = SubSeq(p, 1, 2) \o <<checkpoint>> \o Fit(checkpoint, From(From(p, 3), start))
    /\ old = TurnsOf(SubSeq(From(p, 3), 1, start - 1))

(* It is a suffix of the old one, behind the task and the checkpoint.      *)
LEMMA CompactionElements ==
  ASSUME NEW p, Task(p), NEW checkpoint \in Msg, checkpoint.role = "user",
         NEW old, NEW new, Compacts(p, checkpoint, old, new)
  PROVE  \E q \in Assistants(p) \cup {Len(p) + 1} :
           /\ q >= 3 /\ new \in Seq(Msg) /\ Len(new) = Len(p) - q + 4
           /\ \A j \in 4..Len(new) : new[j] = p[j + q - 4]
           /\ new[1] = p[1] /\ new[2] = p[2] /\ new[3] = checkpoint
           /\ old \subseteq {p[i].turn : i \in {i \in Assistants(p) : i < q}}
           /\ q <= Len(p) => Size(new) <= Target
<1> DEFINE history == From(p, 3)
           start == RecentStart(history)
           recent == From(history, start)
           fit == Fit(checkpoint, recent)
<1>1. /\ p \in Seq(Msg) /\ Len(p) \in Nat /\ Len(p) >= 2 /\ DOMAIN p = 1..Len(p)
      /\ 3 \in 1..(Len(p) + 1)
  BY DEF Task
<1>2. /\ history \in Seq(Msg) /\ Len(history) = Len(p) - 2 /\ DOMAIN history = 1..(Len(p) - 2)
      /\ \A j \in 1..(Len(p) - 2) : history[j] = p[j + 2]
  <2>1. /\ history \in Seq(Msg) /\ Len(history) = Len(p) - 3 + 1
        /\ \A j \in 1..(Len(p) - 3 + 1) : history[j] = p[j + 3 - 1]
    BY <1>1, FromElements
  <2>2. Len(p) - 3 + 1 = Len(p) - 2 /\ \A j \in 1..(Len(p) - 2) : j + 3 - 1 = j + 2
    BY <1>1
  <2> QED
    BY <2>1, <2>2
<1> HIDE DEF history
<1>3. /\ start \in 1..(Len(p) - 1)
      /\ start <= Len(p) - 2 => history[start].role = "assistant"
  <2>1. start \in Assistants(history) \cup {Len(history) + 1}
    BY <1>2, StartOfTurn
  <2>2. CASE start \in Assistants(history)
    BY <1>1, <1>2, <2>2 DEF Assistants
  <2>3. CASE start = Len(history) + 1
    BY <1>1, <1>2, <2>3
  <2> QED
    BY <2>1, <2>2, <2>3
<1> HIDE DEF start
<1>4. /\ recent \in Seq(Msg) /\ Len(recent) = Len(p) - 1 - start
      /\ DOMAIN recent = 1..(Len(p) - 1 - start)
      /\ \A j \in 1..(Len(p) - 1 - start) : recent[j] = p[j + start + 1]
  <2>1. start \in 1..(Len(history) + 1)
    BY <1>1, <1>2, <1>3
  <2>2. /\ recent \in Seq(Msg) /\ Len(recent) = Len(history) - start + 1
        /\ \A j \in 1..(Len(history) - start + 1) : recent[j] = history[j + start - 1]
    BY <1>2, <2>1, FromElements
  <2>3. Len(history) - start + 1 = Len(p) - 1 - start
    BY <1>1, <1>2, <1>3
  <2>4. ASSUME NEW j \in 1..(Len(p) - 1 - start) PROVE history[j + start - 1] = p[j + start + 1]
    <3>1. j + start - 1 \in 1..(Len(p) - 2) /\ (j + start - 1) + 2 = j + start + 1
      BY <1>1, <1>3
    <3> QED
      BY <1>2, <3>1
  <2> QED
    BY <2>2, <2>3, <2>4
<1> HIDE DEF recent
<1>a. /\ Len(p) \in Int /\ start \in Int /\ start >= 1 /\ start <= Len(p) - 1
      /\ Len(recent) = Len(p) - 1 - start
  BY <1>1, <1>3, <1>4
<1>5. PICK i \in Assistants(recent) \cup {1, Len(recent) + 1} :
        /\ fit = From(recent, i)
        /\ \/ i = Len(recent) + 1
           \/ Size(Fixed) + checkpoint.size + Size(From(recent, i)) <= Target
  BY <1>4, FitIsSuffix
<1>6. i \in 1..(Len(p) - start)
  <2>1. i \in 1..(Len(recent) + 1)
    BY <1>4 DEF Assistants
  <2> QED
    BY <1>a, <2>1
<1> HIDE DEF fit
<1> DEFINE q == i + start + 1
<1>7. /\ fit \in Seq(Msg) /\ Len(fit) = Len(p) - q + 1
      /\ \A j \in 1..(Len(p) - q + 1) : fit[j] = p[j + q - 1]
  <2>1. i \in 1..(Len(recent) + 1)
    BY <1>a, <1>6
  <2>2. /\ fit \in Seq(Msg) /\ Len(fit) = Len(recent) - i + 1
        /\ \A j \in 1..(Len(recent) - i + 1) : fit[j] = recent[j + i - 1]
    BY <1>4, <1>5, <2>1, FromElements
  <2>3. Len(recent) - i + 1 = Len(p) - q + 1
    BY <1>a, <1>6
  <2>4. ASSUME NEW j \in 1..(Len(p) - q + 1) PROVE recent[j + i - 1] = p[j + q - 1]
    <3>1. j + i - 1 \in 1..(Len(p) - 1 - start) /\ (j + i - 1) + start + 1 = j + q - 1
      <4>1. Len(p) \in Int /\ start \in Int /\ i \in Int /\ i >= 1
        BY <1>a, <1>6
      <4> QED
        BY <4>1
    <3> QED
      BY <1>4, <3>1
  <2> QED
    BY <2>2, <2>3, <2>4
<1>8. q \in 3..(Len(p) + 1)
  BY <1>1, <1>3, <1>6
<1>9. q \in Assistants(p) \cup {Len(p) + 1}
  <2>1. SUFFICES ASSUME q <= Len(p) PROVE p[q].role = "assistant"
    BY <1>1, <1>8 DEF Assistants
  <2>2. i \in 1..(Len(p) - 1 - start) /\ i + start + 1 = q
    BY <1>a, <1>6, <2>1
  <2>6. recent[i] = p[q]
    BY <1>4, <2>2
  <2>3. CASE i \in Assistants(recent)
    BY <2>6, <2>3 DEF Assistants
  <2>4. CASE i = 1
    <3>1. start \in 1..(Len(p) - 2) /\ start + 2 = q
      BY <1>1, <1>3, <2>2, <2>4
    <3> QED
      BY <1>2, <1>3, <3>1
  <2>5. i # Len(recent) + 1
    BY <1>a, <2>2
  <2> QED
    BY <1>5, <2>3, <2>4, <2>5
<1>10. SubSeq(p, 1, 2) = <<p[1], p[2]>> /\ p[1] \in Msg /\ p[2] \in Msg
  <2>1. 1 \in Int /\ 2 \in Int /\ (\A k \in 1..2 : p[k] \in Msg) /\ p[1] \in Msg /\ p[2] \in Msg
    BY <1>1
  <2>2. /\ SubSeq(p, 1, 2) \in Seq(Msg) /\ Len(SubSeq(p, 1, 2)) = IF 1 <= 2 THEN 2 - 1 + 1 ELSE 0
        /\ \A j \in 1..(2 - 1 + 1) : SubSeq(p, 1, 2)[j] = p[1 + j - 1]
    BY <2>1, SubSeqProperties
  <2>3. Len(SubSeq(p, 1, 2)) = 2 /\ SubSeq(p, 1, 2)[1] = p[1] /\ SubSeq(p, 1, 2)[2] = p[2]
    BY <2>2
  <2>4. <<p[1], p[2]>> \in Seq(Msg) /\ Len(<<p[1], p[2]>>) = 2
    BY <2>1
  <2>5. \A j \in 1..2 : SubSeq(p, 1, 2)[j] = <<p[1], p[2]>>[j]
    BY <2>3
  <2> QED
    BY <2>1, <2>2, <2>3, <2>4, <2>5, SeqEqual
<1>11. new = <<p[1], p[2], checkpoint>> \o fit
  BY <1>10 DEF Compacts, fit, recent, start, history
<1>12. <<p[1], p[2], checkpoint>> \in Seq(Msg) /\ Len(<<p[1], p[2], checkpoint>>) = 3
  BY <1>10
<1> HIDE DEF q
<1>13. /\ new \in Seq(Msg) /\ Len(new) = Len(p) - q + 4
       /\ \A j \in 1..Len(new) : new[j] = IF j <= 3 THEN <<p[1], p[2], checkpoint>>[j] ELSE fit[j - 3]
  <2>1. /\ new \in Seq(Msg) /\ Len(new) = 3 + Len(fit)
        /\ \A j \in 1..(3 + Len(fit)) : new[j] = IF j <= 3 THEN <<p[1], p[2], checkpoint>>[j] ELSE fit[j - 3]
    BY <1>7, <1>11, <1>12, ConcatProperties
  <2>2. 3 + Len(fit) = Len(p) - q + 4
    BY <1>1, <1>7, <1>8
  <2> QED
    BY <2>1, <2>2
<1>14. \A j \in 4..Len(new) : new[j] = p[j + q - 4]
  <2> TAKE j \in 4..Len(new)
  <2>1. j \in 1..Len(new) /\ ~(j <= 3) /\ j - 3 \in 1..(Len(p) - q + 1) /\ (j - 3) + q - 1 = j + q - 4
    <3>1. Len(new) = Len(p) - q + 4 /\ Len(p) \in Int /\ q \in Int
      BY <1>1, <1>8, <1>13
    <3> QED
      BY <3>1
  <2> QED
    BY <1>7, <1>13, <2>1
<1>15. new[1] = p[1] /\ new[2] = p[2] /\ new[3] = checkpoint
  <2>1. 1 \in 1..Len(new) /\ 2 \in 1..Len(new) /\ 3 \in 1..Len(new)
    BY <1>1, <1>8, <1>13
  <2> QED
    BY <1>13, <2>1
<1>16. old \subseteq {p[k].turn : k \in {k \in Assistants(p) : k < q}}
  <2> DEFINE before == SubSeq(history, 1, start - 1)
  <2>1. old = TurnsOf(before)
    BY DEF Compacts, start, history
  <2>2. /\ before \in Seq(Msg) /\ Len(before) = start - 1
        /\ \A j \in 1..(start - 1) : before[j] = history[j]
    <3>1. 1 \in Int /\ start - 1 \in Int /\ \A j \in 1..(start - 1) : history[j] \in Msg
      BY <1>1, <1>2, <1>3
    <3>2. /\ before \in Seq(Msg) /\ Len(before) = IF 1 <= start - 1 THEN start - 1 - 1 + 1 ELSE 0
          /\ \A j \in 1..(start - 1 - 1 + 1) : before[j] = history[1 + j - 1]
      BY <3>1, SubSeqProperties
    <3>3. start - 1 - 1 + 1 = start - 1 /\ (IF 1 <= start - 1 THEN start - 1 - 1 + 1 ELSE 0) = start - 1
          /\ \A j \in 1..(start - 1) : 1 + j - 1 = j
      BY <1>1, <1>3
    <3> QED
      BY <3>2, <3>3
  <2>3. ASSUME NEW j \in Assistants(before)
        PROVE  j + 2 \in Assistants(p) /\ j + 2 < q /\ before[j].turn = p[j + 2].turn
    <3>1. j \in 1..(start - 1) /\ before[j].role = "assistant"
      BY <2>2 DEF Assistants
    <3>2. j \in 1..(Len(p) - 2) /\ j + 2 \in 1..Len(p) /\ j + 2 < q
      BY <1>1, <1>3, <1>6, <3>1 DEF q
    <3>3. before[j] = p[j + 2]
      BY <1>2, <2>2, <3>1, <3>2
    <3> QED
      BY <1>1, <3>1, <3>2, <3>3 DEF Assistants
  <2> QED
    BY <2>1, <2>3 DEF TurnsOf
<1>17. q <= Len(p) => Size(new) <= Target
  <2>1. SUFFICES ASSUME q <= Len(p) PROVE Size(new) <= Target
    OBVIOUS
  <2>2. i # Len(recent) + 1
    BY <1>a, <1>6, <2>1 DEF q
  <2>3. Fixed \in Seq(Msg) /\ <<checkpoint>> \in Seq(Msg) /\ Fixed \o <<checkpoint>> \in Seq(Msg)
    BY DEF Fixed, Message, Msg, Roles
  <2>4. <<p[1], p[2], checkpoint>> = Fixed \o <<checkpoint>>
    BY DEF Task, Fixed
  <2>5. /\ Size(Fixed \o <<checkpoint>>) = Size(Fixed) + checkpoint.size
        /\ Size(new) = Size(Fixed \o <<checkpoint>>) + Size(fit)
    BY <1>7, <1>11, <2>3, <2>4, SizeConcat, SizeOfOne
  <2> QED
    BY <1>5, <2>2, <2>5
<1> QED
  BY <1>8, <1>9, <1>13, <1>14, <1>15, <1>16, <1>17

LEMMA ContextInitially == ContextInit => ContextInv
<1> SUFFICES ASSUME ContextInit PROVE ContextInv
  OBVIOUS
<1>1. half = "prepare" /\ turns = 0 /\ prompt = Fixed /\ summarized = {}
  BY DEF ContextInit
<1>2. Task(Fixed) /\ Assistants(Fixed) = {} /\ DOMAIN Fixed = 1..2
      /\ Fixed[1].role = "system" /\ Fixed[2].role = "user"
  BY DEF Task, Assistants, Fixed, Message, Msg, Roles
<1>3. \A i \in DOMAIN Fixed : Fixed[i].role # "tool"
  <2>1. \A i \in 1..2 : i = 1 \/ i = 2
    OBVIOUS
  <2> QED
    BY <1>2, <2>1
<1>4. Shape(Fixed, 0, {})
  BY <1>2, <1>3 DEF Shape, Whole, Ascending, NoGap, After
<1> QED
  BY <1>1, <1>2, <1>4 DEF ContextInv

LEMMA PrepareKeeps ==
  ASSUME ContextInv, Prepare
  PROVE  /\ ContextInv'
         /\ prompt' # prompt => Size(prompt') <= Target \/ Len(prompt') = 3
<1>1. /\ half' = "request" /\ turns' = turns /\ turns \in Nat
      /\ Task(prompt) /\ summarized \subseteq 1..turns /\ Shape(prompt, turns, summarized)
  BY DEF ContextInv, Prepare
<1>2. CASE prompt' = prompt /\ summarized' = summarized
  BY <1>1, <1>2 DEF ContextInv
<1>3. CASE \E size \in CheckpointSizes :
             /\ prompt' = FixedPart \o <<Message("user", 0, size)>>
                             \o Fit(Message("user", 0, size), From(History, RecentStart(History)))
             /\ summarized' = summarized \cup TurnsOf(SubSeq(History, 1, RecentStart(History) - 1))
  <2>1. PICK size \in CheckpointSizes :
          /\ prompt' = FixedPart \o <<Message("user", 0, size)>>
                          \o Fit(Message("user", 0, size), From(History, RecentStart(History)))
          /\ summarized' = summarized \cup TurnsOf(SubSeq(History, 1, RecentStart(History) - 1))
    BY <1>3
  <2> DEFINE checkpoint == Message("user", 0, size)
             old == TurnsOf(SubSeq(History, 1, RecentStart(History) - 1))
  <2>2. checkpoint \in Msg /\ checkpoint.role = "user"
    BY PolicyIsSound DEF Message, Msg, Roles
  <2>3. Compacts(prompt, checkpoint, old, prompt')
    BY <2>1 DEF Compacts, FixedPart, History
  <2> HIDE DEF checkpoint, old
  <2>4. PICK q \in Assistants(prompt) \cup {Len(prompt) + 1} :
          /\ q >= 3 /\ prompt' \in Seq(Msg) /\ Len(prompt') = Len(prompt) - q + 4
          /\ \A j \in 4..Len(prompt') : prompt'[j] = prompt[j + q - 4]
          /\ prompt'[1] = prompt[1] /\ prompt'[2] = prompt[2] /\ prompt'[3] = checkpoint
          /\ old \subseteq {prompt[i].turn : i \in {i \in Assistants(prompt) : i < q}}
          /\ q <= Len(prompt) => Size(prompt') <= Target
    BY <1>1, <2>2, <2>3, CompactionElements
  <2>5. prompt \in Seq(Msg) /\ Len(prompt) \in Nat /\ q \in 3..(Len(prompt) + 1)
    BY <1>1, <2>4 DEF Task, Assistants
  <2>6. Len(prompt') >= 3
    BY <2>4, <2>5
  <2>7. \A j \in 1..3 : prompt'[j].role \in {"system", "user"}
    <3>1. \A j \in 1..3 : j = 1 \/ j = 2 \/ j = 3
      OBVIOUS
    <3>2. prompt[1].role = "system" /\ prompt[2].role = "user"
      BY <1>1 DEF Task, Fixed, Message
    <3> QED
      BY <2>2, <2>4, <3>1, <3>2
  <2>8. Shape(prompt', turns, summarized \cup old)
    <3>1. summarized \in SUBSET Nat
      BY <1>1
    <3> QED
      BY <1>1, <2>4, <2>5, <2>7, <3>1, SuffixKeepsShape
  <2>9. Task(prompt')
    BY <1>1, <2>4, <2>6 DEF Task
  <2>10. old \subseteq 1..turns
    BY <1>1, <2>4 DEF Shape, NoGap
  <2>11. summarized' = summarized \cup old
    BY <2>1 DEF old
  <2>12. ContextInv'
    BY <1>1, <2>8, <2>9, <2>10, <2>11 DEF ContextInv
  <2>13. Size(prompt') <= Target \/ Len(prompt') = 3
    BY <2>4, <2>5
  <2> QED
    BY <2>12, <2>13
<1> QED
  BY <1>2, <1>3 DEF Prepare

(* The turn that is added is the latest.                                   *)
LEMMA AddTurnKeeps == ContextInv /\ AddTurn => ContextInv'
<1> SUFFICES ASSUME ContextInv, AddTurn PROVE ContextInv'
  OBVIOUS
<1> DEFINE n == turns
           p == prompt
<1>1. /\ half' = "prepare" /\ turns' = n + 1 /\ n \in Nat /\ summarized' = summarized
      /\ Task(p) /\ summarized \subseteq 1..n /\ Shape(p, n, summarized)
  BY DEF ContextInv, AddTurn
<1>2. PICK hint \in {<<>>, <<Message("user", n + 1, 1)>>}, calls \in CallSizes, answers \in ResultSizes :
        prompt' = p \o hint
                    \o <<Message("assistant", n + 1, calls), Message("tool", n + 1, answers)>>
  BY DEF AddTurn
<1> DEFINE a == Message("assistant", n + 1, calls)
           t == Message("tool", n + 1, answers)
           new == prompt'
<1>3. /\ a \in Msg /\ t \in Msg /\ a.role = "assistant" /\ t.role = "tool" /\ a.turn = n + 1 /\ t.turn = n + 1
  BY <1>1, PolicyIsSound DEF Message, Msg, Roles
<1>4. p \in Seq(Msg) /\ Len(p) \in Nat /\ Len(p) >= 2 /\ DOMAIN p = 1..Len(p)
  BY <1>1 DEF Task
<1>5. /\ hint \in Seq(Msg) /\ Len(hint) \in {0, 1}
      /\ Len(hint) = 1 => hint[1].role = "user"
  <2> DEFINE told == Message("user", n + 1, 1)
  <2>1. told \in Msg /\ told.role = "user"
    BY <1>1 DEF Message, Msg, Roles
  <2> HIDE DEF told
  <2>2. CASE hint = <<>>
    BY <2>2
  <2>3. CASE hint = <<told>>
    BY <2>1, <2>3
  <2> QED
    BY <1>2, <2>2, <2>3 DEF told
<1> DEFINE l == Len(p) + Len(hint)
<1> HIDE DEF a, t
<1>6. /\ new \in Seq(Msg) /\ Len(new) = l + 2 /\ l \in Nat /\ DOMAIN new = 1..(l + 2)
      /\ \A i \in 1..Len(p) : new[i] = p[i]
      /\ \A i \in (Len(p) + 1)..l : new[i].role = "user"
      /\ new[l + 1] = a /\ new[l + 2] = t
  <2>1. new = (p \o hint) \o <<a, t>> /\ <<a, t>> \in Seq(Msg) /\ Len(<<a, t>>) = 2
    BY <1>2, <1>3 DEF a, t
  <2>2. /\ p \o hint \in Seq(Msg) /\ Len(p \o hint) = l
        /\ \A i \in 1..l : (p \o hint)[i] = IF i <= Len(p) THEN p[i] ELSE hint[i - Len(p)]
    BY <1>4, <1>5, ConcatProperties
  <2>3. l \in Nat /\ l >= Len(p)
    BY <1>4, <1>5
  <2> HIDE DEF l
  <2>4. /\ new \in Seq(Msg) /\ Len(new) = l + 2
        /\ \A i \in 1..(l + 2) : new[i] = IF i <= l THEN (p \o hint)[i] ELSE <<a, t>>[i - l]
    BY <2>1, <2>2, ConcatProperties
  <2>5. new[l + 1] = a /\ new[l + 2] = t
    <3>1. l + 1 \in 1..(l + 2) /\ l + 2 \in 1..(l + 2) /\ ~(l + 1 <= l) /\ ~(l + 2 <= l)
          /\ (l + 1) - l = 1 /\ (l + 2) - l = 2
      BY <2>3
    <3> QED
      BY <2>4, <3>1
  <2>6. \A i \in 1..Len(p) : new[i] = p[i]
    <3> TAKE i \in 1..Len(p)
    <3>1. i \in 1..l /\ i \in 1..(l + 2) /\ i <= l /\ i <= Len(p)
      BY <1>4, <2>3
    <3> QED
      BY <2>2, <2>4, <3>1
  <2>7. \A i \in (Len(p) + 1)..l : new[i].role = "user"
    <3> TAKE i \in (Len(p) + 1)..l
    <3>0. i \in Int /\ Len(p) < i /\ i <= Len(p) + Len(hint) /\ Len(p) \in Int /\ Len(hint) \in {0, 1}
      BY <1>4, <1>5 DEF l
    <3>2. Len(hint) = 1 /\ i - Len(p) = 1 /\ ~(i <= Len(p))
      <4>1. \A k, m \in Int : \A g \in {0, 1} :
              m < k /\ k <= m + g => g = 1 /\ k - m = 1 /\ ~(k <= m)
        OBVIOUS
      <4> QED
        BY <3>0, <4>1
    <3>1. i \in 1..l /\ i \in 1..(l + 2) /\ i <= l /\ ~(i <= Len(p)) /\ i - Len(p) = 1 /\ Len(hint) = 1
      BY <1>4, <2>3, <3>2
    <3> QED
      BY <1>5, <2>2, <2>4, <3>1
  <2> QED
    BY <2>3, <2>4, <2>5, <2>6, <2>7
<1>7. l >= Len(p)
  BY <1>4, <1>5
<1> HIDE DEF l, p, n, new
<1>8. ASSUME NEW i \in DOMAIN new
      PROVE  \/ i \in 1..Len(p) /\ new[i] = p[i]
             \/ new[i].role = "user"
             \/ i = l + 1 /\ new[i] = a
             \/ i = l + 2 /\ new[i] = t
  <2>1. i \in 1..Len(p) \/ i \in (Len(p) + 1)..l \/ i = l + 1 \/ i = l + 2
    BY <1>4, <1>6, <1>7
  <2> QED
    BY <1>6, <2>1
<1>9. Assistants(new) = Assistants(p) \cup {l + 1}
  <2>1. Assistants(new) \subseteq Assistants(p) \cup {l + 1}
    BY <1>3, <1>4, <1>8 DEF Assistants
  <2>2. 1..Len(p) \subseteq DOMAIN new /\ l + 1 \in DOMAIN new
    BY <1>4, <1>6, <1>7
  <2>3. Assistants(p) \subseteq Assistants(new)
    BY <1>4, <1>6, <2>2 DEF Assistants
  <2>4. l + 1 \in Assistants(new)
    BY <1>3, <1>6, <2>2 DEF Assistants
  <2> QED
    BY <2>1, <2>3, <2>4
<1>10. \A i \in Assistants(p) : i \in 1..Len(p) /\ new[i] = p[i] /\ i < l + 1 /\ new[i].turn \in 1..n
  <2> TAKE i \in Assistants(p)
  <2>1. i \in 1..Len(p)
    BY <1>4 DEF Assistants
  <2>2. i < l + 1
    BY <1>4, <1>6, <1>7, <2>1
  <2> QED
    BY <1>1, <1>6, <2>1, <2>2 DEF Shape, NoGap
<1>11. Whole(new)
  <2>1. ASSUME NEW i \in DOMAIN new, new[i].role = "tool"
        PROVE  i > 1 /\ new[i - 1].role = "assistant" /\ new[i - 1].turn = new[i].turn
    <3>1. CASE i \in 1..Len(p) /\ new[i] = p[i]
      <4>1. i > 1 /\ p[i - 1].role = "assistant" /\ p[i - 1].turn = p[i].turn
        BY <1>1, <1>4, <2>1, <3>1 DEF Shape, Whole
      <4>2. i - 1 \in 1..Len(p)
        BY <1>4, <3>1, <4>1
      <4> QED
        BY <1>6, <3>1, <4>1, <4>2
    <3>2. CASE i = l + 2
      <4>1. i > 1 /\ i - 1 = l + 1
        BY <1>6, <3>2
      <4> QED
        BY <1>3, <1>6, <3>2, <4>1
    <3> QED
      BY <1>3, <1>8, <2>1, <3>1, <3>2
  <2>2. ASSUME NEW i \in Assistants(new) PROVE i < Len(new) /\ new[i + 1].role = "tool"
    <3>1. CASE i \in Assistants(p)
      <4>1. i < Len(p) /\ p[i + 1].role = "tool" /\ i \in 1..Len(p)
        BY <1>1, <1>10, <3>1 DEF Shape, Whole
      <4>2. i + 1 \in 1..Len(p) /\ i < Len(new)
        BY <1>4, <1>6, <1>7, <4>1
      <4> QED
        BY <1>6, <4>1, <4>2
    <3>2. CASE i = l + 1
      <4>1. i < Len(new) /\ i + 1 = l + 2
        BY <1>6, <3>2
      <4> QED
        BY <1>3, <1>6, <4>1
    <3> QED
      BY <1>9, <3>1, <3>2
  <2> QED
    BY <2>1, <2>2 DEF Whole
<1>12. new[l + 1].turn = n + 1
  BY <1>3, <1>6
<1>13. Ascending(new)
  <2> SUFFICES ASSUME NEW i \in Assistants(new), NEW j \in Assistants(new), i < j
               PROVE  new[i].turn < new[j].turn
    BY DEF Ascending
  <2>1. CASE i \in Assistants(p) /\ j \in Assistants(p)
    BY <1>1, <1>10, <2>1 DEF Shape, Ascending
  <2>2. CASE i \in Assistants(p) /\ j = l + 1
    <3>1. new[i].turn \in 1..n /\ new[j].turn = n + 1
      BY <1>10, <1>12, <2>2
    <3> QED
      BY <1>1, <3>1
  <2>3. i # l + 1
    <3>1. SUFFICES ASSUME i = l + 1 PROVE FALSE
      OBVIOUS
    <3>2. j \in Nat /\ j <= l + 1
      BY <1>4, <1>6, <1>7, <1>9, <1>10
    <3> QED
      BY <1>6, <3>1, <3>2
  <2> QED
    BY <1>9, <2>1, <2>2, <2>3
<1>14. NoGap(new, n + 1)
  <2> SUFFICES ASSUME NEW i \in Assistants(new)
               PROVE  /\ new[i].turn \in 1..(n + 1)
                      /\ \A u \in new[i].turn..(n + 1) : \E j \in Assistants(new) : new[j].turn = u
    BY DEF NoGap
  <2>1. CASE i \in Assistants(p)
    <3>1. new[i].turn \in 1..(n + 1) /\ new[i].turn = p[i].turn
      BY <1>1, <1>10, <2>1
    <3>2. ASSUME NEW u \in new[i].turn..(n + 1) PROVE \E j \in Assistants(new) : new[j].turn = u
      <4>1. CASE u = n + 1
        BY <1>9, <1>12, <4>1
      <4>2. CASE u # n + 1
        <5>1. u \in p[i].turn..n
          BY <1>1, <3>1, <4>2
        <5>2. PICK j \in Assistants(p) : p[j].turn = u
          BY <1>1, <2>1, <5>1 DEF Shape, NoGap
        <5> QED
          BY <1>9, <1>10, <5>2
      <4> QED
        BY <4>1, <4>2
    <3> QED
      BY <3>1, <3>2
  <2>2. CASE i = l + 1
    <3>1. new[i].turn \in 1..(n + 1) /\ \A u \in new[i].turn..(n + 1) : u = n + 1
      BY <1>1, <1>12, <2>2
    <3> QED
      BY <1>9, <1>12, <3>1
  <2> QED
    BY <1>9, <2>1, <2>2
<1>15. After(new, summarized)
  <2> SUFFICES ASSUME NEW i \in Assistants(new), NEW s \in summarized PROVE s < new[i].turn
    BY DEF After
  <2>1. CASE i \in Assistants(p)
    BY <1>1, <1>10, <2>1 DEF Shape, After
  <2>2. CASE i = l + 1
    BY <1>1, <1>12, <2>2
  <2> QED
    BY <1>9, <2>1, <2>2
<1>16. Task(new)
  <2>1. 1 \in 1..Len(p) /\ 2 \in 1..Len(p) /\ Len(new) >= 2
    BY <1>4, <1>6, <1>7
  <2> QED
    BY <1>1, <1>6, <2>1 DEF Task
<1>17. summarized \subseteq 1..(n + 1) /\ n + 1 \in Nat
  BY <1>1
<1> QED
  BY <1>1, <1>11, <1>13, <1>14, <1>15, <1>16, <1>17 DEF ContextInv, Shape, new, n, p

LEMMA ContextKeeps == ContextInv /\ [ContextNext]_contextVars => ContextInv'
<1> SUFFICES ASSUME ContextInv, [ContextNext]_contextVars PROVE ContextInv'
  OBVIOUS
<1>1. CASE Prepare
  BY <1>1, PrepareKeeps
<1>2. CASE AddTurn
  BY <1>2, AddTurnKeeps
<1>3. CASE UNCHANGED contextVars
  BY <1>3 DEF contextVars, ContextInv
<1> QED
  BY <1>1, <1>2, <1>3 DEF ContextNext

LEMMA ContextInvariant == ContextSpec => []ContextInv
BY ContextInitially, ContextKeeps, PTL DEF ContextSpec

LEMMA ContextShows == ContextInv => RecentWholeTurns
<1> SUFFICES ASSUME ContextInv PROVE RecentWholeTurns
  OBVIOUS
<1> DEFINE seen == TurnsOf(prompt)
<1>1. /\ turns \in Nat /\ Task(prompt) /\ Whole(prompt) /\ NoGap(prompt, turns) /\ After(prompt, summarized)
  BY DEF ContextInv, Shape
<1>2. seen \subseteq 1..turns /\ \A s \in seen : s..turns \subseteq seen
  BY <1>1 DEF NoGap, TurnsOf
<1>3. seen = {} \/ seen = Min(seen)..turns
  <2>1. SUFFICES ASSUME seen # {} PROVE seen = Min(seen)..turns
    OBVIOUS
  <2>2. Min(seen) \in seen /\ \A s \in seen : Min(seen) <= s
    <3>1. seen \in SUBSET Nat
      BY <1>1, <1>2
    <3> HIDE DEF seen
    <3> QED
      BY <2>1, <3>1, MinOfNaturals
  <2> DEFINE m == Min(seen)
  <2>3. m \in 1..turns /\ m..turns \subseteq seen
    BY <1>2, <2>2
  <2>4. \A s \in seen : s \in 1..turns /\ m <= s
    BY <1>2, <2>2
  <2> HIDE DEF seen, m
  <2>5. \A s \in seen : s \in m..turns
    BY <1>1, <2>3, <2>4
  <2> QED
    BY <2>3, <2>5 DEF m
<1>4. seen \cap summarized = {}
  <2>1. \A s \in seen : s \in summarized => s < s
    BY <1>1 DEF After, TurnsOf
  <2> QED
    BY <1>1, <1>2, <2>1
<1> QED
  BY <1>1, <1>3, <1>4 DEF RecentWholeTurns, Whole

(* No message is of a turn to come.                                        *)
Past ==
  /\ turns \in 0..TurnLimit /\ (half = "request" => turns < TurnLimit)
  /\ \A i \in DOMAIN prompt : prompt[i].turn \in 0..turns

LEMMA PastKept == ContextInv /\ Past /\ [ContextNext]_contextVars => Past'
<1> SUFFICES ASSUME ContextInv, Past, [ContextNext]_contextVars PROVE Past'
  OBVIOUS
<1>1. /\ turns \in Nat /\ turns \in 0..TurnLimit /\ Task(prompt) /\ prompt \in Seq(Msg) /\ Len(prompt) \in Nat
      /\ \A i \in 1..Len(prompt) : prompt[i].turn \in 0..turns
  BY DEF ContextInv, Past, Task
<1>2. CASE Prepare
  <2>1. half' = "request" /\ turns' = turns /\ turns < TurnLimit
    BY <1>2 DEF Prepare
  <2>2. CASE prompt' = prompt
    BY <2>1, <2>2 DEF Past
  <2>3. CASE \E size \in CheckpointSizes :
               prompt' = FixedPart \o <<Message("user", 0, size)>>
                           \o Fit(Message("user", 0, size), From(History, RecentStart(History)))
    <3>1. PICK size \in CheckpointSizes :
            prompt' = FixedPart \o <<Message("user", 0, size)>>
                        \o Fit(Message("user", 0, size), From(History, RecentStart(History)))
      BY <2>3
    <3> DEFINE checkpoint == Message("user", 0, size)
               old == TurnsOf(SubSeq(History, 1, RecentStart(History) - 1))
    <3>2. checkpoint \in Msg /\ checkpoint.role = "user" /\ checkpoint.turn = 0
      BY PolicyIsSound DEF Message, Msg, Roles
    <3>3. Compacts(prompt, checkpoint, old, prompt')
      BY <3>1 DEF Compacts, FixedPart, History
    <3> HIDE DEF checkpoint, old
    <3>4. PICK q \in Assistants(prompt) \cup {Len(prompt) + 1} :
            /\ q >= 3 /\ prompt' \in Seq(Msg) /\ Len(prompt') = Len(prompt) - q + 4
            /\ \A j \in 4..Len(prompt') : prompt'[j] = prompt[j + q - 4]
            /\ prompt'[1] = prompt[1] /\ prompt'[2] = prompt[2] /\ prompt'[3] = checkpoint
      BY <1>1, <3>2, <3>3, CompactionElements
    <3>5. q \in 3..(Len(prompt) + 1) /\ Len(prompt) >= 2
      BY <1>1, <3>4 DEF Task, Assistants
    <3>6. ASSUME NEW j \in 1..Len(prompt') PROVE prompt'[j].turn \in 0..turns
      <4>1. j = 1 \/ j = 2 \/ j = 3 \/ j \in 4..Len(prompt')
        OBVIOUS
      <4>2. CASE j \in 4..Len(prompt')
        <5>1. j + q - 4 \in 1..Len(prompt)
          BY <1>1, <3>4, <3>5, <4>2
        <5> QED
          BY <1>1, <3>4, <4>2, <5>1
      <4>3. 1 \in 1..Len(prompt) /\ 2 \in 1..Len(prompt) /\ 0 \in 0..turns
        BY <1>1, <3>5
      <4> QED
        BY <1>1, <3>2, <3>4, <4>1, <4>2, <4>3
    <3>7. DOMAIN prompt' = 1..Len(prompt')
      BY <3>4
    <3> QED
      BY <1>1, <2>1, <3>6, <3>7 DEF Past
  <2> QED
    BY <1>2, <2>2, <2>3 DEF Prepare
<1>3. CASE AddTurn
  <2>1. half' = "prepare" /\ turns' = turns + 1 /\ turns < TurnLimit
    BY <1>3 DEF AddTurn, Past
  <2>2. PICK hint \in {<<>>, <<Message("user", turns + 1, 1)>>}, calls \in CallSizes, answers \in ResultSizes :
          prompt' = prompt \o hint
                      \o <<Message("assistant", turns + 1, calls), Message("tool", turns + 1, answers)>>
    BY <1>3 DEF AddTurn
  <2> DEFINE New == {m \in Msg : m.turn \in 0..(turns + 1)}
             pair == <<Message("assistant", turns + 1, calls), Message("tool", turns + 1, answers)>>
  <2>3. hint \in Seq(New) /\ pair \in Seq(New)
    <3>1. turns + 1 \in 0..(turns + 1) /\ turns + 1 \in Nat
      BY <1>1
    <3>2. \A role \in Roles, size \in Nat : Message(role, turns + 1, size) \in New
      BY <3>1 DEF Message, Msg
    <3>3. calls \in Nat /\ answers \in Nat
      BY PolicyIsSound
    <3>4. /\ Message("user", turns + 1, 1) \in New /\ Message("assistant", turns + 1, calls) \in New
          /\ Message("tool", turns + 1, answers) \in New
      BY <3>2, <3>3 DEF Roles
    <3> HIDE DEF New
    <3>5. hint \in Seq(New)
      <4> DEFINE told == Message("user", turns + 1, 1)
      <4>1. told \in New
        BY <3>4
      <4> HIDE DEF told
      <4>2. <<>> \in Seq(New) /\ <<told>> \in Seq(New)
        BY <4>1
      <4>3. hint = <<>> \/ hint = <<told>>
        BY <2>2 DEF told
      <4> QED
        BY <4>2, <4>3
    <3>6. pair \in Seq(New)
      BY <3>4
    <3> QED
      BY <3>5, <3>6
  <2>4. prompt \in Seq(New)
    <3>1. \A i \in 1..Len(prompt) : prompt[i] \in New
      BY <1>1
    <3> HIDE DEF New
    <3> QED
      BY <1>1, <3>1
  <2>5. prompt' \in Seq(New)
    <3> HIDE DEF New
    <3>1. prompt \o hint \in Seq(New)
      BY <2>3, <2>4
    <3> HIDE DEF pair
    <3>2. (prompt \o hint) \o pair \in Seq(New)
      BY <2>3, <3>1
    <3> QED
      BY <2>2, <3>2 DEF pair
  <2>6. \A i \in DOMAIN prompt' : prompt'[i] \in New
    <3> HIDE DEF New
    <3> QED
      BY <2>5
  <2>7. turns + 1 \in 0..TurnLimit
    BY <1>1, <2>1, TurnsBounded
  <2> QED
    BY <2>1, <2>6, <2>7 DEF Past
<1>4. CASE UNCHANGED contextVars
  BY <1>4 DEF contextVars, Past
<1> QED
  BY <1>2, <1>3, <1>4 DEF ContextNext

(* The prompt starts with the task, and no message or checkpoint is of a   *)
(* turn to come: the types of Compaction.ts, for any number of turns.      *)
THEOREM ContextTypesCorrect == ContextSpec => []ContextTypeOK
<1>1. ContextInit => Past
  <2> SUFFICES ASSUME ContextInit PROVE Past
    OBVIOUS
  <2>1. turns = 0 /\ half = "prepare" /\ prompt = Fixed /\ 0 \in 0..TurnLimit
    BY TurnsBounded DEF ContextInit
  <2>2. DOMAIN Fixed = 1..2 /\ Fixed[1].turn = 0 /\ Fixed[2].turn = 0
    BY DEF Fixed, Message
  <2>3. \A i \in DOMAIN Fixed : Fixed[i].turn \in 0..0
    <3>1. \A i \in 1..2 : i = 1 \/ i = 2
      OBVIOUS
    <3> QED
      BY <2>2, <3>1
  <2> QED
    BY <2>1, <2>3 DEF Past
<1>2. ContextInv /\ Past => ContextTypeOK
  <2> SUFFICES ASSUME ContextInv, Past PROVE ContextTypeOK
    OBVIOUS
  <2>1. prompt \in Seq(Msg) /\ Len(prompt) >= 2 /\ Len(prompt) \in Nat /\ Task(prompt)
    BY DEF ContextInv, Task
  <2>2. ASSUME NEW i \in DOMAIN prompt
        PROVE  prompt[i] \in [role : Roles, turn : 0..turns, size : Nat]
    <3>1. prompt[i] \in Msg /\ prompt[i].turn \in 0..turns
      BY <2>1, <2>2 DEF Past
    <3> QED
      BY <3>1 DEF Msg
  <2>3. SubSeq(prompt, 1, 2) = Fixed
    <3>1. Len(SubSeq(prompt, 1, 2)) = 2 /\ DOMAIN SubSeq(prompt, 1, 2) = 1..2
      BY <2>1
    <3>2. SubSeq(prompt, 1, 2)[1] = Fixed[1] /\ SubSeq(prompt, 1, 2)[2] = Fixed[2]
      BY <2>1 DEF Task
    <3>3. Fixed \in Seq(Msg) /\ Len(Fixed) = 2
      BY DEF Fixed, Message, Msg, Roles
    <3>4. SubSeq(prompt, 1, 2) \in Seq(Msg)
      BY <2>1
    <3>5. \A j \in 1..2 : SubSeq(prompt, 1, 2)[j] = Fixed[j]
      <4>1. \A j \in 1..2 : j = 1 \/ j = 2
        OBVIOUS
      <4> QED
        BY <3>2, <4>1
    <3> QED
      BY <3>1, <3>3, <3>4, <3>5, SeqEqual
  <2> QED
    BY <2>2, <2>3 DEF ContextInv, Past, ContextTypeOK, Roles
<1> QED
  BY <1>1, <1>2, ContextInvariant, PastKept, PTL DEF ContextSpec

(* Prepare and the turns of AgentLoop, through any number of compactions:  *)
(* the agent sees whole turns, without a gap up to the latest, and none    *)
(* that a checkpoint has been made from.                                   *)
THEOREM WholeTurnsSeen == ContextSpec => []RecentWholeTurns
BY ContextInvariant, ContextShows, PTL

(* fitRecentMessages: for every policy a compacted prompt is at or below   *)
(* the target, unless nothing but the task and the checkpoint is left.     *)
THEOREM CompactionFits == ContextSpec => CompactedFits
<1>1. ContextInv /\ [ContextNext]_contextVars =>
        [half = "prepare" /\ prompt' # prompt => Size(prompt') <= Target \/ Len(prompt') = 3]_contextVars
  <2> SUFFICES ASSUME ContextInv, ContextNext, half = "prepare", prompt' # prompt
               PROVE  Size(prompt') <= Target \/ Len(prompt') = 3
    OBVIOUS
  <2>1. Prepare
    BY DEF ContextNext, AddTurn
  <2> QED
    BY <2>1, PrepareKeeps
<1> QED
  BY <1>1, ContextInvariant, PTL DEF ContextSpec, CompactedFits

-----------------------------------------------------------------------------
(* ProcessSupervisor.  Every byte is somewhere, and a stage of the caller  *)
(* tells what the drains and the processes have come to.                   *)

Bounded(b) ==
  /\ b.entries \in Seq(Nat) /\ b.omitted \in Nat
  /\ Total(b.entries) <= ByteLimit /\ Len(b.entries) <= LineLimit

Known(b) == Total(b.entries) + b.omitted

LEMMA KnownType == ASSUME NEW b, Bounded(b) PROVE Known(b) \in Nat
<1>1. Total(b.entries) \in Nat /\ b.omitted \in Nat
  BY TotalType DEF Bounded
<1> QED
  BY <1>1 DEF Known

(* retain: both limits hold after it, and what it drops it counts.         *)
LEMMA RetainAccounts ==
  ASSUME NEW b, Bounded(b), NEW bytes \in 0..ByteLimit, NEW omitted \in Nat
  PROVE  /\ Bounded(retain(b, bytes, omitted))
         /\ Known(retain(b, bytes, omitted)) = Known(b) + bytes + omitted
<1> DEFINE all == Append(b.entries, bytes)
           fits(k) == \/ k = Len(all)
                      \/ /\ Total(SubSeq(all, k, Len(all))) <= ByteLimit
                         /\ Len(all) - k + 1 <= LineLimit
           first == CHOOSE k \in DOMAIN all : fits(k) /\ \A j \in 1..(k - 1) : ~fits(j)
           r == retain(b, bytes, omitted)
<1>1. /\ b.entries \in Seq(Nat) /\ b.omitted \in Nat /\ bytes \in Nat /\ bytes <= ByteLimit
      /\ ByteLimit \in Nat /\ LineLimit \in Nat /\ LineLimit >= 1
  BY RetentionPositive DEF Bounded
<1>2. all \in Seq(Nat) /\ Total(all) = Total(b.entries) + bytes
  BY <1>1, TotalAppend
<1>3. Len(all) \in Nat /\ Len(all) >= 1 /\ DOMAIN all = 1..Len(all) /\ all[Len(all)] = bytes
  BY <1>1
<1>4. r = [entries |-> SubSeq(all, first, Len(all)),
           omitted |-> b.omitted + omitted + Total(SubSeq(all, 1, first - 1))]
  BY DEF retain
<1> HIDE DEF all, r
<1>5. first \in 1..Len(all) /\ fits(first)
  <2> DEFINE good == {k \in 1..Len(all) : fits(k)}
  <2>1. good \in SUBSET Nat /\ good # {}
    <3>1. Len(all) \in good
      BY <1>3
    <3> QED
      BY <3>1
  <2>2. Min(good) \in good /\ \A k \in good : Min(good) <= k
    <3> HIDE DEF good
    <3> QED
      BY <2>1, MinOfNaturals
  <2> DEFINE k == Min(good)
  <2> HIDE DEF k
  <2>3. k \in 1..Len(all) /\ fits(k) /\ \A j \in 1..Len(all) : fits(j) => k <= j
    BY <2>2 DEF k
  <2>4. \A j \in 1..(k - 1) : j \in 1..Len(all) /\ ~(k <= j)
    <3> HIDE DEF fits
    <3>1. k \in Int /\ k <= Len(all) /\ Len(all) \in Int
      BY <1>3, <2>3
    <3> QED
      BY <3>1
  <2>5. \E m \in DOMAIN all : fits(m) /\ \A j \in 1..(m - 1) : ~fits(j)
    BY <1>3, <2>3, <2>4
  <2>6. first \in DOMAIN all /\ fits(first)
    <3> HIDE DEF fits
    <3> QED
      BY <2>5
  <2> QED
    BY <1>3, <2>6
<1> HIDE DEF first
<1>6. /\ SubSeq(all, first, Len(all)) \in Seq(Nat)
      /\ Len(SubSeq(all, first, Len(all))) = Len(all) - first + 1
      /\ Total(all) = Total(SubSeq(all, 1, first - 1)) + Total(SubSeq(all, first, Len(all)))
      /\ Total(SubSeq(all, 1, first - 1)) \in Nat /\ Total(SubSeq(all, first, Len(all))) \in Nat
  BY <1>2, <1>5, TotalCut
<1>7. Total(SubSeq(all, first, Len(all))) <= ByteLimit /\ Len(all) - first + 1 <= LineLimit
  <2>1. CASE first = Len(all)
    <3>1. Len(SubSeq(all, first, Len(all))) = 1
      BY <1>3, <1>6, <2>1
    <3>2. SubSeq(all, first, Len(all))[1] = bytes
      <4>1. first \in Int /\ Len(all) \in Int /\ \A i \in first..Len(all) : all[i] \in Nat
        <5>1. first \in Int /\ first >= 1 /\ Len(all) \in Int
          <6> HIDE DEF fits
          <6> QED
            BY <1>3, <1>5
        <5>2. \A i \in first..Len(all) : i \in 1..Len(all)
          BY <5>1
        <5> QED
          BY <1>2, <5>1, <5>2
      <4>2. \A i \in 1..(Len(all) - first + 1) : SubSeq(all, first, Len(all))[i] = all[first + i - 1]
        BY <4>1, SubSeqProperties
      <4>3. 1 \in 1..(Len(all) - first + 1) /\ first + 1 - 1 = Len(all)
        BY <1>3, <2>1
      <4> QED
        BY <1>3, <4>2, <4>3
    <3>3. SubSeq(all, first, Len(all)) = <<bytes>>
      <4>1. <<bytes>> \in Seq(Nat) /\ Len(<<bytes>>) = 1 /\ <<bytes>>[1] = bytes
        BY <1>1
      <4>2. \A i \in 1..1 : i = 1
        OBVIOUS
      <4>3. \A i \in 1..1 : SubSeq(all, first, Len(all))[i] = <<bytes>>[i]
        BY <3>2, <4>1, <4>2
      <4> QED
        BY <1>6, <3>1, <4>1, <4>3, SeqEqual
    <3> QED
      BY <1>1, <1>3, <2>1, <3>3, TotalOfOne
  <2>2. CASE first # Len(all)
    BY <1>5, <2>2
  <2> QED
    BY <2>1, <2>2
<1>8. Bounded(r)
  <2>1. b.omitted + omitted + Total(SubSeq(all, 1, first - 1)) \in Nat
    BY <1>1, <1>6
  <2> QED
    BY <1>4, <1>6, <1>7, <2>1 DEF Bounded
<1>9. Known(r) = Known(b) + bytes + omitted
  <2> DEFINE shed == Total(SubSeq(all, 1, first - 1))
             rest == Total(SubSeq(all, first, Len(all)))
  <2>1. /\ Total(b.entries) \in Nat /\ shed \in Nat /\ rest \in Nat
        /\ Total(b.entries) + bytes = shed + rest
    BY <1>1, <1>2, <1>6, TotalType
  <2>2. Known(r) = rest + (b.omitted + omitted + shed)
    BY <1>4 DEF Known
  <2> HIDE DEF shed, rest
  <2>3. Known(b) = Total(b.entries) + b.omitted
    BY DEF Known
  <2>4. \A t, c, d, o, n, m \in Nat : t + n = c + d => d + (o + m + c) = (t + o) + n + m
    OBVIOUS
  <2>5. omitted \in Nat /\ bytes \in Nat /\ b.omitted \in Nat
    BY <1>1
  <2>6. rest + (b.omitted + omitted + shed) = (Total(b.entries) + b.omitted) + bytes + omitted
    BY <2>1, <2>4, <2>5
  <2> QED
    BY <2>2, <2>3, <2>6
<1> QED
  BY <1>8, <1>9 DEF r

Line == [kept : 0..ByteLimit, omitted : Nat]

LEMMA FlushedAccounts ==
  ASSUME NEW b, Bounded(b), NEW line \in Line
  PROVE  /\ Bounded(Flushed(b, line))
         /\ Known(Flushed(b, line)) = Known(b) + line.kept + line.omitted
<1>1. line.kept \in 0..ByteLimit /\ line.omitted \in Nat
  BY DEF Line
<1>2. CASE line = NoLine
  <2>1. Known(b) \in Nat
    BY KnownType
  <2> QED
    BY <1>2, <2>1 DEF Flushed, NoLine
<1>3. CASE line # NoLine
  BY <1>1, <1>3, RetainAccounts DEF Flushed
<1> QED
  BY <1>2, <1>3

(* append: what is cut off an unfinished line is counted with the line.    *)
LEMMA AppendAccounts ==
  ASSUME NEW line \in Line, NEW bytes \in Nat
  PROVE  /\ append(line, bytes) \in Line
         /\ append(line, bytes).kept + append(line, bytes).omitted = line.kept + line.omitted + bytes
<1>1. line.kept \in 0..ByteLimit /\ line.omitted \in Nat /\ ByteLimit \in Nat
  BY RetentionPositive DEF Line
<1> DEFINE kept == AtMost(ByteLimit, line.kept + bytes)
<1>2. kept \in 0..ByteLimit /\ kept <= line.kept + bytes
  BY <1>1 DEF AtMost
<1>3. append(line, bytes) = [kept |-> kept, omitted |-> line.omitted + (line.kept + bytes - kept)]
  BY DEF append
<1> HIDE DEF kept
<1>4. line.omitted + (line.kept + bytes - kept) \in Nat
      /\ kept + (line.omitted + (line.kept + bytes - kept)) = line.kept + line.omitted + bytes
  BY <1>1, <1>2
<1> QED
  BY <1>2, <1>3, <1>4 DEF Line

(* The bytes in a pipe.                                                    *)
Chunk == [bytes : Sizes, ends : BOOLEAN]

Bytes(chunksHeld) == [i \in DOMAIN chunksHeld |-> chunksHeld[i].bytes]

LEMMA BytesOfChunks ==
  ASSUME NEW p \in Seq(Chunk)
  PROVE  Bytes(p) \in Seq(Nat) /\ Total(Bytes(p)) \in Nat
<1>1. /\ Len(p) \in Nat /\ DOMAIN p = 1..Len(p) /\ \A i \in 1..Len(p) : p[i] \in Chunk
  OBVIOUS
<1>2. \A i \in 1..Len(p) : p[i].bytes \in Nat
  BY <1>1, SizesPositive DEF Chunk
<1>3. Bytes(p) \in Seq(Nat)
  BY <1>1, <1>2 DEF Bytes
<1> QED
  BY <1>3, TotalType

LEMMA BytesEmpty == Total(Bytes(<<>>)) = 0
<1>1. Bytes(<<>>) = <<>>
  BY DEF Bytes
<1> QED
  BY <1>1, TotalOfOne

LEMMA BytesAppend ==
  ASSUME NEW p \in Seq(Chunk), NEW c \in Chunk
  PROVE  Append(p, c) \in Seq(Chunk) /\ Total(Bytes(Append(p, c))) = Total(Bytes(p)) + c.bytes
<1>1. /\ Len(p) \in Nat /\ DOMAIN p = 1..Len(p) /\ Append(p, c) \in Seq(Chunk)
      /\ DOMAIN Append(p, c) = 1..(Len(p) + 1) /\ c.bytes \in Nat
      /\ \A i \in 1..(Len(p) + 1) : Append(p, c)[i] = IF i <= Len(p) THEN p[i] ELSE c
  <2>1. c.bytes \in Nat
    BY SizesPositive DEF Chunk
  <2> HIDE DEF Chunk
  <2> QED
    BY <2>1
<1>2. Bytes(p) \in Seq(Nat) /\ Bytes(Append(p, c)) \in Seq(Nat)
  BY <1>1, BytesOfChunks
<1>3. Len(Bytes(p)) = Len(p) /\ Len(Bytes(Append(p, c))) = Len(p) + 1
  BY <1>1 DEF Bytes
<1>4. \A i \in 1..(Len(p) + 1) : Bytes(Append(p, c))[i] = IF i <= Len(p) THEN Bytes(p)[i] ELSE c.bytes
  BY <1>1 DEF Bytes
<1>5. /\ Append(Bytes(p), c.bytes) \in Seq(Nat) /\ Len(Append(Bytes(p), c.bytes)) = Len(p) + 1
      /\ \A i \in 1..(Len(p) + 1) : Append(Bytes(p), c.bytes)[i] = IF i <= Len(p) THEN Bytes(p)[i] ELSE c.bytes
  BY <1>1, <1>2, <1>3
<1>6. Bytes(Append(p, c)) = Append(Bytes(p), c.bytes)
  BY <1>2, <1>3, <1>4, <1>5, SeqEqual
<1> QED
  BY <1>1, <1>2, <1>6, TotalAppend

LEMMA BytesHead ==
  ASSUME NEW p \in Seq(Chunk), p # <<>>
  PROVE  /\ Head(p) \in Chunk /\ Tail(p) \in Seq(Chunk)
         /\ Total(Bytes(p)) = Head(p).bytes + Total(Bytes(Tail(p)))
<1>1. /\ Head(p) \in Chunk /\ Tail(p) \in Seq(Chunk) /\ Len(Tail(p)) = Len(p) - 1
      /\ Len(p) \in Nat /\ Len(p) >= 1 /\ DOMAIN p = 1..Len(p) /\ p[1] = Head(p)
      /\ \A i \in 1..(Len(p) - 1) : Tail(p)[i] = p[i + 1]
  OBVIOUS
<1>2. Bytes(p) \in Seq(Nat) /\ Bytes(Tail(p)) \in Seq(Nat)
  BY <1>1, BytesOfChunks
<1>3. /\ Len(Bytes(p)) = Len(p) /\ Len(Bytes(Tail(p))) = Len(p) - 1
      /\ DOMAIN Tail(p) = 1..(Len(p) - 1)
  BY <1>1 DEF Bytes
<1> DEFINE n == Head(p).bytes
           whole == <<n>> \o Bytes(Tail(p))
<1>4. n \in Nat
  BY <1>1, SizesPositive DEF Chunk
<1>5. <<n>> \in Seq(Nat) /\ Len(<<n>>) = 1 /\ <<n>>[1] = n
  BY <1>4
<1> HIDE DEF n
<1>6. /\ whole \in Seq(Nat) /\ Len(whole) = Len(p)
      /\ \A i \in 1..Len(p) : whole[i] = IF i <= 1 THEN <<n>>[i] ELSE Bytes(Tail(p))[i - 1]
  <2>1. /\ whole \in Seq(Nat) /\ Len(whole) = 1 + Len(Bytes(Tail(p)))
        /\ \A i \in 1..(1 + Len(Bytes(Tail(p)))) :
             whole[i] = IF i <= 1 THEN <<n>>[i] ELSE Bytes(Tail(p))[i - 1]
    BY <1>2, <1>5, ConcatProperties
  <2>2. 1 + Len(Bytes(Tail(p))) = Len(p)
    <3>1. \A m \in Nat : 1 + (m - 1) = m
      OBVIOUS
    <3> QED
      BY <1>1, <1>3, <3>1
  <2> QED
    BY <2>1, <2>2
<1>7. \A i \in 1..Len(p) : Bytes(p)[i] = whole[i]
  <2> TAKE i \in 1..Len(p)
  <2>1. CASE i = 1
    <3>1. Bytes(p)[1] = n
      BY <1>1, <2>1 DEF Bytes, n
    <3> QED
      BY <1>5, <1>6, <2>1, <3>1
  <2>2. CASE i # 1
    <3>1. i - 1 \in 1..(Len(p) - 1) /\ (i - 1) + 1 = i /\ ~(i <= 1)
      BY <1>1, <2>2
    <3>2. Bytes(Tail(p))[i - 1] = p[i].bytes
      BY <1>1, <1>3, <3>1 DEF Bytes
    <3>3. Bytes(p)[i] = p[i].bytes
      BY <1>1 DEF Bytes
    <3> QED
      BY <1>6, <3>1, <3>2, <3>3
  <2> QED
    BY <2>1, <2>2
<1>8. Bytes(p) = whole
  BY <1>2, <1>3, <1>6, <1>7, SeqEqual
<1>9. Total(whole) = n + Total(Bytes(Tail(p)))
  BY <1>2, <1>4, <1>5, TotalConcat, TotalOfOne
<1> QED
  BY <1>1, <1>8, <1>9 DEF n

(* Control: who has come how far, and what has been done by then.          *)
Obeyed == \A h \in helpers : h.stubborn

StateTypes ==
  /\ caller \in {"run", "maestro", "serve"}
  /\ pc \in {"spawn", "wait", "use", "stopping", "cleanup", "finalize", "ended"}
  /\ child \in {"none", "running", "exited", "killed"}
  /\ stop \in {"no", "asked", "over"} /\ unkilled \in BOOLEAN
  /\ pipe \in [Streams -> Seq(Chunk)] /\ pending \in [Streams -> Line]
  /\ drain \in [Streams -> {"off", "reading", "done", "failed", "interrupted"}]
  /\ Bounded(buffer) /\ written \in Nat

CallerStages ==
  /\ pc = "spawn" => /\ child = "none" /\ helpers = {} /\ stop = "no" /\ outcome = "none"
                     /\ \A s \in Streams : drain[s] = "off"
  /\ pc \in {"wait", "use"} => outcome = "none"
  /\ caller = "serve" => pc \notin {"wait", "cleanup"}
  /\ pc = "cleanup" => caller = "run" /\ outcome = "exited"
  /\ pc = "ended" => child # "running"

Stopping ==
  /\ stop # "no" => Obeyed
  /\ outcome \in {"timeout", "stopped"} => stop # "no"
  /\ outcome = "exited" => child = "exited" /\ caller # "serve"
  /\ outcome = "exited" /\ caller = "run" /\ pc # "cleanup" => unkilled \/ Obeyed
  /\ outcome = "exited" /\ caller = "maestro" /\ pc = "ended" => stop # "no"

Draining ==
  /\ \A s \in Streams : drain[s] # "reading" => pending[s] = NoLine
  /\ \A s \in Streams : drain[s] = "done" => pipe[s] = <<>> /\ ~HoldsPipes
  /\ pc # "ended" => \A s \in Streams : drain[s] # "interrupted"
  /\ stop = "over" => DrainsOver
  /\ outcome \in Complete /\ pc \in {"cleanup", "finalize", "ended"}
       => \A s \in Streams : drain[s] \in {"done", "failed"}

(* Every byte is in a pipe, in an unfinished line, in the buffer, or is    *)
(* counted as omitted.                                                     *)
Held(s) == Total(Bytes(pipe[s])) + pending[s].kept + pending[s].omitted

Balance == written = Held("stdout") + Held("stderr") + Known(buffer)

SupervisorInv == StateTypes /\ CallerStages /\ Stopping /\ Draining /\ Balance

LEMMA HeldType ==
  ASSUME StateTypes, NEW s \in Streams
  PROVE  /\ Held(s) \in Nat /\ Known(buffer) \in Nat
         /\ Total(Bytes(pipe[s])) \in Nat /\ pending[s].kept \in Nat /\ pending[s].omitted \in Nat
<1>1. pipe[s] \in Seq(Chunk) /\ pending[s] \in Line /\ Bounded(buffer)
  BY DEF StateTypes
<1>2. pending[s].kept \in Nat /\ pending[s].omitted \in Nat
  BY <1>1 DEF Line
<1>3. Total(Bytes(pipe[s])) \in Nat /\ Known(buffer) \in Nat
  BY <1>1, BytesOfChunks, KnownType
<1>4. \A a, b, c \in Nat : a + b + c \in Nat
  OBVIOUS
<1> QED
  BY <1>2, <1>3, <1>4 DEF Held

(* A step that concerns one stream keeps the balance if it does there.     *)
LEMMA Rebalanced ==
  ASSUME StateTypes, StateTypes', Balance, NEW s \in Streams,
         \A t \in Streams \ {s} : pipe'[t] = pipe[t] /\ pending'[t] = pending[t],
         written' + Held(s) + Known(buffer) = written + Held(s)' + Known(buffer)'
  PROVE  Balance'
<1>1. /\ Held("stdout") \in Nat /\ Held("stderr") \in Nat /\ Known(buffer) \in Nat
      /\ Held("stdout")' \in Nat /\ Held("stderr")' \in Nat /\ Known(buffer)' \in Nat
      /\ written \in Nat /\ written' \in Nat
  <2>1. ASSUME NEW t \in Streams PROVE Held(t)' \in Nat /\ Known(buffer)' \in Nat
    <3>1. pipe'[t] \in Seq(Chunk) /\ pending'[t] \in Line /\ Bounded(buffer')
      BY DEF StateTypes
    <3>2. pending'[t].kept \in Nat /\ pending'[t].omitted \in Nat
      BY <3>1 DEF Line
    <3>3. Total(Bytes(pipe'[t])) \in Nat /\ Known(buffer') \in Nat
      BY <3>1, BytesOfChunks, KnownType
    <3>4. \A a, b, c \in Nat : a + b + c \in Nat
      OBVIOUS
    <3> QED
      BY <3>2, <3>3, <3>4 DEF Held
  <2>2. "stdout" \in Streams /\ "stderr" \in Streams
    BY DEF Streams
  <2> QED
    BY <2>1, <2>2, HeldType DEF StateTypes
<1>2. \A t \in Streams \ {s} : Held(t)' = Held(t)
  BY DEF Held
<1>3. written = Held("stdout") + Held("stderr") + Known(buffer)
  BY DEF Balance
<1>4. CASE s = "stdout"
  <2>1. Held("stderr")' = Held("stderr")
    BY <1>2, <1>4 DEF Streams
  <2> QED
    BY <1>1, <1>3, <1>4, <2>1 DEF Balance
<1>5. CASE s = "stderr"
  <2>1. Held("stdout")' = Held("stdout")
    BY <1>2, <1>5 DEF Streams
  <2> QED
    BY <1>1, <1>3, <1>5, <2>1 DEF Balance
<1> QED
  BY <1>4, <1>5 DEF Streams

LEMMA WriteBalances ==
  ASSUME SupervisorInv, NEW s \in Streams, Write(s)
  PROVE  StateTypes' /\ Balance'
<1>1. PICK n \in Sizes, ends \in BOOLEAN :
        /\ pipe' = [pipe EXCEPT ![s] = Append(@, [bytes |-> n, ends |-> ends])]
        /\ written' = written + n
  BY DEF Write
<1> DEFINE c == [bytes |-> n, ends |-> ends]
<1>2. c \in Chunk /\ c.bytes = n /\ n \in Nat
  BY SizesPositive DEF Chunk
<1> HIDE DEF c
<1>3. StateTypes /\ Balance
  BY DEF SupervisorInv
<1>4. pipe[s] \in Seq(Chunk) /\ pipe \in [Streams -> Seq(Chunk)] /\ pipe' = [pipe EXCEPT ![s] = Append(pipe[s], c)]
  BY <1>1, <1>3 DEF StateTypes, c
<1>5. Append(pipe[s], c) \in Seq(Chunk) /\ Total(Bytes(Append(pipe[s], c))) = Total(Bytes(pipe[s])) + n
  BY <1>2, <1>4, BytesAppend
<1>6. pipe' \in [Streams -> Seq(Chunk)] /\ pipe'[s] = Append(pipe[s], c) /\ \A t \in Streams \ {s} : pipe'[t] = pipe[t]
  BY <1>4, <1>5
<1>7. StateTypes'
  <2>1. written' \in Nat
    BY <1>1, <1>2, <1>3 DEF StateTypes
  <2> QED
    BY <1>3, <1>6, <2>1 DEF Write, processes, killing, StateTypes
<1>8. Held(s)' = Held(s) + n
  <2>1. Held(s)' = Total(Bytes(pipe[s])) + n + pending[s].kept + pending[s].omitted
    BY <1>5, <1>6 DEF Held, Write
  <2>2. Total(Bytes(pipe[s])) \in Nat /\ pending[s].kept \in Nat /\ pending[s].omitted \in Nat
    BY <1>3, HeldType
  <2> QED
    BY <1>2, <2>1, <2>2 DEF Held
<1>9. written' + Held(s) + Known(buffer) = written + Held(s)' + Known(buffer)'
  <2>1. buffer' = buffer /\ written \in Nat /\ Held(s) \in Nat /\ Known(buffer) \in Nat
    BY <1>3, HeldType DEF Write, StateTypes
  <2> QED
    BY <1>1, <1>2, <1>8, <2>1
<1>10. \A t \in Streams \ {s} : pipe'[t] = pipe[t] /\ pending'[t] = pending[t]
  BY <1>6 DEF Write
<1> QED
  BY <1>3, <1>7, <1>9, <1>10, Rebalanced

LEMMA ReadBalances ==
  ASSUME SupervisorInv, NEW s \in Streams, Read(s)
  PROVE  StateTypes' /\ Balance'
<1> DEFINE chunk == Head(pipe[s])
           line == append(pending[s], chunk.bytes)
<1>1. StateTypes /\ Balance
  BY DEF SupervisorInv
<1>2. /\ pipe \in [Streams -> Seq(Chunk)] /\ pipe[s] \in Seq(Chunk) /\ pipe[s] # <<>>
      /\ pending \in [Streams -> Line] /\ pending[s] \in Line /\ Bounded(buffer)
  BY <1>1 DEF StateTypes, Read
<1>3. /\ chunk \in Chunk /\ Tail(pipe[s]) \in Seq(Chunk)
      /\ Total(Bytes(pipe[s])) = chunk.bytes + Total(Bytes(Tail(pipe[s])))
      /\ Total(Bytes(Tail(pipe[s]))) \in Nat
  BY <1>2, BytesHead, BytesOfChunks
<1> HIDE DEF chunk
<1>4. chunk.bytes \in Nat
  BY <1>3, SizesPositive DEF Chunk
<1>5. line \in Line /\ line.kept + line.omitted = pending[s].kept + pending[s].omitted + chunk.bytes
  BY <1>2, <1>4, AppendAccounts
<1> HIDE DEF line
<1>6. /\ pipe' \in [Streams -> Seq(Chunk)] /\ pipe'[s] = Tail(pipe[s])
      /\ \A t \in Streams \ {s} : pipe'[t] = pipe[t]
  BY <1>2, <1>3 DEF Read
<1>7. line.kept \in 0..ByteLimit /\ line.kept \in Nat /\ line.omitted \in Nat
  BY <1>5 DEF Line
<1>8. NoLine \in Line /\ NoLine.kept = 0 /\ NoLine.omitted = 0
  BY RetentionPositive DEF NoLine, Line
<1>9. /\ pending' \in [Streams -> Line] /\ Bounded(buffer')
      /\ \A t \in Streams \ {s} : pending'[t] = pending[t]
      /\ Known(buffer') + pending'[s].kept + pending'[s].omitted
            = Known(buffer) + line.kept + line.omitted
      /\ pending'[s].kept \in Nat /\ pending'[s].omitted \in Nat /\ Known(buffer') \in Nat
  <2>0. Known(buffer) \in Nat
    BY <1>2, KnownType
  <2>1. CASE chunk.ends
    <3>1. buffer' = retain(buffer, line.kept, line.omitted) /\ pending' = [pending EXCEPT ![s] = NoLine]
      BY <2>1 DEF Read, chunk, line
    <3>2. Bounded(buffer') /\ Known(buffer') = Known(buffer) + line.kept + line.omitted
      BY <1>2, <1>7, <3>1, RetainAccounts
    <3>3. pending'[s] = NoLine
      BY <1>2, <3>1
    <3> QED
      BY <1>2, <1>7, <1>8, <2>0, <3>1, <3>2, <3>3
  <2>2. CASE ~chunk.ends
    <3>1. buffer' = buffer /\ pending' = [pending EXCEPT ![s] = line]
      BY <2>2 DEF Read, chunk, line
    <3> QED
      BY <1>2, <1>5, <1>7, <2>0, <3>1
  <2> QED
    BY <2>1, <2>2
<1>10. StateTypes'
  BY <1>1, <1>6, <1>9 DEF Read, processes, killing, StateTypes
<1>11. written' + Held(s) + Known(buffer) = written + Held(s)' + Known(buffer)'
  <2> DEFINE tail == Total(Bytes(Tail(pipe[s])))
  <2>1. /\ written' = written /\ written \in Nat /\ Known(buffer) \in Nat
        /\ pending[s].kept \in Nat /\ pending[s].omitted \in Nat
    BY <1>1, HeldType DEF Read, StateTypes
  <2>2. Held(s) = chunk.bytes + tail + pending[s].kept + pending[s].omitted
    BY <1>3 DEF Held
  <2>3. Held(s)' = tail + pending'[s].kept + pending'[s].omitted
    BY <1>6 DEF Held
  <2>4. Known(buffer)' = Known(buffer')
    OBVIOUS
  <2>5. \A w, b, n, k, o, k2, o2, lk, lo, a, c \in Nat :
          c + k2 + o2 = b + lk + lo /\ lk + lo = k + o + n
            => w + (n + a + k + o) + b = w + (a + k2 + o2) + c
    OBVIOUS
  <2>6. tail \in Nat
    BY <1>3
  <2> HIDE DEF tail
  <2>7. written + (chunk.bytes + tail + pending[s].kept + pending[s].omitted) + Known(buffer)
          = written + (tail + pending'[s].kept + pending'[s].omitted) + Known(buffer')
    BY <1>4, <1>5, <1>7, <1>9, <2>1, <2>5, <2>6
  <2> QED
    BY <2>1, <2>2, <2>3, <2>4, <2>7
<1> QED
  BY <1>1, <1>6, <1>9, <1>10, <1>11, Rebalanced

LEMMA DrainBalances ==
  ASSUME SupervisorInv, NEW s \in Streams, DrainEnds(s) \/ DrainFails(s)
  PROVE  StateTypes' /\ Balance'
<1>1. StateTypes /\ Balance
  BY DEF SupervisorInv
<1>2. /\ drain' \in [Streams -> {"off", "reading", "done", "failed", "interrupted"}]
      /\ buffer' = Flushed(buffer, pending[s])
      /\ pending' = [pending EXCEPT ![s] = NoLine]
      /\ UNCHANGED <<caller, pc, outcome, processes, killing, pipe, chunks, written>>
  <2>1. CASE DrainEnds(s)
    BY <1>1, <2>1 DEF DrainEnds, StateTypes
  <2>2. CASE DrainFails(s)
    BY <1>1, <2>2 DEF DrainFails, StateTypes
  <2> QED
    BY <2>1, <2>2
<1>3. pending \in [Streams -> Line] /\ pending[s] \in Line /\ Bounded(buffer)
  BY <1>1 DEF StateTypes
<1>4. Bounded(buffer') /\ Known(buffer') = Known(buffer) + pending[s].kept + pending[s].omitted
  BY <1>2, <1>3, FlushedAccounts
<1>5. NoLine \in Line /\ NoLine.kept = 0 /\ NoLine.omitted = 0
  BY RetentionPositive DEF NoLine, Line
<1>6. pending' \in [Streams -> Line] /\ pending'[s] = NoLine /\ \A t \in Streams \ {s} : pending'[t] = pending[t]
  BY <1>2, <1>3, <1>5
<1>7. StateTypes'
  BY <1>1, <1>2, <1>4, <1>6 DEF processes, killing, StateTypes
<1>8. written' + Held(s) + Known(buffer) = written + Held(s)' + Known(buffer)'
  <2>1. /\ written' = written /\ written \in Nat /\ Known(buffer) \in Nat /\ Total(Bytes(pipe[s])) \in Nat
        /\ pending[s].kept \in Nat /\ pending[s].omitted \in Nat
    BY <1>1, <1>2, HeldType DEF StateTypes
  <2>2. Held(s)' = Total(Bytes(pipe[s])) + 0 + 0
    BY <1>2, <1>5, <1>6 DEF Held
  <2>3. Known(buffer)' = Known(buffer')
    OBVIOUS
  <2> DEFINE b == Known(buffer)
             t == Total(Bytes(pipe[s]))
             k == pending[s].kept
             o == pending[s].omitted
  <2>4. Held(s) = t + k + o
    BY DEF Held
  <2>5. Known(buffer') = b + k + o
    BY <1>4
  <2>6. written \in Nat /\ b \in Nat /\ t \in Nat /\ k \in Nat /\ o \in Nat
    BY <2>1
  <2> HIDE DEF b, t, k, o
  <2>7. written + (t + k + o) + b = written + (t + 0 + 0) + (b + k + o)
    BY <2>6
  <2> QED
    BY <2>1, <2>2, <2>3, <2>4, <2>5, <2>7 DEF t, b
<1> QED
  BY <1>1, <1>2, <1>6, <1>7, <1>8, Rebalanced

LEMMA TerminateBalances ==
  ASSUME StateTypes, Balance, Terminate, UNCHANGED caller,
         pc' \in {"wait", "stopping", "finalize"}
  PROVE  StateTypes' /\ Balance'
<1>1. CASE stop = "no"
  <2>1. /\ stop' = "asked" /\ buffer' = retain(buffer, NoticeSize, 0) /\ written' = written + NoticeSize
        /\ UNCHANGED <<child, pipe, drain, pending, chunks, unkilled>>
    BY <1>1 DEF Terminate
  <2>2. NoticeSize \in 0..ByteLimit /\ NoticeSize \in Nat /\ Bounded(buffer) /\ written \in Nat
    BY NoticeFits, RetentionPositive DEF StateTypes
  <2>3. Bounded(buffer') /\ Known(buffer') = Known(buffer) + NoticeSize + 0
    BY <2>1, <2>2, RetainAccounts
  <2>4. StateTypes'
    BY <2>1, <2>2, <2>3 DEF StateTypes
  <2>5. "stdout" \in Streams
    BY DEF Streams
  <2>6. written' + Held("stdout") + Known(buffer) = written + Held("stdout")' + Known(buffer)'
    <3>1. Held("stdout")' = Held("stdout") /\ Held("stdout") \in Nat /\ Known(buffer) \in Nat
      BY <2>1, <2>5, HeldType DEF Held
    <3> QED
      BY <2>1, <2>2, <2>3, <3>1
  <2>7. \A t \in Streams \ {"stdout"} : pipe'[t] = pipe[t] /\ pending'[t] = pending[t]
    BY <2>1
  <2> QED
    BY <2>4, <2>5, <2>6, <2>7, Rebalanced
<1>2. CASE stop # "no"
  BY <1>2 DEF Terminate, processes, killing, output, StateTypes, Balance, Held
<1> QED
  BY <1>1, <1>2

LEMMA CloseBalances ==
  ASSUME SupervisorInv, Close
  PROVE  StateTypes' /\ Balance'
<1>1. StateTypes /\ Balance
  BY DEF SupervisorInv
<1> DEFINE between == Flushed(buffer, pending["stderr"])
<1>2. /\ buffer' = Flushed(between, pending["stdout"]) /\ pending' = [s \in Streams |-> NoLine]
      /\ pc' = "ended" /\ child' \in {"none", "running", "exited", "killed"}
      /\ drain' \in [Streams -> {"off", "reading", "done", "failed", "interrupted"}]
      /\ UNCHANGED <<caller, outcome, killing, pipe, chunks, written>>
  BY <1>1 DEF Close, StateTypes
<1>3. "stdout" \in Streams /\ "stderr" \in Streams
  BY DEF Streams
<1>4. pending["stderr"] \in Line /\ pending["stdout"] \in Line /\ Bounded(buffer) /\ written \in Nat
  BY <1>1, <1>3 DEF StateTypes
<1>5. Bounded(between) /\ Known(between) = Known(buffer) + pending["stderr"].kept + pending["stderr"].omitted
  BY <1>4, FlushedAccounts
<1> HIDE DEF between
<1>6. Bounded(buffer') /\ Known(buffer') = Known(between) + pending["stdout"].kept + pending["stdout"].omitted
  BY <1>2, <1>4, <1>5, FlushedAccounts
<1>7. NoLine \in Line /\ NoLine.kept = 0 /\ NoLine.omitted = 0
  BY RetentionPositive DEF NoLine, Line
<1>8. StateTypes'
  BY <1>1, <1>2, <1>6, <1>7 DEF killing, StateTypes
<1>9. Balance'
  <2> DEFINE a == Total(Bytes(pipe["stdout"]))
             b == Total(Bytes(pipe["stderr"]))
             k == pending["stdout"].kept
             l == pending["stderr"].kept
             m == pending["stdout"].omitted
             n == pending["stderr"].omitted
  <2>1. /\ a \in Nat /\ b \in Nat /\ k \in Nat /\ l \in Nat /\ m \in Nat /\ n \in Nat
        /\ Known(buffer) \in Nat
    BY <1>1, <1>3, HeldType
  <2>2. written = (a + k + m) + (b + l + n) + Known(buffer)
    BY <1>1 DEF Balance, Held
  <2>3. Held("stdout")' = a + 0 + 0 /\ Held("stderr")' = b + 0 + 0
    BY <1>2, <1>3, <1>7 DEF Held
  <2>4. Known(buffer)' = Known(buffer) + l + n + k + m
    BY <1>5, <1>6
  <2> HIDE DEF a, b, k, l, m, n
  <2>5. written = (a + 0 + 0) + (b + 0 + 0) + (Known(buffer) + l + n + k + m)
    BY <2>1, <2>2
  <2> QED
    BY <1>2, <2>3, <2>4, <2>5 DEF Balance
<1> QED
  BY <1>8, <1>9

LEMMA StepBalances ==
  ASSUME SupervisorInv, SupervisorNext
  PROVE  StateTypes' /\ Balance'
<1>1. StateTypes /\ Balance
  BY DEF SupervisorInv
<1>2. ASSUME NEW s \in Streams, Write(s) \/ Read(s) \/ DrainEnds(s) \/ DrainFails(s)
      PROVE  StateTypes' /\ Balance'
  BY <1>2, WriteBalances, ReadBalances, DrainBalances
<1>3. CASE Spawn
  <2>1. /\ drain' \in [Streams -> {"off", "reading", "done", "failed", "interrupted"}]
        /\ pc' \in {"use", "wait", "ended"} /\ child' \in {"none", "running", "exited", "killed"}
        /\ UNCHANGED <<caller, helpers, killing, pipe, pending, buffer, chunks, written>>
    BY <1>1, <1>3 DEF Spawn, StateTypes
  <2> QED
    BY <1>1, <2>1 DEF killing, StateTypes, Balance, Held
<1>4. CASE Fork \/ HelperEnds \/ ChildEnds \/ GraceEnds
  BY <1>1, <1>4 DEF Fork, HelperEnds, ChildEnds, GraceEnds, killing, output, StateTypes, Balance, Held
<1>5. CASE KillFails \/ TerminateEnds \/ Answered \/ Stopped \/ Cleanup \/ Interrupt
  <2>1. /\ UNCHANGED <<caller, child, output>> /\ stop' \in {"no", "asked", "over"} /\ unkilled' \in BOOLEAN
        /\ pc' \in {"spawn", "wait", "use", "stopping", "cleanup", "finalize", "ended"}
    BY <1>1, <1>5 DEF KillFails, TerminateEnds, Answered, Stopped, Cleanup, Interrupt, processes, killing, StateTypes
  <2> QED
    BY <1>1, <2>1 DEF output, StateTypes, Balance, Held
<1>6. CASE TimesOut \/ Watchdog \/ Finish \/ Finalize
  <2>1. Terminate /\ UNCHANGED caller /\ pc' \in {"wait", "stopping", "finalize"}
    BY <1>6 DEF TimesOut, Watchdog, Finish, Finalize
  <2> QED
    BY <1>1, <2>1, TerminateBalances
<1>7. CASE Close
  BY <1>7, CloseBalances
<1>8. CASE Ended
  BY <1>1, <1>8 DEF Ended, supervisorVars, output, StateTypes, Balance, Held
<1> QED
  BY <1>2, <1>3, <1>4, <1>5, <1>6, <1>7, <1>8 DEF SupervisorNext

LEMMA StepStages ==
  ASSUME SupervisorInv, SupervisorNext
  PROVE  CallerStages' /\ Stopping'
<1>1. StateTypes /\ CallerStages /\ Stopping
  BY DEF SupervisorInv
<1>2. ASSUME NEW s \in Streams, Write(s) \/ Read(s) \/ DrainEnds(s) \/ DrainFails(s)
      PROVE  CallerStages' /\ Stopping'
  <2>1. UNCHANGED <<caller, pc, outcome, child, helpers, stop, unkilled>>
    BY <1>2 DEF Write, Read, DrainEnds, DrainFails, processes, killing
  <2>2. pc # "spawn"
    <3>1. SUFFICES ASSUME pc = "spawn" PROVE FALSE
      OBVIOUS
    <3>2. ~HoldsPipes /\ drain[s] = "off"
      BY <1>1, <3>1 DEF CallerStages, HoldsPipes
    <3> QED
      BY <1>2, <3>2 DEF Write, Read, DrainEnds, DrainFails
  <2> QED
    BY <1>1, <2>1, <2>2 DEF CallerStages, Stopping, Obeyed
<1>3. CASE Spawn
  BY <1>1, <1>3 DEF Spawn, killing, StateTypes, CallerStages, Stopping, Obeyed
<1>4. CASE Fork \/ HelperEnds
  <2>1. /\ UNCHANGED <<caller, pc, outcome, child, stop, unkilled, drain>>
        /\ Obeyed /\ (child # "running" \/ stop # "no") => Obeyed'
    BY <1>4 DEF Fork, HelperEnds, killing, output, Obeyed
  <2>2. pc # "spawn"
    BY <1>1, <1>4 DEF Fork, HelperEnds, CallerStages
  <2> QED
    BY <1>1, <2>1, <2>2 DEF CallerStages, Stopping
<1>5. CASE ChildEnds \/ GraceEnds
  <2>1. /\ UNCHANGED <<caller, pc, outcome, stop, unkilled, drain>> /\ child = "running" /\ child' # "running"
        /\ Obeyed => Obeyed'
    BY <1>5 DEF ChildEnds, GraceEnds, killing, output, Obeyed
  <2>2. pc # "spawn" /\ outcome # "exited"
    BY <1>1, <2>1 DEF CallerStages, Stopping
  <2> QED
    BY <1>1, <2>1, <2>2 DEF CallerStages, Stopping
<1>6. CASE KillFails \/ TerminateEnds
  <2>1. /\ UNCHANGED <<caller, pc, outcome, child, helpers, drain>> /\ stop # "no" /\ stop' # "no"
        /\ unkilled => unkilled'
    BY <1>6 DEF KillFails, TerminateEnds, processes, output
  <2> QED
    BY <1>1, <2>1 DEF CallerStages, Stopping, Obeyed
<1>7. CASE Answered
  BY <1>1, <1>7 DEF Answered, processes, killing, output, StateTypes, CallerStages, Stopping, Obeyed
<1>8. CASE Stopped \/ Interrupt
  BY <1>1, <1>8 DEF Stopped, Interrupt, processes, killing, output, CallerStages, Stopping, Obeyed
<1>9. CASE Cleanup
  <2>1. /\ pc = "cleanup" /\ pc' = "finalize" /\ UNCHANGED <<caller, outcome, child, stop, output>>
        /\ \/ helpers' = AfterTerm /\ UNCHANGED unkilled
           \/ unkilled' = TRUE /\ UNCHANGED helpers
    BY <1>9 DEF Cleanup
  <2> QED
    BY <1>1, <2>1 DEF output, CallerStages, Stopping, Obeyed, AfterTerm
<1>10. CASE TimesOut \/ Watchdog \/ Finish \/ Finalize
  <2>1. /\ Terminate /\ UNCHANGED caller
        /\ \/ pc \in {"wait", "use"} /\ pc' = "stopping" /\ outcome' \in {"timeout", "stopped"}
           \/ pc \in {"wait", "finalize"} /\ UNCHANGED <<pc, outcome>>
    BY <1>10 DEF TimesOut, Watchdog, Finish, Finalize
  <2>2. /\ stop' # "no" /\ UNCHANGED <<child, unkilled, drain>> /\ Obeyed'
    BY <1>1, <2>1 DEF Terminate, processes, killing, output, Stopping, Obeyed, AfterTerm
  <2> QED
    BY <1>1, <2>1, <2>2 DEF CallerStages, Stopping
<1>11. CASE Close
  <2>1. /\ pc = "finalize" /\ pc' = "ended" /\ UNCHANGED <<caller, outcome, stop, unkilled>>
        /\ caller = "maestro" => stop = "over"
        /\ child' # "running"
        /\ child # "running" => child' = child /\ helpers' = helpers
        /\ Obeyed => Obeyed'
    BY <1>11 DEF Close, killing, Obeyed, AfterTerm
  <2> QED
    BY <1>1, <2>1 DEF CallerStages, Stopping, Obeyed
<1>12. CASE Ended
  BY <1>1, <1>12 DEF Ended, supervisorVars, output, CallerStages, Stopping, Obeyed
<1> QED
  BY <1>2, <1>3, <1>4, <1>5, <1>6, <1>7, <1>8, <1>9, <1>10, <1>11, <1>12 DEF SupervisorNext

LEMMA StepDraining ==
  ASSUME SupervisorInv, SupervisorNext
  PROVE  Draining'
<1>1. StateTypes /\ CallerStages /\ Stopping /\ Draining
  BY DEF SupervisorInv
<1>2. ASSUME NEW s \in Streams, Write(s)
      PROVE  Draining'
  <2>1. /\ UNCHANGED <<pc, outcome, child, helpers, stop, drain, pending>> /\ HoldsPipes
        /\ \A t \in Streams \ {s} : pipe'[t] = pipe[t]
    BY <1>1, <1>2 DEF Write, processes, killing, StateTypes
  <2> QED
    BY <1>1, <2>1 DEF Draining, DrainsOver, HoldsPipes
<1>3. ASSUME NEW s \in Streams, Read(s)
      PROVE  Draining'
  <2>1. /\ UNCHANGED <<pc, outcome, child, helpers, stop, drain>> /\ drain[s] = "reading"
        /\ \A t \in Streams \ {s} : pipe'[t] = pipe[t] /\ pending'[t] = pending[t]
    BY <1>1, <1>3 DEF Read, processes, killing, StateTypes
  <2> QED
    BY <1>1, <2>1 DEF Draining, DrainsOver, HoldsPipes
<1>4. ASSUME NEW s \in Streams, DrainEnds(s) \/ DrainFails(s)
      PROVE  Draining'
  <2>1. /\ UNCHANGED <<pc, outcome, child, helpers, stop, pipe>> /\ drain[s] = "reading"
        /\ drain'[s] \in {"done", "failed"} /\ pending'[s] = NoLine
        /\ drain'[s] = "done" => pipe[s] = <<>> /\ ~HoldsPipes
        /\ \A t \in Streams \ {s} : drain'[t] = drain[t] /\ pending'[t] = pending[t]
    BY <1>1, <1>4 DEF DrainEnds, DrainFails, processes, killing, StateTypes
  <2> QED
    BY <1>1, <2>1 DEF Draining, DrainsOver, HoldsPipes
<1>5. CASE Spawn
  <2>1. /\ pc = "spawn" /\ stop' = "no" /\ stop = "no" /\ outcome' \notin Complete
        /\ \A s \in Streams : drain[s] = "off"
        /\ UNCHANGED <<pipe, pending>>
        /\ \/ drain' = [s \in Streams |-> "reading"]
           \/ UNCHANGED drain
    BY <1>1, <1>5 DEF Spawn, killing, CallerStages, Complete
  <2>2. \A s \in Streams : drain'[s] \in {"reading", "off"} /\ pending[s] = NoLine
    BY <1>1, <2>1 DEF Draining
  <2> QED
    BY <2>1, <2>2 DEF Draining
<1>6. CASE Fork \/ HelperEnds \/ ChildEnds \/ GraceEnds
  <2>1. /\ UNCHANGED <<pc, outcome, stop, pipe, drain, pending>>
        /\ ~HoldsPipes => ~HoldsPipes'
    BY <1>6 DEF Fork, HelperEnds, ChildEnds, GraceEnds, killing, output, HoldsPipes
  <2> QED
    BY <1>1, <2>1 DEF Draining, DrainsOver
<1>7. CASE KillFails \/ TerminateEnds
  <2>1. /\ UNCHANGED <<pc, outcome, child, helpers, pipe, drain, pending>>
        /\ stop' = "over" => stop = "over" \/ DrainsOver
    BY <1>7 DEF KillFails, TerminateEnds, processes, output
  <2> QED
    BY <1>1, <2>1 DEF Draining, DrainsOver, HoldsPipes
<1>8. CASE Answered
  <2>1. /\ pc = "wait" /\ pc' # "ended" /\ DrainsOver /\ UNCHANGED <<child, helpers, stop, pipe, drain, pending>>
    BY <1>8 DEF Answered, processes, killing, output
  <2> QED
    BY <1>1, <2>1 DEF Draining, DrainsOver, HoldsPipes
<1>9. CASE Stopped
  <2>1. /\ pc = "stopping" /\ stop = "over" /\ pc' # "ended"
        /\ UNCHANGED <<child, helpers, stop, pipe, drain, pending>>
    BY <1>9 DEF Stopped, processes, killing, output
  <2> QED
    BY <1>1, <2>1 DEF Draining, DrainsOver, HoldsPipes
<1>10. CASE Interrupt
  <2>1. /\ pc # "ended" /\ pc' # "ended" /\ outcome' \notin Complete
        /\ UNCHANGED <<child, helpers, stop, pipe, drain, pending>>
    BY <1>10 DEF Interrupt, processes, killing, output, Complete
  <2> QED
    BY <1>1, <2>1 DEF Draining, DrainsOver, HoldsPipes
<1>11. CASE Cleanup
  <2>1. /\ pc = "cleanup" /\ pc' = "finalize"
        /\ ~HoldsPipes => ~HoldsPipes'
        /\ UNCHANGED <<outcome, stop, pipe, drain, pending>>
    BY <1>11 DEF Cleanup, output, HoldsPipes, AfterTerm
  <2> QED
    BY <1>1, <2>1 DEF Draining, DrainsOver
<1>12. CASE TimesOut \/ Watchdog \/ Finish \/ Finalize
  <2>1. /\ Terminate /\ pc # "ended"
        /\ \/ pc' = "stopping"
           \/ UNCHANGED <<pc, outcome>>
    BY <1>12 DEF TimesOut, Watchdog, Finish, Finalize
  <2>2. /\ UNCHANGED <<pipe, drain, pending>>
        /\ ~HoldsPipes => ~HoldsPipes'
        /\ stop' = "over" => stop = "over"
    BY <2>1 DEF Terminate, processes, killing, output, HoldsPipes, AfterTerm
  <2> QED
    BY <1>1, <2>1, <2>2 DEF Draining, DrainsOver
<1>13. CASE Close
  <2>1. /\ pc = "finalize" /\ pc' = "ended" /\ UNCHANGED <<outcome, stop, pipe>>
        /\ drain' = [s \in Streams |-> IF drain[s] = "reading" THEN "interrupted" ELSE drain[s]]
        /\ pending' = [s \in Streams |-> NoLine]
        /\ ~HoldsPipes => ~HoldsPipes'
    BY <1>13 DEF Close, killing, HoldsPipes, AfterTerm
  <2> QED
    BY <1>1, <2>1 DEF Draining, DrainsOver
<1>14. CASE Ended
  BY <1>1, <1>14 DEF Ended, supervisorVars, output, Draining, DrainsOver, HoldsPipes
<1> QED
  BY <1>2, <1>3, <1>4, <1>5, <1>6, <1>7, <1>8, <1>9, <1>10, <1>11, <1>12, <1>13, <1>14
  DEF SupervisorNext

LEMMA SupervisorInitially == SupervisorInit => SupervisorInv
<1> SUFFICES ASSUME SupervisorInit PROVE SupervisorInv
  OBVIOUS
<1>1. /\ Bounded(buffer) /\ Known(buffer) = 0
  <2>1. buffer.entries = <<>> /\ buffer.omitted = 0
    BY DEF SupervisorInit
  <2> QED
    BY <2>1, TotalOfOne, RetentionPositive DEF Bounded, Known
<1>2. NoLine \in Line /\ NoLine.kept = 0 /\ NoLine.omitted = 0
  BY RetentionPositive DEF NoLine, Line
<1>3. \A s \in Streams : pipe[s] = <<>> /\ pending[s] = NoLine /\ drain[s] = "off"
  BY DEF SupervisorInit, NoLine
<1>4. StateTypes
  <2>1. caller \in {"run", "maestro", "serve"}
    BY CallersKnown DEF SupervisorInit
  <2>2. pipe \in [Streams -> Seq(Chunk)] /\ pending \in [Streams -> Line]
    BY <1>2 DEF SupervisorInit, NoLine
  <2> QED
    BY <1>1, <2>1, <2>2 DEF SupervisorInit, StateTypes
<1>5. CallerStages /\ Stopping
  BY DEF SupervisorInit, CallerStages, Stopping, Obeyed
<1>6. Draining
  BY <1>3 DEF SupervisorInit, Draining, Complete
<1>7. Balance
  <2>1. \A s \in Streams : Held(s) = 0
    BY <1>2, <1>3, BytesEmpty DEF Held
  <2> QED
    BY <1>1, <2>1 DEF SupervisorInit, Balance, Streams
<1> QED
  BY <1>4, <1>5, <1>6, <1>7 DEF SupervisorInv

LEMMA SupervisorInvariant == SupervisorSpec => []SupervisorInv
<1>1. SupervisorInv /\ [SupervisorNext]_supervisorVars => SupervisorInv'
  <2> SUFFICES ASSUME SupervisorInv, [SupervisorNext]_supervisorVars PROVE SupervisorInv'
    OBVIOUS
  <2>1. CASE SupervisorNext
    BY <2>1, StepBalances, StepStages, StepDraining DEF SupervisorInv
  <2>2. CASE UNCHANGED supervisorVars
    BY <2>2 DEF supervisorVars, output, SupervisorInv, StateTypes, CallerStages, Stopping, Obeyed, Draining,
                DrainsOver, HoldsPipes, Balance, Held
  <2> QED
    BY <2>1, <2>2
<1> QED
  BY <1>1, SupervisorInitially, PTL DEF SupervisorSpec

LEMMA SupervisorShows == SupervisorInv => OutputAccounted /\ NothingLeftRunning
<1> SUFFICES ASSUME SupervisorInv PROVE OutputAccounted /\ NothingLeftRunning
  OBVIOUS
<1>1. StateTypes /\ CallerStages /\ Stopping /\ Draining /\ Balance
  BY DEF SupervisorInv
<1>2. ASSUME pc = "ended", outcome \in Complete, ~DrainsFailed
      PROVE  written = Total(buffer.entries) + buffer.omitted
  <2>1. \A s \in Streams : drain[s] = "done"
    BY <1>1, <1>2 DEF Draining, DrainsFailed
  <2>2. \A s \in Streams : pipe[s] = <<>> /\ pending[s] = NoLine
    BY <1>1, <2>1 DEF Draining
  <2>3. \A s \in Streams : Held(s) = 0
    BY <2>2, BytesEmpty DEF Held, NoLine
  <2>4. Known(buffer) \in Nat
    BY <1>1, KnownType DEF StateTypes
  <2>5. written = 0 + 0 + Known(buffer)
    BY <1>1, <2>3 DEF Balance, Streams
  <2> QED
    BY <2>4, <2>5 DEF Known
<1>3. Total(buffer.entries) <= ByteLimit /\ Len(buffer.entries) <= LineLimit
  BY <1>1 DEF StateTypes, Bounded
<1>4. ASSUME pc = "ended", outcome \in {"exited", "timeout", "stopped"}, ~unkilled
      PROVE  child # "running" /\ \A h \in helpers : h.stubborn
  BY <1>1, <1>4 DEF StateTypes, CallerStages, Stopping, Obeyed
<1> QED
  BY <1>2, <1>3, <1>4 DEF OutputAccounted, NothingLeftRunning

(* The rest of the types.                                                  *)
Outcomes == {"none", "spawn", "stream", "exit", "exited", "timeout", "stopped", "interrupted"}

IsBuffer(b) == \E e, o : b = [entries |-> e, omitted |-> o]

Rest ==
  /\ caller \in Callers /\ outcome \in Outcomes /\ helpers \subseteq Helpers
  /\ IsBuffer(buffer) /\ chunks \in 0..MaxChunks

LEMMA StillBuffer ==
  /\ \A b, bytes, omitted : IsBuffer(retain(b, bytes, omitted))
  /\ \A b, line : IsBuffer(b) => IsBuffer(Flushed(b, line))
<1>1. ASSUME NEW b, NEW bytes, NEW omitted PROVE IsBuffer(retain(b, bytes, omitted))
  BY DEF retain, IsBuffer
<1>2. ASSUME NEW b, NEW line, IsBuffer(b) PROVE IsBuffer(Flushed(b, line))
  BY <1>1, <1>2 DEF Flushed
<1> QED
  BY <1>1, <1>2

LEMMA TerminateRest == ASSUME Rest, Terminate PROVE /\ helpers' \subseteq Helpers
                                                           /\ IsBuffer(buffer') /\ chunks' = chunks
<1>1. CASE stop = "no"
  <2>1. buffer' = retain(buffer, NoticeSize, 0) /\ helpers' \subseteq helpers /\ chunks' = chunks
    BY <1>1 DEF Terminate, AfterTerm
  <2> QED
    BY <2>1, StillBuffer DEF Rest
<1>2. CASE stop # "no"
  BY <1>2 DEF Terminate, processes, output, Rest
<1> QED
  BY <1>1, <1>2

LEMMA RestKept == Rest /\ [SupervisorNext]_supervisorVars => Rest'
<1> SUFFICES ASSUME Rest, [SupervisorNext]_supervisorVars PROVE Rest'
  OBVIOUS
<1> USE DEF Outcomes
<1>1. ASSUME NEW s \in Streams, Write(s) PROVE Rest'
  <2>1. chunks \in 0..MaxChunks /\ chunks < MaxChunks /\ chunks' = chunks + 1
    BY <1>1 DEF Write, Rest
  <2>2. chunks' \in 0..MaxChunks
    BY <2>1, ChunksBounded
  <2> QED
    BY <1>1, <2>2 DEF Write, Rest, processes
<1>2. ASSUME NEW s \in Streams, Read(s) PROVE Rest'
  <2>1. UNCHANGED <<caller, outcome, helpers, chunks>>
    BY <1>2 DEF Read, processes
  <2>2. IsBuffer(buffer')
    <3>1. \/ buffer' = buffer
          \/ \E k, o : buffer' = retain(buffer, k, o)
      BY <1>2 DEF Read
    <3> QED
      BY <3>1, StillBuffer DEF Rest
  <2> QED
    BY <2>1, <2>2 DEF Rest
<1>3. ASSUME NEW s \in Streams, DrainEnds(s) \/ DrainFails(s) PROVE Rest'
  <2>1. buffer' = Flushed(buffer, pending[s]) /\ UNCHANGED <<caller, outcome, helpers, chunks>>
    BY <1>3 DEF DrainEnds, DrainFails, processes
  <2> QED
    BY <2>1, StillBuffer DEF Rest
<1>4. CASE Fork \/ HelperEnds \/ ChildEnds \/ GraceEnds \/ KillFails
  BY <1>4 DEF Fork, HelperEnds, ChildEnds, GraceEnds, KillFails, Rest, output, processes
<1>5. CASE Spawn \/ Answered \/ TerminateEnds \/ Stopped \/ Interrupt \/ Ended
  BY <1>5 DEF Spawn, Answered, TerminateEnds, Stopped, Interrupt, Ended, Rest, output, processes, supervisorVars
<1>6. CASE TimesOut \/ Watchdog \/ Finish \/ Finalize
  <2>1. Terminate /\ caller' = caller /\ outcome' \in {outcome, "timeout", "stopped"}
    BY <1>6 DEF TimesOut, Watchdog, Finish, Finalize
  <2> QED
    BY <2>1, TerminateRest DEF Rest
<1>7. CASE Cleanup
  BY <1>7 DEF Cleanup, AfterTerm, Rest, output
<1>8. CASE Close
  <2>1. /\ UNCHANGED <<caller, outcome, chunks>> /\ helpers' \subseteq helpers
        /\ buffer' = Flushed(Flushed(buffer, pending["stderr"]), pending["stdout"])
    BY <1>8 DEF Close, AfterTerm
  <2>2. IsBuffer(buffer')
    BY <2>1, StillBuffer DEF Rest
  <2> QED
    BY <2>1, <2>2 DEF Rest
<1>9. CASE UNCHANGED supervisorVars
  BY <1>9 DEF supervisorVars, output, Rest
<1> QED
  BY <1>1, <1>2, <1>3, <1>4, <1>5, <1>6, <1>7, <1>8, <1>9 DEF SupervisorNext

(* What ProcessSupervisor.ts keeps of a process is of its type.            *)
THEOREM SupervisorTypesCorrect == SupervisorSpec => []SupervisorTypeOK
<1>1. SupervisorInit => Rest
  <2> SUFFICES ASSUME SupervisorInit PROVE Rest
    OBVIOUS
  <2>1. IsBuffer(buffer)
    BY DEF SupervisorInit, IsBuffer
  <2>2. chunks \in 0..MaxChunks
    BY ChunksBounded DEF SupervisorInit
  <2> QED
    BY <2>1, <2>2 DEF SupervisorInit, Rest, Outcomes
<1>2. SupervisorInv /\ Rest => SupervisorTypeOK
  <2> SUFFICES ASSUME SupervisorInv, Rest PROVE SupervisorTypeOK
    OBVIOUS
  <2>1. buffer \in [entries : Seq(Nat), omitted : Nat]
    <3>1. buffer.entries \in Seq(Nat) /\ buffer.omitted \in Nat
      BY DEF SupervisorInv, StateTypes, Bounded
    <3>2. PICK e, o : buffer = [entries |-> e, omitted |-> o]
      BY DEF Rest, IsBuffer
    <3> QED
      BY <3>1, <3>2
  <2> QED
    BY <2>1 DEF SupervisorInv, StateTypes, Rest, Outcomes, Line, Chunk, SupervisorTypeOK
<1> QED
  BY <1>1, <1>2, SupervisorInvariant, RestKept, PTL DEF SupervisorSpec

(* ObservationBuffer and drainDecodedChunks: a result that is told after   *)
(* both drains are over accounts for every byte that was written, and the  *)
(* observations stay within both limits, whatever they are.                *)
THEOREM OutputKept == SupervisorSpec => []OutputAccounted
BY SupervisorInvariant, SupervisorShows, PTL

(* terminateOnce, cleanupDescendants and the finalizers: of a command that *)
(* ended, timed out or was stopped no process runs any more, nor, if the   *)
(* group could be signalled, a descendant that obeys SIGTERM.              *)
THEOREM NoneLeft == SupervisorSpec => []NothingLeftRunning
BY SupervisorInvariant, SupervisorShows, PTL
=============================================================================
