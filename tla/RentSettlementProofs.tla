------------------------ MODULE RentSettlementProofs ------------------------
(***************************************************************************)
(* What TLAPS proves of the settlement of RentLedger: whatever charges are *)
(* in the ledger and whatever was paid, the payments fill the charges      *)
(* oldest first and to the cent.                                           *)
(*                                                                         *)
(* The order of the charges, the sums and the settlement itself are        *)
(* recursive functions. An induction is an argument about the least number *)
(* or the smallest set that is an exception, stated once for the set Good  *)
(* of those that are none.                                                 *)
(***************************************************************************)
EXTENDS RentLedgerProofs, FiniteSetTheorems

-----------------------------------------------------------------------------
(* Recursion.                                                              *)

LEMMA EveryNumber ==
    ASSUME NEW n \in Nat, NEW Good, 0 \in Good,
           \A i \in 1 .. n : i - 1 \in Good => i \in Good
    PROVE  0 .. n \subseteq Good
<1> SUFFICES ASSUME (0 .. n) \ Good # {} PROVE FALSE
  OBVIOUS
<1> DEFINE Bad == (0 .. n) \ Good
<1>0. Bad \subseteq Nat /\ Bad # {}
  OBVIOUS
<1>1. PICK i \in Bad : \A j \in Bad : i <= j
  BY <1>0, LeastOf
<1>2. i \in 1 .. n /\ i - 1 \in 0 .. n
  BY <1>1
<1>3. i - 1 \in Good
  BY <1>1, <1>2
<1> QED
  BY <1>1, <1>2, <1>3

LEMMA Smaller ==
    ASSUME NEW T, IsFiniteSet(T), NEW x \in T
    PROVE  /\ IsFiniteSet(T \ {x})
           /\ Cardinality(T) \in Nat /\ Cardinality(T \ {x}) \in Nat
           /\ Cardinality(T) # 0
           /\ Cardinality(T \ {x}) = Cardinality(T) - 1
BY FS_RemoveElement, FS_CardinalityType, FS_EmptySet

LEMMA EverySubset ==
    ASSUME NEW T, IsFiniteSet(T), NEW Good, {} \in Good,
           \A r \in SUBSET T : r # {} /\ (\A x \in r : r \ {x} \in Good) => r \in Good
    PROVE  SUBSET T \subseteq Good
<1> SUFFICES ASSUME (SUBSET T) \ Good # {} PROVE FALSE
  OBVIOUS
<1>1. \A r \in SUBSET T : IsFiniteSet(r) /\ Cardinality(r) \in Nat
  BY FS_Subset, FS_CardinalityType
<1> DEFINE Sizes == {Cardinality(r) : r \in (SUBSET T) \ Good}
<1>2. Sizes \subseteq Nat /\ Sizes # {}
  BY <1>1
<1>3. PICK k \in Sizes : \A l \in Sizes : k <= l
  BY <1>2, LeastOf
<1>4. PICK r \in (SUBSET T) \ Good : k = Cardinality(r)
  BY <1>3
<1>5. r # {}
  BY <1>4
<1>6. ASSUME NEW x \in r PROVE r \ {x} \in Good
  <2>1. Cardinality(r \ {x}) = Cardinality(r) - 1 /\ Cardinality(r) \in Nat
    BY <1>1, Smaller
  <2>2. r \ {x} \notin Good => Cardinality(r \ {x}) \in Sizes
    OBVIOUS
  <2> HIDE DEF Sizes
  <2>3. r \ {x} \notin Good => k <= Cardinality(r \ {x})
    BY <1>3, <2>2
  <2> QED
    BY <1>4, <2>1, <2>3
<1> QED
  BY <1>4, <1>5, <1>6

Picks(pick, T) ==
    /\ pick \in [(SUBSET T) \ {{}} -> T]
    /\ \A r \in (SUBSET T) \ {{}} : pick[r] \in r

(* f takes out of a set the element pick has chosen, and goes on with the  *)
(* rest.                                                                   *)
Recurses(f, T, base, pick, step) ==
    /\ f[{}] = base
    /\ \A r \in (SUBSET T) \ {{}} : f[r] = step[<<pick[r], f[r \ {pick[r]}]>>]

(* There is such a function.                                               *)
LEMMA SubsetRecursion ==
    ASSUME NEW T, IsFiniteSet(T), NEW S, NEW base \in S, NEW pick, Picks(pick, T),
           NEW step, step \in [T \X S -> S]
    PROVE  \E f : f \in [SUBSET T -> S] /\ Recurses(f, T, base, pick, step)
<1> DEFINE Upto(k) == {r \in SUBSET T : Cardinality(r) <= k}
           Fits(f, k) == /\ f \in [Upto(k) -> S] /\ f[{}] = base
                         /\ \A r \in Upto(k) \ {{}} : f[r] = step[<<pick[r], f[r \ {pick[r]}]>>]
           n == Cardinality(T)
           Good == {k \in 0 .. n : \E f : Fits(f, k)}
<1>0. /\ pick \in [(SUBSET T) \ {{}} -> T]
      /\ \A r \in (SUBSET T) \ {{}} : pick[r] \in r
  BY DEF Picks
<1>1. n \in Nat /\ \A r \in SUBSET T : Cardinality(r) \in Nat /\ Cardinality(r) <= n
  BY FS_Subset, FS_CardinalityType
<1>2. \A r \in SUBSET T : IsFiniteSet(r)
  BY FS_Subset
<1>3. \A r \in SUBSET T : Cardinality(r) = 0 => r = {}
  BY <1>2, FS_EmptySet
<1>4. Cardinality({}) = 0
  BY FS_EmptySet
<1>5. 0 \in Good
  <2> DEFINE f == [r \in Upto(0) |-> base]
  <2>1. \A r \in Upto(0) : r = {}
    BY <1>1, <1>3
  <2>2. {} \in Upto(0)
    BY <1>4
  <2>3. Fits(f, 0)
    BY <2>1, <2>2
  <2> HIDE DEF f, Fits
  <2> QED
    BY <1>1, <2>3
<1>6. ASSUME NEW k \in 1 .. n, k - 1 \in Good PROVE k \in Good
  <2>1. PICK f : Fits(f, k - 1)
    BY <1>6
  <2> DEFINE g == [r \in Upto(k) |-> IF r = {} THEN base ELSE step[<<pick[r], f[r \ {pick[r]}]>>]]
  <2>2. ASSUME NEW r \in Upto(k), r # {} PROVE pick[r] \in T /\ r \ {pick[r]} \in Upto(k - 1)
    <3>1. pick[r] \in r /\ pick[r] \in T
      BY <1>0, <2>2
    <3>2. Cardinality(r \ {pick[r]}) = Cardinality(r) - 1
      BY <1>2, <3>1, Smaller
    <3> QED
      BY <1>1, <3>1, <3>2
  <2>3. ASSUME NEW r \in Upto(k), r # {} PROVE f[r \ {pick[r]}] \in S /\ g[r] \in S
    BY <2>1, <2>2, <2>3
  <2>4. g \in [Upto(k) -> S]
    BY <2>3
  <2>5. {} \in Upto(k) /\ g[{}] = base
    BY <1>4, <1>1
  <2>6. ASSUME NEW q \in Upto(k - 1) PROVE q \in Upto(k) /\ g[q] = f[q]
    <3>1. q \in Upto(k)
      BY <1>1
    <3>2. CASE q = {}
      BY <2>1, <2>5, <3>2
    <3>3. CASE q # {}
      BY <2>1, <3>1, <3>3
    <3> QED
      BY <3>1, <3>2, <3>3
  <2>7. \A r \in Upto(k) \ {{}} : g[r] = step[<<pick[r], g[r \ {pick[r]}]>>]
    BY <2>2, <2>6
  <2>8. Fits(g, k)
    BY <2>4, <2>5, <2>7
  <2> HIDE DEF g, Fits
  <2> QED
    BY <2>8
<1> HIDE DEF Good
<1>7. n \in Good
  BY <1>1, <1>5, <1>6, EveryNumber
<1>8. PICK f : Fits(f, n)
  BY <1>7 DEF Good
<1>9. Upto(n) = SUBSET T
  BY <1>1
<1> QED
  BY <1>8, <1>9 DEF Recurses

-----------------------------------------------------------------------------
(* The charges in the order of their due dates.                            *)

Earliest(rows) == CHOOSE x \in rows : \A y \in rows : x.start <= y.start

LEMMA EarliestIs ==
    ASSUME NEW rows, rows \subseteq ChargeType, rows # {}
    PROVE  Earliest(rows) \in rows /\ \A y \in rows : Earliest(rows).start <= y.start
<1> DEFINE Starts == {x.start : x \in rows}
<1>1. \A x \in rows : x.start \in Nat
  BY ConstantsAssumption DEF ChargeType, Days
<1>2. Starts \subseteq Nat /\ Starts # {}
  BY <1>1
<1>3. PICK first \in Starts : \A d \in Starts : first <= d
  BY <1>2, LeastOf
<1>4. \E x \in rows : \A y \in rows : x.start <= y.start
  BY <1>3
<1> QED
  BY <1>4 DEF Earliest

(* q lists the charges of rows, each once, oldest first.                   *)
Lists(q, rows) ==
    /\ q \in Seq(rows)
    /\ {q[i] : i \in DOMAIN q} = rows
    /\ \A i, j \in DOMAIN q : i < j => q[i] # q[j] /\ q[i].start <= q[j].start

LEMMA ListsMore ==
    ASSUME NEW rows, rows \subseteq ChargeType, rows # {}, NEW q,
           Lists(q, rows \ {Earliest(rows)})
    PROVE  Lists(<<Earliest(rows)>> \o q, rows)
<1>1. PICK x : x = Earliest(rows)
  OBVIOUS
<1>2. x \in rows /\ \A y \in rows : x.start <= y.start
  BY <1>1, EarliestIs
<1>3. /\ q \in Seq(rows \ {x})
      /\ {q[i] : i \in DOMAIN q} = rows \ {x}
      /\ \A i, j \in DOMAIN q : i < j => q[i] # q[j] /\ q[i].start <= q[j].start
  BY <1>1 DEF Lists
<1>4. PICK n \in Nat : n = Len(q)
  BY <1>3
<1>5. DOMAIN q = 1 .. n /\ \A i \in 1 .. n : q[i] \in rows \ {x}
  BY <1>3, <1>4
<1>6. PICK p : p = <<x>> \o q
  OBVIOUS
<1>7. p \in Seq(rows) /\ DOMAIN p = 1 .. n + 1
  BY <1>2, <1>3, <1>4, <1>6
<1>8. p[1] = x /\ \A i \in 1 .. n : p[i + 1] = q[i]
  BY <1>3, <1>4, <1>6
<1>9. \A i \in 2 .. n + 1 : i - 1 \in 1 .. n /\ p[i] = q[i - 1]
  BY <1>8
<1>10. {p[i] : i \in DOMAIN p} = rows
  <2>1. ASSUME NEW i \in DOMAIN p PROVE p[i] \in rows
    BY <1>7
  <2>2. ASSUME NEW y \in rows PROVE \E i \in DOMAIN p : p[i] = y
    <3>1. CASE y = x
      BY <1>7, <1>8, <3>1
    <3>2. CASE y # x
      <4>1. PICK i \in 1 .. n : q[i] = y
        BY <1>3, <1>5, <3>2
      <4>2. i + 1 \in DOMAIN p
        BY <1>7
      <4> QED
        BY <1>8, <4>1, <4>2
    <3> QED
      BY <3>1, <3>2
  <2> QED
    BY <2>1, <2>2
<1>11. ASSUME NEW i \in DOMAIN p, NEW j \in DOMAIN p, i < j
       PROVE  p[i] # p[j] /\ p[i].start <= p[j].start
  <2>1. j \in 2 .. n + 1 /\ j - 1 \in 1 .. n
    BY <1>7, <1>11
  <2>2. p[j] = q[j - 1] /\ p[j] \in rows \ {x}
    BY <1>5, <1>9, <2>1
  <2>3. CASE i = 1
    BY <1>2, <1>8, <2>2, <2>3
  <2>4. CASE i # 1
    <3>1. i \in 2 .. n + 1 /\ i - 1 \in 1 .. n /\ i - 1 < j - 1
      BY <1>7, <1>11, <2>1, <2>4
    <3> QED
      BY <1>3, <1>5, <1>9, <2>1, <2>2, <3>1
  <2> QED
    BY <2>3, <2>4
<1>12. Lists(p, rows)
  BY <1>7, <1>10, <1>11 DEF Lists
<1> QED
  BY <1>1, <1>6, <1>12

LEMMA OrderIs ==
    ASSUME NEW shown, shown \subseteq ChargeType, IsFiniteSet(shown)
    PROVE  Lists(SettlementOrder(shown), shown)
<1> DEFINE IsOrder(f) ==
             f = [rows \in SUBSET shown |->
                    IF rows = {} THEN << >>
                    ELSE <<Earliest(rows)>> \o f[rows \ {Earliest(rows)}]]
           order == CHOOSE f : IsOrder(f)
<1>1. SettlementOrder(shown) = order[shown]
  BY Zenon DEF SettlementOrder, Earliest
<1>2. ASSUME NEW rows \in (SUBSET shown) \ {{}} PROVE Earliest(rows) \in rows
  BY EarliestIs
<1>3. \E f : IsOrder(f)
  <2> DEFINE pick == [rows \in (SUBSET shown) \ {{}} |-> Earliest(rows)]
             step == [p \in shown \X Seq(shown) |-> <<p[1]>> \o p[2]]
  <2>1. Picks(pick, shown)
    BY <1>2 DEF Picks
  <2>2. step \in [shown \X Seq(shown) -> Seq(shown)]
    OBVIOUS
  <2>3. << >> \in Seq(shown)
    OBVIOUS
  <2>4. \A r \in (SUBSET shown) \ {{}} : pick[r] = Earliest(r)
    OBVIOUS
  <2>5. \A x \in shown, q \in Seq(shown) : step[<<x, q>>] = <<x>> \o q
    OBVIOUS
  <2> HIDE DEF pick, step
  <2>6. PICK f : f \in [SUBSET shown -> Seq(shown)] /\ Recurses(f, shown, << >>, pick, step)
    BY <2>1, <2>2, <2>3, SubsetRecursion
  <2>7. ASSUME NEW r \in (SUBSET shown) \ {{}}
        PROVE  f[r] = <<Earliest(r)>> \o f[r \ {Earliest(r)}]
    <3>1. Earliest(r) \in shown /\ r \ {Earliest(r)} \in SUBSET shown
      BY <1>2
    <3>2. f[r \ {Earliest(r)}] \in Seq(shown)
      BY <2>6, <3>1
    <3> QED
      BY <2>4, <2>5, <2>6, <3>1, <3>2 DEF Recurses
  <2>8. IsOrder(f)
    BY <2>6, <2>7 DEF Recurses
  <2> QED
    BY <2>8
<1>4. IsOrder(order)
  BY <1>3
<1>5. /\ order[{}] = << >>
      /\ \A r \in (SUBSET shown) \ {{}} : order[r] = <<Earliest(r)>> \o order[r \ {Earliest(r)}]
  BY <1>4
<1> HIDE DEF order, IsOrder
<1> DEFINE Good == {r \in SUBSET shown : Lists(order[r], r)}
<1>6. {} \in Good
  <2>1. Lists(<< >>, {})
    BY DEF Lists
  <2> QED
    BY <1>5, <2>1
<1>7. ASSUME NEW r \in SUBSET shown, r # {}, \A x \in r : r \ {x} \in Good PROVE r \in Good
  <2>1. Lists(order[r \ {Earliest(r)}], r \ {Earliest(r)})
    BY <1>2, <1>7
  <2>2. Lists(<<Earliest(r)>> \o order[r \ {Earliest(r)}], r)
    BY <1>7, <2>1, ListsMore
  <2> QED
    BY <1>5, <1>7, <2>2
<1> HIDE DEF Good
<1>8. shown \in Good
  BY <1>6, <1>7, EverySubset
<1> QED
  BY <1>1, <1>8 DEF Good

-----------------------------------------------------------------------------
(* Sums.                                                                   *)

SomeOf(r) == CHOOSE x \in r : TRUE

(* g adds up f over every part of T.                                       *)
Adds(g, f, T) ==
    /\ g \in [SUBSET T -> Nat] /\ g[{}] = 0
    /\ \A r \in (SUBSET T) \ {{}} : g[r] = f[SomeOf(r)] + g[r \ {SomeOf(r)}]

LEMMA SumAdds ==
    ASSUME NEW T, IsFiniteSet(T), NEW f, \A x \in T : f[x] \in Nat
    PROVE  \E g : Adds(g, f, T) /\ g[T] = SumFunctionOnSet(f, T)
<1> DEFINE IsSum(g) == g = [r \in SUBSET T |->
                              IF r = {} THEN 0 ELSE f[SomeOf(r)] + g[r \ {SomeOf(r)}]]
           total == CHOOSE g : IsSum(g)
<1>1. SumFunctionOnSet(f, T) = total[T]
  BY Zenon DEF SumFunctionOnSet, FoldFunctionOnSet, MapThenFoldSet, SomeOf
<1>2. \A r \in (SUBSET T) \ {{}} : SomeOf(r) \in r
  BY DEF SomeOf
<1>3. \E g : IsSum(g)
  <2> DEFINE pick == [r \in (SUBSET T) \ {{}} |-> SomeOf(r)]
             step == [p \in T \X Nat |-> f[p[1]] + p[2]]
  <2>1. Picks(pick, T) /\ \A r \in (SUBSET T) \ {{}} : pick[r] = SomeOf(r)
    BY <1>2 DEF Picks
  <2>2. step \in [T \X Nat -> Nat] /\ \A x \in T, k \in Nat : step[<<x, k>>] = f[x] + k
    OBVIOUS
  <2> HIDE DEF pick, step
  <2>3. PICK g : g \in [SUBSET T -> Nat] /\ Recurses(g, T, 0, pick, step)
    BY <2>1, <2>2, SubsetRecursion
  <2>4. ASSUME NEW r \in (SUBSET T) \ {{}} PROVE g[r] = f[SomeOf(r)] + g[r \ {SomeOf(r)}]
    <3>1. SomeOf(r) \in T /\ g[r \ {SomeOf(r)}] \in Nat
      BY <1>2, <2>3
    <3> QED
      BY <2>1, <2>2, <2>3, <3>1 DEF Recurses
  <2>5. IsSum(g)
    BY <2>3, <2>4 DEF Recurses
  <2> QED
    BY <2>5
<1>4. IsSum(total)
  BY <1>3
<1>5. /\ total[{}] = 0
      /\ \A r \in (SUBSET T) \ {{}} : total[r] = f[SomeOf(r)] + total[r \ {SomeOf(r)}]
      /\ total = [r \in SUBSET T |-> total[r]]
  BY <1>4
<1> HIDE DEF total, IsSum
<1> DEFINE Good == {r \in SUBSET T : total[r] \in Nat}
<1>6. {} \in Good
  BY <1>5
<1>7. ASSUME NEW r \in SUBSET T, r # {}, \A x \in r : r \ {x} \in Good PROVE r \in Good
  <2>1. SomeOf(r) \in r /\ f[SomeOf(r)] \in Nat
    BY <1>2, <1>7
  <2>2. total[r \ {SomeOf(r)}] \in Nat
    BY <1>7, <2>1
  <2>3. total[r] = f[SomeOf(r)] + total[r \ {SomeOf(r)}]
    BY <1>5, <1>7
  <2> QED
    BY <2>1, <2>2, <2>3
<1> HIDE DEF Good
<1>8. SUBSET T \subseteq Good
  BY <1>6, <1>7, EverySubset
<1>9. total \in [SUBSET T -> Nat]
  BY <1>5, <1>8 DEF Good
<1> QED
  BY <1>1, <1>5, <1>9 DEF Adds

(* It doesn't matter which element is taken out first.                     *)
LEMMA AddsAny ==
    ASSUME NEW T, IsFiniteSet(T), NEW f, \A x \in T : f[x] \in Nat, NEW g, Adds(g, f, T),
           NEW s \in SUBSET T, NEW x \in s
    PROVE  g[s] = f[x] + g[s \ {x}]
<1> DEFINE Good == {r \in SUBSET T : \A y \in r : g[r] = f[y] + g[r \ {y}]}
<1>1. {} \in Good
  OBVIOUS
<1>2. ASSUME NEW r \in SUBSET T, r # {}, \A y \in r : r \ {y} \in Good PROVE r \in Good
  <2> SUFFICES ASSUME NEW y \in r PROVE g[r] = f[y] + g[r \ {y}]
    OBVIOUS
  <2>1. PICK z : z = SomeOf(r)
    OBVIOUS
  <2>2. z \in r /\ g[r] = f[z] + g[r \ {z}]
    BY <1>2, <2>1 DEF Adds, SomeOf
  <2>3. CASE y = z
    BY <2>2, <2>3
  <2>4. CASE y # z
    <3>1. g[r \ {z}] = f[y] + g[(r \ {z}) \ {y}]
      BY <1>2, <2>2, <2>4
    <3>2. g[r \ {y}] = f[z] + g[(r \ {y}) \ {z}]
      BY <1>2, <2>2, <2>4
    <3>3. (r \ {z}) \ {y} = (r \ {y}) \ {z}
      OBVIOUS
    <3>4. PICK k \in Nat : k = g[(r \ {y}) \ {z}]
      BY DEF Adds
    <3>5. g[r] = f[z] + (f[y] + k) /\ g[r \ {y}] = f[z] + k
      BY <2>2, <3>1, <3>2, <3>3, <3>4
    <3>6. f[y] \in Nat /\ f[z] \in Nat
      BY <2>2
    <3> QED
      BY <3>5, <3>6
  <2> QED
    BY <2>3, <2>4
<1> HIDE DEF Good
<1>3. s \in Good
  BY <1>1, <1>2, EverySubset
<1> QED
  BY <1>3 DEF Good

LEMMA SumWithout ==
    ASSUME NEW T, IsFiniteSet(T), NEW f, \A x \in T : f[x] \in Nat, NEW x \in T
    PROVE  /\ SumFunctionOnSet(f, T) \in Nat
           /\ SumFunctionOnSet(f, T) = f[x] + SumFunctionOnSet(f, T \ {x})
<1>1. PICK g : Adds(g, f, T) /\ g[T] = SumFunctionOnSet(f, T)
  BY SumAdds
<1> DEFINE U == T \ {x}
<1>2. IsFiniteSet(U) /\ \A y \in U : f[y] \in Nat
  BY FS_RemoveElement
<1>3. PICK h : Adds(h, f, U) /\ h[U] = SumFunctionOnSet(f, U)
  BY <1>2, SumAdds
<1> DEFINE Good == {r \in SUBSET U : h[r] = g[r]}
<1>4. {} \in Good
  BY <1>1, <1>3 DEF Adds
<1>5. ASSUME NEW r \in SUBSET U, r # {}, \A y \in r : r \ {y} \in Good PROVE r \in Good
  <2>1. SomeOf(r) \in r
    BY <1>5 DEF SomeOf
  <2>2. h[r \ {SomeOf(r)}] = g[r \ {SomeOf(r)}]
    BY <1>5, <2>1
  <2>3. h[r] = f[SomeOf(r)] + h[r \ {SomeOf(r)}] /\ g[r] = f[SomeOf(r)] + g[r \ {SomeOf(r)}]
    BY <1>1, <1>3, <1>5 DEF Adds
  <2> QED
    BY <2>2, <2>3
<1> HIDE DEF Good, U
<1>6. U \in Good
  BY <1>2, <1>4, <1>5, EverySubset
<1>7. g[U] = SumFunctionOnSet(f, U)
  BY <1>3, <1>6 DEF Good
<1>8. g[T] = f[x] + g[U]
  BY <1>1, AddsAny DEF U
<1>9. g[T] \in Nat
  BY <1>1 DEF Adds
<1> QED
  BY <1>1, <1>7, <1>8, <1>9 DEF U

LEMMA SumToIs ==
    ASSUME NEW n \in Nat, NEW f, \A i \in 1 .. n : f[i] \in Nat
    PROVE  /\ SumTo(f, 0) = 0
           /\ \A i \in 0 .. n : SumTo(f, i) \in Nat
           /\ \A i \in 1 .. n : SumTo(f, i) = SumTo(f, i - 1) + f[i]
<1>1. SumTo(f, 0) = 0
  <2>1. PICK g : Adds(g, f, {}) /\ g[{}] = SumFunctionOnSet(f, {})
    BY SumAdds, FS_EmptySet
  <2>2. 1 .. 0 = {}
    OBVIOUS
  <2> QED
    BY <2>1, <2>2 DEF SumTo, Adds
<1>2. ASSUME NEW i \in 1 .. n
      PROVE  SumTo(f, i) \in Nat /\ SumTo(f, i) = f[i] + SumTo(f, i - 1)
  <2>1. IsFiniteSet(1 .. i) /\ i \in 1 .. i /\ (1 .. i) \ {i} = 1 .. i - 1
    BY FS_Interval
  <2>2. \A j \in 1 .. i : f[j] \in Nat
    OBVIOUS
  <2> QED
    BY <2>1, <2>2, SumWithout DEF SumTo
<1>3. ASSUME NEW i \in 0 .. n PROVE SumTo(f, i) \in Nat
  BY <1>1, <1>2
<1>4. \A i \in 1 .. n : SumTo(f, i) = SumTo(f, i - 1) + f[i]
  <2> TAKE i \in 1 .. n
  <2>1. i - 1 \in 0 .. n /\ SumTo(f, i - 1) \in Nat /\ f[i] \in Nat
    BY <1>3
  <2> QED
    BY <1>2, <2>1
<1> QED
  BY <1>1, <1>3, <1>4

-----------------------------------------------------------------------------
(* Allocation. After paid in all, a charge that is preceded by charges     *)
(* worth before has taken FillAt; and of a payment of amount on top of     *)
(* that, LeftAt is left when charges worth before have been passed.        *)

FillAt(before, owed, paid) ==
    IF paid <= before THEN 0 ELSE Min({owed, paid - before})

LeftAt(before, paid, amount) ==
    IF paid + amount <= before THEN 0 ELSE Min({amount, paid + amount - before})

LEMMA FillIs ==
    ASSUME NEW before \in Nat, NEW owed \in Nat, NEW paid \in Nat
    PROVE  FillAt(before, owed, paid) = IF paid <= before THEN 0
                                        ELSE IF owed <= paid - before THEN owed
                                        ELSE paid - before
BY OfTwo DEF FillAt

LEMMA LeftIs ==
    ASSUME NEW before \in Nat, NEW paid \in Nat, NEW amount \in Nat
    PROVE  LeftAt(before, paid, amount) = IF paid + amount <= before THEN 0
                                          ELSE IF amount <= paid + amount - before THEN amount
                                          ELSE paid + amount - before
BY OfTwo DEF LeftAt

(* A payment with had left meets a charge that has taken from the ones     *)
(* before it: left goes on to the next charge, this one is then filled.    *)
Passes(owed, taken, had, left, filled) ==
    /\ taken \in Nat /\ taken <= owed
    /\ had - Min({had, owed - taken}) = left
    /\ taken + had - left = filled

LEMMA OneCharge ==
    ASSUME NEW before \in Nat, NEW owed \in Nat, NEW paid \in Nat, NEW amount \in Nat
    PROVE  Passes(owed, FillAt(before, owed, paid), LeftAt(before, paid, amount),
                  LeftAt(before + owed, paid, amount), FillAt(before, owed, paid + amount))
<1>0. PICK had, left, taken : /\ had = LeftAt(before, paid, amount)
                              /\ left = LeftAt(before + owed, paid, amount)
                              /\ taken = FillAt(before, owed, paid)
  OBVIOUS
<1>1. had = IF paid + amount <= before THEN 0
            ELSE IF amount <= paid + amount - before THEN amount ELSE paid + amount - before
  BY <1>0, LeftIs
<1>2. left = IF paid + amount <= before + owed THEN 0
             ELSE IF amount <= paid + amount - (before + owed) THEN amount
             ELSE paid + amount - (before + owed)
  <2>1. PICK after \in Nat : after = before + owed
    OBVIOUS
  <2> QED
    BY <1>0, <2>1, LeftIs
<1>3. taken = IF paid <= before THEN 0
              ELSE IF owed <= paid - before THEN owed ELSE paid - before
  BY <1>0, FillIs
<1>4. FillAt(before, owed, paid + amount) =
         IF paid + amount <= before THEN 0
         ELSE IF owed <= paid + amount - before THEN owed ELSE paid + amount - before
  <2>1. PICK both \in Nat : both = paid + amount
    OBVIOUS
  <2> QED
    BY <2>1, FillIs
<1>5. had \in Nat /\ left \in Nat
  BY <1>1, <1>2
<1>6. taken \in Nat /\ taken <= owed
  BY <1>3
<1>7. Min({had, owed - taken}) = IF had <= owed - taken THEN had ELSE owed - taken
  <2>1. PICK short \in Nat : short = owed - taken
    BY <1>6
  <2>2. Min({had, short}) = IF had <= short THEN had ELSE short
    BY <1>5, OfTwo
  <2> QED
    BY <2>1, <2>2
<1>8. had - Min({had, owed - taken}) = left
  BY <1>1, <1>2, <1>3, <1>5, <1>6, <1>7
<1>9. taken + had - left = FillAt(before, owed, paid + amount)
  BY <1>1, <1>2, <1>3, <1>4
<1> QED
  BY <1>0, <1>6, <1>8, <1>9 DEF Passes

(* Two functions that begin alike and go on alike are alike.               *)
GoAlike(f, g, n) ==
    /\ f[0] = g[0]
    /\ \A i \in 1 .. n : f[i - 1] = g[i - 1] => f[i] = g[i]

LEMMA Determined ==
    ASSUME NEW n \in Nat, NEW f, NEW g, GoAlike(f, g, n)
    PROVE  \A i \in 0 .. n : f[i] = g[i]
<1>0. f[0] = g[0] /\ \A i \in 1 .. n : f[i - 1] = g[i - 1] => f[i] = g[i]
  BY DEF GoAlike
<1> DEFINE Good == {i \in 0 .. n : f[i] = g[i]}
<1>1. 0 \in Good
  BY <1>0
<1>2. \A i \in 1 .. n : i - 1 \in Good => i \in Good
  BY <1>0
<1> HIDE DEF Good
<1>3. 0 .. n \subseteq Good
  BY <1>1, <1>2, EveryNumber
<1> QED
  BY <1>3 DEF Good

Owed(order) == [i \in DOMAIN order |-> IF order[i].waived THEN 0 ELSE order[i].amount]

Due(order, i) == SumTo(Owed(order), i)

Filled(order, paid) == [i \in DOMAIN order |-> FillAt(Due(order, i - 1), Owed(order)[i], paid)]

Credit(order, paid) ==
    IF paid <= Due(order, Len(order)) THEN 0 ELSE paid - Due(order, Len(order))

LEMMA OwedIs ==
    ASSUME NEW order \in Seq(ChargeType)
    PROVE  /\ Len(order) \in Nat /\ DOMAIN order = 1 .. Len(order)
           /\ \A i \in 1 .. Len(order) : Owed(order)[i] \in Nat
           /\ Due(order, 0) = 0
           /\ \A i \in 0 .. Len(order) : Due(order, i) \in Nat
           /\ \A i \in 1 .. Len(order) : Due(order, i) = Due(order, i - 1) + Owed(order)[i]
<1>1. Len(order) \in Nat /\ DOMAIN order = 1 .. Len(order)
  OBVIOUS
<1>2. ASSUME NEW i \in 1 .. Len(order) PROVE Owed(order)[i] \in Nat
  <2>1. order[i] \in ChargeType
    BY <1>1
  <2>2. order[i].amount \in Nat
    BY <2>1 DEF ChargeType
  <2> QED
    BY <1>1, <2>2 DEF Owed
<1> QED
  BY <1>1, <1>2, SumToIs DEF Due

(* The charge with which all that was paid is used up.                     *)
LastPaid(order, paid) ==
    Min({i \in 1 .. Len(order) : paid <= Due(order, i)} \union {Len(order) + 1})

(* What comes before it is full.                                           *)
LEMMA LastPaidIs ==
    ASSUME NEW order \in Seq(ChargeType), NEW paid \in Nat
    PROVE  /\ LastPaid(order, paid) \in 1 .. Len(order) + 1
           /\ \A i \in 1 .. Len(order) : i < LastPaid(order, paid) => Due(order, i) < paid
<1> DEFINE n == Len(order)
           Reached == {i \in 1 .. n : paid <= Due(order, i)} \union {n + 1}
<1>1. n \in Nat /\ \A i \in 1 .. n : Due(order, i) \in Nat
  BY OwedIs
<1> HIDE DEF n
<1>2. Reached \subseteq Nat /\ Reached \subseteq 1 .. n + 1 /\ n + 1 \in Reached
  BY <1>1
<1>3. \A i \in 1 .. n : i \notin Reached => Due(order, i) < paid
  BY <1>1
<1> HIDE DEF Reached
<1>4. Min(Reached) \in Reached /\ \A i \in Reached : Min(Reached) <= i
  <2>1. PICK i \in Reached : \A j \in Reached : i <= j
    BY <1>2, LeastOf
  <2>2. Min(Reached) = i
    BY <1>2, <2>1, MinIs
  <2> QED
    BY <2>1, <2>2
<1>5. LastPaid(order, paid) = Min(Reached)
  BY DEF LastPaid, Reached, n
<1>6. \A i \in 1 .. n : i < Min(Reached) => i \notin Reached
  <2>1. PICK least \in Nat : least = Min(Reached) /\ \A i \in Reached : least <= i
    BY <1>2, <1>4
  <2>2. \A i \in 1 .. n : i < least => i \notin Reached
    BY <1>1, <1>2, <2>1
  <2> QED
    BY <2>1, <2>2
<1> QED
  BY <1>2, <1>3, <1>4, <1>5, <1>6 DEF n

LEMMA ApplyIs ==
    ASSUME NEW order \in Seq(ChargeType), NEW paid \in Nat, NEW amount \in Nat \ {0}
    PROVE  ApplyPayment(order, Filled(order, paid), LastPaid(order, paid), amount) =
              [taken |-> Filled(order, paid + amount),
               left |-> LeftAt(Due(order, Len(order)), paid, amount),
               cursor |-> LastPaid(order, paid + amount)]
<1> DEFINE n == Len(order)
           taken == Filled(order, paid)
           cursor == LastPaid(order, paid)
           IsLeft(l) == l = [i \in 0 .. n |->
                               IF i < cursor THEN amount
                               ELSE l[i - 1] - Min({l[i - 1], Remaining(order[i], taken[i])})]
           left == CHOOSE l : IsLeft(l)
           passed == [i \in 0 .. n |-> LeftAt(Due(order, i), paid, amount)]
<1>1. ApplyPayment(order, taken, cursor, amount) =
         [taken |-> [i \in DOMAIN order |-> taken[i] + left[i - 1] - left[i]],
          left |-> left[n], cursor |-> StopsAt(left, cursor, n)]
  BY Zenon DEF ApplyPayment
<1>2. /\ n \in Nat /\ DOMAIN order = 1 .. n
      /\ \A i \in 1 .. n : Owed(order)[i] \in Nat
      /\ Due(order, 0) = 0
      /\ \A i \in 0 .. n : Due(order, i) \in Nat
      /\ \A i \in 1 .. n : Due(order, i) = Due(order, i - 1) + Owed(order)[i]
  BY OwedIs
<1>3. ASSUME NEW i \in 1 .. n
      PROVE  /\ passed[i] = passed[i - 1] - Min({passed[i - 1], Remaining(order[i], taken[i])})
             /\ taken[i] + passed[i - 1] - passed[i] = Filled(order, paid + amount)[i]
  <2>1. PICK before, owed : before = Due(order, i - 1) /\ owed = Owed(order)[i]
    OBVIOUS
  <2>2. before \in Nat /\ owed \in Nat /\ Due(order, i) = before + owed
    BY <1>2, <2>1
  <2>3. taken[i] = FillAt(before, owed, paid)
    BY <1>2, <2>1 DEF Filled
  <2>4. Filled(order, paid + amount)[i] = FillAt(before, owed, paid + amount)
    BY <1>2, <2>1 DEF Filled
  <2>5. passed[i - 1] = LeftAt(before, paid, amount) /\ passed[i] = LeftAt(before + owed, paid, amount)
    BY <2>1, <2>2
  <2>6. owed = IF order[i].waived THEN 0 ELSE order[i].amount
    BY <1>2, <2>1 DEF Owed
  <2> HIDE DEF passed, taken
  <2>7. /\ taken[i] \in Nat /\ taken[i] <= owed
        /\ passed[i - 1] - Min({passed[i - 1], owed - taken[i]}) = passed[i]
        /\ taken[i] + passed[i - 1] - passed[i] = FillAt(before, owed, paid + amount)
    <3>1. Passes(owed, taken[i], passed[i - 1], passed[i], FillAt(before, owed, paid + amount))
      BY <2>2, <2>3, <2>5, OneCharge
    <3> QED
      BY <3>1 DEF Passes
  <2>8. Remaining(order[i], taken[i]) = owed - taken[i]
    BY <2>2, <2>6, <2>7 DEF Remaining
  <2> QED
    BY <2>4, <2>7, <2>8
<1>0. /\ cursor \in 1 .. n + 1
      /\ \A i \in 0 .. n : i < cursor => Due(order, i) <= paid
  <2>1. cursor \in 1 .. n + 1 /\ \A i \in 1 .. n : i < cursor => Due(order, i) < paid
    BY LastPaidIs
  <2> HIDE DEF cursor, n
  <2> QED
    BY <1>2, <2>1
<1>4. ASSUME NEW i \in 0 .. n, i < cursor PROVE passed[i] = amount
  <2>1. PICK before : before = Due(order, i)
    OBVIOUS
  <2>2. before \in Nat /\ before <= paid
    BY <1>0, <1>2, <1>4, <2>1
  <2>3. LeftAt(before, paid, amount) = amount
    BY <2>2, LeftIs
  <2> QED
    BY <2>1, <2>3
<1>5. passed = [i \in 0 .. n |-> passed[i]]
  OBVIOUS
<1> HIDE DEF passed, taken, cursor
<1>6. IsLeft(passed)
  <2>1. ASSUME NEW i \in 0 .. n
        PROVE  passed[i] = IF i < cursor THEN amount
                           ELSE passed[i - 1] - Min({passed[i - 1], Remaining(order[i], taken[i])})
    <3>1. ~ (i < cursor) => i \in 1 .. n
      BY <1>0, <1>2
    <3> QED
      BY <1>3, <1>4, <3>1
  <2> QED
    BY <1>5, <2>1
<1>7. IsLeft(left)
  BY <1>6
<1> HIDE DEF left
<1>8. \A i \in 0 .. n :
         left[i] = IF i < cursor THEN amount
                   ELSE left[i - 1] - Min({left[i - 1], Remaining(order[i], taken[i])})
  BY <1>7
<1> HIDE DEF IsLeft
<1>9. \A i \in 0 .. n : left[i] = passed[i]
  <2>1. left[0] = passed[0]
    <3>1. 0 \in 0 .. n /\ 0 < cursor
      BY <1>0, <1>2
    <3> QED
      BY <1>4, <1>8, <3>1
  <2>2. ASSUME NEW i \in 1 .. n, left[i - 1] = passed[i - 1] PROVE left[i] = passed[i]
    <3>1. i \in 0 .. n
      BY <1>2
    <3>2. CASE i < cursor
      BY <1>4, <1>8, <3>1, <3>2
    <3>3. CASE ~ (i < cursor)
      BY <1>3, <1>8, <2>2, <3>1, <3>3
    <3> QED
      BY <3>2, <3>3
  <2>3. n \in Nat
    BY <1>2
  <2>4. \A i \in 1 .. n : left[i - 1] = passed[i - 1] => left[i] = passed[i]
    BY <2>2
  <2>5. GoAlike(left, passed, n)
    BY <2>1, <2>4 DEF GoAlike
  <2> HIDE DEF n
  <2> QED
    BY <2>3, <2>5, Determined
<1>10. [i \in DOMAIN order |-> taken[i] + left[i - 1] - left[i]] = Filled(order, paid + amount)
  <2>1. ASSUME NEW i \in DOMAIN order
        PROVE  taken[i] + left[i - 1] - left[i] = Filled(order, paid + amount)[i]
    <3>1. i \in 1 .. n /\ i \in 0 .. n /\ i - 1 \in 0 .. n
      BY <1>2
    <3>2. left[i - 1] = passed[i - 1] /\ left[i] = passed[i]
      BY <1>9, <3>1
    <3> QED
      BY <1>3, <3>1, <3>2
  <2> QED
    BY <2>1 DEF Filled
<1>11. left[n] = LeftAt(Due(order, n), paid, amount)
  BY <1>2, <1>9 DEF passed
<1>12. StopsAt(left, cursor, n) = LastPaid(order, paid + amount)
  <2>1. ASSUME NEW i \in 0 .. n PROVE left[i] = 0 <=> paid + amount <= Due(order, i)
    <3>1. PICK before : before = Due(order, i)
      OBVIOUS
    <3>2. before \in Nat /\ left[i] = LeftAt(before, paid, amount)
      BY <1>2, <1>9, <3>1 DEF passed
    <3>3. LeftAt(before, paid, amount) = 0 <=> paid + amount <= before
      BY <3>2, LeftIs
    <3> QED
      BY <3>1, <3>2, <3>3
  <2>2. ASSUME NEW i \in 1 .. n, paid + amount <= Due(order, i) PROVE i \in cursor .. n
    BY <1>0, <1>2, <2>2
  <2>3. cursor .. n \subseteq 1 .. n
    BY <1>0, <1>2
  <2>4. {i \in cursor .. n : left[i] = 0} = {i \in 1 .. n : paid + amount <= Due(order, i)}
    BY <1>2, <2>1, <2>2, <2>3
  <2> QED
    BY <2>4 DEF StopsAt, LastPaid
<1> QED
  BY <1>1, <1>10, <1>11, <1>12 DEF taken, cursor

LEMMA AllocateIs ==
    ASSUME NEW order \in Seq(ChargeType), NEW payments \in Seq(Nat \ {0})
    PROVE  LET paid == SumTo(payments, Len(payments))
           IN  Allocate(order, payments) = [taken |-> Filled(order, paid),
                                            unapplied |-> Credit(order, paid),
                                            cursor |-> LastPaid(order, paid)]
<1> DEFINE n == Len(payments)
           Paid(k) == SumTo(payments, k)
           nothing == [taken |-> [i \in DOMAIN order |-> 0], unapplied |-> 0, cursor |-> 1]
           done(had, p) == ApplyPayment(order, had.taken, had.cursor, p)
           more(had, p) == [taken |-> done(had, p).taken,
                            unapplied |-> had.unapplied + done(had, p).left,
                            cursor |-> done(had, p).cursor]
           IsAfter(a) == a = [k \in 0 .. n |->
                                IF k = 0 THEN nothing ELSE more(a[k - 1], payments[k])]
           after == CHOOSE a : IsAfter(a)
           result == [k \in 0 .. n |-> [taken |-> Filled(order, Paid(k)),
                                        unapplied |-> Credit(order, Paid(k)),
                                        cursor |-> LastPaid(order, Paid(k))]]
<1>1. Allocate(order, payments) = after[n]
  BY Zenon DEF Allocate
<1>2. n \in Nat /\ \A k \in 1 .. n : payments[k] \in Nat \ {0}
  OBVIOUS
<1>3. /\ Paid(0) = 0 /\ \A k \in 0 .. n : Paid(k) \in Nat
      /\ \A k \in 1 .. n : Paid(k) = Paid(k - 1) + payments[k]
  BY <1>2, SumToIs
<1>4. result[0] = nothing
  <2>1. ASSUME NEW i \in DOMAIN order PROVE Filled(order, 0)[i] = 0
    <3>1. Due(order, i - 1) \in Nat
      BY OwedIs
    <3> QED
      BY <3>1 DEF Filled, FillAt
  <2>2. Filled(order, 0) = [i \in DOMAIN order |-> 0]
    BY <2>1 DEF Filled
  <2>3. Credit(order, 0) = 0
    BY OwedIs DEF Credit
  <2>4. LastPaid(order, 0) = 1
    <3>1. /\ LastPaid(order, 0) \in 1 .. Len(order) + 1
          /\ \A i \in 1 .. Len(order) : i < LastPaid(order, 0) => Due(order, i) < 0
      BY LastPaidIs
    <3>2. Len(order) \in Nat /\ \A i \in 1 .. Len(order) : Due(order, i) \in Nat
      BY OwedIs
    <3>3. LastPaid(order, 0) # 1 => 1 \in 1 .. Len(order) /\ 1 < LastPaid(order, 0)
      BY <3>1, <3>2
    <3>4. 1 \in 1 .. Len(order) => ~ (Due(order, 1) < 0)
      BY <3>2
    <3> QED
      BY <3>1, <3>3, <3>4
  <2> QED
    BY <1>2, <1>3, <2>2, <2>3, <2>4
<1>5. ASSUME NEW k \in 1 .. n PROVE result[k] = more(result[k - 1], payments[k])
  <2>0. Paid(k - 1) \in Nat /\ payments[k] \in Nat \ {0} /\ Due(order, Len(order)) \in Nat
    BY <1>2, <1>3, OwedIs
  <2>1. PICK paid \in Nat, amount \in Nat \ {0}, total \in Nat :
           paid = Paid(k - 1) /\ amount = payments[k] /\ total = Due(order, Len(order))
    BY <2>0
  <2>2. Paid(k) = paid + amount
    BY <1>3, <2>1
  <2>3. /\ result[k - 1].taken = Filled(order, paid)
        /\ result[k - 1].unapplied = Credit(order, paid)
        /\ result[k - 1].cursor = LastPaid(order, paid)
    BY <2>1
  <2>4. /\ result[k] = [taken |-> Filled(order, paid + amount),
                        unapplied |-> Credit(order, paid + amount),
                        cursor |-> LastPaid(order, paid + amount)]
    BY <2>2
  <2>5. Credit(order, paid + amount) = Credit(order, paid) + LeftAt(total, paid, amount)
    <3>1. LeftAt(total, paid, amount) = IF paid + amount <= total THEN 0
                                        ELSE IF amount <= paid + amount - total THEN amount
                                        ELSE paid + amount - total
      BY LeftIs
    <3>2. /\ Credit(order, paid) = IF paid <= total THEN 0 ELSE paid - total
          /\ Credit(order, paid + amount) = IF paid + amount <= total THEN 0
                                            ELSE paid + amount - total
      BY <2>1 DEF Credit
    <3> QED
      BY <2>1, <3>1, <3>2
  <2>6. ApplyPayment(order, Filled(order, paid), LastPaid(order, paid), amount) =
           [taken |-> Filled(order, paid + amount), left |-> LeftAt(total, paid, amount),
            cursor |-> LastPaid(order, paid + amount)]
    BY <2>1, ApplyIs
  <2>7. more(result[k - 1], amount) =
           [taken |-> Filled(order, paid + amount),
            unapplied |-> Credit(order, paid) + LeftAt(total, paid, amount),
            cursor |-> LastPaid(order, paid + amount)]
    BY <2>3, <2>6
  <2> QED
    BY <2>1, <2>4, <2>5, <2>7
<1>6. result = [k \in 0 .. n |-> result[k]]
  OBVIOUS
<1>7. result[n] = [taken |-> Filled(order, Paid(n)), unapplied |-> Credit(order, Paid(n)),
                   cursor |-> LastPaid(order, Paid(n))]
  BY <1>2
<1> HIDE DEF result, more, nothing
<1>8. IsAfter(result)
  <2>1. ASSUME NEW k \in 0 .. n
        PROVE  result[k] = IF k = 0 THEN nothing ELSE more(result[k - 1], payments[k])
    BY <1>2, <1>4, <1>5
  <2> QED
    BY <1>6, <2>1
<1>9. IsAfter(after)
  BY <1>8
<1> HIDE DEF after
<1>10. after[0] = nothing /\ \A k \in 1 .. n : after[k] = more(after[k - 1], payments[k])
  <2>1. \A k \in 0 .. n : after[k] = IF k = 0 THEN nothing ELSE more(after[k - 1], payments[k])
    BY <1>9
  <2> QED
    BY <1>2, <2>1
<1> HIDE DEF IsAfter
<1>11. after[n] = result[n]
  <2>1. after[0] = result[0]
    BY <1>4, <1>10
  <2>2. \A k \in 1 .. n : after[k - 1] = result[k - 1] => after[k] = result[k]
    BY <1>5, <1>10
  <2>3. n \in Nat
    BY <1>2
  <2>4. GoAlike(after, result, n)
    BY <2>1, <2>2 DEF GoAlike
  <2>5. \A k \in 0 .. n : after[k] = result[k]
    <3> HIDE DEF n
    <3> QED
      BY <2>3, <2>4, Determined
  <2> QED
    BY <2>3, <2>5
<1> QED
  BY <1>1, <1>7, <1>11

(* No cent of any payments is lost or used twice: what the charges have    *)
(* taken and what is left as credit add up to what was paid, whatever      *)
(* charges are waived and in whatever order they come (rent_allocation).   *)
THEOREM EveryCentPlaced ==
    ASSUME NEW order \in Seq(ChargeType), NEW payments \in Seq(Nat \ {0})
    PROVE  SumTo(Allocate(order, payments).taken, Len(order))
              + Allocate(order, payments).unapplied
           = SumTo(payments, Len(payments))
<1> DEFINE n == Len(order)
           paid == SumTo(payments, Len(payments))
           taken == Filled(order, paid)
           Total(k) == SumTo(taken, k)
           Good == {k \in 0 .. n : Total(k) = IF paid <= Due(order, k) THEN paid
                                             ELSE Due(order, k)}
<1>1. /\ Allocate(order, payments).taken = taken
      /\ Allocate(order, payments).unapplied = Credit(order, paid)
  BY AllocateIs
<1>2. paid \in Nat
  <2>1. Len(payments) \in Nat /\ \A k \in 1 .. Len(payments) : payments[k] \in Nat
    OBVIOUS
  <2>2. \A k \in 0 .. Len(payments) : SumTo(payments, k) \in Nat
    BY <2>1, SumToIs
  <2> QED
    BY <2>1, <2>2
<1>3. /\ n \in Nat /\ DOMAIN order = 1 .. n
      /\ \A i \in 1 .. n : Owed(order)[i] \in Nat
      /\ Due(order, 0) = 0
      /\ \A i \in 0 .. n : Due(order, i) \in Nat
      /\ \A i \in 1 .. n : Due(order, i) = Due(order, i - 1) + Owed(order)[i]
  BY OwedIs
<1> HIDE DEF paid
<1>4. ASSUME NEW i \in 1 .. n
      PROVE  /\ taken[i] \in Nat
             /\ taken[i] = IF paid <= Due(order, i - 1) THEN 0
                           ELSE IF Owed(order)[i] <= paid - Due(order, i - 1) THEN Owed(order)[i]
                           ELSE paid - Due(order, i - 1)
  <2>1. PICK before, owed : before = Due(order, i - 1) /\ owed = Owed(order)[i]
    OBVIOUS
  <2>2. before \in Nat /\ owed \in Nat
    BY <1>3, <2>1
  <2>3. taken[i] = FillAt(before, owed, paid)
    BY <1>3, <2>1 DEF Filled
  <2>4. FillAt(before, owed, paid) = IF paid <= before THEN 0
                                     ELSE IF owed <= paid - before THEN owed ELSE paid - before
    BY <1>2, <2>2, FillIs
  <2>5. FillAt(before, owed, paid) \in Nat
    BY <1>2, <2>2, <2>4
  <2> HIDE DEF taken
  <2> QED
    BY <2>1, <2>3, <2>4, <2>5
<1> HIDE DEF taken, n
<1>5. /\ Total(0) = 0 /\ \A k \in 0 .. n : Total(k) \in Nat
      /\ \A k \in 1 .. n : Total(k) = Total(k - 1) + taken[k]
  BY <1>3, <1>4, SumToIs
<1>6. 0 \in Good
  BY <1>2, <1>3, <1>5
<1>7. ASSUME NEW k \in 1 .. n, k - 1 \in Good PROVE k \in Good
  <2>1. PICK before \in Nat, owed \in Nat : before = Due(order, k - 1) /\ owed = Owed(order)[k]
    BY <1>3
  <2>2. Due(order, k) = before + owed
    BY <1>3, <2>1
  <2>3. Total(k - 1) = IF paid <= before THEN paid ELSE before
    BY <1>7, <2>1
  <2>4. taken[k] = IF paid <= before THEN 0
                   ELSE IF owed <= paid - before THEN owed ELSE paid - before
    BY <1>4, <2>1
  <2>5. Total(k) = Total(k - 1) + taken[k]
    BY <1>5
  <2>6. Total(k) = IF paid <= before + owed THEN paid ELSE before + owed
    <3>1. PICK sum, more : sum = Total(k - 1) /\ more = taken[k]
      OBVIOUS
    <3>2. sum + more = IF paid <= before + owed THEN paid ELSE before + owed
      BY <1>2, <2>1, <2>3, <2>4, <3>1
    <3> QED
      BY <2>5, <3>1, <3>2
  <2> QED
    BY <2>2, <2>6
<1> HIDE DEF Good
<1>8. n \in Good
  <2>1. n \in Nat
    BY <1>3
  <2>2. 0 .. n \subseteq Good
    BY <1>6, <1>7, <2>1, EveryNumber
  <2> QED
    BY <2>1, <2>2
<1>9. Total(n) = IF paid <= Due(order, n) THEN paid ELSE Due(order, n)
  BY <1>8 DEF Good
<1>10. Credit(order, paid) = IF paid <= Due(order, n) THEN 0 ELSE paid - Due(order, n)
  BY DEF Credit, n
<1>11. Due(order, n) \in Nat
  BY <1>3
<1>12. Total(n) + Credit(order, paid) = paid
  BY <1>2, <1>9, <1>10, <1>11
<1> QED
  BY <1>1, <1>12 DEF n, paid

-----------------------------------------------------------------------------
(* The ledger. There is no bound on the ids of schedules, but only so many *)
(* have been entered; and the charges of a schedule begin on different     *)
(* days, and the host adds one by one edit, so there are only so many of   *)
(* these too.                                                              *)

Entered == {s \in Schedules : schedules[s].status # "absent"}

FewEntered == IsFiniteSet(Entered)

(* A step enters one schedule at most.                                     *)
LEMMA OneEntered ==
    ASSUME TypeInv, [Next]_vars
    PROVE  \E t : Entered' \subseteq Entered \union {t}
<1> USE DEF Entered
<1>0. schedules \in [Schedules -> ScheduleType]
  BY DEF TypeInv, TypeOK
<1>1. CASE schedules' = schedules
  BY <1>1
<1>2. ASSUME NEW c \in Calls, Commit(c) PROVE \E t : Entered' \subseteq Entered \union {t}
  <2>1. schedules' = Saved(schedules, calls[c].own, calls[c].row)
    BY <1>2, CommitIs DEF SavedBy
  <2>2. \A s \in Schedules : s # calls[c].own => schedules'[s] = schedules[s]
    BY <1>0, <2>1 DEF Saved
  <2> QED
    BY <2>2
<1>3. ASSUME NEW s \in Schedules, DeleteSchedule(s)
      PROVE  \E t : Entered' \subseteq Entered \union {t}
  BY <1>3, DeleteScheduleIs
<1>4. CASE NextDay \/ UNCHANGED vars
  BY <1>1, <1>4 DEF NextDay, vars
<1>5. ASSUME NEW c \in Calls, Request(c), ~ Commit(c) PROVE schedules' = schedules
  BY <1>5 DEF Request, CreateSchedule, UpdateSchedule, GetLedger, UpdateTerms,
              ListForSchedule, RollBack, Begin
<1>6. ASSUME NEW o \in OneOffs, AddCharge(o) PROVE schedules' = schedules
  BY <1>6 DEF AddCharge
<1>7. ASSUME NEW x \in charges, SetWaiver(x, TRUE) \/ SetWaiver(x, FALSE) \/ DeleteCharge(x)
      PROVE  schedules' = schedules
  BY <1>7 DEF SetWaiver, DeleteCharge
<1> QED
  BY <1>1, <1>2, <1>3, <1>4, <1>5, <1>6, <1>7 DEF Next

LEMMA FewStay == TypeInv /\ FewEntered /\ [Next]_vars => FewEntered'
<1> SUFFICES ASSUME TypeInv, FewEntered, [Next]_vars PROVE FewEntered'
  OBVIOUS
<1>1. PICK t : Entered' \subseteq Entered \union {t}
  BY OneEntered
<1>2. IsFiniteSet(Entered \union {t})
  BY FS_AddElement DEF FewEntered
<1> QED
  BY <1>1, <1>2, FS_Subset DEF FewEntered

LEMMA FewCharges ==
    ASSUME IInv, FewEntered
    PROVE  IsFiniteSet(charges)
<1> DEFINE keys == ((Entered \union {None}) \X Days) \X (0 .. MaxEdits)
           Place(x) == <<<<x.schedule, x.start>>, x.number>>
           f == [x \in charges |-> Place(x)]
<1>1. charges \subseteq ChargeType /\ \A x, y \in charges : Key(x) = Key(y) => x = y
  BY DEF IInv, TypeInv, TypeOK
<1>2. IsFiniteSet(keys)
  <2>1. IsFiniteSet(Entered \union {None})
    BY FS_AddElement DEF FewEntered
  <2>2. IsFiniteSet(Days)
    BY FS_Interval, ConstantsAssumption DEF Days
  <2>3. IsFiniteSet(0 .. MaxEdits)
    BY FS_Interval, ConstantsAssumption
  <2> QED
    BY <2>1, <2>2, <2>3, FS_Product
<1>3. ASSUME NEW x \in charges PROVE Place(x) \in keys
  <2>1. /\ x.schedule \in Schedules \union {None} /\ x.start \in Days
        /\ x.number \in 0 .. MaxEdits
    BY <1>1 DEF ChargeType
  <2>2. x.schedule \in Schedules => x.schedule \in Entered
    BY DEF IInv, RowsKept, ChargesKept, Entered
  <2> QED
    BY <2>1, <2>2
<1>4. f \in Injection(charges, keys)
  BY <1>1, <1>3, KeysAre DEF Injection, IsInjective
<1> QED
  BY <1>2, <1>4, FS_Injection

(* Whatever the host has entered, changed, waived and deleted, and however *)
(* requests have crossed: the ledger of any day lists the charges it shows *)
(* once each, oldest first, and any payments settle them in this order, no *)
(* charge short while a later one has money, and all that is left over is  *)
(* credit.                                                                 *)
THEOREM SettledRight == Spec => []SettledOldestFirst
<1>1. Init => FewEntered
  <2> SUFFICES ASSUME Init PROVE FewEntered
    OBVIOUS
  <2>1. Entered = {}
    BY DEF Init, Entered, NoSchedule
  <2> QED
    BY <2>1, FS_EmptySet DEF FewEntered
<1>2. IInv /\ FewEntered /\ [Next]_vars => FewEntered'
  BY FewStay DEF IInv
<1>3. IInv /\ FewEntered => SettledOldestFirst
  <2> SUFFICES ASSUME IInv, FewEntered,
                      NEW asOf \in 0 .. today, NEW payments \in PaymentLists
               PROVE  LET shown == Shown(asOf, charges)
                          order == SettlementOrder(shown)
                          owed == [i \in DOMAIN order |->
                                     IF order[i].waived THEN 0 ELSE order[i].amount]
                          before(i) == SumTo(owed, i - 1)
                          paid == SumTo(payments, Len(payments))
                          result == Allocate(order, payments)
                      IN  /\ {order[i] : i \in DOMAIN order} = shown
                          /\ \A i, j \in DOMAIN order : i < j =>
                                order[i] # order[j] /\ order[i].start <= order[j].start
                          /\ \A i \in DOMAIN order : result.taken[i] =
                               IF paid <= before(i) THEN 0 ELSE Min({owed[i], paid - before(i)})
                          /\ result.unapplied = IF paid <= SumTo(owed, Len(order)) THEN 0
                                                ELSE paid - SumTo(owed, Len(order))
    BY Zenon DEF SettledOldestFirst
  <2> DEFINE shown == Shown(asOf, charges)
             order == SettlementOrder(shown)
             paid == SumTo(payments, Len(payments))
  <2>1. shown \subseteq ChargeType /\ IsFiniteSet(shown)
    <3>1. shown \subseteq charges
      BY DEF Shown
    <3> QED
      BY <3>1, FewCharges, FS_Subset DEF IInv, TypeInv, TypeOK
  <2> HIDE DEF shown
  <2>2. Lists(order, shown)
    BY <2>1, OrderIs
  <2>3. payments \in Seq(Nat \ {0})
    BY ConstantsAssumption
  <2> HIDE DEF order, paid
  <2>4. order \in Seq(ChargeType)
    BY <2>1, <2>2 DEF Lists
  <2>5. /\ Allocate(order, payments).taken = Filled(order, paid)
        /\ Allocate(order, payments).unapplied = Credit(order, paid)
    BY <2>3, <2>4, AllocateIs DEF paid
  <2>6. \A i \in DOMAIN order : Allocate(order, payments).taken[i] =
           IF paid <= SumTo(Owed(order), i - 1) THEN 0
           ELSE Min({Owed(order)[i], paid - SumTo(Owed(order), i - 1)})
    BY <2>5 DEF Filled, FillAt, Due
  <2>7. Allocate(order, payments).unapplied = IF paid <= SumTo(Owed(order), Len(order)) THEN 0
                                              ELSE paid - SumTo(Owed(order), Len(order))
    BY <2>5 DEF Credit, Due
  <2>8. /\ {order[i] : i \in DOMAIN order} = shown
        /\ \A i, j \in DOMAIN order : i < j =>
              order[i] # order[j] /\ order[i].start <= order[j].start
    BY <2>2 DEF Lists
  <2> QED
    BY <2>6, <2>7, <2>8, Zenon DEF shown, order, paid, Owed
<1> QED
  BY <1>1, <1>2, <1>3, Inductive, PTL DEF Spec
=============================================================================
