---------------------------- MODULE MemoryProofs ----------------------------
(***************************************************************************)
(* Proofs about MemoryAdmission, for every finite set of conversations and *)
(* every capacity, cache budget, cache cap, size and number of failures.   *)
(***************************************************************************)
EXTENDS MemoryAdmission, Integers, FiniteSetTheorems, TLAPS

-----------------------------------------------------------------------------
(* What SumFunctionOnSet promises on a finite set: it may be taken apart at *)
(* any element, does not look outside the set, and is monotone and additive. *)

(* The function of subsets that the sum's definition chooses. *)
any(s) == CHOOSE x \in s : TRUE
SumBody(f, g, s) == IF s = {} THEN 0 ELSE f[any(s)] + g[s \ {any(s)}]
SumsTo(f, S, g) == g = [s \in SUBSET S |-> SumBody(f, g, s)]
Sums(f, S) == CHOOSE g : SumsTo(f, S, g)

LEMMA SumUnfolds ==
  ASSUME NEW f, NEW S
  PROVE  SumFunctionOnSet(f, S) = Sums(f, S)[S]
BY DEF Sums, SumFunctionOnSet, FoldFunctionOnSet, MapThenFoldSet, SumsTo, SumBody, any

(* Induction over the subsets of a finite set: of those that fail, one is   *)
(* such that everything smaller does not.                                   *)
LEMMA SmallestSubset ==
  ASSUME NEW S, IsFiniteSet(S), NEW Bad \in SUBSET SUBSET S, Bad # {}
  PROVE  \E s \in Bad : \A t \in SUBSET s : t # s => t \notin Bad
<1>1. IsWellFoundedOn(StrictSubsetOrdering(S), FiniteSubsetsOf(S))
  BY FS_StrictSubsetOrderingWellFounded
<1>2. Bad \subseteq FiniteSubsetsOf(S)
  BY FS_FiniteSubsetsOfFinite
<1>3. \E x \in Bad : \A y \in Bad : ~ (<<y, x>> \in StrictSubsetOrdering(S))
  BY <1>1, <1>2, WFMin
<1> QED
  BY <1>2, <1>3 DEF StrictSubsetOrdering, FiniteSubsetsOf

LEMMA AnyIsMember ==
  ASSUME NEW s, s # {}
  PROVE  any(s) \in s
BY DEF any

(* At most one function satisfies the recursion, and it only looks at f     *)
(* inside the set.                                                          *)
LEMMA SumsAgree ==
  ASSUME NEW S, IsFiniteSet(S), NEW T, S \subseteq T,
         NEW f, NEW e, \A x \in S : f[x] = e[x],
         NEW g, SumsTo(f, S, g), NEW h, SumsTo(e, T, h), NEW s \in SUBSET S
  PROVE  g[s] = h[s]
<1> DEFINE Bad == {t \in SUBSET S : g[t] # h[t]}
<1>1. ASSUME Bad # {} PROVE FALSE
  <2>1. PICK t \in Bad : \A u \in SUBSET t : u # t => u \notin Bad
    <3>1. Bad \in SUBSET SUBSET S
      OBVIOUS
    <3> HIDE DEF Bad
    <3> QED
      BY <1>1, <3>1, SmallestSubset
  <2>2. t \in SUBSET S /\ t \in SUBSET T /\ g[t] # h[t]
    BY <2>1
  <2>3. g[t] = SumBody(f, g, t) /\ h[t] = SumBody(e, h, t)
    BY <2>2 DEF SumsTo
  <2>4. CASE t = {}
    BY <2>2, <2>3, <2>4 DEF SumBody
  <2>5. CASE t # {}
    <3>1. any(t) \in t
      BY <2>5, AnyIsMember
    <3>2. g[t \ {any(t)}] = h[t \ {any(t)}] /\ f[any(t)] = e[any(t)]
      BY <2>1, <2>2, <3>1
    <3> QED
      BY <2>2, <2>3, <2>5, <3>2 DEF SumBody
  <2> QED
    BY <2>4, <2>5
<1> QED
  BY <1>1

(* And there is one. *)
LEMMA SumsExist ==
  ASSUME NEW S, IsFiniteSet(S), NEW f
  PROVE  \E g : SumsTo(f, S, g)
<1> DEFINE Bad == {t \in SUBSET S : ~ SumsTo(f, t, Sums(f, t))}
<1>1. ASSUME Bad # {} PROVE FALSE
  <2>1. PICK s \in Bad : \A t \in SUBSET s : t # s => t \notin Bad
    <3>1. Bad \in SUBSET SUBSET S
      OBVIOUS
    <3> HIDE DEF Bad
    <3> QED
      BY <1>1, <3>1, SmallestSubset
  <2>2. s \in SUBSET S /\ ~ SumsTo(f, s, Sums(f, s))
    BY <2>1
  <2>3. \A t \in SUBSET s : t # s => SumsTo(f, t, Sums(f, t))
    BY <2>1, <2>2
  <2> DEFINE h == [t \in SUBSET s |->
                 IF t = {} THEN 0 ELSE f[any(t)] + Sums(f, t \ {any(t)})[t \ {any(t)}]]
  <2> HIDE DEF Bad
  <2>4. ASSUME NEW t \in SUBSET s, t # s
        PROVE  h[t] = Sums(f, t)[t]
    <3>1. SumsTo(f, t, Sums(f, t)) /\ t \in SUBSET t
      BY <2>3, <2>4
    <3>2. Sums(f, t)[t] = SumBody(f, Sums(f, t), t)
      BY <3>1 DEF SumsTo
    <3>3. CASE t = {}
      BY <3>2, <3>3 DEF SumBody
    <3>4. CASE t # {}
      <4> DEFINE u == t \ {any(t)}
      <4>1. u \in SUBSET t /\ u # t /\ u \in SUBSET s /\ u # s
        BY <3>4, AnyIsMember
      <4>2. IsFiniteSet(u)
        BY <2>2, <4>1, FS_Subset
      <4>3. SumsTo(f, u, Sums(f, u))
        BY <2>3, <4>1
      <4>4. Sums(f, u)[u] = Sums(f, t)[u]
        BY <3>1, <4>1, <4>2, <4>3, SumsAgree
      <4> QED
        BY <3>2, <3>4, <4>4 DEF SumBody
    <3> QED
      BY <3>3, <3>4
  <2>5. ASSUME NEW t \in SUBSET s
        PROVE  h[t] = SumBody(f, h, t)
    <3>1. CASE t = {}
      BY <3>1 DEF SumBody
    <3>2. CASE t # {}
      <4>1. t \ {any(t)} \in SUBSET s /\ t \ {any(t)} # s
        BY <3>2, AnyIsMember
      <4>2. h[t \ {any(t)}] = Sums(f, t \ {any(t)})[t \ {any(t)}]
        BY <2>4, <4>1
      <4>3. h[t] = f[any(t)] + Sums(f, t \ {any(t)})[t \ {any(t)}]
        BY <3>2
      <4> HIDE DEF h
      <4> QED
        BY <3>2, <4>2, <4>3 DEF SumBody
    <3> QED
      BY <3>1, <3>2
  <2>6. h = [t \in SUBSET s |-> h[t]]
    OBVIOUS
  <2> HIDE DEF h
  <2>7. SumsTo(f, s, h)
    BY <2>5, <2>6 DEF SumsTo
  <2>8. SumsTo(f, s, Sums(f, s))
    BY <2>7 DEF Sums
  <2> QED
    BY <2>2, <2>8
<1>2. S \notin Bad
  BY <1>1
<1> QED
  BY <1>2

-----------------------------------------------------------------------------
(* What the sum is. *)

LEMMA SumsToSum ==
  ASSUME NEW S, IsFiniteSet(S), NEW f
  PROVE  \E g : SumsTo(f, S, g) /\ \A s \in SUBSET S : g[s] = SumFunctionOnSet(f, s)
<1>1. SumsTo(f, S, Sums(f, S))
  BY SumsExist DEF Sums
<1>2. ASSUME NEW s \in SUBSET S
      PROVE  Sums(f, S)[s] = SumFunctionOnSet(f, s)
  <2>1. IsFiniteSet(s)
    BY FS_Subset
  <2>2. SumsTo(f, s, Sums(f, s))
    BY <2>1, SumsExist DEF Sums
  <2>3. SumFunctionOnSet(f, s) = Sums(f, s)[s]
    BY SumUnfolds
  <2>4. Sums(f, s)[s] = Sums(f, S)[s]
    BY <1>1, <2>1, <2>2, SumsAgree
  <2> QED
    BY <2>3, <2>4
<1> QED
  BY <1>1, <1>2

LEMMA SumEmpty ==
  ASSUME NEW f
  PROVE  SumFunctionOnSet(f, {}) = 0
<1>1. IsFiniteSet({})
  BY FS_EmptySet
<1>2. PICK g : SumsTo(f, {}, g) /\ \A s \in SUBSET {} : g[s] = SumFunctionOnSet(f, s)
  BY <1>1, SumsToSum
<1>3. {} \in SUBSET {}
  OBVIOUS
<1>4. g[{}] = SumBody(f, g, {})
  BY <1>2, <1>3 DEF SumsTo
<1> QED
  BY <1>2, <1>3, <1>4 DEF SumBody

LEMMA SumAny ==
  ASSUME NEW S, IsFiniteSet(S), S # {}, NEW f
  PROVE  SumFunctionOnSet(f, S) = f[any(S)] + SumFunctionOnSet(f, S \ {any(S)})
<1>1. PICK g : SumsTo(f, S, g) /\ \A s \in SUBSET S : g[s] = SumFunctionOnSet(f, s)
  BY SumsToSum
<1>2. S \in SUBSET S /\ S \ {any(S)} \in SUBSET S
  OBVIOUS
<1>3. g[S] = SumBody(f, g, S)
  BY <1>1, <1>2 DEF SumsTo
<1> QED
  BY <1>1, <1>2, <1>3 DEF SumBody

(* The sum looks at f inside the set only. *)
LEMMA SumCongruent ==
  ASSUME NEW S, IsFiniteSet(S), NEW f, NEW e, \A x \in S : f[x] = e[x]
  PROVE  SumFunctionOnSet(f, S) = SumFunctionOnSet(e, S)
<1>1. PICK g : SumsTo(f, S, g) /\ \A s \in SUBSET S : g[s] = SumFunctionOnSet(f, s)
  BY SumsToSum
<1>2. PICK h : SumsTo(e, S, h) /\ \A s \in SUBSET S : h[s] = SumFunctionOnSet(e, s)
  BY SumsToSum
<1>3. S \in SUBSET S
  OBVIOUS
<1>4. SumsTo(f, S, g) /\ SumsTo(e, S, h) /\ S \subseteq S
  BY <1>1, <1>2
<1>5. g[S] = h[S]
  BY <1>3, <1>4, SumsAgree
<1> QED
  BY <1>1, <1>2, <1>3, <1>5

(* The sum of natural numbers is one. *)
LEMMA SumNat ==
  ASSUME NEW S, IsFiniteSet(S), NEW f, \A x \in S : f[x] \in Nat
  PROVE  SumFunctionOnSet(f, S) \in Nat
<1> DEFINE Bad == {t \in SUBSET S : SumFunctionOnSet(f, t) \notin Nat}
<1>1. ASSUME Bad # {} PROVE FALSE
  <2>1. PICK t \in Bad : \A u \in SUBSET t : u # t => u \notin Bad
    <3>1. Bad \in SUBSET SUBSET S
      OBVIOUS
    <3> HIDE DEF Bad
    <3> QED
      BY <1>1, <3>1, SmallestSubset
  <2>2. t \in SUBSET S /\ IsFiniteSet(t) /\ SumFunctionOnSet(f, t) \notin Nat
    BY <2>1, FS_Subset
  <2>3. t # {}
    BY <2>2, SumEmpty
  <2>4. any(t) \in t
    BY <2>3, AnyIsMember
  <2>5. SumFunctionOnSet(f, t \ {any(t)}) \in Nat
    BY <2>1, <2>2, <2>4
  <2>6. f[any(t)] \in Nat
    BY <2>2, <2>4
  <2>7. SumFunctionOnSet(f, t) = f[any(t)] + SumFunctionOnSet(f, t \ {any(t)})
    BY <2>2, <2>3, SumAny
  <2> HIDE DEF Bad
  <2> QED
    BY <2>2, <2>5, <2>6, <2>7
<1> QED
  BY <1>1

LEMMA SumZero ==
  ASSUME NEW S, IsFiniteSet(S)
  PROVE  SumFunctionOnSet([x \in S |-> 0], S) = 0
<1> DEFINE f == [x \in S |-> 0]
           Bad == {t \in SUBSET S : SumFunctionOnSet(f, t) # 0}
<1>1. ASSUME Bad # {} PROVE FALSE
  <2>1. PICK t \in Bad : \A u \in SUBSET t : u # t => u \notin Bad
    <3>1. Bad \in SUBSET SUBSET S
      OBVIOUS
    <3> HIDE DEF Bad
    <3> QED
      BY <1>1, <3>1, SmallestSubset
  <2>2. t \in SUBSET S /\ IsFiniteSet(t) /\ SumFunctionOnSet(f, t) # 0
    BY <2>1, FS_Subset
  <2>3. t # {}
    BY <2>2, SumEmpty
  <2>4. any(t) \in t
    BY <2>3, AnyIsMember
  <2>5. SumFunctionOnSet(f, t \ {any(t)}) = 0 /\ f[any(t)] = 0
    BY <2>1, <2>2, <2>4
  <2>6. SumFunctionOnSet(f, t) = f[any(t)] + SumFunctionOnSet(f, t \ {any(t)})
    BY <2>2, <2>3, SumAny
  <2> QED
    BY <2>2, <2>5, <2>6
<1>2. S \notin Bad
  BY <1>1
<1> QED
  BY <1>2

(* The sum may be taken apart at any element. *)
LEMMA SumSplit ==
  ASSUME NEW S, IsFiniteSet(S), NEW f, \A x \in S : f[x] \in Nat, NEW x \in S
  PROVE  SumFunctionOnSet(f, S) = f[x] + SumFunctionOnSet(f, S \ {x})
<1> DEFINE Bad == {t \in SUBSET S : \E y \in t :
              SumFunctionOnSet(f, t) # f[y] + SumFunctionOnSet(f, t \ {y})}
<1>1. ASSUME Bad # {} PROVE FALSE
  <2>1. PICK t \in Bad : \A u \in SUBSET t : u # t => u \notin Bad
    <3>1. Bad \in SUBSET SUBSET S
      OBVIOUS
    <3> HIDE DEF Bad
    <3> QED
      BY <1>1, <3>1, SmallestSubset
  <2>2. t \in SUBSET S /\ IsFiniteSet(t)
    BY <2>1, FS_Subset
  <2>3. PICK y \in t : SumFunctionOnSet(f, t) # f[y] + SumFunctionOnSet(f, t \ {y})
    BY <2>1
  <2> DEFINE z == any(t)
  <2>4. z \in t
    BY <2>3, AnyIsMember
  <2>5. SumFunctionOnSet(f, t) = f[z] + SumFunctionOnSet(f, t \ {z})
    BY <2>2, <2>3, SumAny
  <2> HIDE DEF z
  <2>6. z # y
    BY <2>3, <2>5
  <2>7. t \ {z} \notin Bad /\ t \ {y} \notin Bad
    BY <2>1, <2>3, <2>4
  <2>8. SumFunctionOnSet(f, t \ {z}) = f[y] + SumFunctionOnSet(f, (t \ {z}) \ {y})
    BY <2>2, <2>3, <2>6, <2>7
  <2>9. SumFunctionOnSet(f, t \ {y}) = f[z] + SumFunctionOnSet(f, (t \ {y}) \ {z})
    BY <2>2, <2>4, <2>6, <2>7
  <2>10. (t \ {z}) \ {y} = (t \ {y}) \ {z}
    OBVIOUS
  <2>11. f[y] \in Nat /\ f[z] \in Nat
    BY <2>2, <2>3, <2>4
  <2>12. SumFunctionOnSet(f, (t \ {y}) \ {z}) \in Nat
    <3>1. IsFiniteSet((t \ {y}) \ {z}) /\ \A w \in (t \ {y}) \ {z} : f[w] \in Nat
      BY <2>2, FS_Subset
    <3> QED
      BY <3>1, SumNat
  <2> QED
    BY <2>3, <2>5, <2>8, <2>9, <2>10, <2>11, <2>12
<1> QED
  BY <1>1

(* One value changes. *)
LEMMA SumUpdate ==
  ASSUME NEW S, IsFiniteSet(S), NEW x \in S,
         NEW f, \A y \in S : f[y] \in Nat, NEW e, e[x] \in Nat,
         \A y \in S \ {x} : e[y] = f[y]
  PROVE  SumFunctionOnSet(e, S) + f[x] = SumFunctionOnSet(f, S) + e[x]
<1>1. IsFiniteSet(S \ {x}) /\ \A y \in S \ {x} : f[y] \in Nat
  BY FS_Subset
<1>2. SumFunctionOnSet(e, S \ {x}) = SumFunctionOnSet(f, S \ {x})
  BY <1>1, SumCongruent
<1>3. SumFunctionOnSet(f, S \ {x}) \in Nat
  BY <1>1, SumNat
<1>4. \A y \in S : e[y] \in Nat
  OBVIOUS
<1>5. SumFunctionOnSet(e, S) = e[x] + SumFunctionOnSet(e, S \ {x})
  BY <1>4, SumSplit
<1>6. SumFunctionOnSet(f, S) = f[x] + SumFunctionOnSet(f, S \ {x})
  BY SumSplit
<1>7. f[x] \in Nat
  OBVIOUS
<1> QED
  BY <1>2, <1>3, <1>5, <1>6, <1>7

(* Sums follow their summands. *)
LEMMA SumMonotone ==
  ASSUME NEW S, IsFiniteSet(S), NEW f, NEW e,
         \A x \in S : f[x] \in Nat /\ e[x] \in Nat /\ f[x] <= e[x]
  PROVE  SumFunctionOnSet(f, S) <= SumFunctionOnSet(e, S)
<1> DEFINE Bad == {t \in SUBSET S : ~ (SumFunctionOnSet(f, t) <= SumFunctionOnSet(e, t))}
<1>1. ASSUME Bad # {} PROVE FALSE
  <2>1. PICK t \in Bad : \A u \in SUBSET t : u # t => u \notin Bad
    <3>1. Bad \in SUBSET SUBSET S
      OBVIOUS
    <3> HIDE DEF Bad
    <3> QED
      BY <1>1, <3>1, SmallestSubset
  <2>2. t \in SUBSET S /\ IsFiniteSet(t)
        /\ ~ (SumFunctionOnSet(f, t) <= SumFunctionOnSet(e, t))
    BY <2>1, FS_Subset
  <2>3. t # {}
    BY <2>2, SumEmpty
  <2>4. any(t) \in t
    BY <2>3, AnyIsMember
  <2> DEFINE u == t \ {any(t)}
  <2>5. SumFunctionOnSet(f, u) <= SumFunctionOnSet(e, u)
    BY <2>1, <2>2, <2>4
  <2>6. IsFiniteSet(u) /\ (\A x \in u : f[x] \in Nat) /\ (\A x \in u : e[x] \in Nat)
    BY <2>2, FS_Subset
  <2>7. SumFunctionOnSet(f, u) \in Nat /\ SumFunctionOnSet(e, u) \in Nat
    BY <2>6, SumNat
  <2>8. /\ SumFunctionOnSet(f, t) = f[any(t)] + SumFunctionOnSet(f, u)
        /\ SumFunctionOnSet(e, t) = e[any(t)] + SumFunctionOnSet(e, u)
    BY <2>2, <2>3, SumAny
  <2>9. f[any(t)] \in Nat /\ e[any(t)] \in Nat /\ f[any(t)] <= e[any(t)]
    BY <2>2, <2>4
  <2> HIDE DEF Bad, u
  <2> QED
    BY <2>2, <2>5, <2>7, <2>8, <2>9
<1> QED
  BY <1>1

(* A sum over a part of the set is one over all of it with the rest at 0, *)
(* and can be added element by element.                                   *)
LEMMA SumWithin ==
  ASSUME NEW S, IsFiniteSet(S), NEW G, G \subseteq S,
         NEW f, NEW g, NEW h,
         \A x \in S : f[x] \in Nat /\ g[x] \in Nat
                      /\ h[x] = f[x] + (IF x \in G THEN g[x] ELSE 0)
  PROVE  SumFunctionOnSet(h, S) = SumFunctionOnSet(f, S) + SumFunctionOnSet(g, G)
<1> DEFINE Bad == {t \in SUBSET S :
      SumFunctionOnSet(h, t) # SumFunctionOnSet(f, t) + SumFunctionOnSet(g, t \cap G)}
<1>1. ASSUME Bad # {} PROVE FALSE
  <2>1. PICK t \in Bad : \A u \in SUBSET t : u # t => u \notin Bad
    <3>1. Bad \in SUBSET SUBSET S
      OBVIOUS
    <3> HIDE DEF Bad
    <3> QED
      BY <1>1, <3>1, SmallestSubset
  <2>2. t \in SUBSET S /\ IsFiniteSet(t)
        /\ SumFunctionOnSet(h, t) # SumFunctionOnSet(f, t) + SumFunctionOnSet(g, t \cap G)
    BY <2>1, FS_Subset
  <2>3. t # {}
    <3>1. {} \cap G = {}
      OBVIOUS
    <3>2. SumFunctionOnSet(h, {}) = SumFunctionOnSet(f, {}) + SumFunctionOnSet(g, {} \cap G)
      <4>1. /\ SumFunctionOnSet(h, {}) = 0 /\ SumFunctionOnSet(f, {}) = 0
            /\ SumFunctionOnSet(g, {}) = 0
        BY SumEmpty
      <4> QED
        BY <3>1, <4>1
    <3> HIDE DEF Bad
    <3> QED
      BY <2>2, <3>2
  <2> DEFINE x == any(t)
             u == t \ {any(t)}
  <2>4. x \in t /\ u \in SUBSET t /\ u # t
    BY <2>3, AnyIsMember
  <2>5. SumFunctionOnSet(h, u) = SumFunctionOnSet(f, u) + SumFunctionOnSet(g, u \cap G)
    BY <2>1, <2>2, <2>4
  <2>6. /\ IsFiniteSet(u) /\ \A y \in u : f[y] \in Nat
        /\ IsFiniteSet(u \cap G) /\ \A y \in u \cap G : g[y] \in Nat
        /\ IsFiniteSet(t \cap G) /\ \A y \in t \cap G : g[y] \in Nat
    BY <2>2, FS_Subset
  <2>7. SumFunctionOnSet(f, u) \in Nat /\ SumFunctionOnSet(g, u \cap G) \in Nat
    BY <2>6, SumNat
  <2>8. /\ SumFunctionOnSet(h, t) = h[x] + SumFunctionOnSet(h, u)
        /\ SumFunctionOnSet(f, t) = f[x] + SumFunctionOnSet(f, u)
    BY <2>2, <2>3, SumAny
  <2>9. f[x] \in Nat /\ g[x] \in Nat /\ h[x] = f[x] + (IF x \in G THEN g[x] ELSE 0)
    BY <2>2, <2>4
  <2>10. CASE x \in G
    <3>1. x \in t \cap G /\ (t \cap G) \ {x} = u \cap G
      BY <2>4, <2>10
    <3>2. SumFunctionOnSet(g, t \cap G) = g[x] + SumFunctionOnSet(g, (t \cap G) \ {x})
      BY <2>6, <3>1, SumSplit
    <3>3. SumFunctionOnSet(g, t \cap G) = g[x] + SumFunctionOnSet(g, u \cap G)
      BY <3>1, <3>2
    <3>4. h[x] = f[x] + g[x]
      BY <2>9, <2>10
    <3> HIDE DEF x, u, Bad
    <3> QED
      BY <2>2, <2>5, <2>7, <2>8, <2>9, <3>3, <3>4
  <2>11. CASE x \notin G
    <3>1. t \cap G = u \cap G
      BY <2>4, <2>11
    <3>2. h[x] = f[x]
      BY <2>9, <2>11
    <3> HIDE DEF x, u, Bad
    <3> QED
      BY <2>2, <2>5, <2>7, <2>8, <2>9, <3>1, <3>2
  <2> QED
    BY <2>10, <2>11
<1>2. S \notin Bad /\ S \cap G = G
  BY <1>1
<1> QED
  BY <1>2

-----------------------------------------------------------------------------
(* Types and the parts of the invariant.                                   *)

Places ==
  {"idle", "looked", "try", "evict", "again", "compute", "cached", "unheld", "handling"}
WorkerRow ==
  [at : Places, live : BOOLEAN, object : Nat, need : Nat, exclusive : BOOLEAN,
   short : Int, protect : SUBSET Zids]

AccountsTypeOK ==
  /\ cached \in [Zids -> Nat] /\ retained \in [Zids -> Nat]
  /\ detached \in SUBSET Zids /\ held \in SUBSET Zids /\ granted \in SUBSET Zids
  /\ job \in [Zids -> WorkerRow]

\* What is charged is cached, or was dropped from the cache under a worker that
\* holds it.
ChargeMatches(z) ==
  IF z \in detached THEN cached[z] = 0 /\ z \in held ELSE retained[z] = cached[z]

\* A worker holds what it refers to, from the lookup until it lets it go, and
\* that is charged all along.
HoldMatches(z) ==
  /\ z \in held <=> job[z].object > 0 /\ job[z].at \notin {"idle", "unheld", "handling"}
  /\ z \in held => job[z].live /\ job[z].object <= retained[z]
  /\ job[z].at \in {"idle", "unheld"} => job[z].object = 0

\* Who has a grant, and what a granted worker has cached was estimated.
GrantMatches(z) ==
  /\ z \in granted <=> job[z].at \in {"compute", "cached", "unheld"}
  /\ job[z].at \in {"cached", "unheld"} => retained[z] <= job[z].need

Matches(z) == ChargeMatches(z) /\ HoldMatches(z) /\ GrantMatches(z)

\* What is set aside for a conversation.  It covers what the conversation
\* really needs and is covered by what it is charged; once the new object is
\* cached, that object is charged twice and set aside once.
Kept(z) == IF job[z].at = "cached" THEN job[z].object
           ELSE IF job[z].at = "unheld" THEN 0 ELSE retained[z]
Added(z) == IF z \in granted THEN job[z].need ELSE 0
Bound == [z \in Zids |-> Kept(z) + Added(z)]

BoundFits == Total(Bound, Zids) <= Capacity

Books == AccountsTypeOK /\ (\A z \in Zids : Matches(z)) /\ BoundFits

-----------------------------------------------------------------------------
(* The sums.                                                               *)

LEMMA BoundType ==
  ASSUME AccountsTypeOK, NEW z \in Zids
  PROVE  /\ Kept(z) \in Nat /\ Added(z) \in Nat
         /\ Bound[z] \in Nat /\ Bound[z] = Kept(z) + Added(z)
<1>1. /\ retained[z] \in Nat /\ job[z].need \in Nat /\ job[z].object \in Nat
  BY DEF AccountsTypeOK, WorkerRow
<1>2. Kept(z) \in Nat /\ Added(z) \in Nat
  BY <1>1 DEF Kept, Added
<1> QED
  BY <1>2 DEF Bound

(* A step after which nothing is set aside that was not before.            *)
LEMMA BoundFalls ==
  ASSUME AccountsTypeOK, AccountsTypeOK', BoundFits,
         \A z \in Zids : Bound'[z] <= Bound[z]
  PROVE  BoundFits'
<1>1. ASSUME NEW z \in Zids PROVE Bound[z] \in Nat /\ Bound'[z] \in Nat
  <2>1. Bound[z] \in Nat
    BY BoundType
  <2>2. /\ retained'[z] \in Nat /\ job'[z].need \in Nat /\ job'[z].object \in Nat
    BY DEF AccountsTypeOK, WorkerRow
  <2>3. Kept(z)' \in Nat /\ Added(z)' \in Nat
    BY <2>2 DEF Kept, Added
  <2> QED
    BY <2>1, <2>3 DEF Bound
<1> DEFINE old == Bound
           new == Bound'
<1>2. \A z \in Zids : new[z] \in Nat /\ old[z] \in Nat /\ new[z] <= old[z]
  BY <1>1
<1> HIDE DEF old, new
<1>3. IsFiniteSet(Zids) /\ Capacity \in Nat
  BY AdmissionAssumption
<1>4. SumFunctionOnSet(new, Zids) <= SumFunctionOnSet(old, Zids)
  BY <1>2, <1>3, SumMonotone
<1>5. SumFunctionOnSet(new, Zids) \in Nat /\ SumFunctionOnSet(old, Zids) \in Nat
  BY <1>2, <1>3, SumNat
<1>6. SumFunctionOnSet(old, Zids) <= Capacity
  BY DEF BoundFits, Total, old
<1>7. SumFunctionOnSet(new, Zids) <= Capacity
  BY <1>3, <1>4, <1>5, <1>6
<1> QED
  BY <1>7 DEF BoundFits, Total, new

(* What is set aside is charged: Used is what reserve compares with the     *)
(* capacity.                                                               *)
Charge == [z \in Zids |-> retained[z] + Added(z)]

LEMMA UsedIsCharge ==
  ASSUME AccountsTypeOK
  PROVE  /\ Charge \in [Zids -> Nat]
         /\ Used = SumFunctionOnSet(Charge, Zids) /\ Used \in Nat
<1>1. IsFiniteSet(Zids) /\ granted \subseteq Zids
  BY AdmissionAssumption DEF AccountsTypeOK
<1>2. ASSUME NEW z \in Zids
      PROVE  /\ retained[z] \in Nat /\ Needs[z] \in Nat
             /\ Charge[z] = retained[z] + (IF z \in granted THEN Needs[z] ELSE 0)
  BY DEF AccountsTypeOK, WorkerRow, Needs, Charge, Added
<1>3. Charge \in [Zids -> Nat]
  BY <1>2 DEF Charge
<1>4. SumFunctionOnSet(Charge, Zids)
        = SumFunctionOnSet(retained, Zids) + SumFunctionOnSet(Needs, granted)
  BY <1>1, <1>2, SumWithin
<1>5. SumFunctionOnSet(Charge, Zids) \in Nat
  BY <1>1, <1>3, SumNat
<1> QED
  BY <1>3, <1>4, <1>5 DEF Used, retained_total, Total

-----------------------------------------------------------------------------
(* What a step does to a conversation whose worker does not hold, reserve,  *)
(* cache or release by it: nothing, or its entry is dropped.               *)

InLine == {"looked", "try", "evict", "again"}

SameWork(z) ==
  /\ job'[z].object = job[z].object /\ job'[z].live = job[z].live
  /\ \/ job'[z].at = job[z].at /\ job'[z].need = job[z].need
     \/ job[z].at \in InLine /\ job'[z].at \in InLine
  /\ z \in held' <=> z \in held
  /\ z \in granted' <=> z \in granted

Untouched(z) ==
  /\ cached'[z] = cached[z] /\ retained'[z] = retained[z]
  /\ z \in detached' <=> z \in detached

Dropped(z) ==
  /\ cached'[z] = 0
  /\ IF z \in held
     THEN /\ retained'[z] = retained[z]
          /\ z \in detached' <=> z \in detached \/ retained[z] > 0
     ELSE retained'[z] = 0 /\ z \notin detached'

Beside(z) == SameWork(z) /\ (Untouched(z) \/ Dropped(z))

LEMMA BesideKeeps ==
  ASSUME AccountsTypeOK, AccountsTypeOK', NEW z \in Zids, Matches(z), Beside(z)
  PROVE  Matches(z)' /\ Bound'[z] <= Bound[z]
<1>1. /\ retained[z] \in Nat /\ cached[z] \in Nat /\ job[z].need \in Nat /\ job[z].object \in Nat
      /\ retained'[z] \in Nat /\ cached'[z] \in Nat
      /\ job'[z].need \in Nat /\ job'[z].object \in Nat
  BY DEF AccountsTypeOK, WorkerRow
<1>2. retained'[z] <= retained[z] /\ (z \in held => retained'[z] = retained[z])
  BY <1>1 DEF Beside, Untouched, Dropped
<1>3. ChargeMatches(z)'
  BY <1>1 DEF Matches, ChargeMatches, Beside, SameWork, Untouched, Dropped
<1>4. HoldMatches(z)'
  BY <1>1, <1>2 DEF Matches, HoldMatches, Beside, SameWork, InLine
<1>5. GrantMatches(z)'
  BY <1>1, <1>2 DEF Matches, GrantMatches, Beside, SameWork, InLine
<1>6. Kept(z)' <= Kept(z) /\ Added(z)' <= Added(z)
  BY <1>1, <1>2 DEF Matches, GrantMatches, Kept, Added, Beside, SameWork, InLine
<1>7. Kept(z)' \in Nat /\ Added(z)' \in Nat /\ Kept(z) \in Nat /\ Added(z) \in Nat
  BY <1>1 DEF Kept, Added
<1>8. Bound[z] = Kept(z) + Added(z) /\ Bound'[z] = Kept(z)' + Added(z)'
  BY DEF Bound
<1> QED
  BY <1>3, <1>4, <1>5, <1>6, <1>7, <1>8 DEF Matches

(* Steps of one worker. *)
LEMMA OwnStepKeeps ==
  ASSUME Books, AccountsTypeOK', NEW z \in Zids,
         Matches(z)', Kept(z)' + Added(z)' <= Kept(z) + Added(z),
         \A y \in Zids \ {z} : Beside(y)
  PROVE  Books'
<1>1. ASSUME NEW y \in Zids
      PROVE  Matches(y)' /\ Bound'[y] <= Bound[y]
  <2>1. CASE y = z
    <3>1. Bound[z] = Kept(z) + Added(z) /\ Bound'[z] = Kept(z)' + Added(z)'
      BY DEF Bound
    <3> QED
      BY <2>1, <3>1
  <2>2. CASE y # z
    BY <2>2, BesideKeeps DEF Books
  <2> QED
    BY <2>1, <2>2
<1>2. BoundFits'
  BY <1>1, BoundFalls DEF Books
<1> QED
  BY <1>1, <1>2 DEF Books

LEMMA AllBesideKeeps ==
  ASSUME Books, AccountsTypeOK', \A z \in Zids : Beside(z)
  PROVE  Books'
<1>1. ASSUME NEW z \in Zids
      PROVE  Matches(z)' /\ Bound'[z] <= Bound[z]
  BY BesideKeeps DEF Books
<1>2. BoundFits'
  BY <1>1, BoundFalls DEF Books
<1> QED
  BY <1>1, <1>2 DEF Books

-----------------------------------------------------------------------------
(* Every action.                                                           *)

LEMMA IdleType == Idle \in WorkerRow
BY DEF Idle, WorkerRow, Places

LEMMA RowType ==
  ASSUME Books, NEW z \in Zids
  PROVE  job[z] \in WorkerRow
BY DEF Books, AccountsTypeOK

LEMMA LookupKeeps ==
  ASSUME Books, NEW z \in Zids, Lookup(z)
  PROVE  Books'
<1>1. PICK row \in WorkerRow :
        /\ job' = [job EXCEPT ![z] = row] /\ row.at = "looked" /\ row.live
        /\ IF row.object > 0 THEN row.object = cached[z] /\ held' = held \cup {z}
                            ELSE row.object = 0 /\ held' = held
  <2> DEFINE cold == [Idle EXCEPT !.at = "looked"]
             warm == [Idle EXCEPT !.at = "looked", !.object = cached[z]]
  <2>1. "looked" \in Places /\ cached[z] \in Nat
    BY DEF Places, Books, AccountsTypeOK
  <2>2. cold \in WorkerRow /\ cold.at = "looked" /\ cold.live /\ cold.object = 0
    <3>1. Idle.object = 0 /\ Idle.live
      BY DEF Idle
    <3> QED
      BY <2>1, <3>1, IdleType DEF WorkerRow
  <2>3. warm \in WorkerRow /\ warm.at = "looked" /\ warm.live /\ warm.object = cached[z]
    <3>1. Idle.live
      BY DEF Idle
    <3> QED
      BY <2>1, <3>1, IdleType DEF WorkerRow
  <2>6. \/ cached[z] > 0 /\ held' = held \cup {z} /\ job' = [job EXCEPT ![z] = warm]
        \/ held' = held /\ job' = [job EXCEPT ![z] = cold]
    BY Zenon DEF Lookup
  <2> HIDE DEF cold, warm
  <2>4. CASE cached[z] > 0 /\ held' = held \cup {z} /\ job' = [job EXCEPT ![z] = warm]
    BY <2>3, <2>4
  <2>5. CASE held' = held /\ job' = [job EXCEPT ![z] = cold]
    <3>1. ~ (cold.object > 0)
      BY <2>2
    <3> QED
      BY <2>2, <2>5, <3>1
  <2> QED
    BY <2>4, <2>5, <2>6
<1> DEFINE o == row.object
<1>2. UNCHANGED <<cached, retained, detached, granted>> /\ job[z].at = "idle"
  BY DEF Lookup
<1>3. o \in Nat
  BY <1>1 DEF WorkerRow
<1>4. AccountsTypeOK'
  BY <1>1, <1>2, <1>3 DEF Books, AccountsTypeOK
<1>5. job'[z].at = "looked" /\ job'[z].object = o /\ job'[z].live
  BY <1>1 DEF Books, AccountsTypeOK
<1>6. z \notin held /\ z \notin detached /\ z \notin granted /\ retained[z] = cached[z]
  BY <1>2 DEF Books, Matches, ChargeMatches, HoldMatches, GrantMatches
<1>7. retained[z] \in Nat
  BY DEF Books, AccountsTypeOK
<1>8. Matches(z)'
  BY <1>1, <1>2, <1>5, <1>6, <1>7 DEF Matches, ChargeMatches, HoldMatches, GrantMatches
<1>9. Kept(z)' + Added(z)' <= Kept(z) + Added(z)
  BY <1>2, <1>5, <1>6, <1>7 DEF Kept, Added
<1>10. \A y \in Zids \ {z} : Beside(y)
  BY <1>1, <1>2 DEF Beside, SameWork, Untouched, Books, AccountsTypeOK
<1> QED
  BY <1>4, <1>8, <1>9, <1>10, OwnStepKeeps

LEMMA BackfillJobKeeps ==
  ASSUME Books, NEW z \in Zids, BackfillJob(z)
  PROVE  Books'
<1>1. PICK x \in Exclusive : job' = [job EXCEPT ![z] =
        [Idle EXCEPT !.at = "looked", !.live = FALSE, !.exclusive = x]]
  BY DEF BackfillJob
<1>2. UNCHANGED <<cached, retained, detached, held, granted>> /\ job[z].at = "idle"
  BY DEF BackfillJob
<1>3. [Idle EXCEPT !.at = "looked", !.live = FALSE, !.exclusive = x] \in WorkerRow
  BY IdleType, AdmissionAssumption DEF WorkerRow, Places
<1>4. AccountsTypeOK'
  BY <1>1, <1>2, <1>3 DEF Books, AccountsTypeOK
<1>5. job'[z].at = "looked" /\ job'[z].object = 0
  BY <1>1 DEF Books, AccountsTypeOK, Idle
<1>6. z \notin held /\ z \notin detached /\ z \notin granted /\ retained[z] = cached[z]
  BY <1>2 DEF Books, Matches, ChargeMatches, HoldMatches, GrantMatches
<1>7. retained[z] \in Nat
  BY DEF Books, AccountsTypeOK
<1>8. Matches(z)'
  BY <1>2, <1>5, <1>6 DEF Matches, ChargeMatches, HoldMatches, GrantMatches
<1>9. Kept(z)' + Added(z)' <= Kept(z) + Added(z)
  BY <1>2, <1>5, <1>6, <1>7 DEF Kept, Added
<1>10. \A y \in Zids \ {z} : Beside(y)
  BY <1>1, <1>2 DEF Beside, SameWork, Untouched, Books, AccountsTypeOK
<1> QED
  BY <1>4, <1>8, <1>9, <1>10, OwnStepKeeps

(* What let_go does, whoever calls it. *)
LEMMA LetGoSays ==
  ASSUME Books, NEW z \in Zids, let_go(z)
  PROVE  /\ held' = held \ {z} /\ detached' = detached \ {z}
         /\ retained' \in [Zids -> Nat]
         /\ \A y \in Zids \ {z} : retained'[y] = retained[y]
         /\ retained'[z] = IF z \in detached THEN 0 ELSE retained[z]
<1>1. z \in detached => z \in held
  BY DEF Books, Matches, ChargeMatches
<1> QED
  BY <1>1 DEF let_go, unhold, Books, AccountsTypeOK

(* A worker that lets its object go, and has no grant any more, or has      *)
(* cached the object it was granted for.                                   *)
LEMMA UnholdingKeeps ==
  ASSUME Books, NEW z \in Zids, let_go(z), cached' = cached,
         job' \in [Zids -> WorkerRow], \A y \in Zids \ {z} : job'[y] = job[y],
         granted' \in SUBSET Zids, \A y \in Zids \ {z} : y \in granted' <=> y \in granted,
         \/ /\ job[z].at = "cached" /\ job'[z].at = "unheld" /\ z \in granted'
            /\ job'[z].need = job[z].need /\ job'[z].object = 0
         \/ /\ job[z].at # "cached" /\ job[z].at # "unheld" /\ z \notin granted'
            /\ job'[z].at = "handling" \/ (job'[z].at = "idle" /\ job'[z].object = 0)
  PROVE  Books'
<1>1. /\ held' = held \ {z} /\ detached' = detached \ {z}
      /\ retained' \in [Zids -> Nat]
      /\ \A y \in Zids \ {z} : retained'[y] = retained[y]
      /\ retained'[z] = IF z \in detached THEN 0 ELSE retained[z]
  BY LetGoSays
<1>2. AccountsTypeOK'
  BY <1>1 DEF Books, AccountsTypeOK
<1>3. /\ retained[z] \in Nat /\ retained'[z] \in Nat /\ job[z].need \in Nat
      /\ job[z].object \in Nat
  BY <1>1 DEF Books, AccountsTypeOK, WorkerRow
<1>4. ChargeMatches(z) /\ GrantMatches(z)
  BY DEF Books, Matches
<1>5. ChargeMatches(z)'
  BY <1>1, <1>4 DEF ChargeMatches
<1>6. HoldMatches(z)'
  BY <1>1 DEF HoldMatches
<1>7. retained'[z] <= retained[z]
  BY <1>1, <1>3
<1>8. GrantMatches(z)'
  BY <1>3, <1>4, <1>7 DEF GrantMatches
<1>9. Kept(z)' + Added(z)' <= Kept(z) + Added(z)
  BY <1>3, <1>4, <1>7 DEF Kept, Added, GrantMatches
<1>10. \A y \in Zids \ {z} : Beside(y)
  BY <1>1 DEF Beside, SameWork, Untouched
<1> QED
  BY <1>2, <1>5, <1>6, <1>8, <1>9, <1>10, OwnStepKeeps DEF Matches

LEMMA GiveUpKeeps ==
  ASSUME Books, NEW z \in Zids, give_up(z), UNCHANGED <<cached, granted>>,
         job[z].at \in InLine
  PROVE  Books'
<1>1. let_go(z) /\ job' = [job EXCEPT ![z] = Idle]
  BY DEF give_up
<1>2. job' \in [Zids -> WorkerRow]
  BY <1>1, IdleType DEF Books, AccountsTypeOK
<1>3. \A y \in Zids \ {z} : job'[y] = job[y]
  BY <1>1 DEF Books, AccountsTypeOK
<1>4. job'[z].at = "idle" /\ job'[z].object = 0
  BY <1>1 DEF Books, AccountsTypeOK, Idle
<1>5. z \notin granted
  BY DEF Books, Matches, GrantMatches, InLine
<1>6. job[z].at # "cached" /\ job[z].at # "unheld"
  BY DEF InLine
<1>7. granted' \in SUBSET Zids
  BY DEF Books, AccountsTypeOK
<1> QED
  BY <1>1, <1>2, <1>3, <1>4, <1>5, <1>6, <1>7, UnholdingKeeps

LEMMA LetGoKeeps ==
  ASSUME Books, NEW z \in Zids, LetGo(z)
  PROVE  Books'
<1>1. /\ job[z].at = "cached" /\ let_go(z) /\ UNCHANGED <<cached, granted>>
      /\ job' = [job EXCEPT ![z] = [job[z] EXCEPT !.at = "unheld", !.object = 0]]
  BY DEF LetGo
<1>2. [job[z] EXCEPT !.at = "unheld", !.object = 0] \in WorkerRow
  <2>1. "unheld" \in Places /\ 0 \in Nat /\ job[z] \in WorkerRow
    BY RowType DEF Places
  <2> QED
    BY <2>1 DEF WorkerRow
<1>3. job' \in [Zids -> WorkerRow] /\ \A y \in Zids \ {z} : job'[y] = job[y]
  BY <1>1, <1>2 DEF Books, AccountsTypeOK
<1>4. job'[z].at = "unheld" /\ job'[z].need = job[z].need /\ job'[z].object = 0
  BY <1>1 DEF Books, AccountsTypeOK, WorkerRow
<1>5. z \in granted /\ granted' \in SUBSET Zids
  BY <1>1 DEF Books, AccountsTypeOK, Matches, GrantMatches
<1> QED
  BY <1>1, <1>3, <1>4, <1>5, UnholdingKeeps

LEMMA FailKeeps ==
  ASSUME Books, NEW z \in Zids, Fail(z)
  PROVE  Books'
<1>1. /\ job[z].at = "compute" /\ let_go(z) /\ cached' = cached /\ granted' = granted \ {z}
      /\ job' = [job EXCEPT ![z] = [job[z] EXCEPT !.at = "handling", !.need = 0]]
  BY DEF Fail, release
<1>2. [job[z] EXCEPT !.at = "handling", !.need = 0] \in WorkerRow
  <2>1. "handling" \in Places /\ 0 \in Nat /\ job[z] \in WorkerRow
    BY RowType DEF Places
  <2> QED
    BY <2>1 DEF WorkerRow
<1>3. job' \in [Zids -> WorkerRow] /\ \A y \in Zids \ {z} : job'[y] = job[y]
  BY <1>1, <1>2 DEF Books, AccountsTypeOK
<1>4. job'[z].at = "handling"
  BY <1>1 DEF Books, AccountsTypeOK, WorkerRow
<1>5. granted' \in SUBSET Zids
  BY <1>1 DEF Books, AccountsTypeOK
<1> QED
  BY <1>1, <1>3, <1>4, <1>5, UnholdingKeeps

LEMMA ReserveKeeps ==
  ASSUME Books, NEW z \in Zids, NEW n \in Sizes, Reserve(z, n)
  PROVE  Books'
<1>1. CASE give_up(z)
  BY <1>1, GiveUpKeeps DEF Reserve, InLine
<1>2. CASE /\ job' = [job EXCEPT ![z].at = "try", ![z].need = n]
           /\ UNCHANGED <<held, detached, retained>>
  <2> DEFINE row == [job[z] EXCEPT !.at = "try", !.need = n]
  <2>1. "try" \in Places /\ n \in Nat /\ job[z] \in WorkerRow
    BY RowType, AdmissionAssumption DEF Places
  <2>2. row \in WorkerRow /\ row.at = "try" /\ row.object = job[z].object /\ row.live = job[z].live
    BY <2>1 DEF WorkerRow
  <2>3. job' = [job EXCEPT ![z] = row]
    BY <1>2
  <2> HIDE DEF row
  <2>4. UNCHANGED <<cached, granted>> /\ job[z].at = "looked"
    BY DEF Reserve
  <2>5. AccountsTypeOK'
    BY <1>2, <2>2, <2>3, <2>4 DEF Books, AccountsTypeOK
  <2>6. \A y \in Zids : Beside(y)
    BY <1>2, <2>2, <2>3, <2>4 DEF Beside, SameWork, Untouched, InLine, Books, AccountsTypeOK
  <2> QED
    BY <2>5, <2>6, AllBesideKeeps
<1> QED
  BY <1>1, <1>2 DEF Reserve

(* The only step after which more is set aside: it fits.                   *)
LEMMA GrantKeeps ==
  ASSUME Books, NEW z \in Zids, Grant(z)
  PROVE  Books'
<1> DEFINE row == [job[z] EXCEPT !.at = "compute"]
<1>1. row \in WorkerRow /\ row.at = "compute" /\ row.object = job[z].object /\ row.live = job[z].live
      /\ row.need = job[z].need
  <2>1. "compute" \in Places /\ job[z] \in WorkerRow
    BY RowType DEF Places
  <2> QED
    BY <2>1 DEF WorkerRow
<1>2. /\ job[z].at = "try" /\ granted' = granted \cup {z}
      /\ job' = [job EXCEPT ![z] = row]
      /\ UNCHANGED <<cached, retained, detached, held>>
      /\ Used + job[z].need <= Capacity
  BY DEF Grant, at, grantable, fits
<1> HIDE DEF row
<1>3. AccountsTypeOK'
  BY <1>1, <1>2 DEF Books, AccountsTypeOK
<1>4. /\ job'[z].at = "compute" /\ job'[z].object = job[z].object
      /\ job'[z].live = job[z].live
      /\ job'[z].need = job[z].need /\ \A y \in Zids \ {z} : job'[y] = job[y]
  BY <1>1, <1>2 DEF Books, AccountsTypeOK
<1>5. z \notin granted
  BY <1>2 DEF Books, Matches, GrantMatches
<1>6. Matches(z)'
  BY <1>2, <1>4 DEF Books, Matches, ChargeMatches, HoldMatches, GrantMatches
<1>7. ASSUME NEW y \in Zids \ {z} PROVE Matches(y)' /\ Bound'[y] <= Bound[y]
  <2>1. Beside(y)
    BY <1>2, <1>4 DEF Beside, SameWork, Untouched
  <2> QED
    BY <1>3, <2>1, BesideKeeps DEF Books
<1>8. Charge \in [Zids -> Nat] /\ Used = SumFunctionOnSet(Charge, Zids) /\ Used \in Nat
  BY UsedIsCharge DEF Books
<1> DEFINE new == Bound'
           top == [Charge EXCEPT ![z] = Charge[z] + job[z].need]
<1>9. retained[z] \in Nat /\ job[z].need \in Nat
  BY RowType DEF Books, AccountsTypeOK, WorkerRow
<1>10. top \in [Zids -> Nat] /\ top[z] = Charge[z] + job[z].need
       /\ \A y \in Zids \ {z} : top[y] = Charge[y]
  BY <1>8, <1>9
<1>11. ASSUME NEW y \in Zids PROVE new[y] \in Nat /\ new[y] <= top[y]
  <2>1. new[y] = Kept(y)' + Added(y)' /\ Kept(y)' \in Nat /\ Added(y)' \in Nat
    <3>1. /\ retained'[y] \in Nat /\ job'[y].need \in Nat /\ job'[y].object \in Nat
      BY <1>3 DEF AccountsTypeOK, WorkerRow
    <3> QED
      BY <3>1 DEF Bound, Kept, Added
  <2>2. CASE y = z
    <3>1. Kept(z)' = retained[z] /\ Added(z)' = job[z].need
      BY <1>2, <1>4 DEF Kept, Added
    <3>2. Charge[z] = retained[z] + 0
      BY <1>5 DEF Charge, Added
    <3> QED
      BY <1>9, <1>10, <2>1, <2>2, <3>1, <3>2
  <2>3. CASE y # z
    <3>1. Bound[y] \in Nat /\ Kept(y) \in Nat /\ Added(y) \in Nat /\ Bound[y] = Kept(y) + Added(y)
      BY BoundType DEF Books
    <3>2. Kept(y) <= retained[y]
      <4>1. Matches(y) /\ retained[y] \in Nat /\ job[y].object \in Nat
        BY RowType DEF Books, AccountsTypeOK, WorkerRow
      <4> QED
        BY <4>1 DEF Matches, HoldMatches, Kept
    <3>3. Charge[y] = retained[y] + Added(y) /\ retained[y] \in Nat
      BY DEF Charge, Books, AccountsTypeOK
    <3>4. new[y] <= Bound[y]
      BY <1>7, <2>3
    <3> HIDE DEF new, top
    <3> QED
      BY <1>10, <2>1, <2>3, <3>1, <3>2, <3>3, <3>4
  <2> QED
    BY <2>2, <2>3
<1>12. BoundFits'
  <2> HIDE DEF new, top
  <2>1. IsFiniteSet(Zids) /\ Capacity \in Nat
    BY AdmissionAssumption
  <2>2. \A y \in Zids : new[y] \in Nat /\ top[y] \in Nat /\ new[y] <= top[y]
    BY <1>10, <1>11
  <2>3. SumFunctionOnSet(new, Zids) <= SumFunctionOnSet(top, Zids)
    BY <2>1, <2>2, SumMonotone
  <2>4. \A y \in Zids : Charge[y] \in Nat
    BY <1>8
  <2>5. SumFunctionOnSet(top, Zids) + Charge[z] = SumFunctionOnSet(Charge, Zids) + top[z]
    BY <1>10, <2>1, <2>2, <2>4, SumUpdate
  <2>6. SumFunctionOnSet(new, Zids) \in Nat /\ SumFunctionOnSet(top, Zids) \in Nat
    BY <2>1, <2>2, SumNat
  <2>7. SumFunctionOnSet(new, Zids) <= Capacity
    BY <1>2, <1>8, <1>9, <1>10, <2>1, <2>3, <2>4, <2>5, <2>6
  <2> QED
    BY <2>7 DEF BoundFits, Total, new
<1>13. \A y \in Zids : Matches(y)'
  BY <1>6, <1>7
<1> QED
  BY <1>3, <1>12, <1>13 DEF Books

(* Steps in line that only look. *)
LEMMA MovesInLineKeep ==
  ASSUME Books, NEW z \in Zids, NEW place \in InLine, at(z, place), job[z].at \in InLine,
         UNCHANGED <<cached, retained, detached, held, granted>>
  PROVE  Books'
<1> DEFINE row == [job[z] EXCEPT !.at = place]
<1>1. row \in WorkerRow /\ row.at = place /\ row.object = job[z].object /\ row.live = job[z].live
  <2>1. place \in Places /\ job[z] \in WorkerRow
    BY RowType DEF Places, InLine
  <2> QED
    BY <2>1 DEF WorkerRow
<1>2. job' = [job EXCEPT ![z] = row]
  BY DEF at
<1> HIDE DEF row
<1>3. AccountsTypeOK'
  BY <1>1, <1>2 DEF Books, AccountsTypeOK
<1>4. \A y \in Zids : Beside(y)
  BY <1>1, <1>2 DEF Beside, SameWork, Untouched, Books, AccountsTypeOK
<1> QED
  BY <1>3, <1>4, AllBesideKeeps

LEMMA BlockedKeeps ==
  ASSUME Books, NEW z \in Zids, Blocked(z)
  PROVE  Books'
<1>1. job[z].at = "try" /\ UNCHANGED <<cached, retained, detached, held, granted>>
  BY DEF Blocked
<1>2. CASE at(z, "again")
  BY <1>1, <1>2, MovesInLineKeep DEF InLine
<1>3. CASE job' = [job EXCEPT ![z].at = "evict", ![z].short = Shortfall(job[z].need),
                              ![z].protect = protected(z)]
  <2> DEFINE n == Shortfall(job[z].need)
             row == [job[z] EXCEPT !.at = "evict", !.short = n, !.protect = protected(z)]
  <2>1. n \in Int
    <3>1. Used \in Nat /\ job[z].need \in Nat /\ Capacity \in Nat
      BY UsedIsCharge, RowType, AdmissionAssumption DEF Books, WorkerRow
    <3> QED
      BY <3>1 DEF Shortfall
  <2>2. protected(z) \in SUBSET Zids
    BY DEF protected, Books, AccountsTypeOK
  <2>3. "evict" \in Places /\ job[z] \in WorkerRow
    BY RowType DEF Places
  <2>4. job' = [job EXCEPT ![z] = row]
    BY <1>3
  <2> HIDE DEF n
  <2>5. row \in WorkerRow /\ row.at = "evict" /\ row.object = job[z].object /\ row.live = job[z].live
    BY <2>1, <2>2, <2>3 DEF WorkerRow
  <2> HIDE DEF row
  <2>6. AccountsTypeOK'
    BY <1>1, <2>4, <2>5 DEF Books, AccountsTypeOK
  <2>7. \A y \in Zids : Beside(y)
    BY <1>1, <2>4, <2>5 DEF Beside, SameWork, Untouched, InLine, Books, AccountsTypeOK
  <2> QED
    BY <2>6, <2>7, AllBesideKeeps
<1> QED
  BY <1>2, <1>3 DEF Blocked

(* What a drop of the entries in S does to each conversation. *)
LEMMA DropSays ==
  ASSUME Books, NEW S \in SUBSET Zids, drop_retained(retained, detached, S),
         cached' = [y \in Zids |-> IF y \in S THEN 0 ELSE cached[y]]
  PROVE  /\ cached' \in [Zids -> Nat] /\ retained' \in [Zids -> Nat]
         /\ detached' \in SUBSET Zids
         /\ \A y \in Zids : Untouched(y) \/ Dropped(y)
<1>1. /\ retained' = [y \in Zids |-> IF y \in S \ held THEN 0 ELSE retained[y]]
      /\ detached' = detached \cup {y \in S \cap held : retained[y] > 0}
  BY DEF drop_retained
<1>2. cached' \in [Zids -> Nat] /\ retained' \in [Zids -> Nat] /\ detached' \in SUBSET Zids
  BY <1>1 DEF Books, AccountsTypeOK
<1>3. ASSUME NEW y \in Zids
      PROVE  Untouched(y) \/ Dropped(y)
  <2>1. y \in detached => y \in held
    BY DEF Books, Matches, ChargeMatches
  <2>2. CASE y \in S
    BY <1>1, <2>1, <2>2 DEF Dropped
  <2>3. CASE y \notin S
    BY <1>1, <2>3 DEF Untouched
  <2> QED
    BY <2>2, <2>3
<1> QED
  BY <1>2, <1>3

LEMMA EvictKeeps ==
  ASSUME Books, NEW z \in Zids, Evict(z)
  PROVE  Books'
<1>1. PICK S \in SUBSET Zids :
        /\ cached' = [y \in Zids |-> IF y \in S THEN 0 ELSE cached[y]]
        /\ drop_retained(retained, detached, S)
        /\ job' = [job EXCEPT ![z].short = 0, ![z].protect = {},
             ![z].at = IF \E y \in S : retained[y] > 0 THEN "try" ELSE "again"]
  BY DEF Evict
<1> DEFINE place == IF \E y \in S : retained[y] > 0 THEN "try" ELSE "again"
           row == [job[z] EXCEPT !.short = 0, !.protect = {}, !.at = place]
<1>2. job[z].at = "evict" /\ UNCHANGED <<held, granted>>
  BY DEF Evict
<1>3. place \in InLine
  BY DEF InLine
<1>4. job' = [job EXCEPT ![z] = row]
  BY <1>1
<1> HIDE DEF place
<1>5. row \in WorkerRow /\ row.at \in InLine /\ row.object = job[z].object /\ row.live = job[z].live
  <2>1. place \in Places
    BY <1>3 DEF Places, InLine
  <2>2. job[z] \in WorkerRow /\ 0 \in Int /\ {} \in SUBSET Zids
    BY RowType
  <2>3. row.at = place /\ row.object = job[z].object /\ row.live = job[z].live
    BY <2>2 DEF WorkerRow
  <2>4. row \in WorkerRow
    <3> DEFINE here == job[z]
    <3>1. here \in WorkerRow
      BY <2>2
    <3> HIDE DEF here, place
    <3>2. [here EXCEPT !.short = 0, !.protect = {}, !.at = place] \in WorkerRow
      BY <2>1, <2>2, <3>1 DEF WorkerRow
    <3> QED
      BY <3>2 DEF here
  <2> QED
    BY <1>3, <2>3, <2>4
<1> HIDE DEF row
<1>6. AccountsTypeOK'
  <2>1. job' \in [Zids -> WorkerRow]
    BY <1>4, <1>5 DEF Books, AccountsTypeOK
  <2>2. cached' \in [Zids -> Nat] /\ retained' \in [Zids -> Nat] /\ detached' \in SUBSET Zids
    BY <1>1, DropSays
  <2> QED
    BY <1>2, <2>1, <2>2 DEF Books, AccountsTypeOK
<1>7. \A y \in Zids : SameWork(y)
  BY <1>2, <1>4, <1>5 DEF SameWork, InLine, Books, AccountsTypeOK
<1>8. \A y \in Zids : Beside(y)
  BY <1>1, <1>7, DropSays DEF Beside
<1> QED
  BY <1>6, <1>8, AllBesideKeeps

LEMMA DropKeeps ==
  ASSUME Books, NEW z \in Zids, Drop(z)
  PROVE  Books'
<1>1. /\ {z} \in SUBSET Zids /\ drop_retained(retained, detached, {z})
      /\ UNCHANGED <<held, granted, job>>
  BY DEF Drop
<1>2. cached' = [y \in Zids |-> IF y \in {z} THEN 0 ELSE cached[y]]
  BY DEF Drop, Books, AccountsTypeOK
<1>3. AccountsTypeOK'
  BY <1>1, <1>2, DropSays DEF Books, AccountsTypeOK
<1>4. \A y \in Zids : Beside(y)
  BY <1>1, <1>2, DropSays DEF Beside, SameWork
<1> QED
  BY <1>3, <1>4, AllBesideKeeps

LEMMA AgainKeeps ==
  ASSUME Books, NEW z \in Zids, Again(z)
  PROVE  Books'
<1>1. job[z].at = "again" /\ UNCHANGED <<cached, granted>>
  BY DEF Again
<1>2. CASE give_up(z)
  BY <1>1, <1>2, GiveUpKeeps DEF InLine
<1>3. CASE at(z, "try") /\ UNCHANGED <<held, detached, retained>>
  BY <1>1, <1>3, MovesInLineKeep DEF InLine
<1> QED
  BY <1>2, <1>3 DEF Again

(* The new object takes the place of the old one, and others leave.        *)
LEMMA RememberKeeps ==
  ASSUME Books, NEW z \in Zids, NEW n \in Sizes, Remember(z, n)
  PROVE  Books'
<1> DEFINE c == [cached EXCEPT ![z] = n]
           r == [retained EXCEPT ![z] = n]
           row == [job[z] EXCEPT !.at = "cached"]
<1>1. PICK S \in SUBSET (Zids \ {z}) :
        cached' = without(c, S) /\ drop_retained(r, detached \ {z}, S)
  BY DEF Remember
<1>2. /\ job[z].at = "compute" /\ n >= job[z].object /\ n <= job[z].need
      /\ job' = [job EXCEPT ![z] = row] /\ UNCHANGED <<held, granted>>
  BY DEF Remember, at
<1>3. n \in Nat
  BY AdmissionAssumption
<1>4. row \in WorkerRow /\ row.at = "cached" /\ row.object = job[z].object /\ row.live = job[z].live
      /\ row.need = job[z].need
  <2>1. "cached" \in Places /\ job[z] \in WorkerRow
    BY RowType DEF Places
  <2> QED
    BY <2>1 DEF WorkerRow
<1> HIDE DEF row
<1>5. /\ cached' = [y \in Zids |-> IF y \in S THEN 0 ELSE c[y]]
      /\ retained' = [y \in Zids |-> IF y \in S \ held THEN 0 ELSE r[y]]
      /\ detached' = (detached \ {z}) \cup {y \in S \cap held : r[y] > 0}
  BY <1>1 DEF without, drop_retained
<1>6. AccountsTypeOK'
  BY <1>2, <1>3, <1>4, <1>5 DEF Books, AccountsTypeOK
<1>7. /\ cached'[z] = n /\ retained'[z] = n /\ z \notin detached'
      /\ job'[z].at = "cached" /\ job'[z].object = job[z].object
      /\ job'[z].need = job[z].need /\ job'[z].live = job[z].live
  BY <1>2, <1>4, <1>5 DEF Books, AccountsTypeOK
<1>8. /\ job[z].object \in Nat /\ job[z].need \in Nat /\ retained[z] \in Nat
  BY RowType DEF Books, AccountsTypeOK, WorkerRow
<1>9. HoldMatches(z) /\ GrantMatches(z)
  BY DEF Books, Matches
<1>10. Matches(z)'
  BY <1>2, <1>3, <1>7, <1>8, <1>9 DEF Matches, ChargeMatches, HoldMatches, GrantMatches
<1>11. Kept(z)' + Added(z)' <= Kept(z) + Added(z)
  <2>1. Added(z)' = Added(z) /\ Added(z) \in Nat
    BY <1>2, <1>7, <1>8 DEF Added
  <2>2. Kept(z)' = job[z].object /\ Kept(z) = retained[z]
    BY <1>2, <1>7 DEF Kept
  <2>3. job[z].object <= retained[z]
    BY <1>2, <1>8, <1>9 DEF HoldMatches
  <2> QED
    BY <1>8, <2>1, <2>2, <2>3
<1>12. ASSUME NEW y \in Zids \ {z}
       PROVE  Beside(y)
  <2>1. c[y] = cached[y] /\ r[y] = retained[y]
    BY DEF Books, AccountsTypeOK
  <2>2. y \in detached => y \in held
    BY DEF Books, Matches, ChargeMatches
  <2>3. SameWork(y)
    BY <1>2 DEF SameWork, Books, AccountsTypeOK
  <2> HIDE DEF c, r
  <2>4. CASE y \in S
    BY <1>5, <2>1, <2>2, <2>3, <2>4 DEF Beside, Dropped
  <2>5. CASE y \notin S
    BY <1>5, <2>1, <2>3, <2>5 DEF Beside, Untouched
  <2> QED
    BY <2>4, <2>5
<1> QED
  BY <1>6, <1>10, <1>11, <1>12, OwnStepKeeps

(* A worker that goes back to idle holds nothing any more. *)
LEMMA EndKeeps ==
  ASSUME Books, NEW z \in Zids, job' = [job EXCEPT ![z] = Idle],
         UNCHANGED <<cached, retained, detached, held>>,
         z \notin held, granted' = granted \ {z}, job[z].at # "cached"
  PROVE  Books'
<1>1. AccountsTypeOK'
  BY IdleType DEF Books, AccountsTypeOK
<1>2. job'[z].at = "idle" /\ job'[z].object = 0 /\ \A y \in Zids \ {z} : job'[y] = job[y]
  BY DEF Books, AccountsTypeOK, Idle
<1>3. ChargeMatches(z) /\ GrantMatches(z)
  BY DEF Books, Matches
<1>4. Matches(z)'
  BY <1>2, <1>3 DEF Matches, ChargeMatches, HoldMatches, GrantMatches
<1>5. retained[z] \in Nat /\ job[z].need \in Nat
  BY RowType DEF Books, AccountsTypeOK, WorkerRow
<1>6. Kept(z)' + Added(z)' <= Kept(z) + Added(z)
  <2>1. Kept(z)' = retained[z] /\ Added(z)' = 0
    BY <1>2 DEF Kept, Added
  <2>2. CASE job[z].at = "unheld"
    BY <1>3, <1>5, <2>1, <2>2 DEF GrantMatches, Kept, Added
  <2>3. CASE job[z].at # "unheld"
    BY <1>5, <2>1, <2>3 DEF Kept, Added
  <2> QED
    BY <2>2, <2>3
<1>7. \A y \in Zids \ {z} : Beside(y)
  BY <1>2 DEF Beside, SameWork, Untouched
<1> QED
  BY <1>1, <1>4, <1>6, <1>7, OwnStepKeeps

LEMMA ReleaseKeeps ==
  ASSUME Books, NEW z \in Zids, Release(z)
  PROVE  Books'
<1>1. /\ job' = [job EXCEPT ![z] = Idle] /\ granted' = granted \ {z}
      /\ UNCHANGED <<cached, retained, detached, held>>
      /\ job[z].at = "unheld" \/ (job[z].at = "compute" /\ ~job[z].live)
  BY DEF Release, release
<1>2. z \notin held /\ job[z].at # "cached"
  BY <1>1 DEF Books, Matches, HoldMatches
<1> QED
  BY <1>1, <1>2, EndKeeps

LEMMA HandledKeeps ==
  ASSUME Books, NEW z \in Zids, Handled(z)
  PROVE  Books'
<1>1. /\ job' = [job EXCEPT ![z] = Idle] /\ job[z].at = "handling"
      /\ UNCHANGED <<cached, retained, detached, held, granted>>
  BY DEF Handled
<1>2. z \notin held /\ z \notin granted
  BY <1>1 DEF Books, Matches, HoldMatches, GrantMatches
<1>3. granted' = granted \ {z}
  BY <1>1, <1>2
<1> QED
  BY <1>1, <1>2, <1>3, EndKeeps

LEMMA BooksInit == AdmissionInit => Books
<1> SUFFICES ASSUME AdmissionInit PROVE Books
  OBVIOUS
<1>1. AccountsTypeOK
  BY IdleType DEF AdmissionInit, AccountsTypeOK
<1>2. \A z \in Zids : /\ job[z].at = "idle" /\ job[z].object = 0 /\ retained[z] = 0 /\ cached[z] = 0
                      /\ z \notin held /\ z \notin granted /\ z \notin detached
  BY DEF AdmissionInit, Idle
<1>3. \A z \in Zids : Matches(z)
  BY <1>2 DEF Matches, ChargeMatches, HoldMatches, GrantMatches
<1>4. BoundFits
  <2>1. \A z \in Zids : Bound[z] = 0
    BY <1>2 DEF Bound, Kept, Added
  <2>2. IsFiniteSet(Zids) /\ Capacity \in Nat
    BY AdmissionAssumption
  <2> DEFINE none == [z \in Zids |-> 0]
  <2>3. \A z \in Zids : Bound[z] = none[z] /\ none[z] \in Nat
    BY <2>1
  <2>4. SumFunctionOnSet(Bound, Zids) = SumFunctionOnSet(none, Zids)
    BY <2>2, <2>3, SumCongruent
  <2>5. SumFunctionOnSet(none, Zids) = 0
    BY <2>2, SumZero
  <2> QED
    BY <2>2, <2>4, <2>5 DEF BoundFits, Total
<1> QED
  BY <1>1, <1>3, <1>4 DEF Books

(* Every step of every worker, backfill job and dropper, in any order,      *)
(* keeps the books.                                                        *)
THEOREM BooksInductive == Books /\ [AdmissionNext]_avars => Books'
<1> SUFFICES ASSUME Books, [AdmissionNext]_avars PROVE Books'
  OBVIOUS
<1>1. ASSUME NEW z \in Zids, Lookup(z) PROVE Books'
  BY <1>1, LookupKeeps
<1>2. ASSUME NEW z \in Zids, BackfillJob(z) PROVE Books'
  BY <1>2, BackfillJobKeeps
<1>3. ASSUME NEW z \in Zids, NEW n \in Sizes, Reserve(z, n) PROVE Books'
  BY <1>3, ReserveKeeps
<1>4. ASSUME NEW z \in Zids, NEW n \in Sizes, Remember(z, n) PROVE Books'
  BY <1>4, RememberKeeps
<1>5. ASSUME NEW z \in Zids, Grant(z) PROVE Books'
  BY <1>5, GrantKeeps
<1>6. ASSUME NEW z \in Zids, Blocked(z) PROVE Books'
  BY <1>6, BlockedKeeps
<1>7. ASSUME NEW z \in Zids, Evict(z) PROVE Books'
  BY <1>7, EvictKeeps
<1>8. ASSUME NEW z \in Zids, Again(z) PROVE Books'
  BY <1>8, AgainKeeps
<1>9. ASSUME NEW z \in Zids, LetGo(z) PROVE Books'
  BY <1>9, LetGoKeeps
<1>10. ASSUME NEW z \in Zids, Release(z) PROVE Books'
  BY <1>10, ReleaseKeeps
<1>11. ASSUME NEW z \in Zids, Handled(z) PROVE Books'
  BY <1>11, HandledKeeps
<1>12. ASSUME NEW z \in Zids, Fail(z) PROVE Books'
  BY <1>12, FailKeeps
<1>13. ASSUME NEW z \in Zids, Drop(z) PROVE Books'
  BY <1>13, DropKeeps
<1>14. CASE UNCHANGED avars
  <2>1. UNCHANGED <<cached, retained, detached, held, granted, job>>
    BY <1>14 DEF avars
  <2>2. AccountsTypeOK'
    BY <2>1 DEF Books, AccountsTypeOK
  <2>3. \A z \in Zids : Beside(z)
    BY <2>1 DEF Beside, SameWork, Untouched
  <2> QED
    BY <2>2, <2>3, AllBesideKeeps
<1> QED
  BY <1>1, <1>2, <1>3, <1>4, <1>5, <1>6, <1>7, <1>8, <1>9, <1>10, <1>11, <1>12, <1>13,
     <1>14 DEF AdmissionNext, Proceed

THEOREM BooksAreKept == AdmissionSpec => []Books
<1>1. AdmissionInit => Books
  BY BooksInit
<1>2. Books /\ [AdmissionNext]_avars => Books'
  BY BooksInductive
<1> QED
  BY <1>1, <1>2, PTL DEF AdmissionSpec

-----------------------------------------------------------------------------
(* What is set aside covers what is needed. *)
LEMMA RealIsBound ==
  ASSUME Books
  PROVE  MemoryFits
<1>1. ASSUME NEW z \in Zids
      PROVE  Real[z] \in Nat /\ Bound[z] \in Nat /\ Real[z] <= Bound[z]
  <2>1. /\ cached[z] \in Nat /\ retained[z] \in Nat
        /\ job[z].object \in Nat /\ job[z].need \in Nat
    BY RowType DEF Books, AccountsTypeOK, WorkerRow
  <2>2. Bound[z] \in Nat /\ Bound[z] = Kept(z) + Added(z)
    BY BoundType DEF Books
  <2>3. ChargeMatches(z) /\ HoldMatches(z) /\ GrantMatches(z)
    BY DEF Books, Matches
  <2>4. cached[z] <= retained[z]
    BY <2>1, <2>3 DEF ChargeMatches
  <2> DEFINE working == job[z].at \in {"compute", "cached"}
  <2>5. /\ Real[z] = IF working THEN Object(z) + job[z].need ELSE Object(z)
        /\ Object(z) \in Nat
    BY <2>1 DEF Real, Object
  <2>6. CASE working
    <3>1. Added(z) = job[z].need
      BY <2>3, <2>6 DEF GrantMatches, Added
    <3>2. Object(z) <= Kept(z)
      BY <2>1, <2>3, <2>4, <2>6 DEF HoldMatches, Object, Handling, Kept
    <3>3. Kept(z) \in Nat
      BY <2>1 DEF Kept
    <3> QED
      BY <2>1, <2>2, <2>5, <2>6, <3>1, <3>2, <3>3
  <2>7. CASE ~working
    <3>1. CASE job[z].at = "unheld"
      <4>1. Object(z) = cached[z]
        BY <2>3, <3>1 DEF HoldMatches, Object
      <4>2. Kept(z) = 0 /\ Added(z) = job[z].need /\ retained[z] <= job[z].need
        BY <2>3, <3>1 DEF GrantMatches, Kept, Added
      <4> QED
        BY <2>1, <2>2, <2>4, <2>5, <2>7, <4>1, <4>2
    <3>2. CASE job[z].at # "unheld"
      <4>1. Object(z) <= retained[z]
        BY <2>1, <2>3, <2>4, <2>7, <3>2 DEF HoldMatches, Object, Handling
      <4>2. Kept(z) = retained[z] /\ Added(z) = 0
        BY <2>3, <2>7, <3>2 DEF GrantMatches, Kept, Added
      <4> QED
        BY <2>1, <2>2, <2>5, <2>7, <4>1, <4>2
    <3> QED
      BY <3>1, <3>2
  <2> QED
    BY <2>6, <2>7
<1>2. IsFiniteSet(Zids) /\ Capacity \in Nat
  BY AdmissionAssumption
<1>3. SumFunctionOnSet(Real, Zids) <= SumFunctionOnSet(Bound, Zids)
  BY <1>1, <1>2, SumMonotone
<1>4. SumFunctionOnSet(Real, Zids) \in Nat /\ SumFunctionOnSet(Bound, Zids) \in Nat
  BY <1>1, <1>2, SumNat
<1>5. SumFunctionOnSet(Bound, Zids) <= Capacity
  BY DEF Books, BoundFits, Total
<1> QED
  BY <1>2, <1>3, <1>4, <1>5 DEF MemoryFits, Total

(* The memory in use never exceeds the budget (MemoryAdmission.reserve      *)
(* against retain, drop_retained, unhold and the cache), for any number of  *)
(* conversations and any sizes, errors being handled apart.                 *)
THEOREM MemoryAlwaysFits == AdmissionSpec => []MemoryFits
<1>1. Books => MemoryFits
  BY RealIsBound
<1> QED
  BY <1>1, BooksAreKept, PTL

(* A charge goes with the cached object or with the worker that holds it    *)
(* (drop_retained, unhold): none is left behind to shrink the budget.       *)
THEOREM EveryChargeIsOwned == AdmissionSpec => []NoChargeIsLeft
<1>1. Books => NoChargeIsLeft
  BY DEF Books, AccountsTypeOK, Matches, ChargeMatches, NoChargeIsLeft
<1> QED
  BY <1>1, BooksAreKept, PTL
-----------------------------------------------------------------------------
(* The line moves: what NobodyWaitsForEver rests on besides fairness.       *)

Waits(z) == job[z].at \in {"try", "evict", "again"}
Stands(z) == \E i \in 1..Len(waiters) : waiters[i] = z

\* Who waits stands in the line once, and who left has no ticket in it.
LineKept ==
  /\ waiters \in Seq(Zids)
  /\ \A i, k \in 1..Len(waiters) : waiters[i] = waiters[k] => i = k
  /\ \A z \in Zids : Waits(z) <=> Stands(z)

\* When nobody computes, the first in line is a worker that waits, and it can be
\* granted, or is refused, or finds an object to evict that nobody holds.
LineMoves ==
  waiters # <<>> /\ granted = {} =>
    LET z == Head(waiters)
    IN  /\ Waits(z)
        /\ \/ grantable(z)
           \/ stuck(z)
           \/ \E y \in Zids \ (held \cup {z}) : cached[y] > 0

(* What list.remove does to a line in which an element stands once.        *)
LEMMA RemoveSays ==
  ASSUME NEW S, NEW s \in Seq(S), NEW k \in 1..Len(s),
         \A i \in 1..Len(s) : s[i] = s[k] => i = k
  PROVE  LET t == RemoveFirst(s, s[k])
         IN  /\ t \in Seq(S) /\ Len(t) = Len(s) - 1
             /\ \A i \in 1..Len(t) : t[i] = s[IF i < k THEN i ELSE i + 1]
<1> DEFINE places == {i \in 1..Len(s) : s[i] = s[k]}
           before == SubSeq(s, 1, k - 1)
           after == SubSeq(s, k + 1, Len(s))
           t == before \o after
<1>1. places = {k}
  OBVIOUS
<1>2. Min(places) = k
  BY <1>1 DEF Min
<1>3. RemoveFirst(s, s[k]) = t
  BY <1>1, <1>2 DEF RemoveFirst, SelectInSeq, RemoveAt
<1>4. /\ before \in Seq(S) /\ Len(before) = k - 1
      /\ \A i \in 1..(k - 1) : before[i] = s[i]
  OBVIOUS
<1>5. /\ after \in Seq(S) /\ Len(after) = Len(s) - k
      /\ \A i \in 1..(Len(s) - k) : after[i] = s[k + i]
  OBVIOUS
<1> HIDE DEF before, after
<1>6. t \in Seq(S) /\ Len(t) = Len(s) - 1
  <2>1. t \in Seq(S)
    BY <1>4, <1>5
  <2>2. \A a, b \in Seq(S) : Len(a \o b) = Len(a) + Len(b)
    OBVIOUS
  <2>3. Len(s) \in Nat
    OBVIOUS
  <2> QED
    <3>1. Len(t) = Len(before) + Len(after)
      BY <2>2, <1>4, <1>5
    <3>2. Len(before) + Len(after) = Len(s) - 1
      BY <2>3, <1>4, <1>5
    <3> QED
      BY <2>1, <3>1, <3>2
<1>7. ASSUME NEW i \in 1..Len(t) PROVE t[i] = s[IF i < k THEN i ELSE i + 1]
  <2>1. CASE i < k
    BY <2>1, <1>4, <1>5, <1>6
  <2>2. CASE ~(i < k)
    <3>1. t[i] = after[i - (k - 1)] /\ i - (k - 1) \in 1..(Len(s) - k)
      BY <2>2, <1>4, <1>5, <1>6
    <3> QED
      BY <2>2, <3>1, <1>5, <1>6
  <2> QED
    BY <2>1, <2>2
<1> QED
  BY <1>3, <1>6, <1>7

LEMMA StayingKeepsLine ==
  ASSUME LineKept, waiters' = waiters, \A y \in Zids : Waits(y)' <=> Waits(y)
  PROVE  LineKept'
BY DEF LineKept, Stands

LEMMA JoiningKeepsLine ==
  ASSUME LineKept, NEW z \in Zids, ~Waits(z), Waits(z)', waiters' = Append(waiters, z),
         \A y \in Zids \ {z} : Waits(y)' <=> Waits(y)
  PROVE  LineKept'
<1>1. /\ waiters \in Seq(Zids) /\ waiters' \in Seq(Zids) /\ Len(waiters') = Len(waiters) + 1
      /\ \A i \in 1..Len(waiters) : waiters'[i] = waiters[i]
      /\ waiters'[Len(waiters) + 1] = z
  BY DEF LineKept
<1>2. \A i \in 1..Len(waiters) : waiters[i] # z
  BY DEF LineKept, Stands
<1>3. \A i, k \in 1..Len(waiters') : waiters'[i] = waiters'[k] => i = k
  <2> SUFFICES ASSUME NEW i \in 1..Len(waiters'), NEW k \in 1..Len(waiters'),
                      waiters'[i] = waiters'[k]
               PROVE  i = k
    OBVIOUS
  <2>1. CASE i \in 1..Len(waiters) /\ k \in 1..Len(waiters)
    BY <2>1, <1>1 DEF LineKept
  <2>2. CASE ~(i \in 1..Len(waiters) /\ k \in 1..Len(waiters))
    BY <2>2, <1>1, <1>2
  <2> QED
    BY <2>1, <2>2
<1>4. ASSUME NEW y \in Zids PROVE Waits(y)' <=> Stands(y)'
  <2>1. Stands(y)' <=> Stands(y) \/ y = z
    BY <1>1 DEF Stands
  <2> QED
    BY <2>1 DEF LineKept
<1> QED
  BY <1>1, <1>3, <1>4 DEF LineKept

LEMMA LeavingKeepsLine ==
  ASSUME LineKept, NEW z \in Zids, ~Waits(z)', waiters' = RemoveFirst(waiters, z),
         \A y \in Zids \ {z} : Waits(y)' <=> Waits(y)
  PROVE  LineKept'
<1>1. CASE ~Stands(z)
  <2>1. waiters' = waiters
    BY <1>1 DEF Stands, RemoveFirst
  <2> QED
    BY <1>1, <2>1, StayingKeepsLine DEF LineKept
<1>2. CASE Stands(z)
  <2>1. PICK k \in 1..Len(waiters) : waiters[k] = z
    BY <1>2 DEF Stands
  <2>2. waiters \in Seq(Zids) /\ \A i \in 1..Len(waiters) : waiters[i] = waiters[k] => i = k
    BY DEF LineKept
  <2>3. /\ waiters' \in Seq(Zids) /\ Len(waiters') = Len(waiters) - 1
        /\ \A i \in 1..Len(waiters') : waiters'[i] = waiters[IF i < k THEN i ELSE i + 1]
    BY <2>1, <2>2, RemoveSays
  <2>4. \A i, l \in 1..Len(waiters') : waiters'[i] = waiters'[l] => i = l
    <3> SUFFICES ASSUME NEW i \in 1..Len(waiters'), NEW l \in 1..Len(waiters'),
                        waiters'[i] = waiters'[l]
                 PROVE  i = l
      OBVIOUS
    <3> DEFINE up(n) == IF n < k THEN n ELSE n + 1
    <3>1. up(i) \in 1..Len(waiters) /\ up(l) \in 1..Len(waiters)
      BY <2>2, <2>3
    <3>2. waiters[up(i)] = waiters[up(l)]
      BY <2>3
    <3>3. up(i) = up(l)
      BY <3>1, <3>2 DEF LineKept
    <3> QED
      BY <3>3
  <2>5. ASSUME NEW y \in Zids PROVE Stands(y)' <=> Stands(y) /\ y # z
    <3>1. ASSUME NEW i \in 1..Len(waiters'), waiters'[i] = y
          PROVE  Stands(y) /\ y # z
      <4> DEFINE p == IF i < k THEN i ELSE i + 1
      <4>1. p \in 1..Len(waiters) /\ p # k /\ waiters[p] = y
        BY <2>2, <2>3, <3>1
      <4> QED
        BY <4>1, <2>1, <2>2 DEF Stands
    <3>2. ASSUME NEW i \in 1..Len(waiters), waiters[i] = y, y # z
          PROVE  Stands(y)'
      <4>1. i # k
        BY <3>2, <2>1
      <4> DEFINE q == IF i < k THEN i ELSE i - 1
      <4>2. q \in 1..Len(waiters') /\ waiters'[q] = y
        BY <4>1, <2>2, <2>3, <3>2
      <4> QED
        BY <4>2 DEF Stands
    <3> QED
      BY <3>1, <3>2 DEF Stands
  <2>6. \A y \in Zids : Waits(y)' <=> Stands(y)'
    BY <2>5 DEF LineKept
  <2> QED
    BY <2>3, <2>4, <2>6 DEF LineKept
<1> QED
  BY <1>1, <1>2

LEMMA GivingUpKeepsLine ==
  ASSUME Books, LineKept, NEW z \in Zids, give_up(z)
  PROVE  LineKept'
<1>1. waiters' = RemoveFirst(waiters, z) /\ job' = [job EXCEPT ![z] = Idle]
  BY DEF give_up
<1>2. job'[z].at = "idle" /\ \A y \in Zids \ {z} : job'[y] = job[y]
  BY <1>1 DEF Idle, Books, AccountsTypeOK
<1> QED
  BY <1>1, <1>2, LeavingKeepsLine DEF Waits

LEMMA LineInit == AdmissionInit => LineKept
<1> SUFFICES ASSUME AdmissionInit PROVE LineKept
  OBVIOUS
<1>1. waiters = <<>> /\ \A z \in Zids : job[z].at = "idle"
  BY DEF AdmissionInit, Idle
<1> QED
  BY <1>1 DEF LineKept, Waits, Stands

LEMMA LineStep ==
  ASSUME Books, LineKept, [AdmissionNext]_avars
  PROVE  LineKept'
<1>0. job \in [Zids -> WorkerRow]
  BY DEF Books, AccountsTypeOK
<1>1. ASSUME NEW z \in Zids,
             \/ Lookup(z) \/ BackfillJob(z) \/ LetGo(z) \/ Release(z) \/ Handled(z)
             \/ Fail(z) \/ Drop(z) \/ Blocked(z) \/ Evict(z)
             \/ \E n \in Sizes : Remember(z, n)
      PROVE  LineKept'
  <2>1. waiters' = waiters
    BY <1>1 DEF Lookup, BackfillJob, LetGo, Release, Handled, Fail, Drop, Blocked, Evict,
                Remember
  <2>2. \A y \in Zids \ {z} : job'[y] = job[y]
    BY <1>0, <1>1 DEF Lookup, BackfillJob, LetGo, Release, Handled, Fail, Drop, Blocked,
                      Evict, Remember, at
  <2>3. Waits(z)' <=> Waits(z)
    <3>1. CASE Lookup(z) \/ BackfillJob(z)
      BY <1>0, <3>1 DEF Lookup, BackfillJob, Idle, Waits
    <3>2. CASE LetGo(z) \/ Release(z) \/ Handled(z) \/ Fail(z)
      BY <1>0, <3>2 DEF LetGo, Release, Handled, Fail, Idle, WorkerRow, Waits
    <3>3. CASE Blocked(z)
      <4>1. job[z].at = "try" /\ job'[z].at \in {"evict", "again"}
        BY <1>0, <3>3 DEF Blocked, at, WorkerRow
      <4> QED
        BY <4>1 DEF Waits
    <3>4. CASE Evict(z)
      <4>1. job[z].at = "evict" /\ job'[z].at \in {"try", "again"}
        BY <1>0, <3>4 DEF Evict, WorkerRow
      <4> QED
        BY <4>1 DEF Waits
    <3>5. CASE Drop(z)
      BY <3>5 DEF Drop, Waits
    <3>6. CASE \E n \in Sizes : Remember(z, n)
      <4>1. job[z].at = "compute" /\ job' = [job EXCEPT ![z].at = "cached"]
        BY <3>6 DEF Remember, at
      <4> QED
        BY <1>0, <4>1 DEF WorkerRow, Waits
    <3> QED
      BY <1>1, <3>1, <3>2, <3>3, <3>4, <3>5, <3>6
  <2>4. \A y \in Zids : Waits(y)' <=> Waits(y)
    BY <2>2, <2>3 DEF Waits
  <2> QED
    BY <2>1, <2>4, StayingKeepsLine
<1>2. ASSUME NEW z \in Zids, NEW n \in Sizes, Reserve(z, n) PROVE LineKept'
  <2>1. CASE give_up(z)
    BY <2>1, GivingUpKeepsLine
  <2>2. CASE /\ waiters' = Append(waiters, z)
             /\ job' = [job EXCEPT ![z].at = "try", ![z].need = n]
    <3>1. job[z].at = "looked"
      BY <1>2 DEF Reserve
    <3>2. job'[z].at = "try" /\ \A y \in Zids \ {z} : job'[y] = job[y]
      BY <2>2, <1>0 DEF WorkerRow
    <3> QED
      BY <2>2, <3>1, <3>2, JoiningKeepsLine DEF Waits
  <2> QED
    BY <1>2, <2>1, <2>2 DEF Reserve
<1>3. ASSUME NEW z \in Zids, Grant(z) PROVE LineKept'
  <2>1. waiters' = RemoveFirst(waiters, z) /\ job' = [job EXCEPT ![z].at = "compute"]
    BY <1>3 DEF Grant, at
  <2>2. job'[z].at = "compute" /\ \A y \in Zids \ {z} : job'[y] = job[y]
    BY <2>1, <1>0 DEF WorkerRow
  <2> QED
    BY <2>1, <2>2, LeavingKeepsLine DEF Waits
<1>4. ASSUME NEW z \in Zids, Again(z) PROVE LineKept'
  <2>1. CASE give_up(z)
    BY <2>1, GivingUpKeepsLine
  <2>2. CASE at(z, "try") /\ waiters' = waiters
    BY <1>0, <1>4, <2>2, StayingKeepsLine DEF Again, at, WorkerRow, Waits
  <2> QED
    BY <1>4, <2>1, <2>2 DEF Again
<1>5. CASE UNCHANGED avars
  BY <1>5, StayingKeepsLine DEF avars, Waits
<1> QED
  BY <1>1, <1>2, <1>3, <1>4, <1>5 DEF AdmissionNext, Proceed

LEMMA LineCanMove ==
  ASSUME Books, LineKept
  PROVE  LineMoves
<1> SUFFICES ASSUME waiters # <<>>, granted = {}
             PROVE  LET z == Head(waiters)
                    IN  /\ Waits(z)
                        /\ \/ grantable(z)
                           \/ stuck(z)
                           \/ \E y \in Zids \ (held \cup {z}) : cached[y] > 0
  BY DEF LineMoves
<1> DEFINE z == Head(waiters)
<1>1. 1 \in 1..Len(waiters) /\ z = waiters[1] /\ z \in Zids
  BY DEF LineKept
<1>2. Waits(z)
  BY <1>1 DEF LineKept, Stands
<1>3. first(z) /\ alone(z)
  BY DEF first, alone
<1> HIDE DEF z
<1>4. ASSUME ~fits(z), ~stuck(z)
      PROVE  \E y \in Zids \ (held \cup {z}) : cached[y] > 0
  <2>1. PICK y \in Zids \ protected(z) : retained[y] # 0
    BY <1>3, <1>4 DEF stuck
  <2>2. y \in Zids \ (held \cup {z})
    BY <2>1 DEF protected
  <2>3. ChargeMatches(y)
    BY <2>1 DEF Books, Matches
  <2>4. cached[y] \in Nat /\ retained[y] = cached[y]
    BY <2>1, <2>2, <2>3 DEF ChargeMatches, Books, AccountsTypeOK
  <2> QED
    BY <2>1, <2>2, <2>4
<1>5. grantable(z) \/ stuck(z) \/ \E y \in Zids \ (held \cup {z}) : cached[y] > 0
  BY <1>3, <1>4 DEF grantable
<1> QED
  BY <1>2, <1>5 DEF z

(* No ticket of a worker that was granted, refused or deferred stays to      *)
(* block the line (reserve, admission.py:594), and whoever stands first can  *)
(* move unless a computation still has memory that it will release.          *)
THEOREM TheLineMoves == AdmissionSpec => [](LineKept /\ LineMoves)
<1>1. AdmissionInit => LineKept
  BY LineInit
<1>2. Books /\ LineKept /\ [AdmissionNext]_avars => LineKept'
  BY LineStep
<1>3. Books /\ LineKept => LineMoves
  BY LineCanMove
<1> QED
  BY <1>1, <1>2, <1>3, BooksAreKept, PTL DEF AdmissionSpec
=============================================================================
