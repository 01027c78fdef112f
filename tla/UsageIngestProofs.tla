------------------------- MODULE UsageIngestProofs -------------------------
(***************************************************************************)
(* Proofs about the ingestion of usage: for any number of sessions,        *)
(* batches, reports, tasks and users, any content, any faults and any      *)
(* order of what the network delivers.                                     *)
(***************************************************************************)
EXTENDS UsageIngest, Functions, FiniteSetTheorems, NaturalsInduction,
        WellFoundedInduction, TLAPS

-----------------------------------------------------------------------------
(* Sums: SumFunction of the community modules adds the values of a         *)
(* function in an order that CHOOSE picks.  For finite domains the sum is  *)
(* a number, depends on nothing but the values, and can be split at any    *)
(* element.  Induction is done by hand, on the smallest set for which a    *)
(* claim fails.                                                            *)

(* A set of numbers that has zero and every successor has them all. *)
LEMMA NumberInduction ==
    ASSUME NEW W \in SUBSET Nat, 0 \in W, \A n \in W : n + 1 \in W
    PROVE  W = Nat
<1> SUFFICES ASSUME Nat \ W # {} PROVE FALSE
  OBVIOUS
<1>1. PICK n \in Nat \ W : \A m \in Nat \ W : ~(<<m, n>> \in OpToRel(<, Nat))
  BY NatLessThanWellFounded, WFMin
<1>2. \A m \in Nat \ W : ~(m < n)
  BY <1>1 DEF OpToRel
<1>3. n \in Nat /\ n \notin W /\ n # 0
  OBVIOUS
<1>4. n - 1 \in Nat /\ n - 1 < n /\ (n - 1) + 1 = n
  BY <1>3
<1>5. n - 1 \in W
  BY <1>2, <1>4
<1> QED
  BY <1>3, <1>4, <1>5

(* A family of subsets that has every subset all of whose smaller subsets  *)
(* it has, has them all.                                                   *)
LEMMA SubsetInduction ==
    ASSUME NEW S, IsFiniteSet(S), NEW W \in SUBSET SUBSET S,
           \A s \in SUBSET S :
               (\A r \in SUBSET s : Cardinality(r) < Cardinality(s) => r \in W) => s \in W
    PROVE  W = SUBSET S
<1> SUFFICES ASSUME NEW b \in SUBSET S, b \notin W PROVE FALSE
  OBVIOUS
<1> DEFINE Sizes == {n \in Nat : \A s \in SUBSET S : Cardinality(s) <= n => s \in W}
<1>1. \A s \in SUBSET S : IsFiniteSet(s) /\ Cardinality(s) \in Nat
  BY FS_Subset, FS_CardinalityType
<1>2. 0 \in Sizes
  <2>1. ASSUME NEW s \in SUBSET S, Cardinality(s) <= 0 PROVE s \in W
    <3>1. \A r \in SUBSET s : ~(Cardinality(r) < Cardinality(s))
      BY <1>1, <2>1
    <3> QED
      BY <3>1
  <2> QED
    BY <2>1
<1>3. ASSUME NEW n \in Sizes PROVE n + 1 \in Sizes
  <2>1. ASSUME NEW s \in SUBSET S, Cardinality(s) <= n + 1 PROVE s \in W
    <3>1. \A r \in SUBSET s : Cardinality(r) < Cardinality(s) => Cardinality(r) <= n
      BY <1>1, <2>1
    <3> QED
      BY <3>1
  <2> QED
    BY <2>1
<1>4. Sizes = Nat
  <2> HIDE DEF Sizes
  <2>1. Sizes \in SUBSET Nat
    BY DEF Sizes
  <2> QED
    BY <1>2, <1>3, <2>1, NumberInduction
<1>5. Cardinality(b) \in Sizes
  BY <1>1, <1>4
<1> QED
  BY <1>1, <1>5

-----------------------------------------------------------------------------
(* The sums of all subsets of the domain *)

AnyOf(s) == CHOOSE x \in s : TRUE

(* What the sum of a subset is made of. *)
SumStep(f, g, s) == IF s = {} THEN 0 ELSE f[AnyOf(s)] + g[s \ {AnyOf(s)}]

SubsetSums(f) == CHOOSE g : g = [s \in SUBSET DOMAIN f |-> SumStep(f, g, s)]

(* The sum is that of the whole domain. *)
LEMMA SumIsOfDomain == ASSUME NEW f PROVE SumFunction(f) = SubsetSums(f)[DOMAIN f]
BY DEF SumFunction, SumFunctionOnSet, FoldFunctionOnSet, MapThenFoldSet, SubsetSums, SumStep, AnyOf

(* An element that is taken from a set makes it smaller by one. *)
LEMMA WithoutAny ==
    ASSUME NEW s, IsFiniteSet(s), s # {}
    PROVE  /\ AnyOf(s) \in s
           /\ Cardinality(s) \in Nat /\ Cardinality(s \ {AnyOf(s)}) \in Nat
           /\ Cardinality(s \ {AnyOf(s)}) < Cardinality(s)
<1>1. AnyOf(s) \in s
  BY DEF AnyOf
<1>2. Cardinality(s) \in Nat /\ Cardinality(s \ {AnyOf(s)}) = Cardinality(s) - 1
      /\ IsFiniteSet(s \ {AnyOf(s)})
  BY <1>1, FS_CardinalityType, FS_RemoveElement
<1>3. Cardinality(s \ {AnyOf(s)}) \in Nat
  BY <1>2, FS_CardinalityType
<1> QED
  BY <1>1, <1>2, <1>3

(* The recursion over the subsets has a solution: one for those of at most *)
(* n elements, for every n.                                                *)
LEMMA SumsExist ==
    ASSUME NEW f, IsFiniteSet(DOMAIN f)
    PROVE  SubsetSums(f) = [s \in SUBSET DOMAIN f |-> SumStep(f, SubsetSums(f), s)]
<1> DEFINE UpTo(n) == {s \in SUBSET DOMAIN f : Cardinality(s) <= n}
           Solves(g, n) == g = [s \in UpTo(n) |-> SumStep(f, g, s)]
           W == {n \in Nat : \E g : Solves(g, n)}
<1>1. \A s \in SUBSET DOMAIN f : IsFiniteSet(s) /\ Cardinality(s) \in Nat
  BY FS_Subset, FS_CardinalityType
<1>2. ASSUME NEW n \in Nat, NEW s \in UpTo(n + 1), s # {}
      PROVE  s \ {AnyOf(s)} \in UpTo(n)
  BY <1>1, <1>2, WithoutAny
<1>3. 0 \in W
  <2>1. \A s \in UpTo(0) : s = {}
    BY <1>1, FS_EmptySet
  <2>2. [s \in UpTo(0) |-> 0] = [s \in UpTo(0) |-> SumStep(f, [r \in UpTo(0) |-> 0], s)]
    BY <2>1 DEF SumStep
  <2> QED
    BY <2>2
<1>4. ASSUME NEW n \in W PROVE n + 1 \in W
  <2>1. PICK g : Solves(g, n)
    OBVIOUS
  <2> DEFINE h == [s \in UpTo(n + 1) |-> SumStep(f, g, s)]
  <2>2. \A s \in UpTo(n) : s \in UpTo(n + 1)
    BY <1>1
  <2>3. \A s \in UpTo(n) : h[s] = g[s]
    BY <2>1, <2>2
  <2>4. ASSUME NEW s \in UpTo(n + 1) PROVE SumStep(f, h, s) = SumStep(f, g, s)
    <3>1. CASE s = {}
      BY <3>1 DEF SumStep
    <3>2. CASE s # {}
      <4>1. h[s \ {AnyOf(s)}] = g[s \ {AnyOf(s)}]
        BY <1>2, <2>3, <2>4, <3>2
      <4> QED
        BY <3>2, <4>1 DEF SumStep
    <3> QED
      BY <3>1, <3>2
  <2>5. Solves(h, n + 1)
    BY <2>4
  <2>6. \E g_1 : Solves(g_1, n + 1)
    <3> HIDE DEF h, Solves
    <3> QED
      BY <2>5
  <2>7. n + 1 \in Nat
    OBVIOUS
  <2> HIDE DEF Solves
  <2> QED
    BY <2>6, <2>7
<1>5. W = Nat
  <2> HIDE DEF W
  <2>1. W \in SUBSET Nat
    BY DEF W
  <2> QED
    BY <1>3, <1>4, <2>1, NumberInduction
<1>6. PICK n \in Nat : n = Cardinality(DOMAIN f)
  BY FS_CardinalityType
<1>7. UpTo(n) = SUBSET DOMAIN f
  BY <1>6, FS_Subset
<1>8. \E g : g = [s \in SUBSET DOMAIN f |-> SumStep(f, g, s)]
  <2>1. PICK g : Solves(g, n)
    BY <1>5
  <2> QED
    BY <1>7, <2>1
<1> QED
  BY <1>8 DEF SubsetSums

-----------------------------------------------------------------------------
(* What sums are *)

(* The sum of a subset. *)
LEMMA SumOf ==
    ASSUME NEW f, IsFiniteSet(DOMAIN f), NEW s \in SUBSET DOMAIN f
    PROVE  SubsetSums(f)[s] = SumStep(f, SubsetSums(f), s)
<1>1. PICK g : g = SubsetSums(f)
  OBVIOUS
<1>2. g = [r \in SUBSET DOMAIN f |-> SumStep(f, g, r)]
  BY <1>1, SumsExist
<1>3. g[s] = SumStep(f, g, s)
  BY <1>2
<1> QED
  BY <1>1, <1>3

(* A sum depends on the values of its elements only. *)
LEMMA SameValues ==
    ASSUME NEW f, NEW h, IsFiniteSet(DOMAIN f), IsFiniteSet(DOMAIN h),
           NEW s, s \subseteq DOMAIN f, s \subseteq DOMAIN h, \A x \in s : f[x] = h[x]
    PROVE  SubsetSums(f)[s] = SubsetSums(h)[s]
<1> DEFINE W == {r \in SUBSET s : SubsetSums(f)[r] = SubsetSums(h)[r]}
<1>1. IsFiniteSet(s)
  BY FS_Subset
<1>2. ASSUME NEW r \in SUBSET s, \A q \in SUBSET r : Cardinality(q) < Cardinality(r) => q \in W
      PROVE  r \in W
  <2>1. r \in SUBSET DOMAIN f /\ r \in SUBSET DOMAIN h
    OBVIOUS
  <2>2. /\ SubsetSums(f)[r] = SumStep(f, SubsetSums(f), r)
        /\ SubsetSums(h)[r] = SumStep(h, SubsetSums(h), r)
    BY <2>1, SumOf
  <2>3. CASE r = {}
    BY <2>2, <2>3 DEF SumStep
  <2>4. CASE r # {}
    <3>1. AnyOf(r) \in r /\ r \ {AnyOf(r)} \in W
      BY <1>1, <1>2, <2>4, WithoutAny, FS_Subset
    <3>2. f[AnyOf(r)] = h[AnyOf(r)] /\ SubsetSums(f)[r \ {AnyOf(r)}] = SubsetSums(h)[r \ {AnyOf(r)}]
      BY <3>1
    <3> QED
      BY <2>2, <2>4, <3>2 DEF SumStep
  <2> QED
    BY <2>3, <2>4
<1>3. W = SUBSET s
  <2> HIDE DEF W
  <2>1. W \in SUBSET SUBSET s
    BY DEF W
  <2> QED
    BY <1>1, <1>2, <2>1, SubsetInduction
<1>4. s \in W
  BY <1>3
<1> QED
  BY <1>4

(* The sum of numbers is a number. *)
LEMMA SumsNat ==
    ASSUME NEW S, IsFiniteSet(S), NEW f \in [S -> Nat], NEW s \in SUBSET S
    PROVE  SubsetSums(f)[s] \in Nat
<1> DEFINE W == {r \in SUBSET S : SubsetSums(f)[r] \in Nat}
<1>1. ASSUME NEW r \in SUBSET S, \A q \in SUBSET r : Cardinality(q) < Cardinality(r) => q \in W
      PROVE  r \in W
  <2>1. SubsetSums(f)[r] = SumStep(f, SubsetSums(f), r)
    BY SumOf
  <2>2. CASE r = {}
    BY <2>1, <2>2 DEF SumStep
  <2>3. CASE r # {}
    <3>1. AnyOf(r) \in r /\ r \ {AnyOf(r)} \in W
      BY <1>1, <2>3, WithoutAny, FS_Subset
    <3>2. f[AnyOf(r)] \in Nat /\ SubsetSums(f)[r \ {AnyOf(r)}] \in Nat
      BY <3>1
    <3> QED
      BY <2>1, <2>3, <3>2 DEF SumStep
  <2> QED
    BY <2>2, <2>3
<1>2. W = SUBSET S
  <2> HIDE DEF W
  <2>1. W \in SUBSET SUBSET S
    BY DEF W
  <2> QED
    BY <1>1, <2>1, SubsetInduction
<1>3. s \in W
  BY <1>2
<1> QED
  BY <1>3

(* Any element may be split off, not only the one that CHOOSE picks.       *)
LEMMA SumsSplit ==
    ASSUME NEW S, IsFiniteSet(S), NEW f \in [S -> Nat], NEW s \in SUBSET S, NEW x \in s
    PROVE  SubsetSums(f)[s] = f[x] + SubsetSums(f)[s \ {x}]
<1> DEFINE W == {r \in SUBSET S : \A y \in r : SubsetSums(f)[r] = f[y] + SubsetSums(f)[r \ {y}]}
<1>1. ASSUME NEW r \in SUBSET S, NEW y \in r,
             \A q \in SUBSET r : Cardinality(q) < Cardinality(r) => q \in W
      PROVE  SubsetSums(f)[r] = f[y] + SubsetSums(f)[r \ {y}]
  <2> DEFINE z == AnyOf(r)
             both == (r \ {y}) \ {z}
  <2>1. SubsetSums(f)[r] = f[z] + SubsetSums(f)[r \ {z}] /\ z \in r
    BY SumOf, WithoutAny, FS_Subset DEF SumStep
  <2>2. CASE y = z
    BY <2>1, <2>2
  <2>3. CASE y # z
    <3>0. IsFiniteSet(r) /\ IsFiniteSet(r \ {z}) /\ IsFiniteSet(r \ {y})
      BY FS_Subset
    <3>1. /\ Cardinality(r) \in Nat
          /\ Cardinality(r \ {z}) = Cardinality(r) - 1
          /\ Cardinality(r \ {y}) = Cardinality(r) - 1
      BY <2>1, <3>0, FS_CardinalityType, FS_RemoveElement
    <3>2. r \ {z} \in W /\ r \ {y} \in W
      <4>1. /\ r \ {z} \in SUBSET r /\ Cardinality(r \ {z}) < Cardinality(r)
            /\ r \ {y} \in SUBSET r /\ Cardinality(r \ {y}) < Cardinality(r)
        BY <3>1
      <4> HIDE DEF W, z
      <4> QED
        BY <1>1, <4>1
    <3>3. SubsetSums(f)[r \ {z}] = f[y] + SubsetSums(f)[both]
      <4>1. (r \ {z}) \ {y} = both
        OBVIOUS
      <4> QED
        BY <2>3, <3>2, <4>1
    <3>4. SubsetSums(f)[r \ {y}] = f[z] + SubsetSums(f)[both]
      BY <2>1, <2>3, <3>2
    <3>5. SubsetSums(f)[both] \in Nat /\ f[y] \in Nat /\ f[z] \in Nat
      BY <2>1, SumsNat
    <3> HIDE DEF z, both
    <3> QED
      BY <2>1, <3>3, <3>4, <3>5
  <2> QED
    BY <2>2, <2>3
<1>2. W = SUBSET S
  <2>1. ASSUME NEW r \in SUBSET S,
               \A q \in SUBSET r : Cardinality(q) < Cardinality(r) => q \in W
        PROVE  r \in W
    BY <1>1, <2>1
  <2> HIDE DEF W
  <2>2. W \in SUBSET SUBSET S
    BY DEF W
  <2> QED
    BY <2>1, <2>2, SubsetInduction
<1>3. s \in W
  BY <1>2
<1> QED
  BY <1>3

-----------------------------------------------------------------------------
(* Sums of functions *)

(* The sum of numbers is a number, and that of nothing is zero. *)
LEMMA SumType ==
    ASSUME NEW S, IsFiniteSet(S), NEW f \in [S -> Nat]
    PROVE  SumFunction(f) \in Nat /\ (S = {} => SumFunction(f) = 0)
<1>1. SumFunction(f) = SubsetSums(f)[S] /\ S \in SUBSET S /\ DOMAIN f = S
  BY SumIsOfDomain
<1>2. SubsetSums(f)[S] \in Nat
  BY <1>1, SumsNat
<1>3. S = {} => SubsetSums(f)[S] = 0
  BY <1>1, SumOf DEF SumStep
<1> QED
  BY <1>1, <1>2, <1>3

(* A sum is one of its values and the sum of the others. *)
LEMMA SumSplit ==
    ASSUME NEW S, IsFiniteSet(S), NEW f \in [S -> Nat], NEW x \in S
    PROVE  SumFunction(f) = f[x] + SumFunction([y \in S \ {x} |-> f[y]])
<1> DEFINE g == [y \in S \ {x} |-> f[y]]
<1>1. SumFunction(f) = SubsetSums(f)[S] /\ S \in SUBSET S
  BY SumIsOfDomain
<1>2. SubsetSums(f)[S] = f[x] + SubsetSums(f)[S \ {x}]
  BY <1>1, SumsSplit
<1>3. SumFunction(g) = SubsetSums(g)[S \ {x}]
  BY SumIsOfDomain
<1>4. SubsetSums(g)[S \ {x}] = SubsetSums(f)[S \ {x}]
  <2>1. IsFiniteSet(DOMAIN f) /\ IsFiniteSet(DOMAIN g) /\ DOMAIN g = S \ {x} /\ DOMAIN f = S
    BY FS_Subset
  <2>2. \A y \in S \ {x} : g[y] = f[y]
    OBVIOUS
  <2> HIDE DEF g
  <2> QED
    BY <2>1, <2>2, SameValues
<1> QED
  BY <1>1, <1>2, <1>3, <1>4

(* Another value for one element. *)
LEMMA SumChange ==
    ASSUME NEW S, IsFiniteSet(S), NEW f \in [S -> Nat], NEW h \in [S -> Nat], NEW x \in S,
           \A y \in S \ {x} : h[y] = f[y]
    PROVE  SumFunction(h) + f[x] = SumFunction(f) + h[x]
<1>1. [y \in S \ {x} |-> h[y]] = [y \in S \ {x} |-> f[y]]
  OBVIOUS
<1>2. PICK rest : rest = SumFunction([y \in S \ {x} |-> f[y]])
  OBVIOUS
<1>3. SumFunction(f) = f[x] + rest /\ SumFunction(h) = h[x] + rest
  BY <1>1, <1>2, SumSplit
<1>4. rest \in Nat
  <2>1. [y \in S \ {x} |-> f[y]] \in [S \ {x} -> Nat] /\ IsFiniteSet(S \ {x})
    BY FS_Subset
  <2> QED
    BY <1>2, <2>1, SumType
<1> QED
  BY <1>3, <1>4

(* Sums are added value by value. *)
LEMMA SumAdd ==
    ASSUME NEW S, IsFiniteSet(S), NEW f \in [S -> Nat], NEW g \in [S -> Nat],
           NEW h \in [S -> Nat], \A x \in S : h[x] = f[x] + g[x]
    PROVE  SumFunction(h) = SumFunction(f) + SumFunction(g)
<1> DEFINE W == {r \in SUBSET S : SubsetSums(h)[r] = SubsetSums(f)[r] + SubsetSums(g)[r]}
<1>1. ASSUME NEW r \in SUBSET S, \A q \in SUBSET r : Cardinality(q) < Cardinality(r) => q \in W
      PROVE  r \in W
  <2>1. /\ SubsetSums(f)[r] = SumStep(f, SubsetSums(f), r)
        /\ SubsetSums(g)[r] = SumStep(g, SubsetSums(g), r)
        /\ SubsetSums(h)[r] = SumStep(h, SubsetSums(h), r)
    BY SumOf
  <2>2. CASE r = {}
    BY <2>1, <2>2 DEF SumStep
  <2>3. CASE r # {}
    <3>1. PICK z \in r : z = AnyOf(r)
      BY <2>3, WithoutAny, FS_Subset
    <3>2. r \ {z} \in W
      BY <1>1, <2>3, <3>1, WithoutAny, FS_Subset
    <3>3. SubsetSums(f)[r \ {z}] \in Nat /\ SubsetSums(g)[r \ {z}] \in Nat
      BY SumsNat
    <3>4. /\ SubsetSums(f)[r] = f[z] + SubsetSums(f)[r \ {z}]
          /\ SubsetSums(g)[r] = g[z] + SubsetSums(g)[r \ {z}]
          /\ SubsetSums(h)[r] = h[z] + SubsetSums(h)[r \ {z}]
      BY <2>1, <2>3, <3>1 DEF SumStep
    <3>5. f[z] \in Nat /\ g[z] \in Nat /\ h[z] = f[z] + g[z]
      BY <3>1
    <3>6. SubsetSums(h)[r \ {z}] = SubsetSums(f)[r \ {z}] + SubsetSums(g)[r \ {z}]
      BY <3>2
    <3> QED
      BY <3>3, <3>4, <3>5, <3>6
  <2> QED
    BY <2>2, <2>3
<1>2. W = SUBSET S
  <2> HIDE DEF W
  <2>1. W \in SUBSET SUBSET S
    BY DEF W
  <2> QED
    BY <1>1, <2>1, SubsetInduction
<1>3. S \in W
  BY <1>2
<1> QED
  BY <1>3, SumIsOfDomain

(* A sum is that of the values that are not zero. *)
LEMMA SumOnSupport ==
    ASSUME NEW S, IsFiniteSet(S), NEW f \in [S -> Nat], NEW T \in SUBSET S,
           \A x \in S \ T : f[x] = 0
    PROVE  SumFunction(f) = SumFunction([x \in T |-> f[x]])
<1> DEFINE W == {r \in SUBSET S : SubsetSums(f)[r] = SubsetSums(f)[r \cap T]}
           g == [x \in T |-> f[x]]
<1>1. ASSUME NEW r \in SUBSET S, \A q \in SUBSET r : Cardinality(q) < Cardinality(r) => q \in W
      PROVE  r \in W
  <2>1. CASE r = {}
    <3>1. r \cap T = r
      BY <2>1
    <3> QED
      BY <3>1
  <2>2. CASE r # {}
    <3>1. PICK z \in r : z = AnyOf(r)
      BY <2>2, WithoutAny, FS_Subset
    <3>2. r \ {z} \in W
      BY <1>1, <2>2, <3>1, WithoutAny, FS_Subset
    <3>3. SubsetSums(f)[r] = f[z] + SubsetSums(f)[(r \ {z}) \cap T]
      BY <3>2, SumsSplit
    <3>4. CASE z \in T
      <4>1. (r \cap T) \ {z} = (r \ {z}) \cap T /\ z \in r \cap T /\ r \cap T \in SUBSET S
        BY <3>4
      <4>2. SubsetSums(f)[r \cap T] = f[z] + SubsetSums(f)[(r \cap T) \ {z}]
        BY <4>1, SumsSplit
      <4> QED
        BY <3>3, <4>1, <4>2
    <3>5. CASE z \notin T
      <4>1. (r \ {z}) \cap T = r \cap T /\ r \cap T \in SUBSET S /\ f[z] = 0
        BY <3>5
      <4>2. SubsetSums(f)[r \cap T] \in Nat
        BY <4>1, SumsNat
      <4> QED
        BY <3>3, <4>1, <4>2
    <3> QED
      BY <3>4, <3>5
  <2> QED
    BY <2>1, <2>2
<1>2. W = SUBSET S
  <2> HIDE DEF W
  <2>1. W \in SUBSET SUBSET S
    BY DEF W
  <2> QED
    BY <1>1, <2>1, SubsetInduction
<1>3. S \in W /\ S \cap T = T
  BY <1>2
<1>4. SubsetSums(f)[T] = SubsetSums(g)[T]
  <2>1. IsFiniteSet(DOMAIN f) /\ IsFiniteSet(DOMAIN g) /\ DOMAIN g = T /\ DOMAIN f = S
    BY FS_Subset
  <2>2. \A x \in T : g[x] = f[x]
    OBVIOUS
  <2> HIDE DEF g
  <2> QED
    BY <2>1, <2>2, SameValues
<1>5. SumFunction(f) = SubsetSums(f)[S] /\ SumFunction(g) = SubsetSums(g)[T]
  BY SumIsOfDomain
<1> QED
  BY <1>3, <1>4, <1>5

-----------------------------------------------------------------------------
(* The inductive invariant *)

Places == {"claim", "task", "user", "daily", "answering"}
Rows == [Tasks -> TaskRow \cup {None}]
Refs == [Users -> UserRow \cup {None}]

(* A transaction stores the reports of its batch from the first to the     *)
(* last, and holds rows only meanwhile.                                    *)
InPlace(x) ==
    /\ x.at \in {"task", "user"} => x.done < Len(Content[x.batch])
    /\ x.at = "daily" => x.done = Len(Content[x.batch])
    /\ x.at \in {"claim", "answering"} => x.done = 0 /\ x.tasks = NoTasks /\ x.users = NoUsers

Placed == \A s \in Busy : InPlace(tx[s])

(* Requests: a nonce names one message at a time; it was stamped before,   *)
(* and is remembered for as long as its stamp is fresh.                    *)
Remembered ==
    /\ \A r, q \in network : r.nonce = q.nonce => r = q
    /\ offset <= 0 => \A r \in network : r.stamp <= now
    /\ \A n \in Nonces \ unguarded : offset <= 0 =>
           /\ admitted[n] <= 1
           /\ \A r \in network : r.nonce = n /\ admitted[n] = 1 =>
                  \/ nonces[n] # None /\ r.stamp + NonceTtl <= nonces[n]
                  \/ nonces[n] = None /\ SkewTol < now - r.stamp

(* A transaction that has claimed its batch and is not over, and the rows  *)
(* it holds.                                                               *)
PastIn(x) == x # None /\ x.at \in {"task", "user", "daily"}
HoldsTask(x, t) == x # None /\ x.tasks[t] # None
HoldsUser(x, u) == x # None /\ x.users[u] # None

(* Of two requests, neither holds a row of the other, nor counts the       *)
(* other's batch.                                                          *)
Apart(x, y) ==
    /\ \A t \in Tasks : ~(HoldsTask(x, t) /\ HoldsTask(y, t))
    /\ \A u \in Users : ~(HoldsUser(x, u) /\ HoldsUser(y, u))
    /\ PastIn(x) /\ PastIn(y) => x.batch # y.batch

(* Each row has one transaction that holds it, each batch one that is      *)
(* counting it.                                                            *)
Locked ==
    /\ \A s, r \in Sessions : s # r => Apart(tx[s], tx[r])
    /\ \A s \in Sessions : PastIn(tx[s]) => tx[s].batch \notin counted

(* Only what was counted is confirmed. *)
Confirmed ==
    /\ \A b \in Batches : b \notin outbox => b \in counted
    /\ \A s \in Busy : tx[s].at = "answering" /\ tx[s].ok => tx[s].batch \in counted

(* What the first k reports of a batch add to a set of tasks. *)
Part(b, T, k) ==
    SumFunction([i \in 1..k |-> IF Content[b][i].task \in T THEN Content[b][i].amount ELSE 0])

(* How many reports a transaction has stored the tasks of. *)
StoredIn(x) == IF x.at = "user" THEN x.done + 1 ELSE x.done

Amt(row) == IF row = None THEN 0 ELSE row.amount

(* A row in hand is the committed one and what the reports so far added. *)
AddedTo(x, rows) ==
    PastIn(x) => \A t \in Tasks :
        IF x.tasks[t] = None THEN Part(x.batch, {t}, StoredIn(x)) = 0
        ELSE x.tasks[t].amount = Amt(rows[t]) + Part(x.batch, {t}, StoredIn(x))

Added == \A s \in Sessions : AddedTo(tx[s], tasks)

Sound == TypeOK /\ Placed /\ Remembered /\ Locked /\ Confirmed /\ Added

-----------------------------------------------------------------------------
(* The reports *)

(* A report of a batch. *)
LEMMA ReportType ==
    ASSUME NEW b \in Batches
    PROVE  /\ Content[b] \in Seq(Report) /\ Len(Content[b]) \in Nat
           /\ DOMAIN Content[b] = 1..Len(Content[b])
           /\ \A i \in 1..Len(Content[b]) : Content[b][i] \in Report
<1>1. Content[b] \in Seq(Report)
  BY UsageAssumption
<1> QED
  BY <1>1

(* The date of a report is one: what dates it is a date, or None. *)
LEMMA StatDateType ==
    ASSUME NEW b \in Batches, NEW rep \in Report
    PROVE  StatDate(b, rep) \in Dates
<1>1. WindowEnd[b] \in Dates /\ rep.started \in Dates \cup {None}
      /\ rep.finished \in Dates \cup {None}
  BY UsageAssumption DEF Report
<1> QED
  BY <1>1 DEF StatDate

(* What the reports up to the k-th add, number by number. *)
LEMMA PartType ==
    ASSUME NEW b \in Batches, NEW T, NEW k \in 0..Len(Content[b])
    PROVE  Part(b, T, k) \in Nat /\ Part(b, T, 0) = 0
<1> DEFINE f(n) == [i \in 1..n |-> IF Content[b][i].task \in T THEN Content[b][i].amount ELSE 0]
<1>1. ASSUME NEW n \in 0..Len(Content[b]) PROVE f(n) \in [1..n -> Nat] /\ IsFiniteSet(1..n)
  <2>1. \A i \in 1..n : Content[b][i] \in Report
    BY ReportType
  <2>2. \A i \in 1..n : Content[b][i].amount \in Nat
    BY <2>1 DEF Report
  <2>3. n \in Int /\ 1 \in Int
    BY ReportType
  <2>4. IsFiniteSet(1..n)
    BY <2>3, FS_Interval
  <2> QED
    BY <2>2, <2>4
<1>2. 0 \in 0..Len(Content[b]) /\ 1..0 = {}
  BY ReportType
<1>3. SumFunction(f(k)) \in Nat
  <2> HIDE DEF f
  <2> QED
    BY <1>1, SumType
<1>4. SumFunction(f(0)) = 0
  <2>1. f(0) \in [1..0 -> Nat] /\ IsFiniteSet(1..0)
    BY <1>1, <1>2
  <2> HIDE DEF f
  <2> QED
    BY <1>2, <2>1, SumType
<1> QED
  BY <1>3, <1>4 DEF Part

(* The next report adds its amount to the sets its task is in. *)
LEMMA PartNext ==
    ASSUME NEW b \in Batches, NEW T, NEW k \in Nat, k < Len(Content[b])
    PROVE  Part(b, T, k + 1) =
               Part(b, T, k) + IF Content[b][k + 1].task \in T THEN Content[b][k + 1].amount ELSE 0
<1> DEFINE term(i) == IF Content[b][i].task \in T THEN Content[b][i].amount ELSE 0
           f == [i \in 1..(k + 1) |-> term(i)]
           g == [i \in 1..k |-> term(i)]
<1>1. \A i \in 1..(k + 1) : term(i) \in Nat
  <2>1. \A i \in 1..(k + 1) : Content[b][i] \in Report
    BY ReportType
  <2> QED
    BY <2>1 DEF Report
<1>2. f \in [1..(k + 1) -> Nat] /\ IsFiniteSet(1..(k + 1)) /\ k + 1 \in 1..(k + 1)
  BY <1>1, FS_Interval
<1>3. SumFunction(f) = f[k + 1] + SumFunction([i \in (1..(k + 1)) \ {k + 1} |-> f[i]])
  <2> HIDE DEF f
  <2> QED
    BY <1>2, SumSplit
<1>4. [i \in (1..(k + 1)) \ {k + 1} |-> f[i]] = g
  <2>1. (1..(k + 1)) \ {k + 1} = 1..k
    OBVIOUS
  <2>2. \A i \in 1..k : f[i] = term(i)
    OBVIOUS
  <2> HIDE DEF term
  <2> QED
    BY <2>1, <2>2
<1>5. f[k + 1] = term(k + 1) /\ term(k + 1) \in Nat
  BY <1>1
<1>6. SumFunction(f) = Part(b, T, k + 1) /\ SumFunction(g) = Part(b, T, k)
  BY DEF Part
<1>7. Part(b, T, k) \in Nat
  BY PartType, ReportType
<1>8. Part(b, T, k + 1) = term(k + 1) + Part(b, T, k)
  BY <1>3, <1>4, <1>5, <1>6
<1> HIDE DEF f, g
<1> QED
  BY <1>5, <1>7, <1>8

(* All reports are the batch. *)
LEMMA PartWhole ==
    ASSUME NEW b \in Batches, NEW t
    PROVE  Part(b, {t}, Len(Content[b])) = Amount(b, t)
<1>1. \A i \in DOMAIN Content[b] : Content[b][i].task \in {t} <=> Content[b][i].task = t
  OBVIOUS
<1> QED
  BY <1>1, ReportType DEF Part, Amount

-----------------------------------------------------------------------------
(* Types *)

(* What a session that is busy works at. *)
LEMMA BusyType ==
    ASSUME TypeOK, NEW s \in Busy
    PROVE  /\ s \in Sessions /\ tx[s] \in Transaction
           /\ tx[s].nonce \in Nonces /\ tx[s].batch \in Batches /\ tx[s].done \in Nat
           /\ tx[s].tasks \in Rows /\ tx[s].users \in Refs /\ tx[s].ok \in BOOLEAN
<1>1. s \in Sessions /\ tx[s] \in Transaction
  BY DEF TypeOK, Busy
<1> QED
  BY <1>1 DEF Transaction, Rows, Refs

(* A step of one session leaves the others. *)
LEMMA OneChanges ==
    ASSUME TypeOK, NEW s \in Sessions, NEW x, tx' = [tx EXCEPT ![s] = x]
    PROVE  /\ tx'[s] = x /\ \A r \in Sessions : r # s => tx'[r] = tx[r]
           /\ x \in Transaction \cup {None} => tx' \in [Sessions -> Transaction \cup {None}]
BY DEF TypeOK

(* A request that is over: its session is free, or holds the answer. *)
Ends(s, ok) ==
    /\ tx' \in [Sessions -> Transaction \cup {None}]
    /\ \A r \in Sessions : r # s => tx'[r] = tx[r]
    /\ tx'[s] = None \/ /\ tx'[s] \in Transaction
                        /\ tx'[s].batch = tx[s].batch /\ tx'[s].nonce = tx[s].nonce
                        /\ tx'[s].at = "answering" /\ tx'[s].done = 0
                        /\ tx'[s].tasks = NoTasks /\ tx'[s].users = NoUsers /\ tx'[s].ok = ok

(* An answer ends a request, whatever became of it. *)
LEMMA AnsweredEnds ==
    ASSUME TypeOK, NEW s \in Busy, NEW ok \in BOOLEAN, tx' = Answered(s, ok)
    PROVE  Ends(s, ok)
<1> DEFINE a == [tx[s] EXCEPT !.at = "answering", !.done = 0, !.tasks = NoTasks,
                              !.users = NoUsers, !.ok = ok]
           x == IF awaited = tx[s].nonce THEN a ELSE None
<1>1. s \in Sessions /\ tx[s] \in Transaction
  BY BusyType
<1>2. NoTasks \in Rows /\ NoUsers \in Refs
  BY DEF NoTasks, NoUsers, Rows, Refs
<1>3. a \in Transaction
  BY <1>1, <1>2 DEF Transaction, Rows, Refs
<1>4. /\ a.batch = tx[s].batch /\ a.nonce = tx[s].nonce /\ a.at = "answering" /\ a.done = 0
      /\ a.tasks = NoTasks /\ a.users = NoUsers /\ a.ok = ok
  BY <1>1 DEF Transaction
<1>5. tx' = [tx EXCEPT ![s] = x]
  BY DEF Answered
<1>6. PICK z : z = a
  OBVIOUS
<1>7. PICK y : y = x
  OBVIOUS
<1>8. y \in Transaction \cup {None} /\ (y = z \/ y = None)
  BY <1>3, <1>6, <1>7
<1>9. /\ tx' \in [Sessions -> Transaction \cup {None}] /\ tx'[s] = y
      /\ \A r \in Sessions : r # s => tx'[r] = tx[r]
  <2> HIDE DEF x
  <2> QED
    BY <1>1, <1>5, <1>7, <1>8, OneChanges
<1>10. /\ z.batch = tx[s].batch /\ z.nonce = tx[s].nonce /\ z.at = "answering" /\ z.done = 0
       /\ z.tasks = NoTasks /\ z.users = NoUsers /\ z.ok = ok /\ z \in Transaction
  BY <1>3, <1>4, <1>6
<1> HIDE DEF a, x
<1> QED
  BY <1>8, <1>9, <1>10 DEF Ends

(* The steps of a transaction, and what each makes of it. *)
Becomes(s, x) ==
    /\ tx' \in [Sessions -> Transaction \cup {None}]
    /\ tx'[s] = x
    /\ \A r \in Sessions : r # s => tx'[r] = tx[r]

(* A request begins with nothing stored and nothing locked. *)
LEMMA BegunType ==
    ASSUME TypeOK, NEW r \in network
    PROVE  /\ Begun(r) \in Transaction
           /\ Begun(r).at = "claim" /\ Begun(r).done = 0 /\ Begun(r).batch = r.body
           /\ Begun(r).tasks = NoTasks /\ Begun(r).users = NoUsers /\ Begun(r).ok = FALSE
<1>1. r.nonce \in Nonces /\ r.body \in Batches
  BY DEF TypeOK, RequestTypeOK, Message
<1>2. NoTasks \in [Tasks -> TaskRow \cup {None}] /\ NoUsers \in [Users -> UserRow \cup {None}]
  BY DEF NoTasks, NoUsers
<1> QED
  BY <1>1, <1>2 DEF Begun, Transaction

(* A request that is let in begins. *)
LEMMA BeginStep ==
    ASSUME TypeOK, NEW s \in Sessions, NEW r \in network, tx' = [tx EXCEPT ![s] = Begun(r)]
    PROVE  Becomes(s, Begun(r))
<1>1. Begun(r) \in Transaction
  BY BegunType
<1> QED
  BY <1>1, OneChanges DEF Becomes

(* Claiming a new batch. *)
Claims(s) ==
    [tx[s] EXCEPT !.at = IF Content[tx[s].batch] = <<>> THEN "daily" ELSE "task"]

(* A batch is answered when it was counted before, and claimed else. *)
LEMMA ClaimStep ==
    ASSUME TypeOK, NEW s, Claim(s)
    PROVE  /\ s \in Busy /\ tx[s].at = "claim"
           /\ tx[s].batch \in counted => Ends(s, TRUE)
           /\ tx[s].batch \notin counted => Becomes(s, Claims(s)) /\ Claims(s) \in Transaction
<1>1. s \in Busy /\ tx[s].at = "claim"
  BY DEF Claim, At
<1>2. s \in Sessions /\ tx[s] \in Transaction
  BY <1>1, BusyType
<1>3. ASSUME tx[s].batch \in counted PROVE Ends(s, TRUE)
  BY <1>1, <1>3, AnsweredEnds DEF Claim, Claimed
<1>4. ASSUME tx[s].batch \notin counted
      PROVE  Becomes(s, Claims(s)) /\ Claims(s) \in Transaction
  <2>1. tx' = [tx EXCEPT ![s] = Claims(s)]
    BY <1>4 DEF Claim, Claimed, Claims
  <2>2. Claims(s) \in Transaction
    BY <1>2 DEF Claims, Transaction
  <2> QED
    BY <1>2, <2>1, <2>2, OneChanges DEF Becomes
<1> QED
  BY <1>1, <1>3, <1>4

(* The report at which a transaction is. *)
LEMMA PresentType ==
    ASSUME TypeOK, Placed, NEW s \in Busy, tx[s].at \in {"task", "user"}
    PROVE  /\ Present(s) \in Report /\ tx[s].done + 1 \in 1..Len(Content[tx[s].batch])
           /\ Present(s).task \in Tasks /\ Present(s).user \in Users /\ Present(s).amount \in Nat
<1>1. tx[s].batch \in Batches /\ tx[s].done \in Nat
  BY BusyType
<1>2. tx[s].done < Len(Content[tx[s].batch])
  BY DEF Placed, InPlace
<1>3. tx[s].done + 1 \in 1..Len(Content[tx[s].batch])
  BY <1>1, <1>2, ReportType
<1>4. Present(s) \in Report
  BY <1>1, <1>3, ReportType DEF Present
<1> QED
  BY <1>3, <1>4 DEF Report

(* A row of a task that takes a report up. *)
LEMMA UpsertedType ==
    ASSUME NEW b \in Batches, NEW rep \in Report, NEW row \in TaskRow \cup {None}
    PROVE  /\ Upserted(row, b, rep) \in TaskRow
           /\ Upserted(row, b, rep) # None
           /\ Upserted(row, b, rep).amount = Amt(row) + rep.amount
           /\ row # None => /\ Upserted(row, b, rep).user = row.user
                            /\ Upserted(row, b, rep).date = row.date
           /\ row = None => /\ Upserted(row, b, rep).user = rep.user
                            /\ Upserted(row, b, rep).date = StatDate(b, rep)
<1>1. /\ rep.amount \in Nat /\ rep.user \in Users /\ StatDate(b, rep) \in Dates
      /\ rep.status \in Statuses \cup {None}
  BY StatDateType DEF Report
<1>2. CASE row = None
  BY <1>1, <1>2, NoneAssumption DEF Upserted, TaskRow, Amt
<1>3. CASE row # None
  <2>1. row \in TaskRow /\ row.amount \in Nat
    BY <1>3 DEF TaskRow
  <2>2. [row EXCEPT !.status = rep.status, !.amount = @ + rep.amount] \in TaskRow
    <3>1. PICK n \in Nat : n = row.amount + rep.amount
      BY <1>1, <2>1
    <3>2. PICK st \in Statuses \cup {None} : st = rep.status
      BY <1>1
    <3>3. [row EXCEPT !.status = st, !.amount = n] \in TaskRow
      BY <2>1 DEF TaskRow
    <3> QED
      BY <3>1, <3>2, <3>3
  <2>3. Upserted(row, b, rep) = [row EXCEPT !.status = rep.status, !.amount = @ + rep.amount]
    BY <1>3 DEF Upserted
  <2>4. Upserted(row, b, rep) \in TaskRow /\ Upserted(row, b, rep) # None
    BY <2>2, <2>3, NoneAssumption
  <2> QED
    BY <1>3, <2>1, <2>3, <2>4 DEF TaskRow, Amt
<1> QED
  BY <1>2, <1>3

StoresTask(s) ==
    [tx[s] EXCEPT !.at = "user",
                  !.tasks[Present(s).task] =
                      Upserted(Mine(s, Present(s).task), tx[s].batch, Present(s))]

(* Storing a report's task. *)
LEMMA StoreTaskStep ==
    ASSUME TypeOK, Placed, NEW s, StoreTask(s)
    PROVE  /\ s \in Busy /\ tx[s].at = "task" /\ Blockers(s) = {}
           /\ Becomes(s, StoresTask(s)) /\ StoresTask(s) \in Transaction
<1>1. s \in Busy /\ tx[s].at = "task" /\ Blockers(s) = {}
  BY DEF StoreTask, At
<1>2. s \in Sessions /\ tx[s] \in Transaction /\ tx[s].tasks \in Rows /\ tx[s].batch \in Batches
  BY <1>1, BusyType
<1>3. Present(s) \in Report /\ Present(s).task \in Tasks
  BY <1>1, PresentType
<1>4. Mine(s, Present(s).task) \in TaskRow \cup {None}
  BY <1>2, <1>3 DEF Mine, TypeOK, Rows
<1>5. PICK row \in TaskRow : row = Upserted(Mine(s, Present(s).task), tx[s].batch, Present(s))
  BY <1>2, <1>3, <1>4, UpsertedType
<1>6. StoresTask(s) = [tx[s] EXCEPT !.at = "user", !.tasks[Present(s).task] = row]
  BY <1>5 DEF StoresTask
<1>7. [tx[s].tasks EXCEPT ![Present(s).task] = row] \in Rows
  BY <1>2, <1>3 DEF Rows
<1>8. StoresTask(s) \in Transaction
  BY <1>2, <1>6, <1>7 DEF Transaction, Rows
<1>9. tx' = [tx EXCEPT ![s] = StoresTask(s)]
  BY <1>2 DEF StoreTask, StoresTask, TypeOK
<1> QED
  BY <1>1, <1>2, <1>8, <1>9, OneChanges DEF Becomes

(* The row of a user that takes a report up. *)
Credited(s) ==
    IF MyUser(s, Present(s).user) = None
      THEN [seen |-> now \div DayLength, amount |-> Present(s).amount]
      ELSE [MyUser(s, Present(s).user) EXCEPT !.amount = @ + Present(s).amount]

StoresUser(s) ==
    [tx[s] EXCEPT !.at = AfterReport(s), !.done = @ + 1,
                  !.users[Present(s).user] = Credited(s)]

(* The day of the server's clock is a date. *)
LEMMA TodayType == ASSUME TypeOK PROVE now \div DayLength \in Dates
<1>1. now \in 0..LastTime /\ LastTime \in Nat /\ DayLength \in Nat \ {0}
  BY RequestAssumption, UsageAssumption DEF TypeOK, RequestTypeOK
<1>2. now \div DayLength \in Nat /\ now \div DayLength <= LastTime \div DayLength
  BY <1>1
<1> QED
  BY <1>1, <1>2 DEF Dates

(* The row is one, and has the report's amount on top. *)
LEMMA CreditedType ==
    ASSUME TypeOK, Placed, NEW s \in Busy, tx[s].at = "user"
    PROVE  /\ Credited(s) \in UserRow /\ Credited(s) # None
           /\ Credited(s).amount = Amt(MyUser(s, Present(s).user)) + Present(s).amount
<1> DEFINE old == MyUser(s, Present(s).user)
<1>1. Present(s).user \in Users /\ Present(s).amount \in Nat
  BY PresentType
<1>2. tx[s].users \in Refs /\ users \in Refs
  BY BusyType DEF TypeOK, Refs
<1>3. old \in UserRow \cup {None}
  BY <1>1, <1>2 DEF MyUser, Refs
<1>4. CASE old = None
  BY <1>1, <1>4, TodayType, NoneAssumption DEF Credited, UserRow, Amt
<1>5. CASE old # None
  <2>1. old \in UserRow /\ old.amount \in Nat
    BY <1>3, <1>5 DEF UserRow
  <2>2. PICK n \in Nat : n = old.amount + Present(s).amount
    BY <1>1, <2>1
  <2>3. [old EXCEPT !.amount = n] \in UserRow /\ [old EXCEPT !.amount = n].amount = n
    BY <2>1 DEF UserRow
  <2>4. Credited(s) = [old EXCEPT !.amount = n]
    BY <1>5, <2>2 DEF Credited
  <2> QED
    BY <1>5, <2>2, <2>3, <2>4, NoneAssumption DEF Amt
<1> QED
  BY <1>4, <1>5

(* Storing a report's user. *)
LEMMA StoreUserStep ==
    ASSUME TypeOK, Placed, NEW s, StoreUser(s)
    PROVE  /\ s \in Busy /\ tx[s].at = "user" /\ Blockers(s) = {}
           /\ Becomes(s, StoresUser(s)) /\ StoresUser(s) \in Transaction
<1>1. s \in Busy /\ tx[s].at = "user" /\ Blockers(s) = {}
  BY DEF StoreUser, At
<1>2. s \in Sessions /\ tx[s] \in Transaction /\ tx[s].users \in Refs /\ tx[s].done \in Nat
  BY <1>1, BusyType
<1>3. Present(s).user \in Users
  BY <1>1, PresentType
<1>4. PICK row \in UserRow : row = Credited(s)
  BY <1>1, CreditedType
<1>5. PICK refs \in Refs : refs = [tx[s].users EXCEPT ![Present(s).user] = row]
  BY <1>2, <1>3 DEF Refs
<1>6. PICK place \in {"task", "daily"} : place = AfterReport(s)
  BY DEF AfterReport
<1>7. StoresUser(s) = [tx[s] EXCEPT !.at = place, !.done = tx[s].done + 1, !.users = refs]
  BY <1>2, <1>4, <1>5, <1>6 DEF StoresUser, Transaction
<1>8. StoresUser(s) \in Transaction
  <2>1. PICK n \in Nat : n = tx[s].done + 1
    BY <1>2
  <2>2. [tx[s] EXCEPT !.at = place, !.done = n, !.users = refs] \in Transaction
    BY <1>2 DEF Transaction, Refs
  <2> QED
    BY <1>7, <2>1, <2>2
<1>9. tx' = [tx EXCEPT ![s] = StoresUser(s)]
  BY <1>1 DEF StoreUser, StoresUser, Credited
<1> QED
  BY <1>1, <1>2, <1>8, <1>9, OneChanges DEF Becomes

(* What a transaction leaves. *)
LEMMA AfterType ==
    ASSUME TypeOK, NEW s \in Busy
    PROVE  TasksAfter(s) \in Rows /\ UsersAfter(s) \in Refs
<1>1. tx[s].tasks \in Rows /\ tx[s].users \in Refs /\ tasks \in Rows /\ users \in Refs
  BY BusyType DEF TypeOK, Rows, Refs
<1> QED
  BY <1>1 DEF TasksAfter, UsersAfter, Mine, MyUser, Rows, Refs

(* The tasks of a date, and of a user, are finitely many. *)
LEMMA SomeTasks ==
    ASSUME NEW S \in SUBSET Tasks
    PROVE  IsFiniteSet(S) /\ Cardinality(S) \in Nat
BY UsageAssumption, FS_Subset, FS_CardinalityType

(* The amounts of rows, and their sum. *)
LEMMA AmountsType ==
    ASSUME NEW rows \in Rows, NEW S \in SUBSET {t \in Tasks : rows[t] # None}
    PROVE  /\ [t \in S |-> rows[t].amount] \in [S -> Nat]
           /\ SumFunction([t \in S |-> rows[t].amount]) \in Nat
<1>1. \A t \in S : rows[t] \in TaskRow
  BY DEF Rows
<1>2. [t \in S |-> rows[t].amount] \in [S -> Nat]
  BY <1>1 DEF TaskRow
<1>3. IsFiniteSet(S)
  BY SomeTasks
<1> QED
  BY <1>2, <1>3, SumType

(* The totals of a date are a row. *)
LEMMA SumsType ==
    ASSUME NEW rows \in Rows, NEW refs \in Refs, NEW d
    PROVE  Sums(rows, refs, d) \in DailyRow
<1> DEFINE S == OfDate(rows, d)
<1>1. S \subseteq {t \in Tasks : rows[t] # None}
  BY DEF OfDate
<1>2. /\ Cardinality(S) \in Nat
      /\ Cardinality({t \in S : rows[t].status = "completed"}) \in Nat
  BY <1>1, SomeTasks
<1>3. Cardinality({rows[t].user : t \in S}) \in Nat
  <2>1. \A t \in S : rows[t] \in TaskRow
    BY <1>1 DEF Rows
  <2>2. \A t \in S : rows[t].user \in Users
    BY <2>1 DEF TaskRow
  <2>3. {rows[t].user : t \in S} \subseteq Users
    BY <2>2
  <2> QED
    BY <2>3, UsageAssumption, FS_Subset, FS_CardinalityType
<1>4. Cardinality({u \in Users : refs[u] # None /\ refs[u].seen = d}) \in Nat
  BY UsageAssumption, FS_Subset, FS_CardinalityType
<1>5. SumFunction([t \in S |-> rows[t].amount]) \in Nat
  BY <1>1, AmountsType
<1> HIDE DEF S
<1> QED
  BY <1>2, <1>3, <1>4, <1>5 DEF Sums, DailyRow, S

(* The commit, or the rollback. *)
Commits(s) ==
    /\ tasks' = TasksAfter(s) /\ users' = UsersAfter(s)
    /\ counted' = counted \cup {tx[s].batch}
    /\ daily' = [d \in Dates |->
           IF d \in AffectedDates(s) THEN Sums(TasksAfter(s), UsersAfter(s), d) ELSE daily[d]]
    /\ Ends(s, TRUE)

(* The last step commits the batch, or rolls it back. *)
LEMMA FinishStep ==
    ASSUME TypeOK, NEW s, Finish(s)
    PROVE  /\ s \in Busy /\ tx[s].at = "daily" /\ Blockers(s) = {}
           /\ Commits(s) \/ (UNCHANGED tables /\ Ends(s, FALSE))
<1>1. s \in Busy /\ tx[s].at = "daily" /\ Blockers(s) = {}
  BY DEF Finish, At
<1>2. CASE \E d \in AffectedDates(s) : SumsNull(TasksAfter(s), d)
  BY <1>1, <1>2, AnsweredEnds DEF Finish
<1>3. CASE ~\E d \in AffectedDates(s) : SumsNull(TasksAfter(s), d)
  BY <1>1, <1>3, AnsweredEnds DEF Finish, Commits
<1> QED
  BY <1>1, <1>2, <1>3

(* What frees sessions: an answer that arrives or is given up. *)
Frees ==
    /\ tx' \in [Sessions -> Transaction \cup {None}]
    /\ \A s \in Sessions : tx'[s] = tx[s] \/ tx'[s] = None
    /\ UNCHANGED tables

(* An answer that arrives frees its session. *)
LEMMA ReceiveStep ==
    ASSUME TypeOK, NEW s, Receive(s)
    PROVE  s \in Busy /\ tx[s].at = "answering" /\ Frees
<1>1. s \in Busy /\ tx[s].at = "answering" /\ s \in Sessions
  BY BusyType DEF Receive, At
<1>2. tx' = [tx EXCEPT ![s] = None] /\ UNCHANGED tables
  BY DEF Receive
<1> QED
  BY <1>1, <1>2, OneChanges DEF Frees

(* A client that gives up frees the session of its answer. *)
LEMMA GiveUpStep == ASSUME TypeOK, GiveUp PROVE Frees
BY DEF GiveUp, Frees, TypeOK

(* A failure, whether InnoDB's or the connection's. *)
LEMMA FailStep ==
    ASSUME TypeOK, NEW s, Victim(s) \/ Fail(s)
    PROVE  s \in Busy /\ Ends(s, FALSE) /\ UNCHANGED tables
<1>1. s \in Busy
  BY DEF Victim, Fail
<1>2. tx' = Answered(s, FALSE) /\ UNCHANGED tables
  BY DEF Victim, Fail
<1> QED
  BY <1>1, <1>2, AnsweredEnds

(* Every step, as what it does to the sessions and the tables. *)
LEMMA Steps ==
    ASSUME TypeOK, [Next]_vars
    PROVE  \/ UNCHANGED <<tx, tables>>
           \/ Frees
           \/ \E s \in Sessions : /\ tx[s] = None /\ UNCHANGED tables
                                  /\ \E r \in network : Becomes(s, Begun(r))
           \/ \E s \in Sessions : Claim(s) \/ StoreTask(s) \/ StoreUser(s) \/ Finish(s)
                                  \/ Victim(s) \/ Fail(s)
<1>1. CASE UNCHANGED vars
  BY <1>1 DEF vars, tables
<1>2. CASE (\E b \in Batches : Send(b)) \/ Purge \/ Tick
  BY <1>2 DEF Send, Purge, Tick, tables
<1>3. CASE GiveUp
  BY <1>3, GiveUpStep
<1>4. ASSUME NEW s \in Sessions, Receive(s) PROVE Frees
  BY <1>4, ReceiveStep
<1>5. ASSUME NEW s \in Sessions, NEW r \in network, Arrive(s, r)
      PROVE  \/ UNCHANGED <<tx, tables>>
             \/ (tx[s] = None /\ UNCHANGED tables /\ Becomes(s, Begun(r)))
  <2>1. tx[s] = None /\ UNCHANGED tables /\ (UNCHANGED tx \/ tx' = [tx EXCEPT ![s] = Begun(r)])
    BY <1>5 DEF Arrive, tables
  <2> QED
    BY <2>1, BeginStep
<1>6. ASSUME NEW s \in Sessions, NEW r \in network, ArriveAgain(s, r) \/ ArriveUnguarded(s, r)
      PROVE  tx[s] = None /\ UNCHANGED tables /\ Becomes(s, Begun(r))
  <2>1. tx[s] = None /\ UNCHANGED tables /\ tx' = [tx EXCEPT ![s] = Begun(r)]
    BY <1>6 DEF ArriveAgain, ArriveUnguarded, tables
  <2> QED
    BY <2>1, BeginStep
<1>7. ASSUME NEW s \in Sessions, Serve(s) \/ Fail(s)
      PROVE  Claim(s) \/ StoreTask(s) \/ StoreUser(s) \/ Finish(s) \/ Victim(s) \/ Fail(s)
  BY <1>7 DEF Serve
<1>8. CASE \E s \in Sessions :
             \/ Serve(s) \/ Fail(s) \/ Receive(s)
             \/ \E r \in network : Arrive(s, r) \/ ArriveAgain(s, r) \/ ArriveUnguarded(s, r)
  <2>1. PICK s \in Sessions :
             \/ Serve(s) \/ Fail(s) \/ Receive(s)
             \/ \E r \in network : Arrive(s, r) \/ ArriveAgain(s, r) \/ ArriveUnguarded(s, r)
    BY <1>8
  <2>2. CASE Serve(s) \/ Fail(s)
    BY <2>2, <1>7
  <2>3. CASE Receive(s)
    BY <2>3, <1>4
  <2>4. ASSUME NEW r \in network, Arrive(s, r) \/ ArriveAgain(s, r) \/ ArriveUnguarded(s, r)
        PROVE  \/ UNCHANGED <<tx, tables>>
               \/ (tx[s] = None /\ UNCHANGED tables /\ Becomes(s, Begun(r)))
    BY <2>4, <1>5, <1>6
  <2> QED
    BY <2>1, <2>2, <2>3, <2>4
<1> QED
  BY <1>1, <1>2, <1>3, <1>8 DEF Next

(* Every step, as what it does to the requests. *)
Delivers(r) ==
    /\ r \in network /\ network' \subseteq network
    /\ Admit(r) \/ Refuse(r) \/ AdmitUnguarded(r)

(* Nothing else happens to requests. *)
LEMMA RequestSteps ==
    ASSUME [Next]_vars
    PROVE  \/ UNCHANGED requestVars
           \/ \E n \in Nonces, b \in Batches : Sign(n, b)
           \/ \E r \in network : Delivers(r)
           \/ PurgeNonces
           \/ RequestTick
<1>1. CASE UNCHANGED vars
  BY <1>1 DEF vars
<1>2. CASE \E b \in Batches : Send(b)
  BY <1>2 DEF Send
<1>3. CASE GiveUp
  BY <1>3 DEF GiveUp
<1>4. CASE Purge \/ Tick
  BY <1>4 DEF Purge, Tick
<1>5. ASSUME NEW s \in Sessions, Serve(s) \/ Fail(s) \/ Receive(s) PROVE UNCHANGED requestVars
  BY <1>5 DEF Serve, Claim, StoreTask, StoreUser, Finish, Victim, Fail, Receive
<1>6. ASSUME NEW s \in Sessions, NEW r \in network,
             Arrive(s, r) \/ ArriveAgain(s, r) \/ ArriveUnguarded(s, r)
      PROVE  Delivers(r)
  BY <1>6 DEF Arrive, ArriveAgain, ArriveUnguarded, Delivers
<1>7. CASE \E s \in Sessions :
             \/ Serve(s) \/ Fail(s) \/ Receive(s)
             \/ \E r \in network : Arrive(s, r) \/ ArriveAgain(s, r) \/ ArriveUnguarded(s, r)
  BY <1>7, <1>5, <1>6
<1> QED
  BY <1>1, <1>2, <1>3, <1>4, <1>7 DEF Next

(* The requests keep their type. *)
LEMMA RequestTypeStep ==
    ASSUME TypeOK, [Next]_vars PROVE RequestTypeOK(Batches)'
<1> USE DEF RequestTypeOK
<1>0. /\ RequestTypeOK(Batches)
      /\ now \in Int /\ offset \in Int /\ NonceTtl \in Nat /\ LastTime \in Nat /\ now \in Nat
  BY RequestAssumption DEF TypeOK
<1>1. CASE UNCHANGED requestVars
  BY <1>0, <1>1 DEF requestVars
<1>2. ASSUME NEW n \in Nonces, NEW b \in Batches, Sign(n, b) PROVE RequestTypeOK(Batches)'
  <2>1. [nonce |-> n, stamp |-> now + offset, body |-> b] \in Message(Batches)
    BY <1>0 DEF Message
  <2>2. nonces' \in [Nonces -> Nat \cup {None}] /\ admitted' \in [Nonces -> Nat]
    BY <1>0, <1>2 DEF Sign
  <2> QED
    BY <1>0, <1>2, <2>1, <2>2 DEF Sign
<1>3. ASSUME NEW r \in network, Delivers(r) PROVE RequestTypeOK(Batches)'
  <2>1. r.nonce \in Nonces /\ now + NonceTtl \in Nat /\ admitted[r.nonce] + 1 \in Nat
    BY <1>0 DEF Message
  <2>2. nonces' \in [Nonces -> Nat \cup {None}]
    BY <1>0, <1>3, <2>1 DEF Delivers, Admit, Refuse, AdmitUnguarded
  <2>3. admitted' \in [Nonces -> Nat]
    BY <1>0, <1>3, <2>1 DEF Delivers, Admit, Refuse, AdmitUnguarded
  <2>4. now' = now /\ offset' = offset /\ unguarded' \subseteq Nonces
    BY <1>0, <1>3, <2>1 DEF Delivers, Admit, Refuse, AdmitUnguarded
  <2> QED
    BY <1>0, <1>3, <2>2, <2>3, <2>4 DEF Delivers
<1>4. CASE PurgeNonces
  BY <1>0, <1>4 DEF PurgeNonces
<1>5. CASE RequestTick
  BY <1>0, <1>5 DEF RequestTick
<1> QED
  BY <1>1, <1>2, <1>3, <1>4, <1>5, RequestSteps

(* The sessions keep their type. *)
LEMMA SessionsTypeStep ==
    ASSUME TypeOK, Placed, [Next]_vars PROVE tx' \in [Sessions -> Transaction \cup {None}]
<1>1. CASE UNCHANGED <<tx, tables>>
  BY <1>1 DEF TypeOK
<1>2. CASE Frees
  BY <1>2 DEF Frees
<1>3. ASSUME NEW s \in Sessions, NEW r \in network, Becomes(s, Begun(r))
      PROVE  tx' \in [Sessions -> Transaction \cup {None}]
  BY <1>3 DEF Becomes
<1>4. ASSUME NEW s \in Sessions, Claim(s) PROVE tx' \in [Sessions -> Transaction \cup {None}]
  BY <1>4, ClaimStep DEF Becomes, Ends
<1>5. ASSUME NEW s \in Sessions, StoreTask(s) \/ StoreUser(s)
      PROVE  tx' \in [Sessions -> Transaction \cup {None}]
  BY <1>5, StoreTaskStep, StoreUserStep DEF Becomes
<1>6. ASSUME NEW s \in Sessions, Finish(s) \/ Victim(s) \/ Fail(s)
      PROVE  tx' \in [Sessions -> Transaction \cup {None}]
  BY <1>6, FinishStep, FailStep DEF Commits, Ends
<1> QED
  BY <1>1, <1>2, <1>3, <1>4, <1>5, <1>6, Steps

(* So do the tables: only a commit writes them. *)
LEMMA TablesStep ==
    ASSUME TypeOK, Placed, [Next]_vars
    PROVE  UNCHANGED tables \/ \E s \in Sessions : Finish(s) /\ Commits(s)
<1>1. ASSUME NEW s \in Sessions, Claim(s) \/ StoreTask(s) \/ StoreUser(s) PROVE UNCHANGED tables
  BY <1>1 DEF Claim, StoreTask, StoreUser
<1>2. ASSUME NEW s \in Sessions, Victim(s) \/ Fail(s) PROVE UNCHANGED tables
  BY <1>2, FailStep
<1>3. ASSUME NEW s \in Sessions, Finish(s) PROVE UNCHANGED tables \/ Commits(s)
  BY <1>3, FinishStep
<1>4. Frees => UNCHANGED tables
  BY DEF Frees
<1>5. UNCHANGED <<tx, tables>> => UNCHANGED tables
  OBVIOUS
<1> QED
  BY <1>1, <1>2, <1>3, <1>4, <1>5, Steps

(* The tables keep their type. *)
LEMMA TablesTypeStep ==
    ASSUME TypeOK, Placed, [Next]_vars
    PROVE  /\ tasks' \in Rows /\ users' \in Refs /\ counted' \subseteq Batches
           /\ daily' \in [Dates -> DailyRow \cup {None}]
<1>1. CASE UNCHANGED tables
  BY <1>1 DEF TypeOK, tables, Rows, Refs
<1>2. ASSUME NEW s \in Sessions, Finish(s), Commits(s)
      PROVE  /\ tasks' \in Rows /\ users' \in Refs /\ counted' \subseteq Batches
             /\ daily' \in [Dates -> DailyRow \cup {None}]
  <2>1. s \in Busy /\ tx[s].batch \in Batches
    BY <1>2, FinishStep, BusyType
  <2>2. TasksAfter(s) \in Rows /\ UsersAfter(s) \in Refs
    BY <2>1, AfterType
  <2>3. PICK sums : sums = [d \in Dates |-> Sums(TasksAfter(s), UsersAfter(s), d)]
    OBVIOUS
  <2>4. sums \in [Dates -> DailyRow]
    BY <2>2, <2>3, SumsType
  <2>5. daily' = [d \in Dates |-> IF d \in AffectedDates(s) THEN sums[d] ELSE daily[d]]
    BY <1>2, <2>3 DEF Commits
  <2>6. daily \in [Dates -> DailyRow \cup {None}]
    BY DEF TypeOK
  <2>7. daily' \in [Dates -> DailyRow \cup {None}]
    BY <2>4, <2>5, <2>6
  <2> QED
    BY <1>2, <2>1, <2>2, <2>7 DEF Commits, TypeOK
<1> QED
  BY <1>1, <1>2, TablesStep

(* Every step keeps the types. *)
LEMMA TypeStep == ASSUME TypeOK, Placed, [Next]_vars PROVE TypeOK'
<1>1. outbox' \subseteq Batches
  BY DEF TypeOK, Next, vars, Send, Serve, Claim, StoreTask, StoreUser, Finish, Victim, Fail,
         Receive, Arrive, ArriveAgain, ArriveUnguarded, GiveUp, Purge, Tick, clientVars
<1>2. awaited' \in Nonces \cup {None}
  BY DEF TypeOK, Next, vars, Send, Serve, Claim, StoreTask, StoreUser, Finish, Victim, Fail,
         Receive, Arrive, ArriveAgain, ArriveUnguarded, GiveUp, Purge, Tick, clientVars
<1>3. faults' \in 0..MaxFaults
  <2>1. faults' = faults \/ (faults < MaxFaults /\ faults' = faults + 1)
    BY DEF Next, vars, Send, Serve, Claim, StoreTask, StoreUser, Finish, Victim, Fail, Fault,
           Receive, Arrive, ArriveAgain, ArriveUnguarded, GiveUp, Purge, Tick
  <2> QED
    BY <2>1, UsageAssumption DEF TypeOK
<1> QED
  BY <1>1, <1>2, <1>3, RequestTypeStep, SessionsTypeStep, TablesTypeStep DEF TypeOK, Rows, Refs

-----------------------------------------------------------------------------
(* The places *)

(* A step of one session disturbs its own place only. *)
LEMMA OnePlaced ==
    ASSUME TypeOK, Placed, NEW s \in Sessions, tx' \in [Sessions -> Transaction \cup {None}],
           \A r \in Sessions : r # s => tx'[r] = tx[r], tx'[s] = None \/ InPlace(tx'[s])
    PROVE  Placed'
BY DEF Placed, Busy, InPlace

(* A request that is over is in its place. *)
LEMMA EndsInPlace == ASSUME NEW s, NEW ok, Ends(s, ok) PROVE tx'[s] = None \/ InPlace(tx'[s])
BY DEF Ends, InPlace

(* Every step leaves each session in its place. *)
LEMMA PlacedStep == ASSUME TypeOK, Placed, [Next]_vars PROVE Placed'
<1>1. CASE UNCHANGED <<tx, tables>>
  BY <1>1 DEF Placed, Busy, InPlace
<1>2. CASE Frees
  BY <1>2 DEF Frees, Placed, Busy, InPlace
<1>3. ASSUME NEW s \in Sessions, NEW r \in network, Becomes(s, Begun(r)) PROVE Placed'
  <2>1. InPlace(Begun(r))
    BY BegunType DEF InPlace
  <2> QED
    BY <1>3, <2>1, OnePlaced DEF Becomes
<1>4. ASSUME NEW s \in Sessions, Claim(s) PROVE Placed'
  <2>1. s \in Busy /\ tx[s].at = "claim" /\ InPlace(tx[s]) /\ tx[s] \in Transaction
        /\ tx[s].batch \in Batches
    BY <1>4, ClaimStep, BusyType DEF Placed
  <2>2. CASE Ends(s, TRUE)
    BY <2>2, EndsInPlace, OnePlaced DEF Ends
  <2>3. CASE Becomes(s, Claims(s))
    <3>1. Content[tx[s].batch] # <<>> => 0 < Len(Content[tx[s].batch])
      BY <2>1, ReportType
    <3>2. Content[tx[s].batch] = <<>> => 0 = Len(Content[tx[s].batch])
      OBVIOUS
    <3>3. InPlace(Claims(s))
      BY <2>1, <3>1, <3>2 DEF Claims, InPlace, Transaction
    <3> QED
      BY <2>3, <3>3, OnePlaced DEF Becomes
  <2> QED
    BY <1>4, <2>2, <2>3, ClaimStep
<1>5. ASSUME NEW s \in Sessions, StoreTask(s) PROVE Placed'
  <2>1. s \in Busy /\ tx[s].at = "task" /\ InPlace(tx[s]) /\ tx[s] \in Transaction
    BY <1>5, StoreTaskStep, BusyType DEF Placed
  <2>2. InPlace(StoresTask(s))
    BY <2>1 DEF InPlace, StoresTask, Transaction
  <2> QED
    BY <1>5, <2>2, StoreTaskStep, OnePlaced DEF Becomes
<1>6. ASSUME NEW s \in Sessions, StoreUser(s) PROVE Placed'
  <2>1. s \in Busy /\ tx[s].at = "user" /\ InPlace(tx[s]) /\ tx[s] \in Transaction
        /\ tx[s].done \in Nat /\ tx[s].batch \in Batches
    BY <1>6, StoreUserStep, BusyType DEF Placed
  <2>2. StoresUser(s).at = AfterReport(s) /\ StoresUser(s).done = tx[s].done + 1
        /\ StoresUser(s).batch = tx[s].batch
    BY <2>1 DEF StoresUser, Transaction
  <2>3. tx[s].done < Len(Content[tx[s].batch]) /\ Len(Content[tx[s].batch]) \in Nat
    BY <2>1, ReportType DEF InPlace
  <2>4. InPlace(StoresUser(s))
    BY <2>1, <2>2, <2>3 DEF InPlace, AfterReport
  <2> QED
    BY <1>6, <2>4, StoreUserStep, OnePlaced DEF Becomes
<1>7. ASSUME NEW s \in Sessions, Finish(s) \/ Victim(s) \/ Fail(s) PROVE Placed'
  <2>1. Ends(s, TRUE) \/ Ends(s, FALSE)
    BY <1>7, FinishStep, FailStep DEF Commits
  <2> QED
    BY <2>1, EndsInPlace, OnePlaced DEF Ends
<1> QED
  BY <1>1, <1>2, <1>3, <1>4, <1>5, <1>6, <1>7, Steps

-----------------------------------------------------------------------------
(* The requests *)

(* Every step leaves nonces remembered while their stamps are fresh. *)
LEMMA RememberedStep == ASSUME TypeOK, Remembered, [Next]_vars PROVE Remembered'
<1>0. /\ now \in Nat /\ offset \in Int /\ NonceTtl \in Nat /\ SkewTol \in Nat
      /\ SkewTol <= NonceTtl /\ None \notin Int
      /\ \A r \in network : r.nonce \in Nonces /\ r.stamp \in Int
      /\ nonces \in [Nonces -> Nat \cup {None}] /\ admitted \in [Nonces -> Nat]
  BY RequestAssumption DEF TypeOK, RequestTypeOK, Message
<1>1. CASE UNCHANGED requestVars
  BY <1>1 DEF requestVars, Remembered
<1>2. ASSUME NEW n \in Nonces, NEW b \in Batches, Sign(n, b) PROVE Remembered'
  <2> DEFINE q == [nonce |-> n, stamp |-> now + offset, body |-> b]
  <2>1. q.nonce = n /\ q.stamp = now + offset /\ network' = network \cup {q}
        /\ \A r \in network : r.nonce # n
    BY <1>2 DEF Sign, Travelling
  <2>2. /\ now' = now /\ offset' = offset /\ unguarded' = unguarded \ {n}
        /\ \A m \in Nonces \ {n} : nonces'[m] = nonces[m] /\ admitted'[m] = admitted[m]
        /\ nonces'[n] = None /\ admitted'[n] = 0
    BY <1>0, <1>2 DEF Sign
  <2> HIDE DEF q
  <2>3. \A r, p \in network' : r.nonce = p.nonce => r = p
    BY <2>1 DEF Remembered
  <2>4. offset' <= 0 => \A r \in network' : r.stamp <= now'
    BY <1>0, <2>1, <2>2 DEF Remembered
  <2>5. ASSUME NEW m \in Nonces \ unguarded', offset' <= 0
        PROVE  /\ admitted'[m] <= 1
               /\ \A r \in network' : r.nonce = m /\ admitted'[m] = 1 =>
                      \/ (nonces'[m] # None /\ r.stamp + NonceTtl <= nonces'[m])
                      \/ (nonces'[m] = None /\ SkewTol < now' - r.stamp)
    <3>1. CASE m = n
      BY <2>2, <3>1
    <3>2. CASE m # n
      BY <2>1, <2>2, <2>5, <3>2 DEF Remembered
    <3> QED
      BY <3>1, <3>2
  <2> QED
    BY <2>3, <2>4, <2>5 DEF Remembered
<1>3. ASSUME NEW r \in network, Delivers(r) PROVE Remembered'
  <2>1. now' = now /\ offset' = offset /\ network' \subseteq network /\ r.nonce \in Nonces
        /\ r.stamp \in Int
    BY <1>0, <1>3 DEF Delivers, Admit, Refuse, AdmitUnguarded
  <2>2. \A p, q \in network' : p.nonce = q.nonce => p = q
    BY <2>1 DEF Remembered
  <2>3. offset' <= 0 => \A p \in network' : p.stamp <= now'
    BY <2>1 DEF Remembered
  <2>4. ASSUME NEW m \in Nonces \ unguarded', offset' <= 0
        PROVE  /\ admitted'[m] <= 1
               /\ \A p \in network' : p.nonce = m /\ admitted'[m] = 1 =>
                      \/ (nonces'[m] # None /\ p.stamp + NonceTtl <= nonces'[m])
                      \/ (nonces'[m] = None /\ SkewTol < now' - p.stamp)
    <3>1. CASE Admit(r) /\ m = r.nonce
      <4>1. m \in Nonces \ unguarded /\ nonces'[m] = now + NonceTtl /\ nonces[m] = None
            /\ admitted'[m] = admitted[m] + 1 /\ r.stamp <= now
        BY <1>0, <2>1, <2>4, <3>1 DEF Admit, Refused, Remembered
      <4>2. now - r.stamp <= SkewTol
        BY <3>1 DEF Admit, Refused, Fresh
      <4>3. admitted[m] <= 1 /\ (admitted[m] = 1 => SkewTol < now - r.stamp)
        BY <2>1, <2>4, <3>1, <4>1 DEF Remembered
      <4>4. admitted[m] = 0
        BY <1>0, <2>1, <4>2, <4>3
      <4>5. \A p \in network' : p.nonce = m => p = r
        BY <2>1, <3>1 DEF Remembered
      <4>6. nonces'[m] # None
        BY <1>0, <4>1
      <4> QED
        BY <1>0, <4>1, <4>4, <4>5, <4>6
    <3>2. CASE Refuse(r) \/ (~Admit(r) /\ AdmitUnguarded(r)) \/ m # r.nonce
      <4>1. m \in Nonces \ unguarded /\ nonces'[m] = nonces[m] /\ admitted'[m] = admitted[m]
        BY <1>0, <1>3, <2>1, <2>4, <3>2 DEF Delivers, Admit, Refuse, AdmitUnguarded
      <4> QED
        BY <2>1, <2>4, <4>1 DEF Remembered
    <3> QED
      BY <1>3, <3>1, <3>2 DEF Delivers
  <2> QED
    BY <2>2, <2>3, <2>4 DEF Remembered
<1>4. CASE PurgeNonces
  <2>1. now' = now /\ offset' = offset /\ network' = network /\ admitted' = admitted
        /\ unguarded' = unguarded
    BY <1>4 DEF PurgeNonces
  <2>2. \A n \in Nonces : nonces'[n] = IF nonces[n] # None /\ nonces[n] < now THEN None
                                                                         ELSE nonces[n]
    BY <1>4 DEF PurgeNonces
  <2>3. ASSUME NEW m \in Nonces \ unguarded, offset <= 0, NEW p \in network,
               p.nonce = m, admitted[m] = 1
        PROVE  \/ (nonces'[m] # None /\ p.stamp + NonceTtl <= nonces'[m])
               \/ (nonces'[m] = None /\ SkewTol < now - p.stamp)
    <3>1. \/ (nonces[m] # None /\ p.stamp + NonceTtl <= nonces[m])
          \/ (nonces[m] = None /\ SkewTol < now - p.stamp)
      BY <2>3 DEF Remembered
    <3>2. ASSUME nonces[m] # None, p.stamp + NonceTtl <= nonces[m], nonces[m] < now
          PROVE  SkewTol < now - p.stamp
      <4>1. nonces[m] \in Int /\ p.stamp \in Int
        BY <1>0, <3>2
      <4> QED
        BY <1>0, <3>2, <4>1
    <3> QED
      BY <2>2, <3>1, <3>2
  <2> QED
    BY <2>1, <2>3 DEF Remembered
<1>5. CASE RequestTick
  <2>1. now' = now + 1 /\ UNCHANGED <<offset, network, nonces, admitted, unguarded>>
    BY <1>5 DEF RequestTick
  <2>2. offset' <= 0 => \A r \in network' : r.stamp <= now'
    BY <1>0, <2>1 DEF Remembered
  <2>3. \A r \in network : SkewTol < now - r.stamp => SkewTol < now' - r.stamp
    BY <1>0, <2>1
  <2> QED
    BY <2>1, <2>2, <2>3 DEF Remembered
<1> QED
  BY <1>1, <1>2, <1>3, <1>4, <1>5, RequestSteps

-----------------------------------------------------------------------------
(* The locks *)

(* What is apart from the others keeps them apart. *)
LEMMA OneApart ==
    ASSUME TypeOK, TypeOK', Locked, NEW s \in Sessions, NEW x, tx'[s] = x,
           \A r \in Sessions : r # s => tx'[r] = tx[r],
           \A r \in Sessions : r # s => Apart(x, tx[r]),
           \A r \in Sessions : r # s /\ PastIn(tx[r]) => tx[r].batch \notin counted',
           PastIn(x) => x.batch \notin counted'
    PROVE  Locked'
<1>1. \A p, q \in Sessions : p # q => Apart(tx[p], tx[q])
  BY DEF Locked
<1>2. \A r \in Sessions : r # s => Apart(tx[r], x)
  BY DEF Apart
<1>3. \A p, q \in Sessions : p # q => Apart(tx'[p], tx'[q])
  BY <1>1, <1>2
<1>4. \A r \in Sessions : PastIn(tx'[r]) => tx'[r].batch \notin counted'
  OBVIOUS
<1> QED
  BY <1>3, <1>4 DEF Locked

(* Who holds nothing and counts nothing is apart from everyone. *)
LEMMA EndsApart ==
    ASSUME TypeOK, NEW s \in Sessions, NEW ok, Ends(s, ok)
    PROVE  (\A y : Apart(tx'[s], y)) /\ ~PastIn(tx'[s])
<1>1. \A t \in Tasks : ~HoldsTask(tx'[s], t)
  BY DEF Ends, HoldsTask, NoTasks
<1>2. \A u \in Users : ~HoldsUser(tx'[s], u)
  BY DEF Ends, HoldsUser, NoUsers
<1>3. ~PastIn(tx'[s])
  BY DEF Ends, PastIn
<1> QED
  BY <1>1, <1>2, <1>3 DEF Apart

(* Every step keeps the locks apart. *)
LEMMA LockedStep ==
    ASSUME TypeOK, TypeOK', Placed, Locked, [Next]_vars PROVE Locked'
<1>0. /\ \A p, q \in Sessions : p # q => Apart(tx[p], tx[q])
      /\ \A r \in Sessions : PastIn(tx[r]) => tx[r].batch \notin counted
  BY DEF Locked
<1>1. CASE UNCHANGED <<tx, tables>>
  BY <1>1 DEF Locked, tables
<1>2. CASE Frees
  BY <1>0, <1>2 DEF Frees, Locked, Apart, HoldsTask, HoldsUser, PastIn, tables
<1>3. ASSUME NEW s \in Sessions, NEW r \in network, Becomes(s, Begun(r)), UNCHANGED tables
      PROVE  Locked'
  <2>1. PICK x : x = Begun(r)
    OBVIOUS
  <2>2. x.tasks = NoTasks /\ x.users = NoUsers /\ x.at = "claim"
    BY <2>1, BegunType
  <2>3. (\A y : Apart(x, y)) /\ ~PastIn(x)
    BY <2>2 DEF Apart, HoldsTask, HoldsUser, PastIn, NoTasks, NoUsers
  <2>4. tx'[s] = x /\ (\A p \in Sessions : p # s => tx'[p] = tx[p]) /\ counted' = counted
    BY <1>3, <2>1 DEF Becomes, tables
  <2> QED
    BY <1>0, <2>3, <2>4, OneApart
<1>4. ASSUME NEW s \in Sessions, Ends(s, TRUE) \/ Ends(s, FALSE),
             counted' = counted \/ (PastIn(tx[s]) /\ counted' = counted \cup {tx[s].batch})
      PROVE  Locked'
  <2>1. PICK x : x = tx'[s]
    OBVIOUS
  <2>2. (\A y : Apart(x, y)) /\ ~PastIn(x)
    BY <1>4, <2>1, EndsApart
  <2>3. \A p \in Sessions : p # s => tx'[p] = tx[p]
    BY <1>4 DEF Ends
  <2>4. \A p \in Sessions : p # s /\ PastIn(tx[p]) => tx[p].batch \notin counted'
    BY <1>0, <1>4 DEF Apart
  <2> QED
    BY <2>1, <2>2, <2>3, <2>4, OneApart
<1>5. ASSUME NEW s \in Sessions, Claim(s) PROVE Locked'
  <2>1. s \in Busy /\ tx[s].at = "claim" /\ counted' = counted /\ tx[s] \in Transaction
    BY <1>5, ClaimStep, BusyType DEF Claim, tables
  <2>2. CASE Ends(s, TRUE)
    BY <1>4, <2>1, <2>2
  <2>3. CASE tx[s].batch \notin counted /\ Becomes(s, Claims(s))
    <3>1. PICK x : x = Claims(s)
      OBVIOUS
    <3>2. x.batch = tx[s].batch /\ x.tasks = NoTasks /\ x.users = NoUsers
      BY <2>1, <3>1 DEF Claims, Transaction, Placed, InPlace
    <3>3. \A r \in Sessions : r # s /\ PastIn(tx[r]) => tx[r].batch # tx[s].batch
      <4>1. Blockers(s) = {} /\ At(s, "claim")
        BY <1>5 DEF Claim
      <4> QED
        BY <4>1 DEF Blockers, PastIn, Busy, At
    <3>4. \A r \in Sessions : r # s => Apart(x, tx[r])
      BY <3>2, <3>3 DEF Apart, HoldsTask, HoldsUser, NoTasks, NoUsers
    <3>5. tx'[s] = x /\ \A p \in Sessions : p # s => tx'[p] = tx[p]
      BY <2>3, <3>1 DEF Becomes
    <3> QED
      BY <1>0, <2>1, <2>3, <3>2, <3>4, <3>5, OneApart
  <2> QED
    BY <1>5, <2>2, <2>3, ClaimStep
<1>6. ASSUME NEW s \in Sessions, StoreTask(s) PROVE Locked'
  <2>1. s \in Busy /\ tx[s].at = "task" /\ counted' = counted /\ tx[s] \in Transaction
        /\ tx[s].tasks \in Rows /\ Blockers(s) = {} /\ Present(s).task \in Tasks
    BY <1>6, StoreTaskStep, BusyType, PresentType DEF StoreTask, tables
  <2>2. PICK x : x = StoresTask(s)
    OBVIOUS
  <2>3. x.batch = tx[s].batch /\ x.users = tx[s].users
        /\ \A t \in Tasks : t # Present(s).task => x.tasks[t] = tx[s].tasks[t]
    BY <2>1, <2>2 DEF StoresTask, Transaction, Rows
  <2>4. \A r \in Sessions : r # s => ~HoldsTask(tx[r], Present(s).task)
    BY <2>1 DEF Blockers, HoldsTask, Busy, At
  <2>5. PastIn(tx[s]) /\ tx[s] # None
    BY <2>1 DEF PastIn, Busy
  <2>6. \A r \in Sessions : r # s => Apart(x, tx[r])
    BY <1>0, <2>3, <2>4, <2>5 DEF Apart, HoldsTask, HoldsUser, PastIn
  <2>7. tx'[s] = x /\ \A p \in Sessions : p # s => tx'[p] = tx[p]
    BY <1>6, <2>2, StoreTaskStep DEF Becomes
  <2> QED
    BY <1>0, <2>1, <2>3, <2>5, <2>6, <2>7, OneApart
<1>7. ASSUME NEW s \in Sessions, StoreUser(s) PROVE Locked'
  <2>1. s \in Busy /\ tx[s].at = "user" /\ counted' = counted /\ tx[s] \in Transaction
        /\ tx[s].users \in Refs /\ Blockers(s) = {} /\ Present(s).user \in Users
    BY <1>7, StoreUserStep, BusyType, PresentType DEF StoreUser, tables
  <2>2. PICK x : x = StoresUser(s)
    OBVIOUS
  <2>3. x.batch = tx[s].batch /\ x.tasks = tx[s].tasks
        /\ \A u \in Users : u # Present(s).user => x.users[u] = tx[s].users[u]
    BY <2>1, <2>2 DEF StoresUser, Transaction, Refs
  <2>4. \A r \in Sessions : r # s => ~HoldsUser(tx[r], Present(s).user)
    BY <2>1 DEF Blockers, HoldsUser, Busy, At
  <2>5. PastIn(tx[s]) /\ tx[s] # None
    BY <2>1 DEF PastIn, Busy
  <2>6. \A r \in Sessions : r # s => Apart(x, tx[r])
    BY <1>0, <2>3, <2>4, <2>5 DEF Apart, HoldsTask, HoldsUser, PastIn
  <2>7. tx'[s] = x /\ \A p \in Sessions : p # s => tx'[p] = tx[p]
    BY <1>7, <2>2, StoreUserStep DEF Becomes
  <2> QED
    BY <1>0, <2>1, <2>3, <2>5, <2>6, <2>7, OneApart
<1>8. ASSUME NEW s \in Sessions, Finish(s) PROVE Locked'
  <2>1. PastIn(tx[s])
    BY <1>8, FinishStep DEF PastIn, Busy
  <2> QED
    BY <1>4, <1>8, <2>1, FinishStep DEF Commits, tables
<1>9. ASSUME NEW s \in Sessions, Victim(s) \/ Fail(s) PROVE Locked'
  BY <1>4, <1>9, FailStep DEF tables
<1> QED
  BY <1>1, <1>2, <1>3, <1>5, <1>6, <1>7, <1>8, <1>9, Steps

-----------------------------------------------------------------------------
(* What is confirmed *)

(* The outbox changes when an answer arrives, and only then. *)
LEMMA OutboxStep ==
    ASSUME [Next]_vars
    PROVE  \/ outbox' = outbox
           \/ \E s \in Busy : /\ tx[s].at = "answering" /\ tx[s].ok
                              /\ outbox' = outbox \ {tx[s].batch} /\ Receive(s)
<1>1. ASSUME NEW s \in Sessions, Receive(s), outbox' # outbox
      PROVE  s \in Busy /\ tx[s].at = "answering" /\ tx[s].ok /\ outbox' = outbox \ {tx[s].batch}
  BY <1>1 DEF Receive, At
<1> QED
  BY <1>1 DEF Next, vars, Send, Serve, Claim, StoreTask, StoreUser, Finish, Victim, Fail,
              Arrive, ArriveAgain, ArriveUnguarded, GiveUp, Purge, Tick, clientVars

(* Every step confirms what was counted, and nothing else. *)
LEMMA ConfirmedStep == ASSUME TypeOK, Placed, Confirmed, [Next]_vars PROVE Confirmed'
<1> DEFINE Answers(x) == x # None /\ x.at = "answering" /\ x.ok => x.batch \in counted'
<1>1. counted \subseteq counted'
  BY TablesStep DEF Commits, tables
<1>2. \A b \in Batches : b \notin outbox' => b \in counted'
  BY <1>1, OutboxStep DEF Confirmed
<1>3. \A s \in Sessions : Answers(tx[s])
  BY <1>1 DEF Confirmed, Busy
<1>4. ASSUME NEW s \in Sessions, \A r \in Sessions : r # s => tx'[r] = tx[r], Answers(tx'[s])
      PROVE  \A r \in Sessions : Answers(tx'[r])
  BY <1>3, <1>4
<1>5. \A s \in Sessions : Answers(tx'[s])
  <2>1. CASE UNCHANGED <<tx, tables>>
    BY <1>3, <2>1
  <2>2. CASE Frees
    BY <1>3, <2>2 DEF Frees
  <2>3. ASSUME NEW s \in Sessions, NEW r \in network, Becomes(s, Begun(r))
        PROVE  \A q \in Sessions : Answers(tx'[q])
    <3>1. tx'[s].at = "claim"
      BY <2>3, BegunType DEF Becomes
    <3> QED
      BY <1>4, <2>3, <3>1 DEF Becomes
  <2>4. ASSUME NEW s \in Sessions, Claim(s) PROVE \A q \in Sessions : Answers(tx'[q])
    <3>1. CASE tx[s].batch \in counted /\ Ends(s, TRUE)
      BY <1>1, <1>4, <3>1 DEF Ends
    <3>2. CASE Becomes(s, Claims(s))
      <4>1. s \in Busy /\ tx[s] \in Transaction
        BY <2>4, ClaimStep, BusyType
      <4>2. Claims(s).at # "answering"
        BY <4>1 DEF Claims, Transaction
      <4> QED
        BY <1>4, <3>2, <4>2 DEF Becomes
    <3> QED
      BY <2>4, <3>1, <3>2, ClaimStep
  <2>5. ASSUME NEW s \in Sessions, StoreTask(s) PROVE \A q \in Sessions : Answers(tx'[q])
    <3>1. StoresTask(s).at = "user"
      BY <2>5, StoreTaskStep, BusyType DEF StoresTask, Transaction
    <3> QED
      BY <1>4, <2>5, <3>1, StoreTaskStep DEF Becomes
  <2>6. ASSUME NEW s \in Sessions, StoreUser(s) PROVE \A q \in Sessions : Answers(tx'[q])
    <3>1. StoresUser(s).at # "answering"
      BY <2>6, StoreUserStep, BusyType DEF StoresUser, AfterReport, Transaction
    <3> QED
      BY <1>4, <2>6, <3>1, StoreUserStep DEF Becomes
  <2>7. ASSUME NEW s \in Sessions, Finish(s) \/ Victim(s) \/ Fail(s)
        PROVE  \A q \in Sessions : Answers(tx'[q])
    <3>1. (tx[s].batch \in counted' /\ Ends(s, TRUE)) \/ Ends(s, FALSE)
      BY <2>7, FinishStep, FailStep DEF Commits
    <3> QED
      BY <1>4, <3>1 DEF Ends
  <2> QED
    BY <2>1, <2>2, <2>3, <2>4, <2>5, <2>6, <2>7, Steps
<1> QED
  BY <1>2, <1>5 DEF Confirmed, Busy

-----------------------------------------------------------------------------
(* What the rows in hand add up to *)

(* A step of one transaction disturbs its own rows only. *)
LEMMA OneAdded ==
    ASSUME TypeOK, Added, NEW s \in Sessions, \A r \in Sessions : r # s => tx'[r] = tx[r],
           tasks' = tasks, AddedTo(tx'[s], tasks)
    PROVE  Added'
BY DEF Added

(* The amount of a task, which is 0 where there is no row. *)
LEMMA AmtType == ASSUME TypeOK, NEW t \in Tasks PROVE Amt(tasks[t]) \in Nat
BY DEF TypeOK, TaskRow, Amt

(* Every step keeps what the rows in hand add up to. *)
LEMMA AddedStep == ASSUME TypeOK, Placed, Locked, Added, [Next]_vars PROVE Added'
<1>1. CASE UNCHANGED <<tx, tables>>
  BY <1>1 DEF Added, tables
<1>2. CASE Frees
  <2>1. \A s \in Sessions : AddedTo(tx'[s], tasks')
    BY <1>2 DEF Added, Frees, AddedTo, PastIn, tables
  <2> QED
    BY <2>1 DEF Added
<1>3. ASSUME NEW s \in Sessions, NEW r \in network, Becomes(s, Begun(r)), UNCHANGED tables
      PROVE  Added'
  <2>1. tx'[s].at = "claim"
    BY <1>3, BegunType DEF Becomes
  <2> QED
    BY <1>3, <2>1, OneAdded DEF Becomes, AddedTo, PastIn, tables
<1>4. ASSUME NEW s \in Sessions, Claim(s) PROVE Added'
  <2>1. s \in Busy /\ tx[s].at = "claim" /\ tasks' = tasks /\ tx[s] \in Transaction
        /\ tx[s].batch \in Batches
    BY <1>4, ClaimStep, BusyType DEF Claim, tables
  <2>2. CASE Ends(s, TRUE)
    BY <2>1, <2>2, OneAdded DEF Ends, AddedTo, PastIn
  <2>3. CASE Becomes(s, Claims(s))
    <3>1. PICK x : x = Claims(s)
      OBVIOUS
    <3>2. x.batch = tx[s].batch /\ x.tasks = NoTasks /\ StoredIn(x) = 0
      BY <2>1, <3>1 DEF Claims, Transaction, Placed, InPlace, StoredIn
    <3>3. \A t \in Tasks : x.tasks[t] = None /\ Part(x.batch, {t}, StoredIn(x)) = 0
      BY <2>1, <3>2, PartType, ReportType DEF NoTasks
    <3>4. AddedTo(x, tasks)
      BY <3>3 DEF AddedTo
    <3> QED
      BY <2>1, <2>3, <3>1, <3>4, OneAdded DEF Becomes
  <2> QED
    BY <1>4, <2>2, <2>3, ClaimStep
<1>5. ASSUME NEW s \in Sessions, StoreTask(s) PROVE Added'
  <2>1. s \in Busy /\ tx[s].at = "task" /\ tasks' = tasks /\ tx[s] \in Transaction
        /\ tx[s].tasks \in Rows /\ tx[s].batch \in Batches /\ tx[s].done \in Nat
    BY <1>5, StoreTaskStep, BusyType DEF StoreTask, tables
  <2>2. /\ Present(s) \in Report /\ Present(s).task \in Tasks /\ Present(s).amount \in Nat
        /\ tx[s].done + 1 \in 1..Len(Content[tx[s].batch])
        /\ Present(s) = Content[tx[s].batch][tx[s].done + 1]
    BY <2>1, PresentType DEF Present
  <2>3. tx[s].done < Len(Content[tx[s].batch]) /\ tx[s].done \in 0..Len(Content[tx[s].batch])
    BY <2>1, <2>2, ReportType
  <2>4. PICK b \in Batches : b = tx[s].batch
    BY <2>1
  <2>5. PICK k \in Nat : k = tx[s].done
    BY <2>1
  <2>6. \A t \in Tasks : /\ Part(b, {t}, k) \in Nat
                         /\ Part(b, {t}, k + 1) = Part(b, {t}, k)
                                + IF Present(s).task = t THEN Present(s).amount ELSE 0
    <3>1. \A t \in Tasks : /\ Part(b, {t}, k) \in Nat
                           /\ Part(b, {t}, k + 1) = Part(b, {t}, k) +
                                 IF Content[b][k + 1].task \in {t} THEN Content[b][k + 1].amount
                                                                  ELSE 0
      BY <2>3, <2>4, <2>5, PartNext, PartType
    <3>2. Content[b][k + 1] = Present(s)
      BY <2>2, <2>4, <2>5
    <3>3. \A t : Present(s).task \in {t} <=> Present(s).task = t
      OBVIOUS
    <3> QED
      BY <3>1, <3>2, <3>3
  <2>7. PICK x : x = StoresTask(s)
    OBVIOUS
  <2>8. PICK row : row = Upserted(Mine(s, Present(s).task), b, Present(s))
    OBVIOUS
  <2>9. /\ x.batch = b /\ StoredIn(x) = k + 1 /\ PastIn(tx[s]) /\ StoredIn(tx[s]) = k
        /\ x.tasks = [tx[s].tasks EXCEPT ![Present(s).task] = row]
    BY <2>1, <2>4, <2>5, <2>7, <2>8 DEF StoresTask, Transaction, StoredIn, PastIn, Busy
  <2>10. \A t \in Tasks :
             IF tx[s].tasks[t] = None THEN Part(b, {t}, k) = 0
             ELSE tx[s].tasks[t].amount = Amt(tasks[t]) + Part(b, {t}, k)
    BY <2>1, <2>4, <2>9 DEF Added, AddedTo
  <2>11. /\ row # None
         /\ row.amount = Amt(Mine(s, Present(s).task)) + Present(s).amount
    <3>1. Mine(s, Present(s).task) \in TaskRow \cup {None}
      BY <2>1, <2>2 DEF Mine, TypeOK, Rows
    <3> QED
      BY <2>2, <2>8, <3>1, UpsertedType
  <2>12. Amt(Mine(s, Present(s).task)) =
             Amt(tasks[Present(s).task]) + Part(b, {Present(s).task}, k)
    <3>1. PICK t \in Tasks : t = Present(s).task
      BY <2>2
    <3>2. Amt(tasks[t]) \in Nat /\ Part(b, {t}, k) \in Nat
      BY <2>6, AmtType
    <3>3. CASE tx[s].tasks[t] = None
      <4>1. Part(b, {t}, k) = 0 /\ Mine(s, t) = tasks[t]
        BY <2>10, <3>3 DEF Mine
      <4> QED
        BY <3>1, <3>2, <4>1
    <3>4. CASE tx[s].tasks[t] # None
      <4>1. Mine(s, t) = tx[s].tasks[t] /\ Amt(Mine(s, t)) = tx[s].tasks[t].amount
        BY <3>4 DEF Mine, Amt
      <4> QED
        BY <2>10, <3>1, <3>4, <4>1
    <3> QED
      BY <3>3, <3>4
  <2>13. ASSUME NEW t \in Tasks
         PROVE  IF x.tasks[t] = None THEN Part(b, {t}, k + 1) = 0
                ELSE x.tasks[t].amount = Amt(tasks[t]) + Part(b, {t}, k + 1)
    <3>0. Amt(tasks[t]) \in Nat /\ Part(b, {t}, k) \in Nat
      BY <2>6, AmtType
    <3>1. CASE t = Present(s).task
      <4>1. x.tasks[t] = row /\ Part(b, {t}, k + 1) = Part(b, {t}, k) + Present(s).amount
        BY <2>1, <2>2, <2>6, <2>9, <3>1 DEF Rows
      <4>2. x.tasks[t] # None
            /\ x.tasks[t].amount = (Amt(tasks[t]) + Part(b, {t}, k)) + Present(s).amount
        BY <2>11, <2>12, <3>1, <4>1
      <4> QED
        BY <2>2, <3>0, <4>1, <4>2
    <3>2. CASE t # Present(s).task
      <4>1. x.tasks[t] = tx[s].tasks[t] /\ Part(b, {t}, k + 1) = Part(b, {t}, k)
        BY <2>1, <2>6, <2>9, <3>0, <3>2 DEF Rows
      <4> QED
        BY <2>10, <4>1
    <3> QED
      BY <3>1, <3>2
  <2>14. AddedTo(x, tasks)
    BY <2>9, <2>13 DEF AddedTo
  <2> QED
    BY <1>5, <2>1, <2>7, <2>14, StoreTaskStep, OneAdded DEF Becomes
<1>6. ASSUME NEW s \in Sessions, StoreUser(s) PROVE Added'
  <2>1. s \in Busy /\ tx[s].at = "user" /\ tasks' = tasks /\ tx[s] \in Transaction
    BY <1>6, StoreUserStep, BusyType DEF StoreUser, tables
  <2>2. PICK x : x = StoresUser(s)
    OBVIOUS
  <2>3. x.batch = tx[s].batch /\ x.tasks = tx[s].tasks /\ StoredIn(x) = StoredIn(tx[s])
    BY <2>1, <2>2 DEF StoresUser, Transaction, StoredIn, AfterReport
  <2>4. PastIn(tx[s]) /\ AddedTo(tx[s], tasks)
    BY <2>1 DEF Added, PastIn, Busy
  <2>5. AddedTo(x, tasks)
    BY <2>3, <2>4 DEF AddedTo
  <2> QED
    BY <1>6, <2>1, <2>2, <2>5, StoreUserStep, OneAdded DEF Becomes
<1>7. ASSUME NEW s \in Sessions, Ends(s, TRUE) \/ Ends(s, FALSE), UNCHANGED tables PROVE Added'
  BY <1>7, OneAdded DEF Ends, AddedTo, PastIn, tables
<1>8. ASSUME NEW s \in Sessions, s \in Busy, tx[s].at = "daily", Commits(s) PROVE Added'
  <2>1. \A r \in Sessions : r # s => tx'[r] = tx[r] /\ AddedTo(tx[r], tasks)
    BY <1>8 DEF Added, Commits, Ends
  <2>2. ASSUME NEW r \in Sessions, r # s, PastIn(tx[r]) PROVE AddedTo(tx[r], tasks')
    <3>1. \A t \in Tasks : tx[r].tasks[t] # None => tasks'[t] = tasks[t]
      BY <1>8, <2>2 DEF Commits, TasksAfter, Mine, Locked, Apart, HoldsTask,
                         Busy, PastIn
    <3> QED
      BY <2>1, <2>2, <3>1 DEF AddedTo
  <2>3. AddedTo(tx'[s], tasks')
    BY <1>8, EndsApart DEF AddedTo, Commits
  <2>4. ASSUME NEW r \in Sessions, ~PastIn(tx[r]) PROVE AddedTo(tx[r], tasks')
    BY <2>4 DEF AddedTo
  <2>5. \A r \in Sessions : AddedTo(tx'[r], tasks')
    BY <2>1, <2>2, <2>3, <2>4
  <2> QED
    BY <2>5 DEF Added
<1>9. ASSUME NEW s \in Sessions, Finish(s) \/ Victim(s) \/ Fail(s) PROVE Added'
  BY <1>7, <1>8, <1>9, FinishStep, FailStep
<1> QED
  BY <1>1, <1>2, <1>3, <1>4, <1>5, <1>6, <1>9, Steps

-----------------------------------------------------------------------------
(* The theorems *)

(* The invariant holds at first. *)
LEMMA SoundInit == ASSUME Init PROVE Sound
<1>1. NoTasks \in Rows /\ NoUsers \in Refs
  BY DEF NoTasks, NoUsers, Rows, Refs
<1>2. RequestTypeOK(Batches)
  BY RequestAssumption DEF Init, RequestInit, RequestTypeOK
<1>3. TypeOK
  BY <1>1, <1>2, UsageAssumption DEF Init, TypeOK, Rows, Refs
<1>4. Busy = {} /\ \A s \in Sessions : tx[s] = None
  BY DEF Init, Busy
<1>5. Remembered
  BY DEF Init, RequestInit, Remembered
<1>6. Placed /\ Locked /\ Confirmed /\ Added
  BY <1>4 DEF Placed, Locked, Apart, HoldsTask, HoldsUser, PastIn, Confirmed, Added, AddedTo,
              Init
<1> QED
  BY <1>3, <1>5, <1>6 DEF Sound

(* The invariant is inductive. *)
LEMMA SoundStep == ASSUME Sound, [Next]_vars PROVE Sound'
<1>1. TypeOK /\ Placed /\ Remembered /\ Locked /\ Confirmed /\ Added
  BY DEF Sound
<1>2. TypeOK'
  BY <1>1, TypeStep
<1>3. Placed' /\ Remembered'
  BY <1>1, PlacedStep, RememberedStep
<1>4. Locked' /\ Confirmed' /\ Added'
  BY <1>1, <1>2, LockedStep, ConfirmedStep, AddedStep
<1> QED
  BY <1>2, <1>3, <1>4 DEF Sound

(* So it always holds. *)
LEMMA AlwaysSound == Spec => []Sound
BY SoundInit, SoundStep, PTL DEF Spec

(* Types (usage.service.ts:60-205, nonce.service.ts:9-40): the tables, the *)
(* requests and the work in progress keep their shape; a transaction never *)
(* stores a report that the batch does not have, and a sum over the tasks  *)
(* of a date is a number.                                                  *)
THEOREM Types == Spec => []TypeOK
<1>1. Sound => TypeOK
  BY DEF Sound
<1> QED
  BY <1>1, AlwaysSound, PTL

(* A request is let in once (nonce.service.ts:6, 16-21): while the clock   *)
(* of the client is not ahead and the table of nonces can be written, no   *)
(* copy of a request is let in after it, however late it arrives, since    *)
(* its nonce outlives its timestamp.                                       *)
THEOREM RequestsAdmittedOnce == Spec => []AdmittedOnce
<1>1. Sound => AdmittedOnce
  BY DEF Sound, Remembered, AdmittedOnce
<1> QED
  BY <1>1, AlwaysSound, PTL

(* A commit adds every report of its batch to the task it is about.        *)
LEMMA CommitCounts ==
    ASSUME Sound, NEW s \in Busy, tx[s].at = "daily", Commits(s), outbox' = outbox
    PROVE  Ledger!Count(tx[s].batch) /\ tx[s].batch \in Batches
<1>1. PICK b \in Batches : b = tx[s].batch
  BY BusyType DEF Sound
<1>2. b \notin counted /\ counted' = counted \cup {b}
  BY <1>1, BusyType DEF Sound, Locked, PastIn, Busy, Commits
<1>3. AddedTo(tx[s], tasks) /\ PastIn(tx[s]) /\ StoredIn(tx[s]) = Len(Content[b])
  BY <1>1, BusyType DEF Added, Sound, PastIn, Busy, StoredIn, Placed, InPlace
<1>4. ASSUME NEW t \in Tasks PROVE Totals'[t] = Totals[t] + Amount(b, t)
  <2>1. Part(b, {t}, StoredIn(tx[s])) = Amount(b, t)
    BY <1>3, PartWhole
  <2>2. /\ Totals[t] = Amt(tasks[t]) /\ Totals'[t] = Amt(tasks'[t])
        /\ Amt(tasks[t]) \in Nat
    BY AmtType DEF Sound, Totals, Amt
  <2>3. tasks'[t] = Mine(s, t)
    BY DEF Commits, TasksAfter
  <2>4. CASE tx[s].tasks[t] = None
    <3>1. Amount(b, t) = 0
      BY <1>1, <1>3, <2>1, <2>4 DEF AddedTo
    <3> QED
      BY <2>2, <2>3, <2>4, <3>1 DEF Mine
  <2>5. CASE tx[s].tasks[t] # None
    <3>1. tx[s].tasks[t].amount = Amt(tasks[t]) + Amount(b, t)
      BY <1>1, <1>3, <2>1, <2>5 DEF AddedTo
    <3>2. Amt(tasks'[t]) = tx[s].tasks[t].amount
      BY <2>3, <2>5 DEF Mine, Amt
    <3> QED
      BY <2>2, <3>1, <3>2
  <2> QED
    BY <2>4, <2>5
<1>5. Totals' = [t \in Tasks |-> Totals[t] + Amount(b, t)]
  <2>1. PICK T : T = Totals'
    OBVIOUS
  <2>2. T = [t \in Tasks |-> T[t]]
    BY <2>1 DEF Totals
  <2>3. \A t \in Tasks : T[t] = Totals[t] + Amount(b, t)
    BY <1>4, <2>1
  <2>4. [t \in Tasks |-> T[t]] = [t \in Tasks |-> Totals[t] + Amount(b, t)]
    BY <2>3
  <2> QED
    BY <2>1, <2>2, <2>4
<1>6. (Batches \ outbox)' = Batches \ outbox
  OBVIOUS
<1> QED
  BY <1>1, <1>2, <1>5, <1>6 DEF Ledger!Count

(* Every step is one of the ledger, or none. *)
LEMMA LedgerStep ==
    ASSUME Sound, [Next]_vars
    PROVE  [\E b \in Batches : Ledger!Count(b) \/ Ledger!Confirm(b)]_(Ledger!ledgerVars)
<1>0. TypeOK /\ Placed /\ Confirmed
  BY DEF Sound
<1>1. ASSUME NEW s \in Sessions, Finish(s), Commits(s)
      PROVE  \E b \in Batches : Ledger!Count(b)
  <2>1. s \in Busy /\ tx[s].at = "daily" /\ outbox' = outbox
    BY <1>0, <1>1, FinishStep DEF Finish, clientVars
  <2> QED
    BY <1>1, <2>1, CommitCounts
<1>2. CASE UNCHANGED tables /\ outbox' = outbox
  <2>1. Totals' = Totals /\ counted' = counted
    BY <1>2 DEF tables, Totals
  <2> QED
    BY <1>2, <2>1 DEF Ledger!ledgerVars
<1>3. ASSUME UNCHANGED tables,
             NEW s \in Busy, tx[s].at = "answering", tx[s].ok, outbox' = outbox \ {tx[s].batch}
      PROVE  \E b \in Batches : Ledger!Confirm(b)
  <2>1. Totals' = Totals /\ counted' = counted
    BY <1>3 DEF tables, Totals
  <2>2. PICK b \in Batches : b = tx[s].batch /\ b \in counted
    BY <1>0, <1>3, BusyType DEF Confirmed
  <2>3. Batches \ outbox' = (Batches \ outbox) \cup {b}
    BY <1>3, <2>2
  <2> QED
    BY <2>1, <2>2, <2>3 DEF Ledger!Confirm
<1>4. UNCHANGED tables \/ \E s \in Sessions : Finish(s) /\ Commits(s)
  BY <1>0, TablesStep
<1> QED
  BY <1>1, <1>2, <1>3, <1>4, OutboxStep

(* Usage counts once (usage.service.ts:24-30, 82-84): ingestion keeps the  *)
(* promise of the ledger.  However often a batch is sent and arrives,      *)
(* whoever dies or waits for whom, a commit counts a batch that was not    *)
(* counted, and each of its reports once; and only a counted batch leaves  *)
(* the outbox.                                                             *)
THEOREM BatchesCountOnce == Spec => CountsOnce
<1>1. Init => Ledger!LedgerInit
  BY DEF Init, Ledger!LedgerInit, Totals, NoTasks
<1>2. Sound /\ [Next]_vars =>
          [\E b \in Batches : Ledger!Count(b) \/ Ledger!Confirm(b)]_(Ledger!ledgerVars)
  BY LedgerStep
<1> QED
  BY <1>1, <1>2, AlwaysSound, PTL DEF Spec, CountsOnce, Ledger!LedgerSpec

-----------------------------------------------------------------------------
(* The totals of dates and users *)

(* A task is always reported for the same user, and for the same date. *)
Steady ==
    \A b, c \in Batches : \A i \in DOMAIN Content[b], j \in DOMAIN Content[c] :
        Content[b][i].task = Content[c][j].task =>
            /\ Content[b][i].user = Content[c][j].user
            /\ StatDate(b, Content[b][i]) = StatDate(c, Content[c][j])

(* The tasks that are reported for a user. *)
Group(u) ==
    {t \in Tasks : \E b \in Batches : \E i \in DOMAIN Content[b] :
                       Content[b][i].task = t /\ Content[b][i].user = u}

(* A row has the user and the date of a report of its task. *)
Reported(row, t) ==
    \E b \in Batches : \E i \in DOMAIN Content[b] :
        /\ Content[b][i].task = t /\ Content[b][i].user = row.user
        /\ StatDate(b, Content[b][i]) = row.date

InBatch(b, t) == \E i \in DOMAIN Content[b] : Content[b][i].task = t

RowsReported(x) ==
    \A t \in Tasks : HoldsTask(x, t) => Reported(x.tasks[t], t) /\ InBatch(x.batch, t)

(* Every row is of a report, and a transaction writes what its batch       *)
(* reports.                                                                *)
AllReported ==
    /\ \A t \in Tasks : tasks[t] # None => Reported(tasks[t], t)
    /\ \A s \in Sessions : RowsReported(tx[s])

(* What a user's row in hand adds up to. *)
CreditedTo(x, refs) ==
    PastIn(x) => \A u \in Users :
        IF x.users[u] = None THEN Part(x.batch, Group(u), x.done) = 0
        ELSE x.users[u].amount = Amt(refs[u]) + Part(x.batch, Group(u), x.done)

UsersAdded == \A s \in Sessions : CreditedTo(tx[s], users)

(* The totals that are committed. *)
GroupTotal(u, rows) == SumFunction([t \in Group(u) |-> Amt(rows[t])])

UsersSummed == \A u \in Users : Amt(users[u]) = GroupTotal(u, tasks)

DatesSummed ==
    \A d \in Dates : OfDate(tasks, d) # {} =>
        /\ daily[d] # None
        /\ daily[d].amount = SumFunction([t \in OfDate(tasks, d) |-> tasks[t].amount])
        /\ daily[d].completed =
               Cardinality({t \in OfDate(tasks, d) : tasks[t].status = "completed"})

Summed == AllReported /\ UsersAdded /\ UsersSummed /\ DatesSummed

(* The reports of a batch belong to the group of their user only. *)
LEMMA GroupOf ==
    ASSUME Steady, NEW b \in Batches, NEW i \in 1..Len(Content[b]), NEW u
    PROVE  Content[b][i].task \in Group(u) <=> Content[b][i].user = u
<1>1. i \in DOMAIN Content[b] /\ Content[b][i] \in Report
  BY ReportType
<1>2. Content[b][i].task \in Tasks
  BY <1>1 DEF Report
<1>3. Content[b][i].user = u => Content[b][i].task \in Group(u)
  BY <1>1, <1>2 DEF Group
<1>4. Content[b][i].task \in Group(u) => Content[b][i].user = u
  BY <1>1 DEF Group, Steady
<1> QED
  BY <1>3, <1>4

(* What reports add to a set of tasks is what they add to each of them. *)
LEMMA PartOfEach ==
    ASSUME NEW b \in Batches, NEW T \in SUBSET Tasks, NEW k \in 0..Len(Content[b])
    PROVE  SumFunction([t \in T |-> Part(b, {t}, k)]) = Part(b, T, k)
<1> DEFINE f(n) == [t \in T |-> Part(b, {t}, n)]
           W == {n \in Nat : n <= Len(Content[b]) => SumFunction(f(n)) = Part(b, T, n)}
<1>0. IsFiniteSet(T) /\ Len(Content[b]) \in Nat
  BY SomeTasks, ReportType
<1>1. ASSUME NEW n \in 0..Len(Content[b]) PROVE f(n) \in [T -> Nat]
  BY PartType
<1>8. \A n : \A t \in T : f(n)[t] = Part(b, {t}, n)
  OBVIOUS
<1> HIDE DEF f
<1>2. 0 \in W
  <2>1. 0 \in 0..Len(Content[b])
    BY <1>0
  <2>2. PICK z \in [T -> Nat] : z = f(0)
    BY <1>1, <2>1
  <2>3. \A t \in T : z[t] = 0
    BY <1>8, <2>1, <2>2, PartType
  <2>4. SumFunction(z) = SumFunction([t \in {} |-> z[t]])
    <3>1. {} \in SUBSET T /\ \A t \in T \ {} : z[t] = 0
      BY <2>3
    <3> QED
      BY <1>0, <3>1, SumOnSupport
  <2>5. [t \in {} |-> z[t]] \in [{} -> Nat] /\ IsFiniteSet({})
    BY FS_EmptySet
  <2>6. SumFunction([t \in {} |-> z[t]]) = 0
    BY <2>5, SumType
  <2>7. Part(b, T, 0) = 0
    BY <2>1, PartType
  <2> QED
    BY <2>2, <2>4, <2>6, <2>7
<1>3. ASSUME NEW n \in W PROVE n + 1 \in W
  <2> SUFFICES ASSUME n + 1 <= Len(Content[b]) PROVE SumFunction(f(n + 1)) = Part(b, T, n + 1)
    BY <1>3
  <2>1. n \in Nat /\ n \in 0..Len(Content[b]) /\ n + 1 \in 0..Len(Content[b])
        /\ n < Len(Content[b]) /\ n + 1 \in 1..Len(Content[b])
    BY <1>0, <1>3
  <2>2. PICK old \in [T -> Nat] : old = f(n)
    BY <1>1, <2>1
  <2>3. PICK new \in [T -> Nat] : new = f(n + 1)
    BY <1>1, <2>1
  <2>4. PICK t0 : t0 = Content[b][n + 1].task
    OBVIOUS
  <2>5. PICK a \in Nat : a = Content[b][n + 1].amount
    <3>1. Content[b][n + 1] \in Report
      BY <2>1, ReportType
    <3> QED
      BY <3>1 DEF Report
  <2>6. SumFunction(old) = Part(b, T, n) /\ Part(b, T, n) \in Nat
    BY <1>3, <2>1, <2>2, PartType
  <2>7. Part(b, T, n + 1) = Part(b, T, n) + IF t0 \in T THEN a ELSE 0
    BY <2>1, <2>4, <2>5, PartNext
  <2>8. \A t \in T : new[t] = old[t] + IF t0 \in {t} THEN a ELSE 0
    <3>1. ASSUME NEW t \in T PROVE new[t] = old[t] + IF t0 \in {t} THEN a ELSE 0
      <4>1. Part(b, {t}, n + 1) = Part(b, {t}, n) + IF t0 \in {t} THEN a ELSE 0
        BY <2>1, <2>4, <2>5, PartNext
      <4> QED
        BY <1>8, <2>2, <2>3, <4>1
    <3> QED
      BY <3>1
  <2>9. \A t \in T : old[t] \in Nat /\ (t # t0 => new[t] = old[t])
    BY <2>8
  <2>10. CASE t0 \in T
    <3>1. SumFunction(new) + old[t0] = SumFunction(old) + new[t0]
      BY <1>0, <2>9, <2>10, SumChange
    <3>2. new[t0] = old[t0] + a /\ old[t0] \in Nat
      BY <2>8, <2>10
    <3>3. SumFunction(new) \in Nat
      BY <1>0, SumType
    <3>4. SumFunction(new) = Part(b, T, n) + a
      <4>1. PICK m \in Nat : m = SumFunction(new)
        BY <3>3
      <4>2. PICK p \in Nat : p = SumFunction(old) /\ p = Part(b, T, n)
        BY <2>6
      <4>3. PICK o \in Nat : o = old[t0] /\ new[t0] = o + a
        BY <3>2
      <4>4. m + o = p + (o + a)
        BY <3>1, <4>1, <4>2, <4>3
      <4>5. m = p + a
        <5>1. m \in Nat /\ p \in Nat /\ o \in Nat /\ a \in Nat
          BY <2>5, <4>1, <4>2, <4>3
        <5> QED
          BY <4>4, <5>1
      <4> QED
        BY <4>1, <4>2, <4>5
    <3>5. Part(b, T, n + 1) = Part(b, T, n) + a
      BY <2>7, <2>10
    <3> QED
      BY <2>3, <3>4, <3>5
  <2>11. CASE t0 \notin T
    <3>1. new = old
      BY <2>9, <2>11
    <3> QED
      BY <2>3, <2>6, <2>7, <2>11, <3>1
  <2> QED
    BY <2>10, <2>11
<1>4. W = Nat
  <2> HIDE DEF W
  <2>1. W \in SUBSET Nat
    BY DEF W
  <2> QED
    BY <1>2, <1>3, <2>1, NumberInduction
<1>5. k \in W /\ k \in Nat /\ k <= Len(Content[b])
  BY <1>0, <1>4
<1>6. SumFunction(f(k)) = Part(b, T, k)
  BY <1>5
<1> QED
  BY <1>6 DEF f

(* Every step leaves rows that are of reports. *)
LEMMA ReportedStep ==
    ASSUME TypeOK, Placed, AllReported, [Next]_vars PROVE AllReported'
<1>0. /\ \A t \in Tasks : tasks[t] # None => Reported(tasks[t], t)
      /\ \A s \in Sessions : RowsReported(tx[s])
  BY DEF AllReported
<1>1. \A t \in Tasks : tasks'[t] # None => Reported(tasks'[t], t)
  <2>1. CASE UNCHANGED tables
    BY <1>0, <2>1 DEF tables
  <2>2. ASSUME NEW s \in Sessions, Finish(s), Commits(s), NEW t \in Tasks, tasks'[t] # None
        PROVE  Reported(tasks'[t], t)
    <3>1. s \in Busy
      BY <2>2, FinishStep
    <3>2. tasks'[t] = Mine(s, t)
      BY <2>2 DEF Commits, TasksAfter
    <3>3. tx[s].tasks[t] # None => Reported(tx[s].tasks[t], t)
      BY <1>0, <3>1 DEF RowsReported, HoldsTask, Busy
    <3> QED
      BY <1>0, <2>2, <3>2, <3>3 DEF Mine
  <2> QED
    BY <2>1, <2>2, TablesStep
<1>2. ASSUME NEW s \in Sessions, \A r \in Sessions : r # s => tx'[r] = tx[r],
             RowsReported(tx'[s])
      PROVE  \A r \in Sessions : RowsReported(tx'[r])
  BY <1>0, <1>2
<1>3. \A t \in Tasks : NoTasks[t] = None
  BY DEF NoTasks
<1>4. \A s \in Sessions : RowsReported(tx'[s])
  <2>1. CASE UNCHANGED <<tx, tables>>
    BY <1>0, <2>1
  <2>2. CASE Frees
    BY <1>0, <2>2 DEF Frees, RowsReported, HoldsTask
  <2>3. ASSUME NEW s \in Sessions, NEW r \in network, Becomes(s, Begun(r))
        PROVE  \A q \in Sessions : RowsReported(tx'[q])
    <3>1. tx'[s].tasks = NoTasks
      BY <2>3, BegunType DEF Becomes
    <3> QED
      BY <1>2, <1>3, <2>3, <3>1 DEF Becomes, RowsReported, HoldsTask
  <2>4. ASSUME NEW s \in Sessions, Ends(s, TRUE) \/ Ends(s, FALSE)
        PROVE  \A q \in Sessions : RowsReported(tx'[q])
    <3>1. RowsReported(tx'[s])
      BY <1>3, <2>4 DEF Ends, RowsReported, HoldsTask
    <3> QED
      BY <1>2, <2>4, <3>1 DEF Ends
  <2>5. ASSUME NEW s \in Sessions, NEW x, s \in Busy, Becomes(s, x),
               x.tasks = tx[s].tasks, x.batch = tx[s].batch
        PROVE  \A q \in Sessions : RowsReported(tx'[q])
    <3>1. RowsReported(tx[s]) /\ tx[s] # None
      BY <1>0, <2>5 DEF Busy
    <3>2. RowsReported(x)
      BY <2>5, <3>1 DEF RowsReported, HoldsTask
    <3> QED
      BY <1>2, <2>5, <3>2 DEF Becomes
  <2>6. ASSUME NEW s \in Sessions, Claim(s) PROVE \A q \in Sessions : RowsReported(tx'[q])
    <3>1. s \in Busy /\ tx[s] \in Transaction
      BY <2>6, ClaimStep, BusyType
    <3>2. Claims(s).tasks = tx[s].tasks /\ Claims(s).batch = tx[s].batch
      BY <3>1 DEF Claims, Transaction
    <3> QED
      BY <2>4, <2>5, <2>6, <3>1, <3>2, ClaimStep
  <2>7. ASSUME NEW s \in Sessions, StoreUser(s) PROVE \A q \in Sessions : RowsReported(tx'[q])
    <3>1. s \in Busy /\ tx[s] \in Transaction
      BY <2>7, StoreUserStep, BusyType
    <3>2. StoresUser(s).tasks = tx[s].tasks /\ StoresUser(s).batch = tx[s].batch
      BY <3>1 DEF StoresUser, Transaction
    <3> QED
      BY <2>5, <2>7, <3>1, <3>2, StoreUserStep
  <2>8. ASSUME NEW s \in Sessions, StoreTask(s) PROVE \A q \in Sessions : RowsReported(tx'[q])
    <3>1. s \in Busy /\ tx[s].at = "task" /\ tx[s] \in Transaction /\ tx[s].batch \in Batches
          /\ tx[s].tasks \in Rows /\ tx[s] # None
      BY <2>8, StoreTaskStep, BusyType DEF Busy
    <3>2. PICK b \in Batches : b = tx[s].batch
      BY <3>1
    <3>3. PICK i \in DOMAIN Content[b] : Present(s) = Content[b][i]
      BY <3>1, <3>2, PresentType, ReportType DEF Present
    <3>4. PICK rep \in Report : rep = Present(s) /\ rep.task \in Tasks
      BY <3>1, PresentType
    <3>5. PICK old \in TaskRow \cup {None} : old = Mine(s, rep.task)
      BY <3>1, <3>4 DEF Mine, TypeOK, Rows
    <3>6. PICK row \in TaskRow : row = Upserted(old, b, rep)
      BY <3>2, <3>4, <3>5, UpsertedType
    <3>7. old # None => Reported(old, rep.task)
      BY <1>0, <3>1, <3>4, <3>5 DEF Mine, RowsReported, HoldsTask
    <3>8. Reported(row, rep.task)
      <4>1. CASE old = None
        <5>1. row.user = rep.user /\ row.date = StatDate(b, rep)
          BY <3>2, <3>4, <3>5, <3>6, <4>1, UpsertedType
        <5> QED
          BY <3>3, <3>4, <5>1 DEF Reported
      <4>2. CASE old # None
        <5>1. row.user = old.user /\ row.date = old.date
          BY <3>2, <3>4, <3>5, <3>6, <4>2, UpsertedType
        <5> QED
          BY <3>7, <4>2, <5>1 DEF Reported
      <4> QED
        BY <4>1, <4>2
    <3>9. InBatch(b, rep.task)
      BY <3>3, <3>4 DEF InBatch
    <3>10. PICK x : x = StoresTask(s)
      OBVIOUS
    <3>11. x.batch = b /\ x.tasks = [tx[s].tasks EXCEPT ![rep.task] = row]
      BY <3>1, <3>2, <3>4, <3>5, <3>6, <3>10 DEF StoresTask, Transaction
    <3>12. RowsReported(tx[s])
      BY <1>0
    <3>13. ASSUME NEW t \in Tasks, x.tasks[t] # None
           PROVE  Reported(x.tasks[t], t) /\ InBatch(x.batch, t)
      <4>1. CASE t = rep.task
        BY <3>1, <3>4, <3>8, <3>9, <3>11, <4>1 DEF Rows
      <4>2. CASE t # rep.task
        <5>1. x.tasks[t] = tx[s].tasks[t]
          BY <3>1, <3>11, <4>2 DEF Rows
        <5> QED
          BY <3>1, <3>2, <3>11, <3>12, <3>13, <5>1 DEF RowsReported, HoldsTask
      <4> QED
        BY <4>1, <4>2
    <3>14. RowsReported(x)
      BY <3>13 DEF RowsReported, HoldsTask
    <3> QED
      BY <1>2, <2>8, <3>10, <3>14, StoreTaskStep DEF Becomes
  <2>9. ASSUME NEW s \in Sessions, Finish(s) \/ Victim(s) \/ Fail(s)
        PROVE  \A q \in Sessions : RowsReported(tx'[q])
    BY <2>4, <2>9, FinishStep, FailStep DEF Commits
  <2> QED
    BY <2>1, <2>2, <2>3, <2>6, <2>7, <2>8, <2>9, Steps
<1> QED
  BY <1>1, <1>4 DEF AllReported

(* A step of one transaction disturbs its own users only. *)
LEMMA OneCredited ==
    ASSUME TypeOK, UsersAdded, NEW s \in Sessions, \A r \in Sessions : r # s => tx'[r] = tx[r],
           users' = users, CreditedTo(tx'[s], users)
    PROVE  UsersAdded'
BY DEF UsersAdded

(* The amount of a user, which is 0 where there is no row. *)
LEMMA CreditType ==
    ASSUME TypeOK
    PROVE  /\ \A u \in Users : Amt(users[u]) \in Nat
           /\ \A t \in Tasks : Amt(tasks[t]) \in Nat
BY AmtType DEF TypeOK, UserRow, Amt

(* Storing the user of a report adds it to that user, and to no other. *)
LEMMA StoreUserAdds ==
    ASSUME Steady, TypeOK, Placed, UsersAdded, NEW s \in Sessions, StoreUser(s)
    PROVE  CreditedTo(StoresUser(s), users)
<1>1. s \in Busy /\ tx[s].at = "user" /\ tx[s] \in Transaction /\ tx[s].users \in Refs
      /\ tx[s].batch \in Batches /\ tx[s].done \in Nat
  BY StoreUserStep, BusyType
<1>2. PICK b \in Batches : b = tx[s].batch
  BY <1>1
<1>3. PICK k \in Nat : k = tx[s].done
  BY <1>1
<1>4. /\ k < Len(Content[b]) /\ k \in 0..Len(Content[b]) /\ k + 1 \in 1..Len(Content[b])
      /\ Present(s) = Content[b][k + 1]
  BY <1>1, <1>2, <1>3, PresentType, ReportType DEF Present
<1>5. PICK u0 \in Users : u0 = Present(s).user
  BY <1>1, PresentType
<1>6. PICK a \in Nat : a = Present(s).amount
  BY <1>1, PresentType
<1>7. \A u \in Users : /\ Part(b, Group(u), k) \in Nat
                       /\ Part(b, Group(u), k + 1) = Part(b, Group(u), k) +
                              IF u = u0 THEN a ELSE 0
  <2>1. ASSUME NEW u \in Users
        PROVE  /\ Part(b, Group(u), k) \in Nat
               /\ Part(b, Group(u), k + 1) = Part(b, Group(u), k) + IF u = u0 THEN a ELSE 0
    <3>1. PICK G : G = Group(u)
      OBVIOUS
    <3>2. Part(b, G, k) \in Nat
      BY <1>4, PartType
    <3>3. Part(b, G, k + 1) = Part(b, G, k) +
              IF Content[b][k + 1].task \in G THEN Content[b][k + 1].amount ELSE 0
      BY <1>4, PartNext
    <3>4. Content[b][k + 1].task \in G <=> u = u0
      BY <1>4, <1>5, <3>1, GroupOf
    <3> QED
      BY <1>4, <1>6, <3>1, <3>2, <3>3, <3>4
  <2> QED
    BY <2>1
<1>8. \A u \in Users : IF tx[s].users[u] = None THEN Part(b, Group(u), k) = 0
                       ELSE tx[s].users[u].amount = Amt(users[u]) + Part(b, Group(u), k)
  BY <1>1, <1>2, <1>3 DEF UsersAdded, CreditedTo, PastIn, Busy
<1>9. PICK row : row = Credited(s)
  OBVIOUS
<1>10. row # None /\ row.amount = Amt(MyUser(s, u0)) + a
  BY <1>1, <1>5, <1>6, <1>9, CreditedType
<1>11. PICK x : x = StoresUser(s)
  OBVIOUS
<1>12. x.batch = b /\ x.done = k + 1 /\ x.users = [tx[s].users EXCEPT ![u0] = row]
  BY <1>1, <1>2, <1>3, <1>5, <1>9, <1>11 DEF StoresUser, Transaction
<1>13. ASSUME NEW u \in Users
       PROVE  IF x.users[u] = None THEN Part(b, Group(u), k + 1) = 0
              ELSE x.users[u].amount = Amt(users[u]) + Part(b, Group(u), k + 1)
  <2>1. PICK p \in Nat : p = Part(b, Group(u), k)
    BY <1>7
  <2>2. PICK m \in Nat : m = Amt(users[u])
    BY CreditType
  <2>3. CASE u = u0
    <3>1. x.users[u] = row /\ Part(b, Group(u), k + 1) = p + a
      BY <1>1, <1>7, <1>12, <2>1, <2>3 DEF Refs
    <3>2. Amt(MyUser(s, u)) = m + p
      <4>1. CASE tx[s].users[u] = None
        <5>1. p = 0 /\ MyUser(s, u) = users[u]
          BY <1>8, <2>1, <4>1 DEF MyUser
        <5> QED
          BY <2>1, <2>2, <5>1
      <4>2. CASE tx[s].users[u] # None
        <5>1. MyUser(s, u) = tx[s].users[u] /\ Amt(MyUser(s, u)) = tx[s].users[u].amount
          BY <4>2 DEF MyUser, Amt
        <5> QED
          BY <1>8, <2>1, <2>2, <4>2, <5>1
      <4> QED
        BY <4>1, <4>2
    <3>3. row.amount = (m + p) + a
      BY <1>10, <2>3, <3>2
    <3>4. (m + p) + a = m + (p + a)
      OBVIOUS
    <3> QED
      BY <1>10, <2>2, <3>1, <3>3, <3>4
  <2>4. CASE u # u0
    <3>1. x.users[u] = tx[s].users[u] /\ Part(b, Group(u), k + 1) = p
      BY <1>1, <1>7, <1>12, <2>1, <2>4 DEF Refs
    <3> QED
      BY <1>8, <2>1, <3>1
  <2> QED
    BY <2>3, <2>4
<1> QED
  BY <1>11, <1>12, <1>13 DEF CreditedTo

(* Every step keeps what the users' rows add up to. *)
LEMMA UsersAddedStep ==
    ASSUME Steady, TypeOK, Placed, Locked, UsersAdded, [Next]_vars PROVE UsersAdded'
<1>1. CASE UNCHANGED <<tx, tables>>
  BY <1>1 DEF UsersAdded, tables
<1>2. CASE Frees
  <2>1. \A s \in Sessions : CreditedTo(tx'[s], users')
    BY <1>2 DEF Frees, UsersAdded, CreditedTo, PastIn, tables
  <2> QED
    BY <2>1 DEF UsersAdded
<1>3. ASSUME NEW s \in Sessions, NEW r \in network, Becomes(s, Begun(r)), UNCHANGED tables
      PROVE  UsersAdded'
  <2>1. tx'[s].at = "claim"
    BY <1>3, BegunType DEF Becomes
  <2> QED
    BY <1>3, <2>1, OneCredited DEF Becomes, CreditedTo, PastIn, tables
<1>4. ASSUME NEW s \in Sessions, Claim(s) PROVE UsersAdded'
  <2>1. s \in Busy /\ tx[s].at = "claim" /\ users' = users /\ tx[s] \in Transaction
        /\ tx[s].batch \in Batches
    BY <1>4, ClaimStep, BusyType DEF Claim, tables
  <2>2. CASE Ends(s, TRUE)
    BY <2>1, <2>2, OneCredited DEF Ends, CreditedTo, PastIn
  <2>3. CASE Becomes(s, Claims(s))
    <3>1. PICK x : x = Claims(s)
      OBVIOUS
    <3>2. x.batch = tx[s].batch /\ x.users = NoUsers /\ x.done = 0
      BY <2>1, <3>1 DEF Claims, Transaction, Placed, InPlace
    <3>3. 0 \in 0..Len(Content[tx[s].batch])
      BY <2>1, ReportType
    <3>4. \A u \in Users : x.users[u] = None /\ Part(x.batch, Group(u), x.done) = 0
      BY <2>1, <3>2, <3>3, PartType DEF NoUsers
    <3>5. CreditedTo(x, users)
      BY <3>4 DEF CreditedTo
    <3> QED
      BY <2>1, <2>3, <3>1, <3>5, OneCredited DEF Becomes
  <2> QED
    BY <1>4, <2>2, <2>3, ClaimStep
<1>5. ASSUME NEW s \in Sessions, StoreTask(s) PROVE UsersAdded'
  <2>1. s \in Busy /\ tx[s].at = "task" /\ users' = users /\ tx[s] \in Transaction
    BY <1>5, StoreTaskStep, BusyType DEF StoreTask, tables
  <2>2. PICK x : x = StoresTask(s)
    OBVIOUS
  <2>3. x.batch = tx[s].batch /\ x.users = tx[s].users /\ x.done = tx[s].done
    BY <2>1, <2>2 DEF StoresTask, Transaction
  <2>4. PastIn(tx[s]) /\ CreditedTo(tx[s], users)
    BY <2>1 DEF UsersAdded, PastIn, Busy
  <2>5. CreditedTo(x, users)
    BY <2>3, <2>4 DEF CreditedTo
  <2> QED
    BY <1>5, <2>1, <2>2, <2>5, StoreTaskStep, OneCredited DEF Becomes
<1>6. ASSUME NEW s \in Sessions, StoreUser(s) PROVE UsersAdded'
  <2>1. users' = users
    BY <1>6 DEF StoreUser, tables
  <2> QED
    BY <1>6, <2>1, StoreUserStep, StoreUserAdds, OneCredited DEF Becomes
<1>7. ASSUME NEW s \in Sessions, Ends(s, TRUE) \/ Ends(s, FALSE), UNCHANGED tables
      PROVE  UsersAdded'
  BY <1>7, OneCredited DEF Ends, CreditedTo, PastIn, tables
<1>8. ASSUME NEW s \in Sessions, s \in Busy, tx[s].at = "daily", Commits(s) PROVE UsersAdded'
  <2>1. \A r \in Sessions : r # s => tx'[r] = tx[r] /\ CreditedTo(tx[r], users)
    BY <1>8 DEF UsersAdded, Commits, Ends
  <2>2. ASSUME NEW r \in Sessions, r # s, PastIn(tx[r]) PROVE CreditedTo(tx[r], users')
    <3>1. \A u \in Users : tx[r].users[u] # None => users'[u] = users[u]
      BY <1>8, <2>2 DEF Commits, UsersAfter, MyUser, Locked, Apart, HoldsUser, Busy, PastIn
    <3> QED
      BY <2>1, <2>2, <3>1 DEF CreditedTo
  <2>3. CreditedTo(tx'[s], users')
    BY <1>8, EndsApart DEF CreditedTo, Commits
  <2>4. ASSUME NEW r \in Sessions, ~PastIn(tx[r]) PROVE CreditedTo(tx[r], users')
    BY <2>4 DEF CreditedTo
  <2>5. \A r \in Sessions : CreditedTo(tx'[r], users')
    BY <2>1, <2>2, <2>3, <2>4
  <2> QED
    BY <2>5 DEF UsersAdded
<1>9. ASSUME NEW s \in Sessions, Finish(s) \/ Victim(s) \/ Fail(s) PROVE UsersAdded'
  BY <1>7, <1>8, <1>9, FinishStep, FailStep
<1> QED
  BY <1>1, <1>2, <1>3, <1>4, <1>5, <1>6, <1>9, Steps

(* At the commit, a transaction has added its whole batch. *)
LEMMA WholeAdded ==
    ASSUME TypeOK, Placed, Added, UsersAdded, NEW s \in Busy, tx[s].at = "daily",
           NEW b \in Batches, b = tx[s].batch
    PROVE  /\ \A t \in Tasks : Amt(Mine(s, t)) =
                  Amt(tasks[t]) + Part(b, {t}, Len(Content[b]))
           /\ \A u \in Users : Amt(MyUser(s, u)) =
                  Amt(users[u]) + Part(b, Group(u), Len(Content[b]))
<1>1. PICK k \in Nat : k = Len(Content[b])
  BY ReportType
<1>2. PastIn(tx[s]) /\ StoredIn(tx[s]) = k /\ tx[s].done = k /\ s \in Sessions
  BY <1>1, BusyType DEF PastIn, Busy, StoredIn, Placed, InPlace
<1>3. ASSUME NEW t \in Tasks PROVE Amt(Mine(s, t)) = Amt(tasks[t]) + Part(b, {t}, k)
  <2>1. AddedTo(tx[s], tasks)
    BY <1>2 DEF Added
  <2>2. CASE tx[s].tasks[t] = None
    <3>1. Part(b, {t}, k) = 0 /\ Mine(s, t) = tasks[t]
      BY <1>2, <2>1, <2>2 DEF AddedTo, Mine
    <3> QED
      BY <3>1, AmtType
  <2>3. CASE tx[s].tasks[t] # None
    <3>1. Amt(Mine(s, t)) = tx[s].tasks[t].amount
      BY <2>3 DEF Mine, Amt
    <3> QED
      BY <1>2, <2>1, <2>3, <3>1 DEF AddedTo
  <2> QED
    BY <2>2, <2>3
<1>4. ASSUME NEW u \in Users PROVE Amt(MyUser(s, u)) = Amt(users[u]) + Part(b, Group(u), k)
  <2>1. CreditedTo(tx[s], users)
    BY <1>2 DEF UsersAdded
  <2>2. CASE tx[s].users[u] = None
    <3>1. Part(b, Group(u), k) = 0 /\ MyUser(s, u) = users[u]
      BY <1>2, <2>1, <2>2 DEF CreditedTo, MyUser
    <3> QED
      BY <3>1, CreditType
  <2>3. CASE tx[s].users[u] # None
    <3>1. Amt(MyUser(s, u)) = tx[s].users[u].amount
      BY <2>3 DEF MyUser, Amt
    <3> QED
      BY <1>2, <2>1, <2>3, <3>1 DEF CreditedTo
  <2> QED
    BY <2>2, <2>3
<1> QED
  BY <1>1, <1>3, <1>4

(* A commit adds to a user what it adds to the user's tasks. *)
LEMMA UsersSummedStep ==
    ASSUME TypeOK, Placed, Added, UsersAdded, UsersSummed, [Next]_vars PROVE UsersSummed'
<1>1. CASE UNCHANGED tables
  BY <1>1 DEF UsersSummed, GroupTotal, tables
<1>2. ASSUME NEW s \in Sessions, Finish(s), Commits(s), NEW u \in Users
      PROVE  Amt(users'[u]) = GroupTotal(u, tasks')
  <2>1. s \in Busy /\ tx[s].at = "daily"
    BY <1>2, FinishStep
  <2>2. PICK b \in Batches : b = tx[s].batch
    BY <2>1, BusyType
  <2>3. PICK n : n = Len(Content[b]) /\ n \in 0..Len(Content[b])
    BY ReportType
  <2>4. PICK G \in SUBSET Tasks : G = Group(u)
    BY DEF Group
  <2>5. IsFiniteSet(G)
    BY SomeTasks
  <2>6. PICK old \in [G -> Nat] : old = [t \in G |-> Amt(tasks[t])]
    BY CreditType
  <2>7. PICK add \in [G -> Nat] : add = [t \in G |-> Part(b, {t}, n)]
    BY <2>3, PartType
  <2>8. PICK new : new = [t \in G |-> Amt(tasks'[t])]
    OBVIOUS
  <2>9. \A t \in G : new[t] = old[t] + add[t]
    <3>1. \A t \in Tasks : tasks'[t] = Mine(s, t)
      BY <1>2 DEF Commits, TasksAfter
    <3>2. \A t \in Tasks : Amt(Mine(s, t)) = Amt(tasks[t]) + Part(b, {t}, n)
      BY <2>1, <2>2, <2>3, WholeAdded
    <3>3. \A t \in G : new[t] = Amt(tasks[t]) + Part(b, {t}, n)
      BY <2>8, <3>1, <3>2
    <3> QED
      BY <2>6, <2>7, <3>3
  <2>10. new \in [G -> Nat]
    <3>1. \A t \in G : new[t] \in Nat
      BY <2>9
    <3> QED
      BY <2>8, <3>1
  <2>11. SumFunction(new) = SumFunction(old) + SumFunction(add)
    BY <2>5, <2>9, <2>10, SumAdd
  <2>12. SumFunction(add) = Part(b, G, n)
    BY <2>3, <2>7, PartOfEach
  <2>13. SumFunction(old) = Amt(users[u])
    BY <2>4, <2>6 DEF UsersSummed, GroupTotal
  <2>14. Amt(users'[u]) = Amt(users[u]) + Part(b, G, n)
    <3>1. users'[u] = MyUser(s, u)
      BY <1>2 DEF Commits, UsersAfter
    <3> QED
      BY <2>1, <2>2, <2>3, <2>4, <3>1, WholeAdded
  <2>15. GroupTotal(u, tasks') = SumFunction(new)
    BY <2>4, <2>8 DEF GroupTotal
  <2> QED
    BY <2>11, <2>12, <2>13, <2>14, <2>15
<1> QED
  BY <1>1, <1>2, TablesStep DEF UsersSummed

(* A commit sums every date anew of which it changes a task. *)
LEMMA DatesSummedStep ==
    ASSUME Steady, TypeOK, Placed, AllReported, AllReported', DatesSummed, [Next]_vars
    PROVE  DatesSummed'
<1>1. CASE UNCHANGED tables
  BY <1>1 DEF DatesSummed, OfDate, tables
<1>2. ASSUME NEW s \in Sessions, Finish(s), Commits(s), NEW d \in Dates, OfDate(tasks', d) # {}
      PROVE  /\ daily'[d] # None
             /\ daily'[d].amount = SumFunction([t \in OfDate(tasks', d) |-> tasks'[t].amount])
             /\ daily'[d].completed =
                    Cardinality({t \in OfDate(tasks', d) : tasks'[t].status = "completed"})
  <2>1. s \in Busy /\ tx[s].batch \in Batches /\ tx[s] # None
    BY <1>2, FinishStep, BusyType DEF Busy
  <2>2. TasksAfter(s) \in Rows /\ UsersAfter(s) \in Refs /\ tasks' = TasksAfter(s)
    BY <1>2, <2>1, AfterType DEF Commits
  <2>3. CASE d \in AffectedDates(s)
    <3>1. daily'[d] = Sums(TasksAfter(s), UsersAfter(s), d)
      BY <1>2, <2>3 DEF Commits
    <3>2. Sums(TasksAfter(s), UsersAfter(s), d) \in DailyRow
      BY <2>2, SumsType
    <3>3. daily'[d] # None
      BY <3>1, <3>2, NoneAssumption
    <3> QED
      BY <2>2, <3>1, <3>3 DEF Sums
  <2>4. CASE d \notin AffectedDates(s)
    <3>0. ASSUME NEW t \in Tasks, NEW row, Reported(row, t), row.date = d
          PROVE  tx[s].tasks[t] = None
      <4>1. SUFFICES ASSUME tx[s].tasks[t] # None PROVE FALSE
        OBVIOUS
      <4>2. PICK b \in Batches : b = tx[s].batch
        BY <2>1
      <4>3. PICK i \in DOMAIN Content[b] : Content[b][i].task = t
        BY <2>1, <4>1, <4>2 DEF AllReported, RowsReported, HoldsTask, InBatch, Busy
      <4>4. PICK c \in Batches : \E j \in DOMAIN Content[c] :
                Content[c][j].task = t /\ StatDate(c, Content[c][j]) = d
        BY <3>0 DEF Reported
      <4>5. StatDate(b, Content[b][i]) = d
        BY <4>3, <4>4 DEF Steady
      <4>6. StatDate(b, Content[b][i]) \in AffectedDates(s)
        BY <4>2, <4>3 DEF AffectedDates, Range
      <4> QED
        BY <2>4, <4>5, <4>6
    <3>1. ASSUME NEW t \in Tasks, tasks'[t] # None, tasks'[t].date = d
          PROVE  tasks'[t] = tasks[t]
      <4>1. tx[s].tasks[t] = None
        BY <3>0, <3>1 DEF AllReported
      <4> QED
        BY <2>2, <4>1 DEF TasksAfter, Mine
    <3>2. ASSUME NEW t \in Tasks, tasks[t] # None, tasks[t].date = d
          PROVE  tasks'[t] = tasks[t]
      <4>1. tx[s].tasks[t] = None
        BY <3>0, <3>2 DEF AllReported
      <4> QED
        BY <2>2, <4>1 DEF TasksAfter, Mine
    <3>3. PICK S : S = OfDate(tasks', d)
      OBVIOUS
    <3>4. OfDate(tasks, d) = S /\ \A t \in S : tasks'[t] = tasks[t]
      BY <3>1, <3>2, <3>3 DEF OfDate
    <3>5. daily'[d] = daily[d]
      BY <1>2, <2>4 DEF Commits
    <3>6. /\ daily[d] # None
          /\ daily[d].amount = SumFunction([t \in S |-> tasks[t].amount])
          /\ daily[d].completed = Cardinality({t \in S : tasks[t].status = "completed"})
      BY <1>2, <3>3, <3>4 DEF DatesSummed
    <3>7. /\ [t \in S |-> tasks'[t].amount] = [t \in S |-> tasks[t].amount]
          /\ {t \in S : tasks'[t].status = "completed"} = {t \in S : tasks[t].status = "completed"}
      BY <3>4
    <3> QED
      BY <3>3, <3>5, <3>6, <3>7
  <2> QED
    BY <2>3, <2>4
<1> QED
  BY <1>1, <1>2, TablesStep DEF DatesSummed

(* Nothing is summed at first. *)
LEMMA SummedInit == ASSUME Init PROVE Summed
<1>1. \A s \in Sessions : tx[s] = None
  BY DEF Init
<1>2. \A t \in Tasks : tasks[t] = None
  BY DEF Init, NoTasks
<1>3. AllReported /\ UsersAdded /\ DatesSummed
  BY <1>1, <1>2 DEF AllReported, RowsReported, HoldsTask, UsersAdded, CreditedTo, PastIn,
                    DatesSummed, OfDate
<1>4. ASSUME NEW u \in Users PROVE Amt(users[u]) = GroupTotal(u, tasks)
  <2>1. PICK G \in SUBSET Tasks : G = Group(u)
    BY DEF Group
  <2>2. PICK z \in [G -> Nat] : z = [t \in G |-> Amt(tasks[t])]
    BY <1>2 DEF Amt
  <2>3. {} \in SUBSET G /\ \A t \in G \ {} : z[t] = 0
    BY <1>2, <2>2 DEF Amt
  <2>4. IsFiniteSet(G)
    BY SomeTasks
  <2>5. SumFunction(z) = SumFunction([t \in {} |-> z[t]])
    BY <2>3, <2>4, SumOnSupport
  <2>6. [t \in {} |-> z[t]] \in [{} -> Nat] /\ IsFiniteSet({})
    BY FS_EmptySet
  <2>7. SumFunction([t \in {} |-> z[t]]) = 0
    BY <2>6, SumType
  <2>8. Amt(users[u]) = 0
    BY DEF Init, NoUsers, Amt
  <2> QED
    BY <2>1, <2>2, <2>5, <2>7, <2>8 DEF GroupTotal
<1> QED
  BY <1>3, <1>4 DEF Summed, UsersSummed

(* The totals stay matched. *)
LEMMA SummedStep ==
    ASSUME Steady, Sound, Summed, [Next]_vars PROVE Summed'
<1>1. TypeOK /\ Placed /\ Locked /\ Added /\ AllReported /\ UsersAdded /\ UsersSummed
      /\ DatesSummed
  BY DEF Sound, Summed
<1>2. AllReported'
  BY <1>1, ReportedStep
<1> QED
  BY <1>1, <1>2, UsersAddedStep, UsersSummedStep, DatesSummedStep DEF Summed

(* The tasks of a user are those of the user's group that have a row. *)
LEMMA SummedMatches ==
    ASSUME Steady, TypeOK, Summed PROVE DailyMatchesTasks
<1>1. ASSUME NEW u \in Users, users[u] # None
      PROVE  users[u].amount = SumFunction([t \in OfUser(tasks, u) |-> tasks[t].amount])
  <2>1. PICK G \in SUBSET Tasks : G = Group(u)
    BY DEF Group
  <2>2. PICK S : S = OfUser(tasks, u)
    OBVIOUS
  <2>3. ASSUME NEW t \in Tasks, tasks[t] # None PROVE t \in G <=> tasks[t].user = u
    <3>1. PICK b \in Batches : \E i \in DOMAIN Content[b] :
              Content[b][i].task = t /\ Content[b][i].user = tasks[t].user
      BY <2>3 DEF Summed, AllReported, Reported
    <3>2. PICK i \in DOMAIN Content[b] :
              Content[b][i].task = t /\ Content[b][i].user = tasks[t].user
      BY <3>1
    <3>3. i \in 1..Len(Content[b])
      BY ReportType
    <3> QED
      BY <2>1, <3>2, <3>3, GroupOf
  <2>4. S \in SUBSET G /\ \A t \in G \ S : tasks[t] = None
    BY <2>2, <2>3 DEF OfUser
  <2>5. PICK f \in [G -> Nat] : f = [t \in G |-> Amt(tasks[t])]
    BY CreditType
  <2>6. \A t \in G \ S : f[t] = 0
    BY <2>4, <2>5 DEF Amt
  <2>7. SumFunction(f) = SumFunction([t \in S |-> f[t]])
    BY <2>4, <2>6, SomeTasks, SumOnSupport
  <2>8. [t \in S |-> f[t]] = [t \in S |-> tasks[t].amount]
    <3>1. \A t \in S : f[t] = tasks[t].amount
      BY <2>2, <2>4, <2>5 DEF OfUser, Amt
    <3> QED
      BY <3>1
  <2>9. SumFunction(f) = users[u].amount
    BY <1>1, <2>1, <2>5 DEF Summed, UsersSummed, GroupTotal, Amt
  <2> QED
    BY <2>2, <2>7, <2>8, <2>9
<1>2. DatesSummed
  BY DEF Summed
<1> QED
  BY <1>1, <1>2 DEF DailyMatchesTasks, DatesSummed

(* The totals match (usage.service.ts:49-50, 103-196): where a task is     *)
(* always reported for one user and one date, the totals of every date are *)
(* those of its tasks and the totals of every user those of the user's     *)
(* tasks, though several transactions store and sum at the same time, are  *)
(* rolled back, and see batches again.                                     *)
THEOREM TotalsMatch == ASSUME Steady PROVE Spec => []DailyMatchesTasks
<1>1. Init => Summed
  BY SummedInit
<1>2. Sound /\ Summed /\ [Next]_vars => Summed'
  BY SummedStep
<1>3. Sound /\ Summed => DailyMatchesTasks
  BY SummedMatches DEF Sound
<1> QED
  BY <1>1, <1>2, <1>3, AlwaysSound, PTL DEF Spec
=============================================================================
