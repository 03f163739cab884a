----------------------------- MODULE FrameProofs -----------------------------
(***************************************************************************)
(* What Frames and TileCaches do for any number of frames, goroutines and  *)
(* tiles and any limit: a failed read is forgotten before anyone is told   *)
(* of it, the progress is exact, and eachFrame leaves nothing running and  *)
(* reports success only of all the frames.                                 *)
(***************************************************************************)
EXTENDS Frames, FiniteSetTheorems, SequenceTheorems, WellFoundedInduction, TLAPS

-----------------------------------------------------------------------------
(***************************************************************************)
(* Sums over finite sets, of any numbers.  They are folds, so what they     *)
(* come to is proved by induction: of the sets something does not hold of   *)
(* there would be a smallest.                                              *)
(***************************************************************************)
\* Every set of naturals that is not empty has a least.
LEMMA LeastNatural ==
    ASSUME NEW T, T \subseteq Nat, T # {}
    PROVE  \E m \in T : \A n \in T : m <= n
  <1> DEFINE R == OpToRel(<, Nat)
  <1>1. IsWellFoundedOn(R, Nat)
    BY NatLessThanWellFounded
  <1> HIDE DEF R
  <1>2. PICK m \in T : \A n \in T : <<n, m>> \notin R
    BY <1>1, WFMin
  <1>3. ASSUME NEW n \in T, n < m PROVE FALSE
    <2>1. <<n, m>> \in OpToRel(<, Nat)
      BY <1>3 DEF OpToRel
    <2> QED
      BY <1>2, <2>1 DEF R
  <1> QED
    BY <1>2, <1>3

\* Of finite sets some property does not hold of, one is smallest.
LEMMA SmallestSet ==
    ASSUME NEW F, F # {}, \A S \in F : IsFiniteSet(S)
    PROVE  \E S \in F : \A s \in F : Cardinality(S) <= Cardinality(s)
  <1> DEFINE T == {Cardinality(S) : S \in F}
  <1>1. T \subseteq Nat /\ T # {}
    BY FS_CardinalityType
  <1>2. PICK m \in T : \A n \in T : m <= n
    BY <1>1, LeastNatural
  <1> QED
    BY <1>2

\* A set without one of its members is smaller.
LEMMA WithoutIsSmaller ==
    ASSUME NEW S, IsFiniteSet(S), NEW x \in S
    PROVE  IsFiniteSet(S \ {x}) /\ Cardinality(S \ {x}) < Cardinality(S)
  <1>1. /\ IsFiniteSet(S \ {x})
        /\ Cardinality(S \ {x}) = Cardinality(S) - 1
    BY FS_RemoveElement
  <1> QED
    BY <1>1, FS_CardinalityType

\* The sum that Bytes is, as Folds defines it: of a set and all its parts at
\* once, each from that of one member less.
Pick(s) == CHOOSE x \in s : TRUE
IsSum(f, sz, S) ==
    f = [s \in SUBSET S |-> IF s = {} THEN 0 ELSE sz[Pick(s)] + f[s \ {Pick(s)}]]

LEMMA BytesIsSum ==
    ASSUME NEW sz, NEW S
    PROVE  Bytes(sz, S) = (CHOOSE f : IsSum(f, sz, S))[S]
  BY DEF Bytes, MapThenSumSet, MapThenFoldSet, IsSum, Pick

LEMMA PickIsIn == ASSUME NEW s, s # {} PROVE Pick(s) \in s
  BY DEF Pick

LEMMA SumIsUnique ==
    ASSUME NEW sz, NEW S, IsFiniteSet(S), NEW f, NEW g, IsSum(f, sz, S), IsSum(g, sz, S)
    PROVE  f = g
  <1> DEFINE F == {s \in SUBSET S : f[s] # g[s]}
  <1>1. \A s \in F : IsFiniteSet(s)
    BY FS_Subset
  <1>2. ASSUME F # {} PROVE FALSE
    <2>1. PICK s \in F : \A t \in F : Cardinality(s) <= Cardinality(t)
      BY <1>1, <1>2, SmallestSet
    <2>2. s # {} /\ IsFiniteSet(s) /\ s \in SUBSET S
      BY <1>1, <2>1 DEF IsSum
    <2>3. Pick(s) \in s /\ s \ {Pick(s)} \in SUBSET S
      BY <2>2, PickIsIn
    <2>4. /\ Cardinality(s \ {Pick(s)}) < Cardinality(s)
          /\ Cardinality(s) \in Nat /\ Cardinality(s \ {Pick(s)}) \in Nat
      BY <2>2, <2>3, WithoutIsSmaller, FS_CardinalityType
    <2>5. s \ {Pick(s)} \notin F
      BY <2>1, <2>4
    <2>6. f[s \ {Pick(s)}] = g[s \ {Pick(s)}]
      BY <2>3, <2>5
    <2> QED
      BY <2>1, <2>2, <2>6 DEF IsSum
  <1> QED
    BY <1>2 DEF IsSum

LEMMA SumOfPart ==
    ASSUME NEW sz, NEW S, NEW f, IsSum(f, sz, S), NEW t \in SUBSET S
    PROVE  IsSum([s \in SUBSET t |-> f[s]], sz, t)
  <1> DEFINE g == [s \in SUBSET t |-> f[s]]
  <1>1. ASSUME NEW s \in SUBSET t
        PROVE  g[s] = IF s = {} THEN 0 ELSE sz[Pick(s)] + g[s \ {Pick(s)}]
    <2>1. s \in SUBSET S /\ s \ {Pick(s)} \in SUBSET t
      OBVIOUS
    <2>2. f[s] = IF s = {} THEN 0 ELSE sz[Pick(s)] + f[s \ {Pick(s)}]
      BY <2>1 DEF IsSum
    <2> QED
      BY <2>1, <2>2
  <1> QED
    BY <1>1 DEF IsSum

LEMMA SumExists ==
    ASSUME NEW sz, NEW S, IsFiniteSet(S)
    PROVE  \E f : IsSum(f, sz, S)
  <1> DEFINE F == {s \in SUBSET S : ~\E f : IsSum(f, sz, s)}
             Val(s) == (CHOOSE f : IsSum(f, sz, s))[s]
  <1> SUFFICES ASSUME F # {} PROVE FALSE
    OBVIOUS
  <1>1. \A s \in F : IsFiniteSet(s)
    BY FS_Subset
  <1>2. PICK U \in F : \A t \in F : Cardinality(U) <= Cardinality(t)
    BY <1>1, SmallestSet
  <1>3. IsFiniteSet(U) /\ U \in SUBSET S
    BY <1>1, <1>2
  <1>4. ASSUME NEW t \in SUBSET U, t # U PROVE \E g : IsSum(g, sz, t)
    <2>1. Cardinality(t) < Cardinality(U) /\ Cardinality(t) \in Nat /\ Cardinality(U) \in Nat
      <3>1. IsFiniteSet(t) /\ Cardinality(t) <= Cardinality(U)
            /\ (Cardinality(t) = Cardinality(U) => t = U)
        BY <1>3, <1>4, FS_Subset
      <3>2. Cardinality(t) \in Nat /\ Cardinality(U) \in Nat
        BY <1>3, <3>1, FS_CardinalityType
      <3>3. Cardinality(t) # Cardinality(U)
        BY <1>4, <3>1
      <3> QED
        BY <3>1, <3>2, <3>3
    <2>2. t \notin F
      BY <1>2, <2>1
    <2> QED
      BY <1>3, <2>2
  <1> DEFINE f == [s \in SUBSET U |->
                     IF s # U THEN Val(s)
                     ELSE IF U = {} THEN 0 ELSE sz[Pick(U)] + Val(U \ {Pick(U)})]
  <1>5. ASSUME NEW s \in SUBSET U, s # U, s # {}
        PROVE  Val(s) = sz[Pick(s)] + Val(s \ {Pick(s)})
    <2>1. PICK g : g = CHOOSE h : IsSum(h, sz, s)
      OBVIOUS
    <2>2. IsSum(g, sz, s)
      BY <1>4, <1>5, <2>1
    <2>3. PICK t : t = s \ {Pick(s)}
      OBVIOUS
    <2>4. t \in SUBSET s /\ t \in SUBSET U /\ t # U /\ IsFiniteSet(t)
      BY <1>3, <1>5, <2>3, FS_Subset
    <2>5. PICK h : h = CHOOSE k : IsSum(k, sz, t)
      OBVIOUS
    <2>6. IsSum(h, sz, t)
      BY <1>4, <2>4, <2>5
    <2>7. h = [u \in SUBSET t |-> g[u]]
      <3>1. IsSum([u \in SUBSET t |-> g[u]], sz, t)
        BY <2>2, <2>4, SumOfPart
      <3>2. PICK k : k = [u \in SUBSET t |-> g[u]]
        OBVIOUS
      <3>3. IsSum(k, sz, t)
        BY <3>1, <3>2
      <3>4. k = h
        BY <2>4, <2>6, <3>3, SumIsUnique
      <3> QED
        BY <3>2, <3>4
    <2>8. h[t] = g[t]
      BY <2>7
    <2>9. g[s] = sz[Pick(s)] + g[t]
      BY <1>5, <2>2, <2>3 DEF IsSum
    <2> QED
      BY <2>1, <2>3, <2>5, <2>8, <2>9
  <1>6. ASSUME NEW s \in SUBSET U
        PROVE  f[s] = IF s = {} THEN 0 ELSE sz[Pick(s)] + f[s \ {Pick(s)}]
    <2>1. CASE s = {} /\ s # U
      <3>1. IsSum(CHOOSE h : IsSum(h, sz, {}), sz, {})
        BY <1>4, <2>1
      <3>2. Val({}) = 0
        BY <3>1 DEF IsSum
      <3> QED
        BY <2>1, <3>2
    <2>2. CASE s = U /\ s = {}
      BY <2>2
    <2>3. CASE s = U /\ s # {}
      <3>1. Pick(s) \in s
        BY <2>3, PickIsIn
      <3>2. f[U \ {Pick(U)}] = Val(U \ {Pick(U)})
        BY <2>3, <3>1
      <3> QED
        BY <2>3, <3>2
    <2>4. CASE s # U /\ s # {}
      <3>1. s \ {Pick(s)} \in SUBSET U /\ s \ {Pick(s)} # U
        BY <2>4
      <3>2. f[s \ {Pick(s)}] = Val(s \ {Pick(s)}) /\ f[s] = Val(s)
        BY <2>4, <3>1
      <3>3. Val(s) = sz[Pick(s)] + Val(s \ {Pick(s)})
        BY <1>5, <2>4
      <3> HIDE DEF Val, f
      <3> QED
        BY <2>4, <3>2, <3>3
    <2> QED
      BY <2>1, <2>2, <2>3, <2>4
  <1>7. IsSum(f, sz, U)
    <2>1. f = [s \in SUBSET U |-> f[s]]
      OBVIOUS
    <2> HIDE DEF f
    <2>2. [s \in SUBSET U |-> f[s]]
            = [s \in SUBSET U |-> IF s = {} THEN 0 ELSE sz[Pick(s)] + f[s \ {Pick(s)}]]
      BY <1>6
    <2> QED
      BY <2>1, <2>2 DEF IsSum
  <1> QED
    BY <1>2, <1>7

\* How the bytes of a finite set are added up: one member at a time.
LEMMA BytesStep ==
    ASSUME NEW sz, NEW S, IsFiniteSet(S)
    PROVE  Bytes(sz, S) = IF S = {} THEN 0 ELSE sz[Pick(S)] + Bytes(sz, S \ {Pick(S)})
  <1>1. PICK f : f = CHOOSE g : IsSum(g, sz, S)
    OBVIOUS
  <1>2. IsSum(f, sz, S) /\ Bytes(sz, S) = f[S]
    BY <1>1, SumExists, BytesIsSum
  <1>3. CASE S = {}
    BY <1>2, <1>3 DEF IsSum
  <1>4. CASE S # {}
    <2>1. PICK t : t = S \ {Pick(S)}
      OBVIOUS
    <2>2. IsFiniteSet(t) /\ t \in SUBSET S
      BY <2>1, FS_Subset
    <2>3. PICK h : h = CHOOSE g : IsSum(g, sz, t)
      OBVIOUS
    <2>4. IsSum(h, sz, t) /\ Bytes(sz, t) = h[t]
      BY <2>2, <2>3, SumExists, BytesIsSum
    <2>5. PICK k : k = [u \in SUBSET t |-> f[u]]
      OBVIOUS
    <2>6. IsSum(k, sz, t)
      BY <1>2, <2>2, <2>5, SumOfPart
    <2>7. h = k
      BY <2>2, <2>4, <2>6, SumIsUnique
    <2>8. h[t] = f[t]
      BY <2>5, <2>7
    <2>9. f[S] = sz[Pick(S)] + f[t]
      BY <1>2, <1>4, <2>1 DEF IsSum
    <2> QED
      BY <1>2, <1>4, <2>1, <2>4, <2>8, <2>9
  <1> QED
    BY <1>3, <1>4

LEMMA BytesAreNatural ==
    ASSUME NEW A, NEW sz \in [A -> Nat], NEW S \in SUBSET A, IsFiniteSet(S)
    PROVE  Bytes(sz, S) \in Nat
  <1> DEFINE F == {s \in SUBSET S : Bytes(sz, s) \notin Nat}
  <1> SUFFICES ASSUME F # {} PROVE FALSE
    OBVIOUS
  <1>1. \A s \in F : IsFiniteSet(s)
    BY FS_Subset
  <1>2. PICK s \in F : \A t \in F : Cardinality(s) <= Cardinality(t)
    BY <1>1, SmallestSet
  <1>3. IsFiniteSet(s) /\ s \in SUBSET S /\ Bytes(sz, s) \notin Nat
    BY <1>1, <1>2
  <1>4. s # {} /\ Bytes(sz, s) = sz[Pick(s)] + Bytes(sz, s \ {Pick(s)})
    BY <1>3, BytesStep
  <1>5. Pick(s) \in s
    BY <1>4, PickIsIn
  <1>6. /\ Cardinality(s \ {Pick(s)}) < Cardinality(s)
        /\ Cardinality(s) \in Nat /\ Cardinality(s \ {Pick(s)}) \in Nat
    BY <1>3, <1>5, WithoutIsSmaller, FS_CardinalityType
  <1>7. s \ {Pick(s)} \notin F /\ s \ {Pick(s)} \in SUBSET S
    BY <1>2, <1>3, <1>6
  <1>8. Bytes(sz, s \ {Pick(s)}) \in Nat /\ sz[Pick(s)] \in Nat
    BY <1>3, <1>5, <1>7
  <1> QED
    BY <1>3, <1>4, <1>8

\* It does not matter which comes first.
LEMMA BytesWithout ==
    ASSUME NEW A, NEW sz \in [A -> Nat], NEW S \in SUBSET A, IsFiniteSet(S), NEW x \in S
    PROVE  Bytes(sz, S) = sz[x] + Bytes(sz, S \ {x})
  <1> DEFINE F == {s \in SUBSET S :
                     \E y \in s : Bytes(sz, s) # sz[y] + Bytes(sz, s \ {y})}
  <1> SUFFICES ASSUME F # {} PROVE FALSE
    OBVIOUS
  <1>1. \A s \in F : IsFiniteSet(s)
    BY FS_Subset
  <1>2. PICK s \in F : \A t \in F : Cardinality(s) <= Cardinality(t)
    BY <1>1, SmallestSet
  <1>3. PICK y \in s : Bytes(sz, s) # sz[y] + Bytes(sz, s \ {y})
    BY <1>2
  <1>4. IsFiniteSet(s) /\ s \in SUBSET S
    BY <1>1, <1>2
  <1>5. PICK z : z = Pick(s)
    OBVIOUS
  <1>6. z \in s /\ Bytes(sz, s) = sz[z] + Bytes(sz, s \ {z})
    BY <1>3, <1>4, <1>5, BytesStep, PickIsIn
  <1>7. y # z
    BY <1>3, <1>6
  <1>8. ASSUME NEW v \in s
        PROVE  /\ s \ {v} \notin F /\ s \ {v} \in SUBSET S
               /\ IsFiniteSet(s \ {v})
    <2>1. /\ Cardinality(s \ {v}) < Cardinality(s) /\ IsFiniteSet(s \ {v})
          /\ Cardinality(s) \in Nat /\ Cardinality(s \ {v}) \in Nat
      BY <1>4, WithoutIsSmaller, FS_CardinalityType
    <2> QED
      BY <1>2, <1>4, <2>1
  <1>9. Bytes(sz, s \ {z}) = sz[y] + Bytes(sz, (s \ {z}) \ {y})
    BY <1>6, <1>7, <1>8
  <1>10. Bytes(sz, s \ {y}) = sz[z] + Bytes(sz, (s \ {y}) \ {z})
    BY <1>6, <1>7, <1>8
  <1>11. Bytes(sz, (s \ {z}) \ {y}) = Bytes(sz, (s \ {y}) \ {z})
    <2>1. (s \ {z}) \ {y} = (s \ {y}) \ {z}
      OBVIOUS
    <2> QED
      BY <2>1
  <1>12. /\ sz[y] \in Nat /\ sz[z] \in Nat
         /\ Bytes(sz, (s \ {y}) \ {z}) \in Nat
    <2>1. IsFiniteSet((s \ {y}) \ {z}) /\ (s \ {y}) \ {z} \in SUBSET A
      BY <1>4, FS_Subset
    <2> QED
      BY <1>4, <1>6, <2>1, BytesAreNatural
  <1> HIDE DEF F
  <1> QED
    BY <1>3, <1>6, <1>9, <1>10, <1>11, <1>12

LEMMA BytesOfNone == ASSUME NEW sz PROVE Bytes(sz, {}) = 0
  BY BytesStep, FS_EmptySet

\* The bytes of a set are those of a part and of the rest.
LEMMA BytesOfParts ==
    ASSUME NEW A, NEW sz \in [A -> Nat], NEW S \in SUBSET A, IsFiniteSet(S),
           NEW D \in SUBSET S
    PROVE  Bytes(sz, S) = Bytes(sz, D) + Bytes(sz, S \ D)
  <1> DEFINE F == {d \in SUBSET D : Bytes(sz, S) # Bytes(sz, d) + Bytes(sz, S \ d)}
  <1>0. \A d \in SUBSET D : /\ IsFiniteSet(d) /\ IsFiniteSet(S \ d)
                            /\ d \in SUBSET A /\ S \ d \in SUBSET A
                            /\ Bytes(sz, d) \in Nat /\ Bytes(sz, S \ d) \in Nat
    <2>1. \A d \in SUBSET D : /\ IsFiniteSet(d) /\ IsFiniteSet(S \ d)
                              /\ d \in SUBSET A /\ S \ d \in SUBSET A
      BY FS_Subset
    <2> QED
      BY <2>1, BytesAreNatural
  <1> SUFFICES ASSUME F # {} PROVE FALSE
    OBVIOUS
  <1>1. \A d \in F : IsFiniteSet(d)
    BY <1>0
  <1>2. PICK d \in F : \A t \in F : Cardinality(d) <= Cardinality(t)
    BY <1>1, SmallestSet
  <1>3. d \in SUBSET D /\ Bytes(sz, S) # Bytes(sz, d) + Bytes(sz, S \ d)
    BY <1>2
  <1>4. d # {}
    <2>1. S \ {} = S /\ Bytes(sz, S) \in Nat
      BY BytesAreNatural
    <2> SUFFICES ASSUME d = {} PROVE FALSE
      OBVIOUS
    <2>2. Bytes(sz, d) = 0 /\ Bytes(sz, S \ d) = Bytes(sz, S)
      BY <2>1, BytesOfNone
    <2> QED
      BY <1>3, <2>1, <2>2
  <1>5. PICK x \in d : TRUE
    BY <1>4
  <1>6. d \ {x} \notin F /\ d \ {x} \in SUBSET D
    <2>1. /\ Cardinality(d \ {x}) < Cardinality(d)
          /\ Cardinality(d) \in Nat /\ Cardinality(d \ {x}) \in Nat
      BY <1>1, <1>5, WithoutIsSmaller, FS_CardinalityType
    <2> QED
      BY <1>2, <1>3, <2>1
  <1>7. Bytes(sz, S) = Bytes(sz, d \ {x}) + Bytes(sz, S \ (d \ {x}))
    BY <1>6
  <1>8. Bytes(sz, d) = sz[x] + Bytes(sz, d \ {x})
    BY <1>0, <1>3, <1>5, BytesWithout
  <1>9. Bytes(sz, S \ (d \ {x})) = sz[x] + Bytes(sz, S \ d)
    <2>1. (S \ (d \ {x})) \ {x} = S \ d /\ x \in S \ (d \ {x})
      BY <1>3, <1>5
    <2> QED
      BY <1>0, <1>6, <2>1, BytesWithout
  <1>10. /\ sz[x] \in Nat /\ Bytes(sz, d \ {x}) \in Nat /\ Bytes(sz, S \ d) \in Nat
    BY <1>0, <1>3, <1>5, <1>6
  <1> HIDE DEF F
  <1> QED
    BY <1>3, <1>7, <1>8, <1>9, <1>10

\* What others are counted for makes no difference.
LEMMA BytesAgree ==
    ASSUME NEW A, NEW sz \in [A -> Nat], NEW tz \in [A -> Nat],
           NEW S \in SUBSET A, IsFiniteSet(S), \A x \in S : sz[x] = tz[x]
    PROVE  Bytes(sz, S) = Bytes(tz, S)
  <1> DEFINE F == {s \in SUBSET S : Bytes(sz, s) # Bytes(tz, s)}
  <1> SUFFICES ASSUME F # {} PROVE FALSE
    OBVIOUS
  <1>1. \A s \in F : IsFiniteSet(s)
    BY FS_Subset
  <1>2. PICK s \in F : \A t \in F : Cardinality(s) <= Cardinality(t)
    BY <1>1, SmallestSet
  <1>3. IsFiniteSet(s) /\ s \in SUBSET S /\ Bytes(sz, s) # Bytes(tz, s)
    BY <1>1, <1>2
  <1>4. s # {}
    BY <1>3, BytesOfNone
  <1>5. PICK x \in s : TRUE
    BY <1>4
  <1>6. s \ {x} \notin F /\ s \ {x} \in SUBSET S
    <2>1. /\ Cardinality(s \ {x}) < Cardinality(s)
          /\ Cardinality(s) \in Nat /\ Cardinality(s \ {x}) \in Nat
      BY <1>3, <1>5, WithoutIsSmaller, FS_CardinalityType
    <2> QED
      BY <1>2, <1>3, <2>1
  <1>7. Bytes(sz, s \ {x}) = Bytes(tz, s \ {x}) /\ sz[x] = tz[x] /\ s \in SUBSET A
    BY <1>3, <1>5, <1>6
  <1> QED
    BY <1>3, <1>5, <1>7, BytesWithout

-----------------------------------------------------------------------------
(***************************************************************************)
(* Lists without duplicates.                                               *)
(***************************************************************************)
LEMMA ListMembers ==
    ASSUME NEW S, NEW s \in Seq(S)
    PROVE  /\ Len(s) \in Nat /\ DOMAIN s = 1..Len(s)
           /\ ToSet(s) = {s[n] : n \in 1..Len(s)} /\ ToSet(s) \subseteq S
           /\ \A n \in 1..Len(s) : s[n] \in S
  BY DEF ToSet

\* An element put in front.
LEMMA InFront ==
    ASSUME NEW S, NEW s \in Seq(S), IsInjective(s), NEW e \in S \ ToSet(s)
    PROVE  /\ <<e>> \o s \in Seq(S) /\ IsInjective(<<e>> \o s)
           /\ ToSet(<<e>> \o s) = ToSet(s) \cup {e}
           /\ Len(<<e>> \o s) = Len(s) + 1 /\ (<<e>> \o s)[1] = e
  <1>1. PICK t : t = <<e>> \o s
    OBVIOUS
  <1>2. /\ t \in Seq(S) /\ Len(t) = Len(s) + 1 /\ Len(s) \in Nat
        /\ \A n \in 1..Len(t) : t[n] = IF n = 1 THEN e ELSE s[n - 1]
    <2>1. /\ <<e>> \in Seq(S) /\ Len(<<e>>) = 1 /\ <<e>>[1] = e
      OBVIOUS
    <2> QED
      BY <1>1, <2>1, ConcatProperties
  <1>3. \A n \in 1..Len(s) : s[n] # e /\ t[n + 1] = s[n]
    BY <1>2, ListMembers
  <1>4. IsInjective(t)
    <2> SUFFICES ASSUME NEW a \in 1..Len(t), NEW b \in 1..Len(t), t[a] = t[b]
                 PROVE  a = b
      BY <1>2, ListMembers DEF IsInjective
    <2>1. \A n, m \in 1..Len(s) : s[n] = s[m] => n = m
      BY ListMembers DEF IsInjective
    <2>2. CASE a = 1 /\ b # 1
      <3>1. b - 1 \in 1..Len(s) /\ t[b] = s[b - 1] /\ t[a] = e
        BY <1>2, <2>2
      <3> QED
        BY <1>3, <3>1
    <2>3. CASE a # 1 /\ b = 1
      <3>1. a - 1 \in 1..Len(s) /\ t[a] = s[a - 1] /\ t[b] = e
        BY <1>2, <2>3
      <3> QED
        BY <1>3, <3>1
    <2>4. CASE a # 1 /\ b # 1
      <3>1. /\ a - 1 \in 1..Len(s) /\ t[a] = s[a - 1]
            /\ b - 1 \in 1..Len(s) /\ t[b] = s[b - 1]
        BY <1>2, <2>4
      <3>2. a - 1 = b - 1
        BY <2>1, <3>1
      <3> QED
        BY <3>2
    <2> QED
      BY <2>2, <2>3, <2>4
  <1>5. ToSet(t) = ToSet(s) \cup {e}
    <2>1. ToSet(t) = {t[n] : n \in 1..Len(t)} /\ ToSet(s) = {s[n] : n \in 1..Len(s)}
      BY <1>2, ListMembers
    <2>2. ASSUME NEW x \in ToSet(t) PROVE x \in ToSet(s) \cup {e}
      BY <1>2, <2>1, <2>2
    <2>3. ASSUME NEW x \in ToSet(s) \cup {e} PROVE x \in ToSet(t)
      BY <1>2, <1>3, <2>1, <2>3
    <2> QED
      BY <2>2, <2>3
  <1> QED
    BY <1>1, <1>2, <1>4, <1>5

\* The first n elements, and the rest.
LEMMA FirstAndRest ==
    ASSUME NEW S, NEW s \in Seq(S), IsInjective(s), NEW n \in 0..Len(s)
    PROVE  LET first == SubSeq(s, 1, n)
               rest == SubSeq(s, n + 1, Len(s))
           IN  /\ first \in Seq(S) /\ IsInjective(first) /\ rest \in Seq(S)
               /\ ToSet(rest) \subseteq ToSet(s)
               /\ ToSet(first) = ToSet(s) \ ToSet(rest)
               /\ n > 0 => s[1] \in ToSet(first)
  <1>1. PICK f, r : f = SubSeq(s, 1, n) /\ r = SubSeq(s, n + 1, Len(s))
    OBVIOUS
  <1>2. /\ Len(s) \in Nat /\ n \in Nat /\ n <= Len(s)
        /\ \A m \in 1..Len(s) : s[m] \in S
    BY ListMembers
  <1>3. f \in Seq(S) /\ Len(f) = n /\ \A m \in 1..n : f[m] = s[m]
    BY <1>1, <1>2, SubSeqProperties
  <1>4. r \in Seq(S) /\ Len(r) = Len(s) - n /\ \A m \in 1..Len(s) - n : r[m] = s[m + n]
    BY <1>1, <1>2, SubSeqProperties
  <1>5. \A a, b \in 1..Len(s) : s[a] = s[b] => a = b
    BY ListMembers DEF IsInjective
  <1>6. IsInjective(f)
    BY <1>2, <1>3, <1>5, ListMembers DEF IsInjective
  <1>7. /\ ToSet(f) = {f[m] : m \in 1..n} /\ ToSet(r) = {r[m] : m \in 1..Len(s) - n}
        /\ ToSet(s) = {s[m] : m \in 1..Len(s)}
    BY <1>3, <1>4, ListMembers
  <1>8. ToSet(r) \subseteq ToSet(s)
    BY <1>2, <1>4, <1>7
  <1>9. ASSUME NEW x \in ToSet(f) PROVE x \in ToSet(s) \ ToSet(r)
    <2>1. PICK m \in 1..n : x = s[m]
      BY <1>3, <1>7
    <2>2. ASSUME x \in ToSet(r) PROVE FALSE
      <3>1. PICK l \in 1..Len(s) - n : x = s[l + n]
        BY <1>4, <1>7, <2>2
      <3>2. m \in 1..Len(s) /\ l + n \in 1..Len(s) /\ m # l + n
        BY <1>2
      <3> QED
        BY <1>5, <2>1, <3>1, <3>2
    <2> QED
      BY <1>2, <1>7, <2>1, <2>2
  <1>10. ASSUME NEW x \in ToSet(s) \ ToSet(r) PROVE x \in ToSet(f)
    <2>1. PICK m \in 1..Len(s) : x = s[m]
      BY <1>7
    <2>2. ASSUME m > n PROVE FALSE
      <3>1. m - n \in 1..Len(s) - n /\ r[m - n] = s[m]
        <4>1. m - n \in 1..Len(s) - n /\ (m - n) + n = m
          BY <1>2, <2>2
        <4> QED
          BY <1>4, <4>1
      <3> QED
        BY <1>7, <1>10, <2>1, <3>1
    <2>3. m \in 1..n
      BY <1>2, <2>2
    <2> QED
      BY <1>3, <1>7, <2>1, <2>3
  <1>11. n > 0 => s[1] \in ToSet(f)
    BY <1>2, <1>3, <1>7
  <1> QED
    BY <1>1, <1>3, <1>4, <1>6, <1>8, <1>9, <1>10, <1>11

\* One element taken out.
LEMMA TakenOut ==
    ASSUME NEW S, NEW s \in Seq(S), IsInjective(s), NEW e \in ToSet(s)
    PROVE  LET t == RemoveAt(s, CHOOSE n \in DOMAIN s : s[n] = e)
           IN  /\ t \in Seq(S) /\ IsInjective(t)
               /\ ToSet(t) = ToSet(s) \ {e}
  <1>1. PICK i : i = CHOOSE n \in DOMAIN s : s[n] = e
    OBVIOUS
  <1>2. /\ i \in 1..Len(s) /\ s[i] = e /\ Len(s) \in Nat
        /\ \A m \in 1..Len(s) : s[m] \in S
    BY <1>1, ListMembers
  <1>3. PICK t : t = RemoveAt(s, i)
    OBVIOUS
  <1>4. /\ t \in Seq(S) /\ Len(t) = Len(s) - 1
        /\ \A n \in 1..Len(t) : t[n] = IF n < i THEN s[n] ELSE s[n + 1]
    <2>1. PICK f, r : f = SubSeq(s, 1, i - 1) /\ r = SubSeq(s, i + 1, Len(s))
      OBVIOUS
    <2>2. f \in Seq(S) /\ Len(f) = i - 1 /\ \A m \in 1..i - 1 : f[m] = s[m]
      BY <1>2, <2>1, SubSeqProperties
    <2>3. r \in Seq(S) /\ Len(r) = Len(s) - i /\ \A m \in 1..Len(s) - i : r[m] = s[m + i]
      BY <1>2, <2>1, SubSeqProperties
    <2>4. t = f \o r
      BY <1>3, <2>1 DEF RemoveAt
    <2>5. /\ t \in Seq(S) /\ Len(t) = Len(f) + Len(r)
          /\ \A n \in 1..Len(f) + Len(r) :
                t[n] = IF n <= Len(f) THEN f[n] ELSE r[n - Len(f)]
      BY <2>2, <2>3, <2>4, ConcatProperties
    <2>6. Len(t) = Len(s) - 1
      BY <1>2, <2>2, <2>3, <2>5
    <2>7. ASSUME NEW n \in 1..Len(t), n < i PROVE t[n] = s[n]
      BY <1>2, <2>2, <2>3, <2>5, <2>7
    <2>8. ASSUME NEW n \in 1..Len(t), ~(n < i) PROVE t[n] = s[n + 1]
      <3>1. n - (i - 1) \in 1..Len(s) - i /\ (n - (i - 1)) + i = n + 1 /\ ~(n <= i - 1)
        BY <1>2, <2>6, <2>8
      <3>2. n \in 1..Len(f) + Len(r)
        BY <2>5
      <3> QED
        BY <2>2, <2>3, <2>5, <3>1, <3>2
    <2> QED
      BY <2>5, <2>6, <2>7, <2>8
  <1>5. \A a, b \in 1..Len(s) : s[a] = s[b] => a = b
    BY ListMembers DEF IsInjective
  <1>6. IsInjective(t)
    <2> SUFFICES ASSUME NEW a \in 1..Len(t), NEW b \in 1..Len(t), t[a] = t[b]
                 PROVE  a = b
      BY <1>4, ListMembers DEF IsInjective
    <2>1. PICK c, d \in 1..Len(s) :
             /\ c = IF a < i THEN a ELSE a + 1
             /\ d = IF b < i THEN b ELSE b + 1
      BY <1>2, <1>4
    <2>2. t[a] = s[c] /\ t[b] = s[d]
      BY <1>4, <2>1
    <2>3. c = d
      BY <1>5, <2>2
    <2> QED
      BY <1>2, <1>4, <2>1, <2>3
  <1>7. ToSet(t) = {t[m] : m \in 1..Len(t)} /\ ToSet(s) = {s[m] : m \in 1..Len(s)}
    BY <1>4, ListMembers
  <1>8. ASSUME NEW x \in ToSet(t) PROVE x \in ToSet(s) \ {e}
    <2>1. PICK m \in 1..Len(t) : x = t[m]
      BY <1>7
    <2>2. PICK l \in 1..Len(s) : l = IF m < i THEN m ELSE m + 1
      BY <1>2, <1>4
    <2>3. x = s[l] /\ l # i
      BY <1>2, <1>4, <2>1, <2>2
    <2> QED
      BY <1>2, <1>5, <1>7, <2>3
  <1>9. ASSUME NEW x \in ToSet(s) \ {e} PROVE x \in ToSet(t)
    <2>1. PICK m \in 1..Len(s) : x = s[m]
      BY <1>7
    <2>2. m # i
      BY <1>2, <1>9, <2>1
    <2>3. PICK l \in 1..Len(t) : l = IF m < i THEN m ELSE m - 1
      BY <1>2, <1>4, <2>2
    <2>4. t[l] = s[m]
      <3>1. CASE m < i
        BY <1>4, <2>3, <3>1
      <3>2. CASE m > i
        <4>1. l = m - 1 /\ ~(l < i) /\ l + 1 = m
          BY <1>2, <2>3, <3>2
        <4> QED
          BY <1>4, <4>1
      <3> QED
        BY <1>2, <2>2, <3>1, <3>2
    <2> QED
      BY <1>7, <2>1, <2>4
  <1> QED
    BY <1>1, <1>3, <1>4, <1>6, <1>8, <1>9

-----------------------------------------------------------------------------
(* The caches' inductive invariant.                                        *)

CacheTypes ==
    /\ entries \in [Tiles -> Asks \cup {None}]
    /\ ask \in [Asks -> AskState]
    /\ outcome \in [Asks -> {None, "tile", "absent", "failed"}]
    /\ closed \subseteq Asks
    /\ interrupted \in BOOLEAN

\* What the map holds for a tile is an entry made for it.
MapIsOfEntries ==
    \A k \in Tiles : entries[k] # None =>
        /\ ask[entries[k]].tile = k
        /\ ask[entries[k]].phase # "idle"

\* A reader's entry is its own; whoever waits or was answered has one.
EntryOwned ==
    \A i \in Asks :
        /\ ask[i].phase # "idle" => ask[i].entry \in Asks /\ ask[i].tile \in Tiles
        /\ ask[i].phase \in {"reading", "read", "settled"} => ask[i].entry = i

\* An answer is that of a closed entry, and its reader has answered.
AnswersAreClosed ==
    /\ \A i \in Asks : ask[i].phase = "answered" => ask[i].entry \in closed
    /\ \A e \in closed : ask[e].phase = "answered"

\* A failed read has left the map by the time it is settled.
FailedIsForgotten ==
    \A i \in Asks :
        /\ i \in closed \/ ask[i].phase = "settled"
        /\ outcome[i] = "failed"
        => \A k \in Tiles : entries[k] # i

CacheInv ==
    CacheTypes /\ MapIsOfEntries /\ EntryOwned /\ AnswersAreClosed
        /\ FailedIsForgotten

LEMMA CacheInvInit == CacheInit => CacheInv
  <1> SUFFICES ASSUME CacheInit PROVE CacheInv
    OBVIOUS
  <1>1. CacheTypes
    BY DEF CacheInit, CacheTypes, AskState, Idle
  <1>2. MapIsOfEntries /\ EntryOwned /\ AnswersAreClosed /\ FailedIsForgotten
    BY DEF CacheInit, MapIsOfEntries, EntryOwned, AnswersAreClosed,
           FailedIsForgotten, Idle
  <1> QED
    BY <1>1, <1>2 DEF CacheInv

\* Entries leave the map by WithoutEntries and nothing else happens to it.
LEMMA WithoutEntriesOnlyDrops ==
    ASSUME NEW map \in [Tiles -> Asks \cup {None}], NEW dropped
    PROVE  /\ WithoutEntries(map, dropped) \in [Tiles -> Asks \cup {None}]
           /\ \A k \in Tiles : WithoutEntries(map, dropped)[k] \in {None, map[k]}
  BY DEF WithoutEntries

\* Every step of a call changes that call only, which has not answered yet,
\* and the outcome of no entry that is closed.
StepOf(i) ==
    /\ ask[i].phase # "answered"
    /\ ask'[i].phase # "idle"
    /\ \A j \in Asks \ {i} : ask'[j] = ask[j]
    /\ \A e \in closed : outcome'[e] = outcome[e]
    /\ closed \subseteq closed'
    /\ interrupted' = interrupted

LEMMA HitKeeps ==
    ASSUME CacheInv, NEW i \in Asks, NEW k \in Tiles, Hit(i, k)
    PROVE  CacheInv' /\ StepOf(i)
  <1> USE CacheAssumption
  <1> DEFINE e == entries[k]
  <1>1. e \in Asks /\ e # i /\ ask[e].tile = k
    BY DEF CacheInv, CacheTypes, MapIsOfEntries, Hit
  <1>2. /\ ask' = [ask EXCEPT ![i] = [phase |-> "waiting", tile |-> k, entry |-> e]]
        /\ UNCHANGED <<entries, outcome, closed, interrupted>>
        /\ ask[i].phase = "idle"
    BY DEF Hit
  <1>3. CacheTypes'
    BY <1>1, <1>2 DEF CacheInv, CacheTypes, AskState
  <1>4. MapIsOfEntries'
    BY <1>1, <1>2 DEF CacheInv, CacheTypes, MapIsOfEntries
  <1>5. EntryOwned'
    BY <1>1, <1>2 DEF CacheInv, CacheTypes, EntryOwned
  <1>6. AnswersAreClosed'
    BY <1>1, <1>2 DEF CacheInv, CacheTypes, AnswersAreClosed
  <1>7. FailedIsForgotten'
    BY <1>1, <1>2 DEF CacheInv, CacheTypes, FailedIsForgotten
  <1>8. StepOf(i)
    BY <1>1, <1>2 DEF StepOf, CacheInv, CacheTypes
  <1> QED
    BY <1>3, <1>4, <1>5, <1>6, <1>7, <1>8 DEF CacheInv

LEMMA MissKeeps ==
    ASSUME CacheInv, NEW i \in Asks, NEW k \in Tiles, Miss(i, k)
    PROVE  CacheInv' /\ StepOf(i)
  <1> USE CacheAssumption
  <1> DEFINE with == [entries EXCEPT ![k] = i]
  <1>1. PICK dropped : entries' = WithoutEntries(with, dropped)
    BY DEF Miss
  <1>2. with \in [Tiles -> Asks \cup {None}]
    BY DEF CacheInv, CacheTypes
  <1>3. /\ entries' \in [Tiles -> Asks \cup {None}]
        /\ \A l \in Tiles : entries'[l] \in {None, with[l]}
    BY <1>1, <1>2, WithoutEntriesOnlyDrops
  <1>4. /\ ask' = [ask EXCEPT ![i] = [phase |-> "reading", tile |-> k, entry |-> i]]
        /\ UNCHANGED <<outcome, closed, interrupted>>
        /\ ask[i].phase = "idle"
    BY DEF Miss
  <1>5. \A l \in Tiles : entries'[l] \in {None, entries[l]} \/ (l = k /\ entries'[l] = i)
    BY <1>3 DEF CacheInv, CacheTypes
  <1>6. \A l \in Tiles : entries[l] # i
    BY <1>4 DEF CacheInv, CacheTypes, MapIsOfEntries
  <1> HIDE DEF with
  <1>7. CacheTypes'
    BY <1>3, <1>4 DEF CacheInv, CacheTypes, AskState
  <1>8. MapIsOfEntries'
    BY <1>3, <1>4, <1>5, <1>6 DEF CacheInv, CacheTypes, MapIsOfEntries
  <1>9. EntryOwned'
    BY <1>4 DEF CacheInv, CacheTypes, EntryOwned
  <1>10. AnswersAreClosed'
    BY <1>4 DEF CacheInv, CacheTypes, AnswersAreClosed
  <1>11. i \notin closed
    BY <1>4 DEF CacheInv, AnswersAreClosed
  <1>12. FailedIsForgotten'
    BY <1>3, <1>4, <1>5, <1>11 DEF CacheInv, CacheTypes, FailedIsForgotten
  <1>13. StepOf(i)
    BY <1>4 DEF StepOf, CacheInv, CacheTypes
  <1> QED
    BY <1>7, <1>8, <1>9, <1>10, <1>12, <1>13 DEF CacheInv

LEMMA ReadKeeps ==
    ASSUME CacheInv, NEW i \in Asks, ReadTile(i) \/ ReadFails(i)
    PROVE  CacheInv' /\ StepOf(i)
  <1> USE CacheAssumption
  <1>1. PICK result \in {"tile", "absent", "failed"} : Reads(i, result)
    BY DEF ReadTile, ReadFails
  <1>2. /\ ask[i].phase = "reading"
        /\ outcome' = [outcome EXCEPT ![i] = result]
        /\ ask' = [ask EXCEPT ![i].phase = "read"]
        /\ UNCHANGED <<entries, closed, interrupted>>
    BY <1>1 DEF Reads, To, listVars
  <1>3. i \notin closed
    BY <1>2 DEF CacheInv, AnswersAreClosed
  <1>4. CacheTypes'
    BY <1>2 DEF CacheInv, CacheTypes, AskState
  <1>5. MapIsOfEntries'
    BY <1>2 DEF CacheInv, CacheTypes, AskState, MapIsOfEntries
  <1>6. EntryOwned'
    BY <1>2 DEF CacheInv, CacheTypes, AskState, EntryOwned
  <1>7. AnswersAreClosed'
    BY <1>2, <1>3 DEF CacheInv, CacheTypes, AskState, AnswersAreClosed
  <1>8. FailedIsForgotten'
    BY <1>2, <1>3 DEF CacheInv, CacheTypes, AskState, FailedIsForgotten
  <1>9. StepOf(i)
    BY <1>2, <1>3 DEF StepOf, CacheInv, CacheTypes, AskState
  <1> QED
    BY <1>4, <1>5, <1>6, <1>7, <1>8, <1>9 DEF CacheInv

LEMMA ForgetKeeps ==
    ASSUME CacheInv, NEW i \in Asks, Forget(i)
    PROVE  CacheInv' /\ StepOf(i)
  <1> USE CacheAssumption
  <1>1. /\ ask[i].phase = "read"
        /\ ask' = [ask EXCEPT ![i].phase = "settled"]
        /\ UNCHANGED <<outcome, closed, interrupted>>
    BY DEF Forget, To
  <1>2. ask[i].tile \in Tiles
    BY <1>1 DEF CacheInv, EntryOwned
  <1>3. /\ entries' \in [Tiles -> Asks \cup {None}]
        /\ \A k \in Tiles : entries'[k] \in {None, entries[k]}
        /\ entries'[ask[i].tile] # i
    BY <1>2 DEF Forget, CacheInv, CacheTypes
  <1>4. \A k \in Tiles : entries'[k] # i
    BY <1>2, <1>3 DEF CacheInv, MapIsOfEntries
  <1>5. CacheTypes'
    BY <1>1, <1>3 DEF CacheInv, CacheTypes, AskState
  <1>6. MapIsOfEntries'
    BY <1>1, <1>3 DEF CacheInv, CacheTypes, AskState, MapIsOfEntries
  <1>7. EntryOwned'
    BY <1>1 DEF CacheInv, CacheTypes, AskState, EntryOwned
  <1>8. AnswersAreClosed'
    BY <1>1 DEF CacheInv, CacheTypes, AskState, AnswersAreClosed
  <1>9. FailedIsForgotten'
    BY <1>1, <1>3, <1>4 DEF CacheInv, CacheTypes, AskState, FailedIsForgotten
  <1>10. StepOf(i)
    BY <1>1 DEF StepOf, CacheInv, CacheTypes, AskState
  <1> QED
    BY <1>5, <1>6, <1>7, <1>8, <1>9, <1>10 DEF CacheInv

LEMMA CountKeeps ==
    ASSUME CacheInv, NEW i \in Asks, Count(i)
    PROVE  CacheInv' /\ StepOf(i)
  <1> USE CacheAssumption
  <1>1. /\ ask[i].phase = "read"
        /\ outcome[i] # "failed"
        /\ ask' = [ask EXCEPT ![i].phase = "settled"]
        /\ UNCHANGED <<outcome, closed, interrupted>>
    BY DEF Count, To
  <1>2. entries' = entries \/ \E dropped : entries' = WithoutEntries(entries, dropped)
    BY DEF Count, listVars
  <1>3. /\ entries' \in [Tiles -> Asks \cup {None}]
        /\ \A k \in Tiles : entries'[k] \in {None, entries[k]}
    BY <1>2, WithoutEntriesOnlyDrops DEF CacheInv, CacheTypes
  <1>5. CacheTypes'
    BY <1>1, <1>3 DEF CacheInv, CacheTypes, AskState
  <1>6. MapIsOfEntries'
    BY <1>1, <1>3 DEF CacheInv, CacheTypes, AskState, MapIsOfEntries
  <1>7. EntryOwned'
    BY <1>1 DEF CacheInv, CacheTypes, AskState, EntryOwned
  <1>8. AnswersAreClosed'
    BY <1>1 DEF CacheInv, CacheTypes, AskState, AnswersAreClosed
  <1>9. FailedIsForgotten'
    BY <1>1, <1>3 DEF CacheInv, CacheTypes, AskState, FailedIsForgotten
  <1>10. StepOf(i)
    BY <1>1 DEF StepOf, CacheInv, CacheTypes, AskState
  <1> QED
    BY <1>5, <1>6, <1>7, <1>8, <1>9, <1>10 DEF CacheInv

LEMMA CloseKeeps ==
    ASSUME CacheInv, NEW i \in Asks, Close(i)
    PROVE  CacheInv' /\ StepOf(i)
  <1> USE CacheAssumption
  <1>1. /\ ask[i].phase \in {"read", "settled"}
        /\ ask[i].phase = "settled" \/ outcome[i] # "failed"
        /\ closed' = closed \cup {i}
        /\ ask' = [ask EXCEPT ![i].phase = "answered"]
        /\ UNCHANGED <<entries, outcome, interrupted>>
    BY DEF Close, To, listVars
  <1>2. ask[i].entry = i
    BY <1>1 DEF CacheInv, EntryOwned
  <1>3. CacheTypes'
    BY <1>1 DEF CacheInv, CacheTypes, AskState
  <1>4. MapIsOfEntries'
    BY <1>1 DEF CacheInv, CacheTypes, AskState, MapIsOfEntries
  <1>5. EntryOwned'
    BY <1>1 DEF CacheInv, CacheTypes, AskState, EntryOwned
  <1>6. AnswersAreClosed'
    BY <1>1, <1>2 DEF CacheInv, CacheTypes, AskState, AnswersAreClosed
  <1>7. FailedIsForgotten'
    BY <1>1 DEF CacheInv, CacheTypes, AskState, FailedIsForgotten
  <1>8. StepOf(i)
    BY <1>1 DEF StepOf, CacheInv, CacheTypes, AskState
  <1> QED
    BY <1>3, <1>4, <1>5, <1>6, <1>7, <1>8 DEF CacheInv

LEMMA AnswerKeeps ==
    ASSUME CacheInv, NEW i \in Asks, Answer(i)
    PROVE  CacheInv' /\ StepOf(i)
  <1> USE CacheAssumption
  <1>1. /\ ask[i].phase = "waiting"
        /\ ask[i].entry \in closed
        /\ ask' = [ask EXCEPT ![i].phase = "answered"]
        /\ UNCHANGED <<entries, outcome, closed, interrupted>>
    BY DEF Answer, To, listVars
  <1>3. CacheTypes'
    BY <1>1 DEF CacheInv, CacheTypes, AskState
  <1>4. MapIsOfEntries'
    BY <1>1 DEF CacheInv, CacheTypes, AskState, MapIsOfEntries
  <1>5. EntryOwned'
    BY <1>1 DEF CacheInv, CacheTypes, AskState, EntryOwned
  <1>6. AnswersAreClosed'
    BY <1>1 DEF CacheInv, CacheTypes, AskState, AnswersAreClosed
  <1>7. FailedIsForgotten'
    BY <1>1 DEF CacheInv, CacheTypes, AskState, FailedIsForgotten
  <1>8. StepOf(i)
    BY <1>1 DEF StepOf, CacheInv, CacheTypes, AskState
  <1> QED
    BY <1>3, <1>4, <1>5, <1>6, <1>7, <1>8 DEF CacheInv

LEMMA StepKeepsCache ==
    ASSUME CacheInv, NEW i \in Asks, Ask(i) \/ Goes(i)
    PROVE  CacheInv' /\ StepOf(i)
  <1>1. CASE Ask(i)
    BY <1>1, HitKeeps, MissKeeps DEF Ask
  <1>2. CASE Goes(i)
    BY <1>2, ReadKeeps, ForgetKeeps, CountKeeps, CloseKeeps, AnswerKeeps
       DEF Goes
  <1> QED
    BY <1>1, <1>2

-----------------------------------------------------------------------------
(***************************************************************************)
(* The list and the bytes.                                                 *)
(***************************************************************************)
\* The list is of just the entries the map holds, each once.
ListIsMap ==
    lru \in Seq(Asks) /\ IsInjective(lru) /\ ToSet(lru) = Kept

\* An entry counts for nothing until it is settled, and for nothing at all where
\* the limit is a count.
SizesAreLate ==
    /\ size \in [Asks -> Nat]
    /\ \A i \in Asks :
          size[i] # 0 => form \in ByBytes /\ ask[i].phase \in {"settled", "answered"}

ListInv ==
    /\ form \in Forms /\ failures \in 0..MaxFailures
    /\ ListIsMap /\ SizesAreLate /\ UsedIsKept

LEMMA AsksAreFinite ==
    \A S \in SUBSET Asks : IsFiniteSet(S)
  <1>1. IsFiniteSet(Asks)
    BY FramesAssumption, FS_Interval DEF FrameNumbers
  <1> QED
    BY <1>1, FS_Subset

\* Each entry of the list is in the map for its tile, and for no other.
LEMMA EntriesOfMap ==
    ASSUME CacheInv, ListInv
    PROVE  /\ ToSet(lru) \subseteq Asks
           /\ \A e \in ToSet(lru) : ask[e].tile \in Tiles /\ entries[ask[e].tile] = e
           /\ \A k \in Tiles : entries[k] # None => entries[k] \in ToSet(lru)
  BY CacheAssumption, ListMembers
     DEF ListInv, ListIsMap, Kept, CacheInv, CacheTypes, MapIsOfEntries

\* What is kept once some entries have been dropped from a map.
LEMMA DroppedFromMap ==
    ASSUME NEW map \in [Tiles -> Asks \cup {None}], NEW dropped,
           \A e \in dropped : ask[e].tile \in Tiles /\ map[ask[e].tile] = e,
           \A k \in Tiles : map[k] \in dropped => ask[map[k]].tile = k
    PROVE  {WithoutEntries(map, dropped)[k] : k \in Tiles} \ {None}
              = ({map[k] : k \in Tiles} \ {None}) \ dropped
  <1>1. PICK m : m = WithoutEntries(map, dropped)
    OBVIOUS
  <1>2. \A k \in Tiles : m[k] = IF \E e \in dropped : ask[e].tile = k THEN None ELSE map[k]
    BY <1>1 DEF WithoutEntries
  <1>3. \A k \in Tiles : (\E e \in dropped : ask[e].tile = k) <=> map[k] \in dropped
    OBVIOUS
  <1>4. \A k \in Tiles : m[k] = IF map[k] \in dropped THEN None ELSE map[k]
    BY <1>2, <1>3
  <1> QED
    BY <1>1, <1>4

LEMMA HitLists ==
    ASSUME CacheInv, ListInv, NEW i \in Asks, NEW k \in Tiles, Hit(i, k)
    PROVE  ListInv'
  <1> USE CacheAssumption
  <1>1. PICK e : e = entries[k]
    OBVIOUS
  <1>2. e \in ToSet(lru) /\ e \in Asks
    BY <1>1, EntriesOfMap DEF Hit
  <1>3. PICK rest : rest = Unlisted(e)
    OBVIOUS
  <1>4. rest \in Seq(Asks) /\ IsInjective(rest) /\ ToSet(rest) = ToSet(lru) \ {e}
    BY <1>2, <1>3, TakenOut DEF Unlisted, ListInv, ListIsMap
  <1>5. lru' = <<e>> \o rest /\ e \in Asks \ ToSet(rest)
    BY <1>1, <1>2, <1>3, <1>4 DEF Hit
  <1>6. lru' \in Seq(Asks) /\ IsInjective(lru') /\ ToSet(lru') = ToSet(lru)
    <2>1. PICK all : all = <<e>> \o rest
      OBVIOUS
    <2>2. all \in Seq(Asks) /\ IsInjective(all) /\ ToSet(all) = ToSet(rest) \cup {e}
      BY <1>4, <1>5, <2>1, InFront
    <2>3. ToSet(all) = ToSet(lru)
      BY <1>2, <1>4, <2>2
    <2> QED
      BY <1>5, <2>1, <2>2, <2>3, Zenon
  <1>7. ListIsMap'
    BY <1>6 DEF Hit, ListInv, ListIsMap, Kept
  <1>8. SizesAreLate'
    BY DEF Hit, ListInv, SizesAreLate, CacheInv, CacheTypes
  <1>9. UsedIsKept'
    BY <1>6 DEF Hit, ListInv, UsedIsKept
  <1> QED
    BY <1>7, <1>8, <1>9 DEF Hit, ListInv

\* Entries that count for nothing are no bytes.
LEMMA NoBytes ==
    ASSUME ListInv, NEW S \in SUBSET Asks, \A e \in S : size[e] = 0
    PROVE  Bytes(size, S) = 0
  <1>1. PICK none : none = [e \in Asks |-> 0]
    OBVIOUS
  <1>2. PICK sz : sz = size
    OBVIOUS
  <1>3. Bytes(sz, S) = Bytes(none, S)
    BY <1>1, <1>2, AsksAreFinite, BytesAgree DEF ListInv, SizesAreLate
  <1> DEFINE F == {s \in SUBSET S : Bytes(none, s) # 0}
  <1>4. ASSUME F # {} PROVE FALSE
    <2>1. \A s \in F : IsFiniteSet(s)
      BY AsksAreFinite
    <2>2. PICK s \in F : \A t \in F : Cardinality(s) <= Cardinality(t)
      BY <1>4, <2>1, SmallestSet
    <2>3. s # {}
      BY <2>2, BytesOfNone
    <2>4. PICK x \in s : TRUE
      BY <2>3
    <2>5. /\ Cardinality(s \ {x}) < Cardinality(s)
          /\ Cardinality(s) \in Nat /\ Cardinality(s \ {x}) \in Nat
      BY <2>1, <2>2, <2>4, WithoutIsSmaller, FS_CardinalityType
    <2>6. Bytes(none, s \ {x}) = 0
      BY <2>2, <2>5
    <2>7. Bytes(none, s) = none[x] + Bytes(none, s \ {x})
      <3>1. s \in SUBSET Asks /\ none \in [Asks -> Nat]
        BY <1>1, <2>2
      <3> QED
        BY <2>1, <2>2, <2>4, <3>1, BytesWithout
    <2>8. none[x] = 0
      BY <1>1, <2>2, <2>4
    <2> QED
      BY <2>2, <2>6, <2>7, <2>8
  <1> QED
    BY <1>2, <1>3, <1>4

LEMMA MissLists ==
    ASSUME CacheInv, ListInv, NEW i \in Asks, NEW k \in Tiles, Miss(i, k)
    PROVE  ListInv'
  <1> USE CacheAssumption
  <1>1. PICK longer : longer = <<i>> \o lru
    OBVIOUS
  <1>2. i \notin ToSet(lru) /\ ToSet(lru) \subseteq Asks
    <2>1. ask[i].phase = "idle"
      BY DEF Miss
    <2> QED
      BY <2>1, EntriesOfMap DEF CacheInv, CacheTypes, MapIsOfEntries
  <1>3. /\ longer \in Seq(Asks) /\ IsInjective(longer)
        /\ ToSet(longer) = ToSet(lru) \cup {i} /\ longer[1] = i
        /\ Len(longer) \in Nat /\ Len(longer) >= 1
    <2>1. Len(lru) \in Nat
      BY ListMembers DEF ListInv, ListIsMap
    <2> QED
      BY <1>1, <1>2, <2>1, InFront DEF ListInv, ListIsMap
  <1>4. PICK kept, dropped, map :
           /\ lru' = kept /\ dropped = ToSet(longer) \ ToSet(kept)
           /\ map = [entries EXCEPT ![k] = i]
           /\ entries' = WithoutEntries(map, dropped)
           /\ \/ kept = longer
              \/ /\ kept = SubSeq(longer, 1, Limit) /\ Limit < Len(longer)
                 /\ form \notin ByBytes
    <2>1. PICK kept : kept = IF form \in ByBytes \/ Len(longer) <= Limit THEN longer
                             ELSE SubSeq(longer, 1, Limit)
      OBVIOUS
    <2>2. PICK dropped : dropped = ToSet(longer) \ ToSet(kept)
      OBVIOUS
    <2>3. PICK map : map = [entries EXCEPT ![k] = i]
      OBVIOUS
    <2>4. lru' = kept /\ entries' = WithoutEntries(map, dropped)
      BY <1>1, <2>1, <2>2, <2>3, Zenon DEF Miss
    <2>5. kept = longer \/ (kept = SubSeq(longer, 1, Limit) /\ Limit < Len(longer)
                              /\ form \notin ByBytes)
      BY <1>3, <2>1
    <2> QED
      BY <2>2, <2>3, <2>4, <2>5, Zenon
  <1>5. /\ kept \in Seq(Asks) /\ IsInjective(kept) /\ ToSet(kept) \subseteq ToSet(longer)
        /\ i \in ToSet(kept)
    <2>1. CASE kept = longer
      BY <1>3, <2>1
    <2>2. CASE kept = SubSeq(longer, 1, Limit) /\ Limit < Len(longer)
      <3>1. Limit \in 0..Len(longer) /\ Limit > 0
        BY <1>3, <2>2
      <3> QED
        BY <1>3, <2>2, <3>1, FirstAndRest
    <2> QED
      BY <1>4, <2>1, <2>2
  <1>6. dropped \subseteq ToSet(lru)
    BY <1>3, <1>4, <1>5
  <1>7. Kept' = ToSet(kept)
    <2>2. /\ map \in [Tiles -> Asks \cup {None}] /\ map[k] = i
          /\ \A l \in Tiles \ {k} : map[l] = entries[l]
      BY <1>4 DEF CacheInv, CacheTypes
    <2>3. entries[k] = None
      BY DEF Miss
    <2>4. \A e \in dropped : /\ ask[e].tile \in Tiles /\ ask[e].tile # k
                            /\ map[ask[e].tile] = e
      BY <1>2, <1>6, <2>2, <2>3, EntriesOfMap
    <2>1. \A l \in Tiles : map[l] \in dropped => ask[map[l]].tile = l
      BY <1>2, <1>6, <2>2 DEF CacheInv, CacheTypes, MapIsOfEntries
    <2>5. {WithoutEntries(map, dropped)[l] : l \in Tiles} \ {None}
              = ({map[l] : l \in Tiles} \ {None}) \ dropped
      BY <2>1, <2>2, <2>4, DroppedFromMap
    <2>6. {map[l] : l \in Tiles} \ {None} = ToSet(lru) \cup {i}
      BY <2>2, <2>3 DEF ListInv, ListIsMap, Kept
    <2>7. Kept' = (ToSet(lru) \cup {i}) \ dropped
      <3>1. Kept' = {entries'[l] : l \in Tiles} \ {None}
        BY DEF Kept
      <3>2. PICK m : m = WithoutEntries(map, dropped)
        OBVIOUS
      <3>3. {m[l] : l \in Tiles} \ {None} = (ToSet(lru) \cup {i}) \ dropped
        BY <2>5, <2>6, <3>2
      <3> QED
        BY <1>4, <3>1, <3>2, <3>3
    <2> QED
      BY <1>3, <1>4, <1>5, <2>7
  <1>8. ListIsMap'
    BY <1>4, <1>5, <1>7 DEF ListIsMap
  <1>9. SizesAreLate'
    BY DEF Miss, ListInv, SizesAreLate, CacheInv, CacheTypes
  <1>10. UsedIsKept'
    <2>1. size[i] = 0 /\ size \in [Asks -> Nat] /\ used = Bytes(size, ToSet(lru))
      BY DEF Miss, ListInv, SizesAreLate, UsedIsKept
    <2>2. used' = used /\ size' = size
      BY DEF Miss
    <2>3. CASE kept = longer
      <3>1. PICK S : S = ToSet(longer)
        OBVIOUS
      <3>2. S \in SUBSET Asks /\ i \in S /\ S \ {i} = ToSet(lru) /\ IsFiniteSet(S)
        BY <1>2, <1>3, <3>1, AsksAreFinite
      <3>3. PICK sz : sz = size
        OBVIOUS
      <3>4. Bytes(sz, S) = sz[i] + Bytes(sz, S \ {i}) /\ Bytes(sz, S \ {i}) \in Nat
        <4>1. sz \in [Asks -> Nat] /\ IsFiniteSet(S \ {i}) /\ S \ {i} \in SUBSET Asks
          BY <2>1, <3>2, <3>3, AsksAreFinite
        <4> QED
          BY <3>2, <4>1, BytesWithout, BytesAreNatural
      <3>5. sz[i] = 0 /\ used = Bytes(sz, S \ {i})
        BY <2>1, <3>2, <3>3, Zenon
      <3>6. Bytes(sz, S) = Bytes(sz, S \ {i})
        BY <3>4, <3>5
      <3>7. size' = sz /\ ToSet(lru') = S /\ used' = Bytes(sz, S)
        BY <1>4, <2>2, <2>3, <3>1, <3>3, <3>5, <3>6, Zenon
      <3> QED
        BY <3>7, Zenon DEF UsedIsKept
    <2>4. CASE form \notin ByBytes
      <3>1. \A e \in Asks : size[e] = 0
        BY <2>4 DEF ListInv, SizesAreLate
      <3>2. ToSet(kept) \in SUBSET Asks /\ ToSet(lru) \in SUBSET Asks
        BY <1>2, <1>3, <1>5
      <3>3. Bytes(size, ToSet(kept)) = 0 /\ Bytes(size, ToSet(lru)) = 0
        BY <3>1, <3>2, NoBytes
      <3> QED
        BY <1>4, <2>1, <2>2, <3>3 DEF UsedIsKept
    <2> QED
      BY <1>4, <2>3, <2>4
  <1> QED
    BY <1>8, <1>9, <1>10 DEF Miss, ListInv

\* Reading and answering are no business of the list's.
LEMMA OtherLists ==
    ASSUME CacheInv, ListInv, NEW i \in Asks,
           ReadTile(i) \/ ReadFails(i) \/ Close(i) \/ Answer(i)
    PROVE  ListInv'
  <1> USE CacheAssumption
  <1>1. /\ UNCHANGED <<form, entries, lru, used, size>>
        /\ failures' \in 0..MaxFailures
    BY DEF ReadTile, ReadFails, Reads, Close, Answer, listVars, ListInv
  <1>2. PICK phase \in {"read", "answered"} : To(i, phase)
    BY DEF ReadTile, ReadFails, Reads, Close, Answer
  <1>3. \/ ask[i].phase \in {"reading", "waiting"} /\ size[i] = 0
        \/ ask[i].phase \in {"read", "settled"} /\ phase = "answered"
    BY <1>2 DEF ReadTile, ReadFails, Reads, Close, Answer, ListInv, SizesAreLate,
                To, CacheInv, CacheTypes, AskState
  <1>4. ListIsMap' /\ UsedIsKept'
    BY <1>1 DEF ListInv, ListIsMap, Kept, UsedIsKept
  <1>5. SizesAreLate'
    BY <1>1, <1>2, <1>3 DEF To, ListInv, SizesAreLate, CacheInv, CacheTypes, AskState
  <1> QED
    BY <1>1, <1>4, <1>5 DEF ListInv

LEMMA ForgetLists ==
    ASSUME CacheInv, ListInv, NEW i \in Asks, Forget(i)
    PROVE  ListInv'
  <1> USE CacheAssumption
  <1>1. /\ ask[i].phase = "read" /\ To(i, "settled")
        /\ UNCHANGED <<form, used, size, failures>>
    BY DEF Forget
  <1>2. size[i] = 0
    BY <1>1 DEF ListInv, SizesAreLate
  <1>3. SizesAreLate'
    BY <1>1, <1>2 DEF To, ListInv, SizesAreLate, CacheInv, CacheTypes, AskState
  <1>4. ask[i].tile \in Tiles
    BY <1>1 DEF CacheInv, EntryOwned
  <1>5. CASE entries[ask[i].tile] = i
    <2>1. i \in ToSet(lru) /\ ToSet(lru) \subseteq Asks
      BY <1>4, <1>5, EntriesOfMap
    <2>2. lru' \in Seq(Asks) /\ IsInjective(lru') /\ ToSet(lru') = ToSet(lru) \ {i}
      BY <1>5, <2>1, TakenOut DEF Forget, Unlisted, ListInv, ListIsMap
    <2>3. entries' = [entries EXCEPT ![ask[i].tile] = None]
      BY <1>5 DEF Forget
    <2>4. \A k \in Tiles : entries[k] = i => k = ask[i].tile
      BY DEF CacheInv, MapIsOfEntries
    <2>5. Kept' = Kept \ {i}
      BY <1>4, <1>5, <2>3, <2>4 DEF Kept, CacheInv, CacheTypes
    <2>6. ListIsMap'
      BY <2>2, <2>5 DEF ListInv, ListIsMap
    <2>7. PICK sz, S : sz = size /\ S = ToSet(lru)
      OBVIOUS
    <2>8. Bytes(sz, S) = sz[i] + Bytes(sz, S \ {i}) /\ Bytes(sz, S \ {i}) \in Nat
      <3>1. /\ sz \in [Asks -> Nat] /\ IsFiniteSet(S) /\ S \in SUBSET Asks /\ i \in S
            /\ S \ {i} \in SUBSET Asks /\ IsFiniteSet(S \ {i})
        BY <2>1, <2>7, AsksAreFinite DEF ListInv, SizesAreLate
      <3> QED
        BY <3>1, BytesWithout, BytesAreNatural
    <2>9. UsedIsKept'
      BY <1>1, <1>2, <2>2, <2>7, <2>8 DEF ListInv, UsedIsKept
    <2> QED
      BY <1>1, <1>3, <2>6, <2>9 DEF ListInv
  <1>6. CASE entries[ask[i].tile] # i
    <2>1. UNCHANGED <<lru, entries>>
      BY <1>6 DEF Forget
    <2>2. ListIsMap' /\ UsedIsKept'
      BY <1>1, <2>1 DEF ListInv, ListIsMap, Kept, UsedIsKept
    <2> QED
      BY <1>1, <1>3, <2>2 DEF ListInv
  <1> QED
    BY <1>5, <1>6

\* How many stay is well defined: the list does hold the entry just read.
LEMMA StayingExists ==
    ASSUME ListInv, NEW i \in ToSet(lru), NEW total, NEW sz
    PROVE  Staying(i, total, sz) \in 0..Len(lru)
  <1> DEFINE Stops(m) == \/ total - Bytes(sz, ToSet(SubSeq(lru, m + 1, Len(lru)))) <= Limit
                         \/ m > 0 /\ lru[m] = i
             T == {n \in Nat : n <= Len(lru) /\ Stops(Len(lru) - n)}
  <1>1. PICK p \in 1..Len(lru) : lru[p] = i
    BY ListMembers DEF ListInv, ListIsMap
  <1>2. Len(lru) \in Nat
    BY ListMembers DEF ListInv, ListIsMap
  <1>3. Stops(p)
    BY <1>1, <1>2
  <1> HIDE DEF Stops
  <1>4. T # {} /\ T \subseteq Nat
    <2>1. Len(lru) - p \in Nat /\ Len(lru) - p <= Len(lru) /\ Len(lru) - (Len(lru) - p) = p
      BY <1>1, <1>2
    <2>2. Stops(Len(lru) - (Len(lru) - p))
      BY <1>3, <2>1
    <2>3. Len(lru) - p \in T
      BY <2>1, <2>2
    <2> QED
      BY <2>3
  <1>5. PICK n \in T : \A m \in T : n <= m
    BY <1>4, LeastNatural
  <1>6. PICK l : l = Len(lru) - n
    OBVIOUS
  <1>7. l \in 0..Len(lru) /\ Stops(l)
    BY <1>2, <1>5, <1>6
  <1>8. ASSUME NEW m \in l + 1..Len(lru), Stops(m) PROVE FALSE
    <2>1. Len(lru) - m \in Nat /\ Len(lru) - (Len(lru) - m) = m /\ Len(lru) - m < n
      BY <1>2, <1>5, <1>6, <1>7
    <2>2. Len(lru) - m <= Len(lru) /\ Stops(Len(lru) - (Len(lru) - m))
      BY <1>2, <1>8, <2>1
    <2>3. Len(lru) - m \in T
      BY <2>1, <2>2
    <2> QED
      BY <1>5, <2>1, <2>3
  <1>9. \E k \in 0..Len(lru) : Stops(k) /\ \A m \in k + 1..Len(lru) : ~Stops(m)
    BY <1>7, <1>8
  <1> QED
    BY <1>9 DEF Staying, Stops

LEMMA CountLists ==
    ASSUME CacheInv, ListInv, NEW i \in Asks, Count(i)
    PROVE  ListInv'
  <1> USE CacheAssumption
  <1>1. /\ ask[i].phase = "read" /\ To(i, "settled") /\ form \in ByBytes
        /\ UNCHANGED <<form, failures>>
    BY DEF Count
  <1>2. size[i] = 0 /\ size \in [Asks -> Nat]
    BY <1>1 DEF ListInv, SizesAreLate
  <1>3. ask[i].tile \in Tiles
    BY <1>1 DEF CacheInv, EntryOwned
  <1>4. CASE entries[ask[i].tile] = i
    <2>1. PICK bytes : bytes = Overhead + IF outcome[i] = "tile"
                                          THEN Decoded[ask[i].tile] ELSE 0
      OBVIOUS
    <2>2. bytes \in Nat
      BY <1>3, <2>1
    <2>3. PICK sz : sz = [size EXCEPT ![i] = bytes]
      OBVIOUS
    <2>4. sz \in [Asks -> Nat] /\ sz[i] = bytes /\ \A j \in Asks \ {i} : sz[j] = size[j]
      BY <1>2, <2>2, <2>3
    <2>5. PICK n : n = Staying(i, used + bytes, sz)
      OBVIOUS
    <2>6. i \in ToSet(lru) /\ ToSet(lru) \subseteq Asks
      BY <1>3, <1>4, EntriesOfMap
    <2>7. n \in 0..Len(lru)
      BY <2>5, <2>6, StayingExists
    <2>8. PICK dropped : dropped = ToSet(SubSeq(lru, n + 1, Len(lru)))
      OBVIOUS
    <2>9. /\ size' = sz /\ lru' = SubSeq(lru, 1, n)
          /\ entries' = WithoutEntries(entries, dropped)
          /\ used' = used + bytes - Bytes(sz, dropped)
      BY <1>4, <2>1, <2>3, <2>5, <2>8 DEF Count
    <2>10. /\ lru' \in Seq(Asks) /\ IsInjective(lru') /\ dropped \subseteq ToSet(lru)
           /\ ToSet(lru') = ToSet(lru) \ dropped
      BY <2>7, <2>8, <2>9, FirstAndRest DEF ListInv, ListIsMap
    <2>11. Kept' = Kept \ dropped
      <3>1. \A e \in dropped : ask[e].tile \in Tiles /\ entries[ask[e].tile] = e
        BY <2>10, EntriesOfMap
      <3>2. PICK map : map = entries
        OBVIOUS
      <3>3. map \in [Tiles -> Asks \cup {None}]
        BY <3>2 DEF CacheInv, CacheTypes
      <3>4. \A k \in Tiles : map[k] \in dropped => ask[map[k]].tile = k
        BY <2>6, <2>10, <3>2 DEF CacheInv, MapIsOfEntries
      <3>5. {WithoutEntries(map, dropped)[k] : k \in Tiles} \ {None}
               = ({map[k] : k \in Tiles} \ {None}) \ dropped
        BY <3>1, <3>2, <3>3, <3>4, DroppedFromMap
      <3> QED
        BY <2>9, <3>2, <3>5 DEF Kept
    <2>12. ListIsMap'
      BY <2>10, <2>11 DEF ListInv, ListIsMap
    <2>13. SizesAreLate'
      BY <1>1, <2>4, <2>9 DEF To, ListInv, SizesAreLate, CacheInv, CacheTypes, AskState
    <2>14. UsedIsKept'
      <3>1. PICK S, old : S = ToSet(lru) /\ old = size
        OBVIOUS
      <3>2. /\ S \in SUBSET Asks /\ i \in S /\ IsFiniteSet(S) /\ dropped \in SUBSET S
            /\ S \ {i} \in SUBSET Asks /\ IsFiniteSet(S \ {i}) /\ old \in [Asks -> Nat]
            /\ IsFiniteSet(dropped) /\ dropped \in SUBSET Asks
            /\ S \ dropped \in SUBSET Asks /\ IsFiniteSet(S \ dropped)
        BY <1>2, <2>6, <2>10, <3>1, AsksAreFinite
      <3>3. Bytes(old, S) = Bytes(old, S \ {i})
        <4>1. Bytes(old, S) = old[i] + Bytes(old, S \ {i})
          BY <3>2, BytesWithout
        <4>2. Bytes(old, S \ {i}) \in Nat
          BY <3>2, BytesAreNatural
        <4> QED
          BY <1>2, <3>1, <4>1, <4>2
      <3>4. Bytes(sz, S) = bytes + Bytes(sz, S \ {i})
        BY <2>4, <3>2, BytesWithout
      <3>5. Bytes(sz, S \ {i}) = Bytes(old, S \ {i})
        <4>1. \A x \in S \ {i} : sz[x] = old[x]
          BY <2>4, <3>1, <3>2
        <4> QED
          BY <2>4, <3>2, <4>1, BytesAgree
      <3>6. Bytes(sz, S) = Bytes(sz, dropped) + Bytes(sz, S \ dropped)
        BY <2>4, <3>2, BytesOfParts
      <3>7. /\ Bytes(sz, S) \in Nat /\ Bytes(sz, dropped) \in Nat
            /\ Bytes(sz, S \ dropped) \in Nat /\ Bytes(old, S) \in Nat
        BY <2>4, <3>2, BytesAreNatural
      <3>8. used = Bytes(old, S)
        BY <3>1 DEF ListInv, UsedIsKept
      <3>9. used' = Bytes(sz, S \ dropped)
        BY <2>2, <2>9, <3>3, <3>4, <3>5, <3>6, <3>7, <3>8
      <3> QED
        BY <2>9, <2>10, <3>1, <3>9 DEF UsedIsKept
    <2> QED
      BY <1>1, <2>12, <2>13, <2>14 DEF ListInv
  <1>5. CASE entries[ask[i].tile] # i
    <2>1. UNCHANGED listVars
      BY <1>5 DEF Count
    <2>2. ListIsMap' /\ UsedIsKept'
      BY <1>1, <2>1 DEF ListInv, ListIsMap, Kept, UsedIsKept, listVars
    <2>3. SizesAreLate'
      BY <1>1, <1>2, <2>1
         DEF To, ListInv, SizesAreLate, CacheInv, CacheTypes, AskState, listVars
    <2> QED
      BY <1>1, <2>2, <2>3 DEF ListInv
  <1> QED
    BY <1>4, <1>5

LEMMA StepKeepsList ==
    ASSUME CacheInv, ListInv, NEW i \in Asks, Ask(i) \/ Goes(i)
    PROVE  ListInv'
  BY HitLists, MissLists, OtherLists, ForgetLists, CountLists DEF Ask, Goes

-----------------------------------------------------------------------------
(* The frames' inductive invariant.                                        *)

FrameTypes ==
    /\ next \in Nat
    /\ worker \in [Workers -> WorkerState]
    /\ firstErr \in FrameNumbers \cup {None}
    /\ finished \in Nat
    /\ told \in Nat
    /\ returned \in {None, "failed", "interrupted", "done"}

Holds(w, i) ==
    worker[w].phase \in {"taken", "working"} /\ worker[w].frame = i

\* A goroutine has a frame the counter has passed, while it has one; no two
\* have the same, and those past the end are not worked on.
FramesAreTaken ==
    /\ \A w \in Workers :
          /\ worker[w].phase \in {"taken", "working"} =>
                worker[w].frame \in 0..next - 1
          /\ worker[w].phase \in {"taking", "stopped"} => worker[w].frame = None
          /\ worker[w].phase = "working" => worker[w].frame < N
    /\ \A w, v \in Workers :
          /\ worker[w].phase \in {"taken", "working"}
          /\ worker[v].phase \in {"taken", "working"}
          /\ worker[w].frame = worker[v].frame
          => w = v

\* What is being asked for is asked for by the goroutine whose frame it is.
\* A frame is not begun before it is taken and checked.
AsksAreOfWorkers ==
    \A i \in FrameNumbers :
        /\ ask[i].phase \notin {"idle", "answered"} =>
              \E w \in Workers :
                 worker[w].phase = "working" /\ worker[w].frame = i
        /\ i >= next => ask[i].phase = "idle"
        /\ \A w \in Workers :
              worker[w].phase = "taken" /\ worker[w].frame = i
                  => ask[i].phase = "idle"

\* The frames that are over.
Over == {i \in FrameNumbers :
            /\ ask[i].phase = "answered"
            /\ \A w \in Workers : worker[w].frame # i}

\* The first error is that of a frame that is over, and as long as there is
\* none all frames that are over have succeeded.
ErrorsAreNoted ==
    /\ firstErr # None =>
          ask[firstErr].phase = "answered" /\ AnswerOf(firstErr) = "failed"
    /\ firstErr = None => \A i \in Over : AnswerOf(i) # "failed"

\* As long as nothing cancels the rest, every frame the counter has passed is
\* over or some goroutine's, and nobody stops before the counter is past
\* the end.
NoneIsMissed ==
    ~Cancelled =>
        /\ \A i \in FrameNumbers :
              i < next => i \in Over \/ \E w \in Workers : Holds(w, i)
        /\ \A w \in Workers : worker[w].phase = "stopped" => next >= N

ReturnedLast ==
    /\ returned # None => \A w \in Workers : worker[w].phase = "stopped"
    /\ returned = "failed" <=> returned # None /\ firstErr # None
    /\ returned = "done" => ~Cancelled

Counted ==
    /\ finished = Cardinality(Over)
    /\ told \in 0..finished
    /\ firstErr = None => told = finished

IInv ==
    CacheInv /\ FrameTypes /\ FramesAreTaken /\ AsksAreOfWorkers
        /\ ErrorsAreNoted /\ NoneIsMissed /\ ReturnedLast /\ Counted

LEMMA IInvInit == Init => IInv
  <1> SUFFICES ASSUME Init PROVE IInv
    OBVIOUS
  <1> USE CacheAssumption, FramesAssumption
  <1>1. CacheInv
    BY CacheInvInit DEF Init
  <1>2. FrameTypes /\ FramesAreTaken
    BY DEF Init, FrameTypes, WorkerState, FramesAreTaken
  <1>3. \A i \in FrameNumbers : ask[i].phase = "idle"
    BY DEF Init, CacheInit, Idle
  <1>4. Over = {}
    BY <1>3 DEF Over
  <1>5. AsksAreOfWorkers
    BY <1>3 DEF Init, AsksAreOfWorkers
  <1>6. ErrorsAreNoted /\ ReturnedLast
    BY <1>4 DEF Init, ErrorsAreNoted, ReturnedLast
  <1>7. NoneIsMissed
    BY DEF Init, NoneIsMissed, FrameNumbers
  <1>8. Counted
    BY <1>4, FS_EmptySet DEF Init, Counted
  <1> QED
    BY <1>1, <1>2, <1>5, <1>6, <1>7, <1>8 DEF IInv

\* An answer given is not changed by a step that keeps what is answered.
LEMMA AnswersStay ==
    ASSUME CacheInv, NEW i \in Asks, StepOf(i)
    PROVE  \A j \in Asks : ask[j].phase = "answered" =>
              ask'[j] = ask[j] /\ AnswerOf(j)' = AnswerOf(j)
  <1> SUFFICES ASSUME NEW j \in Asks, ask[j].phase = "answered"
               PROVE  ask'[j] = ask[j] /\ AnswerOf(j)' = AnswerOf(j)
    OBVIOUS
  <1>1. ask'[j] = ask[j]
    BY DEF StepOf
  <1>2. ask[j].entry \in closed
    BY DEF CacheInv, AnswersAreClosed
  <1> QED
    BY <1>1, <1>2 DEF StepOf, AnswerOf

LEMMA TakeKeeps ==
    ASSUME IInv, NEW w \in Workers, Take(w)
    PROVE  IInv'
  <1> USE CacheAssumption, FramesAssumption
  <1>1. /\ worker[w].phase = "taking"
        /\ worker[w].frame = None
        /\ next' = next + 1
        /\ worker' = [worker EXCEPT ![w] = [phase |-> "taken", frame |-> next]]
        /\ UNCHANGED <<cacheVars, firstErr, finished, told, returned>>
        /\ next \in Nat
    BY DEF Take, IInv, FrameTypes, FramesAreTaken
  <1>2. CacheInv'
    BY <1>1 DEF IInv, CacheInv, CacheTypes, MapIsOfEntries, EntryOwned,
                AnswersAreClosed, FailedIsForgotten, cacheVars
  <1>3. FrameTypes'
    BY <1>1 DEF IInv, FrameTypes, WorkerState
  <1>4. FramesAreTaken'
    BY <1>1 DEF IInv, FrameTypes, WorkerState, FramesAreTaken
  <1>5. AsksAreOfWorkers'
    BY <1>1 DEF IInv, FrameTypes, WorkerState, AsksAreOfWorkers, cacheVars,
                FrameNumbers
  <1>6. next \in FrameNumbers => ask[next].phase = "idle"
    BY <1>1 DEF IInv, AsksAreOfWorkers
  <1>7. Over' = Over
    BY <1>1, <1>6 DEF Over, cacheVars, IInv, FrameTypes
  <1>8. ErrorsAreNoted'
    BY <1>1, <1>7 DEF IInv, ErrorsAreNoted, AnswerOf, cacheVars
  <1>9. NoneIsMissed'
    BY <1>1, <1>7 DEF IInv, FrameTypes, NoneIsMissed, Cancelled, Holds, cacheVars,
                      FrameNumbers, WorkerState
  <1>10. ReturnedLast'
    BY <1>1 DEF IInv, FrameTypes, ReturnedLast, Cancelled, cacheVars
  <1>11. Counted'
    BY <1>1, <1>7 DEF IInv, Counted
  <1> QED
    BY <1>2, <1>3, <1>4, <1>5, <1>8, <1>9, <1>10, <1>11 DEF IInv

LEMMA StopKeeps ==
    ASSUME IInv, NEW w \in Workers, Stop(w)
    PROVE  IInv'
  <1> USE CacheAssumption, FramesAssumption
  <1>1. /\ worker[w].phase = "taken"
        /\ worker[w].frame >= N \/ Cancelled
        /\ worker' = [worker EXCEPT ![w] = [phase |-> "stopped", frame |-> None]]
        /\ UNCHANGED <<cacheVars, next, firstErr, finished, told, returned>>
        /\ worker[w].frame \in 0..next - 1
        /\ next \in Nat
    BY DEF Stop, IInv, FrameTypes, FramesAreTaken
  <1>2. CacheInv'
    BY <1>1 DEF IInv, CacheInv, CacheTypes, MapIsOfEntries, EntryOwned,
                AnswersAreClosed, FailedIsForgotten, cacheVars
  <1>3. FrameTypes'
    BY <1>1 DEF IInv, FrameTypes, WorkerState
  <1>4. FramesAreTaken'
    BY <1>1 DEF IInv, FrameTypes, WorkerState, FramesAreTaken
  <1>5. AsksAreOfWorkers'
    BY <1>1 DEF IInv, FrameTypes, WorkerState, AsksAreOfWorkers, cacheVars
  <1>6. \A i \in FrameNumbers :
           worker[w].frame = i => ask[i].phase = "idle"
    BY <1>1 DEF IInv, AsksAreOfWorkers
  <1>7. Over' = Over
    BY <1>1, <1>6 DEF Over, cacheVars, IInv, FrameTypes
  <1>8. ErrorsAreNoted'
    BY <1>1, <1>7 DEF IInv, ErrorsAreNoted, AnswerOf, cacheVars
  <1>9. NoneIsMissed'
    BY <1>1, <1>7 DEF IInv, FrameTypes, NoneIsMissed, Cancelled, Holds, cacheVars,
                      FrameNumbers, WorkerState
  <1>10. ReturnedLast'
    BY <1>1 DEF IInv, FrameTypes, ReturnedLast, Cancelled, cacheVars
  <1>11. Counted'
    BY <1>1, <1>7 DEF IInv, Counted
  <1> QED
    BY <1>2, <1>3, <1>4, <1>5, <1>8, <1>9, <1>10, <1>11 DEF IInv

LEMMA CheckKeeps ==
    ASSUME IInv, NEW w \in Workers, Check(w)
    PROVE  IInv'
  <1> USE CacheAssumption, FramesAssumption
  <1>1. /\ worker[w].phase = "taken"
        /\ worker[w].frame < N
        /\ worker' = [worker EXCEPT ![w].phase = "working"]
        /\ UNCHANGED <<cacheVars, next, firstErr, finished, told, returned>>
        /\ worker[w].frame \in 0..next - 1
        /\ next \in Nat
    BY DEF Check, IInv, FrameTypes, FramesAreTaken
  <1>2. CacheInv'
    BY <1>1 DEF IInv, CacheInv, CacheTypes, MapIsOfEntries, EntryOwned,
                AnswersAreClosed, FailedIsForgotten, cacheVars
  <1>3. FrameTypes'
    BY <1>1 DEF IInv, FrameTypes, WorkerState
  <1>4. FramesAreTaken'
    BY <1>1 DEF IInv, FrameTypes, WorkerState, FramesAreTaken
  <1>5. AsksAreOfWorkers'
    BY <1>1 DEF IInv, FrameTypes, WorkerState, AsksAreOfWorkers, cacheVars
  <1>7. Over' = Over
    BY <1>1 DEF Over, cacheVars, IInv, FrameTypes, WorkerState
  <1>8. ErrorsAreNoted'
    BY <1>1, <1>7 DEF IInv, ErrorsAreNoted, AnswerOf, cacheVars
  <1>9. NoneIsMissed'
    BY <1>1, <1>7 DEF IInv, FrameTypes, NoneIsMissed, Cancelled, Holds, cacheVars,
                      FrameNumbers, WorkerState
  <1>10. ReturnedLast'
    BY <1>1 DEF IInv, FrameTypes, ReturnedLast, Cancelled, cacheVars
  <1>11. Counted'
    BY <1>1, <1>7 DEF IInv, Counted
  <1> QED
    BY <1>2, <1>3, <1>4, <1>5, <1>8, <1>9, <1>10, <1>11 DEF IInv

LEMMA WorkKeeps ==
    ASSUME IInv, NEW w \in Workers, Work(w)
    PROVE  IInv'
  <1> USE CacheAssumption, FramesAssumption
  <1> DEFINE i == worker[w].frame
  <1>1. /\ worker[w].phase = "working"
        /\ i \in FrameNumbers
        /\ i < next
        /\ next \in Nat
        /\ UNCHANGED frameVars
        /\ Ask(i) \/ Goes(i)
    BY DEF Work, IInv, FrameTypes, FramesAreTaken, FrameNumbers
  <1>2. CacheInv /\ CacheInv' /\ StepOf(i)
    BY <1>1, StepKeepsCache DEF IInv
  <1>3. \A j \in Asks : ask[j].phase = "answered" =>
           ask'[j] = ask[j] /\ AnswerOf(j)' = AnswerOf(j)
    BY <1>1, <1>2, AnswersStay
  <1>4. UNCHANGED <<next, worker, firstErr, finished, told, returned, interrupted>>
    BY <1>1, <1>2 DEF frameVars, StepOf
  <1>5. FrameTypes' /\ FramesAreTaken'
    BY <1>4 DEF IInv, FrameTypes, FramesAreTaken
  <1>6. \A j \in FrameNumbers \ {i} : ask'[j] = ask[j]
    BY <1>2 DEF StepOf
  <1> HIDE DEF i
  <1>7. Over' = Over
    BY <1>1, <1>4, <1>6 DEF Over, i
  <1>8. AsksAreOfWorkers'
    <2> SUFFICES ASSUME NEW j \in FrameNumbers
                 PROVE  /\ ask'[j].phase \notin {"idle", "answered"} =>
                              \E v \in Workers :
                                 worker[v].phase = "working" /\ worker[v].frame = j
                        /\ j >= next => ask'[j].phase = "idle"
                        /\ \A v \in Workers :
                              worker[v].phase = "taken" /\ worker[v].frame = j
                                  => ask'[j].phase = "idle"
      BY <1>4 DEF AsksAreOfWorkers
    <2>1. CASE j # i
      BY <2>1, <1>6 DEF IInv, AsksAreOfWorkers
    <2>2. CASE j = i
      <3>1. \A v \in Workers : worker[v].phase = "taken" => worker[v].frame # i
        BY <1>1 DEF IInv, FramesAreTaken, i
      <3>2. ~(i >= next)
        BY <1>1 DEF FrameNumbers
      <3> QED
        BY <2>2, <3>1, <3>2, <1>1 DEF i
    <2> QED
      BY <2>1, <2>2
  <1>9. ErrorsAreNoted'
    BY <1>3, <1>4, <1>7 DEF IInv, ErrorsAreNoted, Over, FrameTypes
  <1>10. NoneIsMissed'
    BY <1>4, <1>7 DEF IInv, NoneIsMissed, Cancelled, Holds
  <1>11. ReturnedLast'
    BY <1>4 DEF IInv, ReturnedLast, Cancelled
  <1>12. Counted'
    BY <1>4, <1>7 DEF IInv, Counted
  <1> QED
    BY <1>2, <1>5, <1>8, <1>9, <1>10, <1>11, <1>12 DEF IInv

LEMMA TellKeeps ==
    ASSUME IInv, NEW w \in Workers, Tell(w)
    PROVE  IInv'
  <1> USE CacheAssumption, FramesAssumption
  <1> DEFINE i == worker[w].frame
  <1>1. /\ worker[w].phase = "working"
        /\ i \in FrameNumbers
        /\ ask[i].phase = "answered"
        /\ worker' = [worker EXCEPT ![w] = [phase |-> "taking", frame |-> None]]
        /\ UNCHANGED <<cacheVars, next, returned>>
        /\ firstErr' = IF firstErr = None /\ AnswerOf(i) = "failed" THEN i
                       ELSE firstErr
        /\ finished' = finished + 1
        /\ told' = IF firstErr' = None THEN finished' ELSE told
    BY DEF Tell, IInv, FrameTypes, FramesAreTaken, FrameNumbers
  <1>2. CacheInv'
    BY <1>1 DEF IInv, CacheInv, CacheTypes, MapIsOfEntries, EntryOwned,
                AnswersAreClosed, FailedIsForgotten, cacheVars
  <1>3. FrameTypes'
    BY <1>1 DEF IInv, FrameTypes, WorkerState
  <1>4. FramesAreTaken'
    BY <1>1 DEF IInv, FrameTypes, WorkerState, FramesAreTaken
  <1>5. AsksAreOfWorkers'
    BY <1>1 DEF IInv, FrameTypes, WorkerState, AsksAreOfWorkers, cacheVars
  <1>6. Over' = Over \cup {i} /\ i \notin Over
    <2>1. i \notin Over
      BY <1>1 DEF Over
    <2>2. None \notin FrameNumbers
      OBVIOUS
    <2>3. \A v \in Workers : v # w => worker'[v] = worker[v] /\ worker[v].frame # i
      <3> SUFFICES ASSUME NEW v \in Workers, v # w
                   PROVE  worker'[v] = worker[v] /\ worker[v].frame # i
        OBVIOUS
      <3>1. worker'[v] = worker[v]
        BY <1>1 DEF IInv, FrameTypes
      <3>2. worker[v].phase \in {"taken", "working", "taking", "stopped"}
        BY DEF IInv, FrameTypes, WorkerState
      <3> QED
        BY <3>1, <3>2, <1>1, <2>2 DEF IInv, FramesAreTaken
    <2>4. worker'[w].frame = None
      BY <1>1 DEF IInv, FrameTypes
    <2>5. ask' = ask
      BY <1>1 DEF cacheVars
    <2>6. i \in Over'
      BY <1>1, <2>2, <2>3, <2>4, <2>5 DEF Over
    <2>7. \A j \in FrameNumbers \ {i} : j \in Over' <=> j \in Over
      BY <1>1, <2>2, <2>3, <2>4, <2>5 DEF Over
    <2> QED
      BY <1>1, <2>1, <2>6, <2>7 DEF Over
  <1>7. UNCHANGED <<ask, outcome, interrupted, returned, next>>
    BY <1>1 DEF cacheVars
  <1>8. i # None
    BY <1>1
  <1>9. ErrorsAreNoted'
    BY <1>1, <1>6, <1>7, <1>8 DEF IInv, ErrorsAreNoted, AnswerOf
  <1>10. NoneIsMissed'
    <2> SUFFICES ASSUME ~Cancelled'
                 PROVE  /\ \A j \in FrameNumbers :
                              j < next => j \in Over' \/ \E v \in Workers : Holds(v, j)'
                        /\ \A v \in Workers : worker'[v].phase = "stopped" => next >= N
      BY <1>7 DEF NoneIsMissed
    <2>1. ~Cancelled
      BY <1>1, <1>7, <1>8 DEF Cancelled
    <2>2. \A v \in Workers : worker'[v].phase = "stopped" => worker[v].phase = "stopped"
      BY <1>1 DEF IInv, FrameTypes
    <2>3. ASSUME NEW j \in FrameNumbers, j < next
          PROVE  j \in Over' \/ \E v \in Workers : Holds(v, j)'
      <3>1. CASE j \in Over \/ j = i
        BY <3>1, <1>6
      <3>2. CASE j \notin Over /\ j # i
        <4>1. PICK v \in Workers : Holds(v, j)
          BY <3>2, <2>1, <2>3 DEF IInv, NoneIsMissed
        <4>2. v # w
          BY <4>1, <3>2 DEF Holds
        <4>3. worker'[v] = worker[v]
          BY <4>2, <1>1 DEF IInv, FrameTypes
        <4> QED
          BY <4>1, <4>3 DEF Holds
      <3> QED
        BY <3>1, <3>2
    <2> QED
      BY <2>1, <2>2, <2>3 DEF IInv, NoneIsMissed
  <1>11. ReturnedLast'
    <2>1. returned = None
      BY <1>1 DEF IInv, ReturnedLast
    <2> QED
      BY <2>1, <1>7 DEF ReturnedLast
  <1>12. Counted'
    <2>1. finished = Cardinality(Over) /\ told \in 0..finished /\ finished \in Nat
      BY DEF IInv, Counted, FrameTypes
    <2>2. firstErr' = None => told' = finished'
      BY <1>1
    <2>3. IsFiniteSet(Over)
      <3>1. IsFiniteSet(FrameNumbers)
        BY FS_Interval DEF FrameNumbers
      <3> QED
        BY <3>1, FS_Subset DEF Over
    <2>4. Cardinality(Over') = Cardinality(Over) + 1
      BY <1>6, <2>3, FS_AddElement
    <2> QED
      BY <1>1, <2>1, <2>2, <2>4 DEF Counted
  <1> QED
    BY <1>2, <1>3, <1>4, <1>5, <1>9, <1>10, <1>11, <1>12 DEF IInv

LEMMA ReturnKeeps ==
    ASSUME IInv, Return
    PROVE  IInv'
  <1> USE CacheAssumption, FramesAssumption
  <1>1. /\ \A w \in Workers : worker[w].phase = "stopped"
        /\ returned' = IF firstErr # None THEN "failed"
                       ELSE IF interrupted THEN "interrupted" ELSE "done"
        /\ UNCHANGED <<cacheVars, next, worker, firstErr, finished, told>>
    BY DEF Return
  <1>2. CacheInv'
    BY <1>1 DEF IInv, CacheInv, CacheTypes, MapIsOfEntries, EntryOwned,
                AnswersAreClosed, FailedIsForgotten, cacheVars
  <1>3. FrameTypes' /\ FramesAreTaken'
    BY <1>1 DEF IInv, FrameTypes, FramesAreTaken
  <1>4. AsksAreOfWorkers'
    BY <1>1 DEF IInv, AsksAreOfWorkers, cacheVars
  <1>5. Over' = Over
    BY <1>1 DEF Over, cacheVars
  <1>6. ErrorsAreNoted' /\ NoneIsMissed' /\ Counted'
    BY <1>1, <1>5 DEF IInv, ErrorsAreNoted, AnswerOf, NoneIsMissed, Cancelled,
                      Holds, Counted, cacheVars
  <1>7. ReturnedLast'
    BY <1>1 DEF IInv, ReturnedLast, Cancelled, cacheVars
  <1> QED
    BY <1>2, <1>3, <1>4, <1>6, <1>7 DEF IInv

LEMMA InterruptKeeps ==
    ASSUME IInv, InterruptFrames
    PROVE  IInv'
  <1> USE CacheAssumption, FramesAssumption
  <1>1. /\ returned = None
        /\ interrupted' = TRUE
        /\ UNCHANGED <<entries, ask, outcome, closed, frameVars>>
    BY DEF InterruptFrames, Interrupt, listVars
  <1>2. CacheInv'
    BY <1>1 DEF IInv, CacheInv, CacheTypes, MapIsOfEntries, EntryOwned,
                AnswersAreClosed, FailedIsForgotten
  <1>3. FrameTypes' /\ FramesAreTaken'
    BY <1>1 DEF IInv, FrameTypes, FramesAreTaken, frameVars
  <1>4. AsksAreOfWorkers'
    BY <1>1 DEF IInv, AsksAreOfWorkers, frameVars
  <1>5. Over' = Over
    BY <1>1 DEF Over, frameVars
  <1>6. ErrorsAreNoted' /\ NoneIsMissed' /\ Counted'
    BY <1>1, <1>5 DEF IInv, ErrorsAreNoted, AnswerOf, NoneIsMissed, Cancelled,
                      Counted, frameVars
  <1>7. ReturnedLast'
    BY <1>1 DEF IInv, ReturnedLast, frameVars
  <1> QED
    BY <1>2, <1>3, <1>4, <1>6, <1>7 DEF IInv

LEMMA IInvStutters == IInv /\ UNCHANGED vars => IInv'
  <1> SUFFICES ASSUME IInv, UNCHANGED vars PROVE IInv'
    OBVIOUS
  <1>1. UNCHANGED <<entries, ask, outcome, closed, interrupted, next, worker,
                    firstErr, finished, told, returned>>
    BY DEF vars, cacheVars, frameVars
  <1>2. CacheInv'
    BY <1>1 DEF IInv, CacheInv, CacheTypes, MapIsOfEntries, EntryOwned,
                AnswersAreClosed, FailedIsForgotten
  <1>3. Over' = Over
    BY <1>1 DEF Over
  <1>4. FrameTypes' /\ FramesAreTaken' /\ AsksAreOfWorkers'
    BY <1>1 DEF IInv, FrameTypes, FramesAreTaken, AsksAreOfWorkers
  <1>5. ErrorsAreNoted' /\ NoneIsMissed' /\ ReturnedLast' /\ Counted'
    BY <1>1, <1>3 DEF IInv, ErrorsAreNoted, AnswerOf, NoneIsMissed, Cancelled,
                      Holds, ReturnedLast, Counted
  <1> QED
    BY <1>2, <1>4, <1>5 DEF IInv

LEMMA IInvStep == IInv /\ [Next]_vars => IInv'
  <1> SUFFICES ASSUME IInv, [Next]_vars PROVE IInv'
    OBVIOUS
  <1>1. ASSUME NEW w \in Workers, Moves(w) PROVE IInv'
    BY <1>1, TakeKeeps, StopKeeps, CheckKeeps, WorkKeeps, TellKeeps DEF Moves
  <1>2. CASE Return
    BY <1>2, ReturnKeeps
  <1>3. CASE InterruptFrames
    BY <1>3, InterruptKeeps
  <1>4. CASE Returned \/ UNCHANGED vars
    BY <1>4, IInvStutters DEF Returned
  <1> QED
    BY <1>1, <1>2, <1>3, <1>4 DEF Next

LEMMA IInvAlways == Spec => []IInv
  BY IInvInit, IInvStep, PTL DEF Spec

-----------------------------------------------------------------------------
(* The properties.                                                         *)

\* dem.Source, render.TileCache and perspective.Tiles never keep a failed
\* read for the next to ask, whatever is evicted meanwhile.
THEOREM FailuresAreRetried == Spec => []FailureIsNotKept
  <1>1. IInv => FailureIsNotKept
    BY DEF IInv, CacheInv, CacheTypes, FailedIsForgotten, FailureIsNotKept, Kept
  <1> QED
    BY <1>1, IInvAlways, PTL

\* What eachFrame tells the progress is exactly how many frames are done.
THEOREM ProgressIsExact == Spec => []ToldIsFinished
  <1>1. IInv => ToldIsFinished
    BY DEF IInv, Counted, Over, ToldIsFinished
  <1> QED
    BY <1>1, IInvAlways, PTL

\* When eachFrame has returned, no frame is being worked on, and the error it
\* returned is one a frame had.
THEOREM FramesAreOver == Spec => []NothingRunsOn
  <1>1. IInv => NothingRunsOn
    <2> SUFFICES ASSUME IInv, returned # None PROVE NothingRunsOn
      BY DEF NothingRunsOn
    <2>1. \A w \in Workers : worker[w].phase = "stopped"
      BY DEF IInv, ReturnedLast
    <2>2. \A i \in FrameNumbers : ask[i].phase \in {"idle", "answered"}
      BY <2>1 DEF IInv, AsksAreOfWorkers
    <2> QED
      BY <2>2 DEF IInv, ReturnedLast, ErrorsAreNoted, NothingRunsOn
  <1> QED
    BY <1>1, IInvAlways, PTL

\* eachFrame returns no error only when every frame was worked through and
\* none failed, and the progress was told of them all.
THEOREM SuccessIsOfAll == Spec => []DoneMeansEveryFrame
  <1>1. IInv => DoneMeansEveryFrame
    <2> USE CacheAssumption, FramesAssumption
    <2> SUFFICES ASSUME IInv, returned = "done" PROVE DoneMeansEveryFrame
      BY DEF DoneMeansEveryFrame
    <2>1. \A w \in Workers : worker[w].phase = "stopped"
      BY DEF IInv, ReturnedLast, FrameTypes
    <2>2. ~Cancelled /\ firstErr = None
      BY DEF IInv, ReturnedLast, Cancelled
    <2>3. next >= N
      BY <2>1, <2>2 DEF IInv, NoneIsMissed
    <2>4. Over = FrameNumbers
      <3>1. ASSUME NEW i \in FrameNumbers PROVE i \in Over
        <4>1. i < next
          BY <2>3 DEF FrameNumbers, IInv, FrameTypes
        <4>2. ~\E w \in Workers : Holds(w, i)
          BY <2>1 DEF Holds
        <4> QED
          BY <4>1, <4>2, <2>2 DEF IInv, NoneIsMissed
      <3> QED
        BY <3>1 DEF Over
    <2>5. Cardinality(FrameNumbers) = N
      BY FS_Interval DEF FrameNumbers
    <2>6. told = N
      BY <2>2, <2>4, <2>5 DEF IInv, Counted
    <2> QED
      BY <2>2, <2>4, <2>6 DEF IInv, ErrorsAreNoted, Over, DoneMeansEveryFrame
  <1> QED
    BY <1>1, IInvAlways, PTL

-----------------------------------------------------------------------------
(***************************************************************************)
(* The types, and the bytes counted.                                       *)
(***************************************************************************)
LEMMA ListInvInit == Init => ListInv
  <1> SUFFICES ASSUME Init PROVE ListInv
    OBVIOUS
  <1> USE CacheAssumption
  <1>1. /\ form \in Forms /\ failures = 0 /\ lru = <<>> /\ used = 0
        /\ size = [i \in Asks |-> 0] /\ entries = [k \in Tiles |-> None]
    BY DEF Init, CacheInit
  <1>2. ToSet(lru) = {} /\ Kept = {}
    BY <1>1 DEF ToSet, Kept
  <1>3. ListIsMap
    BY <1>1, <1>2 DEF ListIsMap, IsInjective
  <1>4. SizesAreLate
    BY <1>1 DEF SizesAreLate
  <1>5. UsedIsKept
    BY <1>1, <1>2, BytesOfNone, Zenon DEF UsedIsKept
  <1> QED
    BY <1>1, <1>3, <1>4, <1>5 DEF ListInv

\* Whatever leaves the list, the map, the sizes and the asks alone keeps it.
LEMMA ListInvSilent ==
    ASSUME ListInv, UNCHANGED <<form, listVars, ask, failures>>
    PROVE  ListInv'
  BY DEF listVars, ListInv, ListIsMap, Kept, SizesAreLate, UsedIsKept

LEMMA ListInvStep == IInv /\ ListInv /\ [Next]_vars => ListInv'
  <1> SUFFICES ASSUME IInv, ListInv, [Next]_vars PROVE ListInv'
    OBVIOUS
  <1>1. ASSUME NEW w \in Workers, Work(w) PROVE ListInv'
    <2>1. worker[w].frame \in Asks
      BY <1>1, FramesAssumption
         DEF Work, IInv, FrameTypes, FramesAreTaken, FrameNumbers
    <2> QED
      BY <1>1, <2>1, StepKeepsList DEF Work, IInv
  <1>2. ASSUME NEW w \in Workers, Take(w) \/ Stop(w) \/ Check(w) \/ Tell(w)
        PROVE  ListInv'
    BY <1>2, ListInvSilent DEF Take, Stop, Check, Tell, cacheVars, listVars
  <1>3. CASE Return \/ Returned \/ UNCHANGED vars
    BY <1>3, ListInvSilent DEF Return, Returned, vars, cacheVars, listVars
  <1>4. CASE InterruptFrames
    BY <1>4, ListInvSilent DEF InterruptFrames, Interrupt, listVars
  <1> QED
    BY <1>1, <1>2, <1>3, <1>4 DEF Next, Moves

LEMMA ListInvAlways == Spec => [](IInv /\ ListInv)
  <1>1. Init => IInv /\ ListInv
    BY IInvInit, ListInvInit
  <1>2. IInv /\ ListInv /\ [Next]_vars => (IInv /\ ListInv)'
    BY IInvStep, ListInvStep
  <1> QED
    BY <1>1, <1>2, PTL DEF Spec

\* What render.TileCache counts is the bytes of the tiles it keeps, each once,
\* however many were evicted while they were being read.
THEOREM BytesAreCounted == Spec => []UsedIsKept
  <1>1. IInv /\ ListInv => UsedIsKept
    BY DEF ListInv
  <1> QED
    BY <1>1, ListInvAlways, PTL

\* The list and the map of each cache agree whatever was forgotten, evicted
\* and moved to the front, and no frame is counted that is not there.
THEOREM TypesHold == Spec => []TypeOK
  <1>1. IInv /\ ListInv => TypeOK
    <2> SUFFICES ASSUME IInv, ListInv PROVE TypeOK
      OBVIOUS
    <2>1. used \in Nat
      <3>1. PICK S, sz : S = ToSet(lru) /\ sz = size
        OBVIOUS
      <3>2. S \in SUBSET Asks /\ sz \in [Asks -> Nat]
        BY <3>1, EntriesOfMap DEF IInv, ListInv, SizesAreLate
      <3>3. Bytes(sz, S) \in Nat
        BY <3>2, AsksAreFinite, BytesAreNatural
      <3> QED
        BY <3>1, <3>3 DEF ListInv, UsedIsKept
    <2>2. finished \in 0..N /\ told \in 0..N
      <3>1. Over \subseteq FrameNumbers /\ IsFiniteSet(FrameNumbers)
        BY FramesAssumption, FS_Interval DEF Over, FrameNumbers
      <3>2. Cardinality(FrameNumbers) = N
        BY FramesAssumption, FS_Interval DEF FrameNumbers
      <3>3. Cardinality(Over) <= Cardinality(FrameNumbers) /\ IsFiniteSet(Over)
        BY <3>1, FS_Subset
      <3>4. Cardinality(Over) \in Nat
        BY <3>3, FS_CardinalityType
      <3> QED
        BY <3>2, <3>3, <3>4, FramesAssumption DEF IInv, Counted
    <2>3. /\ form \in Forms /\ lru \in Seq(Asks) /\ IsInjective(lru) /\ ToSet(lru) = Kept
          /\ size \in [Asks -> Nat] /\ failures \in 0..MaxFailures
      BY DEF ListInv, ListIsMap, SizesAreLate
    <2>4. CacheTypes /\ FrameTypes
      BY DEF IInv, CacheInv
    <2> QED
      BY <2>1, <2>2, <2>3, <2>4 DEF TypeOK, CacheTypes, FrameTypes
  <1> QED
    BY <1>1, ListInvAlways, PTL

=============================================================================
