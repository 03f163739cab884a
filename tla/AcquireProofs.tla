----------------------------- MODULE AcquireProofs -----------------------------
(***************************************************************************)
(* What a fetch asks for and takes, proved of any input.  The stretches    *)
(* that coalesce makes hold every tile, are in order and apart, and waste  *)
(* no more than the limits allow; the cells of an area are the tiles it    *)
(* has ground in; BoundsAround holds all that is within its radius; a plan *)
(* takes what its area or areas ask for, once; and what a RangeReader takes *)
(* of a host that answers as it likes is what it asked for.                *)
(***************************************************************************)
EXTENDS Planning, Remote, FiniteSetTheorems, SequenceTheorems, WellFoundedInduction, TLAPS
LOCAL INSTANCE Layout

-----------------------------------------------------------------------------
(***************************************************************************)
(* Folds.  What holds of all finite sets is proved by the smallest it would *)
(* not hold of.                                                            *)
(***************************************************************************)
\* Every set of naturals that is not empty has a least.
LEMMA LeastNatural ==
    ASSUME NEW T, T \subseteq Nat, T # {}
    PROVE  \E m \in T : \A n \in T : m <= n
  <1> DEFINE R == OpToRel(<, Nat)
  <1>1. IsWellFoundedOn(R, Nat)
    BY NatLessThanWellFounded
  <1> HIDE DEF R
  <1>2. PICK m \in T : \A n \in T : <<n, m>> \notin R
    BY <1>1, WFMin
  <1>3. ASSUME NEW n \in T, n < m PROVE FALSE
    <2>1. <<n, m>> \in OpToRel(<, Nat)
      BY <1>3 DEF OpToRel
    <2> QED
      BY <1>2, <2>1 DEF R
  <1> QED
    BY <1>2, <1>3

\* Of finite sets some property does not hold of, one is smallest: it holds of
\* what is left of that one when a member is taken out.
LEMMA SmallestSet ==
    ASSUME NEW F, F # {}, \A S \in F : IsFiniteSet(S)
    PROVE  \E S \in F : \A x \in S : S \ {x} \notin F
  <1> DEFINE T == {Cardinality(S) : S \in F}
  <1>1. T \subseteq Nat /\ T # {}
    BY FS_CardinalityType
  <1>2. PICK m \in T : \A n \in T : m <= n
    BY <1>1, LeastNatural
  <1>3. PICK S \in F : Cardinality(S) = m
    BY <1>2
  <1>4. ASSUME NEW x \in S, S \ {x} \in F PROVE FALSE
    <2>1. Cardinality(S \ {x}) = Cardinality(S) - 1
      BY <1>3, FS_RemoveElement
    <2>2. Cardinality(S \ {x}) \in T
      BY <1>4
    <2> QED
      BY <1>1, <1>2, <1>3, <2>1, <2>2
  <1> QED
    BY <1>3, <1>4

Chooses(ch, S) == \A s \in SUBSET S : s # {} => ch[s] \in s

IsFold(f, S, base, step, ch) ==
    \A s \in SUBSET S :
       f[s] = IF s = {} THEN base ELSE step[<<ch[s], f[s \ {ch[s]}]>>]

\* A fold exists: of the numbers of members for which one does not there would
\* be a least.
LEMMA FoldExists ==
    ASSUME NEW S, IsFiniteSet(S), NEW V, NEW base, base \in V,
           NEW step, step \in [S \X V -> V], NEW ch, Chooses(ch, S)
    PROVE  \E f \in [SUBSET S -> V] : IsFold(f, S, base, step, ch)
  <1> DEFINE Of(s, f) == f[s] = IF s = {} THEN base ELSE step[<<ch[s], f[s \ {ch[s]}]>>]
             UpTo(n, f) == \A s \in SUBSET S : Cardinality(s) <= n => Of(s, f)
             T == {n \in Nat : ~\E f \in [SUBSET S -> V] : UpTo(n, f)}
  <1>1. \A s \in SUBSET S : IsFiniteSet(s) /\ Cardinality(s) \in Nat
                            /\ Cardinality(s) <= Cardinality(S)
    BY FS_Subset, FS_CardinalityType
  <1>2. 0 \notin T
    <2>1. PICK f : f = [s \in SUBSET S |-> base]
      OBVIOUS
    <2>2. \A s \in SUBSET S : Cardinality(s) <= 0 => s = {}
      BY <1>1, FS_EmptySet
    <2>3. UpTo(0, f) /\ f \in [SUBSET S -> V]
      BY <2>1, <2>2
    <2> QED
      BY <2>3
  <1>3. ASSUME NEW n \in Nat, n \notin T PROVE n + 1 \notin T
    <2>1. PICK f \in [SUBSET S -> V] : UpTo(n, f)
      BY <1>3
    <2>2. PICK g : g = [s \in SUBSET S |-> IF s = {} THEN base ELSE step[<<ch[s], f[s \ {ch[s]}]>>]]
      OBVIOUS
    <2>3. g \in [SUBSET S -> V]
      BY <2>1, <2>2 DEF Chooses
    <2>4. ASSUME NEW s \in SUBSET S, Cardinality(s) <= n + 1, s # {} PROVE Of(s, g)
      <3>1. PICK t : t = s \ {ch[s]}
        OBVIOUS
      <3>2. t \in SUBSET S /\ Cardinality(t) <= n
        <4>1. ch[s] \in s
          BY <2>4 DEF Chooses
        <4>2. Cardinality(t) = Cardinality(s) - 1
          BY <1>1, <3>1, <4>1, FS_RemoveElement
        <4> QED
          BY <1>1, <2>4, <3>1, <4>2
      <3>3. f[t] = IF t = {} THEN base ELSE step[<<ch[t], f[t \ {ch[t]}]>>]
        BY <2>1, <3>2
      <3>4. g[t] = f[t]
        BY <2>2, <3>2, <3>3
      <3>5. g[s] = step[<<ch[s], f[t]>>]
        BY <2>2, <2>4, <3>1
      <3> QED
        BY <2>4, <3>1, <3>4, <3>5
    <2>5. UpTo(n + 1, g)
      BY <2>2, <2>4
    <2> QED
      BY <2>3, <2>5
  <1> HIDE DEF UpTo
  <1>4. T = {}
    <2> SUFFICES ASSUME T # {} PROVE FALSE
      OBVIOUS
    <2>0. T \subseteq Nat
      OBVIOUS
    <2> HIDE DEF T
    <2>1. PICK m \in T : \A n \in T : m <= n
      BY <2>0, LeastNatural
    <2>2. m \in Nat /\ m # 0
      BY <1>2, <2>0, <2>1
    <2>3. m - 1 \in Nat /\ m - 1 \notin T /\ m = (m - 1) + 1
      BY <2>1, <2>2
    <2> QED
      BY <1>3, <2>1, <2>3
  <1>5. PICK f \in [SUBSET S -> V] : UpTo(Cardinality(S), f)
    BY <1>1, <1>4
  <1> QED
    BY <1>1, <1>5 DEF UpTo, IsFold

-----------------------------------------------------------------------------
(***************************************************************************)
(* Joining stretches.                                                      *)
(***************************************************************************)
Stretches == [offset: Int, length: Int]
SomeLimits == [gap: Int, request: Int]
Lists == Seq(Stretches) \ {<<>>}

LEMMA LimitsAreNatural ==
    ASSUME NEW limits \in SomeLimits
    PROVE  MaxGap(limits) \in Nat /\ MaxRequest(limits) \in Nat
  BY PlanningAssumption DEF SomeLimits, MaxGap, MaxRequest

\* What becomes of the last stretch: it grows, or is followed by another.
LEMMA JoinShape ==
    ASSUME NEW limits \in SomeLimits, NEW rs \in Lists, NEW l \in Stretches,
           NEW out, out = JoinRange(limits, rs, l), NEW n, n = Len(rs)
    PROVE  /\ n \in Nat /\ n > 0 /\ out \in Lists
           /\ \/ /\ Len(out) = n + 1 /\ out[n + 1] = l
                 /\ \A i \in 1..n : out[i] = rs[i]
                 /\ EndOf(rs[n]) <= l.offset
                 /\ \/ l.offset - EndOf(rs[n]) > MaxGap(limits)
                    \/ EndOf(l) - rs[n].offset > MaxRequest(limits)
              \/ /\ Len(out) = n
                 /\ \A i \in 1..(n - 1) : out[i] = rs[i]
                 /\ out[n].offset = rs[n].offset
                 /\ \/ /\ l.offset < EndOf(rs[n])
                       /\ EndOf(out[n]) = IF EndOf(l) > EndOf(rs[n]) THEN EndOf(l) ELSE EndOf(rs[n])
                    \/ /\ EndOf(rs[n]) <= l.offset
                       /\ l.offset - EndOf(rs[n]) <= MaxGap(limits)
                       /\ EndOf(l) - rs[n].offset <= MaxRequest(limits)
                       /\ EndOf(out[n]) = EndOf(l)
  <1>1. n \in Nat /\ n > 0 /\ rs \in Seq(Stretches)
    BY EmptySeq, LenProperties DEF Lists
  <1>2. PICK cur : cur = rs[n]
    OBVIOUS
  <1>3. cur \in Stretches /\ Last(rs) = cur
    BY <1>1, <1>2 DEF Last
  <1>4. PICK front : front = Front(rs)
    OBVIOUS
  <1>5. front \in Seq(Stretches) /\ Len(front) = n - 1 /\ \A i \in 1..(n - 1) : front[i] = rs[i]
    BY <1>1, <1>4 DEF Front
  <1>6. ASSUME NEW end \in Int, out = front \o <<Ending(cur, end)>>
        PROVE  /\ out \in Lists /\ Len(out) = n
               /\ \A i \in 1..(n - 1) : out[i] = rs[i]
               /\ out[n].offset = cur.offset /\ EndOf(out[n]) = end
    <2>1. PICK e : e = Ending(cur, end)
      OBVIOUS
    <2>2. e \in Stretches /\ e.offset = cur.offset /\ EndOf(e) = end
      BY <1>3, <2>1 DEF Ending, EndOf, Stretches
    <2>3. <<e>> \in Seq(Stretches) /\ Len(<<e>>) = 1 /\ <<e>>[1] = e
      BY <2>2
    <2>4. /\ out \in Seq(Stretches) /\ Len(out) = n
          /\ \A i \in 1..(n - 1) : out[i] = front[i]
          /\ out[n] = e
      BY <1>1, <1>5, <1>6, <2>1, <2>3
    <2> QED
      BY <1>1, <1>5, <2>2, <2>4 DEF Lists
  <1>7. EndOf(cur) \in Int /\ EndOf(l) \in Int /\ l.offset \in Int /\ cur.offset \in Int
    BY <1>3 DEF Stretches, EndOf
  <1>8. CASE l.offset < EndOf(cur)
    <2>1. PICK end : end = IF EndOf(l) > EndOf(cur) THEN EndOf(l) ELSE EndOf(cur)
      OBVIOUS
    <2>2. Greater(EndOf(cur), EndOf(l)) = end /\ end \in Int
      BY <1>7, <2>1 DEF Greater
    <2>3. out = front \o <<Ending(cur, end)>>
      BY <1>3, <1>4, <1>8, <2>2 DEF JoinRange
    <2> QED
      BY <1>1, <1>2, <1>6, <1>8, <2>1, <2>2, <2>3
  <1>9. CASE /\ ~(l.offset < EndOf(cur))
             /\ l.offset - EndOf(cur) <= MaxGap(limits) /\ EndOf(l) - cur.offset <= MaxRequest(limits)
    <2>1. out = front \o <<Ending(cur, EndOf(l))>>
      BY <1>3, <1>4, <1>9 DEF JoinRange
    <2>2. PICK end \in Int : end = EndOf(l)
      BY <1>7
    <2>3. /\ out \in Lists /\ Len(out) = n
          /\ \A i \in 1..(n - 1) : out[i] = rs[i]
          /\ out[n].offset = cur.offset /\ EndOf(out[n]) = end
      BY <1>6, <2>1, <2>2
    <2> QED
      BY <1>1, <1>2, <1>7, <1>9, <2>2, <2>3
  <1>10. CASE /\ ~(l.offset < EndOf(cur))
              /\ ~(l.offset - EndOf(cur) <= MaxGap(limits) /\ EndOf(l) - cur.offset <= MaxRequest(limits))
    <2>1. out = Append(rs, l)
      BY <1>3, <1>10 DEF JoinRange
    <2>2. /\ out \in Seq(Stretches) /\ Len(out) = n + 1 /\ out[n + 1] = l
          /\ \A i \in 1..n : out[i] = rs[i]
      BY <1>1, <2>1
    <2> QED
      BY <1>1, <1>2, <1>7, <1>10, <2>2, LimitsAreNatural DEF Lists
  <1> QED
    BY <1>8, <1>9, <1>10

\* What RangesServe says of a stretch, of the tiles S met so far.
Within(l, r) == r.offset <= l.offset /\ EndOf(l) <= EndOf(r)
BytesOf(r) == r.offset..(EndOf(r) - 1)
TiledBy(S) == UNION {BytesOf(l) : l \in S}
OverlapIn(S, r) ==
    \E l, m \in {n \in S : Within(n, r)} : l # m /\ BytesOf(l) \cap BytesOf(m) # {}

Whole(S, r, limits) ==
    /\ \E l \in S : l.offset = r.offset /\ Within(l, r)
    /\ \E l \in S : EndOf(l) = EndOf(r) /\ Within(l, r)
    /\ r.length > MaxRequest(limits) => r \in S \/ OverlapIn(S, r)
    /\ \A from, to \in BytesOf(r) :
          from..to \cap TiledBy(S) = {} => to - from < MaxGap(limits)

Apart(S, r, next, limits) ==
    /\ EndOf(r) <= next.offset
    /\ \/ next.offset - EndOf(r) > MaxGap(limits)
       \/ \E l \in S : l.offset = next.offset /\ EndOf(l) - r.offset > MaxRequest(limits)

Served(S, rs, limits) ==
    /\ rs \in Lists
    /\ \A l \in S : \E i \in 1..Len(rs) : Within(l, rs[i])
    /\ \A i \in 1..(Len(rs) - 1) : Apart(S, rs[i], rs[i + 1], limits)
    /\ \A i \in 1..Len(rs) : Whole(S, rs[i], limits)

\* The locations of tiles: stretches of some bytes.
Located == {l \in Stretches : l.offset >= 0 /\ l.length > 0}

LEMMA WholeOfMore ==
    ASSUME NEW S, NEW T, S \subseteq T, NEW r, NEW limits, Whole(S, r, limits)
    PROVE  Whole(T, r, limits)
  <1>1. TiledBy(S) \subseteq TiledBy(T)
    BY DEF TiledBy
  <1>2. OverlapIn(S, r) => OverlapIn(T, r)
    BY DEF OverlapIn
  <1> QED
    BY <1>1, <1>2 DEF Whole

\* A tile by itself.
LEMMA WholeOfOne ==
    ASSUME NEW limits \in SomeLimits, NEW l \in Located, NEW S, l \in S
    PROVE  Whole(S, l, limits)
  <1>1. l.offset \in Int /\ EndOf(l) \in Int /\ Within(l, l) /\ MaxGap(limits) \in Nat
    BY LimitsAreNatural DEF Located, Stretches, EndOf, Within
  <1>2. ASSUME NEW from \in BytesOf(l), NEW to \in BytesOf(l),
               from..to \cap TiledBy(S) = {}
        PROVE  to - from < MaxGap(limits)
    <2>1. from \in TiledBy(S)
      BY DEF TiledBy
    <2>2. from \in Int /\ to \in Int
      BY <1>1 DEF BytesOf
    <2>3. from \notin from..to
      BY <1>2, <2>1
    <2> QED
      BY <1>1, <2>2, <2>3
  <1> QED
    BY <1>1, <1>2 DEF Whole

\* The last stretch, grown to hold a tile that begins no earlier than it.
LEMMA GrownIsWhole ==
    ASSUME NEW limits \in SomeLimits, NEW S \in SUBSET Located, NEW l \in Located \ S,
           NEW r \in Stretches, NEW out \in Stretches,
           Whole(S, r, limits), \A m \in S : m.offset <= l.offset, out.offset = r.offset,
           \/ /\ l.offset < EndOf(r)
              /\ EndOf(out) = IF EndOf(l) > EndOf(r) THEN EndOf(l) ELSE EndOf(r)
           \/ /\ EndOf(r) <= l.offset
              /\ l.offset - EndOf(r) <= MaxGap(limits)
              /\ EndOf(l) - r.offset <= MaxRequest(limits)
              /\ EndOf(out) = EndOf(l)
    PROVE  /\ Whole(S \cup {l}, out, limits) /\ Within(l, out)
           /\ \A m \in Stretches : Within(m, r) => Within(m, out)
  <1> DEFINE T == S \cup {l}
  <1>1. /\ r.offset \in Int /\ EndOf(r) \in Int /\ l.offset \in Int /\ EndOf(l) \in Int
        /\ EndOf(out) \in Int /\ l.offset < EndOf(l)
        /\ out.length = EndOf(out) - out.offset
        /\ MaxGap(limits) \in Nat /\ MaxRequest(limits) \in Nat
    BY LimitsAreNatural DEF Located, Stretches, EndOf
  <1>2. EndOf(r) <= EndOf(out) /\ EndOf(l) <= EndOf(out) /\ EndOf(out) \in {EndOf(r), EndOf(l)}
    BY <1>1
  <1>3. Within(l, out) /\ \A m \in Stretches : Within(m, r) => Within(m, out)
    <2>1. \A m \in Stretches : m.offset \in Int /\ EndOf(m) \in Int
      BY DEF Stretches, EndOf
    <2>2. r.offset <= l.offset
      BY DEF Whole
    <2> QED
      BY <1>1, <1>2, <2>1, <2>2 DEF Within
  <1>4. PICK first \in S : first.offset = r.offset /\ Within(first, r)
    BY DEF Whole
  <1>5. PICK last \in S : EndOf(last) = EndOf(r) /\ Within(last, r)
    BY DEF Whole
  <1>6. first \in Located /\ last \in Located /\ last.offset \in Int /\ last.offset < EndOf(last)
        /\ EndOf(last) \in Int
    BY DEF Located, Stretches, EndOf
  <1>7. \E m \in T : m.offset = out.offset /\ Within(m, out)
    BY <1>3, <1>4, <1>6 DEF Located
  <1>8. \E m \in T : EndOf(m) = EndOf(out) /\ Within(m, out)
    BY <1>2, <1>3, <1>5, <1>6 DEF Located
  <1>9. out.length > MaxRequest(limits) => OverlapIn(T, out)
    <2> SUFFICES ASSUME out.length > MaxRequest(limits) PROVE OverlapIn(T, out)
      OBVIOUS
    <2>1. l.offset < EndOf(r)
      BY <1>1
    <2>2. Within(last, out)
      BY <1>3, <1>5, <1>6 DEF Located
    <2>3. l.offset \in BytesOf(l) /\ l.offset \in BytesOf(last)
      BY <1>1, <1>5, <1>6, <2>1 DEF BytesOf
    <2> QED
      BY <1>3, <2>2, <2>3 DEF OverlapIn
  <1>10. ASSUME NEW from \in BytesOf(out), NEW to \in BytesOf(out),
                from..to \cap TiledBy(T) = {}
         PROVE  to - from < MaxGap(limits)
    <2>1. from \in Int /\ to \in Int
      BY <1>1 DEF BytesOf
    <2>2. TiledBy(S) \subseteq TiledBy(T) /\ BytesOf(l) \subseteq TiledBy(T)
      BY DEF TiledBy
    <2>3. CASE to < from
      BY <1>1, <2>1, <2>3
    <2>4. CASE from <= to
      <3>1. from \notin BytesOf(l) /\ to \notin BytesOf(l) /\ from..to \cap TiledBy(S) = {}
        <4>1. from \in from..to /\ to \in from..to
          BY <2>1, <2>4
        <4> QED
          BY <1>10, <2>2, <4>1
      <3>2. CASE from \in BytesOf(r) /\ to \in BytesOf(r)
        BY <3>1, <3>2 DEF Whole
      <3>3. CASE l.offset < EndOf(r)
        BY <1>1, <3>1, <3>2, <3>3, <2>1 DEF BytesOf
      <3>4. CASE EndOf(r) <= l.offset
        <4>1. EndOf(r) - 1 \in TiledBy(S)
          <5>1. EndOf(r) - 1 \in BytesOf(last)
            BY <1>5, <1>6 DEF BytesOf
          <5> QED
            BY <5>1 DEF TiledBy
        <4>2. ~(from <= EndOf(r) - 1 /\ EndOf(r) - 1 <= to)
          BY <1>1, <2>1, <3>1, <4>1
        <4>3. from < l.offset /\ to < l.offset
          BY <1>1, <2>1, <3>1, <3>4 DEF BytesOf
        <4> QED
          BY <1>1, <2>1, <2>4, <3>2, <3>4, <4>2, <4>3 DEF BytesOf
      <3> QED
        BY <1>1, <3>3, <3>4
    <2> QED
      BY <2>1, <2>3, <2>4
  <1> QED
    BY <1>3, <1>7, <1>8, <1>9, <1>10 DEF Whole

\* The stretches serve the tiles met so far, and one more.
LEMMA JoinServes ==
    ASSUME NEW limits \in SomeLimits, NEW S \in SUBSET Located, NEW l \in Located \ S,
           NEW rs, Served(S, rs, limits), \A m \in S : m.offset <= l.offset
    PROVE  Served(S \cup {l}, JoinRange(limits, rs, l), limits)
  <1> DEFINE T == S \cup {l}
  <1>1. PICK out, n : out = JoinRange(limits, rs, l) /\ n = Len(rs)
    OBVIOUS
  <1>2. rs \in Lists /\ l \in Stretches
    BY DEF Served, Located
  <1>3. n \in Nat /\ n > 0 /\ out \in Lists
    BY <1>1, <1>2, JoinShape
  <1>4. \A i \in 1..n : rs[i] \in Stretches
    BY <1>1, <1>2 DEF Lists
  <1>5. \A i \in 1..n : Whole(T, rs[i], limits)
    BY <1>1, WholeOfMore DEF Served
  <1>6. \A i \in 1..(n - 1) : Apart(T, rs[i], rs[i + 1], limits)
    BY <1>1 DEF Served, Apart
  <1>7. CASE /\ Len(out) = n + 1 /\ out[n + 1] = l
             /\ \A i \in 1..n : out[i] = rs[i]
             /\ EndOf(rs[n]) <= l.offset
             /\ \/ l.offset - EndOf(rs[n]) > MaxGap(limits)
                \/ EndOf(l) - rs[n].offset > MaxRequest(limits)
    <2>1. ASSUME NEW m \in T PROVE \E i \in 1..(n + 1) : Within(m, out[i])
      <3>1. CASE m = l
        <4>1. Within(m, out[n + 1]) /\ n + 1 \in 1..(n + 1)
          BY <1>3, <1>7, <3>1 DEF Within, Located, Stretches, EndOf
        <4> QED
          BY <4>1
      <3>2. CASE m \in S
        <4>1. PICK i \in 1..n : Within(m, rs[i])
          BY <1>1, <3>2 DEF Served
        <4>2. i \in 1..(n + 1) /\ out[i] = rs[i]
          BY <1>3, <1>7
        <4> QED
          BY <4>1, <4>2
      <3> QED
        BY <3>1, <3>2
    <2>2. ASSUME NEW i \in 1..n PROVE Apart(T, out[i], out[i + 1], limits)
      <3>1. CASE i = n
        BY <1>3, <1>7, <3>1 DEF Apart
      <3>2. CASE i # n
        <4>1. i \in 1..(n - 1) /\ i + 1 \in 1..n
          BY <1>3, <3>2
        <4> QED
          BY <1>6, <1>7, <4>1
      <3> QED
        BY <3>1, <3>2
    <2>3. ASSUME NEW i \in 1..(n + 1) PROVE Whole(T, out[i], limits)
      <3>1. CASE i = n + 1
        BY <1>7, <3>1, WholeOfOne
      <3>2. CASE i # n + 1
        <4>1. i \in 1..n
          BY <1>3, <3>2
        <4> QED
          BY <1>5, <1>7, <4>1
      <3> QED
        BY <3>1, <3>2
    <2>4. Len(out) - 1 = n
      BY <1>3, <1>7
    <2> QED
      BY <1>1, <1>3, <1>7, <2>1, <2>2, <2>3, <2>4 DEF Served
  <1>8. CASE /\ Len(out) = n
             /\ \A i \in 1..(n - 1) : out[i] = rs[i]
             /\ out[n].offset = rs[n].offset
             /\ \/ /\ l.offset < EndOf(rs[n])
                   /\ EndOf(out[n]) = IF EndOf(l) > EndOf(rs[n]) THEN EndOf(l) ELSE EndOf(rs[n])
                \/ /\ EndOf(rs[n]) <= l.offset
                   /\ l.offset - EndOf(rs[n]) <= MaxGap(limits)
                   /\ EndOf(l) - rs[n].offset <= MaxRequest(limits)
                   /\ EndOf(out[n]) = EndOf(l)
    <2>1. PICK r, new : r = rs[n] /\ new = out[n]
      OBVIOUS
    <2>2. r \in Stretches /\ new \in Stretches /\ Whole(S, r, limits) /\ n \in 1..n
      BY <1>1, <1>3, <1>4, <1>8, <2>1 DEF Served, Lists
    <2>3. /\ Whole(T, new, limits) /\ Within(l, new)
          /\ \A m \in Stretches : Within(m, r) => Within(m, new)
      BY <1>8, <2>1, <2>2, GrownIsWhole
    <2>4. ASSUME NEW m \in T PROVE \E i \in 1..n : Within(m, out[i])
      <3>1. CASE m = l
        BY <2>1, <2>2, <2>3, <3>1
      <3>2. CASE m \in S
        <4>1. PICK i \in 1..n : Within(m, rs[i])
          BY <1>1, <3>2 DEF Served
        <4>2. CASE i = n
          BY <2>1, <2>2, <2>3, <3>2, <4>1, <4>2 DEF Located
        <4>3. CASE i # n
          <5>1. i \in 1..(n - 1)
            BY <1>3, <4>3
          <5> QED
            BY <1>8, <4>1, <5>1
        <4> QED
          BY <4>2, <4>3
      <3> QED
        BY <3>1, <3>2
    <2>5. ASSUME NEW i \in 1..(n - 1) PROVE Apart(T, out[i], out[i + 1], limits)
      <3>1. out[i + 1].offset = rs[i + 1].offset
        <4>1. CASE i = n - 1
          <5>1. i + 1 = n
            BY <1>3, <4>1
          <5> QED
            BY <1>8, <5>1
        <4>2. CASE i # n - 1
          <5>1. i + 1 \in 1..(n - 1)
            BY <1>3, <4>2
          <5> QED
            BY <1>8, <5>1
        <4> QED
          BY <4>1, <4>2
      <3> QED
        BY <1>6, <1>8, <3>1 DEF Apart
    <2>6. ASSUME NEW i \in 1..n PROVE Whole(T, out[i], limits)
      <3>1. CASE i = n
        BY <2>1, <2>3, <3>1
      <3>2. CASE i # n
        <4>1. i \in 1..(n - 1)
          BY <1>3, <3>2
        <4> QED
          BY <1>5, <1>8, <4>1
      <3> QED
        BY <3>1, <3>2
    <2> QED
      BY <1>1, <1>3, <1>8, <2>4, <2>5, <2>6 DEF Served
  <1>9. \/ /\ Len(out) = n + 1 /\ out[n + 1] = l
           /\ \A i \in 1..n : out[i] = rs[i]
           /\ EndOf(rs[n]) <= l.offset
           /\ \/ l.offset - EndOf(rs[n]) > MaxGap(limits)
              \/ EndOf(l) - rs[n].offset > MaxRequest(limits)
        \/ /\ Len(out) = n
           /\ \A i \in 1..(n - 1) : out[i] = rs[i]
           /\ out[n].offset = rs[n].offset
           /\ \/ /\ l.offset < EndOf(rs[n])
                 /\ EndOf(out[n]) = IF EndOf(l) > EndOf(rs[n]) THEN EndOf(l) ELSE EndOf(rs[n])
              \/ /\ EndOf(rs[n]) <= l.offset
                 /\ l.offset - EndOf(rs[n]) <= MaxGap(limits)
                 /\ EndOf(l) - rs[n].offset <= MaxRequest(limits)
                 /\ EndOf(out[n]) = EndOf(l)
    BY <1>1, <1>2, JoinShape
  <1> QED
    BY <1>7, <1>8, <1>9

-----------------------------------------------------------------------------
(* The tiles one after the other.                                          *)

\* The largest of some naturals.
LEMMA LargestIsIn ==
    ASSUME NEW n \in Nat, NEW s \in SUBSET (1..n), s # {}
    PROVE  Max(s) \in s /\ \A m \in s : m <= Max(s)
  <1> DEFINE T == {n - m : m \in s}
  <1>1. T \subseteq Nat /\ T # {}
    <2>1. \A m \in s : m \in Int /\ m <= n
      OBVIOUS
    <2>2. \A m \in s : n - m \in Nat
      BY <2>1
    <2> QED
      BY <2>2
  <1>2. PICK t \in T : \A u \in T : t <= u
    BY <1>1, LeastNatural
  <1>3. PICK m \in s : t = n - m
    BY <1>2
  <1>4. \A k \in s : m >= k
    <2> SUFFICES ASSUME NEW k \in s PROVE m >= k
      OBVIOUS
    <2>1. t <= n - k
      BY <1>2
    <2> QED
      BY <1>3, <2>1
  <1>5. PICK x : x = Max(s)
    OBVIOUS
  <1>6. x \in s /\ \A k \in s : x >= k
    BY <1>4, <1>5 DEF Max
  <1> QED
    BY <1>5, <1>6

\* What coalesce's loop comes to, as FoldLeft defines it.
IsJoined(f, limits, base, seq) ==
    f = [s \in SUBSET DOMAIN seq |->
            IF s = {} THEN base ELSE JoinRange(limits, f[s \ {Max(s)}], seq[Max(s)])]

LEMMA JoinedIsFold ==
    ASSUME NEW limits, NEW base, NEW seq
    PROVE  RangesOver(limits, base, seq)
              = (CHOOSE f : IsJoined(f, limits, base, seq))[DOMAIN seq]
  BY DEF RangesOver, FoldLeft, MapThenFoldSet, IsJoined

LEMMA JoinedStep ==
    ASSUME NEW limits \in SomeLimits, NEW base \in Lists, NEW seq \in Seq(Stretches)
    PROVE  \E f : /\ f[0] = base
                  /\ \A k \in 1..Len(seq) : f[k] = JoinRange(limits, f[k - 1], seq[k])
                  /\ RangesOver(limits, base, seq) = f[Len(seq)]
  <1>1. PICK D, n : D = DOMAIN seq /\ n = Len(seq)
    OBVIOUS
  <1>2. n \in Nat /\ D = 1..n /\ IsFiniteSet(D) /\ \A i \in D : seq[i] \in Stretches
    <2>1. n \in Nat /\ D = 1..n
      BY <1>1, LenProperties
    <2>2. IsFiniteSet(1..n)
      BY <2>1, FS_Interval
    <2> QED
      BY <1>1, <2>1, <2>2
  <1>3. PICK ch : ch = [s \in SUBSET D |-> Max(s)]
    OBVIOUS
  <1>4. Chooses(ch, D)
    BY <1>2, <1>3, LargestIsIn DEF Chooses
  <1>5. PICK step : step = [p \in D \X Lists |-> JoinRange(limits, p[2], seq[p[1]])]
    OBVIOUS
  <1>6. step \in [D \X Lists -> Lists]
    BY <1>2, <1>5, JoinShape
  <1>7. PICK f \in [SUBSET D -> Lists] : IsFold(f, D, base, step, ch)
    <2>1. IsFiniteSet(D) /\ base \in Lists
      BY <1>2
    <2> QED
      BY <1>4, <1>6, <2>1, FoldExists
  <1>8. ASSUME NEW s \in SUBSET D
        PROVE  f[s] = IF s = {} THEN base ELSE JoinRange(limits, f[s \ {Max(s)}], seq[Max(s)])
    <2>1. CASE s = {}
      BY <1>7, <2>1 DEF IsFold
    <2>2. CASE s # {}
      <3>1. PICK t, m : m = Max(s) /\ t = s \ {m}
        OBVIOUS
      <3>2. m = ch[s] /\ m \in D /\ t \in SUBSET D
        BY <1>3, <1>4, <2>2, <3>1 DEF Chooses
      <3>3. f[t] \in Lists
        BY <1>7, <3>2
      <3>4. step[<<m, f[t]>>] = JoinRange(limits, f[t], seq[m])
        BY <1>5, <3>2, <3>3
      <3> QED
        BY <1>7, <2>2, <3>1, <3>2, <3>4 DEF IsFold
    <2> QED
      BY <2>1, <2>2
  <1>9. IsJoined(f, limits, base, seq)
    <2>1. f = [s \in SUBSET D |-> f[s]]
      BY <1>7
    <2>2. [s \in SUBSET D |-> f[s]]
             = [s \in SUBSET D |->
                  IF s = {} THEN base ELSE JoinRange(limits, f[s \ {Max(s)}], seq[Max(s)])]
      BY <1>8
    <2> QED
      BY <1>1, <2>1, <2>2 DEF IsJoined
  <1>10. PICK g : g = CHOOSE h : IsJoined(h, limits, base, seq)
    OBVIOUS
  <1>11. IsJoined(g, limits, base, seq)
    BY <1>9, <1>10
  <1>12. PICK G : G = [k \in 0..n |-> g[1..k]]
    OBVIOUS
  <1>13. G[0] = base
    <2>1. 1..0 = {} /\ 0 \in 0..n /\ {} \in SUBSET D
      BY <1>2
    <2> QED
      BY <1>1, <1>11, <1>12, <2>1 DEF IsJoined
  <1>14. ASSUME NEW k \in 1..n PROVE G[k] = JoinRange(limits, G[k - 1], seq[k])
    <2>1. PICK s, t : s = 1..k /\ t = 1..(k - 1)
      OBVIOUS
    <2>2. s \in SUBSET D /\ s # {} /\ t = s \ {k} /\ k \in 0..n /\ k - 1 \in 0..n
      <3>1. k \in 0..n /\ k - 1 \in 0..n /\ k \in s
        BY <1>2, <2>1
      <3>2. \A m \in s : m \in 1..n
        BY <1>2, <2>1
      <3>3. \A m : m \in t <=> m \in s /\ m # k
        BY <1>2, <2>1
      <3> QED
        BY <1>2, <3>1, <3>2, <3>3
    <2>3. Max(s) = k
      <3>1. PICK m : m = Max(s)
        OBVIOUS
      <3>2. s \in SUBSET (1..n) /\ k \in s
        BY <1>2, <2>1, <2>2
      <3>3. m \in s /\ k <= m
        BY <1>2, <2>2, <3>1, <3>2, LargestIsIn
      <3> QED
        BY <1>2, <2>1, <3>1, <3>3
    <2>4. g[s] = JoinRange(limits, g[t], seq[k])
      BY <1>1, <1>11, <2>2, <2>3 DEF IsJoined
    <2> QED
      BY <1>12, <2>1, <2>2, <2>4
  <1>15. RangesOver(limits, base, seq) = G[n]
    <2>1. RangesOver(limits, base, seq) = g[D]
      BY <1>1, <1>10, JoinedIsFold
    <2>2. G[n] = g[D]
      BY <1>2, <1>12
    <2> QED
      BY <2>1, <2>2
  <1> QED
    BY <1>1, <1>13, <1>14, <1>15

-----------------------------------------------------------------------------
(* The order of the tiles.                                                 *)

Earlier(l, m) == l.offset < m.offset \/ (l.offset = m.offset /\ l.length < m.length)

LEMMA SortedByRank ==
    ASSUME NEW S
    PROVE  Sorted(S) = [i \in 1..Cardinality(S) |->
                          CHOOSE e \in S : Cardinality({f \in S : Earlier(f, e)}) = i - 1]
  BY DEF Sorted, InOrder, Earlier

IsOrderOf(s, S) ==
    /\ s \in Seq(S) /\ Len(s) = Cardinality(S)
    /\ \A i, j \in 1..Len(s) : i < j => Earlier(s[i], s[j])
    /\ S = {s[i] : i \in 1..Len(s)}

LEMMA SortedIsOrder ==
    ASSUME NEW S, IsFiniteSet(S), S \subseteq Stretches, NEW s, s = Sorted(S)
    PROVE  IsOrderOf(s, S)
  <1>1. PICK n : n = Cardinality(S)
    OBVIOUS
  <1> DEFINE Before(e) == {f \in S : Earlier(f, e)}
             rank == [e \in S |-> Cardinality(Before(e))]
  <1>2. n \in Nat
    BY <1>1, FS_CardinalityType
  <1>3. \A e, f, g \in S : /\ ~Earlier(e, e)
                           /\ Earlier(e, f) /\ Earlier(f, g) => Earlier(e, g)
                           /\ e # f => Earlier(e, f) \/ Earlier(f, e)
    BY DEF Stretches, Earlier
  <1>4. \A e \in S : IsFiniteSet(Before(e)) /\ rank[e] \in Nat
    BY FS_Subset, FS_CardinalityType
  <1>5. ASSUME NEW T \in SUBSET S, NEW U \in SUBSET T, T # U
        PROVE  Cardinality(U) < Cardinality(T)
    <2>1. IsFiniteSet(T) /\ IsFiniteSet(U) /\ Cardinality(U) <= Cardinality(T)
      BY FS_Subset
    <2>2. Cardinality(U) # Cardinality(T)
      BY <1>5, <2>1, FS_Subset
    <2>3. Cardinality(U) \in Nat /\ Cardinality(T) \in Nat
      BY <2>1, FS_CardinalityType
    <2> QED
      BY <2>1, <2>2, <2>3
  <1>6. ASSUME NEW e \in S, NEW f \in S, Earlier(e, f) PROVE rank[e] < rank[f]
    <2>1. Before(e) \in SUBSET Before(f) /\ e \in Before(f) /\ e \notin Before(e)
      BY <1>3, <1>6
    <2>2. Before(e) # Before(f)
      BY <2>1
    <2>3. Cardinality(Before(e)) < Cardinality(Before(f))
      BY <1>5, <2>1, <2>2
    <2> QED
      BY <2>3
  <1>7. ASSUME NEW e \in S PROVE rank[e] \in 0..(n - 1)
    <2>1. Before(e) \in SUBSET S /\ Before(e) # S
      BY <1>3
    <2>2. Cardinality(Before(e)) < n
      BY <1>1, <1>5, <2>1
    <2>3. rank[e] = Cardinality(Before(e))
      OBVIOUS
    <2> HIDE DEF rank, Before
    <2> QED
      BY <1>2, <1>4, <2>2, <2>3
  <1>0. \A e \in S : rank[e] = Cardinality({f \in S : Earlier(f, e)})
    OBVIOUS
  <1> HIDE DEF rank, Before
  <1>8. \A e, f \in S : rank[e] = rank[f] => e = f
    BY <1>3, <1>4, <1>6
  <1>9. {rank[e] : e \in S} = 0..(n - 1)
    <2>1. PICK R, I : R = {rank[e] : e \in S} /\ I = 0..(n - 1)
      OBVIOUS
    <2>2. rank \in [S -> R] /\ R \subseteq I /\ IsFiniteSet(I) /\ Cardinality(I) = n
      <3>1. rank = [e \in S |-> rank[e]]
        BY DEF rank
      <3>2. R \subseteq I /\ IsFiniteSet(I) /\ Cardinality(I) = n
        BY <1>2, <1>7, <2>1, FS_Interval
      <3>3. rank \in [S -> R]
        BY <2>1, <3>1
      <3> QED
        BY <3>2, <3>3
    <2>3. Cardinality(R) = n /\ IsFiniteSet(R)
      <3>1. rank \in Bijection(S, R)
        BY <1>8, <2>1, <2>2 DEF Bijection, Injection, Surjection, IsInjective
      <3>2. ExistsBijection(S, R)
        BY <3>1 DEF ExistsBijection
      <3> QED
        BY <1>1, <3>2, FS_Bijection
    <2>4. R = I
      BY <2>2, <2>3, FS_Subset
    <2> QED
      BY <2>1, <2>4
  <1>10. s = [i \in 1..n |-> CHOOSE e \in S : Cardinality({f \in S : Earlier(f, e)}) = i - 1]
    BY <1>1, SortedByRank
  <1>11. \A i \in 1..n : s[i] \in S /\ rank[s[i]] = i - 1
    <2> SUFFICES ASSUME NEW i \in 1..n PROVE s[i] \in S /\ rank[s[i]] = i - 1
      OBVIOUS
    <2>1. i - 1 \in 0..(n - 1)
      BY <1>2
    <2>2. \E e \in S : Cardinality({f \in S : Earlier(f, e)}) = i - 1
      BY <1>0, <1>9, <2>1
    <2>3. s[i] \in S /\ Cardinality({f \in S : Earlier(f, s[i])}) = i - 1
      BY <1>10, <2>2
    <2> QED
      BY <1>0, <2>3
  <1>12. s \in Seq(S) /\ Len(s) = n
    <2>1. s = [i \in 1..n |-> s[i]]
      BY <1>10
    <2>2. s \in [1..n -> S]
      BY <1>11, <2>1
    <2> QED
      BY <1>2, <2>2
  <1>13. ASSUME NEW i \in 1..n, NEW j \in 1..n, i < j PROVE Earlier(s[i], s[j])
    <2>1. rank[s[i]] < rank[s[j]] /\ s[i] # s[j]
      BY <1>2, <1>11, <1>13
    <2> QED
      BY <1>3, <1>4, <1>6, <1>11, <2>1
  <1>14. ASSUME NEW e \in S PROVE \E i \in 1..n : e = s[i]
    <2>1. PICK i \in 1..n : i = rank[e] + 1
      BY <1>2, <1>7
    <2>2. rank[s[i]] = rank[e]
      BY <1>4, <1>11, <2>1
    <2> QED
      BY <1>8, <1>11, <2>2
  <1> QED
    BY <1>1, <1>11, <1>12, <1>13, <1>14 DEF IsOrderOf

-----------------------------------------------------------------------------
(***************************************************************************)
(* What a plan says it transfers, and how much of that is of use.          *)
(***************************************************************************)
Pick(s) == CHOOSE x \in s : TRUE

\* A sum of lengths, by any order of what is summed.
IsSumOf(f, X, len) ==
    /\ f[{}] = 0
    /\ \A s \in SUBSET X : s # {} => \E x \in s : f[s] = len[x] + f[s \ {x}]

IsUseful(f, X) ==
    f = [s \in SUBSET X |-> IF s = {} THEN 0 ELSE Pick(s).length + f[s \ {Pick(s)}]]
IsTotal(f, ranges) ==
    f = [s \in SUBSET DOMAIN ranges |->
           IF s = {} THEN 0 ELSE ranges[Pick(s)].length + f[s \ {Pick(s)}]]

LEMMA UsefulIsFold ==
    ASSUME NEW X PROVE UsefulBytes(X) = (CHOOSE f : IsUseful(f, X))[X]
  BY DEF UsefulBytes, MapThenSumSet, MapThenFoldSet, IsUseful, Pick

LEMMA TotalIsFold ==
    ASSUME NEW ranges
    PROVE  TotalBytes(ranges) = (CHOOSE f : IsTotal(f, ranges))[DOMAIN ranges]
  BY DEF TotalBytes, MapThenSumSet, MapThenFoldSet, IsTotal, Pick

IsSummed(f, X, len) ==
    f = [s \in SUBSET X |-> IF s = {} THEN 0 ELSE len[Pick(s)] + f[s \ {Pick(s)}]]

LEMMA SumExists ==
    ASSUME NEW X, IsFiniteSet(X), NEW len, len \in [X -> Int]
    PROVE  \E f : IsSummed(f, X, len)
  <1>1. PICK ch, step : /\ ch = [s \in SUBSET X |-> Pick(s)]
                        /\ step = [p \in X \X Int |-> len[p[1]] + p[2]]
    OBVIOUS
  <1>2. Chooses(ch, X)
    BY <1>1 DEF Chooses, Pick
  <1>3. step \in [X \X Int -> Int] /\ 0 \in Int
    BY <1>1
  <1>4. PICK f \in [SUBSET X -> Int] : IsFold(f, X, 0, step, ch)
    BY <1>2, <1>3, FoldExists
  <1>5. ASSUME NEW s \in SUBSET X
        PROVE  f[s] = IF s = {} THEN 0 ELSE len[Pick(s)] + f[s \ {Pick(s)}]
    <2>1. CASE s = {}
      BY <1>4, <2>1 DEF IsFold
    <2>2. CASE s # {}
      <3>1. PICK x, t : x = Pick(s) /\ t = s \ {x}
        OBVIOUS
      <3>2. x = ch[s] /\ x \in X /\ t \in SUBSET X
        BY <1>1, <1>2, <2>2, <3>1 DEF Chooses
      <3>3. f[t] \in Int
        BY <1>4, <3>2
      <3>4. step[<<x, f[t]>>] = len[x] + f[t]
        BY <1>1, <3>2, <3>3
      <3> QED
        BY <1>4, <2>2, <3>1, <3>2, <3>4 DEF IsFold
    <2> QED
      BY <2>1, <2>2
  <1>6. f = [s \in SUBSET X |-> f[s]]
    BY <1>4
  <1>7. [s \in SUBSET X |-> f[s]]
           = [s \in SUBSET X |-> IF s = {} THEN 0 ELSE len[Pick(s)] + f[s \ {Pick(s)}]]
    BY <1>5
  <1> QED
    BY <1>6, <1>7 DEF IsSummed

LEMMA UsefulIsSum ==
    ASSUME NEW X, IsFiniteSet(X), X \subseteq Stretches,
           NEW len, len = [l \in X |-> l.length]
    PROVE  \E f : IsSumOf(f, X, len) /\ UsefulBytes(X) = f[X]
  <1>1. len \in [X -> Int]
    BY DEF Stretches
  <1>2. PICK f : IsSummed(f, X, len)
    BY <1>1, SumExists
  <1>3. \A s \in SUBSET X : s # {} => Pick(s) \in s /\ len[Pick(s)] = Pick(s).length
    BY DEF Pick
  <1>4. IsUseful(f, X)
    BY <1>2, <1>3 DEF IsUseful, IsSummed
  <1>5. PICK g : g = CHOOSE h : IsUseful(h, X)
    OBVIOUS
  <1>6. IsUseful(g, X) /\ UsefulBytes(X) = g[X]
    BY <1>4, <1>5, UsefulIsFold
  <1>7. IsSumOf(g, X, len)
    BY <1>3, <1>6 DEF IsUseful, IsSumOf
  <1> QED
    BY <1>6, <1>7

LEMMA TotalIsSum ==
    ASSUME NEW rs \in Seq(Stretches), NEW len, len = [i \in DOMAIN rs |-> rs[i].length]
    PROVE  \E f : IsSumOf(f, DOMAIN rs, len) /\ TotalBytes(rs) = f[DOMAIN rs]
  <1>1. PICK X : X = DOMAIN rs
    OBVIOUS
  <1>2. IsFiniteSet(X) /\ len \in [X -> Int]
    <2>1. X = 1..Len(rs) /\ Len(rs) \in Nat
      BY <1>1, LenProperties
    <2>2. IsFiniteSet(1..Len(rs))
      BY <2>1, FS_Interval
    <2>3. \A i \in X : rs[i] \in Stretches
      BY <2>1
    <2> QED
      BY <1>1, <2>1, <2>2, <2>3 DEF Stretches
  <1>3. PICK f : IsSummed(f, X, len)
    BY <1>2, SumExists
  <1>4. \A s \in SUBSET X : s # {} => Pick(s) \in s /\ len[Pick(s)] = rs[Pick(s)].length
    BY <1>1 DEF Pick
  <1>5. IsTotal(f, rs)
    BY <1>1, <1>3, <1>4 DEF IsTotal, IsSummed
  <1>6. PICK g : g = CHOOSE h : IsTotal(h, rs)
    OBVIOUS
  <1>7. IsTotal(g, rs) /\ TotalBytes(rs) = g[X]
    BY <1>1, <1>5, <1>6, TotalIsFold
  <1>8. IsSumOf(g, X, len)
    BY <1>1, <1>4, <1>7 DEF IsTotal, IsSumOf
  <1> QED
    BY <1>1, <1>7, <1>8

\* The lengths of things apart add up to the length of them all.
Measured(B, X, len) ==
    /\ \A x \in X : IsFiniteSet(B[x]) /\ Cardinality(B[x]) = len[x]
    /\ \A x, y \in X : x # y => B[x] \cap B[y] = {}

LEMMA UnionIsSum ==
    ASSUME NEW X, IsFiniteSet(X), NEW B, NEW len, NEW f, IsSumOf(f, X, len),
           Measured(B, X, len), NEW all, all = UNION {B[x] : x \in X}
    PROVE  IsFiniteSet(all) /\ f[X] = Cardinality(all)
  <1> DEFINE All(s) == UNION {B[x] : x \in s}
             F == {s \in SUBSET X : ~(IsFiniteSet(All(s)) /\ f[s] = Cardinality(All(s)))}
  <1> SUFFICES ASSUME F # {} PROVE FALSE
    OBVIOUS
  <1>0. /\ \A x \in X : IsFiniteSet(B[x]) /\ Cardinality(B[x]) = len[x]
        /\ \A x, y \in X : x # y => B[x] \cap B[y] = {}
    BY DEF Measured
  <1>1. \A s \in F : IsFiniteSet(s)
    BY FS_Subset
  <1>2. PICK s \in F : \A x \in s : s \ {x} \notin F
    BY <1>1, SmallestSet
  <1>3. s \in SUBSET X /\ ~(IsFiniteSet(All(s)) /\ f[s] = Cardinality(All(s)))
    BY <1>2
  <1>4. s # {}
    <2>1. All({}) = {} /\ IsFiniteSet({}) /\ Cardinality({}) = 0 /\ f[{}] = 0
      BY FS_EmptySet DEF IsSumOf
    <2> QED
      BY <1>3, <2>1
  <1>5. PICK x \in s : f[s] = len[x] + f[s \ {x}]
    BY <1>3, <1>4 DEF IsSumOf
  <1>6. PICK t : t = s \ {x}
    OBVIOUS
  <1>7. IsFiniteSet(All(t)) /\ f[t] = Cardinality(All(t)) /\ t \in SUBSET X
    BY <1>2, <1>3, <1>6
  <1>8. All(s) = B[x] \cup All(t) /\ B[x] \cap All(t) = {}
    BY <1>0, <1>3, <1>5, <1>6
  <1>9. IsFiniteSet(B[x]) /\ Cardinality(B[x]) = len[x]
    BY <1>0, <1>3, <1>5
  <1> HIDE DEF All
  <1>10. /\ IsFiniteSet(B[x] \cup All(t))
         /\ Cardinality(B[x] \cup All(t))
              = Cardinality(B[x]) + Cardinality(All(t)) - Cardinality(B[x] \cap All(t))
    BY <1>7, <1>9, FS_Union
  <1>11. Cardinality(B[x]) \in Nat /\ Cardinality(All(t)) \in Nat /\ Cardinality({}) = 0
    BY <1>7, <1>9, FS_CardinalityType, FS_EmptySet
  <1>12. Cardinality(All(s)) = len[x] + f[t]
    <2>1. PICK V, U : V = B[x] /\ U = All(t)
      OBVIOUS
    <2>2. Cardinality(V \cap U) = 0 /\ Cardinality(V) \in Nat /\ Cardinality(U) \in Nat
      BY <1>8, <1>11, <2>1
    <2>3. Cardinality(V \cup U) = Cardinality(V) + Cardinality(U) - Cardinality(V \cap U)
      BY <1>10, <2>1
    <2>4. All(s) = V \cup U
      BY <1>8, <2>1
    <2>5. Cardinality(V \cup U) = Cardinality(V) + Cardinality(U)
      BY <2>2, <2>3
    <2> QED
      BY <1>7, <1>9, <2>1, <2>4, <2>5
  <1> QED
    BY <1>3, <1>5, <1>6, <1>8, <1>10, <1>12

-----------------------------------------------------------------------------
(***************************************************************************)
(* What coalesce gives.                                                    *)
(***************************************************************************)
\* The stretches serve all of the tiles: they serve those met so far, from the
\* first one on.
LEMMA CoalesceIsServed ==
    ASSUME NEW S, IsFiniteSet(S), S \subseteq Located, S # {}, NEW limits \in SomeLimits
    PROVE  Served(S, RangesOver(limits, <<Sorted(S)[1]>>, Tail(Sorted(S))), limits)
  <1>1. PICK s, n : s = Sorted(S) /\ n = Cardinality(S)
    OBVIOUS
  <1>2. /\ s \in Seq(S) /\ Len(s) = n
        /\ \A i, j \in 1..n : i < j => Earlier(s[i], s[j])
        /\ S = {s[i] : i \in 1..n}
    <2>1. S \subseteq Stretches
      BY DEF Located
    <2>2. IsOrderOf(s, S)
      BY <1>1, <2>1, SortedIsOrder
    <2>3. Len(s) = n
      BY <1>1, <2>2 DEF IsOrderOf
    <2> QED
      BY <2>2, <2>3 DEF IsOrderOf
  <1>3. n \in Nat /\ n > 0
    BY <1>1, FS_CardinalityType, FS_EmptySet
  <1>4. PICK rest, base : rest = Tail(s) /\ base = <<s[1]>>
    OBVIOUS
  <1>5. /\ rest \in Seq(Stretches) /\ Len(rest) = n - 1
        /\ \A i \in 1..(n - 1) : rest[i] = s[i + 1]
    <2>1. s \in Seq(Stretches) /\ s # <<>>
      BY <1>2, <1>3 DEF Located
    <2> QED
      BY <1>2, <1>3, <1>4, <2>1
  <1>6. \A i \in 1..n : s[i] \in S /\ s[i] \in Located
    BY <1>2
  <1>7. base \in Lists /\ Len(base) = 1 /\ base[1] = s[1]
    BY <1>3, <1>4, <1>6 DEF Lists, Located
  <1>8. PICK f : /\ f[0] = base
                 /\ \A k \in 1..Len(rest) : f[k] = JoinRange(limits, f[k - 1], rest[k])
                 /\ RangesOver(limits, base, rest) = f[Len(rest)]
    BY <1>5, <1>7, JoinedStep
  <1> DEFINE First(k) == {s[i] : i \in 1..(k + 1)}
             T == {k \in Nat : k < n /\ ~Served(First(k), f[k], limits)}
  <1>9. 0 \notin T
    <2>1. First(0) = {s[1]} /\ s[1] \in Located
      BY <1>3, <1>6
    <2>2. Whole({s[1]}, s[1], limits)
      BY <2>1, WholeOfOne
    <2>3. Within(s[1], s[1])
      BY <2>1 DEF Within, Located, Stretches, EndOf
    <2>4. Served({s[1]}, base, limits)
      BY <1>7, <2>2, <2>3 DEF Served
    <2> QED
      BY <1>8, <2>1, <2>4
  <1>10. ASSUME NEW k \in Nat, k + 1 < n, Served(First(k), f[k], limits)
         PROVE  Served(First(k + 1), f[k + 1], limits)
    <2>1. PICK l, A : l = s[k + 2] /\ A = First(k)
      OBVIOUS
    <2>2. k + 2 \in 1..n /\ l \in Located
      BY <1>3, <1>6, <1>10, <2>1
    <2>3. A \in SUBSET Located /\ \A m \in A : Earlier(m, l)
      <3>1. \A i \in 1..(k + 1) : i \in 1..n /\ i < k + 2
        BY <1>3, <1>10
      <3> SUFFICES ASSUME NEW m \in A PROVE m \in Located /\ Earlier(m, l)
        OBVIOUS
      <3>2. PICK i \in 1..(k + 1) : m = s[i]
        BY <2>1
      <3> QED
        BY <1>2, <1>6, <2>1, <2>2, <3>1, <3>2
    <2>4. l \notin A /\ \A m \in A : m.offset <= l.offset
      BY <2>2, <2>3 DEF Earlier, Located, Stretches
    <2>5. First(k + 1) = A \cup {l}
      <3>1. \A i : i \in 1..((k + 1) + 1) <=> i \in 1..(k + 1) \/ i = k + 2
        OBVIOUS
      <3> QED
        BY <2>1, <3>1
    <2>6. f[k + 1] = JoinRange(limits, f[k], l)
      <3>1. k + 1 \in 1..(n - 1) /\ (k + 1) - 1 = k /\ (k + 1) + 1 = k + 2
        BY <1>3, <1>10
      <3>2. rest[k + 1] = l
        BY <1>5, <2>1, <3>1
      <3>3. f[k + 1] = JoinRange(limits, f[(k + 1) - 1], rest[k + 1])
        BY <1>5, <1>8, <3>1
      <3> QED
        BY <3>1, <3>2, <3>3
    <2>7. Served(A \cup {l}, JoinRange(limits, f[k], l), limits)
      <3>1. Served(A, f[k], limits) /\ l \in Located \ A
        BY <1>10, <2>1, <2>2, <2>4
      <3> QED
        BY <2>3, <2>4, <3>1, JoinServes
    <2> QED
      BY <2>5, <2>6, <2>7
  <1>11. T = {}
    <2> SUFFICES ASSUME T # {} PROVE FALSE
      OBVIOUS
    <2>1. T \subseteq Nat /\ \A k \in T : k < n /\ ~Served(First(k), f[k], limits)
      OBVIOUS
    <2>2. \A k \in Nat : k < n /\ k \notin T => Served(First(k), f[k], limits)
      OBVIOUS
    <2> HIDE DEF T, First
    <2>3. PICK m \in T : \A k \in T : m <= k
      BY <2>1, LeastNatural
    <2>4. m \in Nat /\ m # 0 /\ m < n
      BY <1>9, <2>1, <2>3
    <2>5. PICK k \in Nat : m = k + 1
      <3>1. m - 1 \in Nat /\ m = (m - 1) + 1
        BY <2>4
      <3> QED
        BY <3>1
    <2>6. k \notin T /\ k + 1 < n /\ k < n
      BY <1>3, <2>3, <2>4, <2>5
    <2>7. Served(First(k + 1), f[k + 1], limits)
      BY <1>10, <2>2, <2>6
    <2> QED
      BY <2>1, <2>3, <2>5, <2>7
  <1>12. Served(First(n - 1), f[n - 1], limits)
    <2>1. n - 1 \in Nat /\ n - 1 < n
      BY <1>3
    <2> QED
      BY <1>11, <2>1
  <1>13. First(n - 1) = S
    <2>1. (n - 1) + 1 = n
      BY <1>3
    <2> QED
      BY <1>2, <2>1
  <1> QED
    BY <1>1, <1>4, <1>5, <1>8, <1>12, <1>13

\* Stretches that each end before the next are all apart.
LEMMA ServedAreApart ==
    ASSUME NEW S \in SUBSET Located, NEW rs, NEW limits, Served(S, rs, limits)
    PROVE  /\ \A i \in 1..Len(rs) : rs[i].offset \in Int /\ rs[i].offset < EndOf(rs[i])
                                    /\ EndOf(rs[i]) \in Int
           /\ \A i, j \in 1..Len(rs) : i < j => EndOf(rs[i]) <= rs[j].offset
  <1>1. PICK n : n = Len(rs)
    OBVIOUS
  <1>2. n \in Nat /\ \A i \in 1..n : rs[i] \in Stretches
    BY <1>1 DEF Served, Lists
  <1>3. ASSUME NEW i \in 1..n
        PROVE  rs[i].offset \in Int /\ EndOf(rs[i]) \in Int /\ rs[i].offset < EndOf(rs[i])
    <2>1. PICK l \in S : l.offset = rs[i].offset /\ Within(l, rs[i])
      BY <1>1 DEF Served, Whole
    <2> QED
      BY <1>2, <2>1 DEF Within, Located, Stretches, EndOf
  <1>4. \A i \in 1..(n - 1) : EndOf(rs[i]) <= rs[i + 1].offset
    BY <1>1 DEF Served, Apart
  <1>5. ASSUME NEW i \in 1..n PROVE \A j \in 1..n : i < j => EndOf(rs[i]) <= rs[j].offset
    <2> DEFINE T == {j \in 1..n : i < j /\ ~(EndOf(rs[i]) <= rs[j].offset)}
    <2> SUFFICES ASSUME T # {} PROVE FALSE
      OBVIOUS
    <2>1. T \subseteq Nat
      OBVIOUS
    <2>2. PICK m \in T : \A k \in T : m <= k
      BY <2>1, LeastNatural
    <2>3. m \in 1..n /\ i < m /\ ~(EndOf(rs[i]) <= rs[m].offset)
      BY <2>2
    <2>4. PICK k \in 1..(n - 1) : m = k + 1 /\ k >= i /\ k \in 1..n /\ k < m
      <3>1. m - 1 \in 1..(n - 1) /\ m = (m - 1) + 1 /\ m - 1 >= i /\ m - 1 \in 1..n
        BY <1>2, <2>3
      <3> QED
        BY <2>3, <3>1
    <2>5. k \notin T
      BY <2>2, <2>4
    <2>6. EndOf(rs[k]) <= rs[m].offset
      BY <1>4, <2>4
    <2>7. CASE k = i
      BY <2>3, <2>6, <2>7
    <2>8. CASE k > i
      <3>1. EndOf(rs[i]) <= rs[k].offset
        BY <2>4, <2>5, <2>8
      <3> QED
        BY <1>3, <2>3, <2>4, <2>6, <3>1
    <2> QED
      BY <2>4, <2>7, <2>8
  <1> QED
    BY <1>1, <1>3, <1>5

\* When no tiles overlap, what is transferred beside them is the bytes between
\* them.
LEMMA WasteIsGaps ==
    ASSUME NEW S, IsFiniteSet(S), S \subseteq Located, NEW limits, NEW rs, rs \in Seq(Stretches),
           \A i \in 1..Len(rs) : rs[i].offset \in Int /\ rs[i].offset < EndOf(rs[i])
                                 /\ EndOf(rs[i]) \in Int,
           \A i, j \in 1..Len(rs) : i < j => EndOf(rs[i]) <= rs[j].offset,
           \A l \in S : \E i \in 1..Len(rs) : Within(l, rs[i]),
           \A i \in 1..Len(rs) : ~OverlapIn(S, rs[i])
    PROVE  TotalBytes(rs) - UsefulBytes(S)
              = Cardinality((UNION {BytesOf(rs[i]) : i \in 1..Len(rs)}) \ TiledBy(S))
  <1>1. PICK X, n : X = DOMAIN rs /\ n = Len(rs)
    OBVIOUS
  <1>2. n \in Nat /\ X = 1..n /\ IsFiniteSet(X)
    <2>1. n \in Nat /\ X = 1..n
      BY <1>1, LenProperties
    <2>2. IsFiniteSet(1..n)
      BY <2>1, FS_Interval
    <2> QED
      BY <2>1, <2>2
  <1>3. PICK lenR, B : lenR = [i \in X |-> rs[i].length] /\ B = [i \in X |-> BytesOf(rs[i])]
    OBVIOUS
  <1>4. PICK f : IsSumOf(f, X, lenR) /\ TotalBytes(rs) = f[X]
    BY <1>1, <1>3, TotalIsSum
  <1>5. ASSUME NEW i \in X PROVE IsFiniteSet(B[i]) /\ Cardinality(B[i]) = lenR[i]
    <2>1. PICK a, e : a = rs[i].offset /\ e = EndOf(rs[i])
      OBVIOUS
    <2>2. a \in Int /\ e \in Int /\ e - 1 \in Int /\ a <= e - 1 /\ rs[i] \in Stretches
      BY <1>1, <1>2, <2>1
    <2>3. IsFiniteSet(a..(e - 1)) /\ Cardinality(a..(e - 1)) = (e - 1) - a + 1
      BY <2>2, FS_Interval
    <2>4. rs[i].length = (e - 1) - a + 1
      <3>1. PICK r : r = rs[i]
        OBVIOUS
      <3>2. r.offset \in Int /\ r.length \in Int
        BY <2>2, <3>1 DEF Stretches
      <3>3. a = r.offset /\ e = r.offset + r.length
        BY <2>1, <3>1 DEF EndOf
      <3> QED
        BY <3>1, <3>2, <3>3
    <2> QED
      BY <1>3, <2>1, <2>3, <2>4 DEF BytesOf
  <1>6. ASSUME NEW i \in X, NEW j \in X, i # j PROVE B[i] \cap B[j] = {}
    <2>1. \/ EndOf(rs[i]) <= rs[j].offset
          \/ EndOf(rs[j]) <= rs[i].offset
      BY <1>1, <1>2, <1>6
    <2>2. /\ rs[i].offset \in Int /\ EndOf(rs[i]) \in Int
          /\ rs[j].offset \in Int /\ EndOf(rs[j]) \in Int
      BY <1>1, <1>2
    <2> QED
      BY <1>3, <2>1, <2>2 DEF BytesOf
  <1>7. PICK all : all = UNION {B[i] : i \in X}
    OBVIOUS
  <1>8. IsFiniteSet(all) /\ TotalBytes(rs) = Cardinality(all)
    <2>1. Measured(B, X, lenR)
      BY <1>5, <1>6 DEF Measured
    <2> QED
      BY <1>2, <1>4, <1>7, <2>1, UnionIsSum
  <1>9. PICK lenS, C : lenS = [l \in S |-> l.length] /\ C = [l \in S |-> BytesOf(l)]
    OBVIOUS
  <1>10. \A l \in S : /\ l \in Stretches /\ l.offset \in Int /\ EndOf(l) \in Int
                      /\ EndOf(l) - l.offset = l.length /\ l.offset < EndOf(l)
    BY DEF Located, Stretches, EndOf
  <1>11. PICK g : IsSumOf(g, S, lenS) /\ UsefulBytes(S) = g[S]
    <2>1. S \subseteq Stretches
      BY <1>10
    <2> QED
      BY <1>9, <2>1, UsefulIsSum
  <1>12. ASSUME NEW l \in S PROVE IsFiniteSet(C[l]) /\ Cardinality(C[l]) = lenS[l]
    <2>1. PICK a, e : a = l.offset /\ e = EndOf(l)
      OBVIOUS
    <2>2. a \in Int /\ e \in Int /\ e - 1 \in Int /\ a <= e - 1 /\ l.length = (e - 1) - a + 1
      BY <1>10, <2>1
    <2>3. IsFiniteSet(a..(e - 1)) /\ Cardinality(a..(e - 1)) = (e - 1) - a + 1
      BY <2>2, FS_Interval
    <2> QED
      BY <1>9, <2>1, <2>2, <2>3 DEF BytesOf
  <1>13. ASSUME NEW l \in S, NEW i \in X, Within(l, rs[i]) PROVE BytesOf(l) \subseteq B[i]
    <2>1. /\ rs[i].offset \in Int /\ EndOf(rs[i]) \in Int
          /\ l.offset \in Int /\ EndOf(l) \in Int
      BY <1>1, <1>2, <1>10
    <2> QED
      BY <1>3, <1>13, <2>1 DEF Within, BytesOf
  <1>14. ASSUME NEW l \in S, NEW m \in S, l # m PROVE C[l] \cap C[m] = {}
    <2>1. PICK i \in X : Within(l, rs[i])
      BY <1>1, <1>2
    <2>2. PICK j \in X : Within(m, rs[j])
      BY <1>1, <1>2
    <2>3. CASE i = j
      <3>1. ~OverlapIn(S, rs[i])
        BY <1>1, <1>2
      <3> QED
        BY <1>9, <1>14, <2>1, <2>2, <2>3, <3>1 DEF OverlapIn
    <2>4. CASE i # j
      <3>1. BytesOf(l) \subseteq B[i] /\ BytesOf(m) \subseteq B[j]
        BY <1>13, <2>1, <2>2
      <3> QED
        BY <1>6, <1>9, <2>4, <3>1
    <2> QED
      BY <2>3, <2>4
  <1>15. PICK tiled : tiled = UNION {C[l] : l \in S}
    OBVIOUS
  <1>16. IsFiniteSet(tiled) /\ UsefulBytes(S) = Cardinality(tiled)
    <2>1. Measured(C, S, lenS)
      BY <1>12, <1>14 DEF Measured
    <2> QED
      BY <1>11, <1>15, <2>1, UnionIsSum
  <1>17. tiled = TiledBy(S)
    BY <1>9, <1>15 DEF TiledBy
  <1>18. tiled \subseteq all
    <2>1. ASSUME NEW l \in S PROVE BytesOf(l) \subseteq all
      <3>1. PICK i \in X : Within(l, rs[i])
        BY <1>1, <1>2
      <3> QED
        BY <1>7, <1>13, <3>1
    <2> QED
      BY <1>17, <2>1 DEF TiledBy
  <1>19. Cardinality(all \ tiled) = Cardinality(all) - Cardinality(tiled)
    <2>1. all \cap tiled = tiled
      BY <1>18
    <2>2. Cardinality(all \ tiled) = Cardinality(all) - Cardinality(all \cap tiled)
      BY <1>8, FS_Difference
    <2> QED
      BY <2>1, <2>2
  <1>20. all = UNION {BytesOf(rs[i]) : i \in 1..n}
    BY <1>2, <1>3, <1>7
  <1> QED
    BY <1>1, <1>8, <1>16, <1>17, <1>19, <1>20

\* Whatever tiles a fetch wants and whatever its limits, coalesce's ranges hold
\* each of them whole, in order and apart; no two could have been one within
\* the limits; none is larger than a request may be unless one tile, or tiles
\* sharing bytes, make it so; they waste no gap larger than the limit; and
\* where no tiles overlap a plan's total less its useful bytes is what is
\* wasted, to the byte.
THEOREM CoalesceServes ==
    ASSUME NEW locations, IsFiniteSet(locations), locations \subseteq Stretches,
           NEW limits \in SomeLimits
    PROVE  RangesServe(locations, limits)
  <1>1. PICK r : r = Coalesce(locations, limits)
    OBVIOUS
  <1> SUFFICES ASSUME r.ok PROVE RangesServe(locations, limits)
    BY <1>1 DEF RangesServe
  <1>2. locations \subseteq Located
    <2>1. \A l \in locations : ~(l.length <= 0 \/ l.offset < 0)
      BY <1>1 DEF Coalesce, Unplanned
    <2> QED
      BY <2>1 DEF Located, Stretches
  <1>3. PICK rs : rs = r.ranges
    OBVIOUS
  <1>4. /\ rs \in Seq(Stretches)
        /\ \A i \in 1..Len(rs) : rs[i].offset \in Int /\ rs[i].offset < EndOf(rs[i])
                                 /\ EndOf(rs[i]) \in Int
        /\ \A i, j \in 1..Len(rs) : i < j => EndOf(rs[i]) <= rs[j].offset
        /\ \A l \in locations : \E i \in 1..Len(rs) : Within(l, rs[i])
        /\ \A i \in 1..(Len(rs) - 1) : Apart(locations, rs[i], rs[i + 1], limits)
        /\ \A i \in 1..Len(rs) : Whole(locations, rs[i], limits)
    <2>1. CASE locations = {}
      <3>1. rs = <<>>
        BY <1>1, <1>3, <2>1 DEF Coalesce
      <3>2. Len(rs) = 0 /\ 1..0 = {} /\ 1..(0 - 1) = {}
        BY <3>1
      <3> QED
        BY <2>1, <3>1, <3>2
    <2>2. CASE locations # {}
      <3>1. rs = RangesOver(limits, <<Sorted(locations)[1]>>, Tail(Sorted(locations)))
        BY <1>1, <1>3, <2>2 DEF Coalesce, Unplanned
      <3>2. Served(locations, rs, limits)
        BY <1>2, <2>2, <3>1, CoalesceIsServed
      <3> QED
        BY <1>2, <3>2, ServedAreApart DEF Served, Lists
    <2> QED
      BY <2>1, <2>2
  <1>5. DOMAIN rs = 1..Len(rs) /\ Len(rs) \in Nat
    BY <1>4, LenProperties
  <1>6. ASSUME NEW i \in 1..Len(rs)
        PROVE  {rs[i].offset, EndOf(rs[i]) - 1} \subseteq TiledBy(locations)
    <2>1. PICK first \in locations : first.offset = rs[i].offset /\ Within(first, rs[i])
      BY <1>4 DEF Whole
    <2>2. PICK last \in locations : EndOf(last) = EndOf(rs[i]) /\ Within(last, rs[i])
      BY <1>4 DEF Whole
    <2>3. rs[i].offset \in BytesOf(first) /\ EndOf(rs[i]) - 1 \in BytesOf(last)
      BY <1>2, <2>1, <2>2 DEF BytesOf, Located, Stretches, EndOf
    <2> QED
      BY <2>3 DEF TiledBy
  <1>7. (\A i \in 1..Len(rs) : ~OverlapIn(locations, rs[i])) =>
           TotalBytes(rs) - UsefulBytes(locations)
              = Cardinality((UNION {BytesOf(rs[i]) : i \in 1..Len(rs)}) \ TiledBy(locations))
    BY <1>2, <1>4, WasteIsGaps
  <1>8. /\ \A l \in locations : \E i \in DOMAIN rs : Within(l, rs[i])
        /\ \A i \in 1..(Len(rs) - 1) : Apart(locations, rs[i], rs[i + 1], limits)
        /\ \A i \in DOMAIN rs :
              /\ {rs[i].offset, EndOf(rs[i]) - 1} \subseteq TiledBy(locations)
              /\ rs[i].length > MaxRequest(limits) =>
                    rs[i] \in locations \/ OverlapIn(locations, rs[i])
              /\ \A from, to \in BytesOf(rs[i]) :
                    from..to \cap TiledBy(locations) = {} => to - from < MaxGap(limits)
        /\ (\A i \in DOMAIN rs : ~OverlapIn(locations, rs[i])) =>
              TotalBytes(rs) - UsefulBytes(locations)
                 = Cardinality((UNION {BytesOf(rs[i]) : i \in DOMAIN rs}) \ TiledBy(locations))
    BY <1>4, <1>5, <1>6, <1>7 DEF Whole
  <1>9. Serve(rs, locations, limits)
    BY <1>8, Zenon DEF Serve, Apart, Within, BytesOf, TiledBy, OverlapIn
  <1> QED
    BY <1>1, <1>3, <1>9 DEF RangesServe

-----------------------------------------------------------------------------
(***************************************************************************)
(* Tiles.  First products, quotients and powers of two: which multiple of  *)
(* a width a number falls in.                                              *)
(***************************************************************************)
LEMMA MoreTimes ==
    ASSUME NEW a \in Int, NEW b \in Int, NEW w \in Int, w > 0
    PROVE  (a < b <=> a * w < b * w) /\ (a <= b <=> a * w <= b * w)
  OBVIOUS

LEMMA Quotient ==
    ASSUME NEW a \in Int, NEW w \in Int, w > 0
    PROVE  /\ a \div w \in Int
           /\ (a \div w) * w <= a /\ a < (a \div w) * w + w
  OBVIOUS

LEMMA QuotientIs ==
    ASSUME NEW a \in Int, NEW w \in Int, w > 0, NEW q \in Int
    PROVE  a \div w = q <=> q * w <= a /\ a < q * w + w
  OBVIOUS

LEMMA Powers ==
    ASSUME NEW z \in Nat
    PROVE  2^z \in Nat /\ 2^z > 0 /\ 2^(z + 1) = 2 * 2^z
  <1>1. \A n \in Nat : IsFiniteSet(1..n) /\ Cardinality(1..n) = n
    BY FS_Interval
  <1>2. \A n \in Nat : IsFiniteSet(SUBSET (1..n)) /\ Cardinality(SUBSET (1..n)) = 2^n
    BY <1>1, FS_SUBSET
  <1>3. \A n \in Nat : 2^n \in Nat
    BY <1>2, FS_CardinalityType
  <1>4. \A n \in Nat : 2^n # 0
    <2>1. \A n \in Nat : {} \in SUBSET (1..n)
      OBVIOUS
    <2> QED
      BY <1>2, <2>1, FS_EmptySet
  <1>5. PICK A, B : A = SUBSET (1..z) /\ B = {s \cup {z + 1} : s \in SUBSET (1..z)}
    OBVIOUS
  <1>6. SUBSET (1..(z + 1)) = A \cup B
    <2>1. ASSUME NEW t \in SUBSET (1..(z + 1)) PROVE t \in A \cup B
      <3>1. t \ {z + 1} \in SUBSET (1..z)
        OBVIOUS
      <3>2. CASE z + 1 \in t
        <4>1. t = (t \ {z + 1}) \cup {z + 1}
          BY <3>2
        <4> QED
          BY <1>5, <3>1, <4>1
      <3>3. CASE z + 1 \notin t
        <4>1. t = t \ {z + 1}
          BY <3>3
        <4> QED
          BY <1>5, <3>1, <4>1
      <3> QED
        BY <3>2, <3>3
    <2>2. ASSUME NEW t \in A PROVE t \in SUBSET (1..(z + 1))
      BY <1>5
    <2>3. ASSUME NEW t \in B PROVE t \in SUBSET (1..(z + 1))
      <3>1. PICK s \in SUBSET (1..z) : t = s \cup {z + 1}
        BY <1>5
      <3>2. z + 1 \in 1..(z + 1) /\ 1..z \subseteq 1..(z + 1)
        OBVIOUS
      <3> QED
        BY <3>1, <3>2
    <2> QED
      BY <2>1, <2>2, <2>3
  <1>7. A \cap B = {}
    BY <1>5
  <1>8. IsFiniteSet(A) /\ IsFiniteSet(B) /\ Cardinality(A) = Cardinality(B)
    <2>1. PICK f : f = [s \in A |-> s \cup {z + 1}]
      OBVIOUS
    <2>2. f \in [A -> B] /\ \A b \in B : \E s \in A : f[s] = b
      BY <1>5, <2>1
    <2>3. \A s, t \in A : f[s] = f[t] => s = t
      <3> SUFFICES ASSUME NEW s \in A, NEW t \in A, f[s] = f[t] PROVE s = t
        OBVIOUS
      <3>1. s \cup {z + 1} = t \cup {z + 1} /\ z + 1 \notin s /\ z + 1 \notin t
        BY <1>5, <2>1
      <3> QED
        BY <3>1
    <2>4. f \in Bijection(A, B)
      BY <2>2, <2>3 DEF Bijection, Injection, Surjection, IsInjective
    <2>5. ExistsBijection(A, B)
      BY <2>4 DEF ExistsBijection
    <2>6. IsFiniteSet(A)
      BY <1>2, <1>5
    <2> QED
      BY <2>5, <2>6, FS_Bijection
  <1>9. Cardinality(A \cup B) = Cardinality(A) + Cardinality(B)
    <2>1. Cardinality(A \cup B) = Cardinality(A) + Cardinality(B) - Cardinality(A \cap B)
      BY <1>8, FS_Union
    <2>2. Cardinality(A \cap B) = 0 /\ Cardinality(A) \in Nat /\ Cardinality(B) \in Nat
      BY <1>7, <1>8, FS_EmptySet, FS_CardinalityType
    <2> QED
      BY <2>1, <2>2
  <1>10. 2^(z + 1) = 2 * 2^z
    <2>1. z + 1 \in Nat
      OBVIOUS
    <2>2. Cardinality(SUBSET (1..(z + 1))) = 2^(z + 1)
      BY <1>2, <2>1, Zenon
    <2>3. Cardinality(A \cup B) = 2^(z + 1) /\ Cardinality(A) = 2^z
      BY <1>2, <1>5, <1>6, <2>2, Zenon
    <2> QED
      BY <1>3, <1>8, <1>9, <2>3
  <1> QED
    BY <1>3, <1>4, <1>10

LEMMA PowersAdd ==
    ASSUME NEW a \in Nat, NEW b \in Nat
    PROVE  2^(a + b) = 2^a * 2^b
  <1> DEFINE T == {n \in Nat : 2^(a + n) # 2^a * 2^n}
  <1> SUFFICES ASSUME T # {} PROVE FALSE
    OBVIOUS
  <1>1. PICK m \in T : \A n \in T : m <= n
    BY LeastNatural
  <1>2. m # 0
    <2>1. PICK p : p = 2^a
      OBVIOUS
    <2>2. p \in Nat /\ 2^0 = 1 /\ a + 0 = a
      BY <2>1, Powers
    <2>3. 2^(a + 0) = 2^a * 2^0
      <3>1. 2^(a + 0) = p
        BY <2>1, <2>2
      <3>2. 2^a * 2^0 = p * 1
        BY <2>1, <2>2
      <3> QED
        BY <2>2, <3>1, <3>2
    <2> QED
      BY <2>3
  <1>3. PICK k \in Nat : m = k + 1 /\ k \notin T
    <2>1. m - 1 \in Nat /\ m = (m - 1) + 1 /\ ~(m <= m - 1)
      BY <1>2
    <2> QED
      BY <1>1, <2>1
  <1>4. 2^(a + k) = 2^a * 2^k
    BY <1>3
  <1>5. 2^(k + 1) = 2 * 2^k /\ 2^((a + k) + 1) = 2 * 2^(a + k)
    BY Powers
  <1>6. 2^a \in Nat /\ 2^k \in Nat /\ 2^(a + k) \in Nat
    BY Powers
  <1>7. a + m = (a + k) + 1
    BY <1>3
  <1>8. PICK p, q : p = 2^a /\ q = 2^k
    OBVIOUS
  <1>9. 2^(a + m) = 2 * (p * q) /\ 2^m = 2 * q /\ p \in Nat /\ q \in Nat
    BY <1>3, <1>4, <1>5, <1>6, <1>7, <1>8
  <1>10. 2^(a + m) = 2^a * 2^m
    BY <1>8, <1>9
  <1> QED
    BY <1>1, <1>10

-----------------------------------------------------------------------------
(***************************************************************************)
(* Tiles along one axis: what FirstTile and LastTile are to the ground     *)
(* between two places of it.                                               *)
(***************************************************************************)
World == 2 * EastEnd

LEMMA WorldIsWide == World \in Nat /\ World > 0 /\ EastEnd \in Nat /\ EastEnd > 0
  <1>1. MaxLatitude \in -MaxLatitude..MaxLatitude /\ -MaxLatitude \in -MaxLatitude..MaxLatitude
        /\ -MaxLatitude < MaxLatitude
    BY TilingAssumption
  <1>2. Northing[-MaxLatitude] > Northing[MaxLatitude]
    BY <1>1, TilingAssumption
  <1>3. 2 * EastEnd > 0 /\ EastEnd \in Nat
    BY <1>2, TilingAssumption
  <1> QED
    BY <1>3 DEF World

\* The first tile with ground past lo, in a row of n tiles.
LEMMA FirstTile ==
    ASSUME NEW W \in Nat, W > 0, NEW n \in Nat, n > 0, NEW lo \in 0..W, NEW a, a = (lo * n) \div W
    PROVE  /\ a \in 0..n
           /\ \A i \in Int : a <= i <=> lo * n < (i + 1) * W
           /\ lo < W => a < n
  <1>1. lo * n \in Int /\ lo * n >= 0 /\ lo * n <= W * n
    OBVIOUS
  <1>2. a \in Int /\ a * W <= lo * n /\ lo * n < a * W + W
    BY <1>1, Quotient
  <1>3. ASSUME NEW i \in Int PROVE a <= i <=> lo * n < (i + 1) * W
    <2>1. a * W + W = (a + 1) * W
      BY <1>2
    <2>2. CASE a <= i
      <3>1. (a + 1) * W <= (i + 1) * W
        BY <1>2, <2>2, MoreTimes
      <3> QED
        BY <1>1, <1>2, <2>1, <2>2, <3>1
    <2>3. CASE ~(a <= i)
      <3>1. (i + 1) * W <= a * W
        BY <1>2, <2>3, MoreTimes
      <3> QED
        BY <1>1, <1>2, <2>3, <3>1
    <2> QED
      BY <2>2, <2>3
  <1>4. a <= n
    <2>1. lo * n < (n + 1) * W
      <3>1. (n + 1) * W = W * n + W
        OBVIOUS
      <3> QED
        BY <1>1, <3>1
    <2> QED
      BY <1>3, <2>1
  <1>5. a >= 0
    <2>1. ~(lo * n < ((-1) + 1) * W)
      BY <1>1
    <2>2. ~(a <= -1)
      BY <1>3, <2>1
    <2> QED
      BY <1>2, <2>2
  <1>6. lo < W => a < n
    <2> SUFFICES ASSUME lo < W PROVE a <= n - 1
      BY <1>2
    <2>1. lo * n < W * n
      BY MoreTimes
    <2>2. ((n - 1) + 1) * W = W * n
      OBVIOUS
    <2> QED
      BY <1>3, <2>1, <2>2
  <1> QED
    BY <1>2, <1>3, <1>4, <1>5, <1>6

\* The last tile with ground before hi.
LEMMA LastTile ==
    ASSUME NEW W \in Nat, W > 0, NEW n \in Nat, n > 0, NEW hi \in 0..W,
           NEW e, e = (hi * n + W - 1) \div W - 1
    PROVE  /\ e \in -1..(n - 1)
           /\ \A i \in Int : i <= e <=> i * W < hi * n
           /\ hi > 0 => e >= 0
  <1>1. hi * n \in Int /\ hi * n >= 0 /\ hi * n <= W * n
    OBVIOUS
  <1>2. e \in Int /\ (e + 1) * W <= hi * n + W - 1 /\ hi * n + W - 1 < (e + 1) * W + W
    <2>1. PICK b : b = hi * n + W - 1
      OBVIOUS
    <2>2. b \in Int /\ e + 1 = b \div W
      BY <1>1, <2>1, Quotient
    <2>3. e \in Int
      BY <2>2, Quotient
    <2> QED
      BY <2>1, <2>2, <2>3, Quotient
  <1>3. e * W < hi * n /\ hi * n <= (e + 1) * W
    <2>1. (e + 1) * W = e * W + W /\ e * W \in Int
      BY <1>2
    <2> QED
      BY <1>1, <1>2, <2>1
  <1>4. ASSUME NEW i \in Int PROVE i <= e <=> i * W < hi * n
    <2>1. CASE i <= e
      <3>1. i * W <= e * W
        BY <1>2, <2>1, MoreTimes
      <3> QED
        BY <1>1, <1>2, <1>3, <2>1, <3>1
    <2>2. CASE ~(i <= e)
      <3>1. (e + 1) * W <= i * W
        BY <1>2, <2>2, MoreTimes
      <3> QED
        BY <1>1, <1>2, <1>3, <2>2, <3>1
    <2> QED
      BY <2>1, <2>2
  <1>5. e <= n - 1
    <2>1. n * W = W * n /\ n \in Int
      OBVIOUS
    <2>2. ~(n <= e)
      BY <1>1, <1>4, <2>1
    <2> QED
      BY <1>2, <2>2
  <1>6. e >= -1
    <2>1. (-1) * W < hi * n
      BY <1>1
    <2> QED
      BY <1>4, <2>1
  <1>7. hi > 0 => e >= 0
    <2> SUFFICES ASSUME hi > 0 PROVE 0 <= e
      BY <1>2
    <2>1. hi * n > 0 /\ 0 * W = 0
      OBVIOUS
    <2> QED
      BY <1>4, <2>1
  <1> QED
    BY <1>2, <1>4, <1>5, <1>6, <1>7

Reaching(lo, hi, z) == {i \in 0..(2^z - 1) : lo * 2^z < (i + 1) * World /\ i * World < hi * 2^z}

\* What CellSpan gives of a stretch that is not a point.
LEMMA SpanIsReached ==
    ASSUME NEW z \in Nat, NEW lo \in 0..World, NEW hi \in 0..World, lo < hi
    PROVE  CellSpan(lo, hi, z) = Reaching(lo, hi, z)
  <1>1. PICK W, n : W = World /\ n = 2^z
    OBVIOUS
  <1>2. W \in Nat /\ W > 0 /\ n \in Nat /\ n > 0
    BY <1>1, WorldIsWide, Powers
  <1>3. PICK a, e : a = (lo * n) \div W /\ e = (hi * n + W - 1) \div W - 1
    OBVIOUS
  <1>4. /\ a \in 0..(n - 1)
        /\ \A i \in Int : a <= i <=> lo * n < (i + 1) * W
    <2>1. lo \in 0..W /\ lo < W
      BY <1>1, <1>2
    <2> QED
      BY <1>2, <1>3, <2>1, FirstTile
  <1>5. /\ e \in 0..(n - 1)
        /\ \A i \in Int : i <= e <=> i * W < hi * n
    <2>1. hi \in 0..W /\ hi > 0
      BY <1>1, <1>2
    <2> QED
      BY <1>2, <1>3, <2>1, LastTile
  <1>6. a <= e
    <2>1. a * W <= lo * n
      BY <1>2, <1>3, Quotient
    <2>2. lo * n < hi * n
      BY <1>1, <1>2, MoreTimes
    <2>3. a * W < hi * n
      BY <1>1, <1>2, <1>4, <2>1, <2>2
    <2> QED
      BY <1>4, <1>5, <2>3
  <1>7. CellSpan(lo, hi, z) = a..e
    <2>1. GridIndex(a, z) = a /\ GridIndex(e, z) = e
      BY <1>1, <1>2, <1>4, <1>5 DEF GridIndex, Between
    <2>2. 2 * EastEnd = W
      BY <1>1 DEF World
    <2> QED
      BY <1>1, <1>3, <1>4, <1>5, <1>6, <2>1, <2>2 DEF CellSpan
  <1>8. a..e = {i \in 0..(n - 1) : lo * n < (i + 1) * W /\ i * W < hi * n}
    BY <1>2, <1>4, <1>5
  <1> QED
    BY <1>1, <1>7, <1>8 DEF Reaching

\* A point is in one tile, the one GridIndex gives it.
LEMMA PointSpan ==
    ASSUME NEW z \in Nat, NEW lo \in 0..World
    PROVE  CellSpan(lo, lo, z) = {GridIndex((lo * 2^z) \div World, z)}
  <1>1. PICK W, n : W = World /\ n = 2^z
    OBVIOUS
  <1>2. W \in Nat /\ W > 0 /\ n \in Nat /\ n > 0
    BY <1>1, WorldIsWide, Powers
  <1>3. PICK a, e : a = (lo * n) \div W /\ e = (lo * n + W - 1) \div W - 1
    OBVIOUS
  <1>4. /\ a \in 0..n
        /\ \A i \in Int : a <= i <=> lo * n < (i + 1) * W
    BY <1>1, <1>2, <1>3, FirstTile
  <1>5. /\ e \in -1..(n - 1)
        /\ \A i \in Int : i <= e <=> i * W < lo * n
    BY <1>1, <1>2, <1>3, LastTile
  <1>6. e <= a
    <2>1. e * W < lo * n
      BY <1>5
    <2>2. lo * n < (a + 1) * W
      BY <1>4
    <2>3. e < a + 1
      <3>1. e * W < (a + 1) * W
        <4>1. lo * n \in Int /\ e * W \in Int /\ (a + 1) * W \in Int
          BY <1>1, <1>2, <1>4, <1>5
        <4> QED
          BY <2>1, <2>2, <4>1
      <3>2. e \in Int /\ a + 1 \in Int /\ W \in Int
        BY <1>2, <1>4, <1>5
      <3> QED
        BY <1>2, <3>1, <3>2, MoreTimes
    <2> QED
      BY <1>4, <1>5, <2>3
  <1>7. PICK g, h : g = GridIndex(a, z) /\ h = GridIndex(e, z)
    OBVIOUS
  <1>8. g \in 0..(n - 1) /\ h \in 0..(n - 1) /\ h <= g
    BY <1>1, <1>2, <1>4, <1>5, <1>6, <1>7 DEF GridIndex, Between
  <1>9. CellSpan(lo, lo, z) = g..(IF h < g THEN g ELSE h)
    <2>1. 2 * EastEnd = W
      BY <1>1 DEF World
    <2> QED
      BY <1>1, <1>3, <1>7, <2>1 DEF CellSpan
  <1>10. g..(IF h < g THEN g ELSE h) = {g}
    BY <1>8
  <1> QED
    BY <1>1, <1>3, <1>7, <1>9, <1>10

LEMMA SpanIsTiles ==
    ASSUME NEW z \in Nat, NEW lo \in 0..World, NEW hi \in 0..World, lo <= hi
    PROVE  \E a, e \in 0..(2^z - 1) : a <= e /\ CellSpan(lo, hi, z) = a..e
  <1>1. PICK W, n : W = World /\ n = 2^z
    OBVIOUS
  <1>2. W \in Nat /\ W > 0 /\ n \in Nat /\ n > 0
    BY <1>1, WorldIsWide, Powers
  <1>3. PICK g, h : /\ g = GridIndex((lo * n) \div W, z)
                    /\ h = GridIndex((hi * n + W - 1) \div W - 1, z)
    OBVIOUS
  <1>4. (lo * n) \div W \in Int /\ (hi * n + W - 1) \div W - 1 \in Int
    <2>1. lo * n \in Int /\ hi * n + W - 1 \in Int
      BY <1>1, <1>2
    <2> QED
      BY <1>2, <2>1, Quotient
  <1>5. g \in 0..(n - 1) /\ h \in 0..(n - 1)
    BY <1>1, <1>2, <1>3, <1>4 DEF GridIndex, Between
  <1>6. PICK last : last = IF h < g THEN g ELSE h
    OBVIOUS
  <1>7. CellSpan(lo, hi, z) = g..last
    <2>1. 2 * EastEnd = W
      BY <1>1 DEF World
    <2> QED
      BY <1>1, <1>3, <1>6, <2>1 DEF CellSpan
  <1>8. last \in 0..(n - 1) /\ g <= last
    BY <1>5, <1>6
  <1> QED
    BY <1>1, <1>5, <1>7, <1>8

-----------------------------------------------------------------------------
(***************************************************************************)
(* Tiles of an area, over and under its cells.                             *)
(***************************************************************************)
LEMMA LatitudesProject ==
    ASSUME NEW s \in Int, NEW n \in Int, s <= n
    PROVE  LET ys == Northing[Between(s, -MaxLatitude, MaxLatitude)]
               yn == Northing[Between(n, -MaxLatitude, MaxLatitude)]
           IN  ys \in 0..World /\ yn \in 0..World /\ yn <= ys
  <1>1. PICK a, c : a = Between(s, -MaxLatitude, MaxLatitude) /\ c = Between(n, -MaxLatitude, MaxLatitude)
    OBVIOUS
  <1>2. a \in -MaxLatitude..MaxLatitude /\ c \in -MaxLatitude..MaxLatitude /\ a <= c
    BY <1>1, TilingAssumption DEF Between
  <1>3. Northing[a] \in 0..World /\ Northing[c] \in 0..World
    BY <1>2, TilingAssumption DEF World
  <1>4. Northing[c] <= Northing[a]
    <2>1. CASE a = c
      BY <1>3, <2>1
    <2>2. CASE a # c
      <3>1. a < c
        BY <1>2, <2>2
      <3>2. Northing[a] > Northing[c]
        BY <1>2, <3>1, TilingAssumption
      <3> QED
        BY <1>3, <3>2
    <2> QED
      BY <2>1, <2>2
  <1> QED
    BY <1>1, <1>3, <1>4

West(b) == Project(b.west, b.north).x
East(b) == Project(b.east, b.south).x
North(b) == Project(b.west, b.north).y
South(b) == Project(b.east, b.south).y

LEMMA AreaProjects ==
    ASSUME NEW b, IsArea(b)
    PROVE  /\ West(b) \in 0..World /\ East(b) \in 0..World /\ West(b) <= East(b)
           /\ North(b) \in 0..World /\ South(b) \in 0..World /\ North(b) <= South(b)
           /\ b.west < b.east <=> West(b) < East(b)
  <1>1. /\ b.west \in -EastEnd..EastEnd /\ b.east \in -EastEnd..EastEnd /\ b.west <= b.east
        /\ b.south \in Int /\ b.north \in Int /\ b.south <= b.north
    BY WorldIsWide, TilingAssumption DEF IsArea
  <1>2. West(b) = b.west + EastEnd /\ East(b) = b.east + EastEnd
    BY DEF West, East, Project
  <1>3. /\ West(b) \in 0..World /\ East(b) \in 0..World /\ West(b) <= East(b)
        /\ b.west < b.east <=> West(b) < East(b)
    BY <1>1, <1>2, WorldIsWide DEF World
  <1>4. North(b) \in 0..World /\ South(b) \in 0..World /\ North(b) <= South(b)
    BY <1>1, LatitudesProject DEF North, South, Project
  <1> QED
    BY <1>3, <1>4

LEMMA CellsAreSpans ==
    ASSUME NEW b, NEW z \in Nat
    PROVE  /\ CellsForZoom(b, z).ok <=> IsArea(b) /\ z <= MaxCellZoom
           /\ CellsForZoom(b, z).ok =>
                 /\ CellsForZoom(b, z).cells = [x: CellSpan(West(b), East(b), z), y: CellSpan(North(b), South(b), z)]
                 /\ CellCount(b, z).count = Cardinality(CellSpan(West(b), East(b), z))
                                              * Cardinality(CellSpan(North(b), South(b), z))
  <1>1. PICK xs, ys : /\ xs = CellSpan(West(b), East(b), z)
                      /\ ys = CellSpan(North(b), South(b), z)
    OBVIOUS
  <1>2. CASE IsArea(b) /\ z <= MaxCellZoom
    <2>1. PICK r : r = CellRange(b, z)
      OBVIOUS
    <2>2. r = [ok |-> TRUE, xs |-> xs, ys |-> ys]
      <3>1. ~(~IsArea(b) \/ z > MaxCellZoom)
        BY <1>2, TilingAssumption
      <3> QED
        BY <1>1, <2>1, <3>1 DEF CellRange, West, East, North, South
    <2>3. CellsForZoom(b, z) = [ok |-> TRUE, cells |-> [x: xs, y: ys]]
      BY <2>1, <2>2 DEF CellsForZoom
    <2>4. CellCount(b, z) = [ok |-> TRUE, count |-> Cardinality(xs) * Cardinality(ys)]
      BY <2>1, <2>2 DEF CellCount
    <2>5. CellsForZoom(b, z).ok
      BY <2>3
    <2>6. CellsForZoom(b, z).cells = [x: xs, y: ys]
      <3>1. PICK R : R = [x: xs, y: ys]
        OBVIOUS
      <3>2. CellsForZoom(b, z) = [ok |-> TRUE, cells |-> R]
        BY <2>3, <3>1
      <3>3. CellsForZoom(b, z).cells = R
        BY <3>2
      <3> QED
        BY <3>1, <3>3
    <2>7. CellCount(b, z).count = Cardinality(xs) * Cardinality(ys)
      <3>1. PICK q : q = Cardinality(xs) * Cardinality(ys)
        OBVIOUS
      <3>2. CellCount(b, z) = [ok |-> TRUE, count |-> q]
        BY <2>4, <3>1
      <3>3. CellCount(b, z).count = q
        BY <3>2
      <3> QED
        BY <3>1, <3>3
    <2> QED
      BY <1>1, <1>2, <2>5, <2>6, <2>7
  <1>3. CASE ~(IsArea(b) /\ z <= MaxCellZoom)
    <2>1. CellRange(b, z) = [ok |-> FALSE]
      <3>1. ~IsArea(b) \/ z > MaxCellZoom
        BY <1>3, TilingAssumption
      <3> QED
        BY <3>1 DEF CellRange, NoTiles
    <2>2. CellsForZoom(b, z) = [ok |-> FALSE]
      BY <2>1 DEF CellsForZoom
    <2> QED
      BY <1>3, <2>2
  <1> QED
    BY <1>2, <1>3

LEMMA RecordsAreCounted ==
    ASSUME NEW X, NEW Y, IsFiniteSet(X), IsFiniteSet(Y)
    PROVE  Cardinality([x: X, y: Y]) = Cardinality(X) * Cardinality(Y)
  <1>1. PICK P, R : P = X \X Y /\ R = [x: X, y: Y]
    OBVIOUS
  <1>2. IsFiniteSet(P) /\ Cardinality(P) = Cardinality(X) * Cardinality(Y)
    BY <1>1, FS_Product
  <1>3. PICK f : f = [p \in P |-> [x |-> p[1], y |-> p[2]]]
    OBVIOUS
  <1>4. f \in [P -> R] /\ \A r \in R : \E p \in P : f[p] = r
    <2>1. f \in [P -> R]
      BY <1>1, <1>3
    <2>2. ASSUME NEW r \in R PROVE \E p \in P : f[p] = r
      <3>1. <<r.x, r.y>> \in P
        BY <1>1
      <3>2. f[<<r.x, r.y>>] = [x |-> r.x, y |-> r.y]
        BY <1>3, <3>1
      <3>3. r = [x |-> r.x, y |-> r.y]
        BY <1>1
      <3> QED
        BY <3>1, <3>2, <3>3
    <2> QED
      BY <2>1, <2>2
  <1>5. \A p, q \in P : f[p] = f[q] => p = q
    <2> SUFFICES ASSUME NEW p \in P, NEW q \in P, f[p] = f[q] PROVE p = q
      OBVIOUS
    <2>1. p[1] = q[1] /\ p[2] = q[2]
      <3>1. f[p].x = p[1] /\ f[p].y = p[2] /\ f[q].x = q[1] /\ f[q].y = q[2]
        BY <1>3
      <3> QED
        BY <3>1
    <2>2. p = <<p[1], p[2]>> /\ q = <<q[1], q[2]>>
      BY <1>1
    <2> QED
      BY <2>1, <2>2
  <1>6. f \in Bijection(P, R)
    BY <1>4, <1>5 DEF Bijection, Injection, Surjection, IsInjective
  <1>7. ExistsBijection(P, R)
    BY <1>6 DEF ExistsBijection
  <1> QED
    BY <1>1, <1>2, <1>7, FS_Bijection

\* The tiles under a tile, along one axis.
LEMMA UnderOneTile ==
    ASSUME NEW N \in Nat, N > 0, NEW n \in Nat, n > 0, NEW c \in 0..(N - 1), NEW i \in Int
    PROVE  i \in (c * n)..(c * n + n - 1) <=> i \in 0..(N * n - 1) /\ i \div n = c
  <1>1. i \div n = c <=> c * n <= i /\ i < c * n + n
    BY QuotientIs
  <1>2. 0 <= c * n /\ c * n + n <= N * n /\ c * n \in Int /\ N * n \in Int
    <2>1. 0 * n <= c * n /\ (c + 1) * n <= N * n
      BY MoreTimes
    <2>2. (c + 1) * n = c * n + n
      OBVIOUS
    <2> QED
      BY <2>1, <2>2
  <1> QED
    BY <1>1, <1>2

LEMMA TilesOfZoom ==
    ASSUME NEW z \in Nat
    PROVE  {u \in AllTiles(z) : u.z = z} = [z: {z}, x: 0..(2^z - 1), y: 0..(2^z - 1)]
  <1>1. PICK n, R : n = 2^z /\ R = [z: {z}, x: 0..(n - 1), y: 0..(n - 1)]
    OBVIOUS
  <1>2. ASSUME NEW u \in AllTiles(z), u.z = z PROVE u \in R
    <2>1. PICK d \in 0..z : u \in [z: {d}, x: 0..(2^d - 1), y: 0..(2^d - 1)]
      BY <1>2 DEF AllTiles
    <2>2. d = z
      BY <1>2, <2>1
    <2> QED
      BY <1>1, <2>1, <2>2
  <1>3. ASSUME NEW u \in R PROVE u \in AllTiles(z) /\ u.z = z
    <2>1. z \in 0..z /\ u \in [z: {z}, x: 0..(2^z - 1), y: 0..(2^z - 1)]
      BY <1>1
    <2>2. u \in AllTiles(z)
      BY <2>1, Zenon DEF AllTiles
    <2> QED
      BY <2>1, <2>2
  <1> QED
    BY <1>1, <1>2, <1>3

\* An area that is not a line has the tiles it has ground in.
LEMMA CellsAreMet ==
    ASSUME NEW b, NEW z \in Nat, CellsForZoom(b, z).ok, West(b) < East(b), North(b) < South(b)
    PROVE  CellsForZoom(b, z).cells
              = {[x |-> t.x, y |-> t.y] : t \in {u \in AllTiles(z) : u.z = z /\ Meets(b, u)}}
  <1>1. /\ West(b) \in 0..World /\ East(b) \in 0..World
        /\ North(b) \in 0..World /\ South(b) \in 0..World
    BY CellsAreSpans, AreaProjects
  <1>2. CellsForZoom(b, z).cells = [x: Reaching(West(b), East(b), z), y: Reaching(North(b), South(b), z)]
    BY <1>1, CellsAreSpans, SpanIsReached
  <1>3. PICK xs, ys : xs = Reaching(West(b), East(b), z) /\ ys = Reaching(North(b), South(b), z)
    OBVIOUS
  <1>4. PICK row : row = 0..(2^z - 1)
    OBVIOUS
  <1>5. xs \subseteq row /\ ys \subseteq row
    BY <1>3, <1>4 DEF Reaching
  <1>6. \A u \in [z: {z}, x: row, y: row] : Meets(b, u) <=> u.x \in xs /\ u.y \in ys
    BY <1>3, <1>4 DEF Meets, Reaching, World, West, East, North, South
  <1>7. {u \in AllTiles(z) : u.z = z /\ Meets(b, u)} = {u \in [z: {z}, x: row, y: row] : Meets(b, u)}
    BY <1>4, TilesOfZoom
  <1>8. PICK met : met = {u \in [z: {z}, x: row, y: row] : Meets(b, u)}
    OBVIOUS
  <1>9. [x: xs, y: ys] = {[x |-> t.x, y |-> t.y] : t \in met}
    <2>1. ASSUME NEW c \in [x: xs, y: ys] PROVE \E t \in met : c = [x |-> t.x, y |-> t.y]
      <3>1. PICK t : t = [z |-> z, x |-> c.x, y |-> c.y]
        OBVIOUS
      <3>2. t \in [z: {z}, x: row, y: row] /\ t.x = c.x /\ t.y = c.y
        BY <1>5, <3>1
      <3>3. t \in met
        BY <1>6, <1>8, <3>2
      <3>4. c = [x |-> c.x, y |-> c.y]
        OBVIOUS
      <3> QED
        BY <3>2, <3>3, <3>4
    <2>2. ASSUME NEW t \in met PROVE [x |-> t.x, y |-> t.y] \in [x: xs, y: ys]
      BY <1>6, <1>8
    <2> QED
      BY <2>1, <2>2
  <1> QED
    BY <1>2, <1>3, <1>7, <1>8, <1>9

\* Every area has a tile.
LEMMA CellsAreTiles ==
    ASSUME NEW b, NEW z \in Nat, CellsForZoom(b, z).ok
    PROVE  /\ CellsForZoom(b, z).cells # {}
           /\ CellsForZoom(b, z).cells \subseteq [x: 0..(2^z - 1), y: 0..(2^z - 1)]
           /\ IsFiniteSet(CellSpan(West(b), East(b), z)) /\ IsFiniteSet(CellSpan(North(b), South(b), z))
  <1>1. /\ West(b) \in 0..World /\ East(b) \in 0..World /\ West(b) <= East(b)
        /\ North(b) \in 0..World /\ South(b) \in 0..World /\ North(b) <= South(b)
    BY CellsAreSpans, AreaProjects
  <1>2. PICK xs, ys : xs = CellSpan(West(b), East(b), z) /\ ys = CellSpan(North(b), South(b), z)
    OBVIOUS
  <1>3. PICK a1, e1 \in 0..(2^z - 1) : a1 <= e1 /\ CellSpan(West(b), East(b), z) = a1..e1
    BY <1>1, SpanIsTiles
  <1>4. PICK a2, e2 \in 0..(2^z - 1) : a2 <= e2 /\ CellSpan(North(b), South(b), z) = a2..e2
    BY <1>1, SpanIsTiles
  <1>5. a1 \in xs /\ a2 \in ys /\ xs \subseteq 0..(2^z - 1) /\ ys \subseteq 0..(2^z - 1)
    BY <1>2, <1>3, <1>4
  <1>6. IsFiniteSet(xs) /\ IsFiniteSet(ys)
    BY <1>2, <1>3, <1>4, FS_Interval
  <1>7. [x |-> a1, y |-> a2] \in [x: xs, y: ys]
    BY <1>5
  <1>8. CellsForZoom(b, z).cells = [x: xs, y: ys]
    BY <1>2, CellsAreSpans
  <1>9. [x: xs, y: ys] \subseteq [x: 0..(2^z - 1), y: 0..(2^z - 1)]
    BY <1>5
  <1> QED
    BY <1>2, <1>6, <1>7, <1>8, <1>9, Zenon

\* The tiles of a pyramid are those its cell is above.
LEMMA PyramidIsUnder ==
    ASSUME NEW z \in Nat, z <= MaxCellZoom, NEW depth \in 0..MaxZoom, depth <= z + DepthLimit,
           NEW low \in 0..z, low <= depth, NEW c \in [x: 0..(2^z - 1), y: 0..(2^z - 1)]
    PROVE  /\ PyramidTiles(c, z, [min |-> low, max |-> depth]).ok
           /\ PyramidTiles(c, z, [min |-> low, max |-> depth]).tiles
                 = {t \in AllTiles(depth) : t.z >= z /\ Above(t, z) = [z |-> z, x |-> c.x, y |-> c.y]}
  <1> DEFINE Level(d) == [z: {d}, x: (c.x * 2^(d - z))..(c.x * 2^(d - z) + 2^(d - z) - 1),
                                  y: (c.y * 2^(d - z))..(c.y * 2^(d - z) + 2^(d - z) - 1)]
             cell == [z |-> z, x |-> c.x, y |-> c.y]
             Under == {t \in AllTiles(depth) : t.z >= z /\ Above(t, z) = cell}
  <1>1. MaxZoom \in Nat /\ DepthLimit \in Nat
    BY TilingAssumption
  <1>2. PICK p, tiles : /\ p = PyramidTiles(c, z, [min |-> low, max |-> depth])
                        /\ tiles = UNION {Level(d) : d \in z..depth}
    OBVIOUS
  <1>3. p = [ok |-> TRUE, tiles |-> tiles]
    <2>1. IsZooms([min |-> low, max |-> depth])
      BY DEF IsZooms, IsEmpty
    <2>2. Greater(low, z) = z
      BY DEF Greater
    <2>3. PICK zooms : zooms = [min |-> low, max |-> depth]
      OBVIOUS
    <2>4. zooms.min = low /\ zooms.max = depth
      BY <2>3
    <2>5. ~(~IsZooms(zooms) \/ z > MaxCellZoom \/ zooms.max > z + DepthLimit)
      BY <1>1, <2>1, <2>3, <2>4, TilingAssumption
    <2>6. PyramidTiles(c, z, zooms)
             = [ok |-> TRUE, tiles |-> UNION {Level(d) : d \in Greater(zooms.min, z)..zooms.max}]
      BY <2>5, Zenon DEF PyramidTiles
    <2> QED
      BY <1>2, <2>2, <2>3, <2>4, <2>6, Zenon
  <1>4. ASSUME NEW d \in z..depth, NEW i \in Int, NEW k \in 0..(2^z - 1)
        PROVE  i \in (k * 2^(d - z))..(k * 2^(d - z) + 2^(d - z) - 1)
                  <=> i \in 0..(2^d - 1) /\ i \div 2^(d - z) = k
    <2>1. d - z \in Nat /\ z + (d - z) = d
      OBVIOUS
    <2>2. PICK N, n : N = 2^z /\ n = 2^(d - z)
      OBVIOUS
    <2>3. N \in Nat /\ N > 0 /\ n \in Nat /\ n > 0
      BY <2>1, <2>2, Powers
    <2>4. 2^d = N * n
      <3>1. 2^(z + (d - z)) = 2^z * 2^(d - z)
        BY <2>1, PowersAdd
      <3> QED
        BY <2>1, <2>2, <3>1
    <2> QED
      BY <2>2, <2>3, <2>4, UnderOneTile
  <1>5. ASSUME NEW t \in tiles PROVE t \in Under
    <2>1. PICK d \in z..depth : t \in Level(d)
      BY <1>2
    <2>2. t.z = d /\ t.x \in Int /\ t.y \in Int /\ t = [z |-> d, x |-> t.x, y |-> t.y]
      <3>1. d - z \in Nat
        OBVIOUS
      <3>2. PICK n : n = 2^(d - z)
        OBVIOUS
      <3>3. n \in Nat
        BY <3>1, <3>2, Powers
      <3> QED
        BY <2>1, <3>2, <3>3
    <2>3. t.x \in 0..(2^d - 1) /\ t.x \div 2^(d - z) = c.x
      BY <1>4, <2>1, <2>2
    <2>4. t.y \in 0..(2^d - 1) /\ t.y \div 2^(d - z) = c.y
      BY <1>4, <2>1, <2>2
    <2>5. t \in AllTiles(depth)
      <3>1. d \in 0..depth
        OBVIOUS
      <3>2. t \in [z: {d}, x: 0..(2^d - 1), y: 0..(2^d - 1)]
        BY <2>2, <2>3, <2>4
      <3> QED
        BY <3>1, <3>2 DEF AllTiles
    <2>6. Above(t, z) = cell
      BY <2>2, <2>3, <2>4 DEF Above
    <2> QED
      BY <2>2, <2>5, <2>6
  <1>6. ASSUME NEW t \in Under PROVE t \in tiles
    <2>1. t \in AllTiles(depth) /\ t.z >= z /\ Above(t, z) = cell
      OBVIOUS
    <2>2. PICK d \in 0..depth : t \in [z: {d}, x: 0..(2^d - 1), y: 0..(2^d - 1)]
      BY <2>1 DEF AllTiles
    <2>3. t.z = d /\ d \in z..depth /\ t.x \in 0..(2^d - 1) /\ t.y \in 0..(2^d - 1)
          /\ t = [z |-> d, x |-> t.x, y |-> t.y]
      BY <2>1, <2>2
    <2>4. t.x \div 2^(d - z) = c.x /\ t.y \div 2^(d - z) = c.y
      BY <2>1, <2>3 DEF Above
    <2>5. t \in Level(d)
      BY <1>4, <2>3, <2>4
    <2> QED
      BY <1>2, <2>3, <2>5
  <1> QED
    BY <1>2, <1>3, <1>5, <1>6
\* Of any area, level of cells and depth: CellsForZoom gives the tiles the area
\* has ground in, as many as CellCount says and at least one for a point or a
\* line; a cell's pyramid is the tiles under it and no other; and the tiles over
\* it are those TileAt finds (slice/cell.go and mercator/tile.go).
THEOREM AreasAreTiled ==
    ASSUME NEW b, NEW cellZoom \in Nat, NEW depth \in 0..MaxZoom
    PROVE  AreaIsTiled(b, cellZoom, depth)
  <1>1. PICK cells : cells = CellsForZoom(b, cellZoom)
    OBVIOUS
  <1>2. cells.ok <=> IsArea(b) /\ cellZoom <= MaxCellZoom
    BY <1>1, CellsAreSpans
  <1>3. cells.ok => CellCount(b, cellZoom).count = Cardinality(cells.cells)
    <2> SUFFICES ASSUME cells.ok PROVE CellCount(b, cellZoom).count = Cardinality(cells.cells)
      OBVIOUS
    <2>1. PICK xs, ys : /\ xs = CellSpan(West(b), East(b), cellZoom)
                        /\ ys = CellSpan(North(b), South(b), cellZoom)
      OBVIOUS
    <2>2. IsFiniteSet(xs) /\ IsFiniteSet(ys)
      BY <1>1, <2>1, CellsAreTiles
    <2>3. Cardinality([x: xs, y: ys]) = Cardinality(xs) * Cardinality(ys)
      BY <2>2, RecordsAreCounted
    <2>4. cells.cells = [x: xs, y: ys] /\ CellCount(b, cellZoom).count = Cardinality(xs) * Cardinality(ys)
      BY <1>1, <2>1, CellsAreSpans
    <2> QED
      BY <2>3, <2>4
  <1>4. cells.ok /\ b.west < b.east /\ ~(North(b) = South(b)) =>
            cells.cells = {[x |-> t.x, y |-> t.y] :
                              t \in {u \in AllTiles(cellZoom) : u.z = cellZoom /\ Meets(b, u)}}
    <2> SUFFICES ASSUME cells.ok, b.west < b.east, North(b) # South(b)
                 PROVE  cells.cells = {[x |-> t.x, y |-> t.y] :
                              t \in {u \in AllTiles(cellZoom) : u.z = cellZoom /\ Meets(b, u)}}
      OBVIOUS
    <2>1. West(b) < East(b) /\ North(b) < South(b)
      BY <1>2, AreaProjects
    <2> QED
      BY <1>1, <2>1, CellsAreMet
  <1>5. cells.ok => cells.cells # {}
    BY <1>1, CellsAreTiles
  <1>6. ASSUME cells.ok, NEW c \in cells.cells
        PROVE  AncestorTiles(c, cellZoom, [min |-> 0, max |-> depth]).tiles
                  = {Above([z |-> cellZoom, x |-> c.x, y |-> c.y], z) : z \in 0..Lesser(cellZoom - 1, depth)}
    <2>1. IsZooms([min |-> 0, max |-> depth])
      BY DEF IsZooms, IsEmpty
    <2>2. cellZoom <= MaxCellZoom /\ MaxCellZoom \in Nat
      BY <1>2, <1>6, TilingAssumption
    <2> QED
      BY <2>1, <2>2 DEF AncestorTiles, Above
  <1>7. ASSUME cells.ok, NEW c \in cells.cells, depth <= cellZoom + DepthLimit
        PROVE  PyramidTiles(c, cellZoom, [min |-> 0, max |-> depth]).tiles
                  = {t \in AllTiles(depth) :
                       t.z >= cellZoom /\ Above(t, cellZoom) = [z |-> cellZoom, x |-> c.x, y |-> c.y]}
    <2>1. c \in [x: 0..(2^cellZoom - 1), y: 0..(2^cellZoom - 1)]
      BY <1>1, <1>7, CellsAreTiles
    <2> QED
      BY <1>2, <1>7, <2>1, PyramidIsUnder
  <1>8. ASSUME b.west = b.east, b.south = b.north, IsArea(b), cells.ok
        PROVE  cells.cells = {[x |-> TileAt(cellZoom, b.west, b.south).x,
                               y |-> TileAt(cellZoom, b.west, b.south).y]}
    <2>1. PICK p, n : p = Project(b.west, b.south) /\ n = 2^cellZoom
      OBVIOUS
    <2>2. West(b) = p.x /\ East(b) = p.x /\ North(b) = p.y /\ South(b) = p.y
      BY <1>8, <2>1 DEF West, East, North, South
    <2>3. p.x \in 0..World /\ p.y \in 0..World
      BY <1>8, <2>2, AreaProjects
    <2>4. PICK at : at = TileAt(cellZoom, b.west, b.south)
      OBVIOUS
    <2>5. at = [ok |-> TRUE, x |-> GridIndex((p.x * n) \div World, cellZoom),
                             y |-> GridIndex((p.y * n) \div World, cellZoom)]
      <3>1. ~(cellZoom > MaxZoom) /\ b.south \in -PoleEnd..PoleEnd /\ b.west \in -EastEnd..EastEnd
        BY <1>2, <1>8, TilingAssumption DEF IsArea
      <3> QED
        BY <2>1, <2>4, <3>1 DEF TileAt, World
    <2>6. CellSpan(West(b), East(b), cellZoom) = {at.x} /\ CellSpan(North(b), South(b), cellZoom) = {at.y}
      BY <2>1, <2>2, <2>3, <2>5, PointSpan
    <2>7. cells.cells = [x: {at.x}, y: {at.y}]
      BY <1>1, <1>8, <2>6, CellsAreSpans
    <2>8. [x: {at.x}, y: {at.y}] = {[x |-> at.x, y |-> at.y]}
      <3>1. ASSUME NEW u \in [x: {at.x}, y: {at.y}] PROVE u = [x |-> at.x, y |-> at.y]
        <4>1. u = [x |-> u.x, y |-> u.y] /\ u.x = at.x /\ u.y = at.y
          OBVIOUS
        <4> QED
          BY <4>1
      <3>2. [x |-> at.x, y |-> at.y] \in [x: {at.x}, y: {at.y}]
        OBVIOUS
      <3> QED
        BY <3>1, <3>2
    <2> QED
      BY <2>4, <2>7, <2>8
  <1> QED
    BY <1>1, <1>2, <1>3, <1>4, <1>5, <1>6, <1>7, <1>8 DEF AreaIsTiled, North, South

-----------------------------------------------------------------------------
\* Of any point and any radius, in whole degrees: where BoundsAround gives an
\* area, all that is within the radius along any parallel of it is in it
\* (acquire/area.go).
THEOREM RadiusIsCovered ==
    ASSUME NEW lat \in Int, NEW lon \in Int, NEW radius \in Int
    PROVE  RadiusIsIn(lat, lon, radius)
  <1>1. PICK far, c, b : /\ far = Lesser(AbsOf(lat) + radius, PoleEnd - 1)
                         /\ c = Cos[far]
                         /\ b = BoundsAround(lat, lon, radius)
    OBVIOUS
  <1> SUFFICES ASSUME b.ok, NEW at \in b.bounds.south..b.bounds.north, AbsOf(at) < PoleEnd
               PROVE  (b.bounds.east - lon) * Cos[AbsOf(at)] >= radius * 100
    BY <1>1 DEF RadiusIsIn
  <1>2. PICK d : d = (radius * 100 + c - 1) \div c
    OBVIOUS
  <1>3. /\ radius > 0 /\ lat \in -PoleEnd..PoleEnd
        /\ b.bounds.east = lon + d
        /\ b.bounds.south = Greater(lat - radius, -PoleEnd)
        /\ b.bounds.north = Lesser(lat + radius, PoleEnd)
    <2>1. PICK bounds : bounds = [west |-> lon - d, east |-> lon + d,
                                  south |-> Greater(lat - radius, -PoleEnd), north |-> Lesser(lat + radius, PoleEnd)]
      OBVIOUS
    <2>2. b = IF \/ lat \notin -PoleEnd..PoleEnd \/ lon \notin -EastEnd..EastEnd \/ radius <= 0
                 \/ bounds.west < -EastEnd \/ bounds.east > EastEnd
                THEN Unplanned
                ELSE [ok |-> TRUE, bounds |-> bounds]
      BY <1>1, <1>2, <2>1 DEF BoundsAround
    <2>3. ~Unplanned.ok
      BY DEF Unplanned
    <2>4. lat \in -PoleEnd..PoleEnd /\ radius > 0 /\ b = [ok |-> TRUE, bounds |-> bounds]
      BY <2>2, <2>3
    <2> QED
      BY <2>1, <2>4
  <1>4. PoleEnd \in Nat /\ PoleEnd > 0
    BY TilingAssumption
  <1>5. far \in 0..(PoleEnd - 1)
    BY <1>1, <1>3, <1>4 DEF Lesser, AbsOf
  <1>6. AbsOf(at) \in 0..(PoleEnd - 1) /\ AbsOf(at) <= far
    BY <1>1, <1>3, <1>4 DEF Lesser, Greater, AbsOf
  <1>7. c \in Nat /\ c > 0 /\ Cos[AbsOf(at)] \in Nat /\ c <= Cos[AbsOf(at)]
    <2>1. far \in 0..PoleEnd /\ AbsOf(at) \in 0..PoleEnd /\ PoleEnd \in 0..PoleEnd /\ far < PoleEnd
      BY <1>4, <1>5, <1>6
    <2>2. Cos[far] > Cos[PoleEnd] /\ \A a \in 0..PoleEnd : Cos[a] \in Nat
      <3>1. \A a \in 0..PoleEnd : Cos[a] \in 0..100
        BY PlanningAssumption
      <3>2. Cos[far] > Cos[PoleEnd]
        BY <2>1, PlanningAssumption
      <3> QED
        BY <3>1, <3>2
    <2>3. AbsOf(at) # far => Cos[AbsOf(at)] > Cos[far]
      BY <1>6, <2>1, PlanningAssumption
    <2> QED
      BY <1>1, <2>1, <2>2, <2>3
  <1>8. d \in Int /\ radius * 100 <= d * c
    <2>1. PICK a : a = radius * 100 + c - 1
      OBVIOUS
    <2>2. a \in Int /\ d = a \div c
      BY <1>2, <1>7, <2>1
    <2>3. d \in Int /\ a < d * c + c
      BY <1>7, <2>2, Quotient
    <2> QED
      BY <1>7, <2>1, <2>3
  <1>9. d * c <= d * Cos[AbsOf(at)]
    <2>1. d > 0
      <3>1. 0 * c < d * c
        BY <1>3, <1>7, <1>8
      <3> QED
        BY <1>7, <1>8, <3>1, MoreTimes
    <2>2. PICK e : e = Cos[AbsOf(at)]
      OBVIOUS
    <2>3. c * d <= e * d
      BY <1>7, <1>8, <2>1, <2>2, MoreTimes
    <2> QED
      BY <1>7, <1>8, <2>2, <2>3
  <1>10. b.bounds.east - lon = d
    BY <1>3, <1>8
  <1>11. PICK e : e = Cos[AbsOf(at)]
    OBVIOUS
  <1> QED
    BY <1>7, <1>8, <1>9, <1>10, <1>11

-----------------------------------------------------------------------------
(***************************************************************************)
(* A host read a request at a time.  First what folding over a sequence    *)
(* from its start comes to.                                                *)
(***************************************************************************)
Steps(f, D, base, step) ==
    \A s \in SUBSET D : f[s] = IF s = {} THEN base ELSE step[<<Max(s), f[s \ {Max(s)}]>>]

LEMMA StepsExist ==
    ASSUME NEW n \in Nat, NEW V, NEW base \in V, NEW step \in [(1..n) \X V -> V]
    PROVE  \E f \in [SUBSET (1..n) -> V] : Steps(f, 1..n, base, step)
  <1>1. PICK D, ch : D = 1..n /\ ch = [s \in SUBSET D |-> Max(s)]
    OBVIOUS
  <1>2. Chooses(ch, D) /\ IsFiniteSet(D)
    <2>1. \A s \in SUBSET D : s # {} => Max(s) \in s
      BY <1>1, LargestIsIn
    <2>2. IsFiniteSet(1..n)
      BY FS_Interval
    <2> QED
      BY <1>1, <2>1, <2>2 DEF Chooses
  <1>3. PICK f \in [SUBSET D -> V] : IsFold(f, D, base, step, ch)
    BY <1>1, <1>2, FoldExists
  <1>4. \A s \in SUBSET D : ch[s] = Max(s)
    BY <1>1
  <1>5. Steps(f, D, base, step)
    BY <1>3, <1>4 DEF Steps, IsFold
  <1> QED
    BY <1>1, <1>3, <1>5

LEMMA FirstOnes ==
    ASSUME NEW n \in Nat, NEW k \in Nat, 1 <= k, k <= n
    PROVE  /\ 1..k \in SUBSET (1..n)
           /\ 1..k # {}
           /\ Max(1..k) = k
           /\ (1..k) \ {k} = 1..(k - 1)
  <1>1. PICK p : p = 1..k
    OBVIOUS
  <1>2. p \in SUBSET (1..n) /\ k \in p
    BY <1>1
  <1>3. Max(p) = k
    <2>1. PICK m : m = Max(p)
      OBVIOUS
    <2>2. m \in p /\ k <= m
      BY <1>2, <2>1, LargestIsIn
    <2>3. m = k
      BY <1>1, <2>2
    <2> QED
      BY <2>1, <2>3
  <1>4. p \ {k} = 1..(k - 1)
    <2>1. \A i : i \in p \ {k} <=> i \in 1..(k - 1)
      BY <1>1
    <2> QED
      BY <2>1
  <1> QED
    BY <1>1, <1>2, <1>3, <1>4

-----------------------------------------------------------------------------
(* What a host is asked and answers. *)
ContentRanges == [first: Int, last: Int, total: Int]
Responses(U, E) == [hops: Seq(U), status: Int, range: ContentRanges, body: Seq(E \X Int)]
Requests(U, E) == [off: Int, length: Int, resp: Responses(U, E)]
Readers(url) == [ok: {TRUE}, url: {url}, size: Int, requests: Nat, read: Nat]
Answers(url, E) ==
    [reader: Readers(url), n: Nat, bytes: Seq(E \X Int), error: {"none", "EOF", "refused"}]

\* An answer that was taken.
Took(a) == a.error # "refused" /\ a.n > 0

\* What a request does to the length the reader knows.
SizeAgrees(reader, q, a) ==
    \/ a.reader = reader
    \/ a.reader.size = reader.size
    \/ a.reader.size = q.resp.range.total /\ reader.size \in {NoSize, q.resp.range.total}

\* What is taken is the start of the body, from the byte that was asked for.
Gives(reader, q, a) ==
    /\ Followed(reader, q.resp.hops)
    /\ IsContentRange(q.resp.range)
    /\ a.n <= Len(q.resp.body)
    /\ \A k \in 1..a.n : a.bytes[k] = q.resp.body[k]
    /\ q.resp.range.first = q.off
    /\ a.n = q.length \/ a.error = "EOF"
    /\ q.resp.range.total # NoSize => a.reader.size = q.resp.range.total

\* What one request does to the reader and gives.
LEMMA OneRead ==
    ASSUME NEW url, NEW U, NEW E, NEW reader \in Readers(url), NEW q \in Requests(U, E),
           NEW a, a = ReadRange(reader, q.off, q.length, q.resp)
    PROVE  /\ a \in Answers(url, E)
           /\ SizeAgrees(reader, q, a)
           /\ Took(a) => Gives(reader, q, a)
  <1>1. PICK off, length, resp : off = q.off /\ length = q.length /\ resp = q.resp
    OBVIOUS
  <1>2. PICK range, body : range = resp.range /\ body = resp.body
    OBVIOUS
  <1>3. /\ off \in Int /\ length \in Int
        /\ range.first \in Int /\ range.last \in Int /\ range.total \in Int
        /\ body \in Seq(E \X Int) /\ Len(body) \in Nat
    BY <1>1, <1>2, LenProperties DEF Requests, Responses, ContentRanges
  <1>4. PICK size, want, bytes, counted :
           /\ size = RecordSize(reader, range.total)
           /\ want = range.last - range.first + 1
           /\ bytes = SubSeq(body, 1, IF want < Len(body) THEN want ELSE Len(body))
           /\ counted = [reader EXCEPT !.size = size.size, !.requests = @ + 1, !.read = @ + Len(bytes)]
    OBVIOUS
  <1>5. a = IF off < 0 THEN Refuse(reader)
            ELSE IF length = 0 THEN Answer(reader, 0, <<>>, "none")
            ELSE IF ~Followed(reader, resp.hops) THEN Refuse(reader)
            ELSE IF resp.status = 416 THEN Answer(reader, 0, <<>>, "EOF")
            ELSE IF \/ resp.status # 206 \/ ~IsContentRange(range)
                    \/ range.first # off \/ range.last > off + length - 1 \/ ~size.ok
              THEN Refuse(reader)
            ELSE IF Len(bytes) # want THEN Answer(counted, Len(bytes), bytes, "refused")
            ELSE Answer(counted, want, bytes, IF want < length THEN "EOF" ELSE "none")
    BY <1>1, <1>2, <1>4, Zenon DEF ReadRange
  <1>6. ASSUME NEW e \in {"none", "EOF", "refused"}, a = Answer(reader, 0, <<>>, e)
        PROVE  a \in Answers(url, E) /\ a.reader = reader /\ a.n = 0
    BY <1>6 DEF Answer, Answers
  <1>7. CASE a = Refuse(reader) \/ a = Answer(reader, 0, <<>>, "none") \/ a = Answer(reader, 0, <<>>, "EOF")
    <2>1. PICK e \in {"none", "EOF", "refused"} : a = Answer(reader, 0, <<>>, e)
      BY <1>7 DEF Refuse
    <2>2. a \in Answers(url, E) /\ a.reader = reader /\ a.n = 0
      BY <1>6, <2>1
    <2> QED
      BY <2>2 DEF SizeAgrees, Took
  <1>8. CASE ~(a = Refuse(reader) \/ a = Answer(reader, 0, <<>>, "none") \/ a = Answer(reader, 0, <<>>, "EOF"))
    <2>1. /\ Followed(reader, resp.hops) /\ IsContentRange(range) /\ size.ok
          /\ range.first = off /\ range.last <= off + length - 1
          /\ a = IF Len(bytes) # want THEN Answer(counted, Len(bytes), bytes, "refused")
                 ELSE Answer(counted, want, bytes, IF want < length THEN "EOF" ELSE "none")
      BY <1>3, <1>5, <1>8
    <2>2. want \in Int /\ want > 0 /\ want <= length /\ range.total >= NoSize
      BY <1>3, <1>4, <2>1 DEF IsContentRange
    <2>3. /\ bytes \in Seq(E \X Int) /\ Len(bytes) \in Nat /\ Len(bytes) <= Len(body)
          /\ \A k \in 1..Len(bytes) : bytes[k] = body[k]
      <3>1. PICK m : m = IF want < Len(body) THEN want ELSE Len(body)
        OBVIOUS
      <3>2. m \in 0..Len(body)
        BY <1>3, <2>2, <3>1
      <3>3. bytes = SubSeq(body, 1, m)
        BY <1>4, <3>1
      <3> QED
        BY <1>3, <3>2, <3>3, SubSeqProperties
    <2>4. /\ size.size \in Int
          /\ \/ range.total = NoSize /\ size.size = reader.size
             \/ range.total # NoSize /\ size.size = range.total /\ reader.size \in {NoSize, range.total}
      BY <1>3, <1>4, <2>1 DEF RecordSize, Readers
    <2>5. counted \in Readers(url) /\ counted.size = size.size
      <3>1. /\ reader = [ok |-> reader.ok, url |-> reader.url, size |-> reader.size,
                          requests |-> reader.requests, read |-> reader.read]
            /\ reader.ok = TRUE /\ reader.url = url /\ reader.requests \in Nat /\ reader.read \in Nat
        BY DEF Readers
      <3>2. counted = [ok |-> reader.ok, url |-> reader.url, size |-> size.size,
                       requests |-> reader.requests + 1, read |-> reader.read + Len(bytes)]
        BY <1>4, <3>1
      <3>3. PICK r, b : r = reader.requests + 1 /\ b = reader.read + Len(bytes)
        OBVIOUS
      <3>4. r \in Nat /\ b \in Nat
        BY <2>3, <3>1, <3>3
      <3>5. counted = [ok |-> TRUE, url |-> url, size |-> size.size, requests |-> r, read |-> b]
        BY <3>1, <3>2, <3>3
      <3>6. counted \in Readers(url)
        BY <2>4, <3>4, <3>5 DEF Readers
      <3>7. counted.size = size.size
        BY <3>5
      <3> QED
        BY <3>6, <3>7
    <2>6. a.reader = counted /\ a.bytes = bytes /\ a.n = Len(bytes)
      BY <2>1 DEF Answer
    <2>7. a \in Answers(url, E)
      BY <2>1, <2>2, <2>3, <2>5 DEF Answer, Answers
    <2>8. a.error # "refused" => Len(bytes) = want /\ (want = length \/ a.error = "EOF")
      BY <1>3, <2>1, <2>2 DEF Answer
    <2>9. SizeAgrees(reader, q, a)
      BY <1>1, <1>2, <2>4, <2>5, <2>6 DEF SizeAgrees
    <2>10. ASSUME Took(a) PROVE Gives(reader, q, a)
      <3>1. a.n = length \/ a.error = "EOF"
        BY <2>6, <2>8, <2>10 DEF Took
      <3>2. range.total # NoSize => a.reader.size = range.total
        BY <2>4, <2>5, <2>6
      <3> QED
        BY <1>1, <1>2, <2>1, <2>3, <2>6, <3>1, <3>2 DEF Gives
    <2> QED
      BY <2>7, <2>9, <2>10
  <1> QED
    BY <1>7, <1>8

-----------------------------------------------------------------------------
(* What a reader asks in turn. *)
WithNext(reader, answers, q) ==
    Append(answers, ReadRange(ReaderAfter(reader, answers), q.off, q.length, q.resp))

IsRead(f, reader, asked) ==
    f = [s \in SUBSET DOMAIN asked |->
            IF s = {} THEN <<>> ELSE WithNext(reader, f[s \ {Max(s)}], asked[Max(s)])]

LEMMA ReadIsFold ==
    ASSUME NEW reader, NEW asked
    PROVE  ReadAll(reader, asked) = (CHOOSE f : IsRead(f, reader, asked))[DOMAIN asked]
  BY DEF ReadAll, FoldLeft, MapThenFoldSet, IsRead, WithNext

LEMMA NextIsAnswers ==
    ASSUME NEW url, NEW U, NEW E, NEW reader \in Readers(url), NEW q \in Requests(U, E),
           NEW answers \in Seq(Answers(url, E))
    PROVE  /\ WithNext(reader, answers, q) \in Seq(Answers(url, E))
           /\ ReaderAfter(reader, answers) \in Readers(url)
  <1>1. PICK r, a : r = ReaderAfter(reader, answers) /\ a = ReadRange(r, q.off, q.length, q.resp)
    OBVIOUS
  <1>2. r \in Readers(url)
    <2>1. CASE answers = <<>>
      BY <1>1, <2>1 DEF ReaderAfter
    <2>2. CASE answers # <<>>
      <3>1. PICK n : n = Len(answers)
        OBVIOUS
      <3>2. n \in 1..Len(answers) /\ answers[n] \in Answers(url, E)
        BY <2>2, <3>1, EmptySeq, LenProperties, ElementOfSeq
      <3> QED
        BY <1>1, <2>2, <3>1, <3>2 DEF ReaderAfter, Last, Answers
    <2> QED
      BY <2>1, <2>2
  <1>3. a \in Answers(url, E)
    BY <1>1, <1>2, OneRead
  <1>4. WithNext(reader, answers, q) = Append(answers, a)
    BY <1>1 DEF WithNext
  <1> QED
    BY <1>1, <1>2, <1>3, <1>4, AppendProperties

LEMMA ReadStep ==
    ASSUME NEW url, NEW U, NEW E, NEW reader \in Readers(url), NEW asked \in Seq(Requests(U, E))
    PROVE  \E f : /\ f[0] = <<>>
                  /\ \A k \in 1..Len(asked) : f[k] = WithNext(reader, f[k - 1], asked[k])
                  /\ ReadAll(reader, asked) = f[Len(asked)]
  <1>1. PICK n, V : n = Len(asked) /\ V = Seq(Answers(url, E))
    OBVIOUS
  <1>2. n \in Nat /\ DOMAIN asked = 1..n /\ \A i \in 1..n : asked[i] \in Requests(U, E)
    BY <1>1, LenProperties, ElementOfSeq
  <1>3. PICK step : step = [p \in (1..n) \X V |-> WithNext(reader, p[2], asked[p[1]])]
    OBVIOUS
  <1>4. step \in [(1..n) \X V -> V]
    BY <1>1, <1>2, <1>3, NextIsAnswers
  <1>5. <<>> \in V
    BY <1>1, EmptySeq
  <1>6. PICK f \in [SUBSET (1..n) -> V] : Steps(f, 1..n, <<>>, step)
    BY <1>2, <1>4, <1>5, StepsExist
  <1>7. ASSUME NEW s \in SUBSET (1..n)
        PROVE  f[s] = IF s = {} THEN <<>> ELSE WithNext(reader, f[s \ {Max(s)}], asked[Max(s)])
    <2>1. CASE s = {}
      BY <1>6, <2>1 DEF Steps
    <2>2. CASE s # {}
      <3>1. PICK m, t : m = Max(s) /\ t = s \ {m}
        OBVIOUS
      <3>2. m \in 1..n /\ t \in SUBSET (1..n)
        BY <1>2, <2>2, <3>1, LargestIsIn
      <3>3. f[t] \in V
        BY <1>6, <3>2
      <3>4. step[<<m, f[t]>>] = WithNext(reader, f[t], asked[m])
        BY <1>3, <3>2, <3>3
      <3> QED
        BY <1>6, <2>2, <3>1, <3>4 DEF Steps
    <2> QED
      BY <2>1, <2>2
  <1>8. IsRead(f, reader, asked)
    <2>1. f = [s \in SUBSET (1..n) |-> f[s]]
      BY <1>6
    <2>2. [s \in SUBSET (1..n) |-> f[s]]
             = [s \in SUBSET (1..n) |->
                  IF s = {} THEN <<>> ELSE WithNext(reader, f[s \ {Max(s)}], asked[Max(s)])]
      BY <1>7
    <2> QED
      BY <1>2, <2>1, <2>2 DEF IsRead
  <1>9. PICK g : g = CHOOSE h : IsRead(h, reader, asked)
    OBVIOUS
  <1>10. IsRead(g, reader, asked)
    BY <1>8, <1>9
  <1>11. PICK G : G = [k \in 0..n |-> g[1..k]]
    OBVIOUS
  <1>12. G[0] = <<>>
    <2>1. 1..0 = {} /\ 0 \in 0..n /\ {} \in SUBSET (1..n)
      BY <1>2
    <2> QED
      BY <1>2, <1>10, <1>11, <2>1 DEF IsRead
  <1>13. ASSUME NEW k \in 1..n PROVE G[k] = WithNext(reader, G[k - 1], asked[k])
    <2>1. PICK s, t : s = 1..k /\ t = 1..(k - 1)
      OBVIOUS
    <2>2. k \in Nat /\ 1 <= k /\ k <= n /\ k \in 0..n /\ k - 1 \in 0..n
      BY <1>2
    <2>3. s \in SUBSET (1..n) /\ s # {} /\ Max(s) = k /\ s \ {k} = t
      BY <1>2, <2>1, <2>2, FirstOnes
    <2>4. g[s] = WithNext(reader, g[t], asked[k])
      BY <1>2, <1>10, <2>3 DEF IsRead
    <2> QED
      BY <1>11, <2>1, <2>2, <2>4
  <1>14. ReadAll(reader, asked) = G[n]
    BY <1>2, <1>9, <1>11, ReadIsFold
  <1> QED
    BY <1>1, <1>12, <1>13, <1>14

\* The answers each come of the reader the one before it left.
ReaderAt(reader, answers, i) == IF i = 1 THEN reader ELSE answers[i - 1].reader

InTurn(reader, asked, answers, n) ==
    \A i \in 1..n : answers[i] = ReadRange(ReaderAt(reader, answers, i), asked[i].off, asked[i].length, asked[i].resp)

LEMMA ReadInTurn ==
    ASSUME NEW url, NEW U, NEW E, NEW reader \in Readers(url), NEW asked \in Seq(Requests(U, E)),
           NEW answers, answers = ReadAll(reader, asked)
    PROVE  /\ answers \in Seq(Answers(url, E)) /\ Len(answers) = Len(asked)
           /\ InTurn(reader, asked, answers, Len(asked))
  <1>1. PICK n, A : n = Len(asked) /\ A = Answers(url, E)
    OBVIOUS
  <1>2. n \in Nat /\ \A i \in 1..n : asked[i] \in Requests(U, E)
    BY <1>1, LenProperties, ElementOfSeq
  <1>3. PICK f : /\ f[0] = <<>>
                 /\ \A k \in 1..n : f[k] = WithNext(reader, f[k - 1], asked[k])
                 /\ answers = f[n]
    BY <1>1, ReadStep
  <1> DEFINE Good(k) == f[k] \in Seq(A) /\ Len(f[k]) = k /\ InTurn(reader, asked, f[k], k)
             T == {k \in Nat : k <= n /\ ~Good(k)}
  <1>4. Good(0)
    <2>1. 1..0 = {} /\ <<>> \in Seq(A) /\ Len(<<>>) = 0
      BY EmptySeq
    <2> QED
      BY <1>3, <2>1 DEF InTurn
  <1>5. ASSUME NEW k \in Nat, k + 1 <= n, Good(k)
        PROVE  Good(k + 1)
    <2>1. PICK s, q, a, t : /\ s = f[k] /\ q = asked[k + 1] /\ t = f[k + 1]
                            /\ a = ReadRange(ReaderAfter(reader, s), q.off, q.length, q.resp)
      OBVIOUS
    <2>2. /\ s \in Seq(A) /\ Len(s) = k /\ q \in Requests(U, E)
          /\ k + 1 \in 1..n /\ (k + 1) - 1 = k
      BY <1>2, <1>5, <2>1
    <2>3. t = Append(s, a) /\ t = WithNext(reader, s, q)
      BY <1>3, <2>1, <2>2 DEF WithNext
    <2>4. t \in Seq(A)
      BY <1>1, <2>2, <2>3, NextIsAnswers
    <2>5. a \in A
      BY <1>1, <2>1, <2>2, NextIsAnswers, OneRead
    <2>6. /\ Len(t) = k + 1 /\ t[k + 1] = a
          /\ \A i \in 1..k : t[i] = s[i]
      <3>1. /\ Len(Append(s, a)) = Len(s) + 1 /\ Append(s, a)[Len(s) + 1] = a
            /\ \A i \in 1..Len(s) : Append(s, a)[i] = s[i]
        BY <2>2, <2>5, AppendProperties
      <3> QED
        BY <2>2, <2>3, <3>1
    <2>7. ReaderAt(reader, t, k + 1) = ReaderAfter(reader, s)
      <3>1. CASE k = 0
        <4>1. s = <<>>
          BY <2>2, <3>1, EmptySeq
        <4> QED
          BY <3>1, <4>1 DEF ReaderAt, ReaderAfter
      <3>2. CASE k # 0
        <4>1. s # <<>> /\ k \in 1..k /\ k + 1 # 1
          BY <1>5, <2>2, <3>2, EmptySeq
        <4> QED
          BY <2>2, <2>6, <4>1 DEF ReaderAt, ReaderAfter, Last
      <3> QED
        BY <3>1, <3>2
    <2>8. ASSUME NEW i \in 1..(k + 1)
          PROVE  t[i] = ReadRange(ReaderAt(reader, t, i), asked[i].off, asked[i].length, asked[i].resp)
      <3>1. CASE i = k + 1
        BY <2>1, <2>6, <2>7, <3>1
      <3>2. CASE i # k + 1
        <4>1. i \in 1..k /\ (i # 1 => i - 1 \in 1..k)
          BY <1>5, <3>2
        <4>2. ReaderAt(reader, t, i) = ReaderAt(reader, s, i)
          BY <2>6, <4>1 DEF ReaderAt
        <4>3. s[i] = ReadRange(ReaderAt(reader, s, i), asked[i].off, asked[i].length, asked[i].resp)
          BY <1>5, <2>1, <4>1 DEF InTurn
        <4> QED
          BY <2>6, <4>1, <4>2, <4>3
      <3> QED
        BY <3>1, <3>2
    <2> QED
      BY <2>1, <2>4, <2>6, <2>8 DEF InTurn
  <1>6. T = {}
    <2>1. SUFFICES ASSUME T # {} PROVE FALSE
      OBVIOUS
    <2>2. PICK m \in T : \A i \in T : m <= i
      BY <2>1, LeastNatural
    <2>3. m # 0
      BY <1>4, <2>2
    <2>4. m - 1 \in Nat /\ m - 1 < m /\ m - 1 <= n /\ (m - 1) + 1 = m /\ m <= n
      BY <1>2, <2>2, <2>3
    <2>5. Good(m - 1)
      BY <2>2, <2>4
    <2>6. Good(m)
      BY <1>5, <2>4, <2>5
    <2> QED
      BY <2>2, <2>6
  <1>7. Good(n)
    BY <1>2, <1>6
  <1> QED
    BY <1>1, <1>3, <1>7

-----------------------------------------------------------------------------
(* A host whose answers are of some edition of the archive each.           *)
OfEdition(resp, sizes) ==
    IsContentRange(resp.range) =>
        \E e \in DOMAIN sizes :
            /\ resp.range.total \in {NoSize, sizes[e]}
            /\ \A k \in 1..Len(resp.body) : resp.body[k] = <<e, resp.range.first + k - 1>>

\* A redirect that was followed stayed on the host, at no less than its scheme.
LEMMA HopsStay ==
    ASSUME NEW U, NEW url \in U, NEW hops \in Seq(U), NEW reader, reader.url = url, Followed(reader, hops)
    PROVE  \A h \in 1..Len(hops) :
              hops[h].host = url.host /\ (url.scheme = "https" => hops[h].scheme = "https")
  <1> DEFINE Stays(h) == hops[h].host = url.host /\ (url.scheme = "https" => hops[h].scheme = "https")
             T == {h \in Nat : h \in 1..Len(hops) /\ ~Stays(h)}
  <1>1. ASSUME NEW h \in 1..Len(hops)
        PROVE  CheckRedirect(hops[h], <<url>> \o SubSeq(hops, 1, h - 1))
    BY <1>1, LenProperties DEF Followed
  <1>2. ASSUME NEW h \in 1..Len(hops)
        PROVE  Last(<<url>> \o SubSeq(hops, 1, h - 1)) = IF h = 1 THEN url ELSE hops[h - 1]
    <2>1. PICK s, t : s = SubSeq(hops, 1, h - 1) /\ t = <<url>>
      OBVIOUS
    <2>2. Len(hops) \in Nat /\ h \in Nat /\ 1 <= h /\ h <= Len(hops) /\ h - 1 \in 0..Len(hops)
      BY <1>2, LenProperties
    <2>3. s \in Seq(U) /\ Len(s) = h - 1 /\ \A i \in 1..(h - 1) : s[i] = hops[i]
      BY <2>1, <2>2, SubSeqProperties
    <2>4. t \in Seq(U) /\ Len(t) = 1 /\ t[1] = url
      BY <2>1
    <2>5. /\ Len(t \o s) = h
          /\ \A i \in 1..h : (t \o s)[i] = IF i <= 1 THEN t[i] ELSE s[i - 1]
      <3>1. /\ Len(t \o s) = Len(t) + Len(s)
            /\ \A i \in 1..(Len(t) + Len(s)) : (t \o s)[i] = IF i <= Len(t) THEN t[i] ELSE s[i - Len(t)]
        BY <2>3, <2>4, ConcatProperties
      <3>2. Len(t) + Len(s) = h
        BY <2>2, <2>3, <2>4
      <3> QED
        BY <2>4, <3>1, <3>2
    <2>6. (t \o s)[h] = IF h = 1 THEN url ELSE hops[h - 1]
      BY <2>2, <2>3, <2>4, <2>5
    <2> QED
      BY <2>1, <2>5, <2>6 DEF Last
  <1>3. ASSUME NEW h \in 1..Len(hops), h = 1 \/ Stays(h - 1)
        PROVE  Stays(h)
    <2>1. PICK prev : prev = Last(<<url>> \o SubSeq(hops, 1, h - 1))
      OBVIOUS
    <2>2. hops[h].host = prev.host /\ (prev.scheme = "https" => hops[h].scheme = "https")
      BY <1>1, <2>1 DEF CheckRedirect
    <2>3. prev.host = url.host /\ (url.scheme = "https" => prev.scheme = "https")
      BY <1>2, <1>3, <2>1
    <2> QED
      BY <2>2, <2>3
  <1> HIDE DEF Stays
  <1>4. T = {}
    <2>1. SUFFICES ASSUME T # {} PROVE FALSE
      OBVIOUS
    <2>2. PICK m \in T : \A i \in T : m <= i
      BY <2>1, LeastNatural
    <2>3. m \in 1..Len(hops) /\ m # 1
      BY <1>3, <2>2
    <2>4. m - 1 \in Nat /\ m - 1 < m /\ m - 1 \in 1..Len(hops)
      BY <2>3, LenProperties
    <2>5. Stays(m - 1)
      BY <2>2, <2>4
    <2> QED
      BY <1>3, <2>2, <2>3, <2>5
  <1>5. \A h \in 1..Len(hops) : Stays(h)
    BY <1>4, LenProperties
  <1> QED
    BY <1>5 DEF Stays

\* Once a length has been said no later answer is taken that says another.
LEMMA SizeStays ==
    ASSUME NEW url, NEW U, NEW E, NEW reader \in Readers(url), NEW asked \in Seq(Requests(U, E)),
           NEW answers, answers = ReadAll(reader, asked),
           NEW i \in 1..Len(asked), answers[i].reader.size # NoSize
    PROVE  \A j \in i..Len(asked) : answers[j].reader.size = answers[i].reader.size
  <1>1. PICK n, A, size : n = Len(asked) /\ A = Answers(url, E) /\ size = answers[i].reader.size
    OBVIOUS
  <1>2. /\ n \in Nat /\ i \in 1..n /\ answers \in Seq(A) /\ Len(answers) = n
        /\ \A j \in 1..n : asked[j] \in Requests(U, E) /\ answers[j] \in A
        /\ InTurn(reader, asked, answers, n)
    BY <1>1, ReadInTurn, LenProperties, ElementOfSeq
  <1>3. ASSUME NEW j \in 1..n, j # 1
        PROVE  answers[j - 1].reader.size # NoSize => answers[j].reader.size = answers[j - 1].reader.size
    <2>1. PICK r, q, a : r = answers[j - 1].reader /\ q = asked[j] /\ a = answers[j]
      OBVIOUS
    <2>2. j - 1 \in 1..n
      BY <1>2, <1>3
    <2>3. r \in Readers(url) /\ q \in Requests(U, E)
      BY <1>1, <1>2, <2>1, <2>2 DEF Answers
    <2>4. a = ReadRange(r, q.off, q.length, q.resp)
      BY <1>2, <1>3, <2>1 DEF InTurn, ReaderAt
    <2>5. SizeAgrees(r, q, a)
      BY <2>3, <2>4, OneRead
    <2> QED
      BY <2>1, <2>5 DEF SizeAgrees
  <1> DEFINE Same(j) == answers[j].reader.size = size
             T == {j \in Nat : j \in i..n /\ ~Same(j)}
  <1>4. T = {}
    <2>1. SUFFICES ASSUME T # {} PROVE FALSE
      OBVIOUS
    <2>2. PICK m \in T : \A j \in T : m <= j
      BY <2>1, LeastNatural
    <2>3. m \in i..n /\ m # i
      BY <1>1, <2>2
    <2>4. m - 1 \in Nat /\ m - 1 < m /\ m - 1 \in i..n /\ m \in 1..n /\ m # 1
      BY <1>2, <2>3
    <2>5. Same(m - 1)
      BY <2>2, <2>4
    <2> QED
      BY <1>1, <1>3, <2>2, <2>4, <2>5
  <1> QED
    BY <1>1, <1>2, <1>4

\* The two halves of HostIsRead.
Right(url, asked, answers, i) ==
    /\ answers[i].n = asked[i].length \/ answers[i].error = "EOF"
    /\ \A k \in 1..answers[i].n : answers[i].bytes[k][2] = asked[i].off + k - 1
    /\ \A h \in DOMAIN asked[i].resp.hops :
          /\ asked[i].resp.hops[h].host = url.host
          /\ url.scheme = "https" => asked[i].resp.hops[h].scheme = "https"

Alike(asked, answers, sizes, i, j) ==
    \A e \in {answers[i].bytes[k][1] : k \in 1..answers[i].n}, f \in {answers[j].bytes[k][1] : k \in 1..answers[j].n} :
        sizes[e] = sizes[f]

\* Of any host, asked for any stretches, that answers each request from some
\* edition of the archive, with what redirects, status and bytes it likes: what
\* a RangeReader takes is the bytes that were asked for, all of them or up to
\* the end, from where the redirects may lead, and from editions of one length
\* where the host says the length.
THEOREM HostsAreRead ==
    ASSUME NEW Urls, NEW url \in Urls, NEW sizes, NEW asked \in Seq(Requests(Urls, DOMAIN sizes)),
           \A i \in 1..Len(asked) : OfEdition(asked[i].resp, sizes)
    PROVE  HostIsRead(url, asked, sizes)
  <1>1. PICK n, E, reader, answers :
           /\ n = Len(asked) /\ E = DOMAIN sizes
           /\ reader = NewRangeReader(url) /\ answers = ReadAll(reader, asked)
    OBVIOUS
  <1>2. SUFFICES ASSUME reader.ok
                 PROVE  /\ \A i \in DOMAIN asked : Took(answers[i]) => Right(url, asked, answers, i)
                        /\ \A i, j \in DOMAIN asked :
                              Took(answers[i]) /\ Took(answers[j])
                              /\ NoSize \notin {asked[i].resp.range.total, asked[j].resp.range.total}
                                 => Alike(asked, answers, sizes, i, j)
    BY <1>1 DEF HostIsRead, Took, Right, Alike
  <1>3. reader \in Readers(url) /\ reader.url = url
    <2>1. reader # NoReader
      BY <1>2 DEF NoReader
    <2>2. reader = [ok |-> TRUE, url |-> url, size |-> NoSize, requests |-> 0, read |-> 0]
      BY <1>1, <2>1 DEF NewRangeReader
    <2>3. NoSize \in Int
      BY DEF NoSize
    <2> QED
      BY <2>2, <2>3 DEF Readers
  <1>4. /\ n \in Nat /\ DOMAIN asked = 1..n /\ asked \in Seq(Requests(Urls, E))
        /\ \A i \in 1..n : asked[i] \in Requests(Urls, E)
    BY <1>1, LenProperties, ElementOfSeq
  <1>5. /\ answers \in Seq(Answers(url, E)) /\ Len(answers) = n
        /\ InTurn(reader, asked, answers, n)
    BY <1>1, <1>3, <1>4, ReadInTurn
  <1>6. \A i \in 1..n : answers[i] \in Answers(url, E)
    BY <1>4, <1>5, ElementOfSeq
  <1>7. ASSUME NEW i \in 1..n, Took(answers[i])
        PROVE  \E r \in Readers(url) : r.url = url /\ Gives(r, asked[i], answers[i])
    <2>1. PICK r : r = ReaderAt(reader, answers, i)
      OBVIOUS
    <2>2. r \in Readers(url)
      <3>1. i # 1 => i - 1 \in 1..n
        BY <1>4
      <3> QED
        BY <1>3, <1>6, <2>1, <3>1 DEF ReaderAt, Answers
    <2>3. answers[i] = ReadRange(r, asked[i].off, asked[i].length, asked[i].resp)
      BY <1>5, <2>1 DEF InTurn
    <2>4. Gives(r, asked[i], answers[i])
      BY <1>4, <1>7, <2>2, <2>3, OneRead
    <2> QED
      BY <2>2, <2>4 DEF Readers
  <1>8. ASSUME NEW i \in 1..n, Took(answers[i])
        PROVE  \E e \in E : /\ asked[i].resp.range.total \in {NoSize, sizes[e]}
                            /\ \A k \in 1..answers[i].n : answers[i].bytes[k] = <<e, asked[i].off + k - 1>>
    <2>1. PICK r \in Readers(url) : Gives(r, asked[i], answers[i])
      BY <1>7, <1>8
    <2>2. OfEdition(asked[i].resp, sizes) /\ IsContentRange(asked[i].resp.range)
      BY <1>1, <2>1 DEF Gives
    <2>3. PICK e \in E : /\ asked[i].resp.range.total \in {NoSize, sizes[e]}
                         /\ \A k \in 1..Len(asked[i].resp.body) :
                               asked[i].resp.body[k] = <<e, asked[i].resp.range.first + k - 1>>
      BY <1>1, <2>2 DEF OfEdition
    <2>4. PICK l, m : l = Len(asked[i].resp.body) /\ m = answers[i].n
      OBVIOUS
    <2>5. l \in Nat /\ m \in Nat
      <3>1. asked[i].resp.body \in Seq(E \X Int)
        BY <1>4 DEF Requests, Responses
      <3> QED
        BY <1>6, <2>4, <3>1, LenProperties DEF Answers
    <2>6. m <= l /\ asked[i].resp.range.first = asked[i].off
          /\ \A k \in 1..m : answers[i].bytes[k] = asked[i].resp.body[k]
      BY <2>1, <2>4 DEF Gives
    <2>7. \A k \in 1..m : k \in 1..l
      BY <2>5, <2>6
    <2> QED
      BY <2>3, <2>4, <2>6, <2>7
  <1>9. ASSUME NEW i \in DOMAIN asked, Took(answers[i])
        PROVE  Right(url, asked, answers, i)
    <2>1. i \in 1..n
      BY <1>4
    <2>2. PICK r \in Readers(url) : r.url = url /\ Gives(r, asked[i], answers[i])
      BY <1>7, <1>9, <2>1
    <2>3. PICK e \in E : \A k \in 1..answers[i].n : answers[i].bytes[k] = <<e, asked[i].off + k - 1>>
      BY <1>8, <1>9, <2>1
    <2>4. PICK hops : hops = asked[i].resp.hops
      OBVIOUS
    <2>5. hops \in Seq(Urls) /\ Followed(r, hops)
      BY <1>4, <2>1, <2>2, <2>4 DEF Gives, Requests, Responses
    <2>6. \A h \in DOMAIN hops :
             hops[h].host = url.host /\ (url.scheme = "https" => hops[h].scheme = "https")
      BY <2>2, <2>5, HopsStay, LenProperties
    <2>7. answers[i].n = asked[i].length \/ answers[i].error = "EOF"
      BY <2>2 DEF Gives
    <2> QED
      BY <2>3, <2>4, <2>6, <2>7 DEF Right
  <1>10. ASSUME NEW i \in 1..n, NEW j \in 1..n, i <= j, Took(answers[i]), Took(answers[j]),
                asked[i].resp.range.total # NoSize, asked[j].resp.range.total # NoSize
         PROVE  asked[i].resp.range.total = asked[j].resp.range.total
    <2>1. answers[i].reader.size = asked[i].resp.range.total
      BY <1>7, <1>10 DEF Gives
    <2>2. answers[j].reader.size = asked[j].resp.range.total
      BY <1>7, <1>10 DEF Gives
    <2>3. j \in i..Len(asked) /\ i \in 1..Len(asked)
      BY <1>1, <1>10
    <2>4. answers[j].reader.size = answers[i].reader.size
      BY <1>1, <1>3, <1>4, <1>10, <2>1, <2>3, SizeStays
    <2> QED
      BY <2>1, <2>2, <2>4
  <1>11. ASSUME NEW i \in DOMAIN asked, NEW j \in DOMAIN asked, Took(answers[i]), Took(answers[j]),
                NoSize \notin {asked[i].resp.range.total, asked[j].resp.range.total}
         PROVE  Alike(asked, answers, sizes, i, j)
    <2>1. i \in 1..n /\ j \in 1..n /\ (i <= j \/ j <= i)
      BY <1>4
    <2>2. asked[i].resp.range.total = asked[j].resp.range.total
      BY <1>10, <1>11, <2>1
    <2>3. PICK d \in E : /\ asked[i].resp.range.total \in {NoSize, sizes[d]}
                         /\ \A k \in 1..answers[i].n : answers[i].bytes[k] = <<d, asked[i].off + k - 1>>
      BY <1>8, <1>11, <2>1
    <2>4. PICK f \in E : /\ asked[j].resp.range.total \in {NoSize, sizes[f]}
                         /\ \A k \in 1..answers[j].n : answers[j].bytes[k] = <<f, asked[j].off + k - 1>>
      BY <1>8, <1>11, <2>1
    <2>5. sizes[d] = sizes[f]
      BY <1>11, <2>2, <2>3, <2>4
    <2>6. \A k \in 1..answers[i].n : answers[i].bytes[k][1] = d
      BY <2>3
    <2>7. \A k \in 1..answers[j].n : answers[j].bytes[k][1] = f
      BY <2>4
    <2> QED
      BY <2>5, <2>6, <2>7 DEF Alike
  <1> QED
    BY <1>9, <1>11

-----------------------------------------------------------------------------
(***************************************************************************)
(* Whole plans: every level, cell and area of what was asked for.          *)
(***************************************************************************)
\* Any set that some relation orders can be listed by how many come before.
Orders(R, S) ==
    \A e, f, g \in S : /\ <<e, e>> \notin R
                       /\ <<e, f>> \in R /\ <<f, g>> \in R => <<e, g>> \in R
                       /\ e # f => <<e, f>> \in R \/ <<f, e>> \in R

RankIn(R, S, e) == Cardinality({f \in S : <<f, e>> \in R})

LEMMA RanksAreTaken ==
    ASSUME NEW S, IsFiniteSet(S), NEW R, Orders(R, S)
    PROVE  /\ \A e, f \in S : RankIn(R, S, e) = RankIn(R, S, f) => e = f
           /\ \A e, f \in S : RankIn(R, S, e) < RankIn(R, S, f) => <<e, f>> \in R
           /\ {RankIn(R, S, e) : e \in S} = 0..(Cardinality(S) - 1)
  <1>1. PICK n : n = Cardinality(S)
    OBVIOUS
  <1> DEFINE Before(e) == {f \in S : <<f, e>> \in R}
             rank == [e \in S |-> Cardinality(Before(e))]
  <1>2. n \in Nat
    BY <1>1, FS_CardinalityType
  <1>3. \A e, f, g \in S : /\ <<e, e>> \notin R
                           /\ <<e, f>> \in R /\ <<f, g>> \in R => <<e, g>> \in R
                           /\ e # f => <<e, f>> \in R \/ <<f, e>> \in R
    BY DEF Orders
  <1>4. \A e \in S : IsFiniteSet(Before(e)) /\ rank[e] \in Nat
    BY FS_Subset, FS_CardinalityType
  <1>5. ASSUME NEW T \in SUBSET S, NEW U \in SUBSET T, T # U
        PROVE  Cardinality(U) < Cardinality(T)
    <2>1. IsFiniteSet(T) /\ IsFiniteSet(U) /\ Cardinality(U) <= Cardinality(T)
      BY FS_Subset
    <2>2. Cardinality(U) # Cardinality(T)
      BY <1>5, <2>1, FS_Subset
    <2>3. Cardinality(U) \in Nat /\ Cardinality(T) \in Nat
      BY <2>1, FS_CardinalityType
    <2> QED
      BY <2>1, <2>2, <2>3
  <1>6. ASSUME NEW e \in S, NEW f \in S, <<e, f>> \in R PROVE rank[e] < rank[f]
    <2>1. Before(e) \in SUBSET Before(f) /\ e \in Before(f) /\ e \notin Before(e)
      BY <1>3, <1>6
    <2>2. Before(e) # Before(f)
      BY <2>1
    <2>3. Cardinality(Before(e)) < Cardinality(Before(f))
      BY <1>5, <2>1, <2>2
    <2> QED
      BY <2>3
  <1>7. ASSUME NEW e \in S PROVE rank[e] \in 0..(n - 1)
    <2>1. Before(e) \in SUBSET S /\ Before(e) # S
      BY <1>3
    <2>2. Cardinality(Before(e)) < n
      BY <1>1, <1>5, <2>1
    <2>3. rank[e] = Cardinality(Before(e))
      OBVIOUS
    <2> HIDE DEF rank, Before
    <2> QED
      BY <1>2, <1>4, <2>2, <2>3
  <1>0. \A e \in S : rank[e] = RankIn(R, S, e)
    BY DEF RankIn
  <1> HIDE DEF rank, Before
  <1>12. ASSUME NEW e \in S, NEW f \in S
         PROVE  (rank[e] = rank[f] => e = f) /\ (rank[e] < rank[f] => <<e, f>> \in R)
    <2>1. CASE e = f
      BY <1>4, <2>1
    <2>2. CASE <<e, f>> \in R
      BY <1>4, <1>6, <2>2
    <2>3. CASE <<f, e>> \in R
      <3>1. rank[f] < rank[e] /\ rank[e] \in Nat /\ rank[f] \in Nat
        BY <1>4, <1>6, <2>3
      <3> QED
        BY <3>1
    <2> QED
      BY <1>3, <2>1, <2>2, <2>3
  <1>8. \A e, f \in S : rank[e] = rank[f] => e = f
    BY <1>12
  <1>9. {rank[e] : e \in S} = 0..(n - 1)
    <2>1. PICK Q, I : Q = {rank[e] : e \in S} /\ I = 0..(n - 1)
      OBVIOUS
    <2>2. rank \in [S -> Q] /\ Q \subseteq I /\ IsFiniteSet(I) /\ Cardinality(I) = n
      <3>1. rank = [e \in S |-> rank[e]]
        BY DEF rank
      <3>2. Q \subseteq I /\ IsFiniteSet(I) /\ Cardinality(I) = n
        BY <1>2, <1>7, <2>1, FS_Interval
      <3>3. rank \in [S -> Q]
        BY <2>1, <3>1
      <3> QED
        BY <3>2, <3>3
    <2>3. Cardinality(Q) = n /\ IsFiniteSet(Q)
      <3>1. rank \in Bijection(S, Q)
        BY <1>8, <2>1, <2>2 DEF Bijection, Injection, Surjection, IsInjective
      <3>2. ExistsBijection(S, Q)
        BY <3>1 DEF ExistsBijection
      <3> QED
        BY <1>1, <3>2, FS_Bijection
    <2>4. Q = I
      BY <2>2, <2>3, FS_Subset
    <2> QED
      BY <2>1, <2>4
  <1>10. \A e, f \in S : rank[e] < rank[f] => <<e, f>> \in R
    BY <1>12
  <1>11. {rank[e] : e \in S} = {RankIn(R, S, e) : e \in S}
    BY <1>0
  <1> QED
    BY <1>0, <1>1, <1>8, <1>9, <1>10, <1>11

IsListOf(s, S, R, n) ==
    /\ s \in Seq(S) /\ Len(s) = n /\ n \in Nat
    /\ \A i, j \in 1..n : i < j => <<s[i], s[j]>> \in R
    /\ S = {s[i] : i \in 1..n}

LEMMA RankedIsList ==
    ASSUME NEW S, IsFiniteSet(S), NEW R, Orders(R, S), NEW n, n = Cardinality(S),
           NEW s, s = [i \in 1..n |-> s[i]],
           \A i \in 1..n : (\E e \in S : RankIn(R, S, e) = i - 1) => s[i] \in S /\ RankIn(R, S, s[i]) = i - 1
    PROVE  IsListOf(s, S, R, n)
  <1>1. n \in Nat
    BY FS_CardinalityType
  <1>2. {RankIn(R, S, e) : e \in S} = 0..(n - 1)
    BY RanksAreTaken
  <1>3. \A i \in 1..n : s[i] \in S /\ RankIn(R, S, s[i]) = i - 1
    <2> SUFFICES ASSUME NEW i \in 1..n PROVE \E e \in S : RankIn(R, S, e) = i - 1
      OBVIOUS
    <2>1. i - 1 \in 0..(n - 1)
      BY <1>1
    <2> QED
      BY <1>2, <2>1
  <1>4. s \in Seq(S) /\ Len(s) = n
    <2>1. s \in [1..n -> S]
      BY <1>3
    <2> QED
      BY <1>1, <2>1
  <1>5. ASSUME NEW i \in 1..n, NEW j \in 1..n, i < j PROVE <<s[i], s[j]>> \in R
    <2>1. RankIn(R, S, s[i]) < RankIn(R, S, s[j])
      BY <1>1, <1>3, <1>5
    <2> QED
      BY <1>3, <2>1, RanksAreTaken
  <1>6. ASSUME NEW e \in S PROVE \E i \in 1..n : e = s[i]
    <2>1. RankIn(R, S, e) \in 0..(n - 1)
      BY <1>2
    <2>2. PICK i \in 1..n : i = RankIn(R, S, e) + 1
      BY <1>1, <2>1
    <2>3. RankIn(R, S, s[i]) = RankIn(R, S, e)
      BY <1>1, <1>3, <2>1, <2>2
    <2> QED
      BY <1>3, <2>3, RanksAreTaken
  <1> QED
    BY <1>1, <1>3, <1>4, <1>5, <1>6 DEF IsListOf

-----------------------------------------------------------------------------
(* Cells row by row. *)
RowBefore(c, d) == c.y < d.y \/ (c.y = d.y /\ c.x < d.x)

InRows(S) == InOrder(S, LAMBDA c, d : c.y < d.y \/ (c.y = d.y /\ c.x < d.x))

LEMMA RowsByRank ==
    ASSUME NEW S
    PROVE  InRows(S) = [i \in 1..Cardinality(S) |->
                          CHOOSE e \in S : Cardinality({f \in S : RowBefore(f, e)}) = i - 1]
  BY DEF InRows, InOrder, RowBefore

ListsAll(s, S, n) ==
    /\ s \in Seq(S) /\ Len(s) = n /\ n \in Nat
    /\ \A i, j \in 1..n : i # j => s[i] # s[j]
    /\ S = {s[i] : i \in 1..n}

LEMMA RowsAreList ==
    ASSUME NEW S, IsFiniteSet(S), S \subseteq [x: Nat, y: Nat], NEW s, s = InRows(S), NEW n, n = Cardinality(S)
    PROVE  ListsAll(s, S, n)
  <1>1. PICK R : R = {p \in S \X S : RowBefore(p[1], p[2])}
    OBVIOUS
  <1>2. \A e, f \in S : <<e, f>> \in R <=> RowBefore(e, f)
    BY <1>1
  <1>3. Orders(R, S)
    <2>1. \A e, f, g \in S : /\ ~RowBefore(e, e)
                             /\ RowBefore(e, f) /\ RowBefore(f, g) => RowBefore(e, g)
      BY DEF RowBefore
    <2>2. ASSUME NEW e \in S, NEW f \in S, e # f PROVE RowBefore(e, f) \/ RowBefore(f, e)
      <3>1. e = [x |-> e.x, y |-> e.y] /\ f = [x |-> f.x, y |-> f.y]
        OBVIOUS
      <3>2. e.x # f.x \/ e.y # f.y
        BY <2>2, <3>1
      <3>3. e.x \in Nat /\ e.y \in Nat /\ f.x \in Nat /\ f.y \in Nat
        OBVIOUS
      <3> QED
        BY <3>2, <3>3 DEF RowBefore
    <2> QED
      BY <1>2, <2>1, <2>2 DEF Orders
  <1>4. \A e \in S : RankIn(R, S, e) = Cardinality({f \in S : RowBefore(f, e)})
    <2> SUFFICES ASSUME NEW e \in S PROVE RankIn(R, S, e) = Cardinality({f \in S : RowBefore(f, e)})
      OBVIOUS
    <2>1. {f \in S : <<f, e>> \in R} = {f \in S : RowBefore(f, e)}
      BY <1>2
    <2> QED
      BY <2>1 DEF RankIn
  <1>5. s = [i \in 1..n |-> CHOOSE e \in S : Cardinality({f \in S : RowBefore(f, e)}) = i - 1]
    BY RowsByRank
  <1>6. s = [i \in 1..n |-> s[i]]
    BY <1>5
  <1>7. ASSUME NEW i \in 1..n, \E e \in S : RankIn(R, S, e) = i - 1
        PROVE  s[i] \in S /\ RankIn(R, S, s[i]) = i - 1
    <2>1. \E e \in S : Cardinality({f \in S : RowBefore(f, e)}) = i - 1
      BY <1>4, <1>7
    <2>2. s[i] \in S /\ Cardinality({f \in S : RowBefore(f, s[i])}) = i - 1
      BY <1>5, <2>1
    <2> QED
      BY <1>4, <2>2
  <1>8. /\ s \in Seq(S) /\ Len(s) = n /\ n \in Nat
        /\ \A i, j \in 1..n : i < j => <<s[i], s[j]>> \in R
        /\ S = {s[i] : i \in 1..n}
    <2>1. \A i \in 1..n : (\E e \in S : RankIn(R, S, e) = i - 1) => s[i] \in S /\ RankIn(R, S, s[i]) = i - 1
      BY <1>7
    <2>2. IsListOf(s, S, R, n)
      BY <1>3, <1>6, <2>1, RankedIsList
    <2> QED
      BY <2>2 DEF IsListOf
  <1>9. ASSUME NEW i \in 1..n, NEW j \in 1..n, i # j PROVE s[i] # s[j]
    <2>1. i < j \/ j < i
      BY <1>8, <1>9
    <2>2. s[i] \in S /\ s[j] \in S
      BY <1>8
    <2>3. \A e \in S : <<e, e>> \notin R
      BY <1>3 DEF Orders
    <2> QED
      BY <1>8, <2>1, <2>2, <2>3
  <1> QED
    BY <1>8, <1>9, Zenon DEF ListsAll

-----------------------------------------------------------------------------
(* Sums of figures. *)
IsSumFold(f, figures) ==
    f = [s \in SUBSET DOMAIN figures |->
           IF s = {} THEN 0 ELSE figures[Pick(s)] + f[s \ {Pick(s)}]]

LEMMA SumIsFold ==
    ASSUME NEW figures
    PROVE  SumOver(figures) = (CHOOSE f : IsSumFold(f, figures))[DOMAIN figures]
  BY DEF SumOver, MapThenSumSet, MapThenFoldSet, IsSumFold, Pick

\* The sum of how large some sets that are apart are is how large they are
\* together.
AllOf(B, X) == UNION {B[x] : x \in X}
Counts(figures, S) == IsFiniteSet(S) /\ SumOver(figures) = Cardinality(S)

LEMMA SumIsCount ==
    ASSUME NEW X, IsFiniteSet(X), NEW B, NEW figures \in [X -> Nat], Measured(B, X, figures)
    PROVE  Counts(figures, AllOf(B, X))
  <1>0. PICK all : all = AllOf(B, X) /\ all = UNION {B[x] : x \in X}
    BY DEF AllOf
  <1>1. PICK f : IsSummed(f, X, figures)
    <2>1. figures \in [X -> Int]
      OBVIOUS
    <2> QED
      BY <2>1, SumExists
  <1>2. DOMAIN figures = X
    OBVIOUS
  <1>3. IsSumFold(f, figures)
    BY <1>1, <1>2 DEF IsSumFold, IsSummed
  <1>4. PICK g : g = CHOOSE h : IsSumFold(h, figures)
    OBVIOUS
  <1>5. IsSumFold(g, figures) /\ SumOver(figures) = g[X]
    BY <1>2, <1>3, <1>4, SumIsFold
  <1>6. \A s \in SUBSET X : s # {} => Pick(s) \in s
    BY DEF Pick
  <1>7. IsSumOf(g, X, figures)
    BY <1>2, <1>5, <1>6 DEF IsSumFold, IsSumOf
  <1>8. IsFiniteSet(all) /\ g[X] = Cardinality(all)
    BY <1>0, <1>7, UnionIsSum
  <1> QED
    BY <1>0, <1>5, <1>8 DEF Counts

-----------------------------------------------------------------------------
(* The levels above the cells. *)
LevelTiles(b, z) == {[z |-> z, x |-> c.x, y |-> c.y] : c \in CellsForZoom(b, z).cells}
SomeLevels == {NoTiles} \cup [ok: {TRUE}, tiles: SUBSET [z: Nat, x: Nat, y: Nat]]
FirstLevels == [ok |-> TRUE, tiles |-> {}]

IsLevels(f, b, zs) ==
    f = [s \in SUBSET DOMAIN zs |->
            IF s = {} THEN FirstLevels ELSE WithLevel(b, f[s \ {Max(s)}], zs[Max(s)])]

LEMMA LevelsAreFold ==
    ASSUME NEW b, NEW top
    PROVE  LevelsOf(b, top) = (CHOOSE f : IsLevels(f, b, [i \in 1..(top + 1) |-> i - 1]))[DOMAIN [i \in 1..(top + 1) |-> i - 1]]
  BY DEF LevelsOf, FoldLeft, MapThenFoldSet, IsLevels, FirstLevels

\* One more level, if there are not too many.
LEMMA LevelShape ==
    ASSUME NEW b, NEW levels \in SomeLevels, NEW z \in Nat
    PROVE  /\ WithLevel(b, levels, z) \in SomeLevels
           /\ WithLevel(b, levels, z).ok =>
                 /\ levels.ok /\ CellsForZoom(b, z).ok
                 /\ WithLevel(b, levels, z).tiles = levels.tiles \cup LevelTiles(b, z)
  <1>1. PICK w, cells : w = WithLevel(b, levels, z) /\ cells = CellsForZoom(b, z)
    OBVIOUS
  <1>2. w = IF \/ ~levels.ok \/ ~CellCount(b, z).ok
               \/ Cardinality(levels.tiles) + CellCount(b, z).count > MaxOverviewTiles
              THEN NoTiles
              ELSE [ok |-> TRUE, tiles |-> levels.tiles \cup LevelTiles(b, z)]
    BY <1>1 DEF WithLevel, LevelTiles
  <1>3. ~NoTiles.ok
    BY DEF NoTiles
  <1>4. CASE ~(\/ ~levels.ok \/ ~CellCount(b, z).ok
               \/ Cardinality(levels.tiles) + CellCount(b, z).count > MaxOverviewTiles)
    <2>1. w = [ok |-> TRUE, tiles |-> levels.tiles \cup LevelTiles(b, z)] /\ levels.ok /\ CellCount(b, z).ok
      BY <1>2, <1>4
    <2>2. cells.ok
      <3>1. PICK r : r = CellRange(b, z)
        OBVIOUS
      <3>2. r.ok
        BY <2>1, <3>1 DEF CellCount
      <3> QED
        BY <1>1, <3>1, <3>2 DEF CellsForZoom
    <2>3. levels \in [ok: {TRUE}, tiles: SUBSET [z: Nat, x: Nat, y: Nat]]
      BY <1>3, <2>1 DEF SomeLevels
    <2>4. LevelTiles(b, z) \in SUBSET [z: Nat, x: Nat, y: Nat]
      <3>1. cells.cells \subseteq [x: 0..(2^z - 1), y: 0..(2^z - 1)]
        BY <1>1, <2>2, CellsAreTiles
      <3>2. \A c \in cells.cells : c.x \in Nat /\ c.y \in Nat
        BY <3>1
      <3> QED
        BY <1>1, <3>2 DEF LevelTiles
    <2> QED
      BY <1>1, <2>1, <2>2, <2>3, <2>4 DEF SomeLevels
  <1>5. CASE \/ ~levels.ok \/ ~CellCount(b, z).ok
             \/ Cardinality(levels.tiles) + CellCount(b, z).count > MaxOverviewTiles
    <2>1. w = NoTiles
      BY <1>2, <1>5
    <2> QED
      BY <1>1, <1>3, <2>1 DEF SomeLevels
  <1> QED
    BY <1>4, <1>5

LEMMA LevelStep ==
    ASSUME NEW b, NEW top \in Nat
    PROVE  \E f : /\ f[0] = FirstLevels
                  /\ \A k \in 1..(top + 1) : f[k] = WithLevel(b, f[k - 1], k - 1)
                  /\ LevelsOf(b, top) = f[top + 1]
  <1>1. PICK n, zs : n = top + 1 /\ zs = [i \in 1..n |-> i - 1]
    OBVIOUS
  <1>2. n \in Nat /\ DOMAIN zs = 1..n /\ \A i \in 1..n : zs[i] \in Nat /\ zs[i] = i - 1
    BY <1>1
  <1>3. PICK step : step = [p \in (1..n) \X SomeLevels |-> WithLevel(b, p[2], zs[p[1]])]
    OBVIOUS
  <1>4. step \in [(1..n) \X SomeLevels -> SomeLevels]
    BY <1>2, <1>3, LevelShape
  <1>5. FirstLevels \in SomeLevels
    BY DEF FirstLevels, SomeLevels
  <1>6. PICK f \in [SUBSET (1..n) -> SomeLevels] : Steps(f, 1..n, FirstLevels, step)
    BY <1>2, <1>4, <1>5, StepsExist
  <1>7. ASSUME NEW s \in SUBSET (1..n)
        PROVE  f[s] = IF s = {} THEN FirstLevels ELSE WithLevel(b, f[s \ {Max(s)}], zs[Max(s)])
    <2>1. CASE s = {}
      BY <1>6, <2>1 DEF Steps
    <2>2. CASE s # {}
      <3>1. PICK m, t : m = Max(s) /\ t = s \ {m}
        OBVIOUS
      <3>2. m \in 1..n /\ t \in SUBSET (1..n)
        BY <1>2, <2>2, <3>1, LargestIsIn
      <3>3. f[t] \in SomeLevels
        BY <1>6, <3>2
      <3>4. step[<<m, f[t]>>] = WithLevel(b, f[t], zs[m])
        BY <1>3, <3>2, <3>3
      <3> QED
        BY <1>6, <2>2, <3>1, <3>4 DEF Steps
    <2> QED
      BY <2>1, <2>2
  <1>8. IsLevels(f, b, zs)
    <2>1. f = [s \in SUBSET (1..n) |-> f[s]]
      BY <1>6
    <2>2. [s \in SUBSET (1..n) |-> f[s]]
             = [s \in SUBSET (1..n) |->
                  IF s = {} THEN FirstLevels ELSE WithLevel(b, f[s \ {Max(s)}], zs[Max(s)])]
      BY <1>7
    <2> QED
      BY <1>2, <2>1, <2>2 DEF IsLevels
  <1>9. PICK g : g = CHOOSE h : IsLevels(h, b, zs)
    OBVIOUS
  <1>10. IsLevels(g, b, zs)
    BY <1>8, <1>9
  <1>11. PICK G : G = [k \in 0..n |-> g[1..k]]
    OBVIOUS
  <1>12. G[0] = FirstLevels
    <2>1. 1..0 = {} /\ 0 \in 0..n /\ {} \in SUBSET (1..n)
      BY <1>2
    <2> QED
      BY <1>2, <1>10, <1>11, <2>1 DEF IsLevels
  <1>13. ASSUME NEW k \in 1..n PROVE G[k] = WithLevel(b, G[k - 1], k - 1)
    <2>1. PICK s, t : s = 1..k /\ t = 1..(k - 1)
      OBVIOUS
    <2>2. k \in Nat /\ 1 <= k /\ k <= n /\ k \in 0..n /\ k - 1 \in 0..n
      BY <1>2
    <2>3. s \in SUBSET (1..n) /\ s # {} /\ Max(s) = k /\ s \ {k} = t
      BY <1>2, <2>1, <2>2, FirstOnes
    <2>4. g[s] = WithLevel(b, g[t], zs[k])
      BY <1>2, <1>10, <2>3 DEF IsLevels
    <2>5. zs[k] = k - 1
      BY <1>2
    <2> QED
      BY <1>11, <2>1, <2>2, <2>4, <2>5
  <1>14. LevelsOf(b, top) = G[n]
    <2>1. LevelsOf(b, top) = g[1..n]
      BY <1>1, <1>2, <1>9, LevelsAreFold
    <2> QED
      BY <1>2, <1>11, <2>1
  <1> QED
    BY <1>1, <1>12, <1>13, <1>14

LEMMA LevelsAreAll ==
    ASSUME NEW b, NEW top \in Nat, LevelsOf(b, top).ok
    PROVE  /\ LevelsOf(b, top).tiles = UNION {LevelTiles(b, z) : z \in 0..top}
           /\ \A z \in 0..top : CellsForZoom(b, z).ok
  <1>1. PICK f : /\ f[0] = FirstLevels
                 /\ \A k \in 1..(top + 1) : f[k] = WithLevel(b, f[k - 1], k - 1)
                 /\ LevelsOf(b, top) = f[top + 1]
    BY LevelStep
  <1> DEFINE Good(k) == /\ f[k] \in SomeLevels
                        /\ f[k].ok => /\ f[k].tiles = UNION {LevelTiles(b, z) : z \in 0..(k - 1)}
                                      /\ \A z \in 0..(k - 1) : CellsForZoom(b, z).ok
             T == {k \in Nat : k <= top + 1 /\ ~Good(k)}
  <1>2. Good(0)
    <2>1. 0..(0 - 1) = {}
      OBVIOUS
    <2>2. UNION {LevelTiles(b, z) : z \in 0..(0 - 1)} = {}
      BY <2>1
    <2>3. f[0].tiles = {} /\ f[0] \in SomeLevels
      BY <1>1 DEF FirstLevels, SomeLevels
    <2> QED
      BY <2>1, <2>2, <2>3
  <1>3. ASSUME NEW k \in Nat, k + 1 <= top + 1, Good(k) PROVE Good(k + 1)
    <2>1. PICK l, w : l = f[k] /\ w = f[k + 1]
      OBVIOUS
    <2>2. k + 1 \in 1..(top + 1) /\ (k + 1) - 1 = k
      BY <1>3
    <2>3. w = WithLevel(b, l, k) /\ l \in SomeLevels
      BY <1>1, <1>3, <2>1, <2>2
    <2>4. w \in SomeLevels
      BY <2>3, LevelShape
    <2>5. ASSUME w.ok
          PROVE  /\ w.tiles = UNION {LevelTiles(b, z) : z \in 0..k}
                 /\ \A z \in 0..k : CellsForZoom(b, z).ok
      <3>1. l.ok /\ CellsForZoom(b, k).ok /\ w.tiles = l.tiles \cup LevelTiles(b, k)
        BY <2>3, <2>5, LevelShape
      <3>2. l.tiles = UNION {LevelTiles(b, z) : z \in 0..(k - 1)} /\ \A z \in 0..(k - 1) : CellsForZoom(b, z).ok
        BY <1>3, <2>1, <3>1
      <3>3. \A z : z \in 0..k <=> z \in 0..(k - 1) \/ z = k
        BY <1>3
      <3>4. UNION {LevelTiles(b, z) : z \in 0..k} = (UNION {LevelTiles(b, z) : z \in 0..(k - 1)}) \cup LevelTiles(b, k)
        BY <3>3
      <3> QED
        BY <3>1, <3>2, <3>3, <3>4
    <2> QED
      BY <2>1, <2>2, <2>4, <2>5
  <1> HIDE DEF Good
  <1>4. T = {}
    <2>1. SUFFICES ASSUME T # {} PROVE FALSE
      OBVIOUS
    <2>2. PICK m \in T : \A i \in T : m <= i
      BY <2>1, LeastNatural
    <2>3. m # 0
      BY <1>2, <2>2
    <2>4. m - 1 \in Nat /\ m - 1 < m /\ m - 1 <= top + 1 /\ (m - 1) + 1 = m /\ m <= top + 1
      BY <2>2, <2>3
    <2>5. Good(m - 1)
      BY <2>2, <2>4
    <2>6. Good(m)
      BY <1>3, <2>4, <2>5
    <2> QED
      BY <2>2, <2>6
  <1>5. Good(top + 1)
    BY <1>4
  <1>6. (top + 1) - 1 = top
    OBVIOUS
  <1> QED
    BY <1>1, <1>5, <1>6 DEF Good

-----------------------------------------------------------------------------
(* What there is of an area on each level. *)
Shown(b, z) == {t \in AllTiles(z) : t.z = z /\ Meets(b, t)}

LEMMA ImageIsFinite ==
    ASSUME NEW S, IsFiniteSet(S), NEW f, NEW T, T = {f[x] : x \in S}
    PROVE  IsFiniteSet(T)
  <1>1. PICK g : g = [x \in S |-> f[x]]
    OBVIOUS
  <1>2. g \in Surjection(S, T)
    BY <1>1 DEF Surjection
  <1> QED
    BY <1>2, FS_Surjection

LEMMA TilesAreFinite ==
    ASSUME NEW z \in Nat
    PROVE  /\ IsFiniteSet([z: {z}, x: 0..(2^z - 1), y: 0..(2^z - 1)])
           /\ IsFiniteSet(AllTiles(z))
  <1> DEFINE Level(d) == [z: {d}, x: 0..(2^d - 1), y: 0..(2^d - 1)]
  <1>1. ASSUME NEW d \in Nat PROVE IsFiniteSet(Level(d))
    <2>1. PICK X, L : X = 0..(2^d - 1) /\ L = Level(d)
      OBVIOUS
    <2>2. IsFiniteSet(X)
      BY <2>1, Powers, FS_Interval
    <2>3. IsFiniteSet(X \X X)
      BY <2>2, FS_Product
    <2>4. PICK f : f = [p \in X \X X |-> [z |-> d, x |-> p[1], y |-> p[2]]]
      OBVIOUS
    <2>5. IsFiniteSet({f[p] : p \in X \X X})
      BY <2>3, ImageIsFinite
    <2>6. L \subseteq {f[p] : p \in X \X X}
      <3> SUFFICES ASSUME NEW t \in L PROVE \E p \in X \X X : t = f[p]
        OBVIOUS
      <3>1. t = [z |-> d, x |-> t.x, y |-> t.y] /\ t.x \in X /\ t.y \in X
        BY <2>1
      <3>2. PICK p \in X \X X : p = <<t.x, t.y>>
        BY <3>1
      <3> QED
        BY <2>4, <3>1, <3>2
    <2> QED
      BY <2>1, <2>5, <2>6, FS_Subset
  <1> HIDE DEF Level
  <1>2. \A d \in 0..z : IsFiniteSet(Level(d))
    BY <1>1
  <1>3. IsFiniteSet(0..z)
    BY FS_Interval
  <1>4. IsFiniteSet({Level(d) : d \in 0..z})
    <2>1. PICK D, f, T : D = 0..z /\ f = [d \in D |-> Level(d)] /\ T = {Level(d) : d \in D}
      OBVIOUS
    <2>2. T = {f[d] : d \in D}
      BY <2>1
    <2>3. IsFiniteSet(T)
      BY <1>3, <2>1, <2>2, ImageIsFinite
    <2> QED
      BY <2>1, <2>3
  <1>5. IsFiniteSet(UNION {Level(d) : d \in 0..z})
    BY <1>2, <1>4, FS_UNION
  <1>6. AllTiles(z) = UNION {Level(d) : d \in 0..z}
    BY DEF AllTiles, Level
  <1> QED
    BY <1>1, <1>5, <1>6 DEF Level

\* An area some of which is on the map: that is not all past where it ends.
OnMap(b) == b.south < MaxLatitude /\ -MaxLatitude < b.north

LEMMA OnMapIsWide ==
    ASSUME NEW b, ValidBounds(b), OnMap(b)
    PROVE  West(b) < East(b) /\ North(b) < South(b)
  <1>1. /\ b.south \in Int /\ b.north \in Int /\ b.south < b.north
        /\ b.west < b.east /\ IsArea(b)
    BY TilingAssumption DEF ValidBounds, IsArea
  <1>2. West(b) < East(b)
    BY <1>1, AreaProjects
  <1>3. PICK s, n : s = Between(b.south, -MaxLatitude, MaxLatitude) /\ n = Between(b.north, -MaxLatitude, MaxLatitude)
    OBVIOUS
  <1>4. s \in -MaxLatitude..MaxLatitude /\ n \in -MaxLatitude..MaxLatitude /\ s < n
    <2>1. MaxLatitude \in Nat /\ MaxLatitude > 0 /\ b.south < MaxLatitude /\ -MaxLatitude < b.north
      BY TilingAssumption DEF OnMap
    <2>2. PICK lo, hi : lo = -MaxLatitude /\ hi = MaxLatitude
      OBVIOUS
    <2>3. /\ s = IF b.south < lo THEN lo ELSE IF b.south > hi THEN hi ELSE b.south
          /\ n = IF b.north < lo THEN lo ELSE IF b.north > hi THEN hi ELSE b.north
      BY <1>3, <2>2 DEF Between
    <2>4. s \in lo..hi /\ n \in lo..hi
      BY <1>1, <2>1, <2>2, <2>3
    <2>5. s < n
      BY <1>1, <2>1, <2>2, <2>3
    <2> QED
      BY <2>2, <2>4, <2>5
  <1>5. Northing[s] > Northing[n]
    BY <1>4, TilingAssumption
  <1>6. North(b) = Northing[n] /\ South(b) = Northing[s]
    BY <1>3 DEF North, South, Project
  <1>7. Northing[s] \in Int /\ Northing[n] \in Int
    BY <1>4, TilingAssumption
  <1> QED
    BY <1>2, <1>5, <1>6, <1>7

LEMMA LevelIsShown ==
    ASSUME NEW b, NEW z \in Nat, CellsForZoom(b, z).ok, ValidBounds(b), OnMap(b)
    PROVE  LevelTiles(b, z) = Shown(b, z)
  <1>1. PICK S, cells : S = Shown(b, z) /\ cells = CellsForZoom(b, z).cells
    OBVIOUS
  <1>2. cells = {[x |-> t.x, y |-> t.y] : t \in S}
    BY <1>1, OnMapIsWide, CellsAreMet DEF Shown
  <1>3. \A t \in S : t = [z |-> z, x |-> t.x, y |-> t.y]
    <2> SUFFICES ASSUME NEW t \in S PROVE t = [z |-> z, x |-> t.x, y |-> t.y]
      OBVIOUS
    <2>1. t \in {u \in AllTiles(z) : u.z = z}
      BY <1>1 DEF Shown
    <2>2. PICK row : row = 0..(2^z - 1)
      OBVIOUS
    <2>3. t \in [z: {z}, x: row, y: row]
      BY <2>1, <2>2, TilesOfZoom
    <2> QED
      BY <2>3
  <1>4. LevelTiles(b, z) = {[z |-> z, x |-> c.x, y |-> c.y] : c \in cells}
    BY <1>1 DEF LevelTiles
  <1>5. ASSUME NEW t \in S PROVE t \in LevelTiles(b, z)
    <2>1. PICK c : c = [x |-> t.x, y |-> t.y]
      OBVIOUS
    <2>2. c \in cells /\ t = [z |-> z, x |-> c.x, y |-> c.y]
      BY <1>2, <1>3, <2>1
    <2> QED
      BY <1>4, <2>2
  <1>6. ASSUME NEW u \in LevelTiles(b, z) PROVE u \in S
    <2>1. PICK c \in cells : u = [z |-> z, x |-> c.x, y |-> c.y]
      BY <1>4
    <2>2. PICK t \in S : c = [x |-> t.x, y |-> t.y]
      BY <1>2
    <2>3. u = t
      BY <1>3, <2>1, <2>2
    <2> QED
      BY <2>3
  <1> QED
    BY <1>1, <1>5, <1>6

\* A cell is shown where it is in the area's cells.
LEMMA CellIsShown ==
    ASSUME NEW b, NEW z \in Nat, CellsForZoom(b, z).ok, ValidBounds(b), OnMap(b), NEW x, NEW y
    PROVE  [x |-> x, y |-> y] \in CellsForZoom(b, z).cells <=> [z |-> z, x |-> x, y |-> y] \in Shown(b, z)
  <1>1. PICK cells : cells = CellsForZoom(b, z).cells
    OBVIOUS
  <1>2. Shown(b, z) = {[z |-> z, x |-> c.x, y |-> c.y] : c \in cells}
    BY <1>1, LevelIsShown DEF LevelTiles
  <1>3. PICK row : cells \subseteq [x: row, y: row]
    BY <1>1, CellsAreTiles
  <1>4. ASSUME [x |-> x, y |-> y] \in cells PROVE [z |-> z, x |-> x, y |-> y] \in Shown(b, z)
    <2>1. PICK c \in cells : c = [x |-> x, y |-> y]
      BY <1>4
    <2>2. c.x = x /\ c.y = y
      BY <2>1
    <2> QED
      BY <1>2, <2>2
  <1>5. ASSUME [z |-> z, x |-> x, y |-> y] \in Shown(b, z) PROVE [x |-> x, y |-> y] \in cells
    <2>1. PICK c \in cells : [z |-> z, x |-> x, y |-> y] = [z |-> z, x |-> c.x, y |-> c.y]
      BY <1>2, <1>5
    <2>2. c.x = x /\ c.y = y
      BY <2>1
    <2>3. c = [x |-> c.x, y |-> c.y]
      BY <1>3
    <2> QED
      BY <2>2, <2>3
  <1> QED
    BY <1>1, <1>4, <1>5

-----------------------------------------------------------------------------
(* What each group takes, and what the plan counts. *)
IsPlanned(g, a, refs) ==
    /\ g.tiles = (refs \ a.held) \cap DOMAIN a.index
    /\ g.held = Cardinality(refs \cap a.held)
    /\ g.absent = Cardinality((refs \ a.held) \ DOMAIN a.index)

LEMMA GroupIsPlanned ==
    ASSUME NEW a, NEW refs, NEW limits, NEW g, g = PlanGroup(a, refs, limits), g.ok
    PROVE  IsPlanned(g, a, refs)
  <1>1. PICK missing, located, r : /\ missing = refs \ a.held /\ located = missing \cap DOMAIN a.index
                                   /\ r = Coalesce({a.index[t] : t \in located}, limits)
    OBVIOUS
  <1>2. PICK locations : locations = {a.index[t] : t \in located}
    OBVIOUS
  <1>3. g = IF missing \cap a.failing # {} \/ ~r.ok THEN Unplanned
            ELSE [ok |-> TRUE, tiles |-> located, ranges |-> r.ranges,
                  held |-> Cardinality(refs \cap a.held), absent |-> Cardinality(missing \ located),
                  transfer |-> TotalBytes(r.ranges), useful |-> UsefulBytes(locations)]
    BY <1>1, <1>2, Zenon DEF PlanGroup
  <1>4. g # Unplanned
    BY DEF Unplanned
  <1>5. g = [ok |-> TRUE, tiles |-> located, ranges |-> r.ranges,
             held |-> Cardinality(refs \cap a.held), absent |-> Cardinality(missing \ located),
             transfer |-> TotalBytes(r.ranges), useful |-> UsefulBytes(locations)]
    BY <1>3, <1>4
  <1>6. missing \ located = (refs \ a.held) \ DOMAIN a.index
    BY <1>1
  <1>7. g.tiles = located /\ g.held = Cardinality(refs \cap a.held) /\ g.absent = Cardinality(missing \ located)
    BY <1>5
  <1> QED
    BY <1>1, <1>6, <1>7 DEF IsPlanned

\* Things that are apart: counting the part of each that is in P counts all.
ApartIn(refs, X) ==
    /\ \A x \in X : IsFiniteSet(refs[x])
    /\ \A x, y \in X : x # y => refs[x] \cap refs[y] = {}

LEMMA PartsAreCounted ==
    ASSUME NEW X, IsFiniteSet(X), NEW refs, ApartIn(refs, X), NEW P,
           NEW figures, figures = [x \in X |-> Cardinality(refs[x] \cap P)]
    PROVE  Counts(figures, AllOf(refs, X) \cap P)
  <1>1. PICK B : B = [x \in X |-> refs[x] \cap P]
    OBVIOUS
  <1>2. \A x \in X : IsFiniteSet(B[x]) /\ Cardinality(B[x]) = figures[x]
    BY <1>1, FS_Subset DEF ApartIn
  <1>3. Measured(B, X, figures)
    BY <1>1, <1>2 DEF Measured, ApartIn
  <1>4. figures \in [X -> Nat]
    <2>1. \A x \in X : Cardinality(refs[x] \cap P) \in Nat
      BY <1>1, <1>2, FS_CardinalityType
    <2> QED
      BY <2>1
  <1>5. Counts(figures, AllOf(B, X))
    BY <1>3, <1>4, SumIsCount
  <1>6. AllOf(B, X) = AllOf(refs, X) \cap P
    BY <1>1 DEF AllOf
  <1> QED
    BY <1>5, <1>6

\* Groups that are planned of refs each.
LEMMA GroupsAreCounted ==
    ASSUME NEW a, NEW m \in Nat, NEW refs, ApartIn(refs, 1..m),
           NEW groups, DOMAIN groups = 1..m,
           \A i \in 1..m : IsPlanned(groups[i], a, refs[i]),
           NEW p, p.groups = groups, p.total = Total(groups)
    PROVE  PlanTakes(a, p, AllOf(refs, 1..m))
  <1>0. PICK wanted : wanted = AllOf(refs, 1..m) /\ wanted = UNION {refs[i] : i \in 1..m}
    BY DEF AllOf
  <1>1. PICK X : X = 1..m
    OBVIOUS
  <1>2. IsFiniteSet(X) /\ DOMAIN groups = X
    <2>1. IsFiniteSet(1..m)
      BY FS_Interval
    <2> QED
      BY <1>1, <2>1
  <1>3. PICK taken, held, absent : /\ taken = DOMAIN a.index \ a.held
                                   /\ held = a.held
                                   /\ absent = (wanted \ a.held) \ DOMAIN a.index
    OBVIOUS
  <1>4. ASSUME NEW i \in X
        PROVE  /\ groups[i].tiles = refs[i] \cap taken
               /\ groups[i].held = Cardinality(refs[i] \cap held)
               /\ groups[i].absent = Cardinality(refs[i] \cap absent)
    <2>1. PICK g, r : g = groups[i] /\ r = refs[i]
      OBVIOUS
    <2>2. IsPlanned(g, a, r) /\ r \subseteq wanted
      BY <1>0, <1>1, <2>1
    <2>3. /\ (r \ a.held) \cap DOMAIN a.index = r \cap taken
          /\ (r \ a.held) \ DOMAIN a.index = r \cap absent
      BY <1>3, <2>2
    <2> QED
      BY <1>3, <2>1, <2>2, <2>3 DEF IsPlanned
  <1>5. PICK t, h, b : /\ t = [i \in X |-> Cardinality(groups[i].tiles)]
                       /\ h = [i \in X |-> groups[i].held]
                       /\ b = [i \in X |-> groups[i].absent]
    OBVIOUS
  <1>6. /\ t = [i \in X |-> Cardinality(refs[i] \cap taken)]
        /\ h = [i \in X |-> Cardinality(refs[i] \cap held)]
        /\ b = [i \in X |-> Cardinality(refs[i] \cap absent)]
    BY <1>4, <1>5
  <1>7. /\ IsFiniteSet(wanted \cap taken) /\ SumOver(t) = Cardinality(wanted \cap taken)
        /\ IsFiniteSet(wanted \cap held) /\ SumOver(h) = Cardinality(wanted \cap held)
        /\ IsFiniteSet(wanted \cap absent) /\ SumOver(b) = Cardinality(wanted \cap absent)
    <2>1. ApartIn(refs, X) /\ wanted = AllOf(refs, X)
      BY <1>0, <1>1
    <2>2. Counts(t, wanted \cap taken)
      BY <1>2, <1>6, <2>1, PartsAreCounted
    <2>3. Counts(h, wanted \cap held)
      BY <1>2, <1>6, <2>1, PartsAreCounted
    <2>4. Counts(b, wanted \cap absent)
      BY <1>2, <1>6, <2>1, PartsAreCounted
    <2> QED
      BY <2>2, <2>3, <2>4 DEF Counts
  <1>8. p.total.tiles = SumOver(t) /\ p.total.held = SumOver(h) /\ p.total.absent = SumOver(b)
    <2>1. PICK total : total = Total(groups)
      OBVIOUS
    <2>2. /\ total.tiles = SumOver([i \in DOMAIN groups |-> Cardinality(groups[i].tiles)])
          /\ total.held = SumOver([i \in DOMAIN groups |-> groups[i].held])
          /\ total.absent = SumOver([i \in DOMAIN groups |-> groups[i].absent])
      BY <2>1 DEF Total
    <2> QED
      BY <1>2, <1>5, <2>1, <2>2
  <1>9. Takes(p) = wanted \cap taken
    <2>1. Takes(p) = UNION {groups[i].tiles : i \in X}
      BY <1>2 DEF Takes
    <2>2. UNION {groups[i].tiles : i \in X} = UNION {refs[i] \cap taken : i \in X}
      BY <1>4
    <2>3. UNION {refs[i] \cap taken : i \in X} = wanted \cap taken
      BY <1>0, <1>1
    <2> QED
      BY <2>1, <2>2, <2>3
  <1>10. wanted \cap taken = (wanted \ a.held) \cap DOMAIN a.index
    BY <1>3
  <1>11. Cardinality(wanted \cap taken) + Cardinality(wanted \cap held) + Cardinality(wanted \cap absent)
            = Cardinality(wanted)
    <2>1. PICK T, H, B : T = wanted \cap taken /\ H = wanted \cap held /\ B = wanted \cap absent
      OBVIOUS
    <2>2. /\ wanted = (T \cup H) \cup B /\ T \cap H = {} /\ (T \cup H) \cap B = {}
          /\ IsFiniteSet(T) /\ IsFiniteSet(H) /\ IsFiniteSet(B)
      BY <1>3, <1>7, <2>1
    <2>3. /\ IsFiniteSet(T \cup H)
          /\ Cardinality(T \cup H) = Cardinality(T) + Cardinality(H) - Cardinality(T \cap H)
      BY <2>2, FS_Union
    <2>4. Cardinality((T \cup H) \cup B) = Cardinality(T \cup H) + Cardinality(B) - Cardinality((T \cup H) \cap B)
      BY <2>2, <2>3, FS_Union
    <2>5. Cardinality({}) = 0
      BY FS_EmptySet
    <2>6. /\ Cardinality(T \cap H) = 0 /\ Cardinality((T \cup H) \cap B) = 0
          /\ Cardinality(T) \in Nat /\ Cardinality(H) \in Nat /\ Cardinality(B) \in Nat
      BY <2>2, <2>5, FS_CardinalityType
    <2>7. Cardinality(wanted) = Cardinality(T) + Cardinality(H) + Cardinality(B)
      <3>1. PICK x, y, u, v : /\ x = Cardinality(T) /\ y = Cardinality(H) /\ u = Cardinality(B)
                              /\ v = Cardinality(T \cup H)
        OBVIOUS
      <3>2. v = x + y - 0
        BY <2>3, <2>6, <3>1
      <3>3. Cardinality(wanted) = v + u - 0
        BY <2>2, <2>4, <2>6, <3>1
      <3>4. x \in Nat /\ y \in Nat /\ u \in Nat
        BY <2>6, <3>1
      <3>5. PICK w : w = Cardinality(wanted)
        OBVIOUS
      <3>6. w = v + u - 0
        BY <3>3, <3>5
      <3>7. w = x + y + u
        BY <3>2, <3>4, <3>6
      <3>8. Cardinality(wanted) = x + y + u
        BY <3>5, <3>7
      <3> QED
        BY <3>1, <3>8
    <2> QED
      BY <2>1, <2>7
  <1> QED
    BY <1>0, <1>7, <1>8, <1>9, <1>10, <1>11 DEF PlanTakes

\* One group for what is above the cells, if there is anything, and one for
\* each cell.
CellTiles(c, cz, depth) == PyramidTiles(c, cz, [min |-> cz, max |-> depth])

GroupsOf(p, a, overview, cz, depths, s, n, k, groups) ==
    /\ k \in {0, 1} /\ (k = 0 <=> overview = {}) /\ DOMAIN groups = 1..(k + n)
    /\ k = 1 => IsPlanned(groups[1], a, overview)
    /\ \A i \in 1..n : IsPlanned(groups[k + i], a, CellTiles(s[i], cz, depths[s[i]]).tiles)
    /\ \A c \in DOMAIN depths : CellTiles(c, cz, depths[c]).ok
    /\ p.groups = groups /\ p.total = Total(groups)

LEMMA PlanHasGroups ==
    ASSUME NEW a, NEW req, NEW overview, NEW depths, NEW p, p = PlanGroups(a, req, overview, depths), p.ok,
           NEW s, s = InRows(DOMAIN depths), NEW n \in Nat, DOMAIN s = 1..n
    PROVE  \E k, groups : GroupsOf(p, a, overview, req.cellZoom, depths, s, n, k, groups)
  <1>1. PICK cz : cz = req.cellZoom
    OBVIOUS
  <1>2. PICK above, below, groups :
           /\ above = IF overview = {} THEN <<>> ELSE <<PlanGroup(a, overview, req.limits)>>
           /\ below = [i \in DOMAIN s |-> PlanGroup(a, CellTiles(s[i], cz, depths[s[i]]).tiles, req.limits)]
           /\ groups = above \o below
    OBVIOUS
  <1>3. PICK zoom, total, shallow, toFetch :
           /\ shallow = RangeOf(overview) /\ total = Total(groups)
           /\ zoom = IF s = <<>> THEN EmptyZoom
                     ELSE [min |-> cz, max |-> Max({depths[c] : c \in DOMAIN depths})]
           /\ toFetch = Cardinality({i \in DOMAIN below : below[i].tiles # {}})
    OBVIOUS
  <1>4. p = IF \/ \E c \in DOMAIN depths : ~CellTiles(c, cz, depths[c]).ok
               \/ \E i \in DOMAIN groups : ~groups[i].ok
              THEN Unplanned
              ELSE [ok |-> TRUE, groups |-> groups, overview |-> shallow, total |-> total,
                    zoom |-> zoom, cellsToFetch |-> toFetch]
    BY <1>1, <1>2, <1>3, Zenon DEF PlanGroups, InRows, CellTiles
  <1>5. p # Unplanned
    BY DEF Unplanned
  <1>6. /\ \A c \in DOMAIN depths : CellTiles(c, cz, depths[c]).ok
        /\ \A i \in DOMAIN groups : groups[i].ok
        /\ p.groups = groups /\ p.total = Total(groups)
    BY <1>3, <1>4, <1>5
  <1>7. PICK X : X = {above[i] : i \in DOMAIN above} \cup {below[i] : i \in DOMAIN below}
    OBVIOUS
  <1>8. above \in Seq(X) /\ Len(above) = (IF overview = {} THEN 0 ELSE 1)
    <2>1. CASE overview = {}
      BY <1>2, <2>1
    <2>2. CASE overview # {}
      <3>1. PICK g : g = PlanGroup(a, overview, req.limits)
        OBVIOUS
      <3>2. above = <<g>> /\ above[1] = g /\ DOMAIN above = 1..1
        BY <1>2, <2>2, <3>1
      <3>3. g \in X
        BY <1>7, <3>2
      <3> QED
        BY <2>2, <3>2, <3>3
    <2> QED
      BY <2>1, <2>2
  <1>9. below \in Seq(X) /\ Len(below) = n
    <2>1. DOMAIN below = 1..n
      BY <1>2
    <2>2. below = [i \in 1..n |-> below[i]]
      BY <1>2, <2>1
    <2>3. \A i \in 1..n : below[i] \in X
      BY <1>7, <2>1
    <2>4. below \in [1..n -> X]
      BY <2>2, <2>3
    <2> QED
      BY <2>1, <2>4
  <1>10. PICK k : k = Len(above)
    OBVIOUS
  <1>11. k \in {0, 1} /\ (k = 0 <=> overview = {})
    BY <1>8, <1>10
  <1>12. /\ groups \in Seq(X) /\ Len(groups) = k + n
         /\ \A i \in 1..(k + n) : groups[i] = IF i <= k THEN above[i] ELSE below[i - k]
    <2>1. /\ above \o below \in Seq(X)
          /\ Len(above \o below) = Len(above) + Len(below)
          /\ \A i \in 1..(Len(above) + Len(below)) :
                (above \o below)[i] = IF i <= Len(above) THEN above[i] ELSE below[i - Len(above)]
      BY <1>8, <1>9, ConcatProperties, Zenon
    <2>2. groups = above \o below
      BY <1>2
    <2>3. /\ groups \in Seq(X) /\ Len(groups) = Len(above) + Len(below)
          /\ \A i \in 1..(Len(above) + Len(below)) :
                groups[i] = IF i <= Len(above) THEN above[i] ELSE below[i - Len(above)]
      BY <2>1, <2>2, Zenon
    <2>4. Len(above) = k /\ Len(below) = n
      BY <1>9, <1>10
    <2> QED
      BY <2>3, <2>4, Zenon
  <1>13. DOMAIN groups = 1..(k + n)
    BY <1>12
  <1>14. ASSUME k = 1 PROVE IsPlanned(groups[1], a, overview)
    <2>1. PICK g : g = PlanGroup(a, overview, req.limits)
      OBVIOUS
    <2>2. 1 \in 1..(k + n) /\ groups[1] = above[1]
      BY <1>12, <1>14
    <2>3. groups[1] = g
      BY <1>2, <1>11, <1>14, <2>1, <2>2
    <2>4. g.ok
      BY <1>6, <1>13, <2>2, <2>3
    <2> QED
      BY <2>1, <2>3, <2>4, GroupIsPlanned
  <1>15. ASSUME NEW i \in 1..n PROVE IsPlanned(groups[k + i], a, CellTiles(s[i], cz, depths[s[i]]).tiles)
    <2>1. PICK refs, limits : refs = CellTiles(s[i], cz, depths[s[i]]).tiles /\ limits = req.limits
      OBVIOUS
    <2>2. PICK g : g = PlanGroup(a, refs, limits)
      OBVIOUS
    <2>3. k + i \in 1..(k + n) /\ ~(k + i <= k) /\ (k + i) - k = i
      BY <1>11
    <2>4. groups[k + i] = below[i]
      BY <1>12, <2>3
    <2>5. below[i] = g
      BY <1>2, <2>1, <2>2
    <2>6. g.ok
      BY <1>6, <1>13, <2>3, <2>4, <2>5
    <2>7. IsPlanned(g, a, refs)
      BY <2>2, <2>6, GroupIsPlanned
    <2> QED
      BY <2>1, <2>4, <2>5, <2>7
  <1>16. GroupsOf(p, a, overview, cz, depths, s, n, k, groups)
    BY <1>6, <1>11, <1>13, <1>14, <1>15 DEF GroupsOf
  <1> QED
    BY <1>1, <1>16

\* What is under a cell, down to some zoom.
UnderCell(c, z, depth) == {t \in AllTiles(depth) : t.z >= z /\ Above(t, z) = [z |-> z, x |-> c.x, y |-> c.y]}

Grid(z) == [x: 0..(2^z - 1), y: 0..(2^z - 1)]

LEMMA CellTilesAreUnder ==
    ASSUME NEW z \in Nat, z <= MaxCellZoom, NEW depth \in z..MaxZoom, NEW c \in Grid(z), CellTiles(c, z, depth).ok
    PROVE  CellTiles(c, z, depth).tiles = UnderCell(c, z, depth)
  <1>1. MaxZoom \in Nat /\ DepthLimit \in Nat
    BY TilingAssumption
  <1>2. depth <= z + DepthLimit
    <2>1. ~NoTiles.ok
      BY DEF NoTiles
    <2> QED
      BY <1>1, <2>1 DEF CellTiles, PyramidTiles
  <1>3. z \in 0..z /\ depth \in 0..MaxZoom /\ z <= depth
    BY <1>1
  <1> QED
    BY <1>2, <1>3, PyramidIsUnder DEF CellTiles, UnderCell, Grid

LEMMA UnderIsApart ==
    ASSUME NEW z \in Nat, NEW depth \in Nat, NEW depth2 \in Nat, NEW c, NEW d, NEW row, c \in [x: row, y: row],
           d \in [x: row, y: row], c # d
    PROVE  UnderCell(c, z, depth) \cap UnderCell(d, z, depth2) = {}
  <1>1. c = [x |-> c.x, y |-> c.y] /\ d = [x |-> d.x, y |-> d.y]
    OBVIOUS
  <1>2. PICK e, f : e = [z |-> z, x |-> c.x, y |-> c.y] /\ f = [z |-> z, x |-> d.x, y |-> d.y]
    OBVIOUS
  <1>3. e # f
    BY <1>1, <1>2
  <1> QED
    BY <1>2, <1>3, Zenon DEF UnderCell

LEMMA GridIsNatural ==
    ASSUME NEW z \in Nat
    PROVE  Grid(z) \subseteq [x: Nat, y: Nat]
  <1>1. PICK row : row = 0..(2^z - 1)
    OBVIOUS
  <1>2. row \subseteq Nat
    BY <1>1
  <1> QED
    BY <1>1, <1>2 DEF Grid

UnderCells(D, z, depths) == UNION {UnderCell(c, z, depths[c]) : c \in D}

\* A plan of an overview and of cells takes the tiles of both.
LEMMA PlanIsCounted ==
    ASSUME NEW a, NEW req, NEW cz \in Nat, cz = req.cellZoom, cz <= MaxCellZoom,
           NEW overview, IsFiniteSet(overview), \A t \in overview : t.z < cz,
           NEW D, IsFiniteSet(D), D \subseteq Grid(cz), NEW depths \in [D -> cz..MaxZoom],
           NEW p, p = PlanGroups(a, req, overview, depths), p.ok
    PROVE  PlanTakes(a, p, overview \cup UnderCells(D, cz, depths))
  <1>0. PICK under : under = [c \in D |-> UnderCell(c, cz, depths[c])]
    OBVIOUS
  <1>1. DOMAIN depths = D /\ MaxZoom \in Nat
    BY TilingAssumption
  <1>2. PICK s, n : s = InRows(D) /\ n = Cardinality(D)
    OBVIOUS
  <1>3. D \subseteq [x: Nat, y: Nat]
    BY GridIsNatural
  <1>4. /\ s \in Seq(D) /\ Len(s) = n /\ n \in Nat
        /\ \A i, j \in 1..n : i # j => s[i] # s[j]
        /\ D = {s[i] : i \in 1..n}
    <2>1. ListsAll(s, D, n)
      BY <1>2, <1>3, RowsAreList
    <2> QED
      BY <2>1 DEF ListsAll
  <1>5. DOMAIN s = 1..n /\ \A i \in 1..n : s[i] \in D
    BY <1>4
  <1>6. PICK k, groups : GroupsOf(p, a, overview, cz, depths, s, n, k, groups)
    <2>1. s = InRows(DOMAIN depths)
      BY <1>1, <1>2
    <2> QED
      BY <1>4, <1>5, <2>1, PlanHasGroups
  <1>7. PICK m : m = k + n
    OBVIOUS
  <1>8. /\ k \in {0, 1} /\ (k = 0 <=> overview = {}) /\ DOMAIN groups = 1..m /\ m \in Nat
        /\ p.groups = groups /\ p.total = Total(groups)
    BY <1>4, <1>6, <1>7 DEF GroupsOf
  <1>9. PICK refs : refs = [i \in 1..m |-> IF i <= k THEN overview ELSE under[s[i - k]]]
    OBVIOUS
  <1>10. \A i \in 1..m : ~(i <= k) => i - k \in 1..n /\ s[i - k] \in D /\ refs[i] = under[s[i - k]]
    <2>1. \A i \in 1..m : ~(i <= k) => i - k \in 1..n
      BY <1>4, <1>7, <1>8
    <2> QED
      BY <1>5, <1>9, <2>1
  <1>11. \A c \in D : CellTiles(c, cz, depths[c]).tiles = under[c]
    <2> SUFFICES ASSUME NEW c \in D PROVE CellTiles(c, cz, depths[c]).tiles = UnderCell(c, cz, depths[c])
      BY <1>0
    <2>1. CellTiles(c, cz, depths[c]).ok
      BY <1>1, <1>6 DEF GroupsOf
    <2>2. c \in Grid(cz) /\ depths[c] \in cz..MaxZoom
      OBVIOUS
    <2> QED
      BY <2>1, <2>2, CellTilesAreUnder
  <1>12. \A i \in 1..m : IsPlanned(groups[i], a, refs[i])
    <2> SUFFICES ASSUME NEW i \in 1..m PROVE IsPlanned(groups[i], a, refs[i])
      OBVIOUS
    <2>1. CASE i <= k
      <3>1. i = 1 /\ k = 1 /\ refs[i] = overview
        BY <1>8, <1>9, <2>1
      <3> QED
        BY <1>6, <3>1 DEF GroupsOf
    <2>2. CASE ~(i <= k)
      <3>0. PICK j : j = i - k
        OBVIOUS
      <3>1. j \in 1..n /\ i = k + j
        <4>1. j \in 1..n
          BY <1>10, <2>2, <3>0
        <4>2. i \in Int /\ k \in Int
          BY <1>8
        <4> QED
          BY <3>0, <4>1, <4>2
      <3>2. refs[i] = under[s[j]]
        BY <1>10, <2>2, <3>0
      <3>3. IsPlanned(groups[k + j], a, CellTiles(s[j], cz, depths[s[j]]).tiles)
        BY <1>6, <3>1 DEF GroupsOf
      <3>4. CellTiles(s[j], cz, depths[s[j]]).tiles = under[s[j]]
        BY <1>5, <1>11, <3>1
      <3> QED
        BY <3>1, <3>2, <3>3, <3>4
    <2> QED
      BY <2>1, <2>2
  <1>13. \A c \in D : IsFiniteSet(under[c]) /\ \A t \in under[c] : t.z >= cz
    <2> SUFFICES ASSUME NEW c \in D PROVE IsFiniteSet(under[c]) /\ \A t \in under[c] : t.z >= cz
      OBVIOUS
    <2>1. PICK d : d = depths[c]
      OBVIOUS
    <2>2. d \in Nat
      BY <1>1, <2>1
    <2>3. IsFiniteSet(AllTiles(d))
      BY <2>2, TilesAreFinite
    <2>4. UnderCell(c, cz, d) \subseteq AllTiles(d) /\ \A t \in UnderCell(c, cz, d) : t.z >= cz
      BY DEF UnderCell
    <2> QED
      BY <1>0, <2>1, <2>3, <2>4, FS_Subset
  <1>14. ASSUME NEW c \in D, NEW d \in D, c # d PROVE under[c] \cap under[d] = {}
    <2>1. PICK row : Grid(cz) = [x: row, y: row]
      BY DEF Grid
    <2>2. depths[c] \in Nat /\ depths[d] \in Nat
      BY <1>1
    <2>3. c \in [x: row, y: row] /\ d \in [x: row, y: row]
      BY <2>1
    <2>4. UnderCell(c, cz, depths[c]) \cap UnderCell(d, cz, depths[d]) = {}
      BY <1>14, <2>2, <2>3, UnderIsApart
    <2> QED
      BY <1>0, <2>4
  <1>15. \A c \in D : overview \cap under[c] = {}
    <2> SUFFICES ASSUME NEW c \in D, NEW t \in overview, t \in under[c] PROVE FALSE
      OBVIOUS
    <2>1. t.z < cz /\ t.z >= cz
      BY <1>13
    <2>2. \E d \in Nat : t \in AllTiles(d)
      BY <1>0, <1>1 DEF UnderCell
    <2>3. t.z \in Int
      BY <2>2 DEF AllTiles
    <2> QED
      BY <2>1, <2>3
  <1>16. ApartIn(refs, 1..m)
    <2>0. \A i \in 1..m : i <= k => i = 1 /\ refs[i] = overview
      BY <1>8, <1>9
    <2>1. \A i \in 1..m : \/ i <= k /\ i = 1 /\ refs[i] = overview
                          \/ ~(i <= k) /\ i - k \in 1..n /\ s[i - k] \in D /\ refs[i] = under[s[i - k]]
      BY <1>10, <2>0
    <2>2. \A i \in 1..m : IsFiniteSet(refs[i])
      BY <1>13, <2>1
    <2>3. ASSUME NEW i \in 1..m, NEW j \in 1..m, i # j PROVE refs[i] \cap refs[j] = {}
      <3>1. CASE i <= k \/ j <= k
        BY <1>15, <2>1, <2>3, <3>1
      <3>2. CASE ~(i <= k) /\ ~(j <= k)
        <4>1. PICK u, v : u = i - k /\ v = j - k
          OBVIOUS
        <4>2. u \in 1..n /\ v \in 1..n
          BY <1>10, <3>2, <4>1
        <4>5. u # v
          BY <1>8, <2>3, <4>1
        <4>3. s[u] # s[v] /\ s[u] \in D /\ s[v] \in D
          BY <1>4, <1>5, <4>2, <4>5
        <4>4. refs[i] = under[s[u]] /\ refs[j] = under[s[v]]
          BY <2>1, <3>2, <4>1
        <4> QED
          BY <1>14, <4>3, <4>4
      <3> QED
        BY <3>1, <3>2
    <2> QED
      BY <2>2, <2>3 DEF ApartIn
  <1>17. overview \cup AllOf(under, D) = UNION {refs[i] : i \in 1..m}
    <2>1. ASSUME NEW t \in overview PROVE \E i \in 1..m : t \in refs[i]
      <3>1. k = 1
        BY <1>8, <2>1
      <3>2. 1 \in 1..m /\ refs[1] = overview
        BY <1>4, <1>7, <1>9, <3>1
      <3> QED
        BY <3>2
    <2>2. ASSUME NEW c \in D, NEW t \in under[c] PROVE \E i \in 1..m : t \in refs[i]
      <3>1. PICK j \in 1..n : c = s[j]
        BY <1>4
      <3>2. PICK i : i = k + j
        OBVIOUS
      <3>3. i \in 1..m /\ ~(i <= k) /\ i - k = j
        BY <1>4, <1>7, <1>8, <3>2
      <3>4. refs[i] = under[c]
        BY <1>9, <3>1, <3>3
      <3> QED
        BY <3>3, <3>4
    <2>3. ASSUME NEW i \in 1..m, NEW t \in refs[i] PROVE t \in overview \/ \E c \in D : t \in under[c]
      <3>1. i <= k => refs[i] = overview
        BY <1>9
      <3> QED
        BY <1>10, <2>3, <3>1
    <2>4. AllOf(under, D) = UNION {under[c] : c \in D}
      BY DEF AllOf
    <2> QED
      BY <2>1, <2>2, <2>3, <2>4
  <1>18. PICK wanted : wanted = overview \cup AllOf(under, D)
    OBVIOUS
  <1>19. wanted = UNION {refs[i] : i \in 1..m}
    BY <1>17, <1>18
  <1>20. PlanTakes(a, p, wanted)
    <2>1. wanted = AllOf(refs, 1..m)
      BY <1>19 DEF AllOf
    <2> QED
      BY <1>8, <1>12, <1>16, <2>1, GroupsAreCounted
  <1>21. AllOf(under, D) = UnderCells(D, cz, depths)
    BY <1>0 DEF AllOf, UnderCells
  <1> QED
    BY <1>18, <1>20, <1>21

-----------------------------------------------------------------------------
(* What an area asks for. *)
LevelsShown(b, top) == UNION {Shown(b, z) : z \in 0..top}

LEMMA OverviewIsShown ==
    ASSUME NEW b, NEW top \in Nat, LevelsOf(b, top).ok, ValidBounds(b), OnMap(b)
    PROVE  LevelsOf(b, top).tiles = LevelsShown(b, top)
  <1>1. /\ LevelsOf(b, top).tiles = UNION {LevelTiles(b, z) : z \in 0..top}
        /\ \A z \in 0..top : CellsForZoom(b, z).ok
    BY LevelsAreAll
  <1>2. \A z \in 0..top : LevelTiles(b, z) = Shown(b, z)
    BY <1>1, LevelIsShown
  <1> QED
    BY <1>1, <1>2 DEF LevelsShown

LEMMA LevelsAreShallow ==
    ASSUME NEW b, NEW top \in Nat
    PROVE  IsFiniteSet(LevelsShown(b, top)) /\ \A t \in LevelsShown(b, top) : t.z \in 0..top
  <1>1. PICK L, f, T : L = 0..top /\ f = [z \in L |-> Shown(b, z)] /\ T = {Shown(b, z) : z \in L}
    OBVIOUS
  <1>2. T = {f[z] : z \in L}
    BY <1>1
  <1>3. IsFiniteSet(L)
    BY <1>1, FS_Interval
  <1>4. IsFiniteSet(T)
    BY <1>2, <1>3, ImageIsFinite
  <1>5. \A z \in L : IsFiniteSet(Shown(b, z)) /\ \A t \in Shown(b, z) : t.z = z
    <2> SUFFICES ASSUME NEW z \in L PROVE IsFiniteSet(Shown(b, z)) /\ \A t \in Shown(b, z) : t.z = z
      OBVIOUS
    <2>0. z \in Nat
      BY <1>1
    <2>1. IsFiniteSet(AllTiles(z))
      BY <2>0, TilesAreFinite
    <2>2. Shown(b, z) \subseteq AllTiles(z) /\ \A t \in Shown(b, z) : t.z = z
      BY DEF Shown
    <2> QED
      BY <2>1, <2>2, FS_Subset
  <1>6. IsFiniteSet(UNION T)
    <2>1. \A S \in T : IsFiniteSet(S)
      BY <1>1, <1>5
    <2> QED
      BY <1>4, <2>1, FS_UNION
  <1>7. LevelsShown(b, top) = UNION T
    BY <1>1 DEF LevelsShown
  <1> QED
    BY <1>1, <1>5, <1>6, <1>7

\* The world's overview is every tile there is.
LEMMA WorldIsAll ==
    ASSUME NEW top \in Nat, WorldTiles([min |-> 0, max |-> top]).ok
    PROVE  /\ WorldTiles([min |-> 0, max |-> top]).tiles = AllTiles(top)
           /\ IsFiniteSet(AllTiles(top)) /\ \A t \in AllTiles(top) : t.z \in 0..top
  <1>1. ~NoTiles.ok
    BY DEF NoTiles
  <1>2. PICK zooms : zooms = [min |-> 0, max |-> top]
    OBVIOUS
  <1>3. zooms.min = 0 /\ zooms.max = top
    BY <1>2
  <1>4. WorldTiles(zooms).tiles = UNION {[z: {z}, x: 0..(2^z - 1), y: 0..(2^z - 1)] : z \in zooms.min..zooms.max}
    BY <1>1, <1>2 DEF WorldTiles
  <1>5. WorldTiles(zooms).tiles = AllTiles(top)
    BY <1>3, <1>4, Zenon DEF AllTiles
  <1>6. \A t \in AllTiles(top) : t.z \in 0..top
    BY DEF AllTiles
  <1> QED
    BY <1>2, <1>5, <1>6, TilesAreFinite

\* What is under an area's cells.
BelowCells(b, cz, depth) == {t \in AllTiles(depth) : t.z >= cz /\ Above(t, cz) \in Shown(b, cz)}

LEMMA BelowIsUnder ==
    ASSUME NEW b, NEW cz \in Nat, CellsForZoom(b, cz).ok, ValidBounds(b), OnMap(b), NEW depth, NEW t
    PROVE  t \in BelowCells(b, cz, depth)
              <=> \E c \in CellsForZoom(b, cz).cells : t \in UnderCell(c, cz, depth)
  <1>1. PICK cells, row : cells = CellsForZoom(b, cz).cells /\ cells \subseteq [x: row, y: row]
    BY CellsAreTiles
  <1>2. PICK x, y : x = t.x \div 2^(t.z - cz) /\ y = t.y \div 2^(t.z - cz)
    OBVIOUS
  <1>3. Above(t, cz) = [z |-> cz, x |-> x, y |-> y]
    BY <1>2 DEF Above
  <1>4. [x |-> x, y |-> y] \in cells <=> Above(t, cz) \in Shown(b, cz)
    BY <1>1, <1>3, CellIsShown
  <1>5. ASSUME NEW c \in cells, t \in UnderCell(c, cz, depth) PROVE t \in BelowCells(b, cz, depth)
    <2>1. t \in AllTiles(depth) /\ t.z >= cz /\ Above(t, cz) = [z |-> cz, x |-> c.x, y |-> c.y]
      BY <1>5 DEF UnderCell
    <2>2. c = [x |-> c.x, y |-> c.y]
      BY <1>1
    <2>3. x = c.x /\ y = c.y
      BY <1>3, <2>1
    <2> QED
      BY <1>4, <2>1, <2>2, <2>3 DEF BelowCells
  <1>6. ASSUME t \in BelowCells(b, cz, depth) PROVE \E c \in cells : t \in UnderCell(c, cz, depth)
    <2>1. PICK c : c = [x |-> x, y |-> y]
      OBVIOUS
    <2>2. c \in cells /\ c.x = x /\ c.y = y
      BY <1>4, <1>6, <2>1 DEF BelowCells
    <2> QED
      BY <1>3, <1>6, <2>2 DEF BelowCells, UnderCell
  <1> QED
    BY <1>1, <1>5, <1>6

\* What is under a cell is there when one goes deeper.
LEMMA UnderGrows ==
    ASSUME NEW c, NEW z, NEW depth \in Nat, NEW deeper \in Nat, depth <= deeper
    PROVE  UnderCell(c, z, depth) \subseteq UnderCell(c, z, deeper)
  <1>1. AllTiles(depth) \subseteq AllTiles(deeper)
    BY DEF AllTiles
  <1> QED
    BY <1>1 DEF UnderCell

\* Nothing is under the cells of an archive that stops above them.
LEMMA NothingIsBelow ==
    ASSUME NEW b, NEW cz \in Nat, NEW depth \in Nat, depth < cz
    PROVE  BelowCells(b, cz, depth) = {}
  <1>1. \A t \in AllTiles(depth) : t.z \in 0..depth
    BY DEF AllTiles
  <1> QED
    BY <1>1 DEF BelowCells

LEMMA TilesAreParts ==
    ASSUME NEW b, NEW cz \in Nat \ {0}, NEW depth, ~depth.world, depth.max \in Nat
    PROVE  TilesFor(b, cz, depth)
              = LevelsShown(b, Lesser(depth.max, cz - 1)) \cup BelowCells(b, cz, depth.max)
  BY DEF TilesFor, LevelsShown, BelowCells, Shown

-----------------------------------------------------------------------------
(* What a request asks for. *)
Boxes == [west: Int, east: Int, south: Int, north: Int]
PlanRequests ==
    [bounds: Boxes, world: BOOLEAN, maxZoom: Int, cellZoom: Int, source: [min: Nat, max: Nat],
     limits: SomeLimits, areas: Seq([bounds: Boxes, maxZoom: Nat])]

LEMMA MemberIs ==
    ASSUME NEW A, NEW s \in Seq(A), NEW i \in DOMAIN s
    PROVE  s[i] \in A
  OBVIOUS

LEMMA LesserIs ==
    ASSUME NEW m \in Nat, NEW n \in Nat
    PROVE  Lesser(m, n) \in 0..n /\ Lesser(m, n) <= m
  BY DEF Lesser

\* How deep: never deeper than the source.
LEMMA DepthIsOfSource ==
    ASSUME NEW req \in PlanRequests, DepthOf(req).ok
    PROVE  /\ DepthOf(req).max \in 0..req.source.max
           /\ ~DepthOf(req).world => ValidBounds(req.bounds)
  <1>1. PICK d, top, b : d = DepthOf(req) /\ top = req.source.max /\ b = req.bounds
    OBVIOUS
  <1>2. top \in Nat /\ req.maxZoom \in Int
    BY <1>1 DEF PlanRequests
  <1>3. WorldMaxZoom \in Nat /\ DepthBands \in Seq(Nat \X Nat)
    BY PlanningAssumption
  <1>4. ~Unplanned.ok
    BY DEF Unplanned
  <1>5. PICK auto : auto = DepthFor(b, top)
    OBVIOUS
  <1>6. ASSUME auto.ok PROVE auto.max \in 0..top /\ ValidBounds(b)
    <2>1. PICK narrow : narrow = {i \in DOMAIN DepthBands : Greater(ExtentKM(b).width, ExtentKM(b).height) <= DepthBands[i][1]}
      OBVIOUS
    <2>2. PICK first : first = CHOOSE i \in narrow : \A j \in narrow : i <= j
      OBVIOUS
    <2>3. auto = IF ~ValidBounds(b) THEN Unplanned
                 ELSE IF narrow # {}
                   THEN [ok |-> TRUE, max |-> Lesser(DepthBands[first][2], top), world |-> FALSE]
                   ELSE [ok |-> TRUE, max |-> Lesser(WorldMaxZoom, top), world |-> TRUE]
      BY <1>5, <2>1, <2>2 DEF DepthFor
    <2>4. ValidBounds(b)
      BY <1>4, <1>6, <2>3
    <2>5. CASE narrow = {}
      <3>1. auto.max = Lesser(WorldMaxZoom, top)
        BY <2>3, <2>4, <2>5
      <3> QED
        BY <1>2, <1>3, <2>4, <3>1, LesserIs
    <2>6. CASE narrow # {}
      <3>1. narrow \subseteq Nat
        BY <1>3, <2>1
      <3>2. first \in narrow
        BY <2>2, <2>6, <3>1, LeastNatural
      <3>3. PICK n : n = DepthBands[first][2]
        OBVIOUS
      <3>4. n \in Nat
        BY <1>3, <2>1, <3>2, <3>3
      <3>5. auto.max = Lesser(n, top)
        BY <2>3, <2>4, <2>6, <3>3
      <3> QED
        BY <1>2, <2>4, <3>4, <3>5, LesserIs
    <2> QED
      BY <2>5, <2>6
  <1>7. d = IF req.maxZoom # AutoZoom /\ req.maxZoom \notin 0..255 THEN Unplanned
            ELSE IF req.world
              THEN [ok |-> TRUE, world |-> TRUE,
                    max |-> Lesser(IF req.maxZoom = AutoZoom THEN WorldMaxZoom ELSE req.maxZoom, top)]
            ELSE IF req.maxZoom = AutoZoom THEN auto
            ELSE IF ~ValidBounds(b) \/ req.maxZoom > top THEN Unplanned
            ELSE [ok |-> TRUE, world |-> FALSE, max |-> req.maxZoom]
    BY <1>1, <1>5 DEF DepthOf
  <1>8. d.ok /\ d # Unplanned
    BY <1>1, <1>4
  <1>9. req.maxZoom = AutoZoom \/ req.maxZoom \in 0..255
    BY <1>7, <1>8
  <1>10. CASE req.world
    <2>1. PICK n : n = IF req.maxZoom = AutoZoom THEN WorldMaxZoom ELSE req.maxZoom
      OBVIOUS
    <2>0. \A m \in 0..255 : m \in Nat
      OBVIOUS
    <2>2. n \in Nat
      BY <1>3, <1>9, <2>0, <2>1
    <2>3. d = [ok |-> TRUE, world |-> TRUE, max |-> Lesser(n, top)]
      BY <1>7, <1>9, <1>10, <2>1
    <2>4. d.max = Lesser(n, top) /\ d.world
      BY <2>3
    <2> QED
      BY <1>1, <1>2, <2>2, <2>4, LesserIs
  <1>11. CASE ~req.world /\ req.maxZoom = AutoZoom
    <2>1. d = auto
      BY <1>7, <1>9, <1>11
    <2> QED
      BY <1>1, <1>6, <1>8, <2>1
  <1>12. CASE ~req.world /\ req.maxZoom # AutoZoom
    <2>1. d = IF ~ValidBounds(b) \/ req.maxZoom > top THEN Unplanned
              ELSE [ok |-> TRUE, world |-> FALSE, max |-> req.maxZoom]
      BY <1>7, <1>9, <1>12
    <2>2. ValidBounds(b) /\ ~(req.maxZoom > top) /\ d.max = req.maxZoom
      BY <1>8, <2>1
    <2>3. req.maxZoom \in 0..255
      BY <1>9, <1>12
    <2> QED
      BY <1>1, <1>2, <2>2, <2>3
  <1> QED
    BY <1>10, <1>11, <1>12

\* A plan is made of a store's zoom and a source's.
LEMMA PlannedZooms ==
    ASSUME NEW a, NEW req \in PlanRequests, PlanFor(a, req).ok
    PROVE  req.cellZoom \in 1..MaxCellZoom /\ req.source.max \in 0..MaxZoom
  <1>1. ~Unplanned.ok
    BY DEF Unplanned
  <1>2. req.cellZoom \in 1..MaxCellZoom /\ IsZooms(req.source)
    BY <1>1 DEF PlanFor
  <1>3. req.source.max \in Nat /\ MaxZoom \in Nat
    BY TilingAssumption DEF PlanRequests
  <1> QED
    BY <1>2, <1>3 DEF IsZooms

LEMMA CellsAreKnown ==
    ASSUME NEW b, NEW z \in Nat, z <= MaxCellZoom, ValidBounds(b)
    PROVE  CellsForZoom(b, z).ok
  <1>1. MaxCellZoom \in Nat
    BY TilingAssumption
  <1>2. CellRange(b, z).ok
    BY <1>1 DEF CellRange, ValidBounds
  <1> QED
    BY <1>2 DEF CellsForZoom

LEMMA CellsAreFinite ==
    ASSUME NEW b, NEW z \in Nat, CellsForZoom(b, z).ok
    PROVE  IsFiniteSet(CellsForZoom(b, z).cells) /\ CellsForZoom(b, z).cells \subseteq Grid(z)
  <1>1. CellsForZoom(b, z).cells \subseteq Grid(z)
    BY CellsAreTiles DEF Grid
  <1>2. PICK row, T : row = 0..(2^z - 1) /\ T = [z: {z}, x: row, y: row]
    OBVIOUS
  <1>3. IsFiniteSet(T)
    BY <1>2, TilesAreFinite
  <1>4. PICK f, C : f = [t \in T |-> [x |-> t.x, y |-> t.y]] /\ C = {f[t] : t \in T}
    OBVIOUS
  <1>5. IsFiniteSet(C)
    BY <1>3, <1>4, ImageIsFinite
  <1>6. Grid(z) \subseteq C
    <2> SUFFICES ASSUME NEW c \in Grid(z) PROVE c \in C
      OBVIOUS
    <2>1. c \in [x: row, y: row]
      BY <1>2 DEF Grid
    <2>2. PICK t : t = [z |-> z, x |-> c.x, y |-> c.y]
      OBVIOUS
    <2>3. t \in T /\ f[t] = [x |-> c.x, y |-> c.y]
      BY <1>2, <1>4, <2>1, <2>2
    <2>4. f[t] = c
      BY <2>1, <2>3
    <2> QED
      BY <1>4, <2>3, <2>4
  <1> QED
    BY <1>1, <1>5, <1>6, FS_Subset

\* The plan of one area, for any archive and any copy of it: it takes each tile
\* of what was asked for that the archive has and the copy has not, once, and
\* counts the others as held or absent (Planner.Plan, acquire/plan.go).  An
\* area that is all past where the map ends asks for no ground, and is planned
\* as the tiles at the edge.
THEOREM OneAreaIsPlanned ==
    ASSUME NEW a, NEW req \in PlanRequests, DepthOf(req).world \/ OnMap(req.bounds)
    PROVE  AreaIsPlanned(a, req)
  <1> SUFFICES ASSUME PlanFor(a, req).ok, req.areas = <<>>
               PROVE  PlanTakes(a, PlanFor(a, req),
                                TilesFor(IF DepthOf(req).world THEN WorldBounds ELSE req.bounds,
                                         req.cellZoom, DepthOf(req)))
    BY DEF AreaIsPlanned
  <1>1. PICK p, d, cz : p = PlanFor(a, req) /\ d = DepthOf(req) /\ cz = req.cellZoom
    OBVIOUS
  <1>2. PICK b : b = IF d.world THEN WorldBounds ELSE req.bounds
    OBVIOUS
  <1>3. PICK above, cells, deep : /\ above = OverviewTiles(b, cz, d)
                                  /\ cells = CellsOf(b, cz)
                                  /\ deep = (~d.world /\ d.max >= cz)
    OBVIOUS
  <1>4. PICK D, depths : D = (IF deep THEN cells.cells ELSE {}) /\ depths = [c \in D |-> d.max]
    OBVIOUS
  <1>5. ~Unplanned.ok /\ ~NoTiles.ok
    BY DEF Unplanned, NoTiles
  <1>6. p = IF req.cellZoom \notin 1..MaxCellZoom \/ ~IsZooms(req.source) THEN Unplanned
            ELSE IF req.areas # <<>> THEN PlanAreas(a, req)
            ELSE IF ~d.ok \/ ~above.ok \/ (deep /\ ~cells.ok) THEN Unplanned
            ELSE PlanGroups(a, req, above.tiles, depths)
    BY <1>1, <1>2, <1>3, <1>4, Zenon DEF PlanFor
  <1>7. d.ok /\ above.ok /\ (deep => cells.ok) /\ p = PlanGroups(a, req, above.tiles, depths) /\ p.ok
    BY <1>1, <1>5, <1>6
  <1>8. cz \in 1..MaxCellZoom /\ req.source.max \in 0..MaxZoom
    BY <1>1, PlannedZooms
  <1>9. MaxCellZoom \in Nat /\ MaxZoom \in Nat
    BY TilingAssumption
  <1>10. cz \in Nat \ {0} /\ cz <= MaxCellZoom
    BY <1>8, <1>9
  <1>11. d.max \in 0..req.source.max /\ (~d.world => ValidBounds(req.bounds))
    BY <1>1, <1>7, DepthIsOfSource
  <1>12. d.max \in Nat /\ d.max <= MaxZoom
    BY <1>8, <1>9, <1>11
  <1>13. PICK top : top = Lesser(d.max, cz - 1)
    OBVIOUS
  <1>14. top \in 0..(cz - 1) /\ top \in Nat
    <2>1. PICK n : n = cz - 1
      OBVIOUS
    <2>2. n \in Nat
      BY <1>10, <2>1
    <2>3. top \in 0..n
      BY <1>12, <1>13, <2>1, <2>2, LesserIs
    <2> QED
      BY <2>1, <2>2, <2>3
  <1>15. above = IF d.world THEN WorldTiles([min |-> 0, max |-> top]) ELSE LevelsOf(b, top)
    BY <1>3, <1>13 DEF OverviewTiles
  <1>16. CASE d.world
    <2>1. above.tiles = AllTiles(top) /\ IsFiniteSet(AllTiles(top)) /\ \A t \in AllTiles(top) : t.z \in 0..top
      BY <1>7, <1>14, <1>15, <1>16, WorldIsAll
    <2>2. \A t \in AllTiles(top) : t.z < cz
      BY <1>10, <1>14, <2>1
    <2>3. D = {} /\ IsFiniteSet(D) /\ D \subseteq Grid(cz) /\ depths \in [D -> cz..MaxZoom]
      BY <1>3, <1>4, <1>16, FS_EmptySet
    <2>4. PICK overview : overview = above.tiles
      OBVIOUS
    <2>5. p = PlanGroups(a, req, overview, depths)
      BY <1>7, <2>4
    <2>6. PlanTakes(a, p, overview \cup UnderCells(D, cz, depths))
      BY <1>1, <1>7, <1>10, <2>1, <2>2, <2>3, <2>4, <2>5, PlanIsCounted
    <2>7. UnderCells(D, cz, depths) = {}
      BY <2>3 DEF UnderCells
    <2>8. TilesFor(b, cz, d) = overview
      BY <1>13, <1>16, <2>1, <2>4 DEF TilesFor
    <2> QED
      BY <1>1, <1>2, <2>6, <2>7, <2>8
  <1>17. CASE ~d.world
    <2>1. b = req.bounds /\ ValidBounds(b) /\ OnMap(b)
      BY <1>1, <1>2, <1>11, <1>17
    <2>2. above.tiles = LevelsShown(b, top)
      BY <1>7, <1>14, <1>15, <1>17, <2>1, OverviewIsShown
    <2>3. IsFiniteSet(LevelsShown(b, top)) /\ \A t \in LevelsShown(b, top) : t.z \in 0..top
      BY <1>14, LevelsAreShallow
    <2>4. \A t \in LevelsShown(b, top) : t.z < cz
      BY <1>10, <1>14, <2>3
    <2>5. PICK cs : cs = CellsForZoom(b, cz)
      OBVIOUS
    <2>6. cs.ok /\ IsFiniteSet(cs.cells) /\ cs.cells \subseteq Grid(cz)
      BY <1>10, <2>1, <2>5, CellsAreKnown, CellsAreFinite
    <2>7. deep => cells = cs
      BY <1>3, <1>5, <1>7, <2>5 DEF CellsOf
    <2>8. D = (IF d.max >= cz THEN cs.cells ELSE {})
      BY <1>3, <1>4, <1>17, <2>7
    <2>9. IsFiniteSet(D) /\ D \subseteq Grid(cz)
      BY <2>6, <2>8, FS_EmptySet
    <2>10. depths \in [D -> cz..MaxZoom]
      <3>1. ASSUME NEW c \in D PROVE d.max \in cz..MaxZoom
        BY <1>9, <1>10, <1>12, <2>8
      <3> QED
        BY <1>4, <3>1
    <2>11. PICK overview : overview = above.tiles
      OBVIOUS
    <2>12. p = PlanGroups(a, req, overview, depths)
      BY <1>7, <2>11
    <2>13. PlanTakes(a, p, overview \cup UnderCells(D, cz, depths))
      BY <1>1, <1>7, <1>10, <2>2, <2>3, <2>4, <2>9, <2>10, <2>11, <2>12, PlanIsCounted
    <2>14. UnderCells(D, cz, depths) = BelowCells(b, cz, d.max)
      <3>1. \A c \in D : depths[c] = d.max
        BY <1>4
      <3>2. \A t : t \in UnderCells(D, cz, depths) <=> \E c \in D : t \in UnderCell(c, cz, d.max)
        BY <3>1 DEF UnderCells
      <3>3. CASE d.max >= cz
        <4>1. \A t : t \in BelowCells(b, cz, d.max) <=> \E c \in cs.cells : t \in UnderCell(c, cz, d.max)
          BY <1>10, <2>1, <2>5, <2>6, BelowIsUnder
        <4>2. D = cs.cells
          BY <2>8, <3>3
        <4>3. \A t : t \in UnderCells(D, cz, depths) <=> t \in BelowCells(b, cz, d.max)
          BY <3>2, <4>1, <4>2, Zenon
        <4> QED
          BY <4>3
      <3>4. CASE ~(d.max >= cz)
        <4>1. BelowCells(b, cz, d.max) = {}
          BY <1>10, <1>12, <3>4, NothingIsBelow
        <4>2. D = {}
          BY <2>8, <3>4
        <4> QED
          BY <3>2, <4>1, <4>2
      <3> QED
        BY <3>3, <3>4
    <2>15. TilesFor(b, cz, d) = overview \cup UnderCells(D, cz, depths)
      BY <1>10, <1>12, <1>13, <1>17, <2>2, <2>11, <2>14, TilesAreParts
    <2> QED
      BY <1>1, <1>2, <2>13, <2>15
  <1> QED
    BY <1>16, <1>17

-----------------------------------------------------------------------------
(* Several areas: what a plan is made of, when it is one of a set of areas. *)
AreaTypes == [bounds: Boxes, maxZoom: Nat]

OverviewOf(A, cz, sm) == UNION {OverviewIn(ar, cz, sm).tiles : ar \in A}
AllCells(A, cz, sm) == UNION {CellsIn(ar, cz, sm).cells : ar \in A}
DepthsOf(A, cz, sm) ==
    [c \in AllCells(A, cz, sm) |-> Max({DepthIn(ar, sm) : ar \in {other \in A : c \in CellsIn(other, cz, sm).cells}})]

AreaKnown(ar, cz, sm) == ValidBounds(ar.bounds) /\ OverviewIn(ar, cz, sm).ok /\ CellsIn(ar, cz, sm).ok

LEMMA AreasPlan ==
    ASSUME NEW a, NEW req, req.areas # <<>>, NEW cz, cz = req.cellZoom, NEW sm, sm = req.source.max,
           NEW A, A = ToSet(req.areas)
    PROVE  PlanFor(a, req)
              = IF \/ cz \notin 1..MaxCellZoom \/ ~IsZooms(req.source)
                   \/ \E ar \in A : ~AreaKnown(ar, cz, sm)
                   \/ Cardinality(OverviewOf(A, cz, sm)) > MaxOverviewTiles
                   \/ Cardinality(AllCells(A, cz, sm)) > MaxPlanCells
                  THEN Unplanned
                  ELSE PlanGroups(a, req, OverviewOf(A, cz, sm), DepthsOf(A, cz, sm))
  <1>1. PICK overview, depths, D : /\ overview = OverviewOf(A, cz, sm) /\ depths = DepthsOf(A, cz, sm)
                                   /\ D = AllCells(A, cz, sm)
    OBVIOUS
  <1>2. DOMAIN depths = D
    BY <1>1 DEF DepthsOf
  <1>3. PlanAreas(a, req)
           = IF \E ar \in A : ~ValidBounds(ar.bounds) \/ ~OverviewIn(ar, cz, sm).ok \/ ~CellsIn(ar, cz, sm).ok
               THEN Unplanned
             ELSE IF Cardinality(overview) > MaxOverviewTiles \/ Cardinality(DOMAIN depths) > MaxPlanCells
               THEN Unplanned
               ELSE PlanGroups(a, req, overview, depths)
    BY <1>1, Zenon DEF PlanAreas, OverviewOf, AllCells, DepthsOf
  <1>4. PlanFor(a, req) = IF req.cellZoom \notin 1..MaxCellZoom \/ ~IsZooms(req.source) THEN Unplanned
                          ELSE PlanAreas(a, req)
    BY DEF PlanFor
  <1> QED
    BY <1>1, <1>2, <1>3, <1>4, Zenon DEF AreaKnown

LEMMA DepthOfArea ==
    ASSUME NEW ar \in AreaTypes, NEW sm \in Nat
    PROVE  DepthIn(ar, sm) \in Nat /\ DepthIn(ar, sm) <= sm
  <1>1. PICK m : m = ar.maxZoom
    OBVIOUS
  <1>2. m \in Nat
    BY <1>1 DEF AreaTypes
  <1>3. Lesser(m, sm) \in 0..sm
    BY <1>2, LesserIs
  <1> QED
    BY <1>1, <1>3 DEF DepthIn

\* An area's tiles above the cells, and its cells.
LEMMA OneOfAreas ==
    ASSUME NEW ar \in AreaTypes, NEW sm \in Nat, NEW cz \in Nat \ {0}, AreaKnown(ar, cz, sm), OnMap(ar.bounds)
    PROVE  /\ OverviewIn(ar, cz, sm).tiles = LevelsShown(ar.bounds, Lesser(DepthIn(ar, sm), cz - 1))
           /\ IsFiniteSet(OverviewIn(ar, cz, sm).tiles) /\ \A t \in OverviewIn(ar, cz, sm).tiles : t.z < cz
           /\ IsFiniteSet(CellsIn(ar, cz, sm).cells) /\ CellsIn(ar, cz, sm).cells \subseteq Grid(cz)
           /\ \A c \in CellsIn(ar, cz, sm).cells : DepthIn(ar, sm) >= cz
           /\ \A t : t \in BelowCells(ar.bounds, cz, DepthIn(ar, sm))
                 <=> \E c \in CellsIn(ar, cz, sm).cells : t \in UnderCell(c, cz, DepthIn(ar, sm))
  <1>1. PICK b, top, m, d, k : /\ b = ar.bounds /\ d = DepthIn(ar, sm) /\ k = cz - 1
                               /\ top = Lesser(d, k) /\ m = [max |-> d, world |-> FALSE]
    OBVIOUS
  <1>2. d \in Nat /\ k \in Nat /\ ValidBounds(b) /\ OnMap(b) /\ OverviewIn(ar, cz, sm).ok
    BY <1>1, DepthOfArea DEF AreaKnown
  <1>3. top \in 0..k
    BY <1>1, <1>2, LesserIs
  <1>4. top \in Nat /\ top < cz
    BY <1>1, <1>2, <1>3
  <1>5. m.max = d /\ ~m.world
    BY <1>1
  <1>6. OverviewIn(ar, cz, sm) = LevelsOf(b, top)
    <2>1. OverviewIn(ar, cz, sm) = OverviewTiles(b, cz, m)
      BY <1>1 DEF OverviewIn
    <2> QED
      BY <1>1, <1>5, <2>1 DEF OverviewTiles
  <1>7. LevelsOf(b, top).tiles = LevelsShown(b, top)
    BY <1>2, <1>4, <1>6, OverviewIsShown
  <1>8. IsFiniteSet(LevelsShown(b, top)) /\ \A t \in LevelsShown(b, top) : t.z \in 0..top
    BY <1>4, LevelsAreShallow
  <1>9. \A t \in LevelsShown(b, top) : t.z < cz
    BY <1>4, <1>8
  <1>10. PICK cells : cells = CellsIn(ar, cz, sm)
    OBVIOUS
  <1>11. CASE d < cz
    <2>1. cells.cells = {}
      BY <1>1, <1>10, <1>11 DEF CellsIn
    <2>2. BelowCells(b, cz, d) = {}
      BY <1>2, <1>11, NothingIsBelow
    <2> QED
      BY <1>1, <1>6, <1>7, <1>8, <1>9, <1>10, <2>1, <2>2, FS_EmptySet
  <1>12. CASE ~(d < cz)
    <2>1. cells = CellsForZoom(b, cz) /\ cells.ok
      BY <1>1, <1>10, <1>12 DEF CellsIn, AreaKnown
    <2>2. IsFiniteSet(cells.cells) /\ cells.cells \subseteq Grid(cz)
      BY <2>1, CellsAreFinite
    <2>3. \A t : t \in BelowCells(b, cz, d) <=> \E c \in cells.cells : t \in UnderCell(c, cz, d)
      BY <1>2, <2>1, BelowIsUnder
    <2>4. d >= cz
      BY <1>2, <1>12
    <2> QED
      BY <1>1, <1>6, <1>7, <1>8, <1>9, <1>10, <2>2, <2>3, <2>4
  <1> QED
    BY <1>11, <1>12

-----------------------------------------------------------------------------
Areas(A, cz, sm) ==
    /\ IsFiniteSet(A) /\ A \subseteq AreaTypes
    /\ \A ar \in A : AreaKnown(ar, cz, sm) /\ OnMap(ar.bounds)

\* What is above the cells of several areas, and the cells.
LEMMA AreasAreFinite ==
    ASSUME NEW sm \in Nat, NEW cz \in Nat \ {0}, NEW A, Areas(A, cz, sm)
    PROVE  /\ IsFiniteSet(OverviewOf(A, cz, sm)) /\ \A t \in OverviewOf(A, cz, sm) : t.z < cz
           /\ IsFiniteSet(AllCells(A, cz, sm)) /\ AllCells(A, cz, sm) \subseteq Grid(cz)
  <1>1. PICK f, T : f = [ar \in A |-> OverviewIn(ar, cz, sm).tiles] /\ T = {OverviewIn(ar, cz, sm).tiles : ar \in A}
    OBVIOUS
  <1>2. PICK g, U : g = [ar \in A |-> CellsIn(ar, cz, sm).cells] /\ U = {CellsIn(ar, cz, sm).cells : ar \in A}
    OBVIOUS
  <1>3. T = {f[ar] : ar \in A} /\ U = {g[ar] : ar \in A}
    BY <1>1, <1>2
  <1>4. IsFiniteSet(T) /\ IsFiniteSet(U)
    BY <1>3, ImageIsFinite DEF Areas
  <1>5. /\ \A S \in T : IsFiniteSet(S) /\ \A t \in S : t.z < cz
        /\ \A S \in U : IsFiniteSet(S) /\ S \subseteq Grid(cz)
    <2> SUFFICES ASSUME NEW ar \in A
                 PROVE  /\ IsFiniteSet(OverviewIn(ar, cz, sm).tiles)
                        /\ \A t \in OverviewIn(ar, cz, sm).tiles : t.z < cz
                        /\ IsFiniteSet(CellsIn(ar, cz, sm).cells)
                        /\ CellsIn(ar, cz, sm).cells \subseteq Grid(cz)
      BY <1>1, <1>2
    <2>1. ar \in AreaTypes /\ AreaKnown(ar, cz, sm) /\ OnMap(ar.bounds)
      BY DEF Areas
    <2> QED
      BY <2>1, OneOfAreas
  <1>6. \A S \in T : IsFiniteSet(S)
    BY <1>5
  <1>7. \A S \in U : IsFiniteSet(S)
    BY <1>5
  <1>8. IsFiniteSet(UNION T)
    BY <1>4, <1>6, FS_UNION
  <1>9. IsFiniteSet(UNION U)
    BY <1>4, <1>7, FS_UNION
  <1>10. OverviewOf(A, cz, sm) = UNION T /\ AllCells(A, cz, sm) = UNION U
    BY <1>1, <1>2 DEF OverviewOf, AllCells
  <1> QED
    BY <1>5, <1>8, <1>9, <1>10

\* Each cell as deep as the deepest area it is in: that holds what is under the
\* cells of each.
LEMMA DepthsAreDeepest ==
    ASSUME NEW sm \in Nat, sm <= MaxZoom, NEW cz \in Nat \ {0}, NEW A, Areas(A, cz, sm),
           NEW D, D = AllCells(A, cz, sm), NEW depths, depths = DepthsOf(A, cz, sm)
    PROVE  /\ depths \in [D -> cz..MaxZoom]
           /\ \A c \in D : depths[c] <= sm
           /\ \A t : t \in UnderCells(D, cz, depths)
                 <=> \E ar \in A : t \in BelowCells(ar.bounds, cz, DepthIn(ar, sm))
  <1>0. /\ D = UNION {CellsIn(ar, cz, sm).cells : ar \in A}
        /\ depths = [c \in D |-> Max({DepthIn(ar, sm) : ar \in {other \in A : c \in CellsIn(other, cz, sm).cells}})]
    BY DEF AllCells, DepthsOf
  <1>1. MaxZoom \in Nat
    BY TilingAssumption
  <1>2. \A ar \in A : DepthIn(ar, sm) \in Nat /\ DepthIn(ar, sm) <= sm
    BY DepthOfArea DEF Areas
  <1>3. ASSUME NEW ar \in A
        PROVE  /\ \A c \in CellsIn(ar, cz, sm).cells : DepthIn(ar, sm) >= cz
               /\ \A t : t \in BelowCells(ar.bounds, cz, DepthIn(ar, sm))
                     <=> \E c \in CellsIn(ar, cz, sm).cells : t \in UnderCell(c, cz, DepthIn(ar, sm))
    <2>1. ar \in AreaTypes /\ AreaKnown(ar, cz, sm) /\ OnMap(ar.bounds)
      BY DEF Areas
    <2> QED
      BY <2>1, OneOfAreas
  <1>4. ASSUME NEW c \in D
        PROVE  /\ depths[c] \in cz..MaxZoom /\ depths[c] <= sm
               /\ \E ar \in A : c \in CellsIn(ar, cz, sm).cells /\ depths[c] = DepthIn(ar, sm)
               /\ \A ar \in A : c \in CellsIn(ar, cz, sm).cells => DepthIn(ar, sm) <= depths[c]
    <2>1. PICK s : s = {DepthIn(ar, sm) : ar \in {other \in A : c \in CellsIn(other, cz, sm).cells}}
      OBVIOUS
    <2>2. \A ar \in A : c \in CellsIn(ar, cz, sm).cells => DepthIn(ar, sm) \in cz..MaxZoom
      <3> SUFFICES ASSUME NEW ar \in A, c \in CellsIn(ar, cz, sm).cells PROVE DepthIn(ar, sm) \in cz..MaxZoom
        OBVIOUS
      <3>1. DepthIn(ar, sm) >= cz
        BY <1>3
      <3> QED
        BY <1>1, <1>2, <3>1
    <2>3. \A z \in cz..MaxZoom : z \in 1..MaxZoom
      BY <1>1
    <2>4. s \subseteq cz..MaxZoom
      BY <2>1, <2>2
    <2>5. s \subseteq 1..MaxZoom
      BY <2>3, <2>4
    <2>6. s # {}
      BY <1>0, <2>1
    <2>7. PICK m : m = Max(s)
      OBVIOUS
    <2>8. m \in s /\ \A k \in s : k <= m
      BY <1>1, <2>5, <2>6, <2>7, LargestIsIn
    <2>9. depths[c] = m
      BY <1>0, <2>1, <2>7
    <2>10. \E ar \in A : c \in CellsIn(ar, cz, sm).cells /\ m = DepthIn(ar, sm)
      BY <2>1, <2>8
    <2>11. \A ar \in A : c \in CellsIn(ar, cz, sm).cells => DepthIn(ar, sm) <= m
      BY <2>1, <2>8
    <2>12. m \in cz..MaxZoom /\ m <= sm
      BY <1>2, <2>4, <2>8, <2>10
    <2> QED
      BY <2>9, <2>10, <2>11, <2>12
  <1>5. depths \in [D -> cz..MaxZoom]
    <2>1. \A c \in D : depths[c] \in cz..MaxZoom
      BY <1>4
    <2>2. depths = [c \in D |-> depths[c]]
      BY <1>0
    <2> QED
      BY <2>1, <2>2
  <1>6. \A t : t \in UnderCells(D, cz, depths) <=> \E c \in D : t \in UnderCell(c, cz, depths[c])
    BY DEF UnderCells
  <1>7. ASSUME NEW c \in D, NEW t \in UnderCell(c, cz, depths[c])
        PROVE  \E ar \in A : t \in BelowCells(ar.bounds, cz, DepthIn(ar, sm))
    <2>1. PICK ar \in A : c \in CellsIn(ar, cz, sm).cells /\ depths[c] = DepthIn(ar, sm)
      BY <1>4
    <2> QED
      BY <1>3, <1>7, <2>1
  <1>8. ASSUME NEW ar \in A, NEW t \in BelowCells(ar.bounds, cz, DepthIn(ar, sm))
        PROVE  \E c \in D : t \in UnderCell(c, cz, depths[c])
    <2>1. PICK c \in CellsIn(ar, cz, sm).cells : t \in UnderCell(c, cz, DepthIn(ar, sm))
      BY <1>3, <1>8
    <2>2. c \in D
      BY <1>0, <2>1
    <2>3. DepthIn(ar, sm) <= depths[c]
      BY <1>4, <2>1, <2>2
    <2>4. depths[c] \in cz..MaxZoom
      BY <1>4, <2>2
    <2>5. depths[c] \in Nat /\ DepthIn(ar, sm) \in Nat
      BY <1>1, <1>2, <2>4
    <2>6. UnderCell(c, cz, DepthIn(ar, sm)) \subseteq UnderCell(c, cz, depths[c])
      BY <2>3, <2>5, UnderGrows
    <2> QED
      BY <2>1, <2>2, <2>6
  <1> QED
    BY <1>4, <1>5, <1>6, <1>7, <1>8

\* What some areas ask for.
Asked(A, cz, sm) ==
    UNION {TilesFor(ar.bounds, cz, [max |-> DepthIn(ar, sm), world |-> FALSE]) : ar \in A}

LEMMA AskedIsOver ==
    ASSUME NEW sm \in Nat, sm <= MaxZoom, NEW cz \in Nat \ {0}, NEW A, Areas(A, cz, sm)
    PROVE  Asked(A, cz, sm) = OverviewOf(A, cz, sm) \cup UnderCells(AllCells(A, cz, sm), cz, DepthsOf(A, cz, sm))
  <1>1. PICK parts : parts = [ar \in A |-> TilesFor(ar.bounds, cz, [max |-> DepthIn(ar, sm), world |-> FALSE])]
    OBVIOUS
  <1>2. ASSUME NEW ar \in A
        PROVE  parts[ar] = OverviewIn(ar, cz, sm).tiles \cup BelowCells(ar.bounds, cz, DepthIn(ar, sm))
    <2>1. PICK m, b, d : m = [max |-> d, world |-> FALSE] /\ b = ar.bounds /\ d = DepthIn(ar, sm)
      OBVIOUS
    <2>2. ar \in AreaTypes /\ AreaKnown(ar, cz, sm) /\ OnMap(ar.bounds)
      BY DEF Areas
    <2>3. d \in Nat
      BY <2>1, <2>2, DepthOfArea
    <2>4. m.max = d /\ ~m.world
      BY <2>1
    <2>5. parts[ar] = TilesFor(b, cz, m)
      BY <1>1, <2>1
    <2>6. TilesFor(b, cz, m) = LevelsShown(b, Lesser(d, cz - 1)) \cup BelowCells(b, cz, d)
      BY <2>3, <2>4, TilesAreParts
    <2>7. OverviewIn(ar, cz, sm).tiles = LevelsShown(b, Lesser(d, cz - 1))
      BY <2>1, <2>2, OneOfAreas
    <2> QED
      BY <2>1, <2>5, <2>6, <2>7
  <1>3. PICK under : under = UnderCells(AllCells(A, cz, sm), cz, DepthsOf(A, cz, sm))
    OBVIOUS
  <1>4. \A t : t \in under <=> \E ar \in A : t \in BelowCells(ar.bounds, cz, DepthIn(ar, sm))
    BY <1>3, DepthsAreDeepest
  <1>5. \A t : t \in OverviewOf(A, cz, sm) <=> \E ar \in A : t \in OverviewIn(ar, cz, sm).tiles
    BY DEF OverviewOf
  <1>6. \A t : t \in Asked(A, cz, sm) <=> \E ar \in A : t \in parts[ar]
    BY <1>1 DEF Asked
  <1>7. \A t : t \in Asked(A, cz, sm) <=> t \in OverviewOf(A, cz, sm) \/ t \in under
    BY <1>2, <1>4, <1>5, <1>6
  <1> QED
    BY <1>3, <1>7

\* The areas of a request.
LEMMA AreasOfRequest ==
    ASSUME NEW areas \in Seq(AreaTypes), NEW A, A = ToSet(areas)
    PROVE  IsFiniteSet(A) /\ A \subseteq AreaTypes /\ (areas # <<>> => A # {})
  <1>1. PICK n : n = Len(areas)
    OBVIOUS
  <1>2. n \in Nat /\ DOMAIN areas = 1..n /\ \A i \in 1..n : areas[i] \in AreaTypes
    BY <1>1, LenProperties, ElementOfSeq
  <1>3. A = {areas[i] : i \in 1..n}
    BY <1>2 DEF ToSet
  <1>4. IsFiniteSet(1..n)
    <2>1. n \in Int /\ 1 \in Int
      BY <1>2
    <2> QED
      BY <2>1, FS_Interval
  <1>5. PICK X : X = 1..n
    OBVIOUS
  <1>6. IsFiniteSet(A)
    <2>1. PICK T : T = A /\ T = {areas[i] : i \in X}
      BY <1>3, <1>5
    <2>2. IsFiniteSet(X)
      BY <1>4, <1>5
    <2>3. IsFiniteSet(T)
      BY <2>1, <2>2, ImageIsFinite
    <2> QED
      BY <2>1, <2>3
  <1>7. ASSUME areas # <<>> PROVE A # {}
    <2>1. n # 0
      BY <1>1, <1>7, EmptySeq
    <2>2. 1 \in 1..n
      BY <1>2, <2>1
    <2> QED
      BY <1>3, <2>2
  <1> QED
    BY <1>2, <1>3, <1>6, <1>7

\* The plan of several areas as one: a tile in two of them is taken once, and a
\* cell goes as deep as the deepest area it is in (planAreas, acquire/areas.go).
THEOREM SeveralAreasArePlanned ==
    ASSUME NEW a, NEW req \in PlanRequests, \A ar \in ToSet(req.areas) : OnMap(ar.bounds)
    PROVE  WholeIsPlanned(a, req)
  <1> SUFFICES ASSUME PlanFor(a, req).ok, req.areas # <<>>
               PROVE  PlanTakes(a, PlanFor(a, req), TilesForAll(req))
    BY DEF WholeIsPlanned
  <1>1. PICK p, cz, sm, A : p = PlanFor(a, req) /\ cz = req.cellZoom /\ sm = req.source.max /\ A = ToSet(req.areas)
    OBVIOUS
  <1>2. MaxCellZoom \in Nat /\ MaxZoom \in Nat /\ ~Unplanned.ok
    BY TilingAssumption DEF Unplanned
  <1>3. cz \in 1..MaxCellZoom /\ sm \in 0..MaxZoom
    BY <1>1, PlannedZooms
  <1>4. cz \in Nat \ {0} /\ cz <= MaxCellZoom /\ sm \in Nat /\ sm <= MaxZoom
    BY <1>2, <1>3
  <1>5. PICK overview, D, depths : /\ overview = OverviewOf(A, cz, sm) /\ D = AllCells(A, cz, sm)
                                   /\ depths = DepthsOf(A, cz, sm)
    OBVIOUS
  <1>6. p = IF \/ cz \notin 1..MaxCellZoom \/ ~IsZooms(req.source)
               \/ \E ar \in A : ~AreaKnown(ar, cz, sm)
               \/ Cardinality(overview) > MaxOverviewTiles
               \/ Cardinality(D) > MaxPlanCells
              THEN Unplanned
              ELSE PlanGroups(a, req, overview, depths)
    BY <1>1, <1>5, AreasPlan
  <1>7. p.ok /\ p = PlanGroups(a, req, overview, depths) /\ \A ar \in A : AreaKnown(ar, cz, sm)
    BY <1>1, <1>2, <1>6
  <1>8. Areas(A, cz, sm)
    <2>1. req.areas \in Seq(AreaTypes)
      BY DEF PlanRequests, AreaTypes
    <2> QED
      BY <1>1, <1>7, <2>1, AreasOfRequest DEF Areas
  <1>9. /\ IsFiniteSet(overview) /\ \A t \in overview : t.z < cz
        /\ IsFiniteSet(D) /\ D \subseteq Grid(cz) /\ depths \in [D -> cz..MaxZoom]
    BY <1>4, <1>5, <1>8, AreasAreFinite, DepthsAreDeepest
  <1>10. PlanTakes(a, p, overview \cup UnderCells(D, cz, depths))
    BY <1>1, <1>4, <1>7, <1>9, PlanIsCounted
  <1>11. TilesForAll(req) = Asked(A, cz, sm)
    BY <1>1 DEF TilesForAll, Asked
  <1>12. Asked(A, cz, sm) = overview \cup UnderCells(D, cz, depths)
    BY <1>4, <1>5, <1>8, AskedIsOver
  <1> QED
    BY <1>1, <1>10, <1>11, <1>12

-----------------------------------------------------------------------------
(* Areas over several plans. *)
Replaced(out, s, e, n, S) ==
    /\ n \in Nat /\ n > 0 /\ out \in Seq(S) /\ Len(out) = n
    /\ \A i \in 1..(n - 1) : out[i] = s[i]
    /\ out[n] = e

LEMMA LastIsReplaced ==
    ASSUME NEW S, NEW s \in Seq(S), s # <<>>, NEW e \in S, NEW n, n = Len(s), NEW out, out = Front(s) \o <<e>>
    PROVE  Replaced(out, s, e, n, S)
  <1>1. n \in Nat /\ n > 0
    BY EmptySeq, LenProperties
  <1>2. PICK front, one, m : front = Front(s) /\ one = <<e>> /\ m = n - 1
    OBVIOUS
  <1>3. front \in Seq(S) /\ Len(front) = m /\ \A i \in 1..m : front[i] = s[i]
    BY <1>1, <1>2 DEF Front
  <1>4. one \in Seq(S) /\ Len(one) = 1 /\ one[1] = e
    BY <1>2
  <1>5. out = front \o one
    BY <1>2
  <1>6. /\ out \in Seq(S) /\ Len(out) = Len(front) + Len(one)
        /\ \A i \in 1..(Len(front) + Len(one)) :
              out[i] = IF i <= Len(front) THEN front[i] ELSE one[i - Len(front)]
    <2>1. /\ front \o one \in Seq(S) /\ Len(front \o one) = Len(front) + Len(one)
          /\ \A i \in 1..(Len(front) + Len(one)) :
                (front \o one)[i] = IF i <= Len(front) THEN front[i] ELSE one[i - Len(front)]
      BY <1>3, <1>4, ConcatProperties, Zenon
    <2> QED
      BY <1>5, <2>1, Zenon
  <1>7. out \in Seq(S) /\ Len(out) = n /\ \A i \in 1..n : out[i] = IF i <= m THEN front[i] ELSE one[i - m]
    <2>1. Len(front) + Len(one) = n
      BY <1>1, <1>2, <1>3, <1>4
    <2> QED
      BY <1>3, <1>6, <2>1, Zenon
  <1>8. \A i \in 1..m : i \in 1..n /\ i <= m
    BY <1>1, <1>2
  <1>9. n \in 1..n /\ ~(n <= m) /\ n - m = 1
    BY <1>1, <1>2
  <1>10. \A i \in 1..(n - 1) : out[i] = s[i]
    BY <1>2, <1>3, <1>7, <1>8
  <1>11. out[n] = e
    BY <1>4, <1>7, <1>9
  <1> QED
    BY <1>1, <1>7, <1>10, <1>11 DEF Replaced

\* What becomes of the batches: the last takes the area, or it is one of its own.
Joins(out, B, n, ar, cz, sm) ==
    /\ n > 0 /\ Len(out) = n /\ FitOnePlan(ToSet(B[n]) \cup {ar}, cz, sm)
    /\ \A i \in 1..(n - 1) : out[i] = B[i]
    /\ out[n] = Append(B[n], ar)

Begins(out, B, n, ar, cz, sm) ==
    /\ Len(out) = n + 1 /\ out[n + 1] = <<ar>>
    /\ \A i \in 1..n : out[i] = B[i]
    /\ n > 0 => ~FitOnePlan(ToSet(B[n]) \cup {ar}, cz, sm)

LEMMA WithAreaShape ==
    ASSUME NEW cz, NEW sm, NEW V, V = Seq(AreaTypes), NEW B \in Seq(V), NEW ar \in AreaTypes,
           NEW n, n = Len(B), NEW out, out = WithArea(B, ar, cz, sm)
    PROVE  out \in Seq(V) /\ n \in Nat /\ (Joins(out, B, n, ar, cz, sm) \/ Begins(out, B, n, ar, cz, sm))
  <1>1. n \in Nat /\ (B # <<>> <=> n > 0)
    BY EmptySeq, LenProperties
  <1>2. CASE B # <<>> /\ FitOnePlan(ToSet(Last(B)) \cup {ar}, cz, sm)
    <2>1. PICK last, e : last = B[n] /\ e = Append(last, ar)
      OBVIOUS
    <2>2. Last(B) = last
      BY <2>1 DEF Last
    <2>3. last \in Seq(AreaTypes)
      <3>1. last \in V
        BY <1>1, <1>2, <2>1, ElementOfSeq
      <3> QED
        BY <3>1
    <2>4. e \in V
      <3>1. e \in Seq(AreaTypes)
        BY <2>1, <2>3, AppendProperties
      <3> QED
        BY <3>1
    <2>5. out = Front(B) \o <<e>>
      BY <1>2, <2>1, <2>2 DEF WithArea
    <2>6. /\ out \in Seq(V) /\ Len(out) = n
          /\ \A i \in 1..(n - 1) : out[i] = B[i]
          /\ out[n] = e
      <3>1. Replaced(out, B, e, n, V)
        BY <1>2, <2>4, <2>5, LastIsReplaced
      <3> QED
        BY <3>1 DEF Replaced
    <2> QED
      BY <1>1, <1>2, <2>1, <2>2, <2>6 DEF Joins
  <1>3. CASE ~(B # <<>> /\ FitOnePlan(ToSet(Last(B)) \cup {ar}, cz, sm))
    <2>1. PICK e : e = <<ar>>
      OBVIOUS
    <2>2. e \in V
      BY <2>1
    <2>3. out = Append(B, e)
      BY <1>3, <2>1 DEF WithArea
    <2>4. /\ out \in Seq(V) /\ Len(out) = n + 1 /\ out[n + 1] = e
          /\ \A i \in 1..n : out[i] = B[i]
      BY <1>1, <2>2, <2>3
    <2>5. n > 0 => ~FitOnePlan(ToSet(B[n]) \cup {ar}, cz, sm)
      BY <1>1, <1>3 DEF Last
    <2> QED
      BY <1>1, <2>1, <2>4, <2>5 DEF Begins
  <1> QED
    BY <1>2, <1>3

\* Fewer areas fit where more do.
LEMMA FewerFit ==
    ASSUME NEW sm \in Nat, NEW cz \in Nat \ {0}, NEW A, Areas(A, cz, sm), NEW T, T \subseteq A,
           FitOnePlan(A, cz, sm)
    PROVE  FitOnePlan(T, cz, sm)
  <1>1. PICK O, C, P, D : /\ O = OverviewOf(A, cz, sm) /\ C = AllCells(A, cz, sm)
                          /\ P = OverviewOf(T, cz, sm) /\ D = AllCells(T, cz, sm)
    OBVIOUS
  <1>2. IsFiniteSet(O) /\ IsFiniteSet(C)
    BY <1>1, AreasAreFinite
  <1>3. P \subseteq O /\ D \subseteq C
    BY <1>1 DEF OverviewOf, AllCells
  <1>4. /\ Cardinality(P) <= Cardinality(O) /\ Cardinality(D) <= Cardinality(C)
        /\ IsFiniteSet(P) /\ IsFiniteSet(D)
    BY <1>2, <1>3, FS_Subset
  <1>5. /\ Cardinality(P) \in Nat /\ Cardinality(O) \in Nat
        /\ Cardinality(D) \in Nat /\ Cardinality(C) \in Nat
    BY <1>2, <1>4, FS_CardinalityType
  <1>6. MaxPlanCells \in Nat /\ MaxOverviewTiles \in Nat
    BY PlanningAssumption
  <1>7. Cardinality(C) <= MaxPlanCells /\ Cardinality(O) <= MaxOverviewTiles
    BY <1>1 DEF FitOnePlan, OverviewOf, AllCells
  <1>8. Cardinality(D) <= MaxPlanCells /\ Cardinality(P) <= MaxOverviewTiles
    BY <1>4, <1>5, <1>6, <1>7
  <1> QED
    BY <1>1, <1>8 DEF FitOnePlan, OverviewOf, AllCells

-----------------------------------------------------------------------------
(* The batches of the first areas: each fits, together they are those areas, *)
(* and there are two or more only if the areas do not fit as one.            *)
FirstAreas(areas, k) == {areas[i] : i \in 1..k}

Split(B, areas, k, cz, sm) ==
    /\ B \in Seq(Seq(AreaTypes))
    /\ \A j \in 1..Len(B) : B[j] # <<>> /\ FitOnePlan(ToSet(B[j]), cz, sm)
    /\ UNION {ToSet(B[j]) : j \in 1..Len(B)} = FirstAreas(areas, k)
    /\ Len(B) = 0 <=> k = 0
    /\ Len(B) > 1 => ~FitOnePlan(FirstAreas(areas, k), cz, sm)

LEMMA AppendedSet ==
    ASSUME NEW S, NEW s \in Seq(S), NEW e \in S
    PROVE  ToSet(Append(s, e)) = ToSet(s) \cup {e} /\ Append(s, e) # <<>>
  <1>1. PICK n, t : n = Len(s) /\ t = Append(s, e)
    OBVIOUS
  <1>2. /\ n \in Nat /\ DOMAIN s = 1..n /\ DOMAIN t = 1..(n + 1) /\ t[n + 1] = e
        /\ \A i \in 1..n : t[i] = s[i]
    BY <1>1
  <1>3. ToSet(t) = {t[i] : i \in 1..(n + 1)} /\ ToSet(s) = {s[i] : i \in 1..n}
    BY <1>2 DEF ToSet
  <1>4. \A i \in 1..(n + 1) : i \in 1..n \/ i = n + 1
    BY <1>2
  <1>5. \A i \in 1..n : i \in 1..(n + 1)
    BY <1>2
  <1>6. n + 1 \in 1..(n + 1)
    BY <1>2
  <1>7. ToSet(t) = ToSet(s) \cup {e}
    BY <1>2, <1>3, <1>4, <1>5, <1>6
  <1>8. t # <<>>
    BY <1>2
  <1> QED
    BY <1>1, <1>7, <1>8

LEMMA SetOfOne ==
    ASSUME NEW e
    PROVE  ToSet(<<e>>) = {e} /\ <<e>> # <<>> /\ Len(<<e>>) = 1 /\ <<e>>[1] = e
  <1>1. PICK s : s = <<e>>
    OBVIOUS
  <1>2. DOMAIN s = 1..1 /\ s[1] = e /\ Len(s) = 1 /\ s # <<>>
    BY <1>1
  <1>3. ToSet(s) = {e}
    BY <1>2 DEF ToSet
  <1> QED
    BY <1>1, <1>2, <1>3

LEMMA SplitIsKept ==
    ASSUME NEW sm \in Nat, NEW cz \in Nat \ {0}, NEW areas \in Seq(AreaTypes), Areas(ToSet(areas), cz, sm),
           NEW k \in Nat, k + 1 <= Len(areas), NEW ar, ar = areas[k + 1], FitOnePlan({ar}, cz, sm),
           NEW B, Split(B, areas, k, cz, sm), NEW out, out = WithArea(B, ar, cz, sm)
    PROVE  Split(out, areas, k + 1, cz, sm)
  <1>1. PICK V, n : V = Seq(AreaTypes) /\ n = Len(B)
    OBVIOUS
  <1>2. ar \in AreaTypes /\ k + 1 \in 1..Len(areas) /\ Len(areas) \in Nat /\ DOMAIN areas = 1..Len(areas)
    BY LenProperties, ElementOfSeq
  <1>3. /\ B \in Seq(V) /\ \A j \in 1..n : B[j] # <<>> /\ FitOnePlan(ToSet(B[j]), cz, sm)
        /\ UNION {ToSet(B[j]) : j \in 1..n} = FirstAreas(areas, k)
        /\ n = 0 <=> k = 0
        /\ n > 1 => ~FitOnePlan(FirstAreas(areas, k), cz, sm)
    BY <1>1 DEF Split
  <1>4. out \in Seq(V) /\ n \in Nat /\ (Joins(out, B, n, ar, cz, sm) \/ Begins(out, B, n, ar, cz, sm))
    BY <1>1, <1>2, <1>3, WithAreaShape
  <1>5. PICK F, G : F = FirstAreas(areas, k) /\ G = FirstAreas(areas, k + 1)
    OBVIOUS
  <1>6. G = F \cup {ar}
    <2>1. \A i \in 1..(k + 1) : i \in 1..k \/ i = k + 1
      OBVIOUS
    <2>2. \A i \in 1..k : i \in 1..(k + 1)
      OBVIOUS
    <2>3. k + 1 \in 1..(k + 1)
      OBVIOUS
    <2> QED
      BY <1>5, <2>1, <2>2, <2>3 DEF FirstAreas
  <1>7. G \subseteq ToSet(areas)
    <2>1. \A i \in 1..(k + 1) : i \in DOMAIN areas
      BY <1>2
    <2> QED
      BY <1>5, <2>1 DEF FirstAreas, ToSet
  <1>8. \A T : T \subseteq G /\ ~FitOnePlan(T, cz, sm) => ~FitOnePlan(G, cz, sm)
    <2>1. Areas(G, cz, sm)
      BY <1>7, FS_Subset DEF Areas
    <2> QED
      BY <2>1, FewerFit
  <1>9. n > 1 => ~FitOnePlan(G, cz, sm)
    BY <1>3, <1>5, <1>6, <1>8
  <1>10. \A j \in 1..n : B[j] \in Seq(AreaTypes)
    BY <1>1, <1>3, ElementOfSeq
  <1>11. \A t : t \in F <=> \E j \in 1..n : t \in ToSet(B[j])
    BY <1>3, <1>5
  <1>12. CASE Joins(out, B, n, ar, cz, sm)
    <2>0. /\ n > 0 /\ Len(out) = n /\ FitOnePlan(ToSet(B[n]) \cup {ar}, cz, sm)
          /\ \A i \in 1..(n - 1) : out[i] = B[i]
          /\ out[n] = Append(B[n], ar)
      BY <1>12 DEF Joins
    <2>1. n \in 1..n /\ n # 0 /\ k # 0
      BY <1>3, <1>4, <2>0
    <2>2. ToSet(out[n]) = ToSet(B[n]) \cup {ar} /\ out[n] # <<>>
      <3>1. PICK S, b, t : S = AreaTypes /\ b = B[n] /\ t = Append(b, ar)
        OBVIOUS
      <3>2. b \in Seq(S) /\ ar \in S
        BY <1>2, <1>10, <2>1, <3>1
      <3>3. ToSet(t) = ToSet(b) \cup {ar} /\ t # <<>>
        <4>1. ToSet(Append(b, ar)) = ToSet(b) \cup {ar} /\ Append(b, ar) # <<>>
          BY <3>2, AppendedSet
        <4> QED
          BY <3>1, <4>1
      <3> QED
        BY <2>0, <3>1, <3>3
    <2>3. \A j \in 1..n : j = n \/ (j \in 1..(n - 1) /\ out[j] = B[j])
      BY <1>4, <2>0
    <2>4. \A j \in 1..n : out[j] # <<>> /\ FitOnePlan(ToSet(out[j]), cz, sm)
      <3>1. ASSUME NEW j \in 1..n, j = n PROVE out[j] # <<>> /\ FitOnePlan(ToSet(out[j]), cz, sm)
        BY <2>0, <2>2, <3>1
      <3>2. ASSUME NEW j \in 1..n, out[j] = B[j] PROVE out[j] # <<>> /\ FitOnePlan(ToSet(out[j]), cz, sm)
        BY <1>3, <3>2
      <3> QED
        BY <2>3, <3>1, <3>2
    <2>5. \A t : t \in G <=> \E j \in 1..n : t \in ToSet(out[j])
      BY <1>6, <1>11, <2>1, <2>2, <2>3
    <2>6. UNION {ToSet(out[j]) : j \in 1..n} = G
      BY <2>5
    <2>7. k + 1 # 0
      OBVIOUS
    <2> QED
      BY <1>1, <1>4, <1>5, <1>9, <2>0, <2>1, <2>4, <2>6, <2>7 DEF Split
  <1>13. CASE Begins(out, B, n, ar, cz, sm)
    <2>0. /\ Len(out) = n + 1 /\ out[n + 1] = <<ar>>
          /\ \A i \in 1..n : out[i] = B[i]
          /\ n > 0 => ~FitOnePlan(ToSet(B[n]) \cup {ar}, cz, sm)
      BY <1>13 DEF Begins
    <2>1. ToSet(out[n + 1]) = {ar} /\ out[n + 1] # <<>>
      BY <2>0, SetOfOne
    <2>2. \A j \in 1..(n + 1) : j = n + 1 \/ (j \in 1..n /\ out[j] = B[j])
      BY <1>4, <2>0
    <2>3. (\A j \in 1..n : j \in 1..(n + 1)) /\ n + 1 \in 1..(n + 1)
      BY <1>4
    <2>4. \A j \in 1..(n + 1) : out[j] # <<>> /\ FitOnePlan(ToSet(out[j]), cz, sm)
      BY <1>3, <2>1, <2>2
    <2>5. \A t : t \in G <=> \E j \in 1..(n + 1) : t \in ToSet(out[j])
      <3>1. ASSUME NEW t \in G PROVE \E j \in 1..(n + 1) : t \in ToSet(out[j])
        <4>1. CASE t = ar
          BY <2>1, <2>3, <4>1
        <4>2. CASE t \in F
          <5>1. PICK j \in 1..n : t \in ToSet(B[j])
            BY <1>11, <4>2
          <5>2. out[j] = B[j] /\ j \in 1..(n + 1)
            BY <2>0, <2>3
          <5> QED
            BY <5>1, <5>2
        <4> QED
          BY <1>6, <3>1, <4>1, <4>2
      <3>2. ASSUME NEW t, NEW j \in 1..(n + 1), t \in ToSet(out[j]) PROVE t \in G
        <4>1. CASE j = n + 1
          BY <1>6, <2>1, <3>2, <4>1
        <4>2. CASE j \in 1..n /\ out[j] = B[j]
          BY <1>6, <1>11, <3>2, <4>2
        <4> QED
          BY <2>2, <4>1, <4>2
      <3> QED
        BY <3>1, <3>2
    <2>6. UNION {ToSet(out[j]) : j \in 1..(n + 1)} = G
      BY <2>5
    <2>7. ASSUME n + 1 > 1 PROVE ~FitOnePlan(G, cz, sm)
      <3>1. n > 0 /\ n \in 1..n
        BY <1>4, <2>7
      <3>2. ToSet(B[n]) \cup {ar} \subseteq G
        BY <1>6, <1>11, <3>1
      <3> QED
        BY <1>8, <2>0, <3>1, <3>2
    <2>8. n + 1 # 0 /\ k + 1 # 0
      BY <1>4
    <2> QED
      BY <1>1, <1>4, <1>5, <2>0, <2>4, <2>6, <2>7, <2>8 DEF Split
  <1> QED
    BY <1>4, <1>12, <1>13

-----------------------------------------------------------------------------
IsSplit(f, areas, cz, sm) ==
    f = [s \in SUBSET DOMAIN areas |->
            IF s = {} THEN <<>> ELSE WithArea(f[s \ {Max(s)}], areas[Max(s)], cz, sm)]

LEMMA BatchesAreFold ==
    ASSUME NEW areas, NEW cz, NEW sm, SplitAreas(areas, cz, sm).ok
    PROVE  /\ SplitAreas(areas, cz, sm).batches = (CHOOSE f : IsSplit(f, areas, cz, sm))[DOMAIN areas]
           /\ \A ar \in ToSet(areas) : /\ OverviewIn(ar, cz, sm).ok /\ CellsIn(ar, cz, sm).ok
                                       /\ FitOnePlan({ar}, cz, sm)
  <1>1. PICK batches : batches = (CHOOSE f : IsSplit(f, areas, cz, sm))[DOMAIN areas]
    OBVIOUS
  <1>2. batches = FoldLeft(LAMBDA so, ar : WithArea(so, ar, cz, sm), <<>>, areas)
    BY <1>1 DEF FoldLeft, MapThenFoldSet, IsSplit
  <1>3. PICK split : split = SplitAreas(areas, cz, sm)
    OBVIOUS
  <1>4. split = IF \E ar \in ToSet(areas) : \/ ~OverviewIn(ar, cz, sm).ok
                                            \/ ~CellsIn(ar, cz, sm).ok
                                            \/ ~FitOnePlan({ar}, cz, sm)
                  THEN Unplanned
                  ELSE [ok |-> TRUE, batches |-> batches]
    BY <1>2, <1>3, Zenon DEF SplitAreas
  <1>5. ~Unplanned.ok
    BY DEF Unplanned
  <1>6. split.ok
    BY <1>3
  <1>7. ~\E ar \in ToSet(areas) : \/ ~OverviewIn(ar, cz, sm).ok
                                \/ ~CellsIn(ar, cz, sm).ok
                                \/ ~FitOnePlan({ar}, cz, sm)
    BY <1>4, <1>5, <1>6, Zenon
  <1>8. split = [ok |-> TRUE, batches |-> batches]
    BY <1>4, <1>7, Zenon
  <1>9. split.batches = batches
    BY <1>8
  <1> QED
    BY <1>1, <1>3, <1>7, <1>9

\* The batches of the first areas, one area after another.
LEMMA SplitStep ==
    ASSUME NEW cz, NEW sm, NEW areas \in Seq(AreaTypes), SplitAreas(areas, cz, sm).ok
    PROVE  \E f : /\ f[0] = <<>>
                  /\ \A k \in 1..Len(areas) : f[k] = WithArea(f[k - 1], areas[k], cz, sm)
                  /\ SplitAreas(areas, cz, sm).batches = f[Len(areas)]
  <1>1. PICK n, V : n = Len(areas) /\ V = Seq(Seq(AreaTypes))
    OBVIOUS
  <1>2. n \in Nat /\ DOMAIN areas = 1..n /\ \A i \in 1..n : areas[i] \in AreaTypes
    BY <1>1, LenProperties, ElementOfSeq
  <1>3. PICK step : step = [p \in (1..n) \X V |-> WithArea(p[2], areas[p[1]], cz, sm)]
    OBVIOUS
  <1>4. step \in [(1..n) \X V -> V]
    <2>1. ASSUME NEW B \in V, NEW i \in 1..n PROVE WithArea(B, areas[i], cz, sm) \in V
      BY <1>1, <1>2, WithAreaShape
    <2> QED
      BY <1>3, <2>1
  <1>5. <<>> \in V
    BY <1>1, EmptySeq
  <1>6. PICK f \in [SUBSET (1..n) -> V] : Steps(f, 1..n, <<>>, step)
    BY <1>2, <1>4, <1>5, StepsExist
  <1>7. ASSUME NEW s \in SUBSET (1..n)
        PROVE  f[s] = IF s = {} THEN <<>> ELSE WithArea(f[s \ {Max(s)}], areas[Max(s)], cz, sm)
    <2>1. CASE s = {}
      BY <1>6, <2>1 DEF Steps
    <2>2. CASE s # {}
      <3>1. PICK m, t : m = Max(s) /\ t = s \ {m}
        OBVIOUS
      <3>2. m \in 1..n /\ t \in SUBSET (1..n)
        BY <1>2, <2>2, <3>1, LargestIsIn
      <3>3. f[t] \in V
        BY <1>6, <3>2
      <3>4. step[<<m, f[t]>>] = WithArea(f[t], areas[m], cz, sm)
        BY <1>3, <3>2, <3>3
      <3> QED
        BY <1>6, <2>2, <3>1, <3>4 DEF Steps
    <2> QED
      BY <2>1, <2>2
  <1>8. IsSplit(f, areas, cz, sm)
    <2>1. f = [s \in SUBSET (1..n) |-> f[s]]
      BY <1>6
    <2>2. [s \in SUBSET (1..n) |-> f[s]]
             = [s \in SUBSET (1..n) |->
                  IF s = {} THEN <<>> ELSE WithArea(f[s \ {Max(s)}], areas[Max(s)], cz, sm)]
      BY <1>7
    <2> QED
      BY <1>2, <2>1, <2>2 DEF IsSplit
  <1>9. PICK g : g = CHOOSE h : IsSplit(h, areas, cz, sm)
    OBVIOUS
  <1>10. IsSplit(g, areas, cz, sm)
    BY <1>8, <1>9
  <1>11. PICK G : G = [k \in 0..n |-> g[1..k]]
    OBVIOUS
  <1>12. G[0] = <<>>
    <2>1. 1..0 = {} /\ 0 \in 0..n /\ {} \in SUBSET (1..n)
      BY <1>2
    <2> QED
      BY <1>2, <1>10, <1>11, <2>1 DEF IsSplit
  <1>13. ASSUME NEW k \in 1..n PROVE G[k] = WithArea(G[k - 1], areas[k], cz, sm)
    <2>1. PICK s, t : s = 1..k /\ t = 1..(k - 1)
      OBVIOUS
    <2>2. k \in Nat /\ 1 <= k /\ k <= n /\ k \in 0..n /\ k - 1 \in 0..n
      BY <1>2
    <2>3. s \in SUBSET (1..n) /\ s # {} /\ Max(s) = k /\ s \ {k} = t
      BY <1>2, <2>1, <2>2, FirstOnes
    <2>4. g[s] = WithArea(g[t], areas[k], cz, sm)
      BY <1>2, <1>10, <2>3 DEF IsSplit
    <2> QED
      BY <1>11, <2>1, <2>2, <2>4
  <1>14. SplitAreas(areas, cz, sm).batches = G[n]
    <2>1. SplitAreas(areas, cz, sm).batches = (CHOOSE h : IsSplit(h, areas, cz, sm))[DOMAIN areas]
      BY BatchesAreFold
    <2>2. SplitAreas(areas, cz, sm).batches = g[DOMAIN areas]
      BY <1>9, <2>1, Zenon
    <2>3. G[n] = g[1..n] /\ n \in 0..n
      BY <1>2, <1>11
    <2> QED
      BY <1>2, <2>2, <2>3
  <1> QED
    BY <1>1, <1>12, <1>13, <1>14

\* The batches of all the areas.
LEMMA SplitAll ==
    ASSUME NEW sm \in Nat, NEW cz \in Nat \ {0}, NEW areas \in Seq(AreaTypes), Areas(ToSet(areas), cz, sm),
           NEW split, split = SplitAreas(areas, cz, sm), split.ok
    PROVE  Split(split.batches, areas, Len(areas), cz, sm)
  <1>1. PICK n : n = Len(areas)
    OBVIOUS
  <1>2. n \in Nat /\ DOMAIN areas = 1..n
    BY <1>1, LenProperties
  <1>3. PICK f : /\ f[0] = <<>>
                 /\ \A k \in 1..n : f[k] = WithArea(f[k - 1], areas[k], cz, sm)
                 /\ split.batches = f[n]
    BY <1>1, SplitStep
  <1>4. \A ar \in ToSet(areas) : FitOnePlan({ar}, cz, sm)
    BY BatchesAreFold
  <1>5. Split(f[0], areas, 0, cz, sm)
    <2>1. PICK B : B = f[0]
      OBVIOUS
    <2>2. B \in Seq(Seq(AreaTypes)) /\ Len(B) = 0 /\ 1..0 = {}
      BY <1>3, <2>1, EmptySeq
    <2>3. FirstAreas(areas, 0) = {}
      BY <2>2 DEF FirstAreas
    <2>4. UNION {ToSet(B[j]) : j \in 1..0} = {}
      BY <2>2
    <2>5. Split(B, areas, 0, cz, sm)
      BY <2>2, <2>3, <2>4 DEF Split
    <2> QED
      BY <2>1, <2>5
  <1>6. ASSUME NEW k \in Nat, k + 1 <= n, Split(f[k], areas, k, cz, sm)
        PROVE  Split(f[k + 1], areas, k + 1, cz, sm)
    <2>1. PICK B, out, ar : B = f[k] /\ out = f[k + 1] /\ ar = areas[k + 1]
      OBVIOUS
    <2>2. k + 1 \in 1..n /\ (k + 1) - 1 = k
      BY <1>2, <1>6
    <2>3. out = WithArea(B, ar, cz, sm)
      BY <1>3, <2>1, <2>2
    <2>4. ar \in ToSet(areas)
      BY <1>2, <2>1, <2>2 DEF ToSet
    <2>5. FitOnePlan({ar}, cz, sm)
      BY <1>4, <2>4
    <2>6. Split(out, areas, k + 1, cz, sm)
      BY <1>1, <1>6, <2>1, <2>3, <2>5, SplitIsKept
    <2> QED
      BY <2>1, <2>6
  <1>7. PICK T : T = {k \in Nat : k <= n /\ ~Split(f[k], areas, k, cz, sm)}
    OBVIOUS
  <1>8. T = {}
    <2>1. SUFFICES ASSUME T # {} PROVE FALSE
      OBVIOUS
    <2>2. T \subseteq Nat
      BY <1>7
    <2>3. PICK m \in T : \A i \in T : m <= i
      BY <2>1, <2>2, LeastNatural
    <2>4. m # 0 /\ m \in Nat /\ m <= n
      BY <1>5, <1>7, <2>3
    <2>5. m - 1 \in Nat /\ m - 1 < m /\ m - 1 <= n /\ (m - 1) + 1 = m /\ (m - 1) + 1 <= n
      BY <1>2, <2>4
    <2>6. m - 1 \notin T
      BY <2>3, <2>5
    <2>7. Split(f[m - 1], areas, m - 1, cz, sm)
      BY <1>7, <2>5, <2>6
    <2>8. PICK k : k = m - 1
      OBVIOUS
    <2>9. Split(f[k + 1], areas, k + 1, cz, sm)
      BY <1>6, <2>5, <2>7, <2>8
    <2>10. Split(f[m], areas, m, cz, sm)
      BY <2>5, <2>8, <2>9
    <2> QED
      BY <1>7, <2>3, <2>10
  <1>9. Split(f[n], areas, n, cz, sm)
    BY <1>2, <1>7, <1>8
  <1> QED
    BY <1>1, <1>3, <1>9

-----------------------------------------------------------------------------
(* An archive whose every directory reads and whose tiles are where they can *)
(* be asked for.                                                             *)
Readable(a) ==
    /\ a.failing = {}
    /\ \A t \in DOMAIN a.index : /\ a.index[t].offset \in Nat
                                 /\ a.index[t].length \in Nat \ {0}
                                 /\ EndOf(a.index[t]) <= LargestOffset

LEMMA GroupIsOk ==
    ASSUME NEW a, Readable(a), NEW refs, NEW limits
    PROVE  PlanGroup(a, refs, limits).ok
  <1>1. PICK missing, located, locations, r :
           /\ missing = refs \ a.held /\ located = missing \cap DOMAIN a.index
           /\ locations = {a.index[t] : t \in located} /\ r = Coalesce(locations, limits)
    OBVIOUS
  <1>2. LargestOffset \in Nat
    BY PlanningAssumption
  <1>3. \A l \in locations : ~(l.length <= 0 \/ l.offset < 0 \/ EndOf(l) > LargestOffset)
    <2> SUFFICES ASSUME NEW t \in located
                 PROVE  LET l == a.index[t] IN ~(l.length <= 0 \/ l.offset < 0 \/ EndOf(l) > LargestOffset)
      BY <1>1
    <2>1. PICK l : l = a.index[t]
      OBVIOUS
    <2>2. l.offset \in Nat /\ l.length \in Nat \ {0} /\ EndOf(l) <= LargestOffset
      BY <1>1, <2>1 DEF Readable
    <2>3. EndOf(l) \in Nat
      BY <2>2 DEF EndOf
    <2> QED
      BY <1>2, <2>1, <2>2, <2>3
  <1>4. r.ok
    <2>1. PICK ranges : ranges = RangesOver(limits, <<Sorted(locations)[1]>>, Tail(Sorted(locations)))
      OBVIOUS
    <2>2. r = IF \E l \in locations : l.length <= 0 \/ l.offset < 0 \/ EndOf(l) > LargestOffset THEN Unplanned
              ELSE IF locations = {} THEN [ok |-> TRUE, ranges |-> <<>>]
              ELSE [ok |-> TRUE, ranges |-> ranges]
      BY <1>1, <2>1, Zenon DEF Coalesce
    <2> QED
      BY <1>3, <2>2
  <1>5. missing \cap a.failing = {}
    BY DEF Readable
  <1>6. PICK g : g = PlanGroup(a, refs, limits)
    OBVIOUS
  <1>7. g = IF missing \cap a.failing # {} \/ ~r.ok THEN Unplanned
            ELSE [ok |-> TRUE, tiles |-> located, ranges |-> r.ranges,
                  held |-> Cardinality(refs \cap a.held), absent |-> Cardinality(missing \ located),
                  transfer |-> TotalBytes(r.ranges), useful |-> UsefulBytes(locations)]
    BY <1>1, <1>6, Zenon DEF PlanGroup
  <1> QED
    BY <1>4, <1>5, <1>6, <1>7

\* A cell no deeper than a pyramid may be has its tiles.
LEMMA CellTilesAreKnown ==
    ASSUME NEW cz \in Nat, cz <= MaxCellZoom, NEW depth \in cz..MaxZoom, depth <= cz + DepthLimit, NEW c
    PROVE  CellTiles(c, cz, depth).ok
  <1>1. MaxZoom \in Nat /\ DepthLimit \in Nat /\ MaxCellZoom \in Nat
    BY TilingAssumption
  <1>2. PICK z : z = [min |-> cz, max |-> depth]
    OBVIOUS
  <1>3. IsZooms(z)
    BY <1>1, <1>2 DEF IsZooms, IsEmpty
  <1>4. ~(cz > MaxCellZoom) /\ ~(z.max > cz + DepthLimit)
    BY <1>1, <1>2
  <1>5. CellTiles(c, cz, depth) = PyramidTiles(c, cz, z)
    BY <1>2 DEF CellTiles
  <1>6. PyramidTiles(c, cz, z).ok
    BY <1>3, <1>4 DEF PyramidTiles
  <1> QED
    BY <1>5, <1>6

LEMMA GroupsAreOk ==
    ASSUME NEW a, Readable(a), NEW req, NEW cz \in Nat, cz = req.cellZoom, cz <= MaxCellZoom,
           NEW overview, NEW D, IsFiniteSet(D), D \subseteq Grid(cz), NEW depths \in [D -> cz..MaxZoom],
           \A c \in D : depths[c] <= cz + DepthLimit
    PROVE  PlanGroups(a, req, overview, depths).ok
  <1>1. DOMAIN depths = D
    OBVIOUS
  <1>2. PICK s, n : s = InRows(D) /\ n = Cardinality(D)
    OBVIOUS
  <1>3. D \subseteq [x: Nat, y: Nat]
    BY GridIsNatural
  <1>4. s \in Seq(D) /\ n \in Nat /\ DOMAIN s = 1..n
    <2>1. ListsAll(s, D, n)
      BY <1>2, <1>3, RowsAreList
    <2>2. s \in Seq(D) /\ Len(s) = n /\ n \in Nat
      BY <2>1 DEF ListsAll
    <2> QED
      BY <2>2
  <1>5. PICK first, above, below, groups :
           /\ first = PlanGroup(a, overview, req.limits)
           /\ above = IF overview = {} THEN <<>> ELSE <<first>>
           /\ below = [i \in DOMAIN s |-> PlanGroup(a, CellTiles(s[i], cz, depths[s[i]]).tiles, req.limits)]
           /\ groups = above \o below
    OBVIOUS
  <1>6. PICK V : V = {first} \cup {below[i] : i \in 1..n}
    OBVIOUS
  <1>7. \A g \in V : g.ok
    <2>1. first.ok
      BY <1>5, GroupIsOk
    <2>2. \A i \in 1..n : below[i].ok
      BY <1>4, <1>5, GroupIsOk
    <2> QED
      BY <1>6, <2>1, <2>2
  <1>8. above \in Seq(V)
    <2>1. first \in V
      BY <1>6
    <2>2. <<first>> \in Seq(V) /\ <<>> \in Seq(V)
      BY <2>1
    <2> QED
      BY <1>5, <2>2
  <1>9. below \in Seq(V)
    <2>1. below \in [1..n -> V]
      BY <1>4, <1>5, <1>6
    <2> QED
      BY <1>4, <2>1
  <1>10. groups \in Seq(V)
    BY <1>5, <1>8, <1>9, ConcatProperties
  <1>11. \A i \in DOMAIN groups : groups[i].ok
    BY <1>7, <1>10, MemberIs
  <1>12. \A c \in DOMAIN depths : CellTiles(c, cz, depths[c]).ok
    BY <1>1, CellTilesAreKnown
  <1>13. PICK zoom, total, shallow, toFetch :
           /\ shallow = RangeOf(overview) /\ total = Total(groups)
           /\ zoom = IF s = <<>> THEN EmptyZoom
                     ELSE [min |-> cz, max |-> Max({depths[c] : c \in DOMAIN depths})]
           /\ toFetch = Cardinality({i \in DOMAIN below : below[i].tiles # {}})
    OBVIOUS
  <1>14. PICK p : p = PlanGroups(a, req, overview, depths)
    OBVIOUS
  <1>15. s = InRows(DOMAIN depths)
    BY <1>1, <1>2
  <1>16. p = IF \/ \E c \in DOMAIN depths : ~CellTiles(c, cz, depths[c]).ok
                \/ \E i \in DOMAIN groups : ~groups[i].ok
              THEN Unplanned
              ELSE [ok |-> TRUE, groups |-> groups, overview |-> shallow, total |-> total, zoom |-> zoom,
                    cellsToFetch |-> toFetch]
    BY <1>5, <1>13, <1>14, <1>15, Zenon DEF PlanGroups, CellTiles, InRows
  <1> QED
    BY <1>11, <1>12, <1>14, <1>16

\* Areas whose ground is known, and that fit, are planned.
LEMMA FittingAreasPlan ==
    ASSUME NEW a, Readable(a), NEW req, NEW cz \in 1..MaxCellZoom, cz = req.cellZoom,
           IsZooms(req.source), NEW sm \in Nat, sm = req.source.max, sm <= cz + DepthLimit,
           NEW A, A = ToSet(req.areas), req.areas # <<>>, Areas(A, cz, sm)
    PROVE  PlanFor(a, req).ok <=> FitOnePlan(A, cz, sm)
  <1>1. MaxCellZoom \in Nat /\ MaxZoom \in Nat /\ DepthLimit \in Nat /\ ~Unplanned.ok
    BY TilingAssumption DEF Unplanned
  <1>2. cz \in Nat \ {0} /\ cz \in Nat /\ cz <= MaxCellZoom /\ sm <= MaxZoom
    BY <1>1 DEF IsZooms
  <1>3. PICK overview, D, depths, p : /\ overview = OverviewOf(A, cz, sm) /\ D = AllCells(A, cz, sm)
                                      /\ depths = DepthsOf(A, cz, sm) /\ p = PlanFor(a, req)
    OBVIOUS
  <1>4. p = IF \/ cz \notin 1..MaxCellZoom \/ ~IsZooms(req.source)
               \/ \E ar \in A : ~AreaKnown(ar, cz, sm)
               \/ Cardinality(overview) > MaxOverviewTiles
               \/ Cardinality(D) > MaxPlanCells
              THEN Unplanned
              ELSE PlanGroups(a, req, overview, depths)
    BY <1>3, AreasPlan
  <1>5. \A ar \in A : AreaKnown(ar, cz, sm)
    BY DEF Areas
  <1>6. IsFiniteSet(overview) /\ IsFiniteSet(D) /\ D \subseteq Grid(cz)
    BY <1>2, <1>3, AreasAreFinite
  <1>7. depths \in [D -> cz..MaxZoom] /\ \A c \in D : depths[c] <= sm
    BY <1>2, <1>3, DepthsAreDeepest
  <1>8. \A c \in D : depths[c] <= cz + DepthLimit
    <2>1. \A c \in D : depths[c] \in Nat
      BY <1>1, <1>2, <1>7
    <2> QED
      BY <1>1, <1>2, <1>7, <2>1
  <1>9. PlanGroups(a, req, overview, depths).ok
    BY <1>2, <1>6, <1>7, <1>8, GroupsAreOk
  <1>10. /\ Cardinality(overview) \in Nat /\ Cardinality(D) \in Nat
         /\ MaxOverviewTiles \in Nat /\ MaxPlanCells \in Nat
    BY <1>6, FS_CardinalityType, PlanningAssumption
  <1>11. FitOnePlan(A, cz, sm) <=> ~(Cardinality(overview) > MaxOverviewTiles) /\ ~(Cardinality(D) > MaxPlanCells)
    BY <1>3, <1>10 DEF FitOnePlan, OverviewOf, AllCells
  <1> QED
    BY <1>1, <1>3, <1>4, <1>5, <1>9, <1>11

\* Areas that do not fit one plan are taken by several: each of those is one the
\* store can take, and together they take what one plan with no limit would
\* (SplitAreas, acquire/areas.go).  No archive is deeper below its cells than a
\* pyramid may be.
THEOREM AreasAreSplit ==
    ASSUME NEW a, Readable(a), NEW req \in PlanRequests, req.cellZoom \in 1..MaxCellZoom,
           IsZooms(req.source), req.source.max <= req.cellZoom + DepthLimit,
           \A ar \in ToSet(req.areas) : OnMap(ar.bounds)
    PROVE  AreasArePlanned(a, req)
  <1>1. PICK areas, cz, sm, A, split, B : /\ areas = req.areas /\ cz = req.cellZoom /\ sm = req.source.max
                                          /\ A = ToSet(areas) /\ split = SplitAreas(areas, cz, sm)
                                          /\ B = split.batches
    OBVIOUS
  <1>2. MaxCellZoom \in Nat /\ MaxZoom \in Nat /\ DepthLimit \in Nat
    BY TilingAssumption
  <1>3. /\ areas \in Seq(AreaTypes) /\ sm \in Nat /\ sm <= MaxZoom /\ sm <= cz + DepthLimit
        /\ cz \in 1..MaxCellZoom /\ cz \in Nat \ {0} /\ IsZooms(req.source)
    BY <1>1, <1>2 DEF PlanRequests, AreaTypes, IsZooms
  <1>4. PICK plans, n : n = Len(B) /\ plans = [i \in DOMAIN B |-> PlanFor(a, [req EXCEPT !.areas = B[i]])]
    OBVIOUS
  <1>5. SUFFICES ASSUME split.ok, areas # <<>>, \A i \in DOMAIN areas : ValidBounds(areas[i].bounds)
                 PROVE  /\ \A i \in DOMAIN plans : plans[i].ok
                        /\ UNION {Takes(plans[i]) : i \in DOMAIN plans}
                              = (TilesForAll(req) \ a.held) \cap DOMAIN a.index
                        /\ PlanFor(a, req).ok <=> Len(plans) <= 1
    <2> DEFINE S == SplitAreas(req.areas, req.cellZoom, req.source.max)
               P == [i \in DOMAIN S.batches |-> PlanFor(a, [req EXCEPT !.areas = S.batches[i]])]
    <2>1. S = split /\ P = plans
      BY <1>1, <1>4
    <2>2. \/ ~S.ok \/ req.areas = <<>> \/ ~\A i \in DOMAIN req.areas : ValidBounds(req.areas[i].bounds)
          \/ /\ \A i \in DOMAIN P : P[i].ok
             /\ UNION {Takes(P[i]) : i \in DOMAIN P} = (TilesForAll(req) \ a.held) \cap DOMAIN a.index
             /\ PlanFor(a, req).ok <=> Len(P) <= 1
      <3> HIDE DEF S, P
      <3> QED
        BY <1>1, <1>5, <2>1
    <2>3. AreasArePlanned(a, req)
             <=> (S.ok /\ req.areas # <<>> /\ a.failing = {}
                  /\ (\A i \in DOMAIN req.areas : ValidBounds(req.areas[i].bounds)) =>
                     /\ \A i \in DOMAIN P : P[i].ok
                     /\ UNION {Takes(P[i]) : i \in DOMAIN P} = (TilesForAll(req) \ a.held) \cap DOMAIN a.index
                     /\ PlanFor(a, req).ok <=> Len(P) <= 1)
      BY Zenon DEF AreasArePlanned
    <2> HIDE DEF S, P
    <2> QED
      BY <2>2, <2>3
  <1>6. Areas(A, cz, sm)
    <2>1. \A ar \in A : ValidBounds(ar.bounds)
      BY <1>1, <1>5 DEF ToSet
    <2>2. \A ar \in A : OverviewIn(ar, cz, sm).ok /\ CellsIn(ar, cz, sm).ok
      BY <1>1, <1>5, BatchesAreFold
    <2>3. \A ar \in A : OnMap(ar.bounds)
      BY <1>1
    <2>4. IsFiniteSet(A) /\ A \subseteq AreaTypes
      BY <1>1, <1>3, AreasOfRequest
    <2> QED
      BY <2>1, <2>2, <2>3, <2>4 DEF Areas, AreaKnown
  <1>7. PICK m : m = Len(areas)
    OBVIOUS
  <1>8. m \in Nat /\ m # 0 /\ DOMAIN areas = 1..m
    BY <1>3, <1>5, <1>7, EmptySeq, LenProperties
  <1>9. FirstAreas(areas, m) = A
    BY <1>1, <1>8 DEF FirstAreas, ToSet
  <1>10. Split(B, areas, m, cz, sm)
    BY <1>1, <1>3, <1>5, <1>6, <1>7, SplitAll
  <1>11. /\ B \in Seq(Seq(AreaTypes)) /\ \A j \in 1..n : B[j] # <<>> /\ FitOnePlan(ToSet(B[j]), cz, sm)
         /\ UNION {ToSet(B[j]) : j \in 1..n} = A
         /\ n # 0
         /\ n > 1 => ~FitOnePlan(A, cz, sm)
    BY <1>4, <1>8, <1>9, <1>10 DEF Split
  <1>12. n \in Nat /\ DOMAIN B = 1..n /\ DOMAIN plans = 1..n /\ Len(plans) = n
    <2>1. n \in Nat /\ DOMAIN B = 1..n
      BY <1>4, <1>11, LenProperties
    <2> QED
      BY <1>4, <2>1
  <1>13. ASSUME NEW i \in 1..n
         PROVE  /\ plans[i].ok
                /\ Takes(plans[i]) = (Asked(ToSet(B[i]), cz, sm) \ a.held) \cap DOMAIN a.index
    <2>1. PICK q, b, T : q = [req EXCEPT !.areas = b] /\ b = B[i] /\ T = ToSet(b)
      OBVIOUS
    <2>2. b \in Seq(AreaTypes) /\ b # <<>> /\ FitOnePlan(T, cz, sm)
      <3>1. b \in Seq(AreaTypes)
        BY <1>11, <1>12, <2>1, MemberIs
      <3> QED
        BY <1>11, <2>1, <3>1
    <2>3. /\ q \in PlanRequests /\ q.areas = b /\ q.cellZoom = cz /\ q.source = req.source
          /\ q.source.max = sm
      BY <1>1, <2>1, <2>2 DEF PlanRequests, AreaTypes
    <2>4. T \subseteq A
      BY <1>11, <2>1
    <2>5. Areas(T, cz, sm)
      BY <1>6, <2>4, FS_Subset DEF Areas
    <2>6. PlanFor(a, q).ok
      <3>1. cz = q.cellZoom /\ sm = q.source.max /\ T = ToSet(q.areas) /\ q.areas # <<>> /\ IsZooms(q.source)
        BY <1>3, <2>1, <2>2, <2>3
      <3> QED
        BY <1>3, <2>2, <2>5, <3>1, FittingAreasPlan
    <2>7. \A ar \in ToSet(q.areas) : OnMap(ar.bounds)
      BY <2>1, <2>3, <2>5 DEF Areas
    <2>8. PlanTakes(a, PlanFor(a, q), TilesForAll(q))
      BY <2>2, <2>3, <2>6, <2>7, SeveralAreasArePlanned DEF WholeIsPlanned
    <2>9. TilesForAll(q) = Asked(T, cz, sm)
      BY <2>1, <2>3 DEF TilesForAll, Asked
    <2>10. plans[i] = PlanFor(a, q)
      BY <1>4, <1>12, <2>1
    <2> QED
      BY <2>1, <2>6, <2>8, <2>9, <2>10 DEF PlanTakes
  <1>14. UNION {Takes(plans[i]) : i \in 1..n} = (TilesForAll(req) \ a.held) \cap DOMAIN a.index
    <2>1. PICK asked : asked = [ar \in A |-> TilesFor(ar.bounds, cz, [max |-> DepthIn(ar, sm), world |-> FALSE])]
      OBVIOUS
    <2>2. \A t : t \in TilesForAll(req) <=> \E ar \in A : t \in asked[ar]
      BY <1>1, <2>1 DEF TilesForAll
    <2>3. \A i \in 1..n : ToSet(B[i]) \subseteq A
      BY <1>11
    <2>4. \A i \in 1..n : \A t : t \in Asked(ToSet(B[i]), cz, sm) <=> \E ar \in ToSet(B[i]) : t \in asked[ar]
      BY <2>1, <2>3 DEF Asked
    <2>5. \A ar \in A : \E i \in 1..n : ar \in ToSet(B[i])
      BY <1>11
    <2>6. PICK need : need = (TilesForAll(req) \ a.held) \cap DOMAIN a.index
      OBVIOUS
    <2>7. ASSUME NEW i \in 1..n, NEW t \in Takes(plans[i]) PROVE t \in need
      <3>1. t \in Asked(ToSet(B[i]), cz, sm) /\ t \notin a.held /\ t \in DOMAIN a.index
        BY <1>13, <2>7
      <3>2. t \in TilesForAll(req)
        BY <2>2, <2>3, <2>4, <3>1
      <3> QED
        BY <2>6, <3>1, <3>2
    <2>8. ASSUME NEW t \in need PROVE \E i \in 1..n : t \in Takes(plans[i])
      <3>1. PICK ar \in A : t \in asked[ar]
        BY <2>2, <2>6, <2>8
      <3>2. PICK i \in 1..n : ar \in ToSet(B[i])
        BY <2>5
      <3>3. t \in Asked(ToSet(B[i]), cz, sm)
        BY <2>4, <3>1, <3>2
      <3>4. t \in Takes(plans[i])
        BY <1>13, <2>6, <2>8, <3>3
      <3> QED
        BY <3>4
    <2> QED
      BY <2>6, <2>7, <2>8
  <1>15. PlanFor(a, req).ok <=> n <= 1
    <2>1. PlanFor(a, req).ok <=> FitOnePlan(A, cz, sm)
      BY <1>1, <1>3, <1>5, <1>6, FittingAreasPlan
    <2>2. n <= 1 => FitOnePlan(A, cz, sm)
      <3> SUFFICES ASSUME n <= 1 PROVE FitOnePlan(A, cz, sm)
        OBVIOUS
      <3>1. n = 1
        BY <1>11, <1>12
      <3>2. \A j \in 1..n : j = 1
        BY <3>1
      <3>3. 1 \in 1..n
        BY <3>1
      <3>4. A = ToSet(B[1])
        BY <1>11, <3>2, <3>3
      <3> QED
        BY <1>11, <3>3, <3>4
    <2> QED
      BY <1>11, <1>12, <2>1, <2>2
  <1> QED
    BY <1>12, <1>13, <1>14, <1>15
==============================================================================
