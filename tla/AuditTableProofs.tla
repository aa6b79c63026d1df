-------------------------- MODULE AuditTableProofs --------------------------
(***************************************************************************)
(* Proofs about AuditTable and the modules it extends, for all zones,      *)
(* local times, texts and reports: what _localize_to_utc does around a     *)
(* change of offset, which rows dedup_hash tells apart, and what the table *)
(* holds after any sequence of runs.                                       *)
(***************************************************************************)
EXTENDS AuditTable, SequenceTheorems, WellFoundedInduction, FiniteSetTheorems, TLAPS

-----------------------------------------------------------------------------
(* Local times *)

\* The reading that is tried is the earlier of the two there may be.
LEMMA FoldZeroIsEarlier ==
  ASSUME NEW z \in Zone, NEW n \in Int, NEW u \in Int, Local(z, u) = n
  PROVE  /\ n - FoldZero(z, n) \in Int
         /\ n - FoldZero(z, n) <= u
         /\ Local(z, n - FoldZero(z, n)) = n
<1>1. z.at \in Int /\ z.before \in Int /\ z.after \in Int
  BY DEF Zone
<1>. QED  BY <1>1 DEF Local, Offset, FoldZero

\* An accepted local time is the local time of the UTC instant it becomes, and
\* of no earlier one: _localize_to_utc never shifts an event, and takes fold=0.
THEOREM LocalizeIsEarliest ==
  ASSUME NEW z \in Zone, NEW n \in Int, Localize(z, n) # Malformed
  PROVE  /\ Localize(z, n) \in Int
         /\ Local(z, Localize(z, n)) = n
         /\ \A u \in Int : Local(z, u) = n => Localize(z, n) <= u
<1>1. z.at \in Int /\ z.before \in Int /\ z.after \in Int
  BY DEF Zone
<1>2. Localize(z, n) = n - FoldZero(z, n) /\ Local(z, n - FoldZero(z, n)) = n
  BY DEF Localize
<1>3. n - FoldZero(z, n) \in Int
  BY <1>1 DEF FoldZero
<1>. QED  BY <1>2, <1>3, FoldZeroIsEarlier

\* A local time is refused exactly when no instant has it, which is when it
\* lies in the gap of a spring-forward change.
THEOREM RefusedExactlyInGap ==
  ASSUME NEW z \in Zone, NEW n \in Int
  PROVE  /\ Localize(z, n) = Malformed <=> \A u \in Int : Local(z, u) # n
         /\ Localize(z, n) = Malformed <=> Skipped(z, n)
<1>1. z.at \in Int /\ z.before \in Int /\ z.after \in Int
  BY DEF Zone
<1>2. n - FoldZero(z, n) \in Int
  BY <1>1 DEF FoldZero
<1>3. Localize(z, n) = Malformed <=> Local(z, n - FoldZero(z, n)) # n
  BY <1>2, MalformedAssumption DEF Localize
<1>4. Localize(z, n) = Malformed <=> \A u \in Int : Local(z, u) # n
  BY <1>2, <1>3, FoldZeroIsEarlier
<1>5. Localize(z, n) = Malformed <=> Skipped(z, n)
  BY <1>1, <1>3 DEF Local, Offset, FoldZero, Skipped
<1>. QED  BY <1>4, <1>5

\* Distinct local times of a report stay distinct instants.
THEOREM LocalizeInjective ==
  ASSUME NEW z \in Zone, NEW m \in Int, NEW n \in Int,
         Localize(z, m) # Malformed, Localize(z, m) = Localize(z, n)
  PROVE  m = n
BY LocalizeIsEarliest

\* An event at instant u, listed by BlueWeb under its local time, is stored
\* under u itself, unless that time is ambiguous and u is its second instant.
THEOREM EventKeepsItsInstant ==
  ASSUME NEW z \in Zone, NEW u \in Int
  PROVE  \/ Localize(z, Local(z, u)) = u
         \/ /\ Ambiguous(z, Local(z, u))
            /\ Localize(z, Local(z, u)) = u - (z.before - z.after)
<1>1. z.at \in Int /\ z.before \in Int /\ z.after \in Int
  BY DEF Zone
<1>. QED  BY <1>1 DEF Localize, Local, Offset, FoldZero, Ambiguous
-----------------------------------------------------------------------------
(* Least and greatest elements *)

Less == {p \in Nat \X Nat : p[1] < p[2]}

LEMMA LeastElement ==
  ASSUME NEW S \in SUBSET Nat, S # {}
  PROVE  \E m \in S : \A x \in S : m <= x
<1>1. IsWellFoundedOn(Less, Nat)
  BY NatLessThanWellFounded DEF OpToRel, Less
<1>2. PICK m \in S : \A x \in S : <<x, m>> \notin Less
  BY <1>1, WFMin, Zenon
<1>3. m \in Nat /\ \A x \in S : x \in Nat
  OBVIOUS
<1>4. ASSUME NEW x \in S PROVE m <= x
  <2>1. <<x, m>> \in Nat \X Nat /\ <<x, m>>[1] = x /\ <<x, m>>[2] = m
    BY <1>3
  <2>2. ~(x < m)
    BY <1>2, <2>1 DEF Less
  <2> QED BY <2>2, <1>3
<1> QED BY <1>4

LEMMA GreatestElement ==
  ASSUME NEW n \in Nat, NEW S \in SUBSET (0..n), S # {}
  PROVE  \E m \in S : \A x \in S : x <= m
<1> DEFINE T == {n - x : x \in S}
<1>1. \A x \in S : x \in 0..n /\ n - x \in Nat
  OBVIOUS
<1>2. T \in SUBSET Nat /\ T # {}
  BY <1>1
<1>3. PICK k \in T : \A y \in T : k <= y
  BY <1>2, LeastElement
<1>4. PICK m \in S : k = n - m
  BY <1>3
<1>5. \A x \in S : n - m <= n - x
  BY <1>3, <1>4
<1>6. \A x \in S : x <= m
  BY <1>1, <1>4, <1>5
<1> QED BY <1>6

-----------------------------------------------------------------------------
(* Stripping *)

LEMMA StripType == ASSUME NEW text \in Seq(Chars) PROVE Strip(text) \in Seq(Chars)
<1> DEFINE ink == {i \in 1..Len(text) : text[i] # Blank}
<1>1. CASE ink = {}
  BY <1>1 DEF Strip
<1>2. CASE ink # {}
  <2>1. Len(text) \in Nat /\ ink \in SUBSET Nat /\ ink \in SUBSET (0..Len(text))
    OBVIOUS
  <2>2. \E m \in ink : \A x \in ink : m <= x
    BY <2>1, <1>2, LeastElement
  <2>3. \E m \in ink : \A x \in ink : x <= m
    BY <2>1, <1>2, GreatestElement
  <2>4. Min(ink) \in ink
    BY <2>2 DEF Min
  <2>5. \E m \in ink : \A x \in ink : m >= x
    BY <2>1, <2>3
  <2>6. Max(ink) \in ink
    BY <2>5 DEF Max
  <2>7. Min(ink) \in 1..Len(text) /\ Max(ink) \in 1..Len(text)
    BY <2>4, <2>6
  <2>8. SubSeq(text, Min(ink), Max(ink)) \in Seq(Chars)
    <3>1. \A i \in Min(ink)..Max(ink) : text[i] \in Chars
      BY <2>7
    <3> QED BY <2>7, <3>1, SubSeqProperties
  <2> QED BY <2>8, <1>2 DEF Strip
<1> QED BY <1>1, <1>2

-----------------------------------------------------------------------------
(* Joining *)

\* Everything a hash is made of.
Items == Chars \cup Int \cup {"card_number", "facility_code"}

LEMMA ItemsFacts == Sep \in Items /\ Chars \subseteq Items /\ Int \subseteq Items
BY CharsAssumption DEF Items

JoinIs(w, u, s) ==
  /\ w \in Seq(Items)
  /\ Len(w) = Len(u) + 1 + Len(s)
  /\ Len(u) \in Nat /\ Len(s) \in Nat
  /\ \A i \in 1..Len(u) : w[i] = u[i]
  /\ w[Len(u) + 1] = Sep
  /\ \A i \in 1..Len(s) : w[Len(u) + 1 + i] = s[i]

LEMMA JoinFacts ==
  ASSUME NEW u \in Seq(Items), NEW s \in Seq(Items)
  PROVE  JoinIs(Join(u, s), u, s) /\ Join(u, s) \in Seq(Items)
<1>1. Sep \in Items /\ Len(u) \in Nat /\ Len(s) \in Nat
  BY ItemsFacts
<1>2. /\ u \o <<Sep>> \in Seq(Items) /\ Len(u \o <<Sep>>) = Len(u) + 1
      /\ \A i \in 1..Len(u) : (u \o <<Sep>>)[i] = u[i]
      /\ (u \o <<Sep>>)[Len(u) + 1] = Sep
  BY <1>1
<1> DEFINE v == u \o <<Sep>>
<1>3. Join(u, s) = v \o s
  BY DEF Join
<1>4. v \in Seq(Items) /\ Len(v) = Len(u) + 1
  BY <1>2
<1> HIDE DEF v
<1>5. /\ v \o s \in Seq(Items) /\ Len(v \o s) = Len(v) + Len(s)
      /\ \A i \in 1..Len(v) : (v \o s)[i] = v[i]
      /\ \A i \in 1..Len(s) : (v \o s)[Len(v) + i] = s[i]
  BY <1>4
<1>6. 1..Len(u) \subseteq 1..Len(v) /\ Len(u) + 1 \in 1..Len(v)
  BY <1>1, <1>4
<1>7. (\A i \in 1..Len(u) : v[i] = u[i]) /\ v[Len(u) + 1] = Sep
  BY <1>2 DEF v
<1> QED BY <1>1, <1>3, <1>4, <1>5, <1>6, <1>7 DEF JoinIs

Free(u) == \A i \in 1..Len(u) : u[i] # Sep

LEMMA SepsOfJoin ==
  ASSUME NEW u, NEW s, NEW w, JoinIs(w, u, s), Free(u)
  PROVE  \A i \in 1..Len(w) : w[i] = Sep =>
           i = Len(u) + 1 \/ (i - (Len(u) + 1) \in 1..Len(s) /\ s[i - (Len(u) + 1)] = Sep)
<1> SUFFICES ASSUME NEW i \in 1..Len(w), w[i] = Sep
             PROVE  i = Len(u) + 1 \/ (i - (Len(u) + 1) \in 1..Len(s) /\ s[i - (Len(u) + 1)] = Sep)
  OBVIOUS
<1>1. Len(u) \in Nat /\ Len(s) \in Nat /\ i \in 1..Len(u) + 1 + Len(s)
  BY DEF JoinIs
<1>2. i \notin 1..Len(u)
  BY DEF JoinIs, Free
<1>3. CASE i > Len(u) + 1
  <2>1. i - (Len(u) + 1) \in 1..Len(s) /\ i = Len(u) + 1 + (i - (Len(u) + 1))
    BY <1>1, <1>3
  <2>2. w[i] = s[i - (Len(u) + 1)]
    BY <2>1 DEF JoinIs
  <2> QED BY <2>1, <2>2
<1> QED BY <1>1, <1>2, <1>3

\* Two ways to join one text at one place have the same parts.
LEMMA JoinCancel ==
  ASSUME NEW u \in Seq(Items), NEW s \in Seq(Items), NEW v \in Seq(Items), NEW t \in Seq(Items),
         NEW w, JoinIs(w, u, s), JoinIs(w, v, t), Len(u) = Len(v)
  PROVE  u = v /\ s = t
<1>1. Len(s) = Len(t)
  BY DEF JoinIs
<1>2. \A i \in 1..Len(u) : u[i] = v[i]
  BY DEF JoinIs
<1>3. \A i \in 1..Len(s) : s[i] = t[i]
  BY <1>1 DEF JoinIs
<1>4. u = v
  BY <1>2, SeqEqual
<1>5. s = t
  BY <1>1, <1>3, SeqEqual
<1> QED BY <1>4, <1>5

-----------------------------------------------------------------------------
(* The hash *)

Row == [ts : Int, operation : Seq(Chars), instance : Seq(Chars), userId : Seq(Chars),
        userName : Seq(Chars), extra : Seq(Items)]

LEMMA TextsAreItems == Seq(Chars) \subseteq Seq(Items)
BY ItemsFacts, SeqMonotonic

SepOf(w, i) == i \in 1..Len(w) /\ w[i] = Sep

LEMMA SepAt ==
  ASSUME NEW w, NEW u, NEW s, JoinIs(w, u, s)
  PROVE  SepOf(w, Len(u) + 1)
BY DEF JoinIs, SepOf

LEMMA SepInside ==
  ASSUME NEW w, NEW u, NEW s, JoinIs(w, u, s), NEW i, SepOf(s, i)
  PROVE  SepOf(w, Len(u) + 1 + i)
<1>1. Len(u) \in Nat /\ Len(s) \in Nat /\ Len(w) = Len(u) + 1 + Len(s) /\ i \in 1..Len(s)
  BY DEF JoinIs, SepOf
<1>2. Len(u) + 1 + i \in 1..Len(w)
  BY <1>1
<1>3. w[Len(u) + 1 + i] = s[i]
  BY <1>1 DEF JoinIs
<1> QED BY <1>2, <1>3 DEF SepOf

\* Five lengths, the places of the separators between them, and the length of all.
Marks(n1, n2, n3, n4, n5, p1, p2, p3, p4, w) ==
  /\ n1 \in Nat /\ n2 \in Nat /\ n3 \in Nat /\ n4 \in Nat /\ n5 \in Nat
  /\ p1 = n1 + 1 /\ p2 = p1 + n2 + 1 /\ p3 = p2 + n3 + 1 /\ p4 = p3 + n4 + 1
  /\ w = p4 + n5

InOrder(p1, p2, p3, p4) ==
  /\ p1 \in Nat /\ p2 \in Nat /\ p3 \in Nat /\ p4 \in Nat
  /\ p1 < p2 /\ p2 < p3 /\ p3 < p4

LEMMA MarksFacts ==
  ASSUME NEW n1, NEW n2, NEW n3, NEW n4, NEW n5, NEW p1, NEW p2, NEW p3, NEW p4, NEW w,
         Marks(n1, n2, n3, n4, n5, p1, p2, p3, p4, w)
  PROVE  /\ InOrder(p1, p2, p3, p4)
         /\ n1 + 1 = p1
         /\ n1 + 1 + (n2 + 1) = p2
         /\ n1 + 1 + (n2 + 1 + (n3 + 1)) = p3
         /\ n1 + 1 + (n2 + 1 + (n3 + 1 + (n4 + 1))) = p4
<1>1. InOrder(p1, p2, p3, p4)
  BY DEF Marks, InOrder
<1>2. n1 + 1 = p1 /\ n1 + 1 + (n2 + 1) = p2 /\ n1 + 1 + (n2 + 1 + (n3 + 1)) = p3
  BY DEF Marks
<1>3. n1 + 1 + (n2 + 1 + (n3 + 1 + (n4 + 1))) = p4
  BY DEF Marks
<1> QED BY <1>1, <1>2, <1>3

LEMMA MarksTell ==
  ASSUME NEW n1, NEW n2, NEW n3, NEW n4, NEW n5, NEW m1, NEW m2, NEW m3, NEW m4, NEW m5,
         NEW p1, NEW p2, NEW p3, NEW p4, NEW w,
         Marks(n1, n2, n3, n4, n5, p1, p2, p3, p4, w),
         Marks(m1, m2, m3, m4, m5, p1, p2, p3, p4, w)
  PROVE  n1 = m1 /\ n2 = m2 /\ n3 = m3 /\ n4 = m4
<1>1. n1 = m1 /\ n2 = m2
  BY DEF Marks
<1>2. n3 = m3 /\ n4 = m4
  BY DEF Marks
<1> QED BY <1>1, <1>2

\* Four places among four places, both in order, are the same places.
LEMMA SamePlaces ==
  ASSUME NEW p1, NEW p2, NEW p3, NEW p4, NEW q1, NEW q2, NEW q3, NEW q4,
         InOrder(p1, p2, p3, p4), InOrder(q1, q2, q3, q4),
         q1 \in {p1, p2, p3, p4}, q2 \in {p1, p2, p3, p4},
         q3 \in {p1, p2, p3, p4}, q4 \in {p1, p2, p3, p4}
  PROVE  q1 = p1 /\ q2 = p2 /\ q3 = p3 /\ q4 = p4
BY DEF InOrder

LEMMA NestedLengths ==
  ASSUME NEW n1 \in Nat, NEW n2 \in Nat, NEW n3 \in Nat, NEW n4 \in Nat, NEW n5 \in Nat,
         NEW w, NEW m2, NEW m3, NEW m4,
         w = n1 + 1 + m2, m2 = n2 + 1 + m3, m3 = n3 + 1 + m4, m4 = n4 + 1 + n5
  PROVE  /\ w \in Nat
         /\ w = n1 + 1 + n2 + 1 + n3 + 1 + n4 + 1 + n5
         /\ m2 = w - (n1 + 1) /\ m3 = w - (n1 + 1 + n2 + 1) /\ m4 = w - (n1 + 1 + n2 + 1 + n3 + 1)
OBVIOUS

\* The four separators in a text of five parts stand at the ends of the first four;
\* in another text of five parts joined to the same there are no others to be had.
Texts(r) == /\ r.operation \in Seq(Items) /\ r.instance \in Seq(Items)
            /\ r.userId \in Seq(Items) /\ r.userName \in Seq(Items)
            /\ r.extra \in Seq(Items)

NoSeparator(r) == /\ Free(r.operation) /\ Free(r.instance) /\ Free(r.userId)
                  /\ Free(r.userName) /\ Free(r.extra)

Joined(r) == Join(r.operation, Join(r.instance, Join(r.userId, Join(r.userName, r.extra))))

LEMMA FourJoins ==
  ASSUME NEW a, NEW b, Texts(a), Texts(b), NoSeparator(a), Joined(a) = Joined(b)
  PROVE  /\ a.operation = b.operation /\ a.instance = b.instance /\ a.userId = b.userId
         /\ a.userName = b.userName /\ a.extra = b.extra
<1> DEFINE u1 == a.operation
           u2 == a.instance
           u3 == a.userId
           u4 == a.userName
           u5 == a.extra
           v1 == b.operation
           v2 == b.instance
           v3 == b.userId
           v4 == b.userName
           v5 == b.extra
<1>a. /\ u1 \in Seq(Items) /\ u2 \in Seq(Items) /\ u3 \in Seq(Items)
      /\ u4 \in Seq(Items) /\ u5 \in Seq(Items)
      /\ v1 \in Seq(Items) /\ v2 \in Seq(Items) /\ v3 \in Seq(Items)
      /\ v4 \in Seq(Items) /\ v5 \in Seq(Items)
  BY DEF Texts
<1>b. Free(u1) /\ Free(u2) /\ Free(u3) /\ Free(u4) /\ Free(u5)
  BY DEF NoSeparator
<1>c. Join(u1, Join(u2, Join(u3, Join(u4, u5)))) = Join(v1, Join(v2, Join(v3, Join(v4, v5))))
  BY DEF Joined
<1>d. SUFFICES u1 = v1 /\ u2 = v2 /\ u3 = v3 /\ u4 = v4 /\ u5 = v5
  OBVIOUS
<1> HIDE DEF u1, u2, u3, u4, u5, v1, v2, v3, v4, v5
<1> USE <1>a, <1>b
<1> DEFINE a4 == Join(u4, u5)
           a3 == Join(u3, a4)
           a2 == Join(u2, a3)
           w  == Join(u1, a2)
           b4 == Join(v4, v5)
           b3 == Join(v3, b4)
           b2 == Join(v2, b3)
<1>1. /\ JoinIs(a4, u4, u5) /\ JoinIs(b4, v4, v5)
      /\ a4 \in Seq(Items) /\ b4 \in Seq(Items)
  BY JoinFacts
<1> HIDE DEF a4, b4
<1>2. /\ JoinIs(a3, u3, a4) /\ JoinIs(b3, v3, b4)
      /\ a3 \in Seq(Items) /\ b3 \in Seq(Items)
  BY <1>1, JoinFacts
<1> HIDE DEF a3, b3
<1>3. /\ JoinIs(a2, u2, a3) /\ JoinIs(b2, v2, b3)
      /\ a2 \in Seq(Items) /\ b2 \in Seq(Items)
  BY <1>2, JoinFacts
<1> HIDE DEF a2, b2
<1>4. JoinIs(w, u1, a2) /\ JoinIs(w, v1, b2)
  <2>1. w = Join(v1, b2)
    BY <1>c DEF a2, a3, a4, b2, b3, b4
  <2> QED BY <1>3, <2>1, JoinFacts
<1> HIDE DEF w
\* where the separators are in the first
<1> DEFINE p1 == Len(u1) + 1
           p2 == p1 + Len(u2) + 1
           p3 == p2 + Len(u3) + 1
           p4 == p3 + Len(u4) + 1
           q1 == Len(v1) + 1
           q2 == q1 + Len(v2) + 1
           q3 == q2 + Len(v3) + 1
           q4 == q3 + Len(v4) + 1
<1>5. /\ Len(u1) \in Nat /\ Len(u2) \in Nat /\ Len(u3) \in Nat /\ Len(u4) \in Nat
      /\ Len(v1) \in Nat /\ Len(v2) \in Nat /\ Len(v3) \in Nat /\ Len(v4) \in Nat
      /\ Len(u5) \in Nat /\ Len(v5) \in Nat
      /\ Len(w) = p4 + Len(u5) /\ Len(w) = q4 + Len(v5)
      /\ Len(a2) = Len(w) - p1 /\ Len(a3) = Len(w) - p2 /\ Len(a4) = Len(w) - p3
      /\ Len(b2) = Len(w) - q1 /\ Len(b3) = Len(w) - q2 /\ Len(b4) = Len(w) - q3
      /\ Len(w) \in Nat
  <2>1. /\ Len(w) = Len(u1) + 1 + Len(a2) /\ Len(a2) = Len(u2) + 1 + Len(a3)
        /\ Len(a3) = Len(u3) + 1 + Len(a4) /\ Len(a4) = Len(u4) + 1 + Len(u5)
    BY <1>1, <1>2, <1>3, <1>4 DEF JoinIs
  <2>2. /\ Len(w) = Len(v1) + 1 + Len(b2) /\ Len(b2) = Len(v2) + 1 + Len(b3)
        /\ Len(b3) = Len(v3) + 1 + Len(b4) /\ Len(b4) = Len(v4) + 1 + Len(v5)
    BY <1>1, <1>2, <1>3, <1>4 DEF JoinIs
  <2>3. /\ Len(u1) \in Nat /\ Len(u2) \in Nat /\ Len(u3) \in Nat /\ Len(u4) \in Nat
        /\ Len(v1) \in Nat /\ Len(v2) \in Nat /\ Len(v3) \in Nat /\ Len(v4) \in Nat
        /\ Len(u5) \in Nat /\ Len(v5) \in Nat
    OBVIOUS
  <2>4. /\ Len(w) \in Nat /\ Len(w) = p4 + Len(u5)
        /\ Len(a2) = Len(w) - p1 /\ Len(a3) = Len(w) - p2 /\ Len(a4) = Len(w) - p3
    BY <2>1, <2>3, NestedLengths
  <2>5. /\ Len(w) = q4 + Len(v5)
        /\ Len(b2) = Len(w) - q1 /\ Len(b3) = Len(w) - q2 /\ Len(b4) = Len(w) - q3
    BY <2>2, <2>3, NestedLengths
  <2> QED BY <2>3, <2>4, <2>5
<1>6. ASSUME NEW i \in 1..Len(w), w[i] = Sep
      PROVE  i \in {p1, p2, p3, p4}
  <2>0. /\ \A k \in 1..Len(a2) : a2[k] = Sep =>
             k = Len(u2) + 1 \/ (k - (Len(u2) + 1) \in 1..Len(a3) /\ a3[k - (Len(u2) + 1)] = Sep)
        /\ \A k \in 1..Len(a3) : a3[k] = Sep =>
             k = Len(u3) + 1 \/ (k - (Len(u3) + 1) \in 1..Len(a4) /\ a4[k - (Len(u3) + 1)] = Sep)
        /\ \A k \in 1..Len(a4) : a4[k] = Sep =>
             k = Len(u4) + 1 \/ (k - (Len(u4) + 1) \in 1..Len(u5) /\ u5[k - (Len(u4) + 1)] = Sep)
    BY <1>1, <1>2, <1>3, SepsOfJoin
  <2>1. i = p1 \/ (i - p1 \in 1..Len(a2) /\ a2[i - p1] = Sep)
    BY <1>4, <1>6, SepsOfJoin
  <2>2. i = p1 \/ i = p2 \/ (i - p2 \in 1..Len(a3) /\ a3[i - p2] = Sep)
    <3>1. CASE i - p1 \in 1..Len(a2) /\ a2[i - p1] = Sep
      <4>1. \/ i - p1 = Len(u2) + 1
            \/ /\ i - p1 - (Len(u2) + 1) \in 1..Len(a3)
               /\ a3[i - p1 - (Len(u2) + 1)] = Sep
        BY <3>1, <2>0
      <4>2. i - p1 - (Len(u2) + 1) = i - p2
        BY <1>5
      <4> QED BY <4>1, <4>2, <1>5
    <3> QED BY <3>1, <2>1
  <2>3. i = p1 \/ i = p2 \/ i = p3 \/ (i - p3 \in 1..Len(a4) /\ a4[i - p3] = Sep)
    <3>1. CASE i - p2 \in 1..Len(a3) /\ a3[i - p2] = Sep
      <4>1. \/ i - p2 = Len(u3) + 1
            \/ /\ i - p2 - (Len(u3) + 1) \in 1..Len(a4)
               /\ a4[i - p2 - (Len(u3) + 1)] = Sep
        BY <3>1, <2>0
      <4>2. i - p2 - (Len(u3) + 1) = i - p3
        BY <1>5
      <4> QED BY <4>1, <4>2, <1>5
    <3> QED BY <3>1, <2>2
  <2>4. CASE i - p3 \in 1..Len(a4) /\ a4[i - p3] = Sep
    <3>1. \/ i - p3 = Len(u4) + 1
          \/ /\ i - p3 - (Len(u4) + 1) \in 1..Len(u5)
             /\ u5[i - p3 - (Len(u4) + 1)] = Sep
      BY <2>4, <2>0
    <3>2. i - p3 = Len(u4) + 1
      BY <3>1 DEF Free
    <3> QED BY <3>2, <1>5
  <2> QED BY <2>3, <2>4
\* and some that the second has
<1> HIDE DEF p1, p2, p3, p4, q1, q2, q3, q4
<1>7. /\ Marks(Len(u1), Len(u2), Len(u3), Len(u4), Len(u5), p1, p2, p3, p4, Len(w))
      /\ Marks(Len(v1), Len(v2), Len(v3), Len(v4), Len(v5), q1, q2, q3, q4, Len(w))
  <2>1. Marks(Len(u1), Len(u2), Len(u3), Len(u4), Len(u5), p1, p2, p3, p4, Len(w))
    BY <1>5, Zenon DEF Marks, p1, p2, p3, p4
  <2>2. Marks(Len(v1), Len(v2), Len(v3), Len(v4), Len(v5), q1, q2, q3, q4, Len(w))
    BY <1>5, Zenon DEF Marks, q1, q2, q3, q4
  <2> QED BY <2>1, <2>2
<1>8. SepOf(w, q1) /\ SepOf(w, q2) /\ SepOf(w, q3) /\ SepOf(w, q4)
  <2>1. /\ SepOf(w, Len(v1) + 1) /\ SepOf(b2, Len(v2) + 1)
        /\ SepOf(b3, Len(v3) + 1) /\ SepOf(b4, Len(v4) + 1)
    BY <1>1, <1>2, <1>3, <1>4, SepAt, Zenon
  <2>2. SepOf(w, Len(v1) + 1 + (Len(v2) + 1))
    BY <2>1, <1>4, SepInside, Zenon
  <2>3. SepOf(b2, Len(v2) + 1 + (Len(v3) + 1)) /\ SepOf(b3, Len(v3) + 1 + (Len(v4) + 1))
    BY <2>1, <1>2, <1>3, SepInside, Zenon
  <2>4. SepOf(w, Len(v1) + 1 + (Len(v2) + 1 + (Len(v3) + 1)))
    BY <2>3, <1>4, SepInside, Zenon
  <2>5. SepOf(b2, Len(v2) + 1 + (Len(v3) + 1 + (Len(v4) + 1)))
    BY <2>3, <1>3, SepInside, Zenon
  <2>6. SepOf(w, Len(v1) + 1 + (Len(v2) + 1 + (Len(v3) + 1 + (Len(v4) + 1))))
    BY <2>5, <1>4, SepInside, Zenon
  <2>7. /\ Len(v1) + 1 = q1 /\ Len(v1) + 1 + (Len(v2) + 1) = q2
        /\ Len(v1) + 1 + (Len(v2) + 1 + (Len(v3) + 1)) = q3
        /\ Len(v1) + 1 + (Len(v2) + 1 + (Len(v3) + 1 + (Len(v4) + 1))) = q4
    BY <1>7, MarksFacts, Zenon
  <2> QED BY <2>1, <2>2, <2>4, <2>6, <2>7, Zenon
<1>9. q1 = p1 /\ q2 = p2 /\ q3 = p3 /\ q4 = p4
  <2>1. InOrder(p1, p2, p3, p4) /\ InOrder(q1, q2, q3, q4)
    BY <1>7, MarksFacts, Zenon
  <2>2. \A i : SepOf(w, i) => i \in {p1, p2, p3, p4}
    BY <1>6, Zenon DEF SepOf
  <2>3. /\ q1 \in {p1, p2, p3, p4} /\ q2 \in {p1, p2, p3, p4}
        /\ q3 \in {p1, p2, p3, p4} /\ q4 \in {p1, p2, p3, p4}
    BY <1>8, <2>2, Zenon
  <2> HIDE <1>a, <1>b
  <2> QED BY <2>1, <2>3, SamePlaces
<1>10. Len(u1) = Len(v1) /\ Len(u2) = Len(v2) /\ Len(u3) = Len(v3) /\ Len(u4) = Len(v4)
  <2>1. Marks(Len(v1), Len(v2), Len(v3), Len(v4), Len(v5), p1, p2, p3, p4, Len(w))
    BY <1>7, <1>9
  <2> QED BY <1>7, <2>1, MarksTell
<1>11. u1 = v1 /\ a2 = b2
  BY <1>3, <1>4, <1>10, JoinCancel
<1>12. u2 = v2 /\ a3 = b3
  BY <1>2, <1>3, <1>10, <1>11, JoinCancel
<1>13. u3 = v3 /\ a4 = b4
  BY <1>1, <1>2, <1>10, <1>12, JoinCancel
<1>14. u4 = v4 /\ u5 = v5
  BY <1>1, <1>10, <1>13, JoinCancel
<1> QED BY <1>11, <1>12, <1>13, <1>14

\* Two rows have one dedup_hash only if they are the same in every column, as far
\* as one of them has no separator in a text.
THEOREM HashTells ==
  ASSUME NEW a \in Row, NEW b \in Row, Hash(a) = Hash(b), NoSeparator(a)
  PROVE  a = b
<1>1. /\ a.ts \in Int /\ b.ts \in Int /\ Texts(a) /\ Texts(b)
  BY TextsAreItems DEF Row, Texts
<1>2. \A r : Texts(r) => Joined(r) \in Seq(Items)
  <2>1. \A u, s \in Seq(Items) : Join(u, s) \in Seq(Items)
    BY JoinFacts DEF JoinIs
  <2> QED BY <2>1 DEF Joined, Texts
<1>4. Join(<<a.ts>>, Joined(a)) = Join(<<b.ts>>, Joined(b))
  BY DEF Hash, Joined
<1> DEFINE w == Join(<<a.ts>>, Joined(a))
           x == Joined(a)
           y == Joined(b)
           t == <<a.ts>>
           v == <<b.ts>>
<1>5. x \in Seq(Items) /\ y \in Seq(Items) /\ t \in Seq(Items) /\ v \in Seq(Items) /\ Len(t) = Len(v)
  BY <1>1, <1>2, ItemsFacts
<1>6. w = Join(t, x) /\ w = Join(v, y)
  BY <1>4
<1>7. t = v /\ x = y
  <2> HIDE DEF w, x, y, t, v
  <2>1. JoinIs(w, t, x) /\ JoinIs(w, v, y)
    BY <1>5, <1>6, JoinFacts
  <2> QED BY <1>5, <2>1, JoinCancel
<1>8. /\ a.operation = b.operation /\ a.instance = b.instance /\ a.userId = b.userId
      /\ a.userName = b.userName /\ a.extra = b.extra
  BY <1>1, <1>7, FourJoins
<1>9. a.ts = b.ts
  BY <1>7
<1>10. \A r \in Row : r = [ts |-> r.ts, operation |-> r.operation, instance |-> r.instance,
                          userId |-> r.userId, userName |-> r.userName, extra |-> r.extra]
  BY DEF Row
<1> QED BY <1>8, <1>9, <1>10

-----------------------------------------------------------------------------
(* extra_data *)

Pair(name, text) == IF Strip(text) = <<>> THEN <<>> ELSE <<name>> \o Strip(text)

Keys == {"card_number", "facility_code"}

LEMMA PairFacts ==
  ASSUME NEW text \in Seq(Chars), NEW name \in Keys
  PROVE  /\ Pair(name, text) \in Seq(Items)
         /\ Strip(text) \in Seq(Chars)
         /\ Strip(text) = <<>> => Pair(name, text) = <<>>
         /\ Strip(text) # <<>> =>
              /\ Len(Pair(name, text)) = 1 + Len(Strip(text))
              /\ Pair(name, text)[1] = name
              /\ \A i \in 1..Len(Strip(text)) : Pair(name, text)[1 + i] = Strip(text)[i]
         /\ \A i \in 1..Len(Pair(name, text)) :
              \/ Pair(name, text)[i] = name
              \/ i - 1 \in 1..Len(Strip(text)) /\ Pair(name, text)[i] = Strip(text)[i - 1]
<1>1. Strip(text) \in Seq(Chars)
  BY StripType
<1>2. CASE Strip(text) = <<>>
  BY <1>1, <1>2 DEF Pair
<1>3. CASE Strip(text) # <<>>
  <2> DEFINE s == Strip(text)
             p == Pair(name, text)
  <2>1. name \in Items /\ s \in Seq(Items)
    BY <1>1, TextsAreItems DEF Items, Keys
  <2>2. p = <<name>> \o s
    BY <1>3 DEF Pair
  <2> HIDE DEF s, p
  <2>3. /\ p \in Seq(Items) /\ Len(s) \in Nat /\ Len(p) = 1 + Len(s) /\ p[1] = name
        /\ \A i \in 1..Len(s) : p[1 + i] = s[i]
    BY <2>1, <2>2
  <2>4. \A i \in 1..Len(p) : p[i] = name \/ (i - 1 \in 1..Len(s) /\ p[i] = s[i - 1])
    BY <2>1, <2>2
  <2> QED BY <1>1, <1>3, <2>3, <2>4 DEF s, p
<1> QED BY <1>2, <1>3

LEMMA EmptyLength ==
  ASSUME NEW s \in Seq(Items)
  PROVE  /\ Len(s) \in Nat
         /\ s # <<>> => Len(s) > 0
         /\ s = <<>> => Len(s) = 0
OBVIOUS

LEMMA NotAChar == ASSUME NEW text \in Seq(Chars), NEW i \in 1..Len(text)
                  PROVE  text[i] \notin Keys
BY CharsAssumption DEF Keys

LEMMA ConcatFacts ==
  ASSUME NEW a \in Seq(Items), NEW b \in Seq(Items)
  PROVE  /\ Len(a \o b) = Len(a) + Len(b)
         /\ \A i \in 1..Len(a) : (a \o b)[i] = a[i]
         /\ \A i \in 1..Len(b) : (a \o b)[Len(a) + i] = b[i]
OBVIOUS

\* A text without the key and one that is empty or begins with it.
Headed(a, b, key) == /\ a \in Seq(Items) /\ b \in Seq(Items)
                     /\ \A i \in 1..Len(a) : a[i] # key
                     /\ b = <<>> \/ b[1] = key

SameHeaded(a, b, c, d, key) == Headed(a, b, key) /\ Headed(c, d, key) /\ a \o b = c \o d

\* A key stands only at the head of its pair, so the two pairs come apart again.
LEMMA HeadsApart ==
  ASSUME NEW a, NEW b, NEW c, NEW d, NEW key, SameHeaded(a, b, c, d, key)
  PROVE  a = c /\ b = d
<1> USE DEF SameHeaded, Headed
<1>1. /\ Len(a) \in Nat /\ Len(b) \in Nat /\ Len(c) \in Nat /\ Len(d) \in Nat
      /\ b # <<>> => Len(b) > 0
      /\ d # <<>> => Len(d) > 0
      /\ b = <<>> => Len(b) = 0
      /\ d = <<>> => Len(d) = 0
  BY EmptyLength, Zenon
<1> DEFINE w == a \o b
<1>2. /\ Len(w) = Len(a) + Len(b)
      /\ \A i \in 1..Len(a) : w[i] = a[i]
      /\ \A i \in 1..Len(b) : w[Len(a) + i] = b[i]
  BY ConcatFacts, Zenon
<1>3. w = c \o d
  OBVIOUS
<1> HIDE DEF w
<1>4. /\ Len(w) = Len(c) + Len(d)
      /\ \A i \in 1..Len(c) : w[i] = c[i]
      /\ \A i \in 1..Len(d) : w[Len(c) + i] = d[i]
  BY <1>3, ConcatFacts, Zenon
<1>5. Len(a) = Len(c)
  <2>1. ~(Len(a) < Len(c))
    <3> SUFFICES ASSUME Len(a) < Len(c) PROVE FALSE
      OBVIOUS
    <3>1. Len(b) > 0 /\ b # <<>>
      BY <1>1, <1>2, <1>4
    <3>2. w[Len(a) + 1] = key
      BY <3>1, <1>1, <1>2
    <3>3. Len(a) + 1 \in 1..Len(c)
      BY <1>1
    <3> QED BY <3>2, <3>3, <1>4
  <2>2. ~(Len(c) < Len(a))
    <3> SUFFICES ASSUME Len(c) < Len(a) PROVE FALSE
      OBVIOUS
    <3>1. Len(d) > 0 /\ d # <<>>
      BY <1>1, <1>2, <1>4
    <3>2. w[Len(c) + 1] = key
      BY <3>1, <1>1, <1>4
    <3>3. Len(c) + 1 \in 1..Len(a)
      BY <1>1
    <3> QED BY <3>2, <3>3, <1>2
  <2> QED BY <2>1, <2>2, <1>1
<1>6. Len(b) = Len(d)
  BY <1>1, <1>2, <1>4, <1>5
<1>7. \A i \in 1..Len(a) : a[i] = c[i]
  BY <1>2, <1>4, <1>5
<1>8. \A i \in 1..Len(b) : b[i] = d[i]
  BY <1>2, <1>4, <1>5, <1>6
<1>9. a = c
  BY <1>5, <1>7, SeqEqual
<1>10. b = d
  BY <1>6, <1>8, SeqEqual
<1> QED BY <1>9, <1>10

LEMMA PairTells ==
  ASSUME NEW t \in Seq(Chars), NEW u \in Seq(Chars), NEW name \in Keys,
         Pair(name, t) = Pair(name, u)
  PROVE  Strip(t) = Strip(u)
<1> DEFINE s == Strip(t)
           v == Strip(u)
           p == Pair(name, t)
<1>1. s \in Seq(Chars) /\ v \in Seq(Chars)
  BY StripType
<1>2. /\ s = <<>> => Len(p) = 0
      /\ s # <<>> => Len(p) = 1 + Len(s) /\ \A i \in 1..Len(s) : p[1 + i] = s[i]
  BY PairFacts
<1>3. /\ v = <<>> => Len(p) = 0
      /\ v # <<>> => Len(p) = 1 + Len(v) /\ \A i \in 1..Len(v) : p[1 + i] = v[i]
  BY PairFacts
<1>4. SUFFICES s = v
  OBVIOUS
<1> HIDE DEF s, v, p
<1>5. Len(s) = Len(v) /\ \A i \in 1..Len(s) : s[i] = v[i]
  BY <1>1, <1>2, <1>3
<1>6. s \in Seq(Chars) /\ v \in Seq(Chars)
  BY <1>1
<1> QED BY <1>5, <1>6, SeqEqual

\* canonical_extra_data forgets nothing of the two texts but their outer blanks.
LEMMA ExtraTells ==
  ASSUME NEW c \in Seq(Chars), NEW f \in Seq(Chars), NEW d \in Seq(Chars), NEW g \in Seq(Chars),
         Extra(c, f) = Extra(d, g)
  PROVE  Strip(c) = Strip(d) /\ Strip(f) = Strip(g)
<1> DEFINE pc == Pair("card_number", c)
           pf == Pair("facility_code", f)
           pd == Pair("card_number", d)
           pg == Pair("facility_code", g)
<1>1. pc \o pf = pd \o pg
  BY DEF Extra, Pair
<1>2. "card_number" \in Keys /\ "facility_code" \in Keys /\ "card_number" # "facility_code"
  BY DEF Keys
<1>3. /\ pc \in Seq(Items) /\ pf \in Seq(Items) /\ pd \in Seq(Items) /\ pg \in Seq(Items)
      /\ pf = <<>> \/ pf[1] = "facility_code"
      /\ pg = <<>> \/ pg[1] = "facility_code"
  BY <1>2, PairFacts
<1>4. ASSUME NEW i \in 1..Len(pc) PROVE pc[i] # "facility_code"
  <2>1. pc[i] = "card_number" \/ (i - 1 \in 1..Len(Strip(c)) /\ pc[i] = Strip(c)[i - 1])
    BY <1>2, PairFacts
  <2>2. i - 1 \in 1..Len(Strip(c)) => Strip(c)[i - 1] \notin Keys
    BY StripType, NotAChar
  <2> QED BY <1>2, <2>1, <2>2
<1>5. ASSUME NEW i \in 1..Len(pd) PROVE pd[i] # "facility_code"
  <2>1. pd[i] = "card_number" \/ (i - 1 \in 1..Len(Strip(d)) /\ pd[i] = Strip(d)[i - 1])
    BY <1>2, PairFacts
  <2>2. i - 1 \in 1..Len(Strip(d)) => Strip(d)[i - 1] \notin Keys
    BY StripType, NotAChar
  <2> QED BY <1>2, <2>1, <2>2
<1>6. pc = pd /\ pf = pg
  <2> HIDE DEF pc, pf, pd, pg
  <2>1. SameHeaded(pc, pf, pd, pg, "facility_code")
    BY <1>1, <1>3, <1>4, <1>5 DEF SameHeaded, Headed
  <2> QED BY <2>1, HeadsApart
<1> QED BY <1>2, <1>6, PairTells

LEMMA ExtraFacts ==
  ASSUME NEW c \in Seq(Chars), NEW f \in Seq(Chars)
  PROVE  /\ Extra(c, f) \in Seq(Items)
         /\ Free(Strip(c)) /\ Free(Strip(f)) => Free(Extra(c, f))
<1> DEFINE a == Pair("card_number", c)
           b == Pair("facility_code", f)
<1>1. Extra(c, f) = a \o b
  BY DEF Extra, Pair
<1>2. "card_number" \in Keys /\ "facility_code" \in Keys /\ Sep \notin Keys
  BY CharsAssumption DEF Keys
<1>3. a \in Seq(Items) /\ b \in Seq(Items)
  BY <1>2, PairFacts
<1>4. Free(Strip(c)) => Free(a)
  <2> SUFFICES ASSUME Free(Strip(c)), NEW i \in 1..Len(a) PROVE a[i] # Sep
    BY DEF Free
  <2>1. a[i] = "card_number" \/ (i - 1 \in 1..Len(Strip(c)) /\ a[i] = Strip(c)[i - 1])
    BY <1>2, PairFacts
  <2> QED BY <1>2, <2>1 DEF Free
<1>5. Free(Strip(f)) => Free(b)
  <2> SUFFICES ASSUME Free(Strip(f)), NEW i \in 1..Len(b) PROVE b[i] # Sep
    BY DEF Free
  <2>1. b[i] = "facility_code" \/ (i - 1 \in 1..Len(Strip(f)) /\ b[i] = Strip(f)[i - 1])
    BY <1>2, PairFacts
  <2> QED BY <1>2, <2>1 DEF Free
<1> HIDE DEF a, b
<1>6. Free(a) /\ Free(b) => Free(a \o b)
  <2> SUFFICES ASSUME Free(a), Free(b), NEW i \in 1..Len(a \o b) PROVE (a \o b)[i] # Sep
    BY DEF Free
  <2>1. CASE i \in 1..Len(a)
    BY <1>3, <2>1 DEF Free
  <2>2. CASE i - Len(a) \in 1..Len(b)
    BY <1>3, <2>2 DEF Free
  <2> QED BY <1>3, <2>1, <2>2
<1>7. a \o b \in Seq(Items)
  BY <1>3
<1> QED BY <1>1, <1>4, <1>5, <1>6, <1>7

-----------------------------------------------------------------------------
(* What a run reads *)

\* The fields of a line of the CSV.
LEMMA LineFacts ==
  ASSUME NEW event
  PROVE  LET line == Line(event)
         IN  /\ line.time = Local(HostZone, event.utc)
             /\ line.door = event.door /\ line.description = event.description
             /\ line.person = event.person /\ line.employee = event.employee
             /\ line.card = event.card /\ line.facility = event.facility
BY DEF Line, TextFields

LEMMA TellsFacts ==
  ASSUME NEW zone, NEW event
  PROVE  LET said == Tells(zone, event)
         IN  /\ said["ts"] = Localize(zone, Local(HostZone, event.utc))
             /\ \A field \in TextFields : said[field] = Strip(event[field])
BY DEF Tells, TextFields

LEMMA EventTexts ==
  ASSUME NEW event \in Event
  PROVE  /\ event.utc \in Int
         /\ event.door \in Seq(Chars) /\ event.description \in Seq(Chars)
         /\ event.person \in Seq(Chars) /\ event.employee \in Seq(Chars)
         /\ event.card \in Seq(Chars) /\ event.facility \in Seq(Chars)
BY DEF Event

\* The columns of a line, written out.
LEMMA ColumnsAre ==
  ASSUME NEW zone, NEW event \in Event
  PROVE  LET row == Fields(zone, Line(event))
         IN  /\ row.ts = Localize(zone, Local(HostZone, event.utc))
             /\ row.operation = Strip(event.description)
             /\ row.instance = Strip(event.door)
             /\ row.userId = Strip(event.employee)
             /\ row.userName = Strip(event.person)
             /\ row.extra = Extra(event.card, event.facility)
BY LineFacts DEF Fields

LEMMA FieldsAreRow ==
  ASSUME NEW zone, NEW event \in Event, Localize(zone, Local(HostZone, event.utc)) \in Int
  PROVE  Fields(zone, Line(event)) \in Row
<1>1. /\ Strip(event.description) \in Seq(Chars) /\ Strip(event.door) \in Seq(Chars)
      /\ Strip(event.employee) \in Seq(Chars) /\ Strip(event.person) \in Seq(Chars)
      /\ Extra(event.card, event.facility) \in Seq(Items)
  BY EventTexts, StripType, ExtraFacts
<1> QED BY <1>1, LineFacts DEF Fields, Row

\* The columns say all that the line does.
LEMMA ColumnsTell ==
  ASSUME NEW y, NEW z, NEW e \in Event, NEW f \in Event, Fields(y, Line(e)) = Fields(z, Line(f))
  PROVE  Tells(y, e) = Tells(z, f)
<1>1. /\ Localize(y, Local(HostZone, e.utc)) = Localize(z, Local(HostZone, f.utc))
      /\ Strip(e.description) = Strip(f.description) /\ Strip(e.door) = Strip(f.door)
      /\ Strip(e.employee) = Strip(f.employee) /\ Strip(e.person) = Strip(f.person)
      /\ Extra(e.card, e.facility) = Extra(f.card, f.facility)
  BY ColumnsAre
<1>2. Strip(e.card) = Strip(f.card) /\ Strip(e.facility) = Strip(f.facility)
  BY <1>1, EventTexts, ExtraTells
<1>3. \A field \in TextFields : Strip(e[field]) = Strip(f[field])
  BY <1>1, <1>2 DEF TextFields
<1> QED BY <1>1, <1>3 DEF Tells

LEMMA PlainIsFree ==
  ASSUME NEW zone, NEW event \in Event, Plain(Tells(zone, event))
  PROVE  NoSeparator(Fields(zone, Line(event)))
<1>1. \A field \in TextFields : Sep \notin Range(Strip(event[field]))
  BY TellsFacts DEF Plain
<1>2. \A text \in Seq(Chars) : Sep \notin Range(Strip(text)) => Free(Strip(text))
  <2> SUFFICES ASSUME NEW text \in Seq(Chars), Sep \notin Range(Strip(text)) PROVE Free(Strip(text))
    OBVIOUS
  <2>1. Strip(text) \in Seq(Chars)
    BY StripType
  <2>2. DOMAIN Strip(text) = 1..Len(Strip(text))
    BY <2>1
  <2> QED BY <2>2 DEF Range, Free
<1>3. /\ Free(Strip(event.description)) /\ Free(Strip(event.door))
      /\ Free(Strip(event.employee)) /\ Free(Strip(event.person))
      /\ Free(Strip(event.card)) /\ Free(Strip(event.facility))
  BY <1>1, <1>2, EventTexts DEF TextFields
<1>4. Free(Extra(event.card, event.facility))
  BY <1>3, EventTexts, ExtraFacts
<1> QED BY <1>3, <1>4, ColumnsAre DEF NoSeparator

\* The hash of a line whose texts have no separator is no other line's.
THEOREM LinesTold ==
  ASSUME NEW y, NEW z, NEW e \in Event, NEW f \in Event,
         Localize(y, Local(HostZone, e.utc)) \in Int,
         Localize(z, Local(HostZone, f.utc)) \in Int,
         RowOf(y, Line(e)).hash = RowOf(z, Line(f)).hash,
         Plain(Tells(y, e))
  PROVE  Tells(y, e) = Tells(z, f)
<1>1. Fields(y, Line(e)) \in Row /\ Fields(z, Line(f)) \in Row
  BY FieldsAreRow
<1>2. NoSeparator(Fields(y, Line(e)))
  BY PlainIsFree
<1>3. Hash(Fields(y, Line(e))) = Hash(Fields(z, Line(f)))
  BY DEF RowOf
<1>4. Fields(y, Line(e)) = Fields(z, Line(f))
  BY <1>1, <1>2, <1>3, HashTells
<1> QED BY <1>4, ColumnsTell

LEMMA ReadFacts ==
  ASSUME NEW report \in Reports, NEW zone \in Zones
  PROVE  LET read == Read[<<report, zone>>]
             count == Len(report.events)
         IN  /\ count \in Nat /\ DOMAIN report.events = 1..count
             /\ Len(read) = count
             /\ \A i \in 1..count : /\ report.events[i] \in Event
                                    /\ read[i] = RowOf(zone, Line(report.events[i]))
                                    /\ Said[<<report, zone>>][i] = Tells(zone, report.events[i])
             /\ DOMAIN Said[<<report, zone>>] = 1..count
<1>1. report.events \in Seq(Event)
  BY ReportsAssumption
<1>2. DOMAIN Csv(report).lines = DOMAIN report.events
  BY DEF Csv
<1>3. \A i \in DOMAIN report.events : Csv(report).lines[i] = Line(report.events[i])
  BY DEF Csv
<1>4. Read[<<report, zone>>] = [i \in DOMAIN report.events |-> RowOf(zone, Line(report.events[i]))]
  <2>1. <<report, zone>> \in Reports \X Zones /\ <<report, zone>>[1] = report /\ <<report, zone>>[2] = zone
    OBVIOUS
  <2>2. Read[<<report, zone>>] = Rows(zone, Csv(report))
    BY <2>1 DEF Read
  <2> QED BY <1>2, <1>3, <2>2 DEF Rows
<1>5. Said[<<report, zone>>] = [i \in DOMAIN report.events |-> Tells(zone, report.events[i])]
  <2>1. <<report, zone>> \in Reports \X Zones /\ <<report, zone>>[1] = report /\ <<report, zone>>[2] = zone
    OBVIOUS
  <2> QED BY <2>1 DEF Said
<1>6. Len(report.events) \in Nat /\ DOMAIN report.events = 1..Len(report.events)
  BY <1>1
<1> QED BY <1>1, <1>4, <1>5, <1>6

LEMMA ReadableFacts ==
  ASSUME NEW report \in Reports, NEW zone \in Zones
  PROVE  /\ <<report, zone>> \in Readable <=>
              /\ report.wellFormed
              /\ \A i \in DOMAIN report.events : ~Bad(zone, Line(report.events[i]))
         /\ <<report, zone>> \in Readable =>
              \A i \in DOMAIN report.events :
                 Localize(zone, Local(HostZone, report.events[i].utc)) \in Int
<1>1. <<report, zone>> \in Readable <=>
              /\ report.wellFormed
              /\ \A i \in DOMAIN report.events : ~Bad(zone, Line(report.events[i]))
  BY DEF Readable, Refused, Csv
<1>2. ASSUME <<report, zone>> \in Readable, NEW i \in DOMAIN report.events
      PROVE  Localize(zone, Local(HostZone, report.events[i].utc)) \in Int
  <2>1. Localize(zone, Local(HostZone, report.events[i].utc)) # Malformed
    BY <1>1, <1>2, LineFacts DEF Bad
  <2>2. report.events[i] \in Event
    BY ReadFacts
  <2>3. Local(HostZone, report.events[i].utc) \in Int /\ zone \in Zone
    BY <2>2, EventTexts, ZonesAssumption DEF Local, Offset, Zone
  <2> QED BY <2>1, <2>3, LocalizeIsEarliest
<1> QED BY <1>1, <1>2

-----------------------------------------------------------------------------
(* The table *)

InputOf(run) == <<run.report, run.zone>>

RowsRead(rs, stored) ==
  \A r \in stored :
    /\ r.run \in DOMAIN rs
    /\ InputOf(rs[r.run]) \in Readable
    /\ r.line \in DOMAIN rs[r.run].report.events
    /\ r.row = Read[InputOf(rs[r.run])][r.line]

AllStored(run, hashes) ==
  \A i \in DOMAIN run.report.events : Read[InputOf(run)][i].hash \in hashes

\* Every hash of an ok run is in the table, and the runs that found no rows in
\* their CSV are the refused ones.
IInv == /\ TypeOK
        /\ \A n \in DOMAIN runs :
             /\ runs[n].status = "ok" => InputOf(runs[n]) \in Readable /\ AllStored(runs[n], Stored)
             /\ runs[n].status = "parse_failed" => InputOf(runs[n]) \notin Readable

LEMMA TypeParts ==
  TypeOK <=> /\ table \in Table
             /\ runs \in Seq(Run)
             /\ Len(runs) <= MaxRuns
             /\ RowsRead(runs, rows)
             /\ dry \in DryRun
BY DEF TypeOK, RowsRead, InputOf

LEMMA CountOf ==
  ASSUME NEW n \in Nat, NEW S \in SUBSET (1..n)
  PROVE  Cardinality(S) \in Nat /\ n - Cardinality(S) \in Nat
<1>1. IsFiniteSet(1..n) /\ Cardinality(1..n) = n
  BY FS_Interval
<1>2. IsFiniteSet(S) /\ Cardinality(S) <= Cardinality(1..n)
  BY <1>1, FS_Subset
<1>3. Cardinality(S) \in Nat
  BY <1>2, FS_CardinalityType
<1> QED BY <1>1, <1>2, <1>3

\* A run ends: the runs there were are still there.
LEMMA RunAdded ==
  ASSUME NEW rs \in Seq(Run), NEW run \in Run, NEW ss, ss = Append(rs, run)
  PROVE  /\ ss \in Seq(Run) /\ Len(ss) = Len(rs) + 1 /\ Len(rs) \in Nat
         /\ DOMAIN rs = 1..Len(rs) /\ DOMAIN ss = 1..Len(rs) + 1
         /\ \A n \in DOMAIN rs : n \in DOMAIN ss /\ ss[n] = rs[n]
         /\ ss[Len(rs) + 1] = run
OBVIOUS

LEMMA InsertedAreLines == ASSUME NEW read, NEW n PROVE Inserted(read, n) \subseteq 1..n
BY DEF Inserted

\* The first line of each hash goes in, so after the INSERTs each hash is there.
LEMMA AllInserted ==
  ASSUME NEW read, NEW n \in Nat, Keeps(read, Inserted(read, n))
  PROVE  \A i \in 1..n : read[i].hash \in Stored'
<1> SUFFICES ASSUME NEW i \in 1..n PROVE read[i].hash \in Stored'
  OBVIOUS
<1>1. ASSUME NEW j \in Inserted(read, n) PROVE read[j].hash \in Stored'
  <2> DEFINE r == [run |-> Len(runs) + 1, line |-> j, row |-> read[j]]
  <2>1. r \in rows'
    BY DEF Keeps
  <2>2. r.row = read[j]
    OBVIOUS
  <2> HIDE DEF r
  <2> QED BY <2>1, <2>2 DEF Stored
<1>2. \A h \in Stored : h \in Stored'
  BY DEF Keeps, Stored
<1>3. CASE ~table.unique
  <2>1. i \in Inserted(read, n)
    BY <1>3 DEF Inserted
  <2> QED BY <2>1, <1>1
<1>4. CASE read[i].hash \in Stored
  BY <1>2, <1>4
<1>5. CASE table.unique /\ read[i].hash \notin Stored
  <2> DEFINE same == {j \in 1..n : read[j].hash = read[i].hash}
  <2>1. same \in SUBSET Nat /\ i \in same
    OBVIOUS
  <2>2. PICK m \in same : \A x \in same : m <= x
    BY <2>1, LeastElement
  <2>3. m \in 1..n /\ read[m].hash = read[i].hash
    BY <2>2
  <2>4. \A j \in 1..(m - 1) : read[j].hash # read[m].hash
    <3> SUFFICES ASSUME NEW j \in 1..(m - 1), read[j].hash = read[m].hash PROVE FALSE
      OBVIOUS
    <3>1. j \in same
      BY <2>3
    <3>2. m <= j
      BY <2>2, <3>1
    <3> QED BY <3>2, <2>3
  <2>5. m \in Inserted(read, n)
    BY <1>5, <2>3, <2>4 DEF Inserted
  <2> QED BY <2>3, <2>5, <1>1
<1> QED BY <1>3, <1>4, <1>5

\* The parts of the invariant that a run which ends may disturb.
LEMMA RunKeeps ==
  ASSUME IInv, NEW run \in Run, Len(runs) < MaxRuns, runs' = Append(runs, run),
         NEW lines, lines \subseteq DOMAIN run.report.events,
         lines = {} \/ InputOf(run) \in Readable,
         Keeps(Read[InputOf(run)], lines),
         run.status = "ok" => InputOf(run) \in Readable /\ AllStored(run, Stored'),
         run.status = "parse_failed" => InputOf(run) \notin Readable,
         (table \in Table)', (dry \in DryRun)'
  PROVE  IInv'
<1>1. runs \in Seq(Run) /\ RowsRead(runs, rows) /\ MaxRuns \in Nat
  BY TypeParts, MaxRunsAssumption DEF IInv
<1>2. /\ runs' \in Seq(Run) /\ Len(runs') = Len(runs) + 1 /\ Len(runs) \in Nat
      /\ DOMAIN runs = 1..Len(runs) /\ DOMAIN runs' = 1..Len(runs) + 1
      /\ \A n \in DOMAIN runs : n \in DOMAIN runs' /\ runs'[n] = runs[n]
      /\ runs'[Len(runs) + 1] = run
  BY <1>1, RunAdded
<1>3. Len(runs') <= MaxRuns
  BY <1>1, <1>2
<1>4. RowsRead(runs', rows')
  <2>1. ASSUME NEW r \in rows
        PROVE  /\ r.run \in DOMAIN runs'
               /\ InputOf(runs'[r.run]) \in Readable
               /\ r.line \in DOMAIN runs'[r.run].report.events
               /\ r.row = Read[InputOf(runs'[r.run])][r.line]
    <3>1. r.run \in DOMAIN runs' /\ runs'[r.run] = runs[r.run]
      BY <1>1, <1>2 DEF RowsRead
    <3> QED BY <3>1, <1>1 DEF RowsRead
  <2>2. ASSUME NEW i \in lines, NEW r, r = [run |-> Len(runs) + 1, line |-> i, row |-> Read[InputOf(run)][i]]
        PROVE  /\ r.run \in DOMAIN runs'
               /\ InputOf(runs'[r.run]) \in Readable
               /\ r.line \in DOMAIN runs'[r.run].report.events
               /\ r.row = Read[InputOf(runs'[r.run])][r.line]
    <3>1. r.run = Len(runs) + 1 /\ r.line = i /\ r.row = Read[InputOf(run)][i]
      BY <2>2
    <3>2. runs'[r.run] = run /\ r.run \in DOMAIN runs'
      BY <3>1, <1>2
    <3> QED BY <3>1, <3>2
  <2> QED BY <2>1, <2>2 DEF RowsRead, Keeps
<1>5. \A h \in Stored : h \in Stored'
  BY DEF Keeps, Stored
<1>6. \A n \in DOMAIN runs' :
        /\ runs'[n].status = "ok" => InputOf(runs'[n]) \in Readable /\ AllStored(runs'[n], Stored')
        /\ runs'[n].status = "parse_failed" => InputOf(runs'[n]) \notin Readable
  <2> SUFFICES ASSUME NEW n \in DOMAIN runs'
               PROVE  /\ runs'[n].status = "ok" =>
                           InputOf(runs'[n]) \in Readable /\ AllStored(runs'[n], Stored')
                      /\ runs'[n].status = "parse_failed" => InputOf(runs'[n]) \notin Readable
    OBVIOUS
  <2>1. CASE n = Len(runs) + 1
    BY <1>2, <2>1
  <2>2. CASE n \in DOMAIN runs
    <3>1. runs'[n] = runs[n]
      BY <1>2, <2>2
    <3>2. AllStored(runs[n], Stored) => AllStored(runs[n], Stored')
      BY <1>5 DEF AllStored
    <3> QED BY <3>1, <3>2, <2>2 DEF IInv
  <2> QED BY <2>1, <2>2, <1>2
<1>7. TypeOK'
  BY <1>2, <1>3, <1>4 DEF TypeOK, RowsRead, InputOf
<1> QED BY <1>6, <1>7 DEF IInv

LEMMA AgesType ==
  ASSUME dry \in DryRun, NEW lines, Ages(lines)
  PROVE  dry' \in DryRun
BY DEF Ages, DryRun, NoDryRun

LEMMA OnlyDryChanges ==
  ASSUME IInv, dry' \in DryRun, UNCHANGED <<table, runs, rows>>
  PROVE  IInv'
BY DEF IInv, TypeOK, AllStored, Stored, InputOf, DryRun, NoDryRun, Table

LEMMA OnlyTableChanges ==
  ASSUME IInv, table' \in Table, UNCHANGED <<runs, rows, dry>>
  PROVE  IInv'
BY DEF IInv, TypeOK, AllStored, Stored, InputOf, DryRun, NoDryRun, Table

THEOREM Invariance == Spec => []IInv
<1>1. ASSUME Init PROVE IInv
  BY <1>1, MaxRunsAssumption DEF Init, IInv, TypeOK, DryRun
<1>2. ASSUME IInv, [Next]_vars PROVE IInv'
  <2>0. table \in Table /\ dry \in DryRun /\ runs \in Seq(Run)
    BY <1>2, TypeParts DEF IInv
  <2>1. ASSUME NEW report \in Reports, NEW zone \in Zones, RunOk(report, zone) PROVE IInv'
    <3> DEFINE read == Read[<<report, zone>>]
               lines == Inserted(read, Len(read))
               run == [report |-> report, zone |-> zone, status |-> "ok",
                       inserted |-> Cardinality(lines),
                       duplicate |-> Len(read) - Cardinality(lines)]
    <3>1. Len(read) \in Nat /\ DOMAIN report.events = 1..Len(read)
      BY ReadFacts
    <3>2. lines \subseteq 1..Len(read)
      BY InsertedAreLines
    <3>3. Cardinality(lines) \in Nat /\ Len(read) - Cardinality(lines) \in Nat
      BY <3>1, <3>2, CountOf
    <3>4. /\ <<report, zone>> \in Readable
          /\ Len(runs) < MaxRuns /\ runs' = Append(runs, run) /\ table' = table
          /\ Keeps(read, lines) /\ Ages(lines)
      BY <2>1 DEF RunOk, Ends
    <3>5. \A i \in 1..Len(read) : read[i].hash \in Stored'
      BY <3>1, <3>4, AllInserted
    <3> HIDE DEF lines, read
    <3>6. run \in Run
      BY <3>3 DEF Run
    <3>7. run.report = report /\ run.zone = zone /\ run.status = "ok"
      OBVIOUS
    <3> HIDE DEF run
    <3>8. InputOf(run) = <<report, zone>>
      BY <3>7 DEF InputOf
    <3>9. Keeps(Read[InputOf(run)], lines) /\ lines \subseteq DOMAIN run.report.events
      BY <3>1, <3>2, <3>4, <3>7, <3>8 DEF read
    <3>10. AllStored(run, Stored')
      BY <3>1, <3>5, <3>7, <3>8 DEF AllStored, read
    <3>11. (dry \in DryRun)'
      BY <2>0, <3>4, AgesType DEF DryRun, NoDryRun
    <3>12. (table \in Table)'
      BY <2>0, <3>4 DEF Table
    <3> QED BY <1>2, <3>4, <3>6, <3>7, <3>8, <3>9, <3>10, <3>11, <3>12, RunKeeps
  <2>2. ASSUME NEW report \in Reports, NEW zone \in Zones, RunRefused(report, zone) PROVE IInv'
    <3> DEFINE run == [report |-> report, zone |-> zone, status |-> "parse_failed",
                       inserted |-> 0, duplicate |-> 0]
    <3>1. /\ <<report, zone>> \notin Readable
          /\ Len(runs) < MaxRuns /\ runs' = Append(runs, run)
          /\ table' = table /\ rows' = rows /\ dry' = dry
      BY <2>2 DEF RunRefused, Ends
    <3>2. run \in Run
      BY DEF Run
    <3>3. run.report = report /\ run.zone = zone /\ run.status = "parse_failed"
      OBVIOUS
    <3> HIDE DEF run
    <3>4. InputOf(run) = <<report, zone>>
      BY <3>3 DEF InputOf
    <3>5. Keeps(Read[InputOf(run)], {})
      BY <3>1 DEF Keeps
    <3>6. (dry \in DryRun)' /\ (table \in Table)'
      BY <2>0, <3>1 DEF DryRun, NoDryRun, Table
    <3> QED BY <1>2, <3>1, <3>2, <3>3, <3>4, <3>5, <3>6, RunKeeps
  <2>3. ASSUME NEW report \in Reports, NEW zone \in Zones, RunFails(report, zone) PROVE IInv'
    <3> DEFINE read == Read[<<report, zone>>]
               run == [report |-> report, zone |-> zone, status |-> "ingest_failed",
                       inserted |-> 0, duplicate |-> 0]
    <3>1. Len(read) \in Nat /\ DOMAIN report.events = 1..Len(read)
      BY ReadFacts
    <3>2. PICK sent \in 0..Len(read) : Keeps(read, Inserted(read, sent)) /\ Ages(Inserted(read, sent))
      BY <2>3, <3>1 DEF RunFails
    <3> DEFINE lines == Inserted(read, sent)
    <3>3. lines \subseteq 1..Len(read)
      BY <3>1, InsertedAreLines
    <3>4. /\ <<report, zone>> \in Readable
          /\ Len(runs) < MaxRuns /\ runs' = Append(runs, run) /\ table' = table
      BY <2>3 DEF RunFails, Ends
    <3>5. Keeps(read, lines) /\ Ages(lines)
      BY <3>2
    <3> HIDE DEF lines, read
    <3>6. run \in Run
      BY DEF Run
    <3>7. run.report = report /\ run.zone = zone /\ run.status = "ingest_failed"
      OBVIOUS
    <3> HIDE DEF run
    <3>8. InputOf(run) = <<report, zone>>
      BY <3>7 DEF InputOf
    <3>9. Keeps(Read[InputOf(run)], lines) /\ lines \subseteq DOMAIN run.report.events
      BY <3>1, <3>3, <3>5, <3>7, <3>8 DEF read
    <3>10. (dry \in DryRun)'
      BY <2>0, <3>5, AgesType DEF DryRun, NoDryRun
    <3>11. (table \in Table)'
      BY <2>0, <3>4 DEF Table
    <3> QED BY <1>2, <3>4, <3>6, <3>7, <3>8, <3>9, <3>10, <3>11, RunKeeps
  <2>4. ASSUME NEW report \in Reports, NEW zone \in Zones, DryScrape(report, zone) PROVE IInv'
    <3>1. dry' \in DryRun
      BY <2>4 DEF DryScrape, DryRun
    <3>2. UNCHANGED <<table, runs, rows>>
      BY <2>4 DEF DryScrape
    <3> QED BY <1>2, <3>1, <3>2, OnlyDryChanges
  <2>5. ASSUME NEW answered \in BOOLEAN, DryLookup(answered) PROVE IInv'
    <3> DEFINE read == Read[<<dry.report, dry.zone>>]
               skipped(existing) == {i \in 1..Len(read) : read[i].hash \in existing}
               counts == DryCounts(read, IF answered THEN Stored ELSE {})
    <3>1. dry.report \in Reports /\ dry.zone \in Zones
      BY <2>0, <2>5 DEF DryLookup, DryRun, NoDryRun
    <3>2. Len(read) \in Nat
      BY <3>1, ReadFacts
    <3>3. counts.insert \in Nat /\ counts.skip \in Nat
      <4>1. ASSUME NEW existing
            PROVE  Cardinality(skipped(existing)) \in Nat
                   /\ Len(read) - Cardinality(skipped(existing)) \in Nat
        BY <3>2, CountOf
      <4> QED BY <4>1 DEF DryCounts
    <3>4. /\ dry' = [stage |-> "shown", report |-> dry.report, zone |-> dry.zone,
                     insert |-> counts.insert, skip |-> counts.skip,
                     answered |-> answered, current |-> TRUE]
          /\ UNCHANGED <<table, runs, rows>>
      BY <2>5 DEF DryLookup
    <3> HIDE DEF counts
    <3>5. dry' \in DryRun
      BY <3>1, <3>3, <3>4 DEF DryRun
    <3> QED BY <1>2, <3>4, <3>5, OnlyDryChanges
  <2>6. ASSUME NEW shape \in Table, AlterTable(shape) PROVE IInv'
    <3>1. table' \in Table /\ UNCHANGED <<runs, rows, dry>>
      BY <2>6 DEF AlterTable
    <3> QED BY <1>2, <3>1, OnlyTableChanges
  <2>7. ASSUME UNCHANGED vars PROVE IInv'
    BY <1>2, <2>7, <2>0, OnlyTableChanges DEF vars
  <2> QED BY <1>2, <2>1, <2>2, <2>3, <2>4, <2>5, <2>6, <2>7 DEF Next
<1> QED BY <1>1, <1>2, PTL DEF Spec

\* Rows, runs, table and dry run are what the code can make them.
THEOREM TypeCorrect == Spec => []TypeOK
<1>1. IInv => TypeOK
  BY DEF IInv
<1> QED BY <1>1, Invariance, PTL

-----------------------------------------------------------------------------
(* What the table says *)

\* A line of a run that was read, and the row of it.
LEMMA LineOfRun ==
  ASSUME IInv, NEW n \in DOMAIN runs
  PROVE  /\ runs[n].report \in Reports /\ runs[n].zone \in Zones
         /\ SaidBy(runs[n]) = Said[InputOf(runs[n])]
         /\ InputOf(runs[n]) = <<runs[n].report, runs[n].zone>>
         /\ DOMAIN SaidBy(runs[n]) = DOMAIN runs[n].report.events
         /\ \A i \in DOMAIN runs[n].report.events :
              /\ runs[n].report.events[i] \in Event
              /\ Read[InputOf(runs[n])][i] = RowOf(runs[n].zone, Line(runs[n].report.events[i]))
              /\ SaidBy(runs[n])[i] = Tells(runs[n].zone, runs[n].report.events[i])
<1>1. runs[n] \in Run
  BY TypeParts DEF IInv
<1>2. runs[n].report \in Reports /\ runs[n].zone \in Zones
  BY <1>1 DEF Run
<1> QED BY <1>2, ReadFacts DEF SaidBy, InputOf

LEMMA RowFacts ==
  ASSUME IInv, NEW r \in rows
  PROVE  /\ r.run \in DOMAIN runs
         /\ InputOf(runs[r.run]) \in Readable
         /\ r.line \in DOMAIN runs[r.run].report.events
         /\ r.row = Read[InputOf(runs[r.run])][r.line]
BY TypeParts DEF IInv, RowsRead

\* A stored hash is that of a row which says what the line says.
LEMMA SaidOnceStored ==
  ASSUME IInv, NEW zone \in Zones, NEW event \in Event,
         Localize(zone, Local(HostZone, event.utc)) \in Int,
         RowOf(zone, Line(event)).hash \in Stored, Plain(Tells(zone, event))
  PROVE  Tells(zone, event) \in InTable
<1>1. PICK r \in rows : r.row.hash = RowOf(zone, Line(event)).hash
  BY DEF Stored
<1> DEFINE run == runs[r.run]
           other == run.report.events[r.line]
<1>2. /\ run.report \in Reports /\ run.zone \in Zones
      /\ r.line \in DOMAIN run.report.events /\ other \in Event
      /\ r.row = RowOf(run.zone, Line(other))
      /\ SaidBy(run)[r.line] = Tells(run.zone, other)
      /\ <<run.report, run.zone>> \in Readable
  BY RowFacts, LineOfRun
<1> HIDE DEF run
<1>3. Localize(run.zone, Local(HostZone, other.utc)) \in Int
  BY <1>2, ReadableFacts
<1>4. RowOf(zone, Line(event)).hash = RowOf(run.zone, Line(other)).hash
  BY <1>1, <1>2
<1> HIDE DEF other
<1>5. Tells(zone, event) = Tells(run.zone, other)
  BY <1>2, <1>3, <1>4, LinesTold
<1> QED BY <1>2, <1>5 DEF InTable, run

\* No line of an ok run is missing from the table, unless it has the separator in
\* a text: among lines without it, one hash is one line.
THEOREM EveryLineStoredAlways == Spec => []EveryLineStored
<1>1. ASSUME IInv PROVE EveryLineStored
  <2> SUFFICES ASSUME NEW n \in DOMAIN runs, runs[n].status = "ok",
                      NEW said \in Range(SaidBy(runs[n])), Plain(said)
               PROVE  said \in InTable
    BY DEF EveryLineStored
  <2> DEFINE zone == runs[n].zone
             report == runs[n].report
  <2>1. /\ report \in Reports /\ zone \in Zones /\ <<report, zone>> \in Readable
        /\ AllStored(runs[n], Stored)
    BY <1>1, LineOfRun DEF IInv
  <2>2. PICK i \in DOMAIN report.events : said = Tells(zone, report.events[i])
    BY <1>1, LineOfRun DEF Range
  <2>3. report.events[i] \in Event /\ Localize(zone, Local(HostZone, report.events[i].utc)) \in Int
    BY <1>1, <2>1, LineOfRun, ReadableFacts
  <2>4. RowOf(zone, Line(report.events[i])).hash \in Stored
    BY <1>1, <2>1, LineOfRun DEF AllStored
  <2> QED BY <1>1, <2>1, <2>2, <2>3, <2>4, SaidOnceStored
<1> QED BY <1>1, Invariance, PTL

LEMMA LocalIsInt == ASSUME NEW u \in Int PROVE Local(HostZone, u) \in Int
BY ZonesAssumption DEF Local, Offset, Zone

\* No event moves: the stored instant shows the time of its line, and in the zone
\* of the host it is the instant of the event, but for the second pass of a
\* repeated hour; and there no event is refused for its time.
THEOREM StoredInstantsTrueAlways == Spec => []StoredInstantsTrue
<1>1. ASSUME IInv, NEW n \in DOMAIN runs, runs[n].zone = HostZone,
             runs[n].status = "parse_failed"
      PROVE  ~Complete(runs[n].report)
  <2> SUFFICES ASSUME Complete(runs[n].report) PROVE FALSE
    OBVIOUS
  <2> DEFINE report == runs[n].report
  <2>1. /\ report \in Reports /\ HostZone \in Zones
        /\ <<report, HostZone>> \notin Readable
    BY <1>1, LineOfRun DEF IInv
  <2>2. PICK i \in DOMAIN report.events : Bad(HostZone, Line(report.events[i]))
    BY <2>1, ReadableFacts DEF Complete
  <2> DEFINE event == report.events[i]
  <2>3. event \in Event /\ Strip(event.door) # <<>> /\ Strip(event.description) # <<>>
    BY <1>1, LineOfRun DEF Complete, Range
  <2>4. Localize(HostZone, Local(HostZone, event.utc)) = Malformed
    BY <2>2, <2>3, LineFacts DEF Bad
  <2>5. event.utc \in Int /\ HostZone \in Zone
    BY <2>3, EventTexts, ZonesAssumption
  <2>6. Localize(HostZone, Local(HostZone, event.utc)) \in Int
    BY <2>5, EventKeepsItsInstant DEF Zone
  <2> QED BY <2>4, <2>6, MalformedAssumption
<1>2. ASSUME IInv, NEW r \in rows
      PROVE  LET event == runs[r.run].report.events[r.line]
                 zone == runs[r.run].zone
                 shown == Local(HostZone, event.utc)
                 secondPass == Ambiguous(HostZone, shown) /\ event.utc >= HostZone.at
             IN  /\ Local(zone, r.row.columns.ts) = shown
                 /\ zone = HostZone =>
                      r.row.columns.ts = IF secondPass
                                         THEN event.utc - (HostZone.before - HostZone.after)
                                         ELSE event.utc
  <2> DEFINE run == runs[r.run]
             event == run.report.events[r.line]
             shown == Local(HostZone, event.utc)
  <2>1. /\ run.report \in Reports /\ run.zone \in Zones /\ event \in Event
        /\ r.line \in DOMAIN run.report.events
        /\ r.row = RowOf(run.zone, Line(event))
        /\ <<run.report, run.zone>> \in Readable
    BY <1>2, RowFacts, LineOfRun
  <2>2. Localize(run.zone, shown) \in Int
    BY <2>1, ReadableFacts
  <2>3. r.row.columns.ts = Localize(run.zone, shown)
    BY <2>1, ColumnsAre DEF RowOf
  <2>4. shown \in Int /\ run.zone \in Zone /\ event.utc \in Int
    BY <2>1, EventTexts, LocalIsInt, ZonesAssumption
  <2>5. Local(run.zone, r.row.columns.ts) = shown
    BY <2>2, <2>3, <2>4, MalformedAssumption, LocalizeIsEarliest
  <2>6. ASSUME run.zone = HostZone
        PROVE  r.row.columns.ts = IF Ambiguous(HostZone, shown) /\ event.utc >= HostZone.at
                                  THEN event.utc - (HostZone.before - HostZone.after)
                                  ELSE event.utc
    <3>1. HostZone.at \in Int /\ HostZone.before \in Int /\ HostZone.after \in Int
      BY ZonesAssumption DEF Zone
    <3>2. r.row.columns.ts = Localize(HostZone, shown) /\ event.utc \in Int
      BY <2>3, <2>4, <2>6
    <3> HIDE DEF run, event
    <3> QED BY <3>1, <3>2 DEF Localize, Local, Offset, FoldZero, Ambiguous
  <2> QED BY <2>5, <2>6
<1>3. IInv => StoredInstantsTrue
  BY <1>1, <1>2 DEF StoredInstantsTrue
<1> QED BY <1>3, Invariance, PTL

-----------------------------------------------------------------------------
(* What a run adds *)

\* Lines that say the same have the same columns, so the same hash.
LEMMA SameColumns ==
  ASSUME NEW y, NEW z, NEW e \in Event, NEW f \in Event, Tells(y, e) = Tells(z, f)
  PROVE  RowOf(y, Line(e)).hash = RowOf(z, Line(f)).hash
<1>1. /\ Localize(y, Local(HostZone, e.utc)) = Localize(z, Local(HostZone, f.utc))
      /\ \A field \in TextFields : Strip(e[field]) = Strip(f[field])
  BY TellsFacts
<1>2. /\ Strip(e.description) = Strip(f.description) /\ Strip(e.door) = Strip(f.door)
      /\ Strip(e.employee) = Strip(f.employee) /\ Strip(e.person) = Strip(f.person)
      /\ Strip(e.card) = Strip(f.card) /\ Strip(e.facility) = Strip(f.facility)
  BY <1>1 DEF TextFields
<1>3. Extra(e.card, e.facility) = Extra(f.card, f.facility)
  BY <1>2 DEF Extra
<1>4. Fields(y, Line(e)) = Fields(z, Line(f))
  BY <1>1, <1>2, <1>3, LineFacts DEF Fields
<1> QED BY <1>4 DEF RowOf

LEMMA RangeFinite ==
  ASSUME NEW s, NEW n \in Nat, DOMAIN s = 1..n, s = [i \in DOMAIN s |-> s[i]]
  PROVE  IsFiniteSet(Range(s))
<1>1. s \in Surjection(1..n, Range(s))
  BY DEF Surjection, Range
<1>2. IsFiniteSet(1..n)
  BY FS_Interval
<1> QED BY <1>1, <1>2, FS_Surjection

\* With the key, the lines inserted are as many as the things the report says
\* that the table does not, if none of them has the separator.
LEMMA InsertedCount ==
  ASSUME IInv, table.unique, NEW report \in Reports, NEW zone \in Zones,
         <<report, zone>> \in Readable
  PROVE  LET read == Read[<<report, zone>>]
             lines == Inserted(read, Len(read))
             said == Range(Said[<<report, zone>>])
         IN  /\ Cardinality(lines) <= Cardinality(said \ InTable)
             /\ (\A line \in said : Plain(line)) => Cardinality(lines) = Cardinality(said \ InTable)
<1> DEFINE read == Read[<<report, zone>>]
           s == Said[<<report, zone>>]
           n == Len(read)
           lines == Inserted(read, n)
           new == Range(s) \ InTable
           f == [i \in lines |-> s[i]]
<1>1. /\ n \in Nat /\ DOMAIN s = 1..n /\ n = Len(report.events)
      /\ DOMAIN report.events = 1..n
      /\ \A i \in 1..n : /\ report.events[i] \in Event
                         /\ read[i] = RowOf(zone, Line(report.events[i]))
                         /\ s[i] = Tells(zone, report.events[i])
                         /\ Localize(zone, Local(HostZone, report.events[i].utc)) \in Int
  BY ReadFacts, ReadableFacts
<1>2. s = [i \in DOMAIN s |-> s[i]]
  BY DEF Said
<1>3. /\ lines \subseteq 1..n
      /\ \A i \in lines : /\ read[i].hash \notin Stored
                          /\ \A j \in 1..(i - 1) : read[j].hash # read[i].hash
  BY DEF Inserted
<1> HIDE DEF s, read, lines
<1>4. ASSUME NEW i \in 1..n, NEW j \in 1..n, s[i] = s[j] PROVE read[i].hash = read[j].hash
  <2> DEFINE e == report.events[i]
             g == report.events[j]
  <2>1. e \in Event /\ g \in Event /\ Tells(zone, e) = Tells(zone, g)
    BY <1>1, <1>4
  <2>2. read[i] = RowOf(zone, Line(e)) /\ read[j] = RowOf(zone, Line(g))
    BY <1>1
  <2> HIDE DEF e, g
  <2> QED BY <2>1, <2>2, SameColumns
<1>5. ASSUME NEW i \in lines PROVE s[i] \in new
  <2>1. s[i] \in Range(s)
    BY <1>1, <1>3 DEF Range
  <2>2. SUFFICES ASSUME s[i] \in InTable PROVE FALSE
    BY <2>1
  <2>3. PICK r \in rows : SaidBy(runs[r.run])[r.line] = s[i]
    BY <2>2 DEF InTable
  <2> DEFINE run == runs[r.run]
             other == run.report.events[r.line]
  <2>4. /\ other \in Event /\ r.row = RowOf(run.zone, Line(other))
        /\ SaidBy(run)[r.line] = Tells(run.zone, other)
    BY RowFacts, LineOfRun
  <2> HIDE DEF run
  <2>5. r.row.hash = read[i].hash
    <3>1. i \in 1..n
      BY <1>3
    <3>2. Tells(run.zone, other) = Tells(zone, report.events[i])
      BY <3>1, <2>3, <2>4, <1>1 DEF run
    <3> HIDE DEF other
    <3> QED BY <3>1, <3>2, <2>4, <1>1, SameColumns
  <2>6. read[i].hash \in Stored
    BY <2>5 DEF Stored
  <2> QED BY <2>6, <1>3
<1>6. ASSUME NEW i \in lines, NEW j \in lines, s[i] = s[j] PROVE i = j
  <2>1. i \in 1..n /\ j \in 1..n /\ read[i].hash = read[j].hash
    BY <1>3, <1>4, <1>6
  <2>2. ASSUME i < j PROVE FALSE
    <3>1. i \in 1..(j - 1)
      BY <2>1, <2>2
    <3> QED BY <2>1, <3>1, <1>3
  <2>3. ASSUME j < i PROVE FALSE
    <3>1. j \in 1..(i - 1)
      BY <2>1, <2>3
    <3> QED BY <2>1, <3>1, <1>3
  <2> QED BY <2>1, <2>2, <2>3, <1>1
<1>7. f \in Injection(lines, new)
  <2>1. f \in [lines -> new]
    BY <1>5
  <2>2. \A i, j \in lines : f[i] = f[j] => i = j
    BY <1>6
  <2>3. DOMAIN f = lines
    OBVIOUS
  <2> HIDE DEF f, new
  <2> QED BY <2>1, <2>2, <2>3 DEF Injection, IsInjective
<1>8. IsFiniteSet(new)
  <2>1. IsFiniteSet(Range(s))
    BY <1>1, <1>2, RangeFinite
  <2> QED BY <2>1, FS_Subset
<1>9. /\ Cardinality(lines) <= Cardinality(new)
      /\ Cardinality(lines) = Cardinality(new) <=> f \in Surjection(lines, new)
  <2> HIDE DEF f, new
  <2> QED BY <1>7, <1>8, FS_Injection
<1>10. ASSUME \A line \in Range(s) : Plain(line) PROVE f \in Surjection(lines, new)
  <2>1. ASSUME NEW said \in new PROVE \E i \in lines : s[i] = said
    <3>1. PICK k \in 1..n : s[k] = said
      BY <1>1 DEF Range
    <3> DEFINE same == {j \in 1..n : read[j].hash = read[k].hash}
    <3>2. same \in SUBSET Nat /\ k \in same
      OBVIOUS
    <3>3. PICK m \in same : \A x \in same : m <= x
      BY <3>2, LeastElement
    <3>4. m \in 1..n /\ read[m].hash = read[k].hash
      BY <3>3
    <3>5. Plain(s[k]) /\ s[k] \notin InTable
      BY <1>10, <2>1, <3>1
    <3>6. s[m] = s[k]
      <4>1. Tells(zone, report.events[k]) = Tells(zone, report.events[m])
        BY <1>1, <3>4, <3>5, LinesTold
      <4> QED BY <4>1, <1>1, <3>4
    <3>7. read[m].hash \notin Stored
      BY <1>1, <3>4, <3>5, SaidOnceStored
    <3>8. \A j \in 1..(m - 1) : read[j].hash # read[m].hash
      <4> SUFFICES ASSUME NEW j \in 1..(m - 1), read[j].hash = read[m].hash PROVE FALSE
        OBVIOUS
      <4>1. j \in same
        BY <3>4
      <4>2. m <= j
        BY <3>3, <4>1
      <4> QED BY <4>2, <3>4
    <3>9. m \in lines
      BY <3>4, <3>7, <3>8 DEF lines, Inserted
    <3> QED BY <3>1, <3>6, <3>9
  <2>2. f \in [lines -> new] /\ \A i \in lines : f[i] = s[i]
    BY <1>5
  <2> HIDE DEF f, new
  <2> QED BY <2>1, <2>2 DEF Surjection
<1> QED BY <1>9, <1>10 DEF s, read, lines

\* With the key, an ok run adds a row for each new thing its CSV says and none else,
\* whatever runs, repairs and dry runs came before it.
THEOREM OnlyNewLinesAddedAlways == Spec => OnlyNewLinesAdded
<1> DEFINE Adds(n) ==
      LET said == Range(SaidBy(runs'[n]))
      IN  runs'[n].status = "ok" /\ table.unique =>
            /\ runs'[n].inserted <= Cardinality(said \ InTable)
            /\ (\A line \in said : Plain(line)) =>
                 runs'[n].inserted = Cardinality(said \ InTable)
<1>1. ASSUME IInv, [Next]_vars, NEW n \in DOMAIN runs' \ DOMAIN runs PROVE Adds(n)
  <2>0. runs \in Seq(Run)
    BY <1>1, TypeParts DEF IInv
  <2>1. ASSUME NEW report \in Reports, NEW zone \in Zones, RunOk(report, zone) PROVE Adds(n)
    <3> DEFINE read == Read[<<report, zone>>]
               lines == Inserted(read, Len(read))
               run == [report |-> report, zone |-> zone, status |-> "ok",
                       inserted |-> Cardinality(lines),
                       duplicate |-> Len(read) - Cardinality(lines)]
    <3>1. <<report, zone>> \in Readable /\ runs' = Append(runs, run)
      BY <2>1 DEF RunOk, Ends
    <3>2. runs'[n] = run
      <4> HIDE DEF run
      <4>1. DOMAIN runs = 1..Len(runs) /\ DOMAIN runs' = 1..Len(runs) + 1
            /\ runs'[Len(runs) + 1] = run /\ Len(runs) \in Nat
        BY <2>0, <3>1
      <4> QED BY <4>1, <1>1
    <3>3. SaidBy(runs'[n]) = Said[<<report, zone>>] /\ runs'[n].inserted = Cardinality(lines)
      BY <3>2 DEF SaidBy
    <3> HIDE DEF run
    <3> QED BY <1>1, <3>1, <3>3, InsertedCount
  <2>2. ASSUME NEW report, NEW zone, NEW status, NEW inserted, NEW duplicate,
               Ends(report, zone, status, inserted, duplicate), status # "ok"
        PROVE  Adds(n)
    <3> DEFINE run == [report |-> report, zone |-> zone, status |-> status,
                       inserted |-> inserted, duplicate |-> duplicate]
    <3>1. run.status # "ok"
      BY <2>2
    <3>2. runs' = Append(runs, run)
      BY <2>2 DEF Ends
    <3> HIDE DEF run
    <3>3. DOMAIN runs = 1..Len(runs) /\ DOMAIN runs' = 1..Len(runs) + 1
          /\ runs'[Len(runs) + 1] = run /\ Len(runs) \in Nat
      BY <2>0, <3>2
    <3>4. runs'[n] = run
      BY <3>3, <1>1
    <3> QED BY <3>1, <3>4
  <2>3. ASSUME runs' = runs PROVE FALSE
    BY <1>1, <2>3
  <2> QED BY <1>1, <2>1, <2>2, <2>3
      DEF Next, RunRefused, RunFails, DryScrape, DryLookup, AlterTable, vars
<1>2. IInv /\ [Next]_vars =>
        [\A n \in DOMAIN runs' \ DOMAIN runs :
           LET said == Range(SaidBy(runs'[n]))
           IN  runs'[n].status = "ok" /\ table.unique =>
                 /\ runs'[n].inserted <= Cardinality(said \ InTable)
                 /\ (\A line \in said : Plain(line)) =>
                      runs'[n].inserted = Cardinality(said \ InTable)]_vars
  BY <1>1
<1> QED BY <1>2, Invariance, PTL DEF Spec, OnlyNewLinesAdded

-----------------------------------------------------------------------------
(* What a dry run says *)

HashIn(d, hashes) ==
  {i \in 1..Len(Read[InputOf(d)]) : Read[InputOf(d)][i].hash \in hashes}

\* A dry run is of a report that can be read, and what it skips is stored; all
\* that is stored, as long as it is current.
DryTrue(d, hashes) ==
  /\ d.stage # "idle" => InputOf(d) \in Readable
  /\ d.stage = "shown" =>
       \E skip \in SUBSET HashIn(d, hashes) :
         /\ d.insert = Len(Read[InputOf(d)]) - Cardinality(skip)
         /\ d.answered /\ d.current => skip = HashIn(d, hashes)

\* The table only grows, and the dry run ages with it.
LEMMA DryAges ==
  ASSUME IInv, DryTrue(dry, Stored), NEW read, NEW lines, Keeps(read, lines), Ages(lines)
  PROVE  DryTrue(dry', Stored')
<1>1. CASE lines = {}
  <2>1. rows' = rows /\ dry' = dry
    BY <1>1 DEF Keeps, Ages
  <2> QED BY <2>1 DEF Stored
<1>2. CASE dry.stage # "shown"
  <2>1. dry' = dry
    BY <1>2 DEF Ages
  <2> QED BY <1>2, <2>1 DEF DryTrue
<1>3. CASE lines # {} /\ dry.stage = "shown"
  <2>1. dry' = [dry EXCEPT !.current = FALSE] /\ dry \in DryRun
    BY <1>3, TypeParts DEF Ages, IInv
  <2>2. /\ dry'.stage = "shown" /\ dry'.report = dry.report /\ dry'.zone = dry.zone
        /\ dry'.insert = dry.insert /\ ~dry'.current
    BY <1>3, <2>1 DEF DryRun, NoDryRun
  <2>3. InputOf(dry') = InputOf(dry)
    BY <2>2 DEF InputOf
  <2>4. HashIn(dry, Stored) \subseteq HashIn(dry', Stored')
    BY <2>3 DEF HashIn, Keeps, Stored
  <2>5. PICK skip \in SUBSET HashIn(dry, Stored) :
          dry.insert = Len(Read[InputOf(dry)]) - Cardinality(skip)
    BY <1>3 DEF DryTrue
  <2> QED BY <1>3, <2>2, <2>3, <2>4, <2>5 DEF DryTrue
<1> QED BY <1>1, <1>2, <1>3

LEMMA DryInvariance == Spec => [](IInv /\ DryTrue(dry, Stored))
<1>1. ASSUME Init PROVE DryTrue(dry, Stored)
  BY <1>1 DEF Init, DryTrue, NoDryRun
<1>2. ASSUME IInv, DryTrue(dry, Stored), [Next]_vars PROVE DryTrue(dry', Stored')
  <2>1. ASSUME NEW report \in Reports, NEW zone \in Zones, RunOk(report, zone)
        PROVE  DryTrue(dry', Stored')
    BY <1>2, <2>1, DryAges DEF RunOk
  <2>2. ASSUME NEW report \in Reports, NEW zone \in Zones, RunFails(report, zone)
        PROVE  DryTrue(dry', Stored')
    BY <1>2, <2>2, DryAges DEF RunFails
  <2>3. ASSUME UNCHANGED <<rows, dry>> PROVE DryTrue(dry', Stored')
    BY <1>2, <2>3 DEF Stored
  <2>4. ASSUME NEW report \in Reports, NEW zone \in Zones, DryScrape(report, zone)
        PROVE  DryTrue(dry', Stored')
    <3>1. CASE <<report, zone>> \notin Readable
      BY <2>4, <3>1 DEF DryScrape, DryTrue, NoDryRun
    <3>2. CASE <<report, zone>> \in Readable
      <4>1. dry'.stage = "lookup" /\ InputOf(dry') = <<report, zone>>
        BY <2>4, <3>2 DEF DryScrape, InputOf
      <4> QED BY <3>2, <4>1 DEF DryTrue
    <3> QED BY <3>1, <3>2
  <2>5. ASSUME NEW answered \in BOOLEAN, DryLookup(answered) PROVE DryTrue(dry', Stored')
    <3> DEFINE existing == IF answered THEN Stored ELSE {}
               skip == HashIn(dry, existing)
    <3>1. /\ dry.stage = "lookup" /\ dry'.stage = "shown" /\ rows' = rows
          /\ dry'.report = dry.report /\ dry'.zone = dry.zone
          /\ dry'.answered = answered
          /\ dry'.insert = DryCounts(Read[InputOf(dry)], existing).insert
      BY <2>5 DEF DryLookup, InputOf
    <3>2. InputOf(dry') = InputOf(dry) /\ Stored' = Stored
      BY <3>1 DEF InputOf, Stored
    <3>3. dry'.insert = Len(Read[InputOf(dry)]) - Cardinality(skip)
      BY <3>1 DEF DryCounts, HashIn
    <3>4. /\ skip \in SUBSET HashIn(dry', Stored')
          /\ dry'.answered => skip = HashIn(dry', Stored')
      BY <3>1, <3>2 DEF HashIn
    <3>5. InputOf(dry') \in Readable
      BY <1>2, <3>1, <3>2 DEF DryTrue
    <3> HIDE DEF skip, existing
    <3> QED BY <3>1, <3>2, <3>3, <3>4, <3>5 DEF DryTrue
  <2> QED BY <1>2, <2>1, <2>2, <2>3, <2>4, <2>5 DEF Next, RunRefused, AlterTable, vars
<1>3. IInv /\ DryTrue(dry, Stored) /\ [Next]_vars => DryTrue(dry, Stored)'
  BY <1>2
<1> QED BY <1>1, <1>3, Invariance, PTL DEF Spec

Apart(read, n) == \A i, j \in 1..n : read[i].hash = read[j].hash => i = j

InsertsRest(read, n, skip, existing) ==
  /\ Cardinality(Inserted(read, n)) <= n - Cardinality(skip)
  /\ skip = existing /\ Apart(read, n) =>
       Cardinality(Inserted(read, n)) = n - Cardinality(skip)

\* With the key, a report inserts at most its lines that are not stored, and all
\* of them if they are told apart.
LEMMA InsertedOf ==
  ASSUME table.unique, NEW read, NEW n \in Nat,
         NEW existing, existing = {i \in 1..n : read[i].hash \in Stored},
         NEW skip \in SUBSET existing
  PROVE  InsertsRest(read, n, skip, existing)
<1> DEFINE lines == Inserted(read, n)
           rest == (1..n) \ skip
<1>1. skip \subseteq 1..n /\ \A i \in skip : read[i].hash \in Stored
  OBVIOUS
<1>2. lines \subseteq rest
  BY <1>1 DEF Inserted
<1>3. IsFiniteSet(1..n) /\ Cardinality(1..n) = n
  BY FS_Interval
<1>4. IsFiniteSet(rest) /\ Cardinality(rest) = n - Cardinality(skip)
  <2> DEFINE all == 1..n
  <2>1. all \cap skip = skip
    BY <1>1
  <2> HIDE DEF all
  <2>2. IsFiniteSet(all) /\ Cardinality(all) = n /\ all \cap skip = skip
    BY <1>3, <2>1 DEF all
  <2>3. /\ IsFiniteSet(all \ skip)
        /\ Cardinality(all \ skip) = Cardinality(all) - Cardinality(all \cap skip)
    BY <2>2, FS_Difference, Zenon
  <2>4. Cardinality(all \ skip) = n - Cardinality(skip)
    BY <2>2, <2>3, Zenon
  <2> QED BY <2>3, <2>4 DEF all
<1>5. Cardinality(lines) <= Cardinality(rest)
  <2> HIDE DEF lines, rest
  <2> QED BY <1>2, <1>4, FS_Subset
<1>6. ASSUME skip = existing, Apart(read, n) PROVE lines = rest
  <2>1. ASSUME NEW i \in rest PROVE i \in lines
    <3>1. i \in 1..n /\ read[i].hash \notin Stored
      BY <1>6, <2>1
    <3>2. \A j \in 1..(i - 1) : j \in 1..n /\ j # i
      BY <3>1
    <3>3. \A j \in 1..(i - 1) : read[j].hash # read[i].hash
      BY <1>6, <3>1, <3>2 DEF Apart
    <3> QED BY <3>1, <3>3 DEF Inserted
  <2> QED BY <1>2, <2>1
<1> HIDE DEF lines, rest
<1>7. Cardinality(lines) <= n - Cardinality(skip)
  BY <1>4, <1>5
<1>8. skip = existing /\ Apart(read, n) => Cardinality(lines) = n - Cardinality(skip)
  BY <1>4, <1>6
<1> QED BY <1>7, <1>8 DEF InsertsRest, lines

\* A dry run's would_insert is never too low while the key is there, and exact
\* as long as it is current, unless its report repeats a line or has the
\* separator in a text.
THEOREM PreviewHoldsAlways == Spec => PreviewHolds
<1> DEFINE Told(n) ==
      Previewed(runs'[n]) =>
        /\ runs'[n].inserted <= dry.insert
        /\ /\ dry.answered /\ dry.current /\ IsInjective(SaidBy(dry))
           /\ \A line \in Range(SaidBy(dry)) : Plain(line)
           =>
             runs'[n].inserted = dry.insert
<1>1. ASSUME IInv, DryTrue(dry, Stored), [Next]_vars, NEW n \in DOMAIN runs' \ DOMAIN runs,
             Previewed(runs'[n])
      PROVE  Told(n)
  <2>0. runs \in Seq(Run) /\ dry \in DryRun
    BY <1>1, TypeParts DEF IInv
  <2>1. ASSUME NEW report \in Reports, NEW zone \in Zones, RunOk(report, zone) PROVE Told(n)
    <3> DEFINE read == Read[<<report, zone>>]
               count == Len(read)
               lines == Inserted(read, count)
               run == [report |-> report, zone |-> zone, status |-> "ok",
                       inserted |-> Cardinality(lines),
                       duplicate |-> count - Cardinality(lines)]
    <3>1. <<report, zone>> \in Readable /\ runs' = Append(runs, run)
      BY <2>1 DEF RunOk, Ends
    <3>2. runs'[n] = run
      <4> HIDE DEF run
      <4>1. DOMAIN runs = 1..Len(runs) /\ DOMAIN runs' = 1..Len(runs) + 1
            /\ runs'[Len(runs) + 1] = run /\ Len(runs) \in Nat
        BY <2>0, <3>1
      <4> QED BY <4>1, <1>1
    <3>3. /\ dry.report = report /\ dry.zone = zone /\ dry.stage = "shown"
          /\ table.unique /\ runs'[n].inserted = Cardinality(lines)
      BY <1>1, <3>2 DEF Previewed
    <3>4. InputOf(dry) = <<report, zone>> /\ SaidBy(dry) = Said[<<report, zone>>]
      BY <3>3 DEF InputOf, SaidBy
    <3>5. /\ count \in Nat /\ DOMAIN Said[<<report, zone>>] = 1..count
          /\ DOMAIN report.events = 1..count
          /\ \A i \in 1..count : /\ report.events[i] \in Event
                                 /\ read[i] = RowOf(zone, Line(report.events[i]))
                                 /\ Said[<<report, zone>>][i] = Tells(zone, report.events[i])
                                 /\ Localize(zone, Local(HostZone, report.events[i].utc)) \in Int
      BY <3>1, ReadFacts, ReadableFacts
    <3>6. PICK skip \in SUBSET HashIn(dry, Stored) :
            /\ dry.insert = count - Cardinality(skip)
            /\ dry.answered /\ dry.current => skip = HashIn(dry, Stored)
      BY <1>1, <3>3, <3>4 DEF DryTrue
    <3>7. InsertsRest(read, count, skip, HashIn(dry, Stored))
      <4>1. HashIn(dry, Stored) = {i \in 1..count : read[i].hash \in Stored}
        BY <3>4 DEF HashIn
      <4>2. count \in Nat /\ table.unique
        BY <3>3, <3>5
      <4> HIDE DEF read, count
      <4> QED BY <3>6, <4>1, <4>2, InsertedOf, Zenon
    <3>8. ASSUME IsInjective(SaidBy(dry)), \A line \in Range(SaidBy(dry)) : Plain(line),
                 NEW i \in 1..count, NEW j \in 1..count, read[i].hash = read[j].hash
          PROVE  i = j
      <4> DEFINE s == Said[<<report, zone>>]
      <4>1. Plain(s[i])
        BY <3>4, <3>5, <3>8 DEF Range
      <4>2. Tells(zone, report.events[i]) = Tells(zone, report.events[j])
        BY <3>5, <3>8, <4>1, LinesTold
      <4>3. s[i] = s[j]
        BY <3>5, <4>2
      <4> QED BY <3>4, <3>5, <3>8, <4>3 DEF IsInjective
    <3>9. IsInjective(SaidBy(dry)) /\ (\A line \in Range(SaidBy(dry)) : Plain(line)) =>
            Apart(read, count)
      BY <3>8 DEF Apart
    <3>10. /\ Cardinality(lines) <= count - Cardinality(skip)
           /\ skip = HashIn(dry, Stored) /\ Apart(read, count) =>
                Cardinality(lines) = count - Cardinality(skip)
      BY <3>7 DEF InsertsRest
    <3> HIDE DEF run, lines, read, count
    <3> QED BY <3>3, <3>6, <3>9, <3>10
  <2>2. ASSUME NEW report, NEW zone, NEW status, NEW inserted, NEW duplicate,
               Ends(report, zone, status, inserted, duplicate), status # "ok"
        PROVE  FALSE
    <3> DEFINE run == [report |-> report, zone |-> zone, status |-> status,
                       inserted |-> inserted, duplicate |-> duplicate]
    <3>1. run.status # "ok"
      BY <2>2
    <3>2. runs' = Append(runs, run)
      BY <2>2 DEF Ends
    <3> HIDE DEF run
    <3>3. DOMAIN runs = 1..Len(runs) /\ DOMAIN runs' = 1..Len(runs) + 1
          /\ runs'[Len(runs) + 1] = run /\ Len(runs) \in Nat
      BY <2>0, <3>2
    <3>4. runs'[n] = run
      BY <3>3, <1>1
    <3> QED BY <1>1, <3>1, <3>4 DEF Previewed
  <2>3. ASSUME runs' = runs PROVE FALSE
    BY <1>1, <2>3
  <2> QED BY <1>1, <2>1, <2>2, <2>3
      DEF Next, RunRefused, RunFails, DryScrape, DryLookup, AlterTable, vars
<1>2. IInv /\ DryTrue(dry, Stored) /\ [Next]_vars =>
        [\A n \in DOMAIN runs' \ DOMAIN runs : Previewed(runs'[n]) =>
           /\ runs'[n].inserted <= dry.insert
           /\ /\ dry.answered /\ dry.current /\ IsInjective(SaidBy(dry))
              /\ \A line \in Range(SaidBy(dry)) : Plain(line)
              =>
                runs'[n].inserted = dry.insert]_vars
  BY <1>1
<1> QED BY <1>2, DryInvariance, PTL DEF Spec, PreviewHolds

-----------------------------------------------------------------------------
(* A day read again *)

RunAgain(report, zone) == RunOk(report, zone) \/ RunFails(report, zone)

\* With the unique key, what an ok run has read in a zone is never inserted again.
RereadAddsNothing ==
  \A report \in Reports, zone \in Zones :
    /\ table.unique
    /\ \E n \in DOMAIN runs : runs[n].status = "ok" /\ InputOf(runs[n]) = <<report, zone>>
    /\ RunAgain(report, zone)
    => rows' = rows

LEMMA NothingInserted ==
  ASSUME IInv, table.unique, NEW n \in DOMAIN runs, runs[n].status = "ok",
         NEW sent \in 0..Len(Read[InputOf(runs[n])])
  PROVE  Inserted(Read[InputOf(runs[n])], sent) = {}
<1>1. /\ InputOf(runs[n]) \in Readable
      /\ AllStored(runs[n], Stored)
      /\ runs[n].report \in Reports /\ runs[n].zone \in Zones
  <2>1. runs \in Seq(Run)
    BY TypeParts DEF IInv
  <2>2. runs[n] \in Run
    BY <2>1
  <2>3. runs[n].report \in Reports /\ runs[n].zone \in Zones
    BY <2>2 DEF Run
  <2> QED BY <2>3 DEF IInv
<1>2. DOMAIN runs[n].report.events = 1..Len(Read[InputOf(runs[n])])
  BY <1>1, ReadFacts DEF InputOf
<1>3. \A i \in 1..sent : Read[InputOf(runs[n])][i].hash \in Stored
  BY <1>1, <1>2 DEF AllStored
<1> QED BY <1>3 DEF Inserted

(* A run of a report that an ok run has read in the same zone adds no row, *)
(* ends it well or not, whatever was stored or altered in between: also if *)
(* the first of the two found the table without its key, and also for      *)
(* texts with the separator in them (sink.py:64, dedup.py:68).             *)
THEOREM RereadAddsNothingAlways == Spec => [][RereadAddsNothing]_vars
<1>1. ASSUME IInv, table.unique, NEW report \in Reports, NEW zone \in Zones,
             NEW n \in DOMAIN runs, runs[n].status = "ok", InputOf(runs[n]) = <<report, zone>>,
             RunAgain(report, zone)
      PROVE  rows' = rows
  <2> DEFINE read == Read[<<report, zone>>]
  <2>1. PICK sent \in 0..Len(read) : Keeps(read, Inserted(read, sent))
    <3>1. Len(read) \in Nat
      BY ReadFacts
    <3> QED BY <1>1, <3>1 DEF RunAgain, RunOk, RunFails
  <2>2. Inserted(read, sent) = {}
    BY <1>1, NothingInserted
  <2> HIDE DEF read
  <2> QED BY <2>1, <2>2 DEF Keeps
<1>2. IInv /\ [Next]_vars => RereadAddsNothing
  BY <1>1 DEF RereadAddsNothing
<1> QED BY <1>2, Invariance, PTL DEF Spec
=============================================================================
