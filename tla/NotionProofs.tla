----------------------------- MODULE NotionProofs ------------------------------
(***************************************************************************)
(* What is proved of NotionDestination, for every schema, mapping, lead and   *)
(* column order and however the schema is edited at Notion: no field is lost   *)
(* in silence, and an unedited database takes what a saved mapping sends it.   *)
(***************************************************************************)
EXTENDS NotionDestination, FiniteSetTheorems, TLAPS

\* A destination's mapping fits the schema it was held against.
Checked(d) == Valid(d.mapping, d.checked)

\* What Write has made of its lead before the first attempt stays what it sends.
Begun(c) ==
  /\ DOMAIN c = {"at", "lead", "source", "mapping", "checked", "props", "dropped", "read",
                 "missing", "added"}
  /\ Checked(c)
  /\ c.props = Page(c)
  /\ c.dropped = {f \in Field : c.lead[f] # "" /\ f \notin Writable(c)}

NotionInv ==
  /\ saving # Nothing => Checked(saving)
  /\ dest # Nothing => Checked(dest)
  /\ confirm # Nothing => Begun(confirm)

------------------------------------------------------------------------------
(* The page of a lead                                                       *)

\* The page depends on the lead and the mapping only.
LEMMA SamePage ==
  ASSUME NEW c, NEW d, d.lead = c.lead, d.mapping = c.mapping
  PROVE  Writable(d) = Writable(c) /\ Page(d) = Page(c)
<1> DEFINE W(m, l) == {f \in Field \cap DOMAIN m : Fits(m[f].type, l[f])}
           P(m, l) == LET sent == {k \in DOMAIN Columns : Columns[k] \in W(m, l)}
                          goes(k) == m[Columns[k]].name
                          last(n) == CHOOSE k \in sent : goes(k) = n /\ \A j \in sent : goes(j) = n => j <= k
                      IN [n \in {goes(k) : k \in sent} |-> l[Columns[last(n)]]]
<1>1. \A e : Writable(e) = W(e.mapping, e.lead)
  BY DEF Writable
<1>2. \A e : Page(e) = P(e.mapping, e.lead)
  BY DEF Page, Writable
<1> HIDE DEF W, P
<1>3. QED BY <1>1, <1>2

\* With a mapping that fits, a field that is sent is found at the property it is mapped
\* to, under the type it is mapped to, and there is nothing else on the page.
LEMMA PageHolds ==
  ASSUME NEW c, Checked(c)
  PROVE  /\ \A f \in Writable(c) :
              /\ c.mapping[f].name \in DOMAIN Page(c)
              /\ Page(c)[c.mapping[f].name] = c.lead[f]
              /\ TypeOf(c, c.mapping[f].name) = c.mapping[f].type
         /\ \A n \in DOMAIN Page(c) : \E f \in Writable(c) : n = c.mapping[f].name
<1> DEFINE sent == {k \in DOMAIN Columns : Columns[k] \in Writable(c)}
           goes(k) == c.mapping[Columns[k]].name
           last(n) == CHOOSE k \in sent : goes(k) = n /\ \A j \in sent : goes(j) = n => j <= k
<1>1. Page(c) = [n \in {goes(k) : k \in sent} |-> c.lead[Columns[last(n)]]]
  BY DEF Page
<1>2. \A f, g \in Writable(c) : c.mapping[f].name = c.mapping[g].name => f = g
  BY DEF Checked, Valid, Writable
<1>3. \A j, k \in DOMAIN Columns : Columns[j] = Columns[k] => j = k
  BY Instances DEF IsInjective
<1>4. DOMAIN Columns \subseteq Nat
  BY Instances
<1>5. ASSUME NEW f \in Writable(c)
      PROVE  /\ c.mapping[f].name \in DOMAIN Page(c)
             /\ Page(c)[c.mapping[f].name] = c.lead[f]
             /\ TypeOf(c, c.mapping[f].name) = c.mapping[f].type
  <2> DEFINE n == c.mapping[f].name
  <2>1. PICK k \in DOMAIN Columns : Columns[k] = f
    BY <1>5 DEF Writable, Field
  <2>2. k \in sent /\ goes(k) = n
    BY <2>1
  <2>3. \A j \in sent : goes(j) = n => j = k
    BY <1>2, <1>3, <2>1
  <2>4. last(n) = k
    BY <1>4, <2>2, <2>3
  <2>5. n \in DOMAIN Page(c) /\ Page(c)[n] = c.lead[f]
    BY <1>1, <2>1, <2>2, <2>4
  <2>6. (CHOOSE g \in Writable(c) : c.mapping[g].name = n) = f
    BY <1>2
  <2>7. QED BY <2>5, <2>6 DEF TypeOf
<1>6. ASSUME NEW n \in DOMAIN Page(c) PROVE \E f \in Writable(c) : n = c.mapping[f].name
  BY <1>1, <1>6
<1>7. QED BY <1>5, <1>6

\* Only what fits its type is sent.
LEMMA PageIsFitting ==
  ASSUME NEW c, Checked(c), NEW n \in DOMAIN Page(c)
  PROVE  n \in DOMAIN c.checked /\ c.checked[n] = TypeOf(c, n) /\ Fits(c.checked[n], Page(c)[n])
<1>1. PICK f \in Writable(c) : n = c.mapping[f].name
  BY PageHolds
<1>2. Page(c)[n] = c.lead[f] /\ TypeOf(c, n) = c.mapping[f].type
  BY <1>1, PageHolds
<1>3. f \in DOMAIN c.mapping /\ Fits(c.mapping[f].type, c.lead[f])
  BY DEF Writable
<1>4. n \in DOMAIN c.checked /\ c.checked[n] = c.mapping[f].type
  BY <1>1, <1>3 DEF Checked, Valid
<1>5. QED BY <1>2, <1>3, <1>4

\* The mapping of the app's own database needs no check.
LEMMA OwnMappingFits == Valid(LeadsDatabaseMapping, LeadsDatabaseSchema)
<1> DEFINE own(f) == <<f, "Title">>
<1>1. ASSUME NEW f \in Field
      PROVE  own(f) \in DOMAIN LeadsDatabaseSchema /\ LeadsDatabaseSchema[own(f)] \in Mappable
  BY DEF LeadsDatabaseSchema, Mappable
<1>2. \A f, g : own(f) = own(g) => f = g
  OBVIOUS
<1>3. LeadsDatabaseMapping = [f \in Field |-> [name |-> own(f), type |-> LeadsDatabaseSchema[own(f)]]]
  BY DEF LeadsDatabaseMapping
<1> HIDE DEF own
<1>4. DOMAIN LeadsDatabaseMapping = Field
  BY <1>3
<1>5. ASSUME NEW f \in Field
      PROVE  /\ LeadsDatabaseMapping[f].name = own(f)
             /\ LeadsDatabaseMapping[f].type = LeadsDatabaseSchema[own(f)]
  BY <1>3
<1>6. QED BY <1>1, <1>2, <1>4, <1>5 DEF Valid

------------------------------------------------------------------------------
(* AutoMap                                                                  *)

\* A nonempty set of naturals has a least element: what stands in for induction below.
LEMMA LeastNatural ==
  ASSUME NEW S \in SUBSET Nat, S # {}
  PROVE  \E n \in S : \A k \in S : n <= k
<1> DEFINE R == OpToRel(<, Nat)
<1>1. IsWellFoundedOn(R, Nat)
  BY NatLessThanWellFounded, Zenon
<1>2. ASSUME NEW a \in Nat, NEW b \in Nat, a < b PROVE <<a, b>> \in R
  BY <1>2, Zenon DEF OpToRel
<1> HIDE DEF R
<1>3. PICK n \in S : \A k \in S : ~(<<k, n>> \in R)
  BY <1>1, WFMin, Zenon
<1>4. ASSUME NEW k \in S PROVE n <= k
  <2>1. ~(k < n)
    BY <1>2, <1>3, Zenon
  <2>2. QED BY <2>1
<1>5. QED BY <1>4

\* The mappings a pass goes through, m being the one it starts from
Going(pass, m, s, n, g) ==
  g = [k \in 0..n |-> IF k = 0 THEN m ELSE Take(pass, g[k - 1], Columns[k], s)]

\* The recursion of Pass has a solution: there is no least column it cannot get to.
LEMMA PassGoesOn ==
  ASSUME NEW pass, NEW m, NEW s, NEW n \in Nat
  PROVE  \E g : Going(pass, m, s, n, g)
<1> DEFINE T(x, k) == Take(pass, x, Columns[k], s)
           Stuck == {i \in Nat : ~ \E g : g = [k \in 0..i |-> IF k = 0 THEN m ELSE T(g[k - 1], k)]}
<1> HIDE DEF T
<1>1. SUFFICES ASSUME Stuck # {} PROVE FALSE
  BY DEF Going, T
<1>2. PICK i \in Stuck : \A j \in Stuck : i <= j
  <2>1. Stuck \in SUBSET Nat
    OBVIOUS
  <2> HIDE DEF Stuck
  <2>2. QED BY <1>1, <2>1, LeastNatural
<1>3. i # 0
  <2>1. SUFFICES ASSUME i = 0 PROVE FALSE
    OBVIOUS
  <2> DEFINE g == [k \in {0} |-> m]
  <2>2. g = [k \in 0..0 |-> IF k = 0 THEN m ELSE T(g[k - 1], k)]
    OBVIOUS
  <2> HIDE DEF g
  <2>3. QED BY <1>2, <2>1, <2>2
<1>4. i - 1 \in Nat /\ i - 1 \notin Stuck
  BY <1>2, <1>3
<1>5. PICK g : g = [k \in 0..(i - 1) |-> IF k = 0 THEN m ELSE T(g[k - 1], k)]
  BY <1>4
<1> DEFINE h == [k \in 0..i |-> IF k = i THEN T(g[i - 1], i) ELSE g[k]]
<1>6. ASSUME NEW k \in 0..i PROVE h[k] = IF k = 0 THEN m ELSE T(h[k - 1], k)
  <2>1. CASE k = i
    BY <1>3, <1>4, <2>1
  <2>2. CASE k # i
    <3>1. h[k] = g[k] /\ k \in 0..(i - 1)
      BY <1>4, <2>2
    <3>2. k # 0 => k - 1 \in 0..i /\ k - 1 # i /\ h[k - 1] = g[k - 1]
      BY <1>4, <3>1
    <3>3. g[k] = IF k = 0 THEN m ELSE T(g[k - 1], k)
      BY <1>5, <3>1
    <3>4. QED BY <3>1, <3>2, <3>3
  <2>3. QED BY <2>1, <2>2
<1>7. DOMAIN h = 0..i /\ h = [k \in 0..i |-> h[k]]
  OBVIOUS
<1> HIDE DEF h
<1>8. h = [k \in 0..i |-> IF k = 0 THEN m ELSE T(h[k - 1], k)]
  BY <1>6, <1>7
<1>9. QED BY <1>2, <1>8

\* Induction over a pass: what its start has, and each column's turn passes on, its
\* result has.
LEMMA PassKeeps ==
  ASSUME NEW pass, NEW m, NEW s, NEW I,
         <<m, 0>> \in I,
         \A k \in DOMAIN Columns : \A x :
           <<x, k - 1>> \in I => <<Take(pass, x, Columns[k], s), k>> \in I
  PROVE  <<Pass(pass, m, s), Len(Columns)>> \in I
<1> DEFINE N == Len(Columns)
           g == CHOOSE f : f = [k \in 0..N |-> IF k = 0 THEN m ELSE Take(pass, f[k - 1], Columns[k], s)]
<1>1. N \in Nat /\ DOMAIN Columns = 1..N
  BY Instances
<1>2. Pass(pass, m, s) = g[N]
  BY DEF Pass
<1>3. \E f : f = [k \in 0..N |-> IF k = 0 THEN m ELSE Take(pass, f[k - 1], Columns[k], s)]
  <2>1. PICK h : Going(pass, m, s, N, h)
    BY <1>1, PassGoesOn
  <2>2. QED BY <2>1, Zenon DEF Going
<1>4. g = [k \in 0..N |-> IF k = 0 THEN m ELSE Take(pass, g[k - 1], Columns[k], s)]
  BY <1>3
<1> HIDE DEF g, N
<1>5. g[0] = m /\ \A k \in 1..N : g[k] = Take(pass, g[k - 1], Columns[k], s)
  BY <1>1, <1>4
<1> DEFINE Bad == {k \in 0..N : <<g[k], k>> \notin I}
<1>6. Bad = {}
  <2>1. SUFFICES ASSUME Bad # {} PROVE FALSE
    OBVIOUS
  <2>2. Bad \in SUBSET Nat
    BY <1>1
  <2>3. PICK k \in Bad : \A j \in Bad : k <= j
    <3> HIDE DEF Bad
    <3>1. QED BY <2>1, <2>2, LeastNatural
  <2>4. k # 0
    BY <1>5, <2>3
  <2>5. k \in 1..N /\ k - 1 \in 0..N /\ k - 1 \notin Bad
    BY <1>1, <2>3, <2>4
  <2>6. <<g[k - 1], k - 1>> \in I
    BY <2>5
  <2>7. QED BY <1>1, <1>5, <2>3, <2>5, <2>6
<1>7. <<g[N], N>> \in I
  BY <1>1, <1>6
<1>8. QED BY <1>2, <1>7 DEF N

\* The mappings that fit a schema
Fitting(s) ==
  {m \in UNION {[F -> [name: DOMAIN s, type: Mappable]] : F \in SUBSET Field} : Valid(m, s)}

LEMMA ShapeOfFitting ==
  ASSUME NEW s, NEW m
  PROVE  m \in Fitting(s) <=>
           /\ DOMAIN m \subseteq Field /\ Valid(m, s)
           /\ m \in [DOMAIN m -> [name: DOMAIN s, type: Mappable]]
  BY DEF Fitting

\* A free property of a kind that can be written is claimed without harm.
LEMMA ClaimFits ==
  ASSUME NEW s, NEW m \in Fitting(s), NEW f \in Field \ DOMAIN m, NEW n \in DOMAIN s,
         Free(m, n), s[n] \in Mappable
  PROVE  /\ Claim(m, f, n, s) \in Fitting(s)
         /\ DOMAIN Claim(m, f, n, s) = DOMAIN m \cup {f}
         /\ Claim(m, f, n, s)[f].name = n
         /\ \A g \in DOMAIN m : Claim(m, f, n, s)[g] = m[g]
<1> DEFINE new == [name |-> n, type |-> s[n]]
           c == [g \in DOMAIN m \cup {f} |-> IF g = f THEN new ELSE m[g]]
<1>1. c = Claim(m, f, n, s)
  BY DEF Claim
<1>2. new.name = n /\ new.type = s[n] /\ new \in [name: DOMAIN s, type: Mappable]
  OBVIOUS
<1> HIDE DEF new
<1>3. /\ DOMAIN c = DOMAIN m \cup {f} /\ c[f] = new
      /\ \A g \in DOMAIN m : c[g] = m[g]
  OBVIOUS
<1>4. c \in [DOMAIN c -> [name: DOMAIN s, type: Mappable]] /\ DOMAIN c \subseteq Field
  BY <1>2, ShapeOfFitting
<1> HIDE DEF c
<1>5. Valid(m, s)
  BY ShapeOfFitting
<1>6. Valid(c, s)
  BY <1>2, <1>3, <1>5 DEF Valid, Free
<1>7. QED BY <1>1, <1>2, <1>3, <1>4, <1>6, ShapeOfFitting

\* There is a first one among the properties that will do.
LEMMA FirstIsOne ==
  ASSUME NEW s, NEW P \in SUBSET Name, P # {}
  PROVE  First(P, s) \in P
<1> DEFINE R == {Rank(n, s) : n \in P}
<1>1. ASSUME NEW n \in P PROVE Rank(n, s) \in Nat
  <2>1. n \in Name
    OBVIOUS
  <2>2. DOMAIN NameOrder \subseteq Nat
    BY Instances
  <2>3. QED BY <2>1, <2>2 DEF Name, Rank
<1>2. R \in SUBSET Nat /\ R # {}
  BY <1>1
<1>3. PICK r \in R : \A k \in R : r <= k
  <2> HIDE DEF R
  <2>1. QED BY <1>2, LeastNatural
<1>4. \E n \in P : \A p \in P : Rank(n, s) <= Rank(p, s)
  BY <1>3
<1>5. QED BY <1>4 DEF First

Passes == {"exact", "folded", "affinity"}

LEMMA PreferredIsMappable ==
  ASSUME NEW f \in DOMAIN preferredTypes
  PROVE  /\ preferredTypes[f] \in Seq(Mappable)
         /\ DOMAIN preferredTypes[f] = 1..Len(preferredTypes[f])
         /\ \A k \in DOMAIN preferredTypes[f] : preferredTypes[f][k] \in Mappable
<1>1. f \in {"name", "contact", "source", "need", "date", "notes", "flags"}
  BY DEF preferredTypes
<1>2. preferredTypes[f] \in Seq(Mappable)
  <2>1. CASE f = "name"
    BY <2>1 DEF preferredTypes, Mappable
  <2>2. CASE f = "contact"
    BY <2>2 DEF preferredTypes, Mappable
  <2>3. CASE f = "source"
    BY <2>3 DEF preferredTypes, Mappable
  <2>4. CASE f = "need"
    BY <2>4 DEF preferredTypes, Mappable
  <2>5. CASE f = "date"
    BY <2>5 DEF preferredTypes, Mappable
  <2>6. CASE f \in {"notes", "flags"}
    BY <2>6 DEF preferredTypes, Mappable
  <2>7. QED BY <1>1, <2>1, <2>2, <2>3, <2>4, <2>5, <2>6
<1>3. QED BY <1>2

\* What will do is a free property that can be written.
LEMMA WillDoIsFree ==
  ASSUME NEW pass \in Passes, NEW m, NEW f \in DOMAIN preferredTypes, NEW s,
         NEW n \in WillDo(pass, m, f, s)
  PROVE  n \in DOMAIN s /\ Free(m, n) /\ s[n] \in Mappable
<1>1. CASE pass \in {"exact", "folded"}
  BY <1>1 DEF WillDo, Unclaimed
<1>2. CASE pass = "affinity"
  <2>1. PICK k \in DOMAIN preferredTypes[f] : n \in OfType(m, f, preferredTypes[f][k], s)
    BY <1>2 DEF WillDo
  <2>2. QED BY <2>1, PreferredIsMappable DEF OfType, Unclaimed
<1>3. QED BY <1>1, <1>2 DEF Passes

\* A turn claims one of the properties that will do, or changes nothing.
LEMMA TakeClaims ==
  ASSUME NEW pass, NEW m, NEW f, NEW s, WillDo(pass, m, f, s) \subseteq Name
  PROVE  \/ /\ Take(pass, m, f, s) = m
            /\ f \in DOMAIN m \/ WillDo(pass, m, f, s) = {}
         \/ /\ f \notin DOMAIN m
            /\ \E n \in WillDo(pass, m, f, s) : Take(pass, m, f, s) = Claim(m, f, n, s)
<1>1. WillDo(pass, m, f, s) # {} => First(WillDo(pass, m, f, s), s) \in WillDo(pass, m, f, s)
  BY FirstIsOne
<1>2. QED BY <1>1 DEF Take

\* By affinity a field goes without only when each property of a type it prefers, and
\* may take, is taken.
LEMMA AffinityLooksEverywhere ==
  ASSUME NEW m, NEW f \in DOMAIN preferredTypes, NEW s, WillDo("affinity", m, f, s) = {},
         NEW n \in DOMAIN s, s[n] \in Range(preferredTypes[f]), s[n] = "title" => f = "name"
  PROVE  ~Free(m, n)
<1> DEFINE liked(k) == OfType(m, f, preferredTypes[f][k], s)
           K == {k \in DOMAIN preferredTypes[f] : liked(k) # {}}
<1>1. SUFFICES ASSUME Free(m, n) PROVE FALSE
  OBVIOUS
<1>2. PICK i \in DOMAIN preferredTypes[f] : preferredTypes[f][i] = s[n]
  BY DEF Range
<1>3. n \in liked(i)
  BY <1>1, <1>2 DEF OfType, Unclaimed
<1>4. Len(preferredTypes[f]) \in Nat /\ DOMAIN preferredTypes[f] = 1..Len(preferredTypes[f])
  BY PreferredIsMappable
<1>5. PICK k \in K : \A j \in K : k <= j
  <2>1. i \in K
    BY <1>2, <1>3
  <2>2. K \in SUBSET Nat
    <3> HIDE DEF liked
    <3>1. QED BY <1>4
  <2> HIDE DEF K
  <2>3. QED BY <2>1, <2>2, LeastNatural
<1>6. \A j \in 1..(k - 1) : liked(j) = {}
  BY <1>4, <1>5
<1>7. liked(k) \subseteq WillDo("affinity", m, f, s)
  BY <1>5, <1>6 DEF WillDo
<1>8. QED BY <1>5, <1>7

LEMMA FieldsHavePreferences ==
  /\ Field \subseteq DOMAIN preferredTypes
  /\ DOMAIN Columns = 1..Len(Columns) /\ Len(Columns) \in Nat
  /\ \A k \in DOMAIN Columns : Columns[k] \in Field
  BY Instances DEF Field

\* A turn keeps the mapping fitting and what it has, and gives its field something that
\* will do, if anything will.
LEMMA TakeFits ==
  ASSUME NEW pass \in Passes, NEW s, DOMAIN s \subseteq Name, NEW m \in Fitting(s), NEW f \in Field,
         NEW t, t = Take(pass, m, f, s)
  PROVE  /\ t \in Fitting(s)
         /\ \A g \in DOMAIN m : g \in DOMAIN t /\ t[g] = m[g]
         /\ DOMAIN t \subseteq DOMAIN m \cup {f}
         /\ f \notin DOMAIN t => t = m /\ WillDo(pass, m, f, s) = {}
         /\ f \in DOMAIN t \ DOMAIN m => t[f].name \in WillDo(pass, m, f, s)
<1>1. f \in DOMAIN preferredTypes
  BY FieldsHavePreferences
<1>2. \A n \in WillDo(pass, m, f, s) : n \in DOMAIN s /\ Free(m, n) /\ s[n] \in Mappable
  BY <1>1, WillDoIsFree
<1>3. CASE t = m /\ (f \in DOMAIN m \/ WillDo(pass, m, f, s) = {})
  BY <1>3
<1>4. ASSUME f \notin DOMAIN m, NEW n \in WillDo(pass, m, f, s), t = Claim(m, f, n, s)
      PROVE  /\ t \in Fitting(s) /\ DOMAIN t = DOMAIN m \cup {f} /\ t[f].name = n
             /\ \A g \in DOMAIN m : t[g] = m[g]
  <2>1. f \in Field \ DOMAIN m /\ n \in DOMAIN s /\ Free(m, n) /\ s[n] \in Mappable
    BY <1>2, <1>4
  <2>2. /\ Claim(m, f, n, s) \in Fitting(s) /\ DOMAIN Claim(m, f, n, s) = DOMAIN m \cup {f}
        /\ Claim(m, f, n, s)[f].name = n /\ \A g \in DOMAIN m : Claim(m, f, n, s)[g] = m[g]
    BY <2>1, ClaimFits
  <2>3. QED BY <1>4, <2>2
<1>5. CASE f \notin DOMAIN m /\ \E n \in WillDo(pass, m, f, s) : t = Claim(m, f, n, s)
  <2>1. PICK n \in WillDo(pass, m, f, s) : t = Claim(m, f, n, s)
    BY <1>5
  <2>2. /\ t \in Fitting(s) /\ DOMAIN t = DOMAIN m \cup {f} /\ t[f].name = n
        /\ \A g \in DOMAIN m : t[g] = m[g]
    BY <1>4, <1>5, <2>1
  <2>3. QED BY <2>2
<1>6. QED BY <1>2, <1>3, <1>5, TakeClaims

\* A property is free for as long as no field has it.
LEMMA TakenStaysTaken ==
  ASSUME NEW m, NEW t, \A g \in DOMAIN m : g \in DOMAIN t /\ t[g] = m[g], NEW n, ~Free(m, n)
  PROVE  ~Free(t, n)
  BY DEF Free

\* Each of the fields F has the property of its own name, if it can be written.
NamedAlike(m, s, F) ==
  \A f \in F : Called(f) \in DOMAIN s /\ s[Called(f)] \in Mappable =>
    f \in DOMAIN m /\ m[f].name = Called(f)

\* Those of the fields F that go without have nothing to take by affinity.
Asked(m, s, F) ==
  \A f \in F \ DOMAIN m, n \in DOMAIN s :
    s[n] \in Range(preferredTypes[f]) /\ (s[n] = "title" => f = "name") => ~Free(m, n)

UpTo(k) == {Columns[j] : j \in 1..k}

LEMMA UpToAll ==
  /\ UpTo(0) = {} /\ UpTo(Len(Columns)) = Field
  /\ \A k \in DOMAIN Columns : UpTo(k) = UpTo(k - 1) \cup {Columns[k]}
<1>1. UpTo(0) = {} /\ UpTo(Len(Columns)) = Field
  BY FieldsHavePreferences DEF UpTo, Field
<1>2. ASSUME NEW k \in DOMAIN Columns PROVE 1..k = 1..(k - 1) \cup {k}
  BY FieldsHavePreferences
<1>3. QED BY <1>1, <1>2 DEF UpTo

LEMMA ExactPass ==
  ASSUME NEW s, DOMAIN s \subseteq Name, NEW m, m = Pass("exact", NoMapping, s)
  PROVE  m \in Fitting(s) /\ NamedAlike(m, s, Field)
<1> DEFINE Good(x, k) == /\ \A f \in DOMAIN x : x[f].name = Called(f)
                         /\ NamedAlike(x, s, UpTo(k))
           I == {p \in Fitting(s) \X Nat : Good(p[1], p[2])}
<1> HIDE DEF Good
<1>1. <<NoMapping, 0>> \in I
  <2>1. NoMapping \in Fitting(s)
    BY ShapeOfFitting DEF NoMapping, Valid
  <2>2. Good(NoMapping, 0)
    BY UpToAll DEF Good, NoMapping, NamedAlike
  <2>3. QED BY <2>1, <2>2
<1>2. ASSUME NEW k \in DOMAIN Columns, NEW x \in Fitting(s), Good(x, k - 1)
      PROVE  Take("exact", x, Columns[k], s) \in Fitting(s) /\ Good(Take("exact", x, Columns[k], s), k)
  <2> DEFINE f == Columns[k]
  <2>1. PICK t : t = Take("exact", x, f, s)
    OBVIOUS
  <2>2. f \in Field /\ "exact" \in Passes
    BY FieldsHavePreferences DEF Passes
  <2> HIDE DEF f
  <2>3. /\ t \in Fitting(s)
        /\ \A g \in DOMAIN x : g \in DOMAIN t /\ t[g] = x[g]
        /\ DOMAIN t \subseteq DOMAIN x \cup {f}
        /\ f \notin DOMAIN t => t = x /\ WillDo("exact", x, f, s) = {}
        /\ f \in DOMAIN t \ DOMAIN x => t[f].name \in WillDo("exact", x, f, s)
    BY <2>1, <2>2, TakeFits
  <2>4. \A n \in WillDo("exact", x, f, s) : n = Called(f)
    BY DEF WillDo
  <2>5. \A g \in DOMAIN t : t[g].name = Called(g)
    BY <1>2, <2>3, <2>4 DEF Good
  <2>6. ASSUME Called(f) \in DOMAIN s, s[Called(f)] \in Mappable PROVE f \in DOMAIN t
    <3>1. SUFFICES ASSUME f \notin DOMAIN t PROVE FALSE
      OBVIOUS
    <3>2. Free(x, Called(f))
      <4>1. \A g \in DOMAIN x : x[g].name = Called(g) /\ g # f
        BY <1>2, <2>3, <3>1 DEF Good
      <4>2. QED BY <4>1 DEF Free, Called
    <3>3. Called(f) \in WillDo("exact", x, f, s)
      BY <2>6, <3>2 DEF WillDo, Unclaimed, EqualFold, Called
    <3>4. QED BY <2>3, <3>1, <3>3
  <2>7. NamedAlike(t, s, UpTo(k))
    BY <1>2, <2>3, <2>5, <2>6, UpToAll DEF Good, NamedAlike, f
  <2>8. QED BY <2>1, <2>3, <2>5, <2>7 DEF Good, f
<1>3. \A k \in DOMAIN Columns : \A x : <<x, k - 1>> \in I => <<Take("exact", x, Columns[k], s), k>> \in I
  BY <1>2, FieldsHavePreferences
<1> HIDE DEF I
<1>4. <<m, Len(Columns)>> \in I
  BY <1>1, <1>3, PassKeeps
<1>5. QED BY <1>4, UpToAll DEF I, Good

\* The later passes change nothing that is named, and the last one asks every field.
LEMMA LaterPass ==
  ASSUME NEW pass \in {"folded", "affinity"}, NEW s, DOMAIN s \subseteq Name,
         NEW named \in Fitting(s), NamedAlike(named, s, Field), NEW m, m = Pass(pass, named, s)
  PROVE  /\ m \in Fitting(s) /\ NamedAlike(m, s, Field)
         /\ pass = "affinity" => Asked(m, s, Field)
<1> DEFINE Good(x, k) == /\ NamedAlike(x, s, Field)
                         /\ pass = "affinity" => Asked(x, s, UpTo(k))
           I == {p \in Fitting(s) \X Nat : Good(p[1], p[2])}
<1> HIDE DEF Good
<1>1. <<named, 0>> \in I
  BY UpToAll DEF Good, Asked
<1>2. ASSUME NEW k \in DOMAIN Columns, NEW x \in Fitting(s), Good(x, k - 1)
      PROVE  Take(pass, x, Columns[k], s) \in Fitting(s) /\ Good(Take(pass, x, Columns[k], s), k)
  <2> DEFINE f == Columns[k]
  <2>1. PICK t : t = Take(pass, x, f, s)
    OBVIOUS
  <2>2. f \in Field /\ pass \in Passes /\ f \in DOMAIN preferredTypes
    BY FieldsHavePreferences DEF Passes
  <2> HIDE DEF f
  <2>3. /\ t \in Fitting(s)
        /\ \A g \in DOMAIN x : g \in DOMAIN t /\ t[g] = x[g]
        /\ f \notin DOMAIN t => t = x /\ WillDo(pass, x, f, s) = {}
    BY <2>1, <2>2, TakeFits
  <2>4. NamedAlike(t, s, Field)
    BY <1>2, <2>3 DEF Good, NamedAlike
  <2>5. ASSUME pass = "affinity" PROVE Asked(t, s, UpTo(k))
    <3>1. ASSUME NEW g \in UpTo(k), g \notin DOMAIN t, NEW n \in DOMAIN s,
                 s[n] \in Range(preferredTypes[g]), s[n] = "title" => g = "name"
          PROVE  ~Free(t, n)
      <4>1. CASE g = f
        BY <2>2, <2>3, <2>5, <3>1, <4>1, AffinityLooksEverywhere
      <4>2. CASE g # f
        <5>1. g \in UpTo(k - 1) \ DOMAIN x
          BY <2>3, <3>1, <4>2, UpToAll DEF f
        <5>2. ~Free(x, n)
          BY <1>2, <2>5, <3>1, <5>1 DEF Good, Asked
        <5>3. QED BY <2>3, <5>2, TakenStaysTaken
      <4>3. QED BY <4>1, <4>2
    <3>2. QED BY <3>1 DEF Asked
  <2>6. QED BY <2>1, <2>3, <2>4, <2>5 DEF Good, f
<1>3. \A k \in DOMAIN Columns : \A x : <<x, k - 1>> \in I => <<Take(pass, x, Columns[k], s), k>> \in I
  BY <1>2, FieldsHavePreferences
<1> HIDE DEF I
<1>4. <<m, Len(Columns)>> \in I
  BY <1>1, <1>3, PassKeeps
<1>5. QED BY <1>4, UpToAll DEF I, Good

\* A schema as Notion keeps it
Titled(s) ==
  /\ DOMAIN s \subseteq Name
  /\ \E t \in DOMAIN s : \A n \in DOMAIN s : s[n] = "title" <=> n = t

\* What the suggestion promises of a schema
Sound(m, s) ==
  /\ Valid(m, s)
  /\ NamedAlike(m, s, Field)
  /\ DOMAIN m = Field \/ ~Free(m, TitleOf(s))
  /\ \A f \in Field \ DOMAIN m, n \in DOMAIN s :
       s[n] \in Range(preferredTypes[f]) => ~Free(m, n)

\* The title is claimed if nothing else claimed it, unless every field has its property.
LEMMA DefaultClaimsTitle ==
  ASSUME NEW s, Titled(s), NEW m \in Fitting(s), NEW d, d = ByDefault(m, s)
  PROVE  /\ d \in Fitting(s)
         /\ \A g \in DOMAIN m : g \in DOMAIN d /\ d[g] = m[g]
         /\ DOMAIN d = Field \/ ~Free(d, TitleOf(s))
<1> DEFINE title == TitleOf(s)
           left == {k \in DOMAIN Columns : Columns[k] \notin DOMAIN m}
           first == CHOOSE k \in left : \A j \in left : k <= j
<1>1. title \in DOMAIN s /\ s[title] = "title"
  BY DEF Titled, TitleOf
<1>2. d = IF Free(m, title) /\ left # {} THEN Claim(m, Columns[first], title, s) ELSE m
  BY DEF ByDefault
<1>3. left = {} => DOMAIN m = Field
  BY ShapeOfFitting DEF Field
<1>4. left \subseteq DOMAIN Columns /\ \A k \in left : Columns[k] \in Field \ DOMAIN m
  BY FieldsHavePreferences
<1>5. left # {} => first \in left
  <2>1. left \in SUBSET Nat
    BY FieldsHavePreferences
  <2> HIDE DEF left
  <2>2. left # {} => \E k \in left : \A j \in left : k <= j
    BY <2>1, LeastNatural
  <2>3. QED BY <2>2
<1> HIDE DEF first, left, title
<1>6. CASE Free(m, title) /\ left # {}
  <2>1. PICK f \in Field \ DOMAIN m : f = Columns[first]
    BY <1>4, <1>5, <1>6
  <2>2. d = Claim(m, f, title, s)
    BY <1>2, <1>6, <2>1
  <2>3. /\ d \in Fitting(s) /\ DOMAIN d = DOMAIN m \cup {f} /\ d[f].name = title
        /\ \A g \in DOMAIN m : d[g] = m[g]
    <3>1. s[title] \in Mappable
      BY <1>1 DEF Mappable
    <3>2. QED BY <1>1, <1>6, <2>2, <3>1, ClaimFits
  <2>4. ~Free(d, title)
    BY <2>3 DEF Free
  <2>5. QED BY <2>3, <2>4 DEF title
<1>7. CASE ~(Free(m, title) /\ left # {})
  BY <1>2, <1>3, <1>7 DEF title
<1>8. QED BY <1>6, <1>7

LEMMA AutoMapIsSound ==
  ASSUME NEW s, Titled(s)
  PROVE  Sound(AutoMap(s), s)
<1>1. DOMAIN s \subseteq Name
  BY DEF Titled
<1>2. PICK a : a = Pass("exact", NoMapping, s)
  OBVIOUS
<1>3. PICK b : b = Pass("folded", a, s)
  OBVIOUS
<1>4. PICK c : c = Pass("affinity", b, s)
  OBVIOUS
<1>5. PICK d : d = ByDefault(c, s)
  OBVIOUS
<1>6. AutoMap(s) = d
  BY <1>2, <1>3, <1>4, <1>5 DEF AutoMap, ByAffinity, ByName
<1>7. a \in Fitting(s) /\ NamedAlike(a, s, Field)
  BY <1>1, <1>2, ExactPass
<1>8. b \in Fitting(s) /\ NamedAlike(b, s, Field)
  BY <1>1, <1>3, <1>7, LaterPass
<1>9. c \in Fitting(s) /\ NamedAlike(c, s, Field) /\ Asked(c, s, Field)
  BY <1>1, <1>4, <1>8, LaterPass
<1>10. /\ d \in Fitting(s)
       /\ \A g \in DOMAIN c : g \in DOMAIN d /\ d[g] = c[g]
       /\ DOMAIN d = Field \/ ~Free(d, TitleOf(s))
  BY <1>5, <1>9, DefaultClaimsTitle
<1>11. Valid(d, s) /\ DOMAIN d \subseteq Field
  BY <1>10, ShapeOfFitting
<1>12. NamedAlike(d, s, Field)
  BY <1>9, <1>10 DEF NamedAlike
<1>13. ASSUME NEW f \in Field \ DOMAIN d, NEW n \in DOMAIN s, s[n] \in Range(preferredTypes[f])
       PROVE  ~Free(d, n)
  <2>1. CASE s[n] = "title"
    <3>1. n = TitleOf(s)
      BY <2>1 DEF Titled, TitleOf
    <3>2. QED BY <1>10, <1>13, <3>1
  <2>2. CASE s[n] # "title"
    <3>1. f \in Field \ DOMAIN c
      BY <1>10, <1>13
    <3>2. ~Free(c, n)
      BY <1>9, <1>13, <2>2, <3>1 DEF Asked
    <3>3. QED BY <1>10, <3>2, TakenStaysTaken
  <2>3. QED BY <2>1, <2>2
<1>14. Sound(d, s)
  BY <1>10, <1>11, <1>12, <1>13 DEF Sound
<1>15. QED BY <1>6, <1>14

------------------------------------------------------------------------------
(* The steps                                                                *)

\* Write moves on with the page it has made.
LEMMA StillBegun ==
  ASSUME NEW c, NEW d, Begun(c), DOMAIN d = DOMAIN c, d.lead = c.lead, d.mapping = c.mapping,
         d.checked = c.checked, d.props = c.props, d.dropped = c.dropped
  PROVE  Begun(d)
  BY SamePage DEF Begun, Checked

LEMMA BeginMakesPage ==
  ASSUME NotionInv, NEW l \in Leads, Begin(l)
  PROVE  Begun(confirm')
<1> DEFINE c == [at |-> "creating", lead |-> l, source |-> dest.source, mapping |-> dest.mapping,
                 checked |-> dest.checked, props |-> NoWords, dropped |-> {},
                 read |-> Nothing, missing |-> {}, added |-> FALSE]
           at == IF Writable(c) = {} THEN "refused" ELSE "creating"
           drop == {f \in Field : l[f] # "" /\ f \notin Writable(c)}
           d == [at |-> at, lead |-> l, source |-> dest.source, mapping |-> dest.mapping,
                 checked |-> dest.checked, props |-> Page(c), dropped |-> drop,
                 read |-> Nothing, missing |-> {}, added |-> FALSE]
<1>1. confirm' = [c EXCEPT !.at = IF Writable(c) = {} THEN "refused" ELSE @, !.props = Page(c),
                           !.dropped = drop]
  BY DEF Begin, Now
<1>2. confirm' = d
  BY <1>1
<1>3. Checked(dest)
  BY DEF Begin, NotionInv
<1>4. /\ c.lead = l /\ c.mapping = dest.mapping /\ d.lead = l /\ d.mapping = dest.mapping
      /\ d.checked = dest.checked /\ d.props = Page(c) /\ d.dropped = drop
      /\ DOMAIN d = {"at", "lead", "source", "mapping", "checked", "props", "dropped", "read",
                     "missing", "added"}
  OBVIOUS
<1> HIDE DEF c, d
<1>5. Writable(d) = Writable(c) /\ Page(d) = Page(c)
  BY <1>4, SamePage
<1>6. QED BY <1>2, <1>3, <1>4, <1>5 DEF Begun, Checked

LEMMA WriteKeepsPage ==
  ASSUME NotionInv,
         \/ Created \/ NotCreated \/ Look \/ LookFails \/ Retry
         \/ \E n \in Name : Add(n) \/ AddFails(n)
  PROVE  confirm # Nothing /\ Begun(confirm')
<1>1. Begun(confirm) /\ confirm # Nothing
  BY DEF NotionInv, Created, NotCreated, Look, LookFails, Retry, Add, AddFails, At
<1>2. /\ DOMAIN confirm' = DOMAIN confirm /\ confirm'.lead = confirm.lead
      /\ confirm'.mapping = confirm.mapping /\ confirm'.checked = confirm.checked
      /\ confirm'.props = confirm.props /\ confirm'.dropped = confirm.dropped
  BY <1>1 DEF Begun, Created, NotCreated, Look, LookFails, Retry, Add, AddFails, Now
<1>3. QED BY <1>1, <1>2, StillBegun

LEMMA NotionStart == Init => NotionInv
  BY DEF Init, NotionInv

LEMMA NotionStep == NotionInv /\ [Next]_vars => NotionInv'
<1> SUFFICES ASSUME NotionInv, [Next]_vars PROVE NotionInv'
  OBVIOUS
<1>1. CASE \/ ShowMapping \/ Back \/ \E f \in Field : Choose(f)
           \/ \E source \in Source : Edit(source)
           \/ UNCHANGED vars
  <2>1. UNCHANGED <<dest, saving, confirm>>
    <3>1. CASE ShowMapping \/ Back
      BY <3>1 DEF ShowMapping, Back
    <3>2. CASE \E f \in Field : Choose(f)
      BY <3>2 DEF Choose
    <3>3. CASE \E source \in Source : Edit(source)
      <4>1. \E source \in Source : \E s : Edited(source, s)
        BY <3>3 DEF Edit, SetProperty, DeleteProperty, RenameProperty
      <4>2. QED BY <4>1 DEF Edited
    <3>4. CASE UNCHANGED vars
      BY <3>4 DEF vars
    <3>5. QED BY <1>1, <3>1, <3>2, <3>3, <3>4
  <2>2. QED BY <2>1 DEF NotionInv, Begun, Checked
<1>2. CASE Save
  <2>1. PICK m : Valid(m, schema["theirs"]) /\ Saving(m)
    BY <1>2 DEF Save
  <2>2. saving'.mapping = m /\ saving'.checked = schema["theirs"] /\ UNCHANGED <<dest, confirm>>
    BY <2>1 DEF Saving
  <2>3. Checked(saving')
    BY <2>1, <2>2 DEF Checked
  <2>4. QED BY <2>2, <2>3 DEF NotionInv, Begun, Checked
<1>3. CASE CreateDatabase
  <2>1. /\ saving'.mapping = LeadsDatabaseMapping /\ saving'.checked = LeadsDatabaseSchema
        /\ UNCHANGED <<dest, confirm>>
    BY <1>3 DEF CreateDatabase
  <2>2. Checked(saving')
    BY <2>1, OwnMappingFits DEF Checked
  <2>3. QED BY <2>1, <2>2 DEF NotionInv, Begun, Checked
<1>4. CASE Saved
  <2>1. saving' = Nothing /\ (dest' = dest \/ (dest' = saving /\ saving # Nothing)) /\ confirm' = confirm
    BY <1>4 DEF Saved
  <2>2. QED BY <2>1 DEF NotionInv, Begun, Checked
<1>5. CASE \E l \in Leads : Begin(l)
  <2>1. UNCHANGED <<dest, saving>> /\ Begun(confirm')
    BY <1>5, BeginMakesPage DEF Begin, Now
  <2>2. QED BY <2>1 DEF NotionInv, Begun, Checked
<1>6. CASE \/ Created \/ NotCreated \/ Look \/ LookFails \/ Retry
           \/ \E n \in Name : Add(n) \/ AddFails(n)
  <2>1. Begun(confirm')
    BY <1>6, WriteKeepsPage
  <2>2. UNCHANGED <<dest, saving>>
    BY <1>6 DEF Created, NotCreated, Look, LookFails, Retry, Add, AddFails, Now
  <2>3. QED BY <2>1, <2>2 DEF NotionInv, Begun, Checked
<1>7. QED BY <1>1, <1>2, <1>3, <1>4, <1>5, <1>6 DEF Next

LEMMA NotionHolds == Spec => []NotionInv
  BY NotionStart, NotionStep, PTL DEF Spec

LEMMA NothingSilentOn ==
  ASSUME NEW c, Begun(c), NEW f \in Field
  PROVE  \/ c.lead[f] = "" \/ f \in c.dropped
         \/ f \in DOMAIN c.mapping /\ c.props[c.mapping[f].name] = c.lead[f]
<1>1. CASE f \in Writable(c)
  <2>1. c.props = Page(c) /\ Page(c)[c.mapping[f].name] = c.lead[f]
    <3>1. Checked(c) /\ c.props = Page(c)
      BY DEF Begun
    <3>2. QED BY <1>1, <3>1, PageHolds
  <2>2. f \in DOMAIN c.mapping
    BY <1>1 DEF Writable
  <2>3. QED BY <2>1, <2>2
<1>2. CASE f \notin Writable(c)
  <2>1. c.dropped = {g \in Field : c.lead[g] # "" /\ g \notin Writable(c)}
    BY DEF Begun
  <2>2. QED BY <1>2, <2>1
<1>3. QED BY <1>1, <1>2

\* Whatever the mapping and whatever was edited meanwhile, a written lead has each of its
\* fields on the page or among those the account is told were dropped.
THEOREM NoFieldIsLost == Spec => []NothingIsSilent
<1>1. ASSUME NotionInv, At({"written"}) PROVE Begun(confirm)
  BY <1>1 DEF NotionInv, At
<1>2. NotionInv => NothingIsSilent
  BY <1>1, NothingSilentOn DEF NothingIsSilent
<1>3. QED BY <1>2, NotionHolds, PTL

\* Any lead fits a database that is as it was when its mapping was saved.
THEOREM SavedMappingsFit == Spec => []UneditedTakesLeads
<1>1. NotionInv => UneditedTakesLeads
  <2> SUFFICES ASSUME NotionInv, At({"creating", "again"}), schema[confirm.source] = confirm.checked
               PROVE  PageFits(confirm)
    BY DEF UneditedTakesLeads
  <2>1. Begun(confirm)
    BY DEF NotionInv, At
  <2>2. QED BY <2>1, PageIsFitting DEF Begun, PageFits
<1>2. QED BY <1>1, NotionHolds, PTL

------------------------------------------------------------------------------
(* The setup page first shows the suggestion                                *)

SuggestionInv ==
  /\ DOMAIN schema = Source /\ Titled(schema["theirs"])
  /\ page # Nothing => DOMAIN page = {"mapping", "offered", "choices"} /\ page.choices \in Nat
  /\ page # Nothing /\ page.choices = 0 =>
       Titled(page.offered) /\ page.mapping = AutoMap(page.offered)

LEMMA SchemaIsTitled == \A s \in Schema : Titled(s)
<1> SUFFICES ASSUME NEW s \in Schema PROVE Titled(s)
  OBVIOUS
<1> DEFINE titles == {n \in DOMAIN s : s[n] = "title"}
<1>1. DOMAIN s \subseteq Name /\ Cardinality(titles) = 1
  BY DEF Schema
<1>2. IsFiniteSet(Name)
  <2>1. NameOrder \in [1..Len(NameOrder) -> Name] /\ Len(NameOrder) \in Nat
    BY Instances DEF Name
  <2>2. IsFiniteSet(1..Len(NameOrder))
    BY <2>1, FS_Interval
  <2>3. NameOrder \in Surjection(1..Len(NameOrder), Name)
    BY <2>1 DEF Surjection, Name
  <2>4. QED BY <2>2, <2>3, FS_Surjection
<1>3. IsFiniteSet(titles)
  BY <1>1, <1>2, FS_Subset
<1>4. PICK t : titles = {t}
  BY <1>1, <1>3, FS_Singleton
<1>5. QED BY <1>1, <1>4 DEF Titled

\* Edits leave the title alone, or rename it.
LEMMA RetypedIsTitled ==
  ASSUME NEW s, Titled(s), NEW n \in Name, NEW type, type # "title",
         n \in DOMAIN s => s[n] # "title"
  PROVE  Titled([p \in DOMAIN s \cup {n} |-> IF p = n THEN type ELSE s[p]])
<1> DEFINE new == [p \in DOMAIN s \cup {n} |-> IF p = n THEN type ELSE s[p]]
<1>1. DOMAIN new = DOMAIN s \cup {n} /\ \A p \in DOMAIN new : new[p] = IF p = n THEN type ELSE s[p]
  OBVIOUS
<1> HIDE DEF new
<1>2. Titled(new)
  BY <1>1 DEF Titled
<1>3. QED BY <1>2 DEF new

LEMMA LessenedIsTitled ==
  ASSUME NEW s, Titled(s), NEW n \in DOMAIN s, s[n] # "title"
  PROVE  Titled(Restrict(s, DOMAIN s \ {n}))
<1> DEFINE new == Restrict(s, DOMAIN s \ {n})
<1>1. DOMAIN new = DOMAIN s \ {n} /\ \A p \in DOMAIN new : new[p] = s[p]
  BY DEF Restrict
<1> HIDE DEF new
<1>2. Titled(new)
  BY <1>1 DEF Titled
<1>3. QED BY <1>2 DEF new

LEMMA RenamedIsTitled ==
  ASSUME NEW s, Titled(s), NEW n \in DOMAIN s, NEW q \in Name \ DOMAIN s
  PROVE  Titled([p \in (DOMAIN s \ {n}) \cup {q} |-> IF p = q THEN s[n] ELSE s[p]])
<1> DEFINE new == [p \in (DOMAIN s \ {n}) \cup {q} |-> IF p = q THEN s[n] ELSE s[p]]
<1>1. /\ DOMAIN new = (DOMAIN s \ {n}) \cup {q}
      /\ \A p \in DOMAIN new : new[p] = IF p = q THEN s[n] ELSE s[p]
  OBVIOUS
<1>2. SUFFICES Titled(new)
  OBVIOUS
<1> HIDE DEF new
<1>3. PICK t \in DOMAIN s : \A p \in DOMAIN s : s[p] = "title" <=> p = t
  BY DEF Titled
<1>4. DOMAIN new \subseteq Name
  BY <1>1 DEF Titled
<1>5. CASE t = n
  <2>1. \A p \in DOMAIN new : new[p] = "title" <=> p = q
    BY <1>1, <1>3, <1>5
  <2>2. QED BY <1>1, <1>4, <2>1 DEF Titled
<1>6. CASE t # n
  <2>1. \A p \in DOMAIN new : new[p] = "title" <=> p = t
    BY <1>1, <1>3, <1>6
  <2>2. t \in DOMAIN new
    BY <1>1, <1>6
  <2>3. QED BY <1>4, <2>1, <2>2 DEF Titled
<1>7. QED BY <1>5, <1>6

LEMMA EditKeepsTitle ==
  ASSUME SuggestionInv, NEW source \in Source, Edit(source)
  PROVE  DOMAIN schema' = Source /\ Titled(schema'["theirs"]) /\ page' = page
<1>1. PICK n \in Name : \/ \E type \in Types \ {"title"} : SetProperty(source, n, type)
                        \/ DeleteProperty(source, n)
                        \/ \E new \in Name : RenameProperty(source, n, new)
  BY DEF Edit
<1>2. \E s : Edited(source, s) /\ (source = "theirs" => Titled(s))
  <2>1. ASSUME NEW type \in Types \ {"title"}, SetProperty(source, n, type)
        PROVE  \E s : Edited(source, s) /\ (source = "theirs" => Titled(s))
    <3> DEFINE old == schema[source]
               new == [p \in DOMAIN old \cup {n} |-> IF p = n THEN type ELSE old[p]]
    <3>1. Edited(source, new) /\ (n \in DOMAIN old => old[n] # "title")
      BY <2>1 DEF SetProperty
    <3> HIDE DEF old
    <3>2. Titled(old) => Titled(new)
      BY <3>1, RetypedIsTitled
    <3>3. QED BY <3>1, <3>2 DEF SuggestionInv, old
  <2>2. ASSUME DeleteProperty(source, n)
        PROVE  \E s : Edited(source, s) /\ (source = "theirs" => Titled(s))
    <3> DEFINE old == schema[source]
               new == Restrict(old, DOMAIN old \ {n})
    <3>1. Edited(source, new) /\ n \in DOMAIN old /\ old[n] # "title"
      BY <2>2 DEF DeleteProperty
    <3> HIDE DEF old
    <3>2. Titled(old) => Titled(new)
      BY <3>1, LessenedIsTitled
    <3>3. QED BY <3>1, <3>2 DEF SuggestionInv, old
  <2>3. ASSUME NEW q \in Name, RenameProperty(source, n, q)
        PROVE  \E s : Edited(source, s) /\ (source = "theirs" => Titled(s))
    <3> DEFINE old == schema[source]
               new == [p \in (DOMAIN old \ {n}) \cup {q} |-> IF p = q THEN old[n] ELSE old[p]]
    <3>1. Edited(source, new) /\ n \in DOMAIN old /\ q \notin DOMAIN old
      BY <2>3 DEF RenameProperty
    <3> HIDE DEF old
    <3>2. Titled(old) => Titled(new)
      BY <3>1, RenamedIsTitled
    <3>3. QED BY <3>1, <3>2 DEF SuggestionInv, old
  <2>4. QED BY <1>1, <2>1, <2>2, <2>3
<1>3. PICK s : Edited(source, s) /\ (source = "theirs" => Titled(s))
  BY <1>2
<1>4. schema' = [schema EXCEPT ![source] = s] /\ page' = page
  BY <1>3 DEF Edited
<1>5. QED BY <1>3, <1>4 DEF SuggestionInv, Source

LEMMA AddKeepsTitle ==
  ASSUME SuggestionInv, NEW n \in Name, Add(n)
  PROVE  DOMAIN schema' = Source /\ Titled(schema'["theirs"]) /\ page' = page
<1> DEFINE old == schema[confirm.source]
           type == confirm.read.schema[n]
           new == [p \in DOMAIN old \cup {n} |-> IF p = n THEN type ELSE old[p]]
<1>1. /\ schema' = [schema EXCEPT ![confirm.source] = new] /\ page' = page
      /\ type # "title" /\ (n \in DOMAIN old => old[n] # "title")
  BY DEF Add, Now
<1> HIDE DEF old, type
<1>2. Titled(old) => Titled(new)
  BY <1>1, RetypedIsTitled
<1> HIDE DEF new
<1>3. CASE confirm.source = "theirs"
  <2>1. Titled(old)
    BY <1>3 DEF SuggestionInv, old
  <2>2. QED BY <1>1, <1>2, <1>3, <2>1 DEF SuggestionInv, Source
<1>4. CASE confirm.source # "theirs"
  BY <1>1, <1>4 DEF SuggestionInv, Source
<1>5. QED BY <1>3, <1>4

LEMMA SuggestionStart == Init => SuggestionInv
  BY SchemaIsTitled DEF Init, SuggestionInv, Source

LEMMA SuggestionStep == SuggestionInv /\ [Next]_vars => SuggestionInv'
<1> SUFFICES ASSUME SuggestionInv, [Next]_vars PROVE SuggestionInv'
  OBVIOUS
<1>1. CASE ShowMapping
  <2>1. /\ page' = [mapping |-> AutoMap(schema["theirs"]), offered |-> schema["theirs"], choices |-> 0]
        /\ schema' = schema
    BY <1>1 DEF ShowMapping
  <2>2. /\ DOMAIN page' = {"mapping", "offered", "choices"} /\ page'.choices \in Nat
        /\ page'.offered = schema["theirs"] /\ page'.mapping = AutoMap(schema["theirs"])
    BY <2>1
  <2>3. Titled(page'.offered) /\ page'.mapping = AutoMap(page'.offered)
    BY <2>2 DEF SuggestionInv
  <2>4. QED BY <2>1, <2>2, <2>3 DEF SuggestionInv
<1>2. CASE \E f \in Field : Choose(f)
  <2>1. PICK f \in Field : Choose(f)
    BY <1>2
  <2>2. \E m : page' = [page EXCEPT !.mapping = m, !.choices = @ + 1]
    BY <2>1, Zenon DEF Choose
  <2>3. schema' = schema /\ page # Nothing
    BY <2>1 DEF Choose
  <2>4. /\ DOMAIN page' = {"mapping", "offered", "choices"} /\ page'.choices \in Nat
        /\ page'.choices # 0
    BY <2>2, <2>3 DEF SuggestionInv
  <2>5. QED BY <2>3, <2>4 DEF SuggestionInv
<1>3. CASE Back \/ Saved
  <2>1. schema' = schema /\ (page' = page \/ page' = Nothing)
    BY <1>3 DEF Back, Saved
  <2>2. QED BY <2>1 DEF SuggestionInv
<1>4. CASE CreateDatabase
  <2>1. /\ schema' = [schema EXCEPT !["own"] = LeadsDatabaseSchema] /\ page' = page
    BY <1>4 DEF CreateDatabase
  <2>2. DOMAIN schema' = Source /\ schema'["theirs"] = schema["theirs"]
    BY <2>1 DEF SuggestionInv, Source
  <2>3. QED BY <2>1, <2>2 DEF SuggestionInv
<1>5. CASE \/ \E source \in Source : Edit(source)
           \/ \E n \in Name : Add(n)
  <2>1. DOMAIN schema' = Source /\ Titled(schema'["theirs"]) /\ page' = page
    BY <1>5, EditKeepsTitle, AddKeepsTitle
  <2>2. QED BY <2>1 DEF SuggestionInv
<1>6. CASE \/ Save \/ Created \/ NotCreated \/ Look \/ LookFails \/ Retry
           \/ \E l \in Leads : Begin(l)
           \/ \E n \in Name : AddFails(n)
           \/ UNCHANGED vars
  <2>1. UNCHANGED <<schema, page>>
    <3>1. CASE Save \/ UNCHANGED vars
      BY <3>1 DEF Save, Saving, vars
    <3>2. CASE Created \/ NotCreated
      BY <3>2 DEF Created, NotCreated, Now
    <3>3. CASE Look \/ LookFails \/ Retry
      BY <3>3 DEF Look, LookFails, Retry, Now
    <3>4. CASE \E l \in Leads : Begin(l)
      BY <3>4, Zenon DEF Begin, Now
    <3>5. CASE \E n \in Name : AddFails(n)
      BY <3>5 DEF AddFails, Now
    <3>6. QED BY <1>6, <3>1, <3>2, <3>3, <3>4, <3>5
  <2>2. QED BY <2>1 DEF SuggestionInv
<1>7. QED BY <1>1, <1>2, <1>3, <1>4, <1>5, <1>6 DEF Next

\* What the setup page first shows is sound, whatever the schema and the fields, for any
\* number of both.
THEOREM SuggestionsAreSound == Spec => []SuggestionIsSound
<1>1. SuggestionInv => SuggestionIsSound
  <2> SUFFICES ASSUME SuggestionInv, page # Nothing, page.choices = 0
               PROVE  SuggestionIsSound
    BY DEF SuggestionIsSound
  <2>1. Sound(page.mapping, page.offered)
    BY AutoMapIsSound DEF SuggestionInv
  <2>2. QED BY <2>1 DEF Sound, NamedAlike, SuggestionIsSound
<1>2. QED BY <1>1, SuggestionStart, SuggestionStep, PTL DEF Spec

==============================================================================
