----------------------- MODULE TelemetryImportProofs ------------------------
(***************************************************************************)
(* Proofs about TelemetryImport: that imports running side by side, dying  *)
(* and repeating each other take every file in as TelemetryIntake says,    *)
(* that the counters, the observed times and the health page agree with    *)
(* the rows, for every number of files, lines, assets and processes.       *)
(***************************************************************************)
EXTENDS TelemetryImport, FiniteSetTheorems, WellFoundedInduction, TLAPS

-----------------------------------------------------------------------------
(* Induction over the natural numbers, for a set instead of a formula.     *)

\* Every nonempty set of natural numbers has a least element.
LEMMA LeastElement ==
  ASSUME NEW S, S \subseteq Nat, S # {}
  PROVE  \E n \in S : \A m \in S : n <= m
<1> DEFINE R == {ss \in Nat \X Nat : ss[1] < ss[2]}
<1>1. IsWellFoundedOn(R, Nat)
  BY NatLessThanWellFounded DEF OpToRel
<1>2. PICK n \in S : \A m \in S : ~ (<<m, n>> \in R)
  <2> HIDE DEF R
  <2> QED
    BY <1>1, WFMin
<1>3. ASSUME NEW m \in S PROVE n <= m
  <2>1. m \in Nat /\ n \in Nat
    OBVIOUS
  <2>2. ~ m < n
    BY <1>2, <2>1
  <2> QED
    BY <2>1, <2>2
<1> QED
  BY <1>3

\* What 0 has and every successor inherits, every natural number has.
LEMMA NatSetInduction ==
  ASSUME NEW S, 0 \in S, \A n \in Nat : n \in S => n + 1 \in S
  PROVE  Nat \subseteq S
<1> DEFINE T == Nat \ S
<1> SUFFICES ASSUME T # {} PROVE FALSE
  OBVIOUS
<1>1. PICK n \in T : \A m \in T : n <= m
  <2>1. T \subseteq Nat
    OBVIOUS
  <2> HIDE DEF T
  <2> QED
    BY <2>1, LeastElement
<1>2. n # 0 /\ n - 1 \in Nat /\ ~ n <= n - 1
  OBVIOUS
<1>3. n - 1 \in S => (n - 1) + 1 \in S
  BY <1>2
<1> QED
  BY <1>1, <1>2, <1>3

\* Every nonempty finite set of integers has a greatest element.
LEMMA GreatestElement ==
  ASSUME NEW S, S \subseteq Int, IsFiniteSet(S), S # {}
  PROVE  Max(S) \in S /\ \A y \in S : y <= Max(S)
<1> DEFINE Bounded(T) == \E x \in T : \A y \in T : x >= y
           I == {n \in Nat : \A T \in SUBSET Int :
                   IsFiniteSet(T) /\ Cardinality(T) = n /\ T # {} => Bounded(T)}
<1>1. 0 \in I
  BY FS_EmptySet
<1>2. ASSUME NEW n \in Nat, n \in I PROVE n + 1 \in I
  <2> SUFFICES ASSUME NEW T \in SUBSET Int, IsFiniteSet(T), Cardinality(T) = n + 1, T # {}
               PROVE  Bounded(T)
    OBVIOUS
  <2>1. PICK x \in T : TRUE
    OBVIOUS
  <2> DEFINE U == T \ {x}
  <2>2. IsFiniteSet(U) /\ Cardinality(U) = (n + 1) - 1
    BY FS_RemoveElement
  <2>3. U \in SUBSET Int /\ (n + 1) - 1 = n
    OBVIOUS
  <2>4. CASE U = {}
    <3>1. \A y \in T : x >= y
      BY <2>4
    <3> QED
      BY <3>1
  <2>5. CASE U # {}
    <3>1. Bounded(U)
      <4> HIDE DEF U, Bounded
      <4> QED
        BY <1>2, <2>2, <2>3, <2>5
    <3>2. PICK m \in U : \A y \in U : m >= y
      BY <3>1
    <3>3. CASE x >= m
      <4>1. ASSUME NEW y \in T PROVE x >= y
        <5>1. CASE y = x
          BY <5>1
        <5>2. CASE y # x
          <6>1. m >= y /\ x \in Int /\ y \in Int /\ m \in Int
            BY <3>2, <5>2
          <6> QED
            BY <3>3, <6>1
        <5> QED
          BY <5>1, <5>2
      <4> QED
        BY <4>1
    <3>4. CASE ~ x >= m
      <4>1. ASSUME NEW y \in T PROVE m >= y
        <5>1. CASE y = x
          <6>1. x \in Int /\ m \in Int
            OBVIOUS
          <6> QED
            BY <3>4, <5>1, <6>1
        <5>2. CASE y # x
          BY <3>2, <5>2
        <5> QED
          BY <5>1, <5>2
      <4> QED
        BY <4>1
    <3> QED
      BY <3>3, <3>4
  <2> QED
    BY <2>4, <2>5
<1>3. Nat \subseteq I
  <2> HIDE DEF I
  <2> QED
    BY <1>1, <1>2, NatSetInduction
<1>4. Bounded(S)
  BY <1>3, FS_CardinalityType
<1>5. Max(S) = CHOOSE x \in S : \A y \in S : x >= y
  BY DEF Max
<1>6. Max(S) \in S /\ \A y \in S : Max(S) >= y
  BY <1>4, <1>5
<1>7. ASSUME NEW y \in S PROVE y <= Max(S)
  <2>1. y \in Int /\ Max(S) \in Int /\ Max(S) >= y
    BY <1>6
  <2> QED
    BY <2>1
<1> QED
  BY <1>6, <1>7

-----------------------------------------------------------------------------
(* The lines of a file.                                                    *)

LEMMA LinesTyped ==
  ASSUME NEW f \in Fixtures
  PROVE  /\ Len(Lines[f]) \in Nat
         /\ DOMAIN Lines[f] = 1..Len(Lines[f])
         /\ DOMAIN Lines[f] \subseteq Nat
         /\ IsFiniteSet(DOMAIN Lines[f])
         /\ Cardinality(DOMAIN Lines[f]) = Len(Lines[f])
         /\ EventLines(f) \subseteq DOMAIN Lines[f]
         /\ \A k \in DOMAIN Lines[f] : TimestampUtc(Lines[f][k]) \in Int
<1>1. Len(Lines[f]) \in Nat /\ DOMAIN Lines[f] = 1..Len(Lines[f])
  BY LinesAssumption
<1>2. /\ IsFiniteSet(1..Len(Lines[f]))
      /\ Cardinality(1..Len(Lines[f])) = IF 1 > Len(Lines[f]) THEN 0 ELSE Len(Lines[f]) - 1 + 1
  BY <1>1, FS_Interval
<1>3. Cardinality(1..Len(Lines[f])) = Len(Lines[f])
  BY <1>1, <1>2
<1>4. \A k \in DOMAIN Lines[f] : TimestampUtc(Lines[f][k]) \in Int
  BY LinesAssumption DEF TimestampUtc
<1> QED
  BY <1>1, <1>2, <1>3, <1>4 DEF EventLines

\* The rows a file makes of the lines that are not events.
ErrorRows(f) == {<<k, ErrorCode(f, Lines[f][k])>> : k \in ErrorLines(f)}

LEMMA LinesCount ==
  ASSUME NEW f \in Fixtures
  PROVE  /\ IsFiniteSet(EventLines(f)) /\ IsFiniteSet(ErrorLines(f))
         /\ Len(Lines[f]) = Cardinality(EventLines(f)) + Cardinality(ErrorLines(f))
         /\ IsFiniteSet(ErrorRows(f)) /\ Cardinality(ErrorRows(f)) = Cardinality(ErrorLines(f))
         /\ ErrorRows(f) = {} <=> ErrorLines(f) = {}
<1>1. /\ IsFiniteSet(DOMAIN Lines[f]) /\ Cardinality(DOMAIN Lines[f]) = Len(Lines[f])
      /\ EventLines(f) \in SUBSET DOMAIN Lines[f]
  BY LinesTyped
<1>2. IsFiniteSet(EventLines(f)) /\ Cardinality(EventLines(f)) \in Nat
  BY <1>1, FS_Subset, FS_CardinalityType
<1>3. DOMAIN Lines[f] \cap EventLines(f) = EventLines(f)
  BY <1>1
<1>4. /\ IsFiniteSet(ErrorLines(f))
      /\ Cardinality(ErrorLines(f)) = Len(Lines[f]) - Cardinality(EventLines(f))
  <2>1. ErrorLines(f) = DOMAIN Lines[f] \ EventLines(f)
    BY DEF ErrorLines
  <2>2. /\ IsFiniteSet(DOMAIN Lines[f] \ EventLines(f))
        /\ Cardinality(DOMAIN Lines[f] \ EventLines(f))
             = Cardinality(DOMAIN Lines[f]) - Cardinality(DOMAIN Lines[f] \cap EventLines(f))
    BY <1>1, FS_Difference
  <2> QED
    BY <1>1, <1>3, <2>1, <2>2
<1>5. Len(Lines[f]) = Cardinality(EventLines(f)) + Cardinality(ErrorLines(f))
  BY <1>2, <1>4, LinesTyped
<1> DEFINE row == [k \in ErrorLines(f) |-> <<k, ErrorCode(f, Lines[f][k])>>]
<1>6. row \in Bijection(ErrorLines(f), ErrorRows(f))
  BY DEF ErrorRows, Bijection, Injection, IsInjective, Surjection
<1>7. IsFiniteSet(ErrorRows(f)) /\ Cardinality(ErrorRows(f)) = Cardinality(ErrorLines(f))
  <2> HIDE DEF row
  <2> QED
    BY <1>4, <1>6, FS_Bijection DEF ExistsBijection
<1> QED
  BY <1>2, <1>4, <1>5, <1>7 DEF ErrorRows

\* The identities file f supplies.
SuppliedBy(f) == {IdentityAt(f, k) : k \in EventLines(f)}

\* The lines of a file that become rows are as many as the identities it adds.
LEMMA NewLinesAdd ==
  ASSUME NEW f \in Fixtures
  PROVE  LET new == {IdentityAt(f, k) : k \in NewLines(f)}
         IN  /\ NewLines(f) \subseteq EventLines(f) /\ IsFiniteSet(NewLines(f))
             /\ new = SuppliedBy(f) \ DOMAIN events
             /\ IsFiniteSet(new) /\ Cardinality(new) = Cardinality(NewLines(f))
<1> DEFINE new == {IdentityAt(f, k) : k \in NewLines(f)}
           at == [k \in NewLines(f) |-> IdentityAt(f, k)]
<1>1. NewLines(f) \subseteq EventLines(f) /\ IsFiniteSet(NewLines(f))
  <2>1. NewLines(f) \in SUBSET EventLines(f)
    BY DEF NewLines
  <2> QED
    BY <2>1, LinesCount, FS_Subset
<1>2. EventLines(f) \subseteq Nat
  BY LinesTyped
<1>3. at \in Bijection(NewLines(f), new)
  <2>1. ASSUME NEW j \in NewLines(f), NEW k \in NewLines(f), j # k
        PROVE  IdentityAt(f, j) # IdentityAt(f, k)
    <3>1. j \in Nat /\ k \in Nat /\ (j < k \/ k < j)
      BY <1>1, <1>2, <2>1
    <3> QED
      BY <1>1, <3>1 DEF NewLines
  <2> QED
    BY <2>1 DEF Bijection, Injection, IsInjective, Surjection
<1>4. IsFiniteSet(new) /\ Cardinality(new) = Cardinality(NewLines(f))
  <2> HIDE DEF new, at
  <2> QED
    BY <1>1, <1>3, FS_Bijection DEF ExistsBijection
<1>5. ASSUME NEW i \in SuppliedBy(f), i \notin DOMAIN events
      PROVE  i \in new
  <2> DEFINE ks == {k \in EventLines(f) : IdentityAt(f, k) = i}
  <2>1. ks \subseteq Nat /\ ks # {}
    BY <1>2 DEF SuppliedBy
  <2>2. PICK k \in ks : \A j \in ks : k <= j
    <3> HIDE DEF ks
    <3> QED
      BY <2>1, LeastElement
  <2>3. ASSUME NEW j \in EventLines(f), j < k PROVE IdentityAt(f, j) # IdentityAt(f, k)
    <3>1. j \notin ks
      BY <1>2, <2>2, <2>3
    <3> QED
      BY <3>1
  <2>4. k \in NewLines(f)
    BY <1>5, <2>3 DEF NewLines
  <2> QED
    BY <2>4
<1>6. ASSUME NEW i \in new PROVE i \in SuppliedBy(f) /\ i \notin DOMAIN events
  BY DEF NewLines, SuppliedBy
<1>7. new = SuppliedBy(f) \ DOMAIN events
  <2> HIDE DEF new
  <2> QED
    BY <1>5, <1>6
<1> QED
  BY <1>1, <1>4, <1>7

-----------------------------------------------------------------------------
(* Sums over the imports.                                                  *)

\* What import n adds to a sum.
Addend(imports, s, counter, n) ==
  IF SourceOf[imports[n]] = s THEN counter[imports[n]] ELSE 0

\* The partial sums: 0 before the first import, and one addend after the other.
Sums(imports, s, counter, sum) ==
  /\ sum[0] = 0
  /\ \A n \in 1..Len(imports) : sum[n] = sum[n - 1] + Addend(imports, s, counter, n)

\* The recursive definition of the sum defines a function.
LEMMA SumsExist ==
  ASSUME NEW imports, Len(imports) \in Nat, NEW s, NEW counter
  PROVE  \E sum : /\ Sums(imports, s, counter, sum)
                  /\ SumOver(imports, s, counter) = sum[Len(imports)]
<1> DEFINE N == Len(imports)
           Body(g, n) == IF n = 0 THEN 0 ELSE g[n - 1] + Addend(imports, s, counter, n)
           I == {k \in Nat : \E g : g = [n \in 0..k |-> Body(g, n)]}
<1>1. 0 \in I
  <2>1. [n \in 0..0 |-> 0] = [n \in 0..0 |-> Body([n_1 \in 0..0 |-> 0], n)]
    OBVIOUS
  <2> QED
    BY <2>1
<1>2. ASSUME NEW k \in Nat, k \in I PROVE k + 1 \in I
  <2>1. PICK g : g = [n \in 0..k |-> Body(g, n)]
    BY <1>2
  <2> DEFINE h == [n \in 0..(k + 1) |->
                     IF n = k + 1 THEN g[k] + Addend(imports, s, counter, n) ELSE g[n]]
  <2>2. ASSUME NEW n \in 0..(k + 1) PROVE h[n] = Body(h, n)
    <3>1. CASE n = k + 1
      <4>1. h[n - 1] = g[k]
        BY <3>1
      <4>2. h[n] = g[k] + Addend(imports, s, counter, n)
        BY <3>1
      <4> QED
        BY <3>1, <4>1, <4>2
    <3>2. CASE n # k + 1
      <4>1. n \in 0..k /\ h[n] = g[n]
        BY <3>2
      <4>2. g[n] = Body(g, n)
        BY <2>1, <4>1
      <4>3. n # 0 => h[n - 1] = g[n - 1]
        BY <3>2
      <4> QED
        BY <4>1, <4>2, <4>3
    <3> QED
      BY <3>1, <3>2
  <2>3. h = [n \in 0..(k + 1) |-> h[n]]
    OBVIOUS
  <2>4. \E f : f = [n \in 0..(k + 1) |-> Body(f, n)]
    <3> HIDE DEF h, Body
    <3> QED
      BY <2>2, <2>3
  <2> QED
    BY <2>4
<1>3. Nat \subseteq I
  <2> HIDE DEF I
  <2> QED
    BY <1>1, <1>2, NatSetInduction
<1> DEFINE L == CHOOSE g : g = [n \in 0..N |-> Body(g, n)]
<1>4. L = [n \in 0..N |-> Body(L, n)]
  <2>1. \E g : g = [n \in 0..N |-> Body(g, n)]
    BY <1>3
  <2> HIDE DEF Body
  <2> QED
    BY <2>1
<1>5. SumOver(imports, s, counter) = L[N]
  BY DEF SumOver, Addend
<1>6. \A n \in 0..N : L[n] = Body(L, n)
  <2> HIDE DEF L, Body
  <2> QED
    BY <1>4
<1>7. Sums(imports, s, counter, L)
  <2>1. 0 \in 0..N /\ \A n \in 1..N : n \in 0..N /\ n # 0
    OBVIOUS
  <2> HIDE DEF L
  <2> QED
    BY <1>6, <2>1 DEF Sums
<1> HIDE DEF L
<1> QED
  BY <1>5, <1>7

\* A sum over no import, and one more import: the counters of the imports
\* before it count as they did.
LEMMA SumOfNone ==
  ASSUME NEW s, NEW counter
  PROVE  SumOver(<<>>, s, counter) = 0
<1>1. PICK sum : Sums(<<>>, s, counter, sum) /\ SumOver(<<>>, s, counter) = sum[Len(<<>>)]
  BY SumsExist
<1> QED
  BY <1>1 DEF Sums

LEMMA SumOfAppend ==
  ASSUME NEW imports \in Seq(Fixtures), NEW f \in Fixtures, NEW s, NEW c, NEW d,
         \A g \in Range(imports) : c[g] = d[g]
  PROVE  SumOver(Append(imports, f), s, d)
           = SumOver(imports, s, c) + IF SourceOf[f] = s THEN d[f] ELSE 0
<1> DEFINE N == Len(imports)
           longer == Append(imports, f)
<1>1. N \in Nat /\ Len(longer) = N + 1 /\ N + 1 \in Nat /\ longer[N + 1] = f
  OBVIOUS
<1>2. \A n \in 1..N : longer[n] = imports[n] /\ imports[n] \in Range(imports)
  BY DEF Range
<1>3. PICK a : Sums(imports, s, c, a) /\ SumOver(imports, s, c) = a[N]
  BY <1>1, SumsExist
<1>4. PICK b : Sums(longer, s, d, b) /\ SumOver(longer, s, d) = b[N + 1]
  <2> HIDE DEF longer
  <2> QED
    BY <1>1, SumsExist
<1> DEFINE I == {n \in Nat : n <= N => a[n] = b[n]}
<1>5. 0 \in I
  BY <1>3, <1>4 DEF Sums
<1>6. ASSUME NEW n \in Nat, n \in I PROVE n + 1 \in I
  <2> SUFFICES ASSUME n + 1 <= N PROVE a[n + 1] = b[n + 1]
    OBVIOUS
  <2> DEFINE m == n + 1
  <2>1. m \in 1..N /\ m \in 1..(N + 1) /\ m - 1 = n /\ a[n] = b[n]
    BY <1>1, <1>6
  <2>2. Addend(imports, s, c, m) = Addend(longer, s, d, m)
    <3> HIDE DEF longer, m
    <3> QED
      BY <1>2, <2>1 DEF Addend
  <2>3. a[m] = a[n] + Addend(imports, s, c, m)
    <3> HIDE DEF m
    <3> QED
      BY <1>3, <2>1 DEF Sums
  <2>4. b[m] = b[n] + Addend(longer, s, d, m)
    <3> HIDE DEF m, longer
    <3> QED
      BY <1>1, <1>4, <2>1 DEF Sums
  <2> QED
    BY <2>1, <2>2, <2>3, <2>4
<1>7. a[N] = b[N]
  <2>1. Nat \subseteq I
    <3> HIDE DEF I
    <3> QED
      BY <1>5, <1>6, NatSetInduction
  <2> QED
    BY <1>1, <2>1
<1>8. b[N + 1] = b[N] + Addend(longer, s, d, N + 1)
  <2>1. N + 1 \in 1..(N + 1) /\ (N + 1) - 1 = N
    BY <1>1
  <2> HIDE DEF longer
  <2> QED
    BY <1>1, <1>4, <2>1 DEF Sums
<1>9. Addend(longer, s, d, N + 1) = IF SourceOf[f] = s THEN d[f] ELSE 0
  BY <1>1 DEF Addend
<1> HIDE DEF longer
<1> QED
  BY <1>3, <1>4, <1>7, <1>8, <1>9 DEF longer

-----------------------------------------------------------------------------
(* The inductive invariant.                                                *)

\* What the row of a batch tells of the file alone.
RowOk(f, row) ==
  /\ row \in Batch
  /\ row.total = Len(Lines[f])
  /\ row.accepted + row.duplicate = Cardinality(EventLines(f))
  /\ row.error = Cardinality(ErrorLines(f))
  /\ row.status = "ERROR" <=> ErrorLines(f) # {}

\* The rows stored under a batch.
RowsOf(f) == {i \in DOMAIN events : events[i].batch = f}

Typed ==
  /\ observed = <<>> \/ observed \in [Assets -> NullOr(Int)]
  /\ clock \in 0..MaxStamps
  /\ job \in [Importers -> Job]

\* Every file taken in has its batch, its error rows, its audit row and all its
\* identities, and nothing else is there.
Stored ==
  /\ audit \in Seq(Fixtures)
  /\ Range(audit) = DOMAIN batches
  /\ DOMAIN errors = DOMAIN batches
  /\ \A f \in DOMAIN batches :
       /\ f \in Fixtures
       /\ RowOk(f, batches[f])
       /\ batches[f].at \in 1..clock
       /\ errors[f] = ErrorRows(f)
       /\ batches[f].accepted = Cardinality(RowsOf(f))
  /\ IsFiniteSet(DOMAIN events)
  /\ DOMAIN events = UNION {SuppliedBy(f) : f \in DOMAIN batches}
  /\ \A i \in DOMAIN events : events[i] \in EventRow /\ events[i].batch \in DOMAIN batches
  /\ observed = <<>> => DOMAIN batches = {}
  /\ raced \subseteq DOMAIN batches

ErrorsOf(s) == UNION {{f} \X errors[f] : f \in BatchesOf(s)}

\* The counters of a source add up to its rows.
Summed ==
  \A s \in Sources :
    /\ Cardinality(EventsOf(s)) = SumOver(audit, s, Accepted)
    /\ IsFiniteSet(ErrorsOf(s)) /\ Cardinality(ErrorsOf(s)) = SumOver(audit, s, Refused)

\* An import that no commit overtook is stamped later than all that committed
\* before it.
StampedInOrder ==
  \A m, n \in DOMAIN audit :
    m < n /\ audit[n] \notin raced => batches[audit[m]].at < batches[audit[n]].at

\* An import that no other one has overtaken sees the assets as they are, and
\* its stamp is the latest.
JobOk(j) ==
  /\ j.pc \in {"finding", "parsed", "inserting"} => j.fixture \in Fixtures
  /\ j.pc \in {"parsed", "inserting"} =>
       /\ observed # <<>>
       /\ ~ j.late => j.seen = observed
       /\ \A a \in Assets : j.seen[a] # None => observed[a] # None
  /\ j.pc = "inserting" =>
       /\ j.at \in 1..clock
       /\ ~ j.late => \A f \in DOMAIN batches : batches[f].at < j.at

JobsOk == \A w \in Importers : JobOk(job[w])

\* What a page has read is what the tables hold, unless an import committed.
PageOk ==
  /\ DOMAIN page = {"step", "source", "now", "shown", "overtaken"}
  /\ DOMAIN page.shown = Range(Parts)
  /\ page.step \in 0..(Len(Parts) + 1)
  /\ page.source \in Sources
  /\ page.now \in Nat
  /\ ~ page.overtaken => \A k \in 1..Len(Parts) :
       k < page.step => page.shown[Parts[k]] = PartOf(page.source)[Parts[k]]

IInv ==
  /\ Typed
  /\ Stored
  /\ Summed
  /\ StampedInOrder
  /\ ObservedIsNewest
  /\ JobsOk
  /\ PageOk

\* A record of parts by their names.
LEMMA PartsAre ==
  /\ Len(Parts) = 6
  /\ Range(Parts) = {"latest", "successful", "newest", "events", "errors", "high"}
  /\ \A k \in 1..6 : Parts[k] \in Range(Parts)
  /\ \A k, l \in 1..6 : Parts[k] = Parts[l] => k = l
  /\ Parts[1] = "latest" /\ Parts[3] = "newest" /\ Parts[4] = "events" /\ Parts[5] = "errors"
<1>1. Len(Parts) = 6 /\ DOMAIN Parts = 1..6
  BY DEF Parts
<1>2. /\ Parts[1] = "latest" /\ Parts[2] = "successful" /\ Parts[3] = "newest"
      /\ Parts[4] = "events" /\ Parts[5] = "errors" /\ Parts[6] = "high"
  BY DEF Parts
<1>3. \A k \in 1..6 : k = 1 \/ k = 2 \/ k = 3 \/ k = 4 \/ k = 5 \/ k = 6
  OBVIOUS
<1>4. Range(Parts) = {"latest", "successful", "newest", "events", "errors", "high"}
  BY <1>1, <1>2, <1>3 DEF Range
<1> QED
  BY <1>1, <1>2, <1>3, <1>4

LEMMA InitIInv == Init => IInv
<1> SUFFICES ASSUME Init PROVE IInv
  OBVIOUS
<1>1. /\ DOMAIN batches = {} /\ DOMAIN events = {} /\ DOMAIN errors = {}
      /\ DOMAIN audit = {} /\ DOMAIN observed = {}
  BY DEF Init
<1>2. Typed
  <2>1. Idle \in Job
    BY DEF Idle, Job, Unseen, NullOr
  <2>2. job \in [Importers -> Job]
    BY <2>1 DEF Init
  <2>3. clock \in 0..MaxStamps
    BY NumbersAssumption DEF Init
  <2> QED
    BY <2>2, <2>3 DEF Init, Typed
<1>3. Stored
  <2>1. audit \in Seq(Fixtures) /\ Range(audit) = {}
    BY <1>1 DEF Init, Range
  <2> QED
    BY <1>1, <2>1, FS_EmptySet DEF Init, Stored
<1>4. Summed
  <2> SUFFICES ASSUME NEW s \in Sources
               PROVE  /\ Cardinality(EventsOf(s)) = SumOver(audit, s, Accepted)
                      /\ IsFiniteSet(ErrorsOf(s))
                      /\ Cardinality(ErrorsOf(s)) = SumOver(audit, s, Refused)
    BY DEF Summed
  <2>1. EventsOf(s) = {} /\ ErrorsOf(s) = {}
    BY <1>1 DEF EventsOf, ErrorsOf, BatchesOf
  <2>2. audit = <<>>
    BY DEF Init
  <2> QED
    BY <2>1, <2>2, SumOfNone, FS_EmptySet
<1>5. StampedInOrder /\ ObservedIsNewest
  BY <1>1 DEF StampedInOrder, ObservedIsNewest
<1>6. JobsOk
  BY DEF Init, JobsOk, JobOk, Idle
<1>7. PageOk
  <2>1. DOMAIN page.shown = Range(Parts)
    BY DEF Init, NoPage, Unread
  <2>2. /\ DOMAIN page = {"step", "source", "now", "shown", "overtaken"}
        /\ page.step = 0 /\ page.source \in Sources /\ page.now \in Nat
    BY DEF Init, NoPage, Sources
  <2> QED
    BY <2>1, <2>2, PartsAre DEF PageOk
<1> QED
  BY <1>2, <1>3, <1>4, <1>5, <1>6, <1>7 DEF IInv

\* The times of an asset's events, and ObservedIsNewest said with them.
TimesOf(a) == {i.time : i \in {j \in DOMAIN events : j.asset = a}}

Overtaken(a) == \E i \in DOMAIN events : i.asset = a /\ events[i].batch \in raced

ObservedMatches ==
  \A a \in DOMAIN observed :
    /\ (observed[a] = None) <=> (TimesOf(a) = {})
    /\ TimesOf(a) # {} => observed[a] \in TimesOf(a)
    /\ TimesOf(a) # {} /\ ~ Overtaken(a) => observed[a] = Max(TimesOf(a))

LEMMA ObservedMeans ==
  /\ ObservedIsNewest <=> ObservedMatches
  /\ ObservedIsNewest' <=> ObservedMatches'
BY DEF ObservedIsNewest, ObservedMatches, TimesOf, Overtaken

\* The steps of an import that write nothing to the tables.
LEMMA TablesKeep ==
  ASSUME IInv, UNCHANGED <<tables, raced>>, clock' \in 0..MaxStamps, clock <= clock'
  PROVE  /\ Stored' /\ Summed' /\ StampedInOrder' /\ ObservedIsNewest'
         /\ \A s \in Sources : PartOf(s)' = PartOf(s)
<1>1. /\ observed' = observed /\ batches' = batches /\ events' = events
      /\ errors' = errors /\ audit' = audit /\ raced' = raced
  BY DEF tables
<1>2. Stored'
  <2>1. \A f \in DOMAIN batches : batches[f].at \in 1..clock'
    BY DEF IInv, Typed, Stored
  <2>2. \A f : RowsOf(f)' = RowsOf(f)
    BY <1>1 DEF RowsOf
  <2> QED
    BY <1>1, <2>1, <2>2 DEF IInv, Stored
<1>3. Summed'
  <2>1. ASSUME NEW s \in Sources
        PROVE  EventsOf(s)' = EventsOf(s) /\ ErrorsOf(s)' = ErrorsOf(s)
    BY <1>1 DEF EventsOf, ErrorsOf, BatchesOf
  <2>2. Accepted' = Accepted /\ Refused' = Refused
    BY <1>1 DEF Accepted, Refused
  <2>3. ASSUME NEW s \in Sources
        PROVE  /\ SumOver(audit, s, Accepted)' = SumOver(audit, s, Accepted)
               /\ SumOver(audit, s, Refused)' = SumOver(audit, s, Refused)
    BY <1>1, <2>2
  <2> QED
    BY <2>1, <2>3 DEF IInv, Summed
<1>4. StampedInOrder'
  BY <1>1 DEF IInv, StampedInOrder
<1>5. ObservedIsNewest'
  <2>1. \A a : TimesOf(a)' = TimesOf(a) /\ Overtaken(a)' = Overtaken(a)
    BY <1>1 DEF TimesOf, Overtaken
  <2> QED
    BY <1>1, <2>1, ObservedMeans DEF IInv, ObservedMatches
<1>6. ASSUME NEW s \in Sources PROVE PartOf(s)' = PartOf(s)
  BY <1>1 DEF PartOf, EventsOf, BatchesOf, LastImported, Newest
<1> QED
  BY <1>2, <1>3, <1>4, <1>5, <1>6

\* While the tables stay, what a page has read stays true.
LEMMA PageKeeps ==
  ASSUME PageOk, UNCHANGED page, \A s \in Sources : PartOf(s)' = PartOf(s)
  PROVE  PageOk'
<1>1. PartOf(page.source)' = PartOf(page.source)
  BY DEF PageOk
<1> QED
  BY <1>1 DEF PageOk

LEMMA JobTyped ==
  ASSUME Typed, NEW w \in Importers
  PROVE  /\ job[w] \in Job
         /\ job[w].fixture \in NullOr(Fixtures)
         /\ job[w].seen \in [Assets -> NullOr(Int)]
         /\ job[w].at \in Nat
BY DEF Typed, Job

\* An import that reads, stamps its batch or gives up.
LEMMA WorkKeeps ==
  ASSUME IInv, NEW w \in Importers,
         \/ ReadNoAssets(w) \/ (\E f \in Fixtures : FindNoBatch(w, f))
         \/ LoadAssets(w) \/ StampBatch(w) \/ Abort(w)
  PROVE  IInv'
<1> DEFINE j == job[w]
<1>1. UNCHANGED <<tables, page, raced>>
  BY DEF ReadNoAssets, FindNoBatch, LoadAssets, StampBatch, Abort
<1>2. /\ observed' = observed /\ DOMAIN batches' = DOMAIN batches /\ batches' = batches
  BY <1>1 DEF tables
<1>3. /\ clock' \in 0..MaxStamps /\ clock <= clock' /\ clock \in Nat /\ clock' \in Nat
  BY NumbersAssumption DEF IInv, Typed, ReadNoAssets, FindNoBatch, LoadAssets, StampBatch, Abort
<1>4. /\ Stored' /\ Summed' /\ StampedInOrder' /\ ObservedIsNewest'
      /\ \A s \in Sources : PartOf(s)' = PartOf(s)
  BY <1>1, <1>3, TablesKeep
<1>5. PageOk'
  BY <1>1, <1>4, PageKeeps DEF IInv
<1>6. Typed /\ j \in Job /\ JobOk(j)
  BY JobTyped DEF IInv, JobsOk
\* the other imports stay as they are
<1>7. ASSUME NEW v \in Importers, job'[v] = job[v] PROVE JobOk(job[v])'
  <2>1. JobOk(job[v])
    BY DEF IInv, JobsOk
  <2>2. job[v].at \in 1..clock => job[v].at \in 1..clock'
    BY <1>3
  <2> QED
    BY <1>2, <1>7, <2>1, <2>2 DEF JobOk
<1> SUFFICES \E next \in Job : job' = [job EXCEPT ![w] = next] /\ (job'[w] = next => JobOk(job[w])')
  <2>1. PICK next \in Job : job' = [job EXCEPT ![w] = next] /\ (job'[w] = next => JobOk(job[w])')
    OBVIOUS
  <2>2. job' \in [Importers -> Job] /\ job'[w] = next /\ \A v \in Importers \ {w} : job'[v] = job[v]
    BY <2>1 DEF IInv, Typed
  <2>3. Typed'
    BY <1>2, <1>3, <1>1, <2>2 DEF IInv, Typed
  <2>4. JobsOk'
    BY <1>7, <2>1, <2>2 DEF JobsOk
  <2> QED
    BY <1>4, <1>5, <2>3, <2>4 DEF IInv
<1>8. job = [v \in Importers |-> job[v]]
  BY <1>6 DEF Typed
<1>9. CASE ReadNoAssets(w)
  <2> DEFINE next == [j EXCEPT !.pc = "seeding"]
  <2>1. job' = [job EXCEPT ![w] = next] /\ next \in Job /\ next.pc = "seeding"
    BY <1>6, <1>8, <1>9 DEF ReadNoAssets, Job
  <2>2. job'[w] = next => JobOk(job[w])'
    BY <2>1 DEF JobOk
  <2> QED
    BY <2>1, <2>2
<1>10. ASSUME NEW f \in Fixtures, FindNoBatch(w, f)
       PROVE  \E next \in Job : job' = [job EXCEPT ![w] = next] /\ (job'[w] = next => JobOk(job[w])')
  <2> DEFINE next == [j EXCEPT !.pc = "finding", !.fixture = f]
  <2>1. job' = [job EXCEPT ![w] = next]
    BY <1>8, <1>10 DEF FindNoBatch
  <2>2. next \in Job /\ next.pc = "finding" /\ next.fixture = f
    BY <1>6 DEF Job, NullOr
  <2>3. job'[w] = next => JobOk(job[w])'
    BY <2>2 DEF JobOk
  <2> QED
    BY <2>1, <2>2, <2>3
<1>11. CASE LoadAssets(w)
  <2> DEFINE next == [j EXCEPT !.pc = "parsed", !.seen = observed]
  <2>1. job' = [job EXCEPT ![w] = next]
    BY <1>8, <1>11 DEF LoadAssets
  <2>2. observed \in [Assets -> NullOr(Int)] /\ observed # <<>> /\ j.fixture \in Fixtures
    BY <1>6, <1>11 DEF LoadAssets, Typed, JobOk
  <2>3. next \in Job /\ next.pc = "parsed" /\ next.fixture = j.fixture /\ next.seen = observed
    BY <1>6, <2>2 DEF Job
  <2>4. job'[w] = next => JobOk(job[w])'
    BY <1>2, <2>2, <2>3 DEF JobOk
  <2> QED
    BY <2>1, <2>3, <2>4
<1>12. CASE StampBatch(w)
  <2> DEFINE next == [j EXCEPT !.pc = "inserting", !.at = clock + 1]
  <2>1. job' = [job EXCEPT ![w] = next] /\ clock' = clock + 1 /\ j.pc = "parsed"
    BY <1>8, <1>12 DEF StampBatch
  <2>2. /\ next \in Job /\ next.pc = "inserting" /\ next.at = clock + 1
        /\ next.fixture = j.fixture /\ next.seen = j.seen /\ next.late = j.late
    <3>1. clock + 1 \in Nat
      BY <1>3
    <3> QED
      BY <1>6, <3>1 DEF Job
  <2>3. \A f \in DOMAIN batches : batches[f].at < clock + 1
    BY <1>3 DEF IInv, Stored
  <2>4. clock + 1 \in 1..clock'
    BY <1>3, <2>1
  <2> HIDE DEF next
  <2>5. job'[w] = next => JobOk(job[w])'
    BY <1>2, <1>6, <2>1, <2>2, <2>3, <2>4 DEF JobOk
  <2> QED
    BY <2>1, <2>2, <2>5
<1>13. CASE Abort(w)
  <2>1. Idle \in Job /\ Idle.pc = "idle"
    BY DEF Idle, Job, Unseen, NullOr
  <2>2. job'[w] = Idle => JobOk(job[w])'
    BY <2>1 DEF JobOk
  <2> QED
    BY <1>13, <2>1, <2>2 DEF Abort, Finish
<1> QED
  BY <1>9, <1>10, <1>11, <1>12, <1>13

LEMMA SeedKeeps ==
  ASSUME IInv, NEW w \in Importers, SeedAssets(w)
  PROVE  IInv'
<1>1. /\ observed = <<>> /\ observed' = [a \in Assets |-> None]
      /\ batches' = batches /\ events' = events /\ errors' = errors /\ audit' = audit
      /\ clock' = clock /\ page' = page /\ raced' = raced
      /\ job' = [job EXCEPT ![w] = Idle]
  BY DEF SeedAssets, Finish
<1>2. DOMAIN batches = {} /\ DOMAIN events = {}
  BY <1>1 DEF IInv, Stored
<1>3. Idle \in Job /\ Idle.pc = "idle"
  BY DEF Idle, Job, Unseen, NullOr
<1>4. job' \in [Importers -> Job] /\ job'[w] = Idle /\ \A v \in Importers \ {w} : job'[v] = job[v]
  BY <1>1, <1>3 DEF IInv, Typed
<1>5. Typed'
  <2>1. observed' \in [Assets -> NullOr(Int)]
    BY <1>1 DEF NullOr
  <2> QED
    BY <1>1, <1>4, <2>1 DEF IInv, Typed
<1>6. Stored'
  BY <1>1, <1>2 DEF IInv, Stored
<1>7. Summed' /\ StampedInOrder'
  BY <1>1 DEF IInv, Summed, StampedInOrder, EventsOf, ErrorsOf, BatchesOf, Accepted, Refused
<1>8. ObservedIsNewest'
  <2>1. \A a : TimesOf(a)' = {}
    BY <1>1, <1>2 DEF TimesOf
  <2>2. \A a \in DOMAIN observed' : observed'[a] = None
    BY <1>1
  <2> QED
    BY <2>1, <2>2, ObservedMeans DEF ObservedMatches
\* no import has got further than looking for the assets
<1>9. JobsOk'
  <2>1. \A v \in Importers \ {w} : /\ job[v].pc \notin {"parsed", "inserting"}
                                   /\ job[v].pc = "finding" => job[v].fixture \in Fixtures
    BY <1>1 DEF IInv, JobsOk, JobOk
  <2> QED
    BY <1>3, <1>4, <2>1 DEF JobsOk, JobOk
<1>10. PageOk'
  <2>1. \A s \in Sources : PartOf(s)' = PartOf(s)
    BY <1>1 DEF PartOf, EventsOf, BatchesOf, LastImported, Newest
  <2> QED
    BY <1>1, <2>1, PageKeeps DEF IInv
<1> QED
  BY <1>5, <1>6, <1>7, <1>8, <1>9, <1>10 DEF IInv

\* The reads of source_health.
LEMMA ReadingKeeps ==
  ASSUME IInv, AskHealth \/ ReadPart \/ ClosePage
  PROVE  IInv'
<1>1. UNCHANGED <<tables, clock, job, raced>>
  BY DEF AskHealth, ReadPart, ClosePage
<1>2. /\ clock \in 0..MaxStamps /\ clock \in Nat
  BY NumbersAssumption DEF IInv, Typed
<1>3. /\ Stored' /\ Summed' /\ StampedInOrder' /\ ObservedIsNewest'
      /\ \A s \in Sources : PartOf(s)' = PartOf(s)
  BY <1>1, <1>2, TablesKeep
<1>4. observed' = observed /\ batches' = batches
  BY <1>1 DEF tables
<1>5. Typed' /\ JobsOk'
  BY <1>1, <1>4 DEF IInv, Typed, JobsOk, JobOk
<1>6. PageOk
  BY DEF IInv
<1>7. CASE AskHealth
  <2>1. PICK s \in Sources, now \in Nows :
          page' = [NoPage EXCEPT !.step = 1, !.source = s, !.now = now]
    BY <1>7 DEF AskHealth
  <2>2. /\ page'.step = 1 /\ page'.source = s /\ page'.now = now /\ page'.shown = Unread
        /\ DOMAIN page' = {"step", "source", "now", "shown", "overtaken"}
    BY <2>1 DEF NoPage
  <2>3. DOMAIN page'.shown = Range(Parts) /\ now \in Nat
    BY <2>2, NumbersAssumption DEF Unread
  <2>4. PageOk'
    BY <2>2, <2>3, PartsAre DEF PageOk
  <2> QED
    BY <1>3, <1>5, <2>4 DEF IInv
<1>8. CASE ReadPart
  <2> DEFINE n == page.step
             s == page.source
  <2>1. /\ n \in 1..6
        /\ page' = [page EXCEPT !.step = n + 1, !.shown[Parts[n]] = PartOf(s)[Parts[n]]]
    BY <1>8, PartsAre DEF ReadPart
  <2>2. /\ DOMAIN page' = DOMAIN page
        /\ page'.step = n + 1 /\ page'.source = s /\ page'.now = page.now
        /\ page'.overtaken = page.overtaken
        /\ page'.shown = [page.shown EXCEPT ![Parts[n]] = PartOf(s)[Parts[n]]]
    BY <1>6, <2>1 DEF PageOk
  <2>3. DOMAIN page'.shown = Range(Parts)
    BY <1>6, <2>2 DEF PageOk
  <2>4. PartOf(page.source)' = PartOf(page.source)
    BY <1>3, <1>6, <2>2 DEF PageOk
  <2>5. ASSUME ~ page.overtaken, NEW k \in 1..6, k < n + 1
        PROVE  page'.shown[Parts[k]] = PartOf(s)[Parts[k]]
    <3>1. CASE k = n
      BY <1>6, <2>1, <2>2, <3>1, PartsAre DEF PageOk
    <3>2. CASE k # n
      <4>1. k < n /\ Parts[k] # Parts[n]
        BY <2>1, <2>5, <3>2, PartsAre
      <4>2. page'.shown[Parts[k]] = page.shown[Parts[k]]
        BY <1>6, <2>2, <4>1, PartsAre DEF PageOk
      <4> QED
        BY <1>6, <2>5, <4>1, <4>2, PartsAre DEF PageOk
    <3> QED
      BY <3>1, <3>2
  <2>6. page'.step \in 0..7
    BY <2>1, <2>2
  <2>7. PageOk'
    BY <1>6, <2>2, <2>3, <2>4, <2>5, <2>6, PartsAre DEF PageOk
  <2> QED
    BY <1>3, <1>5, <2>7 DEF IInv
<1>9. CASE ClosePage
  <2>1. page' = NoPage
    BY <1>9 DEF ClosePage
  <2>2. /\ NoPage.step = 0 /\ NoPage.source \in Sources /\ NoPage.now \in Nat
        /\ DOMAIN NoPage.shown = Range(Parts)
        /\ DOMAIN NoPage = {"step", "source", "now", "shown", "overtaken"}
    BY DEF NoPage, Unread, Sources
  <2>3. PageOk'
    BY <2>1, <2>2, PartsAre DEF PageOk
  <2> QED
    BY <1>3, <1>5, <2>3 DEF IInv
<1> QED
  BY <1>7, <1>8, <1>9

-----------------------------------------------------------------------------
(* The transaction of an import.                                           *)

LEMMA EmptyFunction ==
  ASSUME NEW X, NEW f \in [{} -> X]
  PROVE  f = <<>>
OBVIOUS

\* A greatest element is the maximum.
LEMMA MaxIs ==
  ASSUME NEW S, S \subseteq Int, NEW x \in S, \A y \in S : y <= x
  PROVE  Max(S) = x
<1>1. Max(S) = CHOOSE m \in S : \A y \in S : m >= y
  BY DEF Max
<1>2. \A y \in S : x >= y
  OBVIOUS
<1>3. Max(S) \in S /\ \A y \in S : Max(S) >= y
  BY <1>1, <1>2
<1>4. Max(S) \in Int /\ x \in Int /\ Max(S) >= x /\ Max(S) <= x
  BY <1>3
<1> QED
  BY <1>4

\* The identities an import of f adds.
Added(f) == SuppliedBy(f) \ DOMAIN events

\* What the transaction leaves in the tables.
Committed(w, f) ==
  /\ f \in Fixtures /\ f \notin DOMAIN batches /\ f = job[w].fixture
  /\ DOMAIN batches' = DOMAIN batches \cup {f}
  /\ batches'[f] = BatchRow(f, job[w].at)
  /\ \A g \in DOMAIN batches : batches'[g] = batches[g]
  /\ DOMAIN errors' = DOMAIN batches'
  /\ errors'[f] = ErrorRows(f)
  /\ \A g \in DOMAIN batches : errors'[g] = errors[g]
  /\ DOMAIN events' = DOMAIN events \cup SuppliedBy(f)
  /\ \A i \in DOMAIN events : events'[i] = events[i]
  /\ \A i \in Added(f) : events'[i] \in EventRow /\ events'[i].batch = f
  /\ audit' = Append(audit, f)
  /\ Range(audit') = DOMAIN batches'
  /\ clock' = clock
  /\ raced' = raced \cup (IF job[w].late THEN {f} ELSE {})

LEMMA CommitCommits ==
  ASSUME IInv, NEW w \in Importers, ImportCommit(w)
  PROVE  Committed(w, job[w].fixture)
<1> DEFINE f == job[w].fixture
           j == job[w]
           new == {IdentityAt(f, k) : k \in NewLines(f)}
<1>1. f \in Fixtures
  BY DEF IInv, JobsOk, JobOk, ImportCommit
<1>2. /\ f \notin DOMAIN batches
      /\ batches' = WithBatch(f, BatchRow(f, j.at))
      /\ events' = WithEvents(f)
      /\ errors' = WithErrors(f)
      /\ audit' = Append(audit, f)
      /\ raced' = raced \cup (IF j.late THEN {f} ELSE {})
      /\ clock' = clock
  BY DEF ImportCommit, Overtake
<1>3. /\ DOMAIN batches' = DOMAIN batches \cup {f}
      /\ batches'[f] = BatchRow(f, j.at)
      /\ \A g \in DOMAIN batches : batches'[g] = batches[g]
  BY <1>2 DEF WithBatch
<1>4. /\ DOMAIN errors' = DOMAIN batches'
      /\ errors'[f] = ErrorRows(f)
      /\ \A g \in DOMAIN batches : errors'[g] = errors[g]
  <2>1. DOMAIN errors = DOMAIN batches
    BY DEF IInv, Stored
  <2> QED
    BY <1>2, <1>3, <2>1 DEF WithErrors, ErrorRows
<1>5. new = Added(f)
  BY <1>1, NewLinesAdd DEF Added
<1>6. /\ DOMAIN events' = DOMAIN events \cup new
      /\ \A i \in DOMAIN events \ new : events'[i] = events[i]
      /\ \A i \in new : \E line : events'[i] = [batch |-> f, high |-> IsHigh(line)]
  <2> DEFINE line == [i \in new |-> Lines[f][CHOOSE k \in NewLines(f) : IdentityAt(f, k) = i]]
  <2>1. events' = [i \in DOMAIN events \cup new |->
                     IF i \in new THEN [batch |-> f, high |-> IsHigh(line[i])] ELSE events[i]]
    BY <1>2 DEF WithEvents
  <2> HIDE DEF line, new
  <2> QED
    BY <2>1
<1>7. /\ DOMAIN events' = DOMAIN events \cup SuppliedBy(f)
      /\ \A i \in DOMAIN events : events'[i] = events[i]
  <2> HIDE DEF new
  <2> QED
    BY <1>5, <1>6 DEF Added
<1>8. \A i \in Added(f) : events'[i] \in EventRow /\ events'[i].batch = f
  <2> HIDE DEF new
  <2>1. \A line : IsHigh(line) \in BOOLEAN
    BY DEF IsHigh
  <2> QED
    BY <1>1, <1>5, <1>6, <2>1 DEF EventRow
<1>9. Range(audit') = DOMAIN batches'
  <2>1. audit \in Seq(Fixtures) /\ Range(audit) = DOMAIN batches
    BY DEF IInv, Stored
  <2>2. /\ DOMAIN Append(audit, f) = DOMAIN audit \cup {Len(audit) + 1}
        /\ Append(audit, f)[Len(audit) + 1] = f
        /\ \A n \in DOMAIN audit : Append(audit, f)[n] = audit[n]
    BY <1>1, <2>1
  <2>3. Range(Append(audit, f)) = Range(audit) \cup {f}
    BY <2>2 DEF Range
  <2> QED
    BY <1>2, <1>3, <2>1, <2>3
<1> QED
  BY <1>1, <1>2, <1>3, <1>4, <1>7, <1>8, <1>9 DEF Committed

LEMMA AddedFinite ==
  ASSUME NEW f \in Fixtures
  PROVE  IsFiniteSet(Added(f)) /\ Cardinality(Added(f)) = Cardinality(NewLines(f))
BY NewLinesAdd DEF Added

\* The new row tells what the file is made of.
LEMMA BatchRowOk ==
  ASSUME NEW f \in Fixtures, NEW at \in Nat
  PROVE  RowOk(f, BatchRow(f, at)) /\ BatchRow(f, at).at = at
                                   /\ BatchRow(f, at).accepted = Cardinality(NewLines(f))
<1> DEFINE row == BatchRow(f, at)
           old == EventLines(f) \ NewLines(f)
<1>1. /\ row.at = at /\ row.total = Len(Lines[f])
      /\ row.accepted = Cardinality(NewLines(f)) /\ row.duplicate = Cardinality(old)
      /\ row.error = Cardinality(ErrorLines(f))
      /\ row.status = IF ErrorLines(f) = {} THEN "SUCCESS" ELSE "ERROR"
  BY DEF BatchRow
<1>2. /\ NewLines(f) \subseteq EventLines(f)
      /\ IsFiniteSet(NewLines(f)) /\ IsFiniteSet(EventLines(f)) /\ IsFiniteSet(ErrorLines(f))
  BY NewLinesAdd, LinesCount
<1>3. EventLines(f) \cap NewLines(f) = NewLines(f)
  BY <1>2
<1>4. /\ IsFiniteSet(old)
      /\ Cardinality(old) = Cardinality(EventLines(f)) - Cardinality(EventLines(f) \cap NewLines(f))
  BY <1>2, FS_Difference
<1>5. /\ Cardinality(NewLines(f)) \in Nat /\ Cardinality(EventLines(f)) \in Nat
      /\ Cardinality(old) \in Nat /\ Cardinality(ErrorLines(f)) \in Nat
  BY <1>2, <1>4, FS_CardinalityType
<1>6. row.accepted + row.duplicate = Cardinality(EventLines(f))
  <2>1. Cardinality(old) = Cardinality(EventLines(f)) - Cardinality(NewLines(f))
    BY <1>3, <1>4
  <2> HIDE DEF row, old
  <2> QED
    BY <1>1, <1>5, <2>1
<1>7. row \in Batch
  <2>1. Len(Lines[f]) \in Nat
    BY LinesTyped
  <2> QED
    BY <1>5, <2>1 DEF BatchRow, Batch
<1>8. row.status = "ERROR" <=> ErrorLines(f) # {}
  BY <1>1
<1> QED
  BY <1>1, <1>6, <1>7, <1>8 DEF RowOk

\* The times an import of f adds to asset a.
NewTimes(f, a) ==
  {TimestampUtc(Lines[f][k]) : k \in {j \in NewLines(f) : AssetOf(Lines[f][j]) = a}}

LEMMA NewTimesTyped ==
  ASSUME NEW f \in Fixtures, NEW a
  PROVE  NewTimes(f, a) \subseteq Int /\ IsFiniteSet(NewTimes(f, a))
<1> DEFINE ks == {j \in NewLines(f) : AssetOf(Lines[f][j]) = a}
           time == [k \in ks |-> TimestampUtc(Lines[f][k])]
<1>1. NewLines(f) \subseteq EventLines(f) /\ IsFiniteSet(NewLines(f))
  BY NewLinesAdd
<1>2. ks \in SUBSET NewLines(f) /\ IsFiniteSet(ks)
  <2>1. ks \in SUBSET NewLines(f)
    OBVIOUS
  <2> QED
    BY <1>1, <2>1, FS_Subset
<1>3. time \in Surjection(ks, NewTimes(f, a))
  BY DEF Surjection, NewTimes
<1>4. IsFiniteSet(NewTimes(f, a))
  <2> HIDE DEF ks, time
  <2> QED
    BY <1>2, <1>3, FS_Surjection
<1>5. NewTimes(f, a) \subseteq Int
  BY <1>1, LinesTyped DEF NewTimes
<1> QED
  BY <1>4, <1>5

LEMMA CommitTyped ==
  ASSUME IInv, NEW w \in Importers, ImportCommit(w)
  PROVE  Typed' /\ (observed # <<>> /\ observed' # <<>> /\ DOMAIN observed = Assets)
<1> DEFINE f == job[w].fixture
           seen == job[w].seen
<1>1. observed # <<>> /\ observed \in [Assets -> NullOr(Int)]
  BY DEF IInv, Typed, JobsOk, JobOk, ImportCommit
<1>2. Assets # {}
  BY <1>1, EmptyFunction
<1>3. ASSUME NEW a \in Assets PROVE Observation(f, seen, a) \in NullOr(Int)
  <2> DEFINE times == {TimestampUtc(Lines[f][k]) : k \in {j \in NewLines(f) : AssetOf(Lines[f][j]) = a}}
  <2>1. f \in Fixtures
    BY CommitCommits DEF Committed
  <2>2. CASE Observation(f, seen, a) = None
    BY <2>2 DEF NullOr
  <2>3. CASE Observation(f, seen, a) # None
    <3>1. times # {} /\ Observation(f, seen, a) = Max(times)
      BY <2>3 DEF Observation
    <3>2. times \subseteq Int /\ IsFiniteSet(times)
      BY <2>1, NewTimesTyped DEF NewTimes
    <3>3. Max(times) \in times
      <4> HIDE DEF times
      <4> QED
        BY <3>1, <3>2, GreatestElement
    <3> QED
      BY <3>1, <3>2, <3>3 DEF NullOr
  <2> QED
    BY <2>2, <2>3
<1>4. observed' \in [Assets -> NullOr(Int)]
  <2>1. observed' = [a \in Assets |-> IF Observation(f, seen, a) = None THEN observed[a]
                                      ELSE Observation(f, seen, a)]
    BY <1>1 DEF ImportCommit
  <2> QED
    BY <1>1, <1>3, <2>1
<1>5. observed' # <<>>
  BY <1>2, <1>4
<1>6. job' \in [Importers -> Job]
  <2>1. Idle \in Job
    BY DEF Idle, Job, Unseen, NullOr
  <2>2. ASSUME NEW v \in Importers
        PROVE  [job[v] EXCEPT !.late = @ \/ job[v].pc \in {"parsed", "inserting"}] \in Job
    BY DEF IInv, Typed, Job
  <2>3. job' = [v \in Importers |->
                  IF v = w THEN Idle
                  ELSE [job[v] EXCEPT !.late = @ \/ job[v].pc \in {"parsed", "inserting"}]]
    BY DEF ImportCommit, Overtake
  <2> QED
    BY <2>1, <2>2, <2>3
<1>7. clock' = clock
  BY DEF ImportCommit
<1> QED
  BY <1>1, <1>4, <1>5, <1>6, <1>7 DEF IInv, Typed

LEMMA CommitStored ==
  ASSUME IInv, NEW w \in Importers, ImportCommit(w)
  PROVE  Stored'
<1> DEFINE j == job[w]
<1>1. PICK f : Committed(w, f)
  BY CommitCommits
<1>2. Stored /\ f \in Fixtures /\ j.at \in 1..clock /\ clock' = clock
  BY <1>1 DEF IInv, JobsOk, JobOk, ImportCommit, Committed
<1>3. audit' \in Seq(Fixtures) /\ Range(audit') = DOMAIN batches' /\ DOMAIN errors' = DOMAIN batches'
  BY <1>1, <1>2 DEF Committed, Stored
\* the rows of the other batches are those they were
<1>4. ASSUME NEW g \in DOMAIN batches PROVE RowsOf(g)' = RowsOf(g)
  <2>1. g # f
    BY <1>1 DEF Committed
  <2>2. \A i \in DOMAIN events' : i \in DOMAIN events \/ i \in Added(f)
    BY <1>1 DEF Committed, Added
  <2> QED
    BY <1>1, <2>1, <2>2 DEF Committed, RowsOf
<1>5. RowsOf(f)' = Added(f)
  <2>1. \A i \in DOMAIN events : events'[i].batch # f
    BY <1>1, <1>2 DEF Committed, Stored
  <2>2. \A i \in Added(f) : i \in DOMAIN events' /\ events'[i].batch = f
    BY <1>1 DEF Committed, Added
  <2>3. \A i \in DOMAIN events' : i \in DOMAIN events \/ i \in Added(f)
    BY <1>1 DEF Committed, Added
  <2> QED
    BY <2>1, <2>2, <2>3 DEF RowsOf
<1>6. ASSUME NEW g \in DOMAIN batches'
      PROVE  /\ g \in Fixtures
             /\ RowOk(g, batches'[g])
             /\ batches'[g].at \in 1..clock'
             /\ errors'[g] = ErrorRows(g)
             /\ batches'[g].accepted = Cardinality(RowsOf(g)')
  <2>1. CASE g = f
    <3>1. batches'[g] = BatchRow(f, j.at) /\ errors'[g] = ErrorRows(f)
      BY <1>1, <2>1 DEF Committed
    <3>2. j.at \in Nat
      BY <1>2, JobTyped DEF IInv
    <3>3. /\ RowOk(f, BatchRow(f, j.at)) /\ BatchRow(f, j.at).at = j.at
          /\ BatchRow(f, j.at).accepted = Cardinality(NewLines(f))
      BY <1>2, <3>2, BatchRowOk
    <3>4. Cardinality(Added(f)) = Cardinality(NewLines(f))
      BY <1>2, AddedFinite
    <3> QED
      BY <1>2, <1>5, <2>1, <3>1, <3>3, <3>4
  <2>2. CASE g # f
    <3>1. g \in DOMAIN batches /\ batches'[g] = batches[g] /\ errors'[g] = errors[g]
      BY <1>1, <2>2 DEF Committed
    <3> QED
      BY <1>2, <1>4, <3>1 DEF Stored
  <2> QED
    BY <2>1, <2>2
<1>7. IsFiniteSet(DOMAIN events')
  <2>1. DOMAIN events' = DOMAIN events \cup Added(f)
    BY <1>1 DEF Committed, Added
  <2>2. IsFiniteSet(DOMAIN events) /\ IsFiniteSet(Added(f))
    BY <1>2, AddedFinite DEF Stored
  <2> QED
    BY <2>1, <2>2, FS_Union
<1>8. DOMAIN events' = UNION {SuppliedBy(g) : g \in DOMAIN batches'}
  BY <1>1, <1>2 DEF Committed, Stored
<1>9. \A i \in DOMAIN events' : events'[i] \in EventRow /\ events'[i].batch \in DOMAIN batches'
  <2>1. \A i \in DOMAIN events' : i \in DOMAIN events \/ i \in Added(f)
    BY <1>1 DEF Committed, Added
  <2> QED
    BY <1>1, <1>2, <2>1 DEF Committed, Stored
<1>10. observed' # <<>>
  BY CommitTyped
<1>11. raced' \subseteq DOMAIN batches'
  BY <1>1, <1>2 DEF Committed, Stored
<1> QED
  BY <1>3, <1>6, <1>7, <1>8, <1>9, <1>10, <1>11 DEF Stored

\* A disjoint set added counts in full.
LEMMA AddedCounts ==
  ASSUME NEW S, IsFiniteSet(S), NEW T, IsFiniteSet(T), S \cap T = {}
  PROVE  IsFiniteSet(S \cup T) /\ Cardinality(S \cup T) = Cardinality(S) + Cardinality(T)
<1>1. /\ IsFiniteSet(S \cup T)
      /\ Cardinality(S \cup T) = Cardinality(S) + Cardinality(T) - Cardinality(S \cap T)
  BY FS_Union
<1>2. Cardinality(S \cap T) = 0 /\ Cardinality(S) \in Nat /\ Cardinality(T) \in Nat
  BY FS_EmptySet, FS_CardinalityType
<1> QED
  BY <1>1, <1>2

LEMMA CommitSummed ==
  ASSUME IInv, NEW w \in Importers, ImportCommit(w)
  PROVE  Summed'
<1>1. PICK f : Committed(w, f)
  BY CommitCommits
<1>2. Stored /\ Summed /\ f \in Fixtures /\ audit \in Seq(Fixtures) /\ audit' = Append(audit, f)
  BY <1>1 DEF IInv, Committed, Stored
<1>3. /\ \A g \in Range(audit) : Accepted[g] = Accepted'[g] /\ Refused[g] = Refused'[g]
      /\ Accepted'[f] = Cardinality(NewLines(f)) /\ Refused'[f] = Cardinality(ErrorLines(f))
  <2>1. job[w].at \in Nat
    BY JobTyped DEF IInv
  <2>2. batches'[f].accepted = Cardinality(NewLines(f)) /\ batches'[f].error = Cardinality(ErrorLines(f))
    BY <1>1, <1>2, <2>1, BatchRowOk DEF Committed, RowOk
  <2> QED
    BY <1>1, <1>2, <2>2 DEF Committed, Stored, Accepted, Refused
<1> SUFFICES ASSUME NEW s \in Sources
             PROVE  /\ Cardinality(EventsOf(s)') = SumOver(audit', s, Accepted')
                    /\ IsFiniteSet(ErrorsOf(s)')
                    /\ Cardinality(ErrorsOf(s)') = SumOver(audit', s, Refused')
  BY DEF Summed
<1> DEFINE adds == IF SourceOf[f] = s THEN Added(f) ELSE {}
           refuses == IF SourceOf[f] = s THEN {f} \X ErrorRows(f) ELSE {}
<1>4. SumOver(audit', s, Accepted')
        = SumOver(audit, s, Accepted) + IF SourceOf[f] = s THEN Cardinality(NewLines(f)) ELSE 0
  BY <1>2, <1>3, SumOfAppend
<1>5. SumOver(audit', s, Refused')
        = SumOver(audit, s, Refused) + IF SourceOf[f] = s THEN Cardinality(ErrorLines(f)) ELSE 0
  BY <1>2, <1>3, SumOfAppend
<1>6. EventsOf(s)' = EventsOf(s) \cup adds
  <2>1. \A i \in SuppliedBy(f) : i.source = SourceOf[f]
    BY DEF SuppliedBy, IdentityAt, Identity
  <2>2. DOMAIN events' = DOMAIN events \cup Added(f)
    BY <1>1 DEF Committed, Added
  <2>3. \A i \in Added(f) : i.source = SourceOf[f]
    BY <2>1 DEF Added
  <2> QED
    BY <2>2, <2>3 DEF EventsOf
<1>7. Cardinality(EventsOf(s)') = SumOver(audit', s, Accepted')
  <2>1. EventsOf(s) \in SUBSET DOMAIN events /\ IsFiniteSet(EventsOf(s))
    <3>1. EventsOf(s) \in SUBSET DOMAIN events
      BY DEF EventsOf
    <3> QED
      BY <1>2, <3>1, FS_Subset DEF Stored
  <2>2. /\ IsFiniteSet(adds) /\ EventsOf(s) \cap adds = {}
        /\ Cardinality(adds) = IF SourceOf[f] = s THEN Cardinality(NewLines(f)) ELSE 0
    BY <1>2, <2>1, AddedFinite, FS_EmptySet DEF Added
  <2>3. Cardinality(EventsOf(s)) = SumOver(audit, s, Accepted)
    BY <1>2 DEF Summed
  <2> HIDE DEF adds
  <2>4. Cardinality(EventsOf(s) \cup adds) = Cardinality(EventsOf(s)) + Cardinality(adds)
    BY <2>1, <2>2, AddedCounts
  <2> QED
    BY <1>4, <1>6, <2>2, <2>3, <2>4
<1>8. ErrorsOf(s)' = ErrorsOf(s) \cup refuses
  <2>1. BatchesOf(s)' = BatchesOf(s) \cup IF SourceOf[f] = s THEN {f} ELSE {}
    BY <1>1 DEF Committed, BatchesOf
  <2>2. \A g \in BatchesOf(s) : errors'[g] = errors[g]
    BY <1>1 DEF Committed, BatchesOf
  <2>3. errors'[f] = ErrorRows(f)
    BY <1>1 DEF Committed
  <2>4. ErrorsOf(s)' = UNION {{g} \X errors'[g] : g \in BatchesOf(s)'}
    BY DEF ErrorsOf
  <2>5. CASE SourceOf[f] = s
    <3>1. BatchesOf(s)' = BatchesOf(s) \cup {f}
      BY <2>1, <2>5
    <3> QED
      BY <2>2, <2>3, <2>4, <2>5, <3>1 DEF ErrorsOf
  <2>6. CASE SourceOf[f] # s
    <3>1. BatchesOf(s)' = BatchesOf(s)
      BY <2>1, <2>6
    <3> QED
      BY <2>2, <2>4, <2>6, <3>1 DEF ErrorsOf
  <2> QED
    BY <2>5, <2>6
<1>9. /\ IsFiniteSet(ErrorsOf(s)')
      /\ Cardinality(ErrorsOf(s)') = SumOver(audit', s, Refused')
  <2>1. IsFiniteSet(ErrorsOf(s)) /\ Cardinality(ErrorsOf(s)) = SumOver(audit, s, Refused)
    BY <1>2 DEF Summed
  <2>2. ErrorsOf(s) \cap refuses = {}
    BY <1>1 DEF Committed, ErrorsOf, BatchesOf
  <2>3. /\ IsFiniteSet(refuses)
        /\ Cardinality(refuses) = IF SourceOf[f] = s THEN Cardinality(ErrorLines(f)) ELSE 0
    <3>1. IsFiniteSet(ErrorRows(f)) /\ Cardinality(ErrorRows(f)) = Cardinality(ErrorLines(f))
      BY <1>2, LinesCount
    <3>2. Cardinality(ErrorRows(f)) \in Nat
      BY <3>1, FS_CardinalityType
    <3>3. IsFiniteSet({f}) /\ Cardinality({f}) = 1
      BY FS_Singleton
    <3>4. /\ IsFiniteSet({f} \X ErrorRows(f))
          /\ Cardinality({f} \X ErrorRows(f)) = 1 * Cardinality(ErrorRows(f))
      BY <3>1, <3>3, FS_Product
    <3>5. Cardinality({f} \X ErrorRows(f)) = Cardinality(ErrorLines(f))
      BY <3>1, <3>2, <3>4
    <3> QED
      BY <3>4, <3>5, FS_EmptySet
  <2> HIDE DEF refuses
  <2>4. /\ IsFiniteSet(ErrorsOf(s) \cup refuses)
        /\ Cardinality(ErrorsOf(s) \cup refuses) = Cardinality(ErrorsOf(s)) + Cardinality(refuses)
    BY <2>1, <2>2, <2>3, AddedCounts
  <2> QED
    BY <1>5, <1>8, <2>1, <2>3, <2>4
<1> QED
  BY <1>7, <1>9

LEMMA CommitInOrder ==
  ASSUME IInv, NEW w \in Importers, ImportCommit(w)
  PROVE  StampedInOrder'
<1>1. PICK f : Committed(w, f)
  BY CommitCommits
<1> SUFFICES ASSUME NEW m \in DOMAIN audit', NEW n \in DOMAIN audit', m < n,
                    audit'[n] \notin raced'
             PROVE  batches'[audit'[m]].at < batches'[audit'[n]].at
  BY DEF StampedInOrder
<1>2. /\ raced \subseteq raced' /\ (job[w].late => f \in raced')
      /\ audit \in Seq(Fixtures) /\ Range(audit) = DOMAIN batches
      /\ audit' = Append(audit, f) /\ f \in Fixtures
  BY <1>1 DEF Committed, IInv, Stored
<1>3. /\ ~ job[w].late => \A g \in DOMAIN batches : batches[g].at < job[w].at
      /\ batches'[f].at = job[w].at
  <2>1. job[w].at \in Nat
    BY JobTyped DEF IInv
  <2>2. ~ job[w].late => \A g \in DOMAIN batches : batches[g].at < job[w].at
    BY DEF IInv, JobsOk, JobOk, ImportCommit
  <2> QED
    BY <1>1, <1>2, <2>1, <2>2, BatchRowOk DEF Committed
<1>4. /\ m \in 1..(Len(audit) + 1) /\ n \in 1..(Len(audit) + 1) /\ Len(audit) \in Nat
      /\ DOMAIN audit = 1..Len(audit)
      /\ \A k \in 1..Len(audit) : audit'[k] = audit[k]
      /\ audit'[Len(audit) + 1] = f
  BY <1>2
<1>5. m \in DOMAIN audit /\ audit'[m] = audit[m]
  BY <1>4
<1>6. audit[m] \in DOMAIN batches /\ batches'[audit[m]] = batches[audit[m]]
  BY <1>1, <1>2, <1>5 DEF Committed, Range
<1>7. CASE n = Len(audit) + 1
  <2>1. ~ job[w].late
    BY <1>2, <1>4, <1>7
  <2> QED
    BY <1>3, <1>4, <1>5, <1>6, <1>7, <2>1
<1>8. CASE n # Len(audit) + 1
  <2>1. n \in DOMAIN audit /\ audit'[n] = audit[n]
    BY <1>4, <1>8
  <2>2. audit[n] \in DOMAIN batches /\ batches'[audit[n]] = batches[audit[n]]
    BY <1>1, <1>2, <2>1 DEF Committed, Range
  <2> QED
    BY <1>2, <1>5, <1>6, <2>1, <2>2 DEF IInv, StampedInOrder
<1> QED
  BY <1>7, <1>8

\* The times of an asset's events are finitely many integers.
LEMMA TimesTyped ==
  ASSUME Stored, NEW a
  PROVE  TimesOf(a) \subseteq Int /\ IsFiniteSet(TimesOf(a))
<1> DEFINE S == {j \in DOMAIN events : j.asset = a}
           time == [i \in S |-> i.time]
<1>1. S \in SUBSET DOMAIN events /\ IsFiniteSet(S)
  <2>1. S \in SUBSET DOMAIN events
    OBVIOUS
  <2> QED
    BY <2>1, FS_Subset DEF Stored
<1>2. time \in Surjection(S, TimesOf(a))
  BY DEF Surjection, TimesOf
<1>3. IsFiniteSet(TimesOf(a))
  <2> HIDE DEF S, time
  <2> QED
    BY <1>1, <1>2, FS_Surjection
<1>4. \A i \in DOMAIN events : i.time \in Int
  <2> SUFFICES ASSUME NEW i \in DOMAIN events PROVE i.time \in Int
    OBVIOUS
  <2>1. PICK f \in DOMAIN batches : i \in SuppliedBy(f)
    BY DEF Stored
  <2>2. f \in Fixtures
    BY DEF Stored
  <2>3. PICK k \in EventLines(f) : i = IdentityAt(f, k)
    BY <2>1 DEF SuppliedBy
  <2>4. i.time = TimestampUtc(Lines[f][k])
    BY <2>3 DEF IdentityAt, Identity
  <2> QED
    BY <2>2, <2>4, LinesTyped
<1> QED
  BY <1>3, <1>4 DEF TimesOf

\* An import adds the times of its own new events.
LEMMA TimesAfterCommit ==
  ASSUME IInv, NEW w \in Importers, NEW f, Committed(w, f), NEW a
  PROVE  TimesOf(a)' = TimesOf(a) \cup NewTimes(f, a)
<1>1. f \in Fixtures /\ DOMAIN events' = DOMAIN events \cup Added(f)
  BY DEF Committed, Added
<1>2. Added(f) = {IdentityAt(f, k) : k \in NewLines(f)}
  BY <1>1, NewLinesAdd DEF Added
<1>3. \A k : /\ IdentityAt(f, k).time = TimestampUtc(Lines[f][k])
             /\ IdentityAt(f, k).asset = AssetOf(Lines[f][k])
  BY DEF IdentityAt, Identity
<1>4. NewTimes(f, a) = {i.time : i \in {j \in Added(f) : j.asset = a}}
  BY <1>2, <1>3 DEF NewTimes
<1> QED
  BY <1>1, <1>4 DEF TimesOf

LEMMA CommitObserved ==
  ASSUME IInv, NEW w \in Importers, ImportCommit(w)
  PROVE  ObservedIsNewest'
<1>1. PICK f : Committed(w, f)
  BY CommitCommits
<1> DEFINE j == job[w]
<1>2. /\ f \in Fixtures /\ f = j.fixture /\ Stored /\ ObservedMatches
      /\ raced' = raced \cup (IF j.late THEN {f} ELSE {})
  BY <1>1, ObservedMeans DEF IInv, Committed
<1>3. /\ observed \in [Assets -> NullOr(Int)]
      /\ observed' = [a \in Assets |-> IF Observation(f, j.seen, a) = None THEN observed[a]
                                       ELSE Observation(f, j.seen, a)]
  <2>1. observed \in [Assets -> NullOr(Int)]
    BY CommitTyped DEF IInv, Typed
  <2> QED
    BY <1>2, <2>1 DEF ImportCommit
<1>4. /\ ~ j.late => j.seen = observed
      /\ \A a \in Assets : j.seen[a] # None => observed[a] # None
  BY DEF IInv, JobsOk, JobOk, ImportCommit
<1>5. ASSUME NEW a \in Assets
      PROVE  /\ (observed'[a] = None) <=> (TimesOf(a)' = {})
             /\ TimesOf(a)' # {} => observed'[a] \in TimesOf(a)'
             /\ TimesOf(a)' # {} /\ ~ Overtaken(a)' => observed'[a] = Max(TimesOf(a)')
  <2> DEFINE old == TimesOf(a)
             new == NewTimes(f, a)
  <2>1. TimesOf(a)' = old \cup new
    BY <1>1, TimesAfterCommit
  <2>2. old \subseteq Int /\ IsFiniteSet(old) /\ new \subseteq Int /\ IsFiniteSet(new)
    BY <1>2, TimesTyped, NewTimesTyped
  <2>3. /\ (observed[a] = None) <=> (old = {})
        /\ old # {} => observed[a] \in old
        /\ old # {} /\ ~ Overtaken(a) => observed[a] = Max(old)
    BY <1>2, <1>3 DEF ObservedMatches
  <2>4. Observation(f, j.seen, a)
          = IF new # {} /\ (j.seen[a] = None \/ Max(new) > j.seen[a]) THEN Max(new) ELSE None
    BY DEF Observation, NewTimes
  <2>5. observed'[a] = IF Observation(f, j.seen, a) = None THEN observed[a]
                       ELSE Observation(f, j.seen, a)
    BY <1>3
  <2>6. Overtaken(a) => Overtaken(a)'
    BY <1>1, <1>2 DEF Overtaken, Committed
  <2>7. new # {} /\ j.late => Overtaken(a)'
    <3> SUFFICES ASSUME new # {}, j.late PROVE Overtaken(a)'
      OBVIOUS
    <3>1. PICK k \in NewLines(f) : AssetOf(Lines[f][k]) = a
      BY DEF NewTimes
    <3>2. IdentityAt(f, k) \in Added(f) /\ IdentityAt(f, k).asset = a
      BY <1>2, <3>1, NewLinesAdd DEF Added, IdentityAt, Identity
    <3> QED
      BY <1>1, <1>2, <3>2 DEF Overtaken, Committed, Added
  <2> HIDE DEF old, new
  <2>8. CASE new = {}
    <3>1. TimesOf(a)' = old
      BY <2>1, <2>8
    <3>2. observed'[a] = observed[a]
      BY <2>4, <2>5, <2>8
    <3> QED
      BY <2>3, <2>6, <3>1, <3>2
  <2>9. CASE new # {}
    <3> DEFINE m == Max(new)
    <3>1. m \in new /\ (\A t \in new : t <= m) /\ m \in Int
      BY <2>2, <2>9, GreatestElement
    <3>2. m # None
      BY <3>1, NoneAssumption
    <3> HIDE DEF m
    <3>3. CASE j.seen[a] = None \/ m > j.seen[a]
      <4>1. observed'[a] = m
        BY <2>4, <2>5, <2>9, <3>2, <3>3 DEF m
      <4>2. ASSUME ~ Overtaken(a)' PROVE m = Max(old \cup new)
        <5>1. j.seen = observed /\ ~ Overtaken(a)
          BY <1>4, <2>9, <2>6, <2>7, <4>2
        <5>2. \A t \in old : t <= m
          <6>1. CASE old = {}
            BY <6>1
          <6>2. CASE old # {}
            <7>1. observed[a] = Max(old) /\ Max(old) \in old /\ \A t \in old : t <= Max(old)
              BY <2>2, <2>3, <5>1, <6>2, GreatestElement
            <7>2. m > Max(old)
              BY <2>3, <3>3, <5>1, <6>2, <7>1
            <7>3. \A t \in old : t \in Int /\ Max(old) \in Int
              BY <2>2, <7>1
            <7> QED
              BY <3>1, <7>1, <7>2, <7>3
          <6> QED
            BY <6>1, <6>2
        <5>3. \A t \in old \cup new : t <= m
          BY <3>1, <5>2
        <5>4. old \cup new \subseteq Int /\ m \in old \cup new
          BY <2>2, <3>1
        <5> QED
          BY <5>3, <5>4, MaxIs
      <4> QED
        BY <2>1, <2>9, <3>1, <3>2, <4>1, <4>2
    <3>4. CASE ~ (j.seen[a] = None \/ m > j.seen[a])
      <4>1. observed'[a] = observed[a]
        BY <2>4, <2>5, <3>4 DEF m
      <4>2. observed[a] # None /\ old # {} /\ observed[a] \in old
        BY <1>4, <2>3, <3>4
      <4>3. ASSUME ~ Overtaken(a)' PROVE observed[a] = Max(old \cup new)
        <5>1. j.seen = observed /\ ~ Overtaken(a)
          BY <1>4, <2>9, <2>6, <2>7, <4>3
        <5>2. observed[a] = Max(old) /\ \A t \in old : t <= observed[a]
          BY <2>2, <2>3, <4>2, <5>1, GreatestElement
        <5>3. observed[a] \in Int /\ ~ m > observed[a]
          BY <2>2, <3>4, <4>2, <5>1
        <5>4. \A t \in new : t <= observed[a]
          <6>1. \A t \in new : t \in Int /\ t <= m
            BY <2>2, <3>1
          <6> QED
            BY <3>1, <5>3, <6>1
        <5>5. old \cup new \subseteq Int /\ observed[a] \in old \cup new
          BY <2>2, <4>2
        <5> QED
          BY <5>2, <5>4, <5>5, MaxIs
      <4> QED
        BY <2>1, <2>9, <4>1, <4>2, <4>3
    <3> QED
      BY <3>3, <3>4
  <2> QED
    BY <2>8, <2>9
<1>6. DOMAIN observed' = Assets
  BY <1>3
<1> QED
  BY <1>5, <1>6, ObservedMeans DEF ObservedMatches

\* The other imports under way are late from now on; the page is overtaken.
LEMMA CommitOvertakes ==
  ASSUME IInv, NEW w \in Importers, ImportCommit(w)
  PROVE  JobsOk' /\ PageOk'
<1>1. /\ job' = [v \in Importers |->
                   IF v = w THEN Idle
                   ELSE [job[v] EXCEPT !.late = @ \/ job[v].pc \in {"parsed", "inserting"}]]
      /\ page' = [page EXCEPT !.overtaken = page.step > 0]
      /\ clock' = clock
  BY DEF ImportCommit, Overtake
<1>2. observed' # <<>> /\ DOMAIN observed = Assets
  BY CommitTyped
<1>3. ASSUME NEW a \in Assets, observed[a] # None PROVE observed'[a] # None
  BY <1>2, <1>3 DEF ImportCommit
<1>4. ASSUME NEW v \in Importers PROVE JobOk(job[v])'
  <2>1. CASE v = w
    <3>1. job'[v].pc = "idle"
      BY <1>1, <2>1 DEF Idle
    <3> QED
      BY <3>1 DEF JobOk
  <2>2. CASE v # w
    <3>1. job[v] \in Job /\ JobOk(job[v])
      BY JobTyped DEF IInv, JobsOk
    <3>2. job'[v] = [job[v] EXCEPT !.late = @ \/ job[v].pc \in {"parsed", "inserting"}]
      BY <1>1, <2>2
    <3>3. /\ job'[v].pc = job[v].pc /\ job'[v].fixture = job[v].fixture
          /\ job'[v].seen = job[v].seen /\ job'[v].at = job[v].at
          /\ job[v].pc \in {"parsed", "inserting"} => job'[v].late
      BY <3>1, <3>2 DEF Job
    <3> QED
      BY <1>1, <1>2, <1>3, <3>1, <3>3 DEF JobOk
  <2> QED
    BY <2>1, <2>2
<1>5. PageOk'
  <2>1. PageOk
    BY DEF IInv
  <2>2. /\ DOMAIN page' = DOMAIN page /\ page'.step = page.step /\ page'.source = page.source
        /\ page'.now = page.now /\ page'.shown = page.shown
        /\ page'.overtaken = (page.step > 0)
    BY <1>1, <2>1 DEF PageOk
  <2>3. ~ page'.overtaken => page'.step = 0
    <3>1. page.step \in 0..7
      BY <2>1, PartsAre DEF PageOk
    <3>2. ~ page.step > 0 => page.step = 0
      BY <3>1
    <3> QED
      BY <2>2, <3>2
  <2>4. \A k \in 1..6 : ~ k < 0
    OBVIOUS
  <2> QED
    BY <2>1, <2>2, <2>3, <2>4, PartsAre DEF PageOk
<1> QED
  BY <1>4, <1>5 DEF JobsOk

LEMMA CommitKeeps ==
  ASSUME IInv, NEW w \in Importers, ImportCommit(w)
  PROVE  IInv'
BY CommitTyped, CommitStored, CommitSummed, CommitInOrder, CommitObserved, CommitOvertakes DEF IInv

LEMMA StepKeeps == IInv /\ [Next]_vars => IInv'
<1> SUFFICES ASSUME IInv, [Next]_vars PROVE IInv'
  OBVIOUS
<1>1. CASE UNCHANGED vars
  <2>1. /\ UNCHANGED <<tables, raced>> /\ clock' = clock /\ page' = page /\ job' = job
        /\ observed' = observed /\ batches' = batches
    BY <1>1 DEF vars, tables
  <2>2. clock' \in 0..MaxStamps /\ clock <= clock'
    BY <2>1, NumbersAssumption DEF IInv, Typed
  <2>3. /\ Stored' /\ Summed' /\ StampedInOrder' /\ ObservedIsNewest'
        /\ \A s \in Sources : PartOf(s)' = PartOf(s)
    BY <2>1, <2>2, TablesKeep
  <2>4. PageOk'
    BY <2>1, <2>3, PageKeeps DEF IInv
  <2>5. Typed' /\ JobsOk'
    BY <2>1 DEF IInv, Typed, JobsOk, JobOk, vars
  <2> QED
    BY <2>3, <2>4, <2>5 DEF IInv
<1>2. CASE Next
  BY <1>2, WorkKeeps, SeedKeeps, CommitKeeps, ReadingKeeps DEF Next
<1> QED
  BY <1>1, <1>2

LEMMA SpecIInv == Spec => []IInv
BY InitIInv, StepKeeps, PTL DEF Spec

-----------------------------------------------------------------------------
(* The theorems.                                                           *)

\* The tables, the imports under way and the page always hold values of their
\* types: a row of events belongs to a batch that is there, and a batch is
\* stamped with a time that has come.
THEOREM TypeInvariant == Spec => []TypeOK
<1>1. IInv => TypeOK
  <2> SUFFICES ASSUME IInv PROVE TypeOK
    OBVIOUS
  <2>1. Typed /\ Stored /\ PageOk
    BY DEF IInv
  <2>2. ASSUME NEW f \in DOMAIN batches PROVE f \in Fixtures /\ batches[f] \in Batch /\ batches[f].at \in 1..clock
    BY <2>1 DEF Stored, RowOk
  <2>3. DOMAIN events \subseteq Identities
    BY <2>1, <2>2 DEF Stored, SuppliedBy, Identities
  <2>4. page.step \in 0..(Len(Parts) + 1)
    BY <2>1 DEF PageOk
  <2> QED
    BY <2>1, <2>2, <2>3, <2>4 DEF TypeOK, Typed, Stored
<1> QED
  BY <1>1, SpecIInv, PTL

\* The counters of a batch row keep agreeing with the rows of the batch, however
\* many imports supply the same events (import_fixture).
THEOREM CountsAddUpForAll == Spec => []CountsAddUp
<1>1. IInv => CountsAddUp
  <2> SUFFICES ASSUME IInv, NEW f \in DOMAIN batches
               PROVE  /\ batches[f].total = batches[f].accepted + batches[f].duplicate + batches[f].error
                      /\ batches[f].accepted = Cardinality({i \in DOMAIN events : events[i].batch = f})
                      /\ batches[f].error = Cardinality(errors[f])
                      /\ \A k \in EventLines(f) : IdentityAt(f, k) \in DOMAIN events
                      /\ (batches[f].status = "ERROR") <=> (errors[f] # {})
    BY DEF CountsAddUp
  <2>1. /\ f \in Fixtures /\ RowOk(f, batches[f]) /\ errors[f] = ErrorRows(f)
        /\ batches[f].accepted = Cardinality(RowsOf(f))
        /\ SuppliedBy(f) \subseteq DOMAIN events
    BY DEF IInv, Stored
  <2>2. /\ Len(Lines[f]) = Cardinality(EventLines(f)) + Cardinality(ErrorLines(f))
        /\ Cardinality(ErrorRows(f)) = Cardinality(ErrorLines(f))
        /\ ErrorRows(f) = {} <=> ErrorLines(f) = {}
    BY <2>1, LinesCount
  <2>3. batches[f].total = batches[f].accepted + batches[f].duplicate + batches[f].error
    BY <2>1, <2>2 DEF RowOk, Batch
  <2>4. batches[f].accepted = Cardinality({i \in DOMAIN events : events[i].batch = f})
    BY <2>1 DEF RowsOf
  <2>5. batches[f].error = Cardinality(errors[f])
    BY <2>1, <2>2 DEF RowOk
  <2>6. \A k \in EventLines(f) : IdentityAt(f, k) \in DOMAIN events
    BY <2>1 DEF SuppliedBy
  <2>7. (batches[f].status = "ERROR") <=> (errors[f] # {})
    BY <2>1, <2>2 DEF RowOk
  <2> QED
    BY <2>3, <2>4, <2>5, <2>6, <2>7
<1> QED
  BY <1>1, SpecIInv, PTL

\* An asset was last observed at the time of one of its events, and of the newest
\* unless one of them came with a file whose import was overtaken by another
\* one's commit (import_fixture).
THEOREM ObservedIsNewestForAll == Spec => []ObservedIsNewest
<1>1. IInv => ObservedIsNewest
  BY DEF IInv
<1> QED
  BY <1>1, SpecIInv, PTL

\* The batch imported last, of some, is one of them and the one stamped last.
LEMMA LastImportedIn ==
  ASSUME Stored, NEW S, S \subseteq DOMAIN batches
  PROVE  LET last == LastImported(S)
         IN  IF S = {} THEN last = None
             ELSE last \in S /\ \A g \in S : batches[g].at <= batches[last].at
<1> DEFINE stamps == {batches[g].at : g \in S}
           places == {n \in DOMAIN audit : audit[n] \in S}
           stamp == [n \in places |-> batches[audit[n]].at]
<1> SUFFICES ASSUME S # {}
             PROVE  \E f \in S : \A g \in S : batches[g].at <= batches[f].at
  BY DEF LastImported
<1>1. /\ audit \in Seq(Fixtures) /\ Range(audit) = DOMAIN batches
      /\ \A f \in DOMAIN batches : batches[f].at \in Nat
  BY DEF Stored, RowOk, Batch
<1>2. IsFiniteSet(places)
  <2>1. DOMAIN audit = 1..Len(audit) /\ Len(audit) \in Nat
    BY <1>1
  <2>2. IsFiniteSet(1..Len(audit)) /\ places \in SUBSET (1..Len(audit))
    BY <2>1, FS_Interval
  <2> QED
    BY <2>2, FS_Subset
<1>3. stamp \in Surjection(places, stamps)
  <2>1. \A g \in S : \E n \in places : audit[n] = g
    BY <1>1 DEF Range
  <2> QED
    BY <2>1 DEF Surjection
<1>4. stamps \subseteq Int /\ stamps # {}
  BY <1>1
<1>5. Max(stamps) \in stamps /\ \A t \in stamps : t <= Max(stamps)
  <2> HIDE DEF places, stamp, stamps
  <2>1. IsFiniteSet(stamps)
    BY <1>2, <1>3, FS_Surjection
  <2> QED
    BY <1>4, <2>1, GreatestElement
<1>6. PICK f \in S : Max(stamps) = batches[f].at
  BY <1>5
<1> QED
  BY <1>5, <1>6

\* The batch stamped last is that of an import after which only overtaken ones
\* committed.
LEMMA LastImportedIsLast ==
  ASSUME IInv, NEW s \in Sources
  PROVE  LET imports == {n \in DOMAIN audit : SourceOf[audit[n]] = s}
             last == LastImported(BatchesOf(s))
         IN  IF imports = {} THEN last = None
             ELSE \E n \in imports : /\ last = audit[n]
                                     /\ \A m \in imports : m > n => audit[m] \in raced
<1> DEFINE imports == {n \in DOMAIN audit : SourceOf[audit[n]] = s}
           last == LastImported(BatchesOf(s))
<1>1. /\ Stored /\ Range(audit) = DOMAIN batches
      /\ \A f \in DOMAIN batches : batches[f].at \in Nat
  BY DEF IInv, Stored, RowOk, Batch
<1>2. /\ \A g \in BatchesOf(s) : \E n \in imports : audit[n] = g
      /\ \A n \in imports : audit[n] \in BatchesOf(s)
      /\ BatchesOf(s) \subseteq DOMAIN batches
  BY <1>1 DEF BatchesOf, Range
<1>3. IF BatchesOf(s) = {} THEN last = None
      ELSE last \in BatchesOf(s) /\ \A g \in BatchesOf(s) : batches[g].at <= batches[last].at
  BY <1>1, <1>2, LastImportedIn
<1> HIDE DEF last
<1>4. ASSUME imports = {} PROVE last = None
  BY <1>2, <1>3, <1>4
<1>5. ASSUME imports # {}
      PROVE  \E n \in imports : /\ last = audit[n]
                                /\ \A m \in imports : m > n => audit[m] \in raced
  <2>1. PICK n \in imports : audit[n] = last
    BY <1>2, <1>3, <1>5
  <2>2. ASSUME NEW m \in imports, m > n PROVE audit[m] \in raced
    <3>1. /\ m \in DOMAIN audit /\ n \in DOMAIN audit /\ n < m
          /\ batches[audit[m]].at <= batches[last].at
          /\ batches[audit[m]].at \in Nat /\ batches[last].at \in Nat
      BY <1>1, <1>2, <1>3, <2>1, <2>2 DEF IInv, Stored
    <3>2. ~ batches[audit[n]].at < batches[audit[m]].at
      BY <2>1, <3>1
    <3> QED
      BY <3>1, <3>2 DEF IInv, StampedInOrder
  <2> QED
    BY <2>1, <2>2
<1> QED
  BY <1>4, <1>5 DEF last

\* The newest event of a source is within the limit when some line of some file
\* taken in from it is.
LEMMA NewestIsFresh ==
  ASSUME IInv, NEW s \in Sources, NEW now \in Nat
  PROVE  LET imports == {n \in DOMAIN audit : SourceOf[audit[n]] = s}
             newest == Newest(EventsOf(s))
         IN  (newest = None \/ now - newest > StaleAfter) <=>
               ~ \E n \in imports : \E k \in EventLines(audit[n]) :
                   now - TimestampUtc(Lines[audit[n]][k]) <= StaleAfter
<1> DEFINE imports == {n \in DOMAIN audit : SourceOf[audit[n]] = s}
           newest == Newest(EventsOf(s))
           times == {i.time : i \in EventsOf(s)}
<1> SUFFICES (newest = None \/ now - newest > StaleAfter) <=>
               ~ \E n \in imports : \E k \in EventLines(audit[n]) :
                   now - TimestampUtc(Lines[audit[n]][k]) <= StaleAfter
  OBVIOUS
<1>1. Stored
  BY DEF IInv
<1>2. \A f \in Fixtures : \A k : /\ IdentityAt(f, k).time = TimestampUtc(Lines[f][k])
                                 /\ IdentityAt(f, k).source = SourceOf[f]
  BY DEF IdentityAt, Identity
<1>3. ASSUME NEW t \in times
      PROVE  t \in Int /\ \E n \in imports : \E k \in EventLines(audit[n]) :
                            t = TimestampUtc(Lines[audit[n]][k])
  <2>1. PICK i \in DOMAIN events : i.source = s /\ i.time = t
    BY DEF EventsOf
  <2>2. PICK f \in DOMAIN batches : i \in SuppliedBy(f)
    BY <1>1 DEF Stored
  <2>3. PICK k \in EventLines(f) : i = IdentityAt(f, k)
    BY <2>2 DEF SuppliedBy
  <2>4. PICK n \in DOMAIN audit : audit[n] = f
    BY <1>1 DEF Stored, Range
  <2>5. f \in Fixtures /\ SourceOf[f] = s /\ t = TimestampUtc(Lines[f][k])
    BY <1>1, <1>2, <2>1, <2>3 DEF Stored
  <2>6. n \in imports
    BY <2>4, <2>5
  <2>7. t \in Int
    BY <2>5, LinesTyped
  <2> QED
    BY <2>3, <2>4, <2>5, <2>6, <2>7
<1>4. ASSUME NEW n \in imports, NEW k \in EventLines(audit[n])
      PROVE  TimestampUtc(Lines[audit[n]][k]) \in times
  <2>1. audit[n] \in DOMAIN batches /\ audit[n] \in Fixtures
    BY <1>1 DEF Stored, Range
  <2>2. IdentityAt(audit[n], k) \in EventsOf(s)
    BY <1>1, <1>2, <2>1 DEF Stored, SuppliedBy, EventsOf
  <2>3. IdentityAt(audit[n], k).time = TimestampUtc(Lines[audit[n]][k])
    BY <1>2, <2>1
  <2> QED
    BY <2>2, <2>3
<1>5. times \subseteq Int /\ IsFiniteSet(times)
  <2> DEFINE time == [i \in EventsOf(s) |-> i.time]
  <2>1. EventsOf(s) \in SUBSET DOMAIN events
    BY DEF EventsOf
  <2>2. IsFiniteSet(EventsOf(s))
    BY <1>1, <2>1, FS_Subset DEF Stored
  <2>3. time \in Surjection(EventsOf(s), times)
    BY DEF Surjection
  <2>4. IsFiniteSet(times)
    <3> HIDE DEF time, times
    <3> QED
      BY <2>2, <2>3, FS_Surjection
  <2>5. \A t \in times : t \in Int
    BY <1>3
  <2> HIDE DEF times
  <2> QED
    BY <2>4, <2>5
<1>6. newest = IF times = {} THEN None ELSE Max(times)
  BY DEF Newest
<1>7. CASE times = {}
  <2>1. newest = None
    BY <1>6, <1>7
  <2>2. ~ \E n \in imports : \E k \in EventLines(audit[n]) : TRUE
    BY <1>4, <1>7
  <2> QED
    BY <2>1, <2>2
<1>8. CASE times # {}
  <2>1. newest \in times /\ \A t \in times : t <= newest
    <3> HIDE DEF times, newest
    <3> QED
      BY <1>5, <1>6, <1>8, GreatestElement
  <2>2. newest \in Int /\ newest # None /\ StaleAfter \in Nat
    <3> HIDE DEF times, newest
    <3> QED
      BY <1>5, <2>1, NoneAssumption, NumbersAssumption
  <2>3. ASSUME now - newest > StaleAfter,
               NEW n \in imports, NEW k \in EventLines(audit[n])
        PROVE  ~ now - TimestampUtc(Lines[audit[n]][k]) <= StaleAfter
    <3> DEFINE t == TimestampUtc(Lines[audit[n]][k])
    <3>1. t \in times
      BY <1>4
    <3>2. t \in Int /\ t <= newest
      <4> HIDE DEF times, newest, t
      <4> QED
        BY <1>5, <2>1, <3>1
    <3> HIDE DEF t, newest
    <3>3. ~ now - t <= StaleAfter
      BY <2>2, <2>3, <3>2
    <3> QED
      BY <3>3 DEF t
  <2>4. ASSUME ~ now - newest > StaleAfter
        PROVE  \E n \in imports : \E k \in EventLines(audit[n]) :
                 now - TimestampUtc(Lines[audit[n]][k]) <= StaleAfter
    <3>1. PICK n \in imports : \E k \in EventLines(audit[n]) :
                                 newest = TimestampUtc(Lines[audit[n]][k])
      <4> HIDE DEF newest
      <4> QED
        BY <1>3, <2>1
    <3>2. PICK k \in EventLines(audit[n]) : newest = TimestampUtc(Lines[audit[n]][k])
      BY <3>1
    <3>3. now - newest <= StaleAfter
      <4> HIDE DEF newest
      <4> QED
        BY <2>2, <2>4
    <3> QED
      BY <3>2, <3>3
  <2> HIDE DEF newest, imports
  <2> QED
    BY <2>2, <2>3, <2>4
<1> QED
  BY <1>7, <1>8

\* A page read while no import committed tells the sums of the counters, the last
\* import but for overtaken ones, and the state that its errors and the newest
\* event call for (source_health).
THEOREM PageTellsLastImportForAll == Spec => []PageTellsLastImport
<1>1. IInv => PageTellsLastImport
  <2> DEFINE s == page.source
             latest == page.shown.latest
             imports == {n \in DOMAIN audit : SourceOf[audit[n]] = s}
             named == IF imports = {} THEN latest = None
                      ELSE \E n \in imports : /\ latest = audit[n]
                                              /\ \A m \in imports : m > n => audit[m] \in raced
             fresh == \E n \in imports : \E k \in EventLines(audit[n]) :
                        page.now - TimestampUtc(Lines[audit[n]][k]) <= StaleAfter
  <2> SUFFICES ASSUME IInv, page.step > Len(Parts), ~ page.overtaken
               PROVE  /\ page.shown.events = SumOver(audit, s, Accepted)
                      /\ page.shown.errors = SumOver(audit, s, Refused)
                      /\ named
                      /\ StateShown = IF latest # None /\ ErrorLines(latest) # {} THEN "ERROR"
                                      ELSE IF fresh THEN "FRESH" ELSE "STALE"
    BY DEF PageTellsLastImport
  <2>1. s \in Sources /\ page.now \in Nat
    BY DEF IInv, PageOk
  <2>2. ASSUME NEW k \in 1..6 PROVE page.shown[Parts[k]] = PartOf(s)[Parts[k]]
    <3>1. k \in 1..Len(Parts) /\ k < page.step
      BY PartsAre DEF IInv, PageOk
    <3> QED
      BY <3>1 DEF IInv, PageOk
  <2>3. /\ page.shown.latest = LastImported(BatchesOf(s))
        /\ page.shown.newest = Newest(EventsOf(s))
        /\ page.shown.events = Cardinality(EventsOf(s))
        /\ page.shown.errors = Cardinality(ErrorsOf(s))
    <3>1. /\ PartOf(s)["latest"] = LastImported(BatchesOf(s))
          /\ PartOf(s)["newest"] = Newest(EventsOf(s))
          /\ PartOf(s)["events"] = Cardinality(EventsOf(s))
          /\ PartOf(s)["errors"] = Cardinality(ErrorsOf(s))
      BY DEF PartOf, ErrorsOf
    <3>2. /\ page.shown["latest"] = PartOf(s)["latest"]
          /\ page.shown["newest"] = PartOf(s)["newest"]
          /\ page.shown["events"] = PartOf(s)["events"]
          /\ page.shown["errors"] = PartOf(s)["errors"]
      BY <2>2, PartsAre
    <3> QED
      BY <3>1, <3>2
  <2>4. /\ page.shown.events = SumOver(audit, s, Accepted)
        /\ page.shown.errors = SumOver(audit, s, Refused)
    BY <2>1, <2>3 DEF IInv, Summed
  <2>5. named
    BY <2>1, <2>3, LastImportedIsLast
  <2>6. latest # None => (batches[latest].status = "ERROR" <=> ErrorLines(latest) # {})
    <3> SUFFICES ASSUME latest # None
                 PROVE  batches[latest].status = "ERROR" <=> ErrorLines(latest) # {}
      OBVIOUS
    <3>1. PICK n \in DOMAIN audit : latest = audit[n]
      BY <2>5
    <3>2. latest \in DOMAIN batches
      BY <3>1 DEF IInv, Stored, Range
    <3> QED
      BY <3>2 DEF IInv, Stored, RowOk
  <2>7. (page.shown.newest = None \/ page.now - page.shown.newest > StaleAfter) <=> ~ fresh
    BY <2>1, <2>3, NewestIsFresh
  <2>8. StateShown = IF latest # None /\ ErrorLines(latest) # {} THEN "ERROR"
                     ELSE IF fresh THEN "FRESH" ELSE "STALE"
    <3> HIDE DEF fresh
    <3> QED
      BY <2>7, <2>6 DEF StateShown
  <2> HIDE DEF named
  <2> QED
    BY <2>4, <2>5, <2>8
<1> QED
  BY <1>1, SpecIInv, PTL

-----------------------------------------------------------------------------
(* A page read while imports commit.                                       *)

\* The batches a page names.
Named == {page.shown.latest, page.shown.successful} \ {None}

\* What the page has read since covers what file f supplied.
Covered(f) ==
  /\ f \in DOMAIN batches /\ SourceOf[f] = page.source
  /\ page.step > 3 => \A i \in SuppliedBy(f) :
                        page.shown.newest \in Int /\ page.shown.newest >= i.time
  /\ page.step > 4 => page.shown.events >= Cardinality(SuppliedBy(f))
  /\ page.step > 5 => page.shown.errors >= Cardinality(ErrorLines(f))
  /\ page.step > 6 => \A i \in DOMAIN events : events[i].batch = f /\ events[i].high =>
                        page.shown.high \in Int /\ page.shown.high >= i.time

PageAhead == \A f \in Named : Covered(f)

\* An event row and its batch are of one source.
OwnSource == \A i \in DOMAIN events : i.source = SourceOf[events[i].batch]

\* The newest of some events is as new as each of them.
LEMMA NewestOfAll ==
  ASSUME Stored, NEW S \in SUBSET DOMAIN events, NEW i \in S
  PROVE  Newest(S) \in Int /\ Newest(S) >= i.time
<1> DEFINE times == {e.time : e \in S}
           time == [e \in S |-> e.time]
<1>1. IsFiniteSet(S)
  BY FS_Subset DEF Stored
<1>2. IsFiniteSet(times)
  <2>1. time \in Surjection(S, times)
    BY DEF Surjection
  <2> HIDE DEF time, times
  <2> QED
    BY <1>1, <2>1, FS_Surjection
<1>3. ASSUME NEW e \in S PROVE e.time \in Int
  <2>1. PICK f \in DOMAIN batches : e \in SuppliedBy(f)
    BY DEF Stored
  <2>2. PICK k \in EventLines(f) : e = IdentityAt(f, k)
    BY <2>1 DEF SuppliedBy
  <2>3. f \in Fixtures /\ e.time = TimestampUtc(Lines[f][k])
    BY <2>2 DEF Stored, IdentityAt, Identity
  <2> QED
    BY <2>3, LinesTyped
<1>4. times \subseteq Int /\ i.time \in times /\ Newest(S) = Max(times)
  BY <1>3 DEF Newest
<1> HIDE DEF times
<1>5. Max(times) \in times /\ i.time <= Max(times)
  BY <1>2, <1>4, GreatestElement
<1>6. Max(times) \in Int /\ i.time \in Int
  BY <1>4, <1>5
<1> QED
  BY <1>4, <1>5, <1>6

\* The errors of a source are at least those of one of its batches.
LEMMA ErrorsOfOne ==
  ASSUME IInv, NEW s \in Sources, NEW f \in BatchesOf(s)
  PROVE  Cardinality(ErrorsOf(s)) >= Cardinality(ErrorLines(f))
<1> DEFINE pairs == {f} \X errors[f]
           pair == [e \in errors[f] |-> <<f, e>>]
<1>1. f \in Fixtures /\ errors[f] = ErrorRows(f)
  BY DEF IInv, Stored, BatchesOf
<1>2. IsFiniteSet(errors[f]) /\ Cardinality(errors[f]) = Cardinality(ErrorLines(f))
  BY <1>1, LinesCount
<1>3. pair \in Bijection(errors[f], pairs)
  <2>1. \A e \in errors[f] : pair[e] = <<f, e>> /\ <<f, e>> \in pairs
    OBVIOUS
  <2>2. \A q \in pairs : \E e \in errors[f] : q = <<f, e>>
    OBVIOUS
  <2>3. pair \in [errors[f] -> pairs] /\ \A d, e \in errors[f] : pair[d] = pair[e] => d = e
    BY <2>1
  <2>4. \A q \in pairs : \E e \in errors[f] : pair[e] = q
    BY <2>1, <2>2
  <2> HIDE DEF pair, pairs
  <2> QED
    BY <2>3, <2>4 DEF Bijection, Injection, IsInjective, Surjection
<1>4. Cardinality(pairs) = Cardinality(errors[f])
  <2> HIDE DEF pair, pairs
  <2> QED
    BY <1>2, <1>3, FS_Bijection DEF ExistsBijection
<1>5. pairs \in SUBSET ErrorsOf(s)
  BY DEF ErrorsOf
<1>6. IsFiniteSet(ErrorsOf(s))
  BY DEF IInv, Summed
<1> HIDE DEF pairs
<1>7. Cardinality(pairs) <= Cardinality(ErrorsOf(s)) /\ IsFiniteSet(pairs)
  BY <1>5, <1>6, FS_Subset
<1>8. Cardinality(pairs) \in Nat /\ Cardinality(ErrorsOf(s)) \in Nat
  BY <1>6, <1>7, FS_CardinalityType
<1> QED
  BY <1>2, <1>4, <1>7, <1>8

\* What file f supplied is what its source holds a part of.
LEMMA SourceHolds ==
  ASSUME IInv, NEW s \in Sources, NEW f \in BatchesOf(s)
  PROVE  /\ SuppliedBy(f) \subseteq EventsOf(s)
         /\ Cardinality(EventsOf(s)) >= Cardinality(SuppliedBy(f))
<1>1. f \in DOMAIN batches /\ SourceOf[f] = s /\ Stored
  BY DEF IInv, BatchesOf
<1>2. SuppliedBy(f) \in SUBSET EventsOf(s)
  BY <1>1 DEF Stored, SuppliedBy, EventsOf, IdentityAt, Identity
<1>3. IsFiniteSet(EventsOf(s))
  <2>1. EventsOf(s) \in SUBSET DOMAIN events
    BY DEF EventsOf
  <2> QED
    BY <1>1, <2>1, FS_Subset DEF Stored
<1>4. Cardinality(SuppliedBy(f)) <= Cardinality(EventsOf(s)) /\ IsFiniteSet(SuppliedBy(f))
  BY <1>2, <1>3, FS_Subset
<1>5. Cardinality(SuppliedBy(f)) \in Nat /\ Cardinality(EventsOf(s)) \in Nat
  BY <1>3, <1>4, FS_CardinalityType
<1> QED
  BY <1>2, <1>4, <1>5

\* A commit changes nothing of what a file taken in before it supplied.
LEMMA CommitStaysCovered ==
  ASSUME IInv, PageAhead, NEW w \in Importers, ImportCommit(w)
  PROVE  PageAhead'
<1>1. PICK g : Committed(w, g)
  BY CommitCommits
<1>2. /\ page'.step = page.step /\ page'.source = page.source /\ page'.shown = page.shown
  <2>1. PageOk /\ page' = [page EXCEPT !.overtaken = page.step > 0]
    BY DEF IInv, ImportCommit, Overtake
  <2> QED
    BY <2>1 DEF PageOk
<1>3. Named' = Named
  BY <1>2 DEF Named
<1>4. ASSUME NEW f \in Named PROVE Covered(f)'
  <2>1. Covered(f) /\ f \in DOMAIN batches /\ f # g
    BY <1>1 DEF PageAhead, Covered, Committed
  <2>2. \A i \in DOMAIN events' : i \in DOMAIN events \/ i \in Added(g)
    BY <1>1 DEF Committed, Added
  <2>3. ASSUME NEW i \in DOMAIN events', events'[i].batch = f
        PROVE  i \in DOMAIN events /\ events'[i] = events[i]
    BY <1>1, <2>1, <2>2, <2>3 DEF Committed
  <2> QED
    BY <1>1, <1>2, <2>1, <2>3 DEF Covered, Committed, SuppliedBy
<1> QED
  BY <1>3, <1>4 DEF PageAhead

\* Each part read covers the batches named by then.
LEMMA ReadStaysCovered ==
  ASSUME IInv, OwnSource, PageAhead, ReadPart
  PROVE  PageAhead'
<1> DEFINE n == page.step
           s == page.source
<1>1. PageOk /\ s \in Sources
  BY DEF IInv, PageOk
<1>2. /\ n \in 1..6
      /\ page' = [page EXCEPT !.step = n + 1, !.shown[Parts[n]] = PartOf(s)[Parts[n]]]
      /\ batches' = batches /\ events' = events
  BY PartsAre DEF ReadPart, tables
<1>3. /\ page'.step = n + 1 /\ page'.source = s
      /\ page'.shown = [page.shown EXCEPT ![Parts[n]] = PartOf(s)[Parts[n]]]
      /\ DOMAIN page.shown = {"latest", "successful", "newest", "events", "errors", "high"}
  BY <1>1, <1>2, PartsAre DEF PageOk
<1>4. Parts[2] = "successful" /\ Parts[6] = "high"
  BY DEF Parts
<1>5. n = 1 \/ n = 2 \/ n = 3 \/ n = 4 \/ n = 5 \/ n = 6
  BY <1>2
<1>6. \A f : SuppliedBy(f)' = SuppliedBy(f)
  BY DEF SuppliedBy
<1>7. ASSUME NEW f \in Named
      PROVE  Covered(f) /\ f \in BatchesOf(s)
  BY DEF PageAhead, Covered, BatchesOf
<1>8. CASE n = 1 \/ n = 2
  <2>1. ASSUME NEW f \in Named' PROVE f \in DOMAIN batches /\ SourceOf[f] = s
    <3>1. CASE f \in Named
      BY <1>7, <3>1 DEF Covered
    <3>2. CASE f \notin Named
      <4>1. f # None /\ (f = LastImported(BatchesOf(s))
                          \/ f = LastImported({g \in BatchesOf(s) : batches[g].status = "SUCCESS"}))
        <5>1. f # None /\ (f = page'.shown.latest \/ f = page'.shown.successful)
          BY <2>1 DEF Named
        <5>2. f # page.shown.latest /\ f # page.shown.successful
          BY <3>2, <5>1 DEF Named
        <5>3. PartOf(s)["latest"] = LastImported(BatchesOf(s))
          BY DEF PartOf
        <5>4. PartOf(s)["successful"]
                = LastImported({g \in BatchesOf(s) : batches[g].status = "SUCCESS"})
          BY DEF PartOf
        <5>5. CASE n = 1
          BY <1>3, <5>1, <5>2, <5>3, <5>5, PartsAre
        <5>6. CASE n = 2
          BY <1>3, <1>4, <5>1, <5>2, <5>4, <5>6
        <5> QED
          BY <1>8, <5>5, <5>6
      <4>2. BatchesOf(s) \subseteq DOMAIN batches
        BY DEF BatchesOf
      <4>3. f \in BatchesOf(s)
        BY <4>1, <4>2, LastImportedIn DEF IInv
      <4> QED
        BY <4>3 DEF BatchesOf
    <3> QED
      BY <3>1, <3>2
  <2>2. ~ page'.step > 3 /\ ~ page'.step > 4 /\ ~ page'.step > 5 /\ ~ page'.step > 6
    BY <1>3, <1>8
  <2> QED
    BY <1>2, <1>3, <2>1, <2>2 DEF PageAhead, Covered
<1>9. CASE n \in 3..6
  <2>1. Named' = Named
    BY <1>3, <1>4, <1>5, <1>9, PartsAre DEF Named
  <2> SUFFICES ASSUME NEW f \in Named PROVE Covered(f)'
    BY <2>1 DEF PageAhead
  <2>2. Covered(f) /\ f \in BatchesOf(s)
    BY <1>7
  <2>3. f \in DOMAIN batches' /\ SourceOf[f] = page'.source
    BY <1>2, <1>3, <2>2 DEF Covered
  <2>4. CASE n = 3
    <3>1. page'.shown.newest = Newest(EventsOf(s))
      BY <1>3, <2>4, PartsAre DEF PartOf
    <3>2. \A i \in SuppliedBy(f) : Newest(EventsOf(s)) \in Int /\ Newest(EventsOf(s)) >= i.time
      <4>1. EventsOf(s) \in SUBSET DOMAIN events /\ SuppliedBy(f) \subseteq EventsOf(s)
        BY <1>1, <2>2, SourceHolds DEF EventsOf
      <4> QED
        BY <4>1, NewestOfAll DEF IInv
    <3>3. ~ page'.step > 4 /\ ~ page'.step > 5 /\ ~ page'.step > 6
      BY <1>3, <2>4
    <3> QED
      BY <1>6, <2>3, <3>1, <3>2, <3>3 DEF Covered
  <2>5. CASE n = 4
    <3>1. /\ page'.shown.events = Cardinality(EventsOf(s))
          /\ page'.shown.newest = page.shown.newest
      BY <1>3, <2>5, PartsAre DEF PartOf
    <3>2. page'.shown.events >= Cardinality(SuppliedBy(f))
      BY <1>1, <2>2, <3>1, SourceHolds
    <3>3. page.step > 3 /\ ~ page'.step > 5 /\ ~ page'.step > 6
      BY <1>3, <2>5
    <3> QED
      BY <1>6, <2>2, <2>3, <3>1, <3>2, <3>3 DEF Covered
  <2>6. CASE n = 5
    <3>1. /\ page'.shown.errors = Cardinality(ErrorsOf(s))
          /\ page'.shown.newest = page.shown.newest /\ page'.shown.events = page.shown.events
      BY <1>3, <2>6, PartsAre DEF PartOf, ErrorsOf
    <3>2. page'.shown.errors >= Cardinality(ErrorLines(f))
      BY <1>1, <2>2, <3>1, ErrorsOfOne
    <3>3. page.step > 3 /\ page.step > 4 /\ ~ page'.step > 6
      BY <1>3, <2>6
    <3> QED
      BY <1>6, <2>2, <2>3, <3>1, <3>2, <3>3 DEF Covered
  <2>7. CASE n = 6
    <3> DEFINE S == {i \in EventsOf(s) : events[i].high}
    <3>1. /\ page'.shown.high = Newest(S)
          /\ page'.shown.newest = page.shown.newest /\ page'.shown.events = page.shown.events
          /\ page'.shown.errors = page.shown.errors
      BY <1>3, <1>4, <2>7, PartsAre DEF PartOf
    <3>2. ASSUME NEW i \in DOMAIN events, events[i].batch = f, events[i].high
          PROVE  Newest(S) \in Int /\ Newest(S) >= i.time
      <4>1. i \in S /\ S \in SUBSET DOMAIN events
        BY <2>2, <3>2 DEF OwnSource, BatchesOf, EventsOf
      <4> HIDE DEF S
      <4> QED
        BY <4>1, NewestOfAll DEF IInv
    <3>3. page.step > 3 /\ page.step > 4 /\ page.step > 5
      BY <2>7
    <3> HIDE DEF S
    <3> QED
      BY <1>2, <1>6, <2>2, <2>3, <3>1, <3>2, <3>3 DEF Covered
  <2> QED
    BY <1>5, <1>9, <2>4, <2>5, <2>6, <2>7
<1> QED
  BY <1>5, <1>8, <1>9

\* An import keeps every event with a batch of the event's own source.
LEMMA OwnSourceKept ==
  ASSUME IInv, OwnSource, [Next]_vars
  PROVE  OwnSource'
<1>1. CASE events' = events
  BY <1>1 DEF OwnSource
<1>2. ASSUME NEW w \in Importers, ImportCommit(w) PROVE OwnSource'
  <2>1. PICK f : Committed(w, f)
    BY <1>2, CommitCommits
  <2>2. \A i \in Added(f) : i.source = SourceOf[f]
    BY DEF Added, SuppliedBy, IdentityAt, Identity
  <2>3. \A i \in DOMAIN events' : i \in DOMAIN events \/ i \in Added(f)
    BY <2>1 DEF Committed, Added
  <2> QED
    BY <2>1, <2>2, <2>3 DEF OwnSource, Committed
<1>3. ASSUME NEW w \in Importers,
             \/ ReadNoAssets(w) \/ SeedAssets(w) \/ LoadAssets(w)
             \/ StampBatch(w) \/ Abort(w)
             \/ \E f \in Fixtures : FindNoBatch(w, f)
      PROVE  events' = events
  BY <1>3 DEF ReadNoAssets, SeedAssets, LoadAssets, StampBatch, Abort, FindNoBatch, tables
<1>4. CASE AskHealth \/ ReadPart \/ ClosePage
  BY <1>1, <1>4 DEF AskHealth, ReadPart, ClosePage, tables
<1>5. CASE UNCHANGED vars
  BY <1>1, <1>5 DEF vars
<1> QED
  BY <1>1, <1>2, <1>3, <1>4, <1>5 DEF Next

LEMMA PageAheadKept ==
  ASSUME IInv, OwnSource, PageAhead, [Next]_vars
  PROVE  PageAhead'
<1>1. CASE page' = page /\ batches' = batches /\ events' = events
  BY <1>1 DEF PageAhead, Named, Covered, SuppliedBy
<1>2. ASSUME NEW w \in Importers,
             \/ ReadNoAssets(w) \/ SeedAssets(w) \/ LoadAssets(w)
             \/ StampBatch(w) \/ Abort(w)
             \/ \E f \in Fixtures : FindNoBatch(w, f)
      PROVE  page' = page /\ batches' = batches /\ events' = events
  BY <1>2 DEF ReadNoAssets, SeedAssets, LoadAssets, StampBatch, Abort, FindNoBatch, tables
<1>3. CASE AskHealth \/ ClosePage
  <2>1. page'.shown = Unread
    <3>1. CASE AskHealth
      <4>1. PICK s \in Sources, now \in Nows :
              page' = [NoPage EXCEPT !.step = 1, !.source = s, !.now = now]
        BY <3>1 DEF AskHealth
      <4> QED
        BY <4>1 DEF NoPage
    <3>2. CASE ClosePage
      BY <3>2 DEF ClosePage, NoPage
    <3> QED
      BY <1>3, <3>1, <3>2
  <2>2. Named' = {}
    BY <2>1, PartsAre DEF Named, Unread
  <2> QED
    BY <2>2 DEF PageAhead
<1>4. CASE UNCHANGED vars
  BY <1>1, <1>4 DEF vars
<1> QED
  BY <1>1, <1>2, <1>3, <1>4, CommitStaysCovered, ReadStaysCovered DEF Next

\* A health page that imports commit beside is never behind the imports it
\* names: in its count of events and errors, in the newest event, and in the
\* newest one of high priority (source_health).
THEOREM PageCoversImportsForAll == Spec => []PageCoversImports
<1>1. Init => OwnSource /\ PageAhead
  BY PartsAre DEF Init, OwnSource, PageAhead, Named, NoPage, Unread
<1>2. IInv /\ OwnSource /\ PageAhead /\ [Next]_vars => (OwnSource /\ PageAhead)'
  BY OwnSourceKept, PageAheadKept
<1>3. IInv /\ PageAhead => PageCoversImports
  <2> SUFFICES ASSUME IInv, PageAhead, page.step > Len(Parts), NEW f \in Named
               PROVE  /\ page.shown.events >= Cardinality({IdentityAt(f, k) : k \in EventLines(f)})
                      /\ page.shown.errors >= Cardinality(ErrorLines(f))
                      /\ \A k \in EventLines(f) : /\ page.shown.newest # None
                                                  /\ page.shown.newest >= TimestampUtc(Lines[f][k])
                      /\ \A i \in DOMAIN events :
                           events[i].batch = f /\ events[i].high =>
                             page.shown.high # None /\ page.shown.high >= i.time
    BY DEF PageCoversImports, Named
  <2>1. Covered(f)
    BY DEF PageAhead
  <2>2. page.step \in 0..7 /\ page.step > 6
    BY PartsAre DEF IInv, PageOk
  <2>3. page.step > 3 /\ page.step > 4 /\ page.step > 5
    BY <2>2
  <2>4. ASSUME NEW k \in EventLines(f)
        PROVE  /\ page.shown.newest # None
               /\ page.shown.newest >= TimestampUtc(Lines[f][k])
    <3>1. IdentityAt(f, k) \in SuppliedBy(f) /\ IdentityAt(f, k).time = TimestampUtc(Lines[f][k])
      BY DEF SuppliedBy, IdentityAt, Identity
    <3> QED
      BY <2>1, <2>3, <3>1, NoneAssumption DEF Covered
  <2> QED
    BY <2>1, <2>2, <2>3, <2>4, NoneAssumption DEF Covered, SuppliedBy
<1> QED
  BY <1>1, <1>2, <1>3, SpecIInv, PTL DEF Spec

-----------------------------------------------------------------------------
(* The refinement.                                                         *)

\* The files that supplied the events, as TelemetryIntake keeps them.
Origin == [i \in DOMAIN events |-> events[i].batch]

LEMMA IntakeStep ==
  ASSUME IInv, [Next]_vars
  PROVE  (\E f \in Fixtures : Intake!TakeIn(f)) \/ (audit' = audit /\ Origin' = Origin)
<1>1. CASE UNCHANGED <<events, audit>>
  BY <1>1 DEF Origin
<1>2. ASSUME NEW w \in Importers, ImportCommit(w)
      PROVE  \E f \in Fixtures : Intake!TakeIn(f)
  <2>1. PICK f : Committed(w, f)
    BY <1>2, CommitCommits
  <2>2. f \in Fixtures /\ f \notin Range(audit) /\ audit' = Append(audit, f)
    BY <2>1 DEF Committed, IInv, Stored
  <2>3. Origin' = [i \in DOMAIN Origin \cup SuppliedBy(f) |->
                     IF i \in DOMAIN Origin THEN Origin[i] ELSE f]
    <3>1. DOMAIN events' = DOMAIN events \cup SuppliedBy(f) /\ DOMAIN Origin = DOMAIN events
      BY <2>1 DEF Committed, Origin
    <3>2. ASSUME NEW i \in DOMAIN events'
          PROVE  events'[i].batch = IF i \in DOMAIN Origin THEN Origin[i] ELSE f
      BY <2>1, <3>1 DEF Committed, Added, Origin
    <3> QED
      BY <3>1, <3>2 DEF Origin
  <2>4. f \notin Intake!Range(audit)
    BY <2>2 DEF Range, Intake!Range
  <2>5. Intake!TakeIn(f)
    BY <2>2, <2>3, <2>4 DEF Intake!TakeIn, Origin, SuppliedBy
  <2> QED
    BY <2>2, <2>5
<1>3. CASE UNCHANGED vars
  BY <1>1, <1>3 DEF vars
<1>4. CASE Next
  <2>1. CASE AskHealth \/ ReadPart \/ ClosePage
    BY <1>1, <2>1 DEF AskHealth, ReadPart, ClosePage, tables
  <2>2. ASSUME NEW w \in Importers,
               \/ ReadNoAssets(w) \/ SeedAssets(w) \/ LoadAssets(w)
               \/ StampBatch(w) \/ Abort(w)
               \/ \E f \in Fixtures : FindNoBatch(w, f)
        PROVE  UNCHANGED <<events, audit>>
    BY <2>2 DEF ReadNoAssets, SeedAssets, LoadAssets, StampBatch, Abort, FindNoBatch, tables
  <2> QED
    BY <1>1, <1>2, <1>4, <2>1, <2>2 DEF Next
<1> QED
  BY <1>3, <1>4

\* Racing, repeated and failing imports implement TelemetryIntake: each file is
\* taken in as a whole and once, and an event stays with the file that supplied
\* it first (import_fixture, the UNIQUE columns of models.py).
THEOREM ImplementsIntakeForAll == Spec => ImplementsIntake
<1>1. Init => Intake!IntakeInit
  BY DEF Init, Intake!IntakeInit
<1>2. IInv /\ [Next]_vars => [Intake!IntakeNext]_(Intake!intakeVars)
  <2> SUFFICES ASSUME IInv, [Next]_vars PROVE [Intake!IntakeNext]_(Intake!intakeVars)
    OBVIOUS
  <2>1. CASE \E f \in Fixtures : Intake!TakeIn(f)
    BY <2>1 DEF Intake!IntakeNext
  <2>2. CASE audit' = audit /\ Origin' = Origin
    BY <2>2 DEF Intake!intakeVars, Origin
  <2> QED
    BY <2>1, <2>2, IntakeStep
<1> QED
  BY <1>1, <1>2, SpecIInv, PTL DEF Spec, ImplementsIntake, Intake!IntakeSpec
=============================================================================
