-------------------------- MODULE AllOfMerge_proofs --------------------------
(***************************************************************************)
(* What a merge means, for every schema and every number of branches.      *)
(*                                                                         *)
(* Of KeywordMerge: a merged keyword says what both of its values say;     *)
(* the merged multipleOf is the least common multiple (Euclid's loop, with *)
(* Bezout); finalize_merged changes no meaning.  Of AllOfMerge: so do the  *)
(* keywords with schemas as values, the children that are flattened, and   *)
(* the node at each step (the invariant IInv, and MergedIsConjunction).    *)
(*                                                                         *)
(* And in which order: keywords and schemas with plain values merge to the *)
(* same, or are rejected, in any order and grouping.                       *)
(*                                                                         *)
(* AcceptsIs takes Accepts apart: what each keyword says by itself (Says,  *)
(* Apart), and the counts of contains, which need each other (Counted).    *)
(* Says reads additionalProperties as the merge does, which is weaker than *)
(* Accepts; the theorems are about Accepts (ConjunctionAccepts).           *)
(* The instance is what the assumptions of AllOfMerge describe.            *)
(***************************************************************************)
EXTENDS AllOfMerge, FiniteSetTheorems, SequenceTheorems, TLAPS

(* A value, a length or a count within one bound.                          *)
Within(key, bound, value) ==
  /\ key \in LowerBounds \ {"exclusiveMinimum"} => value >= bound
  /\ key = "exclusiveMinimum" => value > bound
  /\ key \in UpperBounds \ {"exclusiveMaximum"} => value <= bound
  /\ key = "exclusiveMaximum" => value < bound

Numeric == { "minimum", "exclusiveMinimum", "maximum", "exclusiveMaximum" }

(* A number within all bounds of a schema.                                 *)
WithinAll(schema, number) ==
  \A key \in DOMAIN schema \cap Numeric : Within(key, schema[key], number)

(* An object, given by its members, that has what they depend on.          *)
HasDependencies(dependencies, members) ==
  \A trigger \in DOMAIN dependencies \cap members : dependencies[trigger] \subseteq members

-----------------------------------------------------------------------------
(* Merged bounds are the conjunction: a value is within the merged bound   *)
(* if and only if it is within both, for any kind of bound; so the order   *)
(* in which branches are merged does not matter (merge_extra_value).       *)
THEOREM BoundsMeet ==
  \A key \in LowerBounds \cup UpperBounds, a, b, value \in Int :
    /\ Within(key, NumericExtreme(key, a, b), value)
         <=> Within(key, a, value) /\ Within(key, b, value)
    /\ NumericExtreme(key, a, b) = NumericExtreme(key, b, a)
<1> SUFFICES ASSUME NEW key \in LowerBounds \cup UpperBounds,
                    NEW a \in Int, NEW b \in Int, NEW value \in Int
             PROVE  /\ Within(key, NumericExtreme(key, a, b), value)
                         <=> Within(key, a, value) /\ Within(key, b, value)
                    /\ NumericExtreme(key, a, b) = NumericExtreme(key, b, a)
  OBVIOUS
<1>1. LowerBounds \cap UpperBounds = {}
  BY DEF LowerBounds, UpperBounds
<1>2. "exclusiveMinimum" \in LowerBounds /\ "exclusiveMaximum" \in UpperBounds
  BY DEF LowerBounds, UpperBounds
<1>3. CASE key \in LowerBounds
  <2>1. key \notin UpperBounds /\ key # "exclusiveMaximum"
    BY <1>1, <1>2, <1>3
  <2>2. NumericExtreme(key, a, b) = (IF a >= b THEN a ELSE b)
    BY <1>3, <2>1 DEF NumericExtreme
  <2>3. NumericExtreme(key, b, a) = (IF b >= a THEN b ELSE a)
    BY <1>3, <2>1 DEF NumericExtreme
  <2>4. CASE key = "exclusiveMinimum"
    <3>1. \A bound : Within(key, bound, value) <=> value > bound
      BY <1>2, <2>1, <2>4 DEF Within
    <3>2. QED
      BY <2>2, <2>3, <3>1
  <2>5. CASE key # "exclusiveMinimum"
    <3>1. \A bound : Within(key, bound, value) <=> value >= bound
      BY <1>3, <2>1, <2>5 DEF Within
    <3>2. QED
      BY <2>2, <2>3, <3>1
  <2>6. QED
    BY <2>4, <2>5
<1>4. CASE key \in UpperBounds
  <2>1. key \notin LowerBounds /\ key # "exclusiveMinimum"
    BY <1>1, <1>2, <1>4
  <2>2. NumericExtreme(key, a, b) = (IF a <= b THEN a ELSE b)
    BY <1>4, <2>1 DEF NumericExtreme
  <2>3. NumericExtreme(key, b, a) = (IF b <= a THEN b ELSE a)
    BY <1>4, <2>1 DEF NumericExtreme
  <2>4. CASE key = "exclusiveMaximum"
    <3>1. \A bound : Within(key, bound, value) <=> value < bound
      BY <1>2, <2>1, <2>4 DEF Within
    <3>2. QED
      BY <2>2, <2>3, <3>1
  <2>5. CASE key # "exclusiveMaximum"
    <3>1. \A bound : Within(key, bound, value) <=> value <= bound
      BY <1>4, <2>1, <2>5 DEF Within
    <3>2. QED
      BY <2>2, <2>3, <3>1
  <2>6. QED
    BY <2>4, <2>5
<1>5. QED
  BY <1>3, <1>4

(* The bound that finalize_merged drops for its pair's sake is never       *)
(* missed, and no pair drops both of its bounds (collapse_numeric_pair):   *)
(* the numbers within the bounds that stay are those within all of them.   *)
THEOREM CollapseKeepsMeaning ==
  \A schema, number :
    number \in Int /\ (\A key \in DOMAIN schema \cap Numeric : schema[key] \in Int)
    => (WithinAll(Without(schema, Dominated(schema)), number) <=> WithinAll(schema, number))
<1> SUFFICES ASSUME NEW schema, NEW number \in Int,
                    \A key \in DOMAIN schema \cap Numeric : schema[key] \in Int
             PROVE  WithinAll(Without(schema, Dominated(schema)), number) <=> WithinAll(schema, number)
  OBVIOUS
<1> DEFINE kept == Without(schema, Dominated(schema))
           In(key) == Within(key, schema[key], number)
<1>1. /\ DOMAIN kept = DOMAIN schema \ Dominated(schema)
      /\ \A key \in DOMAIN kept : kept[key] = schema[key]
  BY DEF Without
<1>2. \A key : key \in Dominated(schema) => key \in DOMAIN schema
  BY DEF Dominated
<1> HIDE DEF kept
<1>3. WithinAll(schema, number) => WithinAll(kept, number)
  BY <1>1 DEF WithinAll
<1>4. /\ In("minimum") <=> number >= schema["minimum"]
      /\ In("exclusiveMinimum") <=> number > schema["exclusiveMinimum"]
      /\ In("maximum") <=> number <= schema["maximum"]
      /\ In("exclusiveMaximum") <=> number < schema["exclusiveMaximum"]
  BY DEF Within, LowerBounds, UpperBounds
<1> HIDE DEF In
<1>5. ASSUME WithinAll(kept, number), NEW key \in DOMAIN schema \cap Numeric
      PROVE  In(key)
  <2>1. \A other \in Numeric : Has(schema, other) /\ other \notin Dominated(schema) => In(other)
    BY <1>1, <1>5 DEF WithinAll, Has, In
  <2>2. CASE key \notin Dominated(schema)
    BY <2>1, <2>2 DEF Has
  <2>3. CASE key = "minimum" /\ key \in Dominated(schema)
    <3>1. Has(schema, "exclusiveMinimum") /\ schema["exclusiveMinimum"] >= schema["minimum"]
      BY <2>3 DEF Dominated
    <3>2. schema["minimum"] \in Int /\ schema["exclusiveMinimum"] \in Int
      BY <1>5, <2>3, <3>1 DEF Has, Numeric
    <3>3. "exclusiveMinimum" \notin Dominated(schema)
      BY <3>1, <3>2 DEF Dominated
    <3>4. In("exclusiveMinimum")
      BY <2>1, <3>1, <3>3 DEF Numeric
    <3>5. QED
      BY <1>4, <2>3, <3>1, <3>2, <3>4
  <2>4. CASE key = "exclusiveMinimum" /\ key \in Dominated(schema)
    <3>1. Has(schema, "minimum") /\ schema["minimum"] > schema["exclusiveMinimum"]
      BY <2>4 DEF Dominated
    <3>2. schema["minimum"] \in Int /\ schema["exclusiveMinimum"] \in Int
      BY <1>5, <2>4, <3>1 DEF Has, Numeric
    <3>3. "minimum" \notin Dominated(schema)
      BY <3>1, <3>2 DEF Dominated
    <3>4. In("minimum")
      BY <2>1, <3>1, <3>3 DEF Numeric
    <3>5. QED
      BY <1>4, <2>4, <3>1, <3>2, <3>4
  <2>5. CASE key = "maximum" /\ key \in Dominated(schema)
    <3>1. Has(schema, "exclusiveMaximum") /\ schema["exclusiveMaximum"] <= schema["maximum"]
      BY <2>5 DEF Dominated
    <3>2. schema["maximum"] \in Int /\ schema["exclusiveMaximum"] \in Int
      BY <1>5, <2>5, <3>1 DEF Has, Numeric
    <3>3. "exclusiveMaximum" \notin Dominated(schema)
      BY <3>1, <3>2 DEF Dominated
    <3>4. In("exclusiveMaximum")
      BY <2>1, <3>1, <3>3 DEF Numeric
    <3>5. QED
      BY <1>4, <2>5, <3>1, <3>2, <3>4
  <2>6. CASE key = "exclusiveMaximum" /\ key \in Dominated(schema)
    <3>1. Has(schema, "maximum") /\ schema["maximum"] < schema["exclusiveMaximum"]
      BY <2>6 DEF Dominated
    <3>2. schema["maximum"] \in Int /\ schema["exclusiveMaximum"] \in Int
      BY <1>5, <2>6, <3>1 DEF Has, Numeric
    <3>3. "maximum" \notin Dominated(schema)
      BY <3>1, <3>2 DEF Dominated
    <3>4. In("maximum")
      BY <2>1, <3>1, <3>3 DEF Numeric
    <3>5. QED
      BY <1>4, <2>6, <3>1, <3>2, <3>4
  <2>7. QED
    BY <1>5, <2>2, <2>3, <2>4, <2>5, <2>6 DEF Numeric
<1>6. QED
  BY <1>3, <1>5 DEF WithinAll, kept, In

(* Merged dependencies are the conjunction: an object has what the merge   *)
(* demands if and only if it has what both demand                          *)
(* (merge_dependent_required).                                             *)
THEOREM DependenciesMeet ==
  \A a, b, members :
    HasDependencies(MergeDependentRequired(a, b), members)
      <=> HasDependencies(a, members) /\ HasDependencies(b, members)
<1> SUFFICES ASSUME NEW a, NEW b, NEW members
             PROVE  HasDependencies(MergeDependentRequired(a, b), members)
                      <=> HasDependencies(a, members) /\ HasDependencies(b, members)
  OBVIOUS
<1> DEFINE both == MergeDependentRequired(a, b)
           Demand(dependencies, trigger) ==
             IF trigger \in DOMAIN dependencies THEN dependencies[trigger] ELSE {}
<1>1. /\ DOMAIN both = DOMAIN a \cup DOMAIN b
      /\ \A trigger \in DOMAIN both : both[trigger] = Demand(a, trigger) \cup Demand(b, trigger)
  BY DEF MergeDependentRequired
<1> HIDE DEF both
<1>2. HasDependencies(both, members) => HasDependencies(a, members) /\ HasDependencies(b, members)
  BY <1>1 DEF HasDependencies
<1>3. HasDependencies(a, members) /\ HasDependencies(b, members) => HasDependencies(both, members)
  BY <1>1 DEF HasDependencies
<1>4. QED
  BY <1>2, <1>3 DEF both

(* Induction over the numbers up to a bound, for sets of numbers: a set    *)
(* that has 0, and with a number the next one, has all of them.            *)
LEMMA UpTo ==
  ASSUME NEW bound \in Nat, NEW numbers \in SUBSET (0 .. bound), 0 \in numbers,
         \A n \in 0 .. bound - 1 : n \in numbers => n + 1 \in numbers
  PROVE  numbers = 0 .. bound
<1> DEFINE low == { n \in 0 .. bound : 0 .. n \subseteq numbers }
           size == Cardinality(low)
<1>1. IsFiniteSet(low) /\ size \in Nat
  <2>1. IsFiniteSet(0 .. bound) /\ low \in SUBSET (0 .. bound)
    BY FS_Interval
  <2>2. QED
    BY <2>1, FS_Subset, FS_CardinalityType
<1>2. 0 \in low
  BY 0 .. 0 = {0}
<1>3. \A n \in low : 0 .. n \subseteq low
  OBVIOUS
<1>4. \A n \in low : n \in Nat /\ n <= bound
  OBVIOUS
<1>5. \A n \in low : n < bound => n + 1 \in low
  <2> SUFFICES ASSUME NEW n \in low, n < bound PROVE n + 1 \in low
    OBVIOUS
  <2>1. n \in numbers /\ n + 1 \in numbers
    OBVIOUS
  <2>2. 0 .. n + 1 = (0 .. n) \cup {n + 1}
    BY <1>4
  <2>3. QED
    BY <1>4, <2>1, <2>2
<1> HIDE DEF low
<1>6. \A n \in low : n + 1 <= size
  <2> SUFFICES ASSUME NEW n \in low PROVE n + 1 <= size
    OBVIOUS
  <2>0. n \in Nat
    BY <1>4
  <2>1. Cardinality(0 .. n) = n + 1 /\ 0 .. n \in SUBSET low
    BY <1>3, <2>0, FS_Interval
  <2>2. Cardinality(0 .. n) <= size
    BY <1>1, <2>1, FS_Subset
  <2>3. QED
    BY <2>1, <2>2
<1>7. low = 0 .. size - 1
  <2>0. size # 0
    BY <1>1, <1>2, FS_EmptySet
  <2>1. IsFiniteSet(0 .. size - 1) /\ Cardinality(0 .. size - 1) = size
    BY <1>1, <2>0, FS_Interval
  <2>2. low \in SUBSET (0 .. size - 1)
    BY <1>1, <1>4, <1>6
  <2>3. QED
    BY <2>1, <2>2, FS_Subset
<1>8. size - 1 \in low
  BY <1>1, <1>2, <1>6, <1>7
<1>9. bound \in low
  <2>1. size - 1 < bound => size \in low
    BY <1>1, <1>5, <1>8
  <2>2. size - 1 = bound
    BY <1>1, <1>4, <1>6, <1>8, <2>1
  <2>3. QED
    BY <1>8, <2>2
<1>10. QED
  BY <1>9 DEF low

(* Division with a remainder.                                              *)
LEMMA DivMod ==
  ASSUME NEW n \in Int, NEW d \in Nat \ {0}
  PROVE  /\ n \div d \in Int /\ n % d \in 0 .. d - 1
         /\ n = d * (n \div d) + (n % d)
OBVIOUS

Multiple(n, d) == \E k \in Int : n = d * k

(* No remainder: a multiple.                                               *)
LEMMA Multiples ==
  ASSUME NEW n \in Int, NEW d \in Nat \ {0}
  PROVE  n % d = 0 <=> Multiple(n, d)
<1>1. ASSUME n % d = 0 PROVE Multiple(n, d)
  <2>1. n \div d \in Int /\ n = d * (n \div d)
    BY <1>1, DivMod
  <2>2. QED
    BY <2>1 DEF Multiple
<1>2. ASSUME NEW k \in Int, n = d * k PROVE n % d = 0
  <2>1. 0 \in 0 .. d - 1 /\ n = d * k + 0
    BY <1>2
  <2>2. QED
    BY <2>1
<1>3. QED
  BY <1>1, <1>2 DEF Multiple

(* The recursion of Euclid's loop, for every two numbers an i64 has.       *)
LEMMA GcdIs ==
  \A x, y \in Whole : Gcd[y][x] = IF y = 0 THEN x ELSE Gcd[x % y][y]
<1> DEFINE Row(f, y) == [ x \in Whole |-> IF y = 0 THEN x ELSE f[x % y][y] ]
           IsGcd(f, n) == f = [ y \in 0 .. n |-> Row(f, y) ]
           good == { n \in 0 .. LargestInteger : \E f : IsGcd(f, n) }
<1>0. LargestInteger \in Nat
  BY LimitsAssumption
<1>1. 0 \in good
  <2> DEFINE f == [ y \in 0 .. 0 |-> [ x \in Whole |-> x ] ]
  <2>1. IsGcd(f, 0)
    <3>1. \A y \in 0 .. 0 : y = 0
      OBVIOUS
    <3>2. \A y \in 0 .. 0 : Row(f, y) = [ x \in Whole |-> x ]
      BY <3>1
    <3>3. QED
      BY <3>2
  <2>2. 0 \in 0 .. LargestInteger
    BY <1>0
  <2> HIDE DEF IsGcd, f
  <2>3. QED
    BY <2>1, <2>2
<1>2. ASSUME NEW n \in 0 .. LargestInteger - 1, n \in good PROVE n + 1 \in good
  <2>1. PICK f : IsGcd(f, n)
    BY <1>2
  <2>2. \A y \in 0 .. n : f[y] = Row(f, y)
    BY <2>1
  <2> DEFINE g == [ y \in 0 .. n + 1 |-> IF y <= n THEN f[y] ELSE Row(f, n + 1) ]
  <2>3. \A y \in 0 .. n + 1 : g[y] = IF y <= n THEN f[y] ELSE Row(f, n + 1)
    BY DEF g
  <2>4. \A y \in 0 .. n : g[y] = f[y]
    BY <1>0, <2>3
  <2> HIDE DEF g
  <2>5. ASSUME NEW y \in 0 .. n + 1 PROVE g[y] = Row(g, y)
    <3>1. g[y] = Row(f, y)
      <4>1. CASE y <= n
        <5>1. y \in 0 .. n
          BY <1>0, <4>1
        <5>2. QED
          BY <2>2, <2>4, <5>1
      <4>2. CASE ~ y <= n
        <5>1. y = n + 1
          BY <1>0, <4>2
        <5>2. g[n + 1] = Row(f, n + 1)
          BY <2>3, <4>2, <5>1
        <5>3. QED
          BY <5>1, <5>2
      <4>3. QED
        BY <4>1, <4>2
    <3>2. ASSUME NEW x \in Whole, y # 0 PROVE g[x % y] = f[x % y]
      <4>1. x \in Int /\ y \in Nat \ {0}
        BY <1>0, <3>2 DEF Whole
      <4>2. x % y \in 0 .. y - 1
        BY <4>1, DivMod
      <4>3. x % y \in 0 .. n
        BY <1>0, <4>2
      <4>4. QED
        BY <2>4, <4>3
    <3>3. Row(f, y) = Row(g, y)
      BY <3>2
    <3>4. QED
      BY <3>1, <3>3
  <2>6. IsGcd(g, n + 1)
    BY <2>5 DEF g
  <2>7. n + 1 \in 0 .. LargestInteger
    BY <1>0
  <2> HIDE DEF IsGcd
  <2>8. QED
    BY <2>6, <2>7
<1>3. LargestInteger \in good
  <2> HIDE DEF good
  <2>1. good \in SUBSET (0 .. LargestInteger)
    BY DEF good
  <2>2. good = 0 .. LargestInteger
    BY <1>0, <1>1, <1>2, <2>1, UpTo
  <2>3. QED
    BY <1>0, <2>2
<1>4. PICK f : IsGcd(f, LargestInteger)
  BY <1>3
<1>5. Gcd = CHOOSE g : IsGcd(g, LargestInteger)
  BY DEF Gcd, Whole
<1>6. IsGcd(Gcd, LargestInteger)
  <2> HIDE DEF IsGcd
  <2>1. QED
    BY <1>4, <1>5
<1>7. \A y \in Whole : Gcd[y] = Row(Gcd, y)
  BY <1>6 DEF Whole
<1>8. QED
  BY <1>7

(* What the solver is told about products.                                 *)
LEMMA Ring ==
  \A a, b, c, d \in Int :
    /\ a * b \in Int /\ a * b = b * a /\ a * (b * c) = (a * b) * c
    /\ a * (b + c) = a * b + a * c /\ a * (b - c) = a * b - a * c
OBVIOUS

(* A common factor can be left out.                                        *)
LEMMA Cancel == ASSUME NEW g \in Nat \ {0}, NEW a \in Int, NEW b \in Int, g * a = g * b PROVE a = b
<1>1. g * (a - b) = 0
  BY Ring
<1>2. QED
  BY <1>1

Bezout(g, x, y) ==
  /\ g \in Whole \ {0} /\ Multiple(x, g) /\ Multiple(y, g)
  /\ \E u, v \in Int : g = x * u + y * v

(* Euclid's loop ends with a divisor of both that is a sum of multiples of *)
(* the two (Bezout).                                                       *)
LEMMA GcdIsGcd ==
  \A x, y \in Whole : x # 0 \/ y # 0 => Bezout(Gcd[y][x], x, y)
<1> DEFINE P(y) == \A x \in Whole : x # 0 \/ y # 0 => Bezout(Gcd[y][x], x, y)
           good == { n \in 0 .. LargestInteger : \A y \in 0 .. n : P(y) }
<1>0. LargestInteger \in Nat /\ \A x \in Whole : x \in Nat
  BY LimitsAssumption DEF Whole
<1>1. P(0)
  <2> SUFFICES ASSUME NEW x \in Whole, x # 0 PROVE Bezout(Gcd[0][x], x, 0)
    OBVIOUS
  <2>1. 0 \in Whole /\ Gcd[0][x] = x
    BY <1>0, GcdIs DEF Whole
  <2>2. x = x * 1 /\ 0 = x * 0 /\ x = x * 1 + 0 * 0
    BY <1>0
  <2>3. QED
    BY <2>1, <2>2 DEF Bezout, Multiple
<1>2. ASSUME NEW n \in 0 .. LargestInteger - 1, n \in good PROVE P(n + 1)
  <2> DEFINE y == n + 1
  <2>0. y \in Whole /\ y \in Nat \ {0} /\ y - 1 = n
    BY <1>0 DEF Whole
  <2> HIDE DEF y
  <2> SUFFICES ASSUME NEW x \in Whole PROVE Bezout(Gcd[y][x], x, y)
    BY DEF y
  <2> DEFINE r == x % y
             q == x \div y
             g == Gcd[y][x]
  <2>1. q \in Int /\ r \in 0 .. n /\ x = y * q + r
    <3>1. x \in Int
      BY <1>0
    <3>2. QED
      BY <2>0, <3>1, DivMod
  <2> HIDE DEF q
  <2>2. r \in Whole /\ g = Gcd[r][y]
    <3>1. r \in Whole
      BY <1>0, <2>1 DEF Whole
    <3>2. QED
      BY <2>0, <3>1, GcdIs
  <2> HIDE DEF r, g
  <2>3. Bezout(g, y, r)
    BY <1>2, <2>0, <2>1, <2>2
  <2>4. PICK u \in Int, v \in Int : g = y * u + r * v
    BY <2>3 DEF Bezout
  <2>5. PICK k \in Int : y = g * k
    BY <2>3 DEF Bezout, Multiple
  <2>6. PICK l \in Int : r = g * l
    BY <2>3 DEF Bezout, Multiple
  <2>7. g \in Int /\ x \in Int /\ y \in Int /\ r \in Int
    BY <1>0, <2>0, <2>2, <2>3 DEF Bezout
  <2>8. x = g * (k * q + l) /\ k * q + l \in Int
    <3>1. k * q \in Int /\ (g * k) * q = g * (k * q)
      BY <2>1, <2>5, <2>7, Ring
    <3>2. g * (k * q + l) = g * (k * q) + g * l
      BY <2>6, <2>7, <3>1, Ring
    <3>3. QED
      BY <2>1, <2>5, <2>6, <3>1, <3>2
  <2>9. g = x * v + y * (u - q * v) /\ u - q * v \in Int
    <3>1. q * v \in Int /\ y * (q * v) = (y * q) * v /\ y * q \in Int
      BY <2>1, <2>4, <2>7, Ring
    <3>2. y * (u - q * v) = y * u - (y * q) * v
      BY <2>4, <2>7, <3>1, Ring
    <3>3. x * v = (y * q) * v + r * v
      BY <2>1, <2>4, <2>7, <3>1, Ring
    <3>4. y * u \in Int /\ r * v \in Int /\ (y * q) * v \in Int
      BY <2>1, <2>4, <2>7, <3>1, Ring
    <3>5. QED
      BY <2>4, <3>1, <3>2, <3>3, <3>4
  <2>10. QED
    BY <2>3, <2>8, <2>9 DEF Bezout, Multiple, g
<1> HIDE DEF P
<1>3. 0 \in good
  BY <1>0, <1>1
<1>4. ASSUME NEW n \in 0 .. LargestInteger - 1, n \in good PROVE n + 1 \in good
  <2>1. P(n + 1) /\ \A y \in 0 .. n : P(y)
    BY <1>2, <1>4
  <2>2. \A y \in 0 .. n + 1 : y \in 0 .. n \/ y = n + 1
    BY <1>0
  <2>3. QED
    BY <1>0, <2>1, <2>2
<1>5. good = 0 .. LargestInteger
  <2>1. good \in SUBSET (0 .. LargestInteger)
    OBVIOUS
  <2> HIDE DEF good
  <2>2. QED
    BY <1>0, <1>3, <1>4, <2>1, UpTo
<1>6. LargestInteger \in good
  BY <1>0, <1>5
<1>7. QED
  BY <1>6 DEF P, Whole

(* The quotient times the other divisor: its multiples are the common      *)
(* multiples.                                                              *)
LEMMA LeastCommonMultiple ==
  ASSUME NEW a \in Whole \ {0}, NEW b \in Whole \ {0}
  PROVE  LET lcm == (a \div Gcd[b][a]) * b
         IN  lcm \in Nat \ {0} /\ \A n \in Int : Multiple(n, lcm) <=> Multiple(n, a) /\ Multiple(n, b)
<1> DEFINE g == Gcd[b][a]
           q == a \div g
<1>0. a \in Nat \ {0} /\ b \in Nat \ {0}
  BY LimitsAssumption DEF Whole
<1>1. Bezout(g, a, b)
  BY <1>0, GcdIsGcd
<1>2. g \in Nat \ {0}
  BY <1>1, LimitsAssumption DEF Bezout, Whole
<1>3. PICK k \in Int : a = g * k
  BY <1>1 DEF Bezout, Multiple
<1>4. PICK l \in Int : b = g * l
  BY <1>1 DEF Bezout, Multiple
<1>5. q = k
  <2>1. 0 \in 0 .. g - 1 /\ a = g * k + 0
    BY <1>0, <1>2, <1>3
  <2>2. QED
    BY <1>0, <1>2, <2>1
<1>6. PICK u \in Int, v \in Int : g = a * u + b * v
  BY <1>1 DEF Bezout
<1> HIDE DEF g, q
<1>7. k * b = a * l /\ k * b \in Int
  BY <1>0, <1>2, <1>3, <1>4, Ring
<1>8. k * b \in Nat \ {0}
  <2>1. k > 0
    BY <1>0, <1>2, <1>3
  <2>2. QED
    BY <1>0, <2>1
<1>9. ASSUME NEW n \in Int, Multiple(n, k * b) PROVE Multiple(n, a) /\ Multiple(n, b)
  <2>1. PICK m \in Int : n = (k * b) * m
    BY <1>9 DEF Multiple
  <2>2. n = b * (k * m) /\ k * m \in Int
    BY <1>0, <2>1, Ring
  <2>3. n = a * (l * m) /\ l * m \in Int
    BY <1>0, <1>7, <2>1, Ring
  <2>4. QED
    BY <2>2, <2>3 DEF Multiple
<1>10. ASSUME NEW n \in Int, Multiple(n, a), Multiple(n, b) PROVE Multiple(n, k * b)
  <2>1. PICK i \in Int : n = a * i
    BY <1>10 DEF Multiple
  <2>2. PICK j \in Int : n = b * j
    BY <1>10 DEF Multiple
  <2>3. n * g = n * (a * u) + n * (b * v)
    BY <1>0, <1>6, Ring
  <2>4. n * (a * u) = (b * j) * (a * u) /\ (b * j) * (a * u) = (a * b) * (j * u)
    BY <1>0, <2>2, Ring
  <2>5. n * (b * v) = (a * i) * (b * v) /\ (a * i) * (b * v) = (a * b) * (i * v)
    BY <1>0, <2>1, Ring
  <2>6. a * b \in Int /\ j * u \in Int /\ i * v \in Int /\ a * b = g * (k * b)
    BY <1>0, <1>2, <1>3, Ring
  <2>7. n * g = (g * (k * b)) * (j * u + i * v)
    <3>1. (a * b) * (j * u + i * v) = (a * b) * (j * u) + (a * b) * (i * v)
      BY <2>6, Ring
    <3>2. QED
      BY <2>3, <2>4, <2>5, <2>6, <3>1
  <2>8. g * n = g * ((k * b) * (j * u + i * v))
    BY <1>2, <1>7, <2>6, <2>7, Ring
  <2>9. n = (k * b) * (j * u + i * v) /\ j * u + i * v \in Int
    <3>1. (k * b) * (j * u + i * v) \in Int
      BY <1>7, <2>6, Ring
    <3>2. QED
      BY <1>2, <2>6, <2>8, <3>1, Cancel
  <2>10. QED
    BY <2>9 DEF Multiple
<1>11. QED
  BY <1>5, <1>8, <1>9, <1>10 DEF q, g

-----------------------------------------------------------------------------
(* What a keyword says of a value, and a schema.                           *)

(* What merging and finalizing take for granted of one keyword's value.    *)
KeyTyped(key, x) ==
  /\ key \in LowerBounds \cup UpperBounds => x \in Int
  /\ key = "multipleOf" => x \in Whole \ {0}
  /\ key = "uniqueItems" => x \in BOOLEAN

IsValue(v) ==
  /\ v.kind \in {"number", "string", "array", "object"}
  /\ v.kind = "number" => v.twice \in Int
  /\ v.kind = "string" =>
       /\ v.length \in Nat
       /\ \A pair \in Contained : pair[1] \in v.formats => pair[2] \in v.formats
  /\ v.kind = "array" => v.elements \in Seq(Int) /\ Range(v.elements) \subseteq Elements
  /\ v.kind = "object" =>
       /\ IsFiniteSet(DOMAIN v.members)
       /\ Range(v.members) \subseteq Int /\ Range(v.members) \subseteq Elements

SaysOfNumber(key, x, v) ==
  /\ key = "minimum" => v.twice >= 2 * x
  /\ key = "exclusiveMinimum" => v.twice > 2 * x
  /\ key = "maximum" => v.twice <= 2 * x
  /\ key = "exclusiveMaximum" => v.twice < 2 * x
  /\ key = "multipleOf" => v.twice % (2 * x) = 0

SaysOfString(key, x, v) ==
  /\ key = "minLength" => x <= v.length
  /\ key = "maxLength" => v.length <= x
  /\ key = "format" => x \in v.formats
  /\ key = "pattern" => x \in v.patterns

SaysOfArray(key, x, v) ==
  /\ key = "minItems" => x <= Len(v.elements)
  /\ key = "maxItems" => Len(v.elements) <= x
  /\ key = "uniqueItems" => (x => IsInjective(v.elements))
  /\ key = "items" =>
       \A n \in DOMAIN v.elements : AcceptsBelow(x, Number(v.elements[n]), {})

SaysOfObject(key, x, v, declared) ==
  /\ key = "minProperties" => x <= Cardinality(DOMAIN v.members)
  /\ key = "maxProperties" => Cardinality(DOMAIN v.members) <= x
  /\ key = "required" => x \subseteq DOMAIN v.members
  /\ key = "dependentRequired" => HasDependencies(x, DOMAIN v.members)
  /\ key = "properties" =>
       \A name \in DOMAIN x \cap DOMAIN v.members :
         AcceptsBelow(x[name], Number(v.members[name]), {})
  /\ key = "additionalProperties" /\ x # Open =>
       \A name \in DOMAIN v.members \ declared :
         x # Closed /\ AcceptsBelow(x, Number(v.members[name]), {})

SaysOfAny(key, x, v, declared) ==
  /\ key = "type" => IsOfType(v, x)
  /\ key = "const" => v = x
  /\ key = "enum" => v \in x
  /\ key = "$ref" => AcceptsBelow(Target[x], v, {})
  /\ key = "allOf" => \A n \in DOMAIN x : AcceptsBelow(x[n], v, declared)
  /\ key = "oneOf" =>
       Cardinality({ alternative \in x : AcceptsBelow(alternative, v, {}) }) = 1

(* What one keyword says of a value, but for the counts of contains.  Of   *)
(* additionalProperties it is the reading of the merge, which is weaker    *)
(* than Accepts: members that are `declared` elsewhere escape its schema.  *)
(* Both mean the same of a schema by itself, where `declared` is its own.  *)
Says(key, x, v, declared) ==
  /\ v.kind = "number" => SaysOfNumber(key, x, v)
  /\ v.kind = "string" => SaysOfString(key, x, v)
  /\ v.kind = "array" => SaysOfArray(key, x, v)
  /\ v.kind = "object" => SaysOfObject(key, x, v, declared)
  /\ SaysOfAny(key, x, v, declared)

Apart(schema, v, declared) ==
  \A key \in DOMAIN schema : Says(key, schema[key], v, declared)

Counted(schema, elements) ==
  Has(schema, "contains") =>
    LET count == Cardinality({ n \in DOMAIN elements :
                                 AcceptsBelow(schema["contains"], Number(elements[n]), {}) })
    IN  /\ Between(schema, "minContains", count, "maxContains")
        /\ ~ Has(schema, "minContains") => count >= 1

(* What additionalProperties means for the members of an object.           *)
MeetsOthers(schema, members, declared) ==
  /\ IsClosed(schema) => DOMAIN members \subseteq declared
  /\ HasMemberSchema(schema) =>
       \A name \in DOMAIN members \ Declared(schema) :
         AcceptsBelow(schema["additionalProperties"], Number(members[name]), {})

(* A schema accepts a value if every keyword of it does, and the elements  *)
(* that meet its contains are as many as it says.                          *)
LEMMA AcceptsIs ==
  ASSUME NEW schema, NEW v, NEW declared
  PROVE  Accepts(schema, v, declared) <=>
           /\ \A key \in DOMAIN schema \ {"additionalProperties"} : Says(key, schema[key], v, declared)
           /\ v.kind = "object" => MeetsOthers(schema, v.members, declared)
           /\ v.kind = "array" => Counted(schema, v.elements)
<1> DEFINE Told(key) == Has(schema, key) /\ key # "additionalProperties"
<1>1. (\A key \in DOMAIN schema \ {"additionalProperties"} : Says(key, schema[key], v, declared))
        <=> \A key : Told(key) => Says(key, schema[key], v, declared)
  BY DEF Has
<1>2. (v.kind = "number" => BoundsHold(schema, v)) 
       <=> (v.kind = "number" => \A key : Told(key) => SaysOfNumber(key, schema[key], v))
  BY DEF BoundsHold, SaysOfNumber
<1>3. (/\ Between(schema, "minLength", v.length, "maxLength")
       /\ Has(schema, "format") => schema["format"] \in v.formats
       /\ Has(schema, "pattern") => schema["pattern"] \in v.patterns)
       <=> (\A key : Told(key) => SaysOfString(key, schema[key], v))
  BY DEF Between, SaysOfString
<1>4. AcceptsArray(schema, v.elements)
       <=> (Counted(schema, v.elements)
            /\ \A key : Told(key) => SaysOfArray(key, schema[key], v))
  <2> DEFINE Items(x) == \A n \in DOMAIN v.elements : AcceptsBelow(x, Number(v.elements[n]), {})
  <2>1. AcceptsArray(schema, v.elements) <=>
          /\ Between(schema, "minItems", Len(v.elements), "maxItems")
          /\ Has(schema, "uniqueItems") /\ schema["uniqueItems"] => IsInjective(v.elements)
          /\ Has(schema, "items") => Items(schema["items"])
          /\ Counted(schema, v.elements)
    BY DEF AcceptsArray, Counted
  <2>2. \A key, x : SaysOfArray(key, x, v) <=>
          /\ key = "minItems" => x <= Len(v.elements)
          /\ key = "maxItems" => Len(v.elements) <= x
          /\ key = "uniqueItems" => (x => IsInjective(v.elements))
          /\ key = "items" => Items(x)
    BY DEF SaysOfArray
  <2> HIDE DEF Items
  <2>3. QED
    BY <2>1, <2>2 DEF Between
<1>5. AcceptsObject(schema, v.members, declared)
       <=> (MeetsOthers(schema, v.members, declared)
            /\ \A key : Told(key) => SaysOfObject(key, schema[key], v, declared))
  <2> DEFINE Properties(x) ==
               \A name \in DOMAIN x \cap DOMAIN v.members :
                 AcceptsBelow(x[name], Number(v.members[name]), {})
             Size == Cardinality(DOMAIN v.members)
  <2>1. AcceptsObject(schema, v.members, declared) <=>
          /\ Between(schema, "minProperties", Size, "maxProperties")
          /\ Has(schema, "required") => schema["required"] \subseteq DOMAIN v.members
          /\ Has(schema, "dependentRequired") =>
               HasDependencies(schema["dependentRequired"], DOMAIN v.members)
          /\ Has(schema, "properties") => Properties(schema["properties"])
          /\ MeetsOthers(schema, v.members, declared)
    BY DEF AcceptsObject, HasDependencies, MeetsOthers
  <2>2. \A key, x : key # "additionalProperties" => (SaysOfObject(key, x, v, declared) <=>
          /\ key = "minProperties" => x <= Size
          /\ key = "maxProperties" => Size <= x
          /\ key = "required" => x \subseteq DOMAIN v.members
          /\ key = "dependentRequired" => HasDependencies(x, DOMAIN v.members)
          /\ key = "properties" => Properties(x))
    BY DEF SaysOfObject
  <2> HIDE DEF Properties, Size
  <2>3. QED
    BY <2>1, <2>2 DEF Between
<1>6. (/\ Has(schema, "type") => IsOfType(v, schema["type"])
       /\ Has(schema, "const") => v = schema["const"]
       /\ Has(schema, "enum") => v \in schema["enum"]
       /\ Has(schema, "$ref") => AcceptsBelow(Target[schema["$ref"]], v, {})
       /\ Has(schema, "allOf") =>
            \A n \in DOMAIN schema["allOf"] : AcceptsBelow(schema["allOf"][n], v, declared)
       /\ Has(schema, "oneOf") =>
            Cardinality({ alternative \in schema["oneOf"] : AcceptsBelow(alternative, v, {}) }) = 1)
       <=> \A key : Told(key) => SaysOfAny(key, schema[key], v, declared)
  <2> DEFINE All(x) == \A n \in DOMAIN x : AcceptsBelow(x[n], v, declared)
             One(x) == Cardinality({ alternative \in x : AcceptsBelow(alternative, v, {}) }) = 1
  <2>1. \A key, x : SaysOfAny(key, x, v, declared) <=>
          /\ key = "type" => IsOfType(v, x)
          /\ key = "const" => v = x
          /\ key = "enum" => v \in x
          /\ key = "$ref" => AcceptsBelow(Target[x], v, {})
          /\ key = "allOf" => All(x)
          /\ key = "oneOf" => One(x)
    BY DEF SaysOfAny
  <2>2. All(schema["allOf"]) <=>
          \A n \in DOMAIN schema["allOf"] : AcceptsBelow(schema["allOf"][n], v, declared)
    OBVIOUS
  <2>3. One(schema["oneOf"]) <=>
          Cardinality({ alternative \in schema["oneOf"] : AcceptsBelow(alternative, v, {}) }) = 1
    OBVIOUS
  <2> HIDE DEF All, One
  <2>4. QED
    BY <2>1, <2>2, <2>3
<1>7. Accepts(schema, v, declared) <=>
        /\ \A key : Told(key) => SaysOfAny(key, schema[key], v, declared)
        /\ v.kind = "number" => \A key : Told(key) => SaysOfNumber(key, schema[key], v)
        /\ v.kind = "string" => \A key : Told(key) => SaysOfString(key, schema[key], v)
        /\ v.kind = "array" => \A key : Told(key) => SaysOfArray(key, schema[key], v)
        /\ v.kind = "object" => \A key : Told(key) => SaysOfObject(key, schema[key], v, declared)
        /\ v.kind = "object" => MeetsOthers(schema, v.members, declared)
        /\ v.kind = "array" => Counted(schema, v.elements)
  BY <1>2, <1>3, <1>4, <1>5, <1>6 DEF Accepts
<1>8. QED
  BY <1>1, <1>7 DEF Says

(* What additionalProperties says.                                         *)
LEMMA SaysAdditionalProperties ==
  ASSUME NEW x, NEW v, NEW declared
  PROVE  Says("additionalProperties", x, v, declared)
           <=> (v.kind = "object" /\ x # Open =>
                  \A name \in DOMAIN v.members \ declared :
                    x # Closed /\ AcceptsBelow(x, Number(v.members[name]), {}))
BY DEF Says, SaysOfNumber, SaysOfString, SaysOfArray, SaysOfObject, SaysOfAny

(* If a schema accepts a value, each keyword of it says so.                *)
LEMMA AcceptedIsSaid ==
  ASSUME NEW schema, NEW v, NEW declared,
         Declared(schema) \subseteq declared, Accepts(schema, v, declared)
  PROVE  Apart(schema, v, declared) /\ (v.kind = "array" => Counted(schema, v.elements))
<1>1. /\ \A key \in DOMAIN schema \ {"additionalProperties"} : Says(key, schema[key], v, declared)
      /\ v.kind = "object" => MeetsOthers(schema, v.members, declared)
      /\ v.kind = "array" => Counted(schema, v.elements)
  BY AcceptsIs
<1>2. ASSUME Has(schema, "additionalProperties")
      PROVE  Says("additionalProperties", schema["additionalProperties"], v, declared)
  <2> DEFINE x == schema["additionalProperties"]
  <2>1. SUFFICES ASSUME v.kind = "object", x # Open, NEW name \in DOMAIN v.members \ declared
                 PROVE  x # Closed /\ AcceptsBelow(x, Number(v.members[name]), {})
    BY SaysAdditionalProperties
  <2>2. MeetsOthers(schema, v.members, declared)
    BY <1>1, <2>1
  <2>3. ~ IsClosed(schema)
    BY <2>1, <2>2 DEF MeetsOthers
  <2>4. HasMemberSchema(schema) /\ x # Closed
    BY <1>2, <2>1, <2>3 DEF HasMemberSchema, IsClosed
  <2>5. QED
    BY <2>1, <2>2, <2>4 DEF MeetsOthers
<1>3. QED
  BY <1>1, <1>2 DEF Apart, Has

(* And the other way round, unless members escape the schema's schema for  *)
(* the others.                                                             *)
LEMMA SaidIsAccepted ==
  ASSUME NEW schema, NEW v, NEW declared,
         Apart(schema, v, declared), v.kind = "array" => Counted(schema, v.elements),
         v.kind = "object" /\ HasMemberSchema(schema) =>
           DOMAIN v.members \cap declared \subseteq Declared(schema)
  PROVE  Accepts(schema, v, declared)
<1>1. ASSUME v.kind = "object" PROVE MeetsOthers(schema, v.members, declared)
  <2> DEFINE x == schema["additionalProperties"]
  <2>1. Has(schema, "additionalProperties") /\ x # Open =>
          \A name \in DOMAIN v.members \ declared :
            x # Closed /\ AcceptsBelow(x, Number(v.members[name]), {})
    BY <1>1, SaysAdditionalProperties DEF Apart, Has
  <2>2. IsClosed(schema) => DOMAIN v.members \subseteq declared
    BY <2>1, ChildrenAssumption DEF IsClosed
  <2>3. ASSUME HasMemberSchema(schema), NEW name \in DOMAIN v.members \ Declared(schema)
        PROVE  AcceptsBelow(x, Number(v.members[name]), {})
    BY <1>1, <2>1, <2>3 DEF HasMemberSchema
  <2>4. QED
    BY <2>2, <2>3 DEF MeetsOthers
<1>2. QED
  BY <1>1, AcceptsIs DEF Apart

(* By itself a schema has no member that escapes.                          *)
LEMMA AloneIs ==
  ASSUME NEW schema, NEW v
  PROVE  AcceptsAlone(schema, v)
           <=> /\ Apart(schema, v, Declared(schema))
               /\ v.kind = "array" => Counted(schema, v.elements)
<1>1. DOMAIN v.members \cap Declared(schema) \subseteq Declared(schema)
  OBVIOUS
<1>2. QED
  BY <1>1, AcceptedIsSaid, SaidIsAccepted DEF AcceptsAlone

-----------------------------------------------------------------------------
(* merge_extra_value.                                                      *)

ChildKeys == { "items", "additionalProperties", "properties" }

(* A number is a multiple of twice the least common multiple if and only   *)
(* if it is one of both doubled divisors.                                  *)
THEOREM DivisorsMeet ==
  ASSUME NEW x \in Whole \ {0}, NEW y \in Whole \ {0}, MergeMultipleOf(x, y) # Rejected
  PROVE  /\ MergeMultipleOf(x, y) \in Whole \ {0}
         /\ \A t \in Int : t % (2 * MergeMultipleOf(x, y)) = 0
                             <=> t % (2 * x) = 0 /\ t % (2 * y) = 0
<1> DEFINE lcm == (x \div Gcd[y][x]) * y
<1>1. lcm \in Nat \ {0} /\ \A n \in Int : Multiple(n, lcm) <=> Multiple(n, x) /\ Multiple(n, y)
  BY LeastCommonMultiple
<1>2. MergeMultipleOf(x, y) = lcm /\ lcm <= LargestInteger
  BY DEF MergeMultipleOf
<1> HIDE DEF lcm
<1>3. lcm \in Whole \ {0}
  BY <1>1, <1>2, LimitsAssumption DEF Whole
<1>4. ASSUME NEW t \in Int, NEW d \in Nat \ {0}
      PROVE  t % (2 * d) = 0 <=> \E s \in Int : t = 2 * s /\ Multiple(s, d)
  <2>1. 2 * d \in Nat \ {0}
    OBVIOUS
  <2>2. t % (2 * d) = 0 <=> Multiple(t, 2 * d)
    BY <2>1, Multiples
  <2>3. \A k \in Int : (2 * d) * k = 2 * (d * k) /\ d * k \in Int
    OBVIOUS
  <2>4. QED
    BY <2>2, <2>3 DEF Multiple
<1>5. x \in Nat \ {0} /\ y \in Nat \ {0}
  BY LimitsAssumption DEF Whole
<1>6. ASSUME NEW t \in Int
      PROVE  t % (2 * lcm) = 0 <=> t % (2 * x) = 0 /\ t % (2 * y) = 0
  <2>1. \A s, r \in Int : t = 2 * s /\ t = 2 * r => s = r
    OBVIOUS
  <2>2. QED
    BY <1>1, <1>4, <1>5, <2>1
<1>7. QED
  BY <1>2, <1>3, <1>6

(* merge_extra_value: a keyword whose values are not schemas says of every *)
(* value what both of its values say, whatever they are.                   *)
THEOREM PlainKeywordsMeet ==
  ASSUME NEW key, key \notin ChildKeys, NEW x, NEW y, KeyTyped(key, x), KeyTyped(key, y),
         NEW v, IsValue(v), NEW declared, MergeKeyword(key, x, y) # Rejected
  PROVE  Says(key, MergeKeyword(key, x, y), v, declared)
           <=> Says(key, x, v, declared) /\ Says(key, y, v, declared)
<1> DEFINE m == MergeKeyword(key, x, y)
           Meets == Says(key, m, v, declared) <=> Says(key, x, v, declared) /\ Says(key, y, v, declared)
<1>1. CASE x = y
  BY <1>1 DEF MergeKeyword
<1>2. CASE x # y /\ key \in LowerBounds
  <2>1. key \in LowerBounds \cup UpperBounds /\ x \in Int /\ y \in Int
    BY <1>2 DEF KeyTyped
  <2>2. m = NumericExtreme(key, x, y) /\ key \notin UpperBounds
    BY <1>2, <2>1 DEF MergeKeyword, LowerBounds, UpperBounds, Annotations, Flags
  <2>3. m = IF x >= y THEN x ELSE y
    BY <1>2, <2>2 DEF NumericExtreme
  <2> HIDE DEF m
  <2>4. m \in Int /\ m >= x /\ m >= y /\ (m = x \/ m = y)
    BY <2>1, <2>3
  <2>5. v.kind = "number" =>
          (SaysOfNumber(key, m, v) <=> SaysOfNumber(key, x, v) /\ SaysOfNumber(key, y, v))
    BY <1>2, <2>1, <2>4 DEF IsValue, SaysOfNumber, LowerBounds
  <2>6. v.kind = "string" =>
          (SaysOfString(key, m, v) <=> SaysOfString(key, x, v) /\ SaysOfString(key, y, v))
    BY <1>2, <2>1, <2>4 DEF IsValue, SaysOfString, LowerBounds
  <2>7. v.kind = "array" =>
          (SaysOfArray(key, m, v) <=> SaysOfArray(key, x, v) /\ SaysOfArray(key, y, v))
    <3>1. v.kind = "array" => Len(v.elements) \in Int
      BY DEF IsValue
    <3>2. QED
      BY <1>2, <2>1, <2>4, <3>1 DEF SaysOfArray, LowerBounds
  <2>8. v.kind = "object" =>
          (SaysOfObject(key, m, v, declared)
             <=> SaysOfObject(key, x, v, declared) /\ SaysOfObject(key, y, v, declared))
    <3>1. v.kind = "object" => Cardinality(DOMAIN v.members) \in Int
      BY FS_CardinalityType DEF IsValue
    <3>2. QED
      BY <1>2, <2>1, <2>4, <3>1 DEF SaysOfObject, LowerBounds
  <2>9. \A z : SaysOfAny(key, z, v, declared)
    BY <1>2 DEF SaysOfAny, LowerBounds
  <2>10. QED
    BY <2>5, <2>6, <2>7, <2>8, <2>9 DEF Says, m
<1>3. CASE x # y /\ key \in UpperBounds
  <2>1. key \in LowerBounds \cup UpperBounds /\ x \in Int /\ y \in Int
    BY <1>3 DEF KeyTyped
  <2>2. m = NumericExtreme(key, x, y) /\ key \notin LowerBounds
    BY <1>3, <2>1 DEF MergeKeyword, LowerBounds, UpperBounds, Annotations, Flags
  <2>3. m = IF x <= y THEN x ELSE y
    BY <1>3, <2>2 DEF NumericExtreme
  <2> HIDE DEF m
  <2>4. m \in Int /\ m <= x /\ m <= y /\ (m = x \/ m = y)
    BY <2>1, <2>3
  <2>5. v.kind = "number" =>
          (SaysOfNumber(key, m, v) <=> SaysOfNumber(key, x, v) /\ SaysOfNumber(key, y, v))
    BY <1>3, <2>1, <2>4 DEF IsValue, SaysOfNumber, UpperBounds
  <2>6. v.kind = "string" =>
          (SaysOfString(key, m, v) <=> SaysOfString(key, x, v) /\ SaysOfString(key, y, v))
    BY <1>3, <2>1, <2>4 DEF IsValue, SaysOfString, UpperBounds
  <2>7. v.kind = "array" =>
          (SaysOfArray(key, m, v) <=> SaysOfArray(key, x, v) /\ SaysOfArray(key, y, v))
    <3>1. v.kind = "array" => Len(v.elements) \in Int
      BY DEF IsValue
    <3>2. QED
      BY <1>3, <2>1, <2>4, <3>1 DEF SaysOfArray, UpperBounds
  <2>8. v.kind = "object" =>
          (SaysOfObject(key, m, v, declared)
             <=> SaysOfObject(key, x, v, declared) /\ SaysOfObject(key, y, v, declared))
    <3>1. v.kind = "object" => Cardinality(DOMAIN v.members) \in Int
      BY FS_CardinalityType DEF IsValue
    <3>2. QED
      BY <1>3, <2>1, <2>4, <3>1 DEF SaysOfObject, UpperBounds
  <2>9. \A z : SaysOfAny(key, z, v, declared)
    BY <1>3 DEF SaysOfAny, UpperBounds
  <2>10. QED
    BY <2>5, <2>6, <2>7, <2>8, <2>9 DEF Says, m
<1>4. CASE x # y /\ key = "type"
  <2>1. m = MergeType(x, y)
    BY <1>4 DEF MergeKeyword, LowerBounds, UpperBounds, Annotations, Flags
  <2>2. {x, y} = {"integer", "number"} /\ m = "integer"
    BY <2>1 DEF MergeType
  <2> HIDE DEF m
  <2>3. IsOfType(v, m) <=> IsOfType(v, x) /\ IsOfType(v, y)
    BY <1>4, <2>2 DEF IsOfType, IsValue
  <2>4. \A z : Says(key, z, v, declared) <=> IsOfType(v, z)
    BY <1>4 DEF Says, SaysOfNumber, SaysOfString, SaysOfArray, SaysOfObject, SaysOfAny
  <2>5. QED
    BY <2>3, <2>4 DEF m
<1>5. CASE x # y /\ key = "multipleOf"
  <2>1. m = MergeMultipleOf(x, y) /\ x \in Whole \ {0} /\ y \in Whole \ {0}
    BY <1>5 DEF MergeKeyword, LowerBounds, UpperBounds, Annotations, KeyTyped, Flags
  <2>2. \A t \in Int : t % (2 * m) = 0 <=> t % (2 * x) = 0 /\ t % (2 * y) = 0
    BY <2>1, DivisorsMeet
  <2> HIDE DEF m
  <2>3. \A z : Says(key, z, v, declared) <=> (v.kind = "number" => v.twice % (2 * z) = 0)
    BY <1>5 DEF Says, SaysOfNumber, SaysOfString, SaysOfArray, SaysOfObject, SaysOfAny
  <2>4. v.kind = "number" => v.twice \in Int
    BY DEF IsValue
  <2>5. QED
    BY <2>2, <2>3, <2>4 DEF m
<1>6. CASE x # y /\ key = "uniqueItems"
  <2>1. m = (x \/ y) /\ x \in BOOLEAN /\ y \in BOOLEAN
    BY <1>6 DEF MergeKeyword, LowerBounds, UpperBounds, Annotations, KeyTyped, Flags
  <2> HIDE DEF m
  <2>2. \A z : Says(key, z, v, declared) <=> (v.kind = "array" => (z => IsInjective(v.elements)))
    BY <1>6 DEF Says, SaysOfNumber, SaysOfString, SaysOfArray, SaysOfObject, SaysOfAny
  <2>3. QED
    BY <2>1, <2>2 DEF m
<1>7. CASE x # y /\ key = "enum"
  <2>1. m = IntersectEnum(x, y)
    BY <1>7 DEF MergeKeyword, LowerBounds, UpperBounds, Annotations, Flags
  <2>2. m = x \cap y
    BY <2>1 DEF IntersectEnum
  <2> HIDE DEF m
  <2>3. \A z : Says(key, z, v, declared) <=> v \in z
    BY <1>7 DEF Says, SaysOfNumber, SaysOfString, SaysOfArray, SaysOfObject, SaysOfAny
  <2>4. QED
    BY <2>2, <2>3 DEF m
<1>8. CASE x # y /\ key = "format"
  <2>1. m = MergeFormats(x, y)
    BY <1>8 DEF MergeKeyword, LowerBounds, UpperBounds, Annotations, Flags
  <2>2. \/ m = x /\ << x, y >> \in Contained
        \/ m = y /\ << y, x >> \in Contained
    BY <2>1 DEF MergeFormats
  <2> HIDE DEF m
  <2>3. \A z : Says(key, z, v, declared) <=> (v.kind = "string" => z \in v.formats)
    BY <1>8 DEF Says, SaysOfNumber, SaysOfString, SaysOfArray, SaysOfObject, SaysOfAny
  <2>4. v.kind = "string" => \A p, q : << p, q >> \in Contained /\ p \in v.formats => q \in v.formats
    BY DEF IsValue
  <2>5. QED
    BY <2>2, <2>3, <2>4 DEF m
<1>9. CASE x # y /\ key = "required"
  <2>1. m = x \cup y
    BY <1>9 DEF MergeKeyword, LowerBounds, UpperBounds, Annotations, Flags
  <2> HIDE DEF m
  <2>2. \A z : Says(key, z, v, declared) <=> (v.kind = "object" => z \subseteq DOMAIN v.members)
    BY <1>9 DEF Says, SaysOfNumber, SaysOfString, SaysOfArray, SaysOfObject, SaysOfAny
  <2>3. QED
    BY <2>1, <2>2 DEF m
<1>10. CASE x # y /\ key = "dependentRequired"
  <2>1. m = MergeDependentRequired(x, y)
    BY <1>10 DEF MergeKeyword, LowerBounds, UpperBounds, Annotations, Flags
  <2> HIDE DEF m
  <2>2. \A z : Says(key, z, v, declared) <=>
               (v.kind = "object" => HasDependencies(z, DOMAIN v.members))
    BY <1>10 DEF Says, SaysOfNumber, SaysOfString, SaysOfArray, SaysOfObject, SaysOfAny
  <2>3. QED
    BY <2>1, <2>2, DependenciesMeet DEF m
<1>11. CASE key \in {"deprecated"} \cup Annotations
  <2>1. \A z : Says(key, z, v, declared)
    BY <1>11 DEF Says, SaysOfNumber, SaysOfString, SaysOfArray, SaysOfObject, SaysOfAny, Annotations
  <2>2. QED
    BY <2>1
<1>12. ASSUME x # y,
              key \notin LowerBounds \cup UpperBounds \cup Flags \cup Annotations
                           \cup {"type", "multipleOf", "enum", "format", "required", "dependentRequired"}
       PROVE  FALSE
  BY <1>12 DEF MergeKeyword
<1>13. QED
  <2> HIDE DEF m
  <2>1. CASE key \in Flags \cup Annotations
    BY <1>1, <1>6, <1>11, <2>1 DEF Flags, m
  <2>2. QED
    BY <1>1, <1>2, <1>3, <1>4, <1>5, <1>7, <1>8, <1>9, <1>10, <1>12, <2>1 DEF m

-----------------------------------------------------------------------------
(* In which order plain keywords are merged.                               *)

DependenciesAmong(names) == UNION { [ triggers -> SUBSET names ] : triggers \in SUBSET names }

(* The values that a keyword other than an annotation has.  The literals,  *)
(* the names of members, and what is not computed with (types, formats,    *)
(* patterns, constants and the like) may be anything.                      *)
PlainValues(key, kinds) ==
  CASE key \in LowerBounds \cup UpperBounds -> Int
    [] key = "multipleOf" -> Whole \ {0}
    [] key \in Flags -> BOOLEAN
    [] key = "enum" -> SUBSET kinds.literals
    [] key = "required" -> SUBSET kinds.names
    [] key = "dependentRequired" -> DependenciesAmong(kinds.names)
    [] OTHER -> kinds.others

Compared == { "type", "multipleOf", "enum", "format", "required", "dependentRequired" }
              \cup LowerBounds \cup UpperBounds \cup Flags \cup Annotations

(* The keywords apart, for each kind of merge that there is.               *)
LEMMA MergeKeywordIs ==
  ASSUME NEW key, NEW x, NEW y, x # y
  PROVE  /\ key \in LowerBounds \cup UpperBounds => MergeKeyword(key, x, y) = NumericExtreme(key, x, y)
         /\ key = "type" => MergeKeyword(key, x, y) = MergeType(x, y)
         /\ key = "multipleOf" => MergeKeyword(key, x, y) = MergeMultipleOf(x, y)
         /\ key \in Flags => MergeKeyword(key, x, y) = (x \/ y)
         /\ key = "enum" => MergeKeyword(key, x, y) = IntersectEnum(x, y)
         /\ key = "format" => MergeKeyword(key, x, y) = MergeFormats(x, y)
         /\ key = "required" => MergeKeyword(key, x, y) = x \cup y
         /\ key = "dependentRequired" => MergeKeyword(key, x, y) = MergeDependentRequired(x, y)
         /\ key \notin Compared => MergeKeyword(key, x, y) = Rejected
BY DEF MergeKeyword, Compared, LowerBounds, UpperBounds, Flags, Annotations

LEMMA PlainValuesAre ==
  ASSUME NEW key, NEW kinds
  PROVE  LET V == PlainValues(key, kinds)
         IN  /\ key \in LowerBounds \cup UpperBounds => V = Int
             /\ key = "multipleOf" => V = Whole \ {0}
             /\ key \in Flags => V = BOOLEAN
             /\ key = "enum" => V = SUBSET kinds.literals
             /\ key = "required" => V = SUBSET kinds.names
             /\ key = "dependentRequired" => V = DependenciesAmong(kinds.names)
             /\ key \in {"type", "format"} => V = kinds.others
BY DEF PlainValues, LowerBounds, UpperBounds, Flags

(* A positive multiple is no smaller.                                      *)
LEMMA MultipleIsLarger ==
  ASSUME NEW n \in Nat \ {0}, NEW d \in Nat \ {0}, Multiple(n, d) PROVE n >= d
<1>1. PICK k \in Int : n = d * k
  BY DEF Multiple
<1>2. k >= 1
  BY <1>1
<1>3. k - 1 \in Nat /\ d * (k - 1) \in Nat /\ d * k = d + d * (k - 1)
  <2>1. k - 1 \in Nat
    BY <1>2
  <2>2. \A a, b \in Nat : a * b \in Nat
    OBVIOUS
  <2>3. d * k = d + d * (k - 1)
    BY <1>1
  <2>4. QED
    BY <2>1, <2>2, <2>3
<1>4. QED
  BY <1>1, <1>3

(* Two positive numbers with the same multiples are one.                   *)
LEMMA SameMultiples ==
  ASSUME NEW a \in Nat \ {0}, NEW b \in Nat \ {0},
         \A n \in Int : Multiple(n, a) <=> Multiple(n, b)
  PROVE  a = b
<1>1. Multiple(a, a) /\ Multiple(b, b)
  BY a = a * 1, b = b * 1 DEF Multiple
<1>2. QED
  BY <1>1, MultipleIsLarger

(* The merged divisor, equal divisors included.  Divisors are kept apart   *)
(* only by a least common multiple that is out of range.                   *)
LEMMA MergedDivisor ==
  ASSUME NEW a \in Whole \ {0}, NEW b \in Whole \ {0}, Rejected \notin Whole \ {0}
  PROVE  LET m == MergeKeyword("multipleOf", a, b)
         IN  \/ /\ m \in Whole \ {0}
                /\ \A n \in Int : Multiple(n, m) <=> Multiple(n, a) /\ Multiple(n, b)
                /\ m <= SafeInteger \/ a = b
             \/ /\ m = Rejected
                /\ \A n \in 1 .. SafeInteger : ~ (Multiple(n, a) /\ Multiple(n, b))
<1> DEFINE m == MergeKeyword("multipleOf", a, b)
           lcm == (a \div Gcd[b][a]) * b
<1>1. CASE a = b
  BY <1>1 DEF MergeKeyword
<1>2. CASE a # b
  <2>1. m = MergeMultipleOf(a, b)
    BY <1>2, MergeKeywordIs
  <2>2. lcm \in Nat \ {0} /\ \A n \in Int : Multiple(n, lcm) <=> Multiple(n, a) /\ Multiple(n, b)
    BY LeastCommonMultiple
  <2>3. m = IF lcm <= LargestInteger /\ lcm <= SafeInteger THEN lcm ELSE Rejected
    BY <2>1 DEF MergeMultipleOf
  <2> HIDE DEF m, lcm
  <2>4. CASE lcm <= SafeInteger
    <3>1. m = lcm /\ m \in Whole \ {0}
      BY <2>2, <2>3, <2>4, LimitsAssumption DEF Whole
    <3>2. QED
      BY <2>2, <2>4, <3>1 DEF m
  <2>5. CASE ~ (lcm <= SafeInteger)
    <3>1. m = Rejected
      BY <2>3, <2>5
    <3>2. ASSUME NEW n \in 1 .. SafeInteger, Multiple(n, a), Multiple(n, b) PROVE FALSE
      <4>1. n \in Nat \ {0} /\ Multiple(n, lcm) /\ n <= SafeInteger /\ SafeInteger \in Nat
        BY <2>2, <3>2, LimitsAssumption
      <4>2. QED
        BY <2>2, <2>5, <4>1, MultipleIsLarger
    <3>3. QED
      BY <3>1, <3>2 DEF m
  <2>6. QED
    BY <2>4, <2>5
<1>3. QED
  BY <1>1, <1>2

(* Dependencies as demands: what each trigger brings along, if anything.   *)
LEMMA MergedDependencies ==
  ASSUME NEW names, NEW a \in DependenciesAmong(names), NEW b \in DependenciesAmong(names)
  PROVE  LET m == MergeDependentRequired(a, b)
         IN  /\ m \in DependenciesAmong(names) /\ DOMAIN m = DOMAIN a \cup DOMAIN b
             /\ \A trigger \in DOMAIN m :
                  \A name : name \in m[trigger] <=> \/ trigger \in DOMAIN a /\ name \in a[trigger]
                                                    \/ trigger \in DOMAIN b /\ name \in b[trigger]
<1> DEFINE m == MergeDependentRequired(a, b)
<1>1. PICK s \in SUBSET names : a \in [ s -> SUBSET names ]
  BY DEF DependenciesAmong
<1>2. PICK t \in SUBSET names : b \in [ t -> SUBSET names ]
  BY DEF DependenciesAmong
<1>3. m \in [ s \cup t -> SUBSET names ]
  BY <1>1, <1>2 DEF MergeDependentRequired
<1>4. s \cup t \in SUBSET names
  OBVIOUS
<1>5. \A trigger \in DOMAIN m :
        \A name : name \in m[trigger] <=> \/ trigger \in DOMAIN a /\ name \in a[trigger]
                                          \/ trigger \in DOMAIN b /\ name \in b[trigger]
  BY DEF MergeDependentRequired
<1>6. DOMAIN m = DOMAIN a \cup DOMAIN b
  BY DEF MergeDependentRequired
<1> HIDE DEF m
<1>7. m \in DependenciesAmong(names)
  BY <1>3, <1>4 DEF DependenciesAmong
<1>8. QED
  BY <1>5, <1>6, <1>7 DEF m

(* Two dependencies that demand the same are one.                          *)
LEMMA SameDependencies ==
  ASSUME NEW names, NEW a \in DependenciesAmong(names), NEW b \in DependenciesAmong(names),
         DOMAIN a = DOMAIN b,
         \A trigger \in DOMAIN a : \A name : name \in a[trigger] <=> name \in b[trigger]
  PROVE  a = b
<1>1. PICK s \in SUBSET names : a \in [ s -> SUBSET names ]
  BY DEF DependenciesAmong
<1>2. PICK t \in SUBSET names : b \in [ t -> SUBSET names ]
  BY DEF DependenciesAmong
<1>3. s = t
  BY <1>1, <1>2
<1>4. \A trigger \in s : a[trigger] = b[trigger]
  BY <1>1, <1>2, <1>3
<1>5. QED
  BY <1>1, <1>2, <1>3, <1>4

(* A table of formats that is an order with chains of containers.          *)
LEMMA FormatsAreOrdered ==
  \A a, b, c :
    /\ << a, b >> \in Contained /\ << b, a >> \in Contained => a = b
    /\ << a, b >> \in Contained /\ << b, c >> \in Contained => << a, c >> \in Contained
    /\ << a, b >> \in Contained /\ << a, c >> \in Contained /\ b # c =>
         << b, c >> \in Contained \/ << c, b >> \in Contained
<1>1. \A a, b : << a, b >>[1] = a /\ << a, b >>[2] = b
  OBVIOUS
<1>2. SUFFICES ASSUME NEW a, NEW b, NEW c
               PROVE  /\ << a, b >> \in Contained /\ << b, a >> \in Contained => a = b
                      /\ << a, b >> \in Contained /\ << b, c >> \in Contained => << a, c >> \in Contained
                      /\ << a, b >> \in Contained /\ << a, c >> \in Contained /\ b # c =>
                           << b, c >> \in Contained \/ << c, b >> \in Contained
  OBVIOUS
<1> DEFINE p(x, y) == << x, y >>
<1>3. p(a, b)[1] = a /\ p(a, b)[2] = b /\ p(b, a)[1] = b /\ p(b, a)[2] = a
      /\ p(b, c)[1] = b /\ p(b, c)[2] = c /\ p(a, c)[1] = a /\ p(a, c)[2] = c
  OBVIOUS
<1>4. \A q, r \in Contained :
        /\ q[1] = r[2] /\ q[2] = r[1] => q[1] = q[2]
        /\ q[2] = r[1] => p(q[1], r[2]) \in Contained
        /\ q[1] = r[1] /\ q[2] # r[2] => p(q[2], r[2]) \in Contained \/ p(r[2], q[2]) \in Contained
  BY ContainedAssumption
<1> HIDE DEF p
<1>5. p(a, b) \in Contained /\ p(b, a) \in Contained => a = b
  BY <1>3, <1>4
<1>6. p(a, b) \in Contained /\ p(b, c) \in Contained => p(a, c) \in Contained
  BY <1>3, <1>4
<1>7. p(a, b) \in Contained /\ p(a, c) \in Contained /\ b # c =>
        p(b, c) \in Contained \/ p(c, b) \in Contained
  BY <1>3, <1>4
<1>8. QED
  BY <1>5, <1>6, <1>7 DEF p

(* merge_extra_value, of two keywords in either order.                     *)
LEMMA KeywordsCommute ==
  ASSUME NEW kinds, NEW key, key \notin Annotations,
         NEW x \in PlainValues(key, kinds),
         NEW y \in PlainValues(key, kinds),
         Rejected \notin PlainValues(key, kinds)
  PROVE  /\ MergeKeyword(key, x, y) = MergeKeyword(key, y, x)
         /\ MergeKeyword(key, x, y) \in PlainValues(key, kinds) \cup {Rejected}
<1> DEFINE V == PlainValues(key, kinds)
           m == MergeKeyword(key, x, y)
           w == MergeKeyword(key, y, x)
<1>0. x \in V /\ y \in V /\ Rejected \notin V
  OBVIOUS
<1> HIDE DEF V
<1>1. CASE x = y
  BY <1>0, <1>1 DEF MergeKeyword, V
<1>2. CASE x # y
  <2> HIDE DEF m, w
  <2> SUFFICES m = w /\ m \in V \cup {Rejected}
    BY DEF m, w, V
  <2>1. CASE key \in LowerBounds \cup UpperBounds
    <3>1. x \in Int /\ y \in Int /\ V = Int
      BY <1>0, <2>1, PlainValuesAre DEF V
    <3>2. m = NumericExtreme(key, x, y) /\ w = NumericExtreme(key, y, x)
      BY <1>2, <2>1, MergeKeywordIs DEF m, w
    <3>3. LowerBounds \cap UpperBounds = {}
      BY DEF LowerBounds, UpperBounds
    <3>4. QED
      BY <2>1, <3>1, <3>2, <3>3 DEF NumericExtreme
  <2>2. CASE key = "type"
    <3>1. m = MergeType(x, y) /\ w = MergeType(y, x)
      BY <1>2, <2>2, MergeKeywordIs DEF m, w
    <3>2. {x, y} = {y, x}
      OBVIOUS
    <3>3. {x, y} = {"integer", "number"} => "integer" \in V
      BY <1>0
    <3>4. QED
      BY <3>1, <3>2, <3>3 DEF MergeType
  <2>3. CASE key = "multipleOf"
    <3>1. V = Whole \ {0}
      BY <2>3, PlainValuesAre DEF V
    <3>2. Whole \ {0} \subseteq Nat \ {0}
      BY LimitsAssumption DEF Whole
    <3>3. \/ /\ m \in Whole \ {0}
             /\ \A n \in Int : Multiple(n, m) <=> Multiple(n, x) /\ Multiple(n, y)
             /\ m <= SafeInteger
          \/ /\ m = Rejected
             /\ \A n \in 1 .. SafeInteger : ~ (Multiple(n, x) /\ Multiple(n, y))
      BY <1>0, <1>2, <2>3, <3>1, MergedDivisor DEF m
    <3>4. \/ /\ w \in Whole \ {0}
             /\ \A n \in Int : Multiple(n, w) <=> Multiple(n, x) /\ Multiple(n, y)
             /\ w <= SafeInteger
          \/ /\ w = Rejected
             /\ \A n \in 1 .. SafeInteger : ~ (Multiple(n, x) /\ Multiple(n, y))
      BY <1>0, <1>2, <2>3, <3>1, MergedDivisor DEF w
    <3>5. \A n \in Nat \ {0} : Multiple(n, n)
      <4>1. \A n \in Nat : n = n * 1
        OBVIOUS
      <4>2. QED
        BY <4>1 DEF Multiple
    <3>6. CASE m # Rejected /\ w # Rejected
      BY <3>1, <3>2, <3>3, <3>4, <3>6, SameMultiples
    <3>7. CASE m = Rejected /\ w # Rejected
      <4>1. w \in 1 .. SafeInteger
        BY <3>2, <3>4, <3>7, LimitsAssumption
      <4>2. QED
        BY <1>0, <3>1, <3>2, <3>3, <3>4, <3>5, <3>7, <4>1
    <3>8. CASE m # Rejected /\ w = Rejected
      <4>1. m \in 1 .. SafeInteger
        BY <3>2, <3>3, <3>8, LimitsAssumption
      <4>2. QED
        BY <1>0, <3>1, <3>2, <3>3, <3>4, <3>5, <3>8, <4>1
    <3>9. QED
      BY <3>6, <3>7, <3>8
  <2>4. CASE key \in Flags
    <3>1. V = BOOLEAN
      BY <2>4, PlainValuesAre DEF V
    <3>2. m = (x \/ y) /\ w = (y \/ x)
      BY <1>2, <2>4, MergeKeywordIs DEF m, w
    <3>3. QED
      BY <1>0, <3>1, <3>2
  <2>5. CASE key = "enum"
    <3>1. V = SUBSET kinds.literals
      BY <2>5, PlainValuesAre DEF V
    <3>2. m = IntersectEnum(x, y) /\ w = IntersectEnum(y, x) /\ x \cap y = y \cap x
      BY <1>2, <2>5, MergeKeywordIs DEF m, w
    <3>3. QED
      BY <1>0, <3>1, <3>2 DEF IntersectEnum
  <2>6. CASE key = "format"
    <3>1. m = MergeFormats(x, y) /\ w = MergeFormats(y, x)
      BY <1>2, <2>6, MergeKeywordIs DEF m, w
    <3>2. ~ (<< x, y >> \in Contained /\ << y, x >> \in Contained)
      BY <1>2, FormatsAreOrdered
    <3>3. QED
      BY <1>0, <3>1, <3>2 DEF MergeFormats
  <2>7. CASE key = "required"
    <3>1. V = SUBSET kinds.names
      BY <2>7, PlainValuesAre DEF V
    <3>2. m = x \cup y /\ w = y \cup x
      BY <1>2, <2>7, MergeKeywordIs DEF m, w
    <3>3. QED
      BY <1>0, <3>1, <3>2
  <2>8. CASE key = "dependentRequired"
    <3>1. V = DependenciesAmong(kinds.names)
      BY <2>8, PlainValuesAre DEF V
    <3>2. m = MergeDependentRequired(x, y) /\ w = MergeDependentRequired(y, x)
      BY <1>2, <2>8, MergeKeywordIs DEF m, w
    <3>3. /\ m \in V /\ DOMAIN m = DOMAIN x \cup DOMAIN y
          /\ \A trigger \in DOMAIN m :
               \A name : name \in m[trigger] <=> \/ trigger \in DOMAIN x /\ name \in x[trigger]
                                                 \/ trigger \in DOMAIN y /\ name \in y[trigger]
      BY <1>0, <3>1, <3>2, MergedDependencies
    <3>4. /\ w \in V /\ DOMAIN w = DOMAIN y \cup DOMAIN x
          /\ \A trigger \in DOMAIN w :
               \A name : name \in w[trigger] <=> \/ trigger \in DOMAIN y /\ name \in y[trigger]
                                                 \/ trigger \in DOMAIN x /\ name \in x[trigger]
      BY <1>0, <3>1, <3>2, MergedDependencies
    <3>5. DOMAIN m = DOMAIN w
      BY <3>3, <3>4
    <3>6. \A trigger \in DOMAIN m : \A name : name \in m[trigger] <=> name \in w[trigger]
      BY <3>3, <3>4, <3>5
    <3>7. m = w
      BY <3>1, <3>3, <3>4, <3>5, <3>6, SameDependencies
    <3>8. QED
      BY <3>3, <3>7
  <2>9. CASE key \notin Compared
    BY <1>2, <2>9, MergeKeywordIs DEF m, w
  <2>10. QED
    BY <2>1, <2>2, <2>3, <2>4, <2>5, <2>6, <2>7, <2>8, <2>9 DEF Compared
<1>3. QED
  BY <1>1, <1>2

(* A third value, after two have been merged.                              *)
ThirdKeyword(key, merged, z) ==
  IF merged = Rejected THEN Rejected ELSE MergeKeyword(key, merged, z)

(* Divisors that merge in one order merge in the next.                     *)
LEMMA DivisorsRotate ==
  ASSUME NEW x \in Whole \ {0}, NEW y \in Whole \ {0}, NEW z \in Whole \ {0},
         Rejected \notin Whole \ {0},
         ThirdKeyword("multipleOf", MergeKeyword("multipleOf", x, y), z) # Rejected
  PROVE  ThirdKeyword("multipleOf", MergeKeyword("multipleOf", y, z), x)
           = ThirdKeyword("multipleOf", MergeKeyword("multipleOf", x, y), z)
<1> DEFINE M(a, b) == MergeKeyword("multipleOf", a, b)
           p == M(x, y)
           l == M(p, z)
           q == M(y, z)
           r == M(q, x)
           IsMerge(m, a, b) ==
             /\ m \in Whole \ {0}
             /\ \A n \in Int : Multiple(n, m) <=> Multiple(n, a) /\ Multiple(n, b)
             /\ m <= SafeInteger \/ a = b
           AreApart(m, a, b) ==
             /\ m = Rejected
             /\ \A n \in 1 .. SafeInteger : ~ (Multiple(n, a) /\ Multiple(n, b))
<1>1. \A a, b \in Whole \ {0} : IsMerge(M(a, b), a, b) \/ AreApart(M(a, b), a, b)
  BY MergedDivisor
<1>2. \A a \in Whole \ {0} : M(a, a) = a
  BY DEF MergeKeyword
<1>3. p # Rejected /\ l # Rejected
  BY DEF ThirdKeyword
<1>4. Whole \ {0} \subseteq Nat \ {0} /\ SafeInteger \in Nat
  BY LimitsAssumption DEF Whole
<1> HIDE DEF M
<1>5. IsMerge(p, x, y)
  BY <1>1, <1>3
<1>6. IsMerge(l, p, z)
  BY <1>1, <1>3, <1>5
<1>7. CASE x = y /\ y = z
  <2>1. p = x /\ l = x /\ q = x /\ r = x
    BY <1>2, <1>7
  <2>2. QED
    BY <1>3, <2>1 DEF ThirdKeyword, M
<1>8. CASE ~ (x = y /\ y = z)
  <2>1. l <= SafeInteger
    <3>1. CASE p = z
      <4>1. l = p
        BY <1>2, <1>5, <3>1
      <4>2. p <= SafeInteger
        <5>1. x = y => p = x
          BY <1>2
        <5>2. QED
          BY <1>5, <1>8, <3>1, <5>1
      <4>3. QED
        BY <4>1, <4>2
    <3>2. CASE p # z
      BY <1>6, <3>2
    <3>3. QED
      BY <3>1, <3>2
  <2>2. l \in 1 .. SafeInteger
    BY <1>4, <1>6, <2>1
  <2>3. \A n \in Int : Multiple(n, l) <=> Multiple(n, x) /\ Multiple(n, y) /\ Multiple(n, z)
    BY <1>5, <1>6
  <2>4. Multiple(l, l)
    <3>1. l = l * 1
      BY <2>2
    <3>2. QED
      BY <3>1 DEF Multiple
  <2>5. l \in Int
    BY <2>2
  <2>6. Multiple(l, x) /\ Multiple(l, y) /\ Multiple(l, z)
    BY <2>3, <2>4, <2>5
  <2> HIDE DEF p, l, q, r
  <2>7. IsMerge(q, y, z)
    BY <1>1, <2>2, <2>6 DEF q
  <2>8. q \in Whole \ {0} /\ Multiple(l, q)
    BY <2>5, <2>6, <2>7
  <2>9. IsMerge(r, q, x)
    <3>1. IsMerge(r, q, x) \/ AreApart(r, q, x)
      BY <1>1, <2>8 DEF r
    <3>2. QED
      BY <2>2, <2>6, <2>8, <3>1
  <2>10. \A n \in Int : Multiple(n, r) <=> Multiple(n, l)
    BY <2>3, <2>7, <2>9
  <2>11. r = l
    <3>1. r \in Nat \ {0} /\ l \in Nat \ {0}
      BY <1>4, <1>6, <2>9
    <3>2. QED
      BY <2>10, <3>1, SameMultiples
  <2>12. q # Rejected
    BY <2>8
  <2>13. QED
    BY <1>3, <2>11, <2>12 DEF ThirdKeyword, p, l, q, r, M
<1>9. QED
  BY <1>7, <1>8

(* So do the values of any keyword.                                        *)
LEMMA KeywordsRotate ==
  ASSUME NEW kinds, NEW key, key \notin Annotations,
         NEW x \in PlainValues(key, kinds),
         NEW y \in PlainValues(key, kinds),
         NEW z \in PlainValues(key, kinds),
         Rejected \notin PlainValues(key, kinds),
         ThirdKeyword(key, MergeKeyword(key, x, y), z) # Rejected
  PROVE  ThirdKeyword(key, MergeKeyword(key, y, z), x)
           = ThirdKeyword(key, MergeKeyword(key, x, y), z)
<1> DEFINE V == PlainValues(key, kinds)
           M(a, b) == MergeKeyword(key, a, b)
           p == M(x, y)
           l == M(p, z)
           q == M(y, z)
           r == M(q, x)
<1>0. x \in V /\ y \in V /\ z \in V /\ Rejected \notin V
  OBVIOUS
<1> HIDE DEF V
<1>1. p # Rejected /\ l # Rejected
  BY DEF ThirdKeyword
<1>2. \A a : M(a, a) = a
  BY DEF MergeKeyword
<1>3. \A a, b \in V : M(a, b) \in V \cup {Rejected}
  BY <1>0, KeywordsCommute DEF V
<1>4. \A a, b : a # b =>
        /\ key \in LowerBounds \cup UpperBounds => M(a, b) = NumericExtreme(key, a, b)
        /\ key = "type" => M(a, b) = MergeType(a, b)
        /\ key \in Flags => M(a, b) = (a \/ b)
        /\ key = "enum" => M(a, b) = IntersectEnum(a, b)
        /\ key = "format" => M(a, b) = MergeFormats(a, b)
        /\ key = "required" => M(a, b) = a \cup b
        /\ key = "dependentRequired" => M(a, b) = MergeDependentRequired(a, b)
        /\ key \notin Compared => M(a, b) = Rejected
  BY MergeKeywordIs
<1> HIDE DEF M
<1>5. p \in V /\ l \in V
  BY <1>0, <1>1, <1>3
<1>6. CASE key = "multipleOf"
  <2>1. V = Whole \ {0}
    BY <1>6, PlainValuesAre DEF V
  <2>2. QED
    BY <1>0, <1>6, <2>1, DivisorsRotate
<1>7. ASSUME key # "multipleOf" PROVE q # Rejected /\ r = l
  <2>1. CASE key \in LowerBounds \cup UpperBounds
    <3>1. V = Int
      BY <2>1, PlainValuesAre DEF V
    <3>2. CASE key \in LowerBounds
      <4>1. key \notin UpperBounds
        BY <3>2 DEF LowerBounds, UpperBounds
      <4>2. \A a, b \in Int : M(a, b) = IF a >= b THEN a ELSE b
        BY <1>2, <1>4, <3>2, <4>1 DEF NumericExtreme
      <4>3. q = IF y >= z THEN y ELSE z
        BY <1>0, <3>1, <4>2
      <4>4. p = IF x >= y THEN x ELSE y
        BY <1>0, <3>1, <4>2
      <4> HIDE DEF p, q
      <4>5. q \in V /\ l = (IF p >= z THEN p ELSE z) /\ r = IF q >= x THEN q ELSE x
        BY <1>0, <1>5, <3>1, <4>2, <4>3
      <4>6. QED
        BY <1>0, <3>1, <4>3, <4>4, <4>5
    <3>3. CASE key \in UpperBounds
      <4>1. key \notin LowerBounds
        BY <3>3 DEF LowerBounds, UpperBounds
      <4>2. \A a, b \in Int : M(a, b) = IF a <= b THEN a ELSE b
        BY <1>2, <1>4, <3>3, <4>1 DEF NumericExtreme
      <4>3. q = IF y <= z THEN y ELSE z
        BY <1>0, <3>1, <4>2
      <4>4. p = IF x <= y THEN x ELSE y
        BY <1>0, <3>1, <4>2
      <4> HIDE DEF p, q
      <4>5. q \in V /\ l = (IF p <= z THEN p ELSE z) /\ r = IF q <= x THEN q ELSE x
        BY <1>0, <1>5, <3>1, <4>2, <4>3
      <4>6. QED
        BY <1>0, <3>1, <4>3, <4>4, <4>5
    <3>4. QED
      BY <2>1, <3>2, <3>3
  <2>2. CASE key = "type"
    <3>1. \A a, b \in V : M(a, b) # Rejected =>
            \/ a = b /\ M(a, b) = a
            \/ {a, b} = {"integer", "number"} /\ M(a, b) = "integer"
      BY <1>2, <1>4, <2>2 DEF MergeType
    <3>2. \A a, b \in V : {a, b} = {"integer", "number"} => M(a, b) = "integer"
      BY <1>4, <2>2 DEF MergeType
    <3>3. \A a, b \in V : a = b => M(a, b) = a
      BY <1>2
    <3>4. CASE x = y /\ y = z
      BY <1>0, <1>1, <3>3, <3>4
    <3>5. CASE ~ (x = y /\ y = z)
      <4>1. x \in {"integer", "number"} /\ y \in {"integer", "number"} /\ z \in {"integer", "number"}
        BY <1>0, <1>1, <1>5, <3>1, <3>5
      <4>2. \A a, b \in {"integer", "number"} :
              a \in V /\ b \in V => M(a, b) = IF a = "number" /\ b = "number" THEN a ELSE "integer"
        BY <3>2, <3>3
      <4>3. QED
        BY <1>0, <1>1, <1>5, <3>5, <4>1, <4>2
    <3>6. QED
      BY <3>4, <3>5
  <2>3. CASE key \in Flags
    <3>1. V = BOOLEAN
      BY <2>3, PlainValuesAre DEF V
    <3>2. \A a, b \in BOOLEAN : M(a, b) = (a \/ b)
      BY <1>2, <1>4, <2>3
    <3>3. q = (y \/ z) /\ p = (x \/ y)
      BY <1>0, <3>1, <3>2
    <3>4. q \in BOOLEAN /\ p \in BOOLEAN
      BY <3>3
    <3> HIDE DEF p, q
    <3>5. r = (q \/ x) /\ l = (p \/ z)
      BY <1>0, <3>1, <3>2, <3>4
    <3>6. r = l
      BY <1>0, <3>1, <3>3, <3>5
    <3>7. QED
      BY <1>0, <3>1, <3>4, <3>6
  <2>4. CASE key = "enum"
    <3>1. V = SUBSET kinds.literals
      BY <2>4, PlainValuesAre DEF V
    <3>2. \A a, b \in V : M(a, b) = IF a \cap b = {} /\ a # b THEN Rejected ELSE a \cap b
      BY <1>2, <1>4, <2>4 DEF IntersectEnum
    <3>3. p = x \cap y /\ ~ (x \cap y = {} /\ x # y)
      BY <1>0, <1>1, <3>2
    <3>4. l = p \cap z /\ ~ (p \cap z = {} /\ p # z)
      BY <1>0, <1>1, <1>5, <3>2
    <3> HIDE DEF p, l
    <3>5. ~ (y \cap z = {} /\ y # z)
      BY <3>3, <3>4
    <3>6. q = y \cap z
      BY <1>0, <3>2, <3>5
    <3>7. q \in V /\ ~ (q \cap x = {} /\ q # x)
      BY <1>0, <3>1, <3>3, <3>4, <3>6
    <3> HIDE DEF q
    <3>8. r = q \cap x
      BY <1>0, <3>2, <3>7
    <3>9. (y \cap z) \cap x = (x \cap y) \cap z
      OBVIOUS
    <3>10. QED
      BY <1>0, <3>3, <3>4, <3>6, <3>7, <3>8, <3>9
  <2>5. CASE key = "format"
    <3> DEFINE In(a, b) == a = b \/ << a, b >> \in Contained
    <3>1. \A a, b : M(a, b) = IF In(a, b) THEN a ELSE IF In(b, a) THEN b ELSE Rejected
      <4> SUFFICES ASSUME NEW a, NEW b
                   PROVE  M(a, b) = IF In(a, b) THEN a ELSE IF In(b, a) THEN b ELSE Rejected
        OBVIOUS
      <4>1. CASE a = b
        BY <1>2, <4>1
      <4>2. CASE a # b
        BY <1>4, <2>5, <4>2 DEF MergeFormats
      <4>3. QED
        BY <4>1, <4>2
    <3>2. \A a, b, c : /\ In(a, b) /\ In(b, a) => a = b
                       /\ In(a, b) /\ In(b, c) => In(a, c)
                       /\ In(a, b) /\ In(a, c) => In(b, c) \/ In(c, b)
      BY FormatsAreOrdered
    <3> HIDE DEF In
    <3>3. \/ p = x /\ In(x, y)
          \/ p = y /\ In(y, x)
      BY <1>1, <3>1
    <3>4. \/ l = p /\ In(p, z)
          \/ l = z /\ In(z, p)
      BY <1>1, <3>1
    <3> HIDE DEF p, l
    <3>5. In(l, x) /\ In(l, y) /\ In(l, z) /\ l \in {x, y, z} /\ \A a : In(a, a)
      <4>1. \A a : In(a, a)
        BY DEF In
      <4>2. QED
        BY <3>2, <3>3, <3>4, <4>1
    <3>6. \/ q = y /\ In(y, z)
          \/ q = z /\ In(z, y)
      BY <3>1, <3>2, <3>5
    <3> HIDE DEF q
    <3>7. In(l, q) /\ q \in V
      BY <1>0, <3>5, <3>6
    <3>8. \/ r = q /\ In(q, x)
          \/ r = x /\ In(x, q)
      BY <3>1, <3>2, <3>5, <3>7
    <3> HIDE DEF r
    <3>9. In(l, r) /\ In(r, x) /\ In(r, y) /\ In(r, z)
      BY <3>2, <3>5, <3>6, <3>7, <3>8
    <3>10. In(r, l)
      BY <3>5, <3>9
    <3>11. QED
      BY <1>0, <3>2, <3>7, <3>9, <3>10
  <2>6. CASE key = "required"
    <3>1. V = SUBSET kinds.names
      BY <2>6, PlainValuesAre DEF V
    <3>2. \A a, b : M(a, b) = a \cup b
      BY <1>2, <1>4, <2>6
    <3>3. q = y \cup z /\ q \in V
      BY <1>0, <3>1, <3>2
    <3>4. r = (y \cup z) \cup x /\ l = (x \cup y) \cup z
      BY <3>2
    <3>5. QED
      BY <1>0, <3>3, <3>4
  <2>7. CASE key = "dependentRequired"
    <3>1. V = DependenciesAmong(kinds.names)
      BY <2>7, PlainValuesAre DEF V
    <3>2. \A a, b \in V :
            /\ M(a, b) \in V /\ DOMAIN M(a, b) = DOMAIN a \cup DOMAIN b
            /\ \A trigger \in DOMAIN M(a, b) :
                 \A name : name \in M(a, b)[trigger]
                             <=> \/ trigger \in DOMAIN a /\ name \in a[trigger]
                                 \/ trigger \in DOMAIN b /\ name \in b[trigger]
      <4> SUFFICES ASSUME NEW a \in V, NEW b \in V
                   PROVE  /\ M(a, b) \in V /\ DOMAIN M(a, b) = DOMAIN a \cup DOMAIN b
                          /\ \A trigger \in DOMAIN M(a, b) :
                               \A name : name \in M(a, b)[trigger]
                                           <=> \/ trigger \in DOMAIN a /\ name \in a[trigger]
                                               \/ trigger \in DOMAIN b /\ name \in b[trigger]
        OBVIOUS
      <4>1. CASE a = b
        BY <1>2, <4>1
      <4>2. CASE a # b
        <5>1. M(a, b) = MergeDependentRequired(a, b)
          BY <1>4, <2>7, <4>2
        <5>2. a \in DependenciesAmong(kinds.names) /\ b \in DependenciesAmong(kinds.names)
          BY <3>1
        <5> DEFINE w == MergeDependentRequired(a, b)
        <5>3. /\ w \in DependenciesAmong(kinds.names) /\ DOMAIN w = DOMAIN a \cup DOMAIN b
              /\ \A trigger \in DOMAIN w :
                   \A name : name \in w[trigger] <=> \/ trigger \in DOMAIN a /\ name \in a[trigger]
                                                     \/ trigger \in DOMAIN b /\ name \in b[trigger]
          BY <5>2, MergedDependencies
        <5>4. M(a, b) = w
          BY <5>1
        <5> HIDE DEF w
        <5>5. QED
          BY <3>1, <5>3, <5>4
      <4>3. QED
        BY <4>1, <4>2
    <3> DEFINE Demands(d, trigger, name) == trigger \in DOMAIN d /\ name \in d[trigger]
    <3>3. \A a, b \in V : /\ M(a, b) \in V /\ DOMAIN M(a, b) = DOMAIN a \cup DOMAIN b
                          /\ \A trigger, name : Demands(M(a, b), trigger, name)
                               <=> Demands(a, trigger, name) \/ Demands(b, trigger, name)
      BY <3>2
    <3> HIDE DEF Demands
    <3>4. /\ q \in V /\ DOMAIN q = DOMAIN y \cup DOMAIN z
          /\ \A trigger, name : Demands(q, trigger, name)
               <=> Demands(y, trigger, name) \/ Demands(z, trigger, name)
      BY <1>0, <3>3
    <3>5. /\ DOMAIN p = DOMAIN x \cup DOMAIN y
          /\ \A trigger, name : Demands(p, trigger, name)
               <=> Demands(x, trigger, name) \/ Demands(y, trigger, name)
      BY <1>0, <3>3
    <3> HIDE DEF p, q
    <3> HIDE DEF l, r
    <3>6. /\ r \in V /\ DOMAIN r = DOMAIN q \cup DOMAIN x
          /\ \A trigger, name : Demands(r, trigger, name)
               <=> Demands(q, trigger, name) \/ Demands(x, trigger, name)
      BY <1>0, <3>3, <3>4 DEF r
    <3>7. /\ DOMAIN l = DOMAIN p \cup DOMAIN z
           /\ \A trigger, name : Demands(l, trigger, name)
                <=> Demands(p, trigger, name) \/ Demands(z, trigger, name)
      BY <1>0, <1>5, <3>3 DEF l
    <3>8. /\ r \in V /\ DOMAIN r = DOMAIN l
          /\ \A trigger, name : Demands(r, trigger, name) <=> Demands(l, trigger, name)
      BY <3>4, <3>5, <3>6, <3>7
    <3>9. \A trigger \in DOMAIN r : \A name : name \in r[trigger] <=> name \in l[trigger]
      BY <3>8 DEF Demands
    <3>10. r = l
      BY <1>5, <3>1, <3>8, <3>9, SameDependencies
    <3>11. QED
      BY <1>0, <3>4, <3>10
  <2>8. CASE key \notin Compared
    <3>1. \A a, b : M(a, b) # Rejected => a = b
      BY <1>4, <2>8
    <3>2. QED
      BY <1>0, <1>1, <1>2, <3>1
  <2>9. QED
    BY <1>7, <2>1, <2>2, <2>3, <2>4, <2>5, <2>6, <2>7, <2>8 DEF Compared, Annotations
<1>8. CASE key # "multipleOf"
  <2>1. q # Rejected /\ r = l
    BY <1>7, <1>8
  <2>2. QED
    BY <1>1, <2>1 DEF ThirdKeyword, M
<1>9. QED
  BY <1>6, <1>8

(* merge_extra_value: the values of a keyword may come in any order and be *)
(* merged in any grouping; they are merged into the same, or rejected, no  *)
(* matter which two meet first.  (An annotation is the last one's.)        *)
THEOREM PlainKeywordsInAnyOrder ==
  ASSUME NEW kinds, NEW key, key \notin Annotations,
         NEW x \in PlainValues(key, kinds),
         NEW y \in PlainValues(key, kinds),
         NEW z \in PlainValues(key, kinds),
         Rejected \notin PlainValues(key, kinds)
  PROVE  /\ MergeKeyword(key, x, y) = MergeKeyword(key, y, x)
         /\ ThirdKeyword(key, MergeKeyword(key, x, y), z)
              = ThirdKeyword(key, MergeKeyword(key, y, z), x)
<1> DEFINE V == PlainValues(key, kinds)
           All(a, b, c) == ThirdKeyword(key, MergeKeyword(key, a, b), c)
<1>1. MergeKeyword(key, x, y) = MergeKeyword(key, y, x)
  BY KeywordsCommute
<1>2. \A a, b, c \in V : All(a, b, c) # Rejected => All(b, c, a) = All(a, b, c)
  BY KeywordsRotate
<1> HIDE DEF All
<1>3. All(x, y, z) = All(y, z, x)
  BY <1>2
<1>4. QED
  BY <1>1, <1>3 DEF All

-----------------------------------------------------------------------------
(* merge_two and finalize_merged.                                          *)

(* WellTyped, keyword by keyword.                                          *)
LEMMA WellTypedIs ==
  ASSUME NEW schema
  PROVE  WellTyped(schema) <=> \A key \in DOMAIN schema : KeyTyped(key, schema[key])
BY DEF WellTyped, KeyTyped, Has, LowerBounds, UpperBounds

(* What is not rejected has no part that is.                               *)
LEMMA OrRejectedIs ==
  ASSUME NEW parts, OrRejected(parts) # Rejected
  PROVE  OrRejected(parts) = parts /\ \A part \in DOMAIN parts : parts[part] # Rejected
BY DEF OrRejected

(* A merged keyword is typed as both of them are.                          *)
LEMMA TypesMeet ==
  ASSUME NEW key, NEW x, NEW y, KeyTyped(key, x), KeyTyped(key, y),
         MergeKeyword(key, x, y) # Rejected
  PROVE  KeyTyped(key, MergeKeyword(key, x, y))
<1> DEFINE m == MergeKeyword(key, x, y)
<1>1. CASE x = y
  BY <1>1 DEF MergeKeyword
<1>2. CASE x # y /\ key \in LowerBounds \cup UpperBounds
  <2>1. m = NumericExtreme(key, x, y) /\ x \in Int /\ y \in Int
    BY <1>2 DEF MergeKeyword, LowerBounds, UpperBounds, Annotations, Flags, KeyTyped
  <2>2. m \in Int /\ key # "multipleOf" /\ key # "uniqueItems"
    BY <1>2, <2>1 DEF NumericExtreme, LowerBounds, UpperBounds
  <2>3. QED
    BY <2>2 DEF KeyTyped
<1>3. CASE x # y /\ key = "multipleOf"
  <2>1. m = MergeMultipleOf(x, y) /\ x \in Whole \ {0} /\ y \in Whole \ {0}
    BY <1>3 DEF MergeKeyword, LowerBounds, UpperBounds, Annotations, KeyTyped, Flags
  <2>2. m \in Whole \ {0}
    BY <2>1, DivisorsMeet
  <2>3. QED
    BY <1>3, <2>2 DEF KeyTyped, LowerBounds, UpperBounds
<1>4. CASE x # y /\ key = "uniqueItems"
  <2>1. m = (x \/ y)
    BY <1>4 DEF MergeKeyword, LowerBounds, UpperBounds, Annotations, Flags
  <2>2. QED
    BY <1>4, <2>1 DEF KeyTyped, LowerBounds, UpperBounds
<1>5. CASE key \notin LowerBounds \cup UpperBounds \cup {"multipleOf", "uniqueItems"}
  BY <1>5 DEF KeyTyped
<1>6. QED
  BY <1>1, <1>2, <1>3, <1>4, <1>5

(* Both keywords, where both schemas have them, and otherwise the one.     *)
IsMerged(m, a, b) ==
  /\ DOMAIN m = DOMAIN a \cup DOMAIN b
  /\ \A key \in DOMAIN a \ DOMAIN b : m[key] = a[key]
  /\ \A key \in DOMAIN b \ DOMAIN a : m[key] = b[key]
  /\ \A key \in DOMAIN a \cap DOMAIN b :
       m[key] = MergeValue(key, a[key], b[key]) /\ m[key] # Rejected

(* merge_two, keyword by keyword.                                          *)
LEMMA MergeTwoIs ==
  ASSUME NEW a, NEW b, MergeTwo(a, b) # Rejected
  PROVE  IsMerged(MergeTwo(a, b), a, b)
<1> DEFINE parts == [ key \in DOMAIN a \cup DOMAIN b |->
                        CASE ~ Has(b, key) -> a[key]
                          [] ~ Has(a, key) -> b[key]
                          [] OTHER -> MergeValue(key, a[key], b[key]) ]
<1>1. MergeTwo(a, b) = OrRejected(parts)
  BY DEF MergeTwo
<1>2. /\ \A key \in DOMAIN a \ DOMAIN b : parts[key] = a[key]
      /\ \A key \in DOMAIN b \ DOMAIN a : parts[key] = b[key]
      /\ \A key \in DOMAIN a \cap DOMAIN b : parts[key] = MergeValue(key, a[key], b[key])
  BY DEF Has
<1>3. DOMAIN parts = DOMAIN a \cup DOMAIN b
  OBVIOUS
<1> HIDE DEF parts
<1>4. MergeTwo(a, b) = parts /\ \A key \in DOMAIN parts : parts[key] # Rejected
  BY <1>1, OrRejectedIs
<1>5. QED
  BY <1>2, <1>3, <1>4 DEF IsMerged

(* If each common keyword says what both say, so does the schema.          *)
LEMMA MergeMeets ==
  ASSUME NEW a, NEW b, MergeTwo(a, b) # Rejected, NEW v, NEW declared,
         \A key \in DOMAIN a \cap DOMAIN b :
           MergeValue(key, a[key], b[key]) # Rejected =>
             (Says(key, MergeValue(key, a[key], b[key]), v, declared)
                <=> Says(key, a[key], v, declared) /\ Says(key, b[key], v, declared))
  PROVE  Apart(MergeTwo(a, b), v, declared) <=> Apart(a, v, declared) /\ Apart(b, v, declared)
<1> DEFINE m == MergeTwo(a, b)
<1>0. IsMerged(m, a, b)
  BY MergeTwoIs
<1> HIDE DEF m
<1>1. /\ DOMAIN m = DOMAIN a \cup DOMAIN b
      /\ \A key \in DOMAIN a \ DOMAIN b : m[key] = a[key]
      /\ \A key \in DOMAIN b \ DOMAIN a : m[key] = b[key]
      /\ \A key \in DOMAIN a \cap DOMAIN b :
           m[key] = MergeValue(key, a[key], b[key]) /\ m[key] # Rejected
  BY <1>0 DEF IsMerged
<1>2. ASSUME NEW key \in DOMAIN a \cap DOMAIN b
      PROVE  Says(key, m[key], v, declared)
               <=> Says(key, a[key], v, declared) /\ Says(key, b[key], v, declared)
  BY <1>1
<1>3. QED
  BY <1>1, <1>2 DEF Apart, m

(* What finalize_merged leaves of a schema.                                *)
LEMMA FinalizeIs ==
  ASSUME NEW schema, FinalizeMerged(schema) # Rejected
  PROVE  \E drop :
           /\ FinalizeMerged(schema) = Without(schema, drop)
           /\ drop \subseteq {"enum"} \cup Dominated(schema) /\ Dominated(schema) \subseteq drop
           /\ "enum" \in drop => /\ Has(schema, "const") /\ Has(schema, "enum")
                                 /\ schema["const"] \in schema["enum"]
<1>1. "enum" \notin Dominated(schema)
  BY DEF Dominated
<1>2. CASE Has(schema, "const") /\ Has(schema, "enum")
  <2>1. /\ FinalizeMerged(schema) = Without(schema, {"enum"} \cup Dominated(schema))
        /\ schema["const"] \in schema["enum"]
    BY <1>2 DEF FinalizeMerged
  <2>2. QED
    BY <1>2, <2>1
<1>3. CASE ~ (Has(schema, "const") /\ Has(schema, "enum"))
  <2>1. FinalizeMerged(schema) = Without(schema, Dominated(schema))
    BY <1>3 DEF FinalizeMerged
  <2>2. QED
    BY <1>1, <2>1
<1>4. QED
  BY <1>2, <1>3

(* A schema without some of its keywords.                                  *)
LEMMA WithoutIs ==
  ASSUME NEW schema, NEW keys
  PROVE  /\ DOMAIN Without(schema, keys) = DOMAIN schema \ keys
         /\ \A key \in DOMAIN schema \ keys : Without(schema, keys)[key] = schema[key]
BY DEF Without

(* Of a pair of bounds, the one that stays says as much as the other.      *)
LEMMA StrongerBoundStays ==
  ASSUME NEW schema, WellTyped(schema), NEW v, IsValue(v), NEW declared,
         \A key \in DOMAIN schema \ Dominated(schema) : Says(key, schema[key], v, declared)
            \/ key = "enum",
         NEW key \in Dominated(schema)
  PROVE  Says(key, schema[key], v, declared)
<1> DEFINE x(k) == schema[k]
<1>1. key \in {"minimum", "exclusiveMinimum", "maximum", "exclusiveMaximum"} /\ Has(schema, key)
  BY DEF Dominated, Has
<1>2. \A k \in {"minimum", "exclusiveMinimum", "maximum", "exclusiveMaximum"} :
        Has(schema, k) => x(k) \in Int
  BY DEF WellTyped, LowerBounds, UpperBounds, Has
<1>3. v.kind = "number" => v.twice \in Int
  BY DEF IsValue
<1>4. \A k \in {"minimum", "exclusiveMinimum", "maximum", "exclusiveMaximum"} :
        Says(k, x(k), v, declared) <=> (v.kind = "number" => SaysOfNumber(k, x(k), v))
  BY DEF Says, SaysOfString, SaysOfArray, SaysOfObject, SaysOfAny
<1>5. \A k \in {"minimum", "exclusiveMinimum", "maximum", "exclusiveMaximum"} :
        Has(schema, k) /\ k \notin Dominated(schema) => Says(k, x(k), v, declared)
  BY DEF Has
<1>6. /\ SaysOfNumber("minimum", x("minimum"), v) <=> v.twice >= 2 * x("minimum")
      /\ SaysOfNumber("exclusiveMinimum", x("exclusiveMinimum"), v) <=> v.twice > 2 * x("exclusiveMinimum")
      /\ SaysOfNumber("maximum", x("maximum"), v) <=> v.twice <= 2 * x("maximum")
      /\ SaysOfNumber("exclusiveMaximum", x("exclusiveMaximum"), v) <=> v.twice < 2 * x("exclusiveMaximum")
  BY DEF SaysOfNumber
<1> HIDE DEF x
<1>7. CASE key = "minimum"
  <2>1. Has(schema, "exclusiveMinimum") /\ x("exclusiveMinimum") >= x("minimum")
    BY <1>7 DEF Dominated, x
  <2>2. x("exclusiveMinimum") \in Int /\ x("minimum") \in Int
    BY <1>1, <1>2, <1>7, <2>1
  <2>3. "exclusiveMinimum" \notin Dominated(schema)
    BY <2>1, <2>2 DEF Dominated, x
  <2>4. QED
    BY <1>3, <1>4, <1>5, <1>6, <1>7, <2>1, <2>2, <2>3 DEF x
<1>8. CASE key = "exclusiveMinimum"
  <2>1. Has(schema, "minimum") /\ x("minimum") > x("exclusiveMinimum")
    BY <1>8 DEF Dominated, x
  <2>2. x("exclusiveMinimum") \in Int /\ x("minimum") \in Int
    BY <1>1, <1>2, <1>8, <2>1
  <2>3. "minimum" \notin Dominated(schema)
    BY <2>1, <2>2 DEF Dominated, x
  <2>4. QED
    BY <1>3, <1>4, <1>5, <1>6, <1>8, <2>1, <2>2, <2>3 DEF x
<1>9. CASE key = "maximum"
  <2>1. Has(schema, "exclusiveMaximum") /\ x("exclusiveMaximum") <= x("maximum")
    BY <1>9 DEF Dominated, x
  <2>2. x("exclusiveMaximum") \in Int /\ x("maximum") \in Int
    BY <1>1, <1>2, <1>9, <2>1
  <2>3. "exclusiveMaximum" \notin Dominated(schema)
    BY <2>1, <2>2 DEF Dominated, x
  <2>4. QED
    BY <1>3, <1>4, <1>5, <1>6, <1>9, <2>1, <2>2, <2>3 DEF x
<1>10. CASE key = "exclusiveMaximum"
  <2>1. Has(schema, "maximum") /\ x("maximum") < x("exclusiveMaximum")
    BY <1>10 DEF Dominated, x
  <2>2. x("exclusiveMaximum") \in Int /\ x("maximum") \in Int
    BY <1>1, <1>2, <1>10, <2>1
  <2>3. "maximum" \notin Dominated(schema)
    BY <2>1, <2>2 DEF Dominated, x
  <2>4. QED
    BY <1>3, <1>4, <1>5, <1>6, <1>10, <2>1, <2>2, <2>3 DEF x
<1>11. QED
  BY <1>1, <1>7, <1>8, <1>9, <1>10

(* finalize_merged changes no verdict: the enum that goes has the const,   *)
(* the bound that goes is the weaker one.                                  *)
LEMMA FinalizeKeepsMeaning ==
  ASSUME NEW schema, WellTyped(schema), FinalizeMerged(schema) # Rejected,
         NEW v, IsValue(v), NEW declared
  PROVE  Apart(FinalizeMerged(schema), v, declared) <=> Apart(schema, v, declared)
<1>1. PICK drop : /\ FinalizeMerged(schema) = Without(schema, drop)
                  /\ drop \subseteq {"enum"} \cup Dominated(schema) /\ Dominated(schema) \subseteq drop
                  /\ "enum" \in drop => /\ Has(schema, "const") /\ Has(schema, "enum")
                                        /\ schema["const"] \in schema["enum"]
  BY FinalizeIs
<1>2. Apart(FinalizeMerged(schema), v, declared)
        <=> \A key \in DOMAIN schema \ drop : Says(key, schema[key], v, declared)
  <2> DEFINE kept == Without(schema, drop)
  <2>1. DOMAIN kept = DOMAIN schema \ drop /\ \A key \in DOMAIN schema \ drop : kept[key] = schema[key]
    BY WithoutIs
  <2> HIDE DEF kept
  <2>2. Apart(kept, v, declared) <=> \A key \in DOMAIN schema \ drop : Says(key, schema[key], v, declared)
    BY <2>1 DEF Apart
  <2>3. QED
    BY <1>1, <2>2 DEF kept
<1>3. ASSUME \A key \in DOMAIN schema \ drop : Says(key, schema[key], v, declared),
             NEW key \in DOMAIN schema
      PROVE  Says(key, schema[key], v, declared)
  <2>1. CASE key \notin drop
    BY <1>3, <2>1
  <2>2. CASE key = "enum" /\ key \in drop
    <3>1. "const" \in DOMAIN schema \ drop
      BY <1>1, <2>2 DEF Has, Dominated
    <3>2. Says("const", schema["const"], v, declared) => v = schema["const"]
      BY DEF Says, SaysOfAny
    <3>3. v \in schema["enum"] => Says("enum", schema["enum"], v, declared)
      BY DEF Says, SaysOfNumber, SaysOfString, SaysOfArray, SaysOfObject, SaysOfAny
    <3>4. QED
      BY <1>1, <1>3, <2>2, <3>1, <3>2, <3>3
  <2>3. CASE key \in Dominated(schema)
    <3>1. \A k \in DOMAIN schema \ Dominated(schema) :
            Says(k, schema[k], v, declared) \/ k = "enum"
      BY <1>1, <1>3
    <3>2. QED
      BY <2>3, <3>1, StrongerBoundStays
  <2>4. QED
    BY <1>1, <2>1, <2>2, <2>3
<1>4. QED
  BY <1>1, <1>2, <1>3 DEF Apart

(* What is finalized is typed, has nothing superfluous, and has but for    *)
(* bounds of numbers and an enum what it had.                              *)
LEMMA FinalizeTyping ==
  ASSUME NEW schema, WellTyped(schema), FinalizeMerged(schema) # Rejected
  PROVE  LET final == FinalizeMerged(schema)
         IN  /\ WellTyped(final) /\ Dominated(final) = {}
             /\ DOMAIN final \subseteq DOMAIN schema
             /\ DOMAIN schema \subseteq DOMAIN final \cup Numeric \cup {"enum"}
             /\ \A key \in DOMAIN final : final[key] = schema[key]
<1>1. PICK drop : /\ FinalizeMerged(schema) = Without(schema, drop)
                  /\ drop \subseteq {"enum"} \cup Dominated(schema) /\ Dominated(schema) \subseteq drop
  BY FinalizeIs
<1> DEFINE final == FinalizeMerged(schema)
<1>2. DOMAIN final = DOMAIN schema \ drop /\ \A key \in DOMAIN final : final[key] = schema[key]
  <2> DEFINE kept == Without(schema, drop)
  <2>1. DOMAIN kept = DOMAIN schema \ drop /\ \A key \in DOMAIN schema \ drop : kept[key] = schema[key]
    BY WithoutIs
  <2> HIDE DEF kept
  <2>2. final = kept
    BY <1>1 DEF kept
  <2> HIDE DEF final
  <2>3. QED
    BY <2>1, <2>2
<1> HIDE DEF final
<1>3. Dominated(schema) \subseteq Numeric
  BY DEF Dominated, Numeric
<1>4. WellTyped(final)
  BY <1>2, WellTypedIs
<1>5. Dominated(final) \subseteq Dominated(schema) /\ Dominated(final) \subseteq DOMAIN final
  BY <1>2 DEF Dominated, Has
<1>6. QED
  BY <1>1, <1>2, <1>3, <1>4, <1>5 DEF final

-----------------------------------------------------------------------------
(* In which order schemas of plain keywords are merged.                    *)

(* A schema without annotations and without schemas as values.             *)
IsPlain(schema, kinds) ==
  /\ schema = [ key \in DOMAIN schema |-> schema[key] ]
  /\ DOMAIN schema \cap (Annotations \cup ChildKeys) = {}
  /\ \A key \in DOMAIN schema : schema[key] \in PlainValues(key, kinds)

(* What stands for a merge that fails is no schema, and no keyword's value.*)
RejectedIsApart(kinds) ==
  /\ ~ IsPlain(Rejected, kinds)
  /\ \A key : Rejected \notin PlainValues(key, kinds)

Conflicting(a, b) ==
  \E key \in DOMAIN a \cap DOMAIN b : MergeKeyword(key, a[key], b[key]) = Rejected
MergesEach(m, a, b) ==
  /\ DOMAIN m = DOMAIN a \cup DOMAIN b
  /\ \A key \in DOMAIN a \ DOMAIN b : m[key] = a[key]
  /\ \A key \in DOMAIN b \ DOMAIN a : m[key] = b[key]
  /\ \A key \in DOMAIN a \cap DOMAIN b :
       m[key] = MergeKeyword(key, a[key], b[key]) /\ m[key] # Rejected

(* merge_two fails for one keyword, or merges each.                        *)
LEMMA PlainTwoIs ==
  ASSUME NEW kinds, RejectedIsApart(kinds),
         NEW a, IsPlain(a, kinds), NEW b, IsPlain(b, kinds)
  PROVE  LET m == MergeTwo(a, b)
         IN  \/ m = Rejected /\ Conflicting(a, b)
             \/ m # Rejected /\ IsPlain(m, kinds) /\ MergesEach(m, a, b)
<1> DEFINE parts == [ key \in DOMAIN a \cup DOMAIN b |->
                        CASE ~ Has(b, key) -> a[key]
                          [] ~ Has(a, key) -> b[key]
                          [] OTHER -> MergeValue(key, a[key], b[key]) ]
           V(key) == PlainValues(key, kinds)
<1>1. MergeTwo(a, b) = OrRejected(parts)
  BY DEF MergeTwo
<1>2. /\ \A key \in DOMAIN a \ DOMAIN b : parts[key] = a[key]
      /\ \A key \in DOMAIN b \ DOMAIN a : parts[key] = b[key]
      /\ \A key \in DOMAIN a \cap DOMAIN b : parts[key] = MergeValue(key, a[key], b[key])
  BY DEF Has
<1>3. DOMAIN parts = DOMAIN a \cup DOMAIN b /\ parts = [ key \in DOMAIN parts |-> parts[key] ]
  OBVIOUS
<1> HIDE DEF parts, V
<1>4. /\ (DOMAIN a \cup DOMAIN b) \cap (Annotations \cup ChildKeys) = {}
      /\ \A key \in DOMAIN a : a[key] \in V(key)
      /\ \A key \in DOMAIN b : b[key] \in V(key)
      /\ \A key : Rejected \notin V(key)
  BY DEF IsPlain, RejectedIsApart, V
<1>5. \A key \in DOMAIN a \cap DOMAIN b :
        /\ parts[key] = MergeKeyword(key, a[key], b[key])
        /\ parts[key] \in V(key) \cup {Rejected}
  <2> SUFFICES ASSUME NEW key \in DOMAIN a \cap DOMAIN b
               PROVE  /\ parts[key] = MergeKeyword(key, a[key], b[key])
                      /\ parts[key] \in V(key) \cup {Rejected}
    OBVIOUS
  <2>1. key \notin Annotations /\ key \notin ChildKeys
    BY <1>4
  <2>2. MergeValue(key, a[key], b[key]) = MergeKeyword(key, a[key], b[key])
    BY <2>1 DEF MergeValue, ChildKeys
  <2>3. a[key] \in V(key) /\ b[key] \in V(key) /\ Rejected \notin V(key)
    BY <1>4
  <2>4. MergeKeyword(key, a[key], b[key]) \in V(key) \cup {Rejected}
    BY <2>1, <2>3, KeywordsCommute DEF V
  <2>5. QED
    BY <1>2, <2>2, <2>4
<1>6. CASE \E key \in DOMAIN parts : parts[key] = Rejected
  <2>1. PICK key \in DOMAIN parts : parts[key] = Rejected
    BY <1>6
  <2>2. key \in DOMAIN a \cap DOMAIN b
    BY <1>2, <1>3, <1>4, <2>1
  <2>3. QED
    BY <1>1, <1>5, <1>6, <2>1, <2>2 DEF OrRejected, Conflicting
<1>7. CASE ~ \E key \in DOMAIN parts : parts[key] = Rejected
  <2>1. MergeTwo(a, b) = parts
    BY <1>1, <1>7 DEF OrRejected
  <2>2. \A key \in DOMAIN parts : parts[key] \in V(key)
    BY <1>2, <1>3, <1>4, <1>5, <1>7
  <2>3. IsPlain(parts, kinds)
    BY <1>3, <1>4, <2>2 DEF IsPlain, V
  <2>4. parts # Rejected
    BY <2>3 DEF RejectedIsApart
  <2>5. QED
    BY <1>2, <1>3, <1>5, <1>7, <2>1, <2>3, <2>4 DEF MergesEach
<1>8. QED
  BY <1>6, <1>7

(* merge_two in either order.                                              *)
LEMMA TwoCommute ==
  ASSUME NEW kinds, RejectedIsApart(kinds),
         NEW a, IsPlain(a, kinds), NEW b, IsPlain(b, kinds)
  PROVE  MergeTwo(a, b) = MergeTwo(b, a)
<1> DEFINE m == MergeTwo(a, b)
           w == MergeTwo(b, a)
           Plain(s) == IsPlain(s, kinds)
<1>1. \A key \in DOMAIN a \cap DOMAIN b :
        MergeKeyword(key, a[key], b[key]) = MergeKeyword(key, b[key], a[key])
  <2> SUFFICES ASSUME NEW key \in DOMAIN a \cap DOMAIN b
               PROVE  MergeKeyword(key, a[key], b[key]) = MergeKeyword(key, b[key], a[key])
    OBVIOUS
  <2>1. /\ key \notin Annotations
        /\ a[key] \in PlainValues(key, kinds)
        /\ b[key] \in PlainValues(key, kinds)
        /\ Rejected \notin PlainValues(key, kinds)
    BY DEF IsPlain, RejectedIsApart
  <2>2. QED
    BY <2>1, KeywordsCommute
<1>2. \/ m = Rejected /\ Conflicting(a, b)
      \/ m # Rejected /\ Plain(m) /\ MergesEach(m, a, b)
  BY PlainTwoIs
<1>3. \/ w = Rejected /\ Conflicting(b, a)
      \/ w # Rejected /\ Plain(w) /\ MergesEach(w, b, a)
  BY PlainTwoIs
<1> HIDE DEF m, w
<1>4. m = Rejected <=> w = Rejected
  BY <1>1, <1>2, <1>3 DEF Conflicting, MergesEach
<1>5. CASE m # Rejected
  <2>1. DOMAIN m = DOMAIN w
    BY <1>2, <1>3, <1>4, <1>5 DEF MergesEach
  <2>2. \A key \in DOMAIN m : m[key] = w[key]
    BY <1>1, <1>2, <1>3, <1>4, <1>5 DEF MergesEach
  <2>3. /\ m = [ key \in DOMAIN m |-> m[key] ]
        /\ w = [ key \in DOMAIN w |-> w[key] ]
    BY <1>2, <1>3, <1>4, <1>5 DEF IsPlain
  <2>4. QED
    BY <2>1, <2>2, <2>3 DEF m, w
<1>6. QED
  BY <1>4, <1>5 DEF m, w

ThirdTwo(merged, c) == IF merged = Rejected THEN Rejected ELSE MergeTwo(merged, c)

(* Three schemas that merge_two merges in one order, it does in the next.  *)
LEMMA TwoRotate ==
  ASSUME NEW kinds, RejectedIsApart(kinds),
         NEW a, IsPlain(a, kinds), NEW b, IsPlain(b, kinds),
         NEW c, IsPlain(c, kinds),
         ThirdTwo(MergeTwo(a, b), c) # Rejected
  PROVE  ThirdTwo(MergeTwo(b, c), a) = ThirdTwo(MergeTwo(a, b), c)
<1> DEFINE p == MergeTwo(a, b)
           l == MergeTwo(p, c)
           q == MergeTwo(b, c)
           r == MergeTwo(q, a)
           Plain(s) == IsPlain(s, kinds)
           M(key, x, y) == MergeKeyword(key, x, y)
           Each(m, x, y) ==
             /\ DOMAIN m = DOMAIN x \cup DOMAIN y
             /\ \A key \in DOMAIN x \ DOMAIN y : m[key] = x[key]
             /\ \A key \in DOMAIN y \ DOMAIN x : m[key] = y[key]
             /\ \A key \in DOMAIN x \cap DOMAIN y :
                  m[key] = M(key, x[key], y[key]) /\ m[key] # Rejected
           IsTwo(m, x, y) == m # Rejected /\ Plain(m) /\ Each(m, x, y)
           Fails(x, y) == \E key \in DOMAIN x \cap DOMAIN y : M(key, x[key], y[key]) = Rejected
<1>1. ASSUME NEW x, NEW y, Plain(x), Plain(y)
      PROVE  (MergeTwo(x, y) = Rejected /\ Fails(x, y)) \/ IsTwo(MergeTwo(x, y), x, y)
  <2> DEFINE m == MergeTwo(x, y)
  <2>1. \/ m = Rejected /\ Conflicting(x, y)
        \/ m # Rejected /\ Plain(m) /\ MergesEach(m, x, y)
    BY <1>1, PlainTwoIs
  <2> HIDE DEF m, Plain
  <2>2. QED
    BY <2>1 DEF Conflicting, MergesEach, m
<1>2. p # Rejected /\ l # Rejected /\ ThirdTwo(MergeTwo(a, b), c) = l
  BY DEF ThirdTwo
<1>3. Plain(a) /\ Plain(b) /\ Plain(c)
  OBVIOUS
<1>4. \A s, key : Plain(s) /\ key \in DOMAIN s =>
        /\ key \notin Annotations
        /\ s[key] \in PlainValues(key, kinds)
        /\ Rejected \notin PlainValues(key, kinds)
  BY DEF IsPlain, RejectedIsApart
<1>5. \A key : /\ key \in DOMAIN a \cap DOMAIN b => M(key, a[key], b[key]) = M(key, b[key], a[key])
               /\ key \in DOMAIN a \cap DOMAIN c => M(key, a[key], c[key]) = M(key, c[key], a[key])
  BY <1>3, <1>4, KeywordsCommute
<1>6. \A key \in (DOMAIN a \cap DOMAIN b) \cap DOMAIN c :
        ThirdKeyword(key, M(key, a[key], b[key]), c[key])
          = ThirdKeyword(key, M(key, b[key], c[key]), a[key])
  BY <1>3, <1>4, PlainKeywordsInAnyOrder
<1> HIDE DEF M, Plain
<1>7. IsTwo(p, a, b)
  <2> HIDE DEF IsTwo, Fails
  <2>1. QED
    BY <1>1, <1>2, <1>3
<1>8. IsTwo(l, p, c)
  <2>1. Plain(p)
    BY <1>7
  <2> HIDE DEF IsTwo, Fails, p
  <2>2. QED
    BY <1>1, <1>2, <1>3, <2>1
<1> HIDE DEF p, l
<1>9. \A key \in DOMAIN b \cap DOMAIN c : M(key, b[key], c[key]) # Rejected
  <2> SUFFICES ASSUME NEW key \in DOMAIN b \cap DOMAIN c PROVE M(key, b[key], c[key]) # Rejected
    OBVIOUS
  <2>1. CASE key \in DOMAIN a
    <3>1. /\ p[key] = M(key, a[key], b[key]) /\ p[key] # Rejected
          /\ l[key] = M(key, p[key], c[key]) /\ l[key] # Rejected
      BY <1>7, <1>8, <2>1
    <3>2. ThirdKeyword(key, M(key, a[key], b[key]), c[key]) # Rejected
      BY <3>1 DEF ThirdKeyword, M
    <3>3. QED
      BY <1>6, <2>1, <3>2 DEF ThirdKeyword
  <2>2. CASE key \notin DOMAIN a
    BY <1>7, <1>8, <2>2
  <2>3. QED
    BY <2>1, <2>2
<1>10. IsTwo(q, b, c)
  <2>1. ~ Fails(b, c)
    BY <1>9
  <2> HIDE DEF IsTwo, Fails
  <2>2. QED
    BY <1>1, <1>3, <2>1
<1> HIDE DEF q
<1>11. \A key \in DOMAIN q \cap DOMAIN a :
         M(key, q[key], a[key]) = l[key] /\ l[key] # Rejected
  <2> SUFFICES ASSUME NEW key \in DOMAIN q \cap DOMAIN a
               PROVE  M(key, q[key], a[key]) = l[key] /\ l[key] # Rejected
    OBVIOUS
  <2>1. CASE key \in DOMAIN b \cap DOMAIN c
    <3>1. /\ p[key] = M(key, a[key], b[key]) /\ p[key] # Rejected
          /\ l[key] = M(key, p[key], c[key]) /\ l[key] # Rejected
          /\ q[key] = M(key, b[key], c[key]) /\ q[key] # Rejected
      BY <1>7, <1>8, <1>10, <2>1
    <3>2. ThirdKeyword(key, M(key, a[key], b[key]), c[key]) = l[key]
      BY <3>1 DEF ThirdKeyword, M
    <3>3. ThirdKeyword(key, M(key, b[key], c[key]), a[key]) = M(key, q[key], a[key])
      BY <3>1 DEF ThirdKeyword, M
    <3>4. QED
      BY <1>6, <2>1, <3>1, <3>2, <3>3
  <2>2. CASE key \in DOMAIN b \ DOMAIN c
    BY <1>5, <1>7, <1>8, <1>10, <2>2
  <2>3. CASE key \in DOMAIN c \ DOMAIN b
    BY <1>5, <1>7, <1>8, <1>10, <2>3
  <2>4. QED
    BY <1>10, <2>1, <2>2, <2>3
<1>12. IsTwo(r, q, a)
  <2>1. ~ Fails(q, a) /\ Plain(q)
    BY <1>10, <1>11
  <2> HIDE DEF IsTwo, Fails
  <2>2. QED
    BY <1>1, <1>3, <2>1
<1> HIDE DEF r
<1>13. DOMAIN r = DOMAIN l
  BY <1>7, <1>8, <1>10, <1>12
<1>14. \A key \in DOMAIN r : r[key] = l[key]
  <2> SUFFICES ASSUME NEW key \in DOMAIN r PROVE r[key] = l[key]
    OBVIOUS
  <2>1. CASE key \in DOMAIN q \cap DOMAIN a
    BY <1>11, <1>12, <2>1
  <2>2. CASE key \in DOMAIN q \ DOMAIN a
    BY <1>7, <1>8, <1>10, <1>12, <2>2
  <2>3. CASE key \in DOMAIN a \ DOMAIN q
    BY <1>7, <1>8, <1>10, <1>12, <2>3
  <2>4. QED
    BY <1>12, <2>1, <2>2, <2>3
<1>15. r = l
  <2>1. r = [ key \in DOMAIN r |-> r[key] ] /\ l = [ key \in DOMAIN l |-> l[key] ]
    BY <1>8, <1>12 DEF IsPlain, Plain
  <2>2. QED
    BY <1>13, <1>14, <2>1
<1>16. QED
  BY <1>2, <1>10, <1>15 DEF ThirdTwo, q, r

(* What finalize_merged does: a const that the enum lacks, and what it     *)
(* drops otherwise.                                                        *)
Refuted(schema) ==
  Has(schema, "const") /\ Has(schema, "enum") /\ schema["const"] \notin schema["enum"]
Superfluous(schema) ==
  Dominated(schema) \cup { key \in {"enum"} : Has(schema, "const") /\ Has(schema, key) }

LEMMA FinalIs ==
  ASSUME NEW schema
  PROVE  FinalizeMerged(schema)
           = IF Refuted(schema) THEN Rejected ELSE Without(schema, Superfluous(schema))
<1>1. CASE Has(schema, "const") /\ Has(schema, "enum")
  <2>1. Superfluous(schema) = {"enum"} \cup Dominated(schema)
    BY <1>1 DEF Superfluous
  <2>2. QED
    BY <1>1, <2>1 DEF Refuted, FinalizeMerged
<1>2. CASE ~ (Has(schema, "const") /\ Has(schema, "enum"))
  <2>1. Superfluous(schema) = Dominated(schema)
    BY <1>2 DEF Superfluous
  <2>2. QED
    BY <1>2, <2>1 DEF Refuted, FinalizeMerged
<1>3. QED
  BY <1>1, <1>2

(* Two schemas of which the same is left.                                  *)
LEMMA SameRest ==
  ASSUME NEW s, NEW t, NEW drop, NEW lose, DOMAIN s \ drop = DOMAIN t \ lose,
         \A key \in DOMAIN s \ drop : s[key] = t[key]
  PROVE  Without(s, drop) = Without(t, lose)
BY DEF Without

LEMMA FinalIsPlain ==
  ASSUME NEW kinds, NEW schema, IsPlain(schema, kinds),
         ~ Refuted(schema)
  PROVE  LET final == FinalizeMerged(schema)
         IN  /\ IsPlain(final, kinds)
             /\ DOMAIN final = DOMAIN schema \ Superfluous(schema)
             /\ \A key \in DOMAIN final : final[key] = schema[key]
<1> DEFINE final == FinalizeMerged(schema)
           drop == Superfluous(schema)
<1>1. final = [ key \in DOMAIN schema \ drop |-> schema[key] ]
  BY FinalIs DEF Without
<1> HIDE DEF final, drop
<1>2. /\ DOMAIN final = DOMAIN schema \ drop
      /\ \A key \in DOMAIN schema \ drop : final[key] = schema[key]
      /\ final = [ key \in DOMAIN final |-> final[key] ]
  BY <1>1
<1>3. IsPlain(final, kinds)
  BY <1>2 DEF IsPlain
<1>4. QED
  BY <1>2, <1>3 DEF final, drop

(* A bound that another makes superfluous may as well go before the next   *)
(* schema comes: the pair that is left then is the same.                   *)
LEMMA DominatedEarly ==
  ASSUME NEW m, NEW c, NEW s, NEW t,
         \A key \in Numeric : /\ key \in DOMAIN m => m[key] \in Int
                              /\ key \in DOMAIN c => c[key] \in Int,
         DOMAIN t \cap Numeric = (DOMAIN m \cup DOMAIN c) \cap Numeric,
         DOMAIN s \cap Numeric = ((DOMAIN m \ Dominated(m)) \cup DOMAIN c) \cap Numeric,
         \A key \in DOMAIN t \cap Numeric :
           t[key] = IF key \notin DOMAIN c THEN m[key]
                    ELSE IF key \notin DOMAIN m THEN c[key] ELSE NumericExtreme(key, m[key], c[key]),
         \A key \in DOMAIN s \cap Numeric :
           s[key] = IF key \notin DOMAIN c THEN m[key]
                    ELSE IF key \notin DOMAIN m \ Dominated(m) THEN c[key]
                    ELSE NumericExtreme(key, m[key], c[key]),
         NEW key \in Numeric
  PROVE  /\ key \in DOMAIN t \ Dominated(t) <=> key \in DOMAIN s \ Dominated(s)
         /\ key \in DOMAIN t \ Dominated(t) => t[key] = s[key]
<1> DEFINE In(x, k) == k \in DOMAIN x
           D(x, k) == k \in Dominated(x)
<1>1. \A x : /\ D(x, "minimum") <=> In(x, "minimum") /\ In(x, "exclusiveMinimum")
                                      /\ x["exclusiveMinimum"] >= x["minimum"]
             /\ D(x, "exclusiveMinimum") <=> In(x, "minimum") /\ In(x, "exclusiveMinimum")
                                      /\ x["minimum"] > x["exclusiveMinimum"]
             /\ D(x, "maximum") <=> In(x, "maximum") /\ In(x, "exclusiveMaximum")
                                      /\ x["exclusiveMaximum"] <= x["maximum"]
             /\ D(x, "exclusiveMaximum") <=> In(x, "maximum") /\ In(x, "exclusiveMaximum")
                                      /\ x["maximum"] < x["exclusiveMaximum"]
  BY DEF Dominated, Has
<1>2. \A k, x, y : /\ k \in {"minimum", "exclusiveMinimum"} =>
                        NumericExtreme(k, x, y) = IF x >= y THEN x ELSE y
                   /\ k \in {"maximum", "exclusiveMaximum"} =>
                        NumericExtreme(k, x, y) = IF x <= y THEN x ELSE y
  BY DEF NumericExtreme, LowerBounds, UpperBounds
<1>3. \A k \in Numeric :
        /\ In(t, k) <=> In(m, k) \/ In(c, k)
        /\ In(s, k) <=> (In(m, k) /\ ~ D(m, k)) \/ In(c, k)
        /\ In(m, k) => m[k] \in Int
        /\ In(c, k) => c[k] \in Int
        /\ In(t, k) => t[k] = IF ~ In(c, k) THEN m[k] ELSE IF ~ In(m, k) THEN c[k]
                              ELSE NumericExtreme(k, m[k], c[k])
        /\ In(s, k) => s[k] = IF ~ In(c, k) THEN m[k]
                              ELSE IF ~ In(m, k) \/ D(m, k) THEN c[k]
                              ELSE NumericExtreme(k, m[k], c[k])
  OBVIOUS
<1> HIDE DEF In, D
<1>4. "minimum" \in Numeric /\ "exclusiveMinimum" \in Numeric
      /\ "maximum" \in Numeric /\ "exclusiveMaximum" \in Numeric
  BY DEF Numeric
<1>5. CASE key \in {"minimum", "exclusiveMinimum"}
  <2> DEFINE a == m["minimum"]
             b == m["exclusiveMinimum"]
             d == c["minimum"]
             e == c["exclusiveMinimum"]
  <2>1. /\ In(t, "minimum") <=> In(m, "minimum") \/ In(c, "minimum")
        /\ In(s, "minimum") <=> (In(m, "minimum") /\ ~ D(m, "minimum")) \/ In(c, "minimum")
        /\ In(m, "minimum") => a \in Int
        /\ In(c, "minimum") => d \in Int
        /\ In(t, "minimum") =>
             t["minimum"] = IF ~ In(c, "minimum") THEN a ELSE IF ~ In(m, "minimum") THEN d
                            ELSE IF a >= d THEN a ELSE d
        /\ In(s, "minimum") =>
             s["minimum"] = IF ~ In(c, "minimum") THEN a
                            ELSE IF ~ In(m, "minimum") \/ D(m, "minimum") THEN d
                            ELSE IF a >= d THEN a ELSE d
    BY <1>2, <1>3, <1>4
  <2>2. /\ In(t, "exclusiveMinimum") <=> In(m, "exclusiveMinimum") \/ In(c, "exclusiveMinimum")
        /\ In(s, "exclusiveMinimum") <=>
             (In(m, "exclusiveMinimum") /\ ~ D(m, "exclusiveMinimum")) \/ In(c, "exclusiveMinimum")
        /\ In(m, "exclusiveMinimum") => b \in Int
        /\ In(c, "exclusiveMinimum") => e \in Int
        /\ In(t, "exclusiveMinimum") =>
             t["exclusiveMinimum"] =
               IF ~ In(c, "exclusiveMinimum") THEN b ELSE IF ~ In(m, "exclusiveMinimum") THEN e
               ELSE IF b >= e THEN b ELSE e
        /\ In(s, "exclusiveMinimum") =>
             s["exclusiveMinimum"] =
               IF ~ In(c, "exclusiveMinimum") THEN b
               ELSE IF ~ In(m, "exclusiveMinimum") \/ D(m, "exclusiveMinimum") THEN e
               ELSE IF b >= e THEN b ELSE e
    BY <1>2, <1>3, <1>4
  <2>3. /\ D(m, "minimum") <=> In(m, "minimum") /\ In(m, "exclusiveMinimum") /\ b >= a
        /\ D(m, "exclusiveMinimum") <=> In(m, "minimum") /\ In(m, "exclusiveMinimum") /\ a > b
    BY <1>1
  <2> HIDE DEF a, b, d, e
  <2>4. /\ In(t, "minimum") /\ ~ D(t, "minimum") <=> In(s, "minimum") /\ ~ D(s, "minimum")
        /\ In(t, "minimum") /\ ~ D(t, "minimum") => t["minimum"] = s["minimum"]
    BY <1>1, <2>1, <2>2, <2>3
  <2>5. /\ In(t, "exclusiveMinimum") /\ ~ D(t, "exclusiveMinimum")
             <=> In(s, "exclusiveMinimum") /\ ~ D(s, "exclusiveMinimum")
        /\ In(t, "exclusiveMinimum") /\ ~ D(t, "exclusiveMinimum") =>
             t["exclusiveMinimum"] = s["exclusiveMinimum"]
    BY <1>1, <2>1, <2>2, <2>3
  <2>6. QED
    BY <1>5, <2>4, <2>5 DEF In, D
<1>6. CASE key \in {"maximum", "exclusiveMaximum"}
  <2> DEFINE a == m["maximum"]
             b == m["exclusiveMaximum"]
             d == c["maximum"]
             e == c["exclusiveMaximum"]
  <2>1. /\ In(t, "maximum") <=> In(m, "maximum") \/ In(c, "maximum")
        /\ In(s, "maximum") <=> (In(m, "maximum") /\ ~ D(m, "maximum")) \/ In(c, "maximum")
        /\ In(m, "maximum") => a \in Int
        /\ In(c, "maximum") => d \in Int
        /\ In(t, "maximum") =>
             t["maximum"] = IF ~ In(c, "maximum") THEN a ELSE IF ~ In(m, "maximum") THEN d
                            ELSE IF a <= d THEN a ELSE d
        /\ In(s, "maximum") =>
             s["maximum"] = IF ~ In(c, "maximum") THEN a
                            ELSE IF ~ In(m, "maximum") \/ D(m, "maximum") THEN d
                            ELSE IF a <= d THEN a ELSE d
    BY <1>2, <1>3, <1>4
  <2>2. /\ In(t, "exclusiveMaximum") <=> In(m, "exclusiveMaximum") \/ In(c, "exclusiveMaximum")
        /\ In(s, "exclusiveMaximum") <=>
             (In(m, "exclusiveMaximum") /\ ~ D(m, "exclusiveMaximum")) \/ In(c, "exclusiveMaximum")
        /\ In(m, "exclusiveMaximum") => b \in Int
        /\ In(c, "exclusiveMaximum") => e \in Int
        /\ In(t, "exclusiveMaximum") =>
             t["exclusiveMaximum"] =
               IF ~ In(c, "exclusiveMaximum") THEN b ELSE IF ~ In(m, "exclusiveMaximum") THEN e
               ELSE IF b <= e THEN b ELSE e
        /\ In(s, "exclusiveMaximum") =>
             s["exclusiveMaximum"] =
               IF ~ In(c, "exclusiveMaximum") THEN b
               ELSE IF ~ In(m, "exclusiveMaximum") \/ D(m, "exclusiveMaximum") THEN e
               ELSE IF b <= e THEN b ELSE e
    BY <1>2, <1>3, <1>4
  <2>3. /\ D(m, "maximum") <=> In(m, "maximum") /\ In(m, "exclusiveMaximum") /\ b <= a
        /\ D(m, "exclusiveMaximum") <=> In(m, "maximum") /\ In(m, "exclusiveMaximum") /\ a < b
    BY <1>1
  <2> HIDE DEF a, b, d, e
  <2>4. /\ In(t, "maximum") /\ ~ D(t, "maximum") <=> In(s, "maximum") /\ ~ D(s, "maximum")
        /\ In(t, "maximum") /\ ~ D(t, "maximum") => t["maximum"] = s["maximum"]
    BY <1>1, <2>1, <2>2, <2>3
  <2>5. /\ In(t, "exclusiveMaximum") /\ ~ D(t, "exclusiveMaximum")
             <=> In(s, "exclusiveMaximum") /\ ~ D(s, "exclusiveMaximum")
        /\ In(t, "exclusiveMaximum") /\ ~ D(t, "exclusiveMaximum") =>
             t["exclusiveMaximum"] = s["exclusiveMaximum"]
    BY <1>1, <2>1, <2>2, <2>3
  <2>6. QED
    BY <1>6, <2>4, <2>5 DEF In, D
<1>7. QED
  BY <1>5, <1>6 DEF Numeric

(* A keyword that two plain schemas have in common, merged.                *)
LEMMA CommonIs ==
  ASSUME NEW kinds, RejectedIsApart(kinds),
         NEW a, IsPlain(a, kinds), NEW b, IsPlain(b, kinds),
         NEW key \in DOMAIN a \cap DOMAIN b
  PROVE  LET m == MergeKeyword(key, a[key], b[key])
         IN  /\ key \in Numeric => /\ a[key] \in Int /\ b[key] \in Int
                                   /\ m = NumericExtreme(key, a[key], b[key]) /\ m # Rejected
             /\ key = "const" /\ m # Rejected => m = a[key] /\ a[key] = b[key]
             /\ key = "enum" =>
                  IF m = Rejected THEN a[key] \cap b[key] = {} ELSE m = a[key] \cap b[key]
<1> DEFINE x == a[key]
           y == b[key]
           m == MergeKeyword(key, x, y)
           V == PlainValues(key, kinds)
<1>1. x \in V /\ y \in V /\ Rejected \notin V
  BY DEF IsPlain, RejectedIsApart
<1>2. key \in Numeric => V = Int /\ key \in LowerBounds \cup UpperBounds
  BY PlainValuesAre DEF Numeric, LowerBounds, UpperBounds
<1>3. x = y => m = x
  BY DEF MergeKeyword
<1>4. x # y => /\ key \in LowerBounds \cup UpperBounds => m = NumericExtreme(key, x, y)
               /\ key = "enum" => m = IntersectEnum(x, y)
               /\ key \notin Compared => m = Rejected
  BY MergeKeywordIs
<1>5. "const" \notin Compared
  BY DEF Compared, LowerBounds, UpperBounds, Flags, Annotations
<1> HIDE DEF x, y, m, V
<1>6. key \in Numeric => x \in Int /\ y \in Int /\ m = NumericExtreme(key, x, y) /\ m # Rejected
  BY <1>1, <1>2, <1>3, <1>4 DEF NumericExtreme
<1>7. key = "const" /\ m # Rejected => m = x /\ x = y
  BY <1>3, <1>4, <1>5
<1>8. key = "enum" => IF m = Rejected THEN x \cap y = {} ELSE m = x \cap y
  <2>1. key = "enum" /\ x = y => m = x \cap y /\ m # Rejected
    BY <1>1, <1>3
  <2>2. key = "enum" /\ x # y => m = IF x \cap y = {} THEN Rejected ELSE x \cap y
    BY <1>4 DEF IntersectEnum
  <2>3. key = "enum" => x \cap y # Rejected
    <3>1. key = "enum" => V = SUBSET kinds.literals
      BY PlainValuesAre DEF V
    <3>2. QED
      BY <1>1, <3>1
  <2>4. QED
    BY <2>1, <2>2, <2>3
<1>9. QED
  BY <1>6, <1>7, <1>8 DEF x, y, m

Finish(merged) == IF merged = Rejected THEN Rejected ELSE FinalizeMerged(merged)

(* To finalize before the next schema comes makes no difference.           *)
LEMMA FinalizeEarly ==
  ASSUME NEW kinds, RejectedIsApart(kinds),
         NEW m, IsPlain(m, kinds), NEW c, IsPlain(c, kinds)
  PROVE  Finish(ThirdTwo(FinalizeMerged(m), c)) = Finish(MergeTwo(m, c))
<1> DEFINE f == FinalizeMerged(m)
           t == MergeTwo(m, c)
           s == MergeTwo(f, c)
           Plain(x) == IsPlain(x, kinds)
           IsTwo(w, x, y) ==
             /\ w # Rejected /\ Plain(w)
             /\ DOMAIN w = DOMAIN x \cup DOMAIN y
             /\ \A key \in DOMAIN x \ DOMAIN y : w[key] = x[key]
             /\ \A key \in DOMAIN y \ DOMAIN x : w[key] = y[key]
             /\ \A key \in DOMAIN x \cap DOMAIN y :
                  w[key] = MergeKeyword(key, x[key], y[key]) /\ w[key] # Rejected
           Fails(w, x, y) ==
             /\ w = Rejected
             /\ \E key \in DOMAIN x \cap DOMAIN y : MergeKeyword(key, x[key], y[key]) = Rejected
<1>0. ASSUME NEW x, NEW y, Plain(x), Plain(y)
      PROVE  Fails(MergeTwo(x, y), x, y) \/ IsTwo(MergeTwo(x, y), x, y)
  <2> DEFINE w == MergeTwo(x, y)
  <2>1. \/ w = Rejected /\ Conflicting(x, y)
        \/ w # Rejected /\ Plain(w) /\ MergesEach(w, x, y)
    BY <1>0, PlainTwoIs
  <2> HIDE DEF w, Plain
  <2>2. QED
    BY <2>1 DEF Conflicting, MergesEach, w
<1>1. Fails(t, m, c) \/ IsTwo(t, m, c)
  <2> HIDE DEF Fails, IsTwo, Plain
  <2>1. Plain(m) /\ Plain(c)
    BY DEF Plain
  <2>2. QED
    BY <1>0, <2>1
<1>2. \A key \in DOMAIN m \cap DOMAIN c :
        /\ key \in Numeric =>
             /\ m[key] \in Int /\ c[key] \in Int
             /\ MergeKeyword(key, m[key], c[key]) = NumericExtreme(key, m[key], c[key])
             /\ MergeKeyword(key, m[key], c[key]) # Rejected
        /\ key = "const" /\ MergeKeyword(key, m[key], c[key]) # Rejected =>
             MergeKeyword(key, m[key], c[key]) = m[key] /\ m[key] = c[key]
        /\ key = "enum" =>
             IF MergeKeyword(key, m[key], c[key]) = Rejected THEN m[key] \cap c[key] = {}
             ELSE MergeKeyword(key, m[key], c[key]) = m[key] \cap c[key]
  BY CommonIs
<1>3. \A w : Refuted(w) <=> "const" \in DOMAIN w /\ "enum" \in DOMAIN w /\ w["const"] \notin w["enum"]
  BY DEF Refuted, Has
<1>4. \A w : /\ w = Rejected => Finish(w) = Rejected
             /\ Refuted(w) => Finish(w) = Rejected
             /\ w # Rejected /\ ~ Refuted(w) => Finish(w) = Without(w, Superfluous(w))
  BY FinalIs DEF Finish
<1> HIDE DEF t
<1>5. CASE Refuted(m)
  <2>1. f = Rejected
    BY <1>5, FinalIs
  <2>2. Finish(ThirdTwo(f, c)) = Rejected
    BY <1>4, <2>1 DEF ThirdTwo
  <2>3. ASSUME t # Rejected PROVE Refuted(t)
    <3>1. IsTwo(t, m, c)
      BY <1>1, <2>3
    <3>2. "const" \in DOMAIN m /\ "enum" \in DOMAIN m /\ m["const"] \notin m["enum"]
      BY <1>3, <1>5
    <3>3. t["const"] = m["const"]
      BY <1>2, <3>1, <3>2
    <3>4. \A literal : literal \in t["enum"] => literal \in m["enum"]
      BY <1>2, <3>1, <3>2
    <3>5. QED
      BY <1>3, <3>1, <3>2, <3>3, <3>4
  <2>4. QED
    BY <1>4, <2>2, <2>3 DEF t
<1>6. CASE ~ Refuted(m)
  <2>1. /\ Plain(f) /\ DOMAIN f = DOMAIN m \ Superfluous(m)
        /\ \A key \in DOMAIN f : f[key] = m[key]
    BY <1>6, FinalIsPlain
  <2>2. f # Rejected
    BY <2>1 DEF RejectedIsApart
  <2> HIDE DEF f
  <2>3. Fails(s, f, c) \/ IsTwo(s, f, c)
    <3> HIDE DEF Fails, IsTwo, Plain
    <3>1. Plain(c)
      BY DEF Plain
    <3>2. QED
      BY <1>0, <2>1, <3>1
  <2> HIDE DEF s
  <2> SUFFICES Finish(s) = Finish(t)
    BY <2>2 DEF ThirdTwo, s, t, f
  <2>4. Dominated(m) \subseteq Numeric /\ "enum" \notin Numeric /\ "const" \notin Numeric
    BY DEF Dominated, Numeric
  <2>5. \A w, key : key \in Superfluous(w) <=>
          \/ key \in Dominated(w)
          \/ key = "enum" /\ "const" \in DOMAIN w /\ key \in DOMAIN w
    BY DEF Superfluous, Has
  <2>6. ASSUME s = Rejected PROVE t = Rejected
    <3>1. PICK key \in DOMAIN f \cap DOMAIN c : MergeKeyword(key, f[key], c[key]) = Rejected
      BY <2>3, <2>6
    <3>2. key \in DOMAIN m \cap DOMAIN c /\ MergeKeyword(key, m[key], c[key]) = Rejected
      BY <2>1, <3>1
    <3>3. QED
      BY <1>1, <3>2
  <2>7. ASSUME t = Rejected, s # Rejected PROVE Refuted(s)
    <3>1. PICK key \in DOMAIN m \cap DOMAIN c : MergeKeyword(key, m[key], c[key]) = Rejected
      BY <1>1, <2>7
    <3>2. IsTwo(s, f, c)
      BY <2>3, <2>7
    <3>3. key \notin DOMAIN f
      BY <2>1, <3>1, <3>2
    <3>4. key \notin Numeric
      BY <1>2, <3>1
    <3>5. key = "enum" /\ "const" \in DOMAIN m
      BY <2>1, <2>4, <2>5, <3>1, <3>3, <3>4
    <3>6. m["const"] \in m["enum"] /\ m["enum"] \cap c["enum"] = {}
      BY <1>2, <1>3, <1>6, <3>1, <3>5
    <3>7. "const" \in DOMAIN f /\ f["const"] = m["const"] /\ "enum" \notin DOMAIN f
      BY <2>1, <2>4, <2>5, <3>3, <3>5
    <3>8. s["const"] = m["const"] /\ s["enum"] = c["enum"] /\ {"const", "enum"} \subseteq DOMAIN s
      BY <1>2, <3>1, <3>2, <3>5, <3>7
    <3>9. QED
      BY <1>3, <3>6, <3>8
  <2>8. ASSUME s # Rejected, t # Rejected PROVE Finish(s) = Finish(t)
    <3>1. IsTwo(s, f, c) /\ IsTwo(t, m, c)
      BY <1>1, <2>3, <2>8
    <3>2. ASSUME NEW key, key \notin Numeric \cup {"enum"}
          PROVE  (key \in DOMAIN s <=> key \in DOMAIN t) /\ (key \in DOMAIN t => s[key] = t[key])
      <4>1. /\ key \in DOMAIN f <=> key \in DOMAIN m
            /\ key \in DOMAIN m => f[key] = m[key]
        BY <2>1, <2>4, <2>5, <3>2
      <4>2. QED
        BY <3>1, <4>1
    <3>3. Refuted(s) <=> Refuted(t)
      <4>1. CASE "enum" \in Superfluous(m)
        <5>1. "const" \in DOMAIN m /\ "enum" \in DOMAIN m /\ "enum" \notin DOMAIN f
          BY <2>1, <2>4, <2>5, <4>1
        <5>2. m["const"] \in m["enum"]
          BY <1>3, <1>6, <5>1
        <5>3. t["const"] = m["const"] /\ "const" \in DOMAIN t /\ "enum" \in DOMAIN t
          BY <1>2, <3>1, <5>1
        <5>4. s["const"] = m["const"] /\ "const" \in DOMAIN s
          BY <2>4, <3>2, <5>3
        <5>5. CASE "enum" \in DOMAIN c
          <6>1. "enum" \in DOMAIN s /\ s["enum"] = c["enum"]
            BY <3>1, <5>1, <5>5
          <6>2. t["enum"] = m["enum"] \cap c["enum"]
            BY <1>2, <3>1, <5>1, <5>5
          <6>3. QED
            BY <1>3, <5>2, <5>3, <5>4, <6>1, <6>2
        <5>6. CASE "enum" \notin DOMAIN c
          <6>1. "enum" \notin DOMAIN s /\ t["enum"] = m["enum"]
            BY <3>1, <5>1, <5>6
          <6>2. QED
            BY <1>3, <5>2, <5>3, <6>1
        <5>7. QED
          BY <5>5, <5>6
      <4>2. CASE "enum" \notin Superfluous(m)
        <5>1. /\ "enum" \in DOMAIN f <=> "enum" \in DOMAIN m
              /\ "enum" \in DOMAIN m => f["enum"] = m["enum"]
          BY <2>1, <4>2
        <5>2. /\ "enum" \in DOMAIN s <=> "enum" \in DOMAIN t
              /\ "enum" \in DOMAIN t => s["enum"] = t["enum"]
          BY <3>1, <5>1
        <5>3. /\ "const" \in DOMAIN s <=> "const" \in DOMAIN t
              /\ "const" \in DOMAIN t => s["const"] = t["const"]
          BY <2>4, <3>2
        <5>4. QED
          BY <1>3, <5>2, <5>3
      <4>3. QED
        BY <4>1, <4>2
    <3>4. ASSUME NEW key
          PROVE  /\ key \in DOMAIN s \ Superfluous(s) <=> key \in DOMAIN t \ Superfluous(t)
                 /\ key \in DOMAIN s \ Superfluous(s) => s[key] = t[key]
      <4>0. \A w : Dominated(w) \subseteq Numeric
        BY DEF Dominated, Numeric
      <4>1. CASE key \in Numeric
        <5>1. \A k \in Numeric : /\ k \in DOMAIN m => m[k] \in Int
                                 /\ k \in DOMAIN c => c[k] \in Int
          <6>1. \A k \in Numeric : PlainValues(k, kinds) = Int
            BY PlainValuesAre DEF Numeric, LowerBounds, UpperBounds
          <6>2. QED
            BY <6>1 DEF IsPlain
        <5>2. \A k \in Numeric : k \in DOMAIN f <=> k \in DOMAIN m \ Dominated(m)
          BY <2>1, <2>4, <2>5
        <5>3. DOMAIN t \cap Numeric = (DOMAIN m \cup DOMAIN c) \cap Numeric
          BY <3>1
        <5>4. DOMAIN s \cap Numeric = ((DOMAIN m \ Dominated(m)) \cup DOMAIN c) \cap Numeric
          BY <3>1, <5>2
        <5>5. \A k \in DOMAIN t \cap Numeric :
                t[k] = IF k \notin DOMAIN c THEN m[k]
                       ELSE IF k \notin DOMAIN m THEN c[k] ELSE NumericExtreme(k, m[k], c[k])
          BY <1>2, <3>1
        <5>6. \A k \in DOMAIN s \cap Numeric :
                s[k] = IF k \notin DOMAIN c THEN m[k]
                       ELSE IF k \notin DOMAIN m \ Dominated(m) THEN c[k]
                       ELSE NumericExtreme(k, m[k], c[k])
          BY <1>2, <2>1, <3>1, <5>2
        <5>7. /\ key \in DOMAIN t \ Dominated(t) <=> key \in DOMAIN s \ Dominated(s)
              /\ key \in DOMAIN t \ Dominated(t) => t[key] = s[key]
          BY <4>1, <5>1, <5>3, <5>4, <5>5, <5>6, DominatedEarly
        <5>8. \A w : key \in Superfluous(w) <=> key \in Dominated(w)
          BY <2>4, <2>5, <4>1
        <5>9. QED
          BY <5>7, <5>8
      <4>2. CASE key = "enum"
        <5>0. \A w : key \in Superfluous(w) <=> "const" \in DOMAIN w /\ key \in DOMAIN w
          BY <2>4, <2>5, <4>0, <4>2
        <5>1. "const" \in DOMAIN s <=> "const" \in DOMAIN t
          BY <2>4, <3>2
        <5>2. CASE "const" \in DOMAIN t
          BY <5>0, <5>1, <5>2
        <5>3. CASE "const" \notin DOMAIN t
          <6>1. "const" \notin DOMAIN m
            BY <3>1, <5>3
          <6>2. /\ key \in DOMAIN f <=> key \in DOMAIN m
                /\ key \in DOMAIN m => f[key] = m[key]
            BY <2>1, <5>0, <6>1
          <6>3. QED
            BY <3>1, <5>0, <5>1, <5>3, <6>2
        <5>4. QED
          BY <5>2, <5>3
      <4>3. CASE key \notin Numeric \cup {"enum"}
        <5>1. \A w : key \notin Superfluous(w)
          BY <2>5, <4>0, <4>3
        <5>2. QED
          BY <3>2, <4>3, <5>1
      <4>4. QED
        BY <4>1, <4>2, <4>3
    <3>5. Without(s, Superfluous(s)) = Without(t, Superfluous(t))
      <4>1. DOMAIN s \ Superfluous(s) = DOMAIN t \ Superfluous(t)
        BY <3>4
      <4>2. \A key \in DOMAIN s \ Superfluous(s) : s[key] = t[key]
        BY <3>4
      <4>3. QED
        BY <4>1, <4>2, SameRest
    <3>6. QED
      BY <1>4, <2>8, <3>3, <3>5
  <2>9. QED
    BY <1>4, <2>6, <2>7, <2>8
<1>7. QED
  BY <1>5, <1>6

(* What two plain schemas are merged to is one.                            *)
LEMMA PlainPairIsPlain ==
  ASSUME NEW kinds, RejectedIsApart(kinds), NEW a, IsPlain(a, kinds), NEW b, IsPlain(b, kinds)
  PROVE  MergePair(a, b) = Rejected \/ IsPlain(MergePair(a, b), kinds)
<1> DEFINE m == MergeTwo(a, b)
<1>1. m = Rejected \/ IsPlain(m, kinds)
  BY PlainTwoIs
<1>2. MergePair(a, b) = Finish(m)
  BY DEF MergePair, Then, Finish
<1> HIDE DEF m
<1>3. CASE m = Rejected \/ Refuted(m)
  BY <1>2, <1>3, FinalIs DEF Finish
<1>4. CASE m # Rejected /\ ~ Refuted(m)
  <2>1. IsPlain(FinalizeMerged(m), kinds)
    BY <1>1, <1>4, FinalIsPlain
  <2>2. QED
    BY <1>2, <1>4, <2>1 DEF Finish
<1>5. QED
  BY <1>3, <1>4

(* A third schema, after two have been merged.                             *)
ThirdSchema(merged, c) == IF merged = Rejected THEN Rejected ELSE MergePair(merged, c)

(* merge_schema_pair and merge_branch_list, for keywords with plain values:*)
(* the conjuncts of an allOf may come in any order and in any grouping     *)
(* (allOf.md), whatever they say: they have the same merged schema, or     *)
(* none.  No pair that meets first, and no bound or enum that is dropped   *)
(* early, decides whether the others fit.                                  *)
THEOREM PlainSchemasInAnyOrder ==
  ASSUME NEW kinds, RejectedIsApart(kinds),
         NEW a, IsPlain(a, kinds), NEW b, IsPlain(b, kinds),
         NEW c, IsPlain(c, kinds)
  PROVE  /\ MergePair(a, b) = MergePair(b, a)
         /\ ThirdSchema(MergePair(a, b), c) = ThirdSchema(MergePair(b, c), a)
<1> DEFINE Plain(x) == IsPlain(x, kinds)
           Two(x, y) == MergeTwo(x, y)
<1>1. \A x, y : MergePair(x, y) = Finish(Two(x, y))
  BY DEF MergePair, Then, Finish
<1>2. Two(a, b) = Two(b, a)
  BY TwoCommute
<1>3. \A x, y, z : Plain(x) /\ Plain(y) /\ Plain(z) /\ ThirdTwo(Two(x, y), z) # Rejected =>
        ThirdTwo(Two(y, z), x) = ThirdTwo(Two(x, y), z)
  BY TwoRotate
<1>4. \A x, y : Plain(x) /\ Plain(y) /\ Two(x, y) # Rejected => Plain(Two(x, y))
  BY PlainTwoIs
<1>5. \A x, y : Plain(x) /\ Plain(y) =>
        Finish(ThirdTwo(FinalizeMerged(x), y)) = Finish(Two(x, y))
  BY FinalizeEarly
<1>6. Plain(a) /\ Plain(b) /\ Plain(c)
  OBVIOUS
<1> HIDE DEF Two, Plain
<1>7. ASSUME NEW x, NEW y, NEW z, Plain(x), Plain(y), Plain(z)
      PROVE  ThirdSchema(MergePair(x, y), z) = Finish(ThirdTwo(Two(x, y), z))
  <2>1. CASE Two(x, y) = Rejected
    BY <1>1, <2>1 DEF ThirdSchema, ThirdTwo, Finish
  <2>2. CASE Two(x, y) # Rejected
    <3> DEFINE m == Two(x, y)
               f == FinalizeMerged(m)
    <3>1. Plain(m) /\ MergePair(x, y) = f
      BY <1>1, <1>4, <1>7, <2>2 DEF Finish
    <3>2. Finish(ThirdTwo(f, z)) = Finish(Two(m, z))
      BY <1>5, <1>7, <3>1
    <3>3. ThirdTwo(m, z) = Two(m, z)
      BY <2>2 DEF ThirdTwo, Two
    <3>4. ThirdSchema(f, z) = Finish(ThirdTwo(f, z))
      BY <1>1 DEF ThirdSchema, ThirdTwo, Finish, Two
    <3>5. QED
      BY <3>1, <3>2, <3>3, <3>4
  <2>3. QED
    BY <2>1, <2>2
<1>8. ThirdTwo(Two(a, b), c) = ThirdTwo(Two(b, c), a)
  <2> DEFINE All(x, y, z) == ThirdTwo(Two(x, y), z)
  <2>1. \A x, y, z : Plain(x) /\ Plain(y) /\ Plain(z) /\ All(x, y, z) # Rejected =>
          All(y, z, x) = All(x, y, z)
    BY <1>3
  <2> HIDE DEF All
  <2>2. All(a, b, c) = All(b, c, a)
    BY <1>6, <2>1
  <2>3. QED
    BY <2>2 DEF All
<1>9. QED
  BY <1>1, <1>2, <1>6, <1>7, <1>8

(* Nothing can be both.                                                    *)
AreContrary(a, b) == \A v, declared : ~ (Apart(a, v, declared) /\ Apart(b, v, declared))

(* merge_schema_pair rejects two schemas for a cause: nothing satisfies    *)
(* both; or a keyword without a merge (pattern, contains, $ref, oneOf)     *)
(* differs; or neither format contains the other; or no divisor in range   *)
(* is a multiple of both.                                                  *)
THEOREM PlainSchemasRejectedForCause ==
  ASSUME NEW kinds, RejectedIsApart(kinds),
         NEW a, IsPlain(a, kinds), NEW b, IsPlain(b, kinds),
         MergePair(a, b) = Rejected
  PROVE  LET common == DOMAIN a \cap DOMAIN b
         IN  \/ AreContrary(a, b)
             \/ \E key \in common \ (Compared \cup {"const"}) : a[key] # b[key]
             \/ /\ "format" \in common
                /\ << a["format"], b["format"] >> \notin Contained
                /\ << b["format"], a["format"] >> \notin Contained
             \/ /\ "multipleOf" \in common
                /\ \A n \in 1 .. SafeInteger :
                     ~ (n % a["multipleOf"] = 0 /\ n % b["multipleOf"] = 0)
<1> DEFINE m == MergeTwo(a, b)
           common == DOMAIN a \cap DOMAIN b
           x(key) == a[key]
           y(key) == b[key]
           V(key) == PlainValues(key, kinds)
<1>1. m = Rejected \/ Refuted(m)
  <2>1. m # Rejected => FinalizeMerged(m) = Rejected
    BY DEF MergePair, Then
  <2>2. m # Rejected /\ ~ Refuted(m) => FinalizeMerged(m) # Rejected
    <3>1. m # Rejected => IsPlain(m, kinds)
      BY PlainTwoIs
    <3> HIDE DEF m
    <3>2. m # Rejected /\ ~ Refuted(m) => IsPlain(FinalizeMerged(m), kinds)
      BY <3>1, FinalIsPlain
    <3>3. QED
      BY <3>2 DEF RejectedIsApart
  <2>3. QED
    BY <2>1, <2>2
<1>2. \A v, declared : Apart(a, v, declared) /\ Apart(b, v, declared) =>
        \A w \in {a, b} : \A key \in DOMAIN w :
          /\ key = "type" => IsOfType(v, w[key])
          /\ key = "const" => v = w[key]
          /\ key = "enum" => v \in w[key]
  BY DEF Apart, Says, SaysOfAny
<1>3. \A key \in common : x(key) \in V(key) /\ y(key) \in V(key) /\ Rejected \notin V(key)
                          /\ key \notin Annotations
  BY DEF IsPlain, RejectedIsApart
<1>4. CASE m = Rejected
  <2>1. PICK key \in common : MergeKeyword(key, x(key), y(key)) = Rejected
    <3>1. Conflicting(a, b)
      BY <1>4, PlainTwoIs
    <3>2. QED
      BY <3>1 DEF Conflicting
  <2>2. x(key) # y(key)
    <3>1. x(key) = y(key) => MergeKeyword(key, x(key), y(key)) = x(key)
      BY DEF MergeKeyword
    <3>2. QED
      BY <1>3, <2>1, <3>1
  <2>3. /\ key \in LowerBounds \cup UpperBounds =>
             NumericExtreme(key, x(key), y(key)) = Rejected /\ V(key) = Int
        /\ key = "type" => MergeType(x(key), y(key)) = Rejected
        /\ key \in Flags => (x(key) \/ y(key)) = Rejected /\ V(key) = BOOLEAN
        /\ key = "enum" => IntersectEnum(x(key), y(key)) = Rejected /\ V(key) = SUBSET kinds.literals
        /\ key = "format" => MergeFormats(x(key), y(key)) = Rejected /\ V(key) = kinds.others
        /\ key = "required" => x(key) \cup y(key) = Rejected /\ V(key) = SUBSET kinds.names
        /\ key = "dependentRequired" =>
             /\ MergeDependentRequired(x(key), y(key)) = Rejected
             /\ V(key) = DependenciesAmong(kinds.names)
        /\ key = "multipleOf" => V(key) = Whole \ {0}
    BY <2>1, <2>2, MergeKeywordIs, PlainValuesAre
  <2>4. key \in common /\ x(key) = a[key] /\ y(key) = b[key]
    OBVIOUS
  <2>5. x(key) \in V(key) /\ y(key) \in V(key) /\ Rejected \notin V(key) /\ key \notin Annotations
    BY <1>3, <2>4
  <2> HIDE DEF V, x, y
  <2>6. key \notin LowerBounds \cup UpperBounds
    BY <2>3, <2>5 DEF NumericExtreme
  <2>7. key \notin Flags
    BY <2>3, <2>5
  <2>8. key # "required"
    <3>1. x(key) \subseteq kinds.names /\ y(key) \subseteq kinds.names => x(key) \cup y(key) \in SUBSET kinds.names
      OBVIOUS
    <3>2. QED
      BY <2>3, <2>5, <3>1
  <2>9. key # "dependentRequired"
    <3>1. ASSUME key = "dependentRequired"
          PROVE  MergeDependentRequired(x(key), y(key)) \in V(key)
      <4> DEFINE names == kinds.names
      <4>1. /\ x(key) \in DependenciesAmong(names) /\ y(key) \in DependenciesAmong(names)
            /\ V(key) = DependenciesAmong(names)
        BY <2>3, <2>5, <3>1
      <4> HIDE DEF names
      <4>2. ASSUME NEW d \in DependenciesAmong(names), NEW e \in DependenciesAmong(names)
            PROVE  MergeDependentRequired(d, e) \in DependenciesAmong(names)
        BY MergedDependencies
      <4>3. QED
        BY <4>1, <4>2
    <3>2. QED
      BY <2>3, <2>5, <3>1
  <2>10. CASE key = "type"
    <3>1. x(key) # y(key) /\ {x(key), y(key)} # {"integer", "number"}
      BY <2>2, <2>3, <2>5, <2>10 DEF MergeType
    <3>2. \A v : ~ (IsOfType(v, x(key)) /\ IsOfType(v, y(key)))
      BY <3>1 DEF IsOfType
    <3>3. QED
      BY <1>2, <2>4, <2>10, <3>2 DEF AreContrary
  <2>11. CASE key = "multipleOf"
    <3>1. x(key) \in Whole \ {0} /\ y(key) \in Whole \ {0} /\ Rejected \notin Whole \ {0}
      BY <2>3, <2>5, <2>11
    <3>2. \A n \in 1 .. SafeInteger : ~ (Multiple(n, x(key)) /\ Multiple(n, y(key)))
      BY <2>1, <2>11, <3>1, MergedDivisor
    <3>3. \A n \in 1 .. SafeInteger : n \in Int
      BY LimitsAssumption
    <3>4. x(key) \in Nat \ {0} /\ y(key) \in Nat \ {0}
      BY <3>1, LimitsAssumption DEF Whole
    <3>5. \A n \in 1 .. SafeInteger : ~ (n % x(key) = 0 /\ n % y(key) = 0)
      BY <3>2, <3>3, <3>4, Multiples
    <3>6. QED
      BY <2>4, <2>11, <3>5
  <2>12. CASE key = "enum"
    <3>1. x(key) \cap y(key) = {}
      BY <2>3, <2>5, <2>12 DEF IntersectEnum
    <3>2. QED
      BY <1>2, <2>4, <2>12, <3>1 DEF AreContrary
  <2>13. CASE key = "format"
    <3>1. << x(key), y(key) >> \notin Contained /\ << y(key), x(key) >> \notin Contained
      BY <2>3, <2>5, <2>13 DEF MergeFormats
    <3>2. QED
      BY <2>4, <2>13, <3>1
  <2>14. CASE key = "const"
    BY <1>2, <2>2, <2>4, <2>14 DEF AreContrary
  <2>15. CASE key \notin Compared \cup {"const"}
    BY <2>2, <2>4, <2>15
  <2>16. QED
    BY <2>5, <2>6, <2>7, <2>8, <2>9, <2>10, <2>11, <2>12, <2>13, <2>14, <2>15 DEF Compared
<1>5. CASE m # Rejected /\ Refuted(m)
  <2>1. /\ DOMAIN m = DOMAIN a \cup DOMAIN b
        /\ \A key \in DOMAIN a \ DOMAIN b : m[key] = a[key]
        /\ \A key \in DOMAIN b \ DOMAIN a : m[key] = b[key]
        /\ \A key \in common :
             m[key] = MergeKeyword(key, a[key], b[key]) /\ m[key] # Rejected
    <3>1. MergesEach(m, a, b)
      BY <1>5, PlainTwoIs
    <3> HIDE DEF m
    <3>2. QED
      BY <3>1 DEF MergesEach
  <2> HIDE DEF m
  <2>2. "const" \in DOMAIN m /\ "enum" \in DOMAIN m /\ m["const"] \notin m["enum"]
    BY <1>5 DEF Refuted, Has
  <2>3. /\ "const" \in common => m["const"] = a["const"]
        /\ "enum" \in common => m["enum"] = a["enum"] \cap b["enum"]
    BY <2>1, CommonIs
  <2>4. \A v, declared : Apart(a, v, declared) /\ Apart(b, v, declared) =>
          v = m["const"] /\ v \in m["enum"]
    BY <1>2, <2>1, <2>2, <2>3
  <2>5. QED
    BY <2>2, <2>4 DEF AreContrary
<1>6. QED
  BY <1>1, <1>4, <1>5

-----------------------------------------------------------------------------
(* merge_schema_pair, and merge_child_schemas.                             *)

(* The elements of arrays and the members of objects are numbers.          *)
LEMMA ElementsAreNumbers == Elements \subseteq Int
<1>1. ASSUME NEW value \in Values,
             NEW e \in CASE value.kind = "array" -> Range(value.elements)
                         [] value.kind = "object" -> Range(value.members)
                         [] OTHER -> {}
      PROVE  e \in Int
  <2>1. CASE value.kind = "array"
    <3>1. e \in Range(value.elements) /\ value.elements \in Seq(Int)
      BY <1>1, <2>1, ValuesAssumption
    <3>2. QED
      BY <3>1 DEF Range
  <2>2. CASE value.kind = "object"
    BY <1>1, <2>2, ValuesAssumption
  <2>3. CASE value.kind # "array" /\ value.kind # "object"
    BY <1>1, <2>3
  <2>4. QED
    BY <2>1, <2>2, <2>3
<1>2. QED
  BY <1>1 DEF Elements

(* The values of the instance are values, and so are those numbers.        *)
LEMMA ValuesAre ==
  /\ \A v \in Values : IsValue(v)
  /\ \A n \in Elements : IsValue(Number(n)) /\ Number(n).kind = "number"
<1>1. ASSUME NEW v \in Values PROVE IsValue(v)
  <2> DEFINE part == CASE v.kind = "array" -> Range(v.elements)
                       [] v.kind = "object" -> Range(v.members)
                       [] OTHER -> {}
  <2>1. part \subseteq Elements
    BY DEF Elements
  <2>2. v.kind = "array" => Range(v.elements) \subseteq Elements
    BY <2>1
  <2>3. v.kind = "object" => Range(v.members) \subseteq Elements
    BY <2>1
  <2>4. QED
    BY <2>2, <2>3, ValuesAssumption DEF IsValue
<1>2. ASSUME NEW n \in Elements PROVE IsValue(Number(n)) /\ Number(n).kind = "number"
  <2>1. 2 * n \in Int
    BY ElementsAreNumbers
  <2>2. Number(n).kind = "number" /\ Number(n).twice = 2 * n
    BY DEF Number
  <2>3. QED
    BY <2>1, <2>2 DEF IsValue
<1>3. QED
  BY <1>1, <1>2

(* What is merged is typed.                                                *)
LEMMA MergeTyping ==
  ASSUME NEW a, NEW b, WellTyped(a), WellTyped(b), MergeTwo(a, b) # Rejected
  PROVE  WellTyped(MergeTwo(a, b))
<1> DEFINE m == MergeTwo(a, b)
<1>0. IsMerged(m, a, b)
  BY MergeTwoIs
<1> HIDE DEF m
<1>1. /\ DOMAIN m = DOMAIN a \cup DOMAIN b
      /\ \A key \in DOMAIN a \ DOMAIN b : m[key] = a[key]
      /\ \A key \in DOMAIN b \ DOMAIN a : m[key] = b[key]
      /\ \A key \in DOMAIN a \cap DOMAIN b :
           m[key] = MergeValue(key, a[key], b[key]) /\ m[key] # Rejected
  BY <1>0 DEF IsMerged
<1>2. /\ \A key \in DOMAIN a : KeyTyped(key, a[key])
      /\ \A key \in DOMAIN b : KeyTyped(key, b[key])
  BY WellTypedIs
<1>3. ASSUME NEW key \in DOMAIN m PROVE KeyTyped(key, m[key])
  <2>1. CASE key \in ChildKeys
    BY <2>1 DEF KeyTyped, ChildKeys, LowerBounds, UpperBounds
  <2>2. CASE key \in DOMAIN a \cap DOMAIN b /\ key \notin ChildKeys
    <3>1. m[key] = MergeKeyword(key, a[key], b[key]) /\ m[key] # Rejected
      BY <1>1, <2>2 DEF MergeValue, ChildKeys
    <3>2. QED
      BY <1>2, <2>2, <3>1, TypesMeet
  <2>3. CASE key \notin DOMAIN a \cap DOMAIN b
    BY <1>1, <1>2, <2>3
  <2>4. QED
    BY <2>1, <2>2, <2>3
<1>4. QED
  BY <1>3, WellTypedIs DEF m

(* merge_schema_pair, once the children are settled.                       *)
LEMMA PairsMeet ==
  ASSUME NEW a, NEW b, WellTyped(a), WellTyped(b), MergePair(a, b) # Rejected,
         NEW v, IsValue(v), NEW declared,
         \A key \in DOMAIN a \cap DOMAIN b \cap ChildKeys :
           MergeValue(key, a[key], b[key]) # Rejected =>
             (Says(key, MergeValue(key, a[key], b[key]), v, declared)
                <=> Says(key, a[key], v, declared) /\ Says(key, b[key], v, declared))
  PROVE  Apart(MergePair(a, b), v, declared) <=> Apart(a, v, declared) /\ Apart(b, v, declared)
<1>1. MergeTwo(a, b) # Rejected /\ MergePair(a, b) = FinalizeMerged(MergeTwo(a, b))
  BY DEF MergePair, Then
<1>2. /\ \A key \in DOMAIN a : KeyTyped(key, a[key])
      /\ \A key \in DOMAIN b : KeyTyped(key, b[key])
  BY WellTypedIs
<1>3. ASSUME NEW key \in DOMAIN a \cap DOMAIN b, key \notin ChildKeys,
             MergeValue(key, a[key], b[key]) # Rejected
      PROVE  Says(key, MergeValue(key, a[key], b[key]), v, declared)
               <=> Says(key, a[key], v, declared) /\ Says(key, b[key], v, declared)
  <2>1. MergeValue(key, a[key], b[key]) = MergeKeyword(key, a[key], b[key])
    BY <1>3 DEF MergeValue, ChildKeys
  <2>2. QED
    BY <1>2, <1>3, <2>1, PlainKeywordsMeet
<1>4. Apart(MergeTwo(a, b), v, declared) <=> Apart(a, v, declared) /\ Apart(b, v, declared)
  BY <1>1, <1>3, MergeMeets
<1>5. QED
  BY <1>1, <1>4, MergeTyping, FinalizeKeepsMeaning

(* The two stages of merge_schema_pair, typed.                             *)
LEMMA PairTyping ==
  ASSUME NEW a, NEW b, WellTyped(a), WellTyped(b), MergePair(a, b) # Rejected
  PROVE  /\ MergeTwo(a, b) # Rejected /\ MergePair(a, b) = FinalizeMerged(MergeTwo(a, b))
         /\ WellTyped(MergeTwo(a, b))
         /\ WellTyped(MergePair(a, b)) /\ Dominated(MergePair(a, b)) = {}
<1>1. MergeTwo(a, b) # Rejected /\ MergePair(a, b) = FinalizeMerged(MergeTwo(a, b))
  BY DEF MergePair, Then
<1>2. QED
  BY <1>1, MergeTyping, FinalizeTyping

(* On numbers the children of the two have nothing to say.                 *)
LEMMA PairsMeetOnNumbers ==
  ASSUME NEW a, NEW b, WellTyped(a), WellTyped(b), MergePair(a, b) # Rejected,
         NEW v, IsValue(v), v.kind = "number", NEW declared
  PROVE  Apart(MergePair(a, b), v, declared) <=> Apart(a, v, declared) /\ Apart(b, v, declared)
<1>1. \A key \in ChildKeys : \A x : Says(key, x, v, declared)
  BY DEF ChildKeys, Says, SaysOfNumber, SaysOfAny
<1>2. QED
  BY <1>1, PairsMeet

(* On numbers, AcceptsBelow is what the keywords say.                      *)
LEMMA BelowIs ==
  ASSUME NEW schema \in Schemas, NEW n \in Elements
  PROVE  AcceptsBelow(schema, Number(n), {}) <=> Apart(schema, Number(n), {})
<1>1. Number(n).kind = "number"
  BY DEF Number
<1>2. \A key, x : key = "additionalProperties" => Says(key, x, Number(n), {})
  BY <1>1, SaysAdditionalProperties
<1>3. Apart(schema, Number(n), {})
        <=> \A key \in DOMAIN schema \ {"additionalProperties"} : Says(key, schema[key], Number(n), {})
  BY <1>2 DEF Apart
<1>4. Accepts(schema, Number(n), {}) <=> Apart(schema, Number(n), {})
  BY <1>1, <1>3, AcceptsIs
<1>5. QED
  BY <1>4, RecursionAssumption

(* merge_child_schemas: what two children merge to, or are kept as, says   *)
(* what both say.                                                          *)
LEMMA ChildrenMeet ==
  ASSUME NEW k \in 1 .. MaxBranches - 1, NEW a \in Children[k], NEW b \in Children[1],
         MergeChild(a, b) # Rejected
  PROVE  /\ MergeChild(a, b) \in Children[k + 1]
         /\ \A n \in Elements :
              AcceptsBelow(MergeChild(a, b), Number(n), {})
                <=> AcceptsBelow(a, Number(n), {}) /\ AcceptsBelow(b, Number(n), {})
<1> DEFINE m == MergeChild(a, b)
<1>0. MaxBranches \in Nat /\ k \in 1 .. MaxBranches /\ 1 \in 1 .. MaxBranches /\ k + 1 \in 1 .. MaxBranches
  BY BranchesAssumption
<1>1. m \in Children[k + 1]
  BY ChildrenAssumption
<1>2. a \in Schemas /\ b \in Schemas /\ m \in Schemas
  BY <1>0, <1>1, ChildrenAssumption
<1>3. SUFFICES ASSUME NEW n \in Elements
               PROVE  AcceptsBelow(m, Number(n), {})
                        <=> AcceptsBelow(a, Number(n), {}) /\ AcceptsBelow(b, Number(n), {})
  BY <1>1
<1> DEFINE v == Number(n)
           Does(schema) == Apart(schema, v, {})
<1>4. \A schema \in Schemas : AcceptsBelow(schema, v, {}) <=> Does(schema)
  BY BelowIs
<1>5. IsValue(v) /\ v.kind = "number"
  BY ValuesAre
<1>6. Does(Empty)
  BY DEF Apart, Empty
<1> HIDE DEF v
<1>7. CASE a = b \/ b = Empty
  <2>1. m = a
    BY <1>7 DEF MergeChild
  <2> HIDE DEF m, Does
  <2>2. QED
    BY <1>2, <1>4, <1>6, <1>7, <2>1 DEF v
<1>8. CASE a = Empty /\ b # Empty
  <2>1. m = b
    BY <1>8 DEF MergeChild
  <2> HIDE DEF m, Does
  <2>2. QED
    BY <1>2, <1>4, <1>6, <1>8, <2>1 DEF v
<1>9. CASE a # b /\ a # Empty /\ b # Empty /\ Deferred(a, b)
  <2>1. m = [ key \in {"allOf"} |-> << a, b >> ]
    BY <1>9 DEF MergeChild
  <2>2. Does(m) <=> Says("allOf", << a, b >>, v, {})
    <3>1. DOMAIN m = {"allOf"} /\ m["allOf"] = << a, b >>
      BY <2>1
    <3> HIDE DEF m
    <3>2. QED
      BY <3>1 DEF Apart
  <2>3. Says("allOf", << a, b >>, v, {})
          <=> \A i \in DOMAIN << a, b >> : AcceptsBelow(<< a, b >>[i], v, {})
    BY DEF Says, SaysOfNumber, SaysOfString, SaysOfArray, SaysOfObject, SaysOfAny
  <2>4. DOMAIN << a, b >> = {1, 2} /\ << a, b >>[1] = a /\ << a, b >>[2] = b
    BY 1 .. 2 = {1, 2}
  <2> HIDE DEF m, Does
  <2>5. QED
    BY <1>2, <1>4, <2>2, <2>3, <2>4 DEF v
<1>10. CASE a # b /\ a # Empty /\ b # Empty /\ ~ Deferred(a, b)
  <2>1. m = MergePair(a, b)
    BY <1>10, RecursionAssumption DEF MergeChild
  <2>2. WellTyped(a) /\ WellTyped(b)
    BY <1>2, SchemasAssumption
  <2>3. Does(m) <=> Does(a) /\ Does(b)
    BY <1>5, <2>1, <2>2, PairsMeetOnNumbers
  <2> HIDE DEF m, Does
  <2>4. QED
    BY <1>2, <1>4, <2>3 DEF v
<1>11. QED
  BY <1>7, <1>8, <1>9, <1>10

-----------------------------------------------------------------------------
(* The keywords with schemas as values.                                    *)

(* What is taken for granted of a child.                                   *)
ChildTyped(key, x, set) ==
  /\ key \in {"items", "contains"} => x \in set
  /\ key = "additionalProperties" => x \in set \cup {Open, Closed}
  /\ key = "properties" => \A name \in DOMAIN x : x[name] \in set

(* ChildrenIn, keyword by keyword.                                         *)
LEMMA ChildrenInIs ==
  ASSUME NEW schema, NEW set
  PROVE  ChildrenIn(schema, set) <=> \A key \in DOMAIN schema : ChildTyped(key, schema[key], set)
BY DEF ChildrenIn, ChildTyped, Has

(* Children grow with the number of conjuncts, and are schemas.            *)
LEMMA ChildSets ==
  ASSUME NEW k \in 1 .. MaxBranches - 1
  PROVE  /\ Children[1] \subseteq Children[k] /\ Children[k] \subseteq Children[k + 1]
         /\ Children[k + 1] \subseteq Schemas
         /\ Open # Closed /\ Open \notin Children[k + 1] /\ Closed \notin Children[k + 1]
<1>1. MaxBranches \in Nat /\ k \in 1 .. MaxBranches /\ k + 1 \in 1 .. MaxBranches
  BY BranchesAssumption
<1>2. QED
  BY <1>1, ChildrenAssumption

(* What the members of a value are asked of: what the instance speaks of.   *)
LEMMA PartsAreElements ==
  ASSUME NEW v, IsValue(v)
  PROVE  /\ v.kind = "array" => \A n \in DOMAIN v.elements : v.elements[n] \in Elements
         /\ v.kind = "object" => \A name \in DOMAIN v.members : v.members[name] \in Elements
BY DEF IsValue, Range

(* The objects that the two close, or give a schema for the other members. *)
LEMMA AdditionalPropertiesMeet ==
  ASSUME NEW k \in 1 .. MaxBranches - 1, NEW x \in Children[k] \cup {Open, Closed},
         NEW y \in Children[1] \cup {Open, Closed}, MergeAdditionalProperties(x, y) # Rejected,
         NEW v, IsValue(v), NEW declared
  PROVE  /\ MergeAdditionalProperties(x, y) \in Children[k + 1] \cup {Open, Closed}
         /\ Says("additionalProperties", MergeAdditionalProperties(x, y), v, declared)
              <=> Says("additionalProperties", x, v, declared)
                    /\ Says("additionalProperties", y, v, declared)
<1> DEFINE m == MergeAdditionalProperties(x, y)
<1>1. /\ Children[1] \subseteq Children[k] /\ Children[k] \subseteq Children[k + 1]
      /\ Open # Closed /\ Open \notin Children[k + 1] /\ Closed \notin Children[k + 1]
  BY ChildSets
<1>2. CASE Closed \in {x, y}
  <2>1. m = Closed
    BY <1>2 DEF MergeAdditionalProperties
  <2> HIDE DEF m
  <2>2. QED
    BY <1>1, <1>2, <2>1, SaysAdditionalProperties DEF m
<1>3. CASE Closed \notin {x, y} /\ x = Open
  <2>1. m = y
    BY <1>3 DEF MergeAdditionalProperties
  <2> HIDE DEF m
  <2>2. QED
    BY <1>1, <1>3, <2>1, SaysAdditionalProperties DEF m
<1>4. CASE Closed \notin {x, y} /\ x # Open /\ y = Open
  <2>1. m = x
    BY <1>4 DEF MergeAdditionalProperties
  <2> HIDE DEF m
  <2>2. QED
    BY <1>1, <1>4, <2>1, SaysAdditionalProperties DEF m
<1>5. CASE Closed \notin {x, y} /\ x # Open /\ y # Open
  <2>1. m = MergeChild(x, y) /\ m # Rejected
    BY <1>5 DEF MergeAdditionalProperties
  <2>2. x \in Children[k] /\ y \in Children[1]
    BY <1>5
  <2>3. /\ m \in Children[k + 1]
        /\ \A n \in Elements :
             AcceptsBelow(m, Number(n), {})
               <=> AcceptsBelow(x, Number(n), {}) /\ AcceptsBelow(y, Number(n), {})
    BY <2>1, <2>2, ChildrenMeet
  <2> HIDE DEF m
  <2>4. m # Open /\ m # Closed
    BY <1>1, <2>3
  <2>5. v.kind = "object" => \A name \in DOMAIN v.members : v.members[name] \in Elements
    BY PartsAreElements
  <2>6. QED
    BY <1>5, <2>3, <2>4, <2>5, SaysAdditionalProperties DEF m
<1>6. QED
  BY <1>2, <1>3, <1>4, <1>5

(* What properties says.                                                   *)
LEMMA SaysProperties ==
  ASSUME NEW x, NEW v, NEW declared
  PROVE  Says("properties", x, v, declared)
           <=> (v.kind = "object" =>
                  \A name \in DOMAIN x \cap DOMAIN v.members :
                    AcceptsBelow(x[name], Number(v.members[name]), {}))
BY DEF Says, SaysOfNumber, SaysOfString, SaysOfArray, SaysOfObject, SaysOfAny

(* Each property is what either has of it, or both.                        *)
LEMMA PropertiesMeet ==
  ASSUME NEW k \in 1 .. MaxBranches - 1, NEW x, NEW y,
         \A name \in DOMAIN x : x[name] \in Children[k],
         \A name \in DOMAIN y : y[name] \in Children[1], MergeProperties(x, y) # Rejected,
         NEW v, IsValue(v), NEW declared
  PROVE  /\ DOMAIN MergeProperties(x, y) = DOMAIN x \cup DOMAIN y
         /\ \A name \in DOMAIN MergeProperties(x, y) :
              MergeProperties(x, y)[name] \in Children[k + 1]
         /\ Says("properties", MergeProperties(x, y), v, declared)
              <=> Says("properties", x, v, declared) /\ Says("properties", y, v, declared)
<1> DEFINE m == MergeProperties(x, y)
           parts == [ name \in DOMAIN x \cup DOMAIN y |->
                        CASE name \notin DOMAIN y -> x[name]
                          [] name \notin DOMAIN x -> y[name]
                          [] OTHER -> MergeChild(x[name], y[name]) ]
<1>1. m = OrRejected(parts) /\ m # Rejected
  BY DEF MergeProperties
<1>2. /\ \A name \in DOMAIN x \ DOMAIN y : parts[name] = x[name]
      /\ \A name \in DOMAIN y \ DOMAIN x : parts[name] = y[name]
      /\ \A name \in DOMAIN x \cap DOMAIN y : parts[name] = MergeChild(x[name], y[name])
  OBVIOUS
<1>3. DOMAIN parts = DOMAIN x \cup DOMAIN y
  OBVIOUS
<1> HIDE DEF parts, m
<1>4. m = parts /\ \A name \in DOMAIN parts : parts[name] # Rejected
  BY <1>1, OrRejectedIs
<1>5. Children[1] \subseteq Children[k] /\ Children[k] \subseteq Children[k + 1]
  BY ChildSets
<1>6. ASSUME NEW name \in DOMAIN x \cap DOMAIN y
      PROVE  /\ m[name] \in Children[k + 1]
             /\ \A n \in Elements :
                  AcceptsBelow(m[name], Number(n), {})
                    <=> AcceptsBelow(x[name], Number(n), {}) /\ AcceptsBelow(y[name], Number(n), {})
  BY <1>2, <1>3, <1>4, ChildrenMeet
<1>7. /\ \A name \in DOMAIN x \ DOMAIN y : m[name] = x[name]
      /\ \A name \in DOMAIN y \ DOMAIN x : m[name] = y[name]
      /\ DOMAIN m = DOMAIN x \cup DOMAIN y
  BY <1>2, <1>3, <1>4
<1>8. \A name \in DOMAIN m : m[name] \in Children[k + 1]
  BY <1>5, <1>6, <1>7
<1>9. Says("properties", m, v, declared)
        <=> Says("properties", x, v, declared) /\ Says("properties", y, v, declared)
  <2> DEFINE Holds(schema, name) == AcceptsBelow(schema, Number(v.members[name]), {})
  <2>1. CASE v.kind = "object"
    <3>1. \A z : Says("properties", z, v, declared)
                   <=> \A name \in DOMAIN z \cap DOMAIN v.members : Holds(z[name], name)
      BY <2>1, SaysProperties
    <3>2. \A name \in DOMAIN x \cap DOMAIN y \cap DOMAIN v.members :
            Holds(m[name], name) <=> Holds(x[name], name) /\ Holds(y[name], name)
      BY <1>6, <2>1, PartsAreElements
    <3> HIDE DEF Holds
    <3>3. QED
      BY <1>7, <3>1, <3>2
  <2>2. CASE v.kind # "object"
    BY <2>2, SaysProperties
  <2>3. QED
    BY <2>1, <2>2
<1>10. QED
  BY <1>7, <1>8, <1>9 DEF m

(* What items says.                                                        *)
LEMMA SaysItems ==
  ASSUME NEW x, NEW v, NEW declared
  PROVE  Says("items", x, v, declared)
           <=> (v.kind = "array" =>
                  \A n \in DOMAIN v.elements : AcceptsBelow(x, Number(v.elements[n]), {}))
BY DEF Says, SaysOfNumber, SaysOfString, SaysOfArray, SaysOfObject, SaysOfAny

(* The keywords with schemas as values.                                    *)
LEMMA ChildKeywordsMeet ==
  ASSUME NEW k \in 1 .. MaxBranches - 1, NEW key \in ChildKeys, NEW x, NEW y,
         ChildTyped(key, x, Children[k]), ChildTyped(key, y, Children[1]),
         MergeValue(key, x, y) # Rejected, NEW v, IsValue(v), NEW declared
  PROVE  /\ ChildTyped(key, MergeValue(key, x, y), Children[k + 1])
         /\ Says(key, MergeValue(key, x, y), v, declared)
              <=> Says(key, x, v, declared) /\ Says(key, y, v, declared)
         /\ key = "properties" => DOMAIN MergeValue(key, x, y) = DOMAIN x \cup DOMAIN y
<1> DEFINE m == MergeValue(key, x, y)
<1>1. CASE key = "properties"
  <2>1. m = MergeProperties(x, y) /\ m # Rejected
    BY <1>1 DEF MergeValue
  <2>2. /\ \A name \in DOMAIN x : x[name] \in Children[k]
        /\ \A name \in DOMAIN y : y[name] \in Children[1]
    BY <1>1 DEF ChildTyped
  <2> DEFINE p == MergeProperties(x, y)
  <2>3. /\ DOMAIN p = DOMAIN x \cup DOMAIN y
        /\ \A name \in DOMAIN p : p[name] \in Children[k + 1]
        /\ Says("properties", p, v, declared)
             <=> Says("properties", x, v, declared) /\ Says("properties", y, v, declared)
    <3>1. p # Rejected
      BY <2>1
    <3>2. QED
      BY <2>2, <3>1, PropertiesMeet
  <2>4. m = p
    BY <2>1
  <2> HIDE DEF m, p
  <2>5. QED
    BY <1>1, <2>3, <2>4 DEF ChildTyped, m
<1>2. CASE key = "additionalProperties"
  <2>1. m = MergeAdditionalProperties(x, y) /\ m # Rejected
    BY <1>2 DEF MergeValue
  <2>2. x \in Children[k] \cup {Open, Closed} /\ y \in Children[1] \cup {Open, Closed}
    BY <1>2 DEF ChildTyped
  <2>3. /\ m \in Children[k + 1] \cup {Open, Closed}
        /\ Says("additionalProperties", m, v, declared)
             <=> Says("additionalProperties", x, v, declared)
                   /\ Says("additionalProperties", y, v, declared)
    BY <2>1, <2>2, AdditionalPropertiesMeet
  <2> HIDE DEF m
  <2>4. QED
    BY <1>2, <2>3 DEF ChildTyped, m
<1>3. CASE key = "items"
  <2>1. m = MergeChild(x, y) /\ m # Rejected
    BY <1>3 DEF MergeValue
  <2>2. x \in Children[k] /\ y \in Children[1]
    BY <1>3 DEF ChildTyped
  <2>3. /\ m \in Children[k + 1]
        /\ \A n \in Elements :
             AcceptsBelow(m, Number(n), {})
               <=> AcceptsBelow(x, Number(n), {}) /\ AcceptsBelow(y, Number(n), {})
    BY <2>1, <2>2, ChildrenMeet
  <2> HIDE DEF m
  <2>4. Says("items", m, v, declared) <=> Says("items", x, v, declared) /\ Says("items", y, v, declared)
    BY <2>3, SaysItems, PartsAreElements
  <2>5. QED
    BY <1>3, <2>3, <2>4 DEF ChildTyped, m
<1>4. QED
  BY <1>1, <1>2, <1>3 DEF ChildKeys

(* What becomes of the children, and of the declared names.                *)
LEMMA ChildKeywordsTyped ==
  ASSUME NEW k \in 1 .. MaxBranches - 1, NEW key \in ChildKeys, NEW x, NEW y,
         ChildTyped(key, x, Children[k]), ChildTyped(key, y, Children[1]),
         MergeValue(key, x, y) # Rejected
  PROVE  /\ ChildTyped(key, MergeValue(key, x, y), Children[k + 1])
         /\ key = "properties" => DOMAIN MergeValue(key, x, y) = DOMAIN x \cup DOMAIN y
<1>1. \E v : IsValue(v)
  <2>1. IsValue([ kind |-> "number", twice |-> 0 ])
    BY DEF IsValue
  <2>2. QED
    BY <2>1
<1>2. ASSUME NEW v, IsValue(v), NEW declared
      PROVE  /\ ChildTyped(key, MergeValue(key, x, y), Children[k + 1])
             /\ Says(key, MergeValue(key, x, y), v, declared)
                  <=> Says(key, x, v, declared) /\ Says(key, y, v, declared)
             /\ key = "properties" => DOMAIN MergeValue(key, x, y) = DOMAIN x \cup DOMAIN y
  BY <1>2, ChildKeywordsMeet
<1>3. QED
  BY <1>1, <1>2

-----------------------------------------------------------------------------
(* One schema that says what two say.                                      *)

Counts(schema, count) == Between(schema, "minContains", count, "maxContains")

SameMatcher(x, y) ==
  \A n \in Elements : AcceptsBelow(x, Number(n), {}) <=> AcceptsBelow(y, Number(n), {})

(* m says what a and b say, together.                                      *)
Meets(m, a, b) ==
  /\ \A v, declared : IsValue(v) =>
       (Apart(m, v, declared) <=> Apart(a, v, declared) /\ Apart(b, v, declared))
  /\ Declared(m) = Declared(a) \cup Declared(b)
  /\ \A count \in Int : Counts(m, count) <=> Counts(a, count) /\ Counts(b, count)
  /\ Has(m, "minContains") <=> Has(a, "minContains") \/ Has(b, "minContains")
  /\ Has(m, "contains") <=> Has(a, "contains") \/ Has(b, "contains")
  /\ \A schema \in {a, b} :
       Has(schema, "contains") => SameMatcher(m["contains"], schema["contains"])

(* merge_extra_value of the counts of a contains.                          *)
LEMMA CountsMeet ==
  ASSUME NEW a, NEW b, WellTyped(a), WellTyped(b), NEW m, IsMerged(m, a, b), NEW count \in Int
  PROVE  Counts(m, count) <=> Counts(a, count) /\ Counts(b, count)
<1>1. /\ DOMAIN m = DOMAIN a \cup DOMAIN b
      /\ \A key \in DOMAIN a \ DOMAIN b : m[key] = a[key]
      /\ \A key \in DOMAIN b \ DOMAIN a : m[key] = b[key]
      /\ \A key \in DOMAIN a \cap DOMAIN b : m[key] = MergeValue(key, a[key], b[key])
  BY DEF IsMerged
<1>2. /\ \A key \in DOMAIN a \cap {"minContains", "maxContains"} : a[key] \in Int
      /\ \A key \in DOMAIN b \cap {"minContains", "maxContains"} : b[key] \in Int
  BY DEF WellTyped, LowerBounds, UpperBounds
<1>3. "minContains" \in DOMAIN a \cap DOMAIN b =>
        m["minContains"] = IF a["minContains"] >= b["minContains"] THEN a["minContains"] ELSE b["minContains"]
  <2>1. ASSUME NEW x \in Int, NEW y \in Int
        PROVE  MergeValue("minContains", x, y) = IF x >= y THEN x ELSE y
    <3>1. MergeValue("minContains", x, y) = MergeKeyword("minContains", x, y)
      BY DEF MergeValue
    <3>2. CASE x = y
      BY <3>1, <3>2 DEF MergeKeyword
    <3>3. CASE x # y
      <4>1. MergeKeyword("minContains", x, y) = NumericExtreme("minContains", x, y)
        BY <3>3 DEF MergeKeyword, LowerBounds, UpperBounds, Flags, Annotations
      <4>2. QED
        BY <3>1, <4>1 DEF NumericExtreme, LowerBounds, UpperBounds
    <3>4. QED
      BY <3>2, <3>3
  <2>2. QED
    BY <1>1, <1>2, <2>1
<1>4. "maxContains" \in DOMAIN a \cap DOMAIN b =>
        m["maxContains"] = IF a["maxContains"] <= b["maxContains"] THEN a["maxContains"] ELSE b["maxContains"]
  <2>1. ASSUME NEW x \in Int, NEW y \in Int
        PROVE  MergeValue("maxContains", x, y) = IF x <= y THEN x ELSE y
    <3>1. MergeValue("maxContains", x, y) = MergeKeyword("maxContains", x, y)
      BY DEF MergeValue
    <3>2. CASE x = y
      BY <3>1, <3>2 DEF MergeKeyword
    <3>3. CASE x # y
      <4>1. MergeKeyword("maxContains", x, y) = NumericExtreme("maxContains", x, y)
        BY <3>3 DEF MergeKeyword, LowerBounds, UpperBounds, Flags, Annotations
      <4>2. QED
        BY <3>1, <4>1 DEF NumericExtreme, LowerBounds, UpperBounds
    <3>4. QED
      BY <3>2, <3>3
  <2>2. QED
    BY <1>1, <1>2, <2>1
<1>5. QED
  BY <1>1, <1>2, <1>3, <1>4 DEF Counts, Between, Has

(* merge_two, with the children.                                           *)
LEMMA TwoMeet ==
  ASSUME NEW k \in 1 .. MaxBranches - 1, NEW a, NEW b, WellTyped(a), WellTyped(b),
         ChildrenIn(a, Children[k]), ChildrenIn(b, Children[1]), MergeTwo(a, b) # Rejected
  PROVE  /\ Meets(MergeTwo(a, b), a, b)
         /\ ChildrenIn(MergeTwo(a, b), Children[k + 1])
<1> DEFINE m == MergeTwo(a, b)
<1>1. IsMerged(m, a, b)
  BY MergeTwoIs
<1>2. /\ \A key \in DOMAIN a : KeyTyped(key, a[key]) /\ ChildTyped(key, a[key], Children[k])
      /\ \A key \in DOMAIN b : KeyTyped(key, b[key]) /\ ChildTyped(key, b[key], Children[1])
  BY WellTypedIs, ChildrenInIs
<1>3. ASSUME NEW v, IsValue(v), NEW declared
      PROVE  Apart(m, v, declared) <=> Apart(a, v, declared) /\ Apart(b, v, declared)
  <2>1. ASSUME NEW key \in DOMAIN a \cap DOMAIN b, MergeValue(key, a[key], b[key]) # Rejected
        PROVE  Says(key, MergeValue(key, a[key], b[key]), v, declared)
                 <=> Says(key, a[key], v, declared) /\ Says(key, b[key], v, declared)
    <3>1. CASE key \in ChildKeys
      BY <1>2, <1>3, <2>1, <3>1, ChildKeywordsMeet
    <3>2. CASE key \notin ChildKeys
      <4>1. MergeValue(key, a[key], b[key]) = MergeKeyword(key, a[key], b[key])
        BY <3>2 DEF MergeValue, ChildKeys
      <4>2. QED
        BY <1>2, <1>3, <2>1, <3>2, <4>1, PlainKeywordsMeet
    <3>3. QED
      BY <3>1, <3>2
  <2>2. QED
    BY <2>1, MergeMeets
<1> HIDE DEF m
<1>4. /\ DOMAIN m = DOMAIN a \cup DOMAIN b
      /\ \A key \in DOMAIN a \ DOMAIN b : m[key] = a[key]
      /\ \A key \in DOMAIN b \ DOMAIN a : m[key] = b[key]
      /\ \A key \in DOMAIN a \cap DOMAIN b :
           m[key] = MergeValue(key, a[key], b[key]) /\ m[key] # Rejected
  BY <1>1 DEF IsMerged
<1>5. \A count \in Int : Counts(m, count) <=> Counts(a, count) /\ Counts(b, count)
  BY <1>1, CountsMeet
<1>6. "contains" \in DOMAIN a \cap DOMAIN b => m["contains"] = a["contains"] /\ m["contains"] = b["contains"]
  <2>1. ASSUME NEW x, NEW y, MergeValue("contains", x, y) # Rejected
        PROVE  x = y /\ MergeValue("contains", x, y) = x
    <3>1. MergeValue("contains", x, y) = MergeKeyword("contains", x, y)
      BY DEF MergeValue
    <3>2. x = y
      BY <2>1, <3>1 DEF MergeKeyword, LowerBounds, UpperBounds, Flags, Annotations
    <3>3. QED
      BY <3>1, <3>2 DEF MergeKeyword
  <2>2. QED
    BY <1>4, <2>1
<1>7. \A schema \in {a, b} : Has(schema, "contains") => SameMatcher(m["contains"], schema["contains"])
  BY <1>4, <1>6 DEF Has, SameMatcher
<1>8. Declared(m) = Declared(a) \cup Declared(b)
  <2>1. "properties" \in DOMAIN a \cap DOMAIN b =>
          DOMAIN m["properties"] = DOMAIN a["properties"] \cup DOMAIN b["properties"]
    <3>1. "properties" \in ChildKeys
      BY DEF ChildKeys
    <3>2. ASSUME "properties" \in DOMAIN a \cap DOMAIN b
          PROVE  DOMAIN MergeValue("properties", a["properties"], b["properties"])
                   = DOMAIN a["properties"] \cup DOMAIN b["properties"]
      <4>1. /\ ChildTyped("properties", a["properties"], Children[k])
            /\ ChildTyped("properties", b["properties"], Children[1])
            /\ MergeValue("properties", a["properties"], b["properties"]) # Rejected
        BY <1>2, <1>4, <3>2
      <4>2. QED
        BY <3>1, <4>1, ChildKeywordsTyped
    <3>3. QED
      BY <1>4, <3>2
  <2>2. QED
    BY <1>4, <2>1 DEF Declared, Has
<1>9. ChildrenIn(m, Children[k + 1])
  <2>1. Children[1] \subseteq Children[k + 1] /\ Children[k] \subseteq Children[k + 1]
    BY ChildSets
  <2>2. ASSUME NEW key \in DOMAIN m
        PROVE  ChildTyped(key, m[key], Children[k + 1])
    <3>1. CASE key \in DOMAIN a \cap DOMAIN b /\ key \in ChildKeys
      <4>1. /\ ChildTyped(key, a[key], Children[k]) /\ ChildTyped(key, b[key], Children[1])
            /\ m[key] = MergeValue(key, a[key], b[key]) /\ MergeValue(key, a[key], b[key]) # Rejected
        BY <1>2, <1>4, <3>1
      <4>2. ChildTyped(key, MergeValue(key, a[key], b[key]), Children[k + 1])
        BY <3>1, <4>1, ChildKeywordsTyped
      <4>3. QED
        BY <4>1, <4>2
    <3>2. CASE key = "contains" /\ key \in DOMAIN a
      <4>1. m[key] = a[key] /\ a[key] \in Children[k]
        BY <1>2, <1>4, <1>6, <3>2 DEF ChildTyped
      <4>2. QED
        BY <2>1, <3>2, <4>1 DEF ChildTyped
    <3>3. CASE key \notin DOMAIN a \cap DOMAIN b
      BY <1>2, <1>4, <2>1, <3>3 DEF ChildTyped
    <3>4. CASE key \notin ChildKeys \cup {"contains"}
      BY <3>4 DEF ChildTyped, ChildKeys
    <3>5. QED
      BY <3>1, <3>2, <3>3, <3>4
  <2>3. QED
    BY <2>2, ChildrenInIs
<1>10. /\ Has(m, "minContains") <=> Has(a, "minContains") \/ Has(b, "minContains")
       /\ Has(m, "contains") <=> Has(a, "contains") \/ Has(b, "contains")
  BY <1>4 DEF Has
<1>11. QED
  BY <1>3, <1>5, <1>7, <1>8, <1>9, <1>10 DEF Meets, m

(* finalize_merged.                                                        *)
LEMMA FinalMeets ==
  ASSUME NEW schema, WellTyped(schema), FinalizeMerged(schema) # Rejected
  PROVE  /\ Meets(FinalizeMerged(schema), schema, schema)
         /\ \A set : ChildrenIn(schema, set) => ChildrenIn(FinalizeMerged(schema), set)
<1> DEFINE final == FinalizeMerged(schema)
<1>1. \A v, declared : IsValue(v) => (Apart(final, v, declared) <=> Apart(schema, v, declared))
  BY FinalizeKeepsMeaning
<1>2. /\ DOMAIN final \subseteq DOMAIN schema
      /\ DOMAIN schema \subseteq DOMAIN final \cup Numeric \cup {"enum"}
      /\ \A key \in DOMAIN final : final[key] = schema[key]
  BY FinalizeTyping
<1> HIDE DEF final
<1>3. \A key \in {"minContains", "maxContains", "contains", "properties"} :
        /\ Has(final, key) <=> Has(schema, key)
        /\ Has(schema, key) => final[key] = schema[key]
  BY <1>2 DEF Has, Numeric
<1>4. \A set : ChildrenIn(schema, set) => ChildrenIn(final, set)
  BY <1>2, ChildrenInIs
<1>5. Declared(final) = Declared(schema)
  BY <1>3 DEF Declared
<1>6. \A count \in Int : Counts(final, count) <=> Counts(schema, count)
  BY <1>3 DEF Counts, Between
<1>7. QED
  BY <1>1, <1>3, <1>4, <1>5, <1>6 DEF Meets, SameMatcher, final

(* A stage that changes no meaning can follow a merge.                     *)
LEMMA MeetsTrans ==
  ASSUME NEW a, NEW b, NEW m, NEW n, Meets(m, a, b), Meets(n, m, m)
  PROVE  Meets(n, a, b)
BY DEF Meets, SameMatcher

(* merge_schema_pair, with the children.                                   *)
LEMMA SchemasMeet ==
  ASSUME NEW k \in 1 .. MaxBranches - 1, NEW a, NEW b, WellTyped(a), WellTyped(b),
         ChildrenIn(a, Children[k]), ChildrenIn(b, Children[1]), MergePair(a, b) # Rejected
  PROVE  /\ Meets(MergePair(a, b), a, b)
         /\ ChildrenIn(MergePair(a, b), Children[k + 1])
<1> DEFINE m == MergeTwo(a, b)
<1>1. m # Rejected /\ MergePair(a, b) = FinalizeMerged(m) /\ WellTyped(m)
  BY PairTyping
<1>2. Meets(m, a, b) /\ ChildrenIn(m, Children[k + 1])
  BY <1>1, TwoMeet
<1> HIDE DEF m
<1>3. Meets(FinalizeMerged(m), m, m) /\ ChildrenIn(FinalizeMerged(m), Children[k + 1])
  BY <1>1, <1>2, FinalMeets
<1>4. QED
  BY <1>1, <1>2, <1>3, MeetsTrans

-----------------------------------------------------------------------------
(* merge_branch_list of the conjuncts of a child.                          *)

(* FlattenSeq, up to the n-th list.                                        *)
IsFlat(f, lists, n) ==
  f = [ i \in 1 .. n |-> IF i = 1 THEN lists[i] ELSE f[i - 1] \o lists[i] ]

(* The recursion of FlattenSeq is defined.                                 *)
LEMMA FlatExists ==
  ASSUME NEW lists, NEW length \in Nat
  PROVE  \E f : IsFlat(f, lists, length)
<1> DEFINE good == { n \in 0 .. length : \E f : IsFlat(f, lists, n) }
<1>1. 0 \in good
  <2>1. IsFlat([ i \in 1 .. 0 |-> i ], lists, 0)
    BY 1 .. 0 = {} DEF IsFlat
  <2>2. QED
    BY <2>1
<1>2. ASSUME NEW n \in 0 .. length - 1, n \in good PROVE n + 1 \in good
  <2>1. PICK f : IsFlat(f, lists, n)
    BY <1>2
  <2> DEFINE Next1(g, i) == IF i = 1 THEN lists[i] ELSE g[i - 1] \o lists[i]
             longer == [ i \in 1 .. n + 1 |-> IF i <= n THEN f[i] ELSE Next1(f, i) ]
  <2>2. ASSUME NEW i \in 1 .. n + 1 PROVE longer[i] = Next1(longer, i)
    <3>0. \A j \in 1 .. n + 1 : longer[j] = IF j <= n THEN f[j] ELSE Next1(f, j)
      OBVIOUS
    <3>1. \A j \in 1 .. n : f[j] = Next1(f, j)
      BY <2>1 DEF IsFlat
    <3> HIDE DEF longer
    <3>2. i # 1 => i - 1 \in 1 .. n
      OBVIOUS
    <3>3. i # 1 => longer[i - 1] = f[i - 1]
      BY <3>0, <3>2
    <3>4. Next1(longer, i) = Next1(f, i)
      BY <3>3
    <3>5. longer[i] = Next1(f, i)
      <4>1. CASE i <= n
        <5>1. i \in 1 .. n
          BY <4>1
        <5> HIDE DEF Next1
        <5>2. QED
          BY <3>0, <3>1, <4>1, <5>1
      <4>2. CASE ~ i <= n
        <5> HIDE DEF Next1
        <5>1. QED
          BY <3>0, <4>2
      <4>3. QED
        BY <4>1, <4>2
    <3>6. QED
      BY <3>4, <3>5
  <2>3. IsFlat(longer, lists, n + 1)
    BY <2>2 DEF IsFlat
  <2> HIDE DEF longer
  <2>4. QED
    BY <2>3
<1>3. good = 0 .. length
  <2>1. good \in SUBSET (0 .. length)
    OBVIOUS
  <2> HIDE DEF good
  <2>2. QED
    BY <1>1, <1>2, <2>1, UpTo
<1>4. QED
  BY <1>3

(* What is in a list that lists are flattened to.                          *)
LEMMA FlattenedRange ==
  ASSUME NEW S, NEW lists \in Seq(Seq(S))
  PROVE  /\ FlattenSeq(lists) \in Seq(S)
         /\ Range(FlattenSeq(lists)) = UNION { Range(lists[i]) : i \in DOMAIN lists }
<1> DEFINE length == Len(lists)
<1>1. length \in Nat /\ DOMAIN lists = 1 .. length /\ \A i \in 1 .. length : lists[i] \in Seq(S)
  OBVIOUS
<1>2. CASE length = 0
  <2>1. lists = << >> /\ FlattenSeq(lists) = lists
    BY <1>1, <1>2 DEF FlattenSeq
  <2>2. DOMAIN lists = {} /\ lists \in Seq(S)
    BY <1>1, <1>2, <2>1
  <2>3. Range(lists) = {} /\ UNION { Range(lists[i]) : i \in DOMAIN lists } = {}
    BY <2>2 DEF Range
  <2>4. QED
    BY <2>1, <2>2, <2>3
<1>3. CASE length # 0
  <2> DEFINE flat == CHOOSE f : IsFlat(f, lists, length)
  <2>1. IsFlat(flat, lists, length)
    BY <1>1, FlatExists
  <2>2. FlattenSeq(lists) = flat[length]
    BY <1>3 DEF FlattenSeq, IsFlat
  <2> HIDE DEF flat
  <2>3. \A i \in 1 .. length : flat[i] = IF i = 1 THEN lists[i] ELSE flat[i - 1] \o lists[i]
    BY <2>1 DEF IsFlat
  <2> DEFINE Below(n) == UNION { Range(lists[i]) : i \in 1 .. n }
             good == { n \in 0 .. length :
                         n # 0 => flat[n] \in Seq(S) /\ Range(flat[n]) = Below(n) }
  <2>4. 0 \in good
    BY <1>1
  <2>5. ASSUME NEW n \in 0 .. length - 1, n \in good PROVE n + 1 \in good
    <3>1. n + 1 \in 1 .. length /\ n + 1 \in 0 .. length /\ lists[n + 1] \in Seq(S)
      BY <1>1
    <3>2. CASE n = 0
      <4>1. flat[1] = lists[1] /\ 1 .. 1 = {1}
        BY <2>3, <3>1, <3>2
      <4>2. Below(1) = Range(lists[1])
        BY <4>1
      <4>3. QED
        BY <3>1, <3>2, <4>1, <4>2
    <3>3. CASE n # 0
      <4>1. flat[n + 1] = flat[n] \o lists[n + 1]
        <5>1. n + 1 # 1 /\ (n + 1) - 1 = n
          BY <1>1, <3>3
        <5>2. QED
          BY <2>3, <3>1, <5>1
      <4>2. flat[n] \in Seq(S) /\ Range(flat[n]) = Below(n)
        BY <2>5, <3>3
      <4>3. flat[n + 1] \in Seq(S) /\ Range(flat[n + 1]) = Range(flat[n]) \cup Range(lists[n + 1])
        BY <3>1, <4>1, <4>2, RangeConcatenation, ConcatProperties
      <4>4. 1 .. n + 1 = (1 .. n) \cup {n + 1}
        BY <1>1
      <4>5. Below(n + 1) = Below(n) \cup Range(lists[n + 1])
        BY <4>4
      <4>6. QED
        BY <3>1, <4>2, <4>3, <4>5
    <3>4. QED
      BY <3>2, <3>3
  <2>6. good = 0 .. length
    <3>1. good \in SUBSET (0 .. length)
      OBVIOUS
    <3> HIDE DEF good
    <3>2. QED
      BY <1>1, <2>4, <2>5, <3>1, UpTo
  <2>7. length \in good
    <3> HIDE DEF good
    <3>1. QED
      BY <1>1, <2>6
  <2>8. flat[length] \in Seq(S) /\ Range(flat[length]) = Below(length)
    BY <1>3, <2>7
  <2>9. QED
    BY <1>1, <2>2, <2>8
<1>4. QED
  BY <1>2, <1>3

(* merge_branch_list, up to the n-th branch.                               *)
IsFold(f, list, n) ==
  f = [ i \in 1 .. n |->
          IF i = 1 THEN list[1]
          ELSE IF f[i - 1] = Rejected THEN Rejected ELSE MergePair(f[i - 1], list[i]) ]

(* The recursion of merge_branch_list is defined.                          *)
LEMMA FoldExists ==
  ASSUME NEW list, NEW length \in Nat
  PROVE  \E f : IsFold(f, list, length)
<1> DEFINE good == { n \in 0 .. length : \E f : IsFold(f, list, n) }
<1>1. 0 \in good
  <2>1. IsFold([ i \in 1 .. 0 |-> i ], list, 0)
    BY 1 .. 0 = {} DEF IsFold
  <2>2. QED
    BY <2>1
<1>2. ASSUME NEW n \in 0 .. length - 1, n \in good PROVE n + 1 \in good
  <2>1. PICK f : IsFold(f, list, n)
    BY <1>2
  <2> DEFINE Next1(g, i) ==
               IF i = 1 THEN list[1]
               ELSE IF g[i - 1] = Rejected THEN Rejected ELSE MergePair(g[i - 1], list[i])
             longer == [ i \in 1 .. n + 1 |-> IF i <= n THEN f[i] ELSE Next1(f, i) ]
  <2>2. ASSUME NEW i \in 1 .. n + 1 PROVE longer[i] = Next1(longer, i)
    <3>0. \A j \in 1 .. n + 1 : longer[j] = IF j <= n THEN f[j] ELSE Next1(f, j)
      OBVIOUS
    <3>1. \A j \in 1 .. n : f[j] = Next1(f, j)
      BY <2>1 DEF IsFold
    <3> HIDE DEF longer
    <3>2. i # 1 => i - 1 \in 1 .. n
      OBVIOUS
    <3>3. i # 1 => longer[i - 1] = f[i - 1]
      BY <3>0, <3>2
    <3>4. Next1(longer, i) = Next1(f, i)
      BY <3>3
    <3>5. longer[i] = Next1(f, i)
      <4>1. CASE i <= n
        <5>1. i \in 1 .. n
          BY <4>1
        <5> HIDE DEF Next1
        <5>2. QED
          BY <3>0, <3>1, <4>1, <5>1
      <4>2. CASE ~ i <= n
        <5> HIDE DEF Next1
        <5>1. QED
          BY <3>0, <4>2
      <4>3. QED
        BY <4>1, <4>2
    <3>6. QED
      BY <3>4, <3>5
  <2>3. IsFold(longer, list, n + 1)
    BY <2>2 DEF IsFold
  <2> HIDE DEF longer
  <2>4. QED
    BY <2>3
<1>3. good = 0 .. length
  <2>1. good \in SUBSET (0 .. length)
    OBVIOUS
  <2> HIDE DEF good
  <2>2. QED
    BY <1>1, <1>2, <2>1, UpTo
<1>4. QED
  BY <1>3

(* The fold, and what is done with its result.                             *)
LEMMA FoldIs ==
  ASSUME NEW list, NEW length \in Nat \ {0}, Len(list) = length
  PROVE  \E f : /\ MergeList(list) = Finish(f[length])
                /\ \A i \in 1 .. length :
                     f[i] = IF i = 1 THEN list[1] ELSE ThirdSchema(f[i - 1], list[i])
<1> DEFINE merged == CHOOSE f : IsFold(f, list, length)
<1>1. IsFold(merged, list, length)
  BY FoldExists
<1>2. MergeList(list) = Then(merged[length], FinalizeMerged)
  BY DEF MergeList, IsFold
<1> HIDE DEF merged
<1>3. MergeList(list) = Finish(merged[length])
  BY <1>2 DEF Then, Finish
<1>4. \A i \in 1 .. length :
        merged[i] = IF i = 1 THEN list[1] ELSE ThirdSchema(merged[i - 1], list[i])
  BY <1>1 DEF IsFold, ThirdSchema
<1>5. QED
  BY <1>3, <1>4

(* Two that change places, after all that is merged before them.           *)
LEMMA LastTwoMaySwap ==
  ASSUME NEW kinds, RejectedIsApart(kinds), NEW p, p = Rejected \/ IsPlain(p, kinds),
         NEW x, IsPlain(x, kinds), NEW y, IsPlain(y, kinds)
  PROVE  ThirdSchema(ThirdSchema(p, x), y) = ThirdSchema(ThirdSchema(p, y), x)
<1>1. CASE p = Rejected
  BY <1>1 DEF ThirdSchema
<1>2. CASE IsPlain(p, kinds)
  <2>1. p # Rejected
    BY <1>2 DEF RejectedIsApart
  <2>2. ThirdSchema(p, x) = MergePair(p, x) /\ ThirdSchema(p, y) = MergePair(p, y)
    BY <2>1 DEF ThirdSchema
  <2>3. ThirdSchema(MergePair(p, x), y) = ThirdSchema(MergePair(x, y), p)
    BY <1>2, PlainSchemasInAnyOrder
  <2>4. ThirdSchema(MergePair(p, y), x) = ThirdSchema(MergePair(y, x), p)
    BY <1>2, PlainSchemasInAnyOrder
  <2>5. MergePair(x, y) = MergePair(y, x)
    BY <1>2, PlainSchemasInAnyOrder
  <2>6. QED
    BY <2>2, <2>3, <2>4, <2>5
<1>3. QED
  BY <1>1, <1>2

(* merge_branch_list: of any number of conjuncts whose keywords have plain *)
(* values, two neighbours may change places, and so any two: the merged    *)
(* schema is the same, or there is none either way ("the validation        *)
(* semantics never depend on branch order", allOf.md).                     *)
THEOREM NeighboursMaySwap ==
  ASSUME NEW kinds, RejectedIsApart(kinds), NEW S, \A schema \in S : IsPlain(schema, kinds),
         NEW list \in Seq(S), NEW k \in 1 .. Len(list) - 1
  PROVE  LET swapped == [ n \in DOMAIN list |-> IF n = k THEN list[k + 1]
                                                ELSE IF n = k + 1 THEN list[k] ELSE list[n] ]
         IN  MergeList(swapped) = MergeList(list)
<1> DEFINE length == Len(list)
           swapped == [ n \in DOMAIN list |-> IF n = k THEN list[k + 1]
                                              ELSE IF n = k + 1 THEN list[k] ELSE list[n] ]
<1>1. /\ length \in Nat \ {0} /\ DOMAIN list = 1 .. length
      /\ \A n \in 1 .. length : IsPlain(list[n], kinds)
      /\ k \in 1 .. length /\ k + 1 \in 1 .. length
  OBVIOUS
<1>2. Len(swapped) = length
  <2>1. DOMAIN swapped = 1 .. length
    BY <1>1
  <2>2. swapped \in Seq(S)
    BY <1>1
  <2> HIDE DEF swapped
  <2>3. QED
    BY <1>1, <2>1, <2>2
<1>3. \A n \in 1 .. length : swapped[n] = IF n = k THEN list[k + 1]
                                         ELSE IF n = k + 1 THEN list[k] ELSE list[n]
  BY <1>1
<1> HIDE DEF swapped, length
<1>4. PICK f : /\ MergeList(list) = Finish(f[length])
               /\ \A i \in 1 .. length :
                    f[i] = IF i = 1 THEN list[1] ELSE ThirdSchema(f[i - 1], list[i])
  BY <1>1, FoldIs DEF length
<1>5. PICK g : /\ MergeList(swapped) = Finish(g[length])
               /\ \A i \in 1 .. length :
                    g[i] = IF i = 1 THEN swapped[1] ELSE ThirdSchema(g[i - 1], swapped[i])
  BY <1>1, <1>2, FoldIs
<1> DEFINE Same(j) == /\ f[j] = Rejected \/ IsPlain(f[j], kinds)
                      /\ j # k => g[j] = f[j]
           good == { n \in 0 .. length : \A j \in 1 .. n : Same(j) }
<1>6. 0 \in good
  BY <1>1
<1>7. ASSUME NEW n \in 0 .. length - 1, \A j \in 1 .. n : Same(j) PROVE Same(n + 1)
  <2>1. n \in Nat /\ n + 1 \in 1 .. length /\ IsPlain(list[n + 1], kinds)
    BY <1>1
  <2>2. f[n + 1] = Rejected \/ IsPlain(f[n + 1], kinds)
    <3>1. CASE n = 0
      BY <1>4, <2>1, <3>1
    <3>2. CASE n # 0
      <4>1. n \in 1 .. n /\ f[n + 1] = ThirdSchema(f[n], list[n + 1])
        BY <1>4, <2>1, <3>2
      <4>2. CASE f[n] = Rejected
        BY <4>1, <4>2 DEF ThirdSchema
      <4>3. CASE f[n] # Rejected
        <5>1. IsPlain(f[n], kinds) /\ f[n + 1] = MergePair(f[n], list[n + 1])
          BY <1>7, <4>1, <4>3 DEF ThirdSchema
        <5> DEFINE m == MergePair(f[n], list[n + 1])
        <5>2. m # Rejected => IsPlain(m, kinds)
          BY <2>1, <5>1, PlainPairIsPlain
        <5>3. QED
          BY <5>1, <5>2
      <4>4. QED
        BY <4>2, <4>3
    <3>3. QED
      BY <3>1, <3>2
  <2>3. ASSUME n + 1 # k PROVE g[n + 1] = f[n + 1]
    <3>1. CASE n + 1 = k + 1
      <4>1. n = k /\ n # 0 /\ n \in 1 .. length /\ n + 1 # 1 /\ (n + 1) - 1 = n
        BY <1>1, <2>1, <3>1
      <4>2. swapped[n] = list[n + 1] /\ swapped[n + 1] = list[n]
        BY <1>3, <2>1, <4>1
      <4>3. f[n + 1] = ThirdSchema(f[n], list[n + 1])
        BY <1>4, <2>1, <4>1
      <4>4. g[n + 1] = ThirdSchema(g[n], list[n])
        BY <1>5, <2>1, <4>1, <4>2
      <4>5. IsPlain(list[n], kinds) /\ IsPlain(list[n + 1], kinds)
        BY <1>1, <2>1, <4>1
      <4>6. CASE n = 1
        <5>1. f[n] = list[n] /\ g[n] = list[n + 1]
          BY <1>4, <1>5, <4>1, <4>2, <4>6
        <5>2. f[n] # Rejected /\ g[n] # Rejected
          BY <4>5, <5>1 DEF RejectedIsApart
        <5>3. f[n + 1] = MergePair(list[n], list[n + 1])
          BY <4>3, <5>1, <5>2 DEF ThirdSchema
        <5>4. g[n + 1] = MergePair(list[n + 1], list[n])
          BY <4>4, <5>1, <5>2 DEF ThirdSchema
        <5>5. MergePair(list[n], list[n + 1]) = MergePair(list[n + 1], list[n])
          BY <4>5, PlainSchemasInAnyOrder
        <5>6. QED
          BY <5>3, <5>4, <5>5
      <4>7. CASE n # 1
        <5>1. n - 1 \in 1 .. n /\ n - 1 # k
          BY <2>1, <4>1, <4>7
        <5>2. Same(n - 1)
          BY <1>7, <5>1
        <5>3. f[n] = ThirdSchema(f[n - 1], list[n])
          BY <1>4, <4>1, <4>7
        <5>4. g[n] = ThirdSchema(f[n - 1], list[n + 1])
          BY <1>5, <4>1, <4>2, <4>7, <5>1, <5>2
        <5> DEFINE p == f[n - 1]
        <5>5. p = Rejected \/ IsPlain(p, kinds)
          BY <5>2
        <5> HIDE DEF p
        <5>6. ThirdSchema(ThirdSchema(p, list[n]), list[n + 1])
                = ThirdSchema(ThirdSchema(p, list[n + 1]), list[n])
          BY <4>5, <5>5, LastTwoMaySwap
        <5>7. QED
          BY <4>3, <4>4, <5>3, <5>4, <5>6 DEF p
      <4>8. QED
        BY <4>6, <4>7
    <3>2. CASE n + 1 # k + 1
      <4>1. swapped[n + 1] = list[n + 1]
        BY <1>3, <2>1, <2>3, <3>2
      <4>2. CASE n = 0
        BY <1>4, <1>5, <2>1, <4>1, <4>2
      <4>3. CASE n # 0
        <5>1. n \in 1 .. n /\ n # k /\ n + 1 # 1 /\ (n + 1) - 1 = n
          BY <1>1, <2>1, <3>2, <4>3
        <5>2. g[n] = f[n]
          BY <1>7, <5>1
        <5>3. f[n + 1] = ThirdSchema(f[n], list[n + 1])
          BY <1>4, <2>1, <5>1
        <5>4. g[n + 1] = ThirdSchema(g[n], swapped[n + 1])
          BY <1>5, <2>1, <5>1
        <5>5. QED
          BY <4>1, <5>2, <5>3, <5>4
      <4>4. QED
        BY <4>2, <4>3
    <3>3. QED
      BY <3>1, <3>2
  <2>4. QED
    BY <2>2, <2>3
<1> HIDE DEF Same
<1>8. ASSUME NEW n \in 0 .. length - 1, n \in good PROVE n + 1 \in good
  <2>1. \A j \in 1 .. n : Same(j)
    BY <1>8
  <2>2. Same(n + 1)
    BY <1>7, <2>1
  <2>3. \A j \in 1 .. n + 1 : j \in 1 .. n \/ j = n + 1
    BY <1>1
  <2>4. QED
    BY <1>1, <2>1, <2>2, <2>3
<1>9. good = 0 .. length
  <2>1. good \in SUBSET (0 .. length)
    OBVIOUS
  <2> HIDE DEF good
  <2>2. QED
    BY <1>1, <1>6, <1>8, <2>1, UpTo
<1>10. length \in good /\ length \in 1 .. length /\ length # k
  <2>1. length # k
    BY DEF length
  <2>2. length \in 0 .. length /\ length \in 1 .. length
    BY <1>1
  <2> HIDE DEF good
  <2>3. QED
    BY <1>9, <2>1, <2>2
<1>11. Same(length)
  BY <1>10
<1>12. g[length] = f[length]
  BY <1>10, <1>11 DEF Same
<1>13. QED
  BY <1>4, <1>5, <1>12 DEF swapped

(* On numbers, a list is merged to what all of it says.                    *)
LEMMA ListsMeetOnNumbers ==
  ASSUME NEW S, NEW list \in Seq(S), \A schema \in S : WellTyped(schema), list # << >>,
         MergeList(list) # Rejected, NEW v, IsValue(v), v.kind = "number", NEW declared
  PROVE  Apart(MergeList(list), v, declared) <=> \A schema \in Range(list) : Apart(schema, v, declared)
<1> DEFINE length == Len(list)
           merged == CHOOSE f : IsFold(f, list, length)
<1>1. length \in Nat \ {0} /\ DOMAIN list = 1 .. length /\ \A i \in 1 .. length : list[i] \in S
  OBVIOUS
<1>2. IsFold(merged, list, length)
  BY <1>1, FoldExists
<1>3. MergeList(list) = Then(merged[length], FinalizeMerged)
  BY DEF MergeList, IsFold
<1> HIDE DEF merged
<1>4. \A i \in 1 .. length :
        merged[i] = IF i = 1 THEN list[1]
                    ELSE IF merged[i - 1] = Rejected THEN Rejected ELSE MergePair(merged[i - 1], list[i])
  BY <1>2 DEF IsFold
<1> DEFINE Does(schema) == Apart(schema, v, declared)
           good == { n \in 0 .. length :
                       n # 0 /\ merged[n] # Rejected =>
                         /\ WellTyped(merged[n])
                         /\ Does(merged[n]) <=> \A i \in 1 .. n : Does(list[i]) }
<1>5. 0 \in good
  BY <1>1
<1>6. ASSUME NEW n \in 0 .. length - 1, n \in good PROVE n + 1 \in good
  <2>1. n + 1 \in 1 .. length /\ n + 1 \in 0 .. length /\ WellTyped(list[n + 1])
    BY <1>1
  <2>2. SUFFICES ASSUME merged[n + 1] # Rejected
                 PROVE  /\ WellTyped(merged[n + 1])
                        /\ Does(merged[n + 1]) <=> \A i \in 1 .. n + 1 : Does(list[i])
    BY <2>1
  <2>3. CASE n = 0
    <3>1. merged[1] = list[1] /\ 1 .. 1 = {1}
      BY <1>4, <2>1, <2>3
    <3>2. QED
      BY <2>1, <2>3, <3>1
  <2>4. CASE n # 0
    <3>1. merged[n] # Rejected /\ merged[n + 1] = MergePair(merged[n], list[n + 1])
      BY <1>1, <1>4, <2>1, <2>2, <2>4
    <3>2. WellTyped(merged[n]) /\ (Does(merged[n]) <=> \A i \in 1 .. n : Does(list[i]))
      BY <1>6, <2>4, <3>1
    <3>3. MergePair(merged[n], list[n + 1]) # Rejected
      BY <2>2, <3>1
    <3>4. Does(MergePair(merged[n], list[n + 1])) <=> Does(merged[n]) /\ Does(list[n + 1])
      BY <2>1, <3>2, <3>3, PairsMeetOnNumbers
    <3>5. WellTyped(MergePair(merged[n], list[n + 1]))
      BY <2>1, <3>2, <3>3, PairTyping
    <3>6. 1 .. n + 1 = (1 .. n) \cup {n + 1}
      BY <1>1
    <3> HIDE DEF Does
    <3>7. QED
      BY <3>1, <3>2, <3>4, <3>5, <3>6
  <2>5. QED
    BY <2>3, <2>4
<1>7. good = 0 .. length
  <2>1. good \in SUBSET (0 .. length)
    OBVIOUS
  <2> HIDE DEF good
  <2>2. QED
    BY <1>1, <1>5, <1>6, <2>1, UpTo
<1>8. length \in good
  BY <1>1, <1>7
<1>9. merged[length] # Rejected /\ MergeList(list) = FinalizeMerged(merged[length])
  BY <1>3 DEF Then
<1>10. WellTyped(merged[length]) /\ (Does(merged[length]) <=> \A i \in 1 .. length : Does(list[i]))
  BY <1>1, <1>8, <1>9
<1>11. Does(FinalizeMerged(merged[length])) <=> Does(merged[length])
  BY <1>9, <1>10, FinalizeKeepsMeaning
<1> HIDE DEF Does
<1>12. Does(MergeList(list)) <=> \A schema \in Range(list) : Does(schema)
  BY <1>1, <1>9, <1>10, <1>11 DEF Range
<1>13. QED
  BY <1>12 DEF Does

-----------------------------------------------------------------------------
(* expand_branches of a child.                                             *)

Own(schema) == Without(schema, {"$ref", "allOf"})
OwnParts == { Own(schema) : schema \in Schemas }

(* Its conjuncts, together, say of numbers what a schema says.             *)
Expands(schema) ==
  /\ Conjuncts(schema) \in Seq(OwnParts)
  /\ DOMAIN schema # {} => Conjuncts(schema) # << >>
  /\ \A n \in Elements :
       Apart(schema, Number(n), {}) <=> \A part \in Range(Conjuncts(schema)) : Apart(part, Number(n), {})

(* A schema without its reference and its allOf.                           *)
LEMMA OwnIs ==
  ASSUME NEW schema
  PROVE  /\ DOMAIN Own(schema) = DOMAIN schema \ {"$ref", "allOf"}
         /\ \A key \in DOMAIN Own(schema) : Own(schema)[key] = schema[key]
<1>1. Own(schema) = [ key \in DOMAIN schema \ {"$ref", "allOf"} |-> schema[key] ]
  BY DEF Own, Without
<1>2. QED
  BY <1>1

(* The conjuncts are typed.                                                *)
LEMMA OwnPartsTyped == \A part \in OwnParts : WellTyped(part)
<1> SUFFICES ASSUME NEW schema \in Schemas PROVE WellTyped(Own(schema))
  BY DEF OwnParts
<1>1. WellTyped(schema)
  BY SchemasAssumption
<1> DEFINE own == Own(schema)
<1>2. DOMAIN own \subseteq DOMAIN schema /\ \A key \in DOMAIN own : own[key] = schema[key]
  BY OwnIs
<1> HIDE DEF own
<1>3. QED
  BY <1>1, <1>2, WellTypedIs DEF own

(* From a reference, from the branches of an allOf, and what is left.      *)
FromReference(schema) ==
  IF Has(schema, "$ref") THEN Conjuncts(Target[schema["$ref"]]) ELSE << >>
FromAllOf(schema) ==
  IF Has(schema, "allOf")
  THEN FlattenSeq([ n \in DOMAIN schema["allOf"] |-> Conjuncts(schema["allOf"][n]) ]) ELSE << >>
FromItself(schema) == IF Own(schema) = Empty THEN << >> ELSE << Own(schema) >>

(* expand_branches has three parts.                                        *)
LEMMA ConjunctsAre ==
  ASSUME NEW schema \in Schemas
  PROVE  Conjuncts(schema) = FromReference(schema) \o FromAllOf(schema) \o FromItself(schema)
<1>1. Has(schema, "$ref") => ConjunctsBelow(Target[schema["$ref"]]) = Conjuncts(Target[schema["$ref"]])
  BY SchemasAssumption, RecursionAssumption
<1>2. Has(schema, "allOf") =>
        \A n \in DOMAIN schema["allOf"] :
          ConjunctsBelow(schema["allOf"][n]) = Conjuncts(schema["allOf"][n])
  <2>1. Has(schema, "allOf") => schema["allOf"] \in Seq(Schemas)
    BY SchemasAssumption
  <2>2. QED
    BY <2>1, RecursionAssumption
<1>3. Has(schema, "allOf") =>
        [ n \in DOMAIN schema["allOf"] |-> ConjunctsBelow(schema["allOf"][n]) ]
          = [ n \in DOMAIN schema["allOf"] |-> Conjuncts(schema["allOf"][n]) ]
  BY <1>2
<1>4. (IF Has(schema, "$ref") THEN ConjunctsBelow(Target[schema["$ref"]]) ELSE << >>)
        = FromReference(schema)
  BY <1>1 DEF FromReference
<1>5. (IF Has(schema, "allOf")
       THEN FlattenSeq([ n \in DOMAIN schema["allOf"] |-> ConjunctsBelow(schema["allOf"][n]) ])
       ELSE << >>) = FromAllOf(schema)
  BY <1>3 DEF FromAllOf
<1>6. Conjuncts(schema) =
        (IF Has(schema, "$ref") THEN ConjunctsBelow(Target[schema["$ref"]]) ELSE << >>)
        \o (IF Has(schema, "allOf")
            THEN FlattenSeq([ n \in DOMAIN schema["allOf"] |-> ConjunctsBelow(schema["allOf"][n]) ])
            ELSE << >>)
        \o FromItself(schema)
  BY DEF Conjuncts, FromItself, Own
<1>7. QED
  BY <1>4, <1>5, <1>6

(* A reference says what the conjuncts of its target say.                  *)
LEMMA ReferenceExpands ==
  ASSUME NEW schema \in Schemas, Has(schema, "$ref") => Expands(Target[schema["$ref"]])
  PROVE  /\ FromReference(schema) \in Seq(OwnParts)
         /\ Has(schema, "$ref") => FromReference(schema) # << >>
         /\ \A n \in Elements :
              (Has(schema, "$ref") => Says("$ref", schema["$ref"], Number(n), {}))
                <=> \A part \in Range(FromReference(schema)) : Apart(part, Number(n), {})
<1>1. CASE ~ Has(schema, "$ref")
  <2>1. FromReference(schema) = << >> /\ Range(<< >>) = {}
    BY <1>1 DEF FromReference, Range
  <2>2. QED
    BY <1>1, <2>1
<1>2. CASE Has(schema, "$ref")
  <2> DEFINE target == Target[schema["$ref"]]
  <2>1. FromReference(schema) = Conjuncts(target)
    BY <1>2 DEF FromReference
  <2>2. target \in Schemas /\ DOMAIN target # {} /\ Expands(target)
    BY <1>2, SchemasAssumption
  <2>3. ASSUME NEW n \in Elements
        PROVE  Says("$ref", schema["$ref"], Number(n), {}) <=> Apart(target, Number(n), {})
    <3>1. Says("$ref", schema["$ref"], Number(n), {}) <=> AcceptsBelow(target, Number(n), {})
      BY DEF Says, SaysOfNumber, SaysOfString, SaysOfArray, SaysOfObject, SaysOfAny
    <3> HIDE DEF target
    <3>2. QED
      BY <2>2, <3>1, BelowIs
  <2> HIDE DEF target
  <2>4. QED
    BY <1>2, <2>1, <2>2, <2>3 DEF Expands
<1>3. QED
  BY <1>1, <1>2

(* An allOf says what the conjuncts of its branches say.                   *)
LEMMA AllOfExpands ==
  ASSUME NEW schema \in Schemas,
         Has(schema, "allOf") => \A branch \in Range(schema["allOf"]) : Expands(branch)
  PROVE  /\ FromAllOf(schema) \in Seq(OwnParts)
         /\ Has(schema, "allOf") => FromAllOf(schema) # << >>
         /\ \A n \in Elements :
              (Has(schema, "allOf") => Says("allOf", schema["allOf"], Number(n), {}))
                <=> \A part \in Range(FromAllOf(schema)) : Apart(part, Number(n), {})
<1>1. CASE ~ Has(schema, "allOf")
  <2>1. FromAllOf(schema) = << >> /\ Range(<< >>) = {}
    BY <1>1 DEF FromAllOf, Range
  <2>2. QED
    BY <1>1, <2>1
<1>2. CASE Has(schema, "allOf")
  <2> DEFINE all == schema["allOf"]
             lists == [ i \in DOMAIN all |-> Conjuncts(all[i]) ]
  <2>1. FromAllOf(schema) = FlattenSeq(lists)
    BY <1>2 DEF FromAllOf
  <2>2. all \in Seq(Schemas) /\ \A i \in DOMAIN all : all[i] \in Schemas /\ Expands(all[i])
    BY <1>2, SchemasAssumption DEF Range
  <2>3. PICK some \in DOMAIN all : DOMAIN all[some] # {}
    BY <1>2, SchemasAssumption DEF Range
  <2> HIDE DEF all
  <2>4. lists \in Seq(Seq(OwnParts))
    <3>1. \A i \in DOMAIN all : Conjuncts(all[i]) \in Seq(OwnParts)
      BY <2>2 DEF Expands
    <3>2. DOMAIN all = 1 .. Len(all) /\ Len(all) \in Nat
      BY <2>2
    <3>3. QED
      BY <3>1, <3>2
  <2>5. DOMAIN lists = DOMAIN all /\ \A i \in DOMAIN all : lists[i] = Conjuncts(all[i])
    OBVIOUS
  <2> HIDE DEF lists
  <2>6. /\ FlattenSeq(lists) \in Seq(OwnParts)
        /\ Range(FlattenSeq(lists)) = UNION { Range(lists[i]) : i \in DOMAIN lists }
    BY <2>4, FlattenedRange
  <2>7. FlattenSeq(lists) # << >>
    <3>1. Conjuncts(all[some]) # << >> /\ Conjuncts(all[some]) \in Seq(OwnParts)
      BY <2>2, <2>3 DEF Expands
    <3>2. 1 \in DOMAIN Conjuncts(all[some])
      BY <3>1
    <3>3. Conjuncts(all[some])[1] \in Range(lists[some])
      BY <2>5, <3>2 DEF Range
    <3>4. Range(FlattenSeq(lists)) # {}
      BY <2>5, <2>6, <3>3
    <3>5. QED
      BY <3>4 DEF Range
  <2>8. ASSUME NEW n \in Elements
        PROVE  Says("allOf", all, Number(n), {})
                 <=> \A part \in Range(FlattenSeq(lists)) : Apart(part, Number(n), {})
    <3>1. Says("allOf", all, Number(n), {}) <=> \A i \in DOMAIN all : AcceptsBelow(all[i], Number(n), {})
      BY DEF Says, SaysOfNumber, SaysOfString, SaysOfArray, SaysOfObject, SaysOfAny
    <3>2. \A i \in DOMAIN all : AcceptsBelow(all[i], Number(n), {}) <=> Apart(all[i], Number(n), {})
      BY <2>2, BelowIs
    <3>3. \A i \in DOMAIN all :
            Apart(all[i], Number(n), {}) <=> \A part \in Range(lists[i]) : Apart(part, Number(n), {})
      BY <2>2, <2>5 DEF Expands
    <3>4. QED
      BY <2>5, <2>6, <3>1, <3>2, <3>3
  <2>9. QED
    BY <1>2, <2>1, <2>6, <2>7, <2>8 DEF all
<1>3. QED
  BY <1>1, <1>2

(* The rest of a schema is a conjunct, if there is a rest.                 *)
LEMMA ItselfExpands ==
  ASSUME NEW schema \in Schemas
  PROVE  /\ FromItself(schema) \in Seq(OwnParts)
         /\ DOMAIN schema \ {"$ref", "allOf"} # {} => FromItself(schema) # << >>
         /\ \A n \in Elements :
              (\A key \in DOMAIN schema \ {"$ref", "allOf"} : Says(key, schema[key], Number(n), {}))
                <=> \A part \in Range(FromItself(schema)) : Apart(part, Number(n), {})
<1> DEFINE own == Own(schema)
<1>1. /\ DOMAIN own = DOMAIN schema \ {"$ref", "allOf"}
      /\ \A key \in DOMAIN own : own[key] = schema[key]
  BY OwnIs
<1>2. own \in OwnParts
  BY DEF OwnParts
<1>3. own = Empty <=> DOMAIN own = {}
  <2>1. DOMAIN Empty = {}
    BY DEF Empty
  <2>2. DOMAIN schema \ {"$ref", "allOf"} = {} => own = Empty
    BY DEF Own, Without, Empty
  <2> HIDE DEF own
  <2>3. QED
    BY <1>1, <2>1, <2>2
<1> HIDE DEF own
<1>4. FromItself(schema) = IF own = Empty THEN << >> ELSE << own >>
  BY DEF FromItself, own
<1>5. CASE own = Empty
  <2>1. FromItself(schema) = << >> /\ Range(<< >>) = {}
    BY <1>4, <1>5 DEF Range
  <2>2. QED
    BY <1>1, <1>3, <1>5, <2>1
<1>6. CASE own # Empty
  <2>1. FromItself(schema) = << own >>
    BY <1>4, <1>6
  <2>2. << own >> \in Seq(OwnParts) /\ << own >> # << >> /\ Range(<< own >>) = {own}
    <3>1. << own >> \in Seq(OwnParts) /\ DOMAIN << own >> = {1} /\ << own >>[1] = own
      BY <1>2, 1 .. 1 = {1}
    <3>2. QED
      BY <3>1 DEF Range
  <2>3. \A n \in Elements :
          Apart(own, Number(n), {})
            <=> \A key \in DOMAIN schema \ {"$ref", "allOf"} : Says(key, schema[key], Number(n), {})
    BY <1>1 DEF Apart
  <2>4. QED
    BY <2>1, <2>2, <2>3
<1>7. QED
  BY <1>5, <1>6

(* From what a schema refers to, to the schema.                            *)
LEMMA ExpandsWhenPartsDo ==
  ASSUME NEW schema \in Schemas,
         \A part \in Schemas : Nesting[part] < Nesting[schema] => Expands(part)
  PROVE  Expands(schema)
<1>1. Has(schema, "$ref") => Expands(Target[schema["$ref"]])
  BY SchemasAssumption
<1>2. Has(schema, "allOf") => \A branch \in Range(schema["allOf"]) : Expands(branch)
  <2>1. Has(schema, "allOf") => Range(schema["allOf"]) \subseteq Schemas
    BY SchemasAssumption, RangeOfSeq
  <2>2. QED
    BY <2>1, SchemasAssumption
<1> DEFINE r == FromReference(schema)
           a == FromAllOf(schema)
           i == FromItself(schema)
<1>3. /\ r \in Seq(OwnParts) /\ a \in Seq(OwnParts) /\ i \in Seq(OwnParts)
      /\ Has(schema, "$ref") => r # << >>
      /\ Has(schema, "allOf") => a # << >>
      /\ DOMAIN schema \ {"$ref", "allOf"} # {} => i # << >>
  BY <1>1, <1>2, ReferenceExpands, AllOfExpands, ItselfExpands
<1>4. ASSUME NEW n \in Elements
      PROVE  Apart(schema, Number(n), {})
               <=> \A part \in Range(r) \cup Range(a) \cup Range(i) : Apart(part, Number(n), {})
  <2>1. (Has(schema, "$ref") => Says("$ref", schema["$ref"], Number(n), {}))
                <=> \A part \in Range(r) : Apart(part, Number(n), {})
    BY <1>1, ReferenceExpands
  <2>2. (Has(schema, "allOf") => Says("allOf", schema["allOf"], Number(n), {}))
                <=> \A part \in Range(a) : Apart(part, Number(n), {})
    BY <1>2, AllOfExpands
  <2>3. (\A key \in DOMAIN schema \ {"$ref", "allOf"} : Says(key, schema[key], Number(n), {}))
                <=> \A part \in Range(i) : Apart(part, Number(n), {})
    BY ItselfExpands
  <2>4. Apart(schema, Number(n), {})
          <=> /\ Has(schema, "$ref") => Says("$ref", schema["$ref"], Number(n), {})
              /\ Has(schema, "allOf") => Says("allOf", schema["allOf"], Number(n), {})
              /\ \A key \in DOMAIN schema \ {"$ref", "allOf"} : Says(key, schema[key], Number(n), {})
    BY DEF Apart, Has
  <2> HIDE DEF r, a, i
  <2>5. QED
    BY <2>1, <2>2, <2>3, <2>4
<1>5. Conjuncts(schema) = r \o a \o i
  BY ConjunctsAre
<1> HIDE DEF r, a, i
<1>6. /\ r \o a \in Seq(OwnParts) /\ Len(r \o a) = Len(r) + Len(a)
      /\ Range(r \o a) = Range(r) \cup Range(a)
  BY <1>3, ConcatProperties, RangeConcatenation
<1>7. /\ Conjuncts(schema) \in Seq(OwnParts) /\ Len(Conjuncts(schema)) = Len(r) + Len(a) + Len(i)
      /\ Range(Conjuncts(schema)) = Range(r) \cup Range(a) \cup Range(i)
  <2> DEFINE ra == r \o a
  <2>1. /\ ra \in Seq(OwnParts) /\ Len(ra) = Len(r) + Len(a) /\ Range(ra) = Range(r) \cup Range(a)
        /\ Conjuncts(schema) = ra \o i
    BY <1>5, <1>6
  <2> HIDE DEF ra
  <2>2. ra \o i \in Seq(OwnParts) /\ Len(ra \o i) = Len(ra) + Len(i)
    BY <1>3, <2>1, ConcatProperties
  <2>3. Range(ra \o i) = Range(ra) \cup Range(i)
    BY <1>3, <2>1, RangeConcatenation
  <2>4. QED
    BY <2>1, <2>2, <2>3
<1>8. DOMAIN schema # {} => Conjuncts(schema) # << >>
  <2>1. DOMAIN schema # {} => r # << >> \/ a # << >> \/ i # << >>
    BY <1>3 DEF Has
  <2>2. /\ Len(r) \in Nat /\ Len(a) \in Nat /\ Len(i) \in Nat
        /\ r # << >> => Len(r) # 0
        /\ a # << >> => Len(a) # 0
        /\ i # << >> => Len(i) # 0
    BY <1>3, EmptySeq, LenProperties
  <2>3. DOMAIN schema # {} => Len(Conjuncts(schema)) # 0
    BY <1>7, <2>1, <2>2
  <2>4. QED
    BY <2>3, EmptySeq
<1>9. QED
  BY <1>4, <1>7, <1>8 DEF Expands

(* Induction over the nesting.                                             *)
LEMMA AllExpand == \A schema \in Schemas : Expands(schema)
<1> SUFFICES ASSUME NEW schema \in Schemas PROVE Expands(schema)
  OBVIOUS
<1> DEFINE bound == Nesting[schema]
           good == { n \in 0 .. bound : \A part \in Schemas : Nesting[part] <= n => Expands(part) }
<1>0. bound \in Nat /\ \A part \in Schemas : Nesting[part] \in Nat
  BY SchemasAssumption
<1>1. 0 \in good
  <2>1. ASSUME NEW part \in Schemas, Nesting[part] <= 0 PROVE Expands(part)
    <3>1. \A other \in Schemas : ~ Nesting[other] < Nesting[part]
      BY <1>0, <2>1
    <3>2. QED
      BY <3>1, ExpandsWhenPartsDo
  <2>2. QED
    BY <1>0, <2>1
<1>2. ASSUME NEW n \in 0 .. bound - 1, n \in good PROVE n + 1 \in good
  <2>1. ASSUME NEW part \in Schemas, Nesting[part] <= n + 1 PROVE Expands(part)
    <3>1. \A other \in Schemas : Nesting[other] < Nesting[part] => Nesting[other] <= n
      BY <1>0, <2>1
    <3>2. \A other \in Schemas : Nesting[other] < Nesting[part] => Expands(other)
      BY <1>2, <3>1
    <3>3. QED
      BY <3>2, ExpandsWhenPartsDo
  <2>2. QED
    BY <1>0, <2>1
<1>3. good = 0 .. bound
  <2>1. good \in SUBSET (0 .. bound)
    OBVIOUS
  <2> HIDE DEF good, bound
  <2>2. QED
    BY <1>0, <1>1, <1>2, <2>1, UpTo
<1>4. bound \in good
  <2> HIDE DEF good, bound
  <2>1. QED
    BY <1>0, <1>3
<1>5. QED
  BY <1>0, <1>4

-----------------------------------------------------------------------------
(* normalize_children.                                                     *)

(* Children are schemas, and so is what they are flattened to.             *)
LEMMA SchemasOnly ==
  ASSUME NEW k \in 1 .. MaxBranches
  PROVE  /\ Children[k] \subseteq Schemas
         /\ \A child \in Children[k] : Flatten(child) \in Schemas \cup {Rejected}
         /\ Open \notin Schemas /\ Closed \notin Schemas
BY ChildrenAssumption

(* What a child is flattened to says of numbers what the child says.       *)
LEMMA FlattenMeets ==
  ASSUME NEW k \in 1 .. MaxBranches, NEW child \in Children[k], Flatten(child) # Rejected
  PROVE  Flatten(child) \in Schemas /\ SameMatcher(Flatten(child), child)
<1> DEFINE flat == Flatten(child)
<1>1. flat \in Schemas /\ child \in Schemas
  BY SchemasOnly
<1>2. CASE Has(child, "allOf") \/ (Has(child, "$ref") /\ DOMAIN child # {"$ref"})
  <2> DEFINE list == Conjuncts(child)
  <2>1. flat = MergeConjuncts(list)
    BY <1>2 DEF Flatten
  <2>2. flat = MergeList(list) /\ MergeList(list) # Rejected
    BY <2>1 DEF MergeConjuncts
  <2>3. /\ list \in Seq(OwnParts) /\ list # << >>
        /\ \A n \in Elements :
             Apart(child, Number(n), {}) <=> \A part \in Range(list) : Apart(part, Number(n), {})
    <3>1. DOMAIN child # {}
      BY <1>2 DEF Has
    <3>2. QED
      BY <1>1, <3>1, AllExpand DEF Expands
  <2> HIDE DEF flat, list
  <2>4. ASSUME NEW n \in Elements
        PROVE  AcceptsBelow(flat, Number(n), {}) <=> AcceptsBelow(child, Number(n), {})
    <3> DEFINE v == Number(n)
    <3>1. IsValue(v) /\ v.kind = "number"
      BY ValuesAre
    <3>2. /\ AcceptsBelow(flat, v, {}) <=> Apart(flat, v, {})
          /\ AcceptsBelow(child, v, {}) <=> Apart(child, v, {})
      BY <1>1, BelowIs
    <3>3. Apart(child, v, {}) <=> \A part \in Range(list) : Apart(part, v, {})
      BY <2>3
    <3> HIDE DEF v
    <3>4. Apart(MergeList(list), v, {}) <=> \A part \in Range(list) : Apart(part, v, {})
      BY <2>2, <2>3, <3>1, OwnPartsTyped, ListsMeetOnNumbers
    <3>5. QED
      BY <2>2, <3>2, <3>3, <3>4 DEF v
  <2>5. QED
    BY <1>1, <2>4 DEF SameMatcher, flat
<1>3. CASE ~ (Has(child, "allOf") \/ (Has(child, "$ref") /\ DOMAIN child # {"$ref"}))
  BY <1>1, <1>3 DEF Flatten, SameMatcher
<1>4. QED
  BY <1>2, <1>3

(* One keyword, flattened.                                                 *)
LEMMA FlattenedProperties ==
  ASSUME NEW k \in 1 .. MaxBranches, NEW x, \A name \in DOMAIN x : x[name] \in Children[k],
         FlattenValue("properties", x) # Rejected, NEW v, IsValue(v), NEW declared
  PROVE  /\ DOMAIN FlattenValue("properties", x) = DOMAIN x
         /\ Says("properties", FlattenValue("properties", x), v, declared)
              <=> Says("properties", x, v, declared)
<1> DEFINE parts == [ name \in DOMAIN x |-> Flatten(x[name]) ]
           flat == FlattenValue("properties", x)
<1>0. FlattenValue("properties", x) = OrRejected(parts)
  BY DEF FlattenValue, ChildKeywords
<1>1. flat = OrRejected(parts) /\ flat # Rejected
  BY <1>0
<1>2. DOMAIN parts = DOMAIN x /\ \A name \in DOMAIN x : parts[name] = Flatten(x[name])
  OBVIOUS
<1> HIDE DEF parts, flat
<1>3. flat = parts /\ \A name \in DOMAIN parts : parts[name] # Rejected
  BY <1>1, OrRejectedIs
<1>4. DOMAIN flat = DOMAIN x /\ \A name \in DOMAIN x : SameMatcher(flat[name], x[name])
  BY <1>2, <1>3, FlattenMeets
<1>5. Says("properties", flat, v, declared) <=> Says("properties", x, v, declared)
  <2> DEFINE Holds(schema, name) == AcceptsBelow(schema, Number(v.members[name]), {})
  <2>1. CASE v.kind = "object"
    <3>1. \A z : Says("properties", z, v, declared)
                   <=> \A name \in DOMAIN z \cap DOMAIN v.members : Holds(z[name], name)
      BY <2>1, SaysProperties
    <3>2. \A name \in DOMAIN x \cap DOMAIN v.members : Holds(flat[name], name) <=> Holds(x[name], name)
      BY <1>4, <2>1, PartsAreElements DEF SameMatcher
    <3> HIDE DEF Holds
    <3>3. QED
      BY <1>4, <3>1, <3>2
  <2>2. CASE v.kind # "object"
    BY <2>2, SaysProperties
  <2>3. QED
    BY <2>1, <2>2
<1>6. QED
  BY <1>4, <1>5 DEF flat

(* The others, and that nothing but children changes.                      *)
LEMMA FlattenedKeyword ==
  ASSUME NEW k \in 1 .. MaxBranches, NEW key, NEW x, ChildTyped(key, x, Children[k]),
         FlattenValue(key, x) # Rejected,
         NEW v, IsValue(v), NEW declared
  PROVE  /\ Says(key, FlattenValue(key, x), v, declared) <=> Says(key, x, v, declared)
         /\ key = "properties" => DOMAIN FlattenValue(key, x) = DOMAIN x
         /\ key = "contains" => SameMatcher(FlattenValue(key, x), x)
         /\ key \notin ChildKeys \cup {"contains"} => FlattenValue(key, x) = x
<1> DEFINE flat == FlattenValue(key, x)
<1>1. CASE key = "properties"
  <2>1. \A name \in DOMAIN x : x[name] \in Children[k]
    BY <1>1 DEF ChildTyped
  <2>2. QED
    BY <1>1, <2>1, FlattenedProperties DEF ChildKeys
<1>2. CASE key \in ChildKeywords \cup {"contains"} /\ x \notin {Open, Closed}
  <2>1. flat = Flatten(x)
    BY <1>2 DEF FlattenValue, ChildKeywords
  <2>2. x \in Children[k]
    BY <1>2 DEF ChildTyped, ChildKeywords
  <2>3. flat \in Schemas /\ SameMatcher(flat, x)
    BY <2>1, <2>2, FlattenMeets
  <2>4. flat \notin {Open, Closed}
    BY <2>3, SchemasOnly
  <2> HIDE DEF flat
  <2>5. CASE key = "items"
    <3>1. Says("items", flat, v, declared) <=> Says("items", x, v, declared)
      BY <2>3, SaysItems, PartsAreElements DEF SameMatcher
    <3>2. QED
      BY <2>5, <3>1 DEF flat, ChildKeys
  <2>6. CASE key = "additionalProperties"
    <3>1. Says("additionalProperties", flat, v, declared) <=> Says("additionalProperties", x, v, declared)
      BY <1>2, <2>3, <2>4, SaysAdditionalProperties, PartsAreElements DEF SameMatcher
    <3>2. QED
      BY <2>6, <3>1 DEF flat, ChildKeys
  <2>7. CASE key = "contains"
    <3>1. \A z : Says("contains", z, v, declared)
      BY DEF Says, SaysOfNumber, SaysOfString, SaysOfArray, SaysOfObject, SaysOfAny
    <3>2. QED
      BY <2>3, <2>7, <3>1 DEF flat
  <2>8. QED
    BY <1>2, <2>5, <2>6, <2>7 DEF ChildKeywords
<1>3. CASE key # "properties" /\ ~ (key \in ChildKeywords \cup {"contains"} /\ x \notin {Open, Closed})
  <2>1. flat = x
    BY <1>3 DEF FlattenValue
  <2>2. QED
    BY <1>3, <2>1 DEF SameMatcher
<1>4. QED
  BY <1>1, <1>2, <1>3

(* normalize_children, keyword by keyword.                                 *)
LEMMA FlattenChildrenMeets ==
  ASSUME NEW k \in 1 .. MaxBranches, NEW schema, ChildrenIn(schema, Children[k]),
         FlattenChildren(schema) # Rejected
  PROVE  /\ Meets(FlattenChildren(schema), schema, schema)
         /\ DOMAIN FlattenChildren(schema) = DOMAIN schema
         /\ Dominated(FlattenChildren(schema)) = Dominated(schema)
<1> DEFINE parts == [ key \in DOMAIN schema |-> FlattenValue(key, schema[key]) ]
           flat == FlattenChildren(schema)
<1>1. flat = OrRejected(parts) /\ flat # Rejected
  BY DEF FlattenChildren
<1>2. DOMAIN parts = DOMAIN schema /\ \A key \in DOMAIN schema : parts[key] = FlattenValue(key, schema[key])
  OBVIOUS
<1> HIDE DEF parts, flat
<1>3. flat = parts /\ \A key \in DOMAIN parts : parts[key] # Rejected
  BY <1>1, OrRejectedIs
<1>4. /\ DOMAIN flat = DOMAIN schema
      /\ \A key \in DOMAIN schema : /\ flat[key] = FlattenValue(key, schema[key])
                                    /\ FlattenValue(key, schema[key]) # Rejected
                                    /\ ChildTyped(key, schema[key], Children[k])
  BY <1>2, <1>3, ChildrenInIs
<1>5. ASSUME NEW v, IsValue(v), NEW declared, NEW key \in DOMAIN schema
      PROVE  /\ Says(key, flat[key], v, declared) <=> Says(key, schema[key], v, declared)
             /\ key = "properties" => DOMAIN flat[key] = DOMAIN schema[key]
             /\ key = "contains" => SameMatcher(flat[key], schema[key])
             /\ key \notin ChildKeys \cup {"contains"} => flat[key] = schema[key]
  BY <1>4, <1>5, FlattenedKeyword
<1>6. \E v : IsValue(v)
  <2>1. IsValue([ kind |-> "number", twice |-> 0 ])
    BY DEF IsValue
  <2>2. QED
    BY <2>1
<1>7. ASSUME NEW key \in DOMAIN schema
      PROVE  /\ key = "properties" => DOMAIN flat[key] = DOMAIN schema[key]
             /\ key = "contains" => SameMatcher(flat[key], schema[key])
             /\ key \notin ChildKeys \cup {"contains"} => flat[key] = schema[key]
  BY <1>5, <1>6
<1>8. \A v, declared : IsValue(v) => (Apart(flat, v, declared) <=> Apart(schema, v, declared))
  BY <1>4, <1>5 DEF Apart
<1>9. Declared(flat) = Declared(schema)
  BY <1>4, <1>7 DEF Declared, Has
<1>10. \A key \in {"minContains", "maxContains"} \cup Numeric :
         key \in DOMAIN schema => flat[key] = schema[key]
  BY <1>7 DEF ChildKeys, Numeric
<1>11. \A count \in Int : Counts(flat, count) <=> Counts(schema, count)
  BY <1>4, <1>10 DEF Counts, Between, Has
<1>12. Dominated(flat) = Dominated(schema)
  BY <1>4, <1>10 DEF Dominated, Has, Numeric
<1>13. Has(schema, "contains") => SameMatcher(flat["contains"], schema["contains"])
  BY <1>7 DEF Has
<1>14. \A key : Has(flat, key) <=> Has(schema, key)
  BY <1>4 DEF Has
<1>15. Meets(flat, schema, schema)
  BY <1>8, <1>9, <1>11, <1>13, <1>14 DEF Meets
<1>16. QED
  BY <1>4, <1>12, <1>15 DEF flat

-----------------------------------------------------------------------------
(* The invariant, and its steps.                                           *)

(* A schema says what the first branches of a list say, together, keyword  *)
(* by keyword: of other members, what the merge leaves of that (see Says). *)
IsConjunction(schema, list, top) ==
  /\ \A v, declared : IsValue(v) =>
       (Apart(schema, v, declared) <=> \A n \in 1 .. top : Apart(list[n], v, declared))
  /\ Declared(schema) = UNION { Declared(list[n]) : n \in 1 .. top }
  /\ \A count \in Int : Counts(schema, count) <=> \A n \in 1 .. top : Counts(list[n], count)
  /\ Has(schema, "minContains") <=> \E n \in 1 .. top : Has(list[n], "minContains")
  /\ Has(schema, "contains") <=> \E n \in 1 .. top : Has(list[n], "contains")
  /\ \A n \in 1 .. top :
       Has(list[n], "contains") => SameMatcher(schema["contains"], list[n]["contains"])

(* The fold starts with the first branch.                                  *)
LEMMA FirstConjunct == ASSUME NEW list PROVE IsConjunction(list[1], list, 1)
<1>1. 1 .. 1 = {1}
  OBVIOUS
<1>2. UNION { Declared(list[n]) : n \in {1} } = Declared(list[1])
  OBVIOUS
<1>3. QED
  BY <1>1, <1>2 DEF IsConjunction, SameMatcher

(* One more branch.                                                        *)
LEMMA NextConjunct ==
  ASSUME NEW top \in Nat, NEW list, NEW a, NEW m,
         IsConjunction(a, list, top), Meets(m, a, list[top + 1])
  PROVE  IsConjunction(m, list, top + 1)
<1> DEFINE b == list[top + 1]
<1>1. 1 .. top + 1 = (1 .. top) \cup {top + 1}
  OBVIOUS
<1>2. \A v, declared : IsValue(v) =>
        (Apart(m, v, declared) <=> \A n \in 1 .. top + 1 : Apart(list[n], v, declared))
  BY <1>1 DEF IsConjunction, Meets
<1>3. Declared(m) = UNION { Declared(list[n]) : n \in 1 .. top + 1 }
  <2>1. Declared(m) = Declared(a) \cup Declared(b)
    BY DEF Meets
  <2>2. Declared(a) = UNION { Declared(list[n]) : n \in 1 .. top }
    BY DEF IsConjunction
  <2>3. UNION { Declared(list[n]) : n \in (1 .. top) \cup {top + 1} }
          = (UNION { Declared(list[n]) : n \in 1 .. top }) \cup Declared(b)
    OBVIOUS
  <2>4. QED
    BY <1>1, <2>1, <2>2, <2>3
<1>4. \A count \in Int : Counts(m, count) <=> \A n \in 1 .. top + 1 : Counts(list[n], count)
  BY <1>1 DEF IsConjunction, Meets
<1>5. /\ Has(m, "minContains") <=> \E n \in 1 .. top + 1 : Has(list[n], "minContains")
      /\ Has(m, "contains") <=> \E n \in 1 .. top + 1 : Has(list[n], "contains")
  BY <1>1 DEF IsConjunction, Meets
<1>6. ASSUME NEW n \in 1 .. top + 1, Has(list[n], "contains")
      PROVE  SameMatcher(m["contains"], list[n]["contains"])
  <2>1. CASE n = top + 1
    BY <1>6, <2>1 DEF Meets
  <2>2. CASE n \in 1 .. top
    <3>1. Has(a, "contains") /\ SameMatcher(a["contains"], list[n]["contains"])
      BY <1>6, <2>2 DEF IsConjunction
    <3>2. SameMatcher(m["contains"], a["contains"])
      BY <3>1 DEF Meets
    <3>3. QED
      BY <3>1, <3>2 DEF SameMatcher
  <2>3. QED
    BY <1>1, <2>1, <2>2
<1>7. QED
  BY <1>2, <1>3, <1>4, <1>5, <1>6 DEF IsConjunction

(* A stage that changes no meaning.                                        *)
LEMMA SameConjunction ==
  ASSUME NEW top, NEW list, NEW a, NEW m, IsConjunction(a, list, top), Meets(m, a, a)
  PROVE  IsConjunction(m, list, top)
<1>1. ASSUME NEW n \in 1 .. top, Has(list[n], "contains")
      PROVE  SameMatcher(m["contains"], list[n]["contains"])
  <2>1. Has(a, "contains") /\ SameMatcher(a["contains"], list[n]["contains"])
    BY <1>1 DEF IsConjunction
  <2>2. SameMatcher(m["contains"], a["contains"])
    BY <2>1 DEF Meets
  <2>3. QED
    BY <2>1, <2>2 DEF SameMatcher
<1>2. /\ \A v, declared : IsValue(v) => (Apart(m, v, declared) <=> Apart(a, v, declared))
      /\ Declared(m) = Declared(a)
      /\ \A count \in Int : Counts(m, count) <=> Counts(a, count)
      /\ Has(m, "minContains") <=> Has(a, "minContains")
      /\ Has(m, "contains") <=> Has(a, "contains")
  BY DEF Meets
<1>3. QED
  BY <1>1, <1>2 DEF IsConjunction

(* The node, when n - 1 branches are merged.                               *)
Folded(list, n, a, o) ==
  /\ list \in BranchLists
  /\ n \in 2 .. Len(list) + 1
  /\ o \in {"folding", "merged", "flat", "accepted", "rejected", "unmergeable"}
  /\ DOMAIN a \subseteq UNION { DOMAIN list[i] : i \in 1 .. n - 1 }
  /\ n > 2 /\ o # "unmergeable" => Dominated(a) = {}
  /\ o \in {"folding", "merged"} => WellTyped(a) /\ ChildrenIn(a, Children[n - 1])
  /\ o # "unmergeable" => IsConjunction(a, list, n - 1)

Settles(r, stage, a, a2, o2) ==
  /\ o2 = IF r = Rejected THEN "unmergeable" ELSE stage
  /\ a2 = IF r = Rejected THEN a ELSE r

(* The lists of the instance.                                              *)
LEMMA ListIs ==
  ASSUME NEW list \in BranchLists
  PROVE  /\ MaxBranches \in Nat \ {0} /\ Len(list) \in 1 .. MaxBranches /\ DOMAIN list = 1 .. Len(list)
         /\ \A n \in 1 .. Len(list) :
              /\ WellTyped(list[n]) /\ ChildrenIn(list[n], Children[1])
              /\ Has(list[n], "minContains") => list[n]["minContains"] >= 0
BY BranchesAssumption

(* The invariant holds at first.                                           *)
LEMMA FoldStarts ==
  ASSUME NEW list \in BranchLists PROVE Folded(list, 2, list[1], "folding")
<1>1. Len(list) \in Nat /\ 1 \in 1 .. Len(list) /\ 2 \in 2 .. Len(list) + 1
  BY ListIs
<1>2. WellTyped(list[1]) /\ ChildrenIn(list[1], Children[1])
  BY <1>1, ListIs
<1>3. 2 - 1 = 1 /\ 1 .. 1 = {1}
  OBVIOUS
<1>4. IsConjunction(list[1], list, 1)
  BY FirstConjunct
<1>5. DOMAIN list[1] \subseteq UNION { DOMAIN list[i] : i \in 1 .. 1 }
  BY <1>3
<1>6. QED
  BY <1>1, <1>2, <1>3, <1>4, <1>5 DEF Folded

(* merge_schema_pair keeps it.                                             *)
LEMMA BranchFolds ==
  ASSUME NEW list, NEW n, NEW a, Folded(list, n, a, "folding"), n <= Len(list), NEW a2, NEW o2,
         Settles(MergePair(a, list[n]), "folding", a, a2, o2)
  PROVE  Folded(list, n + 1, a2, o2)
<1> DEFINE r == MergePair(a, list[n])
           k == n - 1
<1>1. /\ list \in BranchLists /\ n \in 2 .. Len(list) + 1 /\ WellTyped(a)
      /\ ChildrenIn(a, Children[k]) /\ IsConjunction(a, list, k)
      /\ DOMAIN a \subseteq UNION { DOMAIN list[i] : i \in 1 .. k }
  BY DEF Folded
<1>2. /\ k \in 1 .. MaxBranches - 1 /\ k \in Nat /\ n = k + 1 /\ n \in 1 .. Len(list)
      /\ n + 1 \in 2 .. Len(list) + 1 /\ (n + 1) - 1 = n /\ k + 1 = n
  BY <1>1, ListIs
<1>3. WellTyped(list[n]) /\ ChildrenIn(list[n], Children[1])
  BY <1>1, <1>2, ListIs
<1>4. 1 .. n = (1 .. k) \cup {n}
  BY <1>2
<1>5. CASE r = Rejected
  <2>1. a2 = a /\ o2 = "unmergeable"
    BY <1>5 DEF Settles
  <2>2. DOMAIN a \subseteq UNION { DOMAIN list[i] : i \in 1 .. n }
    BY <1>1, <1>4
  <2>3. QED
    BY <1>1, <1>2, <2>1, <2>2 DEF Folded
<1>6. CASE r # Rejected
  <2>1. a2 = r /\ o2 = "folding"
    BY <1>6 DEF Settles
  <2>2. Meets(r, a, list[n]) /\ ChildrenIn(r, Children[n])
    <3> HIDE DEF k
    <3>1. Meets(MergePair(a, list[n]), a, list[n]) /\ ChildrenIn(MergePair(a, list[n]), Children[k + 1])
      BY <1>1, <1>2, <1>3, <1>6, SchemasMeet
    <3>2. QED
      BY <1>2, <3>1
  <2>3. WellTyped(r) /\ Dominated(r) = {}
    BY <1>1, <1>3, <1>6, PairTyping
  <2>4. DOMAIN r \subseteq DOMAIN a \cup DOMAIN list[n]
    <3> DEFINE m == MergeTwo(a, list[n])
    <3>1. m # Rejected /\ r = FinalizeMerged(m) /\ WellTyped(m)
      BY <1>1, <1>3, <1>6, PairTyping
    <3>2. IsMerged(m, a, list[n])
      BY <3>1, MergeTwoIs
    <3> HIDE DEF m
    <3>3. DOMAIN m = DOMAIN a \cup DOMAIN list[n]
      BY <3>2 DEF IsMerged
    <3>4. DOMAIN FinalizeMerged(m) \subseteq DOMAIN m
      BY <1>6, <3>1, FinalizeTyping
    <3>5. QED
      BY <3>1, <3>3, <3>4
  <2> HIDE DEF r
  <2>5. IsConjunction(r, list, n)
    <3> HIDE DEF k
    <3>1. Meets(r, a, list[k + 1])
      BY <1>2, <2>2
    <3>2. IsConjunction(r, list, k + 1)
      BY <1>1, <1>2, <3>1, NextConjunct
    <3>3. QED
      BY <1>2, <3>2
  <2>6. DOMAIN r \subseteq UNION { DOMAIN list[i] : i \in 1 .. n }
    BY <1>1, <1>4, <2>4
  <2>7. QED
    BY <1>1, <1>2, <2>1, <2>2, <2>3, <2>5, <2>6 DEF Folded
<1>7. QED
  BY <1>5, <1>6

(* The last finalize_merged keeps it.                                      *)
LEMMA FoldEnds ==
  ASSUME NEW list, NEW n, NEW a, Folded(list, n, a, "folding"), NEW a2, NEW o2,
         Settles(FinalizeMerged(a), "merged", a, a2, o2)
  PROVE  Folded(list, n, a2, o2)
<1> DEFINE r == FinalizeMerged(a)
<1>1. CASE r = Rejected
  <2>1. a2 = a /\ o2 = "unmergeable"
    BY <1>1 DEF Settles
  <2>2. QED
    BY <2>1 DEF Folded
<1>2. CASE r # Rejected
  <2>1. a2 = r /\ o2 = "merged"
    BY <1>2 DEF Settles
  <2>2. WellTyped(a) /\ ChildrenIn(a, Children[n - 1]) /\ IsConjunction(a, list, n - 1)
    BY DEF Folded
  <2>3. Meets(r, a, a) /\ ChildrenIn(r, Children[n - 1])
    BY <1>2, <2>2, FinalMeets
  <2>4. WellTyped(r) /\ Dominated(r) = {} /\ DOMAIN r \subseteq DOMAIN a
    BY <1>2, <2>2, FinalizeTyping
  <2> HIDE DEF r
  <2>5. IsConjunction(r, list, n - 1)
    BY <2>2, <2>3, SameConjunction
  <2>6. QED
    BY <2>1, <2>3, <2>4, <2>5 DEF Folded
<1>3. QED
  BY <1>1, <1>2

(* normalize_children keeps it.                                            *)
LEMMA ChildrenFlatten ==
  ASSUME NEW list, NEW n, NEW a, Folded(list, n, a, "merged"), NEW a2, NEW o2,
         Settles(FlattenChildren(a), "flat", a, a2, o2)
  PROVE  Folded(list, n, a2, o2)
<1> DEFINE r == FlattenChildren(a)
<1>1. CASE r = Rejected
  <2>1. a2 = a /\ o2 = "unmergeable"
    BY <1>1 DEF Settles
  <2>2. QED
    BY <2>1 DEF Folded
<1>2. CASE r # Rejected
  <2>1. a2 = r /\ o2 = "flat"
    BY <1>2 DEF Settles
  <2>2. /\ list \in BranchLists /\ n \in 2 .. Len(list) + 1
        /\ ChildrenIn(a, Children[n - 1]) /\ IsConjunction(a, list, n - 1)
    BY DEF Folded
  <2>3. n - 1 \in 1 .. MaxBranches
    BY <2>2, ListIs
  <2>4. PICK k \in 1 .. MaxBranches : k = n - 1
    BY <2>3
  <2>5. ChildrenIn(a, Children[k])
    BY <2>2, <2>4
  <2>6. Meets(r, a, a) /\ DOMAIN r = DOMAIN a /\ Dominated(r) = Dominated(a)
    BY <1>2, <2>5, FlattenChildrenMeets
  <2> HIDE DEF r
  <2>7. IsConjunction(r, list, n - 1)
    BY <2>2, <2>6, SameConjunction
  <2>8. QED
    BY <2>1, <2>6, <2>7 DEF Folded
<1>3. QED
  BY <1>1, <1>2

-----------------------------------------------------------------------------
IInv == Folded(branches, next, acc, outcome)

(* The initial states.                                                     *)
LEMMA InitHolds == Init => IInv
BY FoldStarts DEF Init, IInv

(* One step per action.                                                    *)
LEMMA StepKeeps == IInv /\ [Next]_vars => IInv'
<1> SUFFICES ASSUME IInv, [Next]_vars PROVE IInv'
  OBVIOUS
<1>1. PICK list, n, a, o, n2, a2, o2 :
        /\ list = branches /\ n = next /\ a = acc /\ o = outcome
        /\ n2 = next' /\ a2 = acc' /\ o2 = outcome'
  OBVIOUS
<1>2. Folded(list, n, a, o)
  BY <1>1 DEF IInv
<1>3. SUFFICES Folded(list, n2, a2, o2) /\ branches' = list
  BY <1>1 DEF IInv
<1>4. CASE MergeBranch
  <2>1. /\ o = "folding" /\ n <= Len(list) /\ n2 = n + 1 /\ branches' = list
        /\ Settles(MergePair(a, list[n]), "folding", a, a2, o2)
    BY <1>1, <1>4 DEF MergeBranch, Settle, Settles
  <2>2. QED
    BY <1>2, <2>1, BranchFolds
<1>5. CASE FinishFold
  <2>1. /\ o = "folding" /\ n2 = n /\ branches' = list
        /\ Settles(FinalizeMerged(a), "merged", a, a2, o2)
    BY <1>1, <1>5 DEF FinishFold, Settle, Settles
  <2>2. QED
    BY <1>2, <2>1, FoldEnds
<1>6. CASE NormalizeChildren
  <2>1. /\ o = "merged" /\ n2 = n /\ branches' = list
        /\ Settles(FlattenChildren(a), "flat", a, a2, o2)
    BY <1>1, <1>6 DEF NormalizeChildren, Settle, Settles
  <2>2. QED
    BY <1>2, <2>1, ChildrenFlatten
<1>7. CASE Validate
  <2>1. /\ o = "flat" /\ n2 = n /\ a2 = a /\ o2 \in {"accepted", "rejected"} /\ branches' = list
    BY <1>1, <1>7 DEF Validate
  <2>2. QED
    BY <1>2, <2>1 DEF Folded
<1>8. CASE UNCHANGED vars
  <2>1. n2 = n /\ a2 = a /\ o2 = o /\ branches' = list
    BY <1>1, <1>8 DEF vars
  <2>2. QED
    BY <1>2, <2>1
<1>9. QED
  BY <1>4, <1>5, <1>6, <1>7, <1>8 DEF Next

(* The invariant holds in every state.                                     *)
LEMMA Invariance == Spec => []IInv
BY InitHolds, StepKeeps, PTL DEF Spec

(* However many branches there are: the node has only keywords of branches *)
(* that are merged, and of each pair of bounds one is left.                *)
THEOREM TypeCorrect == Spec => []TypeOK
<1>1. IInv => TypeOK
  BY DEF IInv, Folded, TypeOK
<1>2. QED
  BY <1>1, Invariance, PTL

-----------------------------------------------------------------------------
(* The meaning of the node.                                                *)

(* The elements of an array that a contains is met by.                     *)
Matched(x, elements) ==
  { n \in DOMAIN elements : AcceptsBelow(x, Number(elements[n]), {}) }

LEMMA MatchedIsFinite ==
  ASSUME NEW x, NEW elements \in Seq(Int) PROVE IsFiniteSet(Matched(x, elements))
<1>1. DOMAIN elements = 1 .. Len(elements) /\ Len(elements) \in Nat
  OBVIOUS
<1>2. ASSUME NEW length \in Int PROVE IsFiniteSet(1 .. length)
  BY <1>2, FS_Interval
<1>3. Matched(x, elements) \subseteq DOMAIN elements
  BY DEF Matched
<1>4. QED
  BY <1>1, <1>2, <1>3, FS_Subset

(* What contains says, with its counts.                                    *)
LEMMA CountedIs ==
  ASSUME NEW schema, NEW elements
  PROVE  Counted(schema, elements)
           <=> (Has(schema, "contains") =>
                  /\ Counts(schema, Cardinality(Matched(schema["contains"], elements)))
                  /\ ~ Has(schema, "minContains") =>
                       Cardinality(Matched(schema["contains"], elements)) >= 1)
BY DEF Counted, Counts, Matched

(* A branch that omits minContains means at least one, and so does a merge *)
(* that omits it; a merge that does not has one that is at least one.      *)
LEMMA CountsConjoin ==
  ASSUME NEW list, NEW top \in Nat, NEW schema, IsConjunction(schema, list, top),
         DOMAIN list = 1 .. top,
         \A n \in 1 .. top : WellTyped(list[n])
                             /\ (Has(list[n], "minContains") => list[n]["minContains"] >= 0),
         ~ OmitsMinContains(list), ~ HasCountAlone(list),
         NEW elements \in Seq(Int), Range(elements) \subseteq Elements
  PROVE  Counted(schema, elements) <=> \A n \in 1 .. top : Counted(list[n], elements)
<1>1. CASE ~ Has(schema, "contains")
  BY <1>1, CountedIs DEF IsConjunction
<1>2. CASE Has(schema, "contains")
  <2> DEFINE matched == Matched(schema["contains"], elements)
             count == Cardinality(matched)
  <2>1. ASSUME NEW n \in 1 .. top, Has(list[n], "contains")
        PROVE  Matched(list[n]["contains"], elements) = matched
    <3>1. SameMatcher(schema["contains"], list[n]["contains"])
      BY <2>1 DEF IsConjunction
    <3>2. QED
      BY <3>1 DEF SameMatcher, Matched, Range
  <2>2. count \in Nat
    BY MatchedIsFinite, FS_CardinalityType
  <2>3. Counted(schema, elements)
          <=> Counts(schema, count) /\ (~ Has(schema, "minContains") => count >= 1)
    BY <1>2, CountedIs
  <2>4. \A n \in 1 .. top :
          Counted(list[n], elements)
            <=> (Has(list[n], "contains") =>
                   Counts(list[n], count) /\ (~ Has(list[n], "minContains") => count >= 1))
    BY <2>1, CountedIs
  <2> HIDE DEF count
  <2>5. \A n \in 1 .. top : ~ Has(list[n], "contains") => Counts(list[n], count)
    BY DEF HasCountAlone, Counts, Between, Has
  <2>6. Counts(schema, count) <=> \A n \in 1 .. top : Counts(list[n], count)
    BY <2>2 DEF IsConjunction
  <2>7. PICK some \in 1 .. top : Has(list[some], "contains")
    BY <1>2 DEF IsConjunction
  <2>8. Has(schema, "minContains") <=> \E n \in 1 .. top : Has(list[n], "minContains")
    BY DEF IsConjunction
  <2>9. ASSUME NEW n \in 1 .. top, Has(list[n], "contains"), ~ Has(list[n], "minContains"),
               Has(schema, "minContains"), Counts(schema, count)
        PROVE  count >= 1
    <3>1. Having(list, "minContains") # {0}
      BY <2>9 DEF OmitsMinContains
    <3>2. Having(list, "minContains") # {}
      BY <2>8, <2>9 DEF Having
    <3>3. PICK i \in 1 .. top : Has(list[i], "minContains") /\ list[i]["minContains"] # 0
      BY <3>1, <3>2 DEF Having
    <3>4. list[i]["minContains"] \in Int /\ list[i]["minContains"] >= 0
      BY <3>3 DEF WellTyped, LowerBounds, Has
    <3>5. list[i]["minContains"] <= count
      BY <2>6, <2>9, <3>3 DEF Counts, Between
    <3>6. QED
      BY <2>2, <3>3, <3>4, <3>5
  <2>10. QED
    BY <2>3, <2>4, <2>5, <2>6, <2>7, <2>8, <2>9
<1>3. QED
  BY <1>1, <1>2

(* The declared names of a list, branch by branch.                         *)
LEMMA DeclaredInIs ==
  ASSUME NEW list, NEW top, DOMAIN list = 1 .. top
  PROVE  DeclaredIn(list) = UNION { Declared(list[n]) : n \in 1 .. top }
<1>1. ASSUME NEW name
      PROVE  name \in DeclaredIn(list) <=> \E n \in 1 .. top : name \in Declared(list[n])
  BY DEF DeclaredIn, Declared
<1>2. QED
  BY <1>1

(* A schema that flattening has changed counts the same elements.          *)
LEMMA SameCounted ==
  ASSUME NEW a, NEW m, Meets(m, a, a), NEW elements \in Seq(Int), Range(elements) \subseteq Elements
  PROVE  Counted(m, elements) <=> Counted(a, elements)
<1>1. CASE ~ Has(a, "contains")
  BY <1>1, CountedIs DEF Meets
<1>2. CASE Has(a, "contains")
  <2> DEFINE matched == Matched(a["contains"], elements)
             count == Cardinality(matched)
  <2>1. SameMatcher(m["contains"], a["contains"]) /\ Has(m, "contains")
    BY <1>2 DEF Meets
  <2>2. Matched(m["contains"], elements) = matched
    BY <2>1 DEF SameMatcher, Matched, Range
  <2>3. count \in Nat
    BY MatchedIsFinite, FS_CardinalityType
  <2> HIDE DEF matched, count
  <2>4. Counts(m, count) <=> Counts(a, count)
    BY <2>3 DEF Meets
  <2>5. Has(m, "minContains") <=> Has(a, "minContains")
    BY DEF Meets
  <2>6. /\ Counted(m, elements)
             <=> (Counts(m, count) /\ (~ Has(m, "minContains") => count >= 1))
        /\ Counted(a, elements)
             <=> (Counts(a, count) /\ (~ Has(a, "minContains") => count >= 1))
    BY <1>2, <2>1, <2>2, CountedIs DEF matched, count
  <2>7. QED
    BY <2>4, <2>5, <2>6
<1>3. QED
  BY <1>1, <1>2

(* normalize_children: a schema whose children are flattened accepts the   *)
(* values that it accepted before, and no other.                           *)
THEOREM FlattenKeepsMeaning ==
  ASSUME NEW k \in 1 .. MaxBranches, NEW schema, ChildrenIn(schema, Children[k]),
         FlattenChildren(schema) # Rejected, NEW v \in Values
  PROVE  AcceptsAlone(FlattenChildren(schema), v) <=> AcceptsAlone(schema, v)
<1> DEFINE flat == FlattenChildren(schema)
<1>1. Meets(flat, schema, schema)
  BY FlattenChildrenMeets
<1>2. IsValue(v)
  BY ValuesAre
<1> HIDE DEF flat
<1>3. Declared(flat) = Declared(schema)
  BY <1>1 DEF Meets
<1>4. Apart(flat, v, Declared(schema)) <=> Apart(schema, v, Declared(schema))
  BY <1>1, <1>2 DEF Meets
<1>5. v.kind = "array" => (Counted(flat, v.elements) <=> Counted(schema, v.elements))
  BY <1>1, <1>2, SameCounted DEF IsValue
<1>6. AcceptsAlone(flat, v) <=> AcceptsAlone(schema, v)
  BY <1>3, <1>4, <1>5, AloneIs
<1>7. QED
  BY <1>6 DEF flat

(* The merge of a list accepts what every conjunct of it accepts, but for  *)
(* the members that escape one.                                            *)
LEMMA ConjunctionAccepts ==
  ASSUME NEW list, NEW top \in Nat, NEW schema, IsConjunction(schema, list, top),
         DOMAIN list = 1 .. top,
         \A n \in 1 .. top : WellTyped(list[n])
                             /\ (Has(list[n], "minContains") => list[n]["minContains"] >= 0),
         ~ OmitsMinContains(list), ~ HasCountAlone(list)
  PROVE  IsConjunctionOf(schema, list)
<1> DEFINE all == DeclaredIn(list)
<1>1. /\ Declared(schema) = all
      /\ \A n \in 1 .. top : Declared(list[n]) \subseteq all
  BY DeclaredInIs DEF IsConjunction
<1> HIDE DEF all
<1> SUFFICES ASSUME NEW v \in Values
             PROVE  /\ AllAccept(list, v) => AcceptsAlone(schema, v)
                    /\ AcceptsAlone(schema, v) => \A n \in 1 .. top : AcceptsButForEscape(list, n, v)
  BY DEF IsConjunctionOf
<1>2. IsValue(v)
  BY ValuesAre
<1>3. Apart(schema, v, all) <=> \A n \in 1 .. top : Apart(list[n], v, all)
  BY <1>2 DEF IsConjunction
<1>4. v.kind = "array" =>
        (Counted(schema, v.elements) <=> \A n \in 1 .. top : Counted(list[n], v.elements))
  BY <1>2, CountsConjoin DEF IsValue
<1>5. AcceptsAlone(schema, v)
        <=> Apart(schema, v, all) /\ (v.kind = "array" => Counted(schema, v.elements))
  BY <1>1, AloneIs
<1>6. ASSUME AllAccept(list, v) PROVE AcceptsAlone(schema, v)
  <2>1. \A n \in 1 .. top : Accepts(list[n], v, all)
    BY <1>6 DEF AllAccept, all
  <2>2. \A n \in 1 .. top :
          Apart(list[n], v, all) /\ (v.kind = "array" => Counted(list[n], v.elements))
    BY <1>1, <2>1, AcceptedIsSaid
  <2>3. QED
    BY <1>3, <1>4, <1>5, <2>2
<1>7. ASSUME AcceptsAlone(schema, v), NEW n \in 1 .. top PROVE AcceptsButForEscape(list, n, v)
  <2>1. Apart(list[n], v, all) /\ (v.kind = "array" => Counted(list[n], v.elements))
    BY <1>3, <1>4, <1>5, <1>7
  <2>2. CASE ~ Escapes(list, n, v)
    <3>1. v.kind = "object" /\ HasMemberSchema(list[n]) =>
            DOMAIN v.members \cap all \subseteq Declared(list[n])
      BY <2>2 DEF Escapes, all
    <3>2. Accepts(list[n], v, all)
      BY <2>1, <3>1, SaidIsAccepted
    <3>3. QED
      BY <3>2 DEF AcceptsButForEscape, all
  <2>3. CASE Escapes(list, n, v)
    <3> DEFINE rest == Without(list[n], {"additionalProperties"})
    <3>1. v.kind = "object"
      BY <2>3 DEF Escapes
    <3>2. /\ DOMAIN rest = DOMAIN list[n] \ {"additionalProperties"}
          /\ \A key \in DOMAIN rest : rest[key] = list[n][key]
      BY DEF Without
    <3> HIDE DEF rest
    <3>3. Apart(rest, v, all)
      BY <2>1, <3>2 DEF Apart
    <3>4. ~ HasMemberSchema(rest)
      BY <3>2 DEF HasMemberSchema, Has
    <3>5. Accepts(rest, v, all)
      BY <3>1, <3>3, <3>4, SaidIsAccepted
    <3>6. ASSUME NEW name \in DOMAIN v.members \ all
          PROVE  AcceptsBelow(list[n]["additionalProperties"], Number(v.members[name]), {})
      <4>1. /\ "additionalProperties" \in DOMAIN list[n]
            /\ list[n]["additionalProperties"] # Open
        BY <2>3 DEF Escapes, HasMemberSchema, Has
      <4>2. Says("additionalProperties", list[n]["additionalProperties"], v, all)
        BY <2>1, <4>1 DEF Apart
      <4>3. QED
        BY <3>1, <3>6, <4>1, <4>2, SaysAdditionalProperties
    <3>7. QED
      BY <2>3, <3>5, <3>6 DEF AcceptsButForEscape, rest, all
  <2>4. QED
    BY <2>2, <2>3
<1>8. QED
  BY <1>6, <1>7

(* merge_schema_pair: the merge of two schemas accepts every value that    *)
(* both accept, and a value that it accepts both accept, each with its own *)
(* reading of additionalProperties: only the members that escape a schema  *)
(* for other members, and the counts that MergedIsConjunction excepts, are *)
(* left out.                                                               *)
THEOREM PairIsConjunction ==
  ASSUME NEW k \in 1 .. MaxBranches - 1, NEW a, NEW b, WellTyped(a), WellTyped(b),
         ChildrenIn(a, Children[k]), ChildrenIn(b, Children[1]), MergePair(a, b) # Rejected,
         \A schema \in {a, b} : Has(schema, "minContains") => schema["minContains"] >= 0,
         ~ OmitsMinContains(<< a, b >>), ~ HasCountAlone(<< a, b >>)
  PROVE  IsConjunctionOf(MergePair(a, b), << a, b >>)
<1> DEFINE list == << a, b >>
           m == MergePair(a, b)
<1>1. DOMAIN list = 1 .. 2 /\ list[1] = a /\ list[2] = b /\ 1 .. 2 = {1, 2} /\ 1 + 1 = 2
  OBVIOUS
<1>2. ~ OmitsMinContains(list) /\ ~ HasCountAlone(list)
  OBVIOUS
<1>3. Meets(m, a, b)
  BY SchemasMeet
<1> HIDE DEF list, m
<1>4. IsConjunction(a, list, 1)
  BY <1>1, FirstConjunct
<1>5. Meets(m, a, list[1 + 1])
  BY <1>1, <1>3
<1>6. IsConjunction(m, list, 1 + 1)
  BY <1>4, <1>5, NextConjunct
<1>7. IsConjunction(m, list, 2)
  BY <1>1, <1>6
<1>8. \A n \in 1 .. 2 : WellTyped(list[n])
                        /\ (Has(list[n], "minContains") => list[n]["minContains"] >= 0)
  BY <1>1
<1>9. IsConjunctionOf(m, list)
  BY <1>1, <1>2, <1>7, <1>8, ConjunctionAccepts
<1>10. QED
  BY <1>9 DEF m, list

(* Whatever the branches are, and at every step of merge_branch_list and   *)
(* normalize_children: the node accepts the values that all branches       *)
(* merged so far accept, and no other; exceptions as for two schemas.      *)
THEOREM MergeIsExact == Spec => []MergedIsConjunction
<1>1. ASSUME IInv PROVE MergedIsConjunction
  <2> DEFINE top == next - 1
             folded == SubSeq(branches, 1, top)
  <2>1. /\ branches \in BranchLists /\ next \in 2 .. Len(branches) + 1
        /\ outcome # "unmergeable" => IsConjunction(acc, branches, top)
    BY <1>1 DEF IInv, Folded
  <2>2. top \in 1 .. Len(branches) /\ top \in Nat /\ branches \in Seq(Range(branches))
    BY <2>1, ListIs, BranchesAssumption
  <2>3. DOMAIN folded = 1 .. top /\ \A n \in 1 .. top : folded[n] = branches[n]
    BY <2>2
  <2>4. \A n \in 1 .. top : WellTyped(folded[n])
                            /\ (Has(folded[n], "minContains") => folded[n]["minContains"] >= 0)
    BY <2>1, <2>2, <2>3, ListIs
  <2>5. FoldedSoFar = folded
    BY DEF FoldedSoFar
  <2> HIDE DEF folded
  <2>6. ASSUME outcome # "unmergeable", ~ OmitsMinContains(folded), ~ HasCountAlone(folded)
        PROVE  IsConjunctionOf(acc, folded)
    <3>1. IsConjunction(acc, folded, top)
      <4> HIDE DEF top
      <4>1. QED
        BY <2>1, <2>3, <2>6 DEF IsConjunction
    <3> HIDE DEF top
    <3>2. QED
      BY <2>2, <2>3, <2>4, <2>6, <3>1, ConjunctionAccepts
  <2>7. QED
    BY <2>5, <2>6 DEF MergedIsConjunction
<1>2. QED
  BY <1>1, Invariance, PTL

=============================================================================
