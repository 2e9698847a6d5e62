-------------------------- MODULE Hoisting_proofs --------------------------
(***************************************************************************)
(* Proofs about Hoisting, for every set of documents that its assumptions  *)
(* admit.                                                                  *)
(*                                                                         *)
(* What a pass takes out of a model is a part of the text (IsPart): the    *)
(* positions below some shape.  The walk of a part takes out shapes that   *)
(* no other one of the part encloses (PlacesAreOutermost), all of them     *)
(* where nothing is hidden (WalkTakesOutermost), and under the names that  *)
(* the text has for their positions (PlaceName).  So every model at every  *)
(* step comes from one place of the text, itself or a shape (Tracks), what *)
(* was taken out is inserted or waits (Queued), and the judges have seen   *)
(* what they need (Judged): this is IInv.  When nothing waits and all were *)
(* walked, every shape was found (EveryShapeFound, by induction on how     *)
(* deep it is written), and what a judge rejects the text shows.           *)
(***************************************************************************)
EXTENDS Hoisting, FiniteSetTheorems, SequenceTheorems, TLAPS

Paths == Seq(Step)
After(path, n) == SubSeq(path, n + 1, Len(path))

(* The first n steps of a path.                                            *)
LEMMA PrefixIs ==
  ASSUME NEW path \in Paths, NEW n \in 0 .. Len(path)
  PROVE  /\ Prefix(path, n) \in Paths /\ Len(Prefix(path, n)) = n
         /\ \A k \in 1 .. n : Prefix(path, n)[k] = path[k]
         /\ Prefix(path, n) = << >> <=> n = 0
<1>1. Len(path) \in Nat /\ \A i \in 1 .. Len(path) : path[i] \in Step
  BY DEF Paths
<1>2. \A i \in 1 .. n : path[i] \in Step
  BY <1>1
<1>3. /\ Prefix(path, n) \in Paths /\ Len(Prefix(path, n)) = IF 1 <= n THEN n ELSE 0
      /\ \A k \in 1 .. n : Prefix(path, n)[k] = path[k]
  BY <1>1, <1>2, SubSeqProperties DEF Paths, Prefix
<1>4. Prefix(path, n) = << >> <=> n = 0
  BY <1>1, <1>3, EmptySeq DEF Paths
<1>5. QED
  BY <1>1, <1>3, <1>4

(* All but the last steps of a path, and a path without steps.             *)
LEMMA PathIs ==
  ASSUME NEW path \in Paths
  PROVE  /\ Len(path) \in Nat /\ DOMAIN path = 1 .. Len(path)
         /\ path = << >> <=> Len(path) = 0
         /\ Prefix(path, Len(path)) = path /\ Prefix(path, 0) = << >>
         /\ path # << >> => /\ Len(path) >= 1 /\ Front(path) = Prefix(path, Len(path) - 1)
                            /\ Front(path) \in Paths /\ Len(Front(path)) = Len(path) - 1
                            /\ Last(path) = path[Len(path)] /\ Last(path) \in Step
<1>1. Len(path) \in Nat /\ DOMAIN path = 1 .. Len(path) /\ (path = << >> <=> Len(path) = 0)
  BY EmptySeq, LenProperties DEF Paths
<1>2. Prefix(path, Len(path)) = path
  BY SubSeqFull DEF Paths, Prefix
<1>3. Prefix(path, 0) = << >>
  BY <1>1, PrefixIs
<1>4. ASSUME path # << >>
      PROVE  /\ Len(path) >= 1 /\ Front(path) = Prefix(path, Len(path) - 1)
             /\ Front(path) \in Paths /\ Len(Front(path)) = Len(path) - 1
             /\ Last(path) = path[Len(path)] /\ Last(path) \in Step
  <2>1. Len(path) >= 1 /\ Len(path) - 1 \in 0 .. Len(path)
    BY <1>1, <1>4
  <2>2. Front(path) = Prefix(path, Len(path) - 1)
    BY DEF Front, Prefix
  <2>3. Last(path) = path[Len(path)] /\ Last(path) \in Step
    BY <2>1, ElementOfSeq DEF Last, Paths
  <2>4. QED
    BY <2>1, <2>2, <2>3, PrefixIs
<1>5. QED
  BY <1>1, <1>2, <1>3, <1>4

(* Two paths with the same steps are the same.                             *)
LEMMA SamePath ==
  ASSUME NEW a \in Paths, NEW b \in Paths, Len(a) = Len(b), \A i \in 1 .. Len(a) : a[i] = b[i]
  PROVE  a = b
BY SeqEqual DEF Paths

(* A path of a prefix is one of the path.                                  *)
LEMMA PrefixOfPrefix ==
  ASSUME NEW path \in Paths, NEW n \in 0 .. Len(path)
  PROVE  /\ \A k \in 0 .. n : Prefix(Prefix(path, n), k) = Prefix(path, k)
         /\ n > 0 => /\ Front(Prefix(path, n)) = Prefix(path, n - 1)
                     /\ Last(Prefix(path, n)) = path[n]
<1> DEFINE first == Prefix(path, n)
<1>1. /\ first \in Paths /\ Len(first) = n /\ (first = << >> <=> n = 0)
      /\ \A k \in 1 .. n : first[k] = path[k]
  BY PrefixIs
<1>2. Len(path) \in Nat
  BY PathIs
<1> HIDE DEF first
<1>3. ASSUME NEW k \in 0 .. n PROVE Prefix(first, k) = Prefix(path, k)
  <2>1. k \in 0 .. Len(first) /\ k \in 0 .. Len(path)
    BY <1>1, <1>2
  <2>2. /\ Prefix(first, k) \in Paths /\ Len(Prefix(first, k)) = k
        /\ \A i \in 1 .. k : Prefix(first, k)[i] = first[i]
    BY <1>1, <2>1, PrefixIs
  <2>3. /\ Prefix(path, k) \in Paths /\ Len(Prefix(path, k)) = k
        /\ \A i \in 1 .. k : Prefix(path, k)[i] = path[i]
    BY <2>1, PrefixIs
  <2>4. \A i \in 1 .. k : Prefix(first, k)[i] = Prefix(path, k)[i]
    BY <1>1, <2>2, <2>3
  <2>5. QED
    BY <2>2, <2>3, <2>4, SamePath
<1>4. ASSUME n > 0 PROVE Front(first) = Prefix(path, n - 1) /\ Last(first) = path[n]
  <2>1. first # << >> /\ n - 1 \in 0 .. n /\ n \in 1 .. n
    BY <1>1, <1>4
  <2>2. Front(first) = Prefix(first, n - 1) /\ Last(first) = first[n]
    BY <1>1, <2>1, PathIs
  <2>3. QED
    BY <1>1, <1>3, <2>1, <2>2
<1>5. QED
  BY <1>3, <1>4 DEF first

(* A path below another one.                                               *)
LEMMA JoinIs ==
  ASSUME NEW home \in Paths, NEW path \in Paths
  PROVE  /\ home \o path \in Paths /\ Len(home \o path) = Len(home) + Len(path)
         /\ \A i \in 1 .. Len(home) : (home \o path)[i] = home[i]
         /\ \A i \in 1 .. Len(path) : (home \o path)[Len(home) + i] = path[i]
         /\ home \o << >> = home /\ << >> \o path = path
         /\ home \o path = << >> <=> home = << >> /\ path = << >>
         /\ home \o path = home <=> path = << >>
<1>1. Len(home) \in Nat /\ Len(path) \in Nat
  BY PathIs
<1>2. /\ home \o path \in Paths /\ Len(home \o path) = Len(home) + Len(path)
      /\ \A i \in 1 .. Len(home) + Len(path) :
           (home \o path)[i] = IF i <= Len(home) THEN home[i] ELSE path[i - Len(home)]
  BY ConcatProperties DEF Paths
<1>3. \A i \in 1 .. Len(home) : (home \o path)[i] = home[i]
  BY <1>1, <1>2
<1>4. ASSUME NEW i \in 1 .. Len(path) PROVE (home \o path)[Len(home) + i] = path[i]
  <2>1. Len(home) + i \in 1 .. Len(home) + Len(path) /\ ~ (Len(home) + i <= Len(home))
        /\ (Len(home) + i) - Len(home) = i
    BY <1>1
  <2>2. QED
    BY <1>2, <2>1
<1>5. /\ home \o << >> = home /\ << >> \o path = path
      /\ home \o path = << >> <=> home = << >> /\ path = << >>
      /\ home \o path = home <=> path = << >>
  BY ConcatEmptySeq, ConcatEqualIffEmpty DEF Paths
<1>6. QED
  BY <1>2, <1>3, <1>4, <1>5

(* What is below what is below a place.                                    *)
LEMMA JoinAgain ==
  ASSUME NEW home \in Paths, NEW path \in Paths, NEW rest \in Paths
  PROVE  (home \o path) \o rest = home \o (path \o rest)
BY ConcatAssociative DEF Paths

(* Paths below one place are the same when what follows is.                *)
LEMMA SameRest ==
  ASSUME NEW home \in Paths, NEW path \in Paths, NEW rest \in Paths, home \o path = home \o rest
  PROVE  path = rest
<1>1. \A S : \A s, t, v \in Seq(S) : s \o t = s \o v => t = v
  BY ConcatSimplifications
<1>2. QED
  BY <1>1 DEF Paths

(* The prefixes of a path below another.                                   *)
LEMMA PrefixOfJoin ==
  ASSUME NEW home \in Paths, NEW path \in Paths
  PROVE  /\ \A n \in 0 .. Len(home) : Prefix(home \o path, n) = Prefix(home, n)
         /\ \A n \in 0 .. Len(path) : Prefix(home \o path, Len(home) + n) = home \o Prefix(path, n)
         /\ path # << >> => /\ Front(home \o path) = home \o Front(path)
                            /\ Last(home \o path) = Last(path)
<1> DEFINE both == home \o path
<1>1. /\ both \in Paths /\ Len(both) = Len(home) + Len(path)
      /\ \A i \in 1 .. Len(home) : both[i] = home[i]
      /\ \A i \in 1 .. Len(path) : both[Len(home) + i] = path[i]
      /\ both = << >> <=> home = << >> /\ path = << >>
  BY JoinIs
<1>2. Len(home) \in Nat /\ Len(path) \in Nat
  BY PathIs
<1> HIDE DEF both
<1>3. ASSUME NEW n \in 0 .. Len(home) PROVE Prefix(both, n) = Prefix(home, n)
  <2>1. n \in 0 .. Len(both)
    BY <1>1, <1>2
  <2>2. /\ Prefix(both, n) \in Paths /\ Len(Prefix(both, n)) = n
        /\ \A i \in 1 .. n : Prefix(both, n)[i] = both[i]
    BY <1>1, <2>1, PrefixIs
  <2>3. /\ Prefix(home, n) \in Paths /\ Len(Prefix(home, n)) = n
        /\ \A i \in 1 .. n : Prefix(home, n)[i] = home[i]
    BY PrefixIs
  <2>4. \A i \in 1 .. n : Prefix(both, n)[i] = Prefix(home, n)[i]
    BY <1>1, <1>2, <2>2, <2>3
  <2>5. QED
    BY <2>2, <2>3, <2>4, SamePath
<1>4. ASSUME NEW n \in 0 .. Len(path) PROVE Prefix(both, Len(home) + n) = home \o Prefix(path, n)
  <2> DEFINE left == Prefix(both, Len(home) + n)
             first == Prefix(path, n)
             right == home \o first
  <2>1. Len(home) + n \in 0 .. Len(both)
    BY <1>1, <1>2
  <2>2. left \in Paths /\ Len(left) = Len(home) + n /\ \A i \in 1 .. Len(home) + n : left[i] = both[i]
    BY <1>1, <2>1, PrefixIs
  <2>3. first \in Paths /\ Len(first) = n /\ \A i \in 1 .. n : first[i] = path[i]
    BY PrefixIs
  <2>4. /\ right \in Paths /\ Len(right) = Len(home) + Len(first)
        /\ \A i \in 1 .. Len(home) : right[i] = home[i]
        /\ \A i \in 1 .. Len(first) : right[Len(home) + i] = first[i]
    BY <2>3, JoinIs
  <2> HIDE DEF left, first, right
  <2>5. ASSUME NEW i \in 1 .. Len(home) + n PROVE left[i] = right[i]
    <3>1. CASE i <= Len(home)
      BY <1>1, <1>2, <2>2, <2>4, <3>1
    <3>2. CASE i > Len(home)
      <4>1. PICK k \in 1 .. n : i = Len(home) + k
        <5>1. i - Len(home) \in 1 .. n /\ i = Len(home) + (i - Len(home))
          BY <1>2, <3>2
        <5>2. QED
          BY <5>1
      <4>2. k \in 1 .. Len(path)
        BY <1>2
      <4>3. left[i] = path[k] /\ right[i] = first[k] /\ first[k] = path[k]
        BY <1>1, <2>2, <2>3, <2>4, <4>1, <4>2
      <4>4. QED
        BY <4>3
    <3>3. QED
      BY <1>2, <3>1, <3>2
  <2>6. left = right
    BY <2>2, <2>3, <2>4, <2>5, SamePath
  <2>7. QED
    BY <2>6 DEF left, right, first
<1>5. ASSUME path # << >> PROVE Front(both) = home \o Front(path) /\ Last(both) = Last(path)
  <2>1. /\ Len(path) >= 1 /\ Front(path) = Prefix(path, Len(path) - 1)
        /\ Last(path) = path[Len(path)]
    BY <1>5, PathIs
  <2>2. /\ Front(both) = Prefix(both, Len(both) - 1) /\ Last(both) = both[Len(both)]
    BY <1>1, <1>5, PathIs
  <2>3. Len(both) - 1 = Len(home) + (Len(path) - 1) /\ Len(path) - 1 \in 0 .. Len(path)
        /\ Len(path) \in 1 .. Len(path)
    BY <1>1, <1>2, <2>1
  <2>4. Prefix(both, Len(both) - 1) = home \o Prefix(path, Len(path) - 1)
    BY <1>4, <2>3
  <2>5. both[Len(both)] = path[Len(path)]
    BY <1>1, <2>3
  <2>6. QED
    BY <2>1, <2>2, <2>4, <2>5
<1>6. QED
  BY <1>3, <1>4, <1>5 DEF both

(* Where a path may be cut, and what follows.                              *)
LEMMA Cut ==
  ASSUME NEW path \in Paths, NEW n \in 0 .. Len(path)
  PROVE  /\ After(path, n) \in Paths /\ Len(After(path, n)) = Len(path) - n
         /\ path = Prefix(path, n) \o After(path, n)
<1>1. Len(path) \in Nat /\ \A i \in 1 .. Len(path) : path[i] \in Step
  BY ElementOfSeq DEF Paths
<1>2. \A i \in n + 1 .. Len(path) : path[i] \in Step
  BY <1>1
<1>3. /\ After(path, n) \in Paths
      /\ Len(After(path, n)) = IF n + 1 <= Len(path) THEN Len(path) - (n + 1) + 1 ELSE 0
  BY <1>1, <1>2, SubSeqProperties DEF Paths, After
<1>4. Len(After(path, n)) = Len(path) - n
  BY <1>1, <1>3
<1>5. SubSeq(path, 1, n) \o SubSeq(path, n + 1, Len(path)) = SubSeq(path, 1, Len(path))
  <2>1. 1 \in 1 .. Len(path) + 1 /\ n \in 1 - 1 .. Len(path) /\ Len(path) \in n .. Len(path)
    BY <1>1
  <2>2. QED
    BY <2>1, ConcatAdjacentSubSeq DEF Paths
<1>6. QED
  BY <1>3, <1>4, <1>5, SubSeqFull DEF Prefix, After, Paths

(* One path is a prefix of another when the other goes on from it.         *)
LEMMA IsPrefixIs ==
  ASSUME NEW home \in Paths, NEW path \in Paths
  PROVE  /\ IsPrefix(home, path) <=> Len(home) <= Len(path) /\ Prefix(path, Len(home)) = home
         /\ IsPrefix(home, path) => path = home \o After(path, Len(home))
         /\ IsPrefix(home, path) <=> \E rest \in Paths : path = home \o rest
<1>1. Len(home) \in Nat /\ Len(path) \in Nat /\ Prefix(home, Len(home)) = home
  BY PathIs
<1>2. IsPrefix(home, path) <=> Len(home) <= Len(path) /\ Prefix(path, Len(home)) = home
  BY <1>1 DEF IsPrefix, Prefix
<1>3. ASSUME IsPrefix(home, path)
      PROVE  After(path, Len(home)) \in Paths /\ path = home \o After(path, Len(home))
  <2>1. Len(home) \in 0 .. Len(path) /\ Prefix(path, Len(home)) = home
    BY <1>1, <1>2, <1>3
  <2>2. QED
    BY <2>1, Cut
<1>4. ASSUME NEW rest \in Paths, path = home \o rest PROVE IsPrefix(home, path)
  <2>1. Len(path) = Len(home) + Len(rest) /\ Len(rest) \in Nat
    BY <1>4, JoinIs, PathIs
  <2>2. Len(home) \in 0 .. Len(home)
    BY <1>1
  <2>3. Prefix(home \o rest, Len(home)) = Prefix(home, Len(home))
    BY <2>2, PrefixOfJoin
  <2>4. QED
    BY <1>1, <1>2, <1>4, <2>1, <2>3
<1>5. QED
  BY <1>2, <1>3, <1>4

(* What follows a path.                                                    *)
LEMMA AfterJoin ==
  ASSUME NEW home \in Paths, NEW rest \in Paths
  PROVE  After(home \o rest, Len(home)) = rest
<1> DEFINE path == home \o rest
<1>1. path \in Paths /\ IsPrefix(home, path)
  BY JoinIs, IsPrefixIs
<1>2. path = home \o After(path, Len(home))
  BY <1>1, IsPrefixIs
<1>3. After(path, Len(home)) \in Paths
  <2>1. Len(home) \in 0 .. Len(path)
    BY JoinIs, PathIs
  <2>2. QED
    BY <1>1, <2>1, Cut
<1>4. home \o rest = home \o After(path, Len(home))
  BY <1>2
<1>5. rest = After(path, Len(home))
  BY <1>3, <1>4, SameRest
<1>6. QED
  BY <1>5

(* A step goes to a member, an element or a branch.                        *)
LEMMA Kinds ==
  ASSUME NEW path \in Paths
  PROVE  /\ path # << >> => IsMember(path) \/ IsElement(path) \/ IsBranch(path)
         /\ ~ (IsMember(path) /\ IsElement(path)) /\ ~ (IsMember(path) /\ IsBranch(path))
         /\ ~ (IsElement(path) /\ IsBranch(path))
         /\ path = << >> => ~ IsMember(path) /\ ~ IsElement(path) /\ ~ IsBranch(path)
<1>1. path # << >> => Last(path) \in Step
  BY PathIs
<1>2. path # << >> =>
        Last(path)[1] \in { "properties", "items", "additionalProperties", "oneOf" }
  BY <1>1 DEF Step
<1>3. QED
  BY <1>2 DEF IsMember, IsElement, IsBranch

(* The kind of a step does not depend on where it starts.                  *)
LEMMA KindOfJoin ==
  ASSUME NEW home \in Paths, NEW path \in Paths, path # << >>
  PROVE  /\ IsMember(home \o path) <=> IsMember(path)
         /\ IsElement(home \o path) <=> IsElement(path)
         /\ IsBranch(home \o path) <=> IsBranch(path)
<1>1. home \o path # << >> /\ Last(home \o path) = Last(path)
  BY JoinIs, PrefixOfJoin
<1>2. QED
  BY <1>1 DEF IsMember, IsElement, IsBranch

-----------------------------------------------------------------------------
(* Schemas, and the part of a schema from one of its shapes down.          *)

(* Induction over the numbers up to a bound, for sets of numbers: a set    *)
(* that has 0, and with a number the next one, has all of them.            *)
LEMMA UpTo ==
  ASSUME NEW bound \in Nat, NEW numbers \in SUBSET (0 .. bound), 0 \in numbers,
         \A n \in 0 .. bound - 1 : n \in numbers => n + 1 \in numbers
  PROVE  numbers = 0 .. bound
<1> DEFINE low == { n \in 0 .. bound : 0 .. n \subseteq numbers }
           size == Cardinality(low)
<1>1. IsFiniteSet(low) /\ size \in Nat
  <2>1. IsFiniteSet(0 .. bound) /\ low \in SUBSET (0 .. bound)
    BY FS_Interval
  <2>2. QED
    BY <2>1, FS_Subset, FS_CardinalityType
<1>2. 0 \in low
  BY 0 .. 0 = {0}
<1>3. \A n \in low : 0 .. n \subseteq low
  OBVIOUS
<1>4. \A n \in low : n \in Nat /\ n <= bound
  OBVIOUS
<1>5. \A n \in low : n < bound => n + 1 \in low
  <2> SUFFICES ASSUME NEW n \in low, n < bound PROVE n + 1 \in low
    OBVIOUS
  <2>1. n \in numbers /\ n + 1 \in numbers
    OBVIOUS
  <2>2. 0 .. n + 1 = (0 .. n) \cup {n + 1}
    BY <1>4
  <2>3. QED
    BY <1>4, <2>1, <2>2
<1> HIDE DEF low
<1>6. \A n \in low : n + 1 <= size
  <2> SUFFICES ASSUME NEW n \in low PROVE n + 1 <= size
    OBVIOUS
  <2>0. n \in Nat
    BY <1>4
  <2>1. Cardinality(0 .. n) = n + 1 /\ 0 .. n \in SUBSET low
    BY <1>3, <2>0, FS_Interval
  <2>2. Cardinality(0 .. n) <= size
    BY <1>1, <2>1, FS_Subset
  <2>3. QED
    BY <2>1, <2>2
<1>7. low = 0 .. size - 1
  <2>0. size # 0
    BY <1>1, <1>2, FS_EmptySet
  <2>1. IsFiniteSet(0 .. size - 1) /\ Cardinality(0 .. size - 1) = size
    BY <1>1, <2>0, FS_Interval
  <2>2. low \in SUBSET (0 .. size - 1)
    BY <1>1, <1>4, <1>6
  <2>3. QED
    BY <2>1, <2>2, FS_Subset
<1>8. size - 1 \in low
  BY <1>1, <1>2, <1>6, <1>7
<1>9. bound \in low
  <2>1. size - 1 < bound => size \in low
    BY <1>1, <1>5, <1>8
  <2>2. size - 1 = bound
    BY <1>1, <1>4, <1>6, <1>8, <2>1
  <2>3. QED
    BY <1>8, <2>2
<1>10. QED
  BY <1>9 DEF low

(* A schema's positions are paths, and with a path its prefixes.           *)
LEMMA Positions ==
  ASSUME NEW schema, WellFormed(schema)
  PROVE  /\ << >> \in DOMAIN schema /\ DOMAIN schema \subseteq Paths
         /\ \A path \in DOMAIN schema \ {<< >>} : Front(path) \in DOMAIN schema
         /\ \A path \in DOMAIN schema : \A n \in 0 .. Len(path) : Prefix(path, n) \in DOMAIN schema
<1>1. /\ << >> \in DOMAIN schema /\ DOMAIN schema \subseteq Paths
      /\ \A path \in DOMAIN schema \ {<< >>} : Front(path) \in DOMAIN schema
  BY DEF WellFormed, Paths
<1>2. ASSUME NEW path \in DOMAIN schema
      PROVE  \A n \in 0 .. Len(path) : Prefix(path, n) \in DOMAIN schema
  <2> DEFINE numbers == { k \in 0 .. Len(path) : Prefix(path, Len(path) - k) \in DOMAIN schema }
  <2>1. path \in Paths /\ Len(path) \in Nat /\ Prefix(path, Len(path)) = path
    BY <1>1, PathIs
  <2>2. 0 \in numbers /\ numbers \in SUBSET (0 .. Len(path))
    BY <2>1
  <2>3. ASSUME NEW k \in 0 .. Len(path) - 1, k \in numbers PROVE k + 1 \in numbers
    <3> DEFINE n == Len(path) - k
    <3>1. n \in 0 .. Len(path) /\ n > 0 /\ n - 1 = Len(path) - (k + 1) /\ k + 1 \in 0 .. Len(path)
      BY <2>1
    <3>2. Prefix(path, n) \in DOMAIN schema /\ Prefix(path, n) # << >>
      BY <2>1, <2>3, <3>1, PrefixIs
    <3>3. Front(Prefix(path, n)) = Prefix(path, n - 1)
      BY <2>1, <3>1, PrefixOfPrefix
    <3>4. QED
      BY <1>1, <3>1, <3>2, <3>3
  <2> HIDE DEF numbers
  <2>4. numbers = 0 .. Len(path)
    BY <2>1, <2>2, <2>3, UpTo
  <2>5. ASSUME NEW n \in 0 .. Len(path) PROVE Prefix(path, n) \in DOMAIN schema
    <3>1. Len(path) - n \in 0 .. Len(path) /\ Len(path) - (Len(path) - n) = n
      BY <2>1
    <3>2. Len(path) - n \in numbers
      BY <2>4, <3>1
    <3>3. QED
      BY <3>1, <3>2 DEF numbers
  <2>6. QED
    BY <2>5
<1>3. QED
  BY <1>1, <1>2

(* What is found below a position.                                         *)
LEMMA BelowIs ==
  ASSUME NEW schema, WellFormed(schema), NEW home \in Paths
  PROVE  Below(schema, home) =
           [ rest \in { q \in Paths : home \o q \in DOMAIN schema } |-> schema[home \o rest] ]
<1> DEFINE found == { SubSeq(p, Len(home) + 1, Len(p)) :
                        p \in { q \in DOMAIN schema : IsPrefix(home, q) } }
           rests == { q \in Paths : home \o q \in DOMAIN schema }
<1>1. DOMAIN schema \subseteq Paths
  BY Positions
<1>2. ASSUME NEW p \in DOMAIN schema, IsPrefix(home, p)
      PROVE  SubSeq(p, Len(home) + 1, Len(p)) \in rests
  <2>1. p \in Paths /\ Len(home) \in 0 .. Len(p)
    BY <1>1, <1>2, IsPrefixIs, PathIs
  <2>2. After(p, Len(home)) \in Paths /\ p = home \o After(p, Len(home))
    BY <1>2, <2>1, Cut, IsPrefixIs
  <2>3. QED
    BY <2>2 DEF After
<1>3. ASSUME NEW q \in rests PROVE q \in found
  <2>1. home \o q \in DOMAIN schema /\ home \o q \in Paths /\ IsPrefix(home, home \o q)
    BY JoinIs, IsPrefixIs
  <2>2. q = After(home \o q, Len(home))
    BY AfterJoin
  <2>3. QED
    BY <2>1, <2>2 DEF After
<1>4. found = rests
  BY <1>2, <1>3
<1>5. QED
  BY <1>4 DEF Below

(* What is taken out with a shape.                                         *)
LEMMA TakenOutIs ==
  ASSUME NEW schema, WellFormed(schema), NEW home \in Paths
  PROVE  TakenOut(schema, home) =
           [ path \in { q \in Paths : home \o q \in DOMAIN schema } |->
               IF path = << >> THEN Without(schema[home], StaysBehind(home)) ELSE schema[home \o path] ]
<1> DEFINE shape == Below(schema, home)
           rests == { q \in Paths : home \o q \in DOMAIN schema }
<1>1. DOMAIN shape = rests /\ \A rest \in rests : shape[rest] = schema[home \o rest]
  <2>1. shape = [ rest \in rests |-> schema[home \o rest] ]
    BY BelowIs
  <2> HIDE DEF shape, rests
  <2>2. QED
    BY <2>1
<1>2. home \o << >> = home
  BY JoinIs
<1>3. TakenOut(schema, home) =
        [ p \in DOMAIN shape |->
            IF p = << >> THEN Without(shape[p], StaysBehind(home)) ELSE shape[p] ]
  BY DEF TakenOut
<1> HIDE DEF shape
<1>4. QED
  BY <1>1, <1>2, <1>3

(* A model in which nothing was taken out is a part of the text: all of an *)
(* authored schema, or what is in it from one of its shapes down.          *)
IsPart(part, schema, home) ==
  /\ home \in DOMAIN schema /\ (home # << >> => NeedsName(schema, home))
  /\ DOMAIN part = { q \in Paths : home \o q \in DOMAIN schema }
  /\ part[<< >>] = Without(schema[home], StaysBehind(home))
  /\ \A path \in DOMAIN part \ {<< >>} : part[path] = schema[home \o path]

(* A schema is a part of itself.                                           *)
LEMMA WholeIsPart == ASSUME NEW schema, WellFormed(schema) PROVE IsPart(schema, schema, << >>)
<1>1. << >> \in DOMAIN schema /\ DOMAIN schema \subseteq Paths /\ << >> \in Paths
  BY Positions
<1>2. \A path \in Paths : << >> \o path = path
  BY JoinIs, <1>1
<1>3. StaysBehind(<< >>) = {} /\ schema[<< >>] = Without(schema[<< >>], {})
  BY <1>1 DEF StaysBehind, IsMember, WellFormed
<1>4. QED
  BY <1>1, <1>2, <1>3 DEF IsPart

(* What is taken out is a part.                                            *)
LEMMA TakenOutIsPart ==
  ASSUME NEW schema, WellFormed(schema), NEW home \in DOMAIN schema, NeedsName(schema, home)
  PROVE  IsPart(TakenOut(schema, home), schema, home)
<1>1. home \in Paths /\ << >> \in Paths /\ home \o << >> = home
  BY Positions, JoinIs
<1>2. TakenOut(schema, home) =
        [ path \in { q \in Paths : home \o q \in DOMAIN schema } |->
            IF path = << >> THEN Without(schema[home], StaysBehind(home)) ELSE schema[home \o path] ]
  BY <1>1, TakenOutIs
<1>3. QED
  BY <1>1, <1>2, Zenon DEF IsPart

(* A shape of a part is taken out of the text.                             *)
LEMMA TakenOutOfPart ==
  ASSUME NEW schema, WellFormed(schema), NEW home, NEW part, IsPart(part, schema, home),
         WellFormed(part), NEW path \in DOMAIN part, path # << >>
  PROVE  TakenOut(part, path) = TakenOut(schema, home \o path)
<1>1. home \in Paths /\ path \in Paths /\ home \o path \in Paths
  BY Positions, JoinIs DEF IsPart
<1>2. ASSUME NEW q \in Paths
      PROVE  path \o q \in DOMAIN part <=> (home \o path) \o q \in DOMAIN schema
  <2>1. (home \o path) \o q = home \o (path \o q)
    BY <1>1, JoinAgain
  <2>2. path \o q \in Paths
    BY <1>1, JoinIs
  <2>3. QED
    BY <2>1, <2>2 DEF IsPart
<1>3. part[path] = schema[home \o path]
  BY DEF IsPart
<1>4. StaysBehind(path) = StaysBehind(home \o path)
  BY <1>1, KindOfJoin DEF StaysBehind
<1>5. \A q \in Paths : path \o q \in DOMAIN part => part[path \o q] = schema[(home \o path) \o q]
  <2> SUFFICES ASSUME NEW q \in Paths, path \o q \in DOMAIN part
               PROVE  part[path \o q] = schema[(home \o path) \o q]
    OBVIOUS
  <2>1. path \o q # << >>
    BY <1>1, JoinIs
  <2>2. (home \o path) \o q = home \o (path \o q)
    BY <1>1, JoinAgain
  <2>3. QED
    BY <2>1, <2>2 DEF IsPart
<1>6. { q \in Paths : path \o q \in DOMAIN part } =
      { q \in Paths : (home \o path) \o q \in DOMAIN schema }
  BY <1>2
<1> DEFINE here == { q \in Paths : path \o q \in DOMAIN part }
           there == { q \in Paths : (home \o path) \o q \in DOMAIN schema }
<1>7. TakenOut(part, path) =
        [ q \in here |->
            IF q = << >> THEN Without(part[path], StaysBehind(path)) ELSE part[path \o q] ]
  BY <1>1, TakenOutIs
<1>8. TakenOut(schema, home \o path) =
        [ q \in there |->
            IF q = << >> THEN Without(schema[home \o path], StaysBehind(home \o path))
            ELSE schema[(home \o path) \o q] ]
  BY <1>1, TakenOutIs
<1>9. \A q \in here : part[path \o q] = schema[(home \o path) \o q]
  BY <1>5
<1> HIDE DEF here, there
<1>10. here = there
  BY <1>6 DEF here, there
<1>11. QED
  BY <1>3, <1>4, <1>7, <1>8, <1>9, <1>10

-----------------------------------------------------------------------------
(* What is said of a position of a part is said of it in the text.         *)

(* Its keywords, but for the name that stays in the place of a member.     *)
LEMMA SameKeywords ==
  ASSUME NEW schema, WellFormed(schema), NEW home, NEW part, IsPart(part, schema, home),
         NEW path \in DOMAIN part, NEW key, key # "x-name" \/ path # << >> \/ ~ IsMember(home)
  PROVE  /\ home \o path \in DOMAIN schema
         /\ Has(part[path], key) <=> Has(schema[home \o path], key)
         /\ Has(part[path], key) => part[path][key] = schema[home \o path][key]
<1>1. home \in Paths /\ home \o << >> = home /\ home \o path \in DOMAIN schema
  BY Positions, JoinIs DEF IsPart
<1>2. CASE path # << >>
  BY <1>1, <1>2 DEF IsPart
<1>3. CASE path = << >>
  <2>1. key \notin StaysBehind(home)
    BY <1>3 DEF StaysBehind
  <2>2. part[path] = Without(schema[home], StaysBehind(home))
    BY <1>3 DEF IsPart
  <2>3. QED
    BY <1>1, <1>3, <2>1, <2>2 DEF Without, Has
<1>4. QED
  BY <1>2, <1>3

(* Its kind.                                                               *)
LEMMA SameType ==
  ASSUME NEW schema, WellFormed(schema), NEW home, NEW part, IsPart(part, schema, home),
         NEW path \in DOMAIN part
  PROVE  /\ \A type : IsOfType(part, path, type) <=> IsOfType(schema, home \o path, type)
         /\ IsInlineObject(part, path) <=> IsInlineObject(schema, home \o path)
<1>1. /\ Has(part[path], "type") <=> Has(schema[home \o path], "type")
      /\ Has(part[path], "type") => part[path]["type"] = schema[home \o path]["type"]
  BY SameKeywords
<1>2. QED
  BY <1>1 DEF IsOfType, IsInlineObject

(* The positions one step below it ...                                     *)
LEMMA SameChildren ==
  ASSUME NEW schema, WellFormed(schema), NEW home, NEW part, IsPart(part, schema, home),
         NEW path \in DOMAIN part, NEW child \in DOMAIN part, child # << >>, Front(child) = path
  PROVE  /\ home \o child \in DOMAIN schema /\ home \o child # << >>
         /\ Front(home \o child) = home \o path
<1>1. home \in Paths /\ child \in Paths /\ home \o child \in DOMAIN schema
  BY Positions DEF IsPart
<1>2. home \o child # << >>
  BY <1>1, JoinIs
<1>3. Front(home \o child) = home \o path
  BY <1>1, PrefixOfJoin
<1>4. QED
  BY <1>1, <1>2, <1>3

(* ... and no others.                                                      *)
LEMMA OnlyChildren ==
  ASSUME NEW schema, WellFormed(schema), NEW home, NEW part, IsPart(part, schema, home),
         NEW path \in DOMAIN part,
         NEW child \in DOMAIN schema, child # << >>, Front(child) = home \o path
  PROVE  /\ After(child, Len(home)) \in DOMAIN part \ {<< >>}
         /\ Front(After(child, Len(home))) = path /\ child = home \o After(child, Len(home))
<1>0. home \in Paths /\ path \in Paths /\ DOMAIN part \subseteq Paths
  BY Positions DEF IsPart
<1> DEFINE n == Len(child) - 1
           step == After(child, n)
<1>1. child \in Paths /\ n \in 0 .. Len(child) /\ Front(child) = Prefix(child, n) /\ n + 1 = Len(child)
  BY Positions, PathIs
<1>2. step \in Paths /\ Len(step) = Len(child) - n /\ child = Prefix(child, n) \o step
  BY <1>1, Cut
<1> HIDE DEF step
<1>3. Len(step) = 1 /\ child = (home \o path) \o step
  <2>1. Len(step) = Len(child) - n /\ n = Len(child) - 1 /\ Len(child) \in Nat
    BY <1>1, <1>2, PathIs
  <2>2. Len(step) = 1
    BY <2>1
  <2>3. Prefix(child, n) = home \o path
    BY <1>1
  <2>4. QED
    BY <1>2, <2>2, <2>3
<1>4. child = home \o (path \o step) /\ path \o step \in Paths
  <2>1. path \o step \in Paths
    BY <1>0, <1>2, JoinIs
  <2>2. (home \o path) \o step = home \o (path \o step)
    BY <1>0, <1>2, JoinAgain
  <2>3. QED
    BY <1>3, <2>1, <2>2
<1>5. path \o step \in DOMAIN part
  BY <1>4 DEF IsPart
<1>6. step # << >> /\ Front(step) = << >>
  <2>0. step = << >> <=> Len(step) = 0
    BY <1>2, PathIs
  <2>1. step # << >>
    BY <1>3, <2>0
  <2>3. Front(step) \in Paths /\ Len(Front(step)) = Len(step) - 1
    BY <1>2, <2>1, PathIs
  <2>4. Len(Front(step)) = 0
    BY <1>3, <2>3
  <2>2. QED
    BY <2>1, <2>3, <2>4, PathIs
<1>7. path \o step # << >> /\ Front(path \o step) = path
  <2>1. path \o step # << >> /\ path \o << >> = path
    BY <1>0, <1>2, <1>6, JoinIs
  <2>2. Front(path \o step) = path \o Front(step)
    BY <1>0, <1>2, <1>6, PrefixOfJoin
  <2>3. QED
    BY <1>6, <2>1, <2>2
<1>8. After(child, Len(home)) = path \o step
  BY <1>0, <1>4, AfterJoin
<1>9. QED
  BY <1>4, <1>5, <1>7, <1>8

(* Whether it is free-form, and what is in it when it is a union.          *)
LEMMA SameInside ==
  ASSUME NEW schema, WellFormed(schema), NEW home, NEW part, IsPart(part, schema, home),
         NEW path \in DOMAIN part
  PROVE  /\ IsFreeForm(part, path) <=> IsFreeForm(schema, home \o path)
         /\ \A branch \in Branches(part, path) : home \o branch \in Branches(schema, home \o path)
         /\ \A branch \in Branches(schema, home \o path) :
              \E below \in Branches(part, path) : branch = home \o below
<1>1. home \in Paths /\ DOMAIN part \subseteq Paths
  BY Positions DEF IsPart
<1>2. ASSUME NEW child \in DOMAIN part, child # << >>, Front(child) = path
      PROVE  /\ home \o child \in DOMAIN schema /\ Front(home \o child) = home \o path
             /\ IsMember(home \o child) <=> IsMember(child)
             /\ IsBranch(home \o child) <=> IsBranch(child)
  BY <1>1, <1>2, SameChildren, KindOfJoin
<1>3. ASSUME NEW child \in DOMAIN schema, child # << >>, Front(child) = home \o path
      PROVE  \E below \in DOMAIN part : /\ Front(below) = path /\ child = home \o below
                                        /\ IsMember(child) <=> IsMember(below)
                                        /\ IsBranch(child) <=> IsBranch(below)
  <2> DEFINE below == After(child, Len(home))
  <2>1. below \in DOMAIN part /\ below # << >> /\ Front(below) = path /\ child = home \o below
    BY <1>3, OnlyChildren
  <2> HIDE DEF below
  <2>2. QED
    BY <1>1, <2>1, KindOfJoin
<1>4. /\ Has(part[path], "additionalProperties") <=> Has(schema[home \o path], "additionalProperties")
  BY SameKeywords
<1>5. \A child : (IsMember(child) \/ IsBranch(child)) => child # << >>
  BY DEF IsMember, IsBranch
<1>6. (\E member \in DOMAIN part : IsMember(member) /\ Front(member) = path) <=>
      (\E member \in DOMAIN schema : IsMember(member) /\ Front(member) = home \o path)
  <2>1. ASSUME NEW member \in DOMAIN part, IsMember(member), Front(member) = path
        PROVE  \E m \in DOMAIN schema : IsMember(m) /\ Front(m) = home \o path
    BY <1>2, <1>5, <2>1
  <2>2. ASSUME NEW member \in DOMAIN schema, IsMember(member), Front(member) = home \o path
        PROVE  \E m \in DOMAIN part : IsMember(m) /\ Front(m) = path
    BY <1>3, <1>5, <2>2
  <2>3. QED
    BY <2>1, <2>2
<1>7. IsFreeForm(part, path) <=> IsFreeForm(schema, home \o path)
  BY <1>4, <1>6 DEF IsFreeForm
<1>8. \A branch \in Branches(part, path) : home \o branch \in Branches(schema, home \o path)
  BY <1>2, <1>5 DEF Branches
<1>9. \A branch \in Branches(schema, home \o path) :
        \E below \in Branches(part, path) : branch = home \o below
  BY <1>3, <1>5 DEF Branches
<1>10. QED
  BY <1>7, <1>8, <1>9

(* Whether it is a sum type.                                               *)
LEMMA SameSumType ==
  ASSUME NEW schema, WellFormed(schema), NEW home, NEW part, IsPart(part, schema, home),
         NEW path \in DOMAIN part
  PROVE  /\ IsSumType(part, path) <=> IsSumType(schema, home \o path)
         /\ Branches(part, path) = {} <=> Branches(schema, home \o path) = {}
<1>1. /\ \A branch \in Branches(part, path) : home \o branch \in Branches(schema, home \o path)
      /\ \A branch \in Branches(schema, home \o path) :
           \E below \in Branches(part, path) : branch = home \o below
  BY SameInside
<1>2. home \in Paths /\ DOMAIN part \subseteq Paths /\ Branches(part, path) \subseteq DOMAIN part
  BY Positions DEF IsPart, Branches
<1>3. \A branch \in Branches(part, path) :
        IsOfType(part, branch, "null") <=> IsOfType(schema, home \o branch, "null")
  BY <1>2, SameType
<1>4. ASSUME IsSumType(part, path) PROVE IsSumType(schema, home \o path)
  <2>1. PICK a, b \in Branches(part, path) :
          a # b /\ ~ IsOfType(part, a, "null") /\ ~ IsOfType(part, b, "null")
    BY <1>4 DEF IsSumType
  <2>2. home \o a # home \o b
    <3>1. a \in Paths /\ b \in Paths
      BY <1>2
    <3>2. home \o a = home \o b => a = b
      BY <1>2, <3>1, SameRest
    <3>3. QED
      BY <2>1, <3>2
  <2>3. QED
    BY <1>1, <1>3, <2>1, <2>2 DEF IsSumType
<1>5. ASSUME IsSumType(schema, home \o path) PROVE IsSumType(part, path)
  <2>1. PICK a, b \in Branches(schema, home \o path) :
          a # b /\ ~ IsOfType(schema, a, "null") /\ ~ IsOfType(schema, b, "null")
    BY <1>5 DEF IsSumType
  <2>2. PICK c \in Branches(part, path) : a = home \o c
    BY <1>1
  <2>3. PICK d \in Branches(part, path) : b = home \o d
    BY <1>1
  <2>4. c # d /\ ~ IsOfType(part, c, "null") /\ ~ IsOfType(part, d, "null")
    BY <1>3, <2>1, <2>2, <2>3
  <2>5. QED
    BY <2>4 DEF IsSumType
<1>6. QED
  BY <1>1, <1>4, <1>5

(* A shape that needs a name is an object or a sum type: it is no wrapper. *)
LEMMA ShapesAreNotNullable ==
  ASSUME NEW schema, WellFormed(schema), NEW path \in DOMAIN schema, NeedsName(schema, path)
  PROVE  /\ ~ IsNullable(schema, path) /\ path # << >>
         /\ IsInlineObject(schema, path) \/ IsSumType(schema, path)
<1>1. (IsInlineObject(schema, path) \/ IsSumType(schema, path)) /\ path # << >>
  BY DEF NeedsName, IsElement
<1>2. ASSUME IsInlineObject(schema, path) PROVE Branches(schema, path) = {}
  <2>1. Has(schema[path], "type")
    BY <1>2 DEF IsInlineObject, IsOfType
  <2>2. \A branch \in DOMAIN schema : IsBranch(branch) => ~ Has(schema[Front(branch)], "type")
    BY DEF WellFormed
  <2>3. QED
    BY <2>1, <2>2 DEF Branches
<1>3. QED
  BY <1>1, <1>2 DEF IsNullable

(* Whether it is a nullability wrapper.                                    *)
LEMMA SameNullable ==
  ASSUME NEW schema, WellFormed(schema), NEW home, NEW part, IsPart(part, schema, home),
         NEW path \in DOMAIN part
  PROVE  IsNullable(part, path) <=> IsNullable(schema, home \o path)
<1>1. home \in Paths /\ path \in Paths
  BY Positions DEF IsPart
<1>2. CASE path # << >>
  <2>1. home \o path # << >>
    BY <1>1, <1>2, JoinIs
  <2>2. QED
    BY <1>2, <2>1, SameSumType DEF IsNullable
<1>3. CASE path = << >>
  <2>1. ~ IsNullable(part, path)
    BY <1>3 DEF IsNullable
  <2>2. home \o path = home
    BY <1>1, <1>3, JoinIs
  <2>3. home = << >> \/ (home \in DOMAIN schema /\ NeedsName(schema, home))
    BY DEF IsPart
  <2>4. ~ IsNullable(schema, home)
    BY <2>3, ShapesAreNotNullable DEF IsNullable
  <2>5. QED
    BY <2>1, <2>2, <2>4
<1>4. QED
  BY <1>2, <1>3

(* Whether it needs a name, when it is not the root of the part.           *)
LEMMA SameNeed ==
  ASSUME NEW schema, WellFormed(schema), NEW home, NEW part, IsPart(part, schema, home),
         NEW path \in DOMAIN part, path # << >>, Front(path) \in DOMAIN part
  PROVE  NeedsName(part, path) <=> NeedsName(schema, home \o path)
<1>1. home \in Paths /\ path \in Paths
  BY Positions DEF IsPart
<1>2. home \o path # << >>
  BY <1>1, JoinIs
<1>3. Front(home \o path) = home \o Front(path)
  BY <1>1, PrefixOfJoin
<1>4. IsNullable(part, Front(path)) <=> IsNullable(schema, home \o Front(path))
  BY SameNullable
<1>5. /\ IsElement(home \o path) <=> IsElement(path)
      /\ IsBranch(home \o path) <=> IsBranch(path)
  BY <1>1, KindOfJoin
<1>6. /\ IsInlineObject(part, path) <=> IsInlineObject(schema, home \o path)
      /\ IsFreeForm(part, path) <=> IsFreeForm(schema, home \o path)
      /\ IsSumType(part, path) <=> IsSumType(schema, home \o path)
  BY SameType, SameInside, SameSumType
<1>7. QED
  BY <1>2, <1>3, <1>4, <1>5, <1>6 DEF NeedsName

(* A part is a schema.                                                     *)
LEMMA PartIsWellFormed ==
  ASSUME NEW schema, WellFormed(schema), NEW home, NEW part, IsPart(part, schema, home)
  PROVE  WellFormed(part)
<1>1. home \in Paths /\ home \in DOMAIN schema /\ home \o << >> = home /\ << >> \in Paths
  BY Positions, JoinIs DEF IsPart
<1>2. << >> \in DOMAIN part /\ DOMAIN part \subseteq Paths
  BY <1>1 DEF IsPart
<1>3. ASSUME NEW path \in DOMAIN part PROVE part[path] = Without(part[path], {})
  <2>1. CASE path = << >>
    BY <2>1 DEF IsPart, Without
  <2>2. CASE path # << >>
    <3>1. part[path] = schema[home \o path] /\ home \o path \in DOMAIN schema
      BY <2>2 DEF IsPart
    <3>2. QED
      BY <3>1 DEF WellFormed
  <2>3. QED
    BY <2>1, <2>2
<1>4. ASSUME NEW path \in DOMAIN part, path # << >>
      PROVE  /\ Front(path) \in DOMAIN part /\ home \o path \in DOMAIN schema /\ path \in Paths
             /\ home \o path # << >> /\ Front(home \o path) = home \o Front(path)
  <2>1. path \in Paths /\ home \o path \in DOMAIN schema
    BY DEF IsPart
  <2>2. home \o path # << >>
    BY <1>1, <1>4, <2>1, JoinIs
  <2>3. Front(home \o path) = home \o Front(path)
    BY <1>1, <1>4, <2>1, PrefixOfJoin
  <2>4. home \o Front(path) \in DOMAIN schema
    BY <2>1, <2>2, <2>3, Positions
  <2>5. Front(path) \in Paths
    BY <1>4, <2>1, PathIs
  <2>6. QED
    BY <2>1, <2>2, <2>3, <2>4, <2>5 DEF IsPart
<1>5. ASSUME NEW path \in DOMAIN part, path # << >>
      PROVE  /\ IsMember(path) => IsInlineObject(part, Front(path))
             /\ IsElement(path) =>
                  IF Last(path)[1] = "items" THEN IsOfType(part, Front(path), "array")
                  ELSE /\ IsInlineObject(part, Front(path))
                       /\ ~ Has(part[Front(path)], "additionalProperties")
             /\ IsBranch(path) => ~ Has(part[Front(path)], "type") /\ ~ IsBranch(Front(path))
  <2> DEFINE there == home \o path
             above == home \o Front(path)
  <2>1. /\ Front(path) \in DOMAIN part /\ there \in DOMAIN schema /\ path \in Paths
        /\ there # << >> /\ Front(there) = above
    BY <1>4, <1>5
  <2>2. Last(there) = Last(path)
    BY <1>1, <1>5, <2>1, PrefixOfJoin
  <2>3. /\ IsMember(there) <=> IsMember(path)
        /\ IsElement(there) <=> IsElement(path)
        /\ IsBranch(there) <=> IsBranch(path)
    BY <1>1, <1>5, <2>1, KindOfJoin
  <2>4. /\ \A type : IsOfType(part, Front(path), type) <=> IsOfType(schema, above, type)
        /\ IsInlineObject(part, Front(path)) <=> IsInlineObject(schema, above)
    BY <2>1, SameType
  <2>5. Has(part[Front(path)], "additionalProperties") <=> Has(schema[above], "additionalProperties")
    BY <2>1, SameKeywords
  <2>6. Has(part[Front(path)], "type") <=> Has(schema[above], "type")
    BY <2>1, SameKeywords
  <2>7. IsBranch(Front(path)) => IsBranch(above)
    <3>1. Front(path) \in Paths /\ (IsBranch(Front(path)) => Front(path) # << >>)
      BY <1>5, <2>1, PathIs DEF IsBranch
    <3>2. QED
      BY <1>1, <3>1, KindOfJoin
  <2>8. /\ IsMember(there) => IsInlineObject(schema, above)
        /\ IsElement(there) =>
             IF Last(there)[1] = "items" THEN IsOfType(schema, above, "array")
             ELSE IsInlineObject(schema, above) /\ ~ Has(schema[above], "additionalProperties")
        /\ IsBranch(there) => ~ Has(schema[above], "type") /\ ~ IsBranch(above)
    BY <2>1 DEF WellFormed
  <2> HIDE DEF there, above
  <2>9. QED
    BY <2>2, <2>3, <2>4, <2>5, <2>6, <2>7, <2>8
<1>6. \A path \in DOMAIN part : path = << >> => ~ IsMember(path) /\ ~ IsElement(path) /\ ~ IsBranch(path)
  BY DEF IsMember, IsElement, IsBranch
<1>7. QED
  BY <1>2, <1>3, <1>4, <1>5, <1>6 DEF WellFormed, Paths

-----------------------------------------------------------------------------
(* The names on the way down: NameOf and Derived are defined by recursion. *)

(* What a position adds to the name of what it is in.                      *)
Named(schema, here, outside, name) ==
  IF NamesItself(schema, here) THEN schema[here]["x-name"]
  ELSE IF IsAmbiguous(schema, here) THEN Unnamed
  ELSE (IF NeedsName(schema, outside) THEN Camel(name) ELSE name) \o Word(schema, here)

IsNaming(f, schema, path, model, n) ==
  f = [ i \in 0 .. n |-> IF i = 0 THEN model
                         ELSE Named(schema, Prefix(path, i), Prefix(path, i - 1), f[i - 1]) ]

(* The recursion is defined.                                               *)
LEMMA NamingExists ==
  ASSUME NEW schema, NEW path, NEW model, NEW length \in Nat
  PROVE  \E f : IsNaming(f, schema, path, model, length)
<1> DEFINE good == { n \in 0 .. length : \E f : IsNaming(f, schema, path, model, n) }
<1>1. 0 \in good
  <2> DEFINE f == [ i \in 0 .. 0 |-> model ]
  <2>1. \A i \in 0 .. 0 : i = 0
    OBVIOUS
  <2>2. IsNaming(f, schema, path, model, 0)
    BY <2>1 DEF IsNaming
  <2>3. QED
    BY <2>2
<1>2. ASSUME NEW n \in 0 .. length - 1, n \in good PROVE n + 1 \in good
  <2>1. PICK f : IsNaming(f, schema, path, model, n)
    BY <1>2
  <2> DEFINE Value(g, i) == IF i = 0 THEN model
                            ELSE Named(schema, Prefix(path, i), Prefix(path, i - 1), g[i - 1])
             longer == [ i \in 0 .. n + 1 |-> Value(f, i) ]
  <2>2. f = [ i \in 0 .. n |-> Value(f, i) ]
    BY <2>1 DEF IsNaming
  <2>3. \A i \in 0 .. n : f[i] = Value(f, i)
    <3> HIDE DEF Value
    <3>1. QED
      BY <2>2
  <2>4. \A i \in 0 .. n + 1 : longer[i] = Value(f, i)
    <3> HIDE DEF Value
    <3>1. QED
      OBVIOUS
  <2>5. ASSUME NEW i \in 0 .. n + 1 PROVE Value(longer, i) = Value(f, i)
    <3>1. CASE i = 0
      BY <3>1
    <3>2. CASE i # 0
      <4>1. i - 1 \in 0 .. n /\ i - 1 \in 0 .. n + 1
        BY <3>2
      <4>2. longer[i - 1] = f[i - 1]
        <5> HIDE DEF Value, longer
        <5>1. QED
          BY <2>3, <2>4, <4>1
      <4> HIDE DEF longer
      <4>3. QED
        BY <4>2
    <3>3. QED
      BY <3>1, <3>2
  <2>6. longer = [ i \in 0 .. n + 1 |-> Value(longer, i) ]
    <3> HIDE DEF Value
    <3>1. QED
      BY <2>4, <2>5
  <2>7. IsNaming(longer, schema, path, model, n + 1)
    <3> HIDE DEF longer
    <3>1. QED
      BY <2>6 DEF IsNaming
  <2>8. QED
    BY <2>7
<1>3. good = 0 .. length
  <2>1. good \in SUBSET (0 .. length)
    OBVIOUS
  <2> HIDE DEF good
  <2>2. QED
    BY <1>1, <1>2, <2>1, UpTo
<1>4. QED
  BY <1>3

(* What it gives depends on the steps so far only.                         *)
LEMMA NamingAgrees ==
  ASSUME NEW schema, NEW model, NEW one, NEW other, NEW m \in Nat, NEW n \in 0 .. m,
         \A i \in 0 .. n : Prefix(one, i) = Prefix(other, i),
         NEW f, IsNaming(f, schema, one, model, n), NEW g, IsNaming(g, schema, other, model, m)
  PROVE  f[n] = g[n]
<1> DEFINE good == { i \in 0 .. n : f[i] = g[i] }
<1>1. \A i \in 0 .. n : f[i] = IF i = 0 THEN model
                              ELSE Named(schema, Prefix(one, i), Prefix(one, i - 1), f[i - 1])
  BY DEF IsNaming
<1>2. \A i \in 0 .. m : g[i] = IF i = 0 THEN model
                              ELSE Named(schema, Prefix(other, i), Prefix(other, i - 1), g[i - 1])
  BY DEF IsNaming
<1>3. 0 \in good
  BY <1>1, <1>2
<1>4. ASSUME NEW i \in 0 .. n - 1, i \in good PROVE i + 1 \in good
  <2>1. i + 1 \in 0 .. n /\ i + 1 \in 0 .. m /\ i + 1 # 0 /\ (i + 1) - 1 = i /\ i \in 0 .. n
    OBVIOUS
  <2>2. f[i + 1] = Named(schema, Prefix(one, i + 1), Prefix(one, i), f[i])
    BY <1>1, <2>1
  <2>3. g[i + 1] = Named(schema, Prefix(other, i + 1), Prefix(other, i), g[i])
    BY <1>2, <2>1
  <2>4. QED
    BY <1>4, <2>1, <2>2, <2>3
<1>5. good = 0 .. n
  <2>1. good \in SUBSET (0 .. n) /\ n \in Nat
    OBVIOUS
  <2> HIDE DEF good
  <2>2. QED
    BY <1>3, <1>4, <2>1, UpTo
<1>6. QED
  BY <1>5

(* The name of a position of the text, from the one of what it is in.      *)
LEMMA NameOfIs ==
  ASSUME NEW schema, NEW path \in Paths, NEW model
  PROVE  /\ path = << >> => NameOf(schema, path, model) = model
         /\ path # << >> => NameOf(schema, path, model) =
                              Named(schema, path, Front(path), NameOf(schema, Front(path), model))
<1> DEFINE N(p) == CHOOSE f : IsNaming(f, schema, p, model, Len(p))
<1>1. \A p : NameOf(schema, p, model) = N(p)[Len(p)]
  BY DEF NameOf, IsNaming, Named
<1>2. ASSUME NEW p \in Paths PROVE IsNaming(N(p), schema, p, model, Len(p))
  <2>1. Len(p) \in Nat
    BY PathIs
  <2>2. \E f : IsNaming(f, schema, p, model, Len(p))
    BY <2>1, NamingExists
  <2>3. QED
    BY <2>2
<1> HIDE DEF N
<1>3. Len(path) \in Nat /\ Len(path) \in 0 .. Len(path) /\ Prefix(path, Len(path)) = path
  BY PathIs
<1>4. N(path)[Len(path)] = IF Len(path) = 0 THEN model
        ELSE Named(schema, Prefix(path, Len(path)), Prefix(path, Len(path) - 1), N(path)[Len(path) - 1])
  BY <1>2, <1>3 DEF IsNaming
<1>5. CASE path = << >>
  BY <1>1, <1>4, <1>5, PathIs
<1>6. CASE path # << >>
  <2> DEFINE n == Len(path) - 1
  <2>1. /\ Len(path) # 0 /\ n \in 0 .. Len(path) /\ Front(path) = Prefix(path, n)
        /\ Front(path) \in Paths /\ Len(Front(path)) = n
    BY <1>3, <1>6, PathIs
  <2>2. \A i \in 0 .. n : Prefix(Front(path), i) = Prefix(path, i)
    BY <2>1, PrefixOfPrefix
  <2>3. /\ IsNaming(N(path), schema, path, model, Len(path))
        /\ IsNaming(N(Front(path)), schema, Front(path), model, n)
    BY <1>2, <2>1
  <2> HIDE DEF n
  <2>4. N(Front(path))[n] = N(path)[n]
    BY <1>3, <2>1, <2>2, <2>3, NamingAgrees
  <2>5. NameOf(schema, Front(path), model) = N(path)[n]
    BY <1>1, <2>1, <2>4
  <2>6. NameOf(schema, path, model) = Named(schema, path, Front(path), N(path)[n])
    BY <1>1, <1>3, <1>4, <2>1 DEF n
  <2>7. QED
    BY <1>6, <2>5, <2>6
<1>7. QED
  BY <1>5, <1>6

(* What the walk adds to the name on its way down.                         *)
Lengthened(schema, here, outside, name) == name \o Suffix(schema, here)

IsDerivation(f, schema, path, model, n) ==
  f = [ i \in 0 .. n |-> IF i = 0 THEN model
                         ELSE Lengthened(schema, Prefix(path, i), Prefix(path, i - 1), f[i - 1]) ]

(* The recursion is defined.                                               *)
LEMMA DerivationExists ==
  ASSUME NEW schema, NEW path, NEW model, NEW length \in Nat
  PROVE  \E f : IsDerivation(f, schema, path, model, length)
<1> DEFINE good == { n \in 0 .. length : \E f : IsDerivation(f, schema, path, model, n) }
<1>1. 0 \in good
  <2> DEFINE f == [ i \in 0 .. 0 |-> model ]
  <2>1. \A i \in 0 .. 0 : i = 0
    OBVIOUS
  <2>2. IsDerivation(f, schema, path, model, 0)
    BY <2>1 DEF IsDerivation
  <2>3. QED
    BY <2>2
<1>2. ASSUME NEW n \in 0 .. length - 1, n \in good PROVE n + 1 \in good
  <2>1. PICK f : IsDerivation(f, schema, path, model, n)
    BY <1>2
  <2> DEFINE Value(g, i) == IF i = 0 THEN model
                            ELSE Lengthened(schema, Prefix(path, i), Prefix(path, i - 1), g[i - 1])
             longer == [ i \in 0 .. n + 1 |-> Value(f, i) ]
  <2>2. f = [ i \in 0 .. n |-> Value(f, i) ]
    BY <2>1 DEF IsDerivation
  <2>3. \A i \in 0 .. n : f[i] = Value(f, i)
    <3> HIDE DEF Value
    <3>1. QED
      BY <2>2
  <2>4. \A i \in 0 .. n + 1 : longer[i] = Value(f, i)
    <3> HIDE DEF Value
    <3>1. QED
      OBVIOUS
  <2>5. ASSUME NEW i \in 0 .. n + 1 PROVE Value(longer, i) = Value(f, i)
    <3>1. CASE i = 0
      BY <3>1
    <3>2. CASE i # 0
      <4>1. i - 1 \in 0 .. n /\ i - 1 \in 0 .. n + 1
        BY <3>2
      <4>2. longer[i - 1] = f[i - 1]
        <5> HIDE DEF Value, longer
        <5>1. QED
          BY <2>3, <2>4, <4>1
      <4> HIDE DEF longer
      <4>3. QED
        BY <4>2
    <3>3. QED
      BY <3>1, <3>2
  <2>6. longer = [ i \in 0 .. n + 1 |-> Value(longer, i) ]
    <3> HIDE DEF Value
    <3>1. QED
      BY <2>4, <2>5
  <2>7. IsDerivation(longer, schema, path, model, n + 1)
    <3> HIDE DEF longer
    <3>1. QED
      BY <2>6 DEF IsDerivation
  <2>8. QED
    BY <2>7
<1>3. good = 0 .. length
  <2>1. good \in SUBSET (0 .. length)
    OBVIOUS
  <2> HIDE DEF good
  <2>2. QED
    BY <1>1, <1>2, <2>1, UpTo
<1>4. QED
  BY <1>3

(* What it gives depends on the steps so far only.                         *)
LEMMA DerivationAgrees ==
  ASSUME NEW schema, NEW model, NEW one, NEW other, NEW m \in Nat, NEW n \in 0 .. m,
         \A i \in 0 .. n : Prefix(one, i) = Prefix(other, i),
         NEW f, IsDerivation(f, schema, one, model, n), NEW g, IsDerivation(g, schema, other, model, m)
  PROVE  f[n] = g[n]
<1> DEFINE good == { i \in 0 .. n : f[i] = g[i] }
<1>1. \A i \in 0 .. n : f[i] = IF i = 0 THEN model
                              ELSE Lengthened(schema, Prefix(one, i), Prefix(one, i - 1), f[i - 1])
  BY DEF IsDerivation
<1>2. \A i \in 0 .. m : g[i] = IF i = 0 THEN model
                              ELSE Lengthened(schema, Prefix(other, i), Prefix(other, i - 1), g[i - 1])
  BY DEF IsDerivation
<1>3. 0 \in good
  BY <1>1, <1>2
<1>4. ASSUME NEW i \in 0 .. n - 1, i \in good PROVE i + 1 \in good
  <2>1. i + 1 \in 0 .. n /\ i + 1 \in 0 .. m /\ i + 1 # 0 /\ (i + 1) - 1 = i /\ i \in 0 .. n
    OBVIOUS
  <2>2. f[i + 1] = Lengthened(schema, Prefix(one, i + 1), Prefix(one, i), f[i])
    BY <1>1, <2>1
  <2>3. g[i + 1] = Lengthened(schema, Prefix(other, i + 1), Prefix(other, i), g[i])
    BY <1>2, <2>1
  <2>4. QED
    BY <1>4, <2>1, <2>2, <2>3
<1>5. good = 0 .. n
  <2>1. good \in SUBSET (0 .. n) /\ n \in Nat
    OBVIOUS
  <2> HIDE DEF good
  <2>2. QED
    BY <1>3, <1>4, <2>1, UpTo
<1>6. QED
  BY <1>5

(* The name the walk derives, from the one of the position before.         *)
LEMMA DerivedIs ==
  ASSUME NEW schema, NEW path \in Paths, NEW model
  PROVE  /\ path = << >> => Derived(schema, path, model) = model
         /\ path # << >> => Derived(schema, path, model) =
                              Lengthened(schema, path, Front(path), Derived(schema, Front(path), model))
<1> DEFINE N(p) == CHOOSE f : IsDerivation(f, schema, p, model, Len(p))
<1>1. \A p : Derived(schema, p, model) = N(p)[Len(p)]
  BY DEF Derived, IsDerivation, Lengthened
<1>2. ASSUME NEW p \in Paths PROVE IsDerivation(N(p), schema, p, model, Len(p))
  <2>1. Len(p) \in Nat
    BY PathIs
  <2>2. \E f : IsDerivation(f, schema, p, model, Len(p))
    BY <2>1, DerivationExists
  <2>3. QED
    BY <2>2
<1> HIDE DEF N
<1>3. Len(path) \in Nat /\ Len(path) \in 0 .. Len(path) /\ Prefix(path, Len(path)) = path
  BY PathIs
<1>4. N(path)[Len(path)] = IF Len(path) = 0 THEN model
        ELSE Lengthened(schema, Prefix(path, Len(path)), Prefix(path, Len(path) - 1), N(path)[Len(path) - 1])
  BY <1>2, <1>3 DEF IsDerivation
<1>5. CASE path = << >>
  BY <1>1, <1>4, <1>5, PathIs
<1>6. CASE path # << >>
  <2> DEFINE n == Len(path) - 1
  <2>1. /\ Len(path) # 0 /\ n \in 0 .. Len(path) /\ Front(path) = Prefix(path, n)
        /\ Front(path) \in Paths /\ Len(Front(path)) = n
    BY <1>3, <1>6, PathIs
  <2>2. \A i \in 0 .. n : Prefix(Front(path), i) = Prefix(path, i)
    BY <2>1, PrefixOfPrefix
  <2>3. /\ IsDerivation(N(path), schema, path, model, Len(path))
        /\ IsDerivation(N(Front(path)), schema, Front(path), model, n)
    BY <1>2, <2>1
  <2> HIDE DEF n
  <2>4. N(Front(path))[n] = N(path)[n]
    BY <1>3, <2>1, <2>2, <2>3, DerivationAgrees
  <2>5. Derived(schema, Front(path), model) = N(path)[n]
    BY <1>1, <2>1, <2>4
  <2>6. Derived(schema, path, model) = Lengthened(schema, path, Front(path), N(path)[n])
    BY <1>1, <1>3, <1>4, <2>1 DEF n
  <2>7. QED
    BY <1>6, <2>5, <2>6
<1>7. QED
  BY <1>5, <1>6

-----------------------------------------------------------------------------
(* The walk and the text.                                                  *)

(* The naming of a shape of a part is that of the same shape of the text.  *)
LEMMA SameWords ==
  ASSUME NEW schema, WellFormed(schema), NEW home, NEW part, IsPart(part, schema, home),
         NEW path \in DOMAIN part, path # << >>
  PROVE  /\ NamesItself(part, path) <=> NamesItself(schema, home \o path)
         /\ IsAmbiguous(part, path) <=> IsAmbiguous(schema, home \o path)
         /\ Word(part, path) = Word(schema, home \o path)
         /\ part[path] = schema[home \o path]
<1> DEFINE there == home \o path
           from == Front(path)
           above == home \o from
<1>1. home \in Paths /\ path \in Paths /\ DOMAIN part \subseteq Paths /\ WellFormed(part)
  BY Positions, PartIsWellFormed DEF IsPart
<1>2. from \in DOMAIN part
  BY <1>1, Positions
<1>3. part[path] = schema[there]
  BY DEF IsPart
<1>4. NeedsName(part, path) <=> NeedsName(schema, there)
  BY <1>2, SameNeed
<1>5. /\ IsMember(there) <=> IsMember(path)
      /\ IsElement(there) <=> IsElement(path)
      /\ IsBranch(there) <=> IsBranch(path)
  BY <1>1, KindOfJoin
<1>6. Front(there) = above /\ Last(there) = Last(path)
  BY <1>1, PrefixOfJoin
<1>7. IsNullable(part, from) <=> IsNullable(schema, above)
  BY <1>2, SameNullable
<1>8. /\ \A branch \in Branches(part, from) : home \o branch \in Branches(schema, above)
      /\ \A branch \in Branches(schema, above) :
           \E below \in Branches(part, from) : branch = home \o below
  BY <1>2, SameInside
<1>9. ASSUME NEW branch \in Branches(part, from)
      PROVE  /\ NeedsName(part, branch) <=> NeedsName(schema, home \o branch)
             /\ branch # path <=> home \o branch # there
  <2>1. branch \in DOMAIN part /\ branch # << >> /\ Front(branch) = from /\ branch \in Paths
    BY <1>1 DEF Branches, IsBranch
  <2>2. NeedsName(part, branch) <=> NeedsName(schema, home \o branch)
    BY <1>2, <2>1, SameNeed
  <2>3. home \o branch = home \o path => branch = path
    BY <1>1, <2>1, SameRest
  <2>4. QED
    BY <2>2, <2>3
<1> HIDE DEF there, above, from
<1>10. (\E other \in Branches(part, from) : other # path /\ NeedsName(part, other)) <=>
       (\E other \in Branches(schema, above) : other # there /\ NeedsName(schema, other))
  <2>1. ASSUME NEW other \in Branches(part, from), other # path, NeedsName(part, other)
        PROVE  \E o \in Branches(schema, above) : o # there /\ NeedsName(schema, o)
    BY <1>8, <1>9, <2>1
  <2>2. ASSUME NEW other \in Branches(schema, above), other # there, NeedsName(schema, other)
        PROVE  \E o \in Branches(part, from) : o # path /\ NeedsName(part, o)
    <3>1. PICK below \in Branches(part, from) : other = home \o below
      BY <1>8
    <3>2. QED
      BY <1>9, <2>2, <3>1
  <2>3. QED
    BY <2>1, <2>2
<1>11. NamesItself(part, path) <=> NamesItself(schema, there)
  BY <1>3, <1>4, <1>5 DEF NamesItself
<1>12. IsAmbiguous(part, path) <=> IsAmbiguous(schema, there)
  BY <1>3, <1>4, <1>5, <1>6, <1>7, <1>10 DEF IsAmbiguous, from
<1>13. Word(part, path) = Word(schema, there)
  BY <1>4, <1>5, <1>6, <1>7 DEF Word, from
<1>14. QED
  BY <1>3, <1>11, <1>12, <1>13 DEF there

(* The branches that the walk does not name as those of a union are those  *)
(* of a nullability wrapper, unless the union is one that is taken out.    *)
LEMMA WalksIs ==
  ASSUME NEW schema, WellFormed(schema), NEW branch \in DOMAIN schema, IsBranch(branch),
         ~ NeedsName(schema, Front(branch))
  PROVE  WalksBranches(schema, Front(branch)) <=> ~ IsNullable(schema, Front(branch))
<1> DEFINE from == Front(branch)
<1>1. branch # << >>
  BY DEF IsBranch
<1>2. from \in DOMAIN schema /\ from \in Paths
  BY <1>1, Positions
<1>3. branch \in Branches(schema, from)
  BY DEF Branches
<1>4. ~ IsBranch(from)
  BY DEF WellFormed
<1>5. IsElement(from) => ~ IsSumType(schema, from)
  BY DEF NeedsName
<1>6. from # << >> => IsMember(from) \/ IsElement(from)
  BY <1>2, <1>4, Kinds
<1>7. ~ (IsMember(from) /\ IsElement(from))
  BY <1>2, Kinds
<1> HIDE DEF from
<1>8. QED
  BY <1>3, <1>5, <1>6, <1>7 DEF WalksBranches, IsNullable, from, Branches, IsMember

(* Below what needs no name the walk takes out what needs one, and adds    *)
(* the words of the text to the name.                                      *)
LEMMA HoistedIs ==
  ASSUME NEW schema, WellFormed(schema), NEW path \in DOMAIN schema, path # << >>,
         ~ NeedsName(schema, Front(path))
  PROVE  /\ IsHoisted(schema, path) <=> NeedsName(schema, path)
         /\ Suffix(schema, path) = Word(schema, path)
<1>1. path \in Paths
  BY Positions
<1>2. IsBranch(path) => (WalksBranches(schema, Front(path)) <=> ~ IsNullable(schema, Front(path)))
  BY WalksIs
<1>3. /\ IsMember(path) \/ IsElement(path) \/ IsBranch(path)
      /\ ~ (IsMember(path) /\ IsElement(path)) /\ ~ (IsMember(path) /\ IsBranch(path))
      /\ ~ (IsElement(path) /\ IsBranch(path))
  BY <1>1, Kinds
<1>4. IsHoisted(schema, path) <=> NeedsName(schema, path)
  BY <1>2, <1>3 DEF IsHoisted, NeedsName
<1>5. Suffix(schema, path) = Word(schema, path)
  <2>1. CASE IsMember(path)
    BY <1>3, <2>1 DEF Suffix, Word
  <2>2. CASE IsElement(path)
    BY <1>3, <2>2 DEF Suffix, Word
  <2>3. CASE IsBranch(path)
    BY <1>2, <1>3, <1>4, <2>3 DEF Suffix, Word
  <2>4. QED
    BY <1>3, <2>1, <2>2, <2>3
<1>6. QED
  BY <1>4, <1>5

(* The shapes that are in no other shape.                                  *)
Outermost(schema) ==
  { path \in DOMAIN schema :
      /\ NeedsName(schema, path)
      /\ \A n \in 1 .. Len(path) - 1 : ~ NeedsName(schema, Prefix(path, n)) }

(* Above an outermost shape nothing needs a name.                          *)
LEMMA AboveOutermost ==
  ASSUME NEW schema, WellFormed(schema), NEW path \in DOMAIN schema, path # << >>,
         \A n \in 1 .. Len(path) - 1 : ~ NeedsName(schema, Prefix(path, n))
  PROVE  /\ \A n \in 0 .. Len(path) - 1 : ~ NeedsName(schema, Prefix(path, n))
         /\ ~ NeedsName(schema, Front(path))
         /\ \A n \in 1 .. Len(path) :
              /\ Prefix(path, n) \in DOMAIN schema /\ Prefix(path, n) # << >>
              /\ Front(Prefix(path, n)) = Prefix(path, n - 1) /\ Prefix(path, n) \in Paths
              /\ Last(Prefix(path, n)) = path[n]
<1>1. path \in Paths /\ Len(path) \in Nat
  BY Positions, PathIs
<1>2. Prefix(path, 0) = << >> /\ Len(path) >= 1 /\ Front(path) = Prefix(path, Len(path) - 1)
  BY <1>1, PathIs
<1>3. ~ NeedsName(schema, << >>)
  BY DEF NeedsName, IsElement
<1>4. \A n \in 0 .. Len(path) - 1 : ~ NeedsName(schema, Prefix(path, n))
  <2> SUFFICES ASSUME NEW n \in 0 .. Len(path) - 1 PROVE ~ NeedsName(schema, Prefix(path, n))
    OBVIOUS
  <2>1. n = 0 \/ n \in 1 .. Len(path) - 1
    OBVIOUS
  <2>2. QED
    BY <1>2, <1>3, <2>1
<1>5. ~ NeedsName(schema, Front(path))
  BY <1>1, <1>2, <1>4
<1>6. ASSUME NEW n \in 1 .. Len(path)
      PROVE  /\ Prefix(path, n) \in DOMAIN schema /\ Prefix(path, n) # << >>
             /\ Front(Prefix(path, n)) = Prefix(path, n - 1) /\ Prefix(path, n) \in Paths
             /\ Last(Prefix(path, n)) = path[n]
  <2>1. n \in 0 .. Len(path) /\ n > 0
    BY <1>1
  <2>2. Prefix(path, n) \in DOMAIN schema
    BY <2>1, Positions
  <2>3. Prefix(path, n) # << >> /\ Prefix(path, n) \in Paths
    BY <1>1, <2>1, PrefixIs
  <2>4. Front(Prefix(path, n)) = Prefix(path, n - 1) /\ Last(Prefix(path, n)) = path[n]
    BY <1>1, <2>1, PrefixOfPrefix
  <2>5. QED
    BY <2>2, <2>3, <2>4
<1>7. QED
  BY <1>4, <1>5, <1>6

(* The walk takes out only shapes that need a name, and none of another.   *)
LEMMA PlacesAreOutermost ==
  ASSUME NEW schema, WellFormed(schema), NEW path \in Places(schema)
  PROVE  path \in Outermost(schema) /\ path # << >> /\ path \in Paths
<1>1. /\ path \in DOMAIN schema /\ path # << >> /\ IsHoisted(schema, path)
      /\ \A n \in DOMAIN path : n < Len(path) => ~ IsHoisted(schema, Prefix(path, n))
  BY DEF Places
<1>2. path \in Paths /\ Len(path) \in Nat /\ DOMAIN path = 1 .. Len(path)
  BY <1>1, Positions, PathIs
<1>3. Len(path) >= 1 /\ Prefix(path, 0) = << >> /\ Prefix(path, Len(path)) = path
      /\ Front(path) = Prefix(path, Len(path) - 1)
  BY <1>1, <1>2, PathIs
<1>4. ~ NeedsName(schema, << >>)
  BY DEF NeedsName, IsElement
<1>5. ASSUME NEW n \in 1 .. Len(path)
      PROVE  /\ Prefix(path, n) \in DOMAIN schema /\ Prefix(path, n) # << >>
             /\ Front(Prefix(path, n)) = Prefix(path, n - 1)
  <2>1. n \in 0 .. Len(path) /\ n > 0
    BY <1>2
  <2>2. Prefix(path, n) \in DOMAIN schema
    BY <1>1, <2>1, Positions
  <2>3. Prefix(path, n) # << >>
    BY <1>2, <2>1, PrefixIs
  <2>4. Front(Prefix(path, n)) = Prefix(path, n - 1)
    BY <1>2, <2>1, PrefixOfPrefix
  <2>5. QED
    BY <2>2, <2>3, <2>4
<1> DEFINE bound == Len(path) - 1
           good == { k \in 0 .. bound : \A n \in 0 .. k : ~ NeedsName(schema, Prefix(path, n)) }
<1>6. bound \in Nat /\ good \in SUBSET (0 .. bound)
  BY <1>2, <1>3
<1>7. 0 \in good
  <2>1. \A n \in 0 .. 0 : n = 0
    OBVIOUS
  <2>2. QED
    BY <1>3, <1>4, <1>6, <2>1
<1>8. ASSUME NEW k \in 0 .. bound - 1, k \in good PROVE k + 1 \in good
  <2>1. /\ k + 1 \in 1 .. Len(path) /\ k + 1 < Len(path) /\ (k + 1) - 1 = k
        /\ k \in 0 .. k /\ k + 1 \in 0 .. bound
    BY <1>2, <1>6
  <2>2. \A n \in 0 .. k : ~ NeedsName(schema, Prefix(path, n))
    BY <1>8
  <2>3. ~ IsHoisted(schema, Prefix(path, k + 1))
    BY <1>1, <1>2, <2>1
  <2>4. Front(Prefix(path, k + 1)) = Prefix(path, k)
    BY <1>5, <2>1
  <2>5. ~ NeedsName(schema, Front(Prefix(path, k + 1)))
    BY <2>1, <2>2, <2>4
  <2>6. Prefix(path, k + 1) \in DOMAIN schema /\ Prefix(path, k + 1) # << >>
    BY <1>5, <2>1
  <2>7. ~ NeedsName(schema, Prefix(path, k + 1))
    BY <2>3, <2>5, <2>6, HoistedIs
  <2>8. \A n \in 0 .. k + 1 : n \in 0 .. k \/ n = k + 1
    OBVIOUS
  <2>9. QED
    BY <2>1, <2>2, <2>7, <2>8
<1> HIDE DEF good
<1>9. good = 0 .. bound
  <2> HIDE DEF bound
  <2>1. QED
    BY <1>6, <1>7, <1>8, UpTo
<1>10. \A n \in 0 .. Len(path) - 1 : ~ NeedsName(schema, Prefix(path, n))
  <2>1. bound \in good
    BY <1>6, <1>9
  <2>2. QED
    BY <2>1 DEF good
<1>11. NeedsName(schema, path)
  <2>1. ~ NeedsName(schema, Front(path))
    BY <1>2, <1>3, <1>10
  <2>2. QED
    BY <1>1, <2>1, HoistedIs
<1>12. QED
  BY <1>1, <1>2, <1>10, <1>11 DEF Outermost

(* What HidesElements says of one shape.                                   *)
Hidden(schema, path) ==
  \E n \in DOMAIN path :
    /\ path[n][1] = "items" /\ IsBranch(Prefix(path, n - 1))
    /\ IsNullable(schema, Front(Prefix(path, n - 1)))

(* The walk comes to every outermost shape that is not hidden.             *)
LEMMA OutermostArePlaces ==
  ASSUME NEW schema, WellFormed(schema), NEW path \in Outermost(schema), ~ Hidden(schema, path)
  PROVE  path \in Places(schema)
<1>1. /\ path \in DOMAIN schema /\ NeedsName(schema, path) /\ path # << >>
      /\ \A n \in 1 .. Len(path) - 1 : ~ NeedsName(schema, Prefix(path, n))
  BY DEF Outermost, NeedsName, IsElement
<1>2. path \in Paths /\ Len(path) \in Nat /\ DOMAIN path = 1 .. Len(path)
      /\ Prefix(path, Len(path)) = path
  BY <1>1, Positions, PathIs
<1>3. \A n \in 0 .. Len(path) - 1 : ~ NeedsName(schema, Prefix(path, n))
  BY <1>1, AboveOutermost
<1>4. ASSUME NEW n \in 1 .. Len(path)
      PROVE  /\ Prefix(path, n) \in DOMAIN schema /\ Prefix(path, n) # << >>
             /\ Front(Prefix(path, n)) = Prefix(path, n - 1) /\ Prefix(path, n) \in Paths
             /\ Last(Prefix(path, n)) = path[n]
  BY <1>1, AboveOutermost
<1>5. ASSUME NEW n \in 1 .. Len(path) PROVE ~ NeedsName(schema, Front(Prefix(path, n)))
  <2>1. n - 1 \in 0 .. Len(path) - 1
    BY <1>2
  <2>2. QED
    BY <1>3, <1>4, <2>1
<1>6. ASSUME NEW n \in 1 .. Len(path), n < Len(path) PROVE ~ IsHoisted(schema, Prefix(path, n))
  <2>1. n \in 0 .. Len(path) - 1
    BY <1>2, <1>6
  <2>2. ~ NeedsName(schema, Prefix(path, n))
    BY <1>3, <2>1
  <2>3. QED
    BY <1>4, <1>5, <2>2, HoistedIs
<1>7. IsHoisted(schema, path)
  <2>1. ~ NeedsName(schema, Front(path))
    BY <1>1, AboveOutermost
  <2>2. QED
    BY <1>1, <2>1, HoistedIs
<1>8. ASSUME NEW n \in 1 .. Len(path) PROVE IsWalked(schema, Prefix(path, n))
  <2> DEFINE p == Prefix(path, n)
             from == Prefix(path, n - 1)
  <2>1. /\ p \in DOMAIN schema /\ p # << >> /\ Front(p) = from /\ p \in Paths /\ Last(p) = path[n]
    BY <1>4
  <2>2. from \in DOMAIN schema /\ from \in Paths
    BY <2>1, Positions
  <2>3. ~ NeedsName(schema, from)
    BY <1>5, <2>1
  <2>4. CASE from = << >>
    BY <2>1, <2>4 DEF IsWalked
  <2>5. ASSUME from # << >>, IsInlineObject(schema, from)
        PROVE  IsBranch(from) /\ IsFreeForm(schema, from)
    BY <2>3, <2>5 DEF NeedsName
  <2>6. CASE from # << >> /\ IsMember(p)
    <3>1. IsInlineObject(schema, from)
      BY <2>1, <2>6 DEF WellFormed
    <3>2. IsFreeForm(schema, from)
      BY <2>5, <2>6, <3>1
    <3>3. QED
      BY <2>1, <2>6, <3>2 DEF IsFreeForm
  <2>7. CASE from # << >> /\ IsElement(p)
    <3>1. CASE Last(p)[1] = "items"
      <4>1. n \in DOMAIN path /\ path[n][1] = "items"
        BY <1>2, <2>1, <3>1
      <4>2. ~ (IsBranch(from) /\ IsNullable(schema, Front(from)))
        BY <4>1 DEF Hidden
      <4>3. ASSUME IsBranch(from) PROVE WalksBranches(schema, Front(from))
        <5>1. n # 1
          <6>1. n = 1 => from = << >>
            BY <1>2, PathIs
          <6>2. QED
            BY <2>7, <6>1
        <5>2. n - 1 \in 1 .. Len(path)
          BY <1>2, <5>1
        <5>3. ~ NeedsName(schema, Front(from))
          BY <1>5, <5>2
        <5>4. QED
          BY <2>2, <4>2, <4>3, <5>3, WalksIs
      <4>4. QED
        BY <2>1, <2>7, <4>3 DEF IsWalked
    <3>2. CASE Last(p)[1] # "items"
      <4>1. IsInlineObject(schema, from) /\ ~ Has(schema[from], "additionalProperties")
        BY <2>1, <2>7, <3>2 DEF WellFormed
      <4>2. IsFreeForm(schema, from)
        BY <2>5, <2>7, <4>1
      <4>3. QED
        BY <4>1, <4>2 DEF IsFreeForm
    <3>3. QED
      BY <3>1, <3>2
  <2>8. CASE from # << >> /\ IsBranch(p)
    <3>1. ~ IsBranch(from)
      BY <2>1, <2>8 DEF WellFormed
    <3>2. ASSUME ~ WalksBranches(schema, from) PROVE IsInlineObject(schema, p)
      <4>1. IsNullable(schema, from)
        BY <2>1, <2>3, <2>8, <3>2, WalksIs
      <4>2. CASE n = Len(path)
        <5>1. ~ IsElement(p)
          BY <2>1, <2>8, Kinds
        <5>2. QED
          BY <1>1, <1>2, <4>2, <5>1 DEF NeedsName
      <4>3. CASE n # Len(path)
        <5> DEFINE next == Prefix(path, n + 1)
        <5>1. n + 1 \in 1 .. Len(path) /\ n \in 0 .. Len(path) - 1 /\ (n + 1) - 1 = n
          <6>1. Len(path) \in Nat
            BY <1>2
          <6>2. n \in Nat /\ 1 <= n /\ n <= Len(path)
            BY <6>1
          <6>3. QED
            BY <4>3, <6>1, <6>2
        <5>2. /\ next \in DOMAIN schema /\ next # << >> /\ Front(next) = p /\ next \in Paths
              /\ Last(next) = path[n + 1]
          BY <1>4, <5>1
        <5>3. IsMember(next) \/ IsElement(next) \/ IsBranch(next)
          BY <5>2, Kinds
        <5>4. IsMember(next) => IsInlineObject(schema, p)
          BY <5>2 DEF WellFormed
        <5>5. ~ IsBranch(next)
          BY <2>8, <5>2 DEF WellFormed
        <5>6. IsElement(next) => IF Last(next)[1] = "items" THEN TRUE ELSE IsInlineObject(schema, p)
          BY <5>2 DEF WellFormed
        <5>7. Last(next)[1] # "items"
          <6>1. n + 1 \in DOMAIN path /\ Prefix(path, (n + 1) - 1) = p
            BY <1>2, <5>1
          <6>2. IsBranch(p) /\ IsNullable(schema, Front(p))
            BY <2>1, <2>8, <4>1
          <6>3. QED
            BY <5>2, <6>1, <6>2 DEF Hidden
        <5>8. QED
          BY <5>3, <5>4, <5>5, <5>6, <5>7
      <4>4. QED
        BY <4>2, <4>3
    <3>3. QED
      BY <2>1, <2>8, <3>1, <3>2 DEF IsWalked
  <2>9. QED
    BY <2>1, <2>4, <2>6, <2>7, <2>8, Kinds
<1>9. QED
  BY <1>1, <1>2, <1>6, <1>7, <1>8 DEF Places

(* In or at a position that needs a name, or below one, is an outermost    *)
(* shape.                                                                  *)
LEMMA HasOutermost ==
  ASSUME NEW schema, WellFormed(schema), NEW path \in DOMAIN schema, NeedsName(schema, path)
  PROVE  \E n \in 1 .. Len(path) : Prefix(path, n) \in Outermost(schema)
<1>1. path \in Paths /\ Len(path) \in Nat /\ Prefix(path, Len(path)) = path /\ path # << >>
      /\ Prefix(path, 0) = << >> /\ Len(path) >= 1
  <2>1. path \in Paths /\ path # << >>
    BY Positions DEF NeedsName, IsElement
  <2>2. QED
    BY <2>1, PathIs
<1> DEFINE good == { k \in 0 .. Len(path) : \A n \in 0 .. k : ~ NeedsName(schema, Prefix(path, n)) }
<1>2. 0 \in good
  <2>1. ~ NeedsName(schema, << >>) /\ \A n \in 0 .. 0 : n = 0
    BY DEF NeedsName, IsElement
  <2>2. QED
    BY <1>1, <2>1
<1>3. good \in SUBSET (0 .. Len(path)) /\ Len(path) \notin good
  BY <1>1
<1>4. PICK k \in 0 .. Len(path) - 1 : k \in good /\ k + 1 \notin good
  <2> SUFFICES ASSUME \A n \in 0 .. Len(path) - 1 : n \in good => n + 1 \in good PROVE FALSE
    OBVIOUS
  <2> HIDE DEF good
  <2>1. good = 0 .. Len(path)
    BY <1>1, <1>2, <1>3, UpTo
  <2>2. QED
    BY <1>1, <1>3, <2>1
<1>5. k + 1 \in 1 .. Len(path) /\ k + 1 \in 0 .. Len(path)
  BY <1>1
<1>6. \A n \in 0 .. k : ~ NeedsName(schema, Prefix(path, n))
  BY <1>4
<1>7. NeedsName(schema, Prefix(path, k + 1))
  <2>1. \A n \in 0 .. k + 1 : n \in 0 .. k \/ n = k + 1
    OBVIOUS
  <2>2. QED
    BY <1>4, <1>5, <1>6, <2>1
<1> HIDE DEF good
<1> DEFINE p == Prefix(path, k + 1)
<1>8. p \in DOMAIN schema
  BY <1>5, Positions
<1>9. Len(p) = k + 1
  BY <1>1, <1>5, PrefixIs
<1>10. \A n \in 0 .. k + 1 : Prefix(p, n) = Prefix(path, n)
  BY <1>1, <1>5, PrefixOfPrefix
<1>11. ASSUME NEW n \in 1 .. Len(p) - 1 PROVE ~ NeedsName(schema, Prefix(p, n))
  <2>1. n \in 0 .. k /\ n \in 0 .. k + 1
    BY <1>9
  <2>2. QED
    BY <1>6, <1>10, <2>1
<1>12. QED
  BY <1>5, <1>7, <1>8, <1>11 DEF Outermost

(* What encloses an outermost shape of a part lends it its type's name.    *)
TypeName(schema, home, model) ==
  IF NeedsName(schema, home) THEN Camel(NameOf(schema, home, model)) ELSE NameOf(schema, home, model)

(* The walk gives a shape the name that the text has for its position.     *)
THEOREM PlaceName ==
  ASSUME NEW schema, WellFormed(schema), NEW home, NEW part, IsPart(part, schema, home),
         NEW path \in Places(part), NEW model
  PROVE  ShapeName(part, path, TypeName(schema, home, model)) = NameOf(schema, home \o path, model)
<1> DEFINE base == TypeName(schema, home, model)
<1>1. WellFormed(part) /\ home \in Paths
  BY PartIsWellFormed, Positions DEF IsPart
<1>2. /\ path \in DOMAIN part /\ NeedsName(part, path) /\ path # << >> /\ path \in Paths
      /\ \A n \in 1 .. Len(path) - 1 : ~ NeedsName(part, Prefix(path, n))
  BY <1>1, PlacesAreOutermost DEF Outermost
<1>3. Len(path) \in Nat /\ Len(path) >= 1 /\ Prefix(path, 0) = << >>
      /\ Prefix(path, Len(path)) = path /\ Front(path) = Prefix(path, Len(path) - 1)
  BY <1>2, PathIs
<1>4. /\ \A n \in 0 .. Len(path) - 1 : ~ NeedsName(part, Prefix(path, n))
      /\ ~ NeedsName(part, Front(path))
  BY <1>1, <1>2, AboveOutermost
<1>5. ASSUME NEW n \in 1 .. Len(path)
      PROVE  /\ Prefix(path, n) \in DOMAIN part /\ Prefix(path, n) # << >>
             /\ Front(Prefix(path, n)) = Prefix(path, n - 1) /\ Prefix(path, n) \in Paths
  BY <1>1, <1>2, AboveOutermost
<1>6. ASSUME NEW n \in 1 .. Len(path)
      PROVE  /\ ~ NeedsName(part, Front(Prefix(path, n)))
             /\ Suffix(part, Prefix(path, n)) = Word(schema, home \o Prefix(path, n))
             /\ Derived(part, Prefix(path, n), base) =
                  Derived(part, Prefix(path, n - 1), base) \o Word(schema, home \o Prefix(path, n))
  <2> DEFINE p == Prefix(path, n)
  <2>1. p \in DOMAIN part /\ p # << >> /\ Front(p) = Prefix(path, n - 1) /\ p \in Paths
    BY <1>5
  <2>2. n - 1 \in 0 .. Len(path) - 1
    BY <1>3
  <2>3. ~ NeedsName(part, Front(p))
    BY <1>4, <2>1, <2>2
  <2>4. Suffix(part, p) = Word(part, p)
    BY <1>1, <2>1, <2>3, HoistedIs
  <2>5. Word(part, p) = Word(schema, home \o p)
    BY <2>1, SameWords
  <2> HIDE DEF base
  <2>6. Derived(part, p, base) = Lengthened(part, p, Front(p), Derived(part, Front(p), base))
    BY <2>1, DerivedIs
  <2>7. QED
    BY <2>1, <2>3, <2>4, <2>5, <2>6 DEF Lengthened
<1>7. ASSUME NEW n \in 1 .. Len(path)
      PROVE  NameOf(schema, home \o Prefix(path, n), model) =
               IF NamesItself(part, Prefix(path, n)) THEN part[Prefix(path, n)]["x-name"]
               ELSE IF IsAmbiguous(part, Prefix(path, n)) THEN Unnamed
               ELSE TypeName(schema, home \o Prefix(path, n - 1), model)
                      \o Word(schema, home \o Prefix(path, n))
  <2> DEFINE p == Prefix(path, n)
             there == home \o p
  <2>1. p \in DOMAIN part /\ p # << >> /\ Front(p) = Prefix(path, n - 1) /\ p \in Paths
    BY <1>5
  <2>2. there \in Paths /\ there # << >>
    BY <1>1, <2>1, JoinIs
  <2>3. Front(there) = home \o Front(p)
    BY <1>1, <2>1, PrefixOfJoin
  <2>4. /\ NamesItself(part, p) <=> NamesItself(schema, there)
        /\ IsAmbiguous(part, p) <=> IsAmbiguous(schema, there)
        /\ part[p] = schema[there]
    BY <2>1, SameWords
  <2>5. NameOf(schema, there, model) =
          Named(schema, there, Front(there), NameOf(schema, Front(there), model))
    BY <2>2, NameOfIs
  <2>6. TypeName(schema, Front(there), model) =
          IF NeedsName(schema, Front(there)) THEN Camel(NameOf(schema, Front(there), model))
          ELSE NameOf(schema, Front(there), model)
    BY DEF TypeName
  <2>7. Front(there) = home \o Prefix(path, n - 1)
    BY <2>1, <2>3
  <2> HIDE DEF there, p
  <2>8. NameOf(schema, there, model) =
          IF NamesItself(part, p) THEN part[p]["x-name"]
          ELSE IF IsAmbiguous(part, p) THEN Unnamed
          ELSE TypeName(schema, Front(there), model) \o Word(schema, there)
    BY <2>4, <2>5, <2>6 DEF Named
  <2>9. QED
    BY <2>7, <2>8 DEF p, there
<1> DEFINE bound == Len(path) - 1
           Good(n) == Derived(part, Prefix(path, n), base)
                        = TypeName(schema, home \o Prefix(path, n), model)
           good == { n \in 0 .. bound : Good(n) }
<1>8. bound \in Nat /\ good \in SUBSET (0 .. bound)
  BY <1>3
<1>9. 0 \in good
  <2>1. home \o << >> = home /\ << >> \in Paths
    <3>1. << >> \in Paths
      BY EmptySeq DEF Paths
    <3>2. QED
      BY <1>1, <3>1, JoinIs
  <2> HIDE DEF base
  <2>2. Derived(part, << >>, base) = base
    BY <2>1, DerivedIs
  <2>3. Good(0)
    BY <1>3, <2>1, <2>2 DEF base
  <2>4. QED
    BY <1>8, <2>3
<1>10. ASSUME NEW n \in 0 .. bound - 1, n \in good PROVE n + 1 \in good
  <2> DEFINE p == Prefix(path, n + 1)
  <2>1. n + 1 \in 1 .. Len(path) /\ n + 1 \in 0 .. bound /\ n + 1 \in 0 .. Len(path) - 1 /\ (n + 1) - 1 = n
    BY <1>3
  <2>2. Derived(part, p, base) = Derived(part, Prefix(path, n), base) \o Word(schema, home \o p)
    BY <1>6, <2>1
  <2>3. Good(n)
    BY <1>10
  <2>4. ~ NeedsName(part, p)
    BY <1>4, <2>1
  <2>5. NameOf(schema, home \o p, model) =
          TypeName(schema, home \o Prefix(path, n), model) \o Word(schema, home \o p)
    <3>1. ~ NamesItself(part, p) /\ ~ IsAmbiguous(part, p)
      BY <2>4 DEF NamesItself, IsAmbiguous
    <3>2. QED
      BY <1>7, <2>1, <3>1
  <2>6. ~ NeedsName(schema, home \o p)
    <3>1. p \in DOMAIN part /\ p # << >> /\ Front(p) \in DOMAIN part
      BY <1>1, <1>5, <2>1, Positions
    <3>2. QED
      BY <2>4, <3>1, SameNeed
  <2>7. TypeName(schema, home \o p, model) = NameOf(schema, home \o p, model)
    BY <2>6 DEF TypeName
  <2> HIDE DEF base, p
  <2>8. Derived(part, p, base) = TypeName(schema, home \o p, model)
    BY <2>2, <2>3, <2>5, <2>7
  <2>9. QED
    BY <2>1, <2>8 DEF p
<1>11. good = 0 .. bound
  <2> HIDE DEF good, bound
  <2>1. QED
    BY <1>8, <1>9, <1>10, UpTo
<1>12. Derived(part, Front(path), base) = TypeName(schema, home \o Front(path), model)
  <2>1. bound \in good
    BY <1>8, <1>11
  <2>2. QED
    BY <1>3, <2>1
<1> HIDE DEF base, good, bound
<1>13. Derived(part, path, base) = TypeName(schema, home \o Front(path), model) \o Word(schema, home \o path)
  <2>1. Len(path) \in 1 .. Len(path)
    BY <1>3
  <2>2. Derived(part, path, base) = Derived(part, Front(path), base) \o Word(schema, home \o path)
    BY <1>3, <1>6, <2>1
  <2>3. QED
    BY <1>12, <2>2
<1>14. NameOf(schema, home \o path, model) =
         IF NamesItself(part, path) THEN part[path]["x-name"]
         ELSE IF IsAmbiguous(part, path) THEN Unnamed
         ELSE Derived(part, path, base)
  <2>1. Len(path) \in 1 .. Len(path)
    BY <1>3
  <2>2. NameOf(schema, home \o path, model) =
               IF NamesItself(part, path) THEN part[path]["x-name"]
               ELSE IF IsAmbiguous(part, path) THEN Unnamed
               ELSE TypeName(schema, home \o Front(path), model) \o Word(schema, home \o path)
    BY <1>3, <1>7, <2>1
  <2>3. QED
    BY <1>13, <2>2
<1>15. IsBranch(path) => (WalksBranches(part, Front(path)) <=> ~ IsNullable(part, Front(path)))
  BY <1>1, <1>2, <1>4, WalksIs
<1>16. \A other \in Branches(part, Front(path)) : IsHoisted(part, other) <=> NeedsName(part, other)
  <2> SUFFICES ASSUME NEW other \in Branches(part, Front(path))
               PROVE  IsHoisted(part, other) <=> NeedsName(part, other)
    OBVIOUS
  <2>1. other \in DOMAIN part /\ other # << >> /\ Front(other) = Front(path)
    BY DEF Branches, IsBranch
  <2>2. QED
    BY <1>1, <1>4, <2>1, HoistedIs
<1>17. ShapeName(part, path, base) =
         IF NamesItself(part, path) THEN part[path]["x-name"]
         ELSE IF IsAmbiguous(part, path) THEN Unnamed
         ELSE Derived(part, path, base)
  <2>1. NamesItself(part, path) <=> ~ IsMember(path) /\ Has(part[path], "x-name")
    BY <1>2 DEF NamesItself
  <2>2. IsAmbiguous(part, path) <=>
          /\ IsBranch(path) /\ ~ Has(part[path], "x-name") /\ WalksBranches(part, Front(path))
          /\ \E other \in Branches(part, Front(path)) \ {path} : IsHoisted(part, other)
    BY <1>2, <1>15, <1>16 DEF IsAmbiguous
  <2>3. QED
    BY <2>1, <2>2 DEF ShapeName
<1>18. QED
  BY <1>14, <1>17 DEF base

-----------------------------------------------------------------------------
(* What the walk leaves of a model.                                        *)

(* What is above a path is above what it is in, or is what it is in.       *)
LEMMA PrefixOfFront ==
  ASSUME NEW path \in Paths, path # << >>, NEW place \in Paths
  PROVE  IsPrefix(place, path) /\ place # path <=> IsPrefix(place, Front(path))
<1>1. /\ Len(path) \in Nat /\ Len(path) >= 1 /\ Prefix(path, Len(path)) = path
      /\ Front(path) = Prefix(path, Len(path) - 1) /\ Front(path) \in Paths
      /\ Len(Front(path)) = Len(path) - 1
  BY PathIs
<1>2. Len(place) \in Nat
  BY PathIs
<1>3. IsPrefix(place, path) <=> Len(place) <= Len(path) /\ Prefix(path, Len(place)) = place
  BY IsPrefixIs
<1>4. IsPrefix(place, Front(path)) <=>
        Len(place) <= Len(path) - 1 /\ Prefix(Front(path), Len(place)) = place
  BY <1>1, IsPrefixIs
<1>5. \A k \in 0 .. Len(path) - 1 : Prefix(Front(path), k) = Prefix(path, k)
  <2>1. Len(path) - 1 \in 0 .. Len(path)
    BY <1>1
  <2>2. QED
    BY <1>1, <2>1, PrefixOfPrefix
<1>6. CASE Len(place) <= Len(path) - 1
  <2>1. Len(place) \in 0 .. Len(path) - 1 /\ Len(place) <= Len(path) /\ Len(place) # Len(path)
    BY <1>1, <1>2, <1>6
  <2>2. place # path
    BY <2>1
  <2>3. Prefix(Front(path), Len(place)) = Prefix(path, Len(place))
    BY <1>5, <2>1
  <2>4. QED
    BY <1>3, <1>4, <1>6, <2>1, <2>2, <2>3
<1>7. CASE ~ (Len(place) <= Len(path) - 1)
  <2>1. Len(place) <= Len(path) => Len(place) = Len(path)
    BY <1>1, <1>2, <1>7
  <2>2. IsPrefix(place, path) => place = path
    BY <1>1, <1>3, <2>1
  <2>3. QED
    BY <1>4, <1>7, <2>2
<1>8. QED
  BY <1>6, <1>7

(* A position is below a place when what it is in is, or is the place.     *)
LEMMA IsBelowIs ==
  ASSUME NEW path \in Paths, path # << >>, NEW places \in SUBSET Paths
  PROVE  IsBelow(path, places) <=> Front(path) \in places \/ IsBelow(Front(path), places)
<1>1. Front(path) \in Paths
  BY PathIs
<1>2. IsPrefix(Front(path), Front(path))
  <2>1. Len(Front(path)) \in Nat /\ Prefix(Front(path), Len(Front(path))) = Front(path)
    BY <1>1, PathIs
  <2>2. QED
    BY <1>1, <2>1, IsPrefixIs
<1>3. \A place \in places : IsPrefix(place, path) /\ place # path <=> IsPrefix(place, Front(path))
  BY PrefixOfFront
<1>4. QED
  BY <1>2, <1>3 DEF IsBelow

(* A node of a walked model is one of the model, or the reference that was *)
(* left in a place; and what was in the place has gone.                    *)
LEMMA WalkedIs ==
  ASSUME NEW schema, WellFormed(schema), NEW model
  PROVE  LET left == Walked(schema, model)
         IN  /\ DOMAIN left \subseteq DOMAIN schema /\ << >> \in DOMAIN left
             /\ Places(schema) \subseteq DOMAIN left
             /\ left = [ path \in DOMAIN left |-> left[path] ]
             /\ \A path \in DOMAIN left : path \notin Places(schema) => left[path] = schema[path]
             /\ \A path \in Places(schema) :
                  left[path] = LeftBehind(schema, path, ShapeName(schema, path, model))
             /\ \A path \in DOMAIN left \ {<< >>} :
                  Front(path) \in DOMAIN left /\ Front(path) \notin Places(schema)
             /\ \A path \in DOMAIN schema \ {<< >>} :
                  Front(path) \in DOMAIN left /\ Front(path) \notin Places(schema)
                    => path \in DOMAIN left
<1> DEFINE left == Walked(schema, model)
           places == Places(schema)
           kept == { p \in DOMAIN schema : ~ IsBelow(p, places) }
           Kept(path) == IF path \in places THEN LeftBehind(schema, path, ShapeName(schema, path, model))
                         ELSE schema[path]
<1>1. left = [ path \in kept |-> Kept(path) ]
  BY DEF Walked
<1>2. places \in SUBSET Paths /\ places \subseteq DOMAIN schema /\ DOMAIN schema \subseteq Paths
      /\ << >> \in DOMAIN schema /\ << >> \notin places
  BY Positions DEF Places
<1>3. \A path \in DOMAIN schema \ {<< >>} :
        IsBelow(path, places) <=> Front(path) \in places \/ IsBelow(Front(path), places)
  BY <1>2, IsBelowIs
<1>4. \A path \in DOMAIN schema \ {<< >>} : Front(path) \in DOMAIN schema
  BY Positions
<1>5. ~ IsBelow(<< >>, places)
  <2> SUFFICES ASSUME NEW place \in places, place # << >>, IsPrefix(place, << >>) PROVE FALSE
    BY DEF IsBelow
  <2>1. place \in Paths /\ << >> \in Paths
    BY <1>2
  <2>2. Len(place) \in Nat /\ Len(place) # 0 /\ Len(<< >>) = 0
    BY <2>1, PathIs
  <2>3. Len(place) <= Len(<< >>)
    BY <2>1, IsPrefixIs
  <2>4. QED
    BY <2>2, <2>3
<1>6. ASSUME NEW path \in places PROVE ~ IsBelow(path, places)
  <2> SUFFICES ASSUME NEW place \in places, place # path, IsPrefix(place, path) PROVE FALSE
    BY DEF IsBelow
  <2>1. path \in Paths /\ place \in Paths /\ Len(path) \in Nat /\ Len(place) \in Nat
        /\ Prefix(path, Len(path)) = path
    BY <1>2, PathIs
  <2>2. Len(place) <= Len(path) /\ Prefix(path, Len(place)) = place
    BY <2>1, IsPrefixIs
  <2>3. place # << >>
    BY <1>2
  <2>4. Len(place) # 0
    BY <2>1, <2>3, PathIs
  <2>5. Len(place) # Len(path)
    BY <2>1, <2>2
  <2>6. Len(place) \in 1 .. Len(path) - 1
    BY <2>1, <2>2, <2>4, <2>5
  <2>7. ~ NeedsName(schema, place)
    BY <2>2, <2>6, PlacesAreOutermost DEF Outermost
  <2>8. NeedsName(schema, place)
    BY PlacesAreOutermost DEF Outermost
  <2>9. QED
    BY <2>7, <2>8
<1> HIDE DEF left, places, Kept
<1>7. DOMAIN left = kept /\ \A path \in kept : left[path] = Kept(path)
  BY <1>1
<1>8. << >> \in kept /\ places \subseteq kept
  BY <1>2, <1>5, <1>6
<1>9. \A path \in kept \ {<< >>} : Front(path) \in kept /\ Front(path) \notin places
  BY <1>3, <1>4
<1>10. \A path \in DOMAIN schema \ {<< >>} :
         Front(path) \in kept /\ Front(path) \notin places => path \in kept
  BY <1>3
<1>11. left = [ path \in DOMAIN left |-> left[path] ]
  BY <1>1
<1>12. /\ \A path \in kept : path \notin places => left[path] = schema[path]
       /\ \A path \in places : left[path] = LeftBehind(schema, path, ShapeName(schema, path, model))
  BY <1>7, <1>8 DEF Kept
<1>13. kept \subseteq DOMAIN schema
  OBVIOUS
<1> HIDE DEF kept
<1>14. QED
  BY <1>7, <1>8, <1>9, <1>10, <1>11, <1>12, <1>13 DEF left, places

(* The reference that was left in a place has no type, nor any other       *)
(* keyword than that of its name.                                          *)
LEMMA LeftBehindIs ==
  ASSUME NEW schema, NEW path, NEW name
  PROVE  LET node == LeftBehind(schema, path, name)
         IN  /\ ~ Has(node, "type") /\ ~ Has(node, "additionalProperties")
             /\ Has(node, "$ref") /\ node["$ref"] = name
<1> DEFINE keys == (DOMAIN schema[path] \cap StaysBehind(path)) \cup {"$ref"}
<1>1. StaysBehind(path) \subseteq {"x-name"}
  BY DEF StaysBehind
<1>2. "type" \notin keys /\ "additionalProperties" \notin keys /\ "$ref" \in keys
  BY <1>1
<1>3. LeftBehind(schema, path, name) =
        [ key \in keys |-> IF key = "$ref" THEN name ELSE schema[path][key] ]
  BY DEF LeftBehind
<1> HIDE DEF keys
<1>4. QED
  BY <1>2, <1>3 DEF Has

(* Above what is left nothing was taken out.                               *)
LEMMA AboveLeft ==
  ASSUME NEW schema, WellFormed(schema), NEW model, NEW path \in DOMAIN Walked(schema, model)
  PROVE  \A n \in 0 .. Len(path) :
           /\ Prefix(path, n) \in DOMAIN Walked(schema, model)
           /\ n < Len(path) => Prefix(path, n) \notin Places(schema)
<1> DEFINE left == Walked(schema, model)
           Kept(n) == /\ Prefix(path, n) \in DOMAIN left
                      /\ n < Len(path) => Prefix(path, n) \notin Places(schema)
           good == { k \in 0 .. Len(path) : Kept(Len(path) - k) }
<1>1. DOMAIN left \subseteq DOMAIN schema /\ DOMAIN schema \subseteq Paths /\ path \in DOMAIN left
  BY WalkedIs, Positions
<1>2. \A p \in DOMAIN left \ {<< >>} : Front(p) \in DOMAIN left /\ Front(p) \notin Places(schema)
  BY WalkedIs
<1> HIDE DEF left
<1>3. path \in Paths /\ Len(path) \in Nat /\ Prefix(path, Len(path)) = path
  BY <1>1, PathIs
<1>4. 0 \in good
  BY <1>1, <1>3
<1>5. ASSUME NEW k \in 0 .. Len(path) - 1, k \in good PROVE k + 1 \in good
  <2> DEFINE n == Len(path) - k
  <2>1. n \in 0 .. Len(path) /\ n > 0 /\ Len(path) - (k + 1) = n - 1 /\ k + 1 \in 0 .. Len(path)
    BY <1>3
  <2>2. Prefix(path, n) \in DOMAIN left
    BY <1>5
  <2>3. Prefix(path, n) # << >>
    BY <1>3, <2>1, PrefixIs
  <2>4. Front(Prefix(path, n)) = Prefix(path, n - 1)
    BY <1>3, <2>1, PrefixOfPrefix
  <2>5. Kept(n - 1)
    BY <1>2, <2>2, <2>3, <2>4
  <2> HIDE DEF n, Kept
  <2>6. QED
    BY <2>1, <2>5
<1>6. good = 0 .. Len(path)
  <2>1. good \in SUBSET (0 .. Len(path))
    OBVIOUS
  <2> HIDE DEF good
  <2>2. QED
    BY <1>3, <1>4, <1>5, <2>1, UpTo
<1>7. ASSUME NEW n \in 0 .. Len(path) PROVE Kept(n)
  <2>1. Len(path) - n \in 0 .. Len(path) /\ Len(path) - (Len(path) - n) = n
    BY <1>3
  <2>2. Len(path) - n \in good
    BY <1>6, <2>1
  <2> HIDE DEF Kept
  <2>3. QED
    BY <2>1, <2>2
<1>8. QED
  BY <1>7 DEF left

(* What stays in a model is what it was.                                   *)
LEMMA LeftIs ==
  ASSUME NEW schema, WellFormed(schema), NEW model, NEW path \in DOMAIN Walked(schema, model),
         path \notin Places(schema)
  PROVE  LET left == Walked(schema, model)
         IN  /\ left[path] = schema[path]
             /\ IsInlineObject(left, path) <=> IsInlineObject(schema, path)
             /\ IsFreeForm(left, path) <=> IsFreeForm(schema, path)
             /\ IsSumType(left, path) <=> IsSumType(schema, path)
<1> DEFINE left == Walked(schema, model)
<1>1. DOMAIN left \subseteq DOMAIN schema /\ DOMAIN schema \subseteq Paths /\ path \in DOMAIN left
  BY WalkedIs, Positions
<1>2. left[path] = schema[path]
  BY WalkedIs
<1>3. \A c \in DOMAIN schema : c # << >> /\ Front(c) = path => c \in DOMAIN left
  BY <1>1, WalkedIs
<1>4. \A c : IsMember(c) \/ IsBranch(c) => c # << >>
  BY DEF IsMember, IsBranch
<1>5. \A c \in DOMAIN schema : c \notin DOMAIN left =>
        ~ (IsMember(c) /\ Front(c) = path) /\ ~ (IsBranch(c) /\ Front(c) = path)
  BY <1>3, <1>4
<1>6. Branches(left, path) = Branches(schema, path)
  <2> HIDE DEF left
  <2>1. QED
    BY <1>1, <1>5 DEF Branches
<1>7. IsFreeForm(left, path) <=> IsFreeForm(schema, path)
  <2>1. (\E c \in DOMAIN left : IsMember(c) /\ Front(c) = path) <=>
        (\E c \in DOMAIN schema : IsMember(c) /\ Front(c) = path)
    <3> HIDE DEF left
    <3>1. QED
      BY <1>1, <1>5
  <2> HIDE DEF left
  <2>2. QED
    BY <1>2, <2>1 DEF IsFreeForm
<1>8. IsInlineObject(left, path) <=> IsInlineObject(schema, path)
  BY <1>2 DEF IsInlineObject, IsOfType
<1>9. ASSUME NEW branch \in Branches(schema, path)
      PROVE  IsOfType(left, branch, "null") <=> IsOfType(schema, branch, "null")
  <2>1. branch \in DOMAIN left /\ IsBranch(branch) /\ branch \in Paths
    BY <1>1, <1>3, <1>4 DEF Branches
  <2>2. CASE branch \notin Places(schema)
    <3>1. left[branch] = schema[branch]
      BY <2>1, <2>2, WalkedIs
    <3> HIDE DEF left
    <3>2. QED
      BY <3>1 DEF IsOfType
  <2>3. CASE branch \in Places(schema)
    <3>1. left[branch] = LeftBehind(schema, branch, ShapeName(schema, branch, model))
      BY <2>3, WalkedIs
    <3>2. ~ Has(left[branch], "type")
      BY <3>1, LeftBehindIs
    <3>3. IsHoisted(schema, branch)
      BY <2>3 DEF Places
    <3>4. IsInlineObject(schema, branch)
      <4>1. ~ IsMember(branch) /\ ~ IsElement(branch)
        BY <2>1, Kinds
      <4>2. QED
        BY <3>3, <4>1 DEF IsHoisted
    <3>5. ~ IsOfType(schema, branch, "null")
      BY <3>4 DEF IsInlineObject, IsOfType
    <3> HIDE DEF left
    <3>6. QED
      BY <3>2, <3>5 DEF IsOfType
  <2>4. QED
    BY <2>2, <2>3
<1> HIDE DEF left
<1>10. IsSumType(left, path) <=> IsSumType(schema, path)
  BY <1>6, <1>9 DEF IsSumType
<1>11. QED
  BY <1>2, <1>7, <1>8, <1>10 DEF left

(* A walk leaves nothing that a walk would take out: to walk a model again *)
(* changes nothing.                                                        *)
THEOREM WalkedOnce ==
  ASSUME NEW schema, WellFormed(schema), NEW model
  PROVE  /\ Places(Walked(schema, model)) = {}
         /\ \A again : Walked(Walked(schema, model), again) = Walked(schema, model)
<1> DEFINE left == Walked(schema, model)
           places == Places(schema)
<1>1. /\ DOMAIN left \subseteq DOMAIN schema /\ DOMAIN schema \subseteq Paths
      /\ << >> \in DOMAIN left
      /\ left = [ path \in DOMAIN left |-> left[path] ]
  BY WalkedIs, Positions
<1>2. /\ \A path \in places :
           left[path] = LeftBehind(schema, path, ShapeName(schema, path, model))
      /\ \A path \in DOMAIN left \ {<< >>} : Front(path) \in DOMAIN left /\ Front(path) \notin places
  BY WalkedIs
<1>3. \A path \in DOMAIN left : path \notin places =>
        /\ IsInlineObject(left, path) <=> IsInlineObject(schema, path)
        /\ IsFreeForm(left, path) <=> IsFreeForm(schema, path)
        /\ IsSumType(left, path) <=> IsSumType(schema, path)
  BY LeftIs
<1>4. \A path \in DOMAIN left : \A n \in 0 .. Len(path) :
        Prefix(path, n) \in DOMAIN left /\ (n < Len(path) => Prefix(path, n) \notin places)
  BY AboveLeft
<1>5. ASSUME NEW path \in places
      PROVE  ~ IsInlineObject(left, path) /\ ~ IsSumType(left, path)
  <2>1. ~ Has(left[path], "type")
    BY <1>2, LeftBehindIs
  <2>2. Branches(left, path) = {}
    <3> HIDE DEF left, places
    <3>1. QED
      BY <1>2, <1>5 DEF Branches, IsBranch
  <2> HIDE DEF left
  <2>3. QED
    BY <2>1, <2>2 DEF IsInlineObject, IsOfType, IsSumType
<1> HIDE DEF left
<1>6. ASSUME NEW path \in DOMAIN left, path # << >>, path \notin places
      PROVE  /\ IsHoisted(left, path) <=> IsHoisted(schema, path)
             /\ IsWalked(left, path) <=> IsWalked(schema, path)
  <2>1. Front(path) \in DOMAIN left /\ Front(path) \notin places
    BY <1>2, <1>6
  <2>2. WalksBranches(left, Front(path)) <=> WalksBranches(schema, Front(path))
    BY <1>3, <2>1 DEF WalksBranches
  <2>3. IsBranch(Front(path)) =>
          (WalksBranches(left, Front(Front(path))) <=> WalksBranches(schema, Front(Front(path))))
    <3>1. IsBranch(Front(path)) => Front(path) # << >>
      BY DEF IsBranch
    <3>2. IsBranch(Front(path)) => Front(Front(path)) \in DOMAIN left /\ Front(Front(path)) \notin places
      BY <1>2, <2>1, <3>1
    <3>3. QED
      BY <1>3, <3>2 DEF WalksBranches
  <2>4. /\ IsInlineObject(left, path) <=> IsInlineObject(schema, path)
        /\ IsFreeForm(left, path) <=> IsFreeForm(schema, path)
        /\ IsSumType(left, path) <=> IsSumType(schema, path)
    BY <1>3, <1>6
  <2>5. IsHoisted(left, path) <=> IsHoisted(schema, path)
    BY <2>2, <2>4 DEF IsHoisted
  <2>6. IsWalked(left, path) <=> IsWalked(schema, path)
    BY <2>2, <2>3, <2>4 DEF IsWalked
  <2>7. QED
    BY <2>5, <2>6
<1>7. ASSUME NEW path \in Places(left) PROVE FALSE
  <2>1. /\ path \in DOMAIN left /\ path # << >> /\ IsHoisted(left, path)
        /\ \A n \in DOMAIN path : /\ IsWalked(left, Prefix(path, n))
                                  /\ n < Len(path) => ~ IsHoisted(left, Prefix(path, n))
    BY DEF Places
  <2>2. path \in Paths /\ Len(path) \in Nat /\ DOMAIN path = 1 .. Len(path)
        /\ Prefix(path, Len(path)) = path
    BY <1>1, <2>1, PathIs
  <2>3. IsInlineObject(left, path) \/ IsSumType(left, path)
    BY <2>1 DEF IsHoisted
  <2>4. path \notin places
    BY <1>5, <2>3
  <2>5. ASSUME NEW n \in 1 .. Len(path)
        PROVE  /\ IsWalked(schema, Prefix(path, n))
               /\ n < Len(path) => ~ IsHoisted(schema, Prefix(path, n))
    <3>1. n \in 0 .. Len(path)
      BY <2>2
    <3>2. Prefix(path, n) \in DOMAIN left /\ Prefix(path, n) \notin places
      <4>0. Len(path) \in Nat
        BY <2>2
      <4>1. n < Len(path) \/ n = Len(path)
        BY <4>0
      <4>2. QED
        BY <1>4, <2>1, <2>2, <2>4, <3>1, <4>1
    <3>3. Prefix(path, n) # << >>
      BY <2>2, <3>1, PrefixIs
    <3>4. QED
      BY <1>6, <2>1, <2>2, <3>2, <3>3
  <2>6. IsHoisted(schema, path)
    BY <1>6, <2>1, <2>4
  <2>7. path \in places
    BY <1>1, <2>1, <2>2, <2>5, <2>6 DEF Places
  <2>8. QED
    BY <2>4, <2>7
<1>8. Places(left) = {}
  BY <1>7
<1>9. ASSUME NEW again PROVE Walked(left, again) = left
  <2>1. \A p : ~ IsBelow(p, {})
    BY DEF IsBelow
  <2>2. Walked(left, again) = [ path \in DOMAIN left |-> left[path] ]
    BY <1>8, <2>1 DEF Walked
  <2>3. QED
    BY <1>1, <2>2
<1>10. QED
  BY <1>8, <1>9 DEF left

-----------------------------------------------------------------------------
(* Documents, and where in a document a model comes from.                  *)

(* What DocumentsAssumption and NamesAssumption say of one document.       *)
IsDocument(document) ==
  /\ \A id \in DOMAIN document : WellFormed(document[id]) /\ (id[1] = "def" => id = Def(id[2]))
  /\ \A shape \in AllShapes(document) :
       NamesItself(document[shape[1]], shape[2]) \/ TextName(document, shape) \notin DOMAIN Recased

(* A model is an authored one or a shape, at whatever depth.               *)
Origins(document) == { << id, << >> >> : id \in DOMAIN document } \cup AllShapes(document)
In(home, path) == << home[1], home[2] \o path >>
TextAt(document, home) ==
  IF home[2] = << >> THEN document[home[1]] ELSE TakenOut(document[home[1]], home[2])
NameAt(document, home) == TypeName(document[home[1]], home[2], ModelName(home[1]))

(* The text of a model is a part of the document.                          *)
LEMMA OriginIs ==
  ASSUME NEW document, IsDocument(document), NEW home \in Origins(document)
  PROVE  /\ home[1] \in DOMAIN document /\ home = << home[1], home[2] >> /\ home[2] \in Paths
         /\ WellFormed(document[home[1]]) /\ home[2] \in DOMAIN document[home[1]]
         /\ IsPart(TextAt(document, home), document[home[1]], home[2])
         /\ WellFormed(TextAt(document, home))
         /\ home[2] # << >> <=> home \in AllShapes(document)
         /\ home \in AllShapes(document) => NeedsName(document[home[1]], home[2])
<1> DEFINE schema == document[home[1]]
<1>0. << >> \in Paths
  BY EmptySeq DEF Paths
<1>1. CASE home \in AllShapes(document)
  <2>1. PICK id \in DOMAIN document : \E path \in Shapes(document[id]) : home = << id, path >>
    BY <1>1 DEF AllShapes
  <2>2. PICK path \in Shapes(document[id]) : home = << id, path >>
    BY <2>1
  <2>3. home[1] = id /\ home[2] = path /\ home = << home[1], home[2] >>
    BY <2>2
  <2>4. WellFormed(schema) /\ home[2] \in DOMAIN schema /\ NeedsName(schema, home[2])
    BY <2>2, <2>3 DEF IsDocument, Shapes
  <2>5. home[2] \in Paths /\ home[2] # << >>
    BY <2>4, Positions DEF NeedsName, IsElement
  <2> HIDE DEF schema
  <2>6. IsPart(TakenOut(schema, home[2]), schema, home[2])
    BY <2>4, TakenOutIsPart
  <2>7. TextAt(document, home) = TakenOut(schema, home[2])
    BY <2>5 DEF TextAt, schema
  <2>8. WellFormed(TakenOut(schema, home[2]))
    BY <2>4, <2>6, PartIsWellFormed
  <2>9. QED
    BY <1>1, <2>3, <2>4, <2>5, <2>6, <2>7, <2>8 DEF schema
<1>2. CASE home \notin AllShapes(document)
  <2>1. PICK id \in DOMAIN document : home = << id, << >> >>
    BY <1>2 DEF Origins
  <2>2. home[1] = id /\ home[2] = << >> /\ home = << home[1], home[2] >>
    BY <2>1
  <2>3. WellFormed(schema)
    BY <2>2 DEF IsDocument
  <2>4. TextAt(document, home) = schema
    BY <2>2 DEF TextAt
  <2> HIDE DEF schema
  <2>5. << >> \in DOMAIN schema
    BY <2>3, Positions
  <2>6. IsPart(schema, schema, << >>)
    BY <2>3, WholeIsPart
  <2>7. QED
    BY <1>0, <1>2, <2>2, <2>3, <2>4, <2>5, <2>6 DEF schema
<1>3. QED
  BY <1>1, <1>2

(* A place in a model is a shape of the document: with its name there, and *)
(* the text there.                                                         *)
LEMMA PlaceIsShape ==
  ASSUME NEW document, IsDocument(document), NEW home \in Origins(document),
         NEW path \in Places(TextAt(document, home))
  PROVE  /\ In(home, path) \in AllShapes(document)
         /\ TakenOut(TextAt(document, home), path) = TextAt(document, In(home, path))
         /\ ShapeName(TextAt(document, home), path, NameAt(document, home))
              = TextName(document, In(home, path))
<1> DEFINE schema == document[home[1]]
           part == TextAt(document, home)
           there == home[2] \o path
<1>1. /\ home[1] \in DOMAIN document /\ home[2] \in Paths /\ WellFormed(schema)
      /\ IsPart(part, schema, home[2]) /\ WellFormed(part)
  BY OriginIs
<1>2. In(home, path)[1] = home[1] /\ In(home, path)[2] = there
  BY DEF In
<1> HIDE DEF schema, part
<1>3. path \in Outermost(part) /\ path # << >> /\ path \in Paths
  BY <1>1, PlacesAreOutermost DEF part
<1>4. path \in DOMAIN part /\ NeedsName(part, path)
  BY <1>3 DEF Outermost
<1>5. Front(path) \in DOMAIN part
  BY <1>1, <1>3, <1>4, Positions
<1>6. NeedsName(schema, there) /\ there \in DOMAIN schema
  <2>1. NeedsName(schema, there)
    BY <1>1, <1>3, <1>4, <1>5, SameNeed
  <2>2. QED
    BY <1>1, <1>4, <2>1 DEF IsPart
<1>7. there # << >>
  BY <1>1, <1>3, JoinIs
<1>8. In(home, path) \in AllShapes(document)
  <2>1. there \in Shapes(document[home[1]])
    BY <1>6 DEF Shapes, schema
  <2>2. In(home, path) = << home[1], there >>
    BY DEF In
  <2> HIDE DEF there
  <2>3. << home[1], there >> \in { << home[1], p >> : p \in Shapes(document[home[1]]) }
    BY <2>1
  <2>4. QED
    BY <1>1, <2>2, <2>3 DEF AllShapes
<1>9. TakenOut(part, path) = TakenOut(schema, there)
  BY <1>1, <1>3, <1>4, TakenOutOfPart
<1>10. TextAt(document, In(home, path)) = TakenOut(schema, there)
  BY <1>2, <1>7 DEF TextAt, schema
<1>11. ShapeName(part, path, TypeName(schema, home[2], ModelName(home[1])))
         = NameOf(schema, there, ModelName(home[1]))
  BY <1>1, PlaceName DEF part
<1>12. TextName(document, In(home, path)) = NameOf(schema, there, ModelName(home[1]))
  BY <1>2 DEF TextName, schema
<1>13. NameAt(document, home) = TypeName(schema, home[2], ModelName(home[1]))
  BY DEF NameAt, schema
<1> HIDE DEF there
<1>14. QED
  BY <1>8, <1>9, <1>10, <1>11, <1>12, <1>13 DEF part

(* Two origins of places one of which is above the other.                  *)
LEMMA NoPlaceThrough ==
  ASSUME NEW document, IsDocument(document), NEW a \in Origins(document), NEW b \in Origins(document),
         NEW p \in Places(TextAt(document, a)), NEW q \in Places(TextAt(document, b)),
         In(a, p) = In(b, q)
  PROVE  ~ (Len(a[2]) < Len(b[2]))
<1> DEFINE schema == document[a[1]]
           part == TextAt(document, a)
<1>1. /\ a[2] \in Paths /\ b[2] \in Paths /\ WellFormed(schema)
      /\ IsPart(part, schema, a[2]) /\ WellFormed(part)
      /\ (b[2] # << >> => b \in AllShapes(document))
      /\ (b \in AllShapes(document) => NeedsName(document[b[1]], b[2]) /\ b[2] \in DOMAIN document[b[1]])
  BY OriginIs
<1>2. WellFormed(TextAt(document, b))
  BY OriginIs
<1>3. p \in Outermost(part) /\ p # << >> /\ p \in Paths /\ q \in Paths
  BY <1>1, <1>2, PlacesAreOutermost
<1>4. a[1] = b[1] /\ a[2] \o p = b[2] \o q
  BY DEF In
<1> HIDE DEF schema, part
<1>5. SUFFICES ASSUME Len(a[2]) < Len(b[2]) PROVE FALSE
  OBVIOUS
<1>6. Len(a[2]) \in Nat /\ Len(b[2]) \in Nat /\ Len(p) \in Nat /\ Len(q) \in Nat
  BY <1>1, <1>3, PathIs
<1>7. Len(a[2] \o p) = Len(a[2]) + Len(p) /\ Len(b[2] \o q) = Len(b[2]) + Len(q)
      /\ (b[2] = b[2] \o q <=> q = << >>)
  BY <1>1, <1>3, JoinIs
<1>8. q # << >>
  BY <1>2, PlacesAreOutermost
<1>9. Len(q) # 0
  BY <1>3, <1>8, PathIs
<1> DEFINE n == Len(b[2]) - Len(a[2])
<1>10. n \in 1 .. Len(p) - 1 /\ n \in 0 .. Len(p) /\ Len(a[2]) + n = Len(b[2])
  BY <1>4, <1>5, <1>6, <1>7, <1>9
<1>11. Prefix(b[2] \o q, Len(b[2])) = b[2]
  <2>1. Len(b[2]) \in 0 .. Len(b[2]) /\ Prefix(b[2], Len(b[2])) = b[2]
    BY <1>1, <1>6, PathIs
  <2>2. Prefix(b[2] \o q, Len(b[2])) = Prefix(b[2], Len(b[2]))
    BY <1>1, <1>3, <2>1, PrefixOfJoin
  <2>3. QED
    BY <2>1, <2>2
<1>12. Prefix(a[2] \o p, Len(a[2]) + n) = a[2] \o Prefix(p, n)
  BY <1>1, <1>3, <1>10, PrefixOfJoin
<1> HIDE DEF n
<1>13. b[2] = a[2] \o Prefix(p, n)
  BY <1>4, <1>10, <1>11, <1>12
<1>14. b[2] # << >>
  <2>1. Len(b[2]) # 0
    BY <1>5, <1>6
  <2>2. QED
    BY <1>1, <2>1, PathIs
<1>15. NeedsName(schema, a[2] \o Prefix(p, n))
  BY <1>1, <1>4, <1>13, <1>14 DEF schema
<1>16. ~ NeedsName(part, Prefix(p, n))
  BY <1>3, <1>10 DEF Outermost
<1>17. Prefix(p, n) \in DOMAIN part /\ Prefix(p, n) # << >> /\ Front(Prefix(p, n)) \in DOMAIN part
  <2>1. p \in DOMAIN part
    BY <1>3 DEF Outermost
  <2>2. Prefix(p, n) \in DOMAIN part
    BY <1>1, <1>10, <2>1, Positions
  <2>3. Prefix(p, n) # << >>
    BY <1>3, <1>10, PrefixIs
  <2>4. QED
    BY <1>1, <2>2, <2>3, Positions
<1>18. QED
  BY <1>1, <1>15, <1>16, <1>17, SameNeed

(* No shape is found in two models or in two places.                       *)
THEOREM FoundOnce ==
  ASSUME NEW document, IsDocument(document), NEW a \in Origins(document), NEW b \in Origins(document),
         NEW p \in Places(TextAt(document, a)), NEW q \in Places(TextAt(document, b)),
         In(a, p) = In(b, q)
  PROVE  a = b /\ p = q
<1>1. /\ a[2] \in Paths /\ b[2] \in Paths /\ a = << a[1], a[2] >> /\ b = << b[1], b[2] >>
      /\ WellFormed(TextAt(document, a)) /\ WellFormed(TextAt(document, b))
  BY OriginIs
<1>2. p \in Paths /\ q \in Paths
  BY <1>1, PlacesAreOutermost
<1>3. a[1] = b[1] /\ a[2] \o p = b[2] \o q
  BY DEF In
<1>4. Len(a[2]) \in Nat /\ Len(b[2]) \in Nat
  BY <1>1, PathIs
<1>5. ~ (Len(a[2]) < Len(b[2])) /\ ~ (Len(b[2]) < Len(a[2]))
  BY NoPlaceThrough
<1>6. Len(a[2]) = Len(b[2])
  BY <1>4, <1>5
<1>7. a[2] = b[2]
  <2>1. Len(a[2]) \in 0 .. Len(a[2])
    BY <1>4
  <2>2. Prefix(a[2] \o p, Len(a[2])) = Prefix(a[2], Len(a[2]))
    BY <1>1, <1>2, <2>1, PrefixOfJoin
  <2>3. Prefix(b[2] \o q, Len(b[2])) = Prefix(b[2], Len(b[2]))
    BY <1>1, <1>2, <1>6, <2>1, PrefixOfJoin
  <2>4. Prefix(a[2], Len(a[2])) = a[2] /\ Prefix(b[2], Len(b[2])) = b[2]
    BY <1>1, PathIs
  <2>5. QED
    BY <1>3, <1>6, <2>2, <2>3, <2>4
<1>8. p = q
  <2>1. a[2] \o p = a[2] \o q
    BY <1>3, <1>7
  <2>2. QED
    BY <1>1, <1>2, <2>1, SameRest
<1>9. QED
  BY <1>1, <1>3, <1>7, <1>8

(* A set of numbers up to a bound has a greatest one.                      *)
LEMMA Greatest ==
  ASSUME NEW bound \in Nat, NEW numbers \in SUBSET (0 .. bound), 0 \in numbers
  PROVE  \E n \in numbers : \A m \in numbers : m <= n
<1> SUFFICES ASSUME \A n \in numbers : \E m \in numbers : ~ (m <= n) PROVE FALSE
  OBVIOUS
<1> DEFINE good == { k \in 0 .. bound : \E m \in numbers : m >= k }
<1>1. 0 \in good
  OBVIOUS
<1>2. ASSUME NEW k \in 0 .. bound - 1, k \in good PROVE k + 1 \in good
  <2>1. PICK m \in numbers : m >= k
    BY <1>2
  <2>2. PICK n \in numbers : ~ (n <= m)
    OBVIOUS
  <2>3. n \in Nat /\ m \in Nat /\ n >= k + 1 /\ k + 1 \in 0 .. bound
    BY <2>1, <2>2
  <2>4. QED
    BY <2>3
<1>3. good = 0 .. bound
  <2>1. good \in SUBSET (0 .. bound)
    OBVIOUS
  <2> HIDE DEF good
  <2>2. QED
    BY <1>1, <1>2, <2>1, UpTo
<1>4. PICK m \in numbers : m >= bound
  BY <1>3
<1>5. PICK n \in numbers : ~ (n <= m)
  OBVIOUS
<1>6. QED
  BY <1>4, <1>5

(* Above every position is an origin: the last shape there is up to some   *)
(* step, or the model itself.                                              *)
LEMMA Home ==
  ASSUME NEW document, IsDocument(document), NEW id \in DOMAIN document,
         NEW path \in DOMAIN document[id], NEW bound \in 0 .. Len(path)
  PROVE  \E n \in 0 .. bound :
           /\ << id, Prefix(path, n) >> \in Origins(document)
           /\ \A m \in n + 1 .. bound : ~ NeedsName(document[id], Prefix(path, m))
<1> DEFINE schema == document[id]
           numbers == { n \in 0 .. bound : n = 0 \/ NeedsName(schema, Prefix(path, n)) }
<1>1. WellFormed(schema)
  BY DEF IsDocument
<1> HIDE DEF schema
<1>2. path \in Paths /\ Len(path) \in Nat /\ Prefix(path, 0) = << >>
  <2>1. path \in Paths
    BY <1>1, Positions DEF schema
  <2>2. QED
    BY <2>1, PathIs
<1>3. bound \in Nat /\ numbers \in SUBSET (0 .. bound) /\ 0 \in numbers
  BY <1>2
<1>4. PICK n \in numbers : \A m \in numbers : m <= n
  <2> HIDE DEF numbers
  <2>1. QED
    BY <1>3, Greatest
<1>5. n \in 0 .. bound /\ n \in 0 .. Len(path)
  BY <1>2
<1>6. << id, Prefix(path, n) >> \in Origins(document)
  <2>1. CASE n = 0
    BY <1>2, <2>1 DEF Origins
  <2>2. CASE n # 0
    <3>1. NeedsName(schema, Prefix(path, n))
      BY <2>2
    <3>2. Prefix(path, n) \in DOMAIN schema
      BY <1>1, <1>5, Positions DEF schema
    <3>3. Prefix(path, n) \in Shapes(document[id])
      BY <3>1, <3>2 DEF Shapes, schema
    <3> DEFINE p == Prefix(path, n)
    <3> HIDE DEF p
    <3>4. << id, p >> \in { << id, q >> : q \in Shapes(document[id]) }
      BY <3>3 DEF p
    <3>5. QED
      BY <3>4 DEF Origins, AllShapes, p
  <2>3. QED
    BY <2>1, <2>2
<1>7. ASSUME NEW m \in n + 1 .. bound PROVE ~ NeedsName(schema, Prefix(path, m))
  <2>1. m \in 0 .. bound /\ ~ (m <= n)
    BY <1>5
  <2>2. m \notin numbers
    BY <1>4, <2>1
  <2>3. QED
    BY <2>1, <2>2
<1>8. QED
  BY <1>5, <1>6, <1>7 DEF schema

(* A document without hidden elements has none in its parts.               *)
LEMMA NothingHidden ==
  ASSUME NEW document, IsDocument(document), ~ HidesElements(document),
         NEW home \in Origins(document), NEW path \in DOMAIN TextAt(document, home), path # << >>,
         NeedsName(TextAt(document, home), path)
  PROVE  ~ Hidden(TextAt(document, home), path)
<1> DEFINE schema == document[home[1]]
           part == TextAt(document, home)
           there == home[2] \o path
<1>1. /\ home[1] \in DOMAIN document /\ home[2] \in Paths /\ WellFormed(schema)
      /\ IsPart(part, schema, home[2]) /\ WellFormed(part)
  BY OriginIs
<1> HIDE DEF schema, part
<1>2. path \in Paths /\ path \in DOMAIN part
  BY <1>1, Positions DEF part
<1>3. Len(path) \in Nat /\ DOMAIN path = 1 .. Len(path) /\ Len(home[2]) \in Nat
  BY <1>1, <1>2, PathIs
<1>4. /\ there \in Paths /\ Len(there) = Len(home[2]) + Len(path)
      /\ \A i \in 1 .. Len(path) : there[Len(home[2]) + i] = path[i]
  BY <1>1, <1>2, JoinIs
<1>5. DOMAIN there = 1 .. Len(there)
  BY <1>4, PathIs
<1>6. there \in Shapes(schema)
  <2>1. Front(path) \in DOMAIN part
    BY <1>1, <1>2, Positions
  <2>2. NeedsName(part, path)
    BY DEF part
  <2>3. NeedsName(schema, there)
    BY <1>1, <1>2, <2>1, <2>2, SameNeed
  <2>4. there \in DOMAIN schema
    BY <1>1, <1>2 DEF IsPart
  <2>5. QED
    BY <2>3, <2>4 DEF Shapes
<1>7. \A n \in 0 .. Len(path) : Prefix(there, Len(home[2]) + n) = home[2] \o Prefix(path, n)
  BY <1>1, <1>2, PrefixOfJoin
<1> HIDE DEF there
<1>8. ~ Hidden(schema, there)
  <2>1. << home[1], there >> \in { << home[1], p >> : p \in Shapes(schema) }
    BY <1>6
  <2>2. << home[1], there >> \in AllShapes(document)
    BY <1>1, <2>1 DEF AllShapes, schema
  <2>3. << home[1], there >>[1] = home[1] /\ << home[1], there >>[2] = there
    OBVIOUS
  <2>4. ~ \E n \in DOMAIN << home[1], there >>[2] :
            LET array == Prefix(<< home[1], there >>[2], n - 1)
            IN  /\ << home[1], there >>[2][n][1] = "items" /\ IsBranch(array)
                /\ IsNullable(document[<< home[1], there >>[1]], Front(array))
    BY <2>2 DEF HidesElements
  <2>5. QED
    BY <2>3, <2>4 DEF Hidden, schema
<1>9. SUFFICES ASSUME NEW n \in DOMAIN path, path[n][1] = "items", IsBranch(Prefix(path, n - 1)),
                      IsNullable(part, Front(Prefix(path, n - 1)))
               PROVE  FALSE
  BY DEF Hidden, part
<1> DEFINE array == Prefix(path, n - 1)
           k == Len(home[2]) + n
<1>10. n \in 1 .. Len(path) /\ n - 1 \in 0 .. Len(path)
  BY <1>3
<1>11. k \in DOMAIN there /\ there[k] = path[n] /\ k - 1 = Len(home[2]) + (n - 1)
  <2>1. k \in 1 .. Len(there)
    BY <1>3, <1>4, <1>10
  <2>2. k - 1 = Len(home[2]) + (n - 1)
    BY <1>3, <1>10
  <2>3. QED
    BY <1>4, <1>5, <1>10, <2>1, <2>2
<1>12. Prefix(there, k - 1) = home[2] \o array
  BY <1>7, <1>10, <1>11
<1>13. array \in Paths /\ array # << >>
  BY <1>2, <1>9, <1>10, PrefixIs DEF IsBranch
<1>14. IsBranch(home[2] \o array) /\ Front(home[2] \o array) = home[2] \o Front(array)
  <2>1. IsBranch(home[2] \o array)
    BY <1>1, <1>9, <1>13, KindOfJoin
  <2>2. QED
    BY <1>1, <1>13, <2>1, PrefixOfJoin
<1>15. Front(array) \in DOMAIN part
  <2>1. array \in DOMAIN part
    BY <1>1, <1>2, <1>10, Positions
  <2>2. QED
    BY <1>1, <1>13, <2>1, Positions
<1>16. IsNullable(schema, home[2] \o Front(array))
  BY <1>1, <1>9, <1>15, SameNullable
<1> HIDE DEF array, k
<1>17. QED
  BY <1>8, <1>9, <1>11, <1>12, <1>14, <1>16 DEF Hidden

(* The walk takes out of a model exactly the outermost shapes in it.       *)
LEMMA WalkTakesOutermost ==
  ASSUME NEW document, IsDocument(document), ~ HidesElements(document),
         NEW home \in Origins(document)
  PROVE  Places(TextAt(document, home)) = Outermost(TextAt(document, home))
<1> DEFINE part == TextAt(document, home)
<1>1. WellFormed(part)
  BY OriginIs
<1>2. ASSUME NEW path \in Places(part) PROVE path \in Outermost(part)
  BY <1>1, PlacesAreOutermost
<1>3. ASSUME NEW path \in Outermost(part) PROVE path \in Places(part)
  <2>1. path \in DOMAIN part /\ path # << >> /\ NeedsName(part, path)
    BY DEF Outermost, NeedsName, IsElement
  <2>2. ~ Hidden(part, path)
    BY <2>1, NothingHidden
  <2>3. QED
    BY <1>1, <2>2, OutermostArePlaces
<1>4. QED
  BY <1>2, <1>3

(* From an origin on, a path of the document is one of the origin's text,  *)
(* and what needs a name on the way is the same.                           *)
LEMMA FromHome ==
  ASSUME NEW document, IsDocument(document), NEW id \in DOMAIN document,
         NEW path \in DOMAIN document[id], NEW n \in 0 .. Len(path),
         << id, Prefix(path, n) >> \in Origins(document)
  PROVE  LET home == << id, Prefix(path, n) >>
             rest == After(path, n)
             part == TextAt(document, home)
         IN  /\ rest \in DOMAIN part /\ rest \in Paths /\ Len(rest) = Len(path) - n
             /\ In(home, rest) = << id, path >>
             /\ \A m \in 1 .. Len(rest) :
                  NeedsName(part, Prefix(rest, m)) <=> NeedsName(document[id], Prefix(path, n + m))
<1> DEFINE schema == document[id]
           first == Prefix(path, n)
           home == << id, first >>
           rest == After(path, n)
           part == TextAt(document, home)
<1>1. home[1] = id /\ home[2] = first /\ home \in Origins(document)
  OBVIOUS
<1>2. /\ first \in Paths /\ WellFormed(schema) /\ IsPart(part, schema, first) /\ WellFormed(part)
  BY <1>1, OriginIs
<1>3. path \in Paths /\ Len(path) \in Nat
  <2>1. path \in Paths
    BY <1>2, Positions
  <2>2. QED
    BY <2>1, PathIs
<1>4. rest \in Paths /\ Len(rest) = Len(path) - n /\ path = first \o rest /\ Len(first) = n
  BY <1>3, Cut, PrefixIs
<1>5. In(home, rest) = << id, path >>
  <2> HIDE DEF first, rest
  <2>1. QED
    BY <1>1, <1>4 DEF In
<1> HIDE DEF part, home
<1>6. rest \in DOMAIN part
  <2> HIDE DEF first, rest
  <2>1. QED
    BY <1>2, <1>4 DEF IsPart
<1>7. ASSUME NEW m \in 1 .. Len(rest)
      PROVE  NeedsName(part, Prefix(rest, m)) <=> NeedsName(schema, Prefix(path, n + m))
  <2> DEFINE p == Prefix(rest, m)
  <2>1. m \in 0 .. Len(rest) /\ Len(rest) \in Nat /\ m # 0
    BY <1>3, <1>4
  <2> HIDE DEF first, rest
  <2>2. p \in DOMAIN part /\ p # << >>
    <3>1. p \in DOMAIN part
      BY <1>2, <1>6, <2>1, Positions
    <3>2. p # << >>
      BY <1>4, <2>1, PrefixIs
    <3>3. QED
      BY <3>1, <3>2
  <2>3. Front(p) \in DOMAIN part
    BY <1>2, <2>2, Positions
  <2>4. NeedsName(part, p) <=> NeedsName(schema, first \o p)
    BY <1>2, <2>2, <2>3, SameNeed
  <2>5. Prefix(first \o rest, Len(first) + m) = first \o p
    BY <1>2, <1>4, <2>1, PrefixOfJoin
  <2> HIDE DEF p
  <2>6. QED
    BY <1>4, <2>4, <2>5 DEF p
<1>8. QED
  BY <1>4, <1>5, <1>6, <1>7 DEF part, home

(* Every shape of the document is a place in what encloses it.             *)
LEMMA Enclosed ==
  ASSUME NEW document, IsDocument(document), ~ HidesElements(document), NEW shape \in AllShapes(document)
  PROVE  \E home \in Origins(document) : \E path \in Places(TextAt(document, home)) :
           shape = In(home, path) /\ Len(home[2]) < Len(shape[2])
<1> DEFINE id == shape[1]
           path == shape[2]
           schema == document[id]
<1>1. /\ id \in DOMAIN document /\ path \in Paths /\ WellFormed(schema) /\ path \in DOMAIN schema
      /\ NeedsName(schema, path) /\ path # << >> /\ shape = << id, path >>
  <2>1. shape \in Origins(document)
    BY DEF Origins
  <2>2. QED
    BY <2>1, OriginIs
<1> HIDE DEF id, path, schema
<1>2. Len(path) \in Nat /\ Len(path) >= 1 /\ Prefix(path, Len(path)) = path
  BY <1>1, PathIs
<1> DEFINE bound == Len(path) - 1
<1>3. bound \in 0 .. Len(path) /\ bound \in Nat
  BY <1>2
<1> HIDE DEF bound
<1>4. PICK n \in 0 .. bound :
        /\ << id, Prefix(path, n) >> \in Origins(document)
        /\ \A m \in n + 1 .. bound : ~ NeedsName(document[id], Prefix(path, m))
  BY <1>1, <1>3, Home DEF schema
<1> DEFINE home == << id, Prefix(path, n) >>
           rest == After(path, n)
           part == TextAt(document, home)
<1>5. n \in 0 .. Len(path) /\ n < Len(path) /\ bound = Len(path) - 1 /\ n \in Nat
  BY <1>2, <1>3 DEF bound
<1>6. /\ rest \in DOMAIN part /\ rest \in Paths /\ Len(rest) = Len(path) - n
      /\ In(home, rest) = << id, path >>
      /\ \A m \in 1 .. Len(rest) :
           NeedsName(part, Prefix(rest, m)) <=> NeedsName(document[id], Prefix(path, n + m))
  BY <1>1, <1>4, <1>5, FromHome DEF schema
<1>7. Len(rest) \in Nat /\ Len(rest) \in 1 .. Len(rest) /\ Prefix(rest, Len(rest)) = rest
      /\ n + Len(rest) = Len(path)
  <2>1. Len(rest) = Len(path) - n /\ Prefix(rest, Len(rest)) = rest
    BY <1>6, PathIs
  <2> HIDE DEF rest
  <2>2. QED
    BY <1>2, <1>5, <2>1
<1> HIDE DEF part, rest
<1>8. NeedsName(part, rest)
  <2>1. NeedsName(part, Prefix(rest, Len(rest))) <=> NeedsName(document[id], Prefix(path, n + Len(rest)))
    BY <1>6, <1>7
  <2>2. QED
    BY <1>1, <1>2, <1>7, <2>1 DEF schema
<1>9. ASSUME NEW m \in 1 .. Len(rest) - 1 PROVE ~ NeedsName(part, Prefix(rest, m))
  <2>1. m \in 1 .. Len(rest) /\ n + m \in n + 1 .. bound
    BY <1>5, <1>7
  <2>2. ~ NeedsName(document[id], Prefix(path, n + m))
    BY <1>4, <2>1
  <2>3. QED
    BY <1>6, <2>1, <2>2
<1>10. rest \in Outermost(part)
  BY <1>6, <1>8, <1>9 DEF Outermost
<1>11. rest \in Places(TextAt(document, home))
  <2> HIDE DEF home
  <2>1. home \in Origins(document)
    BY <1>4 DEF home
  <2>2. QED
    BY <1>10, <2>1, WalkTakesOutermost DEF part
<1>12. home[2] = Prefix(path, n) /\ Len(home[2]) = n
  BY <1>1, <1>5, PrefixIs
<1>13. Len(home[2]) < Len(shape[2])
  BY <1>5, <1>12 DEF path
<1>14. shape = In(home, rest)
  BY <1>1, <1>6
<1>15. home \in Origins(document)
  BY <1>4
<1> HIDE DEF home
<1>16. QED
  BY <1>11, <1>13, <1>14, <1>15

(* Every position of the document is in a model, and stays there.          *)
LEMMA Located ==
  ASSUME NEW document, IsDocument(document), NEW id \in DOMAIN document,
         NEW path \in DOMAIN document[id]
  PROVE  \E home \in Origins(document) : \E rest \in DOMAIN TextAt(document, home) :
           /\ In(home, rest) = << id, path >> /\ rest \notin Places(TextAt(document, home))
           /\ ~ IsBelow(rest, Places(TextAt(document, home)))
<1> DEFINE schema == document[id]
<1>1. WellFormed(schema)
  BY DEF IsDocument
<1>2. path \in Paths /\ Len(path) \in Nat /\ Len(path) \in 0 .. Len(path)
  <2>1. path \in Paths
    BY <1>1, Positions
  <2>2. Len(path) \in Nat
    BY <2>1, PathIs
  <2>3. QED
    BY <2>1, <2>2
<1> HIDE DEF schema
<1>3. PICK n \in 0 .. Len(path) :
        /\ << id, Prefix(path, n) >> \in Origins(document)
        /\ \A m \in n + 1 .. Len(path) : ~ NeedsName(document[id], Prefix(path, m))
  BY <1>2, Home
<1> DEFINE home == << id, Prefix(path, n) >>
           rest == After(path, n)
           part == TextAt(document, home)
<1>4. /\ rest \in DOMAIN part /\ rest \in Paths /\ Len(rest) = Len(path) - n
      /\ In(home, rest) = << id, path >>
      /\ \A m \in 1 .. Len(rest) :
           NeedsName(part, Prefix(rest, m)) <=> NeedsName(document[id], Prefix(path, n + m))
  BY <1>3, FromHome
<1>5. WellFormed(part)
  BY <1>3, OriginIs
<1>6. home \in Origins(document)
  BY <1>3
<1> HIDE DEF part, rest, home
<1>7. ASSUME NEW m \in 1 .. Len(rest) PROVE ~ NeedsName(part, Prefix(rest, m))
  <2>1. n + m \in n + 1 .. Len(path)
    BY <1>2, <1>4
  <2>2. ~ NeedsName(document[id], Prefix(path, n + m))
    BY <1>3, <2>1
  <2>3. QED
    BY <1>4, <2>2
<1>8. ASSUME NEW place \in Places(part) PROVE ~ IsPrefix(place, rest)
  <2>1. place \in Paths /\ place # << >> /\ NeedsName(part, place)
    BY <1>5, PlacesAreOutermost DEF Outermost
  <2>2. Len(place) \in Nat /\ Len(place) # 0
    BY <2>1, PathIs
  <2>3. Len(rest) \in Nat
    BY <1>4, PathIs
  <2>4. ASSUME IsPrefix(place, rest) PROVE FALSE
    <3>1. Len(place) <= Len(rest) /\ Prefix(rest, Len(place)) = place
      BY <1>4, <2>1, <2>4, IsPrefixIs
    <3>2. Len(place) \in 1 .. Len(rest)
      BY <2>2, <2>3, <3>1
    <3>3. QED
      BY <1>7, <2>1, <3>1, <3>2
  <2>5. QED
    BY <2>4
<1>9. IsPrefix(rest, rest)
  <2>1. Prefix(rest, Len(rest)) = rest /\ Len(rest) \in Nat
    BY <1>4, PathIs
  <2>2. QED
    BY <1>4, <2>1, IsPrefixIs
<1>10. rest \notin Places(part) /\ ~ IsBelow(rest, Places(part))
  BY <1>8, <1>9 DEF IsBelow
<1>11. QED
  BY <1>4, <1>6, <1>10 DEF part

(* Below another path in a part, and in the document.                      *)
LEMMA PrefixInside ==
  ASSUME NEW home \in Paths, NEW place \in Paths, NEW path \in Paths
  PROVE  IsPrefix(home \o place, home \o path) <=> IsPrefix(place, path)
<1>1. home \o place \in Paths /\ home \o path \in Paths
  BY JoinIs
<1>2. ASSUME IsPrefix(place, path) PROVE IsPrefix(home \o place, home \o path)
  <2>1. PICK rest \in Paths : path = place \o rest
    BY <1>2, IsPrefixIs
  <2>2. home \o path = (home \o place) \o rest
    BY <2>1, JoinAgain
  <2>3. QED
    BY <1>1, <2>2, IsPrefixIs
<1>3. ASSUME IsPrefix(home \o place, home \o path) PROVE IsPrefix(place, path)
  <2>1. PICK rest \in Paths : home \o path = (home \o place) \o rest
    BY <1>1, <1>3, IsPrefixIs
  <2>2. home \o path = home \o (place \o rest) /\ place \o rest \in Paths
    <3>1. (home \o place) \o rest = home \o (place \o rest)
      BY JoinAgain
    <3>2. QED
      BY <2>1, <3>1, JoinIs
  <2>3. path = place \o rest
    BY <2>2, SameRest
  <2>4. QED
    BY <2>3, IsPrefixIs
<1>4. QED
  BY <1>2, <1>3

(* The shapes in a part that are in no place: the places.                  *)
LEMMA PlaceAbove ==
  ASSUME NEW document, IsDocument(document), ~ HidesElements(document),
         NEW home \in Origins(document), NEW path \in DOMAIN TextAt(document, home),
         NeedsName(TextAt(document, home), path)
  PROVE  \E place \in Places(TextAt(document, home)) : IsPrefix(place, path)
<1> DEFINE part == TextAt(document, home)
<1>1. WellFormed(part) /\ Places(part) = Outermost(part)
  BY OriginIs, WalkTakesOutermost
<1> HIDE DEF part
<1>2. path \in DOMAIN part /\ NeedsName(part, path) /\ path \in Paths
  BY <1>1, Positions DEF part
<1>3. PICK n \in 1 .. Len(path) : Prefix(path, n) \in Outermost(part)
  BY <1>1, <1>2, HasOutermost
<1>4. Len(path) \in Nat
  BY <1>2, PathIs
<1>5. n \in 0 .. Len(path) /\ n <= Len(path)
  BY <1>4
<1>6. Prefix(path, n) \in Paths /\ Len(Prefix(path, n)) = n
  BY <1>2, <1>5, PrefixIs
<1>7. IsPrefix(Prefix(path, n), path)
  BY <1>2, <1>5, <1>6, IsPrefixIs
<1>8. QED
  BY <1>1, <1>3, <1>7 DEF part

(* What the walk leaves of a model is what the text has there.             *)
THEOREM WalkedIsPart ==
  ASSUME NEW document, IsDocument(document), ~ HidesElements(document),
         NEW home \in Origins(document)
  PROVE  Walked(TextAt(document, home), NameAt(document, home)) = Part(document, home)
<1> DEFINE schema == document[home[1]]
           root == home[2]
           part == TextAt(document, home)
           places == Places(part)
           name == NameAt(document, home)
           inner == { path \in Shapes(schema) : path # root /\ IsPrefix(root, path) }
           own == { path \in DOMAIN schema : IsPrefix(root, path) /\ ~ IsBelow(path, inner) }
           Node(rest) ==
             IF root \o rest \in inner
             THEN LeftBehind(schema, root \o rest, TextName(document, << home[1], root \o rest >>))
             ELSE IF rest = << >> THEN Without(schema[root \o rest], StaysBehind(root \o rest))
             ELSE schema[root \o rest]
           rests == { SubSeq(path, Len(root) + 1, Len(path)) : path \in own }
           kept == { p \in DOMAIN part : ~ IsBelow(p, places) }
           Left(path) == IF path \in places THEN LeftBehind(part, path, ShapeName(part, path, name))
                         ELSE part[path]
<1>1. Part(document, home) = [ rest \in rests |-> Node(rest) ]
  BY DEF Part
<1>2. Walked(part, name) = [ path \in kept |-> Left(path) ]
  BY DEF Walked
<1>3. /\ home[1] \in DOMAIN document /\ root \in Paths /\ WellFormed(schema)
      /\ IsPart(part, schema, root) /\ WellFormed(part)
  BY OriginIs
<1>4. \A path \in places :
        ShapeName(part, path, name) = TextName(document, << home[1], root \o path >>)
  BY PlaceIsShape DEF In
<1>5. \A path \in places : path \in Paths /\ path # << >> /\ NeedsName(part, path) /\ path \in DOMAIN part
  BY <1>3, PlacesAreOutermost DEF Outermost
<1>6. \A path \in DOMAIN part : NeedsName(part, path) => \E place \in places : IsPrefix(place, path)
  BY PlaceAbove
<1> HIDE DEF schema, root, part, places, name
<1>7. DOMAIN part \subseteq Paths /\ DOMAIN schema \subseteq Paths
  BY <1>3, Positions
<1>8. ASSUME NEW path \in DOMAIN part
      PROVE  /\ root \o path \in inner <=> NeedsName(part, path)
             /\ root \o path \in DOMAIN schema /\ path \in Paths /\ root \o path \in Paths
  <2>1. path \in Paths /\ root \o path \in DOMAIN schema /\ root \o path \in Paths
    BY <1>3, <1>7 DEF IsPart
  <2>2. root \o path = root <=> path = << >>
    BY <1>3, <2>1, JoinIs
  <2>3. IsPrefix(root, root \o path)
    BY <1>3, <2>1, IsPrefixIs
  <2>4. CASE path = << >>
    <3>1. ~ NeedsName(part, path)
      BY <2>4 DEF NeedsName, IsElement
    <3>2. QED
      BY <2>1, <2>2, <2>4, <3>1
  <2>5. CASE path # << >>
    <3>1. Front(path) \in DOMAIN part
      BY <1>3, <2>5, Positions
    <3>2. NeedsName(part, path) <=> NeedsName(schema, root \o path)
      BY <1>3, <2>5, <3>1, SameNeed
    <3>3. QED
      BY <2>1, <2>2, <2>3, <2>5, <3>2 DEF Shapes
  <2>6. QED
    BY <2>1, <2>4, <2>5
<1>9. ASSUME NEW path \in DOMAIN part PROVE IsBelow(path, places) <=> IsBelow(root \o path, inner)
  <2>1. path \in Paths
    BY <1>7
  <2>2. ASSUME NEW place \in places, place # path, IsPrefix(place, path)
        PROVE  IsBelow(root \o path, inner)
    <3>1. place \in Paths /\ place \in DOMAIN part /\ NeedsName(part, place)
      BY <1>5
    <3>2. root \o place \in inner
      BY <1>8, <3>1
    <3>3. IsPrefix(root \o place, root \o path)
      BY <1>3, <2>1, <2>2, <3>1, PrefixInside
    <3>4. root \o place # root \o path
      BY <1>3, <2>1, <2>2, <3>1, SameRest
    <3> HIDE DEF inner
    <3>5. QED
      BY <3>2, <3>3, <3>4 DEF IsBelow
  <2>3. ASSUME NEW shape \in inner, shape # root \o path, IsPrefix(shape, root \o path)
        PROVE  IsBelow(path, places)
    <3> DEFINE p == After(shape, Len(root))
    <3>1. shape \in DOMAIN schema /\ IsPrefix(root, shape) /\ shape \in Paths
      BY <1>7 DEF Shapes
    <3>2. Len(root) \in 0 .. Len(shape) /\ shape = root \o p
      BY <1>3, <3>1, IsPrefixIs, PathIs
    <3>3. p \in Paths
      BY <3>1, <3>2, Cut
    <3> HIDE DEF p
    <3>4. p \in DOMAIN part
      BY <1>3, <3>1, <3>2, <3>3 DEF IsPart
    <3>5. NeedsName(part, p)
      <4> HIDE DEF inner
      <4>1. QED
        BY <1>8, <2>3, <3>2, <3>4
    <3>6. PICK place \in places : IsPrefix(place, p)
      BY <1>6, <3>4, <3>5
    <3>7. place \in Paths
      BY <1>5
    <3>8. IsPrefix(p, path) /\ p # path
      <4>1. IsPrefix(p, path)
        BY <1>3, <2>1, <2>3, <3>2, <3>3, PrefixInside
      <4>2. QED
        BY <2>3, <3>2, <4>1
    <3>9. Len(place) \in Nat /\ Len(p) \in Nat /\ Len(path) \in Nat
          /\ Prefix(path, Len(path)) = path
      BY <2>1, <3>3, <3>7, PathIs
    <3>10. /\ Len(place) <= Len(p) /\ Prefix(p, Len(place)) = place
           /\ Len(p) <= Len(path) /\ Prefix(path, Len(p)) = p
      BY <2>1, <3>3, <3>6, <3>7, <3>8, IsPrefixIs
    <3>11. Len(p) # Len(path)
      BY <3>8, <3>9, <3>10
    <3>12. Len(place) # Len(path) /\ Len(place) <= Len(path)
      BY <3>9, <3>10, <3>11
    <3>13. Len(p) \in 0 .. Len(path) /\ Len(place) \in 0 .. Len(p)
      BY <3>9, <3>10
    <3>14. Prefix(Prefix(path, Len(p)), Len(place)) = Prefix(path, Len(place))
      BY <2>1, <3>13, PrefixOfPrefix
    <3>15. Prefix(path, Len(place)) = place
      BY <3>10, <3>14
    <3>16. IsPrefix(place, path)
      BY <2>1, <3>7, <3>12, <3>15, IsPrefixIs
    <3>17. place # path
      BY <3>12
    <3>18. QED
      BY <3>16, <3>17 DEF IsBelow
  <2>4. QED
    <3> HIDE DEF inner
    <3>1. QED
      BY <2>2, <2>3 DEF IsBelow
<1>10. rests = kept
  <2>1. ASSUME NEW path \in own PROVE SubSeq(path, Len(root) + 1, Len(path)) \in kept
    <3> DEFINE p == After(path, Len(root))
    <3>1. path \in DOMAIN schema /\ IsPrefix(root, path) /\ path \in Paths /\ ~ IsBelow(path, inner)
      BY <1>7
    <3>2. Len(root) \in 0 .. Len(path) /\ path = root \o p
      BY <1>3, <3>1, IsPrefixIs, PathIs
    <3>3. p \in Paths
      BY <3>1, <3>2, Cut
    <3> HIDE DEF p
    <3>4. p \in DOMAIN part
      BY <1>3, <3>1, <3>2, <3>3 DEF IsPart
    <3>5. ~ IsBelow(p, places)
      <4> HIDE DEF inner
      <4>1. QED
        BY <1>9, <3>1, <3>2, <3>4
    <3>6. QED
      BY <3>4, <3>5 DEF p, After
  <2>2. ASSUME NEW path \in kept PROVE path \in rests
    <3>1. /\ path \in DOMAIN part /\ ~ IsBelow(path, places) /\ path \in Paths
          /\ root \o path \in DOMAIN schema /\ root \o path \in Paths
      BY <1>8
    <3>2. ~ IsBelow(root \o path, inner)
      <4> HIDE DEF inner
      <4>1. QED
        BY <1>9, <3>1
    <3>3. IsPrefix(root, root \o path)
      BY <1>3, <3>1, IsPrefixIs
    <3>4. root \o path \in own
      <4> HIDE DEF inner
      <4>1. QED
        BY <3>1, <3>2, <3>3
    <3>5. path = SubSeq(root \o path, Len(root) + 1, Len(root \o path))
      BY <1>3, <3>1, AfterJoin DEF After
    <3> HIDE DEF own
    <3>6. QED
      BY <3>4, <3>5
  <2> HIDE DEF own, kept
  <2>3. QED
    BY <2>1, <2>2
<1>11. ASSUME NEW path \in kept PROVE Left(path) = Node(path)
  <2>1. path \in DOMAIN part /\ ~ IsBelow(path, places) /\ path \in Paths
    BY <1>7
  <2>2. root \o path \in inner <=> NeedsName(part, path)
    <3> HIDE DEF inner
    <3>1. QED
      BY <1>8, <2>1
  <2>3. path \in places <=> NeedsName(part, path)
    <3>1. ASSUME NeedsName(part, path) PROVE path \in places
      <4>1. PICK place \in places : IsPrefix(place, path)
        BY <1>6, <2>1, <3>1
      <4>2. QED
        BY <2>1, <4>1 DEF IsBelow
    <3>2. QED
      BY <1>5, <3>1
  <2> HIDE DEF inner, kept
  <2>4. CASE path \in places
    <3>1. path # << >>
      BY <1>5, <2>4
    <3>2. part[path] = schema[root \o path]
      BY <1>3, <2>1, <3>1 DEF IsPart
    <3>3. StaysBehind(path) = StaysBehind(root \o path)
      BY <1>3, <2>1, <3>1, KindOfJoin DEF StaysBehind
    <3>4. ShapeName(part, path, name) = TextName(document, << home[1], root \o path >>)
      BY <1>4, <2>4
    <3> DEFINE text == TextName(document, << home[1], root \o path >>)
    <3> HIDE DEF text
    <3>5. LeftBehind(part, path, text) = LeftBehind(schema, root \o path, text)
      BY <3>2, <3>3 DEF LeftBehind
    <3>6. QED
      BY <2>2, <2>3, <2>4, <3>4, <3>5 DEF text
  <2>5. CASE path \notin places
    <3>1. CASE path = << >>
      <4>1. root \o path = root
        BY <1>3, <2>1, <3>1, JoinIs
      <4>2. part[path] = Without(schema[root], StaysBehind(root))
        BY <1>3, <3>1 DEF IsPart
      <4>3. QED
        BY <2>2, <2>3, <2>5, <3>1, <4>1, <4>2
    <3>2. CASE path # << >>
      <4>1. part[path] = schema[root \o path]
        BY <1>3, <2>1, <3>2 DEF IsPart
      <4>2. QED
        BY <2>2, <2>3, <2>5, <3>2, <4>1
    <3>3. QED
      BY <3>1, <3>2
  <2>6. QED
    BY <2>4, <2>5
<1> HIDE DEF kept, rests, Left, Node
<1>12. Walked(part, name) = Part(document, home)
  BY <1>1, <1>2, <1>10, <1>11
<1>13. QED
  BY <1>12 DEF part, name

-----------------------------------------------------------------------------
(* The invariant: every model comes from one place of the document.        *)

(* org: where a model comes from; done: the models whose shapes were taken *)
(* out.  An authored model is itself, and a synthesized one a shape with   *)
(* the name of its position.                                               *)
Tracks(document, now, org, done) ==
  /\ DOMAIN document \subseteq DOMAIN now
  /\ org \in [ DOMAIN now -> Origins(document) ] /\ done \in SUBSET DOMAIN now
  /\ \A id \in DOMAIN document : org[id] = << id, << >> >>
  /\ \A id \in DOMAIN now \ DOMAIN document :
       /\ org[id] \in AllShapes(document) /\ id = Def(TextName(document, org[id]))
       /\ TextName(document, org[id]) # Unnamed
       /\ TextName(document, org[id]) \notin RootNames(document)
  /\ \A id \in DOMAIN now :
       now[id] = IF id \in done THEN Walked(TextAt(document, org[id]), NameAt(document, org[id]))
                 ELSE TextAt(document, org[id])

(* A shape that was taken out, as it waits to be inserted.                 *)
Waiting(document, id, home, path) ==
  [ name |-> TextName(document, In(home, path)), origin |-> << id, path >>,
    schema |-> TextAt(document, In(home, path)) ]

(* What was taken out is inserted or waits, and not both; and what was     *)
(* inserted was taken out of a model.                                      *)
Queued(document, now, queue, org, done) ==
  /\ \A shape \in queue : \E id \in done : \E path \in Places(TextAt(document, org[id])) :
       /\ shape = Waiting(document, id, org[id], path) /\ shape.name # Unnamed
       /\ \A other \in DOMAIN now : org[other] # In(org[id], path)
  /\ \A id \in done : \A path \in Places(TextAt(document, org[id])) :
       \/ \E other \in DOMAIN now : org[other] = In(org[id], path)
       \/ Waiting(document, id, org[id], path) \in queue
  /\ \A id \in DOMAIN now \ DOMAIN document :
       \E parent \in done : \E path \in Places(TextAt(document, org[parent])) :
         org[id] = In(org[parent], path)

(* What the steps so far have made sure of.                                *)
Judged(document, now, left, queue, result, done) ==
  /\ left \subseteq DOMAIN now
  /\ result = "walking" => DOMAIN now \ done \subseteq left
  /\ result = "inserting" => left = {}
  /\ result \in {"hoisted", "collected", "valid", "accepted"} => done = DOMAIN now /\ queue = {}
  /\ result \in {"collected", "valid", "accepted"} =>
       \A name \in RootNames(now) : Def(name) \notin DOMAIN now
  /\ result \in {"valid", "accepted"} => \A name \in References(now) : Def(name) \in DOMAIN now
  /\ result = "accepted" =>
       \A one, other \in DOMAIN now : one # other => Identifier(now, one) # Identifier(now, other)
  /\ result = "rejected" => HasCause(document) \/ HidesElements(document)
  /\ result \in {"walking", "inserting", "hoisted", "collected", "valid", "accepted", "rejected"}

IInv ==
  /\ IsDocument(authored)
  /\ \E org, done :
       /\ Tracks(authored, models, org, done)
       /\ Queued(authored, models, hoisted, org, done)
       /\ Judged(authored, models, unwalked, hoisted, outcome, done)

(* An authored model and a synthesized one do not come from the same.      *)
LEMMA OriginOfModel ==
  ASSUME NEW document, IsDocument(document), NEW now, NEW org, NEW done,
         Tracks(document, now, org, done), NEW id \in DOMAIN now
  PROVE  /\ org[id] \in Origins(document)
         /\ id \in DOMAIN document <=> org[id] \notin AllShapes(document)
         /\ \A other \in DOMAIN now : org[id] = org[other] => id = other
         /\ ModelName(id) = NameAt(document, org[id])
<1>1. \A i \in DOMAIN now : org[i] \in Origins(document)
  BY DEF Tracks
<1>2. ASSUME NEW i \in DOMAIN now PROVE i \in DOMAIN document <=> org[i] \notin AllShapes(document)
  <2>1. CASE i \in DOMAIN document
    <3>1. org[i] = << i, << >> >>
      BY <2>1 DEF Tracks
    <3>2. org[i][2] = << >>
      BY <3>1
    <3>3. org[i] \notin AllShapes(document)
      BY <1>1, <3>2, OriginIs
    <3>4. QED
      BY <2>1, <3>3
  <2>2. CASE i \notin DOMAIN document
    BY <2>2 DEF Tracks
  <2>3. QED
    BY <2>1, <2>2
<1>3. ASSUME NEW other \in DOMAIN now, org[id] = org[other] PROVE id = other
  <2>1. CASE id \in DOMAIN document
    <3>1. other \in DOMAIN document
      BY <1>2, <1>3, <2>1
    <3>2. << id, << >> >> = << other, << >> >>
      BY <1>3, <2>1, <3>1 DEF Tracks
    <3>3. QED
      BY <3>2
  <2>2. CASE id \notin DOMAIN document
    <3>1. other \notin DOMAIN document
      BY <1>2, <1>3, <2>2
    <3>2. QED
      BY <1>3, <2>2, <3>1 DEF Tracks
  <2>3. QED
    BY <2>1, <2>2
<1>4. ModelName(id) = NameAt(document, org[id])
  <2>1. CASE id \in DOMAIN document
    <3>1. org[id] = << id, << >> >>
      BY <2>1 DEF Tracks
    <3>2. org[id][1] = id /\ org[id][2] = << >>
      BY <3>1
    <3>3. ~ NeedsName(document[id], << >>)
      BY DEF NeedsName, IsElement
    <3>4. NameOf(document[id], << >>, ModelName(id)) = ModelName(id)
      <4>1. << >> \in Paths
        BY EmptySeq DEF Paths
      <4>2. QED
        BY <4>1, NameOfIs
    <3>5. QED
      BY <3>2, <3>3, <3>4 DEF NameAt, TypeName
  <2>2. CASE id \notin DOMAIN document
    <3> DEFINE home == org[id]
               name == TextName(document, home)
    <3>1. home \in AllShapes(document) /\ id = Def(name)
      BY <2>2 DEF Tracks
    <3>2. NeedsName(document[home[1]], home[2])
      BY <1>1, <3>1, OriginIs
    <3>3. NameAt(document, home) = Camel(name)
      BY <3>2 DEF NameAt, TypeName, TextName
    <3> HIDE DEF name, home
    <3>4. Last(Def(name)) = name
      BY DEF Last, Def
    <3>5. ModelName(id) = Camel(name)
      BY <3>1, <3>4 DEF ModelName
    <3>6. QED
      BY <3>3, <3>5 DEF home
  <2>3. QED
    BY <2>1, <2>2
<1>5. QED
  BY <1>1, <1>2, <1>3, <1>4

(* A model is walked as the text says, and to walk it again is idle.       *)
LEMMA WalkOf ==
  ASSUME NEW document, IsDocument(document), NEW now, NEW org, NEW done,
         Tracks(document, now, org, done), NEW id \in DOMAIN now
  PROVE  /\ id \in done => Places(now[id]) = {} /\ Walked(now[id], ModelName(id)) = now[id]
         /\ id \notin done =>
              /\ now[id] = TextAt(document, org[id])
              /\ \A path \in Places(now[id]) :
                   /\ In(org[id], path) \in AllShapes(document)
                   /\ ShapeName(now[id], path, ModelName(id)) = TextName(document, In(org[id], path))
                   /\ TakenOut(now[id], path) = TextAt(document, In(org[id], path))
<1>1. org[id] \in Origins(document) /\ ModelName(id) = NameAt(document, org[id])
  BY OriginOfModel
<1>2. WellFormed(TextAt(document, org[id]))
  BY <1>1, OriginIs
<1>3. CASE id \in done
  <2>1. now[id] = Walked(TextAt(document, org[id]), NameAt(document, org[id]))
    BY <1>3 DEF Tracks
  <2>2. QED
    BY <1>2, <1>3, <2>1, WalkedOnce
<1>4. CASE id \notin done
  <2>1. now[id] = TextAt(document, org[id])
    BY <1>4 DEF Tracks
  <2>2. QED
    BY <1>1, <1>4, <2>1, PlaceIsShape
<1>5. QED
  BY <1>3, <1>4

(* A walk keeps the invariant.                                             *)
LEMMA WalkKeeps ==
  ASSUME NEW document, IsDocument(document), NEW now, NEW queue, NEW org, NEW done,
         Tracks(document, now, org, done), Queued(document, now, queue, org, done),
         NEW id \in DOMAIN now, id \notin done,
         \A path \in Places(now[id]) : ShapeName(now[id], path, ModelName(id)) # Unnamed,
         NEW later, later = [ now EXCEPT ![id] = Walked(now[id], ModelName(id)) ],
         NEW longer,
         longer = queue \cup { [ name |-> ShapeName(now[id], path, ModelName(id)),
                                 origin |-> << id, path >>,
                                 schema |-> TakenOut(now[id], path) ] : path \in Places(now[id]) }
  PROVE  /\ Tracks(document, later, org, done \cup {id})
         /\ Queued(document, later, longer, org, done \cup {id})
<1> DEFINE home == org[id]
           places == Places(TextAt(document, home))
<1>1. home \in Origins(document) /\ ModelName(id) = NameAt(document, home)
  BY OriginOfModel
<1>2. /\ now[id] = TextAt(document, home)
      /\ \A path \in places :
           /\ In(home, path) \in AllShapes(document)
           /\ ShapeName(now[id], path, ModelName(id)) = TextName(document, In(home, path))
           /\ TakenOut(now[id], path) = TextAt(document, In(home, path))
  BY WalkOf
<1> HIDE DEF places, home
<1>3. /\ DOMAIN later = DOMAIN now
      /\ later[id] = Walked(TextAt(document, home), NameAt(document, home))
      /\ \A i \in DOMAIN now \ {id} : later[i] = now[i]
  BY <1>1, <1>2
<1>4. Tracks(document, later, org, done \cup {id})
  <2>1. \A i \in DOMAIN later :
          later[i] = IF i \in done \cup {id}
                     THEN Walked(TextAt(document, org[i]), NameAt(document, org[i]))
                     ELSE TextAt(document, org[i])
    BY <1>3 DEF Tracks, home
  <2>2. QED
    BY <1>3, <2>1 DEF Tracks
<1>5. longer = queue \cup { Waiting(document, id, home, path) : path \in places }
  <2>1. Places(now[id]) = places
    BY <1>2 DEF places
  <2>2. \A path \in places :
          [ name |-> ShapeName(now[id], path, ModelName(id)), origin |-> << id, path >>,
            schema |-> TakenOut(now[id], path) ] = Waiting(document, id, home, path)
    BY <1>2 DEF Waiting
  <2>3. QED
    BY <2>1, <2>2
<1>6. \A path \in places : TextName(document, In(home, path)) # Unnamed
  BY <1>2 DEF places
<1>7. ASSUME NEW path \in places, NEW other \in DOMAIN now PROVE org[other] # In(home, path)
  <2> SUFFICES ASSUME org[other] = In(home, path) PROVE FALSE
    OBVIOUS
  <2>1. other \notin DOMAIN document
    BY <1>2, OriginOfModel
  <2>2. PICK parent \in done : \E p \in Places(TextAt(document, org[parent])) :
          org[other] = In(org[parent], p)
    BY <2>1 DEF Queued
  <2>3. PICK p \in Places(TextAt(document, org[parent])) : org[other] = In(org[parent], p)
    BY <2>2
  <2>4. parent \in DOMAIN now
    BY DEF Tracks
  <2>5. org[parent] \in Origins(document)
    BY <2>4, OriginOfModel
  <2>6. org[parent] = home
    <3>1. path \in Places(TextAt(document, home))
      BY DEF places
    <3>2. In(org[parent], p) = In(home, path)
      BY <2>3
    <3> DEFINE there == org[parent]
    <3>3. there \in Origins(document) /\ p \in Places(TextAt(document, there)) /\ In(there, p) = In(home, path)
      BY <2>3, <2>5, <3>2
    <3> HIDE DEF there
    <3>4. there = home
      BY <1>1, <3>1, <3>3, FoundOnce
    <3>5. QED
      BY <3>4 DEF there
  <2>7. parent = id
    BY <2>4, <2>6, OriginOfModel DEF home
  <2>8. QED
    BY <2>7
<1>8. ASSUME NEW shape \in longer
      PROVE  \E i \in done \cup {id} : \E path \in Places(TextAt(document, org[i])) :
               /\ shape = Waiting(document, i, org[i], path) /\ shape.name # Unnamed
               /\ \A other \in DOMAIN later : org[other] # In(org[i], path)
  <2>1. CASE shape \in queue
    BY <1>3, <2>1 DEF Queued
  <2>2. CASE shape \notin queue
    <3>1. PICK path \in places : shape = Waiting(document, id, home, path)
      BY <1>5, <2>2
    <3>2. shape.name = TextName(document, In(home, path))
      BY <3>1 DEF Waiting
    <3>3. QED
      BY <1>3, <1>6, <1>7, <3>1, <3>2 DEF home, places
  <2>3. QED
    BY <2>1, <2>2
<1>9. ASSUME NEW i \in done \cup {id}, NEW path \in Places(TextAt(document, org[i]))
      PROVE  \/ \E other \in DOMAIN later : org[other] = In(org[i], path)
             \/ Waiting(document, i, org[i], path) \in longer
  <2>1. CASE i = id
    BY <1>5, <2>1 DEF home, places
  <2>2. CASE i # id
    BY <1>3, <1>5, <2>2 DEF Queued
  <2>3. QED
    BY <2>1, <2>2
<1>10. ASSUME NEW i \in DOMAIN later \ DOMAIN document
       PROVE  \E parent \in done \cup {id} : \E path \in Places(TextAt(document, org[parent])) :
                org[i] = In(org[parent], path)
  BY <1>3 DEF Queued
<1>11. Queued(document, later, longer, org, done \cup {id})
  BY <1>8, <1>9, <1>10 DEF Queued
<1>12. QED
  BY <1>4, <1>11

(* A definition is not a root.                                             *)
LEMMA RootsStay ==
  ASSUME NEW document, NEW now, NEW org, NEW done, Tracks(document, now, org, done)
  PROVE  RootNames(now) = RootNames(document)
<1>1. DOMAIN document \subseteq DOMAIN now
  BY DEF Tracks
<1>2. ASSUME NEW id \in DOMAIN now, id[1] = "root" PROVE id \in DOMAIN document
  <2>1. SUFFICES ASSUME id \notin DOMAIN document PROVE FALSE
    OBVIOUS
  <2> DEFINE name == TextName(document, org[id])
  <2>2. id = Def(name)
    BY <2>1 DEF Tracks
  <2> HIDE DEF name
  <2>3. id[1] = "def"
    BY <2>2 DEF Def
  <2>4. QED
    BY <1>2, <2>3
<1>3. QED
  BY <1>1, <1>2 DEF RootNames

(* To insert a shape keeps the invariant: the definition comes from where  *)
(* the shape was taken out.                                                *)
LEMMA InsertKeeps ==
  ASSUME NEW document, IsDocument(document), NEW now, NEW queue, NEW org, NEW done,
         Tracks(document, now, org, done), Queued(document, now, queue, org, done),
         NEW shape \in queue, shape.name \notin RootNames(now), Def(shape.name) \notin DOMAIN now,
         NEW later,
         later = [ id \in DOMAIN now \cup {Def(shape.name)} |->
                     IF id = Def(shape.name) THEN shape.schema ELSE now[id] ]
  PROVE  \E longer : /\ Tracks(document, later, longer, done)
                     /\ Queued(document, later, queue \ {shape}, longer, done)
<1> DEFINE new == Def(shape.name)
<1>1. PICK parent \in done : \E path \in Places(TextAt(document, org[parent])) :
        /\ shape = Waiting(document, parent, org[parent], path) /\ shape.name # Unnamed
        /\ \A other \in DOMAIN now : org[other] # In(org[parent], path)
  BY DEF Queued
<1> DEFINE home == org[parent]
<1>2. PICK path \in Places(TextAt(document, home)) :
        /\ shape = Waiting(document, parent, home, path) /\ shape.name # Unnamed
        /\ \A other \in DOMAIN now : org[other] # In(home, path)
  BY <1>1
<1> DEFINE there == In(home, path)
           longer == [ id \in DOMAIN now \cup {new} |-> IF id = new THEN there ELSE org[id] ]
<1>3. /\ DOMAIN document \subseteq DOMAIN now /\ done \subseteq DOMAIN now
      /\ org \in [ DOMAIN now -> Origins(document) ]
      /\ \A id \in DOMAIN document : org[id] = << id, << >> >>
  BY DEF Tracks
<1>4. home \in Origins(document) /\ parent \in DOMAIN now
  BY <1>3
<1>5. shape.name = TextName(document, there) /\ shape.schema = TextAt(document, there)
      /\ shape.origin = << parent, path >>
  BY <1>2 DEF Waiting
<1> HIDE DEF home
<1>6. there \in AllShapes(document) /\ there \in Origins(document)
  BY <1>4, PlaceIsShape DEF Origins
<1>7. shape.name \notin RootNames(document)
  BY RootsStay
<1>8. new \notin DOMAIN now /\ new \notin DOMAIN document /\ new \notin done
      /\ new = Def(TextName(document, there)) /\ TextName(document, there) # Unnamed
      /\ TextName(document, there) \notin RootNames(document)
  BY <1>2, <1>3, <1>5, <1>7
<1>9. DOMAIN later = DOMAIN now \cup {new} /\ later[new] = TextAt(document, there)
      /\ \A id \in DOMAIN now : later[id] = now[id]
  BY <1>5, <1>8
<1> HIDE DEF new, there
<1>10. /\ DOMAIN longer = DOMAIN now \cup {new} /\ longer[new] = there
       /\ \A id \in DOMAIN now : longer[id] = org[id]
       /\ longer \in [ DOMAIN now \cup {new} -> Origins(document) ]
  BY <1>3, <1>6, <1>8
<1> HIDE DEF longer
<1>11. Tracks(document, later, longer, done)
  <2>1. DOMAIN document \subseteq DOMAIN later /\ done \in SUBSET DOMAIN later
        /\ longer \in [ DOMAIN later -> Origins(document) ]
    BY <1>3, <1>9, <1>10
  <2>2. \A id \in DOMAIN document : longer[id] = << id, << >> >>
    BY <1>3, <1>10
  <2>3. ASSUME NEW id \in DOMAIN later \ DOMAIN document
        PROVE  /\ longer[id] \in AllShapes(document) /\ id = Def(TextName(document, longer[id]))
               /\ TextName(document, longer[id]) # Unnamed
               /\ TextName(document, longer[id]) \notin RootNames(document)
    <3>1. CASE id = new
      BY <1>6, <1>8, <1>10, <3>1
    <3>2. CASE id # new
      <4>1. id \in DOMAIN now \ DOMAIN document /\ longer[id] = org[id]
        BY <1>9, <1>10, <3>2
      <4>2. QED
        BY <4>1 DEF Tracks
    <3>3. QED
      BY <3>1, <3>2
  <2>4. ASSUME NEW id \in DOMAIN later
        PROVE  later[id] = IF id \in done
                           THEN Walked(TextAt(document, longer[id]), NameAt(document, longer[id]))
                           ELSE TextAt(document, longer[id])
    <3>1. CASE id = new
      BY <1>8, <1>9, <1>10, <3>1
    <3>2. CASE id # new
      <4>1. id \in DOMAIN now /\ longer[id] = org[id] /\ later[id] = now[id]
        BY <1>9, <1>10, <3>2
      <4>2. QED
        BY <4>1 DEF Tracks
    <3>3. QED
      BY <3>1, <3>2
  <2>5. QED
    BY <2>1, <2>2, <2>3, <2>4 DEF Tracks
<1>12. \A id \in done : longer[id] = org[id]
  BY <1>3, <1>10
<1>13. ASSUME NEW other \in queue \ {shape}
       PROVE  \E id \in done : \E p \in Places(TextAt(document, longer[id])) :
                /\ other = Waiting(document, id, longer[id], p) /\ other.name # Unnamed
                /\ \A i \in DOMAIN later : longer[i] # In(longer[id], p)
  <2>1. PICK id \in done : \E p \in Places(TextAt(document, org[id])) :
          /\ other = Waiting(document, id, org[id], p) /\ other.name # Unnamed
          /\ \A i \in DOMAIN now : org[i] # In(org[id], p)
    BY <1>13 DEF Queued
  <2> DEFINE from == org[id]
  <2>2. PICK p \in Places(TextAt(document, from)) :
          /\ other = Waiting(document, id, from, p) /\ other.name # Unnamed
          /\ \A i \in DOMAIN now : org[i] # In(from, p)
    BY <2>1
  <2>3. from \in Origins(document) /\ id \in DOMAIN now
    BY <1>3
  <2> HIDE DEF from
  <2>4. there # In(from, p)
    <3> SUFFICES ASSUME there = In(from, p) PROVE FALSE
      OBVIOUS
    <3>1. from = home /\ p = path
      BY <1>4, <2>3, FoundOnce DEF there
    <3>2. id = parent
      BY <1>4, <2>3, <3>1, OriginOfModel DEF from, home
    <3>3. QED
      BY <1>2, <1>13, <2>2, <3>1, <3>2
  <2>5. ASSUME NEW i \in DOMAIN later PROVE longer[i] # In(from, p)
    BY <1>9, <1>10, <2>2, <2>4
  <2>6. longer[id] = from
    BY <1>12 DEF from
  <2>7. QED
    BY <2>2, <2>5, <2>6
<1>14. ASSUME NEW id \in done, NEW p \in Places(TextAt(document, longer[id]))
       PROVE  \/ \E other \in DOMAIN later : longer[other] = In(longer[id], p)
              \/ Waiting(document, id, longer[id], p) \in queue \ {shape}
  <2> DEFINE from == org[id]
  <2>1. longer[id] = from
    BY <1>12
  <2>2. p \in Places(TextAt(document, from))
    BY <2>1
  <2>3. CASE \E other \in DOMAIN now : org[other] = In(from, p)
    <3>1. PICK other \in DOMAIN now : org[other] = In(from, p)
      BY <2>3
    <3>2. QED
      BY <1>9, <1>10, <2>1, <3>1
  <2>4. CASE Waiting(document, id, from, p) \in queue
    <3>1. CASE Waiting(document, id, from, p) = shape
      <4>1. shape.origin = << id, p >>
        BY <3>1 DEF Waiting
      <4>2. id = parent /\ p = path
        BY <1>5, <4>1
      <4>3. longer[new] = In(from, p)
        BY <1>10, <4>2 DEF there, home
      <4>4. QED
        BY <1>9, <2>1, <4>3
    <3>2. CASE Waiting(document, id, from, p) # shape
      BY <2>1, <2>4, <3>2
    <3>3. QED
      BY <3>1, <3>2
  <2>5. QED
    BY <2>2, <2>3, <2>4 DEF Queued
<1>15. ASSUME NEW id \in DOMAIN later \ DOMAIN document
       PROVE  \E i \in done : \E p \in Places(TextAt(document, longer[i])) :
                longer[id] = In(longer[i], p)
  <2>1. CASE id = new
    <3>1. longer[parent] = home
      BY <1>12 DEF home
    <3>2. QED
      BY <1>10, <2>1, <3>1 DEF there
  <2>2. CASE id # new
    <3>1. id \in DOMAIN now \ DOMAIN document /\ longer[id] = org[id]
      BY <1>9, <1>10, <2>2
    <3>2. PICK i \in done : \E p \in Places(TextAt(document, org[i])) : org[id] = In(org[i], p)
      BY <3>1 DEF Queued
    <3>3. QED
      BY <1>12, <3>1, <3>2
  <2>3. QED
    BY <2>1, <2>2
<1>16. Queued(document, later, queue \ {shape}, longer, done)
  <2> HIDE DEF Waiting
  <2>1. QED
    BY <1>13, <1>14, <1>15 DEF Queued
<1>17. QED
  BY <1>11, <1>16

(* When every model was walked and nothing waits, every shape of the text  *)
(* has a definition: by induction on how deep it is.                       *)
LEMMA EveryShapeFound ==
  ASSUME NEW document, IsDocument(document), ~ HidesElements(document),
         NEW now, NEW org, Tracks(document, now, org, DOMAIN now),
         Queued(document, now, {}, org, DOMAIN now), NEW origin \in Origins(document)
  PROVE  \E id \in DOMAIN now : org[id] = origin
<1> DEFINE Found(depth) == \A home \in Origins(document) :
                             Len(home[2]) <= depth => \E id \in DOMAIN now : org[id] = home
           bound == Len(origin[2])
           good == { n \in 0 .. bound : Found(n) }
<1>1. \A home \in Origins(document) : Len(home[2]) \in Nat
  BY OriginIs, PathIs
<1>2. ASSUME NEW home \in Origins(document), home \notin AllShapes(document)
      PROVE  \E id \in DOMAIN now : org[id] = home
  <2>1. PICK id \in DOMAIN document : home = << id, << >> >>
    BY <1>2 DEF Origins
  <2>2. QED
    BY <2>1 DEF Tracks
<1>3. 0 \in good
  <2>1. ASSUME NEW home \in Origins(document), Len(home[2]) <= 0
        PROVE  \E id \in DOMAIN now : org[id] = home
    <3>1. home[2] \in Paths /\ (home[2] # << >> <=> home \in AllShapes(document))
      BY OriginIs
    <3>2. home[2] = << >>
      BY <1>1, <2>1, <3>1, PathIs
    <3>3. QED
      BY <1>2, <3>1, <3>2
  <2>2. Found(0)
    BY <2>1
  <2> HIDE DEF Found
  <2>3. QED
    BY <1>1, <2>2
<1>4. ASSUME NEW n \in 0 .. bound - 1, n \in good PROVE n + 1 \in good
  <2>1. ASSUME NEW home \in Origins(document), Len(home[2]) <= n + 1
        PROVE  \E id \in DOMAIN now : org[id] = home
    <3>1. CASE home \in AllShapes(document)
      <4>1. PICK outer \in Origins(document) : \E path \in Places(TextAt(document, outer)) :
              home = In(outer, path) /\ Len(outer[2]) < Len(home[2])
        BY <3>1, Enclosed
      <4>2. Len(outer[2]) <= n
        BY <1>1, <2>1, <4>1
      <4>3. PICK id \in DOMAIN now : org[id] = outer
        BY <1>4, <4>2
      <4>4. PICK path \in Places(TextAt(document, org[id])) : home = In(org[id], path)
        BY <4>1, <4>3
      <4>5. \E other \in DOMAIN now : org[other] = In(org[id], path)
        BY <4>4 DEF Queued
      <4>6. QED
        BY <4>4, <4>5
    <3>2. QED
      BY <1>2, <3>1
  <2>2. Found(n + 1)
    BY <2>1
  <2> HIDE DEF Found
  <2>3. QED
    BY <1>1, <2>2
<1>5. good = 0 .. bound
  <2>1. bound \in Nat /\ good \in SUBSET (0 .. bound)
    BY <1>1
  <2> HIDE DEF good, bound
  <2>2. QED
    BY <1>3, <1>4, <2>1, UpTo
<1>6. Found(bound)
  <2>1. bound \in 0 .. bound
    BY <1>1
  <2> HIDE DEF bound, Found
  <2>2. QED
    BY <1>5, <2>1
<1>7. Len(origin[2]) <= bound
  BY <1>1
<1> HIDE DEF bound
<1>8. QED
  BY <1>6, <1>7

-----------------------------------------------------------------------------
(* What the models show of the text: identifiers and references.           *)

(* The root of a model is that of its text.                                *)
LEMMA RootOfModel ==
  ASSUME NEW document, IsDocument(document), NEW now, NEW org, NEW done,
         Tracks(document, now, org, done), NEW id \in DOMAIN now
  PROVE  now[id][<< >>] = TextAt(document, org[id])[<< >>]
<1> DEFINE home == org[id]
           part == TextAt(document, home)
<1>1. home \in Origins(document)
  BY OriginOfModel
<1>2. WellFormed(part)
  BY <1>1, OriginIs
<1>3. now[id] = IF id \in done THEN Walked(part, NameAt(document, home)) ELSE part
  BY DEF Tracks
<1> HIDE DEF part
<1>4. << >> \notin Places(part)
  BY DEF Places
<1>5. << >> \in DOMAIN Walked(part, NameAt(document, home))
  BY <1>2, WalkedIs
<1>6. Walked(part, NameAt(document, home))[<< >>] = part[<< >>]
  BY <1>2, <1>4, <1>5, WalkedIs
<1>7. QED
  BY <1>3, <1>6 DEF part

(* The identifier of an authored model is that of the text, and that of a  *)
(* synthesized one the name of its position.                               *)
LEMMA IdentifierOf ==
  ASSUME NEW document, IsDocument(document), NEW now, NEW org, NEW done,
         Tracks(document, now, org, done), NEW id \in DOMAIN now
  PROVE  /\ id \in DOMAIN document => Identifier(now, id) = Identifier(document, id)
         /\ id \notin DOMAIN document => Identifier(now, id) = TextName(document, org[id])
<1>1. CASE id \in DOMAIN document
  <2>1. org[id] = << id, << >> >>
    BY <1>1 DEF Tracks
  <2>2. TextAt(document, org[id]) = document[id]
    BY <2>1 DEF TextAt
  <2>3. now[id][<< >>] = document[id][<< >>]
    BY <2>2, RootOfModel
  <2>4. QED
    BY <1>1, <2>3 DEF Identifier
<1>2. CASE id \notin DOMAIN document
  <2> DEFINE home == org[id]
             schema == document[home[1]]
             path == home[2]
             name == TextName(document, home)
             part == TextAt(document, home)
  <2>1. home \in AllShapes(document) /\ home \in Origins(document) /\ id = Def(name)
    BY <1>2, OriginOfModel DEF Tracks
  <2>2. /\ path \in Paths /\ WellFormed(schema) /\ path # << >> /\ NeedsName(schema, path)
        /\ IsPart(part, schema, path)
    BY <2>1, OriginIs
  <2>3. NamesItself(schema, path) \/ name \notin DOMAIN Recased
    BY <2>1 DEF IsDocument
  <2>4. name = NameOf(schema, path, ModelName(home[1]))
    BY DEF TextName
  <2>5. now[id][<< >>] = part[<< >>]
    BY RootOfModel
  <2> HIDE DEF home, schema, path, name, part
  <2>6. part[<< >>] = Without(schema[path], StaysBehind(path))
    BY <2>2 DEF IsPart
  <2>7. Last(Def(name)) = name
    BY DEF Last, Def
  <2>8. ModelName(id) = Camel(name)
    BY <2>1, <2>7 DEF ModelName
  <2>9. CASE NamesItself(schema, path)
    <3>1. name = schema[path]["x-name"]
      <4>1. name = Named(schema, path, Front(path), NameOf(schema, Front(path), ModelName(home[1])))
        BY <2>2, <2>4, NameOfIs
      <4>2. QED
        BY <2>9, <4>1 DEF Named
    <3>2. ~ IsMember(path) /\ Has(schema[path], "x-name")
      BY <2>9 DEF NamesItself
    <3>3. StaysBehind(path) = {}
      BY <3>2 DEF StaysBehind
    <3>4. Has(part[<< >>], "x-name") /\ part[<< >>]["x-name"] = schema[path]["x-name"]
      BY <2>6, <3>2, <3>3 DEF Without, Has
    <3>5. QED
      BY <1>2, <2>5, <3>1, <3>4 DEF Identifier, home, name
  <2>10. CASE ~ NamesItself(schema, path)
    <3>1. Camel(name) = name
      BY <2>3, <2>10 DEF Camel
    <3>2. ~ Has(part[<< >>], "x-name")
      <4>1. CASE IsMember(path)
        BY <2>6, <4>1 DEF StaysBehind, Without, Has
      <4>2. CASE ~ IsMember(path)
        <5>1. ~ Has(schema[path], "x-name")
          BY <2>2, <2>10, <4>2 DEF NamesItself
        <5>2. QED
          BY <2>6, <5>1 DEF Without, Has
      <4>3. QED
        BY <4>1, <4>2
    <3>3. Identifier(now, id) = name
      BY <2>5, <2>8, <3>1, <3>2 DEF Identifier
    <3>4. QED
      BY <1>2, <3>3 DEF name, home
  <2>11. QED
    BY <2>9, <2>10
<1>3. QED
  BY <1>1, <1>2

(* A synthesized model is the only one of its shape.                       *)
LEMMA ModelOfShape ==
  ASSUME NEW document, IsDocument(document), NEW now, NEW org, NEW done,
         Tracks(document, now, org, done), NEW id \in DOMAIN now, org[id] \in AllShapes(document)
  PROVE  /\ id \in DOMAIN now \ DOMAIN document /\ id = Def(TextName(document, org[id]))
         /\ TextName(document, org[id]) # Unnamed
         /\ TextName(document, org[id]) \notin RootNames(document)
<1>1. id \notin DOMAIN document
  BY OriginOfModel
<1>2. QED
  BY <1>1 DEF Tracks

(* A reference that is not of the text leads to a synthesized model.       *)
LEMMA ReferencesLead ==
  ASSUME NEW document, IsDocument(document), NEW now, NEW org, Tracks(document, now, org, DOMAIN now),
         Queued(document, now, {}, org, DOMAIN now), NEW name \in References(now)
  PROVE  name \in References(document) \/ Def(name) \in DOMAIN now
<1>1. PICK id \in DOMAIN now : \E path \in DOMAIN now[id] :
        Has(now[id][path], "$ref") /\ name = now[id][path]["$ref"]
  BY DEF References
<1>2. PICK path \in DOMAIN now[id] : Has(now[id][path], "$ref") /\ name = now[id][path]["$ref"]
  BY <1>1
<1> DEFINE home == org[id]
           schema == document[home[1]]
           part == TextAt(document, home)
           model == NameAt(document, home)
<1>3. home \in Origins(document)
  BY OriginOfModel
<1>4. /\ WellFormed(part) /\ WellFormed(schema) /\ IsPart(part, schema, home[2])
      /\ home[1] \in DOMAIN document
  BY <1>3, OriginIs
<1>5. now[id] = Walked(part, model)
  BY DEF Tracks
<1> HIDE DEF part, model, home, schema
<1>6. CASE path \in Places(part)
  <2>1. ShapeName(part, path, model) = TextName(document, In(home, path))
        /\ In(home, path) \in AllShapes(document)
    BY <1>3, <1>6, PlaceIsShape DEF part, model
  <2>2. now[id][path] = LeftBehind(part, path, TextName(document, In(home, path)))
    BY <1>4, <1>5, <1>6, <2>1, WalkedIs
  <2>3. name = TextName(document, In(home, path))
    BY <1>2, <2>2, LeftBehindIs
  <2>4. PICK other \in DOMAIN now : org[other] = In(home, path)
    BY <1>6 DEF Queued, home, part
  <2>5. other = Def(name)
    BY <2>1, <2>3, <2>4, ModelOfShape
  <2>6. QED
    BY <2>5
<1>7. CASE path \notin Places(part)
  <2>1. path \in DOMAIN part /\ now[id][path] = part[path]
    BY <1>2, <1>4, <1>5, <1>7, WalkedIs
  <2> DEFINE there == home[2] \o path
  <2>2. there \in DOMAIN schema /\ Has(schema[there], "$ref") /\ name = schema[there]["$ref"]
    <3>1. "$ref" # "x-name"
      OBVIOUS
    <3>2. QED
      BY <1>2, <1>4, <2>1, <3>1, SameKeywords
  <2> HIDE DEF there
  <2>3. name \in { schema[p]["$ref"] : p \in { q \in DOMAIN schema : Has(schema[q], "$ref") } }
    BY <2>2
  <2>4. QED
    BY <1>4, <2>3 DEF References, schema
<1>8. QED
  BY <1>6, <1>7

(* No reference of the text is lost.                                       *)
LEMMA ReferencesStay ==
  ASSUME NEW document, IsDocument(document), ~ HidesElements(document),
         NEW now, NEW org, Tracks(document, now, org, DOMAIN now),
         Queued(document, now, {}, org, DOMAIN now), NEW name \in References(document)
  PROVE  name \in References(now)
<1>1. PICK from \in DOMAIN document : \E path \in DOMAIN document[from] :
        Has(document[from][path], "$ref") /\ name = document[from][path]["$ref"]
  BY DEF References
<1>2. PICK path \in DOMAIN document[from] :
        Has(document[from][path], "$ref") /\ name = document[from][path]["$ref"]
  BY <1>1
<1>3. PICK home \in Origins(document) : \E rest \in DOMAIN TextAt(document, home) :
        /\ In(home, rest) = << from, path >> /\ rest \notin Places(TextAt(document, home))
        /\ ~ IsBelow(rest, Places(TextAt(document, home)))
  BY Located
<1> DEFINE part == TextAt(document, home)
           schema == document[home[1]]
           model == NameAt(document, home)
<1>4. PICK rest \in DOMAIN part :
        /\ In(home, rest) = << from, path >> /\ rest \notin Places(part)
        /\ ~ IsBelow(rest, Places(part))
  BY <1>3
<1>5. WellFormed(part) /\ WellFormed(schema) /\ IsPart(part, schema, home[2])
  BY OriginIs
<1>6. home[1] = from /\ home[2] \o rest = path
  BY <1>4 DEF In
<1>7. PICK id \in DOMAIN now : org[id] = home
  BY EveryShapeFound
<1>8. now[id] = Walked(part, model)
  BY <1>7 DEF Tracks
<1> HIDE DEF part, model
<1>9. rest \in DOMAIN Walked(part, model)
  BY <1>4 DEF Walked
<1>10. Walked(part, model)[rest] = part[rest]
  BY <1>4, <1>5, <1>9, WalkedIs
<1>11. Has(part[rest], "$ref") /\ part[rest]["$ref"] = name
  <2>1. "$ref" # "x-name" /\ schema[home[2] \o rest] = document[from][path]
    BY <1>6
  <2>2. Has(part[rest], "$ref") <=> Has(schema[home[2] \o rest], "$ref")
    BY <1>5, <2>1, SameKeywords
  <2>3. Has(part[rest], "$ref") => part[rest]["$ref"] = schema[home[2] \o rest]["$ref"]
    BY <1>5, <2>1, SameKeywords
  <2>4. QED
    BY <1>2, <2>1, <2>2, <2>3
<1>12. rest \in DOMAIN now[id] /\ Has(now[id][rest], "$ref") /\ now[id][rest]["$ref"] = name
  BY <1>8, <1>9, <1>10, <1>11
<1>13. name \in { now[id][p]["$ref"] : p \in { q \in DOMAIN now[id] : Has(now[id][q], "$ref") } }
  BY <1>12
<1>14. QED
  BY <1>13 DEF References

-----------------------------------------------------------------------------
(* Why a document is rejected, judge by judge.                             *)

(* A shape that cannot be named has no name in the text.                   *)
LEMMA UnnamedHasCause ==
  ASSUME NEW document, IsDocument(document), NEW now, NEW org, NEW done,
         Tracks(document, now, org, done), NEW id \in DOMAIN now, NEW path \in Places(now[id]),
         ShapeName(now[id], path, ModelName(id)) = Unnamed
  PROVE  HasCause(document)
<1>1. id \notin done
  BY WalkOf
<1>2. In(org[id], path) \in AllShapes(document)
      /\ TextName(document, In(org[id], path)) = Unnamed
  BY <1>1, WalkOf
<1>3. QED
  BY <1>2 DEF HasCause

(* A name that is taken is that of another shape, or one of the text.      *)
LEMMA ClashHasCause ==
  ASSUME NEW document, IsDocument(document), NEW now, NEW queue, NEW org, NEW done,
         Tracks(document, now, org, done), Queued(document, now, queue, org, done),
         NEW shape \in queue, shape.name \in RootNames(now) \/ Def(shape.name) \in DOMAIN now
  PROVE  HasCause(document)
<1>1. PICK parent \in done : \E path \in Places(TextAt(document, org[parent])) :
        /\ shape = Waiting(document, parent, org[parent], path)
        /\ \A other \in DOMAIN now : org[other] # In(org[parent], path)
  BY DEF Queued
<1> DEFINE home == org[parent]
<1>2. PICK path \in Places(TextAt(document, home)) :
        /\ shape = Waiting(document, parent, home, path)
        /\ \A other \in DOMAIN now : org[other] # In(home, path)
  BY <1>1
<1> DEFINE there == In(home, path)
           name == TextName(document, there)
           keys == { id[2] : id \in { i \in DOMAIN document : i[1] \in {"def", "root"} } }
<1>3. home \in Origins(document)
  BY DEF Tracks
<1>4. there \in AllShapes(document)
  BY <1>3, PlaceIsShape
<1>5. shape.name = name
  BY <1>2 DEF Waiting
<1> HIDE DEF home, there, name
<1>6. CASE name \in keys
  BY <1>4, <1>6 DEF HasCause, name
<1>7. CASE name \notin keys
  <2>1. name \notin RootNames(now)
    <3>1. name \notin RootNames(document)
      BY <1>7 DEF RootNames
    <3>2. QED
      BY <3>1, RootsStay
  <2>2. Def(name) \in DOMAIN now
    BY <1>5, <2>1
  <2>3. Def(name) \notin DOMAIN document
    BY <1>7 DEF Def
  <2> DEFINE other == org[Def(name)]
  <2>4. /\ other \in AllShapes(document) /\ Def(name) = Def(TextName(document, other))
    BY <2>2, <2>3 DEF Tracks
  <2>5. other # there
    BY <1>2, <2>2 DEF there
  <2> HIDE DEF other
  <2>6. TextName(document, other) = name
    BY <2>4 DEF Def
  <2>7. QED
    BY <1>4, <2>4, <2>5, <2>6 DEF HasCause, name
<1>8. QED
  BY <1>6, <1>7

(* A root and a definition with one name are both of the text.             *)
LEMMA SharedNameHasCause ==
  ASSUME NEW document, IsDocument(document), NEW now, NEW org, NEW done,
         Tracks(document, now, org, done), NEW name \in RootNames(now), Def(name) \in DOMAIN now
  PROVE  HasCause(document)
<1>1. name \in RootNames(document)
  BY RootsStay
<1>2. PICK id \in DOMAIN document : id[1] = "root" /\ id[2] = name
  BY <1>1 DEF RootNames
<1>3. Def(name) \in DOMAIN document
  <2>1. SUFFICES ASSUME Def(name) \notin DOMAIN document PROVE FALSE
    OBVIOUS
  <2> DEFINE other == org[Def(name)]
  <2>2. Def(name) = Def(TextName(document, other)) /\ TextName(document, other) \notin RootNames(document)
    BY <2>1 DEF Tracks
  <2> HIDE DEF other
  <2>3. TextName(document, other) = name
    BY <2>2 DEF Def
  <2>4. QED
    BY <1>1, <2>2, <2>3
<1>4. id # Def(name)
  BY <1>2 DEF Def
<1>5. QED
  BY <1>2, <1>3, <1>4 DEF HasCause

(* A reference that leads nowhere does so in the text.                     *)
LEMMA LooseReferenceHasCause ==
  ASSUME NEW document, IsDocument(document), NEW now, NEW org, Tracks(document, now, org, DOMAIN now),
         Queued(document, now, {}, org, DOMAIN now),
         NEW name \in References(now), Def(name) \notin DOMAIN now
  PROVE  HasCause(document) \/ HidesElements(document)
<1>1. SUFFICES ASSUME ~ HidesElements(document) PROVE HasCause(document)
  OBVIOUS
<1>2. name \in References(document)
  BY ReferencesLead
<1>3. Def(name) \notin DOMAIN document
  BY DEF Tracks
<1>4. ASSUME NEW shape \in AllShapes(document) PROVE TextName(document, shape) # name
  <2>1. PICK id \in DOMAIN now : org[id] = shape
    BY <1>1, EveryShapeFound DEF Origins
  <2>2. id = Def(TextName(document, shape))
    BY <2>1, ModelOfShape
  <2>3. QED
    BY <2>2
<1>5. QED
  BY <1>2, <1>3, <1>4 DEF HasCause

(* No object that needs a name is left as the branch of a union.           *)
LEMMA BranchesAreFreeForm ==
  ASSUME NEW document, IsDocument(document), ~ HidesElements(document),
         NEW now, NEW org, Tracks(document, now, org, DOMAIN now), NEW id \in DOMAIN now,
         NEW path \in DOMAIN now[id], IsBranch(path), IsInlineObject(now[id], path)
  PROVE  IsFreeForm(now[id], path)
<1> DEFINE home == org[id]
           part == TextAt(document, home)
           model == NameAt(document, home)
<1>1. home \in Origins(document)
  BY OriginOfModel
<1>2. WellFormed(part)
  BY <1>1, OriginIs
<1>3. now[id] = Walked(part, model)
  BY DEF Tracks
<1> HIDE DEF part, model, home
<1>4. path \notin Places(part)
  <2>1. SUFFICES ASSUME path \in Places(part) PROVE FALSE
    OBVIOUS
  <2>2. now[id][path] = LeftBehind(part, path, ShapeName(part, path, model))
    BY <1>2, <1>3, <2>1, WalkedIs
  <2>3. ~ Has(now[id][path], "type")
    BY <2>2, LeftBehindIs
  <2>4. QED
    BY <2>3 DEF IsInlineObject, IsOfType
<1>5. /\ IsInlineObject(part, path)
      /\ IsFreeForm(now[id], path) <=> IsFreeForm(part, path)
  BY <1>2, <1>3, <1>4, LeftIs
<1>6. SUFFICES ASSUME ~ IsFreeForm(part, path) PROVE FALSE
  BY <1>5
<1>7. path \in DOMAIN part /\ ~ IsBelow(path, Places(part))
  BY <1>3 DEF Walked
<1>8. NeedsName(part, path)
  BY <1>5, <1>6 DEF NeedsName, IsBranch
<1>9. PICK place \in Places(part) : IsPrefix(place, path)
  BY <1>1, <1>7, <1>8, PlaceAbove DEF part
<1>10. QED
  BY <1>4, <1>7, <1>9 DEF IsBelow

(* Two models with one identifier: two of the text, or one of the text and *)
(* a shape.                                                                *)
LEMMA SharedIdentifierHasCause ==
  ASSUME NEW document, IsDocument(document), NEW now, NEW org, NEW done,
         Tracks(document, now, org, done), NEW one \in DOMAIN now, NEW other \in DOMAIN now,
         one # other, Identifier(now, one) = Identifier(now, other)
  PROVE  HasCause(document)
<1>1. ASSUME NEW a \in DOMAIN document, NEW b \in DOMAIN now \ DOMAIN document,
             Identifier(now, a) = Identifier(now, b)
      PROVE  HasCause(document)
  <2>1. a \in DOMAIN now
    BY DEF Tracks
  <2>2. Identifier(document, a) = TextName(document, org[b])
    BY <1>1, <2>1, IdentifierOf
  <2>3. org[b] \in AllShapes(document)
    BY DEF Tracks
  <2>4. QED
    BY <2>2, <2>3 DEF HasCause
<1>2. CASE one \in DOMAIN document /\ other \in DOMAIN document
  <2>1. Identifier(document, one) = Identifier(document, other)
    BY <1>2, IdentifierOf
  <2>2. QED
    BY <1>2, <2>1 DEF HasCause
<1>3. CASE one \notin DOMAIN document /\ other \notin DOMAIN document
  <2>1. TextName(document, org[one]) = TextName(document, org[other])
    BY <1>3, IdentifierOf
  <2>2. one = Def(TextName(document, org[one])) /\ other = Def(TextName(document, org[other]))
    BY <1>3 DEF Tracks
  <2>3. QED
    BY <2>1, <2>2
<1>4. QED
  BY <1>1, <1>2, <1>3

-----------------------------------------------------------------------------
(* What an accepted document is.                                           *)

(* Its definitions are one for every shape, and each has what the text has *)
(* there.                                                                  *)
LEMMA AcceptedIsNamed ==
  ASSUME NEW document, IsDocument(document), ~ HidesElements(document),
         NEW now, NEW org, Tracks(document, now, org, DOMAIN now),
         Queued(document, now, {}, org, DOMAIN now)
  PROVE  /\ DOMAIN now \ DOMAIN document = { Def(TextName(document, shape)) : shape \in AllShapes(document) }
         /\ \A id \in DOMAIN document : now[id] = Part(document, << id, << >> >>)
         /\ \A shape \in AllShapes(document) :
              now[Def(TextName(document, shape))] = Part(document, shape)
<1>1. ASSUME NEW id \in DOMAIN now PROVE now[id] = Part(document, org[id])
  <2>1. org[id] \in Origins(document)
    BY OriginOfModel
  <2>2. now[id] = Walked(TextAt(document, org[id]), NameAt(document, org[id]))
    BY DEF Tracks
  <2> DEFINE home == org[id]
  <2> HIDE DEF home
  <2>3. Walked(TextAt(document, home), NameAt(document, home)) = Part(document, home)
    BY <2>1, WalkedIsPart DEF home
  <2>4. QED
    BY <2>2, <2>3 DEF home
<1>2. ASSUME NEW shape \in AllShapes(document)
      PROVE  /\ Def(TextName(document, shape)) \in DOMAIN now \ DOMAIN document
             /\ now[Def(TextName(document, shape))] = Part(document, shape)
  <2>1. PICK id \in DOMAIN now : org[id] = shape
    BY EveryShapeFound DEF Origins
  <2>2. id \in DOMAIN now \ DOMAIN document /\ id = Def(TextName(document, shape))
    BY <2>1, ModelOfShape
  <2>3. QED
    BY <1>1, <2>1, <2>2
<1>3. ASSUME NEW id \in DOMAIN now \ DOMAIN document
      PROVE  id \in { Def(TextName(document, shape)) : shape \in AllShapes(document) }
  BY DEF Tracks
<1>4. ASSUME NEW id \in DOMAIN document PROVE now[id] = Part(document, << id, << >> >>)
  <2>1. id \in DOMAIN now /\ org[id] = << id, << >> >>
    BY DEF Tracks
  <2>2. QED
    BY <1>1, <2>1
<1>5. QED
  BY <1>2, <1>3, <1>4

(* Nothing in its text is a cause to reject it.                            *)
LEMMA AcceptedHasNoCause ==
  ASSUME NEW document, IsDocument(document), ~ HidesElements(document),
         NEW now, NEW org, Tracks(document, now, org, DOMAIN now),
         Queued(document, now, {}, org, DOMAIN now),
         \A name \in RootNames(now) : Def(name) \notin DOMAIN now,
         \A name \in References(now) : Def(name) \in DOMAIN now,
         \A one, other \in DOMAIN now : one # other => Identifier(now, one) # Identifier(now, other)
  PROVE  ~ HasCause(document)
<1> DEFINE Name(shape) == TextName(document, shape)
           keys == { id[2] : id \in { i \in DOMAIN document : i[1] \in {"def", "root"} } }
<1>1. ASSUME NEW shape \in AllShapes(document)
      PROVE  /\ Def(Name(shape)) \in DOMAIN now \ DOMAIN document /\ org[Def(Name(shape))] = shape
             /\ Name(shape) # Unnamed /\ Name(shape) \notin RootNames(document)
  <2>1. PICK id \in DOMAIN now : org[id] = shape
    BY EveryShapeFound DEF Origins
  <2>2. /\ id \in DOMAIN now \ DOMAIN document /\ id = Def(Name(shape))
        /\ Name(shape) # Unnamed /\ Name(shape) \notin RootNames(document)
    BY <2>1, ModelOfShape
  <2>3. QED
    BY <2>1, <2>2
<1>2. DOMAIN document \subseteq DOMAIN now
  BY DEF Tracks
<1> HIDE DEF Name
<1>3. ASSUME NEW one \in AllShapes(document), NEW other \in AllShapes(document), Name(one) = Name(other)
      PROVE  one = other
  BY <1>1, <1>3
<1>4. ASSUME NEW shape \in AllShapes(document) PROVE Name(shape) \notin keys
  <2>1. SUFFICES ASSUME Name(shape) \in keys PROVE FALSE
    OBVIOUS
  <2>2. PICK id \in DOMAIN document : id[1] \in {"def", "root"} /\ id[2] = Name(shape)
    BY <2>1
  <2>3. CASE id[1] = "def"
    <3>1. id = Def(Name(shape))
      BY <2>2, <2>3 DEF IsDocument
    <3>2. QED
      BY <1>1, <3>1
  <2>4. CASE id[1] = "root"
    <3>1. Name(shape) \in RootNames(document)
      BY <2>2, <2>4 DEF RootNames
    <3>2. QED
      BY <1>1, <3>1
  <2>5. QED
    BY <2>2, <2>3, <2>4
<1>5. ASSUME NEW shape \in AllShapes(document), NEW id \in DOMAIN document
      PROVE  Name(shape) # Identifier(document, id)
  <2> DEFINE new == Def(Name(shape))
  <2>1. new \in DOMAIN now \ DOMAIN document /\ org[new] = shape
    BY <1>1
  <2> HIDE DEF new
  <2>2. Identifier(now, new) = Name(shape) /\ Identifier(now, id) = Identifier(document, id)
    BY <1>2, <2>1, IdentifierOf DEF Name
  <2>3. new # id /\ id \in DOMAIN now
    BY <1>2, <2>1
  <2>4. QED
    BY <2>1, <2>2, <2>3
<1>6. ASSUME NEW one \in DOMAIN document, NEW other \in DOMAIN document, one # other
      PROVE  /\ Identifier(document, one) # Identifier(document, other)
             /\ ~ (one[1] = "root" /\ other = Def(one[2]))
  <2>1. one \in DOMAIN now /\ other \in DOMAIN now
    BY <1>2
  <2>2. Identifier(now, one) = Identifier(document, one)
        /\ Identifier(now, other) = Identifier(document, other)
    BY <2>1, IdentifierOf
  <2>3. one[1] = "root" => one[2] \in RootNames(now)
    BY <2>1 DEF RootNames
  <2>4. QED
    BY <1>6, <2>1, <2>2, <2>3
<1>7. ASSUME NEW name \in References(document), Def(name) \notin DOMAIN document
      PROVE  \E shape \in AllShapes(document) : Name(shape) = name
  <2>1. Def(name) \in DOMAIN now
    BY ReferencesStay
  <2>2. org[Def(name)] \in AllShapes(document) /\ Def(name) = Def(Name(org[Def(name)]))
    BY <1>7, <2>1 DEF Tracks, Name
  <2>3. Name(org[Def(name)]) = name
    BY <2>2 DEF Def
  <2>4. QED
    BY <2>2, <2>3
<1>8. QED
  BY <1>1, <1>3, <1>4, <1>5, <1>6, <1>7 DEF HasCause, Name

-----------------------------------------------------------------------------
(* The invariant is inductive.                                             *)

(* A document starts as its own text, with nothing walked.                 *)
LEMMA InitHoists == Init => IInv
<1> SUFFICES ASSUME Init PROVE IInv
  OBVIOUS
<1> DEFINE org == [ id \in DOMAIN authored |-> << id, << >> >> ]
<1>1. IsDocument(authored)
  BY DocumentsAssumption, NamesAssumption DEF Init, IsDocument
<1>2. /\ models = authored /\ hoisted = {} /\ unwalked = DOMAIN authored /\ outcome = "walking"
  BY DEF Init
<1>3. /\ DOMAIN org = DOMAIN authored /\ org \in [ DOMAIN authored -> Origins(authored) ]
      /\ \A id \in DOMAIN authored : org[id] = << id, << >> >>
  BY DEF Origins
<1> HIDE DEF org
<1>4. \A id \in DOMAIN authored : TextAt(authored, org[id]) = authored[id]
  BY <1>3 DEF TextAt
<1>5. Tracks(authored, models, org, {})
  BY <1>2, <1>3, <1>4 DEF Tracks
<1>6. Queued(authored, models, hoisted, org, {})
  BY <1>2 DEF Queued
<1>7. Judged(authored, models, unwalked, hoisted, outcome, {})
  BY <1>2 DEF Judged
<1>8. QED
  BY <1>1, <1>5, <1>6, <1>7 DEF IInv

(* A walk: of a model that is new, or of one from which nothing is left to *)
(* take out.                                                               *)
LEMMA WalkHoists ==
  ASSUME IInv, NEW id \in unwalked, WalkModel(id)
  PROVE  IInv'
<1>1. PICK org, done : /\ Tracks(authored, models, org, done)
                       /\ Queued(authored, models, hoisted, org, done)
                       /\ Judged(authored, models, unwalked, hoisted, outcome, done)
  BY DEF IInv
<1>2. IsDocument(authored)
  BY DEF IInv
<1>3. id \in DOMAIN models /\ outcome = "walking" /\ DOMAIN models \ done \subseteq unwalked
  BY <1>1 DEF Judged, WalkModel
<1>4. /\ \A path \in Places(models[id]) : ShapeName(models[id], path, ModelName(id)) # Unnamed
      /\ models' = [ models EXCEPT ![id] = Walked(models[id], ModelName(id)) ]
      /\ hoisted' = hoisted \cup { [ name |-> ShapeName(models[id], path, ModelName(id)),
                                     origin |-> << id, path >>,
                                     schema |-> TakenOut(models[id], path) ] : path \in Places(models[id]) }
      /\ unwalked' = unwalked \ {id} /\ authored' = authored /\ outcome' = outcome
  BY DEF WalkModel
<1>5. /\ DOMAIN models' = DOMAIN models /\ models'[id] = Walked(models[id], ModelName(id))
      /\ \A i \in DOMAIN models \ {id} : models'[i] = models[i]
  BY <1>3, <1>4
<1> DEFINE longer == done \cup {id}
<1>6. Tracks(authored, models', org, longer) /\ Queued(authored, models', hoisted', org, longer)
  <2>1. CASE id \notin done
    BY <1>1, <1>2, <1>3, <1>4, <2>1, WalkKeeps
  <2>2. CASE id \in done
    <3>1. Places(models[id]) = {} /\ Walked(models[id], ModelName(id)) = models[id]
      BY <1>1, <1>2, <1>3, <2>2, WalkOf
    <3>2. hoisted' = hoisted
      BY <1>4, <3>1
    <3>3. \A i \in DOMAIN models : models'[i] = models[i]
      BY <1>5, <3>1
    <3>4. longer = done
      BY <2>2
    <3>5. Tracks(authored, models', org, done)
      BY <1>1, <1>5, <3>3 DEF Tracks
    <3>6. Queued(authored, models', hoisted', org, done)
      BY <1>1, <1>5, <3>2 DEF Queued
    <3> HIDE DEF longer
    <3>7. QED
      BY <3>4, <3>5, <3>6
  <2>3. QED
    BY <2>1, <2>2
<1>7. Judged(authored, models', unwalked', hoisted', outcome', longer)
  BY <1>1, <1>3, <1>4, <1>5 DEF Judged
<1> HIDE DEF longer
<1>8. QED
  BY <1>2, <1>4, <1>6, <1>7 DEF IInv

(* An inserted shape is a model that comes from its position.              *)
LEMMA InsertHoists ==
  ASSUME IInv, NEW shape \in hoisted, InsertShape(shape)
  PROVE  IInv'
<1>1. PICK org, done : /\ Tracks(authored, models, org, done)
                       /\ Queued(authored, models, hoisted, org, done)
                       /\ Judged(authored, models, unwalked, hoisted, outcome, done)
  BY DEF IInv
<1>2. IsDocument(authored)
  BY DEF IInv
<1>3. /\ shape.name \notin RootNames(models) /\ Def(shape.name) \notin DOMAIN models
      /\ models' = [ id \in DOMAIN models \cup {Def(shape.name)} |->
                       IF id = Def(shape.name) THEN shape.schema ELSE models[id] ]
      /\ hoisted' = hoisted \ {shape} /\ authored' = authored /\ unwalked' = unwalked
      /\ outcome = "inserting" /\ outcome' = outcome
  BY DEF InsertShape, Clashes
<1>4. PICK longer : /\ Tracks(authored, models', longer, done)
                    /\ Queued(authored, models', hoisted', longer, done)
  BY <1>1, <1>2, <1>3, InsertKeeps
<1>5. DOMAIN models \subseteq DOMAIN models'
  BY <1>3
<1>6. Judged(authored, models', unwalked', hoisted', outcome', done)
  BY <1>1, <1>3, <1>5 DEF Judged
<1>7. QED
  BY <1>2, <1>3, <1>4, <1>6 DEF IInv

(* The steps that only move on or judge.                                   *)
LEMMA JudgesHoist ==
  ASSUME IInv,
         \/ \E id \in unwalked : RejectUnnamed(id)
         \/ EndPass \/ NextPass \/ CollectModels \/ ValidateModels \/ BuildNames
         \/ \E shape \in hoisted : RejectClash(shape)
  PROVE  IInv'
<1>1. PICK org, done : /\ Tracks(authored, models, org, done)
                       /\ Queued(authored, models, hoisted, org, done)
                       /\ Judged(authored, models, unwalked, hoisted, outcome, done)
  BY DEF IInv
<1>2. IsDocument(authored)
  BY DEF IInv
<1>3. authored' = authored /\ models' = models /\ hoisted' = hoisted
  BY DEF RejectUnnamed, EndPass, NextPass, CollectModels, ValidateModels, BuildNames, RejectClash, Judge
<1>4. Tracks(authored, models, org, done)' /\ Queued(authored, models, hoisted, org, done)'
      /\ IsDocument(authored)'
  BY <1>1, <1>2, <1>3
<1>5. DOMAIN models \subseteq DOMAIN models /\ done \subseteq DOMAIN models /\ unwalked \subseteq DOMAIN models
  BY <1>1 DEF Tracks, Judged
<1>6. outcome \in {"hoisted", "collected", "valid"} =>
        Tracks(authored, models, org, DOMAIN models) /\ Queued(authored, models, {}, org, DOMAIN models)
  BY <1>1 DEF Judged
<1>7. SUFFICES Judged(authored, models, unwalked', hoisted, outcome', done)
  BY <1>3, <1>4 DEF IInv
<1>8. CASE \E id \in unwalked : RejectUnnamed(id)
  <2>1. PICK id \in unwalked : RejectUnnamed(id)
    BY <1>8
  <2>2. HasCause(authored)
    BY <1>1, <1>2, <1>5, <2>1, UnnamedHasCause DEF RejectUnnamed
  <2>3. QED
    BY <1>5, <2>1, <2>2 DEF RejectUnnamed, Judged
<1>9. CASE \E shape \in hoisted : RejectClash(shape)
  <2>1. PICK shape \in hoisted : RejectClash(shape)
    BY <1>9
  <2>2. HasCause(authored)
    BY <1>1, <1>2, <2>1, ClashHasCause DEF RejectClash, Clashes
  <2>3. QED
    BY <1>5, <2>1, <2>2 DEF RejectClash, Judged
<1>10. CASE EndPass
  <2>1. unwalked = {} /\ outcome = "walking" /\ unwalked' = unwalked
        /\ outcome' = IF hoisted = {} THEN "hoisted" ELSE "inserting"
    BY <1>10 DEF EndPass
  <2>2. done = DOMAIN models
    BY <1>1, <1>5, <2>1 DEF Judged
  <2>3. QED
    BY <1>5, <2>1, <2>2 DEF Judged
<1>11. CASE NextPass
  <2>1. outcome' = "walking" /\ unwalked' = DOMAIN models
    BY <1>11 DEF NextPass
  <2>2. QED
    BY <2>1 DEF Judged
<1>12. CASE CollectModels
  <2>1. outcome = "hoisted" /\ unwalked' = unwalked
        /\ outcome' = IF \A name \in RootNames(models) : Def(name) \notin DOMAIN models
                      THEN "collected" ELSE "rejected"
    BY <1>12 DEF CollectModels, Judge
  <2>2. (\E name \in RootNames(models) : Def(name) \in DOMAIN models) => HasCause(authored)
    BY <1>1, <1>2, SharedNameHasCause
  <2>3. QED
    BY <1>1, <2>1, <2>2 DEF Judged
<1>13. CASE ValidateModels
  <2> DEFINE Lead == \A name \in References(models) : Def(name) \in DOMAIN models
             Open == \A id \in DOMAIN models : \A path \in DOMAIN models[id] :
                       IsBranch(path) /\ IsInlineObject(models[id], path) => IsFreeForm(models[id], path)
  <2>1. outcome = "collected" /\ unwalked' = unwalked
        /\ outcome' = IF Lead /\ Open THEN "valid" ELSE "rejected"
    BY <1>13 DEF ValidateModels, Judge
  <2>2. ~ Lead => HasCause(authored) \/ HidesElements(authored)
    BY <1>2, <1>6, <2>1, LooseReferenceHasCause
  <2>3. ~ Open => HidesElements(authored)
    BY <1>2, <1>6, <2>1, BranchesAreFreeForm
  <2>4. (Lead /\ Open) \/ HasCause(authored) \/ HidesElements(authored)
    BY <2>2, <2>3
  <2>5. Lead <=> \A name \in References(models) : Def(name) \in DOMAIN models
    OBVIOUS
  <2> HIDE DEF Lead, Open
  <2>6. QED
    BY <1>1, <2>1, <2>4, <2>5 DEF Judged
<1>14. CASE BuildNames
  <2> DEFINE Apart == \A one, other \in DOMAIN models :
                        one # other => Identifier(models, one) # Identifier(models, other)
  <2>1. outcome = "valid" /\ unwalked' = unwalked
        /\ outcome' = IF Apart THEN "accepted" ELSE "rejected"
    BY <1>14 DEF BuildNames, Judge
  <2>2. ~ Apart => HasCause(authored)
    BY <1>1, <1>2, SharedIdentifierHasCause
  <2>3. Apart <=> \A one, other \in DOMAIN models :
                    one # other => Identifier(models, one) # Identifier(models, other)
    OBVIOUS
  <2> HIDE DEF Apart
  <2>4. QED
    BY <1>1, <2>1, <2>2, <2>3 DEF Judged
<1>15. QED
  BY <1>8, <1>9, <1>10, <1>11, <1>12, <1>13, <1>14

(* No step loses the invariant.                                            *)
LEMMA StepHoists == IInv /\ [Next]_vars => IInv'
<1> SUFFICES ASSUME IInv, [Next]_vars PROVE IInv'
  OBVIOUS
<1>1. CASE UNCHANGED vars
  BY <1>1 DEF vars, IInv
<1>2. CASE \E id \in unwalked : WalkModel(id)
  BY <1>2, WalkHoists
<1>3. CASE \E shape \in hoisted : InsertShape(shape)
  BY <1>3, InsertHoists
<1>4. CASE \/ \E id \in unwalked : RejectUnnamed(id)
           \/ EndPass \/ NextPass \/ CollectModels \/ ValidateModels \/ BuildNames
           \/ \E shape \in hoisted : RejectClash(shape)
  BY <1>4, JudgesHoist
<1>5. QED
  BY <1>1, <1>2, <1>3, <1>4 DEF Next

-----------------------------------------------------------------------------
(* The theorems.                                                           *)

(* Every model comes from one place of the text, at every step.            *)
THEOREM OriginsAreKept == Spec => []IInv
<1>1. Init => IInv
  BY InitHoists
<1>2. IInv /\ [Next]_vars => IInv'
  BY StepHoists
<1>3. QED
  BY <1>1, <1>2, PTL DEF Spec

(* A waiting shape is an object or a union, and the reference to it has    *)
(* been left behind.                                                       *)
LEMMA WaitingShape ==
  ASSUME IInv, NEW shape \in hoisted
  PROVE  /\ shape.name # Unnamed
         /\ IsInlineObject(shape.schema, << >>) \/ IsSumType(shape.schema, << >>)
         /\ Has(models[shape.origin[1]][shape.origin[2]], "$ref")
<1>1. PICK org, done : /\ Tracks(authored, models, org, done)
                       /\ Queued(authored, models, hoisted, org, done)
  BY DEF IInv
<1>2. IsDocument(authored)
  BY DEF IInv
<1>3. PICK id \in done : \E path \in Places(TextAt(authored, org[id])) :
        shape = Waiting(authored, id, org[id], path) /\ shape.name # Unnamed
  BY <1>1 DEF Queued
<1> DEFINE home == org[id]
           part == TextAt(authored, home)
           model == NameAt(authored, home)
<1>4. PICK path \in Places(part) : shape = Waiting(authored, id, home, path) /\ shape.name # Unnamed
  BY <1>3
<1>5. home \in Origins(authored) /\ models[id] = Walked(part, model)
  BY <1>1 DEF Tracks
<1>6. WellFormed(part)
  BY <1>2, <1>5, OriginIs
<1> HIDE DEF home
<1> DEFINE there == In(home, path)
           schema == authored[there[1]]
           taken == TextAt(authored, there)
<1>7. there \in AllShapes(authored) /\ there \in Origins(authored)
  BY <1>2, <1>5, PlaceIsShape DEF Origins
<1>8. shape.schema = taken /\ shape.origin = << id, path >>
  BY <1>4 DEF Waiting
<1> HIDE DEF there, part, model
<1>9. /\ WellFormed(schema) /\ there[2] \in DOMAIN schema /\ there[2] \in Paths
      /\ IsPart(taken, schema, there[2]) /\ WellFormed(taken) /\ NeedsName(schema, there[2])
  BY <1>2, <1>7, OriginIs
<1> HIDE DEF schema, taken
<1>10. IsInlineObject(schema, there[2]) \/ IsSumType(schema, there[2])
  BY <1>9, ShapesAreNotNullable
<1>11. << >> \in DOMAIN taken /\ there[2] \o << >> = there[2]
  <2>1. << >> \in DOMAIN taken
    BY <1>9, Positions
  <2>2. << >> \in Paths
    BY EmptySeq DEF Paths
  <2>3. QED
    BY <1>9, <2>1, <2>2, JoinIs
<1>12. IsInlineObject(taken, << >>) <=> IsInlineObject(schema, there[2] \o << >>)
  BY <1>9, <1>11, SameType
<1>13. IsSumType(taken, << >>) <=> IsSumType(schema, there[2] \o << >>)
  BY <1>9, <1>11, SameSumType
<1>14. Has(models[id][path], "$ref")
  <2>1. models[id][path] = LeftBehind(part, path, ShapeName(part, path, model))
    BY <1>5, <1>6, WalkedIs DEF part
  <2>2. QED
    BY <2>1, LeftBehindIs
<1>15. QED
  BY <1>4, <1>8, <1>10, <1>11, <1>12, <1>13, <1>14

(* Every shape that waits has a name and is one that needs it, with its    *)
(* reference in its place.                                                 *)
THEOREM Typing == Spec => []TypeOK
<1>1. IInv => TypeOK
  <2> SUFFICES ASSUME IInv PROVE TypeOK
    OBVIOUS
  <2>1. PICK org, done : /\ Tracks(authored, models, org, done)
                         /\ Judged(authored, models, unwalked, hoisted, outcome, done)
    BY DEF IInv
  <2>2. DOMAIN authored \subseteq DOMAIN models
    BY <2>1 DEF Tracks
  <2>3. QED
    BY <2>1, <2>2, WaitingShape DEF TypeOK, Judged
<1>2. QED
  BY <1>1, OriginsAreKept, PTL

(* A document is rejected for something its text shows.                    *)
THEOREM RejectedSoundly == Spec => []RejectedForCause
<1>1. IInv => RejectedForCause
  BY DEF IInv, Judged, RejectedForCause
<1>2. QED
  BY <1>1, OriginsAreKept, PTL

(* An accepted document has a definition for every shape that needs a      *)
(* name, named after its position, and no other.                           *)
THEOREM NamedByPosition == Spec => []EveryShapeHasItsPositionsName
<1>1. IInv => EveryShapeHasItsPositionsName
  <2> SUFFICES ASSUME IInv, outcome = "accepted", ~ HidesElements(authored)
               PROVE  /\ ~ HasCause(authored)
                      /\ Synthesized = { Def(TextName(authored, shape)) : shape \in AllShapes(authored) }
                      /\ \A id \in DOMAIN authored : models[id] = Part(authored, << id, << >> >>)
                      /\ \A shape \in AllShapes(authored) :
                           models[Def(TextName(authored, shape))] = Part(authored, shape)
    BY DEF EveryShapeHasItsPositionsName
  <2>1. PICK org, done : /\ Tracks(authored, models, org, done)
                         /\ Queued(authored, models, hoisted, org, done)
                         /\ Judged(authored, models, unwalked, hoisted, outcome, done)
    BY DEF IInv
  <2>2. IsDocument(authored)
    BY DEF IInv
  <2>3. /\ done = DOMAIN models /\ hoisted = {}
        /\ \A name \in RootNames(models) : Def(name) \notin DOMAIN models
        /\ \A name \in References(models) : Def(name) \in DOMAIN models
        /\ \A one, other \in DOMAIN models :
             one # other => Identifier(models, one) # Identifier(models, other)
    BY <2>1 DEF Judged
  <2>4. Tracks(authored, models, org, DOMAIN models)
        /\ Queued(authored, models, {}, org, DOMAIN models)
    BY <2>1, <2>3
  <2>5. ~ HasCause(authored)
    BY <2>2, <2>3, <2>4, AcceptedHasNoCause
  <2>6. QED
    BY <2>2, <2>4, <2>5, AcceptedIsNamed DEF Synthesized
<1>2. QED
  BY <1>1, OriginsAreKept, PTL

=============================================================================
