-------------------------- MODULE ConfigFileProofs --------------------------
(***************************************************************************)
(* Theorems about ConfigFile for files of any length and any options: what *)
(* configParse gets by searching and terminating strings in its buffer is  *)
(* what the lines of the two files say.                                    *)
(***************************************************************************)
EXTENDS ConfigFile, Integers, SequenceTheorems, WellFoundedInduction, TLAPS

-----------------------------------------------------------------------------
(* Minima and maxima                                                       *)

LessOnNat == {ss \in Nat \X Nat : ss[1] < ss[2]}

\* Every set of natural numbers that is not empty has a least element.
LEMMA LeastElement ==
    ASSUME NEW S \in SUBSET Nat, S # {}
    PROVE  \E x \in S : \A y \in S : x <= y
  <1>1. IsWellFoundedOn(LessOnNat, Nat)
    BY NatLessThanWellFounded DEF OpToRel, LessOnNat
  <1>2. PICK x \in S : \A y \in S : ~ (<<y, x>> \in LessOnNat)
    BY <1>1, WFMin
  <1>3. \A y \in S : ~ (y < x)
    BY <1>2 DEF LessOnNat
  <1> QED
    BY <1>3

LEMMA MinIn ==
    ASSUME NEW S \in SUBSET Nat, S # {}
    PROVE  Min(S) \in S /\ \A y \in S : Min(S) <= y
  BY LeastElement DEF Min

LEMMA MinIs ==
    ASSUME NEW S \in SUBSET Int, NEW x \in S, \A y \in S : x <= y
    PROVE  Min(S) = x
  <1>1. \A y \in S : (\A z \in S : y <= z) => y = x
    OBVIOUS
  <1> QED
    BY <1>1 DEF Min

LEMMA MaxIs ==
    ASSUME NEW S \in SUBSET Int, NEW x \in S, \A y \in S : y <= x
    PROVE  Max(S) = x
  <1>1. \A y \in S : (\A z \in S : y >= z) => y = x
    OBVIOUS
  <1> QED
    BY <1>1 DEF Max

\* A bounded set that is not empty has a greatest element: the least distance from
\* the bound.
LEMMA MaxIn ==
    ASSUME NEW n \in Nat, NEW S \in SUBSET (0..n), S # {}
    PROVE  Max(S) \in S /\ \A y \in S : y <= Max(S)
  <1> DEFINE T == {n - y : y \in S}
  <1>1. T \in SUBSET Nat /\ T # {}
    OBVIOUS
  <1>2. PICK t \in T : \A u \in T : t <= u
    BY <1>1, LeastElement
  <1>3. PICK x \in S : t = n - x
    OBVIOUS
  <1>4. \A y \in S : y <= x
    <2> TAKE y \in S
    <2>1. n - x <= n - y
      BY <1>2, <1>3
    <2> QED
      BY <2>1
  <1> QED
    BY <1>3, <1>4, MaxIs

-----------------------------------------------------------------------------
(* Strings in a buffer of n characters, the byte before it and its end     *)

\* What a buffer holds: the characters of files, and those this module writes.
Char == STRING \cup {NL, SP, HASH, EQ, NUL, "byte"}

LEMMA Characters ==
    /\ NL \notin {SP, HASH, EQ, NUL} /\ SP \notin {HASH, EQ, NUL} /\ HASH \notin {EQ, NUL} /\ EQ # NUL
    /\ NUL \in Char /\ "byte" \in Char /\ STRING \subseteq Char
    /\ Space = {SP, NL} /\ "byte" \notin Space /\ {NUL, HASH, EQ} \cap Space = {}
  BY DEF Char, NL, SP, HASH, EQ, NUL, Space

Buffer(b, n) == b \in [0..(n + 1) -> Char] /\ b[n + 1] = NUL /\ b[0] \notin Space

LEMMA FirstFromFacts ==
    ASSUME NEW n \in Nat, NEW b, Buffer(b, n), NEW chars, NUL \in chars, NEW i \in 0..(n + 1)
    PROVE  /\ FirstFrom(b, i, chars) \in i..(n + 1)
           /\ b[FirstFrom(b, i, chars)] \in chars
           /\ \A k \in i..(FirstFrom(b, i, chars) - 1) : b[k] \notin chars
  <1> DEFINE S == {j \in DOMAIN b : j >= i /\ b[j] \in chars}
  <1>1. DOMAIN b = 0..(n + 1) /\ n + 1 \in S
    BY DEF Buffer
  <1>2. S \in SUBSET Nat
    BY <1>1
  <1>3. Min(S) \in S /\ \A y \in S : Min(S) <= y
    BY <1>1, <1>2, MinIn
  <1>4. FirstFrom(b, i, chars) = Min(S)
    BY DEF FirstFrom
  <1> HIDE DEF S
  <1>5. Min(S) \in i..(n + 1) /\ b[Min(S)] \in chars
    BY <1>1, <1>3 DEF S
  <1>6. ASSUME NEW k \in i..(Min(S) - 1), b[k] \in chars PROVE FALSE
    <2>1. k \in S
      BY <1>1, <1>5, <1>6 DEF S
    <2> QED
      BY <1>3, <1>5, <2>1
  <1> QED
    BY <1>4, <1>5, <1>6

\* FirstFrom is the place whose character is sought if none before it is.
LEMMA FirstFromIs ==
    ASSUME NEW n \in Nat, NEW b, Buffer(b, n), NEW chars, NUL \in chars,
           NEW i \in 0..(n + 1), NEW z \in i..(n + 1),
           b[z] \in chars, \A k \in i..(z - 1) : b[k] \notin chars
    PROVE  FirstFrom(b, i, chars) = z
  <1> DEFINE j == FirstFrom(b, i, chars)
  <1>1. j \in i..(n + 1) /\ b[j] \in chars /\ \A k \in i..(j - 1) : b[k] \notin chars
    BY FirstFromFacts
  <1> HIDE DEF j
  <1>2. ~ (j < z) /\ ~ (z < j)
    BY <1>1
  <1>3. j = z
    BY <1>1, <1>2
  <1> QED
    BY <1>3 DEF j

LEMMA StartOfFacts ==
    ASSUME NEW n \in Nat, NEW b, Buffer(b, n), NEW i \in 0..(n + 1)
    PROVE  /\ StartOf(b, i) \in i..(n + 1)
           /\ b[StartOf(b, i)] \notin Space
           /\ \A k \in i..(StartOf(b, i) - 1) : b[k] \in Space
  <1> DEFINE S == {j \in DOMAIN b : j >= i /\ b[j] \notin Space}
  <1>1. DOMAIN b = 0..(n + 1) /\ n + 1 \in S
    BY Characters DEF Buffer
  <1>2. S \in SUBSET Nat
    BY <1>1
  <1>3. Min(S) \in S /\ \A y \in S : Min(S) <= y
    BY <1>1, <1>2, MinIn
  <1>4. StartOf(b, i) = Min(S)
    BY DEF StartOf
  <1> HIDE DEF S
  <1>5. Min(S) \in i..(n + 1) /\ b[Min(S)] \notin Space
    BY <1>1, <1>3 DEF S
  <1>6. ASSUME NEW k \in i..(Min(S) - 1), b[k] \notin Space PROVE FALSE
    <2>1. k \in S
      BY <1>1, <1>5, <1>6 DEF S
    <2> QED
      BY <1>3, <1>5, <2>1
  <1> QED
    BY <1>4, <1>5, <1>6

\* A string of the buffer from i to its end at z.
StringAt(b, i, z) == b[z] = NUL /\ \A k \in i..(z - 1) : b[k] # NUL

\* configTrim: the string begins at its first character that is no space, and gets its
\* end behind its last one; of a string of spaces, the end is at or before its start.
LEMMA TrimFacts ==
    ASSUME NEW n \in Nat, NEW b, Buffer(b, n),
           NEW z \in 1..(n + 1), NEW i \in 1..z, StringAt(b, i, z)
    PROVE  /\ StartOf(b, i) \in i..z
           /\ b[StartOf(b, i)] \notin Space
           /\ \A k \in i..(StartOf(b, i) - 1) : b[k] \in Space
           /\ LastOf(b, i) \in 0..(z - 1)
           /\ b[LastOf(b, i)] \notin Space
           /\ \A k \in (LastOf(b, i) + 1)..(z - 1) : b[k] \in Space
           /\ StartOf(b, i) = z => LastOf(b, i) < i
           /\ StartOf(b, i) < z => LastOf(b, i) \in StartOf(b, i)..(z - 1)
           /\ Buffer(Trimmed(b, i), n)
           /\ Trimmed(b, i)[LastOf(b, i) + 1] = NUL
           /\ \A k \in 0..(n + 1) : k # LastOf(b, i) + 1 => Trimmed(b, i)[k] = b[k]
  <1> DEFINE s == StartOf(b, i)
             l == LastOf(b, i)
             S == {j \in DOMAIN b : j < z /\ b[j] \notin Space}
  <1>1. s \in i..(n + 1) /\ b[s] \notin Space /\ \A k \in i..(s - 1) : b[k] \in Space
    BY StartOfFacts
  <1>2. s \in i..z
    <2>1. ~ (z < s)
      BY <1>1, Characters DEF StringAt
    <2> QED
      BY <1>1, <2>1
  <1>3. EndOf(b, s) = z
    <2>1. b[z] \in {NUL} /\ \A k \in s..(z - 1) : b[k] \notin {NUL}
      BY <1>2 DEF StringAt
    <2>2. s \in 0..(n + 1) /\ z \in s..(n + 1)
      BY <1>2
    <2> HIDE DEF s
    <2>3. FirstFrom(b, s, {NUL}) = z
      BY <2>1, <2>2, FirstFromIs
    <2> QED
      BY <2>3 DEF EndOf
  <1>4. l = Max(S)
    BY <1>3 DEF LastOf
  <1>5. DOMAIN b = 0..(n + 1) /\ 0 \in S /\ S \in SUBSET (0..n)
    BY DEF Buffer
  <1>6. Max(S) \in S /\ \A y \in S : y <= Max(S)
    BY <1>5, MaxIn
  <1>7. l \in 0..(z - 1) /\ b[l] \notin Space
    BY <1>4, <1>5, <1>6
  <1> HIDE DEF s, l
  <1>8. ASSUME NEW k \in (l + 1)..(z - 1), b[k] \notin Space PROVE FALSE
    <2>1. k \in S
      BY <1>5, <1>7, <1>8
    <2> QED
      BY <1>4, <1>6, <1>7, <2>1
  <1>9. s = z => l < i
    BY <1>1, <1>2, <1>7
  <1>10. s < z => l \in s..(z - 1)
    BY <1>1, <1>2, <1>7, <1>8
  <1>11. /\ Trimmed(b, i) = [b EXCEPT ![l + 1] = NUL]
         /\ l + 1 \in 1..(n + 1)
    BY <1>7 DEF Trimmed, Ended, l
  <1>12. /\ Buffer(Trimmed(b, i), n)
         /\ Trimmed(b, i)[l + 1] = NUL
         /\ \A k \in 0..(n + 1) : k # l + 1 => Trimmed(b, i)[k] = b[k]
    BY <1>11, Characters DEF Buffer
  <1> QED
    BY <1>1, <1>2, <1>7, <1>8, <1>9, <1>10, <1>12 DEF s, l

LEMMA EndedFacts ==
    ASSUME NEW n \in Nat, NEW b, Buffer(b, n), NEW i \in 1..(n + 1)
    PROVE  /\ Buffer(Ended(b, i), n)
           /\ Ended(b, i)[i] = NUL
           /\ \A k \in 0..(n + 1) : k # i => Ended(b, i)[k] = b[k]
  BY Characters DEF Buffer, Ended

-----------------------------------------------------------------------------
(* Parts of a file                                                         *)

IsPart(f, a, b) == f \in Seq(Char) /\ a \in 1..(Len(f) + 1) /\ b \in (a - 1)..Len(f)

LEMMA PartFacts ==
    ASSUME NEW f, NEW a, NEW b, IsPart(f, a, b)
    PROVE  /\ Part(f, a, b) \in Seq(Char)
           /\ Len(f) \in Nat /\ a \in Nat /\ b \in Nat
           /\ Len(Part(f, a, b)) = b - a + 1
           /\ \A k \in 1..(b - a + 1) : Part(f, a, b)[k] = f[a + k - 1]
           /\ b < a => Part(f, a, b) = <<>>
  <1>1. Len(f) \in Nat /\ a \in Nat \ {0} /\ b \in Nat /\ a - 1 <= b /\ b <= Len(f)
    BY LenProperties DEF IsPart
  <1>2. \A k \in a..b : f[k] \in Char
    BY <1>1, ElementOfSeq DEF IsPart
  <1>3. /\ SubSeq(f, a, b) \in Seq(Char)
        /\ Len(SubSeq(f, a, b)) = IF a <= b THEN b - a + 1 ELSE 0
        /\ \A k \in 1..(b - a + 1) : SubSeq(f, a, b)[k] = f[a + k - 1]
    BY <1>1, <1>2, SubSeqProperties
  <1>4. b < a => SubSeq(f, a, b) = <<>>
    BY <1>1, SubSeqEmpty
  <1> QED
    BY <1>1, <1>3, <1>4 DEF Part

LEMMA PartOfPart ==
    ASSUME NEW f, NEW a, NEW b, IsPart(f, a, b),
           NEW x \in a..(b + 1), NEW y \in (x - 1)..b
    PROVE  Part(Part(f, a, b), x - a + 1, y - a + 1) = Part(f, x, y)
  <1> DEFINE p == Part(f, a, b)
             u == x - a + 1
             v == y - a + 1
  <1>1. /\ p \in Seq(Char) /\ Len(p) = b - a + 1
        /\ Len(f) \in Nat /\ a \in Nat \ {0} /\ b \in Nat /\ a - 1 <= b /\ b <= Len(f)
        /\ \A k \in 1..(b - a + 1) : p[k] = f[a + k - 1]
    <2>1. a \in Nat \ {0} /\ a - 1 <= b /\ b <= Len(f)
      BY PartFacts, LenProperties DEF IsPart
    <2>2. p \in Seq(Char) /\ Len(p) = b - a + 1 /\ Len(f) \in Nat /\ b \in Nat
      BY PartFacts
    <2>3. \A k \in 1..(b - a + 1) : p[k] = f[a + k - 1]
      BY PartFacts
    <2> QED
      BY <2>1, <2>2, <2>3
  <1>2. u \in 1..(b - a + 2) /\ v \in (u - 1)..(b - a + 1) /\ v - u + 1 = y - x + 1 /\ a + u = x + 1
    BY <1>1
  <1> HIDE DEF p, u, v
  <1>3. IsPart(p, u, v) /\ IsPart(f, x, y)
    BY <1>2, <1>1 DEF IsPart
  <1> DEFINE l == Part(p, u, v)
             r == Part(f, x, y)
  <1>4. /\ l \in Seq(Char) /\ Len(l) = y - x + 1
        /\ \A k \in 1..(y - x + 1) : l[k] = p[u + k - 1]
    <2>1. /\ l \in Seq(Char) /\ Len(l) = v - u + 1
          /\ \A k \in 1..(v - u + 1) : l[k] = p[u + k - 1]
      BY <1>3, PartFacts
    <2> HIDE DEF l
    <2> QED
      BY <1>2, <2>1
  <1>5. /\ r \in Seq(Char) /\ Len(r) = y - x + 1
        /\ \A k \in 1..(y - x + 1) : r[k] = f[x + k - 1]
    <2>1. ASSUME NEW c, NEW d, IsPart(f, c, d)
          PROVE  /\ Part(f, c, d) \in Seq(Char) /\ Len(Part(f, c, d)) = d - c + 1
                 /\ \A k \in 1..(d - c + 1) : Part(f, c, d)[k] = f[c + k - 1]
      BY <2>1, PartFacts
    <2>2. IsPart(f, x, y)
      BY <1>3
    <2> QED
      BY <2>1, <2>2
  <1>6. \A k \in 1..(y - x + 1) : p[u + k - 1] = f[x + k - 1]
    <2> TAKE k \in 1..(y - x + 1)
    <2> DEFINE m == u + k - 1
    <2>1. m \in 1..(b - a + 1) /\ a + m - 1 = x + k - 1
      BY <1>2, <1>1
    <2> HIDE DEF m
    <2>2. p[m] = f[x + k - 1]
      BY <1>1, <2>1
    <2> QED
      BY <2>2 DEF m
  <1> HIDE DEF l, r
  <1>7. l = r
    <2>1. \A k \in 1..Len(l) : l[k] = r[k]
      BY <1>4, <1>5, <1>6
    <2> QED
      BY <1>4, <1>5, <2>1, SeqEqual
  <1> QED
    BY <1>7 DEF l, r, p, u, v

\* Nothing is left of a part of spaces.
LEMMA StrippedBlank ==
    ASSUME NEW f, NEW a, NEW b, IsPart(f, a, b), \A k \in a..b : f[k] = SP
    PROVE  Stripped(Part(f, a, b)) = <<>>
  <1> DEFINE p == Part(f, a, b)
  <1>1. /\ p \in Seq(Char) /\ Len(p) = b - a + 1 /\ a \in Nat /\ b \in Nat
        /\ \A k \in 1..(b - a + 1) : p[k] = f[a + k - 1]
    BY PartFacts
  <1>2. DOMAIN p = 1..(b - a + 1)
    BY <1>1, LenProperties
  <1> HIDE DEF p
  <1>3. {k \in DOMAIN p : p[k] # SP} = {}
    <2> SUFFICES ASSUME NEW k \in 1..(b - a + 1) PROVE p[k] = SP
      BY <1>2
    <2>1. a + k - 1 \in a..b
      BY <1>1
    <2> QED
      BY <1>1, <2>1
  <1> QED
    BY <1>3 DEF Stripped, p

\* What is left begins and ends with the first and the last character that is no space.
LEMMA StrippedSolid ==
    ASSUME NEW f, NEW a, NEW b, IsPart(f, a, b),
           NEW x \in a..b, NEW y \in x..b, f[x] # SP, f[y] # SP,
           \A k \in a..(x - 1) : f[k] = SP, \A k \in (y + 1)..b : f[k] = SP
    PROVE  Stripped(Part(f, a, b)) = Part(f, x, y)
  <1> DEFINE p == Part(f, a, b)
             u == x - a + 1
             v == y - a + 1
             S == {k \in DOMAIN p : p[k] # SP}
  <1>1. /\ p \in Seq(Char) /\ Len(p) = b - a + 1 /\ a \in Nat /\ b \in Nat
        /\ \A k \in 1..(b - a + 1) : p[k] = f[a + k - 1]
    BY PartFacts
  <1>2. DOMAIN p = 1..(b - a + 1)
    BY <1>1, LenProperties
  <1>3. Part(p, u, v) = Part(f, x, y)
    <2>1. x \in a..(b + 1) /\ y \in (x - 1)..b
      BY <1>1
    <2> QED
      BY <2>1, PartOfPart
  <1> HIDE DEF p
  <1>4. ASSUME NEW k \in a..b PROVE k - a + 1 \in 1..(b - a + 1) /\ p[k - a + 1] = f[k]
    <2> DEFINE m == k - a + 1
    <2>1. m \in 1..(b - a + 1) /\ a + m - 1 = k
      BY <1>1
    <2> HIDE DEF m
    <2>2. p[m] = f[k]
      BY <1>1, <2>1
    <2> QED
      BY <2>1, <2>2 DEF m
  <1>5. u \in S /\ v \in S /\ S \in SUBSET Int
    <2>1. x \in a..b /\ y \in a..b
      BY <1>1
    <2> QED
      BY <1>2, <1>4, <2>1
  <1>6. ASSUME NEW k \in S PROVE u <= k /\ k <= v
    <2>1. a + k - 1 \in a..b /\ f[a + k - 1] # SP
      BY <1>1, <1>2, <1>6
    <2>2. x <= a + k - 1 /\ a + k - 1 <= y
      BY <1>1, <2>1
    <2> QED
      BY <1>1, <1>2, <1>6, <2>2
  <1> HIDE DEF S, u, v
  <1>7. Min(S) = u /\ Max(S) = v
    BY <1>5, <1>6, MinIs, MaxIs
  <1>8. Stripped(p) = Part(p, Min(S), Max(S))
    BY <1>5 DEF Stripped, S
  <1> QED
    BY <1>3, <1>7, <1>8 DEF p

\* The part before the first place z of a character, or the whole part.
LEMMA UptoIs ==
    ASSUME NEW f, NEW a, NEW b, IsPart(f, a, b), NEW c,
           NEW z \in a..(b + 1), z <= b => f[z] = c, \A k \in a..(z - 1) : f[k] # c
    PROVE  Upto(Part(f, a, b), c) = Part(f, a, z - 1)
  <1> DEFINE p == Part(f, a, b)
             w == z - a + 1
             S == {k \in DOMAIN p : p[k] = c} \cup {Len(p) + 1}
  <1>1. /\ p \in Seq(Char) /\ Len(p) = b - a + 1 /\ a \in Nat /\ b \in Nat
        /\ \A k \in 1..(b - a + 1) : p[k] = f[a + k - 1]
    BY PartFacts
  <1>2. DOMAIN p = 1..(b - a + 1)
    BY <1>1, LenProperties
  <1>3. Part(p, a - a + 1, (z - 1) - a + 1) = Part(f, a, z - 1)
    <2>1. IsPart(f, a, b) /\ a \in a..(b + 1) /\ z - 1 \in (a - 1)..b
      BY <1>1 DEF IsPart
    <2> QED
      BY <2>1, PartOfPart
  <1> HIDE DEF p
  <1>4. w \in S /\ S \in SUBSET Int
    <2>1. CASE z = b + 1
      BY <1>1, <1>2, <2>1
    <2>2. CASE z # b + 1
      <3>1. w \in 1..(b - a + 1) /\ a + w - 1 = z /\ z <= b
        BY <1>1, <2>2
      <3> HIDE DEF w
      <3>2. p[w] = c
        BY <1>1, <3>1
      <3> QED
        BY <1>1, <1>2, <3>1, <3>2
    <2> QED
      BY <2>1, <2>2
  <1>5. ASSUME NEW k \in S PROVE w <= k
    <2>1. CASE k = b - a + 2
      BY <1>1, <2>1
    <2>2. CASE k # b - a + 2
      <3>1. k \in 1..(b - a + 1) /\ p[k] = c
        BY <1>1, <1>2, <2>2
      <3>2. a + k - 1 \in a..b /\ f[a + k - 1] = c
        BY <1>1, <3>1
      <3> QED
        BY <1>1, <3>1, <3>2
    <2> QED
      BY <2>1, <2>2
  <1> HIDE DEF S, w
  <1>6. Min(S) = w
    BY <1>4, <1>5, MinIs
  <1>7. Upto(p, c) = Part(p, 1, w - 1)
    BY <1>6 DEF Upto, S
  <1>8. a - a + 1 = 1 /\ (z - 1) - a + 1 = w - 1
    BY <1>1 DEF w
  <1> QED
    BY <1>3, <1>7, <1>8 DEF p

\* A string of the buffer that has the characters of the file is a part of it.
LEMMA StringIs ==
    ASSUME NEW f, NEW n, f \in Seq(Char), n = Len(f), NEW b, Buffer(b, n),
           NEW i \in 1..(n + 1), NEW z \in i..(n + 1), StringAt(b, i, z),
           \A k \in i..(z - 1) : b[k] = f[k]
    PROVE  String(b, i) = Part(f, i, z - 1)
  <1>1. n \in Nat /\ IsPart(f, i, z - 1) /\ i \in Nat /\ z \in Nat
    BY LenProperties DEF IsPart
  <1>2. b[z] \in {NUL} /\ \A k \in i..(z - 1) : b[k] \notin {NUL}
    BY DEF StringAt
  <1>3. EndOf(b, i) = z
    <2>1. NUL \in {NUL} /\ i \in 0..(n + 1)
      BY <1>1
    <2>2. FirstFrom(b, i, {NUL}) = z
      BY <1>1, <1>2, <2>1, FirstFromIs
    <2> QED
      BY <2>2 DEF EndOf
  <1> DEFINE g == [j \in 1..(z - i) |-> b[i + j - 1]]
             p == Part(f, i, z - 1)
  <1>4. /\ p \in Seq(Char) /\ Len(p) = z - i
        /\ \A k \in 1..(z - i) : p[k] = f[i + k - 1]
    <2>1. /\ p \in Seq(Char) /\ Len(p) = (z - 1) - i + 1
          /\ \A k \in 1..((z - 1) - i + 1) : p[k] = f[i + k - 1]
      <3> DEFINE y == z - 1
      <3>1. IsPart(f, i, y)
        BY <1>1
      <3> HIDE DEF y
      <3>2. /\ Part(f, i, y) \in Seq(Char) /\ Len(Part(f, i, y)) = y - i + 1
            /\ \A k \in 1..(y - i + 1) : Part(f, i, y)[k] = f[i + k - 1]
        BY SMTT(30), <3>1, PartFacts
      <3> QED
        BY <3>2 DEF y
    <2>2. (z - 1) - i + 1 = z - i
      BY <1>1
    <2> HIDE DEF p
    <2> QED
      BY <2>1, <2>2
  <1>5. p \in [1..(z - i) -> Char]
    BY <1>4, LenProperties
  <1> HIDE DEF p
  <1>6. \A k \in 1..(z - i) : g[k] = p[k]
    <2> TAKE k \in 1..(z - i)
    <2>1. i + k - 1 \in i..(z - 1)
      BY <1>1
    <2>2. g[k] = b[i + k - 1]
      OBVIOUS
    <2> QED
      BY <1>4, <2>1, <2>2
  <1>7. g = p
    BY <1>5, <1>6
  <1> QED
    BY <1>3, <1>7 DEF String, p
-----------------------------------------------------------------------------
(* Cutting and trimming in the buffer is cutting and trimming of the file  *)

IsText(f) == f \in Seq(STRING \ {NUL})

LEMMA TextChars ==
    ASSUME NEW f, IsText(f)
    PROVE  /\ f \in Seq(Char) /\ Len(f) \in Nat
           /\ \A k \in 1..Len(f) : f[k] \in STRING /\ f[k] # NUL
  <1>1. Len(f) \in Nat /\ f \in [1..Len(f) -> STRING \ {NUL}]
    BY LenProperties DEF IsText
  <1>2. STRING \ {NUL} \subseteq Char
    BY Characters
  <1>3. f \in Seq(Char)
    BY <1>2 DEF IsText
  <1> QED
    BY <1>1, <1>3

\* The buffer has the file's characters from i as a string that ends at z.
Has(f, b, i, z) ==
    /\ z \in 1..(Len(f) + 1) /\ i \in 1..z
    /\ b[z] = NUL /\ \A k \in i..(z - 1) : b[k] = f[k]

\* Terminators were written into buffer b, not behind z.
Cut(c, b, n, z) ==
    \A k \in 0..(n + 1) : c[k] = b[k] \/ (k <= z /\ c[k] = NUL)

LEMMA HasFacts ==
    ASSUME NEW f, IsText(f), NEW n, n = Len(f), NEW b, NEW i, NEW z, Has(f, b, i, z)
    PROVE  /\ n \in Nat /\ i \in Nat /\ z \in Nat /\ 1 <= i /\ i <= z /\ z <= n + 1
           /\ StringAt(b, i, z) /\ \A k \in i..(z - 1) : b[k] = f[k] /\ f[k] # NUL
           /\ IsPart(f, i, z - 1) /\ f \in Seq(Char)
  <1>1. n \in Nat /\ \A k \in 1..n : f[k] # NUL
    BY TextChars
  <1>2. f \in Seq(Char)
    BY TextChars
  <1>3. /\ i \in Nat /\ z \in Nat /\ 1 <= i /\ i <= z /\ z <= n + 1
        /\ b[z] = NUL /\ \A k \in i..(z - 1) : b[k] = f[k]
    BY <1>1 DEF Has
  <1>4. \A k \in i..(z - 1) : b[k] = f[k] /\ f[k] # NUL
    BY <1>1, <1>3
  <1>5. StringAt(b, i, z)
    BY <1>3, <1>4 DEF StringAt
  <1>6. IsPart(f, i, z - 1)
    BY <1>1, <1>2, <1>3 DEF IsPart
  <1> QED
    BY <1>1, <1>2, <1>3, <1>4, <1>5, <1>6

LEMMA StringHas ==
    ASSUME NEW f, IsText(f), NEW n, n = Len(f), NEW b, Buffer(b, n), NEW i, NEW z, Has(f, b, i, z)
    PROVE  String(b, i) = Part(f, i, z - 1)
  <1>1. /\ n \in Nat /\ i \in Nat /\ z \in Nat /\ 1 <= i /\ i <= z /\ z <= n + 1
        /\ StringAt(b, i, z) /\ \A k \in i..(z - 1) : b[k] = f[k]
        /\ f \in Seq(Char)
    BY HasFacts
  <1>2. i \in 1..(n + 1) /\ z \in i..(n + 1)
    BY <1>1
  <1> QED
    BY <1>1, <1>2, StringIs

\* To end a string at the first of some characters is to take the part up to it.
CutAt(f, b, i, z, c, h) ==
    /\ h \in i..z /\ Has(f, Ended(b, h), i, h)
    /\ Upto(Part(f, i, z - 1), c) = Part(f, i, h - 1)
    /\ h < z => f[h] = c /\ b[h] = c
    /\ Buffer(Ended(b, h), Len(f)) /\ Cut(Ended(b, h), b, Len(f), z)
    /\ \A k \in (h + 1)..(Len(f) + 1) : Ended(b, h)[k] = b[k]

LEMMA CutIs ==
    ASSUME NEW f, IsText(f), NEW n, n = Len(f), NEW b, Buffer(b, n), NEW i, NEW z, Has(f, b, i, z),
           NEW c, c # NUL
    PROVE  CutAt(f, b, i, z, c, FirstFrom(b, i, {c, NUL}))
  <1> DEFINE h == FirstFrom(b, i, {c, NUL})
  <1>1. /\ n \in Nat /\ i \in Nat /\ z \in Nat /\ 1 <= i /\ i <= z /\ z <= n + 1
        /\ StringAt(b, i, z) /\ \A k \in i..(z - 1) : b[k] = f[k] /\ f[k] # NUL
        /\ IsPart(f, i, z - 1) /\ b[z] = NUL
    BY HasFacts DEF StringAt
  <1>2. h \in i..(n + 1) /\ b[h] \in {c, NUL} /\ \A k \in i..(h - 1) : b[k] \notin {c, NUL}
    <2>1. i \in 0..(n + 1) /\ NUL \in {c, NUL}
      BY <1>1
    <2> QED
      BY <1>1, <2>1, FirstFromFacts
  <1> HIDE DEF h
  <1>3. h \in i..z
    BY <1>1, <1>2
  <1>4. h < z => f[h] = c /\ b[h] = c
    BY <1>1, <1>2, <1>3
  <1>5. \A k \in i..(h - 1) : f[k] # c /\ b[k] = f[k]
    BY <1>1, <1>2, <1>3
  <1>6. Upto(Part(f, i, z - 1), c) = Part(f, i, h - 1)
    <2>1. h \in i..((z - 1) + 1) /\ (h <= z - 1 => f[h] = c)
      BY <1>1, <1>3, <1>4
    <2> QED
      BY <1>1, <1>5, <2>1, UptoIs
  <1>7. /\ Buffer(Ended(b, h), n) /\ Ended(b, h)[h] = NUL
        /\ \A k \in 0..(n + 1) : k # h => Ended(b, h)[k] = b[k]
    <2>1. h \in 1..(n + 1)
      BY <1>1, <1>3
    <2> QED
      BY <1>1, <2>1, EndedFacts
  <1>8. Cut(Ended(b, h), b, n, z)
    BY <1>1, <1>3, <1>7 DEF Cut
  <1>9. Has(f, Ended(b, h), i, h)
    <2>1. \A k \in i..(h - 1) : Ended(b, h)[k] = f[k]
      BY <1>1, <1>3, <1>5, <1>7
    <2> QED
      BY <1>1, <1>3, <1>7, <2>1 DEF Has
  <1>10. \A k \in (h + 1)..(n + 1) : Ended(b, h)[k] = b[k]
    BY <1>1, <1>3, <1>7
  <1> QED
    BY <1>3, <1>4, <1>6, <1>7, <1>8, <1>9, <1>10 DEF h, CutAt

\* To trim a string of a line is to strip that part of the file.
TrimmedTo(f, b, i, z, y) ==
    LET s == StartOf(b, i)
        t == Trimmed(b, i)
    IN  /\ y \in s..z /\ Has(f, t, s, y)
        /\ Stripped(Part(f, i, z - 1)) = Part(f, s, y - 1)
        /\ s \in i..z
        /\ IF s = z THEN y = s /\ \A k \in i..(z - 1) : f[k] = SP
           ELSE y > s /\ f[s] \notin Space
        /\ i < z /\ f[i] \notin Space => s = i
        /\ Buffer(t, Len(f)) /\ Cut(t, b, Len(f), z)
        /\ \A k \in (z + 1)..(Len(f) + 1) : t[k] = b[k]
        /\ LastOf(b, i) = 0 => s = z /\ \A k \in 1..(z - 1) : b[k] \in Space

LEMMA TrimIs ==
    ASSUME NEW f, IsText(f), NEW n, n = Len(f), NEW b, Buffer(b, n), NEW i, NEW z, Has(f, b, i, z),
           \A k \in i..(z - 1) : f[k] # NL
    PROVE  \E y \in 1..z : TrimmedTo(f, b, i, z, y)
  <1> DEFINE s == StartOf(b, i)
             l == LastOf(b, i)
             t == Trimmed(b, i)
             y == IF s = z THEN s ELSE l + 1
  <1>1. /\ n \in Nat /\ i \in Nat /\ z \in Nat /\ 1 <= i /\ i <= z /\ z <= n + 1
        /\ StringAt(b, i, z) /\ \A k \in i..(z - 1) : b[k] = f[k] /\ f[k] # NUL
        /\ IsPart(f, i, z - 1) /\ b[z] = NUL
    BY HasFacts DEF StringAt
  <1>2. /\ s \in i..z /\ b[s] \notin Space /\ \A k \in i..(s - 1) : b[k] \in Space
        /\ l \in 0..(z - 1) /\ b[l] \notin Space /\ \A k \in (l + 1)..(z - 1) : b[k] \in Space
        /\ s = z => l < i
        /\ s < z => l \in s..(z - 1)
        /\ Buffer(t, n) /\ t[l + 1] = NUL
        /\ \A k \in 0..(n + 1) : k # l + 1 => t[k] = b[k]
    <2>1. z \in 1..(n + 1) /\ i \in 1..z
      BY <1>1
    <2> QED
      BY <1>1, <2>1, TrimFacts
  <1> HIDE DEF s, l, t
  <1>3. \A k \in i..(z - 1) : b[k] \in Space => f[k] = SP
    BY <1>1, Characters
  <1>4. CASE s = z
    <2>1. \A k \in i..(z - 1) : f[k] = SP
      BY <1>1, <1>2, <1>3, <1>4
    <2>2. Stripped(Part(f, i, z - 1)) = <<>>
      BY <1>1, <2>1, StrippedBlank
    <2>3. IsPart(f, s, s - 1) /\ s - 1 < s
      BY <1>1, <1>4 DEF IsPart
    <2>4. Part(f, s, s - 1) = <<>>
      BY <2>3, PartFacts
    <2>5. t[z] = NUL
      BY <1>1, <1>2
    <2>6. Has(f, t, s, s)
      BY <1>1, <1>4, <2>5 DEF Has
    <2>7. Cut(t, b, n, z) /\ \A k \in (z + 1)..(n + 1) : t[k] = b[k]
      BY <1>1, <1>2 DEF Cut
    <2>8. i < z /\ f[i] \notin Space => s = i
      BY <1>1, <2>1, Characters
    <2>9. l = 0 => \A k \in 1..(z - 1) : b[k] \in Space
      BY <1>2
    <2>10. s \in s..z /\ s \in 1..z
      BY <1>1, <1>4
    <2>11. TrimmedTo(f, b, i, z, s)
      BY <1>2, <1>4, <2>1, <2>2, <2>4, <2>6, <2>7, <2>8, <2>9, <2>10 DEF TrimmedTo, s, l, t
    <2> QED
      BY <2>10, <2>11
  <1>5. CASE s < z
    <2>1. l \in s..(z - 1) /\ s \in i..(z - 1)
      BY <1>1, <1>2, <1>5
    <2>2. /\ f[s] \notin Space /\ f[s] # SP /\ f[l] # SP
          /\ \A k \in i..(s - 1) : f[k] = SP
          /\ \A k \in (l + 1)..(z - 1) : f[k] = SP
      BY <1>1, <1>2, <1>3, <2>1, Characters
    <2>3. Stripped(Part(f, i, z - 1)) = Part(f, s, l)
      <3>1. IsPart(f, i, z - 1)
        BY <1>1
      <3> QED
        BY <2>1, <2>2, <3>1, StrippedSolid
    <2>4. Has(f, t, s, l + 1)
      <3>1. \A k \in s..l : t[k] = f[k]
        BY <1>1, <1>2, <2>1
      <3> QED
        BY <1>1, <1>2, <2>1, <3>1 DEF Has
    <2>5. Cut(t, b, n, z) /\ \A k \in (z + 1)..(n + 1) : t[k] = b[k]
      BY SMTT(30), <1>1, <1>2, <2>1 DEF Cut
    <2>6. i < z /\ f[i] \notin Space => s = i
      BY <1>1, <2>1, <2>2, Characters
    <2>7. l # 0 /\ s # z /\ l + 1 \in s..z /\ l + 1 > s /\ l + 1 \in 1..z /\ (l + 1) - 1 = l
      BY <1>1, <2>1
    <2>8. TrimmedTo(f, b, i, z, l + 1)
      BY <1>2, <2>2, <2>3, <2>4, <2>5, <2>6, <2>7 DEF TrimmedTo, s, l, t
    <2> QED
      BY <2>7, <2>8
  <1>6. s = z \/ s < z
    BY <1>1, <1>2
  <1> QED
    BY <1>4, <1>5, <1>6

-----------------------------------------------------------------------------
(* The lines of a file                                                     *)

LEMMA EndsFacts ==
    ASSUME NEW f, IsText(f), NEW n, n = Len(f)
    PROVE  /\ n \in Nat /\ Ends(f) \in SUBSET (1..(n + 1)) /\ n + 1 \in Ends(f)
           /\ \A e \in 1..n : e \in Ends(f) <=> f[e] = NL
           /\ Statements(f) \subseteq Ends(f)
  <1>1. n \in Nat /\ f \in Seq(Char)
    BY TextChars
  <1>2. DOMAIN f = 1..n
    BY <1>1, LenProperties
  <1>3. Ends(f) = {e \in 1..n : f[e] = NL} \cup {n + 1}
    BY <1>2 DEF Ends
  <1>4. Statements(f) \subseteq Ends(f)
    BY DEF Statements
  <1> QED
    BY <1>1, <1>3, <1>4

LEMMA LineIs ==
    ASSUME NEW f, IsText(f), NEW n, n = Len(f), NEW e \in 1..(n + 1), NEW j \in 1..e,
           j = 1 \/ f[j - 1] = NL, e = n + 1 \/ f[e] = NL, \A k \in j..(e - 1) : f[k] # NL
    PROVE  e \in Ends(f) /\ Line(f, e) = Part(f, j, e - 1)
  <1>1. /\ n \in Nat /\ Ends(f) \in SUBSET (1..(n + 1)) /\ n + 1 \in Ends(f)
        /\ \A k \in 1..n : k \in Ends(f) <=> f[k] = NL
    BY EndsFacts
  <1>2. e \in Ends(f)
    BY <1>1
  <1> DEFINE S == {0} \cup {i \in Ends(f) : i < e}
  <1>3. S \in SUBSET Int
    BY <1>1
  <1>4. j - 1 \in S
    <2>1. CASE j = 1
      BY <2>1
    <2>2. CASE j # 1
      <3>1. j - 1 \in 1..n /\ j - 1 < e /\ f[j - 1] = NL
        BY <1>1, <2>2
      <3> QED
        BY <1>1, <3>1
    <2> QED
      BY <2>1, <2>2
  <1>5. ASSUME NEW i \in S PROVE i <= j - 1
    <2>1. CASE i = 0
      BY <1>1, <2>1
    <2>2. CASE i # 0
      <3>1. i \in Ends(f) /\ i < e /\ i \in 1..n
        BY <1>1, <2>2
      <3>2. ~ (i \in j..(e - 1))
        BY <1>1, <3>1
      <3> QED
        BY <1>1, <3>1, <3>2
    <2> QED
      BY <2>1, <2>2
  <1> HIDE DEF S
  <1>6. Max(S) = j - 1
    BY <1>3, <1>4, <1>5, MaxIs
  <1>7. (j - 1) + 1 = j
    BY <1>1
  <1>8. Line(f, e) = Part(f, (j - 1) + 1, e - 1)
    BY <1>6 DEF Line, S
  <1> QED
    BY <1>2, <1>7, <1>8

\* A line without a character is no statement.
LEMMA NoStatement ==
    ASSUME NEW f, IsText(f), NEW n, n = Len(f), NEW e \in Ends(f), e = 1 \/ f[e - 1] = NL
    PROVE  e \notin Statements(f)
  <1>1. /\ n \in Nat /\ e \in 1..(n + 1) /\ e \in 1..e /\ (e = n + 1 \/ f[e] = NL)
        /\ \A k \in e..(e - 1) : f[k] # NL
    BY EndsFacts
  <1>2. Line(f, e) = Part(f, e, e - 1)
    BY <1>1, LineIs
  <1>3. f \in Seq(Char)
    BY TextChars
  <1>4. IsPart(f, e, e - 1) /\ \A k \in e..(e - 1) : f[k] = SP /\ f[k] # HASH
    BY <1>1, <1>3 DEF IsPart
  <1>5. Upto(Part(f, e, e - 1), HASH) = Part(f, e, e - 1)
    <2>1. e \in e..((e - 1) + 1) /\ ~ (e <= e - 1)
      BY <1>1
    <2> QED
      BY <1>4, <2>1, UptoIs
  <1>6. Stripped(Part(f, e, e - 1)) = <<>>
    BY <1>4, StrippedBlank
  <1> QED
    BY <1>2, <1>5, <1>6 DEF Statements, Statement

-----------------------------------------------------------------------------
(* The inductive invariant                                                 *)

Defaults == [k \in Keys |-> Default]
Text(file) == IF file = Missing THEN <<>> ELSE file

Reading == pc \in {"read global", "read local"}
Current == Text(IF pc = "read global" THEN global ELSE local)
Given == IF pc = "read global" THEN Defaults ELSE Said(Defaults, global)

\* From next on the buffer has the rest of the file; the last line was ended before it.
Rest(f) ==
    /\ Buffer(buf, Len(f)) /\ next \in 0..(Len(f) + 1)
    /\ next # 0 => \A k \in next..Len(f) : buf[k] = f[k]
    /\ next > 1 => buf[next - 1] = NUL /\ f[next - 1] = NL

\* The statements of the lines that were read.
Done(f) == {e \in Statements(f) : next = 0 \/ e < next}

TypeInv ==
    /\ home \in BOOLEAN
    /\ global \in GlobalFiles \cup {Missing} /\ local \in LocalFiles \cup {Missing}
    /\ pc \in {"global", "read global", "read local", "started", "failed", "stopped"}

\* The options are those of the statements that were read, and these are good.
SetInv ==
    /\ pc = "global" => settings = Defaults
    /\ Reading => /\ Rest(Current)
                  /\ Given # Refused
                  /\ \A e \in Done(Current) : IsGood(Statement(Current, e))
                  /\ settings = Set(Given, Current, Done(Current))
    /\ pc = "read local" => home

IInv == TypeInv /\ SetInv /\ AsWritten

\* strtok's next line: its start and end, the line ends it skips, and where it continues.
LineRead(f, j, e) ==
    /\ next \in 1..Len(f) /\ j \in next..Len(f) /\ e \in (j + 1)..(Len(f) + 1)
    /\ \A k \in j..(e - 1) : buf[k] = f[k] /\ f[k] # NL
    /\ \A k \in next..(j - 1) : f[k] = NL
    /\ j = 1 \/ f[j - 1] = NL
    /\ next = 1 \/ f[next - 1] = NL
    /\ IF e = Len(f) + 1 THEN buf[e] = NUL ELSE buf[e] = NL /\ f[e] = NL

LEMMA LineStartFacts ==
    ASSUME NEW f, IsText(f), Rest(f), next # 0
    PROVE  LET j == Min({k \in DOMAIN buf : k >= next /\ buf[k] # NL})
           IN  /\ j \in next..(Len(f) + 1) /\ buf[j] # NL
               /\ \A k \in next..(j - 1) : f[k] = NL
               /\ buf[j] = NUL <=> j = Len(f) + 1
               /\ LineStart = IF buf[j] = NUL THEN 0 ELSE j
  <1> DEFINE n == Len(f)
             S == {k \in DOMAIN buf : k >= next /\ buf[k] # NL}
  <1>1. n \in Nat /\ \A k \in 1..n : f[k] # NUL
    BY TextChars
  <1>2. /\ next \in 1..(n + 1) /\ \A k \in next..n : buf[k] = f[k]
        /\ DOMAIN buf = 0..(n + 1) /\ buf[n + 1] = NUL
    BY <1>1 DEF Rest, Buffer
  <1> HIDE DEF n
  <1>3. S \in SUBSET Nat /\ n + 1 \in S
    BY <1>1, <1>2, Characters
  <1>4. Min(S) \in S /\ \A y \in S : Min(S) <= y
    BY <1>3, MinIn
  <1>5. Min(S) \in next..(n + 1) /\ buf[Min(S)] # NL
    BY <1>1, <1>2, <1>3, <1>4
  <1>6. ASSUME NEW k \in next..(Min(S) - 1) PROVE f[k] = NL
    <2>1. k \notin S /\ k \in next..n
      <3> HIDE DEF S
      <3>1. k \in next..n /\ ~ (Min(S) <= k)
        BY <1>1, <1>2, <1>5
      <3> QED
        BY <1>4, <3>1
    <2>2. k \in DOMAIN buf /\ k >= next
      BY <1>1, <1>2, <2>1
    <2>3. buf[k] = NL
      BY <2>1, <2>2
    <2> QED
      BY <1>2, <2>1, <2>3
  <1> DEFINE j == Min(S)
  <1>7. LineStart = IF buf[j] = NUL THEN 0 ELSE j
    BY DEF LineStart
  <1> HIDE DEF S
  <1>8. buf[j] = NUL <=> j = n + 1
    <2> HIDE DEF j
    <2> QED
      BY <1>1, <1>2, <1>5 DEF j
  <1> QED
    BY <1>5, <1>6, <1>7, <1>8 DEF n, S

LEMMA LineFacts ==
    ASSUME NEW f, IsText(f), Rest(f), LineStart # 0
    PROVE  LineRead(f, LineStart, LineEnd)
  <1> DEFINE n == Len(f)
             j == LineStart
             e == LineEnd
  <1>1. next # 0
    BY DEF LineStart
  <1>2. /\ j \in next..(n + 1) /\ j # n + 1 /\ buf[j] # NL /\ buf[j] # NUL
        /\ \A k \in next..(j - 1) : f[k] = NL
    BY <1>1, LineStartFacts
  <1>3. /\ n \in Nat /\ \A k \in 1..n : f[k] # NUL
    BY TextChars
  <1>4. /\ next \in 1..(n + 1) /\ \A k \in next..n : buf[k] = f[k]
        /\ Buffer(buf, n) /\ buf[n + 1] = NUL
        /\ next > 1 => f[next - 1] = NL
    BY <1>1, <1>3 DEF Rest, Buffer
  <1>5. e = FirstFrom(buf, j, {NL, NUL})
    BY DEF LineEnd
  <1> HIDE DEF n, j, e
  <1>6. j \in 1..n /\ next \in 1..n /\ j \in next..n
    BY <1>2, <1>3, <1>4
  <1>7. /\ e \in j..(n + 1) /\ buf[e] \in {NL, NUL} /\ \A k \in j..(e - 1) : buf[k] \notin {NL, NUL}
    <2>1. j \in 0..(n + 1) /\ NUL \in {NL, NUL}
      BY <1>3, <1>6
    <2> QED
      BY <1>3, <1>4, <1>5, <2>1, FirstFromFacts
  <1>8. e \in (j + 1)..(n + 1)
    BY <1>2, <1>3, <1>6, <1>7
  <1>9. \A k \in j..(e - 1) : buf[k] = f[k] /\ f[k] # NL
    BY <1>3, <1>4, <1>6, <1>7
  <1>10. j = 1 \/ f[j - 1] = NL
    <2>1. CASE j = next
      BY <1>4, <1>6, <2>1
    <2>2. CASE j # next
      <3>1. j - 1 \in next..(j - 1)
        BY <1>3, <1>6, <2>2
      <3> QED
        BY <1>2, <3>1
    <2> QED
      BY <2>1, <2>2
  <1>11. next = 1 \/ f[next - 1] = NL
    BY <1>3, <1>4
  <1>12. IF e = n + 1 THEN buf[e] = NUL ELSE buf[e] = NL /\ f[e] = NL
    <2>1. CASE e = n + 1
      BY <1>4, <2>1
    <2>2. CASE e # n + 1
      <3>1. e \in next..n /\ e \in 1..n
        BY <1>3, <1>6, <1>8, <2>2
      <3> QED
        BY <1>3, <1>4, <1>7, <2>2, <3>1
    <2> QED
      BY <2>1, <2>2
  <1> QED
    BY <1>2, <1>4, <1>6, <1>8, <1>9, <1>10, <1>12, <1>11 DEF LineRead, n, j, e

\* After a line its statement was read, and every other before its end.
LEMMA DoneLine ==
    ASSUME NEW f, IsText(f), NEW j, NEW e, LineRead(f, j, e),
           NEW to, to = IF e = Len(f) + 1 THEN 0 ELSE e + 1
    PROVE  /\ e \in Ends(f) /\ Line(f, e) = Part(f, j, e - 1)
           /\ \A d \in Done(f) : d < e
           /\ {d \in Statements(f) : to = 0 \/ d < to} = Done(f) \cup ({e} \cap Statements(f))
  <1> DEFINE n == Len(f)
  <1>1. /\ n \in Nat /\ Ends(f) \in SUBSET (1..(n + 1))
        /\ \A k \in 1..n : k \in Ends(f) <=> f[k] = NL
        /\ Statements(f) \subseteq Ends(f)
    BY EndsFacts
  <1>2. /\ next \in 1..n /\ j \in next..n /\ e \in (j + 1)..(n + 1)
        /\ \A k \in j..(e - 1) : f[k] # NL
        /\ \A k \in next..(j - 1) : f[k] = NL
        /\ j = 1 \/ f[j - 1] = NL
        /\ next = 1 \/ f[next - 1] = NL
        /\ e = n + 1 \/ f[e] = NL
    BY DEF LineRead
  <1> HIDE DEF n
  <1>3. e \in Ends(f) /\ Line(f, e) = Part(f, j, e - 1)
    <2>1. e \in 1..(n + 1) /\ j \in 1..e
      BY <1>1, <1>2
    <2> QED
      BY <1>2, <2>1, LineIs DEF n
  <1>4. ASSUME NEW d \in Statements(f), d < e, ~ (d < next) PROVE FALSE
    <2>1. d \in Ends(f) /\ d \in next..n
      BY <1>1, <1>2, <1>4
    <2>2. ~ (d \in j..(e - 1))
      BY <1>1, <1>2, <2>1
    <2>3. d \in next..(j - 1)
      BY <1>1, <1>2, <1>4, <2>1, <2>2
    <2>4. d = 1 \/ f[d - 1] = NL
      <3>1. CASE d = next
        BY <1>2, <3>1
      <3>2. CASE d # next
        <4>1. d - 1 \in next..(j - 1)
          BY <1>1, <1>2, <2>3, <3>2
        <4> QED
          BY <1>2, <4>1
      <3> QED
        BY <3>1, <3>2
    <2> QED
      BY <1>4, <2>1, <2>4, NoStatement
  <1>5. \A d \in Done(f) : d \in Statements(f) /\ d < next
    BY <1>2 DEF Done
  <1>6. \A d \in Done(f) : d < e
    BY <1>1, <1>2, <1>5
  <1>7. \A d \in Statements(f) : d \in 1..(n + 1) /\ (d < e => d \in Done(f))
    BY <1>1, <1>4 DEF Done
  <1>8. {d \in Statements(f) : to = 0 \/ d < to} = Done(f) \cup ({e} \cap Statements(f))
    <2>1. ASSUME NEW d \in Statements(f), to = 0 \/ d < to PROVE d \in Done(f) \cup {e}
      <3>1. d \in 1..(n + 1) /\ (d < e \/ d = e)
        BY <1>1, <1>2, <1>7, <2>1 DEF n
      <3> QED
        BY <1>7, <3>1
    <2>2. ASSUME NEW d \in Done(f) PROVE d \in Statements(f) /\ (to = 0 \/ d < to)
      <3>1. d \in Statements(f) /\ d < e /\ d \in 1..(n + 1)
        BY <1>5, <1>6, <1>7
      <3> QED
        BY <1>1, <1>2, <3>1 DEF n
    <2>3. to = 0 \/ e < to
      BY <1>1, <1>2 DEF n
    <2> QED
      BY <2>1, <2>2, <2>3
  <1> QED
    BY <1>3, <1>6, <1>8

\* When strtok finds no line, every statement was read.
LEMMA DoneAll ==
    ASSUME NEW f, IsText(f), Rest(f), LineStart = 0
    PROVE  Done(f) = Statements(f)
  <1> DEFINE n == Len(f)
             j == Min({k \in DOMAIN buf : k >= next /\ buf[k] # NL})
  <1>1. CASE next = 0
    BY <1>1 DEF Done
  <1>2. CASE next # 0
    <2>1. /\ n \in Nat /\ Ends(f) \in SUBSET (1..(n + 1))
          /\ \A k \in 1..n : k \in Ends(f) <=> f[k] = NL
          /\ Statements(f) \subseteq Ends(f)
      BY EndsFacts
    <2>2. /\ j \in next..(n + 1) /\ (buf[j] = NUL <=> j = n + 1)
          /\ \A k \in next..(j - 1) : f[k] = NL
          /\ LineStart = IF buf[j] = NUL THEN 0 ELSE j
      BY <1>2, LineStartFacts
    <2>3. next \in 1..(n + 1) /\ (next > 1 => f[next - 1] = NL)
      BY <1>2, <2>1 DEF Rest
    <2> HIDE DEF n, j
    <2>4. j = n + 1
      BY <2>1, <2>2, <2>3
    <2>5. ASSUME NEW d \in Statements(f), ~ (d < next) PROVE FALSE
      <3>1. d \in Ends(f) /\ d \in next..(n + 1)
        BY <2>1, <2>3, <2>5
      <3>2. d = 1 \/ f[d - 1] = NL
        <4>1. CASE d = next
          BY <2>1, <2>3, <4>1
        <4>2. CASE d # next
          <5>1. d - 1 \in next..(j - 1)
            BY <2>1, <2>3, <2>4, <3>1, <4>2
          <5> QED
            BY <2>2, <5>1
        <4> QED
          BY <4>1, <4>2
      <3> QED
        BY <2>5, <3>1, <3>2, NoStatement
    <2> QED
      BY <2>5 DEF Done
  <1> QED
    BY <1>1, <1>2

-----------------------------------------------------------------------------
(* Setting options                                                         *)

\* A statement behind the others sets its option.
LEMMA SetLast ==
    ASSUME NEW options, NEW f, NEW D \in SUBSET Nat, NEW e \in Nat, \A d \in D : d < e,
           KeyOf(Statement(f, e)) \in Keys
    PROVE  Set(options, f, D \cup {e}) =
               [Set(options, f, D) EXCEPT ![KeyOf(Statement(f, e))] = ValueOf(Statement(f, e))]
  <1> DEFINE key == KeyOf(Statement(f, e))
             S(k) == {d \in D : KeyOf(Statement(f, d)) = k}
             T(k) == {d \in D \cup {e} : KeyOf(Statement(f, d)) = k}
             Option(U, k) == IF U = {} THEN options[k] ELSE ValueOf(Statement(f, Max(U)))
  <1>1. Set(options, f, D) = [k \in Keys |-> Option(S(k), k)]
    BY DEF Set
  <1>2. Set(options, f, D \cup {e}) = [k \in Keys |-> Option(T(k), k)]
    BY DEF Set
  <1>3. ASSUME NEW k, k # key PROVE T(k) = S(k)
    BY <1>3
  <1>4. Max(T(key)) = e /\ T(key) # {}
    <2>1. KeyOf(Statement(f, e)) = key
      OBVIOUS
    <2> HIDE DEF key
    <2>2. T(key) \in SUBSET Int /\ e \in T(key)
      <3>1. e \in T(key)
        BY <2>1
      <3>2. ASSUME NEW d \in T(key) PROVE d \in Int
        <4>1. d \in D \/ d = e
          OBVIOUS
        <4> QED
          BY <4>1
      <3> HIDE DEF T
      <3> QED
        BY <3>1, <3>2
    <2>3. ASSUME NEW d \in T(key) PROVE d <= e
      <3>1. d \in Nat /\ (d \in D \/ d = e)
        OBVIOUS
      <3> QED
        BY <3>1
    <2> DEFINE U == T(key)
    <2>4. U \in SUBSET Int /\ e \in U /\ \A d \in U : d <= e
      BY <2>2, <2>3
    <2> HIDE DEF U
    <2>5. Max(U) = e
      BY <2>4, MaxIs
    <2> QED
      BY <2>4, <2>5 DEF U
  <1>5. Option(T(key), key) = ValueOf(Statement(f, e))
    BY <1>4
  <1> HIDE DEF S, T, Option, key
  <1>6. [k \in Keys |-> Option(T(k), k)] =
            [[k \in Keys |-> Option(S(k), k)] EXCEPT ![key] = ValueOf(Statement(f, e))]
    BY <1>3, <1>5
  <1> QED
    BY <1>1, <1>2, <1>6 DEF key

LEMMA SetNone ==
    ASSUME NEW options, options = [k \in Keys |-> options[k]], NEW f
    PROVE  Set(options, f, {}) = options
  <1>1. \A k \in Keys : {e \in {} : KeyOf(Statement(f, e)) = k} = {}
    OBVIOUS
  <1>2. Set(options, f, {}) = [k \in Keys |-> options[k]]
    BY <1>1 DEF Set
  <1> QED
    BY <1>2

-----------------------------------------------------------------------------
(* Reading a line                                                          *)

\* What ReadLine makes of a line of the file f from j to e.
LineMeaning(f, j, e) ==
    LET line   == Ended(buf, e)
        code   == Ended(line, FirstFrom(line, j, {HASH, NUL}))
        at     == StartOf(code, j)
        text   == Trimmed(code, j)
        eq     == FirstFrom(text, at, {EQ, NUL})
        split  == Ended(text, eq)
        keyed  == Trimmed(split, at)
        valued == Trimmed(keyed, eq + 1)
        key    == String(keyed, at)
        value  == String(valued, StartOf(keyed, eq + 1))
        s      == Statement(f, e)
        n      == Len(f)
        Read(b) == Buffer(b, n) /\ Cut(b, buf, n, e) /\ b[e] = NUL
                     /\ \A k \in (e + 1)..(n + 1) : b[k] = buf[k]
    IN  /\ text[at] = NUL <=> s = <<>>
        /\ text[at] = NUL => Read(text)
        /\ ReadsBefore(code, j) => BeginsEmpty(f)
        /\ text[at] # NUL =>
            /\ text[eq] = NUL => ~ IsGood(s)
            /\ text[eq] = EQ =>
                /\ key = KeyOf(s) /\ value = ValueOf(s) /\ Len(Upto(s, EQ)) < Len(s)
                /\ Read(valued)
                /\ ReadsBefore(split, at) => BeginsEmpty(f)

LEMMA CutTrans ==
    ASSUME NEW n \in Nat, NEW b, NEW c, NEW d, NEW y \in Nat, NEW z \in Nat, y <= z,
           Cut(c, b, n, z), Cut(d, c, n, y)
    PROVE  Cut(d, b, n, z)
  BY DEF Cut

LEMMA CutEnd ==
    ASSUME NEW n \in Nat, NEW b, NEW c, NEW z \in 0..(n + 1), Cut(c, b, n, z)
    PROVE  /\ b[z] = NUL => c[z] = NUL
           /\ \A k \in (z + 1)..(n + 1) : c[k] = b[k]
  BY DEF Cut

\* The first line of a file is empty before a comment, an equals sign or its end at h.
LEMMA BeginsEmptyIs ==
    ASSUME NEW f, IsText(f), NEW n, n = Len(f), NEW j \in 1..n, NEW h \in j..(n + 1),
           \A k \in 1..(j - 1) : f[k] = NL, \A k \in j..(h - 1) : f[k] = SP,
           f[j] # NL, h = n + 1 \/ f[h] \in {NL, HASH, EQ}
    PROVE  BeginsEmpty(f)
  <1> DEFINE First(i, c) == Min({k \in i..n : f[k] # c} \cup {n + 1})
  <1>1. n \in Nat
    BY TextChars
  <1>2. First(1, NL) = j
    <2> DEFINE S == {k \in 1..n : f[k] # NL} \cup {n + 1}
    <2>1. S \in SUBSET Int /\ j \in S
      BY <1>1
    <2>2. ASSUME NEW k \in S PROVE j <= k
      BY <1>1
    <2> HIDE DEF S
    <2>3. Min(S) = j
      BY <2>1, <2>2, MinIs
    <2> QED
      BY <2>3 DEF S
  <1>3. First(j, SP) = h
    <2> DEFINE S == {k \in j..n : f[k] # SP} \cup {n + 1}
    <2>1. S \in SUBSET Int
      BY <1>1
    <2>2. h \in S
      <3>1. CASE h = n + 1
        BY <3>1
      <3>2. CASE h # n + 1
        <4>1. h \in j..n /\ f[h] # SP
          BY <1>1, <3>2, Characters
        <4> QED
          BY <4>1
      <3> QED
        BY <3>1, <3>2
    <2>3. ASSUME NEW k \in S PROVE h <= k
      BY <1>1
    <2> HIDE DEF S
    <2>4. Min(S) = h
      BY <2>1, <2>2, <2>3, MinIs
    <2> QED
      BY <2>4 DEF S
  <1>4. h > n \/ f[h] \in {NL, HASH, EQ}
    BY <1>1
  <1>5. First(First(1, NL), SP) = h
    BY <1>2, <1>3
  <1> QED
    BY <1>4, <1>5 DEF BeginsEmpty

LEMMA ReadFacts ==
    ASSUME NEW f, IsText(f), NEW j, NEW e, LineRead(f, j, e), Rest(f)
    PROVE  LineMeaning(f, j, e)
  <1> DEFINE n      == Len(f)
             line   == Ended(buf, e)
             h      == FirstFrom(line, j, {HASH, NUL})
             code   == Ended(line, h)
             at     == StartOf(code, j)
             text   == Trimmed(code, j)
             eq     == FirstFrom(text, at, {EQ, NUL})
             split  == Ended(text, eq)
             keyed  == Trimmed(split, at)
             valued == Trimmed(keyed, eq + 1)
             key    == String(keyed, at)
             value  == String(valued, StartOf(keyed, eq + 1))
             s      == Statement(f, e)
             Read(b) == Buffer(b, n) /\ Cut(b, buf, n, e) /\ b[e] = NUL
                          /\ \A k \in (e + 1)..(n + 1) : b[k] = buf[k]
  <1>1. /\ n \in Nat /\ next \in 1..n /\ j \in next..n /\ e \in (j + 1)..(n + 1)
        /\ \A k \in j..(e - 1) : buf[k] = f[k] /\ f[k] # NL
        /\ \A k \in next..(j - 1) : f[k] = NL
        /\ IF e = n + 1 THEN buf[e] = NUL ELSE f[e] = NL
        /\ Buffer(buf, n)
        /\ next > 1 => buf[next - 1] = NUL
    BY TextChars DEF LineRead, Rest
  <1>2. \A k \in 1..n : f[k] # NUL
    BY TextChars
  <1> HIDE DEF n
  <1>3. /\ Buffer(line, n) /\ Has(f, line, j, e) /\ Cut(line, buf, n, e) /\ line[e] = NUL
        /\ \A k \in 0..(n + 1) : k # e => line[k] = buf[k]
    <2>1. e \in 1..(n + 1) /\ j \in 1..e
      BY <1>1
    <2>2. /\ Buffer(line, n) /\ line[e] = NUL
          /\ \A k \in 0..(n + 1) : k # e => line[k] = buf[k]
      BY <1>1, <2>1, EndedFacts
    <2> HIDE DEF line
    <2>3. Cut(line, buf, n, e)
      BY <1>1, <2>1, <2>2 DEF Cut
    <2>4. \A k \in j..(e - 1) : line[k] = f[k]
      BY <1>1, <2>2
    <2>5. Has(f, line, j, e)
      BY <2>1, <2>2, <2>4 DEF Has, n
    <2> QED
      BY <2>2, <2>3, <2>5
  <1> HIDE DEF line
  <1>4. CutAt(f, line, j, e, HASH, h)
    BY <1>3, CutIs, Characters DEF n
  <1> HIDE DEF h
  <1>5. /\ h \in j..e /\ Has(f, code, j, h) /\ Upto(Part(f, j, e - 1), HASH) = Part(f, j, h - 1)
        /\ h < e => f[h] = HASH
        /\ Buffer(code, n) /\ Cut(code, line, n, e)
        /\ \A k \in 0..(n + 1) : k < h => code[k] = line[k]
    <2>1. /\ h \in j..e /\ Has(f, code, j, h) /\ Upto(Part(f, j, e - 1), HASH) = Part(f, j, h - 1)
          /\ h < e => f[h] = HASH
          /\ Buffer(code, n) /\ Cut(code, line, n, e)
      BY <1>4 DEF CutAt, n
    <2>2. h \in 1..(n + 1)
      BY <1>1, <2>1
    <2>3. \A k \in 0..(n + 1) : k # h => code[k] = line[k]
      <3>1. n \in Nat /\ Buffer(line, n)
        BY <1>1, <1>3
      <3> QED
        BY <2>2, <3>1, EndedFacts
    <2> HIDE DEF code
    <2>4. \A k \in 0..(n + 1) : k < h => code[k] = line[k]
      BY <2>2, <2>3
    <2> QED
      BY <2>1, <2>4
  <1> HIDE DEF code
  <1>6. \A k \in j..(h - 1) : f[k] # NL
    BY <1>1, <1>5
  <1>7. PICK y \in 1..h : TrimmedTo(f, code, j, h, y)
    BY <1>5, <1>6, TrimIs DEF n
  <1>8. /\ y \in at..h /\ Has(f, text, at, y) /\ at \in j..h
        /\ Stripped(Part(f, j, h - 1)) = Part(f, at, y - 1)
        /\ IF at = h THEN y = at /\ \A k \in j..(h - 1) : f[k] = SP
           ELSE y > at /\ f[at] \notin Space
        /\ Buffer(text, n) /\ Cut(text, code, n, h)
        /\ LastOf(code, j) = 0 => at = h /\ \A k \in 1..(h - 1) : code[k] \in Space
    BY <1>7 DEF TrimmedTo, n
  <1> HIDE DEF at, text
  <1>9. s = Part(f, at, y - 1)
    <2>1. Line(f, e) = Part(f, j, e - 1)
      BY <1>1, DoneLine
    <2> QED
      BY <1>5, <1>8, <2>1 DEF Statement
  <1>10. /\ n \in Nat /\ j \in Nat /\ e \in Nat /\ h \in Nat /\ at \in Nat /\ y \in Nat
         /\ 1 <= j /\ j <= h /\ h <= e /\ e <= n + 1 /\ j <= at /\ at <= y /\ y <= h
    BY <1>1, <1>5, <1>8
  <1>11. IsPart(f, at, y - 1) /\ text[y] = NUL /\ \A k \in at..(y - 1) : text[k] = f[k]
    BY <1>8, HasFacts DEF Has
  <1>12. text[at] = NUL <=> at = y
    BY <1>1, <1>2, <1>10, <1>11
  <1>13. text[at] = NUL <=> s = <<>>
    <2>1. Len(s) = (y - 1) - at + 1 /\ (y - 1 < at => s = <<>>)
      BY <1>9, <1>11, PartFacts
    <2> HIDE DEF s
    <2>2. s = <<>> => Len(s) = 0
      BY LenProperties
    <2> QED
      BY <1>10, <1>12, <2>1, <2>2
  <1>14. Cut(text, buf, n, e)
    <2>1. Cut(code, buf, n, e)
      BY <1>1, <1>3, <1>5, <1>10, CutTrans
    <2> QED
      BY <1>1, <1>8, <1>10, <2>1, CutTrans
  <1>15. Read(text)
    <2>1. line[e] = NUL => text[e] = NUL
      <3>1. code[e] = NUL
        BY <1>3, <1>5, <1>10 DEF Cut
      <3> QED
        BY <1>8, <1>10, <3>1 DEF Cut
    <2>2. \A k \in (e + 1)..(n + 1) : text[k] = buf[k]
      BY <1>1, <1>14, CutEnd
    <2> QED
      BY <1>3, <1>8, <1>14, <2>1, <2>2
  <1>16. ReadsBefore(code, j) => BeginsEmpty(f)
    <2> SUFFICES ASSUME LastOf(code, j) = 0 PROVE BeginsEmpty(f)
      BY DEF ReadsBefore
    <2>1. \A k \in 1..(h - 1) : code[k] \in Space
      BY <1>8
    <2>2. next = 1
      <3> SUFFICES ASSUME next > 1 PROVE FALSE
        BY <1>1
      <3>1. next - 1 \in 1..(h - 1) /\ next - 1 \in 0..(n + 1) /\ next - 1 < h /\ next - 1 # e
        BY <1>1, <1>10
      <3>2. code[next - 1] = NUL
        BY <1>1, <1>3, <1>5, <3>1
      <3> QED
        BY <2>1, <3>1, <3>2, Characters
    <2>3. \A k \in j..(h - 1) : f[k] = SP
      BY <1>8
    <2>4. h = n + 1 \/ f[h] \in {NL, HASH, EQ}
      BY <1>1, <1>5, <1>10
    <2>5. j \in 1..n /\ h \in j..(n + 1) /\ f[j] # NL /\ \A k \in 1..(j - 1) : f[k] = NL
      BY <1>1, <1>10, <2>2
    <2> QED
      BY <2>3, <2>4, <2>5, BeginsEmptyIs DEF n
  <1>17. EQ # NUL /\ EQ \notin Space
    BY Characters
  <1>18. CutAt(f, text, at, y, EQ, eq)
    BY <1>8, <1>17, CutIs DEF n
  <1> HIDE DEF eq
  <1>19. /\ eq \in at..y /\ Has(f, split, at, eq)
         /\ Upto(Part(f, at, y - 1), EQ) = Part(f, at, eq - 1)
         /\ eq < y => f[eq] = EQ /\ text[eq] = EQ
         /\ Buffer(split, n) /\ Cut(split, text, n, y)
         /\ \A k \in (eq + 1)..(n + 1) : split[k] = text[k]
    BY <1>18 DEF CutAt, n
  <1> HIDE DEF split
  <1>20. Upto(s, EQ) = Part(f, at, eq - 1) /\ eq \in Nat /\ at <= eq /\ eq <= y
    BY <1>9, <1>10, <1>19
  <1>21. Len(s) = y - at /\ s \in Seq(Char)
    <2>1. Len(s) = (y - 1) - at + 1 /\ s \in Seq(Char)
      BY <1>9, <1>11, PartFacts
    <2> HIDE DEF s
    <2> QED
      BY <1>10, <2>1
  <1>22. IsPart(f, at, eq - 1) /\ Len(Upto(s, EQ)) = eq - at
    <2>1. IsPart(f, at, eq - 1)
      BY <1>10, <1>11, <1>20 DEF IsPart
    <2>2. Len(Part(f, at, eq - 1)) = (eq - 1) - at + 1
      BY <2>1, PartFacts
    <2> QED
      BY <1>10, <1>20, <2>1, <2>2
  <1> HIDE DEF s
  <1>23. ASSUME text[at] # NUL, text[eq] = NUL PROVE ~ IsGood(s)
    <2>1. eq = y
      BY <1>10, <1>17, <1>19, <1>20, <1>23
    <2> QED
      BY <1>10, <1>21, <1>22, <2>1 DEF IsGood
  <1>24. ASSUME text[at] # NUL, text[eq] = EQ
         PROVE  /\ key = KeyOf(s) /\ value = ValueOf(s) /\ Len(Upto(s, EQ)) < Len(s)
                /\ Read(valued) /\ (ReadsBefore(split, at) => BeginsEmpty(f))
    <2>1. eq < y /\ f[eq] = EQ /\ at < h
      <3>1. eq # y
        BY <1>11, <1>17, <1>24
      <3> QED
        BY <1>10, <1>19, <1>20, <3>1
    <2>2. f[at] \notin Space
      BY <1>8, <2>1
    <2>3. \A k \in at..(eq - 1) : f[k] # NL
      BY <1>6, <1>10, <1>20
    <2>4. PICK y1 \in 1..eq : TrimmedTo(f, split, at, eq, y1)
      BY <1>19, <2>3, TrimIs DEF n
    <2>5. StartOf(split, at) = at
      <3>1. /\ StartOf(split, at) \in at..eq
            /\ at < eq /\ f[at] \notin Space => StartOf(split, at) = at
        BY <2>4 DEF TrimmedTo
      <3> QED
        BY <1>10, <1>20, <2>2, <3>1
    <2>6. /\ Has(f, keyed, at, y1) /\ Stripped(Part(f, at, eq - 1)) = Part(f, at, y1 - 1)
          /\ Buffer(keyed, n) /\ Cut(keyed, split, n, eq)
          /\ \A k \in (eq + 1)..(n + 1) : keyed[k] = split[k]
          /\ LastOf(split, at) = 0 => at = eq /\ \A k \in 1..(eq - 1) : split[k] \in Space
      BY <2>4, <2>5 DEF TrimmedTo, n
    <2> HIDE DEF keyed
    <2>7. key = KeyOf(s)
      <3>1. KeyOf(s) = Part(f, at, y1 - 1)
        BY <1>20, <2>6 DEF KeyOf
      <3>2. String(keyed, at) = Part(f, at, y1 - 1)
        BY <2>6, StringHas DEF n
      <3> QED
        BY <3>1, <3>2
    <2>8. Has(f, keyed, eq + 1, y)
      <3>1. \A k \in (eq + 1)..y : k \in (eq + 1)..(n + 1) /\ keyed[k] = text[k]
        <4> TAKE k \in (eq + 1)..y
        <4>1. k \in (eq + 1)..(n + 1)
          BY <1>1, <1>10, <1>20
        <4> QED
          BY <1>19, <2>6, <4>1
      <3>2. eq + 1 \in 1..y /\ y \in 1..(n + 1)
        BY <1>10, <1>20, <2>1
      <3>3. keyed[y] = NUL
        <4>1. y \in (eq + 1)..y
          BY <1>10, <1>20, <2>1
        <4> QED
          BY <1>11, <3>1, <4>1
      <3>4. ASSUME NEW k \in (eq + 1)..(y - 1) PROVE keyed[k] = f[k]
        <4>1. k \in (eq + 1)..y /\ k \in at..(y - 1)
          BY <1>10, <1>20
        <4> QED
          BY <1>11, <3>1, <4>1
      <3> QED
        BY <3>2, <3>3, <3>4 DEF Has, n
    <2>9. \A k \in (eq + 1)..(y - 1) : f[k] # NL
      BY <1>6, <1>10, <1>20
    <2>10. PICK y2 \in 1..y : TrimmedTo(f, keyed, eq + 1, y, y2)
      BY <2>6, <2>8, <2>9, TrimIs DEF n
    <2> DEFINE vs == StartOf(keyed, eq + 1)
    <2>11. /\ Has(f, valued, vs, y2) /\ Stripped(Part(f, eq + 1, y - 1)) = Part(f, vs, y2 - 1)
           /\ Buffer(valued, n) /\ Cut(valued, keyed, n, y)
      BY <2>10 DEF TrimmedTo, n
    <2> HIDE DEF valued, vs
    <2>12. value = ValueOf(s)
      <3>1. String(valued, vs) = Part(f, vs, y2 - 1)
        BY <2>11, StringHas DEF n
      <3>2. Part(Part(f, at, y - 1), (eq + 1) - at + 1, (y - 1) - at + 1) = Part(f, eq + 1, y - 1)
        <4> DEFINE from == eq + 1
                   to == y - 1
        <4>1. IsPart(f, at, to) /\ from \in at..(to + 1) /\ to \in (from - 1)..to
          BY <1>10, <1>11, <1>20, <2>1
        <4> HIDE DEF from, to
        <4>2. Part(Part(f, at, to), from - at + 1, to - at + 1) = Part(f, from, to)
          BY <4>1, PartOfPart
        <4> QED
          BY <4>2 DEF from, to
      <3>3. (eq + 1) - at + 1 = (eq - at) + 2 /\ (y - 1) - at + 1 = y - at
        BY <1>10, <1>20
      <3>4. ValueOf(s) = Stripped(Part(s, (eq - at) + 2, y - at))
        BY <1>21, <1>22 DEF ValueOf
      <3> QED
        BY <1>9, <2>11, <3>1, <3>2, <3>3, <3>4 DEF vs
    <2>13. Len(Upto(s, EQ)) < Len(s)
      BY <1>10, <1>20, <1>21, <1>22, <2>1
    <2>14. Cut(valued, buf, n, e)
      <3>1. Cut(split, buf, n, e)
        BY <1>1, <1>10, <1>14, <1>19, CutTrans
      <3>2. Cut(keyed, buf, n, e)
        BY <1>1, <1>10, <1>20, <2>6, <3>1, CutTrans
      <3> QED
        BY <1>1, <1>10, <2>11, <3>2, CutTrans
    <2>15. Read(valued)
      <3>1. e \in 0..(n + 1) /\ text[e] = NUL
        BY <1>1, <1>15
      <3>2. split[e] = NUL
        BY <1>19, <3>1 DEF Cut
      <3>3. keyed[e] = NUL
        BY <2>6, <3>1, <3>2 DEF Cut
      <3>4. valued[e] = NUL
        BY <2>11, <3>1, <3>3 DEF Cut
      <3>5. \A k \in (e + 1)..(n + 1) : valued[k] = buf[k]
        BY <1>1, <2>14, <3>1, CutEnd
      <3> QED
        BY <2>11, <2>14, <3>4, <3>5
    <2>16. ReadsBefore(split, at) => BeginsEmpty(f)
      <3> SUFFICES ASSUME LastOf(split, at) = 0 PROVE BeginsEmpty(f)
        BY DEF ReadsBefore
      <3>1. at = eq /\ \A k \in 1..(eq - 1) : split[k] \in Space
        BY <2>6
      <3>2. next = 1
        <4> SUFFICES ASSUME next > 1 PROVE FALSE
          BY <1>1
        <4>1. /\ next - 1 \in 1..(eq - 1) /\ next - 1 \in 0..(n + 1) /\ next - 1 < h /\ next - 1 # e
          BY <1>1, <1>10, <3>1
        <4>2. code[next - 1] = NUL
          BY <1>1, <1>3, <1>5, <4>1
        <4>3. text[next - 1] = NUL
          BY <1>8, <4>1, <4>2 DEF Cut
        <4>4. split[next - 1] = NUL
          BY <1>19, <4>1, <4>3 DEF Cut
        <4> QED
          BY <3>1, <4>1, <4>4, Characters
      <3>3. \A k \in j..(eq - 1) : f[k] = SP
        <4>1. \A k \in j..(at - 1) : code[k] \in Space
          <5>1. j \in 0..(n + 1)
            BY <1>1
          <5> QED
            BY <1>1, <1>5, <5>1, StartOfFacts DEF at
        <4>2. \A k \in j..(h - 1) : code[k] = f[k]
          BY <1>5 DEF Has
        <4> QED
          BY <1>6, <1>10, <3>1, <4>1, <4>2, Characters
      <3>4. j \in 1..n /\ eq \in j..(n + 1) /\ f[j] # NL /\ \A k \in 1..(j - 1) : f[k] = NL
        BY <1>1, <1>10, <3>1, <3>2
      <3> QED
        BY <2>1, <3>3, <3>4, BeginsEmptyIs DEF n
    <2> QED
      BY <2>7, <2>12, <2>13, <2>15, <2>16
  <1> QED
    BY <1>13, <1>15, <1>16, <1>23, <1>24
       DEF LineMeaning, n, line, h, code, at, text, eq, split, keyed, valued, key, value, s

-----------------------------------------------------------------------------
(* Files                                                                   *)

LEMMA TextIs ==
    ASSUME NEW file \in GlobalFiles \cup LocalFiles \cup {Missing}
    PROVE  IsText(Text(file)) /\ (file # Missing => Text(file) = file)
  <1>1. <<>> \in Seq(STRING \ {NUL})
    OBVIOUS
  <1> QED
    BY <1>1, FilesAssumption DEF IsText, Text

LEMMA CurrentIs ==
    ASSUME TypeInv
    PROVE  IsText(Current)
  <1>1. IsText(Text(global)) /\ IsText(Text(local))
    BY TextIs DEF TypeInv
  <1> QED
    BY <1>1 DEF Current

LEMMA LoadedFacts ==
    ASSUME NEW f, IsText(f), NEW n, n = Len(f)
    PROVE  Buffer(Loaded(f), n) /\ \A k \in 1..n : Loaded(f)[k] = f[k]
  <1>1. n \in Nat /\ f \in Seq(Char) /\ \A k \in 1..n : f[k] \in STRING
    BY TextChars
  <1> DEFINE g == [i \in 0..(n + 1) |-> IF i = 0 THEN "byte" ELSE IF i > n THEN NUL ELSE f[i]]
  <1>2. Loaded(f) = g
    BY DEF Loaded
  <1>3. \A k \in 1..n : g[k] = f[k]
    BY <1>1
  <1>4. g[n + 1] = NUL /\ g[0] = "byte"
    BY <1>1
  <1>5. g \in [0..(n + 1) -> Char]
    <2> SUFFICES ASSUME NEW i \in 0..(n + 1) PROVE g[i] \in Char
      OBVIOUS
    <2>1. CASE i = 0
      BY <1>4, <2>1, Characters
    <2>2. CASE i = n + 1
      BY <1>4, <2>2, Characters
    <2>3. CASE i \in 1..n
      BY <1>1, <1>3, <2>3, Characters
    <2> QED
      BY <1>1, <2>1, <2>2, <2>3
  <1> HIDE DEF g
  <1> QED
    BY <1>2, <1>3, <1>4, <1>5, Characters DEF Buffer

\* A file that cannot be opened says nothing.
LEMMA NoneMissing == Statements(Text(Missing)) = {}
  <1>1. IsText(<<>>) /\ Text(Missing) = <<>>
    BY TextIs DEF Text
  <1>2. Len(<<>>) = 0
    OBVIOUS
  <1>3. ASSUME NEW e \in Statements(<<>>) PROVE FALSE
    <2>1. Ends(<<>>) \in SUBSET (1..(0 + 1)) /\ e \in Ends(<<>>)
      BY <1>1, <1>2, EndsFacts
    <2>2. e = 1
      BY <2>1
    <2> QED
      BY <1>1, <1>2, <2>1, <2>2, NoStatement
  <1> QED
    BY <1>1, <1>3

LEMMA OptionsDiffer ==
    ASSUME NEW options, options = [k \in Keys |-> options[k]]
    PROVE  options # Refused
  <1>1. DOMAIN Refused = {}
    <2>1. Refused \in Seq(Char) /\ Len(Refused) = 0
      BY DEF Refused
    <2> QED
      BY <2>1, LenProperties
  <1>2. DOMAIN options = Keys
    OBVIOUS
  <1> QED
    BY <1>1, <1>2, KeysAssumption

LEMMA SaidIs ==
    ASSUME NEW options, options = [k \in Keys |-> options[k]], NEW file
    PROVE  /\ (\A e \in Statements(Text(file)) : IsGood(Statement(Text(file), e))) =>
                   Said(options, file) = Set(options, Text(file), Statements(Text(file)))
           /\ (\E e \in Statements(Text(file)) : ~ IsGood(Statement(Text(file), e))) =>
                   Said(options, file) = Refused
  <1>1. CASE file = Missing
    <2>1. Set(options, Text(file), {}) = options
      BY SetNone
    <2>2. Said(options, file) = options
      BY <1>1 DEF Said
    <2> QED
      BY <1>1, <2>1, <2>2, NoneMissing
  <1>2. CASE file # Missing
    BY <1>2, OptionsDiffer DEF Said, Text
  <1> QED
    BY <1>1, <1>2

-----------------------------------------------------------------------------
(* The steps                                                               *)

\* While a file is read, the options given to it are options.
LEMMA GivenIs ==
    ASSUME Given # Refused
    PROVE  Given = [k \in Keys |-> Given[k]]
  <1>1. Defaults = [k \in Keys |-> Defaults[k]]
    BY DEF Defaults
  <1>2. ASSUME Said(Defaults, global) # Refused
        PROVE  Said(Defaults, global) = [k \in Keys |-> Said(Defaults, global)[k]]
    <2>1. Set(Defaults, Text(global), Statements(Text(global))) =
              [k \in Keys |-> Set(Defaults, Text(global), Statements(Text(global)))[k]]
      BY DEF Set
    <2> QED
      BY <1>1, <1>2, <2>1, SaidIs
  <1> QED
    BY <1>1, <1>2 DEF Given

\* What the recorder gets is decided by the file that is read.
LEMMA MeaningIs ==
    ASSUME TypeInv, Reading, Given # Refused, pc = "read local" => home
    PROVE  /\ (\A e \in Statements(Current) : IsGood(Statement(Current, e))) =>
                   /\ pc = "read local" => Meaning = Set(Given, Current, Statements(Current))
                   /\ pc = "read global" =>
                          Said(Defaults, global) = Set(Given, Current, Statements(Current))
           /\ (\E e \in Statements(Current) : ~ IsGood(Statement(Current, e))) => Meaning = Refused
  <1>1. Given = [k \in Keys |-> Given[k]]
    BY GivenIs
  <1>2. Meaning = IF home THEN Said(Said(Defaults, global), local) ELSE Refused
    BY DEF Meaning, Defaults
  <1>3. CASE pc = "read global"
    <2>1. Current = Text(global) /\ Given = Defaults
      BY <1>3 DEF Current, Given
    <2>2. Said(Refused, local) = Refused
      BY DEF Said
    <2> QED
      BY <1>1, <1>2, <1>3, <2>1, <2>2, SaidIs
  <1>4. CASE pc = "read local"
    <2>1. Current = Text(local) /\ Given = Said(Defaults, global)
      BY <1>4 DEF Current, Given
    <2> QED
      BY <1>1, <1>2, <1>4, <2>1, SaidIs
  <1> QED
    BY <1>3, <1>4 DEF Reading

\* A line that is no assignment of a good value refuses the file.
LEMMA ErrorStep ==
    ASSUME IInv, Reading, Error, UNCHANGED <<home, global, local>>, Meaning = Refused,
           before' => \E file \in {global, local} \ {Missing} : BeginsEmpty(file)
    PROVE  IInv'
  <1>1. pc' = "failed" /\ home' = home /\ global' = global /\ local' = local
    BY DEF Error, End
  <1>2. TypeInv'
    BY <1>1 DEF IInv, TypeInv
  <1>3. SetInv'
    BY <1>1 DEF SetInv, Reading
  <1>4. Meaning' = Meaning
    BY <1>1 DEF Meaning
  <1>5. AsWritten'
    BY <1>1, <1>4 DEF AsWritten
  <1> QED
    BY <1>2, <1>3, <1>5 DEF IInv

\* To stop is to say nothing of the files.
LEMMA StopStep ==
    ASSUME IInv, Stop, UNCHANGED <<home, global, local>>,
           before' => \E file \in {global, local} \ {Missing} : BeginsEmpty(file)
    PROVE  IInv'
  <1>1. pc' = "stopped" /\ home' = home /\ global' = global /\ local' = local
    BY DEF Stop, End
  <1>2. TypeInv'
    BY <1>1 DEF IInv, TypeInv
  <1>3. SetInv'
    BY <1>1 DEF SetInv, Reading
  <1>4. AsWritten'
    BY <1>1 DEF AsWritten
  <1> QED
    BY <1>2, <1>3, <1>4 DEF IInv

\* strtok goes on behind the line with a buffer that differs only before its end.
LEMMA GoOn ==
    ASSUME NEW f, IsText(f), Rest(f), NEW j, NEW e, LineRead(f, j, e), NEW n, n = Len(f),
           Buffer(buf', n), buf'[e] = NUL, \A k \in (e + 1)..(n + 1) : buf'[k] = buf[k],
           next' = IF buf[e] = NUL THEN 0 ELSE e + 1
    PROVE  /\ next' \in 0..(n + 1)
           /\ next' # 0 => \A k \in next'..n : buf'[k] = f[k]
           /\ next' > 1 => buf'[next' - 1] = NUL /\ f[next' - 1] = NL
           /\ next' = IF e = n + 1 THEN 0 ELSE e + 1
  <1>1. /\ n \in Nat /\ next \in 1..n /\ j \in next..n /\ e \in (j + 1)..(n + 1)
        /\ IF e = n + 1 THEN buf[e] = NUL ELSE buf[e] = NL /\ f[e] = NL
        /\ \A k \in next..n : buf[k] = f[k]
    BY TextChars DEF LineRead, Rest
  <1>2. next' = IF e = n + 1 THEN 0 ELSE e + 1
    BY <1>1, Characters
  <1> QED
    BY <1>1, <1>2

LEMMA HomeStays ==
    ASSUME SetInv, pc' = pc, home' = home
    PROVE  pc' = "read local" => home'
  BY DEF SetInv

\* The loop's way to the next line, which leaves the options as they must be.
LEMMA GoOnStep ==
    ASSUME IInv, Reading, NEW e, LineRead(Current, LineStart, e), NEW n, n = Len(Current),
           Buffer(buf', n), buf'[e] = NUL, \A k \in (e + 1)..(n + 1) : buf'[k] = buf[k],
           next' = IF buf[e] = NUL THEN 0 ELSE e + 1,
           UNCHANGED <<pc, home, global, local>>,
           e \in Statements(Current) => IsGood(Statement(Current, e)),
           settings' = Set(Given, Current, Done(Current) \cup ({e} \cap Statements(Current))),
           before' => \E file \in {global, local} \ {Missing} : BeginsEmpty(file)
    PROVE  IInv'
  <1> DEFINE f == Current
  <1>1. pc' = pc /\ home' = home /\ global' = global /\ local' = local
    OBVIOUS
  <1>2. TypeInv'
    BY <1>1 DEF IInv, TypeInv
  <1>3. Current' = f /\ Given' = Given /\ Reading' /\ pc' # "global"
    BY <1>1 DEF Current, Given, Reading
  <1>4. IsText(f) /\ Rest(f)
    BY CurrentIs DEF IInv, SetInv
  <1>5. /\ next' \in 0..(n + 1)
        /\ next' # 0 => \A k \in next'..n : buf'[k] = f[k]
        /\ next' > 1 => buf'[next' - 1] = NUL /\ f[next' - 1] = NL
        /\ next' = IF e = n + 1 THEN 0 ELSE e + 1
    BY <1>4, GoOn
  <1>6. {d \in Statements(f) : next' = 0 \/ d < next'} = Done(f) \cup ({e} \cap Statements(f))
    BY <1>4, <1>5, DoneLine
  <1> HIDE DEF f
  <1>7. Rest(Current)'
    BY <1>3, <1>5 DEF Rest, f
  <1>8. Done(Current)' = Done(f) \cup ({e} \cap Statements(f))
    BY <1>3, <1>6 DEF Done
  <1>9. \A d \in Done(f) : IsGood(Statement(f, d))
    BY DEF IInv, SetInv, f
  <1>10. SetInv'
    <2>1. Given' # Refused
      BY <1>3 DEF IInv, SetInv
    <2>2. \A d \in Done(Current)' : IsGood(Statement(Current', d))
      <3>1. e \in Statements(f) => IsGood(Statement(f, e))
        BY DEF f
      <3>2. \A d \in Done(f) \cup ({e} \cap Statements(f)) : IsGood(Statement(f, d))
        BY <1>9, <3>1
      <3>3. \A d \in Done(Current)' : IsGood(Statement(f, d))
        BY <1>8, <3>2
      <3> QED
        BY <1>3, <3>3
    <2>3. settings' = Set(Given', Current', Done(Current)')
      BY <1>3, <1>8 DEF f
    <2>4. pc' = "read local" => home'
      <3>1. SetInv
        BY DEF IInv
      <3> QED
        BY <1>1, <3>1, HomeStays
    <2> QED
      BY <1>3, <1>7, <2>1, <2>2, <2>3, <2>4 DEF SetInv
  <1>11. AsWritten'
    BY <1>1 DEF AsWritten, Reading
  <1> QED
    BY <1>2, <1>10, <1>11 DEF IInv

LEMMA InitInv == Init => IInv
  <1> SUFFICES ASSUME Init PROVE IInv
    OBVIOUS
  <1> QED
    BY DEF Init, IInv, TypeInv, SetInv, AsWritten, Reading, Defaults

LEMMA StutterInv == IInv /\ UNCHANGED vars => IInv'
  <1> SUFFICES ASSUME IInv, UNCHANGED vars PROVE IInv'
    OBVIOUS
  <1>1. /\ home' = home /\ global' = global /\ local' = local /\ pc' = pc
        /\ buf' = buf /\ next' = next /\ settings' = settings /\ before' = before
    BY DEF vars
  <1>2. TypeInv'
    BY <1>1 DEF IInv, TypeInv
  <1>3. Current' = Current /\ Given' = Given
    BY <1>1 DEF Current, Given
  <1>4. SetInv'
    BY <1>1, <1>3 DEF IInv, SetInv, Reading, Rest, Done
  <1>5. AsWritten'
    BY <1>1 DEF IInv, AsWritten, Meaning
  <1> QED
    BY <1>2, <1>4, <1>5 DEF IInv

\* Opening a file: nothing of it was read.
LEMMA BeginIs ==
    ASSUME NEW file \in GlobalFiles \cup LocalFiles \cup {Missing}, Begin(file),
           NEW f, f = Text(file), NEW n, n = Len(f)
    PROVE  /\ Buffer(buf', n) /\ next' \in 0..(n + 1) /\ ~ (next' > 1)
           /\ next' # 0 => \A k \in next'..n : buf'[k] = f[k]
           /\ {e \in Statements(f) : next' = 0 \/ e < next'} = {}
  <1>1. IsText(f) /\ n \in Nat
    BY TextIs, TextChars
  <1>2. Buffer(Loaded(f), n) /\ \A k \in 1..n : Loaded(f)[k] = f[k]
    BY <1>1, LoadedFacts
  <1>3. buf' = Loaded(f) /\ next' = IF file = Missing THEN 0 ELSE 1
    BY DEF Begin, Text
  <1>4. {e \in Statements(f) : next' = 0 \/ e < next'} = {}
    <2>1. CASE file = Missing
      BY <2>1, NoneMissing
    <2>2. CASE file # Missing
      <3>1. \A e \in Statements(f) : e \in 1..(n + 1)
        BY <1>1, EndsFacts
      <3>2. \A e \in Statements(f) : ~ (next' = 0 \/ e < next')
        BY <1>1, <1>3, <2>2, <3>1
      <3> QED
        BY <3>2
    <2> QED
      BY <2>1, <2>2
  <1> QED
    BY <1>1, <1>2, <1>3, <1>4

LEMMA GlobalReadInv ==
    ASSUME IInv, OpenGlobal, ~ Stop
    PROVE  IInv'
  <1> DEFINE f == Text(global)
             n == Len(f)
  <1>1. /\ pc = "global" /\ pc' = "read global" /\ Begin(global)
        /\ home' = home /\ global' = global /\ local' = local
        /\ settings' = settings /\ before' = before
    BY DEF OpenGlobal
  <1>2. TypeInv'
    BY <1>1 DEF IInv, TypeInv
  <1>3. Current' = f /\ Given' = Defaults
    BY <1>1 DEF Current, Given, Defaults
  <1>4. /\ Buffer(buf', n) /\ next' \in 0..(n + 1) /\ ~ (next' > 1)
        /\ next' # 0 => \A k \in next'..n : buf'[k] = f[k]
        /\ {e \in Statements(f) : next' = 0 \/ e < next'} = {}
    BY <1>1, BeginIs DEF IInv, TypeInv
  <1> HIDE DEF f
  <1>5. Rest(Current)' /\ Done(Current)' = {}
    BY <1>3, <1>4 DEF Rest, Done
  <1>6. SetInv'
    <2>1. Defaults = [k \in Keys |-> Defaults[k]]
      BY DEF Defaults
    <2>2. Set(Defaults, f, {}) = Defaults
      BY <2>1, SetNone
    <2>3. settings' = Defaults
      BY <1>1 DEF IInv, SetInv
    <2>4. Defaults # Refused
      BY <2>1, OptionsDiffer
    <2> QED
      BY <1>1, <1>3, <1>5, <2>2, <2>3, <2>4 DEF SetInv
  <1>7. AsWritten'
    BY <1>1 DEF IInv, AsWritten
  <1> QED
    BY <1>2, <1>6, <1>7 DEF IInv

LEMMA OpenGlobalInv == IInv /\ OpenGlobal => IInv'
  <1>1. ASSUME IInv, OpenGlobal, Stop PROVE IInv'
    BY <1>1, StopStep DEF OpenGlobal, IInv, AsWritten
  <1> QED
    BY <1>1, GlobalReadInv

\* At the end of a file every statement was read.
LEMMA AtEnd ==
    ASSUME IInv, Reading, LineStart = 0
    PROVE  /\ settings = Set(Given, Current, Statements(Current))
           /\ \A e \in Statements(Current) : IsGood(Statement(Current, e))
  <1>1. IsText(Current) /\ Rest(Current)
    BY CurrentIs DEF IInv, SetInv
  <1>2. Done(Current) = Statements(Current)
    BY <1>1, DoneAll
  <1> QED
    BY <1>2 DEF IInv, SetInv

LEMMA FinishInv == IInv /\ Finish => IInv'
  <1> SUFFICES ASSUME IInv, Finish PROVE IInv'
    OBVIOUS
  <1>1. /\ pc = "read local" /\ LineStart = 0 /\ pc' = "started" /\ Reading
        /\ home' = home /\ global' = global /\ local' = local
        /\ settings' = settings /\ before' = before
    BY DEF Finish, Reading
  <1>2. settings = Meaning
    BY <1>1, AtEnd, MeaningIs DEF IInv, SetInv
  <1>3. TypeInv' /\ SetInv'
    BY <1>1 DEF IInv, TypeInv, SetInv, Reading
  <1>4. AsWritten'
    BY <1>1, <1>2 DEF IInv, AsWritten, Meaning
  <1> QED
    BY <1>3, <1>4 DEF IInv

LEMMA OpenLocalInv == IInv /\ OpenLocal => IInv'
  <1> SUFFICES ASSUME IInv, OpenLocal PROVE IInv'
    OBVIOUS
  <1> DEFINE f == Text(local)
             n == Len(f)
  <1>1. /\ pc = "read global" /\ LineStart = 0 /\ Reading
        /\ home' = home /\ global' = global /\ local' = local /\ before' = before
        /\ \/ home /\ Begin(local) /\ pc' = "read local" /\ settings' = settings
           \/ home /\ Stop
           \/ ~ home /\ Error
    BY DEF OpenLocal, Reading
  <1>2. CASE ~ home
    <2>1. Meaning = Refused /\ Error
      BY <1>1, <1>2 DEF Meaning
    <2> QED
      BY <1>1, <2>1, ErrorStep DEF IInv, AsWritten
  <1>3. CASE home /\ Stop
    BY <1>1, <1>3, StopStep DEF IInv, AsWritten
  <1>4. CASE home /\ ~ Stop
    <2>1. home /\ pc' = "read local" /\ Begin(local) /\ settings' = settings
      BY <1>1, <1>4
    <2>2. TypeInv'
      BY <1>1, <2>1 DEF IInv, TypeInv
    <2>3. Current' = f /\ Given' = Said(Defaults, global)
      BY <1>1, <2>1 DEF Current, Given, Defaults, Said, Set
    <2>4. /\ Buffer(buf', n) /\ next' \in 0..(n + 1) /\ ~ (next' > 1)
          /\ next' # 0 => \A k \in next'..n : buf'[k] = f[k]
          /\ {e \in Statements(f) : next' = 0 \/ e < next'} = {}
      BY <2>1, BeginIs DEF IInv, TypeInv
    <2> HIDE DEF f
    <2>5. Rest(Current)' /\ Done(Current)' = {}
      BY <2>3, <2>4 DEF Rest, Done
    <2>6. settings = Said(Defaults, global)
      BY <1>1, AtEnd, MeaningIs DEF IInv, SetInv
    <2>7. settings = [k \in Keys |-> settings[k]]
      BY <1>1, AtEnd DEF Set
    <2>8. Set(settings, f, {}) = settings /\ settings # Refused
      BY <2>7, SetNone, OptionsDiffer
    <2>9. SetInv'
      BY <1>1, <1>4, <2>1, <2>3, <2>5, <2>6, <2>8 DEF SetInv
    <2>10. AsWritten'
      BY <1>1, <2>1 DEF IInv, AsWritten
    <2> QED
      BY <2>2, <2>9, <2>10 DEF IInv
  <1> QED
    BY <1>2, <1>4, <1>3

LEMMA ReadLineInv == IInv /\ ReadLine => IInv'
  <1> SUFFICES ASSUME IInv, ReadLine PROVE IInv'
    OBVIOUS
  <1> DEFINE f      == Current
             n      == Len(f)
             j      == LineStart
             e      == LineEnd
             line   == Ended(buf, e)
             code   == Ended(line, FirstFrom(line, j, {HASH, NUL}))
             at     == StartOf(code, j)
             text   == Trimmed(code, j)
             eq     == FirstFrom(text, at, {EQ, NUL})
             split  == Ended(text, eq)
             keyed  == Trimmed(split, at)
             valued == Trimmed(keyed, eq + 1)
             key    == String(keyed, at)
             value  == String(valued, StartOf(keyed, eq + 1))
             s      == Statement(f, e)
             Read(b) == buf' = b /\ next' = (IF buf[e] = NUL THEN 0 ELSE e + 1) /\ pc' = pc
             Good(b) == Buffer(b, n) /\ b[e] = NUL /\ \A k \in (e + 1)..(n + 1) : b[k] = buf[k]
  <1>1. Reading /\ j # 0 /\ home' = home /\ global' = global /\ local' = local
    BY DEF ReadLine, Reading
  <1>2. \/ /\ text[at] = NUL /\ Read(text) /\ settings' = settings
           /\ before' = (before \/ ReadsBefore(code, j))
        \/ text[at] # NUL /\ text[eq] = NUL /\ Error /\ before' = before
        \/ /\ text[at] # NUL /\ text[eq] = EQ
           /\ IF key \in Keys /\ value \notin Bad
              THEN (Read(valued) /\ settings' = [settings EXCEPT ![key] = value]) \/ Stop
              ELSE Error
           /\ before' = (before \/ ReadsBefore(split, at))
    BY DEF ReadLine
  <1>3. IsText(f) /\ Rest(f) /\ TypeInv
    BY <1>1, CurrentIs DEF IInv, SetInv
  <1>4. LineRead(f, j, e)
    BY <1>1, <1>3, LineFacts
  <1>5. LineMeaning(f, j, e)
    BY <1>3, <1>4, ReadFacts
  <1>6. /\ text[at] = NUL <=> s = <<>>
        /\ text[at] = NUL => Good(text)
        /\ ReadsBefore(code, j) => BeginsEmpty(f)
        /\ text[at] # NUL /\ text[eq] = NUL => ~ IsGood(s)
        /\ text[at] # NUL /\ text[eq] = EQ =>
              /\ key = KeyOf(s) /\ value = ValueOf(s) /\ Len(Upto(s, EQ)) < Len(s)
              /\ Good(valued)
              /\ ReadsBefore(split, at) => BeginsEmpty(f)
    BY <1>5 DEF LineMeaning
  <1>7. e \in Ends(f) /\ (e \in Statements(f) <=> s # <<>>)
    BY <1>3, <1>4, DoneLine DEF Statements
  <1> DEFINE empty == text[at] = NUL
             cut   == text[eq]
             first == ReadsBefore(code, j)
             second == ReadsBefore(split, at)
  <1> HIDE DEF f, n, j, e, line, code, at, text, eq, split, keyed, valued, key, value, s,
               empty, cut, first, second
  <1>8. BeginsEmpty(f) => \E file \in {global, local} \ {Missing} : BeginsEmpty(file)
    <2> DEFINE file == IF pc = "read global" THEN global ELSE local
    <2>1. f = Text(file) /\ file \in {global, local}
      BY DEF f, Current
    <2> HIDE DEF file
    <2>2. file # Missing
      <3> SUFFICES ASSUME file = Missing PROVE FALSE
        OBVIOUS
      <3>1. f = <<>>
        BY <2>1 DEF Text
      <3>2. Len(f) = 0
        BY <3>1
      <3>3. next \in 1..Len(f)
        BY <1>4 DEF LineRead
      <3> QED
        BY <3>2, <3>3
    <2>3. f = file
      BY <2>1, <2>2 DEF Text
    <2> QED
      BY <2>1, <2>2, <2>3
  <1>9. before => \E file \in {global, local} \ {Missing} : BeginsEmpty(file)
    BY DEF IInv, AsWritten
  <1>10. ASSUME e \in Statements(f), ~ IsGood(s), Error,
                before' => \E file \in {global, local} \ {Missing} : BeginsEmpty(file)
         PROVE  IInv'
    <2>1. Meaning = Refused
      BY <1>1, <1>3, <1>10, MeaningIs DEF IInv, SetInv, f, s
    <2> QED
      BY <1>1, <1>10, <2>1, ErrorStep
  <1>11. ASSUME NEW b, Read(b), Good(b), e \in Statements(f) => IsGood(s),
                settings' = Set(Given, f, Done(f) \cup ({e} \cap Statements(f))),
                before' => \E file \in {global, local} \ {Missing} : BeginsEmpty(file)
         PROVE  IInv'
    <2>1. /\ Buffer(buf', n) /\ buf'[e] = NUL /\ \A k \in (e + 1)..(n + 1) : buf'[k] = buf[k]
          /\ next' = (IF buf[e] = NUL THEN 0 ELSE e + 1) /\ pc' = pc
      BY <1>11
    <2>2. LineRead(Current, LineStart, e) /\ n = Len(Current)
      BY <1>4 DEF f, j, n
    <2>3. /\ e \in Statements(Current) => IsGood(Statement(Current, e))
          /\ settings' = Set(Given, Current, Done(Current) \cup ({e} \cap Statements(Current)))
      BY <1>11 DEF f, s
    <2> QED
      BY <1>1, <1>11, <2>1, <2>2, <2>3, GoOnStep
  <1>12. settings = Set(Given, f, Done(f))
    BY <1>1 DEF IInv, SetInv, f
  <1>13. CASE /\ text[at] = NUL /\ Read(text) /\ settings' = settings
              /\ before' = (before \/ ReadsBefore(code, j))
    <2>1. Good(text) /\ e \notin Statements(f)
      BY <1>6, <1>7, <1>13
    <2>2. Done(f) \cup ({e} \cap Statements(f)) = Done(f)
      BY <2>1
    <2>3. before' => \E file \in {global, local} \ {Missing} : BeginsEmpty(file)
      BY <1>6, <1>8, <1>9, <1>13
    <2>4. settings' = Set(Given, f, Done(f) \cup ({e} \cap Statements(f)))
      BY <1>12, <1>13, <2>2
    <2>5. Read(text)
      BY <1>13
    <2> QED
      BY <1>11, <2>1, <2>3, <2>4, <2>5
  <1>14. CASE text[at] # NUL /\ text[eq] = NUL /\ Error /\ before' = before
    BY <1>6, <1>7, <1>9, <1>10, <1>14
  <1>15. CASE /\ text[at] # NUL /\ text[eq] = EQ
              /\ IF key \in Keys /\ value \notin Bad
                 THEN (Read(valued) /\ settings' = [settings EXCEPT ![key] = value]) \/ Stop
                 ELSE Error
              /\ before' = (before \/ ReadsBefore(split, at))
    <2>1. before' => \E file \in {global, local} \ {Missing} : BeginsEmpty(file)
      BY <1>6, <1>8, <1>9, <1>15
    <2>2. /\ e \in Statements(f) /\ Good(valued)
          /\ IsGood(s) <=> key \in Keys /\ value \notin Bad
      BY <1>6, <1>7, <1>15 DEF IsGood
    <2>3. CASE ~ (key \in Keys /\ value \notin Bad)
      BY <1>10, <1>15, <2>1, <2>2, <2>3
    <2>4. CASE Stop
      BY <1>1, <2>1, <2>4, StopStep
    <2>5. CASE key \in Keys /\ value \notin Bad /\ ~ Stop
      <3>1. Read(valued) /\ settings' = [settings EXCEPT ![key] = value]
        BY <1>15, <2>5
      <3>2. Done(f) \in SUBSET Nat /\ e \in Nat /\ \A d \in Done(f) : d < e
        <4>1. \A d \in Done(f) : d < e
          BY <1>3, <1>4, DoneLine
        <4>2. Ends(f) \in SUBSET (1..(Len(f) + 1)) /\ Statements(f) \subseteq Ends(f) /\ Len(f) \in Nat
          BY <1>3, EndsFacts
        <4>3. Done(f) \subseteq Statements(f)
          BY DEF Done
        <4> QED
          BY <1>7, <4>1, <4>2, <4>3
      <3>3. key = KeyOf(s) /\ value = ValueOf(s)
        BY <1>6, <1>15
      <3>4. Set(Given, f, Done(f) \cup {e}) = [Set(Given, f, Done(f)) EXCEPT ![KeyOf(s)] = ValueOf(s)]
        BY <2>5, <3>2, <3>3, SetLast DEF s
      <3>5. {e} \cap Statements(f) = {e}
        BY <2>2
      <3>6. settings' = Set(Given, f, Done(f) \cup ({e} \cap Statements(f)))
        BY <1>12, <3>1, <3>3, <3>4, <3>5
      <3>7. IsGood(s)
        BY <2>2, <2>5
      <3> QED
        BY <1>11, <2>1, <2>2, <3>1, <3>6, <3>7
    <2> QED
      BY <2>3, <2>5, <2>4
  <1> QED
    BY <1>2, <1>13, <1>14, <1>15

LEMMA NextInv == IInv /\ [Next]_vars => IInv'
  BY OpenGlobalInv, ReadLineInv, OpenLocalInv, FinishInv, StutterInv DEF Next

-----------------------------------------------------------------------------
(* The theorem                                                             *)

\* Whatever the two files hold, of any length, however often strtok, the trimming
\* and the cut at the equals sign write into the buffer: the recorder starts with the
\* options the lines of the files say, or does not start because one of them says
\* nothing good, and the byte before the buffer is read only for a file whose first
\* line is empty (configParse, configParseFile and configTrim in config.c).
THEOREM FilesAreRead == Spec => []AsWritten
  <1>1. IInv => AsWritten
    BY DEF IInv
  <1> QED
    BY <1>1, InitInv, NextInv, PTL DEF Spec

=============================================================================
