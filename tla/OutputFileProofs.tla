-------------------------- MODULE OutputFileProofs --------------------------
(***************************************************************************)
(* Theorems about OutputFile for any recorders, any number of saves and    *)
(* any paths, however deep.  A call of rsDirectoryCreate climbs a path one *)
(* slash at a time and comes down again: the invariant says where it is by *)
(* the slashes it holds, and what exists above it when it comes down.      *)
(***************************************************************************)
EXTENDS OutputFile, Integers, SequenceTheorems, TLAPS

Labels == {"idle", "call", "mkdir", "again", "open", "write", "command", "destroy", "failed"}
Calling == {"call", "mkdir", "again"}

\* No file is saved in the root directory itself: its own directory is the empty
\* string, which mkdir refuses (util.c:40).
BelowRoot ==
    \A f \in Formats : \A t \in Seconds : ~ (Len(f[t]) = 2 /\ f[t][1] = NoName)

\* The name tells every second from the others, as the default's does.
TellsSeconds ==
    \A f \in Formats : \A t, u \in Seconds : f[t] = f[u] => t = u

WorldTypes ==
    /\ outputFile \in Formats /\ now \in Seconds
    /\ entry \in [Directories -> {"none", "dir", "file"}]
    /\ content \in [Paths -> SUBSET (1..Len(saves))]
    /\ saves \in Seq([second : Seconds, path : Paths]) /\ Len(saves) <= MaxSaves
    /\ told \subseteq 1..Len(saves)

RecorderTypes ==
    /\ pc \in [Recorders -> Labels]
    /\ current \in [Recorders -> 0..Len(saves)]
    /\ slash \in [Recorders -> Seq(Nat)]
    /\ nul \in [Recorders -> SUBSET Nat]
    /\ excused \in [Recorders -> BOOLEAN]

\* What exists is in a directory.
Tree == \A d \in Directories : Is(d, "none") \/ \A a \in Above(d) : Is(a, "dir")

\* The calls of a recorder hold the last slashes of its path, from the last one up,
\* so many that the first name is left; they are the terminators of its copy.
Holds(r) ==
    /\ pc[r] = "idle" <=> current[r] = 0
    /\ pc[r] \notin Calling => slash[r] = <<>>
    /\ pc[r] \in {"mkdir", "again"} => slash[r] # <<>>
    /\ slash[r] = <<>> => nul[r] = {}
    /\ slash[r] # <<>> =>
         /\ Len(slash[r]) < Len(Path(r))
         /\ nul[r] = (Len(Path(r)) - Len(slash[r]) + 1)..Len(Path(r))
         /\ \A k \in 1..Len(slash[r]) : slash[r][k] = Len(Path(r)) - k + 1

CallsInv == \A r \in Recorders : Holds(r)

\* The climb ends below the root.
Climbs(r) ==
    /\ pc[r] = "call" /\ Path(r)[1] = NoName => Len(Path(r)) - Len(slash[r]) >= 3
    /\ pc[r] \in {"mkdir", "again"} /\ Path(r)[1] = NoName => Len(Path(r)) - Len(slash[r]) >= 2

\* On the way down the directory above exists, unless one was removed.
Made(r) ==
    ~ excused[r] =>
        /\ pc[r] # "failed"
        /\ pc[r] = "again" => ~ Is(Parent(Visible(r)), "none")
        /\ pc[r] = "open" => ~ Is(Parent(Path(r)), "none")

MadeInv == BelowRoot => \A r \in Recorders : Climbs(r) /\ Made(r)

\* Another save has the same path.
Shared(s) == \E t \in 1..Len(saves) : t # s /\ saves[t].path = saves[s].path

\* A file that is written or complete holds its replay alone, or was shared.
KeptInv ==
    /\ \A t \in 1..Len(saves) : saves[t].path = outputFile[saves[t].second]
    /\ \A s \in told : content[saves[s].path] = {s} \/ Shared(s)
    /\ \A r \in Recorders : pc[r] \in {"write", "command"} =>
         content[Path(r)] = {current[r]} \/ Shared(current[r])

\* The inductive invariant.
IInv == WorldTypes /\ RecorderTypes /\ Tree /\ CallsInv /\ MadeInv /\ KeptInv

-----------------------------------------------------------------------------
(* Paths and the directories above them.                                   *)

\* A path of one name.
LEMMA OneName ==
    ASSUME NEW S, NEW e \in S
    PROVE  <<e>> \in Seq(S) /\ Len(<<e>>) = 1 /\ <<e>>[1] = e
  OBVIOUS

\* The first names of a path.
LEMMA PrefixFacts ==
    ASSUME NEW p \in Seq(STRING), NEW n \in 0..Len(p)
    PROVE  /\ SubSeq(p, 1, n) \in Seq(STRING)
           /\ Len(SubSeq(p, 1, n)) = n
           /\ \A i \in 1..n : SubSeq(p, 1, n)[i] = p[i]
  <1>1. Len(p) \in Nat /\ n \in Int /\ n >= 0 /\ \A i \in 1..n : p[i] \in STRING
    BY LenProperties
  <1>2. /\ SubSeq(p, 1, n) \in Seq(STRING)
        /\ Len(SubSeq(p, 1, n)) = IF 1 <= n THEN n - 1 + 1 ELSE 0
        /\ \A i \in 1..(n - 1 + 1) : SubSeq(p, 1, n)[i] = p[1 + i - 1]
    BY <1>1, SubSeqProperties
  <1>3. Len(SubSeq(p, 1, n)) = n
    BY <1>1, <1>2
  <1>4. \A i \in 1..n : SubSeq(p, 1, n)[i] = p[i]
    <2> TAKE i \in 1..n
    <2>1. i \in 1..(n - 1 + 1) /\ 1 + i - 1 = i
      BY <1>1
    <2> QED
      BY <1>2, <2>1
  <1> QED
    BY <1>2, <1>3, <1>4

LEMMA PrefixOfPrefix ==
    ASSUME NEW p \in Seq(STRING), NEW n \in 0..Len(p), NEW k \in 0..n
    PROVE  SubSeq(SubSeq(p, 1, n), 1, k) = SubSeq(p, 1, k)
  <1> DEFINE q == SubSeq(p, 1, n)
  <1>1. q \in Seq(STRING) /\ Len(q) = n /\ \A i \in 1..n : q[i] = p[i]
    BY PrefixFacts
  <1>2. k \in 0..Len(p) /\ \A i \in 1..k : i \in 1..n
    BY LenProperties
  <1> HIDE DEF q
  <1>3. k \in 0..Len(q)
    BY <1>1
  <1>4. SubSeq(q, 1, k) \in Seq(STRING) /\ Len(SubSeq(q, 1, k)) = k /\ \A i \in 1..k : SubSeq(q, 1, k)[i] = q[i]
    BY <1>1, <1>3, PrefixFacts
  <1>5. SubSeq(p, 1, k) \in Seq(STRING) /\ Len(SubSeq(p, 1, k)) = k /\ \A i \in 1..k : SubSeq(p, 1, k)[i] = p[i]
    BY <1>2, PrefixFacts
  <1>6. \A i \in 1..Len(SubSeq(q, 1, k)) : SubSeq(q, 1, k)[i] = SubSeq(p, 1, k)[i]
    BY <1>1, <1>2, <1>4, <1>5
  <1>7. SubSeq(q, 1, k) = SubSeq(p, 1, k)
    BY <1>4, <1>5, <1>6, SeqEqual
  <1> QED
    BY <1>7 DEF q

\* The directory of a path, and what is above a part of it.
LEMMA PrefixAbove ==
    ASSUME NEW p \in Seq(STRING), NEW n \in 0..Len(p)
    PROVE  /\ Above(SubSeq(p, 1, n)) = {SubSeq(p, 1, k) : k \in 0..(n - 1)}
           /\ n >= 1 => /\ Front(SubSeq(p, 1, n)) = SubSeq(p, 1, n - 1)
                        /\ Above(SubSeq(p, 1, n)) =
                             Above(SubSeq(p, 1, n - 1)) \cup {SubSeq(p, 1, n - 1)}
  <1>1. Len(p) \in Nat /\ n \in Nat
    BY LenProperties
  <1>2. ASSUME NEW m \in 0..n
        PROVE  Above(SubSeq(p, 1, m)) = {SubSeq(p, 1, k) : k \in 0..(m - 1)}
    <2>1. m \in 0..Len(p)
      BY <1>1
    <2>2. Len(SubSeq(p, 1, m)) = m
      BY <2>1, PrefixFacts
    <2>3. \A k \in 0..(m - 1) : SubSeq(SubSeq(p, 1, m), 1, k) = SubSeq(p, 1, k)
      <3> TAKE k \in 0..(m - 1)
      <3>1. k \in 0..m
        BY <2>1
      <3> QED
        BY <2>1, <3>1, PrefixOfPrefix
    <2>4. Above(SubSeq(p, 1, m)) = {SubSeq(SubSeq(p, 1, m), 1, k) : k \in 0..(m - 1)}
      BY <2>2 DEF Above
    <2> QED
      BY <2>3, <2>4
  <1>3. n \in 0..n
    BY <1>1
  <1>4. ASSUME n >= 1
        PROVE  /\ Front(SubSeq(p, 1, n)) = SubSeq(p, 1, n - 1)
               /\ Above(SubSeq(p, 1, n)) = Above(SubSeq(p, 1, n - 1)) \cup {SubSeq(p, 1, n - 1)}
    <2>1. n - 1 \in 0..n /\ 0..(n - 1) = 0..((n - 1) - 1) \cup {n - 1}
      BY <1>1, <1>4
    <2>2. Front(SubSeq(p, 1, n)) = SubSeq(SubSeq(p, 1, n), 1, n - 1)
      BY PrefixFacts DEF Front
    <2>3. SubSeq(SubSeq(p, 1, n), 1, n - 1) = SubSeq(p, 1, n - 1)
      BY <2>1, PrefixOfPrefix
    <2>4. Above(SubSeq(p, 1, n)) = {SubSeq(p, 1, k) : k \in 0..(n - 1)}
      BY <1>2, <1>3
    <2>5. Above(SubSeq(p, 1, n - 1)) = {SubSeq(p, 1, k) : k \in 0..((n - 1) - 1)}
      BY <1>2, <2>1
    <2> QED
      BY <2>1, <2>2, <2>3, <2>4, <2>5
  <1> QED
    BY <1>2, <1>3, <1>4

Dir == Directories \cup Roots

\* The paths of a format, and the directories above them.
LEMMA PathFacts ==
    ASSUME outputFile \in Formats, NEW p \in Paths
    PROVE  /\ p \in Seq(STRING) /\ Len(p) \in Nat \ {0} /\ p # <<NoName>>
           /\ \A n \in 0..(Len(p) - 1) : SubSeq(p, 1, n) \in Dir
  <1>1. p \in Seq(STRING) /\ p # <<>> /\ p # <<NoName>>
    BY FormatAssumption DEF Paths
  <1>2. Len(p) \in Nat \ {0}
    BY <1>1, EmptySeq
  <1>3. ASSUME NEW n \in 0..(Len(p) - 1)
        PROVE  SubSeq(p, 1, n) \in Dir
    <2>1. SubSeq(p, 1, n) \in Above(p)
      BY DEF Above
    <2>2. SubSeq(p, 1, n) \in UNION {Above(q) : q \in Paths}
      BY <2>1
    <2> QED
      BY <2>2 DEF Dir, Directories
  <1> QED
    BY <1>1, <1>2, <1>3

\* The first names of a path that are no directory but a root.
LEMMA RootPrefix ==
    ASSUME NEW p \in Seq(STRING), NEW n \in 0..Len(p)
    PROVE  /\ SubSeq(p, 1, n) = <<>> <=> n = 0
           /\ SubSeq(p, 1, n) = <<NoName>> <=> n = 1 /\ p[1] = NoName
  <1>1. Len(p) \in Nat
    BY LenProperties
  <1>2. /\ SubSeq(p, 1, n) \in Seq(STRING)
        /\ Len(SubSeq(p, 1, n)) = n
        /\ \A i \in 1..n : SubSeq(p, 1, n)[i] = p[i]
    BY PrefixFacts
  <1>3. SubSeq(p, 1, n) = <<>> <=> n = 0
    <2>1. Len(<<>>) = 0
      BY EmptySeq
    <2> QED
      BY <1>2, <2>1, EmptySeq
  <1>4. <<NoName>> \in Seq(STRING) /\ Len(<<NoName>>) = 1 /\ <<NoName>>[1] = NoName
    BY NameAssumption, OneName
  <1>5. n = 1 /\ p[1] = NoName => SubSeq(p, 1, n) = <<NoName>>
    <2> SUFFICES ASSUME n = 1, p[1] = NoName PROVE SubSeq(p, 1, n) = <<NoName>>
      OBVIOUS
    <2>1. 1 \in 1..n
      OBVIOUS
    <2>2. Len(SubSeq(p, 1, n)) = Len(<<NoName>>) /\ \A i \in 1..Len(SubSeq(p, 1, n)) : SubSeq(p, 1, n)[i] = <<NoName>>[i]
      BY <1>2, <1>4, <2>1
    <2> QED
      BY <1>2, <1>4, <2>2, SeqEqual
  <1>6. SubSeq(p, 1, n) = <<NoName>> => n = 1 /\ p[1] = NoName
    <2> SUFFICES ASSUME SubSeq(p, 1, n) = <<NoName>> PROVE n = 1 /\ p[1] = NoName
      OBVIOUS
    <2>1. n = 1
      BY <1>2, <1>4
    <2>2. 1 \in 1..n
      BY <2>1
    <2> QED
      BY <1>2, <1>4, <2>1, <2>2
  <1> QED
    BY <1>3, <1>5, <1>6

\* The directories form a tree above which are the roots.
LEMMA DirFacts ==
    ASSUME outputFile \in Formats, NEW d \in Directories
    PROVE  /\ Parent(d) \in Dir /\ Above(d) \subseteq Dir
           /\ Above(d) = Above(Parent(d)) \cup {Parent(d)}
           /\ d \notin Roots
  <1>0. PICK p \in Paths : d \in Above(p) \ Roots
    BY DEF Directories
  <1>1. PICK n \in 0..(Len(p) - 1) : d = SubSeq(p, 1, n)
    BY <1>0 DEF Above
  <1>2. p \in Seq(STRING) /\ Len(p) \in Nat \ {0} /\ \A k \in 0..(Len(p) - 1) : SubSeq(p, 1, k) \in Dir
    BY PathFacts
  <1>3. n \in 0..Len(p) /\ d \notin Roots
    BY <1>0, <1>2
  <1>4. n # 0
    BY <1>1, <1>2, <1>3, RootPrefix DEF Roots
  <1>5. n >= 1 /\ n - 1 \in 0..(Len(p) - 1) /\ \A k \in 0..(n - 1) : k \in 0..(Len(p) - 1)
    BY <1>2, <1>4
  <1>6. Above(d) = {SubSeq(p, 1, k) : k \in 0..(n - 1)} /\ Parent(d) = SubSeq(p, 1, n - 1)
        /\ Above(d) = Above(SubSeq(p, 1, n - 1)) \cup {SubSeq(p, 1, n - 1)}
    BY <1>1, <1>2, <1>3, <1>5, PrefixAbove DEF Parent
  <1> QED
    BY <1>2, <1>3, <1>5, <1>6

LEMMA RootsAbove ==
    Above(<<>>) = {} /\ Above(<<NoName>>) = {<<>>}
  <1>1. <<>> \in Seq(STRING) /\ Len(<<>>) = 0 /\ <<NoName>> \in Seq(STRING) /\ Len(<<NoName>>) = 1
    BY NameAssumption, OneName, EmptySeq
  <1>2. Above(<<>>) = {}
    BY <1>1 DEF Above
  <1>3. SubSeq(<<NoName>>, 1, 0) = <<>>
    BY <1>1, RootPrefix
  <1>4. 0..(Len(<<NoName>>) - 1) = {0}
    BY <1>1
  <1>5. Above(<<NoName>>) = {SubSeq(<<NoName>>, 1, n) : n \in {0}}
    BY <1>4 DEF Above
  <1> QED
    BY <1>2, <1>3, <1>5

-----------------------------------------------------------------------------
(* A recorder's copy of its path.                                          *)

\* The least element of a set.
LEMMA MinIs ==
    ASSUME NEW S \in SUBSET Int, NEW x \in S, \A y \in S : x <= y
    PROVE  Min(S) = x
  <1> DEFINE z == Min(S)
  <1>1. z \in S /\ \A y \in S : z <= y
    BY DEF Min
  <1> HIDE DEF z
  <1>2. z = x
    BY <1>1
  <1> QED
    BY <1>2 DEF z

\* The last element removed.
LEMMA FrontFacts ==
    ASSUME NEW S, NEW s \in Seq(S), s # <<>>
    PROVE  /\ Front(s) \in Seq(S)
           /\ Len(s) \in Nat \ {0}
           /\ Len(Front(s)) = Len(s) - 1
           /\ \A k \in 1..(Len(s) - 1) : Front(s)[k] = s[k]
           /\ Front(s) = <<>> <=> Len(s) = 1
           /\ Last(s) = s[Len(s)]
  <1> DEFINE n == Len(s)
  <1>1. n \in Nat \ {0}
    BY EmptySeq
  <1>2. 1 \in Int /\ n - 1 \in Int /\ \A i \in 1..(n - 1) : s[i] \in S
    BY <1>1
  <1>3. /\ Front(s) \in Seq(S)
        /\ Len(Front(s)) = IF 1 <= n - 1 THEN n - 1 - 1 + 1 ELSE 0
        /\ \A i \in 1..(n - 1 - 1 + 1) : Front(s)[i] = s[1 + i - 1]
    BY <1>2, SubSeqProperties DEF Front
  <1> HIDE DEF n
  <1>4. Len(Front(s)) = n - 1
    BY <1>1, <1>3
  <1>5. \A k \in 1..(n - 1) : Front(s)[k] = s[k]
    <2> TAKE k \in 1..(n - 1)
    <2>1. k \in 1..(n - 1 - 1 + 1) /\ 1 + k - 1 = k
      BY <1>1
    <2> QED
      BY <1>3, <2>1
  <1>6. Front(s) = <<>> <=> n = 1
    <2>1. Front(s) = <<>> <=> Len(Front(s)) = 0
      BY <1>3, EmptySeq, LenProperties
    <2> QED
      BY <1>1, <1>4, <2>1
  <1> QED
    BY <1>1, <1>3, <1>4, <1>5, <1>6 DEF Last, n

\* How many names the string in the copy has.
Depth(r) == Len(Path(r)) - Len(slash[r])

\* The path and what is left of it: the copy ends at the last slash held.
Copy(r) ==
    /\ Path(r) \in Paths /\ Path(r) \in Seq(STRING)
    /\ Len(Path(r)) \in Nat \ {0} /\ Len(slash[r]) \in Nat
    /\ Depth(r) \in 1..Len(Path(r))
    /\ Visible(r) = SubSeq(Path(r), 1, Depth(r))
    /\ Visible(r) \in Seq(STRING) /\ Len(Visible(r)) = Depth(r)
    /\ Parent(Visible(r)) = SubSeq(Path(r), 1, Depth(r) - 1)
    /\ Above(Visible(r)) = Above(Parent(Visible(r))) \cup {Parent(Visible(r))}
    /\ Parent(Visible(r)) \in Dir
    /\ Depth(r) # Len(Path(r)) => Visible(r) \in Dir
    /\ Visible(r) = <<NoName>> <=> Depth(r) = 1 /\ Path(r)[1] = NoName

LEMMA CopyFacts ==
    ASSUME WorldTypes, RecorderTypes, NEW r \in Recorders, Holds(r), current[r] # 0
    PROVE  Copy(r)
  <1> DEFINE p == Path(r)
             m == Len(slash[r])
             n == Len(p)
  <1>1. p \in Paths
    <2>1. Len(saves) \in Nat /\ current[r] \in 0..Len(saves)
      BY LenProperties DEF WorldTypes, RecorderTypes
    <2>2. current[r] \in 1..Len(saves)
      BY <2>1
    <2>3. saves[current[r]] \in [second : Seconds, path : Paths]
      BY <2>2, ElementOfSeq DEF WorldTypes
    <2> QED
      BY <2>3 DEF Path
  <1>2. p \in Seq(STRING) /\ n \in Nat \ {0} /\ \A k \in 0..(n - 1) : SubSeq(p, 1, k) \in Dir
    BY <1>1, PathFacts DEF WorldTypes
  <1>3. slash[r] \in Seq(Nat) /\ m \in Nat /\ (slash[r] = <<>> <=> m = 0)
    BY EmptySeq, LenProperties DEF RecorderTypes
  <1>4. m \in 0..(n - 1)
    <2>1. slash[r] # <<>> => m < n
      BY DEF Holds
    <2> HIDE DEF n, m
    <2> QED
      BY <1>2, <1>3, <2>1
  <1>5. Min({k - 1 : k \in nul[r]} \cup {n}) = n - m
    <2> DEFINE S == {k - 1 : k \in nul[r]} \cup {n}
    <2>1. CASE slash[r] = <<>>
      <3>1. S = {n} /\ m = 0
        BY <1>3, <2>1 DEF Holds
      <3> HIDE DEF S, n, m
      <3>2. S \in SUBSET Int /\ n \in S /\ \A y \in S : n <= y
        BY <1>2, <3>1
      <3>3. Min(S) = n
        BY <3>2, MinIs
      <3> QED
        BY <1>2, <3>1, <3>3 DEF S, n, m
    <2>2. CASE slash[r] # <<>>
      <3>1. nul[r] = (n - m + 1)..n /\ m # 0
        BY <1>3, <2>2 DEF Holds
      <3>2. n - m + 1 \in nul[r] /\ (n - m + 1) - 1 = n - m
        BY <1>2, <1>4, <3>1
      <3>3. n - m \in S
        BY <3>2
      <3>4. S \in SUBSET Int /\ \A y \in S : n - m <= y
        <4> SUFFICES ASSUME NEW y \in S PROVE y \in Int /\ n - m <= y
          OBVIOUS
        <4> HIDE DEF n, m
        <4>1. y = n \/ \E k \in (n - m + 1)..n : y = k - 1
          BY <3>1
        <4> QED
          BY <1>2, <1>4, <4>1
      <3> HIDE DEF S
      <3>5. Min(S) = n - m
        BY <3>3, <3>4, MinIs
      <3> QED
        BY <3>5 DEF S
    <2> QED
      BY <2>1, <2>2
  <1>6. Visible(r) = SubSeq(p, 1, Depth(r)) /\ Depth(r) = n - m
    BY <1>5 DEF Visible, Depth
  <1> HIDE DEF p, m, n
  <1>7. /\ Depth(r) \in 1..n /\ Depth(r) \in 0..n /\ Depth(r) >= 1 /\ Depth(r) - 1 \in 0..(n - 1)
        /\ Depth(r) # n => Depth(r) \in 0..(n - 1)
    BY <1>2, <1>4, <1>6
  <1>8. /\ Parent(Visible(r)) = SubSeq(p, 1, Depth(r) - 1)
        /\ Above(Visible(r)) = Above(Parent(Visible(r))) \cup {Parent(Visible(r))}
    <2>1. /\ Front(SubSeq(p, 1, Depth(r))) = SubSeq(p, 1, Depth(r) - 1)
          /\ Above(SubSeq(p, 1, Depth(r))) =
               Above(SubSeq(p, 1, Depth(r) - 1)) \cup {SubSeq(p, 1, Depth(r) - 1)}
      BY <1>2, <1>7, PrefixAbove DEF n
    <2> QED
      BY <1>6, <2>1 DEF Parent
  <1>9. Visible(r) \in Seq(STRING) /\ Len(Visible(r)) = Depth(r)
    BY <1>2, <1>6, <1>7, PrefixFacts DEF n
  <1>10. Visible(r) = <<NoName>> <=> Depth(r) = 1 /\ p[1] = NoName
    BY <1>2, <1>6, <1>7, RootPrefix DEF n
  <1>11. Parent(Visible(r)) \in Dir /\ (Depth(r) # n => Visible(r) \in Dir)
    BY <1>2, <1>6, <1>7, <1>8
  <1> QED
    BY <1>1, <1>2, <1>3, <1>6, <1>7, <1>8, <1>9, <1>10, <1>11 DEF Copy, p, m, n

\* What the errors of mkdir say about a directory: when the one above exists, none
\* above is missing.
LEMMA NotMissing ==
    ASSUME WorldTypes, Tree, NEW d,
           Parent(d) \in Dir, Above(d) = Above(Parent(d)) \cup {Parent(d)},
           ~ Is(Parent(d), "none"), d # <<NoName>>
    PROVE  ~ Missing(d)
  <1>1. CASE Parent(d) \in Roots
    <2>1. \A a \in Above(d) : a \in Roots
      BY <1>1, RootsAbove DEF Roots
    <2> QED
      BY <2>1 DEF Missing, Is
  <1>2. CASE Parent(d) \notin Roots
    <2>1. Parent(d) \in Directories
      BY <1>2 DEF Dir
    <2>2. \A a \in Above(Parent(d)) : Is(a, "dir")
      BY <2>1 DEF Tree
    <2>3. \A a \in Above(Parent(d)) : ~ Is(a, "none")
      BY <2>2 DEF Is
    <2> QED
      BY <2>3 DEF Missing
  <1> QED
    BY <1>1, <1>2

-----------------------------------------------------------------------------
(* The initial states, and the steps of those who use the file system too. *)

LEMMA SamePaths ==
    outputFile' = outputFile => Paths' = Paths /\ Directories' = Directories /\ Dir' = Dir
  BY DEF Paths, Directories, Dir

LEMMA InitialInv == Init => IInv
  <1> SUFFICES ASSUME Init PROVE IInv
    OBVIOUS
  <1> USE DEF Init
  <1>1. saves = <<>> /\ saves \in Seq([second : Seconds, path : Paths]) /\ Len(saves) = 0
    BY EmptySeq
  <1>2. WorldTypes
    BY <1>1, BoundAssumption DEF WorldTypes
  <1>3. <<>> \in Seq(Nat)
    BY EmptySeq
  <1>4. RecorderTypes
    BY <1>1, <1>3 DEF RecorderTypes, Labels
  <1>5. Tree
    BY DirFacts DEF Tree, Is
  <1>6. CallsInv
    BY DEF CallsInv, Holds, Calling
  <1>7. MadeInv
    BY DEF MadeInv, Climbs, Made
  <1>8. KeptInv
    BY <1>1 DEF KeptInv
  <1> QED
    BY <1>2, <1>4, <1>5, <1>6, <1>7, <1>8 DEF IInv

\* A directory or a file made where nothing was: what stood stands, in a directory.
Grown ==
    /\ entry' \in [Directories -> {"none", "dir", "file"}]
    /\ Tree'
    /\ \A x \in Dir : ~ Is(x, "none") => ~ Is(x, "none")'

LEMMA MakingGrows ==
    ASSUME WorldTypes, Tree, outputFile' = outputFile,
           NEW d \in Directories, NEW kind \in {"dir", "file"},
           Is(d, "none"), Is(Parent(d), "dir"),
           entry' = [entry EXCEPT ![d] = kind]
    PROVE  Grown
  <1>1. entry' \in [Directories -> {"none", "dir", "file"}]
    BY DEF WorldTypes
  <1>2. \A x \in Directories : x # d => entry'[x] = entry[x]
    BY DEF WorldTypes
  <1>3. entry'[d] = kind /\ entry[d] = "none" /\ d \notin Roots
    BY DirFacts DEF WorldTypes, Is
  <1>4. \A x \in Dir : ~ Is(x, "none") => ~ Is(x, "none")'
    BY <1>2, <1>3 DEF Dir, Is, Roots
  <1>5. \A x \in Dir : Is(x, "dir") => Is(x, "dir")'
    BY <1>2, <1>3 DEF Dir, Is, Roots
  <1>6. ASSUME NEW e \in Directories
        PROVE  Is(e, "none")' \/ \A a \in Above(e) : Is(a, "dir")'
    <2>1. Parent(e) \in Dir /\ Above(e) \subseteq Dir /\ Above(e) = Above(Parent(e)) \cup {Parent(e)} /\ e \notin Roots
      BY DirFacts DEF WorldTypes
    <2>2. CASE e # d
      <3>1. Is(e, "none") => Is(e, "none")'
        BY <1>2, <2>1, <2>2 DEF Is, Roots
      <3> QED
        BY <1>5, <2>1, <3>1 DEF Tree
    <2>3. CASE e = d
      <3>1. CASE Parent(d) \in Roots
        <4>1. \A a \in Above(d) : a \in Roots
          BY <2>1, <2>3, <3>1, RootsAbove DEF Roots
        <4> QED
          BY <2>3, <4>1 DEF Is, Roots
      <3>2. CASE Parent(d) \notin Roots
        <4>1. Parent(d) \in Directories /\ ~ Is(Parent(d), "none")
          BY <2>1, <2>3, <3>2 DEF Dir, Is
        <4>2. \A a \in Above(Parent(d)) : Is(a, "dir")
          BY <4>1 DEF Tree
        <4> QED
          BY <1>5, <2>1, <2>3, <4>2
      <3> QED
        BY <3>1, <3>2
    <2> QED
      BY <2>2, <2>3
  <1>7. Tree'
    BY <1>6, SamePaths DEF Tree
  <1> QED
    BY <1>1, <1>4, <1>7 DEF Grown

\* What a recorder has climbed to stands as long as nothing is removed.
LEMMA StillMade ==
    ASSUME WorldTypes, RecorderTypes, NEW q \in Recorders, Holds(q), Made(q),
           outputFile' = outputFile,
           \A x \in Dir : ~ Is(x, "none") => ~ Is(x, "none")',
           pc'[q] = pc[q], slash'[q] = slash[q], nul'[q] = nul[q], excused'[q] = excused[q],
           current[q] # 0 => Path(q)' = Path(q)
    PROVE  Made(q)'
  <1>1. CASE current[q] = 0
    BY <1>1 DEF Holds, Made
  <1>2. CASE current[q] # 0
    <2>1. Copy(q) /\ Path(q)' = Path(q)
      BY <1>2, CopyFacts
    <2>2. Visible(q)' = Visible(q)
      BY <2>1 DEF Visible
    <2>3. Parent(Visible(q)) \in Dir
      BY <2>1 DEF Copy
    <2>4. pc[q] = "open" => Parent(Path(q)) \in Dir
      <3> SUFFICES ASSUME pc[q] = "open" PROVE Parent(Path(q)) \in Dir
        OBVIOUS
      <3>1. slash[q] = <<>> /\ Len(slash[q]) = 0
        BY EmptySeq DEF Holds, Calling
      <3>2. Visible(q) = SubSeq(Path(q), 1, Len(Path(q))) /\ Path(q) \in Seq(STRING)
        BY <2>1, <3>1 DEF Copy, Depth
      <3> QED
        BY <2>3, <3>2, SubSeqFull
    <2>5. Parent(Visible(q))' = Parent(Visible(q)) /\ Parent(Path(q))' = Parent(Path(q))
      BY <2>1, <2>2 DEF Parent
    <2>6. ~ Is(Parent(Visible(q)), "none") => ~ Is(Parent(Visible(q)), "none")'
      BY <2>3, <2>5 DEF Is
    <2>7. pc[q] = "open" /\ ~ Is(Parent(Path(q)), "none") => ~ Is(Parent(Path(q)), "none")'
      BY <2>4, <2>5 DEF Is
    <2> QED
      BY <2>6, <2>7 DEF Made
  <1> QED
    BY <1>1, <1>2

LEMMA WorldKeeps == IInv /\ (OthersMake \/ OthersRemove \/ Clock) => IInv'
  <1> SUFFICES ASSUME IInv, OthersMake \/ OthersRemove \/ Clock PROVE IInv'
    OBVIOUS
  <1> USE DEF IInv
  <1>1. /\ UNCHANGED <<outputFile, content, saves, told, pc, current, slash, nul>>
        /\ now' \in Seconds
    BY DEF OthersMake, OthersRemove, Clock, history, WorldTypes
  <1>2. CallsInv' /\ KeptInv'
    <2>1. CallsInv'
      BY <1>1 DEF CallsInv, Holds, Path
    <2>2. KeptInv'
      BY <1>1 DEF KeptInv, Path, Shared
    <2> QED
      BY <2>1, <2>2
  <1>3. /\ Paths' = Paths /\ Directories' = Directories
        /\ \A q \in Recorders : Path(q)' = Path(q) /\ (Climbs(q) => Climbs(q)')
    BY <1>1, SamePaths DEF Path, Climbs
  <1>4. CASE OthersMake
    <2>1. PICK d \in Directories, kind \in {"dir", "file"} :
            Is(d, "none") /\ Is(Parent(d), "dir") /\ entry' = [entry EXCEPT ![d] = kind]
      BY <1>4 DEF OthersMake
    <2>2. Grown /\ excused' = excused
      BY <1>1, <1>4, <2>1, MakingGrows DEF OthersMake
    <2>3. WorldTypes' /\ RecorderTypes' /\ Tree'
      BY <1>1, <1>3, <2>2 DEF WorldTypes, RecorderTypes, Grown
    <2>4. \A q \in Recorders : Made(q) => Made(q)'
      BY <1>1, <1>3, <2>2, StillMade DEF Grown, CallsInv
    <2> QED
      BY <1>2, <1>3, <2>3, <2>4 DEF MadeInv
  <1>5. CASE OthersRemove
    <2>1. PICK d \in Directories :
            /\ \A e \in Directories : d \in Above(e) => Is(e, "none")
            /\ entry' = [entry EXCEPT ![d] = "none"]
      BY <1>5 DEF OthersRemove
    <2>2. /\ entry' \in [Directories -> {"none", "dir", "file"}] /\ entry'[d] = "none"
          /\ \A x \in Directories : x # d => entry'[x] = entry[x]
      BY <2>1 DEF WorldTypes
    <2>3. excused' = [r \in Recorders |-> pc[r] # "idle"]
      BY <1>5 DEF OthersRemove
    <2>4. WorldTypes' /\ RecorderTypes'
      BY <1>1, <1>3, <2>2, <2>3 DEF WorldTypes, RecorderTypes
    <2>5. ASSUME NEW e \in Directories
          PROVE  Is(e, "none")' \/ \A a \in Above(e) : Is(a, "dir")'
      <3>1. Above(e) \subseteq Dir /\ e \notin Roots
        BY DirFacts DEF WorldTypes
      <3>2. CASE e = d \/ d \in Above(e)
        BY <2>1, <2>2, <3>1, <3>2 DEF Is
      <3>3. CASE e # d /\ d \notin Above(e)
        BY <2>2, <3>1, <3>3 DEF Is, Tree, Dir
      <3> QED
        BY <3>2, <3>3
    <2>6. Tree'
      BY <1>3, <2>5 DEF Tree
    <2>7. \A q \in Recorders : Made(q)'
      BY <1>1, <2>3 DEF Made
    <2> QED
      BY <1>2, <1>3, <2>4, <2>6, <2>7 DEF MadeInv
  <1>6. CASE Clock
    <2>1. UNCHANGED <<entry, excused>>
      BY <1>6 DEF Clock
    <2>2. WorldTypes' /\ RecorderTypes' /\ Tree'
      BY <1>1, <1>3, <2>1 DEF WorldTypes, RecorderTypes, Tree, Is
    <2>3. \A q \in Recorders : Made(q) => Made(q)'
      BY <1>1, <2>1 DEF Made, Is, Visible, Path
    <2> QED
      BY <1>2, <1>3, <2>2, <2>3 DEF MadeInv
  <1> QED
    BY <1>4, <1>5, <1>6

-----------------------------------------------------------------------------
(* The steps of a recorder: what they leave alone.                         *)

\* No other recorder is touched, and nothing that stood is removed.
Apart(r) ==
    /\ \A q \in Recorders \ {r} :
         /\ pc'[q] = pc[q] /\ current'[q] = current[q] /\ slash'[q] = slash[q]
         /\ nul'[q] = nul[q] /\ excused'[q] = excused[q]
    /\ outputFile' = outputFile
    /\ Len(saves') \in Nat /\ \A s \in 1..Len(saves) : saves'[s] = saves[s]
    /\ \A x \in Dir : ~ Is(x, "none") => ~ Is(x, "none")'

LEMMA ApartKeeps ==
    ASSUME IInv, NEW r \in Recorders, Apart(r), NEW q \in Recorders \ {r}
    PROVE  /\ Holds(q)'
           /\ BelowRoot => Climbs(q)' /\ Made(q)'
           /\ current[q] # 0 => Path(q)' = Path(q)
  <1> USE DEF IInv
  <1>1. current[q] \in 0..Len(saves) /\ Len(saves) \in Nat /\ Holds(q)
    BY LenProperties DEF WorldTypes, RecorderTypes, CallsInv
  <1>2. current[q] # 0 => Path(q)' = Path(q)
    BY <1>1 DEF Apart, Path
  <1>3. /\ pc'[q] = pc[q] /\ current'[q] = current[q] /\ slash'[q] = slash[q]
        /\ nul'[q] = nul[q] /\ excused'[q] = excused[q]
    BY DEF Apart
  <1>4. Holds(q)'
    <2>1. CASE current[q] = 0
      <3>1. slash[q] = <<>>
        BY <1>1, <2>1 DEF Holds, Calling
      <3> QED
        BY <1>1, <1>3, <2>1, <3>1 DEF Holds
    <2>2. CASE current[q] # 0
      BY <1>1, <1>2, <1>3, <2>2 DEF Holds
    <2> QED
      BY <2>1, <2>2
  <1>5. BelowRoot => Climbs(q)'
    <2>1. CASE current[q] = 0
      BY <1>1, <1>3, <2>1 DEF Holds, Climbs
    <2>2. CASE current[q] # 0
      BY <1>2, <1>3, <2>2 DEF Climbs, MadeInv
    <2> QED
      BY <2>1, <2>2
  <1>6. BelowRoot => Made(q)'
    <2> SUFFICES ASSUME BelowRoot PROVE Made(q)'
      OBVIOUS
    <2>1. Made(q)
      BY DEF MadeInv
    <2> QED
      BY <1>1, <1>2, <1>3, <2>1, StillMade DEF Apart
  <1> QED
    BY <1>2, <1>4, <1>5, <1>6

\* A step that saves nothing, and after which its recorder is not writing.
Unsaved(r) ==
    /\ UNCHANGED <<outputFile, now, content, saves, told>>
    /\ pc'[r] \notin {"write", "command"}

LEMMA UnsavedKeeps ==
    ASSUME IInv, NEW r \in Recorders, Apart(r), Unsaved(r),
           entry' \in [Directories -> {"none", "dir", "file"}], Tree',
           RecorderTypes', Holds(r)', BelowRoot => Climbs(r)' /\ Made(r)'
    PROVE  IInv'
  <1> USE DEF IInv
  <1>1. UNCHANGED <<outputFile, now, content, saves, told>> /\ Paths' = Paths /\ Directories' = Directories
    BY SamePaths DEF Unsaved
  <1>2. WorldTypes'
    BY <1>1 DEF WorldTypes
  <1>3. CallsInv'
    BY ApartKeeps DEF CallsInv
  <1>4. MadeInv'
    BY ApartKeeps DEF MadeInv
  <1>5. KeptInv'
    <2>1. \A t \in 1..Len(saves') : saves'[t].path = outputFile'[saves'[t].second]
      BY <1>1 DEF KeptInv
    <2>2. \A s \in told' : content'[saves'[s].path] = {s} \/ Shared(s)'
      BY <1>1 DEF KeptInv, Shared
    <2>3. ASSUME NEW q \in Recorders
          PROVE  (pc[q] \in {"write", "command"} => content[Path(q)] = {current[q]} \/ Shared(current[q]))'
      <3>1. CASE q = r
        BY <3>1 DEF Unsaved
      <3>2. CASE q # r
        <4>1. pc'[q] = pc[q] /\ current'[q] = current[q]
          BY <3>2 DEF Apart
        <4> QED
          BY <1>1, <4>1 DEF KeptInv, Shared, Path
      <3> QED
        BY <3>1, <3>2
    <2> QED
      BY <2>1, <2>2, <2>3 DEF KeptInv
  <1> QED
    BY <1>2, <1>3, <1>4, <1>5

-----------------------------------------------------------------------------
(* rsDirectoryCreate: up the path and down again.                          *)

\* A call returns: its slash is put back.
LEMMA ReturnFacts ==
    ASSUME WorldTypes, RecorderTypes, NEW r \in Recorders, Holds(r),
           pc[r] \in {"mkdir", "again"}, Return(r),
           UNCHANGED <<outputFile, saves, current>>, excused' \in [Recorders -> BOOLEAN]
    PROVE  /\ RecorderTypes' /\ Holds(r)'
           /\ Path(r)' = Path(r) /\ Depth(r)' = Depth(r) + 1
           /\ pc'[r] \in {"open", "again"}
           /\ pc'[r] = "open" => slash'[r] = <<>>
  <1> DEFINE p == Path(r)
             m == Len(slash[r])
             n == Len(p)
  <1>1. current[r] # 0 /\ slash[r] # <<>>
    BY DEF Holds
  <1>2. Copy(r)
    BY <1>1, CopyFacts
  <1>3. n \in Nat \ {0} /\ m \in Nat \ {0} /\ m < n
    BY <1>1, <1>2, EmptySeq DEF Copy, Holds, RecorderTypes
  <1>4. /\ slash' = [slash EXCEPT ![r] = Front(@)] /\ nul' = [nul EXCEPT ![r] = @ \ {Last(slash[r])}]
        /\ pc' = [pc EXCEPT ![r] = IF slash'[r] = <<>> THEN "open" ELSE "again"]
    BY DEF Return, Restored, Goto, After
  <1>5. /\ slash'[r] = Front(slash[r]) /\ nul'[r] = nul[r] \ {Last(slash[r])}
        /\ pc'[r] = IF slash'[r] = <<>> THEN "open" ELSE "again"
    BY <1>4 DEF RecorderTypes
  <1>6. /\ Front(slash[r]) \in Seq(Nat) /\ Len(Front(slash[r])) = m - 1
        /\ \A k \in 1..(m - 1) : Front(slash[r])[k] = slash[r][k]
        /\ Front(slash[r]) = <<>> <=> m = 1
        /\ Last(slash[r]) = slash[r][m]
    BY <1>1, FrontFacts DEF RecorderTypes
  <1>7. Path(r)' = p
    BY DEF Path
  <1>8. nul[r] = (n - m + 1)..n /\ \A k \in 1..m : slash[r][k] = n - k + 1
    BY <1>1 DEF Holds
  <1> HIDE DEF p, m, n
  <1>9. slash[r][m] = n - m + 1
    BY <1>3, <1>8
  <1>10. nul'[r] = (n - (m - 1) + 1)..n
    BY <1>3, <1>5, <1>6, <1>8, <1>9
  <1>11. m = 1 => nul'[r] = {}
    BY <1>3, <1>10
  <1>12. RecorderTypes'
    <2>1. pc' \in [Recorders -> Labels]
      BY <1>4 DEF RecorderTypes, Labels
    <2>2. slash' \in [Recorders -> Seq(Nat)] /\ nul' \in [Recorders -> SUBSET Nat]
      BY <1>4, <1>6 DEF RecorderTypes
    <2> QED
      BY <2>1, <2>2 DEF RecorderTypes
  <1>13. /\ slash'[r] = <<>> <=> m = 1
         /\ Len(slash'[r]) = m - 1 /\ m - 1 < n
         /\ \A k \in 1..(m - 1) : slash'[r][k] = n - k + 1
    <2>1. m - 1 < n /\ \A k \in 1..(m - 1) : k \in 1..m
      BY <1>3
    <2>2. \A k \in 1..(m - 1) : Front(slash[r])[k] = n - k + 1
      BY <1>6, <1>8, <2>1
    <2> QED
      BY <1>5, <1>6, <2>1, <2>2
  <1>14. Depth(r)' = Depth(r) + 1
    BY <1>3, <1>7, <1>13 DEF Depth, m, n, p
  <1>15. Holds(r)'
    <2>1. pc'[r] # "idle" /\ current'[r] # 0
      BY <1>1, <1>5
    <2>2. slash'[r] # <<>> =>
            /\ Len(slash'[r]) < Len(Path(r)')
            /\ nul'[r] = (Len(Path(r)') - Len(slash'[r]) + 1)..Len(Path(r)')
            /\ \A k \in 1..Len(slash'[r]) : slash'[r][k] = Len(Path(r)') - k + 1
      BY <1>7, <1>10, <1>13 DEF n
    <2> QED
      BY <1>5, <1>11, <1>13, <2>1, <2>2 DEF Holds, Calling
  <1> QED
    BY <1>5, <1>7, <1>12, <1>14, <1>15 DEF p

LEMMA CopyNow ==
    \A r \in Recorders :
        WorldTypes /\ RecorderTypes /\ Holds(r) /\ current[r] # 0 => Copy(r)
  BY CopyFacts

\* The copy in the state after a step.
LEMMA CopyNext ==
    (\A r \in Recorders :
        WorldTypes /\ RecorderTypes /\ Holds(r) /\ current[r] # 0 => Copy(r))'
  BY CopyNow, PTL

\* A call returns, and the directory it was about exists.
LEMMA ReturnKeeps ==
    ASSUME IInv, NEW r \in Recorders, pc[r] \in {"mkdir", "again"}, Return(r), Apart(r),
           UNCHANGED <<outputFile, now, content, saves, told, current, excused>>,
           entry' \in [Directories -> {"none", "dir", "file"}], Tree',
           NEW d, d = Visible(r), ~ Is(d, "none")'
    PROVE  IInv'
  <1> USE DEF IInv
  <1>1. Holds(r) /\ current[r] # 0
    BY DEF CallsInv, Holds
  <1>2. Copy(r)
    BY <1>1, CopyFacts
  <1>3. /\ RecorderTypes' /\ Holds(r)' /\ Path(r)' = Path(r) /\ Depth(r)' = Depth(r) + 1
        /\ pc'[r] \in {"open", "again"} /\ (pc'[r] = "open" => slash'[r] = <<>>)
    BY <1>1, ReturnFacts DEF RecorderTypes
  <1>4. WorldTypes'
    BY SamePaths DEF WorldTypes
  <1>5. Copy(r)'
    BY <1>1, <1>3, <1>4, CopyNext
  <1>6. Parent(Visible(r))' = d
    <2>1. Parent(Visible(r))' = SubSeq(Path(r), 1, Depth(r)' - 1)
      BY <1>3, <1>5 DEF Copy
    <2>2. d = SubSeq(Path(r), 1, Depth(r)) /\ Depth(r) \in Nat
      BY <1>2 DEF Copy
    <2>3. Depth(r)' - 1 = Depth(r)
      BY <1>3, <2>2
    <2> QED
      BY <2>1, <2>2, <2>3
  <1>7. ~ Is(Parent(Visible(r)), "none")'
    BY <1>6 DEF Is
  <1>8. pc'[r] = "open" => Parent(Path(r))' = Parent(Visible(r))'
    <2> SUFFICES ASSUME pc'[r] = "open" PROVE Parent(Path(r))' = Parent(Visible(r))'
      OBVIOUS
    <2>1. Len(slash'[r]) = 0
      BY <1>3, EmptySeq
    <2>2. Visible(r)' = SubSeq(Path(r)', 1, Len(Path(r)')) /\ Path(r)' \in Seq(STRING)
      BY <1>5, <2>1 DEF Copy, Depth
    <2>3. Visible(r)' = Path(r)'
      BY <2>2, SubSeqFull
    <2> QED
      BY <2>3 DEF Parent
  <1>9. Made(r)'
    <2>1. pc'[r] = "open" => ~ Is(Parent(Path(r)), "none")'
      BY <1>7, <1>8 DEF Is
    <2> QED
      BY <1>3, <1>7, <2>1 DEF Made
  <1>10. BelowRoot => Climbs(r)'
    <2> SUFFICES ASSUME BelowRoot, pc'[r] = "again", Path(r)'[1] = NoName
                 PROVE  Depth(r)' >= 2
      BY <1>3 DEF Climbs, Depth
    <2>1. Depth(r) \in Nat /\ Depth(r) >= 1
      BY <1>2 DEF Copy
    <2> QED
      BY <1>3, <2>1
  <1>11. Unsaved(r)
    BY <1>3 DEF Unsaved
  <1> QED
    BY <1>3, <1>9, <1>10, <1>11, UnsavedKeeps

\* A call fails, and so does every caller.
LEMMA ErrorKeeps ==
    ASSUME IInv, NEW r \in Recorders, pc[r] \in {"mkdir", "again"}, ReturnError(r), Apart(r),
           UNCHANGED <<outputFile, now, entry, content, saves, told, current>>,
           excused' \in [Recorders -> BOOLEAN],
           BelowRoot => excused'[r]
    PROVE  IInv'
  <1> USE DEF IInv
  <1>1. current[r] # 0 /\ Path(r)' = Path(r)
    BY DEF CallsInv, Holds, Path
  <1>2. <<>> \in Seq(Nat)
    BY EmptySeq
  <1>3. pc'[r] = "failed" /\ slash'[r] = <<>> /\ nul'[r] = {}
    BY DEF ReturnError, Goto, RecorderTypes
  <1>4. RecorderTypes'
    BY <1>2 DEF ReturnError, Goto, RecorderTypes, Labels
  <1>5. Holds(r)' /\ Climbs(r)'
    BY <1>1, <1>3 DEF Holds, Climbs, Calling
  <1>6. BelowRoot => Made(r)'
    BY DEF Made
  <1>7. entry' \in [Directories -> {"none", "dir", "file"}] /\ Tree' /\ Unsaved(r)
    BY <1>3, SamePaths DEF WorldTypes, Tree, Is, Unsaved
  <1> QED
    BY <1>4, <1>5, <1>6, <1>7, UnsavedKeeps

\* Steps that leave the file system alone are apart from the others.
LEMMA ApartWhenSame ==
    ASSUME IInv, NEW r \in Recorders, UNCHANGED <<outputFile, entry, saves>>,
           \A q \in Recorders \ {r} :
             /\ pc'[q] = pc[q] /\ current'[q] = current[q] /\ slash'[q] = slash[q]
             /\ nul'[q] = nul[q] /\ excused'[q] = excused[q]
    PROVE  Apart(r) /\ entry' \in [Directories -> {"none", "dir", "file"}] /\ Tree'
  <1>1. Len(saves) \in Nat
    BY LenProperties DEF IInv, WorldTypes
  <1>2. entry' \in [Directories -> {"none", "dir", "file"}] /\ Tree'
    BY SamePaths DEF IInv, WorldTypes, Tree, Is
  <1>3. \A x \in Dir : ~ Is(x, "none") => ~ Is(x, "none")'
    BY DEF Is
  <1> QED
    BY <1>1, <1>2, <1>3 DEF Apart

LEMMA MkdirKeeps ==
    ASSUME IInv, NEW r \in Recorders,
           Mkdir(r) \/ MkdirExists(r) \/ MkdirMissing(r) \/ MkdirRefused(r)
    PROVE  IInv'
  <1> USE DEF IInv
  <1>1. /\ pc[r] \in {"mkdir", "again"}
        /\ UNCHANGED <<outputFile, now, content, saves, told, current>>
    BY DEF Mkdir, MkdirExists, MkdirMissing, MkdirRefused, world, history
  <1>2. Holds(r) /\ Copy(r) /\ Visible(r) \in Dir
    <2>1. Holds(r) /\ current[r] # 0 /\ slash[r] # <<>>
      BY <1>1 DEF CallsInv, Holds
    <2>2. Copy(r) /\ Len(slash[r]) # 0
      BY <2>1, CopyFacts, EmptySeq DEF RecorderTypes
    <2>3. Depth(r) # Len(Path(r))
      BY <2>2 DEF Copy, Depth
    <2> QED
      BY <2>1, <2>2, <2>3 DEF Copy
  <1>3. \A q \in Recorders \ {r} :
          /\ pc'[q] = pc[q] /\ current'[q] = current[q] /\ slash'[q] = slash[q]
          /\ nul'[q] = nul[q] /\ excused'[q] = excused[q]
    BY DEF Mkdir, MkdirExists, MkdirMissing, MkdirRefused, ReturnExists, Return, ReturnError, Goto, Restored, world, history, RecorderTypes
  <1>4. CASE Mkdir(r)
    <2>1. PICK d : d = Visible(r)
      OBVIOUS
    <2>2. Return(r) /\ Free(d) /\ excused' = excused /\ entry' = [entry EXCEPT ![d] = "dir"]
      BY <1>4, <2>1 DEF Mkdir
    <2>3. d \in Directories
      BY <1>2, <2>1, <2>2 DEF Free, Dir, Is
    <2>4. Grown
      BY <1>1, <2>2, <2>3, MakingGrows DEF Free
    <2>5. Len(saves) \in Nat
      BY LenProperties DEF WorldTypes
    <2>6. Apart(r)
      BY <1>1, <1>3, <2>4, <2>5 DEF Apart, Grown
    <2>7. ~ Is(d, "none")'
      BY <2>2, <2>3, DirFacts DEF Is, WorldTypes
    <2> QED
      BY <1>1, <2>1, <2>2, <2>4, <2>6, <2>7, ReturnKeeps DEF Grown
  <1>5. CASE MkdirExists(r)
    <2>1. PICK d : d = Visible(r)
      OBVIOUS
    <2>2. Return(r) /\ Exists(d) /\ excused' = excused /\ entry' = entry
      BY <1>5, <2>1 DEF MkdirExists, ReturnExists, world
    <2>3. Apart(r) /\ entry' \in [Directories -> {"none", "dir", "file"}] /\ Tree'
      BY <1>1, <1>3, <2>2, ApartWhenSame
    <2>4. ~ Is(d, "none")'
      BY <2>2 DEF Exists, Is
    <2> QED
      BY <1>1, <2>1, <2>2, <2>3, <2>4, ReturnKeeps
  <1>6. CASE MkdirMissing(r)
    <2>1. ReturnError(r) /\ Missing(Visible(r)) /\ excused' = excused /\ entry' = entry /\ pc[r] = "again"
      BY <1>6 DEF MkdirMissing, world
    <2>2. Apart(r)
      BY <1>1, <1>3, <2>1, ApartWhenSame
    <2>3. BelowRoot => excused'[r]
      <3> SUFFICES ASSUME BelowRoot, ~ excused[r] PROVE FALSE
        BY <2>1
      <3>1. ~ Is(Parent(Visible(r)), "none") /\ Climbs(r)
        BY <2>1 DEF MadeInv, Made
      <3>2. Visible(r) # <<NoName>>
        <4>1. Path(r)[1] = NoName => Depth(r) >= 2
          BY <2>1, <3>1 DEF Climbs, Depth
        <4>2. Visible(r) = <<NoName>> => Depth(r) = 1 /\ Path(r)[1] = NoName
          BY <1>2 DEF Copy
        <4>3. ~ (1 >= 2)
          OBVIOUS
        <4> QED
          BY <4>1, <4>2, <4>3, Zenon
      <3>3. /\ Parent(Visible(r)) \in Dir
            /\ Above(Visible(r)) = Above(Parent(Visible(r))) \cup {Parent(Visible(r))}
        BY <1>2 DEF Copy
      <3> QED
        BY <2>1, <3>1, <3>2, <3>3, NotMissing
    <2>4. excused' \in [Recorders -> BOOLEAN]
      BY <2>1 DEF RecorderTypes
    <2> QED
      BY <1>1, <2>1, <2>2, <2>3, <2>4, ErrorKeeps
  <1>7. CASE MkdirRefused(r)
    <2>1. ReturnError(r) /\ excused' = [excused EXCEPT ![r] = TRUE] /\ entry' = entry
      BY <1>7 DEF MkdirRefused, world
    <2>2. Apart(r)
      BY <1>1, <1>3, <2>1, ApartWhenSame
    <2>3. excused' \in [Recorders -> BOOLEAN] /\ excused'[r]
      BY <2>1 DEF RecorderTypes
    <2> QED
      BY <1>1, <2>1, <2>2, <2>3, ErrorKeeps
  <1> QED
    BY <1>4, <1>5, <1>6, <1>7

\* The steps that go up the path, and those that give up.
LEMMA ClimbKeeps ==
    ASSUME IInv, NEW r \in Recorders,
           \/ CallCut(r) \/ CallNoSlash(r) \/ MkdirParents(r)
           \/ CreateFailed(r) \/ WriteFailed(r) \/ Destroy(r)
    PROVE  IInv'
  <1> USE DEF IInv
  <1>1. UNCHANGED <<outputFile, now, entry, content, saves, told>>
    BY DEF CallCut, CallNoSlash, MkdirParents, CreateFailed, WriteFailed, Destroy, world, history
  <1>2. \A q \in Recorders \ {r} :
          /\ pc'[q] = pc[q] /\ current'[q] = current[q] /\ slash'[q] = slash[q]
          /\ nul'[q] = nul[q] /\ excused'[q] = excused[q]
    BY DEF CallCut, CallNoSlash, MkdirParents, CreateFailed, WriteFailed, Destroy, Goto, RecorderTypes
  <1>3. Apart(r) /\ entry' \in [Directories -> {"none", "dir", "file"}] /\ Tree'
    BY <1>1, <1>2, ApartWhenSame
  <1>4. Holds(r) /\ (BelowRoot => Climbs(r) /\ Made(r)) /\ slash[r] \in Seq(Nat)
    BY DEF CallsInv, MadeInv, RecorderTypes
  <1>5. ASSUME CallCut(r) PROVE IInv'
    <2> DEFINE n == Len(Visible(r))
    <2>1. /\ pc[r] = "call" /\ n > 1 /\ UNCHANGED <<current, excused>>
          /\ slash' = [slash EXCEPT ![r] = Append(@, n)] /\ nul' = [nul EXCEPT ![r] = @ \cup {n}]
          /\ pc' = [pc EXCEPT ![r] = "mkdir"]
      BY <1>5 DEF CallCut, Goto
    <2>2. Copy(r) /\ Path(r)' = Path(r)
      BY <1>1, <1>4, <2>1, CopyFacts DEF Holds, Path
    <2>3. n = Depth(r) /\ Depth(r) \in Nat /\ Depth(r) > 1
      BY <2>1, <2>2 DEF Copy
    <2>4. slash'[r] = Append(slash[r], n) /\ nul'[r] = nul[r] \cup {n} /\ pc'[r] = "mkdir"
      BY <2>1 DEF RecorderTypes
    <2>5. /\ Append(slash[r], n) \in Seq(Nat) /\ Append(slash[r], n) # <<>>
          /\ Len(slash[r]) \in Nat /\ Len(Append(slash[r], n)) = Len(slash[r]) + 1
          /\ Append(slash[r], n)[Len(slash[r]) + 1] = n
          /\ \A k \in 1..Len(slash[r]) : Append(slash[r], n)[k] = slash[r][k]
      BY <1>4, <2>3, AppendProperties, LenProperties
    <2> HIDE DEF n
    <2>6. RecorderTypes'
      <3>1. pc' \in [Recorders -> Labels] /\ nul' \in [Recorders -> SUBSET Nat]
        BY <2>1, <2>3 DEF RecorderTypes, Labels
      <3>2. slash' \in [Recorders -> Seq(Nat)]
        BY <2>1, <2>5 DEF RecorderTypes
      <3> QED
        BY <1>1, <2>1, <3>1, <3>2 DEF RecorderTypes
    <2>7. Holds(r)'
      <3> DEFINE m == Len(slash[r])
                 len == Len(Path(r))
      <3>1. m \in Nat /\ len \in Nat \ {0} /\ n = len - m /\ Len(slash'[r]) = m + 1 /\ slash'[r] # <<>>
        BY <2>2, <2>3, <2>4, <2>5 DEF Copy, Depth
      <3>2. slash[r] = <<>> <=> m = 0
        BY <1>4, EmptySeq
      <3>3. /\ m = 0 => nul[r] = {}
            /\ m # 0 => nul[r] = (len - m + 1)..len /\ \A k \in 1..m : slash[r][k] = len - k + 1
        BY <1>4, <3>2 DEF Holds
      <3>4. slash'[r][m + 1] = n /\ \A k \in 1..m : slash'[r][k] = slash[r][k]
        BY <2>4, <2>5
      <3>5. current[r] # 0 /\ current'[r] # 0 /\ Len(Path(r)') = len
        BY <1>4, <2>1, <2>2 DEF Holds
      <3> HIDE DEF m, len
      <3>6. m + 1 < len
        BY <2>3, <3>1
      <3>7. nul'[r] = (len - (m + 1) + 1)..len
        BY <2>3, <2>4, <3>1, <3>3
      <3>8. \A k \in 1..(m + 1) : slash'[r][k] = len - k + 1
        <4> TAKE k \in 1..(m + 1)
        <4>1. CASE k = m + 1
          <5>1. slash'[r][k] = n
            BY <3>4, <4>1
          <5>2. n = len - k + 1
            BY <3>1, <4>1
          <5> QED
            BY <5>1, <5>2
        <4>2. CASE k # m + 1
          <5>1. k \in 1..m /\ m # 0
            BY <3>1, <4>2
          <5>2. slash[r][k] = len - k + 1
            BY <3>3, <5>1
          <5>3. slash'[r][k] = slash[r][k]
            BY <3>4, <5>1
          <5> QED
            BY <5>2, <5>3
        <4> QED
          BY <4>1, <4>2
      <3> QED
        BY <2>4, <3>1, <3>5, <3>6, <3>7, <3>8 DEF Holds, Calling
    <2>8. Depth(r)' = Depth(r) - 1
      <3>1. Len(Path(r)) \in Nat /\ Len(Path(r)') = Len(Path(r)) /\ Len(slash'[r]) = Len(slash[r]) + 1
        BY <2>2, <2>4, <2>5 DEF Copy
      <3> QED
        BY <2>5, <3>1 DEF Depth
    <2>9. BelowRoot => Climbs(r)'
      BY <1>4, <2>1, <2>2, <2>3, <2>4, <2>8 DEF Climbs, Depth
    <2>10. BelowRoot => Made(r)'
      BY <1>4, <2>1, <2>4 DEF Made
    <2> QED
      BY <1>1, <1>3, <2>4, <2>6, <2>7, <2>9, <2>10, UnsavedKeeps DEF Unsaved
  <1>6. ASSUME CallNoSlash(r) PROVE IInv'
    <2>1. /\ pc[r] = "call" /\ Len(Visible(r)) = 1 /\ UNCHANGED <<current, slash, nul, excused>>
          /\ pc' = [pc EXCEPT ![r] = IF slash[r] = <<>> THEN "open" ELSE "again"]
      BY <1>6 DEF CallNoSlash, Goto, After
    <2>2. Copy(r) /\ Path(r)' = Path(r) /\ Visible(r)' = Visible(r)
      BY <1>1, <1>4, <2>1, CopyFacts DEF Holds, Path, Visible
    <2>3. pc'[r] = IF slash[r] = <<>> THEN "open" ELSE "again"
      BY <2>1 DEF RecorderTypes
    <2>4. RecorderTypes'
      BY <1>1, <2>1 DEF RecorderTypes, Labels
    <2>5. Holds(r)'
      <3>1. current'[r] # 0 /\ pc'[r] # "idle" /\ slash'[r] = slash[r] /\ nul'[r] = nul[r]
        BY <1>4, <2>1, <2>3 DEF Holds
      <3>2. pc'[r] = "again" => slash[r] # <<>>
        BY <2>3
      <3>3. pc'[r] # "again" => slash[r] = <<>> /\ pc'[r] = "open"
        BY <2>3
      <3> QED
        BY <1>4, <2>2, <3>1, <3>2, <3>3 DEF Holds, Calling
    <2>6. Depth(r) = 1
      BY <2>1, <2>2 DEF Copy
    <2>7. BelowRoot => Climbs(r)'
      BY <1>4, <2>1, <2>2, <2>3, <2>6 DEF Climbs, Depth
    <2>8. Parent(Visible(r)) = <<>>
      <3>1. Parent(Visible(r)) = SubSeq(Path(r), 1, 0) /\ Path(r) \in Seq(STRING) /\ 0 \in 0..Len(Path(r))
        BY <2>2, <2>6 DEF Copy
      <3> QED
        BY <3>1, RootPrefix
    <2>9. pc'[r] = "open" => Path(r) = Visible(r)
      <3> SUFFICES ASSUME slash[r] = <<>> PROVE Path(r) = Visible(r)
        BY <2>3
      <3>1. Len(slash[r]) = 0
        BY EmptySeq
      <3>2. Visible(r) = SubSeq(Path(r), 1, Len(Path(r))) /\ Path(r) \in Seq(STRING)
        BY <2>2, <3>1 DEF Copy, Depth
      <3> QED
        BY <3>2, SubSeqFull
    <2>10. Made(r)'
      <3>1. Parent(Visible(r))' = <<>> /\ (pc'[r] = "open" => Parent(Path(r))' = <<>>)
        BY <2>2, <2>8, <2>9 DEF Parent
      <3>2. ~ Is(Parent(Visible(r)), "none")' /\ (pc'[r] = "open" => ~ Is(Parent(Path(r)), "none")')
        BY <3>1 DEF Is, Roots
      <3> QED
        BY <2>3, <3>2 DEF Made
    <2> QED
      BY <1>1, <1>3, <2>3, <2>4, <2>5, <2>7, <2>10, UnsavedKeeps DEF Unsaved
  <1>7. ASSUME MkdirParents(r) PROVE IInv'
    <2>1. /\ pc[r] = "mkdir" /\ Missing(Visible(r)) /\ UNCHANGED <<current, slash, nul, excused>>
          /\ pc' = [pc EXCEPT ![r] = "call"]
      BY <1>7 DEF MkdirParents, Goto
    <2>2. Copy(r) /\ Path(r)' = Path(r)
      BY <1>1, <1>4, <2>1, CopyFacts DEF Holds, Path
    <2>3. pc'[r] = "call"
      BY <2>1 DEF RecorderTypes
    <2>4. RecorderTypes'
      BY <1>1, <2>1 DEF RecorderTypes, Labels
    <2>5. Holds(r)'
      BY <1>4, <2>1, <2>2, <2>3 DEF Holds, Calling
    <2>6. BelowRoot => Climbs(r)'
      <3> SUFFICES ASSUME BelowRoot, Path(r)[1] = NoName PROVE Depth(r) >= 3
        BY <2>1, <2>2, <2>3 DEF Climbs, Depth
      <3>1. Depth(r) >= 2 /\ Depth(r) \in Nat /\ Depth(r) <= Len(Path(r)) /\ Len(Path(r)) \in Nat
        BY <1>4, <2>1, <2>2 DEF Climbs, Depth, Copy
      <3>2. Depth(r) # 2
        <4> SUFFICES ASSUME Depth(r) = 2 PROVE FALSE
          OBVIOUS
        <4>1. Parent(Visible(r)) = SubSeq(Path(r), 1, 1) /\ Path(r) \in Seq(STRING) /\ 1 \in 0..Len(Path(r))
          BY <2>2, <3>1 DEF Copy
        <4>2. Parent(Visible(r)) = <<NoName>>
          BY <4>1, RootPrefix
        <4>3. /\ Parent(Visible(r)) \in Dir /\ Visible(r) # <<NoName>>
              /\ Above(Visible(r)) = Above(Parent(Visible(r))) \cup {Parent(Visible(r))}
          BY <2>2 DEF Copy
        <4>4. ~ Is(Parent(Visible(r)), "none")
          BY <4>2 DEF Is, Roots
        <4> QED
          BY <2>1, <4>3, <4>4, NotMissing
      <3> QED
        BY <3>1, <3>2
    <2>7. BelowRoot => Made(r)'
      BY <1>4, <2>1, <2>3 DEF Made
    <2> QED
      BY <1>1, <1>3, <2>3, <2>4, <2>5, <2>6, <2>7, UnsavedKeeps DEF Unsaved
  <1>8. ASSUME CreateFailed(r) \/ WriteFailed(r) \/ Destroy(r) PROVE IInv'
    <2>1. /\ slash[r] = <<>> /\ UNCHANGED <<slash, nul>>
          /\ pc'[r] \in {"failed", "destroy", "idle"}
          /\ \/ pc'[r] # "idle" /\ current' = current /\ pc[r] # "idle"
             \/ pc'[r] = "idle" /\ current' = [current EXCEPT ![r] = 0]
          /\ pc'[r] = "failed" => excused'[r]
      BY <1>4, <1>8 DEF CreateFailed, WriteFailed, Destroy, Goto, Holds, Calling, RecorderTypes
    <2>2. pc' \in [Recorders -> Labels] /\ excused' \in [Recorders -> BOOLEAN]
      BY <1>8 DEF CreateFailed, WriteFailed, Destroy, Goto, RecorderTypes, Labels
    <2>3. current' \in [Recorders -> 0..Len(saves)]
      <3>1. 0 \in 0..Len(saves)
        BY LenProperties DEF WorldTypes
      <3> QED
        BY <2>1, <3>1 DEF RecorderTypes
    <2>4. RecorderTypes'
      BY <1>1, <2>1, <2>2, <2>3 DEF RecorderTypes
    <2>5. Holds(r)'
      <3>1. pc'[r] = "idle" <=> current'[r] = 0
        BY <1>4, <2>1 DEF RecorderTypes, Holds
      <3> QED
        BY <1>4, <2>1, <3>1 DEF Holds, Calling
    <2>6. Climbs(r)' /\ Made(r)'
      BY <2>1 DEF Climbs, Made
    <2> QED
      BY <1>1, <1>3, <2>1, <2>4, <2>5, <2>6, UnsavedKeeps DEF Unsaved
  <1> QED
    BY <1>5, <1>6, <1>7, <1>8

-----------------------------------------------------------------------------
(* The file, and the theorems.                                             *)

\* What the file a recorder has open is emptied or written to says of every save:
\* it loses its replay only to another of the same path.
LEMMA WritingKeeps ==
    ASSUME IInv, NEW r \in Recorders, current[r] # 0, UNCHANGED <<saves, outputFile>>,
           NEW X, X = {current[r]} \/ X = content[Path(r)] \cup {current[r]},
           content' = [content EXCEPT ![Path(r)] = X]
    PROVE  /\ current[r] \in 1..Len(saves)
           /\ content' \in [Paths -> SUBSET (1..Len(saves))] /\ content'[Path(r)] = X
           /\ \A s \in 1..Len(saves) : content[saves[s].path] = {s} \/ Shared(s) =>
                content'[saves[s].path] = {s} \/ Shared(s)
  <1> USE DEF IInv
  <1>1. current[r] \in 1..Len(saves)
    BY LenProperties DEF WorldTypes, RecorderTypes
  <1>2. \A s \in 1..Len(saves) : saves[s].path \in Paths
    <2> TAKE s \in 1..Len(saves)
    <2>1. saves[s] \in [second : Seconds, path : Paths]
      BY ElementOfSeq DEF WorldTypes
    <2> QED
      BY <2>1
  <1>3. Path(r) \in Paths /\ Path(r) = saves[current[r]].path
    BY <1>1, <1>2 DEF Path
  <1>4. X \in SUBSET (1..Len(saves))
    BY <1>1, <1>3 DEF WorldTypes
  <1>5. content' \in [Paths -> SUBSET (1..Len(saves))] /\ content'[Path(r)] = X
    BY <1>3, <1>4 DEF WorldTypes
  <1>6. ASSUME NEW s \in 1..Len(saves), content[saves[s].path] = {s} \/ Shared(s)
        PROVE  content'[saves[s].path] = {s} \/ Shared(s)
    <2>1. CASE saves[s].path # Path(r)
      BY <1>2, <1>3, <1>6, <2>1 DEF WorldTypes
    <2>2. CASE saves[s].path = Path(r) /\ s # current[r]
      BY <1>1, <1>3, <2>2 DEF Shared
    <2>3. CASE s = current[r]
      BY <1>3, <1>5, <1>6, <2>3
    <2> QED
      BY <2>1, <2>2, <2>3
  <1> QED
    BY <1>1, <1>5, <1>6

LEMMA FileKeeps ==
    ASSUME IInv, NEW r \in Recorders, Open(r) \/ Write(r) \/ Close(r) \/ Command(r)
    PROVE  IInv'
  <1> USE DEF IInv
  <1>1. /\ UNCHANGED <<outputFile, now, entry, saves, current, slash, nul, excused>>
        /\ pc[r] \in {"open", "write", "command"} /\ pc'[r] \in {"write", "command", "destroy"}
        /\ \A q \in Recorders \ {r} : pc'[q] = pc[q]
        /\ pc' \in [Recorders -> Labels]
    BY DEF Open, Write, Close, Command, world, history, Goto, RecorderTypes, Labels
  <1>2. Apart(r) /\ entry' \in [Directories -> {"none", "dir", "file"}] /\ Tree'
    BY <1>1, ApartWhenSame
  <1>3. Holds(r) /\ slash[r] = <<>> /\ current[r] # 0 /\ current[r] \in 1..Len(saves)
    BY <1>1, LenProperties DEF CallsInv, Holds, Calling, RecorderTypes, WorldTypes
  <1>4. RecorderTypes'
    BY <1>1 DEF RecorderTypes
  <1>5. CallsInv'
    <2>1. Holds(r)'
      BY <1>1, <1>3 DEF Holds, Calling
    <2> QED
      BY <1>2, <2>1, ApartKeeps DEF CallsInv
  <1>6. MadeInv'
    <2>1. Climbs(r)' /\ Made(r)'
      BY <1>1 DEF Climbs, Made
    <2> QED
      BY <1>2, <2>1, ApartKeeps DEF MadeInv
  <1>7. Paths' = Paths /\ Directories' = Directories
    BY <1>1, SamePaths
  <1>8. /\ content' \in [Paths -> SUBSET (1..Len(saves))]
        /\ \A s \in 1..Len(saves) : content[saves[s].path] = {s} \/ Shared(s) =>
             content'[saves[s].path] = {s} \/ Shared(s)
        /\ pc[r] = "open" => content'[Path(r)] = {current[r]}
    <2>1. CASE Command(r)
      BY <2>1 DEF Command, world, WorldTypes
    <2>2. CASE Open(r)
      <3>1. PICK X : X = {current[r]}
        OBVIOUS
      <3>2. content' = [content EXCEPT ![Path(r)] = X]
        BY <2>2, <3>1 DEF Open
      <3> QED
        BY <1>1, <1>3, <3>1, <3>2, WritingKeeps
    <2>3. CASE Write(r) \/ Close(r)
      <3>1. PICK X : X = content[Path(r)] \cup {current[r]}
        OBVIOUS
      <3>2. content' = [content EXCEPT ![Path(r)] = X] /\ pc[r] = "write"
        BY <2>3, <3>1 DEF Write, Close
      <3> QED
        BY <1>1, <1>3, <3>1, <3>2, WritingKeeps
    <2> QED
      BY <2>1, <2>2, <2>3
  <1>9. told' = told \/ (told' = told \cup {current[r]} /\ pc[r] = "command")
    <2>1. Open(r) \/ Write(r) \/ Close(r) => told' = told
      BY DEF Open, Write, Close, history
    <2>2. Command(r) => told' = told \cup {current[r]} /\ pc[r] = "command"
      BY DEF Command
    <2> QED
      BY <2>1, <2>2
  <1>10. WorldTypes'
    BY <1>1, <1>2, <1>3, <1>7, <1>8, <1>9 DEF WorldTypes
  <1>11. KeptInv'
    <2>1. \A s \in told : s \in 1..Len(saves) /\ (content[saves[s].path] = {s} \/ Shared(s))
      BY DEF KeptInv, WorldTypes
    <2>2. \A s : Shared(s)' <=> Shared(s)
      BY <1>1 DEF Shared
    <2>3. pc[r] \in {"write", "command"} => content[saves[current[r]].path] = {current[r]} \/ Shared(current[r])
      BY DEF KeptInv, Path
    <2>4. \A s \in told' : content'[saves[s].path] = {s} \/ Shared(s)
      BY <1>3, <1>8, <1>9, <2>1, <2>3
    <2>5. ASSUME NEW q \in Recorders, pc'[q] \in {"write", "command"}
          PROVE  content'[saves[current[q]].path] = {current[q]} \/ Shared(current[q])
      <3>1. CASE pc[q] \in {"write", "command"}
        <4>1. current[q] \in 1..Len(saves)
          BY <3>1, LenProperties DEF CallsInv, Holds, RecorderTypes, WorldTypes
        <4>2. content[saves[current[q]].path] = {current[q]} \/ Shared(current[q])
          BY <3>1 DEF KeptInv, Path
        <4> QED
          BY <1>8, <4>1, <4>2
      <3>2. CASE pc[q] \notin {"write", "command"}
        <4>1. q = r /\ pc[r] = "open"
          BY <1>1, <2>5, <3>2
        <4> QED
          BY <1>8, <4>1 DEF Path
      <3> QED
        BY <3>1, <3>2
    <2>6. \A t \in 1..Len(saves) : saves[t].path = outputFile[saves[t].second]
      BY DEF KeptInv
    <2>7. \A s \in told' : content'[saves'[s].path] = {s} \/ Shared(s)'
      BY <1>1, <2>2, <2>4
    <2>8. \A q \in Recorders : (pc[q] \in {"write", "command"} =>
            content[Path(q)] = {current[q]} \/ Shared(current[q]))'
      <3> TAKE q \in Recorders
      <3>1. Shared(current[q])' <=> Shared(current[q])
        BY <1>1 DEF Shared
      <3> QED
        BY <1>1, <2>5, <3>1 DEF Path
    <2> QED
      BY <1>1, <2>6, <2>7, <2>8 DEF KeptInv
  <1> QED
    BY <1>2, <1>4, <1>5, <1>6, <1>10, <1>11

\* A save that begins: its call of directoryCreate has the whole path.
LEMMA BeginKeeps ==
    ASSUME IInv, NEW r \in Recorders, Begin(r)
    PROVE  IInv'
  <1> USE DEF IInv
  <1> DEFINE e == [second |-> now, path |-> outputFile[now]]
             n == Len(saves)
             S == [second : Seconds, path : Paths]
  <1>1. /\ pc[r] = "idle" /\ n < MaxSaves /\ saves' = Append(saves, e)
        /\ current' = [current EXCEPT ![r] = Len(saves')]
        /\ excused' = [excused EXCEPT ![r] = FALSE]
        /\ pc' = [pc EXCEPT ![r] = "call"]
        /\ UNCHANGED <<outputFile, now, entry, content, told, slash, nul>>
    BY DEF Begin, NameOf, Goto, world
  <1>2. e \in S /\ e.second = now /\ e.path = outputFile[now] /\ e.path \in Paths
    BY DEF WorldTypes, Paths
  <1>3. /\ saves' \in Seq(S) /\ n \in Nat /\ Len(saves') = n + 1 /\ saves'[n + 1] = e
        /\ \A s \in 1..n : saves'[s] = saves[s]
    BY <1>1, <1>2, AppendProperties, LenProperties DEF WorldTypes
  <1>4. /\ slash[r] = <<>> /\ nul[r] = {}
    BY <1>1 DEF CallsInv, Holds, Calling
  <1>5. /\ pc'[r] = "call" /\ current'[r] = n + 1 /\ slash'[r] = <<>> /\ nul'[r] = {} /\ ~ excused'[r]
    BY <1>1, <1>3, <1>4 DEF RecorderTypes
  <1>6. Path(r)' = outputFile[now] /\ outputFile[now] \in Paths
    BY <1>2, <1>3, <1>5 DEF Path
  <1> HIDE DEF e, n
  <1>7. Paths' = Paths /\ Directories' = Directories /\ Dir' = Dir
    BY <1>1, SamePaths
  <1>8. entry' \in [Directories -> {"none", "dir", "file"}] /\ Tree'
    BY <1>1, <1>7 DEF WorldTypes, Tree, Is
  <1>9. Apart(r)
    <2>1. \A x \in Dir : ~ Is(x, "none") => ~ Is(x, "none")'
      BY <1>1 DEF Is
    <2>2. Len(saves') \in Nat /\ \A s \in 1..Len(saves) : saves'[s] = saves[s]
      BY <1>3 DEF n
    <2>3. \A q \in Recorders \ {r} :
            /\ pc'[q] = pc[q] /\ current'[q] = current[q] /\ slash'[q] = slash[q]
            /\ nul'[q] = nul[q] /\ excused'[q] = excused[q]
      BY <1>1 DEF RecorderTypes
    <2> QED
      BY <1>1, <2>1, <2>2, <2>3 DEF Apart
  <1>10. WorldTypes'
    <2>1. 1..n \subseteq 1..Len(saves')
      BY <1>3
    <2>2. content' \in [Paths -> SUBSET (1..Len(saves'))] /\ told' \subseteq 1..Len(saves')
      BY <1>1, <2>1 DEF WorldTypes, n
    <2>3. Len(saves') <= MaxSaves
      BY <1>1, <1>3, BoundAssumption
    <2> QED
      BY <1>1, <1>3, <1>7, <1>8, <2>2, <2>3 DEF WorldTypes
  <1>11. RecorderTypes'
    <2>1. 0..n \subseteq 0..Len(saves') /\ Len(saves') \in 0..Len(saves')
      BY <1>3
    <2>2. current' \in [Recorders -> 0..Len(saves')]
      BY <1>1, <2>1 DEF RecorderTypes, n
    <2> QED
      BY <1>1, <2>2 DEF RecorderTypes, Labels
  <1>12. CallsInv'
    <2>1. Holds(r)'
      BY <1>3, <1>5 DEF Holds, Calling
    <2> QED
      BY <1>9, <2>1, ApartKeeps DEF CallsInv
  <1>13. MadeInv'
    <2> SUFFICES ASSUME BelowRoot PROVE \A q \in Recorders : Climbs(q)' /\ Made(q)'
      BY DEF MadeInv, BelowRoot
    <2>1. Made(r)'
      BY <1>5 DEF Made
    <2>2. Climbs(r)'
      <3> DEFINE p == outputFile[now]
      <3>1. p \in Seq(STRING) /\ Len(p) \in Nat \ {0} /\ p # <<NoName>>
        BY <1>6, PathFacts DEF WorldTypes
      <3>2. Len(slash'[r]) = 0
        BY <1>5, EmptySeq
      <3>3. ~ (Len(p) = 2 /\ p[1] = NoName)
        BY DEF BelowRoot, WorldTypes
      <3>4. p[1] = NoName => Len(p) # 1
        <4> SUFFICES ASSUME p[1] = NoName, Len(p) = 1 PROVE FALSE
          OBVIOUS
        <4> HIDE DEF p
        <4>1. SubSeq(p, 1, 1) = <<NoName>> /\ SubSeq(p, 1, Len(p)) = p
          BY <3>1, RootPrefix, SubSeqFull
        <4> QED
          BY <3>1, <4>1
      <3>5. p[1] = NoName => Len(p) - 0 >= 3
        <4>1. \A len \in Nat \ {0} : len # 1 /\ len # 2 => len - 0 >= 3
          OBVIOUS
        <4> HIDE DEF p
        <4>2. p[1] = NoName => Len(p) # 1 /\ Len(p) # 2
          BY <3>3, <3>4
        <4> QED
          BY <3>1, <4>1, <4>2
      <3> QED
        BY <1>5, <1>6, <3>2, <3>5 DEF Climbs
    <2> QED
      BY <1>9, <2>1, <2>2, ApartKeeps
  <1>14. KeptInv'
    <2>1. \A s \in 1..n : saves'[s].path = saves[s].path
      BY <1>3
    <2>2. \A s \in 1..n : Shared(s) => Shared(s)'
      <3> SUFFICES ASSUME NEW s \in 1..n, NEW t \in 1..n, t # s, saves[t].path = saves[s].path
                   PROVE  Shared(s)'
        BY DEF Shared, n
      <3>1. t \in 1..Len(saves')
        BY <1>3
      <3> QED
        BY <2>1, <3>1 DEF Shared
    <2>3. ASSUME NEW t \in 1..Len(saves') PROVE saves'[t].path = outputFile[saves'[t].second]
      <3>1. CASE t \in 1..n
        BY <1>3, <3>1 DEF KeptInv, n
      <3>2. CASE t = n + 1
        BY <1>2, <1>3, <3>2
      <3> QED
        BY <1>3, <3>1, <3>2
    <2>4. \A s \in told : content[saves'[s].path] = {s} \/ Shared(s)'
      <3> TAKE s \in told
      <3>1. s \in 1..n /\ (content[saves[s].path] = {s} \/ Shared(s))
        BY DEF KeptInv, WorldTypes, n
      <3> QED
        BY <2>1, <2>2, <3>1
    <2>5. \A q \in Recorders : (pc[q] \in {"write", "command"} =>
            content[Path(q)] = {current[q]} \/ Shared(current[q]))'
      <3> TAKE q \in Recorders
      <3>1. CASE q = r
        BY <1>5, <3>1
      <3>2. CASE q # r
        <4>1. pc'[q] = pc[q] /\ current'[q] = current[q]
          BY <1>9, <3>2 DEF Apart
        <4>2. pc[q] \in {"write", "command"} => current[q] \in 1..n
          BY <1>3 DEF CallsInv, Holds, RecorderTypes, n
        <4>3. pc[q] \in {"write", "command"} => Path(q)' = Path(q)
          BY <2>1, <4>1, <4>2 DEF Path
        <4>4. pc[q] \in {"write", "command"} => content[Path(q)] = {current[q]} \/ Shared(current[q])
          BY DEF KeptInv
        <4>5. pc[q] \in {"write", "command"} => (Shared(current[q]) => Shared(current[q])')
          <5> DEFINE c == current[q]
          <5> SUFFICES ASSUME pc[q] \in {"write", "command"}, Shared(c) PROVE Shared(current[q])'
            OBVIOUS
          <5>1. PICK d \in 1..n : d = current[q]
            BY <4>2
          <5>2. Shared(d)'
            BY <2>2, <5>1
          <5>3. \E t \in 1..Len(saves') : t # d /\ saves'[t].path = saves'[d].path
            BY <5>2 DEF Shared
          <5> QED
            BY <4>1, <5>1, <5>3 DEF Shared
        <4> QED
          BY <1>1, <4>1, <4>3, <4>4, <4>5
      <3> QED
        BY <3>1, <3>2
    <2> QED
      BY <1>1, <2>3, <2>4, <2>5 DEF KeptInv
  <1> QED
    BY <1>8, <1>10, <1>11, <1>12, <1>13, <1>14

LEMMA InvAlways == Spec => []IInv
  <1>1. Init => IInv
    BY InitialInv
  <1>2. IInv /\ [Next]_vars => IInv'
    <2> SUFFICES ASSUME IInv, [Next]_vars PROVE IInv'
      OBVIOUS
    <2>1. CASE OthersMake \/ OthersRemove \/ Clock
      BY <2>1, WorldKeeps
    <2>2. CASE \E r \in Recorders : Save(r)
      <3>1. PICK r \in Recorders : Save(r)
        BY <2>2
      <3>2. CASE Begin(r)
        BY <3>2, BeginKeeps
      <3>3. CASE \/ CallCut(r) \/ CallNoSlash(r) \/ MkdirParents(r)
                 \/ CreateFailed(r) \/ WriteFailed(r) \/ Destroy(r)
        BY <3>3, ClimbKeeps
      <3>4. CASE Mkdir(r) \/ MkdirExists(r) \/ MkdirMissing(r) \/ MkdirRefused(r)
        BY <3>4, MkdirKeeps
      <3>5. CASE Open(r) \/ Write(r) \/ Close(r) \/ Command(r)
        BY <3>5, FileKeeps
      <3> QED
        BY <3>1, <3>2, <3>3, <3>4, <3>5 DEF Save
    <2>3. CASE UNCHANGED vars
      <3>1. UNCHANGED <<outputFile, now, entry, content, saves, told, pc, current, slash, nul, excused>>
        BY <2>3 DEF vars, world, history
      <3>2. Paths' = Paths /\ Directories' = Directories
        BY <3>1, SamePaths
      <3>3. WorldTypes' /\ RecorderTypes' /\ Tree'
        BY <3>1, <3>2 DEF IInv, WorldTypes, RecorderTypes, Tree, Is
      <3>4. CallsInv'
        BY <3>1 DEF IInv, CallsInv, Holds, Path
      <3>5. MadeInv'
        BY <3>1 DEF IInv, MadeInv, Climbs, Made, Path, Visible, Is
      <3>6. KeptInv'
        BY <3>1 DEF IInv, KeptInv, Shared, Path
      <3> QED
        BY <3>3, <3>4, <3>5, <3>6 DEF IInv
    <2> QED
      BY <2>1, <2>2, <2>3 DEF Next
  <1> QED
    BY <1>1, <1>2, PTL DEF Spec

-----------------------------------------------------------------------------
\* Every variable keeps its type, what exists lies in directories that exist, and the
\* slashes the calls of rsDirectoryCreate have cut are those that are terminators in
\* the recorder's copy: each call puts back its own on its return (util.c:27-56).
THEOREM TypeCorrect == Spec => []TypeOK
  <1>1. IInv => TypeOK
    <2> SUFFICES ASSUME IInv PROVE TypeOK
      OBVIOUS
    <2> USE DEF IInv
    <2>1. ASSUME NEW r \in Recorders
          PROVE  /\ nul[r] = Range(slash[r])
                 /\ \A k \in 2..Len(slash[r]) : slash[r][k] < slash[r][k - 1]
      <3> DEFINE s == slash[r]
                 m == Len(slash[r])
      <3>1. s \in Seq(Nat) /\ m \in Nat /\ (s = <<>> <=> m = 0) /\ DOMAIN s = 1..m
        BY EmptySeq, LenProperties DEF RecorderTypes
      <3>2. Range(s) = {s[k] : k \in 1..m}
        BY <3>1 DEF Range
      <3>3. Holds(r)
        BY DEF CallsInv
      <3>4. CASE m = 0
        <4>1. nul[r] = {} /\ 1..m = {} /\ 2..m = {}
          BY <3>1, <3>3, <3>4 DEF Holds
        <4> QED
          BY <3>2, <4>1
      <3>5. CASE m # 0
        <4>1. current[r] # 0
          BY <3>1, <3>3, <3>5 DEF Holds, Calling
        <4>2. Copy(r)
          BY <3>3, <4>1, CopyFacts
        <4> DEFINE n == Len(Path(r))
        <4>3. n \in Nat
          BY <4>2 DEF Copy
        <4>4. m < n /\ nul[r] = (n - m + 1)..n /\ \A k \in 1..m : s[k] = n - k + 1
          BY <3>1, <3>3, <3>5 DEF Holds
        <4> HIDE DEF n, m, s
        <4>5. (n - m + 1)..n = {s[k] : k \in 1..m}
          <5>1. \A x \in (n - m + 1)..n : n - x + 1 \in 1..m /\ n - (n - x + 1) + 1 = x
            BY <3>1, <4>3, <4>4
          <5>2. \A x \in (n - m + 1)..n : s[n - x + 1] = x
            BY <4>4, <5>1
          <5>3. \A k \in 1..m : s[k] \in (n - m + 1)..n
            BY <3>1, <4>3, <4>4
          <5> QED
            BY <5>1, <5>2, <5>3
        <4>6. \A k \in 2..m : s[k] < s[k - 1]
          <5> TAKE k \in 2..m
          <5>1. k \in 1..m /\ k - 1 \in 1..m
            BY <3>1
          <5>2. s[k] = n - k + 1 /\ s[k - 1] = n - (k - 1) + 1
            BY <4>4, <5>1
          <5> QED
            BY <3>1, <4>3, <5>2
        <4> QED
          BY <3>2, <4>4, <4>5, <4>6 DEF m, s
      <3> QED
        BY <3>4, <3>5
    <2>2. \A r \in Recorders : (pc[r] = "idle" <=> current[r] = 0)
                               /\ (pc[r] \notin {"call", "mkdir", "again"} => slash[r] = <<>>)
      BY DEF CallsInv, Holds, Calling
    <2> QED
      BY <2>1, <2>2 DEF TypeOK, WorldTypes, RecorderTypes, Tree, Labels
  <1> QED
    BY <1>1, InvAlways, PTL

\* Whatever is made and removed by others between its calls of mkdir, and however many
\* recorders make the same directories, a save finds its directory made when it comes
\* to open its file, and does not fail, unless one was removed under it or a call was
\* refused (util.c:27-56).  Of a file right in the root directory this is not so: the
\* name above it is the empty string, which mkdir does not find (util.c:40).
THEOREM DirectoriesAreMade ==
    ASSUME BelowRoot
    PROVE  Spec => []DirectoriesMade
  <1>1. IInv => DirectoriesMade
    BY BelowRoot DEF IInv, MadeInv, Made, DirectoriesMade
  <1> QED
    BY <1>1, InvAlways, PTL

\* A replay the command was told of is whole and alone in its file, however the clock
\* is set and the saves of several recorders overlap, unless another was begun in the
\* same second (output.c:46-54, 71, 148): with a format that tells the seconds apart,
\* as the default's %F_%H-%M-%S does (config.c), none other has its name.
THEOREM ReplaysStay ==
    ASSUME TellsSeconds
    PROVE  Spec => []ReplaysKept
  <1>1. IInv => ReplaysKept
    <2> SUFFICES ASSUME IInv, NEW s \in told
                 PROVE  \/ content[saves[s].path] = {s}
                        \/ \E t \in 1..Len(saves) : t # s /\ saves[t].second = saves[s].second
      BY DEF ReplaysKept
    <2>1. s \in 1..Len(saves) /\ (content[saves[s].path] = {s} \/ Shared(s))
      BY DEF IInv, KeptInv, WorldTypes
    <2>2. ASSUME Shared(s)
          PROVE  \E t \in 1..Len(saves) : t # s /\ saves[t].second = saves[s].second
      <3>1. PICK t \in 1..Len(saves) : t # s /\ saves[t].path = saves[s].path
        BY <2>2 DEF Shared
      <3>2. saves[s].second \in Seconds /\ saves[t].second \in Seconds
        <4>1. \A u \in 1..Len(saves) : saves[u] \in [second : Seconds, path : Paths]
          BY ElementOfSeq DEF IInv, WorldTypes
        <4> QED
          BY <2>1, <4>1
      <3>3. outputFile[saves[t].second] = outputFile[saves[s].second]
        BY <2>1, <3>1 DEF IInv, KeptInv
      <3>4. saves[t].second = saves[s].second
        BY TellsSeconds, <3>2, <3>3 DEF TellsSeconds, IInv, WorldTypes
      <3> QED
        BY <3>1, <3>4
    <2> QED
      BY <2>1, <2>2
  <1> QED
    BY <1>1, InvAlways, PTL
=============================================================================
