---------------------------- MODULE LozaPathsProofs ----------------------------
(***************************************************************************)
(* What the operators on paths return.                                     *)
(***************************************************************************)
EXTENDS LozaPaths, SequenceTheorems, WellFoundedInduction, TLAPS

\* The parent of a non-empty sequence is one shorter.
LEMMA ParentProperties ==
  ASSUME NEW S, NEW s \in Seq(S), s # <<>>
  PROVE  Parent(s) \in Seq(S) /\ Len(Parent(s)) = Len(s) - 1
<1>1. Len(s) \in Nat \ {0}
  BY EmptySeq
<1>2. \A i \in 1..(Len(s) - 1) : s[i] \in S
  BY <1>1, ElementOfSeq
<1>3. /\ SubSeq(s, 1, Len(s) - 1) \in Seq(S)
      /\ Len(SubSeq(s, 1, Len(s) - 1)) =
           IF 1 <= Len(s) - 1 THEN Len(s) - 1 - 1 + 1 ELSE 0
  <2>1. 1 \in Int /\ Len(s) - 1 \in Int
    BY <1>1
  <2> QED BY <1>2, <2>1, SubSeqProperties
<1>4. Parent(s) = SubSeq(s, 1, Len(s) - 1)
  BY DEF Parent, Front
<1> DEFINE front == SubSeq(s, 1, Len(s) - 1)
           length == Len(s)
<1>5. front \in Seq(S) /\ Len(front) = IF 1 <= length - 1 THEN length - 1 - 1 + 1 ELSE 0
  BY <1>3
<1>6. length \in Nat \ {0}
  BY <1>1
<1>7. Parent(s) = front /\ Len(s) = length
  BY <1>4
<1> HIDE DEF front, length
<1>8. Len(front) = length - 1
  BY <1>5, <1>6
<1> QED BY <1>5, <1>7, <1>8

\* The last segment of a temporary file's name is the one appended.
LEMMA TempProperties ==
  ASSUME NEW S, NEW s \in Seq(S), NEW x \in S
  PROVE  /\ Append(s, x) \in Seq(S)
         /\ Append(s, x) # <<>>
         /\ Last(Append(s, x)) = x
<1>1. Append(s, x) \in Seq(S) /\ Len(Append(s, x)) = Len(s) + 1
        /\ Append(s, x)[Len(s) + 1] = x
  OBVIOUS
<1>2. Append(s, x) # <<>>
  BY <1>1, EmptySeq, LenProperties
<1> QED BY <1>1, <1>2 DEF Last

\* What follows the first n segments.
LEMMA SuffixProperties ==
  ASSUME NEW S, NEW s \in Seq(S), NEW n \in Nat
  PROVE  /\ SubSeq(s, n + 1, Len(s)) \in Seq(S)
         /\ Len(SubSeq(s, n + 1, Len(s))) = IF n < Len(s) THEN Len(s) - n ELSE 0
         /\ n < Len(s) => Last(SubSeq(s, n + 1, Len(s))) = Last(s)
<1>1. Len(s) \in Nat
  BY LenProperties
<1>2. \A i \in (n + 1)..Len(s) : s[i] \in S
  BY <1>1, ElementOfSeq
<1>3. /\ SubSeq(s, n + 1, Len(s)) \in Seq(S)
      /\ Len(SubSeq(s, n + 1, Len(s))) = IF n + 1 <= Len(s) THEN Len(s) - (n + 1) + 1 ELSE 0
      /\ \A i \in 1..(Len(s) - (n + 1) + 1) : SubSeq(s, n + 1, Len(s))[i] = s[n + 1 + i - 1]
  BY <1>1, <1>2, SubSeqProperties
<1>4. ASSUME n < Len(s) PROVE Last(SubSeq(s, n + 1, Len(s))) = Last(s)
  <2>1. Len(SubSeq(s, n + 1, Len(s))) = Len(s) - n
    BY <1>1, <1>3, <1>4
  <2>2. SubSeq(s, n + 1, Len(s))[Len(s) - n] = s[Len(s)]
    BY <1>1, <1>3, <1>4
  <2> QED BY <2>1, <2>2 DEF Last
<1> QED BY <1>1, <1>3, <1>4

\* A first part of a path is a path.
LEMMA PrefixProperties ==
  ASSUME NEW S, NEW s \in Seq(S), NEW n \in 1..Len(s)
  PROVE  SubSeq(s, 1, n) \in Seq(S) \ {<<>>}
<1>1. Len(s) \in Nat
  BY LenProperties
<1>2. \A i \in 1..n : s[i] \in S
  BY <1>1, ElementOfSeq
<1>3. SubSeq(s, 1, n) \in Seq(S) /\ Len(SubSeq(s, 1, n)) = n
  BY <1>1, <1>2, SubSeqProperties
<1> QED BY <1>1, <1>3, EmptySeq

\* A path below a directory is longer.
LEMMA UnderIsLonger ==
  ASSUME NEW S, NEW dir \in Seq(S), NEW path \in Seq(S), Under(dir, path)
  PROVE  Len(dir) < Len(path)
<1>1. Len(dir) \in Nat /\ Len(path) \in Nat
  BY LenProperties
<1>2. SubSeq(dir, 1, Len(dir)) = dir /\ SubSeq(path, 1, Len(path)) = path
  BY SubSeqFull
<1> QED BY <1>1, <1>2 DEF Under, IsStrictPrefix, IsPrefix

\* A path that is moved stays a path, and below the moved directory it keeps
\* its last segment.
LEMMA RebaseProperties ==
  ASSUME NEW S, NEW path \in Seq(S), NEW from \in Seq(S), NEW to \in Seq(S), to # <<>>
  PROVE  /\ Rebase(path, from, to) \in Seq(S)
         /\ Rebase(path, from, to) # <<>>
         /\ Under(from, path) => Last(Rebase(path, from, to)) = Last(path)
         /\ path = from => Rebase(path, from, to) = to
<1> DEFINE rest == SubSeq(path, Len(from) + 1, Len(path))
<1>1. /\ Len(from) \in Nat /\ Len(path) \in Nat
      /\ Len(to) \in Nat /\ Len(to) > 0
  BY LenProperties, EmptySeq
<1>2. /\ rest \in Seq(S)
      /\ Len(rest) = IF Len(from) < Len(path) THEN Len(path) - Len(from) ELSE 0
      /\ Len(from) < Len(path) => Last(rest) = Last(path)
  BY <1>1, SuffixProperties
<1> HIDE DEF rest
<1>3. /\ to \o rest \in Seq(S)
      /\ Len(to \o rest) = Len(to) + Len(rest)
      /\ \A i \in 1..Len(to) + Len(rest) :
           (to \o rest)[i] = IF i <= Len(to) THEN to[i] ELSE rest[i - Len(to)]
  BY <1>2, ConcatProperties
<1>4. Rebase(path, from, to) = to \o rest
  BY DEF Rebase, rest
<1>5. to \o rest # <<>>
  BY <1>1, <1>2, <1>3, EmptySeq
<1>6. ASSUME Under(from, path) PROVE Last(to \o rest) = Last(path)
  <2>1. Len(from) < Len(path)
    BY <1>6, UnderIsLonger
  <2>2. Len(rest) \in Nat /\ Len(rest) > 0
    BY <2>1, <1>1, <1>2
  <2>3. (to \o rest)[Len(to) + Len(rest)] = rest[Len(rest)]
    BY <2>2, <1>1, <1>3
  <2> QED BY <2>1, <2>3, <1>2, <1>3 DEF Last
<1>7. ASSUME path = from PROVE to \o rest = to
  <2>1. rest = <<>>
    BY <1>1, <1>7, SubSeqEmpty DEF rest
  <2> QED BY <2>1, ConcatEmptySeq
<1> QED BY <1>3, <1>4, <1>5, <1>6, <1>7

\* If every name matches only itself, LIKE finds what is below a directory
\* and nothing else.
LEMMA LikeIsUnder ==
  ASSUME \A w \in Wild : w[1] = w[2],
         NEW dir \in Seq(Name), NEW path \in Seq(Name), LikeUnder(dir, path)
  PROVE  Under(dir, path)
<1>1. Len(dir) \in Nat /\ Len(path) \in Nat /\ Len(dir) < Len(path)
  BY LenProperties DEF LikeUnder
<1>2. \A i \in 1..Len(dir) : dir[i] = path[i]
  BY DEF LikeUnder
<1> DEFINE first == SubSeq(path, 1, Len(dir))
<1>3. first \in Seq(Name) /\ Len(first) = Len(dir)
        /\ \A i \in 1..Len(dir) : first[i] = path[i]
  <2>1. \A i \in 1..Len(dir) : path[i] \in Name
    BY <1>1, ElementOfSeq
  <2>2. /\ first \in Seq(Name)
        /\ Len(first) = IF 1 <= Len(dir) THEN Len(dir) - 1 + 1 ELSE 0
        /\ \A i \in 1..(Len(dir) - 1 + 1) : first[i] = path[1 + i - 1]
    BY <1>1, <2>1, SubSeqProperties
  <2> HIDE DEF first
  <2>3. ASSUME NEW i \in 1..Len(dir) PROVE first[i] = path[i]
    <3>1. i \in 1..(Len(dir) - 1 + 1) /\ 1 + i - 1 = i
      BY <1>1
    <3> QED BY <2>2, <3>1
  <2>4. Len(first) = Len(dir)
    BY <1>1, <2>2
  <2> QED BY <2>2, <2>3, <2>4
<1>4. first = dir
  <2> HIDE DEF first
  <2> QED BY <1>2, <1>3, SeqEqual
<1>5. SubSeq(dir, 1, Len(dir)) = dir
  BY SubSeqFull
<1>6. dir # path
  BY <1>1
<1> QED BY <1>1, <1>4, <1>5, <1>6 DEF Under, IsStrictPrefix, IsPrefix
-----------------------------------------------------------------------------
(* Prefixes, index by index.                                               *)

LEMMA FirstPart ==
  ASSUME NEW S, NEW s \in Seq(S), NEW n \in 0..Len(s)
  PROVE  /\ SubSeq(s, 1, n) \in Seq(S) /\ Len(SubSeq(s, 1, n)) = n
         /\ \A i \in 1..n : SubSeq(s, 1, n)[i] = s[i]
<1>1. Len(s) \in Nat /\ n \in Nat /\ n <= Len(s)
  BY LenProperties
<1>2. \A i \in 1..n : s[i] \in S
  BY <1>1, ElementOfSeq
<1> DEFINE first == SubSeq(s, 1, n)
<1>3. /\ first \in Seq(S)
      /\ Len(first) = IF 1 <= n THEN n - 1 + 1 ELSE 0
      /\ \A i \in 1..(n - 1 + 1) : first[i] = s[1 + i - 1]
  BY <1>1, <1>2, SubSeqProperties
<1> HIDE DEF first
<1>4. Len(first) = n
  BY <1>1, <1>3
<1>5. ASSUME NEW i \in 1..n PROVE first[i] = s[i]
  <2>1. i \in 1..(n - 1 + 1) /\ 1 + i - 1 = i
    BY <1>1
  <2> QED BY <1>3, <2>1
<1>6. first \in Seq(S) /\ Len(first) = n /\ \A i \in 1..n : first[i] = s[i]
  BY <1>3, <1>4, <1>5
<1> QED BY <1>6 DEF first

LEMMA UnderMeans ==
  ASSUME NEW S, NEW dir \in Seq(S), NEW path \in Seq(S)
  PROVE  Under(dir, path) <=>
           Len(dir) < Len(path) /\ \A i \in 1..Len(dir) : dir[i] = path[i]
<1>1. Len(dir) \in Nat /\ Len(path) \in Nat
  BY LenProperties
<1> DEFINE first == SubSeq(path, 1, Len(dir))
<1>2. SubSeq(dir, 1, Len(dir)) = dir
  BY SubSeqFull
<1>3. ASSUME Len(dir) <= Len(path)
      PROVE  /\ first \in Seq(S) /\ Len(first) = Len(dir)
             /\ \A i \in 1..Len(dir) : first[i] = path[i]
  BY <1>1, <1>3, FirstPart
<1> HIDE DEF first
<1>4. ASSUME Under(dir, path)
      PROVE  Len(dir) < Len(path) /\ \A i \in 1..Len(dir) : dir[i] = path[i]
  <2>1. Len(dir) < Len(path)
    BY <1>4, UnderIsLonger
  <2>2. dir = first
    BY <1>2, <1>4 DEF Under, IsStrictPrefix, IsPrefix, first
  <2> QED BY <1>1, <1>3, <2>1, <2>2
<1>5. ASSUME Len(dir) < Len(path), \A i \in 1..Len(dir) : dir[i] = path[i]
      PROVE  Under(dir, path)
  <2>1. first = dir
    BY <1>1, <1>3, <1>5, SeqEqual
  <2>2. dir # path
    BY <1>1, <1>5
  <2> QED BY <1>1, <1>2, <1>5, <2>1, <2>2 DEF Under, IsStrictPrefix, IsPrefix, first
<1> QED BY <1>4, <1>5

LEMMA UnderTrans ==
  ASSUME NEW S, NEW a \in Seq(S), NEW b \in Seq(S), NEW c \in Seq(S),
         Under(a, b), AtOrUnder(b, c) \/ Under(b, c)
  PROVE  Under(a, c)
<1>1. Len(a) \in Nat /\ Len(b) \in Nat /\ Len(c) \in Nat
  BY LenProperties
<1>2. CASE b = c
  BY <1>2
<1>3. CASE Under(b, c)
  <2>1. Len(a) < Len(b) /\ \A i \in 1..Len(a) : a[i] = b[i]
    BY UnderMeans
  <2>2. Len(b) < Len(c) /\ \A i \in 1..Len(b) : b[i] = c[i]
    BY <1>3, UnderMeans
  <2>3. Len(a) < Len(c) /\ \A i \in 1..Len(a) : a[i] = c[i]
    BY <1>1, <2>1, <2>2
  <2> QED BY <2>3, UnderMeans
<1> QED BY <1>2, <1>3 DEF AtOrUnder

\* What is below at or below a directory is below that directory.
LEMMA AtOrUnderTrans ==
  ASSUME NEW S, NEW a \in Seq(S), NEW b \in Seq(S), NEW c \in Seq(S),
         AtOrUnder(a, b), AtOrUnder(b, c)
  PROVE  AtOrUnder(a, c)
BY UnderTrans DEF AtOrUnder

LEMMA UnderIrreflexive ==
  ASSUME NEW S, NEW a \in Seq(S), NEW b \in Seq(S)
  PROVE  ~Under(a, a) /\ ~(Under(a, b) /\ AtOrUnder(b, a))
<1>1. Len(a) \in Nat /\ Len(b) \in Nat
  BY LenProperties
<1>2. Under(a, a) => Len(a) < Len(a)
  BY UnderIsLonger
<1>3. Under(a, b) => Len(a) < Len(b)
  BY UnderIsLonger
<1>4. Under(b, a) => Len(b) < Len(a)
  BY UnderIsLonger
<1> QED BY <1>1, <1>2, <1>3, <1>4 DEF AtOrUnder

\* Two directories above one path are above each other.
LEMMA UnderLinear ==
  ASSUME NEW S, NEW a \in Seq(S), NEW b \in Seq(S), NEW c \in Seq(S),
         AtOrUnder(a, c), AtOrUnder(b, c)
  PROVE  AtOrUnder(a, b) \/ Under(b, a)
<1>1. Len(a) \in Nat /\ Len(b) \in Nat /\ Len(c) \in Nat
  BY LenProperties
<1>2. Len(a) <= Len(c) /\ \A i \in 1..Len(a) : a[i] = c[i]
  BY <1>1, UnderMeans DEF AtOrUnder
<1>3. Len(b) <= Len(c) /\ \A i \in 1..Len(b) : b[i] = c[i]
  BY <1>1, UnderMeans DEF AtOrUnder
<1>4. CASE Len(a) < Len(b)
  <2>1. \A i \in 1..Len(a) : a[i] = b[i]
    BY <1>1, <1>2, <1>3, <1>4
  <2> QED BY <1>4, <2>1, UnderMeans DEF AtOrUnder
<1>5. CASE Len(b) < Len(a)
  <2>1. \A i \in 1..Len(b) : b[i] = a[i]
    BY <1>1, <1>2, <1>3, <1>5
  <2> QED BY <1>5, <2>1, UnderMeans
<1>6. CASE Len(a) = Len(b)
  <2>1. \A i \in 1..Len(a) : a[i] = b[i]
    BY <1>1, <1>2, <1>3, <1>6
  <2>2. a = b
    BY <1>6, <2>1, SeqEqual
  <2> QED BY <2>2 DEF AtOrUnder
<1> QED BY <1>1, <1>4, <1>5, <1>6

\* What is above a path is its parent, or above that.
LEMMA UnderParent ==
  ASSUME NEW S, NEW dir \in Seq(S), NEW path \in Seq(S), path # <<>>
  PROVE  /\ Under(dir, path) <=> AtOrUnder(dir, Parent(path))
         /\ Under(Parent(path), path)
<1> DEFINE up == Parent(path)
<1>1. up \in Seq(S) /\ Len(up) = Len(path) - 1
  BY ParentProperties
<1>2. Len(dir) \in Nat /\ Len(path) \in Nat \ {0}
  BY LenProperties, EmptySeq
<1>3. \A i \in 1..Len(up) : up[i] = path[i]
  <2>1. Len(path) - 1 \in 0..Len(path)
    BY <1>2
  <2>2. \A i \in 1..(Len(path) - 1) : SubSeq(path, 1, Len(path) - 1)[i] = path[i]
    BY <2>1, FirstPart
  <2>3. up = SubSeq(path, 1, Len(path) - 1)
    BY DEF Parent, Front
  <2> QED BY <1>1, <2>2, <2>3
<1>4. Len(up) = Len(path) - 1
  BY <1>1
<1>5. up \in Seq(S) /\ Len(up) \in Nat
  BY <1>1, LenProperties
<1>6. up = Parent(path)
  OBVIOUS
<1> HIDE DEF up
<1>7. Under(up, path)
  BY <1>2, <1>3, <1>4, <1>5, UnderMeans
<1>8. AtOrUnder(dir, up) => Under(dir, path)
  BY <1>5, <1>7, UnderTrans DEF AtOrUnder
<1>9. ASSUME Under(dir, path) PROVE AtOrUnder(dir, up)
  <2>1. Len(dir) < Len(path)
    BY <1>9, UnderIsLonger
  <2>2. ~Under(up, dir)
    <3>1. Under(up, dir) => Len(up) < Len(dir)
      BY <1>5, UnderIsLonger
    <3> QED BY <1>2, <1>4, <1>5, <2>1, <3>1
  <2> QED BY <1>5, <1>7, <1>9, <2>2, UnderLinear DEF AtOrUnder
<1> QED BY <1>6, <1>7, <1>8, <1>9

\* The ancestors of a path are the paths above it.
LEMMA AncestorsAbove ==
  ASSUME NEW S, NEW path \in Seq(S), NEW q \in Seq(S), q # <<>>
  PROVE  Under(q, path) <=> q \in Ancestors(path)
<1>1. Len(path) \in Nat /\ Len(q) \in Nat \ {0}
  BY LenProperties, EmptySeq
<1>2. ASSUME Under(q, path) PROVE q \in Ancestors(path)
  <2>1. Len(q) < Len(path) /\ \A i \in 1..Len(q) : q[i] = path[i]
    BY <1>2, UnderMeans
  <2> DEFINE first == SubSeq(path, 1, Len(q))
  <2>2. Len(q) \in 0..Len(path) /\ Len(q) \in 1..(Len(path) - 1)
    BY <1>1, <2>1
  <2>3. /\ first \in Seq(S) /\ Len(first) = Len(q)
        /\ \A i \in 1..Len(q) : first[i] = path[i]
    BY <2>2, FirstPart
  <2>4. first \in Ancestors(path)
    BY <2>2 DEF Ancestors
  <2> HIDE DEF first
  <2>5. first = q
    BY <2>1, <2>3, SeqEqual
  <2> QED BY <2>4, <2>5
<1>3. ASSUME q \in Ancestors(path) PROVE Under(q, path)
  <2>1. PICK n \in 1..(Len(path) - 1) : q = SubSeq(path, 1, n)
    BY <1>3 DEF Ancestors
  <2>2. n \in 0..Len(path)
    BY <1>1
  <2>3. Len(q) = n /\ \A i \in 1..n : q[i] = path[i]
    BY <2>1, <2>2, FirstPart
  <2>4. Len(q) < Len(path)
    BY <1>1, <2>3
  <2> QED BY <2>3, <2>4, UnderMeans
<1> QED BY <1>2, <1>3

LEMMA AncestorsArePaths ==
  ASSUME NEW S, NEW path \in Seq(S), NEW q \in Ancestors(path)
  PROVE  q \in Seq(S) /\ q # <<>> /\ Under(q, path)
<1>1. PICK n \in 1..(Len(path) - 1) : q = SubSeq(path, 1, n)
  BY DEF Ancestors
<1>2. n \in 1..Len(path)
  BY LenProperties
<1>3. q \in Seq(S) \ {<<>>}
  BY <1>1, <1>2, PrefixProperties
<1> QED BY <1>3, AncestorsAbove

\* A path that is moved along with a directory: its segments.
Shifted(a, from, to, r, S) ==
  /\ r \in Seq(S)
  /\ Len(r) = Len(to) + (Len(a) - Len(from))
  /\ Len(a) - Len(from) \in Nat
  /\ \A i \in 1..Len(to) : r[i] = to[i]
  /\ \A i \in 1..(Len(a) - Len(from)) : r[Len(to) + i] = a[Len(from) + i]

LEMMA RebaseAt ==
  ASSUME NEW S, NEW a \in Seq(S), NEW from \in Seq(S), NEW to \in Seq(S), AtOrUnder(from, a)
  PROVE  Shifted(a, from, to, Rebase(a, from, to), S)
<1> DEFINE r == Rebase(a, from, to)
<1> DEFINE rest == SubSeq(a, Len(from) + 1, Len(a))
<1>1. Len(from) \in Nat /\ Len(a) \in Nat /\ Len(to) \in Nat
  BY LenProperties
<1>2. Len(from) <= Len(a)
  BY <1>1, UnderMeans DEF AtOrUnder
<1>3. \A i \in (Len(from) + 1)..Len(a) : a[i] \in S
  BY <1>1, ElementOfSeq
<1>4. /\ rest \in Seq(S)
      /\ Len(rest) = IF Len(from) + 1 <= Len(a) THEN Len(a) - (Len(from) + 1) + 1 ELSE 0
      /\ \A i \in 1..(Len(a) - (Len(from) + 1) + 1) : rest[i] = a[Len(from) + 1 + i - 1]
  BY <1>1, <1>3, SubSeqProperties
<1> HIDE DEF rest
<1>5. Len(rest) = Len(a) - Len(from)
  BY <1>1, <1>2, <1>4
<1>6. \A i \in 1..(Len(a) - Len(from)) : rest[i] = a[Len(from) + i]
  <2> TAKE i \in 1..(Len(a) - Len(from))
  <2>1. i \in 1..(Len(a) - (Len(from) + 1) + 1) /\ Len(from) + 1 + i - 1 = Len(from) + i
    BY <1>1
  <2> QED BY <1>4, <2>1
<1>7. /\ to \o rest \in Seq(S) /\ Len(to \o rest) = Len(to) + Len(rest)
      /\ \A i \in 1..Len(to) + Len(rest) :
           (to \o rest)[i] = IF i <= Len(to) THEN to[i] ELSE rest[i - Len(to)]
  BY <1>4, ConcatProperties
<1>8. r = to \o rest
  BY DEF Rebase, rest
<1> HIDE DEF r
<1>9. \A i \in 1..Len(to) : r[i] = to[i]
  BY <1>1, <1>2, <1>5, <1>7, <1>8
<1>10. ASSUME NEW i \in 1..(Len(a) - Len(from)) PROVE r[Len(to) + i] = a[Len(from) + i]
  <2>1. Len(to) + i \in 1..Len(to) + Len(rest) /\ ~(Len(to) + i <= Len(to)) /\ Len(to) + i - Len(to) = i
    BY <1>1, <1>2, <1>5
  <2>2. r[Len(to) + i] = rest[i]
    BY <1>7, <1>8, <2>1
  <2> QED BY <1>6, <2>2
<1>11. r \in Seq(S) /\ Len(r) = Len(to) + (Len(a) - Len(from)) /\ Len(a) - Len(from) \in Nat
  BY <1>1, <1>2, <1>5, <1>7, <1>8
<1> QED BY <1>9, <1>10, <1>11 DEF r, Shifted

LEMMA RebaseBelow ==
  ASSUME NEW S, NEW a \in Seq(S), NEW from \in Seq(S), NEW to \in Seq(S), AtOrUnder(from, a)
  PROVE  AtOrUnder(to, Rebase(a, from, to))
<1> DEFINE r == Rebase(a, from, to)
<1>7. Shifted(a, from, to, r, S)
  BY RebaseAt
<1>2. Len(a) \in Nat /\ Len(from) \in Nat /\ Len(to) \in Nat
  BY LenProperties
<1> SUFFICES AtOrUnder(to, r)
  OBVIOUS
<1> HIDE DEF r
<1>1. /\ r \in Seq(S) /\ Len(r) = Len(to) + (Len(a) - Len(from))
      /\ Len(a) - Len(from) \in Nat
      /\ \A i \in 1..Len(to) : r[i] = to[i]
  BY <1>7 DEF Shifted
<1>3. CASE Len(to) < Len(r)
  BY <1>1, <1>3, UnderMeans DEF AtOrUnder
<1>4. CASE Len(to) = Len(r)
  BY <1>1, <1>4, SeqEqual DEF AtOrUnder
<1>5. Len(to) <= Len(r)
  BY <1>1, <1>2
<1>6. Len(r) \in Nat
  BY <1>1, LenProperties
<1> QED BY <1>2, <1>3, <1>4, <1>5, <1>6

\* Different paths are moved to different ones.
LEMMA RebaseInjective ==
  ASSUME NEW S, NEW a \in Seq(S), NEW b \in Seq(S), NEW from \in Seq(S), NEW to \in Seq(S),
         AtOrUnder(from, a), AtOrUnder(from, b), Rebase(a, from, to) = Rebase(b, from, to)
  PROVE  a = b
<1> DEFINE r == Rebase(a, from, to)
<1>7. Shifted(a, from, to, r, S) /\ Shifted(b, from, to, r, S)
  <2>1. Shifted(b, from, to, Rebase(b, from, to), S)
    BY RebaseAt
  <2> QED BY <2>1, RebaseAt
<1> HIDE DEF r
<1>1. /\ Len(r) = Len(to) + (Len(a) - Len(from)) /\ Len(a) - Len(from) \in Nat
      /\ \A i \in 1..(Len(a) - Len(from)) : r[Len(to) + i] = a[Len(from) + i]
  BY <1>7 DEF Shifted
<1>2. /\ Len(r) = Len(to) + (Len(b) - Len(from)) /\ Len(b) - Len(from) \in Nat
      /\ \A i \in 1..(Len(b) - Len(from)) : r[Len(to) + i] = b[Len(from) + i]
  BY <1>7 DEF Shifted
<1>3. Len(a) \in Nat /\ Len(b) \in Nat /\ Len(from) \in Nat /\ Len(to) \in Nat
  BY LenProperties
<1>4. Len(a) = Len(b)
  BY <1>1, <1>2, <1>3
<1>5. /\ \A i \in 1..Len(from) : from[i] = a[i]
      /\ \A i \in 1..Len(from) : from[i] = b[i]
  BY UnderMeans DEF AtOrUnder
<1>6. ASSUME NEW i \in 1..Len(a) PROVE a[i] = b[i]
  <2>1. CASE i <= Len(from)
    BY <1>3, <1>5, <2>1
  <2>2. CASE i > Len(from)
    <3>1. i - Len(from) \in 1..(Len(a) - Len(from)) /\ Len(from) + (i - Len(from)) = i
      BY <1>3, <2>2
    <3>2. r[Len(to) + (i - Len(from))] = a[i] /\ r[Len(to) + (i - Len(from))] = b[i]
      BY <1>1, <1>2, <1>4, <3>1
    <3> QED BY <3>2
  <2> QED BY <1>3, <2>1, <2>2
<1> QED BY <1>4, <1>6, SeqEqual

LEMMA RebaseUnder ==
  ASSUME NEW S, NEW a \in Seq(S), NEW b \in Seq(S), NEW from \in Seq(S), NEW to \in Seq(S),
         AtOrUnder(from, b), Under(b, a)
  PROVE  Under(Rebase(b, from, to), Rebase(a, from, to))
<1>1. AtOrUnder(from, a)
  BY UnderTrans DEF AtOrUnder
<1> DEFINE r == Rebase(a, from, to)
           s == Rebase(b, from, to)
<1>8. Shifted(a, from, to, r, S)
  BY <1>1, RebaseAt
<1>9. Shifted(b, from, to, s, S)
  BY RebaseAt
<1> SUFFICES Under(s, r)
  OBVIOUS
<1> HIDE DEF r, s
<1>2. /\ r \in Seq(S) /\ Len(r) = Len(to) + (Len(a) - Len(from))
      /\ \A i \in 1..Len(to) : r[i] = to[i]
      /\ \A i \in 1..(Len(a) - Len(from)) : r[Len(to) + i] = a[Len(from) + i]
  BY <1>8 DEF Shifted
<1>3. /\ s \in Seq(S) /\ Len(s) = Len(to) + (Len(b) - Len(from)) /\ Len(b) - Len(from) \in Nat
      /\ \A i \in 1..Len(to) : s[i] = to[i]
      /\ \A i \in 1..(Len(b) - Len(from)) : s[Len(to) + i] = b[Len(from) + i]
  BY <1>9 DEF Shifted
<1>4. Len(a) \in Nat /\ Len(b) \in Nat /\ Len(from) \in Nat /\ Len(to) \in Nat
  BY LenProperties
<1>5. Len(b) < Len(a) /\ \A i \in 1..Len(b) : b[i] = a[i]
  BY UnderMeans
<1>6. ASSUME NEW i \in 1..Len(s) PROVE s[i] = r[i]
  <2>1. CASE i <= Len(to)
    BY <1>2, <1>3, <1>4, <2>1
  <2>2. CASE i > Len(to)
    <3> DEFINE j == i - Len(to)
    <3>1. j \in 1..(Len(b) - Len(from)) /\ Len(to) + j = i
      BY <1>3, <1>4, <2>2
    <3>2. j \in 1..(Len(a) - Len(from)) /\ Len(from) + j \in 1..Len(b)
      BY <1>4, <1>5, <3>1
    <3> HIDE DEF j
    <3>3. s[i] = b[Len(from) + j] /\ r[i] = a[Len(from) + j]
      BY <1>2, <1>3, <3>1, <3>2
    <3> QED BY <1>5, <3>2, <3>3
  <2> QED BY <1>3, <1>4, <2>1, <2>2
<1>7. Len(s) < Len(r)
  BY <1>2, <1>3, <1>4, <1>5
<1> QED BY <1>2, <1>3, <1>6, <1>7, UnderMeans

\* What is above a moved path is above the new place of the directory, or was
\* moved along with it.
LEMMA RebaseAbove ==
  ASSUME NEW S, NEW a \in Seq(S), NEW from \in Seq(S), NEW to \in Seq(S), AtOrUnder(from, a),
         NEW q \in Seq(S), Under(q, Rebase(a, from, to)), ~Under(q, to)
  PROVE  \E b \in Seq(S) : AtOrUnder(from, b) /\ Under(b, a) /\ q = Rebase(b, from, to)
<1> DEFINE r == Rebase(a, from, to)
<1>17. Shifted(a, from, to, r, S)
  BY RebaseAt
<1>2. AtOrUnder(to, r)
  BY RebaseBelow
<1>3. Under(q, r)
  OBVIOUS
<1> HIDE DEF r
<1>1. /\ r \in Seq(S) /\ Len(r) = Len(to) + (Len(a) - Len(from))
      /\ Len(a) - Len(from) \in Nat
      /\ \A i \in 1..Len(to) : r[i] = to[i]
      /\ \A i \in 1..(Len(a) - Len(from)) : r[Len(to) + i] = a[Len(from) + i]
  BY <1>17 DEF Shifted
<1>4. Len(a) \in Nat /\ Len(q) \in Nat /\ Len(from) \in Nat /\ Len(to) \in Nat
  BY LenProperties
<1>5. AtOrUnder(to, q)
  BY <1>1, <1>2, <1>3, UnderLinear DEF AtOrUnder
<1>6. Len(q) < Len(r) /\ \A i \in 1..Len(q) : q[i] = r[i]
  BY <1>1, <1>3, UnderMeans
<1>7. Len(to) <= Len(q)
  BY <1>4, <1>5, UnderMeans DEF AtOrUnder
<1> DEFINE n == Len(from) + (Len(q) - Len(to))
           b == SubSeq(a, 1, n)
<1>8. n \in 0..Len(a) /\ n < Len(a) /\ n - Len(from) = Len(q) - Len(to) /\ Len(from) <= n
  BY <1>1, <1>4, <1>6, <1>7
<1>9. b \in Seq(S) /\ Len(b) = n /\ \A i \in 1..n : b[i] = a[i]
  BY <1>8, FirstPart
<1> HIDE DEF b, n
<1>10. Under(b, a)
  BY <1>8, <1>9, UnderMeans
<1>11. AtOrUnder(from, b)
  <2>1. ~Under(b, from)
    <3>1. Under(b, from) => Len(b) < Len(from)
      BY <1>9, UnderIsLonger
    <3> QED BY <1>4, <1>8, <1>9, <3>1
  <2> QED BY <1>9, <1>10, <2>1, UnderLinear DEF AtOrUnder
<1> DEFINE s == Rebase(b, from, to)
<1>18. Shifted(b, from, to, s, S)
  BY <1>9, <1>11, RebaseAt
<1>13. s = Rebase(b, from, to)
  OBVIOUS
<1> HIDE DEF s
<1>12. /\ s \in Seq(S) /\ Len(s) = Len(to) + (Len(b) - Len(from))
       /\ \A i \in 1..Len(to) : s[i] = to[i]
       /\ \A i \in 1..(Len(b) - Len(from)) : s[Len(to) + i] = b[Len(from) + i]
  BY <1>18 DEF Shifted
<1>14. Len(s) = Len(q)
  BY <1>4, <1>8, <1>9, <1>12
<1>15. ASSUME NEW i \in 1..Len(q) PROVE s[i] = q[i]
  <2>1. CASE i <= Len(to)
    <3>1. i \in 1..Len(to)
      BY <1>4, <2>1
    <3> QED BY <1>1, <1>6, <1>12, <3>1
  <2>2. CASE i > Len(to)
    <3> DEFINE j == i - Len(to)
    <3>1. j \in 1..(n - Len(from)) /\ Len(to) + j = i
      BY <1>4, <1>8, <2>2
    <3>2. j \in 1..(Len(a) - Len(from)) /\ Len(from) + j \in 1..n
      BY <1>4, <1>8, <3>1
    <3> HIDE DEF j
    <3>3. s[i] = b[Len(from) + j] /\ r[i] = a[Len(from) + j]
      BY <1>1, <1>9, <1>12, <3>1, <3>2
    <3> QED BY <1>6, <1>9, <3>2, <3>3
  <2> QED BY <1>4, <2>1, <2>2
<1>16. s = q
  BY <1>12, <1>14, <1>15, SeqEqual
<1> QED BY <1>9, <1>10, <1>11, <1>13, <1>16
\* What is below a directory is at or below an entry in it.
LEMMA ChildToward ==
  ASSUME NEW S, NEW dir \in Seq(S), NEW path \in Seq(S), Under(dir, path)
  PROVE  \E c \in Seq(S) : c # <<>> /\ Parent(c) = dir /\ AtOrUnder(c, path)
<1>1. Len(dir) \in Nat /\ Len(path) \in Nat
  BY LenProperties
<1>2. Len(dir) < Len(path) /\ \A i \in 1..Len(dir) : dir[i] = path[i]
  BY UnderMeans
<1> DEFINE n == Len(dir) + 1
           c == SubSeq(path, 1, n)
<1>3. n \in 0..Len(path)
  BY <1>1, <1>2
<1>4. c \in Seq(S) /\ Len(c) = n /\ \A i \in 1..n : c[i] = path[i]
  BY <1>3, FirstPart
<1> HIDE DEF c
<1>5. c # <<>>
  BY <1>1, <1>4, EmptySeq
<1>6. Parent(c) = dir
  <2> DEFINE front == SubSeq(c, 1, Len(c) - 1)
  <2>1. Len(c) - 1 = Len(dir) /\ Len(c) - 1 \in 0..Len(c)
    BY <1>1, <1>4
  <2>2. front \in Seq(S) /\ Len(front) = Len(dir) /\ \A i \in 1..Len(dir) : front[i] = c[i]
    BY <1>4, <2>1, FirstPart
  <2> HIDE DEF front
  <2>3. \A i \in 1..Len(dir) : front[i] = dir[i]
    BY <1>1, <1>2, <1>4, <2>2
  <2>4. front = dir
    BY <2>2, <2>3, SeqEqual
  <2> QED BY <2>4 DEF Parent, Front, front
<1>7. AtOrUnder(c, path)
  <2>1. CASE Len(path) = n
    <3>1. \A i \in 1..Len(path) : c[i] = path[i]
      BY <1>4, <2>1
    <3>2. c = path
      BY <1>4, <2>1, <3>1, SeqEqual
    <3> QED BY <3>2 DEF AtOrUnder
  <2>2. CASE Len(path) # n
    <3>1. Len(c) < Len(path) /\ \A i \in 1..Len(c) : c[i] = path[i]
      BY <1>1, <1>2, <1>4, <2>2
    <3> QED BY <1>4, <3>1, UnderMeans DEF AtOrUnder
  <2> QED BY <2>1, <2>2
<1> QED BY <1>4, <1>5, <1>6, <1>7

-----------------------------------------------------------------------------
(* Least elements: what stands in for induction where an argument needs it. *)

LEMMA LeastNumber ==
  ASSUME NEW T, T \subseteq Nat, T # {}
  PROVE  \E x \in T : \A y \in T : x <= y
<1> DEFINE R == OpToRel(<, Nat)
<1>1. IsWellFoundedOn(R, Nat)
  BY NatLessThanWellFounded
<1>2. \A x, y \in Nat : y < x => <<y, x>> \in R
  BY DEF OpToRel
<1> HIDE DEF R
<1>3. PICK x \in T : \A y \in T : ~(<<y, x>> \in R)
  BY <1>1, WFMin
<1>4. ASSUME NEW y \in T PROVE x <= y
  <2>1. x \in Nat /\ y \in Nat
    OBVIOUS
  <2>2. ~(y < x)
    BY <1>2, <1>3, <2>1
  <2> QED BY <2>1, <2>2
<1> QED BY <1>4

\* A set of paths has one that is below no other.
LEMMA TopmostPath ==
  ASSUME NEW S, NEW T, T \subseteq Seq(S), T # {}
  PROVE  \E a \in T : \A b \in T : ~Under(b, a)
<1> DEFINE lengths == {Len(a) : a \in T}
<1>1. lengths \subseteq Nat /\ lengths # {}
  BY LenProperties
<1>2. PICK n \in lengths : \A m \in lengths : n <= m
  BY <1>1, LeastNumber
<1>3. PICK a \in T : Len(a) = n
  OBVIOUS
<1>4. ASSUME NEW b \in T PROVE ~Under(b, a)
  <2>1. Len(b) \in lengths /\ Len(b) \in Nat /\ Len(a) \in Nat
    BY LenProperties
  <2>2. Under(b, a) => Len(b) < Len(a)
    BY UnderIsLonger
  <2>3. Len(a) <= Len(b)
    BY <1>2, <1>3, <2>1
  <2> HIDE DEF lengths
  <2> QED BY <2>1, <2>2, <2>3
<1> QED BY <1>4

=============================================================================
