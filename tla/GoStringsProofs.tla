--------------------------- MODULE GoStringsProofs ---------------------------
(***************************************************************************)
(* What the models of Go's strings functions return on the inputs the      *)
(* adapter gives them: the first match of strings.Index, TrimSpace of a    *)
(* string with no space at either end, and Split around two separators.   *)
(***************************************************************************)
EXTENDS GoStrings, SequenceTheorems, FiniteSetTheorems, TLAPS

\* A slice of a sequence inside its bounds: its type, length and elements.
LEMMA SubSeqIn ==
    ASSUME NEW S, NEW s \in Seq(S), NEW m \in 1..Len(s) + 1, NEW n \in m - 1..Len(s)
    PROVE  /\ SubSeq(s, m, n) \in Seq(S)
           /\ Len(SubSeq(s, m, n)) = n - m + 1
           /\ \A i \in 1..n - m + 1 : SubSeq(s, m, n)[i] = s[m + i - 1]
<1>1. \A i \in m..n : s[i] \in S
    OBVIOUS
<1>2. m \in Int /\ n \in Int
    OBVIOUS
<1>3. /\ SubSeq(s, m, n) \in Seq(S)
      /\ Len(SubSeq(s, m, n)) = IF m <= n THEN n - m + 1 ELSE 0
      /\ \A i \in 1..n - m + 1 : SubSeq(s, m, n)[i] = s[m + i - 1]
    BY <1>1, <1>2, SubSeqProperties
<1>4. QED
    BY <1>3

\* Two least (or two greatest) elements of a set of integers are equal.
LEMMA LeastUnique ==
    ASSUME NEW T \in SUBSET Int, NEW k \in T, NEW m \in T,
           \A y \in T : k <= y, \A y \in T : m <= y
    PROVE  m = k
OBVIOUS

LEMMA GreatestUnique ==
    ASSUME NEW T \in SUBSET Int, NEW k \in T, NEW m \in T,
           \A y \in T : k >= y, \A y \in T : m >= y
    PROVE  m = k
OBVIOUS

\* The least element of a set of integers is its Min, the greatest its Max.
LEMMA MinIs ==
    ASSUME NEW T \in SUBSET Int, NEW k \in T, \A y \in T : k <= y
    PROVE  Min(T) = k
<1>1. \E x \in T : \A y \in T : x <= y
    OBVIOUS
<1>2. Min(T) \in T /\ \A y \in T : Min(T) <= y
    BY <1>1, Zenon DEF Min
<1>3. QED
    BY <1>2, LeastUnique, Zenon

LEMMA MaxIs ==
    ASSUME NEW T \in SUBSET Int, NEW k \in T, \A y \in T : k >= y
    PROVE  Max(T) = k
<1>1. \E x \in T : \A y \in T : x >= y
    OBVIOUS
<1>2. Max(T) \in T /\ \A y \in T : Max(T) >= y
    BY <1>1, Zenon DEF Max
<1>3. QED
    BY <1>2, GreatestUnique, Zenon

\* pat occurs in s at k and nowhere before.
FirstMatchAt(s, pat, k) ==
    /\ SubSeq(s, k, k + Len(pat) - 1) = pat
    /\ \A j \in 1..(k - 1) : SubSeq(s, j, j + Len(pat) - 1) # pat

\* strings.Index returns the first position at which pat occurs.
LEMMA IndexAt ==
    ASSUME NEW S, NEW s \in Seq(S), NEW pat \in Seq(S),
           NEW k \in 1..(Len(s) - Len(pat) + 1), FirstMatchAt(s, pat, k)
    PROVE  Index(s, pat) = k
<1> DEFINE at == {i \in 1..Len(s) - Len(pat) + 1 : SubSeq(s, i, i + Len(pat) - 1) = pat}
<1>1. k \in at
    BY DEF at, FirstMatchAt
<1>2. \A y \in at : k <= y
    BY DEF at, FirstMatchAt
<1>3. at \in SUBSET Int
    BY DEF at
<1>4. Min(at) = k
    BY <1>1, <1>2, <1>3, MinIs, Zenon
<1>5. QED
    BY <1>1, <1>4 DEF Index, at

\* A slice of one element.
LEMMA SubSeqOne ==
    ASSUME NEW s, NEW m \in Int PROVE SubSeq(s, m, m) = <<s[m]>>
<1>1. m - m + 1 = 1 /\ 1 + m - 1 = m
    OBVIOUS
<1>2. SubSeq(s, m, m) = [i \in 1..1 |-> s[i + m - 1]]
    BY <1>1
<1>3. [i \in 1..1 |-> s[i + m - 1]] = <<s[m]>>
    BY <1>1
<1>4. QED
    BY <1>2, <1>3

\* c does not occur in s before k.
NoneBefore(s, c, k) == \A j \in 1..(k - 1) : s[j] # c

\* strings.Index of a one-character pattern is its first occurrence.
LEMMA IndexOfChar ==
    ASSUME NEW S, NEW s \in Seq(S), NEW c \in S, NEW k \in 1..Len(s), s[k] = c,
           NoneBefore(s, c, k)
    PROVE  Index(s, <<c>>) = k
<1>1. <<c>> \in Seq(S) /\ Len(<<c>>) = 1
    OBVIOUS
<1>2. k \in 1..(Len(s) - Len(<<c>>) + 1)
    BY <1>1
<1>3. SubSeq(s, k, k + Len(<<c>>) - 1) = <<c>>
    <2>1. SubSeq(s, k, k) = <<s[k]>>
        BY SubSeqOne
    <2>2. QED
        BY <1>1, <2>1
<1>4. \A j \in 1..(k - 1) : SubSeq(s, j, j + Len(<<c>>) - 1) # <<c>>
    <2>1. SUFFICES ASSUME NEW j \in 1..(k - 1)
                   PROVE  SubSeq(s, j, j + Len(<<c>>) - 1) # <<c>>
        OBVIOUS
    <2>2. SubSeq(s, j, j) = <<s[j]>>
        BY SubSeqOne
    <2>3. s[j] # c
        BY DEF NoneBefore
    <2>4. QED
        BY <1>1, <2>2, <2>3
<1>5. FirstMatchAt(s, <<c>>, k)
    BY <1>3, <1>4 DEF FirstMatchAt
<1>6. QED
    BY <1>1, <1>2, <1>5, IndexAt

\* strings.TrimSpace leaves a string with no space at either end as it is.
LEMMA TrimSpaceNoEdges ==
    ASSUME NEW S, NEW s \in Seq(S), Len(s) >= 1, s[1] # Space, s[Len(s)] # Space
    PROVE  TrimSpace(s) = s
<1> DEFINE kept == {i \in 1..Len(s) : s[i] # Space}
<1>1. 1 \in kept /\ Len(s) \in kept
    BY DEF kept
<1>2. kept \in SUBSET Int /\ \A y \in kept : 1 <= y /\ Len(s) >= y
    BY DEF kept
<1>3. Min(kept) = 1 /\ Max(kept) = Len(s)
    BY <1>1, <1>2, MinIs, MaxIs, Zenon
<1>4. SubSeq(s, 1, Len(s)) = s
    BY SubSeqFull
<1>5. QED
    BY <1>1, <1>3, <1>4 DEF TrimSpace, kept

\* Four increasing numbers, counted one after the other.
LEMMA CountFour ==
    ASSUME NEW x \in Nat, NEW y \in Nat, NEW z \in Nat, 0 < x, x < y, y < z
    PROVE  /\ Cardinality({0}) = 1
           /\ Cardinality({0} \cup {x}) = 2
           /\ Cardinality(({0} \cup {x}) \cup {y}) = 3
           /\ Cardinality((({0} \cup {x}) \cup {y}) \cup {z}) = 4
<1>1. IsFiniteSet({0}) /\ Cardinality({0}) = 1
    BY FS_Singleton
<1>2. x \notin {0} /\ y \notin {0} \cup {x} /\ z \notin ({0} \cup {x}) \cup {y}
    OBVIOUS
<1>3. IsFiniteSet({0} \cup {x}) /\ Cardinality({0} \cup {x}) = Cardinality({0}) + 1
    BY <1>1, <1>2, FS_AddElement, Zenon
<1>4. /\ IsFiniteSet(({0} \cup {x}) \cup {y})
      /\ Cardinality(({0} \cup {x}) \cup {y}) = Cardinality({0} \cup {x}) + 1
    BY <1>2, <1>3, FS_AddElement, Zenon
<1>5. Cardinality((({0} \cup {x}) \cup {y}) \cup {z})
          = Cardinality(({0} \cup {x}) \cup {y}) + 1
    BY <1>2, <1>4, FS_AddElement, Zenon
<1>6. Cardinality({0} \cup {x}) = 2
    BY <1>1, <1>3
<1>7. Cardinality(({0} \cup {x}) \cup {y}) = 3
    BY <1>4, <1>6
<1>8. Cardinality((({0} \cup {x}) \cup {y}) \cup {z}) = 4
    BY <1>5, <1>7
<1>9. QED
    BY <1>1, <1>3, <1>4, <1>6, <1>7, <1>8

\* The k-th of the cuts 0 < a < b < n, chosen as the one with k cuts below it,
\* as strings.Split picks them.
LEMMA CutsOfFour ==
    ASSUME NEW a \in Nat, NEW b \in Nat, NEW n \in Nat, 0 < a, a < b, b < n
    PROVE  LET C      == {0, a, b, n}
               cut(k) == CHOOSE c \in C : Cardinality({d \in C : d < c}) = k
           IN  /\ Cardinality(C) = 4
               /\ cut(0) = 0 /\ cut(1) = a /\ cut(2) = b /\ cut(3) = n
<1> DEFINE C      == {0, a, b, n}
           below(c) == {d \in C : d < c}
           cut(k) == CHOOSE c \in C : Cardinality(below(c)) = k
<1>1. /\ below(0) = {}
      /\ below(a) = {0}
      /\ below(b) = {0} \cup {a}
      /\ below(n) = ({0} \cup {a}) \cup {b}
      /\ C = (({0} \cup {a}) \cup {b}) \cup {n}
    BY DEF below, C
<1>6. /\ Cardinality({0}) = 1
      /\ Cardinality({0} \cup {a}) = 2
      /\ Cardinality(({0} \cup {a}) \cup {b}) = 3
      /\ Cardinality((({0} \cup {a}) \cup {b}) \cup {n}) = 4
    BY CountFour
<1>7. Cardinality({}) = 0
    BY FS_EmptySet
<1>2. /\ Cardinality(below(0)) = 0
      /\ Cardinality(below(a)) = 1
      /\ Cardinality(below(b)) = 2
      /\ Cardinality(below(n)) = 3
      /\ Cardinality(C) = 4
    BY <1>1, <1>6, <1>7
<1>3. \A c \in C : c = 0 \/ c = a \/ c = b \/ c = n
    BY DEF C
<1>4. /\ cut(0) = 0
      /\ cut(1) = a
      /\ cut(2) = b
      /\ cut(3) = n
    BY <1>2, <1>3 DEF cut, C
<1>5. QED
    BY <1>2, <1>4 DEF cut, below, C

\* A function on 1..3 is the triple of its values.
LEMMA TripleOf ==
    ASSUME NEW T, NEW g \in [1..3 -> T], NEW x, NEW y, NEW z,
           g[1] = x, g[2] = y, g[3] = z
    PROVE  g = <<x, y, z>>
<1>1. \A k \in 1..3 : k = 1 \/ k = 2 \/ k = 3
    OBVIOUS
<1>2. /\ DOMAIN <<x, y, z>> = 1..3
      /\ <<x, y, z>>[1] = x /\ <<x, y, z>>[2] = y /\ <<x, y, z>>[3] = z
    OBVIOUS
<1>3. \A k \in 1..3 : g[k] = <<x, y, z>>[k]
    BY <1>1, <1>2, Zenon
<1>4. DOMAIN g = 1..3
    BY Zenon
<1>5. QED
    BY <1>2, <1>3, <1>4

\* sep occurs in s at exactly the positions a and b.
SepsAt(s, sep, a, b) == {i \in 1..Len(s) : s[i] = sep} = {a, b}

\* strings.Split of a string with sep at exactly the positions a < b gives
\* the three pieces between them.
LEMMA SplitTwoSeps ==
    ASSUME NEW S, NEW s \in Seq(S), NEW sep,
           NEW a \in 1..Len(s), NEW b \in 1..Len(s), a < b,
           SepsAt(s, sep, a, b)
    PROVE  Split(s, sep) = <<SubSeq(s, 1, a - 1), SubSeq(s, a + 1, b - 1),
                             SubSeq(s, b + 1, Len(s))>>
<1> DEFINE n == Len(s) + 1
           cuts == {0, Len(s) + 1} \cup {i \in 1..Len(s) : s[i] = sep}
           below(c) == {d \in cuts : d < c}
           cut(k) == CHOOSE c \in cuts : Cardinality({d \in cuts : d < c}) = k
<1>1. cuts = {0, a, b, n}
    BY DEF cuts, n, SepsAt
<1>2. a \in Nat /\ b \in Nat /\ n \in Nat /\ 0 < a /\ a < b /\ b < n
    BY DEF n
<1>5. /\ Cardinality(cuts) = 4
      /\ cut(0) = 0 /\ cut(1) = a /\ cut(2) = b /\ cut(3) = n
    <2>1. LET C      == {0, a, b, n}
              ct(k) == CHOOSE c \in C : Cardinality({d \in C : d < c}) = k
          IN  /\ Cardinality(C) = 4
              /\ ct(0) = 0 /\ ct(1) = a /\ ct(2) = b /\ ct(3) = n
        BY <1>2, CutsOfFour
    <2>2. QED
        BY <1>1, <2>1, Zenon DEF cut
<1>6. Split(s, sep) = [k \in 1..3 |-> SubSeq(s, cut(k - 1) + 1, cut(k) - 1)]
    <2>1. Cardinality(cuts) - 1 = 3
        BY <1>5
    <2>2. QED
        BY <2>1, Zenon DEF Split, cut, cuts
<1>7. /\ 1 \in 1..3 /\ 2 \in 1..3 /\ 3 \in 1..3
      /\ 1 - 1 = 0 /\ 2 - 1 = 1 /\ 3 - 1 = 2
      /\ 0 + 1 = 1 /\ n - 1 = Len(s)
    BY DEF n
<1>8. /\ Split(s, sep)[1] = SubSeq(s, cut(1 - 1) + 1, cut(1) - 1)
      /\ Split(s, sep)[2] = SubSeq(s, cut(2 - 1) + 1, cut(2) - 1)
      /\ Split(s, sep)[3] = SubSeq(s, cut(3 - 1) + 1, cut(3) - 1)
    BY <1>6, <1>7, Zenon
<1>9. /\ Split(s, sep)[1] = SubSeq(s, 1, a - 1)
      /\ Split(s, sep)[2] = SubSeq(s, a + 1, b - 1)
      /\ Split(s, sep)[3] = SubSeq(s, b + 1, Len(s))
    <2>1. cut(1 - 1) = 0 /\ cut(2 - 1) = a /\ cut(3 - 1) = b
        BY <1>5, <1>7, Zenon
    <2>2. /\ cut(1 - 1) + 1 = 1 /\ cut(1) - 1 = a - 1
          /\ cut(2 - 1) + 1 = a + 1 /\ cut(2) - 1 = b - 1
          /\ cut(3 - 1) + 1 = b + 1 /\ cut(3) - 1 = Len(s)
        BY <1>5, <1>7, <2>1
    <2>3. QED
        BY <1>8, <2>2, Zenon
<1> DEFINE pieces == {SubSeq(s, 1, a - 1), SubSeq(s, a + 1, b - 1), SubSeq(s, b + 1, Len(s))}
<1>10. Split(s, sep) \in [1..3 -> pieces]
    <2>1. \A k \in 1..3 : k = 1 \/ k = 2 \/ k = 3
        OBVIOUS
    <2>2. DOMAIN Split(s, sep) = 1..3
        BY <1>6
    <2>3. \A k \in 1..3 : Split(s, sep)[k] \in pieces
        BY <1>9, <2>1, Zenon DEF pieces
    <2>4. QED
        BY <1>6, <2>2, <2>3, Zenon
<1>11. \A g \in [1..3 -> pieces] :
            g[1] = SubSeq(s, 1, a - 1) /\ g[2] = SubSeq(s, a + 1, b - 1)
            /\ g[3] = SubSeq(s, b + 1, Len(s))
            => g = <<SubSeq(s, 1, a - 1), SubSeq(s, a + 1, b - 1), SubSeq(s, b + 1, Len(s))>>
    BY TripleOf
<1>12. QED
    BY <1>9, <1>10, <1>11
=============================================================================
