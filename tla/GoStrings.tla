----------------------------- MODULE GoStrings -----------------------------
(***************************************************************************)
(* The functions of Go's strings package the adapter applies to names,     *)
(* paths and headers, on strings modelled as sequences of characters       *)
(* (one-character strings, or a token standing for a fixed run of bytes).  *)
(* Indexes are 1-based and 0 stands for Go's -1.                           *)
(***************************************************************************)
EXTENDS Integers, Sequences, SequencesExt

Str(c) == <<c>>

\* The only white space character of the models.
Space == " "

\* strings.TrimSpace
TrimSpace(s) ==
    LET kept == {i \in 1..Len(s) : s[i] # Space}
    IN  IF kept = {} THEN <<>> ELSE SubSeq(s, Min(kept), Max(kept))

\* strings.TrimSuffix
TrimSuffix(s, suffix) ==
    IF IsSuffix(suffix, s) THEN SubSeq(s, 1, Len(s) - Len(suffix)) ELSE s

\* strings.Index: the first position at which pat occurs in s.
Index(s, pat) ==
    LET at == {i \in 1..Len(s) - Len(pat) + 1 : SubSeq(s, i, i + Len(pat) - 1) = pat}
    IN  IF at = {} THEN 0 ELSE Min(at)

\* strings.Split around every occurrence of the character sep.
Split(s, sep) ==
    LET cuts   == {0, Len(s) + 1} \cup {i \in 1..Len(s) : s[i] = sep}
        cut(k) == CHOOSE c \in cuts : Cardinality({d \in cuts : d < c}) = k
    IN  [k \in 1..Cardinality(cuts) - 1 |-> SubSeq(s, cut(k - 1) + 1, cut(k) - 1)]
=============================================================================
