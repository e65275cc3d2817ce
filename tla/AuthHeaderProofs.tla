------------------------- MODULE AuthHeaderProofs -------------------------
(***************************************************************************)
(* Proofs about AuthHeader: the Authorization header that                  *)
(* signStep.generateAuthHeader builds (core/module/handler/step.go) is     *)
(* read back by parseHeader (validateSignStep, step.go) as the             *)
(* sender's subscriber id, key id and "ed25519", for every pair of legal   *)
(* ids and every bound MaxIdLen.  The argument follows the header token    *)
(* by token: keyId=" first occurs at position 3, the closing quote of its  *)
(* value right after the algorithm, the value has '|' at exactly two       *)
(* places, and strings.Split and strings.TrimSpace then give back the ids. *)
(***************************************************************************)
EXTENDS AuthHeader, GoStringsProofs, SequenceTheorems, TLAPS

\* The generated header split at the ids: the fixed head up to keyId=".
HeadA == <<"Signature", Space, "keyId=", Q>>
\* ... and the fixed tail after the key id.
TailC == <<"|", "ed25519", Q, ",algorithm=", Q, "ed25519", Q,
           ",created=", Q, "N", Q, ",expires=", Q, "N", Q,
           ",headers=", Q, SignedHeaders, Q, ",signature=", Q, "S", Q>>
\* Every token the fixed parts of the header are made of.
Tok == {"Signature", Space, "keyId=", Q, "|", "ed25519", ",algorithm=", ",created=",
        "N", ",expires=", ",headers=", SignedHeaders, ",signature=", "S"}
\* The alphabet of generated headers.
Chars == IdChars \cup Tok
\* Space and the quote are distinct from the other tokens used as delimiters.
LEMMA Tokens ==
    /\ Space \notin {"Signature", "keyId=", "|", "ed25519", Q}
    /\ Q \notin {"Signature", "keyId=", "|", "ed25519"}
<1>2. Space \notin {"Signature", "keyId=", "|", "ed25519", Q}
    BY Zenon DEF Space, Q
<1>3. Q \notin {"Signature", "keyId=", "|", "ed25519"}
    BY Zenon DEF Q
<1>4. QED
    BY <1>2, <1>3

\* generateAuthHeader is head, sub id, "|", key id, tail.
LEMMA HdrSplit ==
    ASSUME NEW sub, NEW kid
    PROVE  GenerateAuthHeader(sub, kid) = (((HeadA \o sub) \o <<"|">>) \o kid) \o TailC
BY DEF GenerateAuthHeader, HeadA, TailC
\* The fixed parts are strings over Chars.
LEMMA PartsSeq ==
    /\ HeadA \in Seq(Chars) /\ TailC \in Seq(Chars) /\ <<"|">> \in Seq(Chars)
    /\ <<"keyId=", Q>> \in Seq(Chars) /\ Len(<<"keyId=", Q>>) = 2
    /\ <<Q>> \in Seq(Chars) /\ Len(<<Q>>) = 1
    /\ Q \in Chars /\ "|" \in Chars /\ "ed25519" \in Chars
BY DEF HeadA, TailC, Chars, Tok


\* Lengths and tokens of the fixed parts.
LEMMA Parts ==
    /\ HeadA \in Seq(Chars) /\ Len(HeadA) = 4
    /\ HeadA[1] = "Signature" /\ HeadA[2] = Space /\ HeadA[3] = "keyId=" /\ HeadA[4] = Q
    /\ TailC \in Seq(Chars) /\ Len(TailC) = 23
    /\ TailC[1] = "|" /\ TailC[2] = "ed25519" /\ TailC[3] = Q
    /\ <<"|">> \in Seq(Chars) /\ Len(<<"|">>) = 1 /\ <<"|">>[1] = "|"
BY DEF HeadA, TailC, Chars, Tok
\* The header built up one concatenation at a time.
\* The prefixes of the header as it is concatenated.
X1(sub) == HeadA \o sub
X2(sub) == X1(sub) \o <<"|">>
X3(sub, kid) == X2(sub) \o kid
X4(sub, kid) == X3(sub, kid) \o TailC

\* Where the ids and the separators sit in a generated header.
HdrShape(sub, kid) ==
    LET H == GenerateAuthHeader(sub, kid)
    IN  /\ H \in Seq(Chars)
        /\ Len(H) = Len(sub) + Len(kid) + 28
        /\ H[1] = "Signature" /\ H[2] = Space /\ H[3] = "keyId=" /\ H[4] = Q
        /\ \A i \in 1..Len(sub) : H[4 + i] = sub[i]
        /\ H[Len(sub) + 5] = "|"
        /\ \A i \in 1..Len(kid) : H[Len(sub) + 5 + i] = kid[i]
        /\ H[Len(sub) + Len(kid) + 6] = "|"
        /\ H[Len(sub) + Len(kid) + 7] = "ed25519"
        /\ H[Len(sub) + Len(kid) + 8] = Q


\* The generated header, token by token.
LEMMA HdrAt ==
    ASSUME NEW sub \in Seq(Chars), NEW kid \in Seq(Chars)
    PROVE  HdrShape(sub, kid)
<1>1. /\ X1(sub) \in Seq(Chars) /\ Len(X1(sub)) = 4 + Len(sub)
      /\ \A i \in 1..4 + Len(sub) : X1(sub)[i] = IF i <= 4 THEN HeadA[i] ELSE sub[i - 4]
    <2>1. /\ HeadA \o sub \in Seq(Chars)
          /\ Len(HeadA \o sub) = Len(HeadA) + Len(sub)
          /\ \A i \in 1 .. Len(HeadA) + Len(sub) :
                (HeadA \o sub)[i] = IF i <= Len(HeadA) THEN HeadA[i] ELSE sub[i - Len(HeadA)]
        BY PartsSeq, ConcatProperties, Zenon
    <2>2. QED
        BY <2>1, Parts DEF X1
<1>2. /\ X2(sub) \in Seq(Chars) /\ Len(X2(sub)) = 5 + Len(sub)
      /\ \A i \in 1..5 + Len(sub) : X2(sub)[i] = IF i <= 4 + Len(sub) THEN X1(sub)[i] ELSE "|"
    <2>1. /\ X1(sub) \o <<"|">> \in Seq(Chars)
          /\ Len(X1(sub) \o <<"|">>) = Len(X1(sub)) + Len(<<"|">>)
          /\ \A i \in 1 .. Len(X1(sub)) + Len(<<"|">>) :
                (X1(sub) \o <<"|">>)[i] = IF i <= Len(X1(sub)) THEN X1(sub)[i] ELSE <<"|">>[i - Len(X1(sub))]
        <3>1. X1(sub) \in Seq(Chars)
            BY <1>1
        <3>2. QED
            BY <3>1, PartsSeq, ConcatProperties, Zenon
    <2>2. QED
        BY <1>1, <2>1, Parts DEF X2
<1>3. /\ X3(sub, kid) \in Seq(Chars) /\ Len(X3(sub, kid)) = 5 + Len(sub) + Len(kid)
      /\ \A i \in 1..5 + Len(sub) + Len(kid) :
            X3(sub, kid)[i] = IF i <= 5 + Len(sub) THEN X2(sub)[i] ELSE kid[i - 5 - Len(sub)]
    <2>1. /\ X2(sub) \o kid \in Seq(Chars)
          /\ Len(X2(sub) \o kid) = Len(X2(sub)) + Len(kid)
          /\ \A i \in 1 .. Len(X2(sub)) + Len(kid) :
                (X2(sub) \o kid)[i] = IF i <= Len(X2(sub)) THEN X2(sub)[i] ELSE kid[i - Len(X2(sub))]
        <3>1. X2(sub) \in Seq(Chars)
            BY <1>2
        <3>2. QED
            BY <3>1, ConcatProperties, Zenon
    <2>2. QED
        BY <1>2, <2>1 DEF X3
<1>4. /\ X4(sub, kid) \in Seq(Chars) /\ Len(X4(sub, kid)) = Len(sub) + Len(kid) + 28
      /\ \A i \in 1..Len(sub) + Len(kid) + 28 :
            X4(sub, kid)[i] = IF i <= 5 + Len(sub) + Len(kid) THEN X3(sub, kid)[i] ELSE TailC[i - 5 - Len(sub) - Len(kid)]
    <2>1. /\ X3(sub, kid) \o TailC \in Seq(Chars)
          /\ Len(X3(sub, kid) \o TailC) = Len(X3(sub, kid)) + Len(TailC)
          /\ \A i \in 1 .. Len(X3(sub, kid)) + Len(TailC) :
                (X3(sub, kid) \o TailC)[i] = IF i <= Len(X3(sub, kid)) THEN X3(sub, kid)[i] ELSE TailC[i - Len(X3(sub, kid))]
        <3>1. X3(sub, kid) \in Seq(Chars)
            BY <1>3
        <3>2. QED
            BY <3>1, PartsSeq, ConcatProperties, Zenon
    <2>2. QED
        BY <1>3, <2>1, Parts DEF X4
<1>5. GenerateAuthHeader(sub, kid) = X4(sub, kid)
    BY HdrSplit DEF X1, X2, X3, X4
<1>6. \A i \in 1..5 + Len(sub) + Len(kid) : X4(sub, kid)[i] = X3(sub, kid)[i]
    BY <1>4
<1>7. \A i \in 1..5 + Len(sub) : X3(sub, kid)[i] = X2(sub)[i]
    BY <1>3
<1>8. \A i \in 1..4 + Len(sub) : X2(sub)[i] = X1(sub)[i]
    BY <1>2
<1>9. \A i \in 1..4 + Len(sub) : X4(sub, kid)[i] = X1(sub)[i]
    BY <1>6, <1>7, <1>8
<1>10. X4(sub, kid)[1] = "Signature" /\ X4(sub, kid)[2] = Space
       /\ X4(sub, kid)[3] = "keyId=" /\ X4(sub, kid)[4] = Q
    <2>1. \A i \in 1..4 : X4(sub, kid)[i] = HeadA[i]
        <3>1. SUFFICES ASSUME NEW i \in 1..4 PROVE X4(sub, kid)[i] = HeadA[i]
            OBVIOUS
        <3>2. Len(sub) \in Nat
            OBVIOUS
        <3>3. i \in 1..4 + Len(sub) /\ i <= 4
            BY <3>2
        <3>4. X1(sub)[i] = HeadA[i]
            BY <1>1, <3>3
        <3>5. QED
            BY <1>9, <3>3, <3>4
    <2>2. 1 \in 1..4 /\ 2 \in 1..4 /\ 3 \in 1..4 /\ 4 \in 1..4
        OBVIOUS
    <2>3. QED
        BY <2>1, <2>2, Parts, Zenon
<1>11. \A i \in 1..Len(sub) : X4(sub, kid)[4 + i] = sub[i]
    <2>1. SUFFICES ASSUME NEW i \in 1..Len(sub) PROVE X4(sub, kid)[4 + i] = sub[i]
        OBVIOUS
    <2>2. 4 + i \in 1..4 + Len(sub) /\ ~(4 + i <= 4) /\ 4 + i - 4 = i
        OBVIOUS
    <2>3. X1(sub)[4 + i] = sub[i]
        BY <1>1, <2>2
    <2>4. QED
        BY <1>9, <2>2, <2>3
<1>12. X4(sub, kid)[Len(sub) + 5] = "|"
    BY <1>2, <1>6, <1>7
<1>13. \A i \in 1..Len(kid) : X4(sub, kid)[Len(sub) + 5 + i] = kid[i]
    BY <1>3, <1>6
<1>14. /\ X4(sub, kid)[Len(sub) + Len(kid) + 6] = "|"
       /\ X4(sub, kid)[Len(sub) + Len(kid) + 7] = "ed25519"
       /\ X4(sub, kid)[Len(sub) + Len(kid) + 8] = Q
    <2>1. Len(sub) \in Nat /\ Len(kid) \in Nat
        OBVIOUS
    <2>2. \A j \in 1..3 : /\ Len(sub) + Len(kid) + 5 + j \in 1..Len(sub) + Len(kid) + 28
                          /\ ~(Len(sub) + Len(kid) + 5 + j <= 5 + Len(sub) + Len(kid))
                          /\ Len(sub) + Len(kid) + 5 + j - 5 - Len(sub) - Len(kid) = j
        BY <2>1
    <2>3. \A j \in 1..3 : X4(sub, kid)[Len(sub) + Len(kid) + 5 + j] = TailC[j]
        BY <1>4, <2>2
    <2>4. /\ Len(sub) + Len(kid) + 6 = Len(sub) + Len(kid) + 5 + 1
          /\ Len(sub) + Len(kid) + 7 = Len(sub) + Len(kid) + 5 + 2
          /\ Len(sub) + Len(kid) + 8 = Len(sub) + Len(kid) + 5 + 3
          /\ 1 \in 1..3 /\ 2 \in 1..3 /\ 3 \in 1..3
        BY <2>1
    <2>5. QED
        BY <2>3, <2>4, Parts, Zenon
<1>15. QED
    BY <1>4, <1>5, <1>10, <1>11, <1>12, <1>13, <1>14, Zenon DEF HdrShape

\* Every id of the model is a sequence of id characters.
LEMMA IdsAreSeqs == Ids \subseteq Seq(IdChars)
<1>1. SUFFICES ASSUME NEW x \in Ids PROVE x \in Seq(IdChars)
    OBVIOUS
<1>2. PICK m \in 0..MaxIdLen : x \in [1..m -> IdChars]
    BY DEF Ids, BoundedSeq, SeqOf
<1>3. QED
    BY <1>2, MaxIdLenAssumption

\* A two-element slice.
LEMMA SubSeqTwo ==
    ASSUME NEW s, NEW m \in Int PROVE SubSeq(s, m, m + 1) = <<s[m], s[m + 1]>>
<1>1. m + 1 - m + 1 = 2 /\ 1 + m - 1 = m /\ 2 + m - 1 = m + 1
    OBVIOUS
<1>2. SubSeq(s, m, m + 1) = [i \in 1..2 |-> s[i + m - 1]]
    BY <1>1
<1>3. [i \in 1..2 |-> s[i + m - 1]] = <<s[m], s[m + 1]>>
    BY <1>1
<1>4. QED
    BY <1>2, <1>3

\* strings.Index finds keyId=" at 3 when it is there and not before.
LEMMA KeyIdAtThree ==
    ASSUME NEW s2 \in Seq(Chars), 3 \in 1..(Len(s2) - 1),
           SubSeq(s2, 3, 3 + 1) = <<"keyId=", Q>>,
           \A j \in 1..2 : SubSeq(s2, j, j + 1) # <<"keyId=", Q>>
    PROVE  Index(s2, <<"keyId=", Q>>) = 3
<1>1. <<"keyId=", Q>> \in Seq(Chars) /\ Len(<<"keyId=", Q>>) = 2
    BY PartsSeq
<1>2. /\ 3 \in 1..(Len(s2) - Len(<<"keyId=", Q>>) + 1)
      /\ SubSeq(s2, 3, 3 + Len(<<"keyId=", Q>>) - 1) = <<"keyId=", Q>>
      /\ \A j \in 1..(3 - 1) : SubSeq(s2, j, j + Len(<<"keyId=", Q>>) - 1) # <<"keyId=", Q>>
    BY <1>1
<1>3. FirstMatchAt(s2, <<"keyId=", Q>>, 3)
    BY <1>2 DEF FirstMatchAt
<1>4. QED
    BY <1>1, <1>2, <1>3, IndexAt

\* Where parseHeader finds keyId=" in a generated header.
LEMMA KeyIdStart ==
    ASSUME NEW sub \in Seq(Chars), NEW kid \in Seq(Chars)
    PROVE  Index(GenerateAuthHeader(sub, kid), <<"keyId=", Q>>) = 3
<1> DEFINE H == GenerateAuthHeader(sub, kid)
<1>0. /\ H \in Seq(Chars)
      /\ Len(H) = Len(sub) + Len(kid) + 28
      /\ H[1] = "Signature" /\ H[2] = Space /\ H[3] = "keyId=" /\ H[4] = Q
    <2>1. HdrShape(sub, kid)
        BY HdrAt
    <2>2. QED
        BY <2>1, Zenon DEF H, HdrShape
<1>1. <<"keyId=", Q>> \in Seq(Chars) /\ Len(<<"keyId=", Q>>) = 2
    BY PartsSeq
<1>2. H \in Seq(Chars) /\ Len(H) >= 28
    BY <1>0
<1>3. 3 \in 1..(Len(H) - Len(<<"keyId=", Q>>) + 1) /\ 3 + Len(<<"keyId=", Q>>) - 1 = 3 + 1
    BY <1>1, <1>2
<1>4. SubSeq(H, 3, 3 + 1) = <<"keyId=", Q>>
    <2>1. SubSeq(H, 3, 3 + 1) = <<H[3], H[3 + 1]>>
        <3>1. 3 \in Int
            OBVIOUS
        <3>2. QED
            BY <3>1, SubSeqTwo, Zenon DEF H
    <2>2. H[3] = "keyId=" /\ H[3 + 1] = Q
        BY <1>0
    <2>3. QED
        BY <2>1, <2>2
<1>5. \A j \in 1..(3 - 1) : SubSeq(H, j, j + Len(<<"keyId=", Q>>) - 1) # <<"keyId=", Q>>
    <2>1. SUFFICES ASSUME NEW j \in 1..2
                   PROVE  SubSeq(H, j, j + 1) # <<"keyId=", Q>>
        BY <1>1
    <2>2. SubSeq(H, j, j + 1) = <<H[j], H[j + 1]>>
        <3>1. j \in Int
            OBVIOUS
        <3>2. QED
            BY <3>1, SubSeqTwo, Zenon DEF H
    <2>3. H[j] # "keyId="
        <3>1. H[1] = "Signature" /\ H[2] = Space
            BY <1>0
        <3>2. j = 1 \/ j = 2
            OBVIOUS
        <3>3. QED
            BY <3>1, <3>2, Tokens, Zenon
    <2>4. QED
        BY <2>2, <2>3
<1>6. \A s2 \in Seq(Chars) :
        /\ 3 \in 1..(Len(s2) - 1)
        /\ SubSeq(s2, 3, 3 + 1) = <<"keyId=", Q>>
        /\ \A j \in 1..2 : SubSeq(s2, j, j + 1) # <<"keyId=", Q>>
        => Index(s2, <<"keyId=", Q>>) = 3
    BY KeyIdAtThree
<1>7. \A j \in 1..2 : SubSeq(H, j, j + 1) # <<"keyId=", Q>>
    BY <1>5
<1>8. 3 \in 1..(Len(H) - 1)
    BY <1>2
<1>9. QED
    BY <1>2, <1>4, <1>6, <1>7, <1>8

\* What a legal id is, position by position.
LEMMA LegalFacts ==
    ASSUME NEW x \in Seq(Chars), LegalId(x)
    PROVE  /\ Len(x) >= 1
           /\ x[1] # Space /\ x[Len(x)] # Space
           /\ \A i \in 1..Len(x) : x[i] # "|" /\ x[i] # Q
BY DEF LegalId

\* The header after keyId=".
Rest(sub, kid) == SubSeq(GenerateAuthHeader(sub, kid), 5, Len(GenerateAuthHeader(sub, kid)))

\* The rest of the header after keyId=", token by token.
LEMMA RestAt ==
    ASSUME NEW sub \in Seq(Chars), NEW kid \in Seq(Chars)
    PROVE  /\ Rest(sub, kid) \in Seq(Chars)
           /\ Len(Rest(sub, kid)) = Len(sub) + Len(kid) + 24
           /\ \A i \in 1..Len(sub) + Len(kid) + 24 :
                 Rest(sub, kid)[i] = GenerateAuthHeader(sub, kid)[i + 4]
<1>1. /\ GenerateAuthHeader(sub, kid) \in Seq(Chars)
      /\ Len(GenerateAuthHeader(sub, kid)) = Len(sub) + Len(kid) + 28
    <2>1. HdrShape(sub, kid)
        BY HdrAt
    <2>2. QED
        BY <2>1, Zenon DEF HdrShape
<1>2. 5 \in 1..Len(GenerateAuthHeader(sub, kid)) + 1
      /\ Len(GenerateAuthHeader(sub, kid)) \in 5 - 1..Len(GenerateAuthHeader(sub, kid))
    BY <1>1
<1>3. /\ Rest(sub, kid) \in Seq(Chars)
      /\ Len(Rest(sub, kid)) = Len(GenerateAuthHeader(sub, kid)) - 5 + 1
      /\ \A i \in 1..Len(GenerateAuthHeader(sub, kid)) - 5 + 1 :
            Rest(sub, kid)[i] = GenerateAuthHeader(sub, kid)[5 + i - 1]
    BY <1>1, <1>2, SubSeqIn DEF Rest
<1>4. QED
    BY <1>1, <1>3

\* The '"' that closes the keyId value of a generated header, found from
\* just after keyId=".
LEMMA QuoteEnd ==
    ASSUME NEW sub \in Seq(Chars), NEW kid \in Seq(Chars), LegalId(sub), LegalId(kid)
    PROVE  Index(Rest(sub, kid), <<Q>>) = Len(sub) + Len(kid) + 4
<1> DEFINE l1 == Len(sub)
           l2 == Len(kid)
           R  == Rest(sub, kid)
           H  == GenerateAuthHeader(sub, kid)
<1>1. /\ R \in Seq(Chars) /\ Len(R) = l1 + l2 + 24
      /\ \A i \in 1..l1 + l2 + 24 : R[i] = H[i + 4]
    BY RestAt DEF R, H, l1, l2
<1>2. /\ \A i \in 1..l1 : H[4 + i] = sub[i]
      /\ H[l1 + 5] = "|"
      /\ \A i \in 1..l2 : H[l1 + 5 + i] = kid[i]
      /\ H[l1 + l2 + 6] = "|" /\ H[l1 + l2 + 7] = "ed25519" /\ H[l1 + l2 + 8] = Q
    <2>1. /\ \A i \in 1..Len(sub) : GenerateAuthHeader(sub, kid)[4 + i] = sub[i]
          /\ GenerateAuthHeader(sub, kid)[Len(sub) + 5] = "|"
          /\ \A i \in 1..Len(kid) : GenerateAuthHeader(sub, kid)[Len(sub) + 5 + i] = kid[i]
          /\ GenerateAuthHeader(sub, kid)[Len(sub) + Len(kid) + 6] = "|"
          /\ GenerateAuthHeader(sub, kid)[Len(sub) + Len(kid) + 7] = "ed25519"
          /\ GenerateAuthHeader(sub, kid)[Len(sub) + Len(kid) + 8] = Q
        <3>1. HdrShape(sub, kid)
            BY HdrAt
        <3>2. QED
            BY <3>1, Zenon DEF HdrShape
    <2>2. QED
        BY <2>1, Zenon DEF H, l1, l2
<1>3. /\ \A i \in 1..l1 : sub[i] # Q
      /\ \A i \in 1..l2 : kid[i] # Q
    BY LegalFacts DEF l1, l2
<1>4. l1 \in Nat /\ l2 \in Nat
    BY DEF l1, l2
<1>5. R[l1 + l2 + 4] = Q
    BY <1>1, <1>2, <1>4
<1>6. NoneBefore(R, Q, l1 + l2 + 4)
    <2>1. SUFFICES ASSUME NEW j \in 1..(l1 + l2 + 4 - 1) PROVE R[j] # Q
        BY DEF NoneBefore
    <2>2. R[j] = H[j + 4]
        BY <1>1, <1>4
    <2>3. CASE j <= l1
        BY <1>2, <1>3, <2>2, <2>3
    <2>4. CASE j = l1 + 1
        BY <1>2, <2>2, <2>4, Tokens
    <2>5. CASE l1 + 1 < j /\ j <= l1 + 1 + l2
        <3>1. j - l1 - 1 \in 1..l2 /\ j + 4 = l1 + 5 + (j - l1 - 1)
            BY <2>5, <1>4
        <3>2. H[j + 4] = kid[j - l1 - 1]
            BY <1>2, <3>1
        <3>3. kid[j - l1 - 1] # Q
            BY <1>3, <3>1
        <3>4. QED
            BY <2>2, <3>2, <3>3
    <2>6. CASE j = l1 + l2 + 2
        BY <1>2, <2>2, <2>6, Tokens
    <2>7. CASE j = l1 + l2 + 3
        BY <1>2, <2>2, <2>7, Tokens
    <2>8. QED
        BY <2>3, <2>4, <2>5, <2>6, <2>7, <1>4
<1>7. Q \in Chars /\ l1 + l2 + 4 \in 1..Len(R)
    BY <1>1, <1>4, PartsSeq
<1>8. QED
    BY <1>1, <1>5, <1>6, <1>7, IndexOfChar DEF R, l1, l2

\* The keyId value of a generated header, up to its closing '"'.
Part(sub, kid) == SubSeq(Rest(sub, kid), 1, Len(sub) + Len(kid) + 3)

\* Where the ids and the separators sit in the keyId value.
PartShape(sub, kid) ==
    LET P == Part(sub, kid)
    IN  /\ P \in Seq(Chars)
        /\ Len(P) = Len(sub) + Len(kid) + 3
        /\ \A i \in 1..Len(sub) : P[i] = sub[i]
        /\ P[Len(sub) + 1] = "|"
        /\ \A i \in 1..Len(kid) : P[Len(sub) + 1 + i] = kid[i]
        /\ P[Len(sub) + Len(kid) + 2] = "|"
        /\ P[Len(sub) + Len(kid) + 3] = "ed25519"

\* The keyId value, token by token.
LEMMA PartAt ==
    ASSUME NEW sub \in Seq(Chars), NEW kid \in Seq(Chars)
    PROVE  PartShape(sub, kid)
<1> DEFINE l1 == Len(sub)
           l2 == Len(kid)
           R  == Rest(sub, kid)
           H  == GenerateAuthHeader(sub, kid)
           P  == Part(sub, kid)
<1>1. /\ R \in Seq(Chars) /\ Len(R) = l1 + l2 + 24
      /\ \A i \in 1..l1 + l2 + 24 : R[i] = H[i + 4]
    BY RestAt DEF R, H, l1, l2
<1>2. HdrShape(sub, kid)
    BY HdrAt
<1>3. /\ \A i \in 1..l1 : H[4 + i] = sub[i]
      /\ H[l1 + 5] = "|"
      /\ \A i \in 1..l2 : H[l1 + 5 + i] = kid[i]
      /\ H[l1 + l2 + 6] = "|" /\ H[l1 + l2 + 7] = "ed25519"
    BY <1>2, Zenon DEF HdrShape, H, l1, l2
<1>4. l1 \in Nat /\ l2 \in Nat
    BY DEF l1, l2
<1>5. 1 \in 1..Len(R) + 1 /\ l1 + l2 + 3 \in 1 - 1..Len(R)
    BY <1>1, <1>4
<1>6. /\ P \in Seq(Chars)
      /\ Len(P) = l1 + l2 + 3
      /\ \A i \in 1..l1 + l2 + 3 : P[i] = R[i]
    <2>1. /\ SubSeq(R, 1, l1 + l2 + 3) \in Seq(Chars)
          /\ Len(SubSeq(R, 1, l1 + l2 + 3)) = l1 + l2 + 3 - 1 + 1
          /\ \A i \in 1..l1 + l2 + 3 - 1 + 1 : SubSeq(R, 1, l1 + l2 + 3)[i] = R[1 + i - 1]
        BY <1>1, <1>5, SubSeqIn
    <2>2. QED
        BY <2>1, <1>4 DEF P, Part, R, l1, l2
<1>7. \A i \in 1..l1 + l2 + 3 : P[i] = H[i + 4]
    <2>1. SUFFICES ASSUME NEW i \in 1..l1 + l2 + 3 PROVE P[i] = H[i + 4]
        OBVIOUS
    <2>2. i \in 1..l1 + l2 + 24
        BY <1>4
    <2>3. P[i] = R[i]
        BY <1>6
    <2>4. QED
        BY <1>1, <2>2, <2>3
<1>8. \A i \in 1..l1 : P[i] = sub[i]
    BY <1>3, <1>4, <1>7
<1>9. \A i \in 1..l2 : P[l1 + 1 + i] = kid[i]
    <2>1. SUFFICES ASSUME NEW i \in 1..l2 PROVE P[l1 + 1 + i] = kid[i]
        OBVIOUS
    <2>2. l1 + 1 + i \in 1..l1 + l2 + 3 /\ l1 + 1 + i + 4 = l1 + 5 + i
        BY <1>4
    <2>3. QED
        BY <1>3, <1>7, <2>2
<1>10. P[l1 + 1] = "|" /\ P[l1 + l2 + 2] = "|" /\ P[l1 + l2 + 3] = "ed25519"
    <2>1. /\ l1 + 1 \in 1..l1 + l2 + 3 /\ l1 + 1 + 4 = l1 + 5
          /\ l1 + l2 + 2 \in 1..l1 + l2 + 3 /\ l1 + l2 + 2 + 4 = l1 + l2 + 6
          /\ l1 + l2 + 3 \in 1..l1 + l2 + 3 /\ l1 + l2 + 3 + 4 = l1 + l2 + 7
        BY <1>4
    <2>2. P[l1 + 1] = H[l1 + 5] /\ P[l1 + l2 + 2] = H[l1 + l2 + 6] /\ P[l1 + l2 + 3] = H[l1 + l2 + 7]
        BY <1>7, <2>1
    <2>3. QED
        BY <1>3, <2>2
<1>11. QED
    BY <1>6, <1>8, <1>9, <1>10, Zenon DEF PartShape, P, l1, l2

\* parseHeader's keyId value of a generated header: the ids and ed25519.
LEMMA KeyIdValue ==
    ASSUME NEW sub \in Seq(Chars), NEW kid \in Seq(Chars), LegalId(sub), LegalId(kid)
    PROVE  KeyIDPart(GenerateAuthHeader(sub, kid)) = Part(sub, kid)
<1> DEFINE H == GenerateAuthHeader(sub, kid)
           P == Part(sub, kid)
<1>1. Index(H, <<"keyId=", Q>>) = 3
    BY KeyIdStart DEF H
<1>2. SubSeq(H, 3 + 2, Len(H)) = Rest(sub, kid)
    BY DEF Rest, H
<1>3. Index(Rest(sub, kid), <<Q>>) = Len(sub) + Len(kid) + 4
    BY QuoteEnd
<1>4. SubSeq(Rest(sub, kid), 1, Len(sub) + Len(kid) + 4 - 1) = P
    BY DEF Part, P
<1>5. TrimSpace(P) = P
    <2>1. PartShape(sub, kid)
        BY PartAt
    <2>2. /\ P \in Seq(Chars) /\ Len(P) = Len(sub) + Len(kid) + 3
          /\ P[1] = sub[1] /\ P[Len(P)] = "ed25519"
        <3>1. Len(sub) >= 1 /\ Len(kid) \in Nat
            BY LegalFacts
        <3>2. QED
            BY <2>1, <3>1 DEF PartShape, P
    <2>3. sub[1] # Space /\ "ed25519" # Space
        BY LegalFacts, Tokens
    <2>4. Len(P) >= 1
        BY <2>2
    <2>5. QED
        BY <2>2, <2>3, <2>4, TrimSpaceNoEdges
<1>6. 3 # 0 /\ Len(sub) + Len(kid) + 4 # 0
    BY LegalFacts
<1>7. QED
    <2>1. Index(SubSeq(H, 3 + 2, Len(H)), <<Q>>) = Len(sub) + Len(kid) + 4
        BY <1>2, <1>3
    <2>2. TrimSpace(SubSeq(SubSeq(H, 3 + 2, Len(H)), 1, Len(sub) + Len(kid) + 4 - 1)) = P
        BY <1>2, <1>4, <1>5
    <2>3. QED
        BY <1>1, <1>6, <2>1, <2>2 DEF KeyIDPart, H, P

\* The three components of the keyId value are the ids and ed25519.
LEMMA PartPieces ==
    ASSUME NEW sub \in Seq(Chars), NEW kid \in Seq(Chars)
    PROVE  /\ SubSeq(Part(sub, kid), 1, Len(sub)) = sub
           /\ SubSeq(Part(sub, kid), Len(sub) + 2, Len(sub) + Len(kid) + 1) = kid
           /\ SubSeq(Part(sub, kid), Len(sub) + Len(kid) + 3, Len(sub) + Len(kid) + 3)
                = <<"ed25519">>
<1> DEFINE l1 == Len(sub)
           l2 == Len(kid)
           P  == Part(sub, kid)
<1>1. /\ P \in Seq(Chars)
      /\ Len(P) = l1 + l2 + 3
      /\ \A i \in 1..l1 : P[i] = sub[i]
      /\ \A i \in 1..l2 : P[l1 + 1 + i] = kid[i]
      /\ P[l1 + l2 + 3] = "ed25519"
    <2>1. PartShape(sub, kid)
        BY PartAt
    <2>2. QED
        BY <2>1, Zenon DEF PartShape, P, l1, l2
<1>2. l1 \in Nat /\ l2 \in Nat
    BY DEF l1, l2
<1>3. SubSeq(P, 1, l1) = sub
    <2>1. 1 \in 1..Len(P) + 1 /\ l1 \in 1 - 1..Len(P)
        BY <1>1, <1>2
    <2>2. /\ SubSeq(P, 1, l1) \in Seq(Chars)
          /\ Len(SubSeq(P, 1, l1)) = l1 - 1 + 1
          /\ \A i \in 1..l1 - 1 + 1 : SubSeq(P, 1, l1)[i] = P[1 + i - 1]
        BY <1>1, <2>1, SubSeqIn
    <2>3. Len(SubSeq(P, 1, l1)) = Len(sub)
        BY <2>2 DEF l1
    <2>4. \A i \in 1..Len(SubSeq(P, 1, l1)) : SubSeq(P, 1, l1)[i] = sub[i]
        BY <1>1, <2>2, <2>3 DEF l1
    <2>5. QED
        BY <2>2, <2>3, <2>4, SeqEqual
<1>4. SubSeq(P, l1 + 2, l1 + l2 + 1) = kid
    <2>1. l1 + 2 \in 1..Len(P) + 1 /\ l1 + l2 + 1 \in l1 + 2 - 1..Len(P)
        BY <1>1, <1>2
    <2>2. /\ SubSeq(P, l1 + 2, l1 + l2 + 1) \in Seq(Chars)
          /\ Len(SubSeq(P, l1 + 2, l1 + l2 + 1)) = l1 + l2 + 1 - (l1 + 2) + 1
          /\ \A i \in 1..l1 + l2 + 1 - (l1 + 2) + 1 :
                SubSeq(P, l1 + 2, l1 + l2 + 1)[i] = P[l1 + 2 + i - 1]
        BY <1>1, <2>1, SubSeqIn
    <2>3. Len(SubSeq(P, l1 + 2, l1 + l2 + 1)) = Len(kid)
        BY <2>2, <1>2 DEF l2
    <2>4. \A i \in 1..Len(SubSeq(P, l1 + 2, l1 + l2 + 1)) :
            SubSeq(P, l1 + 2, l1 + l2 + 1)[i] = kid[i]
        <3>1. SUFFICES ASSUME NEW i \in 1..Len(kid)
                       PROVE  SubSeq(P, l1 + 2, l1 + l2 + 1)[i] = kid[i]
            BY <2>3
        <3>2. i \in 1..l1 + l2 + 1 - (l1 + 2) + 1 /\ l1 + 2 + i - 1 = l1 + 1 + i
            BY <1>2 DEF l2
        <3>3. QED
            BY <1>1, <2>2, <3>2 DEF l2
    <2>5. QED
        BY <2>2, <2>3, <2>4, SeqEqual
<1>5. SubSeq(P, l1 + l2 + 3, l1 + l2 + 3) = <<"ed25519">>
    <2>1. SubSeq(P, l1 + l2 + 3, l1 + l2 + 3) = <<P[l1 + l2 + 3]>>
        <3>1. l1 + l2 + 3 \in Int
            BY <1>2
        <3>2. QED
            BY <3>1, SubSeqOne, Zenon DEF P
    <2>2. QED
        BY <1>1, <2>1
<1>6. QED
    BY <1>3, <1>4, <1>5 DEF P, l1, l2

\* The keyId value of a header of legal ids has '|' exactly at the two
\* separators.
LEMMA PartSeps ==
    ASSUME NEW sub \in Seq(Chars), NEW kid \in Seq(Chars), LegalId(sub), LegalId(kid)
    PROVE  SepsAt(Part(sub, kid), "|", Len(sub) + 1, Len(sub) + Len(kid) + 2)
<1> DEFINE l1 == Len(sub)
           l2 == Len(kid)
           P  == Part(sub, kid)
<1>1. /\ P \in Seq(Chars)
      /\ Len(P) = l1 + l2 + 3
      /\ \A i \in 1..l1 : P[i] = sub[i]
      /\ P[l1 + 1] = "|"
      /\ \A i \in 1..l2 : P[l1 + 1 + i] = kid[i]
      /\ P[l1 + l2 + 2] = "|"
      /\ P[l1 + l2 + 3] = "ed25519"
    <2>1. PartShape(sub, kid)
        BY PartAt
    <2>2. QED
        BY <2>1, Zenon DEF PartShape, P, l1, l2
<1>2. \A i \in 1..l1 : sub[i] # "|"
    BY LegalFacts DEF l1
<1>3. \A i \in 1..l2 : kid[i] # "|"
    BY LegalFacts DEF l2
<1>4. l1 \in Nat /\ l2 \in Nat
    BY DEF l1, l2
<1>5. "ed25519" # "|"
    OBVIOUS
<1>6. ASSUME NEW i \in 1..Len(P)
      PROVE  P[i] = "|" <=> i \in {l1 + 1, l1 + l2 + 2}
    <2>1. CASE i \in 1..l1
        BY <2>1, <1>1, <1>2, <1>4
    <2>2. CASE i = l1 + 1
        BY <2>2, <1>1, <1>4
    <2>3. CASE i \in l1 + 2..l1 + l2 + 1
        <3>1. i - (l1 + 1) \in 1..l2 /\ l1 + 1 + (i - (l1 + 1)) = i
            BY <2>3, <1>4
        <3>2. P[i] = kid[i - (l1 + 1)]
            BY <3>1, <1>1
        <3>3. kid[i - (l1 + 1)] # "|"
            BY <3>1, <1>3
        <3>4. i \notin {l1 + 1, l1 + l2 + 2}
            BY <2>3, <1>4
        <3>5. QED
            BY <3>2, <3>3, <3>4
    <2>4. CASE i = l1 + l2 + 2
        BY <2>4, <1>1, <1>4
    <2>5. CASE i = l1 + l2 + 3
        BY <2>5, <1>1, <1>4, <1>5
    <2>6. \/ i \in 1..l1 \/ i = l1 + 1 \/ i \in l1 + 2..l1 + l2 + 1
          \/ i = l1 + l2 + 2 \/ i = l1 + l2 + 3
        <3>1. Len(P) = l1 + l2 + 3
            BY <1>1
        <3>2. QED
            BY <3>1, <1>4
    <2>7. QED
        BY <2>1, <2>2, <2>3, <2>4, <2>5, <2>6
<1>7. {l1 + 1, l1 + l2 + 2} \subseteq 1..Len(P)
    BY <1>1, <1>4
<1>8. {i \in 1..Len(P) : P[i] = "|"} = {l1 + 1, l1 + l2 + 2}
    BY <1>6, <1>7
<1>9. QED
    BY <1>8 DEF SepsAt, P, l1, l2

\* Split of that keyId value on '|' gives back the ids and the algorithm.
LEMMA PartSplit ==
    ASSUME NEW sub \in Seq(Chars), NEW kid \in Seq(Chars), LegalId(sub), LegalId(kid)
    PROVE  Split(Part(sub, kid), "|") = <<sub, kid, <<"ed25519">>>>
<1> DEFINE l1 == Len(sub)
           l2 == Len(kid)
           P  == Part(sub, kid)
<1>1. P \in Seq(Chars) /\ Len(P) = l1 + l2 + 3
    <2>1. PartShape(sub, kid)
        BY PartAt
    <2>2. QED
        BY <2>1, Zenon DEF PartShape, P, l1, l2
<1>2. l1 \in Nat /\ l2 \in Nat /\ l1 >= 1
    BY LegalFacts DEF l1, l2
<1>3. SepsAt(P, "|", l1 + 1, l1 + l2 + 2)
    BY PartSeps DEF P, l1, l2
<1>4. /\ l1 + 1 \in 1..Len(P) /\ l1 + l2 + 2 \in 1..Len(P) /\ l1 + 1 < l1 + l2 + 2
      /\ l1 + 1 - 1 = l1 /\ l1 + 1 + 1 = l1 + 2 /\ l1 + l2 + 2 - 1 = l1 + l2 + 1
      /\ l1 + l2 + 2 + 1 = l1 + l2 + 3 /\ Len(P) = l1 + l2 + 3
    BY <1>1, <1>2
<1>5. Split(P, "|") = <<SubSeq(P, 1, l1 + 1 - 1), SubSeq(P, l1 + 1 + 1, l1 + l2 + 2 - 1),
                        SubSeq(P, l1 + l2 + 2 + 1, Len(P))>>
    <2>1. \A s \in Seq(Chars) : \A a, b \in 1..Len(s) :
            a < b /\ SepsAt(s, "|", a, b) =>
              Split(s, "|") = <<SubSeq(s, 1, a - 1), SubSeq(s, a + 1, b - 1),
                                SubSeq(s, b + 1, Len(s))>>
        BY SplitTwoSeps
    <2>2. \A a, b \in 1..Len(P) :
            a < b /\ SepsAt(P, "|", a, b) =>
              Split(P, "|") = <<SubSeq(P, 1, a - 1), SubSeq(P, a + 1, b - 1),
                                SubSeq(P, b + 1, Len(P))>>
        BY <1>1, <2>1
    <2>3. l1 + 1 < l1 + l2 + 2 /\ SepsAt(P, "|", l1 + 1, l1 + l2 + 2)
        BY <1>3, <1>4
    <2>4. l1 + 1 \in 1..Len(P) /\ l1 + l2 + 2 \in 1..Len(P)
        BY <1>4
    <2>5. QED
        BY <2>2, <2>3, <2>4
<1>6. Split(P, "|") = <<SubSeq(P, 1, l1), SubSeq(P, l1 + 2, l1 + l2 + 1),
                        SubSeq(P, l1 + l2 + 3, l1 + l2 + 3)>>
    <2>1. /\ SubSeq(P, 1, l1 + 1 - 1) = SubSeq(P, 1, l1)
          /\ SubSeq(P, l1 + 1 + 1, l1 + l2 + 2 - 1) = SubSeq(P, l1 + 2, l1 + l2 + 1)
          /\ SubSeq(P, l1 + l2 + 2 + 1, Len(P)) = SubSeq(P, l1 + l2 + 3, l1 + l2 + 3)
        BY <1>4
    <2>2. QED
        BY <1>5, <2>1, Zenon
<1>7. QED
    BY <1>6, PartPieces, Zenon DEF P, l1, l2

\* A lone "ed25519" survives TrimSpace.
LEMMA TrimAlg == TrimSpace(<<"ed25519">>) = <<"ed25519">>
<1>1. <<"ed25519">> \in Seq(Chars)
    BY PartsSeq
<1>2. Len(<<"ed25519">>) >= 1 /\ <<"ed25519">>[1] = "ed25519"
      /\ <<"ed25519">>[Len(<<"ed25519">>)] = "ed25519"
    OBVIOUS
<1>3. "ed25519" # Space
    BY Tokens
<1>4. QED
    BY <1>1, <1>2, <1>3, TrimSpaceNoEdges

\* parseHeader recovers the ids from the header generateAuthHeader built.
LEMMA RoundTrip ==
    ASSUME NEW sub \in Seq(Chars), NEW kid \in Seq(Chars), LegalId(sub), LegalId(kid)
    PROVE  ParseHeader(GenerateAuthHeader(sub, kid))
             = [status |-> "ok", sub |-> sub, kid |-> kid, alg |-> <<"ed25519">>]
<1>1. KeyIDPart(GenerateAuthHeader(sub, kid)) = Part(sub, kid)
    BY KeyIdValue
<1>2. Part(sub, kid) # <<>>
    <2>1. PartShape(sub, kid)
        BY PartAt
    <2>2. Len(Part(sub, kid)) = Len(sub) + Len(kid) + 3
        BY <2>1, Zenon DEF PartShape
    <2>3. QED
        BY <2>2
<1>3. Split(Part(sub, kid), "|") = <<sub, kid, <<"ed25519">>>>
    BY PartSplit
<1>4. TrimSpace(sub) = sub /\ TrimSpace(kid) = kid
    <2>1. Len(sub) >= 1 /\ sub[1] # Space /\ sub[Len(sub)] # Space
        BY LegalFacts
    <2>2. Len(kid) >= 1 /\ kid[1] # Space /\ kid[Len(kid)] # Space
        BY LegalFacts
    <2>3. QED
        BY <2>1, <2>2, TrimSpaceNoEdges
<1>5. Len(<<sub, kid, <<"ed25519">>>>) = 3
    OBVIOUS
<1>6. QED
    BY <1>1, <1>2, <1>3, <1>4, <1>5, TrimAlg DEF ParseHeader

\* The empty id is an id.
LEMMA EmptyId == <<>> \in Ids
<1>1. <<>> \in [1..0 -> IdChars] /\ 0 \in 0..MaxIdLen
    BY MaxIdLenAssumption
<1>2. QED
    BY <1>1 DEF Ids, BoundedSeq, SeqOf

\* Every id is a sequence of the header's tokens.
LEMMA IdsInChars == Ids \subseteq Seq(Chars)
<1>1. IdChars \subseteq Chars
    BY DEF Chars
<1>2. QED
    BY <1>1, IdsAreSeqs, SeqMonotonic

\* The inductive invariant: a signer is recorded exactly when the sender
\* built the header, that header is the one on the wire, and a checked
\* exchange holds parseHeader's answer for it.
IInv ==
    /\ phase \in {"idle", "sent", "checked"}
    /\ signer \in [sub : Ids, kid : Ids]
    /\ phase = "idle" => signer = NoSigner
    /\ signer # NoSigner => header = GenerateAuthHeader(signer.sub, signer.kid)
    /\ phase = "checked" => parsed = ParseHeader(header)

\* The initial state satisfies the inductive invariant.
LEMMA InitIInv == Init => IInv
<1>1. NoSigner \in [sub : Ids, kid : Ids]
    BY EmptyId DEF NoSigner
<1>2. QED
    BY <1>1 DEF Init, IInv


\* Every step (sign, receive a foreign header, validate) preserves it.
LEMMA NextIInv == IInv /\ [Next]_vars => IInv'
<1> SUFFICES ASSUME IInv, [Next]_vars PROVE IInv'
    OBVIOUS
<1>1. CASE Sign
    <2>1. PICK sub \in Ids \ {<<>>}, kid \in Ids :
            /\ signer' = [sub |-> sub, kid |-> kid]
            /\ header' = GenerateAuthHeader(sub, kid)
        BY <1>1 DEF Sign
    <2>2. signer' \in [sub : Ids, kid : Ids]
        BY <2>1
    <2>3. signer' # NoSigner
        BY <2>1 DEF NoSigner
    <2>4. header' = GenerateAuthHeader(signer'.sub, signer'.kid)
        BY <2>1
    <2>5. phase' = "sent"
        BY <1>1 DEF Sign
    <2>6. QED
        BY <2>2, <2>3, <2>4, <2>5 DEF IInv
<1>2. CASE ReceiveForeign
    <2>1. phase = "idle" /\ phase' = "sent" /\ signer' = signer
        BY <1>2 DEF ReceiveForeign
    <2>2. QED
        BY <2>1 DEF IInv
<1>3. CASE Validate
    <2>1. phase' = "checked" /\ parsed' = ParseHeader(header)
          /\ header' = header /\ signer' = signer /\ phase # "idle"
        BY <1>3 DEF Validate
    <2>2. QED
        BY <2>1 DEF IInv
<1>4. CASE UNCHANGED vars
    BY <1>4 DEF vars, IInv
<1>5. QED
    BY <1>1, <1>2, <1>3, <1>4 DEF Next


\* The inductive invariant implies the round trip.
LEMMA IInvRoundTrip == IInv => KeyIdRoundTrip
<1> SUFFICES ASSUME IInv, phase = "checked", signer # NoSigner,
                    LegalId(signer.sub), LegalId(signer.kid)
             PROVE  parsed = [status |-> "ok", sub |-> signer.sub, kid |-> signer.kid,
                              alg |-> <<"ed25519">>]
    BY DEF KeyIdRoundTrip
<1>1. signer.sub \in Seq(Chars) /\ signer.kid \in Seq(Chars)
    BY IdsInChars DEF IInv
<1>2. parsed = ParseHeader(GenerateAuthHeader(signer.sub, signer.kid))
    BY DEF IInv
<1>3. QED
    BY <1>1, <1>2, RoundTrip

\* The receiver always looks up the key the sender signed with: whenever a
\* header generateAuthHeader built from legal ids has been through
\* parseHeader, the result carries exactly those ids and ed25519.
THEOREM KeyIdRoundTripHolds == Spec => []KeyIdRoundTrip
<1>1. Init => IInv
    BY InitIInv
<1>2. IInv /\ [Next]_vars => IInv'
    BY NextIInv
<1>3. IInv => KeyIdRoundTrip
    BY IInvRoundTrip
<1>4. QED
    BY <1>1, <1>2, <1>3, PTL DEF Spec
=============================================================================
