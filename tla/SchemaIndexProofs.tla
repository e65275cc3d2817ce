------------------------- MODULE SchemaIndexProofs -------------------------
(***************************************************************************)
(* Proofs about SchemaIndex, for every schema directory and every set of  *)
(* requests: every state is well typed, and Validate never answers        *)
(* "schema not found" for a request whose schema file sits where the      *)
(* documented layout puts it.  The second rests on two things: an         *)
(* inductive invariant about the walk (every good file passed has its key *)
(* in schemaFiles), and SchemaKey, which shows component by component     *)
(* that initialise's key for such a file is the key Validate builds:      *)
(* ToLower and ReplaceAll give the layout's domain, path.Base its         *)
(* endpoint, and TrimSuffix undoes the ".json".                           *)
(***************************************************************************)
EXTENDS SchemaIndex, GoStringsProofs, TLAPS

\* Validate's domain (strings.ToLower, then ReplaceAll ":" -> "_") is the
\* domain directory name of the documented layout.
LEMMA DomainIsLayout ==
    ASSUME NEW d \in Seq(Chars)
    PROVE  SchemaDomain(d) = LayoutDomain(d)
<1> DEFINE T == ToLower(d)
<1>1. T = [i \in 1..Len(d) |-> IF d[i] \in DOMAIN UpperToLower
                                  THEN UpperToLower[d[i]] ELSE d[i]]
    BY DEF T, ToLower
<1>2. Len(T) = Len(d)
    <2>1. DOMAIN T = 1..Len(d)
        BY <1>1
    <2>2. T \in Seq(UNION {Chars, {UpperToLower[c] : c \in DOMAIN UpperToLower}})
        BY <1>1
    <2>3. QED
        BY <2>1, <2>2
<1>3. SchemaDomain(d) = [i \in 1..Len(d) |-> IF T[i] = ":" THEN "_" ELSE T[i]]
    BY <1>2 DEF SchemaDomain, ReplaceAll, T
<1>4. LayoutDomain(d) = [i \in 1..Len(d) |->
                           CASE d[i] = ":" -> "_"
                             [] d[i] \in DOMAIN UpperToLower -> UpperToLower[d[i]]
                             [] OTHER -> d[i]]
    BY DEF LayoutDomain
<1>5. ASSUME NEW i \in 1..Len(d)
      PROVE  (IF T[i] = ":" THEN "_" ELSE T[i])
               = CASE d[i] = ":" -> "_"
                    [] d[i] \in DOMAIN UpperToLower -> UpperToLower[d[i]]
                    [] OTHER -> d[i]
    <2>1. CASE d[i] = ":"
        BY <2>1, <1>1, UpperToLowerAssumption
    <2>2. CASE d[i] # ":" /\ d[i] \in DOMAIN UpperToLower
        BY <2>2, <1>1, UpperToLowerAssumption
    <2>3. CASE d[i] # ":" /\ d[i] \notin DOMAIN UpperToLower
        BY <2>3, <1>1
    <2>4. QED
        BY <2>1, <2>2, <2>3
<1>6. QED
    BY <1>3, <1>4, <1>5

\* An endpoint of u: the slice after position i up to position j, with i
\* zero or a slash, no slash in between and only slashes after j.
EndpointAt(u, i, j) ==
    /\ i \in 0..Len(u) /\ j \in 0..Len(u) /\ i < j
    /\ i = 0 \/ u[i] = "/"
    /\ \A k \in i + 1..j : u[k] # "/"
    /\ \A k \in j + 1..Len(u) : u[k] = "/"

\* Every member of Endpoint(u) is given by such a pair of positions.
LEMMA EndpointPick ==
    ASSUME NEW u \in Seq(Chars), NEW e \in Endpoint(u)
    PROVE  \E i, j \in 0..Len(u) : EndpointAt(u, i, j) /\ e = SubSeq(u, i + 1, j)
BY DEF Endpoint, EndpointAt

\* path.Base returns the endpoint of the documented layout: the last run
\* of non-slashes, whatever slashes follow it.
LEMMA PathBaseIsEndpoint ==
    ASSUME NEW u \in Seq(Chars), NEW i \in 0..Len(u), NEW j \in 0..Len(u),
           EndpointAt(u, i, j)
    PROVE  PathBase(u) = SubSeq(u, i + 1, j)
<1>1. /\ i < j /\ (i = 0 \/ u[i] = "/")
      /\ \A k \in i + 1..j : u[k] # "/"
      /\ \A k \in j + 1..Len(u) : u[k] = "/"
    BY DEF EndpointAt
<1> DEFINE N  == {k \in 1..Len(u) : u[k] # "/"}
           s  == SubSeq(u, 1, j)
           Sl == {k \in 1..Len(s) : s[k] = "/"}
<1>2. SelectLastInSeq(u, LAMBDA c : c # "/") = j
    <2>1. N \in SUBSET Int /\ j \in N /\ \A y \in N : j >= y
        BY <1>1 DEF N
    <2>2. Max(N) = j
        BY <2>1, MaxIs
    <2>3. N # {}
        BY <2>1
    <2>4. QED
        BY <2>2, <2>3 DEF SelectLastInSeq, N
<1>3. Len(s) = j /\ \A k \in 1..j : s[k] = u[k]
    <2>1. 1 \in 1..Len(u) + 1 /\ j \in 1 - 1..Len(u)
        OBVIOUS
    <2>2. QED
        BY <2>1, SubSeqIn DEF s
<1>4. SelectLastInSeq(s, LAMBDA c : c = "/") = i
    <2>1. CASE i = 0
        <3>1. Sl = {}
            BY <1>1, <1>3, <2>1 DEF Sl
        <3>2. QED
            BY <3>1, <2>1 DEF SelectLastInSeq, Sl
    <2>2. CASE i # 0
        <3>1. Sl \in SUBSET Int /\ i \in Sl /\ \A y \in Sl : i >= y
            BY <1>1, <1>3, <2>2 DEF Sl
        <3>2. Max(Sl) = i
            BY <3>1, MaxIs
        <3>3. QED
            BY <3>1, <3>2 DEF SelectLastInSeq, Sl
    <2>3. QED
        BY <2>1, <2>2
<1>5. SubSeq(s, i + 1, j) = SubSeq(u, i + 1, j)
    BY <1>1, <1>3 DEF s
<1>6. u # <<>> /\ j # 0
    BY <1>1
<1>7. QED
    BY <1>2, <1>4, <1>5, <1>6 DEF PathBase, s

\* strings.TrimSuffix takes off the one token it was appended with.
LEMMA TrimSuffixAppended ==
    ASSUME NEW S, NEW e \in Seq(S), NEW x \in S
    PROVE  TrimSuffix(e \o <<x>>, <<x>>) = e
<1> DEFINE t == e \o <<x>>
           L == Len(e)
<1>1. t \in Seq(S) /\ Len(t) = L + 1 /\ t[L + 1] = x /\ \A k \in 1..L : t[k] = e[k]
    BY DEF t, L
<1>2. L \in Nat
    BY DEF L
<1>3. Reverse(<<x>>) = <<x>>
    BY DEF Reverse
<1>4. Reverse(t)[1] = x /\ Len(Reverse(t)) = L + 1
    BY <1>1, <1>2 DEF Reverse
<1>5. SubSeq(Reverse(t), 1, 1) = <<x>>
    <2>1. SubSeq(Reverse(t), 1, 1) = <<Reverse(t)[1]>>
        BY SubSeqOne
    <2>2. QED
        BY <2>1, <1>4
<1>6. IsSuffix(<<x>>, t)
    <2>1. SubSeq(<<x>>, 1, 1) = <<x>>
        BY SubSeqOne
    <2>2. Len(<<x>>) = 1 /\ 1 <= Len(Reverse(t))
        BY <1>2, <1>4
    <2>3. IsPrefix(<<x>>, Reverse(t))
        BY <1>5, <2>1, <2>2, Zenon DEF IsPrefix
    <2>4. QED
        BY <1>3, <2>3, Zenon DEF IsSuffix
<1>7. SubSeq(t, 1, L) = e
    <2>1. 1 \in 1..Len(t) + 1 /\ L \in 1 - 1..Len(t)
        BY <1>1, <1>2
    <2>2. SubSeq(t, 1, L) \in Seq(S) /\ Len(SubSeq(t, 1, L)) = L
          /\ \A k \in 1..L : SubSeq(t, 1, L)[k] = t[k]
        BY <1>1, <2>1, SubSeqIn
    <2>3. QED
        BY <1>1, <2>2, SeqEqual DEF L
<1>8. QED
    BY <1>1, <1>6, <1>7 DEF TrimSuffix, t, L

\* A file initialise files in schemaFiles: a .json file with at least three
\* components, none of which trims to nothing.
Good(f) ==
    /\ Ext(Last(f)) = Json
    /\ Len(f) >= 3
    /\ <<>> \notin {IndexParts(f)[1], IndexParts(f)[2], IndexParts(f)[3]}

\* The file the layout names for a request (with a domain) is one
\* initialise indexes, and under exactly the key Validate builds.
LEMMA SchemaKey ==
    ASSUME NEW r \in Requests, NEW f \in Seq(Seq(Chars)), SchemaFor(f, r), r.domain # <<>>
    PROVE  Good(f) /\ IndexKey(f) = RequestKey(r)
<1>1. /\ r.domain \in Seq(Chars) /\ r.url \in Seq(Chars)
      /\ ContextVersion(r) \in Seq(Chars)
    BY RequestsAssumption DEF ContextVersion
<1>2. /\ Len(f) = 3 /\ f[3] # <<>> /\ Last(f[3]) = Json
      /\ TrimSpace(f[1]) = LayoutDomain(r.domain)
      /\ TrimSpace(f[2]) = Str("v") \o ContextVersion(r)
      /\ \E e \in Endpoint(r.url) : TrimSpace(f[3]) = e \o Str(Json)
    BY DEF SchemaFor
<1>3. PICK e \in Endpoint(r.url) : TrimSpace(f[3]) = e \o <<Json>>
    BY <1>2 DEF Str
<1>4. PICK i, j \in 0..Len(r.url) : EndpointAt(r.url, i, j) /\ e = SubSeq(r.url, i + 1, j)
    BY <1>1, EndpointPick
<1>5. PathBase(r.url) = e
    BY <1>1, <1>4, PathBaseIsEndpoint
<1>6. e \in Seq(Chars) /\ Len(e) >= 1
    <2>1. i < j
        BY <1>4 DEF EndpointAt
    <2>2. i + 1 \in 1..Len(r.url) + 1 /\ j \in i + 1 - 1..Len(r.url)
        BY <1>1, <2>1
    <2>3. SubSeq(r.url, i + 1, j) \in Seq(Chars) /\ Len(SubSeq(r.url, i + 1, j)) = j - (i + 1) + 1
        BY <1>1, <2>2, SubSeqIn
    <2>4. QED
        BY <1>4, <2>1, <2>3
<1>7. IndexParts(f)[1] = SchemaDomain(r.domain) /\ IndexParts(f)[1] # <<>>
    <2>1. IndexParts(f)[1] = LayoutDomain(r.domain)
        BY <1>2 DEF IndexParts
    <2>2. SchemaDomain(r.domain) = LayoutDomain(r.domain)
        BY <1>1, DomainIsLayout
    <2>3. DOMAIN LayoutDomain(r.domain) = DOMAIN r.domain /\ DOMAIN r.domain # {}
        <3>1. DOMAIN LayoutDomain(r.domain) = DOMAIN r.domain
            BY DEF LayoutDomain
        <3>0. \A sq \in Seq(Chars) : sq # <<>> => Len(sq) \in Nat \ {0}
            BY EmptySeq
        <3>2. 1 \in DOMAIN r.domain
            BY <1>1, <3>0
        <3>3. QED
            BY <3>1, <3>2
    <2>4. QED
        BY <2>1, <2>2, <2>3
<1>8. IndexParts(f)[2] = Str("v") \o ContextVersion(r) /\ IndexParts(f)[2] # <<>>
    <2>1. IndexParts(f)[2] = Str("v") \o ContextVersion(r)
        BY <1>2 DEF IndexParts
    <2>2. Len(Str("v") \o ContextVersion(r)) >= 1
        BY <1>1 DEF Str
    <2>3. QED
        BY <2>1, <2>2
<1>9. IndexParts(f)[3] = PathBase(r.url) /\ IndexParts(f)[3] # <<>>
    <2>1. IndexParts(f)[3] = TrimSuffix(e \o <<Json>>, <<Json>>)
        BY <1>3 DEF IndexParts, Str
    <2>2. e \in Seq(Chars \cup {Json}) /\ Json \in Chars \cup {Json}
        BY <1>6, SeqMonotonic
    <2>3. TrimSuffix(e \o <<Json>>, <<Json>>) = e
        BY <2>2, TrimSuffixAppended
    <2>4. QED
        BY <1>5, <1>6, <2>1, <2>3
<1>10. Ext(Last(f)) = Json
    <2>1. Last(f) = f[3]
        BY <1>2 DEF Last
    <2>2. QED
        BY <1>2, <2>1 DEF Ext
<1>11. IndexKey(f) = RequestKey(r)
    BY <1>7, <1>8, <1>9 DEF IndexKey, RequestKey
<1>12. Len(f) >= 3
    BY <1>2
<1>13. <<>> \notin {IndexParts(f)[1], IndexParts(f)[2], IndexParts(f)[3]}
    BY <1>7, <1>8, <1>9, Zenon
<1>14. QED
    BY <1>10, <1>11, <1>12, <1>13, Zenon DEF Good

-----------------------------------------------------------------------------
\* The inductive invariant.  Before the walk nothing has been read; once
\* it is over nothing is left; every good file the walk has passed has its
\* key in schemaFiles (later files may replace the path, never remove the
\* key); and a request answered "schema not found" was answered by the
\* validator New returned, for a key not in schemaFiles.
IInv ==
    /\ TypeOK
    /\ DOMAIN used = Requests
    /\ status = "stat" => remaining = tree
    /\ status = "ready" => remaining = {}
    /\ status \in {"indexing", "ready"} =>
          \A f \in tree \ remaining : Good(f) => IndexKey(f) \in DOMAIN schemaFiles
    /\ \A r \in Requests :
          result[r] = "notFound" =>
             /\ status = "ready" /\ r.domain # <<>> /\ ContextVersion(r) # <<>>
             /\ RequestKey(r) \notin DOMAIN schemaFiles

\* New starts with an empty index and no request answered.
LEMMA InitIInv == Init => IInv
<1> SUFFICES ASSUME Init PROVE IInv
    OBVIOUS
<1>1. TypeOK
    <2>1. tree \in Trees /\ status = "stat" /\ remaining = tree
        BY DEF Init
    <2>2. DOMAIN schemaFiles = {}
        BY DEF Init
    <2>3. result \in [Requests -> Outcomes] /\ \A r \in Requests : result[r] \notin UsedSchema
        BY DEF Init, Outcomes, UsedSchema
    <2>4. QED
        BY <2>1, <2>2, <2>3 DEF TypeOK
<1>2. DOMAIN used = Requests /\ \A r \in Requests : result[r] # "notFound"
    BY DEF Init
<1>3. QED
    BY <1>1, <1>2 DEF Init, IInv

\* The walk's step: the file is skipped, fails initialise, or is filed
\* under its key, which stays in schemaFiles from then on.
LEMMA IndexFileStep ==
    ASSUME IInv, IndexFile
    PROVE  IInv'
<1>1. PICK f \in remaining :
        LET p == IndexParts(f)
        IN  /\ remaining' = remaining \ {f}
            /\ \/ /\ Ext(Last(f)) # Json
                  /\ UNCHANGED <<status, schemaFiles>>
               \/ /\ status' = "failed"
                  /\ UNCHANGED schemaFiles
               \/ /\ Good(f)
                  /\ schemaFiles' = MapPut(schemaFiles, IndexKey(f), f)
                  /\ UNCHANGED status
    BY DEF IndexFile, Good
<1>2. status = "indexing" /\ UNCHANGED <<tree, result, used>>
    BY DEF IndexFile
<1>3. remaining' = remaining \ {f}
    BY <1>1
<1>4. f \in tree /\ remaining' \subseteq tree
    BY <1>2, <1>3 DEF IInv, TypeOK
<1>5. \A r \in Requests : result[r] # "notFound"
    BY <1>2 DEF IInv
<1>6. CASE Ext(Last(f)) # Json /\ UNCHANGED <<status, schemaFiles>>
    <2>1. ~Good(f)
        BY <1>6 DEF Good
    <2>2. tree' \ remaining' = (tree \ remaining) \cup {f}
        BY <1>2, <1>4, <1>3
    <2>3. QED
        BY <1>2, <1>4, <1>5, <1>6, <2>1, <2>2 DEF IInv, TypeOK
<1>7. CASE status' = "failed" /\ UNCHANGED schemaFiles
    BY <1>2, <1>4, <1>5, <1>7 DEF IInv, TypeOK
<1>8. CASE Good(f) /\ schemaFiles' = MapPut(schemaFiles, IndexKey(f), f) /\ UNCHANGED status
    <2>1. DOMAIN schemaFiles' = {IndexKey(f)} \cup DOMAIN schemaFiles
        BY <1>8 DEF MapPut
    <2>2. \A k \in DOMAIN schemaFiles' : schemaFiles'[k] \in tree
        BY <1>4, <1>8, <2>1 DEF MapPut, IInv, TypeOK
    <2>3. tree' \ remaining' = (tree \ remaining) \cup {f}
        BY <1>2, <1>4, <1>3
    <2>4. QED
        BY <1>2, <1>4, <1>5, <1>8, <2>1, <2>2, <2>3 DEF IInv, TypeOK
<1>9. QED
    BY <1>1, <1>6, <1>7, <1>8

\* Validate answers one request of the finished validator; a "schema not
\* found" answer is given only for a key the index lacks.
LEMMA ValidateStep ==
    ASSUME IInv, NEW r \in Requests, Validate(r)
    PROVE  IInv'
<1>1. /\ status = "ready" /\ result[r] = "none"
      /\ UNCHANGED <<tree, status, remaining, schemaFiles>>
    BY DEF Validate
<1>2. \E o \in Outcomes :
        /\ result' = [result EXCEPT ![r] = o]
        /\ o = "notFound" => r.domain # <<>> /\ ContextVersion(r) # <<>>
                             /\ RequestKey(r) \notin DOMAIN schemaFiles
        /\ \/ UNCHANGED used /\ o \notin UsedSchema
           \/ /\ RequestKey(r) \in DOMAIN schemaFiles
              /\ used' = [used EXCEPT ![r] = schemaFiles[RequestKey(r)]]
    BY DEF Validate, Outcomes, UsedSchema
<1>3. PICK o \in Outcomes :
        /\ result' = [result EXCEPT ![r] = o]
        /\ o = "notFound" => r.domain # <<>> /\ ContextVersion(r) # <<>>
                             /\ RequestKey(r) \notin DOMAIN schemaFiles
        /\ \/ UNCHANGED used /\ o \notin UsedSchema
           \/ /\ RequestKey(r) \in DOMAIN schemaFiles
              /\ used' = [used EXCEPT ![r] = schemaFiles[RequestKey(r)]]
    BY <1>2
<1>4. result' \in [Requests -> Outcomes] /\ DOMAIN used' = Requests
    BY <1>3 DEF IInv, TypeOK
<1>5. \A q \in Requests : result'[q] \in UsedSchema => used'[q] \in tree'
    BY <1>1, <1>3 DEF IInv, TypeOK
<1>6. \A q \in Requests :
        result'[q] = "notFound" =>
           /\ status' = "ready" /\ q.domain # <<>> /\ ContextVersion(q) # <<>>
           /\ RequestKey(q) \notin DOMAIN schemaFiles'
    BY <1>1, <1>3 DEF IInv, TypeOK
<1>7. QED
    BY <1>1, <1>4, <1>5, <1>6 DEF IInv, TypeOK

\* Every step keeps the invariant.
LEMMA NextIInv == IInv /\ [Next]_vars => IInv'
<1> SUFFICES ASSUME IInv, [Next]_vars PROVE IInv'
    OBVIOUS
<1>1. CASE StatSchemaDir
    <2>1. \A r \in Requests : result[r] # "notFound"
        BY <1>1 DEF StatSchemaDir, IInv
    <2>2. QED
        BY <1>1, <2>1 DEF StatSchemaDir, IInv, TypeOK
<1>2. CASE ReadDirFails
    <2>1. \A r \in Requests : result[r] # "notFound"
        BY <1>2 DEF ReadDirFails, IInv
    <2>2. QED
        BY <1>2, <2>1 DEF ReadDirFails, IInv, TypeOK
<1>3. CASE IndexFile
    BY <1>3, IndexFileStep
<1>4. CASE IndexBuilt
    <2>1. \A r \in Requests : result[r] # "notFound"
        BY <1>4 DEF IndexBuilt, IInv
    <2>2. QED
        BY <1>4, <2>1 DEF IndexBuilt, IInv, TypeOK
<1>5. CASE \E r \in Requests : Validate(r)
    BY <1>5, ValidateStep
<1>6. CASE UNCHANGED vars
    BY <1>6 DEF vars, IInv, TypeOK
<1>7. QED
    BY <1>1, <1>2, <1>3, <1>4, <1>5, <1>6 DEF Next

\* The invariant rules out a false "schema not found".
LEMMA IInvNoFalseNotFound == IInv => NoFalseNotFound
<1> SUFFICES ASSUME IInv, NEW r \in Requests, result[r] = "notFound",
                    NEW f \in tree, SchemaFor(f, r)
             PROVE  FALSE
    BY DEF NoFalseNotFound
<1>1. status = "ready" /\ r.domain # <<>> /\ RequestKey(r) \notin DOMAIN schemaFiles
    BY DEF IInv
<1>2. f \in Seq(Seq(Chars))
    BY TreesAssumption DEF IInv, TypeOK
<1>3. Good(f) /\ IndexKey(f) = RequestKey(r)
    BY <1>1, <1>2, SchemaKey
<1>4. f \in tree \ remaining
    BY <1>1 DEF IInv
<1>5. QED
    BY <1>1, <1>3, <1>4 DEF IInv

\* Every reachable state is well typed, for every schema directory and
\* every set of requests.
THEOREM TypeCorrect == Spec => []TypeOK
<1>1. Init => IInv
    BY InitIInv
<1>2. IInv /\ [Next]_vars => IInv'
    BY NextIInv
<1>3. IInv => TypeOK
    BY DEF IInv
<1>4. QED
    BY <1>1, <1>2, <1>3, PTL DEF Spec

\* Validate never answers "schema not found" for a request whose schema
\* file sits where the documented layout puts it: initialise's key for
\* that file and Validate's key for the request agree, for every schema
\* directory and every request.
THEOREM NoFalseNotFoundHolds == Spec => []NoFalseNotFound
<1>1. Init => IInv
    BY InitIInv
<1>2. IInv /\ [Next]_vars => IInv'
    BY NextIInv
<1>3. IInv => NoFalseNotFound
    BY IInvNoFalseNotFound
<1>4. QED
    BY <1>1, <1>2, <1>3, PTL DEF Spec
=============================================================================
