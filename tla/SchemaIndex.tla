---------------------------- MODULE SchemaIndex ----------------------------
(***************************************************************************)
(* The schema validator's index and its request path (src/unnamed/part_000 *)
(* New, initialise, Validate).  initialise walks the schema directory      *)
(* depth first, entries in byte order (os.ReadDir), and files each .json   *)
(* file under the key domain_version_name built from the first three       *)
(* components of its relative path.  Validate builds the key of a request  *)
(* from its context (domain lower-cased with ':' as '_', "v" + version)    *)
(* and the last element of its URL path, and looks it up.                  *)
(*                                                                         *)
(* Names and URLs are sequences of one-character strings.  The token       *)
(* ".json" stands for the five bytes of the extension: no other character  *)
(* of the model is a '.', so filepath.Ext and TrimSuffix see it as the     *)
(* code does.  getCompiledSchema (modelled in SchemaCache) and the schema  *)
(* check are reduced to their outcomes.                                    *)
(***************************************************************************)
EXTENDS GoStrings, TLC

CONSTANTS
    Trees,        \* possible schema directories: sets of relative file paths
    Requests,     \* requests that reach validateSchema
    ByteOrder,    \* the characters of the model, in increasing byte value
    UpperToLower  \* unicode.ToLower on the upper-case characters

Chars == {ByteOrder[i] : i \in DOMAIN ByteOrder}

ASSUME TreesAssumption ==
    \A t \in Trees : \A f \in t : f \in Seq(Seq(Chars)) /\ Len(f) > 0
ASSUME RequestsAssumption ==
    Requests \subseteq [json : BOOLEAN, domain : Seq(Chars), version : Seq(Chars),
                        coreVersion : Seq(Chars), url : Seq(Chars)]

\* unicode.ToLower neither takes nor gives ':' (it is no letter).
ASSUME UpperToLowerAssumption ==
    /\ ":" \notin DOMAIN UpperToLower
    /\ \A c \in DOMAIN UpperToLower : UpperToLower[c] # ":"

Json == ".json"

\* Go's string order (bytes) and os.ReadDir's order of entries: a name
\* before every longer name it is a prefix of.
Rank(c) == CHOOSE i \in DOMAIN ByteOrder : ByteOrder[i] = c
LexLess(s, t, Lt(_, _)) ==
    \/ IsStrictPrefix(s, t)
    \/ \E i \in 1..Len(s) :
          /\ i <= Len(t)
          /\ SubSeq(s, 1, i - 1) = SubSeq(t, 1, i - 1)
          /\ Lt(s[i], t[i])
NameLess(s, t) == LexLess(s, t, LAMBDA a, b : Rank(a) < Rank(b))
\* processDir recurses into an entry before it reads the next one, so the
\* files come in the lexicographic order of their component sequences.
WalkLess(p, q) == LexLess(p, q, NameLess)
IsNextFile(f, rem) == \A g \in rem \ {f} : WalkLess(f, g)

\* filepath.Ext
Ext(name) == IF name # <<>> /\ Last(name) = Json THEN Json ELSE ""

\* The Go map assignment m[k] = v.
MapPut(m, k, v) == [x \in DOMAIN m \cup {k} |-> IF x = k THEN v ELSE m[x]]

\* fmt.Sprintf("%s_%s_%s", a, b, c)
JoinKey(a, b, c) == a \o Str("_") \o b \o Str("_") \o c

\* initialise: the three components taken from the relative path.
IndexParts(f) ==
    <<TrimSpace(f[1]), TrimSpace(f[2]), TrimSuffix(TrimSpace(f[3]), Str(Json))>>
IndexKey(f) == LET p == IndexParts(f) IN JoinKey(p[1], p[2], p[3])

\* Validate: strings.ToLower, then ReplaceAll(":", "_").
ToLower(s) ==
    [i \in DOMAIN s |-> IF s[i] \in DOMAIN UpperToLower THEN UpperToLower[s[i]] ELSE s[i]]
\* Mutant: the domain is not lower-cased.
SchemaDomainNoLower(d) == ReplaceAll(d, ":", "_")
SchemaDomain(d) == ReplaceAll(ToLower(d), ":", "_")
ContextVersion(r) == IF r.version = <<>> THEN r.coreVersion ELSE r.version
\* path.Base: trailing slashes removed, then what follows the last slash;
\* "." for an empty path and "/" for one of slashes only.
PathBase(u) ==
    LET n == SelectLastInSeq(u, LAMBDA c : c # "/")
        s == SubSeq(u, 1, n)
    IN  CASE u = <<>> -> Str(".")
          [] n = 0    -> Str("/")
          [] OTHER    -> SubSeq(s, SelectLastInSeq(s, LAMBDA c : c = "/") + 1, n)
RequestKey(r) ==
    JoinKey(SchemaDomain(r.domain), Str("v") \o ContextVersion(r), PathBase(r.url))

Outcomes == {"none", "badReq", "notFound", "compileErr", "schemaErr", "failed", "valid"}
\* getCompiledSchema returned a schema file: compiled or not, checked or not.
UsedSchema == {"compileErr", "schemaErr", "failed", "valid"}

VARIABLES
    tree,         \* the schema directory
    status,       \* "stat", "indexing", "ready" or "failed" (New's error)
    remaining,    \* files processDir has not reached yet
    schemaFiles,  \* key -> relative path of the file indexed under it
    result,       \* request -> what Validate returned
    used          \* request -> the schema file Validate checked it against

vars == <<tree, status, remaining, schemaFiles, result, used>>

TypeOK ==
    /\ tree \in Trees
    /\ status \in {"stat", "indexing", "ready", "failed"}
    /\ remaining \subseteq tree
    /\ \A k \in DOMAIN schemaFiles : schemaFiles[k] \in tree
    /\ result \in [Requests -> Outcomes]
    /\ \A r \in Requests : result[r] \in UsedSchema => used[r] \in tree

\* New: an empty index, then initialise.
Init ==
    /\ tree \in Trees
    /\ status = "stat"
    /\ remaining = tree
    /\ schemaFiles = [k \in {} |-> <<>>]
    /\ result = [r \in Requests |-> "none"]
    /\ used = [r \in Requests |-> <<>>]

\* os.Stat of SchemaDir: it fails, or it is not a directory, or the walk starts.
StatSchemaDir ==
    /\ status = "stat"
    /\ status' \in {"indexing", "failed"}
    /\ UNCHANGED <<tree, remaining, schemaFiles, result, used>>

\* os.ReadDir of a directory fails; processDir returns the error.
ReadDirFails ==
    /\ status = "indexing"
    /\ status' = "failed"
    /\ UNCHANGED <<tree, remaining, schemaFiles, result, used>>

\* Mutant: the directory is stored for the key instead of the entry's path.
IndexFileStoringDir ==
    /\ status = "indexing"
    /\ remaining # {}
    /\ \E f \in remaining :
       LET p == IndexParts(f)
       IN  /\ IsNextFile(f, remaining)
           /\ remaining' = remaining \ {f}
           /\ \/ /\ Ext(Last(f)) # Json
                 /\ UNCHANGED <<status, schemaFiles>>
              \/ /\ Ext(Last(f)) = Json
                 /\ Len(f) < 3
                 /\ status' = "failed"
                 /\ UNCHANGED schemaFiles
              \/ /\ Ext(Last(f)) = Json
                 /\ Len(f) >= 3
                 /\ <<>> \in {p[1], p[2], p[3]}
                 /\ status' = "failed"
                 /\ UNCHANGED schemaFiles
              \/ /\ Ext(Last(f)) = Json
                 /\ Len(f) >= 3
                 /\ <<>> \notin {p[1], p[2], p[3]}
                 /\ schemaFiles' = MapPut(schemaFiles, IndexKey(f), Front(f))
                 /\ UNCHANGED status
    /\ UNCHANGED <<tree, result, used>>

\* The loop body of processDir for the next file of the walk.
IndexFile ==
    /\ status = "indexing"
    /\ remaining # {}
    /\ \E f \in remaining :
       LET p == IndexParts(f)
       IN  /\ IsNextFile(f, remaining)
           /\ remaining' = remaining \ {f}
           /\ \/ /\ Ext(Last(f)) # Json
                 /\ UNCHANGED <<status, schemaFiles>>
              \/ /\ Ext(Last(f)) = Json
                 /\ Len(f) < 3
                 /\ status' = "failed"
                 /\ UNCHANGED schemaFiles
              \/ /\ Ext(Last(f)) = Json
                 /\ Len(f) >= 3
                 /\ <<>> \in {p[1], p[2], p[3]}
                 /\ status' = "failed"
                 /\ UNCHANGED schemaFiles
              \/ /\ Ext(Last(f)) = Json
                 /\ Len(f) >= 3
                 /\ <<>> \notin {p[1], p[2], p[3]}
                 /\ schemaFiles' = MapPut(schemaFiles, IndexKey(f), f)
                 /\ UNCHANGED status
    /\ UNCHANGED <<tree, result, used>>

\* The walk ends without an error: New returns the validator.
IndexBuilt ==
    /\ status = "indexing"
    /\ remaining = {}
    /\ status' = "ready"
    /\ UNCHANGED <<tree, remaining, schemaFiles, result, used>>

\* Validate for request r, on the validator New returned.
Validate(r) ==
    LET Reply(o) == result' = [result EXCEPT ![r] = o]
        key == RequestKey(r)
    IN
    /\ status = "ready"
    /\ result[r] = "none"
    /\ \/ /\ ~r.json
          /\ Reply("badReq") /\ UNCHANGED used
       \/ /\ r.json /\ r.domain = <<>>
          /\ Reply("badReq") /\ UNCHANGED used
       \/ /\ r.json /\ r.domain # <<>>
          /\ r.version = <<>> /\ r.coreVersion = <<>>
          /\ Reply("badReq") /\ UNCHANGED used
       \/ /\ r.json /\ r.domain # <<>> /\ ContextVersion(r) # <<>>
          /\ key \notin DOMAIN schemaFiles
          /\ Reply("notFound") /\ UNCHANGED used
       \/ /\ r.json /\ r.domain # <<>> /\ ContextVersion(r) # <<>>
          /\ key \in DOMAIN schemaFiles
          /\ \E o \in UsedSchema : Reply(o)
          /\ used' = [used EXCEPT ![r] = schemaFiles[key]]
    /\ UNCHANGED <<tree, status, remaining, schemaFiles>>

Next ==
    \/ StatSchemaDir
    \/ ReadDirFails
    \/ IndexFile
    \/ IndexBuilt
    \/ \E r \in Requests : Validate(r)

Spec == Init /\ [][Next]_vars

-----------------------------------------------------------------------------
(***************************************************************************)
(* The layout initialise's comments document: a request's schema is the    *)
(* file <domain>/v<version>/<endpoint>.json, the domain lower-cased with   *)
(* ':' written '_', the endpoint the last element of the URL path.  It is  *)
(* stated component by component, without building a key.  Padding around *)
(* the names is allowed where initialise trims it; the file's name ends    *)
(* in ".json", as filepath.Ext requires before anything is trimmed.        *)
(***************************************************************************)
LayoutDomain(d) ==
    [i \in DOMAIN d |->
        CASE d[i] = ":" -> "_"
          [] d[i] \in DOMAIN UpperToLower -> UpperToLower[d[i]]
          [] OTHER -> d[i]]
\* The last element of the path u: a maximal run of non-slashes followed
\* only by slashes (at most one such run).
Endpoint(u) ==
    {SubSeq(u, ij[1] + 1, ij[2]) :
        ij \in {ij \in (0..Len(u)) \X (0..Len(u)) :
                  /\ ij[1] < ij[2]
                  /\ ij[1] = 0 \/ u[ij[1]] = "/"
                  /\ \A k \in ij[1] + 1..ij[2] : u[k] # "/"
                  /\ \A k \in ij[2] + 1..Len(u) : u[k] = "/"}}
SchemaFor(f, r) ==
    /\ Len(f) = 3
    /\ f[3] # <<>> /\ Last(f[3]) = Json
    /\ TrimSpace(f[1]) = LayoutDomain(r.domain)
    /\ TrimSpace(f[2]) = Str("v") \o ContextVersion(r)
    /\ \E e \in Endpoint(r.url) : TrimSpace(f[3]) = e \o Str(Json)

\* A request for which the schema directory holds the file its context and
\* URL name is never rejected as "schema not found": the key Validate
\* builds (lower-casing, ':' -> '_', "v" prefix, path.Base) is the key
\* initialise filed that file under.
NoFalseNotFound ==
    \A r \in Requests :
        result[r] = "notFound" => ~\E f \in tree : SchemaFor(f, r)

\* Validate checks a request only against the schema file its context and
\* URL name ("a unique key combining domain, version, and schema name").
SchemaMatchesRequest ==
    \A r \in Requests : result[r] \in UsedSchema => SchemaFor(used[r], r)
=============================================================================
