----------------------------- MODULE SchemaCache -----------------------------
(***************************************************************************)
(* schemaValidator.getCompiledSchema (schemavalidator plugin): the lazily  *)
(* filled cache of compiled JSON schemas shared by every request goroutine *)
(* of a module.  Readers look the key up under cacheMu.RLock; on a miss a  *)
(* caller serialises on compileMu, re-checks the cache, compiles, and      *)
(* stores the result under cacheMu.Lock.                                   *)
(*                                                                         *)
(* Each section guarded by cacheMu only reads or writes the two maps and   *)
(* takes no other lock, so it is one atomic step here; compileMu is held   *)
(* across several steps and is modelled explicitly.  A compiled schema is  *)
(* a fresh identity (a positive number); 0 in the cache means absent.      *)
(***************************************************************************)
EXTENDS Naturals, FiniteSets

CONSTANTS
    Threads,     \* goroutines calling Validate concurrently
    Keys,        \* schema keys requests may ask for
    Files,       \* v.schemaFiles: the keys initialise indexed
    NoThread     \* compileMu is free

ASSUME KeysAssumption == Files \subseteq Keys
ASSUME NoThreadAssumption == NoThread \notin Threads

Absent == 0

\* What getCompiledSchema returned to a caller.
Results == [kind : {"none", "schema", "notFound", "compileErr"}, id : Nat]
NoResult == [kind |-> "none", id |-> 0]

VARIABLES
    cache,      \* v.schemaCache: key -> compiled schema, Absent if none
    compileMu,  \* holder of v.compileMu
    pc,         \* where each goroutine is in getCompiledSchema
    key,        \* the schemaKey argument of the current call
    compiled,   \* schema the current call has compiled, before storing it
    result,     \* what the last call returned
    nextId,     \* identity the next successful compilation gets
    compiles    \* number of successful compilations of each key

vars == <<cache, compileMu, pc, key, compiled, result, nextId, compiles>>

PCs == {"idle", "lookup", "lockCompile", "recheck", "compile", "store"}

TypeOK ==
    /\ cache \in [Keys -> Nat]
    /\ compileMu \in Threads \cup {NoThread}
    /\ pc \in [Threads -> PCs]
    /\ key \in [Threads -> Keys]
    /\ compiled \in [Threads -> Nat]
    /\ result \in [Threads -> Results]
    /\ nextId \in Nat \ {0}
    /\ compiles \in [Keys -> Nat]

Init ==
    /\ cache = [k \in Keys |-> Absent]
    /\ compileMu = NoThread
    /\ pc = [t \in Threads |-> "idle"]
    /\ key \in [Threads -> Keys]
    /\ compiled = [t \in Threads |-> Absent]
    /\ result = [t \in Threads |-> NoResult]
    /\ nextId = 1
    /\ compiles = [k \in Keys |-> 0]

Goto(t, l) == pc' = [pc EXCEPT ![t] = l]

Return(t, kind, id) ==
    /\ result' = [result EXCEPT ![t] = [kind |-> kind, id |-> id]]
    /\ pc' = [pc EXCEPT ![t] = "idle"]

\* Validate calls getCompiledSchema(schemaKey) for some key.
Call(t) ==
    /\ pc[t] = "idle"
    /\ \E k \in Keys : key' = [key EXCEPT ![t] = k]
    /\ result' = [result EXCEPT ![t] = NoResult]
    /\ Goto(t, "lookup")
    /\ UNCHANGED <<cache, compileMu, compiled, nextId, compiles>>

\* Under cacheMu.RLock: a hit returns the cached schema; a key with no
\* schema file returns errSchemaKeyNotFound; otherwise go compile.
Lookup(t) ==
    /\ pc[t] = "lookup"
    /\ \/ cache[key[t]] # Absent /\ Return(t, "schema", cache[key[t]])
       \/ /\ cache[key[t]] = Absent /\ key[t] \notin Files
          /\ Return(t, "notFound", 0)
       \/ /\ cache[key[t]] = Absent /\ key[t] \in Files
          /\ Goto(t, "lockCompile") /\ UNCHANGED result
    /\ UNCHANGED <<cache, compileMu, key, compiled, nextId, compiles>>

\* Mutant: the compile path without compileMu.
LockCompileNoMutex(t) ==
    /\ pc[t] = "lockCompile"
    /\ Goto(t, "recheck")
    /\ UNCHANGED <<cache, compileMu, key, compiled, result, nextId, compiles>>

\* compileMu.Lock().
LockCompile(t) ==
    /\ pc[t] = "lockCompile"
    /\ compileMu = NoThread
    /\ compileMu' = t
    /\ Goto(t, "recheck")
    /\ UNCHANGED <<cache, key, compiled, result, nextId, compiles>>

\* Mutant: no second look at the cache once compileMu is held.
RecheckSkipped(t) ==
    /\ pc[t] = "recheck"
    /\ Goto(t, "compile")
    /\ UNCHANGED <<cache, compileMu, key, compiled, result, nextId, compiles>>

\* Under cacheMu.RLock again: another goroutine may have stored the schema
\* while this one waited; then return it (the deferred Unlock runs).
Recheck(t) ==
    /\ pc[t] = "recheck"
    /\ \/ /\ cache[key[t]] # Absent
          /\ Return(t, "schema", cache[key[t]])
          /\ compileMu' = NoThread
       \/ /\ cache[key[t]] = Absent
          /\ Goto(t, "compile") /\ UNCHANGED <<result, compileMu>>
    /\ UNCHANGED <<cache, key, compiled, nextId, compiles>>

\* Mutant: the error return leaves compileMu locked (no deferred Unlock).
CompileErrKeepsMutex(t) ==
    /\ pc[t] = "compile"
    /\ \/ /\ Return(t, "compileErr", 0)
          /\ UNCHANGED <<compileMu, compiled, nextId, compiles>>
       \/ /\ compiled' = [compiled EXCEPT ![t] = nextId]
          /\ nextId' = nextId + 1
          /\ compiles' = [compiles EXCEPT ![key[t]] = @ + 1]
          /\ Goto(t, "store")
          /\ UNCHANGED <<result, compileMu>>
    /\ UNCHANGED <<cache, key>>

\* v.compiler.Compile(schemaPath), outside cacheMu: it fails (the error is
\* returned, nothing is cached, compileMu released) or yields a new schema.
Compile(t) ==
    /\ pc[t] = "compile"
    /\ \/ /\ Return(t, "compileErr", 0)
          /\ compileMu' = NoThread
          /\ UNCHANGED <<compiled, nextId, compiles>>
       \/ /\ compiled' = [compiled EXCEPT ![t] = nextId]
          /\ nextId' = nextId + 1
          /\ compiles' = [compiles EXCEPT ![key[t]] = @ + 1]
          /\ Goto(t, "store")
          /\ UNCHANGED <<result, compileMu>>
    /\ UNCHANGED <<cache, key>>

\* Under cacheMu.Lock: store the schema; return it and release compileMu.
Store(t) ==
    /\ pc[t] = "store"
    /\ cache' = [cache EXCEPT ![key[t]] = compiled[t]]
    /\ Return(t, "schema", compiled[t])
    /\ compileMu' = NoThread
    /\ compiled' = [compiled EXCEPT ![t] = Absent]
    /\ UNCHANGED <<key, nextId, compiles>>

Next ==
    \E t \in Threads :
        Call(t) \/ Lookup(t) \/ LockCompile(t) \/ Recheck(t) \/ Compile(t) \/ Store(t)

(***************************************************************************)
(* Every goroutine keeps running; a goroutine blocked in compileMu.Lock    *)
(* gets the mutex if it is free infinitely often (sync.Mutex switches to   *)
(* starvation mode and hands the lock to a waiter after 1ms).  A new call  *)
(* is not forced.                                                          *)
(***************************************************************************)
Fairness ==
    \A t \in Threads :
        /\ WF_vars(Lookup(t) \/ Recheck(t) \/ Compile(t) \/ Store(t))
        /\ SF_vars(LockCompile(t))

Spec == Init /\ [][Next]_vars /\ Fairness
-----------------------------------------------------------------------------
(***************************************************************************)
(* Properties: what the comment at the compileMu.Lock promises ("serialize *)
(* first-time compiles to avoid concurrent compiler use and duplicate      *)
(* work") and that no caller waits forever.                                *)
(***************************************************************************)

\* The shared jsonschema.Compiler is never used by two goroutines at once.
CompilerExclusive ==
    \A t1, t2 \in Threads :
        t1 # t2 => ~(pc[t1] = "compile" /\ pc[t2] = "compile")

\* However many goroutines miss on the same key at the same time, the
\* schema of a key is compiled successfully at most once.
CompileOnce ==
    \A k \in Keys : compiles[k] <= 1

\* Every call of getCompiledSchema returns.
CallReturns ==
    \A t \in Threads : pc[t] = "lookup" ~> pc[t] = "idle"
-----------------------------------------------------------------------------
(***************************************************************************)
(* Refinement: getCompiledSchema implements SchemaMemo.  A goroutine is    *)
(* busy from Call until it returns; the call takes effect at the step that *)
(* sets its result (a hit in Lookup or Recheck, the not-found return, a    *)
(* failed Compile, or Store).  The identity of the next schema is, while a *)
(* goroutine is about to store, the one it compiled, and nextId otherwise. *)
(***************************************************************************)
AbstractNextId ==
    IF \E t \in Threads : pc[t] = "store"
       THEN compiled[CHOOSE t \in Threads : pc[t] = "store"]
       ELSE nextId

Memo == INSTANCE SchemaMemo
            WITH pc <- [t \in Threads |-> IF pc[t] = "idle" THEN "idle" ELSE "busy"],
                 nextId <- AbstractNextId

\* Each call of getCompiledSchema behaves as one atomic step of SchemaMemo:
\* every caller of a key gets the schema cached for it, a cached schema is
\* never replaced by a second compilation, a compile error caches nothing,
\* and every call returns.
ImplementsMemo == Memo!Spec
=============================================================================
