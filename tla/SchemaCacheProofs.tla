-------------------------- MODULE SchemaCacheProofs --------------------------
(***************************************************************************)
(* Proofs about the schema compile cache, for every set of goroutines,     *)
(* keys and schema files.                                                  *)
(*                                                                         *)
(* CompileOnce is not inductive: it needs that compileMu is held exactly   *)
(* by the goroutine between LockCompile and its return, that the holder    *)
(* past Recheck has seen the key absent (nobody else can store it), and    *)
(* that the count of compilations of a key is 1 exactly when the key is    *)
(* cached or its compiled schema is about to be stored.                    *)
(***************************************************************************)
EXTENDS SchemaCache, TLAPS

Holding == {"recheck", "compile", "store"}

\* Some goroutine has compiled key k and not yet stored it.
StoreBy(k) == \E t \in Threads : pc[t] = "store" /\ key[t] = k

MutexInv == \A t \in Threads : compileMu = t <=> pc[t] \in Holding

\* Past the re-check, the holder has seen its key absent.
AbsentInv ==
    \A t \in Threads :
        /\ pc[t] \in {"compile", "store"} => cache[key[t]] = Absent
        /\ pc[t] = "store" => compiled[t] # Absent

CountInv ==
    \A k \in Keys :
        compiles[k] = IF cache[k] # Absent \/ StoreBy(k) THEN 1 ELSE 0

IInv == TypeOK /\ MutexInv /\ AbsentInv /\ CountInv

-----------------------------------------------------------------------------

\* Every step of a getCompiledSchema call keeps each variable in its type.
LEMMA TypeStep == TypeOK /\ [Next]_vars => TypeOK'
<1> SUFFICES ASSUME TypeOK, [Next]_vars PROVE TypeOK'
    OBVIOUS
<1>1. ASSUME NEW t \in Threads, Call(t) PROVE TypeOK'
    BY <1>1 DEF Call, Goto, TypeOK, NoResult, Results, PCs
<1>2. ASSUME NEW t \in Threads, Lookup(t) PROVE TypeOK'
    <2>1. CASE cache[key[t]] # Absent /\ Return(t, "schema", cache[key[t]])
        BY <1>2, <2>1 DEF Lookup, Return, TypeOK, Results, PCs
    <2>2. CASE Return(t, "notFound", 0)
        BY <1>2, <2>2 DEF Lookup, Return, TypeOK, Results, PCs
    <2>3. CASE Goto(t, "lockCompile") /\ UNCHANGED result
        BY <1>2, <2>3 DEF Lookup, Goto, TypeOK, PCs
    <2>4. QED
        BY <1>2, <2>1, <2>2, <2>3 DEF Lookup
<1>3. ASSUME NEW t \in Threads, LockCompile(t) PROVE TypeOK'
    BY <1>3 DEF LockCompile, Goto, TypeOK, PCs
<1>4. ASSUME NEW t \in Threads, Recheck(t) PROVE TypeOK'
    <2>1. CASE Return(t, "schema", cache[key[t]]) /\ compileMu' = NoThread
        BY <1>4, <2>1 DEF Recheck, Return, TypeOK, Results, PCs
    <2>2. CASE Goto(t, "compile") /\ UNCHANGED <<result, compileMu>>
        BY <1>4, <2>2 DEF Recheck, Goto, TypeOK, PCs
    <2>3. QED
        BY <1>4, <2>1, <2>2 DEF Recheck
<1>5. ASSUME NEW t \in Threads, Compile(t) PROVE TypeOK'
    <2>1. CASE Return(t, "compileErr", 0) /\ compileMu' = NoThread
               /\ UNCHANGED <<compiled, nextId, compiles, cache, key>>
        BY <2>1 DEF Return, TypeOK, Results, PCs
    <2>2. CASE /\ compiled' = [compiled EXCEPT ![t] = nextId]
               /\ nextId' = nextId + 1
               /\ compiles' = [compiles EXCEPT ![key[t]] = compiles[key[t]] + 1]
               /\ Goto(t, "store")
               /\ UNCHANGED <<result, compileMu, cache, key>>
        BY <2>2 DEF Goto, TypeOK, PCs
    <2>3. QED
        BY <1>5, <2>1, <2>2 DEF Compile
<1>6. ASSUME NEW t \in Threads, Store(t) PROVE TypeOK'
    BY <1>6 DEF Store, Return, TypeOK, Results, PCs, Absent
<1>7. CASE UNCHANGED vars
    BY <1>7 DEF vars, TypeOK
<1>8. QED
    BY <1>1, <1>2, <1>3, <1>4, <1>5, <1>6, <1>7 DEF Next

\* The type invariant of the cache holds in every reachable state.
THEOREM TypeCorrect == Spec => []TypeOK
<1>1. Init => TypeOK
    BY DEF Init, TypeOK, Absent, NoResult, Results, PCs
<1>2. QED
    BY <1>1, TypeStep, PTL DEF Spec
-----------------------------------------------------------------------------
\* compileMu has at most one holder, so at most one goroutine is past
\* compileMu.Lock and before its return.
LEMMA OneHolder ==
    ASSUME MutexInv, NEW t \in Threads, NEW u \in Threads,
           pc[t] \in Holding, pc[u] \in Holding
    PROVE  t = u
BY DEF MutexInv

\* The strengthened invariant holds initially.
LEMMA IInvInit == Init => IInv
<1> SUFFICES ASSUME Init PROVE IInv
    OBVIOUS
<1>1. TypeOK
    BY DEF Init, TypeOK, Absent, NoResult, Results, PCs
<1>2. MutexInv
    BY NoThreadAssumption DEF Init, MutexInv, Holding
<1>3. AbsentInv
    BY DEF Init, AbsentInv
<1>4. CountInv
    BY DEF Init, CountInv, StoreBy, Absent
<1>5. QED
    BY <1>1, <1>2, <1>3, <1>4 DEF IInv

\* Every step keeps the strengthened invariant.
LEMMA IInvNext == IInv /\ [Next]_vars => IInv'
<1> SUFFICES ASSUME IInv, [Next]_vars PROVE IInv'
    OBVIOUS
<1> USE DEF IInv
<1>1. TypeOK'
    BY TypeStep
<1>2. ASSUME NEW t \in Threads, Call(t) PROVE (MutexInv /\ AbsentInv /\ CountInv)'
    BY <1>2 DEF Call, Goto, TypeOK, MutexInv, Holding, AbsentInv, CountInv, StoreBy
<1>3. ASSUME NEW t \in Threads, Lookup(t) PROVE (MutexInv /\ AbsentInv /\ CountInv)'
    BY <1>3 DEF Lookup, Goto, Return, TypeOK, MutexInv, Holding, AbsentInv, CountInv, StoreBy
<1>4. ASSUME NEW t \in Threads, LockCompile(t) PROVE (MutexInv /\ AbsentInv /\ CountInv)'
    BY <1>4, NoThreadAssumption DEF LockCompile, Goto, TypeOK, MutexInv, Holding, AbsentInv, CountInv, StoreBy
<1>5. ASSUME NEW t \in Threads, Recheck(t) PROVE (MutexInv /\ AbsentInv /\ CountInv)'
    BY <1>5, NoThreadAssumption DEF Recheck, Goto, Return, TypeOK, MutexInv, Holding, AbsentInv, CountInv, StoreBy
<1>6. ASSUME NEW t \in Threads, Compile(t) PROVE (MutexInv /\ AbsentInv /\ CountInv)'
    <2>1. \A u \in Threads \ {t} : pc[u] \notin Holding
        BY <1>6, OneHolder DEF Compile, Holding
    <2>2. compileMu = t
        BY <1>6 DEF Compile, MutexInv, Holding
    <2>3. CASE Return(t, "compileErr", 0) /\ compileMu' = NoThread
                /\ UNCHANGED <<compiled, nextId, compiles>>
        <3>1. MutexInv'
            BY <1>6, <2>1, <2>3, NoThreadAssumption DEF Compile, Return, TypeOK, MutexInv, Holding
        <3>2. AbsentInv'
            BY <1>6, <2>1, <2>3 DEF Compile, Return, TypeOK, AbsentInv, Holding
        <3>3. \A k \in Keys : StoreBy(k)' = StoreBy(k)
            BY <1>6, <2>3 DEF Compile, Return, TypeOK, StoreBy
        <3>4. CountInv'
            BY <1>6, <2>3, <3>3 DEF Compile, CountInv
        <3>5. QED
            BY <3>1, <3>2, <3>4
    <2>4. CASE /\ compiled' = [compiled EXCEPT ![t] = nextId]
               /\ nextId' = nextId + 1
               /\ compiles' = [compiles EXCEPT ![key[t]] = @ + 1]
               /\ Goto(t, "store")
               /\ UNCHANGED <<result, compileMu>>
        <3>1. MutexInv'
            BY <1>6, <2>1, <2>2, <2>4 DEF Compile, Goto, TypeOK, MutexInv, Holding
        <3>2. AbsentInv'
            BY <1>6, <2>1, <2>4 DEF Compile, Goto, TypeOK, AbsentInv, Holding, Absent
        <3>3. ~StoreBy(key[t])
            BY <1>6, <2>1 DEF Compile, StoreBy, Holding
        <3>4. StoreBy(key[t])'
            BY <1>6, <2>4 DEF Compile, Goto, TypeOK, StoreBy
        <3>5. \A k \in Keys \ {key[t]} : StoreBy(k)' = StoreBy(k)
            BY <1>6, <2>4 DEF Compile, Goto, TypeOK, StoreBy
        <3>6. cache[key[t]] = Absent
            BY <1>6 DEF Compile, AbsentInv
        <3>7. CountInv'
            BY <1>6, <2>4, <3>3, <3>4, <3>5, <3>6 DEF Compile, TypeOK, CountInv
        <3>8. QED
            BY <3>1, <3>2, <3>7
    <2>5. QED
        BY <1>6, <2>3, <2>4 DEF Compile
<1>7. ASSUME NEW t \in Threads, Store(t) PROVE (MutexInv /\ AbsentInv /\ CountInv)'
    <2>1. \A u \in Threads \ {t} : pc[u] \notin Holding
        BY <1>7, OneHolder DEF Store, Holding
    <2>2. MutexInv'
        BY <1>7, <2>1, NoThreadAssumption DEF Store, Return, TypeOK, MutexInv, Holding
    <2>3. AbsentInv'
        BY <1>7, <2>1 DEF Store, Return, TypeOK, AbsentInv, Holding
    <2>4. \A k \in Keys \ {key[t]} : StoreBy(k)' = StoreBy(k)
        BY <1>7 DEF Store, Return, TypeOK, StoreBy
    <2>5. cache'[key[t]] # Absent
        BY <1>7 DEF Store, TypeOK, AbsentInv
    <2>6. StoreBy(key[t])
        BY <1>7 DEF Store, StoreBy
    <2>7. CountInv'
        BY <1>7, <2>4, <2>5, <2>6 DEF Store, TypeOK, CountInv
    <2>8. QED
        BY <2>2, <2>3, <2>7
<1>8. CASE UNCHANGED vars
    <2>1. \A k \in Keys : StoreBy(k)' = StoreBy(k)
        BY <1>8 DEF vars, StoreBy
    <2>2. QED
        BY <1>1, <1>8, <2>1 DEF vars, MutexInv, AbsentInv, CountInv
<1>9. QED
    BY <1>1, <1>2, <1>3, <1>4, <1>5, <1>6, <1>7, <1>8 DEF Next

\* The strengthened invariant holds in every reachable state.
THEOREM IInvHolds == Spec => []IInv
BY IInvInit, IInvNext, PTL DEF Spec

\* compileMu serialises first-time compiles: the shared jsonschema.Compiler
\* is never used by two goroutines at once (getCompiledSchema).
THEOREM CompilerExclusiveHolds == Spec => []CompilerExclusive
<1>1. IInv => CompilerExclusive
    BY OneHolder DEF IInv, CompilerExclusive, Holding
<1>2. QED
    BY <1>1, IInvHolds, PTL

\* The re-check under compileMu means a schema is compiled successfully at
\* most once per key, however many goroutines miss on it together.
THEOREM CompileOnceHolds == Spec => []CompileOnce
<1>1. IInv => CompileOnce
    BY DEF IInv, CountInv, CompileOnce, TypeOK
<1>2. QED
    BY <1>1, IInvHolds, PTL
-----------------------------------------------------------------------------
(***************************************************************************)
(* Refinement of SchemaMemo.  Two more facts are needed: a goroutine on    *)
(* the compile path asks for a key that has a schema file (so its failed   *)
(* compile or its store is a step SchemaMemo allows), and the schema about *)
(* to be stored is the last identity handed out (so the mapped nextId      *)
(* moves on by one when it is stored).                                     *)
(***************************************************************************)

FilesInv == \A t \in Threads : pc[t] \in {"lockCompile"} \cup Holding => key[t] \in Files

StoreIdInv == \A t \in Threads : pc[t] = "store" => compiled[t] = nextId - 1

RInv == IInv /\ FilesInv /\ StoreIdInv

\* The mapped nextId while a goroutine u is about to store is its schema.
LEMMA ChooseStore ==
    ASSUME NEW p, NEW c, NEW n, NEW u \in Threads, p[u] = "store",
           \A t \in Threads : p[t] = "store" => t = u
    PROVE  (IF \E t \in Threads : p[t] = "store"
               THEN c[CHOOSE t \in Threads : p[t] = "store"]
               ELSE n) = c[u]
<1>1. \E t \in Threads : p[t] = "store"
  OBVIOUS
<1>2. (CHOOSE t \in Threads : p[t] = "store") = u
  BY <1>1
<1> QED
  BY <1>1, <1>2

\* The two facts hold initially and are kept by every step.
LEMMA RInvNext == RInv /\ [Next]_vars => RInv'
<1> SUFFICES ASSUME RInv, [Next]_vars PROVE RInv'
  OBVIOUS
<1>1. IInv'
  BY IInvNext DEF RInv
<1>2. ASSUME NEW t \in Threads, Call(t) PROVE (FilesInv /\ StoreIdInv)'
  BY <1>2 DEF Call, Goto, RInv, IInv, TypeOK, FilesInv, StoreIdInv, Holding
<1>3. ASSUME NEW t \in Threads, Lookup(t) PROVE (FilesInv /\ StoreIdInv)'
  BY <1>3 DEF Lookup, Goto, Return, RInv, IInv, TypeOK, FilesInv, StoreIdInv, Holding
<1>4. ASSUME NEW t \in Threads, LockCompile(t) PROVE (FilesInv /\ StoreIdInv)'
  BY <1>4 DEF LockCompile, Goto, RInv, IInv, TypeOK, FilesInv, StoreIdInv, Holding
<1>5. ASSUME NEW t \in Threads, Recheck(t) PROVE (FilesInv /\ StoreIdInv)'
  BY <1>5 DEF Recheck, Goto, Return, RInv, IInv, TypeOK, FilesInv, StoreIdInv, Holding
<1>6. ASSUME NEW t \in Threads, Compile(t) PROVE (FilesInv /\ StoreIdInv)'
  <2>1. \A u \in Threads \ {t} : pc[u] \notin Holding
    BY <1>6, OneHolder DEF Compile, Holding, RInv, IInv
  <2>2. FilesInv'
    BY <1>6 DEF Compile, Goto, Return, RInv, IInv, TypeOK, FilesInv, Holding
  <2>3. StoreIdInv'
    BY <1>6, <2>1 DEF Compile, Goto, Return, RInv, IInv, TypeOK, StoreIdInv, Holding
  <2> QED
    BY <2>2, <2>3
<1>7. ASSUME NEW t \in Threads, Store(t) PROVE (FilesInv /\ StoreIdInv)'
  BY <1>7 DEF Store, Return, RInv, IInv, TypeOK, FilesInv, StoreIdInv, Holding
<1>8. CASE UNCHANGED vars
  BY <1>1, <1>8 DEF vars, RInv, FilesInv, StoreIdInv
<1> QED
  BY <1>1, <1>2, <1>3, <1>4, <1>5, <1>6, <1>7, <1>8 DEF Next, RInv

THEOREM RInvHolds == Spec => []RInv
<1>1. Init => RInv
  BY IInvInit DEF Init, RInv, FilesInv, StoreIdInv, Holding
<1> QED
  BY <1>1, RInvNext, PTL DEF Spec

\* At most one goroutine is about to store, and the mapped nextId is its
\* schema.
LEMMA NextIdAtStore ==
    ASSUME RInv, NEW u \in Threads, pc[u] = "store"
    PROVE  AbstractNextId = compiled[u]
<1>1. \A t \in Threads : pc[t] = "store" => t = u
  BY OneHolder DEF RInv, IInv, Holding
<1> QED
  BY <1>1, ChooseStore DEF AbstractNextId

LEMMA NextIdAtStorePrimed ==
    ASSUME RInv', NEW u \in Threads, pc'[u] = "store"
    PROVE  AbstractNextId' = compiled'[u]
<1>1. \A t \in Threads : pc'[t] = "store" => t = u
  <2> SUFFICES ASSUME NEW t \in Threads, pc'[t] = "store" PROVE t = u
    OBVIOUS
  <2>1. MutexInv'
    BY DEF RInv, IInv
  <2> QED
    BY <2>1 DEF MutexInv, Holding
<1> QED
  BY <1>1, ChooseStore DEF AbstractNextId

\* A step that moves nobody to or from store, and changes neither the
\* schema of a storing goroutine nor (when nobody stores) nextId, leaves the
\* mapped nextId alone.
LEMMA NextIdSame ==
    ASSUME RInv, RInv',
           \A u \in Threads : pc'[u] = "store" <=> pc[u] = "store",
           \A u \in Threads : pc[u] = "store" => compiled'[u] = compiled[u],
           (\A u \in Threads : pc[u] # "store") => nextId' = nextId
    PROVE  AbstractNextId' = AbstractNextId
<1>1. CASE \E u \in Threads : pc[u] = "store"
  <2>1. PICK u \in Threads : pc[u] = "store"
    BY <1>1
  <2>2. AbstractNextId = compiled[u]
    BY <2>1, NextIdAtStore
  <2>3. AbstractNextId' = compiled'[u]
    BY <2>1, NextIdAtStorePrimed
  <2> QED
    BY <2>1, <2>2, <2>3
<1>2. CASE \A u \in Threads : pc[u] # "store"
  BY <1>2 DEF AbstractNextId
<1> QED
  BY <1>1, <1>2

\* Initial states of getCompiledSchema are initial states of SchemaMemo.
LEMMA MemoInit == Init => Memo!Init
BY DEF Init, Memo!Init, AbstractNextId, NoResult, Memo!NoResult, Absent, Memo!Absent

\* Every step of getCompiledSchema is a step of SchemaMemo or leaves the
\* mapped state alone.
LEMMA MemoStep == RInv /\ RInv' /\ [Next]_vars => [Memo!Next]_Memo!vars
<1> SUFFICES ASSUME RInv, RInv', [Next]_vars PROVE [Memo!Next]_Memo!vars
  OBVIOUS
<1>0. TypeOK /\ TypeOK' /\ AbsentInv /\ FilesInv /\ StoreIdInv
  BY DEF RInv, IInv
<1> DEFINE busy(t) == IF pc[t] = "idle" THEN "idle" ELSE "busy"
           mpc == [t \in Threads |-> busy(t)]
<1>1. ASSUME NEW t \in Threads, Call(t) PROVE Memo!Call(t)
  <2>1. AbstractNextId' = AbstractNextId
    BY <1>0, <1>1, NextIdSame DEF Call, Goto, TypeOK
  <2> QED
    <3>1. [u \in Threads |-> IF pc[u] = "idle" THEN "idle" ELSE "busy"]'
            = [[u \in Threads |-> IF pc[u] = "idle" THEN "idle" ELSE "busy"]
                EXCEPT ![t] = "busy"]
      BY <1>0, <1>1 DEF Call, Goto, TypeOK
    <3>2. result' = [result EXCEPT ![t] = Memo!NoResult]
      BY <1>1 DEF Call, NoResult, Memo!NoResult
    <3> QED
      BY <1>1, <2>1, <3>1, <3>2 DEF Call, Memo!Call
<1>2. ASSUME NEW t \in Threads, Lookup(t) PROVE [Memo!Next]_Memo!vars
  <2>1. AbstractNextId' = AbstractNextId
    BY <1>0, <1>2, NextIdSame DEF Lookup, Goto, Return, TypeOK
  <2>2. CASE cache[key[t]] # Absent /\ Return(t, "schema", cache[key[t]])
    <3>1. Memo!Get(t)
      BY <1>0, <1>2, <2>1, <2>2 DEF Lookup, Return, Memo!Get, TypeOK, Absent, Memo!Absent
    <3> QED
      BY <3>1 DEF Memo!Next
  <2>3. CASE cache[key[t]] = Absent /\ key[t] \notin Files /\ Return(t, "notFound", 0)
    <3>1. Memo!Get(t)
      BY <1>0, <1>2, <2>1, <2>3 DEF Lookup, Return, Memo!Get, TypeOK, Absent, Memo!Absent
    <3> QED
      BY <3>1 DEF Memo!Next
  <2>4. CASE Goto(t, "lockCompile") /\ UNCHANGED result
    BY <1>0, <1>2, <2>1, <2>4 DEF Lookup, Goto, Memo!vars, TypeOK
  <2> QED
    BY <1>2, <2>2, <2>3, <2>4 DEF Lookup
<1>3. ASSUME NEW t \in Threads, LockCompile(t) PROVE UNCHANGED Memo!vars
  <2>1. AbstractNextId' = AbstractNextId
    BY <1>0, <1>3, NextIdSame DEF LockCompile, Goto, TypeOK
  <2> QED
    BY <1>0, <1>3, <2>1 DEF LockCompile, Goto, Memo!vars, TypeOK
<1>4. ASSUME NEW t \in Threads, Recheck(t) PROVE [Memo!Next]_Memo!vars
  <2>1. AbstractNextId' = AbstractNextId
    BY <1>0, <1>4, NextIdSame DEF Recheck, Goto, Return, TypeOK
  <2>2. CASE cache[key[t]] # Absent /\ Return(t, "schema", cache[key[t]])
    <3>1. Memo!Get(t)
      BY <1>0, <1>4, <2>1, <2>2 DEF Recheck, Return, Memo!Get, TypeOK, Absent, Memo!Absent
    <3> QED
      BY <3>1 DEF Memo!Next
  <2>3. CASE Goto(t, "compile") /\ UNCHANGED <<result, compileMu>>
    BY <1>0, <1>4, <2>1, <2>3 DEF Recheck, Goto, Memo!vars, TypeOK
  <2> QED
    BY <1>4, <2>2, <2>3 DEF Recheck
<1>5. ASSUME NEW t \in Threads, Compile(t) PROVE [Memo!Next]_Memo!vars
  <2>0. \A u \in Threads : pc[u] # "store"
    BY <1>5, OneHolder DEF Compile, RInv, IInv, Holding
  <2>1. cache[key[t]] = Absent /\ key[t] \in Files
    BY <1>0, <1>5 DEF Compile, AbsentInv, FilesInv, Holding
  <2>2. CASE Return(t, "compileErr", 0) /\ compileMu' = NoThread
             /\ UNCHANGED <<compiled, nextId, compiles>>
    <3>1. AbstractNextId' = AbstractNextId
      BY <1>0, <1>5, <2>2, NextIdSame DEF Compile, Return, TypeOK
    <3>2. Memo!Get(t)
      BY <1>0, <1>5, <2>1, <2>2, <3>1 DEF Compile, Return, Memo!Get, TypeOK, Memo!Absent, Absent
    <3> QED
      BY <3>2 DEF Memo!Next
  <2>3. CASE /\ compiled' = [compiled EXCEPT ![t] = nextId]
             /\ nextId' = nextId + 1
             /\ compiles' = [compiles EXCEPT ![key[t]] = @ + 1]
             /\ Goto(t, "store")
             /\ UNCHANGED <<result, compileMu>>
    <3>1. AbstractNextId = nextId
      BY <2>0 DEF AbstractNextId
    <3>2. pc'[t] = "store"
      BY <1>0, <2>3 DEF Goto, TypeOK
    <3>3. AbstractNextId' = compiled'[t]
      BY <3>2, NextIdAtStorePrimed
    <3>4. compiled'[t] = nextId
      BY <1>0, <2>3 DEF TypeOK
    <3> QED
      BY <1>0, <1>5, <2>3, <3>1, <3>3, <3>4 DEF Compile, Goto, Memo!vars, TypeOK
  <2> QED
    BY <1>5, <2>2, <2>3 DEF Compile
<1>6. ASSUME NEW t \in Threads, Store(t) PROVE Memo!Get(t)
  <2>1. \A u \in Threads \ {t} : pc[u] \notin Holding
    BY <1>6, OneHolder DEF Store, Holding, RInv, IInv
  <2>2. AbstractNextId = compiled[t]
    BY <1>6, NextIdAtStore DEF Store
  <2>3. \A u \in Threads : pc'[u] # "store"
    BY <1>0, <1>6, <2>1 DEF Store, Return, TypeOK, Holding
  <2>4. AbstractNextId' = nextId /\ compiled[t] = nextId - 1
    BY <1>0, <1>6, <2>3 DEF AbstractNextId, Store, StoreIdInv
  <2>5. cache[key[t]] = Absent /\ key[t] \in Files /\ compiled[t] \in Nat
    BY <1>0, <1>6 DEF Store, AbsentInv, FilesInv, Holding, TypeOK
  <2>6. cache' = [cache EXCEPT ![key[t]] = AbstractNextId]
    BY <1>6, <2>2 DEF Store
  <2>7. AbstractNextId' = AbstractNextId + 1
    BY <1>0, <2>2, <2>4, <2>5 DEF TypeOK
  <2>8. result' = [result EXCEPT ![t] = [kind |-> "schema", id |-> AbstractNextId]]
    BY <1>6, <2>2 DEF Store, Return
  <2>9. [u \in Threads |-> IF pc[u] = "idle" THEN "idle" ELSE "busy"]'
          = [[u \in Threads |-> IF pc[u] = "idle" THEN "idle" ELSE "busy"]
              EXCEPT ![t] = "idle"]
    BY <1>0, <1>6 DEF Store, Return, TypeOK
  <2>10. pc[t] # "idle" /\ key' = key
    BY <1>6 DEF Store
  <2> QED
    BY <2>5, <2>6, <2>7, <2>8, <2>9, <2>10 DEF Memo!Get, Absent, Memo!Absent
<1>7. CASE UNCHANGED vars
  BY <1>7 DEF vars, Memo!vars, AbstractNextId
<1> QED
  BY <1>1, <1>2, <1>3, <1>4, <1>5, <1>6, <1>7 DEF Next, Memo!Next

\* getCompiledSchema implements SchemaMemo: under the refinement mapping
\* every behaviour of the double-checked locking is one in which each call
\* takes effect atomically, a cached schema is never replaced, and a new
\* schema gets a fresh identity.
THEOREM Refinement == Spec => Memo!SafetySpec
<1>1. Spec => []RInv
  BY RInvHolds
<1> QED
  BY <1>1, MemoInit, MemoStep, PTL DEF Spec, Memo!SafetySpec
=============================================================================
