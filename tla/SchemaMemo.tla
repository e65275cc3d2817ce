----------------------------- MODULE SchemaMemo -----------------------------
(***************************************************************************)
(* What getCompiledSchema promises its callers, with the locks left out.   *)
(* A call takes effect in one atomic step: it returns the schema cached    *)
(* for its key; if none is cached, errSchemaKeyNotFound for a key without  *)
(* a schema file, and otherwise either a compile error (nothing cached) or *)
(* a newly compiled schema, which is cached from then on.  A cached schema *)
(* is never replaced, so every caller of a key gets the same schema.       *)
(* A newly compiled schema has the fresh identity nextId.                  *)
(***************************************************************************)
EXTENDS Naturals

CONSTANTS Threads, Keys, Files

Absent == 0

Results == [kind : {"none", "schema", "notFound", "compileErr"}, id : Nat]
NoResult == [kind |-> "none", id |-> 0]

VARIABLES
    cache,   \* key -> schema, Absent if none
    pc,      \* "idle", or "busy" inside a call
    key,     \* the key of the current call
    result,  \* what the last call returned
    nextId   \* identity of the next schema compiled

vars == <<cache, pc, key, result, nextId>>

Init ==
    /\ cache = [k \in Keys |-> Absent]
    /\ pc = [t \in Threads |-> "idle"]
    /\ key \in [Threads -> Keys]
    /\ result = [t \in Threads |-> NoResult]
    /\ nextId = 1

Call(t) ==
    /\ pc[t] = "idle"
    /\ \E k \in Keys : key' = [key EXCEPT ![t] = k]
    /\ result' = [result EXCEPT ![t] = NoResult]
    /\ pc' = [pc EXCEPT ![t] = "busy"]
    /\ UNCHANGED <<cache, nextId>>

Get(t) ==
    LET k == key[t]
        Reply(kind, id) == result' = [result EXCEPT ![t] = [kind |-> kind, id |-> id]]
    IN
    /\ pc[t] = "busy"
    /\ pc' = [pc EXCEPT ![t] = "idle"]
    /\ \/ cache[k] # Absent /\ Reply("schema", cache[k]) /\ UNCHANGED <<cache, nextId>>
       \/ /\ cache[k] = Absent /\ k \notin Files
          /\ Reply("notFound", 0) /\ UNCHANGED <<cache, nextId>>
       \/ /\ cache[k] = Absent /\ k \in Files
          /\ Reply("compileErr", 0) /\ UNCHANGED <<cache, nextId>>
       \/ /\ cache[k] = Absent /\ k \in Files
          /\ cache' = [cache EXCEPT ![k] = nextId]
          /\ nextId' = nextId + 1
          /\ Reply("schema", nextId)
    /\ UNCHANGED key

Next == \E t \in Threads : Call(t) \/ Get(t)

SafetySpec == Init /\ [][Next]_vars

\* Every call returns.
Spec == SafetySpec /\ \A t \in Threads : WF_vars(Get(t))
=============================================================================
