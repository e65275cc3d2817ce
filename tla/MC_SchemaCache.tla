--------------------------- MODULE MC_SchemaCache ---------------------------
(* Three goroutines, three keys of which two have a schema file.            *)
EXTENDS SchemaCache

MCThreads == {"t1", "t2", "t3"}
MCKeys == {"k1", "k2", "k3"}
MCFiles == {"k1", "k2"}
=============================================================================
