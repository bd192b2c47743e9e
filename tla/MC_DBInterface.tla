--------------------------- MODULE MC_DBInterface ---------------------------
(***************************************************************************)
(* Model-checking instance of DBInterface: the caller reads database d1,   *)
(* the producer writes d1 and d2 (the keyspace pattern covers both).       *)
(***************************************************************************)
EXTENDS DBInterface

CONSTANTS d1, d2, h1, h2, f1, f2, v1, empty, absent, strval

MC_DBs         == {d1, d2}
MC_Hashes      == {h1, h2}
MC_Fields      == {f1, f2}
MC_Values      == {v1, empty}
MC_KeyPatterns == {{h1}}
=============================================================================
