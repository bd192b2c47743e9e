-------------------------- MODULE MC_ConfigDBListen --------------------------
EXTENDS ConfigDBListen

CONSTANTS t1, t2, r1, r2, v1, v2, absent, empty, other, none

MC_Tables == {t1, t2}
MC_Rows   == {r1}
MC_Values == {v1, v2}
=============================================================================
