-------------------------- MODULE MC_ConfigDBStore --------------------------
EXTENDS ConfigDBStore

CONSTANT none

\* Two tables, one given in lower case; a plain and a two-part key.
MC_Upper(c) == IF c = "p" THEN "P" ELSE c
MC_Tables   == {<<"p">>, <<"Q">>}
MC_Keys     == {[str |-> <<"a">>], [tuple |-> <<<<"a">>, <<"b">>>>]}

x  == <<"x">>
y  == <<"y">>
\* Rows that follow the schema: column c scalar, column l a non-empty list.
MC_Data ==
    { NoColumns,
      <<"c">> :> Str(x),
      (<<"c">> :> Str(y)) @@ (<<"l">> :> List(<<x, y>>)),
      <<"l">> :> List(<<x>>) }

=============================================================================
