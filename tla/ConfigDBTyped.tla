---------------------------- MODULE ConfigDBTyped ----------------------------
(***************************************************************************)
(* The pure conversions of ConfigDBConnector (swsssdk/configdb.py):        *)
(* composite keys (serialize_key / deserialize_key), the hash name a       *)
(* table entry is stored under, and the typed <-> raw row encoding         *)
(* (__typed_to_raw / __raw_to_typed).                                      *)
(*                                                                         *)
(* A string is a sequence of characters.  The characters the code looks at *)
(* are "|" (TABLE_NAME_SEPARATOR = KEY_SEPARATOR), "," (list join) and "@" *)
(* (list marker); the placeholder column name "NULL" is kept as one token. *)
(* A typed value is [str |-> s] or [list |-> <<s1, ...>>]; a typed row is  *)
(* a function from column names to typed values, a raw row one from column *)
(* names to strings, as the Redis hash holds them.                         *)
(***************************************************************************)
EXTENDS Naturals, Sequences, SequencesExt

CONSTANTS
    Upper(_),   \* str.upper() on one character
    None        \* Python None

Sep    == "|"
Comma  == ","
Marker == "@"
NULL   == <<"NULL">>

Str(s)  == [str |-> s]
List(l) == [list |-> l]
IsList(v) == "list" \in DOMAIN v

NoColumns == [c \in {} |-> None]    \* the empty dict

(***************************************************************************)
(* str.split(c): the pieces between the occurrences of c; "" gives <<"">>. *)
(***************************************************************************)
RECURSIVE Split(_, _)
Split(s, c) ==
    IF s = <<>> THEN << <<>> >>
    ELSE LET rest == Split(Tail(s), c) IN
         IF Head(s) = c THEN << <<>> >> \o rest
         ELSE << <<Head(s)>> \o Head(rest) >> \o Tail(rest)

\* c.join(parts)
RECURSIVE Join(_, _)
Join(parts, c) ==
    CASE Len(parts) = 0 -> <<>>
      [] Len(parts) = 1 -> parts[1]
      [] OTHER          -> parts[1] \o <<c>> \o Join(Tail(parts), c)

UpperStr(s) == [i \in DOMAIN s |-> Upper(s[i])]

\* serialize_key: a tuple is joined with KEY_SEPARATOR, a string is kept.
serialize_key(key) == IF "tuple" \in DOMAIN key THEN Join(key.tuple, Sep) ELSE key.str

\* Bug variant: a tuple whenever the split gives a token.
DeserializeKeyAnyToken(s) ==
    LET tokens == Split(s, Sep) IN
    IF Len(tokens) > 0 THEN [tuple |-> tokens] ELSE [str |-> s]

\* deserialize_key: a tuple when the split gives more than one token.
deserialize_key(s) ==
    LET tokens == Split(s, Sep) IN
    IF Len(tokens) > 1 THEN [tuple |-> tokens] ELSE [str |-> s]

\* '{}{}{}'.format(table.upper(), TABLE_NAME_SEPARATOR, key)
HashName(table, key) == UpperStr(table) \o <<Sep>> \o serialize_key(key)

\* key.split(TABLE_NAME_SEPARATOR, 1): the pair, or None for ValueError.
SplitTableKey(s) ==
    IF Contains(s, Sep)
    THEN LET i == SelectInSeq(s, LAMBDA x : x = Sep) IN
         <<SubSeq(s, 1, i - 1), SubSeq(s, i + 1, Len(s))>>
    ELSE None

(***************************************************************************)
(* __typed_to_raw: None stays None, {} becomes {"NULL": "NULL"}; a list    *)
(* column c is stored as c + "@" holding its comma-joined items.  Two      *)
(* typed columns with the same raw name are outside the domain (which      *)
(* would win depends on dict iteration order).                            *)
(***************************************************************************)
RawName(c, v) == IF IsList(v) THEN c \o <<Marker>> ELSE c
RawValue(v)   == IF IsList(v) THEN Join(v.list, Comma) ELSE v.str

\* The columns of a non-empty typed row.
RawColumns(typed) ==
    [r \in {RawName(c, typed[c]) : c \in DOMAIN typed} |->
        RawValue(typed[CHOOSE c \in DOMAIN typed : RawName(c, typed[c]) = r])]

\* Bug variant: no placeholder column for the empty row.
TypedToRawNoPlaceholder(typed) ==
    IF typed = None THEN None ELSE RawColumns(typed)

__typed_to_raw(typed) ==
    CASE typed = None      -> None
      [] typed = NoColumns -> NULL :> NULL
      [] OTHER             -> RawColumns(typed)

(***************************************************************************)
(* __raw_to_typed: the "NULL" column is dropped; a column ending in "@"    *)
(* becomes the list column without the marker, split on ",".  Raw columns  *)
(* "c" and "c@" both write typed column c, in dict iteration order, which  *)
(* the code leaves unspecified: the operator gives the set of results.    *)
(***************************************************************************)
IsMarked(r)  == r # <<>> /\ Last(r) = Marker
TypedName(r) == IF IsMarked(r) THEN Front(r) ELSE r
Decode(raw, r) == IF IsMarked(r) THEN List(Split(raw[r], Comma)) ELSE Str(raw[r])

__raw_to_typed(raw) ==
    IF raw = None THEN {None}
    ELSE LET cols  == DOMAIN raw \ {NULL}
             names == {TypedName(r) : r \in cols}
             Cands(n) == {Decode(raw, r) : r \in {r \in cols : TypedName(r) = n}}
         IN {t \in [names -> UNION {Cands(n) : n \in names}] :
                \A n \in names : t[n] \in Cands(n)}
=============================================================================
