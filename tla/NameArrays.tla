----------------------------- MODULE NameArrays -----------------------------
(***************************************************************************)
(* How an array of names, the list of subscribers, gets to the database:   *)
(* fill_params_core writes it in the binary format, the server reads it.   *)
(***************************************************************************)
EXTENDS Integers, Sequences, SequencesExt

OidVarchar == 1043

Int32(n) == <<0, 0, n \div 256, n % 256>>

Names == SeqOf(SeqOf({97, 98}, 2), 3)

BinSize(names) == FoldLeft(LAMBDA size, name : size + 4 + Len(name), 5 * 4, names)

\* fill_params_core for pgsql_array.
Encode(names) ==
    Int32(1) \o Int32(0) \o Int32(OidVarchar) \o Int32(Len(names)) \o Int32(1)
        \o FlattenSeq([i \in DOMAIN names |-> Int32(Len(names[i])) \o names[i]])

\* array_recv of the server: dimensions, flags, type, length, lower bound, and
\* as many elements, which take all of the value.
RECURSIVE Elements(_, _)
Elements(data, n) ==
    IF n = 0 \/ Len(data) < 4 THEN data
    ELSE LET size == data[3] * 256 + data[4]
         IN  <<SubSeq(data, 5, 4 + size)>> \o Elements(SubSeq(data, 5 + size, Len(data)), n - 1)

Decode(data) ==
    IF SubSeq(data, 1, 12) = Int32(1) \o Int32(0) \o Int32(OidVarchar)
    THEN Elements(SubSeq(data, 21, Len(data)), data[15] * 256 + data[16])
    ELSE <<"error">>
=============================================================================
