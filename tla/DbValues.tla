------------------------------ MODULE DbValues ------------------------------
(***************************************************************************)
(* How values get to the database and back, in the binary format: the      *)
(* conversions of db.h and the columns and variables they are used with;   *)
(* NameArrays has the arrays.                                              *)
(* An integer is its bytes, the most significant first, which is also how  *)
(* the server sends it; the memory of the program has the least            *)
(* significant first.                                                      *)
(***************************************************************************)
EXTENDS Integers, Sequences, SequencesExt

CONSTANTS
    ByteValues,     \* the values of a byte; bound: two of them tell the places apart
    BufferSize,     \* ASHBOT_STRING_BUFFER_SIZE, 2048; bound: a few characters
    OptionSize,     \* of the arrays of load_config, 32; bound: fewer
    MaxTextLength   \* bound: the longest text, longer than the buffer

ASSUME BufferAssumption ==
    /\ BufferSize \in Nat \ {0} /\ MaxTextLength \in Nat
    /\ OptionSize \in 1 .. BufferSize

\* The widths of the columns, and of what COUNT returns.
Width ==
    [songId |-> 8, source |-> 2, length |-> 2, banned |-> 1, banOnRequest |-> 1, banLength |-> 4,
     requestId |-> 8, position |-> 8, userId |-> 8, limit |-> 2, tokenType |-> 2, optionId |-> 2,
     count |-> 8]

\* The variables they are read into.
ReadInto ==
    [songId |-> 8, source |-> 2, length |-> 2, banned |-> 1, banOnRequest |-> 1, banLength |-> 4,
     requestId |-> 8, position |-> 8, userId |-> 8, limit |-> 2, tokenType |-> 2, count |-> 4]

\* The arguments of query that stand for them.
SentFrom ==
    [songId |-> 8, source |-> 2, length |-> 2, banned |-> 1, banOnRequest |-> 1, banLength |-> 4,
     requestId |-> 8, position |-> 8, userId |-> 8, optionId |-> 2]

Bytes(width) == [1 .. width -> ByteValues]

IntegerValues == [column : DOMAIN Width, value : UNION {Bytes(w) : w \in {1, 2, 4, 8}}]

-----------------------------------------------------------------------------
(* Integers. *)

\* A variable of a width at an address: little-endian.
Load(memory, width)  == Reverse(SubSeq(memory, 1, width))
Store(value)         == Reverse(value)

\* ntohll, ntohl, ntohs, and the same bytes for a single one.
Swap(value) == IF Len(value) \in {2, 4, 8} THEN Reverse(value) ELSE value

\* read_column
Read(column, data) == Swap(Load(data, ReadInto[column]))

\* Variant: the argument itself is converted, and stays so.
KeptByReference(value) == Swap(value)

\* unref_integrals: fill_params_core converts a copy, the argument stays.
Kept(value) == value

\* What two calls of query with one variable send.
Sent(value)      == Store(Swap(value))
SentAgain(value) == Store(Swap(Kept(value)))

\* The columns of songs, which are selected all, and those that fill_song reads,
\* counted from 0.
SongColumns == <<"songId", "source", "name", "link", "trackId", "length", "banned", "banOnRequest", "banLength">>

FillSong == [songId |-> 0, name |-> 2, length |-> 5, banned |-> 6, banOnRequest |-> 7, banLength |-> 8]

-----------------------------------------------------------------------------
(* Text: read_column into a buffer, and from it into a string.  The buffer    *)
(* is a pointer, and taken to have BufferSize bytes; the options of the song *)
(* requests are read into smaller ones.                                     *)

TextValues == SeqOf({97}, MaxTextLength)

ReadText(text) == SubSeq(text, 1, IF Len(text) < BufferSize - 1 THEN Len(text) ELSE BufferSize - 1)

\* The text and its terminator stay inside of an array.
StaysIn(size, text) == Len(ReadText(text)) + 1 <= size
=============================================================================
