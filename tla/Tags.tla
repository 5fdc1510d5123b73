-------------------------------- MODULE Tags --------------------------------
(***************************************************************************)
(* The tags of a line and what the user of a message learns from them:     *)
(* parse_tags, unescape_tag_string, update_user.  A text is a sequence of  *)
(* characters; a key counts as one.                                        *)
(***************************************************************************)
EXTENDS Integers, Sequences, SequencesExt

Escaped == {"\\", ";", " ", "CR", "LF"}

Authors ==
    [name : SeqOf({"1", "s", ":", "="} \cup Escaped, 3), mod : BOOLEAN, sub : BOOLEAN, id : {0, 1}]

-----------------------------------------------------------------------------
(* How Twitch writes them: IRCv3. *)

Escape(c) ==
    CASE c = "\\" -> <<"\\", "\\">>
      [] c = ";"  -> <<"\\", ":">>
      [] c = " "  -> <<"\\", "s">>
      [] c = "CR" -> <<"\\", "r">>
      [] c = "LF" -> <<"\\", "n">>
      [] OTHER    -> <<c>>

Flag(b) == IF b THEN <<"1">> ELSE <<"0">>

\* A user without an id has no such tag.
TagsOf(u) ==
    <<[key |-> "display-name", value |-> u.name], [key |-> "mod", value |-> Flag(u.mod)]>>
    \o (IF u.id = 0 THEN <<>> ELSE <<[key |-> "user-id", value |-> <<"1">>]>>)
    \o <<[key |-> "sub", value |-> Flag(u.sub)]>>

\* An empty value may be written with or without the sign.
WriteTag(t, sign) ==
    <<t.key>> \o (IF sign \/ t.value # <<>> THEN <<"=">> ELSE <<>>)
              \o FlattenSeq([i \in DOMAIN t.value |-> Escape(t.value[i])])

TagLine(tags, sign) ==
    <<"@">> \o FlattenSeq([i \in DOMAIN tags |-> (IF i > 1 THEN <<";">> ELSE <<>>) \o WriteTag(tags[i], sign)])
            \o <<" ", ":", "nick">>

-----------------------------------------------------------------------------
(* The program. *)

\* strpbrk: the first of the characters, from a position on.
Strpbrk(line, from, chars) ==
    CHOOSE i \in from .. Len(line) : line[i] \in chars /\ \A j \in from .. i - 1 : line[j] \notin chars

Replacement(c) ==
    CASE c = ":" -> <<";">>
      [] c = "s" -> <<" ">>
      [] c = "\\" -> <<"\\">>
      [] c = "r" -> <<"CR">>
      [] c = "n" -> <<"LF">>
      [] OTHER   -> <<>>

\* Variant: each pair of characters is looked for on its own.
RECURSIVE UnescapeOverlapping(_)
UnescapeOverlapping(s) ==
    IF Len(s) < 2 THEN s
    ELSE IF s[1] = "\\" THEN Replacement(s[2]) \o UnescapeOverlapping(Tail(s))
    ELSE <<s[1]>> \o UnescapeOverlapping(Tail(s))

RECURSIVE UnescapeRest(_)
UnescapeRest(s) ==
    IF s = <<>> THEN <<>>
    ELSE IF s[1] # "\\" THEN <<s[1]>> \o UnescapeRest(Tail(s))
    ELSE IF Len(s) = 1 THEN <<>> ELSE Replacement(s[2]) \o UnescapeRest(SubSeq(s, 3, Len(s)))

\* unescape_tag_string: what follows a backslash is always taken with it.
Unescape(s) == UnescapeRest(s)

\* The loop of parse_tags from a position on, up to the start of the message.
RECURSIVE TagsFrom(_, _, _)
TagsFrom(line, from, start) ==
    IF from = start THEN <<>>
    ELSE LET k == Strpbrk(line, from, {"=", ";", " "})
             v == Strpbrk(line, k + 1, {";", " "})
             key == Unescape(SubSeq(line, from, k - 1))
         IN  IF line[k] # "=" THEN <<[key |-> key[1], value |-> <<>>]>> \o TagsFrom(line, k + 1, start)
             ELSE <<[key |-> key[1], value |-> Unescape(SubSeq(line, k + 1, v - 1))]>>
                      \o TagsFrom(line, v + 1, start)

ParseTags(line) == TagsFrom(line, 2, Strpbrk(line, 1, {" "}) + 1)

Tagged(tags, key) == {tags[i].value : i \in {j \in DOMAIN tags : tags[j].key = key}}

\* twitch_user::set
Set(id, name, mod, sub) == [id |-> id, name |-> name, mod |-> mod, sub |-> sub]

\* update_user
UserOf(tags) ==
    Set(IF Tagged(tags, "user-id") = {} THEN 0 ELSE 1,
        IF Tagged(tags, "display-name") = {} THEN <<>> ELSE CHOOSE v \in Tagged(tags, "display-name") : TRUE,
        Tagged(tags, "mod") = {<<"1">>},
        Tagged(tags, "sub") = {<<"1">>})
=============================================================================
