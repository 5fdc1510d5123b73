------------------------------ MODULE Commands ------------------------------
(***************************************************************************)
(* From a chat message to the command it runs: channel_context's           *)
(* parse_message and get_user_access_level, the table of keywords of the    *)
(* command_factory and the two commands there are.                         *)
(***************************************************************************)
EXTENDS Integers, Sequences, SequencesExt, FiniteSetsExt, Bitwise

-----------------------------------------------------------------------------
(* The table of keywords.  A word is its letters and the positions of those *)
(* that are capitals.                                                       *)

Alphabet == "abcdefghijklmnopqrstuvwxyz"

Letter(s, i) == CHOOSE n \in 1 .. 26 : SubSeq(Alphabet, n, n) = SubSeq(s, i, i)

Code(w, i) == Letter(w.letters, i) + (IF i \in w.upper THEN 64 ELSE 96)

\* cstr_hash: FNV, of which the low bits choose the bucket.
Fnv(w, size) ==
    FoldLeft(LAMBDA val, i : ((val ^^ (Code(w, i) % size)) * (435 % size)) % size,
             8997 % size, [i \in 1 .. Len(w.letters) |-> i])

\* The smallest table of the library, which holds eight keywords.
Buckets == 8

\* Variant: a table of the size it gets for some twenty keywords.
LargerBucket(w) == Fnv(w, 64)

Bucket(w) == Fnv(w, Buckets)

\* register_commands
CommandOf ==
    [hello |-> "hello", songrequest |-> "songrequest", sr |-> "songrequest",
     requestsong |-> "songrequest", srq |-> "songrequest", ohgodohgodohgod |-> "songrequest"]

Keywords == {[letters |-> k, upper |-> {}] : k \in DOMAIN CommandOf}

\* create_command: cstr_equal ignores case, cstr_hash does not.
Find(w) == {k \in Keywords : k.letters = w.letters /\ Bucket(k) = Bucket(w)}

\* What people type: a keyword, or something else, in any run of capitals.
Typed == DOMAIN CommandOf \cup {"srr", "son"}

Words ==
    UNION {{[letters |-> s, upper |-> u] :
               u \in {a .. b : a, b \in 1 .. Len(s)} \cup {{1, Len(s)}}} : s \in Typed}

-----------------------------------------------------------------------------
(* Who may: the levels in their order. *)

Levels == <<"pleb", "regular", "subscriber", "moderator", "broadcaster", "dev">>

LevelOf(name) == CHOOSE i \in DOMAIN Levels : Levels[i] = name

Chatters ==
    [name : {"n1ghtsh0ck", "ashwinitv", "other"}, mod : BOOLEAN, sub : BOOLEAN,
     row : {"none", "plain", "regular", "subscribed", "unreachable"}]

\* sub_manager::is_regular, with subscribers.
IsRegular(u) == u.row \in {"regular", "subscribed"}

UserAccessLevel(u) ==
    CASE u.name = "n1ghtsh0ck" -> "dev"
      [] u.name = "ashwinitv"  -> "broadcaster"
      [] u.name = "other" /\ u.mod -> "moderator"
      [] u.name = "other" /\ ~u.mod /\ u.sub -> "subscriber"
      [] OTHER -> IF IsRegular(u) THEN "regular" ELSE "pleb"

RequiredAccess == [hello |-> "dev", songrequest |-> "pleb"]

AccessibleBy(command, level) == LevelOf(level) >= LevelOf(RequiredAccess[command])

-----------------------------------------------------------------------------
(* Messages: whether they begin with the prefix, their first word, and what *)
(* follows it, blanks and words.                                            *)

IgnorePlebs == FALSE

Tails == {<<>>, <<" ">>, <<" ", "link">>, <<" ", "on">>, <<" ", "off">>, <<" ", " ", "link">>,
          <<" ", "link", " ", "on">>}

\* Any word, and the words that are commands in any mouth.
Messages ==
    [prefixed : BOOLEAN, word : Words, tail : {<<>>, <<" ", "link">>},
     user : [name : {"n1ghtsh0ck", "other"}, mod : {FALSE}, sub : {FALSE}, row : {"none"}], enabled : {TRUE}]
    \cup [prefixed : {TRUE}, word : Keywords, tail : Tails, user : Chatters, enabled : BOOLEAN]

\* set_message_core: a word, or nothing, for each blank.
Args(m) ==
    LET blank == SetToSortSeq({i \in DOMAIN m.tail : m.tail[i] = " "}, <)
    IN  [k \in DOMAIN blank |->
            IF blank[k] < Len(m.tail) /\ m.tail[blank[k] + 1] # " " THEN m.tail[blank[k] + 1] ELSE ""]

\* songrequest_command::try_set_sr asks whether the broadcaster may use the
\* command, not whether its user is the broadcaster.
TrySetSr(state) ==
    IF AccessibleBy("songrequest", "broadcaster") THEN <<"toggle", state>> ELSE <<"nothing">>

ExecuteSongrequest(m) ==
    IF Args(m) = <<>> THEN (IF m.enabled THEN <<"usage">> ELSE <<"disabled">>)
    ELSE IF Args(m)[1] \in {"on", "off"} THEN TrySetSr(Args(m)[1])
    ELSE <<"request", Args(m)[1]>>

ExecuteHello == <<"hello">>

\* parse_message and process_message_core.
Effect(m) ==
    LET level == UserAccessLevel(m.user)
        found == Find(m.word)
        command == CommandOf[m.word.letters]
    IN  IF \/ ~m.prefixed
           \/ level = "pleb" /\ IgnorePlebs
           \/ found = {}
           \/ ~AccessibleBy(command, level)
        THEN <<"nothing">>
        ELSE IF command = "hello" THEN ExecuteHello ELSE ExecuteSongrequest(m)
=============================================================================
