----------------------------- MODULE LineTypes -----------------------------
(***************************************************************************)
(* How a line is classified and what is done with it: get_message_type and *)
(* dispatch_message of irc_client and of twitch_irc_client.  A line is the *)
(* command it stands for, the code of a reply, its target, the commands of *)
(* Twitch that occur as words in its text, and its CTCP quoting.           *)
(***************************************************************************)
EXTENDS Integers, Sequences, SequencesExt

\* The words twitch_irc_client looks for anywhere in the line, in this order,
\* and the types they stand for.
TwitchWords == <<"HOSTTARGET", "CLEARCHAT", "USERSTATE", "RECONNECT", "ROOMSTATE", "USERNOTICE">>

TwitchTypes == <<"hosttarget", "clearchat", "userstate", "reconnect", "roomstate", "usernotice">>

Commands == {"reply", "PRIVMSG", "NOTICE", "JOIN", "PART", "NICK", "PING", "ERROR", "CAP ACK", "GLOBALUSERSTATE"}
            \cup ToSet(TwitchWords)

\* People choose the text of messages only.
Lines ==
    [command : Commands \ {"reply", "PRIVMSG", "NOTICE"}, code : {0}, target : {"channel"},
     words : {{}}, ctcp : {"no"}]
    \cup [command : {"reply"}, code : 0 .. 999, target : {"user"}, words : {{}}, ctcp : {"no"}]
    \cup [command : {"NOTICE"}, code : {0}, target : {"channel", "user"}, words : {{}}, ctcp : {"no", "other"}]
    \cup [command : {"PRIVMSG"}, code : {0}, target : {"channel", "user"},
          words : SUBSET ToSet(TwitchWords), ctcp : {"no", "ACTION", "other"}]

-----------------------------------------------------------------------------
(* The codes of replies: the enumeration reply_code, and the array in which  *)
(* a code is looked for before it is taken for one of them.                  *)

ReplyCode ==
    UNION {0 .. 5, 200 .. 212, {219, 221}, 234 .. 235, 242 .. 243, 251 .. 259, 261 .. 263, 301 .. 303, 305 .. 306,
           311 .. 315, 317 .. 319, 321 .. 325, 331 .. 332, 341 .. 342, 346 .. 349, 351 .. 353, 364 .. 369, 371 .. 372,
           374 .. 376, 381 .. 383, 391 .. 395, 401 .. 409, 411 .. 415, 421 .. 424, 431 .. 433, 436 .. 437, 441 .. 446,
           {451}, 461 .. 467, 471 .. 478, 481 .. 485, {491}, 501 .. 502}

ArraySize == 138

\* Runs of codes, in the order of the array.
Runs ==
    <<<<0, 5>>, <<200, 212>>, <<219, 219>>, <<221, 221>>, <<234, 235>>, <<242, 243>>, <<251, 259>>, <<261, 263>>,
      <<301, 303>>, <<305, 306>>, <<311, 315>>, <<317, 319>>, <<321, 325>>, <<331, 332>>, <<341, 342>>, <<346, 349>>,
      <<351, 353>>, <<364, 369>>, <<371, 372>>, <<374, 376>>, <<381, 383>>, <<391, 395>>, <<401, 409>>, <<411, 415>>,
      <<421, 424>>, <<431, 433>>, <<436, 437>>, <<441, 446>>, <<451, 451>>, <<461, 467>>, <<471, 478>>, <<481, 485>>,
      <<491, 491>>, <<501, 502>>>>

RunsToArray(runs) ==
    LET codes == FlattenSeq([i \in DOMAIN runs |->
                     [j \in 1 .. runs[i][2] - runs[i][1] + 1 |-> runs[i][1] + j - 1]])
    IN  codes \o [i \in 1 .. ArraySize - Len(codes) |-> 0]

IrcReplyCodes == RunsToArray(Runs)

\* std::binary_search: halves of what is left, as for a sorted array.
RECURSIVE Search(_, _, _)
Search(first, count, code) ==
    IF count = 0 THEN first <= ArraySize /\ IrcReplyCodes[first] <= code
    ELSE LET step == count \div 2
         IN  IF IrcReplyCodes[first + step] < code THEN Search(first + step + 1, count - step - 1, code)
             ELSE Search(first, step, code)

Recognised(code) == Search(1, ArraySize, code)

\* ReceiveTypeMap
TypesOfCodes ==
    [login |-> 1 .. 5 \cup {254, 255}, info |-> 251 .. 253, motd |-> {372, 375, 376}, name |-> {353, 366},
     who |-> {315, 352}, list |-> 321 .. 323, ban_list |-> {367, 368}, topic |-> {331, 332},
     who_is |-> 311 .. 313 \cup 317 .. 319, who_was |-> {314, 369}, user_mode |-> {221}, channel_mode |-> {324}]

-----------------------------------------------------------------------------
(* irc_client::get_message_type: the patterns in the order they are tried. *)

ReplyType(code) ==
    IF ~Recognised(code) THEN "unknown"
    ELSE IF code \in 400 .. 599 THEN "error_message"
    ELSE LET types == {t \in DOMAIN TypesOfCodes : code \in TypesOfCodes[t]}
         IN  IF types = {} THEN "unknown" ELSE CHOOSE t \in types : TRUE

\* The pattern of actions and that of CTCP requests are tried after the one of
\* messages, and that of CTCP replies after the one of notices: those before
\* them match whatever these would.
IrcType(l) ==
    CASE l.command = "reply"   -> ReplyType(l.code)
      [] l.command = "PRIVMSG" -> IF l.target = "channel" THEN "channel_message" ELSE "query_message"
      [] l.command = "JOIN"    -> "join"
      [] l.command = "PART"    -> "part"
      [] l.command = "NOTICE"  -> IF l.target = "channel" THEN "channel_notice" ELSE "query_notice"
      [] l.command = "PING"    -> "ping"
      [] l.command = "ERROR"   -> "error"
      [] l.command = "CAP ACK" -> "cap_ack"
      [] l.command = "NICK"    -> "nick_change"
      [] OTHER                 -> "unknown"

\* Words that strstr finds: as the command, but also in what people write;
\* USERSTATE is a part of GLOBALUSERSTATE as well.
Found(l) ==
    {i \in DOMAIN TwitchWords :
        \/ TwitchWords[i] \in l.words \cup {l.command}
        \/ TwitchWords[i] = "USERSTATE" /\ l.command = "GLOBALUSERSTATE"}

\* twitch_irc_client::get_message_type
MessageType(l) ==
    IF Found(l) = {} THEN IrcType(l)
    ELSE TwitchTypes[CHOOSE i \in Found(l) : \A j \in Found(l) : i <= j]

-----------------------------------------------------------------------------
(* dispatch_message. *)

\* Variant: two types of the enumeration are swapped.
TypeOrderSwapped ==
    <<"ping", "cap_ack", "channel_notice", "hosttarget", "clearchat", "userstate",
      "reconnect", "usernotice", "roomstate", "unknown">>

\* The end of the enumeration receive_type.
TypeOrder ==
    <<"ping", "cap_ack", "channel_notice", "hosttarget", "clearchat", "userstate",
      "reconnect", "roomstate", "usernotice", "unknown">>

Position(t) == SelectInSeq(TypeOrder, LAMBDA x : x = t)

\* The table of twitch_irc_client's handlers, by the types they are for.
Handlers == <<"channel_notice", "hosttarget", "clearchat", "userstate", "reconnect",
              "roomstate", "usernotice">>

IrcDispatch(t) ==
    CASE t = "ping" -> "PONG"
      [] t = "error" -> "log"
      [] t \in {"channel_message", "query_message"} -> "process_message"
      [] OTHER -> "nothing"

Dispatch(t) ==
    IF Position(t) >= Position("channel_notice") /\ Position(t) <= Position("usernotice")
    THEN Handlers[Position(t) - Position("channel_notice") + 1]
    ELSE IrcDispatch(t)
=============================================================================
