---------------------------- MODULE Conversions ----------------------------
(***************************************************************************)
(* What the program makes of single inputs, one input at a time: a line of *)
(* the chat (LineTypes) and its tags (Tags), a message that may be a       *)
(* command (Commands), names on their way to the database (NameArrays),    *)
(* and the inputs of Inputs.                                               *)
(***************************************************************************)
EXTENDS Inputs, LineTypes, Tags, Commands, NameArrays

ReadLine    == Given("line", Lines)
ReadTags    == Given("author", Authors)
ReadMessage == Given("message", Messages)
PassNames   == Given("names", Names)

Next == InputNext \/ ReadLine \/ ReadTags \/ ReadMessage \/ PassNames

Spec == Init /\ [][Next]_input

-----------------------------------------------------------------------------
(* Lines. *)

\* "don't just arbitrarily change order of these or you will break message
\* dispatch": the table of handlers, the enumeration and the array of codes are
\* three lists kept in step by hand.  Each command of Twitch and each notice of
\* the channel is handled by its own entry, PINGs and nothing else are answered,
\* only messages reach the commands and all those do in which no word stands for
\* a command of Twitch (nothing is said of the others), and the code of a reply
\* is recognised when there is such a reply_code and only then.
HandledAsSent ==
    Is("line") =>
        LET line == input.value
            type == MessageType(line)
        IN  /\ type \in ToSet(Handlers) => Dispatch(type) = type
            /\ \A i \in DOMAIN TwitchWords :
                  line.command = TwitchWords[i] => Dispatch(type) = TwitchTypes[i]
            /\ line.command = "NOTICE" /\ line.target = "channel" => Dispatch(type) = "channel_notice"
            /\ Dispatch(type) = "PONG" <=> line.command = "PING"
            /\ Dispatch(type) = "process_message" => line.command = "PRIVMSG"
            /\ line.command = "PRIVMSG" /\ line.words = {} => Dispatch(type) = "process_message"
            /\ line.command = "reply" => (Recognised(line.code) <=> line.code \in ReplyCode)

-----------------------------------------------------------------------------
(* Texts that one program writes and another one reads. *)

\* What Twitch says of the author of a message in its tags, with every character
\* escaped that needs it, is what the bot knows of the user afterwards.
TagsRead ==
    Is("author") =>
        \A sign \in BOOLEAN : UserOf(ParseTags(TagLine(TagsOf(input.value), sign))) = input.value

\* The server finds in an array the names that were put there, in the length that
\* was computed for it.
NamesArrive ==
    Is("names") =>
        /\ Decode(Encode(input.value)) = input.value
        /\ BinSize(input.value) = Len(Encode(input.value))

\* What is encoded is decoded as it was: tags by the bot, arrays by the server.
ReadAsWritten == TagsRead /\ NamesArrive

-----------------------------------------------------------------------------
(* Commands. *)

\* A message runs a command exactly if it begins with the prefix and one of the
\* keywords in capitals or not, whatever follows, and its author has the level
\* the command is for.  (Equality in the table ignores case, the hash does not:
\* that both spellings meet in one bucket depends on the size of the table.)
CommandRun ==
    Is("message") =>
        LET m == input.value
        IN  Effect(m) # <<"nothing">> <=>
                /\ m.prefixed
                /\ m.word.letters \in DOMAIN CommandOf
                /\ CommandOf[m.word.letters] = "hello" => m.user.name = "n1ghtsh0ck"

\* try_set_sr: "AshBotCommandAccessCheck(user_access_level::broadcaster)".
\* The code does not keep this: everybody may switch song requests on and off.
OnlyBroadcasterToggles ==
    Is("message") =>
        (Effect(input.value)[1] = "toggle" =>
            UserAccessLevel(input.value.user) \in {"broadcaster", "dev"})

\* The first word after the command is its argument.
\* The code does not keep this: between two blanks it finds an empty argument.
FirstWordIsArgument ==
    Is("message") => (Effect(input.value)[1] = "request" => Effect(input.value)[2] # "")
=============================================================================
