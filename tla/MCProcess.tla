------------------------------ MODULE MCProcess ------------------------------
(* Process for TLC.                                                        *)
EXTENDS Process

\* main declares "test"; the parsers are written for more, so two further sets
\* add an option with a value, and one that names the file.
OptionOf(l, s, b, d, r) ==
  [long |-> l, short |-> s, boolean |-> b, default |-> d, required |-> r]
Test == OptionOf("test", "t", TRUE, "false", FALSE)
Port == OptionOf("SERVER_PORT", "p", FALSE, "", TRUE)
Config == OptionOf("config", NoName, FALSE, ".env", FALSE)
MCOptionSets == {{Test}, {Test, Port}, {Test, Config}}

Few == {Word("80"), Long("test"), Assigned("test", "false"), Short("p", NoValue), Assigned("p", "x")}
Many ==
  Few \cup {Dash, Short("t", "x"), Short("p", "80"), Long("SERVER_PORT"),
            Assigned("t", "1"), Long("config"), Long("")}
MCArgumentLists ==
  {<<>>} \cup {<<a>> : a \in Many} \cup {<<a, b>> : a, b \in Many}
  \cup {<<a, b, c>> : a, b, c \in Few}

\* In capitals or not; nothing else depends on the case.
MCUpper(k) ==
  IF k \in {"SERVER_HOST", "server_host"} THEN "SERVER_HOST"
  ELSE IF k \in {"SERVER_PORT", "server_port"} THEN "SERVER_PORT" ELSE "OTHER"

Setting(k, v) == [key |-> k, value |-> v]
Comment == Setting(NoName, "")
MCEnvFiles ==
  {<<Setting("SERVER_HOST", "h"), Setting("server_port", "80"), Setting("SERVER_PORT", "x")>>,
   <<Comment, Setting("server_host", "h"), Setting("SERVER_PORT", "x"), Setting("server_port", "80")>>,
   <<Setting("SERVER_PORT", "80"), Comment>>}
=============================================================================
