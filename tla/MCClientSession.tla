-------------------------- MODULE MCClientSession --------------------------
(* Small instances of ClientSession: lines of one to six pieces, limits of *)
(* three and four.                                                         *)
EXTENDS ClientSession

CONSTANTS r1, r2

(* Option values: "4" pieces stands for the default line limit.            *)
MCDefault == [o \in Options |-> CASE o = "log_level" -> "info"
                                  [] o = "shutdown_timeout_seconds" -> "10"
                                  [] o = "jsonl_max_line_bytes" -> "4"]
MCAllowed == [o \in Options |-> CASE o = "log_level" -> {"info", "debug"}
                                  [] o = "shutdown_timeout_seconds" -> {"10"}
                                  [] o = "jsonl_max_line_bytes" -> {"3", "4"}]
MCSize == [v \in {"3", "4", "9"} |-> CASE v = "3" -> 3 [] v = "4" -> 4 [] v = "9" -> 9]

Entry(k, v) == [key |-> k, value |-> v]
Version     == Entry("config_version", "1")
Line(v)     == Entry("jsonl_max_line_bytes", v)

UserFiles ==
  {Absent, Unreadable, <<>>, <<Version>>, <<Version, Line("3")>>, <<Line("9"), Version>>,
   <<Line("3"), Entry("config_version", "2")>>, <<Version, Line("3"), Line("4")>>,
   <<Version, Entry("secret", "garbled"), Entry("unknown", "3")>>,
   <<Version, Entry("log_level", "loud")>>, <<Version, Line("garbled")>>,
   <<Entry("no value", "garbled")>>, <<Version, Version>>, <<Entry("unknown", "3"), Version>>}

ProjectFiles == {Absent, <<Version, Line("3")>>, <<Version, Line("4")>>, <<Line("4")>>}

Environments ==
  {Unset} \cup {[Unset EXCEPT !["jsonl_max_line_bytes"] = v] : v \in {"3", "4", "9"}}

CommandLines ==
  {<<>>, <<"run">>, <<"version", "tui">>, <<"--log-level">>, <<"--log-level", "--jsonl">>,
   <<"--other", "3", "tui">>, <<"version">>, <<"--log-level", "loud", "version">>,
   <<"doctor">>, <<"tui">>, <<"run", "--jsonl">>,
   <<"--jsonl-max-line-bytes", "3", "run", "--jsonl">>,
   <<"--jsonl-max-line-bytes", "9", "--jsonl-max-line-bytes", "4", "run", "--jsonl">>,
   <<"--jsonl-max-line-bytes", "9", "doctor">>}

MCCommands == [args : CommandLines, user : UserFiles, project : ProjectFiles,
               env : Environments]

(* A handshake; a health request, as long as the smaller limit and longer; *)
(* one that hides a request behind what is cut off; a line that is no text.*)
Opening == <<r1, "handshake", Newline>>
Typical ==
  {Opening, <<r2, "health", Newline>>, <<r2, "pad", "health", Newline>>,
   <<"pad", "pad", "pad", "pad", r2, "health", Newline>>, <<NotUtf8, Newline>>}
Rests == {<<r1>>, <<NotUtf8>>, <<r1, "pad", "pad", "pad", NotUtf8>>}

MCScripts ==
  {<<>>} \cup Rests
  \cup {a \o b \o c : a \in {<<>>, Opening}, b, c \in Typical}
  \cup {b \o rest : b \in Typical, rest \in Rests}
  \cup {<<r1, "foreign", Newline>>, <<Newline>>, <<r1, r2, Newline>>, <<"handshake", Newline>>,
        <<r1, "other", Newline>>}
=============================================================================
