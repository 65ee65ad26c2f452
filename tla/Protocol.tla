----------------------------- MODULE Protocol -----------------------------
(***************************************************************************)
(* What the daemon answers to a frame and what a client makes of an answer *)
(* (src/src/main.rs, with the parser of src/src/json.rs).                  *)
(*                                                                         *)
(* A line is a sequence of pieces.  An id piece is the top-level "id" field*)
(* with a valid UUID, a message piece all the other fields of an envelope, *)
(* "pad" whitespace and "junk" what no JSON object contains.  A message    *)
(* "other" stands for every envelope the daemon calls malformed: a missing *)
(* version, a bad correlation_id, payload and error both or neither, an    *)
(* unknown kind, a handshake that is not complete.  An id that is no UUID  *)
(* is answered as a missing one is.                                        *)
(***************************************************************************)
EXTENDS Naturals, Sequences

CONSTANTS
  Ids,        \* ids of requests
  Fresh,      \* an id made by the process that answers
  None

Newline  == "newline"
NotUtf8  == "not UTF-8"
Messages == {"handshake", "health", "foreign", "other"}
Bytes    == Ids \cup Messages \cup {"pad", "junk", Newline, NotUtf8}

INSTANCE FrameReader

Responses == {"handshake.response", "health.response"}
Codes == {"protocol.malformed", "protocol.oversized", "protocol.unsupported_version",
          "authorization.peer_uid"}

(* A response line: its kind, its correlation_id and the code of an error. *)
Answer == [kind : Responses \cup {"error.response"}, correlation : Ids \cup {Fresh},
           code : Codes \cup {None}]

Success(kind, id) == [kind |-> kind, correlation |-> id, code |-> None]
Error(id, code)   == [kind |-> "error.response", correlation |-> id, code |-> code]

(* json::top_level_string_prefix: reads fields until it meets an id and    *)
(* stops at what it cannot parse.                                          *)
LeadingId(bytes, i) ==
  bytes[i] \in Ids /\ \A j \in 1 .. i - 1 : bytes[j] \notin Ids \cup {"junk"}

CorrelationPrefix(bytes) ==
  IF IsUtf8(bytes) /\ \E i \in DOMAIN bytes : LeadingId(bytes, i)
    THEN bytes[CHOOSE i \in DOMAIN bytes : LeadingId(bytes, i)]
    ELSE Fresh

FrameError(frame) ==
  Error(IF frame.kind \in {"oversized", "incomplete"} THEN CorrelationPrefix(frame.bytes)
                                                      ELSE Fresh,
        IF frame.kind = "oversized" THEN "protocol.oversized" ELSE "protocol.malformed")

(* json::envelope: one object whose top-level names are known and differ.  *)
AtMostOne(line, S) ==
  \A i, j \in DOMAIN line : line[i] \in S /\ line[j] \in S => i = j

Has(line, S) == \E i \in DOMAIN line : line[i] \in S

IsEnvelope(line) ==
  /\ Has(line, Ids \cup Messages) /\ ~Has(line, {"junk"})
  /\ AtMostOne(line, Ids) /\ AtMostOne(line, Messages)

(* handle_request, on a line that is UTF-8: its early returns in order.    *)
HandleRequest(line, handshaken) ==
  LET id == CorrelationPrefix(line)
  IN  IF ~IsEnvelope(line) \/ id = Fresh    THEN Error(id, "protocol.malformed")
      ELSE IF Has(line, {"foreign"})        THEN Error(id, "protocol.unsupported_version")
      ELSE IF Has(line, {"handshake"}) /\ ~handshaken
                                            THEN Success("handshake.response", id)
      ELSE IF Has(line, {"health"}) /\ handshaken
                                            THEN Success("health.response", id)
      ELSE Error(id, "protocol.malformed")

Respond(frame, handshaken) ==
  IF frame.kind = "complete" THEN HandleRequest(frame.bytes, handshaken) ELSE FrameError(frame)

-----------------------------------------------------------------------------
(* The clients; an answer of None is the empty string request returns when *)
(* the daemon closed the connection.                                       *)

HandshakeLine(id) == <<id, "handshake", Newline>>
HealthLine(id)    == <<id, "health", Newline>>

(* Faulty variant: a closed connection passes for the expected response.   *)
MatchesOrClosed(answer, kind, id) ==
  answer = None \/ (answer.kind = kind /\ answer.correlation = id)

(* response_matches                                                        *)
Matches(answer, kind, id) ==
  answer # None /\ answer.kind = kind /\ answer.correlation = id

(* response_error_code, or protocol.malformed                              *)
FailureCode(answer, id) ==
  IF answer # None /\ answer.kind = "error.response" /\ answer.correlation = id
    THEN answer.code ELSE "protocol.malformed"
=============================================================================
