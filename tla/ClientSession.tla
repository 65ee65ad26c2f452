--------------------------- MODULE ClientSession ---------------------------
(***************************************************************************)
(* One client process and its connection to the daemon (src/src/main.rs):  *)
(* the command line and configuration it starts with, doctor, tui and      *)
(* run --jsonl, the bytes on the socket, the handler thread (handle_client)*)
(* that reads them, and a daemon that may be signalled or die at any step. *)
(* A client "other" is any program of the user: it writes what it likes    *)
(* and does not wait for answers.                                          *)
(*                                                                         *)
(* Abstractions.  What a client reads from its user is fixed when it starts*)
(* to read, as a read waits for it.  How the daemon comes to listen and how it      *)
(* leaves is module DaemonLifecycle; here a signal is noted, the listener  *)
(* is dropped, the socket file removed and the process ends, and an exit   *)
(* that waits for no thread (a second signal, the deadline, SIGKILL) is    *)
(* Die.  Directory and socket node are as runtime::probe finds them: safe  *)
(* or not for the whole session.                                           *)
(***************************************************************************)
EXTENDS Protocol, Configuration, FiniteSets

CONSTANTS
  Commands,      \* command lines with the configuration around them
  Scripts,       \* what the user types or another program sends
  HandshakeId,   \* ids of the requests doctor and tui make
  HealthId,
  Size,          \* a line limit as a number of pieces
  DaemonLimit    \* the daemon's line limit

ASSUME CommandsAreClients ==
  /\ \A c \in Commands : /\ ParseArgs(c.args).mode # "daemon"
                          /\ {c.user, c.project} \subseteq Entries \cup {Absent, Unreadable}
  /\ None \notin Commands
ASSUME IdsDiffer ==
  /\ {HandshakeId, HealthId} \subseteq Ids /\ HandshakeId # HealthId
  /\ Fresh \notin Ids /\ None \notin Ids \cup {Fresh}
ASSUME NoneIsNoCode ==
  None \notin {0, 1, 2, 3, 4} /\ None \notin Codes \cup Responses /\ None \notin Frame \cup Answer
ASSUME LimitsAreSizes ==
  DaemonLimit \in Nat /\ \A v \in Allowed["jsonl_max_line_bytes"] : Size[v] \in Nat
ASSUME ScriptsAreBytes == Scripts \subseteq Seq(Bytes)

VARIABLES
  command,      \* what the process was started with, until it has read it
  mode,         \* the mode of the client
  limit,        \* its line limit
  safe,         \* runtime::probe accepts the directory
  pc,           \* where the client is
  exit,         \* its exit code
  due,          \* the response doctor or tui waits for
  report,       \* the error code it reports
  script,       \* its standard input, or what another program sends
  taken,        \* how much of script was read
  input,        \* the FrameReader of jsonl
  printed,      \* the responses jsonl has printed
  sending,      \* what is left to write of a request
  sent,         \* every byte written to the socket
  clientEnd,    \* the client's end: "open", "half" closed for writing, "closed"
  conn,         \* the daemon's end
  fetched,      \* how much of sent the handler's BufReader has read
  received,     \* how much of it the handler's FrameReader has read
  reader,       \* that FrameReader
  frame,        \* the frame to answer
  handler,      \* where the handler thread is
  handshaken,   \* its flag
  replies,      \* every response written to the socket
  read,         \* how many of them the client has read
  daemon,       \* "running", "stopping" or "gone"
  endpoint,     \* daemon.sock: "absent", "listening", "stale" or "other"
  killed        \* ghost: the daemon died without ending the connection

starting == <<command, mode, limit, safe>>
client   == <<script, pc, exit, due, report, taken, input, printed, sending, clientEnd, read>>
wire     == <<sent, replies>>
thread   == <<fetched, received, reader, frame, handler, handshaken>>
process  == <<conn, daemon, endpoint, killed>>
vars     == <<starting, client, wire, thread, process>>

ClientStates == {"start", "probe", "look", "stat", "connect", "input", "sending", "awaiting",
                 "showing", "talking", "ended"}

TypeOK ==
  /\ command \in Commands \cup {None} /\ mode \in Modes \cup {"other", None}
  /\ limit \in Nat /\ safe \in BOOLEAN
  /\ pc \in ClientStates /\ exit \in {None, 0, 1, 2, 3, 4}
  /\ due \in Responses \cup {None} /\ report \in Codes \cup {None}
  /\ script \in Seq(Bytes) /\ taken \in 0 .. Len(script)
  /\ input \in Reader /\ Len(input.frame) <= limit
  /\ printed \in Seq(Answer)
  /\ sending \in Seq(Bytes) /\ sent \in Seq(Bytes) /\ clientEnd \in {"open", "half", "closed"}
  /\ conn \in {"none", "backlog", "open", "closed", "reset"}
  /\ received \in 0 .. fetched /\ fetched \in 0 .. Len(sent)
  /\ reader \in Reader /\ Len(reader.frame) <= DaemonLimit
  /\ frame \in Frame \cup {None} /\ handler \in {"none", "checking", "reading", "answering"}
  /\ handshaken \in BOOLEAN /\ replies \in Seq(Answer) /\ read \in 0 .. Len(replies)
  /\ daemon \in {"running", "stopping", "gone"}
  /\ endpoint \in {"absent", "listening", "stale", "other"} /\ killed \in BOOLEAN

Init ==
  /\ \/ command \in Commands /\ mode = None /\ pc = "start"
     \/ command = None /\ mode = "other" /\ pc = "connect"
  /\ script = <<>> /\ safe \in BOOLEAN
  /\ limit = 0 /\ exit = None /\ due = None /\ report = None
  /\ taken = 0 /\ input = NewReader /\ printed = <<>>
  /\ sending = <<>> /\ sent = <<>> /\ clientEnd = "open" /\ replies = <<>> /\ read = 0
  /\ conn = "none" /\ fetched = 0 /\ received = 0 /\ reader = NewReader /\ frame = None
  /\ handler = "none" /\ handshaken = FALSE
  /\ \/ daemon = "running" /\ endpoint = "listening"
     \/ daemon = "gone" /\ endpoint \in {"absent", "stale", "other"}
  /\ killed = FALSE

-----------------------------------------------------------------------------
(* The client process.                                                     *)

Exit(code) == pc' = "ended" /\ exit' = code /\ clientEnd' = "closed"

(* The exit code of a request that failed or got no valid response; all    *)
(* codes a daemon sends are of the families protocol and authorization.    *)
ProtocolExit == IF mode = "doctor" THEN 1 ELSE 3

(* main: how far a process comes without talking to a daemon.              *)
Launch(c) ==
  LET parsed   == ParseArgs(c.args)
      resolved == Resolve(c.user, c.project, c.env, parsed.flags)
  IN  IF parsed.mode = NoValue THEN [mode |-> None, exit |-> 2, config |-> NoValue]
      ELSE IF parsed.mode = "version"
        THEN [mode |-> "version", exit |-> IF InRange(parsed.flags) THEN 0 ELSE 2,
              config |-> NoValue]
        ELSE [mode |-> parsed.mode, config |-> resolved.config,
              exit |-> IF resolved.error = NoValue THEN None
                       ELSE IF parsed.mode = "doctor" THEN 1 ELSE 2]

Start ==
  /\ pc = "start"
  /\ LET launch == Launch(command)
     IN  /\ mode' = launch.mode
         /\ IF launch.exit # None
              THEN Exit(launch.exit) /\ UNCHANGED limit
              ELSE /\ limit' = Size[launch.config["jsonl_max_line_bytes"]]
                   /\ pc' = IF launch.mode = "doctor" THEN "probe" ELSE "connect"
                   /\ UNCHANGED <<exit, clientEnd>>
  /\ command' = None
  /\ UNCHANGED <<safe, script, due, report, taken, input, printed, sending, read,
                 wire, thread, process>>

(* doctor looks at the directory, at whether daemon.sock exists and at what*)
(* it is, and then connects: four looks at a path that may change.         *)
Probe ==
  /\ pc = "probe"
  /\ IF safe THEN pc' = "look" /\ UNCHANGED <<exit, clientEnd>> ELSE Exit(1)
  /\ UNCHANGED <<starting, script, due, report, taken, input, printed, sending, read,
                 wire, thread, process>>

LookForSocket ==
  /\ pc = "look"
  /\ IF endpoint = "absent" THEN Exit(4) ELSE pc' = "stat" /\ UNCHANGED <<exit, clientEnd>>
  /\ UNCHANGED <<starting, script, due, report, taken, input, printed, sending, read,
                 wire, thread, process>>

LookAtSocket ==
  /\ pc = "stat"
  /\ IF endpoint \in {"listening", "stale"}
       THEN pc' = "connect" /\ UNCHANGED <<exit, clientEnd>> ELSE Exit(1)
  /\ UNCHANGED <<starting, script, due, report, taken, input, printed, sending, read,
                 wire, thread, process>>

(* connect, and the first request of doctor and tui.                       *)
Connect ==
  /\ pc = "connect"
  /\ IF safe /\ endpoint = "listening"
       THEN /\ conn' = "backlog"
            /\ \/ /\ mode \in {"jsonl", "other"} /\ script' \in Scripts
                  /\ pc' = IF mode = "jsonl" THEN "input" ELSE "talking"
                  /\ UNCHANGED <<due, sending>>
               \/ /\ mode \in {"doctor", "tui"} /\ UNCHANGED script
                  /\ pc' = "sending" /\ due' = "handshake.response"
                  /\ sending' = HandshakeLine(HandshakeId)
            /\ UNCHANGED <<exit, clientEnd>>
       ELSE /\ Exit(IF mode = "doctor" THEN 1 ELSE 4)
            /\ UNCHANGED <<conn, due, sending, script>>
  /\ UNCHANGED <<starting, report, taken, input, printed, read, wire, thread,
                 daemon, endpoint, killed>>

(* request: write_all, piece by piece, then read_line.                     *)
Write ==
  /\ pc = "sending"
  /\ IF conn \in {"closed", "reset"}
       THEN Exit(ProtocolExit) /\ UNCHANGED <<sending, sent>>
       ELSE \E n \in 1 .. Len(sending) :
              /\ sent' = sent \o SubSeq(sending, 1, n)
              /\ sending' = SubSeq(sending, n + 1, Len(sending))
              /\ pc' = IF n = Len(sending) THEN "awaiting" ELSE "sending"
              /\ UNCHANGED <<exit, clientEnd>>
  /\ UNCHANGED <<starting, script, due, report, taken, input, printed, read, replies, thread, process>>

IdOf(response) == IF response = "handshake.response" THEN HandshakeId ELSE HealthId

(* What the modes do with the answer to their request.                     *)
Forward(answer) ==
  /\ mode = "jsonl" /\ pc' = "input"
  /\ printed' = IF answer = None THEN printed ELSE Append(printed, answer)
  /\ UNCHANGED <<exit, clientEnd, due, report, sending>>

Advance(answer) ==
  /\ mode \in {"doctor", "tui"} /\ UNCHANGED printed
  /\ IF ~Matches(answer, due, IdOf(due))
       THEN /\ Exit(ProtocolExit) /\ report' = FailureCode(answer, IdOf(due))
            /\ UNCHANGED <<due, sending>>
       ELSE /\ UNCHANGED report
            /\ IF due = "handshake.response"
                 THEN /\ pc' = "sending" /\ due' = "health.response"
                      /\ sending' = HealthLine(HealthId) /\ UNCHANGED <<exit, clientEnd>>
                 ELSE /\ UNCHANGED <<due, sending>>
                      /\ IF mode = "doctor" THEN Exit(0)
                         ELSE pc' = "showing" /\ UNCHANGED <<exit, clientEnd>>

Receive ==
  /\ pc = "awaiting" /\ read < Len(replies)
  /\ read' = read + 1
  /\ Forward(replies[read + 1]) \/ Advance(replies[read + 1])
  /\ UNCHANGED <<starting, script, taken, input, wire, thread, process>>

(* Faulty variant: a failed read is taken for an empty line.               *)
ReceiveEndQuietly ==
  /\ pc = "awaiting" /\ read = Len(replies) /\ conn \in {"closed", "reset"}
  /\ Forward(None) \/ Advance(None)
  /\ UNCHANGED <<starting, script, taken, input, read, wire, thread, process>>

ReceiveEnd ==
  /\ pc = "awaiting" /\ read = Len(replies) /\ conn \in {"closed", "reset"}
  /\ IF conn = "closed"
       THEN Forward(None) \/ Advance(None)
       ELSE Exit(ProtocolExit) /\ UNCHANGED <<printed, due, report, sending>>
  /\ UNCHANGED <<starting, script, taken, input, read, wire, thread, process>>

(* jsonl: a frame of standard input is sent, or answered on the spot.      *)
Typed(next, count) ==
  /\ input' = next.reader /\ taken' = count
  /\ IF next.frame = None THEN UNCHANGED <<pc, exit, clientEnd, printed, sending>>
     ELSE IF next.frame.kind = "end" THEN Exit(0) /\ UNCHANGED <<printed, sending>>
     ELSE IF next.frame.kind = "complete"
       THEN /\ pc' = "sending" /\ sending' = next.frame.bytes
            /\ UNCHANGED <<exit, clientEnd, printed>>
       ELSE /\ printed' = Append(printed, FrameError(next.frame)) /\ UNCHANGED sending
            /\ IF Terminal(next.frame) THEN Exit(0) ELSE UNCHANGED <<pc, exit, clientEnd>>
  /\ UNCHANGED <<starting, script, due, report, read, wire, thread, process>>

ReadInput ==
  /\ pc = "input"
  /\ IF taken < Len(script) THEN Typed(Take(input, script[taken + 1], limit), taken + 1)
                            ELSE Typed(AtEnd(input), taken)

(* The user leaves tui.                                                    *)
Quit ==
  /\ pc = "showing" /\ Exit(0)
  /\ UNCHANGED <<starting, script, due, report, taken, input, printed, sending, read,
                 wire, thread, process>>

(* Another program writes its next piece, or hangs up at any point, with or*)
(* without closing its reading side.                                       *)
Talk ==
  /\ pc = "talking" /\ taken < Len(script) /\ conn \in {"backlog", "open"}
  /\ sent' = Append(sent, script[taken + 1]) /\ taken' = taken + 1
  /\ UNCHANGED <<starting, script, pc, exit, due, report, input, printed, sending, clientEnd, read,
                 replies, thread, process>>

HangUp ==
  /\ pc = "talking" /\ pc' = "ended" /\ clientEnd' \in {"half", "closed"}
  /\ UNCHANGED <<starting, script, exit, due, report, taken, input, printed, sending, read,
                 wire, thread, process>>

Client ==
  \/ Probe \/ LookForSocket \/ LookAtSocket \/ Connect
  \/ Write \/ Receive \/ ReceiveEnd \/ ReadInput

-----------------------------------------------------------------------------
(* The handler thread of the connection.                                   *)

(* The daemon's end closes: bytes its socket still holds reset the client. *)
Close == conn' = (IF fetched < Len(sent) THEN "reset" ELSE "closed")
         /\ handler' = "none" /\ frame' = None

Check ==
  /\ handler = "checking"
  /\ IF daemon = "stopping" THEN Close
                            ELSE handler' = "reading" /\ UNCHANGED <<conn, frame>>
  /\ UNCHANGED <<starting, client, wire, fetched, received, reader, handshaken,
                 daemon, endpoint, killed>>

(* next of the FrameReader: a byte of the BufReader, which is filled from  *)
(* the socket when it is empty.                                            *)
ReadByte ==
  /\ handler = "reading" /\ received < Len(sent)
  /\ fetched' \in IF received < fetched THEN {fetched} ELSE fetched + 1 .. Len(sent)
  /\ LET next == Take(reader, sent[received + 1], DaemonLimit)
     IN  /\ reader' = next.reader /\ frame' = next.frame
         /\ handler' = IF next.frame = None THEN "reading" ELSE "answering"
  /\ received' = received + 1
  /\ UNCHANGED <<starting, client, wire, handshaken, process>>

(* 50 ms without a byte: the frame read so far is kept.                    *)
Pending ==
  /\ handler = "reading" /\ received = Len(sent) /\ clientEnd = "open"
  /\ handler' = "checking"
  /\ UNCHANGED <<starting, client, wire, fetched, received, reader, frame, handshaken, process>>

ReadEnd ==
  /\ handler = "reading" /\ received = Len(sent) /\ clientEnd # "open"
  /\ LET next == AtEnd(reader)
     IN  IF next.frame.kind = "end" \/ (clientEnd = "closed" /\ read < Len(replies))
           THEN Close /\ UNCHANGED reader
           ELSE /\ reader' = next.reader /\ frame' = next.frame /\ handler' = "answering"
                /\ UNCHANGED conn
  /\ UNCHANGED <<starting, client, wire, fetched, received, handshaken, daemon, endpoint, killed>>

(* The answer is written if the client still has its end; a write to a     *)
(* closed one ends the thread.                                             *)
Reply ==
  /\ handler = "answering"
  /\ LET answer == Respond(frame, handshaken)
     IN  /\ handshaken' = (handshaken \/ answer.kind = "handshake.response")
         /\ IF clientEnd = "closed"
              THEN Close /\ UNCHANGED replies
              ELSE /\ replies' = Append(replies, answer)
                   /\ IF Terminal(frame)
                        THEN Close
                        ELSE handler' = "checking" /\ frame' = None /\ UNCHANGED conn
  /\ UNCHANGED <<starting, client, sent, fetched, received, reader, daemon, endpoint, killed>>

Handler == Check \/ ReadByte \/ Pending \/ ReadEnd \/ Reply

-----------------------------------------------------------------------------
(* The daemon process.                                                     *)

Accept ==
  /\ daemon = "running" /\ conn = "backlog"
  /\ conn' = "open" /\ handler' = "checking"
  /\ UNCHANGED <<starting, client, wire, fetched, received, reader, frame, handshaken,
                 daemon, endpoint, killed>>

(* authorize_peer fails: an error no request asked for, and the end.       *)
Refuse ==
  /\ daemon = "running" /\ conn = "backlog"
  /\ replies' = IF clientEnd = "closed" THEN replies
                ELSE Append(replies, Error(Fresh, "authorization.peer_uid"))
  /\ conn' = IF sent = <<>> THEN "closed" ELSE "reset"
  /\ UNCHANGED <<starting, client, sent, thread, daemon, endpoint, killed>>

(* Bound: a signal, a death or a new daemon after the session shows nothing*)
(* more.                                                                   *)
SessionLasts == pc # "ended" \/ conn \in {"backlog", "open"}

(* A signal is seen by the accept loop; stopping is set.                   *)
Signal ==
  /\ SessionLasts /\ daemon = "running" /\ daemon' = "stopping"
  /\ UNCHANGED <<starting, client, wire, thread, conn, endpoint, killed>>

(* A connection that was not accepted is reset with its listener.          *)
DropListener ==
  /\ daemon = "stopping" /\ endpoint = "listening" /\ endpoint' = "stale"
  /\ conn' = IF conn = "backlog" THEN "reset" ELSE conn
  /\ UNCHANGED <<starting, client, wire, thread, daemon, killed>>

CleanUp ==
  /\ daemon = "stopping" /\ endpoint = "stale" /\ endpoint' = "absent"
  /\ UNCHANGED <<starting, client, wire, thread, conn, daemon, killed>>

Leave ==
  /\ daemon = "stopping" /\ endpoint = "absent" /\ handler = "none" /\ daemon' = "gone"
  /\ UNCHANGED <<starting, client, wire, thread, conn, endpoint, killed>>

Die ==
  /\ SessionLasts /\ daemon # "gone" /\ daemon' = "gone"
  /\ endpoint' = IF endpoint = "listening" THEN "stale" ELSE endpoint
  /\ killed' = (killed \/ conn \in {"backlog", "open"})
  /\ handler' = "none" /\ frame' = None
  /\ conn' = CASE conn = "backlog" -> "reset"
               [] conn = "open"    -> IF fetched < Len(sent) THEN "reset" ELSE "closed"
               [] OTHER            -> conn
  /\ UNCHANGED <<starting, client, wire, fetched, received, reader, handshaken>>

(* A daemon starts where no socket file is in its way.                     *)
Rise ==
  /\ daemon = "gone" /\ endpoint = "absent" /\ conn = "none" /\ SessionLasts
  /\ daemon' = "running" /\ endpoint' = "listening"
  /\ UNCHANGED <<starting, client, wire, thread, conn, killed>>

Daemon == Accept \/ Refuse \/ DropListener \/ CleanUp \/ Leave

Next == Start \/ Client \/ Talk \/ HangUp \/ Quit \/ Handler \/ Daemon \/ Signal \/ Die \/ Rise

Spec == Init /\ [][Next]_vars

(* A client runs on until it waits for its user or for the daemon, the     *)
(* accept loop polls, and a handler thread is scheduled.  Nothing makes a  *)
(* user quit, another program write, or a signal come.                     *)
FairSpec == Spec /\ WF_vars(Client) /\ WF_vars(Handler) /\ WF_vars(Daemon)

-----------------------------------------------------------------------------
(* What keeps TypeOK and VerdictIsProven true from step to step.           *)

SessionInv ==
  /\ pc = "start" => limit = 0 /\ command \in Commands
  /\ pc = "input" => mode = "jsonl"
  /\ pc \in {"start", "probe", "look", "stat", "connect"} => due = None /\ taken = 0
  /\ pc # "ended" => exit = None /\ report = None
  /\ mode \in {"doctor", "tui"} /\ pc \in {"sending", "awaiting"} => due \in Responses
  /\ handler = "answering" => frame # None
  /\ \A i \in DOMAIN replies : replies[i].kind \in Responses => replies[i].code = None
  /\ due = "health.response" =>
       \E i \in 1 .. read : replies[i] = Success("handshake.response", HandshakeId)

-----------------------------------------------------------------------------
(* A second account of the protocol, from whole lines instead of bytes.    *)

Newlines(bytes) == {i \in DOMAIN bytes : bytes[i] = Newline}

EndOf(bytes, k) ==
  IF k = 0 THEN 0
  ELSE CHOOSE e \in Newlines(bytes) : Cardinality({n \in Newlines(bytes) : n <= e}) = k

(* The lines of a stream, with what follows the last newline if it ended.  *)
Lines(bytes, ended) ==
  LET n     == Cardinality(Newlines(bytes))
      whole == [k \in 1 .. n |-> SubSeq(bytes, EndOf(bytes, k - 1) + 1, EndOf(bytes, k))]
      rest  == SubSeq(bytes, EndOf(bytes, n) + 1, Len(bytes))
  IN  IF ended /\ rest # <<>> THEN Append(whole, rest) ELSE whole

FrameOf(line, max) ==
  [kind  |-> IF Len(line) > max THEN "oversized"
             ELSE IF line[Len(line)] = Newline
                    THEN IF IsUtf8(line) THEN "complete" ELSE "invalid"
                    ELSE IF IsUtf8(line) THEN "incomplete" ELSE "cutoff",
   bytes |-> IF Len(line) > max THEN SubSeq(line, 1, max) ELSE line]

(* The answers due to a sequence of frames: the first complete handshake   *)
(* opens the session for the frames after it.                              *)
AnswersTo(frames) ==
  [k \in DOMAIN frames |->
     Respond(frames[k], \E j \in 1 .. k - 1 :
                          Respond(frames[j], FALSE).kind = "handshake.response")]

IsPrefixOf(s, t) == Len(s) <= Len(t) /\ \A i \in DOMAIN s : s[i] = t[i]

Refused == replies # <<>> /\ replies[1].code = "authorization.peer_uid"

FramesAt(bytes, ended, max) ==
  LET lines == Lines(bytes, ended) IN [k \in DOMAIN lines |-> FrameOf(lines[k], max)]

(* Through jsonl: its own limit first, the daemon's after it.              *)
FramesThrough ==
  LET lines == Lines(script, TRUE)
  IN  [k \in DOMAIN lines |->
         IF FrameOf(lines[k], limit).kind = "complete" THEN FrameOf(lines[k], DaemonLimit)
                                                       ELSE FrameOf(lines[k], limit)]

-----------------------------------------------------------------------------
(* Properties.                                                             *)

(* However the bytes arrive and the handler's reads time out, it gives each*)
(* line one answer, in order: a line too long takes nothing of the next one*)
(* with it, and nothing of what it lost is ever taken for a request.       *)
AnsweredInOrder ==
  ~Refused => IsPrefixOf(replies, AnswersTo(FramesAt(sent, clientEnd # "open", DaemonLimit)))

(* Through the JSONL client, with a limit of its own: what is printed is   *)
(* the answer to each line typed, in order, as long as no daemon died.     *)
PrintedInOrder ==
  mode = "jsonl" /\ ~killed /\ ~Refused => IsPrefixOf(printed, AnswersTo(FramesThrough))

(* run --jsonl ends with 0 only if every line has its answer: a daemon that*)
(* stops in order makes it fail, and only one that dies loses a request in *)
(* silence.                                                                *)
CleanExitAnswered ==
  mode = "jsonl" /\ exit = 0 /\ ~killed => Len(printed) = Len(FramesThrough)

(* doctor calls the daemon healthy, and tui shows it, only after a daemon  *)
(* that had accepted a handshake answered its health request.              *)
VerdictIsProven ==
  (mode = "doctor" /\ exit = 0) \/ pc = "showing" =>
    \E i, j \in DOMAIN replies :
      /\ i < j
      /\ replies[i] = Success("handshake.response", HandshakeId)
      /\ replies[j] = Success("health.response", HealthId)

(* A client never runs with a configuration that has a fault in any layer, *)
(* not even in an option another layer overrides, and its limit is that of *)
(* the highest layer that sets one.                                        *)
Faulty(c) ==
  \/ \E f \in {c.user, c.project} : ReadConfig(f).error # NoValue
  \/ ~InRange(c.env) \/ ~InRange(ParseArgs(c.args).flags)

Highest(c, o) ==
  LET layers == <<ParseArgs(c.args).flags, c.env, ReadConfig(c.project).partial,
                  ReadConfig(c.user).partial, Default>>
      i == CHOOSE k \in DOMAIN layers :
             layers[k][o] # NoValue /\ \A j \in 1 .. k - 1 : layers[j][o] = NoValue
  IN  layers[i][o]

StartsConfigured ==
  [][pc = "start" /\ pc' \in {"probe", "connect"} =>
       ~Faulty(command) /\ limit' = Size[Highest(command, "jsonl_max_line_bytes")]]_vars

(* A request never waits for ever: it is answered, or the client learns    *)
(* that it will not be.                                                    *)
RequestsReturn == pc \in {"sending", "awaiting"} ~> pc \notin {"sending", "awaiting"}
=============================================================================
