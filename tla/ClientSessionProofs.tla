------------------------ MODULE ClientSessionProofs ------------------------
(***************************************************************************)
(* Proofs about ClientSession for every set of commands, scripts and ids   *)
(* and every limit: its types, with the bound on what a FrameReader keeps, *)
(* that a client starts only with a configuration in range and by          *)
(* precedence, and that a verdict of doctor and tui is proven.             *)
(***************************************************************************)
EXTENDS ClientSession, WellFoundedInduction, TLAPS

-----------------------------------------------------------------------------
(* The frame reader.                                                       *)

LEMMA TakeType ==
  ASSUME NEW r \in Reader, NEW b \in Bytes, NEW max \in Nat, Len(r.frame) <= max
  PROVE  /\ Take(r, b, max).reader \in Reader
         /\ Len(Take(r, b, max).reader.frame) <= max
         /\ Take(r, b, max).frame \in Frame \cup {None}
<1> DEFINE line == Append(r.frame, b)
           over == r.discarding \/ Len(r.frame) >= max
<1>1. line \in Seq(Bytes) /\ Len(line) = Len(r.frame) + 1 /\ r.frame \in Seq(Bytes)
      /\ Len(r.frame) \in Nat
  BY DEF Reader
<1>2. ASSUME NEW k \in FrameKinds, NEW s \in Seq(Bytes)
      PROVE  /\ Yield(k, s).reader \in Reader /\ Yield(k, s).frame \in Frame
             /\ Len(Yield(k, s).reader.frame) = 0
  BY <1>2 DEF Yield, NewReader, Reader, Frame
<1>k. ASSUME NEW q \in Reader, Len(q.frame) <= max
      PROVE  /\ Keep(q).reader \in Reader /\ Len(Keep(q).reader.frame) <= max
             /\ Keep(q).frame \in Frame \cup {None}
  BY <1>k DEF Keep
<1>3. CASE over /\ b = Newline
  <2>1. Take(r, b, max) = Yield("oversized", r.frame)
    BY <1>3 DEF Take
  <2>2. "oversized" \in FrameKinds
    BY DEF FrameKinds
  <2>3. /\ Yield("oversized", r.frame).reader \in Reader
        /\ Yield("oversized", r.frame).frame \in Frame
        /\ Len(Yield("oversized", r.frame).reader.frame) = 0
    BY <2>2, <1>1, <1>2
  <2> QED
    BY <2>1, <2>3
<1>4. CASE over /\ b # Newline
  <2> DEFINE q == [r EXCEPT !.discarding = TRUE]
  <2>1. Take(r, b, max) = Keep(q)
    BY <1>4 DEF Take
  <2>2. q \in Reader /\ q.frame = r.frame
    BY DEF Reader
  <2> HIDE DEF q
  <2> QED
    BY <2>1, <2>2, <1>k
<1>5. CASE ~over /\ b # Newline
  <2> DEFINE q == [r EXCEPT !.frame = line]
  <2>1. Take(r, b, max) = Keep(q)
    BY <1>5 DEF Take
  <2>2. q \in Reader /\ q.frame = line
    BY <1>1 DEF Reader
  <2>3. Len(q.frame) <= max
    BY <2>2, <1>1, <1>5
  <2> HIDE DEF q
  <2> QED
    BY <2>1, <2>2, <2>3, <1>k
<1>6. CASE ~over /\ b = Newline
  <2> DEFINE kind == IF IsUtf8(line) THEN "complete" ELSE "invalid"
  <2>1. Take(r, b, max) = Yield(kind, line)
    BY <1>6 DEF Take
  <2>2. kind \in FrameKinds
    BY DEF FrameKinds
  <2>3. /\ Yield(kind, line).reader \in Reader /\ Yield(kind, line).frame \in Frame
        /\ Len(Yield(kind, line).reader.frame) = 0
    BY <2>2, <1>1, <1>2
  <2> QED
    BY <2>1, <2>3
<1> QED
  BY <1>3, <1>4, <1>5, <1>6

LEMMA AtEndType ==
  ASSUME NEW r \in Reader
  PROVE  /\ AtEnd(r).reader = NewReader /\ AtEnd(r).frame \in Frame
  BY DEF AtEnd, Yield, Reader, Frame, FrameKinds

LEMMA Appended ==
  ASSUME NEW S, NEW s \in Seq(S), NEW a \in S, NEW n \in 0 .. Len(s)
  PROVE  /\ Append(s, a) \in Seq(S) /\ n \in 0 .. Len(Append(s, a))
         /\ Len(Append(s, a)) = Len(s) + 1
  OBVIOUS

LEMMA NewReaderType == NewReader \in Reader /\ Len(NewReader.frame) = 0
  BY DEF NewReader, Reader

-----------------------------------------------------------------------------
(* Answers.                                                                *)

LEMMA CorrelationType ==
  ASSUME NEW s \in Seq(Bytes) PROVE CorrelationPrefix(s) \in Ids \cup {Fresh}
<1>1. CASE IsUtf8(s) /\ \E i \in DOMAIN s : LeadingId(s, i)
  <2> DEFINE i == CHOOSE i \in DOMAIN s : LeadingId(s, i)
  <2>1. LeadingId(s, i)
    BY <1>1
  <2> QED
    BY <1>1, <2>1 DEF CorrelationPrefix, LeadingId
<1> QED
  BY <1>1 DEF CorrelationPrefix

LEMMA ErrorType ==
  ASSUME NEW id \in Ids \cup {Fresh}, NEW code \in Codes
  PROVE  Error(id, code) \in Answer /\ Error(id, code).kind = "error.response"
  BY DEF Error, Answer

LEMMA FrameErrorType ==
  ASSUME NEW f \in Frame
  PROVE  FrameError(f) \in Answer /\ FrameError(f).kind = "error.response"
<1>1. CorrelationPrefix(f.bytes) \in Ids \cup {Fresh}
  BY CorrelationType DEF Frame
<1> QED
  BY <1>1, ErrorType DEF FrameError, Codes

(* A success has no code, and only a session that is open is told of the   *)
(* daemon's health.                                                        *)
LEMMA RespondType ==
  ASSUME NEW f \in Frame, NEW h \in BOOLEAN
  PROVE  /\ Respond(f, h) \in Answer
         /\ Respond(f, h).kind \in Responses => Respond(f, h).code = None
         /\ Respond(f, h).kind = "health.response" => h
<1> DEFINE id == CorrelationPrefix(f.bytes)
<1>1. id \in Ids \cup {Fresh}
  BY CorrelationType DEF Frame
<1>2. CASE f.kind # "complete"
  <2>1. Respond(f, h) = FrameError(f)
    BY <1>2 DEF Respond
  <2>2. "error.response" \notin Responses /\ "error.response" # "health.response"
    BY DEF Responses
  <2> QED
    BY <2>1, <2>2, FrameErrorType
<1>3. CASE f.kind = "complete"
  <2>1. Respond(f, h) = HandleRequest(f.bytes, h)
    BY <1>3 DEF Respond
  <2>2. \/ \E code \in Codes : HandleRequest(f.bytes, h) = Error(id, code)
        \/ HandleRequest(f.bytes, h) = Success("handshake.response", id)
        \/ HandleRequest(f.bytes, h) = Success("health.response", id) /\ h
    BY DEF HandleRequest, Codes
  <2>3. CASE \E code \in Codes : Respond(f, h) = Error(id, code)
    <3>1. "error.response" \notin Responses /\ "error.response" # "health.response"
      BY DEF Responses
    <3> QED
      BY <2>3, <3>1, <1>1, ErrorType
  <2>4. CASE Respond(f, h) = Success("handshake.response", id)
    BY <2>4, <1>1 DEF Success, Answer, Responses
  <2>5. CASE Respond(f, h) = Success("health.response", id) /\ h
    <3>1. Respond(f, h) = Success("health.response", id)
      BY <2>5, Zenon
    <3>2. Respond(f, h) \in Answer /\ Respond(f, h).code = None
      BY <3>1, <1>1 DEF Success, Answer, Responses
    <3> HIDE DEF id
    <3> QED
      BY <2>5, <3>2, Zenon
  <2> HIDE DEF id
  <2> QED
    BY <2>1, <2>2, <2>3, <2>4, <2>5
<1> QED
  BY <1>2, <1>3

-----------------------------------------------------------------------------
(* The configuration.                                                      *)

(* A set of positive numbers that is not empty has a least one.            *)
LEMMA LeastFault ==
  ASSUME NEW S, S \subseteq Nat, S # {}
  PROVE  (CHOOSE i \in S : \A j \in S : i <= j) \in S
<1> DEFINE R == OpToRel(<, Nat)
<1>1. PICK x \in S : \A y \in S : ~ (<<y, x>> \in R)
  <2>1. IsWellFoundedOn(R, Nat)
    BY NatLessThanWellFounded
  <2> QED
    BY <2>1, WFMin
<1>2. \A y \in S : ~ (y < x)
  BY <1>1 DEF OpToRel
<1>3. \A y \in S : x <= y
  BY <1>2
<1> QED
  BY <1>3

(* A file without a fault sets options in range only.                      *)
LEMMA FileInRange ==
  ASSUME NEW file \in Entries \cup {Absent, Unreadable}, ReadConfig(file).error = NoValue
  PROVE  InRange(ReadConfig(file).partial)
<1>1. InRange(Unset)
  BY DEF InRange, Unset
<1>2. CASE file \in {Absent, Unreadable}
  BY <1>1, <1>2 DEF ReadConfig
<1>3. CASE file \notin {Absent, Unreadable}
  <2>1. FileError(file) = NoValue /\ ReadConfig(file).partial = PartialOf(file)
    BY <1>3 DEF ReadConfig
  <2> DEFINE faulty == {i \in DOMAIN file : LineError(file, i) # NoValue}
             first == CHOOSE i \in faulty : \A j \in faulty : i <= j
  <2>2. "config.invalid" # NoValue
    BY MarksAreMarks DEF Errors
  <2>3. CASE faulty = {}
    BY <2>1, <2>2, <2>3 DEF FileError
  <2>4. CASE faulty # {}
    <3>1. faulty \subseteq Nat
      BY <1>3 DEF Entries
    <3>2. first \in faulty
      BY <2>4, <3>1, LeastFault
    <3>3. FileError(file) = LineError(file, first)
      BY <2>4 DEF FileError
    <3> QED
      BY <2>1, <3>2, <3>3
  <2> QED
    BY <2>3, <2>4
<1> QED
  BY <1>2, <1>3

(* What resolve accepts has no fault in any layer; the highest layer that  *)
(* sets an option decides it, and its value is in range.                   *)
LEMMA ResolvedIsSound ==
  ASSUME NEW user \in Entries \cup {Absent, Unreadable},
         NEW project \in Entries \cup {Absent, Unreadable}, NEW env, NEW flags,
         Resolve(user, project, env, flags).error = NoValue
  PROVE  /\ \A f \in {user, project} : ReadConfig(f).error = NoValue
         /\ InRange(env) /\ InRange(flags)
         /\ Resolve(user, project, env, flags).config =
              Over(Over(Over(Over(Default, ReadConfig(user).partial),
                             ReadConfig(project).partial), env), flags)
         /\ \A o \in Options : Resolve(user, project, env, flags).config[o] \in Allowed[o]
<1> DEFINE layers == <<ReadConfig(user), ReadConfig(project), Parse(env), Parse(flags)>>
           faulty == {i \in DOMAIN layers : layers[i].error # NoValue}
           first == CHOOSE i \in faulty : \A j \in faulty : i <= j
           total == Over(Over(Over(Over(Default, layers[1].partial), layers[2].partial),
                              layers[3].partial), layers[4].partial)
<1>1. faulty = {}
  <2>1. SUFFICES ASSUME faulty # {} PROVE FALSE
    OBVIOUS
  <2>2. first \in faulty
    <3>1. faulty \subseteq Nat
      OBVIOUS
    <3> QED
      BY <2>1, <3>1, LeastFault
  <2>3. Resolve(user, project, env, flags).error = layers[first].error
    BY <2>1 DEF Resolve
  <2> QED
    BY <2>2, <2>3
<1>2. \A i \in 1 .. 4 : layers[i].error = NoValue
  BY <1>1
<1>3. /\ ReadConfig(user).error = NoValue /\ ReadConfig(project).error = NoValue
      /\ Parse(env).error = NoValue /\ Parse(flags).error = NoValue
  BY <1>2
<1>4. InRange(env) /\ InRange(flags)
  BY <1>3, MarksAreMarks DEF Parse, Errors
<1>5. Resolve(user, project, env, flags).config = total
  BY <1>1 DEF Resolve
<1>6. total = Over(Over(Over(Over(Default, ReadConfig(user).partial),
                            ReadConfig(project).partial), env), flags)
  BY DEF Parse
<1>7. ASSUME NEW c, NEW p, \A o \in Options : c[o] \in Allowed[o], InRange(p)
      PROVE  \A o \in Options : Over(c, p)[o] \in Allowed[o]
  BY <1>7 DEF Over, InRange
<1>8. InRange(ReadConfig(user).partial) /\ InRange(ReadConfig(project).partial)
  BY <1>3, FileInRange
<1>9. \A o \in Options : total[o] \in Allowed[o]
  <2>1. \A o \in Options : Default[o] \in Allowed[o]
    BY DefaultsAllowed
  <2>2. \A o \in Options : Over(Default, ReadConfig(user).partial)[o] \in Allowed[o]
    BY <2>1, <1>7, <1>8
  <2>3. \A o \in Options : Over(Over(Default, ReadConfig(user).partial),
                                ReadConfig(project).partial)[o] \in Allowed[o]
    BY <2>2, <1>7, <1>8
  <2>4. \A o \in Options : Over(Over(Over(Default, ReadConfig(user).partial),
                                ReadConfig(project).partial), env)[o] \in Allowed[o]
    BY <2>3, <1>7, <1>4
  <2> QED
    BY <2>4, <1>7, <1>4, <1>6
<1> QED
  BY <1>3, <1>4, <1>5, <1>6, <1>9

(* A configuration is refused exactly if a layer has a fault, be it in an  *)
(* option another layer overrides (resolve); else the highest layer that   *)
(* sets an option decides it, and its value is in range.                   *)
THEOREM ResolvedByPrecedence ==
  ASSUME NEW user \in Entries \cup {Absent, Unreadable},
         NEW project \in Entries \cup {Absent, Unreadable}, NEW env, NEW flags
  PROVE  /\ Resolve(user, project, env, flags).error = NoValue <=>
              /\ \A f \in {user, project} : ReadConfig(f).error = NoValue
              /\ InRange(env) /\ InRange(flags)
         /\ Resolve(user, project, env, flags).error = NoValue =>
              /\ Resolve(user, project, env, flags).config =
                   Over(Over(Over(Over(Default, ReadConfig(user).partial),
                                  ReadConfig(project).partial), env), flags)
              /\ \A o \in Options : Resolve(user, project, env, flags).config[o] \in Allowed[o]
<1> DEFINE layers == <<ReadConfig(user), ReadConfig(project), Parse(env), Parse(flags)>>
           faulty == {i \in DOMAIN layers : layers[i].error # NoValue}
<1>1. ASSUME \A f \in {user, project} : ReadConfig(f).error = NoValue,
             InRange(env), InRange(flags)
      PROVE  Resolve(user, project, env, flags).error = NoValue
  <2>1. \A i \in DOMAIN layers : layers[i].error = NoValue
    <3>1. Parse(env).error = NoValue /\ Parse(flags).error = NoValue
      BY <1>1 DEF Parse
    <3> QED
      BY <1>1, <3>1
  <2>2. faulty = {}
    BY <2>1
  <2> QED
    BY <2>2 DEF Resolve
<1> HIDE DEF layers, faulty
<1> DEFINE resolved == Resolve(user, project, env, flags)
<1>2. resolved.error = NoValue =>
        /\ \A f \in {user, project} : ReadConfig(f).error = NoValue
        /\ InRange(env) /\ InRange(flags)
        /\ resolved.config = Over(Over(Over(Over(Default, ReadConfig(user).partial),
                                           ReadConfig(project).partial), env), flags)
        /\ \A o \in Options : resolved.config[o] \in Allowed[o]
  BY ResolvedIsSound
<1> QED
  BY <1>1, <1>2

-----------------------------------------------------------------------------
(* Types.                                                                  *)

LEMMA ModeType ==
  ASSUME NEW args PROVE ParseArgs(args).mode \in Modes \cup {NoValue}
<1>1. ASSUME NEW c PROVE ModeOf(c) \in Modes \cup {NoValue}
  BY DEF ModeOf, Modes
<1> QED
  BY <1>1 DEF ParseArgs

(* A process that talks to a daemon found a line limit in range.           *)
LEMMA LaunchType ==
  ASSUME NEW c \in Commands
  PROVE  /\ Launch(c).mode \in Modes \cup {None} /\ Launch(c).exit \in {None, 0, 1, 2}
         /\ Launch(c).exit = 0 => Launch(c).mode = "version"
         /\ Launch(c).exit = None =>
              /\ Launch(c).mode \in {"doctor", "tui", "jsonl"}
              /\ Resolve(c.user, c.project, c.env, ParseArgs(c.args).flags).error = NoValue
              /\ Launch(c).config =
                   Resolve(c.user, c.project, c.env, ParseArgs(c.args).flags).config
              /\ Size[Launch(c).config["jsonl_max_line_bytes"]] \in Nat
<1> DEFINE parsed == ParseArgs(c.args)
           resolved == Resolve(c.user, c.project, c.env, parsed.flags)
<1>1. parsed.mode \in Modes \cup {NoValue} /\ parsed.mode # "daemon"
  BY ModeType, CommandsAreClients
<1>2. ASSUME resolved.error = NoValue
      PROVE  Size[resolved.config["jsonl_max_line_bytes"]] \in Nat
  <2>1. resolved.config["jsonl_max_line_bytes"] \in Allowed["jsonl_max_line_bytes"]
    BY <1>2, CommandsAreClients, ResolvedIsSound DEF Options
  <2> QED
    BY <2>1, LimitsAreSizes
<1> HIDE DEF resolved
<1>3. CASE parsed.mode = NoValue
  <2>1. Launch(c) = [mode |-> None, exit |-> 2, config |-> NoValue]
    BY <1>3 DEF Launch
  <2> QED
    BY <2>1, NoneIsNoCode
<1>4. CASE parsed.mode = "version"
  <2>1. /\ Launch(c).mode = "version"
        /\ Launch(c).exit = IF InRange(parsed.flags) THEN 0 ELSE 2
    BY <1>4, MarksAreMarks DEF Launch, Modes
  <2> QED
    BY <2>1, NoneIsNoCode DEF Modes
<1>5. CASE parsed.mode \notin {NoValue, "version"}
  <2>1. Launch(c) = [mode |-> parsed.mode, config |-> resolved.config,
                     exit |-> IF resolved.error = NoValue THEN None
                              ELSE IF parsed.mode = "doctor" THEN 1 ELSE 2]
    BY <1>5 DEF Launch, resolved
  <2>2. parsed.mode \in {"doctor", "tui", "jsonl"}
    BY <1>1, <1>5 DEF Modes
  <2> QED
    BY <2>1, <2>2, <1>2, NoneIsNoCode DEF Modes, resolved
<1> QED
  BY <1>3, <1>4, <1>5


-----------------------------------------------------------------------------
(* The inductive invariant.                                                *)

IInv == TypeOK /\ SessionInv /\ VerdictIsProven

LEMMA InitHolds == Init => IInv
<1> SUFFICES ASSUME Init PROVE IInv
  OBVIOUS
<1>2. TypeOK
  <2>1. <<>> \in Seq(Bytes) /\ <<>> \in Seq(Answer) /\ Len(<<>>) = 0 /\ 0 \in 0 .. 0
    OBVIOUS
  <2>2. /\ command \in Commands \cup {None} /\ mode \in Modes \cup {"other", None}
        /\ pc \in ClientStates /\ safe \in BOOLEAN
    BY DEF Init, ClientStates
  <2>3. /\ limit \in Nat /\ exit \in {None, 0, 1, 2, 3, 4}
        /\ due \in Responses \cup {None} /\ report \in Codes \cup {None}
        /\ frame \in Frame \cup {None}
    BY DEF Init
  <2>4. /\ input \in Reader /\ Len(input.frame) <= limit
        /\ reader \in Reader /\ Len(reader.frame) <= DaemonLimit
    BY NewReaderType, LimitsAreSizes DEF Init
  <2>5. /\ script \in Seq(Bytes) /\ taken \in 0 .. Len(script) /\ printed \in Seq(Answer)
        /\ sending \in Seq(Bytes) /\ sent \in Seq(Bytes) /\ fetched \in 0 .. Len(sent)
        /\ received \in 0 .. fetched /\ replies \in Seq(Answer) /\ read \in 0 .. Len(replies)
    BY <2>1, Zenon DEF Init
  <2>6. /\ clientEnd \in {"open", "half", "closed"}
        /\ conn \in {"none", "backlog", "open", "closed", "reset"}
        /\ handler \in {"none", "checking", "reading", "answering"}
        /\ handshaken \in BOOLEAN /\ daemon \in {"running", "stopping", "gone"}
        /\ endpoint \in {"absent", "listening", "stale", "other"} /\ killed \in BOOLEAN
    BY DEF Init
  <2> QED
    BY <2>2, <2>3, <2>4, <2>5, <2>6, Zenon DEF TypeOK
<1>3. SessionInv
  BY NoneIsNoCode DEF Init, SessionInv, Responses
<1>4. VerdictIsProven
  BY NoneIsNoCode DEF Init, VerdictIsProven
<1> QED
  BY <1>2, <1>3, <1>4 DEF IInv

(* Steps that end the client or move it on, and change nothing else.       *)
LEMMA LookKeeps ==
  ASSUME IInv, Probe \/ LookForSocket \/ LookAtSocket \/ Quit PROVE IInv'
<1>1. /\ UNCHANGED <<starting, script, due, report, taken, input, printed, sending, read,
                     wire, thread, process>>
      /\ pc \in {"probe", "look", "stat", "showing"}
      /\ \/ pc' = "ended" /\ exit' \in {0, 1, 4} /\ clientEnd' = "closed"
            /\ (exit' = 0 => pc = "showing")
         \/ pc' \in {"look", "stat", "connect"} /\ UNCHANGED <<exit, clientEnd>>
            /\ pc # "showing"
  BY DEF Probe, LookForSocket, LookAtSocket, Quit, Exit
<1>2. TypeOK'
  BY <1>1 DEF IInv, TypeOK, ClientStates, starting, wire, thread, process
<1>3. SessionInv'
  <2>1. UNCHANGED <<mode, command, limit, due, report, taken, replies, read, handler, frame>>
    BY <1>1 DEF starting, wire, thread
  <2>2. pc' \notin {"start", "input", "sending", "awaiting"}
    BY <1>1
  <2>3. pc' \in {"probe", "look", "stat", "connect"} => due' = None /\ taken' = 0
    <3>1. pc' \in {"probe", "look", "stat", "connect"} => pc \in {"probe", "look", "stat"}
      BY <1>1
    <3>2. pc \in {"probe", "look", "stat"} => due = None /\ taken = 0
      BY DEF IInv, SessionInv
    <3> QED
      BY <2>1, <3>1, <3>2
  <2>4. pc' # "ended" => exit' = None /\ report' = None
    BY <1>1, <2>1 DEF IInv, SessionInv
  <2>5. /\ handler = "answering" => frame # None
        /\ \A i \in DOMAIN replies : replies[i].kind \in Responses => replies[i].code = None
        /\ due = "health.response" =>
             \E i \in 1 .. read : replies[i] = Success("handshake.response", HandshakeId)
    BY DEF IInv, SessionInv
  <2>6. pc' # "start" /\ pc' # "input" /\ pc' # "sending" /\ pc' # "awaiting"
    BY <2>2
  <2> HIDE <1>1
  <2> QED
    BY <2>1, <2>6, <2>3, <2>4, <2>5 DEF SessionInv
<1>4. VerdictIsProven'
  BY <1>1, NoneIsNoCode DEF IInv, SessionInv, VerdictIsProven, starting, wire, thread, process
<1> QED
  BY <1>2, <1>3, <1>4 DEF IInv

(* Steps of the thread and the daemon: the client is where it was, and at  *)
(* most one answer is added to those it may read.                          *)
LEMMA AnswersOnly ==
  ASSUME IInv, UNCHANGED <<starting, client>>, handler' = "answering" => frame' # None,
         \/ UNCHANGED replies
         \/ \E a \in Answer : /\ replies' = Append(replies, a)
                              /\ a.kind \in Responses => a.code = None
  PROVE  SessionInv' /\ VerdictIsProven'
<1>1. UNCHANGED <<command, mode, limit, pc, exit, due, report, taken, read>>
  BY DEF starting, client
<1>2. replies \in Seq(Answer) /\ read \in 0 .. Len(replies)
  BY DEF IInv, TypeOK
<1>3. /\ \A i \in DOMAIN replies : i \in DOMAIN replies' /\ replies'[i] = replies[i]
      /\ \A i \in DOMAIN replies' : replies'[i].kind \in Responses => replies'[i].code = None
  <2>1. \A i \in DOMAIN replies : replies[i].kind \in Responses => replies[i].code = None
    BY DEF IInv, SessionInv
  <2>2. CASE UNCHANGED replies
    BY <2>1, <2>2
  <2>3. ASSUME NEW a \in Answer, replies' = Append(replies, a),
               a.kind \in Responses => a.code = None
        PROVE  <1>3!1 /\ <1>3!2
    BY <2>1, <2>3, <1>2
  <2> QED
    BY <2>2, <2>3
<1>4. SessionInv'
  <2>1. due = "health.response" =>
          \E i \in 1 .. read : replies'[i] = Success("handshake.response", HandshakeId)
    <3>1. \A i \in 1 .. read : i \in DOMAIN replies
      BY <1>2
    <3> QED
      BY <3>1, <1>3 DEF IInv, SessionInv
  <2> QED
    BY <1>1, <1>3, <2>1 DEF IInv, SessionInv
<1>5. VerdictIsProven'
  BY <1>1, <1>3 DEF IInv, VerdictIsProven
<1> QED
  BY <1>4, <1>5

LEMMA HandlerKeeps ==
  ASSUME IInv, Handler PROVE IInv'
<1> USE DEF IInv
<1>1. CASE Check
  <2>1. TypeOK'
    BY <1>1 DEF TypeOK, Check, Close, starting, client, wire
  <2>2. handler' # "answering" /\ UNCHANGED <<starting, client, replies>>
    BY <1>1 DEF Check, Close, wire
  <2> QED
    BY <2>1, <2>2, AnswersOnly
<1>2. CASE ReadByte
  <2> DEFINE next == Take(reader, sent[received + 1], DaemonLimit)
  <2>1. /\ next.reader \in Reader /\ Len(next.reader.frame) <= DaemonLimit
        /\ next.frame \in Frame \cup {None}
    <3>1. sent[received + 1] \in Bytes /\ reader \in Reader /\ Len(reader.frame) <= DaemonLimit
      BY <1>2 DEF TypeOK, ReadByte
    <3> QED
      BY <3>1, TakeType, LimitsAreSizes
  <2> HIDE DEF next
  <2>2. /\ reader' = next.reader /\ frame' = next.frame /\ received' = received + 1
        /\ handler' = IF next.frame = None THEN "reading" ELSE "answering"
        /\ UNCHANGED <<starting, client, wire, handshaken, process>>
    BY <1>2 DEF ReadByte, next
  <2>3. received' \in 0 .. fetched' /\ fetched' \in 0 .. Len(sent)
    BY <1>2 DEF TypeOK, ReadByte
  <2>4. TypeOK'
    BY <2>1, <2>2, <2>3 DEF TypeOK, starting, client, wire, process
  <2>5. (handler' = "answering" => frame' # None) /\ UNCHANGED <<starting, client, replies>>
    BY <2>2 DEF wire
  <2> QED
    BY <2>4, <2>5, AnswersOnly
<1>3. CASE Pending
  <2>1. TypeOK'
    BY <1>3 DEF TypeOK, Pending, starting, client, wire, process
  <2>2. handler' # "answering" /\ UNCHANGED <<starting, client, replies>>
    BY <1>3 DEF Pending, wire
  <2> QED
    BY <2>1, <2>2, AnswersOnly
<1>4. CASE ReadEnd
  <2> DEFINE next == AtEnd(reader)
  <2>1. /\ next.reader \in Reader /\ Len(next.reader.frame) <= DaemonLimit
        /\ next.frame \in Frame /\ next.frame # None
    <3>1. reader \in Reader /\ Len(reader.frame) <= DaemonLimit /\ DaemonLimit \in Nat
      BY LimitsAreSizes DEF TypeOK
    <3> QED
      BY <3>1, AtEndType, NewReaderType, NoneIsNoCode
  <2> HIDE DEF next
  <2>2. /\ \/ Close /\ UNCHANGED reader
           \/ /\ reader' = next.reader /\ frame' = next.frame /\ handler' = "answering"
              /\ UNCHANGED conn
        /\ UNCHANGED <<starting, client, wire, fetched, received, handshaken, daemon,
                       endpoint, killed>>
    BY <1>4 DEF ReadEnd, next
  <2>3. TypeOK'
    BY <2>1, <2>2 DEF TypeOK, Close, starting, client, wire
  <2>4. (handler' = "answering" => frame' # None) /\ UNCHANGED <<starting, client, replies>>
    BY <2>1, <2>2 DEF Close, wire
  <2> QED
    BY <2>3, <2>4, AnswersOnly
<1>5. CASE Reply
  <2> DEFINE answer == Respond(frame, handshaken)
  <2>1. answer \in Answer /\ (answer.kind \in Responses => answer.code = None)
    <3>1. frame \in Frame /\ handshaken \in BOOLEAN
      BY <1>5 DEF TypeOK, SessionInv, Reply
    <3> QED
      BY <3>1, RespondType
  <2> HIDE DEF answer
  <2>2. /\ handshaken' = (handshaken \/ answer.kind = "handshake.response")
        /\ \/ Close /\ UNCHANGED replies
           \/ Close /\ replies' = Append(replies, answer)
           \/ /\ replies' = Append(replies, answer)
              /\ handler' = "checking" /\ frame' = None /\ UNCHANGED conn
        /\ UNCHANGED <<starting, client, sent, fetched, received, reader, daemon, endpoint, killed>>
    BY <1>5 DEF Reply, answer
  <2>3. TypeOK'
    <3>1. handshaken' \in BOOLEAN
      BY <2>2
    <3>2. replies' \in Seq(Answer) /\ read' \in 0 .. Len(replies')
      <4>1. replies \in Seq(Answer) /\ read \in 0 .. Len(replies) /\ read' = read
        BY <2>2 DEF TypeOK, client
      <4> QED
        BY <2>1, <2>2, <4>1, Appended
    <3>3. /\ frame' \in Frame \cup {None} /\ handler' \in {"none", "checking"}
          /\ conn' \in {"none", "backlog", "open", "closed", "reset"}
      BY <2>2 DEF TypeOK, Close
    <3>4. /\ UNCHANGED <<starting, sent, fetched, received, reader, daemon, endpoint, killed>>
          /\ UNCHANGED <<script, pc, exit, due, report, taken, input, printed, sending, clientEnd>>
      BY <2>2 DEF client
    <3> QED
      BY <3>1, <3>2, <3>3, <3>4 DEF TypeOK, starting
  <2>4. handler' # "answering" /\ UNCHANGED <<starting, client>>
        /\ (UNCHANGED replies \/ replies' = Append(replies, answer))
    BY <2>2 DEF Close
  <2> QED
    BY <2>1, <2>3, <2>4, AnswersOnly
<1> QED
  BY <1>1, <1>2, <1>3, <1>4, <1>5 DEF Handler

LEMMA DaemonKeeps ==
  ASSUME IInv, Daemon \/ Signal \/ Die \/ Rise PROVE IInv'
<1> USE DEF IInv
<1>1. CASE Refuse
  <2> DEFINE answer == Error(Fresh, "authorization.peer_uid")
  <2>1. answer \in Answer /\ (answer.kind \in Responses => answer.code = None)
    BY ErrorType DEF Codes, Responses
  <2> HIDE DEF answer
  <2>2. /\ UNCHANGED replies \/ replies' = Append(replies, answer)
        /\ conn' \in {"closed", "reset"}
        /\ UNCHANGED <<starting, client, sent, thread, daemon, endpoint, killed>>
    BY <1>1 DEF Refuse, answer
  <2>3. replies' \in Seq(Answer) /\ read' \in 0 .. Len(replies')
    <3>1. replies \in Seq(Answer) /\ read \in 0 .. Len(replies) /\ read' = read
      BY <2>2 DEF TypeOK, client
    <3> QED
      BY <2>1, <2>2, <3>1, Appended
  <2>4. TypeOK'
    BY <2>2, <2>3 DEF TypeOK, starting, client, thread
  <2>5. handler' = "answering" => frame' # None
    BY <2>2 DEF SessionInv, thread
  <2> QED
    BY <2>1, <2>2, <2>4, <2>5, AnswersOnly
<1>2. CASE Die
  <2>1. killed' \in BOOLEAN
    BY <1>2, Zenon DEF Die
  <2>2. /\ endpoint' \in {"absent", "listening", "stale", "other"} /\ daemon' = "gone"
        /\ conn' \in {"none", "backlog", "open", "closed", "reset"}
        /\ handler' = "none" /\ frame' = None
        /\ UNCHANGED <<starting, client, wire, fetched, received, reader, handshaken>>
    BY <1>2 DEF Die, TypeOK
  <2>3. TypeOK'
    BY <2>1, <2>2 DEF TypeOK, starting, client, wire
  <2>4. UNCHANGED <<starting, client, replies>>
    BY <2>2 DEF wire
  <2> QED
    BY <2>2, <2>3, <2>4, AnswersOnly
<1>3. CASE Accept \/ DropListener \/ CleanUp \/ Leave \/ Signal \/ Rise
  <2>1. /\ UNCHANGED <<starting, client, wire, fetched, received, reader, frame, handshaken, killed>>
        /\ handler' \in {handler, "checking"}
        /\ daemon' \in {"running", "stopping", "gone"}
        /\ endpoint' \in {endpoint, "absent", "listening", "stale"}
        /\ conn' \in {conn, "open", "reset"}
    BY <1>3 DEF Accept, DropListener, CleanUp, Leave, Signal, Rise, TypeOK, thread
  <2>2. TypeOK'
    BY <2>1 DEF TypeOK, starting, client, wire
  <2>3. (handler' = "answering" => frame' # None) /\ UNCHANGED <<starting, client, replies>>
    BY <2>1 DEF SessionInv, wire
  <2> QED
    BY <2>2, <2>3, AnswersOnly
<1> QED
  BY <1>1, <1>2, <1>3 DEF Daemon

(* Steps of the client before it has a request under way, and of another   *)
(* program.                                                                *)
LEMMA StartKeeps ==
  ASSUME IInv, Start PROVE IInv'
<1> USE DEF IInv
<1> DEFINE launch == Launch(command)
           size == Size[launch.config["jsonl_max_line_bytes"]]
<1>1. pc = "start" /\ limit = 0 /\ command \in Commands /\ due = None /\ report = None
      /\ exit = None /\ taken = 0
  BY DEF Start, SessionInv
<1>2. /\ launch.mode \in Modes \cup {None} /\ launch.exit \in {None, 0, 1, 2}
      /\ launch.exit = 0 => launch.mode = "version"
      /\ launch.exit = None => launch.mode \in {"doctor", "tui", "jsonl"} /\ size \in Nat
  BY <1>1, LaunchType
<1> HIDE DEF launch, size
<1>3. /\ mode' = launch.mode /\ command' = None
      /\ UNCHANGED <<safe, script, due, report, taken, input, printed, sending, read,
                     wire, thread, process>>
      /\ \/ /\ launch.exit # None /\ pc' = "ended" /\ exit' = launch.exit
            /\ clientEnd' = "closed" /\ limit' = limit
         \/ /\ launch.exit = None /\ limit' = size /\ pc' \in {"probe", "connect"}
            /\ UNCHANGED <<exit, clientEnd>>
  BY DEF Start, Exit, launch, size
<1>4. TypeOK'
  <2>1. limit' \in Nat /\ limit' >= 0
    BY <1>1, <1>2, <1>3
  <2>2. Len(input.frame) <= limit'
    BY <2>1, <1>1 DEF TypeOK, Reader
  <2>3. mode' \in Modes \cup {"other", None} /\ exit' \in {None, 0, 1, 2, 3, 4}
        /\ pc' \in ClientStates /\ clientEnd' \in {"open", "half", "closed"}
    BY <1>2, <1>3 DEF TypeOK, ClientStates
  <2> QED
    BY <2>1, <2>2, <2>3, <1>3 DEF TypeOK, wire, thread, process
<1>5. UNCHANGED <<due, report, replies, read, handler, frame>>
      /\ pc' \in {"ended", "probe", "connect"}
  BY <1>3 DEF wire, thread
<1>6. SessionInv'
  <2>1. pc' \notin {"start", "input", "sending", "awaiting"} /\ due' = None /\ report' = None
        /\ taken' = 0
    BY <1>1, <1>3, <1>5
  <2>2. pc' # "ended" => exit' = None
    BY <1>1, <1>3
  <2>3. due' # "health.response"
    BY <2>1, NoneIsNoCode DEF Responses
  <2>4. /\ handler = "answering" => frame # None
        /\ \A i \in DOMAIN replies : replies[i].kind \in Responses => replies[i].code = None
    BY DEF SessionInv
  <2> QED
    BY <1>5, <2>1, <2>2, <2>3, <2>4 DEF SessionInv
<1>7. VerdictIsProven'
  <2>1. ~(mode' = "doctor" /\ exit' = 0) /\ pc' # "showing"
    BY <1>1, <1>2, <1>3, <1>5, NoneIsNoCode
  <2> QED
    BY <2>1 DEF VerdictIsProven
<1> QED
  BY <1>4, <1>6, <1>7

LEMMA ConnectKeeps ==
  ASSUME IInv, Connect PROVE IInv'
<1> USE DEF IInv
<1>1. pc = "connect" /\ due = None /\ report = None /\ exit = None /\ taken = 0
  BY DEF Connect, SessionInv
<1>2. UNCHANGED <<starting, report, taken, input, printed, read, wire, thread, daemon,
                  endpoint, killed>>
  BY DEF Connect
<1>3. \/ /\ pc' = "ended" /\ exit' \in {1, 4} /\ clientEnd' = "closed"
         /\ UNCHANGED <<conn, due, sending, script>>
      \/ /\ conn' = "backlog" /\ mode \in {"jsonl", "other"}
         /\ pc' = (IF mode = "jsonl" THEN "input" ELSE "talking")
         /\ script' \in Scripts /\ UNCHANGED <<due, sending, exit, clientEnd>>
      \/ /\ conn' = "backlog" /\ mode \in {"doctor", "tui"}
         /\ pc' = "sending" /\ due' = "handshake.response"
         /\ sending' = HandshakeLine(HandshakeId) /\ UNCHANGED <<exit, clientEnd, script>>
  BY DEF Connect, Exit
<1>4. UNCHANGED <<mode, command, limit, report, taken, replies, read, handler, frame>>
  BY <1>2 DEF starting, wire, thread
<1>5. TypeOK'
  <2>1. HandshakeLine(HandshakeId) \in Seq(Bytes)
    BY IdsDiffer DEF HandshakeLine, Bytes, Messages, Newline
  <2>2. script' \in Seq(Bytes) /\ taken' \in 0 .. Len(script')
    BY <1>1, <1>3, <1>4, ScriptsAreBytes DEF TypeOK
  <2>3. /\ sending' \in Seq(Bytes) /\ due' \in Responses \cup {None}
        /\ pc' \in ClientStates /\ exit' \in {None, 0, 1, 2, 3, 4}
        /\ clientEnd' \in {"open", "half", "closed"}
        /\ conn' \in {"none", "backlog", "open", "closed", "reset"}
    BY <1>3, <2>1 DEF TypeOK, ClientStates, Responses
  <2> QED
    BY <1>2, <2>2, <2>3 DEF TypeOK, starting, wire, thread
<1>6. SessionInv'
  <2>1. /\ pc' \in {"ended", "input", "talking", "sending"} /\ report' = None
        /\ pc' = "input" => mode' = "jsonl"
        /\ pc' = "sending" => due' \in Responses
    BY <1>1, <1>3, <1>4 DEF Responses
  <2>2. pc' # "ended" => exit' = None
    BY <1>1, <1>3
  <2>3. due' # "health.response"
    BY <1>1, <1>3, NoneIsNoCode DEF Responses
  <2>4. /\ handler = "answering" => frame # None
        /\ \A i \in DOMAIN replies : replies[i].kind \in Responses => replies[i].code = None
    BY DEF SessionInv
  <2>5. pc' # "awaiting" /\ pc' \notin {"start", "probe", "look", "stat", "connect"}
    BY <2>1
  <2> QED
    BY <1>4, <2>1, <2>2, <2>3, <2>4, <2>5 DEF SessionInv
<1>7. VerdictIsProven'
  <2>1. ~(mode' = "doctor" /\ exit' = 0) /\ pc' # "showing"
    BY <1>1, <1>3, <1>4, NoneIsNoCode
  <2> QED
    BY <2>1 DEF VerdictIsProven
<1> QED
  BY <1>5, <1>6, <1>7

(* A request being written.                                                *)
LEMMA WriteKeeps ==
  ASSUME IInv, Write PROVE IInv'
<1> USE DEF IInv
<1>1. pc = "sending" /\ report = None /\ exit = None
  BY DEF Write, SessionInv
<1>2. UNCHANGED <<starting, script, due, report, taken, input, printed, read, replies,
                  thread, process>>
  BY DEF Write
<1>3. \/ /\ pc' = "ended" /\ exit' \in {1, 3} /\ clientEnd' = "closed"
         /\ UNCHANGED <<sending, sent>>
      \/ /\ pc' \in {"sending", "awaiting"} /\ UNCHANGED <<exit, clientEnd>>
         /\ \E n \in 1 .. Len(sending) :
              /\ sent' = sent \o SubSeq(sending, 1, n)
              /\ sending' = SubSeq(sending, n + 1, Len(sending))
  BY DEF Write, Exit, ProtocolExit
<1>4. UNCHANGED <<mode, command, limit, due, report, taken, replies, read, handler, frame,
                  fetched, received>>
  BY <1>2 DEF starting, thread
<1>5. sending' \in Seq(Bytes) /\ sent' \in Seq(Bytes) /\ Len(sent') >= Len(sent)
  <2>1. sending \in Seq(Bytes) /\ sent \in Seq(Bytes)
    BY DEF TypeOK
  <2>2. ASSUME NEW n \in 1 .. Len(sending)
        PROVE  /\ sent \o SubSeq(sending, 1, n) \in Seq(Bytes)
               /\ Len(sent \o SubSeq(sending, 1, n)) >= Len(sent)
               /\ SubSeq(sending, n + 1, Len(sending)) \in Seq(Bytes)
    <3>1. SubSeq(sending, 1, n) \in Seq(Bytes) /\ SubSeq(sending, n + 1, Len(sending)) \in Seq(Bytes)
      BY <2>1
    <3> DEFINE part == SubSeq(sending, 1, n)
    <3> HIDE DEF part
    <3>2. part \in Seq(Bytes)
      BY <3>1 DEF part
    <3>3. sent \o part \in Seq(Bytes) /\ Len(sent \o part) = Len(sent) + Len(part)
          /\ Len(part) \in Nat /\ Len(sent) \in Nat
      BY <2>1, <3>2
    <3> QED
      BY <3>1, <3>3 DEF part
  <2>3. CASE UNCHANGED <<sending, sent>>
    BY <2>1, <2>3
  <2> QED
    BY <1>3, <2>2, <2>3
<1>6. TypeOK'
  <2>1. fetched' \in 0 .. Len(sent') /\ received' \in 0 .. fetched'
    BY <1>4, <1>5 DEF TypeOK
  <2>2. /\ pc' \in ClientStates /\ exit' \in {None, 0, 1, 2, 3, 4}
        /\ clientEnd' \in {"open", "half", "closed"}
    BY <1>3 DEF TypeOK, ClientStates
  <2> QED
    BY <1>2, <1>5, <2>1, <2>2 DEF TypeOK, starting, thread, process
<1>7. SessionInv'
  <2>1. /\ pc' \in {"ended", "sending", "awaiting"}
        /\ pc' # "ended" => exit' = None
    BY <1>1, <1>3
  <2>2. pc' \notin {"start", "input", "probe", "look", "stat", "connect"}
    BY <2>1
  <2>3. mode \in {"doctor", "tui"} => due \in Responses
    BY <1>1 DEF SessionInv
  <2>4. /\ handler = "answering" => frame # None
        /\ \A i \in DOMAIN replies : replies[i].kind \in Responses => replies[i].code = None
        /\ due = "health.response" =>
             \E i \in 1 .. read : replies[i] = Success("handshake.response", HandshakeId)
    BY DEF SessionInv
  <2> QED
    BY <1>1, <1>4, <2>1, <2>2, <2>3, <2>4 DEF SessionInv
<1>8. VerdictIsProven'
  <2>1. ~(mode' = "doctor" /\ exit' = 0) /\ pc' # "showing"
    BY <1>1, <1>3, <1>4, NoneIsNoCode
  <2> QED
    BY <2>1 DEF VerdictIsProven
<1> QED
  BY <1>6, <1>7, <1>8

(* An answer, or the end of the connection, comes to jsonl ...             *)
LEMMA ForwardKeeps ==
  ASSUME IInv, NEW answer \in Answer \cup {None}, Forward(answer), pc = "awaiting",
         UNCHANGED <<starting, script, taken, input, wire, thread, process>>,
         read' \in read .. Len(replies)
  PROVE  IInv'
<1> USE DEF IInv
<1>1. /\ mode = "jsonl" /\ pc' = "input" /\ UNCHANGED <<exit, clientEnd, due, report, sending>>
      /\ printed' = IF answer = None THEN printed ELSE Append(printed, answer)
  BY DEF Forward
<1>2. UNCHANGED <<mode, command, limit, taken, replies, handler, frame>>
  BY DEF starting, wire, thread
<1>3. exit = None /\ report = None /\ read \in 0 .. Len(replies) /\ replies \in Seq(Answer)
  BY DEF SessionInv, TypeOK
<1>4. TypeOK'
  <2>1. printed' \in Seq(Answer)
    <3>1. printed \in Seq(Answer) /\ 0 \in 0 .. Len(printed)
      BY DEF TypeOK
    <3> QED
      BY <1>1, <3>1, Appended
  <2>2. read' \in 0 .. Len(replies') /\ pc' \in ClientStates
    BY <1>1, <1>2, <1>3 DEF ClientStates
  <2> QED
    BY <1>1, <2>1, <2>2 DEF TypeOK, starting, wire, thread, process
<1>5. SessionInv'
  <2>1. due' = "health.response" =>
          \E i \in 1 .. read' : replies'[i] = Success("handshake.response", HandshakeId)
    <3>1. 1 .. read \subseteq 1 .. read'
      BY <1>3
    <3> QED
      BY <1>1, <1>2, <3>1 DEF SessionInv
  <2>2. /\ handler = "answering" => frame # None
        /\ \A i \in DOMAIN replies : replies[i].kind \in Responses => replies[i].code = None
    BY DEF SessionInv
  <2>3. pc' = "input" /\ mode' = "jsonl" /\ exit' = None /\ report' = None
    BY <1>1, <1>2, <1>3
  <2> QED
    BY <1>2, <2>1, <2>2, <2>3 DEF SessionInv
<1>6. VerdictIsProven'
  BY <1>1, <1>2, <1>3, NoneIsNoCode DEF VerdictIsProven
<1> QED
  BY <1>4, <1>5, <1>6

(* ... or to doctor and tui.                                               *)
LEMMA AdvanceKeeps ==
  ASSUME IInv, NEW answer \in Answer \cup {None}, Advance(answer), pc = "awaiting",
         UNCHANGED <<starting, script, taken, input, wire, thread, process>>,
         \/ answer = None /\ read' = read
         \/ read < Len(replies) /\ read' = read + 1 /\ answer = replies[read + 1]
  PROVE  IInv'
<1> USE DEF IInv
<1>1. UNCHANGED <<mode, command, limit, taken, replies, handler, frame>>
  BY DEF starting, wire, thread
<1>2. /\ exit = None /\ report = None /\ read \in 0 .. Len(replies) /\ replies \in Seq(Answer)
      /\ mode \in {"doctor", "tui"} /\ due \in Responses
  BY DEF SessionInv, TypeOK, Advance
<1>3. /\ read' \in 0 .. Len(replies) /\ read' >= read
  BY <1>2
<1>4. /\ handler = "answering" => frame # None
      /\ \A i \in DOMAIN replies : replies[i].kind \in Responses => replies[i].code = None
      /\ due = "health.response" =>
           \E i \in 1 .. read' : replies[i] = Success("handshake.response", HandshakeId)
  <2>1. 1 .. read \subseteq 1 .. read'
    BY <1>2, <1>3
  <2> QED
    BY <2>1 DEF SessionInv
<1>5. CASE ~Matches(answer, due, IdOf(due))
  <2>1. /\ UNCHANGED <<due, sending, printed>> /\ pc' = "ended" /\ exit' \in {1, 3}
        /\ clientEnd' = "closed" /\ report' = FailureCode(answer, IdOf(due))
    BY <1>5 DEF Advance, Exit, ProtocolExit
  <2>2. report' \in Codes \cup {None}
    BY <2>1 DEF FailureCode, Answer, Codes
  <2>3. TypeOK'
    BY <1>1, <1>3, <2>1, <2>2 DEF TypeOK, ClientStates, starting, wire, thread, process
  <2>4. SessionInv'
    BY <1>1, <1>4, <2>1 DEF SessionInv
  <2>5. VerdictIsProven'
    BY <2>1 DEF VerdictIsProven
  <2> QED
    BY <2>3, <2>4, <2>5
<1>6. CASE Matches(answer, due, IdOf(due))
  <2>1. /\ answer = replies[read + 1] /\ read' = read + 1 /\ read' \in DOMAIN replies
        /\ answer \in Answer /\ answer.kind = due /\ answer.correlation = IdOf(due)
    BY <1>2, <1>6 DEF Matches
  <2>2. answer = Success(due, IdOf(due))
    <3>1. answer.code = None
      BY <1>2, <1>4, <2>1
    <3> QED
      BY <2>1, <3>1 DEF Success, Answer
  <2>3. UNCHANGED <<report, printed>>
    BY <1>6 DEF Advance
  <2>4. CASE due = "handshake.response"
    <3>1. /\ pc' = "sending" /\ due' = "health.response" /\ sending' = HealthLine(HealthId)
          /\ UNCHANGED <<exit, clientEnd>>
      BY <1>6, <2>4 DEF Advance
    <3>2. HealthLine(HealthId) \in Seq(Bytes)
      BY IdsDiffer DEF HealthLine, Bytes, Messages, Newline
    <3>3. pc' \in ClientStates /\ due' \in Responses
      BY <3>1 DEF ClientStates, Responses
    <3>4. TypeOK'
      BY <1>1, <1>3, <2>3, <3>1, <3>2, <3>3 DEF TypeOK, starting, wire, thread, process
    <3>5. \E i \in 1 .. read' : replies[i] = Success("handshake.response", HandshakeId)
      <4>1. replies[read'] = Success("handshake.response", HandshakeId)
        BY <2>1, <2>2, <2>4 DEF IdOf
      <4>2. read' \in 1 .. read'
        BY <1>2, <2>1
      <4> QED
        BY <4>1, <4>2
    <3>6. SessionInv'
      BY <1>1, <1>2, <1>4, <2>3, <3>1, <3>3, <3>5 DEF SessionInv
    <3>7. VerdictIsProven'
      BY <1>1, <1>2, <2>3, <3>1, NoneIsNoCode DEF VerdictIsProven
    <3> QED
      BY <3>4, <3>6, <3>7
  <2>5. CASE due # "handshake.response"
    <3>1. due = "health.response"
      BY <1>2, <2>5 DEF Responses
    <3>2. /\ UNCHANGED <<due, sending>>
          /\ \/ pc' = "ended" /\ exit' = 0 /\ clientEnd' = "closed"
             \/ pc' = "showing" /\ UNCHANGED <<exit, clientEnd>>
      BY <1>6, <2>5 DEF Advance, Exit
    <3>3. TypeOK'
      BY <1>1, <1>3, <2>3, <3>2 DEF TypeOK, ClientStates, starting, wire, thread, process
    <3>4. SessionInv'
      <4>1. pc' \in {"ended", "showing"} /\ (pc' # "ended" => exit' = None) /\ report' = None
        BY <1>2, <2>3, <3>2
      <4>2. \E i \in 1 .. read' : replies[i] = Success("handshake.response", HandshakeId)
        BY <1>4, <3>1
      <4> QED
        BY <1>1, <1>4, <3>2, <4>1, <4>2 DEF SessionInv
    <3>5. VerdictIsProven'
      <4>1. PICK i \in 1 .. read : replies[i] = Success("handshake.response", HandshakeId)
        BY <3>1 DEF SessionInv
      <4>2. replies[read + 1] = Success("health.response", HealthId)
        BY <2>1, <2>2, <3>1 DEF IdOf
      <4>3. i \in DOMAIN replies /\ read + 1 \in DOMAIN replies /\ i < read + 1
        BY <1>2, <2>1
      <4> QED
        BY <1>1, <1>2, <2>3, <4>1, <4>2, <4>3, NoneIsNoCode DEF VerdictIsProven
    <3> QED
      BY <3>3, <3>4, <3>5
  <2> QED
    BY <2>4, <2>5
<1> QED
  BY <1>5, <1>6

LEMMA ReceiveKeeps ==
  ASSUME IInv, Receive \/ ReceiveEnd PROVE IInv'
<1>1. pc = "awaiting" /\ read \in 0 .. Len(replies) /\ replies \in Seq(Answer)
      /\ UNCHANGED <<starting, script, taken, input, wire, thread, process>>
  BY DEF Receive, ReceiveEnd, IInv, TypeOK
<1>2. CASE Receive
  <2> DEFINE answer == replies[read + 1]
  <2>1. answer \in Answer /\ read < Len(replies) /\ read' = read + 1
        /\ read' \in read .. Len(replies)
    BY <1>1, <1>2 DEF Receive
  <2>2. Forward(answer) \/ Advance(answer)
    BY <1>2 DEF Receive
  <2> QED
    BY <1>1, <2>1, <2>2, ForwardKeeps, AdvanceKeeps
<1>3. CASE ReceiveEnd
  <2>1. read' = read /\ read' \in read .. Len(replies)
    BY <1>1, <1>3 DEF ReceiveEnd
  <2>2. CASE Forward(None)
    BY <1>1, <2>1, <2>2, ForwardKeeps
  <2>3. CASE Advance(None)
    BY <1>1, <2>1, <2>3, AdvanceKeeps
  <2>4. CASE Exit(ProtocolExit) /\ UNCHANGED <<printed, due, report, sending>>
    <3>1. /\ pc' = "ended" /\ exit' \in {1, 3} /\ clientEnd' = "closed"
          /\ UNCHANGED <<printed, due, report, sending>>
      BY <2>4 DEF Exit, ProtocolExit
    <3>2. TypeOK'
      BY <1>1, <2>1, <3>1 DEF IInv, TypeOK, ClientStates, starting, wire, thread, process
    <3>3. SessionInv'
      BY <1>1, <2>1, <3>1 DEF IInv, SessionInv, starting, wire, thread
    <3>4. VerdictIsProven'
      BY <3>1 DEF VerdictIsProven
    <3> QED
      BY <3>2, <3>3, <3>4 DEF IInv
  <2> QED
    BY <1>3, <2>2, <2>3, <2>4 DEF ReceiveEnd
<1> QED
  BY <1>2, <1>3

(* A piece of standard input, or its end.                                  *)
LEMMA ReadInputKeeps ==
  ASSUME IInv, ReadInput PROVE IInv'
<1> USE DEF IInv
<1>1. /\ pc = "input" /\ mode = "jsonl" /\ exit = None /\ report = None
      /\ limit \in Nat /\ input \in Reader /\ Len(input.frame) <= limit
      /\ script \in Seq(Bytes) /\ taken \in 0 .. Len(script) /\ printed \in Seq(Answer)
  BY DEF ReadInput, SessionInv, TypeOK
<1>2. PICK next, count :
        /\ Typed(next, count) /\ count \in 0 .. Len(script)
        /\ next.reader \in Reader /\ Len(next.reader.frame) <= limit
        /\ next.frame \in Frame \cup {None}
  <2>1. CASE taken < Len(script)
    <3>1. script[taken + 1] \in Bytes /\ taken + 1 \in 0 .. Len(script)
      BY <1>1, <2>1
    <3>2. Typed(Take(input, script[taken + 1], limit), taken + 1)
      BY <2>1 DEF ReadInput
    <3> QED
      BY <1>1, <3>1, <3>2, TakeType
  <2>2. CASE ~(taken < Len(script))
    <3>1. Typed(AtEnd(input), taken)
      BY <2>2 DEF ReadInput
    <3>2. AtEnd(input).reader \in Reader /\ Len(AtEnd(input).reader.frame) <= limit
          /\ AtEnd(input).frame \in Frame
      BY <1>1, AtEndType, NewReaderType
    <3> QED
      BY <1>1, <3>1, <3>2
  <2> QED
    BY <2>1, <2>2
<1>3. /\ input' = next.reader /\ taken' = count
      /\ UNCHANGED <<starting, script, due, report, read, wire, thread, process>>
  BY <1>2 DEF Typed
<1>4. /\ \/ pc' = "ended" /\ exit' = 0 /\ clientEnd' = "closed"
         \/ pc' \in {"input", "sending"} /\ UNCHANGED <<exit, clientEnd>>
      /\ \/ UNCHANGED sending
         \/ next.frame \in Frame /\ sending' = next.frame.bytes
      /\ \/ UNCHANGED printed
         \/ next.frame \in Frame /\ printed' = Append(printed, FrameError(next.frame))
  BY <1>1, <1>2 DEF Typed, Exit
<1>5. printed' \in Seq(Answer) /\ sending' \in Seq(Bytes)
  <2>1. sending' \in Seq(Bytes)
    BY <1>4 DEF TypeOK, Frame
  <2>2. ASSUME next.frame \in Frame, printed' = Append(printed, FrameError(next.frame))
        PROVE  printed' \in Seq(Answer)
    <3>1. FrameError(next.frame) \in Answer /\ 0 \in 0 .. Len(printed)
      BY <1>1, <2>2, FrameErrorType
    <3> QED
      BY <1>1, <2>2, <3>1, Appended
  <2> QED
    BY <1>1, <1>4, <2>1, <2>2
<1>6. TypeOK'
  <2>1. pc' \in ClientStates /\ exit' \in {None, 0, 1, 2, 3, 4}
        /\ clientEnd' \in {"open", "half", "closed"}
    BY <1>4 DEF TypeOK, ClientStates
  <2>2. input' \in Reader /\ Len(input'.frame) <= limit' /\ taken' \in 0 .. Len(script')
    BY <1>2, <1>3 DEF starting
  <2> QED
    BY <1>3, <1>5, <2>1, <2>2 DEF TypeOK, starting, wire, thread, process
<1>7. UNCHANGED <<mode, command, limit, due, report, replies, read, handler, frame>>
  BY <1>3 DEF starting, wire, thread
<1>8. SessionInv'
  <2>1. /\ pc' \in {"ended", "input", "sending"} /\ (pc' # "ended" => exit' = None)
        /\ report' = None /\ mode' = "jsonl"
    BY <1>1, <1>4, <1>7
  <2>2. /\ handler = "answering" => frame # None
        /\ \A i \in DOMAIN replies : replies[i].kind \in Responses => replies[i].code = None
        /\ due = "health.response" =>
             \E i \in 1 .. read : replies[i] = Success("handshake.response", HandshakeId)
    BY DEF SessionInv
  <2> QED
    BY <1>7, <2>1, <2>2 DEF SessionInv
<1>9. VerdictIsProven'
  <2>1. mode' = "jsonl" /\ pc' # "showing" /\ report' = None
    BY <1>1, <1>4, <1>7
  <2> QED
    BY <2>1 DEF VerdictIsProven
<1> QED
  BY <1>6, <1>8, <1>9

LEMMA TalkKeeps ==
  ASSUME IInv, Talk \/ HangUp PROVE IInv'
<1> USE DEF IInv
<1>1. /\ pc = "talking" /\ exit = None /\ report = None
      /\ UNCHANGED <<starting, script, exit, due, report, input, printed, sending, read,
                     replies, thread, process>>
      /\ \/ /\ pc' = "ended" /\ clientEnd' \in {"half", "closed"} /\ UNCHANGED <<taken, sent>>
         \/ /\ pc' = "talking" /\ clientEnd' = clientEnd /\ taken < Len(script)
            /\ taken' = taken + 1 /\ sent' = Append(sent, script[taken + 1])
  BY DEF Talk, HangUp, SessionInv, wire
<1>2. UNCHANGED <<mode, command, limit, replies, handler, frame, fetched, received>>
  BY <1>1 DEF starting, thread
<1>3. /\ sent' \in Seq(Bytes) /\ fetched' \in 0 .. Len(sent') /\ received' \in 0 .. fetched'
      /\ taken' \in 0 .. Len(script')
  <2>1. /\ sent \in Seq(Bytes) /\ fetched \in 0 .. Len(sent) /\ received \in 0 .. fetched
        /\ taken \in 0 .. Len(script) /\ script \in Seq(Bytes)
    BY DEF TypeOK
  <2>2. CASE UNCHANGED <<taken, sent>>
    BY <1>1, <1>2, <2>1, <2>2
  <2>3. CASE taken < Len(script) /\ taken' = taken + 1 /\ sent' = Append(sent, script[taken + 1])
    <3>1. script[taken + 1] \in Bytes /\ taken' \in 0 .. Len(script')
      BY <1>1, <2>1, <2>3
    <3>2. sent' \in Seq(Bytes) /\ fetched \in 0 .. Len(sent')
      BY <2>1, <2>3, <3>1, Appended
    <3> QED
      BY <1>2, <2>1, <3>1, <3>2
  <2> QED
    BY <1>1, <2>2, <2>3
<1>4. TypeOK'
  <2>1. pc' \in ClientStates /\ clientEnd' \in {"open", "half", "closed"}
    BY <1>1 DEF TypeOK, ClientStates
  <2> QED
    BY <1>1, <1>3, <2>1 DEF TypeOK, starting, thread, process
<1>5. SessionInv'
  <2>1. pc' \in {"ended", "talking"} /\ exit' = None /\ report' = None
    BY <1>1
  <2>2. /\ handler = "answering" => frame # None
        /\ \A i \in DOMAIN replies : replies[i].kind \in Responses => replies[i].code = None
        /\ due = "health.response" =>
             \E i \in 1 .. read : replies[i] = Success("handshake.response", HandshakeId)
    BY DEF SessionInv
  <2>3. UNCHANGED <<due, read>>
    BY <1>1
  <2> QED
    BY <1>2, <2>1, <2>2, <2>3 DEF SessionInv
<1>6. VerdictIsProven'
  BY <1>1, NoneIsNoCode DEF VerdictIsProven
<1> QED
  BY <1>4, <1>5, <1>6

LEMMA StepKeeps == IInv /\ [Next]_vars => IInv'
<1> SUFFICES ASSUME IInv, [Next]_vars PROVE IInv'
  OBVIOUS
<1>1. CASE UNCHANGED vars
  <2>1. UNCHANGED <<starting, client, wire, thread, process>>
    BY <1>1 DEF vars
  <2>2. TypeOK'
    BY <2>1 DEF IInv, TypeOK, starting, client, wire, thread, process
  <2>3. handler' = "answering" => frame' # None
    BY <2>1 DEF IInv, SessionInv, thread
  <2>4. UNCHANGED <<starting, client, replies>>
    BY <2>1 DEF wire
  <2> QED
    BY <2>2, <2>3, <2>4, AnswersOnly DEF IInv
<1>2. CASE Next
  BY <1>2, StartKeeps, LookKeeps, ConnectKeeps, WriteKeeps, ReceiveKeeps, ReadInputKeeps,
     TalkKeeps, HandlerKeeps, DaemonKeeps DEF Next, Client
<1> QED
  BY <1>1, <1>2

THEOREM Invariance == Spec => []IInv
  BY InitHolds, StepKeeps, PTL DEF Spec

(* Every variable keeps its type; no FrameReader, of the daemon or of the  *)
(* JSONL client, ever holds more than its limit of a line, whatever is     *)
(* sent (FrameReader::next).                                               *)
THEOREM TypeCorrect == Spec => []TypeOK
<1>1. IInv => TypeOK
  BY DEF IInv
<1> QED
  BY <1>1, Invariance, PTL

(* doctor reports a healthy daemon, and tui shows one, only if the daemon  *)
(* accepted its handshake and then answered its health request.            *)
THEOREM HealthIsProven == Spec => []VerdictIsProven
<1>1. IInv => VerdictIsProven
  BY DEF IInv
<1> QED
  BY <1>1, Invariance, PTL

-----------------------------------------------------------------------------
(* The configuration a client starts with.                                 *)

LEMMA HighestDecides ==
  ASSUME NEW c, NEW o \in Options
  PROVE  Over(Over(Over(Over(Default, ReadConfig(c.user).partial),
                        ReadConfig(c.project).partial), c.env), ParseArgs(c.args).flags)[o]
           = Highest(c, o)
<1> DEFINE layers == <<ParseArgs(c.args).flags, c.env, ReadConfig(c.project).partial,
                       ReadConfig(c.user).partial, Default>>
           Sets(k) == layers[k][o] # NoValue /\ \A j \in 1 .. k - 1 : layers[j][o] = NoValue
           highest == CHOOSE k \in DOMAIN layers : Sets(k)
           value == Over(Over(Over(Over(Default, ReadConfig(c.user).partial),
                        ReadConfig(c.project).partial), c.env), ParseArgs(c.args).flags)[o]
<1>1. DOMAIN layers = 1 .. 5 /\ Highest(c, o) = layers[highest][o]
  BY DEF Highest
<1>2. layers[5][o] # NoValue
  BY DefaultsAllowed, MarksAreMarks
<1>3. value = IF layers[1][o] # NoValue THEN layers[1][o]
              ELSE IF layers[2][o] # NoValue THEN layers[2][o]
              ELSE IF layers[3][o] # NoValue THEN layers[3][o]
              ELSE IF layers[4][o] # NoValue THEN layers[4][o]
              ELSE layers[5][o]
  BY DEF Over
<1> HIDE DEF layers
<1>4. PICK k \in 1 .. 5 : Sets(k) /\ value = layers[k][o]
  BY <1>2, <1>3
<1>5. highest \in 1 .. 5 /\ Sets(highest)
  BY <1>1, <1>4
<1> HIDE DEF highest
<1>6. highest = k
  <2>1. ASSUME highest < k PROVE FALSE
    <3>1. highest \in 1 .. k - 1
      BY <1>4, <1>5, <2>1
    <3> QED
      BY <1>4, <1>5, <3>1
  <2>2. ASSUME k < highest PROVE FALSE
    <3>1. k \in 1 .. highest - 1
      BY <1>4, <1>5, <2>2
    <3> QED
      BY <1>4, <1>5, <3>1
  <2> QED
    BY <1>4, <1>5, <2>1, <2>2
<1> QED
  BY <1>1, <1>4, <1>6

(* A client that looks for a daemon found no fault in any layer, and its   *)
(* line limit is the highest layer's (config::resolve, main).              *)
THEOREM ConfigurationHolds == Spec => StartsConfigured
<1> DEFINE Step == pc = "start" /\ pc' \in {"probe", "connect"} =>
                     /\ ~Faulty(command)
                     /\ limit' = Size[Highest(command, "jsonl_max_line_bytes")]
<1>1. IInv /\ [Next]_vars => [Step]_vars
  <2> SUFFICES ASSUME IInv, Next, pc = "start", pc' \in {"probe", "connect"}
               PROVE  /\ ~Faulty(command)
                      /\ limit' = Size[Highest(command, "jsonl_max_line_bytes")]
    OBVIOUS
  <2>1. Start
    <3>1. ~Client
      BY DEF Client, Probe, LookForSocket, LookAtSocket, Connect, Write, Receive, ReceiveEnd,
             ReadInput
    <3>2. ~Talk /\ ~HangUp /\ ~Quit
      BY DEF Talk, HangUp, Quit
    <3>3. Handler => UNCHANGED client
      BY DEF Handler, Check, ReadByte, Pending, ReadEnd, Reply
    <3>4. Daemon \/ Signal \/ Die \/ Rise => UNCHANGED client
      BY DEF Daemon, Accept, Refuse, DropListener, CleanUp, Leave, Signal, Die, Rise
    <3>5. ~(UNCHANGED client)
      BY DEF client
    <3> QED
      BY <3>1, <3>2, <3>3, <3>4, <3>5 DEF Next
  <2>2. command \in Commands
    BY DEF IInv, SessionInv
  <2> DEFINE c == command
             launch == Launch(command)
             flags == ParseArgs(command.args).flags
  <2>3. launch.exit = None /\ limit' = Size[launch.config["jsonl_max_line_bytes"]]
    BY <2>1 DEF Start, Exit
  <2>4. /\ Resolve(c.user, c.project, c.env, flags).error = NoValue
        /\ launch.config = Resolve(c.user, c.project, c.env, flags).config
    BY <2>2, <2>3, LaunchType
  <2>5. c.user \in Entries \cup {Absent, Unreadable}
        /\ c.project \in Entries \cup {Absent, Unreadable}
    BY <2>2, CommandsAreClients
  <2>6. /\ \A f \in {c.user, c.project} : ReadConfig(f).error = NoValue
        /\ InRange(c.env) /\ InRange(flags)
        /\ launch.config = Over(Over(Over(Over(Default, ReadConfig(c.user).partial),
                                     ReadConfig(c.project).partial), c.env), flags)
    BY <2>4, <2>5, ResolvedIsSound
  <2>7. ~Faulty(command)
    BY <2>6 DEF Faulty
  <2>8. launch.config["jsonl_max_line_bytes"] = Highest(command, "jsonl_max_line_bytes")
    BY <2>6, HighestDecides DEF Options
  <2> QED
    BY <2>3, <2>7, <2>8
<1> QED
  BY <1>1, Invariance, PTL DEF Spec, StartsConfigured
=============================================================================
