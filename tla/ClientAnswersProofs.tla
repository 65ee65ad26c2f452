------------------------ MODULE ClientAnswersProofs ------------------------
(***************************************************************************)
(* That every line has its answer, proved about ClientSession for all      *)
(* streams, scripts and limits: what the handler thread (handle_client of  *)
(* src/src/main.rs) writes are the answers to the lines of the stream, in  *)
(* order, and what run --jsonl prints are the answers to the lines typed.  *)
(***************************************************************************)
EXTENDS ClientLinesProofs

(* The handler has read i bytes of the stream b, and its reader is r; it   *)
(* has answered the first frames with rp, and f is the next if it is       *)
(* answering; its flag says whether one of those answers opened it.        *)
Served(b, ended, i, r, h, f, rp, flag) ==
  LET frames == FramesAt(b, ended, DaemonLimit)
      n      == Len(rp) + (IF h = "answering" THEN 1 ELSE 0)
  IN  /\ Tracks(b, ended, i, r, n, DaemonLimit)
      /\ flag <=> Opens(frames, Len(rp))
      /\ h = "answering" => n \in DOMAIN frames /\ f = frames[n]

Told(b, ended, rp) == IsPrefixOf(rp, AnswersTo(FramesAt(b, ended, DaemonLimit)))

Unaccepted == fetched = 0 /\ received = 0 /\ reader = NewReader /\ ~handshaken /\ replies = <<>>
Launching  == {"start", "probe", "look", "stat", "connect"}

(* What keeps AnsweredInOrder true: a connection nobody accepted has heard *)
(* nothing, a stream that ended does not go on, and the thread of an open  *)
(* connection is where the stream and its answers say.                     *)
ThreadInv ==
  /\ pc \in Launching => conn = "none" /\ sent = <<>>
  /\ conn \in {"none", "backlog"} => Unaccepted
  /\ handler # "none" => conn = "open"
  /\ clientEnd # "open" => pc = "ended"
  /\ handler # "none" =>
       Served(sent, clientEnd # "open", received, reader, handler, frame, replies, handshaken)
  /\ Told(sent, clientEnd # "open", replies) \/ (Refused /\ handler = "none")

-----------------------------------------------------------------------------
(* What the handler does to a stream.                                      *)

(* A reader gives no more frames than the stream has lines.                *)
LEMMA TrackedIn ==
  ASSUME NEW b \in Seq(Bytes), NEW ended \in BOOLEAN, NEW i \in 0 .. Len(b), NEW r, NEW n,
         NEW max \in Nat, Tracks(b, ended, i, r, n, max)
  PROVE  n \in 0 .. Len(Lines(b, ended)) /\ n \in Nat
<1> DEFINE k == Cardinality(Newlines(b))
<1>1. Rank(b, i) \in 0 .. k /\ Rank(b, i) \in Nat /\ k \in Nat
  BY RankIn, NewlinesFinite
<1>2. Len(Lines(b, ended)) = IF ended /\ Partial(b, Len(b)) # <<>> THEN k + 1 ELSE k
  BY LinesAre
<1> HIDE DEF k
<1>3. CASE n = Rank(b, i)
  BY <1>1, <1>2, <1>3
<1>4. CASE ended /\ i = Len(b) /\ Partial(b, i) # <<>> /\ n = Rank(b, i) + 1
  <2>1. Len(Lines(b, ended)) = k + 1
    BY <1>2, <1>4
  <2>2. n = Rank(b, i) + 1
    BY <1>4
  <2> QED
    BY <1>1, <2>1, <2>2
<1> QED
  BY <1>3, <1>4 DEF Tracks

(* A handler that is not answering has answered every frame it was given.  *)
LEMMA ServedIdle ==
  ASSUME NEW b, NEW ended, NEW i, NEW r, NEW h, NEW f, NEW rp \in Seq(Answer), NEW flag,
         h # "answering"
  PROVE  /\ Len(rp) \in Nat
         /\ Served(b, ended, i, r, h, f, rp, flag) <=>
              /\ Tracks(b, ended, i, r, Len(rp), DaemonLimit)
              /\ flag <=> Opens(FramesAt(b, ended, DaemonLimit), Len(rp))
<1>1. Len(rp) \in Nat /\ Len(rp) + (IF h = "answering" THEN 1 ELSE 0) = Len(rp)
  OBVIOUS
<1> QED
  BY <1>1 DEF Served

LEMMA ServedStart ==
  ASSUME NEW b \in Seq(Bytes), NEW ended \in BOOLEAN, NEW f
  PROVE  Served(b, ended, 0, NewReader, "checking", f, <<>>, FALSE)
<1>1. Tracks(b, ended, 0, NewReader, 0, DaemonLimit)
  BY TracksStart, LimitsAreSizes
<1>2. ~Opens(FramesAt(b, ended, DaemonLimit), 0)
  BY DEF Opens
<1>3. Len(<<>>) = 0
  OBVIOUS
<1> QED
  BY <1>1, <1>2, <1>3 DEF Served

(* More is written, or the stream ends.                                    *)
Grows(b, c, i, r, h, f, rp, flag) ==
  IsPrefixOf(b, c) /\ Served(b, FALSE, i, r, h, f, rp, flag)

LEMMA ServedGrows ==
  ASSUME NEW b \in Seq(Bytes), NEW c \in Seq(Bytes), NEW ended \in BOOLEAN,
         NEW i \in 0 .. Len(b), NEW r, NEW h, NEW f, NEW rp \in Seq(Answer),
         NEW flag \in BOOLEAN, Grows(b, c, i, r, h, f, rp, flag)
  PROVE  Served(c, ended, i, r, h, f, rp, flag)
<1> DEFINE n  == Len(rp) + (IF h = "answering" THEN 1 ELSE 0)
           fb == FramesAt(b, FALSE, DaemonLimit)
           fc == FramesAt(c, ended, DaemonLimit)
<1>1. /\ Tracks(b, FALSE, i, r, n, DaemonLimit)
      /\ flag <=> Opens(fb, Len(rp))
      /\ h = "answering" => n \in DOMAIN fb /\ f = fb[n]
  BY DEF Grows, Served
<1>2. DaemonLimit \in Nat
  BY LimitsAreSizes
<1>3. /\ fb \in Seq(Frame) /\ Len(fb) = Len(Lines(b, FALSE)) /\ DOMAIN fb = 1 .. Len(fb)
      /\ fc \in Seq(Frame) /\ DOMAIN fc = 1 .. Len(fc) /\ Len(fb) \in Nat /\ Len(fc) \in Nat
  <2>1. fb \in Seq(Frame) /\ Len(fb) = Len(Lines(b, FALSE))
    <3>1. ASSUME NEW no \in BOOLEAN
          PROVE  /\ FramesAt(b, no, DaemonLimit) \in Seq(Frame)
                 /\ Len(FramesAt(b, no, DaemonLimit)) = Len(Lines(b, no))
      BY <1>2, FramesType
    <3> QED
      BY <3>1
  <2>2. fc \in Seq(Frame)
    BY <1>2, FramesType
  <2>3. ASSUME NEW g \in Seq(Frame) PROVE DOMAIN g = 1 .. Len(g) /\ Len(g) \in Nat
    OBVIOUS
  <2>4. DOMAIN fb = 1 .. Len(fb) /\ Len(fb) \in Nat
    BY <2>1, <2>3, Zenon
  <2>5. DOMAIN fc = 1 .. Len(fc) /\ Len(fc) \in Nat
    BY <2>2, <2>3, Zenon
  <2> QED
    BY <2>1, <2>2, <2>4, <2>5, Zenon
<1>4. IsPrefixOf(b, c) /\ IsPrefixOf(fb, fc)
  BY <1>2, FramesStay DEF Grows
<1>5. n \in 0 .. Len(fb)
  <2>1. n \in 0 .. Len(Lines(b, FALSE))
    BY <1>1, <1>2, TrackedIn
  <2> QED
    BY <1>3, <2>1
<1>6. Tracks(c, ended, i, r, n, DaemonLimit)
  BY <1>1, <1>2, <1>4, TracksGrow
<1> HIDE DEF fb, fc
<1>n. n \in {Len(rp), Len(rp) + 1} /\ Len(rp) \in Nat
  OBVIOUS
<1> HIDE DEF n
<1>m. Len(fb) \in Nat /\ Len(fc) \in Nat
  BY <1>3
<1>7. Len(rp) \in 0 .. Len(fb)
  BY ONLY <1>5, <1>m, <1>n
<1>8. flag <=> Opens(fc, Len(rp))
  BY <1>1, <1>3, <1>4, <1>7, OpensStays
<1>9. ASSUME h = "answering" PROVE n \in DOMAIN fc /\ f = fc[n]
  <2>1. n \in DOMAIN fb /\ f = fb[n]
    BY <1>1, <1>9
  <2>2. Len(fb) <= Len(fc) /\ fb[n] = fc[n]
    BY <1>4, <2>1 DEF IsPrefixOf
  <2>3. n \in 1 .. Len(fb)
    BY <1>3, <2>1
  <2>4. n \in 1 .. Len(fc)
    BY ONLY <1>m, <2>2, <2>3
  <2>5. n \in DOMAIN fc
    BY <1>3, <2>4
  <2> QED
    BY <2>1, <2>2, <2>5
<1> QED
  BY <1>6, <1>8, <1>9 DEF Served, fc, n

LEMMA ToldGrows ==
  ASSUME NEW b \in Seq(Bytes), NEW c \in Seq(Bytes), IsPrefixOf(b, c), NEW ended \in BOOLEAN,
         NEW rp \in Seq(Answer), Told(b, FALSE, rp)
  PROVE  Told(c, ended, rp)
<1> DEFINE fb == FramesAt(b, FALSE, DaemonLimit)
           fc == FramesAt(c, ended, DaemonLimit)
<1>1. fb \in Seq(Frame) /\ fc \in Seq(Frame) /\ IsPrefixOf(fb, fc)
  BY LimitsAreSizes, FramesType, FramesStay
<1>2. IsPrefixOf(rp, AnswersTo(fb))
  BY DEF Told
<1> HIDE DEF fb, fc
<1>3. /\ AnswersTo(fb) \in Seq(Answer) /\ AnswersTo(fc) \in Seq(Answer)
      /\ IsPrefixOf(AnswersTo(fb), AnswersTo(fc))
  BY <1>1, AnswersType, AnswersStay
<1>4. IsPrefixOf(rp, AnswersTo(fc))
  BY <1>2, <1>3, PrefixTransitive
<1> QED
  BY <1>4 DEF Told, fc

(* The handler reads a byte.                                               *)
LEMMA ServedByte ==
  ASSUME NEW b \in Seq(Bytes), NEW ended \in BOOLEAN, NEW i \in 0 .. Len(b), i < Len(b),
         NEW r, NEW f, NEW rp \in Seq(Answer), NEW flag \in BOOLEAN,
         Served(b, ended, i, r, "reading", f, rp, flag)
  PROVE  LET next == Take(r, b[i + 1], DaemonLimit)
         IN  /\ next.frame = None =>
                  Served(b, ended, i + 1, next.reader, "reading", next.frame, rp, flag)
             /\ next.frame # None =>
                  /\ Served(b, ended, i + 1, next.reader, "answering", next.frame, rp, flag)
                  /\ Len(rp) + 1 = Rank(b, i + 1) /\ Partial(b, i + 1) = <<>>
                  /\ Len(rp) + 1 \in 1 .. Cardinality(Newlines(b))
                  /\ next.frame.kind \in {"oversized", "complete", "invalid"}
<1> DEFINE next == Take(r, b[i + 1], DaemonLimit)
           frames == FramesAt(b, ended, DaemonLimit)
           n == Len(rp)
<1>1. Tracks(b, ended, i, r, n, DaemonLimit) /\ (flag <=> Opens(frames, n)) /\ n \in Nat
  BY ServedIdle
<1>2. DaemonLimit \in Nat
  BY LimitsAreSizes
<1> HIDE DEF next, frames, n
<1>3. /\ next.frame = None => Tracks(b, ended, i + 1, next.reader, n, DaemonLimit)
      /\ next.frame # None =>
           /\ Tracks(b, ended, i + 1, next.reader, n + 1, DaemonLimit)
           /\ n + 1 = Rank(b, i + 1) /\ Partial(b, i + 1) = <<>>
           /\ n + 1 \in 1 .. Cardinality(Newlines(b))
           /\ next.frame = FrameOf(Lines(b, ended)[n + 1], DaemonLimit)
           /\ next.frame.kind \in {"oversized", "complete", "invalid"}
  BY <1>1, <1>2, TracksTake DEF next
<1>4. ASSUME next.frame # None PROVE n + 1 \in DOMAIN frames /\ next.frame = frames[n + 1]
  <2>1. n + 1 \in 1 .. Len(Lines(b, ended))
    <3>1. i + 1 \in 0 .. Len(b)
      OBVIOUS
    <3>2. n + 1 \in 0 .. Len(Lines(b, ended))
      BY <1>2, <1>3, <1>4, <3>1, TrackedIn
    <3> QED
      BY <1>1, <3>2
  <2>2. n + 1 \in DOMAIN Lines(b, ended) /\ DOMAIN frames = DOMAIN Lines(b, ended)
    BY <1>2, <2>1, FramesType DEF frames
  <2>3. frames[n + 1] = FrameOf(Lines(b, ended)[n + 1], DaemonLimit)
    BY <1>2, <2>2, FramesType DEF frames
  <2> QED
    BY <1>3, <1>4, <2>2, <2>3
<1>5. ASSUME next.frame = None
      PROVE  Served(b, ended, i + 1, next.reader, "reading", next.frame, rp, flag)
  <2>1. Tracks(b, ended, i + 1, next.reader, n + 0, DaemonLimit)
    BY <1>1, <1>3, <1>5
  <2> QED
    BY <1>1, <2>1 DEF Served, frames, n
<1>6. ASSUME next.frame # None
      PROVE  Served(b, ended, i + 1, next.reader, "answering", next.frame, rp, flag)
  BY <1>1, <1>3, <1>4, <1>6 DEF Served, frames, n
<1> QED
  BY <1>3, <1>5, <1>6 DEF next, n

(* The handler reads the end.                                              *)
LEMMA ServedEnd ==
  ASSUME NEW b \in Seq(Bytes), NEW r, NEW f, NEW rp \in Seq(Answer), NEW flag \in BOOLEAN,
         Served(b, TRUE, Len(b), r, "reading", f, rp, flag), AtEnd(r).frame.kind # "end"
  PROVE  Served(b, TRUE, Len(b), AtEnd(r).reader, "answering", AtEnd(r).frame, rp, flag)
<1> DEFINE frames == FramesAt(b, TRUE, DaemonLimit)
           n == Len(rp)
<1>1. Tracks(b, TRUE, Len(b), r, n, DaemonLimit) /\ (flag <=> Opens(frames, n)) /\ n \in Nat
  <2>1. "reading" # "answering"
    OBVIOUS
  <2> QED
    BY <2>1, ServedIdle, Zenon
<1>2. DaemonLimit \in Nat
  BY LimitsAreSizes
<1> HIDE DEF frames, n
<1>3. /\ Tracks(b, TRUE, Len(b), AtEnd(r).reader, n + 1, DaemonLimit)
      /\ n + 1 \in DOMAIN Lines(b, TRUE)
      /\ AtEnd(r).frame = FrameOf(Lines(b, TRUE)[n + 1], DaemonLimit)
  BY <1>1, <1>2, TracksEnd
<1>4. n + 1 \in DOMAIN frames /\ AtEnd(r).frame = frames[n + 1]
  BY <1>2, <1>3, FramesType DEF frames
<1> QED
  BY <1>1, <1>3, <1>4 DEF Served, frames, n

(* It answers.                                                             *)
LEMMA ServedReply ==
  ASSUME NEW b \in Seq(Bytes), NEW ended \in BOOLEAN, NEW i \in 0 .. Len(b),
         NEW r, NEW f, NEW g, NEW rp \in Seq(Answer), NEW flag \in BOOLEAN,
         Served(b, ended, i, r, "answering", f, rp, flag), Told(b, ended, rp)
  PROVE  LET answer == Respond(f, flag)
         IN  /\ answer \in Answer /\ Told(b, ended, Append(rp, answer))
             /\ Served(b, ended, i, r, "checking", g, Append(rp, answer),
                       flag \/ answer.kind = "handshake.response")
<1> DEFINE frames == FramesAt(b, ended, DaemonLimit)
           n == Len(rp)
           answer == Respond(f, flag)
<1>1. /\ Tracks(b, ended, i, r, n + 1, DaemonLimit) /\ n \in Nat
      /\ flag <=> Opens(frames, n)
      /\ n + 1 \in DOMAIN frames /\ f = frames[n + 1]
  BY DEF Served
<1>2. DaemonLimit \in Nat
  BY LimitsAreSizes
<1>3. frames \in Seq(Frame) /\ f \in Frame
  BY <1>1, <1>2, FramesType
<1>4. answer \in Answer
  BY <1>3, RespondType
<1> HIDE DEF frames
<1>5. flag = Opens(frames, n)
  BY <1>1 DEF Opens
<1>6. answer = AnswersTo(frames)[n + 1]
  <2>1. AnswersTo(frames)[n + 1] = Respond(frames[n + 1], Opens(frames, n + 1 - 1))
    BY <1>1, <1>3, AnswersType
  <2>2. n + 1 - 1 = n
    BY <1>1
  <2> QED
    BY <1>1, <1>5, <2>1, <2>2
<1> HIDE DEF answer
<1>7. Told(b, ended, Append(rp, answer))
  <2>1. AnswersTo(frames) \in Seq(Answer) /\ Len(AnswersTo(frames)) = Len(frames)
    BY <1>3, AnswersType
  <2>2. n < Len(AnswersTo(frames))
    BY <1>1, <1>3, <2>1
  <2>3. IsPrefixOf(rp, AnswersTo(frames))
    BY DEF Told, frames
  <2>4. IsPrefixOf(Append(rp, AnswersTo(frames)[Len(rp) + 1]), AnswersTo(frames))
    BY <2>1, <2>2, <2>3, PrefixGrows
  <2> QED
    BY <1>6, <2>4 DEF Told, frames
<1>8. Opens(frames, n + 1) <=> flag \/ answer.kind = "handshake.response"
  <2>1. Opens(frames, n + 1) <=>
          Opens(frames, n) \/ Respond(frames[n + 1], FALSE).kind = "handshake.response"
    BY <1>1, OpensNext
  <2>2. CASE flag
    BY <1>1, <2>1, <2>2
  <2>3. CASE ~flag
    <3>1. flag = FALSE
      BY <2>3
    <3>2. answer = Respond(frames[n + 1], FALSE)
      BY <1>1, <3>1 DEF answer
    <3> QED
      BY <1>1, <2>1, <2>3, <3>2
  <2> QED
    BY <2>2, <2>3
<1>9. Len(Append(rp, answer)) = n + 1
  BY <1>4
<1>10. Served(b, ended, i, r, "checking", g, Append(rp, answer),
              flag \/ answer.kind = "handshake.response")
  <2>1. Tracks(b, ended, i, r, n + 1 + 0, DaemonLimit)
    BY <1>1
  <2> QED
    BY <1>8, <1>9, <2>1 DEF Served, frames
<1> QED
  BY <1>4, <1>7, <1>10 DEF answer

-----------------------------------------------------------------------------
(* Each action and ThreadInv.                                              *)

LEMMA ThreadInit == Init => ThreadInv
<1> SUFFICES ASSUME Init PROVE ThreadInv
  OBVIOUS
<1>1. Told(sent, clientEnd # "open", replies)
  <2>1. sent \in Seq(Bytes) /\ replies = <<>> /\ (clientEnd # "open") \in BOOLEAN
    BY DEF Init
  <2>2. FramesAt(sent, clientEnd # "open", DaemonLimit) \in Seq(Frame)
    BY <2>1, FramesType, LimitsAreSizes
  <2>3. AnswersTo(FramesAt(sent, clientEnd # "open", DaemonLimit)) \in Seq(Answer)
    BY <2>2, AnswersType
  <2> QED
    BY <2>1, <2>3, PrefixEmpty DEF Told
<1> QED
  BY <1>1 DEF Init, ThreadInv, Unaccepted

(* A step of the client: it may write more, or end the stream.             *)
LEMMA ClientStep ==
  ASSUME IInv, ThreadInv, pc # "ended", UNCHANGED <<thread, replies>>,
         sent' \in Seq(Bytes), IsPrefixOf(sent, sent'),
         clientEnd' # "open" => pc' = "ended",
         UNCHANGED conn \/ (conn = "none" /\ conn' = "backlog"),
         pc' \in Launching => conn' = "none" /\ sent' = <<>>
  PROVE  ThreadInv'
<1>1. /\ UNCHANGED <<fetched, received, reader, frame, handler, handshaken, replies>>
      /\ sent \in Seq(Bytes) /\ replies \in Seq(Answer) /\ handshaken \in BOOLEAN
      /\ received \in 0 .. Len(sent)
  BY DEF thread, IInv, TypeOK
<1>2. (clientEnd # "open") = FALSE /\ (clientEnd' # "open") \in BOOLEAN
  BY DEF ThreadInv
<1>3. ASSUME handler # "none"
      PROVE  Served(sent', clientEnd' # "open", received', reader', handler', frame', replies',
                    handshaken')
  <2>1. PICK before : before = FALSE /\ Served(sent, before, received, reader, handler, frame,
                                              replies, handshaken)
    BY <1>2, <1>3 DEF ThreadInv
  <2>2. PICK ended \in BOOLEAN : ended = (clientEnd' # "open")
    BY <1>2
  <2>3. PICK b \in Seq(Bytes) : b = sent'
    OBVIOUS
  <2>4. IsPrefixOf(sent, b)
    BY <2>3
  <2>5. /\ sent \in Seq(Bytes) /\ replies \in Seq(Answer) /\ handshaken \in BOOLEAN
        /\ received \in 0 .. Len(sent)
    BY <1>1
  <2>6. Served(b, ended, received, reader, handler, frame, replies, handshaken)
    <3>1. Grows(sent, b, received, reader, handler, frame, replies, handshaken)
      BY <2>1, <2>4 DEF Grows
    <3> QED
      BY <2>2, <2>3, <2>5, <3>1, ServedGrows
  <2> QED
    BY <1>1, <2>2, <2>3, <2>6
<1>4. Told(sent', clientEnd' # "open", replies') \/ (Refused' /\ handler' = "none")
  <2>1. CASE Told(sent, FALSE, replies)
    <3>1. Told(sent', clientEnd' # "open", replies)
      BY <1>1, <1>2, <2>1, ToldGrows
    <3> QED
      BY <1>1, <3>1
  <2>2. CASE Refused /\ handler = "none"
    BY <1>1, <2>2 DEF Refused
  <2> QED
    BY <1>2, <2>1, <2>2 DEF ThreadInv
<1>5. /\ conn' \in {"none", "backlog"} => Unaccepted'
      /\ handler' # "none" => conn' = "open"
  BY <1>1 DEF ThreadInv, Unaccepted
<1> QED
  BY <1>1, <1>3, <1>4, <1>5 DEF ThreadInv

LEMMA ClientThread ==
  ASSUME IInv, ThreadInv, IInv',
         Start \/ Client \/ Talk \/ HangUp \/ Quit
  PROVE  ThreadInv'
<1>1. sent \in Seq(Bytes) /\ sent' \in Seq(Bytes) /\ clientEnd = "open"
      /\ sending \in Seq(Bytes) /\ script \in Seq(Bytes) /\ taken \in Nat
  <2>1. pc # "ended"
    BY DEF Start, Client, Talk, HangUp, Quit, Probe, LookForSocket, LookAtSocket, Connect, Write,
           Receive, ReceiveEnd, ReadInput
  <2> QED
    BY <2>1 DEF IInv, TypeOK, ThreadInv
<1>2. IsPrefixOf(sent, sent)
  BY <1>1, PrefixRefl
<1>3. CASE Start \/ Probe \/ LookForSocket \/ LookAtSocket
  <2>1. /\ pc \in {"start", "probe", "look", "stat"} /\ UNCHANGED <<thread, wire, conn>>
        /\ clientEnd' # "open" => pc' = "ended"
    BY <1>1, <1>3 DEF Start, Probe, LookForSocket, LookAtSocket, Exit, process
  <2>2. pc # "ended" /\ conn = "none" /\ sent = <<>> /\ UNCHANGED <<sent, replies>>
    BY <2>1 DEF ThreadInv, Launching, wire
  <2> QED
    BY <1>1, <1>2, <2>1, <2>2, ClientStep
<1>4. CASE Connect
  <2>1. pc = "connect" /\ UNCHANGED <<thread, wire>> /\ (clientEnd' # "open" => pc' = "ended")
        /\ (UNCHANGED conn \/ conn' = "backlog") /\ pc' \notin Launching
    BY <1>1, <1>4 DEF Connect, Exit, Launching
  <2>2. conn = "none" /\ UNCHANGED <<sent, replies>>
    BY <2>1 DEF ThreadInv, Launching, wire
  <2> QED
    BY <1>1, <1>2, <2>1, <2>2, ClientStep
<1>5. CASE Write
  <2>1. /\ pc = "sending" /\ UNCHANGED <<thread, replies, conn>> /\ pc' \notin Launching
        /\ clientEnd' # "open" => pc' = "ended"
    BY <1>1, <1>5 DEF Write, Exit, Launching, process
  <2>2. IsPrefixOf(sent, sent')
    <3>1. CASE UNCHANGED sent
      BY <1>2, <3>1
    <3>2. ASSUME NEW n \in 1 .. Len(sending), sent' = sent \o SubSeq(sending, 1, n)
          PROVE  IsPrefixOf(sent, sent')
      <4>1. SubSeq(sending, 1, n) \in Seq(Bytes)
        BY <1>1
      <4> QED
        BY <1>1, <3>2, <4>1, ConcatGrows
    <3> QED
      BY <1>5, <3>1, <3>2 DEF Write
  <2> QED
    BY <1>1, <2>1, <2>2, ClientStep
<1>6. CASE Receive \/ ReceiveEnd \/ ReadInput \/ Quit \/ HangUp
  <2>1. /\ pc # "ended" /\ UNCHANGED <<thread, wire, conn>> /\ pc' \notin Launching
        /\ clientEnd' # "open" => pc' = "ended"
    BY <1>1, <1>6 DEF Receive, ReceiveEnd, ReadInput, Quit, HangUp, Forward, Advance, Typed, Exit,
                      Launching, process
  <2> QED
    BY <1>1, <1>2, <2>1, ClientStep DEF wire
<1>7. CASE Talk
  <2>1. /\ pc = "talking" /\ UNCHANGED <<thread, replies, conn, clientEnd, pc>>
        /\ taken < Len(script) /\ sent' = Append(sent, script[taken + 1])
    BY <1>7 DEF Talk, process
  <2>2. IsPrefixOf(sent, sent')
    <3>1. script[taken + 1] \in Bytes
      BY <1>1, <2>1
    <3> QED
      BY <1>1, <2>1, <3>1, AppendGrows
  <2> QED
    BY <1>1, <2>1, <2>2, ClientStep DEF Launching
<1> QED
  BY <1>3, <1>4, <1>5, <1>6, <1>7 DEF Client

(* The connection ends, or the daemon does: nothing more is answered.      *)
LEMMA ThreadEnds ==
  ASSUME ThreadInv, UNCHANGED <<client, wire, fetched, received, reader, handshaken>>,
         handler' = "none", UNCHANGED conn \/ (conn # "none" /\ conn' \in {"closed", "reset"})
  PROVE  ThreadInv'
<1>1. UNCHANGED <<pc, clientEnd, sent, replies>>
  BY DEF client, wire
<1>2. Told(sent, clientEnd # "open", replies) \/ Refused
  BY DEF ThreadInv
<1>3. Told(sent', clientEnd' # "open", replies') \/ Refused'
  BY <1>1, <1>2 DEF Refused
<1>4. /\ pc' \in Launching => conn' = "none" /\ sent' = <<>>
      /\ conn' \in {"none", "backlog"} => Unaccepted'
      /\ clientEnd' # "open" => pc' = "ended"
  BY <1>1 DEF ThreadInv, Unaccepted
<1> QED
  BY <1>3, <1>4 DEF ThreadInv

LEMMA DaemonThread ==
  ASSUME IInv, ThreadInv, Daemon \/ Signal \/ Die \/ Rise
  PROVE  ThreadInv'
<1>1. sent \in Seq(Bytes) /\ UNCHANGED client
  BY DEF IInv, TypeOK, Daemon, Accept, Refuse, DropListener, CleanUp, Leave, Signal, Die, Rise
<1>2. UNCHANGED <<pc, clientEnd>> /\ (clientEnd # "open") \in BOOLEAN
  BY <1>1 DEF client
<1>3. CASE Accept
  <2>1. /\ conn = "backlog" /\ conn' = "open" /\ handler' = "checking"
        /\ UNCHANGED <<sent, replies, fetched, received, reader, frame, handshaken>>
    BY <1>3 DEF Accept, wire
  <2>2. received = 0 /\ reader = NewReader /\ ~handshaken /\ replies = <<>>
        /\ pc \notin Launching
    BY <2>1 DEF ThreadInv, Unaccepted
  <2>3. handshaken = FALSE
    BY <2>2 DEF IInv, TypeOK
  <2>4. Served(sent, clientEnd # "open", 0, NewReader, "checking", frame, <<>>, FALSE)
    BY <1>1, <1>2, ServedStart
  <2>5. Served(sent', clientEnd' # "open", received', reader', handler', frame', replies',
               handshaken')
    BY <1>2, <2>1, <2>2, <2>3, <2>4
  <2>6. Told(sent, clientEnd # "open", replies)
    BY <2>2 DEF ThreadInv, Refused
  <2> QED
    BY <1>2, <2>1, <2>2, <2>5, <2>6 DEF ThreadInv
<1>4. CASE Refuse
  <2>1. /\ conn = "backlog" /\ conn' \in {"closed", "reset"} /\ UNCHANGED <<sent, thread>>
        /\ \/ UNCHANGED replies
           \/ replies' = Append(replies, Error(Fresh, "authorization.peer_uid"))
    BY <1>4 DEF Refuse
  <2>2. replies = <<>> /\ pc \notin Launching /\ handler = "none" /\ handler' = "none"
        /\ (clientEnd # "open" => pc = "ended")
    BY <2>1 DEF ThreadInv, Unaccepted, thread
  <2>3. Told(sent', clientEnd' # "open", replies') \/ Refused'
    <3>1. CASE UNCHANGED replies
      <4>1. Told(sent, clientEnd # "open", replies)
        BY <2>2 DEF ThreadInv, Refused
      <4> QED
        BY <1>2, <2>1, <3>1, <4>1
    <3>2. CASE replies' = Append(replies, Error(Fresh, "authorization.peer_uid"))
      <4>1. replies' = <<Error(Fresh, "authorization.peer_uid")>>
        BY <2>2, <3>2
      <4> QED
        BY <4>1 DEF Refused, Error
    <3> QED
      BY <2>1, <3>1, <3>2
  <2> QED
    BY <1>2, <2>1, <2>2, <2>3 DEF ThreadInv
<1>5. CASE DropListener \/ CleanUp \/ Leave \/ Signal \/ Rise
  <2>1. /\ UNCHANGED <<wire, thread>>
        /\ UNCHANGED conn \/ (conn = "backlog" /\ conn' = "reset")
    BY <1>5 DEF DropListener, CleanUp, Leave, Signal, Rise
  <2>2. CASE UNCHANGED conn
    BY <1>2, <2>1, <2>2 DEF wire, thread, ThreadInv, Unaccepted, Refused
  <2>3. CASE conn = "backlog" /\ conn' = "reset"
    <3>1. handler = "none" /\ handler' = "none"
      BY <2>1, <2>3 DEF ThreadInv, thread
    <3> QED
      BY <1>1, <2>1, <2>3, <3>1, ThreadEnds DEF thread
  <2> QED
    BY <2>1, <2>2, <2>3
<1>6. CASE Die
  <2>1. /\ UNCHANGED <<wire, fetched, received, reader, handshaken>> /\ handler' = "none"
        /\ UNCHANGED conn \/ (conn # "none" /\ conn' \in {"closed", "reset"})
    BY <1>6 DEF Die
  <2> QED
    BY <1>1, <2>1, ThreadEnds
<1> QED
  BY <1>3, <1>4, <1>5, <1>6 DEF Daemon

LEMMA HandlerThread ==
  ASSUME IInv, ThreadInv, Handler
  PROVE  ThreadInv'
<1>1. /\ sent \in Seq(Bytes) /\ replies \in Seq(Answer) /\ handshaken \in BOOLEAN
      /\ fetched \in 0 .. Len(sent) /\ received \in 0 .. fetched /\ received \in 0 .. Len(sent)
      /\ UNCHANGED <<client, sent>>
  BY DEF IInv, TypeOK, Handler, Check, ReadByte, Pending, ReadEnd, Reply, wire
<1>2. /\ UNCHANGED <<pc, clientEnd, sent>> /\ (clientEnd # "open") \in BOOLEAN
      /\ handler # "none" /\ conn = "open" /\ pc \notin Launching
      /\ Served(sent, clientEnd # "open", received, reader, handler, frame, replies, handshaken)
      /\ Told(sent, clientEnd # "open", replies) /\ (clientEnd # "open" => pc = "ended")
  BY <1>1 DEF client, ThreadInv, Handler, Check, ReadByte, Pending, ReadEnd, Reply
<1>3. CASE handler' = "none" /\ UNCHANGED <<wire, fetched, received, reader, handshaken>>
           /\ conn' \in {"closed", "reset"}
  BY <1>1, <1>2, <1>3, ThreadEnds
<1>4. ASSUME UNCHANGED conn,
             Told(sent, clientEnd # "open", replies'),
             Served(sent, clientEnd # "open", received', reader', handler', frame', replies',
                    handshaken')
      PROVE  ThreadInv'
  BY <1>2, <1>4 DEF ThreadInv
<1>5. CASE Check
  <2>1. CASE Close
    BY <1>3, <1>5, <2>1 DEF Check, Close
  <2>2. CASE handler' = "reading" /\ UNCHANGED <<conn, frame>>
    <3>1. handler = "checking" /\ UNCHANGED <<received, reader, replies, handshaken>>
      BY <1>5 DEF Check, wire
    <3>2. handler # "answering" /\ handler' # "answering"
      BY <2>2, <3>1
    <3>3. Served(sent, clientEnd # "open", received, reader, "reading", frame, replies,
                 handshaken)
      BY <1>1, <1>2, <3>2, ServedIdle
    <3> QED
      BY <1>2, <1>4, <2>2, <3>1, <3>3
  <2> QED
    BY <1>5, <2>1, <2>2 DEF Check
<1>6. CASE Pending
  <2>1. /\ handler = "reading" /\ handler' = "checking"
        /\ UNCHANGED <<conn, frame, received, reader, replies, handshaken>>
    BY <1>6 DEF Pending, wire, process
  <2>2. Served(sent, clientEnd # "open", received, reader, "checking", frame, replies, handshaken)
    BY <1>1, <1>2, <2>1, ServedIdle
  <2> QED
    BY <1>2, <1>4, <2>1, <2>2
<1>7. CASE ReadByte
  <2> DEFINE next == Take(reader, sent[received + 1], DaemonLimit)
  <2>1. /\ handler = "reading" /\ received < Len(sent) /\ received' = received + 1
        /\ reader' = next.reader /\ frame' = next.frame
        /\ handler' = IF next.frame = None THEN "reading" ELSE "answering"
        /\ UNCHANGED <<conn, replies, handshaken>>
    BY <1>7 DEF ReadByte, wire, process
  <2>2. Served(sent, clientEnd # "open", received, reader, "reading", frame, replies, handshaken)
    BY <1>2, <2>1
  <2>3. /\ next.frame = None => Served(sent, clientEnd # "open", received + 1, next.reader,
                                       "reading", next.frame, replies, handshaken)
        /\ next.frame # None => Served(sent, clientEnd # "open", received + 1, next.reader,
                                       "answering", next.frame, replies, handshaken)
    <3>1. PICK ended \in BOOLEAN : ended = (clientEnd # "open")
      BY <1>2
    <3>2. Served(sent, ended, received, reader, "reading", frame, replies, handshaken)
      BY <2>2, <3>1
    <3>3. /\ next.frame = None => Served(sent, ended, received + 1, next.reader, "reading",
                                         next.frame, replies, handshaken)
          /\ next.frame # None => Served(sent, ended, received + 1, next.reader, "answering",
                                         next.frame, replies, handshaken)
      BY <1>1, <2>1, <3>2, ServedByte
    <3> QED
      BY <3>1, <3>3
  <2> HIDE DEF next
  <2>4. Served(sent, clientEnd # "open", received', reader', handler', frame', replies',
               handshaken')
    BY <2>1, <2>3
  <2> QED
    BY <1>2, <1>4, <2>1, <2>4
<1>8. CASE ReadEnd
  <2> DEFINE next == AtEnd(reader)
  <2>1. /\ handler = "reading" /\ received = Len(sent) /\ clientEnd # "open"
        /\ UNCHANGED <<wire, received, fetched, handshaken>>
    BY <1>8 DEF ReadEnd
  <2>2. CASE Close /\ UNCHANGED reader
    BY <1>3, <2>1, <2>2 DEF Close
  <2>3. CASE /\ next.frame.kind # "end"
             /\ reader' = next.reader /\ frame' = next.frame /\ handler' = "answering"
             /\ UNCHANGED conn
    <3>1. Served(sent, TRUE, Len(sent), reader, "reading", frame, replies, handshaken)
          /\ (clientEnd # "open") = TRUE
      BY <1>2, <2>1
    <3>2. Served(sent, TRUE, Len(sent), next.reader, "answering", next.frame, replies, handshaken)
      BY <1>1, <2>3, <3>1, ServedEnd
    <3> HIDE DEF next
    <3>3. Served(sent, clientEnd # "open", received', reader', handler', frame', replies',
                 handshaken')
      BY <2>1, <2>3, <3>1, <3>2 DEF wire
    <3> QED
      BY <1>2, <1>4, <2>1, <2>3, <3>3 DEF wire
  <2> QED
    BY <1>8, <2>2, <2>3 DEF ReadEnd
<1>9. CASE Reply
  <2> DEFINE answer == Respond(frame, handshaken)
  <2>1. /\ handler = "answering" /\ UNCHANGED <<fetched, received, reader>>
        /\ handshaken' = (handshaken \/ answer.kind = "handshake.response")
    BY <1>9 DEF Reply
  <2>2. /\ Told(sent, clientEnd # "open", Append(replies, answer))
        /\ Served(sent, clientEnd # "open", received, reader, "checking", None,
                  Append(replies, answer), handshaken \/ answer.kind = "handshake.response")
    BY <1>1, <1>2, <2>1, ServedReply
  <2>3. /\ clientEnd = "closed" => Close /\ UNCHANGED replies
        /\ clientEnd # "closed" =>
             /\ replies' = Append(replies, answer)
             /\ Close \/ (handler' = "checking" /\ frame' = None /\ UNCHANGED conn)
    BY <1>9 DEF Reply
  <2> HIDE DEF answer
  <2>4. CASE Close
    <3>1. handler' = "none" /\ conn' \in {"closed", "reset"}
      BY <2>4 DEF Close
    <3>2. Told(sent, clientEnd # "open", replies')
      BY <1>2, <2>2, <2>3
    <3> QED
      BY <1>2, <3>1, <3>2 DEF ThreadInv
  <2>5. CASE handler' = "checking" /\ frame' = None /\ UNCHANGED conn
             /\ replies' = Append(replies, answer)
    <3>1. Served(sent, clientEnd # "open", received', reader', handler', frame', replies',
                 handshaken')
      BY <2>1, <2>2, <2>5
    <3>2. Told(sent, clientEnd # "open", replies')
      BY <2>2, <2>5
    <3> QED
      BY <1>4, <2>5, <3>1, <3>2
  <2> QED
    BY <2>3, <2>4, <2>5
<1> QED
  BY <1>5, <1>6, <1>7, <1>8, <1>9 DEF Handler

LEMMA ThreadKeeps == IInv /\ ThreadInv /\ [Next]_vars => ThreadInv'
<1> SUFFICES ASSUME IInv, ThreadInv, [Next]_vars PROVE ThreadInv'
  OBVIOUS
<1>1. CASE UNCHANGED vars
  <2>1. UNCHANGED <<pc, clientEnd, conn, sent, replies, fetched, received, reader, frame,
                    handler, handshaken>>
    BY <1>1 DEF vars, client, wire, thread, process
  <2> QED
    BY <2>1 DEF ThreadInv, Unaccepted, Refused
<1>2. CASE Next
  <2>1. IInv'
    BY <1>2, StepKeeps
  <2> QED
    BY <1>2, <2>1, ClientThread, DaemonThread, HandlerThread DEF Next
<1> QED
  BY <1>1, <1>2

(* The handler thread answers the lines of the stream, in order and each   *)
(* once, however the bytes arrive, whatever is too long, and wherever the  *)
(* client hangs up (handle_client, FrameReader::next).                     *)
THEOREM AnswersInOrder == Spec => []AnsweredInOrder
<1>1. ThreadInv => AnsweredInOrder
  BY DEF ThreadInv, AnsweredInOrder, Told
<1> QED
  BY <1>1, ThreadInit, ThreadKeeps, Invariance, PTL DEF Spec

-----------------------------------------------------------------------------
(* The JSONL client and its input.                                         *)

(* FramesThrough, as a function of the input and the client's limit.       *)
Through(s, max) ==
  LET lines == Lines(s, TRUE)
  IN  [k \in DOMAIN lines |->
         IF FrameOf(lines[k], max).kind = "complete" THEN FrameOf(lines[k], DaemonLimit)
                                                     ELSE FrameOf(lines[k], max)]

(* The client has read i bytes of its input s and printed n answers; it has*)
(* written b and read k answers.  Reading its input, it has sent every     *)
(* complete line before; sending, w is what is left of the line read last, *)
(* and awaiting its answer, that line is the last one sent.  Both sides    *)
(* agree on whether the session is open.                                   *)
Asks(s, max, i, r, n, at, w, b, k) ==
  LET line == Lines(s, TRUE)[n + 1]
  IN  /\ Tracks(s, TRUE, i, r, IF at = "input" THEN n ELSE n + 1, max)
      /\ Opens(FramesAt(b, FALSE, DaemonLimit), k) <=> Opens(Through(s, max), n)
      /\ Rank(b, Len(b)) = IF at = "awaiting" THEN k + 1 ELSE k
      /\ at # "sending" => Partial(b, Len(b)) = <<>>
      /\ at # "input" => n + 1 \in DOMAIN Lines(s, TRUE) /\ FrameOf(line, max).kind = "complete"
      /\ at = "sending" => w # <<>> /\ Partial(b, Len(b)) \o w = line
      /\ at = "awaiting" => Lines(b, FALSE)[k + 1] = line

LEMMA LinesEnded ==
  ASSUME NEW b \in Seq(Bytes), NEW ended \in BOOLEAN, NEW k \in 1 .. Cardinality(Newlines(b))
  PROVE  k \in DOMAIN Lines(b, ended)
<1> DEFINE m == Cardinality(Newlines(b))
           l == IF ended /\ Partial(b, Len(b)) # <<>> THEN m + 1 ELSE m
<1>1. m \in Nat /\ l \in {m, m + 1} /\ k \in 1 .. m
  BY NewlinesFinite
<1>2. DOMAIN Lines(b, ended) = 1 .. l
  BY LinesAre
<1> HIDE DEF m, l
<1>3. k \in 1 .. l
  BY <1>1
<1> QED
  BY <1>2, <1>3

LEMMA ThroughType ==
  ASSUME NEW s \in Seq(Bytes), NEW max \in Nat
  PROVE  /\ Through(s, max) \in Seq(Frame) /\ Len(Through(s, max)) = Len(Lines(s, TRUE))
         /\ DOMAIN Through(s, max) = DOMAIN Lines(s, TRUE)
         /\ DOMAIN Lines(s, TRUE) = 1 .. Len(Lines(s, TRUE)) /\ Len(Lines(s, TRUE)) \in Nat
         /\ \A k \in DOMAIN Lines(s, TRUE) :
              /\ Lines(s, TRUE)[k] \in Seq(Bytes)
              /\ FrameOf(Lines(s, TRUE)[k], max).kind = "complete" =>
                   Through(s, max)[k] = FrameOf(Lines(s, TRUE)[k], DaemonLimit)
              /\ FrameOf(Lines(s, TRUE)[k], max).kind # "complete" =>
                   Through(s, max)[k] = FrameOf(Lines(s, TRUE)[k], max)
<1> DEFINE lines == Lines(s, TRUE)
<1>1. /\ DOMAIN lines = 1 .. Len(lines) /\ Len(lines) \in Nat
      /\ \A k \in DOMAIN lines : lines[k] \in Seq(Bytes)
  BY FramesType
<1>2. DaemonLimit \in Nat
  BY LimitsAreSizes
<1> HIDE DEF lines
<1>3. \A k \in DOMAIN lines :
        FrameOf(lines[k], DaemonLimit) \in Frame /\ FrameOf(lines[k], max) \in Frame
  BY <1>1, <1>2, FrameOfType
<1>4. Through(s, max) = [k \in DOMAIN lines |->
        IF FrameOf(lines[k], max).kind = "complete" THEN FrameOf(lines[k], DaemonLimit)
                                                    ELSE FrameOf(lines[k], max)]
  BY DEF Through, lines
<1>5. Through(s, max) \in [1 .. Len(lines) -> Frame]
  BY <1>1, <1>3, <1>4
<1>6. Through(s, max) \in Seq(Frame) /\ Len(Through(s, max)) = Len(lines)
  BY <1>1, <1>5
<1>7. DOMAIN Through(s, max) = DOMAIN lines
  BY <1>4
<1>8. \A k \in DOMAIN lines :
        /\ FrameOf(lines[k], max).kind = "complete" =>
             Through(s, max)[k] = FrameOf(lines[k], DaemonLimit)
        /\ FrameOf(lines[k], max).kind # "complete" =>
             Through(s, max)[k] = FrameOf(lines[k], max)
  BY <1>4
<1> QED
  BY <1>1, <1>6, <1>7, <1>8 DEF lines

(* Nothing read, nothing sent.                                             *)
LEMMA AsksStart ==
  ASSUME NEW s \in Seq(Bytes), NEW max \in Nat, NEW w
  PROVE  Asks(s, max, 0, NewReader, 0, "input", w, <<>>, 0)
<1>1. Tracks(s, TRUE, 0, NewReader, 0, max)
  BY TracksStart
<1>2. <<>> \in Seq(Bytes) /\ Len(<<>>) = 0 /\ 0 \in 0 .. 0
  OBVIOUS
<1>3. Rank(<<>>, 0) = 0
  BY <1>2, RankEnds
<1>4. Partial(<<>>, 0) = <<>>
  <2>1. EndOf(<<>>, 0) = 0
    BY DEF EndOf
  <2>2. SubSeq(<<>>, 0 + 1, 0) = <<>>
    OBVIOUS
  <2> QED
    BY <1>3, <2>1, <2>2 DEF Partial
<1>5. ~Opens(FramesAt(<<>>, FALSE, DaemonLimit), 0) /\ ~Opens(Through(s, max), 0)
  BY DEF Opens
<1>6. PICK b : b = <<>> /\ Rank(b, Len(b)) = 0 /\ Partial(b, Len(b)) = <<>>
               /\ ~Opens(FramesAt(b, FALSE, DaemonLimit), 0)
  BY <1>2, <1>3, <1>4, <1>5
<1>7. PICK n \in Nat, r \in {NewReader} : n = 0
  OBVIOUS
<1>8. /\ Rank(b, Len(b)) = n /\ Partial(b, Len(b)) = <<>>
      /\ ~Opens(FramesAt(b, FALSE, DaemonLimit), n) /\ ~Opens(Through(s, max), n)
  BY <1>5, <1>6, <1>7
<1>9. Tracks(s, TRUE, n, r, n, max)
  BY <1>1, <1>7
<1>10. Asks(s, max, n, r, n, "input", w, b, n)
  BY <1>8, <1>9 DEF Asks
<1> QED
  BY <1>6, <1>7, <1>10

(* f is the frame of line n + 1; after byte c the reader q has given it.   *)
IsLine(s, max, n, f) ==
  n + 1 \in DOMAIN Lines(s, TRUE) /\ f = FrameOf(Lines(s, TRUE)[n + 1], max)

Yields(s, max, n, c, q, f) ==
  Tracks(s, TRUE, c, q, n + 1, max) /\ IsLine(s, max, n, f)

(* What a byte of the input or its end brings: nothing, the end, or the    *)
(* frame of the next line.                                                 *)
Brings(s, max, n, c, next) ==
  \/ next.frame = None /\ Tracks(s, TRUE, c, next.reader, n, max)
  \/ next.frame # None /\ next.frame.kind = "end" /\ n = Len(Lines(s, TRUE))
  \/ /\ next.frame # None /\ next.frame.kind # "end"
     /\ Yields(s, max, n, c, next.reader, next.frame)
     /\ Terminal(next.frame) => n + 1 = Len(Lines(s, TRUE))

LEMMA NextFrame ==
  ASSUME NEW s \in Seq(Bytes), NEW max \in Nat, NEW i \in 0 .. Len(s), NEW r, NEW n \in Nat,
         NEW whole, whole = TRUE, Tracks(s, whole, i, r, n, max), NEW q, NEW c,
         \/ i < Len(s) /\ q = Take(r, s[i + 1], max) /\ c = i + 1
         \/ i = Len(s) /\ q = AtEnd(r) /\ c = i
  PROVE  Brings(s, max, n, c, q)
<1> SUFFICES ASSUME Tracks(s, TRUE, i, r, n, max) PROVE Brings(s, max, n, c, q)
  OBVIOUS
<1> USE DEF Brings, Yields, IsLine
<1>1. CASE i < Len(s) /\ q = Take(r, s[i + 1], max) /\ c = i + 1
  <2>1. CASE q.frame = None
    <3>1. Tracks(s, TRUE, i + 1, q.reader, n, max)
      BY <1>1, <2>1, TracksTake
    <3> QED
      BY <1>1, <2>1, <3>1
  <2>2. CASE q.frame # None
    <3>1. /\ Tracks(s, TRUE, i + 1, q.reader, n + 1, max)
          /\ n + 1 \in 1 .. Cardinality(Newlines(s))
          /\ q.frame = FrameOf(Lines(s, TRUE)[n + 1], max)
          /\ q.frame.kind \in {"oversized", "complete", "invalid"}
      <4> DEFINE next == Take(r, s[i + 1], max)
      <4>1. PICK ended \in BOOLEAN : ended = TRUE
        OBVIOUS
      <4>2. Tracks(s, ended, i, r, n, max) /\ next.frame # None
        BY <1>1, <2>2, <4>1
      <4>3. /\ Tracks(s, ended, i + 1, next.reader, n + 1, max)
            /\ n + 1 \in 1 .. Cardinality(Newlines(s))
            /\ next.frame = FrameOf(Lines(s, ended)[n + 1], max)
            /\ next.frame.kind \in {"oversized", "complete", "invalid"}
        BY <1>1, <4>2, TracksTake
      <4> HIDE DEF next
      <4>4. q = next
        BY <1>1 DEF next
      <4> QED
        BY <4>1, <4>3, <4>4
    <3>2. n + 1 \in DOMAIN Lines(s, TRUE)
      BY <3>1, LinesEnded
    <3>3. ~Terminal(q.frame) /\ q.frame.kind # "end"
      BY <3>1 DEF Terminal
    <3> QED
      BY <1>1, <2>2, <3>1, <3>2, <3>3
  <2> QED
    BY <2>1, <2>2
<1>2. CASE i = Len(s) /\ q = AtEnd(r) /\ c = i
  <2>1. Tracks(s, TRUE, Len(s), r, n, max)
    BY <1>2
  <2>2. /\ q.frame.kind = "end" => n = Len(Lines(s, TRUE))
        /\ q.frame.kind # "end" =>
             /\ Tracks(s, TRUE, Len(s), q.reader, n + 1, max)
             /\ n + 1 = Len(Lines(s, TRUE)) /\ n + 1 \in DOMAIN Lines(s, TRUE)
             /\ q.frame = FrameOf(Lines(s, TRUE)[n + 1], max)
    <3> DEFINE next == AtEnd(r)
    <3>1. /\ next.frame.kind = "end" => n = Len(Lines(s, TRUE))
          /\ next.frame.kind # "end" =>
               /\ Tracks(s, TRUE, Len(s), next.reader, n + 1, max)
               /\ n + 1 = Len(Lines(s, TRUE)) /\ n + 1 \in DOMAIN Lines(s, TRUE)
               /\ next.frame = FrameOf(Lines(s, TRUE)[n + 1], max)
      BY <2>1, TracksEnd
    <3> HIDE DEF next
    <3>2. q = next
      BY <1>2 DEF next
    <3> QED
      BY <3>1, <3>2
  <2>3. q.frame # None
    <3>1. r \in Reader
      <4>1. i \in Nat /\ Partial(s, i) \in Seq(Bytes)
        BY PartialType
      <4> QED
        BY <4>1, CutType, NewReaderType DEF Tracks
    <3> QED
      BY <1>2, <3>1, AtEndType, NoneIsNoCode
  <2> QED
    BY <1>2, <2>2, <2>3
<1> QED
  BY <1>1, <1>2

(* A complete line is sent.                                                *)
LEMMA AsksComplete ==
  ASSUME NEW s \in Seq(Bytes), NEW max \in Nat, NEW i, NEW r, NEW n \in Nat, NEW w,
         NEW b \in Seq(Bytes), NEW k \in Nat, Asks(s, max, i, r, n, "input", w, b, k),
         NEW c, NEW q, NEW f, Yields(s, max, n, c, q, f),
         f.kind = "complete"
  PROVE  Asks(s, max, c, q, n, "sending", f.bytes, b, k)
<1> USE DEF Yields, IsLine
<1> DEFINE line == Lines(s, TRUE)[n + 1]
<1>1. f.bytes = line /\ line # <<>> /\ line \in Seq(Bytes)
  BY CompleteLine, LinesFilled
<1>2. /\ Opens(FramesAt(b, FALSE, DaemonLimit), k) <=> Opens(Through(s, max), n)
      /\ Rank(b, Len(b)) = k /\ Partial(b, Len(b)) = <<>>
  BY DEF Asks
<1> HIDE DEF line
<1>3. <<>> \o line = line
  BY <1>1
<1> QED
  BY <1>1, <1>2, <1>3 DEF Asks, line

(* Any other is answered on the spot, as the daemon would have.            *)
LEMMA LocalAnswer ==
  ASSUME NEW s \in Seq(Bytes), NEW max \in Nat, NEW n \in Nat, NEW f, IsLine(s, max, n, f),
         f.kind # "complete"
  PROVE  /\ Through(s, max) \in Seq(Frame) /\ n + 1 \in DOMAIN Through(s, max)
         /\ Through(s, max)[n + 1] = f /\ f \in Frame /\ FrameError(f) \in Answer
         /\ FrameError(f) = AnswersTo(Through(s, max))[n + 1]
<1> DEFINE through == Through(s, max)
           line == Lines(s, TRUE)[n + 1]
<1>1. n + 1 \in DOMAIN Lines(s, TRUE) /\ f = FrameOf(line, max)
  BY DEF IsLine
<1>2. line \in Seq(Bytes) /\ through \in Seq(Frame) /\ n + 1 \in DOMAIN through
      /\ through[n + 1] = f
  BY <1>1, ThroughType
<1> HIDE DEF line, through
<1>3. f \in Frame
  BY <1>1, <1>2, FrameOfType
<1>4. FrameError(f) \in Answer
  BY <1>3, FrameErrorType
<1>5. FrameError(f) = AnswersTo(through)[n + 1]
  <2>1. AnswersTo(through)[n + 1] = Respond(through[n + 1], Opens(through, n + 1 - 1))
    BY <1>2, AnswersType
  <2>2. Respond(f, Opens(through, n + 1 - 1)) = FrameError(f)
    BY DEF Respond
  <2> QED
    BY <1>2, <2>1, <2>2
<1> QED
  BY <1>2, <1>3, <1>4, <1>5 DEF through

LEMMA AsksLocal ==
  ASSUME NEW s \in Seq(Bytes), NEW max \in Nat, NEW i, NEW r, NEW n \in Nat, NEW w,
         NEW b \in Seq(Bytes), NEW k \in Nat, Asks(s, max, i, r, n, "input", w, b, k),
         NEW c, NEW q, NEW f, Yields(s, max, n, c, q, f), f.kind # "complete"
  PROVE  Asks(s, max, c, q, n + 1, "input", w, b, k)
<1> DEFINE through == Through(s, max)
<1>1. through[n + 1] = f /\ f \in Frame
  <2>1. IsLine(s, max, n, f)
    BY DEF Yields
  <2> QED
    BY <2>1, LocalAnswer
<1>2. /\ Opens(FramesAt(b, FALSE, DaemonLimit), k) <=> Opens(through, n)
      /\ Rank(b, Len(b)) = k /\ Partial(b, Len(b)) = <<>>
  BY DEF Asks
<1> HIDE DEF through
<1>3. Respond(f, FALSE).kind # "handshake.response"
  <2>1. Respond(f, FALSE) = FrameError(f)
    BY DEF Respond
  <2> QED
    BY <1>1, <2>1, FrameErrorType
<1>4. Opens(through, n + 1) <=> Opens(through, n)
  BY <1>1, <1>3, OpensNext
<1> QED
  BY <1>2, <1>4 DEF Asks, Yields, through

(* A piece of the line is written.                                         *)
LEMMA AsksWrite ==
  ASSUME NEW s \in Seq(Bytes), NEW max \in Nat, NEW i, NEW r, NEW n \in Nat,
         NEW w \in Seq(Bytes), NEW b \in Seq(Bytes), NEW k \in Nat,
         Asks(s, max, i, r, n, "sending", w, b, k), NEW m \in 1 .. Len(w)
  PROVE  Asks(s, max, i, r, n, IF m = Len(w) THEN "awaiting" ELSE "sending",
              SubSeq(w, m + 1, Len(w)), b \o SubSeq(w, 1, m), k)
<1> DEFINE line == Lines(s, TRUE)[n + 1]
           c == b \o SubSeq(w, 1, m)
           t == SubSeq(w, m + 1, Len(w))
           frames == FramesAt(b, FALSE, DaemonLimit)
           later == FramesAt(c, FALSE, DaemonLimit)
<1>1. /\ Tracks(s, TRUE, i, r, n + 1, max)
      /\ Opens(frames, k) <=> Opens(Through(s, max), n)
      /\ Rank(b, Len(b)) = k
      /\ n + 1 \in DOMAIN Lines(s, TRUE) /\ FrameOf(line, max).kind = "complete"
      /\ w # <<>> /\ Partial(b, Len(b)) \o w = line
  BY DEF Asks
<1>2. OneLine(line)
  BY <1>1, CompleteLine DEF OneLine
<1>w. Writes(line, b, w, m, c, t)
  BY <1>1, <1>2 DEF Writes
<1> HIDE DEF line, c, t
<1>3. /\ c \in Seq(Bytes) /\ IsPrefixOf(b, c)
      /\ m # Len(w) => /\ Rank(c, Len(c)) = Rank(b, Len(b)) /\ t # <<>>
                       /\ Partial(c, Len(c)) \o t = line
      /\ m = Len(w) => /\ Rank(c, Len(c)) = Rank(b, Len(b)) + 1 /\ Partial(c, Len(c)) = <<>>
                       /\ Lines(c, FALSE)[Rank(b, Len(b)) + 1] = line
  <2>1. Written(line, b, c, t) /\ (m = Len(w) <=> t = <<>>)
    BY <1>w, WritePiece
  <2> QED
    BY <2>1 DEF Written
<1>4. Opens(frames, k) <=> Opens(later, k)
  <2>1. frames \in Seq(Frame) /\ later \in Seq(Frame) /\ IsPrefixOf(frames, later)
        /\ Len(frames) = Len(Lines(b, FALSE))
    BY <1>3, LimitsAreSizes, FramesType, FramesStay
  <2>2. k \in 0 .. Len(frames)
    <3>1. Len(Lines(b, FALSE)) = Cardinality(Newlines(b))
      BY LinesAre
    <3>2. k = Cardinality(Newlines(b))
      BY <1>1, RankEnds
    <3>3. Len(frames) = k
      BY <2>1, <3>1, <3>2
    <3> HIDE DEF frames
    <3> QED
      BY <3>3
  <2> HIDE DEF frames, later
  <2> QED
    BY <2>1, <2>2, OpensStays
<1> HIDE DEF frames
<1>5. CASE m = Len(w)
  <2>1. Asks(s, max, i, r, n, "awaiting", t, c, k)
    BY <1>1, <1>3, <1>4, <1>5 DEF Asks, line
  <2> QED
    BY <1>5, <2>1 DEF c, t
<1>6. CASE m # Len(w)
  <2>1. Asks(s, max, i, r, n, "sending", t, c, k)
    BY <1>1, <1>3, <1>4, <1>6 DEF Asks, line
  <2> QED
    BY <1>6, <2>1 DEF c, t
<1> QED
  BY <1>5, <1>6

(* The answer to the line is read, and it is the one due.                  *)
LEMMA AsksAnswer ==
  ASSUME NEW s \in Seq(Bytes), NEW max \in Nat, NEW i, NEW r, NEW n \in Nat, NEW w, NEW v,
         NEW b \in Seq(Bytes), NEW k \in Nat, Asks(s, max, i, r, n, "awaiting", w, b, k)
  PROVE  /\ Asks(s, max, i, r, n + 1, "input", v, b, k + 1)
         /\ n + 1 \in DOMAIN Through(s, max)
         /\ \A rp \in Seq(Answer) :
              Told(b, FALSE, rp) /\ k < Len(rp) => rp[k + 1] = AnswersTo(Through(s, max))[n + 1]
<1> DEFINE line == Lines(s, TRUE)[n + 1]
           through == Through(s, max)
           frames == FramesAt(b, FALSE, DaemonLimit)
<1>1. /\ Tracks(s, TRUE, i, r, n + 1, max)
      /\ Opens(frames, k) <=> Opens(through, n)
      /\ Rank(b, Len(b)) = k + 1 /\ Partial(b, Len(b)) = <<>>
      /\ n + 1 \in DOMAIN Lines(s, TRUE) /\ FrameOf(line, max).kind = "complete"
      /\ Lines(b, FALSE)[k + 1] = line
  BY DEF Asks
<1>2. through \in Seq(Frame) /\ n + 1 \in DOMAIN through
      /\ through[n + 1] = FrameOf(line, DaemonLimit)
  BY <1>1, ThroughType
<1>3. frames \in Seq(Frame) /\ k + 1 \in DOMAIN frames
      /\ frames[k + 1] = FrameOf(line, DaemonLimit)
  <2>1. DaemonLimit \in Nat
    BY LimitsAreSizes
  <2>2. k + 1 \in DOMAIN Lines(b, FALSE)
    <3>1. DOMAIN Lines(b, FALSE) = 1 .. Cardinality(Newlines(b))
      BY LinesAre
    <3>2. k + 1 = Cardinality(Newlines(b))
      BY <1>1, RankEnds
    <3>3. k + 1 \in 1 .. k + 1
      OBVIOUS
    <3> QED
      BY <3>1, <3>2, <3>3
  <2>3. frames[k + 1] = FrameOf(Lines(b, FALSE)[k + 1], DaemonLimit)
    BY <2>1, <2>2, FramesType
  <2> QED
    BY <1>1, <2>1, <2>2, <2>3, FramesType
<1> HIDE DEF through, frames, line
<1>4. Opens(frames, k + 1) <=> Opens(through, n + 1)
  <2>1. Opens(frames, k + 1) <=>
          Opens(frames, k) \/ Respond(frames[k + 1], FALSE).kind = "handshake.response"
    BY OpensNext
  <2>2. Opens(through, n + 1) <=>
          Opens(through, n) \/ Respond(through[n + 1], FALSE).kind = "handshake.response"
    BY OpensNext
  <2>3. frames[k + 1] = through[n + 1]
    BY <1>2, <1>3
  <2> QED
    BY <1>1, <2>1, <2>2, <2>3
<1>5. Asks(s, max, i, r, n + 1, "input", v, b, k + 1)
  BY <1>1, <1>4 DEF Asks, through, frames
<1>6. ASSUME NEW rp \in Seq(Answer), Told(b, FALSE, rp), k < Len(rp)
      PROVE  rp[k + 1] = AnswersTo(through)[n + 1]
  <2>1. IsPrefixOf(rp, AnswersTo(frames)) /\ k + 1 \in DOMAIN rp
    <3>1. k + 1 \in 1 .. Len(rp)
      BY <1>6
    <3>2. IsPrefixOf(rp, AnswersTo(frames))
      BY <1>6 DEF Told, frames
    <3>3. DOMAIN rp = 1 .. Len(rp)
      BY <1>6
    <3> QED
      BY <3>1, <3>2, <3>3
  <2>2. rp[k + 1] = AnswersTo(frames)[k + 1]
    BY <2>1 DEF IsPrefixOf
  <2>3. AnswersTo(frames)[k + 1] = Respond(frames[k + 1], Opens(frames, k + 1 - 1))
    BY <1>3, AnswersType
  <2>4. AnswersTo(through)[n + 1] = Respond(through[n + 1], Opens(through, n + 1 - 1))
    BY <1>2, AnswersType
  <2>5. k + 1 - 1 = k /\ n + 1 - 1 = n
    OBVIOUS
  <2>6. Opens(frames, k) = Opens(through, n)
    BY <1>1 DEF Opens
  <2>7. frames[k + 1] = through[n + 1]
    BY <1>2, <1>3
  <2> QED
    BY <2>2, <2>3, <2>4, <2>5, <2>6, <2>7
<1> QED
  BY <1>2, <1>5, <1>6 DEF through

-----------------------------------------------------------------------------
(* What keeps PrintedInOrder and CleanExitAnswered true: a jsonl client is *)
(* where its input and the stream say, the handler has read all that it    *)
(* answers, and a session that ended in order left no line without answer. *)

Speaking == mode = "jsonl" /\ ~killed /\ pc \in {"input", "sending", "awaiting"}
Asking   == Asks(script, limit, taken, input, Len(printed), pc, sending, sent, read)
Heard ==
  /\ handler = "checking" => fetched = received
  /\ handler = "answering" => pc = "awaiting" /\ received = Len(sent)
  /\ conn = "closed" => Rank(sent, Len(sent)) <= Len(replies)

JsonlInv ==
  /\ pc \in Launching => printed = <<>> /\ input = NewReader
  /\ pc = "showing" => mode # "jsonl"
  /\ Speaking => Asking /\ Heard

PrintInv == JsonlInv /\ PrintedInOrder /\ CleanExitAnswered

Prints(s, max, p) == IsPrefixOf(p, AnswersTo(Through(s, max)))

LEMMA PrintsNothing ==
  ASSUME NEW s \in Seq(Bytes), NEW max \in Nat PROVE Prints(s, max, <<>>)
<1>1. AnswersTo(Through(s, max)) \in Seq(Answer)
  BY ThroughType, AnswersType
<1> QED
  BY <1>1, PrefixEmpty DEF Prints

(* The next answer is printed.                                             *)
LEMMA PrintsNext ==
  ASSUME NEW s \in Seq(Bytes), NEW max \in Nat, NEW p \in Seq(Answer), Prints(s, max, p),
         Len(p) + 1 \in DOMAIN Through(s, max), NEW a,
         a = AnswersTo(Through(s, max))[Len(p) + 1]
  PROVE  Prints(s, max, Append(p, a))
<1> DEFINE through == Through(s, max)
           answers == AnswersTo(through)
<1>1. through \in Seq(Frame)
  BY ThroughType
<1>2. answers \in Seq(Answer) /\ Len(answers) = Len(through)
  BY <1>1, AnswersType
<1>3. Len(p) + 1 \in 1 .. Len(through) /\ Len(through) \in Nat /\ Len(p) \in Nat
  BY <1>1
<1>4. IsPrefixOf(p, answers) /\ a = answers[Len(p) + 1]
  BY DEF Prints
<1> HIDE DEF answers, through
<1>5. Len(p) < Len(answers)
  BY <1>2, <1>3
<1>6. IsPrefixOf(Append(p, answers[Len(p) + 1]), answers)
  BY <1>2, <1>4, <1>5, PrefixGrows
<1> QED
  BY <1>4, <1>6 DEF Prints, answers, through

LEMMA PrintedIs ==
  /\ PrintedInOrder <=> (mode = "jsonl" /\ ~killed /\ ~Refused => Prints(script, limit, printed))
  /\ CleanExitAnswered <=>
       (mode = "jsonl" /\ exit = 0 /\ ~killed => Len(printed) = Len(Through(script, limit)))
<1>1. FramesThrough = Through(script, limit)
  BY DEF FramesThrough, Through
<1> QED
  BY <1>1 DEF PrintedInOrder, CleanExitAnswered, Prints

LEMMA PrintInit == Init => PrintInv
<1> SUFFICES ASSUME Init PROVE PrintInv
  OBVIOUS
<1>1. script \in Seq(Bytes) /\ limit \in Nat /\ printed = <<>> /\ exit = None /\ pc \in Launching
      /\ input = NewReader
  BY DEF Init, Launching
<1>2. JsonlInv
  BY <1>1 DEF JsonlInv, Speaking, Launching
<1>3. Prints(script, limit, printed)
  BY <1>1, PrintsNothing
<1>4. exit # 0
  BY <1>1, NoneIsNoCode
<1> QED
  BY <1>2, <1>3, <1>4, PrintedIs DEF PrintInv

(* A step after which the client is no jsonl client, or one that goes on.  *)
LEMMA Elsewhere ==
  ASSUME mode' # "jsonl", pc' \notin Launching PROVE PrintInv'
BY DEF PrintInv, JsonlInv, Speaking, PrintedInOrder, CleanExitAnswered

LEMMA Continues ==
  ASSUME UNCHANGED <<mode, limit, script, replies, killed>>, pc' \notin Launching,
         pc' # "showing",
         mode = "jsonl" /\ ~killed /\ ~Refused => Prints(script, limit, printed'),
         mode = "jsonl" /\ ~killed /\ exit' = 0 =>
           Len(printed') = Len(Through(script, limit)),
         Speaking' => Asking' /\ Heard'
  PROVE  PrintInv'
<1>1. Refused' <=> Refused
  BY DEF Refused
<1>2. JsonlInv'
  BY DEF JsonlInv
<1>3. /\ PrintedInOrder' <=>
           (mode' = "jsonl" /\ ~killed' /\ ~Refused' => Prints(script', limit', printed'))
      /\ CleanExitAnswered' <=>
           (mode' = "jsonl" /\ exit' = 0 /\ ~killed' =>
              Len(printed') = Len(Through(script', limit')))
  <2>1. FramesThrough' = Through(script', limit')
    BY DEF FramesThrough, Through
  <2> QED
    BY <2>1 DEF PrintedInOrder, CleanExitAnswered, Prints
<1> QED
  BY <1>1, <1>2, <1>3 DEF PrintInv

LEMMA LaunchPrints ==
  ASSUME IInv, IInv', ThreadInv, PrintInv,
         Start \/ Probe \/ LookForSocket \/ LookAtSocket \/ Connect
  PROVE  PrintInv'
<1>1. /\ pc \in Launching /\ pc # "ended" /\ printed = <<>> /\ input = NewReader
      /\ UNCHANGED <<printed, input, killed>>
  <2>1. pc \in Launching /\ pc # "ended"
    BY DEF Start, Probe, LookForSocket, LookAtSocket, Connect, Launching
  <2>2. UNCHANGED <<printed, input, killed>>
    BY DEF Start, Probe, LookForSocket, LookAtSocket, Connect, process
  <2>3. printed = <<>> /\ input = NewReader
    BY <2>1 DEF PrintInv, JsonlInv
  <2> QED
    BY <2>1, <2>2, <2>3
<1>2. script' \in Seq(Bytes) /\ limit' \in Nat /\ exit = None /\ exit # 0
  BY <1>1, NoneIsNoCode DEF IInv, TypeOK, SessionInv
<1>3. Prints(script', limit', printed')
  <2>1. PICK s \in Seq(Bytes), max \in Nat : s = script' /\ max = limit'
    BY <1>2
  <2>2. Prints(s, max, <<>>)
    BY PrintsNothing
  <2> QED
    BY <1>1, <2>1, <2>2
<1>4. pc' # "showing" /\ (exit' = 0 => mode' # "jsonl")
  <2>1. CASE Start
    <3>1. /\ pc = "start" /\ mode' = Launch(command).mode
          /\ pc' \in {"probe", "connect", "ended"}
          /\ exit' = Launch(command).exit \/ exit' = exit
      BY <2>1 DEF Start, Exit
    <3>2. command \in Commands
      BY <3>1 DEF IInv, SessionInv
    <3>3. Launch(command).exit = 0 => Launch(command).mode = "version"
      BY <3>2, LaunchType
    <3> QED
      BY <1>2, <3>1, <3>3
  <2>2. CASE Probe \/ LookForSocket \/ LookAtSocket
    <3>1. exit' \in {exit, 1, 4} /\ pc' \in {"look", "stat", "connect", "ended"}
      BY <2>2 DEF Probe, LookForSocket, LookAtSocket, Exit
    <3> QED
      BY <1>2, <3>1
  <2>3. CASE Connect
    <3>1. exit' \in {exit, 1, 4} /\ pc' \in {"input", "talking", "sending", "ended"}
      BY <2>3 DEF Connect, Exit
    <3> QED
      BY <1>2, <3>1
  <2> QED
    BY <2>1, <2>2, <2>3
<1>5. ASSUME Speaking' PROVE Asking' /\ Heard'
  <2>1. Connect /\ conn' = "backlog" /\ mode = "jsonl" /\ pc = "connect" /\ pc' = "input"
    BY <1>5 DEF Speaking, Start, Probe, LookForSocket, LookAtSocket, Connect, Exit, starting
  <2>2. UNCHANGED <<limit, taken, sent, read, handler>>
    BY <2>1 DEF Connect, starting, wire, thread
  <2>3. conn = "none" /\ sent = <<>> /\ handler = "none" /\ taken = 0 /\ replies = <<>>
    BY <2>1 DEF ThreadInv, Unaccepted, Launching, IInv, SessionInv
  <2>4. read = 0
    BY <2>3 DEF IInv, TypeOK
  <2>5. Asking'
    <3>1. PICK s \in Seq(Bytes), max \in Nat : s = script' /\ max = limit'
      BY <1>2
    <3>2. Asks(s, max, 0, NewReader, 0, "input", sending', <<>>, 0)
      BY AsksStart
    <3>3. Len(printed') = 0
      BY <1>1
    <3> QED
      BY <1>1, <2>1, <2>2, <2>3, <2>4, <3>1, <3>2, <3>3 DEF Asking
  <2> QED
    BY <2>1, <2>2, <2>3, <2>5 DEF Heard
<1>6. JsonlInv'
  BY <1>1, <1>4, <1>5 DEF JsonlInv
<1>7. PrintedInOrder' /\ CleanExitAnswered'
  <2>1. FramesThrough' = Through(script', limit')
    BY DEF FramesThrough, Through
  <2> QED
    BY <1>3, <1>4, <2>1 DEF PrintedInOrder, CleanExitAnswered, Prints
<1> QED
  BY <1>6, <1>7 DEF PrintInv

LEMMA WritePrints ==
  ASSUME IInv, PrintInv, Write
  PROVE  PrintInv'
<1>1. /\ pc = "sending" /\ UNCHANGED <<mode, limit, script, replies, killed, printed>>
      /\ UNCHANGED <<taken, input, read, handler, fetched, received, conn>>
      /\ exit = None /\ exit # 0
  BY NoneIsNoCode DEF Write, starting, thread, process, IInv, SessionInv
<1>2. mode = "jsonl" /\ ~killed /\ ~Refused => Prints(script, limit, printed)
  BY PrintedIs DEF PrintInv
<1>3. CASE conn \in {"closed", "reset"}
  <2>1. pc' = "ended" /\ exit' \in {1, 3}
    BY <1>3 DEF Write, Exit, ProtocolExit
  <2>2. ~Speaking' /\ pc' \notin Launching /\ pc' # "showing" /\ exit' # 0
    BY <2>1 DEF Speaking, Launching
  <2> QED
    BY <1>1, <1>2, <2>2, Continues
<1>4. CASE conn \notin {"closed", "reset"}
  <2>1. PICK n \in 1 .. Len(sending) :
          /\ sent' = sent \o SubSeq(sending, 1, n)
          /\ sending' = SubSeq(sending, n + 1, Len(sending))
          /\ pc' = IF n = Len(sending) THEN "awaiting" ELSE "sending"
          /\ UNCHANGED exit
    BY <1>4 DEF Write
  <2>2. exit' # 0 /\ pc' \notin Launching /\ pc' # "showing"
    BY <1>1, <2>1 DEF Launching
  <2>3. ASSUME Speaking' PROVE Asking' /\ Heard'
    <3>1. Speaking
      BY <1>1, <2>3 DEF Speaking
    <3>2. Asks(script, limit, taken, input, Len(printed), "sending", sending, sent, read) /\ Heard
      BY <1>1, <3>1 DEF PrintInv, JsonlInv, Asking
    <3>3. /\ script \in Seq(Bytes) /\ limit \in Nat /\ Len(printed) \in Nat
          /\ sending \in Seq(Bytes) /\ sent \in Seq(Bytes) /\ read \in Nat
      BY DEF IInv, TypeOK
    <3>4. Asks(script, limit, taken, input, Len(printed),
               IF n = Len(sending) THEN "awaiting" ELSE "sending",
               SubSeq(sending, n + 1, Len(sending)), sent \o SubSeq(sending, 1, n), read)
      BY <3>2, <3>3, AsksWrite
    <3>5. Asking'
      BY <1>1, <2>1, <3>4 DEF Asking
    <3>6. Heard'
      BY <1>1, <1>4, <3>2 DEF Heard
    <3> QED
      BY <3>5, <3>6
  <2> QED
    BY <1>1, <1>2, <2>2, <2>3, Continues
<1> QED
  BY <1>3, <1>4

(* An answer is read, or the end of the connection.                        *)
LEMMA ReceivePrints ==
  ASSUME IInv, ThreadInv, PrintInv, Receive
  PROVE  PrintInv'
<1>1. /\ pc = "awaiting" /\ read < Len(replies) /\ read' = read + 1
      /\ UNCHANGED <<mode, limit, script, replies, killed, taken, input, sent>>
      /\ UNCHANGED <<handler, fetched, received, conn>>
  BY DEF Receive, starting, thread, process, wire
<1>2. /\ script \in Seq(Bytes) /\ limit \in Nat /\ Len(printed) \in Nat /\ read \in Nat
      /\ sent \in Seq(Bytes) /\ replies \in Seq(Answer) /\ printed \in Seq(Answer)
      /\ exit = None /\ exit # 0 /\ received \in 0 .. Len(sent) /\ Len(replies) \in Nat
  BY <1>1, NoneIsNoCode DEF IInv, TypeOK, SessionInv
<1>3. CASE Advance(replies[read + 1])
  <2>1. mode' # "jsonl" /\ pc' \notin Launching
    BY <1>1, <1>3 DEF Advance, Exit, Launching
  <2> QED
    BY <2>1, Elsewhere
<1>4. CASE Forward(replies[read + 1])
  <2>1. /\ mode = "jsonl" /\ pc' = "input" /\ UNCHANGED exit
        /\ printed' = Append(printed, replies[read + 1])
    <3>1. replies[read + 1] \in Answer
      <4>1. read + 1 \in 1 .. Len(replies)
        BY <1>1, <1>2
      <4> QED
        BY <1>2, <4>1
    <3>2. replies[read + 1] # None
      BY <3>1, NoneIsNoCode
    <3> QED
      BY <1>4, <3>2 DEF Forward
  <2>2. exit' # 0 /\ pc' \notin Launching /\ pc' # "showing"
    BY <1>2, <2>1 DEF Launching
  <2>3. CASE killed
    BY <1>1, <2>2, <2>3, Continues DEF Speaking
  <2>4. CASE ~killed
    <3>1. Asks(script, limit, taken, input, Len(printed), "awaiting", sending, sent, read) /\ Heard
      BY <1>1, <2>1, <2>4 DEF PrintInv, JsonlInv, Speaking, Asking
    <3>2. /\ Asks(script, limit, taken, input, Len(printed) + 1, "input", sending', sent, read + 1)
          /\ Len(printed) + 1 \in DOMAIN Through(script, limit)
          /\ \A rp \in Seq(Answer) :
               Told(sent, FALSE, rp) /\ read < Len(rp) =>
                 rp[read + 1] = AnswersTo(Through(script, limit))[Len(printed) + 1]
      BY <1>2, <3>1, AsksAnswer
    <3>3. ASSUME ~Refused PROVE Prints(script, limit, printed')
      <4>1. Prints(script, limit, printed)
        BY <2>1, <2>4, <3>3, PrintedIs DEF PrintInv
      <4>2. (clientEnd # "open") = FALSE
        BY <1>1 DEF ThreadInv
      <4>3. Told(sent, FALSE, replies)
        BY <3>3, <4>2 DEF ThreadInv
      <4>4. replies[read + 1] = AnswersTo(Through(script, limit))[Len(printed) + 1]
        BY <1>1, <1>2, <3>2, <4>3
      <4> QED
        BY <1>2, <2>1, <3>2, <4>1, <4>4, PrintsNext
    <3>4. Asking'
      <4>1. Len(printed') = Len(printed) + 1
        BY <1>2, <2>1
      <4> QED
        BY <1>1, <2>1, <3>2, <4>1 DEF Asking
    <3>5. handler # "answering"
      <4>1. SUFFICES ASSUME handler = "answering" PROVE FALSE
        OBVIOUS
      <4>2. PICK ended : ended = FALSE /\ ended = (clientEnd # "open")
        BY <1>1 DEF ThreadInv
      <4>3. Tracks(sent, ended, received, reader, Len(replies) + 1, DaemonLimit)
        BY <4>1, <4>2 DEF ThreadInv, Served
      <4>4. Len(replies) + 1 = Rank(sent, received)
        BY <4>2, <4>3 DEF Tracks
      <4>5. received = Len(sent) /\ Rank(sent, Len(sent)) = read + 1
        BY <3>1, <4>1 DEF Heard, Asks
      <4> QED
        BY <1>1, <1>2, <4>4, <4>5
    <3>6. Heard'
      BY <1>1, <3>1, <3>5 DEF Heard
    <3> QED
      BY <1>1, <2>2, <3>3, <3>4, <3>6, Continues
  <2> QED
    BY <2>3, <2>4
<1> QED
  BY <1>3, <1>4 DEF Receive

(* The connection ended in order: no answer was due any more.              *)
LEMMA ReceiveEndPrints ==
  ASSUME IInv, ThreadInv, PrintInv, ReceiveEnd
  PROVE  PrintInv'
<1>1. /\ pc = "awaiting" /\ read = Len(replies) /\ conn \in {"closed", "reset"}
      /\ UNCHANGED <<mode, limit, script, replies, killed>>
      /\ exit = None /\ exit # 0 /\ read \in Nat
  BY NoneIsNoCode DEF ReceiveEnd, starting, wire, process, IInv, TypeOK, SessionInv
<1>2. mode = "jsonl" /\ ~killed /\ ~Refused => Prints(script, limit, printed)
  BY PrintedIs DEF PrintInv
<1>3. CASE mode # "jsonl"
  <2>1. mode' # "jsonl" /\ pc' \notin Launching
    BY <1>1, <1>3 DEF ReceiveEnd, Forward, Advance, Exit, Launching
  <2> QED
    BY <2>1, Elsewhere
<1>4. CASE conn = "reset"
  <2>1. pc' = "ended" /\ exit' \in {1, 3} /\ UNCHANGED printed
    BY <1>4 DEF ReceiveEnd, Exit, ProtocolExit
  <2>2. ~Speaking' /\ pc' \notin Launching /\ pc' # "showing" /\ exit' # 0
    BY <2>1 DEF Speaking, Launching
  <2> QED
    BY <1>1, <1>2, <2>1, <2>2, Continues
<1>5. CASE mode = "jsonl" /\ conn = "closed"
  <2>1. killed
    <3>1. SUFFICES ASSUME ~killed PROVE FALSE
      OBVIOUS
    <3>2. Asking /\ Heard
      BY <1>1, <1>5, <3>1 DEF PrintInv, JsonlInv, Speaking
    <3>3. Rank(sent, Len(sent)) = read + 1
      BY <1>1, <3>2 DEF Asking, Asks
    <3>4. Rank(sent, Len(sent)) <= Len(replies)
      BY <1>5, <3>2 DEF Heard
    <3> QED
      BY <1>1, <3>3, <3>4
  <2>2. pc' = "input" /\ UNCHANGED exit
    BY <1>5 DEF ReceiveEnd, Forward, Advance
  <2>3. ~Speaking' /\ pc' \notin Launching /\ pc' # "showing" /\ exit' # 0
    BY <1>1, <2>1, <2>2 DEF Speaking, Launching
  <2> QED
    BY <1>1, <2>1, <2>3, Continues
<1> QED
  BY <1>1, <1>3, <1>4, <1>5

(* A frame of the input is sent, or answered on the spot.                  *)
LEMMA TypedPrints ==
  ASSUME IInv, PrintInv, pc = "input", NEW next, NEW count, Typed(next, count),
         \/ taken < Len(script) /\ next = Take(input, script[taken + 1], limit)
            /\ count = taken + 1
         \/ taken = Len(script) /\ next = AtEnd(input) /\ count = taken
  PROVE  PrintInv'
<1>n. PICK n \in Nat : n = Len(printed)
  BY DEF IInv, TypeOK
<1>1. /\ UNCHANGED <<mode, limit, script, replies, killed, read, sent>>
      /\ UNCHANGED <<handler, fetched, received, conn>>
      /\ input' = next.reader /\ taken' = count
      /\ exit = None /\ exit # 0 /\ mode = "jsonl"
  BY NoneIsNoCode DEF Typed, starting, wire, thread, process, IInv, SessionInv
<1>2. /\ script \in Seq(Bytes) /\ limit \in Nat /\ n \in Nat /\ read \in Nat
      /\ sent \in Seq(Bytes) /\ printed \in Seq(Answer) /\ taken \in 0 .. Len(script)
  BY DEF IInv, TypeOK
<1>3. /\ next.frame = None =>
           UNCHANGED <<pc, exit, printed>>
      /\ next.frame # None /\ next.frame.kind = "end" =>
           pc' = "ended" /\ UNCHANGED printed
      /\ next.frame # None /\ next.frame.kind = "complete" =>
           pc' = "sending" /\ sending' = next.frame.bytes /\ UNCHANGED <<exit, printed>>
      /\ next.frame # None /\ next.frame.kind \notin {"end", "complete"} =>
           /\ printed' = Append(printed, FrameError(next.frame))
           /\ Terminal(next.frame) => pc' = "ended"
           /\ ~Terminal(next.frame) => UNCHANGED <<pc, exit>>
  BY DEF Typed, Exit
<1>4. pc' \in {"input", "sending", "ended"}
  BY <1>3
<1>5. pc' \notin Launching /\ pc' # "showing"
  BY <1>4 DEF Launching
<1>6. CASE killed
  BY <1>1, <1>5, <1>6, Continues DEF Speaking
<1>7. CASE ~killed
  <2>1. Asks(script, limit, taken, input, n, "input", sending, sent, read) /\ Heard
    BY <1>1, <1>n, <1>7 DEF PrintInv, JsonlInv, Speaking, Asking
  <2>2. Tracks(script, TRUE, taken, input, n, limit)
    BY <2>1 DEF Asks
  <2>3. ~Refused => Prints(script, limit, printed)
    BY <1>1, <1>7, PrintedIs DEF PrintInv
  <2>4. Heard'
    <3>1. handler # "answering"
      BY <2>1 DEF Heard
    <3> QED
      BY <1>1, <2>1, <3>1 DEF Heard
  <2>5. Len(Through(script, limit)) = Len(Lines(script, TRUE))
    BY <1>2, ThroughType
  <2>6. Brings(script, limit, n, count, next)
    <3>1. \/ taken < Len(script) /\ next = Take(input, script[taken + 1], limit)
             /\ count = taken + 1
          \/ taken = Len(script) /\ next = AtEnd(input) /\ count = taken
      OBVIOUS
    <3>2. PICK whole : whole = TRUE /\ Tracks(script, whole, taken, input, n, limit)
      BY <2>2
    <3> QED
      BY <1>2, <3>1, <3>2, NextFrame
  <2>7. CASE next.frame = None /\ Tracks(script, TRUE, count, next.reader, n, limit)
    <3>1. UNCHANGED <<pc, exit, printed>>
      BY <1>3, <2>7
    <3>2. Asks(script, limit, count, next.reader, n, "input", sending', sent, read)
      BY <2>1, <2>7 DEF Asks
    <3>3. Asking'
      BY <1>1, <1>n, <3>1, <3>2 DEF Asking
    <3> QED
      BY <1>1, <1>5, <2>3, <2>4, <3>1, <3>3, Continues
  <2>8. CASE next.frame # None /\ next.frame.kind = "end" /\ n = Len(Lines(script, TRUE))
    <3>1. pc' = "ended" /\ UNCHANGED printed
      BY <1>3, <2>8
    <3>2. ~Speaking' /\ Len(printed') = Len(Through(script, limit))
      BY <1>n, <2>5, <2>8, <3>1 DEF Speaking
    <3> QED
      BY <1>1, <1>5, <2>3, <3>1, <3>2, Continues
  <2>9. CASE /\ next.frame # None /\ next.frame.kind = "complete"
             /\ Yields(script, limit, n, count, next.reader, next.frame)
    <3>1. pc' = "sending" /\ sending' = next.frame.bytes /\ UNCHANGED <<exit, printed>>
      BY <1>3, <2>9
    <3>2. Asks(script, limit, count, next.reader, n, "sending", next.frame.bytes, sent, read)
      BY <1>2, <2>1, <2>9, AsksComplete
    <3>3. Asking'
      BY <1>1, <1>n, <3>1, <3>2 DEF Asking
    <3> QED
      BY <1>1, <1>5, <2>3, <2>4, <3>1, <3>3, Continues
  <2>10. CASE /\ next.frame # None /\ next.frame.kind \notin {"end", "complete"}
              /\ Yields(script, limit, n, count, next.reader, next.frame)
              /\ Terminal(next.frame) => n + 1 = Len(Lines(script, TRUE))
    <3>0. IsLine(script, limit, n, next.frame)
      BY <2>10 DEF Yields
    <3>1. /\ printed' = Append(printed, FrameError(next.frame))
          /\ Terminal(next.frame) => pc' = "ended"
          /\ ~Terminal(next.frame) => UNCHANGED <<pc, exit>>
      BY <1>3, <2>10
    <3>2. /\ Asks(script, limit, count, next.reader, n + 1, "input", sending', sent, read)
          /\ FrameError(next.frame) = AnswersTo(Through(script, limit))[n + 1]
      <4>1. next.frame.kind # "complete"
        BY <2>10
      <4>2. Asks(script, limit, count, next.reader, n + 1, "input", sending, sent, read)
        BY <1>2, <2>1, <2>10, <4>1, AsksLocal
      <4>3. ASSUME NEW w
            PROVE  Asks(script, limit, count, next.reader, n + 1, "input", w, sent, read)
        BY <4>2 DEF Asks
      <4>4. Asks(script, limit, count, next.reader, n + 1, "input", sending', sent, read)
        BY <4>3
      <4>5. FrameError(next.frame) = AnswersTo(Through(script, limit))[n + 1]
        BY <1>2, <3>0, <4>1, LocalAnswer
      <4> QED
        BY <4>4, <4>5
    <3>3. ~Refused => Prints(script, limit, printed')
      <4>1. n + 1 \in DOMAIN Through(script, limit)
        BY <1>2, <2>10, ThroughType DEF Yields, IsLine
      <4> QED
        BY <1>n, <1>2, <2>3, <3>1, <3>2, <4>1, PrintsNext
    <3>4. Len(printed') = n + 1
      <4>1. next.frame.kind # "complete"
        BY <2>10
      <4>2. FrameError(next.frame) \in Answer
        BY <1>2, <3>0, <4>1, LocalAnswer
      <4> QED
        BY <1>n, <1>2, <3>1, <4>2
    <3>5. CASE Terminal(next.frame)
      <4>1. ~Speaking' /\ Len(printed') = Len(Through(script, limit))
        BY <2>5, <2>10, <3>1, <3>4, <3>5 DEF Speaking
      <4> QED
        BY <1>1, <1>5, <3>3, <4>1, Continues
    <3>6. CASE ~Terminal(next.frame)
      <4>1. UNCHANGED <<pc, exit>>
        BY <3>1, <3>6
      <4>2. Asking'
        BY <1>1, <3>2, <3>4, <4>1 DEF Asking
      <4> QED
        BY <1>1, <1>5, <2>4, <3>3, <4>1, <4>2, Continues
    <3> QED
      BY <3>5, <3>6
  <2> QED
    BY <2>6, <2>7, <2>8, <2>9, <2>10 DEF Brings
<1> QED
  BY <1>6, <1>7

LEMMA ReadInputPrints ==
  ASSUME IInv, PrintInv, ReadInput
  PROVE  PrintInv'
<1>1. pc = "input" /\ taken \in 0 .. Len(script) /\ Len(script) \in Nat
  BY DEF ReadInput, IInv, TypeOK
<1>2. CASE taken < Len(script)
  <2>1. PICK next, count : /\ next = Take(input, script[taken + 1], limit)
                           /\ count = taken + 1
    OBVIOUS
  <2>2. Typed(next, count)
    BY <1>2, <2>1 DEF ReadInput
  <2> QED
    BY <1>1, <1>2, <2>1, <2>2, TypedPrints
<1>3. CASE taken = Len(script)
  <2>1. PICK next : next = AtEnd(input)
    OBVIOUS
  <2>2. Typed(next, taken)
    BY <1>1, <1>3, <2>1 DEF ReadInput
  <2> QED
    BY <1>1, <1>3, <2>1, <2>2, TypedPrints
<1> QED
  BY <1>1, <1>2, <1>3

(* tui and other programs.                                                 *)
LEMMA OthersPrint ==
  ASSUME IInv, PrintInv, Quit \/ Talk \/ HangUp
  PROVE  PrintInv'
<1>1. /\ UNCHANGED <<mode, limit, script, replies, killed, printed>>
      /\ pc \in {"showing", "talking"} /\ pc' \in {"talking", "ended"}
  BY DEF Quit, Talk, HangUp, Exit, starting, wire, process
<1>2. ~Speaking' /\ pc' \notin Launching /\ pc' # "showing" /\ exit # 0
  BY <1>1, NoneIsNoCode DEF Speaking, Launching, IInv, SessionInv
<1>3. mode = "jsonl" /\ ~killed /\ ~Refused => Prints(script, limit, printed)
  BY PrintedIs DEF PrintInv
<1>4. CASE mode # "jsonl"
  BY <1>1, <1>2, <1>4, Elsewhere
<1>5. CASE mode = "jsonl"
  <2>1. UNCHANGED exit
    BY <1>1, <1>5 DEF Quit, Talk, HangUp, PrintInv, JsonlInv
  <2> QED
    BY <1>1, <1>2, <1>3, <2>1, Continues
<1> QED
  BY <1>4, <1>5

-----------------------------------------------------------------------------
(* The handler and the daemon, while a jsonl client speaks.                *)

LEMMA ServerPrints ==
  ASSUME PrintInv, UNCHANGED <<starting, client>>, killed => killed', Refused => Refused',
         Speaking /\ ~killed' => UNCHANGED sent /\ Heard'
  PROVE  PrintInv'
<1>1. UNCHANGED <<mode, limit, script, pc, exit, taken, input, printed, sending, read>>
  BY DEF starting, client
<1>2. Speaking' => Speaking /\ ~killed'
  BY <1>1 DEF Speaking
<1>3. ASSUME Speaking' PROVE Asking' /\ Heard'
  <2>1. Asking /\ UNCHANGED sent /\ Heard'
    BY <1>2, <1>3 DEF PrintInv, JsonlInv
  <2> QED
    BY <1>1, <2>1 DEF Asking
<1>4. JsonlInv'
  BY <1>1, <1>3 DEF PrintInv, JsonlInv
<1>5. FramesThrough' = FramesThrough
  BY <1>1 DEF FramesThrough
<1>6. PrintedInOrder' /\ CleanExitAnswered'
  BY <1>1, <1>5 DEF PrintInv, PrintedInOrder, CleanExitAnswered
<1> QED
  BY <1>4, <1>6 DEF PrintInv

(* An answer after the first does not change what the first was.           *)
LEMMA RefusedStays ==
  ASSUME replies \in Seq(Answer), NEW a \in Answer, replies' = Append(replies, a), Refused
  PROVE  Refused'
<1>1. replies # <<>> /\ replies[1].code = "authorization.peer_uid"
  BY DEF Refused
<1>2. Len(replies) \in Nat /\ Len(replies) # 0 /\ 1 \in 1 .. Len(replies)
  BY <1>1
<1>3. Append(replies, a)[1] = replies[1] /\ Append(replies, a) # <<>>
  BY <1>2
<1> QED
  BY <1>1, <1>3 DEF Refused

(* It answers only the line that is awaited, when it has read it all, and  *)
(* closes in order only when it has answered all there is.                 *)
LEMMA HandlerHears ==
  ASSUME IInv, ThreadInv, JsonlInv, Speaking, Handler
  PROVE  Heard'
<1>1. /\ sent \in Seq(Bytes) /\ replies \in Seq(Answer) /\ handshaken \in BOOLEAN
      /\ fetched \in 0 .. Len(sent) /\ received \in 0 .. fetched /\ received \in 0 .. Len(sent)
      /\ read \in 0 .. Len(replies) /\ Len(replies) \in Nat /\ Len(sent) \in Nat
      /\ UNCHANGED sent /\ UNCHANGED pc
  BY DEF IInv, TypeOK, Handler, Check, ReadByte, Pending, ReadEnd, Reply, wire, client
<1>2. clientEnd = "open" /\ handler # "none" /\ conn = "open" /\ Heard
  BY DEF Speaking, ThreadInv, JsonlInv, Handler, Check, ReadByte, Pending, ReadEnd, Reply
<1>3. Rank(sent, Len(sent)) = IF pc = "awaiting" THEN read + 1 ELSE read
  BY DEF JsonlInv, Asking, Asks
<1>4. pc # "sending" => Partial(sent, Len(sent)) = <<>>
  BY DEF JsonlInv, Asking, Asks
<1>5. PICK ended \in BOOLEAN :
        ended = FALSE /\ Served(sent, ended, received, reader, handler, frame, replies, handshaken)
  BY <1>2 DEF ThreadInv
<1>6. Rank(sent, received) = Len(replies) + (IF handler = "answering" THEN 1 ELSE 0)
  BY <1>5 DEF Served, Tracks
<1>7. CASE Check
  <2>1. handler = "checking" /\ fetched = received /\ UNCHANGED replies
    BY <1>2, <1>7 DEF Check, Heard, wire
  <2>2. CASE Close
    <3>1. handler' = "none" /\ conn' = (IF fetched < Len(sent) THEN "reset" ELSE "closed")
      BY <2>2 DEF Close
    <3>2. conn' = "closed" => received = Len(sent)
      BY <1>1, <2>1, <3>1
    <3>3. conn' = "closed" => Rank(sent, Len(sent)) <= Len(replies)
      BY <1>1, <1>6, <2>1, <3>2
    <3> QED
      BY <1>1, <2>1, <3>1, <3>3 DEF Heard
  <2>3. CASE handler' = "reading" /\ UNCHANGED conn
    BY <1>2, <2>3 DEF Heard
  <2> QED
    BY <1>7, <2>2, <2>3 DEF Check
<1>8. CASE ReadByte
  <2> DEFINE next == Take(reader, sent[received + 1], DaemonLimit)
  <2>1. /\ handler = "reading" /\ received < Len(sent) /\ received' = received + 1
        /\ handler' = IF next.frame = None THEN "reading" ELSE "answering"
        /\ UNCHANGED conn
    BY <1>8 DEF ReadByte, process
  <2>2. CASE next.frame = None
    BY <1>2, <2>1, <2>2 DEF Heard
  <2>3. CASE next.frame # None
    <3>1. Served(sent, ended, received, reader, "reading", frame, replies, handshaken)
      BY <1>5, <2>1
    <3>2. Len(replies) + 1 = Rank(sent, received + 1) /\ Partial(sent, received + 1) = <<>>
      BY <1>1, <2>1, <2>3, <3>1, ServedByte
    <3> HIDE DEF next
    <3>3. received + 1 \in Nat /\ received + 1 <= Len(sent) /\ received + 1 \in 0 .. Len(sent)
      BY <1>1, <2>1
    <3>4. Rank(sent, received + 1) <= Rank(sent, Len(sent))
      BY <1>1, <3>3, RankMono
    <3>5. pc = "awaiting" /\ Rank(sent, Len(sent)) = Rank(sent, received + 1)
      BY <1>1, <1>3, <3>2, <3>4
    <3>6. received + 1 = Len(sent)
      <4>1. Partial(sent, Len(sent)) = <<>>
        BY <1>4, <3>5
      <4>2. Len(sent) \in 0 .. Len(sent)
        BY <1>1
      <4>3. Len(Partial(sent, Len(sent))) = Len(sent) - EndOf(sent, Rank(sent, Len(sent)))
        BY <1>1, <4>2, PartialType
      <4>4. PICK i \in 0 .. Len(sent) : i = received + 1
        BY <3>3
      <4>5. /\ Len(Partial(sent, i)) = i - EndOf(sent, Rank(sent, i))
            /\ EndOf(sent, Rank(sent, i)) \in 0 .. i
        BY <1>1, PartialType, LastEnd
      <4>6. PICK e \in Nat : e = EndOf(sent, Rank(sent, i))
        BY <4>5
      <4>7. 0 = Len(sent) - e /\ 0 = i - e
        <5>1. PICK empty : empty = <<>> /\ Len(empty) = 0
          OBVIOUS
        <5>2. Partial(sent, i) = empty /\ Partial(sent, Len(sent)) = empty
          BY <3>2, <4>1, <4>4, <5>1
        <5>3. EndOf(sent, Rank(sent, Len(sent))) = e
          BY <3>5, <4>4, <4>6
        <5>4. 0 = Len(sent) - e
          BY <4>3, <5>1, <5>2, <5>3
        <5>5. 0 = i - e
          BY <4>5, <4>6, <5>1, <5>2
        <5> QED
          BY <4>4, <5>4, <5>5
      <4>8. i = Len(sent)
        BY <1>1, <4>4, <4>6, <4>7
      <4> QED
        BY <4>4, <4>8
    <3>7. handler' = "answering" /\ received' = Len(sent)
      BY <2>1, <2>3, <3>6
    <3> QED
      BY <1>1, <1>2, <2>1, <3>5, <3>7 DEF Heard
  <2> QED
    BY <2>2, <2>3
<1>9. CASE Pending
  <2>1. handler' = "checking" /\ received = Len(sent) /\ UNCHANGED <<conn, fetched, received>>
    BY <1>9 DEF Pending, process
  <2>2. fetched = received
    BY <1>1, <2>1
  <2> QED
    BY <1>2, <2>1, <2>2 DEF Heard
<1>10. CASE Reply
  <2>1. /\ handler = "answering" /\ received = Len(sent) /\ UNCHANGED <<fetched, received>>
        /\ handler' \in {"none", "checking"} /\ conn' \in {conn, "closed", "reset"}
        /\ replies' = Append(replies, Respond(frame, handshaken))
    BY <1>2, <1>10 DEF Reply, Heard, Close
  <2>2. fetched = received
    BY <1>1, <2>1
  <2>3. Len(replies') = Len(replies) + 1
    <3>1. frame \in Frame
      BY <2>1 DEF IInv, TypeOK, SessionInv
    <3>2. Respond(frame, handshaken) \in Answer
      BY <1>1, <3>1, RespondType
    <3> QED
      BY <1>1, <2>1, <3>2
  <2>4. Rank(sent, Len(sent)) <= Len(replies')
    BY <1>1, <1>6, <2>1, <2>3
  <2> QED
    BY <1>1, <2>1, <2>2, <2>4 DEF Heard
<1>11. ~ReadEnd
  BY <1>2 DEF ReadEnd
<1> QED
  BY <1>7, <1>8, <1>9, <1>10, <1>11 DEF Handler

LEMMA HandlerPrints ==
  ASSUME IInv, ThreadInv, PrintInv, Handler
  PROVE  PrintInv'
<1>1. UNCHANGED <<starting, client, killed, sent>>
  BY DEF Handler, Check, ReadByte, Pending, ReadEnd, Reply, wire, process
<1>2. Refused => Refused'
  <2>1. CASE UNCHANGED replies
    BY <2>1 DEF Refused
  <2>2. CASE Reply /\ ~UNCHANGED replies
    <3>1. /\ handler = "answering" /\ replies' = Append(replies, Respond(frame, handshaken))
      BY <2>2 DEF Reply
    <3>2. frame \in Frame /\ handshaken \in BOOLEAN /\ replies \in Seq(Answer)
      BY <3>1 DEF IInv, TypeOK, SessionInv
    <3>3. Respond(frame, handshaken) \in Answer
      BY <3>2, RespondType
    <3> QED
      BY <3>1, <3>2, <3>3, RefusedStays
  <2>3. UNCHANGED replies \/ Reply
    BY DEF Handler, Check, ReadByte, Pending, ReadEnd, wire
  <2> QED
    BY <2>1, <2>2, <2>3
<1>3. Speaking => Heard'
  BY HandlerHears DEF PrintInv
<1> QED
  BY <1>1, <1>2, <1>3, ServerPrints

LEMMA DaemonPrints ==
  ASSUME IInv, ThreadInv, PrintInv, Daemon \/ Signal \/ Die \/ Rise
  PROVE  PrintInv'
<1>1. UNCHANGED <<starting, client, sent>> /\ (killed => killed') /\ UNCHANGED <<fetched, received>>
  <2>1. CASE Accept \/ Refuse
    BY <2>1 DEF Accept, Refuse, wire, thread
  <2>2. CASE DropListener \/ CleanUp \/ Leave
    BY <2>2 DEF DropListener, CleanUp, Leave, wire, thread
  <2>3. CASE Signal \/ Rise
    BY <2>3 DEF Signal, Rise, wire, thread
  <2>4. CASE Die
    BY <2>4 DEF Die, wire, thread
  <2> QED
    BY <2>1, <2>2, <2>3, <2>4 DEF Daemon
<1>2. /\ sent \in Seq(Bytes) /\ replies \in Seq(Answer) /\ Len(replies) \in Nat
      /\ UNCHANGED pc
  BY <1>1 DEF IInv, TypeOK, client
<1>3. CASE Accept
  <2>1. conn = "backlog" /\ conn' = "open" /\ handler' = "checking" /\ UNCHANGED replies
    BY <1>3 DEF Accept, wire
  <2>2. fetched = received
    BY <2>1 DEF ThreadInv, Unaccepted
  <2>3. Heard' /\ (Refused => Refused')
    BY <1>1, <2>1, <2>2 DEF Heard, Refused
  <2> QED
    BY <1>1, <2>3, ServerPrints
<1>4. CASE Refuse
  <2>1. /\ conn = "backlog" /\ conn' = (IF sent = <<>> THEN "closed" ELSE "reset")
        /\ UNCHANGED handler
        /\ \/ UNCHANGED replies
           \/ replies' = Append(replies, Error(Fresh, "authorization.peer_uid"))
    BY <1>4 DEF Refuse, thread
  <2>2. replies = <<>> /\ handler = "none"
    BY <2>1 DEF ThreadInv, Unaccepted
  <2>3. ~Refused
    BY <2>2 DEF Refused
  <2>4. conn' = "closed" => Rank(sent, Len(sent)) = 0
    <3>1. SUFFICES ASSUME sent = <<>> PROVE Rank(sent, Len(sent)) = 0
      BY <2>1
    <3>2. Rank(sent, 0) = 0 /\ Len(sent) = 0
      BY <1>2, <3>1, RankEnds
    <3> QED
      BY <3>2
  <2>5. 0 <= Len(replies')
    <3>1. CASE UNCHANGED replies
      BY <1>2, <3>1
    <3>2. CASE replies' = Append(replies, Error(Fresh, "authorization.peer_uid"))
      BY <2>2, <3>2
    <3> QED
      BY <2>1, <3>1, <3>2
  <2>6. Heard'
    BY <1>1, <2>1, <2>2, <2>4, <2>5 DEF Heard
  <2> QED
    BY <1>1, <2>3, <2>6, ServerPrints
<1>5. CASE DropListener \/ CleanUp \/ Leave \/ Signal \/ Rise
  <2>1. UNCHANGED <<replies, handler>> /\ conn' \in {conn, "reset"}
    BY <1>5 DEF DropListener, CleanUp, Leave, Signal, Rise, wire, thread
  <2>2. Speaking => Heard
    BY DEF PrintInv, JsonlInv
  <2>3. Speaking => Heard'
    BY <1>1, <1>2, <2>1, <2>2 DEF Heard
  <2>4. Refused => Refused'
    BY <2>1 DEF Refused
  <2> QED
    BY <1>1, <2>3, <2>4, ServerPrints
<1>6. CASE Die
  <2>1. /\ UNCHANGED replies /\ handler' = "none"
        /\ ~killed' => conn \notin {"backlog", "open"} /\ UNCHANGED conn
    BY <1>6 DEF Die, wire
  <2>2. Speaking => Heard
    BY DEF PrintInv, JsonlInv
  <2>3. Speaking /\ ~killed' => Heard'
    BY <1>1, <1>2, <2>1, <2>2 DEF Heard
  <2>4. Refused => Refused'
    BY <2>1 DEF Refused
  <2> QED
    BY <1>1, <2>3, <2>4, ServerPrints
<1> QED
  BY <1>3, <1>4, <1>5, <1>6 DEF Daemon

LEMMA PrintKeeps == IInv /\ ThreadInv /\ PrintInv /\ [Next]_vars => PrintInv'
<1> SUFFICES ASSUME IInv, ThreadInv, PrintInv, [Next]_vars PROVE PrintInv'
  OBVIOUS
<1>1. CASE UNCHANGED vars
  <2>1. UNCHANGED <<starting, client, killed, sent, replies>>
        /\ UNCHANGED <<handler, fetched, received, conn, pc>>
    BY <1>1 DEF vars, client, wire, thread, process
  <2>2. (Refused => Refused') /\ (Speaking => Heard)
    BY <2>1 DEF Refused, PrintInv, JsonlInv
  <2>3. Heard' <=> Heard
    BY <2>1 DEF Heard
  <2> QED
    BY <2>1, <2>2, <2>3, ServerPrints
<1>2. CASE Next
  <2>1. IInv'
    BY <1>2, StepKeeps
  <2>2. CASE Start \/ Client \/ Talk \/ HangUp \/ Quit
    BY <2>1, <2>2, LaunchPrints, WritePrints, ReceivePrints, ReceiveEndPrints, ReadInputPrints,
       OthersPrint DEF Client
  <2> QED
    BY <1>2, <2>2, HandlerPrints, DaemonPrints DEF Next
<1> QED
  BY <1>1, <1>2

LEMMA PrintHolds == Spec => []PrintInv
<1> QED
  BY PrintInit, PrintKeeps, ThreadInit, ThreadKeeps, Invariance, PTL DEF Spec

(* What run --jsonl prints is the answer to each line of its input, in     *)
(* order, its own line limit first and the daemon's after it, as long as no*)
(* daemon died (jsonl, request).                                           *)
THEOREM PrintsInOrder == Spec => []PrintedInOrder
<1>1. PrintInv => PrintedInOrder
  BY DEF PrintInv
<1> QED
  BY <1>1, PrintHolds, PTL

(* run --jsonl ends with 0 only if every line of its input has its answer, *)
(* unless the daemon died without ending the connection.                   *)
THEOREM CleanExitHolds == Spec => []CleanExitAnswered
<1>1. PrintInv => CleanExitAnswered
  BY DEF PrintInv
<1> QED
  BY <1>1, PrintHolds, PTL
=============================================================================
