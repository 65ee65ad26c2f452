------------------------- MODULE EventReplayProofs -------------------------
(***************************************************************************)
(* Theorems about EventReplay, for histories and tables of any size: its   *)
(* types, and that what is returned as authoritative is current, what is   *)
(* answered is published and what was played back exactly stays evidence.  *)
(***************************************************************************)
EXTENDS EventReplay, TLAPS

IInv == TypeOK /\ MarkInv /\ ReturnedIsCurrent /\ AnsweredIsPublished /\ EvidenceStands

Marking == [id : Projections, call : {"projection", "status"},
            status : Statuses, statement : {"update", "insert"}]
Reply == [call : {"rebuild", "projection", "status", "evidence"},
          id : Projections \cup Records, status : Statuses, authoritative : BOOLEAN]
Playbacks == [generation : Maybe(Seq(Event)), exact : BOOLEAN]
Published == [status : Statuses, authoritative : BOOLEAN]

-----------------------------------------------------------------------------
(* Tables.                                                                 *)

LEMMA PutType ==
  ASSUME NEW K, NEW Row, NEW table, IsTable(table, K, Row), NEW key \in K, NEW row \in Row
  PROVE  IsTable(Put(table, key, row), K, Row)
<1>1. \A k \in DOMAIN table : table[k] \in Row
  BY DEF IsTable
<1> QED
  BY <1>1 DEF IsTable, Put

-----------------------------------------------------------------------------
(* Histories.                                                              *)

LEMMA NextIndex ==
  ASSUME NEW n \in Nat, NEW k \in 0 .. n, k # n
  PROVE  k + 1 \in 1 .. n /\ ~(k + 1 <= k)
OBVIOUS

(* An event in order is appended, and takes no row's place.                *)
LEMMA InsertedLast ==
  ASSUME events \in Seq(Event), NEW e \in Event, InOrder(e)
  PROVE  /\ Inserted(e) \in Seq(Event)
         /\ Len(Inserted(e)) = Len(events) + 1
         /\ \A i \in DOMAIN events : Inserted(e)[i] = events[i]
<1> DEFINE Low(k) == \A i \in DOMAIN events : i <= k <=> events[i].sequence <= e.sequence
<1>1. Len(events) \in Nat /\ DOMAIN events = 1 .. Len(events)
  OBVIOUS
<1>2. e.sequence \in Nat /\ \A i \in DOMAIN events : events[i].sequence \in Nat
  <2>1. \A x \in Event : x.sequence \in Nat
    BY NumbersAreNumbers DEF Event
  <2>2. \A i \in DOMAIN events : events[i] \in Event
    BY <1>1
  <2> QED
    BY <2>1, <2>2
<1>3. \A i \in DOMAIN events : events[i].sequence <= e.sequence
  BY <1>2 DEF InOrder
<1>4. Low(Len(events))
  BY <1>1, <1>3
<1>5. \A k \in 0 .. Len(events) : Low(k) => k = Len(events)
  <2> SUFFICES ASSUME NEW k \in 0 .. Len(events), Low(k), k # Len(events) PROVE FALSE
    OBVIOUS
  <2>1. k + 1 \in 1 .. Len(events) /\ ~(k + 1 <= k)
    BY <1>1, NextIndex
  <2> QED
    BY <1>1, <1>3, <2>1
<1>6. (CHOOSE k \in 0 .. Len(events) : Low(k)) = Len(events)
  <2> HIDE DEF Low
  <2>1. Len(events) \in 0 .. Len(events)
    BY <1>1
  <2>2. \E k \in 0 .. Len(events) : Low(k)
    BY <1>4, <2>1
  <2> DEFINE k == CHOOSE k \in 0 .. Len(events) : Low(k)
  <2>3. k \in 0 .. Len(events) /\ Low(k)
    BY <2>2
  <2> QED
    BY <1>5, <2>3
<1>7. Inserted(e) = SubSeq(events, 1, Len(events)) \o <<e>>
                      \o SubSeq(events, Len(events) + 1, Len(events))
  BY <1>6 DEF Inserted
<1>8. SubSeq(events, 1, Len(events)) = events
      /\ SubSeq(events, Len(events) + 1, Len(events)) = <<>>
  BY <1>1
<1>9. Inserted(e) = events \o <<e>> \o <<>>
  BY <1>7, <1>8
<1> QED
  BY <1>1, <1>9

LEMMA DerivedType ==
  ASSUME NEW rows \in Seq(Event), Derived(rows) # None
  PROVE  Derived(rows) \in Seq(Texts)
<1> DEFINE value(i) == Derive(rows[i].transition, rows[i].input)
<1>1. \A i \in DOMAIN rows : value(i) # None
  <2> HIDE DEF value
  <2>1. Derived(rows) = IF \E i \in DOMAIN rows : value(i) = None THEN None
                        ELSE [i \in DOMAIN rows |-> value(i)]
    BY DEF Derived, value
  <2> QED
    BY <2>1
<1>2. \A i \in DOMAIN rows : rows[i].input \in Texts
  <2>1. \A x \in Event : x.input \in Texts
    BY DEF Event
  <2>2. \A i \in DOMAIN rows : rows[i] \in Event
    OBVIOUS
  <2> QED
    BY <2>1, <2>2
<1>3. \A i \in DOMAIN rows : value(i) \in Texts
  BY <1>1, <1>2, UpperType DEF Derive
<1>4. Derived(rows) = [j \in 1 .. Len(rows) |-> value(j)]
  BY DEF Derived
<1> QED
  BY <1>3, <1>4

(* The prefixes a generation names stay prefixes when the history grows.   *)
LEMMA PrefixesStay ==
  ASSUME events \in Seq(Event), NEW new \in Seq(Event), Len(new) = Len(events) + 1,
         \A i \in DOMAIN events : new[i] = events[i]
  PROVE  Generations(events) \subseteq Generations(new)
<1> SUFFICES ASSUME NEW n \in 0 .. Len(events)
             PROVE  SubSeq(events, 1, n) \in Generations(new)
  BY DEF Generations
<1>1. Len(events) \in Nat
  OBVIOUS
<1>2. n \in 0 .. Len(new) /\ n \in Nat /\ n <= Len(events)
  BY <1>1
<1>3. SubSeq(new, 1, n) = SubSeq(events, 1, n)
  BY <1>1, <1>2
<1> QED
  BY <1>2, <1>3 DEF Generations

LEMMA GenerationType ==
  ASSUME events \in Seq(Event)
  PROVE  Generations(events) \subseteq Seq(Event)
BY DEF Generations

-----------------------------------------------------------------------------
(* The first state.                                                        *)

LEMMA InitHolds == Init => IInv
<1> SUFFICES ASSUME Init PROVE IInv
  OBVIOUS
<1>1. DOMAIN EmptyTable = {}
  BY DEF EmptyTable
<1>2. \A K, Row : IsTable(EmptyTable, K, Row)
  BY DEF IsTable, EmptyTable
<1>3. TypeOK
  BY <1>1, <1>2 DEF Init, TypeOK, Maybe
<1>4. MarkInv /\ ReturnedIsCurrent /\ AnsweredIsPublished /\ EvidenceStands
  BY <1>1 DEF Init, MarkInv, Idle, ReturnedIsCurrent, AnsweredIsPublished, AboutProjection,
              EvidenceStands
<1> QED
  BY <1>3, <1>4 DEF IInv

-----------------------------------------------------------------------------
(* Calls that change no projection.                                        *)

LEMMA AppendKeeps ==
  ASSUME IInv, NEW e \in Event, AppendEvent(e)
  PROVE  IInv'
<1>1. events \in Seq(Event) /\ InOrder(e) /\ events' = Inserted(e)
  BY DEF AppendEvent, IInv, TypeOK
<1>2. events' \in Seq(Event) /\ Generations(events) \subseteq Generations(events')
  BY <1>1, InsertedLast, PrefixesStay
<1>3. TypeOK'
  BY <1>2 DEF AppendEvent, IInv, TypeOK, Maybe
<1>4. MarkInv' /\ ReturnedIsCurrent' /\ AnsweredIsPublished'
  BY DEF AppendEvent, IInv, MarkInv, Idle, ReturnedIsCurrent, AnsweredIsPublished,
         AboutProjection
<1>5. EvidenceStands'
  BY <1>2 DEF AppendEvent, IInv, EvidenceStands
<1> QED
  BY <1>3, <1>4, <1>5 DEF IInv

LEMMA PlaybackKeeps ==
  ASSUME IInv, NEW r \in Records, NEW generation \in Maybe(Generations(events)), NEW proposed,
         Playback(r, generation, proposed)
  PROVE  IInv'
<1> DEFINE row == [generation |-> generation, exact |-> Exact(generation, proposed)]
<1>1. row \in Playbacks
  BY GenerationType DEF IInv, TypeOK, Maybe, Exact, Playbacks
<1>2. playbacks' = Put(playbacks, r, row) /\ r \notin DOMAIN playbacks
  BY DEF Playback
<1>3. IsTable(playbacks', Records, Playbacks)
  BY <1>1, <1>2, PutType DEF IInv, TypeOK, Playbacks
<1>4. TypeOK'
  BY <1>3 DEF Playback, IInv, TypeOK, Playbacks, Maybe
<1>5. MarkInv' /\ ReturnedIsCurrent' /\ AnsweredIsPublished'
  BY DEF Playback, IInv, MarkInv, Idle, ReturnedIsCurrent, AnsweredIsPublished, AboutProjection
<1>6. ASSUME Exact(generation, proposed)
      PROVE  /\ generation \in Generations(events)
             /\ \A i \in DOMAIN generation :
                  Derive(generation[i].transition, generation[i].input) = generation[i].outcome
  BY <1>6 DEF Exact, Maybe
<1>9. /\ DOMAIN playbacks' = DOMAIN playbacks \cup {r} /\ playbacks'[r] = row
      /\ \A k \in DOMAIN playbacks \ {r} : playbacks'[k] = playbacks[k]
  <2> HIDE DEF row
  <2>1. playbacks' = Put(playbacks, r, row)
    BY <1>2
  <2> QED
    BY ONLY <2>1 DEF Put
<1>7. ASSUME NEW s \in DOMAIN playbacks', playbacks'[s].exact
      PROVE  /\ playbacks'[s].generation \in Generations(events)
             /\ \A i \in DOMAIN playbacks'[s].generation :
                  Derive(playbacks'[s].generation[i].transition,
                         playbacks'[s].generation[i].input)
                    = playbacks'[s].generation[i].outcome
  <2>1. CASE s = r
    BY <1>6, <1>7, <1>9, <2>1
  <2>2. CASE s # r
    <3>1. s \in DOMAIN playbacks /\ playbacks'[s] = playbacks[s]
      BY <1>9, <2>2
    <3> QED
      BY <1>7, <3>1 DEF IInv, EvidenceStands
  <2> QED
    BY <2>1, <2>2
<1>8. EvidenceStands'
  BY <1>7 DEF Playback, EvidenceStands
<1> QED
  BY <1>4, <1>5, <1>8 DEF IInv

LEMMA QuietKeeps ==
  ASSUME IInv, NEW r \in Records, Simulate(r) \/ CheckEvidence(r)
  PROVE  IInv'
<1>1. CASE Simulate(r)
  BY <1>1 DEF Simulate, IInv, TypeOK, MarkInv, Idle, ReturnedIsCurrent, AnsweredIsPublished,
              AboutProjection, EvidenceStands, Maybe
<1>2. CASE CheckEvidence(r)
  <2>1. reply' \in Reply /\ reply'.call = "evidence"
    BY <1>2 DEF CheckEvidence, Answer, HasEvidence, IInv, TypeOK, IsTable, Reply, Statuses
  <2> QED
    BY <1>2, <2>1 DEF CheckEvidence, tables, Reply, IInv, TypeOK, MarkInv, Idle, ReturnedIsCurrent,
                      AnsweredIsPublished, AboutProjection, EvidenceStands, Maybe
<1> QED
  BY <1>1, <1>2

LEMMA CrashKeeps ==
  ASSUME IInv, Crash
  PROVE  IInv'
BY DEF Crash, tables, IInv, TypeOK, MarkInv, Idle, ReturnedIsCurrent, AnsweredIsPublished,
       AboutProjection, EvidenceStands, Maybe

-----------------------------------------------------------------------------
(* Projections.                                                            *)

LEMMA CompleteType ==
  ASSUME events \in Seq(Event)
  PROVE  /\ [CompleteRow EXCEPT !.payload = <<>>, !.authoritative = FALSE, !.status = "failed"]
              \in ProjectionRow
         /\ Derived(events) # None => CompleteRow \in ProjectionRow
<1>1. <<>> \in Seq(Texts) /\ SCHEMA \in Schemas /\ {"failed", "complete"} \subseteq Statuses
  BY DEF SCHEMA, Schemas, Statuses
<1>2. [CompleteRow EXCEPT !.payload = <<>>, !.authoritative = FALSE, !.status = "failed"]
        \in ProjectionRow
  <2> DEFINE Wide == [schema : Schemas, generation : Seq(Event), source : Seq(Event),
                      authoritative : BOOLEAN, status : Statuses,
                      payload : Seq(Texts) \cup {Derived(events)}]
  <2>1. CompleteRow \in Wide
    BY <1>1 DEF CompleteRow
  <2>2. \A r \in Wide : [r EXCEPT !.payload = <<>>, !.authoritative = FALSE, !.status = "failed"]
                         \in ProjectionRow
    BY <1>1 DEF ProjectionRow
  <2> HIDE DEF Wide
  <2> QED
    BY <2>1, <2>2
<1>3. Derived(events) # None => CompleteRow \in ProjectionRow
  BY <1>1, DerivedType DEF CompleteRow, ProjectionRow
<1> QED
  BY <1>2, <1>3

(* A revoked row keeps its derivation and loses its authority.             *)
LEMMA RevokedType ==
  ASSUME NEW row \in ProjectionRow, NEW status \in Statuses
  PROVE  /\ Revoked(row, status) \in ProjectionRow
         /\ Revoked(row, status).status = status
         /\ Revoked(row, status).authoritative = FALSE
         /\ Revoked(row, status).payload = row.payload
         /\ Revoked(row, status).generation = row.generation
BY DEF Revoked, ProjectionRow

LEMMA FailedRowType ==
  ASSUME TypeOK, NEW p \in Projections
  PROVE  /\ FailedRow(p) \in ProjectionRow
         /\ FailedRow(p).status = "failed" /\ ~FailedRow(p).authoritative
<1>1. CASE p \in DOMAIN projections
  <2>1. projections[p] \in ProjectionRow
    BY <1>1 DEF TypeOK, IsTable
  <2> QED
    BY <1>1, <2>1, RevokedType DEF FailedRow, Statuses
<1>2. CASE p \notin DOMAIN projections
  BY <1>2, CompleteType DEF FailedRow, TypeOK, CompleteRow
<1> QED
  BY <1>1, <1>2

LEMMA RebuildKeeps ==
  ASSUME IInv, NEW p \in Projections, NEW schema \in Schemas, RebuildProjection(p, schema)
  PROVE  IInv'
<1> DEFINE complete == schema = SCHEMA /\ Derived(events) # None
           row == IF complete THEN CompleteRow ELSE FailedRow(p)
           outcome == [status |-> IF complete THEN "complete" ELSE "failed",
                       authoritative |-> complete]
<1>1. /\ projections' = Put(projections, p, row)
      /\ rebuildStatus' = Put(rebuildStatus, p, outcome)
      /\ reply' = [call |-> "rebuild", id |-> p,
                   status |-> IF complete THEN "complete" ELSE "failed",
                   authoritative |-> complete]
      /\ forged' = forged \ {p} /\ marking = None
      /\ UNCHANGED <<events, playbacks, simulations, marking>>
  BY DEF RebuildProjection, RebuildOutcome, Answer, Idle
<1>2. /\ row \in ProjectionRow
      /\ complete => row = CompleteRow
      /\ ~complete => row.status = "failed" /\ row.authoritative = FALSE
  BY CompleteType, FailedRowType DEF IInv, TypeOK, ProjectionRow
<1>3. outcome \in Published /\ complete \in BOOLEAN
  BY DEF Published, Statuses
<1>4. IsTable(projections', Projections, ProjectionRow)
  BY <1>1, <1>2, PutType DEF IInv, TypeOK
<1>5. IsTable(rebuildStatus', Projections, Published)
  BY <1>1, <1>3, PutType DEF IInv, TypeOK, Published
<1> HIDE DEF complete, row, outcome
<1>6. /\ DOMAIN projections' = DOMAIN projections \cup {p} /\ projections'[p] = row
      /\ \A q \in DOMAIN projections \ {p} : projections'[q] = projections[q]
  <2>1. projections' = Put(projections, p, row)
    BY <1>1
  <2> QED
    BY ONLY <2>1 DEF Put
<1>19. /\ DOMAIN rebuildStatus' = DOMAIN rebuildStatus \cup {p} /\ rebuildStatus'[p] = outcome
       /\ \A q \in DOMAIN rebuildStatus \ {p} : rebuildStatus'[q] = rebuildStatus[q]
  <2>1. rebuildStatus' = Put(rebuildStatus, p, outcome)
    BY <1>1
  <2> QED
    BY ONLY <2>1 DEF Put
<1>7. complete => row.status = "complete" /\ row.authoritative = TRUE
                  /\ row.payload = Derived(events) /\ row.generation = events
  BY <1>2 DEF CompleteRow
<1>8. rebuilds' \subseteq [projection : Projections, event : Maybe(EventIds), complete : BOOLEAN]
  <2>1. events # <<>> => events[Len(events)] \in Event
    BY DEF IInv, TypeOK
  <2>2. events # <<>> => events[Len(events)].id \in EventIds
    BY <2>1 DEF Event
  <2> DEFINE last == IF events = <<>> THEN None ELSE events[Len(events)].id
  <2>3. last \in Maybe(EventIds)
    BY <2>2 DEF Maybe
  <2>4. rebuilds' = rebuilds \cup {[projection |-> p, event |-> last, complete |-> complete]}
    BY DEF RebuildProjection, complete
  <2> HIDE DEF last
  <2> QED
    BY <1>3, <2>3, <2>4 DEF IInv, TypeOK
<1>9. \A q \in DOMAIN projections' : projections'[q].authoritative => projections'[q].status = "complete"
  BY <1>2, <1>6, <1>7 DEF IInv, TypeOK
<1>10. \A q \in DOMAIN rebuildStatus' :
         rebuildStatus'[q].authoritative => rebuildStatus'[q].status = "complete"
  BY <1>19 DEF IInv, TypeOK, outcome
<1>11. reply' \in Reply
  BY <1>1, <1>3 DEF Reply, Statuses
<1>12. TypeOK'
  BY <1>1, <1>4, <1>5, <1>8, <1>9, <1>10, <1>11 DEF IInv, TypeOK, Maybe, Published, Reply
<1>13. complete => outcome = [status |-> "complete", authoritative |-> TRUE]
  BY DEF outcome
<1>14. MarkInv'
  <2>1. marking' = None
    BY <1>1
  <2>2. ASSUME NEW q \in DOMAIN projections' \ forged', projections'[q].authoritative
        PROVE  /\ q \in DOMAIN rebuildStatus'
               /\ rebuildStatus'[q] = [status |-> "complete", authoritative |-> TRUE]
    <3>1. CASE q = p
      <4>1. complete
        BY <1>2, <1>6, <2>2, <3>1
      <4> QED
        BY <1>13, <1>19, <3>1, <4>1
    <3>2. CASE q # p
      <4>1. q \in DOMAIN projections \ forged /\ projections'[q] = projections[q]
        BY <1>1, <1>6, <2>2, <3>2
      <4>2. /\ q \in DOMAIN rebuildStatus
            /\ rebuildStatus[q] = [status |-> "complete", authoritative |-> TRUE]
        BY <2>2, <4>1 DEF IInv, MarkInv
      <4> QED
        BY <1>19, <3>2, <4>2
    <3> QED
      BY <3>1, <3>2
  <2> QED
    BY <2>1, <2>2 DEF MarkInv, Idle
<1>15. complete => Derived(events) # None
  BY DEF complete
<1>20. Derived(events)' = Derived(events)
  BY <1>1 DEF Derived, Derive
<1>16. ReturnedIsCurrent'
  <2> SUFFICES ASSUME reply'.authoritative
               PROVE  /\ reply'.status = "complete"
                      /\ Derived(events)' # None
                      /\ projections'[reply'.id].payload = Derived(events)'
                      /\ projections'[reply'.id].generation = events'
    BY DEF ReturnedIsCurrent
  <2>1. complete /\ reply'.id = p /\ reply'.status = "complete"
    BY <1>1
  <2>2. projections'[p].payload = Derived(events) /\ projections'[p].generation = events
    BY <1>6, <1>7, <2>1
  <2> QED
    BY <1>1, <1>15, <1>20, <2>1, <2>2
<1>17. AnsweredIsPublished'
  <2>1. outcome.status = row.status /\ outcome.authoritative = row.authoritative
    <3>1. CASE complete
      BY <1>7, <3>1 DEF outcome
    <3>2. CASE ~complete
      BY <1>2, <1>3, <3>2 DEF outcome
    <3> QED
      BY <3>1, <3>2
  <2>2. reply'.id = p
    BY <1>1
  <2>3. /\ p \in DOMAIN rebuildStatus'
        /\ rebuildStatus'[p].status = projections'[p].status
        /\ rebuildStatus'[p].authoritative = projections'[p].authoritative
    BY <1>6, <1>19, <2>1
  <2> QED
    BY <2>2, <2>3 DEF AnsweredIsPublished
<1>18. EvidenceStands'
  BY <1>1 DEF IInv, EvidenceStands
<1> QED
  BY <1>12, <1>14, <1>16, <1>17, <1>18 DEF IInv

(* A trusted projection is current, and its authority is published.        *)
LEMMA ReturnKeeps ==
  ASSUME IInv, NEW p \in Projections, NEW call \in {"projection", "status"},
         ReturnTrusted(p, call)
  PROVE  IInv'
<1>1. /\ p \in DOMAIN projections /\ projections[p].authoritative
      /\ Assessment(projections[p]) = "complete"
      /\ reply' = [call |-> call, id |-> p, status |-> "complete", authoritative |-> TRUE]
      /\ marking = None
      /\ UNCHANGED <<events, projections, rebuilds, rebuildStatus, playbacks, simulations>>
      /\ UNCHANGED <<marking, forged>>
  BY DEF ReturnTrusted, Trusted, Answer, Idle, tables
<1>2. /\ Derived(events) # None /\ projections[p].payload = Derived(events)
      /\ projections[p].generation = events
  BY <1>1 DEF Assessment, UpToDate, Intact
<1>3. reply' \in Reply
  BY <1>1 DEF Reply, Statuses
<1>4. TypeOK'
  BY <1>1, <1>3 DEF IInv, TypeOK, Maybe, Reply
<1>5. MarkInv'
  BY <1>1 DEF IInv, MarkInv, Idle
<1>6. Derived(events)' = Derived(events)
  BY <1>1 DEF Derived, Derive
<1>7. ReturnedIsCurrent'
  BY <1>1, <1>2, <1>6 DEF ReturnedIsCurrent
<1>8. projections[p].status = "complete" /\ projections[p].authoritative = TRUE
  <2>1. projections[p] \in ProjectionRow
    BY <1>1 DEF IInv, TypeOK, IsTable
  <2> QED
    BY <1>1, <2>1 DEF IInv, TypeOK, ProjectionRow
<1>9. p \notin forged => /\ p \in DOMAIN rebuildStatus
                        /\ rebuildStatus[p].status = "complete"
                        /\ rebuildStatus[p].authoritative = TRUE
  BY <1>1 DEF IInv, MarkInv
<1>10. AnsweredIsPublished'
  BY <1>1, <1>8, <1>9 DEF AnsweredIsPublished
<1>11. EvidenceStands'
  BY <1>1 DEF IInv, EvidenceStands
<1> QED
  BY <1>4, <1>5, <1>7, <1>10, <1>11 DEF IInv

LEMMA BeginMarkKeeps ==
  ASSUME IInv, NEW p \in Projections, NEW call \in {"projection", "status"},
         NEW status \in Statuses, BeginMark(p, call, status)
  PROVE  IInv'
<1>1. /\ marking' = [id |-> p, call |-> call, status |-> status, statement |-> "update"]
      /\ reply' = None
      /\ UNCHANGED <<events, projections, rebuilds, rebuildStatus, playbacks, simulations, forged>>
  BY DEF BeginMark, tables
<1>2. marking' \in Marking
  BY <1>1 DEF Marking
<1>3. TypeOK'
  BY <1>1, <1>2 DEF IInv, TypeOK, Maybe, Marking
<1>4. MarkInv'
  BY <1>1 DEF IInv, MarkInv
<1>5. ReturnedIsCurrent' /\ AnsweredIsPublished'
  BY <1>1 DEF ReturnedIsCurrent, AnsweredIsPublished, AboutProjection
<1>6. EvidenceStands'
  BY <1>1 DEF IInv, EvidenceStands
<1> QED
  BY <1>3, <1>4, <1>5, <1>6 DEF IInv

LEMMA ReadKeeps ==
  ASSUME IInv, NEW p \in Projections, NEW call \in {"projection", "status"},
         ReadUntrusted(p, call) \/ ReadMissing(p)
  PROVE  IInv'
<1>1. CASE ReadUntrusted(p, call)
  <2>1. Assessment(projections[p]) \in Statuses
    BY DEF Assessment, Statuses
  <2> QED
    BY <1>1, <2>1, BeginMarkKeeps DEF ReadUntrusted
<1>2. CASE ReadMissing(p)
  <2>1. "missing" \in Statuses
    BY DEF Statuses
  <2> QED
    BY <1>2, <2>1, BeginMarkKeeps DEF ReadMissing
<1> QED
  BY <1>1, <1>2

(* The first statement of a mark takes the row's authority from it.        *)
LEMMA MarkProjectionKeeps ==
  ASSUME IInv, MarkProjection
  PROVE  IInv'
<1>1. /\ marking # None /\ reply = None /\ marking' = [marking EXCEPT !.statement = "insert"]
      /\ UNCHANGED <<events, rebuilds, rebuildStatus, playbacks, simulations, reply, forged>>
  BY DEF MarkProjection, Idle, IInv, MarkInv
<1>2. marking \in Marking
  BY <1>1 DEF IInv, TypeOK, Maybe, Marking
<1>3. marking' \in Marking /\ marking'.id = marking.id /\ marking'.status = marking.status
  BY <1>1, <1>2 DEF Marking
<1>4. /\ DOMAIN projections' = DOMAIN projections
      /\ \A q \in DOMAIN projections :
           projections'[q] = IF q = marking.id THEN Revoked(projections[q], marking.status)
                             ELSE projections[q]
  BY DEF MarkProjection
<1>5. \A q \in DOMAIN projections : projections[q] \in ProjectionRow
  BY DEF IInv, TypeOK, IsTable
<1>6. marking.status \in Statuses
  BY <1>2 DEF Marking
<1>7. \A q \in DOMAIN projections' :
         /\ projections'[q] \in ProjectionRow
         /\ projections'[q].authoritative => projections'[q] = projections[q]
         /\ q = marking.id => /\ projections'[q].status = marking.status
                             /\ ~projections'[q].authoritative
  <2> SUFFICES ASSUME NEW q \in DOMAIN projections
               PROVE  /\ projections'[q] \in ProjectionRow
                      /\ projections'[q].authoritative => projections'[q] = projections[q]
                      /\ q = marking.id => /\ projections'[q].status = marking.status
                                          /\ ~projections'[q].authoritative
    BY <1>4
  <2>1. CASE q = marking.id
    <3>1. projections'[q] = Revoked(projections[q], marking.status)
      BY <1>4, <2>1
    <3>2. projections[q] \in ProjectionRow
      BY <1>5
    <3>3. /\ Revoked(projections[q], marking.status) \in ProjectionRow
          /\ Revoked(projections[q], marking.status).status = marking.status
          /\ Revoked(projections[q], marking.status).authoritative = FALSE
      BY ONLY <3>2, <1>6, RevokedType
    <3> QED
      BY <3>1, <3>3
  <2>2. CASE q # marking.id
    BY <1>4, <1>5, <2>2
  <2> QED
    BY <2>1, <2>2
<1>8. IsTable(projections', Projections, ProjectionRow)
  <2>1. projections' = [q \in DOMAIN projections |-> projections'[q]]
    BY DEF MarkProjection
  <2> QED
    BY <1>4, <1>7, <2>1 DEF IInv, TypeOK, IsTable
<1>9. TypeOK'
  BY <1>1, <1>3, <1>4, <1>7, <1>8 DEF IInv, TypeOK, Maybe, Marking
<1>10. MarkInv'
  BY <1>1, <1>3, <1>4, <1>7 DEF IInv, MarkInv
<1>11. ReturnedIsCurrent' /\ AnsweredIsPublished'
  BY <1>1 DEF ReturnedIsCurrent, AnsweredIsPublished, AboutProjection
<1>12. EvidenceStands'
  BY <1>1 DEF IInv, EvidenceStands
<1> QED
  BY <1>9, <1>10, <1>11, <1>12 DEF IInv

(* The second publishes what the first has done.                           *)
LEMMA MarkStatusKeeps ==
  ASSUME IInv, MarkStatus
  PROVE  IInv'
<1> DEFINE p == marking.id
           row == [status |-> marking.status, authoritative |-> FALSE]
<1>1. /\ marking # None /\ reply = None /\ marking.statement = "insert"
      /\ rebuildStatus' = Put(rebuildStatus, p, row)
      /\ UNCHANGED <<events, projections, rebuilds, playbacks, simulations, forged>>
  BY DEF MarkStatus, Idle, IInv, MarkInv
<1>2. marking \in Marking
  BY <1>1 DEF IInv, TypeOK, Maybe, Marking
<1>3. p \in Projections /\ row \in Published
  BY <1>2 DEF Marking, Published
<1>4. IsTable(rebuildStatus', Projections, Published)
  BY <1>1, <1>3, PutType DEF IInv, TypeOK, Published
<1>5. /\ DOMAIN rebuildStatus' = DOMAIN rebuildStatus \cup {p} /\ rebuildStatus'[p] = row
      /\ \A q \in DOMAIN rebuildStatus \ {p} : rebuildStatus'[q] = rebuildStatus[q]
  <2> HIDE DEF p, row
  <2>1. rebuildStatus' = Put(rebuildStatus, p, row)
    BY <1>1
  <2> QED
    BY ONLY <2>1 DEF Put
<1>6. p \in DOMAIN projections \ forged =>
        projections[p].status = marking.status /\ ~projections[p].authoritative
  BY <1>1 DEF IInv, MarkInv, Idle
<1>7. \/ /\ marking' = [marking EXCEPT !.status = "drifted", !.statement = "update"]
         /\ reply' = None
      \/ /\ marking' = None
         /\ reply' = [call |-> marking.call, id |-> p, status |-> marking.status,
                      authoritative |-> FALSE]
  BY <1>1 DEF MarkStatus, Answer
<1>8. marking' \in Maybe(Marking) /\ (marking' # None => marking'.statement = "update")
  BY <1>2, <1>7 DEF Marking, Maybe, Statuses
<1>9. reply' \in Maybe(Reply)
  <2>1. CASE reply' = None
    BY <2>1 DEF Maybe
  <2>2. CASE reply' # None
    <3>1. /\ marking.call \in {"rebuild", "projection", "status", "evidence"}
          /\ marking.status \in Statuses
      BY <1>2 DEF Marking
    <3>2. reply' = [call |-> marking.call, id |-> p, status |-> marking.status,
                    authoritative |-> FALSE]
      BY <1>7, <2>2
    <3> HIDE DEF p
    <3> QED
      BY <1>3, <3>1, <3>2 DEF Maybe, Reply
  <2> QED
    BY <2>1, <2>2
<1>10. \A q \in DOMAIN rebuildStatus' :
          rebuildStatus'[q].authoritative => rebuildStatus'[q].status = "complete"
  BY <1>5 DEF IInv, TypeOK
<1>11. TypeOK'
  BY <1>1, <1>4, <1>8, <1>9, <1>10 DEF IInv, TypeOK, Published, Marking, Reply, Maybe
<1>12. MarkInv'
  <2>1. ~Idle' => reply' = None /\ marking'.statement = "update"
    BY <1>7, <1>8 DEF Idle
  <2>2. \A q \in DOMAIN projections \ forged :
          projections[q].authoritative =>
            q \in DOMAIN rebuildStatus'
            /\ rebuildStatus'[q] = [status |-> "complete", authoritative |-> TRUE]
    BY <1>5, <1>6 DEF IInv, MarkInv
  <2> QED
    BY <1>1, <2>1, <2>2 DEF MarkInv
<1>13. ReturnedIsCurrent'
  BY <1>7 DEF ReturnedIsCurrent, AboutProjection
<1>14. AnsweredIsPublished'
  <2> SUFFICES ASSUME reply' # None, p \in DOMAIN projections \ forged
               PROVE  /\ p \in DOMAIN rebuildStatus'
                      /\ rebuildStatus'[p].status = projections[p].status
                      /\ rebuildStatus'[p].authoritative = projections[p].authoritative
    BY <1>1, <1>7 DEF AnsweredIsPublished, AboutProjection
  <2>1. projections[p].authoritative = FALSE
    BY <1>6 DEF IInv, TypeOK, IsTable, ProjectionRow
  <2>2. row.status = marking.status /\ row.authoritative = FALSE
    OBVIOUS
  <2> HIDE DEF p, row
  <2>3. p \in DOMAIN rebuildStatus' /\ rebuildStatus'[p] = row
    BY <1>5
  <2>4. projections[p].status = marking.status
    BY <1>6 DEF p
  <2> QED
    BY <2>1, <2>2, <2>3, <2>4
<1>15. EvidenceStands'
  BY <1>1 DEF IInv, EvidenceStands
<1> QED
  BY <1>11, <1>12, <1>13, <1>14, <1>15 DEF IInv

(* The other program's edit leaves a row of the table's type.              *)
LEMMA ForgeKeeps ==
  ASSUME IInv, NEW p \in Projections, Forge(p)
  PROVE  IInv'
<1>1. /\ p \in DOMAIN projections /\ reply' = None /\ forged' = forged \cup {p}
      /\ UNCHANGED <<events, rebuilds, rebuildStatus, playbacks, simulations, marking>>
  BY DEF Forge
<1>2. PICK payload \in Forged, claim \in BOOLEAN :
        projections' = [projections EXCEPT ![p] =
          IF claim THEN [@ EXCEPT !.payload = payload, !.status = "complete",
                                  !.authoritative = TRUE]
          ELSE [@ EXCEPT !.payload = payload]]
  BY DEF Forge
<1> DEFINE old == projections[p]
           claimed == [old EXCEPT !.payload = payload, !.status = "complete",
                                  !.authoritative = TRUE]
           written == [old EXCEPT !.payload = payload]
<1>3. old \in ProjectionRow /\ payload \in Seq(Texts) /\ "complete" \in Statuses
  BY <1>1, ForgedArePayloads DEF IInv, TypeOK, IsTable, Statuses
<1>4. claimed \in ProjectionRow /\ claimed.status = "complete"
  BY <1>3 DEF ProjectionRow
<1>5. /\ written \in ProjectionRow /\ written.status = old.status
      /\ written.authoritative = old.authoritative
  BY <1>3 DEF ProjectionRow
<1>6. projections' = [projections EXCEPT ![p] = IF claim THEN claimed ELSE written]
  BY <1>2
<1> HIDE DEF claimed, written
<1>7. /\ DOMAIN projections' = DOMAIN projections
      /\ projections'[p] = IF claim THEN claimed ELSE written
      /\ \A q \in DOMAIN projections \ {p} : projections'[q] = projections[q]
  BY <1>1, <1>6
<1>8. IsTable(projections', Projections, ProjectionRow)
  BY <1>1, <1>4, <1>5, <1>6 DEF IInv, TypeOK, IsTable
<1>9. \A q \in DOMAIN projections' :
         projections'[q].authoritative => projections'[q].status = "complete"
  <2>1. projections'[p].authoritative => projections'[p].status = "complete"
    BY <1>1, <1>4, <1>5, <1>7 DEF IInv, TypeOK
  <2> QED
    BY <1>7, <2>1 DEF IInv, TypeOK
<1>10. TypeOK'
  BY <1>1, <1>8, <1>9 DEF IInv, TypeOK, Maybe
<1>11. MarkInv'
  BY <1>1, <1>7 DEF IInv, MarkInv, Idle
<1>12. ReturnedIsCurrent' /\ AnsweredIsPublished'
  BY <1>1 DEF ReturnedIsCurrent, AnsweredIsPublished, AboutProjection
<1>13. EvidenceStands'
  BY <1>1 DEF IInv, EvidenceStands
<1> QED
  BY <1>10, <1>11, <1>12, <1>13 DEF IInv

-----------------------------------------------------------------------------
(* Every step.                                                             *)

LEMMA StepKeeps == IInv /\ [Next]_vars => IInv'
<1> SUFFICES ASSUME IInv, [Next]_vars PROVE IInv'
  OBVIOUS
<1>1. CASE \E id \in EventIds, n \in Numbers, b \in Bodies : AppendEvent(WithBody(id, n, b))
  <2>1. PICK id \in EventIds, n \in Numbers, b \in Bodies : AppendEvent(WithBody(id, n, b))
    BY <1>1
  <2>2. b \in Body
    BY BodiesAreBodies
  <2>3. WithBody(id, n, b) \in Event
    BY <2>2 DEF WithBody, Event, Body
  <2> QED
    BY <2>1, <2>3, AppendKeeps
<1>2. CASE \E p \in Projections, schema \in Schemas : RebuildProjection(p, schema)
  BY <1>2, RebuildKeeps
<1>3. CASE \E p \in Projections, call \in {"projection", "status"} :
             ReturnTrusted(p, call) \/ ReadUntrusted(p, call)
  BY <1>3, ReturnKeeps, ReadKeeps
<1>4. CASE \E p \in Projections : ReadMissing(p)
  <2>1. "status" \in {"projection", "status"}
    OBVIOUS
  <2> QED
    BY <1>4, <2>1, ReadKeeps
<1>5. CASE \E r \in Records : \E g \in Maybe(Generations(events)), proposed \in Proposals :
             Playback(r, g, proposed)
  BY <1>5, PlaybackKeeps
<1>6. CASE \E r \in Records : Simulate(r) \/ CheckEvidence(r)
  BY <1>6, QuietKeeps
<1>7. CASE MarkProjection
  BY <1>7, MarkProjectionKeeps
<1>8. CASE MarkStatus
  BY <1>8, MarkStatusKeeps
<1>9. CASE Crash
  BY <1>9, CrashKeeps
<1>10. CASE \E p \in Projections : Forge(p)
  BY <1>10, ForgeKeeps
<1>11. CASE UNCHANGED vars
  <2>1. UNCHANGED <<events, projections, rebuilds, rebuildStatus, playbacks, simulations>>
        /\ UNCHANGED <<marking, reply, forged>>
    BY <1>11 DEF vars, tables
  <2>2. Derived(events)' = Derived(events)
    BY <2>1 DEF Derived, Derive
  <2> QED
    BY <2>1, <2>2 DEF IInv, TypeOK, MarkInv, Idle, ReturnedIsCurrent, AnsweredIsPublished,
                      AboutProjection, EvidenceStands
<1> QED
  BY <1>1, <1>2, <1>3, <1>4, <1>5, <1>6, <1>7, <1>8, <1>9, <1>10, <1>11 DEF Next, Calls

THEOREM Invariance == Spec => []IInv
  BY InitHolds, StepKeeps, PTL DEF Spec

(* Tables, answers and marks have their types, whatever the calls.         *)
THEOREM TypeCorrect == Spec => []TypeOK
<1>1. IInv => TypeOK
  BY DEF IInv
<1> QED
  BY <1>1, Invariance, PTL

(* What is returned as authoritative is the derivation of the whole        *)
(* current history, however long it is and whatever was written elsewhere. *)
THEOREM AuthorityIsCurrent == Spec => []ReturnedIsCurrent
<1>1. IInv => ReturnedIsCurrent
  BY DEF IInv
<1> QED
  BY <1>1, Invariance, PTL

(* An answer about a projection agrees with what is published of it.       *)
THEOREM AnswersArePublished == Spec => []AnsweredIsPublished
<1>1. IInv => AnsweredIsPublished
  BY DEF IInv
<1> QED
  BY <1>1, Invariance, PTL

(* Exact playback evidence is never undone by a longer history.            *)
THEOREM EvidenceIsLasting == Spec => []EvidenceStands
<1>1. IInv => EvidenceStands
  BY DEF IInv
<1> QED
  BY <1>1, Invariance, PTL

-----------------------------------------------------------------------------
(* Replacement.                                                            *)

Replaced(p) ==
  LET new == projections'[p] IN
  \/ p \notin DOMAIN projections /\ ~new.authoritative
  \/ /\ p \in DOMAIN projections
     /\ new.payload = projections[p].payload
     /\ new.generation = projections[p].generation
     /\ new.authoritative => projections[p].authoritative
  \/ Derived(events) # None /\ new = CompleteRow

LEMMA SameIsReplaced ==
  ASSUME NEW q \in DOMAIN projections, projections'[q] = projections[q]
  PROVE  Replaced(q)
BY DEF Replaced

LEMMA RevokedIsReplaced ==
  ASSUME TypeOK, NEW q \in DOMAIN projections, NEW status \in Statuses,
         projections'[q] = Revoked(projections[q], status)
  PROVE  Replaced(q)
<1>1. projections[q] \in ProjectionRow
  BY DEF TypeOK, IsTable
<1>2. /\ Revoked(projections[q], status).payload = projections[q].payload
      /\ Revoked(projections[q], status).generation = projections[q].generation
      /\ Revoked(projections[q], status).authoritative = FALSE
  BY ONLY <1>1, RevokedType
<1> QED
  BY <1>2 DEF Replaced

LEMMA RebuildReplaces ==
  ASSUME IInv, NEW p \in Projections, NEW schema \in Schemas, RebuildProjection(p, schema)
  PROVE  \A q \in DOMAIN projections' : Replaced(q)
<1> DEFINE complete == schema = SCHEMA /\ Derived(events) # None
           row == IF complete THEN CompleteRow ELSE FailedRow(p)
<1>1. projections' = Put(projections, p, row)
  BY DEF RebuildProjection
<1>2. /\ DOMAIN projections' = DOMAIN projections \cup {p} /\ projections'[p] = row
      /\ \A q \in DOMAIN projections \ {p} : projections'[q] = projections[q]
  <2> HIDE DEF row
  <2> QED
    BY <1>1 DEF Put
<1>3. Replaced(p)
  <2>1. CASE complete
    BY <1>2, <2>1 DEF Replaced
  <2>2. CASE ~complete /\ p \notin DOMAIN projections
    BY <1>2, <2>2, FailedRowType DEF IInv, Replaced
  <2>3. CASE ~complete /\ p \in DOMAIN projections
    <3>1. projections'[p] = Revoked(projections[p], "failed") /\ "failed" \in Statuses
      BY <1>2, <2>3 DEF FailedRow, Statuses
    <3> QED
      BY <2>3, <3>1, RevokedIsReplaced DEF IInv
  <2> QED
    BY <2>1, <2>2, <2>3
<1> QED
  BY <1>2, <1>3, SameIsReplaced

LEMMA MarkReplaces ==
  ASSUME IInv, MarkProjection
  PROVE  \A q \in DOMAIN projections' : Replaced(q)
<1>1. /\ DOMAIN projections' = DOMAIN projections
      /\ \A q \in DOMAIN projections :
           projections'[q] = IF q = marking.id THEN Revoked(projections[q], marking.status)
                             ELSE projections[q]
  BY DEF MarkProjection
<1>2. marking.status \in Statuses
  BY DEF MarkProjection, Idle, IInv, TypeOK, Maybe
<1> SUFFICES ASSUME NEW q \in DOMAIN projections PROVE Replaced(q)
  BY <1>1
<1>3. CASE q = marking.id
  BY <1>1, <1>2, <1>3, RevokedIsReplaced DEF IInv
<1>4. CASE q # marking.id
  BY <1>1, <1>4, SameIsReplaced
<1> QED
  BY <1>3, <1>4

LEMMA ForgeReplaces ==
  ASSUME NEW p \in Projections, Forge(p)
  PROVE  \A q \in DOMAIN projections' \ forged' : Replaced(q)
<1>1. /\ p \in forged' /\ DOMAIN projections' = DOMAIN projections
      /\ \A q \in DOMAIN projections \ {p} : projections'[q] = projections[q]
  BY DEF Forge
<1> QED
  BY <1>1, SameIsReplaced

(* A projection is replaced or gains authority only by a successful        *)
(* reconstruction of the whole history, or by the other program.           *)
THEOREM ReplacementNeedsSuccess == Spec => ReplacedBySuccess
<1> DEFINE A == \A p \in DOMAIN projections' \ forged' : Replaced(p)
<1>1. IInv /\ [Next]_vars => [A]_vars
  <2> SUFFICES ASSUME IInv, Next PROVE A
    OBVIOUS
  <2>1. CASE \E p \in Projections, schema \in Schemas : RebuildProjection(p, schema)
    BY <2>1, RebuildReplaces
  <2>2. CASE MarkProjection
    BY <2>2, MarkReplaces
  <2>3. CASE \E p \in Projections : Forge(p)
    BY <2>3, ForgeReplaces
  <2>4. CASE UNCHANGED projections
    BY <2>4, SameIsReplaced
  <2>5. \/ UNCHANGED projections \/ MarkProjection
        \/ \E p \in Projections : Forge(p)
        \/ \E p \in Projections, schema \in Schemas : RebuildProjection(p, schema)
    BY DEF Next, Calls, AppendEvent, ReturnTrusted, ReadUntrusted, ReadMissing, BeginMark,
           Playback, Simulate, CheckEvidence, MarkStatus, Crash, tables
  <2> QED
    BY <2>1, <2>2, <2>3, <2>4, <2>5
<1> QED
  BY <1>1, Invariance, PTL DEF Spec, ReplacedBySuccess, Replaced
=============================================================================
