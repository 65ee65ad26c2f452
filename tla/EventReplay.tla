---------------------------- MODULE EventReplay ----------------------------
(***************************************************************************)
(* Event history, projections, playback and captured simulations of the    *)
(* artifact store (src/src/artifacts/replay.rs), on one connection, with   *)
(* another program that edits projection rows as far as their triggers let *)
(* it, and a process that may die between any two statements.              *)
(*                                                                         *)
(* append_event, rebuild_projection and the playback calls change the      *)
(* database in one statement or transaction.  projection and               *)
(* projection_status mark a projection that they do not trust by an UPDATE *)
(* and an INSERT that are committed one after the other.                   *)
(*                                                                         *)
(* Abstractions.  An event history is the sequence of rows in the order    *)
(* every query uses; the generation of a history is SHA-256 of its rows,   *)
(* taken as injective: the rows themselves.  Inputs and outcomes are texts *)
(* without a newline, and no single text is empty, so that a payload is    *)
(* the sequence of the values joined in it.  Rebuild rows that differ only *)
(* in their number are one.  An SQL error changes nothing and is left out. *)
(***************************************************************************)
EXTENDS Naturals, Sequences

CONSTANTS
  EventIds,     \* event identities
  Numbers,      \* event_sequence values
  Texts,        \* inputs, outcomes and derived values
  Upper,        \* text -> text in upper case
  Bodies,       \* the (transition, input, outcome) that callers use
  Projections,  \* projection identities
  Records,      \* identities of playback results and of simulations
  Forged,       \* payloads another program may write into a projection
  None

Transitions == {"uppercase", "identity", "unknown"}
Body  == [transition : Transitions, input : Texts, outcome : Texts]
Event == [id : EventIds, sequence : Numbers, transition : Transitions,
          input : Texts, outcome : Texts]

ASSUME NumbersAreNumbers == Numbers \subseteq Nat
ASSUME UpperType == Upper \in [Texts -> Texts]
ASSUME BodiesAreBodies == Bodies \subseteq Body
ASSUME ForgedArePayloads == Forged \subseteq Seq(Texts)
ASSUME NoneIsNothing ==
  None \notin Texts \cup EventIds \cup Projections \cup Records \cup Seq(Event) \cup Seq(Texts)

VARIABLES
  events,         \* the rows of table events in their order
  projections,    \* table projections: id -> row
  rebuilds,       \* rows of the append-only table projection_rebuilds
  rebuildStatus,  \* table projection_rebuild_status: id -> row
  playbacks,      \* table playback_results: id -> row
  simulations,    \* ids of table captured_outcome_simulations
  marking,        \* the running mark_projection_status, and who called it
  reply,          \* what the last call returned
  forged          \* ghost: projections edited by the other program since their last rebuild

tables == <<events, projections, rebuilds, rebuildStatus, playbacks, simulations>>
vars   == <<tables, marking, reply, forged>>

-----------------------------------------------------------------------------
(* Histories and what is derived from them.                                *)

SCHEMA  == 1
Schemas == {SCHEMA, 2}

Statuses == {"missing", "stale", "drifted", "complete", "failed"}

Derive(transition, input) ==
  IF transition = "uppercase" THEN Upper[input]
  ELSE IF transition = "identity" THEN input
  ELSE None

(* A single unknown transition makes the whole history underivable.        *)
Derived(rows) ==
  LET value(i) == Derive(rows[i].transition, rows[i].input) IN
  IF \E i \in DOMAIN rows : value(i) = None THEN None
  ELSE [i \in DOMAIN rows |-> value(i)]

(* The histories a generation can be found for: every prefix.              *)
Generations(rows) == {SubSeq(rows, 1, n) : n \in 0 .. Len(rows)}

Put(table, key, row) ==
  [k \in DOMAIN table \cup {key} |-> IF k = key THEN row ELSE table[k]]

Idle == marking = None

Maybe(S) == S \cup {None}

(* What a call says of a projection, or of a playback as evidence.         *)
Answer(call, id, status, authoritative) ==
  reply' = [call |-> call, id |-> id, status |-> status, authoritative |-> authoritative]

-----------------------------------------------------------------------------
(* Events.                                                                 *)

(* Faulty variant of InOrder: it only asks for a free number.              *)
NumberFree(e) == \A i \in DOMAIN events : events[i].sequence # e.sequence

InOrder(e) == \A i \in DOMAIN events : events[i].sequence < e.sequence

(* The row takes its place in the order of event_sequence.                 *)
Inserted(e) ==
  LET k == CHOOSE k \in 0 .. Len(events) :
             \A i \in DOMAIN events : i <= k <=> events[i].sequence <= e.sequence
  IN  SubSeq(events, 1, k) \o <<e>> \o SubSeq(events, k + 1, Len(events))

AppendEvent(e) ==
  /\ Idle
  /\ InOrder(e)
  /\ \A i \in DOMAIN events : events[i].id # e.id
  /\ events' = Inserted(e)
  /\ reply' = None
  /\ UNCHANGED <<projections, rebuilds, rebuildStatus, playbacks, simulations, marking, forged>>

-----------------------------------------------------------------------------
(* Projections.                                                            *)

CompleteRow ==
  [schema |-> SCHEMA, generation |-> events, source |-> events,
   authoritative |-> TRUE, status |-> "complete", payload |-> Derived(events)]

(* A row that is not to be trusted, and the faulty variant that leaves it  *)
(* its authority.                                                          *)
Relabelled(row, status) == [row EXCEPT !.status = status]
Revoked(row, status) == [row EXCEPT !.authoritative = FALSE, !.status = status]

(* Faulty variant of FailedRow: the row starts anew.                       *)
FailedAnew(p) ==
  [CompleteRow EXCEPT !.payload = <<>>, !.authoritative = FALSE, !.status = "failed"]

(* A failed rebuild keeps what an earlier one left but its authority.      *)
FailedRow(p) ==
  IF p \in DOMAIN projections THEN Revoked(projections[p], "failed")
  ELSE [CompleteRow EXCEPT !.payload = <<>>, !.authoritative = FALSE, !.status = "failed"]

(* Faulty variant of RebuildOutcome: only success is published.            *)
SuccessOutcome(p, complete) ==
  rebuildStatus' = IF complete
                   THEN Put(rebuildStatus, p, [status |-> "complete", authoritative |-> TRUE])
                   ELSE rebuildStatus

RebuildOutcome(p, complete) ==
  rebuildStatus' = Put(rebuildStatus, p,
    [status |-> IF complete THEN "complete" ELSE "failed", authoritative |-> complete])

(* The projection is read once more when the rebuild has been committed,   *)
(* and found as it was written.                                            *)
RebuildProjection(p, schema) ==
  LET complete == schema = SCHEMA /\ Derived(events) # None
      last == IF events = <<>> THEN None ELSE events[Len(events)].id
  IN
  /\ Idle
  /\ rebuilds' = rebuilds \cup {[projection |-> p, event |-> last, complete |-> complete]}
  /\ RebuildOutcome(p, complete)
  /\ projections' = Put(projections, p, IF complete THEN CompleteRow ELSE FailedRow(p))
  /\ Answer("rebuild", p, IF complete THEN "complete" ELSE "failed", complete)
  /\ forged' = forged \ {p}
  /\ UNCHANGED <<events, playbacks, simulations, marking>>

UpToDate(row) == row.schema = SCHEMA /\ row.generation = events /\ row.source = events

(* Faulty variant of Intact: the payload is not derived again.             *)
AssumedIntact(row) == TRUE

Intact(row) == Derived(events) # None /\ row.payload = Derived(events)

Assessment(row) ==
  IF row.status = "failed" THEN "failed"
  ELSE IF ~UpToDate(row) THEN "stale"
  ELSE IF ~Intact(row) THEN "drifted"
  ELSE "complete"

Trusted(p) == Assessment(projections[p]) = "complete" /\ projections[p].authoritative

ReturnTrusted(p, call) ==
  /\ Idle
  /\ p \in DOMAIN projections
  /\ Trusted(p)
  /\ Answer(call, p, "complete", TRUE)
  /\ UNCHANGED <<tables, marking, forged>>

BeginMark(p, call, status) ==
  /\ marking' = [id |-> p, call |-> call, status |-> status, statement |-> "update"]
  /\ reply' = None
  /\ UNCHANGED <<tables, forged>>

ReadUntrusted(p, call) ==
  /\ Idle
  /\ p \in DOMAIN projections
  /\ ~Trusted(p)
  /\ BeginMark(p, call, Assessment(projections[p]))

(* Only projection_status marks what is not there.                         *)
ReadMissing(p) ==
  /\ Idle
  /\ p \notin DOMAIN projections
  /\ BeginMark(p, "status", "missing")

(* The UPDATE finds no row of a projection that is missing.                *)
MarkProjection ==
  /\ ~Idle
  /\ marking.statement = "update"
  /\ projections' =
       [p \in DOMAIN projections |->
          IF p = marking.id THEN Revoked(projections[p], marking.status) ELSE projections[p]]
  /\ marking' = [marking EXCEPT !.statement = "insert"]
  /\ UNCHANGED <<events, rebuilds, rebuildStatus, playbacks, simulations, reply, forged>>

(* projection_status then looks at the marked row once more.  What is      *)
(* stale, drifted or failed gets the marks it has, but a projection that   *)
(* is only no longer authoritative it reports as drifted and marks again.  *)
ReportsDrifted == marking.call = "status" /\ marking.status = "complete"

MarkStatus ==
  /\ ~Idle
  /\ marking.statement = "insert"
  /\ rebuildStatus' =
       Put(rebuildStatus, marking.id, [status |-> marking.status, authoritative |-> FALSE])
  /\ IF ReportsDrifted
     THEN /\ marking' = [marking EXCEPT !.status = "drifted", !.statement = "update"]
          /\ UNCHANGED reply
     ELSE /\ marking' = None
          /\ Answer(marking.call, marking.id, marking.status, FALSE)
  /\ UNCHANGED <<events, projections, rebuilds, playbacks, simulations, forged>>

-----------------------------------------------------------------------------
(* Playback.                                                               *)

(* Faulty variant of Exact: the recorded outcomes are taken for derived.   *)
ExactAsRecorded(generation, proposed) ==
  /\ generation # None
  /\ Len(proposed) = Len(generation)
  /\ \A i \in DOMAIN generation : proposed[i].outcome = generation[i].outcome

(* What is proposed agrees with what is recorded and with what is derived. *)
Exact(generation, proposed) ==
  /\ generation # None
  /\ Len(proposed) = Len(generation)
  /\ \A i \in DOMAIN generation :
       /\ proposed[i].transition = generation[i].transition
       /\ proposed[i].input = generation[i].input
       /\ proposed[i].outcome = generation[i].outcome
       /\ Derive(proposed[i].transition, proposed[i].input) = proposed[i].outcome

(* An unknown generation is None.  playback proposes the recorded inputs,  *)
(* playback_with_inputs those of its caller.                               *)
Playback(r, generation, proposed) ==
  /\ Idle
  /\ r \notin DOMAIN playbacks
  /\ playbacks' = Put(playbacks, r,
       [generation |-> generation, exact |-> Exact(generation, proposed)])
  /\ reply' = None
  /\ UNCHANGED <<events, projections, rebuilds, rebuildStatus, simulations, marking, forged>>

Simulate(r) ==
  /\ Idle
  /\ r \notin simulations
  /\ simulations' = simulations \cup {r}
  /\ reply' = None
  /\ UNCHANGED <<events, projections, rebuilds, rebuildStatus, playbacks, marking, forged>>

HasEvidence(r) ==
  /\ r \in DOMAIN playbacks
  /\ playbacks[r].exact
  /\ playbacks[r].generation \in Generations(events)

(* exact_playback_evidence: Ok or Error::Conflict.                         *)
CheckEvidence(r) ==
  /\ Idle
  /\ Answer("evidence", r, IF HasEvidence(r) THEN "complete" ELSE "missing", HasEvidence(r))
  /\ UNCHANGED <<tables, marking, forged>>

-----------------------------------------------------------------------------
(* The process dies and the store is opened again; another program edits a *)
(* row, and may claim for it what the triggers allow.                      *)

Crash ==
  /\ marking' = None
  /\ reply' = None
  /\ UNCHANGED <<tables, forged>>

Forge(p) ==
  /\ p \in DOMAIN projections
  /\ \E payload \in Forged, claim \in BOOLEAN :
       projections' = [projections EXCEPT ![p] =
         IF claim THEN [@ EXCEPT !.payload = payload, !.status = "complete",
                                 !.authoritative = TRUE]
         ELSE [@ EXCEPT !.payload = payload]]
  /\ reply' = None
  /\ forged' = forged \cup {p}
  /\ UNCHANGED <<events, rebuilds, rebuildStatus, playbacks, simulations, marking>>

-----------------------------------------------------------------------------
EmptyTable == [k \in {} |-> None]

Init ==
  /\ events = <<>>
  /\ projections = EmptyTable
  /\ rebuilds = {}
  /\ rebuildStatus = EmptyTable
  /\ playbacks = EmptyTable
  /\ simulations = {}
  /\ marking = None
  /\ reply = None
  /\ forged = {}

WithBody(id, n, b) ==
  [id |-> id, sequence |-> n, transition |-> b.transition, input |-> b.input,
   outcome |-> b.outcome]

(* As many bodies as the history has events, or one too few.               *)
Proposals ==
  UNION {[1 .. n -> Bodies] : n \in {Len(events), Len(events) - 1} \cap Nat}

Calls ==
  \/ \E id \in EventIds, n \in Numbers, b \in Bodies : AppendEvent(WithBody(id, n, b))
  \/ \E p \in Projections :
       \/ \E schema \in Schemas : RebuildProjection(p, schema)
       \/ \E call \in {"projection", "status"} : ReturnTrusted(p, call) \/ ReadUntrusted(p, call)
       \/ ReadMissing(p)
  \/ \E r \in Records :
       \/ \E g \in Maybe(Generations(events)), proposed \in Proposals :
            Playback(r, g, proposed)
       \/ Simulate(r)
       \/ CheckEvidence(r)

Next ==
  \/ Calls
  \/ MarkProjection
  \/ MarkStatus
  \/ Crash
  \/ \E p \in Projections : Forge(p)

Spec == Init /\ [][Next]_vars

-----------------------------------------------------------------------------
(* Properties.                                                             *)

ProjectionRow ==
  [schema : Schemas, generation : Seq(Event), source : Seq(Event),
   authoritative : BOOLEAN, status : Statuses, payload : Seq(Texts)]

IsTable(t, K, Row) == DOMAIN t \subseteq K /\ t \in [DOMAIN t -> Row]

(* Every table holds rows of its type; the coherence triggers hold.        *)
TypeOK ==
  /\ events \in Seq(Event)
  /\ IsTable(projections, Projections, ProjectionRow)
  /\ \A p \in DOMAIN projections :
       projections[p].authoritative => projections[p].status = "complete"
  /\ rebuilds \subseteq
       [projection : Projections, event : Maybe(EventIds), complete : BOOLEAN]
  /\ IsTable(rebuildStatus, Projections, [status : Statuses, authoritative : BOOLEAN])
  /\ \A p \in DOMAIN rebuildStatus :
       rebuildStatus[p].authoritative => rebuildStatus[p].status = "complete"
  /\ IsTable(playbacks, Records, [generation : Maybe(Seq(Event)), exact : BOOLEAN])
  /\ simulations \subseteq Records
  /\ forged \subseteq Projections
  /\ marking \in Maybe([id : Projections, call : {"projection", "status"},
                        status : Statuses, statement : {"update", "insert"}])
  /\ reply \in Maybe([call : {"rebuild", "projection", "status", "evidence"},
                      id : Projections \cup Records, status : Statuses,
                      authoritative : BOOLEAN])

(* What keeps the properties below true from step to step: nobody has an   *)
(* answer while a projection is marked, the two statements of a mark agree *)
(* when both are done, and authority is published before it is returned.   *)
MarkInv ==
  /\ ~Idle => reply = None
  /\ ~Idle /\ marking.statement = "insert" /\ marking.id \in DOMAIN projections \ forged =>
       /\ projections[marking.id].status = marking.status
       /\ ~projections[marking.id].authoritative
  /\ \A p \in DOMAIN projections \ forged :
       projections[p].authoritative =>
         /\ p \in DOMAIN rebuildStatus
         /\ rebuildStatus[p] = [status |-> "complete", authoritative |-> TRUE]

(* A projection that a call returns as complete and authoritative is the   *)
(* derivation of the whole current history, whatever another program wrote *)
(* into it and whatever was appended since it was built.                   *)
AboutProjection == reply # None /\ reply.call # "evidence"

ReturnedIsCurrent ==
  AboutProjection /\ reply.authoritative =>
    /\ reply.status = "complete"
    /\ Derived(events) # None
    /\ projections[reply.id].payload = Derived(events)
    /\ projections[reply.id].generation = events

(* When a call has answered about a projection, what is published of its   *)
(* rebuild agrees with the projection, even if a crash once separated the  *)
(* two statements that say so, unless the other program has edited it.     *)
AnsweredIsPublished ==
  AboutProjection /\ reply.id \in DOMAIN projections \ forged =>
    /\ reply.id \in DOMAIN rebuildStatus
    /\ rebuildStatus[reply.id].status = projections[reply.id].status
    /\ rebuildStatus[reply.id].authoritative = projections[reply.id].authoritative

(* A projection is replaced, or gains authority, only by a reconstruction  *)
(* of the whole history that succeeded, or by the other program.           *)
ReplacedBySuccess ==
  [][\A p \in DOMAIN projections' \ forged' :
       LET new == projections'[p] IN
       \/ p \notin DOMAIN projections /\ ~new.authoritative
       \/ /\ p \in DOMAIN projections
          /\ new.payload = projections[p].payload
          /\ new.generation = projections[p].generation
          /\ new.authoritative => projections[p].authoritative
       \/ Derived(events) # None /\ new = CompleteRow]_vars

(* What was once played back exactly stays evidence: its generation is for *)
(* ever a prefix of the history, and every outcome in it is the derived    *)
(* one, so appending never makes an accepted replay untrue.                *)
EvidenceStands ==
  \A r \in DOMAIN playbacks :
    playbacks[r].exact =>
      /\ playbacks[r].generation \in Generations(events)
      /\ LET g == playbacks[r].generation IN
         \A i \in DOMAIN g : Derive(g[i].transition, g[i].input) = g[i].outcome
=============================================================================
