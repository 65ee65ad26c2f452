--------------------------- MODULE VersionHistory ---------------------------
(***************************************************************************)
(* What the artifact store promises, without saying how: a log of accepted *)
(* versions for each artifact, one final decision for each operation, and  *)
(* answers that agree with the decisions (openspec/specs/artifact-lineage, *)
(* Immutable hash-bound versions and idempotent operations).               *)
(***************************************************************************)
EXTENDS Naturals, Sequences

CONSTANTS Ops, Owners, Artifacts, Versions, None

VARIABLES
  log,       \* artifact -> its accepted versions, each with its owner
  decided,   \* operation -> the version it was accepted with, or None if rejected
  answer     \* the last answer given: a version, or None for a refusal

vars == <<log, decided, answer>>

Entry == [version : Versions, owner : Owners]

NoDecision == [o \in {} |-> None]

Init ==
  /\ answer = None
  /\ \/ log = [a \in Artifacts |-> <<>>] /\ decided = NoDecision
     \/ \E a \in Artifacts, o \in Ops, first \in Entry :
          /\ log = [b \in Artifacts |-> IF b = a THEN <<first>> ELSE <<>>]
          /\ decided = [k \in {o} |-> first.version]

Logged == UNION {{log[a][i].version : i \in DOMAIN log[a]} : a \in Artifacts}

Answer(o, v) == answer' = [op |-> o, version |-> v]

(* An operation is decided once.                                           *)
Decide(o, v) ==
  /\ Answer(o, v)
  /\ o \notin DOMAIN decided
  /\ decided' = [k \in DOMAIN decided \cup {o} |-> IF k = o THEN v ELSE decided[k]]

(* A version is new, and only the owner of a log adds to it.               *)
Accept(o, w, a, v) ==
  /\ Decide(o, v)
  /\ v \notin Logged
  /\ \A i \in DOMAIN log[a] : log[a][i].owner = w
  /\ log' = [log EXCEPT ![a] = Append(@, [version |-> v, owner |-> w])]

Refuse(o) == Decide(o, None) /\ UNCHANGED log

(* A retry that is recognized gets the decision; any call may be refused   *)
(* without deciding anything.                                              *)
AnswerAgain(o) ==
  /\ o \in DOMAIN decided
  /\ Answer(o, decided[o])
  /\ UNCHANGED <<log, decided>>

AnswerRefused(o) ==
  /\ Answer(o, None)
  /\ UNCHANGED <<log, decided>>

Ask ==
  /\ answer' = None
  /\ UNCHANGED <<log, decided>>

Next ==
  \/ Ask
  \/ \E o \in Ops : Refuse(o) \/ AnswerAgain(o) \/ AnswerRefused(o)
  \/ \E o \in Ops, w \in Owners, a \in Artifacts, v \in Versions : Accept(o, w, a, v)

Spec == Init /\ [][Next]_vars
=============================================================================
