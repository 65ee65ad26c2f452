------------------------------ MODULE Recovery ------------------------------
(***************************************************************************)
(* Reconciliation of one accepted file-backed version and the recovery of  *)
(* its file (src/src/artifacts/recovery.rs), next to an author who edits   *)
(* the directory, and a process that may die at any step.                  *)
(*                                                                         *)
(* A reconciliation compares four surfaces and records a run.  A recovery  *)
(* is given the result of an earlier run, maybe much earlier, and makes    *)
(* the file anew: it opens a transaction, inserts its action, creates the  *)
(* file, writes it, looks at it, and commits.  Each access to the file is  *)
(* a step.  What the transaction inserted is gone if it does not commit;   *)
(* what was done to the file is not.                                       *)
(*                                                                         *)
(* Abstractions.  There is one scope with one target path; a request for   *)
(* another path is refused as one with another authorization is.  Whether  *)
(* the other surfaces agree is free.  The change that a caller of          *)
(* reconcile_owned_with_change may claim is always empty, as in the only   *)
(* call of it.  Runs or outcomes that differ only in their number are one. *)
(* A hash is the content hashed; a fingerprint its preimage.  SQL errors   *)
(* other than a UNIQUE fingerprint are left out.                           *)
(***************************************************************************)
EXTENDS Naturals, FiniteSets

CONSTANTS
  Ops,         \* recovery operation identities
  Contents,    \* what files hold when they have been written
  Empty,       \* what a file holds that has just been created
  Inodes,      \* device:inode identities
  Accepted,    \* the file of the accepted version: its inode and content
  Auths,       \* (authorization identity, authorization scope)
  NoAuth,      \* one of which is empty
  Others,      \* the other surfaces that may disagree
  MaxRuns,     \* bound: how many different runs are kept
  None

File == [ino : Inodes, content : Contents \cup {Empty}]

ASSUME AcceptedIsFile == Accepted \in [ino : Inodes, content : Contents]
ASSUME OthersAreSurfaces == Others \subseteq {"events", "projection", "git"}
ASSUME MaxRunsIsNumber   == MaxRuns \in Nat
ASSUME NoAuthIsNone   == NoAuth \notin Auths
ASSUME NoneIsNoThing  ==
  None \notin Ops \cup Contents \cup {Empty} \cup Inodes \cup File \cup Auths \cup {NoAuth}

Maybe(S) == S \cup {None}

Surfaces    == Others \cup {"filesystem"}
Provenances == {"target", "file", "surface"}
Results     == {"applied", "blocked", "unknown"}
Checkpoints == {"effect", "prepare", "unknown"}

Run == [bad : SUBSET (Surfaces \cup {"reconciliation"}), provenance : Maybe(Provenances)]

Request == [op : Ops, content : Contents, auth : Auths \cup {NoAuth}]

VARIABLES
  file,      \* the regular file at the target path
  runs,      \* rows of reconciliation_runs with their discrepancies
  actions,   \* table recovery_actions with its terminal outcome: operation -> row
  pc,        \* where the running recovery is
  rec,       \* its request, binding, checkpoint and open file
  reply,     \* what the last recovery returned, and for which request
  effects,   \* ghost: operation -> the files it has created, up to 2
  lost,      \* ghost: operations that created a file and recorded nothing
  touched    \* ghost: the author acted since the recovery looked at its file

call == <<pc, rec, reply>>
vars == <<file, runs, actions, call, effects, lost, touched>>

Fingerprint == (Maybe(File)) \X Contents \X Auths
Action == [fingerprint : Fingerprint, result : Results]

-----------------------------------------------------------------------------
(* Reconciliation.                                                         *)

(* The expected inode with the expected hash.                              *)
FileOk == file = Accepted

(* A file of the expected inode is the provenance of a mismatch, else the  *)
(* target path is: there is no such file.                                  *)
FileProvenance ==
  IF file # None /\ file.ino = Accepted.ino THEN "file" ELSE "target"

RecordRun(run) ==
  /\ pc = "idle"
  /\ run \in runs \/ Cardinality(runs) < MaxRuns
  /\ runs' = runs \cup {run}
  /\ UNCHANGED <<file, actions, call, effects, lost, touched>>

ReconcileOwned(others) ==
  LET bad == others \cup (IF FileOk THEN {} ELSE {"filesystem"}) IN
  RecordRun([bad |-> bad, provenance |-> IF FileOk THEN None ELSE FileProvenance])

(* reconcile: what the caller claims to have seen, without a provenance.   *)
ReconcileInput(bad) ==
  RecordRun([bad |-> bad, provenance |-> IF bad = {} THEN None ELSE "surface"])

(* reconcile_accepted: a single verdict, and no discrepancies.             *)
ReconcileAccepted(othersOk) ==
  RecordRun([bad |-> IF FileOk /\ othersOk THEN {} ELSE {"reconciliation"},
             provenance |-> None])

-----------------------------------------------------------------------------
(* Recovery.                                                               *)

Return(request, status) ==
  /\ pc' = "idle"
  /\ rec' = None
  /\ reply' = [request |-> request, status |-> status]

(* Faulty variant of Known: earlier actions are not looked up.             *)
NeverKnown(op) == FALSE

Known(op) == op \in DOMAIN actions

(* Faulty variant of SameRequest: any request of the operation.            *)
AnyRequest(r) == TRUE

SameRequest(r) ==
  /\ actions[r.op].fingerprint[2] = r.content
  /\ actions[r.op].fingerprint[3] = r.auth

Retry(r) ==
  /\ pc = "idle"
  /\ Known(r.op)
  /\ Return(r, IF SameRequest(r) THEN actions[r.op].result ELSE "conflict")
  /\ UNCHANGED <<file, runs, actions, effects, lost, touched>>

(* A run with the missing file as its only discrepancy.                    *)
Recoverable(run) == run.bad = {"filesystem"} /\ run.provenance = "target"

Binding(r) == <<file, r.content, r.auth>>

Bindable(r, run) ==
  /\ Recoverable(run)
  /\ r.auth # NoAuth
  /\ \A op \in DOMAIN actions : actions[op].fingerprint # Binding(r)

RefuseBinding(r, run) ==
  /\ pc = "idle"
  /\ ~Known(r.op)
  /\ ~Bindable(r, run)
  /\ Return(r, "conflict")
  /\ UNCHANGED <<file, runs, actions, effects, lost, touched>>

Bind(r, run, checkpoint) ==
  /\ pc = "idle"
  /\ ~Known(r.op)
  /\ Bindable(r, run)
  /\ pc' = IF checkpoint = "effect" THEN "bound" ELSE "verified"
  /\ rec' = [request |-> r, fingerprint |-> Binding(r), checkpoint |-> checkpoint, fd |-> None]
  /\ reply' = None
  /\ touched' = FALSE
  /\ UNCHANGED <<file, runs, actions, effects, lost>>

(* The early returns drop the transaction.                                 *)
Abandon ==
  /\ Return(rec.request, "conflict")
  /\ lost' = IF rec.fd = None THEN lost ELSE lost \cup {rec.request.op}
  /\ UNCHANGED <<runs, actions, effects, touched>>

(* An inode is free when neither the path nor the open file has it.        *)
Free(ino) ==
  /\ file # None => file.ino # ino
  /\ rec # None => rec.fd # ino

(* Faulty variant of PathFree: open without create_new.                    *)
PathOpen == TRUE

PathFree == file = None

CreateFile ==
  /\ pc = "bound"
  /\ PathFree
  /\ \E ino \in Inodes :
       /\ Free(ino)
       /\ file' = [ino |-> ino, content |-> Empty]
       /\ rec' = [rec EXCEPT !.fd = ino]
  /\ pc' = "created"
  /\ effects' = [effects EXCEPT ![rec.request.op] = IF @ < 2 THEN @ + 1 ELSE @]
  /\ UNCHANGED <<runs, actions, reply, lost, touched>>

FileExists ==
  /\ pc = "bound"
  /\ ~PathFree
  /\ Abandon
  /\ UNCHANGED file

(* The write goes to the file that was opened, wherever that is now.       *)
OpenFileAtPath == file # None /\ file.ino = rec.fd
Written == IF OpenFileAtPath THEN [file EXCEPT !.content = rec.request.content] ELSE file

WriteFile ==
  /\ pc = "created"
  /\ file' = Written
  /\ pc' = "written"
  /\ UNCHANGED <<runs, actions, rec, reply, effects, lost, touched>>

(* Writing or syncing fails; the bytes may be in the file or not.          *)
WriteFails ==
  /\ pc = "created"
  /\ file' \in {file, Written}
  /\ Abandon

(* Faulty variant of Verified: the path is not read back.                  *)
AssumedVerified == TRUE

(* The hash at the path, of whatever file.                                 *)
Verified == file # None /\ file.content = rec.request.content

VerifyFile ==
  /\ pc = "written"
  /\ \/ /\ Verified
        /\ pc' = "verified"
        /\ touched' = FALSE
        /\ UNCHANGED <<runs, actions, rec, reply, effects, lost>>
     \/ ~Verified /\ Abandon
  /\ UNCHANGED file

(* The terminal result, and its faulty variant, which is the checkpoint.   *)
RawCheckpoint == rec.checkpoint
Terminal ==
  IF rec.checkpoint = "effect" THEN "applied"
  ELSE IF rec.checkpoint = "prepare" THEN "blocked"
  ELSE "unknown"

Commit ==
  /\ pc = "verified"
  /\ actions' = [op \in DOMAIN actions \cup {rec.request.op} |->
       IF op = rec.request.op THEN [fingerprint |-> rec.fingerprint, result |-> Terminal]
       ELSE actions[op]]
  /\ Return(rec.request, Terminal)
  /\ UNCHANGED <<file, runs, effects, lost, touched>>

(* The process dies; the store opens again with what was committed.        *)
Crash ==
  /\ pc # "idle"
  /\ pc' = "idle"
  /\ rec' = None
  /\ reply' = None
  /\ lost' = IF rec.fd = None THEN lost ELSE lost \cup {rec.request.op}
  /\ UNCHANGED <<file, runs, actions, effects, touched>>

-----------------------------------------------------------------------------
(* The author.                                                             *)

AuthorChanges(new) ==
  /\ file' = new
  /\ touched' = TRUE
  /\ UNCHANGED <<runs, actions, call, effects, lost>>

AuthorRemoves == file # None /\ AuthorChanges(None)

AuthorWrites(c) == file # None /\ AuthorChanges([file EXCEPT !.content = c])

AuthorReplaces(ino, c) == Free(ino) /\ AuthorChanges([ino |-> ino, content |-> c])

-----------------------------------------------------------------------------
Init ==
  /\ file = Accepted
  /\ runs = {}
  /\ actions = [op \in {} |-> None]
  /\ pc = "idle"
  /\ rec = None
  /\ reply = None
  /\ effects = [op \in Ops |-> 0]
  /\ lost = {}
  /\ touched = FALSE

Reconcile ==
  \/ \E others \in SUBSET Others : ReconcileOwned(others)
  \/ \E bad \in SUBSET Surfaces : ReconcileInput(bad)
  \/ \E ok \in BOOLEAN : ReconcileAccepted(ok)

Recover ==
  \/ \E r \in Request :
       \/ Retry(r)
       \/ \E run \in runs :
            \/ RefuseBinding(r, run)
            \/ \E checkpoint \in Checkpoints : Bind(r, run, checkpoint)
  \/ CreateFile \/ FileExists \/ WriteFile \/ WriteFails \/ VerifyFile \/ Commit

Author ==
  \/ AuthorRemoves
  \/ \E c \in Contents : AuthorWrites(c)
  \/ \E ino \in Inodes, c \in Contents : AuthorReplaces(ino, c)

Next == Reconcile \/ Recover \/ Crash \/ Author

Spec == Init /\ [][Next]_vars

-----------------------------------------------------------------------------
(* Properties.                                                             *)

RecType ==
  [request : Request, fingerprint : Fingerprint, checkpoint : Checkpoints, fd : Maybe(Inodes)]

ASSUME NoneIsNoRecovery == None \notin RecType

(* Every variable has its type; a recovery has locals while it runs.       *)
TypeOK ==
  /\ file \in Maybe(File)
  /\ runs \subseteq Run
  /\ DOMAIN actions \subseteq Ops
  /\ actions \in [DOMAIN actions -> Action]
  /\ pc \in {"idle", "bound", "created", "written", "verified"}
  /\ rec \in Maybe(RecType)
  /\ rec = None <=> pc = "idle"
  /\ reply \in Maybe([request : Request, status : Results \cup {"conflict"}])
  /\ effects \in [Ops -> 0 .. 2]
  /\ lost \subseteq Ops
  /\ touched \in BOOLEAN

(* What keeps the properties below true from step to step: a recovery that *)
(* runs has no action yet, it is bound to its own request, an effect is    *)
(* recorded, lost or the running one's, and what was looked at last is     *)
(* there as long as the author has not acted.                              *)
RecoveryInv ==
  /\ pc = "bound" => rec.fd = None
  /\ pc \in {"created", "written"} => rec.fd # None
  /\ rec # None =>
       /\ rec.request.op \notin DOMAIN actions
       /\ rec.fingerprint[2] = rec.request.content
       /\ rec.fingerprint[3] = rec.request.auth
  /\ \A op \in Ops :
       effects[op] > 0 =>
         \/ op \in lost \cup DOMAIN actions
         \/ rec # None /\ rec.fd # None /\ rec.request.op = op
  /\ pc = "verified" /\ rec.checkpoint = "effect" /\ ~touched =>
       file # None /\ file.content = rec.request.content

(* Whatever run it was given and however old that run is, a recovery never *)
(* changes a file that it did not create in the same call, and creates one *)
(* only where there is none.                                               *)
PriorFilesUntouched ==
  [][pc' # pc /\ file' # file => file = None \/ (rec # None /\ file.ino = rec.fd)]_vars

(* An operation that once has a result keeps it, and answers with it only  *)
(* to the request it was decided for.                                      *)
ResultIsFinal ==
  [][/\ \A op \in DOMAIN actions : op \in DOMAIN actions' /\ actions'[op] = actions[op]
     /\ reply' # reply /\ reply' # None /\ reply'.status \in Results =>
          LET r == reply'.request IN
          /\ r.op \in DOMAIN actions'
          /\ actions'[r.op].result = reply'.status
          /\ actions'[r.op].fingerprint[2] = r.content
          /\ actions'[r.op].fingerprint[3] = r.auth]_vars

(* An operation makes its file at most once, unless an effect of it went   *)
(* unrecorded because the process died or a write failed.                  *)
OnceUnlessLost == \A op \in Ops : effects[op] > 1 => op \in lost

(* What is recorded as applied was in place: the path held the whole       *)
(* intended content when it was last looked at, even if the author moved   *)
(* the file that was being written out of the way.                         *)
AppliedWasWhole ==
  [][\A op \in DOMAIN actions' \ DOMAIN actions :
       actions'[op].result = "applied" /\ ~touched =>
         file # None /\ file.content = actions'[op].fingerprint[2]]_vars

-----------------------------------------------------------------------------
(* What the requirements say and the code does not do.                     *)

(* "MUST apply it at most once, record the action and outcome append-only, *)
(* and return the same durable result on retry" (openspec/specs/           *)
(* event-replay-recovery, Idempotent safe recovery): between recoveries,   *)
(* an operation that has made its file has a recorded action.              *)
EffectIsRecorded ==
  \A op \in Ops : pc = "idle" /\ effects[op] > 0 => op \in DOMAIN actions
=============================================================================
