-------------------------- MODULE ArtifactLineage --------------------------
(***************************************************************************)
(* The artifact store's import operation (src/src/artifacts/lineage.rs)    *)
(* over one open SQLite connection (src/src/artifacts/store.rs), next to   *)
(* an author's editor that changes the Markdown files while an import is   *)
(* running, and a process that may crash at any step and reopen its store. *)
(*                                                                         *)
(* An import reads the file of a file-backed artifact three times: against *)
(* the last accepted version, against the content it was given, and once   *)
(* more inside the transaction.  Each read is an action of its own, so the *)
(* editor can act between any two of them.  The database is touched by     *)
(* this connection only: all reads of it between two file reads are part   *)
(* of one action, and a transaction is the action that commits it.         *)
(*                                                                         *)
(* Abstractions.  An actor and the source it imports from always travel    *)
(* together and are one Owner.  SHA-256 is injective: a hash is the value  *)
(* hashed, so a content stands for its hash, and a version id or a         *)
(* fingerprint is the tuple of its preimage.  A file is read in one piece. *)
(***************************************************************************)
EXTENDS Naturals, Sequences

CONSTANTS
  Ops,              \* operation identities supplied by callers
  Owners,           \* (actor, source) pairs
  Artifacts,        \* artifact identities
  Contents,         \* Markdown documents, standing for their hashes
  Paths,            \* normalized logical paths
  Inodes,           \* device:inode file identities
  SourceArtifact,   \* the artifact an import names when it names none: its source
  None              \* SQL NULL, Rust's Option::None

(* Codes and replies.  Error::Conflict and Error::Drift are also the two   *)
(* rejection codes an operations row can hold.                             *)
Conflict == "conflict"
Drift    == "drift"
Codes    == {Conflict, Drift}

VersionIds == Artifacts \X Contents \X Ops \X Owners

Maybe(S) == S \cup {None}

ASSUME SourceArtifactType == SourceArtifact \in [Owners -> Artifacts]

VARIABLES
  artifacts,        \* table artifacts: id -> owner
  versions,         \* table versions: the rows of an artifact in rowid order
  operations,       \* table operations: id -> row
  lineage,          \* table lineage: operation id -> row
  discrepancies,    \* table discrepancies: operation (UNIQUE) -> row
  files,            \* regular files on disk: path -> [ino, content]
  pc,               \* where the running import is
  req,              \* its request (struct Import)
  observed,         \* its second file observation
  objection,        \* why it is being refused
  reply,            \* what the last import returned
  edits             \* ghost: the windows of the running import in which its file was edited

database == <<artifacts, versions, operations, lineage, discrepancies>>
process  == <<pc, req, observed, objection>>
vars     == <<database, files, process, reply, edits>>

-----------------------------------------------------------------------------
(* Requests, rows and types.                                               *)

File == [ino : Inodes, content : Contents]

Request ==
  [op : Ops, owner : Owners, artifact : Artifacts, named : BOOLEAN,
   content : Contents, path : Maybe(Paths), ancestry : Maybe(VersionIds),
   expectedHash : Maybe(Contents), expectedIdentity : Maybe(Inodes)]

NativeFingerprints ==
  Owners \X Artifacts \X Contents \X Maybe(VersionIds) \X Maybe(Paths)
LegacyFingerprints == Owners \X Artifacts \X Contents \X Maybe(VersionIds)

VersionRow ==
  [id : VersionIds, operation : Ops, hash : Contents, owner : Owners,
   ancestry : Maybe(VersionIds), identity : Maybe(Inodes), path : Maybe(Paths)]

OperationRow ==
  [fingerprint : NativeFingerprints \cup LegacyFingerprints,
   result : {"accepted", "rejected"}, version : Maybe(VersionIds),
   lineage : Maybe(VersionIds), code : Maybe(Codes)]

LineageRow == [version : VersionIds, parent : Maybe(VersionIds)]

Reasons ==
  {"implicit artifact discovery is forbidden", "operation fingerprint conflict",
   "artifact owner/source conflict", "file binding conflict", "logical path conflict",
   "durable file identity drift", "lineage conflict", "invalid version ancestry",
   "expected hash mismatch", "file observation failed", "file content drift"}

(* Of a discrepancy only operation_result_id is read again.                *)
DiscrepancyRow == [resultId : Ops \cup VersionIds]

Reply == [op : Ops, outcome : {"accepted"} \cup Codes, version : Maybe(VersionIds)]

ASSUME NoneIsNoValue ==
  /\ None \notin Ops \cup Owners \cup Artifacts \cup Contents \cup Paths \cup Inodes
  /\ None \notin VersionIds
  /\ None \notin Request
  /\ None \notin File \cup [ino : {None}, content : Contents]
  /\ None \notin Reasons
  /\ None \notin Codes
  /\ None \notin Reply

(* A table is a function from the keys it has (a primary key or a unique   *)
(* column) to rows.                                                        *)
IsTable(t, K, Row) == DOMAIN t \subseteq K /\ t \in [DOMAIN t -> Row]

(* INSERT of a row whose key is free; INSERT OR IGNORE of any row; and the *)
(* faulty variant that replaces the row.                                   *)
Insert(table, key, row) ==
  [k \in DOMAIN table \cup {key} |-> IF k = key THEN row ELSE table[k]]
InsertOrReplace(table, key, row) == Insert(table, key, row)
InsertOrIgnore(table, key, row) ==
  IF key \in DOMAIN table THEN table ELSE Insert(table, key, row)

-----------------------------------------------------------------------------
(* What an import reads.                                                   *)

(* The version id: a hash over artifact, content, operation and owner.     *)
VersionId(r) == <<r.artifact, r.content, r.op, r.owner>>

(* Neither the expected hash nor the file identity is part of it.          *)
Fingerprint(r) == <<r.owner, r.artifact, r.content, r.ancestry, r.path>>

(* Operations migrated from schema 0 carry one without a logical path.     *)
LegacyFingerprint(r) == <<r.owner, r.artifact, r.content, r.ancestry>>

SameFingerprint(r) ==
  \/ operations[r.op].fingerprint = Fingerprint(r)
  \/ r.path = None /\ operations[r.op].fingerprint = LegacyFingerprint(r)

(* The newest row of artifact a, if it has any.                            *)
HasVersion(a) == versions[a] # <<>>
LatestRow(a)  == versions[a][Len(versions[a])]
Latest(a)     == IF HasVersion(a) THEN LatestRow(a).id ELSE None

(* The logical path of the oldest row of a that has one.                   *)
Bound(a) == {i \in DOMAIN versions[a] : versions[a][i].path # None}
BoundPath(a) ==
  IF Bound(a) = {} THEN None
  ELSE versions[a][CHOOSE i \in Bound(a) : \A j \in Bound(a) : i <= j].path

(* observe(): identity and content of the regular file at p, or None when  *)
(* there is none or it has not the expected identity.                      *)
Observe(p, expected) ==
  IF p \in DOMAIN files /\ expected \in {None, files[p].ino} THEN files[p] ELSE None

(* Faulty variant of the checks below, for the runs that must see it: the  *)
(* check was dropped.                                                      *)
Unchecked(r) == FALSE

ImplicitDiscovery(r) == r.path # None /\ ~r.named
OwnerConflict(r)     == r.artifact \in DOMAIN artifacts /\ artifacts[r.artifact] # r.owner
BindingConflict(r)   == r.path = None /\ BoundPath(r.artifact) # None
PathConflict(r)      == r.path # None /\ BoundPath(r.artifact) \notin {None, r.path}
LineageConflict(r)   == Latest(r.artifact) # r.ancestry

(* The file is not what the newest version of its artifact recorded.       *)
DurableDrift(r) ==
  LET durable == LatestRow(r.artifact) IN
  /\ r.path # None
  /\ HasVersion(r.artifact)
  /\ Observe(r.path, durable.identity) # [ino |-> durable.identity, content |-> durable.hash]

(* A parent must be a version of the same artifact and owner.              *)
InvalidParent(r) ==
  /\ r.ancestry # None
  /\ \A i \in DOMAIN versions[r.artifact] :
       ~(versions[r.artifact][i].id = r.ancestry /\ versions[r.artifact][i].owner = r.owner)

(* The first check of a new operation that fails, in the code's order.     *)
Objection(r) ==
  IF OwnerConflict(r) THEN "artifact owner/source conflict"
  ELSE IF BindingConflict(r) THEN "file binding conflict"
  ELSE IF PathConflict(r) THEN "logical path conflict"
  ELSE IF DurableDrift(r) THEN "durable file identity drift"
  ELSE IF LineageConflict(r) THEN "lineage conflict"
  ELSE IF InvalidParent(r) THEN "invalid version ancestry"
  ELSE IF r.expectedHash \notin {None, r.content} THEN "expected hash mismatch"
  ELSE None

CodeOf(reason) ==
  IF reason \in {"durable file identity drift", "expected hash mismatch",
                 "file observation failed", "file content drift"}
  THEN Drift ELSE Conflict

-----------------------------------------------------------------------------
(* The import.                                                             *)

(* Every outcome ends the call: its locals are gone.                       *)
Return(outcome, version) ==
  /\ pc' = "idle"
  /\ reply' = [op |-> req.op, outcome |-> outcome, version |-> version]
  /\ req' = None
  /\ observed' = None
  /\ objection' = None
  /\ edits' = {}

Refuse(reason) ==
  /\ pc' = "refusing"
  /\ objection' = reason
  /\ UNCHANGED <<database, files, req, observed, reply, edits>>

(* Import::new and the builder calls: Import::file captures the identity   *)
(* the file has now, before import is called.                              *)
Build(r) ==
  /\ pc = "idle"
  /\ pc' = "built"
  /\ req' = r
  /\ reply' = None
  /\ UNCHANGED <<database, files, observed, objection, edits>>

IdentityNow(p) == IF p \in DOMAIN files THEN files[p].ino ELSE None

(* The directory of the path is gone: Error::Conflict, and no record.      *)
UnresolvablePath ==
  /\ pc = "built"
  /\ req.path # None
  /\ req.path \notin DOMAIN files
  /\ Return(Conflict, None)
  /\ UNCHANGED <<database, files>>

RefuseImplicitDiscovery ==
  /\ pc = "built"
  /\ ImplicitDiscovery(req)
  /\ Refuse("implicit artifact discovery is forbidden")

(* Faulty variant of FirstVersion: the newest version of the artifact.     *)
NewestVersion(r) == Latest(r.artifact)

FirstVersion(r) == operations[r.op].version

(* A known operation keeps its first result, whatever happened since.      *)
ReturnKnown ==
  /\ pc = "built"
  /\ ~ImplicitDiscovery(req)
  /\ req.op \in DOMAIN operations
  /\ SameFingerprint(req)
  /\ IF operations[req.op].result = "accepted"
     THEN Return("accepted", FirstVersion(req))
     ELSE Return(operations[req.op].code, None)
  /\ UNCHANGED <<database, files>>

RefuseReusedOperation ==
  /\ pc = "built"
  /\ ~ImplicitDiscovery(req)
  /\ req.op \in DOMAIN operations
  /\ ~SameFingerprint(req)
  /\ Refuse("operation fingerprint conflict")

NewOperation ==
  /\ pc = "built"
  /\ ~ImplicitDiscovery(req)
  /\ req.op \notin DOMAIN operations

RefuseNew ==
  /\ NewOperation
  /\ Objection(req) # None
  /\ Refuse(Objection(req))

(* Without a file there is nothing to observe.                             *)
Admit ==
  /\ NewOperation
  /\ Objection(req) = None
  /\ pc' = IF req.path = None THEN "verified" ELSE "admitted"
  /\ UNCHANGED <<database, files, req, observed, objection, reply, edits>>

(* The second look at the file, expecting the identity the builder saw.    *)
RefuseObserved ==
  /\ pc = "admitted"
  /\ LET now == Observe(req.path, req.expectedIdentity) IN
     \/ now = None /\ Refuse("file observation failed")
     \/ now # None /\ now.content # req.content /\ Refuse("file content drift")

ObserveFile ==
  /\ pc = "admitted"
  /\ Observe(req.path, req.expectedIdentity) # None
  /\ Observe(req.path, req.expectedIdentity).content = req.content
  /\ observed' = Observe(req.path, req.expectedIdentity)
  /\ pc' = "staged"
  /\ UNCHANGED <<database, files, req, objection, reply, edits>>

(* Faulty variant of Reobserve: it does not look.                          *)
SkipReobserve ==
  /\ pc = "staged"
  /\ pc' = "verified"
  /\ UNCHANGED <<database, files, req, observed, objection, reply, edits>>

(* The last look, with the rows of the transaction already inserted.       *)
Reobserve ==
  /\ pc = "staged"
  /\ Observe(req.path, observed.ino) = observed
  /\ pc' = "verified"
  /\ UNCHANGED <<database, files, req, observed, objection, reply, edits>>

(* The early return drops the transaction: it rolls back, nothing is kept. *)
RollBack ==
  /\ pc = "staged"
  /\ Observe(req.path, observed.ino) # observed
  /\ Return(Drift, None)
  /\ UNCHANGED <<database, files>>

(* Faulty variant of NewVersion: the whole observation as the identity.    *)
NewVersionMixedUp(r) ==
  [id |-> VersionId(r), operation |-> r.op, hash |-> r.content, owner |-> r.owner,
   ancestry |-> r.ancestry, path |-> r.path, identity |-> observed]

(* The rows of an accepted version, committed together.                    *)
NewVersion(r) ==
  [id |-> VersionId(r), operation |-> r.op, hash |-> r.content, owner |-> r.owner,
   ancestry |-> r.ancestry, path |-> r.path,
   identity |-> IF observed = None THEN None ELSE observed.ino]

Commit ==
  /\ pc = "verified"
  /\ artifacts' = InsertOrIgnore(artifacts, req.artifact, req.owner)
  /\ versions' = [versions EXCEPT ![req.artifact] = Append(@, NewVersion(req))]
  /\ operations' = Insert(operations, req.op,
       [fingerprint |-> Fingerprint(req), result |-> "accepted", version |-> VersionId(req),
        lineage |-> req.ancestry, code |-> None])
  /\ lineage' = Insert(lineage, req.op,
       [version |-> VersionId(req), parent |-> req.ancestry])
  /\ Return("accepted", VersionId(req))
  /\ UNCHANGED <<discrepancies, files>>

(* reject(): an operation that was never decided is decided now; one that  *)
(* was keeps its row.  Each operation has room for one discrepancy.        *)
WasAccepted(op) == op \in DOMAIN operations /\ operations[op].result = "accepted"

RejectedRow(r) ==
  [fingerprint |-> Fingerprint(r), result |-> "rejected", version |-> None,
   lineage |-> None, code |-> CodeOf(objection)]

(* Faulty variant of DiscrepancyOf: it names the operation in every case.  *)
DiscrepancyOfOperation(r) == [resultId |-> r.op]

DiscrepancyOf(r) ==
  [resultId |-> IF WasAccepted(r.op) THEN operations[r.op].version ELSE r.op]

Reject ==
  /\ pc = "refusing"
  /\ operations' = IF WasAccepted(req.op) THEN operations
                   ELSE InsertOrIgnore(operations, req.op, RejectedRow(req))
  /\ discrepancies' = InsertOrIgnore(discrepancies, req.op, DiscrepancyOf(req))
  /\ Return(CodeOf(objection), None)
  /\ UNCHANGED <<artifacts, versions, lineage, files>>

-----------------------------------------------------------------------------
(* The process dies: SQLite rolls back what was not committed, and opening *)
(* the store again validates every row (schema.rs, validate_core).         *)

VersionOf(a, id) == \E i \in DOMAIN versions[a] : versions[a][i].id = id

VersionRowsValid ==
  \A a \in Artifacts : \A i \in DOMAIN versions[a] :
    LET v == versions[a][i] IN
    /\ a \in DOMAIN artifacts
    /\ artifacts[a] = v.owner
    /\ v.ancestry = None \/ \E j \in DOMAIN versions[a] :
                               versions[a][j].id = v.ancestry /\ versions[a][j].owner = v.owner
    /\ v.operation \in DOMAIN operations
    /\ operations[v.operation].result = "accepted"
    /\ operations[v.operation].version = v.id
    /\ operations[v.operation].lineage = v.ancestry
    /\ v.operation \in DOMAIN lineage

OperationRowsValid ==
  \A o \in DOMAIN operations :
    LET row == operations[o] IN
    \/ /\ row.result = "accepted"
       /\ row.code = None
       /\ \E a \in Artifacts : \E i \in DOMAIN versions[a] :
            versions[a][i].id = row.version /\ versions[a][i].operation = o
       /\ o \in DOMAIN lineage
       /\ lineage[o] = [version |-> row.version, parent |-> row.lineage]
       /\ o \in DOMAIN discrepancies => discrepancies[o].resultId = row.version
    \/ /\ row.result = "rejected"
       /\ row.version = None
       /\ row.lineage = None
       /\ row.code # None
       /\ o \in DOMAIN discrepancies
       /\ discrepancies[o].resultId = o

NoOrphanRows ==
  /\ DOMAIN lineage \subseteq {o \in DOMAIN operations : operations[o].result = "accepted"}
  /\ DOMAIN discrepancies \subseteq DOMAIN operations

ValidateCore == VersionRowsValid /\ OperationRowsValid /\ NoOrphanRows

Crash ==
  /\ pc \notin {"closed", "unusable"}
  /\ pc' = "closed"
  /\ req' = None
  /\ observed' = None
  /\ objection' = None
  /\ reply' = None
  /\ edits' = {}
  /\ UNCHANGED <<database, files>>

Reopen ==
  /\ pc = "closed"
  /\ pc' = IF ValidateCore THEN "idle" ELSE "unusable"
  /\ UNCHANGED <<database, files, req, observed, objection, reply, edits>>

-----------------------------------------------------------------------------
(* The editor, which knows nothing of the daemon.  Two windows of an       *)
(* import matter: between its first two observations and after its last.   *)
Windows == {"admitted", "verified"}

Edited(p) ==
  /\ edits' = IF pc \in Windows /\ req.path = p THEN edits \cup {pc} ELSE edits
  /\ UNCHANGED <<database, process, reply>>

WriteInPlace(p, c) ==
  /\ p \in DOMAIN files
  /\ files' = [files EXCEPT ![p].content = c]
  /\ Edited(p)

(* Create, or rename a new file over the old one; an inode that no path    *)
(* uses may be used again.                                                 *)
ReplaceFile(p, ino, c) ==
  /\ \A q \in DOMAIN files : files[q].ino # ino
  /\ files' = Insert(files, p, [ino |-> ino, content |-> c])
  /\ Edited(p)

RemoveFile(p) ==
  /\ p \in DOMAIN files
  /\ files' = [q \in DOMAIN files \ {p} |-> files[q]]
  /\ Edited(p)

-----------------------------------------------------------------------------
(* The specification.                                                      *)

EmptyTable == [k \in {} |-> None]

EmptyStore ==
  /\ artifacts = EmptyTable
  /\ versions = [a \in Artifacts |-> <<>>]
  /\ operations = EmptyTable
  /\ lineage = EmptyTable

(* What migrating a schema 0 store leaves of its only version (migrate):   *)
(* no path, no identity, and an operation with the legacy fingerprint.     *)
MigratedStore(a, c, o, w) ==
  LET id == <<a, c, o, w>> IN
  /\ artifacts = [k \in {a} |-> w]
  /\ versions = [b \in Artifacts |->
       IF b # a THEN <<>>
       ELSE <<[id |-> id, operation |-> o, hash |-> c, owner |-> w,
               ancestry |-> None, identity |-> None, path |-> None]>>]
  /\ operations = [k \in {o} |->
       [fingerprint |-> <<w, a, c, None>>, result |-> "accepted", version |-> id,
        lineage |-> None, code |-> None]]
  /\ lineage = [k \in {o} |-> [version |-> id, parent |-> None]]

Init ==
  /\ \/ EmptyStore
     \/ \E a \in Artifacts, c \in Contents, o \in Ops, w \in Owners :
          MigratedStore(a, c, o, w)
  /\ discrepancies = EmptyTable
  /\ files = EmptyTable
  /\ pc = "idle"
  /\ req = None
  /\ observed = None
  /\ objection = None
  /\ reply = None
  /\ edits = {}

Import ==
  \/ UnresolvablePath
  \/ RefuseImplicitDiscovery
  \/ ReturnKnown
  \/ RefuseReusedOperation
  \/ RefuseNew
  \/ Admit
  \/ RefuseObserved
  \/ ObserveFile
  \/ Reobserve
  \/ RollBack
  \/ Commit
  \/ Reject

Editor ==
  \E p \in Paths :
    \/ RemoveFile(p)
    \/ \E c \in Contents : WriteInPlace(p, c)
    \/ \E c \in Contents, ino \in Inodes : ReplaceFile(p, ino, c)

(* A caller knows the version ids the store has returned.  An import that  *)
(* names no artifact is of the one its source names, and without a file it *)
(* is the same import as one that names it.                                *)
KnownVersions ==
  UNION {{versions[a][i].id : i \in DOMAIN versions[a]} : a \in Artifacts}

Caller ==
  \E o \in Ops, w \in Owners, c \in Contents, p \in Maybe(Paths),
    parent \in Maybe(KnownVersions), h \in Maybe(Contents) :
    \E named \in IF p = None THEN {TRUE} ELSE BOOLEAN :
    \E a \in IF named THEN Artifacts ELSE {SourceArtifact[w]} :
      Build([op |-> o, owner |-> w, artifact |-> a, named |-> named, content |-> c,
             path |-> p, ancestry |-> parent, expectedHash |-> h,
             expectedIdentity |-> IdentityNow(p)])

Next == Caller \/ Import \/ Crash \/ Reopen \/ Editor

Spec == Init /\ [][Next]_vars

-----------------------------------------------------------------------------
(* Properties.                                                             *)

(* Every variable holds rows and values of its type, and the locals of an  *)
(* import exist exactly while it runs.                                     *)
TypeOK ==
  /\ IsTable(artifacts, Artifacts, Owners)
  /\ versions \in [Artifacts -> Seq(VersionRow)]
  /\ IsTable(operations, Ops, OperationRow)
  /\ IsTable(lineage, Ops, LineageRow)
  /\ IsTable(discrepancies, Ops, DiscrepancyRow)
  /\ IsTable(files, Paths, File)
  /\ pc \in {"idle", "built", "admitted", "staged", "verified", "refusing",
             "closed", "unusable"}
  /\ req \in Maybe(Request)
  /\ req = None <=> pc \in {"idle", "closed", "unusable"}
  /\ observed \in Maybe(File)
  /\ objection \in Maybe(Reasons)
  /\ objection # None <=> pc = "refusing"
  /\ reply \in Maybe(Reply)
  /\ edits \subseteq Windows

(* The accepted versions of an artifact are one line of descent: the first *)
(* has no parent and each later one names the version accepted just before *)
(* it, whatever parents callers propose and in whatever order (lineage     *)
(* conflict check of import).                                              *)
LinearHistory ==
  \A a \in Artifacts : \A i \in DOMAIN versions[a] :
    versions[a][i].ancestry = IF i = 1 THEN None ELSE versions[a][i - 1].id

(* No sequence of imports, refusals and crashes leaves rows that the next  *)
(* open of the store rejects as ambiguous: what import and reject write is *)
(* what validate_core accepts.                                             *)
StoreReopens == pc # "unusable"

(* An artifact is file-backed by one path for ever or never file-backed:   *)
(* no order of imports gives it a second path, binds it late or drops the  *)
(* binding.                                                                *)
OnePathPerArtifact ==
  \A a \in Artifacts : \A i, j \in DOMAIN versions[a] :
    versions[a][i].path = versions[a][j].path

KeepsRecords ==
  /\ \A a \in Artifacts : \A i \in DOMAIN versions[a] :
       i \in DOMAIN versions'[a] /\ versions'[a][i] = versions[a][i]
  /\ \A o \in DOMAIN operations :
       o \in DOMAIN operations' /\ operations'[o] = operations[o]
  /\ \A o \in DOMAIN discrepancies :
       o \in DOMAIN discrepancies' /\ discrepancies'[o] = discrepancies[o]

(* Decisions and history are append-only: no step of any import changes or *)
(* removes a version, a decided operation or a recorded discrepancy.       *)
AppendOnly == [][KeepsRecords]_vars

(* A version is appended to a in this step.                                *)
Appends(a) == Len(versions'[a]) > Len(versions[a])

(* The file holds what the newest row of a in table t says.                *)
OnDisk(a, t) ==
  LET new == t[a][Len(t[a])] IN
  new.path \in DOMAIN files /\ files[new.path] = [ino |-> new.identity, content |-> new.hash]

(* Accepted bytes are the file's bytes: when a file-backed version is      *)
(* committed, its file holds exactly the recorded inode and hash, unless   *)
(* the editor got in after the last observation of the transaction.        *)
CommitMatchesDisk ==
  [][\A a \in Artifacts :
       Appends(a) /\ req.path # None /\ "verified" \notin edits => OnDisk(a, versions')]_vars

(* The bytes of a file-backed artifact are frozen: a later version has the *)
(* hash and inode of the one before it unless the editor changed the file  *)
(* between the two observations of one import (durable identity check).    *)
FrozenUnlessRaced ==
  [][\A a \in Artifacts :
       Appends(a) /\ req.path # None /\ HasVersion(a) /\ "admitted" \notin edits =>
         LET new == versions'[a][Len(versions'[a])] IN
         new.hash = LatestRow(a).hash /\ new.identity = LatestRow(a).identity]_vars

(* The history an observer of the store may rely on (VersionHistory).      *)
Abstract == INSTANCE VersionHistory WITH
  Versions <- VersionIds,
  log <- [a \in Artifacts |-> [i \in DOMAIN versions[a] |->
           [version |-> versions[a][i].id, owner |-> versions[a][i].owner]]],
  decided <- [o \in DOMAIN operations |-> operations[o].version],
  answer <- IF reply = None THEN None ELSE [op |-> reply.op, version |-> reply.version]

(* The import implements it: decisions are final, each version is appended *)
(* by the operation that is accepted with it, only to a history its owner  *)
(* began, and a retry is answered with the version first accepted or is    *)
(* refused.                                                                *)
ImplementsVersionHistory == Abstract!Spec

-----------------------------------------------------------------------------
(* What the requirements say and the code does not do.                     *)

(* "MUST reject the operation as drift ... and MUST retain an actionable   *)
(* discrepancy" (openspec/specs/artifact-lineage/spec.md, External file    *)
(* drift): an import that returned drift has a discrepancy row.            *)
DriftIsRetained ==
  reply # None /\ reply.outcome = Drift => reply.op \in DOMAIN discrepancies

(* "it MUST compare the observed file identity and content hash with the   *)
(* expected lineage and MUST fail closed when external drift is detected"  *)
(* (same file, Fail-closed ownership and external-drift handling): a       *)
(* version of a file-backed artifact is only accepted from the inode that  *)
(* its parent was accepted from.                                           *)
DriftFailsClosed ==
  \A a \in Artifacts : \A i, j \in DOMAIN versions[a] :
    versions[a][i].path # None => versions[a][i].identity = versions[a][j].identity
=============================================================================
