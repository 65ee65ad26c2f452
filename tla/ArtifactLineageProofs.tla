----------------------- MODULE ArtifactLineageProofs -----------------------
(***************************************************************************)
(* What holds of the artifact store's import for any callers, artifacts,   *)
(* documents and files, and any number of imports, edits and crashes.      *)
(***************************************************************************)
EXTENDS ArtifactLineage, SequenceTheorems, TLAPS

-----------------------------------------------------------------------------
(* Tables.                                                                 *)

(* Inserting a row of the right type under a key of the right type leaves  *)
(* a table.                                                                *)
LEMMA InsertIsTable ==
  ASSUME NEW K, NEW Row, NEW t, IsTable(t, K, Row), NEW k \in K, NEW x \in Row
  PROVE  /\ IsTable(Insert(t, k, x), K, Row)
         /\ IsTable(InsertOrIgnore(t, k, x), K, Row)
  BY DEF IsTable, Insert, InsertOrIgnore

(* The inserted row is there and every other row is kept.                  *)
LEMMA InsertKeeps ==
  ASSUME NEW t, NEW k, NEW x
  PROVE  /\ DOMAIN Insert(t, k, x) = DOMAIN t \cup {k}
         /\ Insert(t, k, x)[k] = x
         /\ \A j \in DOMAIN t : j # k => Insert(t, k, x)[j] = t[j]
         /\ \A j \in DOMAIN t : InsertOrIgnore(t, k, x)[j] = t[j]
         /\ DOMAIN InsertOrIgnore(t, k, x) = DOMAIN t \cup {k}
  BY DEF Insert, InsertOrIgnore

-----------------------------------------------------------------------------
(* Types.  A decided operation has what its retries are answered with.     *)

DecisionsComplete ==
  \A o \in DOMAIN operations :
    IF operations[o].result = "accepted" THEN operations[o].version \in VersionIds
    ELSE operations[o].code \in Codes

TypeInv == TypeOK /\ DecisionsComplete

LEMMA TypeInit == Init => TypeInv
<1> SUFFICES ASSUME Init PROVE TypeInv
  OBVIOUS
<1> USE NoneIsNoValue DEF Init
<1>1. CASE EmptyStore
  BY <1>1 DEF EmptyStore, EmptyTable, TypeInv, TypeOK, DecisionsComplete, IsTable, Maybe, Windows
<1>2. ASSUME NEW a \in Artifacts, NEW c \in Contents, NEW o \in Ops, NEW w \in Owners,
             MigratedStore(a, c, o, w)
      PROVE  TypeInv
  <2> DEFINE id == <<a, c, o, w>>
  <2>1. id \in VersionIds
    BY DEF VersionIds
  <2>2. versions \in [Artifacts -> Seq(VersionRow)]
    <3> DEFINE row == [id |-> id, operation |-> o, hash |-> c, owner |-> w,
                       ancestry |-> None, identity |-> None, path |-> None]
    <3>1. row \in VersionRow
      BY <2>1 DEF VersionRow, Maybe
    <3>2. versions = [b \in Artifacts |-> IF b # a THEN <<>> ELSE <<row>>]
      BY <1>2 DEF MigratedStore
    <3> HIDE DEF row
    <3> QED
      BY <3>1, <3>2
  <2>3. IsTable(operations, Ops, OperationRow)
    BY <1>2, <2>1 DEF MigratedStore, OperationRow, LegacyFingerprints, Maybe, IsTable
  <2>4. IsTable(lineage, Ops, LineageRow)
    BY <1>2, <2>1 DEF MigratedStore, LineageRow, Maybe, IsTable
  <2>5. IsTable(artifacts, Artifacts, Owners)
    BY <1>2 DEF MigratedStore, IsTable
  <2>6. DecisionsComplete
    BY <1>2, <2>1 DEF MigratedStore, DecisionsComplete
  <2> QED
    BY <2>2, <2>3, <2>4, <2>5, <2>6
    DEF EmptyTable, TypeInv, TypeOK, IsTable, Maybe, Windows
<1> QED
  BY <1>1, <1>2

(* Returning from an import leaves its locals empty.                       *)
LEMMA ReturnType ==
  ASSUME TypeInv, req # None, NEW outcome \in {"accepted"} \cup Codes,
         NEW version \in Maybe(VersionIds), Return(outcome, version)
  PROVE  /\ pc' = "idle" /\ req' = None /\ observed' = None /\ objection' = None
         /\ reply' \in Maybe(Reply) /\ edits' \subseteq Windows
<1>1. req.op \in Ops
  BY DEF TypeInv, TypeOK, Maybe, Request
<1>2. reply' \in Reply
  BY <1>1 DEF Return, Reply
<1> QED
  BY <1>2 DEF Return, Maybe

LEMMA RequestType ==
  ASSUME TypeInv, pc \in {"built", "admitted", "staged", "verified", "refusing"}
  PROVE  req \in Request /\ req # None
  BY NoneIsNoValue DEF TypeInv, TypeOK, Maybe

LEMMA ObjectionType ==
  ASSUME NEW r PROVE Objection(r) \in Maybe(Reasons)
  BY DEF Objection, Maybe, Reasons

LEMMA CodeType ==
  ASSUME NEW reason PROVE CodeOf(reason) \in Codes
  BY DEF CodeOf, Codes, Drift, Conflict

LEMMA ObserveType ==
  ASSUME TypeInv, NEW p, NEW e PROVE Observe(p, e) \in Maybe(File)
  BY DEF TypeInv, TypeOK, IsTable, Observe, Maybe

LEMMA CallerType ==
  ASSUME TypeInv, Caller PROVE TypeInv'
<1>a. PICK o \in Ops, w \in Owners, c \in Contents, p \in Maybe(Paths),
           parent \in Maybe(KnownVersions), h \in Maybe(Contents) :
        \E named \in IF p = None THEN {TRUE} ELSE BOOLEAN :
          \E a \in IF named THEN Artifacts ELSE {SourceArtifact[w]} :
            Build([op |-> o, owner |-> w, artifact |-> a, named |-> named, content |-> c,
                   path |-> p, ancestry |-> parent, expectedHash |-> h,
                   expectedIdentity |-> IdentityNow(p)])
  BY Zenon DEF Caller
<1>b. PICK named \in IF p = None THEN {TRUE} ELSE BOOLEAN :
        \E a \in IF named THEN Artifacts ELSE {SourceArtifact[w]} :
          Build([op |-> o, owner |-> w, artifact |-> a, named |-> named, content |-> c,
                 path |-> p, ancestry |-> parent, expectedHash |-> h,
                 expectedIdentity |-> IdentityNow(p)])
  BY <1>a, Zenon
<1>c. PICK a \in IF named THEN Artifacts ELSE {SourceArtifact[w]} :
        Build([op |-> o, owner |-> w, artifact |-> a, named |-> named, content |-> c,
               path |-> p, ancestry |-> parent, expectedHash |-> h,
               expectedIdentity |-> IdentityNow(p)])
  BY <1>b, Zenon
<1>d. named \in BOOLEAN
  OBVIOUS
<1>e. a \in Artifacts
  <2>1. SourceArtifact[w] \in Artifacts
    BY SourceArtifactType
  <2> QED
    BY <2>1
<1>1. Build([op |-> o, owner |-> w, artifact |-> a, named |-> named, content |-> c,
             path |-> p, ancestry |-> parent, expectedHash |-> h,
             expectedIdentity |-> IdentityNow(p)])
  BY <1>c, Zenon
<1>2. KnownVersions \subseteq VersionIds
  <2>1. ASSUME NEW b \in Artifacts, NEW i \in DOMAIN versions[b]
        PROVE  versions[b][i].id \in VersionIds
    <3>1. versions[b] \in Seq(VersionRow)
      BY DEF TypeInv, TypeOK
    <3>2. versions[b][i] \in VersionRow
      BY <3>1
    <3> QED
      BY <3>2 DEF VersionRow
  <2> QED
    BY <2>1 DEF KnownVersions
<1>3. parent \in Maybe(VersionIds)
  BY <1>2 DEF Maybe
<1>4. IdentityNow(p) \in Maybe(Inodes)
  BY DEF IdentityNow, TypeInv, TypeOK, IsTable, File, Maybe
<1>5. req' \in Request
  BY <1>1, <1>3, <1>4, <1>d, <1>e DEF Build, Request
<1> QED
  BY <1>1, <1>5, NoneIsNoValue
  DEF Build, TypeInv, TypeOK, DecisionsComplete, Maybe, database

LEMMA RefuseType ==
  ASSUME TypeInv, pc \in {"built", "admitted"}, NEW reason \in Reasons, Refuse(reason)
  PROVE  TypeInv'
<1>1. req # None
  BY RequestType
<1> QED
  BY <1>1, NoneIsNoValue DEF Refuse, TypeInv, TypeOK, DecisionsComplete, Maybe, database

LEMMA ReturnOnlyType ==
  ASSUME TypeInv, req # None, NEW outcome \in {"accepted"} \cup Codes,
         NEW version \in Maybe(VersionIds), Return(outcome, version),
         UNCHANGED <<database, files>>
  PROVE  TypeInv'
<1>1. /\ pc' = "idle" /\ req' = None /\ observed' = None /\ objection' = None
      /\ reply' \in Maybe(Reply) /\ edits' \subseteq Windows
  BY ReturnType
<1> QED
  BY <1>1 DEF TypeInv, TypeOK, DecisionsComplete, Maybe, database

LEMMA CommitType ==
  ASSUME TypeInv, Commit PROVE TypeInv'
<1>1. req \in Request /\ req # None
  BY RequestType DEF Commit
<1>2. VersionId(req) \in VersionIds
  BY <1>1 DEF VersionId, VersionIds, Request
<1>3. NewVersion(req) \in VersionRow
  BY <1>1, <1>2, NoneIsNoValue
  DEF NewVersion, VersionRow, Request, TypeInv, TypeOK, Maybe, File
<1>4. versions' \in [Artifacts -> Seq(VersionRow)]
  <2>1. req.artifact \in Artifacts
    BY <1>1 DEF Request
  <2>2. Append(versions[req.artifact], NewVersion(req)) \in Seq(VersionRow)
    BY <1>3, <2>1 DEF TypeInv, TypeOK
  <2> QED
    BY <2>1, <2>2 DEF Commit, TypeInv, TypeOK
<1>5. IsTable(artifacts', Artifacts, Owners)
  BY <1>1, InsertIsTable DEF Commit, Request, TypeInv, TypeOK
<1>6. IsTable(operations', Ops, OperationRow)
  <2> DEFINE row == [fingerprint |-> Fingerprint(req), result |-> "accepted",
                     version |-> VersionId(req), lineage |-> req.ancestry, code |-> None]
  <2>1. Fingerprint(req) \in NativeFingerprints
    BY <1>1 DEF Fingerprint, NativeFingerprints, Request
  <2>2. row \in OperationRow
    BY <1>1, <1>2, <2>1 DEF OperationRow, Request, Maybe
  <2>3. operations' = Insert(operations, req.op, row)
    BY DEF Commit
  <2> HIDE DEF row
  <2> QED
    BY <1>1, <2>2, <2>3, InsertIsTable DEF Request, TypeInv, TypeOK
<1>7. IsTable(lineage', Ops, LineageRow)
  <2>1. [version |-> VersionId(req), parent |-> req.ancestry] \in LineageRow
    BY <1>1, <1>2 DEF LineageRow, Request
  <2> QED
    BY <1>1, <2>1, InsertIsTable DEF Commit, Request, TypeInv, TypeOK
<1>8. /\ pc' = "idle" /\ req' = None /\ observed' = None /\ objection' = None
      /\ reply' \in Maybe(Reply) /\ edits' \subseteq Windows
  <2>1. Return("accepted", VersionId(req))
    BY DEF Commit
  <2> QED
    BY <1>1, <1>2, <2>1, ReturnType DEF Maybe
<1>9. DecisionsComplete'
  BY <1>2 DEF Commit, Insert, TypeInv, DecisionsComplete
<1> QED
  BY <1>4, <1>5, <1>6, <1>7, <1>8, <1>9 DEF Commit, TypeInv, TypeOK, Maybe

LEMMA RejectType ==
  ASSUME TypeInv, Reject PROVE TypeInv'
<1>1. req \in Request /\ req # None
  BY RequestType DEF Reject
<1>2. RejectedRow(req) \in OperationRow
  <2>1. Fingerprint(req) \in NativeFingerprints
    BY <1>1 DEF Fingerprint, NativeFingerprints, Request
  <2> QED
    BY <2>1, CodeType DEF RejectedRow, OperationRow, Maybe
<1>3. DiscrepancyOf(req) \in DiscrepancyRow
  <2>1. WasAccepted(req.op) => operations[req.op].version \in VersionIds
    BY DEF WasAccepted, TypeInv, DecisionsComplete
  <2>2. req.op \in Ops
    BY <1>1 DEF Request
  <2> QED
    BY <2>1, <2>2 DEF DiscrepancyOf, DiscrepancyRow
<1>4. req.op \in Ops
  BY <1>1 DEF Request
<1>5. IsTable(operations', Ops, OperationRow)
  BY <1>2, <1>4, InsertIsTable DEF Reject, TypeInv, TypeOK
<1>6. IsTable(discrepancies', Ops, DiscrepancyRow)
  BY <1>3, <1>4, InsertIsTable DEF Reject, TypeInv, TypeOK
<1>7. /\ pc' = "idle" /\ req' = None /\ observed' = None /\ objection' = None
      /\ reply' \in Maybe(Reply) /\ edits' \subseteq Windows
  <2>1. Return(CodeOf(objection), None)
    BY DEF Reject
  <2> QED
    BY <1>1, <2>1, CodeType, ReturnType DEF Maybe
<1>8. DecisionsComplete'
  BY CodeType
  DEF Reject, Insert, InsertOrIgnore, RejectedRow, WasAccepted, TypeInv, DecisionsComplete
<1> QED
  BY <1>5, <1>6, <1>7, <1>8 DEF Reject, TypeInv, TypeOK, Maybe

LEMMA EditorType ==
  ASSUME TypeInv, Editor PROVE TypeInv'
<1>1. PICK p \in Paths : \/ RemoveFile(p)
                        \/ \E new \in Contents : WriteInPlace(p, new)
                        \/ \E other \in Contents, i \in Inodes : ReplaceFile(p, i, other)
  BY DEF Editor
<1>2. IsTable(files', Paths, File)
  <2>1. CASE RemoveFile(p)
    BY <2>1 DEF RemoveFile, IsTable, TypeInv, TypeOK
  <2>2. ASSUME NEW c \in Contents, WriteInPlace(p, c) PROVE IsTable(files', Paths, File)
    BY <2>2 DEF WriteInPlace, IsTable, TypeInv, TypeOK, File
  <2>3. ASSUME NEW c \in Contents, NEW ino \in Inodes, ReplaceFile(p, ino, c)
        PROVE  IsTable(files', Paths, File)
    <3>1. [ino |-> ino, content |-> c] \in File
      BY DEF File
    <3> QED
      BY <2>3, <3>1, InsertIsTable DEF ReplaceFile, TypeInv, TypeOK
  <2> QED
    BY <1>1, <2>1, <2>2, <2>3
<1>3. Edited(p)
  BY <1>1 DEF RemoveFile, WriteInPlace, ReplaceFile
<1> QED
  BY <1>2, <1>3
  DEF Edited, TypeInv, TypeOK, DecisionsComplete, Maybe, Windows, database, process

LEMMA ImportType ==
  ASSUME TypeInv, Import PROVE TypeInv'
<1>1. ASSUME pc = "built" PROVE req \in Request /\ req # None
  BY <1>1, RequestType
<1>2. CASE UnresolvablePath
  BY <1>1, <1>2, ReturnOnlyType DEF UnresolvablePath, Codes, Maybe
<1>3. CASE RefuseImplicitDiscovery
  BY <1>3, RefuseType DEF RefuseImplicitDiscovery, Reasons
<1>4. CASE ReturnKnown
  <2>1. req # None /\ req.op \in DOMAIN operations
    BY <1>1, <1>4 DEF ReturnKnown
  <2>2. CASE operations[req.op].result = "accepted"
    <3>1. Return("accepted", operations[req.op].version)
      BY <1>4, <2>2 DEF ReturnKnown, FirstVersion
    <3>2. operations[req.op].version \in Maybe(VersionIds)
      BY <2>1, <2>2 DEF TypeInv, DecisionsComplete, Maybe
    <3> QED
      BY <1>4, <2>1, <3>1, <3>2, ReturnOnlyType DEF ReturnKnown, FirstVersion
  <2>3. CASE operations[req.op].result # "accepted"
    <3>1. Return(operations[req.op].code, None)
      BY <1>4, <2>3 DEF ReturnKnown
    <3>2. operations[req.op].code \in Codes
      BY <2>1, <2>3 DEF TypeInv, DecisionsComplete
    <3> QED
      BY <1>4, <2>1, <3>1, <3>2, ReturnOnlyType DEF ReturnKnown, Maybe
  <2> QED
    BY <2>2, <2>3
<1>5. CASE RefuseReusedOperation
  BY <1>5, RefuseType DEF RefuseReusedOperation, Reasons
<1>6. CASE RefuseNew
  <2>1. Objection(req) \in Reasons
    BY <1>6, ObjectionType DEF RefuseNew, Maybe
  <2> QED
    BY <1>6, <2>1, RefuseType DEF RefuseNew, NewOperation
<1>7. CASE Admit
  <2>1. pc = "built" /\ req # None
    BY <1>1, <1>7 DEF Admit, NewOperation
  <2> QED
    BY <1>7, <2>1 DEF Admit, TypeInv, TypeOK, DecisionsComplete, Maybe, database
<1>8. CASE RefuseObserved
  BY <1>8, RefuseType DEF RefuseObserved, Reasons
<1>9. CASE ObserveFile
  <2>1. pc = "admitted" /\ req # None
    BY <1>9, RequestType DEF ObserveFile
  <2>2. observed' \in Maybe(File)
    BY <1>9, ObserveType DEF ObserveFile
  <2> QED
    BY <1>9, <2>1, <2>2 DEF ObserveFile, TypeInv, TypeOK, DecisionsComplete, Maybe, database
<1>10. CASE Reobserve
  <2>1. pc = "staged" /\ req # None
    BY <1>10, RequestType DEF Reobserve
  <2> QED
    BY <1>10, <2>1 DEF Reobserve, TypeInv, TypeOK, DecisionsComplete, Maybe, database
<1>11. CASE RollBack
  <2>1. pc = "staged" /\ req # None
    BY <1>11, RequestType DEF RollBack
  <2> QED
    BY <1>11, <2>1, ReturnOnlyType DEF RollBack, Codes, Maybe
<1>12. CASE Commit
  BY <1>12, CommitType
<1>13. CASE Reject
  BY <1>13, RejectType
<1> QED
  BY <1>2, <1>3, <1>4, <1>5, <1>6, <1>7, <1>8, <1>9, <1>10, <1>11, <1>12, <1>13 DEF Import

LEMMA TypeNext ==
  ASSUME TypeInv, [Next]_vars PROVE TypeInv'
<1>1. CASE Crash
  BY <1>1 DEF Crash, TypeInv, TypeOK, DecisionsComplete, Maybe, database
<1>2. CASE Reopen
  BY <1>2 DEF Reopen, TypeInv, TypeOK, DecisionsComplete, Maybe, database
<1>3. CASE UNCHANGED vars
  BY <1>3 DEF vars, process, database, TypeInv, TypeOK, DecisionsComplete
<1> QED
  BY <1>1, <1>2, <1>3, CallerType, ImportType, EditorType DEF Next

(* Whatever callers, editors and crashes do, every table holds rows of its *)
(* type and every decided operation can answer its retries.                *)
THEOREM TypesHold == Spec => []TypeInv
<1> QED
  BY TypeInit, TypeNext, PTL DEF Spec

(* TypeOK in particular.                                                   *)
THEOREM TypeCorrect == Spec => []TypeOK
<1>1. TypeInv => TypeOK
  BY DEF TypeInv
<1> QED
  BY <1>1, TypesHold, PTL
-----------------------------------------------------------------------------
(* The history of an artifact.  Between its checks and its commit an       *)
(* import reads files and nothing else, and no other step writes to the    *)
(* store: what was checked against the database still holds at the commit. *)

Running == {"admitted", "staged", "verified"}

StillAdmitted ==
  pc \in Running =>
    /\ req.op \notin DOMAIN operations
    /\ ~LineageConflict(req)
    /\ ~BindingConflict(req)
    /\ ~PathConflict(req)
    /\ req.path # None /\ HasVersion(req.artifact) => LatestRow(req.artifact).identity # None

(* An import with a path, and no other, commits what it observed.          *)
ObservedIfFile ==
  /\ pc \in {"admitted", "staged"} => req.path # None
  /\ pc = "staged" => observed # None
  /\ pc = "verified" => (req.path # None <=> observed # None)
  /\ observed # None => pc \in {"staged", "verified"}

(* The rows with a path are those with a file identity.                    *)
FileHasIdentity ==
  \A a \in Artifacts : \A i \in DOMAIN versions[a] :
    versions[a][i].path # None <=> versions[a][i].identity # None

HistoryInv ==
  /\ TypeInv
  /\ LinearHistory
  /\ OnePathPerArtifact
  /\ FileHasIdentity
  /\ ObservedIfFile
  /\ StillAdmitted

LEMMA HistoryInit == Init => HistoryInv
<1> SUFFICES ASSUME Init
             PROVE  LinearHistory /\ OnePathPerArtifact /\ FileHasIdentity
  BY TypeInit DEF HistoryInv, Init, Running, StillAdmitted, ObservedIfFile
<1>1. CASE EmptyStore
  BY <1>1 DEF EmptyStore, LinearHistory, OnePathPerArtifact, FileHasIdentity
<1>2. ASSUME NEW a \in Artifacts, NEW c \in Contents, NEW o \in Ops, NEW w \in Owners,
             MigratedStore(a, c, o, w)
      PROVE  LinearHistory /\ OnePathPerArtifact /\ FileHasIdentity
  BY <1>2 DEF MigratedStore, LinearHistory, OnePathPerArtifact, FileHasIdentity
<1> QED
  BY <1>1, <1>2 DEF Init

(* What a commit does to the rows of the artifacts.                        *)
LEMMA CommitAppends ==
  ASSUME TypeInv, Commit
  PROVE  /\ req \in Request /\ req.artifact \in Artifacts
         /\ versions[req.artifact] \in Seq(VersionRow)
         /\ versions'[req.artifact] = Append(versions[req.artifact], NewVersion(req))
         /\ \A b \in Artifacts : b # req.artifact => versions'[b] = versions[b]
<1>1. req \in Request /\ req.artifact \in Artifacts
  BY RequestType DEF Commit, Request
<1>2. versions \in [Artifacts -> Seq(VersionRow)]
  BY DEF TypeInv, TypeOK
<1>3. versions' = [versions EXCEPT ![req.artifact] =
                     Append(versions[req.artifact], NewVersion(req))]
  BY DEF Commit
<1> QED
  BY <1>1, <1>2, <1>3

(* Accepting the version that names the newest one keeps the line.         *)
LEMMA CommitKeepsLine ==
  ASSUME HistoryInv, Commit PROVE LinearHistory'
<1> DEFINE a == req.artifact
           s == versions[a]
           v == NewVersion(req)
<1>1. /\ a \in Artifacts /\ s \in Seq(VersionRow) /\ versions'[a] = Append(s, v)
      /\ \A b \in Artifacts : b # a => versions'[b] = versions[b]
  BY CommitAppends DEF HistoryInv
<1>2. Latest(a) = req.ancestry
  BY DEF Commit, HistoryInv, Running, StillAdmitted, LineageConflict
<1>3. v.ancestry = req.ancestry
  BY DEF NewVersion
<1> SUFFICES ASSUME NEW b \in Artifacts, NEW i \in DOMAIN versions'[b]
             PROVE  versions'[b][i].ancestry = IF i = 1 THEN None ELSE versions'[b][i - 1].id
  BY DEF LinearHistory
<1>4. CASE b # a
  BY <1>1, <1>4 DEF HistoryInv, LinearHistory
<1>5. CASE b = a
  <2>1. Len(s) \in Nat /\ DOMAIN s = 1 .. Len(s) /\ i \in 1 .. Len(s) + 1
    BY <1>1, <1>5
  <2>2. CASE i = Len(s) + 1
    <3>1. Append(s, v)[i] = v
      BY <1>1, <2>2
    <3>2. i # 1 => Append(s, v)[i - 1] = s[Len(s)]
      BY <1>1, <2>1, <2>2
    <3>3. IF i = 1 THEN req.ancestry = None ELSE req.ancestry = s[Len(s)].id
      BY <1>1, <1>2, <2>1, <2>2 DEF Latest, LatestRow, HasVersion
    <3> HIDE DEF v, s
    <3> QED
      BY <1>1, <1>3, <1>5, <3>1, <3>2, <3>3
  <2>3. CASE i # Len(s) + 1
    <3>1. i \in DOMAIN s
      BY <2>1, <2>3
    <3>2. Append(s, v)[i] = s[i] /\ (i # 1 => Append(s, v)[i - 1] = s[i - 1])
      BY <1>1, <2>1, <3>1
    <3>3. s[i].ancestry = IF i = 1 THEN None ELSE s[i - 1].id
      BY <1>1, <3>1 DEF HistoryInv, LinearHistory
    <3> HIDE DEF v, s
    <3> QED
      BY <1>1, <1>5, <3>2, <3>3
  <2> QED
    BY <2>2, <2>3
<1> QED
  BY <1>4, <1>5

(* When the rows of an artifact agree on the path, it is the bound path.   *)
LEMMA BoundPathOfRows ==
  ASSUME NEW a, versions[a] \in Seq(VersionRow), HasVersion(a),
         \A i, j \in DOMAIN versions[a] : versions[a][i].path = versions[a][j].path
  PROVE  \A i \in DOMAIN versions[a] : BoundPath(a) = versions[a][i].path
<1>1. 1 \in DOMAIN versions[a]
  BY DEF HasVersion
<1>2. CASE versions[a][1].path = None
  BY <1>1, <1>2 DEF BoundPath, Bound
<1>3. CASE versions[a][1].path # None
  <2>1. Bound(a) = DOMAIN versions[a] /\ DOMAIN versions[a] \subseteq Nat
    BY <1>1, <1>3 DEF Bound
  <2>2. \E i \in Bound(a) : \A j \in Bound(a) : i <= j
    BY <1>1, <2>1
  <2> DEFINE k == CHOOSE i \in Bound(a) : \A j \in Bound(a) : i <= j
  <2>3. k \in Bound(a)
    BY <2>2
  <2>4. BoundPath(a) = versions[a][k].path
    BY <1>1, <2>1 DEF BoundPath
  <2> HIDE DEF k
  <2> QED
    BY <2>1, <2>3, <2>4
<1> QED
  BY <1>2, <1>3

(* A commit appends a row with the path of the rows before it.             *)
LEMMA CommitKeepsPath ==
  ASSUME HistoryInv, Commit PROVE OnePathPerArtifact' /\ FileHasIdentity'
<1> DEFINE a == req.artifact
           s == versions[a]
           v == NewVersion(req)
<1>1. /\ a \in Artifacts /\ s \in Seq(VersionRow) /\ versions'[a] = Append(s, v)
      /\ \A b \in Artifacts : b # a => versions'[b] = versions[b]
  BY CommitAppends DEF HistoryInv
<1>2. Len(s) \in Nat /\ DOMAIN s = 1 .. Len(s) /\ DOMAIN Append(s, v) = 1 .. Len(s) + 1
  BY <1>1
<1>3. \A i \in DOMAIN Append(s, v) :
        \/ i \in DOMAIN s /\ Append(s, v)[i] = s[i]
        \/ i = Len(s) + 1 /\ Append(s, v)[i] = v
  BY <1>1, <1>2
<1>4. v.path = req.path
  BY DEF NewVersion
<1>5. v.path # None <=> v.identity # None
  <2>1. observed # None => observed.ino \in Inodes
    BY DEF HistoryInv, TypeInv, TypeOK, Maybe, File
  <2>2. req.path # None <=> observed # None
    BY DEF Commit, HistoryInv, ObservedIfFile
  <2> QED
    BY <2>1, <2>2, NoneIsNoValue DEF NewVersion
<1>6. \A i \in DOMAIN s : s[i].path = v.path
  <2> SUFFICES ASSUME NEW i \in DOMAIN s PROVE s[i].path = req.path
    BY <1>4
  <2>1. HasVersion(a)
    BY <1>1 DEF HasVersion
  <2>2. BoundPath(a) = s[i].path
    BY <1>1, <2>1, BoundPathOfRows DEF HistoryInv, OnePathPerArtifact
  <2>3. /\ ~BindingConflict(req) /\ ~PathConflict(req)
        /\ req.path # None => LatestRow(a).identity # None
    BY <2>1 DEF Commit, HistoryInv, Running, StillAdmitted
  <2>4. CASE req.path = None
    BY <2>2, <2>3, <2>4 DEF BindingConflict
  <2>5. CASE req.path # None
    <3>1. Len(s) \in DOMAIN s /\ LatestRow(a) = s[Len(s)]
      BY <1>1, <1>2, <2>1 DEF HasVersion, LatestRow
    <3>2. s[Len(s)].path # None
      BY <1>1, <2>3, <2>5, <3>1 DEF HistoryInv, FileHasIdentity
    <3>3. BoundPath(a) # None
      BY <1>1, <2>2, <3>1, <3>2 DEF HistoryInv, OnePathPerArtifact
    <3> QED
      BY <2>2, <2>3, <2>5, <3>3 DEF PathConflict
  <2> QED
    BY <2>4, <2>5
<1> HIDE DEF s, v
<1>7. ASSUME NEW b \in Artifacts, b # a
      PROVE  /\ \A i, j \in DOMAIN versions'[b] : versions'[b][i].path = versions'[b][j].path
             /\ \A i \in DOMAIN versions'[b] :
                  versions'[b][i].path # None <=> versions'[b][i].identity # None
  BY <1>1, <1>7 DEF HistoryInv, OnePathPerArtifact, FileHasIdentity
<1>8. \A i, j \in DOMAIN versions'[a] : versions'[a][i].path = versions'[a][j].path
  BY <1>1, <1>3, <1>6
<1>9. \A i \in DOMAIN versions'[a] :
        versions'[a][i].path # None <=> versions'[a][i].identity # None
  <2>1. \A i \in DOMAIN s : s[i].path # None <=> s[i].identity # None
    BY <1>1 DEF s, HistoryInv, FileHasIdentity
  <2> QED
    BY <1>1, <1>3, <1>5, <2>1
<1> HIDE DEF a
<1> QED
  BY <1>7, <1>8, <1>9 DEF OnePathPerArtifact, FileHasIdentity

(* Admission checks everything StillAdmitted keeps.                        *)
LEMMA AdmissionChecks ==
  ASSUME TypeInv, Admit PROVE StillAdmitted'
<1> DEFINE a == req.artifact
<1>1. UNCHANGED <<database, req>> /\ req \in Request
  BY RequestType DEF Admit, NewOperation
<1>2. Objection(req) = None /\ req.op \notin DOMAIN operations
  BY DEF Admit, NewOperation
<1>3. /\ ~LineageConflict(req) /\ ~BindingConflict(req)
      /\ ~PathConflict(req) /\ ~DurableDrift(req)
  BY <1>2, NoneIsNoValue DEF Objection, Reasons
<1>4. ASSUME req.path # None, HasVersion(a) PROVE LatestRow(a).identity # None
  <2>1. Observe(req.path, LatestRow(a).identity) =
          [ino |-> LatestRow(a).identity, content |-> LatestRow(a).hash]
    BY <1>3, <1>4 DEF DurableDrift
  <2>2. Observe(req.path, LatestRow(a).identity) \in Maybe(File)
    BY ObserveType
  <2>3. LatestRow(a) \in VersionRow
    <3>1. versions[a] \in Seq(VersionRow)
      BY <1>1 DEF TypeInv, TypeOK, Request
    <3> QED
      BY <1>4, <3>1 DEF HasVersion, LatestRow
  <2>4. [ino |-> LatestRow(a).identity, content |-> LatestRow(a).hash] # None
    BY <2>3, NoneIsNoValue DEF VersionRow, Maybe, File
  <2>5. CASE Observe(req.path, LatestRow(a).identity) = None
    BY <2>1, <2>4, <2>5
  <2>6. CASE Observe(req.path, LatestRow(a).identity) \in File
    BY <2>1, <2>6, NoneIsNoValue DEF File
  <2> QED
    BY <2>2, <2>5, <2>6 DEF Maybe
<1>5. UNCHANGED <<artifacts, versions, operations, req>>
  BY <1>1 DEF database
<1>6. ~LineageConflict(req)' /\ ~BindingConflict(req)' /\ ~PathConflict(req)'
  <2>1. LineageConflict(req)' <=> LineageConflict(req)
    BY <1>5 DEF LineageConflict, Latest, LatestRow, HasVersion
  <2>2. BindingConflict(req)' <=> BindingConflict(req)
    BY <1>5 DEF BindingConflict, BoundPath, Bound, HasVersion
  <2>3. PathConflict(req)' <=> PathConflict(req)
    BY <1>5 DEF PathConflict, BoundPath, Bound, HasVersion
  <2> QED
    BY <1>3, <2>1, <2>2, <2>3
<1>7. (req.path # None /\ HasVersion(a) => LatestRow(a).identity # None)'
  BY <1>4, <1>5 DEF LatestRow, HasVersion
<1> QED
  BY <1>2, <1>5, <1>6, <1>7 DEF StillAdmitted

(* No step of an import undoes what its admission checked.                 *)
LEMMA StillAdmittedKept ==
  ASSUME StillAdmitted, UNCHANGED <<versions, operations, req>>,
         pc' \in Running => pc \in Running
  PROVE  StillAdmitted'
<1>1. LineageConflict(req)' <=> LineageConflict(req)
  BY DEF LineageConflict, Latest, LatestRow, HasVersion
<1>2. BindingConflict(req)' <=> BindingConflict(req)
  BY DEF BindingConflict, BoundPath, Bound, HasVersion
<1>3. PathConflict(req)' <=> PathConflict(req)
  BY DEF PathConflict, BoundPath, Bound, HasVersion
<1>4. (HasVersion(req.artifact)' <=> HasVersion(req.artifact))
      /\ LatestRow(req.artifact)' = LatestRow(req.artifact)
  BY DEF HasVersion, LatestRow
<1> QED
  BY <1>1, <1>2, <1>3, <1>4 DEF StillAdmitted

LEMMA HistoryNext ==
  ASSUME HistoryInv, [Next]_vars PROVE HistoryInv'
<1> USE DEF HistoryInv
<1>1. TypeInv'
  BY TypeNext
<1>2. ASSUME UNCHANGED versions
      PROVE  LinearHistory' /\ OnePathPerArtifact' /\ FileHasIdentity'
  BY <1>2 DEF LinearHistory, OnePathPerArtifact, FileHasIdentity
<1>3. ASSUME pc' \notin Running, observed' = None PROVE ObservedIfFile' /\ StillAdmitted'
  BY <1>3 DEF ObservedIfFile, StillAdmitted, Running
<1>4. CASE Caller
  <2>1. UNCHANGED <<versions, observed>> /\ pc = "idle" /\ pc' = "built"
    BY <1>4 DEF Caller, Build, database
  <2>2. observed' = None
    BY <2>1 DEF ObservedIfFile
  <2> QED
    BY <1>1, <1>2, <1>3, <2>1, <2>2 DEF Running
<1>5. CASE Crash
  BY <1>1, <1>2, <1>3, <1>5 DEF Crash, database, Running
<1>6. CASE Reopen
  <2>1. UNCHANGED <<versions, observed>> /\ pc = "closed" /\ pc' \in {"idle", "unusable"}
    BY <1>6 DEF Reopen, database
  <2>2. observed' = None
    BY <2>1 DEF ObservedIfFile
  <2> QED
    BY <1>1, <1>2, <1>3, <2>1, <2>2 DEF Running
<1>7. CASE Editor \/ UNCHANGED vars
  <2>1. UNCHANGED <<versions, operations, req, observed, pc>>
    BY <1>7 DEF Editor, RemoveFile, WriteInPlace, ReplaceFile, Edited, vars, database, process
  <2>2. ObservedIfFile'
    BY <2>1 DEF ObservedIfFile
  <2> QED
    BY <1>1, <1>2, <2>1, <2>2, StillAdmittedKept
<1>8. CASE Commit
  BY <1>1, <1>3, <1>8, CommitKeepsLine, CommitKeepsPath DEF Commit, Return, Running
<1>9. CASE Reject
  BY <1>1, <1>2, <1>3, <1>9 DEF Reject, Return, Running
<1>10. CASE Admit
  <2>1. UNCHANGED <<versions, req, observed>> /\ pc = "built"
    BY <1>10 DEF Admit, NewOperation, database
  <2>2. ObservedIfFile'
    BY <1>10, <2>1 DEF Admit, ObservedIfFile
  <2> QED
    BY <1>1, <1>2, <1>10, <2>1, <2>2, AdmissionChecks
<1>11. CASE ObserveFile \/ Reobserve
  <2>1. UNCHANGED <<versions, operations, req>> /\ pc \in Running
    BY <1>11 DEF ObserveFile, Reobserve, database, Running
  <2>2. ObservedIfFile'
    BY <1>11 DEF ObserveFile, Reobserve, ObservedIfFile
  <2> QED
    BY <1>1, <1>2, <2>1, <2>2, StillAdmittedKept
<1>12. CASE RefuseImplicitDiscovery \/ RefuseReusedOperation \/ RefuseNew \/ RefuseObserved
  <2>1. UNCHANGED <<versions, observed>> /\ pc \in {"built", "admitted"} /\ pc' = "refusing"
    BY <1>12 DEF RefuseImplicitDiscovery, RefuseReusedOperation, RefuseNew, RefuseObserved,
                 NewOperation, Refuse, database
  <2>2. observed' = None
    BY <2>1 DEF ObservedIfFile
  <2> QED
    BY <1>1, <1>2, <1>3, <2>1, <2>2 DEF Running
<1>13. CASE UnresolvablePath \/ ReturnKnown \/ RollBack
  <2>1. UNCHANGED versions /\ pc' = "idle" /\ observed' = None
    BY <1>13 DEF UnresolvablePath, ReturnKnown, RollBack, Return, database
  <2> QED
    BY <1>1, <1>2, <1>3, <2>1 DEF Running
<1> QED
  BY <1>4, <1>5, <1>6, <1>7, <1>8, <1>9, <1>10, <1>11, <1>12, <1>13 DEF Next, Import

(* The invariant of the history, of which the theorems below are parts.    *)
THEOREM HistoryHolds == Spec => []HistoryInv
<1> QED
  BY HistoryInit, HistoryNext, PTL DEF Spec

(* The accepted versions of every artifact form one line of descent.       *)
THEOREM HistoryIsLinear == Spec => []LinearHistory
<1>1. HistoryInv => LinearHistory
  BY DEF HistoryInv
<1> QED
  BY <1>1, HistoryHolds, PTL

(* All versions of an artifact have the same logical path, or none has.    *)
THEOREM PathIsFixed == Spec => []OnePathPerArtifact
<1>1. HistoryInv => OnePathPerArtifact
  BY DEF HistoryInv
<1> QED
  BY <1>1, HistoryHolds, PTL

-----------------------------------------------------------------------------
(* Records are final.                                                      *)

(* The tables are written by the two outcomes of an import, and by nothing *)
(* else.                                                                   *)
LEMMA ImportKeepsDatabase ==
  ASSUME Import, ~Commit, ~Reject PROVE UNCHANGED database
<1>1. CASE UnresolvablePath \/ ReturnKnown \/ RollBack
  BY <1>1 DEF UnresolvablePath, ReturnKnown, RollBack
<1>2. CASE RefuseImplicitDiscovery \/ RefuseReusedOperation
  BY <1>2 DEF RefuseImplicitDiscovery, RefuseReusedOperation, Refuse
<1>3. CASE RefuseNew \/ RefuseObserved
  BY <1>3 DEF RefuseNew, RefuseObserved, Refuse
<1>4. CASE Admit
  BY <1>4 DEF Admit
<1>5. CASE ObserveFile \/ Reobserve
  BY <1>5 DEF ObserveFile, Reobserve
<1> QED
  BY <1>1, <1>2, <1>3, <1>4, <1>5 DEF Import

LEMMA CallerKeepsDatabase ==
  ASSUME Caller PROVE UNCHANGED database
<1>1. ASSUME NEW r, Build(r) PROVE UNCHANGED database
  BY <1>1 DEF Build
<1> QED
  BY <1>1 DEF Caller

LEMMA EditorKeepsDatabase ==
  ASSUME Editor PROVE UNCHANGED database
<1>1. ASSUME NEW p, Edited(p) PROVE UNCHANGED database
  BY <1>1 DEF Edited
<1> QED
  BY <1>1 DEF Editor, RemoveFile, WriteInPlace, ReplaceFile

LEMMA DatabaseNext ==
  ASSUME [Next]_vars PROVE Commit \/ Reject \/ UNCHANGED database
<1>1. ASSUME Crash \/ Reopen \/ UNCHANGED vars PROVE UNCHANGED database
  BY <1>1 DEF Crash, Reopen, vars
<1> QED
  BY <1>1, ImportKeepsDatabase, CallerKeepsDatabase, EditorKeepsDatabase DEF Next

LEMMA CommitKeepsRecords ==
  ASSUME HistoryInv, Commit PROVE KeepsRecords
<1>1. TypeInv
  BY DEF HistoryInv
<1>2. req.op \notin DOMAIN operations
  BY DEF Commit, HistoryInv, StillAdmitted, Running
<1>3. ASSUME NEW o \in DOMAIN operations
      PROVE  o \in DOMAIN operations' /\ operations'[o] = operations[o]
  BY <1>2, <1>3 DEF Commit, Insert
<1>4. ASSUME NEW a \in Artifacts, NEW i \in DOMAIN versions[a]
      PROVE  i \in DOMAIN versions'[a] /\ versions'[a][i] = versions[a][i]
  <2>1. CASE a # req.artifact
    BY <1>1, <1>4, <2>1, CommitAppends
  <2>2. CASE a = req.artifact
    <3> DEFINE v == NewVersion(req)
    <3>1. versions[a] \in Seq(VersionRow) /\ versions'[a] = Append(versions[a], v)
      BY <1>1, <2>2, CommitAppends
    <3> HIDE DEF v
    <3> QED
      BY <1>4, <3>1
  <2> QED
    BY <2>1, <2>2
<1>5. UNCHANGED discrepancies
  BY DEF Commit
<1> QED
  BY <1>3, <1>4, <1>5 DEF KeepsRecords

LEMMA RecordsNext ==
  ASSUME HistoryInv, [Next]_vars PROVE [KeepsRecords]_vars
<1>1. ASSUME UNCHANGED <<versions, operations, discrepancies>> PROVE KeepsRecords
  BY <1>1 DEF KeepsRecords
<1>2. CASE Commit
  BY <1>2, CommitKeepsRecords
<1>3. CASE Reject
  <2>1. UNCHANGED versions
    BY <1>3 DEF Reject
  <2>2. \A o \in DOMAIN operations :
          o \in DOMAIN operations' /\ operations'[o] = operations[o]
    BY <1>3 DEF Reject, Insert, InsertOrIgnore
  <2>3. \A o \in DOMAIN discrepancies :
          o \in DOMAIN discrepancies' /\ discrepancies'[o] = discrepancies[o]
    BY <1>3 DEF Reject, Insert, InsertOrIgnore
  <2> QED
    BY <2>1, <2>2, <2>3 DEF KeepsRecords
<1>4. CASE UNCHANGED database
  BY <1>1, <1>4 DEF database
<1> QED
  BY <1>2, <1>3, <1>4, DatabaseNext

(* No import, edit or crash changes or removes a recorded version,         *)
(* decision or discrepancy.                                                *)
THEOREM RecordsAreFinal == Spec => AppendOnly
<1>1. HistoryInv /\ [Next]_vars => [KeepsRecords]_vars
  BY RecordsNext
<1> QED
  BY <1>1, HistoryHolds, PTL DEF Spec, AppendOnly

-----------------------------------------------------------------------------
(* The file.  While the editor stays out of a window, what an import has   *)
(* seen of its file in it is what the file still holds.                    *)

(* What the newest row says of the file.                                   *)
Recorded(a) == [ino |-> LatestRow(a).identity, content |-> LatestRow(a).hash]

FileInv ==
  /\ pc \notin Running \cup {"refusing"} => edits = {}
  /\ req # None /\ req.path # None =>
       /\ pc \in {"staged", "verified"} => observed.content = req.content
       /\ pc = "verified" /\ "verified" \notin edits =>
            req.path \in DOMAIN files /\ files[req.path] = observed
       /\ HasVersion(req.artifact) /\ "admitted" \notin edits =>
            /\ pc = "admitted" =>
                 /\ req.path \in DOMAIN files
                 /\ files[req.path] = Recorded(req.artifact)
            /\ pc \in {"staged", "verified"} => observed = Recorded(req.artifact)

LEMMA FileInit == Init => FileInv
  BY DEF Init, FileInv

(* Admission compares the file with the newest row.                        *)
LEMMA AdmitsRecorded ==
  ASSUME TypeInv, pc = "built", ~DurableDrift(req), req.path # None, HasVersion(req.artifact)
  PROVE  req.path \in DOMAIN files /\ files[req.path] = Recorded(req.artifact)
<1> DEFINE a == req.artifact
           seen == Observe(req.path, LatestRow(a).identity)
<1>1. seen = Recorded(a)
  BY DEF DurableDrift, Recorded
<1>2. Recorded(a) # None
  <2>1. req \in Request
    BY RequestType
  <2>2. LatestRow(a) \in VersionRow
    <3>1. versions[a] \in Seq(VersionRow)
      BY <2>1 DEF TypeInv, TypeOK, Request
    <3> QED
      BY <3>1 DEF HasVersion, LatestRow
  <2> QED
    BY <2>2, NoneIsNoValue DEF VersionRow, Maybe, File, Recorded
<1> QED
  BY <1>1, <1>2 DEF Observe

(* The editor's steps are noticed in the window they fall in.              *)
LEMMA EditorFile ==
  ASSUME HistoryInv, FileInv, Editor PROVE FileInv'
<1>1. PICK p \in Paths : \/ RemoveFile(p)
                        \/ \E new \in Contents : WriteInPlace(p, new)
                        \/ \E other \in Contents, i \in Inodes : ReplaceFile(p, i, other)
  BY DEF Editor
<1>2. Edited(p)
  BY <1>1 DEF RemoveFile, WriteInPlace, ReplaceFile
<1>3. ASSUME NEW q, q # p, q \in DOMAIN files
      PROVE  q \in DOMAIN files' /\ files'[q] = files[q]
  <2>1. CASE RemoveFile(p)
    BY <1>3, <2>1 DEF RemoveFile
  <2>2. CASE \E new \in Contents : WriteInPlace(p, new)
    BY <1>3, <2>2 DEF WriteInPlace
  <2>3. CASE \E other \in Contents, i \in Inodes : ReplaceFile(p, i, other)
    BY <1>3, <2>3 DEF ReplaceFile, Insert
  <2> QED
    BY <1>1, <2>1, <2>2, <2>3
<1>4. UNCHANGED <<versions, req, observed, pc>>
  BY <1>2 DEF Edited, database, process
<1>5. /\ HasVersion(req.artifact)' = HasVersion(req.artifact)
      /\ Recorded(req.artifact)' = Recorded(req.artifact)
  BY <1>4 DEF HasVersion, Recorded, LatestRow
<1>6. edits' = IF pc \in Windows /\ req.path = p THEN edits \cup {pc} ELSE edits
  BY <1>2 DEF Edited
<1>7. (pc \notin Running \cup {"refusing"} => edits = {})'
  BY <1>4, <1>6 DEF FileInv, Windows, Running
<1> SUFFICES ASSUME req # None, req.path # None
             PROVE  /\ pc \in {"staged", "verified"} => observed.content = req.content
                    /\ pc = "verified" /\ "verified" \notin edits' =>
                         req.path \in DOMAIN files' /\ files'[req.path] = observed
                    /\ HasVersion(req.artifact) /\ "admitted" \notin edits' =>
                         /\ pc = "admitted" =>
                              /\ req.path \in DOMAIN files'
                              /\ files'[req.path] = Recorded(req.artifact)
                         /\ pc \in {"staged", "verified"} =>
                              observed = Recorded(req.artifact)
  BY <1>4, <1>5, <1>7 DEF FileInv
<1>8. CASE req.path # p
  BY <1>3, <1>6, <1>8 DEF FileInv
<1>9. CASE req.path = p
  BY <1>6, <1>9 DEF FileInv, Windows
<1> QED
  BY <1>8, <1>9

LEMMA FileNext ==
  ASSUME HistoryInv, FileInv, [Next]_vars PROVE FileInv'
<1>1. TypeInv /\ ObservedIfFile
  BY DEF HistoryInv
<1>2. ASSUME req' = None \/ pc' \in {"built", "refusing"},
             pc' \notin Running \cup {"refusing"} => edits' = {}
      PROVE  FileInv'
  BY <1>2 DEF FileInv
<1>3. ASSUME UNCHANGED versions
      PROVE  \A a : HasVersion(a)' = HasVersion(a) /\ Recorded(a)' = Recorded(a)
  BY <1>3 DEF HasVersion, Recorded, LatestRow
<1>4. CASE Caller
  <2>1. pc = "idle" /\ pc' = "built" /\ edits' = edits
    BY <1>4 DEF Caller, Build
  <2> QED
    BY <1>2, <2>1 DEF FileInv, Running
<1>5. CASE Crash
  BY <1>2, <1>5 DEF Crash
<1>6. CASE Reopen
  <2>1. req = None /\ edits = {}
    BY <1>1, <1>6 DEF Reopen, TypeInv, TypeOK, FileInv, Running
  <2> QED
    BY <1>2, <1>6, <2>1 DEF Reopen
<1>7. CASE UnresolvablePath \/ ReturnKnown \/ RollBack \/ Commit \/ Reject
  <2>1. req' = None /\ edits' = {}
    BY <1>7 DEF UnresolvablePath, ReturnKnown, RollBack, Commit, Reject, Return
  <2> QED
    BY <1>2, <2>1
<1>8. CASE RefuseImplicitDiscovery \/ RefuseReusedOperation \/ RefuseNew \/ RefuseObserved
  <2>1. pc' = "refusing"
    BY <1>8 DEF RefuseImplicitDiscovery, RefuseReusedOperation, RefuseNew, RefuseObserved, Refuse
  <2> QED
    BY <1>2, <2>1
<1>9. CASE Admit
  <2>1. /\ pc = "built" /\ UNCHANGED <<versions, files, req>> /\ edits' = {}
        /\ pc' = IF req.path = None THEN "verified" ELSE "admitted"
    BY <1>9 DEF Admit, NewOperation, database, FileInv, Running
  <2>2. ~DurableDrift(req)
    BY <1>9, NoneIsNoValue DEF Admit, Objection, Reasons
  <2> SUFFICES ASSUME req.path # None, HasVersion(req.artifact)
               PROVE  /\ req.path \in DOMAIN files
                      /\ files[req.path] = Recorded(req.artifact)
    BY <1>3, <2>1 DEF FileInv, Running
  <2> QED
    BY <1>1, <2>1, <2>2, AdmitsRecorded
<1>10. CASE ObserveFile
  <2>1. /\ pc = "admitted" /\ pc' = "staged" /\ UNCHANGED <<versions, files, req, edits>>
        /\ observed' # None /\ observed' = Observe(req.path, req.expectedIdentity)
        /\ observed'.content = req.content
    BY <1>10 DEF ObserveFile, database
  <2>2. req.path \in DOMAIN files /\ observed' = files[req.path]
    BY <2>1 DEF Observe
  <2> QED
    BY <1>3, <2>1, <2>2 DEF FileInv, Running
<1>11. CASE Reobserve
  <2>1. /\ pc = "staged" /\ pc' = "verified"
        /\ UNCHANGED <<versions, files, req, observed, edits>>
        /\ Observe(req.path, observed.ino) = observed /\ observed # None
    BY <1>1, <1>11 DEF Reobserve, database, ObservedIfFile
  <2>2. req.path \in DOMAIN files /\ observed = files[req.path]
    BY <2>1 DEF Observe
  <2> QED
    BY <1>3, <2>1, <2>2 DEF FileInv, Running
<1>12. CASE UNCHANGED vars
  <2>1. UNCHANGED <<versions, files, req, observed, edits, pc>>
    BY <1>12 DEF vars, database, process
  <2> QED
    BY <1>3, <2>1 DEF FileInv
<1> QED
  BY <1>4, <1>5, <1>6, <1>7, <1>8, <1>9, <1>10, <1>11, <1>12, EditorFile DEF Next, Import

(* What an import has seen of its file is what the file and the newest row *)
(* say, up to the windows in which the editor was there.                   *)
THEOREM FileHolds == Spec => []FileInv
<1>1. Init => HistoryInv /\ FileInv
  BY HistoryInit, FileInit
<1>2. HistoryInv /\ FileInv /\ [Next]_vars => HistoryInv' /\ FileInv'
  BY HistoryNext, FileNext
<1> QED
  BY <1>1, <1>2, PTL DEF Spec

(* A step that appends a version is a commit of the artifact's import.     *)
LEMMA AppendsAtCommit ==
  ASSUME HistoryInv, [Next]_vars, NEW a \in Artifacts, Appends(a)
  PROVE  Commit /\ a = req.artifact
<1>1. versions'[a] # versions[a]
  BY DEF Appends, HistoryInv, TypeInv, TypeOK
<1>2. CASE Reject
  BY <1>1, <1>2 DEF Reject
<1>3. CASE UNCHANGED database
  BY <1>1, <1>3 DEF database
<1>4. Commit
  BY <1>2, <1>3, DatabaseNext
<1> QED
  BY <1>1, <1>4, CommitAppends DEF HistoryInv

(* The row a commit appends.                                               *)
LEMMA CommitRow ==
  ASSUME HistoryInv, FileInv, Commit, req.path # None
  PROVE  LET a == req.artifact
             new == versions'[a][Len(versions'[a])]
         IN  /\ new.path = req.path
             /\ new.identity = observed.ino /\ new.hash = observed.content
             /\ observed = [ino |-> observed.ino, content |-> observed.content]
<1> DEFINE a == req.artifact
           v == NewVersion(req)
<1>1. versions[a] \in Seq(VersionRow) /\ versions'[a] = Append(versions[a], v)
  BY CommitAppends DEF HistoryInv
<1>2. pc = "verified" /\ req # None /\ observed # None
  BY RequestType DEF Commit, HistoryInv, ObservedIfFile
<1>3. /\ v.path = req.path /\ v.identity = observed.ino
      /\ v.hash = observed.content
  BY <1>2 DEF NewVersion, FileInv
<1>4. observed \in File
  BY <1>2 DEF HistoryInv, TypeInv, TypeOK, Maybe
<1>5. observed = [ino |-> observed.ino, content |-> observed.content]
  BY <1>4 DEF File
<1> HIDE DEF v, a
<1>6. versions'[a][Len(versions'[a])] = v
  BY <1>1
<1> QED
  BY <1>3, <1>5, <1>6 DEF a

(* An accepted file-backed version has the inode and the bytes its file    *)
(* has at the commit, unless the editor came after the last observation.   *)
THEOREM AcceptsTheFile == Spec => CommitMatchesDisk
<1> DEFINE Step == \A a \in Artifacts :
             Appends(a) /\ req.path # None /\ "verified" \notin edits => OnDisk(a, versions')
<1>1. ASSUME HistoryInv, FileInv, [Next]_vars PROVE Step
  <2> SUFFICES ASSUME NEW a \in Artifacts, Appends(a), req.path # None,
                      "verified" \notin edits
               PROVE  OnDisk(a, versions')
    OBVIOUS
  <2>1. Commit /\ a = req.artifact
    BY <1>1, AppendsAtCommit
  <2>2. req.path \in DOMAIN files /\ files[req.path] = observed
    BY <1>1, <2>1, RequestType DEF Commit, FileInv, HistoryInv
  <2> QED
    BY <1>1, <2>1, <2>2, CommitRow DEF OnDisk
<1>2. HistoryInv /\ FileInv /\ [Next]_vars => [Step]_vars
  BY <1>1
<1> QED
  BY <1>2, HistoryHolds, FileHolds, PTL DEF Spec, CommitMatchesDisk

(* A later version of a file-backed artifact has the inode and the bytes   *)
(* of the version before it, unless the editor came between the first two  *)
(* observations of its import.                                             *)
THEOREM BytesAreFrozen == Spec => FrozenUnlessRaced
<1> DEFINE Step == \A a \in Artifacts :
             Appends(a) /\ req.path # None /\ HasVersion(a) /\ "admitted" \notin edits =>
               LET new == versions'[a][Len(versions'[a])] IN
               new.hash = LatestRow(a).hash /\ new.identity = LatestRow(a).identity
<1>1. ASSUME HistoryInv, FileInv, [Next]_vars PROVE Step
  <2> SUFFICES ASSUME NEW a \in Artifacts, Appends(a), req.path # None, HasVersion(a),
                      "admitted" \notin edits
               PROVE  LET new == versions'[a][Len(versions'[a])] IN
                      new.hash = LatestRow(a).hash /\ new.identity = LatestRow(a).identity
    OBVIOUS
  <2>1. Commit /\ a = req.artifact
    BY <1>1, AppendsAtCommit
  <2>2. observed = Recorded(a)
    BY <1>1, <2>1, RequestType DEF Commit, FileInv, HistoryInv
  <2>3. observed.ino = LatestRow(a).identity /\ observed.content = LatestRow(a).hash
    BY <2>2 DEF Recorded
  <2> QED
    BY <1>1, <2>1, <2>3, CommitRow
<1>2. HistoryInv /\ FileInv /\ [Next]_vars => [Step]_vars
  BY <1>1
<1> QED
  BY <1>2, HistoryHolds, FileHolds, PTL DEF Spec, FrozenUnlessRaced

-----------------------------------------------------------------------------
(* The rows.  The checks of an import are what validate_core asks of the   *)
(* rows it will commit, and they still hold when it commits them.          *)

RowsInv ==
  /\ ValidateCore
  /\ pc # "unusable"
  /\ pc \in Running => ~OwnerConflict(req) /\ ~InvalidParent(req)
  /\ \A a \in Artifacts : \A i \in DOMAIN versions[a] :
       versions[a][i].id[3] = versions[a][i].operation

(* The two kinds of operation rows it accepts.                             *)
AcceptedRow(o) ==
  LET row == operations[o] IN
  /\ row.result = "accepted"
  /\ row.code = None
  /\ \E a \in Artifacts : \E i \in DOMAIN versions[a] :
       versions[a][i].id = row.version /\ versions[a][i].operation = o
  /\ o \in DOMAIN lineage
  /\ lineage[o] = [version |-> row.version, parent |-> row.lineage]
  /\ o \in DOMAIN discrepancies => discrepancies[o].resultId = row.version

RejectedRowValid(o) ==
  LET row == operations[o] IN
  /\ row.result = "rejected"
  /\ row.version = None
  /\ row.lineage = None
  /\ row.code # None
  /\ o \in DOMAIN discrepancies
  /\ discrepancies[o].resultId = o

LEMMA RowsInit == Init => RowsInv
<1> SUFFICES ASSUME Init PROVE RowsInv
  OBVIOUS
<1>1. pc = "idle" /\ discrepancies = EmptyTable
  BY DEF Init
<1>2. CASE EmptyStore
  BY <1>1, <1>2 DEF EmptyStore, EmptyTable, RowsInv, Running, ValidateCore, VersionRowsValid,
                    OperationRowsValid, NoOrphanRows
<1>3. ASSUME NEW a \in Artifacts, NEW c \in Contents, NEW o \in Ops, NEW w \in Owners,
             MigratedStore(a, c, o, w)
      PROVE  RowsInv
  <2> DEFINE id == <<a, c, o, w>>
             row == [id |-> id, operation |-> o, hash |-> c, owner |-> w,
                     ancestry |-> None, identity |-> None, path |-> None]
  <2>1. /\ versions[a] = <<row>> /\ \A b \in Artifacts : b # a => versions[b] = <<>>
        /\ artifacts = [k \in {a} |-> w]
        /\ lineage = [k \in {o} |-> [version |-> id, parent |-> None]]
        /\ DOMAIN operations = {o} /\ operations[o].result = "accepted"
        /\ operations[o].version = id /\ operations[o].lineage = None
        /\ operations[o].code = None
    BY <1>3 DEF MigratedStore
  <2>2. DOMAIN versions[a] = {1} /\ versions[a][1] = row
    BY <2>1
  <2>3. VersionRowsValid
    BY <2>1, <2>2 DEF VersionRowsValid
  <2>4. OperationRowsValid
    BY <1>1, <2>1, <2>2 DEF OperationRowsValid, EmptyTable
  <2>5. NoOrphanRows
    BY <1>1, <2>1 DEF NoOrphanRows, EmptyTable
  <2> QED
    BY <1>1, <2>1, <2>2, <2>3, <2>4, <2>5 DEF RowsInv, Running, ValidateCore
<1> QED
  BY <1>2, <1>3 DEF Init

(* Admission establishes what the commit needs.                            *)
LEMMA AdmitsValidRows ==
  ASSUME Admit PROVE ~OwnerConflict(req) /\ ~InvalidParent(req)
  BY NoneIsNoValue DEF Admit, Objection, Reasons

(* Where the rows after a commit come from.                                *)
LEMMA CommitRows ==
  ASSUME HistoryInv, Commit
  PROVE  \A b \in Artifacts : \A i \in DOMAIN versions'[b] :
           \/ i \in DOMAIN versions[b] /\ versions'[b][i] = versions[b][i]
           \/ b = req.artifact /\ versions'[b][i] = NewVersion(req)
<1> DEFINE a == req.artifact
           v == NewVersion(req)
<1>1. /\ versions[a] \in Seq(VersionRow) /\ versions'[a] = Append(versions[a], v)
      /\ \A b \in Artifacts : b # a => versions'[b] = versions[b]
  BY CommitAppends DEF HistoryInv
<1> HIDE DEF v, a
<1>2. \A i \in DOMAIN versions'[a] :
        \/ i \in DOMAIN versions[a] /\ versions'[a][i] = versions[a][i]
        \/ versions'[a][i] = v
  BY <1>1
<1> QED
  BY <1>1, <1>2 DEF a, v

(* And all rows are still there.                                           *)
LEMMA CommitHasRow ==
  ASSUME HistoryInv, Commit
  PROVE  /\ \A b \in Artifacts : \A i \in DOMAIN versions[b] :
              i \in DOMAIN versions'[b] /\ versions'[b][i] = versions[b][i]
         /\ \E i \in DOMAIN versions'[req.artifact] :
              versions'[req.artifact][i] = NewVersion(req)
<1> DEFINE a == req.artifact
           v == NewVersion(req)
<1>1. versions[a] \in Seq(VersionRow) /\ versions'[a] = Append(versions[a], v)
  BY CommitAppends DEF HistoryInv
<1>2. KeepsRecords
  BY CommitKeepsRecords
<1> HIDE DEF v, a
<1>3. Len(versions'[a]) \in DOMAIN versions'[a] /\ versions'[a][Len(versions'[a])] = v
  BY <1>1
<1> QED
  BY <1>2, <1>3 DEF KeepsRecords, a, v

LEMMA CommitKeepsRows ==
  ASSUME HistoryInv, RowsInv, Commit PROVE ValidateCore'
<1> DEFINE a == req.artifact
           o == req.op
           v == NewVersion(req)
<1>1. /\ o \notin DOMAIN operations /\ o \notin DOMAIN discrepancies
      /\ a \in Artifacts /\ UNCHANGED discrepancies
      /\ ~OwnerConflict(req) /\ ~InvalidParent(req)
  BY CommitAppends
  DEF Commit, HistoryInv, StillAdmitted, Running, RowsInv, ValidateCore, NoOrphanRows
<1>2. /\ DOMAIN operations' = DOMAIN operations \cup {o}
      /\ operations'[o].result = "accepted" /\ operations'[o].version = VersionId(req)
      /\ operations'[o].lineage = req.ancestry /\ operations'[o].code = None
      /\ \A p \in DOMAIN operations : operations'[p] = operations[p]
  <2> DEFINE row == [fingerprint |-> Fingerprint(req), result |-> "accepted",
                     version |-> VersionId(req), lineage |-> req.ancestry, code |-> None]
  <2>1. operations' = Insert(operations, req.op, row)
    BY DEF Commit
  <2>2. DOMAIN operations' = DOMAIN operations \cup {o} /\ operations'[o] = row
    BY <2>1 DEF Insert
  <2>3. \A p \in DOMAIN operations : operations'[p] = operations[p]
    BY <1>1, <2>1 DEF Insert
  <2> QED
    BY <2>2, <2>3
<1>3. /\ DOMAIN lineage' = DOMAIN lineage \cup {o}
      /\ lineage'[o] = [version |-> VersionId(req), parent |-> req.ancestry]
      /\ \A p \in DOMAIN lineage : p # o => lineage'[p] = lineage[p]
  BY DEF Commit, Insert
<1>4. /\ DOMAIN artifacts' = DOMAIN artifacts \cup {a} /\ artifacts'[a] = req.owner
      /\ \A b \in DOMAIN artifacts : artifacts'[b] = artifacts[b]
  BY <1>1 DEF Commit, InsertOrIgnore, Insert, OwnerConflict
<1>5. /\ v.id = VersionId(req) /\ v.operation = o /\ v.owner = req.owner
      /\ v.ancestry = req.ancestry
  BY DEF NewVersion
<1>6. /\ \A b \in Artifacts : \A i \in DOMAIN versions[b] :
           i \in DOMAIN versions'[b] /\ versions'[b][i] = versions[b][i]
      /\ \E i \in DOMAIN versions'[a] : versions'[a][i] = v
  BY CommitHasRow
<1>7. \A b \in Artifacts : \A i \in DOMAIN versions'[b] :
        \/ i \in DOMAIN versions[b] /\ versions'[b][i] = versions[b][i]
        \/ b = a /\ versions'[b][i] = v
  BY CommitRows
<1> HIDE DEF v
<1>8. VersionRowsValid'
  <2> SUFFICES ASSUME NEW b \in Artifacts, NEW i \in DOMAIN versions'[b]
               PROVE  LET w == versions'[b][i] IN
                      /\ b \in DOMAIN artifacts'
                      /\ artifacts'[b] = w.owner
                      /\ \/ w.ancestry = None
                         \/ \E j \in DOMAIN versions'[b] :
                              /\ versions'[b][j].id = w.ancestry
                              /\ versions'[b][j].owner = w.owner
                      /\ w.operation \in DOMAIN operations'
                      /\ operations'[w.operation].result = "accepted"
                      /\ operations'[w.operation].version = w.id
                      /\ operations'[w.operation].lineage = w.ancestry
                      /\ w.operation \in DOMAIN lineage'
    BY Zenon DEF VersionRowsValid
  <2>1. CASE i \in DOMAIN versions[b] /\ versions'[b][i] = versions[b][i]
    <3>1. LET w == versions[b][i] IN
          /\ b \in DOMAIN artifacts /\ artifacts[b] = w.owner
          /\ \/ w.ancestry = None
             \/ \E j \in DOMAIN versions[b] :
                  versions[b][j].id = w.ancestry /\ versions[b][j].owner = w.owner
          /\ w.operation \in DOMAIN operations
          /\ operations[w.operation].result = "accepted"
          /\ operations[w.operation].version = w.id
          /\ operations[w.operation].lineage = w.ancestry
          /\ w.operation \in DOMAIN lineage
      BY <2>1 DEF RowsInv, ValidateCore, VersionRowsValid
    <3> QED
      BY <1>2, <1>3, <1>4, <1>6, <2>1, <3>1
  <2>2. CASE b = a /\ versions'[b][i] = v
    <3>1. \/ req.ancestry = None
          \/ \E j \in DOMAIN versions[a] :
               versions[a][j].id = req.ancestry /\ versions[a][j].owner = req.owner
      BY <1>1 DEF InvalidParent
    <3>2. \/ req.ancestry = None
          \/ \E j \in DOMAIN versions'[a] :
               versions'[a][j].id = req.ancestry /\ versions'[a][j].owner = req.owner
      BY <1>1, <1>6, <3>1
    <3> QED
      BY <1>2, <1>3, <1>4, <1>5, <2>2, <3>2
  <2> QED
    BY <1>7, <2>1, <2>2
<1>9. OperationRowsValid'
  <2> SUFFICES ASSUME NEW p \in DOMAIN operations'
               PROVE  \/ AcceptedRow(p)'
                      \/ RejectedRowValid(p)'
    BY DEF OperationRowsValid, AcceptedRow, RejectedRowValid
  <2>1. CASE p = o
    <3>1. AcceptedRow(p)'
      BY <1>1, <1>2, <1>3, <1>5, <1>6, <2>1 DEF AcceptedRow
    <3> QED
      BY <3>1
  <2>2. CASE p # o
    <3>1. p \in DOMAIN operations /\ operations'[p] = operations[p]
      BY <1>2, <2>2
    <3>2. AcceptedRow(p) \/ RejectedRowValid(p)
      BY <3>1 DEF RowsInv, ValidateCore, OperationRowsValid, AcceptedRow, RejectedRowValid
    <3>3. ASSUME AcceptedRow(p) PROVE AcceptedRow(p)'
      <4>a. PICK b \in Artifacts : \E i \in DOMAIN versions[b] :
              versions[b][i].id = operations[p].version /\ versions[b][i].operation = p
        BY <3>3 DEF AcceptedRow
      <4>1. PICK i \in DOMAIN versions[b] :
              versions[b][i].id = operations[p].version /\ versions[b][i].operation = p
        BY <4>a
      <4>2. i \in DOMAIN versions'[b] /\ versions'[b][i] = versions[b][i]
        BY <1>6
      <4> QED
        BY <1>1, <1>3, <2>2, <3>1, <3>3, <4>1, <4>2 DEF AcceptedRow
    <3>4. ASSUME RejectedRowValid(p) PROVE RejectedRowValid(p)'
      BY <1>1, <3>1, <3>4 DEF RejectedRowValid
    <3> QED
      BY <3>2, <3>3, <3>4
  <2> QED
    BY <2>1, <2>2
<1>10. NoOrphanRows'
  BY <1>1, <1>2, <1>3 DEF RowsInv, ValidateCore, NoOrphanRows
<1> QED
  BY <1>8, <1>9, <1>10 DEF ValidateCore

LEMMA RejectKeepsRows ==
  ASSUME HistoryInv, RowsInv, Reject PROVE ValidateCore'
<1> DEFINE o == req.op
<1>1. UNCHANGED <<artifacts, versions, lineage>>
  BY DEF Reject
<1>2. /\ \A p \in DOMAIN operations : p \in DOMAIN operations' /\ operations'[p] = operations[p]
      /\ DOMAIN operations' = DOMAIN operations \cup {o}
      /\ o \notin DOMAIN operations => operations'[o] = RejectedRow(req)
  BY DEF Reject, InsertOrIgnore, Insert, WasAccepted
<1>3. /\ \A p \in DOMAIN discrepancies :
           p \in DOMAIN discrepancies' /\ discrepancies'[p] = discrepancies[p]
      /\ DOMAIN discrepancies' = DOMAIN discrepancies \cup {o}
      /\ o \notin DOMAIN discrepancies => discrepancies'[o] = DiscrepancyOf(req)
  BY DEF Reject, InsertOrIgnore, Insert
<1>4. VersionRowsValid'
  BY <1>1, <1>2 DEF RowsInv, ValidateCore, VersionRowsValid
<1>5. NoOrphanRows'
  BY <1>1, <1>2, <1>3 DEF RowsInv, ValidateCore, NoOrphanRows
<1>6. OperationRowsValid'
  <2> SUFFICES ASSUME NEW p \in DOMAIN operations'
               PROVE  AcceptedRow(p)' \/ RejectedRowValid(p)'
    BY DEF OperationRowsValid, AcceptedRow, RejectedRowValid
  <2>1. CASE p \in DOMAIN operations
    <3>1. AcceptedRow(p) \/ RejectedRowValid(p)
      BY <2>1 DEF RowsInv, ValidateCore, OperationRowsValid, AcceptedRow, RejectedRowValid
    <3>2. operations'[p] = operations[p]
      BY <1>2, <2>1
    <3>3. ASSUME RejectedRowValid(p) PROVE RejectedRowValid(p)'
      BY <1>3, <3>2, <3>3 DEF RejectedRowValid
    <3>4. ASSUME AcceptedRow(p) PROVE AcceptedRow(p)'
      <4>1. p \in DOMAIN discrepancies' => discrepancies'[p].resultId = operations[p].version
        BY <1>3, <2>1, <3>4 DEF AcceptedRow, DiscrepancyOf, WasAccepted
      <4> QED
        BY <1>1, <3>2, <3>4, <4>1 DEF AcceptedRow
    <3> QED
      BY <3>1, <3>3, <3>4
  <2>2. CASE p \notin DOMAIN operations
    <3>1. p = o /\ o \notin DOMAIN operations /\ o \notin DOMAIN discrepancies
      BY <1>2, <2>2 DEF RowsInv, ValidateCore, NoOrphanRows
    <3>2. CodeOf(objection) # None
      BY CodeType, NoneIsNoValue
    <3>3. RejectedRowValid(p)'
      BY <1>2, <1>3, <3>1, <3>2 DEF RejectedRowValid, RejectedRow, DiscrepancyOf, WasAccepted
    <3> QED
      BY <3>3
  <2> QED
    BY <2>1, <2>2
<1> QED
  BY <1>4, <1>5, <1>6 DEF ValidateCore

LEMMA RowsNext ==
  ASSUME HistoryInv, RowsInv, [Next]_vars PROVE RowsInv'
<1> DEFINE Named == \A a \in Artifacts : \A i \in DOMAIN versions[a] :
                      versions[a][i].id[3] = versions[a][i].operation
<1>1. ASSUME UNCHANGED database PROVE ValidateCore' /\ Named'
  BY <1>1 DEF RowsInv, ValidateCore, VersionRowsValid, OperationRowsValid, NoOrphanRows, database
<1>2. ASSUME UNCHANGED <<database, req>>, pc' \in Running => pc \in Running
      PROVE  pc' \in Running => ~OwnerConflict(req)' /\ ~InvalidParent(req)'
  <2> SUFFICES ASSUME pc' \in Running PROVE ~OwnerConflict(req)' /\ ~InvalidParent(req)'
    OBVIOUS
  <2>1. UNCHANGED <<artifacts, versions, req>>
    BY <1>2 DEF database
  <2>2. /\ OwnerConflict(req)' <=> OwnerConflict(req)
        /\ InvalidParent(req)' <=> InvalidParent(req)
    BY <2>1 DEF OwnerConflict, InvalidParent
  <2>3. ~OwnerConflict(req) /\ ~InvalidParent(req)
    BY <1>2 DEF RowsInv
  <2> QED
    BY <2>2, <2>3
<1>3. CASE Caller \/ Crash
  <2>1. UNCHANGED database /\ (pc' = "built" \/ pc' = "closed")
    <3>1. CASE Caller
      BY <3>1 DEF Caller, Build, database
    <3>2. CASE Crash
      BY <3>2 DEF Crash, database
    <3> QED
      BY <1>3, <3>1, <3>2
  <2> QED
    BY <1>1, <2>1 DEF RowsInv, Running
<1>4. CASE Reopen
  BY <1>1, <1>4 DEF Reopen, RowsInv, Running
<1>5. CASE UnresolvablePath \/ ReturnKnown \/ RollBack
  <2>1. UNCHANGED database /\ pc' = "idle"
    BY <1>5 DEF UnresolvablePath, ReturnKnown, RollBack, Return
  <2> QED
    BY <1>1, <2>1 DEF RowsInv, Running
<1>6. CASE RefuseImplicitDiscovery \/ RefuseReusedOperation \/ RefuseNew \/ RefuseObserved
  <2>1. UNCHANGED database /\ pc' = "refusing"
    BY <1>6 DEF RefuseImplicitDiscovery, RefuseReusedOperation, RefuseNew, RefuseObserved, Refuse
  <2> QED
    BY <1>1, <2>1 DEF RowsInv, Running
<1>7. CASE Admit
  <2>1. UNCHANGED <<database, req>> /\ pc' \in Running
    BY <1>7 DEF Admit, Running
  <2>2. ~OwnerConflict(req)' /\ ~InvalidParent(req)'
    BY <1>7, <2>1, AdmitsValidRows DEF OwnerConflict, InvalidParent, database
  <2> QED
    BY <1>1, <2>1, <2>2 DEF RowsInv, Running
<1>8. CASE ObserveFile \/ Reobserve
  <2>1. UNCHANGED <<database, req>> /\ pc \in Running /\ pc' \in Running
    BY <1>8 DEF ObserveFile, Reobserve, Running
  <2> QED
    BY <1>1, <1>2, <2>1 DEF RowsInv, Running
<1>9. CASE Editor \/ UNCHANGED vars
  <2>1. UNCHANGED <<database, req, pc>>
    BY <1>9 DEF Editor, RemoveFile, WriteInPlace, ReplaceFile, Edited, vars, process
  <2> QED
    BY <1>1, <1>2, <2>1 DEF RowsInv, Running
<1>10. CASE Commit
  <2>1. pc' = "idle" /\ ValidateCore'
    BY <1>10, CommitKeepsRows DEF Commit, Return
  <2>2. Named'
    <3>1. NewVersion(req).id[3] = NewVersion(req).operation
      BY DEF NewVersion, VersionId
    <3> QED
      BY <1>10, <3>1, CommitRows DEF RowsInv
  <2> QED
    BY <2>1, <2>2 DEF RowsInv, Running
<1>11. CASE Reject
  <2>1. pc' = "idle" /\ ValidateCore' /\ UNCHANGED versions
    BY <1>11, RejectKeepsRows DEF Reject, Return
  <2> QED
    BY <2>1 DEF RowsInv, Running
<1> QED
  BY <1>3, <1>4, <1>5, <1>6, <1>7, <1>8, <1>9, <1>10, <1>11 DEF Next, Import

(* Every row that an import or a refusal writes is what validate_core asks *)
(* of it, at every point at which the process may end.                     *)
THEOREM RowsHold == Spec => []RowsInv
<1>1. Init => HistoryInv /\ RowsInv
  BY HistoryInit, RowsInit
<1>2. HistoryInv /\ RowsInv /\ [Next]_vars => HistoryInv' /\ RowsInv'
  BY HistoryNext, RowsNext
<1> QED
  BY <1>1, <1>2, PTL DEF Spec

(* No sequence of imports, refusals and crashes makes a store that its own *)
(* next open refuses.                                                      *)
THEOREM StoreAlwaysReopens == Spec => []StoreReopens
<1>1. RowsInv => StoreReopens
  BY DEF RowsInv, StoreReopens
<1> QED
  BY <1>1, RowsHold, PTL

-----------------------------------------------------------------------------
(* The import implements VersionHistory.                                   *)

Entry(row) == [version |-> row.id, owner |-> row.owner]
Entries(rows) == [i \in DOMAIN rows |-> Entry(rows[i])]
Log == [a \in Artifacts |-> Entries(versions[a])]
Decided == [o \in DOMAIN operations |-> operations[o].version]
Answered == IF reply = None THEN None ELSE [op |-> reply.op, version |-> reply.version]

(* A function on an initial part of the naturals is a sequence.            *)
LEMMA IsSequence ==
  ASSUME NEW S, NEW n \in Nat, NEW f \in [1 .. n -> S]
  PROVE  f \in Seq(S) /\ Len(f) = n
  OBVIOUS

LEMMA AppendEntry ==
  ASSUME NEW rows \in Seq(VersionRow), NEW row \in VersionRow
  PROVE  Entries(Append(rows, row)) = Append(Entries(rows), Entry(row))
<1> DEFINE E == [version : VersionIds, owner : Owners]
           n == Len(rows)
<1>1. n \in Nat /\ DOMAIN rows = 1 .. n /\ \A i \in 1 .. n : rows[i] \in VersionRow
  OBVIOUS
<1>2. \A r \in VersionRow : Entry(r) \in E
  BY DEF Entry, VersionRow
<1>3. Entries(rows) \in [1 .. n -> E]
  BY <1>1, <1>2 DEF Entries
<1>4. Entries(rows) \in Seq(E) /\ Len(Entries(rows)) = n
  <2> HIDE DEF E, n
  <2> QED
    BY <1>1, <1>3, IsSequence
<1>5. Append(rows, row) \in Seq(VersionRow) /\ Len(Append(rows, row)) = n + 1
  OBVIOUS
<1>6. DOMAIN Entries(Append(rows, row)) = 1 .. n + 1
  BY <1>5 DEF Entries
<1> HIDE DEF E, n
<1>7. Entries(Append(rows, row)) \in Seq(E) /\ Len(Entries(Append(rows, row))) = n + 1
  <2>1. \A i \in 1 .. n + 1 : Append(rows, row)[i] \in VersionRow
    BY <1>1, <1>5
  <2>2. Entries(Append(rows, row)) \in [1 .. n + 1 -> E]
    BY <1>2, <1>5, <2>1 DEF Entries
  <2>3. n + 1 \in Nat
    BY <1>1
  <2> QED
    BY <2>2, <2>3, IsSequence
<1>8. Append(Entries(rows), Entry(row)) \in Seq(E)
      /\ Len(Append(Entries(rows), Entry(row))) = n + 1
  BY <1>2, <1>4
<1>9. ASSUME NEW i \in 1 .. n + 1
      PROVE  Entries(Append(rows, row))[i] = Append(Entries(rows), Entry(row))[i]
  <2>1. Entries(Append(rows, row))[i] = Entry(Append(rows, row)[i])
    BY <1>5 DEF Entries
  <2>2. CASE i = n + 1
    <3>1. Append(rows, row)[i] = row
      BY <2>2 DEF n
    <3>2. Append(Entries(rows), Entry(row))[i] = Entry(row)
      BY <1>4, <2>2
    <3> QED
      BY <2>1, <3>1, <3>2
  <2>3. CASE i # n + 1
    <3>1. i \in 1 .. n
      BY <1>1, <2>3
    <3>2. Append(rows, row)[i] = rows[i]
      BY <1>1, <3>1
    <3>3. Append(Entries(rows), Entry(row))[i] = Entries(rows)[i]
      BY <1>4, <3>1
    <3>4. Entries(rows)[i] = Entry(rows[i])
      BY <1>1, <3>1 DEF Entries
    <3> QED
      BY <2>1, <3>2, <3>3, <3>4
  <2> QED
    BY <2>2, <2>3
<1> QED
  BY <1>7, <1>8, <1>9, <1>1, SeqEqual

LEMMA LogInit == Init => Abstract!Init
<1> SUFFICES ASSUME Init PROVE Abstract!Init
  OBVIOUS
<1>1. Answered = None
  BY DEF Answered, Init
<1>2. CASE EmptyStore
  <2>1. Log = [a \in Artifacts |-> <<>>]
    BY <1>2 DEF EmptyStore, Log, Entries
  <2>2. Decided = [o \in {} |-> None]
    BY <1>2 DEF EmptyStore, EmptyTable, Decided
  <2> QED
    BY <1>1, <2>1, <2>2 DEF Abstract!Init, Abstract!NoDecision, Log, Decided, Answered, Entries, Entry
<1>3. ASSUME NEW a \in Artifacts, NEW c \in Contents, NEW o \in Ops, NEW w \in Owners,
             MigratedStore(a, c, o, w)
      PROVE  Abstract!Init
  <2> DEFINE id == <<a, c, o, w>>
             row == [id |-> id, operation |-> o, hash |-> c, owner |-> w,
                     ancestry |-> None, identity |-> None, path |-> None]
             first == [version |-> id, owner |-> w]
  <2>1. Entry(row) = first /\ first \in Abstract!Entry
    BY DEF Entry, Abstract!Entry, VersionIds
  <2>2. /\ versions = [b \in Artifacts |-> IF b # a THEN <<>> ELSE <<row>>]
        /\ DOMAIN operations = {o} /\ operations[o].version = id
    BY <1>3 DEF MigratedStore
  <2> HIDE DEF row, first
  <2>3. Entries(<<row>>) = <<first>>
    BY <2>1 DEF Entries
  <2>4. Entries(<<>>) = <<>>
    BY DEF Entries
  <2>5. Log = [b \in Artifacts |-> IF b = a THEN <<first>> ELSE <<>>]
    BY <2>2, <2>3, <2>4 DEF Log
  <2>6. first.version = id
    BY DEF first
  <2>7. Decided = [k \in {o} |-> first.version]
    BY <2>2, <2>6 DEF Decided
  <2>8. \E b \in Artifacts, k \in Ops, e \in Abstract!Entry :
          /\ Log = [x \in Artifacts |-> IF x = b THEN <<e>> ELSE <<>>]
          /\ Decided = [x \in {k} |-> e.version]
    BY <2>1, <2>5, <2>7, Zenon
  <2> QED
    BY <1>1, <2>8 DEF Abstract!Init, Log, Decided, Answered, Entries, Entry
<1> QED
  BY <1>2, <1>3 DEF Init

(* Each of the abstract steps, seen from the tables.                       *)
LEMMA AsksNext ==
  ASSUME UNCHANGED <<versions, operations>>, reply' = None
  PROVE  Abstract!Next
<1>1. Log' = Log /\ Decided' = Decided /\ Answered' = None
  BY DEF Log, Decided, Answered, Entries, Entry
<1>2. Abstract!Ask
  BY <1>1 DEF Abstract!Ask, Log, Decided, Answered, Entries, Entry
<1> QED
  BY <1>2 DEF Abstract!Next

LEMMA StuttersNext ==
  ASSUME UNCHANGED <<versions, operations, reply>>
  PROVE  UNCHANGED Abstract!vars
<1>1. Log' = Log /\ Decided' = Decided /\ Answered' = Answered
  BY DEF Log, Decided, Answered, Entries, Entry
<1> QED
  BY <1>1 DEF Abstract!vars, Log, Decided, Answered, Entries, Entry

(* A call that returns with a version or a refusal.                        *)
LEMMA ReturnAnswers ==
  ASSUME TypeInv, req # None, NEW outcome \in {"accepted"} \cup Codes,
         NEW version \in Maybe(VersionIds), Return(outcome, version)
  PROVE  Answered' = [op |-> req.op, version |-> version] /\ req.op \in Ops
<1>1. req.op \in Ops
  BY DEF TypeInv, TypeOK, Maybe, Request
<1>2. reply' = [op |-> req.op, outcome |-> outcome, version |-> version]
  BY DEF Return
<1>3. reply' \in Reply
  BY <1>1, <1>2 DEF Reply
<1>4. reply' # None /\ reply'.op = req.op /\ reply'.version = version
  BY <1>2, <1>3, NoneIsNoValue
<1> QED
  BY <1>1, <1>4 DEF Answered

LEMMA RefusedNext ==
  ASSUME TypeInv, req # None, NEW outcome \in Codes, Return(outcome, None),
         UNCHANGED <<versions, operations>>
  PROVE  Abstract!Next
<1>1. Answered' = [op |-> req.op, version |-> None] /\ req.op \in Ops
  BY ReturnAnswers DEF Maybe
<1>2. Log' = Log /\ Decided' = Decided
  BY DEF Log, Decided, Entries, Entry
<1>3. Abstract!AnswerRefused(req.op)
  BY <1>1, <1>2 DEF Abstract!AnswerRefused, Abstract!Answer, Log, Decided, Answered, Entries, Entry
<1> QED
  BY <1>1, <1>3 DEF Abstract!Next

LEMMA KnownNext ==
  ASSUME TypeInv, ReturnKnown PROVE Abstract!Next
<1>1. /\ req # None /\ req.op \in DOMAIN operations
      /\ UNCHANGED <<versions, operations>>
  BY RequestType DEF ReturnKnown, database
<1>2. CASE operations[req.op].result = "accepted"
  <2>1. operations[req.op].version \in Maybe(VersionIds)
    BY <1>1, <1>2 DEF TypeInv, DecisionsComplete, Maybe
  <2>2. Return("accepted", operations[req.op].version)
    BY <1>2 DEF ReturnKnown, FirstVersion
  <2>3. /\ Answered' = [op |-> req.op, version |-> operations[req.op].version]
        /\ req.op \in Ops
    BY <1>1, <2>1, <2>2, ReturnAnswers
  <2>4. /\ Log' = Log /\ Decided' = Decided /\ req.op \in DOMAIN Decided
        /\ Decided[req.op] = operations[req.op].version
    BY <1>1 DEF Log, Decided, Entries, Entry
  <2>5. Abstract!AnswerAgain(req.op)
    BY <2>3, <2>4
    DEF Abstract!AnswerAgain, Abstract!Answer, Log, Decided, Answered, Entries, Entry
  <2> QED
    BY <2>3, <2>5 DEF Abstract!Next
<1>3. CASE operations[req.op].result # "accepted"
  <2>1. operations[req.op].code \in Codes
    BY <1>1, <1>3 DEF TypeInv, DecisionsComplete
  <2>2. Return(operations[req.op].code, None)
    BY <1>3 DEF ReturnKnown
  <2> QED
    BY <1>1, <2>1, <2>2, RefusedNext
<1> QED
  BY <1>2, <1>3

LEMMA RejectNext ==
  ASSUME TypeInv, Reject PROVE Abstract!Next
<1>1. /\ req # None /\ UNCHANGED versions /\ CodeOf(objection) \in Codes
      /\ Return(CodeOf(objection), None)
  BY RequestType, CodeType DEF Reject
<1>2. CASE req.op \in DOMAIN operations
  <2>1. UNCHANGED operations
    BY <1>2 DEF Reject, InsertOrIgnore
  <2> QED
    BY <1>1, <2>1, RefusedNext
<1>3. CASE req.op \notin DOMAIN operations
  <2>1. operations' = Insert(operations, req.op, RejectedRow(req))
    BY <1>3 DEF Reject, InsertOrIgnore, WasAccepted
  <2>2. RejectedRow(req).version = None
    BY DEF RejectedRow
  <2>3. Decided' = [k \in DOMAIN Decided \cup {req.op} |->
                     IF k = req.op THEN None ELSE Decided[k]]
    BY <1>3, <2>1, <2>2 DEF Decided, Insert
  <2>4. Answered' = [op |-> req.op, version |-> None] /\ req.op \in Ops
    BY <1>1, ReturnAnswers DEF Maybe
  <2>5. Log' = Log /\ req.op \notin DOMAIN Decided
    BY <1>1, <1>3 DEF Log, Decided, Entries, Entry
  <2>6. PICK p \in Ops : p = req.op
    BY <2>4
  <2>7. Abstract!Refuse(p)
    BY <2>3, <2>4, <2>5, <2>6
    DEF Abstract!Refuse, Abstract!Decide, Abstract!Answer, Log, Decided, Answered, Entries, Entry
  <2> QED
    BY <2>7, Zenon DEF Abstract!Next
<1> QED
  BY <1>2, <1>3

(* The version a commit adds is new, and its owner began the history.      *)
LEMMA CommitNext ==
  ASSUME HistoryInv, RowsInv, Commit PROVE Abstract!Next
<1> DEFINE a == req.artifact
           o == req.op
           v == NewVersion(req)
           new == VersionId(req)
<1>1. /\ req \in Request /\ a \in Artifacts /\ o \in Ops /\ req.owner \in Owners
      /\ versions[a] \in Seq(VersionRow)
      /\ versions'[a] = Append(versions[a], v)
      /\ \A b \in Artifacts : b # a => versions'[b] = versions[b]
      /\ req # None
  BY CommitAppends, RequestType DEF HistoryInv, Request, Commit
<1>2. o \notin DOMAIN operations /\ ~OwnerConflict(req)
  BY DEF Commit, HistoryInv, StillAdmitted, Running, RowsInv
<1>3. new \in VersionIds /\ new[3] = o
  BY <1>1 DEF VersionId, VersionIds, Request
<1>4. Entry(v) = [version |-> new, owner |-> req.owner]
  BY DEF Entry, NewVersion
<1>5. v \in VersionRow
  BY <1>1, <1>3, NoneIsNoValue
  DEF NewVersion, VersionRow, Request, HistoryInv, TypeInv, TypeOK, Maybe, File
<1> HIDE DEF v, new
<1>6. Log' = [Log EXCEPT ![a] = Append(@, [version |-> new, owner |-> req.owner])]
  <2>1. Entries(versions'[a]) = Append(Entries(versions[a]), Entry(v))
    BY <1>1, <1>5, AppendEntry
  <2>2. Log' = [b \in Artifacts |-> Entries(versions'[b])]
    BY DEF Log, Entries, Entry
  <2> QED
    BY <1>1, <1>4, <2>1, <2>2 DEF Log
<1>7. /\ o \notin DOMAIN Decided
      /\ Decided' = [k \in DOMAIN Decided \cup {o} |-> IF k = o THEN new ELSE Decided[k]]
  <2> DEFINE row == [fingerprint |-> Fingerprint(req), result |-> "accepted",
                     version |-> VersionId(req), lineage |-> req.ancestry, code |-> None]
  <2>1. operations' = Insert(operations, req.op, row)
    BY DEF Commit
  <2>2. row.version = new
    BY DEF new
  <2> HIDE DEF row
  <2> QED
    BY <1>2, <2>1, <2>2 DEF Decided, Insert
<1>8. Answered' = [op |-> o, version |-> new]
  <2>1. Return("accepted", new)
    BY DEF Commit, new
  <2> QED
    BY <1>1, <1>3, <2>1, ReturnAnswers DEF Maybe, HistoryInv
<1>9. ASSUME NEW b \in Artifacts, NEW i \in DOMAIN versions[b]
      PROVE  /\ versions[b][i].id # new
             /\ b = a => versions[b][i].owner = req.owner
  <2>1. /\ versions[b][i].id[3] = versions[b][i].operation
        /\ versions[b][i].operation \in DOMAIN operations
        /\ b \in DOMAIN artifacts /\ artifacts[b] = versions[b][i].owner
    BY <1>9 DEF RowsInv, ValidateCore, VersionRowsValid
  <2> QED
    BY <1>2, <1>3, <2>1 DEF OwnerConflict
<1>10. \A b \in Artifacts : /\ DOMAIN Log[b] = DOMAIN versions[b]
                            /\ \A i \in DOMAIN versions[b] :
                                 /\ Log[b][i].version = versions[b][i].id
                                 /\ Log[b][i].owner = versions[b][i].owner
  BY DEF Log, Entries, Entry
<1>11. new \notin UNION {{Log[b][i].version : i \in DOMAIN Log[b]} : b \in Artifacts}
  BY <1>9, <1>10
<1>12. \A i \in DOMAIN Log[a] : Log[a][i].owner = req.owner
  BY <1>1, <1>9, <1>10
<1>13. PICK p \in Ops, w \in Owners, b \in Artifacts, k \in VersionIds :
         p = o /\ w = req.owner /\ b = a /\ k = new
  BY <1>1, <1>3
<1> HIDE DEF a, o
<1>14. Abstract!Accept(p, w, b, k)
  BY <1>6, <1>7, <1>8, <1>11, <1>12, <1>13
  DEF Abstract!Accept, Abstract!Decide, Abstract!Answer, Abstract!Logged, Log, Decided,
      Answered, Entries, Entry
<1> QED
  BY <1>14, Zenon DEF Abstract!Next

LEMMA AbstractNext ==
  ASSUME HistoryInv, RowsInv, [Next]_vars PROVE [Abstract!Next]_(Abstract!vars)
<1>1. TypeInv
  BY DEF HistoryInv
<1>2. CASE Caller \/ Crash
  <2>1. CASE Caller
    BY <2>1, AsksNext DEF Caller, Build, database
  <2>2. CASE Crash
    BY <2>2, AsksNext DEF Crash, database
  <2> QED
    BY <1>2, <2>1, <2>2
<1>3. CASE UnresolvablePath
  BY <1>1, <1>3, RequestType, RefusedNext DEF UnresolvablePath, Codes, database
<1>4. CASE RollBack
  BY <1>1, <1>4, RequestType, RefusedNext DEF RollBack, Codes, database
<1>5. CASE ReturnKnown \/ Reject \/ Commit
  BY <1>1, <1>5, KnownNext, RejectNext, CommitNext
<1>6. CASE \/ RefuseImplicitDiscovery \/ RefuseReusedOperation \/ RefuseNew
           \/ RefuseObserved \/ Admit \/ ObserveFile \/ Reobserve
  <2>1. UNCHANGED <<versions, operations, reply>>
    BY <1>6 DEF RefuseImplicitDiscovery, RefuseReusedOperation, RefuseNew, RefuseObserved,
                Refuse, Admit, ObserveFile, Reobserve, database
  <2> QED
    BY <2>1, StuttersNext
<1>7. CASE Reopen \/ Editor \/ UNCHANGED vars
  <2>1. UNCHANGED <<versions, operations, reply>>
    BY <1>7 DEF Reopen, Editor, RemoveFile, WriteInPlace, ReplaceFile, Edited, vars, database
  <2> QED
    BY <2>1, StuttersNext
<1> QED
  BY <1>2, <1>3, <1>4, <1>5, <1>6, <1>7 DEF Next, Import

(* What an observer of the store may rely on, VersionHistory, is what the  *)
(* import does, for any number of operations, owners and artifacts.        *)
THEOREM Refinement == Spec => ImplementsVersionHistory
<1>1. Init => Abstract!Init
  BY LogInit
<1>2. HistoryInv /\ RowsInv /\ [Next]_vars => [Abstract!Next]_(Abstract!vars)
  BY AbstractNext
<1> QED
  BY <1>1, <1>2, HistoryHolds, RowsHold, PTL DEF Spec, ImplementsVersionHistory, Abstract!Spec
=============================================================================
