---------------------------- MODULE StoreSchema ----------------------------
(***************************************************************************)
(* What a store file holds and what initialize (src/src/artifacts/         *)
(* schema.rs) makes of it: the upgrade of the schemas 0, 1 and 2 to        *)
(* schema 3, the check of a store of schema 3 and the making of a new one. *)
(*                                                                         *)
(* Tables, columns, indexes and triggers are grouped into Objects;         *)
(* "other" is anything the two canonical descriptors do not name, a        *)
(* changed table included.  A version row keeps its parent, where it came  *)
(* from and whether its hash, owner and artifact fit.  Refused operations, *)
(* discrepancies and the rows of later slices are left out.                *)
(***************************************************************************)
EXTENDS Integers, Sequences

CONSTANTS VersionIds, None

Errors == {"ambiguous", "unsupported"}

ASSUME NoneIsNoVersion == None \notin VersionIds \cup Int \cup Errors

Objects ==
  {"schema 0", "core", "observations", "decisions v2", "decisions v3", "events", "records",
   "slice 3", "reconciliation", "recovery", "other"}

VersionRow == [id : VersionIds, parent : VersionIds \cup {None},
               from : {"none", "native", "legacy"}, fits : BOOLEAN]
Link       == [version : VersionIds, parent : VersionIds \cup {None}]

(* A compatibility decision; exact says that its operation, actor, outcome,*)
(* result and fingerprint are those of the step.                           *)
Decision == [source : Int, target : Int, exact : BOOLEAN]

Tables ==
  [version   : Int \cup {None},     \* schema_metadata: schema_version, None if not there
   lineage   : {0, 1},              \* schema_metadata: migration_lineage
   objects   : SUBSET Objects,
   versions  : SUBSET VersionRow,
   accepted  : SUBSET Link,         \* the accepted rows of operations
   parents   : SUBSET Link,         \* the rows of lineage
   decisions : Seq(Decision)]       \* compatibility_decisions by id

(* A row is in a table.                                                    *)
Db == {db \in Tables :
         /\ db.versions # {} => db.objects \cap {"schema 0", "core"} # {}
         /\ db.decisions # <<>> => db.objects \cap {"decisions v2", "decisions v3"} # {}}

Nothing == [version |-> None, lineage |-> 0, objects |-> {}, versions |-> {}, accepted |-> {},
            parents |-> {}, decisions |-> <<>>]

LinksOf(rows) == {[version |-> r.id, parent |-> r.parent] : r \in rows}
Step(n)       == [source |-> n, target |-> n + 1, exact |-> TRUE]

-----------------------------------------------------------------------------
(* Pieces of the schema, and the checks.                                   *)

CanonicalV2 == {"core", "decisions v2", "events", "records", "slice 3"}
CanonicalV3 == {"core", "observations", "decisions v3", "events", "records", "slice 3",
                "reconciliation", "recovery"}

WithRecords(objects) == objects \cup {"events", "records", "slice 3"}
WithSlice4(objects)  == objects \cup {"reconciliation", "recovery"}

RowsFit(rows) ==
  \A r \in rows : r.fits /\ (r.parent # None => \E p \in rows : p.id = r.parent)

(* validate_core                                                           *)
CoreValid(db) ==
  /\ db.lineage = 1
  /\ RowsFit(db.versions)
  /\ \A r \in db.versions : r.from \in {"native", "legacy"}
  /\ db.accepted = LinksOf(db.versions)
  /\ db.parents = LinksOf(db.versions)

(* validate_v3_compatibility                                               *)
ChainValid(decisions) ==
  decisions \in {<<Step(2)>>, <<Step(1), Step(2)>>, <<Step(0), Step(1), Step(2)>>}

(* validate_v2_compatibility; require_slice3_decision is its last conjunct.*)
V2Compatible(db) ==
  /\ db.objects = CanonicalV2
  /\ db.lineage = 1
  /\ \E i \in DOMAIN db.decisions :
       /\ db.decisions[i] = Step(1)
       /\ \A j \in DOMAIN db.decisions \ {i} :
            db.decisions[j].source # 1 \/ db.decisions[j].target # 2

V3Valid(db) == db.objects = CanonicalV3 /\ ChainValid(db.decisions) /\ CoreValid(db)

-----------------------------------------------------------------------------
(* initialize, one operator for each schema it finds.                      *)

Done(db)   == [error |-> None, db |-> db]
Refused(e) == [error |-> e, db |-> Nothing]

(* Faulty variant: a new store keeps no decision.                          *)
DecideUpgrades(db, n) ==
  IF db.decisions = <<>> /\ n = 2 THEN db ELSE [db EXCEPT !.decisions = Append(@, Step(n))]

Decide(db, n) == [db EXCEPT !.decisions = Append(@, Step(n))]

Fresh ==
  Done(Decide([Nothing EXCEPT !.version = 3, !.lineage = 1, !.objects = CanonicalV3], 2))

(* The same from schema 0, 1 and 2 once the store looks like schema 2:     *)
(* migrate_v2_to_v3, the checks of schema 3 and the new schema_version.    *)
Upgrade(db) ==
  LET upgraded == Decide([db EXCEPT !.objects = WithSlice4((@ \ {"decisions v2"})
                                                 \cup {"observations", "decisions v3"})], 2)
  IN  IF V2Compatible(db) /\ V3Valid(upgraded)
        THEN Done([upgraded EXCEPT !.version = 3]) ELSE Refused("ambiguous")

(* Faulty variant: the rows of schema 0 are copied as the store's own.     *)
CopiedAsNative(rows) == {[r EXCEPT !.from = "native"] : r \in rows}

Copied(rows) == {[r EXCEPT !.from = "legacy"] : r \in rows}

(* migrate, then the decision of slice 3 and its tables.                   *)
FromV0(db) ==
  IF db.objects = {"schema 0"} /\ db.lineage = 0 /\ RowsFit(db.versions)
    THEN Upgrade([version   |-> 1,
                  lineage   |-> 1,
                  objects   |-> WithRecords({"core", "decisions v2"}),
                  versions  |-> Copied(db.versions),
                  accepted  |-> LinksOf(db.versions),
                  parents   |-> LinksOf(db.versions),
                  decisions |-> <<Step(0), Step(1)>>])
    ELSE Refused("ambiguous")

(* A store of schema 1 that has tables of slice 3 is checked against       *)
(* columns only schema 3 has, and refused.  Without them a table of        *)
(* decisions that is there is left as it is, the missing tables with it.   *)
FromV1(db) ==
  IF "core" \notin db.objects \/ "slice 3" \in db.objects THEN Refused("ambiguous")
  ELSE IF db.objects \cap {"decisions v2", "decisions v3"} # {} THEN Upgrade(Decide(db, 1))
  ELSE Upgrade(Decide([db EXCEPT !.objects = WithRecords(@) \cup {"decisions v2"}], 1))

FromV2(db) == Upgrade(db)

(* Missing tables of slice 4 are made, whatever became of the old ones.    *)
FromV3(db) ==
  LET ensured == [db EXCEPT !.objects = WithSlice4(@)]
  IN  IF V3Valid(ensured) THEN Done(ensured) ELSE Refused("ambiguous")

Initialize(db) ==
  IF db.version = None THEN IF db.objects = {} THEN Fresh ELSE Refused("ambiguous")
  ELSE IF db.version = 0 THEN FromV0(db)
  ELSE IF db.version = 1 THEN FromV1(db)
  ELSE IF db.version = 2 THEN FromV2(db)
  ELSE IF db.version = 3 THEN FromV3(db)
  ELSE Refused(IF db.version > 3 THEN "unsupported" ELSE "ambiguous")

-----------------------------------------------------------------------------
(* What an upgrade owes to a store: Whole(new, old) says that new is a     *)
(* whole store of schema 3 with every version of old in it, each marked    *)
(* with where it came from, every link of the history, and a decision for  *)
(* each step from the schema of old on, after those old had.               *)

FirstStep(old) == IF old.version = None THEN 2 ELSE old.version

Sources(decisions) == {decisions[i].source : i \in DOMAIN decisions}

Kept(new, old) ==
  \A r \in old.versions :
    [r EXCEPT !.from = IF old.version = 0 THEN "legacy" ELSE @] \in new.versions

Added(new, old) ==
  \A r \in new.versions : r.from = "native" \/ \E s \in old.versions : s.id = r.id

Whole(new, old) ==
  /\ old.version \in {None, 0, 1, 2, 3} /\ new.version = 3
  /\ V3Valid(new)
  /\ Sources(new.decisions) = Sources(old.decisions) \cup FirstStep(old) .. 2
  /\ Kept(new, old) /\ Added(new, old)
=============================================================================
